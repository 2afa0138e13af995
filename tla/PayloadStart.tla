---------------------------- MODULE PayloadStart ----------------------------
(***************************************************************************)
(* One process from its fork to the verdict of the installation: the       *)
(* Zygisk module (ZygiskLoader) loads the payload or does not, the         *)
(* payload's constructor and threads run (HookManager), and the bootstrap  *)
(* thread's probe of the pattern scanner (PatternScanner) stands between   *)
(* the message that BNM is armed and the start of the fallback.            *)
(*                                                                         *)
(* The probe always asks for the same pattern; here it may ask for         *)
(* anything in Requests, and finds any memory in it.                       *)
(***************************************************************************)
EXTENDS HookManager, ZygiskLoader, PatternScanner

VARIABLE probed  \* the probe has returned

probeVars == <<scanVars, probed>>
startVars == <<vars, loaderVars, probeVars>>

StartInit == Init /\ LoaderInit /\ ScanInit /\ probed = FALSE

\* dlopen runs the constructor to its end, if it gets that far.
ConstructorInside ==
  loader = "dlopen" =>
    IF loader' = "failed" THEN boot = "load" ELSE boot \notin {"load", "spawn"}

LoaderTurn == LoaderNext /\ ConstructorInside /\ UNCHANGED <<vars, probeVars>>

\* A step of the payload: it begins inside dlopen, and the bootstrap thread
\* does not pass its probe before that has returned.
PayloadTurn(Step) ==
  /\ Step
  /\ boot = "load" /\ boot' # boot => loader = "dlopen"
  /\ boot = "fallback" /\ boot' # boot => probed
  /\ UNCHANGED <<loaderVars, probeVars>>

\* dl_iterate_phdr waits for the dynamic linker's lock, which dlopen holds.
\* The result is logged; nothing else remains of the call.
Probe ==
  /\ boot = "fallback" /\ ~probed
  /\ place = "idle" => loader # "dlopen"
  /\ ScanNext
  /\ probed' = (place = "done")
  /\ UNCHANGED <<vars, loaderVars>>

StartNext ==
  \/ LoaderTurn
  \/ PayloadTurn(Next)
  \/ Probe

\* HookManager's fairness, and the loader and the probe go on.
StartFairness ==
  /\ WF_startVars(LoaderTurn)
  /\ WF_startVars(Probe)
  /\ WF_startVars(PayloadTurn(Bootstrap))
  /\ \A c \in Callers : WF_startVars(PayloadTurn(CallbackThread(c)))
  /\ WF_startVars(PayloadTurn(FallbackThread))
  /\ \A w \in Workers : WF_startVars(PayloadTurn(InstallThreadMain(w)))

StartSpec == StartInit /\ [][StartNext]_startVars /\ StartFairness

-----------------------------------------------------------------------------
StartTypeOK == TypeOK /\ LoaderTypeOK /\ ScanTypeOK /\ probed \in BOOLEAN

\* Nothing of the payload happens in a process that is not the game's, and in
\* the game's the app's own rights are what it happens with: not a message, not
\* a thread before postAppSpecialize has come to dlopen ("process-targeted
\* payload injection", README.md 16).
OnlyInTheGame ==
  boot # "load" \/ feed # <<>> \/ armed =>
    IsGameName(nice_name) /\ loader \in {"dlopen", "injected"}

\* The Zygisk module leaves every process it has no business in, and the game's
\* only once the payload's constructor is over ("Loader can be unloaded after
\* injection", zygisk_loader.cpp 82).
LoaderLeaves ==
  /\ loader = "idle" => closing /\ ~IsGameName(nice_name)
  /\ closing /\ IsGameName(nice_name) => Published("payload_loaded") /\ boot # "spawn"
=============================================================================
