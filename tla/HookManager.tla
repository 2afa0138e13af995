----------------------------- MODULE HookManager -----------------------------
(***************************************************************************)
(* The life of the payload inside the game process, from the library       *)
(* constructor (main.cpp) to the end of hook installation                  *)
(* (hook_manager.cpp).  The threads are                                    *)
(*                                                                         *)
(*   - the loader thread, which runs the constructor, and the bootstrap    *)
(*     thread it creates (one program counter, boot: the constructor ends  *)
(*     by creating the thread);                                            *)
(*   - Callers, the game threads on which BNM may call OnBNMLoaded;        *)
(*   - Late, the late-injection fallback thread;                           *)
(*   - Workers, one slot for each install thread that pthread_create could *)
(*     ever produce.                                                       *)
(*                                                                         *)
(* A step is one access to an atomic flag, one Publish, one pthread_create *)
(* or one group's Install().  Log lines, prctl and pthread_detach change   *)
(* no state that another step reads and are left out; IPCFeed is the       *)
(* sequence of the messages handed to it (module IpcFeed has what becomes  *)
(* of them), a group's Install() is its result (module HookInstall has how *)
(* it comes about), and the Zygisk module and the pattern-scanner probe    *)
(* are added in module PayloadStart.                                       *)
(***************************************************************************)
EXTENDS Naturals, Sequences

CONSTANTS
  Callers,               \* game threads that may run the BNM callback
  Late,                  \* the late-injection fallback thread
  Workers,               \* slots for install threads
  LateFallbackAttempts,  \* kLateFallbackAttempts (50 in the code)
  MaxCreateFailures      \* bound: how many pthread_create calls may fail

ASSUME ThreadsAssumption == Late \notin Callers
ASSUME BoundsAssumption ==
  LateFallbackAttempts \in Nat /\ MaxCreateFailures \in Nat

\* The threads that call StartInstallThread.
Starters == Callers \cup {Late}

\* The order in which InstallHooks runs the groups.
InstallOrder == <<"roll", "jail", "coinflip", "pickups", "chance", "speed">>
NumGroups == Len(InstallOrder)
Groups == 1..NumGroups

Events == {"payload_loaded", "bnm_bootstrap_armed", "bnm_ready",
           "late_injection_fallback", "hook_install_start",
           "hook_install_partial", "hook_install_success"}

VARIABLES
  g_bnm_bootstrap_started,
  g_bnm_loaded_callback_seen,
  g_install_thread_started,
  g_hooks_installed,
  g_late_fallback_started,
  boot,            \* constructor, then bootstrap thread: program counter
  pc,              \* of each starter
  polls,           \* i of LateInjectionFallbackMain
  worker,          \* program counter of each install thread; "none": not created
  attached_here,   \* result of AttachIl2Cpp on each install thread
  group,           \* the group the install thread runs next
  ok,              \* conjunction of the groups' results on each install thread
  installs,        \* how often each group's Install() has been entered
  armed,           \* BNM holds its il2cpp hooks and may call back
  createFailures,  \* pthread_create calls that have failed
  feed             \* the messages published so far

flags == <<g_bnm_bootstrap_started, g_bnm_loaded_callback_seen,
           g_install_thread_started, g_hooks_installed, g_late_fallback_started>>
workerVars == <<worker, attached_here, group, ok, installs>>
vars == <<flags, boot, pc, polls, workerVars, armed, createFailures, feed>>

BootStates == {"load", "spawn", "init", "attempt", "armed", "fallback", "createLate", "done"}
StarterStates == {"idle", "ready", "poll", "late", "start", "create", "done"}
WorkerStates == {"none", "attach", "check", "mark", "announce", "install", "detach", "done"}

TypeOK ==
  /\ g_bnm_bootstrap_started \in BOOLEAN
  /\ g_bnm_loaded_callback_seen \in BOOLEAN
  /\ g_install_thread_started \in BOOLEAN
  /\ g_hooks_installed \in BOOLEAN
  /\ g_late_fallback_started \in BOOLEAN
  /\ boot \in BootStates
  /\ pc \in [Starters -> StarterStates]
  /\ polls \in 0..LateFallbackAttempts
  /\ worker \in [Workers -> WorkerStates]
  /\ attached_here \in [Workers -> BOOLEAN]
  /\ group \in [Workers -> 1..(NumGroups + 1)]
  /\ ok \in [Workers -> BOOLEAN]
  /\ installs \in [Groups -> Nat]
  /\ armed \in BOOLEAN
  /\ createFailures \in 0..MaxCreateFailures
  /\ feed \in Seq(Events)

Init ==
  /\ g_bnm_bootstrap_started = FALSE
  /\ g_bnm_loaded_callback_seen = FALSE
  /\ g_install_thread_started = FALSE
  /\ g_hooks_installed = FALSE
  /\ g_late_fallback_started = FALSE
  /\ boot = "load"
  /\ pc = [s \in Starters |-> "idle"]
  /\ polls = 0
  /\ worker = [w \in Workers |-> "none"]
  /\ attached_here = [w \in Workers |-> FALSE]
  /\ group = [w \in Workers |-> 1]
  /\ ok = [w \in Workers |-> TRUE]
  /\ installs = [g \in Groups |-> 0]
  /\ armed = FALSE
  /\ createFailures = 0
  /\ feed = <<>>

Publish(message) == feed' = Append(feed, message)

\* A pthread_create returns an error: out of resources, at most
\* MaxCreateFailures times in a behaviour.
CreateFails ==
  /\ createFailures < MaxCreateFailures
  /\ createFailures' = createFailures + 1

-----------------------------------------------------------------------------
(* The constructor and the bootstrap thread. *)

OnLibraryLoad ==
  /\ boot = "load"
  /\ Publish("payload_loaded")
  /\ boot' = "spawn"
  /\ UNCHANGED <<flags, pc, polls, workerVars, armed, createFailures>>

CreateBootstrapThread ==
  /\ boot = "spawn"
  /\ \/ boot' = "init" /\ UNCHANGED createFailures
     \/ boot' = "done" /\ CreateFails
  /\ UNCHANGED <<flags, pc, polls, workerVars, armed, feed>>

\* The callback is registered here; BNM has no hook to call it from yet.
InitializeBNM ==
  /\ boot = "init"
  /\ g_bnm_bootstrap_started' = TRUE
  /\ boot' = IF g_bnm_bootstrap_started THEN "done" ELSE "attempt"
  /\ UNCHANGED <<g_bnm_loaded_callback_seen, g_install_thread_started, g_hooks_installed,
                 g_late_fallback_started, pc, polls, workerVars, armed, createFailures, feed>>

\* The attempt that succeeds.  Attempts that fail change only the counter of
\* the endless loop, and nothing says that one ever succeeds.
ArmBNM ==
  /\ boot = "attempt"
  /\ armed' = TRUE
  /\ boot' = "armed"
  /\ UNCHANGED <<flags, pc, polls, workerVars, createFailures, feed>>

PublishArmed ==
  /\ boot = "armed"
  /\ Publish("bnm_bootstrap_armed")
  /\ boot' = "fallback"
  /\ UNCHANGED <<flags, pc, polls, workerVars, armed, createFailures>>

StartLateInjectionFallbackThread ==
  /\ boot = "fallback"
  /\ g_late_fallback_started' = TRUE
  /\ boot' = IF g_late_fallback_started THEN "done" ELSE "createLate"
  /\ UNCHANGED <<g_bnm_bootstrap_started, g_bnm_loaded_callback_seen, g_install_thread_started,
                 g_hooks_installed, pc, polls, workerVars, armed, createFailures, feed>>

CreateLateFallbackThread ==
  /\ boot = "createLate"
  /\ boot' = "done"
  /\ \/ /\ pc' = [pc EXCEPT ![Late] = "poll"]
        /\ UNCHANGED <<g_late_fallback_started, createFailures>>
     \/ /\ CreateFails
        /\ g_late_fallback_started' = FALSE
        /\ UNCHANGED pc
  /\ UNCHANGED <<g_bnm_bootstrap_started, g_bnm_loaded_callback_seen, g_install_thread_started,
                 g_hooks_installed, polls, workerVars, armed, feed>>

-----------------------------------------------------------------------------
(* The BNM callback and the late-injection fallback. *)

\* As if the callback ignored the result of the exchange.
AnyCallback == TRUE
\* What the exchange of g_bnm_loaded_callback_seen lets through.
FirstCallback == ~g_bnm_loaded_callback_seen

OnBNMLoaded(c) ==
  /\ pc[c] = "idle"
  /\ armed
  /\ g_bnm_loaded_callback_seen' = TRUE
  /\ pc' = [pc EXCEPT ![c] = IF FirstCallback THEN "ready" ELSE "done"]
  /\ UNCHANGED <<g_bnm_bootstrap_started, g_install_thread_started, g_hooks_installed,
                 g_late_fallback_started, boot, polls, workerVars, armed, createFailures, feed>>

PublishReady(c) ==
  /\ pc[c] = "ready"
  /\ Publish("bnm_ready")
  /\ pc' = [pc EXCEPT ![c] = "start"]
  /\ UNCHANGED <<flags, boot, polls, workerVars, armed, createFailures>>

\* As if the loop ran to LateFallbackAttempts inclusive.
PollCallbackInclusive ==
  /\ pc[Late] = "poll"
  /\ IF g_bnm_loaded_callback_seen
       THEN pc' = [pc EXCEPT ![Late] = "done"] /\ UNCHANGED polls
       ELSE /\ polls' = polls + 1
            /\ pc' = [pc EXCEPT ![Late] = IF polls > LateFallbackAttempts THEN "late" ELSE @]
  /\ UNCHANGED <<flags, boot, workerVars, armed, createFailures, feed>>

\* As if the fallback gave up at its timeout.
PollCallbackGiveUp ==
  /\ pc[Late] = "poll"
  /\ \/ /\ polls < LateFallbackAttempts
        /\ ~g_bnm_loaded_callback_seen
        /\ polls' = polls + 1
        /\ UNCHANGED pc
     \/ /\ polls = LateFallbackAttempts \/ g_bnm_loaded_callback_seen
        /\ pc' = [pc EXCEPT ![Late] = "done"]
        /\ UNCHANGED polls
  /\ UNCHANGED <<flags, boot, workerVars, armed, createFailures, feed>>

\* One turn of the fallback's loop, or its end.
PollCallback ==
  /\ pc[Late] = "poll"
  /\ \/ /\ polls < LateFallbackAttempts
        /\ g_bnm_loaded_callback_seen
        /\ pc' = [pc EXCEPT ![Late] = "done"]
        /\ UNCHANGED polls
     \/ /\ polls < LateFallbackAttempts
        /\ ~g_bnm_loaded_callback_seen
        /\ polls' = polls + 1
        /\ UNCHANGED pc
     \/ /\ polls = LateFallbackAttempts
        /\ pc' = [pc EXCEPT ![Late] = "late"]
        /\ UNCHANGED polls
  /\ UNCHANGED <<flags, boot, workerVars, armed, createFailures, feed>>

PublishLate ==
  /\ pc[Late] = "late"
  /\ Publish("late_injection_fallback")
  /\ pc' = [pc EXCEPT ![Late] = "start"]
  /\ UNCHANGED <<flags, boot, polls, workerVars, armed, createFailures>>

-----------------------------------------------------------------------------
(* StartInstallThread, on a callback thread or on the fallback thread. *)

\* As if StartInstallThread ignored the result of the exchange.
InstallThreadAlwaysUnclaimed == TRUE
\* What the exchange of g_install_thread_started lets through.
InstallThreadUnclaimed == ~g_install_thread_started

StartInstallThread(s) ==
  /\ pc[s] = "start"
  /\ g_install_thread_started' = TRUE
  /\ pc' = [pc EXCEPT ![s] = IF InstallThreadUnclaimed THEN "create" ELSE "done"]
  /\ UNCHANGED <<g_bnm_bootstrap_started, g_bnm_loaded_callback_seen, g_hooks_installed,
                 g_late_fallback_started, boot, polls, workerVars, armed, createFailures, feed>>

\* As if the flag were lowered again whether or not the thread was created.
CreateInstallThreadReset(s) ==
  /\ pc[s] = "create"
  /\ pc' = [pc EXCEPT ![s] = "done"]
  /\ \E w \in Workers : worker[w] = "none" /\ worker' = [worker EXCEPT ![w] = "attach"]
  /\ g_install_thread_started' = FALSE
  /\ UNCHANGED <<g_bnm_bootstrap_started, g_bnm_loaded_callback_seen, g_hooks_installed,
                 g_late_fallback_started, boot, polls, attached_here, group, ok, installs,
                 armed, createFailures, feed>>

CreateInstallThread(s) ==
  /\ pc[s] = "create"
  /\ pc' = [pc EXCEPT ![s] = "done"]
  /\ \/ \E w \in Workers :
          /\ worker[w] = "none"
          /\ worker' = [worker EXCEPT ![w] = "attach"]
          /\ UNCHANGED <<g_install_thread_started, createFailures>>
     \/ /\ CreateFails
        /\ g_install_thread_started' = FALSE
        /\ UNCHANGED worker
  /\ UNCHANGED <<g_bnm_bootstrap_started, g_bnm_loaded_callback_seen, g_hooks_installed,
                 g_late_fallback_started, boot, polls, attached_here, group, ok, installs,
                 armed, feed>>

-----------------------------------------------------------------------------
(* InstallThreadMain and InstallHooks. *)

\* AttachIl2Cpp, then the warm-up sleep.
AttachIl2Cpp(w) ==
  /\ worker[w] = "attach"
  /\ \E attached \in BOOLEAN : attached_here' = [attached_here EXCEPT ![w] = attached]
  /\ worker' = [worker EXCEPT ![w] = "check"]
  /\ UNCHANGED <<flags, boot, pc, polls, group, ok, installs, armed, createFailures, feed>>

\* Where an install thread goes when InstallHooks returns.
AfterInstallHooks(w) == IF attached_here[w] THEN "detach" ELSE "done"

\* g_hooks_installed is loaded here and stored by MarkInstalled: two steps.
CheckInstalled(w) ==
  /\ worker[w] = "check"
  /\ worker' = [worker EXCEPT ![w] = IF g_hooks_installed THEN AfterInstallHooks(w) ELSE "mark"]
  /\ UNCHANGED <<flags, boot, pc, polls, attached_here, group, ok, installs, armed,
                 createFailures, feed>>

MarkInstalled(w) ==
  /\ worker[w] = "mark"
  /\ g_hooks_installed' = TRUE
  /\ worker' = [worker EXCEPT ![w] = "announce"]
  /\ UNCHANGED <<g_bnm_bootstrap_started, g_bnm_loaded_callback_seen, g_install_thread_started,
                 g_late_fallback_started, boot, pc, polls, attached_here, group, ok, installs,
                 armed, createFailures, feed>>

PublishStart(w) ==
  /\ worker[w] = "announce"
  /\ Publish("hook_install_start")
  /\ worker' = [worker EXCEPT ![w] = "install"]
  /\ UNCHANGED <<flags, boot, pc, polls, attached_here, group, ok, installs, armed, createFailures>>

\* As if the groups' results were not all combined: only the last one counts.
InstallGroupLastResult(w) ==
  /\ worker[w] = "install"
  /\ group[w] \in Groups
  /\ installs' = [installs EXCEPT ![group[w]] = @ + 1]
  /\ \E result \in BOOLEAN : ok' = [ok EXCEPT ![w] = result]
  /\ group' = [group EXCEPT ![w] = @ + 1]
  /\ UNCHANGED <<flags, boot, pc, polls, worker, attached_here, armed, createFailures, feed>>

InstallGroup(w) ==
  /\ worker[w] = "install"
  /\ group[w] \in Groups
  /\ installs' = [installs EXCEPT ![group[w]] = @ + 1]
  /\ \E result \in BOOLEAN : ok' = [ok EXCEPT ![w] = @ /\ result]
  /\ group' = [group EXCEPT ![w] = @ + 1]
  /\ UNCHANGED <<flags, boot, pc, polls, worker, attached_here, armed, createFailures, feed>>

PublishSummary(w) ==
  /\ worker[w] = "install"
  /\ group[w] = NumGroups + 1
  /\ Publish(IF ok[w] THEN "hook_install_success" ELSE "hook_install_partial")
  /\ worker' = [worker EXCEPT ![w] = AfterInstallHooks(w)]
  /\ UNCHANGED <<flags, boot, pc, polls, attached_here, group, ok, installs, armed, createFailures>>

DetachIl2Cpp(w) ==
  /\ worker[w] = "detach"
  /\ worker' = [worker EXCEPT ![w] = "done"]
  /\ UNCHANGED <<flags, boot, pc, polls, attached_here, group, ok, installs, armed,
                 createFailures, feed>>

-----------------------------------------------------------------------------
Bootstrap ==
  \/ OnLibraryLoad
  \/ CreateBootstrapThread
  \/ InitializeBNM
  \/ PublishArmed
  \/ StartLateInjectionFallbackThread
  \/ CreateLateFallbackThread

CallbackThread(c) ==
  \/ PublishReady(c)
  \/ StartInstallThread(c)
  \/ CreateInstallThread(c)

FallbackThread ==
  \/ PollCallback
  \/ PublishLate
  \/ StartInstallThread(Late)
  \/ CreateInstallThread(Late)

InstallThreadMain(w) ==
  \/ AttachIl2Cpp(w)
  \/ CheckInstalled(w)
  \/ MarkInstalled(w)
  \/ PublishStart(w)
  \/ InstallGroup(w)
  \/ PublishSummary(w)
  \/ DetachIl2Cpp(w)

Next ==
  \/ Bootstrap
  \/ ArmBNM
  \/ \E c \in Callers : OnBNMLoaded(c) \/ CallbackThread(c)
  \/ FallbackThread
  \/ \E w \in Workers : InstallThreadMain(w)

\* A thread that exists runs.  Nothing is assumed of the game: BNM may never
\* be armed (ArmBNM) and may never call back (OnBNMLoaded).
Fairness ==
  /\ WF_vars(Bootstrap)
  /\ \A c \in Callers : WF_vars(CallbackThread(c))
  /\ WF_vars(FallbackThread)
  /\ \A w \in Workers : WF_vars(InstallThreadMain(w))

Spec == Init /\ [][Next]_vars
FairSpec == Spec /\ Fairness

-----------------------------------------------------------------------------
Published(message) == \E i \in 1..Len(feed) : feed[i] = message

\* No group is ever entered a second time, however many callbacks and
\* fallbacks ask for an installation: a second DobbyHook of the same address
\* would chain a detour to itself.  This is what g_install_thread_started and
\* g_hooks_installed (hook_manager.cpp 345, 381-387) are for.
InstallsAtMostOnce == \A g \in Groups : installs[g] <= 1

\* Each publish of second reports something that has been reported to start
\* by an earlier publish of one of the firsts.
OnlyAfter(second, firsts) ==
  \A j \in 1..Len(feed) : feed[j] = second => \E i \in 1..(j - 1) : feed[i] \in firsts

\* The order in which a reader of the feed sees the life cycle, across the
\* five threads that publish it: nothing before payload_loaded, an
\* installation only after the callback or the fallback announced itself, the
\* fallback only after arming, a verdict only after the start; and no message
\* twice, not even when BNM calls back on two threads.
FeedOrder ==
  /\ \A i \in 1..Len(feed), j \in 1..Len(feed) : feed[i] = feed[j] => i = j
  /\ feed # <<>> => feed[1] = "payload_loaded"
  /\ OnlyAfter("late_injection_fallback", {"bnm_bootstrap_armed"})
  /\ OnlyAfter("hook_install_start", {"bnm_ready", "late_injection_fallback"})
  /\ OnlyAfter("hook_install_partial", {"hook_install_start"})
  /\ OnlyAfter("hook_install_success", {"hook_install_start"})

\* Once the bootstrap is armed the installation reaches a verdict, whether BNM
\* calls back in time, late, twice or never (README.md, Known Limits: the
\* fallback path for missed BNM callback timing).  It needs every
\* pthread_create to succeed.
ArmedLeadsToVerdict ==
  [](createFailures = 0) =>
    (armed ~> (Published("hook_install_success") \/ Published("hook_install_partial")))

\* BNM's callback leads to an installation (README.md, Runtime Model 4 and 5).
ReadyLeadsToInstall == Published("bnm_ready") ~> Published("hook_install_start")

-----------------------------------------------------------------------------
(* The inductive invariant behind InstallsAtMostOnce. *)

\* Who holds the right to install: a starter that won the exchange and is
\* about to create the thread, or an install thread.
Creators == {s \in Starters : pc[s] = "create"}
Created == {w \in Workers : worker[w] # "none"}

\* The exchange lets one starter through at a time, and the flag is down only
\* while nobody holds the right.
SingleClaim ==
  /\ Creators # {} \/ Created # {} => g_install_thread_started
  /\ Creators = {} \/ Created = {}
  /\ \A s, t \in Creators : s = t
  /\ \A v, w \in Created : v = w

Marked == {"announce", "install", "detach", "done"}

\* The install thread's place in InstallHooks decides the flag, and its group
\* counter decides which groups have been entered.
InstallProgress ==
  /\ g_hooks_installed <=> \E w \in Workers : worker[w] \in Marked
  /\ \A w \in Workers :
       /\ worker[w] \in WorkerStates \ {"install", "detach", "done"} =>
            group[w] = 1 /\ ok[w]
       /\ worker[w] \in {"detach", "done"} => group[w] = NumGroups + 1
       /\ worker[w] # "none" =>
            \A g \in Groups : installs[g] = (IF g < group[w] THEN 1 ELSE 0)
  /\ Created = {} => \A g \in Groups : installs[g] = 0

\* What has been published of the installation is where the install thread is.
ReportProgress ==
  /\ Published("hook_install_start") <=>
       \E w \in Workers : worker[w] \in {"install", "detach", "done"}
  /\ Published("hook_install_success") <=>
       \E w \in Workers : worker[w] \in {"detach", "done"} /\ ok[w]
  /\ Published("hook_install_partial") <=>
       \E w \in Workers : worker[w] \in {"detach", "done"} /\ ~ok[w]

\* Together they are inductive: the one invariant from which the theorems of
\* HookManagerProofs follow.
ClaimInv == TypeOK /\ SingleClaim /\ InstallProgress /\ ReportProgress

-----------------------------------------------------------------------------
(* The promise: InstallOnce, its phase read off the feed. *)

Phase ==
  IF Published("hook_install_success") THEN "success"
  ELSE IF Published("hook_install_partial") THEN "partial"
  ELSE IF Published("hook_install_start") THEN "running"
  ELSE "idle"

\* What the feed reports of the installation is what happened: a start before
\* the first group is entered, every group entered in order before the
\* verdict, and the verdict "success" only if every group succeeded.
Abstract == INSTANCE InstallOnce WITH
  phase <- Phase,
  allOk <- \A w \in Workers : ok[w]

ImplementsInstallOnce == Abstract!Spec
=============================================================================
