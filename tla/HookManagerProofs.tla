-------------------------- MODULE HookManagerProofs --------------------------
(***************************************************************************)
(* Theorems about HookManager, for any number of callback threads and      *)
(* install threads, any fallback timeout and any number of pthread_create  *)
(* failures.                                                               *)
(***************************************************************************)
EXTENDS HookManager, TLAPS

\* The six groups of InstallHooks.
LEMMA GroupsAre1To6 == NumGroups = 6 /\ Groups = 1..6
BY DEF NumGroups, Groups, InstallOrder

\* A message handed to Publish extends the feed.
LEMMA PublishTyped ==
  ASSUME feed \in Seq(Events), NEW message \in Events, Publish(message)
  PROVE  feed' \in Seq(Events)
BY DEF Publish

\* A failed pthread_create counts up to the bound.
LEMMA CreateFailsTyped ==
  ASSUME createFailures \in 0..MaxCreateFailures, CreateFails
  PROVE  createFailures' \in 0..MaxCreateFailures
BY BoundsAssumption DEF CreateFails

\* Every variable keeps its type: the counters stay within their bounds and
\* the feed carries only the seven messages of the life cycle.
THEOREM TypeCorrect == Spec => []TypeOK
<1> USE GroupsAre1To6, BoundsAssumption
<1>1. Init => TypeOK
  <2> SUFFICES ASSUME Init PROVE TypeOK
    OBVIOUS
  <2>1. ok \in [Workers -> BOOLEAN] /\ attached_here \in [Workers -> BOOLEAN]
    BY Zenon DEF Init
  <2>2. 0 \in 0..LateFallbackAttempts /\ 0 \in 0..MaxCreateFailures
    OBVIOUS
  <2>3. feed \in Seq(Events) /\ group \in [Workers -> 1..(NumGroups + 1)]
    BY DEF Init
  <2> QED BY <2>1, <2>2, <2>3 DEF Init, TypeOK, BootStates, StarterStates, WorkerStates
<1>2. TypeOK /\ [Next]_vars => TypeOK'
  <2> SUFFICES ASSUME TypeOK, [Next]_vars PROVE TypeOK'
    OBVIOUS
  <2> USE DEF TypeOK, BootStates, StarterStates, WorkerStates, flags, workerVars
  <2>1. CASE Bootstrap
    <3>1. CASE OnLibraryLoad BY <3>1, PublishTyped DEF OnLibraryLoad, Events
    <3>2. CASE CreateBootstrapThread BY <3>2 DEF CreateBootstrapThread, CreateFails
    <3>3. CASE InitializeBNM BY <3>3 DEF InitializeBNM
    <3>4. CASE PublishArmed BY <3>4, PublishTyped DEF PublishArmed, Events
    <3>5. CASE StartLateInjectionFallbackThread
      BY <3>5 DEF StartLateInjectionFallbackThread
    <3>6. CASE CreateLateFallbackThread
      BY <3>6, CreateFailsTyped DEF CreateLateFallbackThread
    <3> QED BY <2>1, <3>1, <3>2, <3>3, <3>4, <3>5, <3>6 DEF Bootstrap
  <2>2. CASE ArmBNM BY <2>2 DEF ArmBNM
  <2>3. ASSUME NEW c \in Callers, OnBNMLoaded(c) PROVE TypeOK'
    BY <2>3 DEF OnBNMLoaded
  <2>4. ASSUME NEW c \in Callers, PublishReady(c) PROVE TypeOK'
    BY <2>4, PublishTyped DEF PublishReady, Events
  <2>5. CASE PollCallback
    <3>1. polls' \in 0..LateFallbackAttempts BY <2>5 DEF PollCallback
    <3> QED BY <2>5, <3>1 DEF PollCallback
  <2>6. CASE PublishLate BY <2>6, PublishTyped DEF PublishLate, Events
  <2>7. ASSUME NEW s \in Starters, StartInstallThread(s) PROVE TypeOK'
    BY <2>7 DEF StartInstallThread
  <2>8. ASSUME NEW s \in Starters, CreateInstallThread(s) PROVE TypeOK'
    BY <2>8, CreateFailsTyped DEF CreateInstallThread
  <2>9. ASSUME NEW w \in Workers, InstallThreadMain(w) PROVE TypeOK'
    <3>1. CASE AttachIl2Cpp(w) BY <3>1 DEF AttachIl2Cpp
    <3>2. CASE CheckInstalled(w) BY <3>2 DEF CheckInstalled, AfterInstallHooks
    <3>3. CASE MarkInstalled(w) BY <3>3 DEF MarkInstalled
    <3>4. CASE PublishStart(w) BY <3>4, PublishTyped DEF PublishStart, Events
    <3>5. CASE InstallGroup(w)
      <4>1. group[w] + 1 \in 1..(NumGroups + 1) /\ installs[group[w]] + 1 \in Nat
        BY <3>5 DEF InstallGroup
      <4>2. \A result \in BOOLEAN : (ok[w] /\ result) \in BOOLEAN
        OBVIOUS
      <4> QED BY <3>5, <4>1, <4>2 DEF InstallGroup
    <3>6. CASE PublishSummary(w)
      <4>1. feed' \in Seq(Events) BY <3>6, PublishTyped DEF PublishSummary, Events
      <4> QED BY <3>6, <4>1 DEF PublishSummary, AfterInstallHooks
    <3>7. CASE DetachIl2Cpp(w) BY <3>7 DEF DetachIl2Cpp
    <3> QED BY <2>9, <3>1, <3>2, <3>3, <3>4, <3>5, <3>6, <3>7 DEF InstallThreadMain
  <2>10. CASE UNCHANGED vars BY <2>10 DEF vars
  <2> QED
    BY <2>1, <2>2, <2>3, <2>4, <2>5, <2>6, <2>7, <2>8, <2>9, <2>10
    DEF Next, CallbackThread, FallbackThread, Starters
<1> QED BY <1>1, <1>2, PTL DEF Spec

-----------------------------------------------------------------------------
(* The inductive invariant.  SingleClaim is about the exchange in           *)
(* StartInstallThread: pc, worker and g_install_thread_started.            *)

\* A step that adds no creator and keeps the install threads and the flag
\* keeps SingleClaim.
LEMMA SingleClaimFrame ==
  ASSUME SingleClaim, UNCHANGED g_install_thread_started,
         Creators' \subseteq Creators, Created' = Created
  PROVE  SingleClaim'
BY DEF SingleClaim

\* A step of a starter that does not enter "create" adds no creator.
LEMMA QuietStarter ==
  ASSUME TypeOK, NEW s \in Starters, NEW x, x # "create",
         pc' = [pc EXCEPT ![s] = x]
  PROVE  Creators' \subseteq Creators
BY DEF TypeOK, Creators

\* A step of an install thread keeps the set of created threads.
LEMMA QuietWorker ==
  ASSUME TypeOK, NEW w \in Workers, InstallThreadMain(w)
  PROVE  /\ Created' = Created
         /\ UNCHANGED <<g_install_thread_started, pc>>
<1>1. /\ worker[w] # "none"
      /\ \E x \in WorkerStates \ {"none"} : worker' = [worker EXCEPT ![w] = x]
      /\ UNCHANGED <<g_install_thread_started, pc>>
  <2> USE DEF TypeOK, WorkerStates, flags
  <2>1. CASE AttachIl2Cpp(w) BY <2>1 DEF AttachIl2Cpp
  <2>2. CASE CheckInstalled(w) BY <2>2 DEF CheckInstalled, AfterInstallHooks
  <2>3. CASE MarkInstalled(w) BY <2>3 DEF MarkInstalled
  <2>4. CASE PublishStart(w) BY <2>4 DEF PublishStart
  <2>5. CASE InstallGroup(w)
    <3>1. worker[w] = "install" /\ worker' = worker BY <2>5 DEF InstallGroup
    <3>2. worker' = [worker EXCEPT ![w] = "install"] BY <3>1
    <3> QED BY <2>5, <3>1, <3>2 DEF InstallGroup
  <2>6. CASE PublishSummary(w) BY <2>6 DEF PublishSummary, AfterInstallHooks
  <2>7. CASE DetachIl2Cpp(w) BY <2>7 DEF DetachIl2Cpp
  <2> QED BY <2>1, <2>2, <2>3, <2>4, <2>5, <2>6, <2>7 DEF InstallThreadMain
<1> QED BY <1>1 DEF Created, TypeOK

\* The flag is exchanged, so whoever passes finds nobody before it; a failed
\* creation lowers the flag only when its creator gives up the right.
LEMMA SingleClaimStep ==
  ASSUME TypeOK, SingleClaim, [Next]_vars
  PROVE  SingleClaim'
<1> USE DEF flags, workerVars
<1>1. CASE Bootstrap
  <2>1. UNCHANGED <<worker, g_install_thread_started>>
    BY <1>1 DEF Bootstrap, OnLibraryLoad, CreateBootstrapThread, InitializeBNM, PublishArmed,
                StartLateInjectionFallbackThread, CreateLateFallbackThread
  <2>2. pc' = pc \/ pc' = [pc EXCEPT ![Late] = "poll"]
    BY <1>1 DEF Bootstrap, OnLibraryLoad, CreateBootstrapThread, InitializeBNM, PublishArmed,
                StartLateInjectionFallbackThread, CreateLateFallbackThread
  <2>3. Creators' \subseteq Creators
    BY <2>2, QuietStarter DEF Starters, Creators
  <2> QED BY <2>1, <2>3, SingleClaimFrame DEF Created
<1>2. CASE ArmBNM
  BY <1>2, SingleClaimFrame DEF ArmBNM, Creators, Created
<1>3. ASSUME NEW c \in Callers, OnBNMLoaded(c) \/ PublishReady(c)
      PROVE  SingleClaim'
  <2>1. \E x \in {"ready", "start", "done"} : pc' = [pc EXCEPT ![c] = x]
    BY <1>3 DEF OnBNMLoaded, PublishReady
  <2>2. Creators' \subseteq Creators
    BY <2>1, QuietStarter DEF Starters
  <2> QED BY <1>3, <2>2, SingleClaimFrame DEF OnBNMLoaded, PublishReady, Created
<1>4. CASE PollCallback \/ PublishLate
  <2>1. pc' = pc \/ \E x \in {"late", "start", "done"} : pc' = [pc EXCEPT ![Late] = x]
    BY <1>4 DEF PollCallback, PublishLate
  <2>2. Creators' \subseteq Creators
    BY <2>1, QuietStarter DEF Starters, Creators
  <2> QED BY <1>4, <2>2, SingleClaimFrame DEF PollCallback, PublishLate, Created
<1>5. ASSUME NEW s \in Starters, StartInstallThread(s) PROVE SingleClaim'
  <2>1. CASE g_install_thread_started
    <3>1. pc' = [pc EXCEPT ![s] = "done"] /\ UNCHANGED <<g_install_thread_started, worker>>
      BY <1>5, <2>1 DEF StartInstallThread, InstallThreadUnclaimed
    <3>2. Creators' \subseteq Creators BY <3>1, QuietStarter
    <3> QED BY <3>1, <3>2, SingleClaimFrame DEF Created
  <2>2. CASE ~g_install_thread_started
    <3>1. Creators = {} /\ Created = {} BY <2>2 DEF SingleClaim
    <3>2. /\ pc' = [pc EXCEPT ![s] = "create"]
          /\ g_install_thread_started'
          /\ UNCHANGED worker
      BY <1>5, <2>2 DEF StartInstallThread, InstallThreadUnclaimed
    <3>3. Creators' = {s} BY <3>1, <3>2 DEF Creators, TypeOK
    <3>4. Created' = {} BY <3>1, <3>2 DEF Created
    <3> QED BY <3>2, <3>3, <3>4 DEF SingleClaim
  <2> QED BY <2>1, <2>2
<1>6. ASSUME NEW s \in Starters, CreateInstallThread(s) PROVE SingleClaim'
  <2>1. s \in Creators /\ Creators = {s} /\ Created = {} /\ g_install_thread_started
    BY <1>6 DEF CreateInstallThread, SingleClaim, Creators
  <2>2. Creators' = {}
    BY <1>6, <2>1 DEF CreateInstallThread, Creators, TypeOK
  <2>3. CASE UNCHANGED worker
    BY <2>1, <2>2, <2>3 DEF SingleClaim, Created
  <2>4. ASSUME NEW w \in Workers, worker' = [worker EXCEPT ![w] = "attach"],
               UNCHANGED g_install_thread_started
        PROVE  SingleClaim'
    <3>1. Created' = {w} BY <2>1, <2>4 DEF Created, TypeOK
    <3> QED BY <2>1, <2>2, <2>4, <3>1 DEF SingleClaim
  <2> QED BY <1>6, <2>3, <2>4 DEF CreateInstallThread
<1>7. ASSUME NEW w \in Workers, InstallThreadMain(w) PROVE SingleClaim'
  BY <1>7, QuietWorker, SingleClaimFrame DEF Creators
<1>8. CASE UNCHANGED vars
  BY <1>8, SingleClaimFrame DEF vars, Creators, Created
<1> QED
  BY <1>1, <1>2, <1>3, <1>4, <1>5, <1>6, <1>7, <1>8
  DEF Next, CallbackThread, FallbackThread, Starters

-----------------------------------------------------------------------------
(* InstallProgress is about the install thread that SingleClaim makes      *)
(* unique: its place in InstallHooks, its group counter and the flag.      *)

\* A step that keeps what InstallProgress speaks of keeps it.
LEMMA InstallProgressFrame ==
  ASSUME InstallProgress, UNCHANGED <<g_hooks_installed, worker, group, ok, installs>>
  PROVE  InstallProgress'
BY DEF InstallProgress, Created

\* With one install thread, every other slot is unused.
LEMMA OtherSlotsUnused ==
  ASSUME SingleClaim, NEW w \in Workers, worker[w] # "none"
  PROVE  \A v \in Workers : v # w => worker[v] = "none"
BY DEF SingleClaim, Created

LEMMA InstallProgressStep ==
  ASSUME TypeOK, SingleClaim, InstallProgress, [Next]_vars
  PROVE  InstallProgress'
<1> USE DEF flags, workerVars
<1>1. CASE Bootstrap
  BY <1>1, InstallProgressFrame
  DEF Bootstrap, OnLibraryLoad, CreateBootstrapThread, InitializeBNM, PublishArmed,
      StartLateInjectionFallbackThread, CreateLateFallbackThread
<1>2. CASE ArmBNM \/ PollCallback \/ PublishLate
  BY <1>2, InstallProgressFrame DEF ArmBNM, PollCallback, PublishLate
<1>3. ASSUME NEW c \in Callers, OnBNMLoaded(c) \/ PublishReady(c)
      PROVE  InstallProgress'
  BY <1>3, InstallProgressFrame DEF OnBNMLoaded, PublishReady
<1>4. ASSUME NEW s \in Starters, StartInstallThread(s) PROVE InstallProgress'
  BY <1>4, InstallProgressFrame DEF StartInstallThread
<1>5. ASSUME NEW s \in Starters, CreateInstallThread(s) PROVE InstallProgress'
  <2>1. CASE UNCHANGED worker
    BY <1>5, <2>1, InstallProgressFrame DEF CreateInstallThread
  <2>2. ASSUME NEW w \in Workers, worker[w] = "none",
               worker' = [worker EXCEPT ![w] = "attach"]
        PROVE  InstallProgress'
    <3>1. Created = {}
      BY <1>5 DEF CreateInstallThread, SingleClaim, Creators
    <3>2. UNCHANGED <<g_hooks_installed, group, ok, installs>>
      BY <1>5 DEF CreateInstallThread
    <3>3. \A v \in Workers : worker[v] = "none" BY <3>1 DEF Created
    <3>4. \A v \in Workers : worker'[v] = (IF v = w THEN "attach" ELSE "none")
      BY <2>2, <3>3 DEF TypeOK
    <3>5. Created' = {w} BY <3>4 DEF Created
    <3>6. ~g_hooks_installed
      BY <3>3 DEF InstallProgress, Marked
    <3>7. (g_hooks_installed <=> \E v \in Workers : worker[v] \in Marked)'
      BY <3>2, <3>4, <3>6 DEF Marked
    <3>8. \A v \in Workers : group[v] = 1 /\ ok[v]
      BY <3>3 DEF InstallProgress, WorkerStates
    <3>9. \A g \in Groups : installs[g] = (IF g < 1 THEN 1 ELSE 0)
      BY <3>1, GroupsAre1To6 DEF InstallProgress
    <3> QED BY <3>2, <3>4, <3>5, <3>7, <3>8, <3>9 DEF InstallProgress
  <2> QED BY <1>5, <2>1, <2>2 DEF CreateInstallThread
<1>6. ASSUME NEW w \in Workers, InstallThreadMain(w) PROVE InstallProgress'
  <2>1. worker[w] \in WorkerStates \ {"none", "done"}
    BY <1>6 DEF InstallThreadMain, AttachIl2Cpp, CheckInstalled, MarkInstalled, PublishStart,
                InstallGroup, PublishSummary, DetachIl2Cpp, WorkerStates
  <2>2. /\ Created' = Created
        /\ w \in Created
        /\ \A v \in Workers : v # w => worker[v] = "none"
    BY <1>6, <2>1, QuietWorker, OtherSlotsUnused DEF Created
  <2>3. g_hooks_installed <=> worker[w] \in Marked
    BY <2>2 DEF InstallProgress, Marked
  \* What is left to show is about w alone.
  <2>4. ASSUME NEW x \in WorkerStates, worker' = [worker EXCEPT ![w] = x], x # "none",
               UNCHANGED <<group, ok, installs>>,
               g_hooks_installed' <=> x \in Marked,
               x \in WorkerStates \ {"install", "detach", "done"} => group[w] = 1 /\ ok[w],
               x \in {"detach", "done"} => group[w] = NumGroups + 1
        PROVE  InstallProgress'
    <3>1. \A v \in Workers : worker'[v] = (IF v = w THEN x ELSE worker[v])
      BY <2>4 DEF TypeOK
    <3>2. (g_hooks_installed <=> \E v \in Workers : worker[v] \in Marked)'
      BY <2>2, <2>4, <3>1 DEF Marked
    <3> QED BY <2>1, <2>2, <2>4, <3>1, <3>2 DEF InstallProgress
  <2>5. CASE AttachIl2Cpp(w)
    BY <2>1, <2>3, <2>4, <2>5 DEF AttachIl2Cpp, InstallProgress, WorkerStates, Marked
  <2>6. CASE CheckInstalled(w)
    <3>1. ~g_hooks_installed BY <2>3, <2>6 DEF CheckInstalled, Marked
    <3> QED BY <2>1, <2>4, <2>6, <3>1
            DEF CheckInstalled, InstallProgress, WorkerStates, Marked
  <2>7. CASE MarkInstalled(w)
    BY <2>1, <2>4, <2>7 DEF MarkInstalled, InstallProgress, WorkerStates, Marked
  <2>8. CASE PublishStart(w)
    BY <2>1, <2>3, <2>4, <2>8 DEF PublishStart, InstallProgress, WorkerStates, Marked
  <2>9. CASE InstallGroup(w)
    <3>1. /\ group[w] \in Groups
          /\ worker[w] = "install"
          /\ UNCHANGED <<worker, g_hooks_installed>>
          /\ group' = [group EXCEPT ![w] = group[w] + 1]
          /\ installs' = [installs EXCEPT ![group[w]] = installs[group[w]] + 1]
          /\ \A v \in Workers : v # w => ok'[v] = ok[v]
      BY <2>9 DEF InstallGroup, TypeOK
    <3>2. \A g \in Groups : installs[g] = (IF g < group[w] THEN 1 ELSE 0)
      BY <3>1 DEF InstallProgress
    <3>3. \A g \in Groups : installs'[g] = (IF g < group'[w] THEN 1 ELSE 0)
      <4>1. group'[w] = group[w] + 1 /\ group[w] \in 1..6
        BY <3>1, GroupsAre1To6 DEF TypeOK
      <4>2. \A g \in Groups :
              installs'[g] = (IF g = group[w] THEN installs[g] + 1 ELSE installs[g])
        BY <3>1 DEF TypeOK
      <4>3. ASSUME NEW g \in 1..6
            PROVE  installs'[g] = (IF g < group'[w] THEN 1 ELSE 0)
        <5>1. g \in Groups BY GroupsAre1To6
        <5>2. CASE g = group[w]
          <6>1. installs[g] = 0 BY <3>2, <4>1, <5>1, <5>2
          <6> QED BY <4>1, <4>2, <5>1, <5>2, <6>1
        <5>3. CASE g # group[w]
          <6>1. g < group'[w] <=> g < group[w] BY <4>1, <5>3
          <6> QED BY <3>2, <4>2, <5>1, <5>3, <6>1
        <5> QED BY <5>2, <5>3
      <4> QED BY <4>3, GroupsAre1To6
    <3>4. \A v \in Workers : v # w => worker'[v] = "none" /\ group'[v] = group[v]
      BY <2>2, <3>1 DEF TypeOK
    <3> QED BY <2>2, <3>1, <3>3, <3>4 DEF InstallProgress
  <2>10. CASE PublishSummary(w)
    BY <2>1, <2>3, <2>4, <2>10
    DEF PublishSummary, AfterInstallHooks, InstallProgress, WorkerStates, Marked
  <2>11. CASE DetachIl2Cpp(w)
    BY <2>1, <2>3, <2>4, <2>11 DEF DetachIl2Cpp, InstallProgress, WorkerStates, Marked
  <2> QED BY <1>6, <2>5, <2>6, <2>7, <2>8, <2>9, <2>10, <2>11 DEF InstallThreadMain
<1>7. CASE UNCHANGED vars
  BY <1>7, InstallProgressFrame DEF vars
<1> QED
  BY <1>1, <1>2, <1>3, <1>4, <1>5, <1>6, <1>7
  DEF Next, CallbackThread, FallbackThread, Starters

-----------------------------------------------------------------------------
(* ReportProgress, and with it the refinement of InstallOnce.               *)

\* A Publish adds its message to what has been published.
LEMMA PublishAdds ==
  ASSUME TypeOK, NEW message \in Events, Publish(message)
  PROVE  \A e : Published(e)' <=> (Published(e) \/ e = message)
<1>1. /\ feed \in Seq(Events)
      /\ feed' = Append(feed, message)
  BY DEF TypeOK, Publish
<1>2. /\ Len(feed) \in Nat
      /\ Len(feed') = Len(feed) + 1
      /\ feed'[Len(feed) + 1] = message
      /\ \A i \in 1..Len(feed) : feed'[i] = feed[i]
  BY <1>1
<1>3. 1..Len(feed') = 1..Len(feed) \cup {Len(feed) + 1}
  BY <1>2
<1> QED BY <1>2, <1>3 DEF Published

Verdicts == {"hook_install_start", "hook_install_partial", "hook_install_success"}

\* A step that publishes no message about the installation keeps the phase.
\* It may publish another message, or none.
LEMMA QuietFeed ==
  ASSUME TypeOK,
         UNCHANGED feed \/ \E m \in Events \ Verdicts : Publish(m)
  PROVE  \A e \in Verdicts : Published(e)' <=> Published(e)
<1>1. CASE UNCHANGED feed BY <1>1 DEF Published
<1>2. ASSUME NEW m \in Events \ Verdicts, Publish(m)
      PROVE  \A e \in Verdicts : Published(e)' <=> Published(e)
  BY <1>2, PublishAdds
<1> QED BY <1>1, <1>2

\* The steps of the constructor, the bootstrap thread and the starters.
LEMMA OutsideInstall ==
  ASSUME TypeOK, SingleClaim, InstallProgress, [Next]_vars,
         \A w \in Workers : ~InstallThreadMain(w)
  PROVE  /\ UNCHANGED <<installs, ok>>
         /\ \A w \in Workers : worker'[w] = worker[w] \/ (worker[w] = "none" /\ worker'[w] = "attach")
         /\ \A e \in Verdicts : Published(e)' <=> Published(e)
<1> USE DEF flags, workerVars
<1>1. UNCHANGED <<installs, ok>>
  BY SMTT(30) DEF Next, Bootstrap, OnLibraryLoad, CreateBootstrapThread, InitializeBNM, PublishArmed,
         StartLateInjectionFallbackThread, CreateLateFallbackThread, ArmBNM, CallbackThread,
         OnBNMLoaded, PublishReady, StartInstallThread, CreateInstallThread, FallbackThread,
         PollCallback, PublishLate, vars
<1>2. worker' = worker \/ \E w \in Workers : /\ worker[w] = "none"
                                           /\ worker' = [worker EXCEPT ![w] = "attach"]
  BY DEF Next, Bootstrap, OnLibraryLoad, CreateBootstrapThread, InitializeBNM, PublishArmed,
         StartLateInjectionFallbackThread, CreateLateFallbackThread, ArmBNM, CallbackThread,
         OnBNMLoaded, PublishReady, StartInstallThread, CreateInstallThread, FallbackThread,
         PollCallback, PublishLate, vars
<1>3. UNCHANGED feed \/ \E m \in Events \ Verdicts : Publish(m)
  BY DEF Next, Bootstrap, OnLibraryLoad, CreateBootstrapThread, InitializeBNM, PublishArmed,
         StartLateInjectionFallbackThread, CreateLateFallbackThread, ArmBNM, CallbackThread,
         OnBNMLoaded, PublishReady, StartInstallThread, CreateInstallThread, FallbackThread,
         PollCallback, PublishLate, vars, Events, Verdicts
<1>4. \A w \in Workers : worker'[w] = worker[w] \/ (worker[w] = "none" /\ worker'[w] = "attach")
  BY <1>2 DEF TypeOK
<1>5. \A e \in Verdicts : Published(e)' <=> Published(e)
  BY <1>3, QuietFeed
<1> QED BY <1>1, <1>4, <1>5

LEMMA ReportProgressStep ==
  ASSUME TypeOK, SingleClaim, InstallProgress, ReportProgress, [Next]_vars
  PROVE  ReportProgress'
<1>1. CASE \A w \in Workers : ~InstallThreadMain(w)
  BY <1>1, OutsideInstall DEF ReportProgress, Verdicts
<1>2. ASSUME NEW w \in Workers, InstallThreadMain(w) PROVE ReportProgress'
  <2>1. worker[w] # "none"
    BY <1>2 DEF InstallThreadMain, AttachIl2Cpp, CheckInstalled, MarkInstalled, PublishStart,
                InstallGroup, PublishSummary, DetachIl2Cpp
  <2>2. \A v \in Workers : v # w => worker[v] = "none"
    BY <2>1, OtherSlotsUnused
  \* What has been published is decided by w alone, before the step and after.
  <2>3. /\ Published("hook_install_start") <=> worker[w] \in {"install", "detach", "done"}
        /\ Published("hook_install_success") <=> worker[w] \in {"detach", "done"} /\ ok[w]
        /\ Published("hook_install_partial") <=> worker[w] \in {"detach", "done"} /\ ~ok[w]
    BY <2>2 DEF ReportProgress
  <2>4. ASSUME \A v \in Workers : v # w => worker'[v] = worker[v],
               (Published("hook_install_start") <=> worker[w] \in {"install", "detach", "done"})',
               (Published("hook_install_success") <=> worker[w] \in {"detach", "done"} /\ ok[w])',
               (Published("hook_install_partial") <=> worker[w] \in {"detach", "done"} /\ ~ok[w])'
        PROVE  ReportProgress'
    BY <2>2, <2>4 DEF ReportProgress
  <2>5. CASE AttachIl2Cpp(w) \/ MarkInstalled(w) \/ DetachIl2Cpp(w)
    <3>1. /\ UNCHANGED <<feed, ok>>
          /\ \/ worker[w] = "attach" /\ worker' = [worker EXCEPT ![w] = "check"]
             \/ worker[w] = "mark" /\ worker' = [worker EXCEPT ![w] = "announce"]
             \/ worker[w] = "detach" /\ worker' = [worker EXCEPT ![w] = "done"]
      BY <2>5 DEF AttachIl2Cpp, MarkInstalled, DetachIl2Cpp
    <3> QED BY <2>3, <2>4, <3>1 DEF TypeOK, Published
  <2>6. CASE CheckInstalled(w)
    <3>1. ~g_hooks_installed
      BY <2>2, <2>6 DEF CheckInstalled, InstallProgress, Marked
    <3>2. /\ UNCHANGED <<feed, ok>>
          /\ worker[w] = "check" /\ worker' = [worker EXCEPT ![w] = "mark"]
      BY <2>6, <3>1 DEF CheckInstalled
    <3> QED BY <2>3, <2>4, <3>2 DEF TypeOK, Published
  <2>7. CASE PublishStart(w)
    <3>1. /\ UNCHANGED ok
          /\ worker[w] = "announce" /\ worker' = [worker EXCEPT ![w] = "install"]
          /\ \A e : Published(e)' <=> (Published(e) \/ e = "hook_install_start")
      BY <2>7, PublishAdds DEF PublishStart, Events
    <3> QED BY <2>3, <2>4, <3>1 DEF TypeOK
  <2>8. CASE InstallGroup(w)
    <3>1. /\ worker[w] = "install"
          /\ UNCHANGED <<feed, worker>>
      BY <2>8 DEF InstallGroup
    <3> QED BY <2>3, <2>4, <3>1 DEF Published
  <2>9. CASE PublishSummary(w)
    <3>1. /\ worker[w] = "install"
          /\ UNCHANGED ok
          /\ \E x \in {"detach", "done"} : worker' = [worker EXCEPT ![w] = x]
          /\ \A e : Published(e)' <=>
                (Published(e) \/ e = (IF ok[w] THEN "hook_install_success"
                                              ELSE "hook_install_partial"))
      BY <2>9, PublishAdds DEF PublishSummary, AfterInstallHooks, Events
    <3> QED BY <2>3, <2>4, <3>1 DEF TypeOK
  <2> QED BY <1>2, <2>5, <2>6, <2>7, <2>8, <2>9 DEF InstallThreadMain
<1> QED BY <1>1, <1>2

\* At any time at most one thread holds the right to install, and the flags
\* and the group counter of the install thread say which groups were entered.
THEOREM ClaimInvariant == Spec => []ClaimInv
<1>1. Init => SingleClaim
  BY DEF Init, SingleClaim, Creators, Created, Starters
<1>2. Init => InstallProgress
  BY GroupsAre1To6 DEF Init, InstallProgress, Created, Marked, WorkerStates
<1>3. Init => ReportProgress
  BY DEF Init, ReportProgress, Published
<1>4. TypeOK /\ SingleClaim /\ InstallProgress /\ ReportProgress /\ [Next]_vars
        => SingleClaim' /\ InstallProgress' /\ ReportProgress'
  BY SingleClaimStep, InstallProgressStep, ReportProgressStep
<1> QED BY <1>1, <1>2, <1>3, <1>4, TypeCorrect, PTL DEF Spec, ClaimInv

-----------------------------------------------------------------------------
(* The order of the feed. *)

\* Which messages the threads have published tells how far they are.
Stages ==
  /\ boot = "load" => feed = <<>> /\ ~armed
                      /\ \A s \in Starters : pc[s] = "idle"
                      /\ \A w \in Workers : worker[w] = "none"
  /\ boot # "load" => Published("payload_loaded")
  /\ boot \in {"load", "spawn", "init", "attempt", "armed"} =>
       ~Published("bnm_bootstrap_armed")
  /\ boot # "done" => pc[Late] = "idle"
  /\ boot \in {"fallback", "createLate"} \/ pc[Late] # "idle" =>
       Published("bnm_bootstrap_armed")
  /\ ~g_bnm_loaded_callback_seen =>
       ~Published("bnm_ready") /\ \A c \in Callers : pc[c] = "idle"
  /\ \A c, d \in Callers : pc[c] = "ready" /\ pc[d] = "ready" => c = d
  /\ \A c \in Callers : pc[c] = "ready" => ~Published("bnm_ready")
  /\ \A c \in Callers : pc[c] \in {"start", "create"} => Published("bnm_ready")
  /\ pc[Late] \in {"idle", "poll", "late"} => ~Published("late_injection_fallback")
  /\ pc[Late] \in {"start", "create"} => Published("late_injection_fallback")
  /\ Created # {} => Published("bnm_ready") \/ Published("late_injection_fallback")

\* What a message needs to come at its time.
Timely(message) ==
  /\ message \in Events /\ ~Published(message)
  /\ feed = <<>> => message = "payload_loaded"
  /\ message = "late_injection_fallback" => Published("bnm_bootstrap_armed")
  /\ message = "hook_install_start" =>
       Published("bnm_ready") \/ Published("late_injection_fallback")
  /\ message \in {"hook_install_partial", "hook_install_success"} =>
       Published("hook_install_start")

\* A timely message keeps the order.
LEMMA TimelyKeepsOrder ==
  ASSUME TypeOK, FeedOrder, NEW message, Timely(message), Publish(message)
  PROVE  FeedOrder'
<1>1. /\ feed \in Seq(Events) /\ feed' = Append(feed, message) /\ message \in Events
  BY DEF TypeOK, Publish, Timely
<1>2. /\ Len(feed) \in Nat /\ Len(feed') = Len(feed) + 1
      /\ feed'[Len(feed) + 1] = message
      /\ \A i \in 1..Len(feed) : feed'[i] = feed[i] /\ feed[i] # message
  BY <1>1 DEF Timely, Published
<1>3. ASSUME NEW i \in 1..Len(feed'), NEW j \in 1..Len(feed'), feed'[i] = feed'[j] PROVE i = j
  BY <1>2, <1>3 DEF FeedOrder
<1>4. feed'[1] = "payload_loaded"
  <2>1. CASE feed = <<>> BY <1>1, <2>1 DEF Timely
  <2>2. CASE feed # <<>>
    <3>1. 1 \in 1..Len(feed) BY <1>1, <2>2
    <3> QED BY <1>2, <2>2, <3>1 DEF FeedOrder
  <2> QED BY <2>1, <2>2
<1>5. ASSUME NEW second, NEW firsts, OnlyAfter(second, firsts),
             second = message => \E e \in firsts : Published(e)
      PROVE  OnlyAfter(second, firsts)'
  <2> SUFFICES ASSUME NEW j \in 1..Len(feed'), feed'[j] = second
               PROVE  \E i \in 1..(j - 1) : feed'[i] \in firsts
    BY DEF OnlyAfter
  <2>1. CASE j \in 1..Len(feed)
    <3>1. PICK i \in 1..(j - 1) : feed[i] \in firsts BY <1>2, <1>5, <2>1 DEF OnlyAfter
    <3>2. i \in 1..Len(feed) BY <1>2, <2>1
    <3> QED BY <1>2, <3>1, <3>2
  <2>2. CASE j = Len(feed) + 1
    <3>1. PICK i \in 1..Len(feed) : feed[i] \in firsts BY <1>2, <1>5, <2>2 DEF Published
    <3>2. i \in 1..(j - 1) BY <1>2, <2>2
    <3> QED BY <1>2, <3>1, <3>2
  <2> QED BY <1>2, <2>1, <2>2
<1>6. OnlyAfter("late_injection_fallback", {"bnm_bootstrap_armed"})'
  BY <1>5 DEF FeedOrder, Timely
<1>7. OnlyAfter("hook_install_start", {"bnm_ready", "late_injection_fallback"})'
  BY <1>5 DEF FeedOrder, Timely
<1>8. OnlyAfter("hook_install_partial", {"hook_install_start"})'
  BY <1>5 DEF FeedOrder, Timely
<1>9. OnlyAfter("hook_install_success", {"hook_install_start"})'
  BY <1>5 DEF FeedOrder, Timely
<1> QED BY <1>3, <1>4, <1>6, <1>7, <1>8, <1>9 DEF FeedOrder

\* A step that publishes nothing keeps what has been published.
LEMMA SilentStep ==
  ASSUME UNCHANGED feed
  PROVE  /\ \A e : Published(e)' <=> Published(e)
         /\ FeedOrder => FeedOrder'
BY DEF Published, FeedOrder, OnlyAfter

\* The constructor and the bootstrap thread.
LEMMA StagesBootstrap ==
  ASSUME TypeOK, FeedOrder, Stages, Bootstrap \/ ArmBNM
  PROVE  Stages' /\ FeedOrder'
<1> USE DEF Starters
<1>1. CASE OnLibraryLoad
  <2>1. Publish("payload_loaded") /\ boot = "load" /\ boot' = "spawn"
        /\ UNCHANGED <<flags, pc, worker, armed>>
    BY <1>1 DEF OnLibraryLoad, workerVars
  <2>2. Timely("payload_loaded")
    BY <2>1 DEF Timely, Events, Stages, Published
  <2>3. \A e : Published(e)' <=> (Published(e) \/ e = "payload_loaded")
    BY <2>1, PublishAdds DEF Events
  <2>4. Stages' BY <2>1, <2>3 DEF Stages, flags, Created
  <2> QED BY <2>1, <2>2, <2>4, TimelyKeepsOrder
<1>2. CASE PublishArmed
  <2>1. Publish("bnm_bootstrap_armed") /\ boot = "armed" /\ boot' = "fallback"
        /\ UNCHANGED <<flags, pc, worker, armed>>
    BY <1>2 DEF PublishArmed, workerVars
  <2>2. Timely("bnm_bootstrap_armed")
    BY <2>1 DEF Timely, Events, Stages, Published
  <2>3. \A e : Published(e)' <=> (Published(e) \/ e = "bnm_bootstrap_armed")
    BY <2>1, PublishAdds DEF Events
  <2>4. Stages' BY <2>1, <2>3 DEF Stages, flags, Created
  <2> QED BY <2>1, <2>2, <2>4, TimelyKeepsOrder
<1>3. CASE CreateBootstrapThread \/ InitializeBNM \/ ArmBNM \/ StartLateInjectionFallbackThread
  <2>1. /\ UNCHANGED <<feed, g_bnm_loaded_callback_seen, pc, worker>>
        /\ boot \in BootStates \ {"load", "done"} /\ boot' # "load"
        /\ boot \in {"fallback", "createLate"} <=> boot' = "createLate" \/ (boot = "fallback")
        /\ boot' \in {"load", "spawn", "init", "attempt", "armed"} =>
             boot \in {"load", "spawn", "init", "attempt", "armed"}
        /\ boot' \in {"fallback", "createLate"} => boot \in {"fallback", "createLate"}
    BY <1>3
    DEF CreateBootstrapThread, InitializeBNM, ArmBNM, StartLateInjectionFallbackThread, flags,
        workerVars, TypeOK, BootStates
  <2>2. (\A e : Published(e)' <=> Published(e)) /\ FeedOrder' BY <2>1, SilentStep
  <2> QED BY <2>1, <2>2 DEF Stages, Created
<1>4. CASE CreateLateFallbackThread
  <2>1. /\ UNCHANGED <<feed, g_bnm_loaded_callback_seen, worker>>
        /\ boot = "createLate" /\ boot' = "done"
        /\ pc' = pc \/ pc' = [pc EXCEPT ![Late] = "poll"]
    BY <1>4 DEF CreateLateFallbackThread, flags, workerVars
  <2>2. (\A e : Published(e)' <=> Published(e)) /\ FeedOrder' BY <2>1, SilentStep
  <2>3. \A c \in Callers : pc'[c] = pc[c] BY <2>1, ThreadsAssumption DEF TypeOK
  <2>4. /\ pc'[Late] \in {"idle", "poll"} /\ pc[Late] = "idle"
        /\ Published("bnm_bootstrap_armed")
    BY <2>1 DEF TypeOK, Stages
  <2> QED BY <2>1, <2>2, <2>3, <2>4 DEF Stages, Created
<1> QED BY <1>1, <1>2, <1>3, <1>4 DEF Bootstrap

\* The callback threads and the fallback thread.
LEMMA StagesStarters ==
  ASSUME TypeOK, FeedOrder, Stages,
         (\E c \in Callers : OnBNMLoaded(c) \/ CallbackThread(c)) \/ FallbackThread
  PROVE  Stages' /\ FeedOrder'
<1> USE ThreadsAssumption DEF Starters, flags, workerVars
\* A thread that acts shows that the constructor is over.
<1>1. ASSUME NEW s \in Starters, NEW x \in StarterStates, pc' = [pc EXCEPT ![s] = x],
             pc[s] # "idle" \/ armed, UNCHANGED boot,
             s = Late => pc[s] # "idle"
      PROVE  /\ \A t \in Starters : pc'[t] = IF t = s THEN x ELSE pc[t]
             /\ boot # "load" /\ boot' # "load"
             /\ s = Late => boot = "done" /\ Published("bnm_bootstrap_armed")
  BY <1>1 DEF TypeOK, Stages
<1>2. ASSUME NEW c \in Callers, OnBNMLoaded(c) PROVE Stages' /\ FeedOrder'
  <2> DEFINE x == IF ~g_bnm_loaded_callback_seen THEN "ready" ELSE "done"
  <2>1. /\ UNCHANGED <<feed, worker, boot>> /\ armed /\ g_bnm_loaded_callback_seen'
        /\ pc' = [pc EXCEPT ![c] = x] /\ pc[c] = "idle" /\ x \in StarterStates
    BY <1>2 DEF OnBNMLoaded, FirstCallback, StarterStates
  <2>2. (\A e : Published(e)' <=> Published(e)) /\ FeedOrder' BY <2>1, SilentStep
  <2>3. (\A t \in Starters : pc'[t] = IF t = c THEN x ELSE pc[t]) /\ boot' # "load" /\ boot # "load"
    <3> HIDE DEF x
    <3> QED BY <1>1, <2>1
  <2> QED BY <2>1, <2>2, <2>3 DEF Stages, Created
<1>3. ASSUME NEW c \in Callers, PublishReady(c) PROVE Stages' /\ FeedOrder'
  <2>1. /\ UNCHANGED <<g_bnm_loaded_callback_seen, worker, boot>> /\ Publish("bnm_ready")
        /\ pc' = [pc EXCEPT ![c] = "start"] /\ pc[c] = "ready"
    BY <1>3 DEF PublishReady
  <2>2. (\A t \in Starters : pc'[t] = IF t = c THEN "start" ELSE pc[t]) /\ boot' # "load" /\ boot # "load"
    BY <1>1, <2>1 DEF StarterStates
  <2>3. Timely("bnm_ready")
    BY <2>1, <2>2 DEF Timely, Events, Stages, Published
  <2>4. \A e : Published(e)' <=> (Published(e) \/ e = "bnm_ready")
    BY <2>1, PublishAdds DEF Events
  <2>5. Stages' BY <2>1, <2>2, <2>4 DEF Stages, Created
  <2> QED BY <2>1, <2>3, <2>5, TimelyKeepsOrder
<1>4. CASE PollCallback
  <2>1. /\ UNCHANGED <<g_bnm_loaded_callback_seen, feed, worker, boot>>
        /\ \E x \in {"poll", "late", "done"} : pc' = [pc EXCEPT ![Late] = x]
        /\ pc[Late] = "poll"
    <3>1. UNCHANGED pc /\ pc[Late] = "poll" => pc' = [pc EXCEPT ![Late] = "poll"]
      BY DEF TypeOK
    <3>2. UNCHANGED pc \/ \E x \in {"late", "done"} : pc' = [pc EXCEPT ![Late] = x]
      BY <1>4 DEF PollCallback
    <3>3. pc[Late] = "poll" BY <1>4 DEF PollCallback
    <3>4. UNCHANGED <<g_bnm_loaded_callback_seen, feed, worker, boot>>
      BY <1>4 DEF PollCallback
    <3> QED BY <3>1, <3>2, <3>3, <3>4
  <2>2. PICK x \in {"poll", "late", "done"} : pc' = [pc EXCEPT ![Late] = x] BY <2>1
  <2>3. /\ \A t \in Starters : pc'[t] = IF t = Late THEN x ELSE pc[t]
        /\ boot' # "load" /\ boot = "done" /\ Published("bnm_bootstrap_armed")
    <3>1. x \in StarterStates /\ pc[Late] # "idle" /\ UNCHANGED boot /\ Late \in Starters
      BY <2>1, <2>2 DEF StarterStates
    <3> QED BY <1>1, <2>2, <3>1
  <2>4. (\A e : Published(e)' <=> Published(e)) /\ FeedOrder' BY <2>1, SilentStep
  <2> QED BY <2>1, <2>3, <2>4 DEF Stages, Created
<1>5. CASE PublishLate
  <2>1. /\ UNCHANGED <<g_bnm_loaded_callback_seen, worker, boot>>
        /\ Publish("late_injection_fallback")
        /\ pc' = [pc EXCEPT ![Late] = "start"] /\ pc[Late] = "late"
    BY <1>5 DEF PublishLate
  <2>2. /\ \A t \in Starters : pc'[t] = IF t = Late THEN "start" ELSE pc[t]
        /\ boot' # "load" /\ boot = "done" /\ Published("bnm_bootstrap_armed")
    BY <1>1, <2>1 DEF StarterStates
  <2>3. Timely("late_injection_fallback")
    BY <2>1, <2>2 DEF Timely, Events, Stages, Published
  <2>4. \A e : Published(e)' <=> (Published(e) \/ e = "late_injection_fallback")
    BY <2>1, PublishAdds DEF Events
  <2>5. Stages' BY <2>1, <2>2, <2>4 DEF Stages, Created
  <2> QED BY <2>1, <2>3, <2>5, TimelyKeepsOrder
<1>6. ASSUME NEW s \in Starters, StartInstallThread(s) \/ CreateInstallThread(s)
      PROVE  Stages' /\ FeedOrder'
  <2>1. /\ UNCHANGED <<g_bnm_loaded_callback_seen, feed, boot>>
        /\ \E x \in {"create", "done"} : pc' = [pc EXCEPT ![s] = x]
        /\ pc[s] \in {"start", "create"}
    BY <1>6 DEF StartInstallThread, CreateInstallThread
  <2>2. PICK x \in {"create", "done"} : pc' = [pc EXCEPT ![s] = x] BY <2>1
  <2>3. /\ \A t \in Starters : pc'[t] = IF t = s THEN x ELSE pc[t]
        /\ boot' # "load" /\ boot # "load"
        /\ s = Late => boot = "done" /\ Published("bnm_bootstrap_armed")
    <3>1. x \in StarterStates /\ pc[s] # "idle" /\ UNCHANGED boot
      BY <2>1, <2>2 DEF StarterStates
    <3> QED BY <1>1, <2>2, <3>1
  <2>4. (\A e : Published(e)' <=> Published(e)) /\ FeedOrder' BY <2>1, SilentStep
  <2>5. Published("bnm_ready") \/ Published("late_injection_fallback")
    BY <2>1 DEF Stages
  <2>6. s \in Callers => Published("bnm_ready")
    BY <2>1 DEF Stages
  <2>7. s = Late => Published("late_injection_fallback")
    BY <2>1 DEF Stages
  <2> QED BY <2>1, <2>3, <2>4, <2>5, <2>6, <2>7 DEF Stages
<1> QED BY <1>2, <1>3, <1>4, <1>5, <1>6 DEF CallbackThread, FallbackThread

\* The install thread.
LEMMA StagesInstall ==
  ASSUME ClaimInv, FeedOrder, Stages, NEW w \in Workers, InstallThreadMain(w)
  PROVE  Stages' /\ FeedOrder'
<1> USE DEF flags, ClaimInv
<1>1. /\ Created' = Created /\ UNCHANGED pc /\ worker[w] # "none"
      /\ UNCHANGED <<boot, g_bnm_loaded_callback_seen>>
  <2>1. worker[w] # "none" /\ UNCHANGED <<boot, g_bnm_loaded_callback_seen>>
    BY DEF InstallThreadMain, AttachIl2Cpp, CheckInstalled, MarkInstalled, PublishStart,
           InstallGroup, PublishSummary, DetachIl2Cpp
  <2> QED BY <2>1, QuietWorker
<1>2. boot # "load" /\ feed # <<>> /\ (Published("bnm_ready") \/ Published("late_injection_fallback"))
  <2>1. w \in Created BY <1>1 DEF Created
  <2> QED BY <1>1, <2>1 DEF Stages, Published
<1>3. \A v \in Workers : v # w => worker[v] = "none" BY <1>1, OtherSlotsUnused
<1>4. ASSUME \A e \in Events \ Verdicts : Published(e)' <=> Published(e) PROVE Stages'
  BY <1>1, <1>2, <1>4 DEF Stages, Events, Verdicts
<1>5. CASE UNCHANGED feed
  BY <1>4, <1>5, SilentStep
<1>6. CASE PublishStart(w)
  <2>1. worker[w] = "announce" /\ Publish("hook_install_start") BY <1>6 DEF PublishStart
  <2>2. ~Published("hook_install_start") BY <1>3, <2>1 DEF ReportProgress
  <2>3. Timely("hook_install_start") BY <1>2, <2>2 DEF Timely, Events
  <2>4. Stages' BY <1>4, <2>1, PublishAdds DEF Events, Verdicts
  <2> QED BY <2>1, <2>3, <2>4, TimelyKeepsOrder
<1>7. CASE PublishSummary(w)
  <2> DEFINE verdict == IF ok[w] THEN "hook_install_success" ELSE "hook_install_partial"
  <2>1. worker[w] = "install" /\ Publish(verdict) BY <1>7 DEF PublishSummary
  <2>2. /\ ~Published("hook_install_success") /\ ~Published("hook_install_partial")
        /\ Published("hook_install_start")
    BY <1>3, <2>1 DEF ReportProgress
  <2>3. Timely(verdict) BY <1>2, <2>2 DEF Timely, Events
  <2>4. verdict \in Events /\ verdict \in Verdicts BY DEF Events, Verdicts
  <2> HIDE DEF verdict
  <2>5. Stages' BY <1>4, <2>1, <2>4, PublishAdds
  <2> QED BY <2>1, <2>3, <2>5, TimelyKeepsOrder
<1> QED BY <1>5, <1>6, <1>7
    DEF InstallThreadMain, AttachIl2Cpp, CheckInstalled, MarkInstalled, InstallGroup, DetachIl2Cpp

\* The stages are an invariant together with the order they are there for.
LEMMA StagesInvariant == Spec => [](Stages /\ FeedOrder)
<1>1. Init => Stages /\ FeedOrder
  BY ThreadsAssumption DEF Init, Stages, FeedOrder, OnlyAfter, Published, Created, Starters
<1>2. ClaimInv /\ Stages /\ FeedOrder /\ [Next]_vars => Stages' /\ FeedOrder'
  <2> SUFFICES ASSUME ClaimInv, Stages, FeedOrder, [Next]_vars PROVE Stages' /\ FeedOrder'
    OBVIOUS
  <2>1. TypeOK BY DEF ClaimInv
  <2>2. CASE UNCHANGED vars
    BY <2>2, SilentStep DEF vars, flags, workerVars, Stages, Created
  <2> QED BY <2>1, <2>2, StagesBootstrap, StagesStarters, StagesInstall DEF Next
<1> QED BY <1>1, <1>2, ClaimInvariant, PTL DEF Spec

\* A reader of the feed sees the life cycle in its order and no message twice,
\* whichever of the five threads publish and however often BNM calls back.
THEOREM FeedInOrder == Spec => []FeedOrder
BY StagesInvariant, PTL

\* No group's Install() is ever entered twice, whatever the callbacks and the
\* fallback do.
THEOREM InstallAtMostOnce == Spec => []InstallsAtMostOnce
<1>1. ASSUME ClaimInv PROVE InstallsAtMostOnce
  <2>1. CASE Created = {}
    BY <1>1, <2>1 DEF ClaimInv, InstallProgress, InstallsAtMostOnce
  <2>2. ASSUME NEW w \in Created PROVE InstallsAtMostOnce
    BY <1>1, <2>2, GroupsAre1To6
    DEF ClaimInv, InstallProgress, InstallsAtMostOnce, Created
  <2> QED BY <2>1, <2>2
<1> QED BY <1>1, ClaimInvariant, PTL

\* The threads of the payload implement InstallOnce.
THEOREM Implementation == Spec => ImplementsInstallOnce
<1>1. Init => Abstract!Init
  BY DEF Init, Abstract!Init, Phase, Published, Groups
<1>2. ASSUME ClaimInv, ClaimInv', [Next]_vars
      PROVE  [Abstract!Next]_(Abstract!vars)
  <2> USE <1>2 DEF ClaimInv
  <2>1. CASE \A w \in Workers : ~InstallThreadMain(w)
    BY <2>1, OutsideInstall DEF Phase, Verdicts, Abstract!vars
  <2>2. ASSUME NEW w \in Workers, InstallThreadMain(w)
        PROVE  [Abstract!Next]_(Abstract!vars)
    <3>1. worker[w] # "none"
      BY <2>2 DEF InstallThreadMain, AttachIl2Cpp, CheckInstalled, MarkInstalled, PublishStart,
                  InstallGroup, PublishSummary, DetachIl2Cpp
    <3>2. \A v \in Workers : v # w => worker[v] = "none" /\ ok[v]
      BY <3>1, OtherSlotsUnused DEF InstallProgress, WorkerStates
    <3>3. (\A v \in Workers : ok[v]) <=> ok[w]
      BY <3>2
    <3>4. CASE UNCHANGED <<feed, installs, ok>>
      BY <3>4 DEF Phase, Published, Abstract!vars
    <3>5. CASE PublishStart(w)
      <4>1. /\ worker[w] = "announce"
            /\ UNCHANGED <<ok, installs>>
            /\ \A e : Published(e)' <=> (Published(e) \/ e = "hook_install_start")
        BY <3>5, PublishAdds DEF PublishStart, Events
      <4>2. \A e \in Verdicts : ~Published(e)
        BY <3>2, <4>1 DEF ReportProgress, Verdicts
      <4>3. Phase = "idle" /\ Phase' = "running"
        BY <4>1, <4>2 DEF Phase, Verdicts
      <4>4. Abstract!Begin BY <4>1, <4>3 DEF Abstract!Begin
      <4> QED BY <4>4 DEF Abstract!Next
    <3>6. CASE InstallGroup(w)
      <4>1. /\ worker[w] = "install"
            /\ UNCHANGED <<worker, feed>>
            /\ group[w] \in Groups
            /\ installs' = [installs EXCEPT ![group[w]] = @ + 1]
        BY <3>6 DEF InstallGroup
      <4>2. PICK result \in BOOLEAN : ok' = [ok EXCEPT ![w] = @ /\ result]
        BY <3>6 DEF InstallGroup
      <4>3. Phase = "running" /\ Phase' = Phase
        BY <3>2, <4>1 DEF ReportProgress, Phase, Published
      <4>4. \A g \in Groups : installs[g] = (IF g < group[w] THEN 1 ELSE 0)
        BY <4>1 DEF InstallProgress
      <4>5. installs' = [installs EXCEPT ![group[w]] = 1]
        <5>1. installs[group[w]] = 0 BY <4>1, <4>4, GroupsAre1To6
        <5>2. installs' = [installs EXCEPT ![group[w]] = 0 + 1] BY <4>1, <5>1
        <5> QED BY <5>2
      <4>6. ok'[w] <=> ok[w] /\ result
        BY <4>2 DEF TypeOK
      <4>7. \A v \in Workers : v # w => ok'[v]
        BY <3>2, <4>2 DEF TypeOK
      <4>8. (\A v \in Workers : ok'[v]) = ((\A v \in Workers : ok[v]) /\ result)
        BY <3>2, <4>6, <4>7
      <4>9. Abstract!InstallNext(group[w], result)
        BY <4>3, <4>4, <4>5, <4>8 DEF Abstract!InstallNext, Groups
      <4> QED BY <4>1, <4>9 DEF Abstract!Next, Groups
    <3>7. CASE PublishSummary(w)
      <4>1. /\ worker[w] = "install"
            /\ group[w] = NumGroups + 1
            /\ UNCHANGED <<ok, installs>>
            /\ \A e : Published(e)' <=>
                  (Published(e) \/ e = (IF ok[w] THEN "hook_install_success"
                                                ELSE "hook_install_partial"))
        BY <3>7, PublishAdds DEF PublishSummary, Events
      <4>2. /\ Published("hook_install_start")
            /\ ~Published("hook_install_success")
            /\ ~Published("hook_install_partial")
        BY <3>2, <4>1 DEF ReportProgress
      <4>3. Phase = "running" /\ Phase' = (IF ok[w] THEN "success" ELSE "partial")
        BY <4>1, <4>2 DEF Phase
      <4>4. \A g \in Groups : installs[g] = 1
        BY <4>1, GroupsAre1To6 DEF InstallProgress
      <4>5. Abstract!Finish
        BY <3>3, <4>1, <4>3, <4>4 DEF Abstract!Finish, Groups
      <4> QED BY <4>5 DEF Abstract!Next
    <3> QED
      BY <2>2, <3>4, <3>5, <3>6, <3>7
      DEF InstallThreadMain, AttachIl2Cpp, CheckInstalled, MarkInstalled, DetachIl2Cpp
  <2>3. CASE UNCHANGED vars
    BY <2>3 DEF vars, workerVars, Phase, Published, Abstract!vars
  <2> QED BY <2>1, <2>2, <2>3
<1> QED BY <1>1, <1>2, ClaimInvariant, PTL DEF Spec, ImplementsInstallOnce, Abstract!Spec
-----------------------------------------------------------------------------
(* No rest without a verdict: who raises a flag carries on what it stands   *)
(* for, as long as no pthread_create fails.                                 *)

\* Arming is followed by the fallback thread.
LateReached ==
  /\ armed => boot \in {"armed", "fallback", "createLate", "done"}
  /\ boot \in {"load", "spawn", "init", "attempt", "armed", "fallback"} =>
       ~g_late_fallback_started
  /\ createFailures = 0 /\ armed /\ boot = "done" => pc[Late] # "idle"
  /\ pc[Late] # "ready"

\* Somebody stands behind each flag, and the fallback gives way only to one who
\* has raised a flag.
ClaimTaken ==
  createFailures = 0 =>
    /\ g_install_thread_started => Creators # {} \/ Created # {}
    /\ g_bnm_loaded_callback_seen =>
         g_install_thread_started \/ \E c \in Callers : pc[c] \in {"ready", "start"}
    /\ pc[Late] = "done" => g_bnm_loaded_callback_seen \/ g_install_thread_started

\* Every thread of the payload that was created has come to its end, and no game
\* thread is in the callback.
AtRest ==
  /\ boot = "done"
  /\ \A s \in Starters : pc[s] \in {"idle", "done"}
  /\ \A w \in Workers : worker[w] \in {"none", "done"}

VerdictAtRest ==
  armed /\ createFailures = 0 /\ AtRest =>
    Published("hook_install_success") \/ Published("hook_install_partial")

LEMMA FailureCounts ==
  ASSUME TypeOK, CreateFails
  PROVE  createFailures' # 0
<1>1. createFailures \in Nat BY BoundsAssumption DEF TypeOK
<1> QED BY <1>1 DEF CreateFails

\* The constructor and the bootstrap thread.
LEMMA CarriedByBootstrap ==
  ASSUME TypeOK, Stages, LateReached, ClaimTaken, Bootstrap \/ ArmBNM
  PROVE  LateReached' /\ ClaimTaken'
<1> USE DEF flags, workerVars
<1>1. CASE CreateLateFallbackThread
  <2>1. /\ UNCHANGED <<g_install_thread_started, g_bnm_loaded_callback_seen, worker, armed>>
        /\ boot = "createLate" /\ boot' = "done"
        /\ \/ pc' = [pc EXCEPT ![Late] = "poll"] /\ createFailures' = createFailures
           \/ createFailures' # 0 /\ pc' = pc
    BY <1>1, FailureCounts DEF CreateLateFallbackThread
  <2>2. CASE createFailures' # 0 /\ pc' = pc
    BY <2>1, <2>2 DEF LateReached, ClaimTaken
  <2>3. CASE pc' = [pc EXCEPT ![Late] = "poll"] /\ createFailures' = createFailures
    <3>1. pc[Late] = "idle" BY <2>1 DEF Stages
    <3>2. pc'[Late] = "poll" /\ \A s \in Starters : s # Late => pc'[s] = pc[s]
      BY <2>3 DEF TypeOK, Starters
    <3>3. Creators' = Creators /\ Created' = Created
      BY <2>1, <3>1, <3>2 DEF Creators, Created
    <3>4. \A c \in Callers : pc'[c] = pc[c] BY <3>2, ThreadsAssumption DEF Starters
    <3>5. LateReached' BY <2>1, <3>2 DEF LateReached
    <3>6. ClaimTaken' BY <2>1, <2>3, <3>2, <3>3, <3>4 DEF ClaimTaken
    <3> QED BY <3>5, <3>6
  <2> QED BY <2>1, <2>2, <2>3
<1>2. CASE \/ OnLibraryLoad \/ CreateBootstrapThread \/ InitializeBNM \/ ArmBNM \/ PublishArmed
           \/ StartLateInjectionFallbackThread
  <2>1. /\ UNCHANGED <<g_install_thread_started, g_bnm_loaded_callback_seen, worker, pc>>
        /\ createFailures' = createFailures \/ createFailures' # 0
    BY <1>2, FailureCounts
    DEF OnLibraryLoad, CreateBootstrapThread, InitializeBNM, ArmBNM, PublishArmed,
        StartLateInjectionFallbackThread
  <2>2. Creators' = Creators /\ Created' = Created BY <2>1 DEF Creators, Created
  <2>3. ClaimTaken' BY <2>1, <2>2 DEF ClaimTaken
  <2>4. LateReached'
    BY <1>2, <2>1
    DEF OnLibraryLoad, CreateBootstrapThread, InitializeBNM, ArmBNM, PublishArmed,
        StartLateInjectionFallbackThread, LateReached
  <2> QED BY <2>3, <2>4
<1> QED BY <1>1, <1>2 DEF Bootstrap

\* The callback threads and the fallback thread.
LEMMA CarriedByStarters ==
  ASSUME TypeOK, SingleClaim, Stages, LateReached, ClaimTaken,
         (\E c \in Callers : OnBNMLoaded(c) \/ CallbackThread(c)) \/ FallbackThread
  PROVE  LateReached' /\ ClaimTaken'
<1> USE DEF flags, workerVars
<1>1. ASSUME NEW s \in Starters, NEW x, x # "ready" \/ s # Late, x # "idle",
             pc' = [pc EXCEPT ![s] = x],
             UNCHANGED <<armed, boot, g_late_fallback_started>>,
             createFailures' = createFailures \/ createFailures' # 0
      PROVE  /\ \A t \in Starters : pc'[t] = IF t = s THEN x ELSE pc[t]
             /\ LateReached'
  <2>1. \A t \in Starters : pc'[t] = IF t = s THEN x ELSE pc[t] BY <1>1 DEF TypeOK
  <2>2. Late \in Starters BY DEF Starters
  <2>3. LateReached' BY <1>1, <2>1, <2>2 DEF LateReached
  <2> QED BY <2>1, <2>3
<1>2. /\ Callers \subseteq Starters /\ Late \in Starters /\ Late \notin Callers
  BY ThreadsAssumption DEF Starters
<1>3. ASSUME NEW c \in Callers, OnBNMLoaded(c) PROVE LateReached' /\ ClaimTaken'
  <2>1. PICK x : x = IF FirstCallback THEN "ready" ELSE "done" OBVIOUS
  <2>2. /\ pc[c] = "idle" /\ pc' = [pc EXCEPT ![c] = x] /\ x \in {"ready", "done"}
        /\ UNCHANGED <<armed, boot, g_late_fallback_started, createFailures>>
        /\ UNCHANGED <<g_install_thread_started, worker>>
        /\ x = "ready" <=> ~g_bnm_loaded_callback_seen
    BY <1>3, <2>1 DEF OnBNMLoaded, FirstCallback
  <2>3. (\A t \in Starters : pc'[t] = IF t = c THEN x ELSE pc[t]) /\ LateReached'
    BY <1>1, <1>2, <2>2
  <2>4. Creators' = Creators /\ Created' = Created
    BY <1>2, <2>2, <2>3 DEF Creators, Created
  <2>5. x = "done" => \A t \in Callers : pc[t] \in {"ready", "start"} => pc'[t] = pc[t]
    BY <1>2, <2>2, <2>3
  <2>6. pc'[Late] = pc[Late] /\ pc'[c] = x BY <1>2, <2>3
  <2>7. g_bnm_loaded_callback_seen' BY <1>3 DEF OnBNMLoaded
  <2>8. ClaimTaken'
    <3> SUFFICES ASSUME createFailures = 0
                 PROVE  g_install_thread_started \/ \E t \in Callers : pc'[t] \in {"ready", "start"}
      BY <2>2, <2>4, <2>6, <2>7 DEF ClaimTaken
    <3>1. CASE x = "ready" BY <2>6, <3>1
    <3>2. CASE x = "done" BY <2>2, <2>5, <3>2 DEF ClaimTaken
    <3> QED BY <2>2, <3>1, <3>2
  <2> QED BY <2>3, <2>8
<1>4. ASSUME NEW c \in Callers, PublishReady(c) PROVE LateReached' /\ ClaimTaken'
  <2>1. /\ pc[c] = "ready" /\ pc' = [pc EXCEPT ![c] = "start"]
        /\ UNCHANGED <<armed, boot, g_late_fallback_started, createFailures>>
        /\ UNCHANGED <<g_install_thread_started, g_bnm_loaded_callback_seen, worker>>
    BY <1>4 DEF PublishReady
  <2>2. (\A t \in Starters : pc'[t] = IF t = c THEN "start" ELSE pc[t]) /\ LateReached'
    BY <1>1, <1>2, <2>1
  <2>3. Creators' = Creators /\ Created' = Created
    BY <1>2, <2>1, <2>2 DEF Creators, Created
  <2>4. pc'[Late] = pc[Late] /\ pc'[c] = "start" BY <1>2, <2>2
  <2>5. ClaimTaken' BY <2>1, <2>3, <2>4 DEF ClaimTaken
  <2> QED BY <2>2, <2>5
<1>5. CASE PollCallback \/ PublishLate
  <2>1. PICK x \in {"poll", "late", "start", "done"} :
          /\ pc' = [pc EXCEPT ![Late] = x]
          /\ x = "done" => g_bnm_loaded_callback_seen
    <3>1. pc[Late] = "poll" /\ pc' = pc => pc' = [pc EXCEPT ![Late] = "poll"] BY DEF TypeOK
    <3>2. CASE PollCallback
      <4>1. pc[Late] = "poll" BY <3>2 DEF PollCallback
      <4>2. \/ pc' = [pc EXCEPT ![Late] = "done"] /\ g_bnm_loaded_callback_seen
            \/ pc' = pc
            \/ pc' = [pc EXCEPT ![Late] = "late"]
        BY <3>2 DEF PollCallback
      <4> QED BY <3>1, <4>1, <4>2
    <3>3. CASE PublishLate BY <3>3 DEF PublishLate
    <3> QED BY <1>5, <3>2, <3>3
  <2>2. /\ pc[Late] \in {"poll", "late"}
        /\ UNCHANGED <<armed, boot, g_late_fallback_started, createFailures>>
        /\ UNCHANGED <<g_install_thread_started, g_bnm_loaded_callback_seen, worker>>
    BY <1>5 DEF PollCallback, PublishLate
  <2>3. (\A t \in Starters : pc'[t] = IF t = Late THEN x ELSE pc[t]) /\ LateReached'
    BY <1>1, <1>2, <2>1, <2>2
  <2>4. Creators' = Creators /\ Created' = Created
    BY <1>2, <2>1, <2>2, <2>3 DEF Creators, Created
  <2>5. pc'[Late] = x /\ \A c \in Callers : pc'[c] = pc[c] BY <1>2, <2>3
  <2>6. ClaimTaken' BY <2>1, <2>2, <2>4, <2>5 DEF ClaimTaken
  <2> QED BY <2>3, <2>6
<1>6. ASSUME NEW s \in Starters, StartInstallThread(s) PROVE LateReached' /\ ClaimTaken'
  <2>1. PICK x : x = IF InstallThreadUnclaimed THEN "create" ELSE "done" OBVIOUS
  <2>2. /\ pc[s] = "start" /\ pc' = [pc EXCEPT ![s] = x] /\ x \in {"create", "done"}
        /\ UNCHANGED <<armed, boot, g_late_fallback_started, createFailures>>
        /\ UNCHANGED <<g_bnm_loaded_callback_seen, worker>>
        /\ g_install_thread_started' = TRUE
        /\ x = "create" <=> ~g_install_thread_started
    BY <1>6, <2>1 DEF StartInstallThread, InstallThreadUnclaimed
  <2>3. (\A t \in Starters : pc'[t] = IF t = s THEN x ELSE pc[t]) /\ LateReached'
    BY <1>1, <2>2
  <2>4. Created' = Created BY <2>2 DEF Created
  <2>5. createFailures = 0 => Creators' # {} \/ Created' # {}
    <3>1. CASE x = "create"
      <4>1. s \in Creators' BY <2>3, <3>1 DEF Creators
      <4> QED BY <4>1
    <3>2. CASE x = "done"
      <4>1. Creators \subseteq Creators' BY <2>2, <2>3 DEF Creators
      <4> QED BY <2>2, <2>4, <3>2, <4>1 DEF ClaimTaken
    <3> QED BY <2>2, <3>1, <3>2
  <2>6. ClaimTaken' BY <2>2, <2>5 DEF ClaimTaken
  <2> QED BY <2>3, <2>6
<1>7. ASSUME NEW s \in Starters, CreateInstallThread(s) PROVE LateReached' /\ ClaimTaken'
  <2>1. /\ pc[s] = "create" /\ pc' = [pc EXCEPT ![s] = "done"]
        /\ UNCHANGED <<armed, boot, g_late_fallback_started, g_bnm_loaded_callback_seen>>
        /\ \/ /\ \E w \in Workers : worker' = [worker EXCEPT ![w] = "attach"]
              /\ UNCHANGED <<g_install_thread_started, createFailures>>
           \/ createFailures' # 0
    BY <1>7, FailureCounts DEF CreateInstallThread
  <2>2. LateReached'
    <3>1. createFailures' = createFailures \/ createFailures' # 0 BY <2>1
    <3> QED BY <1>1, <2>1, <3>1
  <2>3. CASE createFailures' # 0 BY <2>2, <2>3 DEF ClaimTaken
  <2>4. CASE /\ \E w \in Workers : worker' = [worker EXCEPT ![w] = "attach"]
             /\ UNCHANGED <<g_install_thread_started, createFailures>>
    <3>1. g_install_thread_started
      <4>1. s \in Creators BY <2>1 DEF Creators
      <4> QED BY <4>1 DEF SingleClaim
    <3>2. PICK w \in Workers : worker' = [worker EXCEPT ![w] = "attach"] BY <2>4
    <3>3. w \in Created' BY <3>2 DEF Created, TypeOK
    <3> QED BY <2>2, <2>4, <3>1, <3>3 DEF ClaimTaken
  <2> QED BY <2>1, <2>2, <2>3, <2>4
<1> QED BY <1>2, <1>3, <1>4, <1>5, <1>6, <1>7 DEF CallbackThread, FallbackThread

LEMMA CarriedInvariant == Spec => [](LateReached /\ ClaimTaken)
<1>1. Init => LateReached /\ ClaimTaken
  BY ThreadsAssumption DEF Init, LateReached, ClaimTaken, Starters
<1>2. ClaimInv /\ Stages /\ LateReached /\ ClaimTaken /\ [Next]_vars => LateReached' /\ ClaimTaken'
  <2> SUFFICES ASSUME ClaimInv, Stages, LateReached, ClaimTaken, [Next]_vars
               PROVE  LateReached' /\ ClaimTaken'
    OBVIOUS
  <2>1. TypeOK /\ SingleClaim BY DEF ClaimInv
  <2>2. ASSUME NEW w \in Workers, InstallThreadMain(w) PROVE LateReached' /\ ClaimTaken'
    <3>1. Created' = Created /\ UNCHANGED <<g_install_thread_started, pc>>
      BY <2>1, <2>2, QuietWorker
    <3>2. UNCHANGED <<armed, boot, createFailures, g_late_fallback_started, g_bnm_loaded_callback_seen>>
      BY <2>2 DEF InstallThreadMain, AttachIl2Cpp, CheckInstalled, MarkInstalled, PublishStart,
                  InstallGroup, PublishSummary, DetachIl2Cpp, flags
    <3> QED BY <3>1, <3>2 DEF LateReached, ClaimTaken, Creators
  <2>3. CASE UNCHANGED vars
    BY <2>3 DEF vars, flags, workerVars, LateReached, ClaimTaken, Creators, Created
  <2> QED BY <2>1, <2>2, <2>3, CarriedByBootstrap, CarriedByStarters DEF Next
<1> QED BY <1>1, <1>2, ClaimInvariant, StagesInvariant, PTL DEF Spec

\* The payload does not come to rest without a verdict: once BNM is armed and
\* as long as no pthread_create fails, whatever the order of callbacks, polls
\* and exchanges, either a thread still has something to do or the feed says how
\* the installation ended (the safety part of ArmedLeadsToVerdict).
THEOREM NoRestWithoutVerdict == Spec => []VerdictAtRest
<1>1. ClaimInv /\ Stages /\ LateReached /\ ClaimTaken => VerdictAtRest
  <2> SUFFICES ASSUME ClaimInv, Stages, LateReached, ClaimTaken,
                      armed, createFailures = 0, AtRest
               PROVE  Published("hook_install_success") \/ Published("hook_install_partial")
    BY DEF VerdictAtRest
  <2>1. Callers \subseteq Starters /\ Late \in Starters BY DEF Starters
  <2>2. pc[Late] = "done" BY <2>1 DEF AtRest, LateReached
  <2>3. Creators = {} /\ \A c \in Callers : pc[c] \notin {"ready", "start"}
    BY <2>1 DEF AtRest, Creators
  <2>4. g_install_thread_started BY <2>2, <2>3 DEF ClaimTaken
  <2>5. PICK w \in Created : TRUE BY <2>3, <2>4 DEF ClaimTaken
  <2>6. w \in Workers /\ worker[w] = "done" BY <2>5 DEF Created, AtRest
  <2> QED BY <2>6 DEF ClaimInv, ReportProgress
<1> QED BY <1>1, ClaimInvariant, StagesInvariant, CarriedInvariant, PTL
=============================================================================
