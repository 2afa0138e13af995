----------------------------- MODULE HookInstall -----------------------------
(***************************************************************************)
(* The installation itself: InstallHooks (hook_manager.cpp) running the    *)
(* groups' Install() functions, each of which calls ResolveAndHook         *)
(* (hooks/hook_utils.cpp) for every hook of its table, which waits for the *)
(* image, looks the method up and calls SafeHook and with it DobbyHook.    *)
(* One thread does this (module HookManager shows that it is one); the     *)
(* game loads its images beside it.                                        *)
(***************************************************************************)
EXTENDS Naturals, Sequences, FiniteSets

CONSTANTS
  Table,              \* the groups: sequences of [method, image, required]
  ImageWaitAttempts,  \* kImageWaitAttempts (100 in the code)
  LoadedAtStart,      \* the images the game has loaded when installation begins
  MaxFailures         \* bound: lookups and DobbyHook calls that may fail

ASSUME InstallAssumption ==
  /\ Len(Table) \in Nat \ {0} /\ DOMAIN Table = 1..Len(Table)
  /\ \A g \in DOMAIN Table :
       Len(Table[g]) \in Nat \ {0} /\ DOMAIN Table[g] = 1..Len(Table[g])
  /\ \A g \in DOMAIN Table : \A h \in DOMAIN Table[g] : Table[g][h].required \in BOOLEAN
  /\ ImageWaitAttempts \in Nat \ {0}
  /\ MaxFailures \in Nat

NumGroups == Len(Table)
Groups == DOMAIN Table
HookIds == UNION {{<<g, h>> : h \in DOMAIN Table[g]} : g \in Groups}
Images == {Table[id[1]][id[2]].image : id \in HookIds}

VARIABLES
  phase,       \* "idle", "running", or the verdict
  pc,          \* where the thread is in ResolveAndHook
  group, hook, \* the group and the hook it is at
  attempt,     \* attempt of WaitForImage
  required_ok, \* of the group being installed
  allOk,       \* conjunction of the finished groups' results
  installs,    \* finished groups: 1
  outcome,     \* what became of each hook
  images,      \* images the game has loaded
  failures     \* lookups and DobbyHook calls that have failed

vars == <<phase, pc, group, hook, attempt, required_ok, allOk, installs, outcome, images, failures>>

\* "orphan": DobbyHook patched the method but left no original to call.
Outcomes == {"pending", "noImage", "unresolved", "failed", "orphan", "live"}

TypeOK ==
  /\ phase \in {"idle", "running", "success", "partial"}
  /\ pc \in {"wait", "resolve", "hook", "return", "done"}
  /\ group \in 1..(NumGroups + 1)
  /\ group \in Groups => hook \in 1..(Len(Table[group]) + 1)
  /\ attempt \in 1..(ImageWaitAttempts + 1)
  /\ required_ok \in BOOLEAN /\ allOk \in BOOLEAN
  /\ installs \in [Groups -> {0, 1}]
  /\ outcome \in [HookIds -> Outcomes]
  /\ images \subseteq Images
  /\ failures \in 0..MaxFailures

Init ==
  /\ phase = "idle"
  /\ pc = "wait"
  /\ group = 1 /\ hook = 1 /\ attempt = 1
  /\ required_ok = TRUE /\ allOk = TRUE
  /\ installs = [g \in Groups |-> 0]
  /\ outcome = [id \in HookIds |-> "pending"]
  /\ images = LoadedAtStart \cap Images
  /\ failures = 0

Current == Table[group][hook]

Start ==
  /\ phase = "idle"
  /\ phase' = "running"
  /\ UNCHANGED <<pc, group, hook, attempt, required_ok, allOk, installs, outcome, images, failures>>

\* As if only the last required hook of a group counted.
CombinedLast(ok) == IF Current.required THEN ok ELSE required_ok
\* `required_ok = ResolveAndHook(...) && required_ok`; the other conjunction,
\* optional_ok, is only logged.
Combined(ok) == IF Current.required THEN ok /\ required_ok ELSE required_ok

\* As if the group gave up at its first missing required hook, as it would with
\* the operands of && the other way round.
NextHookShortCircuit(ok) == IF Combined(ok) THEN hook + 1 ELSE Len(Table[group]) + 1
\* The call comes first in the conjunction: every hook of the group is tried.
NextHook(ok) == hook + 1

\* As if all looks for an image in the whole installation counted together.
FirstAttemptCarriedOver == IF attempt <= ImageWaitAttempts THEN attempt + 1 ELSE attempt
\* WaitForImage counts its attempts anew for every hook.
FirstAttempt == 1

\* ResolveAndHook returns: only a live hook with an original is a success.
Return(result) ==
  /\ outcome' = [outcome EXCEPT ![<<group, hook>>] = result]
  /\ required_ok' = Combined(result = "live")
  /\ hook' = NextHook(result = "live")
  /\ attempt' = FirstAttempt
  /\ pc' = IF NextHook(result = "live") <= Len(Table[group]) THEN "wait" ELSE "return"

\* As if an image that is not there were waited for again and again.
WaitAgain == attempt
\* One turn of WaitForImage's loop.
NextAttempt == attempt + 1

WaitForImage ==
  /\ phase = "running" /\ pc = "wait"
  /\ \/ /\ attempt <= ImageWaitAttempts /\ Current.image \in images
        /\ pc' = "resolve"
        /\ UNCHANGED <<hook, attempt, required_ok, outcome>>
     \/ /\ attempt <= ImageWaitAttempts /\ Current.image \notin images
        /\ attempt' = NextAttempt
        /\ UNCHANGED <<pc, hook, required_ok, outcome>>
     \/ /\ attempt > ImageWaitAttempts
        /\ Return("noImage")
  /\ UNCHANGED <<phase, group, allOk, installs, images, failures>>

Fails ==
  /\ failures < MaxFailures
  /\ failures' = failures + 1

\* Class, method and offset, each of which may be missing.
Resolve ==
  /\ phase = "running" /\ pc = "resolve"
  /\ \/ /\ pc' = "hook"
        /\ UNCHANGED <<hook, attempt, required_ok, outcome, failures>>
     \/ /\ Fails
        /\ Return("unresolved")
  /\ UNCHANGED <<phase, group, allOk, installs, images>>

\* SafeHook: the target is not null here and a detour never is.
SafeHook ==
  /\ phase = "running" /\ pc = "hook"
  /\ \/ Return("live") /\ UNCHANGED failures
     \/ Return("failed") /\ Fails
     \/ Return("orphan") /\ Fails
  /\ UNCHANGED <<phase, group, allOk, installs, images>>

\* As if only the last group's result made the verdict.
LastGroupOnly == required_ok
\* all_ok, one conjunct after the other.
AllGroups == required_ok /\ allOk

\* A group's Install() returns its required_ok.
GroupReturns ==
  /\ phase = "running" /\ pc = "return"
  /\ installs' = [installs EXCEPT ![group] = 1]
  /\ allOk' = AllGroups
  /\ group' = group + 1
  /\ pc' = IF group < NumGroups THEN "wait" ELSE "done"
  /\ hook' = 1 /\ required_ok' = TRUE
  /\ UNCHANGED <<phase, attempt, outcome, images, failures>>

Verdict ==
  /\ phase = "running" /\ pc = "done"
  /\ phase' = IF allOk THEN "success" ELSE "partial"
  /\ UNCHANGED <<pc, group, hook, attempt, required_ok, allOk, installs, outcome, images, failures>>

\* The game loads an image when it likes, or never.
LoadImage(image) ==
  /\ image \notin images
  /\ images' = images \cup {image}
  /\ UNCHANGED <<phase, pc, group, hook, attempt, required_ok, allOk, installs, outcome, failures>>

Install == Start \/ WaitForImage \/ Resolve \/ SafeHook \/ GroupReturns \/ Verdict

Next ==
  \/ Install
  \/ \E image \in Images : LoadImage(image)

\* The install thread runs; the game owes it nothing.
Spec == Init /\ [][Next]_vars
FairSpec == Spec /\ WF_vars(Install)

-----------------------------------------------------------------------------
\* Every hook is tried, once, in the order of the table, whatever became of the
\* hooks before it: a group does not stop at a failure, nor InstallHooks at a
\* failed group (ResolveAndHook is the first operand of every &&).
Behind(id) == id[1] < group \/ (id[1] = group /\ id[2] < hook)
TriedInOrder == \A id \in HookIds : (outcome[id] # "pending") <=> Behind(id)

RequiredHooks == {id \in HookIds : Table[id[1]][id[2]].required}

\* The verdict that is published speaks of the required hooks of all groups and
\* of no other hook: "success" when every one of them is live, with an original
\* to call; "partial" when one is not.
VerdictIsRequired ==
  phase \in {"success", "partial"} =>
    (phase = "success" <=> \A id \in RequiredHooks : outcome[id] = "live")

\* A hook is given up for its image only while the image is still missing for
\* every earlier hook that was given up for it: once an image has been seen, no
\* later hook of that image is lost to it.
ImageSeenStays ==
  \A a, b \in HookIds :
    /\ Table[a[1]][a[2]].image = Table[b[1]][b[2]].image
    /\ outcome[a] \notin {"pending", "noImage"}
    /\ a[1] < b[1] \/ (a[1] = b[1] /\ a[2] < b[2])
    => outcome[b] # "noImage"

\* Installation ends, even if an image never appears: the wait for it is
\* bounded for every hook.
InstallTerminates == <>(phase \in {"success", "partial"})

-----------------------------------------------------------------------------
(* The groups' calls, seen from InstallHooks, implement InstallOnce. *)

Abstract == INSTANCE InstallOnce
ImplementsInstallOnce == Abstract!Spec
=============================================================================
