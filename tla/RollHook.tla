------------------------------ MODULE RollHook ------------------------------
(***************************************************************************)
(* The roll hooks (hooks/roll_hook.cpp): the detours of RollService's      *)
(* AttemptRoll, SetMultiplier and GetCurrentMultiplier, which capture the  *)
(* service instance under g_roll_service_mutex, and TriggerRoll,           *)
(* SetRollServiceInstance and GetRollServiceInstance, which any thread may *)
(* call.  TriggerRoll holds the mutex while it calls into the game.        *)
(*                                                                         *)
(* The game's own methods are known only from how the hooks use them: a    *)
(* service has a current multiplier, SetMultiplier stores it, AttemptRoll  *)
(* finds it and, if GameReadsMultiplier, may ask for it through the hooked *)
(* GetCurrentMultiplier.  Whether a call of AttemptRoll makes a roll is    *)
(* the game's business; the calls are what is recorded.                    *)
(***************************************************************************)
EXTENDS Integers, Sequences, FiniteSets

CONSTANTS
  GameThreads,          \* threads on which the game rolls
  Clients,              \* threads that use the functions of roll_hook.h
  Services,             \* the game's RollService objects
  Null,                 \* nullptr, and nobody's mutex
  GameMultipliers,      \* what the game passes to SetMultiplier
  ClientMultipliers,    \* what clients pass to TriggerRoll
  GameReadsMultiplier,  \* may AttemptRoll call GetCurrentMultiplier?
  MaxCalls,             \* bound: calls into the hooks and functions
  MaxFailures           \* bound: hooks that cannot be installed

ASSUME RollAssumption ==
  /\ GameThreads \cap Clients = {}
  /\ Null \notin Services \cup GameThreads \cup Clients
  /\ GameMultipliers \subseteq Int /\ ClientMultipliers \subseteq Int
  /\ GameReadsMultiplier \in BOOLEAN
  /\ MaxCalls \in Nat /\ MaxFailures \in Nat

Threads == GameThreads \cup Clients

\* The order in which Install() tries the hooks (after FlusherUpdate's, whose detour
\* only forwards).
InstallOrder == <<"AttemptRoll", "SetMultiplier", "GetCurrentMultiplier">>
Hooks == {"AttemptRoll", "SetMultiplier", "GetCurrentMultiplier"}

VARIABLES
  g_roll_service_mutex,     \* the thread that holds it, or Null
  g_roll_service_instance,
  installed,                \* how many of InstallOrder have been tried
  detours,                  \* the hooks whose detours are live
  originals,                \* those of them whose original is known
  pc,          \* of each thread
  call,        \* what each thread is calling, or has called last
  result,      \* what each client's last TriggerRoll returned
  multiplier,  \* current multiplier of each service
  attempts,    \* history: the calls that AttemptRoll's original has had
  touched,     \* history: calls of TriggerRoll that have called SetMultiplier
  announced,   \* history: calls for which "roll:attempt" was published
  calls

hooks == <<installed, detours, originals>>
histories == <<attempts, touched, announced>>
vars == <<g_roll_service_mutex, g_roll_service_instance, hooks, pc, call, result, multiplier,
          histories, calls>>

\* A call knows whether a detour has met it and, for TriggerRoll, whether it had
\* all it needs when it began and nobody has taken the instance away since.
NoCall == [id |-> 0, name |-> "none", service |-> Null, multiplier |-> 0, hooked |-> FALSE,
           ready |-> FALSE]
Numbers == GameMultipliers \cup ClientMultipliers \cup {0, 1}

\* (No thread is ever at "crashed", the call of a null pointer.)
TypeOK ==
  /\ g_roll_service_mutex \in Clients \cup {Null}
  /\ g_roll_service_instance \in Services \cup {Null}
  /\ installed \in 0..Len(InstallOrder)
  /\ detours \subseteq Hooks /\ originals \subseteq detours
  /\ pc \in [Threads -> {"idle", "capture", "publish", "original", "lock", "check", "set",
                         "roll", "nested", "finish", "unlock"}]
  /\ call \in [Threads -> [id : 0..MaxCalls,
                           name : {"none", "AttemptRoll", "SetMultiplier",
                                   "GetCurrentMultiplier", "TriggerRoll"},
                           service : Services \cup {Null},
                           multiplier : Numbers,
                           hooked : BOOLEAN, ready : BOOLEAN]]
  /\ result \in [Clients -> BOOLEAN]
  /\ multiplier \in [Services -> GameMultipliers \cup 1..100]
  /\ \A i \in 1..Len(attempts) :
       attempts[i] \in [id : 1..MaxCalls, service : Services,
                       multiplier : GameMultipliers \cup 1..100]
  /\ announced \subseteq 1..MaxCalls /\ touched \subseteq 1..MaxCalls
  /\ calls \in 0..MaxCalls

Init ==
  /\ g_roll_service_mutex = Null
  /\ g_roll_service_instance = Null
  /\ installed = 0 /\ detours = {} /\ originals = {}
  /\ pc = [t \in Threads |-> "idle"]
  /\ call = [t \in Threads |-> NoCall]
  /\ result = [c \in Clients |-> FALSE]
  /\ multiplier = [s \in Services |-> 1]
  /\ attempts = <<>>
  /\ touched = {} /\ announced = {}
  /\ calls = 0

Goto(t, state) == pc' = [pc EXCEPT ![t] = state]

\* As if nothing excluded two threads.
NoExclusion == TRUE
\* std::lock_guard waits for the mutex, on its holder's own thread too.
MutexFree == g_roll_service_mutex = Null

\* The two pointers that TriggerRoll calls through.
TriggerNeeds == {"SetMultiplier", "AttemptRoll"}

Call(t, name, service, m) ==
  /\ pc[t] = "idle"
  /\ calls < MaxCalls
  /\ calls' = calls + 1
  /\ call' = [call EXCEPT ![t] =
       [id |-> calls + 1, name |-> name, service |-> service, multiplier |-> m,
        hooked |-> name \in detours,
        ready |-> /\ name = "TriggerRoll" /\ m \in 1..100
                  /\ g_roll_service_instance # Null /\ TriggerNeeds \subseteq originals]]

\* Roll::Install tries the next hook: it becomes live with its original, or
\* without, or not at all, and the next one is tried all the same.
Install ==
  /\ installed < Len(InstallOrder)
  /\ installed' = installed + 1
  /\ LET hook == InstallOrder[installed + 1]
     IN \/ detours' = detours \cup {hook} /\ originals' = originals \cup {hook}
        \/ /\ installed - Cardinality(originals) < MaxFailures
           /\ detours' \in {detours, detours \cup {hook}}
           /\ UNCHANGED originals
  /\ UNCHANGED <<g_roll_service_mutex, g_roll_service_instance, pc, call, result, multiplier,
                 histories, calls>>

-----------------------------------------------------------------------------
(* The detours. *)

\* The game calls a method of a service: the detour, if there is one yet.
GameCall(t) ==
  /\ \E s \in Services, name \in {"AttemptRoll", "SetMultiplier", "GetCurrentMultiplier"} :
       /\ \E m \in IF name = "SetMultiplier" THEN GameMultipliers ELSE {0} :
            Call(t, name, s, m)
       /\ Goto(t, IF name \in detours THEN "capture" ELSE "original")
  /\ UNCHANGED <<g_roll_service_mutex, g_roll_service_instance, hooks, result, multiplier,
                 histories>>

\* Lock, store thiz, unlock: the mutex is held for the one store.
Capture(t) ==
  /\ pc[t] = "capture"
  /\ MutexFree
  /\ g_roll_service_instance' = call[t].service
  /\ Goto(t, IF call[t].name = "GetCurrentMultiplier" THEN "original" ELSE "publish")
  /\ UNCHANGED <<g_roll_service_mutex, hooks, call, result, multiplier, histories, calls>>

\* "roll:attempt"; the message of SetMultiplier is of no interest here.
Announce(t) == IF call[t].name = "AttemptRoll" THEN {call[t].id} ELSE {}

PublishCall(t) ==
  /\ pc[t] = "publish"
  /\ announced' = announced \cup Announce(t)
  /\ Goto(t, "original")
  /\ UNCHANGED <<g_roll_service_mutex, g_roll_service_instance, hooks, call, result,
                 multiplier, attempts, touched, calls>>

\* A detour without an original does nothing more.
HasOriginal(t) == call[t].hooked => call[t].name \in originals

\* The original: SetMultiplier stores, GetCurrentMultiplier reads, AttemptRoll
\* goes on at "roll".
CallOriginal(t) ==
  /\ pc[t] = "original"
  /\ multiplier' = IF HasOriginal(t) /\ call[t].name = "SetMultiplier"
                     THEN [multiplier EXCEPT ![call[t].service] = call[t].multiplier]
                     ELSE multiplier
  /\ Goto(t, IF HasOriginal(t) /\ call[t].name = "AttemptRoll" THEN "roll" ELSE "idle")
  /\ UNCHANGED <<g_roll_service_mutex, g_roll_service_instance, hooks, call, result, histories,
                 calls>>

-----------------------------------------------------------------------------
(* AttemptRoll's original, on a game thread or inside TriggerRoll. *)

\* Where a thread gets by calling an original: TriggerRoll calls what the pointer
\* holds, null or not.
Through(t, hook, state) == IF t \in GameThreads \/ hook \in originals THEN state ELSE "crashed"

BeginRoll(t) ==
  /\ pc[t] = "roll"
  /\ \/ Goto(t, Through(t, "AttemptRoll", "finish"))
     \/ /\ GameReadsMultiplier /\ "GetCurrentMultiplier" \in detours
        /\ Goto(t, Through(t, "AttemptRoll", "nested"))
  /\ UNCHANGED <<g_roll_service_mutex, g_roll_service_instance, hooks, call, result, multiplier,
                 histories, calls>>

\* The detour of GetCurrentMultiplier, called by the roll.
NestedCapture(t) ==
  /\ pc[t] = "nested"
  /\ MutexFree
  /\ g_roll_service_instance' = call[t].service
  /\ Goto(t, "finish")
  /\ UNCHANGED <<g_roll_service_mutex, hooks, call, result, multiplier, histories, calls>>

\* The original comes back, with a roll made or not; TriggerRoll returns true.
FinishRoll(t) ==
  /\ pc[t] = "finish"
  /\ attempts' = Append(attempts, [id |-> call[t].id, service |-> call[t].service,
                                   multiplier |-> multiplier[call[t].service]])
  /\ IF t \in Clients
       THEN Goto(t, "unlock") /\ result' = [result EXCEPT ![t] = TRUE]
       ELSE Goto(t, "idle") /\ UNCHANGED result
  /\ UNCHANGED <<g_roll_service_mutex, g_roll_service_instance, hooks, call, multiplier,
                 touched, announced, calls>>

-----------------------------------------------------------------------------
(* The functions of roll_hook.h. *)

TriggerRoll(c) ==
  /\ \E m \in ClientMultipliers : Call(c, "TriggerRoll", Null, m)
  /\ Goto(c, "lock")
  /\ UNCHANGED <<g_roll_service_mutex, g_roll_service_instance, hooks, result, multiplier,
                 histories>>

LockService(c) ==
  /\ pc[c] = "lock"
  /\ MutexFree
  /\ g_roll_service_mutex' = c
  /\ Goto(c, "check")
  /\ UNCHANGED <<g_roll_service_instance, hooks, call, result, multiplier, histories, calls>>

\* As if 100 were the first value refused and 0 the last allowed.
ValidOffByOne(m) == m >= 0 /\ m < 100
Valid(m) == m >= 1 /\ m <= 100

\* As if an early return left the mutex locked.
AfterRefusalLocked == "idle"
\* The guard unlocks on every return.
AfterRefusal == "unlock"

\* As if the two pointers were not tested.
OriginalsUntested == TRUE
OriginalsKnown == TriggerNeeds \subseteq originals

\* The three early returns, in one condition.
Check(c) ==
  /\ pc[c] = "check"
  /\ LET go == /\ g_roll_service_instance # Null
               /\ OriginalsKnown
               /\ Valid(call[c].multiplier)
     IN /\ Goto(c, IF go THEN "set" ELSE AfterRefusal)
        /\ result' = [result EXCEPT ![c] = FALSE]
        /\ call' = [call EXCEPT ![c].service = g_roll_service_instance]
  /\ UNCHANGED <<g_roll_service_mutex, g_roll_service_instance, hooks, multiplier, histories,
                 calls>>

TriggerSetMultiplier(c) ==
  /\ pc[c] = "set"
  /\ multiplier' = [multiplier EXCEPT ![call[c].service] = call[c].multiplier]
  /\ touched' = touched \cup {call[c].id}
  /\ Goto(c, Through(c, "SetMultiplier", "roll"))
  /\ UNCHANGED <<g_roll_service_mutex, g_roll_service_instance, hooks, call, result, attempts,
                 announced, calls>>

UnlockService(c) ==
  /\ pc[c] = "unlock"
  /\ g_roll_service_mutex' = Null
  /\ Goto(c, "idle")
  /\ UNCHANGED <<g_roll_service_instance, hooks, call, result, multiplier, histories, calls>>

SetRollServiceInstance(c) ==
  /\ pc[c] = "idle"
  /\ MutexFree
  /\ \E instance \in Services \cup {Null} :
       /\ g_roll_service_instance' = instance
       /\ call' = IF instance = Null
                    THEN [t \in Threads |-> [call[t] EXCEPT !.ready = FALSE]]
                    ELSE call
  /\ UNCHANGED <<g_roll_service_mutex, hooks, pc, result, multiplier, histories, calls>>

-----------------------------------------------------------------------------
GameStep(t) == Capture(t) \/ PublishCall(t) \/ CallOriginal(t)
RollStep(t) == BeginRoll(t) \/ NestedCapture(t) \/ FinishRoll(t)
ClientStep(c) ==
  LockService(c) \/ Check(c) \/ TriggerSetMultiplier(c) \/ UnlockService(c)

Next ==
  \/ Install
  \/ \E t \in GameThreads : GameCall(t) \/ GameStep(t) \/ RollStep(t)
  \/ \E c \in Clients : \/ TriggerRoll(c)
                        \/ SetRollServiceInstance(c)
                        \/ ClientStep(c)
                        \/ RollStep(c)

\* A call that has begun goes on.  SetRollServiceInstance may be called for
\* ever, but holds the mutex in no state of the model, so that weak fairness is
\* enough for those who wait for it.
Fairness ==
  /\ \A t \in GameThreads : WF_vars(GameStep(t) \/ RollStep(t))
  /\ \A c \in Clients : WF_vars(ClientStep(c) \/ RollStep(c))

Spec == Init /\ [][Next]_vars
FairSpec == Spec /\ Fairness

-----------------------------------------------------------------------------
AttemptsOf(id) == {i \in 1..Len(attempts) : attempts[i].id = id}

\* When TriggerRoll has returned, its result tells what it did, in every
\* interleaving with other clients, with the game's own calls and with the
\* installation of the hooks, as far as that gets: true for one call of
\* SetMultiplier and then one of AttemptRoll, false for no effect on the service.
\* And it does not refuse a multiplier from 1 to 100 if it was called with both hooks
\* installed and the service known, and nobody has taken the service away since.
\* (Whether AttemptRoll makes a roll, TriggerRoll does not know.)
TriggerIsHonest ==
  \A c \in Clients :
    pc[c] = "idle" /\ call[c].name = "TriggerRoll" =>
      /\ Cardinality(AttemptsOf(call[c].id)) = (IF result[c] THEN 1 ELSE 0)
      /\ call[c].id \in touched <=> result[c]
      /\ call[c].ready => result[c]

\* Between clients, the mutex keeps the pairs of SetMultiplier and AttemptRoll
\* apart: the AttemptRoll of TriggerRoll(m) finds the multiplier m, or one that the
\* game has set meanwhile, but never that of another client.
ClientsDoNotMix ==
  \A c \in Clients :
    call[c].name = "TriggerRoll" =>
      \A i \in AttemptsOf(call[c].id) :
        attempts[i].multiplier \in {call[c].multiplier} \cup GameMultipliers

\* The AttemptRoll of TriggerRoll(m) finds m ("Trigger a roll with specified
\* multiplier", roll_hook.h 7).
RollUsesMultiplier ==
  \A c \in Clients :
    call[c].name = "TriggerRoll" =>
      \A i \in AttemptsOf(call[c].id) : attempts[i].multiplier = call[c].multiplier

\* Every call of AttemptRoll's original is announced before it, if the game comes
\* through the detour, and never if it is TriggerRoll's, which calls the original past
\* the detour.
AnnouncedBeforeRolled ==
  /\ \A t \in GameThreads : pc[t] \in {"roll", "nested", "finish"} /\ call[t].hooked =>
       call[t].id \in announced
  /\ \A c \in Clients : call[c].id \notin announced

\* Every call comes back and nobody waits for the mutex for ever, as long as no
\* roll of TriggerRoll, which holds the mutex, enters a detour that takes it.
CallsReturn ==
  [](\A c \in Clients : pc[c] # "nested") =>
    \A t \in Threads : (pc[t] # "idle") ~> (pc[t] = "idle")
=============================================================================
