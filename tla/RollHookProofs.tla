--------------------------- MODULE RollHookProofs ---------------------------
(***************************************************************************)
(* Theorems about RollHook, for any threads, clients and services, any     *)
(* multipliers and any number of calls, whether or not the game's          *)
(* AttemptRoll enters a detour.                                            *)
(***************************************************************************)
EXTENDS RollHook, FiniteSetTheorems, TLAPS

-----------------------------------------------------------------------------
(* The inductive invariant. *)

ClientStates == {"idle", "lock", "check", "set", "roll", "nested", "finish", "unlock"}
GameStates == {"idle", "capture", "publish", "original", "roll", "nested", "finish"}
Rolling == {"roll", "nested", "finish"}
Holding == {"check", "set", "unlock"} \cup Rolling
OnService == {"capture", "publish", "original", "set"} \cup Rolling
Over == {"idle", "unlock"}

Multiplied == GameMultipliers \cup 1..100
RollType == [id : 1..MaxCalls, service : Services, multiplier : Multiplied]

Typed == TypeOK /\ attempts \in Seq(RollType)

\* Ids are given out once, and what is recorded was called.
IdsFresh ==
  /\ \A t \in Threads : call[t].id <= calls /\ (pc[t] # "idle" => call[t].id # 0)
  /\ \A t, u \in Threads : call[t].id = call[u].id /\ call[t].id # 0 => t = u
  /\ \A i \in 1..Len(attempts) : attempts[i].id <= calls
  /\ \A id \in announced : id <= calls

\* Clients are in TriggerRoll and game threads are not; a call in progress has
\* a service and a multiplier that its next steps can use.
RolesKept ==
  /\ \A c \in Clients : /\ pc[c] \in ClientStates
                        /\ call[c].name # "TriggerRoll" => pc[c] = "idle" /\ call[c].id = 0
                        /\ pc[c] = "set" => call[c].multiplier \in 1..100
  /\ \A g \in GameThreads : pc[g] \in GameStates
  /\ \A t \in Threads : /\ pc[t] \in OnService => call[t].service \in Services
                        /\ call[t].name = "SetMultiplier" => call[t].multiplier \in GameMultipliers

HoldsMutex == \A c \in Clients : pc[c] \in Holding => g_roll_service_mutex = c

\* Between a client's SetMultiplier and its AttemptRoll only the game sets the
\* multiplier.
MultiplierKept ==
  \A c \in Clients : pc[c] \in Rolling =>
    multiplier[call[c].service] \in {call[c].multiplier} \cup GameMultipliers

\* TriggerRoll has rolled once or not at all, as its result says, and not before
\* its last step.
RolledAsSaid ==
  \A c \in Clients : call[c].name = "TriggerRoll" =>
    /\ pc[c] \notin Over => AttemptsOf(call[c].id) = {}
    /\ pc[c] \in Over /\ result[c] => \E i \in 1..Len(attempts) : AttemptsOf(call[c].id) = {i}
    /\ pc[c] \in Over /\ ~result[c] => AttemptsOf(call[c].id) = {}

\* A hooked AttemptRoll is announced when its original is called.
AnnouncedBeforeCalled ==
  \A g \in GameThreads :
    pc[g] = "original" /\ call[g].name = "AttemptRoll" /\ call[g].hooked =>
      call[g].id \in announced

RollInv ==
  /\ Typed /\ IdsFresh /\ RolesKept /\ HoldsMutex
  /\ MultiplierKept /\ RolledAsSaid
  /\ AnnouncedBeforeCalled /\ AnnouncedBeforeRolled /\ ClientsDoNotMix

-----------------------------------------------------------------------------
(* The histories. *)

\* A call is of the type its thread's record has.
LEMMA CallFields ==
  ASSUME TypeOK, NEW t \in Threads
  PROVE  /\ call[t].id \in 0..MaxCalls /\ call[t].multiplier \in Numbers
         /\ call[t].service \in Services \cup {Null}
         /\ call[t].hooked \in BOOLEAN
         /\ call[t].name \in {"none", "AttemptRoll", "SetMultiplier",
                              "GetCurrentMultiplier", "TriggerRoll"}
BY DEF TypeOK

\* A client is not a game thread, nor is anybody the holder of a free mutex.
LEMMA Kinds ==
  /\ \A c \in Clients : c \in Threads /\ c \notin GameThreads /\ c # Null
  /\ \A g \in GameThreads : g \in Threads /\ g \notin Clients /\ g # Null
BY RollAssumption DEF Threads

\* Rolls are about ids that have been given out.
LEMMA NoRollsYet ==
  ASSUME Typed, IdsFresh
  PROVE  AttemptsOf(calls + 1) = {}
<1>1. calls \in Nat /\ \A i \in 1..Len(attempts) : attempts[i] \in RollType
  BY RollAssumption DEF Typed, TypeOK
<1>2. \A i \in 1..Len(attempts) : attempts[i].id # calls + 1
  BY <1>1 DEF IdsFresh, RollType
<1> QED BY <1>2 DEF AttemptsOf

\* One more roll.
LEMMA AppendAttempt ==
  ASSUME Typed, NEW r \in RollType, attempts' = Append(attempts, r)
  PROVE  /\ attempts' \in Seq(RollType) /\ Len(attempts) \in Nat /\ Len(attempts') = Len(attempts) + 1
         /\ \A i \in 1..Len(attempts') : i \in 1..Len(attempts) \/ i = Len(attempts) + 1
         /\ \A i \in 1..Len(attempts) : i \in 1..Len(attempts') /\ attempts'[i] = attempts[i]
         /\ attempts'[Len(attempts) + 1] = r
         /\ \A id : id # r.id => AttemptsOf(id)' = AttemptsOf(id)
         /\ AttemptsOf(r.id)' = AttemptsOf(r.id) \cup {Len(attempts) + 1}
<1>1. /\ attempts' \in Seq(RollType) /\ Len(attempts) \in Nat /\ Len(attempts') = Len(attempts) + 1
      /\ \A i \in 1..Len(attempts) : attempts'[i] = attempts[i]
      /\ attempts'[Len(attempts) + 1] = r
  BY DEF Typed
<1>2. /\ \A i \in 1..Len(attempts') : i \in 1..Len(attempts) \/ i = Len(attempts) + 1
      /\ \A i \in 1..Len(attempts) : i \in 1..Len(attempts')
      /\ Len(attempts) + 1 \in 1..Len(attempts')
  BY <1>1
<1>3. \A id : id # r.id => AttemptsOf(id)' = AttemptsOf(id) BY <1>1, <1>2 DEF AttemptsOf
<1>4. AttemptsOf(r.id)' = AttemptsOf(r.id) \cup {Len(attempts) + 1} BY <1>1, <1>2 DEF AttemptsOf
<1> QED BY <1>1, <1>2, <1>3, <1>4

-----------------------------------------------------------------------------
(* No call goes through a null pointer: originals are never taken back.     *)

States == ClientStates \cup GameStates

OriginalsHeld ==
  /\ pc \in [Threads -> States]
  /\ \A c \in Clients : pc[c] \in {"set"} \cup Rolling => TriggerNeeds \subseteq originals

\* A step at which no client enters the part of TriggerRoll that calls the originals.
LEMMA HeldStep ==
  ASSUME OriginalsHeld, NEW t \in Threads, NEW state \in States, Goto(t, state),
         originals \subseteq originals',
         t \in Clients /\ state \in {"set"} \cup Rolling =>
           TriggerNeeds \subseteq originals \/ pc[t] \in {"set"} \cup Rolling
  PROVE  OriginalsHeld'
<1>1. \A u \in Threads : pc'[u] = IF u = t THEN state ELSE pc[u]
  BY DEF OriginalsHeld, Goto
<1>2. pc' \in [Threads -> States] BY DEF OriginalsHeld, Goto
<1> QED BY <1>1, <1>2, Kinds DEF OriginalsHeld

\* Wherever TriggerRoll calls an original, it is there.
THEOREM OriginalsThere == Spec => []OriginalsHeld
<1>1. Init => OriginalsHeld
  BY Kinds DEF Init, OriginalsHeld, States, ClientStates, Rolling
<1>2. OriginalsHeld /\ [Next]_vars => OriginalsHeld'
  <2> SUFFICES ASSUME OriginalsHeld, [Next]_vars PROVE OriginalsHeld'
    OBVIOUS
  <2>1. ASSUME NEW t \in GameThreads, GameCall(t) \/ GameStep(t)
        PROVE  OriginalsHeld'
    <3>1. PICK state \in {"capture", "publish", "original", "roll", "idle"} : Goto(t, state)
      BY <2>1 DEF GameCall, GameStep, Capture, PublishCall, CallOriginal
    <3>2. originals' = originals
      BY <2>1 DEF GameCall, GameStep, Capture, PublishCall, CallOriginal, hooks
    <3>3. state \in States BY <3>1 DEF States, GameStates
    <3> QED BY <3>1, <3>2, <3>3, HeldStep, Kinds
  <2>2. ASSUME NEW t \in Threads, RollStep(t) PROVE OriginalsHeld'
    <3>1. originals' = originals /\ pc[t] \in Rolling
      BY <2>2 DEF RollStep, BeginRoll, NestedCapture, FinishRoll, hooks, Rolling
    <3>2. t \in GameThreads \/ "AttemptRoll" \in originals
      BY <3>1 DEF OriginalsHeld, TriggerNeeds, Threads
    <3>3. PICK state \in {"finish", "nested", "unlock", "idle"} : Goto(t, state)
      BY <2>2, <3>2 DEF RollStep, BeginRoll, NestedCapture, FinishRoll, Through
    <3>4. state \in States BY <3>3 DEF States, ClientStates
    <3> QED BY <3>1, <3>3, <3>4, HeldStep
  <2>3. ASSUME NEW c \in Clients, Check(c) PROVE OriginalsHeld'
    <3>1. PICK state \in {"set", "unlock"} :
            Goto(c, state) /\ (state = "set" => TriggerNeeds \subseteq originals)
      BY <2>3 DEF Check, OriginalsKnown, AfterRefusal
    <3>2. originals' = originals BY <2>3 DEF Check, hooks
    <3>3. state \in States /\ state \in {"set"} \cup Rolling => state = "set"
      BY <3>1 DEF States, ClientStates, Rolling
    <3> QED BY <3>1, <3>2, <3>3, HeldStep, Kinds DEF States, ClientStates
  <2>4. ASSUME NEW c \in Clients, TriggerSetMultiplier(c) PROVE OriginalsHeld'
    <3>1. originals' = originals /\ pc[c] = "set" BY <2>4 DEF TriggerSetMultiplier, hooks
    <3>2. "SetMultiplier" \in originals BY <3>1 DEF OriginalsHeld, TriggerNeeds
    <3>3. Goto(c, "roll") BY <2>4, <3>2 DEF TriggerSetMultiplier, Through
    <3>4. "roll" \in States BY DEF States, ClientStates
    <3> QED BY <3>1, <3>3, <3>4, HeldStep, Kinds
  <2>5. ASSUME NEW c \in Clients, TriggerRoll(c) \/ LockService(c) \/ UnlockService(c)
        PROVE  OriginalsHeld'
    <3>1. PICK state \in {"lock", "check", "idle"} : Goto(c, state)
      BY <2>5 DEF TriggerRoll, LockService, UnlockService
    <3>2. originals' = originals BY <2>5 DEF TriggerRoll, LockService, UnlockService, hooks
    <3>3. state \in States /\ state \notin {"set"} \cup Rolling
      BY <3>1 DEF States, ClientStates, Rolling
    <3> QED BY <3>1, <3>2, <3>3, HeldStep, Kinds
  <2>6. CASE Install \/ (\E c \in Clients : SetRollServiceInstance(c)) \/ UNCHANGED vars
    <3>1. pc' = pc /\ originals \subseteq originals'
      BY <2>6 DEF Install, SetRollServiceInstance, vars, hooks
    <3> QED BY <3>1 DEF OriginalsHeld
  <2> QED BY <2>1, <2>2, <2>3, <2>4, <2>5, <2>6, Kinds DEF Next, ClientStep
<1> QED BY <1>1, <1>2, PTL DEF Spec

-----------------------------------------------------------------------------
(* Steps that move one thread and change neither calls nor histories. *)

\* The thread keeps its role, enters no section that is another's, and neither
\* ends nor begins anything that the histories speak of.
LEMMA MoveStep ==
  ASSUME RollInv, NEW t \in Threads, NEW state, Goto(t, state),
         UNCHANGED <<installed, detours, originals, call, result, multiplier, attempts, touched,
                     announced, calls>>,
         g_roll_service_instance' \in Services \cup {Null},
         g_roll_service_mutex' \in Clients \cup {Null},
         t \in Clients => state \in ClientStates, t \in GameThreads => state \in GameStates,
         HoldsMutex',
         state # "idle" => pc[t] # "idle",
         state \in OnService => pc[t] \in OnService,
         t \in Clients => /\ state # "set"
                          /\ state \in Rolling => pc[t] \in Rolling
                          /\ state \in Over <=> pc[t] \in Over,
         t \in GameThreads => /\ state = "original" => call[t].name # "AttemptRoll"
                              /\ state \in Rolling => pc[t] \in Rolling
  PROVE  RollInv'
<1>1. pc' = [pc EXCEPT ![t] = state] BY DEF Goto
<1>2. \A u \in Threads : pc'[u] = IF u = t THEN state ELSE pc[u]
  BY <1>1 DEF RollInv, Typed, TypeOK
<1>3. Typed'
  <2>1. state \in ClientStates \cup GameStates BY DEF Threads
  <2> QED BY <1>1, <2>1 DEF RollInv, Typed, TypeOK, ClientStates, GameStates
<1>4. IdsFresh' BY <1>2 DEF RollInv, IdsFresh
<1>5. RolesKept' BY <1>2, Kinds DEF RollInv, RolesKept
<1>6. MultiplierKept' BY <1>2, Kinds DEF RollInv, MultiplierKept
<1>7. \A id : AttemptsOf(id)' = AttemptsOf(id) BY DEF AttemptsOf
<1>8. RolledAsSaid' BY <1>2, <1>7, Kinds DEF RollInv, RolledAsSaid
<1>9. AnnouncedBeforeCalled' BY <1>2, Kinds DEF RollInv, AnnouncedBeforeCalled
<1>10. AnnouncedBeforeRolled'
  BY <1>2, Kinds DEF RollInv, AnnouncedBeforeRolled, Rolling
<1>11. ClientsDoNotMix' BY <1>7 DEF RollInv, ClientsDoNotMix
<1> QED BY <1>3, <1>4, <1>5, <1>6, <1>8, <1>9, <1>10, <1>11 DEF RollInv

\* A move that keeps the mutex and does not take a client into its section from
\* outside.
LEMMA SameHolder ==
  ASSUME RollInv, NEW t \in Threads, NEW state, Goto(t, state),
         g_roll_service_mutex' = g_roll_service_mutex,
         t \in Clients /\ state \in Holding => pc[t] \in Holding
  PROVE  HoldsMutex'
<1>1. \A u \in Threads : pc'[u] = IF u = t THEN state ELSE pc[u]
  BY DEF RollInv, Typed, TypeOK, Goto
<1> QED BY <1>1, Kinds DEF RollInv, HoldsMutex

\* Roll::Install.
LEMMA InstallStep == RollInv /\ Install => RollInv'
<1> SUFFICES ASSUME RollInv, Install PROVE RollInv'
  OBVIOUS
<1>1. /\ installed < Len(InstallOrder) /\ installed' = installed + 1
      /\ UNCHANGED <<g_roll_service_mutex, g_roll_service_instance, pc, call, result,
                     multiplier, attempts, touched, announced, calls>>
  BY DEF Install, histories
<1>2. Len(InstallOrder) = 3 /\ \A i \in 1..3 : InstallOrder[i] \in Hooks
  BY DEF InstallOrder, Hooks
<1>3. installed' \in 0..Len(InstallOrder) BY <1>1, <1>2 DEF RollInv, Typed, TypeOK
<1>4. PICK hook : hook = InstallOrder[installed + 1] OBVIOUS
<1>5. hook \in Hooks
  <2>1. installed \in 0..3 /\ installed < 3 BY <1>1, <1>2 DEF RollInv, Typed, TypeOK
  <2>2. installed + 1 \in 1..3 BY <2>1
  <2> QED BY <1>2, <1>4, <2>2
<1>6. /\ detours' \in {detours, detours \cup {hook}}
      /\ originals' = originals \/ (originals' = originals \cup {hook} /\ hook \in detours')
  BY <1>4 DEF Install
<1>7. detours' \subseteq Hooks /\ originals' \subseteq detours'
  BY <1>5, <1>6 DEF RollInv, Typed, TypeOK
<1>8. Typed' BY <1>1, <1>3, <1>7 DEF RollInv, Typed, TypeOK
<1> QED
  BY <1>1, <1>8
  DEF RollInv, IdsFresh, RolesKept, HoldsMutex, MultiplierKept, RolledAsSaid, AttemptsOf,
      AnnouncedBeforeCalled, AnnouncedBeforeRolled, ClientsDoNotMix

\* A detour stores the service it was called on.
LEMMA CaptureStep ==
  ASSUME RollInv, NEW t \in GameThreads, Capture(t)
  PROVE  RollInv'
<1> DEFINE state == IF call[t].name = "GetCurrentMultiplier" THEN "original" ELSE "publish"
<1>1. /\ pc[t] = "capture" /\ Goto(t, state)
      /\ g_roll_service_instance' = call[t].service
      /\ UNCHANGED <<g_roll_service_mutex, installed, detours, originals, call, result,
                     multiplier, attempts, touched, announced, calls>>
  BY DEF Capture, hooks, histories
<1>2. t \in Threads /\ t \notin Clients BY Kinds
<1>3. call[t].service \in Services BY <1>1, <1>2 DEF RollInv, RolesKept, OnService
<1>4. /\ state \in GameStates \cap OnService /\ state # "idle" /\ state \notin Rolling
      /\ state = "original" => call[t].name # "AttemptRoll"
  BY DEF GameStates, OnService, Rolling
<1> HIDE DEF state
<1>5. HoldsMutex' BY <1>1, <1>2, SameHolder
<1>6. pc[t] \in OnService /\ pc[t] # "idle" BY <1>1 DEF OnService
<1>7. g_roll_service_mutex' \in Clients \cup {Null} BY <1>1 DEF RollInv, Typed, TypeOK
<1> QED BY <1>1, <1>2, <1>3, <1>4, <1>5, <1>6, <1>7, MoveStep

\* AttemptRoll's original begins.
LEMMA BeginRollStep ==
  ASSUME RollInv, OriginalsHeld, NEW t \in Threads, BeginRoll(t)
  PROVE  RollInv'
<1>1. /\ pc[t] = "roll"
      /\ UNCHANGED <<g_roll_service_mutex, g_roll_service_instance, installed, detours,
                     originals, call, result, multiplier, attempts, touched, announced, calls>>
  BY DEF BeginRoll, hooks, histories
<1>2. PICK state \in {"finish", "nested"} : Goto(t, state)
  <2>1. t \in GameThreads \/ "AttemptRoll" \in originals
    BY <1>1 DEF OriginalsHeld, TriggerNeeds, Threads, Rolling
  <2> QED BY <2>1 DEF BeginRoll, Through
<1>3. /\ state \in ClientStates \cap GameStates \cap OnService \cap Rolling
      /\ state \notin Over /\ state \notin {"idle", "set", "original"}
  BY <1>2 DEF ClientStates, GameStates, OnService, Rolling, Over
<1>4. pc[t] \in Holding \cap OnService \cap Rolling /\ pc[t] \notin Over /\ pc[t] # "idle"
  BY <1>1 DEF Holding, OnService, Rolling, Over
<1>5. HoldsMutex' BY <1>1, <1>2, <1>4, SameHolder
<1>6. /\ g_roll_service_mutex' \in Clients \cup {Null}
      /\ g_roll_service_instance' \in Services \cup {Null}
  BY <1>1 DEF RollInv, Typed, TypeOK
<1> QED BY <1>1, <1>2, <1>3, <1>4, <1>5, <1>6, MoveStep

\* The roll enters the detour of GetCurrentMultiplier.
LEMMA NestedCaptureStep ==
  ASSUME RollInv, NEW t \in Threads, NestedCapture(t)
  PROVE  RollInv'
<1>1. /\ pc[t] = "nested" /\ Goto(t, "finish")
      /\ g_roll_service_instance' = call[t].service
      /\ UNCHANGED <<g_roll_service_mutex, installed, detours, originals, call, result,
                     multiplier, attempts, touched, announced, calls>>
  BY DEF NestedCapture, hooks, histories
<1>2. /\ "finish" \in ClientStates \cap GameStates \cap OnService \cap Rolling
      /\ "finish" \notin Over
  BY DEF ClientStates, GameStates, OnService, Rolling, Over
<1>3. pc[t] \in Holding \cap OnService \cap Rolling /\ pc[t] \notin Over /\ pc[t] # "idle"
  BY <1>1 DEF Holding, OnService, Rolling, Over
<1>4. HoldsMutex' BY <1>1, <1>3, SameHolder
<1>5. g_roll_service_mutex' \in Clients \cup {Null} BY <1>1 DEF RollInv, Typed, TypeOK
<1>6. call[t].service \in Services BY <1>3 DEF RollInv, RolesKept
<1> QED BY <1>1, <1>2, <1>3, <1>4, <1>5, <1>6, MoveStep

\* TriggerRoll takes the mutex: nobody is in its section.
LEMMA LockServiceStep ==
  ASSUME RollInv, NEW c \in Clients, LockService(c)
  PROVE  RollInv'
<1>1. /\ pc[c] = "lock" /\ Goto(c, "check")
      /\ g_roll_service_mutex = Null /\ g_roll_service_mutex' = c
      /\ UNCHANGED <<g_roll_service_instance, installed, detours, originals, call, result,
                     multiplier, attempts, touched, announced, calls>>
  BY DEF LockService, MutexFree, hooks, histories
<1>2. c \in Threads /\ c \notin GameThreads BY Kinds
<1>3. \A d \in Clients : pc[d] \notin Holding BY <1>1, Kinds DEF RollInv, HoldsMutex
<1>4. HoldsMutex'
  <2>1. \A u \in Threads : u # c => pc'[u] = pc[u]
    BY <1>1 DEF RollInv, Typed, TypeOK, Goto
  <2> QED BY <1>1, <1>3, <2>1, Kinds DEF HoldsMutex
<1>5. /\ "check" \in ClientStates /\ "check" \notin OnService \cup Rolling \cup Over
      /\ pc[c] \notin Over /\ pc[c] # "idle"
  BY <1>1 DEF ClientStates, OnService, Rolling, Over
<1>6. g_roll_service_instance' \in Services \cup {Null} BY <1>1 DEF RollInv, Typed, TypeOK
<1> QED BY <1>1, <1>2, <1>4, <1>5, <1>6, MoveStep

\* TriggerRoll returns.
LEMMA UnlockServiceStep ==
  ASSUME RollInv, NEW c \in Clients, UnlockService(c)
  PROVE  RollInv'
<1>1. /\ pc[c] = "unlock" /\ Goto(c, "idle") /\ g_roll_service_mutex' = Null
      /\ UNCHANGED <<g_roll_service_instance, installed, detours, originals, call, result,
                     multiplier, attempts, touched, announced, calls>>
  BY DEF UnlockService, hooks, histories
<1>2. c \in Threads /\ c \notin GameThreads BY Kinds
<1>3. g_roll_service_mutex = c BY <1>1 DEF RollInv, HoldsMutex, Holding
<1>4. \A d \in Clients : d # c => pc[d] \notin Holding
  BY <1>3 DEF RollInv, HoldsMutex
<1>5. "idle" \notin Holding \cup OnService \cup Rolling /\ "idle" \in ClientStates \cap Over
  BY DEF Holding, OnService, Rolling, ClientStates, Over
<1>6. HoldsMutex'
  <2>1. \A u \in Threads : pc'[u] = IF u = c THEN "idle" ELSE pc[u]
    BY <1>1 DEF RollInv, Typed, TypeOK, Goto
  <2> QED BY <1>4, <1>5, <2>1, Kinds DEF HoldsMutex
<1>7. pc[c] \in Over /\ pc[c] # "idle" BY <1>1 DEF Over
<1>8. g_roll_service_instance' \in Services \cup {Null} BY <1>1 DEF RollInv, Typed, TypeOK
<1> QED BY <1>1, <1>2, <1>5, <1>6, <1>7, <1>8, MoveStep

\* Somebody sets the instance.
LEMMA SetInstanceStep ==
  ASSUME RollInv, NEW c \in Clients, SetRollServiceInstance(c)
  PROVE  RollInv'
<1>1. /\ g_roll_service_instance' \in Services \cup {Null}
      /\ \/ call' = call
         \/ call' = [t \in Threads |-> [call[t] EXCEPT !.ready = FALSE]]
      /\ UNCHANGED <<g_roll_service_mutex, installed, detours, originals, pc, result,
                     multiplier, attempts, touched, announced, calls>>
  BY DEF SetRollServiceInstance, hooks, histories
<1> DEFINE CallType == [id : 0..MaxCalls,
                        name : {"none", "AttemptRoll", "SetMultiplier",
                                "GetCurrentMultiplier", "TriggerRoll"},
                        service : Services \cup {Null},
                        multiplier : Numbers,
                        hooked : BOOLEAN, ready : BOOLEAN]
<1>2. call \in [Threads -> CallType] BY DEF RollInv, Typed, TypeOK
<1>3. \A r \in CallType :
        /\ [r EXCEPT !.ready = FALSE] \in CallType
        /\ [r EXCEPT !.ready = FALSE].id = r.id
        /\ [r EXCEPT !.ready = FALSE].name = r.name
        /\ [r EXCEPT !.ready = FALSE].service = r.service
        /\ [r EXCEPT !.ready = FALSE].multiplier = r.multiplier
        /\ [r EXCEPT !.ready = FALSE].hooked = r.hooked
  OBVIOUS
<1> HIDE DEF CallType
<1>4. /\ call' \in [Threads -> CallType]
      /\ \A t \in Threads : /\ call'[t].id = call[t].id /\ call'[t].name = call[t].name
                            /\ call'[t].service = call[t].service
                            /\ call'[t].multiplier = call[t].multiplier
                            /\ call'[t].hooked = call[t].hooked
  <2>1. CASE call' = call BY <1>2, <2>1
  <2>2. CASE call' = [t \in Threads |-> [call[t] EXCEPT !.ready = FALSE]]
    BY <1>2, <1>3, <2>2
  <2> QED BY <1>1, <2>1, <2>2
<1>5. Typed' BY <1>1, <1>4 DEF RollInv, Typed, TypeOK, CallType
<1>6. IdsFresh' BY <1>1, <1>4 DEF RollInv, IdsFresh
<1>7. RolesKept' BY <1>1, <1>4, Kinds DEF RollInv, RolesKept
<1>8. HoldsMutex' BY <1>1 DEF RollInv, HoldsMutex
<1>9. MultiplierKept' BY <1>1, <1>4, Kinds DEF RollInv, MultiplierKept
<1>10. \A id : AttemptsOf(id)' = AttemptsOf(id) BY <1>1 DEF AttemptsOf
<1>11. RolledAsSaid' BY <1>1, <1>4, <1>10, Kinds DEF RollInv, RolledAsSaid
<1>12. AnnouncedBeforeCalled' BY <1>1, <1>4, Kinds DEF RollInv, AnnouncedBeforeCalled
<1>13. AnnouncedBeforeRolled' BY <1>1, <1>4, Kinds DEF RollInv, AnnouncedBeforeRolled
<1>14. ClientsDoNotMix' BY <1>1, <1>4, <1>10, Kinds DEF RollInv, ClientsDoNotMix
<1> QED BY <1>5, <1>6, <1>7, <1>8, <1>9, <1>11, <1>12, <1>13, <1>14 DEF RollInv

-----------------------------------------------------------------------------
(* Calls begin. *)

\* A call by an idle thread gets an id that no call, roll or announcement has.
LEMMA CallStep ==
  ASSUME RollInv, NEW t \in Threads,
         NEW name \in {"AttemptRoll", "SetMultiplier", "GetCurrentMultiplier", "TriggerRoll"},
         NEW service \in Services \cup {Null}, NEW m \in Numbers, Call(t, name, service, m),
         NEW state, Goto(t, state),
         UNCHANGED <<g_roll_service_mutex, g_roll_service_instance, installed, detours,
                     originals, result, multiplier, attempts, touched, announced>>,
         state \notin Over \cup Holding \cup {"set"},
         t \in Clients => /\ state \in ClientStates \ OnService /\ name = "TriggerRoll",
         t \in GameThreads => /\ state \in GameStates /\ service \in Services
                              /\ name = "SetMultiplier" => m \in GameMultipliers
                              /\ state = "original" => ~name \in detours
  PROVE  RollInv'
<1> DEFINE hooked == name \in detours
           ready == /\ name = "TriggerRoll" /\ m \in 1..100
                    /\ g_roll_service_instance # Null /\ TriggerNeeds \subseteq originals
           r == [id |-> calls + 1, name |-> name, service |-> service, multiplier |-> m,
                 hooked |-> hooked, ready |-> ready]
<1>1. /\ pc[t] = "idle" /\ calls < MaxCalls /\ calls' = calls + 1
      /\ call' = [call EXCEPT ![t] = r] /\ pc' = [pc EXCEPT ![t] = state]
  BY DEF Call, Goto
<1>2. calls \in 0..MaxCalls /\ MaxCalls \in Nat BY RollAssumption DEF RollInv, Typed, TypeOK
<1>3. hooked \in BOOLEAN /\ ready \in BOOLEAN
  <2>1. hooked = TRUE \/ hooked = FALSE OBVIOUS
  <2>2. ready = TRUE \/ ready = FALSE OBVIOUS
  <2> HIDE DEF hooked, ready
  <2> QED BY <2>1, <2>2
<1>4. /\ \A u \in Threads : pc'[u] = IF u = t THEN state ELSE pc[u]
      /\ \A u \in Threads : call'[u] = IF u = t THEN r ELSE call[u]
  BY <1>1 DEF RollInv, Typed, TypeOK
<1>5. r.id = calls + 1 /\ r.name = name /\ r.service = service /\ r.multiplier = m
      /\ r.hooked = hooked
  OBVIOUS
<1>6. Typed'
  <2>1. calls' \in 0..MaxCalls /\ calls + 1 \in 0..MaxCalls BY <1>1, <1>2
  <2>2. r \in [id : 0..MaxCalls,
               name : {"none", "AttemptRoll", "SetMultiplier", "GetCurrentMultiplier",
                       "TriggerRoll"},
               service : Services \cup {Null}, multiplier : Numbers, hooked : BOOLEAN, ready : BOOLEAN]
    <3> HIDE DEF hooked, ready
    <3>1. name \in {"none", "AttemptRoll", "SetMultiplier", "GetCurrentMultiplier", "TriggerRoll"}
      OBVIOUS
    <3> QED BY <1>3, <2>1, <3>1, Zenon
  <2>3. state \in ClientStates \cup GameStates BY DEF Threads
  <2> HIDE DEF r
  <2>4. pc' \in [Threads -> {"idle", "capture", "publish", "original", "lock", "check", "set",
                             "roll", "nested", "finish", "unlock"}]
    BY <1>1, <2>3 DEF RollInv, Typed, TypeOK, ClientStates, GameStates
  <2> QED BY <1>1, <2>1, <2>2, <2>4 DEF RollInv, Typed, TypeOK
<1> HIDE DEF r, hooked, ready
<1>7. \A u \in Threads : call[u].id \in Nat /\ call[u].id <= calls
  BY <1>2, CallFields DEF RollInv, Typed, IdsFresh
<1>8. IdsFresh'
  <2>1. \A u \in Threads : call'[u].id <= calls' /\ (pc'[u] # "idle" => call'[u].id # 0)
    BY <1>1, <1>2, <1>4, <1>5, <1>7 DEF RollInv, IdsFresh
  <2>2. \A u, v \in Threads : call'[u].id = call'[v].id /\ call'[u].id # 0 => u = v
    <3>1. \A u \in Threads : call[u].id # calls + 1 BY <1>2, <1>7
    <3>2. \A u, v \in Threads : call[u].id = call[v].id /\ call[u].id # 0 => u = v
      BY DEF RollInv, IdsFresh
    <3> QED BY <1>4, <1>5, <3>1, <3>2, Zenon
  <2>3. \A i \in 1..Len(attempts) : attempts[i].id \in Nat
    <3>1. \A i \in 1..Len(attempts) : attempts[i] \in RollType BY DEF RollInv, Typed
    <3>2. \A x \in RollType : x.id \in Nat BY RollAssumption DEF RollType
    <3> QED BY <3>1, <3>2
  <2>4. \A i \in 1..Len(attempts') : attempts'[i].id <= calls'
    BY <1>1, <1>2, <2>3 DEF RollInv, IdsFresh
  <2>5. \A id \in announced' : id <= calls'
    BY <1>1, <1>2 DEF RollInv, IdsFresh, Typed, TypeOK
  <2> QED BY <2>1, <2>2, <2>4, <2>5 DEF IdsFresh
<1>9. RolesKept'
  BY <1>4, <1>5, Kinds DEF RollInv, RolesKept, Threads
<1>10. HoldsMutex' BY <1>4, Kinds DEF RollInv, HoldsMutex
<1>11. state \notin Rolling BY DEF Holding
<1>12. MultiplierKept' BY <1>4, <1>11, Kinds DEF RollInv, MultiplierKept
<1>13. /\ \A id : AttemptsOf(id)' = AttemptsOf(id)
       /\ AttemptsOf(calls + 1) = {}
  BY NoRollsYet DEF AttemptsOf, RollInv
<1>14. RolledAsSaid' BY <1>4, <1>5, <1>13, Kinds DEF RollInv, RolledAsSaid
<1>15. AnnouncedBeforeCalled'
  BY <1>4, <1>5, Kinds DEF RollInv, AnnouncedBeforeCalled, hooked
<1>16. \A id \in announced : id # calls + 1 BY <1>2 DEF RollInv, IdsFresh, Typed, TypeOK
<1>17. AnnouncedBeforeRolled'
  BY <1>4, <1>5, <1>11, <1>16, Kinds DEF RollInv, AnnouncedBeforeRolled, Rolling
<1>18. ClientsDoNotMix'
  <2> SUFFICES ASSUME NEW c \in Clients, call'[c].name = "TriggerRoll",
                      NEW i \in 1..Len(attempts), attempts[i].id = call'[c].id
               PROVE  attempts[i].multiplier \in {call'[c].multiplier} \cup GameMultipliers
    BY DEF ClientsDoNotMix, AttemptsOf
  <2>1. i \in AttemptsOf(attempts[i].id) BY DEF AttemptsOf
  <2> QED BY <1>4, <1>5, <1>13, <2>1, Kinds DEF RollInv, ClientsDoNotMix
<1> QED BY <1>6, <1>8, <1>9, <1>10, <1>12, <1>14, <1>15, <1>17, <1>18 DEF RollInv

\* The game calls a method of a service.
LEMMA GameCallStep ==
  ASSUME RollInv, NEW t \in GameThreads, GameCall(t)
  PROVE  RollInv'
<1>1. PICK s \in Services, name \in {"AttemptRoll", "SetMultiplier", "GetCurrentMultiplier"} :
        /\ \E m \in IF name = "SetMultiplier" THEN GameMultipliers ELSE {0} : Call(t, name, s, m)
        /\ Goto(t, IF name \in detours THEN "capture" ELSE "original")
  BY DEF GameCall, hooks, histories
<1>2. PICK m \in IF name = "SetMultiplier" THEN GameMultipliers ELSE {0} : Call(t, name, s, m)
  BY <1>1
<1>3. PICK state \in {"capture", "original"} :
        Goto(t, state) /\ (state = "original" => ~name \in detours)
  BY <1>1
<1>4. m \in Numbers /\ (name = "SetMultiplier" => m \in GameMultipliers) BY <1>2 DEF Numbers
<1>5. state \in GameStates /\ state \notin Over \cup Holding \cup {"set"}
  BY <1>3 DEF GameStates, Over, Holding, Rolling
<1>6. UNCHANGED <<g_roll_service_mutex, g_roll_service_instance, installed, detours, originals,
                  result, multiplier, attempts, touched, announced>>
  BY DEF GameCall, hooks, histories
<1> QED BY <1>2, <1>3, <1>4, <1>5, <1>6, Kinds, CallStep

\* A client calls TriggerRoll.
LEMMA TriggerRollStep ==
  ASSUME RollInv, NEW c \in Clients, TriggerRoll(c)
  PROVE  RollInv'
<1>1. PICK m \in ClientMultipliers : Call(c, "TriggerRoll", Null, m) BY DEF TriggerRoll
<1>2. /\ Goto(c, "lock")
      /\ UNCHANGED <<g_roll_service_mutex, g_roll_service_instance, installed, detours,
                     originals, result, multiplier, attempts, touched, announced>>
  BY DEF TriggerRoll, hooks, histories
<1>3. m \in Numbers BY DEF Numbers
<1>4. "lock" \in ClientStates \ OnService /\ "lock" \notin Over \cup Holding \cup {"set"}
  BY DEF ClientStates, OnService, Over, Holding, Rolling
<1> QED BY <1>1, <1>2, <1>3, <1>4, Kinds, CallStep

-----------------------------------------------------------------------------
(* Steps that change a history or a multiplier. *)

\* The detour publishes the call.
LEMMA PublishCallStep ==
  ASSUME RollInv, NEW t \in GameThreads, PublishCall(t)
  PROVE  RollInv'
<1>1. /\ pc[t] = "publish" /\ pc' = [pc EXCEPT ![t] = "original"]
      /\ announced' = announced \cup Announce(t)
      /\ UNCHANGED <<g_roll_service_mutex, g_roll_service_instance, installed, detours,
                     originals, call, result, multiplier, attempts, touched, calls>>
  BY DEF PublishCall, Goto, hooks, histories
<1>2. \A u \in Threads : pc'[u] = IF u = t THEN "original" ELSE pc[u]
  BY <1>1 DEF RollInv, Typed, TypeOK
<1>3. call[t].id \in 0..MaxCalls /\ call[t].id <= calls /\ call[t].id # 0
  BY <1>1, Kinds, CallFields DEF RollInv, Typed, IdsFresh
<1>4. Announce(t) \subseteq {call[t].id} BY DEF Announce
<1>5. Typed'
  <2>1. announced' \subseteq 1..MaxCalls
    <3>1. call[t].id \in 1..MaxCalls BY <1>3, RollAssumption
    <3> QED BY <1>1, <1>4, <3>1 DEF RollInv, Typed, TypeOK
  <2>2. t \in Threads BY Kinds
  <2> QED BY <1>1, <2>1, <2>2 DEF RollInv, Typed, TypeOK
<1>6. IdsFresh' BY <1>1, <1>2, <1>3, <1>4 DEF RollInv, IdsFresh
<1>7. RolesKept'
  BY <1>1, <1>2, Kinds DEF RollInv, RolesKept, GameStates, OnService
<1>8. HoldsMutex' BY <1>1, <1>2, Kinds DEF RollInv, HoldsMutex
<1>9. MultiplierKept' BY <1>1, <1>2, Kinds DEF RollInv, MultiplierKept
<1>10. RolledAsSaid' BY <1>1, <1>2, Kinds DEF RollInv, RolledAsSaid, AttemptsOf
<1>11. AnnouncedBeforeCalled'
  BY <1>1, <1>2, Kinds DEF RollInv, AnnouncedBeforeCalled, Announce
<1>12. AnnouncedBeforeRolled'
  <2>1. \A c \in Clients : call[c].id # call[t].id
    BY <1>3, Kinds DEF RollInv, IdsFresh
  <2> QED BY <1>1, <1>2, <1>4, <2>1, Kinds DEF RollInv, AnnouncedBeforeRolled
<1>13. ClientsDoNotMix' BY <1>1 DEF RollInv, ClientsDoNotMix, AttemptsOf
<1> QED BY <1>5, <1>6, <1>7, <1>8, <1>9, <1>10, <1>11, <1>12, <1>13 DEF RollInv

\* The detour calls the original.
LEMMA CallOriginalStep ==
  ASSUME RollInv, NEW t \in GameThreads, CallOriginal(t)
  PROVE  RollInv'
<1> DEFINE state == IF HasOriginal(t) /\ call[t].name = "AttemptRoll" THEN "roll" ELSE "idle"
<1>1. /\ pc[t] = "original" /\ pc' = [pc EXCEPT ![t] = state]
      /\ multiplier' = IF HasOriginal(t) /\ call[t].name = "SetMultiplier"
                         THEN [multiplier EXCEPT ![call[t].service] = call[t].multiplier]
                         ELSE multiplier
      /\ UNCHANGED <<g_roll_service_mutex, g_roll_service_instance, installed, detours,
                     originals, call, result, attempts, touched, announced, calls>>
  BY DEF CallOriginal, Goto, hooks, histories
<1>2. /\ state \in {"roll", "idle"} /\ (state = "roll" => call[t].name = "AttemptRoll")
      /\ t \in Threads
  BY Kinds
<1> HIDE DEF state
<1>3. \A u \in Threads : pc'[u] = IF u = t THEN state ELSE pc[u]
  BY <1>1 DEF RollInv, Typed, TypeOK
<1>4. /\ call[t].service \in Services
      /\ call[t].name = "SetMultiplier" => call[t].multiplier \in GameMultipliers
  BY <1>1, <1>2 DEF RollInv, RolesKept, OnService
<1>5. /\ multiplier' \in [Services -> Multiplied]
      /\ \A s \in Services : multiplier'[s] \in {multiplier[s]} \cup GameMultipliers
  BY <1>1, <1>4 DEF RollInv, Typed, TypeOK, Multiplied
<1>6. Typed' BY <1>1, <1>2, <1>5 DEF RollInv, Typed, TypeOK, Multiplied
<1>7. IdsFresh' BY <1>1, <1>2, <1>3 DEF RollInv, IdsFresh
<1>8. RolesKept' BY <1>1, <1>2, <1>3, <1>4, Kinds DEF RollInv, RolesKept, GameStates
<1>9. HoldsMutex' BY <1>1, <1>3, Kinds DEF RollInv, HoldsMutex
<1>10. MultiplierKept'
  <2>1. \A c \in Clients : pc[c] \in Rolling => call[c].service \in Services
    BY Kinds DEF RollInv, RolesKept, OnService
  <2> QED BY <1>1, <1>3, <1>5, <2>1, Kinds DEF RollInv, MultiplierKept
<1>11. RolledAsSaid' BY <1>1, <1>3, Kinds DEF RollInv, RolledAsSaid, AttemptsOf
<1>12. AnnouncedBeforeCalled' BY <1>1, <1>2, <1>3 DEF RollInv, AnnouncedBeforeCalled, Threads
<1>13. AnnouncedBeforeRolled'
  BY <1>1, <1>2, <1>3, Kinds DEF RollInv, AnnouncedBeforeRolled, AnnouncedBeforeCalled
<1>14. ClientsDoNotMix' BY <1>1 DEF RollInv, ClientsDoNotMix, AttemptsOf
<1> QED BY <1>6, <1>7, <1>8, <1>9, <1>10, <1>11, <1>12, <1>13, <1>14 DEF RollInv

\* TriggerRoll's checks; the service is read once.
LEMMA CheckStep ==
  ASSUME RollInv, NEW c \in Clients, Check(c)
  PROVE  RollInv'
<1>1. /\ pc[c] = "check"
      /\ result' = [result EXCEPT ![c] = FALSE]
      /\ call' = [call EXCEPT ![c].service = g_roll_service_instance]
      /\ UNCHANGED <<g_roll_service_mutex, g_roll_service_instance, installed, detours,
                     originals, multiplier, attempts, touched, announced, calls>>
  BY DEF Check, hooks, histories
<1>2. PICK state \in {"set", "unlock"} :
        /\ pc' = [pc EXCEPT ![c] = state]
        /\ state = "set" => g_roll_service_instance # Null /\ Valid(call[c].multiplier)
  BY DEF Check, Goto, AfterRefusal, hooks, histories
<1>3. c \in Threads /\ c \notin GameThreads BY Kinds
<1>4. g_roll_service_instance \in Services \cup {Null} BY DEF RollInv, Typed, TypeOK
<1>5. state = "set" => g_roll_service_instance \in Services /\ call[c].multiplier \in 1..100
  <2>1. call[c].multiplier \in Int
    <3>1. call[c].multiplier \in Numbers BY <1>3, CallFields DEF RollInv, Typed
    <3>2. 0 \in Int /\ 1 \in Int OBVIOUS
    <3> QED BY <3>1, <3>2, RollAssumption, Zenon DEF Numbers
  <2> QED BY <1>2, <1>4, <2>1 DEF Valid
<1>6. /\ \A u \in Threads : pc'[u] = IF u = c THEN state ELSE pc[u]
      /\ \A u \in Threads : /\ call'[u].id = call[u].id /\ call'[u].name = call[u].name
                            /\ call'[u].multiplier = call[u].multiplier
                            /\ call'[u].hooked = call[u].hooked
                            /\ u # c => call'[u] = call[u]
      /\ call'[c].service = g_roll_service_instance
      /\ \A d \in Clients : result'[d] = IF d = c THEN FALSE ELSE result[d]
  BY <1>1, <1>2, <1>3 DEF RollInv, Typed, TypeOK
<1>7. Typed'
  <2> DEFINE CallType == [id : 0..MaxCalls,
                          name : {"none", "AttemptRoll", "SetMultiplier",
                                  "GetCurrentMultiplier", "TriggerRoll"},
                          service : Services \cup {Null},
                          multiplier : Numbers,
                          hooked : BOOLEAN, ready : BOOLEAN]
             r == [call[c] EXCEPT !.service = g_roll_service_instance]
  <2>1. call' \in [Threads -> CallType]
    <3>1. call \in [Threads -> CallType] /\ call[c] \in CallType
      BY <1>3 DEF RollInv, Typed, TypeOK
    <3>2. r \in CallType BY <1>4, <3>1
    <3>3. call' = [call EXCEPT ![c] = r] BY <1>1
    <3> HIDE DEF CallType, r
    <3> QED BY <3>1, <3>2, <3>3
  <2>2. result' \in [Clients -> BOOLEAN] BY <1>1 DEF RollInv, Typed, TypeOK
  <2>3. pc' \in [Threads -> {"idle", "capture", "publish", "original", "lock", "check", "set",
                             "roll", "nested", "finish", "unlock"}]
    BY <1>2 DEF RollInv, Typed, TypeOK
  <2> QED BY <1>1, <2>1, <2>2, <2>3 DEF RollInv, Typed, TypeOK
<1>8. IdsFresh' BY <1>1, <1>3, <1>6 DEF RollInv, IdsFresh
<1>9. RolesKept'
  <2>1. call[c].name = "TriggerRoll" BY <1>1 DEF RollInv, RolesKept
  <2> QED
    BY <1>1, <1>3, <1>4, <1>5, <1>6, <2>1, Kinds
    DEF RollInv, RolesKept, ClientStates, OnService, Rolling
<1>10. HoldsMutex' BY <1>1, <1>3, <1>6, Kinds DEF RollInv, HoldsMutex, Holding
<1>11. MultiplierKept' BY <1>1, <1>2, <1>6, Kinds DEF RollInv, MultiplierKept, Rolling
<1>12. RolledAsSaid'
  <2>1. call[c].name = "TriggerRoll" => AttemptsOf(call[c].id) = {}
    BY <1>1 DEF RollInv, RolledAsSaid, Over
  <2>2. RolledAsSaid /\ result'[c] = FALSE BY <1>6 DEF RollInv
  <2>3. \A d \in Clients : d # c => /\ pc'[d] = pc[d] /\ call'[d] = call[d]
                                   /\ result'[d] = result[d]
    BY <1>6, Kinds
  <2>4. call'[c].id = call[c].id /\ call'[c].name = call[c].name BY <1>3, <1>6
  <2> SUFFICES ASSUME NEW d \in Clients, call'[d].name = "TriggerRoll"
               PROVE  /\ pc'[d] \notin Over => AttemptsOf(call'[d].id) = {}
                      /\ pc'[d] \in Over /\ result'[d] =>
                           \E i \in 1..Len(attempts) : AttemptsOf(call'[d].id) = {i}
                      /\ pc'[d] \in Over /\ ~result'[d] => AttemptsOf(call'[d].id) = {}
    BY <1>1 DEF RolledAsSaid, AttemptsOf
  <2>5. CASE d = c BY <2>1, <2>2, <2>4, <2>5
  <2>6. CASE d # c BY <2>2, <2>3, <2>6 DEF RolledAsSaid
  <2> QED BY <2>5, <2>6
<1>13. AnnouncedBeforeCalled' BY <1>1, <1>6, Kinds DEF RollInv, AnnouncedBeforeCalled
<1>14. AnnouncedBeforeRolled' BY <1>1, <1>6, Kinds DEF RollInv, AnnouncedBeforeRolled
<1>15. ClientsDoNotMix' BY <1>1, <1>6, Kinds DEF RollInv, ClientsDoNotMix, AttemptsOf
<1> QED BY <1>7, <1>8, <1>9, <1>10, <1>11, <1>12, <1>13, <1>14, <1>15 DEF RollInv

\* TriggerRoll sets the multiplier: no other client is between its own
\* SetMultiplier and its roll.
LEMMA TriggerSetStep ==
  ASSUME RollInv, OriginalsHeld, NEW c \in Clients, TriggerSetMultiplier(c)
  PROVE  RollInv'
<1>1. /\ pc[c] = "set" /\ pc' = [pc EXCEPT ![c] = "roll"]
      /\ multiplier' = [multiplier EXCEPT ![call[c].service] = call[c].multiplier]
      /\ touched' = touched \cup {call[c].id}
      /\ UNCHANGED <<g_roll_service_mutex, g_roll_service_instance, installed, detours,
                     originals, call, result, attempts, announced, calls>>
  <2>1. pc[c] = "set" => "SetMultiplier" \in originals BY DEF OriginalsHeld, TriggerNeeds
  <2> QED BY <2>1 DEF TriggerSetMultiplier, Goto, Through, hooks
<1>2. c \in Threads /\ c \notin GameThreads BY Kinds
<1>3. call[c].service \in Services /\ call[c].multiplier \in 1..100
  BY <1>1, <1>2 DEF RollInv, RolesKept, OnService
<1>4. \A u \in Threads : pc'[u] = IF u = c THEN "roll" ELSE pc[u]
  BY <1>1 DEF RollInv, Typed, TypeOK
<1>5. /\ multiplier' \in [Services -> Multiplied]
      /\ multiplier'[call[c].service] = call[c].multiplier
  BY <1>1, <1>3 DEF RollInv, Typed, TypeOK, Multiplied
<1>6. Typed'
  <2>1. call[c].id \in 1..MaxCalls
    <3>1. call[c].id \in 0..MaxCalls /\ call[c].id # 0
      BY <1>1, <1>2, CallFields DEF RollInv, Typed, IdsFresh
    <3> QED BY <3>1, RollAssumption
  <2>2. touched' \subseteq 1..MaxCalls BY <1>1, <2>1 DEF RollInv, Typed, TypeOK
  <2> QED BY <1>1, <1>5, <2>2 DEF RollInv, Typed, TypeOK, Multiplied
<1>7. IdsFresh' BY <1>1, <1>4 DEF RollInv, IdsFresh
<1>8. RolesKept' BY <1>1, <1>3, <1>4, Kinds DEF RollInv, RolesKept, ClientStates
<1>9. HoldsMutex' BY <1>1, <1>4, Kinds DEF RollInv, HoldsMutex, Holding
<1>10. MultiplierKept'
  <2>1. \A d \in Clients : d # c => pc[d] \notin Rolling
    BY <1>1 DEF RollInv, HoldsMutex, Holding
  <2> QED BY <1>1, <1>4, <1>5, <2>1, Kinds DEF MultiplierKept
<1>11. RolledAsSaid' BY <1>1, <1>4, Kinds DEF RollInv, RolledAsSaid, AttemptsOf, Over
<1>12. AnnouncedBeforeCalled' BY <1>1, <1>4, Kinds DEF RollInv, AnnouncedBeforeCalled
<1>13. AnnouncedBeforeRolled' BY <1>1, <1>4, Kinds DEF RollInv, AnnouncedBeforeRolled
<1>14. ClientsDoNotMix' BY <1>1 DEF RollInv, ClientsDoNotMix, AttemptsOf
<1> QED BY <1>6, <1>7, <1>8, <1>9, <1>10, <1>11, <1>12, <1>13, <1>14 DEF RollInv

\* The roll is made, with the multiplier that the service has by then.
LEMMA FinishRollStep ==
  ASSUME RollInv, NEW t \in Threads, FinishRoll(t)
  PROVE  RollInv'
<1> DEFINE id == call[t].id
           m == multiplier[call[t].service]
           r == [id |-> id, service |-> call[t].service, multiplier |-> m]
           state == IF t \in Clients THEN "unlock" ELSE "idle"
<1>1. /\ pc[t] = "finish" /\ attempts' = Append(attempts, r)
      /\ pc' = [pc EXCEPT ![t] = state]
      /\ result' = IF t \in Clients THEN [result EXCEPT ![t] = TRUE] ELSE result
      /\ UNCHANGED <<g_roll_service_mutex, g_roll_service_instance, installed, detours,
                     originals, call, multiplier, touched, announced, calls>>
  BY DEF FinishRoll, Goto, hooks
<1>2. /\ id \in 1..MaxCalls /\ id <= calls
  <2>1. id \in 0..MaxCalls /\ id # 0 /\ id <= calls
    BY <1>1, CallFields DEF RollInv, Typed, IdsFresh
  <2> QED BY <2>1, RollAssumption
<1>3. call[t].service \in Services BY <1>1 DEF RollInv, RolesKept, OnService, Rolling
<1>4. m \in Multiplied BY <1>3 DEF RollInv, Typed, TypeOK, Multiplied
<1>5. r \in RollType /\ r.id = id /\ r.multiplier = m BY <1>2, <1>3, <1>4 DEF RollType
<1>6. /\ state \in Over /\ state \notin OnService \cup Rolling \cup {"set"}
      /\ t \in Clients => state = "unlock"
      /\ t \notin Clients => state = "idle"
  BY DEF Over, OnService, Rolling
<1> HIDE DEF m, r, state
<1>7. /\ attempts' \in Seq(RollType) /\ Len(attempts) \in Nat /\ Len(attempts') = Len(attempts) + 1
      /\ \A i \in 1..Len(attempts') : i \in 1..Len(attempts) \/ i = Len(attempts) + 1
      /\ \A i \in 1..Len(attempts) : i \in 1..Len(attempts') /\ attempts'[i] = attempts[i]
      /\ attempts'[Len(attempts) + 1] = r
  BY <1>1, <1>5, AppendAttempt DEF RollInv
<1>8. \A u \in Threads : pc'[u] = IF u = t THEN state ELSE pc[u]
  BY <1>1 DEF RollInv, Typed, TypeOK
<1>9. Typed'
  <2>1. pc' \in [Threads -> {"idle", "capture", "publish", "original", "lock", "check", "set",
                             "roll", "nested", "finish", "unlock"}]
    BY <1>1, <1>6 DEF RollInv, Typed, TypeOK, Over
  <2>2. result' \in [Clients -> BOOLEAN] BY <1>1 DEF RollInv, Typed, TypeOK
  <2>3. \A i \in 1..Len(attempts') : attempts'[i] \in RollType BY <1>7
  <2> QED BY <1>1, <1>7, <2>1, <2>2, <2>3 DEF RollInv, Typed, TypeOK, RollType, Multiplied
<1>10. IdsFresh'
  <2>1. \A i \in 1..Len(attempts') : attempts'[i].id <= calls
    BY <1>2, <1>5, <1>7 DEF RollInv, IdsFresh
  <2>2. \A u \in Threads : pc'[u] # "idle" => pc[u] # "idle" BY <1>1, <1>8
  <2> QED BY <1>1, <2>1, <2>2 DEF RollInv, IdsFresh
<1>11. RolesKept'
  <2>1. t \in Clients => call[t].name = "TriggerRoll" BY <1>1 DEF RollInv, RolesKept
  <2> QED
    BY <1>1, <1>6, <1>8, <2>1, Kinds DEF RollInv, RolesKept, ClientStates, GameStates
<1>12. HoldsMutex'
  <2>1. t \in Clients => pc[t] \in Holding BY <1>1 DEF Holding, Rolling
  <2> QED BY <1>1, <1>8, <2>1, Kinds DEF RollInv, HoldsMutex
<1>13. MultiplierKept' BY <1>1, <1>6, <1>8, Kinds DEF RollInv, MultiplierKept
<1>14. /\ \A d \in Clients : d # t => /\ AttemptsOf(call[d].id)' = AttemptsOf(call[d].id)
                                      /\ call[d].id # id
       /\ AttemptsOf(id)' = AttemptsOf(id) \cup {Len(attempts) + 1}
  <2>1. \A d \in Clients : d # t => call[d].id # id
    BY <1>2, Kinds DEF RollInv, IdsFresh
  <2>2. /\ \A i \in 1..Len(attempts') : attempts'[i].id = id <=>
             (i \in 1..Len(attempts) /\ attempts[i].id = id) \/ i = Len(attempts) + 1
        /\ \A n : n # id => \A i \in 1..Len(attempts') : attempts'[i].id = n <=>
             i \in 1..Len(attempts) /\ attempts[i].id = n
    BY <1>5, <1>7
  <2>3. Len(attempts) + 1 \in 1..Len(attempts') BY <1>7
  <2> HIDE DEF id
  <2>4. ASSUME NEW d \in Clients, d # t
        PROVE  {i \in 1..Len(attempts') : attempts'[i].id = call[d].id}
                 = {i \in 1..Len(attempts) : attempts[i].id = call[d].id}
    BY <1>7, <2>1, <2>2, <2>4
  <2>5. {i \in 1..Len(attempts') : attempts'[i].id = id}
          = {i \in 1..Len(attempts) : attempts[i].id = id} \cup {Len(attempts) + 1}
    BY <1>7, <2>2, <2>3
  <2> QED BY <1>1, <2>1, <2>4, <2>5 DEF AttemptsOf, id
<1>15. RolledAsSaid'
  <2> SUFFICES ASSUME NEW d \in Clients, call[d].name = "TriggerRoll"
               PROVE  /\ pc'[d] \notin Over => AttemptsOf(call[d].id)' = {}
                      /\ pc'[d] \in Over /\ result'[d] =>
                           \E i \in 1..Len(attempts') : AttemptsOf(call[d].id)' = {i}
                      /\ pc'[d] \in Over /\ ~result'[d] => AttemptsOf(call[d].id)' = {}
    BY <1>1 DEF RolledAsSaid, AttemptsOf
  <2>1. RolledAsSaid BY DEF RollInv
  <2>2. CASE d = t
    <3>1. AttemptsOf(id) = {} BY <1>1, <2>1, <2>2 DEF RolledAsSaid, Over
    <3>2. pc'[d] \in Over /\ result'[d] = TRUE
      BY <1>1, <1>6, <1>8, <2>2, Kinds DEF RollInv, Typed, TypeOK
    <3>3. AttemptsOf(call[d].id)' = {Len(attempts) + 1} BY <1>1, <1>14, <2>2, <3>1 DEF AttemptsOf
    <3>4. Len(attempts) + 1 \in 1..Len(attempts') BY <1>7
    <3> QED BY <3>2, <3>3, <3>4
  <2>3. CASE d # t
    <3>1. pc'[d] = pc[d] /\ result'[d] = result[d]
      BY <1>1, <1>8, <2>3, Kinds DEF RollInv, Typed, TypeOK
    <3>2. AttemptsOf(call[d].id)' = AttemptsOf(call[d].id) BY <1>14, <2>3
    <3>3. \A i \in 1..Len(attempts) : i \in 1..Len(attempts') BY <1>7
    <3> QED BY <2>1, <3>1, <3>2, <3>3 DEF RolledAsSaid
  <2> QED BY <2>2, <2>3
<1>16. AnnouncedBeforeCalled'
  <2>1. \A g \in GameThreads : pc'[g] = "original" => pc[g] = "original"
    BY <1>6, <1>8, Kinds DEF OnService
  <2> QED BY <1>1, <2>1 DEF RollInv, AnnouncedBeforeCalled
<1>17. AnnouncedBeforeRolled'
  <2>1. \A g \in GameThreads : pc'[g] \in Rolling => pc[g] \in Rolling
    BY <1>6, <1>8, Kinds
  <2> QED BY <1>1, <2>1 DEF RollInv, AnnouncedBeforeRolled, Rolling
<1>18. ClientsDoNotMix'
  <2> SUFFICES ASSUME NEW c \in Clients, call[c].name = "TriggerRoll",
                      NEW i \in 1..Len(attempts'), attempts'[i].id = call[c].id
               PROVE  attempts'[i].multiplier \in {call[c].multiplier} \cup GameMultipliers
    BY <1>1 DEF ClientsDoNotMix, AttemptsOf
  <2>1. CASE i \in 1..Len(attempts)
    <3>1. attempts'[i] = attempts[i] /\ i \in AttemptsOf(call[c].id) BY <1>7, <2>1 DEF AttemptsOf
    <3> QED BY <3>1 DEF RollInv, ClientsDoNotMix
  <2>2. CASE i = Len(attempts) + 1
    <3>1. call[c].id = id /\ attempts'[i].multiplier = m BY <1>5, <1>7, <2>2
    <3>2. c = t BY <1>14, <3>1
    <3>3. pc[c] \in Rolling BY <1>1, <3>2 DEF Rolling
    <3> QED BY <3>1, <3>2, <3>3 DEF RollInv, MultiplierKept, m
  <2> QED BY <1>7, <2>1, <2>2
<1> QED
  BY <1>9, <1>10, <1>11, <1>12, <1>13, <1>15, <1>16, <1>17, <1>18 DEF RollInv

-----------------------------------------------------------------------------
\* The invariant holds in every reachable state.
THEOREM Invariant == Spec => []RollInv
<1>1. Init => RollInv
  <2> SUFFICES ASSUME Init PROVE RollInv
    OBVIOUS
  <2>1. /\ g_roll_service_mutex = Null /\ g_roll_service_instance = Null /\ installed = 0
        /\ pc = [t \in Threads |-> "idle"] /\ call = [t \in Threads |-> NoCall]
        /\ result = [c \in Clients |-> FALSE] /\ multiplier = [s \in Services |-> 1]
        /\ attempts = <<>> /\ touched = {} /\ announced = {} /\ calls = 0
        /\ detours = {} /\ originals = {}
    BY DEF Init
  <2>2. \A t \in Threads : pc[t] = "idle" /\ call[t] = NoCall BY <2>1
  <2>3. NoCall.id = 0 /\ NoCall.name = "none" BY DEF NoCall
  <2>4. Len(attempts) = 0 /\ attempts \in Seq(RollType) BY <2>1
  <2>5. Typed
    <3>1. NoCall \in [id : 0..MaxCalls,
                      name : {"none", "AttemptRoll", "SetMultiplier", "GetCurrentMultiplier",
                              "TriggerRoll"},
                      service : Services \cup {Null}, multiplier : Numbers, hooked : BOOLEAN, ready : BOOLEAN]
      BY RollAssumption DEF NoCall, Numbers
    <3>2. installed \in 0..Len(InstallOrder) BY <2>1 DEF InstallOrder
    <3>3. calls \in 0..MaxCalls BY <2>1, RollAssumption
    <3>4. multiplier \in [Services -> GameMultipliers \cup 1..100] BY <2>1
    <3>5. result \in [Clients -> BOOLEAN] BY <2>1
    <3>6. pc \in [Threads -> {"idle", "capture", "publish", "original", "lock", "check", "set",
                              "roll", "nested", "finish", "unlock"}]
      BY <2>1
    <3> QED BY <2>1, <2>4, <3>1, <3>2, <3>3, <3>4, <3>5, <3>6 DEF Typed, TypeOK
  <2>6. IdsFresh BY <2>1, <2>2, <2>3, <2>4 DEF IdsFresh
  <2>7. RolesKept
    BY <2>2, <2>3, Kinds DEF RolesKept, ClientStates, GameStates, OnService, Rolling
  <2>8. HoldsMutex /\ MultiplierKept /\ AnnouncedBeforeCalled
    BY <2>2, Kinds DEF HoldsMutex, MultiplierKept, AnnouncedBeforeCalled, Holding, Rolling
  <2>9. AnnouncedBeforeRolled BY <2>1, <2>2, Kinds DEF AnnouncedBeforeRolled
  <2>10. RolledAsSaid /\ ClientsDoNotMix
    BY <2>2, <2>3, Kinds DEF RolledAsSaid, ClientsDoNotMix
  <2> QED BY <2>5, <2>6, <2>7, <2>8, <2>9, <2>10 DEF RollInv
<1>2. RollInv /\ OriginalsHeld /\ [Next]_vars => RollInv'
  <2> SUFFICES ASSUME RollInv, OriginalsHeld, [Next]_vars PROVE RollInv'
    OBVIOUS
  <2>1. ASSUME NEW t \in Threads, RollStep(t) PROVE RollInv'
    BY <2>1, BeginRollStep, NestedCaptureStep, FinishRollStep DEF RollStep
  <2>2. ASSUME NEW t \in GameThreads, GameCall(t) \/ GameStep(t) PROVE RollInv'
    BY <2>2, GameCallStep, CaptureStep, PublishCallStep, CallOriginalStep DEF GameStep
  <2>3. ASSUME NEW c \in Clients, TriggerRoll(c) \/ SetRollServiceInstance(c) \/ ClientStep(c)
        PROVE  RollInv'
    BY <2>3, TriggerRollStep, SetInstanceStep, LockServiceStep, CheckStep, TriggerSetStep,
       UnlockServiceStep
    DEF ClientStep
  <2>4. CASE UNCHANGED vars
    <3>1. UNCHANGED <<g_roll_service_mutex, g_roll_service_instance, installed, detours,
                      originals, pc, call, result, multiplier, attempts, touched, announced,
                      calls>>
      BY <2>4 DEF vars, hooks, histories
    <3>2. Typed' BY <3>1 DEF RollInv, Typed, TypeOK
    <3> QED
      BY <3>1, <3>2
      DEF RollInv, IdsFresh, RolesKept, HoldsMutex, MultiplierKept, RolledAsSaid, AttemptsOf,
          AnnouncedBeforeCalled, AnnouncedBeforeRolled, ClientsDoNotMix
  <2> QED BY <2>1, <2>2, <2>3, <2>4, InstallStep, Kinds DEF Next
<1> QED BY <1>1, <1>2, OriginalsThere, PTL DEF Spec

\* Every variable keeps its type; every roll is of a service and with a
\* multiplier of the game's or of TriggerRoll's range.
THEOREM TypeCorrect == Spec => []TypeOK
BY Invariant, PTL DEF RollInv, Typed

\* No client's roll is made with the multiplier of another.
THEOREM Unmixed == Spec => []ClientsDoNotMix
BY Invariant, PTL DEF RollInv

\* A roll through the detour is announced first, one past it is not.
THEOREM Announcements == Spec => []AnnouncedBeforeRolled
BY Invariant, PTL DEF RollInv

-----------------------------------------------------------------------------
(* What TriggerRoll does to the service, and what it must not refuse.       *)

EffectsAsSaid ==
  /\ \A id \in touched : id <= calls
  /\ \A c \in Clients :
       call[c].name = "TriggerRoll" =>
         /\ pc[c] \in {"lock", "check", "set"} => call[c].id \notin touched
         /\ pc[c] \in Rolling => call[c].id \in touched
         /\ pc[c] \in Over => (call[c].id \in touched <=> result[c])

ReadyServed ==
  \A c \in Clients :
    call[c].ready =>
      /\ call[c].multiplier \in 1..100
      /\ pc[c] \in {"lock", "check"} =>
           g_roll_service_instance # Null /\ TriggerNeeds \subseteq originals
      /\ pc[c] \in Over => result[c]

Effects == EffectsAsSaid /\ ReadyServed

\* A step within a call that touches no service, takes nothing away and decides nothing.
LEMMA EffectsFrame ==
  ASSUME Effects, UNCHANGED <<call, result, touched, calls>>, originals \subseteq originals',
         g_roll_service_instance' # Null \/ g_roll_service_instance' = g_roll_service_instance,
         \A c \in Clients : \/ pc'[c] = pc[c]
                            \/ pc[c] = "lock" /\ pc'[c] = "check"
                            \/ pc[c] \in Rolling /\ pc'[c] \in Rolling
                            \/ pc[c] = "unlock" /\ pc'[c] = "idle"
  PROVE  Effects'
<1>1. EffectsAsSaid' BY DEF Effects, EffectsAsSaid, Rolling, Over
<1>2. ReadyServed' BY DEF Effects, ReadyServed, Rolling, Over
<1> QED BY <1>1, <1>2 DEF Effects

\* The game's steps.
LEMMA GameEffects ==
  ASSUME RollInv, Effects, NEW t \in GameThreads, GameStep(t) \/ RollStep(t)
  PROVE  Effects'
<1>1. t \in Threads /\ t \notin Clients BY Kinds
<1>2. /\ UNCHANGED <<call, result, touched, calls>> /\ originals' = originals
      /\ \A c \in Clients : pc'[c] = pc[c]
  BY <1>1, Kinds
  DEF GameStep, RollStep, Capture, PublishCall, CallOriginal, BeginRoll, NestedCapture, FinishRoll,
      Goto, hooks, histories, RollInv, Typed, TypeOK
<1>3. g_roll_service_instance' # Null \/ g_roll_service_instance' = g_roll_service_instance
  <2>1. CASE Capture(t) \/ NestedCapture(t)
    <3>1. pc[t] \in OnService BY <2>1 DEF Capture, NestedCapture, OnService, Rolling
    <3>2. call[t].service \in Services BY <1>1, <3>1 DEF RollInv, RolesKept
    <3>3. g_roll_service_instance' = call[t].service BY <2>1 DEF Capture, NestedCapture
    <3> QED BY <3>2, <3>3, RollAssumption
  <2>2. CASE PublishCall(t) \/ CallOriginal(t) \/ BeginRoll(t) \/ FinishRoll(t)
    BY <2>2 DEF PublishCall, CallOriginal, BeginRoll, FinishRoll
  <2> QED BY <2>1, <2>2 DEF GameStep, RollStep
<1> QED BY <1>2, <1>3, EffectsFrame

\* A call begins, with an id that no effect has.
LEMMA CallEffects ==
  ASSUME RollInv, Effects, NEW t \in Threads,
         \/ GameCall(t) /\ t \in GameThreads
         \/ TriggerRoll(t) /\ t \in Clients
  PROVE  Effects'
<1>1. PICK name, service, m, state :
        /\ Call(t, name, service, m) /\ Goto(t, state)
        /\ t \in Clients => state = "lock" /\ name = "TriggerRoll"
  <2>1. CASE GameCall(t) /\ t \in GameThreads BY <2>1, Kinds DEF GameCall
  <2>2. CASE TriggerRoll(t) /\ t \in Clients BY <2>2 DEF TriggerRoll
  <2> QED BY <2>1, <2>2
<1>2. UNCHANGED <<result, touched, originals, g_roll_service_instance>>
  BY DEF GameCall, TriggerRoll, hooks, histories
<1> DEFINE ready == /\ name = "TriggerRoll" /\ m \in 1..100
                    /\ g_roll_service_instance # Null /\ TriggerNeeds \subseteq originals
           r == [id |-> calls + 1, name |-> name, service |-> service, multiplier |-> m,
                 hooked |-> name \in detours, ready |-> ready]
<1>3. /\ calls' = calls + 1 /\ pc[t] = "idle"
      /\ \A u \in Threads : call'[u] = IF u = t THEN r ELSE call[u]
      /\ \A u \in Threads : pc'[u] = IF u = t THEN state ELSE pc[u]
  BY <1>1 DEF Call, Goto, RollInv, Typed, TypeOK
<1>4. r.id = calls + 1 /\ r.multiplier = m /\ r.name = name /\ r.ready = ready OBVIOUS
<1> HIDE DEF r
<1>5. calls \in Nat /\ touched \subseteq 1..MaxCalls BY RollAssumption DEF RollInv, Typed, TypeOK
<1>6. \A id \in touched : id <= calls' BY <1>3, <1>5 DEF Effects, EffectsAsSaid
<1>7. calls + 1 \notin touched BY <1>5 DEF Effects, EffectsAsSaid
<1>8. ASSUME NEW c \in Clients, call'[c].name = "TriggerRoll"
      PROVE  /\ pc'[c] \in {"lock", "check", "set"} => call'[c].id \notin touched'
             /\ pc'[c] \in Rolling => call'[c].id \in touched'
             /\ pc'[c] \in Over => (call'[c].id \in touched' <=> result'[c])
  <2>1. CASE c = t BY <1>1, <1>2, <1>3, <1>4, <1>7, <2>1 DEF Rolling, Over
  <2>2. CASE c # t BY <1>2, <1>3, <1>8, <2>2, Kinds DEF Effects, EffectsAsSaid
  <2> QED BY <2>1, <2>2
<1>9. EffectsAsSaid' BY <1>2, <1>6, <1>8 DEF EffectsAsSaid
<1>10. ASSUME NEW c \in Clients, call'[c].ready
       PROVE  /\ call'[c].multiplier \in 1..100
              /\ pc'[c] \in {"lock", "check"} =>
                   g_roll_service_instance' # Null /\ TriggerNeeds \subseteq originals'
              /\ pc'[c] \in Over => result'[c]
  <2>1. CASE c = t BY <1>1, <1>2, <1>3, <1>4, <1>10, <2>1 DEF Over
  <2>2. CASE c # t BY <1>2, <1>3, <1>10, <2>2, Kinds DEF Effects, ReadyServed
  <2> QED BY <2>1, <2>2
<1>11. ReadyServed' BY <1>10 DEF ReadyServed
<1> QED BY <1>9, <1>11 DEF Effects

\* TriggerRoll refuses, without any effect, or goes on.
LEMMA CheckEffects ==
  ASSUME RollInv, Effects, NEW c \in Clients, Check(c)
  PROVE  Effects'
<1>1. /\ pc[c] = "check" /\ UNCHANGED <<touched, calls, originals, g_roll_service_instance>>
      /\ result' = [result EXCEPT ![c] = FALSE]
      /\ call' = [call EXCEPT ![c].service = g_roll_service_instance]
  BY DEF Check, hooks, histories
<1>2. PICK state \in {"set", "unlock"} :
        /\ pc' = [pc EXCEPT ![c] = state]
        /\ state = "unlock" => ~(/\ g_roll_service_instance # Null
                                 /\ TriggerNeeds \subseteq originals
                                 /\ Valid(call[c].multiplier))
  BY DEF Check, Goto, AfterRefusal, OriginalsKnown
<1>3. c \in Threads BY Kinds
<1>4. /\ \A u \in Threads : pc'[u] = IF u = c THEN state ELSE pc[u]
      /\ \A u \in Threads : /\ call'[u].id = call[u].id /\ call'[u].name = call[u].name
                            /\ call'[u].multiplier = call[u].multiplier
                            /\ call'[u].ready = call[u].ready
      /\ \A d \in Clients : result'[d] = IF d = c THEN FALSE ELSE result[d]
  BY <1>1, <1>2, <1>3 DEF RollInv, Typed, TypeOK
<1>5. EffectsAsSaid'
  <2> SUFFICES ASSUME NEW d \in Clients, call[d].name = "TriggerRoll"
               PROVE  /\ pc'[d] \in {"lock", "check", "set"} => call[d].id \notin touched
                      /\ pc'[d] \in Rolling => call[d].id \in touched
                      /\ pc'[d] \in Over => (call[d].id \in touched <=> result'[d])
    BY <1>1, <1>4, Kinds DEF Effects, EffectsAsSaid
  <2>1. CASE d = c BY <1>1, <1>2, <1>4, <2>1, Kinds DEF Effects, EffectsAsSaid, Rolling, Over
  <2>2. CASE d # c BY <1>4, <2>2, Kinds DEF Effects, EffectsAsSaid
  <2> QED BY <2>1, <2>2
<1>6. ReadyServed'
  <2> SUFFICES ASSUME NEW d \in Clients, call[d].ready
               PROVE  /\ call[d].multiplier \in 1..100
                      /\ pc'[d] \in {"lock", "check"} =>
                           g_roll_service_instance # Null /\ TriggerNeeds \subseteq originals
                      /\ pc'[d] \in Over => result'[d]
    BY <1>1, <1>4, Kinds DEF ReadyServed
  <2>1. CASE d = c
    <3>1. /\ call[c].multiplier \in 1..100 /\ g_roll_service_instance # Null
          /\ TriggerNeeds \subseteq originals
      BY <1>1, <2>1 DEF Effects, ReadyServed
    <3>2. Valid(call[c].multiplier) BY <3>1 DEF Valid
    <3>3. state = "set" BY <1>2, <3>1, <3>2
    <3> QED BY <1>4, <2>1, <3>1, <3>3, Kinds DEF Over
  <2>2. CASE d # c BY <1>4, <2>2, Kinds DEF Effects, ReadyServed
  <2> QED BY <2>1, <2>2
<1> QED BY <1>5, <1>6 DEF Effects

\* TriggerRoll has set the multiplier.
LEMMA TriggerSetEffects ==
  ASSUME RollInv, OriginalsHeld, Effects, NEW c \in Clients, TriggerSetMultiplier(c)
  PROVE  Effects'
<1>1. /\ pc[c] = "set" /\ touched' = touched \cup {call[c].id}
      /\ UNCHANGED <<call, result, calls, originals, g_roll_service_instance>>
      /\ pc' = [pc EXCEPT ![c] = "roll"]
  <2>1. pc[c] = "set" => "SetMultiplier" \in originals BY DEF OriginalsHeld, TriggerNeeds
  <2> QED BY <2>1 DEF TriggerSetMultiplier, Goto, Through, hooks
<1>2. \A u \in Threads : pc'[u] = IF u = c THEN "roll" ELSE pc[u]
  BY <1>1 DEF RollInv, Typed, TypeOK
<1>3. \A d \in Clients : d # c => call[d].id # call[c].id
  BY <1>1, Kinds DEF RollInv, IdsFresh
<1>4. call[c].id <= calls BY Kinds DEF RollInv, IdsFresh
<1>5. EffectsAsSaid'
  <2>1. \A id \in touched' : id <= calls' BY <1>1, <1>4 DEF Effects, EffectsAsSaid
  <2>2. ASSUME NEW d \in Clients, call[d].name = "TriggerRoll"
        PROVE  /\ pc'[d] \in {"lock", "check", "set"} => call[d].id \notin touched'
               /\ pc'[d] \in Rolling => call[d].id \in touched'
               /\ pc'[d] \in Over => (call[d].id \in touched' <=> result[d])
    <3>1. CASE d = c BY <1>1, <1>2, <3>1, Kinds DEF Rolling, Over
    <3>2. CASE d # c
      <4>1. call[d].id \in touched' <=> call[d].id \in touched BY <1>1, <1>3, <3>2
      <4> QED BY <1>2, <2>2, <3>2, <4>1, Kinds DEF Effects, EffectsAsSaid
    <3> QED BY <3>1, <3>2
  <2> QED BY <1>1, <2>1, <2>2 DEF EffectsAsSaid
<1>6. ReadyServed' BY <1>1, <1>2, Kinds DEF Effects, ReadyServed, Over
<1> QED BY <1>5, <1>6 DEF Effects

\* AttemptRoll has come back to TriggerRoll.
LEMMA FinishEffects ==
  ASSUME RollInv, Effects, NEW c \in Clients, FinishRoll(c)
  PROVE  Effects'
<1>1. /\ pc[c] = "finish" /\ pc' = [pc EXCEPT ![c] = "unlock"]
      /\ result' = [result EXCEPT ![c] = TRUE]
      /\ UNCHANGED <<call, touched, calls, originals, g_roll_service_instance>>
  BY DEF FinishRoll, Goto, hooks
<1>2. /\ \A u \in Threads : pc'[u] = IF u = c THEN "unlock" ELSE pc[u]
      /\ \A d \in Clients : result'[d] = IF d = c THEN TRUE ELSE result[d]
  BY <1>1 DEF RollInv, Typed, TypeOK
<1>3. EffectsAsSaid'
  <2> SUFFICES ASSUME NEW d \in Clients, call[d].name = "TriggerRoll"
               PROVE  /\ pc'[d] \in {"lock", "check", "set"} => call[d].id \notin touched
                      /\ pc'[d] \in Rolling => call[d].id \in touched
                      /\ pc'[d] \in Over => (call[d].id \in touched <=> result'[d])
    BY <1>1 DEF Effects, EffectsAsSaid
  <2>1. CASE d = c
    <3>1. call[d].id \in touched BY <1>1, <2>1 DEF Effects, EffectsAsSaid, Rolling
    <3>2. pc'[d] = "unlock" /\ result'[d] = TRUE BY <1>2, <2>1, Kinds
    <3> QED BY <3>1, <3>2
  <2>2. CASE d # c BY <1>2, <2>2, Kinds DEF Effects, EffectsAsSaid
  <2> QED BY <2>1, <2>2
<1>4. ReadyServed'
  <2> SUFFICES ASSUME NEW d \in Clients, call[d].ready
               PROVE  /\ call[d].multiplier \in 1..100
                      /\ pc'[d] \in {"lock", "check"} =>
                           g_roll_service_instance # Null /\ TriggerNeeds \subseteq originals
                      /\ pc'[d] \in Over => result'[d]
    BY <1>1 DEF ReadyServed
  <2>1. CASE d = c
    <3>1. pc'[d] = "unlock" /\ result'[d] = TRUE BY <1>2, <2>1, Kinds
    <3> QED BY <3>1 DEF Effects, ReadyServed
  <2>2. CASE d # c BY <1>2, <2>2, Kinds DEF Effects, ReadyServed
  <2> QED BY <2>1, <2>2
<1> QED BY <1>3, <1>4 DEF Effects

\* Somebody sets the instance, or takes it away from every call that was ready.
LEMMA SetInstanceEffects ==
  ASSUME RollInv, Effects, NEW c \in Clients, SetRollServiceInstance(c)
  PROVE  Effects'
<1>1. UNCHANGED <<pc, result, touched, calls, originals>>
  BY DEF SetRollServiceInstance, hooks, histories
<1>2. CASE g_roll_service_instance' # Null
  <2>1. call' = call BY <1>2 DEF SetRollServiceInstance
  <2> QED BY <1>1, <1>2, <2>1, EffectsFrame
<1>3. CASE g_roll_service_instance' = Null
  <2>1. call' = [t \in Threads |-> [call[t] EXCEPT !.ready = FALSE]]
    BY <1>3 DEF SetRollServiceInstance
  <2>2. ASSUME NEW t \in Threads
        PROVE  call'[t].id = call[t].id /\ call'[t].name = call[t].name /\ ~call'[t].ready
    <3>1. call[t] \in [id : 0..MaxCalls,
                       name : {"none", "AttemptRoll", "SetMultiplier",
                               "GetCurrentMultiplier", "TriggerRoll"},
                       service : Services \cup {Null},
                       multiplier : Numbers,
                       hooked : BOOLEAN, ready : BOOLEAN]
      BY DEF RollInv, Typed, TypeOK
    <3> QED BY <2>1, <3>1
  <2>3. EffectsAsSaid' BY <1>1, <2>2, Kinds DEF Effects, EffectsAsSaid
  <2>4. ReadyServed' BY <2>2, Kinds DEF ReadyServed
  <2> QED BY <2>3, <2>4 DEF Effects
<1> QED BY <1>2, <1>3

\* What TriggerRoll does to a service is what its result says, and it serves a call
\* that was ready.
THEOREM EffectsInvariant == Spec => []Effects
<1>1. Init => Effects
  <2> SUFFICES ASSUME Init PROVE Effects
    OBVIOUS
  <2>1. \A c \in Clients : call[c].name = "none" /\ ~call[c].ready
    BY Kinds DEF Init, NoCall
  <2>2. touched = {} BY DEF Init
  <2> QED BY <2>1, <2>2 DEF Effects, EffectsAsSaid, ReadyServed
<1>2. RollInv /\ OriginalsHeld /\ Effects /\ [Next]_vars => Effects'
  <2> SUFFICES ASSUME RollInv, OriginalsHeld, Effects, [Next]_vars PROVE Effects'
    OBVIOUS
  <2>1. ASSUME NEW c \in Clients, LockService(c) \/ UnlockService(c) PROVE Effects'
    <3>1. /\ UNCHANGED <<call, result, touched, calls, originals, g_roll_service_instance>>
          /\ \/ pc[c] = "lock" /\ pc' = [pc EXCEPT ![c] = "check"]
             \/ pc[c] = "unlock" /\ pc' = [pc EXCEPT ![c] = "idle"]
      BY <2>1 DEF LockService, UnlockService, Goto, hooks, histories
    <3>2. \A d \in Clients : \/ pc'[d] = pc[d]
                             \/ pc[d] = "lock" /\ pc'[d] = "check"
                             \/ pc[d] = "unlock" /\ pc'[d] = "idle"
      BY <3>1, Kinds DEF RollInv, Typed, TypeOK
    <3> QED BY <3>1, <3>2, EffectsFrame
  <2>2. ASSUME NEW c \in Clients, BeginRoll(c) \/ NestedCapture(c) PROVE Effects'
    <3>1. /\ UNCHANGED <<call, result, touched, calls, originals>> /\ pc[c] \in Rolling
      BY <2>2 DEF BeginRoll, NestedCapture, hooks, histories, Rolling
    <3>2. PICK state \in {"finish", "nested"} : pc' = [pc EXCEPT ![c] = state]
      <4>1. "AttemptRoll" \in originals BY <3>1 DEF OriginalsHeld, TriggerNeeds
      <4> QED BY <2>2, <4>1 DEF BeginRoll, NestedCapture, Goto, Through
    <3>3. \A d \in Clients : pc'[d] = pc[d] \/ (pc[d] \in Rolling /\ pc'[d] \in Rolling)
      BY <3>1, <3>2, Kinds DEF RollInv, Typed, TypeOK, Rolling
    <3>4. g_roll_service_instance' # Null \/ g_roll_service_instance' = g_roll_service_instance
      <4>1. call[c].service \in Services BY <3>1, Kinds DEF RollInv, RolesKept, OnService
      <4> QED BY <2>2, <4>1, RollAssumption DEF BeginRoll, NestedCapture
    <3> QED BY <3>1, <3>3, <3>4, EffectsFrame
  <2>3. CASE Install \/ UNCHANGED vars
    <3>1. /\ UNCHANGED <<pc, call, result, touched, calls, g_roll_service_instance>>
          /\ originals \subseteq originals'
      BY <2>3 DEF Install, vars, hooks, histories
    <3> QED BY <3>1, EffectsFrame
  <2>4. ASSUME NEW t \in GameThreads, GameCall(t) \/ GameStep(t) \/ RollStep(t)
        PROVE  Effects'
    <3>1. t \in Threads BY Kinds
    <3> QED BY <2>4, <3>1, GameEffects, CallEffects
  <2>5. ASSUME NEW c \in Clients, TriggerRoll(c) \/ SetRollServiceInstance(c)
        PROVE  Effects'
    <3>1. c \in Threads BY Kinds
    <3> QED BY <2>5, <3>1, CallEffects, SetInstanceEffects
  <2>6. ASSUME NEW c \in Clients, ClientStep(c) \/ RollStep(c) PROVE Effects'
    BY <2>1, <2>2, <2>6, CheckEffects, TriggerSetEffects, FinishEffects
    DEF ClientStep, RollStep
  <2> QED BY <2>3, <2>4, <2>5, <2>6 DEF Next
<1> QED BY <1>1, <1>2, Invariant, OriginalsThere, PTL DEF Spec

\* TriggerRoll's result tells what it did: one call of each original, or no effect; and
\* it does not refuse what it can do.
THEOREM Honest == Spec => []TriggerIsHonest
<1>1. RollInv /\ Effects => TriggerIsHonest
  <2> SUFFICES ASSUME RollInv, Effects,
                      NEW c \in Clients, pc[c] = "idle", call[c].name = "TriggerRoll"
               PROVE  /\ Cardinality(AttemptsOf(call[c].id)) = IF result[c] THEN 1 ELSE 0
                      /\ call[c].id \in touched <=> result[c]
                      /\ call[c].ready => result[c]
    BY DEF TriggerIsHonest
  <2>1. RolledAsSaid /\ pc[c] \in Over BY DEF RollInv, Over
  <2>2. CASE result[c]
    <3>1. PICK i : AttemptsOf(call[c].id) = {i} BY <2>1, <2>2 DEF RolledAsSaid
    <3>2. Cardinality(AttemptsOf(call[c].id)) = 1 BY <3>1, FS_Singleton
    <3> QED BY <2>1, <2>2, <3>2 DEF Effects, EffectsAsSaid
  <2>3. CASE ~result[c]
    <3>1. AttemptsOf(call[c].id) = {} BY <2>1, <2>3 DEF RolledAsSaid
    <3>2. Cardinality(AttemptsOf(call[c].id)) = 0 BY <3>1, FS_EmptySet
    <3> QED BY <2>1, <2>3, <3>2 DEF Effects, EffectsAsSaid, ReadyServed
  <2> QED BY <2>2, <2>3
<1> QED BY <1>1, Invariant, EffectsInvariant, PTL

-----------------------------------------------------------------------------
(* What keeps a call from coming back: nothing but the mutex, and that only *)
(* on the thread that holds it.                                             *)

\* The mutex is held by a client inside TriggerRoll, never by one that has
\* returned or by a detour.  The one state in which the holder itself waits for
\* the mutex is "nested": its roll has entered the detour.
HeldInside == g_roll_service_mutex # Null => pc[g_roll_service_mutex] \in Holding

\* How many steps a call has before it, at most.
Ahead(state) ==
  CASE state \in {"lock", "capture"} -> 7
    [] state \in {"check", "publish"} -> 6
    [] state \in {"set", "original"} -> 5
    [] state = "roll" -> 4
    [] state = "nested" -> 3
    [] state = "finish" -> 2
    [] state = "unlock" -> 1
    [] state = "idle" -> 0

\* A call that has begun only advances, whatever the other threads and the
\* installation do.
CallsAdvance ==
  [][\A t \in Threads :
       pc'[t] # pc[t] /\ pc[t] # "idle" => Ahead(pc'[t]) < Ahead(pc[t])]_vars

LEMMA AheadValues ==
  /\ Ahead("lock") = 7 /\ Ahead("capture") = 7 /\ Ahead("check") = 6 /\ Ahead("publish") = 6
  /\ Ahead("set") = 5 /\ Ahead("original") = 5 /\ Ahead("roll") = 4 /\ Ahead("nested") = 3
  /\ Ahead("finish") = 2 /\ Ahead("unlock") = 1 /\ Ahead("idle") = 0
BY DEF Ahead

\* Where a step inside a call leads, and what it does to the mutex.
MovesOn(t) ==
  \E state \in ClientStates \cup GameStates :
    /\ Goto(t, state) /\ Ahead(state) < Ahead(pc[t])
    /\ \/ g_roll_service_mutex' = t /\ state \in Holding
       \/ g_roll_service_mutex' = Null
       \/ /\ g_roll_service_mutex' = g_roll_service_mutex
          /\ (g_roll_service_mutex = t => state \in Holding)

LEMMA NotTheGames ==
  ASSUME RollInv, NEW t \in GameThreads
  PROVE  g_roll_service_mutex # t
BY Kinds DEF RollInv, Typed, TypeOK

LEMMA GameMoves ==
  ASSUME RollInv, NEW t \in GameThreads, GameStep(t)
  PROVE  MovesOn(t)
<1> g_roll_service_mutex # t BY NotTheGames
<1>1. CASE Capture(t)
  <2>1. PICK state : state = IF call[t].name = "GetCurrentMultiplier" THEN "original" ELSE "publish"
    OBVIOUS
  <2>2. pc[t] = "capture" /\ Goto(t, state) /\ g_roll_service_mutex' = g_roll_service_mutex
    BY <1>1, <2>1 DEF Capture
  <2>3. state \in {"original", "publish"} BY <2>1
  <2> QED BY <2>2, <2>3, AheadValues DEF MovesOn, ClientStates, GameStates, Holding, Rolling
<1>2. CASE PublishCall(t)
  <2>1. pc[t] = "publish" /\ Goto(t, "original") /\ g_roll_service_mutex' = g_roll_service_mutex
    BY <1>2 DEF PublishCall
  <2> QED BY <2>1, AheadValues DEF MovesOn, ClientStates, GameStates, Holding, Rolling
<1>3. CASE CallOriginal(t)
  <2>1. PICK state : state = IF HasOriginal(t) /\ call[t].name = "AttemptRoll" THEN "roll" ELSE "idle"
    OBVIOUS
  <2>2. pc[t] = "original" /\ Goto(t, state) /\ g_roll_service_mutex' = g_roll_service_mutex
    BY <1>3, <2>1 DEF CallOriginal
  <2>3. state \in {"roll", "idle"} BY <2>1
  <2> QED BY <2>2, <2>3, AheadValues DEF MovesOn, ClientStates, GameStates, Holding, Rolling
<1> QED BY <1>1, <1>2, <1>3 DEF GameStep

LEMMA RollMoves ==
  ASSUME RollInv, OriginalsHeld, NEW t \in Threads, RollStep(t)
  PROVE  MovesOn(t)
<1>1. CASE BeginRoll(t)
  <2>1. PICK state \in {"finish", "nested"} :
          pc[t] = "roll" /\ Goto(t, state) /\ g_roll_service_mutex' = g_roll_service_mutex
    <3>1. pc[t] = "roll" /\ g_roll_service_mutex' = g_roll_service_mutex BY <1>1 DEF BeginRoll
    <3>2. t \in GameThreads \/ "AttemptRoll" \in originals
      BY <3>1 DEF OriginalsHeld, TriggerNeeds, Threads, Rolling
    <3> QED BY <1>1, <3>1, <3>2 DEF BeginRoll, Through
  <2> QED BY <2>1, AheadValues DEF MovesOn, ClientStates, GameStates, Holding, Rolling
<1>2. CASE NestedCapture(t)
  <2>1. pc[t] = "nested" /\ Goto(t, "finish") /\ g_roll_service_mutex' = g_roll_service_mutex
    BY <1>2 DEF NestedCapture
  <2> QED BY <2>1, AheadValues DEF MovesOn, ClientStates, GameStates, Holding, Rolling
<1>3. CASE FinishRoll(t)
  <2>1. pc[t] = "finish" /\ g_roll_service_mutex' = g_roll_service_mutex BY <1>3 DEF FinishRoll
  <2>2. CASE t \in Clients
    <3>1. Goto(t, "unlock") BY <1>3, <2>2 DEF FinishRoll
    <3> QED BY <2>1, <3>1, AheadValues DEF MovesOn, ClientStates, GameStates, Holding, Rolling
  <2>3. CASE t \notin Clients
    <3>1. Goto(t, "idle") BY <1>3, <2>3 DEF FinishRoll
    <3>2. g_roll_service_mutex # t BY <2>3, NotTheGames DEF Threads
    <3> QED BY <2>1, <3>1, <3>2, AheadValues DEF MovesOn, ClientStates, GameStates, Holding, Rolling
  <2> QED BY <2>2, <2>3
<1> QED BY <1>1, <1>2, <1>3 DEF RollStep

LEMMA ClientMoves ==
  ASSUME RollInv, OriginalsHeld, NEW c \in Clients, ClientStep(c)
  PROVE  MovesOn(c)
<1>1. CASE LockService(c)
  <2>1. pc[c] = "lock" /\ Goto(c, "check") /\ g_roll_service_mutex' = c
    BY <1>1 DEF LockService
  <2> QED BY <2>1, AheadValues DEF MovesOn, ClientStates, GameStates, Holding, Rolling
<1>2. CASE Check(c)
  <2>1. PICK state : Goto(c, state) /\ state \in {"set", AfterRefusal}
    BY <1>2 DEF Check
  <2>2. pc[c] = "check" /\ g_roll_service_mutex' = g_roll_service_mutex BY <1>2 DEF Check
  <2>3. state \in {"set", "unlock"} BY <2>1 DEF AfterRefusal
  <2> QED BY <2>1, <2>2, <2>3, AheadValues DEF MovesOn, ClientStates, GameStates, Holding, Rolling
<1>3. CASE TriggerSetMultiplier(c)
  <2>1. pc[c] = "set" /\ Goto(c, "roll") /\ g_roll_service_mutex' = g_roll_service_mutex
    <3>1. pc[c] = "set" /\ g_roll_service_mutex' = g_roll_service_mutex
      BY <1>3 DEF TriggerSetMultiplier
    <3>2. "SetMultiplier" \in originals BY <3>1 DEF OriginalsHeld, TriggerNeeds
    <3> QED BY <1>3, <3>1, <3>2 DEF TriggerSetMultiplier, Through
  <2> QED BY <2>1, AheadValues DEF MovesOn, ClientStates, GameStates, Holding, Rolling
<1>4. CASE UnlockService(c)
  <2>1. pc[c] = "unlock" /\ Goto(c, "idle") /\ g_roll_service_mutex' = Null
    BY <1>4 DEF UnlockService
  <2> QED BY <2>1, AheadValues DEF MovesOn, ClientStates, GameStates, Holding, Rolling
<1> QED BY <1>1, <1>2, <1>3, <1>4 DEF ClientStep

\* A step is one inside a call, or begins a call, or concerns no thread.
LEMMA StepsOfCalls ==
  ASSUME RollInv, OriginalsHeld, [Next]_vars
  PROVE  \/ \E t \in Threads : MovesOn(t)
         \/ \E t \in Threads, state \in ClientStates \cup GameStates :
              Goto(t, state) /\ pc[t] = "idle" /\ g_roll_service_mutex' = g_roll_service_mutex
         \/ UNCHANGED <<pc, g_roll_service_mutex>>
<1>1. ASSUME NEW t \in GameThreads, GameCall(t)
      PROVE  \E state \in ClientStates \cup GameStates :
               Goto(t, state) /\ pc[t] = "idle" /\ g_roll_service_mutex' = g_roll_service_mutex
  <2>1. PICK name \in {"AttemptRoll", "SetMultiplier", "GetCurrentMultiplier"} :
          pc[t] = "idle" /\ Goto(t, IF name \in detours THEN "capture" ELSE "original")
    BY <1>1 DEF GameCall, Call
  <2>2. PICK state : state = IF name \in detours THEN "capture" ELSE "original" OBVIOUS
  <2>3. state \in {"capture", "original"} BY <2>2
  <2>4. g_roll_service_mutex' = g_roll_service_mutex BY <1>1 DEF GameCall
  <2> QED BY <2>1, <2>2, <2>3, <2>4 DEF GameStates
<1>2. ASSUME NEW c \in Clients, TriggerRoll(c)
      PROVE  Goto(c, "lock") /\ pc[c] = "idle" /\ g_roll_service_mutex' = g_roll_service_mutex
  BY <1>2 DEF TriggerRoll, Call
<1>3. CASE Install \/ (\E c \in Clients : SetRollServiceInstance(c)) \/ UNCHANGED vars
  BY <1>3 DEF Install, SetRollServiceInstance, vars
<1>4. "lock" \in ClientStates BY DEF ClientStates
<1> QED BY <1>1, <1>2, <1>3, <1>4, GameMoves, RollMoves, ClientMoves, Kinds DEF Next

\* The mutex is held only inside TriggerRoll: every path out of it unlocks, and
\* nobody but the holder keeps it (the safety part of CallsReturn).
THEOREM MutexHeldInside == Spec => []HeldInside
<1>1. Init => HeldInside BY DEF Init, HeldInside
<1>2. RollInv /\ OriginalsHeld /\ HeldInside /\ [Next]_vars => HeldInside'
  <2> SUFFICES ASSUME RollInv, OriginalsHeld, HeldInside, [Next]_vars PROVE HeldInside'
    OBVIOUS
  <2>1. pc \in [Threads -> ClientStates \cup GameStates]
    BY DEF RollInv, Typed, TypeOK, ClientStates, GameStates
  <2>2. g_roll_service_mutex \in Threads \cup {Null}
    BY DEF RollInv, Typed, TypeOK, Threads
  <2>3. ASSUME NEW t \in Threads, MovesOn(t) PROVE HeldInside'
    BY <2>1, <2>2, <2>3 DEF MovesOn, Goto, HeldInside
  <2>4. ASSUME NEW t \in Threads, NEW state, Goto(t, state), pc[t] = "idle",
               g_roll_service_mutex' = g_roll_service_mutex
        PROVE  HeldInside'
    BY <2>1, <2>2, <2>4 DEF Goto, HeldInside, Holding, Rolling
  <2>5. CASE UNCHANGED <<pc, g_roll_service_mutex>> BY <2>5 DEF HeldInside
  <2> QED BY <2>3, <2>4, <2>5, StepsOfCalls
<1> QED BY <1>1, <1>2, Invariant, OriginalsThere, PTL DEF Spec

\* Every step of a thread inside a call brings it nearer to its return and no
\* other step moves it: with MutexHeldInside, a call that does not come back
\* waits for the mutex of a client whose roll waits for it too (the ranking
\* behind CallsReturn).
THEOREM CallsEnd == Spec => CallsAdvance
<1>1. RollInv /\ OriginalsHeld /\ [Next]_vars =>
        [\A t \in Threads :
           pc'[t] # pc[t] /\ pc[t] # "idle" => Ahead(pc'[t]) < Ahead(pc[t])]_vars
  <2> SUFFICES ASSUME RollInv, OriginalsHeld, [Next]_vars, NEW t \in Threads,
                      pc'[t] # pc[t], pc[t] # "idle"
               PROVE  Ahead(pc'[t]) < Ahead(pc[t])
    OBVIOUS
  <2>1. pc \in [Threads -> ClientStates \cup GameStates]
    BY DEF RollInv, Typed, TypeOK, ClientStates, GameStates
  <2>2. ASSUME NEW u \in Threads, MovesOn(u) PROVE Ahead(pc'[t]) < Ahead(pc[t])
    <3>1. PICK state : Goto(u, state) /\ Ahead(state) < Ahead(pc[u]) BY <2>2 DEF MovesOn
    <3>2. u = t /\ pc'[t] = state BY <2>1, <3>1 DEF Goto
    <3> QED BY <3>1, <3>2
  <2>3. ASSUME NEW u \in Threads, NEW state, Goto(u, state), pc[u] = "idle"
        PROVE  FALSE
    BY <2>1, <2>3 DEF Goto
  <2> QED BY <2>2, <2>3, StepsOfCalls
<1> QED BY <1>1, Invariant, OriginalsThere, PTL DEF Spec, CallsAdvance
=============================================================================
