-------------------------- MODULE HookInstallProofs --------------------------
(***************************************************************************)
(* Theorems about HookInstall and Detours, for every table of groups and   *)
(* hooks, any number of looks for an image, any set of failing calls, any  *)
(* threads of the game and any calls they make.                            *)
(***************************************************************************)
EXTENDS Detours, FiniteSetTheorems, TLAPS

-----------------------------------------------------------------------------
(* The inductive invariant: the types, the thread's place in the table, the *)
(* order of the hooks and what the two flags have seen.                     *)

\* The place in the table that goes with the program counter and the phase.
Place ==
  /\ pc \in {"wait", "resolve", "hook"} => group \in Groups /\ hook \in 1..Len(Table[group])
  /\ pc = "return" => group \in Groups /\ hook = Len(Table[group]) + 1
  /\ pc = "done" => group = NumGroups + 1 /\ hook = 1
  /\ phase \in {"success", "partial"} => pc = "done"

\* The required hooks of the finished groups, and of this one up to its current
\* hook, are live.
GroupsGood == \A id \in RequiredHooks : id[1] < group => outcome[id] = "live"
GroupGood == \A id \in RequiredHooks : id[1] = group /\ id[2] < hook => outcome[id] = "live"

\* The flags say so, and the verdict is the flag.
FlagsTrue ==
  /\ required_ok <=> GroupGood
  /\ allOk <=> GroupsGood
  /\ phase = "success" => allOk
  /\ phase = "partial" => ~allOk

\* The finished groups are those before the current one.
GroupsCounted == \A g \in Groups : installs[g] = IF g < group THEN 1 ELSE 0

\* Before the installation begins nothing is finished.
NotBegun == phase = "idle" => group = 1

InstallInv == TypeOK /\ Place /\ TriedInOrder /\ FlagsTrue /\ GroupsCounted /\ NotBegun

-----------------------------------------------------------------------------
(* The table. *)

\* A hook's id is its group and its place in the group.
LEMMA Ids ==
  /\ \A id \in HookIds : /\ id = <<id[1], id[2]>>
                         /\ id[1] \in Groups /\ id[2] \in 1..Len(Table[id[1]])
  /\ \A g \in Groups : \A h \in 1..Len(Table[g]) : <<g, h>> \in HookIds
<1>1. \A g \in Groups : DOMAIN Table[g] = 1..Len(Table[g]) BY InstallAssumption DEF Groups
<1>2. ASSUME NEW id \in HookIds
      PROVE  id = <<id[1], id[2]>> /\ id[1] \in Groups /\ id[2] \in 1..Len(Table[id[1]])
  <2>1. PICK g \in Groups : id \in {<<g, h>> : h \in DOMAIN Table[g]} BY DEF HookIds
  <2>2. PICK h \in DOMAIN Table[g] : id = <<g, h>> BY <2>1
  <2> QED BY <1>1, <2>1, <2>2
<1>3. \A g \in Groups : \A h \in 1..Len(Table[g]) : <<g, h>> \in HookIds BY <1>1 DEF HookIds
<1> QED BY <1>2, <1>3

\* The groups are numbered, and none is empty.
LEMMA Sizes ==
  /\ NumGroups \in Nat \ {0} /\ Groups = 1..NumGroups
  /\ \A g \in Groups : Len(Table[g]) \in Nat \ {0}
BY InstallAssumption DEF NumGroups, Groups

\* Two ids with the same numbers are the same hook.
LEMMA SameId ==
  ASSUME NEW a \in HookIds, NEW g, NEW h, a[1] = g, a[2] = h
  PROVE  a = <<g, h>>
BY Ids

-----------------------------------------------------------------------------
(* ResolveAndHook returns. *)

\* What a result of a hook changes: its outcome, and the place.
LEMMA ReturnStep ==
  ASSUME InstallInv, phase = "running", pc \in {"wait", "resolve", "hook"},
         NEW result \in Outcomes \ {"pending"}, Return(result),
         UNCHANGED <<phase, group, allOk, installs, images>>,
         failures' \in 0..MaxFailures
  PROVE  InstallInv'
<1> DEFINE now == <<group, hook>>
           n == Len(Table[group])
<1>1. /\ group \in Groups /\ hook \in 1..n /\ now \in HookIds
      /\ n \in Nat \ {0} /\ group \in Nat
  BY Ids, Sizes DEF InstallInv, Place
<1>2. /\ outcome' = [outcome EXCEPT ![now] = result]
      /\ hook' = hook + 1 /\ attempt' = 1
      /\ pc' = IF hook + 1 <= n THEN "wait" ELSE "return"
      /\ required_ok' = Combined(result = "live")
      /\ group' = group /\ phase' = phase /\ allOk' = allOk
      /\ installs' = installs /\ images' = images
  BY DEF Return, NextHook, FirstAttempt
<1>3. /\ outcome \in [HookIds -> Outcomes] /\ result \in Outcomes
      /\ required_ok \in BOOLEAN /\ allOk \in BOOLEAN
  BY DEF InstallInv, TypeOK
<1>4. outcome' \in [HookIds -> Outcomes] BY <1>2, <1>3
<1>5. /\ outcome'[now] = result
      /\ \A id \in HookIds : id # now => outcome'[id] = outcome[id]
  BY <1>1, <1>2, <1>3
<1>6. \A id \in HookIds : id = now <=> id[1] = group /\ id[2] = hook
  BY SameId
<1>7. \A id \in HookIds : id[1] \in Nat /\ id[2] \in Nat BY Ids, Sizes
<1> HIDE DEF now, n
<1>8. required_ok' \in BOOLEAN
  BY <1>2, <1>3 DEF Combined
<1>9. TypeOK'
  <2>1. hook' \in 1..(n + 1) BY <1>1, <1>2
  <2>2. attempt' \in 1..(ImageWaitAttempts + 1) BY <1>2, InstallAssumption
  <2>3. pc' \in {"wait", "return"} BY <1>2
  <2> QED BY <1>2, <1>4, <1>8, <2>1, <2>2, <2>3 DEF InstallInv, TypeOK, n
<1>10. Place'
  <2>1. pc' = "wait" => hook' \in 1..n BY <1>1, <1>2
  <2>2. pc' = "return" => hook' = n + 1 BY <1>1, <1>2
  <2>3. pc' \in {"wait", "return"} BY <1>2
  <2> QED BY <1>1, <1>2, <2>1, <2>2, <2>3 DEF Place, n
<1>11. TriedInOrder'
  <2> SUFFICES ASSUME NEW id \in HookIds
               PROVE  (outcome'[id] # "pending") <=> Behind(id)'
    BY DEF TriedInOrder
  <2>1. (outcome[id] # "pending") <=> Behind(id) BY DEF InstallInv, TriedInOrder
  <2>2. Behind(id)' <=> Behind(id) \/ id = now
    BY <1>1, <1>2, <1>6, <1>7 DEF Behind
  <2>3. result # "pending" OBVIOUS
  <2> QED BY <1>5, <2>1, <2>2, <2>3
<1>12. GroupGood' <=> GroupGood /\ (Current.required => result = "live")
  <2>1. now \in RequiredHooks <=> Current.required
    BY <1>1 DEF RequiredHooks, Current, now
  <2>2. \A id \in RequiredHooks :
          id[1] = group /\ id[2] < hook + 1 <=> (id[1] = group /\ id[2] < hook) \/ id = now
    BY <1>1, <1>6, <1>7 DEF RequiredHooks
  <2>3. \A id \in RequiredHooks : id[1] = group /\ id[2] < hook => id # now
    BY <1>1, <1>6, <1>7 DEF RequiredHooks
  <2>4. RequiredHooks \subseteq HookIds BY DEF RequiredHooks
  <2> QED BY <1>2, <1>5, <2>1, <2>2, <2>3, <2>4 DEF GroupGood
<1>13. GroupsGood' <=> GroupsGood
  <2>1. \A id \in RequiredHooks : id \in HookIds /\ (id[1] < group => id # now)
    BY <1>1, <1>6, <1>7 DEF RequiredHooks
  <2> QED BY <1>2, <1>5, <2>1 DEF GroupsGood
<1>14. required_ok' <=> GroupGood'
  <2>1. required_ok <=> GroupGood BY DEF InstallInv, FlagsTrue
  <2> QED BY <1>2, <1>12, <2>1, Zenon DEF Combined
<1>15. FlagsTrue' BY <1>2, <1>13, <1>14 DEF InstallInv, FlagsTrue
<1>16. GroupsCounted' /\ NotBegun' BY <1>2 DEF InstallInv, GroupsCounted, NotBegun
<1> QED BY <1>9, <1>10, <1>11, <1>15, <1>16 DEF InstallInv

-----------------------------------------------------------------------------
(* The other steps. *)

\* A step that leaves the hooks, the flags and the place in the table alone.
LEMMA PlaceStep ==
  ASSUME InstallInv, UNCHANGED <<group, hook, required_ok, allOk, installs, outcome>>,
         TypeOK', Place', phase' \in {"idle", "success", "partial"} => phase' = phase
  PROVE  InstallInv'
<1>1. TriedInOrder' BY DEF InstallInv, TriedInOrder, Behind
<1>2. (GroupGood' <=> GroupGood) /\ (GroupsGood' <=> GroupsGood)
  BY DEF GroupGood, GroupsGood
<1>3. FlagsTrue' BY <1>2 DEF InstallInv, FlagsTrue
<1>4. GroupsCounted' /\ NotBegun' BY DEF InstallInv, GroupsCounted, NotBegun
<1> QED BY <1>1, <1>3, <1>4 DEF InstallInv

\* The installation begins.
LEMMA StartStep == InstallInv /\ Start => InstallInv'
<1> SUFFICES ASSUME InstallInv, Start PROVE InstallInv'
  OBVIOUS
<1>1. /\ phase' = "running"
      /\ UNCHANGED <<pc, group, hook, attempt, required_ok, allOk, installs, outcome, images,
                     failures>>
  BY DEF Start
<1>2. TypeOK' /\ Place' BY <1>1 DEF InstallInv, TypeOK, Place
<1> QED BY <1>1, <1>2, PlaceStep

\* A look for the image: it is there, it is not, or it is given up.
LEMMA WaitStep == InstallInv /\ WaitForImage => InstallInv'
<1> SUFFICES ASSUME InstallInv, WaitForImage PROVE InstallInv'
  OBVIOUS
<1>1. /\ phase = "running" /\ pc = "wait"
      /\ UNCHANGED <<phase, group, allOk, installs, images, failures>>
  BY DEF WaitForImage
<1>2. CASE pc' = "resolve" /\ UNCHANGED <<hook, attempt, required_ok, outcome>>
  <2>1. TypeOK' /\ Place' BY <1>1, <1>2 DEF InstallInv, TypeOK, Place
  <2> QED BY <1>1, <1>2, <2>1, PlaceStep
<1>3. CASE /\ attempt <= ImageWaitAttempts /\ attempt' = NextAttempt
           /\ UNCHANGED <<pc, hook, required_ok, outcome>>
  <2>1. attempt' \in 1..(ImageWaitAttempts + 1)
    BY <1>3, InstallAssumption DEF NextAttempt, InstallInv, TypeOK
  <2>2. TypeOK' /\ Place' BY <1>1, <1>3, <2>1 DEF InstallInv, TypeOK, Place
  <2> QED BY <1>1, <1>3, <2>2, PlaceStep
<1>4. CASE Return("noImage")
  <2>1. "noImage" \in Outcomes \ {"pending"} BY DEF Outcomes
  <2>2. failures' \in 0..MaxFailures BY <1>1 DEF InstallInv, TypeOK
  <2> QED BY <1>1, <1>4, <2>1, <2>2, ReturnStep
<1> QED BY <1>2, <1>3, <1>4 DEF WaitForImage

\* Failing calls are counted up to their bound.
LEMMA FailsCounted == InstallInv /\ Fails => failures' \in 0..MaxFailures
BY InstallAssumption DEF Fails, InstallInv, TypeOK

\* The method is found, or it is not.
LEMMA ResolveStep == InstallInv /\ Resolve => InstallInv'
<1> SUFFICES ASSUME InstallInv, Resolve PROVE InstallInv'
  OBVIOUS
<1>1. /\ phase = "running" /\ pc = "resolve"
      /\ UNCHANGED <<phase, group, allOk, installs, images>>
  BY DEF Resolve
<1>2. CASE pc' = "hook" /\ UNCHANGED <<hook, attempt, required_ok, outcome, failures>>
  <2>1. TypeOK' /\ Place' BY <1>1, <1>2 DEF InstallInv, TypeOK, Place
  <2> QED BY <1>1, <1>2, <2>1, PlaceStep
<1>3. CASE Fails /\ Return("unresolved")
  <2>1. "unresolved" \in Outcomes \ {"pending"} BY DEF Outcomes
  <2> QED BY <1>1, <1>3, <2>1, FailsCounted, ReturnStep
<1> QED BY <1>2, <1>3 DEF Resolve

\* The method is patched, with an original or without one, or it is not.
LEMMA SafeHookStep == InstallInv /\ SafeHook => InstallInv'
<1> SUFFICES ASSUME InstallInv, SafeHook PROVE InstallInv'
  OBVIOUS
<1>1. /\ phase = "running" /\ pc = "hook"
      /\ UNCHANGED <<phase, group, allOk, installs, images>>
  BY DEF SafeHook
<1>2. PICK result \in {"live", "failed", "orphan"} :
        Return(result) /\ (UNCHANGED failures \/ Fails)
  BY DEF SafeHook
<1>3. result \in Outcomes \ {"pending"} BY <1>2 DEF Outcomes
<1>4. failures' \in 0..MaxFailures BY <1>2, FailsCounted DEF InstallInv, TypeOK
<1> QED BY <1>1, <1>2, <1>3, <1>4, ReturnStep

\* A group's Install() returns and the next group's begins.
LEMMA GroupStep == InstallInv /\ GroupReturns => InstallInv'
<1> SUFFICES ASSUME InstallInv, GroupReturns PROVE InstallInv'
  OBVIOUS
<1>1. /\ phase = "running" /\ pc = "return"
      /\ installs' = [installs EXCEPT ![group] = 1]
      /\ allOk' = (required_ok /\ allOk)
      /\ group' = group + 1 /\ hook' = 1 /\ required_ok' = TRUE
      /\ pc' = IF group < NumGroups THEN "wait" ELSE "done"
      /\ UNCHANGED <<phase, attempt, outcome, images, failures>>
  BY DEF GroupReturns, AllGroups
<1>2. /\ group \in 1..NumGroups /\ hook = Len(Table[group]) + 1
      /\ NumGroups \in Nat \ {0} /\ Groups = 1..NumGroups
  BY <1>1, Sizes DEF InstallInv, Place
<1>3. group' \in Groups => Len(Table[group']) \in Nat \ {0} BY Sizes
<1>4. Place'
  <2>1. CASE group < NumGroups
    <3>1. pc' = "wait" BY <1>1, <2>1
    <3>2. group' \in Groups BY <1>1, <1>2, <2>1
    <3>3. hook' \in 1..Len(Table[group']) BY <1>1, <1>3, <3>2
    <3>4. Len(Table'[group']) = Len(Table[group']) OBVIOUS
    <3> QED BY <1>1, <3>1, <3>2, <3>3 DEF Place
  <2>2. CASE ~(group < NumGroups)
    <3>1. pc' = "done" BY <1>1, <2>2
    <3>2. group' = NumGroups + 1 BY <1>1, <1>2, <2>2
    <3> QED BY <1>1, <3>1, <3>2 DEF Place
  <2> QED BY <2>1, <2>2
<1>5. TypeOK'
  <2>1. group' \in 1..(NumGroups + 1) BY <1>1, <1>2
  <2>2. group' \in Groups => hook' \in 1..(Len(Table[group']) + 1) BY <1>1, <1>3
  <2>3. installs' \in [Groups -> {0, 1}] BY <1>1 DEF InstallInv, TypeOK
  <2>4. required_ok' \in BOOLEAN /\ allOk' \in BOOLEAN BY <1>1, Zenon
  <2>5. pc' \in {"wait", "done"} BY <1>1
  <2> QED BY <1>1, <2>1, <2>2, <2>3, <2>4, <2>5 DEF InstallInv, TypeOK
<1>6. \A id \in HookIds :
        id[1] \in Nat /\ id[2] \in Nat /\ (id[1] = group => id[2] < hook)
        /\ 1 <= id[2]
  <2> SUFFICES ASSUME NEW id \in HookIds
               PROVE  id[1] \in Nat /\ id[2] \in Nat /\ (id[1] = group => id[2] < hook)
                      /\ 1 <= id[2]
    OBVIOUS
  <2>1. id[1] \in Groups /\ id[2] \in 1..Len(Table[id[1]]) /\ Len(Table[id[1]]) \in Nat
    BY Ids, Sizes
  <2> QED BY <1>2, <2>1
<1>7. TriedInOrder'
  <2>1. \A id \in HookIds : Behind(id)' <=> Behind(id) BY <1>1, <1>2, <1>6 DEF Behind
  <2> QED BY <1>1, <2>1 DEF InstallInv, TriedInOrder
<1>8. GroupsGood' <=> GroupsGood /\ GroupGood
  <2>1. \A id \in RequiredHooks :
          id[1] < group + 1 <=> id[1] < group \/ (id[1] = group /\ id[2] < hook)
    BY <1>2, <1>6 DEF RequiredHooks
  <2> QED BY <1>1, <2>1 DEF GroupsGood, GroupGood
<1>9. GroupGood'
  <2>1. \A id \in RequiredHooks : ~(id[2] < 1) BY <1>6 DEF RequiredHooks
  <2> QED BY <1>1, <2>1 DEF GroupGood
<1>10. FlagsTrue'
  <2>1. (required_ok <=> GroupGood) /\ (allOk <=> GroupsGood) BY DEF InstallInv, FlagsTrue
  <2>2. allOk' <=> GroupsGood' BY <1>1, <1>8, <2>1, Zenon
  <2>3. required_ok' <=> GroupGood' BY <1>1, <1>9
  <2>4. phase' = "running" BY <1>1
  <2> QED BY <2>2, <2>3, <2>4 DEF FlagsTrue
<1>11. GroupsCounted'
  <2>1. \A g \in Groups : installs'[g] = IF g = group THEN 1 ELSE installs[g]
    BY <1>1 DEF InstallInv, TypeOK
  <2>2. \A g \in Groups : g < group + 1 <=> g < group \/ g = group BY <1>2
  <2> QED BY <1>1, <2>1, <2>2 DEF InstallInv, GroupsCounted
<1>12. NotBegun' BY <1>1 DEF NotBegun
<1> QED BY <1>4, <1>5, <1>7, <1>10, <1>11, <1>12 DEF InstallInv

\* The verdict.
LEMMA VerdictStep == InstallInv /\ Verdict => InstallInv'
<1> SUFFICES ASSUME InstallInv, Verdict PROVE InstallInv'
  OBVIOUS
<1>1. /\ pc = "done" /\ phase' = (IF allOk THEN "success" ELSE "partial")
      /\ UNCHANGED <<pc, group, hook, attempt, required_ok, allOk, installs, outcome, images,
                     failures>>
  BY DEF Verdict
<1>2. TypeOK' /\ Place' BY <1>1 DEF InstallInv, TypeOK, Place
<1>3. TriedInOrder' BY <1>1 DEF InstallInv, TriedInOrder, Behind
<1>4. (GroupGood' <=> GroupGood) /\ (GroupsGood' <=> GroupsGood)
  BY <1>1 DEF GroupGood, GroupsGood
<1>5. (phase' = "success" => allOk') /\ (phase' = "partial" => ~allOk') BY <1>1
<1>6. FlagsTrue' BY <1>1, <1>4, <1>5 DEF InstallInv, FlagsTrue
<1>7. GroupsCounted' /\ NotBegun' BY <1>1 DEF InstallInv, GroupsCounted, NotBegun
<1> QED BY <1>2, <1>3, <1>6, <1>7 DEF InstallInv

\* The game loads an image.
LEMMA LoadStep ==
  ASSUME InstallInv, NEW image \in Images, LoadImage(image)
  PROVE  InstallInv'
<1>1. /\ images' = images \cup {image}
      /\ UNCHANGED <<phase, pc, group, hook, attempt, required_ok, allOk, installs, outcome,
                     failures>>
  BY DEF LoadImage
<1>2. TypeOK' /\ Place' BY <1>1 DEF InstallInv, TypeOK, Place
<1> QED BY <1>1, <1>2, PlaceStep

-----------------------------------------------------------------------------
\* The invariant holds in every reachable state.
THEOREM Invariant == Spec => []InstallInv
<1>1. Init => InstallInv
  <2> SUFFICES ASSUME Init PROVE InstallInv
    OBVIOUS
  <2>1. /\ phase = "idle" /\ pc = "wait" /\ group = 1 /\ hook = 1 /\ attempt = 1
        /\ required_ok = TRUE /\ allOk = TRUE /\ failures = 0
        /\ installs = [g \in Groups |-> 0] /\ outcome = [id \in HookIds |-> "pending"]
        /\ images = LoadedAtStart \cap Images
    BY DEF Init
  <2>2. group \in Groups /\ hook \in 1..Len(Table[group]) BY <2>1, Sizes
  <2>3. TypeOK
    <3>1. group \in 1..(NumGroups + 1) /\ hook \in 1..(Len(Table[group]) + 1)
      BY <2>1, <2>2, Sizes
    <3>2. attempt \in 1..(ImageWaitAttempts + 1) /\ failures \in 0..MaxFailures
      BY <2>1, InstallAssumption
    <3>3. installs \in [Groups -> {0, 1}] /\ outcome \in [HookIds -> Outcomes]
      BY <2>1 DEF Outcomes
    <3> QED BY <2>1, <3>1, <3>2, <3>3 DEF TypeOK
  <2>4. Place BY <2>1, <2>2 DEF Place
  <2>5. \A id \in HookIds : ~(id[1] < 1) /\ ~(id[2] < 1)
    <3> SUFFICES ASSUME NEW id \in HookIds PROVE ~(id[1] < 1) /\ ~(id[2] < 1)
      OBVIOUS
    <3> QED BY Ids, Sizes
  <2>6. TriedInOrder BY <2>1, <2>5 DEF TriedInOrder, Behind
  <2>7. GroupGood /\ GroupsGood BY <2>1, <2>5 DEF GroupGood, GroupsGood, RequiredHooks
  <2>8. FlagsTrue BY <2>1, <2>7 DEF FlagsTrue
  <2>9. GroupsCounted /\ NotBegun
    <3>1. \A g \in Groups : ~(g < 1) BY Sizes
    <3> QED BY <2>1, <3>1 DEF GroupsCounted, NotBegun
  <2> QED BY <2>3, <2>4, <2>6, <2>8, <2>9 DEF InstallInv
<1>2. InstallInv /\ [Next]_vars => InstallInv'
  <2> SUFFICES ASSUME InstallInv, [Next]_vars PROVE InstallInv'
    OBVIOUS
  <2>1. CASE Install
    BY <2>1, StartStep, WaitStep, ResolveStep, SafeHookStep, GroupStep, VerdictStep DEF Install
  <2>2. CASE UNCHANGED vars
    BY <2>2 DEF vars, InstallInv, TypeOK, Place, TriedInOrder, Behind, FlagsTrue, GroupGood,
                GroupsGood, GroupsCounted, NotBegun
  <2> QED BY <2>1, <2>2, LoadStep DEF Next
<1> QED BY <1>1, <1>2, PTL DEF Spec

\* Every variable keeps its type.
THEOREM TypeCorrect == Spec => []TypeOK
BY Invariant, PTL DEF InstallInv

\* Every hook is tried once, in the table's order, whatever became of the others.
THEOREM EveryHookTried == Spec => []TriedInOrder
BY Invariant, PTL DEF InstallInv

\* The verdict is about the required hooks of every group, and nothing else.
THEOREM VerdictTrue == Spec => []VerdictIsRequired
<1>1. InstallInv => VerdictIsRequired
  <2> SUFFICES ASSUME InstallInv, phase \in {"success", "partial"}
               PROVE  phase = "success" <=> \A id \in RequiredHooks : outcome[id] = "live"
    BY DEF VerdictIsRequired
  <2>1. group = NumGroups + 1 BY DEF InstallInv, Place
  <2>2. \A id \in RequiredHooks : id[1] < group
    <3> SUFFICES ASSUME NEW id \in RequiredHooks PROVE id[1] < group
      OBVIOUS
    <3>1. id[1] \in Groups BY Ids DEF RequiredHooks
    <3> QED BY <2>1, <3>1, Sizes
  <2>3. allOk <=> \A id \in RequiredHooks : outcome[id] = "live"
    BY <2>2 DEF InstallInv, FlagsTrue, GroupsGood
  <2>4. phase = "success" <=> allOk BY DEF InstallInv, FlagsTrue
  <2> QED BY <2>3, <2>4
<1> QED BY <1>1, Invariant, PTL

\* What InstallHooks calls, group by group, is one pass over the groups and one
\* verdict: InstallOnce, which the racing threads of HookManager implement too.
THEOREM Implementation == Spec => ImplementsInstallOnce
<1>1. Init => Abstract!Init
  <2> SUFFICES ASSUME Init PROVE Abstract!Init
    OBVIOUS
  <2>1. Groups = 1..NumGroups BY Sizes
  <2> QED BY <2>1 DEF Init, Abstract!Init
<1>2. ASSUME InstallInv, [Next]_vars
      PROVE  [Abstract!Next]_(Abstract!vars)
  <2> USE <1>2
  <2>1. CASE UNCHANGED <<phase, installs, allOk>>
    BY <2>1 DEF Abstract!vars
  <2>2. CASE Start
    <3>1. Abstract!Begin BY <2>2 DEF Start, Abstract!Begin
    <3> QED BY <3>1 DEF Abstract!Next
  <2>3. CASE GroupReturns
    <3>1. /\ phase = "running" /\ pc = "return" /\ phase' = phase
          /\ installs' = [installs EXCEPT ![group] = 1]
          /\ allOk' = (required_ok /\ allOk)
      BY <2>3 DEF GroupReturns, AllGroups
    <3>2. group \in 1..NumGroups /\ Groups = 1..NumGroups
      BY <3>1, Sizes DEF InstallInv, Place
    <3>3. required_ok \in BOOLEAN /\ allOk' = (allOk /\ required_ok)
      <4>1. required_ok \in BOOLEAN /\ allOk \in BOOLEAN BY DEF InstallInv, TypeOK
      <4> QED BY <3>1, <4>1, Zenon
    <3>4. Abstract!InstallNext(group, required_ok)
      BY <3>1, <3>2, <3>3 DEF Abstract!InstallNext, InstallInv, GroupsCounted
    <3> QED BY <3>2, <3>3, <3>4 DEF Abstract!Next
  <2>4. CASE Verdict
    <3>1. /\ phase = "running" /\ pc = "done"
          /\ phase' = (IF allOk THEN "success" ELSE "partial")
          /\ UNCHANGED <<installs, allOk>>
      BY <2>4 DEF Verdict
    <3>2. group = NumGroups + 1 BY <3>1 DEF InstallInv, Place
    <3>3. \A g \in 1..NumGroups : installs[g] = 1
      BY <3>2, Sizes DEF InstallInv, GroupsCounted
    <3>4. Abstract!Finish BY <3>1, <3>3 DEF Abstract!Finish
    <3> QED BY <3>4 DEF Abstract!Next
  <2>5. CASE WaitForImage BY <2>5, <2>1 DEF WaitForImage
  <2>6. CASE Resolve BY <2>6, <2>1 DEF Resolve
  <2>7. CASE SafeHook BY <2>7, <2>1 DEF SafeHook
  <2>8. CASE \E image \in Images : LoadImage(image) BY <2>8, <2>1 DEF LoadImage
  <2>9. CASE UNCHANGED vars BY <2>9, <2>1 DEF vars
  <2> QED BY <2>2, <2>3, <2>4, <2>5, <2>6, <2>7, <2>8, <2>9 DEF Next, Install
<1> QED BY <1>1, <1>2, Invariant, PTL DEF Spec, ImplementsInstallOnce, Abstract!Spec
-----------------------------------------------------------------------------
(* The images. *)

ImageOf(id) == Table[id[1]][id[2]].image

\* What the looks for an image have seen.  A hook whose look has failed once has
\* only hooks before it that were given up for the same image.
ImageInv ==
  /\ pc \in {"resolve", "hook"} => Current.image \in images
  /\ \A a \in HookIds : outcome[a] \notin {"pending", "noImage"} => ImageOf(a) \in images
  /\ pc \in {"return", "done"} => attempt = 1
  /\ pc = "wait" /\ attempt > 1 =>
       \A a \in HookIds : Behind(a) /\ ImageOf(a) = Current.image => outcome[a] = "noImage"
  /\ ImageSeenStays

\* ResolveAndHook returns, having seen the image or having looked to the end.
LEMMA ImageReturn ==
  ASSUME InstallInv, ImageInv, NEW result \in Outcomes \ {"pending"}, Return(result),
         pc \in {"wait", "resolve", "hook"}, UNCHANGED <<group, images>>,
         IF result = "noImage" THEN pc = "wait" /\ attempt > ImageWaitAttempts
                               ELSE pc \in {"resolve", "hook"}
  PROVE  ImageInv'
<1> DEFINE now == <<group, hook>>
<1>1. now \in HookIds /\ ImageOf(now) = Current.image
  BY Ids DEF InstallInv, Place, ImageOf, Current
<1>2. /\ attempt' = 1 /\ pc' \in {"wait", "return"}
      /\ outcome'[now] = result /\ \A id \in HookIds : id # now => outcome'[id] = outcome[id]
  BY <1>1 DEF Return, FirstAttempt, InstallInv, TypeOK
<1>3. \A id \in HookIds : ImageOf(id)' = ImageOf(id) BY DEF ImageOf
<1>4. \A a \in HookIds : outcome'[a] \notin {"pending", "noImage"} => ImageOf(a) \in images'
  BY <1>1, <1>2 DEF ImageInv
<1>5. ImageSeenStays'
  <2> SUFFICES ASSUME NEW a \in HookIds, NEW b \in HookIds, ImageOf(a) = ImageOf(b),
                      outcome'[a] \notin {"pending", "noImage"},
                      a[1] < b[1] \/ (a[1] = b[1] /\ a[2] < b[2]), outcome'[b] = "noImage"
               PROVE  FALSE
    BY DEF ImageSeenStays, ImageOf
  <2>1. a # b
    <3>1. a[1] \in Nat /\ a[2] \in Nat BY Ids, Sizes
    <3> QED BY <3>1
  <2>2. CASE b = now
    <3>1. attempt > 1 /\ pc = "wait"
      BY <1>2, <2>2, InstallAssumption DEF InstallInv, TypeOK
    <3>2. outcome[a] \notin {"pending", "noImage"} BY <1>2, <2>1, <2>2
    <3>3. Behind(a) BY <3>2 DEF InstallInv, TriedInOrder
    <3> QED BY <1>1, <2>2, <3>1, <3>2, <3>3 DEF ImageInv
  <2>3. CASE a = now
    <3>1. ~Behind(b)
      <4>1. b[1] \in Nat /\ b[2] \in Nat /\ group \in Nat /\ hook \in Nat
        BY <1>1, Ids, Sizes DEF InstallInv, Place
      <4> QED BY <2>3, <4>1 DEF Behind
    <3>2. outcome[b] = "noImage" BY <1>2, <2>1, <2>3
    <3> QED BY <3>1, <3>2 DEF InstallInv, TriedInOrder
  <2>4. CASE a # now /\ b # now
    <3>1. outcome'[a] = outcome[a] /\ outcome'[b] = outcome[b] BY <1>2, <2>4
    <3> QED BY <3>1 DEF ImageInv, ImageSeenStays, ImageOf
  <2> QED BY <2>2, <2>3, <2>4
<1> QED BY <1>2, <1>3, <1>4, <1>5 DEF ImageInv

\* The steps that leave the outcomes and the place in the table alone.
LEMMA ImageFrame ==
  ASSUME ImageInv, UNCHANGED <<pc, group, hook, attempt, outcome>>, images \subseteq images'
  PROVE  ImageInv'
BY DEF ImageInv, ImageSeenStays, ImageOf, Behind, Current

LEMMA ImageStep == InstallInv /\ ImageInv /\ [Next]_vars => ImageInv'
<1> SUFFICES ASSUME InstallInv, ImageInv, [Next]_vars PROVE ImageInv'
  OBVIOUS
<1>1. CASE Start \/ Verdict \/ UNCHANGED vars
  BY <1>1, ImageFrame DEF Start, Verdict, vars
<1>2. CASE \E image \in Images : LoadImage(image)
  BY <1>2, ImageFrame DEF LoadImage
<1>3. CASE WaitForImage
  <2>1. pc = "wait" /\ UNCHANGED <<group, images>> BY <1>3 DEF WaitForImage
  <2>2. CASE /\ Current.image \in images /\ pc' = "resolve"
             /\ UNCHANGED <<hook, attempt, required_ok, outcome>>
    BY <2>1, <2>2 DEF ImageInv, ImageSeenStays, ImageOf, Behind, Current
  <2>3. CASE /\ attempt <= ImageWaitAttempts /\ Current.image \notin images
             /\ attempt' = NextAttempt /\ UNCHANGED <<pc, hook, required_ok, outcome>>
    <3>1. \A a \in HookIds : Behind(a) /\ ImageOf(a) = Current.image => outcome[a] = "noImage"
      BY <2>3 DEF InstallInv, TriedInOrder, ImageInv
    <3> QED BY <2>1, <2>3, <3>1 DEF ImageInv, ImageSeenStays, ImageOf, Behind, Current
  <2>4. CASE attempt > ImageWaitAttempts /\ Return("noImage")
    <3>1. "noImage" \in Outcomes \ {"pending"} BY DEF Outcomes
    <3> QED BY <2>1, <2>4, <3>1, ImageReturn
  <2> QED BY <1>3, <2>2, <2>3, <2>4 DEF WaitForImage
<1>4. CASE Resolve
  <2>1. pc = "resolve" /\ UNCHANGED <<group, images>> BY <1>4 DEF Resolve
  <2>2. CASE pc' = "hook" /\ UNCHANGED <<hook, attempt, required_ok, outcome>>
    BY <2>1, <2>2 DEF ImageInv, ImageSeenStays, ImageOf, Behind, Current
  <2>3. CASE Return("unresolved")
    <3>1. "unresolved" \in Outcomes \ {"pending"} BY DEF Outcomes
    <3> QED BY <2>1, <2>3, <3>1, ImageReturn
  <2> QED BY <1>4, <2>2, <2>3 DEF Resolve
<1>5. CASE SafeHook
  <2>1. pc = "hook" /\ UNCHANGED <<group, images>> BY <1>5 DEF SafeHook
  <2>2. PICK result \in {"live", "failed", "orphan"} : Return(result) BY <1>5 DEF SafeHook
  <2>3. result \in Outcomes \ {"pending"} /\ result # "noImage" BY <2>2 DEF Outcomes
  <2> QED BY <2>1, <2>2, <2>3, ImageReturn
<1>6. CASE GroupReturns
  <2>1. /\ pc = "return" /\ pc' \in {"wait", "done"}
        /\ UNCHANGED <<attempt, outcome, images>>
    BY <1>6 DEF GroupReturns
  <2>2. attempt' = 1 BY <2>1 DEF ImageInv
  <2> QED BY <2>1, <2>2 DEF ImageInv, ImageSeenStays, ImageOf
<1> QED BY <1>1, <1>2, <1>3, <1>4, <1>5, <1>6 DEF Next, Install

\* Once a hook of an image has got past the wait, no later hook of that image is
\* given up for it, whenever the game loads the image.
THEOREM ImageNotLost == Spec => []ImageSeenStays
<1>1. Init => ImageInv
  BY DEF Init, ImageInv, ImageSeenStays
<1>2. ImageInv => ImageSeenStays BY DEF ImageInv
<1> QED BY <1>1, <1>2, ImageStep, Invariant, PTL DEF Spec
-----------------------------------------------------------------------------
(* The installation never goes back, and no step of it stays where it is.   *)

\* Further in the table; or at one hook, further in the looks for its image; or
\* with the image there, further in ResolveAndHook; or before the first hook
\* and after the last, further in InstallHooks.
Further ==
  \/ group < group'
  \/ group' = group /\ hook < hook'
  \/ UNCHANGED <<group, hook>> /\ attempt < attempt'
  \/ /\ UNCHANGED <<group, hook, attempt>>
     /\ \/ pc = "wait" /\ pc' = "resolve"
        \/ pc = "resolve" /\ pc' = "hook"
        \/ pc' = pc /\ phase = "idle" /\ phase' = "running"
        \/ pc' = pc /\ phase = "running" /\ phase' \in {"success", "partial"}

\* Every step of the install thread is one further, whatever fails and whichever
\* image is missing, and the game's steps do not set it back.
InstallAdvances ==
  [][/\ Install => Further
     /\ ~Install => UNCHANGED <<phase, pc, group, hook, attempt>>]_vars

\* The install thread is nearer to its verdict after each of its steps: group,
\* hook and attempt, which TypeCorrect bounds, only grow, in that order of
\* weight (the ranking behind InstallTerminates).
THEOREM InstallEnds == Spec => InstallAdvances
<1>1. InstallInv /\ [Next]_vars =>
        [/\ Install => Further
         /\ ~Install => UNCHANGED <<phase, pc, group, hook, attempt>>]_vars
  <2> SUFFICES ASSUME InstallInv, [Next]_vars, vars' # vars
               PROVE  /\ Install => Further
                      /\ ~Install => UNCHANGED <<phase, pc, group, hook, attempt>>
    OBVIOUS
  <2>1. group \in Int /\ attempt \in Int
    BY InstallAssumption DEF InstallInv, TypeOK, NumGroups, Groups
  <2>2. pc \in {"wait", "resolve", "hook"} => hook \in Int BY DEF InstallInv, Place
  <2>3. ASSUME Install PROVE Further
    <3>1. CASE Start BY <3>1 DEF Start, Further
    <3>2. CASE WaitForImage
      BY <2>1, <2>2, <3>2 DEF WaitForImage, Return, NextHook, NextAttempt, Further
    <3>3. CASE Resolve BY <2>2, <3>3 DEF Resolve, Return, NextHook, Further
    <3>4. CASE SafeHook BY <2>2, <3>4 DEF SafeHook, Return, NextHook, Further
    <3>5. CASE GroupReturns BY <2>1, <3>5 DEF GroupReturns, Further
    <3>6. CASE Verdict BY <3>6 DEF Verdict, Further
    <3> QED BY <2>3, <3>1, <3>2, <3>3, <3>4, <3>5, <3>6 DEF Install
  <2>4. ASSUME ~Install PROVE UNCHANGED <<phase, pc, group, hook, attempt>>
    BY <2>4 DEF Next, LoadImage
  <2> QED BY <2>3, <2>4
<1> QED BY <1>1, Invariant, PTL DEF Spec, InstallAdvances
-----------------------------------------------------------------------------
(* Detours: the calls of the game beside the installation.                  *)

\* The installation goes on as it does alone.
LEMMA DetourComposition == DetourSpec => Spec
<1>1. DetourInit => Init BY DEF DetourInit
<1>2. [DetourNext]_detourVars => [Next]_vars
  BY DEF DetourNext, DobbyPatches, InstallStep, GameLoadsImage, Call, Step, PublishBefore,
         TestOriginal, OriginalReturns, PublishAfter, Next, detourVars
<1> QED BY <1>1, <1>2, PTL DEF DetourSpec, Spec

\* A method jumps to its detour when its hook is live or an orphan, or while
\* DobbyHook is at work on it.
PatchedInv ==
  \A id \in HookIds :
    /\ outcome[id] = "live" => id \in patched
    /\ id \in patched => \/ outcome[id] \in {"live", "orphan"}
                         \/ outcome[id] = "pending" /\ AtHook /\ id = <<group, hook>>

\* What a call's place says of its original.
CallGood(c) ==
  /\ c.entry \in {"unhooked", "pending", "orphan", "live"}
  /\ c.at \in {"publish", "test"} => c.runs = 0 /\ c.entry # "unhooked"
  /\ c.at = "original" => c.runs = 1
  /\ c.at = "announce" => c.entry # "unhooked"
  /\ c.entry = "unhooked" => c.runs = 1
  /\ c.at \in {"announce", "done"} /\ c.runs = 0 => c.entry \in {"pending", "orphan"}
  /\ c.entry = "live" => outcome[c.hook] = "live"
  /\ c.assured /\ c.hook \in RequiredHooks => c.entry = "live"

\* What a call's place says of its announcement.
Announced(i) ==
  /\ calls[i].entry # "unhooked"
  /\ \/ Told(i) = "before" /\ calls[i].at # "publish"
     \/ Told(i) = "after" /\ calls[i].at = "done"

FeedGood ==
  /\ \A m, n \in DOMAIN feed : feed[m] = feed[n] => m = n
  /\ \A i \in DOMAIN calls :
       /\ (\E m \in DOMAIN feed : feed[m] = i) <=> Announced(i)
       /\ calls[i].at = "publish" => Told(i) = "before"
       /\ calls[i].at = "announce" => Told(i) = "after"

CallsInv ==
  /\ DetourTypeOK /\ PatchedInv /\ FeedGood
  /\ \A i \in DOMAIN calls : CallGood(calls[i])

LEMMA ToldWhen == \A method, arg : Publication(method, arg) \in {"before", "after", "none"}
BY DEF Publication

\* A hook's outcome is final, and SafeHook has one of three.
LEMMA OutcomeStep ==
  ASSUME InstallInv, Install
  PROVE  /\ \A id \in HookIds : outcome[id] # "pending" => outcome'[id] = outcome[id]
         /\ AtHook => /\ \A id \in HookIds : id # <<group, hook>> => outcome'[id] = outcome[id]
                      /\ outcome'[<<group, hook>>] \in {"live", "failed", "orphan"}
         /\ ~AtHook => \A id \in HookIds : outcome'[id] = "live" => outcome[id] = "live"
<1>1. outcome \in [HookIds -> Outcomes] BY DEF InstallInv, TypeOK
<1>2. ASSUME pc \in {"wait", "resolve", "hook"}
      PROVE  <<group, hook>> \in HookIds /\ outcome[<<group, hook>>] = "pending"
  <2>1. /\ <<group, hook>> \in HookIds /\ group \in Nat /\ hook \in Nat
    BY <1>2, Ids, Sizes DEF InstallInv, Place
  <2>2. ~Behind(<<group, hook>>) BY <2>1 DEF Behind
  <2> QED BY <2>1, <2>2 DEF InstallInv, TriedInOrder
<1>3. CASE UNCHANGED outcome /\ ~AtHook BY <1>3
<1>4. ASSUME NEW result, Return(result), pc \in {"wait", "resolve"}, result # "live"
      PROVE  /\ \A id \in HookIds : outcome[id] # "pending" => outcome'[id] = outcome[id]
             /\ ~AtHook /\ \A id \in HookIds : outcome'[id] = "live" => outcome[id] = "live"
  BY <1>1, <1>2, <1>4 DEF Return, AtHook
<1>5. CASE SafeHook
  <2>1. PICK result \in {"live", "failed", "orphan"} : Return(result) BY <1>5 DEF SafeHook
  <2>2. AtHook /\ pc = "hook" BY <1>5 DEF SafeHook, AtHook
  <2> QED BY <1>1, <1>2, <2>1, <2>2 DEF Return
<1>6. CASE WaitForImage BY <1>3, <1>4, <1>6 DEF WaitForImage, AtHook
<1>7. CASE Resolve BY <1>3, <1>4, <1>7 DEF Resolve, AtHook
<1>8. CASE Start \/ GroupReturns \/ Verdict
  BY <1>3, <1>8 DEF Start, GroupReturns, Verdict, AtHook
<1> QED BY <1>5, <1>6, <1>7, <1>8 DEF Install

\* The installation and the game's images leave the calls as they are.
LEMMA BesideCalls ==
  ASSUME InstallInv, TypeOK', CallsInv, DobbyPatches \/ InstallStep \/ GameLoadsImage
  PROVE  CallsInv'
<1>1. UNCHANGED <<calls, feed>>
  BY DEF DobbyPatches, InstallStep, GameLoadsImage, gameVars
<1>2. /\ patched' \subseteq HookIds
      /\ \A id \in HookIds : outcome[id] = "live" => outcome'[id] = "live"
      /\ PatchedInv'
  <2>1. CASE DobbyPatches
    <3>1. /\ AtHook /\ <<group, hook>> \in HookIds /\ UNCHANGED vars
          /\ patched' = patched \cup {<<group, hook>>}
      BY <2>1, Ids DEF DobbyPatches, AtHook, InstallInv, Place
    <3>2. outcome[<<group, hook>>] = "pending"
      <4>1. group \in Nat /\ hook \in Nat BY <3>1, Ids, Sizes DEF InstallInv, Place, AtHook
      <4>2. ~Behind(<<group, hook>>) BY <4>1 DEF Behind
      <4> QED BY <3>1, <4>2 DEF InstallInv, TriedInOrder
    <3> QED BY <3>1, <3>2 DEF vars, AtHook, PatchedInv, CallsInv, DetourTypeOK
  <2>2. CASE InstallStep
    <3>1. /\ Install /\ patched' = patched \cup {id \in HookIds : outcome'[id] \in {"live", "orphan"}}
          /\ AtHook /\ <<group, hook>> \in patched => outcome'[<<group, hook>>] # "failed"
      BY <2>2 DEF InstallStep
    <3>2. \A id \in patched : id \in HookIds /\ outcome'[id] \in {"live", "orphan"}
      BY <3>1, OutcomeStep DEF PatchedInv, CallsInv, DetourTypeOK
    <3> QED BY <3>1, <3>2, OutcomeStep DEF PatchedInv, CallsInv, DetourTypeOK
  <2>3. CASE GameLoadsImage
    BY <2>3 DEF GameLoadsImage, LoadImage, AtHook, PatchedInv, CallsInv, DetourTypeOK
  <2> QED BY <2>1, <2>2, <2>3
<1>3. DetourTypeOK' BY <1>1, <1>2 DEF CallsInv, DetourTypeOK
<1>4. FeedGood' BY <1>1 DEF CallsInv, FeedGood, Announced, Told
<1>5. \A i \in DOMAIN calls : CallGood(calls[i])'
  <2> SUFFICES ASSUME NEW i \in DOMAIN calls PROVE CallGood(calls[i])'
    OBVIOUS
  <2>1. CallGood(calls[i]) /\ calls[i].hook \in HookIds
    <3>1. calls \in Seq(CallType) /\ CallGood(calls[i]) BY DEF CallsInv, DetourTypeOK
    <3>2. calls[i] \in CallType BY <3>1
    <3> QED BY <3>1, <3>2 DEF CallType
  <2> QED BY <1>1, <1>2, <2>1 DEF CallGood
<1>6. \A i \in DOMAIN calls' : CallGood(calls[i])' BY <1>1, <1>5
<1> QED BY <1>2, <1>3, <1>4, <1>6 DEF CallsInv

\* A call moves on: what it is stays, where it is changes.
LEMMA MoveStep ==
  ASSUME CallsInv, NEW i \in DOMAIN calls, NEW place \in Places, NEW n \in {0, 1},
         calls' = [calls EXCEPT ![i] = [calls[i] EXCEPT !.at = place, !.runs = n]],
         UNCHANGED <<vars, patched>>
  PROVE  /\ calls' \in Seq(CallType) /\ Len(calls') = Len(calls) /\ DOMAIN calls' = DOMAIN calls
         /\ \A j \in DOMAIN calls : j # i => calls'[j] = calls[j]
         /\ calls'[i].at = place /\ calls'[i].runs = n
         /\ calls'[i].entry = calls[i].entry /\ calls'[i].hook = calls[i].hook
         /\ calls'[i].assured = calls[i].assured
         /\ \A j \in DOMAIN calls : Told(j)' = Told(j)
<1> DEFINE c == [calls[i] EXCEPT !.at = place, !.runs = n]
<1>1. calls \in Seq(CallType) /\ calls[i] \in CallType /\ i \in 1..Len(calls)
  BY DEF CallsInv, DetourTypeOK
<1>2. /\ c \in CallType /\ c.at = place /\ c.runs = n /\ c.entry = calls[i].entry
      /\ c.hook = calls[i].hook /\ c.assured = calls[i].assured /\ c.arg = calls[i].arg
  BY <1>1 DEF CallType
<1> HIDE DEF c
<1>3. calls' = [calls EXCEPT ![i] = c] BY DEF c
<1>4. /\ calls' \in Seq(CallType) /\ Len(calls') = Len(calls) /\ DOMAIN calls' = DOMAIN calls
      /\ calls'[i] = c /\ \A j \in DOMAIN calls : j # i => calls'[j] = calls[j]
  BY <1>1, <1>2, <1>3
<1>5. \A j \in DOMAIN calls : calls'[j].hook = calls[j].hook /\ calls'[j].arg = calls[j].arg
  BY <1>2, <1>4
<1> QED BY <1>2, <1>4, <1>5 DEF Told

\* The announcements of the calls stay what they are when a call moves on
\* without announcing itself.
LEMMA SilentMove ==
  ASSUME InstallInv, CallsInv, NEW i \in DOMAIN calls, NEW place \in Places, NEW n \in {0, 1},
         calls' = [calls EXCEPT ![i] = [calls[i] EXCEPT !.at = place, !.runs = n]],
         UNCHANGED <<vars, patched, feed>>, CallGood(calls[i])',
         Announced(i)' <=> Announced(i),
         place = "publish" => Told(i) = "before", place = "announce" => Told(i) = "after"
  PROVE  CallsInv'
<1>1. /\ calls' \in Seq(CallType) /\ Len(calls') = Len(calls) /\ DOMAIN calls' = DOMAIN calls
      /\ \A j \in DOMAIN calls : j # i => calls'[j] = calls[j]
      /\ calls'[i].at = place
      /\ \A j \in DOMAIN calls : Told(j)' = Told(j)
  BY MoveStep
<1>2. DetourTypeOK' /\ PatchedInv'
  BY <1>1 DEF CallsInv, DetourTypeOK, PatchedInv, AtHook, vars, TypeOK
<1>3. FeedGood'
  <2>1. \A j \in DOMAIN calls : Announced(j)' <=> Announced(j)
    BY <1>1 DEF Announced
  <2> QED BY <1>1, <2>1 DEF CallsInv, FeedGood
<1>4. \A j \in DOMAIN calls : CallGood(calls[j])'
  BY <1>1 DEF CallsInv, CallGood, vars
<1>5. \A j \in DOMAIN calls' : CallGood(calls[j])' BY <1>1, <1>4
<1> QED BY <1>2, <1>3, <1>5 DEF CallsInv

\* A call announces itself and moves on.
LEMMA LoudMove ==
  ASSUME InstallInv, CallsInv, NEW i \in DOMAIN calls, NEW place \in {"test", "done"}, NEW n \in {0, 1},
         calls' = [calls EXCEPT ![i] = [calls[i] EXCEPT !.at = place, !.runs = n]],
         UNCHANGED <<vars, patched>>, feed' = Append(feed, i), CallGood(calls[i])',
         ~Announced(i), Announced(i)'
  PROVE  CallsInv'
<1>0. place \in Places BY DEF Places
<1>1. /\ calls' \in Seq(CallType) /\ Len(calls') = Len(calls) /\ DOMAIN calls' = DOMAIN calls
      /\ \A j \in DOMAIN calls : j # i => calls'[j] = calls[j]
      /\ calls'[i].at = place
      /\ \A j \in DOMAIN calls : Told(j)' = Told(j)
  BY <1>0, MoveStep
<1>2. /\ feed \in Seq(1..Len(calls)) /\ i \in 1..Len(calls)
      /\ feed' \in Seq(1..Len(calls)) /\ Len(feed') = Len(feed) + 1 /\ feed'[Len(feed) + 1] = i
      /\ DOMAIN feed' = 1..(Len(feed) + 1) /\ DOMAIN feed = 1..Len(feed) /\ Len(feed) \in Nat
      /\ \A m \in DOMAIN feed : feed'[m] = feed[m]
  BY DEF CallsInv, DetourTypeOK
<1>3. DetourTypeOK' /\ PatchedInv'
  BY <1>1, <1>2 DEF CallsInv, DetourTypeOK, PatchedInv, AtHook, vars, TypeOK
<1>4. FeedGood'
  <2>1. \A j \in DOMAIN calls : Announced(j)' <=> Announced(j) \/ j = i
    BY <1>1 DEF Announced
  <2>2. \A m \in DOMAIN feed : feed[m] # i
    BY DEF CallsInv, FeedGood
  <2>3. \A m \in DOMAIN feed' : m \in DOMAIN feed \/ m = Len(feed) + 1 BY <1>2
  <2>4. \A m, k \in DOMAIN feed' : feed'[m] = feed'[k] => m = k
    BY <1>2, <2>2, <2>3 DEF CallsInv, FeedGood
  <2>5. \A j \in DOMAIN calls : (\E m \in DOMAIN feed' : feed'[m] = j)
                                <=> (\E m \in DOMAIN feed : feed[m] = j) \/ j = i
    BY <1>2, <2>3
  <2>6. \A j \in DOMAIN calls : (\E m \in DOMAIN feed' : feed'[m] = j) <=> Announced(j)'
    BY <2>1, <2>5 DEF CallsInv, FeedGood
  <2>7. \A j \in DOMAIN calls : /\ calls'[j].at = "publish" => Told(j)' = "before"
                                /\ calls'[j].at = "announce" => Told(j)' = "after"
    BY <1>1 DEF CallsInv, FeedGood
  <2> QED BY <1>1, <2>4, <2>6, <2>7 DEF FeedGood
<1>5. \A j \in DOMAIN calls : CallGood(calls[j])'
  BY <1>1 DEF CallsInv, CallGood, vars
<1>6. \A j \in DOMAIN calls' : CallGood(calls[j])' BY <1>1, <1>5
<1> QED BY <1>3, <1>4, <1>6 DEF CallsInv

\* The game calls a hooked method.
LEMMA CallStep ==
  ASSUME InstallInv, VerdictIsRequired, CallsInv, NEW t \in Threads, NEW id \in HookIds,
         NEW arg \in Arguments(Table[id[1]][id[2]].method),
         arg \in Animations \cup {0}, Call(t, id, arg)
  PROVE  CallsInv'
<1> DEFINE when == Publication(Table[id[1]][id[2]].method, arg)
           c == [thread |-> t, hook |-> id, arg |-> arg, within |-> Unfinished(t),
                 at |-> IF id \in patched THEN FirstPlace(when) ELSE "original",
                 entry |-> IF id \in patched THEN outcome[id] ELSE "unhooked",
                 assured |-> phase = "success",
                 runs |-> IF id \in patched THEN 0 ELSE 1]
<1>0. PICK new : new = Len(calls) + 1 OBVIOUS
<1>1. /\ calls' = Append(calls, c) /\ Len(calls) < MaxCalls
      /\ UNCHANGED <<vars, patched, feed>>
  BY DEF Call
<1>2. /\ calls \in Seq(CallType) /\ Len(calls) \in Nat /\ feed \in Seq(1..Len(calls))
      /\ patched \subseteq HookIds
  BY DEF CallsInv, DetourTypeOK
<1>3. outcome[id] \in Outcomes BY DEF InstallInv, TypeOK
<1>4. /\ c.hook = id /\ c.arg = arg /\ c.assured = (phase = "success")
      /\ id \in patched => c.at = FirstPlace(when) /\ c.entry = outcome[id] /\ c.runs = 0
      /\ id \notin patched => c.at = "original" /\ c.entry = "unhooked" /\ c.runs = 1
  OBVIOUS
<1>5. FirstPlace(when) = IF when = "before" THEN "publish" ELSE "test" BY DEF FirstPlace
<1>6. c \in CallType
  <2>1. c.at \in Places /\ c.entry \in Outcomes \cup {"unhooked"} /\ c.runs \in {0, 1}
        /\ Unfinished(t) \in SUBSET (1..MaxCalls)
    BY <1>1, <1>2, <1>3, <1>5, DetourAssumption DEF Places, Unfinished
  <2> QED BY <2>1 DEF CallType
<1>7. CallGood(c)
  <2>1. id \in patched => outcome[id] \in {"live", "orphan", "pending"}
    BY DEF CallsInv, PatchedInv
  <2>2. phase = "success" /\ id \in RequiredHooks => outcome[id] = "live" /\ id \in patched
    BY DEF VerdictIsRequired, CallsInv, PatchedInv
  <2> HIDE DEF c
  <2> QED BY <1>4, <1>5, <2>1, <2>2 DEF CallGood
<1> HIDE DEF c
<1>8. /\ calls' \in Seq(CallType) /\ Len(calls') = new /\ DOMAIN calls' = 1..new
      /\ calls'[new] = c /\ \A j \in DOMAIN calls : calls'[j] = calls[j]
      /\ DOMAIN calls = 1..Len(calls)
  BY <1>0, <1>1, <1>2, <1>6
<1>9. /\ \A j \in DOMAIN calls : Told(j)' = Told(j)
      /\ Told(new)' = when
  BY <1>4, <1>8 DEF Told
<1>10. DetourTypeOK'
  <2>1. feed' \in Seq(1..Len(calls'))
    BY <1>1, <1>2, <1>8
  <2>2. TypeOK' BY <1>1 DEF InstallInv, TypeOK, vars
  <2> QED BY <1>1, <1>2, <1>8, <2>1, <2>2, DetourAssumption DEF DetourTypeOK
<1>11. PatchedInv' BY <1>1 DEF CallsInv, PatchedInv, AtHook, vars
<1>12. \A j \in DOMAIN calls' : CallGood(calls[j])'
  <2>1. UNCHANGED outcome BY <1>1 DEF vars
  <2>2. \A j \in DOMAIN calls' : j \in DOMAIN calls \/ j = new BY <1>0, <1>2, <1>8
  <2> QED BY <1>7, <1>8, <2>1, <2>2 DEF CallsInv, CallGood
<1>13. FeedGood'
  <2>1. \A j \in DOMAIN calls : Announced(j)' <=> Announced(j)
    BY <1>8, <1>9 DEF Announced
  <2>2. ~Announced(new)'
    BY <1>4, <1>5, <1>8, <1>9 DEF Announced
  <2>3. \A m \in DOMAIN feed : feed[m] # new
    BY <1>0, <1>2
  <2>4. c.at \notin {"announce"} /\ (c.at = "publish" => when = "before")
    BY <1>4, <1>5
  <2>5. \A j \in DOMAIN calls' : j \in DOMAIN calls \/ j = new BY <1>0, <1>2, <1>8
  <2>6. \A j \in DOMAIN calls' : (\E m \in DOMAIN feed : feed[m] = j) <=> Announced(j)'
    BY <2>1, <2>2, <2>3, <2>5 DEF CallsInv, FeedGood
  <2>7. \A j \in DOMAIN calls' : /\ calls'[j].at = "publish" => Told(j)' = "before"
                                 /\ calls'[j].at = "announce" => Told(j)' = "after"
    BY <1>8, <1>9, <2>4, <2>5 DEF CallsInv, FeedGood
  <2> QED BY <1>1, <2>6, <2>7 DEF CallsInv, FeedGood
<1> QED BY <1>10, <1>11, <1>12, <1>13 DEF CallsInv

\* A step of a call in progress.
LEMMA ProgressStep ==
  ASSUME InstallInv, CallsInv, NEW i \in DOMAIN calls, Step(i)
  PROVE  CallsInv'
<1>1. /\ calls \in Seq(CallType) /\ calls[i] \in CallType /\ CallGood(calls[i])
  BY DEF CallsInv, DetourTypeOK
<1>2. Told(i) \in {"before", "after", "none"} BY ToldWhen DEF Told
<1>3. UNCHANGED <<vars, patched>> /\ UNCHANGED outcome
  BY DEF Step, PublishBefore, TestOriginal, OriginalReturns, PublishAfter, vars
<1>4. (\E m \in DOMAIN feed : feed[m] = i) <=> Announced(i) BY DEF CallsInv, FeedGood
<1>5. /\ calls[i].at = "publish" => Told(i) = "before"
      /\ calls[i].at = "announce" => Told(i) = "after"
  BY DEF CallsInv, FeedGood
<1>6. PICK n \in {0, 1} : n = calls[i].runs BY <1>1 DEF CallType
<1>7. ASSUME NEW place \in Places, Goto(i, place)
      PROVE  calls' = [calls EXCEPT ![i] = [calls[i] EXCEPT !.at = place, !.runs = n]]
  <2>1. [calls[i] EXCEPT !.at = place] = [calls[i] EXCEPT !.at = place, !.runs = n]
    BY <1>1, <1>6 DEF CallType
  <2>2. calls' = [calls EXCEPT ![i] = [calls[i] EXCEPT !.at = place]] BY <1>7 DEF Goto
  <2> QED BY <2>1, <2>2
\* What the moved call is, in the next state.
<1>8. ASSUME NEW place \in Places, NEW m \in {0, 1},
             calls' = [calls EXCEPT ![i] = [calls[i] EXCEPT !.at = place, !.runs = m]]
      PROVE  /\ calls'[i].at = place /\ calls'[i].runs = m
             /\ calls'[i].entry = calls[i].entry /\ calls'[i].hook = calls[i].hook
             /\ calls'[i].assured = calls[i].assured /\ Told(i)' = Told(i)
  BY <1>3, <1>8, MoveStep
<1>9. LastPlace(i) = IF Told(i) = "after" THEN "announce" ELSE "done" BY DEF LastPlace
<1>10. CASE PublishBefore(i)
  <2>1. calls[i].at = "publish" /\ feed' = Append(feed, i) /\ Goto(i, "test")
    BY <1>10 DEF PublishBefore
  <2>2. "test" \in Places /\ "test" \in {"test", "done"} BY DEF Places
  <2>3. calls' = [calls EXCEPT ![i] = [calls[i] EXCEPT !.at = "test", !.runs = n]]
    BY <1>7, <2>1, <2>2
  <2>4. CallGood(calls[i])'
    BY <1>1, <1>3, <1>6, <1>8, <2>1, <2>2, <2>3 DEF CallGood
  <2>5. ~Announced(i) /\ Announced(i)'
    BY <1>1, <1>5, <1>8, <2>1, <2>2, <2>3 DEF Announced, CallGood
  <2> QED BY <1>3, <2>1, <2>2, <2>3, <2>4, <2>5, LoudMove
<1>11. CASE PublishAfter(i)
  <2>1. calls[i].at = "announce" /\ feed' = Append(feed, i) /\ Goto(i, "done")
    BY <1>11 DEF PublishAfter
  <2>2. "done" \in Places /\ "done" \in {"test", "done"} BY DEF Places
  <2>3. calls' = [calls EXCEPT ![i] = [calls[i] EXCEPT !.at = "done", !.runs = n]]
    BY <1>7, <2>1, <2>2
  <2>4. CallGood(calls[i])'
    BY <1>1, <1>3, <1>6, <1>8, <2>1, <2>2, <2>3 DEF CallGood
  <2>5. ~Announced(i) /\ Announced(i)'
    BY <1>1, <1>5, <1>8, <2>1, <2>2, <2>3 DEF Announced, CallGood
  <2> QED BY <1>3, <2>1, <2>2, <2>3, <2>4, <2>5, LoudMove
<1>12. CASE OriginalReturns(i)
  <2> DEFINE place == AfterOriginal(i)
  <2>1. calls[i].at = "original" /\ UNCHANGED feed /\ Goto(i, place)
    BY <1>12 DEF OriginalReturns
  <2>2. /\ place \in {"announce", "done"}
        /\ place = "announce" <=> calls[i].entry # "unhooked" /\ Told(i) = "after"
    BY <1>9 DEF AfterOriginal
  <2>3. PICK p \in {"announce", "done"} : p = place BY <2>2
  <2> HIDE DEF place
  <2>4. p \in Places BY DEF Places
  <2>5. calls' = [calls EXCEPT ![i] = [calls[i] EXCEPT !.at = p, !.runs = n]]
    BY <1>7, <2>1, <2>3, <2>4
  <2>6. CallGood(calls[i])'
    <3>1. /\ calls'[i].at = p /\ calls'[i].runs = n /\ calls'[i].entry = calls[i].entry
          /\ calls'[i].hook = calls[i].hook /\ calls'[i].assured = calls[i].assured
      BY <1>8, <2>4, <2>5
    <3>2. n = 1 /\ (p = "announce" => calls[i].entry # "unhooked")
      BY <1>1, <1>6, <2>1, <2>2, <2>3 DEF CallGood
    <3> QED BY <1>1, <1>3, <3>1, <3>2 DEF CallGood
  <2>7. Announced(i)' <=> Announced(i)
    BY <1>2, <1>8, <2>1, <2>2, <2>3, <2>4, <2>5 DEF Announced
  <2> QED BY <1>3, <2>1, <2>2, <2>3, <2>4, <2>5, <2>6, <2>7, SilentMove
<1>13. CASE TestOriginal(i)
  <2>1. calls[i].at = "test" /\ UNCHANGED feed BY <1>13 DEF TestOriginal
  <2>2. CASE HasOriginal(i) /\ calls' = [calls EXCEPT ![i].at = "original", ![i].runs = @ + 1]
    <3>1. calls[i].runs = 0 BY <1>1, <2>1 DEF CallGood
    <3>2. calls' = [calls EXCEPT ![i] = [calls[i] EXCEPT !.at = "original", !.runs = 1]]
      <4>1. [calls[i] EXCEPT !.at = "original", !.runs = @ + 1]
              = [calls[i] EXCEPT !.at = "original", !.runs = 1]
        BY <1>1, <3>1 DEF CallType
      <4>2. calls' = [calls EXCEPT ![i] = [calls[i] EXCEPT !.at = "original", !.runs = @ + 1]]
        BY <1>1, <2>2
      <4> QED BY <4>1, <4>2
    <3>3. "original" \in Places BY DEF Places
    <3>4. CallGood(calls[i])'
      BY <1>1, <1>3, <1>8, <2>1, <3>2, <3>3 DEF CallGood
    <3>5. Announced(i)' <=> Announced(i)
      BY <1>2, <1>8, <2>1, <3>2, <3>3 DEF Announced
    <3> QED BY <1>3, <2>1, <3>2, <3>3, <3>4, <3>5, SilentMove
  <2>3. CASE ~HasOriginal(i) /\ Goto(i, LastPlace(i))
    <3>1. PICK p \in {"announce", "done"} : p = LastPlace(i) BY <1>9
    <3>2. p \in Places BY DEF Places
    <3>3. calls' = [calls EXCEPT ![i] = [calls[i] EXCEPT !.at = p, !.runs = n]]
      BY <1>7, <2>3, <3>1, <3>2
    <3>4. calls[i].entry \in {"pending", "orphan"}
      BY <1>1, <2>1, <2>3 DEF CallGood, HasOriginal
    <3>5. CallGood(calls[i])'
      BY <1>1, <1>3, <1>6, <1>8, <2>1, <3>2, <3>3, <3>4 DEF CallGood
    <3>6. Announced(i)' <=> Announced(i)
      BY <1>2, <1>8, <1>9, <2>1, <3>1, <3>2, <3>3 DEF Announced
    <3> QED BY <1>3, <1>9, <2>1, <3>1, <3>2, <3>3, <3>5, <3>6, SilentMove
  <2> QED BY <1>13, <2>2, <2>3 DEF TestOriginal
<1> QED BY <1>10, <1>11, <1>12, <1>13 DEF Step

-----------------------------------------------------------------------------
LEMMA CallsInvariant == DetourSpec => []CallsInv
<1>1. DetourInit /\ InstallInv => CallsInv
  BY DetourAssumption
  DEF DetourInit, Init, InstallInv, CallsInv, DetourTypeOK, PatchedInv, FeedGood
<1>2. InstallInv /\ InstallInv' /\ VerdictIsRequired /\ CallsInv /\ [DetourNext]_detourVars => CallsInv'
  <2> SUFFICES ASSUME InstallInv, InstallInv', VerdictIsRequired, CallsInv,
                      [DetourNext]_detourVars
               PROVE  CallsInv'
    OBVIOUS
  <2>1. CASE DobbyPatches \/ InstallStep \/ GameLoadsImage
    BY <2>1, BesideCalls DEF InstallInv
  <2>2. ASSUME NEW t \in Threads, NEW id \in HookIds,
               NEW arg \in Arguments(Table[id[1]][id[2]].method), Call(t, id, arg)
        PROVE  CallsInv'
    <3>1. arg \in Animations \cup {0} BY DEF Arguments
    <3> QED BY <2>2, <3>1, CallStep
  <2>3. ASSUME NEW i \in DOMAIN calls, Step(i) PROVE CallsInv'
    BY <2>3, ProgressStep
  <2>4. CASE UNCHANGED detourVars
    BY <2>4 DEF detourVars, gameVars, vars, CallsInv, DetourTypeOK, TypeOK, PatchedInv, AtHook,
                FeedGood, Announced, Told, CallGood
  <2> QED BY <2>1, <2>2, <2>3, <2>4 DEF DetourNext
<1> QED BY <1>1, <1>2, DetourComposition, Invariant, VerdictTrue, PTL DEF DetourSpec

\* The types of the calls and of the feed.
THEOREM DetourTypes == DetourSpec => []DetourTypeOK
BY CallsInvariant, PTL DEF CallsInv

\* No call is swallowed, and no original run twice, but where DobbyHook had
\* left none: for every table, any number of threads and of nested calls.
THEOREM NothingSwallowed == DetourSpec => []NothingElseSwallowed
<1>1. CallsInv => NothingElseSwallowed
  <2> SUFFICES ASSUME CallsInv, NEW i \in DOMAIN calls, calls[i].at = "done"
               PROVE  calls[i].runs = 1 \/ (calls[i].runs = 0 /\ calls[i].entry \in {"pending", "orphan"})
    BY DEF NothingElseSwallowed
  <2>1. calls[i] \in CallType /\ CallGood(calls[i]) BY DEF CallsInv, DetourTypeOK
  <2> QED BY <2>1 DEF CallType, CallGood
<1> QED BY <1>1, CallsInvariant, PTL

\* After hook_install_success no call of a required hook's method goes without
\* its original or without its announcement.
THEOREM SuccessComplete == DetourSpec => []SuccessIsComplete
<1>1. CallsInv => SuccessIsComplete
  <2> SUFFICES ASSUME CallsInv, NEW i \in DOMAIN calls, calls[i].at = "done",
                      calls[i].assured, calls[i].hook \in RequiredHooks
               PROVE  /\ calls[i].runs = 1
                      /\ TimesTold(i) = IF Told(i) = "none" THEN 0 ELSE 1
    BY DEF SuccessIsComplete
  <2>1. calls[i] \in CallType /\ CallGood(calls[i]) BY DEF CallsInv, DetourTypeOK
  <2>2. calls[i].entry = "live" /\ calls[i].runs = 1 BY <2>1 DEF CallType, CallGood
  <2> DEFINE places == {k \in DOMAIN feed : feed[k] = i}
  <2>3. TimesTold(i) = Cardinality(places) BY DEF TimesTold
  <2>4. Told(i) \in {"before", "after", "none"} BY ToldWhen DEF Told
  <2>5. places # {} <=> Told(i) # "none"
    BY <2>2, <2>4 DEF CallsInv, FeedGood, Announced
  <2>6. \A m, k \in places : m = k BY DEF CallsInv, FeedGood
  <2> HIDE DEF places
  <2>7. CASE places = {} BY <2>2, <2>3, <2>5, <2>7, FS_EmptySet
  <2>8. CASE places # {}
    <3>1. PICK k : places = {k} BY <2>6, <2>8
    <3>2. Cardinality(places) = 1 BY <3>1, FS_Singleton
    <3> QED BY <2>2, <2>3, <2>5, <2>8, <3>2
  <2> QED BY <2>2, <2>7, <2>8
<1> QED BY <1>1, CallsInvariant, PTL
-----------------------------------------------------------------------------
(* The order of the feed: how the calls of one thread nest.                 *)

\* Of two calls on one thread the earlier is over, or the later is made from its
\* original and is over before that returns.
Nested(i, j) ==
  IF i \in calls[j].within
    THEN /\ calls[i].at \in {"original", "announce", "done"}
         /\ calls[j].at # "done" => calls[i].at = "original"
    ELSE calls[i].at = "done"

NestingGood ==
  \A j \in DOMAIN calls :
    /\ \A i \in calls[j].within : i < j
    /\ \A i \in DOMAIN calls : i < j /\ calls[i].thread = calls[j].thread => Nested(i, j)

\* What is announced stays in order when a call that is not yet in the feed, and
\* has no later call of its thread but finished ones, is announced.
LEMMA OrderedAppend ==
  ASSUME CallsInv, NestingGood, FeedFollowsCalls,
         NEW i \in DOMAIN calls, Innermost(calls[i].thread, i), ~Announced(i),
         calls[i].at = "publish" \/ (calls[i].at = "announce" /\ Told(i) = "after"),
         NEW m \in DOMAIN feed, calls[feed[m]].thread = calls[i].thread
  PROVE  \/ i \in calls[feed[m]].within /\ Told(i) = "after"
         \/ feed[m] < i /\ (feed[m] \in calls[i].within => Told(feed[m]) = "before")
<1> DEFINE f == feed[m]
<1>1. /\ f \in DOMAIN calls /\ f \in Nat /\ i \in Nat /\ Announced(f) /\ f # i
  BY DEF CallsInv, DetourTypeOK, FeedGood
<1>2. calls[i].at # "done" /\ (calls[f].at # "done" => f <= i)
  BY <1>1 DEF Innermost, Unfinished
<1>3. CASE f < i
  <2>1. f \in calls[i].within => calls[f].at = "original"
    BY <1>1, <1>2, <1>3 DEF NestingGood, Nested
  <2> QED BY <1>1, <1>3, <2>1 DEF Announced
<1>4. CASE i < f
  <2>1. i \in calls[f].within /\ calls[i].at \in {"original", "announce", "done"}
    BY <1>1, <1>2, <1>4 DEF NestingGood, Nested
  <2> QED BY <2>1
<1> QED BY <1>1, <1>3, <1>4

\* What a step of a call leaves of it, and of the others.
LEMMA StepKeeps ==
  ASSUME CallsInv, NEW i \in DOMAIN calls, Step(i)
  PROVE  /\ DOMAIN calls' = DOMAIN calls
         /\ \A j \in DOMAIN calls : /\ calls'[j].thread = calls[j].thread
                                    /\ calls'[j].within = calls[j].within
                                    /\ Told(j)' = Told(j)
                                    /\ j # i => calls'[j].at = calls[j].at
         /\ calls[i].at \in {"publish", "test"} \/ calls'[i].at \in {"announce", "done"}
         /\ calls[i].at # "done"
<1>1. calls \in Seq(CallType) /\ calls[i] \in CallType /\ i \in 1..Len(calls)
  BY DEF CallsInv, DetourTypeOK
<1>2. UNCHANGED vars
  BY DEF Step, PublishBefore, TestOriginal, OriginalReturns, PublishAfter
<1>3. LastPlace(i) \in {"announce", "done"} /\ AfterOriginal(i) \in {"announce", "done"}
  BY DEF LastPlace, AfterOriginal
<1>4. PICK c : /\ calls' = [calls EXCEPT ![i] = c]
               /\ c.thread = calls[i].thread /\ c.within = calls[i].within
               /\ c.hook = calls[i].hook /\ c.arg = calls[i].arg
               /\ calls[i].at \in {"publish", "test"} \/ c.at \in {"announce", "done"}
  <2>1. ASSUME NEW place, Goto(i, place)
        PROVE  LET c == [calls[i] EXCEPT !.at = place]
               IN  /\ calls' = [calls EXCEPT ![i] = c] /\ c.at = place
                   /\ c.thread = calls[i].thread /\ c.within = calls[i].within
                   /\ c.hook = calls[i].hook /\ c.arg = calls[i].arg
    BY <1>1, <2>1 DEF Goto, CallType
  <2>2. CASE calls' = [calls EXCEPT ![i].at = "original", ![i].runs = @ + 1] /\ calls[i].at = "test"
    <3> DEFINE c == [calls[i] EXCEPT !.at = "original", !.runs = @ + 1]
    <3>1. /\ calls' = [calls EXCEPT ![i] = c]
          /\ c.thread = calls[i].thread /\ c.within = calls[i].within
          /\ c.hook = calls[i].hook /\ c.arg = calls[i].arg
      BY <1>1, <2>2 DEF CallType
    <3> QED BY <2>2, <3>1
  <2>3. CASE PublishBefore(i) BY <2>1, <2>3 DEF PublishBefore
  <2>4. CASE TestOriginal(i) BY <1>3, <2>1, <2>2, <2>4 DEF TestOriginal
  <2>5. CASE OriginalReturns(i) BY <1>3, <2>1, <2>5 DEF OriginalReturns
  <2>6. CASE PublishAfter(i) BY <2>1, <2>6 DEF PublishAfter
  <2> QED BY <2>3, <2>4, <2>5, <2>6 DEF Step
<1>5. /\ DOMAIN calls' = DOMAIN calls /\ calls'[i] = c
      /\ \A j \in DOMAIN calls : j # i => calls'[j] = calls[j]
  BY <1>1, <1>4
<1>6. \A j \in DOMAIN calls : calls'[j].hook = calls[j].hook /\ calls'[j].arg = calls[j].arg
  BY <1>4, <1>5
<1>7. calls[i].at # "done"
  BY DEF Step, PublishBefore, TestOriginal, OriginalReturns, PublishAfter
<1> QED BY <1>4, <1>5, <1>6, <1>7 DEF Told

\* A thread is in its innermost call only: the others stay where they are.
LEMMA NestedStep ==
  ASSUME CallsInv, NestingGood, NEW i \in DOMAIN calls, Innermost(calls[i].thread, i), Step(i)
  PROVE  NestingGood'
<1>1. /\ DOMAIN calls' = DOMAIN calls
      /\ \A j \in DOMAIN calls : /\ calls'[j].thread = calls[j].thread
                                 /\ calls'[j].within = calls[j].within
                                 /\ j # i => calls'[j].at = calls[j].at
      /\ calls[i].at \in {"publish", "test"} \/ calls'[i].at \in {"announce", "done"}
      /\ calls[i].at # "done"
  BY StepKeeps
<1>2. DOMAIN calls \subseteq Nat BY DEF CallsInv, DetourTypeOK
<1>3. ASSUME NEW j \in DOMAIN calls, NEW h \in DOMAIN calls,
             h < j, calls[h].thread = calls[j].thread
      PROVE  Nested(h, j)'
  <2>1. Nested(h, j) BY <1>3 DEF NestingGood
  <2>2. CASE h = i
    <3>1. calls[j].at = "done" /\ j # i
      BY <1>2, <1>3, <2>2 DEF Innermost, Unfinished
    <3> QED BY <1>1, <2>1, <2>2, <3>1 DEF Nested
  <2>3. CASE h # i
    <3>1. calls'[h].at = calls[h].at BY <1>1, <2>3
    <3>2. calls'[j].at # "done" => calls[j].at # "done" BY <1>1
    <3> QED BY <1>1, <2>1, <3>1, <3>2 DEF Nested
  <2> QED BY <2>2, <2>3
<1> QED BY <1>1, <1>3 DEF NestingGood

\* A new call is made from every unfinished call of its thread.
LEMMA NestedCall ==
  ASSUME CallsInv, NestingGood, NEW t \in Threads, NEW id \in HookIds,
         NEW arg \in Arguments(Table[id[1]][id[2]].method), Call(t, id, arg)
  PROVE  /\ NestingGood'
         /\ UNCHANGED <<vars, feed>>
         /\ DOMAIN calls \subseteq DOMAIN calls'
         /\ \A j \in DOMAIN calls : calls'[j] = calls[j]
<1>1. /\ calls \in Seq(CallType) /\ Len(calls) \in Nat /\ DOMAIN calls = 1..Len(calls)
  BY DEF CallsInv, DetourTypeOK
<1>2. PICK c : /\ calls' = Append(calls, c) /\ c.thread = t /\ c.within = Unfinished(t)
               /\ \A i \in Unfinished(t) : calls[i].at = "original"
               /\ UNCHANGED <<vars, feed>>
  BY DEF Call
<1>3. PICK new : new = Len(calls) + 1 OBVIOUS
<1>4. /\ DOMAIN calls' = 1..new /\ calls'[new] = c
      /\ \A j \in DOMAIN calls : calls'[j] = calls[j]
  BY <1>1, <1>2, <1>3
<1>5. ASSUME NEW j \in DOMAIN calls'
      PROVE  /\ \A i \in calls'[j].within : i < j
             /\ \A i \in DOMAIN calls' :
                  i < j /\ calls'[i].thread = calls'[j].thread => Nested(i, j)'
  <2>1. CASE j = new
    <3>1. Unfinished(t) \subseteq 1..Len(calls) BY <1>1 DEF Unfinished
    <3>2. \A i \in DOMAIN calls' : i < j => i \in DOMAIN calls BY <1>1, <1>3, <1>4, <2>1
    <3> QED BY <1>1, <1>2, <1>3, <1>4, <2>1, <3>1, <3>2 DEF Nested, Unfinished
  <2>2. CASE j # new
    <3>1. j \in DOMAIN calls BY <1>1, <1>3, <1>4, <2>2
    <3>2. \A i \in DOMAIN calls' : i < j => i \in DOMAIN calls BY <1>1, <1>3, <1>4, <3>1
    <3> QED BY <1>4, <3>1, <3>2 DEF NestingGood, Nested
  <2> QED BY <2>1, <2>2
<1>6. NestingGood' BY <1>5 DEF NestingGood
<1> QED BY <1>1, <1>2, <1>3, <1>4, <1>6

\* A call is announced after what the feed already holds of its thread.
LEMMA FollowsStep ==
  ASSUME CallsInv, NestingGood, FeedFollowsCalls,
         NEW i \in DOMAIN calls, Innermost(calls[i].thread, i), Step(i)
  PROVE  FeedFollowsCalls'
<1>1. /\ DOMAIN calls' = DOMAIN calls
      /\ \A j \in DOMAIN calls : /\ calls'[j].thread = calls[j].thread
                                 /\ calls'[j].within = calls[j].within
                                 /\ Told(j)' = Told(j)
  BY StepKeeps
<1>2. /\ feed \in Seq(DOMAIN calls) /\ DOMAIN calls \subseteq Nat
      /\ Len(feed) \in Nat /\ DOMAIN feed = 1..Len(feed)
      /\ \A m \in DOMAIN feed : feed[m] \in DOMAIN calls
  BY DEF CallsInv, DetourTypeOK
<1>3. CASE UNCHANGED feed
  BY <1>1, <1>2, <1>3 DEF FeedFollowsCalls
<1>4. CASE /\ feed' = Append(feed, i) /\ ~Announced(i)
           /\ calls[i].at = "publish" \/ (calls[i].at = "announce" /\ Told(i) = "after")
  <2>1. /\ DOMAIN feed' = 1..(Len(feed) + 1) /\ feed'[Len(feed) + 1] = i
        /\ \A m \in DOMAIN feed : feed'[m] = feed[m]
    BY <1>2, <1>4
  <2>2. ASSUME NEW m \in DOMAIN feed', NEW n \in DOMAIN feed', m < n,
               NEW first \in DOMAIN calls, NEW second \in DOMAIN calls,
               first = feed'[m], second = feed'[n],
               calls[first].thread = calls[second].thread
        PROVE  \/ second \in calls[first].within /\ Told(second) = "after"
               \/ first < second /\ (first \in calls[second].within => Told(first) = "before")
    <3>1. m \in DOMAIN feed /\ first = feed[m]
      BY <1>2, <2>1, <2>2
    <3>2. CASE n \in DOMAIN feed
      <4>1. second = feed[n] BY <2>1, <2>2, <3>2
      <4> QED BY <2>2, <3>1, <3>2, <4>1 DEF FeedFollowsCalls
    <3>3. CASE n = Len(feed) + 1
      <4>1. second = i BY <2>1, <2>2, <3>3
      <4> QED BY <1>4, <2>2, <3>1, <4>1, OrderedAppend
    <3> QED BY <1>2, <2>1, <3>2, <3>3
  <2>3. \A m \in DOMAIN feed' : feed'[m] \in DOMAIN calls BY <1>2, <1>4, <2>1
  <2>4. \A first, second \in DOMAIN calls :
          calls'[first].thread = calls'[second].thread =>
            calls[first].thread = calls[second].thread
    BY <1>1
  <2> QED BY <1>1, <2>2, <2>3, <2>4 DEF FeedFollowsCalls
<1>5. calls[i].at = "announce" => Told(i) = "after" BY DEF CallsInv, FeedGood
<1>6. calls[i].at \in {"publish", "announce"} => ~Announced(i)
  BY <1>5 DEF Announced
<1> QED
  BY <1>3, <1>4, <1>5, <1>6
  DEF Step, PublishBefore, TestOriginal, OriginalReturns, PublishAfter

\* On each thread the feed follows the calls: for any threads, any nesting and
\* whatever the installation does meanwhile.
THEOREM FeedInOrder == DetourSpec => []FeedFollowsCalls
<1> DEFINE Inv == NestingGood /\ FeedFollowsCalls
<1>1. DetourInit => Inv BY DEF DetourInit, NestingGood, FeedFollowsCalls
<1>2. CallsInv /\ Inv /\ [DetourNext]_detourVars => Inv'
  <2> SUFFICES ASSUME CallsInv, Inv, [DetourNext]_detourVars PROVE Inv'
    OBVIOUS
  <2>1. CASE UNCHANGED gameVars
    BY <2>1 DEF gameVars, NestingGood, Nested, FeedFollowsCalls, Told
  <2>2. ASSUME NEW t \in Threads, NEW id \in HookIds,
               NEW arg \in Arguments(Table[id[1]][id[2]].method), Call(t, id, arg)
        PROVE  Inv'
    <3>1. /\ NestingGood' /\ UNCHANGED feed
          /\ DOMAIN calls \subseteq DOMAIN calls'
          /\ \A j \in DOMAIN calls : calls'[j] = calls[j]
      BY <2>2, NestedCall
    <3>2. \A m \in DOMAIN feed : feed[m] \in DOMAIN calls BY DEF CallsInv, DetourTypeOK
    <3>3. \A j \in DOMAIN calls : Told(j)' = Told(j) BY <3>1 DEF Told
    <3>4. FeedFollowsCalls' BY <3>1, <3>2, <3>3 DEF FeedFollowsCalls
    <3> QED BY <3>1, <3>4
  <2>3. ASSUME NEW t \in Threads, NEW i \in DOMAIN calls, Innermost(t, i), Step(i)
        PROVE  Inv'
    <3>1. Innermost(calls[i].thread, i) BY <2>3 DEF Innermost, Unfinished
    <3> QED BY <2>3, <3>1, NestedStep, FollowsStep
  <2>4. CASE DobbyPatches \/ InstallStep \/ GameLoadsImage
    BY <2>1, <2>4 DEF DobbyPatches, InstallStep, GameLoadsImage, gameVars
  <2>5. CASE UNCHANGED detourVars BY <2>1, <2>5 DEF detourVars
  <2> QED BY <2>2, <2>3, <2>4, <2>5 DEF DetourNext
<1> QED BY <1>1, <1>2, CallsInvariant, PTL DEF DetourSpec
=============================================================================
