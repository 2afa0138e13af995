----------------------------- MODULE InstallOnce -----------------------------
(***************************************************************************)
(* What the payload promises about hook installation, whichever threads    *)
(* ask for it: one pass over the hook groups, in order, each group entered *)
(* once, and then one verdict that is "success" exactly when every group   *)
(* reported success.  HookManager implements this specification.           *)
(***************************************************************************)
EXTENDS Naturals

CONSTANT NumGroups  \* how many hook groups there are

VARIABLES
  phase,     \* "idle", "running", "success" or "partial"
  installs,  \* how often each group's Install() was entered
  allOk      \* the conjunction of the results so far

vars == <<phase, installs, allOk>>

Init ==
  /\ phase = "idle"
  /\ installs = [g \in 1..NumGroups |-> 0]
  /\ allOk = TRUE

Begin ==
  /\ phase = "idle"
  /\ phase' = "running"
  /\ UNCHANGED <<installs, allOk>>

InstallNext(g, result) ==
  /\ phase = "running"
  /\ \A h \in 1..NumGroups : installs[h] = (IF h < g THEN 1 ELSE 0)
  /\ installs' = [installs EXCEPT ![g] = 1]
  /\ allOk' = (allOk /\ result)
  /\ UNCHANGED phase

Finish ==
  /\ phase = "running"
  /\ \A g \in 1..NumGroups : installs[g] = 1
  /\ phase' = IF allOk THEN "success" ELSE "partial"
  /\ UNCHANGED <<installs, allOk>>

Next ==
  \/ Begin
  \/ \E g \in 1..NumGroups, result \in BOOLEAN : InstallNext(g, result)
  \/ Finish

Spec == Init /\ [][Next]_vars
=============================================================================
