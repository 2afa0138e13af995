----------------------------- MODULE MCRollHook -----------------------------
(***************************************************************************)
(* Instances of RollHook: multipliers at both ends of TriggerRoll's range  *)
(* and just above it, and a game that sets 5.                              *)
(***************************************************************************)
EXTENDS RollHook

CONSTANTS g1, c1, c2, s1

OneGameThread == {g1}
TwoClients == {c1, c2}
OneClient == {c1}
OneService == {s1}
GameChoices == {5}
Boundaries == {1, 100, 101}
JustOne == {1}
=============================================================================
