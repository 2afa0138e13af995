--------------------------- MODULE MCMemoryReader ---------------------------
(***************************************************************************)
(* MemoryReader with a scan of two slots, a restart of the game, and       *)
(* words at both ends of the plausible range and beyond them.              *)
(***************************************************************************)
EXTENDS MemoryReader

CONSTANTS m1, m2

TwoModels == {m1, m2}
Boundaries == {-1, 0, 9999, 10000}
=============================================================================
