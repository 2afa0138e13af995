----------------------------- MODULE MCSpeedHook -----------------------------
(***************************************************************************)
(* Instances of SpeedHook with 1.0 = 4: the game asks for -1.0, 1.0 and    *)
(* 6.0 (which the default multiplier sends over the clamp), the control    *)
(* functions set 0.0, 0.5 and 2.0.                                         *)
(***************************************************************************)
EXTENDS SpeedHook

GameValues == {-4, 4, 24}
OnlyOne == {4}
ControlValues == {0, 2, 8}
=============================================================================
