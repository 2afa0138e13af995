------------------------------ MODULE MCDetours ------------------------------
(***************************************************************************)
(* Detours with one hook of each kind: a roll of the jail (announced when  *)
(* it is over), an animation (announced before, or not), and a pickup's    *)
(* contents (optional, announced before).                                  *)
(***************************************************************************)
EXTENDS Detours, HookTable, TLC

CONSTANTS t1, t2

OneOfEachKind == <<
  <<Required("EscapeJailService.BeginRoll", "Client")>>,
  <<Required("CoinFlipService.ChangeAnimationState", "Client"),
    Optional("PickupHandler.AwardPickupContents", "Common")>>>>

OnlyCommon == {"Common"}
TwoThreads == {t1, t2}
IdleAndFlipping == {2, 3}
SymmetricThreads == Permutations(TwoThreads)
=============================================================================
