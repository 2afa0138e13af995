------------------------------ MODULE HookTable ------------------------------
(***************************************************************************)
(* The hooks of the payload, group by group, in the order in which each    *)
(* group's Install() asks for them: the method, the IL2CPP image it is in, *)
(* and whether the group's result depends on it.  The image is named       *)
(* without its prefix and ".dll".                                           *)
(***************************************************************************)
EXTENDS Sequences

Required(method, image) == [method |-> method, image |-> image, required |-> TRUE]
Optional(method, image) == [method |-> method, image |-> image, required |-> FALSE]

RollHooks == <<
  Required("TophatClientActionsFlusher.Update", "Client"),
  Required("RollService.AttemptRoll", "Client"),
  Required("RollService.SetMultiplier", "Client"),
  Required("RollService.GetCurrentMultiplier", "Client")>>

JailHooks == <<
  Required("EscapeJailService.BeginRoll", "Client"),
  Required("EscapeJailService.SetState", "Client"),
  Required("EscapeJailService.OnRollButtonPressed", "Client"),
  Optional("EscapeJailService.OnSingleRollComplete", "Client"),
  Optional("EscapeJailService.TryInterruptAutoRoll", "Client"),
  Optional("EscapeJailService.UpdateRollResultOnRoll", "Client")>>

CoinFlipHooks == <<
  Required("CoinFlipService.TryFlip", "Client"),
  Required("CoinFlipService.ChangeAnimationState", "Client"),
  Required("CoinFlipService.GetMaxFlips", "Client"),
  Optional("CoinFlipService.OnInitialize", "Client"),
  Optional("CoinFlipService.RefreshEventModel", "Client"),
  Optional("CoinFlipModifierExecutor.GetCurrentFlips", "Common"),
  Optional("CoinFlipModifierExecutor.GetNumberOfHeads", "Common"),
  Optional("CoinFlipModifierExecutor.GetHeadChance", "Common")>>

BoardPickupHooks == <<
  Required("BoardPickupsService.EvaluateBoardPickups", "Client"),
  Required("BoardPickupsService.CheckForPickupsAwaitingSpawn", "Client"),
  Required("BoardPickupsService.SetNextMoveTokenAnimatorParams", "Client"),
  Optional("BoardPickupsService.TriggerOnLandHandler", "Client"),
  Optional("BoardPickupsService.RemoveBoardPickup", "Client"),
  Optional("BoardPickupsService.AnimateCollectNearestPickups", "Client"),
  Optional("SpecialCurrencyEventPickupSource.OnLandHandler", "Client"),
  Optional("SpecialCurrencyEventPickupSource.OnCollectNearestHandler", "Client")>>

PickupSourceHooks == <<
  Optional("CoreMechanicPickupSource.GetPickupsToSpawn", "Client"),
  Optional("ShieldPickupSource.GetPickupsToSpawn", "Client"),
  Optional("RentDuePickupSource.GetPickupsToSpawn", "Client"),
  Optional("BonusBoardPickupSource.GetPickupsToSpawn", "Client"),
  Optional("PickupHandler.ProcessPickups", "Common"),
  Optional("PickupHandler.ProcessClosestPickups", "Common"),
  Optional("PickupHandler.HandlePickup", "Common"),
  Optional("PickupHandler.AwardPickupContents", "Common")>>

PickupHooks == BoardPickupHooks \o PickupSourceHooks

ChanceHooks == <<Required("CardHandler.DrawCard", "Common")>>

SpeedHooks == <<
  Required("Time.set_timeScale", "Core"),
  Required("Time.get_timeScale", "Core")>>

\* The groups in the order of InstallHooks.
PayloadHooks ==
  <<RollHooks, JailHooks, CoinFlipHooks, PickupHooks, ChanceHooks, SpeedHooks>>
=============================================================================
