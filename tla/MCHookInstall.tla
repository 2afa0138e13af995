---------------------------- MODULE MCHookInstall ----------------------------
(***************************************************************************)
(* HookInstall with the payload's own table.  Most hooks are in the Client *)
(* image, the game's own code: it may appear at any moment or never, while *)
(* the two library images are there from the start.                        *)
(***************************************************************************)
EXTENDS HookInstall, HookTable

CommonAndCore == {"Common", "Core"}
=============================================================================
