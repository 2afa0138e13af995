---------------------------- MODULE MCHookManager ----------------------------
(***************************************************************************)
(* HookManager by itself with one callback thread and the fallback; module *)
(* MCPayloadStart has the instance with all the racing threads.            *)
(***************************************************************************)
EXTENDS HookManager

CONSTANTS c1, late, w1, w2

OneCaller == {c1}
TwoWorkers == {w1, w2}
=============================================================================
