------------------------------ MODULE MCIpcFeed ------------------------------
(***************************************************************************)
(* Instances of IpcFeed: two threads that publish messages below, at and   *)
(* above kMaxPayload, and a receiver that stops and starts.                *)
(***************************************************************************)
EXTENDS IpcFeed

CONSTANTS p1, p2

TwoPublishers == {p1, p2}
ShortAndLong == {1, 3}
AllSizes == {0, 1, 2, 3}
=============================================================================
