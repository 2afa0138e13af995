------------------------------ MODULE LineFeed ------------------------------
(***************************************************************************)
(* What a reader of the IPC feed may rely on when every send is taken      *)
(* whole: the lines it reads are lines that were sent, complete, each at   *)
(* most once and in the order in which they were sent.  Lines may be lost; *)
(* the feed is best effort.                                                *)
(***************************************************************************)
EXTENDS Naturals, Sequences

VARIABLES
  sent,       \* the lines handed to the socket, in order
  delivered,  \* the lines the receiver has read
  last        \* the position in sent of the last line read

vars == <<sent, delivered, last>>

Init == sent = <<>> /\ delivered = <<>> /\ last = 0

Send(line) ==
  /\ sent' = Append(sent, line)
  /\ UNCHANGED <<delivered, last>>

\* Skipping positions is losing lines.
Deliver ==
  /\ last' \in (last + 1)..Len(sent)
  /\ delivered' = Append(delivered, sent[last'])
  /\ UNCHANGED sent

Next == (sent' # sent /\ Send(sent'[Len(sent')])) \/ Deliver

Spec == Init /\ [][Next]_vars
=============================================================================
