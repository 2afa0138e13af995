------------------------------- MODULE IpcFeed -------------------------------
(***************************************************************************)
(* The IPC feed: IPCFeed::Initialize and IPCFeed::Publish (ipc_feed.cpp),  *)
(* called by any thread of the game process, the TCP connections between   *)
(* them, and the receiver's loop (scripts/ipc_receiver.py).                *)
(*                                                                         *)
(* A line is a sequence of units <<id, k>>: the k-th unit of the message   *)
(* of the id-th Publish, and <<id, 0>> for its newline.  A connection is   *)
(* what the kernel keeps of it: the units sent and not yet read, and what  *)
(* each end has done to it.  The sends do not block (MSG_DONTWAIT); the    *)
(* connect does, with the mutex held.                                      *)
(***************************************************************************)
EXTENDS Naturals, Sequences, FiniteSets

CONSTANTS
  Publishers,     \* threads that publish
  NoThread,       \* holder of a free mutex
  Sizes,          \* message sizes that Publish is called with
  MaxPayload,     \* kMaxPayload (512 bytes in the code)
  Capacity,       \* units a connection buffers
  Backlog,        \* connections listen(1) lets wait for accept
  PartialSends,   \* may a send take only a part of the line?
  MaxPublishes,   \* bound: calls of Publish
  MaxSockets,     \* bound: sockets created; beyond it socket() fails
  MaxStops        \* bound: how often the receiver stops

ASSUME FeedAssumption ==
  /\ NoThread \notin Publishers
  /\ Sizes \subseteq Nat
  /\ MaxPayload \in Nat \ {0} /\ Capacity \in Nat \ {0} /\ Backlog \in Nat \ {0}
  /\ PartialSends \in BOOLEAN
  /\ MaxPublishes \in Nat /\ MaxSockets \in Nat /\ MaxStops \in Nat

VARIABLES
  g_initialized,
  g_socket_mutex,  \* the thread that holds it
  g_socket_fd,     \* the current connection; 0: none (-1 in the code)
  pc,              \* of each publisher
  message,         \* the message each publisher is publishing
  calls,           \* how often Publish has been called
  conns,           \* every socket the payload has created
  up,              \* the receiver listens
  current,         \* the connection the receiver reads; 0: none
  partial,         \* what it has read of an unfinished line
  received,        \* the lines it has printed
  stops,           \* how often it has stopped
  sent             \* history: what each send took of its line, in order

feedVars == <<g_initialized, g_socket_mutex, g_socket_fd, pc, message, calls>>
receiverVars == <<up, current, partial, received, stops>>
vars == <<feedVars, conns, receiverVars, sent>>

\* The program counter says where a thread is in Publish; "first" marks the
\* steps of Initialize's own critical section.
PublisherStates == {"idle", "initialize", "firstLock", "firstEnsure", "firstConnect",
                    "firstUnlock", "lock", "ensure", "connect", "send", "unlock"}
Critical == PublisherStates \ {"idle", "initialize", "firstLock", "lock"}
Units == (1..MaxPublishes) \X (0..MaxPayload)

\* own: the payload's end.  peer: the receiver's end, before it is connected
\* ("none"), in the accept queue, accepted, closed by the receiver, reset.
ConnType == [own : {"open", "closed"},
             peer : {"none", "queued", "accepted", "closed", "reset"},
             buffer : Seq(Units)]

TypeOK ==
  /\ g_initialized \in BOOLEAN
  /\ g_socket_mutex \in Publishers \cup {NoThread}
  /\ g_socket_fd \in 0..Len(conns)
  /\ pc \in [Publishers -> PublisherStates]
  /\ message \in [Publishers -> [id : 0..MaxPublishes, size : Sizes \cup {0}]]
  /\ calls \in 0..MaxPublishes
  /\ conns \in Seq(ConnType) /\ Len(conns) <= MaxSockets
  /\ \A c \in 1..Len(conns) : Len(conns[c].buffer) <= Capacity
  /\ up \in BOOLEAN /\ stops \in 0..MaxStops
  /\ current \in 0..Len(conns)
  /\ partial \in Seq(Units)
  /\ received \in Seq(Seq(Units)) /\ sent \in Seq(Seq(Units))

Init ==
  /\ g_initialized = FALSE
  /\ g_socket_mutex = NoThread
  /\ g_socket_fd = 0
  /\ pc = [p \in Publishers |-> "idle"]
  /\ message = [p \in Publishers |-> [id |-> 0, size |-> 0]]
  /\ calls = 0
  /\ conns = <<>>
  /\ up \in BOOLEAN
  /\ current = 0
  /\ partial = <<>>
  /\ received = <<>>
  /\ stops = 0
  /\ sent = <<>>

Goto(p, state) == pc' = [pc EXCEPT ![p] = state]

\* As if kMaxPayload were not enforced.
LineUnlimited(m) == Append([k \in 1..m.size |-> <<m.id, k>>], <<m.id, 0>>)
\* message + '\n', or its first kMaxPayload units + '\n'.
Line(m) ==
  Append([k \in 1..(IF m.size < MaxPayload THEN m.size ELSE MaxPayload) |-> <<m.id, k>>],
         <<m.id, 0>>)

-----------------------------------------------------------------------------
(* Publish up to the mutex. *)

\* The early return for an empty message comes after Initialize.
Proceed(m) == IF m.size = 0 THEN "idle" ELSE "lock"

Publish(p) ==
  /\ pc[p] = "idle"
  /\ calls < MaxPublishes
  /\ \E size \in Sizes :
       LET m == [id |-> calls + 1, size |-> size] IN
         /\ message' = [message EXCEPT ![p] = m]
         /\ Goto(p, IF g_initialized THEN Proceed(m) ELSE "initialize")
  /\ calls' = calls + 1
  /\ UNCHANGED <<g_initialized, g_socket_mutex, g_socket_fd, conns, receiverVars, sent>>

\* The exchange in Initialize: the loser goes on while the winner connects.
Initialize(p) ==
  /\ pc[p] = "initialize"
  /\ g_initialized' = TRUE
  /\ Goto(p, IF g_initialized THEN Proceed(message[p]) ELSE "firstLock")
  /\ UNCHANGED <<g_socket_mutex, g_socket_fd, message, calls, conns, receiverVars, sent>>

\* std::scoped_lock waits for the mutex.
MutexFree == g_socket_mutex = NoThread

Lock(p) ==
  /\ pc[p] \in {"firstLock", "lock"}
  /\ MutexFree
  /\ g_socket_mutex' = p
  /\ Goto(p, IF pc[p] = "lock" THEN "ensure" ELSE "firstEnsure")
  /\ UNCHANGED <<g_initialized, g_socket_fd, message, calls, conns, receiverVars, sent>>

-----------------------------------------------------------------------------
(* EnsureConnectedLocked, from Initialize or from Publish. *)

\* As if the return without a socket went round the unlocking.
EnsuredStuck(p, fd) ==
  IF pc[p] \in {"firstEnsure", "firstConnect"} THEN "firstUnlock"
  ELSE IF fd = 0 THEN "idle" ELSE "send"
\* Where the caller goes on, with a connection or without one.
Ensured(p, fd) ==
  IF pc[p] \in {"firstEnsure", "firstConnect"} THEN "firstUnlock"
  ELSE IF fd = 0 THEN "unlock" ELSE "send"

Ensure(p) ==
  /\ pc[p] \in {"firstEnsure", "ensure"}
  /\ \/ /\ g_socket_fd # 0
        /\ Goto(p, Ensured(p, g_socket_fd))
        /\ UNCHANGED <<g_socket_fd, conns>>
     \/ /\ g_socket_fd = 0    \* socket() fails
        /\ Goto(p, Ensured(p, 0))
        /\ UNCHANGED <<g_socket_fd, conns>>
     \/ /\ g_socket_fd = 0    \* socket() succeeds
        /\ Len(conns) < MaxSockets
        /\ conns' = Append(conns, [own |-> "open", peer |-> "none", buffer |-> <<>>])
        /\ g_socket_fd' = Len(conns) + 1
        /\ Goto(p, IF pc[p] = "ensure" THEN "connect" ELSE "firstConnect")
  /\ UNCHANGED <<g_initialized, g_socket_mutex, message, calls, receiverVars, sent>>

Queued == {c \in 1..Len(conns) : conns[c].peer = "queued"}

\* connect returns once the connection is in the accept queue; it is refused,
\* interrupted or times out otherwise.
Connect(p) ==
  /\ pc[p] \in {"firstConnect", "connect"}
  /\ \/ /\ up
        /\ Cardinality(Queued) < Backlog
        /\ conns' = [conns EXCEPT ![g_socket_fd].peer = "queued"]
        /\ Goto(p, Ensured(p, g_socket_fd))
        /\ UNCHANGED g_socket_fd
     \/ /\ conns' = [conns EXCEPT ![g_socket_fd].own = "closed"]
        /\ g_socket_fd' = 0
        /\ Goto(p, Ensured(p, 0))
  /\ UNCHANGED <<g_initialized, g_socket_mutex, message, calls, receiverVars, sent>>

-----------------------------------------------------------------------------
(* The send and the end of Publish. *)

\* What send may return for a line: what the buffer has room for.  Without
\* room for any of it, send fails (EAGAIN); PartialSends says whether it may
\* take some of a line that does not fit.
Taken(line, c) ==
  LET room == Capacity - Len(conns[c].buffer) IN
    IF Len(line) <= room THEN {Len(line)}
    ELSE {0} \cup (IF PartialSends /\ room > 0 THEN {room} ELSE {})

\* send puts the first n units on connection c.
Put(line, c, n) ==
  conns' = [conns EXCEPT ![c].buffer = @ \o SubSeq(line, 1, n)]

\* As if the descriptor were forgotten without a close.
SendFailsForgetting(c) ==
  /\ g_socket_fd' = 0
  /\ UNCHANGED <<conns, sent>>
\* rc < 0: close, so that the next Publish reconnects.
SendFails(c) ==
  /\ conns' = [conns EXCEPT ![c].own = "closed"]
  /\ g_socket_fd' = 0
  /\ UNCHANGED sent

\* As if a short send were repeated from the start of the line.
AfterSendRetry(line, n) == IF n < Len(line) THEN "send" ELSE "unlock"
\* As if a send of less than the whole buffer were repeated.
AfterSendUnfilled(line, n) == IF n <= MaxPayload THEN "send" ELSE "unlock"
\* Only a negative result is looked at: a short send counts as a send.
AfterSend(line, n) == "unlock"

\* A connection that the receiver has closed swallows one more send before
\* the kernel knows of the reset.
Send(p) ==
  /\ pc[p] = "send"
  /\ LET line == Line(message[p])
         peer == conns[g_socket_fd].peer
     IN \/ /\ peer \in {"queued", "accepted"}
           /\ \E n \in Taken(line, g_socket_fd) \ {0} :
                /\ Put(line, g_socket_fd, n)
                /\ Goto(p, AfterSend(line, n))
                /\ sent' = Append(sent, SubSeq(line, 1, n))
           /\ UNCHANGED g_socket_fd
        \/ /\ peer = "closed"
           /\ conns' = [conns EXCEPT ![g_socket_fd].peer = "reset"]
           /\ sent' = Append(sent, line)
           /\ Goto(p, "unlock")
           /\ UNCHANGED g_socket_fd
        \/ /\ \/ peer = "reset"
              \/ peer \in {"queued", "accepted"} /\ 0 \in Taken(line, g_socket_fd)
           /\ SendFails(g_socket_fd)
           /\ Goto(p, "unlock")
  /\ UNCHANGED <<g_initialized, g_socket_mutex, message, calls, receiverVars>>

Unlock(p) ==
  /\ pc[p] \in {"firstUnlock", "unlock"}
  /\ g_socket_mutex' = NoThread
  /\ Goto(p, IF pc[p] = "unlock" THEN "idle" ELSE Proceed(message[p]))
  /\ UNCHANGED <<g_initialized, g_socket_fd, message, calls, conns, receiverVars, sent>>

-----------------------------------------------------------------------------
(* The receiver: one connection after the other, in the order of accept. *)

Accept ==
  /\ up /\ current = 0
  /\ \E c \in Queued :
       /\ \A d \in Queued : c <= d
       /\ conns' = [conns EXCEPT ![c].peer = "accepted"]
       /\ current' = c
  /\ UNCHANGED <<feedVars, up, partial, received, stops, sent>>

\* One unit of the line iteration: a newline ends the line, and an empty line
\* is not printed.
Read ==
  /\ current # 0
  /\ conns[current].buffer # <<>>
  /\ LET unit == Head(conns[current].buffer) IN
       IF unit[2] = 0
         THEN /\ partial' = <<>>
              /\ received' = IF partial = <<>> THEN received ELSE Append(received, partial)
         ELSE partial' = Append(partial, unit) /\ UNCHANGED received
  /\ conns' = [conns EXCEPT ![current].buffer = Tail(@)]
  /\ UNCHANGED <<feedVars, up, current, stops, sent>>

\* At the end of the stream the iteration yields what is left as a last line.
EndOfStream ==
  /\ current # 0
  /\ conns[current].buffer = <<>> /\ conns[current].own = "closed"
  /\ received' = IF partial = <<>> THEN received ELSE Append(received, partial)
  /\ partial' = <<>>
  /\ conns' = [conns EXCEPT ![current].peer = "closed"]
  /\ current' = 0
  /\ UNCHANGED <<feedVars, up, stops, sent>>

\* The receiver is stopped (Ctrl+C) or dies.  What it has not read is lost; a
\* connection with unread data, and one it never accepted, is reset.
StopReceiver ==
  /\ up /\ stops < MaxStops
  /\ up' = FALSE /\ stops' = stops + 1
  /\ current' = 0 /\ partial' = <<>>
  /\ conns' = [c \in 1..Len(conns) |->
       IF conns[c].peer = "queued" \/ c = current
         THEN [conns[c] EXCEPT
                !.peer = IF @ = "queued" \/ conns[c].buffer # <<>> THEN "reset" ELSE "closed",
                !.buffer = <<>>]
         ELSE conns[c]]
  /\ UNCHANGED <<feedVars, received, sent>>

StartReceiver ==
  /\ ~up
  /\ up' = TRUE
  /\ UNCHANGED <<feedVars, conns, current, partial, received, stops, sent>>

-----------------------------------------------------------------------------
PublisherStep(p) ==
  \/ Initialize(p)
  \/ Lock(p)
  \/ Ensure(p)
  \/ Connect(p)
  \/ Send(p)
  \/ Unlock(p)

Receive == Accept \/ Read \/ EndOfStream

Next ==
  \/ \E p \in Publishers : Publish(p) \/ PublisherStep(p)
  \/ Receive
  \/ StopReceiver
  \/ StartReceiver

\* A thread inside Publish runs; the mutex is taken a bounded number of times,
\* so that weak fairness is enough for everyone to get it.  A connect that is
\* not accepted is given up by the kernel.  The receiver reads while it runs;
\* nobody is obliged to publish, nor to stop or start the receiver.
Fairness ==
  /\ \A p \in Publishers : WF_vars(PublisherStep(p))
  /\ WF_vars(Receive)

Spec == Init /\ [][Next]_vars
FairSpec == Spec /\ Fairness

-----------------------------------------------------------------------------
\* The mutex protects what it is there for: the threads inside it are one, and
\* the current descriptor is the only socket the payload has open, across
\* failed connects, failed sends and reconnects (ipc_feed.cpp 56-59, 97-101).
\* A leak would cost the game a descriptor for every message.
NoLeakedSocket ==
  /\ \A p, q \in Publishers : pc[p] \in Critical /\ pc[q] \in Critical => p = q
  /\ \A c \in 1..Len(conns) : conns[c].own = "open" => c = g_socket_fd
  /\ g_socket_fd # 0 => conns[g_socket_fd].own = "open"

\* Position of a message among the sends.
SentAt(id) == CHOOSE i \in 1..Len(sent) : sent[i][1][1] = id

\* Of two units read one after the other: the next of the same message, or the
\* first of a message sent later.
Follows(x, y) ==
  \/ y[1] = x[1] /\ y[2] = x[2] + 1
  \/ y[2] = 1 /\ SentAt(x[1]) < SentAt(y[1])

\* Whatever is lost - short sends, stops, reconnects - the receiver reads units
\* in the order in which the messages were sent, no unit twice, and of each
\* message a prefix: two messages are never mixed (the mutex held across the
\* send, one connection at a time at either end).
UnitsInOrder ==
  LET lines == Append(received, partial) IN
    \A i \in 1..Len(lines) :
      /\ \A k \in 1..(Len(lines[i]) - 1) : Follows(lines[i][k], lines[i][k + 1])
      /\ i > 1 /\ lines[i] # <<>> =>
           Follows(lines[i - 1][Len(lines[i - 1])], lines[i][1])

\* Every line the receiver prints is one message, whole ("Jede Nachricht ist
\* newline-terminiert", ipc_receiver.py 8; ipc_feed.cpp 85).
EachLineIsAMessage ==
  \A i \in 1..Len(received) : \E j \in 1..Len(sent) :
    sent[j] = Append(received[i], <<received[i][1][1], 0>>)

\* A game thread that publishes comes back from Publish, whatever the receiver
\* does: the connect under the mutex ends, and every path unlocks.
PublishReturns == \A p \in Publishers : (pc[p] # "idle") ~> (pc[p] = "idle")

\* No send has been cut short.
AllWhole == \A i \in 1..Len(sent) : sent[i][Len(sent[i])][2] = 0

\* If the receiver is never stopped and no send is short, every line that send
\* took is printed in the end, also those on a connection that the payload has
\* given up since.
SentIsReceived ==
  [](stops = 0 /\ AllWhole) => [](sent # <<>> => <>(Len(received) = Len(sent)))

-----------------------------------------------------------------------------
(* Until a send is cut short the feed implements LineFeed. *)

LastReceived ==
  IF received = <<>> THEN 0 ELSE SentAt(received[Len(received)][1][1])

Lines == INSTANCE LineFeed WITH
  sent <- [i \in 1..Len(sent) |-> SubSeq(sent[i], 1, Len(sent[i]) - 1)],
  delivered <- received,
  last <- LastReceived

\* LineFeed's specification, for as long as every send has been whole: stops,
\* failed sends and reconnects may lose lines, and do nothing else.
ImplementsLineFeed == Lines!Init /\ [][AllWhole' => Lines!Next]_(Lines!vars)
=============================================================================
