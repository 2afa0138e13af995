---------------------------- MODULE IpcFeedProofs ----------------------------
(***************************************************************************)
(* Theorems about IpcFeed, for any number of publishers, any message sizes *)
(* and buffers, and any number of connections, whole sends or short ones.  *)
(***************************************************************************)
EXTENDS IpcFeed, TLAPS

-----------------------------------------------------------------------------
(* The inductive invariant: the types, and what the mutex protects. *)

ThreadsTyped ==
  /\ g_initialized \in BOOLEAN
  /\ g_socket_mutex \in Publishers \cup {NoThread}
  /\ pc \in [Publishers -> PublisherStates]
  /\ message \in [Publishers -> [id : 0..MaxPublishes, size : Sizes \cup {0}]]
  /\ calls \in 0..MaxPublishes

ConnsTyped ==
  /\ conns \in Seq(ConnType)
  /\ Len(conns) <= MaxSockets
  /\ \A c \in 1..Len(conns) : Len(conns[c].buffer) <= Capacity

EndsTyped ==
  /\ g_socket_fd \in 0..Len(conns)
  /\ current \in 0..Len(conns)

ReceiverTyped ==
  /\ up \in BOOLEAN /\ stops \in 0..MaxStops
  /\ partial \in Seq(Units)
  /\ received \in Seq(Seq(Units)) /\ sent \in Seq(Seq(Units))

\* The parts are the type invariant.
LEMMA TypeParts == TypeOK <=> ThreadsTyped /\ ConnsTyped /\ EndsTyped /\ ReceiverTyped
BY DEF TypeOK, ThreadsTyped, ConnsTyped, EndsTyped, ReceiverTyped

\* A message that is being published has been numbered.
Numbered == \A p \in Publishers : pc[p] # "idle" => message[p].id \in 1..MaxPublishes

\* Who is in a critical section holds the mutex.
HoldsMutex == \A p \in Publishers : pc[p] \in Critical => g_socket_mutex = p

\* Who is about to use the socket has one.
HasSocket ==
  \A p \in Publishers : pc[p] \in {"firstConnect", "connect", "send"} => g_socket_fd # 0

\* The current socket is open, and no other.
OneSocket ==
  /\ \A c \in 1..Len(conns) : conns[c].own = "open" => c = g_socket_fd
  /\ g_socket_fd # 0 => conns[g_socket_fd].own = "open"

Protected == HoldsMutex /\ HasSocket /\ OneSocket
FeedInv == TypeOK /\ Numbered /\ Protected

-----------------------------------------------------------------------------
(* Lines and buffers. *)

\* A line is a sequence of units and never empty.
LEMMA LineTyped ==
  ASSUME NEW m, m.id \in 1..MaxPublishes, m.size \in Nat
  PROVE  Line(m) \in Seq(Units) /\ Len(Line(m)) \in Nat \ {0}
<1> DEFINE n == IF m.size < MaxPayload THEN m.size ELSE MaxPayload
           body == [k \in 1..n |-> <<m.id, k>>]
<1>1. n \in 0..MaxPayload BY FeedAssumption
<1>2. \A k \in 1..n : <<m.id, k>> \in Units BY <1>1, FeedAssumption DEF Units
<1>3. body \in Seq(Units)
  <2> HIDE DEF n
  <2>1. n \in Nat BY <1>1, FeedAssumption
  <2>2. body \in [1..n -> Units] BY <1>2
  <2> QED BY <2>1, <2>2
<1>4. <<m.id, 0>> \in Units BY FeedAssumption DEF Units
<1>5. Line(m) = Append(body, <<m.id, 0>>) BY DEF Line
<1> HIDE DEF body
<1> QED BY <1>3, <1>4, <1>5

\* Replacing one connection by a well-formed one keeps the connections
\* well-formed.
LEMMA ReplaceConn ==
  ASSUME ConnsTyped, NEW c \in 1..Len(conns), NEW r \in ConnType, Len(r.buffer) <= Capacity,
         conns' = [conns EXCEPT ![c] = r]
  PROVE  /\ ConnsTyped' /\ Len(conns') = Len(conns)
         /\ conns'[c] = r
         /\ \A d \in 1..Len(conns) : d # c => conns'[d] = conns[d]
BY DEF ConnsTyped

\* What a connection is made of.
LEMMA ConnFields ==
  ASSUME ConnsTyped, NEW c \in 1..Len(conns)
  PROVE  /\ conns[c] \in ConnType
         /\ conns[c].own \in {"open", "closed"}
         /\ conns[c].peer \in {"none", "queued", "accepted", "closed", "reset"}
         /\ conns[c].buffer \in Seq(Units)
         /\ Len(conns[c].buffer) <= Capacity
<1>1. conns[c] \in ConnType BY DEF ConnsTyped
<1>2. Len(conns[c].buffer) <= Capacity BY DEF ConnsTyped
<1> QED BY <1>1, <1>2 DEF ConnType

\* A change of the receiver's end of a connection and of its buffer does not
\* touch the payload's end.
LEMMA PeerConn ==
  ASSUME ConnsTyped, OneSocket, NEW c \in 1..Len(conns),
         NEW peer \in {"none", "queued", "accepted", "closed", "reset"},
         NEW buffer \in Seq(Units), Len(buffer) <= Capacity,
         conns' = [conns EXCEPT ![c] = [conns[c] EXCEPT !.peer = peer, !.buffer = buffer]],
         g_socket_fd' = g_socket_fd, g_socket_fd \in 0..Len(conns)
  PROVE  ConnsTyped' /\ Len(conns') = Len(conns) /\ OneSocket'
<1> DEFINE r == [conns[c] EXCEPT !.peer = peer, !.buffer = buffer]
<1>1. r \in ConnType /\ r.buffer = buffer /\ r.own = conns[c].own
  BY ConnFields DEF ConnType
<1> HIDE DEF r
<1>2. conns' = [conns EXCEPT ![c] = r] BY DEF r
<1>3. /\ ConnsTyped' /\ Len(conns') = Len(conns) /\ conns'[c] = r
      /\ \A d \in 1..Len(conns) : d # c => conns'[d] = conns[d]
  BY <1>1, <1>2, ReplaceConn
<1>4. \A d \in 1..Len(conns) : conns'[d].own = conns[d].own BY <1>1, <1>3
<1> QED BY <1>3, <1>4 DEF OneSocket, ConnsTyped

\* Closing the current socket leaves none open.
LEMMA CloseConn ==
  ASSUME ConnsTyped, OneSocket, g_socket_fd \in 1..Len(conns),
         conns' = [conns EXCEPT ![g_socket_fd].own = "closed"], g_socket_fd' = 0
  PROVE  ConnsTyped' /\ Len(conns') = Len(conns) /\ OneSocket'
<1> DEFINE r == [conns[g_socket_fd] EXCEPT !.own = "closed"]
<1>1. r \in ConnType /\ r.own = "closed" /\ Len(r.buffer) <= Capacity
  BY ConnFields DEF ConnType
<1> HIDE DEF r
<1>2. conns' = [conns EXCEPT ![g_socket_fd] = r] BY DEF r
<1>3. /\ ConnsTyped' /\ Len(conns') = Len(conns) /\ conns'[g_socket_fd] = r
      /\ \A d \in 1..Len(conns) : d # g_socket_fd => conns'[d] = conns[d]
  BY <1>1, <1>2, ReplaceConn
<1> QED BY <1>1, <1>3 DEF OneSocket, ConnsTyped

-----------------------------------------------------------------------------
(* Steps of a publisher. *)

\* A step of a thread that moves on outside of a critical section.
LEMMA MoveOutside ==
  ASSUME FeedInv, NEW p \in Publishers, NEW state \in PublisherStates \ Critical,
         Goto(p, state), g_socket_mutex' = g_socket_mutex, g_socket_fd' = g_socket_fd
  PROVE  /\ pc' \in [Publishers -> PublisherStates]
         /\ HoldsMutex' /\ HasSocket'
<1>1. pc' = [pc EXCEPT ![p] = state] /\ pc \in [Publishers -> PublisherStates]
  BY DEF FeedInv, TypeOK, Goto
<1>2. state \in PublisherStates /\ state \notin {"firstConnect", "connect", "send"}
  BY DEF PublisherStates, Critical
<1> QED BY <1>1, <1>2 DEF FeedInv, Protected, HoldsMutex, HasSocket

\* A step of the thread that holds the mutex: everybody else is outside.
LEMMA MoveInside ==
  ASSUME FeedInv, NEW p \in Publishers, g_socket_mutex = p \/ pc[p] \in Critical,
         NEW state \in Critical, Goto(p, state), g_socket_mutex' = p,
         state \in {"firstConnect", "connect", "send"} => g_socket_fd' # 0
  PROVE  /\ pc' \in [Publishers -> PublisherStates]
         /\ HoldsMutex' /\ HasSocket'
<1>1. pc' = [pc EXCEPT ![p] = state] /\ pc \in [Publishers -> PublisherStates]
  BY DEF FeedInv, TypeOK, Goto
<1>2. state \in PublisherStates BY DEF Critical
<1>3. \A q \in Publishers : q # p => pc[q] \notin Critical
  BY DEF FeedInv, Protected, HoldsMutex
<1>4. {"firstConnect", "connect", "send"} \subseteq Critical BY DEF Critical, PublisherStates
<1> QED BY <1>1, <1>2, <1>3, <1>4 DEF HoldsMutex, HasSocket

\* Who is being published for keeps its number through a step inside Publish.
LEMMA StillNumbered ==
  ASSUME FeedInv, NEW p \in Publishers, pc[p] # "idle", NEW state, Goto(p, state),
         message' = message
  PROVE  Numbered'
BY DEF FeedInv, Numbered, Goto, TypeOK

\* The thread's place after EnsureConnectedLocked.
LEMMA EnsuredPlace ==
  ASSUME FeedInv, NEW p \in Publishers, NEW fd,
         pc[p] \in {"firstEnsure", "ensure", "firstConnect", "connect"}
  PROVE  /\ Ensured(p, fd) \in Critical
         /\ Ensured(p, fd) \in {"firstConnect", "connect", "send"} => fd # 0
BY DEF Ensured, Critical, PublisherStates

\* The call of Publish.
LEMMA PublishStep ==
  ASSUME FeedInv, NEW p \in Publishers, Publish(p)
  PROVE  FeedInv'
<1> USE FeedAssumption
<1>1. PICK size \in Sizes :
        /\ message' = [message EXCEPT ![p] = [id |-> calls + 1, size |-> size]]
        /\ Goto(p, IF g_initialized THEN Proceed([id |-> calls + 1, size |-> size])
                   ELSE "initialize")
  BY DEF Publish
<1> DEFINE m == [id |-> calls + 1, size |-> size]
           state == IF g_initialized THEN Proceed(m) ELSE "initialize"
<1>2. state \in PublisherStates \ Critical BY DEF Proceed, PublisherStates, Critical
<1>3. calls \in 0..MaxPublishes /\ calls < MaxPublishes /\ calls' = calls + 1
  BY DEF Publish, FeedInv, TypeOK
<1>4. m \in [id : 0..MaxPublishes, size : Sizes \cup {0}] /\ m.id \in 1..MaxPublishes
  BY <1>3
<1> HIDE DEF m, state
<1>5. Goto(p, state) BY <1>1 DEF m, state
<1>6. message' = [message EXCEPT ![p] = m] BY <1>1 DEF m
<1>7. UNCHANGED <<g_initialized, g_socket_mutex, g_socket_fd, conns, receiverVars, sent>>
  BY DEF Publish
<1>8. pc' \in [Publishers -> PublisherStates] /\ HoldsMutex' /\ HasSocket'
  BY <1>2, <1>5, <1>7, MoveOutside
<1>9. /\ message' \in [Publishers -> [id : 0..MaxPublishes, size : Sizes \cup {0}]]
      /\ calls' \in 0..MaxPublishes
  BY <1>3, <1>4, <1>6 DEF FeedInv, TypeOK
<1>10. TypeOK' BY <1>7, <1>8, <1>9 DEF FeedInv, TypeOK, receiverVars
<1>11. Numbered'
  BY <1>4, <1>5, <1>6 DEF FeedInv, TypeOK, Numbered, Goto
<1> QED BY <1>7, <1>8, <1>10, <1>11 DEF FeedInv, Protected, OneSocket

\* The exchange of g_initialized.
LEMMA InitializeStep ==
  ASSUME FeedInv, NEW p \in Publishers, Initialize(p)
  PROVE  FeedInv'
<1> DEFINE state == IF g_initialized THEN Proceed(message[p]) ELSE "firstLock"
<1>1. state \in PublisherStates \ Critical BY DEF Proceed, PublisherStates, Critical
<1>2. Goto(p, state) /\ pc[p] = "initialize" BY DEF Initialize
<1>3. /\ UNCHANGED <<g_socket_mutex, g_socket_fd, message, calls, conns, receiverVars, sent>>
      /\ g_initialized' = TRUE
  BY DEF Initialize
<1> HIDE DEF state
<1>4. pc' \in [Publishers -> PublisherStates] /\ HoldsMutex' /\ HasSocket'
  BY <1>1, <1>2, <1>3, MoveOutside
<1>5. TypeOK' BY <1>3, <1>4 DEF FeedInv, TypeOK, receiverVars
<1>6. Numbered' BY <1>2, <1>3, StillNumbered
<1> QED BY <1>3, <1>4, <1>5, <1>6 DEF FeedInv, Protected, OneSocket

\* Taking the mutex: nobody is inside.
LEMMA LockStep ==
  ASSUME FeedInv, NEW p \in Publishers, Lock(p)
  PROVE  FeedInv'
<1> DEFINE state == IF pc[p] = "lock" THEN "ensure" ELSE "firstEnsure"
<1>1. /\ state \in PublisherStates
      /\ state \notin {"firstConnect", "connect", "send"}
  BY DEF PublisherStates
<1>2. /\ Goto(p, state) /\ pc[p] # "idle"
      /\ g_socket_mutex = NoThread /\ g_socket_mutex' = p
      /\ UNCHANGED <<g_initialized, g_socket_fd, message, calls, conns, receiverVars, sent>>
  BY DEF Lock, MutexFree
<1> HIDE DEF state
<1>3. pc' = [pc EXCEPT ![p] = state] /\ pc \in [Publishers -> PublisherStates]
  BY <1>2 DEF FeedInv, TypeOK, Goto
<1>4. \A q \in Publishers : pc[q] \notin Critical
  BY <1>2, FeedAssumption DEF FeedInv, Protected, HoldsMutex
<1>5. pc' \in [Publishers -> PublisherStates] /\ HoldsMutex' /\ HasSocket'
  BY <1>1, <1>2, <1>3, <1>4 DEF HoldsMutex, HasSocket, Critical, FeedInv, Protected
<1>6. TypeOK' BY <1>2, <1>5 DEF FeedInv, TypeOK, receiverVars
<1>7. Numbered' BY <1>2, StillNumbered
<1> QED BY <1>2, <1>5, <1>6, <1>7 DEF FeedInv, Protected, OneSocket

\* Looking for a connection; a new socket becomes the current one.
LEMMA EnsureStep ==
  ASSUME FeedInv, NEW p \in Publishers, Ensure(p)
  PROVE  FeedInv'
<1>1. /\ pc[p] \in {"firstEnsure", "ensure"}
      /\ UNCHANGED <<g_initialized, g_socket_mutex, message, calls, receiverVars, sent>>
  BY DEF Ensure
<1>2. pc[p] \in Critical /\ g_socket_mutex' = p /\ pc[p] # "idle"
  BY <1>1 DEF Critical, PublisherStates, FeedInv, Protected, HoldsMutex
<1>3. ASSUME NEW fd, Goto(p, Ensured(p, fd)), fd = g_socket_fd,
             UNCHANGED <<g_socket_fd, conns>>
      PROVE  FeedInv'
  <2> DEFINE state == Ensured(p, fd)
  <2>1. /\ state \in Critical
        /\ state \in {"firstConnect", "connect", "send"} => g_socket_fd' # 0
    BY <1>1, <1>3, EnsuredPlace
  <2> HIDE DEF state
  <2>2. Goto(p, state) BY <1>3 DEF state
  <2>3. pc' \in [Publishers -> PublisherStates] /\ HoldsMutex' /\ HasSocket'
    BY <1>2, <2>1, <2>2, MoveInside
  <2>4. TypeOK' BY <1>1, <1>3, <2>3 DEF FeedInv, TypeOK, receiverVars
  <2>5. Numbered' BY <1>1, <1>2, <2>2, StillNumbered
  <2> QED BY <1>3, <2>3, <2>4, <2>5 DEF FeedInv, Protected, OneSocket
<1>4. ASSUME g_socket_fd = 0, Len(conns) < MaxSockets,
             conns' = Append(conns, [own |-> "open", peer |-> "none", buffer |-> <<>>]),
             g_socket_fd' = Len(conns) + 1,
             Goto(p, IF pc[p] = "ensure" THEN "connect" ELSE "firstConnect")
      PROVE  FeedInv'
  <2> DEFINE state == IF pc[p] = "ensure" THEN "connect" ELSE "firstConnect"
             r == [own |-> "open", peer |-> "none", buffer |-> <<>>]
  <2>1. state \in Critical BY DEF Critical, PublisherStates
  <2>2. r \in ConnType /\ r.own = "open" /\ Len(r.buffer) = 0 BY DEF ConnType
  <2> HIDE DEF state, r
  <2>3. conns \in Seq(ConnType) /\ Len(conns) \in Nat BY DEF FeedInv, TypeOK
  <2>4. conns' = Append(conns, r) /\ Goto(p, state) BY <1>4 DEF r, state
  <2>5. /\ conns' \in Seq(ConnType) /\ Len(conns') = Len(conns) + 1
        /\ conns'[Len(conns) + 1] = r
        /\ \A c \in 1..Len(conns) : conns'[c] = conns[c]
    BY <2>2, <2>3, <2>4
  <2>6. pc' \in [Publishers -> PublisherStates] /\ HoldsMutex' /\ HasSocket'
    BY <1>2, <1>4, <2>1, <2>3, <2>4, MoveInside
  <2>7. ConnsTyped'
    BY <1>4, <2>2, <2>3, <2>5, FeedAssumption DEF ConnsTyped, FeedInv, TypeOK
  <2>8. EndsTyped' BY <1>1, <1>4, <2>3, <2>5 DEF EndsTyped, FeedInv, TypeOK, receiverVars
  <2>9. TypeOK'
    <3>1. ThreadsTyped' BY <1>1, <2>6 DEF ThreadsTyped, FeedInv, TypeOK
    <3>2. ReceiverTyped' BY <1>1 DEF ReceiverTyped, FeedInv, TypeOK, receiverVars
    <3> QED BY <2>7, <2>8, <3>1, <3>2 DEF TypeOK, ThreadsTyped, ConnsTyped, EndsTyped, ReceiverTyped
  <2>10. OneSocket'
    BY <1>4, <2>2, <2>3, <2>5 DEF OneSocket, FeedInv, Protected
  <2>11. Numbered' BY <1>1, <1>2, <2>4, StillNumbered
  <2> QED BY <2>6, <2>9, <2>10, <2>11 DEF FeedInv, Protected
<1> QED BY <1>3, <1>4 DEF Ensure

\* A step of the mutex' holder that changes nothing but its place, the
\* connections, the current socket and the history of sends.
LEMMA HolderStep ==
  ASSUME FeedInv, NEW p \in Publishers, pc[p] \in Critical,
         NEW state \in Critical, Goto(p, state),
         state \in {"firstConnect", "connect", "send"} => g_socket_fd' # 0,
         ConnsTyped', OneSocket', Len(conns') = Len(conns),
         g_socket_fd' \in {0, g_socket_fd}, sent' \in Seq(Seq(Units)),
         UNCHANGED <<g_initialized, g_socket_mutex, message, calls, receiverVars>>
  PROVE  FeedInv'
<1>1. g_socket_mutex' = p BY DEF FeedInv, Protected, HoldsMutex
<1>2. pc' \in [Publishers -> PublisherStates] /\ HoldsMutex' /\ HasSocket'
  BY <1>1, MoveInside
<1>3. pc[p] # "idle" BY DEF Critical
<1>4. Numbered' BY <1>3, StillNumbered
<1>5. ThreadsTyped' BY <1>2 DEF ThreadsTyped, FeedInv, TypeOK
<1>6. EndsTyped' BY DEF EndsTyped, FeedInv, TypeOK, receiverVars
<1>7. ReceiverTyped' BY DEF ReceiverTyped, FeedInv, TypeOK, receiverVars
<1>8. TypeOK' BY <1>5, <1>6, <1>7 DEF TypeOK, ThreadsTyped, ConnsTyped, EndsTyped, ReceiverTyped
<1> QED BY <1>2, <1>4, <1>8 DEF FeedInv, Protected

\* The connect; if it fails the new socket is closed again.
LEMMA ConnectStep ==
  ASSUME FeedInv, NEW p \in Publishers, Connect(p)
  PROVE  FeedInv'
<1>1. /\ pc[p] \in {"firstConnect", "connect"}
      /\ UNCHANGED <<g_initialized, g_socket_mutex, message, calls, receiverVars, sent>>
  BY DEF Connect
<1>2. pc[p] \in Critical BY <1>1 DEF Critical, PublisherStates
<1>3. /\ ConnsTyped /\ OneSocket /\ g_socket_fd \in 0..Len(conns)
      /\ g_socket_fd \in 1..Len(conns) /\ sent' \in Seq(Seq(Units))
  BY <1>1 DEF FeedInv, TypeOK, ConnsTyped, Protected, HasSocket
<1>4. CASE /\ conns' = [conns EXCEPT ![g_socket_fd].peer = "queued"]
           /\ Goto(p, Ensured(p, g_socket_fd))
           /\ UNCHANGED g_socket_fd
  <2> DEFINE buffer == conns[g_socket_fd].buffer
  <2>1. buffer \in Seq(Units) /\ Len(buffer) <= Capacity BY <1>3, ConnFields
  <2>2. conns' = [conns EXCEPT ![g_socket_fd] =
                    [conns[g_socket_fd] EXCEPT !.peer = "queued", !.buffer = buffer]]
    BY <1>3, <1>4, ConnFields DEF ConnType
  <2> HIDE DEF buffer
  <2>3. ConnsTyped' /\ Len(conns') = Len(conns) /\ OneSocket'
    BY <1>3, <1>4, <2>1, <2>2, PeerConn
  <2>4. /\ Ensured(p, g_socket_fd) \in Critical
        /\ Ensured(p, g_socket_fd) \in {"firstConnect", "connect", "send"} => g_socket_fd # 0
    BY <1>1, EnsuredPlace
  <2> QED BY <1>1, <1>2, <1>3, <1>4, <2>3, <2>4, HolderStep
<1>5. CASE /\ conns' = [conns EXCEPT ![g_socket_fd].own = "closed"]
           /\ g_socket_fd' = 0
           /\ Goto(p, Ensured(p, 0))
  <2>1. ConnsTyped' /\ Len(conns') = Len(conns) /\ OneSocket' BY <1>3, <1>5, CloseConn
  <2>2. /\ Ensured(p, 0) \in Critical
        /\ Ensured(p, 0) \in {"firstConnect", "connect", "send"} => g_socket_fd' # 0
    BY <1>1, EnsuredPlace
  <2> QED BY <1>1, <1>2, <1>3, <1>5, <2>1, <2>2, HolderStep
<1> QED BY <1>4, <1>5 DEF Connect

\* The send, whole, short, swallowed or failing.
LEMMA SendStep ==
  ASSUME FeedInv, NEW p \in Publishers, Send(p)
  PROVE  FeedInv'
<1> DEFINE line == Line(message[p])
           peer == conns[g_socket_fd].peer
<1>1. /\ pc[p] = "send"
      /\ UNCHANGED <<g_initialized, g_socket_mutex, message, calls, receiverVars>>
  BY DEF Send
<1>2. pc[p] \in Critical /\ "unlock" \in Critical BY <1>1 DEF Critical, PublisherStates
<1>3. /\ ConnsTyped /\ OneSocket /\ g_socket_fd \in 0..Len(conns)
      /\ g_socket_fd \in 1..Len(conns) /\ sent \in Seq(Seq(Units))
  BY <1>1 DEF FeedInv, TypeOK, ConnsTyped, Protected, HasSocket
<1>4. line \in Seq(Units) /\ Len(line) \in Nat \ {0}
  <2>1. message[p].id \in 1..MaxPublishes BY <1>1 DEF FeedInv, Numbered
  <2>2. message[p].size \in Nat
    <3>1. message[p] \in [id : 0..MaxPublishes, size : Sizes \cup {0}] BY DEF FeedInv, TypeOK
    <3>2. Sizes \cup {0} \subseteq Nat BY FeedAssumption
    <3> QED BY <3>1, <3>2
  <2> QED BY <2>1, <2>2, LineTyped
<1> HIDE DEF line
<1>5. /\ conns[g_socket_fd] \in ConnType
      /\ conns[g_socket_fd].buffer \in Seq(Units)
      /\ Len(conns[g_socket_fd].buffer) <= Capacity
      /\ peer \in {"none", "queued", "accepted", "closed", "reset"}
  BY <1>3, ConnFields
<1>6. Append(sent, line) \in Seq(Seq(Units)) BY <1>3, <1>4
<1>7. ASSUME NEW n \in Taken(line, g_socket_fd) \ {0}, Put(line, g_socket_fd, n),
             Goto(p, AfterSend(line, n)), sent' = Append(sent, SubSeq(line, 1, n)),
             UNCHANGED g_socket_fd
      PROVE  FeedInv'
  <2> DEFINE old == conns[g_socket_fd].buffer
             buffer == old \o SubSeq(line, 1, n)
  <2>1. /\ old \in Seq(Units) /\ Len(old) \in Nat /\ Len(old) <= Capacity
        /\ Capacity \in Nat /\ Len(line) \in Nat
    BY <1>4, <1>5, FeedAssumption
  <2>2. n \in 1..Len(line) /\ n <= Capacity - Len(old)
    BY <2>1, <1>7 DEF Taken
  <2> HIDE DEF old
  <2>3. SubSeq(line, 1, n) \in Seq(Units) /\ Len(SubSeq(line, 1, n)) = n BY <1>4, <2>2
  <2>4. buffer \in Seq(Units) /\ Len(buffer) <= Capacity BY <2>1, <2>2, <2>3
  <2>5. conns' = [conns EXCEPT ![g_socket_fd] =
                    [conns[g_socket_fd] EXCEPT !.peer = peer, !.buffer = buffer]]
    BY <1>3, <1>5, <1>7 DEF Put, ConnType, old
  <2> HIDE DEF buffer, peer
  <2>6. ConnsTyped' /\ Len(conns') = Len(conns) /\ OneSocket'
    BY <1>3, <1>5, <1>7, <2>4, <2>5, PeerConn
  <2>7. Goto(p, "unlock") BY <1>7 DEF AfterSend
  <2>8. sent' \in Seq(Seq(Units)) BY <1>3, <1>7, <2>3
  <2> QED BY <1>1, <1>2, <1>3, <1>7, <2>6, <2>7, <2>8, HolderStep
<1>8. ASSUME conns' = [conns EXCEPT ![g_socket_fd].peer = "reset"],
             sent' = Append(sent, line), Goto(p, "unlock"), UNCHANGED g_socket_fd
      PROVE  FeedInv'
  <2> DEFINE buffer == conns[g_socket_fd].buffer
  <2>1. buffer \in Seq(Units) /\ Len(buffer) <= Capacity BY <1>5
  <2>2. conns' = [conns EXCEPT ![g_socket_fd] =
                    [conns[g_socket_fd] EXCEPT !.peer = "reset", !.buffer = buffer]]
    BY <1>3, <1>5, <1>8 DEF ConnType
  <2> HIDE DEF buffer
  <2>3. ConnsTyped' /\ Len(conns') = Len(conns) /\ OneSocket'
    BY <1>3, <1>8, <2>1, <2>2, PeerConn
  <2> QED BY <1>1, <1>2, <1>3, <1>6, <1>8, <2>3, HolderStep
<1>9. ASSUME SendFails(g_socket_fd), Goto(p, "unlock")
      PROVE  FeedInv'
  <2>1. /\ conns' = [conns EXCEPT ![g_socket_fd].own = "closed"]
        /\ g_socket_fd' = 0 /\ sent' = sent
    BY <1>9 DEF SendFails
  <2>2. ConnsTyped' /\ Len(conns') = Len(conns) /\ OneSocket' BY <1>3, <2>1, CloseConn
  <2> QED BY <1>1, <1>2, <1>3, <1>9, <2>1, <2>2, HolderStep
<1> QED BY <1>7, <1>8, <1>9 DEF Send, line

\* Giving the mutex back.
LEMMA UnlockStep ==
  ASSUME FeedInv, NEW p \in Publishers, Unlock(p)
  PROVE  FeedInv'
<1> DEFINE state == IF pc[p] = "unlock" THEN "idle" ELSE Proceed(message[p])
<1>1. state \in PublisherStates \ Critical BY DEF Proceed, PublisherStates, Critical
<1>2. /\ Goto(p, state) /\ pc[p] \in {"firstUnlock", "unlock"}
      /\ g_socket_mutex' = NoThread
      /\ UNCHANGED <<g_initialized, g_socket_fd, message, calls, conns, receiverVars, sent>>
  BY DEF Unlock
<1> HIDE DEF state
<1>3. pc' = [pc EXCEPT ![p] = state] /\ pc \in [Publishers -> PublisherStates]
  BY <1>2 DEF FeedInv, TypeOK, Goto
<1>4. pc[p] \in Critical BY <1>2 DEF Critical, PublisherStates
<1>5. \A q \in Publishers : q # p => pc[q] \notin Critical
  BY <1>4 DEF FeedInv, Protected, HoldsMutex
<1>6. \A q \in Publishers : pc'[q] \notin Critical BY <1>1, <1>3, <1>5
<1>7. {"firstConnect", "connect", "send"} \subseteq Critical BY DEF Critical, PublisherStates
<1>8. pc' \in [Publishers -> PublisherStates] /\ HoldsMutex' /\ HasSocket'
  BY <1>1, <1>3, <1>6, <1>7 DEF HoldsMutex, HasSocket
<1>9. TypeOK' BY <1>2, <1>8 DEF FeedInv, TypeOK, receiverVars
<1>10. Numbered' BY <1>2, StillNumbered
<1> QED BY <1>2, <1>8, <1>9, <1>10 DEF FeedInv, Protected, OneSocket

-----------------------------------------------------------------------------
(* Steps of the receiver. *)

\* A step of the receiver leaves the publishers alone.
LEMMA ReceiverStep ==
  ASSUME FeedInv, UNCHANGED feedVars,
         ConnsTyped', OneSocket', Len(conns') = Len(conns),
         current' \in 0..Len(conns), ReceiverTyped'
  PROVE  FeedInv'
<1>1. ThreadsTyped' BY DEF FeedInv, TypeOK, ThreadsTyped, feedVars
<1>2. EndsTyped' BY DEF FeedInv, TypeOK, EndsTyped, feedVars
<1>3. TypeOK' BY <1>1, <1>2 DEF TypeOK, ThreadsTyped, ConnsTyped, EndsTyped, ReceiverTyped
<1>4. Numbered' /\ HoldsMutex' /\ HasSocket'
  BY DEF FeedInv, Protected, Numbered, HoldsMutex, HasSocket, feedVars
<1> QED BY <1>3, <1>4 DEF FeedInv, Protected

\* The connection after Read: its first unit is gone.
LEMMA TailTyped ==
  ASSUME NEW buffer \in Seq(Units), buffer # <<>>, Len(buffer) <= Capacity
  PROVE  /\ Tail(buffer) \in Seq(Units) /\ Len(Tail(buffer)) <= Capacity
         /\ Head(buffer) \in Units
BY FeedAssumption

\* Accepting, reading, and coming to the end of a stream.
LEMMA ReceiveStep ==
  ASSUME FeedInv, Receive
  PROVE  FeedInv'
<1>1. /\ ConnsTyped /\ OneSocket /\ ReceiverTyped /\ Len(conns) \in Nat
      /\ g_socket_fd \in 0..Len(conns) /\ current \in 0..Len(conns)
  BY DEF FeedInv, TypeOK, ConnsTyped, Protected, ReceiverTyped
<1>2. CASE Accept
  <2>1. PICK c \in Queued :
          /\ conns' = [conns EXCEPT ![c].peer = "accepted"]
          /\ current' = c
    BY <1>2 DEF Accept
  <2>2. c \in 1..Len(conns) BY DEF Queued
  <2> DEFINE buffer == conns[c].buffer
  <2>3. buffer \in Seq(Units) /\ Len(buffer) <= Capacity BY <1>1, <2>2, ConnFields
  <2>4. conns' = [conns EXCEPT ![c] = [conns[c] EXCEPT !.peer = "accepted", !.buffer = buffer]]
    BY <1>1, <2>1, <2>2, ConnFields DEF ConnType
  <2>5. UNCHANGED <<feedVars, up, partial, received, stops, sent>> BY <1>2 DEF Accept
  <2> HIDE DEF buffer
  <2>6. ConnsTyped' /\ Len(conns') = Len(conns) /\ OneSocket'
    BY <1>1, <2>2, <2>3, <2>4, <2>5, PeerConn DEF feedVars
  <2>7. ReceiverTyped' BY <1>1, <2>5 DEF ReceiverTyped
  <2> QED BY <2>1, <2>2, <2>5, <2>6, <2>7, ReceiverStep
<1>3. CASE Read
  <2> DEFINE peer == conns[current].peer
             buffer == Tail(conns[current].buffer)
             unit == Head(conns[current].buffer)
  <2>1. /\ current \in 1..Len(conns) /\ conns[current].buffer # <<>>
        /\ conns' = [conns EXCEPT ![current].buffer = Tail(@)]
        /\ UNCHANGED <<feedVars, up, current, stops, sent>>
        /\ IF unit[2] = 0
             THEN /\ partial' = <<>>
                  /\ received' = IF partial = <<>> THEN received ELSE Append(received, partial)
             ELSE partial' = Append(partial, unit) /\ UNCHANGED received
    BY <1>1, <1>3 DEF Read
  <2>2. /\ conns[current] \in ConnType /\ conns[current].buffer \in Seq(Units)
        /\ Len(conns[current].buffer) <= Capacity
        /\ peer \in {"none", "queued", "accepted", "closed", "reset"}
    BY <1>1, <2>1, ConnFields
  <2>3. buffer \in Seq(Units) /\ Len(buffer) <= Capacity /\ unit \in Units
    BY <2>1, <2>2, TailTyped
  <2>4. conns' = [conns EXCEPT ![current] =
                    [conns[current] EXCEPT !.peer = peer, !.buffer = buffer]]
    BY <1>1, <2>1, <2>2 DEF ConnType
  <2> HIDE DEF peer, buffer, unit
  <2>5. ConnsTyped' /\ Len(conns') = Len(conns) /\ OneSocket'
    BY <1>1, <2>1, <2>2, <2>3, <2>4, PeerConn DEF feedVars
  <2>6. partial \in Seq(Units) /\ received \in Seq(Seq(Units)) BY <1>1 DEF ReceiverTyped
  <2>7. partial' \in Seq(Units) /\ received' \in Seq(Seq(Units))
    <3>1. CASE unit[2] = 0
      <4>1. partial' = <<>> /\ (received' = received \/ received' = Append(received, partial))
        BY <2>1, <3>1
      <4> QED BY <2>6, <4>1
    <3>2. CASE unit[2] # 0
      <4>1. partial' = Append(partial, unit) /\ received' = received BY <2>1, <3>2
      <4> QED BY <2>3, <2>6, <4>1
    <3> QED BY <3>1, <3>2
  <2>8. ReceiverTyped' BY <1>1, <2>1, <2>7 DEF ReceiverTyped
  <2> QED BY <1>1, <2>1, <2>5, <2>8, ReceiverStep
<1>4. CASE EndOfStream
  <2> DEFINE buffer == conns[current].buffer
  <2>1. /\ current \in 1..Len(conns)
        /\ conns' = [conns EXCEPT ![current].peer = "closed"]
        /\ current' = 0 /\ partial' = <<>>
        /\ received' = IF partial = <<>> THEN received ELSE Append(received, partial)
        /\ UNCHANGED <<feedVars, up, stops, sent>>
    BY <1>1, <1>4 DEF EndOfStream
  <2>2. buffer \in Seq(Units) /\ Len(buffer) <= Capacity BY <1>1, <2>1, ConnFields
  <2>3. conns' = [conns EXCEPT ![current] =
                    [conns[current] EXCEPT !.peer = "closed", !.buffer = buffer]]
    BY <1>1, <2>1, ConnFields DEF ConnType
  <2> HIDE DEF buffer
  <2>4. ConnsTyped' /\ Len(conns') = Len(conns) /\ OneSocket'
    BY <1>1, <2>1, <2>2, <2>3, PeerConn DEF feedVars
  <2>5. partial' \in Seq(Units) /\ received' \in Seq(Seq(Units))
    BY <1>1, <2>1 DEF ReceiverTyped
  <2>6. ReceiverTyped' BY <1>1, <2>1, <2>5 DEF ReceiverTyped
  <2> QED BY <1>1, <2>1, <2>4, <2>6, ReceiverStep
<1> QED BY <1>2, <1>3, <1>4 DEF Receive

\* The receiver stops: no end of the payload's changes.
LEMMA StopStep ==
  ASSUME FeedInv, StopReceiver
  PROVE  FeedInv'
<1>1. /\ ConnsTyped /\ OneSocket /\ ReceiverTyped /\ Len(conns) \in Nat
      /\ g_socket_fd \in 0..Len(conns)
  BY DEF FeedInv, TypeOK, ConnsTyped, Protected, ReceiverTyped
<1> DEFINE after(c) ==
      IF conns[c].peer = "queued" \/ c = current
        THEN [conns[c] EXCEPT
               !.peer = IF @ = "queued" \/ conns[c].buffer # <<>> THEN "reset" ELSE "closed",
               !.buffer = <<>>]
        ELSE conns[c]
<1>2. conns' = [c \in 1..Len(conns) |-> after(c)] BY DEF StopReceiver
<1>3. \A c \in 1..Len(conns) :
        after(c) \in ConnType /\ after(c).own = conns[c].own
        /\ Len(after(c).buffer) <= Capacity
  <2> SUFFICES ASSUME NEW c \in 1..Len(conns)
               PROVE  after(c) \in ConnType /\ after(c).own = conns[c].own
                      /\ Len(after(c).buffer) <= Capacity
    OBVIOUS
  <2>1. conns[c] \in ConnType /\ Len(conns[c].buffer) <= Capacity BY <1>1, ConnFields
  <2>2. Len(<<>>) <= Capacity /\ <<>> \in Seq(Units) BY FeedAssumption
  <2> QED BY <2>1, <2>2 DEF ConnType
<1> HIDE DEF after
<1>4. /\ conns' \in Seq(ConnType) /\ Len(conns') = Len(conns)
      /\ \A c \in 1..Len(conns) : conns'[c] = after(c)
  BY <1>1, <1>2, <1>3
<1>5. ConnsTyped' BY <1>1, <1>3, <1>4 DEF ConnsTyped
<1>6. UNCHANGED feedVars /\ current' = 0 BY DEF StopReceiver
<1>7. OneSocket' BY <1>1, <1>3, <1>4, <1>6 DEF OneSocket, feedVars
<1>8. ReceiverTyped'
  <2>1. /\ stops < MaxStops /\ stops' = stops + 1 /\ up' = FALSE /\ partial' = <<>>
        /\ received' = received /\ sent' = sent
    BY DEF StopReceiver
  <2>2. stops' \in 0..MaxStops BY <1>1, <2>1, FeedAssumption DEF ReceiverTyped
  <2>3. partial' \in Seq(Units) BY <2>1
  <2> QED BY <1>1, <2>1, <2>2, <2>3 DEF ReceiverTyped
<1> QED BY <1>1, <1>4, <1>5, <1>6, <1>7, <1>8, ReceiverStep

-----------------------------------------------------------------------------
\* The invariant holds in every reachable state.
THEOREM Invariant == Spec => []FeedInv
<1>1. Init => FeedInv
  <2> SUFFICES ASSUME Init PROVE FeedInv
    OBVIOUS
  <2>1. conns = <<>> /\ Len(conns) = 0 /\ g_socket_fd = 0 /\ current = 0 BY DEF Init
  <2>2. ConnsTyped /\ EndsTyped BY <2>1, FeedAssumption DEF ConnsTyped, EndsTyped
  <2>3. ThreadsTyped
    <3>1. calls \in 0..MaxPublishes BY FeedAssumption DEF Init
    <3>2. pc \in [Publishers -> PublisherStates] BY DEF Init, PublisherStates
    <3>3. message \in [Publishers -> [id : 0..MaxPublishes, size : Sizes \cup {0}]]
      BY FeedAssumption DEF Init
    <3> QED BY <3>1, <3>2, <3>3 DEF Init, ThreadsTyped
  <2>4. ReceiverTyped BY FeedAssumption DEF Init, ReceiverTyped
  <2>5. Numbered /\ HoldsMutex /\ HasSocket
    BY DEF Init, Numbered, HoldsMutex, HasSocket, Critical
  <2>6. OneSocket BY <2>1 DEF OneSocket
  <2> QED BY <2>2, <2>3, <2>4, <2>5, <2>6, TypeParts DEF FeedInv, Protected
<1>2. FeedInv /\ [Next]_vars => FeedInv'
  <2> SUFFICES ASSUME FeedInv, [Next]_vars PROVE FeedInv'
    OBVIOUS
  <2>1. ASSUME NEW p \in Publishers, PublisherStep(p) PROVE FeedInv'
    BY <2>1, InitializeStep, LockStep, EnsureStep, ConnectStep, SendStep, UnlockStep
    DEF PublisherStep
  <2>2. CASE StartReceiver
    <3>1. UNCHANGED <<feedVars, conns, current, partial, received, stops, sent>> /\ up' = TRUE
      BY <2>2 DEF StartReceiver
    <3>2. ConnsTyped' /\ OneSocket' /\ ReceiverTyped' /\ current' \in 0..Len(conns)
      BY <3>1
      DEF FeedInv, TypeOK, Protected, ConnsTyped, OneSocket, ReceiverTyped, feedVars
    <3> QED BY <3>1, <3>2, ReceiverStep
  <2>3. CASE UNCHANGED vars
    BY <2>3
    DEF vars, feedVars, receiverVars, FeedInv, TypeOK, Numbered, Protected, HoldsMutex,
        HasSocket, OneSocket
  <2> QED BY <2>1, <2>2, <2>3, PublishStep, ReceiveStep, StopStep DEF Next
<1> QED BY <1>1, <1>2, PTL DEF Spec

\* Every variable keeps its type: no buffer grows beyond its capacity, nothing
\* but units of published messages is in it.
THEOREM TypeCorrect == Spec => []TypeOK
BY Invariant, PTL DEF FeedInv

\* One thread at a time is in a critical section, and the current socket is the
\* only one that is open.
THEOREM NoLeak == Spec => []NoLeakedSocket
<1>1. FeedInv => NoLeakedSocket
  BY DEF FeedInv, Protected, HoldsMutex, OneSocket, NoLeakedSocket
<1> QED BY <1>1, Invariant, PTL
-----------------------------------------------------------------------------
(* The order of the feed.  What a connection holds is a sequence of whole   *)
(* sends, of which the receiver may have read the beginning.                *)

\* What is sent of a message: its units from the first on, the newline only as
\* the last of them and never alone.
SendGood(line) ==
  /\ line # <<>>
  /\ \A k \in 1..Len(line) :
       /\ line[k][1] = line[1][1]
       /\ line[k][2] = k \/ (k = Len(line) /\ k > 1 /\ line[k][2] = 0)

\* A message is sent once.
SentGood ==
  /\ \A s \in 1..Len(sent) : SendGood(sent[s]) /\ sent[s][1][1] \in 1..calls
  /\ \A r, s \in 1..Len(sent) : sent[r][1][1] = sent[s][1][1] => r = s

Ids == {sent[s][1][1] : s \in 1..Len(sent)}

\* A thread that has still to send has a message of its own, which is not empty
\* once Publish has looked.
Unsent(p) == pc[p] \notin {"idle", "unlock"}
MessagesGood ==
  \A p \in Publishers : Unsent(p) =>
    /\ message[p].id \in 1..calls /\ message[p].id \notin Ids
    /\ pc[p] \in {"lock", "ensure", "connect", "send"} => message[p].size # 0
    /\ \A q \in Publishers : Unsent(q) /\ message[q].id = message[p].id => q = p

\* Connections are read in the order in which they were made, and the payload
\* sends on the last of them.
EndsGood ==
  \A c \in 1..Len(conns) :
    /\ conns[c].peer \notin {"queued", "accepted"} => conns[c].buffer = <<>>
    /\ conns[c].peer = "accepted" <=> c = current
    /\ conns[c].peer = "queued" => current < c
Newest == g_socket_fd # 0 => g_socket_fd = Len(conns)
NotReading == current = 0 => partial = <<>>
Connecting ==
  \A p \in Publishers : pc[p] \in {"firstConnect", "connect"} => conns[g_socket_fd].peer = "none"
ConnsGood == EndsGood /\ Newest /\ NotReading /\ Connecting

\* Where a unit stands: in which send, and where in it.
SendOf(u) == SentAt(u[1])
PlaceOf(u) == IF u[2] = 0 THEN Len(sent[SendOf(u)]) ELSE u[2]
WasSent(u) ==
  /\ u[1] \in Ids
  /\ PlaceOf(u) \in 1..Len(sent[SendOf(u)])
  /\ sent[SendOf(u)][PlaceOf(u)] = u
EndsSend(u) == PlaceOf(u) = Len(sent[SendOf(u)])

\* Neighbours on a connection: in one send, or the last of one and the first of
\* a later one.
Chained(x, y) ==
  \/ SendOf(y) = SendOf(x) /\ PlaceOf(y) = PlaceOf(x) + 1
  \/ SendOf(x) < SendOf(y) /\ EndsSend(x) /\ PlaceOf(y) = 1

\* What a connection holds of lines not yet complete at the receiver: sends, one
\* after the other, each from its first unit to its last.
Streams ==
  [c \in 1..Len(conns) |-> (IF c = current THEN partial ELSE <<>>) \o conns[c].buffer]
StreamGood(q) ==
  /\ \A i \in 1..Len(q) : WasSent(q[i])
  /\ \A i \in 1..(Len(q) - 1) : Chained(q[i], q[i + 1])
  /\ \A i, j \in 1..Len(q) : i < j => SendOf(q[i]) <= SendOf(q[j])
  /\ q # <<>> => PlaceOf(q[1]) = 1 /\ EndsSend(q[Len(q)])

\* All units of x were sent before those of y.
Before(x, y) == \A i \in 1..Len(x), j \in 1..Len(y) : SendOf(x[i]) < SendOf(y[j])

FlightGood ==
  /\ \A c \in 1..Len(conns) : StreamGood(Streams[c])
  /\ \A c, d \in 1..Len(conns) : c < d => Before(Streams[c], Streams[d])

\* What has been read was sent before what is still to be read.
LinesSent ==
  \A i \in 1..Len(received) :
    received[i] # <<>> /\ \A k \in 1..Len(received[i]) : received[i][k][1] \in Ids
ReadBefore ==
  received # <<>> => \A c \in 1..Len(conns) : Before(received[Len(received)], Streams[c])
NoNewlines == \A k \in 1..Len(partial) : partial[k][2] # 0
ReceivedGood == LinesSent /\ ReadBefore /\ NoNewlines

\* While every send has been whole, the unfinished line is the beginning of one
\* message.
PartialWhole ==
  AllWhole => \A k \in 1..Len(partial) : partial[k] = <<partial[1][1], k>>

Flow == FlightGood /\ ReceivedGood /\ UnitsInOrder /\ PartialWhole
OrderInv == SentGood /\ MessagesGood /\ ConnsGood /\ Flow

-----------------------------------------------------------------------------
(* Where units stand in what was sent.                                      *)

LEMMA SentAtPlace ==
  ASSUME SentGood, NEW s \in 1..Len(sent)
  PROVE  SentAt(sent[s][1][1]) = s
BY DEF SentAt, SentGood

LEMMA SentAtId ==
  ASSUME SentGood, NEW id \in Ids
  PROVE  SentAt(id) \in 1..Len(sent) /\ sent[SentAt(id)][1][1] = id
BY DEF SentAt, SentGood, Ids

\* A unit of a send stands where it is.
LEMMA UnitOfSend ==
  ASSUME ReceiverTyped, SentGood, NEW s \in 1..Len(sent), NEW k \in 1..Len(sent[s])
  PROVE  SendOf(sent[s][k]) = s /\ PlaceOf(sent[s][k]) = k /\ WasSent(sent[s][k])
<1>1. SendGood(sent[s]) /\ sent[s][1][1] \in Ids BY DEF SentGood, Ids
<1>2. sent[s][k][1] = sent[s][1][1] BY <1>1 DEF SendGood
<1>3. SendOf(sent[s][k]) = s BY <1>2, SentAtPlace DEF SendOf
<1>4. PlaceOf(sent[s][k]) = k BY <1>1, <1>3 DEF PlaceOf, SendGood
<1> QED BY <1>1, <1>2, <1>3, <1>4 DEF WasSent

LEMMA SentUnit ==
  ASSUME ReceiverTyped, SentGood, NEW u, WasSent(u)
  PROVE  /\ SendOf(u) \in 1..Len(sent) /\ sent[SendOf(u)][1][1] = u[1]
         /\ Len(sent) \in Nat /\ Len(sent[SendOf(u)]) \in Nat
         /\ PlaceOf(u) \in 1..Len(sent[SendOf(u)])
         /\ u[2] = 0 => EndsSend(u) /\ PlaceOf(u) > 1
<1>1. SendOf(u) \in 1..Len(sent) /\ sent[SendOf(u)][1][1] = u[1]
  BY SentAtId DEF SendOf, WasSent
<1>2. SendGood(sent[SendOf(u)]) BY <1>1 DEF SentGood
<1>3. sent \in Seq(Seq(Units)) /\ sent[SendOf(u)] \in Seq(Units) BY <1>1 DEF ReceiverTyped
<1>4. PlaceOf(u) \in 1..Len(sent[SendOf(u)]) /\ sent[SendOf(u)][PlaceOf(u)] = u BY DEF WasSent
<1>5. u[2] = 0 => PlaceOf(u) = Len(sent[SendOf(u)]) /\ PlaceOf(u) > 1
  BY <1>2, <1>3, <1>4 DEF SendGood, PlaceOf
<1> QED BY <1>1, <1>3, <1>4, <1>5 DEF EndsSend

\* Neighbours on a connection that are both of lines may follow each other.
LEMMA ChainedFollows ==
  ASSUME ReceiverTyped, SentGood, NEW x, NEW y, WasSent(x), WasSent(y), Chained(x, y),
         x[2] # 0, y[2] # 0
  PROVE  Follows(x, y)
<1>1. PlaceOf(x) = x[2] /\ PlaceOf(y) = y[2] BY DEF PlaceOf
<1>2. sent[SendOf(x)][1][1] = x[1] /\ sent[SendOf(y)][1][1] = y[1] BY SentUnit
<1> QED BY <1>1, <1>2 DEF Chained, Follows, SendOf

\* Behind a newline a later send begins, and before one is its own send.
LEMMA AroundNewline ==
  ASSUME ReceiverTyped, SentGood, NEW x, NEW y, WasSent(x), WasSent(y), Chained(x, y)
  PROVE  /\ x[2] = 0 => SendOf(x) < SendOf(y) /\ PlaceOf(y) = 1
         /\ y[2] = 0 => SendOf(x) = SendOf(y) /\ PlaceOf(y) = PlaceOf(x) + 1
         /\ EndsSend(x) => SendOf(x) < SendOf(y) /\ PlaceOf(y) = 1
BY SentUnit DEF Chained, EndsSend

\* A send of a message that was not sent before adds to the history.
LEMMA SentGrows ==
  ASSUME ReceiverTyped, SentGood, NEW part \in Seq(Units), SendGood(part),
         part[1][1] \in 1..calls, part[1][1] \notin Ids, calls' = calls,
         sent' = Append(sent, part)
  PROVE  /\ SentGood'
         /\ Len(sent') = Len(sent) + 1 /\ sent'[Len(sent) + 1] = part
         /\ \A s \in 1..Len(sent) : sent'[s] = sent[s]
         /\ Ids' = Ids \cup {part[1][1]}
         /\ \A id \in Ids : SentAt(id)' = SentAt(id)
         /\ SentAt(part[1][1])' = Len(sent) + 1
<1>1. /\ sent \in Seq(Seq(Units)) /\ Len(sent) \in Nat /\ sent' \in Seq(Seq(Units))
      /\ Len(sent') = Len(sent) + 1 /\ sent'[Len(sent) + 1] = part
      /\ \A s \in 1..Len(sent) : sent'[s] = sent[s]
  BY DEF ReceiverTyped
<1>2. SentGood'
  BY <1>1 DEF SentGood, SendGood, Ids
<1>3. Ids' = Ids \cup {part[1][1]}
  <2>1. 1..Len(sent') = 1..Len(sent) \cup {Len(sent) + 1} BY <1>1
  <2>2. \A id : id \in Ids' <=> \E s \in 1..Len(sent) \cup {Len(sent) + 1} : id = sent'[s][1][1]
    BY <2>1 DEF Ids
  <2>3. \A id : id \in Ids' <=> id \in Ids \/ id = part[1][1]
    BY <1>1, <2>2 DEF Ids
  <2> QED BY <2>3
<1>4. ASSUME NEW id \in Ids PROVE SentAt(id)' = SentAt(id)
  <2>1. SentAt(id) \in 1..Len(sent) /\ sent[SentAt(id)][1][1] = id BY <1>4, SentAtId
  <2>2. SentAt(id) \in 1..Len(sent') /\ sent'[SentAt(id)][1][1] = id BY <1>1, <2>1
  <2>3. \A r, s \in 1..Len(sent') : sent'[r][1][1] = sent'[s][1][1] => r = s
    BY <1>2 DEF SentGood
  <2> QED BY <2>2, <2>3 DEF SentAt
<1>5. SentAt(part[1][1])' = Len(sent) + 1
  <2>1. \A r, s \in 1..Len(sent') : sent'[r][1][1] = sent'[s][1][1] => r = s
    BY <1>2 DEF SentGood
  <2> QED BY <1>1, <2>1 DEF SentAt
<1> QED BY <1>1, <1>2, <1>3, <1>4, <1>5

\* What was sent stays where it stands when another message is sent.
LEMMA UnitStays ==
  ASSUME ReceiverTyped, SentGood, NEW part \in Seq(Units), SendGood(part),
         part[1][1] \in 1..calls, part[1][1] \notin Ids, calls' = calls,
         sent' = Append(sent, part), NEW u, WasSent(u)
  PROVE  /\ SendOf(u)' = SendOf(u) /\ PlaceOf(u)' = PlaceOf(u) /\ WasSent(u)'
         /\ EndsSend(u)' <=> EndsSend(u)
<1>1. u[1] \in Ids /\ SendOf(u) \in 1..Len(sent) BY SentUnit DEF WasSent
<1>2. SendOf(u)' = SendOf(u) BY <1>1, SentGrows DEF SendOf
<1>3. sent'[SendOf(u)] = sent[SendOf(u)] BY <1>1, SentGrows
<1>4. PlaceOf(u)' = PlaceOf(u) BY <1>2, <1>3 DEF PlaceOf
<1>5. u[1] \in Ids' BY <1>1, SentGrows
<1> QED BY <1>2, <1>3, <1>4, <1>5 DEF WasSent, EndsSend

-----------------------------------------------------------------------------
(* Streams.                                                                 *)

LEMMA EmptyStream == StreamGood(<<>>)
BY DEF StreamGood

\* What follows a newline is again a stream, of later sends.
LEMMA StreamDrop ==
  ASSUME ReceiverTyped, SentGood, NEW q \in Seq(Units), StreamGood(q),
         NEW k \in 1..Len(q), q[k][2] = 0,
         NEW rest \in Seq(Units), Len(rest) = Len(q) - k,
         \A i \in 1..Len(rest) : rest[i] = q[i + k]
  PROVE  /\ StreamGood(rest)
         /\ \A h \in 1..k, i \in 1..Len(rest) : SendOf(q[h]) < SendOf(rest[i])
<1>1. Len(q) \in Nat /\ Len(rest) \in Nat /\ \A i \in 1..Len(rest) : i + k \in 1..Len(q)
  OBVIOUS
<1>2. \A i \in 1..Len(q) : WasSent(q[i]) /\ SendOf(q[i]) \in Nat
  BY SentUnit DEF StreamGood
<1>3. ASSUME rest # <<>>
      PROVE  /\ SendOf(q[k]) < SendOf(rest[1]) /\ PlaceOf(rest[1]) = 1
             /\ rest[Len(rest)] = q[Len(q)] /\ q # <<>>
  <2>1. k \in 1..(Len(q) - 1) /\ rest[1] = q[k + 1] /\ rest[Len(rest)] = q[Len(q)] /\ q # <<>>
    BY <1>1, <1>3
  <2>2. Chained(q[k], q[k + 1]) BY <2>1 DEF StreamGood
  <2> QED BY <1>2, <2>1, <2>2, AroundNewline
<1>4. \A h \in 1..k, i \in 1..Len(rest) : SendOf(q[h]) < SendOf(rest[i])
  <2> SUFFICES ASSUME NEW h \in 1..k, NEW i \in 1..Len(rest) PROVE SendOf(q[h]) < SendOf(rest[i])
    OBVIOUS
  <2>1. rest # <<>> /\ 1 \in 1..Len(rest) /\ h \in 1..Len(q) /\ k + 1 \in 1..Len(q) BY <1>1
  <2>2. SendOf(q[h]) <= SendOf(q[k]) BY <1>2, <2>1 DEF StreamGood
  <2>3. SendOf(q[k + 1]) <= SendOf(q[i + k]) BY <1>1, <1>2, <2>1 DEF StreamGood
  <2>4. rest[1] = q[k + 1] /\ rest[i] = q[i + k] BY <1>1, <2>1
  <2>5. SendOf(q[h]) \in Nat /\ SendOf(q[k]) \in Nat
    BY <1>2, <2>1
  <2>6. SendOf(rest[1]) \in Nat /\ SendOf(rest[i]) \in Nat
    BY <1>1, <1>2, <2>1, <2>4
  <2>7. SendOf(rest[1]) <= SendOf(rest[i]) BY <2>3, <2>4
  <2> QED BY <1>3, <2>1, <2>2, <2>5, <2>6, <2>7
<1>5. StreamGood(rest)
  <2>1. \A i \in 1..Len(rest) : WasSent(rest[i]) BY <1>1, <1>2
  <2>2. \A i \in 1..(Len(rest) - 1) : Chained(rest[i], rest[i + 1])
    <3> SUFFICES ASSUME NEW i \in 1..(Len(rest) - 1) PROVE Chained(rest[i], rest[i + 1])
      OBVIOUS
    <3>1. rest[i] = q[i + k] /\ rest[i + 1] = q[(i + k) + 1] /\ i + k \in 1..(Len(q) - 1)
      BY <1>1
    <3> QED BY <3>1 DEF StreamGood
  <2>3. \A i, j \in 1..Len(rest) : i < j => SendOf(rest[i]) <= SendOf(rest[j])
    BY <1>1 DEF StreamGood
  <2>4. rest # <<>> => PlaceOf(rest[1]) = 1 /\ EndsSend(rest[Len(rest)])
    BY <1>3 DEF StreamGood
  <2> QED BY <2>1, <2>2, <2>3, <2>4 DEF StreamGood
<1> QED BY <1>4, <1>5

\* A stream stays one when a message is sent, and when that is sent on it.
LEMMA StreamSend ==
  ASSUME ReceiverTyped, ReceiverTyped', SentGood, NEW part \in Seq(Units), SendGood(part),
         part[1][1] \in 1..calls, part[1][1] \notin Ids, calls' = calls,
         sent' = Append(sent, part), NEW q \in Seq(Units), StreamGood(q)
  PROVE  /\ StreamGood(q)' /\ StreamGood(q \o part)'
         /\ \A k \in 1..Len(part) : SendOf(part[k])' = Len(sent) + 1
         /\ \A i \in 1..Len(q) : SendOf(q[i])' = SendOf(q[i]) /\ SendOf(q[i]) \in 1..Len(sent)
<1>1. /\ SentGood' /\ Len(sent') = Len(sent) + 1 /\ sent'[Len(sent) + 1] = part
      /\ \A s \in 1..Len(sent) : sent'[s] = sent[s]
  BY SentGrows
<1>2. Len(sent) \in Nat /\ Len(q) \in Nat /\ Len(part) \in Nat \ {0}
  BY DEF ReceiverTyped, SendGood
<1>3. \A i \in 1..Len(q) :
        /\ WasSent(q[i]) /\ SendOf(q[i]) \in 1..Len(sent)
        /\ SendOf(q[i])' = SendOf(q[i]) /\ PlaceOf(q[i])' = PlaceOf(q[i]) /\ WasSent(q[i])'
        /\ EndsSend(q[i])' <=> EndsSend(q[i])
  <2> SUFFICES ASSUME NEW i \in 1..Len(q)
               PROVE  /\ WasSent(q[i]) /\ SendOf(q[i]) \in 1..Len(sent)
                      /\ SendOf(q[i])' = SendOf(q[i]) /\ PlaceOf(q[i])' = PlaceOf(q[i])
                      /\ WasSent(q[i])'
                      /\ EndsSend(q[i])' <=> EndsSend(q[i])
    OBVIOUS
  <2>1. WasSent(q[i]) BY DEF StreamGood
  <2> QED BY <2>1, SentUnit, UnitStays
<1>4. \A k \in 1..Len(part) :
        SendOf(part[k])' = Len(sent) + 1 /\ PlaceOf(part[k])' = k /\ WasSent(part[k])'
  <2> SUFFICES ASSUME NEW k \in 1..Len(part)
               PROVE  /\ SendOf(part[k])' = Len(sent) + 1 /\ PlaceOf(part[k])' = k
                      /\ WasSent(part[k])'
    OBVIOUS
  <2>1. SentAt(part[1][1])' = Len(sent) + 1 /\ part[1][1] \in Ids' BY SentGrows
  <2>2. part[k][1] = part[1][1] /\ (part[k][2] = k \/ (k = Len(part) /\ part[k][2] = 0))
    BY DEF SendGood
  <2>3. SendOf(part[k])' = Len(sent) + 1 BY <2>1, <2>2 DEF SendOf
  <2>4. PlaceOf(part[k])' = k BY <1>1, <1>2, <2>2, <2>3 DEF PlaceOf
  <2> QED BY <1>1, <2>1, <2>2, <2>3, <2>4 DEF WasSent
<1>5. StreamGood(q)'
  <2>1. \A i \in 1..(Len(q) - 1) : Chained(q[i], q[i + 1])'
    <3> SUFFICES ASSUME NEW i \in 1..(Len(q) - 1) PROVE Chained(q[i], q[i + 1])'
      OBVIOUS
    <3>1. i \in 1..Len(q) /\ i + 1 \in 1..Len(q) BY <1>2
    <3>2. Chained(q[i], q[i + 1]) BY DEF StreamGood
    <3> QED BY <1>3, <3>1, <3>2 DEF Chained
  <2>2. \A i, j \in 1..Len(q) : i < j => SendOf(q[i])' <= SendOf(q[j])'
    BY <1>3 DEF StreamGood
  <2>3. q # <<>> => PlaceOf(q[1])' = 1 /\ EndsSend(q[Len(q)])'
    <3>1. q # <<>> => 1 \in 1..Len(q) /\ Len(q) \in 1..Len(q) BY <1>2
    <3> QED BY <1>3, <3>1 DEF StreamGood
  <2> QED BY <1>3, <2>1, <2>2, <2>3 DEF StreamGood
<1>6. StreamGood(q \o part)'
  <2>0. PICK r : r = q \o part OBVIOUS
  <2>1. /\ r \in Seq(Units) /\ Len(r) = Len(q) + Len(part)
        /\ \A i \in 1..Len(q) : r[i] = q[i]
        /\ \A k \in 1..Len(part) : r[Len(q) + k] = part[k]
    BY <1>2, <2>0
  <2>2. \A i \in 1..Len(r) : i \in 1..Len(q) \/ \E k \in 1..Len(part) : i = Len(q) + k
    <3> SUFFICES ASSUME NEW i \in 1..Len(r), i \notin 1..Len(q)
                 PROVE  \E k \in 1..Len(part) : i = Len(q) + k
      OBVIOUS
    <3>1. PICK k : k = i - Len(q) OBVIOUS
    <3>2. k \in 1..Len(part) /\ i = Len(q) + k BY <1>2, <2>1, <3>1
    <3> QED BY <3>2
  <2>3. \A i \in 1..Len(r) :
          /\ WasSent(r[i])' /\ SendOf(r[i])' \in 1..(Len(sent) + 1)
          /\ i \notin 1..Len(q) => SendOf(r[i])' = Len(sent) + 1
    <3> SUFFICES ASSUME NEW i \in 1..Len(r)
                 PROVE  /\ WasSent(r[i])' /\ SendOf(r[i])' \in 1..(Len(sent) + 1)
                        /\ i \notin 1..Len(q) => SendOf(r[i])' = Len(sent) + 1
      OBVIOUS
    <3>1. CASE i \in 1..Len(q)
      <4>1. r[i] = q[i] BY <2>1, <3>1
      <4>2. WasSent(q[i])' /\ SendOf(q[i])' \in 1..(Len(sent) + 1) BY <1>2, <1>3, <3>1
      <4> QED BY <3>1, <4>1, <4>2
    <3>2. CASE i \notin 1..Len(q)
      <4>0. PICK k \in 1..Len(part) : i = Len(q) + k BY <2>2, <3>2
      <4>1. r[i] = part[k] BY <2>1, <4>0
      <4>2. WasSent(part[k])' /\ SendOf(part[k])' = Len(sent) + 1 BY <1>4
      <4>3. Len(sent) + 1 \in 1..(Len(sent) + 1) BY <1>2
      <4> QED BY <4>1, <4>2, <4>3
    <3> QED BY <3>1, <3>2
  <2>4. \A i, j \in 1..Len(r) : i < j => SendOf(r[i])' <= SendOf(r[j])'
    <3> SUFFICES ASSUME NEW i \in 1..Len(r), NEW j \in 1..Len(r), i < j
                 PROVE  SendOf(r[i])' <= SendOf(r[j])'
      OBVIOUS
    <3>1. CASE j \in 1..Len(q)
      <4>1. i \in 1..Len(q) BY <1>2, <3>1
      <4>2. SendOf(q[i])' <= SendOf(q[j])' BY <1>5, <3>1, <4>1 DEF StreamGood
      <4> QED BY <2>1, <3>1, <4>1, <4>2
    <3>2. CASE j \notin 1..Len(q)
      <4>1. SendOf(r[j])' = Len(sent) + 1 BY <2>3, <3>2
      <4>2. SendOf(r[i])' \in 1..(Len(sent) + 1) BY <2>3
      <4> QED BY <1>2, <4>1, <4>2
    <3> QED BY <3>1, <3>2
  <2>5. \A i \in 1..(Len(r) - 1) : Chained(r[i], r[i + 1])'
    <3> SUFFICES ASSUME NEW i \in 1..(Len(r) - 1) PROVE Chained(r[i], r[i + 1])'
      OBVIOUS
    <3>1. CASE i + 1 \in 1..Len(q)
      <4>1. i \in 1..(Len(q) - 1) /\ i \in 1..Len(q) BY <1>2, <3>1
      <4>2. Chained(q[i], q[i + 1])' BY <1>5, <4>1 DEF StreamGood
      <4> QED BY <2>1, <3>1, <4>1, <4>2
    <3>2. CASE i = Len(q)
      <4>1. r[i] = q[Len(q)] /\ r[i + 1] = part[1] /\ i \in 1..Len(q) /\ q # <<>>
            /\ 1 \in 1..Len(part)
        BY <1>2, <2>1, <3>2
      <4>2. EndsSend(q[Len(q)])' BY <1>5, <4>1 DEF StreamGood
      <4>3. SendOf(q[Len(q)])' < SendOf(part[1])' /\ PlaceOf(part[1])' = 1
        BY <1>2, <1>3, <1>4, <3>2, <4>1
      <4> QED BY <4>1, <4>2, <4>3 DEF Chained
    <3>3. CASE i > Len(q)
      <4>1. PICK k \in 1..(Len(part) - 1) : i = Len(q) + k
        <5>1. PICK k : k = i - Len(q) OBVIOUS
        <5>2. k \in 1..(Len(part) - 1) /\ i = Len(q) + k BY <1>2, <2>1, <3>3, <5>1
        <5> QED BY <5>2
      <4>2. k \in 1..Len(part) /\ k + 1 \in 1..Len(part) /\ i + 1 = Len(q) + (k + 1)
        BY <1>2, <4>1
      <4>3. r[i] = part[k] /\ r[i + 1] = part[k + 1] BY <2>1, <4>1, <4>2
      <4> QED BY <1>4, <4>2, <4>3 DEF Chained
    <3> QED BY <1>2, <3>1, <3>2, <3>3
  <2>6. PlaceOf(r[1])' = 1 /\ EndsSend(r[Len(r)])'
    <3>1. r[Len(r)] = part[Len(part)] /\ Len(part) \in 1..Len(part) /\ 1 \in 1..Len(part)
      BY <1>2, <2>1
    <3>2. EndsSend(r[Len(r)])' BY <1>1, <1>4, <3>1 DEF EndsSend
    <3>3. CASE q = <<>>
      <4>1. r[1] = part[1] BY <1>2, <2>1, <3>1, <3>3
      <4> QED BY <1>4, <3>1, <3>2, <4>1
    <3>4. CASE q # <<>>
      <4>1. r[1] = q[1] BY <1>2, <2>1, <3>4
      <4>2. PlaceOf(q[1])' = 1 BY <1>5, <3>4 DEF StreamGood
      <4> QED BY <3>2, <4>1, <4>2
    <3> QED BY <3>3, <3>4
  <2>7. StreamGood(r)' BY <2>3, <2>4, <2>5, <2>6 DEF StreamGood
  <2> QED BY <2>0, <2>7
<1> QED BY <1>3, <1>4, <1>5, <1>6

-----------------------------------------------------------------------------
(* Steps that send nothing.                                                 *)

LEMMA SameSent ==
  ASSUME UNCHANGED sent
  PROVE  /\ Ids' = Ids /\ \A id : SentAt(id)' = SentAt(id)
         /\ \A u : SendOf(u)' = SendOf(u) /\ PlaceOf(u)' = PlaceOf(u)
         /\ \A q : StreamGood(q)' <=> StreamGood(q)
         /\ \A x, y : Before(x, y)' <=> Before(x, y)
         /\ \A x, y : Follows(x, y)' <=> Follows(x, y)
         /\ AllWhole' <=> AllWhole
<1>1. Ids' = Ids /\ \A id : SentAt(id)' = SentAt(id) BY DEF Ids, SentAt
<1>2. \A u : SendOf(u)' = SendOf(u) BY <1>1 DEF SendOf
<1>3. \A u : PlaceOf(u)' = PlaceOf(u) BY <1>2 DEF PlaceOf
<1>4. \A u : WasSent(u)' <=> WasSent(u) BY <1>1, <1>2, <1>3 DEF WasSent
<1>5. \A u : EndsSend(u)' <=> EndsSend(u) BY <1>2, <1>3 DEF EndsSend
<1>6. \A q : StreamGood(q)' <=> StreamGood(q)
  BY <1>2, <1>3, <1>4, <1>5 DEF StreamGood, Chained
<1>7. \A x, y : Before(x, y)' <=> Before(x, y) BY <1>2 DEF Before
<1>8. \A x, y : Follows(x, y)' <=> Follows(x, y) BY <1>1 DEF Follows
<1>9. AllWhole' <=> AllWhole BY DEF AllWhole
<1> QED BY <1>1, <1>2, <1>3, <1>6, <1>7, <1>8, <1>9

\* The order of the units, line by line.
InLine(line) == \A k \in 1..(Len(line) - 1) : Follows(line[k], line[k + 1])
Continues(line, next) == next # <<>> => Follows(line[Len(line)], next[1])
Printed == \A i \in 1..Len(received) : InLine(received[i])
PrintedInOrder == \A i \in 1..(Len(received) - 1) : Continues(received[i], received[i + 1])
PartialInOrder ==
  InLine(partial) /\ (received # <<>> => Continues(received[Len(received)], partial))

LEMMA LineByLine ==
  ASSUME ReceiverTyped
  PROVE  UnitsInOrder <=> Printed /\ PrintedInOrder /\ PartialInOrder
<1>1. /\ received \in Seq(Seq(Units)) /\ partial \in Seq(Units)
      /\ Len(received) \in Nat
  BY DEF ReceiverTyped
<1> DEFINE lines == Append(received, partial)
<1>2. /\ Len(lines) = Len(received) + 1 /\ lines[Len(received) + 1] = partial
      /\ \A i \in 1..Len(received) : lines[i] = received[i]
  BY <1>1
<1> HIDE DEF lines
<1>3. ASSUME UnitsInOrder PROVE Printed /\ PrintedInOrder /\ PartialInOrder
  <2>1. \A i \in 1..(Len(received) + 1) :
          InLine(lines[i]) /\ (i > 1 => Continues(lines[i - 1], lines[i]))
    BY <1>2, <1>3 DEF UnitsInOrder, lines, InLine, Continues
  <2>2. Printed BY <1>1, <1>2, <2>1 DEF Printed
  <2>3. PrintedInOrder
    <3> SUFFICES ASSUME NEW i \in 1..(Len(received) - 1) PROVE Continues(received[i], received[i + 1])
      BY DEF PrintedInOrder
    <3>1. /\ i \in 1..Len(received) /\ i + 1 \in 1..Len(received) /\ i + 1 > 1
          /\ i + 1 \in 1..(Len(received) + 1) /\ (i + 1) - 1 = i
      BY <1>1
    <3> QED BY <1>2, <2>1, <3>1
  <2>4. InLine(partial) BY <1>1, <1>2, <2>1
  <2>5. received # <<>> => Continues(received[Len(received)], partial)
    <3>1. received # <<>> =>
            /\ Len(received) \in 1..Len(received) /\ Len(received) + 1 > 1
            /\ Len(received) + 1 \in 1..(Len(received) + 1)
            /\ (Len(received) + 1) - 1 = Len(received)
      BY <1>1
    <3> QED BY <1>2, <2>1, <3>1
  <2> QED BY <2>2, <2>3, <2>4, <2>5 DEF PartialInOrder
<1>4. ASSUME Printed, PrintedInOrder, PartialInOrder PROVE UnitsInOrder
  <2>1. ASSUME NEW i \in 1..Len(lines)
        PROVE  InLine(lines[i]) /\ (i > 1 => Continues(lines[i - 1], lines[i]))
    <3>1. CASE i \in 1..Len(received) /\ i > 1
      <4>1. /\ i - 1 \in 1..(Len(received) - 1) /\ (i - 1) + 1 = i
            /\ lines[i] = received[i] /\ lines[i - 1] = received[i - 1]
        BY <1>1, <1>2, <3>1
      <4> QED BY <1>4, <3>1, <4>1 DEF Printed, PrintedInOrder
    <3>2. CASE i = 1 /\ i \in 1..Len(received)
      BY <1>2, <1>4, <3>2 DEF Printed
    <3>3. CASE i = Len(received) + 1
      <4>1. i > 1 => received # <<>> /\ lines[i - 1] = received[Len(received)]
        <5>1. i - 1 = Len(received) BY <1>1, <3>3
        <5>2. i > 1 => Len(received) \in 1..Len(received) /\ received # <<>> BY <1>1, <3>3
        <5> QED BY <1>2, <5>1, <5>2
      <4> QED BY <1>2, <1>4, <3>3, <4>1 DEF PartialInOrder
    <3> QED BY <1>1, <1>2, <3>1, <3>2, <3>3
  <2> QED BY <2>1 DEF UnitsInOrder, lines, InLine, Continues
<1> QED BY <1>3, <1>4

LEMMA LineByLineNext ==
  ASSUME ReceiverTyped'
  PROVE  UnitsInOrder' <=> Printed' /\ PrintedInOrder' /\ PartialInOrder'
<1>1. (ReceiverTyped => (UnitsInOrder <=> Printed /\ PrintedInOrder /\ PartialInOrder))'
  BY LineByLine, PTL
<1> QED BY <1>1

\* Streams that stay as they are, or are lost.
LEMMA QuietStreams ==
  ASSUME Flow, ReceiverTyped, ReceiverTyped', UNCHANGED <<sent, received>>, partial' = partial \/ partial' = <<>>,
         \A c \in 1..Len(conns') : \/ Streams'[c] = <<>>
                                   \/ c \in 1..Len(conns) /\ Streams'[c] = Streams[c]
  PROVE  Flow'
<1>0. FlightGood /\ ReceivedGood /\ UnitsInOrder /\ PartialWhole BY DEF Flow
<1>1. /\ Ids' = Ids
      /\ \A q : StreamGood(q)' <=> StreamGood(q)
      /\ \A x, y : Before(x, y)' <=> Before(x, y)
      /\ \A x, y : Follows(x, y)' <=> Follows(x, y)
      /\ AllWhole' <=> AllWhole
  BY SameSent
<1>2. PICK T : T = Streams' OBVIOUS
<1>3. \A x : Before(<<>>, x)' /\ Before(x, <<>>)' BY DEF Before
<1>4. FlightGood'
  <2>1. \A c \in 1..Len(conns') : StreamGood(T[c])'
    BY <1>1, <1>2, <1>0, EmptyStream DEF FlightGood
  <2>2. \A c, d \in 1..Len(conns') : c < d => Before(T[c], T[d])'
    BY <1>0, <1>1, <1>2, <1>3 DEF FlightGood
  <2> QED BY <1>2, <2>1, <2>2 DEF FlightGood
<1>5. ReceivedGood'
  <2>1. received # <<>> => \A c \in 1..Len(conns') : Before(received[Len(received)], T[c])'
    BY <1>0, <1>1, <1>2, <1>3 DEF ReceivedGood, ReadBefore
  <2>2. ReadBefore' BY <1>2, <2>1 DEF ReadBefore
  <2>3. NoNewlines' BY <1>0 DEF ReceivedGood, NoNewlines
  <2>4. LinesSent' BY <1>0, <1>1 DEF ReceivedGood, LinesSent
  <2> QED BY <2>2, <2>3, <2>4 DEF ReceivedGood
<1>6. UnitsInOrder'
  <2>1. Printed /\ PrintedInOrder /\ PartialInOrder BY <1>0, LineByLine
  <2>2. \A x, y : /\ InLine(x)' <=> InLine(x)
                  /\ Continues(x, y)' <=> Continues(x, y)
    BY <1>1 DEF InLine, Continues
  <2>3. Printed' /\ PrintedInOrder' BY <2>1, <2>2 DEF Printed, PrintedInOrder
  <2>4. PartialInOrder'
    <3>1. CASE partial' = partial BY <2>1, <2>2, <3>1 DEF PartialInOrder
    <3>2. CASE partial' = <<>> BY <3>2 DEF PartialInOrder, InLine, Continues
    <3> QED BY <3>1, <3>2
  <2> QED BY <2>3, <2>4, LineByLineNext
<1>7. PartialWhole' BY <1>0, <1>1 DEF PartialWhole
<1> QED BY <1>4, <1>5, <1>6, <1>7 DEF Flow

-----------------------------------------------------------------------------
(* Streams and connections.                                                 *)

LEMMA StreamParts ==
  ASSUME TypeOK
  PROVE  /\ Len(conns) \in Nat /\ DOMAIN Streams = 1..Len(conns)
         /\ \A c \in 1..Len(conns) :
              /\ conns[c].buffer \in Seq(Units) /\ Streams[c] \in Seq(Units)
              /\ c # current => Streams[c] = conns[c].buffer
              /\ c = current => Streams[c] = partial \o conns[c].buffer
              /\ partial = <<>> => Streams[c] = conns[c].buffer
<1>1. ConnsTyped /\ partial \in Seq(Units) BY TypeParts DEF ReceiverTyped
<1>2. Len(conns) \in Nat BY DEF TypeOK
<1>3. \A c \in 1..Len(conns) : conns[c].buffer \in Seq(Units) BY <1>1, ConnFields
<1>4. \A b \in Seq(Units) : <<>> \o b = b OBVIOUS
<1>5. \A c \in 1..Len(conns) :
        Streams[c] = (IF c = current THEN partial ELSE <<>>) \o conns[c].buffer
  BY DEF Streams
<1>6. ASSUME NEW c \in 1..Len(conns)
      PROVE  /\ Streams[c] \in Seq(Units)
             /\ c # current => Streams[c] = conns[c].buffer
             /\ c = current => Streams[c] = partial \o conns[c].buffer
             /\ partial = <<>> => Streams[c] = conns[c].buffer
  <2>1. CASE c = current
    <3>1. Streams[c] = partial \o conns[c].buffer BY <1>5, <2>1
    <3>2. conns[c].buffer \in Seq(Units) BY <1>3
    <3>3. partial = <<>> => Streams[c] = conns[c].buffer BY <1>4, <3>1, <3>2
    <3> QED BY <1>1, <2>1, <3>1, <3>2, <3>3
  <2>2. CASE c # current BY <1>3, <1>4, <1>5, <2>2
  <2> QED BY <2>1, <2>2
<1>7. DOMAIN Streams = 1..Len(conns) BY DEF Streams
<1> QED BY <1>2, <1>3, <1>6, <1>7

\* The streams stay when the buffers and the receiver do.
LEMMA StreamsStay ==
  ASSUME UNCHANGED <<current, partial>>,
         NEW c, c \in 1..Len(conns), c \in 1..Len(conns'), conns'[c].buffer = conns[c].buffer
  PROVE  Streams'[c] = Streams[c]
BY DEF Streams

LEMMA ThreeParts ==
  ASSUME NEW a \in Seq(Units), NEW b \in Seq(Units), NEW c \in Seq(Units)
  PROVE  (a \o b) \o c = a \o (b \o c)
OBVIOUS

\* What is added to a buffer is added to the stream.
LEMMA StreamLonger ==
  ASSUME TypeOK, UNCHANGED <<current, partial>>, NEW part \in Seq(Units),
         NEW c, c \in 1..Len(conns), c \in 1..Len(conns'),
         conns'[c].buffer = conns[c].buffer \o part
  PROVE  Streams'[c] = Streams[c] \o part
<1>1. PICK a : a = IF c = current THEN partial ELSE <<>> OBVIOUS
<1>2. PICK b : b = conns[c].buffer OBVIOUS
<1>3. Streams[c] = a \o b /\ Streams'[c] = a \o (b \o part) BY <1>1, <1>2 DEF Streams
<1>4. b \in Seq(Units) /\ a \in Seq(Units)
  <2>1. b \in Seq(Units) BY <1>2, StreamParts
  <2>2. partial \in Seq(Units) BY DEF TypeOK
  <2> QED BY <1>1, <2>1, <2>2
<1>5. (a \o b) \o part = a \o (b \o part) BY <1>4, ThreeParts
<1> QED BY <1>3, <1>5

LEMMA PeerChange ==
  ASSUME ConnsTyped, NEW c \in 1..Len(conns), NEW x, conns' = [conns EXCEPT ![c].peer = x]
  PROVE  /\ Len(conns') = Len(conns)
         /\ conns'[c].peer = x /\ conns'[c].buffer = conns[c].buffer
         /\ \A d \in 1..Len(conns) : d # c => conns'[d] = conns[d]
<1>1. conns \in Seq(ConnType) /\ conns[c] \in ConnType BY DEF ConnsTyped
<1> QED BY <1>1 DEF ConnType

LEMMA OwnChange ==
  ASSUME ConnsTyped, NEW c \in 1..Len(conns), NEW x, conns' = [conns EXCEPT ![c].own = x]
  PROVE  /\ Len(conns') = Len(conns)
         /\ \A d \in 1..Len(conns) :
              conns'[d].peer = conns[d].peer /\ conns'[d].buffer = conns[d].buffer
<1>1. conns \in Seq(ConnType) /\ conns[c] \in ConnType BY DEF ConnsTyped
<1> QED BY <1>1 DEF ConnType

LEMMA BufferChange ==
  ASSUME ConnsTyped, NEW c \in 1..Len(conns), NEW x, conns' = [conns EXCEPT ![c].buffer = x]
  PROVE  /\ Len(conns') = Len(conns)
         /\ conns'[c].peer = conns[c].peer /\ conns'[c].buffer = x
         /\ \A d \in 1..Len(conns) : d # c => conns'[d] = conns[d]
<1>1. conns \in Seq(ConnType) /\ conns[c] \in ConnType BY DEF ConnsTyped
<1> QED BY <1>1 DEF ConnType

-----------------------------------------------------------------------------
(* Steps of a publisher that send nothing.                                  *)

\* A thread that goes on towards its send keeps its message.
LEMMA MessageStays ==
  ASSUME FeedInv, MessagesGood, NEW p \in Publishers, NEW state, Goto(p, state),
         Unsent(p) \/ state \in {"idle", "unlock"},
         state \in {"lock", "ensure", "connect", "send"} => message[p].size # 0,
         UNCHANGED <<message, calls, sent>>
  PROVE  MessagesGood'
<1>1. /\ pc \in [Publishers -> PublisherStates] /\ pc' = [pc EXCEPT ![p] = state]
  BY DEF FeedInv, TypeOK, Goto
<1>2. Ids' = Ids BY SameSent
<1>3. \A q \in Publishers : /\ Unsent(q)' => Unsent(q)
                            /\ q # p => pc'[q] = pc[q]
                            /\ pc'[p] = state
  BY <1>1 DEF Unsent
<1> QED BY <1>2, <1>3 DEF MessagesGood

\* A step that leaves the sent messages and the receiver alone.
LEMMA PublisherFlow ==
  ASSUME FeedInv, FeedInv', OrderInv, UNCHANGED <<receiverVars, sent>>,
         calls' \in {calls, calls + 1},
         Len(conns') \in {Len(conns), Len(conns) + 1},
         \A c \in 1..Len(conns) : conns'[c].buffer = conns[c].buffer,
         Len(conns') = Len(conns) + 1 => conns'[Len(conns) + 1].buffer = <<>>
  PROVE  SentGood' /\ Flow' /\ NotReading'
<1>1. /\ ReceiverTyped /\ ReceiverTyped' /\ Len(conns) \in Nat /\ current \in 0..Len(conns)
      /\ calls \in Nat /\ UNCHANGED <<current, partial, received>>
  BY TypeParts DEF FeedInv, TypeOK, ReceiverTyped, receiverVars
<1>2. SentGood'
  <2>1. \A id \in 1..calls : id \in 1..calls' BY <1>1
  <2> QED BY <2>1 DEF OrderInv, SentGood
<1>3. ASSUME NEW c \in 1..Len(conns')
      PROVE  \/ Streams'[c] = <<>>
             \/ c \in 1..Len(conns) /\ Streams'[c] = Streams[c]
  <2>1. CASE c \in 1..Len(conns) BY <1>1, <1>3, <2>1, StreamsStay
  <2>2. CASE c = Len(conns) + 1
    <3>1. c # current' /\ conns'[c].buffer = <<>> BY <1>1, <1>3, <2>2
    <3>2. Streams'[c] = <<>> \o <<>> BY <1>3, <3>1 DEF Streams
    <3> QED BY <3>2
  <2> QED BY <1>1, <1>3, <2>1, <2>2
<1>4. Flow' BY <1>1, <1>3, QuietStreams DEF OrderInv
<1> QED BY <1>1, <1>2, <1>4 DEF OrderInv, ConnsGood, NotReading

\* Publish up to the mutex, and after it.
LEMMA OutsideOrder ==
  ASSUME FeedInv, FeedInv', OrderInv, NEW p \in Publishers,
         NEW state, state \notin {"firstConnect", "connect"}, Goto(p, state),
         UNCHANGED <<g_socket_fd, conns, receiverVars, sent>>,
         calls' \in {calls, calls + 1}, MessagesGood'
  PROVE  OrderInv'
<1>1. SentGood' /\ Flow' /\ NotReading' BY PublisherFlow DEF FeedInv, TypeOK
<1>2. EndsGood' /\ Newest' BY DEF OrderInv, ConnsGood, EndsGood, Newest, receiverVars
<1>3. \A q \in Publishers : pc'[q] \in {"firstConnect", "connect"} => pc'[q] = pc[q]
  BY DEF Goto, FeedInv, TypeOK
<1>4. Connecting' BY <1>3 DEF OrderInv, ConnsGood, Connecting
<1> QED BY <1>1, <1>2, <1>4 DEF OrderInv, ConnsGood

LEMMA PublishOrder ==
  ASSUME FeedInv, FeedInv', OrderInv, NEW p \in Publishers, Publish(p)
  PROVE  OrderInv'
<1>1. PICK size \in Sizes :
        /\ message' = [message EXCEPT ![p] = [id |-> calls + 1, size |-> size]]
        /\ Goto(p, IF g_initialized THEN Proceed([id |-> calls + 1, size |-> size])
                   ELSE "initialize")
  BY DEF Publish
<1>2. PICK m : m = [id |-> calls + 1, size |-> size] OBVIOUS
<1>3. PICK state : state = IF g_initialized THEN Proceed(m) ELSE "initialize" OBVIOUS
<1>4. /\ m.id = calls + 1 /\ m.size = size /\ calls \in Nat /\ calls' = calls + 1
      /\ message' = [message EXCEPT ![p] = m] /\ Goto(p, state)
      /\ pc[p] = "idle" /\ UNCHANGED <<g_socket_fd, conns, receiverVars, sent>>
  <2>1. calls \in Nat BY DEF FeedInv, TypeOK
  <2>2. message' = [message EXCEPT ![p] = m] /\ Goto(p, state)
    BY <1>1, <1>2, <1>3 DEF Goto
  <2> QED BY <1>2, <2>1, <2>2 DEF Publish
<1>5. /\ state \in {"idle", "initialize", "lock"}
      /\ state = "lock" => m.size # 0
  BY <1>3 DEF Proceed
<1>6. MessagesGood'
  <2>1. /\ pc' = [pc EXCEPT ![p] = state] /\ pc \in [Publishers -> PublisherStates]
        /\ \A q \in Publishers : q # p => pc'[q] = pc[q] /\ message'[q] = message[q]
        /\ pc'[p] = state /\ message'[p] = m
    BY <1>4 DEF FeedInv, TypeOK, Goto
  <2>2. Ids' = Ids BY <1>4, SameSent
  <2>3. \A id \in Ids : id \in 1..calls BY DEF OrderInv, SentGood, Ids
  <2>4. m.id \notin Ids /\ m.id \in 1..calls' BY <1>4, <2>3
  <2>5. \A q \in Publishers : q # p /\ Unsent(q)' => Unsent(q) /\ message'[q].id \in 1..calls
    BY <2>1 DEF Unsent, OrderInv, MessagesGood
  <2>6. ASSUME NEW q \in Publishers, Unsent(q)'
        PROVE  /\ message'[q].id \in 1..calls' /\ message'[q].id \notin Ids'
               /\ pc'[q] \in {"lock", "ensure", "connect", "send"} => message'[q].size # 0
               /\ \A r \in Publishers : Unsent(r)' /\ message'[r].id = message'[q].id => r = q
    <3>1. CASE q = p
      <4>1. \A r \in Publishers : r # p /\ Unsent(r)' => message'[r].id # m.id
        BY <1>4, <2>5
      <4> QED BY <1>5, <2>1, <2>2, <2>4, <3>1, <4>1
    <3>2. CASE q # p
      <4>1. Unsent(q) /\ message'[q] = message[q] /\ pc'[q] = pc[q]
            /\ message'[q].id \in 1..calls
        BY <2>1, <2>5, <2>6, <3>2
      <4>2. /\ message[q].id \notin Ids /\ message[q].id \in 1..calls'
            /\ pc[q] \in {"lock", "ensure", "connect", "send"} => message[q].size # 0
        BY <1>4, <4>1 DEF OrderInv, MessagesGood
      <4>3. \A r \in Publishers : Unsent(r)' /\ message'[r].id = message'[q].id => r = q
        <5> SUFFICES ASSUME NEW r \in Publishers, Unsent(r)', message'[r].id = message'[q].id
                     PROVE  r = q
          OBVIOUS
        <5>1. r # p BY <1>4, <2>1, <4>1
        <5>2. Unsent(r) /\ message'[r] = message[r] BY <2>1, <2>5, <5>1
        <5> QED BY <4>1, <5>2 DEF OrderInv, MessagesGood
      <4> QED BY <2>2, <4>1, <4>2, <4>3
    <3> QED BY <3>1, <3>2
  <2> QED BY <2>6 DEF MessagesGood
<1> QED BY <1>4, <1>5, <1>6, OutsideOrder

LEMMA InitializeOrder ==
  ASSUME FeedInv, FeedInv', OrderInv, NEW p \in Publishers, Initialize(p)
  PROVE  OrderInv'
<1>1. PICK state : state = IF g_initialized THEN Proceed(message[p]) ELSE "firstLock" OBVIOUS
<1>2. /\ pc[p] = "initialize" /\ Goto(p, state)
      /\ UNCHANGED <<g_socket_fd, message, calls, conns, receiverVars, sent>>
  BY <1>1 DEF Initialize
<1>3. state \in {"idle", "lock", "firstLock"} /\ (state = "lock" => message[p].size # 0)
  BY <1>1 DEF Proceed
<1>4. MessagesGood' BY <1>2, <1>3, MessageStays DEF OrderInv, Unsent
<1> QED BY <1>2, <1>3, <1>4, OutsideOrder

LEMMA LockOrder ==
  ASSUME FeedInv, FeedInv', OrderInv, NEW p \in Publishers, Lock(p)
  PROVE  OrderInv'
<1>1. PICK state : state = IF pc[p] = "lock" THEN "ensure" ELSE "firstEnsure" OBVIOUS
<1>2. /\ pc[p] \in {"firstLock", "lock"} /\ Goto(p, state)
      /\ UNCHANGED <<g_socket_fd, message, calls, conns, receiverVars, sent>>
  BY <1>1 DEF Lock
<1>3. Unsent(p) BY <1>2 DEF Unsent
<1>4. pc[p] = "lock" => message[p].size # 0 BY <1>3 DEF OrderInv, MessagesGood
<1>5. MessagesGood' BY <1>1, <1>2, <1>3, <1>4, MessageStays DEF OrderInv
<1> QED BY <1>1, <1>2, <1>5, OutsideOrder

LEMMA UnlockOrder ==
  ASSUME FeedInv, FeedInv', OrderInv, NEW p \in Publishers, Unlock(p)
  PROVE  OrderInv'
<1>1. PICK state : state = IF pc[p] = "unlock" THEN "idle" ELSE Proceed(message[p]) OBVIOUS
<1>2. /\ pc[p] \in {"firstUnlock", "unlock"} /\ Goto(p, state)
      /\ UNCHANGED <<g_socket_fd, message, calls, conns, receiverVars, sent>>
  BY <1>1 DEF Unlock
<1>3. /\ state \in {"idle", "lock"} /\ (state = "lock" => message[p].size # 0)
      /\ Unsent(p) \/ state = "idle"
  BY <1>1, <1>2 DEF Proceed, Unsent
<1>4. MessagesGood' BY <1>2, <1>3, MessageStays DEF OrderInv
<1> QED BY <1>2, <1>3, <1>4, OutsideOrder

\* The others are not connecting while a thread is inside.
LEMMA OneInside ==
  ASSUME FeedInv, NEW p \in Publishers, pc[p] \in Critical, NEW state, Goto(p, state)
  PROVE  /\ \A q \in Publishers : pc'[q] \in {"firstConnect", "connect"} => q = p
         /\ pc'[p] = state
<1>1. /\ pc \in [Publishers -> PublisherStates] /\ pc' = [pc EXCEPT ![p] = state]
  BY DEF FeedInv, TypeOK, Goto
<1>2. \A q \in Publishers : pc[q] \in Critical => q = p
  BY FeedAssumption DEF FeedInv, Protected, HoldsMutex
<1>3. {"firstConnect", "connect"} \subseteq Critical BY DEF Critical, PublisherStates
<1> QED BY <1>1, <1>2, <1>3

LEMMA EnsureOrder ==
  ASSUME FeedInv, FeedInv', OrderInv, NEW p \in Publishers, Ensure(p)
  PROVE  OrderInv'
<1>1. /\ pc[p] \in {"firstEnsure", "ensure"} /\ pc[p] \in Critical
      /\ UNCHANGED <<message, calls, receiverVars, sent>>
  BY DEF Ensure, Critical, PublisherStates
<1>2. Unsent(p) BY <1>1 DEF Unsent
<1>3. pc[p] = "ensure" => message[p].size # 0 BY <1>2 DEF OrderInv, MessagesGood
<1>4. ASSUME NEW fd, Goto(p, Ensured(p, fd)), UNCHANGED <<g_socket_fd, conns>>
      PROVE  OrderInv'
  <2>1. PICK state : state = Ensured(p, fd) OBVIOUS
  <2>2. state \in {"firstUnlock", "unlock", "send"} /\ (state = "send" => pc[p] = "ensure")
    BY <1>1, <2>1 DEF Ensured
  <2>3. Goto(p, state) BY <1>4, <2>1
  <2>4. MessagesGood' BY <1>1, <1>2, <1>3, <2>2, <2>3, MessageStays DEF OrderInv
  <2> QED BY <1>1, <1>4, <2>2, <2>3, <2>4, OutsideOrder
<1>5. ASSUME conns' = Append(conns, [own |-> "open", peer |-> "none", buffer |-> <<>>]),
             g_socket_fd' = Len(conns) + 1,
             Goto(p, IF pc[p] = "ensure" THEN "connect" ELSE "firstConnect")
      PROVE  OrderInv'
  <2>1. PICK state : state = IF pc[p] = "ensure" THEN "connect" ELSE "firstConnect" OBVIOUS
  <2>2. Goto(p, state) BY <1>5, <2>1
  <2>3. MessagesGood' BY <1>1, <1>2, <1>3, <2>1, <2>2, MessageStays DEF OrderInv
  <2>4. PICK r : r = [own |-> "open", peer |-> "none", buffer |-> <<>>] OBVIOUS
  <2>5. /\ Len(conns) \in Nat /\ Len(conns') = Len(conns) + 1 /\ conns'[Len(conns) + 1] = r
        /\ \A c \in 1..Len(conns) : conns'[c] = conns[c]
        /\ current \in 0..Len(conns) /\ current' = current
    BY <1>1, <1>5, <2>4 DEF FeedInv, TypeOK, receiverVars
  <2>6. SentGood' /\ Flow' /\ NotReading' BY <1>1, <2>4, <2>5, PublisherFlow
  <2>7. EndsGood'
    <3>1. \A c \in 1..Len(conns') : c \in 1..Len(conns) \/ c = Len(conns) + 1 BY <2>5
    <3>2. r.peer = "none" /\ r.buffer = <<>> BY <2>4
    <3>3. current # Len(conns) + 1 BY <2>5
    <3> QED BY <2>5, <3>1, <3>2, <3>3 DEF OrderInv, ConnsGood, EndsGood
  <2>8. Newest' BY <1>5, <2>5 DEF Newest
  <2>9. Connecting' BY <1>5, <2>4, <2>5 DEF Connecting
  <2> QED BY <2>3, <2>6, <2>7, <2>8, <2>9 DEF OrderInv, ConnsGood
<1> QED BY <1>4, <1>5 DEF Ensure

LEMMA ConnectOrder ==
  ASSUME FeedInv, FeedInv', OrderInv, NEW p \in Publishers, Connect(p)
  PROVE  OrderInv'
<1>1. /\ pc[p] \in {"firstConnect", "connect"} /\ pc[p] \in Critical
      /\ UNCHANGED <<message, calls, receiverVars, sent>>
  BY DEF Connect, Critical, PublisherStates
<1>2. Unsent(p) BY <1>1 DEF Unsent
<1>3. pc[p] = "connect" => message[p].size # 0 BY <1>2 DEF OrderInv, MessagesGood
<1>4. /\ ConnsTyped /\ Len(conns) \in Nat /\ current \in 0..Len(conns) /\ current' = current
      /\ g_socket_fd \in 1..Len(conns) /\ g_socket_fd = Len(conns)
      /\ conns[g_socket_fd].peer = "none"
  BY <1>1, TypeParts
  DEF FeedInv, TypeOK, Protected, HasSocket, OrderInv, ConnsGood, Newest, Connecting, receiverVars
<1>5. current # g_socket_fd BY <1>4 DEF OrderInv, ConnsGood, EndsGood
<1>6. ASSUME NEW fd, Goto(p, Ensured(p, fd))
      PROVE  MessagesGood' /\ Connecting'
  <2>1. PICK state : state = Ensured(p, fd) OBVIOUS
  <2>2. state \in {"firstUnlock", "unlock", "send"} /\ (state = "send" => pc[p] = "connect")
    BY <1>1, <2>1 DEF Ensured
  <2>3. Goto(p, state) BY <1>6, <2>1
  <2>4. MessagesGood' BY <1>1, <1>2, <1>3, <2>2, <2>3, MessageStays DEF OrderInv
  <2>5. Connecting' BY <1>1, <2>2, <2>3, OneInside DEF Connecting
  <2> QED BY <2>4, <2>5
<1>7. CASE /\ conns' = [conns EXCEPT ![g_socket_fd].peer = "queued"]
           /\ Goto(p, Ensured(p, g_socket_fd))
           /\ UNCHANGED g_socket_fd
  <2>1. /\ Len(conns') = Len(conns) /\ conns'[g_socket_fd].peer = "queued"
        /\ conns'[g_socket_fd].buffer = conns[g_socket_fd].buffer
        /\ \A d \in 1..Len(conns) : d # g_socket_fd => conns'[d] = conns[d]
    BY <1>4, <1>7, PeerChange
  <2>2. SentGood' /\ Flow' /\ NotReading' BY <1>1, <1>4, <2>1, PublisherFlow
  <2>3. EndsGood' BY <1>4, <1>5, <2>1 DEF OrderInv, ConnsGood, EndsGood
  <2>4. Newest' BY <1>4, <1>7, <2>1 DEF Newest
  <2> QED BY <1>6, <1>7, <2>2, <2>3, <2>4 DEF OrderInv, ConnsGood
<1>8. CASE /\ conns' = [conns EXCEPT ![g_socket_fd].own = "closed"]
           /\ g_socket_fd' = 0
           /\ Goto(p, Ensured(p, 0))
  <2>1. /\ Len(conns') = Len(conns)
        /\ \A d \in 1..Len(conns) :
             conns'[d].peer = conns[d].peer /\ conns'[d].buffer = conns[d].buffer
    BY <1>4, <1>8, OwnChange
  <2>2. SentGood' /\ Flow' /\ NotReading' BY <1>1, <1>4, <2>1, PublisherFlow
  <2>3. EndsGood' BY <1>4, <2>1 DEF OrderInv, ConnsGood, EndsGood
  <2>4. Newest' BY <1>8 DEF Newest
  <2> QED BY <1>6, <1>8, <2>2, <2>3, <2>4 DEF OrderInv, ConnsGood
<1> QED BY <1>7, <1>8 DEF Connect

-----------------------------------------------------------------------------
(* The send.                                                                *)

\* What a send takes of a line is units of one message from the first on.
LEMMA PartOfLine ==
  ASSUME NEW m, m.id \in 1..MaxPublishes, m.size \in Nat \ {0},
         NEW n \in 1..Len(Line(m))
  PROVE  /\ SubSeq(Line(m), 1, n) \in Seq(Units) /\ SendGood(SubSeq(Line(m), 1, n))
         /\ SubSeq(Line(m), 1, n)[1][1] = m.id
         /\ Line(m) \in Seq(Units) /\ SendGood(Line(m)) /\ Line(m)[1][1] = m.id
<1>1. PICK size : size = IF m.size < MaxPayload THEN m.size ELSE MaxPayload OBVIOUS
<1>2. size \in Nat \ {0} BY <1>1, FeedAssumption
<1>3. PICK body : body = [k \in 1..size |-> <<m.id, k>>] OBVIOUS
<1>4. body \in Seq(Nat \X Nat) /\ Len(body) = size /\ \A k \in 1..size : body[k] = <<m.id, k>>
  BY <1>2, <1>3
<1>5. Line(m) = Append(body, <<m.id, 0>>) BY <1>1, <1>3 DEF Line
<1>6. /\ Line(m) \in Seq(Units) /\ Len(Line(m)) = size + 1
      /\ \A k \in 1..size : Line(m)[k] = <<m.id, k>>
      /\ Line(m)[size + 1] = <<m.id, 0>>
  <2>1. Line(m) \in Seq(Units) BY LineTyped
  <2>2. PICK end : end = <<m.id, 0>> OBVIOUS
  <2>3. Line(m) = Append(body, end) BY <1>5, <2>2
  <2>4. /\ Len(Line(m)) = size + 1 /\ Line(m)[size + 1] = end
        /\ \A k \in 1..size : Line(m)[k] = body[k]
    BY <1>2, <1>4, <2>3
  <2> QED BY <1>4, <2>1, <2>2, <2>4
<1>7. ASSUME NEW l \in Seq(Units), Len(l) \in 1..(size + 1),
             \A k \in 1..Len(l) : l[k] = Line(m)[k]
      PROVE  SendGood(l) /\ l[1][1] = m.id
  <2>1. \A k \in 1..Len(l) : k \in 1..size \/ (k = size + 1 /\ k = Len(l) /\ k > 1)
    BY <1>2, <1>7
  <2>2. \A k \in 1..Len(l) : l[k] = <<m.id, k>> \/ (l[k] = <<m.id, 0>> /\ k = Len(l) /\ k > 1)
    BY <1>6, <1>7, <2>1
  <2>3. l # <<>> /\ 1 \in 1..Len(l) BY <1>2, <1>7
  <2>4. l[1][1] = m.id BY <2>2, <2>3
  <2> QED BY <2>2, <2>3, <2>4 DEF SendGood
<1>8. PICK part : part = SubSeq(Line(m), 1, n) OBVIOUS
<1>9. part \in Seq(Units) /\ Len(part) = n /\ \A k \in 1..n : part[k] = Line(m)[k]
  BY <1>2, <1>6, <1>8
<1>10. n \in 1..(size + 1) BY <1>6
<1>11. SendGood(part) /\ part[1][1] = m.id BY <1>7, <1>9, <1>10
<1>12. SendGood(Line(m)) /\ Line(m)[1][1] = m.id BY <1>2, <1>6, <1>7
<1> QED BY <1>6, <1>8, <1>9, <1>11, <1>12

Known(q) == \A i \in 1..Len(q) : q[i][1] \in Ids

\* What was read and sent before stays so, and is before what is sent now.
LEMMA BeforeSend ==
  ASSUME ReceiverTyped, SentGood, NEW part \in Seq(Units), SendGood(part),
         part[1][1] \in 1..calls, part[1][1] \notin Ids, calls' = calls,
         sent' = Append(sent, part),
         NEW x \in Seq(Units), NEW y \in Seq(Units), Known(x), Known(y), Before(x, y)
  PROVE  Before(x, y)' /\ Before(x, y \o part)'
<1>1. /\ \A id \in Ids : SentAt(id)' = SentAt(id)
      /\ SentAt(part[1][1])' = Len(sent) + 1 /\ Len(sent) \in Nat
  BY SentGrows DEF ReceiverTyped
<1>2. \A i \in 1..Len(x) : SendOf(x[i])' = SendOf(x[i]) /\ SendOf(x[i]) \in 1..Len(sent)
  BY <1>1, SentAtId DEF Known, SendOf
<1>3. \A j \in 1..Len(y) : SendOf(y[j])' = SendOf(y[j])
  BY <1>1 DEF Known, SendOf
<1>4. Before(x, y)' BY <1>2, <1>3 DEF Before
<1>5. PICK z : z = y \o part OBVIOUS
<1>6. /\ Len(z) = Len(y) + Len(part) /\ Len(y) \in Nat /\ Len(part) \in Nat
      /\ \A j \in 1..Len(y) : z[j] = y[j]
      /\ \A k \in 1..Len(part) : z[Len(y) + k] = part[k]
  BY <1>5
<1>7. ASSUME NEW i \in 1..Len(x), NEW j \in 1..Len(z)
      PROVE  SendOf(x[i])' < SendOf(z[j])'
  <2>1. CASE j \in 1..Len(y)
    <3>1. z[j] = y[j] BY <1>6, <2>1
    <3>2. SendOf(x[i])' < SendOf(y[j])' BY <1>4, <2>1 DEF Before
    <3> QED BY <3>1, <3>2
  <2>2. CASE j \notin 1..Len(y)
    <3>1. PICK k : k = j - Len(y) OBVIOUS
    <3>2. k \in 1..Len(part) /\ j = Len(y) + k BY <1>6, <2>2, <3>1
    <3>3. z[j] = part[k] /\ part[k][1] = part[1][1] BY <1>6, <3>2 DEF SendGood
    <3>4. SendOf(z[j])' = Len(sent) + 1 BY <1>1, <3>3 DEF SendOf
    <3> QED BY <1>1, <1>2, <3>4
  <2> QED BY <2>1, <2>2
<1>8. Before(x, z)' BY <1>7 DEF Before
<1> QED BY <1>4, <1>5, <1>8

\* A message is sent, and taken by the newest connection or lost.
LEMMA SentFlow ==
  ASSUME FeedInv, FeedInv', OrderInv, NEW part \in Seq(Units), SendGood(part),
         part[1][1] \in 1..calls, part[1][1] \notin Ids, UNCHANGED <<calls, receiverVars>>,
         sent' = Append(sent, part), Len(conns') = Len(conns), conns # <<>>,
         \A d \in 1..Len(conns) : d # Len(conns) => conns'[d].buffer = conns[d].buffer,
         \/ conns'[Len(conns)].buffer = conns[Len(conns)].buffer
         \/ conns'[Len(conns)].buffer = conns[Len(conns)].buffer \o part
  PROVE  SentGood' /\ Flow' /\ NotReading'
<1>1. /\ TypeOK /\ TypeOK' /\ ReceiverTyped /\ ReceiverTyped' /\ SentGood
      /\ Len(conns) \in Nat /\ current \in 0..Len(conns)
      /\ UNCHANGED <<current, partial, received>> /\ calls' = calls
  <2>1. TypeOK /\ TypeOK' /\ SentGood BY DEF FeedInv, OrderInv
  <2>2. ReceiverTyped /\ Len(conns) \in Nat /\ current \in 0..Len(conns)
    BY <2>1 DEF TypeOK, ReceiverTyped
  <2>3. ReceiverTyped' BY <2>1 DEF TypeOK, ReceiverTyped
  <2>4. UNCHANGED <<current, partial, received>> BY DEF receiverVars
  <2> QED BY <2>1, <2>2, <2>3, <2>4
<1>2. FlightGood /\ ReceivedGood /\ UnitsInOrder /\ PartialWhole BY DEF OrderInv, Flow
<1>3. /\ SentGood' /\ Ids \subseteq Ids' /\ Len(sent') = Len(sent) + 1 /\ Len(sent) \in Nat
      /\ \A s \in 1..Len(sent) : sent'[s] = sent[s]
      /\ \A id \in Ids : SentAt(id)' = SentAt(id)
  BY <1>1, SentGrows DEF ReceiverTyped
<1>4. PICK S : S = Streams OBVIOUS
<1>5. PICK T : T = Streams' OBVIOUS
<1>6. /\ \A c \in 1..Len(conns) : S[c] \in Seq(Units) /\ StreamGood(S[c]) /\ Known(S[c])
      /\ \A c, d \in 1..Len(conns) : c < d => Before(S[c], S[d])
  BY <1>1, <1>2, <1>4, StreamParts DEF FlightGood, StreamGood, WasSent, Known
<1>7. \A c \in 1..Len(conns) : T[c] = S[c] \/ (c = Len(conns) /\ T[c] = S[c] \o part)
  <2>1. ASSUME NEW c \in 1..Len(conns), conns'[c].buffer = conns[c].buffer PROVE T[c] = S[c]
    BY <1>1, <1>4, <1>5, <2>1, StreamsStay
  <2>2. ASSUME NEW c \in 1..Len(conns), conns'[c].buffer = conns[c].buffer \o part
        PROVE  T[c] = S[c] \o part
    BY <1>1, <1>4, <1>5, <2>2, StreamLonger
  <2> QED BY <2>1, <2>2
<1>8. FlightGood'
  <2>1. \A c \in 1..Len(conns) : StreamGood(T[c])'
    <3> SUFFICES ASSUME NEW c \in 1..Len(conns) PROVE StreamGood(T[c])'
      OBVIOUS
    <3>1. StreamGood(S[c])' /\ StreamGood(S[c] \o part)' BY <1>1, <1>6, StreamSend
    <3> QED BY <1>7, <3>1
  <2>2. ASSUME NEW c \in 1..Len(conns), NEW d \in 1..Len(conns), c < d
        PROVE  Before(T[c], T[d])'
    <3>1. T[c] = S[c] BY <1>1, <1>7, <2>2
    <3>2. Before(S[c], S[d])' /\ Before(S[c], S[d] \o part)' BY <1>1, <1>6, <2>2, BeforeSend
    <3> QED BY <1>7, <3>1, <3>2
  <2> QED BY <1>5, <2>1, <2>2 DEF FlightGood
<1>9. ReceivedGood'
  <2>1. LinesSent' BY <1>1, <1>2, <1>3 DEF ReceivedGood, LinesSent
  <2>2. NoNewlines' BY <1>1, <1>2 DEF ReceivedGood, NoNewlines
  <2>3. ReadBefore'
    <3>1. ASSUME received # <<>>, NEW c \in 1..Len(conns)
          PROVE  Before(received[Len(received)], T[c])'
      <4>1. PICK last : last = received[Len(received)] OBVIOUS
      <4>2. last \in Seq(Units) /\ Known(last) /\ Before(last, S[c])
        <5>1. received \in Seq(Seq(Units)) /\ Len(received) \in 1..Len(received)
          BY <1>1, <3>1 DEF ReceiverTyped
        <5>2. last \in Seq(Units) BY <4>1, <5>1
        <5>3. Known(last) BY <1>2, <4>1, <5>1 DEF ReceivedGood, LinesSent, Known
        <5>4. Before(last, S[c]) BY <1>2, <1>4, <3>1, <4>1 DEF ReceivedGood, ReadBefore
        <5> QED BY <5>2, <5>3, <5>4
      <4>3. Before(last, S[c])' /\ Before(last, S[c] \o part)'
        BY <1>1, <1>6, <4>2, BeforeSend
      <4>4. Before(last, T[c])' BY <1>7, <4>3
      <4> QED BY <1>1, <4>1, <4>4
    <3> QED BY <1>1, <1>5, <3>1 DEF ReadBefore
  <2> QED BY <2>1, <2>2, <2>3 DEF ReceivedGood
<1>10. UnitsInOrder'
  <2>1. Printed /\ PrintedInOrder /\ PartialInOrder BY <1>1, <1>2, LineByLine
  <2>2. \A x, y : x[1] \in Ids /\ y[1] \in Ids /\ Follows(x, y) => Follows(x, y)'
    BY <1>3 DEF Follows
  <2>3. Known(partial)
    <3>1. CASE current = 0
      BY <1>1, <3>1 DEF OrderInv, ConnsGood, NotReading, Known
    <3>2. CASE current \in 1..Len(conns)
      <4>1. S[current] = partial \o conns[current].buffer /\ Known(S[current])
            /\ conns[current].buffer \in Seq(Units) /\ partial \in Seq(Units)
        BY <1>1, <1>4, <1>6, <3>2, StreamParts DEF ReceiverTyped
      <4>2. \A k \in 1..Len(partial) : k \in 1..Len(S[current]) /\ S[current][k] = partial[k]
        BY <4>1
      <4> QED BY <4>1, <4>2 DEF Known
    <3> QED BY <1>1, <3>1, <3>2
  <2>4. \A x \in Seq(Units), y \in Seq(Units) :
          /\ Known(x) /\ InLine(x) => InLine(x)'
          /\ x # <<>> /\ Known(x) /\ Known(y) /\ Continues(x, y) => Continues(x, y)'
    <3> SUFFICES ASSUME NEW x \in Seq(Units), NEW y \in Seq(Units), Known(x)
                 PROVE  /\ InLine(x) => InLine(x)'
                        /\ x # <<>> /\ Known(y) /\ Continues(x, y) => Continues(x, y)'
      OBVIOUS
    <3>1. \A k \in 1..(Len(x) - 1) : k \in 1..Len(x) /\ k + 1 \in 1..Len(x) OBVIOUS
    <3>2. InLine(x) => InLine(x)' BY <2>2, <3>1 DEF InLine, Known
    <3>3. x # <<>> => Len(x) \in 1..Len(x) OBVIOUS
    <3>4. y # <<>> => 1 \in 1..Len(y) OBVIOUS
    <3> QED BY <2>2, <3>2, <3>3, <3>4 DEF Continues, Known
  <2>5. /\ received \in Seq(Seq(Units)) /\ partial \in Seq(Units)
        /\ \A i \in 1..Len(received) :
             received[i] \in Seq(Units) /\ Known(received[i]) /\ received[i] # <<>>
    BY <1>1, <1>2 DEF ReceiverTyped, ReceivedGood, LinesSent, Known
  <2>6. Printed' BY <1>1, <2>1, <2>4, <2>5 DEF Printed
  <2>7. PrintedInOrder'
    <3>1. \A i \in 1..(Len(received) - 1) : i \in 1..Len(received) /\ i + 1 \in 1..Len(received)
      BY <2>5
    <3>2. \A i \in 1..(Len(received) - 1) : Continues(received[i], received[i + 1])'
      BY <1>1, <2>1, <2>4, <2>5, <3>1 DEF PrintedInOrder
    <3> QED BY <1>1, <3>2 DEF PrintedInOrder
  <2>8. PartialInOrder'
    <3>1. InLine(partial)' BY <1>1, <2>1, <2>3, <2>4, <2>5 DEF PartialInOrder
    <3>2. received # <<>> => Continues(received[Len(received)], partial)'
      <4>1. received # <<>> => Len(received) \in 1..Len(received) BY <2>5
      <4> QED BY <1>1, <2>1, <2>3, <2>4, <2>5, <4>1 DEF PartialInOrder
    <3> QED BY <1>1, <3>1, <3>2 DEF PartialInOrder
  <2> QED BY <1>1, <2>6, <2>7, <2>8, LineByLineNext
<1>11. PartialWhole'
  <2>1. AllWhole' => AllWhole BY <1>3 DEF AllWhole
  <2> QED BY <1>1, <1>2, <2>1 DEF PartialWhole
<1> QED BY <1>1, <1>3, <1>8, <1>9, <1>10, <1>11 DEF Flow, OrderInv, ConnsGood, NotReading

\* The message that is sent is sent by nobody else.
LEMMA MessageSent ==
  ASSUME FeedInv, MessagesGood, NEW p \in Publishers, pc[p] = "send", Goto(p, "unlock"),
         UNCHANGED <<message, calls>>, Ids' = Ids \cup {message[p].id}
  PROVE  MessagesGood'
<1>1. /\ pc \in [Publishers -> PublisherStates] /\ pc' = [pc EXCEPT ![p] = "unlock"]
  BY DEF FeedInv, TypeOK, Goto
<1>2. Unsent(p) BY DEF Unsent
<1>3. \A q \in Publishers : Unsent(q)' => q # p /\ Unsent(q) /\ pc'[q] = pc[q]
  BY <1>1 DEF Unsent
<1>4. \A q \in Publishers : Unsent(q)' => message[q].id # message[p].id
  BY <1>2, <1>3 DEF MessagesGood
<1> QED BY <1>3, <1>4 DEF MessagesGood

LEMMA SendOrder ==
  ASSUME FeedInv, FeedInv', OrderInv, NEW p \in Publishers, Send(p)
  PROVE  OrderInv'
<1>1. /\ pc[p] = "send" /\ pc[p] \in Critical
      /\ UNCHANGED <<message, calls, receiverVars>>
  BY DEF Send, Critical, PublisherStates
<1>2. PICK line : line = Line(message[p]) OBVIOUS
<1>3. PICK fd : fd = g_socket_fd OBVIOUS
<1>4. /\ ConnsTyped /\ Len(conns) \in Nat /\ current' = current
      /\ fd \in 1..Len(conns) /\ fd = Len(conns) /\ conns # <<>>
  <2>1. ConnsTyped /\ Len(conns) \in Nat /\ g_socket_fd \in 0..Len(conns)
    BY TypeParts DEF FeedInv, TypeOK
  <2>2. g_socket_fd # 0 BY <1>1 DEF FeedInv, Protected, HasSocket
  <2>3. g_socket_fd = Len(conns) BY <2>2 DEF OrderInv, ConnsGood, Newest
  <2>4. current' = current BY <1>1 DEF receiverVars
  <2> QED BY <1>3, <2>1, <2>2, <2>3, <2>4
<1>5. /\ message[p].id \in 1..calls /\ message[p].id \notin Ids
      /\ message[p].id \in 1..MaxPublishes /\ message[p].size \in Nat \ {0}
  <2>1. Unsent(p) BY <1>1 DEF Unsent
  <2>2. /\ message[p].id \in 1..calls /\ message[p].id \notin Ids /\ message[p].size # 0
    BY <1>1, <2>1 DEF OrderInv, MessagesGood
  <2>3. message[p].id \in 1..MaxPublishes BY <1>1 DEF FeedInv, Numbered
  <2>4. message[p] \in [id : 0..MaxPublishes, size : Sizes \cup {0}] BY DEF FeedInv, TypeOK
  <2>5. Sizes \cup {0} \subseteq Nat BY FeedAssumption
  <2> QED BY <2>2, <2>3, <2>4, <2>5
<1>6. /\ line \in Seq(Units) /\ SendGood(line) /\ line[1][1] = message[p].id
      /\ \A n \in 1..Len(line) : /\ SubSeq(line, 1, n) \in Seq(Units)
                                 /\ SendGood(SubSeq(line, 1, n))
                                 /\ SubSeq(line, 1, n)[1][1] = message[p].id
  <2>1. /\ Line(message[p]) \in Seq(Units) /\ Len(Line(message[p])) \in Nat \ {0}
    BY <1>5, LineTyped
  <2>2. 1 \in 1..Len(Line(message[p])) BY <2>1
  <2> QED BY <1>2, <1>5, <2>2, PartOfLine
<1>7. ASSUME NEW part \in Seq(Units), SendGood(part), part[1][1] = message[p].id,
             sent' = Append(sent, part)
      PROVE  Ids' = Ids \cup {message[p].id}
  BY <1>1, <1>5, <1>7, SentGrows, TypeParts DEF FeedInv, OrderInv
<1>8. ASSUME Goto(p, "unlock") PROVE Connecting'
  BY <1>1, <1>8, OneInside DEF Connecting
<1>9. CASE /\ conns[fd].peer \in {"queued", "accepted"}
           /\ \E n \in Taken(line, fd) \ {0} :
                /\ Put(line, fd, n)
                /\ Goto(p, AfterSend(line, n))
                /\ sent' = Append(sent, SubSeq(line, 1, n))
           /\ UNCHANGED g_socket_fd
  <2>1. PICK n \in Taken(line, fd) \ {0} :
          /\ conns' = [conns EXCEPT ![fd].buffer = @ \o SubSeq(line, 1, n)]
          /\ Goto(p, "unlock")
          /\ sent' = Append(sent, SubSeq(line, 1, n))
    BY <1>9 DEF Put, AfterSend
  <2>2. n \in 1..Len(line)
    <3>1. conns[fd].buffer \in Seq(Units) /\ Len(conns[fd].buffer) <= Capacity /\ Len(line) \in Nat
      BY <1>4, <1>6, ConnFields
    <3>2. Len(conns[fd].buffer) \in Nat /\ Capacity \in Nat BY <3>1, FeedAssumption
    <3> QED BY <2>1, <3>1, <3>2 DEF Taken
  <2>3. PICK part : part = SubSeq(line, 1, n) OBVIOUS
  <2>4. /\ part \in Seq(Units) /\ SendGood(part) /\ part[1][1] = message[p].id
        /\ sent' = Append(sent, part)
    BY <1>6, <2>1, <2>2, <2>3
  <2>5. PICK b : b = conns[fd].buffer \o part OBVIOUS
  <2>6. conns' = [conns EXCEPT ![fd].buffer = b]
    BY <1>4, <2>1, <2>3, <2>5 DEF ConnsTyped
  <2>7. /\ Len(conns') = Len(conns)
        /\ conns'[fd].peer = conns[fd].peer /\ conns'[fd].buffer = b
        /\ \A d \in 1..Len(conns) : d # fd => conns'[d] = conns[d]
    BY <1>4, <2>6, BufferChange
  <2>8. SentGood' /\ Flow' /\ NotReading'
    BY <1>1, <1>4, <1>5, <2>4, <2>5, <2>7, SentFlow
  <2>9. MessagesGood' BY <1>1, <1>7, <2>1, <2>4, MessageSent DEF OrderInv
  <2>10. EndsGood' BY <1>4, <1>9, <2>7 DEF OrderInv, ConnsGood, EndsGood
  <2>11. Newest' BY <1>3, <1>4, <1>9, <2>7 DEF Newest
  <2> QED BY <1>8, <2>1, <2>8, <2>9, <2>10, <2>11 DEF OrderInv, ConnsGood
<1>10. CASE /\ conns[fd].peer = "closed"
            /\ conns' = [conns EXCEPT ![fd].peer = "reset"]
            /\ sent' = Append(sent, line)
            /\ Goto(p, "unlock")
            /\ UNCHANGED g_socket_fd
  <2>1. /\ Len(conns') = Len(conns) /\ conns'[fd].peer = "reset"
        /\ conns'[fd].buffer = conns[fd].buffer
        /\ \A d \in 1..Len(conns) : d # fd => conns'[d] = conns[d]
    BY <1>4, <1>10, PeerChange
  <2>2. SentGood' /\ Flow' /\ NotReading' BY <1>1, <1>4, <1>5, <1>6, <1>10, <2>1, SentFlow
  <2>3. MessagesGood' BY <1>1, <1>6, <1>7, <1>10, MessageSent DEF OrderInv
  <2>4. EndsGood' BY <1>4, <1>10, <2>1 DEF OrderInv, ConnsGood, EndsGood
  <2>5. Newest' BY <1>3, <1>4, <1>10, <2>1 DEF Newest
  <2> QED BY <1>8, <1>10, <2>2, <2>3, <2>4, <2>5 DEF OrderInv, ConnsGood
<1>11. CASE SendFails(fd) /\ Goto(p, "unlock")
  <2>1. conns' = [conns EXCEPT ![fd].own = "closed"] /\ g_socket_fd' = 0 /\ sent' = sent
    BY <1>11 DEF SendFails
  <2>2. /\ Len(conns') = Len(conns)
        /\ \A d \in 1..Len(conns) :
             conns'[d].peer = conns[d].peer /\ conns'[d].buffer = conns[d].buffer
    BY <1>4, <2>1, OwnChange
  <2>3. SentGood' /\ Flow' /\ NotReading' BY <1>1, <1>4, <2>1, <2>2, PublisherFlow
  <2>4. MessagesGood' BY <1>1, <1>11, <2>1, MessageStays DEF OrderInv
  <2>5. EndsGood' BY <1>4, <2>2 DEF OrderInv, ConnsGood, EndsGood
  <2>6. Newest' BY <2>1 DEF Newest
  <2> QED BY <1>8, <1>11, <2>3, <2>4, <2>5, <2>6 DEF OrderInv, ConnsGood
<1> QED BY <1>2, <1>3, <1>9, <1>10, <1>11 DEF Send

-----------------------------------------------------------------------------
(* The receiver.                                                            *)

\* A step of the receiver leaves alone what the publishers go by.
LEMMA ReceiverOrder ==
  ASSUME FeedInv, OrderInv, UNCHANGED <<feedVars, sent>>, Len(conns') = Len(conns),
         \A c \in 1..Len(conns) : conns[c].peer = "none" => conns'[c].peer = "none",
         EndsGood', NotReading', Flow'
  PROVE  OrderInv'
<1>1. Ids' = Ids BY SameSent
<1>2. SentGood' BY DEF OrderInv, SentGood, feedVars
<1>3. MessagesGood' BY <1>1 DEF OrderInv, MessagesGood, Unsent, feedVars
<1>4. Newest' BY DEF OrderInv, ConnsGood, Newest, feedVars
<1>5. Connecting'
  <2>1. \A p \in Publishers : pc[p] \in {"firstConnect", "connect"} => g_socket_fd \in 1..Len(conns)
    BY DEF FeedInv, Protected, HasSocket, TypeOK
  <2> QED BY <2>1 DEF OrderInv, ConnsGood, Connecting, feedVars
<1> QED BY <1>2, <1>3, <1>4, <1>5 DEF OrderInv, ConnsGood

LEMMA StreamPartsNext ==
  ASSUME TypeOK'
  PROVE  \A c \in 1..Len(conns') :
           /\ conns'[c].buffer \in Seq(Units)
           /\ c # current' => Streams'[c] = conns'[c].buffer
           /\ c = current' => Streams'[c] = partial' \o conns'[c].buffer
           /\ partial' = <<>> => Streams'[c] = conns'[c].buffer
<1>1. partial' \in Seq(Units) BY DEF TypeOK
<1>2. \A c \in 1..Len(conns') : conns'[c].buffer \in Seq(Units)
  <2>1. conns' \in Seq(ConnType) BY DEF TypeOK
  <2>2. \A c \in 1..Len(conns') : conns'[c] \in ConnType BY <2>1
  <2> QED BY <2>2 DEF ConnType
<1>3. \A b \in Seq(Units) : <<>> \o b = b OBVIOUS
<1>4. \A c \in 1..Len(conns') :
        Streams'[c] = (IF c = current' THEN partial' ELSE <<>>) \o conns'[c].buffer
  BY DEF Streams
<1>5. ASSUME NEW c \in 1..Len(conns')
      PROVE  /\ c # current' => Streams'[c] = conns'[c].buffer
             /\ c = current' => Streams'[c] = partial' \o conns'[c].buffer
             /\ partial' = <<>> => Streams'[c] = conns'[c].buffer
  <2>1. CASE c = current'
    <3>1. Streams'[c] = partial' \o conns'[c].buffer BY <1>4, <2>1
    <3>2. partial' = <<>> => Streams'[c] = conns'[c].buffer BY <1>2, <1>3, <3>1
    <3> QED BY <2>1, <3>1, <3>2
  <2>2. CASE c # current' BY <1>2, <1>3, <1>4, <2>2
  <2> QED BY <2>1, <2>2
<1> QED BY <1>2, <1>5

\* The connection that is read: what has been read of its line, then what is
\* still in its buffer.  Those before it are empty.
LEMMA Reading ==
  ASSUME FeedInv, OrderInv, current # 0
  PROVE  /\ Len(conns) \in Nat /\ current \in 1..Len(conns) /\ ReceiverTyped /\ ConnsTyped
         /\ partial \in Seq(Units) /\ Len(partial) \in Nat
         /\ conns[current].buffer \in Seq(Units) /\ Len(conns[current].buffer) \in Nat
         /\ Streams[current] = partial \o conns[current].buffer
         /\ Streams[current] \in Seq(Units) /\ StreamGood(Streams[current])
         /\ Len(Streams[current]) = Len(partial) + Len(conns[current].buffer)
         /\ \A i \in 1..Len(partial) : Streams[current][i] = partial[i]
         /\ \A i \in 1..Len(conns[current].buffer) :
              Streams[current][Len(partial) + i] = conns[current].buffer[i]
         /\ \A d \in 1..Len(conns) : d < current => Streams[d] = <<>>
<1>1. TypeOK /\ Len(conns) \in Nat /\ current \in 1..Len(conns) /\ ReceiverTyped /\ ConnsTyped
      /\ partial \in Seq(Units)
  BY TypeParts DEF FeedInv, TypeOK
<1>2. PICK b : b = conns[current].buffer OBVIOUS
<1>3. b \in Seq(Units) /\ Streams[current] = partial \o b BY <1>1, <1>2, StreamParts
<1>4. StreamGood(Streams[current]) BY <1>1 DEF OrderInv, Flow, FlightGood
<1>5. \A d \in 1..Len(conns) : d < current => Streams[d] = <<>>
  <2> SUFFICES ASSUME NEW d \in 1..Len(conns), d < current PROVE Streams[d] = <<>>
    OBVIOUS
  <2>1. d # current /\ ~(current < d) BY <1>1
  <2>2. conns[d].peer \notin {"queued", "accepted"}
    BY <2>1 DEF OrderInv, ConnsGood, EndsGood
  <2>3. conns[d].buffer = <<>> BY <2>2 DEF OrderInv, ConnsGood, EndsGood
  <2> QED BY <1>1, <2>1, <2>3, StreamParts
<1>6. /\ Streams[current] \in Seq(Units) /\ Len(partial) \in Nat /\ Len(b) \in Nat
      /\ Len(Streams[current]) = Len(partial) + Len(b)
      /\ \A i \in 1..Len(partial) : Streams[current][i] = partial[i]
      /\ \A i \in 1..Len(b) : Streams[current][Len(partial) + i] = b[i]
  BY <1>1, <1>3
<1> QED BY <1>1, <1>2, <1>3, <1>4, <1>5, <1>6

LEMMA AcceptOrder ==
  ASSUME FeedInv, FeedInv', OrderInv, Accept
  PROVE  OrderInv'
<1>1. PICK c \in Queued :
        /\ \A d \in Queued : c <= d
        /\ conns' = [conns EXCEPT ![c].peer = "accepted"]
        /\ current' = c
  BY DEF Accept
<1>2. /\ current = 0 /\ UNCHANGED <<feedVars, partial, received, sent>>
      /\ c \in 1..Len(conns) /\ conns[c].peer = "queued"
      /\ TypeOK /\ TypeOK' /\ ReceiverTyped /\ ReceiverTyped' /\ ConnsTyped /\ Len(conns) \in Nat
  <2>1. TypeOK /\ TypeOK' BY DEF FeedInv
  <2>2. ReceiverTyped /\ ConnsTyped /\ Len(conns) \in Nat BY <2>1, TypeParts DEF TypeOK
  <2>3. ReceiverTyped' BY <2>1 DEF TypeOK, ReceiverTyped
  <2> QED BY <2>1, <2>2, <2>3 DEF Accept, Queued
<1>3. /\ Len(conns') = Len(conns) /\ conns'[c].peer = "accepted"
      /\ conns'[c].buffer = conns[c].buffer
      /\ \A d \in 1..Len(conns) : d # c => conns'[d] = conns[d]
  BY <1>1, <1>2, PeerChange
<1>4. partial = <<>> BY <1>2 DEF OrderInv, ConnsGood, NotReading
<1>5. Flow'
  <2>1. ASSUME NEW d \in 1..Len(conns') PROVE d \in 1..Len(conns) /\ Streams'[d] = Streams[d]
    <3>1. d \in 1..Len(conns) /\ conns'[d].buffer = conns[d].buffer BY <1>3
    <3>2. Streams[d] = conns[d].buffer BY <1>2, <1>4, <3>1, StreamParts
    <3>3. Streams'[d] = conns'[d].buffer BY <1>2, <1>4, StreamPartsNext
    <3> QED BY <3>1, <3>2, <3>3
  <2> QED BY <1>2, <2>1, QuietStreams DEF OrderInv
<1>6. EndsGood'
  <2>1. \A d \in 1..Len(conns) : d # c => conns[d].peer # "accepted"
    BY <1>2 DEF OrderInv, ConnsGood, EndsGood
  <2>2. \A d \in 1..Len(conns) : d # c /\ conns[d].peer = "queued" => c < d
    BY <1>1, <1>2 DEF Queued
  <2>3. \A d \in 1..Len(conns) :
          conns[d].peer \notin {"queued", "accepted"} => conns[d].buffer = <<>>
    BY DEF OrderInv, ConnsGood, EndsGood
  <2> QED BY <1>1, <1>2, <1>3, <2>1, <2>2, <2>3 DEF EndsGood
<1>7. NotReading' BY <1>1, <1>2 DEF NotReading
<1>8. \A d \in 1..Len(conns) : conns[d].peer = "none" => conns'[d].peer = "none"
  BY <1>2, <1>3
<1> QED BY <1>2, <1>3, <1>5, <1>6, <1>7, <1>8, ReceiverOrder

LEMMA StopOrder ==
  ASSUME FeedInv, FeedInv', OrderInv, StopReceiver
  PROVE  OrderInv'
<1> DEFINE after(c) ==
             IF conns[c].peer = "queued" \/ c = current
               THEN [conns[c] EXCEPT
                      !.peer = IF @ = "queued" \/ conns[c].buffer # <<>> THEN "reset" ELSE "closed",
                      !.buffer = <<>>]
               ELSE conns[c]
<1>1. conns' = [c \in 1..Len(conns) |-> after(c)] BY DEF StopReceiver
<1>2. /\ UNCHANGED <<feedVars, received, sent>> /\ current' = 0 /\ partial' = <<>>
      /\ TypeOK /\ TypeOK' /\ ReceiverTyped /\ ReceiverTyped' /\ ConnsTyped /\ Len(conns) \in Nat
  <2>1. TypeOK /\ TypeOK' BY DEF FeedInv
  <2>2. ReceiverTyped /\ ConnsTyped /\ Len(conns) \in Nat BY <2>1, TypeParts DEF TypeOK
  <2>3. ReceiverTyped' BY <2>1 DEF TypeOK, ReceiverTyped
  <2> QED BY <2>1, <2>2, <2>3 DEF StopReceiver
<1>3. Len(conns') = Len(conns) /\ \A c \in 1..Len(conns) : conns'[c] = after(c)
  <2> HIDE DEF after
  <2> QED BY <1>1, <1>2
<1>4. ASSUME NEW c \in 1..Len(conns)
      PROVE  /\ conns'[c].buffer = <<>> /\ conns'[c].peer \notin {"queued", "accepted"}
             /\ conns[c].peer = "none" => conns'[c].peer = "none"
  <2>1. conns[c] \in ConnType BY <1>2, ConnFields
  <2>2. CASE conns[c].peer = "queued" \/ c = current
    <3>1. PICK peer : peer = IF conns[c].peer = "queued" \/ conns[c].buffer # <<>>
                               THEN "reset" ELSE "closed"
      OBVIOUS
    <3>2. conns'[c] = [conns[c] EXCEPT !.peer = peer, !.buffer = <<>>]
      BY <1>3, <2>2, <3>1
    <3>3. conns'[c].peer = peer /\ conns'[c].buffer = <<>> BY <2>1, <3>2 DEF ConnType
    <3>4. c = current => conns[c].peer = "accepted" BY DEF OrderInv, ConnsGood, EndsGood
    <3> QED BY <2>2, <3>1, <3>3, <3>4
  <2>3. CASE conns[c].peer # "queued" /\ c # current
    <3>1. conns'[c] = conns[c] BY <1>3, <2>3
    <3>2. conns[c].peer # "accepted" BY <2>3 DEF OrderInv, ConnsGood, EndsGood
    <3>3. conns[c].buffer = <<>> BY <2>3, <3>2 DEF OrderInv, ConnsGood, EndsGood
    <3> QED BY <2>3, <3>1, <3>2, <3>3
  <2> QED BY <2>2, <2>3
<1> HIDE DEF after
<1>5. Flow'
  <2>1. \A c \in 1..Len(conns') : Streams'[c] = <<>> BY <1>2, <1>3, <1>4, StreamPartsNext
  <2> QED BY <1>2, <2>1, QuietStreams DEF OrderInv
<1>6. EndsGood'
  <2>1. \A c \in 1..Len(conns) : c # 0 /\ ~(c < 0) OBVIOUS
  <2> QED BY <1>2, <1>3, <1>4, <2>1 DEF EndsGood
<1>7. NotReading' BY <1>2 DEF NotReading
<1> QED BY <1>2, <1>3, <1>4, <1>5, <1>6, <1>7, ReceiverOrder

LEMMA StartOrder ==
  ASSUME FeedInv, FeedInv', OrderInv, StartReceiver
  PROVE  OrderInv'
<1>1. /\ UNCHANGED <<feedVars, conns, current, partial, received, sent>>
      /\ ReceiverTyped /\ ReceiverTyped'
  <2>1. ReceiverTyped BY DEF FeedInv, TypeOK, ReceiverTyped
  <2>2. ReceiverTyped' BY DEF FeedInv, TypeOK, ReceiverTyped
  <2> QED BY <2>1, <2>2 DEF StartReceiver
<1>2. \A c \in 1..Len(conns') : c \in 1..Len(conns) /\ Streams'[c] = Streams[c]
  BY <1>1, StreamsStay
<1>3. Flow' BY <1>1, <1>2, QuietStreams DEF OrderInv
<1>4. EndsGood' /\ NotReading' BY <1>1 DEF OrderInv, ConnsGood, EndsGood, NotReading
<1> QED BY <1>1, <1>3, <1>4, ReceiverOrder

\* A unit that is not a newline is read.
LEMMA UnitRead ==
  ASSUME FeedInv, FeedInv', OrderInv, current # 0, conns[current].buffer # <<>>,
         NEW u, u = conns[current].buffer[1], u[2] # 0,
         UNCHANGED <<sent, received, current>>, partial' = Append(partial, u),
         Len(conns') = Len(conns),
         conns'[current].buffer = Tail(conns[current].buffer),
         \A d \in 1..Len(conns) : d # current => conns'[d].buffer = conns[d].buffer
  PROVE  Flow'
<1>1. PICK q : q = Streams[current] OBVIOUS
<1>2. PICK b : b = conns[current].buffer OBVIOUS
<1>3. PICK n : n = Len(partial) OBVIOUS
<1>4. /\ Len(conns) \in Nat /\ current \in 1..Len(conns) /\ ReceiverTyped
      /\ partial \in Seq(Units) /\ n \in Nat /\ b \in Seq(Units) /\ Len(b) \in Nat \ {0}
      /\ q = partial \o b /\ q \in Seq(Units) /\ StreamGood(q) /\ Len(q) = n + Len(b)
      /\ \A i \in 1..n : q[i] = partial[i]
      /\ q[n + 1] = u /\ u = b[1] /\ u \in Units
  <2>1. /\ Len(conns) \in Nat /\ current \in 1..Len(conns) /\ ReceiverTyped
        /\ partial \in Seq(Units) /\ n \in Nat /\ b \in Seq(Units) /\ Len(b) \in Nat
        /\ q = partial \o b /\ q \in Seq(Units) /\ StreamGood(q) /\ Len(q) = n + Len(b)
        /\ \A i \in 1..n : q[i] = partial[i]
        /\ \A i \in 1..Len(b) : q[n + i] = b[i]
    BY <1>1, <1>2, <1>3, Reading
  <2>2. Len(b) # 0 /\ b[1] \in Units BY <1>2, <2>1
  <2>3. 1 \in 1..Len(b) BY <2>1, <2>2
  <2> QED BY <1>2, <2>1, <2>2, <2>3
<1>5. /\ TypeOK /\ TypeOK' /\ SentGood /\ FlightGood /\ ReceivedGood /\ UnitsInOrder /\ PartialWhole
      /\ ReceiverTyped'
  BY DEF FeedInv, OrderInv, Flow, TypeOK, ReceiverTyped
<1>6. /\ Ids' = Ids
      /\ \A x : StreamGood(x)' <=> StreamGood(x)
      /\ \A x, y : Before(x, y)' <=> Before(x, y)
      /\ \A x, y : Follows(x, y)' <=> Follows(x, y)
      /\ AllWhole' <=> AllWhole
  BY SameSent
<1>7. /\ partial' \in Seq(Units) /\ Len(partial') = n + 1 /\ partial'[n + 1] = u
      /\ \A i \in 1..n : partial'[i] = partial[i]
      /\ partial' \o Tail(b) = partial \o b
  BY <1>3, <1>4
<1>8. \A c \in 1..Len(conns) : Streams'[c] = Streams[c]
  <2>1. Streams'[current] = q
    <3>1. Streams'[current] = partial' \o Tail(b) BY <1>2, <1>4, <1>5, StreamPartsNext
    <3> QED BY <1>4, <1>7, <3>1
  <2>2. ASSUME NEW c \in 1..Len(conns), c # current PROVE Streams'[c] = Streams[c]
    BY <1>5, <2>2, StreamParts, StreamPartsNext
  <2> QED BY <1>1, <2>1, <2>2
<1>9. FlightGood' BY <1>5, <1>6, <1>8 DEF FlightGood
<1>10. ReceivedGood'
  <2>1. LinesSent' BY <1>5, <1>6 DEF ReceivedGood, LinesSent
  <2>2. ReadBefore' BY <1>5, <1>6, <1>8 DEF ReceivedGood, ReadBefore
  <2>3. NoNewlines' BY <1>3, <1>4, <1>5, <1>7 DEF ReceivedGood, NoNewlines
  <2> QED BY <2>1, <2>2, <2>3 DEF ReceivedGood
<1>11. /\ WasSent(u) /\ PlaceOf(u) = u[2]
       /\ n = 0 => PlaceOf(u) = 1 /\ q[1] = u
       /\ n # 0 => LET last == partial[n] IN
                     /\ WasSent(last) /\ last[2] # 0 /\ PlaceOf(last) = last[2]
                     /\ Chained(last, u) /\ partial'[1] = partial[1]
  <2>1. WasSent(u) /\ PlaceOf(u) = u[2]
    <3>1. n + 1 \in 1..Len(q) BY <1>4
    <3> QED BY <1>4, <3>1 DEF StreamGood, PlaceOf
  <2>2. n = 0 => PlaceOf(u) = 1 /\ q[1] = u
    <3>1. q # <<>> BY <1>4
    <3> QED BY <1>4, <3>1 DEF StreamGood
  <2>3. ASSUME n # 0
        PROVE  /\ WasSent(partial[n]) /\ partial[n][2] # 0 /\ PlaceOf(partial[n]) = partial[n][2]
               /\ Chained(partial[n], u) /\ partial'[1] = partial[1]
    <3>1. n \in 1..Len(q) /\ n \in 1..(Len(q) - 1) /\ n \in 1..n /\ 1 \in 1..n BY <1>4, <2>3
    <3>2. WasSent(partial[n]) /\ Chained(partial[n], u) BY <1>4, <3>1 DEF StreamGood
    <3>3. partial[n][2] # 0 BY <1>3, <1>5, <3>1 DEF ReceivedGood, NoNewlines
    <3> QED BY <1>7, <3>1, <3>2, <3>3 DEF PlaceOf
  <2> QED BY <2>1, <2>2, <2>3
<1>12. UnitsInOrder'
  <2>1. Printed /\ PrintedInOrder /\ PartialInOrder BY <1>4, <1>5, LineByLine
  <2>2. \A x, y : /\ InLine(x)' <=> InLine(x)
                  /\ Continues(x, y)' <=> Continues(x, y)
    BY <1>6 DEF InLine, Continues
  <2>3. Printed' /\ PrintedInOrder' BY <2>1, <2>2 DEF Printed, PrintedInOrder
  <2>4. PICK l : l = partial' OBVIOUS
  <2>5. InLine(l)
    <3> SUFFICES ASSUME NEW k \in 1..(Len(l) - 1) PROVE Follows(l[k], l[k + 1])
      BY DEF InLine
    <3>1. k \in 1..n BY <1>4, <1>7, <2>4
    <3>2. CASE k = n
      <4>0. n \in Nat /\ n # 0 /\ n \in 1..n BY <1>4, <3>1, <3>2
      <4>1. n # 0 /\ l[k] = partial[n] /\ l[k + 1] = u BY <1>7, <2>4, <3>2, <4>0
      <4> QED BY <1>4, <1>5, <1>11, <4>1, ChainedFollows
    <3>3. CASE k # n
      <4>1. k \in 1..(n - 1) /\ k + 1 \in 1..n BY <1>4, <3>1, <3>3
      <4>2. l[k] = partial[k] /\ l[k + 1] = partial[k + 1] BY <1>7, <2>4, <3>1, <4>1
      <4> QED BY <1>3, <2>1, <4>1, <4>2 DEF PartialInOrder, InLine
    <3> QED BY <3>2, <3>3
  <2>6. ASSUME received # <<>> PROVE Continues(received[Len(received)], l)
    <3>1. CASE n # 0
      <4>1. partial # <<>> /\ l[1] = partial[1] BY <1>3, <1>4, <1>11, <2>4, <3>1
      <4> QED BY <2>1, <2>6, <4>1 DEF PartialInOrder, Continues
    <3>2. CASE n = 0
      <4>1. PICK line : line = received[Len(received)] OBVIOUS
      <4>2. line \in Seq(Units) /\ line # <<>> /\ Len(line) \in 1..Len(line)
        <5>1. received \in Seq(Seq(Units)) /\ Len(received) \in 1..Len(received)
          BY <1>4, <2>6 DEF ReceiverTyped
        <5>2. line # <<>> BY <1>5, <4>1, <5>1 DEF ReceivedGood, LinesSent
        <5>3. line \in Seq(Units) BY <4>1, <5>1
        <5> QED BY <5>2, <5>3
      <4>3. l[1] = u /\ q[1] = u /\ 1 \in 1..Len(q)
        <5>1. l[1] = u /\ q[1] = u BY <1>7, <1>11, <2>4, <3>2
        <5>2. Len(q) = n + Len(b) /\ Len(b) \in Nat \ {0} BY <1>4
        <5> QED BY <3>2, <5>1, <5>2
      <4>4. SendOf(line[Len(line)]) < SendOf(u)
        BY <1>1, <1>4, <1>5, <2>6, <4>1, <4>2, <4>3 DEF ReceivedGood, ReadBefore, Before
      <4>5. u[2] = 1 BY <1>11, <3>2
      <4> QED BY <4>1, <4>3, <4>4, <4>5 DEF Continues, Follows, SendOf
    <3> QED BY <3>1, <3>2
  <2>7. PartialInOrder' BY <2>2, <2>4, <2>5, <2>6 DEF PartialInOrder
  <2> QED BY <1>5, <2>3, <2>7, LineByLineNext
<1>13. PartialWhole'
  <2> SUFFICES ASSUME AllWhole, NEW k \in 1..Len(partial')
               PROVE  partial'[k] = <<partial'[1][1], k>>
    BY <1>6 DEF PartialWhole
  <2>1. u = <<u[1], u[2]>> BY <1>4 DEF Units
  <2>2. CASE n = 0
    <3>1. k = 1 /\ u[2] = 1 BY <1>7, <1>11, <2>2
    <3> QED BY <1>7, <2>1, <2>2, <3>1
  <2>3. CASE n # 0 /\ k # n + 1
    <3>1. k \in 1..n BY <1>4, <1>7, <2>3
    <3> QED BY <1>3, <1>5, <1>7, <1>11, <2>3, <3>1 DEF PartialWhole
  <2>4. CASE n # 0 /\ k = n + 1
    <3>1. PICK last : last = partial[n] OBVIOUS
    <3>2. last = <<partial[1][1], n>>
      <4>1. n \in 1..Len(partial) BY <1>3, <1>4, <2>4
      <4> QED BY <1>5, <3>1, <4>1 DEF PartialWhole
    <3>3. WasSent(last) /\ last[2] # 0 /\ PlaceOf(last) = n /\ Chained(last, u)
      BY <1>11, <2>4, <3>1, <3>2
    <3>4. ~EndsSend(last)
      <4>1. SendOf(last) \in 1..Len(sent) BY <1>4, <1>5, <3>3, SentUnit
      <4>2. EndsSend(last) => last[2] = 0
        BY <3>3, <4>1 DEF EndsSend, WasSent, AllWhole
      <4> QED BY <3>3, <4>2
    <3>5. SendOf(u) = SendOf(last) /\ PlaceOf(u) = n + 1 BY <3>3, <3>4 DEF Chained
    <3>6. u[1] = last[1] BY <1>4, <1>5, <1>11, <3>3, <3>5, SentUnit
    <3> QED BY <1>7, <1>11, <2>1, <2>4, <3>2, <3>5, <3>6
  <2> QED BY <2>2, <2>3, <2>4
<1> QED BY <1>9, <1>10, <1>12, <1>13 DEF Flow

\* The line that was read is printed: rest is what then is left of the stream.
LEMMA LineRead ==
  ASSUME FeedInv, FeedInv', OrderInv, current # 0, partial # <<>>,
         UNCHANGED sent, received' = Append(received, partial), partial' = <<>>,
         Len(conns') = Len(conns),
         \A d \in 1..Len(conns) : d # current => conns'[d].buffer = conns[d].buffer,
         NEW rest, rest = conns'[current].buffer, StreamGood(rest), Before(partial, rest),
         \A i \in 1..Len(rest) : \E j \in 1..Len(Streams[current]) : rest[i] = Streams[current][j]
  PROVE  Flow'
<1>1. PICK S : S = Streams OBVIOUS
<1>2. PICK T : T = Streams' OBVIOUS
<1>3. PICK n : n = Len(partial) OBVIOUS
<1>4. /\ Len(conns) \in Nat /\ current \in 1..Len(conns) /\ ReceiverTyped
      /\ partial \in Seq(Units) /\ n \in Nat /\ n # 0
      /\ StreamGood(S[current])
      /\ \A i \in 1..n : i \in 1..Len(S[current]) /\ S[current][i] = partial[i]
      /\ \A d \in 1..Len(conns) : d < current => S[d] = <<>>
  <2>1. /\ Len(conns) \in Nat /\ current \in 1..Len(conns) /\ ReceiverTyped
        /\ partial \in Seq(Units) /\ n \in Nat
        /\ StreamGood(S[current])
        /\ Len(S[current]) = n + Len(conns[current].buffer) /\ Len(conns[current].buffer) \in Nat
        /\ \A i \in 1..n : S[current][i] = partial[i]
        /\ \A d \in 1..Len(conns) : d < current => S[d] = <<>>
    BY <1>1, <1>3, Reading
  <2>2. n # 0 BY <1>3, <2>1
  <2>3. \A i \in 1..n : i \in 1..Len(S[current]) BY <2>1
  <2> QED BY <2>1, <2>2, <2>3
<1>5. /\ TypeOK /\ TypeOK' /\ FlightGood /\ ReceivedGood /\ UnitsInOrder /\ ReceiverTyped'
  BY DEF FeedInv, OrderInv, Flow, TypeOK, ReceiverTyped
<1>6. /\ Ids' = Ids
      /\ \A x : StreamGood(x)' <=> StreamGood(x)
      /\ \A x, y : Before(x, y)' <=> Before(x, y)
      /\ \A x, y : Follows(x, y)' <=> Follows(x, y)
  BY SameSent
<1>7. /\ T[current] = rest
      /\ \A c \in 1..Len(conns) : c # current => T[c] = S[c]
  <2>1. \A c \in 1..Len(conns) : T[c] = conns'[c].buffer BY <1>2, <1>5, StreamPartsNext
  <2>2. \A c \in 1..Len(conns) : c # current => S[c] = conns[c].buffer BY <1>1, <1>5, StreamParts
  <2> QED BY <1>4, <2>1, <2>2
<1>8. /\ \A c \in 1..Len(conns) : StreamGood(S[c])
      /\ \A c, d \in 1..Len(conns) : c < d => Before(S[c], S[d])
  BY <1>1, <1>5 DEF FlightGood
<1>9. FlightGood'
  <2>1. \A c \in 1..Len(conns) : StreamGood(T[c]) BY <1>7, <1>8
  <2>2. ASSUME NEW c \in 1..Len(conns), NEW d \in 1..Len(conns), c < d
        PROVE  Before(T[c], T[d])
    <3>1. CASE c = current
      <4>0. d # current BY <2>2, <3>1
      <4>1. Before(S[c], S[d]) /\ T[d] = S[d] /\ T[c] = rest BY <1>7, <1>8, <2>2, <3>1, <4>0
      <4>2. Before(S[current], T[d]) BY <3>1, <4>1
      <4>3. Before(rest, T[d]) BY <1>1, <4>2 DEF Before
      <4> QED BY <4>1, <4>3
    <3>2. CASE d = current
      <4>1. T[c] = <<>> BY <1>4, <1>7, <2>2, <3>2
      <4> QED BY <4>1 DEF Before
    <3>3. CASE c # current /\ d # current BY <1>7, <1>8, <2>2, <3>3
    <3> QED BY <3>1, <3>2, <3>3
  <2> QED BY <1>2, <1>6, <2>1, <2>2 DEF FlightGood
<1>10. /\ received \in Seq(Seq(Units)) /\ Len(received) \in Nat
       /\ Len(received') = Len(received) + 1 /\ received'[Len(received) + 1] = partial
       /\ \A i \in 1..Len(received) : received'[i] = received[i]
       /\ received' # <<>>
  <2>1. received \in Seq(Seq(Units)) /\ Len(received) \in Nat BY <1>4 DEF ReceiverTyped
  <2>2. /\ Len(received') = Len(received) + 1 /\ received'[Len(received) + 1] = partial
        /\ \A i \in 1..Len(received) : received'[i] = received[i]
    BY <1>4, <2>1
  <2>3. received' # <<>> BY <2>1, <2>2
  <2> QED BY <2>1, <2>2, <2>3
<1>11. ReceivedGood'
  <2>1. LinesSent'
    <3>1. \A k \in 1..n : partial[k][1] \in Ids BY <1>4 DEF StreamGood, WasSent
    <3> QED BY <1>3, <1>5, <1>6, <1>10, <3>1 DEF ReceivedGood, LinesSent
  <2>2. ReadBefore'
    <3> SUFFICES ASSUME NEW c \in 1..Len(conns) PROVE Before(partial, T[c])
      BY <1>2, <1>6, <1>10 DEF ReadBefore
    <3>1. CASE c = current BY <1>7, <3>1
    <3>2. CASE c < current
      <4>1. T[c] = <<>> BY <1>4, <1>7, <3>2
      <4> QED BY <4>1 DEF Before
    <3>3. CASE current < c
      <4>1. Before(S[current], S[c]) /\ T[c] = S[c] BY <1>4, <1>7, <1>8, <3>3
      <4> QED BY <1>3, <1>4, <4>1 DEF Before
    <3> QED BY <1>4, <3>1, <3>2, <3>3
  <2>3. NoNewlines' BY DEF NoNewlines
  <2> QED BY <2>1, <2>2, <2>3 DEF ReceivedGood
<1>12. UnitsInOrder'
  <2>1. Printed /\ PrintedInOrder /\ PartialInOrder BY <1>4, <1>5, LineByLine
  <2>2. \A x, y : /\ InLine(x)' <=> InLine(x)
                  /\ Continues(x, y)' <=> Continues(x, y)
    BY <1>6 DEF InLine, Continues
  <2>3. Printed'
    <3>1. \A i \in 1..Len(received') : InLine(received'[i])
      BY <1>10, <2>1 DEF Printed, PartialInOrder
    <3> QED BY <2>2, <3>1 DEF Printed
  <2>4. PrintedInOrder'
    <3> SUFFICES ASSUME NEW i \in 1..(Len(received') - 1)
                 PROVE  Continues(received'[i], received'[i + 1])
      BY <2>2 DEF PrintedInOrder
    <3>1. i \in 1..Len(received) BY <1>10
    <3>2. CASE i = Len(received)
      <4>1. received # <<>> BY <1>10, <3>1
      <4>2. received'[i] = received[Len(received)] /\ received'[i + 1] = partial
        BY <1>10, <3>1, <3>2
      <4> QED BY <2>1, <4>1, <4>2 DEF PartialInOrder
    <3>3. CASE i # Len(received)
      <4>1. i \in 1..(Len(received) - 1) /\ i + 1 \in 1..Len(received) BY <1>10, <3>1, <3>3
      <4> QED BY <1>10, <2>1, <3>1, <4>1 DEF PrintedInOrder
    <3> QED BY <3>2, <3>3
  <2>5. PartialInOrder' BY DEF PartialInOrder, InLine, Continues
  <2> QED BY <1>5, <2>3, <2>4, <2>5, LineByLineNext
<1>13. PartialWhole' BY DEF PartialWhole
<1> QED BY <1>9, <1>11, <1>12, <1>13 DEF Flow

\* A newline comes after the line it ends, and what follows was sent later.
LEMMA NewlineRead ==
  ASSUME FeedInv, OrderInv, current # 0, conns[current].buffer # <<>>,
         conns[current].buffer[1][2] = 0,
         NEW rest, rest = Tail(conns[current].buffer)
  PROVE  /\ partial # <<>> /\ StreamGood(rest) /\ Before(partial, rest)
         /\ \A i \in 1..Len(rest) : \E j \in 1..Len(Streams[current]) : rest[i] = Streams[current][j]
<1>1. PICK q : q = Streams[current] OBVIOUS
<1>2. PICK b : b = conns[current].buffer OBVIOUS
<1>3. PICK n : n = Len(partial) OBVIOUS
<1>4. /\ ReceiverTyped /\ SentGood
      /\ partial \in Seq(Units) /\ n \in Nat /\ b \in Seq(Units) /\ Len(b) \in Nat
      /\ q \in Seq(Units) /\ StreamGood(q) /\ Len(q) = n + Len(b)
      /\ \A i \in 1..n : q[i] = partial[i]
      /\ \A i \in 1..Len(b) : q[n + i] = b[i]
  BY <1>1, <1>2, <1>3, Reading DEF OrderInv
<1>5. Len(b) # 0 BY <1>2, <1>4
<1>6. 1 \in 1..Len(b) /\ n + 1 \in 1..Len(q) /\ q[n + 1] = b[1] BY <1>4, <1>5
<1>7. q[n + 1][2] = 0 BY <1>2, <1>6
<1>8. partial # <<>>
  <2> SUFFICES ASSUME n = 0 PROVE FALSE
    BY <1>3, <1>4
  <2>1. q # <<>> BY <1>4, <1>5
  <2>2. WasSent(q[n + 1]) /\ PlaceOf(q[n + 1]) = 1 BY <1>4, <1>6, <2>1 DEF StreamGood
  <2>3. PlaceOf(q[n + 1]) > 1 BY <1>4, <1>7, <2>2, SentUnit
  <2> QED BY <2>2, <2>3
<1>9. /\ rest \in Seq(Units) /\ Len(rest) = Len(b) - 1
      /\ \A i \in 1..Len(rest) : rest[i] = b[i + 1]
  BY <1>2, <1>4, <1>5
<1>10. ASSUME NEW i \in 1..Len(rest)
       PROVE  rest[i] = q[i + (n + 1)] /\ i + (n + 1) \in 1..Len(q)
  <2>1. i + 1 \in 1..Len(b) /\ n + (i + 1) = i + (n + 1) BY <1>4, <1>9
  <2> QED BY <1>4, <1>9, <2>1
<1>11. Len(rest) = Len(q) - (n + 1) BY <1>4, <1>9
<1>12. /\ StreamGood(rest)
       /\ \A h \in 1..(n + 1), i \in 1..Len(rest) : SendOf(q[h]) < SendOf(rest[i])
  BY <1>4, <1>6, <1>7, <1>9, <1>10, <1>11, StreamDrop
<1>13. Before(partial, rest)
  <2>1. \A h \in 1..n : h \in 1..(n + 1) /\ q[h] = partial[h] BY <1>4
  <2> QED BY <1>3, <1>12, <2>1 DEF Before
<1> QED BY <1>1, <1>8, <1>10, <1>12, <1>13

LEMMA ReadOrder ==
  ASSUME FeedInv, FeedInv', OrderInv, Read
  PROVE  OrderInv'
<1>1. PICK b : b = conns[current].buffer OBVIOUS
<1>2. PICK u : u = b[1] OBVIOUS
<1>3. PICK rest : rest = Tail(b) OBVIOUS
<1>4. /\ current # 0 /\ b # <<>> /\ UNCHANGED <<feedVars, current, sent>>
      /\ ConnsTyped /\ Len(conns) \in Nat /\ current \in 1..Len(conns) /\ b \in Seq(Units)
  BY <1>1, Reading DEF Read
<1>5. conns' = [conns EXCEPT ![current].buffer = rest]
  BY <1>1, <1>3, <1>4 DEF Read, ConnsTyped
<1>6. /\ Len(conns') = Len(conns)
      /\ conns'[current].peer = conns[current].peer /\ conns'[current].buffer = rest
      /\ \A d \in 1..Len(conns) : d # current => conns'[d] = conns[d]
  BY <1>4, <1>5, BufferChange
<1>7. Flow'
  <2>1. Head(conns[current].buffer) = u BY <1>1, <1>2
  <2>2. CASE u[2] # 0
    <3>1. partial' = Append(partial, u) /\ received' = received BY <2>1, <2>2 DEF Read
    <3> QED BY <1>1, <1>2, <1>3, <1>4, <1>6, <2>2, <3>1, UnitRead
  <2>3. CASE u[2] = 0
    <3>1. /\ partial # <<>> /\ StreamGood(rest) /\ Before(partial, rest)
          /\ \A i \in 1..Len(rest) :
               \E j \in 1..Len(Streams[current]) : rest[i] = Streams[current][j]
      <4>1. /\ conns[current].buffer # <<>> /\ conns[current].buffer[1][2] = 0
            /\ rest = Tail(conns[current].buffer)
        BY <1>1, <1>2, <1>3, <1>4, <2>3
      <4> QED BY <1>4, <4>1, NewlineRead
    <3>2. partial' = <<>> /\ received' = Append(received, partial)
      BY <2>1, <2>3, <3>1 DEF Read
    <3> QED BY <1>4, <1>6, <3>1, <3>2, LineRead
  <2> QED BY <2>2, <2>3
<1>8. EndsGood'
  <2>1. conns[current].peer = "accepted" BY <1>4 DEF OrderInv, ConnsGood, EndsGood
  <2> QED BY <1>4, <1>6, <2>1 DEF OrderInv, ConnsGood, EndsGood
<1>9. NotReading' BY <1>4 DEF NotReading
<1> QED BY <1>4, <1>6, <1>7, <1>8, <1>9, ReceiverOrder

LEMMA EndOrder ==
  ASSUME FeedInv, FeedInv', OrderInv, EndOfStream
  PROVE  OrderInv'
<1>1. /\ current # 0 /\ current' = 0 /\ partial' = <<>> /\ UNCHANGED <<feedVars, sent>>
      /\ conns[current].buffer = <<>> /\ conns' = [conns EXCEPT ![current].peer = "closed"]
      /\ received' = IF partial = <<>> THEN received ELSE Append(received, partial)
  BY DEF EndOfStream
<1>2. /\ ConnsTyped /\ Len(conns) \in Nat /\ current \in 1..Len(conns)
      /\ ReceiverTyped /\ ReceiverTyped' /\ TypeOK /\ TypeOK'
  BY <1>1, Reading DEF FeedInv, TypeOK, ReceiverTyped
<1>3. /\ Len(conns') = Len(conns)
      /\ conns'[current].peer = "closed" /\ conns'[current].buffer = <<>>
      /\ \A d \in 1..Len(conns) : d # current => conns'[d] = conns[d]
  BY <1>1, <1>2, PeerChange
<1>4. Flow'
  <2>1. CASE partial = <<>>
    <3>1. ASSUME NEW c \in 1..Len(conns') PROVE c \in 1..Len(conns) /\ Streams'[c] = Streams[c]
      <4>1. c \in 1..Len(conns) /\ conns'[c].buffer = conns[c].buffer BY <1>1, <1>3
      <4>2. Streams[c] = conns[c].buffer BY <1>2, <2>1, <4>1, StreamParts
      <4>3. Streams'[c] = conns'[c].buffer BY <1>1, <1>2, StreamPartsNext
      <4> QED BY <4>1, <4>2, <4>3
    <3> QED BY <1>1, <1>2, <2>1, <3>1, QuietStreams DEF OrderInv
  <2>2. CASE partial # <<>>
    <3>1. PICK rest : rest = <<>> OBVIOUS
    <3>2. StreamGood(rest) /\ Before(partial, rest) /\ Len(rest) = 0
      BY <3>1, EmptyStream DEF Before
    <3> QED BY <1>1, <1>3, <2>2, <3>1, <3>2, LineRead
  <2> QED BY <2>1, <2>2
<1>5. EndsGood'
  <2>1. \A d \in 1..Len(conns) : d # 0 /\ (d # current => conns[d].peer # "accepted")
    BY <1>2 DEF OrderInv, ConnsGood, EndsGood
  <2>2. \A d \in 1..Len(conns) : 0 < d OBVIOUS
  <2>3. \A d \in 1..Len(conns) :
          conns[d].peer \notin {"queued", "accepted"} => conns[d].buffer = <<>>
    BY DEF OrderInv, ConnsGood, EndsGood
  <2> QED BY <1>1, <1>2, <1>3, <2>1, <2>2, <2>3 DEF EndsGood
<1>6. NotReading' BY <1>1 DEF NotReading
<1>7. \A d \in 1..Len(conns) : conns[d].peer = "none" => conns'[d].peer = "none"
  <2>1. conns[current].peer = "accepted" BY <1>2 DEF OrderInv, ConnsGood, EndsGood
  <2> QED BY <1>3, <2>1
<1> QED BY <1>1, <1>3, <1>4, <1>5, <1>6, <1>7, ReceiverOrder

-----------------------------------------------------------------------------
LEMMA InitOrder ==
  ASSUME Init
  PROVE  OrderInv
<1>1. /\ conns = <<>> /\ Len(conns) = 0 /\ sent = <<>> /\ received = <<>> /\ partial = <<>>
      /\ current = 0 /\ g_socket_fd = 0 /\ \A p \in Publishers : pc[p] = "idle"
  BY DEF Init
<1>2. SentGood /\ MessagesGood BY <1>1 DEF SentGood, MessagesGood, Unsent
<1>3. ConnsGood BY <1>1 DEF ConnsGood, EndsGood, Newest, NotReading, Connecting
<1>4. FlightGood /\ ReceivedGood /\ PartialWhole
  BY <1>1 DEF FlightGood, ReceivedGood, LinesSent, ReadBefore, NoNewlines, PartialWhole
<1>5. UnitsInOrder
  <2>1. Append(received, partial) = <<(<<>>)>> BY <1>1
  <2> QED BY <2>1 DEF UnitsInOrder
<1> QED BY <1>2, <1>3, <1>4, <1>5 DEF OrderInv, Flow

LEMMA StepOrder ==
  ASSUME FeedInv, FeedInv', OrderInv, Next
  PROVE  OrderInv'
<1>1. ASSUME NEW p \in Publishers, PublisherStep(p) PROVE OrderInv'
  BY <1>1, InitializeOrder, LockOrder, EnsureOrder, ConnectOrder, SendOrder, UnlockOrder
  DEF PublisherStep
<1>2. CASE Receive BY <1>2, AcceptOrder, ReadOrder, EndOrder DEF Receive
<1> QED BY <1>1, <1>2, PublishOrder, StopOrder, StartOrder DEF Next

\* The streams and what was read of them, in every reachable state.
THEOREM OrderInvariant == Spec => []OrderInv
<1>1. OrderInv /\ FeedInv /\ FeedInv' /\ [Next]_vars => OrderInv'
  <2> SUFFICES ASSUME OrderInv, FeedInv, FeedInv', [Next]_vars PROVE OrderInv'
    OBVIOUS
  <2>1. CASE UNCHANGED vars
    <3>1. UNCHANGED <<feedVars, conns, current, partial, received, sent>>
      BY <2>1 DEF vars, receiverVars
    <3>2. ReceiverTyped /\ ReceiverTyped'
      BY DEF FeedInv, TypeOK, ReceiverTyped
    <3>3. \A c \in 1..Len(conns') : c \in 1..Len(conns) /\ Streams'[c] = Streams[c]
      BY <3>1, StreamsStay
    <3>4. Flow' BY <3>1, <3>2, <3>3, QuietStreams DEF OrderInv
    <3>5. EndsGood' /\ NotReading' BY <3>1 DEF OrderInv, ConnsGood, EndsGood, NotReading
    <3> QED BY <3>1, <3>4, <3>5, ReceiverOrder
  <2> QED BY <2>1, StepOrder
<1> QED BY <1>1, InitOrder, Invariant, PTL DEF Spec

\* The receiver reads the units in the order in which the messages were sent,
\* none twice, and never two messages in one line, through short sends, stops
\* and reconnects.
THEOREM ReadInOrder == Spec => []UnitsInOrder
BY OrderInvariant, PTL DEF OrderInv, Flow

-----------------------------------------------------------------------------
(* The feed implements LineFeed until a send is cut short.                  *)

Trimmed == [i \in 1..Len(sent) |-> SubSeq(sent[i], 1, Len(sent[i]) - 1)]

LEMMA FunctionSequence ==
  ASSUME NEW S, NEW n \in Nat, NEW f \in [1..n -> S]
  PROVE  f \in Seq(S)
OBVIOUS

LEMMA SilentLines ==
  ASSUME UNCHANGED <<sent, received>>
  PROVE  UNCHANGED Lines!vars
<1>1. LastReceived' = LastReceived BY DEF LastReceived, SentAt
<1>2. Trimmed' = Trimmed BY DEF Trimmed
<1> QED BY <1>1, <1>2 DEF Lines!vars, Trimmed

\* A send adds its line to the lines of LineFeed; what was read keeps its
\* position.
LEMMA SentLines ==
  ASSUME FeedInv, FeedInv', OrderInv, OrderInv',
         NEW part, sent' = Append(sent, part), received' = received
  PROVE  Lines!Next
<1>1. sent \in Seq(Seq(Units)) /\ sent' \in Seq(Seq(Units)) /\ Len(sent) \in Nat
  BY DEF FeedInv, TypeOK
<1>2. /\ Len(sent') = Len(sent) + 1 /\ sent'[Len(sent) + 1] = part
      /\ \A s \in 1..Len(sent) : sent'[s] = sent[s]
  BY <1>1
<1>3. ASSUME NEW id \in Ids PROVE SentAt(id)' = SentAt(id)
  <2>1. SentGood /\ SentGood' BY DEF OrderInv
  <2>2. SentAt(id) \in 1..Len(sent) /\ sent[SentAt(id)][1][1] = id BY <2>1, SentAtId
  <2>3. SentAt(id) \in 1..Len(sent') /\ sent'[SentAt(id)][1][1] = id BY <1>1, <1>2, <2>2
  <2>4. \A r, s \in 1..Len(sent') : sent'[r][1][1] = sent'[s][1][1] => r = s
    BY <2>1 DEF SentGood
  <2> QED BY <2>3, <2>4 DEF SentAt
<1>4. LastReceived' = LastReceived
  <2>1. CASE received = <<>> BY <2>1 DEF LastReceived
  <2>2. CASE received # <<>>
    <3>1. PICK line : line = received[Len(received)] OBVIOUS
    <3>2. line \in Seq(Units) /\ line # <<>> /\ \A k \in 1..Len(line) : line[k][1] \in Ids
      <4>1. received \in Seq(Seq(Units)) /\ Len(received) \in 1..Len(received)
        BY <2>2 DEF FeedInv, TypeOK
      <4>2. line \in Seq(Units) BY <3>1, <4>1
      <4> QED BY <3>1, <4>1, <4>2 DEF OrderInv, Flow, ReceivedGood, LinesSent
    <3>3. line[1][1] \in Ids
      <4>1. 1 \in 1..Len(line) BY <3>2
      <4> QED BY <3>2, <4>1
    <3>4. SentAt(line[1][1])' = SentAt(line[1][1]) BY <1>3, <3>3
    <3>5. LastReceived = SentAt(line[1][1]) BY <2>2, <3>1 DEF LastReceived
    <3>6. LastReceived' = SentAt(line[1][1])' BY <2>2, <3>1 DEF LastReceived
    <3> QED BY <3>4, <3>5, <3>6
  <2> QED BY <2>1, <2>2
<1>5. PICK T : T = Trimmed OBVIOUS
<1>6. PICK U : U = Trimmed' OBVIOUS
<1>7. /\ Len(T) = Len(sent) /\ Len(U) = Len(sent) + 1
      /\ U # T /\ U = Append(T, U[Len(U)])
  <2>1. T = [i \in 1..Len(sent) |-> SubSeq(sent[i], 1, Len(sent[i]) - 1)] BY <1>5 DEF Trimmed
  <2>2. U = [i \in 1..Len(sent') |-> SubSeq(sent'[i], 1, Len(sent'[i]) - 1)]
    BY <1>6 DEF Trimmed
  <2>3. \A i \in 1..Len(sent) : U[i] = T[i] BY <1>1, <1>2, <2>1, <2>2
  <2>4. T \in Seq(Seq(Units)) /\ U \in Seq(Seq(Units))
    <3>1. \A l \in Seq(Units) : SubSeq(l, 1, Len(l) - 1) \in Seq(Units) OBVIOUS
    <3>2. \A i \in 1..Len(sent) : T[i] \in Seq(Units) BY <1>1, <2>1, <3>1
    <3>3. \A i \in 1..Len(sent') : U[i] \in Seq(Units) BY <1>1, <2>2, <3>1
    <3>4. Len(sent') \in Nat BY <1>1
    <3>5. T \in [1..Len(sent) -> Seq(Units)] BY <2>1, <3>2
    <3>6. U \in [1..Len(sent') -> Seq(Units)] BY <2>2, <3>3
    <3> QED BY <1>1, <3>4, <3>5, <3>6, FunctionSequence
  <2>5. DOMAIN T = 1..Len(sent) /\ DOMAIN U = 1..Len(sent') BY <2>1, <2>2
  <2>6. Len(T) = Len(sent) BY <1>1, <2>4, <2>5
  <2>7. Len(U) = Len(sent) + 1 BY <1>1, <1>2, <2>4, <2>5
  <2>8. U # T BY <1>1, <2>6, <2>7
  <2>9. U = Append(T, U[Len(U)]) BY <1>1, <2>3, <2>4, <2>6, <2>7
  <2> QED BY <2>6, <2>7, <2>8, <2>9
<1>8. Trimmed' # Trimmed /\ Lines!Send(Trimmed'[Len(Trimmed')])
  BY <1>4, <1>5, <1>6, <1>7 DEF Lines!Send, Trimmed
<1> QED BY <1>8 DEF Lines!Next, Trimmed

\* While the sends are whole, the newline ends a whole message: what was read of
\* it is all that was sent.
LEMMA WholeLine ==
  ASSUME FeedInv, OrderInv, AllWhole, current # 0, conns[current].buffer # <<>>,
         conns[current].buffer[1][2] = 0
  PROVE  /\ partial \in Seq(Units) /\ Len(partial) \in Nat \ {0} /\ Len(Streams[current]) > 1
         /\ Streams[current][1] = partial[1]
         /\ SendOf(partial[1]) \in 1..Len(sent)
         /\ sent[SendOf(partial[1])] = Append(partial, <<partial[1][1], 0>>)
<1>1. PICK q : q = Streams[current] OBVIOUS
<1>2. PICK b : b = conns[current].buffer OBVIOUS
<1>3. PICK n : n = Len(partial) OBVIOUS
<1>4. PICK u : u = b[1] OBVIOUS
<1>5. /\ ReceiverTyped /\ SentGood /\ current \in 1..Len(conns)
      /\ partial \in Seq(Units) /\ n \in Nat \ {0} /\ Len(b) \in Nat \ {0}
      /\ StreamGood(q) /\ Len(q) = n + Len(b)
      /\ \A i \in 1..n : q[i] = partial[i]
      /\ q[n + 1] = u /\ u[2] = 0
  <2>1. /\ ReceiverTyped /\ SentGood /\ current \in 1..Len(conns)
        /\ partial \in Seq(Units) /\ n \in Nat /\ b \in Seq(Units) /\ Len(b) \in Nat
        /\ StreamGood(q) /\ Len(q) = n + Len(b)
        /\ \A i \in 1..n : q[i] = partial[i]
        /\ \A i \in 1..Len(b) : q[n + i] = b[i]
    BY <1>1, <1>2, <1>3, Reading DEF OrderInv
  <2>2. partial # <<>> BY NewlineRead
  <2>3. n # 0 /\ Len(b) # 0 /\ 1 \in 1..Len(b) BY <1>2, <1>3, <2>1, <2>2
  <2> QED BY <1>2, <1>4, <2>1, <2>2, <2>3
<1>6. PICK s : s = SendOf(partial[1]) OBVIOUS
<1>7. PICK end : end = <<partial[1][1], 0>> OBVIOUS
<1>8. \A k \in 1..n : /\ partial[k] = <<partial[1][1], k>> /\ SendOf(partial[k]) = s
                      /\ WasSent(partial[k]) /\ PlaceOf(partial[k]) = k
  <2> SUFFICES ASSUME NEW k \in 1..n
               PROVE  /\ partial[k] = <<partial[1][1], k>> /\ SendOf(partial[k]) = s
                      /\ WasSent(partial[k]) /\ PlaceOf(partial[k]) = k
    OBVIOUS
  <2>1. partial[k] = <<partial[1][1], k>>
    BY <1>3 DEF OrderInv, Flow, PartialWhole
  <2>2. partial[k][1] = partial[1][1] /\ partial[k][2] = k /\ k # 0 BY <2>1
  <2>3. SendOf(partial[k]) = s BY <1>6, <2>2 DEF SendOf
  <2>4. WasSent(partial[k])
    <3>1. k \in 1..Len(q) BY <1>5
    <3> QED BY <1>5, <3>1 DEF StreamGood
  <2> QED BY <2>1, <2>2, <2>3, <2>4 DEF PlaceOf
<1>9. /\ s \in 1..Len(sent) /\ sent[s] \in Seq(Units) /\ Len(sent[s]) = n + 1
      /\ \A k \in 1..n : sent[s][k] = partial[k]
      /\ sent[s][n + 1] = end
  <2>1. 1 \in 1..n /\ n \in 1..n /\ n \in 1..(Len(q) - 1) /\ n + 1 \in 1..Len(q) BY <1>5
  <2>2. s \in 1..Len(sent) BY <1>5, <1>6, <1>8, <2>1, SentUnit
  <2>3. sent[s] \in Seq(Units) BY <1>5, <2>2 DEF ReceiverTyped
  <2>4. Chained(partial[n], u) /\ WasSent(u) BY <1>5, <2>1 DEF StreamGood
  <2>5. SendOf(u) = s /\ PlaceOf(u) = n + 1
    BY <1>5, <1>8, <2>1, <2>4, AroundNewline
  <2>6. PlaceOf(u) = Len(sent[SendOf(u)]) BY <1>5 DEF PlaceOf
  <2>7. \A k \in 1..n : sent[s][k] = partial[k] BY <1>8 DEF WasSent
  <2>8. sent[s][n + 1] = u /\ sent[s][1] = partial[1]
    BY <2>1, <2>4, <2>5, <2>7 DEF WasSent
  <2>9. u[1] = partial[1][1] BY <1>5, <2>4, <2>5, <2>8, SentUnit
  <2>10. u = <<u[1], u[2]>>
    <3>1. u \in Units BY <2>2, <2>3, <2>5, <2>6, <2>8, <1>5
    <3> QED BY <3>1 DEF Units
  <2>11. u = end BY <1>7, <1>5, <2>9, <2>10
  <2> QED BY <2>2, <2>3, <2>5, <2>6, <2>7, <2>8, <2>11
<1>10. sent[s] = Append(partial, end)
  <2>1. PICK l : l = sent[s] OBVIOUS
  <2>2. PICK t : t = Append(partial, end) OBVIOUS
  <2>4. /\ l \in Seq(Units) /\ Len(l) = n + 1 /\ l[n + 1] = end
        /\ \A k \in 1..n : l[k] = partial[k]
    BY <1>9, <2>1
  <2>5. end \in Units
    <3>1. n + 1 \in 1..Len(l) BY <1>5, <2>4
    <3> QED BY <2>4, <3>1
  <2>6. /\ t \in Seq(Units) /\ Len(t) = n + 1 /\ t[n + 1] = end
        /\ \A k \in 1..n : t[k] = partial[k]
    BY <1>3, <1>5, <2>2, <2>5
  <2>7. \A k \in 1..(n + 1) : l[k] = t[k]
    <3>1. \A k \in 1..(n + 1) : k \in 1..n \/ k = n + 1 BY <1>5
    <3> QED BY <2>4, <2>6, <3>1
  <2>8. l = t BY <1>5, <2>4, <2>6, <2>7
  <2> QED BY <2>1, <2>2, <2>8
<1>11. Len(q) > 1 /\ q[1] = partial[1]
  <2>1. 1 \in 1..n /\ n + Len(b) > 1 BY <1>5
  <2> QED BY <1>5, <2>1
<1> QED BY <1>7, <1>1, <1>3, <1>5, <1>6, <1>9, <1>10, <1>11

\* Its send comes after that of the last line printed.
LEMMA PrintedLines ==
  ASSUME FeedInv, OrderInv, AllWhole, current # 0, conns[current].buffer # <<>>,
         conns[current].buffer[1][2] = 0,
         received' = Append(received, partial), sent' = sent
  PROVE  Lines!Next
<1>1. PICK q : q = Streams[current] OBVIOUS
<1>2. PICK s : s = SendOf(partial[1]) OBVIOUS
<1>3. /\ ReceiverTyped /\ SentGood /\ current \in 1..Len(conns)
      /\ partial \in Seq(Units) /\ Len(partial) \in Nat \ {0}
      /\ Len(q) > 1 /\ Len(q) \in Nat /\ q[1] = partial[1]
      /\ s \in 1..Len(sent) /\ sent[s] = Append(partial, <<partial[1][1], 0>>)
  <2>1. /\ ReceiverTyped /\ SentGood /\ current \in 1..Len(conns) /\ q \in Seq(Units)
    BY <1>1, Reading DEF OrderInv
  <2> QED BY <1>1, <1>2, <2>1, WholeLine
<1>4. SubSeq(sent[s], 1, Len(sent[s]) - 1) = partial
  <2>1. PICK end : end = <<partial[1][1], 0>> OBVIOUS
  <2>2. PICK n : n = Len(partial) OBVIOUS
  <2>3. PICK l : l = sent[s] OBVIOUS
  <2>4. l = Append(partial, end) BY <1>3, <2>1, <2>3
  <2>5. sent \in Seq(Seq(Units)) /\ s \in 1..Len(sent) BY <1>3 DEF ReceiverTyped
  <2>6. l \in Seq(Units) BY <2>3, <2>5
  <2>7. partial \in Seq(Units) /\ n \in Nat BY <1>3, <2>2
  <2>8. Len(l) = n + 1 /\ \A k \in 1..n : l[k] = partial[k] BY <2>2, <2>4, <2>7
  <2>9. PICK t : t = SubSeq(l, 1, n) OBVIOUS
  <2>10. t \in Seq(Units) /\ Len(t) = n /\ \A k \in 1..n : t[k] = l[k]
    BY <2>6, <2>7, <2>8, <2>9
  <2>11. t = partial BY <2>2, <2>7, <2>8, <2>10
  <2>12. Len(l) - 1 = n BY <2>7, <2>8
  <2> QED BY <2>3, <2>9, <2>11, <2>12
<1>5. LastReceived \in Nat /\ LastReceived < s
  <2>1. CASE received = <<>> BY <1>3, <2>1 DEF LastReceived
  <2>2. CASE received # <<>>
    <3>1. PICK line : line = received[Len(received)] OBVIOUS
    <3>2. line \in Seq(Units) /\ line # <<>> /\ \A k \in 1..Len(line) : line[k][1] \in Ids
      <4>1. received \in Seq(Seq(Units)) /\ Len(received) \in 1..Len(received)
        BY <2>2 DEF FeedInv, TypeOK
      <4>2. line \in Seq(Units) BY <3>1, <4>1
      <4> QED BY <3>1, <4>1, <4>2 DEF OrderInv, Flow, ReceivedGood, LinesSent
    <3>3. 1 \in 1..Len(line) /\ 1 \in 1..Len(q) /\ q[1] = partial[1] BY <1>3, <3>2
    <3>4. SendOf(line[1]) < SendOf(q[1])
      BY <1>1, <1>3, <2>2, <3>1, <3>3 DEF OrderInv, Flow, ReceivedGood, ReadBefore, Before
    <3>5. LastReceived = SendOf(line[1]) BY <2>2, <3>1 DEF LastReceived, SendOf
    <3>6. SendOf(line[1]) \in 1..Len(sent) BY <1>3, <3>2, <3>3, SentAtId DEF SendOf
    <3> QED BY <1>2, <3>3, <3>4, <3>5, <3>6
  <2> QED BY <2>1, <2>2
<1>6. LastReceived' = s
  <2>1. received \in Seq(Seq(Units)) /\ Len(received) \in Nat BY <1>3 DEF ReceiverTyped
  <2>2. /\ Len(received') = Len(received) + 1 /\ received'[Len(received) + 1] = partial
        /\ received' # <<>>
    <3>1. PICK r : r = received' OBVIOUS
    <3>2. r = Append(received, partial) BY <3>1
    <3>3. /\ r \in Seq(Seq(Units)) /\ Len(r) = Len(received) + 1
          /\ r[Len(received) + 1] = partial
      BY <1>3, <2>1, <3>2
    <3>4. r # <<>> BY <2>1, <3>3
    <3> QED BY <3>1, <3>3, <3>4
  <2>3. LastReceived' = SentAt(partial[1][1]) BY <2>2 DEF LastReceived, SentAt
  <2> QED BY <1>2, <2>3 DEF SendOf
<1>7. PICK T : T = Trimmed OBVIOUS
<1>8. /\ Len(T) = Len(sent) /\ T[s] = partial /\ Trimmed' = T
  <2>1. T = [i \in 1..Len(sent) |-> SubSeq(sent[i], 1, Len(sent[i]) - 1)] BY <1>7 DEF Trimmed
  <2>2. Len(sent) \in Nat BY <1>3 DEF ReceiverTyped
  <2>3. T[s] = partial BY <1>3, <1>4, <2>1
  <2>4. Trimmed' = T BY <1>7 DEF Trimmed
  <2> QED BY <2>1, <2>2, <2>3, <2>4
<1>9. LastReceived' \in (LastReceived + 1)..Len(T)
  <2>1. Len(sent) \in Nat BY <1>3 DEF ReceiverTyped
  <2> QED BY <1>3, <1>5, <1>6, <1>8, <2>1
<1>10. received' = Append(received, T[LastReceived']) BY <1>6, <1>8
<1>11. Lines!Deliver BY <1>7, <1>8, <1>9, <1>10 DEF Lines!Deliver, Trimmed
<1> QED BY <1>11 DEF Lines!Next

\* A connection does not end within a line that was sent whole.
LEMMA EndsWhole ==
  ASSUME FeedInv, OrderInv, AllWhole, current # 0, conns[current].buffer = <<>>
  PROVE  partial = <<>>
<1> SUFFICES ASSUME partial # <<>> PROVE FALSE
  OBVIOUS
<1>1. PICK q : q = Streams[current] OBVIOUS
<1>2. PICK n : n = Len(partial) OBVIOUS
<1>3. /\ ReceiverTyped /\ SentGood /\ n \in Nat /\ Len(q) = n /\ StreamGood(q)
      /\ \A i \in 1..n : q[i] = partial[i]
      /\ n # 0 /\ q # <<>>
  <2>1. /\ ReceiverTyped /\ SentGood /\ partial \in Seq(Units) /\ n \in Nat
        /\ Len(q) = n + Len(conns[current].buffer)
        /\ StreamGood(q) /\ \A i \in 1..n : q[i] = partial[i]
    BY <1>1, <1>2, Reading DEF OrderInv
  <2>2. Len(q) = n /\ n # 0 BY <1>2, <2>1
  <2> QED BY <2>1, <2>2
<1>4. n \in 1..n /\ WasSent(partial[n]) /\ EndsSend(partial[n])
  <2>1. n \in 1..n /\ n \in 1..Len(q) BY <1>3
  <2> QED BY <1>3, <2>1 DEF StreamGood
<1>5. SendOf(partial[n]) \in 1..Len(sent) BY <1>3, <1>4, SentUnit
<1>6. partial[n][2] = 0 BY <1>4, <1>5 DEF EndsSend, WasSent, AllWhole
<1> QED BY <1>2, <1>4, <1>6 DEF OrderInv, Flow, ReceivedGood, NoNewlines

\* Every step is a step of LineFeed or does not show, as long as every send has
\* been whole.
LEMMA LineStep ==
  ASSUME FeedInv, FeedInv', OrderInv, OrderInv', [Next]_vars
  PROVE  [AllWhole' => Lines!Next]_(Lines!vars)
<1>1. CASE UNCHANGED <<sent, received>> BY <1>1, SilentLines
<1>2. ASSUME NEW p \in Publishers, Send(p) PROVE [AllWhole' => Lines!Next]_(Lines!vars)
  <2>1. received' = received BY <1>2 DEF Send, receiverVars
  <2>2. sent' = sent \/ \E part : sent' = Append(sent, part)
    BY <1>2 DEF Send, SendFails
  <2> QED BY <1>1, <2>1, <2>2, SentLines
<1>3. CASE Read
  <2>1. current # 0 /\ conns[current].buffer # <<>> /\ sent' = sent BY <1>3 DEF Read
  <2>2. Head(conns[current].buffer) = conns[current].buffer[1] BY <2>1, Reading
  <2>3. CASE conns[current].buffer[1][2] = 0
    <3>1. partial # <<>> BY <2>1, <2>3, NewlineRead
    <3>2. received' = Append(received, partial) BY <1>3, <2>2, <2>3, <3>1 DEF Read
    <3>3. AllWhole' => AllWhole BY <2>1, SameSent
    <3> QED BY <2>1, <2>3, <3>2, <3>3, PrintedLines
  <2>4. CASE conns[current].buffer[1][2] # 0
    <3>1. received' = received BY <1>3, <2>2, <2>4 DEF Read
    <3> QED BY <1>1, <2>1, <3>1
  <2> QED BY <2>3, <2>4
<1>4. CASE EndOfStream
  <2>1. /\ current # 0 /\ conns[current].buffer = <<>> /\ sent' = sent
        /\ received' = IF partial = <<>> THEN received ELSE Append(received, partial)
    BY <1>4 DEF EndOfStream
  <2>2. AllWhole' => AllWhole BY <2>1, SameSent
  <2>3. CASE AllWhole
    <3>1. received' = received BY <2>1, <2>3, EndsWhole
    <3> QED BY <1>1, <2>1, <3>1
  <2> QED BY <2>2, <2>3
<1>5. ASSUME NEW p \in Publishers,
             \/ Publish(p) \/ Initialize(p) \/ Lock(p) \/ Ensure(p) \/ Connect(p) \/ Unlock(p)
      PROVE  UNCHANGED <<sent, received>>
  BY <1>5 DEF Publish, Initialize, Lock, Ensure, Connect, Unlock, receiverVars
<1>6. CASE Accept \/ StopReceiver \/ StartReceiver
  <2>1. UNCHANGED <<sent, received>> BY <1>6 DEF Accept, StopReceiver, StartReceiver
  <2> QED BY <1>1, <2>1
<1>7. CASE UNCHANGED vars
  <2>1. UNCHANGED <<sent, received>> BY <1>7 DEF vars, receiverVars
  <2> QED BY <1>1, <2>1
<1> QED BY <1>1, <1>2, <1>3, <1>4, <1>5, <1>6, <1>7 DEF Next, PublisherStep, Receive

\* Until a send is cut short the feed implements LineFeed: the lines printed are
\* lines that were sent, whole, each once and in their order; stops, failed
\* sends and reconnects lose lines and do nothing else.
THEOREM LinesImplemented == Spec => ImplementsLineFeed
<1>1. Init => Lines!Init
  <2> SUFFICES ASSUME Init PROVE Lines!Init
    OBVIOUS
  <2>1. sent = <<>> /\ received = <<>> BY DEF Init
  <2>2. Trimmed = <<>> /\ LastReceived = 0 BY <2>1 DEF Trimmed, LastReceived
  <2> QED BY <2>1, <2>2 DEF Lines!Init, Trimmed
<1>2. FeedInv /\ FeedInv' /\ OrderInv /\ OrderInv' /\ [Next]_vars
        => [AllWhole' => Lines!Next]_(Lines!vars)
  BY LineStep
<1> QED BY <1>1, <1>2, Invariant, OrderInvariant, PTL DEF Spec, ImplementsLineFeed

-----------------------------------------------------------------------------
(* Every path through Publish unlocks, and none goes round in circles.      *)

HeldInside ==
  g_socket_mutex # NoThread => pc[g_socket_mutex] \in Critical

\* How many steps a thread in Publish has before it, at most.
Ahead(state) ==
  CASE state = "initialize" -> 10
    [] state = "firstLock" -> 9
    [] state = "firstEnsure" -> 8
    [] state = "firstConnect" -> 7
    [] state = "firstUnlock" -> 6
    [] state = "lock" -> 5
    [] state = "ensure" -> 4
    [] state = "connect" -> 3
    [] state = "send" -> 2
    [] state = "unlock" -> 1
    [] state = "idle" -> 0

\* Once begun, Publish only advances: nothing is tried again, whatever fails.
PublishAdvances ==
  [][\A p \in Publishers :
       pc'[p] # pc[p] /\ pc[p] # "idle" => Ahead(pc'[p]) < Ahead(pc[p])]_vars

LEMMA AheadValues ==
  /\ Ahead("initialize") = 10 /\ Ahead("firstLock") = 9 /\ Ahead("firstEnsure") = 8
  /\ Ahead("firstConnect") = 7 /\ Ahead("firstUnlock") = 6 /\ Ahead("lock") = 5
  /\ Ahead("ensure") = 4 /\ Ahead("connect") = 3 /\ Ahead("send") = 2
  /\ Ahead("unlock") = 1 /\ Ahead("idle") = 0
BY DEF Ahead

\* Where a step of Publish leads, and what it does to the mutex.
LEMMA PublisherMoves ==
  ASSUME FeedInv, NEW p \in Publishers, PublisherStep(p)
  PROVE  \E state \in PublisherStates :
           /\ Goto(p, state) /\ Ahead(state) < Ahead(pc[p]) /\ pc[p] # "idle"
           /\ \/ g_socket_mutex = NoThread /\ g_socket_mutex' = p /\ state \in Critical
              \/ pc[p] \in Critical /\ g_socket_mutex' = NoThread
              \/ /\ g_socket_mutex' = g_socket_mutex
                 /\ pc[p] \in Critical <=> state \in Critical
<1>1. CASE Initialize(p)
  <2>1. PICK state : state = IF g_initialized THEN Proceed(message[p]) ELSE "firstLock" OBVIOUS
  <2>2. pc[p] = "initialize" /\ Goto(p, state) /\ g_socket_mutex' = g_socket_mutex
    BY <1>1, <2>1 DEF Initialize
  <2>3. state \in {"idle", "lock", "firstLock"} BY <2>1 DEF Proceed
  <2> QED BY <2>2, <2>3, AheadValues DEF PublisherStates, Critical
<1>2. CASE Lock(p)
  <2>1. PICK state : state = IF pc[p] = "lock" THEN "ensure" ELSE "firstEnsure" OBVIOUS
  <2>2. /\ pc[p] \in {"firstLock", "lock"} /\ Goto(p, state)
        /\ g_socket_mutex = NoThread /\ g_socket_mutex' = p
    BY <1>2, <2>1 DEF Lock, MutexFree
  <2> QED BY <2>1, <2>2, AheadValues DEF PublisherStates, Critical
<1>3. CASE Ensure(p)
  <2>1. PICK state :
          /\ Goto(p, state)
          /\ \/ state \in {Ensured(p, g_socket_fd), Ensured(p, 0)}
             \/ state = IF pc[p] = "ensure" THEN "connect" ELSE "firstConnect"
    BY <1>3 DEF Ensure
  <2>2. pc[p] \in {"firstEnsure", "ensure"} /\ g_socket_mutex' = g_socket_mutex
    BY <1>3 DEF Ensure
  <2>3. \/ pc[p] = "firstEnsure" /\ state \in {"firstUnlock", "firstConnect"}
        \/ pc[p] = "ensure" /\ state \in {"unlock", "send", "connect"}
    BY <2>1, <2>2 DEF Ensured
  <2> QED BY <2>1, <2>2, <2>3, AheadValues DEF PublisherStates, Critical
<1>4. CASE Connect(p)
  <2>1. PICK state : Goto(p, state) /\ state \in {Ensured(p, g_socket_fd), Ensured(p, 0)}
    BY <1>4 DEF Connect
  <2>2. pc[p] \in {"firstConnect", "connect"} /\ g_socket_mutex' = g_socket_mutex
    BY <1>4 DEF Connect
  <2>3. \/ pc[p] = "firstConnect" /\ state = "firstUnlock"
        \/ pc[p] = "connect" /\ state \in {"unlock", "send"}
    BY <2>1, <2>2 DEF Ensured
  <2> QED BY <2>1, <2>2, <2>3, AheadValues DEF PublisherStates, Critical
<1>5. CASE Send(p)
  <2>1. pc[p] = "send" /\ Goto(p, "unlock") /\ g_socket_mutex' = g_socket_mutex
    BY <1>5 DEF Send, AfterSend
  <2> QED BY <2>1, AheadValues DEF PublisherStates, Critical
<1>6. CASE Unlock(p)
  <2>1. PICK state : state = IF pc[p] = "unlock" THEN "idle" ELSE Proceed(message[p]) OBVIOUS
  <2>2. /\ pc[p] \in {"firstUnlock", "unlock"} /\ Goto(p, state) /\ g_socket_mutex' = NoThread
    BY <1>6, <2>1 DEF Unlock
  <2>3. \/ pc[p] = "unlock" /\ state = "idle"
        \/ pc[p] = "firstUnlock" /\ state \in {"idle", "lock"}
    BY <2>1, <2>2 DEF Proceed
  <2> QED BY <2>2, <2>3, AheadValues DEF PublisherStates, Critical
<1> QED BY <1>1, <1>2, <1>3, <1>4, <1>5, <1>6 DEF PublisherStep

LEMMA PublishMoves ==
  ASSUME FeedInv, NEW p \in Publishers, Publish(p)
  PROVE  \E state \in {"idle", "lock", "initialize"} :
           Goto(p, state) /\ pc[p] = "idle" /\ g_socket_mutex' = g_socket_mutex
<1>1. PICK size \in Sizes :
        Goto(p, IF g_initialized THEN Proceed([id |-> calls + 1, size |-> size])
                ELSE "initialize")
  BY DEF Publish
<1>2. PICK state : state = IF g_initialized THEN Proceed([id |-> calls + 1, size |-> size])
                           ELSE "initialize"
  OBVIOUS
<1>3. state \in {"idle", "lock", "initialize"} BY <1>2 DEF Proceed
<1>4. Goto(p, state) BY <1>1, <1>2
<1> QED BY <1>3, <1>4 DEF Publish

\* The mutex is held by a thread that is on its way to unlock it: no path, of
\* the failing ones either, leaves Publish without unlocking.
THEOREM MutexHeldInside == Spec => []HeldInside
<1>1. Init => HeldInside BY DEF Init, HeldInside
<1>2. FeedInv /\ HeldInside /\ [Next]_vars => HeldInside'
  <2> SUFFICES ASSUME FeedInv, HeldInside, [Next]_vars PROVE HeldInside'
    OBVIOUS
  <2>1. pc \in [Publishers -> PublisherStates] /\ g_socket_mutex \in Publishers \cup {NoThread}
    BY DEF FeedInv, TypeOK
  <2>2. ASSUME NEW p \in Publishers, PublisherStep(p) PROVE HeldInside'
    <3>1. PICK state \in PublisherStates :
            /\ pc' = [pc EXCEPT ![p] = state]
            /\ \/ g_socket_mutex' = p /\ state \in Critical
               \/ g_socket_mutex' = NoThread
               \/ g_socket_mutex' = g_socket_mutex /\ (pc[p] \in Critical <=> state \in Critical)
      BY <2>2, PublisherMoves DEF Goto
    <3> QED BY <2>1, <3>1 DEF HeldInside
  <2>3. ASSUME NEW p \in Publishers, Publish(p) PROVE HeldInside'
    <3>1. PICK state \in {"idle", "lock", "initialize"} :
            pc' = [pc EXCEPT ![p] = state] /\ pc[p] = "idle" /\ g_socket_mutex' = g_socket_mutex
      BY <2>3, PublishMoves DEF Goto
    <3>2. "idle" \notin Critical BY DEF Critical
    <3> QED BY <2>1, <3>1, <3>2 DEF HeldInside
  <2>4. CASE Receive \/ StopReceiver \/ StartReceiver \/ UNCHANGED vars
    <3>1. pc' = pc /\ g_socket_mutex' = g_socket_mutex
      BY <2>4
      DEF Receive, Accept, Read, EndOfStream, StopReceiver, StartReceiver, vars, feedVars
    <3> QED BY <3>1 DEF HeldInside
  <2> QED BY <2>2, <2>3, <2>4 DEF Next
<1> QED BY <1>1, <1>2, Invariant, PTL DEF Spec

\* A call of Publish takes at most ten steps: a failed connect or send, and a
\* short one, is not repeated.
THEOREM PublishEnds == Spec => PublishAdvances
<1>1. FeedInv /\ [Next]_vars =>
        [\A p \in Publishers :
           pc'[p] # pc[p] /\ pc[p] # "idle" => Ahead(pc'[p]) < Ahead(pc[p])]_vars
  <2> SUFFICES ASSUME FeedInv, Next, NEW q \in Publishers, pc'[q] # pc[q], pc[q] # "idle"
               PROVE  Ahead(pc'[q]) < Ahead(pc[q])
    OBVIOUS
  <2>1. pc \in [Publishers -> PublisherStates] BY DEF FeedInv, TypeOK
  <2>2. ASSUME NEW p \in Publishers, PublisherStep(p) PROVE Ahead(pc'[q]) < Ahead(pc[q])
    <3>1. PICK state \in PublisherStates :
            pc' = [pc EXCEPT ![p] = state] /\ Ahead(state) < Ahead(pc[p])
      BY <2>2, PublisherMoves DEF Goto
    <3>2. q = p /\ pc'[q] = state BY <2>1, <3>1
    <3> QED BY <3>1, <3>2
  <2>3. ASSUME NEW p \in Publishers, Publish(p) PROVE FALSE
    <3>1. PICK state : pc' = [pc EXCEPT ![p] = state] /\ pc[p] = "idle"
      BY <2>3, PublishMoves DEF Goto
    <3> QED BY <2>1, <3>1
  <2>4. CASE Receive \/ StopReceiver \/ StartReceiver
    BY <2>4 DEF Receive, Accept, Read, EndOfStream, StopReceiver, StartReceiver, feedVars
  <2> QED BY <2>2, <2>3, <2>4 DEF Next
<1> QED BY <1>1, Invariant, PTL DEF Spec, PublishAdvances

-----------------------------------------------------------------------------
(* Only a stop of the receiver loses what send has taken.                   *)

Arrived(u) ==
  \E i \in 1..Len(received) : \E k \in 1..Len(received[i]) : received[i][k] = u
OnItsWay(u) ==
  \E c \in 1..Len(conns) : \E i \in 1..Len(Streams[c]) : Streams[c][i] = u

\* Without a stop no connection is reset, and the receiver closes only those
\* that the payload has closed: no send goes into the void.
NotCut ==
  stops = 0 => \A c \in 1..Len(conns) :
    conns[c].peer # "reset" /\ (conns[c].peer = "closed" => conns[c].own = "closed")

\* Without a stop every unit of text that send has taken has been printed or is
\* still on its way, on the current connection or on one given up since.
NothingLost ==
  stops = 0 => \A s \in 1..Len(sent) : \A k \in 1..Len(sent[s]) :
    sent[s][k][2] # 0 => Arrived(sent[s][k]) \/ OnItsWay(sent[s][k])

LossInv == NotCut /\ NothingLost

\* What a step must do to lose nothing.
LEMMA NothingDropped ==
  ASSUME NothingLost, UNCHANGED <<stops, sent>>,
         \A u : u[2] # 0 /\ Arrived(u) => Arrived(u)',
         \A u : u[2] # 0 /\ OnItsWay(u) => Arrived(u)' \/ OnItsWay(u)'
  PROVE  NothingLost'
BY DEF NothingLost

LEMMA StreamsKeep ==
  ASSUME UNCHANGED received, Len(conns) \in Nat, Len(conns') \in Nat, Len(conns) <= Len(conns'),
         \A c \in 1..Len(conns) : Streams'[c] = Streams[c]
  PROVE  \A u : /\ Arrived(u) => Arrived(u)'
                /\ OnItsWay(u) => OnItsWay(u)'
<1>1. \A u : Arrived(u) => Arrived(u)' BY DEF Arrived
<1>2. \A c \in 1..Len(conns) : c \in 1..Len(conns') OBVIOUS
<1>3. PICK S : S = Streams OBVIOUS
<1>4. PICK T : T = Streams' OBVIOUS
<1>5. \A u : OnItsWay(u) => OnItsWay(u)' BY <1>2, <1>3, <1>4 DEF OnItsWay
<1> QED BY <1>1, <1>5

\* A line that ends is printed, with what was printed before.
LEMMA LinePrinted ==
  ASSUME ReceiverTyped,
         received' = IF partial = <<>> THEN received ELSE Append(received, partial)
  PROVE  /\ \A u : Arrived(u) => Arrived(u)'
         /\ \A u : (\E k \in 1..Len(partial) : partial[k] = u) => Arrived(u)'
<1>1. received \in Seq(Seq(Units)) /\ partial \in Seq(Units) BY DEF ReceiverTyped
<1>2. CASE partial = <<>>
  <2>1. received' = received BY <1>2
  <2>2. \A u : Arrived(u) => Arrived(u)' BY <2>1 DEF Arrived
  <2> QED BY <1>2, <2>2
<1>3. CASE partial # <<>>
  <2>1. PICK r : r = received' OBVIOUS
  <2>2. r = Append(received, partial) BY <1>3, <2>1
  <2>3. /\ Len(r) = Len(received) + 1 /\ Len(received) \in Nat
        /\ r[Len(received) + 1] = partial
        /\ \A i \in 1..Len(received) : i \in 1..Len(r) /\ r[i] = received[i]
    BY <1>1, <2>2
  <2>4. Len(received) + 1 \in 1..Len(r) BY <2>3
  <2>5. \A u : Arrived(u) => Arrived(u)' BY <2>1, <2>3 DEF Arrived
  <2>6. ASSUME NEW u, NEW k \in 1..Len(partial), partial[k] = u PROVE Arrived(u)'
    <3>1. PICK n : n = Len(received) + 1 OBVIOUS
    <3>2. n \in 1..Len(r) /\ r[n] = partial BY <2>3, <2>4, <3>1
    <3>3. k \in 1..Len(r[n]) /\ r[n][k] = u BY <2>6, <3>2
    <3> QED BY <2>1, <3>2, <3>3 DEF Arrived
  <2> QED BY <2>5, <2>6
<1> QED BY <1>2, <1>3

\* The steps of Publish and Initialize but the send.
LEMMA PublisherLoss ==
  ASSUME FeedInv, FeedInv', LossInv, NEW p \in Publishers,
         \/ Publish(p) \/ Initialize(p) \/ Lock(p) \/ Ensure(p) \/ Connect(p) \/ Unlock(p)
  PROVE  LossInv'
<1>1. /\ UNCHANGED <<receiverVars, sent>> /\ ConnsTyped /\ Len(conns) \in Nat
      /\ UNCHANGED <<current, partial, received, stops>>
  <2>1. UNCHANGED <<receiverVars, sent>>
    BY DEF Publish, Initialize, Lock, Ensure, Connect, Unlock
  <2> QED BY <2>1, TypeParts DEF FeedInv, TypeOK, receiverVars
<1>2. /\ Len(conns') \in {Len(conns), Len(conns) + 1}
      /\ \A c \in 1..Len(conns) : /\ conns'[c].buffer = conns[c].buffer
                                  /\ conns'[c].own \in {conns[c].own, "closed"}
                                  /\ conns'[c].peer \in {conns[c].peer, "queued"}
      /\ Len(conns') = Len(conns) + 1 => conns'[Len(conns) + 1].peer = "none"
  <2>1. CASE conns' = conns BY <1>1, <2>1
  <2>2. CASE Ensure(p) /\ conns' # conns
    <3>1. PICK r : r = [own |-> "open", peer |-> "none", buffer |-> <<>>] OBVIOUS
    <3>2. conns' = Append(conns, r) BY <2>2, <3>1 DEF Ensure
    <3>3. conns \in Seq(ConnType) BY <1>1 DEF ConnsTyped
    <3>4. /\ Len(conns') = Len(conns) + 1 /\ conns'[Len(conns) + 1] = r
          /\ \A c \in 1..Len(conns) : conns'[c] = conns[c]
      BY <3>2, <3>3
    <3> QED BY <3>1, <3>4
  <2>3. CASE Connect(p)
    <3>1. g_socket_fd \in 1..Len(conns)
      BY <2>3 DEF Connect, FeedInv, TypeOK, Protected, HasSocket
    <3>2. \/ conns' = [conns EXCEPT ![g_socket_fd].peer = "queued"]
          \/ conns' = [conns EXCEPT ![g_socket_fd].own = "closed"]
      BY <2>3 DEF Connect
    <3>3. conns \in Seq(ConnType) /\ conns[g_socket_fd] \in ConnType
      BY <1>1, <3>1 DEF ConnsTyped
    <3> QED BY <3>1, <3>2, <3>3 DEF ConnType
  <2> QED BY <2>1, <2>2, <2>3 DEF Publish, Initialize, Lock, Unlock
<1>3. NotCut'
  <2> SUFFICES ASSUME stops = 0, NEW c \in 1..Len(conns')
               PROVE  /\ conns'[c].peer # "reset"
                      /\ conns'[c].peer = "closed" => conns'[c].own = "closed"
    BY <1>1 DEF NotCut
  <2>1. CASE c \in 1..Len(conns) BY <1>2, <2>1 DEF LossInv, NotCut
  <2>2. CASE c = Len(conns) + 1 /\ Len(conns') = Len(conns) + 1 BY <1>2, <2>2
  <2> QED BY <1>1, <1>2, <2>1, <2>2
<1>4. NothingLost'
  <2>1. \A c \in 1..Len(conns) : Streams'[c] = Streams[c]
    <3> SUFFICES ASSUME NEW c \in 1..Len(conns) PROVE Streams'[c] = Streams[c]
      OBVIOUS
    <3>1. c \in 1..Len(conns') /\ conns'[c].buffer = conns[c].buffer BY <1>1, <1>2
    <3> QED BY <1>1, <3>1, StreamsStay
  <2>2. Len(conns') \in Nat /\ Len(conns) <= Len(conns') BY <1>1, <1>2
  <2>3. \A u : (Arrived(u) => Arrived(u)') /\ (OnItsWay(u) => OnItsWay(u)')
    BY <1>1, <2>1, <2>2, StreamsKeep
  <2> QED BY <1>1, <2>3, NothingDropped DEF LossInv
<1> QED BY <1>3, <1>4 DEF LossInv

\* What is sent is on its way on the newest connection.
LEMMA SendLoss ==
  ASSUME FeedInv, FeedInv', OrderInv, LossInv, NEW p \in Publishers, Send(p)
  PROVE  LossInv'
<1>1. PICK fd : fd = g_socket_fd OBVIOUS
<1>2. PICK line : line = Line(message[p]) OBVIOUS
<1>3. /\ pc[p] = "send" /\ UNCHANGED receiverVars /\ TypeOK
      /\ UNCHANGED <<current, partial, received, stops>>
      /\ ConnsTyped /\ ReceiverTyped /\ Len(conns) \in Nat
  BY TypeParts DEF Send, FeedInv, TypeOK, receiverVars
<1>4. fd \in 1..Len(conns) /\ conns[fd].own = "open" /\ conns[fd] \in ConnType
  <2>1. fd \in 1..Len(conns) /\ conns[fd].own = "open"
    BY <1>1, <1>3 DEF FeedInv, TypeOK, Protected, HasSocket, OneSocket
  <2> QED BY <1>3, <2>1, ConnFields
<1>5. line \in Seq(Units)
  <2>1. message[p].id \in 1..MaxPublishes BY <1>3 DEF FeedInv, Numbered
  <2>2. message[p] \in [id : 0..MaxPublishes, size : Sizes \cup {0}] BY DEF FeedInv, TypeOK
  <2>3. message[p].size \in Nat
    <3>1. Sizes \cup {0} \subseteq Nat BY FeedAssumption
    <3> QED BY <2>2, <3>1
  <2> QED BY <1>2, <2>1, <2>3, LineTyped
<1>6. CASE \E n \in Taken(line, fd) \ {0} :
             Put(line, fd, n) /\ sent' = Append(sent, SubSeq(line, 1, n))
  <2>1. PICK n \in Taken(line, fd) \ {0} :
          /\ conns' = [conns EXCEPT ![fd].buffer = @ \o SubSeq(line, 1, n)]
          /\ sent' = Append(sent, SubSeq(line, 1, n))
    BY <1>6 DEF Put
  <2>2. n \in 0..Len(line)
    <3>1. Len(conns[fd].buffer) \in Nat /\ Len(line) \in Nat /\ Capacity \in Nat
          /\ Len(conns[fd].buffer) <= Capacity
      BY <1>3, <1>4, <1>5, ConnFields, FeedAssumption
    <3> QED BY <2>1, <3>1 DEF Taken
  <2>3. PICK part : part = SubSeq(line, 1, n) OBVIOUS
  <2>4. part \in Seq(Units) BY <1>5, <2>2, <2>3
  <2>5. PICK b : b = conns[fd].buffer \o part OBVIOUS
  <2>6. conns \in Seq(ConnType) /\ conns' = [conns EXCEPT ![fd].buffer = b]
    BY <1>3, <1>4, <2>1, <2>3, <2>5 DEF ConnsTyped
  <2>7. /\ Len(conns') = Len(conns) /\ conns'[fd].buffer = conns[fd].buffer \o part
        /\ \A c \in 1..Len(conns) : c # fd => conns'[c] = conns[c]
        /\ conns'[fd].own = conns[fd].own /\ conns'[fd].peer = conns[fd].peer
    BY <1>4, <2>5, <2>6 DEF ConnType
  <2>8. NotCut' BY <1>3, <2>7 DEF LossInv, NotCut
  <2>9. PICK S : S = Streams OBVIOUS
  <2>10. PICK T : T = Streams' OBVIOUS
  <2>11. /\ T[fd] = S[fd] \o part /\ S[fd] \in Seq(Units)
         /\ \A c \in 1..Len(conns) : c # fd => T[c] = S[c]
    <3>1. T[fd] = S[fd] \o part BY <1>3, <1>4, <2>4, <2>7, <2>9, <2>10, StreamLonger
    <3>2. S[fd] \in Seq(Units) BY <1>3, <1>4, <2>9, StreamParts
    <3>3. \A c \in 1..Len(conns) : c # fd => T[c] = S[c]
      BY <1>3, <2>7, <2>9, <2>10, StreamsStay
    <3> QED BY <3>1, <3>2, <3>3
  <2>12. /\ \A i \in 1..Len(S[fd]) : i \in 1..Len(T[fd]) /\ T[fd][i] = S[fd][i]
         /\ \A k \in 1..Len(part) : Len(S[fd]) + k \in 1..Len(T[fd])
                                    /\ T[fd][Len(S[fd]) + k] = part[k]
    <3>1. PICK s : s = S[fd] OBVIOUS
    <3>2. PICK t : t = T[fd] OBVIOUS
    <3>3. s \in Seq(Units) /\ t = s \o part BY <2>11, <3>1, <3>2
    <3>4. /\ Len(s) \in Nat /\ Len(part) \in Nat /\ Len(t) = Len(s) + Len(part)
          /\ \A i \in 1..Len(s) : t[i] = s[i]
          /\ \A k \in 1..Len(part) : t[Len(s) + k] = part[k]
      BY <2>4, <3>3
    <3>5. /\ \A i \in 1..Len(s) : i \in 1..Len(t)
          /\ \A k \in 1..Len(part) : Len(s) + k \in 1..Len(t)
      BY <3>4
    <3> QED BY <3>1, <3>2, <3>4, <3>5
  <2>13. \A u : Arrived(u) => Arrived(u)' BY <1>3 DEF Arrived
  <2>14. ASSUME NEW u, OnItsWay(u) PROVE OnItsWay(u)'
    <3>1. PICK c \in 1..Len(conns) : \E i \in 1..Len(S[c]) : S[c][i] = u
      BY <2>9, <2>14 DEF OnItsWay
    <3>2. \E i \in 1..Len(T[c]) : T[c][i] = u
      <4>1. CASE c = fd BY <2>12, <3>1, <4>1
      <4>2. CASE c # fd BY <2>11, <3>1, <4>2
      <4> QED BY <4>1, <4>2
    <3> QED BY <2>7, <2>10, <3>2 DEF OnItsWay
  <2>15. ASSUME NEW k \in 1..Len(part) PROVE OnItsWay(part[k])'
    <3>1. \E i \in 1..Len(T[fd]) : T[fd][i] = part[k] BY <2>12
    <3> QED BY <1>4, <2>7, <2>10, <3>1 DEF OnItsWay
  <2>16. /\ Len(sent') = Len(sent) + 1 /\ sent'[Len(sent) + 1] = part /\ Len(sent) \in Nat
         /\ \A s \in 1..Len(sent) : sent'[s] = sent[s]
    <3>1. sent \in Seq(Seq(Units)) BY <1>3 DEF ReceiverTyped
    <3> QED BY <2>1, <2>3, <2>4, <3>1
  <2>17. NothingLost'
    <3>1. ASSUME stops = 0, NEW s \in 1..Len(sent'), NEW k \in 1..Len(sent'[s]),
                 NEW u, u = sent'[s][k], u[2] # 0
          PROVE  Arrived(u)' \/ OnItsWay(u)'
      <4>1. CASE s = Len(sent) + 1
        <5>1. k \in 1..Len(part) /\ u = part[k] BY <2>16, <3>1, <4>1
        <5> QED BY <2>15, <5>1
      <4>2. CASE s # Len(sent) + 1
        <5>1. s \in 1..Len(sent) /\ k \in 1..Len(sent[s]) /\ u = sent[s][k]
          BY <2>16, <3>1, <4>2
        <5>2. Arrived(u) \/ OnItsWay(u) BY <3>1, <5>1 DEF LossInv, NothingLost
        <5> QED BY <2>13, <2>14, <5>2
      <4> QED BY <4>1, <4>2
    <3>2. PICK r : r = sent' OBVIOUS
    <3>3. stops = 0 => \A s \in 1..Len(r) : \A k \in 1..Len(r[s]) :
            r[s][k][2] # 0 => Arrived(r[s][k])' \/ OnItsWay(r[s][k])'
      BY <3>1, <3>2
    <3> QED BY <1>3, <3>2, <3>3 DEF NothingLost
  <2> QED BY <2>8, <2>17 DEF LossInv
<1>7. CASE conns[fd].peer \in {"closed", "reset"}
  <2>1. stops # 0 BY <1>4, <1>7 DEF LossInv, NotCut
  <2> QED BY <1>3, <2>1 DEF LossInv, NotCut, NothingLost
<1>8. CASE SendFails(fd)
  <2>1. conns' = [conns EXCEPT ![fd].own = "closed"] /\ sent' = sent BY <1>8 DEF SendFails
  <2>2. conns \in Seq(ConnType) BY <1>3 DEF ConnsTyped
  <2>3. /\ Len(conns') = Len(conns)
        /\ \A c \in 1..Len(conns) : /\ conns'[c].own \in {conns[c].own, "closed"}
                                    /\ conns'[c].peer = conns[c].peer
                                    /\ conns'[c].buffer = conns[c].buffer
    BY <1>4, <2>1, <2>2 DEF ConnType
  <2>4. NotCut' BY <1>3, <2>3 DEF LossInv, NotCut
  <2>5. \A c \in 1..Len(conns) : Streams'[c] = Streams[c] BY <1>3, <2>3, StreamsStay
  <2>6. \A u : (Arrived(u) => Arrived(u)') /\ (OnItsWay(u) => OnItsWay(u)')
    BY <1>3, <2>3, <2>5, StreamsKeep
  <2>7. NothingLost' BY <1>3, <2>1, <2>6, NothingDropped DEF LossInv
  <2> QED BY <2>4, <2>7 DEF LossInv
<1> QED BY <1>1, <1>2, <1>6, <1>7, <1>8 DEF Send

\* Between two lines a connection holds what is in its buffer.
LEMMA BetweenLines ==
  ASSUME TypeOK, TypeOK', partial = <<>>, partial' = <<>>,
         NEW c, c \in 1..Len(conns), c \in 1..Len(conns'), conns'[c].buffer = conns[c].buffer
  PROVE  Streams'[c] = Streams[c]
BY StreamParts, StreamPartsNext

LEMMA AcceptLoss ==
  ASSUME FeedInv, FeedInv', OrderInv, LossInv, Accept
  PROVE  LossInv'
<1>1. PICK c \in 1..Len(conns) :
        conns[c].peer = "queued" /\ conns' = [conns EXCEPT ![c].peer = "accepted"]
  BY DEF Accept, Queued
<1>2. /\ UNCHANGED <<partial, received, stops, sent>> /\ current = 0
      /\ TypeOK /\ TypeOK' /\ ConnsTyped /\ Len(conns) \in Nat
  BY TypeParts DEF Accept, FeedInv, TypeOK
<1>3. /\ Len(conns') = Len(conns)
      /\ \A d \in 1..Len(conns) : /\ conns'[d].own = conns[d].own
                                  /\ conns'[d].buffer = conns[d].buffer
                                  /\ conns'[d].peer \in {conns[d].peer, "accepted"}
  <2>1. conns \in Seq(ConnType) /\ conns[c] \in ConnType BY <1>2 DEF ConnsTyped
  <2> QED BY <1>1, <2>1 DEF ConnType
<1>4. NotCut' BY <1>2, <1>3 DEF LossInv, NotCut
<1>5. partial = <<>> /\ partial' = <<>> BY <1>2 DEF OrderInv, ConnsGood, NotReading
<1>6. \A d \in 1..Len(conns) : Streams'[d] = Streams[d] BY <1>2, <1>3, <1>5, BetweenLines
<1>7. \A u : (Arrived(u) => Arrived(u)') /\ (OnItsWay(u) => OnItsWay(u)')
  BY <1>2, <1>3, <1>6, StreamsKeep
<1>8. NothingLost' BY <1>2, <1>7, NothingDropped DEF LossInv
<1> QED BY <1>4, <1>8 DEF LossInv

\* The text of a line that ends is printed; the rest of the stream stays.
LEMMA LineTaken ==
  ASSUME FeedInv, FeedInv', OrderInv, current # 0, NEW rest \in Seq(Units),
         received' = IF partial = <<>> THEN received ELSE Append(received, partial),
         partial' = <<>>, Len(conns') = Len(conns), conns'[current].buffer = rest,
         \A d \in 1..Len(conns) : d # current => conns'[d].buffer = conns[d].buffer,
         \A i \in 1..Len(conns[current].buffer) :
           LET u == conns[current].buffer[i] IN
             u[2] = 0 \/ \E j \in 1..Len(rest) : rest[j] = u
  PROVE  \A u : /\ Arrived(u) => Arrived(u)'
                /\ u[2] # 0 /\ OnItsWay(u) => Arrived(u)' \/ OnItsWay(u)'
<1>1. PICK q : q = Streams[current] OBVIOUS
<1>2. PICK b : b = conns[current].buffer OBVIOUS
<1>3. PICK n : n = Len(partial) OBVIOUS
<1>4. PICK S : S = Streams OBVIOUS
<1>5. PICK T : T = Streams' OBVIOUS
<1>6. /\ TypeOK /\ TypeOK' /\ ReceiverTyped /\ current \in 1..Len(conns)
      /\ n \in Nat /\ Len(b) \in Nat /\ Len(q) = n + Len(b)
      /\ \A i \in 1..n : q[i] = partial[i]
      /\ \A i \in 1..Len(b) : q[n + i] = b[i]
  BY <1>1, <1>2, <1>3, Reading DEF FeedInv
<1>7. /\ T[current] = rest
      /\ \A d \in 1..Len(conns) : d # current => T[d] = S[d]
  <2>1. \A d \in 1..Len(conns) : T[d] = conns'[d].buffer BY <1>5, <1>6, StreamPartsNext
  <2>2. \A d \in 1..Len(conns) : d # current => S[d] = conns[d].buffer
    BY <1>4, <1>6, StreamParts
  <2> QED BY <1>6, <2>1, <2>2
<1>8. /\ \A u : Arrived(u) => Arrived(u)'
      /\ \A u : (\E k \in 1..n : partial[k] = u) => Arrived(u)'
  BY <1>3, <1>6, LinePrinted
<1>9. ASSUME NEW u, u[2] # 0, OnItsWay(u) PROVE Arrived(u)' \/ OnItsWay(u)'
  <2>1. PICK d \in 1..Len(conns) : \E i \in 1..Len(S[d]) : S[d][i] = u
    BY <1>4, <1>9 DEF OnItsWay
  <2>2. CASE d # current
    <3>1. \E i \in 1..Len(T[d]) : T[d][i] = u BY <1>7, <2>1, <2>2
    <3> QED BY <1>5, <3>1 DEF OnItsWay
  <2>3. CASE d = current
    <3>1. PICK i \in 1..Len(q) : q[i] = u BY <1>1, <1>4, <2>1, <2>3
    <3>2. CASE i \in 1..n
      <4>1. u = partial[i] BY <1>6, <3>1, <3>2
      <4> QED BY <1>8, <3>2, <4>1
    <3>3. CASE i \notin 1..n
      <4>1. PICK j : j = i - n OBVIOUS
      <4>2. j \in 1..Len(b) /\ i = n + j BY <1>6, <3>3, <4>1
      <4>3. b[j] = u BY <1>6, <3>1, <4>2
      <4>4. \E k \in 1..Len(rest) : rest[k] = u BY <1>2, <1>9, <4>2, <4>3
      <4>5. \E k \in 1..Len(T[current]) : T[current][k] = u BY <1>7, <4>4
      <4> QED BY <1>5, <1>6, <4>5 DEF OnItsWay
    <3> QED BY <3>2, <3>3
  <2> QED BY <2>2, <2>3
<1> QED BY <1>8, <1>9

LEMMA ReadLoss ==
  ASSUME FeedInv, FeedInv', OrderInv, LossInv, Read
  PROVE  LossInv'
<1>1. PICK b : b = conns[current].buffer OBVIOUS
<1>2. PICK u : u = b[1] OBVIOUS
<1>3. PICK rest : rest = Tail(b) OBVIOUS
<1>4. /\ current # 0 /\ b # <<>> /\ UNCHANGED <<current, stops, sent>>
      /\ TypeOK /\ TypeOK' /\ ConnsTyped /\ Len(conns) \in Nat /\ current \in 1..Len(conns)
      /\ b \in Seq(Units) /\ partial \in Seq(Units)
  BY <1>1, Reading DEF Read, FeedInv
<1>5. /\ Len(b) \in Nat \ {0} /\ rest \in Seq(Units) /\ Len(rest) = Len(b) - 1
      /\ \A i \in 1..Len(rest) : rest[i] = b[i + 1]
      /\ Head(b) = u /\ u \in Units
  BY <1>2, <1>3, <1>4
<1>6. /\ Len(conns') = Len(conns) /\ conns'[current].buffer = rest
      /\ \A d \in 1..Len(conns) : /\ conns'[d].own = conns[d].own
                                  /\ conns'[d].peer = conns[d].peer
                                  /\ d # current => conns'[d].buffer = conns[d].buffer
  <2>1. conns \in Seq(ConnType) /\ conns[current] \in ConnType BY <1>4 DEF ConnsTyped
  <2>2. conns' = [conns EXCEPT ![current].buffer = rest] BY <1>1, <1>3, <1>4, <2>1 DEF Read
  <2> QED BY <1>4, <2>1, <2>2 DEF ConnType
<1>7. NotCut' BY <1>4, <1>6 DEF LossInv, NotCut
<1>8. CASE u[2] # 0
  <2>1. partial' = Append(partial, u) /\ received' = received
    BY <1>1, <1>5, <1>8 DEF Read
  <2>2. partial' \o rest = partial \o b
    <3>1. b = <<u>> \o rest BY <1>2, <1>3, <1>4, <1>5
    <3>2. partial' = partial \o <<u>> BY <1>4, <1>5, <2>1
    <3>3. <<u>> \in Seq(Units) BY <1>5
    <3> QED BY <1>4, <1>5, <3>1, <3>2, <3>3, ThreeParts
  <2>3. \A d \in 1..Len(conns) : Streams'[d] = Streams[d]
    <3>1. Streams'[current] = partial' \o rest BY <1>4, <1>6, StreamPartsNext
    <3>2. Streams[current] = partial \o b BY <1>1, <1>4, StreamParts
    <3>3. ASSUME NEW d \in 1..Len(conns), d # current PROVE Streams'[d] = Streams[d]
      BY <1>4, <1>6, <3>3, StreamParts, StreamPartsNext
    <3> QED BY <2>2, <3>1, <3>2, <3>3
  <2>4. \A x : (Arrived(x) => Arrived(x)') /\ (OnItsWay(x) => OnItsWay(x)')
    BY <1>4, <1>6, <2>1, <2>3, StreamsKeep
  <2> QED BY <1>4, <1>7, <2>4, NothingDropped DEF LossInv
<1>9. CASE u[2] = 0
  <2>1. /\ partial' = <<>>
        /\ received' = IF partial = <<>> THEN received ELSE Append(received, partial)
    BY <1>1, <1>5, <1>9 DEF Read
  <2>2. ASSUME NEW i \in 1..Len(b) PROVE b[i][2] = 0 \/ \E j \in 1..Len(rest) : rest[j] = b[i]
    <3>1. CASE i = 1 BY <1>2, <1>9, <3>1
    <3>2. CASE i # 1
      <4>1. PICK j : j = i - 1 OBVIOUS
      <4>2. j \in 1..Len(rest) /\ i = j + 1 BY <1>5, <3>2, <4>1
      <4> QED BY <1>5, <4>2
    <3> QED BY <3>1, <3>2
  <2>3. \A x : /\ Arrived(x) => Arrived(x)'
               /\ x[2] # 0 /\ OnItsWay(x) => Arrived(x)' \/ OnItsWay(x)'
    BY <1>1, <1>4, <1>5, <1>6, <2>1, <2>2, LineTaken
  <2> QED BY <1>4, <1>7, <2>3, NothingDropped DEF LossInv
<1> QED BY <1>8, <1>9

LEMMA EndLoss ==
  ASSUME FeedInv, FeedInv', OrderInv, LossInv, EndOfStream
  PROVE  LossInv'
<1>1. /\ current # 0 /\ UNCHANGED <<stops, sent>>
      /\ conns[current].buffer = <<>> /\ conns[current].own = "closed"
      /\ conns' = [conns EXCEPT ![current].peer = "closed"]
      /\ received' = IF partial = <<>> THEN received ELSE Append(received, partial)
      /\ partial' = <<>>
  BY DEF EndOfStream
<1>2. ConnsTyped /\ Len(conns) \in Nat /\ current \in 1..Len(conns) BY <1>1, Reading
<1>3. /\ Len(conns') = Len(conns) /\ conns'[current].buffer = <<>>
      /\ conns'[current].own = "closed" /\ conns'[current].peer = "closed"
      /\ \A d \in 1..Len(conns) : d # current => conns'[d] = conns[d]
  <2>1. conns \in Seq(ConnType) /\ conns[current] \in ConnType BY <1>2 DEF ConnsTyped
  <2> QED BY <1>1, <1>2, <2>1 DEF ConnType
<1>4. NotCut' BY <1>1, <1>3 DEF LossInv, NotCut
<1>5. <<>> \in Seq(Units) /\ 1..Len(conns[current].buffer) = {}
  BY <1>1
<1>6. \A u : /\ Arrived(u) => Arrived(u)'
             /\ u[2] # 0 /\ OnItsWay(u) => Arrived(u)' \/ OnItsWay(u)'
  BY <1>1, <1>3, <1>5, LineTaken
<1> QED BY <1>1, <1>4, <1>6, NothingDropped DEF LossInv

\* Nothing that send has taken is lost as long as the receiver is not stopped:
\* not in a reconnect, not in a failing send, and not with a connection that the
\* payload has closed (a connection is read to its end before the next one).
THEOREM LossInvariant == Spec => []LossInv
<1>1. Init => LossInv BY DEF Init, LossInv, NotCut, NothingLost
<1>2. FeedInv /\ FeedInv' /\ OrderInv /\ LossInv /\ [Next]_vars => LossInv'
  <2> SUFFICES ASSUME FeedInv, FeedInv', OrderInv, LossInv, [Next]_vars PROVE LossInv'
    OBVIOUS
  <2>1. ASSUME NEW p \in Publishers, Publish(p) \/ PublisherStep(p) PROVE LossInv'
    BY <2>1, PublisherLoss, SendLoss DEF PublisherStep
  <2>2. CASE Receive BY <2>2, AcceptLoss, ReadLoss, EndLoss DEF Receive
  <2>3. CASE StopReceiver
    <3>1. stops \in 0..MaxStops BY DEF FeedInv, TypeOK
    <3>2. stops' = stops + 1 BY <2>3 DEF StopReceiver
    <3>3. stops' # 0 BY <3>1, <3>2, FeedAssumption
    <3> QED BY <3>3 DEF LossInv, NotCut, NothingLost
  <2>4. CASE StartReceiver \/ UNCHANGED vars
    <3>1. UNCHANGED <<conns, current, partial, received, stops, sent>>
      BY <2>4 DEF StartReceiver, vars, receiverVars
    <3>2. NotCut' BY <3>1 DEF LossInv, NotCut
    <3>3. Len(conns) \in Nat /\ conns' = conns BY <3>1 DEF FeedInv, TypeOK
    <3>4. \A c \in 1..Len(conns) : Streams'[c] = Streams[c] BY <3>1, StreamsStay
    <3>5. \A u : (Arrived(u) => Arrived(u)') /\ (OnItsWay(u) => OnItsWay(u)')
      BY <3>1, <3>3, <3>4, StreamsKeep
    <3> QED BY <3>1, <3>2, <3>5, NothingDropped DEF LossInv
  <2> QED BY <2>1, <2>2, <2>3, <2>4 DEF Next
<1> QED BY <1>1, <1>2, Invariant, OrderInvariant, PTL DEF Spec

\* As long as no send is cut short, every line that is printed is a message: the
\* short send is the one thing that breaks the line protocol.
WholeLines == AllWhole => EachLineIsAMessage

THEOREM LinesAreWhole == Spec => []WholeLines
<1>1. Init => WholeLines BY DEF Init, WholeLines, EachLineIsAMessage
<1>2. FeedInv /\ OrderInv /\ WholeLines /\ [Next]_vars => WholeLines'
  <2> SUFFICES ASSUME FeedInv, OrderInv, WholeLines, [Next]_vars, AllWhole'
               PROVE  EachLineIsAMessage'
    BY DEF WholeLines
  <2>1. ReceiverTyped /\ received \in Seq(Seq(Units)) /\ partial \in Seq(Units)
    BY DEF FeedInv, TypeOK, ReceiverTyped
  <2>2. CASE UNCHANGED <<sent, received>>
    BY <2>2, SameSent DEF WholeLines, EachLineIsAMessage
  <2>3. ASSUME NEW p \in Publishers, Send(p) PROVE EachLineIsAMessage'
    <3>1. received' = received BY <2>3 DEF Send, receiverVars
    <3>2. CASE \E part : sent' = Append(sent, part)
      <4>1. /\ AllWhole /\ Len(sent) \in Nat /\ Len(sent') = Len(sent) + 1
            /\ \A s \in 1..Len(sent) : sent'[s] = sent[s]
        <5>1. PICK part : sent' = Append(sent, part) BY <3>2
        <5>2. sent \in Seq(Seq(Units)) BY <2>1 DEF ReceiverTyped
        <5>3. /\ Len(sent) \in Nat /\ Len(sent') = Len(sent) + 1
              /\ \A s \in 1..Len(sent) : sent'[s] = sent[s]
          BY <5>1, <5>2
        <5>4. \A s \in 1..Len(sent) : s \in 1..Len(sent') BY <5>3
        <5>5. AllWhole BY <5>3, <5>4 DEF AllWhole
        <5> QED BY <5>3, <5>5
      <4>2. \A s \in 1..Len(sent) : s \in 1..Len(sent') BY <4>1
      <4> QED BY <3>1, <4>1, <4>2 DEF WholeLines, EachLineIsAMessage
    <3>3. CASE sent' = sent BY <2>2, <3>1, <3>3
    <3> QED BY <2>3, <3>2, <3>3 DEF Send, SendFails
  <2>4. CASE Read /\ received' # received
    <3>1. /\ current # 0 /\ conns[current].buffer # <<>> /\ sent' = sent
          /\ Head(conns[current].buffer) = conns[current].buffer[1]
      BY <2>4, Reading DEF Read
    <3>2. conns[current].buffer[1][2] = 0 /\ received' = Append(received, partial)
      BY <2>4, <3>1 DEF Read
    <3>3. AllWhole BY <3>1, SameSent
    <3>4. PICK s \in 1..Len(sent) : sent[s] = Append(partial, <<partial[1][1], 0>>)
      BY <3>1, <3>2, <3>3, WholeLine
    <3>5. /\ Len(received) \in Nat /\ Len(received') = Len(received) + 1
          /\ received'[Len(received) + 1] = partial
          /\ \A i \in 1..Len(received) : received'[i] = received[i]
      BY <2>1, <3>2
    <3>6. \A i \in 1..Len(received') : i \in 1..Len(received) \/ i = Len(received) + 1
      BY <3>5
    <3> QED BY <3>1, <3>3, <3>4, <3>5, <3>6 DEF WholeLines, EachLineIsAMessage
  <2>5. CASE EndOfStream
    <3>1. /\ current # 0 /\ conns[current].buffer = <<>> /\ sent' = sent
          /\ received' = IF partial = <<>> THEN received ELSE Append(received, partial)
      BY <2>5 DEF EndOfStream
    <3>2. AllWhole BY <3>1, SameSent
    <3>3. received' = received BY <3>1, <3>2, EndsWhole
    <3> QED BY <2>2, <3>1, <3>3
  <2>6. ASSUME NEW p \in Publishers,
               \/ Publish(p) \/ Initialize(p) \/ Lock(p) \/ Ensure(p) \/ Connect(p) \/ Unlock(p)
        PROVE  UNCHANGED <<sent, received>>
    BY <2>6 DEF Publish, Initialize, Lock, Ensure, Connect, Unlock, receiverVars
  <2>7. CASE Accept \/ StopReceiver \/ StartReceiver
    BY <2>2, <2>7 DEF Accept, StopReceiver, StartReceiver
  <2>8. CASE UNCHANGED vars BY <2>2, <2>8 DEF vars, receiverVars
  <2>9. CASE Read /\ received' = received BY <2>2, <2>9 DEF Read
  <2> QED BY <2>2, <2>3, <2>4, <2>5, <2>6, <2>7, <2>8, <2>9 DEF Next, PublisherStep, Receive
<1> QED BY <1>1, <1>2, Invariant, OrderInvariant, PTL DEF Spec

\* Without a stop and without a short send, every line that send has taken has
\* been printed, whole, or is still on its way (the safety part of
\* SentIsReceived).
SentArrives ==
  stops = 0 /\ AllWhole => \A s \in 1..Len(sent) :
    \/ \E i \in 1..Len(received) : sent[s] = Append(received[i], <<received[i][1][1], 0>>)
    \/ OnItsWay(sent[s][1])

THEOREM SentArrivesOrFlies == Spec => []SentArrives
<1>1. FeedInv /\ OrderInv /\ LossInv /\ WholeLines => SentArrives
  <2> SUFFICES ASSUME FeedInv, OrderInv, LossInv, WholeLines, stops = 0, AllWhole,
                      NEW s \in 1..Len(sent), ~OnItsWay(sent[s][1])
               PROVE  \E i \in 1..Len(received) :
                        sent[s] = Append(received[i], <<received[i][1][1], 0>>)
    BY DEF SentArrives
  <2>1. SentGood /\ SendGood(sent[s]) /\ ReceiverTyped
    BY DEF OrderInv, SentGood, FeedInv, TypeOK, ReceiverTyped
  <2>2. sent[s] \in Seq(Units) /\ 1 \in 1..Len(sent[s])
    <3>1. sent[s] \in Seq(Units) BY <2>1 DEF ReceiverTyped
    <3> QED BY <2>1, <3>1 DEF SendGood
  <2>3. sent[s][1][2] # 0 BY <2>1, <2>2 DEF SendGood
  <2>4. Arrived(sent[s][1]) BY <2>2, <2>3 DEF LossInv, NothingLost
  <2>5. PICK i \in 1..Len(received) : \E k \in 1..Len(received[i]) : received[i][k] = sent[s][1]
    BY <2>4 DEF Arrived
  <2>6. PICK k \in 1..Len(received[i]) : received[i][k] = sent[s][1] BY <2>5
  <2>7. PICK j \in 1..Len(sent) : sent[j] = Append(received[i], <<received[i][1][1], 0>>)
    BY DEF WholeLines, EachLineIsAMessage
  <2>8. k \in 1..Len(sent[j]) /\ sent[j][k] = sent[s][1]
    <3>1. PICK end : end = <<received[i][1][1], 0>> OBVIOUS
    <3>2. PICK l : l = received[i] OBVIOUS
    <3>3. l \in Seq(Units) BY <2>1, <3>2 DEF ReceiverTyped
    <3>4. PICK t : t = Append(l, end) OBVIOUS
    <3>5. Len(t) = Len(l) + 1 /\ \A m \in 1..Len(l) : t[m] = l[m] BY <3>3, <3>4
    <3>6. Len(l) \in Nat BY <3>3
    <3>7. sent[j] = t BY <2>7, <3>1, <3>2, <3>4
    <3> QED BY <2>6, <3>2, <3>5, <3>6, <3>7
  <2>9. sent[j][1][1] = sent[s][1][1]
    <3>1. SendGood(sent[j]) BY <2>1 DEF SentGood
    <3> QED BY <2>8, <3>1 DEF SendGood
  <2>10. j = s BY <2>1, <2>9 DEF SentGood
  <2> QED BY <2>7, <2>10
<1> QED BY <1>1, Invariant, OrderInvariant, LossInvariant, LinesAreWhole, PTL
=============================================================================
