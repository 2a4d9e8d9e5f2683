-------------------------- MODULE TerminalIO_proofs --------------------------
(***************************************************************************)
(* Proofs about the input and output of a terminal, for any number of      *)
(* connections, saves and requests and any limits: the places and the      *)
(* control of a session are in order (SessionSafe), what each client has   *)
(* been sent is one coherent view of the screen (ClientsInStep), the       *)
(* snapshots settle on the latest state (SnapshotsSettle), the worker      *)
(* meets every chunk in order (NoSequenceGap), and the waiters and the     *)
(* budget of its client are exact (AnswersExact).                          *)
(*                                                                         *)
(* The argument for the view: an open client has been sent a snapshot or a *)
(* chunk after which nothing but resizes happened, so that the next chunk  *)
(* continues it. For the snapshots: a save is of a state between the one it*)
(* began at and the present one. For the worker: the frames under way are  *)
(* each of a caller who waits for it, so that while the client is up no    *)
(* chunk follows one that was given up, and the chunks in the pipe, the one*)
(* being written and the one queued continue what the worker has applied.  *)
(***************************************************************************)
EXTENDS TerminalStream, SnapshotSaver, WorkerClient, FiniteSetTheorems, TLAPS

Attached == {"attached", "closing"}

\* The handlers that still hold the place they reserved.
Holders == {c \in Clients : conn[c] \in {"reserved", "looked", "failed"}}

\* Places are counted, and until an attach fails each belongs to a handler.
CountInv ==
    /\ WithinLimit
    /\ ~failed => granted = Holders
    /\ ~failed /\ Mapped => reservations = Cardinality(granted)

\* The open clients are attached, and nothing is queued for a connection that is not.
ConnInv ==
    \A c \in Clients :
        /\ c \in clients \ dead => conn[c] \in Attached
        /\ conn[c] \notin Attached => stream[c] = <<>> /\ read[c] = 0 /\ queued[c] = 0

\* Control is with a connection that will give it back, or with nobody once the
\* session has retired.
OwnerInv == OwnerIsConnected /\ (stage \in {"retired", "unmapped"} => owner = NoClient)

SessionInv == TypeOK /\ CountInv /\ ConnInv /\ OwnerInv /\ BacklogBounded

-----------------------------------------------------------------------------
(* Counting places                                                         *)

\* Sets of clients are finite, and subsets of them are no larger.
LEMMA ClientCounts ==
  ASSUME Bounds, NEW S \in SUBSET Clients
  PROVE  /\ Cardinality(S) \in Nat
         /\ \A T \in SUBSET S : Cardinality(T) <= Cardinality(S)
         /\ \A c \in Clients \ S : Cardinality(S \union {c}) = Cardinality(S) + 1
         /\ \A c \in Clients : Cardinality(S \union {c}) <= Cardinality(S) + 1
         /\ \A c \in S : Cardinality(S \ {c}) = Cardinality(S) - 1
         /\ \A c \in S : Cardinality(S) # 0
<1>1. IsFiniteSet(S)
  BY FS_Subset DEF Bounds
<1>2. Cardinality(S) \in Nat
  BY <1>1, FS_CardinalityType
<1>3. \A T \in SUBSET S : Cardinality(T) <= Cardinality(S)
  BY <1>1, FS_Subset
<1>4. \A c \in Clients \ S : Cardinality(S \union {c}) = Cardinality(S) + 1
  BY <1>1, FS_AddElement
<1>5. \A c \in Clients : Cardinality(S \union {c}) <= Cardinality(S) + 1
  <2>. TAKE c \in Clients
  <2>1. CASE c \in S
    <3>1. S \union {c} = S
      BY <2>1
    <3>. QED
      BY <1>2, <3>1
  <2>. QED
    BY <1>2, <1>4, <2>1
<1>6. \A c \in S : Cardinality(S \ {c}) = Cardinality(S) - 1
  BY <1>1, FS_RemoveElement
<1>7. \A c \in S : Cardinality(S) # 0
  BY <1>1, FS_EmptySet
<1>. QED
  BY <1>2, <1>3, <1>4, <1>5, <1>6, <1>7

\* The constants are numbers.
LEMMA Limits ==
  ASSUME Bounds
  PROVE  ClientLimit \in Nat /\ ByteLimit \in Nat /\ QueueLimit \in Nat /\ QueueLimit >= 3
         /\ MaxSeq \in Nat /\ MaxExtra \in Nat
  BY DEF Bounds

-----------------------------------------------------------------------------
(* Messages                                                                *)

\* One more message in a queue.
LEMMA OneMore ==
  ASSUME NEW s \in Seq(Message), NEW msg \in Message
  PROVE  /\ Append(s, msg) \in Seq(Message) /\ Len(Append(s, msg)) = Len(s) + 1
         /\ Append(s, msg)[Len(s) + 1] = msg
         /\ \A i \in 1..Len(s) : Append(s, msg)[i] = s[i]
         /\ DOMAIN s = 1..Len(s) /\ DOMAIN Append(s, msg) = 1..(Len(s) + 1)
         /\ Len(s) \in Nat
  OBVIOUS

\* What `Msg' makes are messages.
LEMMA Messages ==
  ASSUME Bounds, NEW n \in 0..MaxSeq
  PROVE  \A type \in {"snapshot", "stored", "meta", "ready", "terminated", "output", "pong"} :
            Msg(type, n) \in Message /\ Msg(type, n).type = type /\ Msg(type, n).seq = n
  BY DEF Msg, Message

\* Three messages in a row.
LEMMA Three ==
  ASSUME NEW x \in Message, NEW y \in Message, NEW z \in Message
  PROVE  /\ <<x, y, z>> \in Seq(Message) /\ Len(<<x, y, z>>) = 3 /\ DOMAIN <<x, y, z>> = 1..3
         /\ <<x, y, z>>[1] = x /\ <<x, y, z>>[2] = y /\ <<x, y, z>>[3] = z
  OBVIOUS

\* What an attach sends first: a snapshot, live or stored, the metadata and the status.
Greets(g, type, n) ==
    /\ g \in Seq(Message) /\ Len(g) = 3 /\ DOMAIN g = 1..3
    /\ g[1].type = type /\ g[1].seq = n
    /\ g[2].type = "meta" /\ g[3].type = IF Closed THEN "terminated" ELSE "ready"

LEMMA Greetings ==
  ASSUME Bounds, TypeOK, NEW n \in 0..seq, NEW type \in {"snapshot", "stored"}
  PROVE  Greets(Greeting(type, n), type, n)
<1>. DEFINE status == Msg(IF Closed THEN "terminated" ELSE "ready", seq)
<1>1. n \in 0..MaxSeq /\ seq \in 0..MaxSeq
  BY Limits DEF TypeOK
<1>2. /\ Msg(type, n) \in Message /\ Msg(type, n).type = type /\ Msg(type, n).seq = n
      /\ Msg("meta", seq) \in Message /\ Msg("meta", seq).type = "meta"
      /\ status \in Message /\ status.type = IF Closed THEN "terminated" ELSE "ready"
  BY <1>1, Messages
<1>3. Greeting(type, n) = <<Msg(type, n), Msg("meta", seq), status>>
  BY DEF Greeting
<1>. HIDE DEF status
<1>. QED
  BY <1>2, <1>3, Three DEF Greets

\* What a broadcast does: who is reached gets the message, who is not is closed.
LEMMA Reached ==
  ASSUME Bounds, TypeOK, NEW msg \in Message, Broadcast(msg)
  PROVE  /\ stream' \in [Clients -> Seq(Message)] /\ queued' \in [Clients -> 0..ByteLimit]
         /\ read' = read /\ dead \subseteq dead' /\ dead' \subseteq Clients
         /\ clients' \subseteq clients \ dead /\ clients' \intersect dead' = {}
         /\ \A c \in clients' : stream'[c] = Append(stream[c], msg) /\ Backlog(c) < QueueLimit
         /\ \A c \in Clients \ clients' : stream'[c] = stream[c] /\ queued'[c] = queued[c]
<1>. DEFINE reached == {c \in clients \ dead : Fits(c, TRUE)}
<1>1. /\ stream' = [c \in Clients |-> IF c \in reached THEN Append(stream[c], msg) ELSE stream[c]]
      /\ queued' = [c \in Clients |-> IF c \in reached THEN queued[c] + 1 ELSE queued[c]]
      /\ dead' = dead \union (clients \ reached) /\ clients' = reached /\ read' = read
  BY DEF Broadcast
<1>2. /\ reached \subseteq clients \ dead /\ clients \subseteq Clients /\ dead \subseteq Clients
      /\ \A c \in reached : Backlog(c) < QueueLimit /\ queued[c] < ByteLimit
  BY DEF Fits, TypeOK
<1>. HIDE DEF reached
<1>3. stream' \in [Clients -> Seq(Message)]
  <2>1. \A c \in Clients : stream[c] \in Seq(Message) /\ Append(stream[c], msg) \in Seq(Message)
    BY OneMore DEF TypeOK
  <2>. QED
    BY <1>1, <2>1
<1>4. queued' \in [Clients -> 0..ByteLimit]
  <2>1. \A c \in Clients : queued[c] \in 0..ByteLimit /\ (c \in reached => queued[c] + 1 \in 0..ByteLimit)
    BY <1>2, Limits, SMTT(30) DEF TypeOK
  <2>. QED
    BY <1>1, <2>1
<1>. QED
  BY <1>1, <1>2, <1>3, <1>4

-----------------------------------------------------------------------------
(* Places, control and queues                                              *)

\* A step in which nothing is queued and no connection attaches or leaves, and places
\* and control stay as they are.
LEMMA SessionStutter ==
  ASSUME SessionInv,
         UNCHANGED <<conn, reservations, clients, owner, dead, granted, stream, read, queued, failed>>,
         stage' \in {"open", "closed", "retired", "unmapped"}, worker' \in BOOLEAN,
         seq' \in 0..MaxSeq, resized' \subseteq 1..seq', extra' \in 0..MaxExtra,
         stage' # stage => owner = NoClient \/ stage' = "closed",
         stage = "unmapped" => stage' = "unmapped"
  PROVE  SessionInv'
<1>1. TypeOK'
  BY DEF SessionInv, TypeOK
<1>2. CountInv'
  BY DEF SessionInv, CountInv, WithinLimit, Holders, Mapped
<1>3. ConnInv' /\ BacklogBounded'
  BY DEF SessionInv, ConnInv, BacklogBounded, Backlog
<1>4. OwnerInv'
  BY DEF SessionInv, OwnerInv, OwnerIsConnected
<1>. QED
  BY <1>1, <1>2, <1>3, <1>4 DEF SessionInv

\* The handler of a connection that has no queue moves on; places may change.
LEMMA HandlerMoves ==
  ASSUME Bounds, SessionInv, NEW c \in Clients, NEW state \in ConnStates \ Attached,
         conn[c] \notin Attached, Goto(c, state),
         UNCHANGED <<clients, owner, dead, terminal, queues>>,
         reservations' \in Nat, reservations' <= ClientLimit, WithinLimit',
         granted' \subseteq Clients, failed' \in BOOLEAN, extra' \in 0..MaxExtra,
         ~failed' => ~failed /\ granted' = Holders',
         ~failed' /\ Mapped => reservations' = Cardinality(granted')
  PROVE  SessionInv'
<1>1. conn' = [conn EXCEPT ![c] = state] /\ conn \in [Clients -> ConnStates]
  BY DEF Goto, SessionInv, TypeOK
<1>2. TypeOK'
  <2>1. conn' \in [Clients -> ConnStates] /\ reservations' \in 0..ClientLimit
    BY <1>1, Limits
  <2>2. UNCHANGED <<clients, owner, dead, stage, worker, seq, resized, stream, read, queued>>
    BY DEF terminal, queues
  <2>. QED
    BY <2>1, <2>2 DEF SessionInv, TypeOK
<1>3. CountInv'
  BY DEF CountInv, Mapped, terminal
<1>4. ConnInv' /\ BacklogBounded'
  BY <1>1 DEF SessionInv, ConnInv, BacklogBounded, Backlog, queues
<1>5. OwnerInv'
  BY <1>1 DEF SessionInv, OwnerInv, OwnerIsConnected, Attached, terminal
<1>. QED
  BY <1>2, <1>3, <1>4, <1>5 DEF SessionInv

\* Reserving a place, giving it back, and an attach that comes to nothing.
LEMMA HandlerNext ==
  ASSUME Bounds, SessionInv, NEW c \in Clients,
         \/ Reserve(c) \/ AcceptFails(c) \/ Release(c)
         \/ AttachLookup(c) \/ AttachRefused(c) \/ AttachFails(c)
  PROVE  SessionInv'
<1>0. /\ conn \in [Clients -> ConnStates] /\ reservations \in Nat /\ reservations <= ClientLimit
      /\ clients \subseteq Clients /\ granted \subseteq Clients /\ Cardinality(clients) \in Nat
      /\ Cardinality(granted) \in Nat /\ WithinLimit /\ ClientLimit \in Nat
      /\ extra \in 0..MaxExtra /\ MaxExtra \in Nat /\ failed \in BOOLEAN
  BY Limits, ClientCounts, SMTT(30) DEF SessionInv, TypeOK, CountInv
<1>1. (~failed => granted = Holders) /\ (~failed /\ Mapped => reservations = Cardinality(granted))
  BY DEF SessionInv, CountInv
<1>2. CASE Reserve(c)
  <2>1. /\ conn[c] = "idle" /\ Mapped /\ Cardinality(clients) + reservations < ClientLimit
        /\ reservations' = reservations + 1 /\ granted' = granted \union {c} /\ Goto(c, "reserved")
        /\ UNCHANGED <<clients, owner, dead, terminal, queues, failed, extra>>
    BY <1>2 DEF Reserve
  <2>2. conn' = [conn EXCEPT ![c] = "reserved"]
    BY <2>1 DEF Goto
  <2>3. ~failed => granted' = Holders' /\ c \notin granted
    BY <1>0, <1>1, <2>1, <2>2 DEF Holders
  <2>4. ~failed => Cardinality(granted') = Cardinality(granted) + 1
    BY <1>0, <2>1, <2>3, ClientCounts
  <2>5. reservations' \in Nat /\ reservations' <= ClientLimit /\ WithinLimit'
    BY <1>0, <2>1 DEF WithinLimit
  <2>. QED
    BY <1>0, <1>1, <2>1, <2>3, <2>4, <2>5, HandlerMoves DEF ConnStates, Attached
<1>3. ASSUME NEW state \in {"looked", "failed"}, conn[c] \in {"reserved", "looked"}, Goto(c, state),
             UNCHANGED <<session, terminal, queues, failed, extra>>
      PROVE  SessionInv'
  <2>1. conn' = [conn EXCEPT ![c] = state] /\ UNCHANGED <<reservations, clients, owner, dead, granted>>
    BY <1>3 DEF Goto, session
  <2>2. ~failed => granted' = Holders'
    BY <1>0, <1>1, <1>3, <2>1 DEF Holders
  <2>3. WithinLimit'
    BY <1>0, <2>1 DEF WithinLimit
  <2>. QED
    BY <1>0, <1>1, <1>3, <2>1, <2>2, <2>3, HandlerMoves DEF ConnStates, Attached
<1>4. CASE AcceptFails(c) \/ AttachLookup(c) \/ AttachRefused(c)
  BY <1>3, <1>4 DEF AcceptFails, AttachLookup, AttachRefused
<1>5. CASE Release(c)
  <2>1. /\ conn[c] = "failed" /\ Goto(c, "gone") /\ granted' = granted \ {c}
        /\ reservations' = IF Mapped /\ reservations > 0 THEN reservations - 1 ELSE reservations
        /\ UNCHANGED <<clients, owner, dead, terminal, queues, failed, extra>>
    BY <1>5 DEF Release
  <2>2. conn' = [conn EXCEPT ![c] = "gone"]
    BY <2>1 DEF Goto
  <2>3. ~failed => granted' = Holders' /\ c \in granted
    BY <1>0, <1>1, <2>1, <2>2 DEF Holders
  <2>4. ~failed => /\ Cardinality(granted') = Cardinality(granted) - 1
                   /\ Cardinality(granted) # 0
    BY <1>0, <2>1, <2>3, ClientCounts
  <2>5. ~failed /\ Mapped => reservations' = Cardinality(granted')
    BY <1>0, <1>1, <2>1, <2>4
  <2>6. reservations' \in Nat /\ reservations' <= ClientLimit /\ WithinLimit'
    BY <1>0, <2>1 DEF WithinLimit
  <2>. QED
    BY <1>0, <2>1, <2>3, <2>5, <2>6, HandlerMoves DEF ConnStates, Attached
<1>6. CASE AttachFails(c)
  <2>1. /\ conn[c] = "looked" /\ reservations > 0 /\ reservations' = reservations - 1
        /\ granted' = granted \ {c} /\ failed' = TRUE /\ Goto(c, "failed")
        /\ UNCHANGED <<clients, owner, dead, terminal, queues>>
    BY <1>6 DEF AttachFails
  <2>2. extra' \in 0..MaxExtra
    BY <1>0, <1>6 DEF AttachFails, Extra
  <2>3. reservations' \in Nat /\ reservations' <= ClientLimit /\ WithinLimit'
    BY <1>0, <2>1 DEF WithinLimit
  <2>. QED
    BY <1>0, <2>1, <2>2, <2>3, HandlerMoves DEF ConnStates, Attached
<1>. QED
  BY <1>2, <1>4, <1>5, <1>6

\* Attaching.
LEMMA AttachNext ==
  ASSUME Bounds, SessionInv, NEW c \in Clients, Attach(c) \/ AttachFromStore(c)
  PROVE  SessionInv'
<1>0. /\ conn \in [Clients -> ConnStates] /\ reservations \in Nat /\ reservations <= ClientLimit
      /\ clients \subseteq Clients /\ granted \subseteq Clients /\ Cardinality(clients) \in Nat
      /\ Cardinality(granted) \in Nat /\ WithinLimit /\ ClientLimit \in Nat
      /\ extra \in 0..MaxExtra /\ MaxExtra \in Nat /\ stream \in [Clients -> Seq(Message)]
      /\ read \in [Clients -> Nat] /\ TypeOK /\ seq \in Nat
  <2>1. TypeOK /\ WithinLimit
    BY DEF SessionInv, CountInv
  <2>2. clients \in SUBSET Clients /\ granted \in SUBSET Clients
    BY <2>1 DEF TypeOK
  <2>3. Cardinality(clients) \in Nat /\ Cardinality(granted) \in Nat
    BY <2>2, ClientCounts
  <2>4. reservations \in 0..ClientLimit /\ extra \in 0..MaxExtra /\ seq \in 0..MaxSeq
    BY <2>1 DEF TypeOK
  <2>5. /\ conn \in [Clients -> ConnStates] /\ stream \in [Clients -> Seq(Message)]
        /\ read \in [Clients -> Nat]
    BY <2>1 DEF TypeOK
  <2>6. reservations \in Nat /\ reservations <= ClientLimit /\ seq \in Nat
    BY <2>4, Limits
  <2>. QED
    BY <2>1, <2>2, <2>3, <2>4, <2>5, <2>6, Limits
<1>1. PICK n \in 0..seq, type \in {"snapshot", "stored"} :
         /\ conn[c] = "looked" /\ reservations > 0 /\ reservations' = reservations - 1
         /\ granted' = granted \ {c} /\ stream' = [stream EXCEPT ![c] = Greeting(type, n)]
         /\ clients' = clients \union {c} /\ conn' = [conn EXCEPT ![c] = "attached"]
         /\ UNCHANGED <<owner, dead, stage, worker, seq, resized, read, queued, failed>>
         /\ extra' \in 0..MaxExtra
  <2>1. extra' \in 0..MaxExtra
    BY <1>0 DEF Attach, AttachFromStore, Extra
  <2>2. /\ conn[c] = "looked" /\ reservations > 0 /\ reservations' = reservations - 1
        /\ granted' = granted \ {c} /\ clients' = clients \union {c}
        /\ conn' = [conn EXCEPT ![c] = "attached"]
        /\ UNCHANGED <<owner, dead, stage, worker, seq, resized, read, queued, failed>>
    BY DEF Attach, AttachFromStore, Goto, terminal
  <2>3. \E n \in 0..seq, type \in {"snapshot", "stored"} :
           stream' = [stream EXCEPT ![c] = Greeting(type, n)]
    <3>1. seq \in 0..seq
      BY <1>0
    <3>2. CASE Attach(c)
      BY <3>1, <3>2 DEF Attach
    <3>3. CASE AttachFromStore(c)
      BY <3>3 DEF AttachFromStore
    <3>. QED
      BY <3>2, <3>3
  <2>. QED
    BY <2>1, <2>2, <2>3
<1>. DEFINE g == Greeting(type, n)
<1>2. g \in Seq(Message) /\ Len(g) = 3
  <2>1. Greets(Greeting(type, n), type, n)
    BY <1>0, Greetings
  <2>. QED
    BY <2>1 DEF Greets
<1>. HIDE DEF g
<1>3. /\ stream' \in [Clients -> Seq(Message)] /\ stream'[c] = g
      /\ \A d \in Clients \ {c} : stream'[d] = stream[d]
      /\ conn' \in [Clients -> ConnStates] /\ conn'[c] = "attached"
      /\ \A d \in Clients \ {c} : conn'[d] = conn[d]
  BY <1>0, <1>1, <1>2 DEF ConnStates, g
<1>4. read[c] = 0 /\ queued[c] = 0
  BY <1>1 DEF SessionInv, ConnInv, Attached
<1>5. Cardinality(clients') <= Cardinality(clients) + 1 /\ Cardinality(clients') \in Nat
  BY <1>0, <1>1, ClientCounts
<1>6. WithinLimit' /\ reservations' \in 0..ClientLimit
  BY <1>0, <1>1, <1>5 DEF WithinLimit
<1>7. TypeOK'
  <2>1. \A d \in Clients : read[d] <= Len(stream'[d])
    <3>1. read[c] <= Len(stream'[c])
      BY <1>2, <1>3, <1>4
    <3>2. \A d \in Clients \ {c} : read[d] <= Len(stream'[d])
      BY <1>0, <1>3 DEF TypeOK
    <3>. QED
      BY <3>1, <3>2
  <2>2. clients' \subseteq Clients /\ granted' \subseteq Clients
    BY <1>0, <1>1
  <2>. QED
    BY <1>0, <1>1, <1>3, <1>6, <2>1, <2>2 DEF TypeOK
<1>8. CountInv'
  <2>1. ~failed => granted = Holders /\ granted' = Holders' /\ c \in granted
    BY <1>1, <1>3 DEF SessionInv, CountInv, Holders
  <2>2. ~failed => Cardinality(granted') = Cardinality(granted) - 1
    BY <1>0, <1>1, <2>1, ClientCounts
  <2>3. ~failed /\ Mapped => reservations = Cardinality(granted)
    BY DEF SessionInv, CountInv
  <2>. QED
    BY <1>0, <1>1, <1>6, <2>1, <2>2, <2>3 DEF CountInv, Mapped
<1>9. ConnInv'
  BY <1>1, <1>3 DEF SessionInv, ConnInv, Attached
<1>10. OwnerInv'
  BY <1>1, <1>3 DEF SessionInv, OwnerInv, OwnerIsConnected
<1>11. BacklogBounded'
  <2>1. Backlog(c)' = 3
    BY <1>1, <1>2, <1>3, <1>4 DEF Backlog
  <2>2. \A d \in Clients \ {c} : Backlog(d)' = Backlog(d)
    BY <1>1, <1>3 DEF Backlog
  <2>. QED
    BY <2>1, <2>2, Limits DEF SessionInv, BacklogBounded
<1>. QED
  BY <1>7, <1>8, <1>9, <1>10, <1>11 DEF SessionInv

\* The other steps of an attached client.
LEMMA ClientNext ==
  ASSUME Bounds, SessionInv, NEW c \in Clients,
         Leave(c) \/ Detach(c) \/ Deliver(c) \/ ClaimControl(c) \/ Resize(c) \/ Ping(c)
  PROVE  SessionInv'
<1>0. TypeOK /\ CountInv /\ ConnInv /\ OwnerInv /\ BacklogBounded
  BY DEF SessionInv
<1>1. /\ conn \in [Clients -> ConnStates] /\ stream \in [Clients -> Seq(Message)]
      /\ read \in [Clients -> Nat] /\ queued \in [Clients -> 0..ByteLimit]
      /\ clients \subseteq Clients /\ dead \subseteq Clients /\ owner \in Clients \union {NoClient}
  BY <1>0 DEF TypeOK
<1>2. CASE Leave(c)
  <2>1. /\ conn[c] = "attached" /\ conn' = [conn EXCEPT ![c] = "closing"]
        /\ UNCHANGED <<reservations, clients, owner, dead, granted, stage, worker, seq, resized,
                       stream, read, queued, failed, extra>>
    BY <1>2 DEF Leave, Goto, session, terminal, queues
  <2>2. TypeOK'
    BY <1>0, <2>1 DEF TypeOK, ConnStates
  <2>3. CountInv'
    BY <1>0, <1>1, <2>1 DEF CountInv, WithinLimit, Holders, Mapped
  <2>4. ConnInv' /\ BacklogBounded'
    BY <1>0, <1>1, <2>1 DEF ConnInv, Attached, BacklogBounded, Backlog
  <2>5. OwnerInv'
    BY <1>0, <1>1, <2>1 DEF OwnerInv, OwnerIsConnected
  <2>. QED
    BY <2>2, <2>3, <2>4, <2>5 DEF SessionInv
<1>3. CASE Detach(c)
  <2>1. /\ conn[c] = "closing" /\ conn' = [conn EXCEPT ![c] = "gone"]
        /\ stream' = [stream EXCEPT ![c] = <<>>]
        /\ read' = [read EXCEPT ![c] = 0] /\ queued' = [queued EXCEPT ![c] = 0]
        /\ dead' = dead \union {c}
        /\ clients' = IF Mapped THEN clients \ {c} ELSE clients
        /\ owner' = IF Mapped /\ owner = c THEN NoClient ELSE owner
        /\ UNCHANGED <<reservations, granted, stage, worker, seq, resized, failed, extra>>
    BY <1>3 DEF Detach, Goto, Discard, terminal
  <2>2. /\ stream' \in [Clients -> Seq(Message)] /\ read' \in [Clients -> Nat]
        /\ queued' \in [Clients -> 0..ByteLimit] /\ conn' \in [Clients -> ConnStates]
        /\ clients' \in SUBSET clients /\ owner' \in Clients \union {NoClient}
    BY <1>1, <2>1, Limits, SMTT(30) DEF ConnStates
  <2>3. TypeOK'
    <3>1. \A d \in Clients : read'[d] <= Len(stream'[d])
      <4>1. read'[c] = 0 /\ Len(stream'[c]) = 0
        BY <1>1, <2>1
      <4>2. \A d \in Clients \ {c} : read'[d] <= Len(stream'[d])
        BY <1>0, <1>1, <2>1 DEF TypeOK
      <4>. QED
        BY <4>1, <4>2
    <3>. QED
      BY <1>0, <1>1, <2>1, <2>2, <3>1 DEF TypeOK
  <2>4. Cardinality(clients') <= Cardinality(clients) /\ Cardinality(clients') \in Nat
        /\ Cardinality(clients) \in Nat
    BY <1>1, <2>2, ClientCounts
  <2>5. WithinLimit'
    <3>1. reservations \in Nat /\ ClientLimit \in Nat
      BY <1>0, Limits DEF TypeOK
    <3>. QED
      BY <1>0, <2>1, <2>4, <3>1 DEF CountInv, WithinLimit
  <2>6. CountInv'
    BY <1>0, <1>1, <2>1, <2>5 DEF CountInv, Holders, Mapped
  <2>7. ConnInv'
    BY <1>0, <1>1, <2>1, <2>2 DEF ConnInv, Attached
  <2>8. BacklogBounded'
    <3>1. Backlog(c)' = 0
      BY <1>1, <2>1 DEF Backlog
    <3>2. \A d \in Clients \ {c} : Backlog(d)' = Backlog(d)
      BY <1>1, <2>1 DEF Backlog
    <3>. QED
      BY <1>0, <3>1, <3>2, Limits DEF BacklogBounded
  <2>9. OwnerInv'
    <3>1. owner' # NoClient => owner' = owner /\ owner' # c
      BY <1>0, <2>1 DEF OwnerInv, Mapped
    <3>. QED
      BY <1>0, <1>1, <2>1, <3>1 DEF OwnerInv, OwnerIsConnected
  <2>. QED
    BY <2>3, <2>6, <2>7, <2>8, <2>9 DEF SessionInv
<1>4. CASE Deliver(c)
  <2>1. /\ conn[c] = "attached" /\ Backlog(c) > 0 /\ read' = [read EXCEPT ![c] = @ + 1]
        /\ queued' = [queued EXCEPT ![c] = IF @ = 0 THEN 0 ELSE @ - 1]
        /\ UNCHANGED <<conn, reservations, clients, owner, dead, granted, stage, worker, seq,
                       resized, stream, failed, extra>>
    BY <1>4 DEF Deliver, session, terminal
  <2>2. /\ read[c] \in Nat /\ queued[c] \in 0..ByteLimit /\ Len(stream[c]) \in Nat
    BY <1>1, OneMore
  <2>3. (IF queued[c] = 0 THEN 0 ELSE queued[c] - 1) \in 0..ByteLimit
    BY <2>2, Limits
  <2>4. read' \in [Clients -> Nat] /\ queued' \in [Clients -> 0..ByteLimit]
    BY <1>1, <2>1, <2>2, <2>3
  <2>5. \A d \in Clients : read'[d] <= Len(stream'[d])
    <3>1. read[c] + 1 <= Len(stream[c])
      BY <2>1, <2>2 DEF Backlog
    <3>. QED
      BY <1>0, <1>1, <2>1, <3>1 DEF TypeOK
  <2>6. TypeOK'
    BY <1>0, <2>1, <2>4, <2>5 DEF TypeOK
  <2>7. CountInv' /\ OwnerInv'
    BY <1>0, <2>1 DEF CountInv, WithinLimit, Holders, Mapped, OwnerInv, OwnerIsConnected
  <2>8. ConnInv'
    BY <1>0, <1>1, <2>1 DEF ConnInv, Attached
  <2>9. BacklogBounded'
    <3>1. Backlog(c)' <= Backlog(c) /\ Backlog(c) \in Int /\ Backlog(c)' \in Int
      BY <1>1, <2>1, <2>2 DEF Backlog
    <3>2. \A d \in Clients \ {c} : Backlog(d)' = Backlog(d)
      BY <1>1, <2>1 DEF Backlog
    <3>3. Backlog(c)' <= QueueLimit
      BY <1>0, <3>1, Limits DEF BacklogBounded
    <3>. QED
      BY <1>0, <3>2, <3>3 DEF BacklogBounded
  <2>. QED
    BY <2>6, <2>7, <2>8, <2>9 DEF SessionInv
<1>5. CASE ClaimControl(c)
  <2>1. /\ conn[c] = "attached" /\ stage = "open" /\ owner' = c
        /\ UNCHANGED <<conn, reservations, clients, dead, granted, stage, worker, seq, resized,
                       stream, read, queued, failed, extra>>
    BY <1>5 DEF ClaimControl, terminal, queues
  <2>2. TypeOK'
    BY <1>0, <2>1 DEF TypeOK
  <2>3. CountInv' /\ OwnerInv'
    BY <1>0, <2>1 DEF CountInv, WithinLimit, Holders, Mapped, OwnerInv, OwnerIsConnected
  <2>4. ConnInv' /\ BacklogBounded'
    BY <1>0, <2>1 DEF ConnInv, BacklogBounded, Backlog
  <2>. QED
    BY <2>2, <2>3, <2>4 DEF SessionInv
<1>6. CASE Resize(c)
  <2>1. seq' = seq + 1 /\ seq < MaxSeq /\ resized' = resized \union {seq + 1}
        /\ UNCHANGED <<conn, reservations, clients, owner, dead, granted, stage, worker,
                       stream, read, queued, failed, extra>>
    BY <1>6 DEF Resize, session, queues
  <2>2. seq \in 0..MaxSeq /\ resized \subseteq 1..seq
    BY <1>0 DEF TypeOK
  <2>3. seq' \in 0..MaxSeq /\ resized' \subseteq 1..seq'
    BY <2>1, <2>2, Limits
  <2>. QED
    BY <1>0, <2>1, <2>3, SessionStutter DEF TypeOK
<1>7. CASE Ping(c)
  <2>1. /\ conn[c] = "attached" /\ extra' \in 0..MaxExtra
        /\ UNCHANGED <<conn, reservations, clients, owner, granted, stage, worker, seq, resized,
                       read, queued, failed>>
        /\ \/ Backlog(c) < QueueLimit /\ dead' = dead
              /\ stream' = [stream EXCEPT ![c] = Append(@, Msg("pong", 0))]
           \/ dead' = dead \union {c} /\ stream' = stream
    <3>1. extra' \in 0..MaxExtra
      BY <1>0, <1>7, Limits DEF Ping, Extra, TypeOK
    <3>. QED
      BY <1>7, <3>1 DEF Ping, Fits, terminal
  <2>2. Msg("pong", 0) \in Message
    BY Limits, Messages
  <2>. DEFINE longer == Append(stream[c], Msg("pong", 0))
  <2>3. /\ stream[c] \in Seq(Message) /\ Len(stream[c]) \in Nat
        /\ longer \in Seq(Message) /\ Len(longer) = Len(stream[c]) + 1
    BY <1>1, <2>2, OneMore
  <2>. HIDE DEF longer
  <2>4. /\ stream' \in [Clients -> Seq(Message)] /\ dead' \subseteq Clients /\ dead \subseteq dead'
        /\ \A d \in Clients \ {c} : stream'[d] = stream[d]
        /\ stream'[c] = stream[c] \/ (Backlog(c) < QueueLimit /\ stream'[c] = longer)
    BY <1>1, <2>1, <2>3 DEF longer
  <2>5. \A d \in Clients : read[d] <= Len(stream'[d])
    <3>1. read[c] <= Len(stream'[c])
      <4>1. read[c] \in Nat /\ read[c] <= Len(stream[c])
        BY <1>0, <1>1 DEF TypeOK
      <4>. QED
        BY <2>3, <2>4, <4>1
    <3>2. \A d \in Clients \ {c} : read[d] <= Len(stream'[d])
      BY <1>0, <2>4 DEF TypeOK
    <3>. QED
      BY <3>1, <3>2
  <2>6. TypeOK'
    BY <1>0, <2>1, <2>4, <2>5 DEF TypeOK
  <2>7. CountInv' /\ OwnerInv'
    BY <1>0, <2>1 DEF CountInv, WithinLimit, Holders, Mapped, OwnerInv, OwnerIsConnected
  <2>8. ConnInv'
    BY <1>0, <1>1, <2>1, <2>4 DEF ConnInv, Attached
  <2>9. BacklogBounded'
    <3>1. Backlog(c)' <= QueueLimit
      <4>1. read[c] \in Nat /\ read'[c] = read[c]
        BY <1>1, <2>1
      <4>. QED
        BY <1>0, <2>3, <2>4, <4>1, Limits, SMTT(30) DEF BacklogBounded, Backlog
    <3>2. \A d \in Clients \ {c} : Backlog(d)' = Backlog(d)
      BY <1>1, <2>1, <2>4 DEF Backlog
    <3>. QED
      BY <1>0, <3>1, <3>2 DEF BacklogBounded
  <2>. QED
    BY <2>6, <2>7, <2>8, <2>9 DEF SessionInv
<1>. QED
  BY <1>2, <1>3, <1>4, <1>5, <1>6, <1>7

\* What the session broadcasts.
LEMMA BroadcastNext ==
  ASSUME Bounds, SessionInv, NEW msg \in Message, Broadcast(msg),
         UNCHANGED <<conn, reservations, owner, granted, worker, failed>>,
         seq' \in 0..MaxSeq, resized' \subseteq 1..seq', extra' \in 0..MaxExtra,
         stage' = stage \/ stage' = "closed", stage = "unmapped" => stage' = "unmapped"
  PROVE  SessionInv'
<1>0. TypeOK /\ CountInv /\ ConnInv /\ OwnerInv /\ BacklogBounded
  BY DEF SessionInv
<1>1. /\ stream' \in [Clients -> Seq(Message)] /\ queued' \in [Clients -> 0..ByteLimit]
      /\ read' = read /\ dead \subseteq dead' /\ dead' \subseteq Clients
      /\ clients' \subseteq clients \ dead /\ clients' \intersect dead' = {}
      /\ \A c \in clients' : stream'[c] = Append(stream[c], msg) /\ Backlog(c) < QueueLimit
      /\ \A c \in Clients \ clients' : stream'[c] = stream[c] /\ queued'[c] = queued[c]
  BY <1>0, Reached
<1>2. /\ clients \in SUBSET Clients /\ clients' \in SUBSET clients
      /\ read \in [Clients -> Nat] /\ stream \in [Clients -> Seq(Message)]
      /\ reservations \in Nat /\ ClientLimit \in Nat /\ QueueLimit \in Nat
  BY <1>0, <1>1, Limits, SMTT(30) DEF TypeOK
<1>3. \A c \in Clients :
        /\ Len(stream[c]) \in Nat /\ Len(stream'[c]) \in Nat /\ read[c] <= Len(stream[c])
        /\ \/ stream'[c] = stream[c]
           \/ Backlog(c) < QueueLimit /\ Len(stream'[c]) = Len(stream[c]) + 1
  BY <1>0, <1>1, <1>2, OneMore DEF TypeOK
<1>4. \A c \in Clients : read[c] <= Len(stream'[c])
  BY <1>2, <1>3
<1>5. TypeOK'
  BY <1>0, <1>1, <1>2, <1>4 DEF TypeOK
<1>6. /\ Cardinality(clients') <= Cardinality(clients) /\ Cardinality(clients') \in Nat
      /\ Cardinality(clients) \in Nat
  <2>1. clients' \in SUBSET Clients
    BY <1>2
  <2>. QED
    BY <1>2, <2>1, ClientCounts
<1>7. WithinLimit'
  BY <1>0, <1>2, <1>6 DEF CountInv, WithinLimit
<1>8. CountInv'
  BY <1>0, <1>7 DEF CountInv, Holders, Mapped
<1>9. ConnInv'
  <2>1. \A c \in Clients : conn[c] \notin Attached => c \notin clients'
    BY <1>0, <1>1 DEF ConnInv
  <2>. QED
    BY <1>0, <1>1, <2>1 DEF ConnInv
<1>10. BacklogBounded'
  BY <1>0, <1>1, <1>2, <1>3 DEF BacklogBounded, Backlog
<1>11. OwnerInv'
  BY <1>0 DEF OwnerInv, OwnerIsConnected
<1>. QED
  BY <1>5, <1>8, <1>9, <1>10, <1>11 DEF SessionInv

\* The clients are closed and control is given up.
LEMMA EndNext ==
  ASSUME Bounds, SessionInv, Terminate \/ Retire
  PROVE  SessionInv'
<1>0. TypeOK /\ CountInv /\ ConnInv /\ OwnerInv /\ BacklogBounded
  BY DEF SessionInv
<1>1. /\ dead' = dead \union clients /\ clients' = {} /\ owner' = NoClient
      /\ stage' \in {"closed", "retired"} /\ stage # "unmapped"
      /\ UNCHANGED <<conn, reservations, granted, worker, seq, resized, stream, read, queued, failed, extra>>
  BY DEF Terminate, Retire, queues
<1>2. TypeOK'
  BY <1>0, <1>1 DEF TypeOK
<1>3. Cardinality(clients') = 0 /\ Cardinality(clients) \in Nat
  BY <1>0, <1>1, FS_EmptySet, ClientCounts DEF TypeOK
<1>4. WithinLimit'
  BY <1>0, <1>1, <1>3, Limits DEF TypeOK, CountInv, WithinLimit
<1>5. CountInv'
  BY <1>0, <1>1, <1>4 DEF CountInv, Holders, Mapped
<1>6. ConnInv' /\ BacklogBounded' /\ OwnerInv'
  BY <1>0, <1>1 DEF ConnInv, BacklogBounded, Backlog, OwnerInv, OwnerIsConnected
<1>. QED
  BY <1>2, <1>5, <1>6 DEF SessionInv

\* Every step keeps places, control and queues in order.
LEMMA SessionNext ==
  ASSUME Bounds, SessionInv, [Next]_vars
  PROVE  SessionInv'
<1>0. TypeOK
  BY DEF SessionInv
<1>1. ASSUME NEW c \in Clients, ClientStep(c) PROVE SessionInv'
  BY <1>1, HandlerNext, AttachNext, ClientNext DEF ClientStep
<1>2. CASE Output
  <2>1. seq' = seq + 1 /\ seq < MaxSeq /\ Broadcast(Msg("output", seq + 1))
    BY <1>2 DEF Output
  <2>2. seq \in 0..MaxSeq /\ resized \subseteq 1..seq
    BY <1>0 DEF TypeOK
  <2>3. seq' \in 0..MaxSeq /\ resized \subseteq 1..seq' /\ seq + 1 \in 0..MaxSeq
    BY <2>1, <2>2, Limits
  <2>4. Msg("output", seq + 1) \in Message
    BY <2>3, Messages
  <2>5. /\ UNCHANGED <<conn, reservations, owner, granted, worker, failed, stage>>
        /\ resized' = resized /\ extra' = extra
    BY <1>2 DEF Output
  <2>. QED
    BY <1>0, <2>1, <2>3, <2>4, <2>5, BroadcastNext DEF TypeOK
<1>3. CASE UpdateMeta
  <2>1. Msg("meta", seq) \in Message
    BY <1>0, Messages DEF TypeOK
  <2>2. extra' \in 0..MaxExtra
    BY <1>0, <1>3, Limits DEF UpdateMeta, Extra, TypeOK
  <2>. QED
    BY <1>0, <1>3, <2>1, <2>2, BroadcastNext DEF UpdateMeta, terminal, TypeOK
<1>4. CASE ProcessExits
  <2>1. Msg("terminated", seq) \in Message
    BY <1>0, Messages DEF TypeOK
  <2>. QED
    BY <1>0, <1>4, <2>1, BroadcastNext DEF ProcessExits, TypeOK
<1>5. CASE Unmap \/ CloseWorkerSession \/ UNCHANGED vars
  <2>1. /\ UNCHANGED <<conn, reservations, clients, owner, dead, granted, stream, read, queued,
                       failed, seq, resized, extra>>
        /\ stage' = stage \/ (stage = "retired" /\ stage' = "unmapped")
        /\ worker' \in BOOLEAN
    BY <1>0, <1>5 DEF Unmap, CloseWorkerSession, vars, session, queues, TypeOK
  <2>2. stage' # stage => owner = NoClient
    BY <2>1 DEF SessionInv, OwnerInv
  <2>. QED
    BY <1>0, <2>1, <2>2, SessionStutter DEF TypeOK
<1>. QED
  BY <1>1, <1>2, <1>3, <1>4, <1>5, EndNext DEF Next

\* At first there are no clients.
LEMMA SessionStart == ASSUME Bounds, Init PROVE SessionInv
<1>1. TypeOK
  <2>1. <<>> \in Seq(Message) /\ Len(<<>>) = 0
    OBVIOUS
  <2>2. /\ stream \in [Clients -> Seq(Message)] /\ read \in [Clients -> Nat]
        /\ \A c \in Clients : read[c] <= Len(stream[c])
    BY <2>1 DEF Init
  <2>3. queued \in [Clients -> 0..ByteLimit] /\ reservations \in 0..ClientLimit
        /\ seq \in 0..MaxSeq /\ extra \in 0..MaxExtra
    BY DEF Init, Bounds
  <2>4. conn \in [Clients -> ConnStates]
    BY DEF Init, ConnStates
  <2>5. /\ clients \subseteq Clients /\ dead \subseteq Clients /\ granted \subseteq Clients
        /\ owner \in Clients \union {NoClient} /\ resized \subseteq 1..seq
        /\ stage \in {"open", "closed", "retired", "unmapped"}
        /\ worker \in BOOLEAN /\ failed \in BOOLEAN
    BY DEF Init
  <2>. QED
    BY <2>2, <2>3, <2>4, <2>5 DEF TypeOK
<1>2. Cardinality({}) = 0
  BY FS_EmptySet
<1>3. CountInv
  BY <1>2, Limits DEF Init, CountInv, WithinLimit, Holders
<1>4. ConnInv /\ OwnerInv
  BY DEF Init, ConnInv, OwnerInv, OwnerIsConnected
<1>5. BacklogBounded
  BY Limits DEF Init, BacklogBounded, Backlog
<1>. QED
  BY <1>1, <1>3, <1>4, <1>5 DEF SessionInv

\* However attaches, failures, slow clients and the end of the session interleave,
\* the limit holds, every place is counted once until an attach fails, and control
\* is with a connection that will give it back (attach.go, manager.go, websocket.go).
THEOREM SessionHolds == ASSUME Bounds PROVE Spec => []SessionSafe
<1>1. Init => SessionInv
  BY SessionStart
<1>2. SessionInv /\ [Next]_vars => SessionInv'
  BY SessionNext
<1>3. SessionInv => SessionSafe
  BY DEF SessionInv, SessionSafe, CountInv, ReservationsExact, OwnerInv
<1>. QED
  BY <1>1, <1>2, <1>3, PTL DEF Spec

-----------------------------------------------------------------------------
(* What each client is shown                                               *)

\* A queue starts with the greeting.
Greeted(s) ==
    /\ Len(s) >= 3
    /\ s[1].type \in {"snapshot", "stored"} /\ s[2].type = "meta"
    /\ s[3].type \in {"ready", "terminated"}

\* A queue from which nothing but the resizes `sizes' is missing (NoGap).
Whole(s, sizes) ==
    \A i \in DOMAIN s : s[i].type = "output" =>
        \/ s[1].type = "stored" /\ \A j \in 1..(i - 1) : s[j].type # "output"
        \/ \E j \in 1..(i - 1) :
              /\ s[j].type \in {"snapshot", "output"} /\ s[j].seq < s[i].seq
              /\ (s[j].seq + 1)..(s[i].seq - 1) \subseteq sizes

\* A queue that chunk n + 1 continues.
Fresh(s, n, sizes) ==
    \/ s[1].type = "stored" /\ \A j \in DOMAIN s : s[j].type # "output"
    \/ \E j \in DOMAIN s :
          /\ s[j].type \in {"snapshot", "output"} /\ s[j].seq <= n
          /\ (s[j].seq + 1)..n \subseteq sizes

Told(s) == \E i \in DOMAIN s : s[i].type = "terminated"

\* A queue is coherent, and that of an open client is up to date.
View(c) ==
    /\ stream[c] # <<>> => Greeted(stream[c]) /\ Whole(stream[c], resized)
    /\ conn[c] \in Attached => stream[c] # <<>>
    /\ c \in clients \ dead =>
          /\ stream[c] # <<>> /\ Fresh(stream[c], seq, resized)
          /\ Closed => Told(stream[c])

ViewInv == \A c \in Clients : View(c)

\* Any message leaves what came before it in place.
LEMMA LongerQueue ==
  ASSUME NEW s \in Seq(Message), NEW msg \in Message, Greeted(s)
  PROVE  /\ Append(s, msg) # <<>> /\ Greeted(Append(s, msg))
         /\ Told(s) \/ msg.type = "terminated" => Told(Append(s, msg))
<1>. DEFINE t == Append(s, msg)
<1>1. /\ Len(t) = Len(s) + 1 /\ t[Len(s) + 1] = msg /\ \A i \in 1..Len(s) : t[i] = s[i]
      /\ DOMAIN s = 1..Len(s) /\ DOMAIN t = 1..(Len(s) + 1) /\ Len(s) \in Nat /\ Len(s) >= 3
      /\ t \in Seq(Message)
  BY OneMore DEF Greeted
<1>. HIDE DEF t
<1>2. t # <<>>
  BY <1>1
<1>3. 1 \in 1..Len(s) /\ 2 \in 1..Len(s) /\ 3 \in 1..Len(s) /\ Len(s) + 1 \in 1..(Len(s) + 1)
      /\ 1..Len(s) \subseteq 1..(Len(s) + 1)
  BY <1>1
<1>4. Greeted(t)
  BY <1>1, <1>3 DEF Greeted
<1>5. Told(s) \/ msg.type = "terminated" => Told(t)
  BY <1>1, <1>3 DEF Told
<1>. QED
  BY <1>2, <1>4, <1>5 DEF t

\* A message that is not a chunk leaves a queue whole and fresh.
LEMMA OtherMessage ==
  ASSUME NEW s \in Seq(Message), NEW msg \in Message, msg.type # "output", Greeted(s),
         NEW n, NEW sizes
  PROVE  /\ Whole(s, sizes) => Whole(Append(s, msg), sizes)
         /\ Fresh(s, n, sizes) => Fresh(Append(s, msg), n, sizes)
<1>. DEFINE t == Append(s, msg)
<1>1. /\ t[Len(s) + 1] = msg /\ \A i \in 1..Len(s) : t[i] = s[i]
      /\ DOMAIN s = 1..Len(s) /\ DOMAIN t = 1..(Len(s) + 1) /\ Len(s) \in Nat /\ Len(s) >= 3
  BY OneMore DEF Greeted
<1>. HIDE DEF t
<1>2. t[1] = s[1] /\ \A i \in 1..(Len(s) + 1) : i \in 1..Len(s) \/ i = Len(s) + 1
  BY <1>1
<1>3. ASSUME Whole(s, sizes) PROVE Whole(t, sizes)
  <2>. SUFFICES ASSUME NEW i \in DOMAIN t, t[i].type = "output"
                PROVE  \/ t[1].type = "stored" /\ \A j \in 1..(i - 1) : t[j].type # "output"
                       \/ \E j \in 1..(i - 1) :
                             /\ t[j].type \in {"snapshot", "output"} /\ t[j].seq < t[i].seq
                             /\ (t[j].seq + 1)..(t[i].seq - 1) \subseteq sizes
    BY DEF Whole
  <2>1. i \in 1..Len(s)
    BY <1>1, <1>2
  <2>2. t[i] = s[i] /\ 1..(i - 1) \subseteq 1..Len(s)
    BY <1>1, <2>1
  <2>3. \A j \in 1..(i - 1) : t[j] = s[j]
    BY <1>1, <2>2
  <2>. QED
    BY <1>1, <1>2, <1>3, <2>1, <2>2, <2>3 DEF Whole
<1>4. ASSUME Fresh(s, n, sizes) PROVE Fresh(t, n, sizes)
  <2>1. CASE s[1].type = "stored" /\ \A j \in DOMAIN s : s[j].type # "output"
    BY <1>1, <1>2, <2>1 DEF Fresh
  <2>2. CASE \E j \in DOMAIN s :
                /\ s[j].type \in {"snapshot", "output"} /\ s[j].seq <= n
                /\ (s[j].seq + 1)..n \subseteq sizes
    <3>1. PICK j \in 1..Len(s) : /\ s[j].type \in {"snapshot", "output"} /\ s[j].seq <= n
                                 /\ (s[j].seq + 1)..n \subseteq sizes
      BY <1>1, <2>2
    <3>2. t[j] = s[j] /\ j \in DOMAIN t
      BY <1>1
    <3>. QED
      BY <3>1, <3>2 DEF Fresh
  <2>. QED
    BY <1>4, <2>1, <2>2 DEF Fresh
<1>. QED
  BY <1>3, <1>4 DEF t

\* The next chunk continues a fresh queue.
LEMMA NextChunkView ==
  ASSUME NEW s \in Seq(Message), NEW msg \in Message, Greeted(s), NEW n \in Nat, NEW sizes,
         msg.type = "output", msg.seq = n + 1, Whole(s, sizes), Fresh(s, n, sizes)
  PROVE  Whole(Append(s, msg), sizes) /\ Fresh(Append(s, msg), n + 1, sizes)
<1>. DEFINE t == Append(s, msg)
            k == Len(s) + 1
<1>1. /\ t[k] = msg /\ \A i \in 1..Len(s) : t[i] = s[i]
      /\ DOMAIN s = 1..Len(s) /\ DOMAIN t = 1..k /\ Len(s) \in Nat /\ Len(s) >= 3
  BY OneMore DEF Greeted
<1>. HIDE DEF t
<1>2. t[1] = s[1] /\ (\A i \in 1..k : i \in 1..Len(s) \/ i = k) /\ 1..(k - 1) = 1..Len(s) /\ k \in 1..k
  BY <1>1
<1>3. ASSUME NEW i \in 1..Len(s), t[i].type = "output"
      PROVE  \/ t[1].type = "stored" /\ \A j \in 1..(i - 1) : t[j].type # "output"
             \/ \E j \in 1..(i - 1) :
                   /\ t[j].type \in {"snapshot", "output"} /\ t[j].seq < t[i].seq
                   /\ (t[j].seq + 1)..(t[i].seq - 1) \subseteq sizes
  <2>1. t[i] = s[i] /\ 1..(i - 1) \subseteq 1..Len(s)
    BY <1>1
  <2>2. \A j \in 1..(i - 1) : t[j] = s[j]
    BY <1>1, <2>1
  <2>. QED
    BY <1>1, <1>2, <1>3, <2>1, <2>2 DEF Whole
<1>4. \/ t[1].type = "stored" /\ \A j \in 1..(k - 1) : t[j].type # "output"
      \/ \E j \in 1..(k - 1) :
            /\ t[j].type \in {"snapshot", "output"} /\ t[j].seq < t[k].seq
            /\ (t[j].seq + 1)..(t[k].seq - 1) \subseteq sizes
  <2>1. CASE s[1].type = "stored" /\ \A j \in DOMAIN s : s[j].type # "output"
    BY <1>1, <1>2, <2>1
  <2>2. CASE \E j \in DOMAIN s :
                /\ s[j].type \in {"snapshot", "output"} /\ s[j].seq <= n
                /\ (s[j].seq + 1)..n \subseteq sizes
    <3>1. PICK j \in 1..Len(s) : /\ s[j].type \in {"snapshot", "output"} /\ s[j].seq <= n
                                 /\ (s[j].seq + 1)..n \subseteq sizes
      BY <1>1, <2>2
    <3>2. s[j] \in Message
      OBVIOUS
    <3>3. s[j].seq \in Int
      BY <3>2 DEF Message
    <3>4. t[j] = s[j] /\ t[k].seq = n + 1 /\ t[j].seq < t[k].seq /\ t[k].seq - 1 = n
      BY <1>1, <3>1, <3>3
    <3>. QED
      BY <1>2, <3>1, <3>4
  <2>. QED
    BY <2>1, <2>2 DEF Fresh
<1>5. Whole(t, sizes)
  BY <1>1, <1>2, <1>3, <1>4 DEF Whole
<1>6. Fresh(t, n + 1, sizes)
  <2>1. t[k].seq <= n + 1 /\ (t[k].seq + 1)..(n + 1) = {}
    BY <1>1
  <2>. QED
    BY <1>1, <1>2, <2>1 DEF Fresh
<1>. QED
  BY <1>5, <1>6 DEF t

\* A resize is the only number that may be missing.
LEMMA OneResize ==
  ASSUME NEW s \in Seq(Message), s # <<>>, NEW n \in Nat, NEW sizes
  PROVE  /\ Whole(s, sizes) => Whole(s, sizes \union {n + 1})
         /\ Fresh(s, n, sizes) => Fresh(s, n + 1, sizes \union {n + 1})
<1>1. Whole(s, sizes) => Whole(s, sizes \union {n + 1})
  BY DEF Whole
<1>2. ASSUME NEW j \in DOMAIN s, s[j].seq <= n, (s[j].seq + 1)..n \subseteq sizes
      PROVE  s[j].seq <= n + 1 /\ (s[j].seq + 1)..(n + 1) \subseteq sizes \union {n + 1}
  <2>1. s[j] \in Message
    OBVIOUS
  <2>2. s[j].seq \in Int
    BY <2>1 DEF Message
  <2>. QED
    BY <1>2, <2>2
<1>3. Fresh(s, n, sizes) => Fresh(s, n + 1, sizes \union {n + 1})
  BY <1>2 DEF Fresh
<1>. QED
  BY <1>1, <1>3

\* A step that queues nothing for a client and opens none.
LEMMA ViewStays ==
  ASSUME NEW c \in Clients, View(c), stream'[c] = stream[c],
         c \in clients' \ dead' => c \in clients \ dead /\ seq' = seq /\ (Closed' => Closed),
         conn'[c] \in Attached => conn[c] \in Attached, resized' = resized
  PROVE  View(c)'
  BY DEF View

\* The view of a client that attaches.
LEMMA AttachView ==
  ASSUME Bounds, SessionInv, ViewInv, NEW c \in Clients, Attach(c) \/ AttachFromStore(c)
  PROVE  ViewInv'
<1>0. /\ TypeOK /\ stream \in [Clients -> Seq(Message)] /\ seq \in Nat
      /\ conn \in [Clients -> ConnStates]
  <2>1. /\ TypeOK /\ stream \in [Clients -> Seq(Message)] /\ conn \in [Clients -> ConnStates]
        /\ seq \in 0..MaxSeq
    BY DEF SessionInv, TypeOK
  <2>. QED
    BY <2>1, Limits
<1>1. PICK n \in 0..seq, type \in {"snapshot", "stored"} :
         /\ type = "snapshot" => n = seq
         /\ stream' = [stream EXCEPT ![c] = Greeting(type, n)]
         /\ clients' = clients \union {c} /\ UNCHANGED <<dead, stage, seq, resized>>
         /\ conn' = [conn EXCEPT ![c] = "attached"]
  <2>1. seq \in 0..seq
    BY <1>0
  <2>2. CASE Attach(c)
    BY <2>1, <2>2 DEF Attach, Goto, terminal
  <2>3. CASE AttachFromStore(c)
    BY <2>3 DEF AttachFromStore, Goto, terminal
  <2>. QED
    BY <2>2, <2>3
<1>. DEFINE g == Greeting(type, n)
<1>2. /\ g \in Seq(Message) /\ Len(g) = 3 /\ DOMAIN g = 1..3
      /\ g[1].type = type /\ g[1].seq = n
      /\ g[2].type = "meta" /\ g[3].type = IF Closed THEN "terminated" ELSE "ready"
  <2>1. Greets(Greeting(type, n), type, n)
    BY <1>0, Greetings
  <2>. QED
    BY <2>1 DEF Greets
<1>3. stream'[c] = g /\ \A d \in Clients \ {c} : stream'[d] = stream[d] /\ conn'[d] = conn[d]
  BY <1>0, <1>1
<1>. HIDE DEF g
<1>4. /\ g # <<>> /\ Greeted(g) /\ 1 \in DOMAIN g /\ 3 \in DOMAIN g
      /\ \A i \in DOMAIN g : g[i].type # "output"
  <2>1. 1 \in 1..3 /\ 3 \in 1..3 /\ \A i \in 1..3 : i = 1 \/ i = 2 \/ i = 3
    OBVIOUS
  <2>4. g # <<>>
    <3>1. g \in Seq(Message) /\ Len(g) = 3
      BY <1>2
    <3>. QED
      BY <3>1
  <2>2. \A i \in DOMAIN g : g[i].type # "output"
    BY <1>2, <2>1
  <2>3. Greeted(g)
    BY <1>2 DEF Greeted
  <2>. QED
    BY <1>2, <2>1, <2>2, <2>3, <2>4
<1>5. Whole(g, resized)
  BY <1>4 DEF Whole
<1>6. Fresh(g, seq, resized)
  <2>1. CASE type = "stored"
    BY <1>2, <1>4, <2>1 DEF Fresh
  <2>2. CASE type = "snapshot"
    <3>1. g[1].seq <= seq /\ (g[1].seq + 1)..seq = {}
      BY <1>0, <1>1, <1>2, <2>2
    <3>. QED
      BY <1>2, <1>4, <2>2, <3>1 DEF Fresh
  <2>. QED
    BY <2>1, <2>2
<1>7. Closed => Told(g)
  BY <1>2, <1>4 DEF Told
<1>8. View(c)'
  BY <1>1, <1>3, <1>4, <1>5, <1>6, <1>7 DEF View, Closed
<1>9. \A d \in Clients \ {c} : View(d)'
  BY <1>1, <1>3, ViewStays DEF ViewInv, Closed
<1>. QED
  BY <1>8, <1>9 DEF ViewInv

\* The views after a message is broadcast.
LEMMA BroadcastView ==
  ASSUME Bounds, SessionInv, ViewInv, NEW msg \in Message, Broadcast(msg), resized' = resized, conn' = conn,
         \/ msg.type = "output" /\ msg.seq = seq + 1 /\ seq' = seq + 1 /\ stage' = stage
         \/ msg.type \in {"meta", "terminated"} /\ seq' = seq,
         stage' = stage \/ msg.type = "terminated"
  PROVE  ViewInv'
<1>0. TypeOK /\ stream \in [Clients -> Seq(Message)] /\ seq \in Nat
  BY Limits, SMTT(30) DEF SessionInv, TypeOK
<1>1. /\ dead \subseteq dead' /\ clients' \subseteq clients \ dead
      /\ \A c \in clients' : stream'[c] = Append(stream[c], msg)
      /\ \A c \in Clients \ clients' : stream'[c] = stream[c]
  BY <1>0, Reached
<1>2. ASSUME NEW c \in Clients, c \notin clients' PROVE View(c)'
  BY <1>1, <1>2, ViewStays DEF ViewInv
<1>3. ASSUME NEW c \in Clients, c \in clients' PROVE View(c)'
  <2>. DEFINE s == stream[c]
              t == Append(s, msg)
  <2>1. /\ s \in Seq(Message) /\ s # <<>> /\ Greeted(s) /\ Whole(s, resized)
        /\ Fresh(s, seq, resized) /\ (Closed => Told(s)) /\ stream'[c] = t
    BY <1>0, <1>1, <1>3 DEF ViewInv, View
  <2>. HIDE DEF s
  <2>2. t # <<>> /\ Greeted(t) /\ (Told(s) \/ msg.type = "terminated" => Told(t))
    BY <2>1, LongerQueue
  <2>3. Whole(t, resized) /\ Fresh(t, seq', resized)
    <3>1. CASE msg.type = "output"
      <4>1. msg.seq = seq + 1 /\ seq' = seq + 1
        BY <3>1
      <4>. QED
        BY <1>0, <2>1, <3>1, <4>1, NextChunkView
    <3>2. CASE msg.type # "output"
      <4>1. seq' = seq
        BY <3>2
      <4>. QED
        BY <2>1, <3>2, <4>1, OtherMessage
    <3>. QED
      BY <3>1, <3>2
  <2>4. Closed' => Told(t)
    BY <2>1, <2>2 DEF Closed
  <2>. HIDE DEF t
  <2>. QED
    BY <2>1, <2>2, <2>3, <2>4 DEF View
<1>. QED
  BY <1>2, <1>3 DEF ViewInv

\* The other steps of a connection.
LEMMA ClientView ==
  ASSUME Bounds, SessionInv, ViewInv, NEW c \in Clients,
         \/ Reserve(c) \/ AcceptFails(c) \/ Release(c)
         \/ AttachLookup(c) \/ AttachRefused(c) \/ AttachFails(c)
         \/ Leave(c) \/ Detach(c) \/ Deliver(c) \/ ClaimControl(c) \/ Resize(c) \/ Ping(c)
  PROVE  ViewInv'
<1>0. /\ stream \in [Clients -> Seq(Message)] /\ seq \in Nat /\ conn \in [Clients -> ConnStates]
  BY Limits, SMTT(30) DEF SessionInv, TypeOK
<1>1. ASSUME UNCHANGED <<clients, dead, stage, seq, resized, stream>>,
             \A d \in Clients : conn'[d] \in Attached => conn[d] \in Attached
      PROVE  ViewInv'
  BY <1>1, ViewStays DEF ViewInv, Closed
<1>2. CASE \/ Reserve(c) \/ AcceptFails(c) \/ Release(c)
           \/ AttachLookup(c) \/ AttachRefused(c) \/ AttachFails(c)
           \/ Leave(c) \/ Deliver(c) \/ ClaimControl(c)
  <2>1. UNCHANGED <<clients, dead, stage, seq, resized, stream>>
    BY <1>2 DEF Reserve, AcceptFails, Release, AttachLookup, AttachRefused, AttachFails,
                Leave, Deliver, ClaimControl, session, terminal, queues
  <2>2. \/ conn' = conn
        \/ \E state \in ConnStates \ Attached : conn' = [conn EXCEPT ![c] = state]
        \/ conn[c] = "attached" /\ conn' = [conn EXCEPT ![c] = "closing"]
    BY <1>2 DEF Reserve, AcceptFails, Release, AttachLookup, AttachRefused, AttachFails,
                Leave, Deliver, ClaimControl, Goto, ConnStates, Attached
  <2>3. \A d \in Clients : conn'[d] \in Attached => conn[d] \in Attached
    BY <1>0, <2>2 DEF Attached
  <2>. QED
    BY <1>1, <2>1, <2>3
<1>3. CASE Detach(c)
  <2>1. /\ stream' = [stream EXCEPT ![c] = <<>>] /\ dead' = dead \union {c}
        /\ clients' \subseteq clients /\ UNCHANGED <<stage, seq, resized>>
        /\ conn' = [conn EXCEPT ![c] = "gone"]
    BY <1>3 DEF Detach, Discard, Goto, terminal
  <2>2. /\ stream'[c] = <<>> /\ conn'[c] \notin Attached
        /\ \A d \in Clients \ {c} : stream'[d] = stream[d] /\ conn'[d] = conn[d]
    BY <1>0, <2>1 DEF Attached
  <2>3. View(c)'
    BY <2>1, <2>2 DEF View
  <2>4. \A d \in Clients \ {c} : View(d)'
    BY <2>1, <2>2, ViewStays DEF ViewInv, Closed
  <2>. QED
    BY <2>3, <2>4 DEF ViewInv
<1>4. CASE Resize(c)
  <2>1. seq' = seq + 1 /\ resized' = resized \union {seq + 1}
        /\ UNCHANGED <<conn, clients, dead, stage, stream>>
    BY <1>4 DEF Resize, session, queues
  <2>2. ASSUME NEW d \in Clients PROVE View(d)'
    <3>1. stream[d] \in Seq(Message) /\ View(d)
      BY <1>0 DEF ViewInv
    <3>2. stream[d] # <<>> => Greeted(stream[d]) /\ Whole(stream[d], resized')
      BY <1>0, <2>1, <3>1, OneResize DEF View
    <3>3. d \in clients \ dead => /\ stream[d] # <<>> /\ Fresh(stream[d], seq', resized')
                                  /\ Closed => Told(stream[d])
      BY <1>0, <2>1, <3>1, OneResize DEF View
    <3>. QED
      BY <2>1, <3>1, <3>2, <3>3 DEF View, Closed
  <2>. QED
    BY <2>2 DEF ViewInv
<1>5. CASE Ping(c)
  <2>. DEFINE pong == Msg("pong", 0)
              t == Append(stream[c], pong)
  <2>1. pong \in Message /\ pong.type = "pong"
    BY Limits, Messages
  <2>. HIDE DEF pong
  <2>2. /\ conn[c] = "attached" /\ c \notin dead /\ UNCHANGED <<conn, clients, stage, seq, resized>>
        /\ \/ dead' = dead /\ stream' = [stream EXCEPT ![c] = t]
           \/ dead' = dead \union {c} /\ stream' = stream
    BY <1>5 DEF Ping, terminal, pong
  <2>3. CASE dead' = dead \union {c} /\ stream' = stream
    BY <2>2, <2>3, ViewStays DEF ViewInv, Closed
  <2>4. CASE dead' = dead /\ stream' = [stream EXCEPT ![c] = t]
    <3>1. \A d \in Clients \ {c} : View(d)'
      BY <1>0, <2>2, <2>4, ViewStays DEF ViewInv, Closed
    <3>2. stream'[c] = t /\ View(c) /\ stream[c] \in Seq(Message)
      BY <1>0, <2>4 DEF ViewInv
    <3>3. Greeted(stream[c]) /\ Whole(stream[c], resized)
      BY <2>2, <3>2 DEF View, Attached
    <3>4. View(c)'
      <4>1. t # <<>> /\ Greeted(t) /\ (Told(stream[c]) => Told(t))
        BY <2>1, <3>2, <3>3, LongerQueue
      <4>2. /\ Whole(t, resized)
            /\ Fresh(stream[c], seq, resized) => Fresh(t, seq, resized)
        BY <2>1, <3>2, <3>3, OtherMessage
      <4>. HIDE DEF t
      <4>. QED
        BY <2>2, <2>4, <3>2, <4>1, <4>2 DEF View, Closed
    <3>. QED
      BY <3>1, <3>4 DEF ViewInv
  <2>. QED
    BY <2>2, <2>3, <2>4
<1>. QED
  BY <1>2, <1>3, <1>4, <1>5

\* Every step keeps the views coherent.
LEMMA ViewNext ==
  ASSUME Bounds, SessionInv, ViewInv, [Next]_vars
  PROVE  ViewInv'
<1>0. TypeOK /\ seq \in 0..MaxSeq
  BY DEF SessionInv, TypeOK
<1>1. ASSUME NEW c \in Clients, ClientStep(c) PROVE ViewInv'
  BY <1>1, AttachView, ClientView DEF ClientStep
<1>2. CASE Output
  <2>1. seq' = seq + 1 /\ seq < MaxSeq /\ Broadcast(Msg("output", seq + 1))
        /\ resized' = resized /\ stage' = stage /\ conn' = conn
    BY <1>2 DEF Output
  <2>2. seq + 1 \in 0..MaxSeq
    BY <1>0, <2>1, Limits
  <2>3. Msg("output", seq + 1) \in Message /\ Msg("output", seq + 1).type = "output"
        /\ Msg("output", seq + 1).seq = seq + 1
    BY <2>2, Messages
  <2>. QED
    BY <2>1, <2>3, BroadcastView
<1>3. CASE UpdateMeta \/ ProcessExits
  <2>1. \A type \in {"meta", "terminated"} : Msg(type, seq) \in Message /\ Msg(type, seq).type = type
    BY <1>0, Messages
  <2>2. /\ seq' = seq /\ resized' = resized /\ conn' = conn
        /\ \/ Broadcast(Msg("meta", seq)) /\ stage' = stage
           \/ Broadcast(Msg("terminated", seq))
    BY <1>3 DEF UpdateMeta, ProcessExits, terminal
  <2>. QED
    BY <2>1, <2>2, BroadcastView
<1>4. CASE Terminate \/ Retire
  <2>1. clients' = {} /\ stream' = stream /\ resized' = resized /\ conn' = conn
    BY <1>4 DEF Terminate, Retire, queues
  <2>. QED
    BY <2>1, ViewStays DEF ViewInv
<1>5. CASE Unmap \/ CloseWorkerSession \/ UNCHANGED vars
  <2>1. /\ UNCHANGED <<conn, clients, dead, stream, seq, resized>>
        /\ Closed' => Closed
    BY <1>5 DEF Unmap, CloseWorkerSession, vars, session, queues, Closed
  <2>. QED
    BY <2>1, ViewStays DEF ViewInv
<1>. QED
  BY <1>1, <1>2, <1>3, <1>4, <1>5 DEF Next

\* The views say what ClientsInStep says.
LEMMA ViewsInStep ==
  ASSUME Bounds, SessionInv, ViewInv
  PROVE  ClientsInStep
<1>0. stream \in [Clients -> Seq(Message)] /\ seq \in Nat
  BY Limits DEF SessionInv, TypeOK
<1>1. AttachOrder
  BY DEF ViewInv, View, Greeted, AttachOrder
<1>2. NoGap
  <2>. SUFFICES ASSUME NEW c \in Clients, NEW i \in DOMAIN stream[c], stream[c][i].type = "output"
                PROVE  \/ /\ stream[c][1].type = "stored"
                          /\ \A j \in 1..(i - 1) : stream[c][j].type # "output"
                       \/ \E j \in 1..(i - 1) :
                             /\ stream[c][j].type \in {"snapshot", "output"}
                             /\ stream[c][j].seq < stream[c][i].seq
                             /\ (stream[c][j].seq + 1)..(stream[c][i].seq - 1) \subseteq resized
    BY DEF NoGap
  <2>1. stream[c] # <<>>
    BY <1>0
  <2>. QED
    BY <2>1 DEF ViewInv, View, Whole
<1>3. UpToDate
  <2>. SUFFICES ASSUME NEW c \in clients \ dead, seq \notin resized, stream[c][1].type # "stored"
                PROVE  \E i \in DOMAIN stream[c] :
                          stream[c][i].type \in {"snapshot", "output"} /\ stream[c][i].seq = seq
    BY DEF UpToDate
  <2>1. c \in Clients
    BY DEF SessionInv, TypeOK
  <2>2. PICK j \in DOMAIN stream[c] :
           /\ stream[c][j].type \in {"snapshot", "output"} /\ stream[c][j].seq <= seq
           /\ (stream[c][j].seq + 1)..seq \subseteq resized
    BY <2>1 DEF ViewInv, View, Fresh
  <2>3. stream[c][j] \in Message
    BY <1>0, <2>1
  <2>4. stream[c][j].seq \in Int
    BY <2>3 DEF Message
  <2>5. stream[c][j].seq = seq
    BY <1>0, <2>2, <2>4
  <2>. QED
    BY <2>2, <2>5
<1>4. EndIsAnnounced
  BY DEF ViewInv, View, Told, EndIsAnnounced, SessionInv, TypeOK
<1>. QED
  BY <1>1, <1>2, <1>3, <1>4 DEF ClientsInStep

\* Whatever is broadcast while clients attach, lag, resize and leave, each of them is
\* sent one coherent view: the greeting first, then every chunk in order, and the end
\* (attach.go holds session.mu from the snapshot to the registration).
THEOREM StreamsHold == ASSUME Bounds PROVE Spec => []ClientsInStep
<1>1. Init => SessionInv /\ ViewInv
  <2>1. Init => ViewInv
    BY DEF Init, ViewInv, View, Attached
  <2>. QED
    BY <2>1, SessionStart
<1>2. SessionInv /\ ViewInv /\ [Next]_vars => SessionInv' /\ ViewInv'
  BY SessionNext, ViewNext
<1>3. SessionInv /\ ViewInv => ClientsInStep
  BY ViewsInStep
<1>. QED
  BY <1>1, <1>2, <1>3, PTL DEF Spec

-----------------------------------------------------------------------------
(* The snapshots: the invariant                                            *)

\* A save is of a state between the one it began at and the present one.
SavesInOrder ==
    \A s \in Saves :
        /\ save[s].stage # "idle" => save[s].at \in 0..sequence
        /\ save[s].stage \in {"answered", "written"} =>
              save[s].through \in Versions /\ save[s].at <= save[s].through /\ save[s].through <= sequence

\* ChangeIsScheduled, with the save that will write the last change not having written
\* yet: once it has, only a save that began earlier can undo it, and sees that it did.
Scheduled ==
    (Open /\ errors = 0 /\ sequence > 0 /\ stored # sequence) =>
        \/ timer
        \/ \E s \in Saves : \/ At(s, "asked")
                            \/ At(s, "answered") /\ save[s].through = sequence
                            \/ ~At(s, "idle") /\ save[s].at # sequence

\* A retirement that has read the final snapshot has the last state, and all saves
\* that are still under way were so then.
Retires ==
    /\ stored <= sequence
    /\ phase \notin {"open", "closed"} =>
          final = sequence /\ \A s \in Saves : ~At(s, "idle") => s \in overtaken
    /\ phase \in {"stored", "archived"} => stored = sequence \/ (overtaken # {} /\ stored < sequence)
    /\ archived # None => phase \in {"archived", "removed"}

SaverInv == SaverTypeOK /\ SavesInOrder /\ Scheduled /\ Retires /\ ArchiveIsFinal /\ RemovedStaysRemoved

SaveRecords == [at : Versions \union {None}, through : Versions \union {None}, stage : SaveStages]

\* A step of one save changes its record alone.
LEMMA OneSaveSteps ==
  ASSUME SaverTypeOK, NEW s \in Saves, NEW r \in SaveRecords, Become(s, r)
  PROVE  /\ save' \in [Saves -> SaveRecords] /\ save'[s] = r
         /\ \A q \in Saves \ {s} : save'[q] = save[q]
BY DEF SaverTypeOK, Become, SaveRecords

LEMMA SaverStart == ASSUME SaverBounds, SaverInit PROVE SaverInv
<1>1. 0 \in Versions /\ 0 \in 0..MaxErrors /\ None \notin Versions
  BY DEF SaverBounds, Versions, None
<1>2. save \in [Saves -> SaveRecords] /\ \A s \in Saves : save[s].stage = "idle"
  BY DEF SaverInit, Idle, SaveRecords, SaveStages
<1>3. SaverTypeOK
  BY <1>1, <1>2 DEF SaverInit, SaverTypeOK, SaveRecords
<1>. QED
  BY <1>1, <1>2, <1>3 DEF SaverInit, SaverInv, SavesInOrder, Scheduled, Retires, ArchiveIsFinal,
       RemovedStaysRemoved, At, None, Open

-----------------------------------------------------------------------------
(* The snapshots: the steps                                                *)

LEMMA SaverTyped ==
  ASSUME SaverBounds, SaverInv, SaverNext
  PROVE  SaverTypeOK'
<1>. USE DEF SaverInv
<1>1. /\ Versions \subseteq Nat /\ 0 \in Versions /\ -1 \notin Versions /\ MaxChanges \in Nat /\ MaxErrors \in Nat
      /\ sequence \in Versions /\ errors \in Nat /\ save \in [Saves -> SaveRecords]
      /\ {"idle", "asked", "answered", "written"} = SaveStages
  BY DEF SaverBounds, Versions, SaverTypeOK, SaveRecords, SaveStages
<1>2. Idle \in SaveRecords
  BY DEF Idle, SaveRecords, SaveStages
<1>3. ASSUME NEW s \in Saves, SaveBegin(s)  PROVE SaverTypeOK'
  <2>1. [at |-> sequence, through |-> None, stage |-> "asked"] \in SaveRecords
    BY <1>1 DEF SaveRecords
  <2>2. save' \in [Saves -> SaveRecords]
    BY <1>3, <2>1, OneSaveSteps DEF SaveBegin
  <2>. QED  BY <1>3, <2>2 DEF SaveBegin, SaverTypeOK, SaveRecords, retirement
<1>4. ASSUME NEW s \in Saves, SaveStep(s)  PROVE SaverTypeOK'
  <2>1. save[s] \in SaveRecords
    BY <1>1
  <2>2. [save[s] EXCEPT !.through = sequence, !.stage = "answered"] \in SaveRecords
    BY <1>1, <2>1 DEF SaveRecords
  <2>3. [save[s] EXCEPT !.stage = "written"] \in SaveRecords
    BY <1>1, <2>1 DEF SaveRecords
  <2>4. save' \in [Saves -> SaveRecords]
    BY <1>2, <1>4, <2>2, <2>3, OneSaveSteps
       DEF SaveStep, SaveAnswered, SaveRefused, SaveWritten, SaveFails, SaveEnds
  <2>5. At(s, "answered") => save[s].through \in Versions
    BY DEF SavesInOrder, At
  <2>6. stored' \in Versions \union {None}
    BY <1>4, <2>5 DEF SaveStep, SaveAnswered, SaveRefused, SaveWritten, SaveFails, SaveEnds, SaverTypeOK
  <2>7. errors' \in 0..MaxErrors
    BY <1>1, <1>4 DEF SaveStep, SaveAnswered, SaveRefused, SaveWritten, SaveFails, SaveEnds, SaverTypeOK, Error
  <2>8. timer' \in BOOLEAN /\ UNCHANGED <<sequence, phase, retirement>>
    BY <1>4 DEF SaveStep, SaveAnswered, SaveRefused, SaveWritten, SaveFails, SaveEnds, SaverTypeOK, Open
  <2>. QED  BY <2>4, <2>6, <2>7, <2>8 DEF SaverTypeOK, SaveRecords, retirement
<1>5. ASSUME Change \/ Close  PROVE SaverTypeOK'
  <2>1. sequence' \in Versions
    BY <1>1, <1>5 DEF Change, Close, Versions
  <2>2. timer' \in BOOLEAN /\ phase' \in {"open", "closed"}
    BY <1>5 DEF Change, Close, SaverTypeOK, Open
  <2>3. UNCHANGED <<save, stored, archived, final, overtaken, errors>>
    BY <1>5 DEF Change, Close, retirement
  <2>. QED  BY <2>1, <2>2, <2>3 DEF SaverTypeOK
<1>6. ASSUME FinalAnswered \/ FinalWritten \/ FinalFails \/ Archive \/ Remove  PROVE SaverTypeOK'
  <2>1. UNCHANGED <<sequence, save>>
    BY <1>6 DEF FinalAnswered, FinalWritten, FinalFails, Archive, Remove
  <2>2. {stored', archived', final'} \subseteq Versions \union {None}
    BY <1>1, <1>6 DEF FinalAnswered, FinalWritten, FinalFails, Archive, Remove, SaverTypeOK, retirement
  <2>3. timer' \in BOOLEAN /\ phase' \in {"open", "closed", "final", "stored", "archived", "removed"}
    BY <1>6 DEF FinalAnswered, FinalWritten, FinalFails, Archive, Remove, SaverTypeOK
  <2>4. overtaken' \subseteq Saves
    BY <1>6 DEF FinalAnswered, FinalWritten, FinalFails, Archive, Remove, SaverTypeOK, retirement
  <2>5. errors' \in 0..MaxErrors
    BY <1>1, <1>6 DEF FinalAnswered, FinalWritten, FinalFails, Archive, Remove, SaverTypeOK, Error
  <2>. QED  BY <2>1, <2>2, <2>3, <2>4, <2>5 DEF SaverTypeOK
<1>. QED  BY <1>3, <1>4, <1>5, <1>6 DEF SaverNext

\* The order of a save's states, and what a retirement relies on.
LEMMA SaverKeeps ==
  ASSUME SaverBounds, SaverInv, SaverNext
  PROVE  SavesInOrder' /\ Scheduled' /\ Retires' /\ ArchiveIsFinal' /\ RemovedStaysRemoved'
<1>. USE DEF SaverInv
<1>1. /\ Versions \subseteq Nat /\ None \notin Versions /\ sequence \in Versions /\ sequence \in Nat
      /\ errors \in Nat /\ save \in [Saves -> SaveRecords] /\ stored \in Int /\ archived \in Int
  BY DEF SaverBounds, Versions, SaverTypeOK, SaveRecords, None
<1>2. ASSUME Change  PROVE SavesInOrder' /\ Scheduled' /\ Retires' /\ ArchiveIsFinal' /\ RemovedStaysRemoved'
  <2>1. /\ phase \in {"open", "closed"} /\ sequence' = sequence + 1 /\ timer' = TRUE
        /\ UNCHANGED <<phase, save, stored, archived, final, overtaken, errors>>
    BY <1>2 DEF Change, retirement
  <2>2. SavesInOrder'
    <3>1. sequence \in Nat /\ \A n \in 0..sequence : n \in 0..(sequence + 1)
      BY <1>1
    <3>2. \A n \in Versions : n <= sequence => n <= sequence + 1
      BY <1>1
    <3>. QED  BY <2>1, <3>1, <3>2 DEF SavesInOrder
  <2>3. Scheduled'
    BY <2>1 DEF Scheduled
  <2>4. stored <= sequence /\ archived = None
    BY <2>1 DEF Retires
  <2>5. Retires'
    BY <1>1, <2>1, <2>4 DEF Retires
  <2>. QED  BY <2>1, <2>2, <2>3, <2>4, <2>5 DEF ArchiveIsFinal, RemovedStaysRemoved
<1>3. ASSUME Close  PROVE SavesInOrder' /\ Scheduled' /\ Retires' /\ ArchiveIsFinal' /\ RemovedStaysRemoved'
  BY <1>3 DEF Close, retirement, Open, SavesInOrder, Scheduled, Retires, ArchiveIsFinal, RemovedStaysRemoved, At
<1>4. ASSUME NEW s \in Saves, SaveBegin(s)
      PROVE  SavesInOrder' /\ Scheduled' /\ Retires' /\ ArchiveIsFinal' /\ RemovedStaysRemoved'
  <2>. DEFINE r == [at |-> sequence, through |-> None, stage |-> "asked"]
  <2>1. r \in SaveRecords
    BY <1>1 DEF SaveRecords, SaveStages
  <2>2. save'[s] = r /\ \A q \in Saves \ {s} : save'[q] = save[q]
    BY <1>4, <2>1, OneSaveSteps DEF SaveBegin
  <2>3. phase = "open" /\ UNCHANGED <<sequence, phase, stored, archived, final, overtaken, errors>>
    BY <1>4 DEF SaveBegin, Open, retirement
  <2>4. SavesInOrder'
    BY <1>1, <2>2, <2>3 DEF SavesInOrder
  <2>5. Scheduled'
    BY <2>2 DEF Scheduled, At
  <2>. QED  BY <2>3, <2>4, <2>5 DEF Retires, ArchiveIsFinal, RemovedStaysRemoved
<1>5. ASSUME NEW s \in Saves, SaveAnswered(s)
      PROVE  SavesInOrder' /\ Scheduled' /\ Retires' /\ ArchiveIsFinal' /\ RemovedStaysRemoved'
  <2>1. save[s] \in SaveRecords
    BY <1>1
  <2>. DEFINE r == [save[s] EXCEPT !.through = sequence, !.stage = "answered"]
  <2>2. r \in SaveRecords /\ r.at = save[s].at /\ r.through = sequence /\ r.stage = "answered"
    BY <1>1, <2>1 DEF SaveRecords, SaveStages
  <2>. HIDE DEF r
  <2>3. save'[s] = r /\ \A q \in Saves \ {s} : save'[q] = save[q]
    BY <1>5, <2>2, OneSaveSteps DEF SaveAnswered, r
  <2>4. At(s, "asked") /\ UNCHANGED <<sequence, timer, phase, stored, archived, final, overtaken, errors>>
    BY <1>5 DEF SaveAnswered, retirement
  <2>5. SavesInOrder'
    BY <1>1, <2>2, <2>3, <2>4 DEF SavesInOrder, At
  <2>6. Scheduled'
    BY <2>2, <2>3, <2>4 DEF Scheduled, At
  <2>7. Retires'
    BY <2>2, <2>3, <2>4 DEF Retires, At
  <2>. QED  BY <2>4, <2>5, <2>6, <2>7 DEF ArchiveIsFinal, RemovedStaysRemoved
<1>6. ASSUME NEW s \in Saves, SaveRefused(s) \/ SaveFails(s)
      PROVE  SavesInOrder' /\ Scheduled' /\ Retires' /\ ArchiveIsFinal' /\ RemovedStaysRemoved'
  <2>1. Idle \in SaveRecords /\ Idle.stage = "idle"
    BY DEF Idle, SaveRecords, SaveStages
  <2>2. save'[s] = Idle /\ \A q \in Saves \ {s} : save'[q] = save[q]
    BY <1>6, <2>1, OneSaveSteps DEF SaveRefused, SaveFails
  <2>3. UNCHANGED <<sequence, timer, phase, stored, archived, final, overtaken>>
    BY <1>6 DEF SaveRefused, SaveFails, retirement
  <2>4. phase = "removed" \/ errors' # 0
    BY <1>1, <1>6 DEF SaveRefused, SaveFails, Error
  <2>5. SavesInOrder'
    BY <2>1, <2>2, <2>3 DEF SavesInOrder
  <2>6. Scheduled'
    BY <2>3, <2>4 DEF Scheduled, Open
  <2>7. Retires'
    BY <2>1, <2>2, <2>3 DEF Retires, At
  <2>. QED  BY <2>3, <2>5, <2>6, <2>7 DEF ArchiveIsFinal, RemovedStaysRemoved
<1>7. ASSUME NEW s \in Saves, SaveWritten(s)
      PROVE  SavesInOrder' /\ Scheduled' /\ Retires' /\ ArchiveIsFinal' /\ RemovedStaysRemoved'
  <2>1. save[s] \in SaveRecords
    BY <1>1
  <2>. DEFINE r == [save[s] EXCEPT !.stage = "written"]
  <2>2. r \in SaveRecords /\ r.at = save[s].at /\ r.through = save[s].through /\ r.stage = "written"
    BY <2>1 DEF SaveRecords, SaveStages
  <2>. HIDE DEF r
  <2>3. save'[s] = r /\ \A q \in Saves \ {s} : save'[q] = save[q]
    BY <1>7, <2>2, OneSaveSteps DEF SaveWritten, r
  <2>4. /\ save[s].stage = "answered" /\ stored' = save[s].through
        /\ UNCHANGED <<sequence, timer, phase, archived, final, overtaken, errors>>
    BY <1>7 DEF SaveWritten, retirement, At
  <2>5. /\ save[s].at \in 0..sequence /\ save[s].through \in Nat
        /\ save[s].at <= save[s].through /\ save[s].through <= sequence
    BY <1>1, <2>4 DEF SavesInOrder
  <2>6. SavesInOrder'
    BY <1>1, <2>2, <2>3, <2>4 DEF SavesInOrder
  <2>7. Scheduled'
    <3>1. save[s].through # sequence => save'[s].at # sequence /\ save'[s].stage = "written"
      BY <1>1, <2>2, <2>3, <2>5
    <3>. QED  BY <2>4, <3>1 DEF Scheduled, At
  <2>8. s \in overtaken \/ phase \in {"open", "closed"}
    BY <2>4 DEF Retires, At
  <2>9. Retires'
    BY <1>1, <2>2, <2>3, <2>4, <2>5, <2>8 DEF Retires, At
  <2>. QED  BY <2>4, <2>6, <2>7, <2>8, <2>9 DEF ArchiveIsFinal, RemovedStaysRemoved
<1>8. ASSUME NEW s \in Saves, SaveEnds(s)
      PROVE  SavesInOrder' /\ Scheduled' /\ Retires' /\ ArchiveIsFinal' /\ RemovedStaysRemoved'
  <2>1. Idle \in SaveRecords /\ Idle.stage = "idle"
    BY DEF Idle, SaveRecords, SaveStages
  <2>2. save'[s] = Idle /\ \A q \in Saves \ {s} : save'[q] = save[q]
    BY <1>8, <2>1, OneSaveSteps DEF SaveEnds
  <2>3. /\ save[s].stage = "written" /\ timer' = (timer \/ (Open /\ sequence # save[s].at))
        /\ UNCHANGED <<sequence, phase, stored, archived, final, overtaken, errors>>
    BY <1>8 DEF SaveEnds, At, retirement
  <2>4. SavesInOrder'
    BY <2>1, <2>2, <2>3 DEF SavesInOrder
  <2>5. Scheduled'
    BY <2>1, <2>2, <2>3 DEF Scheduled, Open, At
  <2>6. Retires'
    BY <2>1, <2>2, <2>3 DEF Retires, At
  <2>. QED  BY <2>3, <2>4, <2>5, <2>6 DEF ArchiveIsFinal, RemovedStaysRemoved
<1>9. ASSUME FinalAnswered \/ FinalWritten \/ FinalFails \/ Archive \/ Remove
      PROVE  SavesInOrder' /\ Scheduled' /\ Retires' /\ ArchiveIsFinal' /\ RemovedStaysRemoved'
  <2>1. phase' # "open" /\ UNCHANGED <<sequence, save>>
    BY <1>9 DEF FinalAnswered, FinalWritten, FinalFails, Archive, Remove
  <2>2. SavesInOrder'
    BY <2>1 DEF SavesInOrder
  <2>3. Scheduled'
    BY <2>1 DEF Scheduled, Open
  <2>4. Retires'
    BY <1>1, <1>9 DEF FinalAnswered, FinalWritten, FinalFails, Archive, Remove, Retires, At, retirement, None
  <2>5. ArchiveIsFinal'
    BY <1>1, <1>9 DEF FinalAnswered, FinalWritten, FinalFails, Archive, Remove, Retires, ArchiveIsFinal, retirement
  <2>6. RemovedStaysRemoved'
    BY <1>9 DEF FinalAnswered, FinalWritten, FinalFails, Archive, Remove, RemovedStaysRemoved
  <2>. QED  BY <2>2, <2>3, <2>4, <2>5, <2>6
<1>. QED  BY <1>2, <1>3, <1>4, <1>5, <1>6, <1>7, <1>8, <1>9 DEF SaverNext, SaveStep

\* Saves of any number may overlap and overtake one another: no change is forgotten
\* while the session is open, and what the retirement archives and removes is right
\* unless a periodic save was under way when the final one was read.
THEOREM SnapshotsHold == ASSUME SaverBounds PROVE SaverSpec => []SnapshotsSettle
<1>1. SaverInit => SaverInv
  BY SaverStart
<1>2. SaverInv /\ [SaverNext]_saverVars => SaverInv'
  <2>1. ASSUME SaverInv, UNCHANGED saverVars  PROVE SaverInv'
    BY <2>1 DEF saverVars, SaverInv, SaverTypeOK, SavesInOrder, Scheduled, Retires, ArchiveIsFinal,
         RemovedStaysRemoved, At, Open
  <2>. QED  BY <2>1, SaverTyped, SaverKeeps DEF SaverInv
<1>3. SaverInv => SnapshotsSettle
  BY DEF SaverInv, SnapshotsSettle, Scheduled, ChangeIsScheduled, At
<1>. QED  BY <1>1, <1>2, <1>3, PTL DEF SaverSpec

-----------------------------------------------------------------------------
(* The worker client                                                       *)

\* What the worker sends back.
Answer == [id : Callers, kind : {"result", "error", "fatal"}]

\* The type of every variable of the worker client.
WireTypes ==
    /\ chunks \in [Terminals -> 0..MaxWrites] /\ created \subseteq Terminals
    /\ call \in [Callers -> Stages] /\ ask \in [Requests -> Asks]
    /\ waiters \subseteq Requests /\ mailbox \in [Requests -> Seq({"result", "error"})]
    /\ queue \in Seq(Frames) /\ writing \in Frames \union {NoWrite} /\ pipe \in Seq(Frames)
    /\ replies \in Seq(Answer) /\ signalled \in [Callers -> {"no", "ok", "error"}]
    /\ client \in {"up", "closing", "down"} /\ process \in {"running", "dead"}
    /\ emulator \in [Terminals -> {Unknown} \union 0..MaxWrites]

\* Where the frame of a caller is.
InQueue(c)   == \E i \in DOMAIN queue : queue[i].id = c
InWriting(c) == writing # NoWrite /\ writing.id = c
InPipe(c)    == \E i \in DOMAIN pipe : pipe[i].id = c
Sent(c)      == call[c] \notin {"idle", "budget", "enqueue"}

\* A frame is of the caller it names.
FrameFits(f) ==
    IF f.op = "write" THEN f.id \in Terminals /\ f.term = f.id
    ELSE /\ f.id \in Requests /\ Sent(f.id)
         /\ ask[f.id] = [op |-> f.op, term |-> f.term]
\* Every frame under way is the one its caller sent.
FramesFit ==
    /\ \A i \in DOMAIN queue : FrameFits(queue[i])
    /\ \A i \in DOMAIN pipe : FrameFits(pipe[i])
    /\ writing # NoWrite => FrameFits(writing)

\* A caller has one frame under way at most, and while the client is up the one that is
\* queued or being written has a caller who waits for it.
FramesApart ==
    /\ \A c \in Callers : InQueue(c) \/ InWriting(c) =>
          /\ call[c] \notin {"budget", "enqueue"}
          /\ Up => call[c] = "queued" /\ signalled[c] = "no"
    /\ \A c \in Callers : ~(InQueue(c) /\ InWriting(c))
    /\ \A i, j \in DOMAIN queue : queue[i].id = queue[j].id => i = j
    /\ \A r \in Requests : InPipe(r) => ~InQueue(r) /\ ~InWriting(r)
    /\ \A i, j \in DOMAIN pipe : pipe[i].id = pipe[j].id /\ pipe[i].id \in Requests => i = j

\* A request has been answered with a result that nobody has taken yet, only after its
\* frame has left the pipe.
HasResult(r) ==
    \/ \E i \in DOMAIN replies : replies[i] = [id |-> r, kind |-> "result"]
    \/ \E i \in DOMAIN mailbox[r] : mailbox[r][i] = "result"
Handled(r) == Sent(r) /\ ~InQueue(r) /\ ~InWriting(r) /\ ~InPipe(r)
ResultsAreLast == \A r \in Requests : HasResult(r) => Handled(r)

\* A terminal is created by one request, and before the answer to it nothing is sent for
\* the terminal.
Creates(r, t) == ask[r] = [op |-> "create", term |-> t] /\ call[r] # "idle"
CreatedOnce ==
    /\ \A r, q \in Requests, t \in Terminals : Creates(r, t) /\ Creates(q, t) => r = q
    /\ \A t \in created : \E r \in Requests : Creates(r, t) /\ Handled(r)
    /\ \A t \in Terminals \ created :
          /\ chunks[t] = 0 /\ call[t] = "idle" /\ emulator[t] \in {Unknown, 0}
          /\ ~InQueue(t) /\ ~InWriting(t) /\ ~InPipe(t)

\* The worker has applied chunk n of a session, will meet it in the pipe, or has no such
\* session; and it has met none as late.
PassedOn(t, n) ==
    \/ emulator[t] \in {Unknown, n}
    \/ \E j \in DOMAIN pipe : pipe[j].id = t /\ pipe[j].seq = n
Below(t, n) == emulator[t] < n /\ \A j \in DOMAIN pipe : pipe[j].id = t => pipe[j].seq < n
NextIs(t, n) == PassedOn(t, n - 1) /\ Below(t, n)

\* In the pipe each chunk follows the one before it.
PipeInOrder ==
    /\ \A i \in DOMAIN pipe : pipe[i].id \in Terminals =>
         /\ emulator[pipe[i].id] < pipe[i].seq
         /\ \/ emulator[pipe[i].id] \in {Unknown, pipe[i].seq - 1}
            \/ \E j \in 1..(i - 1) : pipe[j].id = pipe[i].id /\ pipe[j].seq = pipe[i].seq - 1
    /\ \A i, j \in DOMAIN pipe : i < j /\ pipe[i].id = pipe[j].id /\ pipe[i].id \in Terminals
                                   => pipe[i].seq < pipe[j].seq
\* The chunk that a terminal sends next, or is sending.
Waiting(t) == call[t] \in {"budget", "enqueue"} \/ (call[t] = "queued" /\ signalled[t] = "no")
NextChunk(t) == IF Waiting(t) THEN chunks[t] ELSE chunks[t] + 1
\* Each frame that is yet to be written continues what the worker has of its session.
ChunksInOrder ==
    /\ PipeInOrder
    /\ writing # NoWrite /\ writing.id \in Terminals => NextIs(writing.id, writing.seq)
    /\ Up => /\ \A t \in created : NextIs(t, NextChunk(t))
             /\ \A i \in DOMAIN queue : queue[i].id \in Terminals => queue[i].seq = chunks[queue[i].id]
             /\ writing # NoWrite /\ writing.id \in Terminals => writing.seq = chunks[writing.id]
\* The inductive invariant: without a gap anywhere there is none where the worker looks.
WireInv ==
    /\ WireTypes /\ FramesFit /\ FramesApart /\ ResultsAreLast /\ CreatedOnce /\ ChunksInOrder
    /\ NoSequenceGap

-----------------------------------------------------------------------------

\* The frame of a caller names it, and carries its chunk or its question.
LEMMA FramesOf ==
  ASSUME WorkerBounds, WireTypes, NEW c \in Callers
  PROVE  /\ Frame(c) \in Frames /\ Frame(c).id = c
         /\ c \in Terminals => Frame(c).op = "write" /\ Frame(c).term = c /\ Frame(c).seq = chunks[c]
         /\ c \notin Terminals => /\ c \in Requests /\ Frame(c).op # "write"
                                  /\ ask[c] = [op |-> Frame(c).op, term |-> Frame(c).term]
<1>1. CASE c \in Terminals
  BY <1>1 DEF WorkerBounds, WireTypes, Frame, Frames, Callers
<1>2. CASE c \notin Terminals
  <2>1. c \in Requests /\ ask[c] \in Asks
    BY <1>2 DEF Callers, WireTypes
  <2>2. Frame(c) = [op |-> ask[c].op, id |-> c, term |-> ask[c].term, seq |-> 0] /\ 0 \in 0..MaxWrites
    BY <1>2 DEF Frame, WorkerBounds
  <2>. QED
    BY <1>2, <2>1, <2>2 DEF Asks, Frames
<1>. QED
  BY <1>1, <1>2

\* A frame at the end of a sequence, and one taken from its front.
LEMMA Longer ==
  ASSUME NEW S, NEW s \in Seq(S), NEW x \in S
  PROVE  /\ Append(s, x) \in Seq(S) /\ Len(Append(s, x)) = Len(s) + 1 /\ Len(s) \in Nat
         /\ DOMAIN s = 1..Len(s) /\ DOMAIN Append(s, x) = 1..(Len(s) + 1)
         /\ Append(s, x)[Len(s) + 1] = x /\ \A i \in 1..Len(s) : Append(s, x)[i] = s[i]
  OBVIOUS
LEMMA Shorter ==
  ASSUME NEW S, NEW s \in Seq(S), s # <<>>
  PROVE  /\ Tail(s) \in Seq(S) /\ Head(s) \in S /\ Head(s) = s[1] /\ 1 \in DOMAIN s
         /\ Len(s) \in Nat \ {0} /\ Len(Tail(s)) = Len(s) - 1
         /\ DOMAIN s = 1..Len(s) /\ DOMAIN Tail(s) = 1..(Len(s) - 1)
         /\ \A i \in 1..(Len(s) - 1) : Tail(s)[i] = s[i + 1] /\ i + 1 \in DOMAIN s
  OBVIOUS

-----------------------------------------------------------------------------
\* Every step keeps the types.
LEMMA WireTyped ==
  ASSUME WorkerBounds, WireTypes, [WorkerNext]_workerVars
  PROVE  WireTypes'
<1>. USE DEF WireTypes, callers, answers, writer, remote, CallAt, CallGoes, Up, FailClose, GivesUp
<1>0. /\ Terminals \subseteq Callers /\ Requests \subseteq Callers /\ MaxWrites \in Nat
      /\ \A c \in Callers : c \notin Terminals => c \in Requests
      /\ Terminals \cap Requests = {} /\ NoWrite \notin Frames
      /\ {"idle", "budget", "enqueue", "queued", "await", "returned"} = Stages
  BY DEF WorkerBounds, Callers, Stages
<1>1. CASE UNCHANGED workerVars
  BY <1>1 DEF workerVars
<1>2. ASSUME NEW t \in Terminals, WriteStart(t) PROVE WireTypes'
  BY <1>0, <1>2 DEF WriteStart
<1>3. ASSUME NEW r \in Requests, AskStart(r) PROVE WireTypes'
  <2>1. call' \in [Callers -> Stages] /\ waiters' \subseteq Requests
    <3>1. /\ call' = [call EXCEPT ![r] = "budget"] \/ call' = [call EXCEPT ![r] = "returned"]
          /\ waiters' \subseteq Requests
      BY <1>3 DEF AskStart
    <3>. QED
      BY <1>0, <3>1
  <2>2. ask' \in [Requests -> Asks]
    BY <1>3 DEF AskStart
  <2>. QED
    BY <1>3, <2>1, <2>2 DEF AskStart
<1>4. ASSUME NEW c \in Callers, Budget(c) PROVE WireTypes'
  BY <1>0, <1>4 DEF Budget
<1>5. ASSUME NEW c \in Callers, Enqueue(c) PROVE WireTypes'
  <2>1. Frame(c) \in Frames
    BY FramesOf
  <2>2. queue' \in Seq(Frames)
    BY <1>5, <2>1, Longer DEF Enqueue
  <2>. QED
    BY <1>0, <1>5, <2>2 DEF Enqueue
<1>6. ASSUME NEW c \in Callers, StallsInSend(c) \/ SendSeesDone(c) \/ SendReturns(c) PROVE WireTypes'
  <2>1. call' \in [Callers -> Stages]
    BY <1>0, <1>6 DEF StallsInSend, SendSeesDone, SendReturns
  <2>2. waiters' \subseteq Requests /\ client' \in {"up", "closing", "down"}
    BY <1>6 DEF StallsInSend, SendSeesDone, SendReturns
  <2>3. signalled' \in [Callers -> {"no", "ok", "error"}]
    BY <1>6 DEF StallsInSend, SendSeesDone, SendReturns
  <2>. QED
    BY <1>6, <2>1, <2>2, <2>3 DEF StallsInSend, SendSeesDone, SendReturns
<1>7. CASE TakeRequest
  <2>1. queue' \in Seq(Frames) /\ writing' \in Frames
    BY <1>7, Shorter DEF TakeRequest
  <2>. QED
    BY <1>0, <1>7, <2>1 DEF TakeRequest
<1>8. CASE FrameWritten \/ WriteFails
  <2>1. writing \in Frames /\ writing' = NoWrite
    BY <1>8 DEF FrameWritten, WriteFails, WriteReturns
  <2>2. writing.id \in Callers
    BY <2>1 DEF Frames
  <2>3. pipe' \in Seq(Frames)
    <3>1. Append(pipe, writing) \in Seq(Frames)
      BY <2>1, Longer
    <3>. QED
      BY <1>8, <3>1 DEF FrameWritten, WriteFails
  <2>. QED
    BY <1>0, <1>8, <2>1, <2>2, <2>3 DEF FrameWritten, WriteFails, WriteReturns
<1>9. CASE FailAnswers
  <2>1. \A r \in Requests : mailbox'[r] \in Seq({"result", "error"})
    BY <1>9, Longer DEF FailAnswers
  <2>2. mailbox' \in [Requests -> Seq({"result", "error"})]
    BY <1>9, <2>1 DEF FailAnswers
  <2>. QED
    BY <1>0, <1>9, <2>2 DEF FailAnswers
<1>10. CASE Handle
  <2>1. PICK f : f = Head(pipe)
    OBVIOUS
  <2>2. pipe' \in Seq(Frames) /\ f \in Frames
    BY <1>10, <2>1, Shorter DEF Handle
  <2>3. f.id \in Callers /\ f.term \in Terminals /\ f.seq \in 0..MaxWrites
    BY <2>2 DEF Frames
  <2>4. \A kind \in {"result", "error", "fatal"} : Reply(f, kind) => replies' \in Seq(Answer)
    BY <2>3, Longer DEF Reply, Answer
  <2>5. HandleWrite(f) \/ HandleCreate(f) \/ HandleOther(f)
    BY <1>10, <2>1 DEF Handle
  <2>6. replies' \in Seq(Answer)
    BY <2>4, <2>5 DEF HandleWrite, HandleCreate, HandleOther
  <2>7. emulator' \in [Terminals -> {Unknown} \union 0..MaxWrites]
    <3>1. \/ emulator' = emulator
          \/ emulator' = [emulator EXCEPT ![f.term] = f.seq]
          \/ emulator' = [emulator EXCEPT ![f.term] = 0]
          \/ emulator' = [emulator EXCEPT ![f.term] = Unknown]
      <4>1. HandleWrite(f) => emulator' = emulator \/ emulator' = [emulator EXCEPT ![f.term] = f.seq]
        BY DEF HandleWrite
      <4>2. HandleCreate(f) => emulator' = emulator \/ emulator' = [emulator EXCEPT ![f.term] = 0]
        BY DEF HandleCreate
      <4>3. HandleOther(f) =>
               emulator' = emulator \/ emulator' = [emulator EXCEPT ![f.term] = Unknown]
        BY DEF HandleOther
      <4>. QED
        BY <2>5, <4>1, <4>2, <4>3
    <3>2. 0 \in 0..MaxWrites
      BY <1>0
    <3>. QED
      BY <2>3, <3>1, <3>2
  <2>. QED
    BY <1>0, <1>10, <2>2, <2>6, <2>7 DEF Handle
<1>11. CASE Dies \/ SeesDeath
  BY <1>0, <1>11 DEF Dies, SeesDeath
<1>12. CASE ReadReply
  <2>1. PICK a : a = Head(replies)
    OBVIOUS
  <2>2. a \in Answer /\ replies' \in Seq(Answer)
    BY <1>12, <2>1, Shorter DEF ReadReply
  <2>3. a.kind # "fatal" => a.kind \in {"result", "error"}
    BY <2>2 DEF Answer
  <2>4. mailbox' \in [Requests -> Seq({"result", "error"})]
    <3>1. CASE mailbox' = mailbox
      BY <3>1
    <3>2. CASE mailbox' # mailbox
      <4>1. mailbox' = [mailbox EXCEPT ![a.id] = Append(@, a.kind)] /\ a.id \in Requests /\ a.kind # "fatal"
        BY <1>12, <2>1, <3>2 DEF ReadReply
      <4>2. Append(mailbox[a.id], a.kind) \in Seq({"result", "error"})
        BY <2>3, <4>1, Longer
      <4>. QED
        BY <4>1, <4>2
    <3>. QED
      BY <3>1, <3>2
  <2>. QED
    BY <1>0, <1>12, <2>1, <2>2, <2>4 DEF ReadReply
<1>13. ASSUME NEW r \in Requests, AskAnswered(r) PROVE WireTypes'
  <2>1. Tail(mailbox[r]) \in Seq({"result", "error"})
    BY <1>13, Shorter DEF AskAnswered
  <2>2. ask[r].term \in Terminals
    BY DEF Asks
  <2>. QED
    BY <1>0, <1>13, <2>1, <2>2 DEF AskAnswered
<1>14. ASSUME NEW r \in Requests, AskGivesUp(r) PROVE WireTypes'
  BY <1>0, <1>14 DEF AskGivesUp
<1>. QED
  BY <1>1, <1>2, <1>3, <1>4, <1>5, <1>6, <1>7, <1>8, <1>9, <1>10, <1>11, <1>12, <1>13, <1>14
     DEF WorkerNext, CallerStep, ClientLoops

-----------------------------------------------------------------------------
(* Steps that move no frame                                                *)

\* A step that moves no frame, and after which each frame still has its caller.
Calm ==
    /\ queue' = queue /\ writing' = writing /\ pipe' = pipe /\ emulator' = emulator
    /\ Up' => Up
    /\ \A r \in Requests : Sent(r) => Sent(r)' /\ ask'[r] = ask[r]
    /\ \A c \in Callers : InQueue(c) \/ InWriting(c) =>
          /\ call'[c] \notin {"budget", "enqueue"}
          /\ Up' => call'[c] = "queued" /\ signalled'[c] = "no"
    /\ Up' => \A t \in Terminals :
          /\ NextChunk(t)' = NextChunk(t)
          /\ InQueue(t) \/ InWriting(t) => chunks'[t] = chunks[t]

\* A calm step keeps what is known of the frames.
LEMMA CalmFrames ==
  ASSUME WorkerBounds, WireTypes, Calm
  PROVE  /\ FramesFit => FramesFit'
         /\ FramesApart => FramesApart'
         /\ \A c \in Callers : /\ InQueue(c)' = InQueue(c)
                               /\ InWriting(c)' = InWriting(c) /\ InPipe(c)' = InPipe(c)
         /\ \A r \in Requests : Handled(r) => Handled(r)'
         /\ PipeInOrder => PipeInOrder'
         /\ \A t \in Terminals, n \in Int : NextIs(t, n)' = NextIs(t, n)
<1>1. \A c : InQueue(c)' = InQueue(c) /\ InWriting(c)' = InWriting(c) /\ InPipe(c)' = InPipe(c)
  BY DEF Calm, InQueue, InWriting, InPipe
<1>2. ASSUME NEW f, FrameFits(f) PROVE FrameFits(f)'
  BY <1>2 DEF FrameFits, Calm
<1>3. FramesFit => FramesFit'
  BY <1>2 DEF FramesFit, Calm
<1>4. FramesApart => FramesApart'
  BY <1>1 DEF FramesApart, Calm
<1>5. \A r \in Requests : Handled(r) => Handled(r)'
  BY <1>1 DEF Handled, Calm
<1>6. PipeInOrder => PipeInOrder'
  BY DEF PipeInOrder, Calm
<1>7. \A t \in Terminals, n \in Int : NextIs(t, n)' = NextIs(t, n)
  BY DEF NextIs, PassedOn, Below, Calm
<1>. QED
  BY <1>1, <1>3, <1>4, <1>5, <1>6, <1>7

\* A calm step keeps the order of the chunks.
LEMMA CalmOrder ==
  ASSUME WorkerBounds, WireTypes, FramesFit, ChunksInOrder, Calm, created' = created
  PROVE  ChunksInOrder'
<1>1. /\ PipeInOrder'
      /\ \A t \in Terminals, n \in Int : NextIs(t, n)' = NextIs(t, n)
  BY CalmFrames DEF ChunksInOrder
<1>2. \A t \in Terminals : NextChunk(t) \in Int
  BY DEF WireTypes, NextChunk, Waiting
<1>3. writing # NoWrite /\ writing.id \in Terminals => NextIs(writing.id, writing.seq)'
  <2>. HAVE writing # NoWrite /\ writing.id \in Terminals
  <2>1. writing \in Frames /\ writing.seq \in Int
    BY DEF WireTypes, Frames
  <2>. QED
    BY <2>1 DEF ChunksInOrder, Calm, NextIs, PassedOn, Below
<1>4. Up' => \A t \in created : NextIs(t, NextChunk(t))'
  <2>. HAVE Up'
  <2>. TAKE t \in created
  <2>1. t \in Terminals /\ NextChunk(t)' = NextChunk(t) /\ NextIs(t, NextChunk(t))
    BY DEF Calm, WireTypes, ChunksInOrder
  <2>. QED
    BY <1>1, <1>2, <2>1 DEF NextIs, PassedOn, Below
<1>5. Up' => /\ \A i \in DOMAIN queue : queue[i].id \in Terminals => queue[i].seq = chunks'[queue[i].id]
             /\ writing # NoWrite /\ writing.id \in Terminals => writing.seq = chunks'[writing.id]
  BY DEF Calm, ChunksInOrder, InQueue, InWriting, Callers
<1>. QED
  BY <1>1, <1>3, <1>4, <1>5 DEF ChunksInOrder, Calm

\* The callers move no frame before they queue one.
LEMMA CallersAlone ==
  ASSUME WorkerBounds, WireTypes, FramesApart, NEW c \in Callers,
         \/ c \in Terminals /\ WriteStart(c)
         \/ c \in Requests /\ (AskStart(c) \/ AskAnswered(c) \/ AskGivesUp(c))
         \/ Budget(c) \/ StallsInSend(c) \/ SendSeesDone(c) \/ SendReturns(c)
  PROVE  Calm
<1>. USE DEF callers, answers, writer, remote, CallAt, CallGoes, Up, FailClose, GivesUp
<1>0. /\ \A b \in Callers : call[b] \in Stages /\ signalled[b] \in {"no", "ok", "error"}
      /\ DOMAIN call = Callers /\ DOMAIN signalled = Callers
      /\ DOMAIN chunks = Terminals /\ DOMAIN ask = Requests
      /\ \A t \in Terminals : chunks[t] \in Int
      /\ Terminals \subseteq Callers /\ Requests \subseteq Callers
      /\ Terminals \cap Requests = {}
  BY DEF WireTypes, Callers, WorkerBounds
<1>1. queue' = queue /\ writing' = writing /\ pipe' = pipe /\ emulator' = emulator /\ (Up' => Up)
  BY DEF WriteStart, AskStart, AskAnswered, AskGivesUp, Budget, StallsInSend, SendSeesDone, SendReturns
<1>2. \A b \in Callers \ {c} : call'[b] = call[b] /\ signalled'[b] = signalled[b]
  BY <1>0 DEF WriteStart, AskStart, AskAnswered, AskGivesUp, Budget, StallsInSend, SendSeesDone, SendReturns
<1>3. \A r \in Requests : Sent(r) => Sent(r)' /\ ask'[r] = ask[r]
  <2>. SUFFICES ASSUME NEW r \in Requests, Sent(r) PROVE Sent(r)' /\ ask'[r] = ask[r]
    OBVIOUS
  <2>1. ask'[r] = ask[r]
    BY <1>0 DEF WriteStart, AskStart, AskAnswered, AskGivesUp, Budget, StallsInSend, SendSeesDone,
       SendReturns, Sent
  <2>2. Sent(r)'
    BY <1>0, <1>2 DEF WriteStart, AskStart, AskAnswered, AskGivesUp, Budget, StallsInSend,
       SendSeesDone, SendReturns, Sent
  <2>. QED
    BY <2>1, <2>2
<1>4. \A b \in Callers : InQueue(b) \/ InWriting(b) =>
          /\ call'[b] \notin {"budget", "enqueue"}
          /\ Up' => call'[b] = "queued" /\ signalled'[b] = "no"
  <2>. SUFFICES ASSUME NEW b \in Callers, InQueue(b) \/ InWriting(b)
       PROVE  /\ call'[b] \notin {"budget", "enqueue"}
              /\ Up' => call'[b] = "queued" /\ signalled'[b] = "no"
    OBVIOUS
  <2>1. /\ call[b] \notin {"budget", "enqueue"}
        /\ Up => call[b] = "queued" /\ signalled[b] = "no"
    BY DEF FramesApart
  <2>2. CASE b # c
    BY <1>1, <1>2, <2>1, <2>2
  <2>3. CASE b = c
    BY <1>0, <1>1, <2>1, <2>3 DEF WriteStart, AskStart, AskAnswered, AskGivesUp, Budget,
       StallsInSend, SendSeesDone, SendReturns
  <2>. QED
    BY <2>2, <2>3
<1>5. Up' => \A t \in Terminals :
          /\ NextChunk(t)' = NextChunk(t)
          /\ InQueue(t) \/ InWriting(t) => chunks'[t] = chunks[t]
  <2>. SUFFICES ASSUME Up', NEW t \in Terminals
       PROVE  /\ NextChunk(t)' = NextChunk(t)
              /\ InQueue(t) \/ InWriting(t) => chunks'[t] = chunks[t]
    OBVIOUS
  <2>1. CASE t # c
    <3>1. chunks'[t] = chunks[t]
      BY <1>0, <2>1 DEF WriteStart, AskStart, AskAnswered, AskGivesUp, Budget, StallsInSend,
         SendSeesDone, SendReturns
    <3>. QED
      BY <1>0, <1>2, <2>1, <3>1 DEF NextChunk, Waiting
  <2>2. CASE t = c
    <3>1. InQueue(t) \/ InWriting(t) => call[t] = "queued"
      BY <1>0, <1>1 DEF FramesApart
    <3>2. chunks'[t] = chunks[t] \/ call[t] = "idle"
      BY <1>0, <2>2 DEF WriteStart, AskStart, AskAnswered, AskGivesUp, Budget, StallsInSend,
         SendSeesDone, SendReturns
    <3>3. NextChunk(t)' = NextChunk(t)
      BY <1>0, <1>1, <2>2 DEF WriteStart, AskStart, AskAnswered, AskGivesUp, Budget, StallsInSend,
         SendSeesDone, SendReturns, NextChunk, Waiting
    <3>. QED
      BY <3>1, <3>2, <3>3
  <2>. QED
    BY <2>1, <2>2
<1>. QED
  BY <1>1, <1>3, <1>4, <1>5 DEF Calm

\* Neither does the end of the process, of the client or of a request.
LEMMA LoopsAlone ==
  ASSUME WorkerBounds, WireTypes, FramesApart,
         SeesDeath \/ FailAnswers \/ Dies \/ ReadReply \/ UNCHANGED workerVars
  PROVE  /\ Calm
         /\ call' = call /\ ask' = ask /\ chunks' = chunks /\ created' = created
<1>. USE DEF callers, answers, writer, remote, Up, FailClose, workerVars
<1>1. /\ queue' = queue /\ writing' = writing /\ pipe' = pipe /\ emulator' = emulator
      /\ call' = call /\ ask' = ask /\ chunks' = chunks /\ created' = created /\ signalled' = signalled
      /\ (Up' => Up)
  BY DEF SeesDeath, FailAnswers, Dies, ReadReply
<1>. QED
  BY <1>1 DEF Calm, FramesApart, Sent, NextChunk, Waiting

\* Results are only taken, and errors are told to those who wait.
LEMMA ResultsMove ==
  ASSUME WorkerBounds, WireTypes,
         \/ \E t \in Terminals : WriteStart(t)
         \/ \E r \in Requests : AskStart(r) \/ AskAnswered(r) \/ AskGivesUp(r)
         \/ \E c \in Callers : Budget(c) \/ Enqueue(c) \/ StallsInSend(c) \/ SendSeesDone(c) \/ SendReturns(c)
         \/ TakeRequest \/ FrameWritten \/ WriteFails \/ FailAnswers \/ SeesDeath \/ Dies \/ ReadReply
         \/ UNCHANGED workerVars
  PROVE  /\ \A r \in Requests : HasResult(r)' => HasResult(r)
         /\ NoSequenceGap => NoSequenceGap'
<1>. USE DEF callers, answers, writer, remote, workerVars
<1>1. ASSUME replies' = replies, mailbox' = mailbox
      PROVE  /\ \A r \in Requests : HasResult(r)' => HasResult(r)
             /\ NoSequenceGap => NoSequenceGap'
  BY <1>1 DEF HasResult, NoSequenceGap
<1>2. ASSUME NEW q \in Requests, AskAnswered(q)
      PROVE  /\ \A r \in Requests : HasResult(r)' => HasResult(r)
             /\ NoSequenceGap => NoSequenceGap'
  <2>1. replies' = replies /\ mailbox' = [mailbox EXCEPT ![q] = Tail(@)] /\ mailbox[q] # <<>>
    BY <1>2 DEF AskAnswered
  <2>2. mailbox \in [Requests -> Seq({"result", "error"})]
    BY DEF WireTypes
  <2>3. \A i \in DOMAIN Tail(mailbox[q]) : /\ Tail(mailbox[q])[i] = mailbox[q][i + 1]
                                           /\ i + 1 \in DOMAIN mailbox[q]
    BY <2>1, <2>2, Shorter
  <2>4. \A r \in Requests : HasResult(r)' => HasResult(r)
    BY <2>1, <2>2, <2>3 DEF HasResult
  <2>. QED
    BY <2>1, <2>4 DEF NoSequenceGap
<1>3. ASSUME FailAnswers
      PROVE  /\ \A r \in Requests : HasResult(r)' => HasResult(r)
             /\ NoSequenceGap => NoSequenceGap'
  <2>1. replies' = replies
        /\ mailbox' = [r \in Requests |->
                          IF r \in waiters THEN Append(mailbox[r], "error") ELSE mailbox[r]]
    BY <1>3 DEF FailAnswers
  <2>2. ASSUME NEW r \in Requests, NEW i \in DOMAIN mailbox'[r], mailbox'[r][i] = "result"
        PROVE  i \in DOMAIN mailbox[r] /\ mailbox[r][i] = "result"
    <3>1. CASE r \notin waiters
      BY <2>1, <2>2, <3>1
    <3>2. CASE r \in waiters
      <4>1. PICK s : s = mailbox[r]
        OBVIOUS
      <4>2. s \in Seq({"result", "error"}) /\ mailbox'[r] = Append(s, "error")
        BY <2>1, <3>2, <4>1 DEF WireTypes
      <4>3. i \in 1..(Len(s) + 1) /\ Append(s, "error")[i] = "result" /\ Len(s) \in Nat
        BY <2>2, <4>2
      <4>. QED
        BY <4>1, <4>2, <4>3
    <3>. QED
      BY <3>1, <3>2
  <2>3. \A r \in Requests : HasResult(r)' => HasResult(r)
    BY <2>1, <2>2 DEF HasResult
  <2>. QED
    BY <2>1, <2>3 DEF NoSequenceGap
<1>4. ASSUME ReadReply
      PROVE  /\ \A r \in Requests : HasResult(r)' => HasResult(r)
             /\ NoSequenceGap => NoSequenceGap'
  <2>1. PICK a : a = Head(replies)
    OBVIOUS
  <2>2. replies # <<>> /\ replies' = Tail(replies)
        /\ \/ mailbox' = mailbox
           \/ /\ mailbox' = [mailbox EXCEPT ![a.id] = Append(@, a.kind)] /\ a.id \in waiters
              /\ a.kind # "fatal"
    BY <1>4, <2>1 DEF ReadReply
  <2>3. /\ a \in Answer /\ 1 \in DOMAIN replies /\ a = replies[1]
        /\ \A i \in DOMAIN replies' : replies'[i] = replies[i + 1] /\ i + 1 \in DOMAIN replies
    BY <2>1, <2>2, Shorter DEF WireTypes
  <2>4. ASSUME NEW r \in Requests, NEW i \in DOMAIN mailbox'[r], mailbox'[r][i] = "result"
        PROVE  HasResult(r)
    <3>1. CASE mailbox'[r] = mailbox[r]
      BY <2>4, <3>1 DEF HasResult
    <3>2. CASE mailbox'[r] # mailbox[r]
      <4>1. PICK s : s = mailbox[r]
        OBVIOUS
      <4>2. s \in Seq({"result", "error"}) /\ mailbox'[r] = Append(s, a.kind) /\ a.id = r
        BY <2>2, <3>2, <4>1 DEF WireTypes
      <4>3. i \in 1..Len(s) \/ a.kind = "result"
        BY <2>4, <4>2
      <4>4. CASE a.kind = "result"
        <5>1. a = [id |-> r, kind |-> "result"]
          BY <2>3, <4>2, <4>4 DEF Answer
        <5>. QED
          BY <2>3, <5>1 DEF HasResult
      <4>5. CASE i \in 1..Len(s)
        <5>1. i \in DOMAIN mailbox[r] /\ mailbox[r][i] = "result"
          BY <2>4, <4>1, <4>2, <4>5
        <5>. QED
          BY <5>1 DEF HasResult
      <4>. QED
        BY <4>3, <4>4, <4>5
    <3>. QED
      BY <3>1, <3>2
  <2>5. \A r \in Requests : HasResult(r)' => HasResult(r)
    BY <2>3, <2>4 DEF HasResult
  <2>. QED
    BY <2>3, <2>5 DEF NoSequenceGap
<1>5. CASE UNCHANGED workerVars
  BY <1>1, <1>5
<1>6. ASSUME NEW t \in Terminals, WriteStart(t) PROVE replies' = replies /\ mailbox' = mailbox
  BY <1>6 DEF WriteStart
<1>7. ASSUME NEW r \in Requests, AskStart(r) \/ AskGivesUp(r)
      PROVE replies' = replies /\ mailbox' = mailbox
  BY <1>7 DEF AskStart, AskGivesUp
<1>8. ASSUME NEW c \in Callers,
             Budget(c) \/ Enqueue(c) \/ StallsInSend(c) \/ SendSeesDone(c) \/ SendReturns(c)
      PROVE replies' = replies /\ mailbox' = mailbox
  BY <1>8 DEF Budget, Enqueue, StallsInSend, SendSeesDone, SendReturns
<1>9. ASSUME TakeRequest \/ FrameWritten \/ WriteFails \/ SeesDeath \/ Dies
      PROVE replies' = replies /\ mailbox' = mailbox
  BY <1>9 DEF TakeRequest, FrameWritten, WriteFails, WriteReturns, SeesDeath, Dies
<1>. QED
  BY <1>1, <1>2, <1>3, <1>4, <1>5, <1>6, <1>7, <1>8, <1>9

\* A step that moves no frame keeps what is known of the creations, unless it makes one.
LEMMA CreatedStays ==
  ASSUME WorkerBounds, WireTypes, CreatedOnce, Calm, created' = created, ask' = ask,
         \A r \in Requests : call'[r] = "idle" <=> call[r] = "idle",
         \A t \in Terminals \ created : call'[t] = "idle" /\ chunks'[t] = chunks[t]
  PROVE  CreatedOnce'
<1>1. \A r \in Requests, t \in Terminals : Creates(r, t)' = Creates(r, t)
  BY DEF Creates
<1>2. /\ \A c \in Callers : InQueue(c)' = InQueue(c) /\ InWriting(c)' = InWriting(c) /\ InPipe(c)' = InPipe(c)
      /\ \A r \in Requests : Handled(r) => Handled(r)'
  BY CalmFrames
<1>3. \A t \in created : \E r \in Requests : Creates(r, t)' /\ Handled(r)'
  BY <1>1, <1>2 DEF CreatedOnce, WireTypes
<1>4. \A t \in Terminals \ created :
          /\ chunks'[t] = 0 /\ call'[t] = "idle" /\ emulator'[t] \in {Unknown, 0}
          /\ ~InQueue(t)' /\ ~InWriting(t)' /\ ~InPipe(t)'
  BY <1>2 DEF CreatedOnce, Calm, Callers
<1>. QED
  BY <1>1, <1>3, <1>4 DEF CreatedOnce

\* The callers that send, and those that give up, create nothing.
LEMMA CreatedBySenders ==
  ASSUME WorkerBounds, WireTypes, FramesApart, CreatedOnce, NEW c \in Callers,
         \/ c \in Terminals /\ WriteStart(c)
         \/ c \in Requests /\ AskGivesUp(c)
         \/ Budget(c) \/ StallsInSend(c) \/ SendSeesDone(c) \/ SendReturns(c)
  PROVE  CreatedOnce' /\ created' = created
<1>. USE DEF callers, answers, writer, remote, CallAt, CallGoes, GivesUp
<1>0. /\ DOMAIN call = Callers /\ DOMAIN chunks = Terminals
      /\ Terminals \subseteq Callers /\ Requests \subseteq Callers
      /\ Terminals \cap Requests = {}
  BY DEF WireTypes, Callers, WorkerBounds
<1>1. Calm
  BY CallersAlone
<1>2. created' = created /\ ask' = ask
  BY DEF WriteStart, AskGivesUp, Budget, StallsInSend, SendSeesDone, SendReturns
<1>3. \A r \in Requests : call'[r] = "idle" <=> call[r] = "idle"
  BY <1>0 DEF WriteStart, AskGivesUp, Budget, StallsInSend, SendSeesDone, SendReturns
<1>4. \A t \in Terminals \ created : call[t] = "idle"
  BY DEF CreatedOnce
<1>5. \A t \in Terminals \ created : call'[t] = "idle" /\ chunks'[t] = chunks[t]
  BY <1>0, <1>4 DEF WriteStart, AskGivesUp, Budget, StallsInSend, SendSeesDone, SendReturns
<1>. QED
  BY <1>1, <1>2, <1>3, <1>5, CreatedStays

\* Only one request asks for a terminal.
LEMMA CreatedByAsk ==
  ASSUME WorkerBounds, WireTypes, FramesApart, CreatedOnce, NEW q \in Requests, AskStart(q)
  PROVE  CreatedOnce' /\ created' = created
<1>. USE DEF callers, answers, writer, remote, CallAt, CallGoes
<1>0. /\ DOMAIN call = Callers /\ DOMAIN ask = Requests
      /\ Terminals \subseteq Callers /\ Requests \subseteq Callers
      /\ Terminals \cap Requests = {} /\ q \in Callers
  BY DEF WireTypes, Callers, WorkerBounds
<1>1. Calm
  BY <1>0, CallersAlone
<1>2. PICK a \in Asks :
        /\ IF a.op = "create" THEN \A r \in Requests : call[r] = "idle" \/ ask[r] # a
           ELSE a.term \in created
        /\ ask' = [ask EXCEPT ![q] = a]
  BY DEF AskStart
<1>3. /\ call[q] = "idle" /\ call'[q] # "idle" /\ created' = created /\ chunks' = chunks
      /\ \A c \in Callers \ {q} : call'[c] = call[c]
  BY <1>0 DEF AskStart
<1>4. /\ \A c \in Callers : InQueue(c)' = InQueue(c) /\ InWriting(c)' = InWriting(c) /\ InPipe(c)' = InPipe(c)
      /\ \A r \in Requests : Handled(r) => Handled(r)'
  BY <1>1, CalmFrames
<1>5. \A r \in Requests \ {q}, t \in Terminals : Creates(r, t)' = Creates(r, t)
  BY <1>0, <1>2, <1>3 DEF Creates
<1>6. \A t \in Terminals : Creates(q, t)' => \A r \in Requests : ~Creates(r, t)
  <2>. SUFFICES ASSUME NEW t \in Terminals, Creates(q, t)', NEW r \in Requests, Creates(r, t) PROVE FALSE
    OBVIOUS
  <2>1. a = [op |-> "create", term |-> t]
    BY <1>0, <1>2 DEF Creates
  <2>2. a.op = "create"
    BY <2>1
  <2>. QED
    BY <1>2, <2>1, <2>2 DEF Creates
<1>7. \A r, p \in Requests, t \in Terminals : Creates(r, t)' /\ Creates(p, t)' => r = p
  BY <1>5, <1>6 DEF CreatedOnce
<1>8. \A t \in created : \E r \in Requests : Creates(r, t)' /\ Handled(r)'
  <2>. TAKE t \in created
  <2>1. PICK r \in Requests : Creates(r, t) /\ Handled(r)
    BY DEF CreatedOnce
  <2>2. r # q
    BY <1>3, <2>1 DEF Creates
  <2>. QED
    BY <1>4, <1>5, <2>1, <2>2 DEF WireTypes
<1>9. \A t \in Terminals \ created :
          /\ chunks'[t] = 0 /\ call'[t] = "idle" /\ emulator'[t] \in {Unknown, 0}
          /\ ~InQueue(t)' /\ ~InWriting(t)' /\ ~InPipe(t)'
  BY <1>0, <1>1, <1>3, <1>4 DEF CreatedOnce, Calm
<1>. QED
  BY <1>3, <1>7, <1>8, <1>9 DEF CreatedOnce

\* The create of a terminal has been answered: its first chunk is the first.
LEMMA CreatedByAnswer ==
  ASSUME WorkerBounds, WireTypes, FramesFit, FramesApart, CreatedOnce, ResultsAreLast, ChunksInOrder,
         NEW q \in Requests, AskAnswered(q)
  PROVE  CreatedOnce' /\ ChunksInOrder'
<1>. USE DEF callers, answers, writer, remote, CallAt, CallGoes
<1>0. /\ DOMAIN call = Callers /\ Terminals \subseteq Callers /\ Requests \subseteq Callers
      /\ Terminals \cap Requests = {} /\ q \in Callers
  BY DEF WireTypes, Callers, WorkerBounds
<1>1. Calm
  BY <1>0, CallersAlone
<1>2. /\ call[q] = "await" /\ call'[q] = "returned" /\ ask' = ask /\ chunks' = chunks
      /\ signalled' = signalled
      /\ \A c \in Callers \ {q} : call'[c] = call[c]
      /\ mailbox[q] # <<>>
      /\ created' = IF ask[q].op = "create" /\ Head(mailbox[q]) = "result"
                    THEN created \union {ask[q].term} ELSE created
  BY <1>0 DEF AskAnswered
<1>3. CASE created' = created
  <2>1. \A r \in Requests : call'[r] = "idle" <=> call[r] = "idle"
    BY <1>0, <1>2
  <2>2. \A t \in Terminals \ created : call'[t] = "idle" /\ chunks'[t] = chunks[t]
    BY <1>0, <1>2 DEF CreatedOnce
  <2>. QED
    BY <1>1, <1>2, <1>3, <2>1, <2>2, CreatedStays, CalmOrder
<1>4. CASE created' # created
  <2>1. PICK u : u = ask[q].term
    OBVIOUS
  <2>2. /\ u \in Terminals /\ created' = created \union {u} /\ u \notin created
        /\ ask[q] = [op |-> "create", term |-> u] /\ Head(mailbox[q]) = "result"
    BY <1>2, <1>4, <2>1 DEF WireTypes, Asks
  <2>3. Creates(q, u)
    BY <1>2, <2>2 DEF Creates
  <2>4. Handled(q)
    <3>1. 1 \in DOMAIN mailbox[q] /\ mailbox[q][1] = "result"
      BY <1>2, <2>2, Shorter DEF WireTypes
    <3>. QED
      BY <3>1 DEF HasResult, ResultsAreLast
  <2>5. \A r \in Requests, t \in Terminals : Creates(r, t)' = Creates(r, t)
    BY <1>0, <1>2 DEF Creates
  <2>6. /\ \A c \in Callers : InQueue(c)' = InQueue(c) /\ InWriting(c)' = InWriting(c) /\ InPipe(c)' = InPipe(c)
        /\ \A r \in Requests : Handled(r) => Handled(r)'
    BY <1>1, CalmFrames
  <2>7. \A t \in created' : \E r \in Requests : Creates(r, t)' /\ Handled(r)'
    BY <2>2, <2>3, <2>4, <2>5, <2>6 DEF CreatedOnce, WireTypes
  <2>8. \A t \in Terminals \ created' :
            /\ chunks'[t] = 0 /\ call'[t] = "idle" /\ emulator'[t] \in {Unknown, 0}
            /\ ~InQueue(t)' /\ ~InWriting(t)' /\ ~InPipe(t)'
    BY <1>0, <1>1, <1>2, <2>2, <2>6 DEF CreatedOnce, Calm
  <2>9. CreatedOnce'
    BY <2>5, <2>7, <2>8 DEF CreatedOnce
  <2>10. NextIs(u, NextChunk(u))
    <3>1. /\ chunks[u] = 0 /\ call[u] = "idle" /\ emulator[u] \in {Unknown, 0} /\ ~InPipe(u)
      BY <2>2 DEF CreatedOnce
    <3>2. NextChunk(u) = 1
      BY <3>1 DEF NextChunk, Waiting
    <3>. QED
      BY <3>1, <3>2 DEF NextIs, PassedOn, Below, InPipe, Unknown
  <2>11. Up => \A t \in created' : NextIs(t, NextChunk(t))
    BY <2>2, <2>10 DEF ChunksInOrder
  <2>12. \A t \in Terminals : NextIs(t, NextChunk(t)) => NextIs(t, NextChunk(t))'
    <3>. TAKE t \in Terminals
    <3>1. NextChunk(t)' = NextChunk(t)
      BY <1>0, <1>2 DEF NextChunk, Waiting
    <3>. QED
      BY <1>1, <3>1 DEF Calm, NextIs, PassedOn, Below
  <2>13. PipeInOrder'
    BY <1>1, CalmFrames DEF ChunksInOrder
  <2>14. writing' # NoWrite /\ writing'.id \in Terminals => NextIs(writing.id, writing.seq)'
    BY <1>1 DEF Calm, NextIs, PassedOn, Below, ChunksInOrder
  <2>15. created' \subseteq Terminals
    BY <2>2 DEF WireTypes
  <2>16. Up' = Up
    BY DEF AskAnswered, Up
  <2>17. Up' => /\ \A i \in DOMAIN queue' : queue'[i].id \in Terminals => queue'[i].seq = chunks'[queue'[i].id]
                /\ writing' # NoWrite /\ writing'.id \in Terminals => writing'.seq = chunks'[writing'.id]
    BY <1>1, <1>2, <2>16 DEF Calm, ChunksInOrder
  <2>. QED
    BY <2>9, <2>11, <2>12, <2>13, <2>14, <2>15, <2>16, <2>17 DEF ChunksInOrder
<1>. QED
  BY <1>3, <1>4

-----------------------------------------------------------------------------
(* Steps that move a frame                                                 *)

\* A frame that is queued is the only one of its caller.
LEMMA EnqueueKeeps ==
  ASSUME WorkerBounds, WireTypes, FramesFit, FramesApart, ResultsAreLast, CreatedOnce, ChunksInOrder,
         NEW c \in Callers, Enqueue(c)
  PROVE  /\ FramesFit' /\ FramesApart' /\ ResultsAreLast' /\ CreatedOnce' /\ ChunksInOrder'
         /\ created' = created
<1>. USE DEF callers, answers, writer, remote, CallAt, CallGoes
<1>0. /\ DOMAIN call = Callers /\ DOMAIN signalled = Callers
      /\ Terminals \subseteq Callers /\ Requests \subseteq Callers
      /\ Terminals \cap Requests = {} /\ Callers = Terminals \union Requests
  BY DEF WireTypes, Callers, WorkerBounds
<1>1. PICK f : f = Frame(c)
  OBVIOUS
<1>2. /\ f \in Frames /\ f.id = c
      /\ c \in Terminals => f.op = "write" /\ f.term = c /\ f.seq = chunks[c]
      /\ c \notin Terminals => c \in Requests /\ f.op # "write" /\ ask[c] = [op |-> f.op, term |-> f.term]
  BY <1>1, FramesOf
<1>3. /\ call[c] = "enqueue" /\ call'[c] = "queued" /\ signalled'[c] = "no"
      /\ \A b \in Callers \ {c} : call'[b] = call[b] /\ signalled'[b] = signalled[b]
      /\ queue' = Append(queue, f)
      /\ writing' = writing /\ pipe' = pipe /\ emulator' = emulator /\ client' = client
      /\ ask' = ask /\ chunks' = chunks /\ created' = created
      /\ replies' = replies /\ mailbox' = mailbox
  BY <1>0, <1>1 DEF Enqueue
<1>4. /\ Len(queue) \in Nat /\ DOMAIN queue = 1..Len(queue) /\ DOMAIN queue' = 1..(Len(queue) + 1)
      /\ queue'[Len(queue) + 1] = f /\ \A i \in 1..Len(queue) : queue'[i] = queue[i]
  BY <1>2, <1>3, Longer DEF WireTypes
<1>5. /\ \A b \in Callers : InQueue(b)' <=> InQueue(b) \/ b = c
      /\ \A b \in Callers : InWriting(b)' = InWriting(b) /\ InPipe(b)' = InPipe(b)
      /\ ~InQueue(c) /\ ~InWriting(c)
  <2>1. \A b \in Callers : InQueue(b)' <=> InQueue(b) \/ b = c
    BY <1>2, <1>4 DEF InQueue
  <2>2. ~InQueue(c) /\ ~InWriting(c)
    BY <1>3 DEF FramesApart
  <2>. QED
    BY <1>3, <2>1, <2>2 DEF InWriting, InPipe
<1>6. ~Sent(c) /\ (c \in Requests => ~InPipe(c))
  <2>1. ~Sent(c)
    BY <1>3 DEF Sent
  <2>2. \A i \in DOMAIN pipe : pipe[i].id \in Requests => Sent(pipe[i].id)
    BY <1>0 DEF FramesFit, FrameFits
  <2>. QED
    BY <2>1, <2>2 DEF InPipe
<1>7. \A b \in Callers : Sent(b) => Sent(b)'
  BY <1>3 DEF Sent
<1>8. FramesFit'
  <2>1. ASSUME NEW g, FrameFits(g) PROVE FrameFits(g)'
    BY <1>0, <1>3, <1>7, <2>1 DEF FrameFits
  <2>2. FrameFits(f)'
    BY <1>2, <1>3 DEF FrameFits, Sent
  <2>. QED
    BY <1>3, <1>4, <2>1, <2>2 DEF FramesFit
<1>9. FramesApart'
  <2>1. \A b \in Callers : InQueue(b)' \/ InWriting(b)' =>
          /\ call'[b] \notin {"budget", "enqueue"}
          /\ Up' => call'[b] = "queued" /\ signalled'[b] = "no"
    BY <1>3, <1>5 DEF FramesApart, Up
  <2>2. \A b \in Callers : ~(InQueue(b)' /\ InWriting(b)')
    BY <1>5 DEF FramesApart
  <2>3. \A i, j \in DOMAIN queue' : queue'[i].id = queue'[j].id => i = j
    <3>1. \A i \in 1..Len(queue) : queue'[i].id # c
      BY <1>4, <1>5 DEF InQueue
    <3>. QED
      BY <1>2, <1>4, <3>1 DEF FramesApart
  <2>4. \A r \in Requests : InPipe(r)' => ~InQueue(r)' /\ ~InWriting(r)'
    BY <1>0, <1>5, <1>6 DEF FramesApart
  <2>. QED
    BY <1>3, <2>1, <2>2, <2>3, <2>4 DEF FramesApart
<1>10. \A r \in Requests : Handled(r) => Handled(r)'
  BY <1>0, <1>5, <1>6, <1>7 DEF Handled
<1>11. ResultsAreLast'
  BY <1>3, <1>10 DEF ResultsAreLast, HasResult
<1>12. CreatedOnce'
  <2>1. \A r \in Requests, t \in Terminals : Creates(r, t)' = Creates(r, t)
    BY <1>0, <1>3 DEF Creates
  <2>2. \A t \in created : \E r \in Requests : Creates(r, t)' /\ Handled(r)'
    BY <1>10, <2>1 DEF CreatedOnce, WireTypes
  <2>3. \A t \in Terminals \ created :
          /\ chunks'[t] = 0 /\ call'[t] = "idle" /\ emulator'[t] \in {Unknown, 0}
          /\ ~InQueue(t)' /\ ~InWriting(t)' /\ ~InPipe(t)'
    BY <1>0, <1>3, <1>5 DEF CreatedOnce
  <2>. QED
    BY <1>3, <2>1, <2>2, <2>3 DEF CreatedOnce
<1>13. ChunksInOrder'
  <2>1. PipeInOrder'
    BY <1>3 DEF ChunksInOrder, PipeInOrder
  <2>2. writing' # NoWrite /\ writing'.id \in Terminals => NextIs(writing.id, writing.seq)'
    BY <1>3 DEF NextIs, PassedOn, Below, ChunksInOrder
  <2>3. \A t \in Terminals : NextIs(t, NextChunk(t)) => NextIs(t, NextChunk(t))'
    <3>. TAKE t \in Terminals
    <3>1. NextChunk(t)' = NextChunk(t)
      BY <1>0, <1>3 DEF NextChunk, Waiting
    <3>. QED
      BY <1>3, <3>1 DEF NextIs, PassedOn, Below
  <2>4. Up' => \A t \in created' : NextIs(t, NextChunk(t))'
    BY <1>3, <2>3 DEF ChunksInOrder, Up, WireTypes
  <2>5. Up' => /\ \A i \in DOMAIN queue' : queue'[i].id \in Terminals => queue'[i].seq = chunks'[queue'[i].id]
               /\ writing' # NoWrite /\ writing'.id \in Terminals => writing'.seq = chunks'[writing'.id]
    BY <1>2, <1>3, <1>4 DEF ChunksInOrder, Up
  <2>. QED
    BY <2>1, <2>2, <2>4, <2>5 DEF ChunksInOrder
<1>. QED
  BY <1>3, <1>8, <1>9, <1>11, <1>12, <1>13

\* A chunk that is taken to be written is the next one of its session.
LEMMA TakeKeeps ==
  ASSUME WorkerBounds, WireTypes, FramesFit, FramesApart, ResultsAreLast, CreatedOnce, ChunksInOrder,
         TakeRequest
  PROVE  /\ FramesFit' /\ FramesApart' /\ ResultsAreLast' /\ CreatedOnce' /\ ChunksInOrder'
         /\ created' = created
<1>. USE DEF callers, answers, writer, remote
<1>0. /\ Terminals \subseteq Callers /\ Requests \subseteq Callers
      /\ Terminals \cap Requests = {} /\ Callers = Terminals \union Requests
  BY DEF Callers, WorkerBounds
<1>1. PICK f : f = Head(queue)
  OBVIOUS
<1>2. /\ Up /\ writing = NoWrite /\ queue # <<>> /\ writing' = f /\ queue' = Tail(queue)
      /\ pipe' = pipe /\ emulator' = emulator /\ client' = client /\ call' = call
      /\ ask' = ask /\ chunks' = chunks /\ created' = created /\ signalled' = signalled
      /\ replies' = replies /\ mailbox' = mailbox
  BY <1>1 DEF TakeRequest
<1>3. /\ f \in Frames /\ f = queue[1] /\ 1 \in DOMAIN queue /\ f # NoWrite
      /\ Len(queue) \in Nat \ {0} /\ DOMAIN queue = 1..Len(queue) /\ DOMAIN queue' = 1..(Len(queue) - 1)
      /\ \A i \in DOMAIN queue' : queue'[i] = queue[i + 1] /\ i + 1 \in DOMAIN queue
  BY <1>1, <1>2, Shorter DEF WireTypes, WorkerBounds
<1>4. f.id \in Callers /\ InQueue(f.id)
  BY <1>3 DEF Frames, InQueue
<1>5. /\ \A b \in Callers : InQueue(b)' <=> InQueue(b) /\ b # f.id
      /\ \A b \in Callers : InWriting(b)' <=> b = f.id
      /\ \A b \in Callers : InPipe(b)' = InPipe(b)
  <2>1. \A b \in Callers : InQueue(b)' => InQueue(b)
    BY <1>3 DEF InQueue
  <2>2. ~InQueue(f.id)'
    BY <1>3 DEF InQueue, FramesApart
  <2>3. ASSUME NEW b \in Callers, InQueue(b), b # f.id PROVE InQueue(b)'
    <3>1. PICK i \in DOMAIN queue : queue[i].id = b
      BY <2>3 DEF InQueue
    <3>2. i # 1 /\ i - 1 \in DOMAIN queue' /\ queue'[i - 1] = queue[i]
      BY <1>3, <2>3, <3>1
    <3>. QED
      BY <3>1, <3>2 DEF InQueue
  <2>. QED
    BY <1>2, <1>3, <2>1, <2>2, <2>3 DEF InWriting, InPipe
<1>6. FramesFit'
  <2>1. ASSUME NEW g, FrameFits(g) PROVE FrameFits(g)'
    BY <1>2, <2>1 DEF FrameFits, Sent
  <2>. QED
    BY <1>2, <1>3, <2>1 DEF FramesFit
<1>7. FramesApart'
  <2>1. \A i, j \in DOMAIN queue' : queue'[i].id = queue'[j].id => i = j
    <3>. SUFFICES ASSUME NEW i \in DOMAIN queue', NEW j \in DOMAIN queue', queue'[i].id = queue'[j].id
         PROVE  i = j
      OBVIOUS
    <3>1. i + 1 = j + 1
      BY <1>3 DEF FramesApart
    <3>. QED
      BY <1>3, <3>1
  <2>2. /\ \A b \in Callers : InQueue(b)' \/ InWriting(b)' => InQueue(b)
        /\ \A b \in Callers : ~(InQueue(b)' /\ InWriting(b)')
    BY <1>4, <1>5
  <2>. QED
    BY <1>0, <1>2, <1>5, <2>1, <2>2 DEF FramesApart, Up
<1>8. \A r \in Requests : Handled(r) => Handled(r)'
  BY <1>0, <1>2, <1>4, <1>5 DEF Handled, Sent
<1>9. ResultsAreLast'
  BY <1>2, <1>8 DEF ResultsAreLast, HasResult
<1>10. CreatedOnce'
  <2>1. \A r \in Requests, t \in Terminals : Creates(r, t)' = Creates(r, t)
    BY <1>2 DEF Creates
  <2>2. \A t \in created : \E r \in Requests : Creates(r, t)' /\ Handled(r)'
    BY <1>8, <2>1 DEF CreatedOnce, WireTypes
  <2>3. \A t \in Terminals \ created :
          /\ chunks'[t] = 0 /\ call'[t] = "idle" /\ emulator'[t] \in {Unknown, 0}
          /\ ~InQueue(t)' /\ ~InWriting(t)' /\ ~InPipe(t)'
    BY <1>0, <1>2, <1>4, <1>5 DEF CreatedOnce
  <2>. QED
    BY <1>2, <2>1, <2>2, <2>3 DEF CreatedOnce
<1>11. ChunksInOrder'
  <2>1. PipeInOrder'
    BY <1>2 DEF ChunksInOrder, PipeInOrder
  <2>2. \A t \in Terminals, n \in Int : NextIs(t, n) => NextIs(t, n)'
    BY <1>2 DEF NextIs, PassedOn, Below
  <2>3. \A t \in Terminals : NextChunk(t)' = NextChunk(t) /\ NextChunk(t) \in Int
    BY <1>2 DEF NextChunk, Waiting, WireTypes
  <2>4. Up' => \A t \in created' : NextIs(t, NextChunk(t))'
    BY <1>2, <2>3 DEF ChunksInOrder, Up, WireTypes, NextIs, PassedOn, Below
  <2>5. f.id \in Terminals => /\ f.seq = chunks[f.id] /\ f.id \in created
                              /\ call[f.id] = "queued" /\ signalled[f.id] = "no"
    BY <1>2, <1>3, <1>4 DEF ChunksInOrder, FramesApart, CreatedOnce
  <2>6. f.id \in Terminals => NextIs(f.id, f.seq)
    <3>1. f.id \in Terminals => NextChunk(f.id) = f.seq
      BY <2>5 DEF NextChunk, Waiting
    <3>. QED
      BY <1>2, <2>5, <3>1 DEF ChunksInOrder
  <2>7. writing' # NoWrite /\ writing'.id \in Terminals => NextIs(writing.id, writing.seq)'
    BY <1>2, <2>6 DEF NextIs, PassedOn, Below
  <2>8. Up' => /\ \A i \in DOMAIN queue' : queue'[i].id \in Terminals => queue'[i].seq = chunks'[queue'[i].id]
               /\ writing' # NoWrite /\ writing'.id \in Terminals => writing'.seq = chunks'[writing'.id]
    BY <1>2, <1>3, <2>5 DEF ChunksInOrder, Up
  <2>. QED
    BY <2>1, <2>4, <2>7, <2>8 DEF ChunksInOrder
<1>. QED
  BY <1>2, <1>6, <1>7, <1>9, <1>10, <1>11

\* A chunk that is written is the last one of its session in the pipe; after a failed write
\* the client takes no other.
LEMMA WriteKeeps ==
  ASSUME WorkerBounds, WireTypes, FramesFit, FramesApart, ResultsAreLast, CreatedOnce, ChunksInOrder,
         FrameWritten \/ WriteFails
  PROVE  /\ FramesFit' /\ FramesApart' /\ ResultsAreLast' /\ CreatedOnce' /\ ChunksInOrder'
         /\ created' = created
<1>. USE DEF callers, answers, writer, remote
<1>0. /\ Terminals \subseteq Callers /\ Requests \subseteq Callers /\ DOMAIN signalled = Callers
      /\ Terminals \cap Requests = {} /\ Callers = Terminals \union Requests
  BY DEF Callers, WorkerBounds, WireTypes
<1>1. PICK f : f = writing
  OBVIOUS
<1>2. /\ f \in Frames /\ f.id \in Callers /\ writing = f /\ f # NoWrite
  <2>1. f \in Frames /\ writing = f /\ f # NoWrite
    BY <1>1 DEF FrameWritten, WriteFails, WriteReturns, WireTypes
  <2>. QED
    BY <2>1 DEF Frames
<1>3. /\ writing' = NoWrite /\ queue' = queue /\ emulator' = emulator /\ call' = call
      /\ ask' = ask /\ chunks' = chunks /\ created' = created
      /\ replies' = replies /\ mailbox' = mailbox /\ (Up' => Up)
      /\ \A b \in Callers \ {f.id} : signalled'[b] = signalled[b]
  BY <1>0, <1>1 DEF FrameWritten, WriteFails, WriteReturns, FailClose, Up
<1>4. /\ pipe' = pipe /\ ~Up'
      \/ /\ pipe' = Append(pipe, f) /\ client' = client /\ signalled'[f.id] = "ok"
         /\ Len(pipe) \in Nat /\ DOMAIN pipe = 1..Len(pipe) /\ DOMAIN pipe' = 1..(Len(pipe) + 1)
         /\ pipe'[Len(pipe) + 1] = f /\ \A i \in 1..Len(pipe) : pipe'[i] = pipe[i]
  <2>1. CASE WriteFails
    BY <2>1 DEF WriteFails, FailClose, Up
  <2>2. CASE FrameWritten
    <3>1. pipe' = Append(pipe, f) /\ client' = client /\ signalled'[f.id] = "ok"
      BY <1>0, <1>1, <1>2, <2>2 DEF FrameWritten, WriteReturns
    <3>. QED
      BY <1>2, <3>1, Longer DEF WireTypes
  <2>. QED
    BY <2>1, <2>2
<1>5. /\ \A b \in Callers : InQueue(b)' = InQueue(b) /\ ~InWriting(b)'
      /\ \A b \in Callers : InWriting(b) <=> b = f.id
      /\ \A b \in Callers : InPipe(b)' => InPipe(b) \/ b = f.id
  <2>1. \A b \in Callers : InPipe(b)' => InPipe(b) \/ b = f.id
    BY <1>4 DEF InPipe
  <2>. QED
    BY <1>2, <1>3, <2>1 DEF InQueue, InWriting
<1>6. FramesFit'
  <2>1. ASSUME NEW g, FrameFits(g) PROVE FrameFits(g)'
    BY <1>3, <2>1 DEF FrameFits, Sent
  <2>2. FrameFits(f)
    BY <1>2 DEF FramesFit
  <2>3. \A i \in DOMAIN pipe' : FrameFits(pipe'[i])
    BY <1>4, <2>2 DEF FramesFit
  <2>. QED
    BY <1>3, <2>1, <2>3 DEF FramesFit
<1>7. FramesApart'
  <2>1. \A b \in Callers : InQueue(b)' \/ InWriting(b)' =>
          /\ call'[b] \notin {"budget", "enqueue"}
          /\ Up' => call'[b] = "queued" /\ signalled'[b] = "no"
    BY <1>3, <1>5 DEF FramesApart
  <2>2. \A r \in Requests : InPipe(r)' => ~InQueue(r)'
    BY <1>0, <1>5 DEF FramesApart
  <2>3. \A i, j \in DOMAIN pipe' : pipe'[i].id = pipe'[j].id /\ pipe'[i].id \in Requests => i = j
    <3>1. f.id \in Requests => \A i \in DOMAIN pipe : pipe[i].id # f.id
      BY <1>2, <1>5 DEF FramesApart, InPipe
    <3>2. CASE pipe' = pipe
      BY <3>2 DEF FramesApart
    <3>3. CASE pipe' # pipe
      <4>1. SUFFICES ASSUME NEW i \in DOMAIN pipe', NEW j \in DOMAIN pipe',
                            pipe'[i].id = pipe'[j].id, pipe'[i].id \in Requests
                     PROVE  i = j
        OBVIOUS
      <4>2. \A k \in DOMAIN pipe' : (k \in DOMAIN pipe /\ pipe'[k] = pipe[k])
                                    \/ (k = Len(pipe) + 1 /\ pipe'[k] = f)
        BY <1>4, <3>3
      <4>. QED
        BY <3>1, <4>1, <4>2 DEF FramesApart
    <3>. QED
      BY <3>2, <3>3
  <2>. QED
    BY <1>0, <1>3, <1>5, <2>1, <2>2, <2>3 DEF FramesApart
<1>8. \A r \in Requests : Handled(r) => Handled(r)'
  BY <1>0, <1>3, <1>5 DEF Handled, Sent
<1>9. ResultsAreLast'
  BY <1>3, <1>8 DEF ResultsAreLast, HasResult
<1>10. CreatedOnce'
  <2>1. \A r \in Requests, t \in Terminals : Creates(r, t)' = Creates(r, t)
    BY <1>3 DEF Creates
  <2>2. \A t \in created : \E r \in Requests : Creates(r, t)' /\ Handled(r)'
    BY <1>8, <2>1 DEF CreatedOnce, WireTypes
  <2>3. \A t \in Terminals \ created :
          /\ chunks'[t] = 0 /\ call'[t] = "idle" /\ emulator'[t] \in {Unknown, 0}
          /\ ~InQueue(t)' /\ ~InWriting(t)' /\ ~InPipe(t)'
    BY <1>0, <1>3, <1>5 DEF CreatedOnce
  <2>. QED
    BY <1>3, <2>1, <2>2, <2>3 DEF CreatedOnce
<1>11. f.id \in Terminals => NextIs(f.id, f.seq) /\ f.seq \in Int
  BY <1>2 DEF ChunksInOrder, Frames
<1>12. PipeInOrder'
  <2>1. CASE pipe' = pipe
    BY <1>3, <2>1 DEF ChunksInOrder, PipeInOrder
  <2>2. CASE pipe' # pipe
    <3>1. ASSUME NEW i \in DOMAIN pipe', pipe'[i].id \in Terminals
          PROVE  /\ emulator[pipe'[i].id] < pipe'[i].seq
                 /\ \/ emulator[pipe'[i].id] \in {Unknown, pipe'[i].seq - 1}
                    \/ \E j \in 1..(i - 1) : pipe'[j].id = pipe'[i].id /\ pipe'[j].seq = pipe'[i].seq - 1
      <4>1. CASE i \in DOMAIN pipe
        <5>1. pipe'[i] = pipe[i] /\ \A j \in 1..(i - 1) : pipe'[j] = pipe[j]
          BY <1>4, <2>2, <4>1
        <5>. QED
          BY <3>1, <4>1, <5>1 DEF ChunksInOrder, PipeInOrder
      <4>2. CASE i = Len(pipe) + 1
        <5>1. pipe'[i] = f /\ DOMAIN pipe = 1..(i - 1) /\ \A j \in 1..(i - 1) : pipe'[j] = pipe[j]
          BY <1>4, <2>2, <4>2
        <5>. QED
          BY <1>11, <3>1, <5>1 DEF NextIs, PassedOn, Below
      <4>. QED
        BY <1>4, <2>2, <4>1, <4>2
    <3>2. ASSUME NEW i \in DOMAIN pipe', NEW j \in DOMAIN pipe', i < j, pipe'[i].id = pipe'[j].id,
                 pipe'[i].id \in Terminals
          PROVE  pipe'[i].seq < pipe'[j].seq
      <4>1. i \in DOMAIN pipe /\ pipe'[i] = pipe[i]
        BY <1>4, <2>2, <3>2
      <4>2. CASE j \in DOMAIN pipe
        <5>1. pipe'[j] = pipe[j]
          BY <1>4, <2>2, <4>2
        <5>. QED
          BY <3>2, <4>1, <4>2, <5>1 DEF ChunksInOrder, PipeInOrder
      <4>3. CASE j = Len(pipe) + 1
        <5>1. pipe'[j] = f
          BY <1>4, <2>2, <4>3
        <5>. QED
          BY <1>11, <3>2, <4>1, <5>1 DEF NextIs, Below
      <4>. QED
        BY <1>4, <2>2, <4>2, <4>3
    <3>. QED
      BY <1>3, <3>1, <3>2 DEF PipeInOrder
  <2>. QED
    BY <2>1, <2>2
<1>13. Up' => \A t \in created' : NextIs(t, NextChunk(t))'
  <2>. SUFFICES ASSUME Up', NEW t \in created PROVE NextIs(t, NextChunk(t))'
    BY <1>3
  <2>1. /\ t \in Terminals /\ chunks[t] \in Int /\ NextIs(t, NextChunk(t))
        /\ pipe' = Append(pipe, f) /\ signalled'[f.id] = "ok" /\ DOMAIN pipe = 1..Len(pipe)
        /\ Len(pipe) \in Nat /\ DOMAIN pipe' = 1..(Len(pipe) + 1)
        /\ pipe'[Len(pipe) + 1] = f /\ \A i \in 1..Len(pipe) : pipe'[i] = pipe[i]
    BY <1>3, <1>4 DEF WireTypes, ChunksInOrder
  <2>2. CASE t # f.id
    <3>1. NextChunk(t)' = NextChunk(t)
      BY <1>0, <1>3, <2>1, <2>2 DEF NextChunk, Waiting
    <3>2. PICK n : n = NextChunk(t)
      OBVIOUS
    <3>3. NextIs(t, n) => /\ \/ emulator'[t] \in {Unknown, n - 1}
                             \/ \E j \in DOMAIN pipe' : pipe'[j].id = t /\ pipe'[j].seq = n - 1
                          /\ emulator'[t] < n /\ \A j \in DOMAIN pipe' : pipe'[j].id = t => pipe'[j].seq < n
      BY <1>3, <2>1, <2>2 DEF NextIs, PassedOn, Below
    <3>. QED
      BY <2>1, <3>1, <3>2, <3>3 DEF NextIs, PassedOn, Below
  <2>3. CASE t = f.id
    <3>1. f.seq = chunks[t] /\ call[t] = "queued"
      BY <1>2, <1>3, <1>5, <2>1, <2>3 DEF ChunksInOrder, FramesApart, Callers
    <3>2. NextChunk(t)' = chunks[t] + 1
      BY <1>3, <2>1, <2>3, <3>1 DEF NextChunk, Waiting
    <3>3. emulator[t] < chunks[t] /\ \A j \in DOMAIN pipe : pipe[j].id = t => pipe[j].seq < chunks[t]
      BY <1>11, <2>1, <2>3, <3>1 DEF NextIs, Below
    <3>4. /\ pipe'[Len(pipe) + 1].id = t /\ pipe'[Len(pipe) + 1].seq = chunks[t]
          /\ \A j \in DOMAIN pipe : pipe'[j] = pipe[j]
      BY <2>1, <2>3, <3>1
    <3>5. emulator[t] \in Int /\ \A j \in DOMAIN pipe : pipe[j].seq \in Int
      <4>1. \A g \in Frames : g.seq \in Int
        BY DEF Frames
      <4>. QED
        BY <2>1, <4>1 DEF WireTypes, Unknown
    <3>6. PassedOn(t, chunks[t])'
      BY <1>3, <2>1, <3>4 DEF PassedOn
    <3>7. emulator'[t] < chunks[t] + 1
          /\ \A j \in DOMAIN pipe' : pipe'[j].id = t => pipe'[j].seq < chunks[t] + 1
      BY <1>3, <2>1, <3>3, <3>4, <3>5
    <3>. QED
      BY <1>3, <2>1, <3>2, <3>6, <3>7 DEF NextIs, Below, PassedOn
  <2>. QED
    BY <2>2, <2>3
<1>14. Up' => \A i \in DOMAIN queue' : queue'[i].id \in Terminals => queue'[i].seq = chunks'[queue'[i].id]
  BY <1>3 DEF ChunksInOrder
<1>. QED
  BY <1>3, <1>6, <1>7, <1>9, <1>10, <1>12, <1>13, <1>14 DEF ChunksInOrder

\* The frame that the worker reads is the next one of its session.
LEMMA HandleKeeps ==
  ASSUME WorkerBounds, WireTypes, FramesFit, FramesApart, ResultsAreLast, CreatedOnce, ChunksInOrder,
         NoSequenceGap, Handle
  PROVE  /\ FramesFit' /\ FramesApart' /\ ResultsAreLast' /\ CreatedOnce' /\ ChunksInOrder'
         /\ NoSequenceGap' /\ created' = created
<1>. USE DEF callers, answers, writer
<1>0. /\ Terminals \subseteq Callers /\ Requests \subseteq Callers
      /\ Terminals \cap Requests = {} /\ Callers = Terminals \union Requests
  BY DEF Callers, WorkerBounds, WireTypes
<1>1. PICK f : f = Head(pipe)
  OBVIOUS
<1>2. /\ writing' = writing /\ queue' = queue /\ call' = call
      /\ ask' = ask /\ chunks' = chunks /\ created' = created
      /\ mailbox' = mailbox /\ client' = client /\ signalled' = signalled
      /\ pipe # <<>> /\ pipe' = Tail(pipe)
      /\ HandleWrite(f) \/ HandleCreate(f) \/ HandleOther(f)
  BY <1>1 DEF Handle
<1>3. /\ f \in Frames /\ f = pipe[1] /\ 1 \in DOMAIN pipe
      /\ Len(pipe) \in Nat \ {0} /\ DOMAIN pipe = 1..Len(pipe) /\ DOMAIN pipe' = 1..(Len(pipe) - 1)
      /\ \A i \in DOMAIN pipe' : pipe'[i] = pipe[i + 1] /\ i + 1 \in DOMAIN pipe
  BY <1>1, <1>2, Shorter DEF WireTypes
<1>4. f.id \in Callers /\ f.term \in Terminals /\ f.seq \in Int /\ InPipe(f.id) /\ FrameFits(f)
  BY <1>3 DEF Frames, InPipe, FramesFit
<1>5. /\ \A b \in Callers : InQueue(b)' = InQueue(b) /\ InWriting(b)' = InWriting(b)
      /\ \A b \in Callers : InPipe(b)' => InPipe(b)
  BY <1>2, <1>3 DEF InQueue, InWriting, InPipe
<1>6. /\ \A t \in Terminals : emulator[t] \in Int /\ emulator[t] >= -1
      /\ \A i \in DOMAIN pipe : pipe[i].seq \in Int /\ pipe[i].seq >= 0
      /\ emulator \in [Terminals -> Int] /\ Unknown = -1
  <2>1. \A g \in Frames : g.seq \in Int /\ g.seq >= 0
    BY DEF Frames
  <2>2. \A i \in DOMAIN pipe : pipe[i] \in Frames
    BY DEF WireTypes
  <2>. QED
    BY <2>1, <2>2 DEF WireTypes, Unknown
<1>7. \A t \in Terminals \ {f.term} : emulator'[t] = emulator[t]
  BY <1>2, <1>6 DEF HandleWrite, HandleCreate, HandleOther
\* What the worker says and does with the frame.
<1>8. \/ /\ f.op = "write" /\ f.id = f.term /\ emulator[f.term] = Unknown
         /\ emulator' = emulator /\ Reply(f, "error")
      \/ /\ f.op = "write" /\ f.id = f.term /\ emulator[f.term] = f.seq - 1
         /\ emulator[f.term] # Unknown /\ emulator'[f.term] = f.seq /\ replies' = replies
      \/ /\ f.id \in Requests /\ emulator' = emulator
         /\ Reply(f, "error") \/ Reply(f, "result")
      \/ /\ f.id \in Requests /\ emulator'[f.term] = Unknown /\ Reply(f, "result")
      \/ /\ f.id \in Requests /\ f.op = "create" /\ emulator[f.term] = Unknown
         /\ emulator'[f.term] = 0 /\ Reply(f, "result")
  <2>1. CASE HandleWrite(f)
    <3>1. f.op = "write" /\ f.id = f.term
      BY <1>4, <2>1 DEF HandleWrite, FrameFits
    <3>2. emulator[f.term] \in {Unknown, f.seq - 1}
      BY <1>3, <1>4, <3>1 DEF ChunksInOrder, PipeInOrder
    <3>3. emulator[f.term] # Unknown => f.seq = emulator[f.term] + 1
      BY <1>4, <1>6, <3>2
    <3>. QED
      BY <1>4, <1>6, <2>1, <3>1, <3>2, <3>3 DEF HandleWrite
  <2>2. CASE HandleCreate(f)
    <3>1. f.op = "create" /\ f.id \in Requests
      BY <1>4, <2>2 DEF HandleCreate, FrameFits
    <3>. QED
      BY <1>4, <1>6, <2>2, <3>1 DEF HandleCreate
  <2>3. CASE HandleOther(f)
    <3>1. f.op # "write" /\ f.id \in Requests
      BY <1>4, <2>3 DEF HandleOther, FrameFits
    <3>. QED
      BY <1>4, <1>6, <2>3, <3>1 DEF HandleOther
  <2>. QED
    BY <1>2, <2>1, <2>2, <2>3
<1>9. /\ \/ replies' = replies
         \/ /\ \E kind \in {"result", "error"} : replies' = Append(replies, [id |-> f.id, kind |-> kind])
      /\ f.id \in Terminals => \/ replies' = replies
                               \/ replies' = Append(replies, [id |-> f.id, kind |-> "error"])
  BY <1>0, <1>4, <1>8 DEF Reply
<1>10. \A i \in DOMAIN replies' : \/ i \in DOMAIN replies /\ replies'[i] = replies[i]
                                  \/ /\ replies'[i].id = f.id /\ replies'[i].kind \in {"result", "error"}
  <2>1. CASE replies' = replies
    BY <2>1
  <2>2. CASE replies' # replies
    <3>1. PICK kind \in {"result", "error"} : replies' = Append(replies, [id |-> f.id, kind |-> kind])
      BY <1>9, <2>2
    <3>2. PICK a : a = [id |-> f.id, kind |-> kind]
      OBVIOUS
    <3>3. a \in Answer /\ a.id = f.id /\ a.kind \in {"result", "error"}
      BY <1>4, <3>2 DEF Answer
    <3>. QED
      BY <3>1, <3>2, <3>3, Longer DEF WireTypes
  <2>. QED
    BY <2>1, <2>2
<1>11. NoSequenceGap'
  BY <1>10 DEF NoSequenceGap
<1>12. FramesFit'
  <2>1. ASSUME NEW g, FrameFits(g) PROVE FrameFits(g)'
    BY <1>2, <2>1 DEF FrameFits, Sent
  <2>. QED
    BY <1>2, <1>3, <2>1 DEF FramesFit
<1>13. FramesApart'
  <2>1. \A i, j \in DOMAIN pipe' : pipe'[i].id = pipe'[j].id /\ pipe'[i].id \in Requests => i = j
    <3>. SUFFICES ASSUME NEW i \in DOMAIN pipe', NEW j \in DOMAIN pipe', pipe'[i].id = pipe'[j].id,
                         pipe'[i].id \in Requests
         PROVE  i = j
      OBVIOUS
    <3>1. i + 1 = j + 1
      BY <1>3 DEF FramesApart
    <3>. QED
      BY <1>3, <3>1
  <2>. QED
    BY <1>0, <1>2, <1>5, <2>1 DEF FramesApart, Up
<1>14. \A r \in Requests : Handled(r) => Handled(r)'
  BY <1>0, <1>2, <1>5 DEF Handled, Sent
<1>15. f.id \in Requests => Handled(f.id)'
  <2>. HAVE f.id \in Requests
  <2>1. Sent(f.id) /\ ~InQueue(f.id) /\ ~InWriting(f.id)
    BY <1>0, <1>4 DEF FrameFits, FramesApart
  <2>2. \A i \in DOMAIN pipe' : pipe'[i].id # f.id
    <3>. TAKE i \in DOMAIN pipe'
    <3>1. i + 1 # 1 /\ i + 1 \in DOMAIN pipe /\ pipe'[i] = pipe[i + 1]
      BY <1>3
    <3>. QED
      BY <1>3, <3>1 DEF FramesApart
  <2>. QED
    BY <1>2, <1>4, <1>5, <2>1, <2>2 DEF Handled, InPipe, Sent
<1>16. ResultsAreLast'
  <2>1. ASSUME NEW r \in Requests, HasResult(r)' PROVE HasResult(r) \/ r = f.id
    BY <1>2, <1>10, <2>1 DEF HasResult
  <2>. QED
    BY <1>14, <1>15, <2>1 DEF ResultsAreLast
<1>17. f.op = "create" /\ f.id \in Requests => f.term \notin created
  <2>. SUFFICES ASSUME f.op = "create", f.id \in Requests, f.term \in created PROVE FALSE
    OBVIOUS
  <2>1. Creates(f.id, f.term)
    BY <1>4 DEF FrameFits, Creates, Sent
  <2>2. PICK r \in Requests : Creates(r, f.term) /\ Handled(r)
    BY DEF CreatedOnce
  <2>3. r = f.id
    BY <1>4, <2>1, <2>2 DEF CreatedOnce
  <2>. QED
    BY <1>4, <2>2, <2>3 DEF Handled
<1>18. CreatedOnce'
  <2>1. \A r \in Requests, t \in Terminals : Creates(r, t)' = Creates(r, t)
    BY <1>2 DEF Creates
  <2>2. \A t \in created : \E r \in Requests : Creates(r, t)' /\ Handled(r)'
    BY <1>14, <2>1 DEF CreatedOnce, WireTypes
  <2>3. \A t \in Terminals \ created : emulator'[t] \in {Unknown, 0}
    <3>. TAKE t \in Terminals \ created
    <3>1. emulator[t] \in {Unknown, 0} /\ ~InPipe(t)
      BY DEF CreatedOnce
    <3>. QED
      BY <1>4, <1>7, <1>8, <3>1
  <2>4. \A t \in Terminals \ created :
          /\ chunks'[t] = 0 /\ call'[t] = "idle"
          /\ ~InQueue(t)' /\ ~InWriting(t)' /\ ~InPipe(t)'
    BY <1>0, <1>2, <1>5 DEF CreatedOnce
  <2>. QED
    BY <1>2, <2>1, <2>2, <2>3, <2>4 DEF CreatedOnce
\* For each session: nothing happened to it, its chunk was applied, or it is unknown.
<1>19. ASSUME NEW t \in Terminals
       PROVE  \/ emulator'[t] = emulator[t] /\ f.id # t
              \/ emulator'[t] = Unknown
              \/ /\ emulator[t] = f.seq - 1 /\ emulator[t] # Unknown
                 /\ emulator'[t] = f.seq /\ f.id = t
              \/ t \notin created /\ ~InPipe(t) /\ ~InWriting(t)
  <2>1. CASE t \in created
    BY <1>0, <1>4, <1>7, <1>8, <1>17, <2>1
  <2>2. CASE t \notin created
    BY <2>2 DEF CreatedOnce
  <2>. QED
    BY <2>1, <2>2
<1>20. PipeInOrder'
  <2>1. \A i, j \in DOMAIN pipe' : i < j /\ pipe'[i].id = pipe'[j].id /\ pipe'[i].id \in Terminals
           => pipe'[i].seq < pipe'[j].seq
    <3>. SUFFICES ASSUME NEW i \in DOMAIN pipe', NEW j \in DOMAIN pipe', i < j,
                         pipe'[i].id = pipe'[j].id, pipe'[i].id \in Terminals
         PROVE  pipe'[i].seq < pipe'[j].seq
      OBVIOUS
    <3>1. i + 1 < j + 1
      BY <1>3
    <3>. QED
      BY <1>3, <3>1 DEF ChunksInOrder, PipeInOrder
  <2>2. ASSUME NEW i \in DOMAIN pipe', pipe'[i].id \in Terminals
        PROVE  /\ emulator'[pipe'[i].id] < pipe'[i].seq
               /\ \/ emulator'[pipe'[i].id] \in {Unknown, pipe'[i].seq - 1}
                  \/ \E j \in 1..(i - 1) : pipe'[j].id = pipe'[i].id /\ pipe'[j].seq = pipe'[i].seq - 1
    <3>1. PICK t, n : t = pipe'[i].id /\ n = pipe'[i].seq
      OBVIOUS
    <3>2. /\ i + 1 \in DOMAIN pipe /\ pipe[i + 1].id = t /\ pipe[i + 1].seq = n /\ t \in Terminals
          /\ n \in Int /\ n >= 0 /\ i \in Nat \ {0} /\ 1 < i + 1
      BY <1>3, <1>6, <2>2, <3>1
    <3>3. /\ emulator[t] < n
          /\ \/ emulator[t] \in {Unknown, n - 1}
             \/ \E j \in 1..i : pipe[j].id = t /\ pipe[j].seq = n - 1
      BY <3>2 DEF ChunksInOrder, PipeInOrder
    <3>4. f.id = t => f.seq < n
      BY <1>3, <3>2 DEF ChunksInOrder, PipeInOrder
    <3>5. InPipe(t)
      BY <3>2 DEF InPipe
    <3>6. emulator'[t] < n
      BY <1>6, <1>19, <3>2, <3>3, <3>4, <3>5
    <3>7. emulator'[t] \in {Unknown, n - 1} \/ \E j \in 1..(i - 1) : pipe'[j].id = t /\ pipe'[j].seq = n - 1
      <4>1. CASE emulator[t] \in {Unknown, n - 1}
        <5>1. ~(emulator[t] = f.seq - 1 /\ emulator[t] # Unknown /\ f.id = t)
          BY <1>4, <3>2, <3>4, <4>1
        <5>. QED
          BY <1>19, <3>2, <3>5, <4>1, <5>1
      <4>2. CASE \E j \in 1..i : pipe[j].id = t /\ pipe[j].seq = n - 1
        <5>1. PICK j \in 1..i : pipe[j].id = t /\ pipe[j].seq = n - 1
          BY <4>2
        <5>2. CASE j = 1
          BY <1>3, <1>4, <1>6, <1>19, <3>2, <3>5, <5>1, <5>2
        <5>3. CASE j # 1
          <6>1. j - 1 \in 1..(i - 1) /\ j - 1 \in DOMAIN pipe' /\ pipe'[j - 1] = pipe[j]
            BY <1>3, <2>2, <3>2, <5>1, <5>3
          <6>. QED
            BY <5>1, <6>1
        <5>. QED
          BY <5>2, <5>3
      <4>. QED
        BY <3>3, <4>1, <4>2
    <3>. QED
      BY <3>1, <3>6, <3>7
  <2>. QED
    BY <2>1, <2>2 DEF PipeInOrder
<1>21. ASSUME NEW t \in Terminals, NEW n \in Int, NextIs(t, n), t \in created \/ InWriting(t)
       PROVE  /\ emulator'[t] \in {Unknown, n - 1}
                 \/ \E j \in DOMAIN pipe' : pipe'[j].id = t /\ pipe'[j].seq = n - 1
              /\ emulator'[t] < n
              /\ \A j \in DOMAIN pipe' : pipe'[j].id = t => pipe'[j].seq < n
  <2>1. /\ emulator[t] \in {Unknown, n - 1} \/ \E j \in DOMAIN pipe : pipe[j].id = t /\ pipe[j].seq = n - 1
        /\ emulator[t] < n /\ \A j \in DOMAIN pipe : pipe[j].id = t => pipe[j].seq < n
    BY <1>21 DEF NextIs, PassedOn, Below
  <2>2. \A j \in DOMAIN pipe' : pipe'[j].id = t => pipe'[j].seq < n
    BY <1>3, <2>1
  <2>3. f.id = t => f.seq < n
    BY <1>3, <2>1
  <2>4. emulator'[t] < n
    BY <1>6, <1>19, <1>21, <2>1, <2>3
  <2>5. emulator'[t] \in {Unknown, n - 1} \/ \E j \in DOMAIN pipe' : pipe'[j].id = t /\ pipe'[j].seq = n - 1
    <3>1. CASE emulator[t] \in {Unknown, n - 1}
      <4>1. ~(emulator[t] = f.seq - 1 /\ emulator[t] # Unknown /\ f.id = t)
        BY <1>4, <1>21, <2>3, <3>1
      <4>. QED
        BY <1>19, <1>21, <3>1, <4>1
    <3>2. CASE \E j \in DOMAIN pipe : pipe[j].id = t /\ pipe[j].seq = n - 1
      <4>1. PICK j \in DOMAIN pipe : pipe[j].id = t /\ pipe[j].seq = n - 1
        BY <3>2
      <4>2. CASE j = 1
        BY <1>3, <1>4, <1>6, <1>19, <1>21, <4>1, <4>2
      <4>3. CASE j # 1
        <5>1. j - 1 \in DOMAIN pipe' /\ pipe'[j - 1] = pipe[j]
          BY <1>3, <4>3
        <5>. QED
          BY <4>1, <5>1
      <4>. QED
        BY <4>2, <4>3
    <3>. QED
      BY <2>1, <3>1, <3>2
  <2>. QED
    BY <2>2, <2>4, <2>5
<1>22. writing' # NoWrite /\ writing'.id \in Terminals => NextIs(writing.id, writing.seq)'
  <2>. HAVE writing' # NoWrite /\ writing'.id \in Terminals
  <2>1. PICK t, n : t = writing.id /\ n = writing.seq
    OBVIOUS
  <2>2. /\ t \in Terminals /\ n \in Int /\ NextIs(t, n) /\ InWriting(t)
    <3>1. writing \in Frames
      BY <1>2 DEF WireTypes
    <3>. QED
      BY <1>2, <2>1, <3>1 DEF Frames, ChunksInOrder, InWriting
  <2>3. /\ emulator'[t] \in {Unknown, n - 1}
           \/ \E j \in DOMAIN pipe' : pipe'[j].id = t /\ pipe'[j].seq = n - 1
        /\ emulator'[t] < n
        /\ \A j \in DOMAIN pipe' : pipe'[j].id = t => pipe'[j].seq < n
    BY <1>21, <2>2
  <2>4. writing'.id = t /\ writing'.seq = n
    BY <1>2, <2>1
  <2>. QED
    BY <2>3, <2>4 DEF NextIs, PassedOn, Below
<1>23. Up' => \A t \in created' : NextIs(t, NextChunk(t))'
  <2>. SUFFICES ASSUME Up', NEW t \in created PROVE NextIs(t, NextChunk(t))'
    BY <1>2
  <2>1. PICK n : n = NextChunk(t)
    OBVIOUS
  <2>2. t \in Terminals /\ n \in Int /\ NextIs(t, n) /\ NextChunk(t)' = n
    BY <1>2, <2>1 DEF WireTypes, NextChunk, Waiting, ChunksInOrder, Up
  <2>. QED
    BY <1>21, <2>2 DEF NextIs, PassedOn, Below
<1>24. Up' => /\ \A i \in DOMAIN queue' : queue'[i].id \in Terminals => queue'[i].seq = chunks'[queue'[i].id]
              /\ writing' # NoWrite /\ writing'.id \in Terminals => writing'.seq = chunks'[writing'.id]
  BY <1>2 DEF ChunksInOrder, Up
<1>. QED
  BY <1>2, <1>11, <1>12, <1>13, <1>16, <1>18, <1>20, <1>22, <1>23, <1>24 DEF ChunksInOrder

-----------------------------------------------------------------------------
\* Nothing has been sent in the beginning.
LEMMA WorkerStart ==
  ASSUME WorkerBounds, WorkerInit
  PROVE  WireInv
<1>. USE DEF WorkerInit
<1>1. \E a \in Asks : a.op = "snapshot"
  <2>1. PICK t \in Terminals : TRUE
    BY DEF WorkerBounds
  <2>2. [op |-> "snapshot", term |-> t] \in Asks
    BY DEF Asks
  <2>. QED
    BY <2>2
<1>2. (CHOOSE a \in Asks : a.op = "snapshot") \in Asks
  BY <1>1
<1>3. /\ \A c \in Callers : call[c] = "idle" /\ signalled[c] = "no"
      /\ \A r \in Requests : r \in Callers /\ mailbox[r] = <<>>
      /\ \A t \in Terminals : t \in Callers /\ emulator[t] = Unknown /\ chunks[t] = 0
      /\ Terminals \cap Requests = {}
  BY DEF WorkerBounds, Callers
<1>4. WireTypes
  <2>1. ask \in [Requests -> Asks]
    BY <1>2
  <2>2. mailbox \in [Requests -> Seq({"result", "error"})]
    OBVIOUS
  <2>3. 0 \in 0..MaxWrites
    BY DEF WorkerBounds
  <2>4. call \in [Callers -> Stages]
    BY DEF Stages
  <2>5. queue \in Seq(Frames) /\ pipe \in Seq(Frames) /\ replies \in Seq(Answer)
    OBVIOUS
  <2>6. chunks \in [Terminals -> 0..MaxWrites]
    BY <2>3
  <2>7. emulator \in [Terminals -> {Unknown} \union 0..MaxWrites]
    OBVIOUS
  <2>. QED
    BY <2>1, <2>2, <2>4, <2>5, <2>6, <2>7 DEF WireTypes
<1>5. \A c : ~InQueue(c) /\ ~InWriting(c) /\ ~InPipe(c)
  BY DEF InQueue, InWriting, InPipe
<1>6. FramesFit /\ NoSequenceGap
  BY DEF FramesFit, NoSequenceGap
<1>7. FramesApart
  BY <1>5 DEF FramesApart
<1>8. ResultsAreLast
  BY <1>3 DEF ResultsAreLast, HasResult
<1>9. CreatedOnce
  BY <1>3, <1>5 DEF CreatedOnce, Creates
<1>10. ChunksInOrder
  BY DEF ChunksInOrder, PipeInOrder
<1>. QED
  BY <1>4, <1>6, <1>7, <1>8, <1>9, <1>10 DEF WireInv

\* Every step keeps the order of the chunks.
LEMMA WorkerKeeps ==
  ASSUME WorkerBounds, WireInv, [WorkerNext]_workerVars
  PROVE  WireInv'
<1>. USE DEF WireInv
<1>0. Terminals \subseteq Callers /\ Requests \subseteq Callers
  BY DEF Callers
<1>1. WireTypes'
  BY WireTyped
\* A calm step that keeps or advances what is known of the creations keeps all.
<1>2. ASSUME Calm, CreatedOnce', ChunksInOrder', NoSequenceGap',
             \A r \in Requests : HasResult(r)' => HasResult(r)
      PROVE  WireInv'
  BY <1>1, <1>2, CalmFrames DEF ResultsAreLast
<1>3. ASSUME NEW c \in Callers, \/ c \in Terminals /\ WriteStart(c)
                                \/ c \in Requests /\ AskGivesUp(c)
                                \/ Budget(c) \/ StallsInSend(c) \/ SendSeesDone(c) \/ SendReturns(c)
      PROVE  WireInv'
  <2>1. Calm /\ CreatedOnce' /\ created' = created
    BY <1>3, CallersAlone, CreatedBySenders
  <2>2. (\A r \in Requests : HasResult(r)' => HasResult(r)) /\ NoSequenceGap'
    BY <1>3, ResultsMove
  <2>. QED
    BY <1>2, <2>1, <2>2, CalmOrder
<1>4. ASSUME NEW r \in Requests, AskStart(r) PROVE WireInv'
  <2>1. Calm /\ CreatedOnce' /\ created' = created
    BY <1>0, <1>4, CallersAlone, CreatedByAsk
  <2>2. (\A q \in Requests : HasResult(q)' => HasResult(q)) /\ NoSequenceGap'
    BY <1>4, ResultsMove
  <2>. QED
    BY <1>2, <2>1, <2>2, CalmOrder
<1>5. ASSUME NEW r \in Requests, AskAnswered(r) PROVE WireInv'
  <2>1. Calm /\ CreatedOnce' /\ ChunksInOrder'
    BY <1>0, <1>5, CallersAlone, CreatedByAnswer
  <2>2. (\A q \in Requests : HasResult(q)' => HasResult(q)) /\ NoSequenceGap'
    BY <1>5, ResultsMove
  <2>. QED
    BY <1>2, <2>1, <2>2
<1>6. CASE SeesDeath \/ FailAnswers \/ Dies \/ ReadReply \/ UNCHANGED workerVars
  <2>1. Calm /\ call' = call /\ ask' = ask /\ chunks' = chunks /\ created' = created
    BY <1>6, LoopsAlone
  <2>2. CreatedOnce'
    BY <1>0, <2>1, CreatedStays DEF CreatedOnce
  <2>3. (\A q \in Requests : HasResult(q)' => HasResult(q)) /\ NoSequenceGap'
    BY <1>6, ResultsMove
  <2>. QED
    BY <1>2, <2>1, <2>2, <2>3, CalmOrder
<1>7. ASSUME NEW c \in Callers, Enqueue(c) PROVE WireInv'
  <2>1. NoSequenceGap'
    BY <1>7, ResultsMove
  <2>. QED
    BY <1>1, <1>7, <2>1, EnqueueKeeps
<1>8. CASE TakeRequest
  <2>1. NoSequenceGap'
    BY <1>8, ResultsMove
  <2>. QED
    BY <1>1, <1>8, <2>1, TakeKeeps
<1>9. CASE FrameWritten \/ WriteFails
  <2>1. NoSequenceGap'
    BY <1>9, ResultsMove
  <2>. QED
    BY <1>1, <1>9, <2>1, WriteKeeps
<1>10. CASE Handle
  BY <1>1, <1>10, HandleKeeps
<1>. QED
  BY <1>0, <1>3, <1>4, <1>5, <1>6, <1>7, <1>8, <1>9, <1>10 DEF WorkerNext, CallerStep, ClientLoops

\* The worker never meets a gap in the sequence of a session, for any number of
\* terminals and requests and any sizes of the queue and the pipe.
THEOREM ChunksHaveNoGap ==
  ASSUME WorkerBounds
  PROVE  WorkerSpec => []NoSequenceGap
<1>1. WorkerInit => WireInv
  BY WorkerStart
<1>2. WireInv /\ [WorkerNext]_workerVars => WireInv'
  BY WorkerKeeps
<1>3. WireInv => NoSequenceGap
  BY DEF WireInv
<1>. QED
  BY <1>1, <1>2, <1>3, PTL DEF WorkerSpec

-----------------------------------------------------------------------------
(* The books of the client                                                 *)

\* The three places where a chunk counts against the budget.
Admitted     == {t \in Terminals : CallAt(t, "enqueue")}
QueuedChunks == {i \in DOMAIN queue : queue[i].op = "write"}
Held         == IF writing # NoWrite /\ writing.id \in Terminals THEN 1 ELSE 0

\* An answered or a fresh request has no result waiting where a waiter would find it.
OneAnswer ==
    \A r \in Requests : /\ Len(mailbox[r]) <= 1
                        /\ r \in waiters \/ call[r] = "idle" => mailbox[r] = <<>>
\* The queue, the pipe and the budget are within their limits.
Room == Len(queue) <= QueueSlots /\ Len(pipe) <= PipeLimit /\ queuedBytes \in 0..WriterQueueLimit
\* The inductive invariant of the books.
BookInv == WireInv /\ Room /\ BudgetExact /\ OneAnswer /\ NoWaiterLeak

\* The chunks that count are finitely many.
LEMMA Counted ==
  ASSUME WorkerBounds, WireTypes
  PROVE  /\ IsFiniteSet(Admitted) /\ Cardinality(Admitted) \in Nat
         /\ IsFiniteSet(QueuedChunks) /\ Cardinality(QueuedChunks) \in Nat
         /\ Held \in {0, 1}
<1>1. IsFiniteSet(Admitted)
  BY FS_Subset DEF Admitted, WorkerBounds
<1>2. IsFiniteSet(DOMAIN queue)
  <2>1. Len(queue) \in Nat /\ DOMAIN queue = 1..Len(queue)
    BY DEF WireTypes
  <2>. QED
    BY <2>1, FS_Interval
<1>3. IsFiniteSet(QueuedChunks)
  BY <1>2, FS_Subset DEF QueuedChunks
<1>. QED
  BY <1>1, <1>3, FS_CardinalityType DEF Held

\* The chunks behind the front of the queue are as many as there were, less the front.
LEMMA TakenChunk ==
  ASSUME WorkerBounds, WireTypes, TakeRequest
  PROVE  /\ Cardinality(QueuedChunks)' = Cardinality(QueuedChunks)
                                         - (IF Head(queue).op = "write" THEN 1 ELSE 0)
<1>1. /\ queue # <<>> /\ queue' = Tail(queue) /\ Head(queue) = queue[1] /\ 1 \in DOMAIN queue
      /\ Len(queue) \in Nat \ {0} /\ DOMAIN queue = 1..Len(queue) /\ DOMAIN queue' = 1..(Len(queue) - 1)
      /\ \A i \in 1..(Len(queue) - 1) : queue'[i] = queue[i + 1]
  BY Shorter DEF TakeRequest, WireTypes
<1>2. PICK A, B : A = QueuedChunks /\ B = QueuedChunks'
  OBVIOUS
<1>3. IsFiniteSet(A) /\ Cardinality(A) \in Nat
  BY <1>2, Counted
<1>4. IsFiniteSet(A \ {1})
      /\ Cardinality(A \ {1}) = IF Head(queue).op = "write" THEN Cardinality(A) - 1 ELSE Cardinality(A)
  <2>1. 1 \in A <=> Head(queue).op = "write"
    BY <1>1, <1>2 DEF QueuedChunks
  <2>. QED
    BY <1>3, <2>1, FS_RemoveElement
<1>5. ExistsBijection(A \ {1}, B)
  <2>. DEFINE back == [i \in A \ {1} |-> i - 1]
  <2>1. \A i : i \in B <=> i \in 1..(Len(queue) - 1) /\ queue[i + 1].op = "write"
    BY <1>1, <1>2 DEF QueuedChunks
  <2>2. \A i : i \in A \ {1} <=> i \in 1..Len(queue) /\ i # 1 /\ queue[i].op = "write"
    BY <1>1, <1>2 DEF QueuedChunks
  <2>3. \A i \in A \ {1} : i - 1 \in B
    BY <1>1, <2>1, <2>2
  <2>4. \A i \in B : i + 1 \in A \ {1} /\ back[i + 1] = i
    BY <1>1, <2>1, <2>2
  <2>5. \A i, j \in A \ {1} : back[i] = back[j] => i = j
    BY <1>1, <2>2
  <2>6. back \in Bijection(A \ {1}, B)
    <3>1. back \in [A \ {1} -> B]
      BY <2>3
    <3>2. \A i \in B : \E j \in A \ {1} : back[j] = i
      BY <2>4
    <3>. HIDE DEF back
    <3>. QED
      BY <2>5, <3>1, <3>2 DEF Bijection, Injection, Surjection, IsInjective
  <2>. HIDE DEF back
  <2>. QED
    BY <2>6 DEF ExistsBijection
<1>6. Cardinality(B) = Cardinality(A \ {1})
  BY <1>4, <1>5, FS_Bijection
<1>. QED
  BY <1>2, <1>3, <1>4, <1>6

\* The budget is right after every step.
LEMMA BudgetKept ==
  ASSUME WorkerBounds, WireTypes, FramesFit, BudgetExact, queuedBytes \in Int, [WorkerNext]_workerVars
  PROVE  BudgetExact'
<1>. USE DEF callers, answers, remote, CallAt, CallGoes, GivesUp
<1>0. /\ DOMAIN call = Callers /\ Terminals \subseteq Callers /\ Requests \subseteq Callers
      /\ Terminals \cap Requests = {} /\ NoWrite \notin Frames
      /\ queuedBytes = Cardinality(Admitted) + Cardinality(QueuedChunks) + Held
  BY DEF WireTypes, Callers, WorkerBounds, BudgetExact, Admitted, QueuedChunks, Held
<1>1. PICK a, q, h : a = Cardinality(Admitted) /\ q = Cardinality(QueuedChunks) /\ h = Held
  OBVIOUS
<1>2. a \in Nat /\ q \in Nat /\ h \in {0, 1} /\ IsFiniteSet(Admitted) /\ IsFiniteSet(QueuedChunks)
  BY <1>1, Counted
<1>3. ASSUME queuedBytes' = Cardinality(Admitted)' + Cardinality(QueuedChunks)' + Held'
      PROVE  BudgetExact'
  BY <1>3 DEF BudgetExact, Admitted, QueuedChunks, Held
<1>4. ASSUME UNCHANGED <<queuedBytes, queue, writing>>,
             \A t \in Terminals : call'[t] = "enqueue" <=> call[t] = "enqueue"
      PROVE  BudgetExact'
  <2>1. Admitted' = Admitted /\ QueuedChunks' = QueuedChunks /\ Held' = Held
    BY <1>4 DEF Admitted, QueuedChunks, Held
  <2>. QED
    BY <1>0, <1>3, <1>4, <2>1
<1>5. ASSUME NEW t \in Terminals, WriteStart(t) PROVE BudgetExact'
  BY <1>0, <1>4, <1>5 DEF WriteStart, writer
<1>6. ASSUME NEW r \in Requests, AskStart(r) \/ AskAnswered(r) \/ AskGivesUp(r) PROVE BudgetExact'
  BY <1>0, <1>4, <1>6 DEF AskStart, AskAnswered, AskGivesUp, writer
<1>7. ASSUME NEW c \in Callers, SendReturns(c) PROVE BudgetExact'
  BY <1>0, <1>4, <1>7 DEF SendReturns
<1>8. CASE Handle \/ Dies \/ ReadReply \/ SeesDeath \/ FailAnswers \/ UNCHANGED workerVars
  BY <1>4, <1>8 DEF Handle, Dies, ReadReply, SeesDeath, FailAnswers, workerVars, writer
<1>9. ASSUME NEW c \in Callers, Budget(c) PROVE BudgetExact'
  <2>1. UNCHANGED <<queue, writing>> /\ queuedBytes' = queuedBytes + Size(c)
        /\ call[c] = "budget" /\ call' = [call EXCEPT ![c] = "enqueue"]
    BY <1>9 DEF Budget
  <2>2. QueuedChunks' = QueuedChunks /\ Held' = Held
    BY <2>1 DEF QueuedChunks, Held
  <2>3. CASE c \in Terminals
    <3>1. Admitted' = Admitted \union {c} /\ c \notin Admitted
      BY <1>0, <2>1, <2>3 DEF Admitted
    <3>2. Cardinality(Admitted)' = a + 1
      BY <1>1, <1>2, <3>1, FS_AddElement
    <3>. QED
      BY <1>0, <1>1, <1>2, <1>3, <2>1, <2>2, <2>3, <3>2 DEF Size
  <2>4. CASE c \notin Terminals
    BY <1>0, <1>4, <2>1, <2>4 DEF Size
  <2>. QED
    BY <2>3, <2>4
<1>10. ASSUME NEW c \in Callers, StallsInSend(c) \/ SendSeesDone(c) PROVE BudgetExact'
  <2>1. /\ UNCHANGED <<queue, writing>> /\ call' = [call EXCEPT ![c] = IF c \in Terminals THEN "idle" ELSE "returned"]
        /\ queuedBytes' = IF call[c] = "enqueue" THEN queuedBytes - Size(c) ELSE queuedBytes
    BY <1>10 DEF StallsInSend, SendSeesDone
  <2>2. QueuedChunks' = QueuedChunks /\ Held' = Held
    BY <2>1 DEF QueuedChunks, Held
  <2>3. CASE c \in Terminals /\ call[c] = "enqueue"
    <3>1. Admitted' = Admitted \ {c} /\ c \in Admitted
      BY <1>0, <2>1, <2>3 DEF Admitted
    <3>2. Cardinality(Admitted)' = a - 1
      BY <1>1, <1>2, <3>1, FS_RemoveElement
    <3>. QED
      BY <1>0, <1>1, <1>2, <1>3, <2>1, <2>2, <2>3, <3>2 DEF Size
  <2>4. CASE ~(c \in Terminals /\ call[c] = "enqueue")
    <3>1. queuedBytes' = queuedBytes
      BY <2>1, <2>4 DEF Size
    <3>2. \A t \in Terminals : call'[t] = "enqueue" <=> call[t] = "enqueue"
      BY <1>0, <2>1, <2>4
    <3>. QED
      BY <1>4, <2>1, <3>1, <3>2
  <2>. QED
    BY <2>3, <2>4
<1>11. ASSUME NEW c \in Callers, Enqueue(c) PROVE BudgetExact'
  <2>1. PICK f : f = Frame(c)
    OBVIOUS
  <2>2. f \in Frames /\ (f.op = "write" <=> c \in Terminals)
    BY <2>1, FramesOf
  <2>3. /\ queuedBytes' = queuedBytes /\ writing' = writing /\ queue' = Append(queue, f)
        /\ call[c] = "enqueue" /\ call' = [call EXCEPT ![c] = "queued"]
    BY <1>11, <2>1 DEF Enqueue
  <2>4. /\ Len(queue) \in Nat /\ DOMAIN queue = 1..Len(queue) /\ DOMAIN queue' = 1..(Len(queue) + 1)
        /\ queue'[Len(queue) + 1] = f /\ \A i \in 1..Len(queue) : queue'[i] = queue[i]
    BY <2>2, <2>3, Longer DEF WireTypes
  <2>5. Held' = Held
    BY <2>3 DEF Held
  <2>6. CASE c \in Terminals
    <3>1. Admitted' = Admitted \ {c} /\ c \in Admitted
      BY <1>0, <2>3, <2>6 DEF Admitted
    <3>2. QueuedChunks' = QueuedChunks \union {Len(queue) + 1} /\ Len(queue) + 1 \notin QueuedChunks
      BY <2>2, <2>4, <2>6 DEF QueuedChunks
    <3>3. Cardinality(Admitted)' = a - 1 /\ Cardinality(QueuedChunks)' = q + 1
      BY <1>1, <1>2, <3>1, <3>2, FS_RemoveElement, FS_AddElement
    <3>. QED
      BY <1>0, <1>1, <1>2, <1>3, <2>3, <2>5, <3>3
  <2>7. CASE c \notin Terminals
    <3>1. Admitted' = Admitted
      BY <1>0, <2>3, <2>7 DEF Admitted
    <3>2. QueuedChunks' = QueuedChunks
      BY <2>2, <2>4, <2>7 DEF QueuedChunks
    <3>. QED
      BY <1>0, <1>3, <2>3, <2>5, <3>1, <3>2
  <2>. QED
    BY <2>6, <2>7
<1>12. CASE TakeRequest
  <2>1. PICK f : f = Head(queue)
    OBVIOUS
  <2>2. /\ queuedBytes' = queuedBytes /\ writing = NoWrite /\ writing' = f /\ call' = call
        /\ f \in Frames /\ f = queue[1] /\ 1 \in DOMAIN queue
    BY <1>12, <2>1, Shorter DEF TakeRequest, WireTypes
  <2>3. f.id \in Terminals <=> f.op = "write"
    BY <1>0, <2>2 DEF FramesFit, FrameFits
  <2>4. Held = 0 /\ Held' = IF f.op = "write" THEN 1 ELSE 0
    BY <1>0, <2>2, <2>3 DEF Held
  <2>5. Cardinality(QueuedChunks)' = q - (IF f.op = "write" THEN 1 ELSE 0)
    BY <1>1, <1>12, <2>1, TakenChunk
  <2>6. Admitted' = Admitted
    BY <2>2 DEF Admitted
  <2>. QED
    BY <1>0, <1>1, <1>2, <1>3, <2>2, <2>4, <2>5, <2>6
<1>13. CASE FrameWritten \/ WriteFails
  <2>1. /\ writing # NoWrite /\ writing' = NoWrite /\ queue' = queue /\ call' = call
        /\ queuedBytes' = queuedBytes - Size(writing.id)
    BY <1>13 DEF FrameWritten, WriteFails, WriteReturns
  <2>2. Held = Size(writing.id) /\ Held' = 0 /\ Held \in {0, 1}
    BY <2>1 DEF Held, Size
  <2>3. Admitted' = Admitted /\ QueuedChunks' = QueuedChunks
    BY <2>1 DEF Admitted, QueuedChunks
  <2>. QED
    BY <1>0, <1>1, <1>2, <1>3, <2>1, <2>2, <2>3
<1>. QED
  BY <1>5, <1>6, <1>7, <1>8, <1>9, <1>10, <1>11, <1>12, <1>13 DEF WorkerNext, CallerStep, ClientLoops

\* The limits are kept: what the budget admits it has room for.
LEMMA RoomKept ==
  ASSUME WorkerBounds, WireTypes, Room, BudgetExact', WireTypes', [WorkerNext]_workerVars
  PROVE  Room'
<1>. USE DEF callers, answers, remote
<1>1. /\ Len(queue) \in Nat /\ Len(pipe) \in Nat /\ queuedBytes \in Int
      /\ QueueSlots \in Nat /\ PipeLimit \in Nat /\ WriterQueueLimit \in Nat
      /\ \A c : Size(c) \in {0, 1}
  BY DEF WireTypes, Room, WorkerBounds, Size
<1>2. Len(queue') <= QueueSlots
  <2>1. ASSUME NEW c \in Callers, Enqueue(c) PROVE Len(queue') = Len(queue) + 1 /\ Len(queue) < QueueSlots
    <3>1. Frame(c) \in Frames
      BY FramesOf
    <3>. QED
      BY <2>1, <3>1, Longer DEF Enqueue, WireTypes
  <2>2. CASE TakeRequest
    <3>1. Len(queue') = Len(queue) - 1
      BY <2>2, Shorter DEF TakeRequest, WireTypes
    <3>. QED
      BY <1>1, <3>1 DEF Room
  <2>3. queue' = queue \/ (\E c \in Callers : Enqueue(c)) \/ TakeRequest
    BY DEF WorkerNext, CallerStep, ClientLoops, WriteStart, AskStart, AskAnswered, AskGivesUp, Budget,
       StallsInSend, SendSeesDone, SendReturns, FrameWritten, WriteFails, WriteReturns, FailAnswers,
       Handle, Dies, ReadReply, SeesDeath, workerVars, writer
  <2>. QED
    BY <1>1, <2>1, <2>2, <2>3 DEF Room
<1>3. Len(pipe') <= PipeLimit
  <2>1. CASE FrameWritten
    <3>1. writing \in Frames
      BY <2>1 DEF FrameWritten, WriteReturns, WireTypes
    <3>2. Len(pipe') = Len(pipe) + 1 /\ Len(pipe) < PipeLimit
      BY <2>1, <3>1, Longer DEF FrameWritten, WireTypes
    <3>. QED
      BY <1>1, <3>2
  <2>2. CASE Handle
    <3>1. Len(pipe') = Len(pipe) - 1
      BY <2>2, Shorter DEF Handle, WireTypes
    <3>. QED
      BY <1>1, <3>1 DEF Room
  <2>3. pipe' = pipe \/ FrameWritten \/ Handle
    BY DEF WorkerNext, CallerStep, ClientLoops, WriteStart, AskStart, AskAnswered, AskGivesUp, Budget,
       StallsInSend, SendSeesDone, SendReturns, TakeRequest, WriteFails, FailAnswers, Enqueue,
       Dies, ReadReply, SeesDeath, workerVars, writer
  <2>. QED
    BY <2>1, <2>2, <2>3 DEF Room
<1>4. /\ queuedBytes' \in Int
      /\ \/ queuedBytes' <= queuedBytes
         \/ \E c \in Callers : /\ queuedBytes' = queuedBytes + Size(c)
                              /\ queuedBytes + Size(c) <= WriterQueueLimit
  <2>1. ASSUME NEW c \in Callers, Budget(c)
        PROVE  queuedBytes' = queuedBytes + Size(c) /\ queuedBytes + Size(c) <= WriterQueueLimit
    BY <2>1 DEF Budget
  <2>2. ASSUME NEW c \in Callers, StallsInSend(c) \/ SendSeesDone(c)
        PROVE  queuedBytes' = queuedBytes \/ queuedBytes' = queuedBytes - Size(c)
    BY <2>2 DEF StallsInSend, SendSeesDone
  <2>3. ASSUME FrameWritten \/ WriteFails PROVE queuedBytes' = queuedBytes - Size(writing.id)
    BY <2>3 DEF FrameWritten, WriteFails, WriteReturns
  <2>4. \/ queuedBytes' = queuedBytes \/ FrameWritten \/ WriteFails
        \/ \E c \in Callers : Budget(c) \/ StallsInSend(c) \/ SendSeesDone(c)
    BY DEF WorkerNext, CallerStep, ClientLoops, WriteStart, AskStart, AskAnswered, AskGivesUp, Enqueue,
       SendReturns, TakeRequest, FailAnswers, Handle, Dies, ReadReply, SeesDeath, workerVars, writer
  <2>. QED
    BY <1>1, <2>1, <2>2, <2>3, <2>4
<1>5. queuedBytes' >= 0
  <2>1. queuedBytes' = Cardinality(Admitted)' + Cardinality(QueuedChunks)' + Held'
    BY DEF BudgetExact, Admitted, QueuedChunks, Held
  <2>2. IsFiniteSet(Admitted')
    BY FS_Subset DEF Admitted, WorkerBounds
  <2>3. IsFiniteSet(DOMAIN queue')
    <3>1. Len(queue') \in Nat /\ DOMAIN queue' = 1..Len(queue')
      BY DEF WireTypes
    <3>. QED
      BY <3>1, FS_Interval
  <2>4. IsFiniteSet(QueuedChunks')
    BY <2>3, FS_Subset DEF QueuedChunks
  <2>5. Cardinality(Admitted)' \in Nat /\ Cardinality(QueuedChunks)' \in Nat /\ Held' \in {0, 1}
    BY <2>2, <2>4, FS_CardinalityType DEF Held
  <2>. QED
    BY <2>1, <2>5
<1>. QED
  BY <1>1, <1>2, <1>3, <1>4, <1>5 DEF Room

\* A waiter has no result yet, and leaves the map with the first.
LEMMA AnswersKept ==
  ASSUME WorkerBounds, WireTypes, OneAnswer, NoWaiterLeak, [WorkerNext]_workerVars
  PROVE  OneAnswer' /\ NoWaiterLeak'
<1>. USE DEF callers, CallAt, CallGoes, GivesUp
<1>0. /\ DOMAIN call = Callers /\ Terminals \subseteq Callers /\ Requests \subseteq Callers
      /\ Terminals \cap Requests = {} /\ waiters \subseteq Requests /\ DOMAIN mailbox = Requests
      /\ \A r \in Requests : mailbox[r] \in Seq({"result", "error"})
  BY DEF WireTypes, Callers, WorkerBounds
<1>1. ASSUME mailbox' = mailbox, waiters' = waiters,
             \A r \in Requests : call'[r] = "idle" <=> call[r] = "idle",
             \A r \in waiters : call'[r] # "returned"
      PROVE  OneAnswer' /\ NoWaiterLeak'
  BY <1>0, <1>1 DEF OneAnswer, NoWaiterLeak
<1>2. ASSUME NEW t \in Terminals, WriteStart(t) PROVE OneAnswer' /\ NoWaiterLeak'
  BY <1>0, <1>1, <1>2 DEF WriteStart, answers, NoWaiterLeak
<1>3. ASSUME NEW r \in Requests, AskStart(r) PROVE OneAnswer' /\ NoWaiterLeak'
  <2>1. /\ call[r] = "idle" /\ mailbox' = mailbox
        /\ \/ waiters' = waiters \union {r} /\ call' = [call EXCEPT ![r] = "budget"]
           \/ waiters' = waiters /\ call' = [call EXCEPT ![r] = "returned"]
    BY <1>3 DEF AskStart
  <2>2. r \notin waiters
    BY <2>1 DEF NoWaiterLeak
  <2>. QED
    BY <1>0, <2>1, <2>2 DEF OneAnswer, NoWaiterLeak
<1>4. ASSUME NEW c \in Callers, Budget(c) \/ Enqueue(c) PROVE OneAnswer' /\ NoWaiterLeak'
  <2>1. /\ mailbox' = mailbox /\ waiters' = waiters /\ call[c] \in {"budget", "enqueue"}
        /\ call' = [call EXCEPT ![c] = "enqueue"] \/ call' = [call EXCEPT ![c] = "queued"]
    BY <1>4 DEF Budget, Enqueue, answers
  <2>. QED
    BY <1>0, <2>1 DEF OneAnswer, NoWaiterLeak
<1>5. ASSUME NEW c \in Callers, StallsInSend(c) \/ SendSeesDone(c) \/ SendReturns(c) \/ AskGivesUp(c)
      PROVE  OneAnswer' /\ NoWaiterLeak'
  <2>1. /\ mailbox' = mailbox /\ call[c] # "idle"
        /\ \/ waiters' = waiters \ {c} /\ call' = [call EXCEPT ![c] = "returned"]
           \/ waiters' = waiters /\ call' = [call EXCEPT ![c] = "await"]
           \/ /\ waiters' \in {waiters, waiters \ {c}} /\ c \in Terminals
              /\ call' = [call EXCEPT ![c] = "idle"]
    BY <1>5 DEF StallsInSend, SendSeesDone, SendReturns, AskGivesUp
  <2>. QED
    BY <1>0, <2>1 DEF OneAnswer, NoWaiterLeak
<1>6. CASE TakeRequest \/ FrameWritten \/ WriteFails \/ Handle \/ Dies \/ SeesDeath \/ UNCHANGED workerVars
  <2>1. mailbox' = mailbox /\ waiters' = waiters /\ call' = call
    BY <1>6 DEF TakeRequest, FrameWritten, WriteFails, WriteReturns, Handle, Dies, SeesDeath, workerVars,
       answers
  <2>. QED
    BY <1>1, <2>1 DEF NoWaiterLeak
<1>7. CASE FailAnswers
  <2>1. /\ waiters' = {} /\ call' = call
        /\ mailbox' = [r \in Requests |->
                          IF r \in waiters THEN Append(mailbox[r], "error") ELSE mailbox[r]]
    BY <1>7 DEF FailAnswers
  <2>2. ASSUME NEW r \in Requests, r \in waiters PROVE Len(mailbox'[r]) = 1 /\ call[r] # "idle"
    <3>1. mailbox[r] = <<>> /\ mailbox'[r] = Append(<<>>, "error")
      BY <2>1, <2>2 DEF OneAnswer
    <3>. QED
      BY <2>2, <3>1 DEF NoWaiterLeak
  <2>3. ASSUME NEW r \in Requests, r \notin waiters PROVE mailbox'[r] = mailbox[r]
    BY <2>1, <2>3
  <2>. QED
    BY <2>1, <2>2, <2>3 DEF OneAnswer, NoWaiterLeak
<1>8. CASE ReadReply
  <2>1. PICK a : a = Head(replies)
    OBVIOUS
  <2>2. \/ waiters' = waiters /\ mailbox' = mailbox
        \/ /\ waiters' = waiters \ {a.id}
           /\ mailbox' = IF a.id \in waiters THEN [mailbox EXCEPT ![a.id] = Append(@, a.kind)] ELSE mailbox
    BY <1>8, <2>1 DEF ReadReply, answers
  <2>3. call' = call
    BY <1>8 DEF ReadReply
  <2>4. CASE a.id \notin waiters
    BY <1>0, <1>1, <2>2, <2>3, <2>4 DEF NoWaiterLeak
  <2>5. CASE waiters' = waiters /\ mailbox' = mailbox
    BY <1>1, <2>3, <2>5 DEF NoWaiterLeak
  <2>6. CASE a.id \in waiters /\ waiters' = waiters \ {a.id}
             /\ mailbox' = [mailbox EXCEPT ![a.id] = Append(@, a.kind)]
    <3>1. mailbox[a.id] = <<>> /\ a.id \in Requests /\ call[a.id] # "idle"
      BY <1>0, <2>6 DEF OneAnswer, NoWaiterLeak
    <3>2. mailbox'[a.id] = Append(<<>>, a.kind)
      BY <1>0, <2>6, <3>1
    <3>3. Len(mailbox'[a.id]) = 1
      BY <3>2
    <3>4. \A r \in Requests \ {a.id} : mailbox'[r] = mailbox[r]
      BY <1>0, <2>6
    <3>. QED
      BY <2>3, <2>6, <3>1, <3>3, <3>4 DEF OneAnswer, NoWaiterLeak
  <2>. QED
    BY <2>2, <2>4, <2>5, <2>6
<1>9. ASSUME NEW r \in Requests, AskAnswered(r) PROVE OneAnswer' /\ NoWaiterLeak'
  <2>1. /\ call[r] = "await" /\ mailbox[r] # <<>> /\ mailbox' = [mailbox EXCEPT ![r] = Tail(@)]
        /\ call' = [call EXCEPT ![r] = "returned"] /\ waiters' = waiters
    BY <1>9 DEF AskAnswered
  <2>2. r \notin waiters
    BY <2>1 DEF OneAnswer
  <2>3. Len(mailbox'[r]) <= 1
    <3>1. PICK s : s = mailbox[r]
      OBVIOUS
    <3>2. s \in Seq({"result", "error"}) /\ s # <<>> /\ Len(s) <= 1 /\ mailbox'[r] = Tail(s)
      BY <1>0, <2>1, <3>1 DEF OneAnswer
    <3>3. Len(s) \in Nat /\ Len(Tail(s)) = Len(s) - 1
      BY <3>2, Shorter
    <3>. QED
      BY <3>2, <3>3
  <2>4. \A q \in Requests \ {r} : mailbox'[q] = mailbox[q] /\ call'[q] = call[q]
    BY <1>0, <2>1
  <2>5. call'[r] = "returned"
    BY <1>0, <2>1
  <2>. QED
    BY <1>0, <2>1, <2>2, <2>3, <2>4, <2>5 DEF OneAnswer, NoWaiterLeak
<1>. QED
  BY <1>0, <1>2, <1>3, <1>4, <1>5, <1>6, <1>7, <1>8, <1>9 DEF WorkerNext, CallerStep, ClientLoops

\* The books of the client are exact, for any number of terminals and requests and
\* any sizes of the budget, the queue and the pipe.
THEOREM BooksAreExact ==
  ASSUME WorkerBounds
  PROVE  WorkerSpec => []AnswersExact
<1>1. ASSUME WorkerInit PROVE BookInv
  <2>1. WireInv
    BY <1>1, WorkerStart
  <2>2. Room
    BY <1>1 DEF WorkerInit, Room, WorkerBounds
  <2>3. BudgetExact
    <3>1. Admitted = {} /\ QueuedChunks = {} /\ Held = 0
      BY <1>1 DEF WorkerInit, Admitted, QueuedChunks, Held, CallAt, Callers
    <3>2. queuedBytes = Cardinality(Admitted) + Cardinality(QueuedChunks) + Held
      BY <1>1, <3>1, FS_EmptySet DEF WorkerInit
    <3>. QED
      BY <3>2 DEF BudgetExact, Admitted, QueuedChunks, Held
  <2>4. OneAnswer /\ NoWaiterLeak
    BY <1>1 DEF WorkerInit, OneAnswer, NoWaiterLeak
  <2>. QED
    BY <2>1, <2>2, <2>3, <2>4 DEF BookInv
<1>2. ASSUME BookInv, [WorkerNext]_workerVars PROVE BookInv'
  <2>1. WireInv' /\ WireTypes /\ WireTypes' /\ FramesFit
    BY <1>2, WorkerKeeps DEF BookInv, WireInv
  <2>2. queuedBytes \in Int
    BY <1>2 DEF BookInv, Room
  <2>3. BudgetExact'
    BY <1>2, <2>1, <2>2, BudgetKept DEF BookInv
  <2>4. Room'
    BY <1>2, <2>1, <2>3, RoomKept DEF BookInv
  <2>5. OneAnswer' /\ NoWaiterLeak'
    BY <1>2, <2>1, AnswersKept DEF BookInv
  <2>. QED
    BY <2>1, <2>3, <2>4, <2>5 DEF BookInv
<1>3. ASSUME BookInv PROVE AnswersExact
  <2>1. WorkerTypeOK
    BY <1>3 DEF BookInv, WireInv, WireTypes, Room, WorkerTypeOK
  <2>. QED
    BY <1>3, <2>1 DEF BookInv, AnswersExact, OneAnswer, OneResult
<1>. QED
  BY <1>1, <1>2, <1>3, PTL DEF WorkerSpec
=============================================================================
