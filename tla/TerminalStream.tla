--------------------------- MODULE TerminalStream ---------------------------
(***************************************************************************)
(* The WebSocket clients of one terminal session: the handler of           *)
(* src/backend/internal/server/websocket.go over the attachments of        *)
(* src/backend/internal/terminal (attach.go, input.go, manager.go).        *)
(*                                                                         *)
(* Every action is one critical section of session.mu or of Client.mu.     *)
(* attach holds session.mu while it asks the worker for a snapshot, so     *)
(* the answer covers the output broadcast so far and is one step.          *)
(***************************************************************************)
EXTENDS Integers, Sequences, FiniteSets

CONSTANTS Clients,      \* WebSocket connections; each has one Client object
          Observers,    \* connections with ?role=observer
          ClientLimit,  \* cfg.MaxClientsPerConnectionInstance
          QueueLimit,   \* capacity of Client.messages (256 in the code)
          ByteLimit,    \* counted messages a client may lag (4 MiB in the code)
          MaxSeq,       \* bound: output chunks and resizes
          MaxExtra,     \* bound: pings, metadata updates and failing attaches
          NoClient      \* a nil controlOwner

Bounds ==
    /\ Observers \subseteq Clients /\ NoClient \notin Clients /\ IsFiniteSet(Clients)
    /\ ClientLimit \in Nat \ {0} /\ ByteLimit \in Nat
    /\ QueueLimit \in Nat \ 0..2           \* the greeting, three messages, fits
    /\ MaxSeq \in Nat /\ MaxExtra \in Nat

VARIABLES
    conn,          \* progress of each connection's handler
    reservations,  \* Session.reservations
    clients,       \* Session.clients
    owner,         \* Session.controlOwner
    dead,          \* Client objects that are closed
    stage,         \* "open", "closed", "retired" or "unmapped"
    worker,        \* the worker still has the session
    seq,           \* Session.sequence
    resized,       \* the sequence numbers that were resizes
    stream,        \* every message put into Client.messages, delivered or not, while
                   \* the connection lasts
    read,          \* how many of them the writer goroutine has taken
    queued,        \* Client.queued
    granted,       \* ghost: connections whose reservation is neither used nor released
    failed,        \* ghost: attaches that failed after they took their reservation
    extra

vars == <<conn, reservations, clients, owner, dead, stage, worker, seq, resized,
          stream, read, queued, granted, failed, extra>>
session  == <<reservations, clients, owner, dead, granted>>
terminal == <<stage, worker, seq, resized>>
queues   == <<stream, read, queued>>

Message == [type : {"snapshot", "stored", "meta", "ready", "terminated", "output", "pong"},
            seq : 0..MaxSeq]
ConnStates == {"idle", "reserved", "looked", "failed", "attached", "closing", "gone"}

TypeOK ==
    /\ conn \in [Clients -> ConnStates]
    /\ reservations \in 0..ClientLimit
    /\ clients \subseteq Clients /\ dead \subseteq Clients /\ granted \subseteq Clients
    /\ owner \in Clients \union {NoClient}
    /\ stage \in {"open", "closed", "retired", "unmapped"} /\ worker \in BOOLEAN
    /\ seq \in 0..MaxSeq /\ resized \subseteq 1..seq
    /\ stream \in [Clients -> Seq(Message)]
    /\ read \in [Clients -> Nat] /\ \A c \in Clients : read[c] <= Len(stream[c])
    /\ queued \in [Clients -> 0..ByteLimit]
    /\ extra \in 0..MaxExtra /\ failed \in BOOLEAN

Init ==
    /\ conn = [c \in Clients |-> "idle"]
    /\ reservations = 0 /\ clients = {} /\ owner = NoClient /\ dead = {}
    /\ stage = "open" /\ worker = TRUE /\ seq = 0 /\ resized = {}
    /\ stream = [c \in Clients |-> <<>>]
    /\ read = [c \in Clients |-> 0] /\ queued = [c \in Clients |-> 0]
    /\ granted = {} /\ failed = FALSE /\ extra = 0

Mapped == stage # "unmapped"
Closed == stage # "open"
Goto(c, state) == conn' = [conn EXCEPT ![c] = state]
Extra == extra < MaxExtra /\ extra' = extra + 1
Msg(type, n) == [type |-> type, seq |-> n]
Backlog(c) == Len(stream[c]) - read[c]

-----------------------------------------------------------------------------
(* Client.enqueue and the broadcast                                        *)

\* enqueue accepts a message unless the channel is full or, for a counted
\* message, the client lags more than its byte budget.
Fits(c, count) == Backlog(c) < QueueLimit /\ (count => queued[c] < ByteLimit)

\* broadcastMessageLocked: a client that does not take the message is closed as
\* slow (1013) and leaves Session.clients; one closed before only leaves it.
Broadcast(msg) ==
    LET reached == {c \in clients \ dead : Fits(c, TRUE)} IN
    /\ stream' = [c \in Clients |-> IF c \in reached THEN Append(stream[c], msg) ELSE stream[c]]
    /\ queued' = [c \in Clients |-> IF c \in reached THEN queued[c] + 1 ELSE queued[c]]
    /\ dead' = dead \union (clients \ reached)
    /\ clients' = reached
    /\ UNCHANGED read

\* The writer goroutine takes the next message and reports it as consumed; the
\* size of a message that was never counted is subtracted as well.
Deliver(c) ==
    /\ conn[c] = "attached" /\ Backlog(c) > 0
    /\ read' = [read EXCEPT ![c] = @ + 1]
    /\ queued' = [queued EXCEPT ![c] = IF @ = 0 THEN 0 ELSE @ - 1]
    /\ UNCHANGED <<conn, session, terminal, stream, failed, extra>>

-----------------------------------------------------------------------------
(* Reserve, attach, detach                                                 *)

\* reserveAttach, before the WebSocket handshake.
Reserve(c) ==
    /\ conn[c] = "idle" /\ Mapped
    /\ Cardinality(clients) + reservations < ClientLimit
    /\ reservations' = reservations + 1 /\ granted' = granted \union {c}
    /\ Goto(c, "reserved")
    /\ UNCHANGED <<clients, owner, dead, terminal, queues, failed, extra>>

\* websocket.Accept fails: only the deferred release follows.
AcceptFails(c) ==
    /\ conn[c] = "reserved" /\ Goto(c, "failed")
    /\ UNCHANGED <<session, terminal, queues, failed, extra>>

\* The deferred release of a handler that has not attached.
Release(c) ==
    /\ conn[c] = "failed" /\ Goto(c, "gone")
    /\ reservations' = IF Mapped /\ reservations > 0 THEN reservations - 1 ELSE reservations
    /\ granted' = granted \ {c}
    /\ UNCHANGED <<clients, owner, dead, terminal, queues, failed, extra>>

\* attach looks the session up before it takes session.mu.
AttachLookup(c) ==
    /\ conn[c] = "reserved"
    /\ Goto(c, IF Mapped THEN "looked" ELSE "failed")
    /\ UNCHANGED <<session, terminal, queues, failed, extra>>

\* A failed attach gave its reservation away: reservations is 0.
AttachRefused(c) ==
    /\ conn[c] = "looked" /\ reservations = 0
    /\ Goto(c, "failed")
    /\ UNCHANGED <<session, terminal, queues, failed, extra>>

\* The worker does not answer and there is no stored snapshot: the reservation
\* is consumed, and the deferred release will take a second one.
AttachFails(c) ==
    /\ conn[c] = "looked" /\ reservations > 0
    /\ IF worker THEN Extra ELSE UNCHANGED extra
    /\ reservations' = reservations - 1 /\ granted' = granted \ {c}
    /\ failed' = TRUE /\ Goto(c, "failed")
    /\ UNCHANGED <<clients, owner, dead, terminal, queues>>

\* What attach enqueues, uncounted, before the client can receive a broadcast: a
\* snapshot, live or stored, that covers the output up to `n', and what is so now.
Greeting(type, n) ==
    <<Msg(type, n), Msg("meta", seq), Msg(IF Closed THEN "terminated" ELSE "ready", seq)>>

\* Mutant: the snapshot is the one of an earlier moment.
Attach_Stale(c) ==
    /\ conn[c] = "looked" /\ reservations > 0 /\ worker
    /\ reservations' = reservations - 1 /\ granted' = granted \ {c}
    /\ \E n \in 0..seq : stream' = [stream EXCEPT ![c] = Greeting("snapshot", n)]
    /\ clients' = clients \union {c} /\ Goto(c, "attached")
    /\ UNCHANGED <<owner, dead, terminal, read, queued, failed, extra>>

\* attachPendingMode under session.mu, on the session looked up before, which may
\* have been retired in between.
Attach(c) ==
    /\ conn[c] = "looked" /\ reservations > 0 /\ worker
    /\ reservations' = reservations - 1 /\ granted' = granted \ {c}
    /\ stream' = [stream EXCEPT ![c] = Greeting("snapshot", seq)]
    /\ clients' = clients \union {c} /\ Goto(c, "attached")
    /\ UNCHANGED <<owner, dead, terminal, read, queued, failed, extra>>

\* The worker does not answer, and the last snapshot the store holds is sent instead.
AttachFromStore(c) ==
    /\ conn[c] = "looked" /\ reservations > 0 /\ stage \in {"open", "closed"} /\ Extra
    /\ reservations' = reservations - 1 /\ granted' = granted \ {c}
    /\ \E n \in 0..seq : stream' = [stream EXCEPT ![c] = Greeting("stored", n)]
    /\ clients' = clients \union {c} /\ Goto(c, "attached")
    /\ UNCHANGED <<owner, dead, terminal, read, queued, failed>>

\* The read loop or the writer ends: the peer is gone, a command is not allowed, a
\* write fails, the enrollment changed, or Client.Done is closed.
Leave(c) ==
    /\ conn[c] = "attached" /\ Goto(c, "closing")
    /\ UNCHANGED <<session, terminal, queues, failed, extra>>

\* The Client object is garbage, with whatever was still in its channel.
Discard(c) ==
    /\ stream' = [stream EXCEPT ![c] = <<>>]
    /\ read' = [read EXCEPT ![c] = 0] /\ queued' = [queued EXCEPT ![c] = 0]

\* Mutant: the departing client stays control owner.
Detach_KeepsOwner(c) ==
    /\ conn[c] = "closing" /\ Goto(c, "gone")
    /\ Discard(c)
    /\ dead' = dead \union {c}
    /\ clients' = IF Mapped THEN clients \ {c} ELSE clients
    /\ UNCHANGED <<reservations, granted, owner, terminal, failed, extra>>

Detach(c) ==
    /\ conn[c] = "closing" /\ Goto(c, "gone")
    /\ Discard(c)
    /\ dead' = dead \union {c}
    /\ clients' = IF Mapped THEN clients \ {c} ELSE clients
    /\ owner' = IF Mapped /\ owner = c THEN NoClient ELSE owner
    /\ UNCHANGED <<reservations, granted, terminal, failed, extra>>

-----------------------------------------------------------------------------
(* Commands of an attached client                                          *)

ClaimControl(c) ==
    /\ conn[c] = "attached" /\ c \notin Observers /\ stage = "open"
    /\ c \in clients
    /\ owner' = c
    /\ UNCHANGED <<conn, reservations, clients, dead, granted, terminal, queues, failed, extra>>

\* A resize of the control owner takes a sequence number and is not broadcast.
Resize(c) ==
    /\ conn[c] = "attached" /\ owner = c /\ stage = "open" /\ seq < MaxSeq
    /\ seq' = seq + 1 /\ resized' = resized \union {seq + 1}
    /\ UNCHANGED <<conn, session, stage, worker, queues, failed, extra>>

\* A ping is answered past session.mu and uncounted; a full channel closes the
\* client, which stays in Session.clients until the next broadcast or its detach.
Ping(c) ==
    /\ conn[c] = "attached" /\ c \notin dead /\ Extra
    /\ IF Fits(c, FALSE)
       THEN stream' = [stream EXCEPT ![c] = Append(@, Msg("pong", 0))] /\ UNCHANGED dead
       ELSE dead' = dead \union {c} /\ UNCHANGED stream
    /\ UNCHANGED <<conn, reservations, clients, owner, granted, terminal, read, queued, failed>>

-----------------------------------------------------------------------------
(* Output, metadata and the end of the session                             *)

\* handleOutput: the worker and the clients get the same chunk in one critical
\* section.  The read loop may still run when the process has exited.
Output ==
    /\ stage \in {"open", "closed"} /\ worker /\ seq < MaxSeq
    /\ seq' = seq + 1
    /\ Broadcast(Msg("output", seq + 1))
    /\ UNCHANGED <<conn, reservations, owner, granted, stage, worker, resized, failed, extra>>

\* A title or a cwd changes: broadcastMetaLocked.
UpdateMeta ==
    /\ Mapped /\ Extra /\ clients # {}
    /\ Broadcast(Msg("meta", seq))
    /\ UNCHANGED <<conn, reservations, owner, granted, terminal, failed>>

\* waitLoop: closed is set and the end broadcast in one critical section.
ProcessExits ==
    /\ stage = "open" /\ stage' = "closed"
    /\ Broadcast(Msg("terminated", seq))
    /\ UNCHANGED <<conn, reservations, owner, granted, worker, seq, resized, failed, extra>>

\* terminateSession closes the clients, without a message.
Terminate ==
    /\ stage = "open" /\ stage' = "closed"
    /\ dead' = dead \union clients /\ clients' = {} /\ owner' = NoClient
    /\ UNCHANGED <<conn, reservations, granted, worker, seq, resized, queues, failed, extra>>

\* The last critical section of retireSession.
Retire ==
    /\ stage = "closed" /\ stage' = "retired"
    /\ dead' = dead \union clients /\ clients' = {} /\ owner' = NoClient
    /\ UNCHANGED <<conn, reservations, granted, worker, seq, resized, queues, failed, extra>>

Unmap ==
    /\ stage = "retired" /\ stage' = "unmapped"
    /\ UNCHANGED <<conn, session, worker, seq, resized, queues, failed, extra>>

\* worker.CloseSession, after the session has left the map.
CloseWorkerSession ==
    /\ stage = "unmapped" /\ worker /\ worker' = FALSE
    /\ UNCHANGED <<conn, session, stage, seq, resized, queues, failed, extra>>

ClientStep(c) ==
    \/ Reserve(c) \/ AcceptFails(c) \/ Release(c)
    \/ AttachLookup(c) \/ AttachRefused(c) \/ AttachFails(c)
    \/ Attach(c) \/ AttachFromStore(c)
    \/ Leave(c) \/ Detach(c) \/ Deliver(c)
    \/ ClaimControl(c) \/ Resize(c) \/ Ping(c)
Next ==
    \/ \E c \in Clients : ClientStep(c)
    \/ Output \/ UpdateMeta
    \/ ProcessExits \/ Terminate \/ Retire \/ Unmap \/ CloseWorkerSession

Spec == Init /\ [][Next]_vars

-----------------------------------------------------------------------------
(* Properties                                                              *)

\* No matter how reservations, attaches, failures and releases interleave, the
\* attached clients and the promised places never exceed the client limit.
WithinLimit == Cardinality(clients) + reservations <= ClientLimit

\* Until an attach fails after it took its reservation, every place in
\* `reservations' belongs to exactly one handler that has not attached yet:
\* none is leaked by a failed handshake and none is given back twice.
ReservationsExact == (~failed /\ Mapped) => reservations = Cardinality(granted)

\* What a client is shown has no hole and no repetition: an output chunk follows
\* a snapshot or a chunk after which nothing but resizes happened (attach.go holds
\* session.mu from the snapshot to the registration).  Only the first chunk after a
\* snapshot that came from the store may skip some.
NoGap ==
    \A c \in Clients : \A i \in DOMAIN stream[c] :
        stream[c][i].type = "output" =>
            \/ /\ stream[c][1].type = "stored"
               /\ \A j \in 1..(i - 1) : stream[c][j].type # "output"
            \/ \E j \in 1..(i - 1) :
                  /\ stream[c][j].type \in {"snapshot", "output"}
                  /\ stream[c][j].seq < stream[c][i].seq
                  /\ (stream[c][j].seq + 1)..(stream[c][i].seq - 1) \subseteq resized

\* A client that is attached and open has been sent every chunk up to now, unless
\* it was attached with a snapshot from the store.
UpToDate ==
    \A c \in clients \ dead :
        (seq \notin resized /\ stream[c][1].type # "stored") =>
            \E i \in DOMAIN stream[c] :
                stream[c][i].type \in {"snapshot", "output"} /\ stream[c][i].seq = seq

\* docs/api.md:176: the attach order is snapshot, meta, status, then live output,
\* also when broadcasts and pings race the attach.
AttachOrder ==
    \A c \in Clients : stream[c] # <<>> =>
        /\ stream[c][1].type \in {"snapshot", "stored"} /\ stream[c][2].type = "meta"
        /\ stream[c][3].type \in {"ready", "terminated"}

\* Whoever is attached to a session that has ended was told so or was closed, also
\* when the attach raced the exit or the retirement.
EndIsAnnounced ==
    Closed => \A c \in clients \ dead :
        \E i \in DOMAIN stream[c] : stream[c][i].type = "terminated"

\* The control owner always has a handler that is still going to detach it: no
\* order of a slow-client drop, a claim and a detach leaves control with a
\* connection that is gone.
OwnerIsConnected == owner # NoClient => conn[owner] \in {"attached", "closing"}

\* The messages waiting in a client's channel never exceed its capacity.
BacklogBounded == \A c \in Clients : Backlog(c) <= QueueLimit

\* The places and the control of a session: every place is counted once, and control
\* is with a connection that will give it back.
SessionSafe == TypeOK /\ WithinLimit /\ ReservationsExact /\ OwnerIsConnected /\ BacklogBounded

\* What each client has been sent is one coherent view of the screen, from the
\* greeting to the end, whatever is broadcast while it attaches.
ClientsInStep == AttachOrder /\ NoGap /\ UpToDate /\ EndIsAnnounced
=============================================================================
