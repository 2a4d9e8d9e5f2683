---------------------------- MODULE WorkerClient ----------------------------
(***************************************************************************)
(* The client of the terminal worker (src/backend/internal/worker) and the *)
(* worker process it talks to over two pipes                               *)
(* (src/terminal-worker/src/index.mjs).                                    *)
(*                                                                         *)
(* Two kinds of callers use it.  handleOutput writes under the mutex of    *)
(* its session, one chunk at a time, numbered by Session.sequence, and   *)
(* waits for the chunk to be written but for no answer.  create, snapshot  *)
(* and close are requests that register a waiter and wait for an answer.   *)
(***************************************************************************)
EXTENDS Integers, Sequences, FiniteSets

CONSTANTS Terminals,   \* connection instances
          Requests,    \* request calls, named by their correlation id
          WriterQueueLimit, \* in chunks
          QueueSlots,  \* capacity of writeQueue (128 in the code)
          PipeLimit,   \* frames the pipe to the worker holds
          MaxWrites,   \* bound: chunks per terminal
          NoWrite      \* writeLoop holds no request

Callers == Terminals \union Requests
\* What goes over the pipe; only a chunk has a sequence.
Frames  == [op : {"write", "create", "snapshot", "close"}, id : Callers, term : Terminals,
            seq : 0..MaxWrites]

WorkerBounds ==
    /\ IsFiniteSet(Terminals) /\ IsFiniteSet(Requests) /\ Terminals \cap Requests = {}
    /\ Terminals # {} /\ NoWrite \notin Frames
    /\ WriterQueueLimit \in Nat \ {0} /\ QueueSlots \in Nat \ {0} /\ PipeLimit \in Nat \ {0}
    /\ MaxWrites \in Nat

VARIABLES
    chunks,       \* Session.sequence of each terminal
    created,      \* terminals whose create succeeded
    call,         \* where each caller is in send
    ask,          \* what each request asks, and of which terminal
    waiters,      \* Client.waiters
    mailbox,      \* the channel of each waiter
    queue,        \* Client.writeQueue
    writing,      \* the request writeLoop is writing
    signalled,    \* callers whose req.done holds a value: "ok" or "error"
    queuedBytes,  \* Client.queuedBytes
    client,       \* "up", "closing" (done is closed) or "down" (waiters answered)
    pipe,         \* frames on their way to the worker
    replies,      \* frames on their way back
    process,      \* "running" or "dead"
    emulator      \* the worker's sessions: the sequence applied, or Unknown

workerVars == <<chunks, created, call, ask, waiters, mailbox, queue, writing, signalled,
                queuedBytes, client, pipe, replies, process, emulator>>
callers == <<chunks, created, ask>>
answers == <<waiters, mailbox>>
writer  == <<queue, writing, signalled, queuedBytes>>
remote  == <<pipe, replies, process, emulator>>

Unknown == -1
Stages  == {"idle", "budget", "enqueue", "queued", "await", "returned"}
Asks    == [op : {"create", "snapshot", "close"}, term : Terminals]
Up      == client = "up"
CallAt(c, stage)   == call[c] = stage
CallGoes(c, stage) == call' = [call EXCEPT ![c] = stage]

\* The frame a caller sends: a chunk carries its sequence.
Frame(c) ==
    IF c \in Terminals THEN [op |-> "write", id |-> c, term |-> c, seq |-> chunks[c]]
    ELSE [op |-> ask[c].op, id |-> c, term |-> ask[c].term, seq |-> 0]
\* Only chunks count against the budget.
Size(c) == IF c \in Terminals THEN 1 ELSE 0

WorkerTypeOK ==
    /\ chunks \in [Terminals -> 0..MaxWrites]
    /\ created \subseteq Terminals /\ waiters \subseteq Requests
    /\ call \in [Callers -> Stages]
    /\ ask \in [Requests -> Asks]
    /\ Len(queue) <= QueueSlots /\ Len(pipe) <= PipeLimit
    /\ queuedBytes \in 0..WriterQueueLimit
    /\ client \in {"up", "closing", "down"} /\ process \in {"running", "dead"}
    /\ emulator \in [Terminals -> {Unknown} \union 0..MaxWrites]

WorkerInit ==
    /\ chunks = [t \in Terminals |-> 0] /\ created = {}
    /\ call = [c \in Callers |-> "idle"]
    /\ ask = [r \in Requests |-> CHOOSE a \in Asks : a.op = "snapshot"]
    /\ waiters = {} /\ mailbox = [r \in Requests |-> <<>>]
    /\ queue = <<>> /\ writing = NoWrite /\ signalled = [c \in Callers |-> "no"]
    /\ queuedBytes = 0 /\ client = "up"
    /\ pipe = <<>> /\ replies = <<>> /\ process = "running"
    /\ emulator = [t \in Terminals |-> Unknown]

-----------------------------------------------------------------------------
(* send                                                                    *)

\* handleOutput under session.mu: the next chunk gets the next sequence.
WriteStart(t) ==
    /\ t \in created /\ chunks[t] < MaxWrites
    /\ CallAt(t, "idle")
    /\ chunks' = [chunks EXCEPT ![t] = @ + 1]
    /\ CallGoes(t, IF Up THEN "budget" ELSE "idle")
    /\ UNCHANGED <<created, ask, answers, writer, client, remote>>

\* request registers its waiter before it sends; a closed client refuses at once.
\* A terminal is created once, and asked about when it is.
AskStart(r) ==
    /\ CallAt(r, "idle")
    /\ \E a \in Asks :
          /\ IF a.op = "create" THEN \A q \in Requests : CallAt(q, "idle") \/ ask[q] # a
             ELSE a.term \in created
          /\ ask' = [ask EXCEPT ![r] = a]
    /\ IF Up THEN waiters' = waiters \union {r} /\ CallGoes(r, "budget")
       ELSE UNCHANGED waiters /\ CallGoes(r, "returned")
    /\ UNCHANGED <<chunks, created, mailbox, writer, client, remote>>

Budget(c) ==
    /\ CallAt(c, "budget") /\ queuedBytes + Size(c) <= WriterQueueLimit
    /\ queuedBytes' = queuedBytes + Size(c)
    /\ CallGoes(c, "enqueue")
    /\ UNCHANGED <<callers, answers, queue, writing, signalled, client, remote>>

Enqueue(c) ==
    /\ CallAt(c, "enqueue") /\ Len(queue) < QueueSlots
    /\ queue' = Append(queue, Frame(c)) /\ signalled' = [signalled EXCEPT ![c] = "no"]
    /\ CallGoes(c, "queued")
    /\ UNCHANGED <<callers, answers, writing, queuedBytes, client, remote>>

\* A caller that has given up: a chunk is lost with its session's mutex released,
\* a request unregisters its waiter.
GivesUp(c) ==
    /\ CallGoes(c, IF c \in Terminals THEN "idle" ELSE "returned")
    /\ waiters' = waiters \ {c}

\* fail, its first half: done is closed once.
FailClose == client' = IF Up THEN "closing" ELSE client

\* Mutant: the caller gets its error, but the client is not failed.
StallsInSend_Survives(c) ==
    /\ \/ CallAt(c, "budget") /\ queuedBytes + Size(c) > WriterQueueLimit
       \/ CallAt(c, "enqueue") /\ Len(queue) >= QueueSlots
    /\ queuedBytes' = IF CallAt(c, "enqueue") THEN queuedBytes - Size(c) ELSE queuedBytes
    /\ GivesUp(c) /\ UNCHANGED client
    /\ UNCHANGED <<callers, mailbox, queue, writing, signalled, remote>>

\* The ten seconds of WriterStallLimit pass while the budget or the queue is full.
StallsInSend(c) ==
    /\ \/ CallAt(c, "budget") /\ queuedBytes + Size(c) > WriterQueueLimit
       \/ CallAt(c, "enqueue") /\ Len(queue) >= QueueSlots
    /\ queuedBytes' = IF CallAt(c, "enqueue") THEN queuedBytes - Size(c) ELSE queuedBytes
    /\ GivesUp(c) /\ FailClose
    /\ UNCHANGED <<callers, mailbox, queue, writing, signalled, remote>>

\* Mutant: a caller that leaves at the queue keeps its share of the budget.
SendSeesDone_KeepsBudget(c) ==
    /\ ~Up /\ call[c] \in {"budget", "enqueue", "queued"}
    /\ GivesUp(c)
    /\ UNCHANGED <<callers, mailbox, queuedBytes, queue, writing, signalled, client, remote>>

\* Mutant: a caller whose frame is queued waits for writeLoop alone.
SendSeesDone_NotQueued(c) ==
    /\ ~Up /\ call[c] \in {"budget", "enqueue"}
    /\ queuedBytes' = IF CallAt(c, "enqueue") THEN queuedBytes - Size(c) ELSE queuedBytes
    /\ GivesUp(c)
    /\ UNCHANGED <<callers, mailbox, queue, writing, signalled, client, remote>>

\* done is closed while the caller waits in send.
SendSeesDone(c) ==
    /\ ~Up /\ call[c] \in {"budget", "enqueue", "queued"}
    /\ queuedBytes' = IF CallAt(c, "enqueue") THEN queuedBytes - Size(c) ELSE queuedBytes
    /\ GivesUp(c)
    /\ UNCHANGED <<callers, mailbox, queue, writing, signalled, client, remote>>

\* req.done holds the outcome of the write.
SendReturns(c) ==
    /\ CallAt(c, "queued") /\ signalled[c] # "no"
    /\ signalled' = [signalled EXCEPT ![c] = "no"]
    /\ IF signalled[c] = "error" THEN GivesUp(c)
       ELSE CallGoes(c, IF c \in Terminals THEN "idle" ELSE "await") /\ UNCHANGED waiters
    /\ UNCHANGED <<callers, mailbox, queue, writing, queuedBytes, client, remote>>

-----------------------------------------------------------------------------
(* writeLoop                                                               *)

\* Once done is closed the loop ends.  (The select may take one more request before it
\* does; it would go to a worker that fail is killing, and its caller leaves by done.)
TakeRequest ==
    /\ Up /\ writing = NoWrite /\ queue # <<>>
    /\ writing' = Head(queue) /\ queue' = Tail(queue)
    /\ UNCHANGED <<callers, call, answers, signalled, queuedBytes, client, remote>>

\* The write of a frame returns: its share of the budget is released, the caller
\* is signalled, and after an error the client fails.
WriteReturns(result) ==
    /\ writing # NoWrite
    /\ queuedBytes' = queuedBytes - Size(writing.id)
    /\ signalled' = [signalled EXCEPT ![writing.id] = result]
    /\ writing' = NoWrite
    /\ UNCHANGED <<callers, call, answers, queue, replies, process, emulator>>

FrameWritten ==
    /\ Len(pipe) < PipeLimit /\ process = "running"
    /\ WriteReturns("ok")
    /\ pipe' = Append(pipe, writing) /\ UNCHANGED client

\* The worker is gone, or has not read for ten seconds.
WriteFails ==
    /\ Len(pipe) = PipeLimit \/ process = "dead"
    /\ WriteReturns("error")
    /\ FailClose /\ UNCHANGED pipe

-----------------------------------------------------------------------------
(* The worker: handle, one frame at a time                                 *)

Reply(frame, kind) == replies' = Append(replies, [id |-> frame.id, kind |-> kind])

\* A chunk or a resize must carry the next sequence of its session; a chunk is not
\* answered, an error is.
HandleWrite(frame) ==
    LET applied == emulator[frame.term] IN
    /\ frame.op = "write"
    /\ IF applied = Unknown THEN Reply(frame, "error") /\ UNCHANGED emulator
       ELSE IF frame.seq # applied + 1 THEN Reply(frame, "fatal") /\ UNCHANGED emulator
       ELSE emulator' = [emulator EXCEPT ![frame.term] = frame.seq] /\ UNCHANGED replies

HandleCreate(frame) ==
    /\ frame.op = "create"
    /\ IF emulator[frame.term] # Unknown THEN Reply(frame, "error") /\ UNCHANGED emulator
       ELSE Reply(frame, "result") /\ emulator' = [emulator EXCEPT ![frame.term] = 0]

HandleOther(frame) ==
    /\ frame.op \in {"snapshot", "close"}
    /\ IF emulator[frame.term] = Unknown THEN Reply(frame, "error") /\ UNCHANGED emulator
       ELSE /\ Reply(frame, "result")
            /\ emulator' = IF frame.op = "close"
                           THEN [emulator EXCEPT ![frame.term] = Unknown] ELSE emulator

Handle ==
    /\ process = "running" /\ pipe # <<>>
    /\ pipe' = Tail(pipe)
    /\ HandleWrite(Head(pipe)) \/ HandleCreate(Head(pipe)) \/ HandleOther(Head(pipe))
    /\ UNCHANGED <<callers, call, answers, writer, client, process>>

Dies ==
    /\ process = "running" /\ process' = "dead"
    /\ UNCHANGED <<callers, call, answers, writer, client, pipe, replies, emulator>>

-----------------------------------------------------------------------------
(* readLoop, fail and the end of a request                                 *)

\* An answer goes to its waiter, which is unregistered in the same critical
\* section; an answer nobody waits for is dropped, a fatal one fails the client.  The
\* loop does not look at done: it may still read what the worker has sent.
ReadReply ==
    /\ replies # <<>> /\ replies' = Tail(replies)
    /\ LET r == Head(replies) IN
       IF r.kind = "fatal" THEN FailClose /\ UNCHANGED answers
       ELSE /\ waiters' = waiters \ {r.id}
            /\ mailbox' = IF r.id \in waiters
                          THEN [mailbox EXCEPT ![r.id] = Append(@, r.kind)] ELSE mailbox
            /\ UNCHANGED client
    /\ UNCHANGED <<callers, call, writer, pipe, process, emulator>>

\* The read loop or cmd.Wait sees the end of the process.
SeesDeath ==
    /\ process = "dead" /\ Up /\ FailClose
    /\ UNCHANGED <<callers, call, answers, writer, remote>>

\* fail, its second half: every waiter gets an error, once.
FailAnswers ==
    /\ client = "closing" /\ client' = "down"
    /\ mailbox' = [r \in Requests |->
                      IF r \in waiters THEN Append(mailbox[r], "error") ELSE mailbox[r]]
    /\ waiters' = {}
    /\ UNCHANGED <<callers, call, writer, remote>>

\* The select of request takes the answer, the end of its context or done.
AskAnswered(r) ==
    /\ CallAt(r, "await") /\ mailbox[r] # <<>>
    /\ mailbox' = [mailbox EXCEPT ![r] = Tail(@)]
    /\ created' = IF ask[r].op = "create" /\ Head(mailbox[r]) = "result"
                  THEN created \union {ask[r].term} ELSE created
    /\ CallGoes(r, "returned")
    /\ UNCHANGED <<chunks, ask, waiters, writer, client, remote>>

AskGivesUp(r) ==
    /\ CallAt(r, "await") /\ CallGoes(r, "returned")
    /\ waiters' = waiters \ {r}
    /\ UNCHANGED <<callers, mailbox, writer, client, remote>>

CallerStep(c) ==
    \/ Budget(c) \/ Enqueue(c) \/ StallsInSend(c) \/ SendSeesDone(c) \/ SendReturns(c)
AskStep(r) == CallerStep(r) \/ AskAnswered(r) \/ (~Up /\ AskGivesUp(r))
ClientLoops == TakeRequest \/ FrameWritten \/ WriteFails \/ FailAnswers
WorkerNext ==
    \/ \E t \in Terminals : WriteStart(t)
    \/ \E r \in Requests : AskStart(r) \/ AskAnswered(r) \/ AskGivesUp(r)
    \/ \E c \in Callers : CallerStep(c)
    \/ ClientLoops \/ Handle \/ Dies \/ ReadReply \/ SeesDeath

\* The goroutines of the client run, a caller that finds no room meets its deadline,
\* and a worker that runs reads and answers.  Once the client has failed, its read
\* loop may end at any time.
WorkerFairness ==
    /\ \A t \in Terminals : WF_workerVars(CallerStep(t))
    /\ \A r \in Requests : WF_workerVars(AskStep(r))
    /\ WF_workerVars(ClientLoops) /\ WF_workerVars(Handle)
    /\ WF_workerVars(Up /\ ReadReply) /\ WF_workerVars(SeesDeath)
WorkerSpec == WorkerInit /\ [][WorkerNext]_workerVars
WorkerFairSpec == WorkerSpec /\ WorkerFairness

-----------------------------------------------------------------------------
(* Properties                                                              *)

\* A waiter gets at most one result, whether it is answered, cancelled or failed:
\* its channel holds one, and a second send would block readLoop or fail for good.
OneResult == \A r \in Requests : Len(mailbox[r]) <= 1

\* No registered waiter belongs to a request that has returned: whatever order the
\* answer, the cancellation and the failure come in, the map does not leak.
NoWaiterLeak == \A r \in waiters : call[r] \notin {"idle", "returned"}

\* The budget counts exactly the chunks between their admission and the return of
\* their write, on every path that gives up.
BudgetExact ==
    queuedBytes = Cardinality({t \in Terminals : CallAt(t, "enqueue")})
                  + Cardinality({i \in DOMAIN queue : queue[i].op = "write"})
                  + (IF writing # NoWrite /\ writing.id \in Terminals THEN 1 ELSE 0)

\* The worker never meets a gap in the sequence of a session: a chunk that is given
\* up takes the whole client down with it, before a later chunk can be sent.
NoSequenceGap == \A i \in DOMAIN replies : replies[i].kind # "fatal"

\* Every caller returns, the holders of session.mu among them, whether the worker
\* answers, stalls or dies.
CallersReturn ==
    \A c \in Callers : (call[c] \notin {"idle", "returned"}) ~> (call[c] \in {"idle", "returned"})

\* The books of the client: waiters, results and the budget of queued bytes are right
\* on every path that answers, gives up, stalls or fails.
AnswersExact == WorkerTypeOK /\ OneResult /\ NoWaiterLeak /\ BudgetExact
=============================================================================
