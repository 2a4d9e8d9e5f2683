----------------------------- MODULE MCLiveness -----------------------------
(***************************************************************************)
(* What must eventually happen, in one TLC run: closed sessions leave the  *)
(* runtime, a pausing session is stored, the callers of the worker client  *)
(* return, and the notification service stops when it is closed.  `focus'  *)
(* is chosen initially and only that module moves.  In the initial states  *)
(* no fair action of any module is enabled, so the fairness of a module    *)
(* that does not move asks for nothing.                                    *)
(***************************************************************************)
EXTENDS TerminalLifecycle

CONSTANTS local, launch, r1, s1, s2, t1, q1, p1, e1, NoWrite

VARIABLES focus,
          sequence, timer, phase, save, stored, archived, final, overtaken, errors,
          chunks, created, call, ask, waiters, mailbox, writeQueue, writing, signalled,
          queuedBytes, client, pipe, replies, child, emulator,
          subs, ids, requests, session, cleanups, keeper, otherSessions, gone, allowed, stopped,
          jobs, jobCount, caller, worker, handed, pushFaults

Saver == INSTANCE SnapshotSaver WITH
    Saves <- {s1, s2}, MaxChanges <- 2, MaxErrors <- 0
Worker == INSTANCE WorkerClient WITH
    Terminals <- {t1}, Requests <- {q1}, WriterQueueLimit <- 1, QueueSlots <- 1,
    PipeLimit <- 1, MaxWrites <- 2, process <- child,
    queue <- writeQueue
Push == INSTANCE NotificationQueue WITH
    Callers <- {p1}, Sessions <- {s1}, Endpoints <- {e1}, QueueSize <- 1,
    RetryAttempts <- 2, MaxSubscriptions <- 1, MaxMessages <- 2, MaxIds <- 1,
    MaxPushFaults <- 0, closed <- stopped, queue <- jobs, pending <- jobCount

MaxCreations == 1    \* bound: instances made in one behaviour; a launch meets no crash
lifecycleVars == vars
saverVars  == <<sequence, timer, phase, save, stored, archived, final, overtaken, errors>>
workerVars == <<chunks, created, call, ask, waiters, mailbox, writeQueue, writing, signalled,
                queuedBytes, client, pipe, replies, child, emulator>>
pushVars   == <<subs, ids, requests, session, cleanups, keeper, otherSessions, gone, allowed, stopped,
                jobs, jobCount, caller, worker, handed, pushFaults>>

LiveInit ==
    /\ focus \in {"lifecycle", "saver", "worker", "push"}
    /\ Init /\ Saver!SaverInit /\ Worker!WorkerInit /\ Push!PushInit
LiveNext ==
    \/ /\ focus = "lifecycle" /\ Next
       /\ Cardinality({id \in Ids : creator'[id] # "fresh"}) <= MaxCreations
       /\ \A id \in LaunchIds : creator'[id] # "fresh" => crashes' = 0
       /\ UNCHANGED <<focus, saverVars, workerVars, pushVars>>
    \/ focus = "saver" /\ Saver!SaverNext /\ UNCHANGED <<focus, lifecycleVars, workerVars, pushVars>>
    \/ focus = "worker" /\ Worker!WorkerNext /\ UNCHANGED <<focus, lifecycleVars, saverVars, pushVars>>
    \/ focus = "push" /\ Push!PushNext /\ UNCHANGED <<focus, lifecycleVars, saverVars, workerVars>>
    \* All but the runtime may really stop: a worker dies, a service ends.
    \/ /\ focus # "lifecycle"
       /\ UNCHANGED <<focus, lifecycleVars, saverVars, workerVars, pushVars>>
LiveSpec ==
    /\ LiveInit /\ [][LiveNext]_<<focus, lifecycleVars, saverVars, workerVars, pushVars>>
    /\ Fairness /\ Saver!SaverFairness /\ Worker!WorkerFairness /\ Push!PushFairness

ASSUME Saver!SaverBounds /\ Worker!WorkerBounds /\ Push!PushBounds

\* The properties of the instances, by their names.
EventuallyStored == Saver!EventuallyStored
CallersReturn    == Worker!CallersReturn
CloseReturns     == Push!CloseReturns
=============================================================================
