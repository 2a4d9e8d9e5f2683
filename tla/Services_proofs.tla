--------------------------- MODULE Services_proofs ---------------------------
(***************************************************************************)
(* Proofs about Web Push and about reading files, for any number of        *)
(* callers, sessions, endpoints, directories and versions, any limits and  *)
(* any number of failing writes and restarts: the count of pending jobs is *)
(* exact, nobody sends to a closed queue and the subscriptions stay in     *)
(* order (PushSafe), only an endpoint that is gone costs a browser its     *)
(* subscription (OnlyGoneRemoved), and what a client reads belongs together*)
(* (ListingSafe).                                                          *)
(*                                                                         *)
(* The argument for the subscriptions: an id is never given to a second    *)
(* endpoint, so what the worker deletes by id, however old its snapshot is,*)
(* is of the endpoint whose push service answered. For the listings: a     *)
(* cursor names a snapshot the server knows and the first entry its client *)
(* has not got.                                                            *)
(***************************************************************************)
EXTENDS NotificationQueue, FileListing, FiniteSetTheorems, SequenceTheorems, TLAPS

Ins == {c \in Callers : caller[c] = "in"}
Busy == IF worker.step \in {"idle", "ended"} THEN 0 ELSE 1
Workers == [step : Steps, todo : SUBSET Record, attempt : 0..RetryAttempts, to : SUBSET Record]
Known == subs \cup worker.todo \cup worker.to

PushTypes ==
    /\ subs \subseteq Record /\ ids \in 0..MaxIds
    /\ session \in [Sessions -> {"new", "live", "dead"}]
    /\ cleanups \subseteq Sessions /\ keeper \subseteq Sessions /\ otherSessions \subseteq Sessions
    /\ requests \subseteq Sessions \X Endpoints
    /\ gone \subseteq Endpoints /\ {allowed, closed} \subseteq BOOLEAN
    /\ queue \in Seq({"job"}) /\ Len(queue) <= QueueSize
    /\ caller \in [Callers -> {"out", "in"}]
    /\ worker \in Workers
    /\ handed \in 0..MaxMessages /\ pushFaults \in 0..MaxPushFaults

\* The worker leaves only when the service is closed.
EndsClosed == worker.step = "ended" => closed

\* No two subscriptions have an id or an endpoint in common.
OneEach == \A r, q \in subs : r # q => r.id # q.id /\ r.endpoint # q.endpoint

\* Ids are not used again for another endpoint, also those in the worker's snapshot.
IdsNameEndpoints ==
    /\ \A r \in Known : r.id <= ids
    /\ \A r, q \in Known : r.id = q.id => r.endpoint = q.endpoint

\* What the worker is about to delete is of an endpoint that is gone.
ExpiredIsGone ==
    /\ \A r, q \in worker.to : r = q
    /\ worker.step = "expired" => \A r \in worker.to : r.endpoint \in gone

PushInv == /\ PushTypes /\ PendingIsExact /\ NoSendAfterClose /\ EndsClosed
           /\ OneEach /\ IdsNameEndpoints /\ ExpiredIsGone

\* What the constants are.
LEMMA Bounds ==
  ASSUME PushBounds
  PROVE  /\ QueueSize \in Nat \ {0} /\ RetryAttempts \in Nat \ {0} /\ MaxMessages \in Nat
         /\ MaxIds \in Nat /\ MaxPushFaults \in Nat /\ IsFiniteSet(Callers)
  BY DEF PushBounds

-----------------------------------------------------------------------------
(* What a registration stores                                              *)

\* The other endpoints keep their records; this one has a single record, with a new id
\* or with the id it had.
LEMMA UpsertedRecord ==
  ASSUME NEW s, NEW e
  PROVE  \E id : /\ Upserted(s, e) = {r \in subs : r.endpoint # e}
                                       \cup {[id |-> id, session |-> s, endpoint |-> e]}
                 /\ id = ids + 1 \/ \E r \in subs : r.endpoint = e /\ r.id = id
<1>. DEFINE same == {r \in subs : r.endpoint = e}
            kept == {r \in same : r.session = s}
            id == IF kept = {} THEN ids + 1 ELSE (CHOOSE r \in kept : TRUE).id
<1>1. Upserted(s, e) = (subs \ same) \cup {[id |-> id, session |-> s, endpoint |-> e]}
  BY DEF Upserted
<1>2. subs \ same = {r \in subs : r.endpoint # e}
  OBVIOUS
<1>3. id = ids + 1 \/ \E r \in subs : r.endpoint = e /\ r.id = id
  <2>1. CASE kept # {}
    <3>1. (CHOOSE r \in kept : TRUE) \in kept
      BY <2>1
    <3>. QED
      BY <2>1, <3>1
  <2>. QED
    BY <2>1
<1>. QED
  BY <1>1, <1>2, <1>3

\* What is stored is of the right type and has every id and endpoint once.
LEMMA UpsertedInOrder ==
  ASSUME PushBounds, PushTypes, OneEach, IdsNameEndpoints, ids < MaxIds,
         NEW s \in Sessions, NEW e \in Endpoints
  PROVE  /\ Upserted(s, e) \subseteq Record
         /\ \A r, q \in Upserted(s, e) : r # q => r.id # q.id /\ r.endpoint # q.endpoint
         /\ \A r \in Upserted(s, e) : r.id <= ids + 1
         /\ \A r \in Upserted(s, e), q \in Known : r.id = q.id => r.endpoint = q.endpoint
         /\ \A r \in Upserted(s, e) : r \in subs \/ r.session = s
<1>1. PICK id : /\ Upserted(s, e) = {r \in subs : r.endpoint # e}
                                      \cup {[id |-> id, session |-> s, endpoint |-> e]}
                /\ id = ids + 1 \/ \E r \in subs : r.endpoint = e /\ r.id = id
  BY UpsertedRecord
<1>. DEFINE new == [id |-> id, session |-> s, endpoint |-> e]
<1>a. /\ ids \in Nat /\ MaxIds \in Nat /\ ids + 1 \in 1..MaxIds
      /\ worker \in Workers /\ subs \subseteq Record
  BY Bounds DEF PushTypes
<1>b. Known \subseteq Record /\ subs \subseteq Known
  BY <1>a DEF Workers, Known
<1>c. \A r \in Record : r.id \in 1..MaxIds
  BY DEF Record
<1>d. \A r \in Known : r.id <= ids
  BY DEF IdsNameEndpoints
<1>e. \A r \in Known : r.id \in 1..MaxIds /\ r.id # ids + 1 /\ r.id <= ids + 1
  <2>. SUFFICES ASSUME NEW r \in Known
                PROVE  r.id \in 1..MaxIds /\ r.id # ids + 1 /\ r.id <= ids + 1
    OBVIOUS
  <2>1. r.id \in 1..MaxIds /\ r.id <= ids
    BY <1>b, <1>c, <1>d
  <2>. QED
    BY <1>a, <2>1
<1>2. /\ ids \in Nat /\ MaxIds \in Nat /\ ids + 1 \in 1..MaxIds
      /\ \A r \in subs : r.id \in 1..MaxIds /\ r.id # ids + 1 /\ r.id <= ids + 1
      /\ \A r \in Known : r.id \in 1..MaxIds /\ r.id # ids + 1 /\ r.id <= ids + 1
  BY <1>a, <1>b, <1>e
<1>3. id \in 1..MaxIds /\ id <= ids + 1
  BY <1>1, <1>2
<1>4. new \in Record
  BY <1>3 DEF Record
<1>5. \A r \in subs : r.endpoint # e => r.id # id
  BY <1>1, <1>2 DEF OneEach
<1>6. \A q \in Known : q.id = id => q.endpoint = e
  BY <1>1, <1>2 DEF IdsNameEndpoints, Known
<1>7. subs \subseteq Known /\ subs \subseteq Record
  BY DEF Known, PushTypes
<1>8. new.id = id /\ new.endpoint = e /\ new.session = s
  OBVIOUS
<1>9. \A r \in Upserted(s, e) : (r \in subs /\ r.endpoint # e) \/ r = new
  BY <1>1
<1>. HIDE DEF new
<1>10. Upserted(s, e) \subseteq Record
  BY <1>4, <1>7, <1>9
<1>11. \A r, q \in Upserted(s, e) : r # q => r.id # q.id /\ r.endpoint # q.endpoint
  BY <1>5, <1>8, <1>9 DEF OneEach
<1>12. \A r \in Upserted(s, e) : r.id <= ids + 1
  BY <1>2, <1>3, <1>7, <1>8, <1>9
<1>13. \A r \in Upserted(s, e), q \in Known : r.id = q.id => r.endpoint = q.endpoint
  BY <1>6, <1>7, <1>8, <1>9 DEF IdsNameEndpoints
<1>14. \A r \in Upserted(s, e) : r \in subs \/ r.session = s
  BY <1>8, <1>9
<1>. QED
  BY <1>10, <1>11, <1>12, <1>13, <1>14

-----------------------------------------------------------------------------
(* Types                                                                   *)

\* List ends the job or takes a snapshot.
LEMMA ListForms ==
  List => /\ worker' = Idle \/ worker' = [Idle EXCEPT !.step = "listed", !.todo = subs]
          /\ worker'.step \in {"idle", "listed"}
          /\ worker'.todo \in {{}, subs} /\ worker'.to = {}
<1>. SUFFICES ASSUME List
              PROVE  /\ worker' = Idle \/ worker' = [Idle EXCEPT !.step = "listed", !.todo = subs]
                     /\ worker'.step \in {"idle", "listed"}
                     /\ worker'.todo \in {{}, subs} /\ worker'.to = {}
  OBVIOUS
<1>1. CASE worker' = Idle
  BY <1>1 DEF Idle
<1>2. CASE worker' = [Idle EXCEPT !.step = "listed", !.todo = subs]
  BY <1>2 DEF Idle
<1>3. worker' = Idle \/ worker' = [Idle EXCEPT !.step = "listed", !.todo = subs]
  BY DEF List, Finish
<1>. QED
  BY <1>1, <1>2, <1>3

\* A step that may fail counts the fault; a write stores what it should or nothing.
LEMMA FaultForms ==
  ASSUME PushBounds, PushTypes
  PROVE  /\ Fault \/ pushFaults' = pushFaults => pushFaults' \in 0..MaxPushFaults
         /\ \A S : Saved(S) => subs' \in {S, subs} /\ pushFaults' \in 0..MaxPushFaults
<1>1. Fault \/ pushFaults' = pushFaults => pushFaults' \in 0..MaxPushFaults
  BY Bounds DEF Fault, PushTypes
<1>. QED
  BY <1>1 DEF Saved

\* The forms a step of the worker gives it.
LEMMA WorkerForms ==
  ASSUME PushBounds, worker \in Workers
  PROVE  /\ Idle \in Workers /\ [Idle EXCEPT !.step = "taken"] \in Workers
         /\ [worker EXCEPT !.step = "expired"] \in Workers
         /\ [worker EXCEPT !.step = "ended"] \in Workers
         /\ Onward(worker) \in Workers
         /\ worker.attempt < RetryAttempts => [worker EXCEPT !.attempt = @ + 1] \in Workers
         /\ \A S \in SUBSET Record :
              [Idle EXCEPT !.step = "listed", !.todo = S] \in Workers
         /\ \A r \in Record :
              [worker EXCEPT !.step = "sending", !.attempt = 1, !.todo = @ \ {r}, !.to = {r}]
                \in Workers
<1>1. 0 \in 0..RetryAttempts /\ 1 \in 0..RetryAttempts
  BY Bounds
<1>2. worker.attempt < RetryAttempts => worker.attempt + 1 \in 0..RetryAttempts
  BY Bounds DEF Workers
<1>. QED
  BY <1>1, <1>2 DEF Workers, Steps, Idle, Onward

\* Every step keeps the types.
LEMMA TypesNext ==
  ASSUME PushBounds, PushTypes, OneEach, IdsNameEndpoints, [PushNext]_pushVars
  PROVE  PushTypes'
<1>a. ASSUME NEW c \in Callers, NotifySend(c)
      PROVE  queue' = queue \/ (Len(queue) < QueueSize /\ queue' = Append(queue, "job"))
  BY <1>a DEF NotifySend
<1>b. ASSUME List PROVE worker' \in Workers
  <2>1. worker' = Idle \/ worker' = [Idle EXCEPT !.step = "listed", !.todo = subs]
    BY <1>b, ListForms
  <2>2. worker \in Workers /\ subs \in SUBSET Record
    BY DEF PushTypes
  <2>. QED
    BY <2>1, <2>2, WorkerForms
<1>c. ASSUME Restart PROVE worker' \in Workers /\ pushFaults' \in 0..MaxPushFaults
  <2>1. worker' = Idle /\ pushFaults < MaxPushFaults /\ pushFaults' = pushFaults + 1
    BY <1>c DEF Restart, Fault
  <2>2. worker \in Workers /\ pushFaults \in 0..MaxPushFaults /\ MaxPushFaults \in Nat
    BY Bounds DEF PushTypes
  <2>3. pushFaults' \in 0..MaxPushFaults
    BY <2>1, <2>2
  <2>. QED
    BY <2>1, <2>2, <2>3, WorkerForms
<1>. USE DEF PushTypes, subscriptionVars, loginVars, deliveryVars
<1>1. ASSUME NEW s \in Sessions, SessionStarts(s) \/ Expire(s) \/ ListOthers(s)
      PROVE  PushTypes'
  BY <1>1 DEF SessionStarts, Expire, ListOthers, Live
<1>d. ASSUME NEW s \in Sessions, EndSession(s) PROVE PushTypes'
  <2>1. pushFaults' \in 0..MaxPushFaults /\ cleanups' \subseteq Sessions
    BY <1>d, FaultForms DEF EndSession
  <2>. QED
    BY <1>d, <2>1 DEF EndSession
<1>e. CASE EndOthers
  <2>1. pushFaults' \in 0..MaxPushFaults /\ cleanups' \subseteq Sessions
    BY <1>e, FaultForms DEF EndOthers
  <2>2. session' \in [Sessions -> {"new", "live", "dead"}]
    BY <1>e DEF EndOthers
  <2>. QED
    BY <1>e, <2>1, <2>2 DEF EndOthers
<1>2. ASSUME NEW s \in Sessions, DeleteAll(s) PROVE PushTypes'
  <2>1. /\ subs' \in {{r \in subs : r.session # s}, subs}
        /\ pushFaults' \in 0..MaxPushFaults
    BY <1>2, FaultForms DEF DeleteAll
  <2>. QED
    BY <1>2, <2>1 DEF DeleteAll
<1>3. ASSUME NEW s \in Sessions, NEW e \in Endpoints, Authenticated(s, e) PROVE PushTypes'
  BY <1>3 DEF Authenticated
<1>4. ASSUME NEW s \in Sessions, NEW e \in Endpoints, Register(s, e) PROVE PushTypes'
  <2>1. Upserted(s, e) \subseteq Record /\ ids' \in 0..MaxIds
    BY <1>4, UpsertedInOrder DEF Register, PushBounds
  <2>2. subs' \in {subs, Upserted(s, e)} /\ pushFaults' \in 0..MaxPushFaults
    BY <1>4, FaultForms DEF Register
  <2>. QED
    BY <1>4, <2>1, <2>2 DEF Register
<1>5. ASSUME NEW r \in Record, Delete(r) PROVE PushTypes'
  <2>1. subs' \in {subs \ {r}, subs} /\ pushFaults' \in 0..MaxPushFaults
    BY <1>5, FaultForms DEF Delete
  <2>. QED
    BY <1>5, <2>1 DEF Delete
<1>6. ASSUME NEW r \in Record, NextRecord(r) PROVE PushTypes'
  <2>1. worker' \in Workers
    BY <1>6, WorkerForms DEF NextRecord
  <2>. QED
    BY <1>6, <2>1 DEF NextRecord
<1>7. ASSUME NEW c \in Callers, NotifyEnter(c) PROVE PushTypes'
  BY <1>7, Bounds DEF NotifyEnter
<1>8. ASSUME NEW c \in Callers, NotifySend(c) PROVE PushTypes'
  <2>1. /\ Append(queue, "job") \in Seq({"job"})
        /\ Len(Append(queue, "job")) = Len(queue) + 1 /\ Len(queue) \in Nat
    BY AppendProperties, LenProperties
  <2>2. queue' = queue \/ (Len(queue) < QueueSize /\ queue' = Append(queue, "job"))
    BY <1>8, <1>a
  <2>3. QueueSize \in Nat /\ Len(queue) <= QueueSize /\ queue \in Seq({"job"})
    BY Bounds
  <2>4. queue' \in Seq({"job"}) /\ Len(queue') <= QueueSize
    <3>1. CASE queue' = queue
      BY <2>3, <3>1
    <3>2. CASE Len(queue) < QueueSize /\ queue' = Append(queue, "job")
      <4>1. Len(queue) + 1 <= QueueSize
        BY <2>1, <2>3, <3>2
      <4>. QED
        BY <2>1, <3>2, <4>1
    <3>. QED
      BY <2>2, <3>1, <3>2
  <2>. QED
    BY <1>8, <2>4 DEF NotifySend
<1>9. CASE Take
  <2>1. /\ Tail(queue) \in Seq({"job"}) /\ Len(Tail(queue)) = Len(queue) - 1
        /\ Len(queue) \in Nat
    BY <1>9, HeadTailProperties, LenProperties DEF Take
  <2>2. queue' \in Seq({"job"}) /\ Len(queue') <= QueueSize
    BY <1>9, <2>1, Bounds DEF Take
  <2>3. worker' \in Workers
    BY <1>9, WorkerForms DEF Take
  <2>. QED
    BY <1>9, <2>2, <2>3 DEF Take
<1>10. CASE List
  BY <1>10, <1>b DEF List
<1>11. CASE RemoveExpired
  <2>1. worker' \in Workers
    BY <1>11, WorkerForms DEF RemoveExpired
  <2>2. subs' \subseteq subs /\ pushFaults' \in 0..MaxPushFaults
    BY <1>11, FaultForms DEF RemoveExpired
  <2>. QED
    BY <1>11, <2>1, <2>2 DEF RemoveExpired
<1>12. CASE JobDone
  BY <1>12, WorkerForms DEF JobDone, Finish
<1>13. ASSUME NEW a \in Responses, Send(a) PROVE PushTypes'
  <2>1. PICK r \in worker.to :
          worker' = IF Permanent(a) THEN [worker EXCEPT !.step = "expired"]
                    ELSE IF Retryable(a) /\ worker.attempt < RetryAttempts /\ ~closed
                    THEN [worker EXCEPT !.attempt = @ + 1] ELSE Onward(worker)
    BY <1>13 DEF Send
  <2>2. worker' \in Workers
    BY <2>1, WorkerForms
  <2>. QED
    BY <1>13, <2>2 DEF Send
<1>14. CASE Close \/ SetPreference
  BY <1>14 DEF Close, SetPreference
<1>15. CASE WorkerEnds
  BY <1>15, WorkerForms DEF WorkerEnds
<1>16. CASE Restart
  <2>1. subs' \subseteq Record
    BY <1>16 DEF Restart, Pruned
  <2>2. << >> \in Seq({"job"}) /\ Len(<< >>) <= QueueSize
    BY EmptySeq, Bounds
  <2>3. pushFaults' \in 0..MaxPushFaults /\ worker' \in Workers
    BY <1>16, <1>c
  <2>4. /\ session' = session /\ cleanups' = {} /\ keeper' = {} /\ otherSessions' = {}
    BY <1>16 DEF Restart
  <2>5. /\ requests' = {} /\ queue' = << >> /\ closed' = FALSE
        /\ caller' = [c \in Callers |-> "out"] /\ UNCHANGED <<ids, handed, gone, allowed>>
    BY <1>16 DEF Restart
  <2>. QED
    BY <2>1, <2>2, <2>3, <2>4, <2>5
<1>17. ASSUME NEW e \in Endpoints, BrowserGone(e) PROVE PushTypes'
  BY <1>17 DEF BrowserGone
<1>18. CASE UNCHANGED pushVars
  BY <1>18 DEF pushVars
<1>. QED
  BY <1>1, <1>2, <1>3, <1>4, <1>5, <1>6, <1>7, <1>8, <1>9, <1>10, <1>11, <1>12, <1>13,
     <1>14, <1>15, <1>16, <1>17, <1>18, <1>d, <1>e DEF PushNext, Stopped

-----------------------------------------------------------------------------
(* The count of pending jobs, and Close                                    *)

\* A caller that enters or leaves changes the number of callers inside by one.
LEMMA CallersCount ==
  ASSUME PushBounds, PushTypes, NEW c \in Callers
  PROVE  /\ Cardinality(Ins) \in Nat /\ Cardinality(Callers) \in Nat
         /\ Cardinality(Ins) <= Cardinality(Callers)
         /\ caller[c] = "out" /\ caller' = [caller EXCEPT ![c] = "in"]
              => (Cardinality(Ins') = Cardinality(Ins) + 1)
         /\ caller[c] = "in" /\ caller' = [caller EXCEPT ![c] = "out"]
              => (Cardinality(Ins') = Cardinality(Ins) - 1 /\ Cardinality(Ins) > 0)
<1>1. IsFiniteSet(Callers) /\ Ins \subseteq Callers
  BY Bounds DEF Ins
<1>2. IsFiniteSet(Ins) /\ Cardinality(Ins) \in Nat /\ Cardinality(Callers) \in Nat
      /\ Cardinality(Ins) <= Cardinality(Callers)
  BY <1>1, FS_Subset, FS_CardinalityType
<1>3. ASSUME caller[c] = "out", caller' = [caller EXCEPT ![c] = "in"]
      PROVE  Cardinality(Ins') = Cardinality(Ins) + 1
  <2>1. Ins' = Ins \cup {c} /\ c \notin Ins
    BY <1>3 DEF Ins, PushTypes
  <2>. QED
    BY <1>2, <2>1, FS_AddElement
<1>4. ASSUME caller[c] = "in", caller' = [caller EXCEPT ![c] = "out"]
      PROVE  Cardinality(Ins') = Cardinality(Ins) - 1 /\ Cardinality(Ins) > 0
  <2>1. Ins' = Ins \ {c} /\ c \in Ins
    BY <1>4 DEF Ins, PushTypes
  <2>2. Cardinality(Ins) # 0
    BY <1>2, <2>1, FS_EmptySet
  <2>3. Cardinality(Ins') = Cardinality(Ins) - 1
    BY <1>2, <2>1, FS_RemoveElement
  <2>. QED
    BY <1>2, <2>2, <2>3
<1>. QED
  BY <1>2, <1>3, <1>4

\* The count is the queue, the callers inside and the worker.
LEMMA PendingSum == PendingIsExact <=> pending = Len(queue) + Cardinality(Ins) + Busy
  BY DEF PendingIsExact, Ins, Busy

\* The steps that leave the queue, the callers and the worker's step alone.
LEMMA PendingKept ==
  ASSUME PendingIsExact, UNCHANGED <<pending, queue, caller>>,
         (worker.step \in {"idle", "ended"}) = (worker'.step \in {"idle", "ended"})
  PROVE  PendingIsExact'
  BY DEF PendingIsExact

\* Every step keeps the count exact.
LEMMA PendingNext ==
  ASSUME PushBounds, PushTypes, PendingIsExact, [PushNext]_pushVars
  PROVE  PendingIsExact'
<1>. USE DEF subscriptionVars, deliveryVars
<1>0. /\ Len(queue) \in Nat /\ worker \in Workers /\ QueueSize \in Nat \ {0}
      /\ pending = Len(queue) + Cardinality(Ins) + Busy /\ Busy \in 0..1
      /\ queue \in Seq({"job"})
  BY PendingSum, Bounds, LenProperties DEF PushTypes, Busy
<1>1. ASSUME NEW s \in Sessions,
             SessionStarts(s) \/ EndSession(s) \/ Expire(s) \/ DeleteAll(s)
             \/ ListOthers(s)
      PROVE  PendingIsExact'
  BY <1>1, PendingKept DEF SessionStarts, EndSession, Expire, DeleteAll, ListOthers
<1>a. CASE EndOthers
  BY <1>a, PendingKept DEF EndOthers
<1>2. ASSUME NEW s \in Sessions, NEW e \in Endpoints, Authenticated(s, e) \/ Register(s, e)
      PROVE  PendingIsExact'
  BY <1>2, PendingKept DEF Authenticated, Register
<1>3. ASSUME NEW r \in Record, Delete(r) PROVE PendingIsExact'
  BY <1>3, PendingKept DEF Delete
<1>4. ASSUME NEW r \in Record, NextRecord(r) PROVE PendingIsExact'
  <2>1. worker.step = "listed" /\ worker'.step = "sending"
    BY <1>0, <1>4 DEF NextRecord, Workers
  <2>. QED
    BY <1>4, <2>1, PendingKept DEF NextRecord
<1>5. ASSUME NEW c \in Callers, NotifyEnter(c) PROVE PendingIsExact'
  <2>a. caller[c] = "out" /\ caller' = [caller EXCEPT ![c] = "in"]
    BY <1>5 DEF NotifyEnter
  <2>b. Cardinality(Ins') = Cardinality(Ins) + 1 /\ Cardinality(Ins) \in Nat
    BY <2>a, CallersCount
  <2>1. /\ Cardinality(Ins') = Cardinality(Ins) + 1 /\ Cardinality(Ins) \in Nat
        /\ pending' = pending + 1 /\ queue' = queue /\ worker' = worker
    BY <1>5, <2>b DEF NotifyEnter
  <2>2. Busy' = Busy /\ Len(queue') = Len(queue)
    BY <2>1 DEF Busy
  <2>3. pending' = Len(queue') + Cardinality(Ins') + Busy'
    BY <1>0, <2>1, <2>2
  <2>. QED
    BY <2>3, PendingSum DEF PendingIsExact, Ins, Busy
<1>6. ASSUME NEW c \in Callers, NotifySend(c) PROVE PendingIsExact'
  <2>a. caller[c] = "in" /\ caller' = [caller EXCEPT ![c] = "out"]
    BY <1>6 DEF NotifySend
  <2>b. Cardinality(Ins') = Cardinality(Ins) - 1 /\ Cardinality(Ins) \in Nat
    BY <2>a, CallersCount
  <2>1. /\ Cardinality(Ins') = Cardinality(Ins) - 1 /\ Cardinality(Ins) \in Nat
        /\ worker' = worker
    BY <1>6, <2>b DEF NotifySend
  <2>2. \/ queue' = Append(queue, "job") /\ pending' = pending
        \/ queue' = queue /\ pending' = pending - 1
    BY <1>6 DEF NotifySend
  <2>3. \/ Len(queue') = Len(queue) + 1 /\ pending' = pending
        \/ Len(queue') = Len(queue) /\ pending' = pending - 1
    BY <1>0, <2>2, AppendProperties
  <2>4. Busy' = Busy
    BY <2>1 DEF Busy
  <2>5. pending' = Len(queue') + Cardinality(Ins') + Busy'
    BY <1>0, <2>1, <2>3, <2>4, SMTT(30)
  <2>. QED
    BY <2>5 DEF PendingIsExact, Ins, Busy
<1>7. CASE Take
  <2>1. /\ Len(queue') = Len(queue) - 1 /\ pending' = pending /\ caller' = caller
        /\ worker.step = "idle" /\ worker'.step = "taken"
    BY <1>0, <1>7, HeadTailProperties DEF Take, Idle
  <2>2. Busy = 0 /\ Busy' = 1 /\ Ins' = Ins
    BY <2>1 DEF Busy, Ins
  <2>3. Cardinality(Ins) \in Nat
    BY Bounds, FS_Subset, FS_CardinalityType DEF Ins
  <2>4. pending' = Len(queue') + Cardinality(Ins') + Busy'
    BY <1>0, <2>1, <2>2, <2>3
  <2>. QED
    BY <2>4 DEF PendingIsExact, Ins, Busy
<1>8. ASSUME Finish, UNCHANGED <<queue, caller>>, worker.step \in {"taken", "listed"}
      PROVE  PendingIsExact'
  <2>1. pending' = pending - 1 /\ worker'.step = "idle"
    BY <1>8 DEF Finish, Idle
  <2>2. Busy = 1 /\ Busy' = 0 /\ Ins' = Ins
    BY <1>8, <2>1 DEF Busy, Ins
  <2>3. Cardinality(Ins) \in Nat
    BY Bounds, FS_Subset, FS_CardinalityType DEF Ins
  <2>4. pending' = Len(queue') + Cardinality(Ins') + Busy'
    BY <1>0, <1>8, <2>1, <2>2, <2>3
  <2>. QED
    BY <2>4 DEF PendingIsExact, Ins, Busy
<1>9. CASE List
  <2>1. CASE Finish
    BY <1>8, <1>9, <2>1 DEF List
  <2>2. CASE worker' = [Idle EXCEPT !.step = "listed", !.todo = subs] /\ UNCHANGED pending
    BY <1>9, <2>2, PendingKept DEF List, Idle
  <2>. QED
    BY <1>9, <2>1, <2>2 DEF List
<1>10. CASE JobDone
  BY <1>8, <1>10 DEF JobDone
<1>11. CASE RemoveExpired
  <2>1. worker.step = "expired" /\ worker'.step = "listed"
    BY <1>0, <1>11 DEF RemoveExpired, Onward, Workers
  <2>. QED
    BY <1>11, <2>1, PendingKept DEF RemoveExpired
<1>12. ASSUME NEW a \in Responses, Send(a) PROVE PendingIsExact'
  <2>1. worker.step = "sending" /\ worker'.step \in {"expired", "sending", "listed"}
    BY <1>0, <1>12 DEF Send, Onward, Workers
  <2>. QED
    BY <1>12, <2>1, PendingKept DEF Send
<1>13. CASE Close \/ SetPreference
  BY <1>13, PendingKept DEF Close, SetPreference
<1>14. CASE WorkerEnds
  <2>1. worker.step = "idle" /\ worker'.step = "ended"
    BY <1>0, <1>14 DEF WorkerEnds, Workers
  <2>. QED
    BY <1>14, <2>1, PendingKept DEF WorkerEnds
<1>15. CASE Restart
  <2>1. /\ pending' = 0 /\ queue' = << >> /\ worker'.step = "idle"
        /\ \A c \in Callers : caller'[c] = "out"
    BY <1>15 DEF Restart, Idle
  <2>2. Ins' = {} /\ Busy' = 0 /\ Len(queue') = 0
    BY <2>1, EmptySeq DEF Ins, Busy
  <2>3. pending' = Len(queue') + Cardinality(Ins') + Busy'
    BY <2>1, <2>2, FS_EmptySet
  <2>. QED
    BY <2>3 DEF PendingIsExact, Ins, Busy
<1>16. ASSUME NEW e \in Endpoints, BrowserGone(e) PROVE PendingIsExact'
  BY <1>16, PendingKept DEF BrowserGone
<1>17. CASE UNCHANGED pushVars
  BY <1>17, PendingKept DEF pushVars
<1>. QED
  BY <1>1, <1>2, <1>3, <1>4, <1>5, <1>6, <1>7, <1>9, <1>10, <1>11, <1>12, <1>13, <1>14,
     <1>15, <1>16, <1>17, <1>a DEF PushNext, Stopped

\* Once closed, nobody enters; the worker leaves an empty queue that stays empty.
LEMMA CloseNext ==
  ASSUME PushBounds, PushTypes, NoSendAfterClose, EndsClosed, [PushNext]_pushVars
  PROVE  NoSendAfterClose' /\ EndsClosed'
<1>. USE DEF subscriptionVars, deliveryVars, NoSendAfterClose, EndsClosed
<1>0. worker \in Workers /\ caller \in [Callers -> {"out", "in"}]
  BY DEF PushTypes
<1>1. ASSUME NEW s \in Sessions,
             SessionStarts(s) \/ EndSession(s) \/ Expire(s) \/ DeleteAll(s)
             \/ ListOthers(s)
      PROVE  NoSendAfterClose' /\ EndsClosed'
  BY <1>1 DEF SessionStarts, EndSession, Expire, DeleteAll, ListOthers
<1>a. CASE EndOthers
  BY <1>a DEF EndOthers
<1>2. ASSUME NEW s \in Sessions, NEW e \in Endpoints, Authenticated(s, e) \/ Register(s, e)
      PROVE  NoSendAfterClose' /\ EndsClosed'
  BY <1>2 DEF Authenticated, Register
<1>3. ASSUME NEW r \in Record, Delete(r) \/ NextRecord(r)
      PROVE  NoSendAfterClose' /\ EndsClosed'
  <2>1. CASE Delete(r)
    BY <2>1 DEF Delete
  <2>2. CASE NextRecord(r)
    <3>1. worker'.step = "sending" /\ UNCHANGED <<closed, caller>>
      BY <1>0, <2>2 DEF NextRecord, Workers
    <3>. QED
      BY <3>1
  <2>. QED
    BY <1>3, <2>1, <2>2
<1>4. ASSUME NEW c \in Callers, NotifyEnter(c) PROVE NoSendAfterClose' /\ EndsClosed'
  BY <1>4 DEF NotifyEnter
<1>5. ASSUME NEW c \in Callers, NotifySend(c) PROVE NoSendAfterClose' /\ EndsClosed'
  <2>1. ~closed /\ closed' = closed /\ worker' = worker
    BY <1>5 DEF NotifySend
  <2>. QED
    BY <2>1
<1>6. CASE Take
  BY <1>6 DEF Take, Idle
<1>7. CASE List
  <2>1. worker'.step # "ended"
    BY <1>7, ListForms
  <2>2. UNCHANGED <<closed, caller>>
    BY <1>7 DEF List
  <2>. QED
    BY <2>1, <2>2
<1>8. CASE RemoveExpired
  BY <1>0, <1>8 DEF RemoveExpired, Onward, Workers
<1>9. CASE JobDone
  BY <1>9 DEF JobDone, Finish, Idle
<1>10. ASSUME NEW a \in Responses, Send(a) PROVE NoSendAfterClose' /\ EndsClosed'
  <2>1. worker.step = "sending" /\ worker'.step \in {"expired", "sending", "listed"}
    BY <1>0, <1>10 DEF Send, Onward, Workers
  <2>2. UNCHANGED <<closed, caller, queue>>
    BY <1>10 DEF Send
  <2>. QED
    BY <2>1, <2>2
<1>11. CASE Close \/ SetPreference
  BY <1>11 DEF Close, SetPreference
<1>12. CASE WorkerEnds
  BY <1>12 DEF WorkerEnds
<1>13. CASE Restart
  BY <1>13 DEF Restart, Idle
<1>14. ASSUME NEW e \in Endpoints, BrowserGone(e) PROVE NoSendAfterClose' /\ EndsClosed'
  BY <1>14 DEF BrowserGone
<1>15. CASE UNCHANGED pushVars
  BY <1>15 DEF pushVars
<1>. QED
  BY <1>1, <1>2, <1>3, <1>4, <1>5, <1>6, <1>7, <1>8, <1>9, <1>10, <1>11, <1>12, <1>13,
     <1>14, <1>15, <1>a DEF PushNext, Stopped

-----------------------------------------------------------------------------
(* The subscriptions                                                       *)

\* Steps that add no subscription and no record to the worker's snapshot.
LEMMA StoreShrinks ==
  ASSUME OneEach, IdsNameEndpoints, subs' \subseteq subs, ids' = ids,
         worker'.todo \subseteq Known, worker'.to \subseteq Known
  PROVE  OneEach' /\ IdsNameEndpoints'
<1>1. Known' \subseteq Known
  BY DEF Known
<1>. QED
  BY <1>1 DEF OneEach, IdsNameEndpoints

\* Every step keeps the subscriptions in order, and the worker's snapshot true to them.
LEMMA StoreNext ==
  ASSUME PushBounds, PushTypes, OneEach, IdsNameEndpoints, ExpiredIsGone,
         [PushNext]_pushVars
  PROVE  OneEach' /\ IdsNameEndpoints' /\ ExpiredIsGone'
<1>. USE DEF subscriptionVars, deliveryVars
<1>0. worker \in Workers /\ subs \subseteq Known /\ worker.todo \subseteq Known
      /\ worker.to \subseteq Known
  BY DEF PushTypes, Known
<1>1. ASSUME worker' = worker, gone \subseteq gone', subs' \subseteq subs, ids' = ids
      PROVE  OneEach' /\ IdsNameEndpoints' /\ ExpiredIsGone'
  BY <1>0, <1>1, StoreShrinks DEF ExpiredIsGone
<1>2. ASSUME worker'.step # "expired", worker'.todo \subseteq Known,
             worker'.to \subseteq Known, \A r, q \in worker'.to : r = q,
             subs' \subseteq subs, ids' = ids
      PROVE  OneEach' /\ IdsNameEndpoints' /\ ExpiredIsGone'
  BY <1>2, StoreShrinks DEF ExpiredIsGone
<1>3. ASSUME NEW s \in Sessions,
             SessionStarts(s) \/ EndSession(s) \/ Expire(s) \/ DeleteAll(s)
             \/ ListOthers(s)
      PROVE  OneEach' /\ IdsNameEndpoints' /\ ExpiredIsGone'
  BY <1>1, <1>3 DEF SessionStarts, EndSession, Expire, DeleteAll, ListOthers, Saved
<1>a. CASE EndOthers
  BY <1>1, <1>a DEF EndOthers
<1>4. ASSUME NEW s \in Sessions, NEW e \in Endpoints, Authenticated(s, e)
      PROVE  OneEach' /\ IdsNameEndpoints' /\ ExpiredIsGone'
  BY <1>1, <1>4 DEF Authenticated
<1>5. ASSUME NEW s \in Sessions, NEW e \in Endpoints, Register(s, e)
      PROVE  OneEach' /\ IdsNameEndpoints' /\ ExpiredIsGone'
  <2>1. /\ \A r, q \in Upserted(s, e) : r # q => r.id # q.id /\ r.endpoint # q.endpoint
        /\ \A r \in Upserted(s, e) : r.id <= ids + 1
        /\ \A r \in Upserted(s, e), q \in Known : r.id = q.id => r.endpoint = q.endpoint
    BY <1>5, UpsertedInOrder DEF Register
  <2>2. subs' \in {subs, Upserted(s, e)} /\ ids' = ids + 1 /\ worker' = worker
        /\ gone' = gone
    BY <1>5 DEF Register, Saved
  <2>3. OneEach'
    BY <2>1, <2>2 DEF OneEach
  <2>4. Known' \subseteq Known \cup Upserted(s, e)
    BY <2>2 DEF Known
  <2>5. \A r \in Known : r.id <= ids + 1
    <3>. SUFFICES ASSUME NEW r \in Known PROVE r.id <= ids + 1
      OBVIOUS
    <3>1. r \in Record /\ r.id <= ids
      BY <1>0 DEF Known, PushTypes, Workers, IdsNameEndpoints
    <3>2. r.id \in Nat /\ ids \in Nat
      BY <3>1 DEF Record, PushTypes
    <3>. QED
      BY <3>1, <3>2
  <2>6. IdsNameEndpoints'
    <3>1. \A r \in Known' : r.id <= ids'
      BY <2>1, <2>2, <2>4, <2>5
    <3>2. \A r, q \in Known \cup Upserted(s, e) : r.id = q.id => r.endpoint = q.endpoint
      BY <2>1 DEF IdsNameEndpoints
    <3>. QED
      BY <2>4, <3>1, <3>2 DEF IdsNameEndpoints
  <2>. QED
    BY <2>2, <2>3, <2>6 DEF ExpiredIsGone
<1>6. ASSUME NEW r \in Record, Delete(r)
      PROVE  OneEach' /\ IdsNameEndpoints' /\ ExpiredIsGone'
  BY <1>1, <1>6 DEF Delete, Saved
<1>7. ASSUME NEW r \in Record, NextRecord(r)
      PROVE  OneEach' /\ IdsNameEndpoints' /\ ExpiredIsGone'
  <2>1. /\ worker'.step = "sending" /\ worker'.todo \subseteq worker.todo
        /\ worker'.to = {r} /\ r \in worker.todo
    BY <1>0, <1>7 DEF NextRecord, Workers
  <2>. QED
    BY <1>0, <1>2, <1>7, <2>1 DEF NextRecord
<1>8. ASSUME NEW c \in Callers, NotifyEnter(c) \/ NotifySend(c)
      PROVE  OneEach' /\ IdsNameEndpoints' /\ ExpiredIsGone'
  BY <1>1, <1>8 DEF NotifyEnter, NotifySend
<1>9. CASE Take \/ JobDone
  <2>1. worker'.step # "expired" /\ worker'.todo = {} /\ worker'.to = {}
    BY <1>9 DEF Take, JobDone, Finish, Idle
  <2>. QED
    BY <1>2, <1>9, <2>1 DEF Take, JobDone
<1>10. CASE List
  <2>1. worker'.step # "expired" /\ worker'.todo \subseteq subs /\ worker'.to = {}
    BY <1>10, ListForms
  <2>. QED
    BY <1>0, <1>2, <1>10, <2>1 DEF List
<1>11. CASE RemoveExpired
  <2>1. worker'.step = "listed" /\ worker'.todo = worker.todo /\ worker'.to = {}
    BY <1>0, <1>11 DEF RemoveExpired, Onward, Workers
  <2>2. subs' \subseteq subs /\ ids' = ids
    BY <1>11 DEF RemoveExpired, Saved
  <2>. QED
    BY <1>0, <1>2, <2>1, <2>2
<1>12. ASSUME NEW a \in Responses, Send(a)
       PROVE  OneEach' /\ IdsNameEndpoints' /\ ExpiredIsGone'
  <2>1. PICK r \in worker.to : /\ a \in Answers(r)
          /\ worker' = IF Permanent(a) THEN [worker EXCEPT !.step = "expired"]
                       ELSE IF Retryable(a) /\ worker.attempt < RetryAttempts /\ ~closed
                       THEN [worker EXCEPT !.attempt = @ + 1] ELSE Onward(worker)
    BY <1>12 DEF Send
  <2>2. UNCHANGED <<subs, ids, gone>> /\ worker.step = "sending"
    BY <1>12 DEF Send
  <2>3. CASE Permanent(a)
    <3>1. r.endpoint \in gone
      BY <2>1, <2>3 DEF Permanent, Answers
    <3>2. /\ worker'.step = "expired" /\ worker'.to = worker.to
          /\ worker'.todo = worker.todo
      BY <1>0, <2>1, <2>3 DEF Workers
    <3>3. ExpiredIsGone'
      BY <2>1, <2>2, <3>1, <3>2 DEF ExpiredIsGone
    <3>. QED
      BY <1>0, <2>2, <3>2, <3>3, StoreShrinks
  <2>4. CASE ~Permanent(a)
    <3>1. worker' = [worker EXCEPT !.attempt = @ + 1] \/ worker' = Onward(worker)
      BY <2>1, <2>4
    <3>2. /\ worker'.step # "expired" /\ worker'.to \subseteq worker.to
          /\ worker'.todo = worker.todo
      BY <1>0, <2>2, <3>1 DEF Workers, Onward
    <3>3. \A q, p \in worker'.to : q = p
      BY <3>2 DEF ExpiredIsGone
    <3>. QED
      BY <1>0, <1>2, <2>2, <3>2, <3>3
  <2>. QED
    BY <2>3, <2>4
<1>13. CASE Close \/ SetPreference
  BY <1>1, <1>13 DEF Close, SetPreference
<1>14. CASE WorkerEnds
  <2>1. /\ worker'.step = "ended" /\ worker'.to = worker.to /\ worker'.todo = worker.todo
        /\ UNCHANGED <<subs, ids>>
    BY <1>0, <1>14 DEF WorkerEnds, Workers
  <2>2. \A q, p \in worker'.to : q = p
    BY <2>1 DEF ExpiredIsGone
  <2>. QED
    BY <1>0, <1>2, <2>1, <2>2
<1>15. CASE Restart
  <2>1. worker'.step = "idle" /\ worker'.todo = {} /\ worker'.to = {}
    BY <1>15 DEF Restart, Idle
  <2>2. subs' \subseteq subs /\ ids' = ids
    BY <1>15 DEF Restart, Pruned
  <2>. QED
    BY <1>2, <2>1, <2>2
<1>16. ASSUME NEW e \in Endpoints, BrowserGone(e)
       PROVE  OneEach' /\ IdsNameEndpoints' /\ ExpiredIsGone'
  BY <1>1, <1>16 DEF BrowserGone
<1>17. CASE UNCHANGED pushVars
  BY <1>1, <1>17 DEF pushVars
<1>. QED
  BY <1>3, <1>4, <1>5, <1>6, <1>7, <1>8, <1>9, <1>10, <1>11, <1>12, <1>13, <1>14, <1>15,
     <1>16, <1>17, <1>a DEF PushNext, Stopped

-----------------------------------------------------------------------------
(* The theorems                                                            *)

\* The invariant holds initially.
LEMMA PushInitInv == ASSUME PushBounds, PushInit PROVE PushInv
<1>1. << >> \in Seq({"job"}) /\ Len(<< >>) = 0
  BY EmptySeq
<1>2. PushTypes
  <2>1. worker \in Workers
    BY Bounds DEF PushInit, Workers, Idle, Steps
  <2>2. /\ subs \subseteq Record /\ ids \in 0..MaxIds
        /\ session \in [Sessions -> {"new", "live", "dead"}]
        /\ cleanups = {} /\ keeper = {} /\ otherSessions = {}
        /\ requests \subseteq Sessions \X Endpoints
        /\ gone \subseteq Endpoints
    BY Bounds DEF PushInit
  <2>3. {allowed, closed} \subseteq BOOLEAN
    BY DEF PushInit
  <2>4. queue \in Seq({"job"}) /\ Len(queue) <= QueueSize
    BY <1>1, Bounds DEF PushInit
  <2>5. /\ caller \in [Callers -> {"out", "in"}]
        /\ handed \in 0..MaxMessages /\ pushFaults \in 0..MaxPushFaults
    BY Bounds DEF PushInit
  <2>. QED
    BY <2>1, <2>2, <2>3, <2>4, <2>5 DEF PushTypes
<1>3. PendingIsExact
  <2>1. Ins = {}
    BY DEF PushInit, Ins
  <2>2. Busy = 0 /\ pending = 0 /\ Len(queue) = 0
    BY <1>1 DEF PushInit, Busy, Idle
  <2>3. pending = Len(queue) + Cardinality(Ins) + Busy
    BY <2>1, <2>2, FS_EmptySet
  <2>. QED
    BY <2>3, PendingSum
<1>4. NoSendAfterClose /\ EndsClosed
  BY DEF PushInit, NoSendAfterClose, EndsClosed, Idle
<1>5. OneEach /\ IdsNameEndpoints /\ ExpiredIsGone
  BY DEF PushInit, OneEach, IdsNameEndpoints, ExpiredIsGone, Idle, Known
<1>. QED
  BY <1>2, <1>3, <1>4, <1>5 DEF PushInv

\* Every step keeps the invariant.
LEMMA PushNextInv == ASSUME PushBounds, PushInv, [PushNext]_pushVars PROVE PushInv'
  BY TypesNext, PendingNext, CloseNext, StoreNext DEF PushInv

\* The invariant says what the runs check.
LEMMA PushInvSafe == ASSUME PushBounds, PushInv PROVE PushSafe
<1>1. pending \in 0..(QueueSize + Cardinality(Callers) + 1)
  <2>1. /\ Cardinality(Ins) \in Nat /\ Cardinality(Callers) \in Nat
        /\ Cardinality(Ins) <= Cardinality(Callers)
    BY Bounds, FS_Subset, FS_CardinalityType DEF Ins
  <2>2. Len(queue) \in Nat /\ Len(queue) <= QueueSize /\ QueueSize \in Nat
    BY Bounds, LenProperties DEF PushInv, PushTypes
  <2>3. pending = Len(queue) + Cardinality(Ins) + Busy /\ Busy \in 0..1
    BY PendingSum DEF PushInv, Busy
  <2>. QED
    BY <2>1, <2>2, <2>3
<1>2. PushTypeOK
  BY <1>1 DEF PushInv, PushTypes, PushTypeOK, Workers
<1>3. RegistrationAccepted
  <2>. SUFFICES ASSUME NEW q \in requests, ids < MaxIds,
                       Cardinality(Upserted(q[1], q[2])) <= MaxSubscriptions
                PROVE  ValidSubs(Upserted(q[1], q[2]))
    BY DEF RegistrationAccepted
  <2>1. q[1] \in Sessions /\ q[2] \in Endpoints
    BY DEF PushInv, PushTypes
  <2>. QED
    BY <2>1, UpsertedInOrder DEF PushInv, ValidSubs
<1>. QED
  BY <1>2, <1>3 DEF PushInv, PushSafe

\* The count of pending jobs is exact, nobody sends to a closed queue, and a registration
\* is refused only when the store is full.
THEOREM PushHolds == ASSUME PushBounds PROVE PushSpec => []PushSafe
<1>1. PushInit => PushInv
  BY PushInitInv
<1>2. PushInv /\ [PushNext]_pushVars => PushInv'
  BY PushNextInv
<1>3. PushInv => PushSafe
  BY PushInvSafe
<1>. QED
  BY <1>1, <1>2, <1>3, PTL DEF PushSpec

\* The worker deletes the subscriptions of endpoints that are gone and no others, also
\* when they were registered again since it read them.
THEOREM GoneHolds == ASSUME PushBounds PROVE PushSpec => OnlyGoneRemoved
<1>1. PushInit => PushInv
  BY PushInitInv
<1>2. PushInv /\ [PushNext]_pushVars => PushInv'
  BY PushNextInv
<1>3. PushInv /\ [PushNext]_pushVars =>
        [\A r \in subs \ subs' : worker.step = "expired" /\ worker'.step = "listed"
            => r.endpoint \in gone]_pushVars
  <2>. SUFFICES ASSUME PushInv, PushNext, NEW r \in subs \ subs', worker.step = "expired",
                       worker'.step = "listed"
                PROVE  r.endpoint \in gone
    OBVIOUS
  <2>. USE DEF subscriptionVars, deliveryVars
  <2>1. ASSUME worker' = worker \/ worker.step # "expired" \/ worker'.step # "listed"
        PROVE  FALSE
    BY <2>1
  <2>2. RemoveExpired
    <3>1. \A s \in Sessions : ~(\/ SessionStarts(s) \/ EndSession(s) \/ ListOthers(s)
                                \/ DeleteAll(s) \/ Expire(s))
      BY <2>1 DEF SessionStarts, EndSession, ListOthers, DeleteAll, Expire
    <3>0. ~EndOthers
      BY <2>1 DEF EndOthers
    <3>2. \A s \in Sessions, e \in Endpoints : ~(Authenticated(s, e) \/ Register(s, e))
      BY <2>1 DEF Authenticated, Register
    <3>3. \A q \in Record : ~(Delete(q) \/ NextRecord(q))
      BY <2>1 DEF Delete, NextRecord
    <3>4. \A c \in Callers : ~(NotifyEnter(c) \/ NotifySend(c))
      BY <2>1 DEF NotifyEnter, NotifySend
    <3>5. ~(Take \/ List \/ JobDone)
      BY <2>1 DEF Take, List, JobDone
    <3>6. \A a \in Responses : ~Send(a)
      BY <2>1 DEF Send
    <3>7. ~(Close \/ WorkerEnds \/ SetPreference \/ Stopped)
      BY <2>1 DEF Close, WorkerEnds, SetPreference, Stopped
    <3>8. ~Restart
      BY <2>1 DEF Restart, Idle
    <3>9. \A e \in Endpoints : ~BrowserGone(e)
      BY <2>1 DEF BrowserGone
    <3>. QED
      BY <3>0, <3>1, <3>2, <3>3, <3>4, <3>5, <3>6, <3>7, <3>8, <3>9 DEF PushNext
  <2>3. PICK q \in worker.to : r.id = q.id
    BY <2>2 DEF RemoveExpired, Saved
  <2>4. r \in Known /\ q \in Known /\ q.endpoint \in gone
    BY DEF PushInv, ExpiredIsGone, Known
  <2>. QED
    BY <2>3, <2>4 DEF PushInv, IdsNameEndpoints
<1>. QED
  BY <1>1, <1>2, <1>3, PTL DEF PushSpec, OnlyGoneRemoved

-----------------------------------------------------------------------------
(* Reading files: the windows                                              *)

Asked(r, size) ==
    CASE r = NoRange -> 0..(Window - 1)
      [] r = Whole -> 0..(size - 1)
      [] r.first = 0 - 2 -> (size - r.last)..(size - 1)
      [] r.first >= 0 /\ r.last = 0 - 1 -> r.first..(size - 1)
      [] OTHER -> r.first..r.last

\* contentRange returns a window inside the file, of the bytes that were asked for.
LEMMA ContentRangeIsExact ==
  ASSUME ListingBounds, NEW size \in Nat, NEW r \in Ranges, NEW w, w = ContentRange(r, size), w # Refused
  PROVE  /\ w \in [start : Nat, length : Nat]
         /\ w.start..(w.start + w.length - 1) = Asked(r, size) \cap 0..(size - 1)
         /\ w.start + w.length <= size
<1>1. Window \in Nat /\ MaxSize \in Nat
  BY DEF ListingBounds
<1>2. CASE r = NoRange
  <2>1. w = [start |-> 0, length |-> IF size < Window THEN size ELSE Window] /\ Asked(r, size) = 0..(Window - 1)
    BY <1>2 DEF ContentRange, Asked, NoRange, Whole
  <2>. QED  BY <1>1, <2>1
<1>a. CASE r = Whole
  <2>0. r # NoRange
    BY <1>a DEF Whole, NoRange
  <2>1. w = [start |-> 0, length |-> size] /\ Asked(r, size) = 0..(size - 1)
    BY <1>a, <2>0 DEF ContentRange, Asked, Whole
  <2>. QED  BY <2>1
<1>3. ASSUME NEW n \in 0..(MaxSize + 1), r = Suffix(n)
      PROVE  /\ w \in [start : Nat, length : Nat]
             /\ w.start..(w.start + w.length - 1) = Asked(r, size) \cap 0..(size - 1)
             /\ w.start + w.length <= size
  <2>1. r.first = 0 - 2 /\ r.last = n /\ r # NoRange /\ r # Whole /\ n \in Nat
    BY <1>1, <1>3 DEF Suffix, NoRange, Whole
  <2>2. size > 0 /\ n > 0
    BY <2>1 DEF ContentRange
  <2>. DEFINE m == IF n > size THEN size ELSE n
  <2>3. w = [start |-> size - m, length |-> m]
    BY <2>1, <2>2 DEF ContentRange
  <2>4. Asked(r, size) = (size - n)..(size - 1)
    BY <2>1 DEF Asked
  <2>5. m \in Nat /\ size - m \in Nat /\ size - m + m - 1 = size - 1 /\ size - m + m = size
    BY <2>1
  <2>6. (size - m)..(size - 1) = Asked(r, size) \cap 0..(size - 1)
    BY <2>1, <2>4
  <2>. HIDE DEF m
  <2>. QED  BY <2>3, <2>5, <2>6
<1>4. ASSUME NEW a \in 0..(MaxSize + 1), NEW b \in (0 - 1)..(MaxSize + 1), r = ByteRange(a, b)
      PROVE  /\ w \in [start : Nat, length : Nat]
             /\ w.start..(w.start + w.length - 1) = Asked(r, size) \cap 0..(size - 1)
             /\ w.start + w.length <= size
  <2>1. r.first = a /\ r.last = b /\ a \in Nat /\ b \in Int /\ b >= 0 - 1 /\ r # NoRange /\ r # Whole
    BY <1>1, <1>4 DEF ByteRange, NoRange, Whole
  <2>. DEFINE last == IF b = 0 - 1 \/ b >= size THEN size - 1 ELSE b
  <2>2. size > 0 /\ a < size /\ (b = 0 - 1 \/ b >= a)
    BY <2>1 DEF ContentRange
  <2>3. w = [start |-> a, length |-> last - a + 1]
    BY <2>1, <2>2 DEF ContentRange
  <2>4. Asked(r, size) = IF b = 0 - 1 THEN a..(size - 1) ELSE a..b
    BY <2>1 DEF Asked
  <2>5. last \in Nat /\ last >= a /\ last <= size - 1
    BY <2>1, <2>2
  <2>6. a..last = Asked(r, size) \cap 0..(size - 1)
    BY <2>1, <2>2, <2>4
  <2>. HIDE DEF last
  <2>7. w \in [start : Nat, length : Nat] /\ w.start + w.length - 1 = last /\ w.start + w.length <= size
    BY <2>1, <2>3, <2>5
  <2>. QED  BY <2>3, <2>6, <2>7
<1>. QED  BY <1>2, <1>3, <1>4, <1>a DEF Ranges

-----------------------------------------------------------------------------
(* Reading files: the pages of a listing                                   *)

Snapshot == [root : Roots, size : 0..MaxEntries, live : BOOLEAN]
Cursor == [id : 0..MaxListings, offset : Nat]

\* A page is the entries of its listing from the offset on, and its cursor says what
\* comes next.
PageFits(page, i, size, offset) ==
    /\ page.entries \in Seq(Entry) /\ page.cursor \in Cursor
    /\ offset + Len(page.entries) <= size
    /\ \A k \in DOMAIN page.entries : page.entries[k] = <<i, offset + k>>
    /\ page.cursor.id = 0 => offset + Len(page.entries) = size
    /\ page.cursor.id # 0 => /\ page.cursor.id = i /\ Len(page.entries) > 0
                             /\ page.cursor.offset = offset + Len(page.entries)

LEMMA PageFollows ==
  ASSUME ListingBounds, NEW i \in Listings, NEW size \in 0..MaxEntries, NEW offset \in 0..size,
         NEW limit \in 1..2, NEW page, page = Page(i, size, offset, limit)
  PROVE  PageFits(page, i, size, offset)
<1>1. MaxEntries \in Nat /\ MaxListings \in Nat /\ size \in Nat /\ offset \in Nat /\ limit \in Nat \ {0}
      /\ offset <= size /\ i # 0 /\ i \in 0..MaxListings
  BY DEF ListingBounds, Listings
<1>. DEFINE end == IF offset + limit > size THEN size ELSE offset + limit
            n   == end - offset
            es  == [k \in 1..n |-> <<i, offset + k>>]
            c   == IF end < size THEN [id |-> i, offset |-> end] ELSE [id |-> 0, offset |-> 0]
<1>2. page.entries = es /\ page.cursor = c
  BY DEF Page
<1>3. end \in Nat /\ n \in Nat /\ offset + n = end /\ end <= size /\ (end < size => n > 0)
  BY <1>1
<1>. HIDE DEF end, n
<1>4. \A k \in 1..n : <<i, offset + k>> \in Entry
  BY <1>1, <1>3 DEF Entry
<1>5. es \in [1..n -> Entry]
  BY <1>4
<1>6. es \in Seq(Entry) /\ Len(es) = n
  <2>1. es \in Seq(Entry)
    BY <1>3, <1>5
  <2>2. DOMAIN es = 1..n
    OBVIOUS
  <2>. HIDE DEF es
  <2>. QED  BY <1>3, <2>1, <2>2
<1>7. c \in Cursor
  BY <1>1, <1>3 DEF Cursor
<1>8. \A k \in DOMAIN es : es[k] = <<i, offset + k>>
  OBVIOUS
<1>. HIDE DEF es
<1>. QED  BY <1>1, <1>2, <1>3, <1>6, <1>7, <1>8 DEF PageFits

-----------------------------------------------------------------------------
(* Reading files: the invariant                                            *)

Reader == [root : Roots \union {NoRoot}, got : Seq(Entry), cursor : Cursor]
Content == [step : {"none", "stated", "restated", "opened", "served", "refused"},
            root : Roots \union {NoRoot}, seen : Nat, start : Nat, length : Nat,
            again : Nat, from : Nat]

\* What the client has got is of a snapshot the server knows; its cursor names that
\* snapshot and the first entry it has not got.
CursorFits ==
    /\ reader.got # <<>> => reader.got[1][1] \in DOMAIN snapshots
    /\ reader.cursor.id # 0 =>
          /\ reader.cursor.id \in DOMAIN snapshots
          /\ reader.got # <<>> /\ reader.got[1][1] = reader.cursor.id
          /\ reader.cursor.offset = Len(reader.got)
          /\ reader.cursor.offset <= snapshots[reader.cursor.id].size

\* The window fits what both stats saw; nothing is read from a version older than that.
Stated == {"stated", "restated", "opened", "served"}
WindowFits ==
    /\ content.step \in Stated =>
          /\ content.seen \in 1..Current
          /\ content.start + content.length <= versions[content.seen].size
    /\ content.step \in Stated \ {"stated"} =>
          /\ content.again \in 1..Current
          /\ content.start + content.length <= versions[content.again].size
    /\ content.step \in {"opened", "served"} => content.from \in content.again..Current
    /\ content.step = "served" => versions[content.again] = versions[content.seen]

ListingTyped ==
    /\ pane \in PaneRoots \union {NoRoot} /\ tmuxFailed \in BOOLEAN
    /\ versions \in Seq(Version) /\ Current \in 1..MaxVersions
    /\ wentBack \in 0..2
    /\ snapshots \in Seq(Snapshot) /\ Len(snapshots) <= MaxListings
    /\ reader \in Reader /\ content \in Content

ListingInv ==
    /\ ListingTyped /\ PagesOfOneListing /\ CursorFits /\ WindowFits

LEMMA ListingStart == ASSUME ListingBounds, ListingInit PROVE ListingInv
<1>1. MaxVersions \in Nat /\ MaxVersions >= 1 /\ MaxListings \in Nat
  BY DEF ListingBounds
<1>2. reader \in Reader /\ reader.got = <<>> /\ reader.cursor.id = 0
  BY <1>1 DEF ListingInit, NoReader, Reader, Cursor
<1>3. content \in Content /\ content.step = "none"
  BY <1>1 DEF ListingInit, NoContent, Content
<1>4. /\ snapshots \in Seq(Snapshot) /\ Len(snapshots) = 0
      /\ versions \in Seq(Version) /\ Current \in 1..MaxVersions /\ wentBack \in 0..2
      /\ pane \in PaneRoots \union {NoRoot} /\ tmuxFailed \in BOOLEAN
  <2>1. snapshots = <<>> /\ wentBack = 0 /\ pane \in PaneRoots /\ tmuxFailed = FALSE
    BY DEF ListingInit
  <2>a. PICK v : v \in Version /\ versions = <<v>>
    <3>1. PICK size \in 0..MaxSize : versions = <<[size |-> size, stamp |-> 1]>>
      BY DEF ListingInit
    <3>2. [size |-> size, stamp |-> 1] \in Version
      BY DEF Version
    <3>. QED  BY <3>1, <3>2
  <2>b. versions \in Seq(Version) /\ Len(versions) = 1
    <3>. HIDE DEF Version
    <3>. QED  BY <2>a
  <2>2. snapshots \in Seq(Snapshot) /\ Len(snapshots) = 0
    BY <2>1
  <2>3. Current \in 1..MaxVersions /\ wentBack \in 0..2
    BY <1>1, <2>1, <2>b DEF Current
  <2>4. pane \in PaneRoots \union {NoRoot} /\ tmuxFailed \in BOOLEAN
    BY <2>1
  <2>. QED  BY <2>2, <2>3, <2>4, <2>b
<1>5. ListingTyped
  BY <1>1, <1>2, <1>3, <1>4 DEF ListingTyped
<1>. QED
  BY <1>2, <1>3, <1>5 DEF ListingInv, PagesOfOneListing, CursorFits, WindowFits, Stated

\* The root that is read is one of the known ones.
LEMMA RootTyped == ASSUME ListingTyped PROVE Root \in Roots
BY DEF ListingTyped, Root, ProbeTmuxRoot, Roots

\* Steps that leave the reader and its snapshot's entries alone.
LEMMA ReaderKeeps ==
  ASSUME PagesOfOneListing, CursorFits, UNCHANGED reader, DOMAIN snapshots' = DOMAIN snapshots,
         \A i \in DOMAIN snapshots :
            snapshots'[i].root = snapshots[i].root /\ snapshots'[i].size = snapshots[i].size
  PROVE  PagesOfOneListing' /\ CursorFits'
<1>1. ASSUME NEW k \in DOMAIN reader.got  PROVE reader.got # <<>>
  BY <1>1
<1>2. CursorFits'
  BY DEF CursorFits
<1>3. PagesOfOneListing'
  BY <1>1 DEF PagesOfOneListing, CursorFits
<1>. QED  BY <1>2, <1>3

\* One snapshot is dropped.
LEMMA DropTyped ==
  ASSUME snapshots \in Seq(Snapshot), NEW i \in DOMAIN snapshots,
         snapshots' = [snapshots EXCEPT ![i].live = FALSE]
  PROVE  /\ snapshots' \in Seq(Snapshot) /\ Len(snapshots') = Len(snapshots)
         /\ DOMAIN snapshots' = DOMAIN snapshots
         /\ \A j \in DOMAIN snapshots :
               snapshots'[j].root = snapshots[j].root /\ snapshots'[j].size = snapshots[j].size
<1>. DEFINE s == [snapshots[i] EXCEPT !.live = FALSE]
<1>0. snapshots[i] \in Snapshot
  OBVIOUS
<1>1. s \in Snapshot /\ s.root = snapshots[i].root /\ s.size = snapshots[i].size
  BY <1>0 DEF Snapshot
<1>2. snapshots' = [snapshots EXCEPT ![i] = s]
  OBVIOUS
<1>. HIDE DEF s
<1>3. DOMAIN snapshots' = DOMAIN snapshots /\ \A j \in DOMAIN snapshots : snapshots'[j] = IF j = i THEN s ELSE snapshots[j]
  BY <1>2
<1>4. snapshots' \in Seq(Snapshot) /\ Len(snapshots') = Len(snapshots)
  <2>. HIDE DEF Snapshot
  <2>1. snapshots \in [1..Len(snapshots) -> Snapshot] /\ Len(snapshots) \in Nat
    OBVIOUS
  <2>2. snapshots' \in [1..Len(snapshots) -> Snapshot]
    BY <1>1, <1>2, <2>1
  <2>3. snapshots' \in Seq(Snapshot)
    BY <2>1, <2>2
  <2>. QED  BY <2>1, <2>2, <2>3
<1>. QED  BY <1>1, <1>3, <1>4

-----------------------------------------------------------------------------
(* Reading files: the steps                                                *)

ListingPart == PagesOfOneListing /\ CursorFits

LEMMA ListKeeps ==
  ASSUME ListingBounds, ListingInv, NEW size \in 0..MaxEntries, NEW limit \in 1..2, NEW revision,
         ListEntries(revision, size, limit)
  PROVE  ListingTyped' /\ ListingPart'
<1>. USE DEF ListingInv
<1>. DEFINE i == Len(snapshots) + 1
            page == Page(i, size, 0, limit)
            s == [root |-> Root, size |-> size, live |-> TRUE]
<1>1. /\ snapshots \in Seq(Snapshot) /\ Len(snapshots) \in Nat /\ Len(snapshots) < MaxListings
      /\ MaxListings \in Nat /\ MaxEntries \in Nat /\ 0 \in 0..size
  BY DEF ListingTyped, ListEntries, ListingBounds
<1>2. i \in Listings /\ i # 0 /\ i <= MaxListings
  BY <1>1 DEF Listings
<1>3. s \in Snapshot /\ s.root = Root /\ s.size = size
  BY RootTyped DEF Snapshot
<1>4. /\ snapshots' = Append(snapshots, s)
      /\ reader' = [root |-> Root, got |-> page.entries, cursor |-> page.cursor]
      /\ tmuxFailed' \in BOOLEAN /\ UNCHANGED <<pane, versions, wentBack, content>>
  BY DEF ListEntries, RememberFailure, remote, ListingTyped
<1>. HIDE DEF i, s
<1>5. /\ page.entries \in Seq(Entry) /\ page.cursor \in Cursor
      /\ 0 + Len(page.entries) <= size
      /\ \A k \in DOMAIN page.entries : page.entries[k] = <<i, 0 + k>>
      /\ page.cursor.id = 0 => 0 + Len(page.entries) = size
      /\ page.cursor.id # 0 => /\ page.cursor.id = i /\ Len(page.entries) > 0
                               /\ page.cursor.offset = 0 + Len(page.entries)
  <2>1. PageFits(page, i, size, 0)
    BY <1>1, <1>2, PageFollows
  <2>. HIDE DEF page
  <2>. QED  BY <2>1 DEF PageFits
<1>. HIDE DEF page
<1>6. /\ snapshots' \in Seq(Snapshot) /\ Len(snapshots') = i /\ snapshots'[i] = s /\ i \in DOMAIN snapshots'
  BY <1>1, <1>3, <1>4 DEF i
<1>7. reader' \in Reader /\ reader'.got = page.entries /\ reader'.cursor = page.cursor /\ reader'.root = Root
  BY <1>4, <1>5, RootTyped DEF Reader
<1>8. \A k \in DOMAIN page.entries : k \in Nat /\ page.entries[k] = <<i, k>> /\ 1 \in DOMAIN page.entries
  BY <1>5
<1>9. page.entries # <<>> => 1 \in DOMAIN page.entries
  BY <1>5
<1>10. page.entries # <<>> => page.entries[1][1] = i
  BY <1>8, <1>9
<1>11. ListingTyped'
  BY <1>2, <1>4, <1>6, <1>7 DEF ListingTyped, Current
<1>12. CursorFits'
  <2>1. reader'.got # <<>> => reader'.got[1][1] \in DOMAIN snapshots'
    BY <1>6, <1>7, <1>10
  <2>2. Len(page.entries) > 0 => page.entries # <<>>
    OBVIOUS
  <2>3. Len(page.entries) \in Nat /\ 0 + Len(page.entries) = Len(page.entries)
    BY <1>5
  <2>. QED  BY <1>3, <1>5, <1>6, <1>7, <1>10, <2>1, <2>2, <2>3 DEF CursorFits
<1>13. PagesOfOneListing'
  <2>. SUFFICES ASSUME NEW k \in DOMAIN page.entries
                PROVE  /\ page.entries[1][1] = i /\ page.entries[k] = <<i, k>>
                       /\ Root = snapshots'[i].root
                       /\ page.cursor.id = 0 => Len(page.entries) = snapshots'[i].size
    BY <1>7 DEF PagesOfOneListing
  <2>1. page.entries # <<>> /\ Len(page.entries) \in Nat
    BY <1>5
  <2>. QED  BY <1>3, <1>5, <1>6, <1>8, <1>10, <2>1
<1>. QED  BY <1>11, <1>12, <1>13 DEF ListingPart

\* What the client has got, and the entries of the next page of the same listing.
InOrder(s, i) == s # <<>> /\ s[1][1] = i /\ \A k \in DOMAIN s : s[k] = <<i, k>>
Follow(es, i, n) == \A k \in DOMAIN es : es[k] = <<i, n + k>>

LEMMA GotExtends ==
  ASSUME NEW got \in Seq(Entry), NEW i, InOrder(got, i), NEW es \in Seq(Entry),
         Follow(es, i, Len(got)), NEW all, all = got \o es
  PROVE  all \in Seq(Entry) /\ Len(all) = Len(got) + Len(es) /\ InOrder(all, i)
<1>. USE DEF InOrder, Follow
<1>1. Len(got) \in Nat /\ Len(es) \in Nat /\ Len(got) > 0 /\ DOMAIN got = 1..Len(got) /\ DOMAIN es = 1..Len(es)
  OBVIOUS
<1>2. all \in Seq(Entry) /\ Len(all) = Len(got) + Len(es)
  OBVIOUS
<1>3. DOMAIN all = 1..(Len(got) + Len(es))
  BY <1>2
<1>4. \A k \in 1..Len(got) : all[k] = got[k]
  BY <1>1
<1>5. \A k \in 1..Len(es) : all[Len(got) + k] = es[k]
  BY <1>1
<1>6. ASSUME NEW k \in DOMAIN all  PROVE all[k] = <<i, k>>
  <2>1. CASE k \in 1..Len(got)
    BY <1>1, <1>4, <2>1
  <2>2. CASE k \notin 1..Len(got)
    <3>1. k - Len(got) \in 1..Len(es) /\ Len(got) + (k - Len(got)) = k
      BY <1>1, <1>3, <2>2
    <3>2. all[k] = es[k - Len(got)]
      BY <1>5, <3>1
    <3>. QED  BY <1>1, <3>1, <3>2
  <2>. QED  BY <2>1, <2>2
<1>7. 1 \in DOMAIN all /\ all # <<>>
  <2>1. 1 \in DOMAIN all
    BY <1>1, <1>3
  <2>. QED  BY <2>1
<1>8. all[1][1] = i
  BY <1>6, <1>7
<1>. QED  BY <1>2, <1>6, <1>7, <1>8

LEMMA NextPageKeeps ==
  ASSUME ListingBounds, ListingInv, NEW limit \in 1..2, NEW revision, NextPage(revision, limit)
  PROVE  ListingTyped' /\ ListingPart'
<1>. USE DEF ListingInv
<1>1. PICK i, offset, got : i = reader.cursor.id /\ offset = reader.cursor.offset /\ got = reader.got
  OBVIOUS
<1>2. PICK size : size = snapshots[i].size
  OBVIOUS
<1>3. PICK page : page = Page(i, size, offset, limit)
  OBVIOUS
<1>4. /\ snapshots \in Seq(Snapshot) /\ Len(snapshots) \in Nat /\ Len(snapshots) <= MaxListings
      /\ reader \in Reader /\ got \in Seq(Entry) /\ reader.cursor \in Cursor
      /\ MaxListings \in Nat /\ MaxEntries \in Nat
  BY <1>1 DEF ListingTyped, ListingBounds, Reader
<1>5. /\ i # 0 /\ i \in DOMAIN snapshots /\ got # <<>> /\ got[1][1] = i
      /\ offset = Len(got) /\ offset <= size
  BY <1>1, <1>2 DEF NextPage, CursorFits
<1>6. i \in Listings /\ size \in 0..MaxEntries /\ offset \in 0..size
  <2>1. i \in Nat /\ offset \in Nat /\ DOMAIN snapshots = 1..Len(snapshots)
    BY <1>1, <1>4 DEF Cursor
  <2>2. snapshots[i] \in Snapshot
    BY <1>4, <1>5
  <2>3. size \in 0..MaxEntries
    BY <1>2, <2>2 DEF Snapshot
  <2>. QED  BY <1>4, <1>5, <2>1, <2>3 DEF Listings
<1>7. tmuxFailed' \in BOOLEAN /\ UNCHANGED <<pane, versions, wentBack, content>>
  BY DEF NextPage, RememberFailure, remote, ListingTyped
<1>8. \/ /\ snapshots[i].root = Root /\ UNCHANGED snapshots
         /\ reader' = [root |-> Root, got |-> got \o page.entries, cursor |-> page.cursor]
      \/ reader' = NoReader /\ snapshots' = [snapshots EXCEPT ![i].live = FALSE]
  BY <1>1, <1>2, <1>3 DEF NextPage, Continues
<1>9. /\ page.entries \in Seq(Entry) /\ page.cursor \in Cursor
      /\ offset + Len(page.entries) <= size
      /\ \A k \in DOMAIN page.entries : page.entries[k] = <<i, offset + k>>
      /\ page.cursor.id = 0 => offset + Len(page.entries) = size
      /\ page.cursor.id # 0 => /\ page.cursor.id = i /\ Len(page.entries) > 0
                               /\ page.cursor.offset = offset + Len(page.entries)
  <2>1. PageFits(page, i, size, offset)
    BY <1>3, <1>6, PageFollows
  <2>. QED  BY <2>1 DEF PageFits
<1>10. CASE snapshots[i].root = Root /\ UNCHANGED snapshots
            /\ reader' = [root |-> Root, got |-> got \o page.entries, cursor |-> page.cursor]
  <2>1. PICK all : all = got \o page.entries
    OBVIOUS
  <2>2. \A k \in DOMAIN got : got[k] = <<i, k>>
    BY <1>1, <1>5 DEF PagesOfOneListing
  <2>3. /\ all \in Seq(Entry) /\ Len(all) = offset + Len(page.entries) /\ all # <<>>
        /\ \A k \in DOMAIN all : all[k] = <<i, k>>
        /\ all[1][1] = i
    <3>1. PICK es \in Seq(Entry) : es = page.entries
      BY <1>9
    <3>2. Follow(es, i, Len(got))
      BY <1>5, <1>9, <3>1 DEF Follow
    <3>3. InOrder(got, i) /\ all = got \o es
      BY <1>5, <2>1, <2>2, <3>1 DEF InOrder
    <3>4. all \in Seq(Entry) /\ Len(all) = Len(got) + Len(es) /\ InOrder(all, i)
      <4>1. got \in Seq(Entry)
        BY <1>4
      <4>2. InOrder(got, i)
        BY <3>3
      <4>3. all = got \o es
        BY <3>3
      <4>. QED  BY <3>2, <4>1, <4>2, <4>3, GotExtends, ZenonT(60)
    <3>. QED  BY <1>5, <3>1, <3>4 DEF InOrder
  <2>4. reader' \in Reader /\ reader'.got = all /\ reader'.cursor = page.cursor /\ reader'.root = Root
    BY <1>9, <1>10, <2>1, <2>3, RootTyped DEF Reader
  <2>5. ListingTyped'
    BY <1>7, <1>10, <2>4 DEF ListingTyped, Current
  <2>6. PagesOfOneListing'
    BY <1>2, <1>9, <1>10, <2>3, <2>4 DEF PagesOfOneListing
  <2>7. CursorFits'
    BY <1>2, <1>5, <1>9, <1>10, <2>3, <2>4 DEF CursorFits
  <2>. QED  BY <2>5, <2>6, <2>7 DEF ListingPart
<1>11. CASE reader' = NoReader /\ snapshots' = [snapshots EXCEPT ![i].live = FALSE]
  <2>1. snapshots' \in Seq(Snapshot) /\ Len(snapshots') = Len(snapshots)
    BY <1>4, <1>5, <1>11, DropTyped
  <2>2. reader' \in Reader /\ reader'.got = <<>> /\ reader'.cursor.id = 0
    BY <1>4, <1>11 DEF NoReader, Reader, Cursor
  <2>3. ListingTyped'
    BY <1>4, <1>7, <2>1, <2>2 DEF ListingTyped, Current
  <2>. QED  BY <2>2, <2>3 DEF ListingPart, PagesOfOneListing, CursorFits
<1>. QED  BY <1>8, <1>10, <1>11

LEMMA ContentKeeps ==
  ASSUME ListingBounds, ListingInv,
         \/ \E revision \in {NoRoot} \cup Roots, r \in Ranges : StatContent(revision, r)
         \/ RestatContent \/ OpenContent \/ ContentFails \/ Serve \/ Again
  PROVE  ListingTyped' /\ WindowFits' /\ UNCHANGED <<snapshots, reader>>
<1>. USE DEF ListingInv
<1>1. /\ content \in Content /\ Current \in 1..Current /\ versions \in Seq(Version)
      /\ Current \in Nat /\ versions[Current] \in Version /\ versions[Current].size \in Nat
  <2>1. content \in Content /\ versions \in Seq(Version) /\ Current \in 1..MaxVersions
    BY DEF ListingTyped
  <2>2. Current \in Nat /\ Current >= 1 /\ Current \in 1..Current
    BY <2>1, <2>1 DEF ListingBounds
  <2>3. versions[Current] \in Version
    <3>. HIDE DEF Version
    <3>. QED  BY <2>1, <2>2 DEF Current
  <2>. QED  BY <2>1, <2>2, <2>3 DEF Version, ListingBounds
<1>2. UNCHANGED <<pane, versions, wentBack, snapshots, reader>> /\ tmuxFailed' \in BOOLEAN
      /\ Current' = Current
  BY DEF StatContent, RestatContent, OpenContent, ContentFails, Serve, Again, RememberFailure,
         remote, ListingTyped, Current
<1>3. PICK refused : refused = [NoContent EXCEPT !.step = "refused"]
  OBVIOUS
<1>4. /\ NoContent \in Content /\ NoContent.step = "none"
      /\ refused \in Content /\ refused.step = "refused"
  BY <1>3 DEF NoContent, Content
<1>a. ASSUME content' \in {NoContent, refused}  PROVE content' \in Content /\ WindowFits'
  BY <1>4, <1>a DEF WindowFits, Stated
<1>5. ASSUME NEW r \in Ranges, NEW revision, StatContent(revision, r)
      PROVE  content' \in Content /\ WindowFits'
  <2>1. PICK w : w = ContentRange(r, versions[Current].size)
    OBVIOUS
  <2>2. PICK c : c = [NoContent EXCEPT !.step = "stated", !.root = Root, !.seen = Current,
                                       !.start = w.start, !.length = w.length]
    OBVIOUS
  <2>3. \/ content' = refused
        \/ w # Refused /\ content' = c
    BY <1>3, <1>5, <2>1, <2>2 DEF StatContent
  <2>4. CASE w # Refused /\ content' = c
    <3>1. w \in [start : Nat, length : Nat] /\ w.start + w.length <= versions[Current].size
      BY <1>1, <2>1, <2>4, ContentRangeIsExact
    <3>2. /\ c \in Content /\ c.step = "stated" /\ c.seen = Current
          /\ c.start = w.start /\ c.length = w.length
      BY <1>1, <2>2, <3>1, RootTyped DEF Content, NoContent
    <3>3. content'.step \in Stated /\ content'.step \notin Stated \ {"stated"}
          /\ content'.step \notin {"opened", "served"}
      BY <2>4, <3>2 DEF Stated
    <3>. QED  BY <1>1, <1>2, <2>4, <3>1, <3>2, <3>3 DEF WindowFits
  <2>. QED  BY <1>a, <2>3, <2>4
<1>6. ASSUME RestatContent  PROVE content' \in Content /\ WindowFits'
  <2>1. PICK c : c = [content EXCEPT !.step = "restated", !.again = Current]
    OBVIOUS
  <2>2. \/ content' = refused
        \/ content' = c /\ content.length <= versions[Current].size - content.start
    BY <1>3, <1>6, <2>1 DEF RestatContent
  <2>3. CASE content' = c /\ content.length <= versions[Current].size - content.start
    <3>1. /\ c \in Content /\ c.step = "restated" /\ c.seen = content.seen /\ c.again = Current
          /\ c.start = content.start /\ c.length = content.length
          /\ content.start \in Nat /\ content.length \in Nat
      BY <1>1, <2>1 DEF Content
    <3>2. content.start + content.length <= versions[Current].size
      BY <1>1, <2>3, <3>1
    <3>3. content.step = "stated" /\ content.step \in Stated
      BY <1>6 DEF RestatContent, Stated
    <3>. QED  BY <1>1, <1>2, <2>3, <3>1, <3>2, <3>3 DEF WindowFits
  <2>. QED  BY <1>a, <2>2, <2>3
<1>7. ASSUME OpenContent  PROVE content' \in Content /\ WindowFits'
  <2>1. PICK c : c = [content EXCEPT !.step = "opened", !.from = Current]
    OBVIOUS
  <2>2. /\ c \in Content /\ c.step = "opened" /\ c.from = Current /\ c.seen = content.seen
        /\ c.again = content.again /\ c.start = content.start /\ c.length = content.length
    BY <1>1, <2>1 DEF Content
  <2>3. content' = c /\ content.step = "restated" /\ content.step \in Stated \ {"stated"}
    BY <1>7, <2>1 DEF OpenContent, Stated
  <2>4. content.again \in 1..Current /\ Current \in content.again..Current
    BY <1>1, <2>3 DEF WindowFits
  <2>. QED  BY <1>1, <1>2, <2>2, <2>3, <2>4 DEF WindowFits
<1>8. ASSUME Serve  PROVE content' \in Content /\ WindowFits'
  <2>1. PICK step : step = IF versions[content.again] = versions[content.seen] THEN "served"
                           ELSE "refused"
    OBVIOUS
  <2>2. PICK c : c = [content EXCEPT !.step = step]
    OBVIOUS
  <2>3. /\ c \in Content /\ c.step = step /\ c.from = content.from /\ c.seen = content.seen
        /\ c.again = content.again /\ c.start = content.start /\ c.length = content.length
    BY <1>1, <2>1, <2>2 DEF Content
  <2>4. content' = c /\ content.step = "opened" /\ content.step \in Stated \ {"stated"}
    BY <1>8, <2>1, <2>2 DEF Serve, Stated
  <2>. QED  BY <1>2, <2>1, <2>3, <2>4 DEF WindowFits, Stated
<1>9. ASSUME ContentFails \/ Again  PROVE content' \in Content /\ WindowFits'
  BY <1>3, <1>9, <1>a DEF ContentFails, Again
<1>10. content' \in Content /\ WindowFits'
  BY <1>5, <1>6, <1>7, <1>8, <1>9
<1>. QED  BY <1>2, <1>10 DEF ListingTyped

\* A new version of the file leaves what was stated alone.
LEMMA FileKeeps ==
  ASSUME ListingBounds, ListingTyped, WindowFits, FileChanges
  PROVE  versions' \in Seq(Version) /\ Current' \in 1..MaxVersions /\ WindowFits'
<1>1. versions \in Seq(Version) /\ Current \in Nat /\ Current >= 1 /\ Current < MaxVersions
      /\ MaxVersions \in Nat /\ Current = Len(versions)
  BY DEF ListingTyped, ListingBounds, FileChanges, Current
<1>2. versions[Current] \in Version
  <2>. HIDE DEF Version
  <2>. QED  BY <1>1
<1>3. PICK v \in Version : versions' = Append(versions, v)
  <2>1. PICK size \in 0..MaxSize, later \in 0..1 :
          versions' = Append(versions, [size |-> size, stamp |-> versions[Current].stamp + later])
    BY DEF FileChanges
  <2>2. versions[Current].stamp + later \in Nat
    BY <1>2 DEF Version
  <2>3. [size |-> size, stamp |-> versions[Current].stamp + later] \in Version
    BY <2>2 DEF Version
  <2>. QED  BY <2>1, <2>3
<1>4. /\ versions' \in Seq(Version) /\ Current' = Current + 1
      /\ \A i \in 1..Current : versions'[i] = versions[i]
  <2>. HIDE DEF Version
  <2>. QED  BY <1>1, <1>3 DEF Current
<1>5. UNCHANGED content
  BY DEF FileChanges
<1>6. 1..Current \subseteq 1..Current' /\ \A i : i..Current \subseteq i..Current'
  BY <1>1, <1>4
<1>7. content.step = "served" => content.step \in Stated \ {"stated"} /\ content.step \in Stated
  BY DEF Stated
<1>8. /\ content.step \in Stated => content'.seen \in 1..Current' /\ versions'[content.seen] = versions[content.seen]
      /\ content.step \in Stated \ {"stated"} =>
            content'.again \in 1..Current' /\ versions'[content.again] = versions[content.again]
  BY <1>4, <1>5, <1>6 DEF WindowFits
<1>9. content.step \in {"opened", "served"} => content'.from \in content'.again..Current'
  BY <1>5, <1>6 DEF WindowFits
<1>10. WindowFits'
  BY <1>5, <1>7, <1>8, <1>9 DEF WindowFits
<1>. QED  BY <1>1, <1>4, <1>10

LEMMA ListingStep ==
  ASSUME ListingBounds, ListingInv, [ListingNext]_listingVars
  PROVE  ListingInv'
<1>. USE DEF ListingInv
<1>1. ASSUME UNCHANGED <<content, versions>>  PROVE WindowFits'
  BY <1>1 DEF WindowFits, Current
<1>2. ASSUME UNCHANGED <<snapshots, reader>>  PROVE ListingPart'
  BY <1>2 DEF ListingPart, PagesOfOneListing, CursorFits
<1>3. ASSUME NEW size \in 0..MaxEntries, NEW limit \in 1..2, NEW revision,
             ListEntries(revision, size, limit)
      PROVE  ListingInv'
  <2>1. UNCHANGED <<content, versions>>
    BY <1>3 DEF ListEntries, remote
  <2>. QED  BY <1>1, <1>3, <2>1, ListKeeps DEF ListingPart
<1>4. ASSUME NEW limit \in 1..2, NEW revision, NextPage(revision, limit)  PROVE ListingInv'
  <2>1. UNCHANGED <<content, versions>>
    BY <1>4 DEF NextPage, remote
  <2>. QED  BY <1>1, <1>4, <2>1, NextPageKeeps DEF ListingPart
<1>5. CASE \/ \E revision \in {NoRoot} \cup Roots, r \in Ranges : StatContent(revision, r)
           \/ RestatContent \/ OpenContent \/ ContentFails \/ Serve \/ Again
  BY <1>2, <1>5, ContentKeeps DEF ListingPart
<1>6. CASE SnapshotExpires
  <2>1. PICK i \in DOMAIN snapshots : snapshots' = [snapshots EXCEPT ![i].live = FALSE]
    BY <1>6 DEF SnapshotExpires
  <2>2. UNCHANGED <<pane, versions, wentBack, tmuxFailed, reader, content>>
    BY <1>6 DEF SnapshotExpires, remote
  <2>3. snapshots \in Seq(Snapshot)
    BY DEF ListingTyped
  <2>4. ListingTyped'
    BY <2>1, <2>2, <2>3, DropTyped DEF ListingTyped, Current
  <2>5. ListingPart'
    BY <2>1, <2>2, <2>3, DropTyped, ReaderKeeps DEF ListingPart
  <2>. QED  BY <1>1, <2>2, <2>4, <2>5 DEF ListingPart
<1>7. CASE FailureExpires \/ PaneMoves \/ UNCHANGED listingVars
  <2>1. UNCHANGED <<snapshots, reader, versions, content>>
    BY <1>7 DEF FailureExpires, PaneMoves, listingVars
  <2>2. wentBack' \in 0..2
    BY <1>7 DEF FailureExpires, PaneMoves, listingVars, ListingTyped
  <2>3. pane' \in PaneRoots \union {NoRoot} /\ tmuxFailed' \in BOOLEAN
    BY <1>7 DEF FailureExpires, PaneMoves, listingVars, ListingTyped
  <2>4. ListingTyped'
    BY <2>1, <2>2, <2>3 DEF ListingTyped, Current
  <2>. QED  BY <1>1, <1>2, <2>1, <2>4 DEF ListingPart
<1>8. CASE FileChanges
  <2>1. UNCHANGED <<pane, tmuxFailed, snapshots, reader, content, wentBack>>
    BY <1>8 DEF FileChanges
  <2>2. versions' \in Seq(Version) /\ Current' \in 1..MaxVersions /\ WindowFits'
    BY <1>8, FileKeeps
  <2>3. ListingTyped'
    BY <2>1, <2>2 DEF ListingTyped
  <2>. QED  BY <1>2, <2>1, <2>2, <2>3 DEF ListingPart
<1>. QED  BY <1>3, <1>4, <1>5, <1>6, <1>7, <1>8 DEF ListingNext

\* What a client reads belongs together: its pages are of one listing of one root, in
\* order and without gaps; a window it is sent fits the file its headers describe, and
\* comes from such a file unless that was replaced after the second stat; and a range
\* gives exactly the bytes that were asked for.
THEOREM ListingHolds == ASSUME ListingBounds PROVE ListingSpec => []ListingSafe
<1>1. ListingInit => ListingInv
  BY ListingStart
<1>2. ListingInv /\ [ListingNext]_listingVars => ListingInv'
  BY ListingStep
<1>3. ListingInv => ListingSafe
  <2>. SUFFICES ASSUME ListingInv PROVE ListingSafe
    OBVIOUS
  <2>1. ListingTypeOK
    <3>1. snapshots \in Seq(Snapshot) /\ Len(snapshots) <= MaxListings /\ reader \in Reader /\ content \in Content
      BY DEF ListingInv, ListingTyped
    <3>2. \A i \in DOMAIN snapshots : snapshots[i] \in Snapshot
      BY <3>1
    <3>3. \A i \in DOMAIN snapshots : snapshots[i].root \in Roots /\ snapshots[i].size \in 0..MaxEntries
      BY <3>2 DEF Snapshot
    <3>. QED  BY <3>1, <3>3 DEF ListingInv, ListingTyped, ListingTypeOK, Reader, Content, Current
  <2>2. RangeIsExact
    <3>1. versions[Current].size \in Nat
      <4>1. versions \in Seq(Version) /\ Current \in 1..Len(versions)
        BY DEF ListingInv, ListingTyped, Current, ListingBounds
      <4>2. versions[Current] \in Version
        <5>. HIDE DEF Version
        <5>. QED  BY <4>1
      <4>. QED  BY <4>2 DEF Version, ListingBounds
    <3>2. \A r \in Ranges :
            LET w == ContentRange(r, versions[Current].size)
            IN  w # Refused => w.start..(w.start + w.length - 1)
                                 = Asked(r, versions[Current].size) \cap 0..(versions[Current].size - 1)
      BY <3>1, ContentRangeIsExact
    <3>. QED  BY <3>2 DEF RangeIsExact, Asked
  <2>3. ServedAsDescribed
    <3>. SUFFICES ASSUME content.step = "served"
                  PROVE  /\ content.start + content.length <= versions[content.seen].size
                         /\ content.start + content.length <= versions[content.again].size
                         /\ \/ versions[content.from] = versions[content.seen]
                            \/ content.from > content.again
      BY DEF ServedAsDescribed
    <3>1. /\ content.step \in Stated /\ content.step \in Stated \ {"stated"}
          /\ content.step \in {"opened", "served"}
      BY DEF Stated
    <3>2. content.again \in 1..Current /\ content.from \in content.again..Current /\ Current \in Nat
          /\ versions[content.again] = versions[content.seen]
      BY <3>1 DEF ListingInv, WindowFits, ListingTyped
    <3>3. content.from = content.again \/ content.from > content.again
      BY <3>2
    <3>. QED  BY <3>1, <3>2, <3>3 DEF ListingInv, WindowFits
  <2>. QED  BY <2>1, <2>2, <2>3 DEF ListingInv, ListingSafe
<1>. QED  BY <1>1, <1>2, <1>3, PTL DEF ListingSpec
==============================================================================
