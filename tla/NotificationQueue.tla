------------------------- MODULE NotificationQueue -------------------------
(***************************************************************************)
(* Web Push: notifications/ with push-subscriptions.json of the store and  *)
(* the handlers that register, remove and, when a login session ends,      *)
(* clean up its subscriptions.                                             *)
(*                                                                         *)
(* Callers hand messages to a bounded queue; one worker takes a job, asks  *)
(* for the preferences, takes a snapshot of the subscriptions and sends to *)
(* each with retries.  Close and restarts come at any time.                *)
(***************************************************************************)
EXTENDS Naturals, Sequences, FiniteSets

CONSTANTS Callers, Sessions, Endpoints,
          QueueSize, RetryAttempts,
          MaxSubscriptions,  \* maxPushSubscriptions
          MaxMessages,       \* bound: messages handed over
          MaxIds,            \* bound: subscription ids made
          MaxPushFaults      \* bound: failing writes and restarts

PushBounds == /\ IsFiniteSet(Callers) /\ IsFiniteSet(Sessions) /\ IsFiniteSet(Endpoints)
              /\ {QueueSize, RetryAttempts, MaxSubscriptions} \subseteq Nat \ {0}
              /\ {MaxMessages, MaxIds, MaxPushFaults} \subseteq Nat

VARIABLES subs,       \* push-subscriptions.json
          ids,        \* ids made so far
          requests,   \* registrations that were authenticated, not yet stored
          session,    \* the login sessions
          cleanups,   \* ended sessions whose handler has still to call DeleteAll
          keeper,     \* the session whose logoutOthers has listed the others ...
          otherSessions,  \* ... and what it listed
          gone,       \* endpoints the push service no longer knows
          allowed,    \* the preference for the messages at hand
          closed,
          queue,
          pending,    \* the WaitGroup of Wait
          caller,     \* "in": between pending.Add and the select, under RLock
          worker,
          handed,     \* messages handed over
          pushFaults

loginVars == <<session, cleanups, keeper, otherSessions>>
subscriptionVars == <<subs, ids, requests, loginVars>>
deliveryVars == <<queue, pending, caller, worker, handed>>
pushVars == <<subscriptionVars, deliveryVars, gone, allowed, closed, pushFaults>>

Record == [id : 1..MaxIds, session : Sessions, endpoint : Endpoints]
Idle   == [step |-> "idle", todo |-> {}, attempt |-> 0, to |-> {}]
Steps  == {"idle", "taken", "listed", "sending", "expired", "ended"}

PushTypeOK ==
    /\ subs \subseteq Record /\ ids \in 0..MaxIds
    /\ session \in [Sessions -> {"new", "live", "dead"}]
    /\ cleanups \subseteq Sessions /\ keeper \subseteq Sessions /\ otherSessions \subseteq Sessions
    /\ requests \subseteq Sessions \X Endpoints
    /\ gone \subseteq Endpoints /\ {allowed, closed} \subseteq BOOLEAN
    /\ queue \in Seq({"job"}) /\ Len(queue) <= QueueSize
    /\ pending \in 0..(QueueSize + Cardinality(Callers) + 1) /\ caller \in [Callers -> {"out", "in"}]
    /\ worker \in [step : Steps, todo : SUBSET Record, attempt : 0..RetryAttempts,
                   to : SUBSET Record]
    /\ handed \in 0..MaxMessages /\ pushFaults \in 0..MaxPushFaults

PushInit ==
    /\ subs = {} /\ ids = 0 /\ session = [s \in Sessions |-> "new"]
    /\ cleanups = {} /\ keeper = {} /\ otherSessions = {}
    /\ requests = {} /\ gone = {} /\ allowed = FALSE /\ closed = FALSE
    /\ queue = <<>> /\ pending = 0 /\ caller = [c \in Callers |-> "out"]
    /\ worker = Idle /\ handed = 0 /\ pushFaults = 0

Fault == pushFaults < MaxPushFaults /\ pushFaults' = pushFaults + 1
Live  == {s \in Sessions : session[s] = "live"}

\* savePushSubscriptions: what it refuses ...
ValidSubs(S) == /\ Cardinality(S) <= MaxSubscriptions
                /\ \A r, q \in S : r # q => r.id # q.id /\ r.endpoint # q.endpoint

\* ... and its write, which may have replaced the file when it fails.
Saved(S) == \/ subs' = S /\ UNCHANGED pushFaults
            \/ subs' \in {S, subs} /\ Fault

----------------------------------------------------------------------------
(* Sessions and their subscriptions *)

SessionStarts(s) ==
    /\ session[s] = "new" /\ session' = [session EXCEPT ![s] = "live"]
    /\ UNCHANGED <<subs, ids, requests, cleanups, keeper, otherSessions,
                   deliveryVars, gone, allowed, closed, pushFaults>>

\* The registration handler: authenticate first ...
Authenticated(s, e) ==
    /\ session[s] = "live" /\ <<s, e>> \notin requests /\ ids < MaxIds
    /\ requests' = requests \cup {<<s, e>>}
    /\ UNCHANGED <<subs, ids, loginVars, deliveryVars, gone, allowed, closed, pushFaults>>

\* Only the record of the same session is replaced.
Upserted_OwnOnly(s, e) ==
    LET kept   == {r \in subs : r.endpoint = e /\ r.session = s}
        id     == IF kept = {} THEN ids + 1 ELSE (CHOOSE r \in kept : TRUE).id
    IN  (subs \ kept) \cup {[id |-> id, session |-> s, endpoint |-> e]}

\* ... then UpsertPushSubscription: the record of the endpoint is replaced; it
\* keeps its id when it is of the same session.
Upserted(s, e) ==
    LET same   == {r \in subs : r.endpoint = e}
        kept   == {r \in same : r.session = s}
        id     == IF kept = {} THEN ids + 1 ELSE (CHOOSE r \in kept : TRUE).id
    IN  (subs \ same) \cup {[id |-> id, session |-> s, endpoint |-> e]}

\* The session may have ended since, and its subscriptions may have been deleted.
Register(s, e) ==
    /\ <<s, e>> \in requests /\ ids < MaxIds
    /\ requests' = requests \ {<<s, e>>}
    /\ ids' = ids + 1
    /\ IF ValidSubs(Upserted(s, e)) THEN Saved(Upserted(s, e)) ELSE UNCHANGED <<subs, pushFaults>>
    /\ UNCHANGED <<loginVars, deliveryVars, gone, allowed, closed>>

\* Delete: one subscription, of the session that asks.
Delete(r) ==
    /\ r \in subs /\ session[r.session] = "live"
    /\ Saved(subs \ {r})
    /\ UNCHANGED <<ids, requests, loginVars, deliveryVars, gone, allowed, closed>>

\* Logout and Revoke end the session before DeleteAll runs; Revoke leaves that out when
\* the end of the session is not saved.
EndSession(s) ==
    /\ session[s] = "live" /\ session' = [session EXCEPT ![s] = "dead"]
    /\ \/ cleanups' = cleanups \cup {s} /\ UNCHANGED pushFaults
       \/ Fault /\ UNCHANGED cleanups
    /\ UNCHANGED <<subs, ids, requests, keeper, otherSessions, deliveryVars, gone, allowed, closed>>

\* logoutOthers lists the sessions first ...
ListOthers(s) ==
    /\ session[s] = "live" /\ keeper = {}
    /\ keeper' = {s} /\ otherSessions' = Live \ {s}
    /\ UNCHANGED <<subs, ids, requests, session, cleanups, deliveryVars, gone, allowed, closed,
                   pushFaults>>

\* ... LogoutOthers ends every other one, those that began since as well, and the
\* handler cleans up after the ones it has listed, unless that was not saved.
EndOthers ==
    /\ keeper # {} /\ keeper' = {} /\ otherSessions' = {}
    /\ session' = [s \in Sessions |-> IF s \in Live \ keeper THEN "dead" ELSE session[s]]
    /\ \/ cleanups' = cleanups \cup otherSessions /\ UNCHANGED pushFaults
       \/ Fault /\ UNCHANGED cleanups
    /\ UNCHANGED <<subs, ids, requests, deliveryVars, gone, allowed, closed>>

\* DeleteAll, by one of these handlers or at the user's wish; its error is only logged
\* or answered.
DeleteAll(s) ==
    /\ s \in cleanups \cup Live /\ cleanups' = cleanups \ {s}
    /\ Saved({r \in subs : r.session # s})
    /\ UNCHANGED <<ids, requests, session, keeper, otherSessions, deliveryVars, gone, allowed, closed>>

\* Expiry and the deletion of the enrollment end a session without DeleteAll.
Expire(s) ==
    /\ session[s] = "live" /\ session' = [session EXCEPT ![s] = "dead"]
    /\ UNCHANGED <<subs, ids, requests, cleanups, keeper, otherSessions, deliveryVars, gone, allowed,
                   closed, pushFaults>>

----------------------------------------------------------------------------
(* Notify *)

\* Under RLock: the count goes up before the job can be taken ...
NotifyEnter(c) ==
    /\ ~closed /\ caller[c] = "out" /\ handed < MaxMessages
    /\ caller' = [caller EXCEPT ![c] = "in"]
    /\ handed' = handed + 1 /\ pending' = pending + 1
    /\ UNCHANGED <<subscriptionVars, queue, worker, gone, allowed, closed, pushFaults>>

\* A full queue drops the job without taking back the count.
NotifySend_Leaks(c) ==
    /\ caller[c] = "in" /\ caller' = [caller EXCEPT ![c] = "out"]
    /\ queue' = IF Len(queue) < QueueSize THEN Append(queue, "job") ELSE queue
    /\ UNCHANGED <<subscriptionVars, pending, worker, handed, gone, allowed, closed, pushFaults>>

\* ... then the job is queued, or dropped when the queue is full.
NotifySend(c) ==
    /\ caller[c] = "in" /\ caller' = [caller EXCEPT ![c] = "out"]
    /\ \/ Len(queue) < QueueSize /\ queue' = Append(queue, "job") /\ UNCHANGED pending
       \/ Len(queue) = QueueSize /\ pending' = pending - 1 /\ UNCHANGED queue
    /\ UNCHANGED <<subscriptionVars, worker, handed, gone, allowed, closed, pushFaults>>

----------------------------------------------------------------------------
(* The worker: dispatch *)

Take == /\ worker.step = "idle" /\ queue # <<>>
        /\ worker' = [Idle EXCEPT !.step = "taken"] /\ queue' = Tail(queue)
        /\ UNCHANGED <<subscriptionVars, pending, caller, handed, gone, allowed, closed, pushFaults>>

Finish == worker' = Idle /\ pending' = pending - 1

\* preferencesFor and ListPushSubscriptions fail when the context is cancelled.
List == /\ worker.step = "taken"
        /\ \/ ~allowed /\ Finish
           \/ closed /\ Finish
           \/ /\ allowed /\ ~closed /\ UNCHANGED pending
              /\ worker' = [Idle EXCEPT !.step = "listed", !.todo = subs]
        /\ UNCHANGED <<subscriptionVars, queue, caller, handed, gone, allowed, closed, pushFaults>>

NextRecord(r) ==
    /\ worker.step = "listed" /\ r \in worker.todo
    /\ worker' = [worker EXCEPT !.step = "sending", !.attempt = 1, !.todo = @ \ {r}, !.to = {r}]
    /\ UNCHANGED <<subscriptionVars, queue, pending, caller, handed, gone, allowed, closed, pushFaults>>

Responses == {"accepted", "gone", "busy", "refused", "transport"}
\* The push service's answer; the client's timeout, and a cancelled context, are
\* transport errors.
Answers(r) == IF closed THEN {"transport"}
              ELSE IF r.endpoint \in gone THEN {"gone", "busy", "transport"}
              ELSE {"accepted", "refused", "busy", "transport"}
Permanent_AlsoBusy(a) == a \in {"gone", "busy"}
Permanent(a) == a = "gone"
Retryable(a) == a \in {"busy", "transport"}

\* On to the next record of the snapshot.
Onward(w) == [w EXCEPT !.step = "listed", !.attempt = 0, !.to = {}]

\* sendWithRetry: one attempt.  The wait before the next ends with Close.
Send(a) ==
    /\ worker.step = "sending"
    /\ \E r \in worker.to : a \in Answers(r) /\
         worker' = IF Permanent(a) THEN [worker EXCEPT !.step = "expired"]
                   ELSE IF Retryable(a) /\ worker.attempt < RetryAttempts /\ ~closed
                   THEN [worker EXCEPT !.attempt = @ + 1]
                   ELSE Onward(worker)    \* accepted, refused, or no attempt left
    /\ UNCHANGED <<subscriptionVars, queue, pending, caller, handed, gone, allowed, closed, pushFaults>>

\* DeleteByID, of the snapshot's record.
RemoveExpired ==
    /\ worker.step = "expired" /\ worker' = Onward(worker)
    /\ IF closed THEN UNCHANGED <<subs, pushFaults>>
       ELSE Saved({r \in subs : \A q \in worker.to : r.id # q.id})
    /\ UNCHANGED <<ids, requests, loginVars, queue, pending, caller, handed, gone, allowed, closed>>

JobDone == /\ worker.step = "listed" /\ worker.todo = {} /\ Finish
           /\ UNCHANGED <<subscriptionVars, queue, caller, handed, gone, allowed, closed, pushFaults>>

----------------------------------------------------------------------------
(* Close and restarts *)

\* Close: the lock waits for the callers inside Notify.
Close == /\ ~closed /\ closed' = TRUE /\ \A c \in Callers : caller[c] = "out"
         /\ UNCHANGED <<subscriptionVars, deliveryVars, gone, allowed, pushFaults>>

WorkerEnds == /\ closed /\ worker.step = "idle" /\ queue = <<>>
              /\ worker' = [worker EXCEPT !.step = "ended"]
              /\ UNCHANGED <<subscriptionVars, queue, pending, caller, handed, gone, allowed, closed, pushFaults>>

Pruned(S) == {r \in S : session[r.session] = "live"}

\* A new process: requests and jobs are lost; Prune removes the subscriptions of
\* sessions that ended, all of them or, when it fails on the way, some.
Restart ==
    /\ Fault
    /\ \E S \in SUBSET (subs \ Pruned(subs)) : subs' = subs \ S
    /\ cleanups' = {} /\ keeper' = {} /\ otherSessions' = {} /\ UNCHANGED session
    /\ requests' = {} /\ queue' = <<>> /\ pending' = 0 /\ closed' = FALSE
    /\ caller' = [c \in Callers |-> "out"] /\ worker' = Idle
    /\ UNCHANGED <<ids, handed, gone, allowed>>

----------------------------------------------------------------------------
(* The user and the push service *)

SetPreference == /\ allowed' = ~allowed
                 /\ UNCHANGED <<subscriptionVars, deliveryVars, gone, closed, pushFaults>>

BrowserGone(e) == /\ e \notin gone /\ gone' = gone \cup {e}
                  /\ UNCHANGED <<subscriptionVars, deliveryVars, allowed, closed, pushFaults>>

Stopped == worker.step = "ended" /\ UNCHANGED pushVars

PushNext ==
    \/ EndOthers
    \/ \E s \in Sessions : \/ SessionStarts(s) \/ EndSession(s) \/ ListOthers(s) \/ DeleteAll(s)
                           \/ Expire(s)
                           \/ \E e \in Endpoints : Authenticated(s, e) \/ Register(s, e)
    \/ \E r \in Record : Delete(r) \/ NextRecord(r)
    \/ \E c \in Callers : NotifyEnter(c) \/ NotifySend(c)
    \/ Take \/ List \/ RemoveExpired \/ JobDone
    \/ \E a \in Responses : Send(a)
    \/ Close \/ WorkerEnds \/ Restart \/ SetPreference \/ Stopped
    \/ \E e \in Endpoints : BrowserGone(e)

\* Every Send has a timeout and every wait ends: the worker always goes on.
PushFairness ==
    /\ WF_pushVars(Take \/ List \/ RemoveExpired \/ JobDone \/ WorkerEnds
                    \/ (\E r \in Record : NextRecord(r)) \/ (\E a \in Responses : Send(a)))
    /\ \A c \in Callers : WF_pushVars(NotifySend(c))

PushSpec == PushInit /\ [][PushNext]_pushVars /\ PushFairness

----------------------------------------------------------------------------
(***************************************************************************)
(* What Wait waits for is exactly the work there is: a job that is dropped *)
(* does not keep it, one that is taken at once does not drive the count    *)
(* below zero.                                                             *)
(***************************************************************************)
PendingIsExact ==
    pending = Len(queue) + Cardinality({c \in Callers : caller[c] = "in"})
              + (IF worker.step \in {"idle", "ended"} THEN 0 ELSE 1)

\* No caller can send to the queue after it is closed (it would panic), nor after
\* the worker has left.
NoSendAfterClose ==
    /\ closed => \A c \in Callers : caller[c] = "out"
    /\ worker.step = "ended" => queue = <<>>

(***************************************************************************)
(* A registration is refused only when the store is full: a browser that   *)
(* logs in again, with the endpoint its last session registered, replaces  *)
(* that subscription.                                                      *)
(***************************************************************************)
RegistrationAccepted ==
    \A request \in requests :
        LET new == Upserted(request[1], request[2])
        IN  ids < MaxIds /\ Cardinality(new) <= MaxSubscriptions => ValidSubs(new)

(***************************************************************************)
(* The worker removes a subscription only when the push service said that  *)
(* its endpoint is gone: a slow or busy service never costs a browser its  *)
(* subscription, and a subscription that replaced the snapshot's stays.    *)
(***************************************************************************)
OnlyGoneRemoved ==
    [][\A r \in subs \ subs' : worker.step = "expired" /\ worker'.step = "listed" => r.endpoint \in gone]_pushVars

\* A service that is closed stops, and its Wait returns: the worker gives up what it
\* waits for, drops what is queued and ends, and no job stays counted.
CloseReturns == closed ~> (~closed \/ (worker.step = "ended" /\ pending = 0))

\* The queue and the store of subscriptions stay in order, whatever is dropped, fails,
\* ends or is closed.
PushSafe == PushTypeOK /\ PendingIsExact /\ NoSendAfterClose /\ RegistrationAccepted
=============================================================================
