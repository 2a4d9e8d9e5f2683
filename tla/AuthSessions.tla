---------------------------- MODULE AuthSessions ----------------------------
(***************************************************************************)
(* Login, TOTP enrollment and auth sessions:                               *)
(* src/backend/internal/auth with the files `2fa-secret' and               *)
(* `auth-sessions.json' of the store, which outlive the process.           *)
(*                                                                         *)
(* Every method of Manager holds Manager.mu, so most are one action.  The  *)
(* user, who may remove, damage and put back `2fa-secret' at any time,     *)
(* does not take the mutex: ConfirmSetup and VerifyTOTP, which write that  *)
(* file some time after they have read it, are a step for each reading and *)
(* one for the writing, and `verifying' holds the mutex in between.        *)
(* Random values are numbers that are never used twice.                    *)
(***************************************************************************)
EXTENDS Integers, FiniteSets

CONSTANTS MaxAttempts,        \* cfg.AuthMaxAttempts
          MaxPending,         \* pending tokens kept (16 in the code)
          MaxPendingAttempts, \* wrong codes per pending token (5 in the code)
          MaxStep,            \* bound: TOTP time steps
          MaxTokens,          \* bound: pending and refresh tokens ever made
          MaxEnrollments,     \* bound: enrollment identities ever made
          MaxFaults,          \* bound: writes that report a failure
          MaxMeddles          \* bound: changes of the user to 2fa-secret, crashes, expiries

AuthBounds ==
    /\ {MaxAttempts, MaxPending, MaxPendingAttempts, MaxStep} \subseteq Nat \ {0}
    /\ {MaxTokens, MaxEnrollments, MaxFaults, MaxMeddles} \subseteq Nat

VARIABLES
    m,          \* the Manager; its status is "down" while the process is not running
    file,       \* 2fa-secret: a record, NoFile or BadFile
    disk,       \* auth-sessions.json
    verifying,  \* the valid code that holds the mutex: the reading or the write that
                \* comes next, its pending token and its time step; or NoCode
    stream,     \* the enrollment watch and the session of one WebSocket handler
    now,        \* the current TOTP time step
    copy,       \* the content of 2fa-secret the user can put back
    minted, enrolled, faults, meddles,   \* the bounded counters
    expired,    \* sessions whose refresh token has expired
    spent,      \* ghost: refresh tokens whose rotation or revocation was reported as done
    accepted,   \* ghost: the codes accepted so far, as <<enrollment, step>>
    replayed    \* ghost: a code was accepted twice

authVars == <<m, file, disk, verifying, stream, now, copy, minted, enrolled, faults,
              meddles, expired, spent, accepted, replayed>>
user   == <<now, copy, meddles, expired>>
ghosts == <<spent, accepted, replayed>>

NoFile  == [id |-> 0, step |-> 0]
BadFile == [id |-> 0 - 1, step |-> 0]
NoCode  == [next |-> "none", token |-> 0, step |-> 0]
NoStream == [epoch |-> 0 - 1, session |-> 0, enrollment |-> 0]
IsEnrollment(f) == f.id > 0

Ids == 1..MaxTokens
Session == [id : Ids, token : Ids, enrollment : 1..MaxEnrollments]
Pending == [token : Ids, purpose : {"setup", "verify"}, enrollment : 0..MaxEnrollments,
            attempts : 0..MaxPendingAttempts, candidate : BOOLEAN]

AuthTypeOK ==
    /\ m.status \in {"down", "unconfigured", "configured", "storage_error"}
    /\ m.refresh \subseteq Session /\ disk \subseteq Session
    /\ m.access \subseteq [token : Ids, session : Ids]
    /\ m.pending \subseteq Pending /\ Cardinality(m.pending) <= MaxPending
    /\ m.challenge \in BOOLEAN /\ m.locked \in BOOLEAN /\ m.failed \in 0..MaxAttempts
    /\ (m.status = "configured") => IsEnrollment(m.enrollment)
    /\ verifying.next \in {"none", "recheck", "save", "confirm"}
    /\ verifying.token \in 0..MaxTokens /\ now \in 1..MaxStep
    /\ \A s, t \in m.refresh : s.id = t.id \/ s.token = t.token => s = t

Down == [status |-> "down", enrollment |-> NoFile, refresh |-> {}, access |-> {},
         challenge |-> FALSE, pending |-> {}, failed |-> 0, locked |-> FALSE, epoch |-> 0]

AuthInit ==
    /\ m = Down /\ file = NoFile /\ disk = {} /\ verifying = NoCode /\ stream = NoStream
    /\ now = 1 /\ copy = NoFile /\ expired = {}
    /\ minted = 0 /\ enrolled = 0 /\ faults = 0 /\ meddles = 0
    /\ spent = {} /\ accepted = {} /\ replayed = FALSE

-----------------------------------------------------------------------------
(* The two files                                                           *)

Become(outcome) ==
    /\ m' = outcome.m /\ disk' = outcome.disk
    /\ faults' = IF outcome.ok THEN faults ELSE faults + 1

\* persistLocked and SaveAuth for the new manager n: the file is replaced, and when
\* the write reports a failure it may have been replaced nevertheless.
Persist(n) ==
    {[m |-> n, disk |-> n.refresh, ok |-> TRUE]} \union
    {[m |-> n, disk |-> d, ok |-> FALSE] :
        d \in IF faults < MaxFaults THEN {disk, n.refresh} ELSE {}}

\* SaveEnrollment: what 2fa-secret may be afterwards, and what is reported.
SaveEnrollment(record) ==
    {[file |-> record, ok |-> TRUE]} \union
    {[file |-> f, ok |-> FALSE] : f \in IF faults < MaxFaults THEN {file, record} ELSE {}}

\* LoadEnrollment answers an error for a file that is damaged or not private.
LoadFails == file = BadFile

\* sessionBoundLocked
Bound(n, s) == n.status = "configured" /\ s.enrollment = n.enrollment.id

\* Mutant: the access tokens survive.
Invalidate_KeepsAccess(n) ==
    {IF o.ok THEN o ELSE [o EXCEPT !.m.status = "storage_error"] :
        o \in Persist([n EXCEPT !.pending = {}, !.challenge = FALSE, !.refresh = {},
                                !.epoch = @ + 1])}

\* invalidateCredentialsLocked, for a manager that has taken over its new state;
\* a session file that cannot be written turns the state to a storage error.
Invalidate(n) ==
    {IF o.ok THEN o ELSE [o EXCEPT !.m.status = "storage_error"] :
        o \in Persist([n EXCEPT !.pending = {}, !.access = {}, !.challenge = FALSE,
                                !.refresh = {}, !.epoch = @ + 1])}

Adopt(record) == Invalidate([m EXCEPT !.status = "configured", !.enrollment = record])
Drop == Invalidate([m EXCEPT !.status = "unconfigured", !.enrollment = NoFile])
Deny == Invalidate([m EXCEPT !.status = "storage_error"])

\* reconcileLocked has nothing to do.
Settled ==
    \/ LoadFails /\ m.status = "storage_error"
    \/ file = NoFile /\ m.status = "unconfigured"
    \/ IsEnrollment(file) /\ m.status = "configured" /\ m.enrollment = file

\* reconcileLocked follows the file.
Reconciled ==
    IF LoadFails THEN Deny ELSE IF file = NoFile THEN Drop ELSE Adopt(file)

Up == m.status # "down" /\ verifying = NoCode

\* A boundary that finds the file changed: StartEnrollmentWatch, and every request
\* below but Login, for which the credential it came with is then gone.
Reconcile ==
    /\ Up /\ ~Settled
    /\ \E o \in Reconciled : Become(o)
    /\ UNCHANGED <<file, verifying, stream, minted, enrolled, user, ghosts>>

-----------------------------------------------------------------------------
(* Password and pending tokens                                             *)

Challenge ==
    /\ Up /\ ~m.challenge
    /\ m' = [m EXCEPT !.challenge = TRUE]
    /\ UNCHANGED <<file, disk, verifying, stream, minted, enrolled, faults, user, ghosts>>

\* failedAttempts counts a wrong proof or code; at the limit the service locks.
Failure(n) ==
    [n EXCEPT !.failed = @ + 1, !.locked = @ \/ n.failed + 1 >= MaxAttempts]

\* The token that expires next; tokens are numbered as they are made.
Oldest(pending) == CHOOSE p \in pending : \A q \in pending : p.token <= q.token

\* newPendingLocked evicts the oldest token of a full map.
WithPending(n, entry) ==
    [n EXCEPT !.pending = {entry} \union
        IF Cardinality(@) >= MaxPending THEN @ \ {Oldest(@)} ELSE @]

\* newPendingLocked for the next step of a proven password.
PendingEntry(n, token) ==
    [token |-> token, purpose |-> IF n.status = "configured" THEN "verify" ELSE "setup",
     enrollment |-> IF n.status = "configured" THEN n.enrollment.id ELSE 0,
     attempts |-> 0, candidate |-> FALSE]

\* The challenge of a locked service is claimed for nothing.
LoginLocked ==
    /\ Up /\ m.challenge /\ m.locked /\ m' = [m EXCEPT !.challenge = FALSE]
    /\ UNCHANGED <<file, disk, verifying, stream, minted, enrolled, faults, user, ghosts>>

\* Login claims the challenge before it reconciles, so that it survives a change of
\* the enrollment; a correct proof does not reset failedAttempts.
Login(proven) ==
    /\ Up /\ m.challenge /\ ~m.locked /\ minted < MaxTokens
    /\ \E o \in IF Settled THEN {[m |-> m, disk |-> disk, ok |-> TRUE]} ELSE Reconciled :
          LET n == [o.m EXCEPT !.challenge = FALSE] IN
          Become([o EXCEPT !.m =
              IF n.status = "storage_error" THEN n
              ELSE IF ~proven THEN Failure(n)
              ELSE WithPending(n, PendingEntry(n, minted + 1))])
    /\ minted' = IF proven THEN minted + 1 ELSE minted
    /\ UNCHANGED <<file, verifying, stream, enrolled, user, ghosts>>

\* pendingLocked finds the token only while it has not expired.
PendingExpires ==
    /\ Up /\ m.pending # {} /\ m' = [m EXCEPT !.pending = @ \ {Oldest(@)}]
    /\ UNCHANGED <<file, disk, verifying, stream, minted, enrolled, faults, user, ghosts>>

Usable(p, purpose) == Up /\ Settled /\ ~m.locked /\ p.purpose = purpose
Without(n, token) == [n EXCEPT !.pending = {p \in @ : p.token # token}]
Update(p, q) == [m EXCEPT !.pending = (@ \ {p}) \union {q}]

\* recordPendingFailureLocked
CodeFails(p) ==
    LET tried == p.attempts + 1 IN
    m' = Failure(IF tried >= MaxPendingAttempts THEN Without(m, p.token)
                 ELSE Update(p, [p EXCEPT !.attempts = tried]))

\* newCandidateLocked: a secret and its QR code, which every Setup of the token returns.
WithCandidate(p) == [p EXCEPT !.candidate = TRUE]

\* Setup makes the candidate of a setup token once.
Setup(p) ==
    /\ Usable(p, "setup") /\ m.status = "unconfigured" /\ ~p.candidate
    /\ m' = Update(p, WithCandidate(p))
    /\ UNCHANGED <<file, disk, verifying, stream, minted, enrolled, faults, user, ghosts>>

WrongCode(p) ==
    /\ \/ Usable(p, "setup") /\ m.status = "unconfigured" /\ p.candidate
       \/ Usable(p, "verify") /\ m.status = "configured"
    /\ CodeFails(p)
    /\ UNCHANGED <<file, disk, verifying, stream, minted, enrolled, faults, user, ghosts>>

\* validateTOTPCode tolerates one time step in each direction.
ValidSteps == {now - 1, now, now + 1} \intersect (1..MaxStep)

Accept(id, step) ==
    /\ accepted' = accepted \union {<<id, step>>}
    /\ replayed' = (replayed \/ <<id, step>> \in accepted)

\* ConfirmSetup finds no enrollment in the file and the code valid.
ConfirmBegin(p) ==
    /\ Usable(p, "setup") /\ m.status = "unconfigured" /\ p.candidate
    /\ enrolled < MaxEnrollments
    /\ \E step \in ValidSteps :
          verifying' = [next |-> "confirm", token |-> p.token, step |-> step]
    /\ UNCHANGED <<m, file, disk, stream, minted, enrolled, faults, user, ghosts>>

NewEnrollment == [id |-> enrolled + 1, step |-> verifying.step]

\* The enrollment is durable first, over whatever the file holds by then, and is
\* adopted next.
ConfirmEnd ==
    /\ verifying.next = "confirm"
    /\ \E saved \in SaveEnrollment(NewEnrollment) :
          /\ file' = saved.file
          /\ IF saved.ok
             THEN /\ \E o \in Adopt(NewEnrollment) :
                        Become([o EXCEPT !.m.failed = IF o.ok THEN 0 ELSE @])
                  /\ Accept(NewEnrollment.id, verifying.step)
             ELSE /\ faults' = faults + 1 /\ UNCHANGED <<m, disk, accepted, replayed>>
    /\ enrolled' = enrolled + 1 /\ verifying' = NoCode
    /\ UNCHANGED <<stream, minted, user, spent>>

-----------------------------------------------------------------------------
(* VerifyTOTP and the sessions it makes                                    *)

\* Mutant: the last consumed time step is accepted.
VerifyBegin_OffByOne(p) ==
    /\ Usable(p, "verify") /\ m.status = "configured"
    /\ p.enrollment = m.enrollment.id /\ minted < MaxTokens
    /\ \E step \in ValidSteps :
          IF step < m.enrollment.step
          THEN CodeFails(p) /\ UNCHANGED verifying
          ELSE /\ verifying' = [next |-> "recheck", token |-> p.token, step |-> step]
               /\ UNCHANGED m
    /\ UNCHANGED <<file, disk, stream, minted, enrolled, faults, user, ghosts>>

\* A code of the current enrollment; for a time step that was consumed it fails.
VerifyBegin(p) ==
    /\ Usable(p, "verify") /\ m.status = "configured"
    /\ p.enrollment = m.enrollment.id /\ minted < MaxTokens
    /\ \E step \in ValidSteps :
          IF step <= m.enrollment.step
          THEN CodeFails(p) /\ UNCHANGED verifying
          ELSE /\ verifying' = [next |-> "recheck", token |-> p.token, step |-> step]
               /\ UNCHANGED m
    /\ UNCHANGED <<file, disk, stream, minted, enrolled, faults, user, ghosts>>

\* The second reading of the file finds that the enrollment was changed.
VerifyRefused ==
    /\ verifying.next = "recheck" /\ file # m.enrollment
    /\ \E o \in Reconciled : Become(o)
    /\ verifying' = NoCode
    /\ UNCHANGED <<file, stream, minted, enrolled, user, ghosts>>

\* The second reading finds the enrollment in force.
VerifyRechecked ==
    /\ verifying.next = "recheck" /\ file = m.enrollment
    /\ verifying' = [verifying EXCEPT !.next = "save"]
    /\ UNCHANGED <<m, file, disk, stream, minted, enrolled, faults, user, ghosts>>

Holder(n, id) == [n EXCEPT !.refresh = @ \union {[id |-> id, token |-> id,
                                                  enrollment |-> n.enrollment.id]},
                           !.access = @ \union {[token |-> id, session |-> id]}]

\* issueLocked: a session that cannot be stored is taken back.
Issue(n) ==
    {IF o.ok THEN [o EXCEPT !.m.failed = 0] ELSE [o EXCEPT !.m = n] :
        o \in Persist(Holder(n, minted + 1))}

Consumed == [m.enrollment EXCEPT !.step = verifying.step]

\* The consumed step is durable before a session is issued, also when the user has
\* removed the file since the second reading; when it cannot be saved nothing in
\* memory changes.
VerifyEnd ==
    /\ verifying.next = "save"
    /\ \E saved \in SaveEnrollment(Consumed) :
          /\ file' = saved.file
          /\ IF saved.ok
             THEN /\ \E o \in Issue([Without(m, verifying.token) EXCEPT
                                        !.enrollment = Consumed]) : Become(o)
                  /\ Accept(Consumed.id, verifying.step)
             ELSE /\ faults' = faults + 1 /\ UNCHANGED <<m, disk, accepted, replayed>>
    /\ minted' = minted + 1 /\ verifying' = NoCode
    /\ UNCHANGED <<stream, enrolled, user, spent>>

\* The process dies between the write of 2fa-secret and what follows it.
WriteCrashes ==
    /\ verifying.next \in {"save", "confirm"} /\ meddles < MaxMeddles
    /\ file' = IF verifying.next = "save" THEN Consumed ELSE NewEnrollment
    /\ enrolled' = IF verifying.next = "save" THEN enrolled ELSE enrolled + 1
    /\ m' = Down /\ verifying' = NoCode /\ stream' = NoStream /\ meddles' = meddles + 1
    /\ UNCHANGED <<disk, now, copy, minted, faults, expired, ghosts>>

AccessOf(n, ids) == {a \in n.access : a.session \in ids}
Gone(n, ids) == [n EXCEPT !.refresh = {s \in @ : s.id \notin ids},
                          !.access = @ \ AccessOf(n, ids)]
Rotated(s) == [Gone(m, {s.id}) EXCEPT
                  !.refresh = @ \union {[s EXCEPT !.token = minted + 1]},
                  !.access = @ \union {[token |-> minted + 1, session |-> s.id]}]

\* Refresh rotates the token; on a failed write the old one is valid again.  It is
\* answered even when the service is locked.
Refresh(s) ==
    /\ Up /\ Settled /\ Bound(m, s) /\ s.id \notin expired /\ minted < MaxTokens
    /\ \E o \in Persist(Rotated(s)) :
          /\ Become(IF o.ok THEN o ELSE [o EXCEPT !.m = m])
          /\ spent' = IF o.ok THEN spent \union {s.token} ELSE spent
    /\ minted' = minted + 1
    /\ UNCHANGED <<file, verifying, stream, enrolled, user, accepted, replayed>>

\* What Logout, Revoke and LogoutOthers do: a failed write leaves memory changed.
Remove(ids) ==
    /\ \E o \in Persist(Gone(m, ids)) :
          /\ Become(o)
          /\ spent' = spent \union
                {s.token : s \in {t \in m.refresh : o.ok /\ t.id \in ids}}
    /\ UNCHANGED <<file, verifying, stream, minted, enrolled, user, accepted, replayed>>

\* Logout finds the session by either token and does not reconcile.
Logout(s) == Up /\ Remove({s.id})
\* revokeAuthSession and logoutOthers come after an Authenticate of the caller.
Revoke(s) == Up /\ Settled /\ m.access # {} /\ Remove({s.id})
LogoutOthers(s) ==
    Up /\ Settled /\ AccessOf(m, {s.id}) # {} /\ Remove({t.id : t \in m.refresh} \ {s.id})

\* Current and List drop expired sessions, whose access tokens stay.
Cleanup ==
    /\ Up /\ Settled /\ \E s \in m.refresh : s.id \in expired
    /\ \E o \in Persist([m EXCEPT !.refresh = {s \in @ : s.id \notin expired}]) : Become(o)
    /\ UNCHANGED <<file, verifying, stream, minted, enrolled, user, ghosts>>

AccessExpires(a) ==
    /\ Up /\ m' = [m EXCEPT !.access = @ \ {a}]
    /\ UNCHANGED <<file, disk, verifying, stream, minted, enrolled, faults, user, ghosts>>

-----------------------------------------------------------------------------
(* A WebSocket handler                                                     *)

\* watchEnrollment comes before Authenticate.
Subscribe ==
    /\ Up /\ stream = NoStream
    /\ stream' = [NoStream EXCEPT !.epoch = m.epoch]
    /\ UNCHANGED <<m, file, disk, verifying, minted, enrolled, faults, user, ghosts>>

\* Mutant: Authenticate trusts the cached enrollment.
Admit_Cached(a) ==
    /\ Up /\ stream # NoStream /\ stream.session = 0
    /\ stream' = [stream EXCEPT !.session = a.session, !.enrollment = m.enrollment.id]
    /\ UNCHANGED <<m, file, disk, verifying, minted, enrolled, faults, user, ghosts>>

\* Authenticate accepts the access token; a watch that has just fired may not have
\* cancelled the connection yet.
Admit(a) ==
    /\ Up /\ Settled /\ stream # NoStream /\ stream.session = 0
    /\ stream' = [stream EXCEPT !.session = a.session, !.enrollment = m.enrollment.id]
    /\ UNCHANGED <<m, file, disk, verifying, minted, enrolled, faults, user, ghosts>>

\* The watch fires, or the connection ends otherwise.
StreamEnds ==
    /\ stream # NoStream /\ stream' = NoStream
    /\ UNCHANGED <<m, file, disk, verifying, minted, enrolled, faults, user, ghosts>>

-----------------------------------------------------------------------------
(* Start, crash, the clock and the user                                    *)

\* NewWithRepositories: a damaged file or a failed write stops the start.  A changed
\* password invalidates every session.
Start ==
    /\ m.status = "down" /\ ~LoadFails
    /\ LET n == [Down EXCEPT
                    !.status = IF file = NoFile THEN "unconfigured" ELSE "configured",
                    !.enrollment = file] IN
       \E kept \in {{s \in disk : Bound(n, s) /\ s.id \notin expired}, {}} :
          IF kept = disk
          THEN m' = [n EXCEPT !.refresh = kept] /\ UNCHANGED <<disk, faults>>
          ELSE \E o \in Persist([n EXCEPT !.refresh = kept]) :
                  Become(IF o.ok THEN o ELSE [o EXCEPT !.m = Down])
    /\ UNCHANGED <<file, verifying, stream, minted, enrolled, user, ghosts>>

Meddle == meddles < MaxMeddles /\ meddles' = meddles + 1

Crash ==
    /\ m.status # "down" /\ Meddle
    /\ m' = Down /\ verifying' = NoCode /\ stream' = NoStream
    /\ UNCHANGED <<file, disk, now, copy, minted, enrolled, faults, expired, ghosts>>

\* The user deletes or damages the file, having kept a copy.
TakeFile ==
    /\ IsEnrollment(file) /\ Meddle
    /\ copy' = file /\ file' \in {NoFile, BadFile}
    /\ UNCHANGED <<m, disk, verifying, stream, now, minted, enrolled, faults, expired, ghosts>>

\* The user removes a damaged file or puts the copy back.
RepairFile ==
    /\ ~IsEnrollment(file) /\ Meddle
    /\ file' \in {NoFile, copy} \ {file}
    /\ UNCHANGED <<m, disk, verifying, stream, now, copy, minted, enrolled, faults, expired, ghosts>>

SessionExpires(s) ==
    /\ s.id \notin expired /\ Meddle /\ expired' = expired \union {s.id}
    /\ UNCHANGED <<m, file, disk, verifying, stream, now, copy, minted, enrolled, faults, ghosts>>

Tick ==
    /\ now < MaxStep /\ now' = now + 1
    /\ UNCHANGED <<m, file, disk, verifying, stream, copy, minted, enrolled, faults, meddles,
                   expired, ghosts>>

AuthNext ==
    \/ Reconcile \/ Challenge \/ LoginLocked \/ PendingExpires
    \/ \E proven \in BOOLEAN : Login(proven)
    \/ \E p \in m.pending : Setup(p) \/ WrongCode(p) \/ ConfirmBegin(p) \/ VerifyBegin(p)
    \/ ConfirmEnd \/ VerifyRefused \/ VerifyRechecked \/ VerifyEnd \/ WriteCrashes
    \/ \E s \in m.refresh : Refresh(s) \/ Logout(s) \/ Revoke(s) \/ LogoutOthers(s)
                            \/ SessionExpires(s)
    \/ \E a \in m.access : AccessExpires(a) \/ Admit(a)
    \/ Cleanup \/ Subscribe \/ StreamEnds
    \/ Start \/ Crash \/ TakeFile \/ RepairFile \/ Tick

AuthSpec == AuthInit /\ [][AuthNext]_authVars

-----------------------------------------------------------------------------
(* Properties                                                              *)

\* Whatever failed, crashed or was restored, a session in memory belongs to the
\* enrollment in memory, and an access token to such a session or to an expired one.
CredentialsBound ==
    /\ \A s \in m.refresh : Bound(m, s)
    /\ \A a \in m.access : a.session \in expired \union {s.id : s \in m.refresh}
    /\ m.access # {} => m.status = "configured"

\* A refresh token whose rotation or revocation was reported as done is never valid
\* again, also not after failed writes and restarts.
SpentStaysSpent == \A s \in m.refresh \union disk : s.token \notin spent

\* totp_flows.go:173: "codes for it stay invalid across attempts, restarts, and
\* concurrent verifications".
CodeOnce == ~replayed

\* websocket.go:27: a stream that was admitted for an enrollment that is no longer the
\* current one has a watch that has fired.
StreamsWatched ==
    (m.status # "down" /\ stream.session # 0 /\ stream.epoch = m.epoch) =>
        m.status = "configured" /\ m.enrollment.id = stream.enrollment

\* A stream is admitted only while the enrollment of its session is the one in the
\* file, however lately the file was changed.
AdmittedWhileEnrolled ==
    (stream.session = 0 /\ stream'.session # 0) =>
          \/ IsEnrollment(file) /\ \E s \in m.refresh :
                s.id = stream'.session /\ s.enrollment = file.id
          \/ IsEnrollment(file) /\ stream'.session \in expired

\* totp_flows.go:100: "The first successful confirmation wins."  Of two confirmations
\* the second makes nothing.  The file is not locked against the user: what is replaced
\* by a confirmation that is under way can only be the enrollment that the user put
\* back since it read the file, and nobody is signed in under that one.
FirstEnrollmentWins ==
    (IsEnrollment(file) /\ IsEnrollment(file') /\ file'.id # file.id) =>
          /\ verifying.next = "confirm" /\ file = copy
          /\ m.access = {} /\ m.refresh = {} /\ m'.access = {} /\ m'.refresh = {}

\* A locked service makes no pending token, no session and no enrollment until it is
\* restarted.
LockHolds ==
    (m.locked /\ m'.status # "down") =>
          /\ m'.locked
          /\ {s.id : s \in m'.refresh} \subseteq {s.id : s \in m.refresh}
          /\ enrolled' = enrolled
          /\ {p.token : p \in m'.pending} \subseteq {p.token : p \in m.pending}

\* What a login session may do rests on the enrollment it was made for: in memory, on
\* disk and at the streams, through failed writes, edits of the file and restarts.
CredentialsHold == AuthTypeOK /\ CredentialsBound /\ SpentStaysSpent /\ StreamsWatched

\* No step admits a stream, replaces an enrollment in force or makes a credential that
\* the state before it forbids.
EnrollmentSteps == [][AdmittedWhileEnrolled /\ FirstEnrollmentWins /\ LockHolds]_authVars
=============================================================================
