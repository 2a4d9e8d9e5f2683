-------------------------- MODULE AuthSessions_proofs --------------------------
(***************************************************************************)
(* Proofs about login and enrollment, for any number of attempts, tokens,  *)
(* enrollments, failing writes, crashes and changes of the user to         *)
(* `2fa-secret': no code is accepted twice (CodeOnce), credentials belong  *)
(* to the enrollment in force (CredentialsHold), and no step gives what    *)
(* the state before it forbids (EnrollmentSteps).                          *)
(*                                                                         *)
(* The argument for the codes: the enrollment that is in the file, or that *)
(* the user can put back, records a step that no accepted code of it is    *)
(* later than, and whoever is about to accept a code has compared it with  *)
(* that record.  For the credentials: every operation makes a manager that *)
(* is sound by itself (Sound) and stored sessions whose tokens are smaller *)
(* than the next one (Stored), whatever became of the write.               *)
(***************************************************************************)
EXTENDS AuthSessions, FiniteSetTheorems, WellFoundedInduction, NaturalsInduction, TLAPS

Enrollment == [id : Int, step : Int]

IsCode(v) == \E next \in {"none", "recheck", "save", "confirm"}, step \in Int : \E token :
                v = [next |-> next, token |-> token, step |-> step]

\* The enrollment that counts: the one in the file, or the copy the user has of it.
Kept == IF IsEnrollment(file) THEN file ELSE copy

FileInv ==
    /\ file \in Enrollment /\ copy \in Enrollment /\ enrolled \in Nat
    /\ file.id <= enrolled /\ copy.id <= enrolled
    /\ IsEnrollment(file) \/ file \in {NoFile, BadFile}
    /\ IsEnrollment(copy) \/ copy = NoFile

CodeInv ==
    /\ accepted \subseteq Int \X Int /\ ~replayed
    /\ \A p \in accepted : p[1] <= enrolled /\ (p[1] = Kept.id => p[2] <= Kept.step)
    /\ IsCode(verifying)
    /\ verifying # NoCode => m.status # "down"
    /\ verifying.next \in {"recheck", "save"} =>
          /\ IsEnrollment(m.enrollment) /\ Kept = m.enrollment
          /\ ~(verifying.step <= m.enrollment.step)
    /\ verifying.next = "confirm" /\ IsEnrollment(file) => file = copy

OnceInv == FileInv /\ CodeInv

-----------------------------------------------------------------------------
(* A code is accepted once                                                 *)

\* The parts of a code that holds the mutex.
LEMMA CodeParts ==
  /\ IsCode(NoCode) /\ NoCode.next = "none"
  /\ \A v : IsCode(v) => /\ v.step \in Int /\ v.next \in {"none", "recheck", "save", "confirm"}
                         /\ [v EXCEPT !.next = "save"] =
                                [next |-> "save", token |-> v.token, step |-> v.step]
<1>1. IsCode(NoCode) /\ NoCode.next = "none"
  <2>1. "none" \in {"none", "recheck", "save", "confirm"} /\ 0 \in Int
    OBVIOUS
  <2>. QED
    BY <2>1 DEF IsCode, NoCode
<1>2. ASSUME NEW v, IsCode(v)
      PROVE  /\ v.step \in Int /\ v.next \in {"none", "recheck", "save", "confirm"}
             /\ [v EXCEPT !.next = "save"] =
                    [next |-> "save", token |-> v.token, step |-> v.step]
  <2>1. PICK next \in {"none", "recheck", "save", "confirm"}, step \in Int :
           \E token : v = [next |-> next, token |-> token, step |-> step]
    BY <1>2 DEF IsCode
  <2>2. PICK token : v = [next |-> next, token |-> token, step |-> step]
    BY <2>1
  <2>. QED
    BY <2>2
<1>. QED
  BY <1>1, <1>2

\* A step that leaves the file and the codes alone.
LEMMA OnceStays ==
  ASSUME OnceInv, UNCHANGED <<file, copy, enrolled, accepted, replayed>>,
         verifying' = NoCode \/ (verifying' = verifying /\ m' = m)
  PROVE  OnceInv'
<1>1. FileInv'
  BY DEF OnceInv, FileInv
<1>2. CodeInv'
  <2>1. Kept' = Kept
    BY DEF Kept
  <2>2. IsCode(verifying')
    BY CodeParts DEF OnceInv, CodeInv
  <2>3. CASE verifying' = NoCode
    <3>1. verifying'.next = "none"
      BY <2>3, CodeParts
    <3>. QED
      BY <2>1, <2>2, <2>3, <3>1 DEF OnceInv, CodeInv
  <2>4. CASE verifying' = verifying /\ m' = m
    BY <2>1, <2>2, <2>4 DEF OnceInv, CodeInv
  <2>. QED
    BY <2>3, <2>4
<1>. QED
  BY <1>1, <1>2 DEF OnceInv

\* The steps of the service that neither enroll nor consume a code.
LEMMA OnceQuiet ==
  ASSUME OnceInv,
         \/ Reconcile \/ Challenge \/ LoginLocked \/ PendingExpires \/ Cleanup
         \/ Subscribe \/ StreamEnds \/ Start \/ Crash \/ Tick \/ VerifyRefused
         \/ VerifyRechecked \/ (\E proven \in BOOLEAN : Login(proven))
         \/ (\E p \in m.pending : Setup(p) \/ WrongCode(p) \/ ConfirmBegin(p))
         \/ (\E s \in m.refresh : Refresh(s) \/ Logout(s) \/ Revoke(s) \/ LogoutOthers(s)
                                  \/ SessionExpires(s))
         \/ (\E a \in m.access : AccessExpires(a) \/ Admit(a))
  PROVE  OnceInv'
<1>0. m.status = "down" => verifying = NoCode
  BY DEF OnceInv, CodeInv
<1>1. CASE Reconcile \/ Challenge \/ LoginLocked \/ PendingExpires \/ Cleanup \/ Subscribe
  BY <1>1, OnceStays DEF Reconcile, Challenge, LoginLocked, PendingExpires, Cleanup, Subscribe,
                         Up, user, ghosts
<1>2. CASE StreamEnds \/ Crash \/ Tick \/ VerifyRefused
  BY <1>2, OnceStays DEF StreamEnds, Crash, Meddle, Tick, VerifyRefused, user, ghosts
<1>3. CASE Start
  BY <1>0, <1>3, OnceStays DEF Start, user, ghosts
<1>4. CASE \E proven \in BOOLEAN : Login(proven)
  BY <1>4, OnceStays DEF Login, Up, user, ghosts
<1>5. ASSUME NEW p \in m.pending, Setup(p) \/ WrongCode(p) \/ ConfirmBegin(p) PROVE OnceInv'
  <2>1. CASE Setup(p) \/ WrongCode(p)
    BY <2>1, OnceStays DEF Setup, WrongCode, Usable, Up, user, ghosts
  <2>2. CASE ConfirmBegin(p)
    <3>1. /\ UNCHANGED <<m, file, copy, enrolled, accepted, replayed>> /\ verifying = NoCode
          /\ m.status # "down" /\ ~IsEnrollment(file)
      BY <2>2 DEF ConfirmBegin, Usable, Up, Settled, LoadFails, BadFile, NoFile, IsEnrollment,
                  user, ghosts
    <3>2. PICK step \in ValidSteps :
             verifying' = [next |-> "confirm", token |-> p.token, step |-> step]
      BY <2>2 DEF ConfirmBegin
    <3>3. step \in Int /\ verifying'.step = step /\ verifying'.next = "confirm"
      BY <3>2 DEF ValidSteps, AuthBounds
    <3>6. IsCode(verifying') /\ ~IsEnrollment(file')
      BY <3>1, <3>2, <3>3 DEF IsCode
    <3>4. FileInv'
      BY <3>1 DEF OnceInv, FileInv
    <3>5. \A q \in accepted' : q[1] <= enrolled' /\ (q[1] = Kept'.id => q[2] <= Kept'.step)
      BY <3>1 DEF OnceInv, CodeInv, Kept
    <3>. QED
      BY <3>1, <3>3, <3>4, <3>5, <3>6 DEF OnceInv, CodeInv
  <2>. QED
    BY <1>5, <2>1, <2>2
<1>7. CASE VerifyRechecked
  <2>1. /\ UNCHANGED <<m, file, copy, enrolled, accepted, replayed>>
        /\ verifying.next = "recheck" /\ verifying' = [verifying EXCEPT !.next = "save"]
    BY <1>7 DEF VerifyRechecked, user, ghosts
  <2>2. verifying # NoCode
    BY <2>1 DEF NoCode
  <2>3. PICK w : w = verifying'
    OBVIOUS
  <2>4. IsCode(verifying)
    BY DEF OnceInv, CodeInv
  <2>10. /\ w = [next |-> "save", token |-> verifying.token, step |-> verifying.step]
         /\ verifying.step \in Int
    BY <2>1, <2>3, <2>4, CodeParts
  <2>5. w.next = "save" /\ w.step = verifying.step /\ IsCode(w)
    BY <2>10 DEF IsCode
  <2>6. FileInv'
    BY <2>1 DEF OnceInv, FileInv
  <2>7. \A q \in accepted' : q[1] <= enrolled' /\ (q[1] = Kept'.id => q[2] <= Kept'.step)
    BY <2>1 DEF OnceInv, CodeInv, Kept
  <2>8. Kept' = Kept
    BY <2>1 DEF Kept
  <2>9. m.status # "down"
    BY <2>2 DEF OnceInv, CodeInv
  <2>. QED
    BY <2>1, <2>2, <2>3, <2>4, <2>5, <2>6, <2>7, <2>8, <2>9 DEF OnceInv, CodeInv
<1>6. CASE \E s \in m.refresh : Refresh(s) \/ Logout(s) \/ Revoke(s) \/ LogoutOthers(s)
                                \/ SessionExpires(s)
  BY <1>6, OnceStays DEF Refresh, Logout, Revoke, LogoutOthers, Remove, SessionExpires, Meddle,
                         Up, user, ghosts
<1>8. CASE \E a \in m.access : AccessExpires(a) \/ Admit(a)
  BY <1>8, OnceStays DEF AccessExpires, Admit, Up, user, ghosts
<1>. QED
  BY <1>1, <1>2, <1>3, <1>4, <1>5, <1>6, <1>7, <1>8

\* A confirmation starts an enrollment that no code was accepted for.
LEMMA OnceConfirm ==
  ASSUME AuthBounds, OnceInv,
         ConfirmEnd \/ (WriteCrashes /\ verifying.next = "confirm")
  PROVE  OnceInv'
<1>0. /\ file \in Enrollment /\ copy \in Enrollment /\ enrolled \in Nat
      /\ file.id <= enrolled /\ copy.id <= enrolled
      /\ accepted \subseteq Int \X Int /\ ~replayed /\ verifying.step \in Int
      /\ \A p \in accepted : p[1] <= enrolled /\ (p[1] = Kept.id => p[2] <= Kept.step)
  BY CodeParts DEF OnceInv, FileInv, CodeInv
<1>1. verifying' = NoCode /\ copy' = copy /\ enrolled' = enrolled + 1
  BY DEF ConfirmEnd, WriteCrashes, user
<1>. DEFINE step == verifying.step
<1>2. \/ /\ file' = [id |-> enrolled + 1, step |-> step]
         /\ accepted' = accepted \union {<<enrolled + 1, step>>}
         /\ replayed' => replayed \/ <<enrolled + 1, step>> \in accepted
      \/ /\ file' \in {file, [id |-> enrolled + 1, step |-> step]}
         /\ accepted' = accepted /\ replayed' = replayed
  <2>1. CASE ConfirmEnd
    <3>1. PICK saved \in SaveEnrollment(NewEnrollment) :
             /\ file' = saved.file
             /\ IF saved.ok THEN Accept(NewEnrollment.id, step)
                ELSE accepted' = accepted /\ replayed' = replayed
      BY <2>1 DEF ConfirmEnd
    <3>2. /\ saved.file \in {file, NewEnrollment} /\ (saved.ok => saved.file = NewEnrollment)
          /\ NewEnrollment = [id |-> enrolled + 1, step |-> step]
          /\ NewEnrollment.id = enrolled + 1
      BY DEF SaveEnrollment, NewEnrollment
    <3>. QED
      BY <3>1, <3>2 DEF Accept
  <2>2. CASE WriteCrashes /\ verifying.next = "confirm"
    BY <2>2 DEF WriteCrashes, NewEnrollment, ghosts
  <2>. QED
    BY <2>1, <2>2
<1>. DEFINE record == [id |-> enrolled + 1, step |-> step]
<1>3. step \in Int
  BY <1>0
<1>. HIDE DEF step
<1>4. /\ record \in Enrollment /\ record.id = enrolled + 1 /\ record.step = step
      /\ IsEnrollment(record) /\ ~IsEnrollment(NoFile)
  BY <1>0, <1>3 DEF Enrollment, IsEnrollment, NoFile
<1>5. <<enrolled + 1, step>> \notin accepted
  BY <1>0
<1>9. file' = record \/ (file' = file /\ accepted' = accepted /\ replayed' = replayed)
  BY <1>2
<1>10. /\ accepted' = accepted \/ accepted' = accepted \union {<<enrolled + 1, step>>}
       /\ ~replayed'
  BY <1>0, <1>2, <1>5
<1>. HIDE DEF record
<1>6. FileInv'
  <2>1. file' \in Enrollment /\ file'.id <= enrolled + 1 /\ copy.id <= enrolled + 1
    BY <1>0, <1>4, <1>9 DEF Enrollment
  <2>2. IsEnrollment(file') \/ file' \in {NoFile, BadFile}
    BY <1>4, <1>9 DEF OnceInv, FileInv
  <2>3. IsEnrollment(copy') \/ copy' = NoFile
    BY <1>1 DEF OnceInv, FileInv
  <2>. QED
    BY <1>0, <1>1, <2>1, <2>2, <2>3 DEF FileInv
<1>7. CASE file' = record
  <2>1. Kept' = record
    BY <1>4, <1>7 DEF Kept
  <2>2. \A p \in accepted' : p[1] <= enrolled' /\ (p[1] = Kept'.id => p[2] <= Kept'.step)
    <3>1. \A p \in accepted : p[1] \in Int /\ p[1] <= enrolled + 1 /\ p[1] # enrolled + 1
      BY <1>0
    <3>2. <<enrolled + 1, step>>[1] = enrolled + 1 /\ <<enrolled + 1, step>>[2] = step
      OBVIOUS
    <3>. QED
      BY <1>0, <1>1, <1>3, <1>4, <1>10, <2>1, <3>1, <3>2
  <2>3. accepted' \subseteq Int \X Int
    <3>1. <<enrolled + 1, step>> \in Int \X Int
      BY <1>0, <1>3
    <3>. QED
      BY <1>0, <1>10, <3>1
  <2>. QED
    BY <1>0, <1>1, <1>6, <1>10, <2>2, <2>3, CodeParts DEF OnceInv, CodeInv
<1>8. CASE file' = file /\ accepted' = accepted /\ replayed' = replayed
  <2>1. Kept' = Kept
    BY <1>1, <1>8 DEF Kept
  <2>2. \A p \in accepted' : p[1] <= enrolled' /\ (p[1] = Kept'.id => p[2] <= Kept'.step)
    BY <1>0, <1>1, <1>8, <2>1
  <2>. QED
    BY <1>0, <1>1, <1>6, <1>8, <2>2, CodeParts DEF OnceInv, CodeInv
<1>. QED
  BY <1>7, <1>8, <1>9

\* What VerifyTOTP looks at, and what it consumes: the enrollment it read counts until
\* it is written, whatever the user does to the file.
LEMMA OnceVerify ==
  ASSUME AuthBounds, OnceInv,
         \/ \E p \in m.pending : VerifyBegin(p)
         \/ VerifyEnd
         \/ WriteCrashes /\ verifying.next = "save"
  PROVE  OnceInv'
<1>0. /\ file \in Enrollment /\ copy \in Enrollment /\ enrolled \in Nat
      /\ file.id <= enrolled /\ copy.id <= enrolled
      /\ accepted \subseteq Int \X Int /\ ~replayed /\ verifying.step \in Int
      /\ \A p \in accepted : p[1] <= enrolled /\ (p[1] = Kept.id => p[2] <= Kept.step)
  BY CodeParts DEF OnceInv, FileInv, CodeInv
<1>1. ASSUME NEW entry \in m.pending, VerifyBegin(entry) PROVE OnceInv'
  <2>1. UNCHANGED <<file, copy, enrolled, accepted, replayed>> /\ verifying = NoCode
        /\ m.status = "configured" /\ IsEnrollment(m.enrollment) /\ file = m.enrollment
    BY <1>1 DEF VerifyBegin, Usable, Up, Settled, LoadFails, user, ghosts
  <2>2. PICK step \in ValidSteps :
           \/ verifying' = verifying
           \/ /\ ~(step <= m.enrollment.step) /\ m' = m
              /\ verifying' = [next |-> "recheck", token |-> entry.token, step |-> step]
    BY <1>1 DEF VerifyBegin
  <2>3. CASE verifying' = verifying
    BY <2>1, <2>3, OnceStays
  <2>4. CASE /\ ~(step <= m.enrollment.step) /\ m' = m
             /\ verifying' = [next |-> "recheck", token |-> entry.token, step |-> step]
    <3>1. step \in Int
      BY DEF ValidSteps, AuthBounds
    <3>2. verifying'.step = step /\ verifying'.next = "recheck"
      BY <2>4
    <3>3. m'.status # "down" /\ IsEnrollment(m'.enrollment) /\ ~(verifying'.step <= m'.enrollment.step) /\ verifying'.step \in Int
      BY <2>1, <2>4, <3>1, <3>2
    <3>4. FileInv'
      BY <2>1 DEF OnceInv, FileInv
    <3>5. /\ \A p \in accepted' : p[1] <= enrolled' /\ (p[1] = Kept'.id => p[2] <= Kept'.step)
          /\ Kept' = m'.enrollment
      BY <1>0, <2>1, <2>4 DEF Kept
    <3>6. IsCode(verifying')
      BY <2>4, <3>1 DEF IsCode
    <3>. QED
      BY <1>0, <2>1, <3>2, <3>3, <3>4, <3>5, <3>6 DEF OnceInv, CodeInv
  <2>. QED
    BY <2>2, <2>3, <2>4
<1>2. CASE VerifyEnd \/ (WriteCrashes /\ verifying.next = "save")
  <2>. DEFINE record == [m.enrollment EXCEPT !.step = verifying.step]
              code == <<m.enrollment.id, verifying.step>>
  <2>1. /\ verifying.next = "save" /\ verifying' = NoCode
        /\ copy' = copy /\ enrolled' = enrolled
    BY <1>2 DEF VerifyEnd, WriteCrashes, user
  <2>3. IsEnrollment(m.enrollment) /\ Kept = m.enrollment /\ ~(verifying.step <= Kept.step)
    BY <2>1 DEF OnceInv, CodeInv
  <2>12. Kept \in Enrollment /\ Kept.id <= enrolled
    BY <1>0 DEF Kept
  <2>4. /\ record \in Enrollment /\ record.id = Kept.id /\ record.step = verifying.step
        /\ Kept.step < record.step /\ Kept.id \in Int /\ Kept.step \in Int
        /\ record = Consumed /\ Consumed.id = m.enrollment.id
    BY <1>0, <2>3, <2>12 DEF Enrollment, Consumed
  <2>2. \/ /\ file' = record /\ accepted' = accepted \union {code}
           /\ replayed' => replayed \/ code \in accepted
        \/ file' \in {file, record} /\ accepted' = accepted /\ replayed' = replayed
    <3>1. CASE VerifyEnd
      <4>1. PICK saved \in SaveEnrollment(Consumed) :
               /\ file' = saved.file
               /\ IF saved.ok THEN Accept(Consumed.id, verifying.step)
                  ELSE accepted' = accepted /\ replayed' = replayed
        BY <3>1 DEF VerifyEnd
      <4>2. saved.file \in {file, Consumed} /\ (saved.ok => saved.file = Consumed)
        BY DEF SaveEnrollment
      <4>. QED
        BY <2>4, <4>1, <4>2 DEF Accept
    <3>2. CASE WriteCrashes /\ verifying.next = "save"
      BY <2>4, <3>2 DEF WriteCrashes, ghosts
    <3>. QED
      BY <1>2, <3>1, <3>2
  <2>5. code[1] = Kept.id /\ code[2] = verifying.step /\ code \in Int \X Int
    BY <1>0, <2>3, <2>4
  <2>6. code \notin accepted
    BY <1>0, <2>3, <2>5
  <2>13. IsEnrollment(record) /\ IsEnrollment(Kept)
    BY <2>3, <2>4 DEF IsEnrollment
  <2>. HIDE DEF record, code
  <2>7. /\ file' = record \/ file' = file
        /\ accepted' # accepted => accepted' = accepted \union {code} /\ file' = record
        /\ ~replayed'
    BY <1>0, <2>2, <2>6
  <2>8. Kept' = record \/ (Kept' = Kept /\ accepted' = accepted)
    <3>1. CASE file' = record
      BY <2>13, <3>1 DEF Kept
    <3>2. CASE file' = file /\ accepted' = accepted
      BY <2>1, <3>2 DEF Kept
    <3>. QED
      BY <2>7, <3>1, <3>2
  <2>9. FileInv'
    <3>1. /\ IsEnrollment(file') \/ file' \in {NoFile, BadFile}
          /\ IsEnrollment(copy') \/ copy' = NoFile
      BY <2>1, <2>7, <2>13 DEF OnceInv, FileInv
    <3>2. file' \in Enrollment /\ file'.id <= enrolled
      BY <1>0, <2>4, <2>7, <2>12
    <3>. QED
      BY <1>0, <2>1, <3>1, <3>2 DEF FileInv
  <2>10. \A p \in accepted' : p[1] <= enrolled' /\ (p[1] = Kept'.id => p[2] <= Kept'.step)
    <3>1. CASE Kept' = Kept /\ accepted' = accepted
      BY <1>0, <2>1, <3>1
    <3>2. CASE Kept' = record
      <4>1. ASSUME NEW p \in accepted PROVE p[1] <= enrolled /\ (p[1] = Kept.id => p[2] <= record.step)
        <5>1. p[2] \in Int /\ p[1] <= enrolled /\ (p[1] = Kept.id => p[2] <= Kept.step)
          BY <1>0
        <5>2. record.step \in Int
          BY <2>4 DEF Enrollment
        <5>. QED
          BY <2>4, <5>1, <5>2
      <4>2. code[1] <= enrolled /\ code[2] <= record.step
        BY <1>0, <2>4, <2>5, <2>12
      <4>. QED
        BY <2>1, <2>4, <2>7, <3>2, <4>1, <4>2
    <3>. QED
      BY <2>8, <3>1, <3>2
  <2>11. accepted' \subseteq Int \X Int
    BY <1>0, <2>5, <2>7
  <2>. QED
    BY <2>1, <2>7, <2>9, <2>10, <2>11, CodeParts DEF OnceInv, CodeInv
<1>. QED
  BY <1>1, <1>2

\* The user takes the file away and puts his copy of it back.
LEMMA OnceMeddle ==
  ASSUME OnceInv, TakeFile \/ RepairFile
  PROVE  OnceInv'
<1>1. /\ UNCHANGED <<m, verifying, enrolled, accepted, replayed>>
      /\ {file', copy'} \subseteq {file, copy, NoFile, BadFile}
  BY DEF TakeFile, RepairFile, ghosts
<1>2. NoFile \in Enrollment /\ BadFile \in Enrollment /\ NoFile.id = 0 /\ BadFile.id = 0 - 1
  BY DEF NoFile, BadFile, Enrollment
<1>3. FileInv'
  <2>1. file' \in {file, copy, NoFile, BadFile} /\ copy' \in {file, copy, NoFile, BadFile}
    BY <1>1
  <2>2. enrolled \in Nat /\ \A f \in {file, copy, NoFile, BadFile} : f \in Enrollment /\ f.id <= enrolled
    BY <1>2 DEF OnceInv, FileInv
  <2>3. /\ IsEnrollment(file') \/ file' \in {NoFile, BadFile}
        /\ IsEnrollment(copy') \/ copy' = NoFile
    BY DEF TakeFile, RepairFile, OnceInv, FileInv, IsEnrollment
  <2>. QED
    BY <1>1, <2>1, <2>2, <2>3 DEF FileInv
<1>4. Kept' = Kept
  BY <1>2 DEF TakeFile, RepairFile, Kept, IsEnrollment
<1>5. IsEnrollment(file') => file' = copy'
  BY <1>2 DEF TakeFile, RepairFile, IsEnrollment
<1>. QED
  BY <1>1, <1>3, <1>4, <1>5 DEF OnceInv, CodeInv

\* Nothing was accepted at first.
LEMMA OnceInit == ASSUME AuthInit PROVE OnceInv
<1>1. FileInv
  BY DEF AuthInit, FileInv, Enrollment, NoFile
<1>2. ~IsEnrollment(NoFile)
  BY DEF IsEnrollment, NoFile
<1>. QED
  BY <1>1, <1>2, CodeParts DEF AuthInit, OnceInv, CodeInv

\* Every step keeps the record of the consumed codes ahead of the accepted ones.
LEMMA OnceNext ==
  ASSUME AuthBounds, OnceInv, [AuthNext]_authVars
  PROVE  OnceInv'
<1>1. CASE AuthNext
  <2>1. WriteCrashes => verifying.next = "save" \/ verifying.next = "confirm"
    BY DEF WriteCrashes
  <2>. QED
    BY <1>1, <2>1, OnceQuiet, OnceConfirm, OnceVerify, OnceMeddle DEF AuthNext
<1>2. CASE UNCHANGED authVars
  BY <1>2, OnceStays DEF authVars
<1>. QED
  BY <1>1, <1>2

\* A code of an enrollment is accepted once, across failed writes, restarts, lost
\* answers and a file that the user removes and puts back (totp_flows.go:173).
THEOREM CodesHold == ASSUME AuthBounds PROVE AuthSpec => []CodeOnce
<1>1. AuthInit => OnceInv
  BY OnceInit
<1>2. OnceInv /\ [AuthNext]_authVars => OnceInv'
  BY OnceNext
<1>3. OnceInv => CodeOnce
  BY DEF OnceInv, CodeInv, CodeOnce
<1>. QED
  BY <1>1, <1>2, <1>3, PTL DEF AuthSpec

-----------------------------------------------------------------------------
(* Credentials                                                             *)

Statuses == {"down", "unconfigured", "configured", "storage_error"}
Access == [token : Ids, session : Ids]
Manager == [status : Statuses, enrollment : Enrollment, refresh : SUBSET Session,
            access : SUBSET Access, challenge : BOOLEAN, pending : SUBSET Pending,
            failed : 0..MaxAttempts, locked : BOOLEAN, epoch : Nat]

Few(pending) == IsFiniteSet(pending) /\ Cardinality(pending) <= MaxPending

\* The budget of wrong codes is spent only when the service is locked.
Budget(n) == ~n.locked => n.failed < MaxAttempts

\* What is true of a manager when e enrollments were made and the sessions x expired.
Sound(n, e, x) ==
    /\ n \in Manager /\ Few(n.pending) /\ Budget(n)
    /\ n.status = "configured" => n.enrollment.id \in 1..e
    /\ n.status = "down" => n = Down
    /\ \A s \in n.refresh : Bound(n, s)
    /\ n.access # {} => n.status = "configured"
    /\ \A a \in n.access : a.session \in x \union {s.id : s \in n.refresh}

\* What is true of sessions, in memory or on disk, when k tokens were made.
Stored(S, k, used) ==
    /\ S \subseteq Session
    /\ \A s, t \in S : s.id = t.id \/ s.token = t.token => s = t
    /\ \A s \in S : s.id <= k /\ s.token <= k /\ s.token \notin used

Watch == [epoch : Int, session : Int, enrollment : Int]

\* A stream is watched by the manager n.
Watched(n, w) ==
    /\ n.status = "down" => w = NoStream
    /\ w \in Watch /\ (n.status # "down" => w.epoch <= n.epoch)
    /\ (n.status # "down" /\ w.session # 0 /\ w.epoch = n.epoch) =>
          n.status = "configured" /\ n.enrollment.id = w.enrollment

Counters ==
    /\ minted \in 0..MaxTokens /\ enrolled \in 0..MaxEnrollments /\ now \in 1..MaxStep
    /\ spent \subseteq 1..minted /\ verifying.token \in 0..MaxTokens

\* Whoever holds the mutex for a write found the manager n as the write needs it, with
\* k tokens and e enrollments made.
MayWrite(code, n, k, e) ==
    /\ n.status # "down" /\ ~n.locked
    /\ code.next \in {"recheck", "save"} => n.status = "configured" /\ k < MaxTokens
    /\ code.next = "confirm" => n.status = "unconfigured" /\ e < MaxEnrollments

HoldInv ==
    /\ Counters
    /\ Sound(m, enrolled, expired)
    /\ Stored(m.refresh, minted, spent) /\ Stored(disk, minted, spent)
    /\ verifying # NoCode => MayWrite(verifying, m, minted, enrolled)
    /\ Watched(m, stream)

CredInv == OnceInv /\ HoldInv

\* A finite number of pending tokens has an oldest one.
LEMMA Least ==
  ASSUME NEW S \in SUBSET Nat, S # {}
  PROVE  \E x \in S : \A y \in S : x <= y
<1>. DEFINE Less == OpToRel(<, Nat)
<1>1. IsWellFoundedOn(Less, Nat)
  BY NatLessThanWellFounded
<1>3. ASSUME NEW x \in Nat, NEW y \in Nat, <<y, x>> \notin Less PROVE x <= y
  <2>1. ~(y < x)
    BY <1>3 DEF OpToRel
  <2>. QED
    BY <2>1
<1>2. \E x \in S : \A y \in S : ~(<<y, x>> \in Less)
  <2>. HIDE DEF Less
  <2>. QED
    BY <1>1, WFMin
<1>4. PICK x \in S : \A y \in S : ~(<<y, x>> \in Less)
  <2>. HIDE DEF Less
  <2>. QED
    BY <1>2
<1>5. ASSUME NEW y \in S PROVE x <= y
  <2>1. <<y, x>> \notin Less
    BY <1>4, Zenon
  <2>. QED
    BY <1>3, <2>1, Zenon
<1>. QED
  BY <1>5

LEMMA OldestIsPending ==
  ASSUME NEW S \in SUBSET Pending, S # {}
  PROVE  Oldest(S) \in S
<1>. DEFINE tokens == {p.token : p \in S}
<1>1. \A p \in S : p.token \in Nat
  BY DEF Pending, Ids
<1>2. tokens \in SUBSET Nat /\ tokens # {}
  BY <1>1
<1>3. PICK x \in tokens : \A y \in tokens : x <= y
  <2>. HIDE DEF tokens
  <2>. QED
    BY <1>2, Least
<1>4. PICK p \in S : p.token = x
  OBVIOUS
<1>5. \E q \in S : \A r \in S : q.token <= r.token
  BY <1>3, <1>4
<1>. QED
  BY <1>5 DEF Oldest

\* The pending tokens stay few.
LEMMA FewTokens ==
  ASSUME AuthBounds, NEW S \in SUBSET Pending, Few(S)
  PROVE  /\ \A T \in SUBSET S : Few(T)
         /\ \A p \in S, q \in Pending : Few((S \ {p}) \union {q})
         /\ \A q \in Pending :
               Few({q} \union IF Cardinality(S) >= MaxPending THEN S \ {Oldest(S)} ELSE S)
<1>. DEFINE size == Cardinality(S)
<1>1. IsFiniteSet(S) /\ size \in Nat /\ size <= MaxPending /\ MaxPending \in Nat \ {0}
  BY FS_CardinalityType DEF Few, AuthBounds
<1>2. \A T \in SUBSET S : Few(T)
  <2>. TAKE T \in SUBSET S
  <2>1. IsFiniteSet(T) /\ Cardinality(T) <= size /\ Cardinality(T) \in Nat
    BY <1>1, FS_Subset, FS_CardinalityType
  <2>. QED
    BY <1>1, <2>1 DEF Few
<1>3. ASSUME NEW T, IsFiniteSet(T), Cardinality(T) < MaxPending, NEW q PROVE Few(T \union {q})
  <2>1. IsFiniteSet(T \union {q}) /\ Cardinality(T) \in Nat
        /\ Cardinality(T \union {q}) \in {Cardinality(T), Cardinality(T) + 1}
    BY <1>3, FS_AddElement, FS_CardinalityType
  <2>. QED
    BY <1>1, <1>3, <2>1 DEF Few
<1>4. \A p \in S : IsFiniteSet(S \ {p}) /\ Cardinality(S \ {p}) = size - 1
  BY <1>1, FS_RemoveElement
<1>5. \A p \in S, q \in Pending : Few((S \ {p}) \union {q})
  <2>. TAKE p \in S, q \in Pending
  <2>1. Cardinality(S \ {p}) < MaxPending
    BY <1>1, <1>4
  <2>. QED
    BY <1>3, <1>4, <2>1
<1>6. ASSUME NEW q \in Pending
      PROVE  Few({q} \union IF size >= MaxPending THEN S \ {Oldest(S)} ELSE S)
  <2>1. CASE size >= MaxPending
    <3>1. S # {}
      BY <1>1, <2>1, FS_EmptySet
    <3>2. Oldest(S) \in S
      BY <3>1, OldestIsPending
    <3>3. Few((S \ {Oldest(S)}) \union {q})
      BY <1>5, <3>2
    <3>. QED
      BY <2>1, <3>3
  <2>2. CASE ~(size >= MaxPending)
    <3>1. Cardinality(S) < MaxPending
      BY <1>1, <2>2
    <3>2. Few(S \union {q})
      BY <1>1, <1>3, <3>1
    <3>3. {q} \union S = S \union {q}
      OBVIOUS
    <3>. QED
      BY <2>2, <3>2, <3>3
  <2>. QED
    BY <2>1, <2>2
<1>. QED
  BY <1>2, <1>5, <1>6

-----------------------------------------------------------------------------
(* What the operations make of a manager                                   *)

\* The first manager.
LEMMA DownIsSound ==
  ASSUME AuthBounds, NEW e, NEW x
  PROVE  Sound(Down, e, x) /\ Stored(Down.refresh, e, x)
<1>1. Few({})
  BY FS_EmptySet DEF Few, AuthBounds
<1>2. Down \in Manager
  BY DEF Down, Manager, Statuses, Enrollment, NoFile, AuthBounds
<1>3. Budget(Down)
  BY DEF Down, Budget, AuthBounds
<1>. QED
  BY <1>1, <1>2, <1>3 DEF Down, Sound, Stored

\* More enrollments and expired sessions do not matter.
LEMMA SoundLater ==
  ASSUME NEW n, NEW e \in Nat, NEW f \in Nat, NEW x, NEW y, Sound(n, e, x), e <= f, x \subseteq y
  PROVE  Sound(n, f, y)
<1>1. 1..e \subseteq 1..f
  OBVIOUS
<1>. QED
  BY <1>1 DEF Sound

\* A running manager whose credentials are the same or fewer.
LEMMA SoundSame ==
  ASSUME NEW n, NEW e, NEW x, Sound(n, e, x), n.status # "down",
         NEW n2 \in Manager, Few(n2.pending), Budget(n2), n2.access \subseteq n.access,
         n2.status = n.status, n2.enrollment = n.enrollment, n2.refresh = n.refresh
  PROVE  Sound(n2, e, x)
<1>1. \A s : Bound(n, s) => Bound(n2, s)
  BY DEF Bound
<1>. QED
  BY <1>1 DEF Sound

\* A save leaves the manager it is given, and on disk the old sessions or his.
LEMMA SavedOutcome ==
  ASSUME NEW n, NEW o \in Persist(n)
  PROVE  o.m = n /\ o.ok \in BOOLEAN /\ o.disk \in {disk, n.refresh} /\ (o.ok => o.disk = n.refresh)
         /\ DOMAIN o = {"m", "disk", "ok"}
<1>1. CASE o = [m |-> n, disk |-> n.refresh, ok |-> TRUE]
  BY <1>1
<1>2. CASE \E d \in {disk, n.refresh} : o = [m |-> n, disk |-> d, ok |-> FALSE]
  BY <1>2
<1>. QED
  BY <1>1, <1>2 DEF Persist

\* After the enrollment changed no credential is left.
LEMMA NothingIsLeft ==
  ASSUME AuthBounds, NEW n \in Manager, n.status # "down", Budget(n), NEW e, NEW x,
         n.status = "configured" => n.enrollment.id \in 1..e,
         NEW o \in Invalidate(n)
  PROVE  /\ Sound(o.m, e, x) /\ o.m.refresh = {} /\ o.m.pending = {} /\ o.m.access = {}
         /\ o.m.challenge = FALSE /\ o.m.status \in {n.status, "storage_error"}
         /\ o.m.locked = n.locked /\ o.m.epoch = n.epoch + 1
         /\ o.ok \in BOOLEAN /\ o.disk \in {disk, {}}
<1>. DEFINE bare == [n EXCEPT !.pending = {}, !.access = {}, !.challenge = FALSE,
                              !.refresh = {}, !.epoch = @ + 1]
<1>1. /\ bare \in Manager /\ bare.pending = {} /\ bare.access = {} /\ bare.challenge = FALSE
      /\ bare.refresh = {} /\ bare.epoch = n.epoch + 1 /\ bare.status = n.status
      /\ bare.enrollment = n.enrollment /\ bare.locked = n.locked /\ bare.failed = n.failed
  <2>1. /\ bare.pending = {} /\ bare.access = {} /\ bare.challenge = FALSE
        /\ bare.refresh = {} /\ bare.epoch = n.epoch + 1 /\ bare.status = n.status
        /\ bare.enrollment = n.enrollment /\ bare.locked = n.locked /\ bare.failed = n.failed
        /\ DOMAIN bare = DOMAIN n
    BY DEF Manager
  <2>2. n.epoch + 1 \in Nat
    BY DEF Manager
  <2>3. ASSUME NEW k \in Nat
        PROVE  [n EXCEPT !.pending = {}, !.access = {}, !.challenge = FALSE,
                         !.refresh = {}, !.epoch = k] \in Manager
    BY Zenon DEF Manager
  <2>4. bare \in Manager
    BY <2>2, <2>3
  <2>. QED
    BY <2>1, <2>4
<1>2. PICK saved \in Persist(bare) :
         o = IF saved.ok THEN saved ELSE [saved EXCEPT !.m.status = "storage_error"]
  BY DEF Invalidate
<1>. HIDE DEF bare
<1>3. saved.m = bare /\ saved.ok \in BOOLEAN /\ saved.disk \in {disk, {}}
      /\ DOMAIN saved = {"m", "disk", "ok"}
  <2>1. /\ saved.m = bare /\ saved.ok \in BOOLEAN /\ saved.disk \in {disk, bare.refresh}
        /\ DOMAIN saved = {"m", "disk", "ok"}
    BY SavedOutcome
  <2>. QED
    BY <1>1, <2>1
<1>4. \/ o.m = bare
      \/ o.m = [bare EXCEPT !.status = "storage_error"]
  BY <1>2, <1>3
<1>5. o.ok = saved.ok /\ o.disk = saved.disk
  BY <1>2, <1>3
<1>6. /\ o.m \in Manager /\ o.m.pending = {} /\ o.m.access = {} /\ o.m.challenge = FALSE
      /\ o.m.refresh = {} /\ o.m.epoch = n.epoch + 1 /\ o.m.status \in {n.status, "storage_error"}
      /\ o.m.enrollment = n.enrollment /\ o.m.locked = n.locked /\ o.m.failed = n.failed
  BY <1>1, <1>4 DEF Manager, Statuses
<1>7. Few({})
  BY FS_EmptySet DEF Few, AuthBounds
<1>8. Sound(o.m, e, x)
  BY <1>6, <1>7 DEF Sound, Budget
<1>. QED
  BY <1>3, <1>5, <1>6, <1>8

\* A wrong proof or code is counted, and the last one locks the service.
LEMMA FailureOutcome ==
  ASSUME AuthBounds, NEW n \in Manager, Budget(n), ~n.locked
  PROVE  /\ Failure(n) \in Manager /\ Budget(Failure(n))
         /\ Failure(n).status = n.status /\ Failure(n).enrollment = n.enrollment
         /\ Failure(n).refresh = n.refresh /\ Failure(n).access = n.access
         /\ Failure(n).pending = n.pending /\ Failure(n).epoch = n.epoch
<1>. DEFINE full == n.locked \/ n.failed + 1 >= MaxAttempts
<1>1. n.failed + 1 \in 0..MaxAttempts
  BY DEF Manager, Budget, AuthBounds
<1>2. ASSUME NEW k \in 0..MaxAttempts, NEW b \in BOOLEAN
      PROVE  [n EXCEPT !.failed = k, !.locked = b] \in Manager
  BY Zenon DEF Manager
<1>3. Failure(n) = [n EXCEPT !.failed = n.failed + 1, !.locked = full]
  BY DEF Failure
<1>4. full \in BOOLEAN
  BY DEF Manager
<1>5. full \/ n.failed + 1 < MaxAttempts
  BY <1>1, n.failed + 1 \in Int, MaxAttempts \in Int DEF AuthBounds
<1>. HIDE DEF full
<1>6. Failure(n) \in Manager
  BY <1>1, <1>2, <1>3, <1>4
<1>7. /\ Failure(n).status = n.status /\ Failure(n).enrollment = n.enrollment
      /\ Failure(n).refresh = n.refresh /\ Failure(n).access = n.access
      /\ Failure(n).pending = n.pending /\ Failure(n).epoch = n.epoch
      /\ Failure(n).failed = n.failed + 1 /\ (Failure(n).locked <=> full)
  BY <1>3, <1>4 DEF Manager
<1>8. Budget(Failure(n))
  BY <1>5, <1>7 DEF Budget
<1>. QED
  BY <1>6, <1>7, <1>8

\* Changing the pending tokens changes nothing else.
LEMMA PendingOutcome ==
  ASSUME NEW n \in Manager, NEW S \in SUBSET Pending
  PROVE  LET r == [n EXCEPT !.pending = S] IN
         /\ r \in Manager /\ r.pending = S /\ (Budget(n) => Budget(r))
         /\ r.status = n.status /\ r.enrollment = n.enrollment /\ r.refresh = n.refresh
         /\ r.access = n.access /\ r.epoch = n.epoch /\ r.locked = n.locked
<1>. DEFINE r == [n EXCEPT !.pending = S]
<1>1. r \in Manager
  BY Zenon DEF Manager
<1>2. /\ r.pending = S /\ r.status = n.status /\ r.enrollment = n.enrollment
      /\ r.refresh = n.refresh /\ r.access = n.access /\ r.epoch = n.epoch
      /\ r.locked = n.locked /\ r.failed = n.failed
  BY DEF Manager
<1>. HIDE DEF r
<1>3. Budget(n) => Budget(r)
  BY <1>2 DEF Budget
<1>. QED
  BY <1>1, <1>2, <1>3 DEF r

\* Changing the challenge changes nothing else.
LEMMA ChallengeOutcome ==
  ASSUME NEW n \in Manager, NEW b \in BOOLEAN
  PROVE  LET r == [n EXCEPT !.challenge = b] IN
         /\ r \in Manager /\ r.pending = n.pending /\ (Budget(n) => Budget(r))
         /\ r.status = n.status /\ r.enrollment = n.enrollment /\ r.refresh = n.refresh
         /\ r.access = n.access /\ r.epoch = n.epoch /\ r.locked = n.locked
<1>. DEFINE r == [n EXCEPT !.challenge = b]
<1>1. r \in Manager
  BY Zenon DEF Manager
<1>2. /\ r.pending = n.pending /\ r.status = n.status /\ r.enrollment = n.enrollment
      /\ r.refresh = n.refresh /\ r.access = n.access /\ r.epoch = n.epoch
      /\ r.locked = n.locked /\ r.failed = n.failed
  BY DEF Manager
<1>. HIDE DEF r
<1>3. Budget(n) => Budget(r)
  BY <1>2 DEF Budget
<1>. QED
  BY <1>1, <1>2, <1>3 DEF r

\* A stream stays watched while the enrollment is the same, and afterwards.
LEMMA WatchedLater ==
  ASSUME NEW n \in Manager, NEW n2 \in Manager, NEW w, Watched(n, w),
         n.status # "down", n2.status # "down",
         \/ n2.epoch = n.epoch /\ n2.status = n.status /\ n2.enrollment.id = n.enrollment.id
         \/ n2.epoch > n.epoch
  PROVE  Watched(n2, w)
  BY DEF Watched, Watch, Manager

\* reconcileLocked: no credential is left, and the stream's watch fires.
LEMMA ReconcileOutcome ==
  ASSUME AuthBounds, CredInv, m.status # "down", NEW o \in Reconciled
  PROVE  /\ Sound(o.m, enrolled, expired) /\ o.m.refresh = {} /\ o.m.pending = {}
         /\ o.m.locked = m.locked /\ Watched(o.m, stream) /\ o.m.status # "down"
         /\ Stored(o.disk, minted, spent) /\ o.m \in Manager
<1>0. m \in Manager /\ Budget(m) /\ Watched(m, stream) /\ file \in Enrollment /\ file.id <= enrolled
      /\ enrolled \in Nat /\ (m.status = "configured" => m.enrollment.id \in 1..enrolled)
  BY DEF CredInv, OnceInv, HoldInv, Sound, FileInv
<1>1. ASSUME NEW status \in {"unconfigured", "configured"}, NEW record \in Enrollment
      PROVE  LET n == [m EXCEPT !.status = status, !.enrollment = record] IN
             /\ n \in Manager /\ Budget(n) /\ n.status = status /\ n.enrollment = record
             /\ n.locked = m.locked /\ n.epoch = m.epoch
  <2>. DEFINE n == [m EXCEPT !.status = status, !.enrollment = record]
  <2>1. status \in Statuses
    BY DEF Statuses
  <2>2. n \in Manager
    BY <1>0, <2>1, Zenon DEF Manager
  <2>3. /\ n.status = status /\ n.enrollment = record /\ n.locked = m.locked
        /\ n.failed = m.failed /\ n.epoch = m.epoch
    BY <1>0 DEF Manager
  <2>. HIDE DEF n
  <2>4. Budget(n)
    BY <1>0, <2>3 DEF Budget
  <2>. QED
    BY <2>2, <2>3, <2>4 DEF n
<1>7. LET n == [m EXCEPT !.status = "storage_error"] IN
      /\ n \in Manager /\ Budget(n) /\ n.status = "storage_error"
      /\ n.locked = m.locked /\ n.epoch = m.epoch
  <2>. DEFINE n == [m EXCEPT !.status = "storage_error"]
  <2>1. n \in Manager
    BY <1>0, Zenon DEF Manager, Statuses
  <2>2. n.status = "storage_error" /\ n.locked = m.locked /\ n.failed = m.failed /\ n.epoch = m.epoch
    BY <1>0 DEF Manager
  <2>. HIDE DEF n
  <2>3. Budget(n)
    BY <1>0, <2>2 DEF Budget
  <2>. QED
    BY <2>1, <2>2, <2>3 DEF n
<1>2. PICK n \in Manager :
         /\ o \in Invalidate(n) /\ Budget(n) /\ n.status # "down"
         /\ n.status = "configured" => n.enrollment.id \in 1..enrolled
         /\ n.locked = m.locked /\ n.epoch = m.epoch
  <2>1. CASE LoadFails
    <3>. DEFINE n == [m EXCEPT !.status = "storage_error"]
    <3>1. o \in Invalidate(n)
      BY <2>1 DEF Reconciled, Deny
    <3>2. /\ n \in Manager /\ Budget(n) /\ n.status = "storage_error"
          /\ n.locked = m.locked /\ n.epoch = m.epoch
      BY <1>7
    <3>. HIDE DEF n
    <3>. QED
      BY <3>1, <3>2
  <2>2. CASE ~LoadFails /\ file = NoFile
    <3>1. NoFile \in Enrollment
      BY DEF NoFile, Enrollment
    <3>. DEFINE n == [m EXCEPT !.status = "unconfigured", !.enrollment = NoFile]
    <3>2. o \in Invalidate(n)
      BY <2>2 DEF Reconciled, Drop, LoadFails
    <3>3. /\ n \in Manager /\ Budget(n) /\ n.status = "unconfigured"
          /\ n.locked = m.locked /\ n.epoch = m.epoch
      BY <1>1, <3>1
    <3>. HIDE DEF n
    <3>. QED
      BY <3>2, <3>3
  <2>3. CASE ~LoadFails /\ file # NoFile
    <3>1. file.id \in 1..enrolled
      BY <1>0, <2>3 DEF CredInv, OnceInv, FileInv, LoadFails, IsEnrollment, Enrollment
    <3>. DEFINE n == [m EXCEPT !.status = "configured", !.enrollment = file]
    <3>2. o \in Invalidate(n)
      BY <2>3 DEF Reconciled, Adopt, LoadFails
    <3>3. /\ n \in Manager /\ Budget(n) /\ n.status = "configured" /\ n.enrollment = file
          /\ n.locked = m.locked /\ n.epoch = m.epoch
      BY <1>0, <1>1
    <3>. HIDE DEF n
    <3>. QED
      BY <3>1, <3>2, <3>3
  <2>. QED
    BY <2>1, <2>2, <2>3
<1>3. /\ Sound(o.m, enrolled, expired) /\ o.m.refresh = {} /\ o.m.pending = {}
      /\ o.m.status \in {n.status, "storage_error"}
      /\ o.m.locked = n.locked /\ o.m.epoch = n.epoch + 1 /\ o.disk \in {disk, {}}
  BY <1>2, NothingIsLeft
<1>4. o.m \in Manager /\ m.epoch \in Nat
  BY <1>0, <1>3 DEF Sound, Manager
<1>5. Watched(o.m, stream)
  BY <1>0, <1>2, <1>3, <1>4, WatchedLater
<1>6. Stored(o.disk, minted, spent)
  BY <1>3 DEF CredInv, HoldInv, Stored
<1>. QED
  BY <1>2, <1>3, <1>4, <1>5, <1>6

-----------------------------------------------------------------------------
(* The steps of the service                                                *)

StepOK == AdmittedWhileEnrolled /\ FirstEnrollmentWins /\ LockHolds

\* What the invariant says of the parts.
LEMMA HoldFacts ==
  ASSUME CredInv
  PROVE  /\ m \in Manager /\ Few(m.pending) /\ Budget(m) /\ m.pending \subseteq Pending
         /\ m.refresh \subseteq Session /\ m.access \subseteq Access
         /\ minted \in 0..MaxTokens /\ enrolled \in Nat /\ enrolled \in 0..MaxEnrollments
         /\ now \in 1..MaxStep /\ file \in Enrollment /\ verifying.token \in 0..MaxTokens
         /\ m.status = "down" => m = Down /\ stream = NoStream /\ verifying = NoCode
<1>1. m \in Manager /\ Sound(m, enrolled, expired) /\ Counters /\ FileInv
  BY DEF CredInv, HoldInv, OnceInv, Sound
<1>2. m.pending \subseteq Pending /\ m.refresh \subseteq Session /\ m.access \subseteq Access
  BY <1>1 DEF Manager
<1>3. m.status = "down" => m = Down /\ stream = NoStream /\ verifying = NoCode
  BY <1>1 DEF CredInv, HoldInv, Sound, Watched, MayWrite
<1>. QED
  BY <1>1, <1>2, <1>3 DEF Sound, Counters, FileInv

\* A step that keeps the stored sessions.
LEMMA QuietHold ==
  ASSUME CredInv, UNCHANGED <<disk, minted, enrolled, spent>>,
         now' \in 1..MaxStep, expired \subseteq expired',
         Sound(m', enrolled, expired), Stored(m'.refresh, minted, spent), Watched(m', stream'),
         verifying'.token \in 0..MaxTokens,
         verifying' # NoCode => MayWrite(verifying', m', minted, enrolled)
  PROVE  HoldInv'
<1>1. Counters'
  BY DEF CredInv, HoldInv, Counters
<1>2. Sound(m', enrolled', expired')
  <2>1. enrolled \in Nat /\ enrolled <= enrolled
    BY HoldFacts
  <2>. QED
    BY <2>1, SoundLater
<1>. QED
  BY <1>1, <1>2 DEF CredInv, HoldInv

\* A step that leaves the manager alone.
LEMMA StillHold ==
  ASSUME CredInv, UNCHANGED <<m, disk, minted, enrolled, spent, verifying>>,
         now' \in 1..MaxStep, expired \subseteq expired', Watched(m, stream')
  PROVE  HoldInv'
<1>1. /\ Sound(m', enrolled, expired) /\ Stored(m'.refresh, minted, spent)
      /\ verifying'.token \in 0..MaxTokens
      /\ verifying' # NoCode => MayWrite(verifying', m', minted, enrolled)
  BY DEF CredInv, HoldInv, Counters
<1>. QED
  BY <1>1, QuietHold

\* A step that changes only pending tokens, the challenge, the budget or access tokens.
LEMMA MemoryHold ==
  ASSUME AuthBounds, CredInv, m.status # "down", UNCHANGED <<disk, minted, enrolled, spent, now, expired, stream>>,
         m' \in Manager, Few(m'.pending), Budget(m'), m'.access \subseteq m.access,
         m'.status = m.status, m'.enrollment = m.enrollment, m'.refresh = m.refresh,
         m'.epoch = m.epoch, verifying' = NoCode
  PROVE  HoldInv'
<1>1. Sound(m, enrolled, expired) /\ Watched(m, stream) /\ Stored(m.refresh, minted, spent)
      /\ now \in 1..MaxStep /\ m \in Manager
  BY HoldFacts DEF CredInv, HoldInv
<1>2. Sound(m', enrolled, expired)
  BY <1>1, SoundSame
<1>3. Watched(m', stream)
  BY <1>1, WatchedLater
<1>4. NoCode.token = 0 /\ MaxTokens \in Nat
  BY DEF NoCode, AuthBounds
<1>5. verifying'.token \in 0..MaxTokens
  BY <1>4
<1>. QED
  BY <1>1, <1>2, <1>3, <1>5, QuietHold

\* Challenges, pending tokens that expire, and access tokens that do.
LEMMA SmallSteps ==
  ASSUME AuthBounds, CredInv,
         Challenge \/ LoginLocked \/ PendingExpires \/ (\E a \in m.access : AccessExpires(a))
  PROVE  HoldInv' /\ StepOK
<1>0. /\ m \in Manager /\ Few(m.pending) /\ Budget(m) /\ m.pending \subseteq Pending
      /\ m.refresh \subseteq Session /\ m.access \subseteq Access
  BY HoldFacts
<1>1. /\ m.status # "down" /\ verifying' = NoCode
      /\ UNCHANGED <<disk, minted, enrolled, spent, now, expired, stream, file>>
  BY DEF Challenge, LoginLocked, PendingExpires, AccessExpires, Up, user, ghosts
<1>2. /\ m' \in Manager /\ Few(m'.pending) /\ Budget(m') /\ m'.access \subseteq m.access
      /\ m'.status = m.status /\ m'.enrollment = m.enrollment /\ m'.refresh = m.refresh
      /\ m'.epoch = m.epoch /\ m'.locked = m.locked /\ m'.pending \subseteq m.pending
  <2>1. CASE Challenge \/ LoginLocked
    <3>1. \E b \in BOOLEAN : m' = [m EXCEPT !.challenge = b]
      BY <2>1 DEF Challenge, LoginLocked
    <3>. QED
      BY <1>0, <3>1, ChallengeOutcome
  <2>2. CASE PendingExpires
    <3>1. m' = [m EXCEPT !.pending = m.pending \ {Oldest(m.pending)}]
      BY <2>2 DEF PendingExpires
    <3>2. (m.pending \ {Oldest(m.pending)}) \in SUBSET Pending
      BY <1>0
    <3>3. Few(m.pending \ {Oldest(m.pending)})
      BY <1>0, FewTokens
    <3>. QED
      BY <1>0, <3>1, <3>2, <3>3, PendingOutcome
  <2>3. CASE \E a \in m.access : AccessExpires(a)
    <3>1. PICK a \in m.access : m' = [m EXCEPT !.access = m.access \ {a}]
      BY <2>3 DEF AccessExpires
    <3>2. m' \in Manager
      <4>1. (m.access \ {a}) \in SUBSET Access
        BY <1>0
      <4>. QED
        BY <1>0, <3>1, <4>1, Zenon DEF Manager
    <3>3. /\ m'.access = m.access \ {a} /\ m'.status = m.status /\ m'.enrollment = m.enrollment
          /\ m'.refresh = m.refresh /\ m'.epoch = m.epoch /\ m'.locked = m.locked
          /\ m'.pending = m.pending /\ m'.failed = m.failed
      BY <1>0, <3>1 DEF Manager
    <3>. QED
      BY <1>0, <3>2, <3>3 DEF Budget
  <2>. QED
    BY <2>1, <2>2, <2>3
<1>3. HoldInv'
  BY <1>1, <1>2, MemoryHold
<1>4. StepOK
  BY <1>1, <1>2 DEF StepOK, AdmittedWhileEnrolled, FirstEnrollmentWins, LockHolds
<1>. QED
  BY <1>3, <1>4

\* A code that fails.
LEMMA CodeFailsOutcome ==
  ASSUME AuthBounds, CredInv, NEW p \in m.pending, ~m.locked, CodeFails(p)
  PROVE  /\ m' \in Manager /\ Few(m'.pending) /\ Budget(m') /\ m'.access = m.access
         /\ m'.status = m.status /\ m'.enrollment = m.enrollment /\ m'.refresh = m.refresh
         /\ m'.epoch = m.epoch
<1>0. /\ m \in Manager /\ Few(m.pending) /\ Budget(m) /\ m.pending \in SUBSET Pending
      /\ p \in Pending
  BY HoldFacts
<1>. DEFINE tried == p.attempts + 1
            q == [p EXCEPT !.attempts = tried]
            S == IF tried >= MaxPendingAttempts THEN {x \in m.pending : x.token # p.token}
                 ELSE (m.pending \ {p}) \union {q}
            r == [m EXCEPT !.pending = S]
<1>1. tried < MaxPendingAttempts => q \in Pending
  BY <1>0 DEF Pending, AuthBounds
<1>2. Few({x \in m.pending : x.token # p.token})
  <2>1. {x \in m.pending : x.token # p.token} \in SUBSET m.pending
    OBVIOUS
  <2>. QED
    BY <1>0, <2>1, FewTokens
<1>3. S \in SUBSET Pending /\ Few(S)
  <2>1. CASE tried >= MaxPendingAttempts
    BY <1>0, <1>2, <2>1
  <2>2. CASE ~(tried >= MaxPendingAttempts)
    <3>1. q \in Pending
      BY <1>0, <1>1, <2>2 DEF Pending, AuthBounds
    <3>2. Few((m.pending \ {p}) \union {q})
      BY <1>0, <3>1, FewTokens
    <3>. QED
      BY <1>0, <2>2, <3>1, <3>2
  <2>. QED
    BY <2>1, <2>2
<1>4. m' = Failure(r)
  BY DEF CodeFails, Without, Update
<1>. HIDE DEF S
<1>5. /\ r \in Manager /\ r.pending = S /\ Budget(r) /\ r.access = m.access
      /\ r.status = m.status /\ r.enrollment = m.enrollment /\ r.refresh = m.refresh
      /\ r.epoch = m.epoch /\ r.locked = m.locked
  BY <1>0, <1>3, PendingOutcome
<1>. HIDE DEF r
<1>. QED
  BY <1>3, <1>4, <1>5, FailureOutcome

\* Setup, wrong codes and the beginning of a confirmation or a verification.
LEMMA CodeSteps ==
  ASSUME AuthBounds, CredInv, NEW p \in m.pending, Setup(p) \/ WrongCode(p) \/ ConfirmBegin(p) \/ VerifyBegin(p)
  PROVE  HoldInv' /\ StepOK
<1>0. /\ m \in Manager /\ Few(m.pending) /\ Budget(m) /\ m.pending \in SUBSET Pending
      /\ p \in Pending
  BY HoldFacts
<1>1. /\ m.status # "down" /\ ~m.locked /\ verifying = NoCode
      /\ UNCHANGED <<disk, minted, enrolled, spent, now, expired, stream, file>>
  BY DEF Setup, WrongCode, ConfirmBegin, VerifyBegin, Usable, Up, user, ghosts
<1>2. StepOK
  BY <1>1 DEF StepOK, AdmittedWhileEnrolled, FirstEnrollmentWins, LockHolds
<1>3. CASE Setup(p)
  <2>. DEFINE q == WithCandidate(p)
              S == (m.pending \ {p}) \union {q}
  <2>1. m' = [m EXCEPT !.pending = S] /\ verifying' = NoCode
    BY <1>1, <1>3 DEF Setup, Update
  <2>2. q \in Pending
    BY <1>0 DEF WithCandidate, Pending
  <2>3. S \in SUBSET Pending /\ Few(S)
    BY <1>0, <2>2, FewTokens
  <2>. HIDE DEF S
  <2>4. /\ m' \in Manager /\ m'.pending = S /\ Budget(m') /\ m'.access = m.access
        /\ m'.status = m.status /\ m'.enrollment = m.enrollment /\ m'.refresh = m.refresh
        /\ m'.epoch = m.epoch
    BY <1>0, <2>1, <2>3, PendingOutcome
  <2>5. HoldInv'
    BY <1>1, <2>1, <2>3, <2>4, MemoryHold
  <2>. QED
    BY <1>2, <2>5
<1>4. ASSUME CodeFails(p), verifying' = NoCode PROVE HoldInv'
  <2>1. /\ m' \in Manager /\ Few(m'.pending) /\ Budget(m') /\ m'.access = m.access
        /\ m'.status = m.status /\ m'.enrollment = m.enrollment /\ m'.refresh = m.refresh
        /\ m'.epoch = m.epoch
    BY <1>1, <1>4, CodeFailsOutcome
  <2>. QED
    BY <1>1, <1>4, <2>1, MemoryHold
<1>5. CASE WrongCode(p)
  BY <1>1, <1>2, <1>4, <1>5 DEF WrongCode
<1>6. CASE VerifyBegin(p) \/ ConfirmBegin(p)
  <2>1. PICK step \in ValidSteps, next \in {"recheck", "confirm"} :
           \/ CodeFails(p) /\ verifying' = verifying
           \/ /\ verifying' = [next |-> next, token |-> p.token, step |-> step] /\ m' = m
              /\ next = "recheck" => m.status = "configured" /\ minted < MaxTokens
              /\ next = "confirm" => m.status = "unconfigured" /\ enrolled < MaxEnrollments
    BY <1>6 DEF VerifyBegin, ConfirmBegin
  <2>2. CASE CodeFails(p) /\ verifying' = verifying
    BY <1>1, <1>2, <1>4, <2>2
  <2>3. CASE /\ verifying' = [next |-> next, token |-> p.token, step |-> step] /\ m' = m
             /\ next = "recheck" => m.status = "configured" /\ minted < MaxTokens
             /\ next = "confirm" => m.status = "unconfigured" /\ enrolled < MaxEnrollments
    <3>1. verifying'.token = p.token /\ verifying'.next = next
      BY <2>3
    <3>5. MayWrite(verifying', m', minted, enrolled)
      BY <1>1, <2>3, <3>1 DEF MayWrite
    <3>2. p.token \in 0..MaxTokens
      BY <1>0 DEF Pending, Ids, AuthBounds
    <3>3. Sound(m', enrolled, expired) /\ Stored(m'.refresh, minted, spent) /\ Watched(m', stream')
          /\ now' \in 1..MaxStep
      BY <1>1, <2>3 DEF CredInv, HoldInv, Counters
    <3>4. HoldInv'
      BY <1>1, <2>3, <3>1, <3>2, <3>3, <3>5, QuietHold
    <3>. QED
      BY <1>2, <3>4
  <2>. QED
    BY <2>1, <2>2, <2>3
<1>. QED
  BY <1>3, <1>5, <1>6

\* The second reading of the file finds the enrollment as it was.
LEMMA RecheckStep ==
  ASSUME AuthBounds, CredInv, VerifyRechecked
  PROVE  HoldInv' /\ StepOK
<1>1. /\ UNCHANGED <<m, disk, minted, enrolled, spent, now, expired, stream, file>>
      /\ verifying.next = "recheck" /\ verifying' = [verifying EXCEPT !.next = "save"]
  BY DEF VerifyRechecked, user, ghosts
<1>2. IsCode(verifying) /\ verifying # NoCode
  BY <1>1 DEF CredInv, OnceInv, CodeInv, NoCode
<1>3. verifying'.token = verifying.token /\ verifying'.next = "save"
  BY <1>1, <1>2, CodeParts
<1>4. MayWrite(verifying', m', minted, enrolled)
  BY <1>1, <1>2, <1>3 DEF CredInv, HoldInv, MayWrite
<1>5. Sound(m', enrolled, expired) /\ Stored(m'.refresh, minted, spent) /\ Watched(m', stream')
      /\ now' \in 1..MaxStep /\ verifying'.token \in 0..MaxTokens
  BY <1>1, <1>3 DEF CredInv, HoldInv, Counters
<1>6. HoldInv'
  BY <1>1, <1>4, <1>5, QuietHold
<1>. QED
  BY <1>1, <1>6 DEF StepOK, AdmittedWhileEnrolled, FirstEnrollmentWins, LockHolds

\* The boundary finds the enrollment changed.
LEMMA ReconcileSteps ==
  ASSUME AuthBounds, CredInv, Reconcile \/ VerifyRefused
  PROVE  HoldInv' /\ StepOK
<1>1. /\ m.status # "down" /\ verifying' = NoCode
      /\ UNCHANGED <<minted, enrolled, spent, now, expired, stream, file>>
      /\ \E o \in Reconciled : m' = o.m /\ disk' = o.disk
  BY HoldFacts DEF Reconcile, VerifyRefused, Up, Become, NoCode, user, ghosts
<1>2. PICK o \in Reconciled : m' = o.m /\ disk' = o.disk
  BY <1>1
<1>3. /\ Sound(m', enrolled, expired) /\ m'.refresh = {} /\ m'.pending = {}
      /\ m'.locked = m.locked /\ Watched(m', stream) /\ Stored(disk', minted, spent)
  BY <1>1, <1>2, ReconcileOutcome
<1>4. Counters'
  <2>1. NoCode.token \in 0..MaxTokens
    BY DEF NoCode, AuthBounds
  <2>. QED
    BY <1>1, <2>1 DEF CredInv, HoldInv, Counters
<1>5. Stored({}, minted, spent)
  BY DEF Stored
<1>6. HoldInv'
  BY <1>1, <1>3, <1>4, <1>5 DEF HoldInv
<1>7. StepOK
  BY <1>1, <1>3 DEF StepOK, AdmittedWhileEnrolled, FirstEnrollmentWins, LockHolds
<1>. QED
  BY <1>6, <1>7

\* A login, of whichever manager it finds.
LEMMA LoginOutcome ==
  ASSUME AuthBounds, NEW b \in Manager, NEW e \in 0..MaxEnrollments, NEW x,
         Sound(b, e, x), b.status # "down", ~b.locked, NEW token \in Ids, NEW proven \in BOOLEAN,
         NEW r, LET n == [b EXCEPT !.challenge = FALSE] IN
                r = IF n.status = "storage_error" THEN n
                    ELSE IF ~proven THEN Failure(n)
                    ELSE WithPending(n, PendingEntry(n, token))
  PROVE  /\ Sound(r, e, x) /\ r \in Manager /\ r.refresh = b.refresh
         /\ r.status = b.status /\ r.enrollment = b.enrollment /\ r.epoch = b.epoch
<1>. DEFINE n == [b EXCEPT !.challenge = FALSE]
<1>0. Few(b.pending) /\ Budget(b) /\ b.pending \in SUBSET Pending
  BY DEF Sound, Manager
<1>1. /\ n \in Manager /\ n.pending = b.pending /\ Budget(n)
      /\ n.status = b.status /\ n.enrollment = b.enrollment /\ n.refresh = b.refresh
      /\ n.access = b.access /\ n.epoch = b.epoch /\ n.locked = b.locked
  BY <1>0, ChallengeOutcome
<1>2. r = IF n.status = "storage_error" THEN n
          ELSE IF ~proven THEN Failure(n)
          ELSE WithPending(n, PendingEntry(n, token))
  OBVIOUS
<1>. HIDE DEF n
<1>3. ASSUME r \in Manager, Few(r.pending), Budget(r), r.access = b.access,
             r.status = b.status, r.enrollment = b.enrollment, r.refresh = b.refresh,
             r.epoch = b.epoch
      PROVE  Sound(r, e, x)
  BY <1>3, SoundSame
<1>4. CASE r = n
  BY <1>0, <1>1, <1>3, <1>4
<1>5. CASE r = Failure(n)
  BY <1>0, <1>1, <1>3, <1>5, FailureOutcome
<1>6. CASE r = WithPending(n, PendingEntry(n, token))
  <2>. DEFINE entry == PendingEntry(n, token)
              S == {entry} \union IF Cardinality(b.pending) >= MaxPending
                                  THEN b.pending \ {Oldest(b.pending)} ELSE b.pending
  <2>1. entry \in Pending
    <3>1. (IF n.status = "configured" THEN n.enrollment.id ELSE 0) \in 0..MaxEnrollments
      BY <1>1 DEF Sound, AuthBounds
    <3>2. 0 \in 0..MaxPendingAttempts
      BY DEF AuthBounds
    <3>. QED
      BY <3>1, <3>2 DEF PendingEntry, Pending
  <2>. HIDE DEF entry
  <2>2. S \in SUBSET Pending /\ Few(S)
    BY <1>0, <2>1, FewTokens
  <2>3. r = [n EXCEPT !.pending = S]
    BY <1>1, <1>6 DEF WithPending, entry
  <2>. HIDE DEF S
  <2>4. /\ r \in Manager /\ r.pending = S /\ Budget(r)
        /\ r.status = n.status /\ r.enrollment = n.enrollment /\ r.refresh = n.refresh
        /\ r.access = n.access /\ r.epoch = n.epoch
    <3>. DEFINE t == [n EXCEPT !.pending = S]
    <3>1. /\ t \in Manager /\ t.pending = S /\ Budget(t)
          /\ t.status = n.status /\ t.enrollment = n.enrollment /\ t.refresh = n.refresh
          /\ t.access = n.access /\ t.epoch = n.epoch
      BY <1>1, <2>2, PendingOutcome
    <3>2. r = t
      BY <2>3
    <3>. HIDE DEF t
    <3>. QED
      BY <3>1, <3>2
  <2>. QED
    BY <1>1, <1>3, <2>2, <2>4
<1>. QED
  BY <1>2, <1>4, <1>5, <1>6

\* Sessions stay stored when more tokens are made.
LEMMA StoredLater ==
  ASSUME NEW S, NEW used, NEW k \in Nat, NEW l \in Nat, Stored(S, k, used), k <= l
  PROVE  Stored(S, l, used)
<1>1. \A s \in S : s.id \in Nat /\ s.token \in Nat
  BY DEF Stored, Session, Ids
<1>. QED
  BY <1>1 DEF Stored

\* The fields of an outcome.
LEMMA OutcomeFields ==
  ASSUME NEW o, (\E n : o \in Persist(n)) \/ (\E n : o \in Invalidate(n)) \/ o \in Reconciled
  PROVE  {"m", "disk", "ok"} = DOMAIN o
<1>1. ASSUME NEW n, NEW x \in Persist(n) PROVE {"m", "disk", "ok"} = DOMAIN x
  BY SavedOutcome
<1>2. ASSUME NEW n, o \in Invalidate(n) PROVE {"m", "disk", "ok"} = DOMAIN o
  <2>1. PICK k : \E x \in Persist(k) : o = IF x.ok THEN x ELSE [x EXCEPT !.m.status = "storage_error"]
    BY <1>2 DEF Invalidate
  <2>2. PICK x \in Persist(k) : o = IF x.ok THEN x ELSE [x EXCEPT !.m.status = "storage_error"]
    BY <2>1
  <2>. QED
    BY <1>1, <2>2
<1>3. o \in Reconciled => \E n : o \in Invalidate(n)
  BY DEF Reconciled, Deny, Drop, Adopt
<1>. QED
  BY <1>1, <1>2, <1>3

\* A login claims the challenge and reconciles.
LEMMA LoginStep ==
  ASSUME AuthBounds, CredInv, NEW proven \in BOOLEAN, Login(proven)
  PROVE  HoldInv' /\ StepOK
<1>0. /\ m \in Manager /\ minted \in 0..MaxTokens /\ enrolled \in 0..MaxEnrollments
      /\ Sound(m, enrolled, expired) /\ Watched(m, stream)
      /\ Stored(m.refresh, minted, spent) /\ Stored(disk, minted, spent)
  BY HoldFacts DEF CredInv, HoldInv
<1>1. /\ m.status # "down" /\ ~m.locked /\ verifying = NoCode /\ verifying' = NoCode
      /\ UNCHANGED <<enrolled, spent, now, expired, stream, file>>
      /\ minted < MaxTokens /\ minted' = (IF proven THEN minted + 1 ELSE minted)
  BY DEF Login, Up, user, ghosts
<1>2. PICK o \in IF Settled THEN {[m |-> m, disk |-> disk, ok |-> TRUE]} ELSE Reconciled :
         LET n == [o.m EXCEPT !.challenge = FALSE] IN
         Become([o EXCEPT !.m =
             IF n.status = "storage_error" THEN n
             ELSE IF ~proven THEN Failure(n)
             ELSE WithPending(n, PendingEntry(n, minted + 1))])
  BY DEF Login
<1>3. /\ o.m \in Manager /\ Sound(o.m, enrolled, expired) /\ o.m.status # "down" /\ ~o.m.locked
      /\ Watched(o.m, stream) /\ Stored(o.m.refresh, minted, spent) /\ Stored(o.disk, minted, spent)
      /\ {"m", "disk"} \subseteq DOMAIN o
  <2>1. CASE Settled
    BY <1>0, <1>1, <1>2, <2>1
  <2>2. CASE ~Settled
    <3>1. o \in Reconciled
      BY <1>2, <2>2
    <3>2. /\ Sound(o.m, enrolled, expired) /\ o.m.refresh = {} /\ o.m.pending = {}
          /\ o.m.locked = m.locked /\ Watched(o.m, stream) /\ o.m.status # "down"
          /\ Stored(o.disk, minted, spent) /\ o.m \in Manager
      BY <1>1, <3>1, ReconcileOutcome
    <3>3. {"m", "disk"} \subseteq DOMAIN o
      BY <3>1, OutcomeFields
    <3>. QED
      BY <1>1, <3>2, <3>3 DEF Stored
  <2>. QED
    BY <2>1, <2>2
<1>4. /\ disk' = o.disk
      /\ LET n == [o.m EXCEPT !.challenge = FALSE] IN
         m' = IF n.status = "storage_error" THEN n
              ELSE IF ~proven THEN Failure(n)
              ELSE WithPending(n, PendingEntry(n, minted + 1))
  BY <1>2, <1>3 DEF Become
<1>5. minted + 1 \in Ids
  <2>1. minted \in Nat /\ MaxTokens \in Nat /\ minted < MaxTokens
    BY <1>0, <1>1 DEF AuthBounds
  <2>. QED
    BY <2>1 DEF Ids
<1>6. /\ Sound(m', enrolled, expired) /\ m' \in Manager /\ m'.refresh = o.m.refresh
      /\ m'.status = o.m.status /\ m'.enrollment = o.m.enrollment /\ m'.epoch = o.m.epoch
  BY <1>0, <1>3, <1>4, <1>5, LoginOutcome
<1>7. Watched(m', stream)
  BY <1>3, <1>6, WatchedLater
<1>8. minted' \in 0..MaxTokens /\ minted <= minted' /\ minted \in Nat
  <2>1. minted \in Nat /\ MaxTokens \in Nat /\ minted < MaxTokens
    BY <1>0, <1>1 DEF AuthBounds
  <2>2. minted' \in {minted, minted + 1}
    BY <1>1
  <2>. QED
    BY <2>1, <2>2
<1>9. Stored(m'.refresh, minted', spent) /\ Stored(disk', minted', spent)
  BY <1>3, <1>4, <1>6, <1>8, StoredLater
<1>10. Counters'
  <2>1. NoCode.token \in 0..MaxTokens
    BY DEF NoCode, AuthBounds
  <2>2. spent \subseteq 1..minted'
    BY <1>8 DEF CredInv, HoldInv, Counters
  <2>. QED
    BY <1>1, <1>8, <2>1, <2>2 DEF CredInv, HoldInv, Counters
<1>11. HoldInv'
  BY <1>1, <1>6, <1>7, <1>9, <1>10 DEF HoldInv
<1>12. StepOK
  BY <1>1 DEF StepOK, AdmittedWhileEnrolled, FirstEnrollmentWins, LockHolds
<1>. QED
  BY <1>11, <1>12

\* Sessions and their access tokens that are taken away together.
LEMMA GoneOutcome ==
  ASSUME NEW n \in Manager, NEW ids
  PROVE  /\ Gone(n, ids) \in Manager
         /\ Gone(n, ids).refresh = {s \in n.refresh : s.id \notin ids}
         /\ Gone(n, ids).access = {a \in n.access : a.session \notin ids}
         /\ (Budget(n) => Budget(Gone(n, ids)))
         /\ Gone(n, ids).status = n.status /\ Gone(n, ids).enrollment = n.enrollment
         /\ Gone(n, ids).pending = n.pending /\ Gone(n, ids).epoch = n.epoch
         /\ Gone(n, ids).locked = n.locked /\ Gone(n, ids).failed = n.failed
<1>. DEFINE keep == {s \in n.refresh : s.id \notin ids}
            left == n.access \ {a \in n.access : a.session \in ids}
<1>1. keep \subseteq Session /\ left \subseteq Access
  BY DEF Manager
<1>2. Gone(n, ids) = [n EXCEPT !.refresh = keep, !.access = left]
  BY DEF Gone, AccessOf
<1>3. left = {a \in n.access : a.session \notin ids}
  OBVIOUS
<1>. HIDE DEF keep, left
<1>. DEFINE g == [n EXCEPT !.refresh = keep, !.access = left]
<1>4. g \in Manager
  <2>1. keep \in SUBSET Session /\ left \in SUBSET Access
    BY <1>1
  <2>. QED
    BY <2>1, Zenon DEF Manager
<1>5. /\ g.refresh = keep /\ g.access = left /\ g.status = n.status
      /\ g.enrollment = n.enrollment /\ g.pending = n.pending /\ g.epoch = n.epoch
      /\ g.locked = n.locked /\ g.failed = n.failed
  BY DEF Manager
<1>. HIDE DEF g
<1>6. Budget(n) => Budget(g)
  BY <1>5 DEF Budget
<1>7. Gone(n, ids) = g
  BY <1>2 DEF g
<1>. QED
  BY <1>3, <1>4, <1>5, <1>6, <1>7 DEF keep

\* A running manager stays sound as long as its credentials are bound.
LEMMA SoundWith ==
  ASSUME NEW n, NEW e, NEW x, Sound(n, e, x), n.status # "down",
         NEW n2 \in Manager, Few(n2.pending), Budget(n2),
         n2.status = n.status, n2.enrollment.id = n.enrollment.id,
         \A s \in n2.refresh : Bound(n, s),
         n2.access # {} => n.status = "configured",
         \A a \in n2.access : a.session \in x \union {s.id : s \in n2.refresh}
  PROVE  Sound(n2, e, x)
<1>1. \A s : Bound(n, s) => Bound(n2, s)
  BY DEF Bound
<1>. QED
  BY <1>1 DEF Sound

\* A part of what is stored is stored.
LEMMA StoredPart ==
  ASSUME NEW S, NEW T \in SUBSET S, NEW k, NEW used, Stored(S, k, used)
  PROVE  Stored(T, k, used)
  BY DEF Stored

\* Logout, revocation and the removal of other sessions.
LEMMA RemoveStep ==
  ASSUME AuthBounds, CredInv, Up, NEW ids, Remove(ids)
  PROVE  HoldInv' /\ StepOK
<1>0. /\ m \in Manager /\ minted \in 0..MaxTokens /\ m.refresh \subseteq Session
      /\ Sound(m, enrolled, expired) /\ Watched(m, stream) /\ Few(m.pending) /\ Budget(m)
      /\ Stored(m.refresh, minted, spent) /\ Stored(disk, minted, spent)
      /\ spent \subseteq 1..minted
  BY HoldFacts DEF CredInv, HoldInv, Counters
<1>1. /\ m.status # "down" /\ verifying = NoCode /\ verifying' = NoCode
      /\ UNCHANGED <<minted, enrolled, now, expired, stream, file>>
  BY DEF Remove, Up, user
<1>. DEFINE n == Gone(m, ids)
            lost == {s.token : s \in {t \in m.refresh : t.id \in ids}}
<1>2. /\ n \in Manager /\ n.refresh = {s \in m.refresh : s.id \notin ids}
      /\ n.access = {a \in m.access : a.session \notin ids} /\ Budget(n)
      /\ n.status = m.status /\ n.enrollment = m.enrollment /\ n.pending = m.pending
      /\ n.epoch = m.epoch /\ n.locked = m.locked
  BY <1>0, GoneOutcome
<1>3. PICK o \in Persist(n) :
         /\ Become(o)
         /\ spent' = spent \union {s.token : s \in {t \in m.refresh : o.ok /\ t.id \in ids}}
  BY DEF Remove
<1>4. o.m = n /\ o.ok \in BOOLEAN /\ o.disk \in {disk, n.refresh} /\ (o.ok => o.disk = n.refresh)
  BY SavedOutcome
<1>5. m' = n /\ disk' = o.disk
  BY <1>3, <1>4 DEF Become
<1>6. spent' = (IF o.ok THEN spent \union lost ELSE spent)
  BY <1>3, <1>4
<1>7. Stored(n.refresh, minted, spent) /\ n.refresh \subseteq m.refresh
  BY <1>0, <1>2, StoredPart
<1>8. Stored(n.refresh, minted, spent \union lost)
  BY <1>0, <1>2, <1>7 DEF Stored
<1>9. Stored(m'.refresh, minted', spent') /\ Stored(disk', minted', spent')
  BY <1>0, <1>1, <1>4, <1>5, <1>6, <1>7, <1>8
<1>. HIDE DEF n
<1>10. Sound(m', enrolled, expired)
  <2>1. \A s \in n.refresh : Bound(m, s)
    BY <1>0, <1>7 DEF Sound
  <2>2. \A a \in n.access : a.session \in expired \union {s.id : s \in n.refresh}
    BY <1>0, <1>2 DEF Sound
  <2>3. n.access # {} => m.status = "configured"
    BY <1>0, <1>2 DEF Sound
  <2>. QED
    BY <1>0, <1>1, <1>2, <1>5, <2>1, <2>2, <2>3, SoundWith
<1>11. Watched(m', stream)
  BY <1>0, <1>1, <1>2, <1>5, WatchedLater
<1>12. Counters'
  <2>1. NoCode.token \in 0..MaxTokens
    BY DEF NoCode, AuthBounds
  <2>2. lost \subseteq 1..minted
    BY <1>0 DEF Stored, Session, Ids
  <2>3. spent' \subseteq 1..minted
    BY <1>0, <1>6, <2>2
  <2>. QED
    BY <1>1, <2>1, <2>3 DEF CredInv, HoldInv, Counters
<1>13. HoldInv'
  BY <1>1, <1>9, <1>10, <1>11, <1>12 DEF HoldInv
<1>14. {s.id : s \in m'.refresh} \subseteq {s.id : s \in m.refresh}
  BY <1>5, <1>7
<1>15. m'.locked = m.locked /\ m'.pending = m.pending
  BY <1>2, <1>5
<1>16. StepOK
  BY <1>1, <1>14, <1>15 DEF StepOK, AdmittedWhileEnrolled, FirstEnrollmentWins, LockHolds
<1>. QED
  BY <1>13, <1>16

\* A rotation leaves the session, under a new token, and its one access token.
LEMMA RotatedOutcome ==
  ASSUME NEW n \in Manager, n = m, NEW s \in n.refresh, minted + 1 \in Ids
  PROVE  LET other == {t \in n.refresh : t.id # s.id}
             new   == [s EXCEPT !.token = minted + 1]
             r     == Rotated(s) IN
         /\ new \in Session /\ new.id = s.id /\ new.token = minted + 1
         /\ new.enrollment = s.enrollment
         /\ r \in Manager /\ r.refresh = other \union {new}
         /\ r.access = {a \in n.access : a.session # s.id}
                         \union {[token |-> minted + 1, session |-> s.id]}
         /\ (Budget(n) => Budget(r))
         /\ r.status = n.status /\ r.enrollment = n.enrollment /\ r.pending = n.pending
         /\ r.epoch = n.epoch /\ r.locked = n.locked
<1>. DEFINE g == Gone(n, {s.id})
            new == [s EXCEPT !.token = minted + 1]
            mine == [token |-> minted + 1, session |-> s.id]
            keep == g.refresh \union {new}
            left == g.access \union {mine}
            r == [g EXCEPT !.refresh = keep, !.access = left]
<1>1. s \in Session
  BY DEF Manager
<1>2. new \in Session /\ new.id = s.id /\ new.token = minted + 1 /\ new.enrollment = s.enrollment
      /\ mine \in Access
  BY <1>1 DEF Session, Access
<1>3. /\ g \in Manager /\ g.refresh = {t \in n.refresh : t.id # s.id}
      /\ g.access = {a \in n.access : a.session # s.id} /\ (Budget(n) => Budget(g))
      /\ g.status = n.status /\ g.enrollment = n.enrollment /\ g.pending = n.pending
      /\ g.epoch = n.epoch /\ g.locked = n.locked /\ g.failed = n.failed
  <2>1. \A x, i : x \notin {i} <=> x # i
    OBVIOUS
  <2>2. /\ g \in Manager /\ g.refresh = {t \in n.refresh : t.id \notin {s.id}}
        /\ g.access = {a \in n.access : a.session \notin {s.id}} /\ (Budget(n) => Budget(g))
        /\ g.status = n.status /\ g.enrollment = n.enrollment /\ g.pending = n.pending
        /\ g.epoch = n.epoch /\ g.locked = n.locked /\ g.failed = n.failed
    BY GoneOutcome
  <2>. QED
    BY <2>1, <2>2
<1>4. Rotated(s) = r
  BY DEF Rotated
<1>. HIDE DEF g, new, mine
<1>5. keep \in SUBSET Session /\ left \in SUBSET Access
  BY <1>2, <1>3 DEF Manager
<1>. HIDE DEF keep, left
<1>6. r \in Manager
  BY <1>3, <1>5, Zenon DEF Manager
<1>7. /\ r.refresh = keep /\ r.access = left /\ r.status = g.status
      /\ r.enrollment = g.enrollment /\ r.pending = g.pending /\ r.epoch = g.epoch
      /\ r.locked = g.locked /\ r.failed = g.failed
  BY <1>3 DEF Manager
<1>. HIDE DEF r
<1>8. Budget(n) => Budget(r)
  BY <1>3, <1>7 DEF Budget
<1>9. /\ new \in Session /\ new.id = s.id /\ new.token = minted + 1 /\ new.enrollment = s.enrollment
      /\ r \in Manager /\ r.refresh = {t \in n.refresh : t.id # s.id} \union {new}
      /\ r.access = {a \in n.access : a.session # s.id} \union {mine}
      /\ (Budget(n) => Budget(r))
      /\ r.status = n.status /\ r.enrollment = n.enrollment /\ r.pending = n.pending
      /\ r.epoch = n.epoch /\ r.locked = n.locked
  BY <1>2, <1>3, <1>6, <1>7, <1>8 DEF keep, left
<1>. QED
  BY <1>4, <1>9 DEF new, mine

\* A rotation: the old token is spent when the new one is stored, and not before.
LEMMA RefreshStep ==
  ASSUME AuthBounds, CredInv, NEW s \in m.refresh, Refresh(s)
  PROVE  HoldInv' /\ StepOK
<1>0. /\ m \in Manager /\ minted \in 0..MaxTokens /\ m.refresh \subseteq Session
      /\ Sound(m, enrolled, expired) /\ Watched(m, stream) /\ Few(m.pending) /\ Budget(m)
      /\ Stored(m.refresh, minted, spent) /\ Stored(disk, minted, spent)
      /\ spent \subseteq 1..minted /\ MaxTokens \in Nat
  BY HoldFacts DEF CredInv, HoldInv, Counters, AuthBounds
<1>1. /\ m.status # "down" /\ verifying = NoCode /\ verifying' = NoCode /\ Bound(m, s)
      /\ UNCHANGED <<enrolled, now, expired, stream, file>>
      /\ minted < MaxTokens /\ minted' = minted + 1
  BY DEF Refresh, Up, user
<1>2. minted \in Nat /\ minted' \in 0..MaxTokens /\ minted <= minted' /\ minted + 1 \in Ids
  BY <1>0, <1>1 DEF Ids
<1>. DEFINE n == Rotated(s)
            new == [s EXCEPT !.token = minted + 1]
            other == {t \in m.refresh : t.id # s.id}
            mine == [token |-> minted + 1, session |-> s.id]
<1>3. /\ new \in Session /\ new.id = s.id /\ new.token = minted + 1
      /\ new.enrollment = s.enrollment
      /\ n \in Manager /\ n.refresh = other \union {new}
      /\ n.access = {a \in m.access : a.session # s.id} \union {mine} /\ Budget(n)
      /\ n.status = m.status /\ n.enrollment = m.enrollment /\ n.pending = m.pending
      /\ n.epoch = m.epoch /\ n.locked = m.locked
  BY <1>0, <1>2, RotatedOutcome
<1>4. PICK o \in Persist(n) :
         /\ Become(IF o.ok THEN o ELSE [o EXCEPT !.m = m])
         /\ spent' = IF o.ok THEN spent \union {s.token} ELSE spent
  BY DEF Refresh
<1>5. /\ o.m = n /\ o.ok \in BOOLEAN /\ o.disk \in {disk, n.refresh} /\ (o.ok => o.disk = n.refresh)
      /\ DOMAIN o = {"m", "disk", "ok"}
  BY SavedOutcome
<1>6. m' = (IF o.ok THEN n ELSE m) /\ disk' = o.disk
  BY <1>4, <1>5 DEF Become
<1>. HIDE DEF n, new, mine
<1>7. s \in Session /\ s.token \in 1..minted /\ s.id <= minted
  BY <1>0, <1>2 DEF Stored, Session, Ids
<1>8. Stored(n.refresh, minted', spent) /\ Stored(n.refresh, minted', spent \union {s.token})
  <2>1. \A t \in other : t \in m.refresh /\ t.id # s.id /\ t.token # s.token
    BY <1>0 DEF Stored
  <2>2. \A t \in other : t \in Session /\ t.id \in Nat /\ t.token \in Nat /\ t.id <= minted
                         /\ t.token <= minted /\ t.token \notin spent
    BY <1>0, <2>1 DEF Stored, Session, Ids
  <2>3. \A t \in n.refresh : t \in Session /\ t.id <= minted' /\ t.token <= minted'
                             /\ t.token \notin spent \union {s.token}
    <3>1. \A t \in other : t \in Session /\ t.id <= minted' /\ t.token <= minted'
                            /\ t.token \notin spent \union {s.token}
      BY <1>1, <1>2, <2>1, <2>2
    <3>2. minted + 1 \notin spent /\ minted + 1 # s.token
      BY <1>0, <1>2, <1>7
    <3>3. s.id <= minted'
      BY <1>1, <1>2, <1>7 DEF Session, Ids
    <3>4. new \in Session /\ new.id <= minted' /\ new.token <= minted'
          /\ new.token \notin spent \union {s.token}
      BY <1>1, <1>2, <1>3, <3>2, <3>3
    <3>. QED
      BY <1>3, <3>1, <3>4
  <2>4. \A t, u \in n.refresh : t.id = u.id \/ t.token = u.token => t = u
    <3>1. \A t, u \in other : t.id = u.id \/ t.token = u.token => t = u
      BY <1>0, <2>1 DEF Stored
    <3>2. \A t \in other : t.id # new.id /\ t.token # new.token
      BY <1>2, <1>3, <2>1, <2>2
    <3>. QED
      BY <1>3, <3>1, <3>2
  <2>. QED
    BY <2>3, <2>4 DEF Stored
<1>9. Stored(m.refresh, minted', spent) /\ Stored(disk, minted', spent)
  BY <1>0, <1>2, StoredLater
<1>10. Stored(m'.refresh, minted', spent') /\ Stored(disk', minted', spent')
  BY <1>4, <1>5, <1>6, <1>8, <1>9
<1>11. Sound(n, enrolled, expired)
  <2>1. \A t \in n.refresh : Bound(m, t)
    BY <1>0, <1>1, <1>3 DEF Sound, Bound
  <2>2. \A a \in n.access : a.session \in expired \union {t.id : t \in n.refresh}
    <3>1. ASSUME NEW a \in n.access
          PROVE  a.session \in expired \union {t.id : t \in n.refresh}
      <4>1. CASE a = mine
        <5>1. a.session = new.id /\ new \in n.refresh
          BY <1>3, <4>1 DEF mine
        <5>. QED
          BY <5>1
      <4>2. CASE a \in m.access /\ a.session # s.id
        <5>1. CASE a.session \in expired
          BY <5>1
        <5>2. CASE a.session \in {t.id : t \in m.refresh}
          <6>1. PICK t \in m.refresh : a.session = t.id
            BY <5>2
          <6>2. t \in n.refresh
            BY <1>3, <4>2, <6>1
          <6>. QED
            BY <6>1, <6>2
        <5>. QED
          BY <1>0, <4>2, <5>1, <5>2 DEF Sound
      <4>. QED
        BY <1>3, <3>1, <4>1, <4>2
    <3>. QED
      BY <3>1
  <2>3. n.access # {} => m.status = "configured"
    BY <1>1 DEF Bound
  <2>. QED
    BY <1>0, <1>1, <1>3, <2>1, <2>2, <2>3, SoundWith
<1>12. Sound(m', enrolled, expired)
  BY <1>0, <1>6, <1>11
<1>13. Watched(n, stream)
  BY <1>0, <1>1, <1>3, WatchedLater
<1>14. Watched(m', stream)
  BY <1>0, <1>6, <1>13
<1>15. Counters'
  <2>1. NoCode.token \in 0..MaxTokens
    BY DEF NoCode, AuthBounds
  <2>2. spent' \subseteq 1..minted'
    BY <1>0, <1>2, <1>4, <1>7
  <2>. QED
    BY <1>1, <1>2, <2>1, <2>2 DEF CredInv, HoldInv, Counters
<1>16. HoldInv'
  BY <1>1, <1>10, <1>12, <1>14, <1>15 DEF HoldInv
<1>17. {t.id : t \in m'.refresh} \subseteq {t.id : t \in m.refresh}
  BY <1>3, <1>6
<1>18. m'.locked = m.locked /\ m'.pending = m.pending
  BY <1>3, <1>6
<1>19. StepOK
  BY <1>1, <1>17, <1>18 DEF StepOK, AdmittedWhileEnrolled, FirstEnrollmentWins, LockHolds
<1>. QED
  BY <1>16, <1>19

\* Expired sessions are dropped; their access tokens stay until they expire.
LEMMA CleanupStep ==
  ASSUME AuthBounds, CredInv, Cleanup
  PROVE  HoldInv' /\ StepOK
<1>0. /\ m \in Manager /\ minted \in 0..MaxTokens /\ m.refresh \subseteq Session
      /\ Sound(m, enrolled, expired) /\ Watched(m, stream) /\ Few(m.pending) /\ Budget(m)
      /\ Stored(m.refresh, minted, spent) /\ Stored(disk, minted, spent)
  BY HoldFacts DEF CredInv, HoldInv
<1>1. /\ m.status # "down" /\ verifying = NoCode /\ verifying' = NoCode
      /\ UNCHANGED <<minted, enrolled, spent, now, expired, stream, file>>
  BY DEF Cleanup, Up, user, ghosts
<1>. DEFINE keep == {s \in m.refresh : s.id \notin expired}
            n == [m EXCEPT !.refresh = keep]
<1>2. PICK o \in Persist(n) : Become(o)
  BY DEF Cleanup
<1>3. o.m = n /\ o.disk \in {disk, n.refresh}
  BY SavedOutcome
<1>4. m' = n /\ disk' = o.disk
  BY <1>2, <1>3 DEF Become
<1>5. keep \in SUBSET m.refresh /\ keep \in SUBSET Session
  BY <1>0
<1>6. \A a \in m.access : a.session \in expired \union {s.id : s \in keep}
  BY <1>0 DEF Sound
<1>. HIDE DEF keep
<1>7. n \in Manager
  BY <1>0, <1>5, Zenon DEF Manager
<1>8. /\ n.refresh = keep /\ n.access = m.access /\ n.status = m.status
      /\ n.enrollment = m.enrollment /\ n.pending = m.pending /\ n.epoch = m.epoch
      /\ n.locked = m.locked /\ n.failed = m.failed
  BY <1>0 DEF Manager
<1>. HIDE DEF n
<1>9. Budget(n)
  BY <1>0, <1>8 DEF Budget
<1>10. Sound(m', enrolled, expired)
  <2>1. \A s \in n.refresh : Bound(m, s)
    BY <1>0, <1>5, <1>8 DEF Sound
  <2>2. n.access # {} => m.status = "configured"
    BY <1>0, <1>8 DEF Sound
  <2>3. \A a \in n.access : a.session \in expired \union {s.id : s \in n.refresh}
    BY <1>6, <1>8
  <2>. QED
    BY <1>0, <1>1, <1>4, <1>7, <1>8, <1>9, <2>1, <2>2, <2>3, SoundWith
<1>11. Watched(m', stream)
  BY <1>0, <1>1, <1>4, <1>7, <1>8, WatchedLater
<1>12. Stored(n.refresh, minted, spent)
  BY <1>0, <1>5, <1>8, StoredPart
<1>13. Stored(m'.refresh, minted', spent') /\ Stored(disk', minted', spent')
  BY <1>0, <1>1, <1>3, <1>4, <1>12
<1>14. Counters'
  <2>1. NoCode.token \in 0..MaxTokens
    BY DEF NoCode, AuthBounds
  <2>. QED
    BY <1>1, <2>1 DEF CredInv, HoldInv, Counters
<1>15. HoldInv'
  BY <1>1, <1>10, <1>11, <1>13, <1>14 DEF HoldInv
<1>16. {s.id : s \in m'.refresh} \subseteq {s.id : s \in m.refresh}
  BY <1>4, <1>5, <1>8
<1>17. m'.locked = m.locked /\ m'.pending = m.pending
  BY <1>4, <1>8
<1>18. StepOK
  BY <1>1, <1>16, <1>17 DEF StepOK, AdmittedWhileEnrolled, FirstEnrollmentWins, LockHolds
<1>. QED
  BY <1>15, <1>18

\* The budget of wrong codes after a success.
LEMMA ForgivenOutcome ==
  ASSUME AuthBounds, NEW n \in Manager
  PROVE  LET r == [n EXCEPT !.failed = 0] IN
         /\ r \in Manager /\ Budget(r) /\ r.refresh = n.refresh /\ r.access = n.access
         /\ r.status = n.status /\ r.enrollment = n.enrollment /\ r.pending = n.pending
         /\ r.epoch = n.epoch /\ r.locked = n.locked
<1>. DEFINE r == [n EXCEPT !.failed = 0]
<1>1. 0 \in 0..MaxAttempts /\ 0 < MaxAttempts
  BY DEF AuthBounds
<1>2. r \in Manager
  BY <1>1, Zenon DEF Manager
<1>3. /\ r.refresh = n.refresh /\ r.access = n.access /\ r.status = n.status
      /\ r.enrollment = n.enrollment /\ r.pending = n.pending /\ r.epoch = n.epoch
      /\ r.locked = n.locked /\ r.failed = 0
  BY DEF Manager
<1>. HIDE DEF r
<1>4. Budget(r)
  BY <1>1, <1>3 DEF Budget
<1>. QED
  BY <1>2, <1>3, <1>4 DEF r

\* The first correct code of a candidate is made durable.
LEMMA ConfirmStep ==
  ASSUME AuthBounds, CredInv, ConfirmEnd
  PROVE  HoldInv' /\ StepOK
<1>0. /\ m \in Manager /\ Sound(m, enrolled, expired) /\ Watched(m, stream) /\ Budget(m)
      /\ Stored(m.refresh, minted, spent) /\ Stored(disk, minted, spent)
      /\ enrolled \in Nat /\ enrolled \in 0..MaxEnrollments /\ MaxEnrollments \in Nat
      /\ verifying.step \in Int
  BY HoldFacts, CodeParts DEF CredInv, HoldInv, AuthBounds, OnceInv, CodeInv
<1>10. verifying.next = "confirm" /\ MayWrite(verifying, m, minted, enrolled)
  BY DEF ConfirmEnd, CredInv, HoldInv, NoCode
<1>1. /\ m.status = "unconfigured" /\ ~m.locked /\ verifying' = NoCode
      /\ UNCHANGED <<minted, spent, now, expired, stream>>
      /\ enrolled < MaxEnrollments /\ enrolled' = enrolled + 1
  BY <1>10 DEF ConfirmEnd, MayWrite, user
<1>. DEFINE record == [id |-> enrolled + 1, step |-> verifying.step]
            saves == SaveEnrollment(record)
<1>3. record \in Enrollment /\ record.id \in 1..enrolled' /\ enrolled' \in 0..MaxEnrollments
      /\ enrolled' \in Nat /\ enrolled <= enrolled' /\ record = NewEnrollment
  BY <1>0, <1>1 DEF Enrollment, NewEnrollment
<1>4. PICK saved \in saves :
         /\ file' = saved.file
         /\ IF saved.ok
            THEN \E o \in Adopt(record) : Become([o EXCEPT !.m.failed = IF o.ok THEN 0 ELSE @])
            ELSE UNCHANGED <<m, disk>>
  BY <1>3 DEF ConfirmEnd
<1>. HIDE DEF record, saves
<1>5. Counters'
  <2>1. NoCode.token \in 0..MaxTokens
    BY DEF NoCode, AuthBounds
  <2>. QED
    BY <1>1, <1>3, <2>1 DEF CredInv, HoldInv, Counters
<1>11. m.access = {} /\ m.refresh = {}
  BY <1>0, <1>1 DEF Sound, Bound
<1>12. IsEnrollment(file) => file = copy
  BY <1>10 DEF CredInv, OnceInv, CodeInv
<1>6. ASSUME m'.access = {}, m'.refresh = {} PROVE StepOK
  BY <1>1, <1>6, <1>10, <1>11, <1>12 DEF StepOK, AdmittedWhileEnrolled, FirstEnrollmentWins, LockHolds
<1>7. CASE ~saved.ok
  <2>1. m' = m /\ disk' = disk
    BY <1>7, <1>4
  <2>2. Sound(m', enrolled', expired')
    BY <1>0, <1>1, <1>3, <2>1, SoundLater
  <2>. QED
    BY <1>0, <1>1, <1>5, <1>6, <1>11, <2>1, <2>2 DEF HoldInv
<1>8. CASE saved.ok
  <2>1. PICK o \in Adopt(record) : Become([o EXCEPT !.m.failed = IF o.ok THEN 0 ELSE @])
    BY <1>8, <1>4
  <2>. DEFINE n == [m EXCEPT !.status = "configured", !.enrollment = record]
  <2>2. /\ n \in Manager /\ Budget(n) /\ n.status = "configured" /\ n.enrollment = record
        /\ n.epoch = m.epoch
    <3>1. "configured" \in Statuses
      BY DEF Statuses
    <3>2. n \in Manager
      BY <1>0, <1>3, <3>1, Zenon DEF Manager
    <3>3. /\ n.status = "configured" /\ n.enrollment = record /\ n.epoch = m.epoch
          /\ n.locked = m.locked /\ n.failed = m.failed
      BY <1>0 DEF Manager
    <3>. QED
      BY <1>0, <3>2, <3>3, Zenon DEF Budget
  <2>3. o \in Invalidate(n)
    BY <2>1 DEF Adopt
  <2>. HIDE DEF n
  <2>4. /\ Sound(o.m, enrolled', expired) /\ o.m.refresh = {} /\ o.m.pending = {}
        /\ o.m.access = {}
        /\ o.m.status \in {n.status, "storage_error"} /\ o.m.epoch = n.epoch + 1
        /\ o.disk \in {disk, {}} /\ o.ok \in BOOLEAN
    BY <1>3, <2>2, <2>3, NothingIsLeft
  <2>5. {"m", "disk", "ok"} = DOMAIN o
    BY <2>3, OutcomeFields
  <2>6. o.m \in Manager /\ Few(o.m.pending) /\ Budget(o.m) /\ o.m.status # "down"
    BY <2>2, <2>4 DEF Sound
  <2>. DEFINE r == [o.m EXCEPT !.failed = 0]
  <2>7. /\ r \in Manager /\ Budget(r) /\ r.refresh = o.m.refresh /\ r.access = o.m.access
        /\ r.status = o.m.status /\ r.enrollment = o.m.enrollment /\ r.pending = o.m.pending
        /\ r.epoch = o.m.epoch
    BY <2>6, ForgivenOutcome
  <2>8. m' \in {o.m, r} /\ disk' = o.disk
    <3>1. CASE o.ok
      BY <2>1, <2>5, <3>1 DEF Become
    <3>2. CASE ~o.ok
      <4>1. [o.m EXCEPT !.failed = o.m.failed] = o.m
        BY <2>6 DEF Manager
      <4>. QED
        BY <2>1, <2>5, <3>2, <4>1 DEF Become
    <3>. QED
      BY <2>4, <3>1, <3>2
  <2>. HIDE DEF r
  <2>9. Sound(r, enrolled', expired)
    BY <2>4, <2>6, <2>7, SoundSame
  <2>10. m' \in Manager /\ m'.status # "down" /\ m'.epoch = m.epoch + 1 /\ m'.refresh = {}
         /\ m'.access = {}
    BY <2>2, <2>4, <2>6, <2>7, <2>8
  <2>11. Watched(m', stream)
    <3>1. m.epoch \in Nat /\ m'.epoch > m.epoch /\ m.status # "down"
      BY <1>0, <1>1, <2>10 DEF Manager
    <3>. QED
      BY <1>0, <2>10, <3>1, WatchedLater
  <2>12. Stored({}, minted, spent)
    BY DEF Stored
  <2>. QED
    BY <1>0, <1>1, <1>5, <1>6, <2>4, <2>8, <2>9, <2>10, <2>11, <2>12 DEF HoldInv
<1>. QED
  BY <1>7, <1>8

\* The manager that consumes a code: the token is gone, the step is recorded.
LEMMA ConsumedOutcome ==
  ASSUME AuthBounds, NEW n \in Manager, Few(n.pending), NEW token, NEW record \in Enrollment
  PROVE  LET r == [Without(n, token) EXCEPT !.enrollment = record] IN
         /\ r \in Manager /\ Few(r.pending) /\ (Budget(n) => Budget(r))
         /\ r.refresh = n.refresh /\ r.access = n.access /\ r.status = n.status
         /\ r.enrollment = record /\ r.epoch = n.epoch /\ r.locked = n.locked
<1>. DEFINE S == {p \in n.pending : p.token # token}
            w == [n EXCEPT !.pending = S]
            r == [w EXCEPT !.enrollment = record]
<1>1. S \in SUBSET Pending /\ S \in SUBSET n.pending
  BY DEF Manager
<1>2. Few(S)
  <2>1. n.pending \in SUBSET Pending
    BY DEF Manager
  <2>. QED
    BY <1>1, <2>1, FewTokens
<1>3. Without(n, token) = w
  BY DEF Without
<1>. HIDE DEF S
<1>4. /\ w \in Manager /\ w.pending = S /\ (Budget(n) => Budget(w))
      /\ w.status = n.status /\ w.enrollment = n.enrollment /\ w.refresh = n.refresh
      /\ w.access = n.access /\ w.epoch = n.epoch /\ w.locked = n.locked
  BY <1>1, PendingOutcome
<1>. HIDE DEF w
<1>5. r \in Manager
  BY <1>4, Zenon DEF Manager
<1>6. /\ r.refresh = w.refresh /\ r.access = w.access /\ r.status = w.status
      /\ r.enrollment = record /\ r.epoch = w.epoch /\ r.locked = w.locked
      /\ r.failed = w.failed /\ r.pending = w.pending
  BY <1>4 DEF Manager
<1>. HIDE DEF r
<1>7. Budget(w) => Budget(r)
  BY <1>6 DEF Budget
<1>8. /\ r \in Manager /\ Few(r.pending) /\ (Budget(n) => Budget(r))
      /\ r.refresh = n.refresh /\ r.access = n.access /\ r.status = n.status
      /\ r.enrollment = record /\ r.epoch = n.epoch /\ r.locked = n.locked
  BY <1>2, <1>4, <1>5, <1>6, <1>7
<1>. QED
  BY <1>3, <1>8 DEF r

\* A new session with its access token.
LEMMA HolderOutcome ==
  ASSUME NEW n \in Manager, NEW id \in Ids, n.enrollment.id \in 1..MaxEnrollments
  PROVE  LET new == [id |-> id, token |-> id, enrollment |-> n.enrollment.id]
             r   == Holder(n, id) IN
         /\ new \in Session /\ r \in Manager /\ (Budget(n) => Budget(r))
         /\ r.refresh = n.refresh \union {new}
         /\ r.access = n.access \union {[token |-> id, session |-> id]}
         /\ r.status = n.status /\ r.enrollment = n.enrollment /\ r.pending = n.pending
         /\ r.epoch = n.epoch /\ r.locked = n.locked
<1>. DEFINE new == [id |-> id, token |-> id, enrollment |-> n.enrollment.id]
            mine == [token |-> id, session |-> id]
            keep == n.refresh \union {new}
            left == n.access \union {mine}
            r == [n EXCEPT !.refresh = keep, !.access = left]
<1>1. new \in Session /\ mine \in Access
  BY DEF Session, Access
<1>2. Holder(n, id) = r
  BY DEF Holder
<1>. HIDE DEF new, mine
<1>3. keep \in SUBSET Session /\ left \in SUBSET Access
  BY <1>1 DEF Manager
<1>. HIDE DEF keep, left
<1>4. r \in Manager
  BY <1>3, Zenon DEF Manager
<1>5. /\ r.refresh = keep /\ r.access = left /\ r.status = n.status
      /\ r.enrollment = n.enrollment /\ r.pending = n.pending /\ r.epoch = n.epoch
      /\ r.locked = n.locked /\ r.failed = n.failed
  BY DEF Manager
<1>. HIDE DEF r
<1>6. Budget(n) => Budget(r)
  BY <1>5 DEF Budget
<1>7. /\ new \in Session /\ r \in Manager /\ (Budget(n) => Budget(r))
      /\ r.refresh = n.refresh \union {new} /\ r.access = n.access \union {mine}
      /\ r.status = n.status /\ r.enrollment = n.enrollment /\ r.pending = n.pending
      /\ r.epoch = n.epoch /\ r.locked = n.locked
  BY <1>1, <1>4, <1>5, <1>6 DEF keep, left
<1>. QED
  BY <1>2, <1>7 DEF new, mine

\* What issueLocked makes of a sound manager: one session more, or none.
LEMMA IssueOutcome ==
  ASSUME AuthBounds, CredInv, NEW n, Sound(n, enrolled, expired), n.status = "configured",
         Stored(n.refresh, minted, spent), minted + 1 \in Ids, NEW o \in Issue(n)
  PROVE  /\ o.m \in Manager /\ Sound(o.m, enrolled, expired) /\ o.m.status = n.status
         /\ o.m.enrollment = n.enrollment /\ o.m.epoch = n.epoch /\ o.m.locked = n.locked
         /\ Stored(o.m.refresh, minted + 1, spent) /\ Stored(o.disk, minted + 1, spent)
<1>0. /\ n \in Manager /\ Few(n.pending) /\ Budget(n) /\ enrolled \in 0..MaxEnrollments
      /\ n.enrollment.id \in 1..enrolled /\ MaxEnrollments \in Nat /\ minted \in Nat
      /\ Stored(disk, minted, spent) /\ spent \subseteq 1..minted
  BY HoldFacts DEF Sound, AuthBounds, CredInv, HoldInv, Counters
<1>1. n.enrollment.id \in 1..MaxEnrollments
  BY <1>0
<1>. DEFINE new == [id |-> minted + 1, token |-> minted + 1, enrollment |-> n.enrollment.id]
            mine == [token |-> minted + 1, session |-> minted + 1]
            h == Holder(n, minted + 1)
<1>2. /\ new \in Session /\ h \in Manager /\ Budget(h) /\ h.refresh = n.refresh \union {new}
      /\ h.access = n.access \union {mine} /\ h.status = n.status
      /\ h.enrollment = n.enrollment /\ h.pending = n.pending
      /\ h.epoch = n.epoch /\ h.locked = n.locked
  BY <1>0, <1>1, HolderOutcome
<1>3. new.id = minted + 1 /\ new.token = minted + 1 /\ new.enrollment = n.enrollment.id
      /\ mine.session = minted + 1
  OBVIOUS
<1>4. PICK saved \in Persist(h) :
         o = IF saved.ok THEN [saved EXCEPT !.m.failed = 0] ELSE [saved EXCEPT !.m = n]
  BY DEF Issue
<1>. HIDE DEF new, mine, h
<1>5. saved.m = h /\ saved.disk \in {disk, h.refresh} /\ DOMAIN saved = {"m", "disk", "ok"}
  BY SavedOutcome
<1>. DEFINE r == [h EXCEPT !.failed = 0]
<1>6. /\ r \in Manager /\ Budget(r) /\ r.refresh = h.refresh /\ r.access = h.access
      /\ r.status = h.status /\ r.enrollment = h.enrollment /\ r.pending = h.pending
      /\ r.epoch = h.epoch /\ r.locked = h.locked
  BY <1>2, ForgivenOutcome
<1>7. o.m \in {r, n} /\ o.disk = saved.disk
  BY <1>4, <1>5
<1>. HIDE DEF r
<1>8. Stored(n.refresh, minted + 1, spent) /\ Stored(disk, minted + 1, spent)
  BY <1>0, StoredLater
<1>9. Stored(h.refresh, minted + 1, spent)
  <2>1. \A t \in n.refresh : t \in Session /\ t.id \in Nat /\ t.token \in Nat /\ t.id <= minted
                             /\ t.token <= minted /\ t.token \notin spent
    BY DEF Stored, Session, Ids
  <2>2. \A t \in n.refresh : t.id # minted + 1 /\ t.token # minted + 1 /\ t.id <= minted + 1
                             /\ t.token <= minted + 1
    BY <1>0, <2>1
  <2>3. \A t, u \in n.refresh : t.id = u.id \/ t.token = u.token => t = u
    BY DEF Stored
  <2>4. minted + 1 \notin spent
    BY <1>0
  <2>. QED
    BY <1>0, <1>2, <1>3, <2>1, <2>2, <2>3, <2>4 DEF Stored
<1>10. Sound(r, enrolled, expired)
  <2>1. \A s \in r.refresh : Bound(n, s)
    BY <1>2, <1>3, <1>6 DEF Sound, Bound
  <2>2. \A a \in r.access : a.session \in expired \union {s.id : s \in r.refresh}
    <3>1. \A a \in n.access : a.session \in expired \union {s.id : s \in r.refresh}
      BY <1>2, <1>6 DEF Sound
    <3>2. mine.session \in {s.id : s \in r.refresh}
      BY <1>2, <1>3, <1>6
    <3>. QED
      BY <1>2, <1>6, <3>1, <3>2
  <2>. QED
    BY <1>0, <1>2, <1>6, <2>1, <2>2, SoundWith
<1>. QED
  BY <1>0, <1>2, <1>5, <1>6, <1>7, <1>8, <1>9, <1>10

\* A code is consumed: the step is recorded first, then a session is made.
LEMMA VerifyStep ==
  ASSUME AuthBounds, CredInv, VerifyEnd
  PROVE  HoldInv' /\ StepOK
<1>0. /\ m \in Manager /\ Sound(m, enrolled, expired) /\ Watched(m, stream) /\ Budget(m)
      /\ Few(m.pending) /\ minted \in 0..MaxTokens /\ MaxTokens \in Nat
      /\ Stored(m.refresh, minted, spent) /\ Stored(disk, minted, spent)
      /\ m.enrollment \in Enrollment /\ verifying.step \in Int
  BY HoldFacts, CodeParts DEF CredInv, HoldInv, OnceInv, CodeInv, AuthBounds, Manager
<1>11. verifying.next = "save" /\ MayWrite(verifying, m, minted, enrolled)
  BY DEF VerifyEnd, CredInv, HoldInv, NoCode
<1>12. IsEnrollment(file) => file = m.enrollment
  BY <1>11 DEF CredInv, OnceInv, CodeInv, Kept
<1>1. /\ m.status = "configured" /\ ~m.locked /\ verifying' = NoCode
      /\ UNCHANGED <<enrolled, spent, now, expired, stream>> /\ minted' = minted + 1
  BY <1>11 DEF VerifyEnd, user, MayWrite
<1>. DEFINE record == [m.enrollment EXCEPT !.step = verifying.step]
            saves == SaveEnrollment(record)
<1>2. PICK saved \in saves :
         /\ file' = saved.file
         /\ IF saved.ok
            THEN \E o \in Issue([Without(m, verifying.token) EXCEPT !.enrollment = record]) :
                    Become(o)
            ELSE UNCHANGED <<m, disk>>
  BY DEF VerifyEnd, Consumed
<1>3. record \in Enrollment /\ record.id = m.enrollment.id
  BY <1>0 DEF Enrollment
<1>. HIDE DEF record
<1>4. saved.file \in {file, record} /\ (saved.ok => saved.file = record)
  BY DEF SaveEnrollment
<1>. HIDE DEF saves
<1>5. minted < MaxTokens
  BY <1>11 DEF MayWrite
<1>6. minted \in Nat /\ minted <= minted + 1 /\ minted + 1 \in 0..MaxTokens /\ minted + 1 \in Ids
  BY <1>0, <1>5 DEF Ids
<1>7. Counters'
  <2>1. NoCode.token \in 0..MaxTokens
    BY DEF NoCode, AuthBounds
  <2>2. spent \subseteq 1..(minted + 1)
    BY <1>6 DEF CredInv, HoldInv, Counters
  <2>. QED
    BY <1>1, <1>6, <2>1, <2>2 DEF CredInv, HoldInv, Counters
<1>8. StepOK
  <2>1. IsEnrollment(file) => file'.id = file.id
    BY <1>2, <1>3, <1>4, <1>12
  <2>. QED
    BY <1>1, <2>1 DEF StepOK, AdmittedWhileEnrolled, FirstEnrollmentWins, LockHolds
<1>9. CASE ~saved.ok
  <2>1. m' = m /\ disk' = disk
    BY <1>2, <1>9
  <2>2. Stored(m.refresh, minted + 1, spent) /\ Stored(disk, minted + 1, spent)
    BY <1>0, <1>6, StoredLater
  <2>. QED
    BY <1>0, <1>1, <1>7, <1>8, <2>1, <2>2 DEF HoldInv
<1>10. CASE saved.ok
  <2>. DEFINE n == [Without(m, verifying.token) EXCEPT !.enrollment = record]
  <2>1. PICK o \in Issue(n) : Become(o)
    BY <1>2, <1>4, <1>10
  <2>2. /\ n \in Manager /\ Few(n.pending) /\ (Budget(m) => Budget(n))
        /\ n.refresh = m.refresh /\ n.access = m.access /\ n.status = m.status
        /\ n.enrollment = record /\ n.epoch = m.epoch /\ n.locked = m.locked
    BY <1>0, <1>3, ConsumedOutcome
  <2>. HIDE DEF n
  <2>3. n.enrollment.id = m.enrollment.id
    BY <1>1, <1>3, <2>2
  <2>4. Sound(n, enrolled, expired)
    <3>1. \A s \in n.refresh : Bound(m, s)
      BY <1>0, <2>2 DEF Sound
    <3>2. \A a \in n.access : a.session \in expired \union {s.id : s \in n.refresh}
      BY <1>0, <2>2 DEF Sound
    <3>. QED
      BY <1>0, <1>1, <2>2, <2>3, <3>1, <3>2, SoundWith
  <2>5. /\ o.m \in Manager /\ Sound(o.m, enrolled, expired) /\ o.m.status = n.status
        /\ o.m.enrollment = n.enrollment /\ o.m.epoch = n.epoch
        /\ Stored(o.m.refresh, minted + 1, spent) /\ Stored(o.disk, minted + 1, spent)
    BY <1>0, <1>1, <1>6, <2>2, <2>4, IssueOutcome
  <2>6. m' = o.m /\ disk' = o.disk
    BY <2>1 DEF Become
  <2>7. Watched(o.m, stream)
    BY <1>0, <1>1, <2>2, <2>3, <2>5, WatchedLater
  <2>. QED
    BY <1>1, <1>7, <1>8, <2>5, <2>6, <2>7 DEF HoldInv
<1>. QED
  BY <1>9, <1>10

\* A restart takes over the stored sessions of the stored enrollment, or none.
LEMMA StartStep ==
  ASSUME AuthBounds, CredInv, Start
  PROVE  HoldInv' /\ StepOK
<1>0. /\ m.status = "down" /\ m = Down /\ stream = NoStream /\ verifying = NoCode
      /\ Stored(disk, minted, spent) /\ file \in Enrollment /\ file.id <= enrolled
      /\ enrolled \in Nat /\ (IsEnrollment(file) \/ file = NoFile)
      /\ Down \in Manager /\ Sound(Down, enrolled, expired) /\ Stored({}, minted, spent)
  <2>1. m.status = "down"
    BY DEF Start
  <2>2. Sound(Down, enrolled, expired)
    BY DownIsSound
  <2>3. Stored({}, minted, spent)
    BY DEF Stored
  <2>4. IsEnrollment(file) \/ file = NoFile
    BY DEF Start, LoadFails, CredInv, OnceInv, FileInv
  <2>. QED
    BY <2>1, <2>2, <2>3, <2>4, HoldFacts DEF CredInv, OnceInv, FileInv, HoldInv, Sound
<1>1. UNCHANGED <<minted, enrolled, spent, now, expired, stream, file, verifying>>
  BY DEF Start, user, ghosts
<1>. DEFINE status == IF file = NoFile THEN "unconfigured" ELSE "configured"
            n == [Down EXCEPT !.status = status, !.enrollment = file]
            With(kept) == [n EXCEPT !.refresh = kept]
<1>2. /\ n \in Manager /\ n.status = status /\ n.enrollment = file /\ n.refresh = {}
      /\ n.access = {} /\ n.pending = {} /\ n.failed = 0 /\ n.locked = FALSE /\ n.epoch = 0
  <2>1. status \in Statuses
    BY DEF Statuses
  <2>. HIDE DEF status
  <2>2. n \in Manager
    BY <1>0, <2>1, Zenon DEF Manager
  <2>3. /\ n.status = status /\ n.enrollment = file /\ n.refresh = {}
        /\ n.access = {} /\ n.pending = {} /\ n.failed = 0 /\ n.locked = FALSE /\ n.epoch = 0
    BY DEF Down
  <2>. QED
    BY <2>2, <2>3
<1>3. n.status = "configured" => n.enrollment.id \in 1..enrolled
  BY <1>0, <1>2 DEF IsEnrollment, Enrollment
<1>4. status \in {"unconfigured", "configured"}
  OBVIOUS
<1>5. PICK kept \in {{s \in disk : Bound(n, s) /\ s.id \notin expired}, {}} :
         \/ m' = With(kept) /\ disk' = disk
         \/ \E o \in Persist(With(kept)) : Become(IF o.ok THEN o ELSE [o EXCEPT !.m = Down])
  BY DEF Start
<1>. HIDE DEF n, status
<1>6. kept \in SUBSET disk /\ kept \in SUBSET Session /\ \A s \in kept : Bound(n, s)
  BY <1>0, <1>5 DEF Stored
<1>. DEFINE r == [n EXCEPT !.refresh = kept]
<1>7. r \in Manager
  BY <1>2, <1>6, Zenon DEF Manager
<1>8. /\ r.refresh = kept /\ r.access = {} /\ r.pending = {} /\ r.status = n.status
      /\ r.enrollment = n.enrollment /\ r.failed = 0 /\ r.locked = FALSE /\ r.epoch = 0
  BY <1>2 DEF Manager
<1>9. m' \in {r, Down} /\ disk' \in {disk, kept}
  <2>1. CASE m' = r /\ disk' = disk
    BY <2>1
  <2>2. CASE \E o \in Persist(r) : Become(IF o.ok THEN o ELSE [o EXCEPT !.m = Down])
    <3>1. PICK o \in Persist(r) : Become(IF o.ok THEN o ELSE [o EXCEPT !.m = Down])
      BY <2>2
    <3>2. o.m = r /\ o.disk \in {disk, r.refresh} /\ DOMAIN o = {"m", "disk", "ok"}
      BY SavedOutcome
    <3>. HIDE DEF r
    <3>3. m' \in {r, Down} /\ disk' = o.disk
      BY <3>1, <3>2 DEF Become
    <3>. QED
      BY <1>8, <3>2, <3>3
  <2>. QED
    BY <1>5, <2>1, <2>2
<1>. HIDE DEF r
<1>10. Sound(r, enrolled, expired)
  <2>1. Few({})
    BY FS_EmptySet DEF Few, AuthBounds
  <2>2. Budget(r)
    BY <1>8 DEF Budget, AuthBounds
  <2>3. \A s \in r.refresh : Bound(r, s)
    BY <1>6, <1>8 DEF Bound
  <2>4. r.status # "down" /\ (r.status = "configured" => r.enrollment.id \in 1..enrolled)
    BY <1>2, <1>3, <1>4, <1>8
  <2>. QED
    BY <1>7, <1>8, <2>1, <2>2, <2>3, <2>4 DEF Sound
<1>11. Stored(kept, minted, spent)
  BY <1>0, <1>6, StoredPart
<1>12. Stored(m'.refresh, minted, spent) /\ Stored(disk', minted, spent)
  <2>1. Down.refresh = {}
    BY DEF Down
  <2>. QED
    BY <1>0, <1>8, <1>9, <1>11, <2>1
<1>13. Watched(m', stream)
  BY <1>0, <1>8, <1>9 DEF Watched, Watch, NoStream, Down
<1>14. Counters'
  BY <1>1 DEF CredInv, HoldInv, Counters
<1>15. HoldInv'
  BY <1>0, <1>1, <1>9, <1>10, <1>12, <1>13, <1>14 DEF HoldInv
<1>16. m.locked = FALSE
  BY <1>0 DEF Down
<1>17. StepOK
  BY <1>1, <1>16 DEF StepOK, AdmittedWhileEnrolled, FirstEnrollmentWins, LockHolds
<1>. QED
  BY <1>15, <1>17

\* A crash, also after a write of 2fa-secret that nothing has followed yet.
LEMMA CrashSteps ==
  ASSUME AuthBounds, CredInv, WriteCrashes \/ Crash
  PROVE  HoldInv' /\ StepOK
<1>0. /\ Stored(disk, minted, spent) /\ Counters /\ enrolled \in Nat /\ now \in 1..MaxStep
  BY HoldFacts DEF CredInv, HoldInv
<1>1. /\ m' = Down /\ verifying' = NoCode /\ stream' = NoStream
      /\ UNCHANGED <<disk, minted, spent, now, expired>>
      /\ enrolled' = enrolled \/ (enrolled' = enrolled + 1 /\ enrolled < MaxEnrollments)
  <2>1. CASE WriteCrashes
    <3>1. verifying.next = "confirm" => enrolled < MaxEnrollments
      BY DEF CredInv, HoldInv, MayWrite, NoCode
    <3>. QED
      BY <2>1, <3>1 DEF WriteCrashes, ghosts
  <2>2. CASE Crash
    BY <2>2 DEF Crash, ghosts
  <2>. QED
    BY <2>1, <2>2
<1>2. /\ Sound(m', enrolled', expired') /\ m'.refresh = {} /\ m'.access = {}
      /\ m'.status = "down"
  <2>1. Sound(Down, enrolled', expired')
    BY DownIsSound
  <2>. QED
    BY <1>1, <2>1 DEF Down
<1>3. Stored({}, minted, spent) /\ Watched(m', stream')
  BY <1>1, <1>2 DEF Stored, Watched, Watch, NoStream
<1>4. Counters'
  <2>1. NoCode.token \in 0..MaxTokens /\ MaxEnrollments \in Nat
    BY DEF NoCode, AuthBounds
  <2>2. enrolled' \in 0..MaxEnrollments
    BY <1>0, <1>1, <2>1 DEF Counters
  <2>. QED
    BY <1>0, <1>1, <2>1, <2>2 DEF Counters
<1>5. HoldInv'
  BY <1>0, <1>1, <1>2, <1>3, <1>4 DEF HoldInv
<1>6. stream'.session = 0
  BY <1>1 DEF NoStream
<1>7. FirstEnrollmentWins
  <2>1. CASE WriteCrashes /\ verifying.next = "confirm"
    <3>1. m.status = "unconfigured"
      BY <2>1 DEF CredInv, HoldInv, MayWrite, NoCode
    <3>2. m.access = {} /\ m.refresh = {}
      BY <3>1 DEF CredInv, HoldInv, Sound, Bound
    <3>3. IsEnrollment(file) => file = copy
      BY <2>1 DEF CredInv, OnceInv, CodeInv
    <3>. QED
      BY <1>2, <2>1, <3>2, <3>3 DEF FirstEnrollmentWins
  <2>2. CASE WriteCrashes /\ verifying.next = "save"
    <3>1. IsEnrollment(file) => file = m.enrollment
      BY <2>2 DEF CredInv, OnceInv, CodeInv, Kept
    <3>2. m.enrollment \in Enrollment
      BY HoldFacts DEF Manager
    <3>3. Consumed.id = m.enrollment.id
      BY <3>2 DEF Consumed, Enrollment
    <3>. QED
      BY <2>2, <3>1, <3>3 DEF FirstEnrollmentWins, WriteCrashes
  <2>3. CASE Crash
    BY <2>3 DEF Crash, FirstEnrollmentWins
  <2>. QED
    BY <2>1, <2>2, <2>3 DEF WriteCrashes
<1>8. StepOK
  BY <1>2, <1>6, <1>7 DEF StepOK, AdmittedWhileEnrolled, LockHolds
<1>. QED
  BY <1>5, <1>8

\* A WebSocket handler comes and goes.
LEMMA StreamSteps ==
  ASSUME AuthBounds, CredInv, Subscribe \/ StreamEnds \/ \E a \in m.access : Admit(a)
  PROVE  HoldInv' /\ StepOK
<1>0. /\ m \in Manager /\ Watched(m, stream) /\ m.access \subseteq Access
      /\ Sound(m, enrolled, expired) /\ now \in 1..MaxStep
  BY HoldFacts DEF CredInv, HoldInv
<1>1. /\ UNCHANGED <<m, file, disk, minted, enrolled, spent, verifying, now, expired>>
  BY DEF Subscribe, StreamEnds, Admit, user, ghosts
<1>2. CASE Subscribe
  <2>1. m.status # "down" /\ stream' = [NoStream EXCEPT !.epoch = m.epoch]
    BY <1>2 DEF Subscribe, Up
  <2>2. stream'.epoch = m.epoch /\ stream'.session = 0
    BY <2>1 DEF NoStream
  <2>3. m.epoch \in Nat
    BY <1>0 DEF Manager
  <2>4. stream' \in Watch
    BY <2>1, <2>3 DEF Watch, NoStream
  <2>5. Watched(m, stream')
    BY <2>1, <2>2, <2>3, <2>4 DEF Watched
  <2>6. HoldInv'
    BY <1>0, <1>1, <2>5, StillHold
  <2>. QED
    BY <1>1, <2>2, <2>6 DEF StepOK, AdmittedWhileEnrolled, FirstEnrollmentWins, LockHolds
<1>3. CASE StreamEnds
  <2>1. stream' = NoStream
    BY <1>3 DEF StreamEnds
  <2>2. stream'.session = 0
    BY <2>1 DEF NoStream
  <2>3. Watched(m, stream')
    BY <1>0, <2>1 DEF Watched, Watch, NoStream, Manager
  <2>4. HoldInv'
    BY <1>0, <1>1, <2>3, StillHold
  <2>. QED
    BY <1>1, <2>2, <2>4 DEF StepOK, AdmittedWhileEnrolled, FirstEnrollmentWins, LockHolds
<1>4. CASE \E a \in m.access : Admit(a)
  <2>1. PICK a \in m.access : Admit(a)
    BY <1>4
  <2>2. m.status = "configured"
    BY <1>0, <2>1 DEF Sound
  <2>3. IsEnrollment(file) /\ m.enrollment = file
    BY <2>1, <2>2 DEF Admit, Settled
  <2>4. stream' = [stream EXCEPT !.session = a.session, !.enrollment = m.enrollment.id]
        /\ stream # NoStream
    BY <2>1 DEF Admit
  <2>. DEFINE w == [stream EXCEPT !.session = a.session, !.enrollment = m.enrollment.id]
  <2>5. Watched(m, w)
    <3>1. stream \in Watch /\ a.session \in Int /\ m.enrollment.id \in Int
      BY <1>0, <2>3, HoldFacts DEF Watched, Access, Ids, Enrollment
    <3>2. w \in Watch /\ w.epoch = stream.epoch /\ w.enrollment = m.enrollment.id
      BY <3>1 DEF Watch
    <3>. HIDE DEF w
    <3>. QED
      BY <1>0, <2>1, <2>2, <3>2 DEF Watched, Admit, Up
  <2>6. HoldInv'
    BY <1>0, <1>1, <2>4, <2>5, StillHold
  <2>7. stream'.session = a.session
    BY <1>0, <2>4 DEF Watched, Watch
  <2>8. a.session \in expired \/ \E s \in m.refresh : s.id = a.session /\ s.enrollment = file.id
    <3>1. a.session \in expired \union {s.id : s \in m.refresh} /\ \A s \in m.refresh : Bound(m, s)
      BY <1>0 DEF Sound
    <3>. QED
      BY <2>3, <3>1 DEF Bound
  <2>9. AdmittedWhileEnrolled
    BY <2>3, <2>7, <2>8 DEF AdmittedWhileEnrolled
  <2>. QED
    BY <1>1, <2>6, <2>9 DEF StepOK, FirstEnrollmentWins, LockHolds
<1>. QED
  BY <1>2, <1>3, <1>4

\* The clock and the user.
LEMMA UserSteps ==
  ASSUME AuthBounds, CredInv,
         TakeFile \/ RepairFile \/ Tick \/ \E s \in m.refresh : SessionExpires(s)
  PROVE  HoldInv' /\ StepOK
<1>1. /\ UNCHANGED <<m, disk, minted, enrolled, spent, verifying, stream>>
      /\ expired \subseteq expired'
  BY DEF TakeFile, RepairFile, Tick, SessionExpires, ghosts
<1>2. now' \in 1..MaxStep
  <2>1. CASE Tick
    BY <2>1, HoldFacts DEF Tick, AuthBounds
  <2>2. CASE ~Tick
    BY <2>2, HoldFacts DEF TakeFile, RepairFile, SessionExpires
  <2>. QED
    BY <2>1, <2>2
<1>3. HoldInv'
  <2>1. Watched(m, stream')
    BY <1>1 DEF CredInv, HoldInv
  <2>. QED
    BY <1>1, <1>2, <2>1, StillHold
<1>4. ~IsEnrollment(file) \/ ~IsEnrollment(file') \/ file' = file
  <2>1. CASE TakeFile
    BY <2>1 DEF TakeFile, IsEnrollment, NoFile, BadFile
  <2>2. CASE ~TakeFile
    BY <2>2 DEF RepairFile, Tick, SessionExpires
  <2>. QED
    BY <2>1, <2>2
<1>5. StepOK
  BY <1>1, <1>4 DEF StepOK, AdmittedWhileEnrolled, FirstEnrollmentWins, LockHolds
<1>. QED
  BY <1>3, <1>5

-----------------------------------------------------------------------------
(* The theorems                                                            *)

\* The credential part of the inductive step, with what no step may do.
LEMMA CredNext ==
  ASSUME AuthBounds, CredInv, [AuthNext]_authVars
  PROVE  CredInv' /\ StepOK
<1>1. OnceInv'
  BY OnceNext DEF CredInv
<1>2. HoldInv' /\ StepOK
  <2>1. CASE UNCHANGED authVars
    <3>1. UNCHANGED <<m, file, disk, minted, enrolled, spent, verifying, stream, now, expired>>
      BY <2>1 DEF authVars
    <3>2. HoldInv'
      BY <3>1 DEF CredInv, HoldInv, Counters
    <3>. QED
      BY <3>1, <3>2 DEF StepOK, AdmittedWhileEnrolled, FirstEnrollmentWins, LockHolds
  <2>2. CASE Reconcile \/ VerifyRefused
    BY <2>2, ReconcileSteps
  <2>3. CASE Challenge \/ LoginLocked \/ PendingExpires \/ (\E a \in m.access : AccessExpires(a))
    BY <2>3, SmallSteps
  <2>4. CASE \E proven \in BOOLEAN : Login(proven)
    BY <2>4, LoginStep
  <2>5. CASE \E p \in m.pending : Setup(p) \/ WrongCode(p) \/ ConfirmBegin(p) \/ VerifyBegin(p)
    BY <2>5, CodeSteps
  <2>6. CASE ConfirmEnd
    BY <2>6, ConfirmStep
  <2>7. CASE VerifyEnd
    BY <2>7, VerifyStep
  <2>15. CASE VerifyRechecked
    BY <2>15, RecheckStep
  <2>8. CASE WriteCrashes \/ Crash
    BY <2>8, CrashSteps
  <2>9. CASE \E s \in m.refresh : Refresh(s)
    BY <2>9, RefreshStep
  <2>10. CASE \E s \in m.refresh : Logout(s) \/ Revoke(s) \/ LogoutOthers(s)
    <3>1. Up /\ \E ids : Remove(ids)
      BY <2>10 DEF Logout, Revoke, LogoutOthers
    <3>. QED
      BY <3>1, RemoveStep
  <2>11. CASE Cleanup
    BY <2>11, CleanupStep
  <2>12. CASE Subscribe \/ StreamEnds \/ \E a \in m.access : Admit(a)
    BY <2>12, StreamSteps
  <2>13. CASE Start
    BY <2>13, StartStep
  <2>14. CASE TakeFile \/ RepairFile \/ Tick \/ \E s \in m.refresh : SessionExpires(s)
    BY <2>14, UserSteps
  <2>. QED
    BY <2>1, <2>2, <2>3, <2>4, <2>5, <2>6, <2>7, <2>8, <2>9, <2>10, <2>11, <2>12, <2>13, <2>14, <2>15
       DEF AuthNext
<1>. QED
  BY <1>1, <1>2 DEF CredInv

LEMMA CredInit == ASSUME AuthBounds, AuthInit PROVE CredInv
<1>1. OnceInv
  BY OnceInit
<1>2. Sound(m, enrolled, expired) /\ Stored({}, minted, spent)
  BY DownIsSound DEF AuthInit, Stored
<1>3. Down.refresh = {} /\ Down.status = "down"
  BY DEF Down
<1>4. Watched(m, stream)
  BY <1>3 DEF AuthInit, Watched, Watch, NoStream
<1>5. Counters
  <2>1. 0 \in 0..MaxTokens /\ 0 \in 0..MaxEnrollments /\ 1 \in 1..MaxStep
    BY DEF AuthBounds
  <2>2. NoCode.token = 0
    BY DEF NoCode
  <2>. QED
    BY <2>1, <2>2 DEF AuthInit, Counters
<1>. QED
  BY <1>1, <1>2, <1>3, <1>4, <1>5 DEF AuthInit, CredInv, HoldInv

\* The inductive invariant says what the sessions, tokens and streams rely on.
LEMMA CredImplies == ASSUME AuthBounds, CredInv PROVE CredentialsHold
<1>1. AuthTypeOK
  <2>1. m \in Manager /\ Few(m.pending)
    BY HoldFacts
  <2>2. /\ m.status \in {"down", "unconfigured", "configured", "storage_error"}
        /\ m.refresh \subseteq Session /\ m.access \subseteq [token : Ids, session : Ids]
        /\ m.pending \subseteq Pending
        /\ m.challenge \in BOOLEAN /\ m.locked \in BOOLEAN /\ m.failed \in 0..MaxAttempts
    BY <2>1 DEF Manager, Statuses, Access
  <2>3. disk \subseteq Session /\ \A s, t \in m.refresh : s.id = t.id \/ s.token = t.token => s = t
    BY DEF CredInv, HoldInv, Stored
  <2>4. (m.status = "configured") => IsEnrollment(m.enrollment)
    BY DEF CredInv, HoldInv, Sound, IsEnrollment, Counters
  <2>5. verifying.token \in 0..MaxTokens /\ now \in 1..MaxStep /\ Cardinality(m.pending) <= MaxPending
        /\ verifying.next \in {"none", "recheck", "save", "confirm"}
    BY <2>1, CodeParts DEF CredInv, HoldInv, Counters, Few, OnceInv, CodeInv
  <2>. QED
    BY <2>2, <2>3, <2>4, <2>5 DEF AuthTypeOK
<1>2. CredentialsBound
  BY DEF CredentialsBound, CredInv, HoldInv, Sound
<1>3. SpentStaysSpent
  BY DEF SpentStaysSpent, CredInv, HoldInv, Stored
<1>4. StreamsWatched
  BY DEF StreamsWatched, CredInv, HoldInv, Watched
<1>. QED
  BY <1>1, <1>2, <1>3, <1>4 DEF CredentialsHold

\* manager.go, totp_flows.go, sessions.go: whatever fails, crashes, expires or is
\* edited, a session and its tokens belong to the enrollment in force, a token that was
\* rotated or revoked never comes back, and a stream of an old enrollment is told.
THEOREM CredentialsStay == ASSUME AuthBounds PROVE AuthSpec => []CredentialsHold
<1>1. AuthInit => CredInv
  BY CredInit
<1>2. CredInv /\ [AuthNext]_authVars => CredInv'
  BY CredNext
<1>3. CredInv => CredentialsHold
  BY CredImplies
<1>. QED
  BY <1>1, <1>2, <1>3, PTL DEF AuthSpec

\* websocket.go, totp_flows.go, session_login.go: no step admits a stream without the
\* enrollment in force or gives anything to the user of a locked service; an enrollment
\* is replaced only by a confirmation that was under way when the user put it back, and
\* nobody was signed in under it.
THEOREM StepsHold == ASSUME AuthBounds PROVE AuthSpec => EnrollmentSteps
<1>1. AuthInit => CredInv
  BY CredInit
<1>2. CredInv /\ [AuthNext]_authVars => CredInv'
  BY CredNext
<1>3. CredInv /\ [AuthNext]_authVars =>
         [AdmittedWhileEnrolled /\ FirstEnrollmentWins /\ LockHolds]_authVars
  BY CredNext DEF StepOK
<1>. QED
  BY <1>1, <1>2, <1>3, PTL DEF AuthSpec, EnrollmentSteps

=============================================================================
