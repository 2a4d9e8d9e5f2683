----------------------------- MODULE Hook_proofs -----------------------------
(***************************************************************************)
(* Proofs about the Codex hook, for any number of hooks, runtimes, faults, *)
(* retained records, installers and handlers: its state files are valid    *)
(* and no report is lost (HookFilesSafe), indices rise by one (IndexRises),*)
(* its installers do not disturb one another (InstallSafe), and the        *)
(* installed component gets older only by one that could not read the      *)
(* record (NeverOlder).                                                    *)
(*                                                                         *)
(* The argument for the files: a hook that has read its file holds the     *)
(* lock of the runtime, so until it writes the file can only be removed by *)
(* a cleanup; what it read is still the file, or the file is gone.         *)
(*                                                                         *)
(* The argument for the installers: the owner file names the one that      *)
(* works, and while a directory has no owner file the one installer that   *)
(* made it is about to write it.  Who loses a lock to a slow breaker is    *)
(* set aside (`evicted'), and so is everyone it takes a lock from.  While  *)
(* nobody was, what an installer has written is still there when it        *)
(* reports, and every handler of the user is in what it read or was saved  *)
(* after it had read.                                                      *)
(***************************************************************************)
EXTENDS HookState, HookInstall, SequenceTheorems, FiniteSetTheorems, TLAPS

-----------------------------------------------------------------------------
(* The state files: the invariant                                          *)

States == {"running", "relax"}
Files == [index : 0..MaxHookIndex, state : States, records : Seq(HookRecords)]
HookPhases == {"idle", "waiting", "locked", "read", "cleaning", "removing"}

HookTypes ==
  /\ file \in [Runtimes -> Files \union {None}]
  /\ aged \in [Runtimes -> BOOLEAN]
  /\ flock \in [Runtimes -> Hooks \union {None}]
  /\ hook \in [Hooks -> [pc : HookPhases, state : States \union {None}, read : Files,
                         victim : Runtimes \union {None}]]
  /\ writes \in [Runtimes -> 0..MaxHookIndex]
  /\ hookFaults \in 0..MaxHookFaults

\* A hook between its lock and its rename holds the lock and has a state to report.
LockHeld ==
  \A h \in Hooks :
    /\ hook[h].pc \in {"locked", "read"} => flock[RuntimeOf[h]] = h
    /\ hook[h].pc \in {"waiting", "locked", "read"} => hook[h].state \in States
    /\ hook[h].pc = "removing" => hook[h].victim \in Runtimes

\* What a hook has read is valid, and still the file unless that was removed.
ReadIsCurrent ==
  \A h \in Hooks : hook[h].pc = "read" =>
    /\ ValidFile(hook[h].read)
    /\ file[RuntimeOf[h]] \in {None, hook[h].read}

HookInv == HookTypes /\ LockHeld /\ ReadIsCurrent /\ FilesAreValid /\ NoReportLost

-----------------------------------------------------------------------------
(* The records of a file                                                   *)

Rising(s) == \A m, n \in DOMAIN s : m < n => s[m].index < s[n].index

\* Retaining the latest records keeps their order and the last of them.
LEMMA RetainedRecords ==
  ASSUME HookBounds, NEW s \in Seq(HookRecords), s # << >>, Rising(s)
  PROVE  /\ Retained(s) \in Seq(HookRecords)
         /\ Len(Retained(s)) \in 1..MaxRecords
         /\ Rising(Retained(s))
         /\ Retained(s)[Len(Retained(s))] = s[Len(s)]
<1>1. Len(s) \in Nat \ {0} /\ DOMAIN s = 1..Len(s) /\ \A i \in 1..Len(s) : s[i] \in HookRecords
  BY EmptySeq, LenProperties
<1>2. MaxRecords \in Nat \ {0}
  BY DEF HookBounds
<1>3. CASE Len(s) <= MaxRecords
  BY <1>1, <1>2, <1>3 DEF Retained
<1>4. CASE Len(s) > MaxRecords
  <2>. DEFINE a == Len(s) - MaxRecords + 1
              t == SubSeq(s, a, Len(s))
  <2>1. a \in 2..Len(s) /\ Len(s) - a + 1 = MaxRecords
    BY <1>1, <1>2, <1>4
  <2>2. \A i \in a..Len(s) : s[i] \in HookRecords
    BY <1>1, <2>1
  <2>3. /\ t \in Seq(HookRecords)
        /\ Len(t) = MaxRecords
        /\ \A i \in 1..MaxRecords : t[i] = s[a + i - 1]
    BY <1>1, <2>1, <2>2, SubSeqProperties, SMTT(30)
  <2>4. DOMAIN t = 1..MaxRecords
    BY <2>3, LenProperties
  <2>5. Rising(t)
    <3>. SUFFICES ASSUME NEW m \in 1..MaxRecords, NEW n \in 1..MaxRecords, m < n
                  PROVE  t[m].index < t[n].index
      BY <2>4 DEF Rising
    <3>1. a + m - 1 \in 1..Len(s) /\ a + n - 1 \in 1..Len(s) /\ a + m - 1 < a + n - 1
      BY <1>1, <1>2, <2>1
    <3>2. s[a + m - 1].index < s[a + n - 1].index
      BY <1>1, <3>1 DEF Rising
    <3>. QED
      BY <2>3, <3>2
  <2>6. t[Len(t)] = s[Len(s)]
    BY <1>1, <1>2, <2>1, <2>3
  <2>7. Retained(s) = t
    BY <1>4 DEF Retained
  <2>. QED
    BY <1>2, <2>3, <2>5, <2>6, <2>7
<1>. QED
  BY <1>1, <1>2, <1>3, <1>4

\* A record with a higher index than the last one keeps the order.
LEMMA AppendedRecord ==
  ASSUME HookBounds, NEW s \in Seq(HookRecords), Rising(s), NEW r \in HookRecords,
         s # << >> => s[Len(s)].index < r.index
  PROVE  Rising(Append(s, r))
<1>. DEFINE t == Append(s, r)
<1>1. MaxHookIndex \in Nat /\ \A q \in HookRecords : q.index \in Nat
  BY DEF HookBounds, HookRecords
<1>2. /\ Len(s) \in Nat /\ DOMAIN s = 1..Len(s)
      /\ \A i \in 1..Len(s) : s[i] \in HookRecords
      /\ Len(s) = 0 => s = << >>
  BY LenProperties, EmptySeq
<1>3. /\ t \in Seq(HookRecords) /\ Len(t) = Len(s) + 1
      /\ \A i \in 1..Len(s) : t[i] = s[i]
      /\ t[Len(s) + 1] = r
  BY AppendProperties
<1>4. DOMAIN t = 1..(Len(s) + 1)
  BY <1>3, LenProperties
<1>. HIDE DEF t
<1>5. ASSUME NEW m \in 1..Len(s), NEW n \in 1..Len(s), m < n PROVE t[m].index < t[n].index
  BY <1>2, <1>3, <1>5 DEF Rising
<1>6. ASSUME NEW m \in 1..Len(s) PROVE t[m].index < r.index
  <2>1. Len(s) \in 1..Len(s) /\ s # << >>
    BY <1>2, EmptySeq
  <2>2. s[Len(s)].index < r.index
    BY <2>1
  <2>3. m < Len(s) => s[m].index < s[Len(s)].index
    BY <1>2, <2>1 DEF Rising
  <2>a. s[m] \in HookRecords /\ s[Len(s)] \in HookRecords
    BY <1>2, <2>1
  <2>4. s[m].index \in Nat /\ s[Len(s)].index \in Nat /\ r.index \in Nat
    BY <1>1, <2>a
  <2>b. Len(s) \in Nat
    BY <1>2
  <2>5. m < Len(s) \/ m = Len(s)
    BY <2>b
  <2>6. s[m].index < r.index
    BY <2>2, <2>3, <2>4, <2>5
  <2>. QED
    BY <1>3, <2>6
<1>7. ASSUME NEW m \in 1..(Len(s) + 1), NEW n \in 1..(Len(s) + 1), m < n
      PROVE  t[m].index < t[n].index
  <2>1. m \in 1..Len(s)
    BY <1>2, <1>7
  <2>2. n \in 1..Len(s) \/ n = Len(s) + 1
    BY <1>2
  <2>3. CASE n \in 1..Len(s)
    BY <1>5, <1>7, <2>1, <2>3
  <2>4. CASE n = Len(s) + 1
    BY <1>3, <1>6, <2>1, <2>4
  <2>. QED
    BY <2>2, <2>3, <2>4
<1>8. Rising(t)
  BY <1>4, <1>7 DEF Rising
<1>. QED
  BY <1>8 DEF t

\* A hook that appends its report to a valid file makes a valid file.
LEMMA NextFileValid ==
  ASSUME HookBounds, NEW h \in Hooks, hook[h].read \in Files, ValidFile(hook[h].read),
         hook[h].state \in States, hook[h].read.index < MaxHookIndex
  PROVE  /\ NextFile(h) \in Files
         /\ ValidFile(NextFile(h))
         /\ NextFile(h).index = hook[h].read.index + 1
<1>. DEFINE k == hook[h].read.index
            kept == hook[h].read.records
            r == [index |-> k + 1, state |-> hook[h].state]
            s == Append(kept, r)
<1>1. k \in Nat /\ k + 1 \in 1..MaxHookIndex /\ k + 1 \in 0..MaxHookIndex /\ kept \in Seq(HookRecords)
  BY DEF Files, HookBounds
<1>2. r \in HookRecords /\ r.index = k + 1 /\ r.state = hook[h].state
  BY <1>1 DEF HookRecords, States
<1>3. kept # << >> => kept[Len(kept)].index < r.index
  <2>1. kept # << >> => kept[Len(kept)].index = k
    BY DEF ValidFile
  <2>. QED
    BY <1>1, <1>2, <2>1
<1>4. Rising(kept)
  BY DEF ValidFile, Rising
<1>5. NextFile(h) = [index |-> k + 1, state |-> hook[h].state, records |-> Retained(s)]
  BY DEF NextFile
<1>. HIDE DEF r, kept, k
<1>6. /\ s \in Seq(HookRecords) /\ s # << >>
      /\ Len(s) = Len(kept) + 1 /\ s[Len(kept) + 1] = r
  BY <1>1, <1>2, AppendProperties
<1>7. Rising(s)
  BY <1>1, <1>2, <1>3, <1>4, AppendedRecord
<1>. HIDE DEF s
<1>8. /\ Retained(s) \in Seq(HookRecords)
      /\ Len(Retained(s)) \in 1..MaxRecords
      /\ Rising(Retained(s))
      /\ Retained(s)[Len(Retained(s))] = r
  BY <1>6, <1>7, RetainedRecords
<1>9. Retained(s) # << >>
  BY <1>8, EmptySeq
<1>10. Len(Retained(s)) <= MaxRecords
  BY <1>8 DEF HookBounds
<1>11. r = [index |-> k + 1, state |-> hook[h].state]
  BY DEF r
<1>12. NextFile(h) \in Files
  BY <1>1, <1>5, <1>8 DEF Files
<1>13. ValidFile(NextFile(h))
  BY <1>5, <1>8, <1>9, <1>10, <1>11 DEF ValidFile, Rising
<1>. QED
  BY <1>5, <1>12, <1>13 DEF k

-----------------------------------------------------------------------------
(* The steps                                                               *)

\* A step of a hook that leaves the files alone keeps the invariant when it is sound
\* about that hook: its lock, its state and what it has read.
LEMMA HookOnly ==
  ASSUME HookBounds, HookInv, HookTypes', NEW h \in Hooks,
         \A g \in Hooks \ {h} : hook'[g] = hook[g],
         \A g \in Hooks \ {h} : flock[RuntimeOf[g]] = g => flock'[RuntimeOf[g]] = g,
         /\ hook'[h].pc \in {"locked", "read"} => flock'[RuntimeOf[h]] = h
         /\ hook'[h].pc \in {"waiting", "locked", "read"} => hook'[h].state \in States
         /\ hook'[h].pc = "removing" => hook'[h].victim \in Runtimes,
         hook'[h].pc = "read" => /\ ValidFile(hook'[h].read)
                                 /\ file[RuntimeOf[h]] \in {None, hook'[h].read},
         UNCHANGED <<file, writes>>
  PROVE  HookInv'
<1>1. LockHeld'
  <2>. SUFFICES ASSUME NEW g \in Hooks
                PROVE  /\ hook'[g].pc \in {"locked", "read"} => flock'[RuntimeOf[g]] = g
                       /\ hook'[g].pc \in {"waiting", "locked", "read"}
                            => hook'[g].state \in States
                       /\ hook'[g].pc = "removing" => hook'[g].victim \in Runtimes
    BY DEF LockHeld
  <2>. QED
    BY DEF HookInv, LockHeld
<1>2. ReadIsCurrent'
  <2>. SUFFICES ASSUME NEW g \in Hooks, hook'[g].pc = "read"
                PROVE  /\ ValidFile(hook'[g].read)
                       /\ file[RuntimeOf[g]] \in {None, hook'[g].read}
    BY DEF ReadIsCurrent, ValidFile
  <2>. QED
    BY DEF HookInv, ReadIsCurrent
<1>3. FilesAreValid' /\ NoReportLost'
  BY DEF HookInv, FilesAreValid, NoReportLost, ValidFile
<1>. QED
  BY <1>1, <1>2, <1>3 DEF HookInv

\* An event gives the hook a state to report.
LEMMA HookStep ==
  ASSUME HookBounds, HookInv, NEW h \in Hooks, Hook(h) PROVE HookInv'
<1>1. PICK e \in Events : /\ StateFor[e] # None
        /\ hook' = [hook EXCEPT ![h] = [Resting EXCEPT !.pc = "waiting", !.state = StateFor[e]]]
  BY DEF Hook
<1>2. StateFor[e] \in States
  BY <1>1 DEF HookBounds, States
<1>3. NewFile \in Files
  BY DEF NewFile, Files, States, HookBounds
<1>4. HookTypes'
  BY <1>1, <1>2, <1>3 DEF Hook, HookInv, HookTypes, Resting, HookPhases
<1>5. /\ hook'[h].pc = "waiting" /\ hook'[h].state \in States
      /\ \A g \in Hooks \ {h} : hook'[g] = hook[g]
  BY <1>1, <1>2 DEF HookInv, HookTypes, Resting
<1>. QED
  BY <1>4, <1>5, HookOnly DEF Hook

\* The lock goes to a hook that waits, when it is free.
LEMMA AcquireStep ==
  ASSUME HookBounds, HookInv, NEW h \in Hooks, AcquireTmuxLock(h) PROVE HookInv'
<1>1. HookTypes'
  BY DEF AcquireTmuxLock, HookInv, HookTypes, HookPhases, HookBounds
<1>2. /\ hook'[h].pc = "locked" /\ hook'[h].state = hook[h].state /\ hook[h].pc = "waiting"
      /\ \A g \in Hooks \ {h} : hook'[g] = hook[g]
      /\ RuntimeOf[h] \in Runtimes /\ flock'[RuntimeOf[h]] = h
      /\ \A g \in Hooks \ {h} : flock[RuntimeOf[g]] = g => flock'[RuntimeOf[g]] = g
  BY DEF AcquireTmuxLock, HookInv, HookTypes, HookBounds
<1>3. hook'[h].state \in States
  BY <1>2 DEF HookInv, LockHeld
<1>. QED
  BY <1>1, <1>2, <1>3, HookOnly DEF AcquireTmuxLock

\* What the hook reads is the file of its runtime, or a new one.
LEMMA ReadStep ==
  ASSUME HookBounds, HookInv, NEW h \in Hooks, ReadFile(h) PROVE HookInv'
<1>. DEFINE r == RuntimeOf[h]
            f == IF file[r] = None THEN NewFile ELSE file[r]
<1>1. r \in Runtimes /\ hook[h].pc = "locked"
  BY DEF ReadFile, HookBounds
<1>2. NewFile \in Files /\ ValidFile(NewFile)
  <2>1. NewFile.records = << >> /\ NewFile.index = 0 /\ NewFile.state = "relax"
    BY DEF NewFile
  <2>2. << >> \in Seq(HookRecords) /\ Len(<< >>) = 0 /\ DOMAIN << >> = {}
    BY EmptySeq, LenProperties
  <2>3. MaxRecords \in Nat /\ MaxHookIndex \in Nat
    BY DEF HookBounds
  <2>4. ValidFile(NewFile)
    BY <2>1, <2>2, <2>3 DEF ValidFile
  <2>5. NewFile \in Files
    BY <2>2, <2>3 DEF NewFile, Files, States
  <2>. QED
    BY <2>4, <2>5
<1>3. f \in Files /\ ValidFile(f) /\ file[r] \in {None, f}
  BY <1>1, <1>2 DEF HookInv, HookTypes, FilesAreValid
<1>4. /\ hook' = [hook EXCEPT ![h].pc = "read", ![h].read = f]
      /\ UNCHANGED <<file, aged, flock, writes, hookFaults>>
  BY DEF ReadFile
<1>. HIDE DEF f
<1>5. HookTypes'
  <2>1. [hook[h] EXCEPT !.pc = "read", !.read = f] \in
           [pc : HookPhases, state : States \union {None}, read : Files, victim : Runtimes \union {None}]
    BY <1>3, ZenonT(80) DEF HookInv, HookTypes, HookPhases
  <2>. QED
    BY <1>4, <2>1 DEF HookInv, HookTypes
<1>6. /\ hook'[h].pc = "read" /\ hook'[h].state = hook[h].state /\ hook'[h].read = f
      /\ \A g \in Hooks \ {h} : hook'[g] = hook[g]
  BY <1>4 DEF HookInv, HookTypes
<1>7. flock[r] = h /\ hook'[h].state \in States
  BY <1>1, <1>6 DEF HookInv, LockHeld
<1>. QED
  BY <1>3, <1>4, <1>5, <1>6, <1>7, HookOnly

\* The rename publishes a valid file whose index counts the writes.
LEMMA RenameStep ==
  ASSUME HookBounds, HookInv, NEW h \in Hooks, hook[h].pc = "read",
         hook[h].read.index < MaxHookIndex, Renamed(h), flock' = Unlocked(h),
         hook'[h] \in {Resting, [Resting EXCEPT !.pc = "cleaning"]},
         \A g \in Hooks \ {h} : hook'[g] = hook[g], HookTypes'
  PROVE  HookInv' /\ IndexRises
<1>. DEFINE r == RuntimeOf[h]
            new == NextFile(h)
<1>1. r \in Runtimes /\ flock[r] = h /\ hook[h].state \in States /\ hook[h].read \in Files
      /\ ValidFile(hook[h].read) /\ file[r] \in {None, hook[h].read}
  BY DEF HookBounds, HookInv, HookTypes, LockHeld, ReadIsCurrent
<1>2. /\ new \in Files /\ ValidFile(new)
      /\ new.index = hook[h].read.index + 1
  BY <1>1, NextFileValid
<1>3. /\ file' = [file EXCEPT ![r] = new]
      /\ writes' = [writes EXCEPT ![r] = IF file[r] = None THEN hook[h].read.index + 1 ELSE @ + 1]
  BY DEF Renamed
<1>. HIDE DEF new
<1>4. /\ file'[r] = new
      /\ \A q \in Runtimes \ {r} : file'[q] = file[q] /\ writes'[q] = writes[q]
  BY <1>1, <1>3 DEF HookInv, HookTypes
<1>5. writes'[r] = new.index
  <2>1. CASE file[r] = None
    BY <1>1, <1>2, <1>3, <2>1 DEF HookInv, HookTypes
  <2>2. CASE file[r] # None
    <3>1. writes[r] = hook[h].read.index
      BY <1>1, <2>2 DEF HookInv, NoReportLost
    <3>. QED
      BY <1>1, <1>2, <1>3, <2>2, <3>1 DEF HookInv, HookTypes
  <2>. QED
    BY <2>1, <2>2
<1>6. \A g \in Hooks \ {h} : hook[g].pc \in {"locked", "read"} =>
        RuntimeOf[g] \in Runtimes \ {r} /\ flock'[RuntimeOf[g]] = g
  BY <1>1 DEF HookInv, HookTypes, LockHeld, Unlocked, HookBounds
<1>7. hook'[h].pc \notin {"waiting", "locked", "read", "removing"}
  BY DEF Resting
<1>8. LockHeld'
  <2>. SUFFICES ASSUME NEW g \in Hooks
                PROVE  /\ hook'[g].pc \in {"locked", "read"} => flock'[RuntimeOf[g]] = g
                       /\ hook'[g].pc \in {"waiting", "locked", "read"}
                            => hook'[g].state \in States
                       /\ hook'[g].pc = "removing" => hook'[g].victim \in Runtimes
    BY DEF LockHeld
  <2>. QED
    BY <1>6, <1>7 DEF HookInv, LockHeld
<1>9. ReadIsCurrent'
  <2>. SUFFICES ASSUME NEW g \in Hooks, hook'[g].pc = "read"
                PROVE  /\ ValidFile(hook'[g].read)
                       /\ file'[RuntimeOf[g]] \in {None, hook'[g].read}
    BY DEF ReadIsCurrent, ValidFile
  <2>1. g # h /\ hook'[g] = hook[g] /\ hook[g].pc = "read"
    BY <1>7
  <2>2. file'[RuntimeOf[g]] = file[RuntimeOf[g]]
    BY <1>4, <1>6, <2>1
  <2>. QED
    BY <2>1, <2>2 DEF HookInv, ReadIsCurrent
<1>10. FilesAreValid'
  <2>. SUFFICES ASSUME NEW q \in Runtimes, file'[q] # None PROVE ValidFile(file'[q])
    BY DEF FilesAreValid, ValidFile
  <2>. QED
    BY <1>2, <1>4 DEF HookInv, FilesAreValid
<1>11. NoReportLost'
  BY <1>4, <1>5 DEF HookInv, NoReportLost
<1>12. IndexRises
  <2>. SUFFICES ASSUME NEW q \in Runtimes, file[q] # None, file'[q] # file[q]
                PROVE  file'[q].index = file[q].index + 1
    BY DEF IndexRises
  <2>1. q = r /\ file[r] = hook[h].read
    BY <1>1, <1>4
  <2>. QED
    BY <1>2, <1>4, <2>1
<1>. QED
  BY <1>8, <1>9, <1>10, <1>11, <1>12 DEF HookInv

\* A removal takes the file and what is known of it; what was read before it stays.
LEMMA RemoveStep ==
  ASSUME HookBounds, HookInv, NEW h \in Hooks, RemoveFile(h) PROVE HookInv' /\ IndexRises
<1>. DEFINE r == hook[h].victim
<1>1. r \in Runtimes /\ hook[h].pc = "removing"
  BY DEF RemoveFile, HookInv, LockHeld
<1>2. HookTypes'
  BY <1>1 DEF RemoveFile, HookInv, HookTypes, HookPhases, HookBounds
<1>3. /\ file'[r] = None /\ writes'[r] = 0
      /\ \A q \in Runtimes \ {r} : file'[q] = file[q] /\ writes'[q] = writes[q]
      /\ hook'[h].pc = "cleaning" /\ \A g \in Hooks \ {h} : hook'[g] = hook[g]
      /\ flock' = flock
  BY <1>1 DEF RemoveFile, HookInv, HookTypes
<1>. HIDE DEF r
<1>4. LockHeld'
  BY <1>3 DEF HookInv, LockHeld
<1>5. ReadIsCurrent'
  <2>. SUFFICES ASSUME NEW g \in Hooks, hook'[g].pc = "read"
                PROVE  /\ ValidFile(hook'[g].read)
                       /\ file'[RuntimeOf[g]] \in {None, hook'[g].read}
    BY DEF ReadIsCurrent, ValidFile
  <2>1. g # h /\ hook'[g] = hook[g] /\ hook[g].pc = "read"
    BY <1>3
  <2>2. file'[RuntimeOf[g]] \in {None, file[RuntimeOf[g]]}
    BY <1>3 DEF HookBounds
  <2>. QED
    BY <2>1, <2>2 DEF HookInv, ReadIsCurrent
<1>6. FilesAreValid'
  <2>. SUFFICES ASSUME NEW q \in Runtimes, file'[q] # None PROVE ValidFile(file'[q])
    BY DEF FilesAreValid, ValidFile
  <2>. QED
    BY <1>3 DEF HookInv, FilesAreValid
<1>7. NoReportLost' /\ IndexRises
  BY <1>3 DEF HookInv, NoReportLost, IndexRises
<1>. QED
  BY <1>2, <1>4, <1>5, <1>6, <1>7 DEF HookInv

\* A kill, a failed write and the end of a hook release its lock and nothing else.
LEMMA RestStep ==
  ASSUME HookBounds, HookInv, NEW h \in Hooks, flock' \in {flock, Unlocked(h)},
         hook' = [hook EXCEPT ![h] = Resting], UNCHANGED <<file, aged, writes>>,
         hookFaults' \in 0..MaxHookFaults
  PROVE  HookInv'
<1>1. NewFile \in Files
  BY DEF NewFile, Files, States, HookBounds
<1>2. HookTypes'
  BY <1>1 DEF HookInv, HookTypes, HookPhases, Resting, Unlocked, HookBounds
<1>3. /\ hook'[h].pc = "idle" /\ \A g \in Hooks \ {h} : hook'[g] = hook[g]
      /\ \A g \in Hooks \ {h} : flock[RuntimeOf[g]] = g => flock'[RuntimeOf[g]] = g
  BY DEF HookInv, HookTypes, Resting, Unlocked, HookBounds
<1>. QED
  BY <1>2, <1>3, HookOnly

\* The remaining steps of a hook.
LEMMA WriteStep ==
  ASSUME HookBounds, HookInv, NEW h \in Hooks, WriteFile(h) \/ WriteFails(h)
  PROVE  HookInv' /\ IndexRises
<1>1. hook[h].pc = "read" /\ hook[h].read.index < MaxHookIndex /\ RuntimeOf[h] \in Runtimes
      /\ flock' = Unlocked(h)
  BY DEF WriteFile, WriteFails, HookBounds
<1>2. ASSUME Renamed(h), hook' = [hook EXCEPT ![h] = [Resting EXCEPT !.pc = "cleaning"]]
                         \/ hook' = [hook EXCEPT ![h] = Resting],
             hookFaults' \in 0..MaxHookFaults
      PROVE  HookInv' /\ IndexRises
  <2>1. /\ NextFile(h) \in Files /\ NextFile(h).index = hook[h].read.index + 1
        /\ hook[h].read.index + 1 \in 0..MaxHookIndex
    <3>1. /\ hook[h].read \in Files /\ ValidFile(hook[h].read)
          /\ hook[h].state \in States
      BY <1>1 DEF HookInv, HookTypes, LockHeld, ReadIsCurrent
    <3>2. hook[h].read.index + 1 \in 0..MaxHookIndex
      BY <1>1, <3>1 DEF Files, HookBounds
    <3>. QED
      BY <1>1, <3>1, <3>2, NextFileValid
  <2>2. file[RuntimeOf[h]] # None => writes[RuntimeOf[h]] = hook[h].read.index
    BY <1>1 DEF HookInv, ReadIsCurrent, NoReportLost
  <2>3. /\ file' \in [Runtimes -> Files \union {None}]
        /\ aged' \in [Runtimes -> BOOLEAN]
        /\ writes' \in [Runtimes -> 0..MaxHookIndex]
    BY <1>1, <1>2, <2>1, <2>2 DEF Renamed, HookInv, HookTypes
  <2>4. flock' \in [Runtimes -> Hooks \union {None}]
    BY <1>1 DEF Unlocked, HookInv, HookTypes
  <2>5. NewFile \in Files
    BY DEF NewFile, Files, States, HookBounds
  <2>6. HookTypes'
    BY <1>2, <2>3, <2>4, <2>5 DEF HookInv, HookTypes, HookPhases, Resting
  <2>7. /\ hook'[h] \in {Resting, [Resting EXCEPT !.pc = "cleaning"]}
        /\ \A g \in Hooks \ {h} : hook'[g] = hook[g]
    BY <1>2 DEF HookInv, HookTypes
  <2>. QED
    BY <1>1, <1>2, <2>6, <2>7, RenameStep
<1>3. CASE WriteFile(h)
  BY <1>2, <1>3 DEF WriteFile, HookInv, HookTypes
<1>4. CASE WriteFails(h)
  <2>1. hookFaults' \in 0..MaxHookFaults /\ hook' = [hook EXCEPT ![h] = Resting]
    BY <1>4 DEF WriteFails, HookInv, HookTypes, HookBounds
  <2>2. CASE Renamed(h)
    BY <1>2, <2>1, <2>2
  <2>3. CASE UNCHANGED <<file, aged, writes>>
    BY <1>1, <2>1, <2>3, RestStep DEF IndexRises
  <2>. QED
    BY <1>4, <2>2, <2>3 DEF WriteFails
<1>. QED
  BY <1>3, <1>4

\* Every step keeps the invariant and lets the indices rise.
LEMMA HookNextInv ==
  ASSUME HookBounds, HookInv, [HookNext]_hookVars PROVE HookInv' /\ [IndexRises]_hookVars
<1>1. ASSUME NEW h \in Hooks, Hook(h) PROVE HookInv' /\ IndexRises
  BY <1>1, HookStep DEF Hook, IndexRises
<1>2. ASSUME NEW h \in Hooks, AcquireTmuxLock(h) PROVE HookInv' /\ IndexRises
  BY <1>2, AcquireStep DEF AcquireTmuxLock, IndexRises
<1>3. ASSUME NEW h \in Hooks, ReadFile(h) PROVE HookInv' /\ IndexRises
  BY <1>3, ReadStep DEF ReadFile, IndexRises
<1>4. ASSUME NEW h \in Hooks, WriteFile(h) \/ WriteFails(h) PROVE HookInv' /\ IndexRises
  BY <1>4, WriteStep
<1>5. ASSUME NEW h \in Hooks, RemoveFile(h) PROVE HookInv' /\ IndexRises
  BY <1>5, RemoveStep
<1>6. ASSUME NEW h \in Hooks, FinishHook(h) \/ Killed(h) PROVE HookInv' /\ IndexRises
  <2>1. /\ flock' \in {flock, Unlocked(h)} /\ hook' = [hook EXCEPT ![h] = Resting]
        /\ UNCHANGED <<file, aged, writes>> /\ hookFaults' \in 0..MaxHookFaults
    BY <1>6 DEF FinishHook, Killed, HookInv, HookTypes, HookBounds
  <2>. QED
    BY <2>1, RestStep DEF IndexRises
<1>7. ASSUME NEW h \in Hooks, NEW r \in Runtimes, InspectFile(h, r)
      PROVE  HookInv' /\ IndexRises
  <2>1. HookTypes'
    <3>1. [hook[h] EXCEPT !.pc = "removing", !.victim = r] \in
             [pc : HookPhases, state : States \union {None}, read : Files, victim : Runtimes \union {None}]
      BY ZenonT(30) DEF HookInv, HookTypes, HookPhases
    <3>. QED
      BY <1>7, <3>1 DEF InspectFile, HookInv, HookTypes
  <2>2. /\ hook'[h].pc = "removing" /\ hook'[h].victim \in Runtimes
        /\ \A g \in Hooks \ {h} : hook'[g] = hook[g]
    BY <1>7 DEF InspectFile, HookInv, HookTypes
  <2>. QED
    BY <1>7, <2>1, <2>2, HookOnly DEF InspectFile, IndexRises
<1>8. ASSUME NEW r \in Runtimes, WeekPasses(r) PROVE HookInv' /\ IndexRises
  BY <1>8 DEF WeekPasses, IndexRises, HookInv, HookTypes, LockHeld, ReadIsCurrent,
       FilesAreValid, NoReportLost, ValidFile
<1>9. CASE UNCHANGED hookVars
  BY <1>9 DEF hookVars, HookInv, HookTypes, LockHeld, ReadIsCurrent, FilesAreValid,
       NoReportLost, ValidFile
<1>. QED
  BY <1>1, <1>2, <1>3, <1>4, <1>5, <1>6, <1>7, <1>8, <1>9 DEF HookNext

-----------------------------------------------------------------------------
(* The theorems                                                            *)

\* No file is there, and every hook is idle.
LEMMA HookInitInv == ASSUME HookBounds, HookInit PROVE HookInv
<1>1. NewFile \in Files
  BY DEF NewFile, Files, States, HookBounds
<1>2. HookTypes
  BY <1>1 DEF HookInit, HookTypes, Resting, HookPhases, HookBounds
<1>. QED
  BY <1>2 DEF HookInit, HookInv, LockHeld, ReadIsCurrent, FilesAreValid, NoReportLost,
       Resting

\* The invariant of the proofs says what the runs check.
LEMMA HookInvSafe == ASSUME HookBounds, HookInv PROVE HookFilesSafe
<1>1. \A r \in Runtimes : file[r] # None =>
        file[r].records \in Seq(HookRecords) /\ Len(file[r].records) <= MaxRecords
  BY DEF HookInv, FilesAreValid, ValidFile
<1>2. HookTypeOK
  BY <1>1 DEF HookInv, HookTypes, HookTypeOK, HookPhases
<1>. QED
  BY <1>2 DEF HookInv, HookFilesSafe

\* The files are valid and count every write, however many hooks report at once, are
\* killed or fail, and whatever a cleanup removes between their read and their write.
THEOREM HookFilesHold == ASSUME HookBounds PROVE HookSpec => []HookFilesSafe
<1>1. HookInit => HookInv
  BY HookInitInv
<1>2. HookInv /\ [HookNext]_hookVars => HookInv'
  BY HookNextInv
<1>3. HookInv => HookFilesSafe
  BY HookInvSafe
<1>. QED
  BY <1>1, <1>2, <1>3, PTL DEF HookSpec

\* While the file of a runtime exists, every report raises its index by exactly one.
THEOREM IndicesRise == ASSUME HookBounds PROVE HookSpec => [][IndexRises]_hookVars
<1>1. HookInit => HookInv
  BY HookInitInv
<1>2. HookInv /\ [HookNext]_hookVars => HookInv' /\ [IndexRises]_hookVars
  BY HookNextInv
<1>. QED
  BY <1>1, <1>2, PTL DEF HookSpec

-----------------------------------------------------------------------------
(* The installation of the hook: the invariant                             *)

\* The lock is that of the installer whose name is in it ...
LockBelongs == \A p \in alive \ evicted : installer[p].pc \in Locked => owner = p

\* ... and until it has written its name, nobody else's is there, but for one that
\* has lost its own lock; there is one such installer at a time.
DirIsNew ==
  \A p \in alive \ evicted : installer[p].pc = "owning" =>
    dir /\ owner \in evicted \union {NoInstaller}
OneMaker ==
  \A p, q \in alive \ evicted :
    installer[p].pc = "owning" /\ installer[q].pc = "owning" => p = q

\* What an installer has put in place is there while it holds the lock, and if it could
\* read the record it did not begin with an older component than that one.
PlacedIsThere ==
  evicted = {} => \A p \in alive :
    /\ installer[p].pc \in {"placed", "merging", "merged", "recorded"} => binary = Version[p]
    /\ installer[p].pc \in {"merged", "recorded"} => hooks.ours
    /\ installer[p].pc = "recorded" => config = Version[p]
    /\ installer[p].pc \in {"checked", "placed", "merging", "merged"} /\ p \notin unread
         => config <= Version[p]

\* What an installer has read lacks only handlers that were saved since.
ReadIsRecent ==
  \A p \in alive : installer[p].pc = "merging" => added \subseteq installer[p].read \union overwritten

LockInv    == LockBelongs /\ DirIsNew /\ OneMaker
FilesInv   == PlacedIsThere /\ ReadIsRecent /\ UserHandlersKept
InstallInv == InstallTypeOK /\ LockInv /\ FilesInv

\* A step of one installer moves that one alone.
Stepped(p, x) ==
  /\ installer' \in [Installers -> [pc : InstallPhases, read : SUBSET Handlers]]
  /\ installer'[p].pc = x
  /\ \A q \in Installers \ {p} : installer'[q] = installer[q]

LEMMA GotoSteps ==
  ASSUME InstallTypeOK, NEW p \in Installers, NEW x \in InstallPhases, Goto(p, x)
  PROVE  Stepped(p, x) /\ installer'[p].read = installer[p].read
<1>1. installer \in [Installers -> [pc : InstallPhases, read : SUBSET Handlers]]
  BY DEF InstallTypeOK
<1>2. installer' = [installer EXCEPT ![p] = [installer[p] EXCEPT !.pc = x]]
  BY DEF Goto
<1>3. [installer[p] EXCEPT !.pc = x] \in [pc : InstallPhases, read : SUBSET Handlers]
  BY <1>1
<1>4. [installer[p] EXCEPT !.pc = x].pc = x /\ [installer[p] EXCEPT !.pc = x].read = installer[p].read
  BY <1>1
<1>. QED  BY <1>1, <1>2, <1>3, <1>4 DEF Stepped

\* Steps that leave the lock alone and neither take it nor begin to.
LEMMA LockKept ==
  ASSUME InstallTypeOK, LockInv, NEW p \in Installers, NEW x, Stepped(p, x), UNCHANGED <<lockVars, alive>>,
         x # "owning", x \in Locked => installer[p].pc \in Locked
  PROVE  LockInv'
<1>. USE DEF lockVars
<1>1. \A q \in alive : q \in Installers
  BY DEF InstallTypeOK
<1>2. LockBelongs'
  BY <1>1 DEF LockInv, LockBelongs, Stepped
<1>3. DirIsNew'
  BY <1>1 DEF LockInv, DirIsNew, Stepped
<1>4. OneMaker'
  BY <1>1 DEF LockInv, OneMaker, Stepped
<1>. QED  BY <1>2, <1>3, <1>4 DEF LockInv

\* Removing the directory takes it from the installer that has just made it.
LEMMA RemoveDirKeeps ==
  ASSUME InstallTypeOK, LockInv, NEW p \in Installers, NEW x, Stepped(p, x), RemoveDir(p),
         UNCHANGED <<owner, alive>>, x \notin Locked, x # "owning"
  PROVE  LockInv'
<1>1. \A q \in alive : q \in Installers
  BY DEF InstallTypeOK
<1>2. evicted \subseteq evicted'
  BY DEF RemoveDir
<1>3. LockBelongs'
  BY <1>1, <1>2 DEF LockInv, LockBelongs, Stepped
<1>4. ASSUME NEW q \in alive \ evicted', installer'[q].pc = "owning"
      PROVE  dir' /\ owner' \in evicted' \union {NoInstaller}
  <2>1. q \in alive \ evicted /\ q # p /\ installer[q].pc = "owning"
    BY <1>1, <1>2, <1>4 DEF Stepped
  <2>2. dir /\ owner \in evicted \union {NoInstaller}
    BY <2>1 DEF LockInv, DirIsNew
  <2>3. ~(dir /\ owner = NoInstaller)
    BY <2>1, <1>4 DEF RemoveDir
  <2>. QED  BY <1>2, <2>2, <2>3 DEF RemoveDir
<1>5. DirIsNew'
  BY <1>4 DEF DirIsNew
<1>6. OneMaker'
  BY <1>1, <1>2 DEF LockInv, OneMaker, Stepped
<1>. QED  BY <1>3, <1>5, <1>6 DEF LockInv

\* Steps that leave the files alone and go to a phase that says nothing about them.
Silent == InstallPhases \ {"checked", "placed", "merging", "merged", "recorded"}

LEMMA FilesKept ==
  ASSUME InstallTypeOK, FilesInv, NEW p \in Installers, NEW x \in Silent, Stepped(p, x),
         UNCHANGED insideVars, evicted \subseteq evicted', alive' \subseteq alive
  PROVE  FilesInv'
<1>. USE DEF fileVars, insideVars
<1>1. \A q \in alive : q \in Installers
  BY DEF InstallTypeOK
<1>2. ASSUME NEW q \in alive',
             installer'[q].pc \in {"checked", "placed", "merging", "merged", "recorded"}
      PROVE  q \in alive /\ installer'[q] = installer[q]
  BY <1>1, <1>2 DEF Stepped, Silent
<1>3. PlacedIsThere'
  BY <1>2 DEF FilesInv, PlacedIsThere
<1>4. ReadIsRecent'
  BY <1>2 DEF FilesInv, ReadIsRecent
<1>5. UserHandlersKept'
  BY DEF FilesInv, UserHandlersKept
<1>. QED  BY <1>3, <1>4, <1>5 DEF FilesInv

\* While no lock was lost, the one that holds it is alone.
LEMMA Alone ==
  ASSUME InstallTypeOK, LockInv, evicted = {}, NEW p \in alive, installer[p].pc \in Locked,
         NEW q \in alive, installer[q].pc \in Locked
  PROVE  p = q
BY DEF LockInv, LockBelongs

-----------------------------------------------------------------------------
(* The steps on the lock                                                   *)

LEMMA MakeLockKeeps ==
  ASSUME InstallBounds, InstallInv, NEW p \in Installers, MakeLock(p)
  PROVE  LockInv' /\ FilesInv'
<1>. USE DEF InstallInv
<1>1. Stepped(p, "owning")
  BY GotoSteps DEF MakeLock, InstallPhases
<1>2. \A q \in alive : q \in Installers
  BY DEF InstallTypeOK
<1>3. owner = NoInstaller /\ NoInstaller \notin Installers
  BY DEF InstallTypeOK, MakeLock, InstallBounds
<1>4. \A q \in alive \ evicted : installer[q].pc \notin Locked /\ installer[q].pc # "owning"
  BY <1>2, <1>3 DEF LockInv, LockBelongs, DirIsNew, MakeLock
<1>5. LockInv'
  BY <1>1, <1>2, <1>4 DEF LockInv, LockBelongs, DirIsNew, OneMaker, Stepped, MakeLock, Locked
<1>6. FilesInv'
  BY <1>1, FilesKept DEF MakeLock, Silent, InstallPhases
<1>. QED  BY <1>5, <1>6

LEMMA NameOwnerKeeps ==
  ASSUME InstallBounds, InstallInv, NEW p \in Installers, NameOwner(p)
  PROVE  LockInv' /\ FilesInv'
<1>. USE DEF InstallInv
<1>1. \A q \in alive : q \in Installers
  BY DEF InstallTypeOK
<1>2. p \in alive /\ installer[p].pc = "owning" /\ UNCHANGED <<alive, insideVars>>
  BY DEF NameOwner, At
<1>3. PICK x \in {"locked", "failed"} : Goto(p, x)
  BY DEF NameOwner
<1>4. Stepped(p, x)
  BY <1>3, GotoSteps DEF InstallPhases, OutOfLock, Locked
<1>5. evicted \subseteq evicted'
  BY DEF NameOwner, RemoveDir, lockVars
<1>6. FilesInv'
  BY <1>2, <1>4, <1>5, FilesKept DEF Silent, InstallPhases, OutOfLock, Locked
<1>7. CASE /\ dir /\ owner' = p /\ UNCHANGED dir
           /\ evicted' = IF p \in evicted THEN evicted \union ({owner} \intersect alive) ELSE evicted
           /\ Goto(p, "locked")
  <2>1. Stepped(p, "locked")
    BY <1>7, GotoSteps DEF InstallPhases, OutOfLock, Locked
  <2>2. ASSUME NEW q \in alive \ evicted', q # p
        PROVE  installer'[q] = installer[q] /\ installer[q].pc \notin Locked
    <3>1. q \in alive \ evicted /\ q \in Installers /\ installer'[q] = installer[q]
      BY <1>1, <1>5, <2>1, <2>2 DEF Stepped
    <3>2. CASE p \in evicted
      BY <1>7, <2>2, <3>1, <3>2 DEF LockInv, LockBelongs
    <3>3. CASE p \notin evicted
      BY <1>2, <3>1, <3>3 DEF LockInv, LockBelongs, DirIsNew, InstallBounds
    <3>. QED  BY <3>1, <3>2, <3>3
  <2>3. LockBelongs'
    BY <1>2, <1>7, <2>2 DEF LockBelongs
  <2>4. ASSUME NEW q \in alive \ evicted', installer'[q].pc = "owning"
        PROVE  q \in alive \ evicted /\ q # p /\ installer[q].pc = "owning" /\ p \in evicted
    BY <1>1, <1>2, <1>5, <2>1, <2>2, <2>4 DEF Stepped, LockInv, OneMaker
  <2>5. DirIsNew'
    BY <1>2, <1>5, <1>7, <2>4 DEF DirIsNew
  <2>6. OneMaker'
    BY <1>2, <2>4 DEF LockInv, OneMaker
  <2>. QED  BY <1>6, <2>3, <2>5, <2>6 DEF LockInv
<1>8. CASE Goto(p, "failed") /\ UNCHANGED lockVars
  <2>1. Stepped(p, "failed")
    BY <1>8, GotoSteps DEF InstallPhases, OutOfLock
  <2>. QED  BY <1>2, <1>6, <1>8, <2>1, LockKept DEF Locked
<1>9. CASE Goto(p, "failed") /\ RemoveDir(p) /\ UNCHANGED owner
  <2>1. Stepped(p, "failed")
    BY <1>9, GotoSteps DEF InstallPhases, OutOfLock
  <2>. QED  BY <1>2, <1>6, <1>9, <2>1, RemoveDirKeeps DEF Locked
<1>. QED  BY <1>7, <1>8, <1>9 DEF NameOwner

\* Whose owner file is removed loses the lock, unless it is one's own.
LEMMA RemovesOwnerKeeps ==
  ASSUME InstallBounds, InstallInv, NEW p \in Installers, RemoveOwner(p) \/ ReleaseOwner(p)
  PROVE  LockInv' /\ FilesInv'
<1>. USE DEF InstallInv
<1>1. PICK x \in {"clearing", "releasing"} : Goto(p, x)
  BY DEF RemoveOwner, ReleaseOwner
<1>2. Stepped(p, x)
  BY <1>1, GotoSteps DEF InstallPhases, OutOfLock
<1>3. \A q \in alive : q \in Installers
  BY DEF InstallTypeOK
<1>4. /\ owner' = NoInstaller /\ evicted \subseteq evicted'
      /\ ({owner} \ {p}) \intersect alive \subseteq evicted'
      /\ UNCHANGED <<dir, alive, insideVars>>
  BY DEF RemoveOwner, ReleaseOwner
<1>5. ASSUME NEW q \in alive \ evicted', q # p
      PROVE  /\ q \in alive \ evicted /\ installer'[q] = installer[q]
             /\ installer[q].pc \notin Locked
  BY <1>2, <1>3, <1>4, <1>5 DEF LockInv, LockBelongs, Stepped
<1>6. installer'[p].pc \notin Locked /\ installer'[p].pc # "owning"
  BY <1>1, <1>2 DEF Stepped, Locked
<1>7. LockBelongs'
  BY <1>4, <1>5, <1>6 DEF LockBelongs
<1>8. DirIsNew'
  BY <1>4, <1>5, <1>6 DEF LockInv, DirIsNew
<1>9. OneMaker'
  BY <1>4, <1>5, <1>6 DEF LockInv, OneMaker
<1>10. FilesInv'
  BY <1>1, <1>2, <1>4, FilesKept DEF Silent, InstallPhases, OutOfLock
<1>. QED  BY <1>7, <1>8, <1>9, <1>10 DEF LockInv

LEMMA RemovesDirKeeps ==
  ASSUME InstallBounds, InstallInv, NEW p \in Installers, RemoveLock(p) \/ ReleaseLock(p)
  PROVE  LockInv' /\ FilesInv'
<1>. USE DEF InstallInv
<1>1. PICK x \in {"waiting", "done"} : Goto(p, x)
  BY DEF RemoveLock, ReleaseLock
<1>2. Stepped(p, x)
  BY <1>1, GotoSteps DEF InstallPhases, OutOfLock
<1>3. RemoveDir(p) /\ UNCHANGED <<owner, alive, insideVars>> /\ evicted \subseteq evicted'
  BY DEF RemoveLock, ReleaseLock, RemoveDir
<1>4. LockInv'
  BY <1>2, <1>3, RemoveDirKeeps DEF Locked
<1>5. FilesInv'
  BY <1>2, <1>3, FilesKept DEF Silent, InstallPhases, OutOfLock
<1>. QED  BY <1>4, <1>5

\* Waiting, looking at an old lock or at the owner, giving up, and failing under the lock.
LEMMA OutsideKeeps ==
  ASSUME InstallBounds, InstallInv, NEW p \in Installers,
         \/ BeginInstall(p) \/ SeeOldLock(p) \/ JudgeOwner(p) \/ LockTimeout(p)
         \/ StepFails(p) \/ CheckOwner(p)
  PROVE  LockInv' /\ FilesInv'
<1>. USE DEF InstallInv
<1>1. PICK x \in {"waiting", "judging", "breaking", "failed", "refused", "leaving", "done"} :
         Goto(p, x) /\ (x \in Locked => installer[p].pc \in Locked)
  BY DEF BeginInstall, SeeOldLock, JudgeOwner, LockTimeout, StepFails, CheckOwner, Locked
<1>2. Stepped(p, x)
  BY <1>1, GotoSteps DEF InstallPhases, OutOfLock, Locked
<1>3. UNCHANGED <<lockVars, alive, insideVars>>
  BY DEF BeginInstall, SeeOldLock, JudgeOwner, LockTimeout, StepFails, CheckOwner
<1>4. LockInv'
  BY <1>1, <1>2, <1>3, LockKept
<1>5. FilesInv'
  BY <1>2, <1>3, FilesKept DEF Silent, InstallPhases, OutOfLock, Locked, lockVars
<1>. QED  BY <1>4, <1>5

-----------------------------------------------------------------------------
(* The steps under the lock                                                *)

\* What such a step needs from the state before it.
LEMMA UnderLock ==
  ASSUME InstallBounds, InstallInv, NEW p \in Installers, NEW x \in Locked, Stepped(p, x),
         p \in alive, installer[p].pc \in Locked, UNCHANGED <<lockVars, alive>>
  PROVE  /\ LockInv'
         /\ \A q \in alive : q \in Installers
         /\ evicted' = {} => \A q \in alive \ {p} : installer'[q].pc \notin Locked
<1>. USE DEF InstallInv
<1>1. \A q \in alive : q \in Installers
  BY DEF InstallTypeOK
<1>2. LockInv'
  BY LockKept DEF Locked
<1>3. evicted' = {} => \A q \in alive \ {p} : installer'[q].pc \notin Locked
  BY <1>1, Alone DEF Stepped, lockVars
<1>. QED  BY <1>1, <1>2, <1>3

LEMMA InsideKeeps ==
  ASSUME InstallBounds, InstallInv, NEW p \in Installers,
         CheckVersion(p) \/ InstallBinary(p) \/ ReadHooks(p) \/ InstallHooks(p) \/ WriteComponentConfig(p)
  PROVE  LockInv' /\ FilesInv'
<1>. USE DEF InstallInv
<1>0. installer \in [Installers -> [pc : InstallPhases, read : SUBSET Handlers]]
  BY DEF InstallTypeOK
<1>1. ASSUME CheckVersion(p)  PROVE LockInv' /\ FilesInv'
  <2>1. PICK x \in {"refused", "checked"} :
          /\ Goto(p, x) /\ x \in Locked
          /\ x = "checked" /\ p \notin unread' => ~(config > Version[p])
    BY <1>1 DEF CheckVersion, RecordUnreadable, Locked
  <2>2. Stepped(p, x)
    BY <2>1, GotoSteps DEF InstallPhases
  <2>3. /\ p \in alive /\ installer[p].pc \in Locked /\ UNCHANGED <<lockVars, alive, fileVars>>
        /\ unread \subseteq unread'
    BY <1>1 DEF CheckVersion, RecordUnreadable, At, Locked
  <2>4. /\ LockInv' /\ \A q \in alive : q \in Installers
        /\ evicted' = {} => \A q \in alive \ {p} : installer'[q].pc \notin Locked
    BY <2>1, <2>2, <2>3, UnderLock
  <2>5. /\ config \in Nat /\ Version[p] \in Nat
        /\ x = "checked" /\ p \notin unread' => config <= Version[p]
    BY <2>1 DEF InstallTypeOK, InstallBounds
  <2>6. PlacedIsThere'
    BY <2>2, <2>3, <2>4, <2>5 DEF PlacedIsThere, Stepped, Locked, fileVars
  <2>7. ReadIsRecent'
    BY <2>1, <2>2, <2>3, <2>4 DEF FilesInv, ReadIsRecent, Stepped, fileVars
  <2>8. UserHandlersKept'
    BY <2>3 DEF FilesInv, UserHandlersKept, fileVars
  <2>. QED  BY <2>4, <2>6, <2>7, <2>8 DEF FilesInv
<1>2. ASSUME InstallBinary(p)  PROVE LockInv' /\ FilesInv'
  <2>0. PICK x \in {"placed", "refused"} : Goto(p, x)
    BY <1>2 DEF InstallBinary, Proceed
  <2>1. Stepped(p, x)
    BY <2>0, GotoSteps DEF InstallPhases, Locked
  <2>2. /\ p \in alive /\ installer[p].pc = "checked" /\ installer[p].pc \in Locked
        /\ UNCHANGED <<lockVars, unread, alive, config, hooks, overwritten, added>> /\ binary' = Version[p]
    BY <1>2 DEF InstallBinary, At, Locked
  <2>3. /\ LockInv' /\ \A q \in alive : q \in Installers
        /\ evicted' = {} => \A q \in alive \ {p} : installer'[q].pc \notin Locked
    BY <2>0, <2>1, <2>2, UnderLock DEF Locked
  <2>4. PlacedIsThere'
    BY <2>0, <2>1, <2>2, <2>3 DEF FilesInv, PlacedIsThere, Stepped, Locked, lockVars
  <2>5. ReadIsRecent'
    BY <2>0, <2>1, <2>2, <2>3 DEF FilesInv, ReadIsRecent, Stepped
  <2>6. UserHandlersKept'
    BY <2>2 DEF FilesInv, UserHandlersKept
  <2>. QED  BY <2>3, <2>4, <2>5, <2>6 DEF FilesInv
<1>3. ASSUME ReadHooks(p)  PROVE LockInv' /\ FilesInv'
  <2>1. PICK x \in {"merging", "merged"} :
          /\ Stepped(p, x)
          /\ x = "merging" => installer'[p].read = hooks.user
          /\ x = "merged" => hooks.ours
    <3>1. CASE installer' = [installer EXCEPT ![p] = [pc |-> "merging", read |-> hooks.user]]
      <4>1. [pc |-> "merging", read |-> hooks.user] \in [pc : InstallPhases, read : SUBSET Handlers]
        BY DEF InstallTypeOK, InstallPhases, Locked
      <4>2. Stepped(p, "merging") /\ installer'[p].read = hooks.user
        BY <1>0, <3>1, <4>1 DEF Stepped
      <4>. QED  BY <4>2
    <3>2. CASE hooks.ours /\ Goto(p, "merged")
      <4>1. Stepped(p, "merged")
        BY <3>2, GotoSteps DEF InstallPhases, Locked
      <4>. QED  BY <3>2, <4>1
    <3>. QED  BY <1>3, <3>1, <3>2 DEF ReadHooks
  <2>2. /\ p \in alive /\ installer[p].pc = "placed" /\ installer[p].pc \in Locked
        /\ UNCHANGED <<lockVars, alive, unread, fileVars>>
    BY <1>3 DEF ReadHooks, At, Locked, insideVars
  <2>3. /\ LockInv' /\ \A q \in alive : q \in Installers
        /\ evicted' = {} => \A q \in alive \ {p} : installer'[q].pc \notin Locked
    BY <2>1, <2>2, UnderLock DEF Locked
  <2>4. PlacedIsThere'
    BY <2>1, <2>2, <2>3 DEF FilesInv, PlacedIsThere, Stepped, Locked, lockVars, fileVars
  <2>5. ReadIsRecent'
    BY <2>1, <2>2, <2>3 DEF FilesInv, ReadIsRecent, UserHandlersKept, Stepped, fileVars
  <2>6. UserHandlersKept'
    BY <2>2 DEF FilesInv, UserHandlersKept, fileVars
  <2>. QED  BY <2>3, <2>4, <2>5, <2>6 DEF FilesInv
<1>4. ASSUME InstallHooks(p)  PROVE LockInv' /\ FilesInv'
  <2>0. PICK x \in {"merged", "refused"} : Goto(p, x)
    BY <1>4 DEF InstallHooks, Proceed
  <2>1. Stepped(p, x)
    BY <2>0, GotoSteps DEF InstallPhases, Locked
  <2>2. /\ p \in alive /\ installer[p].pc = "merging" /\ installer[p].pc \in Locked
        /\ UNCHANGED <<lockVars, unread, alive, binary, config, overwritten, added>>
        /\ hooks'.user = installer[p].read /\ hooks'.ours = TRUE
    BY <1>4 DEF InstallHooks, Merge, At, Locked
  <2>3. /\ LockInv' /\ \A q \in alive : q \in Installers
        /\ evicted' = {} => \A q \in alive \ {p} : installer'[q].pc \notin Locked
    BY <2>0, <2>1, <2>2, UnderLock DEF Locked
  <2>4. PlacedIsThere'
    BY <2>0, <2>1, <2>2, <2>3 DEF FilesInv, PlacedIsThere, Stepped, Locked, lockVars
  <2>5. ReadIsRecent'
    BY <2>0, <2>1, <2>2, <2>3 DEF FilesInv, ReadIsRecent, Stepped
  <2>6. UserHandlersKept'
    BY <2>2 DEF FilesInv, ReadIsRecent, UserHandlersKept
  <2>. QED  BY <2>3, <2>4, <2>5, <2>6 DEF FilesInv
<1>5. ASSUME WriteComponentConfig(p)  PROVE LockInv' /\ FilesInv'
  <2>0. PICK x \in {"recorded", "refused"} : Goto(p, x)
    BY <1>5 DEF WriteComponentConfig, Proceed
  <2>1. Stepped(p, x)
    BY <2>0, GotoSteps DEF InstallPhases, Locked
  <2>2. /\ p \in alive /\ installer[p].pc = "merged" /\ installer[p].pc \in Locked
        /\ UNCHANGED <<lockVars, unread, alive, binary, hooks, overwritten, added>> /\ config' = Version[p]
    BY <1>5 DEF WriteComponentConfig, At, Locked
  <2>3. /\ LockInv' /\ \A q \in alive : q \in Installers
        /\ evicted' = {} => \A q \in alive \ {p} : installer'[q].pc \notin Locked
    BY <2>0, <2>1, <2>2, UnderLock DEF Locked
  <2>4. PlacedIsThere'
    BY <2>0, <2>1, <2>2, <2>3 DEF FilesInv, PlacedIsThere, Stepped, Locked, lockVars
  <2>5. ReadIsRecent'
    BY <2>0, <2>1, <2>2, <2>3 DEF FilesInv, ReadIsRecent, Stepped
  <2>6. UserHandlersKept'
    BY <2>2 DEF FilesInv, UserHandlersKept
  <2>. QED  BY <2>3, <2>4, <2>5, <2>6 DEF FilesInv
<1>. QED  BY <1>1, <1>2, <1>3, <1>4, <1>5

-----------------------------------------------------------------------------
(* The steps of nobody in particular                                       *)

LEMMA OthersKeep ==
  ASSUME InstallBounds, InstallInv,
         \/ \E p \in Installers : InstallerKilled(p)
         \/ TwoMinutesPass
         \/ \E f \in Handlers : UserAdds(f)
  PROVE  LockInv' /\ FilesInv'
<1>. USE DEF InstallInv
<1>1. ASSUME NEW p \in Installers, InstallerKilled(p)  PROVE LockInv' /\ FilesInv'
  BY <1>1 DEF InstallerKilled, lockVars, fileVars, insideVars, LockInv, LockBelongs, DirIsNew, OneMaker,
       FilesInv, PlacedIsThere, ReadIsRecent, UserHandlersKept
<1>2. ASSUME TwoMinutesPass  PROVE LockInv' /\ FilesInv'
  BY <1>2 DEF TwoMinutesPass, fileVars, insideVars, LockInv, LockBelongs, DirIsNew, OneMaker,
       FilesInv, PlacedIsThere, ReadIsRecent, UserHandlersKept
<1>3. ASSUME NEW f \in Handlers, UserAdds(f)  PROVE LockInv' /\ FilesInv'
  <2>1. /\ UNCHANGED <<lockVars, installer, unread, alive, binary, config>> /\ added' = added \union {f}
        /\ overwritten' = IF \E p \in alive : installer[p].pc = "merging"
                          THEN overwritten \union {f} ELSE overwritten
    BY <1>3 DEF UserAdds
  <2>2. hooks'.user = hooks.user \union {f} /\ hooks'.ours = hooks.ours
    BY <1>3 DEF UserAdds, InstallTypeOK
  <2>3. LockInv'
    BY <2>1 DEF lockVars, LockInv, LockBelongs, DirIsNew, OneMaker
  <2>4. PlacedIsThere'
    BY <2>1, <2>2 DEF FilesInv, PlacedIsThere, lockVars
  <2>5. ReadIsRecent'
    BY <2>1 DEF FilesInv, ReadIsRecent
  <2>6. UserHandlersKept'
    BY <2>1, <2>2 DEF FilesInv, UserHandlersKept
  <2>. QED  BY <2>3, <2>4, <2>5, <2>6 DEF FilesInv
<1>. QED  BY <1>1, <1>2, <1>3

-----------------------------------------------------------------------------
(* Type correctness                                                        *)

LEMMA InstallInitInv == ASSUME InstallBounds, InstallInit PROVE InstallInv
<1>1. installer \in [Installers -> [pc : InstallPhases, read : SUBSET Handlers]]
  BY DEF InstallInit, InstallPhases, OutOfLock
<1>2. \A p \in Installers : installer[p].pc = "idle"
  BY DEF InstallInit
<1>3. 0 \in 0..MaxInstallFaults
  BY DEF InstallBounds
<1>4. InstallTypeOK
  BY <1>1, <1>3 DEF InstallInit, InstallTypeOK
<1>. QED
  BY <1>2, <1>4 DEF InstallInit, InstallInv, LockInv, LockBelongs, DirIsNew, OneMaker, FilesInv,
       PlacedIsThere, ReadIsRecent, UserHandlersKept, Locked

\* The phase of the installer that steps is one of those of the program.
LEMMA InstallersTyped ==
  ASSUME InstallTypeOK, InstallNext
  PROVE  installer' \in [Installers -> [pc : InstallPhases, read : SUBSET Handlers]]
<1>0. installer \in [Installers -> [pc : InstallPhases, read : SUBSET Handlers]]
  BY DEF InstallTypeOK
<1>1. ASSUME NEW p \in Installers, NEW x \in InstallPhases, Goto(p, x)
      PROVE  installer' \in [Installers -> [pc : InstallPhases, read : SUBSET Handlers]]
  BY <1>1, GotoSteps DEF Stepped
<1>2. CASE UNCHANGED installer
  BY <1>0, <1>2
<1>3. ASSUME NEW p \in Installers,
             installer' = [installer EXCEPT ![p] = [pc |-> "merging", read |-> hooks.user]]
      PROVE  installer' \in [Installers -> [pc : InstallPhases, read : SUBSET Handlers]]
  <2>1. [pc |-> "merging", read |-> hooks.user] \in [pc : InstallPhases, read : SUBSET Handlers]
    BY DEF InstallTypeOK, InstallPhases, Locked
  <2>. QED  BY <1>0, <1>3, <2>1
<1>4. \/ UNCHANGED installer
      \/ \E p \in Installers :
           installer' = [installer EXCEPT ![p] = [pc |-> "merging", read |-> hooks.user]]
      \/ \E p \in Installers, x \in InstallPhases : Goto(p, x)
  <2>1. InstallPhases = {"idle", "waiting", "judging", "breaking", "clearing", "done", "failed", "locked",
                  "checked", "placed", "merging", "merged", "recorded", "refused", "owning", "leaving", "releasing"}
    BY DEF InstallPhases, OutOfLock, Locked
  <2>2. ASSUME NEW p \in Installers,
               \/ BeginInstall(p) \/ MakeLock(p) \/ NameOwner(p) \/ SeeOldLock(p) \/ JudgeOwner(p)
               \/ RemoveOwner(p) \/ RemoveLock(p) \/ LockTimeout(p) \/ CheckVersion(p)
        PROVE  \E x \in InstallPhases : Goto(p, x)
    BY <2>1, <2>2 DEF BeginInstall, MakeLock, NameOwner, SeeOldLock, JudgeOwner, RemoveOwner, RemoveLock,
       LockTimeout, CheckVersion
  <2>3. ASSUME NEW p \in Installers,
               \/ InstallBinary(p) \/ InstallHooks(p) \/ WriteComponentConfig(p)
               \/ StepFails(p) \/ CheckOwner(p) \/ ReleaseOwner(p) \/ ReleaseLock(p)
        PROVE  \E x \in InstallPhases : Goto(p, x)
    BY <2>1, <2>3 DEF InstallBinary, InstallHooks, WriteComponentConfig, Proceed, StepFails, CheckOwner,
       ReleaseOwner, ReleaseLock
  <2>4. ASSUME \/ \E p \in Installers : InstallerKilled(p)
               \/ TwoMinutesPass
               \/ \E f \in Handlers : UserAdds(f)
        PROVE  UNCHANGED installer
    BY <2>4 DEF InstallerKilled, TwoMinutesPass, UserAdds
  <2>5. ASSUME NEW p \in Installers, ReadHooks(p)
        PROVE  \/ installer' = [installer EXCEPT ![p] = [pc |-> "merging", read |-> hooks.user]]
               \/ \E x \in InstallPhases : Goto(p, x)
    BY <2>1, <2>5 DEF ReadHooks
  <2>. QED  BY <2>2, <2>3, <2>4, <2>5 DEF InstallNext
<1>. QED  BY <1>1, <1>2, <1>3, <1>4

\* The lock's own variables: an owner file is in a directory.
LEMMA LockTyped ==
  ASSUME InstallBounds, InstallTypeOK, InstallNext
  PROVE  /\ dir' \in BOOLEAN /\ old' \in BOOLEAN /\ owner' \in Installers \union {NoInstaller}
         /\ owner' # NoInstaller => dir'
         /\ alive' \subseteq Installers /\ evicted' \subseteq Installers
<1>. USE DEF InstallTypeOK, lockVars
<1>1. ASSUME NEW p \in Installers, MakeLock(p) \/ RemoveOwner(p) \/ RemoveLock(p)
      PROVE  /\ dir' \in BOOLEAN /\ old' \in BOOLEAN /\ owner' \in Installers \union {NoInstaller}
             /\ owner' # NoInstaller => dir'
             /\ alive' \subseteq Installers /\ evicted' \subseteq Installers
  BY <1>1 DEF MakeLock, RemoveOwner, RemoveLock, RemoveDir
<1>2. ASSUME NEW p \in Installers, ReleaseOwner(p) \/ ReleaseLock(p) \/ InstallerKilled(p)
      PROVE  /\ dir' \in BOOLEAN /\ old' \in BOOLEAN /\ owner' \in Installers \union {NoInstaller}
             /\ owner' # NoInstaller => dir'
             /\ alive' \subseteq Installers /\ evicted' \subseteq Installers
  BY <1>2 DEF ReleaseOwner, ReleaseLock, RemoveDir, InstallerKilled
<1>3. ASSUME NEW p \in Installers, NameOwner(p)
      PROVE  /\ dir' \in BOOLEAN /\ old' \in BOOLEAN /\ owner' \in Installers \union {NoInstaller}
             /\ owner' # NoInstaller => dir'
             /\ alive' \subseteq Installers /\ evicted' \subseteq Installers
  <2>1. \/ /\ dir /\ owner' = p /\ UNCHANGED <<dir, alive>> /\ old' = FALSE
           /\ evicted' \in {evicted, evicted \union ({owner} \intersect alive)}
        \/ /\ UNCHANGED <<owner, old, alive>> /\ (dir' = dir \/ (owner = NoInstaller /\ dir' = FALSE))
           /\ evicted' \in {evicted, evicted \union {q \in alive \ {p} : installer[q].pc = "owning"}}
    BY <1>3 DEF NameOwner, RemoveDir
  <2>. QED  BY <2>1
<1>4. ASSUME \/ \E p \in Installers : BeginInstall(p) \/ SeeOldLock(p) \/ JudgeOwner(p) \/ LockTimeout(p)
             \/ \E p \in Installers : CheckVersion(p) \/ InstallBinary(p) \/ ReadHooks(p) \/ InstallHooks(p)
             \/ \E p \in Installers : WriteComponentConfig(p) \/ StepFails(p) \/ CheckOwner(p)
             \/ \E f \in Handlers : UserAdds(f)
      PROVE  UNCHANGED <<lockVars, alive>>
  BY <1>4 DEF BeginInstall, SeeOldLock, JudgeOwner, LockTimeout, CheckVersion, InstallBinary, ReadHooks,
       InstallHooks, WriteComponentConfig, StepFails, CheckOwner, UserAdds
<1>5. TwoMinutesPass => old' = TRUE /\ UNCHANGED <<dir, owner, evicted, alive>>
  BY DEF TwoMinutesPass
<1>. QED  BY <1>1, <1>2, <1>3, <1>4, <1>5 DEF InstallNext

\* The files hold versions of the installers and handlers of the user.
LEMMA FilesTyped ==
  ASSUME InstallBounds, InstallTypeOK, InstallNext
  PROVE  /\ {binary', config'} \subseteq {0} \union {Version[p] : p \in Installers}
         /\ hooks' \in [user : SUBSET Handlers, ours : BOOLEAN]
         /\ overwritten' \subseteq added' /\ added' \subseteq Handlers
         /\ unread' \subseteq Installers
         /\ installFaults' \in 0..MaxInstallFaults
<1>. USE DEF InstallTypeOK, fileVars, insideVars
<1>0. ASSUME NEW p \in Installers, NEW x, Proceed(p, x)
      PROVE  installFaults' \in 0..MaxInstallFaults
  BY <1>0 DEF Proceed, InstallBounds
<1>1. ASSUME NEW p \in Installers, InstallBinary(p) \/ WriteComponentConfig(p)
      PROVE  /\ {binary', config'} \subseteq {0} \union {Version[q] : q \in Installers}
             /\ UNCHANGED <<hooks, unread, overwritten, added>> /\ installFaults' \in 0..MaxInstallFaults
  BY <1>0, <1>1 DEF InstallBinary, WriteComponentConfig
<1>2. ASSUME NEW p \in Installers, InstallHooks(p)
      PROVE  /\ hooks' \in [user : SUBSET Handlers, ours : BOOLEAN]
             /\ UNCHANGED <<binary, config, unread, overwritten, added>>
             /\ installFaults' \in 0..MaxInstallFaults
  BY <1>0, <1>2 DEF InstallHooks, Merge
<1>3. ASSUME NEW f \in Handlers, UserAdds(f)
      PROVE  /\ hooks' \in [user : SUBSET Handlers, ours : BOOLEAN]
             /\ overwritten' \subseteq added' /\ added' \subseteq Handlers
             /\ UNCHANGED <<binary, config, unread, installFaults>>
  BY <1>3 DEF UserAdds
<1>4. ASSUME NEW p \in Installers, NameOwner(p) \/ StepFails(p) \/ InstallerKilled(p) \/ CheckVersion(p)
      PROVE  /\ UNCHANGED fileVars /\ unread' \subseteq Installers
             /\ installFaults' \in 0..MaxInstallFaults
  BY <1>4 DEF NameOwner, StepFails, InstallerKilled, CheckVersion, RecordUnreadable, InstallBounds
<1>5. ASSUME \/ \E p \in Installers : BeginInstall(p) \/ MakeLock(p) \/ SeeOldLock(p) \/ JudgeOwner(p)
             \/ \E p \in Installers : RemoveOwner(p) \/ RemoveLock(p) \/ LockTimeout(p)
             \/ \E p \in Installers : ReadHooks(p) \/ CheckOwner(p) \/ ReleaseOwner(p) \/ ReleaseLock(p)
             \/ TwoMinutesPass
      PROVE  UNCHANGED <<insideVars, installFaults>>
  BY <1>5 DEF BeginInstall, MakeLock, SeeOldLock, JudgeOwner, RemoveOwner, RemoveLock, LockTimeout,
       ReadHooks, CheckOwner, ReleaseOwner, ReleaseLock, TwoMinutesPass
<1>. QED  BY <1>1, <1>2, <1>3, <1>4, <1>5 DEF InstallNext

-----------------------------------------------------------------------------
(* The theorems                                                            *)

LEMMA InstallNextInv ==
  ASSUME InstallBounds, InstallInv, [InstallNext]_installVars
  PROVE  InstallInv'
<1>1. ASSUME InstallNext  PROVE LockInv' /\ FilesInv'
  BY <1>1, MakeLockKeeps, NameOwnerKeeps, RemovesOwnerKeeps, RemovesDirKeeps,
     OutsideKeeps, InsideKeeps, OthersKeep DEF InstallNext
<1>2. ASSUME InstallNext  PROVE InstallTypeOK'
  BY <1>2, InstallersTyped, LockTyped, FilesTyped DEF InstallInv, InstallTypeOK
<1>3. CASE UNCHANGED installVars
  BY <1>3 DEF installVars, InstallInv, InstallTypeOK, LockInv, LockBelongs, DirIsNew, OneMaker, FilesInv,
     PlacedIsThere, ReadIsRecent, UserHandlersKept
<1>. QED  BY <1>1, <1>2, <1>3 DEF InstallInv

\* The installers do not disturb one another nor the user, whatever fails, is killed or
\* is taken for dead, and what they report is there.
THEOREM InstallHolds == ASSUME InstallBounds PROVE InstallSpec => []InstallSafe
<1>1. InstallInv => InstallSafe
  <2>. SUFFICES ASSUME InstallInv  PROVE InstallSafe
    OBVIOUS
  <2>. DEFINE S == {p \in alive \ evicted : installer[p].pc \in Locked}
  <2>1. \A p, q \in S : p = q
    BY DEF InstallInv, LockInv, LockBelongs
  <2>2. S = {} \/ \E p : S = {p}
    BY <2>1
  <2>. HIDE DEF S
  <2>3. Cardinality(S) \in {0, 1}
    BY <2>2, FS_EmptySet, FS_Singleton, Zenon
  <2>4. OneInstaller
    BY <2>3 DEF OneInstaller, S
  <2>5. ReportedIsInstalled
    BY DEF InstallInv, FilesInv, PlacedIsThere, ReportedIsInstalled
  <2>. QED  BY <2>4, <2>5 DEF InstallInv, FilesInv, InstallSafe
<1>2. InstallInit => InstallInv
  BY InstallInitInv
<1>3. InstallInv /\ [InstallNext]_installVars => InstallInv'
  BY InstallNextInv
<1>. QED  BY <1>1, <1>2, <1>3, PTL DEF InstallSpec

\* As long as no installer loses its lock, the recorded component gets older only by an
\* installer that could not read the record.
THEOREM ComponentRises == ASSUME InstallBounds PROVE InstallSpec => [][NeverOlder]_installVars
<1>1. InstallInv /\ [InstallNext]_installVars => [NeverOlder]_installVars
  <2>. SUFFICES ASSUME InstallInv, InstallNext, evicted = {}
                PROVE  \/ config' >= config
                       \/ \E p \in unread : installer[p].pc = "merged" /\ config' = Version[p]
    BY DEF NeverOlder
  <2>1. config \in Nat
    BY DEF InstallInv, InstallTypeOK, InstallBounds
  <2>2. ASSUME NEW p \in Installers, WriteComponentConfig(p)
        PROVE  \/ config' >= config
               \/ p \in unread /\ installer[p].pc = "merged" /\ config' = Version[p]
    <3>1. p \in alive /\ installer[p].pc = "merged" /\ config' = Version[p] /\ Version[p] \in Nat
      BY <2>2 DEF WriteComponentConfig, At, InstallBounds
    <3>. QED  BY <2>1, <3>1 DEF InstallInv, FilesInv, PlacedIsThere
  <2>3. \/ \E p \in Installers : WriteComponentConfig(p)
        \/ config' = config
    BY DEF InstallNext, fileVars, insideVars, BeginInstall, MakeLock, NameOwner, SeeOldLock, JudgeOwner,
       RemoveOwner, RemoveLock, LockTimeout, CheckVersion, InstallBinary, ReadHooks, InstallHooks, StepFails,
       CheckOwner, ReleaseOwner, ReleaseLock, InstallerKilled, TwoMinutesPass, UserAdds
  <2>. QED  BY <2>1, <2>2, <2>3
<1>2. InstallInit => InstallInv
  BY InstallInitInv
<1>3. InstallInv /\ [InstallNext]_installVars => InstallInv'
  BY InstallNextInv
<1>. QED  BY <1>1, <1>2, <1>3, PTL DEF InstallSpec
=============================================================================
