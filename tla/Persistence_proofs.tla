------------------------- MODULE Persistence_proofs --------------------------
(***************************************************************************)
(* Proofs about what must survive failing writes and crashes: the journal  *)
(* of the connection definitions, the uploads, and the message history.    *)
(*                                                                         *)
(* The invariants of the journal hold whatever fails and whoever edits the *)
(* SSH config; atomicity holds when no rollback fails, no committed journal*)
(* is written and reported as failed, and nobody else edits the SSH config:*)
(* the runs of the model checker show that each of the three is needed.    *)
(*                                                                         *)
(* For any number of uploads, files, failing writes and crashes, an upload *)
(* keeps what it needs and leaves nothing behind, its records are          *)
(* acceptable and its result is true (UploadsSafe), and a recorded result  *)
(* stands (RecordedResultStands). The argument for the result: while files *)
(* are copied one by one, those that are not to do any more are at the     *)
(* destination, and whoever writes a file after that is an upload again.   *)
(* For the record: a terminal record is the status of its job, which       *)
(* changes only once more, from a partial failure to a cancellation.       *)
(*                                                                         *)
(* The history of messages stays readable, and is paged, identified by its *)
(* revision and pushed as it should be (HistorySafe); what was read stays  *)
(* read (ReadMarksHold). The argument: every file that is saved continues  *)
(* the one it replaces: its messages are old ones in their order, but for  *)
(* a last one with the next sequence, and its revision is the next.        *)
(***************************************************************************)
EXTENDS DefinitionTransaction, FileUploads, MessageHistory, FiniteSetTheorems, TLAPS

\* WriteOptions is only reached with a write left, so the count stays natural.
OptionsLeft == stage = "options" => optionWrites \in 1..2
TypeInv == TypeOK /\ OptionsLeft

\* Every step keeps the types, whatever fails.
LEMMA TypeNext == TypeInv /\ [Next]_vars => TypeInv'
<1>. SUFFICES ASSUME TypeInv, [Next]_vars PROVE TypeInv'
  OBVIOUS
<1>1. CASE Start
  BY <1>1 DEF Start, TypeInv, OptionsLeft, TypeOK, Pairs, Journal, Stages, Purposes, disk,
         request, bounds
<1>2. CASE Recover
  BY <1>2 DEF Recover, Recovered, TypeInv, OptionsLeft, TypeOK, Pairs, Journal, Stages,
         Purposes, disk, request, bounds
<1>3. CASE UndoConfig
  BY <1>3 DEF UndoConfig, UndoTarget, TypeInv, OptionsLeft, TypeOK, Pairs, Journal,
         Stages, Purposes, disk, request, bounds
<1>4. CASE UndoConfigFails
  BY <1>4 DEF UndoConfigFails, Fail, UndoTarget, TypeInv, OptionsLeft, TypeOK, Pairs,
         Journal, Stages, Purposes, disk, request, bounds
<1>5. CASE UndoOptions
  BY <1>5 DEF UndoOptions, UndoTarget, ErrorReturn, TypeInv, OptionsLeft, TypeOK, Pairs,
         Journal, Stages, Purposes, disk, request, bounds
<1>6. CASE UndoOptionsFails
  BY <1>6 DEF UndoOptionsFails, Fail, ErrorReturn, TypeInv, OptionsLeft, TypeOK, Pairs,
         Journal, Stages, Purposes, disk, request, bounds
<1>7. CASE Discard
  BY <1>7 DEF Discard, Recovered, TypeInv, OptionsLeft, TypeOK, Pairs, Journal, Stages,
         Purposes, disk, request, bounds
<1>8. CASE DiscardFails
  BY <1>8 DEF DiscardFails, Fail, ErrorReturn, TypeInv, OptionsLeft, TypeOK, Pairs,
         Journal, Stages, Purposes, disk, request, bounds
<1>9. CASE Prepare
  BY <1>9 DEF Prepare, TypeInv, OptionsLeft, TypeOK, Pairs, Journal, Stages, Purposes,
         disk, request, bounds
<1>10. CASE PrepareFails
  BY <1>10 DEF PrepareFails, Fail, TypeInv, OptionsLeft, TypeOK, Pairs, Journal, Stages,
         Purposes, disk, request, bounds
<1>11. CASE WriteConfig
  BY <1>11 DEF WriteConfig, TypeInv, OptionsLeft, TypeOK, Pairs, Journal, Stages,
         Purposes, disk, request, bounds
<1>12. CASE RefuseConfig
  BY <1>12 DEF RefuseConfig, Abort, TypeInv, OptionsLeft, TypeOK, Pairs, Journal, Stages,
         Purposes, disk, request, bounds
<1>13. CASE WriteConfigFails
  BY <1>13 DEF WriteConfigFails, Fail, Abort, TypeInv, OptionsLeft, TypeOK, Pairs,
         Journal, Stages, Purposes, disk, request, bounds
<1>14. CASE WriteOptions
  BY <1>14 DEF WriteOptions, TypeInv, OptionsLeft, TypeOK, Pairs, Journal, Stages,
         Purposes, disk, request, bounds
<1>15. CASE RefuseOptions
  BY <1>15 DEF RefuseOptions, Abort, TypeInv, OptionsLeft, TypeOK, Pairs, Journal, Stages,
         Purposes, disk, request, bounds
<1>16. CASE Commit
  BY <1>16 DEF Commit, TypeInv, OptionsLeft, TypeOK, Pairs, Journal, Stages, Purposes,
         disk, request, bounds
<1>17. CASE CommitFails
  BY <1>17 DEF CommitFails, Fail, Abort, TypeInv, OptionsLeft, TypeOK, Pairs, Journal,
         Stages, Purposes, disk, request, bounds
<1>18. CASE Cleanup
  BY <1>18 DEF Cleanup, Fail, TypeInv, OptionsLeft, TypeOK, Pairs, Journal, Stages,
         Purposes, disk, request, bounds
<1>19. CASE Stop
  BY <1>19 DEF Stop, TypeInv, OptionsLeft, TypeOK, Pairs, Journal, Stages, Purposes, disk,
         request, bounds
<1>20. CASE Crash
  BY <1>20 DEF Crash, TypeInv, OptionsLeft, TypeOK, Pairs, Journal, Stages, Purposes,
         disk, request, bounds
<1>21. CASE ExternalEdit
  BY <1>21 DEF ExternalEdit, TypeInv, OptionsLeft, TypeOK, Pairs, Journal, Stages,
         Purposes, disk, request, bounds
<1>22. ASSUME NEW op \in Operations, Begin(op)
      PROVE  TypeInv'
  BY <1>22 DEF Begin, TypeInv, OptionsLeft, TypeOK, Pairs, Journal, Stages, Purposes,
         disk, request, bounds, OptionWrites, Operations
<1>23. CASE UNCHANGED vars
  BY <1>23 DEF TypeInv, OptionsLeft, TypeOK, Pairs, Journal, Stages, Purposes, disk,
         request, bounds, vars
<1>. QED
  BY <1>1, <1>2, <1>3, <1>4, <1>5, <1>6, <1>7, <1>8, <1>9, <1>10, <1>11, <1>12, <1>13,
         <1>14, <1>15, <1>16, <1>17, <1>18, <1>19, <1>20, <1>21, <1>22, <1>23 DEF Next,
         Undo, Mutate

\* Every variable of the transaction stays in its range.
THEOREM TypeCorrect == Spec => []TypeOK
<1>1. Init => TypeInv
  BY DEF Init, TypeInv, OptionsLeft, TypeOK, Pairs, Journal, Stages, Purposes
<1>2. TypeInv => TypeOK
  BY DEF TypeInv
<1>. QED
  BY <1>1, <1>2, TypeNext, PTL DEF Spec

-----------------------------------------------------------------------------
(* The journal, whatever fails                                             *)

\* beginTransaction never finds a journal that recovery has left.
PreparesOnce == stage = "prepare" => journal.phase = "none"

\* While a mutation writes the files, the journal can undo it.
JournalCoversWrites ==
    stage \in {"config", "options", "commit"} =>
        journal = [phase |-> "prepared", undo |-> snapshot]

CleansCommitted == stage = "cleanup" => journal.phase = "committed"

\* A rollback never recovers: it has its own transaction in memory.
RecoversForOthers == stage = "recover" => purpose # "abort"

\* Rollback from memory and recovery from the journal restore the same pair.
JournalIsMemory ==
    stage \in {"undoConfig", "undoOptions", "discard"} /\ purpose = "abort" =>
        journal.undo = snapshot

\* The SSH config is what the journal holds, or what a user has made of it.
ConfigUndone == files.config \in {journal.undo.config, accepted.config}

UndoneInOrder ==
    /\ stage = "undoOptions" /\ restoreErrors = {} => ConfigUndone
    /\ stage = "discard" /\ journal.phase = "prepared" =>
          ConfigUndone /\ files.options = journal.undo.options

JournalInv == PreparesOnce /\ JournalCoversWrites /\ CleansCommitted
              /\ RecoversForOthers /\ JournalIsMemory /\ UndoneInOrder

\* Every step keeps the invariants of the journal.
LEMMA JournalNext == TypeOK /\ JournalInv /\ [Next]_vars => JournalInv'
<1>. SUFFICES ASSUME TypeOK, JournalInv, [Next]_vars PROVE JournalInv'
  OBVIOUS
<1>1. CASE Start
  BY <1>1 DEF Start, JournalInv, PreparesOnce, JournalCoversWrites, CleansCommitted,
         RecoversForOthers, JournalIsMemory, UndoneInOrder, ConfigUndone, TypeOK, Pairs,
         Journal, Stages, Purposes, disk, request, bounds
<1>2. CASE Recover
  BY <1>2 DEF Recover, Recovered, JournalInv, PreparesOnce, JournalCoversWrites,
         CleansCommitted, RecoversForOthers, JournalIsMemory, UndoneInOrder, ConfigUndone,
         TypeOK, Pairs, Journal, Stages, Purposes, disk, request, bounds
<1>3. CASE UndoConfig
  BY <1>3 DEF UndoConfig, UndoTarget, JournalInv, PreparesOnce, JournalCoversWrites,
         CleansCommitted, RecoversForOthers, JournalIsMemory, UndoneInOrder, ConfigUndone,
         TypeOK, Pairs, Journal, Stages, Purposes, disk, request, bounds
<1>4. CASE UndoConfigFails
  BY <1>4 DEF UndoConfigFails, Fail, UndoTarget, JournalInv, PreparesOnce,
         JournalCoversWrites, CleansCommitted, RecoversForOthers, JournalIsMemory,
         UndoneInOrder, ConfigUndone, TypeOK, Pairs, Journal, Stages, Purposes, disk,
         request, bounds
<1>5. CASE UndoOptions
  BY <1>5 DEF UndoOptions, UndoTarget, ErrorReturn, JournalInv, PreparesOnce,
         JournalCoversWrites, CleansCommitted, RecoversForOthers, JournalIsMemory,
         UndoneInOrder, ConfigUndone, TypeOK, Pairs, Journal, Stages, Purposes, disk,
         request, bounds
<1>6. CASE UndoOptionsFails
  BY <1>6 DEF UndoOptionsFails, Fail, ErrorReturn, JournalInv, PreparesOnce,
         JournalCoversWrites, CleansCommitted, RecoversForOthers, JournalIsMemory,
         UndoneInOrder, ConfigUndone, TypeOK, Pairs, Journal, Stages, Purposes, disk,
         request, bounds
<1>7. CASE Discard
  BY <1>7 DEF Discard, Recovered, JournalInv, PreparesOnce, JournalCoversWrites,
         CleansCommitted, RecoversForOthers, JournalIsMemory, UndoneInOrder, ConfigUndone,
         TypeOK, Pairs, Journal, Stages, Purposes, disk, request, bounds
<1>8. CASE DiscardFails
  BY <1>8 DEF DiscardFails, Fail, ErrorReturn, JournalInv, PreparesOnce,
         JournalCoversWrites, CleansCommitted, RecoversForOthers, JournalIsMemory,
         UndoneInOrder, ConfigUndone, TypeOK, Pairs, Journal, Stages, Purposes, disk,
         request, bounds
<1>9. CASE Prepare
  BY <1>9 DEF Prepare, JournalInv, PreparesOnce, JournalCoversWrites, CleansCommitted,
         RecoversForOthers, JournalIsMemory, UndoneInOrder, ConfigUndone, TypeOK, Pairs,
         Journal, Stages, Purposes, disk, request, bounds
<1>10. CASE PrepareFails
  BY <1>10 DEF PrepareFails, Fail, JournalInv, PreparesOnce, JournalCoversWrites,
         CleansCommitted, RecoversForOthers, JournalIsMemory, UndoneInOrder, ConfigUndone,
         TypeOK, Pairs, Journal, Stages, Purposes, disk, request, bounds
<1>11. CASE WriteConfig
  BY <1>11 DEF WriteConfig, JournalInv, PreparesOnce, JournalCoversWrites,
         CleansCommitted, RecoversForOthers, JournalIsMemory, UndoneInOrder, ConfigUndone,
         TypeOK, Pairs, Journal, Stages, Purposes, disk, request, bounds
<1>12. CASE RefuseConfig
  BY <1>12 DEF RefuseConfig, Abort, JournalInv, PreparesOnce, JournalCoversWrites,
         CleansCommitted, RecoversForOthers, JournalIsMemory, UndoneInOrder, ConfigUndone,
         TypeOK, Pairs, Journal, Stages, Purposes, disk, request, bounds
<1>13. CASE WriteConfigFails
  BY <1>13 DEF WriteConfigFails, Fail, Abort, JournalInv, PreparesOnce,
         JournalCoversWrites, CleansCommitted, RecoversForOthers, JournalIsMemory,
         UndoneInOrder, ConfigUndone, TypeOK, Pairs, Journal, Stages, Purposes, disk,
         request, bounds
<1>14. CASE WriteOptions
  BY <1>14 DEF WriteOptions, JournalInv, PreparesOnce, JournalCoversWrites,
         CleansCommitted, RecoversForOthers, JournalIsMemory, UndoneInOrder, ConfigUndone,
         TypeOK, Pairs, Journal, Stages, Purposes, disk, request, bounds
<1>15. CASE RefuseOptions
  BY <1>15 DEF RefuseOptions, Abort, JournalInv, PreparesOnce, JournalCoversWrites,
         CleansCommitted, RecoversForOthers, JournalIsMemory, UndoneInOrder, ConfigUndone,
         TypeOK, Pairs, Journal, Stages, Purposes, disk, request, bounds
<1>16. CASE Commit
  BY <1>16 DEF Commit, JournalInv, PreparesOnce, JournalCoversWrites, CleansCommitted,
         RecoversForOthers, JournalIsMemory, UndoneInOrder, ConfigUndone, TypeOK, Pairs,
         Journal, Stages, Purposes, disk, request, bounds
<1>17. CASE CommitFails
  BY <1>17 DEF CommitFails, Fail, Abort, JournalInv, PreparesOnce, JournalCoversWrites,
         CleansCommitted, RecoversForOthers, JournalIsMemory, UndoneInOrder, ConfigUndone,
         TypeOK, Pairs, Journal, Stages, Purposes, disk, request, bounds
<1>18. CASE Cleanup
  BY <1>18 DEF Cleanup, Fail, JournalInv, PreparesOnce, JournalCoversWrites,
         CleansCommitted, RecoversForOthers, JournalIsMemory, UndoneInOrder, ConfigUndone,
         TypeOK, Pairs, Journal, Stages, Purposes, disk, request, bounds
<1>19. CASE Stop
  BY <1>19 DEF Stop, JournalInv, PreparesOnce, JournalCoversWrites, CleansCommitted,
         RecoversForOthers, JournalIsMemory, UndoneInOrder, ConfigUndone, TypeOK, Pairs,
         Journal, Stages, Purposes, disk, request, bounds
<1>20. CASE Crash
  BY <1>20 DEF Crash, JournalInv, PreparesOnce, JournalCoversWrites, CleansCommitted,
         RecoversForOthers, JournalIsMemory, UndoneInOrder, ConfigUndone, TypeOK, Pairs,
         Journal, Stages, Purposes, disk, request, bounds
<1>21. CASE ExternalEdit
  BY <1>21 DEF ExternalEdit, JournalInv, PreparesOnce, JournalCoversWrites,
         CleansCommitted, RecoversForOthers, JournalIsMemory, UndoneInOrder, ConfigUndone,
         TypeOK, Pairs, Journal, Stages, Purposes, disk, request, bounds
<1>22. ASSUME NEW op \in Operations, Begin(op)
      PROVE  JournalInv'
  BY <1>22 DEF Begin, JournalInv, PreparesOnce, JournalCoversWrites, CleansCommitted,
         RecoversForOthers, JournalIsMemory, UndoneInOrder, ConfigUndone, TypeOK, Pairs,
         Journal, Stages, Purposes, disk, request, bounds, OptionWrites, Operations
<1>23. CASE UNCHANGED vars
  BY <1>23 DEF JournalInv, PreparesOnce, JournalCoversWrites, CleansCommitted,
         RecoversForOthers, JournalIsMemory, UndoneInOrder, ConfigUndone, TypeOK, Pairs,
         Journal, Stages, Purposes, disk, request, bounds, vars
<1>. QED
  BY <1>1, <1>2, <1>3, <1>4, <1>5, <1>6, <1>7, <1>8, <1>9, <1>10, <1>11, <1>12, <1>13,
         <1>14, <1>15, <1>16, <1>17, <1>18, <1>19, <1>20, <1>21, <1>22, <1>23 DEF Next,
         Undo, Mutate

\* The invariants of the journal hold in every reachable state.
LEMMA JournalInvariance == Spec => [](TypeOK /\ JournalInv)
<1>1. Init => JournalInv
  BY DEF Init, JournalInv, PreparesOnce,
         JournalCoversWrites, CleansCommitted, RecoversForOthers, JournalIsMemory, UndoneInOrder
<1>. QED
  BY <1>1, TypeCorrect, JournalNext, PTL DEF Spec

\* A prepared journal that is not committed goes only when both files are what
\* it holds, or what a user has made of the SSH config.
THEOREM JournalKeptHolds == Spec => JournalKept
<1>. DEFINE Kept == journal.phase = "prepared" /\ journal' # journal /\ stage # "commit"
                      => /\ files.options = journal.undo.options
                         /\ files.config \in {journal.undo.config, accepted.config}
<1>1. TypeOK /\ JournalInv /\ [Next]_vars => [Kept]_vars
  <2>. SUFFICES ASSUME TypeOK, JournalInv, Next PROVE Kept
    OBVIOUS
  <2>1. CASE Discard \/ DiscardFails
    BY <2>1 DEF Discard, DiscardFails, JournalInv, UndoneInOrder, ConfigUndone
  <2>2. CASE Prepare \/ PrepareFails
    BY <2>2 DEF Prepare, PrepareFails, JournalInv, PreparesOnce
  <2>3. CASE Cleanup
    BY <2>3 DEF Cleanup, JournalInv, CleansCommitted
  <2>4. CASE Commit \/ CommitFails
    BY <2>4 DEF Commit, CommitFails
  <2>5. CASE Start \/ Recover \/ Stop \/ Crash \/ ExternalEdit \/ RefuseConfig
             \/ RefuseOptions \/ \E op \in Operations : Begin(op)
    BY <2>5 DEF Start, Recover, Stop, Crash, ExternalEdit, RefuseConfig, RefuseOptions,
                Begin, disk
  <2>6. CASE UndoConfig \/ UndoConfigFails \/ UndoOptions \/ UndoOptionsFails
             \/ WriteConfig \/ WriteConfigFails \/ WriteOptions
    BY <2>6 DEF UndoConfig, UndoConfigFails, UndoOptions, UndoOptionsFails,
                WriteConfig, WriteConfigFails, WriteOptions, disk
  <2>. QED
    BY <2>1, <2>2, <2>3, <2>4, <2>5, <2>6 DEF Next, Undo, Mutate
<1>. QED
  BY <1>1, JournalInvariance, PTL DEF Spec, JournalKept

-----------------------------------------------------------------------------
(* Atomicity                                                               *)

\* The conditions under which a mutation is atomic.
Sound == /\ "restore" \notin Failures /\ "commitSync" \notin Failures
         /\ ConfigWritable /\ MaxEdits = 0

\* Between mutations, and until a mutation has written its journal, the files
\* are the accepted pair; so are the snapshots that the mutation has taken.
FilesAccepted ==
    /\ stage = "idle" => files = accepted
    /\ stage \in {"recover", "undoConfig", "undoOptions", "discard", "prepare"}
       /\ purpose = "mutation" => files = accepted /\ snapshot = accepted

\* Recovery and rollback go through the files in order, and only with a
\* prepared journal.
UndoesPrepared ==
    /\ stage \in {"undoConfig", "undoOptions"} => journal.phase = "prepared"
    /\ stage = "undoOptions" => files.config = journal.undo.config
    /\ stage = "discard" /\ journal.phase = "prepared" => files = journal.undo

PurposeOfStage ==
    stage \in {"prepare", "config", "options", "commit", "cleanup"} => purpose = "mutation"

AtomicInv == /\ restoreErrors = {} /\ edits = 0
             /\ Recoverable /\ FilesAccepted /\ UndoesPrepared /\ PurposeOfStage

\* Every step keeps atomicity.
LEMMA AtomicNext ==
    Sound /\ TypeOK /\ JournalInv /\ AtomicInv /\ [Next]_vars => AtomicInv'
<1>. SUFFICES ASSUME Sound, TypeOK, JournalInv, AtomicInv, [Next]_vars PROVE AtomicInv'
  OBVIOUS
<1>1. CASE Start
  BY <1>1 DEF Start, AtomicInv, Recoverable, RecoveredPair, FilesAccepted, UndoesPrepared,
         PurposeOfStage, JournalInv, PreparesOnce, JournalCoversWrites, CleansCommitted,
         RecoversForOthers, JournalIsMemory, TypeOK, Pairs, Journal, Stages, Purposes,
         disk, request, bounds, Sound
<1>2. CASE Recover
  BY <1>2 DEF Recover, Recovered, AtomicInv, Recoverable, RecoveredPair, FilesAccepted,
         UndoesPrepared, PurposeOfStage, JournalInv, PreparesOnce, JournalCoversWrites,
         CleansCommitted, RecoversForOthers, JournalIsMemory, TypeOK, Pairs, Journal,
         Stages, Purposes, disk, request, bounds, Sound
<1>3. CASE UndoConfig
  BY <1>3 DEF UndoConfig, UndoTarget, AtomicInv, Recoverable, RecoveredPair,
         FilesAccepted, UndoesPrepared, PurposeOfStage, JournalInv, PreparesOnce,
         JournalCoversWrites, CleansCommitted, RecoversForOthers, JournalIsMemory, TypeOK,
         Pairs, Journal, Stages, Purposes, disk, request, bounds, Sound
<1>4. CASE UndoConfigFails
  BY <1>4 DEF UndoConfigFails, Fail, UndoTarget, AtomicInv, Recoverable, RecoveredPair,
         FilesAccepted, UndoesPrepared, PurposeOfStage, JournalInv, PreparesOnce,
         JournalCoversWrites, CleansCommitted, RecoversForOthers, JournalIsMemory, TypeOK,
         Pairs, Journal, Stages, Purposes, disk, request, bounds, Sound
<1>5. CASE UndoOptions
  BY <1>5 DEF UndoOptions, UndoTarget, ErrorReturn, AtomicInv, Recoverable, RecoveredPair,
         FilesAccepted, UndoesPrepared, PurposeOfStage, JournalInv, PreparesOnce,
         JournalCoversWrites, CleansCommitted, RecoversForOthers, JournalIsMemory, TypeOK,
         Pairs, Journal, Stages, Purposes, disk, request, bounds, Sound
<1>6. CASE UndoOptionsFails
  BY <1>6 DEF UndoOptionsFails, Fail, ErrorReturn, AtomicInv, Recoverable, RecoveredPair,
         FilesAccepted, UndoesPrepared, PurposeOfStage, JournalInv, PreparesOnce,
         JournalCoversWrites, CleansCommitted, RecoversForOthers, JournalIsMemory, TypeOK,
         Pairs, Journal, Stages, Purposes, disk, request, bounds, Sound
<1>7. CASE Discard
  BY <1>7 DEF Discard, Recovered, AtomicInv, Recoverable, RecoveredPair, FilesAccepted,
         UndoesPrepared, PurposeOfStage, JournalInv, PreparesOnce, JournalCoversWrites,
         CleansCommitted, RecoversForOthers, JournalIsMemory, TypeOK, Pairs, Journal,
         Stages, Purposes, disk, request, bounds, Sound
<1>8. CASE DiscardFails
  BY <1>8 DEF DiscardFails, Fail, ErrorReturn, AtomicInv, Recoverable, RecoveredPair,
         FilesAccepted, UndoesPrepared, PurposeOfStage, JournalInv, PreparesOnce,
         JournalCoversWrites, CleansCommitted, RecoversForOthers, JournalIsMemory, TypeOK,
         Pairs, Journal, Stages, Purposes, disk, request, bounds, Sound
<1>9. CASE Prepare
  BY <1>9 DEF Prepare, AtomicInv, Recoverable, RecoveredPair, FilesAccepted,
         UndoesPrepared, PurposeOfStage, JournalInv, PreparesOnce, JournalCoversWrites,
         CleansCommitted, RecoversForOthers, JournalIsMemory, TypeOK, Pairs, Journal,
         Stages, Purposes, disk, request, bounds, Sound
<1>10. CASE PrepareFails
  BY <1>10 DEF PrepareFails, Fail, AtomicInv, Recoverable, RecoveredPair, FilesAccepted,
         UndoesPrepared, PurposeOfStage, JournalInv, PreparesOnce, JournalCoversWrites,
         CleansCommitted, RecoversForOthers, JournalIsMemory, TypeOK, Pairs, Journal,
         Stages, Purposes, disk, request, bounds, Sound
<1>11. CASE WriteConfig
  BY <1>11 DEF WriteConfig, AtomicInv, Recoverable, RecoveredPair, FilesAccepted,
         UndoesPrepared, PurposeOfStage, JournalInv, PreparesOnce, JournalCoversWrites,
         CleansCommitted, RecoversForOthers, JournalIsMemory, TypeOK, Pairs, Journal,
         Stages, Purposes, disk, request, bounds, Sound
<1>12. CASE RefuseConfig
  BY <1>12 DEF RefuseConfig, Abort, AtomicInv, Recoverable, RecoveredPair, FilesAccepted,
         UndoesPrepared, PurposeOfStage, JournalInv, PreparesOnce, JournalCoversWrites,
         CleansCommitted, RecoversForOthers, JournalIsMemory, TypeOK, Pairs, Journal,
         Stages, Purposes, disk, request, bounds, Sound
<1>13. CASE WriteConfigFails
  BY <1>13 DEF WriteConfigFails, Fail, Abort, AtomicInv, Recoverable, RecoveredPair,
         FilesAccepted, UndoesPrepared, PurposeOfStage, JournalInv, PreparesOnce,
         JournalCoversWrites, CleansCommitted, RecoversForOthers, JournalIsMemory, TypeOK,
         Pairs, Journal, Stages, Purposes, disk, request, bounds, Sound
<1>14. CASE WriteOptions
  BY <1>14 DEF WriteOptions, AtomicInv, Recoverable, RecoveredPair, FilesAccepted,
         UndoesPrepared, PurposeOfStage, JournalInv, PreparesOnce, JournalCoversWrites,
         CleansCommitted, RecoversForOthers, JournalIsMemory, TypeOK, Pairs, Journal,
         Stages, Purposes, disk, request, bounds, Sound
<1>15. CASE RefuseOptions
  BY <1>15 DEF RefuseOptions, Abort, AtomicInv, Recoverable, RecoveredPair, FilesAccepted,
         UndoesPrepared, PurposeOfStage, JournalInv, PreparesOnce, JournalCoversWrites,
         CleansCommitted, RecoversForOthers, JournalIsMemory, TypeOK, Pairs, Journal,
         Stages, Purposes, disk, request, bounds, Sound
<1>16. CASE Commit
  BY <1>16 DEF Commit, AtomicInv, Recoverable, RecoveredPair, FilesAccepted,
         UndoesPrepared, PurposeOfStage, JournalInv, PreparesOnce, JournalCoversWrites,
         CleansCommitted, RecoversForOthers, JournalIsMemory, TypeOK, Pairs, Journal,
         Stages, Purposes, disk, request, bounds, Sound
<1>17. CASE CommitFails
  BY <1>17 DEF CommitFails, Fail, Abort, AtomicInv, Recoverable, RecoveredPair,
         FilesAccepted, UndoesPrepared, PurposeOfStage, JournalInv, PreparesOnce,
         JournalCoversWrites, CleansCommitted, RecoversForOthers, JournalIsMemory, TypeOK,
         Pairs, Journal, Stages, Purposes, disk, request, bounds, Sound
<1>18. CASE Cleanup
  BY <1>18 DEF Cleanup, Fail, AtomicInv, Recoverable, RecoveredPair, FilesAccepted,
         UndoesPrepared, PurposeOfStage, JournalInv, PreparesOnce, JournalCoversWrites,
         CleansCommitted, RecoversForOthers, JournalIsMemory, TypeOK, Pairs, Journal,
         Stages, Purposes, disk, request, bounds, Sound
<1>19. CASE Stop
  BY <1>19 DEF Stop, AtomicInv, Recoverable, RecoveredPair, FilesAccepted, UndoesPrepared,
         PurposeOfStage, JournalInv, PreparesOnce, JournalCoversWrites, CleansCommitted,
         RecoversForOthers, JournalIsMemory, TypeOK, Pairs, Journal, Stages, Purposes,
         disk, request, bounds, Sound
<1>20. CASE Crash
  BY <1>20 DEF Crash, AtomicInv, Recoverable, RecoveredPair, FilesAccepted,
         UndoesPrepared, PurposeOfStage, JournalInv, PreparesOnce, JournalCoversWrites,
         CleansCommitted, RecoversForOthers, JournalIsMemory, TypeOK, Pairs, Journal,
         Stages, Purposes, disk, request, bounds, Sound
<1>21. CASE ExternalEdit
  BY <1>21 DEF ExternalEdit, AtomicInv, Recoverable, RecoveredPair, FilesAccepted,
         UndoesPrepared, PurposeOfStage, JournalInv, PreparesOnce, JournalCoversWrites,
         CleansCommitted, RecoversForOthers, JournalIsMemory, TypeOK, Pairs, Journal,
         Stages, Purposes, disk, request, bounds, Sound
<1>22. ASSUME NEW op \in Operations, Begin(op)
      PROVE  AtomicInv'
  BY <1>22 DEF Begin, AtomicInv, Recoverable, RecoveredPair, FilesAccepted,
         UndoesPrepared, PurposeOfStage, JournalInv, PreparesOnce, JournalCoversWrites,
         CleansCommitted, RecoversForOthers, JournalIsMemory, TypeOK, Pairs, Journal,
         Stages, Purposes, disk, request, bounds, Sound, OptionWrites, Operations
<1>23. CASE UNCHANGED vars
  BY <1>23 DEF AtomicInv, Recoverable, RecoveredPair, FilesAccepted, UndoesPrepared,
         PurposeOfStage, JournalInv, PreparesOnce, JournalCoversWrites, CleansCommitted,
         RecoversForOthers, JournalIsMemory, TypeOK, Pairs, Journal, Stages, Purposes,
         disk, request, bounds, Sound, vars
<1>. QED
  BY <1>1, <1>2, <1>3, <1>4, <1>5, <1>6, <1>7, <1>8, <1>9, <1>10, <1>11, <1>12, <1>13,
         <1>14, <1>15, <1>16, <1>17, <1>18, <1>19, <1>20, <1>21, <1>22, <1>23 DEF Next,
         Undo, Mutate

\* Atomicity is an invariant of the sound instances.
LEMMA AtomicInvariance == ASSUME Sound PROVE Spec => [](TypeOK /\ JournalInv /\ AtomicInv)
<1>1. Init => AtomicInv
  BY DEF Init, AtomicInv, Recoverable, RecoveredPair, FilesAccepted, UndoesPrepared,
         PurposeOfStage
<1>2. TypeOK /\ JournalInv /\ AtomicInv /\ [Next]_vars => AtomicInv'
  BY AtomicNext
<1>. QED
  BY <1>1, <1>2, JournalInvariance, PTL DEF Spec

\* Wherever the process dies, what is recovered is the pair committed last.
THEOREM RecoverableHolds == ASSUME Sound PROVE Spec => []Recoverable
<1>1. AtomicInv => Recoverable
  BY DEF AtomicInv
<1>. QED
  BY <1>1, AtomicInvariance, PTL

\* Every step is a step of the atomic pair, or a stutter.
LEMMA PairStep ==
    Sound /\ TypeOK /\ JournalInv /\ AtomicInv /\ AtomicInv' /\ [Next]_vars
        => [Pair!Next]_<<RecoveredPair, IF ~InMutation THEN "none"
                           ELSE IF stage = "cleanup" THEN "taken" ELSE "open">>
<1>. SUFFICES ASSUME Sound, TypeOK, JournalInv, AtomicInv, AtomicInv', [Next]_vars
     PROVE  [Pair!Next]_<<RecoveredPair, IF ~InMutation THEN "none"
                           ELSE IF stage = "cleanup" THEN "taken" ELSE "open">>
  OBVIOUS
<1>. DEFINE Request == IF ~InMutation THEN "none"
                       ELSE IF stage = "cleanup" THEN "taken" ELSE "open"
<1>a. RecoveredPair = accepted /\ RecoveredPair' = accepted'
  BY DEF AtomicInv, Recoverable
<1>b. ASSUME accepted' = accepted, Request' = Request
      PROVE  [Pair!Next]_<<RecoveredPair, Request>>
  BY <1>a, <1>b
<1>c. ASSUME accepted' = accepted, Request' = "none"
      PROVE  [Pair!Next]_<<RecoveredPair, Request>>
  BY <1>a, <1>c DEF Pair!Next, Pair!Crash
<1>1. CASE Commit
  <2>1. Request = "open" /\ Request' = "taken"
    BY <1>1 DEF Commit, InMutation, AtomicInv, PurposeOfStage
  <2>2. accepted' \in Pairs
    BY <1>1 DEF Commit, TypeOK
  <2>. QED
    BY <1>a, <2>1, <2>2 DEF Pair!Next, Pair!TakeEffect
<1>2. CASE Start
  BY <1>2, <1>b DEF Start, InMutation, JournalInv, RecoversForOthers, AtomicInv,
         PurposeOfStage, TypeOK, Purposes
<1>3. CASE Recover
  BY <1>3, <1>b DEF Recover, Recovered, InMutation, JournalInv, RecoversForOthers,
         AtomicInv, PurposeOfStage, TypeOK, Purposes
<1>4. CASE UndoConfig
  BY <1>4, <1>b DEF UndoConfig, UndoTarget, InMutation, JournalInv, RecoversForOthers,
         AtomicInv, PurposeOfStage, TypeOK, Purposes
<1>5. CASE UndoConfigFails
  BY <1>5 DEF UndoConfigFails, Fail, UndoTarget, Sound
<1>6. CASE UndoOptions
  BY <1>6, <1>b DEF UndoOptions, UndoTarget, ErrorReturn, InMutation, JournalInv,
         RecoversForOthers, AtomicInv, PurposeOfStage, TypeOK, Purposes
<1>7. CASE UndoOptionsFails
  BY <1>7 DEF UndoOptionsFails, Fail, ErrorReturn, Sound
<1>8. CASE Discard
  BY <1>8, <1>b, <1>c DEF Discard, Recovered, InMutation, JournalInv, RecoversForOthers,
         AtomicInv, PurposeOfStage, TypeOK, Purposes
<1>9. CASE DiscardFails
  BY <1>9, <1>c DEF DiscardFails, Fail, ErrorReturn, InMutation, disk
<1>10. CASE Prepare
  BY <1>10, <1>b DEF Prepare, InMutation, JournalInv, RecoversForOthers, AtomicInv,
         PurposeOfStage, TypeOK, Purposes
<1>11. CASE PrepareFails
  BY <1>11, <1>c DEF PrepareFails, Fail, InMutation, disk
<1>12. CASE WriteConfig
  BY <1>12, <1>b DEF WriteConfig, InMutation, JournalInv, RecoversForOthers, AtomicInv,
         PurposeOfStage, TypeOK, Purposes
<1>13. CASE RefuseConfig
  BY <1>13, <1>b DEF RefuseConfig, Abort, InMutation, JournalInv, RecoversForOthers,
         AtomicInv, PurposeOfStage, TypeOK, Purposes
<1>14. CASE WriteConfigFails
  BY <1>14, <1>b DEF WriteConfigFails, Fail, Abort, InMutation, JournalInv,
         RecoversForOthers, AtomicInv, PurposeOfStage, TypeOK, Purposes
<1>15. CASE WriteOptions
  BY <1>15, <1>b DEF WriteOptions, InMutation, JournalInv, RecoversForOthers, AtomicInv,
         PurposeOfStage, TypeOK, Purposes
<1>16. CASE RefuseOptions
  BY <1>16, <1>b DEF RefuseOptions, Abort, InMutation, JournalInv, RecoversForOthers,
         AtomicInv, PurposeOfStage, TypeOK, Purposes
<1>17. CASE CommitFails
  BY <1>17, <1>b DEF CommitFails, Fail, Abort, InMutation, JournalInv, RecoversForOthers,
         AtomicInv, PurposeOfStage, TypeOK, Purposes
<1>18. CASE Cleanup
  BY <1>18, <1>c DEF Cleanup, Fail, InMutation, disk
<1>19. CASE Stop
  BY <1>19, <1>c DEF Stop, InMutation, disk
<1>20. CASE Crash
  BY <1>20, <1>c DEF Crash, InMutation, disk
<1>21. CASE ExternalEdit
  BY <1>21 DEF ExternalEdit, Sound, AtomicInv
<1>22. ASSUME NEW op \in Operations, Begin(op)
      PROVE  [Pair!Next]_<<RecoveredPair, Request>>
  <2>1. Request = "none" /\ Request' = "open" /\ accepted' = accepted
    BY <1>22 DEF Begin, InMutation
  <2>. QED
    BY <1>a, <2>1 DEF Pair!Next, Pair!Open
<1>23. CASE UNCHANGED vars
  BY <1>23, <1>b DEF vars, InMutation
<1>. QED
  BY <1>1, <1>2, <1>3, <1>4, <1>5, <1>6, <1>7, <1>8, <1>9, <1>10, <1>11, <1>12, <1>13,
         <1>14, <1>15, <1>16, <1>17, <1>18, <1>19, <1>20, <1>21, <1>22, <1>23 DEF Next,
         Undo, Mutate

\* The service implements the atomic pair.
THEOREM PairRefinement == ASSUME Sound PROVE Spec => KeepsPair
<1>1. Init => Pair!Init
  BY DEF Init, Pair!Init, RecoveredPair, InMutation
<1>2. TypeOK /\ JournalInv /\ AtomicInv /\ (TypeOK /\ JournalInv /\ AtomicInv)' /\ [Next]_vars
        => [Pair!Next]_<<RecoveredPair, IF ~InMutation THEN "none"
                           ELSE IF stage = "cleanup" THEN "taken" ELSE "open">>
  BY PairStep
<1>. QED
  BY <1>1, <1>2, AtomicInvariance, PTL DEF Spec, KeepsPair, Pair!Spec

Jobs == [step : Steps, status : Statuses, policy : Policies, sent : Nat,
         todo : SUBSET Files, failed : BOOLEAN, cancelled : BOOLEAN, lease : BOOLEAN]
Written == [status : Statuses, sent : 0..Total]

Early  == {"none", "staged", "queued", "target", "lease", "probe", "mkdir"}
Ending == {"judge", "cleanup", "done"}

\* Files are staged until the job is cleaned up, and afterwards nothing is left.
StagingSound(u) ==
    /\ job[u].step \in Steps \ {"none", "cleanup", "done"} => u \in staging
    /\ job[u].step = "done" => u \notin staging /\ ~job[u].lease

\* What was sent, and the files still to send, are no more than there are.
SentSound(u) ==
    /\ job[u].sent <= Total
    /\ job[u].step \in Early => job[u].sent = 0
    /\ job[u].step \in {"scp", "copying"} => job[u].sent + Cardinality(job[u].todo) <= Total

\* A job has its final status at its end only; before it is judged that is a partial
\* failure.
StatusSound(u) ==
    /\ job[u].status \in Terminal => job[u].step \in Ending
    /\ job[u].step = "judge" /\ job[u].status \in Terminal =>
         job[u].status = "partial-failure" /\ job[u].failed

\* A terminal record is what the job says, or the partial failure of a job that was
\* cancelled and whose last save failed.
RecordSound(u) ==
    /\ job[u].step = "staged" => records[u] = NoRecord
    /\ job[u].step # "none" /\ records[u].status \in Terminal =>
         \/ records[u] = [status |-> job[u].status, sent |-> job[u].sent]
         \/ records[u].status = "partial-failure" /\ job[u].status = "cancelled"

JobSound(u) == StagingSound(u) /\ SentSound(u) /\ StatusSound(u) /\ RecordSound(u)

\* A file is as it should be when an upload wrote it, or its newer version was to stay.
There(u, f) == present[f] \in Uploads \/ f \in Skipped(u)

\* What is not to do any more is there, and all of it when the job did not fail.
WholeSound(u) ==
    /\ job[u].step \in {"scp", "copying"} => \A f \in Files \ job[u].todo : There(u, f)
    /\ job[u].step = "judge" /\ ~job[u].failed => \A f \in Files : There(u, f)
    /\ job[u].step = "cleanup" /\ job[u].status = "completed" => \A f \in Files : There(u, f)

UploadTypes ==
    /\ job \in [Uploads -> Jobs]
    /\ records \in [Uploads -> Written \cup {NoRecord}]
    /\ staging \subseteq Uploads
    /\ present \in [Files -> Uploads \cup {Nobody, "user"}]
    /\ newer \subseteq Files
    /\ rsync \in {"unknown", "yes", "no"} /\ uploadFaults \in 0..MaxUploadFaults

UploadInv == UploadTypes /\ \A u \in Uploads : JobSound(u) /\ WholeSound(u)

\* What a step may do to the record of an upload.
RecordStep(u) ==
    records[u].status \in Terminal /\ records'[u] # records[u]
       => records[u].status = "partial-failure" /\ records'[u].status = "cancelled"

-----------------------------------------------------------------------------
(* One upload moves                                                        *)

\* The number of files is a number.
LEMMA TotalNat == ASSUME UploadBounds PROVE Total \in Nat
  BY FS_CardinalityType DEF UploadBounds, Total

\* A save writes the record, or leaves it as it is; the others' stay.
LEMMA SaveForms ==
  ASSUME UploadBounds, UploadTypes, NEW u \in Uploads, NEW status \in Statuses,
         NEW sent \in Nat, SaveUpload(u, status, sent)
  PROVE  /\ records' \in [Uploads -> Written \cup {NoRecord}]
         /\ uploadFaults' \in 0..MaxUploadFaults
         /\ records'[u] = records[u] \/ records'[u] = [status |-> status, sent |-> sent]
         /\ \A v \in Uploads \ {u} : records'[v] = records[v]
<1>1. Total \in Nat /\ MaxUploadFaults \in Nat
  BY TotalNat DEF UploadBounds
<1>2. uploadFaults' = uploadFaults \/ (uploadFaults < MaxUploadFaults /\ uploadFaults' = uploadFaults + 1)
  BY DEF SaveUpload, UploadFault
<1>3. uploadFaults' \in 0..MaxUploadFaults
  BY <1>1, <1>2 DEF UploadTypes
<1>4. CASE records' = records
  BY <1>3, <1>4 DEF UploadTypes
<1>5. CASE sent <= Total /\ records' = [records EXCEPT ![u] = [status |-> status, sent |-> sent]]
  <2>1. sent \in 0..Total
    BY <1>1, <1>5
  <2>2. [status |-> status, sent |-> sent] \in Written
    BY <2>1 DEF Written
  <2>. QED
    BY <1>3, <1>5, <2>2 DEF UploadTypes
<1>. QED
  BY <1>4, <1>5 DEF SaveUpload, Valid

\* When one upload moves, the others stay as sound as they were.
LEMMA OneMoves ==
  ASSUME NEW u \in Uploads, \A v \in Uploads : JobSound(v),
         \A v \in Uploads \ {u} : /\ job'[v] = job[v] /\ records'[v] = records[v]
                                  /\ v \in staging' <=> v \in staging,
         JobSound(u)'
  PROVE  \A v \in Uploads : JobSound(v)'
<1>. SUFFICES ASSUME NEW v \in Uploads \ {u} PROVE JobSound(v)'
  OBVIOUS
<1>1. JobSound(v)
  OBVIOUS
<1>. QED
  BY <1>1 DEF JobSound, StagingSound, SentSound, StatusSound, RecordSound

\* A step of a job that saves: what remains to be shown is about the job itself.
LEMMA SavingStep ==
  ASSUME UploadBounds, UploadTypes, \A v \in Uploads : JobSound(v), NEW u \in Uploads,
         NEW j \in Jobs, SetStatus(u, j), UNCHANGED staging,
         job[u].step \notin {"none", "staged"}, j.step \notin {"none", "staged", "done"},
         job[u].step # "cleanup", job[u].step # "done",
         j.step # "cleanup" => j.status \notin Terminal \/ j.step = "judge",
         j.sent <= Total,
         j.step \in Early => j.sent = 0,
         j.step \in {"scp", "copying"} => j.sent + Cardinality(j.todo) <= Total,
         j.step = "judge" /\ j.status \in Terminal => j.status = "partial-failure" /\ j.failed,
         job[u].status \in Terminal =>
            (j.status = job[u].status /\ j.sent = job[u].sent) \/ j.status = "cancelled"
  PROVE  /\ job' \in [Uploads -> Jobs] /\ records' \in [Uploads -> Written \cup {NoRecord}]
         /\ uploadFaults' \in 0..MaxUploadFaults
         /\ job'[u] = j /\ \A v \in Uploads \ {u} : job'[v] = job[v]
         /\ \A v \in Uploads : JobSound(v)' /\ RecordStep(v)
<1>1. /\ job' = [job EXCEPT ![u] = j] /\ SaveUpload(u, j.status, j.sent)
  BY DEF SetStatus
<1>2. /\ job' \in [Uploads -> Jobs] /\ job'[u] = j
      /\ \A v \in Uploads \ {u} : job'[v] = job[v]
  BY <1>1 DEF UploadTypes
<1>3. j.status \in Statuses /\ j.sent \in Nat /\ job[u].step \in Steps /\ j.step \in Steps
  BY DEF Jobs, UploadTypes
<1>4. /\ records' \in [Uploads -> Written \cup {NoRecord}]
      /\ uploadFaults' \in 0..MaxUploadFaults
      /\ records'[u] = records[u] \/ records'[u] = [status |-> j.status, sent |-> j.sent]
      /\ \A v \in Uploads \ {u} : records'[v] = records[v]
  BY <1>1, <1>3, SaveForms
<1>5. JobSound(u)
  OBVIOUS
<1>6. StagingSound(u)'
  BY <1>2, <1>3, <1>5 DEF JobSound, StagingSound, Steps
<1>7. SentSound(u)' /\ StatusSound(u)'
  BY <1>2 DEF SentSound, StatusSound, Ending
<1>8. job[u].status \in Terminal =>
        job[u].status = "partial-failure" \/ (j.status = job[u].status /\ j.sent = job[u].sent)
  BY <1>3, <1>5 DEF JobSound, StatusSound, Ending
<1>9. records[u].status \in Terminal =>
        /\ job[u].status \in Terminal
        /\ \/ records[u] = [status |-> job[u].status, sent |-> job[u].sent]
           \/ records[u].status = "partial-failure" /\ job[u].status = "cancelled"
  BY <1>5 DEF JobSound, RecordSound, Terminal
<1>10. RecordSound(u)'
  BY <1>2, <1>4, <1>8, <1>9 DEF RecordSound, Terminal
<1>11. RecordStep(u)
  BY <1>4, <1>8, <1>9 DEF RecordStep, Terminal
<1>12. \A v \in Uploads \ {u} : RecordStep(v)
  BY <1>4 DEF RecordStep
<1>13. JobSound(u)'
  BY <1>6, <1>7, <1>10 DEF JobSound
<1>. QED
  BY <1>2, <1>4, <1>11, <1>12, <1>13, OneMoves

\* The same for a step that saves nothing.
LEMMA QuietStep ==
  ASSUME \A v \in Uploads : JobSound(v), NEW u \in Uploads, NEW j \in Jobs,
         job \in [Uploads -> Jobs], job' = [job EXCEPT ![u] = j], UNCHANGED records,
         \A v \in Uploads \ {u} : v \in staging' <=> v \in staging,
         j.step \in Steps \ {"none", "cleanup", "done"} => u \in staging',
         j.step # "done",
         j.sent <= Total, j.step \in Early => j.sent = 0,
         j.step \in {"scp", "copying"} => j.sent + Cardinality(j.todo) <= Total,
         j.step = "judge" => (j.status = "partial-failure" /\ j.failed) \/ j.status \notin Terminal,
         j.status \in Terminal => j.step \in Ending,
         j.step = "staged" => records[u] = NoRecord,
         j.step \notin {"none", "staged"} /\ records[u].status \in Terminal =>
            job[u].step # "none" /\ j.status = job[u].status /\ j.sent = job[u].sent
  PROVE  /\ job' \in [Uploads -> Jobs] /\ job'[u] = j
         /\ \A v \in Uploads \ {u} : job'[v] = job[v]
         /\ \A v \in Uploads : JobSound(v)' /\ RecordStep(v)
<1>1. /\ job' \in [Uploads -> Jobs] /\ job'[u] = j
      /\ \A v \in Uploads \ {u} : job'[v] = job[v]
  OBVIOUS
<1>2. StagingSound(u)' /\ SentSound(u)' /\ StatusSound(u)'
  BY <1>1 DEF StagingSound, SentSound, StatusSound
<1>3. NoRecord.status \notin Terminal
  BY DEF NoRecord, Terminal
<1>4. RecordSound(u)'
  BY <1>1, <1>3 DEF JobSound, RecordSound
<1>5. JobSound(u)'
  BY <1>2, <1>4 DEF JobSound
<1>6. \A v \in Uploads : RecordStep(v)
  BY DEF RecordStep
<1>. QED
  BY <1>1, <1>5, <1>6, OneMoves

\* What `Failed' gives.
LEMMA FailedForm ==
  ASSUME NEW j \in Jobs
  PROVE  /\ Failed(j) \in Jobs /\ Failed(j).step = "cleanup" /\ Failed(j).sent = j.sent
         /\ Failed(j).status \in Terminal
         /\ j.status = "partial-failure" => Failed(j).status = j.status
  BY DEF Failed, Jobs, Steps, Statuses, Terminal

\* A write leaves what other uploads have delivered, and delivers its own files.
LEMMA WriteForms ==
  ASSUME UploadBounds, UploadTypes, NEW u \in Uploads, NEW fs \in SUBSET Files, Write(u, fs)
  PROVE  /\ present' \in [Files -> Uploads \cup {Nobody, "user"}] /\ newer' \subseteq Files
         /\ \A v \in Uploads : job'[v].policy = job[v].policy =>
              /\ \A f \in Files : There(v, f) => There(v, f)'
              /\ v = u => \A f \in fs : There(v, f)'
<1>1. /\ \A f \in Files : present'[f] = IF f \in fs \ Skipped(u) THEN u ELSE present[f]
      /\ newer' = newer \ (fs \ Skipped(u))
      /\ present' \in [Files -> Uploads \cup {Nobody, "user"}]
  BY DEF Write, UploadTypes
<1>2. ASSUME NEW v \in Uploads, job'[v].policy = job[v].policy, NEW f \in Files
      PROVE  /\ There(v, f) => There(v, f)'
             /\ v = u /\ f \in fs => There(v, f)'
  <2>1. CASE f \in fs \ Skipped(u)
    BY <1>1, <2>1 DEF There
  <2>2. CASE f \notin fs \ Skipped(u)
    <3>1. present'[f] = present[f] /\ (f \in newer' <=> f \in newer)
      BY <1>1, <2>2
    <3>2. f \in Skipped(v) => f \in Skipped(v)'
      BY <1>2, <3>1 DEF Skipped
    <3>. QED
      BY <2>2, <3>1, <3>2 DEF There
  <2>. QED
    BY <2>1, <2>2
<1>3. newer' \subseteq Files
  BY <1>1 DEF UploadTypes
<1>. QED
  BY <1>1, <1>2, <1>3

-----------------------------------------------------------------------------
(* The steps                                                               *)

Goal == UploadTypes' /\ \A v \in Uploads : JobSound(v)' /\ RecordStep(v)

\* Staging, queueing and the first steps of the goroutine.
LEMMA EarlyNext ==
  ASSUME UploadBounds, UploadTypes, \A v \in Uploads : JobSound(v), NEW u \in Uploads,
         \/ \E policy \in Policies : Stage(u, policy)
         \/ StageFails(u) \/ Queue(u) \/ Run(u) \/ ResolveTarget(u) \/ RemoteFails(u)
         \/ AcquireLease(u) \/ RsyncAvailable(u) \/ CreateDirectories(u)
  PROVE  Goal
<1>. USE DEF Goal
<1>0. /\ job[u] \in Jobs /\ JobSound(u) /\ Total \in Nat /\ MaxUploadFaults \in Nat
      /\ job \in [Uploads -> Jobs]
  BY TotalNat DEF UploadTypes, UploadBounds
<1>1. ASSUME NEW policy \in Policies, Stage(u, policy) PROVE Goal
  <2>. DEFINE j == [job[u] EXCEPT !.step = "staged", !.policy = policy]
  <2>1. /\ job' = [job EXCEPT ![u] = j] /\ records[u] = NoRecord /\ staging' = staging \cup {u}
        /\ job[u].step = "none" /\ UNCHANGED <<records, present, newer, rsync, uploadFaults>>
    BY <1>0, <1>1 DEF Stage, Jobs
  <2>2. j \in Jobs /\ j.step = "staged" /\ j.sent = 0 /\ j.status \notin Terminal
    BY <1>0, <2>1 DEF Jobs, Steps, JobSound, SentSound, StatusSound, Early, Ending
  <2>. HIDE DEF j
  <2>4. /\ \A v \in Uploads \ {u} : v \in staging' <=> v \in staging
        /\ u \in staging' /\ j.step # "done" /\ j.sent <= Total
        /\ j.step \notin {"scp", "copying"} /\ j.step # "judge"
    BY <1>0, <2>1, <2>2
  <2>3. \A v \in Uploads : JobSound(v)' /\ RecordStep(v)
    BY <1>0, <2>1, <2>2, <2>4, QuietStep
  <2>. QED
    BY <2>1, <2>2, <2>3 DEF UploadTypes
<1>2. CASE StageFails(u)
  <2>1. /\ job' = [job EXCEPT ![u] = NoJob] /\ staging' = staging \ {u}
        /\ UNCHANGED <<records, present, newer, rsync>> /\ uploadFaults' \in 0..MaxUploadFaults
    BY <1>0, <1>2 DEF StageFails, UploadFault, UploadTypes
  <2>2. NoJob \in Jobs /\ NoJob.step = "none" /\ NoJob.sent = 0 /\ NoJob.status \notin Terminal
    BY DEF NoJob, Jobs, Steps, Statuses, Policies, Terminal
  <2>4. \A v \in Uploads \ {u} : v \in staging' <=> v \in staging
    BY <2>1
  <2>. DEFINE j == NoJob
  <2>5. /\ j \in Jobs /\ j.step = "none" /\ j.sent = 0 /\ j.status \notin Terminal
        /\ job' = [job EXCEPT ![u] = j]
    BY <2>1, <2>2
  <2>6. /\ j.step \notin {"scp", "copying"} /\ j.step # "judge" /\ j.step # "staged"
        /\ j.step # "done" /\ j.sent <= Total /\ j.step \notin Steps \ {"none", "cleanup", "done"}
    BY <1>0, <2>5
  <2>. HIDE DEF j
  <2>3. \A v \in Uploads : JobSound(v)' /\ RecordStep(v)
    BY <1>0, <2>1, <2>4, <2>5, <2>6, QuietStep
  <2>. QED
    BY <2>1, <2>2, <2>3 DEF UploadTypes
<1>3. CASE Queue(u)
  <2>. DEFINE j == [job[u] EXCEPT !.step = "queued"]
  <2>1. /\ job' = [job EXCEPT ![u] = j] /\ job[u].step = "staged" /\ records[u] = NoRecord
        /\ records' = [records EXCEPT ![u] = [status |-> "queued", sent |-> 0]]
        /\ UNCHANGED <<staging, present, newer, rsync, uploadFaults>>
    BY <1>0, <1>3 DEF Queue, Jobs, JobSound, RecordSound
  <2>2. /\ j \in Jobs /\ j.step = "queued" /\ j.sent = 0 /\ j.status \notin Terminal
        /\ u \in staging
    BY <1>0, <2>1 DEF Jobs, Steps, JobSound, SentSound, StatusSound, StagingSound, Early, Ending
  <2>. HIDE DEF j
  <2>3. [status |-> "queued", sent |-> 0] \in Written
    BY <1>0 DEF Written, Statuses
  <2>4. /\ job' \in [Uploads -> Jobs] /\ job'[u] = j
        /\ \A v \in Uploads \ {u} : job'[v] = job[v]
    BY <1>0, <2>1, <2>2
  <2>5. /\ records' \in [Uploads -> Written \cup {NoRecord}]
        /\ records'[u] = [status |-> "queued", sent |-> 0]
        /\ \A v \in Uploads \ {u} : records'[v] = records[v]
    BY <2>1, <2>3 DEF UploadTypes
  <2>6. JobSound(u)'
    BY <1>0, <2>1, <2>2, <2>4, <2>5 DEF JobSound, StagingSound, SentSound, StatusSound,
       RecordSound, Steps, Early, Ending, Terminal
  <2>7. \A v \in Uploads : JobSound(v)'
    BY <2>1, <2>4, <2>5, <2>6, OneMoves
  <2>8. \A v \in Uploads : RecordStep(v)
    BY <2>1, <2>5 DEF RecordStep, NoRecord, Terminal
  <2>. QED
    BY <2>1, <2>4, <2>5, <2>7, <2>8 DEF UploadTypes
<1>4. CASE Run(u)
  <2>. DEFINE j == [job[u] EXCEPT !.step = "target", !.status = "running"]
  <2>1. /\ SetStatus(u, j) /\ job[u].step = "queued"
        /\ UNCHANGED <<staging, present, newer, rsync>>
    BY <1>4 DEF Run
  <2>2. /\ j \in Jobs /\ j.step = "target" /\ j.sent = 0 /\ j.status = "running"
        /\ job[u].status \notin Terminal
    BY <1>0, <2>1 DEF Jobs, Steps, Statuses, JobSound, SentSound, StatusSound, Early, Ending
  <2>. HIDE DEF j
  <2>3. /\ job' \in [Uploads -> Jobs] /\ records' \in [Uploads -> Written \cup {NoRecord}]
        /\ uploadFaults' \in 0..MaxUploadFaults
        /\ \A v \in Uploads : JobSound(v)' /\ RecordStep(v)
    BY <1>0, <2>1, <2>2, SavingStep DEF Terminal
  <2>. QED
    BY <2>1, <2>3 DEF UploadTypes
<1>5. ASSUME job[u].step \in {"target", "lease", "probe"}, SetStatus(u, Failed(job[u])),
             UNCHANGED <<staging, present, newer, rsync>>
      PROVE  Goal
  <2>. DEFINE j == Failed(job[u])
  <2>1. /\ j \in Jobs /\ j.step = "cleanup" /\ j.sent = 0 /\ job[u].status \notin Terminal
    BY <1>0, <1>5, FailedForm DEF JobSound, SentSound, StatusSound, Early, Ending
  <2>. HIDE DEF j
  <2>2. SetStatus(u, j)
    BY <1>5 DEF j
  <2>3. /\ job' \in [Uploads -> Jobs] /\ records' \in [Uploads -> Written \cup {NoRecord}]
        /\ uploadFaults' \in 0..MaxUploadFaults
        /\ \A v \in Uploads : JobSound(v)' /\ RecordStep(v)
    BY <1>0, <1>5, <2>1, <2>2, SavingStep
  <2>. QED
    BY <1>5, <2>3 DEF UploadTypes
<1>6. ASSUME NEW j \in Jobs, job' = [job EXCEPT ![u] = j], job[u].step \in Early \ {"none", "staged"},
             j.step \in {"lease", "probe", "scp", "judge"},
             j.status = job[u].status, j.sent = job[u].sent,
             j.step = "scp" => j.todo = Files,
             UNCHANGED <<records, staging, present, newer, rsync, uploadFaults>>
      PROVE  Goal
  <2>1. /\ j.sent = 0 /\ j.status \notin Terminal /\ u \in staging
    BY <1>0, <1>6 DEF JobSound, SentSound, StatusSound, StagingSound, Early, Ending, Steps
  <2>2. j.step \in {"scp", "copying"} => j.sent + Cardinality(j.todo) <= Total
    BY <1>0, <1>6, <2>1 DEF Total
  <2>4. /\ \A v \in Uploads \ {u} : v \in staging' <=> v \in staging
        /\ u \in staging' /\ j.step # "done" /\ j.step # "staged" /\ j.sent <= Total
        /\ job[u].step # "none"
    BY <1>0, <1>6, <2>1
  <2>3. \A v \in Uploads : JobSound(v)' /\ RecordStep(v)
    BY <1>0, <1>6, <2>1, <2>2, <2>4, QuietStep
  <2>. QED
    BY <1>0, <1>6, <2>3 DEF UploadTypes
<1>7. CASE ResolveTarget(u)
  <2>1. CASE Goto(u, "lease")
    <3>. DEFINE j == [job[u] EXCEPT !.step = "lease"]
    <3>1. job' = [job EXCEPT ![u] = j] /\ job[u].step = "target"
          /\ UNCHANGED <<records, staging, present, newer, rsync, uploadFaults>>
      BY <1>0, <1>7, <2>1 DEF ResolveTarget, Goto
    <3>2. j \in Jobs /\ j.step = "lease" /\ j.status = job[u].status /\ j.sent = job[u].sent
      BY <1>0 DEF Jobs, Steps
    <3>. QED
      BY <1>6, <3>1, <3>2 DEF Early
  <2>2. CASE SetStatus(u, Failed(job[u]))
    BY <1>5, <1>7, <2>2 DEF ResolveTarget
  <2>. QED
    BY <1>7, <2>1, <2>2 DEF ResolveTarget
<1>8. CASE RemoteFails(u)
  BY <1>5, <1>8 DEF RemoteFails
<1>9. CASE AcquireLease(u)
  <2>. DEFINE j == [job[u] EXCEPT !.step = "probe", !.lease = TRUE]
  <2>1. job' = [job EXCEPT ![u] = j] /\ job[u].step = "lease"
        /\ UNCHANGED <<records, staging, present, newer, rsync, uploadFaults>>
    BY <1>0, <1>9 DEF AcquireLease
  <2>2. j \in Jobs /\ j.step = "probe" /\ j.status = job[u].status /\ j.sent = job[u].sent
    BY <1>0 DEF Jobs, Steps
  <2>. QED
    BY <1>6, <2>1, <2>2 DEF Early
<1>10. CASE RsyncAvailable(u)
  <2>1. PICK available \in {"yes", "no", "unknown"}, step \in {"rsync", "mkdir"} :
          /\ rsync' = available /\ SetStatus(u, [job[u] EXCEPT !.step = step])
          /\ job[u].step = "probe" /\ UNCHANGED <<staging, present, newer>>
    BY <1>10 DEF RsyncAvailable, UploadTypes
  <2>. DEFINE j == [job[u] EXCEPT !.step = step]
  <2>2. /\ j \in Jobs /\ j.step = step /\ j.sent = 0 /\ j.status \notin Terminal
        /\ job[u].status = j.status
    BY <1>0, <2>1 DEF Jobs, Steps, JobSound, SentSound, StatusSound, Early, Ending
  <2>. HIDE DEF j
  <2>3. SetStatus(u, j)
    BY <2>1 DEF j
  <2>4. /\ job' \in [Uploads -> Jobs] /\ records' \in [Uploads -> Written \cup {NoRecord}]
        /\ uploadFaults' \in 0..MaxUploadFaults
        /\ \A v \in Uploads : JobSound(v)' /\ RecordStep(v)
    BY <1>0, <2>1, <2>2, <2>3, SavingStep
  <2>. QED
    BY <2>1, <2>4 DEF UploadTypes
<1>11. CASE CreateDirectories(u)
  <2>1. PICK ok \in BOOLEAN :
          /\ job' = [job EXCEPT ![u].step = IF ok THEN "scp" ELSE "judge",
                                ![u].failed = ~ok, ![u].todo = Files]
          /\ job[u].step = "mkdir"
          /\ UNCHANGED <<records, staging, present, newer, rsync, uploadFaults>>
    BY <1>11 DEF CreateDirectories
  <2>. DEFINE j == [job[u] EXCEPT !.step = IF ok THEN "scp" ELSE "judge",
                                  !.failed = ~ok, !.todo = Files]
  <2>2. job' = [job EXCEPT ![u] = j]
    BY <1>0, <2>1
  <2>3. /\ j \in Jobs /\ j.step \in {"scp", "judge"} /\ j.status = job[u].status
        /\ j.sent = job[u].sent /\ j.todo = Files
    BY <1>0, <2>1 DEF Jobs, Steps
  <2>. HIDE DEF j
  <2>. QED
    BY <1>6, <2>1, <2>2, <2>3 DEF Early
<1>. QED
  BY <1>1, <1>2, <1>3, <1>4, <1>7, <1>8, <1>9, <1>10, <1>11

\* One more file is copied: what was sent and what is left stay within the total.
LEMMA FileCounts ==
  ASSUME UploadBounds, NEW j \in Jobs, NEW f \in j.todo, j.sent + Cardinality(j.todo) <= Total
  PROVE  /\ j.sent + 1 <= Total
         /\ (j.sent + 1) + Cardinality(j.todo \ {f}) <= Total
         /\ j.sent + Cardinality(j.todo \ {f}) <= Total
<1>1. IsFiniteSet(j.todo) /\ j.sent \in Nat /\ Total \in Nat
  BY FS_Subset, TotalNat DEF UploadBounds, Jobs
<1>2. Cardinality(j.todo) \in Nat /\ Cardinality(j.todo \ {f}) = Cardinality(j.todo) - 1
  BY <1>1, FS_CardinalityType, FS_RemoveElement
<1>3. Cardinality(j.todo) # 0
  BY <1>1, FS_EmptySet
<1>. QED
  BY <1>1, <1>2, <1>3

\* Copying with rsync or scp, and the end of the goroutine.
LEMMA LateNext ==
  ASSUME UploadBounds, UploadTypes, \A v \in Uploads : JobSound(v), NEW u \in Uploads,
         \/ Progress(u) \/ RunRsync(u) \/ NextFile(u) \/ CopyFile(u) \/ CopyFails(u)
         \/ Judge(u) \/ CleanUp(u)
  PROVE  Goal
<1>. USE DEF Goal
<1>0. /\ job[u] \in Jobs /\ JobSound(u) /\ Total \in Nat /\ MaxUploadFaults \in Nat
      /\ job \in [Uploads -> Jobs] /\ job[u].sent \in Nat /\ job[u].sent <= Total
  BY TotalNat DEF UploadTypes, UploadBounds, Jobs, JobSound, SentSound
<1>1. ASSUME NEW j \in Jobs, SetStatus(u, j), UNCHANGED staging,
             job[u].step \in {"rsync", "scp", "copying", "judge"},
             j.step \in {"rsync", "scp", "copying", "judge", "cleanup"},
             j.step \in {"rsync", "scp", "copying"} => j.status \notin Terminal,
             j.sent <= Total,
             j.step \in {"scp", "copying"} => j.sent + Cardinality(j.todo) <= Total,
             j.step = "judge" /\ j.status \in Terminal => j.status = "partial-failure" /\ j.failed,
             job[u].status \in Terminal =>
                (j.status = job[u].status /\ j.sent = job[u].sent) \/ j.status = "cancelled",
             present' \in [Files -> Uploads \cup {Nobody, "user"}], newer' \subseteq Files,
             UNCHANGED rsync
      PROVE  Goal
  <2>1. /\ job[u].step \notin {"none", "staged"} /\ job[u].step # "cleanup"
        /\ job[u].step # "done" /\ j.step \notin {"none", "staged", "done"}
        /\ j.step \notin Early /\ (j.step # "cleanup" => j.status \notin Terminal \/ j.step = "judge")
    BY <1>1 DEF Early
  <2>2. /\ job' \in [Uploads -> Jobs] /\ records' \in [Uploads -> Written \cup {NoRecord}]
        /\ uploadFaults' \in 0..MaxUploadFaults
        /\ \A v \in Uploads : JobSound(v)' /\ RecordStep(v)
    BY <1>1, <2>1, SavingStep
  <2>. QED
    BY <1>1, <2>2 DEF UploadTypes
<1>2. ASSUME NEW j \in Jobs, job' = [job EXCEPT ![u] = j],
             job[u].step \in {"rsync", "scp", "copying"}, j.step \in {"scp", "judge"},
             j.status = job[u].status, j.sent = job[u].sent,
             j.step = "scp" => j.sent + Cardinality(j.todo) <= Total,
             UNCHANGED <<records, staging, uploadFaults>>, rsync' \in {"unknown", rsync},
             present' \in [Files -> Uploads \cup {Nobody, "user"}], newer' \subseteq Files
      PROVE  Goal
  <2>1. /\ \A v \in Uploads \ {u} : v \in staging' <=> v \in staging
        /\ u \in staging' /\ j.step # "done" /\ j.step # "staged" /\ j.sent <= Total
        /\ job[u].step # "none" /\ j.step \notin Early /\ j.step # "copying"
        /\ j.status \notin Terminal
    BY <1>0, <1>2 DEF Early, Ending, Steps, JobSound, StagingSound, StatusSound
  <2>2. \A v \in Uploads : JobSound(v)' /\ RecordStep(v)
    BY <1>0, <1>2, <2>1, QuietStep
  <2>. QED
    BY <1>0, <1>2, <2>2 DEF UploadTypes
<1>3. CASE Progress(u)
  <2>1. PICK v \in (job[u].sent + 1)..(Total + 1) :
          /\ SetStatus(u, [job[u] EXCEPT !.sent = Clamped(v)])
          /\ job[u].step = "rsync" /\ UNCHANGED <<staging, present, newer, rsync>>
    BY <1>3 DEF Progress
  <2>. DEFINE j == [job[u] EXCEPT !.sent = Clamped(v)]
  <2>2. Clamped(v) \in Nat /\ Clamped(v) <= Total
    BY <1>0 DEF Clamped
  <2>3. /\ j \in Jobs /\ j.step = "rsync" /\ j.sent <= Total /\ j.status = job[u].status
        /\ job[u].status \notin Terminal
    BY <1>0, <2>1, <2>2 DEF Jobs, JobSound, StatusSound, Ending
  <2>4. SetStatus(u, j)
    BY <2>1
  <2>. HIDE DEF j
  <2>. QED
    BY <1>1, <2>1, <2>3, <2>4 DEF UploadTypes
<1>4. CASE RunRsync(u)
  <2>1. PICK fs \in SUBSET Files : Write(u, fs)
    BY <1>4 DEF RunRsync
  <2>2. present' \in [Files -> Uploads \cup {Nobody, "user"}] /\ newer' \subseteq Files
    BY <2>1, WriteForms
  <2>3. PICK failed \in BOOLEAN :
          /\ job' = [job EXCEPT ![u] = [job[u] EXCEPT !.step = "judge", !.failed = failed]]
          /\ rsync' \in {"unknown", rsync} /\ UNCHANGED <<records, uploadFaults, staging>>
    <3>1. CASE Goto(u, "judge") /\ UNCHANGED rsync
      <4>1. job[u] \in Jobs /\ job[u].failed \in BOOLEAN
        BY <1>0 DEF Jobs
      <4>2. [job[u] EXCEPT !.step = "judge"] = [job[u] EXCEPT !.step = "judge", !.failed = job[u].failed]
        BY <4>1 DEF Jobs
      <4>. QED
        BY <1>4, <3>1, <4>1, <4>2 DEF RunRsync, Goto
    <3>2. CASE /\ job' = [job EXCEPT ![u].step = "judge", ![u].failed = TRUE]
               /\ rsync' = "unknown" /\ UNCHANGED <<records, uploadFaults>>
      BY <1>4, <3>2 DEF RunRsync
    <3>. QED
      BY <1>4, <3>1, <3>2 DEF RunRsync
  <2>. DEFINE j == [job[u] EXCEPT !.step = "judge", !.failed = failed]
  <2>4. j \in Jobs /\ j.step = "judge" /\ j.status = job[u].status /\ j.sent = job[u].sent
    BY <1>0 DEF Jobs, Steps
  <2>5. job' = [job EXCEPT ![u] = j] /\ job[u].step = "rsync"
    BY <1>4, <2>3 DEF RunRsync
  <2>. HIDE DEF j
  <2>. QED
    BY <1>2, <2>2, <2>3, <2>4, <2>5
<1>5. CASE NextFile(u)
  <2>1. /\ job[u].step = "scp" /\ job[u].todo \subseteq Files
        /\ job[u].sent + Cardinality(job[u].todo) <= Total /\ job[u].status \notin Terminal
        /\ UNCHANGED <<staging, present, newer, rsync>>
    BY <1>0, <1>5 DEF NextFile, Jobs, JobSound, SentSound, StatusSound, Ending
  <2>2. CASE Goto(u, "judge")
    <3>. DEFINE j == [job[u] EXCEPT !.step = "judge"]
    <3>1. /\ job' = [job EXCEPT ![u] = j] /\ UNCHANGED <<records, uploadFaults>>
      BY <1>0, <2>2 DEF Goto
    <3>2. j \in Jobs /\ j.step = "judge" /\ j.status = job[u].status /\ j.sent = job[u].sent
      BY <1>0 DEF Jobs, Steps
    <3>. HIDE DEF j
    <3>. QED
      BY <1>2, <2>1, <3>1, <3>2 DEF UploadTypes
  <2>3. ASSUME NEW f \in job[u].todo, job' = [job EXCEPT ![u].todo = @ \ {f}],
               UNCHANGED <<records, uploadFaults>>
        PROVE  Goal
    <3>. DEFINE j == [job[u] EXCEPT !.todo = @ \ {f}]
    <3>1. job' = [job EXCEPT ![u] = j]
      BY <1>0, <2>3
    <3>2. /\ j \in Jobs /\ j.step = "scp" /\ j.status = job[u].status /\ j.sent = job[u].sent
          /\ j.todo = job[u].todo \ {f}
      BY <1>0, <2>1 DEF Jobs
    <3>3. j.sent + Cardinality(j.todo) <= Total
      BY <1>0, <2>1, <2>3, <3>2, FileCounts
    <3>. HIDE DEF j
    <3>. QED
      BY <1>2, <2>1, <2>3, <3>1, <3>2, <3>3 DEF UploadTypes
  <2>4. CASE SetStatus(u, [job[u] EXCEPT !.step = "copying"])
    <3>. DEFINE j == [job[u] EXCEPT !.step = "copying"]
    <3>1. /\ j \in Jobs /\ j.step = "copying" /\ j.status = job[u].status /\ j.sent = job[u].sent
          /\ j.todo = job[u].todo
      BY <1>0 DEF Jobs, Steps
    <3>2. SetStatus(u, j)
      BY <2>4
    <3>. HIDE DEF j
    <3>. QED
      BY <1>0, <1>1, <2>1, <3>1, <3>2 DEF UploadTypes
  <2>5. CASE /\ job' = [job EXCEPT ![u].step = "judge", ![u].failed = TRUE]
             /\ UNCHANGED <<records, uploadFaults>>
    <3>. DEFINE j == [job[u] EXCEPT !.step = "judge", !.failed = TRUE]
    <3>1. job' = [job EXCEPT ![u] = j]
      BY <1>0, <2>5
    <3>2. j \in Jobs /\ j.step = "judge" /\ j.status = job[u].status /\ j.sent = job[u].sent
      BY <1>0 DEF Jobs, Steps
    <3>. HIDE DEF j
    <3>. QED
      BY <1>2, <2>1, <2>5, <3>1, <3>2 DEF UploadTypes
  <2>. QED
    BY <1>5, <2>2, <2>3, <2>4, <2>5 DEF NextFile
<1>6. CASE CopyFile(u)
  <2>1. PICK f \in job[u].todo :
          /\ Write(u, {f}) /\ UNCHANGED <<staging, rsync>> /\ job[u].step = "copying"
          /\ SetStatus(u, [job[u] EXCEPT !.step = "scp", !.todo = @ \ {f}, !.sent = @ + 1])
    BY <1>6 DEF CopyFile
  <2>2. {f} \in SUBSET Files /\ job[u].status \notin Terminal
        /\ job[u].sent + Cardinality(job[u].todo) <= Total
    BY <1>0, <2>1 DEF Jobs, JobSound, SentSound, StatusSound, Ending
  <2>3. present' \in [Files -> Uploads \cup {Nobody, "user"}] /\ newer' \subseteq Files
    BY <2>1, <2>2, WriteForms
  <2>. DEFINE j == [job[u] EXCEPT !.step = "scp", !.todo = @ \ {f}, !.sent = @ + 1]
  <2>4. /\ j \in Jobs /\ j.step = "scp" /\ j.status = job[u].status /\ j.sent = job[u].sent + 1
        /\ j.todo = job[u].todo \ {f}
    <3>1. job[u].todo \ {f} \in SUBSET Files /\ job[u].sent + 1 \in Nat /\ "scp" \in Steps
      BY <1>0 DEF Jobs, Steps
    <3>. QED
      BY <1>0, <3>1 DEF Jobs
  <2>5. SetStatus(u, j)
    BY <2>1
  <2>6. j.sent <= Total /\ j.sent + Cardinality(j.todo) <= Total
    BY <1>0, <2>1, <2>2, <2>4, FileCounts
  <2>. HIDE DEF j
  <2>. QED
    BY <1>1, <2>1, <2>2, <2>3, <2>4, <2>5, <2>6
<1>7. CASE CopyFails(u)
  <2>. DEFINE j == [job[u] EXCEPT !.step = "judge", !.failed = TRUE, !.status = "partial-failure"]
  <2>1. SetStatus(u, j) /\ job[u].step = "copying" /\ UNCHANGED <<staging, present, newer, rsync>>
    BY <1>7 DEF CopyFails
  <2>2. /\ j \in Jobs /\ j.step = "judge" /\ j.status = "partial-failure" /\ j.failed
        /\ j.sent = job[u].sent /\ job[u].status \notin Terminal
    BY <1>0, <2>1 DEF Jobs, Steps, Statuses, Terminal, JobSound, StatusSound, Ending
  <2>. HIDE DEF j
  <2>. QED
    BY <1>0, <1>1, <2>1, <2>2 DEF UploadTypes
<1>8. CASE Judge(u)
  <2>1. job[u].step = "judge" /\ UNCHANGED <<staging, present, newer, rsync>>
    BY <1>8 DEF Judge
  <2>2. job[u].status \in Terminal => job[u].status = "partial-failure" /\ job[u].failed
    BY <1>0, <2>1 DEF JobSound, StatusSound
  <2>3. CASE SetStatus(u, [job[u] EXCEPT !.step = "cleanup", !.status = "cancelled"])
    <3>. DEFINE j == [job[u] EXCEPT !.step = "cleanup", !.status = "cancelled"]
    <3>1. /\ j \in Jobs /\ j.step = "cleanup" /\ j.status = "cancelled" /\ j.sent = job[u].sent
          /\ SetStatus(u, j)
      BY <1>0, <2>3 DEF Jobs, Steps, Statuses, Terminal
    <3>. HIDE DEF j
    <3>. QED
      BY <1>0, <1>1, <2>1, <3>1 DEF UploadTypes
  <2>4. CASE SetStatus(u, Failed(job[u]))
    <3>. DEFINE j == Failed(job[u])
    <3>1. /\ j \in Jobs /\ j.step = "cleanup" /\ j.sent = job[u].sent /\ SetStatus(u, j)
          /\ job[u].status \in Terminal => j.status = job[u].status
      BY <1>0, <2>2, <2>4, FailedForm
    <3>. HIDE DEF j
    <3>. QED
      BY <1>0, <1>1, <2>1, <3>1 DEF UploadTypes
  <2>5. CASE /\ ~job[u].failed
             /\ SetStatus(u, [job[u] EXCEPT !.step = "cleanup", !.status = "completed", !.sent = Total])
    <3>. DEFINE j == [job[u] EXCEPT !.step = "cleanup", !.status = "completed", !.sent = Total]
    <3>1. /\ j \in Jobs /\ j.step = "cleanup" /\ j.sent = Total /\ SetStatus(u, j)
      BY <1>0, <2>5 DEF Jobs, Steps, Statuses, Terminal
    <3>2. job[u].status \notin Terminal
      BY <2>2, <2>5
    <3>. HIDE DEF j
    <3>. QED
      BY <1>0, <1>1, <2>1, <3>1, <3>2 DEF UploadTypes
  <2>. QED
    BY <1>8, <2>3, <2>4, <2>5 DEF Judge
<1>9. CASE CleanUp(u)
  <2>. DEFINE j == [job[u] EXCEPT !.step = "done", !.lease = FALSE]
  <2>1. /\ job' = [job EXCEPT ![u] = j] /\ SaveUpload(u, j.status, j.sent)
        /\ staging' = staging \ {u} /\ job[u].step = "cleanup" /\ UNCHANGED <<present, newer, rsync>>
    BY <1>9 DEF CleanUp, SetStatus
  <2>2. /\ j \in Jobs /\ j.step = "done" /\ j.status = job[u].status /\ j.sent = job[u].sent
        /\ ~j.lease /\ j.status \in Statuses /\ j.sent \in Nat
    BY <1>0 DEF Jobs, Steps
  <2>. HIDE DEF j
  <2>3. /\ job' \in [Uploads -> Jobs] /\ job'[u] = j
        /\ \A v \in Uploads \ {u} : job'[v] = job[v]
    BY <1>0, <2>1, <2>2
  <2>4. /\ records' \in [Uploads -> Written \cup {NoRecord}]
        /\ uploadFaults' \in 0..MaxUploadFaults
        /\ records'[u] = records[u] \/ records'[u] = [status |-> j.status, sent |-> j.sent]
        /\ \A v \in Uploads \ {u} : records'[v] = records[v]
    BY <2>1, <2>2, SaveForms
  <2>5. records[u].status \in Terminal =>
           \/ records[u] = [status |-> j.status, sent |-> j.sent]
           \/ records[u].status = "partial-failure" /\ j.status = "cancelled"
    BY <1>0, <2>1, <2>2 DEF JobSound, RecordSound
  <2>6. RecordSound(u)' /\ RecordStep(u)
    BY <2>2, <2>3, <2>4, <2>5 DEF RecordSound, RecordStep
  <2>7. StagingSound(u)' /\ SentSound(u)' /\ StatusSound(u)'
    BY <1>0, <2>1, <2>2, <2>3 DEF StagingSound, SentSound, StatusSound, Early, Ending
  <2>8. JobSound(u)'
    BY <2>6, <2>7 DEF JobSound
  <2>9. \A v \in Uploads : JobSound(v)'
    BY <2>1, <2>3, <2>4, <2>8, OneMoves
  <2>10. \A v \in Uploads : RecordStep(v)
    BY <2>4, <2>6 DEF RecordStep
  <2>. QED
    BY <2>1, <2>3, <2>4, <2>9, <2>10 DEF UploadTypes
<1>. QED
  BY <1>3, <1>4, <1>5, <1>6, <1>7, <1>8, <1>9

\* Cancelling, the end of the process, and what others do.
LEMMA OtherNext ==
  ASSUME UploadBounds, UploadTypes, \A v \in Uploads : JobSound(v),
         \/ \E u \in Uploads : Cancel(u) \/ CancelRecord(u)
         \/ CapabilityExpires \/ UploadsCrash \/ (\E f \in Files : UserWrites(f))
         \/ UNCHANGED uploadVars
  PROVE  Goal
<1>. USE DEF Goal
<1>0. job \in [Uploads -> Jobs] /\ MaxUploadFaults \in Nat
  BY DEF UploadTypes, UploadBounds
<1>1. ASSUME UNCHANGED <<job, records, staging, uploadFaults>>,
             present' \in [Files -> Uploads \cup {Nobody, "user"}], newer' \subseteq Files,
             rsync' \in {"unknown", "yes", "no"}
      PROVE  Goal
  BY <1>1 DEF UploadTypes, JobSound, StagingSound, SentSound, StatusSound, RecordSound, RecordStep
<1>2. ASSUME NEW u \in Uploads, Cancel(u) PROVE Goal
  <2>. DEFINE j == [job[u] EXCEPT !.cancelled = TRUE]
  <2>1. /\ job' = [job EXCEPT ![u] = j] /\ UNCHANGED <<records, staging, present, newer, rsync, uploadFaults>>
    BY <1>0, <1>2 DEF Cancel
  <2>2. /\ j \in Jobs /\ j.step = job[u].step /\ j.status = job[u].status /\ j.sent = job[u].sent
        /\ j.todo = job[u].todo /\ j.failed = job[u].failed /\ j.lease = job[u].lease
    BY <1>0 DEF Jobs
  <2>. HIDE DEF j
  <2>3. /\ job' \in [Uploads -> Jobs] /\ job'[u] = j
        /\ \A v \in Uploads \ {u} : job'[v] = job[v]
    BY <1>0, <2>1, <2>2
  <2>4. JobSound(u)'
    BY <2>1, <2>2, <2>3 DEF JobSound, StagingSound, SentSound, StatusSound, RecordSound
  <2>5. \A v \in Uploads : JobSound(v)'
    BY <2>1, <2>3, <2>4, OneMoves
  <2>. QED
    BY <2>1, <2>3, <2>5 DEF UploadTypes, RecordStep
<1>3. ASSUME NEW u \in Uploads, CancelRecord(u) PROVE Goal
  <2>1. /\ job[u].step = "none" /\ records[u] # NoRecord /\ records[u].status \notin Terminal
        /\ SaveUpload(u, "cancelled", records[u].sent) /\ UNCHANGED <<job, staging, present, newer, rsync>>
    BY <1>3 DEF CancelRecord
  <2>2. records[u].sent \in Nat /\ "cancelled" \in Statuses
    BY <2>1, TotalNat DEF UploadTypes, Written, Statuses, Terminal
  <2>3. /\ records' \in [Uploads -> Written \cup {NoRecord}]
        /\ uploadFaults' \in 0..MaxUploadFaults
        /\ \A v \in Uploads \ {u} : records'[v] = records[v]
    BY <2>1, <2>2, SaveForms
  <2>4. JobSound(u)'
    BY <2>1 DEF JobSound, StagingSound, SentSound, StatusSound, RecordSound
  <2>5. \A v \in Uploads : JobSound(v)'
    BY <2>1, <2>3, <2>4, OneMoves
  <2>6. \A v \in Uploads : RecordStep(v)
    BY <2>1, <2>3 DEF RecordStep
  <2>. QED
    BY <2>1, <2>3, <2>5, <2>6 DEF UploadTypes
<1>4. CASE UploadsCrash
  <2>1. /\ job' = [u \in Uploads |-> NoJob] /\ rsync' = "unknown"
        /\ UNCHANGED <<records, staging, present, newer>> /\ uploadFaults' \in 0..MaxUploadFaults
    BY <1>0, <1>4 DEF UploadsCrash, UploadFault, UploadTypes
  <2>2. NoJob \in Jobs /\ NoJob.step = "none" /\ NoJob.sent = 0 /\ NoJob.status \notin Terminal
    BY DEF NoJob, Jobs, Steps, Statuses, Policies, Terminal
  <2>3. Total \in Nat
    BY TotalNat
  <2>4. \A v \in Uploads : job'[v].step = "none" /\ job'[v].sent = 0 /\ job'[v].status \notin Terminal
    BY <2>1, <2>2
  <2>5. \A v \in Uploads : JobSound(v)'
    BY <2>1, <2>3, <2>4 DEF JobSound, StagingSound, SentSound, StatusSound, RecordSound
  <2>. QED
    BY <2>1, <2>2, <2>5 DEF UploadTypes, RecordStep
<1>5. CASE CapabilityExpires
  BY <1>1, <1>5 DEF CapabilityExpires, UploadTypes
<1>6. ASSUME NEW f \in Files, UserWrites(f) PROVE Goal
  BY <1>1, <1>6 DEF UserWrites, UploadTypes
<1>7. CASE UNCHANGED uploadVars
  BY <1>1, <1>7 DEF uploadVars, UploadTypes
<1>. QED
  BY <1>2, <1>3, <1>4, <1>5, <1>6, <1>7

-----------------------------------------------------------------------------
(* What is at the destination                                              *)

\* What is there stays there when nothing is written.
LEMMA StaysThere ==
  ASSUME NEW v \in Uploads, UNCHANGED <<present, newer>>, job'[v].policy = job[v].policy
  PROVE  \A f \in Files : There(v, f) => There(v, f)'
  BY DEF There, Skipped

\* When one upload moves and what is there stays there, the others are as whole as they were.
LEMMA OthersWhole ==
  ASSUME NEW u \in Uploads, \A v \in Uploads : WholeSound(v),
         \A v \in Uploads \ {u} : job'[v] = job[v],
         \A v \in Uploads : job'[v].policy = job[v].policy =>
            \A f \in Files : There(v, f) => There(v, f)',
         WholeSound(u)'
  PROVE  \A v \in Uploads : WholeSound(v)'
<1>. SUFFICES ASSUME NEW v \in Uploads \ {u} PROVE WholeSound(v)'
  OBVIOUS
<1>1. WholeSound(v) /\ job'[v] = job[v] /\ \A f \in Files : There(v, f) => There(v, f)'
  OBVIOUS
<1>. QED
  BY <1>1 DEF WholeSound

\* No step takes away what an upload has to show.
LEMMA WholeNext ==
  ASSUME UploadBounds, UploadTypes, \A v \in Uploads : JobSound(v) /\ WholeSound(v),
         [UploadNext]_uploadVars
  PROVE  \A v \in Uploads : WholeSound(v)'
<1>0. job \in [Uploads -> Jobs] /\ \A v \in Uploads : WholeSound(v)
  BY DEF UploadTypes
<1>1. ASSUME NEW u \in Uploads, NEW j \in Jobs, job' = [job EXCEPT ![u] = j],
             UNCHANGED <<present, newer>>,
             j.step \in {"scp", "copying"} =>
                j.policy = job[u].policy /\ \A f \in Files \ j.todo : There(u, f),
             j.step = "judge" => j.failed \/ (j.policy = job[u].policy /\ \A f \in Files : There(u, f)),
             j.step = "cleanup" => \/ j.status # "completed"
                                  \/ (j.policy = job[u].policy /\ \A f \in Files : There(u, f))
      PROVE  \A v \in Uploads : WholeSound(v)'
  <2>1. job'[u] = j /\ \A v \in Uploads \ {u} : job'[v] = job[v]
    BY <1>0, <1>1
  <2>2. \A v \in Uploads : job'[v].policy = job[v].policy =>
           \A f \in Files : There(v, f) => There(v, f)'
    BY <1>1, StaysThere
  <2>3. WholeSound(u)'
    BY <1>1, <2>1, <2>2 DEF WholeSound
  <2>. QED
    BY <1>0, <2>1, <2>2, <2>3, OthersWhole
<1>2. ASSUME NEW u \in Uploads, NEW policy \in Policies, Stage(u, policy)
      PROVE  \A v \in Uploads : WholeSound(v)'
  <2>. DEFINE j == [job[u] EXCEPT !.step = "staged", !.policy = policy]
  <2>1. job' = [job EXCEPT ![u] = j] /\ UNCHANGED <<present, newer>>
    BY <1>0, <1>2 DEF Stage
  <2>2. j \in Jobs /\ j.step = "staged"
    BY <1>0 DEF Jobs, Steps
  <2>. HIDE DEF j
  <2>. QED
    BY <1>1, <2>1, <2>2
<1>3. ASSUME NEW u \in Uploads, StageFails(u) PROVE \A v \in Uploads : WholeSound(v)'
  <2>1. job' = [job EXCEPT ![u] = NoJob] /\ UNCHANGED <<present, newer>>
    BY <1>3 DEF StageFails
  <2>2. NoJob \in Jobs /\ NoJob.step = "none"
    BY DEF NoJob, Jobs, Steps, Statuses, Policies
  <2>. QED
    BY <1>1, <2>1, <2>2
<1>4. ASSUME NEW u \in Uploads, Queue(u) PROVE \A v \in Uploads : WholeSound(v)'
  <2>. DEFINE j == [job[u] EXCEPT !.step = "queued"]
  <2>1. job' = [job EXCEPT ![u] = j] /\ UNCHANGED <<present, newer>>
    BY <1>0, <1>4 DEF Queue
  <2>2. j \in Jobs /\ j.step = "queued"
    BY <1>0 DEF Jobs, Steps, Statuses, Terminal
  <2>. HIDE DEF j
  <2>. QED
    BY <1>1, <2>1, <2>2
<1>5. ASSUME NEW u \in Uploads, Run(u) PROVE \A v \in Uploads : WholeSound(v)'
  <2>. DEFINE j == [job[u] EXCEPT !.step = "target", !.status = "running"]
  <2>1. job' = [job EXCEPT ![u] = j] /\ UNCHANGED <<present, newer>>
    BY <1>0, <1>5 DEF Run, SetStatus
  <2>2. j \in Jobs /\ j.step = "target"
    BY <1>0, ZenonT(30) DEF Jobs, Steps, Statuses, Terminal
  <2>. HIDE DEF j
  <2>. QED
    BY <1>1, <2>1, <2>2
<1>6. ASSUME NEW u \in Uploads, SetStatus(u, Failed(job[u])), UNCHANGED <<present, newer>>
      PROVE  \A v \in Uploads : WholeSound(v)'
  <2>. DEFINE j == Failed(job[u])
  <2>1. job' = [job EXCEPT ![u] = j] /\ job[u] \in Jobs
    BY <1>0, <1>6 DEF SetStatus
  <2>2. j \in Jobs /\ j.step = "cleanup" /\ j.status # "completed"
    BY <2>1, FailedForm DEF Failed, Jobs
  <2>. HIDE DEF j
  <2>. QED
    BY <1>1, <1>6, <2>1, <2>2
<1>7. ASSUME NEW u \in Uploads, ResolveTarget(u) PROVE \A v \in Uploads : WholeSound(v)'
  <2>1. CASE Goto(u, "lease")
    <3>. DEFINE j == [job[u] EXCEPT !.step = "lease"]
    <3>1. job' = [job EXCEPT ![u] = j] /\ UNCHANGED <<present, newer>>
      BY <1>0, <1>7, <2>1 DEF ResolveTarget, Goto
    <3>2. j \in Jobs /\ j.step = "lease"
      BY <1>0 DEF Jobs, Steps
    <3>. HIDE DEF j
    <3>. QED
      BY <1>1, <3>1, <3>2
  <2>. QED
    BY <1>6, <1>7, <2>1 DEF ResolveTarget
<1>8. ASSUME NEW u \in Uploads, RemoteFails(u) PROVE \A v \in Uploads : WholeSound(v)'
  BY <1>6, <1>8 DEF RemoteFails
<1>9. ASSUME NEW u \in Uploads, AcquireLease(u) PROVE \A v \in Uploads : WholeSound(v)'
  <2>. DEFINE j == [job[u] EXCEPT !.step = "probe", !.lease = TRUE]
  <2>1. job' = [job EXCEPT ![u] = j] /\ UNCHANGED <<present, newer>>
    BY <1>0, <1>9 DEF AcquireLease
  <2>2. j \in Jobs /\ j.step = "probe"
    BY <1>0, ZenonT(30) DEF Jobs, Steps, Statuses, Terminal
  <2>. HIDE DEF j
  <2>. QED
    BY <1>1, <2>1, <2>2
<1>10. ASSUME NEW u \in Uploads, RsyncAvailable(u) PROVE \A v \in Uploads : WholeSound(v)'
  <2>1. PICK step \in {"rsync", "mkdir"} :
           SetStatus(u, [job[u] EXCEPT !.step = step]) /\ UNCHANGED <<present, newer>>
    BY <1>10 DEF RsyncAvailable
  <2>. DEFINE j == [job[u] EXCEPT !.step = step]
  <2>2. job' = [job EXCEPT ![u] = j]
    BY <2>1 DEF SetStatus
  <2>3. j \in Jobs /\ j.step = step
    BY <1>0 DEF Jobs, Steps
  <2>. HIDE DEF j
  <2>. QED
    BY <1>1, <2>1, <2>2, <2>3
<1>11. ASSUME NEW u \in Uploads, Progress(u) PROVE \A v \in Uploads : WholeSound(v)'
  <2>1. PICK v \in (job[u].sent + 1)..(Total + 1) :
          /\ SetStatus(u, [job[u] EXCEPT !.sent = Clamped(v)])
          /\ job[u].step = "rsync" /\ UNCHANGED <<present, newer>>
    BY <1>11 DEF Progress
  <2>. DEFINE j == [job[u] EXCEPT !.sent = Clamped(v)]
  <2>2. job' = [job EXCEPT ![u] = j]
    BY <2>1 DEF SetStatus
  <2>3. Total \in Nat /\ job[u].sent \in Nat
    BY <1>0, TotalNat DEF Jobs
  <2>4. Clamped(v) \in Nat
    BY <2>1, <2>3 DEF Clamped
  <2>5. j \in Jobs /\ j.step = "rsync"
    BY <1>0, <2>1, <2>4 DEF Jobs
  <2>. HIDE DEF j
  <2>. QED
    BY <1>1, <2>1, <2>2, <2>5
<1>12. ASSUME NEW u \in Uploads, RunRsync(u) PROVE \A v \in Uploads : WholeSound(v)'
  <2>1. \E fs \in SUBSET Files : /\ Write(u, fs)
                                 /\ fs = Files \/ job'[u].failed
    BY <1>0, <1>12 DEF RunRsync, Goto, Jobs
  <2>2. PICK fs \in SUBSET Files : Write(u, fs) /\ (fs = Files \/ job'[u].failed)
    BY <2>1
  <2>3. /\ job'[u].step = "judge" /\ job'[u].policy = job[u].policy
        /\ \A v \in Uploads \ {u} : job'[v] = job[v]
    BY <1>0, <1>12 DEF RunRsync, Goto, Jobs
  <2>4. \A v \in Uploads : job'[v].policy = job[v].policy =>
           /\ \A f \in Files : There(v, f) => There(v, f)'
           /\ v = u => \A f \in fs : There(v, f)'
    BY <2>2, WriteForms
  <2>5. WholeSound(u)'
    BY <2>2, <2>3, <2>4 DEF WholeSound
  <2>. QED
    BY <1>0, <2>3, <2>4, <2>5, OthersWhole
<1>13. ASSUME NEW u \in Uploads, CreateDirectories(u) PROVE \A v \in Uploads : WholeSound(v)'
  <2>1. PICK ok \in BOOLEAN :
          /\ job' = [job EXCEPT ![u].step = IF ok THEN "scp" ELSE "judge",
                                ![u].failed = ~ok, ![u].todo = Files]
          /\ UNCHANGED <<present, newer>>
    BY <1>13 DEF CreateDirectories
  <2>. DEFINE j == [job[u] EXCEPT !.step = IF ok THEN "scp" ELSE "judge",
                                  !.failed = ~ok, !.todo = Files]
  <2>2. job' = [job EXCEPT ![u] = j]
    BY <1>0, <2>1
  <2>3. /\ j \in Jobs /\ j.step \in {"scp", "judge"} /\ j.todo = Files /\ j.policy = job[u].policy
        /\ j.step = "judge" => j.failed
    BY <1>0, ZenonT(30) DEF Jobs, Steps
  <2>. HIDE DEF j
  <2>. QED
    BY <1>1, <2>1, <2>2, <2>3
<1>14. ASSUME NEW u \in Uploads, NextFile(u) PROVE \A v \in Uploads : WholeSound(v)'
  <2>1. job[u].step = "scp" /\ UNCHANGED <<present, newer>> /\ \A f \in Files \ job[u].todo : There(u, f)
    BY <1>14 DEF NextFile, WholeSound
  <2>2. ASSUME NEW step \in {"judge", "copying"}, job' = [job EXCEPT ![u].step = step],
               step = "judge" => job[u].todo = {}
        PROVE  \A v \in Uploads : WholeSound(v)'
    <3>. DEFINE j == [job[u] EXCEPT !.step = step]
    <3>1. job' = [job EXCEPT ![u] = j]
      BY <2>2
    <3>2. /\ j \in Jobs /\ j.step = step /\ j.todo = job[u].todo /\ j.policy = job[u].policy
      BY <1>0 DEF Jobs, Steps
    <3>. HIDE DEF j
    <3>. QED
      BY <1>1, <2>1, <2>2, <3>1, <3>2
  <2>3. ASSUME NEW f \in job[u].todo \cap Skipped(u), job' = [job EXCEPT ![u].todo = @ \ {f}]
        PROVE  \A v \in Uploads : WholeSound(v)'
    <3>. DEFINE j == [job[u] EXCEPT !.todo = @ \ {f}]
    <3>1. job' = [job EXCEPT ![u] = j]
      BY <1>0, <2>3
    <3>2. /\ j \in Jobs /\ j.step = "scp" /\ j.todo = job[u].todo \ {f} /\ j.policy = job[u].policy
      BY <1>0, <2>1 DEF Jobs
    <3>3. There(u, f)
      BY <2>3 DEF There
    <3>. HIDE DEF j
    <3>. QED
      BY <1>1, <2>1, <3>1, <3>2, <3>3
  <2>4. ASSUME job' = [job EXCEPT ![u].step = "judge", ![u].failed = TRUE]
        PROVE  \A v \in Uploads : WholeSound(v)'
    <3>. DEFINE j == [job[u] EXCEPT !.step = "judge", !.failed = TRUE]
    <3>1. job' = [job EXCEPT ![u] = j]
      BY <1>0, <2>4
    <3>2. j \in Jobs /\ j.step = "judge" /\ j.failed
      BY <1>0 DEF Jobs, Steps
    <3>. HIDE DEF j
    <3>. QED
      BY <1>1, <2>1, <3>1, <3>2
  <2>. QED
    BY <1>14, <2>2, <2>3, <2>4 DEF NextFile, Goto, SetStatus
<1>15. ASSUME NEW u \in Uploads, CopyFile(u) PROVE \A v \in Uploads : WholeSound(v)'
  <2>1. PICK f \in job[u].todo :
          /\ Write(u, {f}) /\ job[u].step = "copying"
          /\ job' = [job EXCEPT ![u] = [job[u] EXCEPT !.step = "scp", !.todo = @ \ {f}, !.sent = @ + 1]]
    BY <1>15 DEF CopyFile, SetStatus
  <2>2. /\ job'[u].step = "scp" /\ job'[u].todo = job[u].todo \ {f}
        /\ job'[u].policy = job[u].policy /\ \A v \in Uploads \ {u} : job'[v] = job[v]
    BY <1>0, <2>1 DEF Jobs
  <2>3. {f} \in SUBSET Files
    BY <1>0, <2>1 DEF Jobs
  <2>4. \A v \in Uploads : job'[v].policy = job[v].policy =>
           /\ \A g \in Files : There(v, g) => There(v, g)'
           /\ v = u => \A g \in {f} : There(v, g)'
    BY <2>1, <2>3, WriteForms
  <2>5. \A g \in Files \ job[u].todo : There(u, g)
    BY <2>1 DEF WholeSound
  <2>6. WholeSound(u)'
    BY <2>2, <2>4, <2>5 DEF WholeSound
  <2>. QED
    BY <1>0, <2>2, <2>4, <2>6, OthersWhole
<1>16. ASSUME NEW u \in Uploads, CopyFails(u) PROVE \A v \in Uploads : WholeSound(v)'
  <2>. DEFINE j == [job[u] EXCEPT !.step = "judge", !.failed = TRUE, !.status = "partial-failure"]
  <2>1. job' = [job EXCEPT ![u] = j] /\ UNCHANGED <<present, newer>>
    BY <1>16 DEF CopyFails, SetStatus
  <2>2. j \in Jobs /\ j.step = "judge" /\ j.failed
    BY <1>0, ZenonT(30) DEF Jobs, Steps, Statuses, Terminal
  <2>. HIDE DEF j
  <2>. QED
    BY <1>1, <2>1, <2>2
<1>17. ASSUME NEW u \in Uploads, Judge(u) PROVE \A v \in Uploads : WholeSound(v)'
  <2>1. job[u].step = "judge" /\ UNCHANGED <<present, newer>>
    BY <1>17 DEF Judge
  <2>2. CASE SetStatus(u, [job[u] EXCEPT !.step = "cleanup", !.status = "cancelled"])
    <3>. DEFINE j == [job[u] EXCEPT !.step = "cleanup", !.status = "cancelled"]
    <3>1. job' = [job EXCEPT ![u] = j]
      BY <2>2 DEF SetStatus
    <3>2. j \in Jobs /\ j.step = "cleanup" /\ j.status # "completed"
      BY <1>0, ZenonT(30) DEF Jobs, Steps, Statuses, Terminal
    <3>. HIDE DEF j
    <3>. QED
      BY <1>1, <2>1, <3>1, <3>2
  <2>3. CASE SetStatus(u, Failed(job[u]))
    BY <1>6, <2>1, <2>3
  <2>4. CASE /\ ~job[u].failed
             /\ SetStatus(u, [job[u] EXCEPT !.step = "cleanup", !.status = "completed", !.sent = Total])
    <3>. DEFINE j == [job[u] EXCEPT !.step = "cleanup", !.status = "completed", !.sent = Total]
    <3>1. job' = [job EXCEPT ![u] = j]
      BY <2>4 DEF SetStatus
    <3>2. j \in Jobs /\ j.step = "cleanup" /\ j.policy = job[u].policy
      BY <1>0, TotalNat, ZenonT(30) DEF Jobs, Steps, Statuses, Terminal
    <3>3. \A f \in Files : There(u, f)
      BY <2>1, <2>4 DEF WholeSound
    <3>. HIDE DEF j
    <3>. QED
      BY <1>1, <2>1, <3>1, <3>2, <3>3
  <2>. QED
    BY <1>17, <2>2, <2>3, <2>4 DEF Judge
<1>18. ASSUME NEW u \in Uploads, CleanUp(u) PROVE \A v \in Uploads : WholeSound(v)'
  <2>. DEFINE j == [job[u] EXCEPT !.step = "done", !.lease = FALSE]
  <2>1. job' = [job EXCEPT ![u] = j] /\ UNCHANGED <<present, newer>>
    BY <1>18 DEF CleanUp, SetStatus
  <2>2. j \in Jobs /\ j.step = "done"
    BY <1>0 DEF Jobs, Steps
  <2>. HIDE DEF j
  <2>. QED
    BY <1>1, <2>1, <2>2
<1>19. ASSUME NEW u \in Uploads, Cancel(u) PROVE \A v \in Uploads : WholeSound(v)'
  <2>. DEFINE j == [job[u] EXCEPT !.cancelled = TRUE]
  <2>1. job' = [job EXCEPT ![u] = j] /\ UNCHANGED <<present, newer>>
    BY <1>0, <1>19 DEF Cancel
  <2>2. /\ j \in Jobs /\ j.step = job[u].step /\ j.status = job[u].status /\ j.failed = job[u].failed
        /\ j.todo = job[u].todo /\ j.policy = job[u].policy
    BY <1>0 DEF Jobs
  <2>. HIDE DEF j
  <2>. QED
    BY <1>1, <2>1, <2>2 DEF WholeSound
<1>20. ASSUME UNCHANGED job, \A v \in Uploads, f \in Files : There(v, f) => There(v, f)'
       PROVE  \A v \in Uploads : WholeSound(v)'
  BY <1>0, <1>20 DEF WholeSound
<1>21. ASSUME UNCHANGED <<job, present, newer>> PROVE \A v \in Uploads : WholeSound(v)'
  BY <1>20, <1>21 DEF There, Skipped
<1>22. ASSUME NEW g \in Files, UserWrites(g) PROVE \A v \in Uploads : WholeSound(v)'
  <2>1. /\ present[g] = Nobody /\ present' = [present EXCEPT ![g] = "user"]
        /\ newer \subseteq newer' /\ UNCHANGED job
    BY <1>22 DEF UserWrites
  <2>2. Nobody \notin Uploads
    BY DEF UploadBounds
  <2>3. \A v \in Uploads, f \in Files : There(v, f) => There(v, f)'
    BY <2>1, <2>2 DEF There, Skipped, UploadTypes
  <2>. QED
    BY <1>20, <2>1, <2>3
<1>23. ASSUME UploadsCrash PROVE \A v \in Uploads : WholeSound(v)'
  <2>1. \A v \in Uploads : job'[v].step = "none"
    BY <1>23 DEF UploadsCrash, NoJob
  <2>. QED
    BY <2>1 DEF WholeSound
<1>24. CASE \E u \in Uploads : CancelRecord(u)
  BY <1>21, <1>24 DEF CancelRecord
<1>25. CASE CapabilityExpires \/ UNCHANGED uploadVars
  BY <1>21, <1>25 DEF CapabilityExpires, uploadVars
<1>. QED
  BY <1>2, <1>3, <1>4, <1>5, <1>7, <1>8, <1>9, <1>10, <1>11, <1>12, <1>13, <1>14, <1>15,
     <1>16, <1>17, <1>18, <1>19, <1>22, <1>23, <1>24, <1>25 DEF UploadNext

-----------------------------------------------------------------------------
(* The results                                                             *)

\* The invariant holds at first.
LEMMA UploadStart == ASSUME UploadBounds, UploadInit PROVE UploadInv
<1>1. Total \in Nat /\ MaxUploadFaults \in Nat
  BY TotalNat DEF UploadBounds
<1>2. NoJob \in Jobs /\ NoJob.step = "none" /\ NoJob.sent = 0 /\ NoJob.status \notin Terminal
  BY DEF NoJob, Jobs, Steps, Statuses, Policies, Terminal
<1>3. UploadTypes
  BY <1>1, <1>2 DEF UploadInit, UploadTypes
<1>4. \A u \in Uploads : job[u].step = "none" /\ job[u].sent = 0 /\ job[u].status \notin Terminal
  BY <1>2 DEF UploadInit
<1>5. \A u \in Uploads : JobSound(u) /\ WholeSound(u)
  BY <1>1, <1>4 DEF JobSound, StagingSound, SentSound, StatusSound, RecordSound, WholeSound
<1>. QED
  BY <1>3, <1>5 DEF UploadInv

\* Every step keeps the invariant and, from a terminal record, only a partial failure
\* is replaced, by a cancellation.
LEMMA UploadStep ==
  ASSUME UploadBounds, UploadInv, [UploadNext]_uploadVars
  PROVE  UploadInv' /\ \A v \in Uploads : RecordStep(v)
<1>0. UploadTypes /\ \A v \in Uploads : JobSound(v) /\ WholeSound(v)
  BY DEF UploadInv
<1>1. Goal
  <2>1. CASE \E u \in Uploads :
               \/ \E policy \in Policies : Stage(u, policy)
               \/ StageFails(u) \/ Queue(u) \/ Run(u) \/ ResolveTarget(u) \/ RemoteFails(u)
               \/ AcquireLease(u) \/ RsyncAvailable(u) \/ CreateDirectories(u)
    BY <1>0, <2>1, EarlyNext
  <2>2. CASE \E u \in Uploads :
               \/ Progress(u) \/ RunRsync(u) \/ NextFile(u) \/ CopyFile(u) \/ CopyFails(u)
               \/ Judge(u) \/ CleanUp(u)
    BY <1>0, <2>2, LateNext
  <2>3. CASE \/ \E u \in Uploads : Cancel(u) \/ CancelRecord(u)
             \/ CapabilityExpires \/ UploadsCrash \/ (\E f \in Files : UserWrites(f))
             \/ UNCHANGED uploadVars
    BY <1>0, <2>3, OtherNext
  <2>. QED
    BY <2>1, <2>2, <2>3 DEF UploadNext
<1>2. \A v \in Uploads : WholeSound(v)'
  BY <1>0, WholeNext
<1>. QED
  BY <1>1, <1>2 DEF Goal, UploadInv

\* The invariant says what the property does.
LEMMA UploadMeaning == ASSUME UploadBounds, UploadInv PROVE UploadsSafe
<1>0. UploadTypes /\ \A u \in Uploads : JobSound(u) /\ WholeSound(u)
  BY DEF UploadInv
<1>1. UploadTypeOK
  BY <1>0 DEF UploadTypes, UploadTypeOK, Jobs, Written
<1>2. SavesAccepted
  BY <1>0 DEF SavesAccepted, Valid, JobSound, SentSound
<1>3. StagedWhileNeeded /\ NothingLeftBehind
  BY <1>0 DEF StagedWhileNeeded, NothingLeftBehind, JobSound, StagingSound
<1>4. CompletedIsWhole
  BY <1>0 DEF CompletedIsWhole, WholeSound, There
<1>. QED
  BY <1>1, <1>2, <1>3, <1>4 DEF UploadsSafe

\* Whatever fails, whoever cancels and however often the process restarts, the staged
\* files are there while they are needed and gone afterwards, every save is acceptable
\* and `completed' is true (runUpload and CleanUp, upload_jobs.go).
THEOREM UploadsHold == ASSUME UploadBounds PROVE UploadSpec => []UploadsSafe
<1>1. UploadInit => UploadInv
  BY UploadStart
<1>2. UploadInv /\ [UploadNext]_uploadVars => UploadInv'
  BY UploadStep
<1>3. UploadInv => UploadsSafe
  BY UploadMeaning
<1>. QED
  BY <1>1, <1>2, <1>3, PTL DEF UploadSpec

\* The recorded end of an upload stays, except that a partial failure becomes
\* cancelled when the job was (setStatus, upload_jobs.go).
THEOREM RecordsStand ==
  ASSUME UploadBounds PROVE UploadSpec => [][RecordedResultStands]_uploadVars
<1>1. UploadInit => UploadInv
  BY UploadStart
<1>2. UploadInv /\ [UploadNext]_uploadVars => UploadInv'
  BY UploadStep
<1>3. UploadInv /\ [UploadNext]_uploadVars => [RecordedResultStands]_uploadVars
  BY UploadStep DEF RecordedResultStands, RecordStep
<1>. QED
  BY <1>1, <1>2, <1>3, PTL DEF UploadSpec

-----------------------------------------------------------------------------
(* The message history                                                     *)

\* A message of any sequence, before the bound of the model is applied.
Draft == [key : Keys, seq : Nat \ {0}, old : BOOLEAN]

\* A sequence whose messages are some of those of another, in the same order.
Thinned(ns, ms) ==
    /\ ns \in Seq(Draft) /\ Len(ns) <= Len(ms)
    /\ \E at \in [1..Len(ns) -> 1..Len(ms)] :
          /\ \A n \in 1..Len(ns) : ns[n] = ms[at[n]]
          /\ \A m, n \in 1..Len(ns) : m < n => at[m] < at[n]

\* What validateMessageFile asks of the list.
Ordered(ms) == \A i, j \in DOMAIN ms : i < j => ms[i].seq < ms[j].seq /\ ms[i].key # ms[j].key

-----------------------------------------------------------------------------
(* Pruning                                                                 *)

\* Sets of indices are finite.
LEMMA IndicesFinite ==
  ASSUME NEW k \in Nat, NEW S \in SUBSET (1..k)
  PROVE  IsFiniteSet(S) /\ Cardinality(S) \in Nat /\ Cardinality(S) <= k /\ \A i \in S : i \in Nat
<1>1. 1 \in Int /\ k \in Int
  OBVIOUS
<1>2. IsFiniteSet(1..k) /\ Cardinality(1..k) = IF 1 > k THEN 0 ELSE k - 1 + 1
  BY <1>1, FS_Interval
<1>3. Cardinality(1..k) = k
  BY <1>2
<1>4. IsFiniteSet(S) /\ Cardinality(S) <= Cardinality(1..k)
  BY <1>2, FS_Subset
<1>5. Cardinality(S) \in Nat
  BY <1>4, FS_CardinalityType
<1>. QED
  BY <1>3, <1>4, <1>5

\* The n-th element of such a set exists.
LEMMA NthExists ==
  ASSUME NEW k \in Nat, NEW S \in SUBSET (1..k), NEW n \in 1..Cardinality(S)
  PROVE  Nth(S, n) \in S /\ Cardinality({j \in S : j <= Nth(S, n)}) = n
<1>1. IsFiniteSet(S) /\ Cardinality(S) \in Nat /\ \A i \in S : i \in Nat
  BY IndicesFinite
<1>2. PICK c : c = Cardinality(S)
  OBVIOUS
<1>3. PICK Upto : Upto = [i \in S |-> {j \in S : j <= i}]
  OBVIOUS
<1>4. ASSUME NEW i \in S
      PROVE  /\ Upto[i] \in SUBSET S /\ i \in Upto[i] /\ IsFiniteSet(Upto[i])
             /\ Cardinality(Upto[i]) \in 1..c
  <2>1. Upto[i] \in SUBSET S /\ i \in Upto[i]
    BY <1>1, <1>3
  <2>2. IsFiniteSet(Upto[i]) /\ Cardinality(Upto[i]) <= c
    BY <1>1, <1>2, <2>1, FS_Subset
  <2>3. Cardinality(Upto[i]) \in Nat
    BY <2>2, FS_CardinalityType
  <2>4. Cardinality(Upto[i]) # 0
    BY <2>1, <2>2, FS_EmptySet
  <2>. QED
    BY <1>1, <1>2, <2>1, <2>2, <2>3, <2>4
<1>5. ASSUME NEW i \in S, NEW j \in S, i < j PROVE Cardinality(Upto[i]) # Cardinality(Upto[j])
  <2>1. i \in Nat /\ j \in Nat
    BY <1>1
  <2>2. \A x \in Upto[i] : x \in S /\ x \in Nat /\ x <= i
    BY <1>1, <1>3
  <2>3. \A x \in Upto[i] : x \in Upto[j]
    BY <1>3, <1>5, <2>1, <2>2
  <2>4. j \notin Upto[i] /\ j \in Upto[j]
    BY <1>4, <1>5, <2>1, <2>2
  <2>5. Upto[i] \in SUBSET Upto[j] /\ Upto[i] # Upto[j]
    BY <2>3, <2>4
  <2>. QED
    BY <1>4, <2>5, FS_Subset
<1>6. PICK R : R = [i \in S |-> Cardinality(Upto[i])]
  OBVIOUS
<1>7. R \in [S -> 1..c]
  BY <1>4, <1>6
<1>8. \A a, b \in S : R[a] = R[b] => a = b
  <2>1. \A a, b \in S : a < b => R[a] # R[b]
    BY <1>5, <1>6
  <2>. QED
    BY <1>1, <2>1
<1>9. R \in Injection(S, 1..c)
  BY <1>7, <1>8 DEF Injection, IsInjective
<1>10. IsFiniteSet(1..c) /\ Cardinality(1..c) = c
  <2>1. 1 \in Int /\ c \in Nat /\ c \in Int
    BY <1>1, <1>2
  <2>2. IsFiniteSet(1..c) /\ Cardinality(1..c) = IF 1 > c THEN 0 ELSE c - 1 + 1
    BY <2>1, FS_Interval
  <2>. QED
    BY <2>1, <2>2
<1>11. R \in Surjection(S, 1..c)
  BY <1>2, <1>9, <1>10, FS_Injection
<1>12. PICK i \in S : R[i] = n
  BY <1>2, <1>11 DEF Surjection
<1>13. \E x \in S : Cardinality({j \in S : j <= x}) = n
  BY <1>3, <1>6, <1>12
<1>. QED
  BY <1>13 DEF Nth

\* Their order is that of the set.
LEMMA NthRises ==
  ASSUME NEW k \in Nat, NEW S \in SUBSET (1..k), NEW m \in 1..Cardinality(S), NEW n \in 1..Cardinality(S), m < n
  PROVE  Nth(S, m) < Nth(S, n)
<1>0. IsFiniteSet(S) /\ Cardinality(S) \in Nat /\ \A i \in S : i \in Nat
  BY IndicesFinite
<1>1. PICK a, b : a = Nth(S, m) /\ b = Nth(S, n)
  OBVIOUS
<1>2. PICK A, B : A = {j \in S : j <= a} /\ B = {j \in S : j <= b}
  OBVIOUS
<1>3. a \in S /\ b \in S /\ Cardinality(A) = m /\ Cardinality(B) = n
  BY <1>1, <1>2, NthExists
<1>4. ASSUME b <= a PROVE FALSE
  <2>1. \A x \in B : x \in S /\ x \in Nat /\ x <= b
    BY <1>0, <1>2
  <2>2. \A x \in B : x <= a
    BY <1>0, <1>3, <1>4, <2>1
  <2>3. B \in SUBSET A /\ A \in SUBSET S
    BY <1>2, <2>1, <2>2
  <2>4. IsFiniteSet(A)
    BY <1>0, <2>3, FS_Subset
  <2>5. n <= m
    BY <1>3, <2>3, <2>4, FS_Subset
  <2>. QED
    BY <1>0, <2>5
<1>. QED
  BY <1>0, <1>1, <1>3, <1>4

\* Those that are retained keep their order.
LEMMA RetainedIsThinned ==
  ASSUME NEW ms \in Seq(Draft)
  PROVE  Thinned(Retained(ms), ms)
<1>1. PICK S : S = Young(ms)
  OBVIOUS
<1>2. Len(ms) \in Nat /\ DOMAIN ms = 1..Len(ms) /\ S \in SUBSET (1..Len(ms))
  BY <1>1 DEF Young
<1>4. IsFiniteSet(S) /\ Cardinality(S) \in Nat /\ Cardinality(S) <= Len(ms)
  BY <1>2, IndicesFinite
<1>5. PICK at : at = [n \in 1..Cardinality(S) |-> Nth(S, n)]
  OBVIOUS
<1>6. at \in [1..Cardinality(S) -> 1..Len(ms)]
  BY <1>2, <1>5, NthExists
<1>7. \A m, n \in 1..Cardinality(S) : m < n => at[m] < at[n]
  BY <1>2, <1>5, NthRises
<1>8. PICK ns : ns = Retained(ms)
  OBVIOUS
<1>9. ns = [n \in 1..Cardinality(S) |-> ms[at[n]]]
  BY <1>1, <1>5, <1>8 DEF Retained
<1>10. \A n \in 1..Cardinality(S) : ms[at[n]] \in Draft
  BY <1>6
<1>11. ns \in Seq(Draft) /\ Len(ns) = Cardinality(S)
  BY <1>4, <1>9, <1>10
<1>. QED
  BY <1>4, <1>6, <1>7, <1>8, <1>9, <1>11 DEF Thinned

\* Dropping all but the newest keeps the order too.
LEMMA NewestIsThinned ==
  ASSUME MessageBounds, NEW ms \in Seq(Draft)
  PROVE  Thinned(Newest(ms), ms) /\ Len(Newest(ms)) <= MaxStored
<1>0. MaxStored \in Nat \ {0} /\ Len(ms) \in Nat
  BY DEF MessageBounds
<1>1. CASE Len(ms) <= MaxStored
  <2>1. PICK at : at = [n \in 1..Len(ms) |-> n]
    OBVIOUS
  <2>2. at \in [1..Len(ms) -> 1..Len(ms)]
    BY <2>1
  <2>. QED
    BY <1>0, <1>1, <2>1, <2>2 DEF Newest, Thinned
<1>2. CASE ~(Len(ms) <= MaxStored)
  <2>1. PICK d, ns : d = Len(ms) - MaxStored /\ ns = Newest(ms)
    OBVIOUS
  <2>2. ns = SubSeq(ms, d + 1, Len(ms)) /\ d \in Nat /\ d + 1 <= Len(ms) /\ Len(ms) = d + MaxStored
    BY <1>0, <1>2, <2>1 DEF Newest
  <2>3. /\ ns \in Seq(Draft) /\ Len(ns) = MaxStored
        /\ \A n \in 1..MaxStored : ns[n] = ms[n + d]
    BY <1>0, <2>2
  <2>4. PICK at : at = [n \in 1..MaxStored |-> n + d]
    OBVIOUS
  <2>5. at \in [1..MaxStored -> 1..Len(ms)]
    BY <1>0, <2>2, <2>4
  <2>6. \A n \in 1..MaxStored : ns[n] = ms[at[n]]
    BY <2>3, <2>4
  <2>7. \A m, n \in 1..MaxStored : m < n => at[m] < at[n]
    BY <1>0, <2>2, <2>4
  <2>8. Thinned(ns, ms)
    <3>1. 1..Len(ns) = 1..MaxStored
      BY <2>3
    <3>2. Len(ns) <= Len(ms)
      BY <1>0, <2>2, <2>3
    <3>. QED
      BY <2>3, <2>5, <2>6, <2>7, <3>1, <3>2 DEF Thinned
  <2>. QED
    BY <1>0, <2>1, <2>3, <2>8
<1>. QED
  BY <1>1, <1>2

\* A thinned list of an ordered one is ordered, and has nothing new.
LEMMA ThinnedIsOrdered ==
  ASSUME NEW ms \in Seq(Draft), NEW ns, Thinned(ns, ms)
  PROVE  /\ ns \in Seq(Draft) /\ Len(ns) <= Len(ms)
         /\ \A n \in DOMAIN ns : \E i \in DOMAIN ms : ns[n] = ms[i]
         /\ Ordered(ms) => Ordered(ns)
<1>1. ns \in Seq(Draft) /\ Len(ns) <= Len(ms)
  BY DEF Thinned
<1>2. PICK at \in [1..Len(ns) -> 1..Len(ms)] :
          /\ \A n \in 1..Len(ns) : ns[n] = ms[at[n]]
          /\ \A m, n \in 1..Len(ns) : m < n => at[m] < at[n]
  BY DEF Thinned
<1>3. DOMAIN ns = 1..Len(ns) /\ DOMAIN ms = 1..Len(ms)
  BY <1>1
<1>. QED
  BY <1>1, <1>2, <1>3 DEF Ordered

\* Pruning as a whole.
LEMMA PrunedIs ==
  ASSUME MessageBounds, NEW ms \in Seq(Draft)
  PROVE  LET ns == Newest(Retained(ms))
         IN  /\ ns \in Seq(Draft) /\ Len(ns) <= MaxStored /\ Len(ns) <= Len(ms)
             /\ \A n \in DOMAIN ns : \E i \in DOMAIN ms : ns[n] = ms[i]
             /\ Ordered(ms) => Ordered(ns)
<1>1. PICK rs, ns : rs = Retained(ms) /\ ns = Newest(rs)
  OBVIOUS
<1>2. /\ rs \in Seq(Draft) /\ Len(rs) <= Len(ms)
      /\ \A n \in DOMAIN rs : \E i \in DOMAIN ms : rs[n] = ms[i]
      /\ Ordered(ms) => Ordered(rs)
  BY <1>1, RetainedIsThinned, ThinnedIsOrdered
<1>3. /\ ns \in Seq(Draft) /\ Len(ns) <= Len(rs) /\ Len(ns) <= MaxStored
      /\ \A n \in DOMAIN ns : \E i \in DOMAIN rs : ns[n] = rs[i]
      /\ Ordered(rs) => Ordered(ns)
  BY <1>1, <1>2, NewestIsThinned, ThinnedIsOrdered
<1>4. Len(ns) <= Len(ms)
  BY <1>2, <1>3
<1>. QED
  BY <1>1, <1>2, <1>3, <1>4

-----------------------------------------------------------------------------
(* The file                                                                *)

\* The files, of any sequence.
Histories == [latest : Nat, revision : Nat, readThrough : Nat, messages : Seq(Draft)]
\* Sequences that were given.
InRange(f) == \A i \in DOMAIN f.messages : f.messages[i].seq \in 1..f.latest

\* validateMessageFile, in the words of these proofs.
LEMMA Validity ==
  ASSUME NEW f
  PROVE  ValidFile(f) <=> /\ f.readThrough <= f.latest /\ Len(f.messages) <= MaxStored
                          /\ Ordered(f.messages) /\ InRange(f)
BY DEF ValidFile, Ordered, InRange

\* A history that is typed is a file.
LEMMA HistoryIsFile ==
  ASSUME MessageBounds, MessageTypeOK
  PROVE  history \in Histories
<1>1. MaxSequence \in Nat
  BY DEF MessageBounds
<1>2. ASSUME NEW ms \in Seq(Message) PROVE ms \in Seq(Draft)
  <2>1. ms \in [1..Len(ms) -> Message] /\ Len(ms) \in Nat
    OBVIOUS
  <2>2. \A i \in 1..Len(ms) : ms[i] \in Draft
    BY <1>1, <2>1 DEF Message, Draft
  <2>. QED
    BY <2>1, <2>2
<1>3. history.latest \in Nat /\ history.revision \in Nat /\ history.readThrough \in Nat
      /\ history.messages \in Seq(Message)
  BY <1>1 DEF MessageTypeOK
<1>4. history.messages \in Seq(Draft)
  BY <1>2, <1>3
<1>. QED
  BY <1>3, <1>4 DEF MessageTypeOK, Histories

\* A file with another list.
LEMMA WithMessages ==
  ASSUME NEW f \in Histories, NEW ms \in Seq(Draft), NEW g, g = [f EXCEPT !.messages = ms]
  PROVE  /\ g \in Histories /\ g.messages = ms /\ g.latest = f.latest
         /\ g.revision = f.revision /\ g.readThrough = f.readThrough
BY DEF Histories

\* Every change of the file counts in its revision, and in nothing else.
LEMMA Bumped ==
  ASSUME NEW f \in Histories
  PROVE  /\ Bump(f) \in Histories /\ Bump(f).revision = f.revision + 1 /\ Bump(f).latest = f.latest
         /\ Bump(f).readThrough = f.readThrough /\ Bump(f).messages = f.messages
BY DEF Bump, Histories

\* Pruning changes the list only, and keeps the file valid.
LEMMA PrunedFile ==
  ASSUME MessageBounds, NEW f \in Histories
  PROVE  LET g == Prune(f)
         IN  /\ g \in Histories /\ g.latest = f.latest /\ g.revision = f.revision /\ g.readThrough = f.readThrough
             /\ Len(g.messages) <= MaxStored
             /\ \A n \in DOMAIN g.messages : \E i \in DOMAIN f.messages : g.messages[n] = f.messages[i]
             /\ Ordered(f.messages) => Ordered(g.messages)
             /\ InRange(f) => InRange(g)
<1>1. PICK ms, ns : ms = f.messages /\ ns = Newest(Retained(ms))
  OBVIOUS
<1>2. ms \in Seq(Draft)
  BY <1>1 DEF Histories
<1>3. /\ ns \in Seq(Draft) /\ Len(ns) <= MaxStored
      /\ \A n \in DOMAIN ns : \E i \in DOMAIN ms : ns[n] = ms[i]
      /\ Ordered(ms) => Ordered(ns)
  BY <1>1, <1>2, PrunedIs
<1>4. PICK g : g = Prune(f)
  OBVIOUS
<1>5. g = [f EXCEPT !.messages = ns]
  BY <1>1, <1>4 DEF Prune
<1>6. /\ g \in Histories /\ g.messages = ns /\ g.latest = f.latest
      /\ g.revision = f.revision /\ g.readThrough = f.readThrough
  BY <1>3, <1>5, WithMessages
<1>7. InRange(f) => InRange(g)
  BY <1>1, <1>3, <1>6 DEF InRange
<1>. QED
  BY <1>1, <1>3, <1>4, <1>6, <1>7

\* A file that may replace the history: forward, with nothing new but the message
\* that is appended, which is unread.
Continues(f) ==
    /\ f \in Histories /\ f.revision = history.revision + 1
    /\ f.latest \in {history.latest, history.latest + 1}
    /\ f.readThrough >= history.readThrough
    /\ \A i \in DOMAIN f.messages :
          \/ \E j \in DOMAIN history.messages : f.messages[i] = history.messages[j]
          \/ /\ f.latest = history.latest + 1 /\ f.messages[i].seq = f.latest
             /\ f.readThrough = history.readThrough

\* What a restart and a known key save.
LEMMA PruneContinues ==
  ASSUME MessageBounds, MessageTypeOK, ValidFile(history)
  PROVE  ValidFile(Prune(history)) /\ Continues(Bump(Prune(history))) /\ Bump(Prune(history)).latest = history.latest
<1>1. PICK g, h : g = Prune(history) /\ h = Bump(g)
  OBVIOUS
<1>2. history \in Histories
  BY HistoryIsFile
<1>3. /\ g \in Histories /\ g.latest = history.latest /\ g.revision = history.revision
      /\ g.readThrough = history.readThrough
      /\ Len(g.messages) <= MaxStored
      /\ \A n \in DOMAIN g.messages : \E i \in DOMAIN history.messages : g.messages[n] = history.messages[i]
      /\ Ordered(history.messages) => Ordered(g.messages)
      /\ InRange(history) => InRange(g)
  BY <1>1, <1>2, PrunedFile
<1>4. ValidFile(g)
  BY <1>3, Validity
<1>5. /\ h \in Histories /\ h.revision = g.revision + 1 /\ h.latest = g.latest
      /\ h.readThrough = g.readThrough /\ h.messages = g.messages
  BY <1>1, <1>3, Bumped
<1>6. h.readThrough >= history.readThrough
  BY <1>2, <1>3, <1>5 DEF Histories
<1>7. Continues(h)
  BY <1>3, <1>5, <1>6 DEF Continues
<1>. QED
  BY <1>1, <1>3, <1>4, <1>5, <1>7

\* The next sequence is above all that were given, and the key is new: the file
\* that AppendMessage makes is valid, however old the history is.
LEMMA AppendContinues ==
  ASSUME MessageBounds, MessageTypeOK, ValidFile(history), NEW k \in Keys, ~Duplicate(k)
  PROVE  ValidFile(Appended(k)) /\ Continues(Appended(k)) /\ Appended(k).latest = history.latest + 1
<1>1. PICK f, r : f = Prune(history) /\ r = [key |-> k, seq |-> f.latest + 1, old |-> FALSE]
  OBVIOUS
<1>2. history \in Histories
  BY HistoryIsFile
<1>3. /\ f \in Histories /\ f.latest = history.latest /\ f.revision = history.revision
      /\ f.readThrough = history.readThrough
      /\ \A n \in DOMAIN f.messages : \E i \in DOMAIN history.messages : f.messages[n] = history.messages[i]
      /\ Ordered(history.messages) => Ordered(f.messages)
      /\ InRange(history) => InRange(f)
  BY <1>1, <1>2, PrunedFile
<1>4. Ordered(f.messages) /\ InRange(f)
  BY <1>3, Validity
<1>5. f.latest \in Nat /\ r \in Draft /\ r.seq = f.latest + 1 /\ r.key = k
  BY <1>1, <1>3 DEF Histories, Draft
<1>6. PICK fs, ms : fs = f.messages /\ ms = Append(fs, r)
  OBVIOUS
<1>7. fs \in Seq(Draft)
  BY <1>3, <1>6 DEF Histories
<1>8. /\ ms \in Seq(Draft) /\ Len(ms) = Len(fs) + 1 /\ DOMAIN ms = 1..Len(fs) + 1 /\ DOMAIN fs = 1..Len(fs)
      /\ Len(fs) \in Nat
      /\ ms[Len(fs) + 1] = r /\ \A n \in 1..Len(fs) : ms[n] = fs[n]
  BY <1>5, <1>6, <1>7
<1>9. \A n \in DOMAIN ms : n \in DOMAIN fs \/ n = Len(fs) + 1
  BY <1>8
<1>10. \A n \in DOMAIN fs : fs[n].key # k /\ fs[n].seq \in 1..f.latest
  BY <1>1, <1>4, <1>6 DEF Duplicate, KeysOf, InRange
<1>11. Ordered(ms)
  <2>1. ASSUME NEW i \in DOMAIN ms, NEW j \in DOMAIN ms, i < j
        PROVE  ms[i].seq < ms[j].seq /\ ms[i].key # ms[j].key
    <3>1. i \in DOMAIN fs
      BY <1>8, <2>1
    <3>2. CASE j \in DOMAIN fs
      BY <1>4, <1>6, <1>8, <2>1, <3>1, <3>2 DEF Ordered
    <3>3. CASE j = Len(fs) + 1
      BY <1>5, <1>8, <1>10, <3>1, <3>3
    <3>. QED
      BY <1>9, <3>2, <3>3
  <2>. QED
    BY <2>1 DEF Ordered
<1>12. PICK g : g = [f EXCEPT !.latest = f.latest + 1, !.messages = ms]
  OBVIOUS
<1>13. /\ g \in Histories /\ g.latest = history.latest + 1 /\ g.revision = history.revision
       /\ g.readThrough = history.readThrough /\ g.messages = ms
  <2>1. f.latest + 1 \in Nat /\ f.latest + 1 = history.latest + 1
    BY <1>3, <1>5
  <2>2. ms \in Seq(Draft)
    BY <1>8
  <2>3. /\ g \in Histories /\ g.latest = f.latest + 1 /\ g.revision = f.revision
        /\ g.readThrough = f.readThrough /\ g.messages = ms
    BY <1>3, <1>12, <2>1, <2>2 DEF Histories
  <2>. QED
    BY <1>3, <2>1, <2>3
<1>14. InRange(g)
  <2>1. ASSUME NEW n \in DOMAIN ms PROVE ms[n].seq \in 1..(f.latest + 1)
    BY <1>5, <1>8, <1>9, <1>10
  <2>. QED
    BY <1>3, <1>13, <2>1 DEF InRange
<1>15. PICK p, h : p = Prune(g) /\ h = Bump(p)
  OBVIOUS
<1>16. /\ p \in Histories /\ p.latest = g.latest /\ p.revision = g.revision /\ p.readThrough = g.readThrough
       /\ Len(p.messages) <= MaxStored
       /\ \A n \in DOMAIN p.messages : \E i \in DOMAIN ms : p.messages[n] = ms[i]
       /\ Ordered(p.messages) /\ InRange(p)
  BY <1>11, <1>13, <1>14, <1>15, PrunedFile
<1>17. /\ h \in Histories /\ h.revision = p.revision + 1 /\ h.latest = p.latest
       /\ h.readThrough = p.readThrough /\ h.messages = p.messages
  BY <1>15, <1>16, Bumped
<1>18. h = Appended(k)
  BY <1>1, <1>6, <1>12, <1>15 DEF Appended
<1>19. ValidFile(h)
  <2>1. h.readThrough <= h.latest
    <3>1. history.readThrough <= history.latest
      BY Validity
    <3>. QED
      BY <1>2, <1>13, <1>16, <1>17, <3>1 DEF Histories
  <2>. QED
    BY <1>16, <1>17, <2>1, Validity DEF InRange
<1>20. Continues(h)
  <2>1. ASSUME NEW i \in DOMAIN ms
        PROVE  \/ \E j \in DOMAIN history.messages : ms[i] = history.messages[j]
               \/ ms[i].seq = history.latest + 1
    <3>1. CASE i \in DOMAIN fs
      BY <1>3, <1>6, <1>8, <3>1
    <3>2. CASE i = Len(fs) + 1
      BY <1>3, <1>5, <1>8, <3>2
    <3>. QED
      BY <1>9, <3>1, <3>2
  <2>2. h.readThrough >= history.readThrough
    BY <1>2, <1>13, <1>16, <1>17 DEF Histories
  <2>. QED
    BY <1>13, <1>16, <1>17, <2>1, <2>2 DEF Continues
<1>. QED
  BY <1>13, <1>16, <1>17, <1>18, <1>19, <1>20

\* Read marks, deletions and clearing.
LEMMA MarkContinues ==
  ASSUME MessageBounds, MessageTypeOK, ValidFile(history), NEW to \in Nat,
         to > history.readThrough, to <= history.latest, NEW h,
         h = Bump([history EXCEPT !.readThrough = to])
  PROVE  ValidFile(h) /\ Continues(h) /\ h.latest = history.latest
<1>1. history \in Histories
  BY HistoryIsFile
<1>2. PICK g : g = [history EXCEPT !.readThrough = to]
  OBVIOUS
<1>3. /\ g \in Histories /\ g.latest = history.latest /\ g.revision = history.revision
      /\ g.readThrough = to /\ g.messages = history.messages
  BY <1>1, <1>2 DEF Histories
<1>4. /\ h \in Histories /\ h.revision = g.revision + 1 /\ h.latest = g.latest
      /\ h.readThrough = g.readThrough /\ h.messages = g.messages
  BY <1>2, <1>3, Bumped
<1>5. history.readThrough \in Nat /\ to >= history.readThrough
  BY <1>1 DEF Histories
<1>. QED
  BY <1>3, <1>4, <1>5, Validity DEF Continues, InRange

\* A deletion is a thinning.
LEMMA DeleteContinues ==
  ASSUME MessageBounds, MessageTypeOK, ValidFile(history), NEW i \in DOMAIN history.messages, NEW h,
         h = Bump([history EXCEPT !.messages = RemoveAt(@, i)])
  PROVE  ValidFile(h) /\ Continues(h) /\ h.latest = history.latest
<1>1. history \in Histories
  BY HistoryIsFile
<1>2. PICK ms, ns : ms = history.messages /\ ns = RemoveAt(ms, i)
  OBVIOUS
<1>3. ms \in Seq(Draft) /\ i \in 1..Len(ms) /\ Len(ms) \in Nat
  BY <1>1, <1>2 DEF Histories
<1>4. /\ ns \in Seq(Draft) /\ Len(ns) = Len(ms) - 1
      /\ \A n \in 1..Len(ns) : ns[n] = IF n < i THEN ms[n] ELSE ms[n + 1]
  <2>1. PICK a, b : a = SubSeq(ms, 1, i - 1) /\ b = SubSeq(ms, i + 1, Len(ms))
    OBVIOUS
  <2>2. a \in Seq(Draft) /\ Len(a) = i - 1 /\ \A n \in 1..(i - 1) : a[n] = ms[n]
    BY <1>3, <2>1
  <2>3. b \in Seq(Draft) /\ Len(b) = Len(ms) - i /\ \A n \in 1..(Len(ms) - i) : b[n] = ms[n + i]
    BY <1>3, <2>1
  <2>4. ns = a \o b
    BY <1>2, <2>1 DEF RemoveAt
  <2>5. ns \in Seq(Draft) /\ Len(ns) = Len(ms) - 1
    BY <1>3, <2>2, <2>3, <2>4
  <2>6. ASSUME NEW n \in 1..Len(ns) PROVE ns[n] = IF n < i THEN ms[n] ELSE ms[n + 1]
    <3>1. CASE n < i
      BY <1>3, <2>2, <2>3, <2>4, <2>5, <3>1
    <3>2. CASE ~(n < i)
      <4>1. n - (i - 1) \in 1..(Len(ms) - i) /\ n - (i - 1) + i = n + 1
        BY <1>3, <2>5, <3>2
      <4>2. ns[n] = b[n - (i - 1)]
        <5>1. n \in 1..(Len(a) + Len(b)) /\ ~(n <= Len(a)) /\ Len(a) = i - 1
          BY <1>3, <2>2, <2>3, <2>5, <3>2
        <5>2. (a \o b)[n] = b[n - Len(a)]
          BY <2>2, <2>3, <5>1
        <5>. QED
          BY <2>4, <5>1, <5>2
      <4>. QED
        BY <2>3, <3>2, <4>1, <4>2
    <3>. QED
      BY <3>1, <3>2
  <2>. QED
    BY <2>5, <2>6
<1>5. Thinned(ns, ms)
  <2>1. PICK at : at = [n \in 1..Len(ns) |-> IF n < i THEN n ELSE n + 1]
    OBVIOUS
  <2>2. at \in [1..Len(ns) -> 1..Len(ms)]
    BY <1>3, <1>4, <2>1
  <2>3. \A n \in 1..Len(ns) : ns[n] = ms[at[n]]
    BY <1>4, <2>1
  <2>4. \A m, n \in 1..Len(ns) : m < n => at[m] < at[n]
    BY <1>3, <1>4, <2>1
  <2>5. Len(ns) <= Len(ms)
    BY <1>3, <1>4
  <2>. QED
    BY <1>4, <2>2, <2>3, <2>4, <2>5 DEF Thinned
<1>6. /\ \A n \in DOMAIN ns : \E j \in DOMAIN ms : ns[n] = ms[j]
      /\ Ordered(ms) => Ordered(ns)
  BY <1>3, <1>5, ThinnedIsOrdered
<1>7. PICK g : g = [history EXCEPT !.messages = ns]
  OBVIOUS
<1>8. /\ g \in Histories /\ g.messages = ns /\ g.latest = history.latest
      /\ g.revision = history.revision /\ g.readThrough = history.readThrough
  BY <1>1, <1>4, <1>7, WithMessages
<1>9. h = Bump(g)
  BY <1>2, <1>7
<1>10. /\ h \in Histories /\ h.revision = g.revision + 1 /\ h.latest = g.latest
       /\ h.readThrough = g.readThrough /\ h.messages = g.messages
  BY <1>8, <1>9, Bumped
<1>11. /\ history.readThrough >= history.readThrough /\ MaxStored \in Nat
  BY <1>1 DEF Histories, MessageBounds
<1>12. Len(ns) <= MaxStored
  <2>1. Len(ms) <= MaxStored
    BY <1>2, Validity
  <2>. QED
    BY <1>3, <1>4, <1>11, <2>1
<1>13. InRange(h)
  <2>1. InRange(history)
    BY Validity
  <2>. QED
    BY <1>2, <1>6, <1>8, <1>10, <2>1 DEF InRange
<1>14. ValidFile(h)
  BY <1>2, <1>6, <1>8, <1>10, <1>12, <1>13, Validity
<1>15. Continues(h)
  BY <1>2, <1>6, <1>8, <1>10, <1>11 DEF Continues
<1>. QED
  BY <1>8, <1>10, <1>14, <1>15

\* A cleared history keeps its latest sequence, all of it read.
LEMMA ClearContinues ==
  ASSUME MessageBounds, MessageTypeOK, ValidFile(history), NEW h,
         h = Bump([history EXCEPT !.messages = <<>>, !.readThrough = history.latest])
  PROVE  ValidFile(h) /\ Continues(h) /\ h.latest = history.latest
<1>1. history \in Histories
  BY HistoryIsFile
<1>2. PICK g : g = [history EXCEPT !.messages = <<>>, !.readThrough = history.latest]
  OBVIOUS
<1>3. /\ g \in Histories /\ g.latest = history.latest /\ g.revision = history.revision
      /\ g.readThrough = history.latest /\ g.messages = <<>>
  <2>1. <<>> \in Seq(Draft)
    OBVIOUS
  <2>. QED
    BY <1>1, <1>2, <2>1 DEF Histories
<1>4. /\ h \in Histories /\ h.revision = g.revision + 1 /\ h.latest = g.latest
      /\ h.readThrough = g.readThrough /\ h.messages = g.messages
  BY <1>2, <1>3, Bumped
<1>5. /\ history.latest \in Nat /\ history.latest <= history.latest
      /\ history.latest >= history.readThrough /\ MaxStored \in Nat
  <2>1. history.readThrough <= history.latest
    BY Validity
  <2>. QED
    BY <1>1, <2>1 DEF Histories, MessageBounds
<1>6. Len(h.messages) = 0 /\ DOMAIN h.messages = {}
  BY <1>3, <1>4
<1>7. Ordered(h.messages) /\ InRange(h)
  BY <1>6 DEF Ordered, InRange
<1>8. Len(h.messages) <= MaxStored
  BY <1>5, <1>6
<1>. QED
  BY <1>3, <1>4, <1>5, <1>6, <1>7, <1>8, Validity DEF Continues

-----------------------------------------------------------------------------
(* The invariant                                                           *)

\* The revision a client holds is none the file has yet to take.
CacheInv == cache.revision \in Nat /\ cache.revision <= history.revision /\ RevisionIdentifies

\* A paging has seen only what is at or after its cursor, and began at a sequence that
\* was given.
PagingInv ==
    /\ PagingIsExact /\ paging.from <= history.latest
    /\ paging.on => paging.before # 0 /\ \A i \in DOMAIN paging.seen : paging.seen[i] >= paging.before
    /\ ~paging.on => paging.before = 0

\* What was pushed was given a sequence.
PushInv == PushedOnce /\ \A i \in DOMAIN pushed : pushed[i] <= history.latest

MessageInv == MessageTypeOK /\ ValidFile(history) /\ CacheInv /\ PagingInv /\ PushInv

\* A valid file within the bound of the model is typed.
LEMMA FileIsTyped ==
  ASSUME MessageBounds, NEW f \in Histories, ValidFile(f), f.latest <= MaxSequence
  PROVE  f \in [latest : 0..MaxSequence, revision : Nat, readThrough : Nat, messages : Seq(Message)]
<1>1. MaxSequence \in Nat /\ f.latest \in 0..MaxSequence
  BY DEF MessageBounds, Histories
<1>2. PICK ms : ms = f.messages
  OBVIOUS
<1>3. ms \in Seq(Draft) /\ ms \in [1..Len(ms) -> Draft] /\ Len(ms) \in Nat
  BY <1>2 DEF Histories
<1>4. ASSUME NEW i \in 1..Len(ms) PROVE ms[i] \in Message
  <2>1. ms[i].seq \in 1..f.latest /\ ms[i] \in Draft
    BY <1>2, <1>3, Validity DEF InRange
  <2>2. ms[i].seq \in 1..MaxSequence
    BY <1>1, <2>1
  <2>. QED
    BY <2>1, <2>2 DEF Draft, Message
<1>5. ms \in Seq(Message)
  BY <1>3, <1>4
<1>. QED
  BY <1>1, <1>2, <1>5 DEF Histories

\* The numbers of a valid history.
LEMMA SeqsOfHistory ==
  ASSUME MessageBounds, MessageTypeOK, ValidFile(history)
  PROVE  /\ history.latest \in Nat /\ history.readThrough \in Nat /\ history.revision \in Nat
         /\ history.readThrough <= history.latest /\ history.latest <= MaxSequence /\ MaxSequence \in Nat
         /\ \A s \in Seqs(history.messages) : s \in Nat /\ s >= 1 /\ s <= history.latest
<1>1. history \in Histories /\ history.latest <= MaxSequence /\ MaxSequence \in Nat
  BY HistoryIsFile DEF MessageTypeOK, MessageBounds
<1>2. history.latest \in Nat /\ history.readThrough \in Nat /\ history.revision \in Nat
  BY <1>1 DEF Histories
<1>3. \A i \in DOMAIN history.messages : history.messages[i].seq \in 1..history.latest
  BY Validity DEF InRange
<1>. QED
  BY <1>1, <1>2, <1>3, Validity DEF Seqs

\* A file that continues the history replaces it.
LEMMA Replaced ==
  ASSUME MessageBounds, MessageInv, NEW f, ValidFile(f), Continues(f), f.latest <= MaxSequence,
         history' = f, messageFaults' \in 0..MaxMessageFaults, UNCHANGED <<paging, cache>>,
         \/ UNCHANGED pushed
         \/ pushed' = Append(pushed, f.latest) /\ f.latest = history.latest + 1
  PROVE  MessageInv' /\ ReadStaysRead /\ NewIsUnread
<1>1. /\ history.latest \in Nat /\ history.readThrough \in Nat /\ history.revision \in Nat
      /\ history.readThrough <= history.latest /\ MaxSequence \in Nat
  BY SeqsOfHistory DEF MessageInv
<1>2. /\ f \in Histories /\ f.latest \in Nat /\ f.readThrough \in Nat
      /\ f.latest >= history.latest /\ f.latest <= MaxSequence
  BY <1>1 DEF Continues, Histories
<1>3. \/ pushed' = pushed
      \/ pushed' = Append(pushed, f.latest) /\ f.latest = history.latest + 1
  OBVIOUS
<1>4. pushed \in Seq(1..MaxSequence) /\ PushInv /\ PushedOnce
  BY DEF MessageInv, MessageTypeOK, PushInv
<1>5. pushed' \in Seq(1..MaxSequence)
  <2>1. CASE pushed' = pushed
    BY <1>4, <2>1
  <2>2. CASE pushed' = Append(pushed, f.latest) /\ f.latest = history.latest + 1
    <3>1. f.latest \in 1..MaxSequence
      BY <1>1, <1>2, <2>2
    <3>2. Append(pushed, f.latest) \in Seq(1..MaxSequence)
      BY <1>4, <3>1
    <3>. QED
      BY <2>2, <3>2
  <2>. QED
    BY <1>3, <2>1, <2>2
<1>6. MessageTypeOK'
  <2>1. history' \in [latest : 0..MaxSequence, revision : Nat, readThrough : Nat, messages : Seq(Message)]
    BY <1>2, FileIsTyped
  <2>. QED
    BY <1>5, <2>1 DEF MessageInv, MessageTypeOK
<1>7. CacheInv'
  <2>1. cache.revision \in Nat /\ cache.revision <= history.revision
    BY DEF MessageInv, CacheInv
  <2>2. history'.revision = history.revision + 1
    BY DEF Continues
  <2>. QED
    BY <1>1, <2>1, <2>2 DEF CacheInv, RevisionIdentifies
<1>8. \A s \in Seqs(f.messages) : s \in Seqs(history.messages) \/ s = history.latest + 1
  BY DEF Continues, Seqs
<1>9. PagingInv'
  <2>1. paging.from \in Nat /\ paging.from <= history.latest /\ PagingInv /\ PagingIsExact
    BY DEF MessageInv, MessageTypeOK, PagingInv
  <2>2. paging'.from <= history'.latest
    BY <1>1, <1>2, <2>1
  <2>3. ASSUME NEW s \in Seqs(f.messages), s <= paging.from, paging.on => s >= paging.before
        PROVE  s \in ToSet(paging.seen)
    <3>1. s \in Seqs(history.messages)
      BY <1>1, <1>8, <2>1, <2>3
    <3>. QED
      BY <2>1, <2>3, <3>1 DEF PagingIsExact
  <2>4. PagingIsExact'
    BY <2>1, <2>3 DEF PagingIsExact
  <2>. QED
    BY <2>1, <2>2, <2>4 DEF PagingInv
<1>10. PushInv'
  <2>1. /\ DOMAIN pushed = 1..Len(pushed) /\ Len(pushed) \in Nat
        /\ \A i \in DOMAIN pushed : pushed[i] \in Nat /\ pushed[i] <= history.latest
    BY <1>1, <1>4 DEF PushInv
  <2>2. CASE pushed' = pushed
    <3>1. \A i \in DOMAIN pushed : pushed[i] <= f.latest
      BY <1>1, <1>2, <2>1
    <3>. QED
      BY <1>4, <2>2, <3>1 DEF PushInv, PushedOnce
  <2>3. CASE pushed' = Append(pushed, f.latest) /\ f.latest = history.latest + 1
    <3>1. /\ DOMAIN pushed' = 1..(Len(pushed) + 1) /\ pushed'[Len(pushed) + 1] = f.latest
          /\ \A i \in DOMAIN pushed : pushed'[i] = pushed[i]
      BY <1>4, <2>1, <2>3
    <3>2. \A i \in DOMAIN pushed' : i \in DOMAIN pushed \/ i = Len(pushed) + 1
      BY <2>1, <3>1
    <3>3. \A i \in DOMAIN pushed' : pushed'[i] <= f.latest
      BY <1>1, <1>2, <2>1, <2>3, <3>1, <3>2
    <3>4. ASSUME NEW i \in DOMAIN pushed', NEW j \in DOMAIN pushed', i < j PROVE pushed'[i] < pushed'[j]
      <4>1. i \in DOMAIN pushed
        BY <2>1, <3>1, <3>4
      <4>2. CASE j \in DOMAIN pushed
        BY <1>4, <3>1, <3>4, <4>1, <4>2 DEF PushedOnce
      <4>3. CASE j = Len(pushed) + 1
        BY <1>1, <2>1, <2>3, <3>1, <4>1, <4>3
      <4>. QED
        BY <3>2, <4>2, <4>3
    <3>. QED
      BY <3>3, <3>4 DEF PushInv, PushedOnce
  <2>. QED
    BY <1>3, <2>2, <2>3
<1>11. ReadStaysRead
  <2>1. ASSUME NEW s \in Seqs(history.messages), s <= history.readThrough PROVE s <= f.readThrough
    <3>1. s \in Nat /\ f.readThrough >= history.readThrough
      BY SeqsOfHistory DEF MessageInv, Continues
    <3>. QED
      BY <1>1, <1>2, <2>1, <3>1
  <2>. QED
    BY <2>1 DEF ReadStaysRead
<1>12. NewIsUnread
  <2>1. ASSUME NEW i \in DOMAIN f.messages, f.messages[i].key \notin KeysOf(history)
        PROVE  f.messages[i].seq > f.readThrough
    <3>1. ~\E j \in DOMAIN history.messages : f.messages[i] = history.messages[j]
      BY <2>1 DEF KeysOf
    <3>2. f.messages[i].seq = history.latest + 1 /\ f.readThrough = history.readThrough
      BY <3>1 DEF Continues
    <3>. QED
      BY <1>1, <3>2
  <2>. QED
    BY <2>1 DEF NewIsUnread
<1>13. ValidFile(history)'
  BY DEF ValidFile
<1>. QED
  BY <1>6, <1>7, <1>9, <1>10, <1>11, <1>12, <1>13 DEF MessageInv

\* A write that left the old file.
LEMMA Untouched ==
  ASSUME MessageBounds, MessageInv, messageFaults' \in 0..MaxMessageFaults,
         UNCHANGED <<history, pushed, paging, cache>>
  PROVE  MessageInv' /\ ReadStaysRead /\ NewIsUnread
<1>1. MessageInv'
  BY DEF MessageInv, MessageTypeOK, ValidFile, CacheInv, RevisionIdentifies, Content, PagingInv, PagingIsExact,
         Seqs, PushInv, PushedOnce
<1>. QED
  BY <1>1 DEF ReadStaysRead, NewIsUnread, KeysOf

\* The faults stay within their bound, and the file is replaced or not.
LEMMA SaveIs ==
  ASSUME MessageBounds, MessageTypeOK, NEW f, ValidFile(f), Save(f)
  PROVE  messageFaults' \in 0..MaxMessageFaults /\ history' \in {history, f}
<1>1. MaxMessageFaults \in Nat /\ messageFaults \in 0..MaxMessageFaults
  BY DEF MessageBounds, MessageTypeOK
<1>. QED
  BY <1>1 DEF Save, Saved, SaveFails

\* A save that adds nothing keeps the invariant, also when it fails.
LEMMA SaveKeeps ==
  ASSUME MessageBounds, MessageInv, NEW f, ValidFile(f), Continues(f), f.latest <= MaxSequence, Save(f),
         UNCHANGED <<pushed, paging, cache>>
  PROVE  MessageInv' /\ ReadStaysRead /\ NewIsUnread
<1>1. messageFaults' \in 0..MaxMessageFaults /\ history' \in {history, f}
  BY SaveIs DEF MessageInv
<1>2. CASE history' = history
  BY <1>1, <1>2, Untouched
<1>3. CASE history' = f
  BY <1>1, <1>3, Replaced
<1>. QED
  BY <1>1, <1>2, <1>3

-----------------------------------------------------------------------------
(* One lemma per action that is not a save alone                           *)

\* The newest of some sequences.
LEMMA NewestIs ==
  ASSUME NEW k \in Nat, NEW S \in SUBSET (1..k), S # {}
  PROVE  NewestOf(S) \in S /\ \A t \in S : t <= NewestOf(S)
<1>1. IsFiniteSet(S) /\ Cardinality(S) \in Nat /\ \A i \in S : i \in Nat
  BY IndicesFinite
<1>2. Cardinality(S) \in 1..Cardinality(S)
  <2>1. Cardinality(S) # 0
    BY <1>1, FS_EmptySet
  <2>. QED
    BY <1>1, <2>1
<1>3. PICK s \in S : Cardinality({j \in S : j <= s}) = Cardinality(S)
  BY <1>2, NthExists
<1>4. {j \in S : j <= s} = S
  <2>1. {j \in S : j <= s} \in SUBSET S
    OBVIOUS
  <2>. QED
    BY <1>1, <1>3, <2>1, FS_Subset
<1>5. \A t \in S : t <= s
  BY <1>4
<1>. QED
  BY <1>5 DEF NewestOf

\* A page goes on below the cursor, with the newest message there.
LEMMA PageKeeps ==
  ASSUME MessageBounds, MessageInv, ListPage
  PROVE  MessageInv'
<1>1. /\ history.latest \in Nat /\ history.latest <= MaxSequence /\ MaxSequence \in Nat
      /\ \A s \in Seqs(history.messages) : s \in Nat /\ s >= 1 /\ s <= history.latest
  BY SeqsOfHistory DEF MessageInv
<1>2. PICK older, before, seen0, from0 :
          /\ older = Older(paging.before) /\ before = paging.before
          /\ seen0 = (IF ~paging.on THEN <<>> ELSE paging.seen)
          /\ from0 = (IF ~paging.on THEN history.latest ELSE paging.from)
  OBVIOUS
<1>3. PICK s, more : s = NewestOf(older) /\ more = (older # {} /\ HasMore(before, s))
  OBVIOUS
<1>4. paging' = [on |-> more, before |-> IF more THEN s ELSE 0, from |-> from0,
                 seen |-> seen0 \o (IF older = {} THEN <<>> ELSE <<s>>)]
  BY <1>2, <1>3 DEF ListPage, NextBefore
<1>5. /\ history' = history /\ pushed' = pushed /\ cache' = cache /\ messageFaults' = messageFaults
  BY DEF ListPage
<1>6. /\ paging.before \in 0..MaxSequence /\ paging.from \in 0..MaxSequence
      /\ paging.seen \in Seq(1..MaxSequence) /\ paging.on \in BOOLEAN
  BY DEF MessageInv, MessageTypeOK
<1>7. PICK S : S = Seqs(history.messages)
  OBVIOUS
<1>8. /\ older = {t \in S : before = 0 \/ t < before} /\ older \in SUBSET (1..history.latest)
      /\ before \in Nat /\ from0 \in 0..MaxSequence /\ from0 <= history.latest
      /\ \A t \in S : t \in Nat /\ t >= 1 /\ t <= history.latest
  <2>1. older = {t \in S : before = 0 \/ t < before}
    BY <1>2, <1>7 DEF Older
  <2>2. \A t \in older : t \in 1..history.latest
    BY <1>1, <1>7, <2>1
  <2>3. paging.from <= history.latest
    BY DEF MessageInv, PagingInv
  <2>. QED
    BY <1>1, <1>2, <1>6, <1>7, <2>1, <2>2, <2>3
<1>9. older # {} => s \in older /\ \A t \in older : t <= s
  BY <1>1, <1>3, <1>8, NewestIs
<1>10. more = (older # {} /\ \E t \in S : t < s)
  BY <1>3, <1>7 DEF HasMore
<1>11. /\ seen0 \in Seq(1..MaxSequence)
       /\ \A i, j \in DOMAIN seen0 : i < j => seen0[i] > seen0[j]
       /\ \A i \in DOMAIN seen0 : before # 0 /\ seen0[i] >= before
  <2>1. CASE paging.on
    BY <1>2, <1>6, <2>1 DEF MessageInv, PagingInv, PagingIsExact
  <2>2. CASE ~paging.on
    BY <1>2, <2>2
  <2>. QED
    BY <2>1, <2>2
<1>12. \A t \in S : t <= from0 => t \in ToSet(seen0) \/ t \in older
  <2>1. CASE paging.on
    <3>1. ASSUME NEW t \in S, t <= from0, t \notin older PROVE t \in ToSet(seen0)
      <4>1. t >= paging.before
        BY <1>2, <1>8, <3>1
      <4>. QED
        BY <1>2, <1>7, <2>1, <3>1, <4>1 DEF MessageInv, PagingInv, PagingIsExact
    <3>. QED
      BY <3>1
  <2>2. CASE ~paging.on
    <3>1. before = 0
      BY <1>2, <2>2 DEF MessageInv, PagingInv
    <3>. QED
      BY <1>8, <3>1
  <2>. QED
    BY <2>1, <2>2
<1>13. PICK last, seen1 : last = (IF more THEN s ELSE 0) /\ seen1 = seen0 \o (IF older = {} THEN <<>> ELSE <<s>>)
  OBVIOUS
<1>14. /\ paging'.on = more /\ paging'.before = last /\ paging'.from = from0 /\ paging'.seen = seen1
       /\ paging' = [on |-> more, before |-> last, from |-> from0, seen |-> seen1]
  BY <1>4, <1>13
<1>15. /\ seen1 \in Seq(1..MaxSequence) /\ last \in 0..MaxSequence /\ (more <=> last # 0)
       /\ \A i, j \in DOMAIN seen1 : i < j => seen1[i] > seen1[j]
       /\ \A i \in DOMAIN seen1 : seen1[i] >= last
       /\ \A t \in S : (t <= from0 /\ (more => t >= last)) => t \in ToSet(seen1)
  <2>0. \A i \in DOMAIN seen0 : seen0[i] \in Nat
    <3>1. PICK Z : Z = 1..MaxSequence
      OBVIOUS
    <3>2. seen0 \in Seq(Z)
      BY <1>11, <3>1
    <3>3. DOMAIN seen0 = 1..Len(seen0) /\ \A i \in 1..Len(seen0) : seen0[i] \in Z
      BY <3>2
    <3>4. \A z \in Z : z \in Nat
      BY <1>1, <3>1
    <3>. QED
      BY <3>3, <3>4
  <2>1. CASE older = {}
    <3>0. ~more
      BY <1>10, <2>1
    <3>1. seen1 = seen0 /\ last = 0 /\ ~more
      <4>1. seen1 = seen0 \o <<>>
        BY <1>13, <2>1
      <4>. QED
        BY <1>11, <1>13, <3>0, <4>1
    <3>. QED
      BY <1>1, <1>11, <1>12, <2>0, <2>1, <3>1
  <2>2. CASE older # {}
    <3>1. s \in S /\ s \in 1..MaxSequence /\ s \in Nat /\ s # 0 /\ \A t \in older : t <= s
      <4>1. s \in older /\ \A t \in older : t <= s
        BY <1>9, <2>2
      <4>2. s \in S /\ s \in Nat /\ s >= 1 /\ s <= history.latest
        BY <1>8, <4>1
      <4>3. s \in 1..MaxSequence /\ s # 0
        BY <1>1, <4>2
      <4>. QED
        BY <4>1, <4>2, <4>3
    <3>2. seen1 = Append(seen0, s)
      BY <1>11, <1>13, <2>2, <3>1
    <3>3. /\ Len(seen0) \in Nat /\ DOMAIN seen0 = 1..Len(seen0) /\ DOMAIN seen1 = 1..(Len(seen0) + 1)
          /\ seen1[Len(seen0) + 1] = s /\ \A i \in DOMAIN seen0 : seen1[i] = seen0[i]
          /\ seen1 \in Seq(1..MaxSequence)
      BY <1>11, <3>1, <3>2
    <3>4. \A i \in DOMAIN seen1 : i \in DOMAIN seen0 \/ i = Len(seen0) + 1
      BY <3>3
    <3>5. \A i \in DOMAIN seen0 : seen0[i] > s
      BY <1>8, <1>9, <1>11, <2>0, <2>2, <3>1
    <3>6. ASSUME NEW i \in DOMAIN seen1, NEW j \in DOMAIN seen1, i < j PROVE seen1[i] > seen1[j]
      <4>1. i \in DOMAIN seen0
        BY <3>3, <3>6
      <4>2. CASE j \in DOMAIN seen0
        BY <1>11, <3>3, <3>6, <4>1, <4>2
      <4>3. CASE j = Len(seen0) + 1
        BY <3>3, <3>5, <4>1, <4>3
      <4>. QED
        BY <3>4, <4>2, <4>3
    <3>7. (more <=> last # 0) /\ last \in 0..MaxSequence /\ (more => last = s)
      BY <1>1, <1>10, <1>13, <3>1
    <3>8. \A i \in DOMAIN seen1 : seen1[i] >= last
      <4>1. last = s \/ last = 0
        BY <1>13
      <4>. QED
        BY <2>0, <3>1, <3>3, <3>4, <3>5, <4>1
    <3>9. ASSUME NEW t \in S, t <= from0, more => t >= last PROVE t \in ToSet(seen1)
      <4>1. CASE t \in ToSet(seen0)
        BY <3>3, <4>1 DEF ToSet
      <4>2. CASE t \in older
        <5>1. t <= s /\ ~(t < s)
          <6>1. CASE more
            BY <1>8, <3>1, <3>7, <3>9, <4>2, <6>1
          <6>2. CASE ~more
            BY <1>8, <1>10, <2>2, <3>1, <4>2, <6>2
          <6>. QED
            BY <6>1, <6>2
        <5>2. t = s
          BY <1>8, <3>1, <5>1
        <5>3. Len(seen0) + 1 \in DOMAIN seen1
          BY <3>3
        <5>. QED
          BY <3>3, <5>2, <5>3 DEF ToSet
      <4>. QED
        BY <1>12, <3>9, <4>1, <4>2
    <3>. QED
      BY <3>3, <3>6, <3>7, <3>8, <3>9
  <2>. QED
    BY <2>1, <2>2
<1>16. MessageTypeOK'
  <2>1. more \in BOOLEAN
    BY <1>10
  <2>2. paging' \in [on : BOOLEAN, before : 0..MaxSequence, from : 0..MaxSequence, seen : Seq(1..MaxSequence)]
    BY <1>8, <1>14, <1>15, <2>1
  <2>. QED
    BY <1>5, <2>2 DEF MessageInv, MessageTypeOK
<1>17. PagingInv'
  <2>1. PagingIsExact'
    BY <1>5, <1>7, <1>14, <1>15 DEF PagingIsExact
  <2>2. paging'.from <= history'.latest
    BY <1>5, <1>8, <1>14
  <2>. QED
    BY <1>14, <1>15, <2>1, <2>2 DEF PagingInv
<1>18. ValidFile(history)' /\ CacheInv' /\ PushInv'
  BY <1>5 DEF MessageInv, ValidFile, CacheInv, RevisionIdentifies, Content, PushInv, PushedOnce
<1>. QED
  BY <1>16, <1>17, <1>18 DEF MessageInv

\* A reload takes the file as it is.
LEMMA ReloadKeeps ==
  ASSUME MessageBounds, MessageInv, Reload
  PROVE  MessageInv'
<1>1. history.revision \in Nat
  BY SeqsOfHistory DEF MessageInv
<1>2. /\ history' = history /\ pushed' = pushed /\ paging' = paging /\ messageFaults' = messageFaults
      /\ cache'.revision = history.revision /\ cache'.content = Content(history)
  BY DEF Reload
<1>3. CacheInv'
  <2>1. cache'.content = Content(history)'
    BY <1>2 DEF Content
  <2>. QED
    BY <1>1, <1>2, <2>1 DEF CacheInv, RevisionIdentifies
<1>. QED
  BY <1>2, <1>3 DEF MessageInv, MessageTypeOK, ValidFile, PagingInv, PagingIsExact, Seqs, PushInv, PushedOnce

\* Ageing changes neither sequences nor keys.
LEMMA AgeKeeps ==
  ASSUME MessageBounds, MessageInv, Age
  PROVE  MessageInv' /\ ReadStaysRead /\ NewIsUnread
<1>1. PICK i \in DOMAIN history.messages : history' = [history EXCEPT !.messages[i].old = TRUE]
  BY DEF Age
<1>2. PICK ms, w, ns : ms = history.messages /\ w = [ms[i] EXCEPT !.old = TRUE] /\ ns = [ms EXCEPT ![i] = w]
  OBVIOUS
<1>3. ms \in Seq(Message) /\ ms[i] \in Message
  BY <1>1, <1>2 DEF MessageInv, MessageTypeOK
<1>4. w \in Message /\ w.seq = ms[i].seq /\ w.key = ms[i].key
  BY <1>2, <1>3 DEF Message
<1>5. /\ ns \in Seq(Message) /\ DOMAIN ns = DOMAIN ms /\ Len(ns) = Len(ms)
      /\ \A n \in DOMAIN ms : ns[n] = IF n = i THEN w ELSE ms[n]
  BY <1>2, <1>3, <1>4
<1>6. \A n \in DOMAIN ms : ns[n].seq = ms[n].seq /\ ns[n].key = ms[n].key
  BY <1>4, <1>5
<1>7. history' = [history EXCEPT !.messages = ns]
  BY <1>1, <1>2
<1>8. history \in [latest : 0..MaxSequence, revision : Nat, readThrough : Nat, messages : Seq(Message)]
  BY DEF MessageInv, MessageTypeOK
<1>9. /\ history' \in [latest : 0..MaxSequence, revision : Nat, readThrough : Nat, messages : Seq(Message)]
      /\ history'.messages = ns /\ history'.latest = history.latest /\ history'.revision = history.revision
      /\ history'.readThrough = history.readThrough
  BY <1>5, <1>7, <1>8
<1>10. pushed' = pushed /\ paging' = paging /\ cache' = cache /\ messageFaults' = messageFaults
  BY DEF Age
<1>11. MessageTypeOK'
  BY <1>9, <1>10 DEF MessageInv, MessageTypeOK
<1>12. ValidFile(history')
  BY <1>2, <1>5, <1>6, <1>9 DEF MessageInv, ValidFile
<1>13. Seqs(ns) = Seqs(ms) /\ KeysOf(history') = KeysOf(history)
  BY <1>2, <1>5, <1>6, <1>9 DEF Seqs, KeysOf
<1>14. Content(history') = Content(history)
  <2>1. [n \in DOMAIN ns |-> ns[n].seq] = [n \in DOMAIN ms |-> ms[n].seq]
    BY <1>5, <1>6
  <2>. QED
    BY <1>2, <1>9, <2>1 DEF Content
<1>15. CacheInv' /\ PagingInv' /\ PushInv'
  <2>1. CacheInv'
    BY <1>9, <1>10, <1>14 DEF MessageInv, CacheInv, RevisionIdentifies
  <2>2. PagingInv'
    BY <1>2, <1>9, <1>10, <1>13 DEF MessageInv, PagingInv, PagingIsExact
  <2>3. PushInv'
    BY <1>9, <1>10 DEF MessageInv, PushInv, PushedOnce
  <2>. QED
    BY <2>1, <2>2, <2>3
<1>16. ReadStaysRead
  BY <1>9 DEF ReadStaysRead
<1>17. NewIsUnread
  BY <1>2, <1>5, <1>6, <1>9 DEF NewIsUnread, KeysOf
<1>18. ValidFile(history)'
  BY <1>12 DEF ValidFile
<1>. QED
  BY <1>11, <1>15, <1>16, <1>17, <1>18 DEF MessageInv

\* A step that leaves the file leaves what was read and what is unread.
LEMMA FileAlone ==
  ASSUME history' = history
  PROVE  ReadStaysRead /\ NewIsUnread
BY DEF ReadStaysRead, NewIsUnread, KeysOf

-----------------------------------------------------------------------------
(* Every step                                                              *)

\* Every step keeps the invariant and what was read.
LEMMA MessageStep ==
  ASSUME MessageBounds, MessageInv, [MessageNext]_messageVars
  PROVE  MessageInv' /\ ReadStaysRead /\ NewIsUnread
<1>1. MessageTypeOK /\ ValidFile(history)
  BY DEF MessageInv
<1>2. history.latest \in Nat /\ history.readThrough \in Nat /\ history.latest <= MaxSequence /\ MaxSequence \in Nat
  BY <1>1, SeqsOfHistory
<1>3. CASE UNCHANGED messageVars
  <2>1. messageFaults' \in 0..MaxMessageFaults
    BY <1>1, <1>3 DEF messageVars, MessageTypeOK
  <2>. QED
    BY <1>3, <2>1, Untouched DEF messageVars
<1>4. ASSUME NEW k \in Keys, AppendMessage(k) PROVE MessageInv' /\ ReadStaysRead /\ NewIsUnread
  <2>1. PICK f : f = Appended(k)
    OBVIOUS
  <2>2. /\ ValidFile(f) /\ Continues(f) /\ f.latest = history.latest + 1
    BY <1>1, <1>4, <2>1, AppendContinues DEF AppendMessage
  <2>3. f.latest <= MaxSequence /\ UNCHANGED <<paging, cache>>
    BY <1>2, <1>4, <2>2 DEF AppendMessage
  <2>4. CASE Saved(f) /\ pushed' = Append(pushed, f.latest)
    <3>1. history' = f /\ messageFaults' \in 0..MaxMessageFaults
      BY <1>1, <2>4 DEF Saved, MessageTypeOK
    <3>. QED
      BY <2>2, <2>3, <2>4, <3>1, Replaced
  <2>5. CASE SaveFails(f) /\ UNCHANGED pushed
    BY <2>2, <2>3, <2>5, SaveKeeps DEF Save
  <2>. QED
    BY <1>4, <2>1, <2>4, <2>5 DEF AppendMessage
<1>5. ASSUME NEW f, f = Bump(Prune(history)), Save(f), UNCHANGED <<pushed, paging, cache>>
      PROVE  MessageInv' /\ ReadStaysRead /\ NewIsUnread
  <2>1. ValidFile(Prune(history)) /\ Continues(f) /\ f.latest = history.latest
    BY <1>1, <1>5, PruneContinues
  <2>2. ValidFile(f)
    <3>1. history \in Histories
      BY <1>1, HistoryIsFile
    <3>2. Prune(history) \in Histories
      BY <3>1, PrunedFile
    <3>. QED
      BY <1>5, <2>1, <3>2, Bumped DEF ValidFile
  <2>. QED
    BY <1>2, <1>5, <2>1, <2>2, SaveKeeps
<1>6. ASSUME NEW s \in 1..(MaxSequence + 1), MarkRead(s) PROVE MessageInv' /\ ReadStaysRead /\ NewIsUnread
  <2>1. PICK to : to = IF s > history.latest THEN history.latest ELSE s
    OBVIOUS
  <2>2. to \in Nat /\ to <= history.latest
    BY <1>2, <2>1
  <2>3. PICK f : f = Bump([history EXCEPT !.readThrough = to])
    OBVIOUS
  <2>4. to > history.readThrough /\ Save(f) /\ UNCHANGED <<pushed, paging, cache>>
    BY <1>6, <2>1, <2>3 DEF MarkRead
  <2>5. ValidFile(f) /\ Continues(f) /\ f.latest = history.latest
    BY <1>1, <2>2, <2>3, <2>4, MarkContinues
  <2>. QED
    BY <1>2, <2>4, <2>5, SaveKeeps
<1>7. ASSUME NEW i \in 1..MaxStored, DeleteMessage(i) PROVE MessageInv' /\ ReadStaysRead /\ NewIsUnread
  <2>1. PICK f : f = Bump([history EXCEPT !.messages = RemoveAt(@, i)])
    OBVIOUS
  <2>2. i \in DOMAIN history.messages /\ Save(f) /\ UNCHANGED <<pushed, paging, cache>>
    BY <1>7, <2>1 DEF DeleteMessage
  <2>3. ValidFile(f) /\ Continues(f) /\ f.latest = history.latest
    BY <1>1, <2>1, <2>2, DeleteContinues
  <2>. QED
    BY <1>2, <2>2, <2>3, SaveKeeps
<1>8. CASE ClearMessages
  <2>1. PICK f : f = Bump([history EXCEPT !.messages = <<>>, !.readThrough = history.latest])
    OBVIOUS
  <2>2. Save(f) /\ UNCHANGED <<pushed, paging, cache>>
    BY <1>8, <2>1 DEF ClearMessages
  <2>3. ValidFile(f) /\ Continues(f) /\ f.latest = history.latest
    BY <1>1, <2>1, ClearContinues
  <2>. QED
    BY <1>2, <2>2, <2>3, SaveKeeps
<1>9. CASE ListPage
  BY <1>9, PageKeeps, FileAlone DEF ListPage
<1>10. CASE Reload
  BY <1>10, ReloadKeeps, FileAlone DEF Reload
<1>11. CASE Age
  BY <1>11, AgeKeeps
<1>12. ASSUME NEW k \in Keys, AppendDuplicate(k) PROVE MessageInv' /\ ReadStaysRead /\ NewIsUnread
  BY <1>5, <1>12 DEF AppendDuplicate
<1>13. CASE Restart
  BY <1>5, <1>13 DEF Restart
<1>. QED
  BY <1>3, <1>4, <1>6, <1>7, <1>8, <1>9, <1>10, <1>11, <1>12, <1>13 DEF MessageNext

\* The invariant holds initially.
LEMMA MessageStart ==
  ASSUME MessageBounds, MessageInit
  PROVE  MessageInv
<1>1. /\ history.latest = 0 /\ history.revision = 0 /\ history.readThrough = 0 /\ history.messages = <<>>
      /\ pushed = <<>> /\ paging.on = FALSE /\ paging.before = 0 /\ paging.from = 0 /\ paging.seen = <<>>
      /\ cache.revision = 0 /\ cache.content = <<<<>>, 0>>
  BY DEF MessageInit, NoPaging
<1>2. MaxSequence \in Nat /\ MaxMessageFaults \in Nat /\ MaxStored \in Nat
  BY DEF MessageBounds
<1>3. <<>> \in Seq(Message) /\ <<>> \in Seq(1..MaxSequence)
  OBVIOUS
<1>4. MessageTypeOK
  BY <1>2, <1>3 DEF MessageInit, NoPaging, MessageTypeOK
<1>5. DOMAIN history.messages = {} /\ Len(history.messages) = 0 /\ DOMAIN pushed = {} /\ DOMAIN paging.seen = {}
  BY <1>1
<1>6. ValidFile(history)
  BY <1>1, <1>2, <1>5 DEF ValidFile
<1>7. CacheInv
  <2>1. [i \in DOMAIN history.messages |-> history.messages[i].seq] = <<>>
    BY <1>5
  <2>2. Content(history) = <<<<>>, 0>>
    BY <1>1, <2>1 DEF Content
  <2>. QED
    BY <1>1, <2>2 DEF CacheInv, RevisionIdentifies
<1>8. PagingInv
  BY <1>1, <1>5 DEF PagingInv, PagingIsExact, Seqs
<1>9. PushInv
  BY <1>5 DEF PushInv, PushedOnce
<1>. QED
  BY <1>4, <1>6, <1>7, <1>8, <1>9 DEF MessageInv

\* The property follows: what AppendMessage and Prune make of the file is valid.
LEMMA MessageInvImplies ==
  ASSUME MessageBounds, MessageInv
  PROVE  HistorySafe
<1>1. MessageTypeOK /\ ValidFile(history)
  BY DEF MessageInv
<1>2. ValidFile(Prune(history))
  BY <1>1, PruneContinues
<1>3. \A k \in Keys : ~Duplicate(k) => ValidFile(Appended(k))
  BY <1>1, AppendContinues
<1>. QED
  BY <1>1, <1>2, <1>3 DEF MessageInv, HistorySafe, SavesAreValid, CacheInv, PagingInv, PushInv

(***************************************************************************)
(* The history stays readable for as long as it is written: no append,     *)
(* deletion, ageing or read mark makes a file that validation refuses, a   *)
(* page that follows the cursors sees every message once, and a revision   *)
(* names one list.                                                         *)
(***************************************************************************)
THEOREM HistoryIsSafe == ASSUME MessageBounds PROVE MessageSpec => []HistorySafe
<1>1. MessageInit => MessageInv
  BY MessageStart
<1>2. MessageInv /\ [MessageNext]_messageVars => MessageInv'
  BY MessageStep
<1>3. MessageInv => HistorySafe
  BY MessageInvImplies
<1>. QED
  BY <1>1, <1>2, <1>3, PTL DEF MessageSpec

\* What was read stays read, and what is new is unread, in every step.
THEOREM ReadMarksHold == ASSUME MessageBounds PROVE MessageSpec => [][ReadStaysRead /\ NewIsUnread]_messageVars
<1>1. MessageInit => MessageInv
  BY MessageStart
<1>2. MessageInv /\ [MessageNext]_messageVars => MessageInv' /\ ReadStaysRead /\ NewIsUnread
  BY MessageStep
<1>. QED
  BY <1>1, <1>2, PTL DEF MessageSpec
=============================================================================
