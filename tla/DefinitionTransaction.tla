------------------------ MODULE DefinitionTransaction ------------------------
(***************************************************************************)
(* The journal that makes a mutation of the connection definitions atomic  *)
(* (src/backend/internal/definition): a mutation writes ~/.ssh/config and  *)
(* the options file one after the other, under an undo journal.            *)
(*                                                                         *)
(* Service.mu serialises mutations, so there is one program counter; one   *)
(* action is one call on one file, so the process may die, and the user    *)
(* may edit the SSH config from a shell, between any two of them.          *)
(***************************************************************************)
EXTENDS Naturals, FiniteSets

CONSTANTS Contents,         \* what a file may contain; absence is one content
          Failures,         \* the failure points that are explored
          ConfigWritable,   \* FALSE: ~/.ssh/config exists on a read-only mount
          MaxFailures,      \* bound: failing file operations
          MaxCrashes,       \* bound: deaths of the backend process
          MaxEdits          \* bound: edits of ~/.ssh/config from outside

FailurePoints == {"prepare", "config", "commit", "commitSync", "restore", "discard"}

ASSUME FailureAssumption == Failures \subseteq FailurePoints
ASSUME WritableAssumption == ConfigWritable \in BOOLEAN

Pairs   == [config : Contents, options : Contents]
Journal == [phase : {"none", "prepared", "committed"}, undo : Pairs]

\* The calls of the service, with how many writes of the options file each may
\* make: Update saves the options and removes the old alias, or moves it.
Operations == {"Create", "Update", "Duplicate", "Delete"}
OptionWrites == [op \in Operations |-> CASE op = "Create" -> {0, 1}
                                         [] op = "Update" -> {0, 1, 2}
                                         [] OTHER         -> {1}]

Stages == {"down", "failed", "idle", "recover", "undoConfig", "undoOptions", "discard",
           "prepare", "config", "options", "commit", "cleanup"}
\* Whom the recovery or the rollback works for.
Purposes == {"start", "mutation", "abort"}

VARIABLES
    files, journal,         \* on disk
    stage, purpose,         \* of the goroutine that holds Service.mu
    snapshot, ifMatch,      \* the files as the mutation found them; the caller's tag
    optionWrites,           \* writes of the options file still to be made
    restoreErrors,          \* of the restoreTransaction that is running
    accepted,               \* history: the pair last committed or edited from outside
    failures, crashes, edits

disk    == <<files, journal>>
request == <<snapshot, ifMatch, optionWrites>>
bounds  == <<failures, crashes, edits>>
vars    == <<disk, stage, purpose, request, restoreErrors, accepted, bounds>>

Fail(point) ==
    /\ point \in Failures /\ failures < MaxFailures
    /\ failures' = failures + 1
    /\ UNCHANGED <<crashes, edits>>

Init ==
    /\ files \in Pairs /\ accepted = files
    /\ journal = [phase |-> "none", undo |-> files]
    /\ stage = "down" /\ purpose = "start"
    /\ snapshot = files /\ ifMatch = files.config /\ optionWrites = 0
    /\ restoreErrors = {}
    /\ failures = 0 /\ crashes = 0 /\ edits = 0

-----------------------------------------------------------------------------
(* recoverPendingTransaction: at start, and before every mutation          *)

\* New, after the start or the restart of the process.
Start ==
    /\ stage \in {"down", "failed"}
    /\ stage' = "recover" /\ purpose' = "start"
    /\ UNCHANGED <<disk, request, restoreErrors, accepted, bounds>>

\* Where an error return of recovery, rollback or removal leads: New fails and
\* the process ends, a mutation answers its caller and leaves the journal.
ErrorReturn == IF purpose = "start" THEN "failed" ELSE "idle"
Recovered   == IF purpose = "mutation" THEN "prepare" ELSE "idle"

\* Mutant: a prepared journal is removed like a committed one.
Recover_KeepsFiles ==
    /\ stage = "recover"
    /\ stage' = IF journal.phase = "none" THEN Recovered ELSE "discard"
    /\ UNCHANGED <<disk, purpose, request, restoreErrors, accepted, bounds>>

\* A prepared journal is undone, a committed one is only removed.
Recover ==
    /\ stage = "recover"
    /\ stage' = CASE journal.phase = "none"      -> Recovered
                  [] journal.phase = "committed" -> "discard"
                  [] OTHER                       -> "undoConfig"
    /\ UNCHANGED <<disk, purpose, request, restoreErrors, accepted, bounds>>

\* restoreTransaction of the journal that was read, or of the transaction in
\* memory.
UndoTarget == IF purpose = "abort" THEN snapshot ELSE journal.undo

UndoConfig ==
    /\ stage = "undoConfig" /\ ConfigWritable
    /\ files' = [files EXCEPT !.config = UndoTarget.config]
    /\ stage' = "undoOptions"
    /\ UNCHANGED <<journal, purpose, request, restoreErrors, accepted, bounds>>

\* A failure, also after the file was replaced, does not stop the restore.
UndoConfigFails ==
    /\ stage = "undoConfig"
    /\ \/ ~ConfigWritable /\ UNCHANGED <<files, bounds>>
       \/ /\ ConfigWritable /\ Fail("restore")
          /\ files' \in {files, [files EXCEPT !.config = UndoTarget.config]}
    /\ restoreErrors' = {"config"} /\ stage' = "undoOptions"
    /\ UNCHANGED <<journal, purpose, request, accepted>>

\* Mutant: the journal goes although the SSH config could not be restored.
UndoOptions_IgnoresError ==
    /\ stage = "undoOptions"
    /\ files' = [files EXCEPT !.options = UndoTarget.options]
    /\ stage' = "discard" /\ restoreErrors' = {}
    /\ UNCHANGED <<journal, purpose, request, accepted, bounds>>

UndoOptions ==
    /\ stage = "undoOptions"
    /\ files' = [files EXCEPT !.options = UndoTarget.options]
    /\ stage' = IF restoreErrors = {} THEN "discard" ELSE ErrorReturn
    /\ restoreErrors' = {}
    /\ UNCHANGED <<journal, purpose, request, accepted, bounds>>

UndoOptionsFails ==
    /\ stage = "undoOptions" /\ Fail("restore")
    /\ stage' = ErrorReturn /\ restoreErrors' = {}
    /\ UNCHANGED <<disk, purpose, request, accepted>>

\* removeDefinitionTransaction, which ends recovery and rollback.
Discard ==
    /\ stage = "discard"
    /\ journal' = [journal EXCEPT !.phase = "none"]
    /\ stage' = Recovered
    /\ UNCHANGED <<files, purpose, request, restoreErrors, accepted, bounds>>

DiscardFails ==
    /\ stage = "discard" /\ Fail("discard")
    /\ journal' \in {journal, [journal EXCEPT !.phase = "none"]}
    /\ stage' = ErrorReturn
    /\ UNCHANGED <<files, purpose, request, restoreErrors, accepted>>

-----------------------------------------------------------------------------
(* A mutation: Create, Update, Duplicate or Delete                         *)

\* The snapshots are taken before beginTransaction recovers a leftover journal.
Begin(op) ==
    /\ stage = "idle"
    /\ stage' = "recover" /\ purpose' = "mutation"
    /\ snapshot' = files
    /\ ifMatch' \in Contents
    /\ optionWrites' \in OptionWrites[op]
    /\ UNCHANGED <<disk, restoreErrors, accepted, bounds>>

Prepare ==
    /\ stage = "prepare"
    /\ journal' = [phase |-> "prepared", undo |-> snapshot]
    /\ stage' = "config"
    /\ UNCHANGED <<files, purpose, request, restoreErrors, accepted, bounds>>

PrepareFails ==
    /\ stage = "prepare" /\ Fail("prepare")
    /\ journal' \in {journal, [phase |-> "prepared", undo |-> snapshot]}
    /\ stage' = "idle"
    /\ UNCHANGED <<files, purpose, request, restoreErrors, accepted>>

\* Mutant: the journal is removed without restoring the files.
Abort_NoRestore == stage' = "discard" /\ purpose' = "abort"

\* abortTransaction.
Abort == stage' = "undoConfig" /\ purpose' = "abort"

\* Repository.Mutate checks the tag against the file as it is now.
WriteConfig ==
    /\ stage = "config" /\ ConfigWritable /\ ifMatch = files.config
    /\ \E content \in Contents : files' = [files EXCEPT !.config = content]
    /\ stage' = IF optionWrites = 0 THEN "commit" ELSE "options"
    /\ UNCHANGED <<journal, purpose, request, restoreErrors, accepted, bounds>>

\* A stale tag, a source that is not writable, an unknown or invalid alias.
RefuseConfig ==
    /\ stage = "config" /\ Abort
    /\ UNCHANGED <<disk, request, restoreErrors, accepted, bounds>>

\* The directory cannot be synchronised after the file was replaced.
WriteConfigFails ==
    /\ stage = "config" /\ ConfigWritable /\ ifMatch = files.config
    /\ Fail("config") /\ Abort
    /\ \E content \in Contents : files' = [files EXCEPT !.config = content]
    /\ UNCHANGED <<journal, request, restoreErrors, accepted>>

WriteOptions ==
    /\ stage = "options"
    /\ \E content \in Contents : files' = [files EXCEPT !.options = content]
    /\ optionWrites' = optionWrites - 1
    /\ stage' = IF optionWrites = 1 THEN "commit" ELSE "options"
    /\ UNCHANGED <<journal, purpose, snapshot, ifMatch, restoreErrors, accepted, bounds>>

\* An invalid value or file, or a failing write: the file is as it was.
RefuseOptions ==
    /\ stage = "options" /\ Abort
    /\ UNCHANGED <<disk, request, restoreErrors, accepted, bounds>>

Commit ==
    /\ stage = "commit"
    /\ journal' = [phase |-> "committed", undo |-> snapshot]
    /\ accepted' = files
    /\ stage' = "cleanup"
    /\ UNCHANGED <<files, purpose, request, restoreErrors, bounds>>

\* The journal is not written, or is replaced and then not synchronised.
CommitFails ==
    /\ stage = "commit" /\ Abort
    /\ \/ Fail("commit") /\ UNCHANGED journal
       \/ Fail("commitSync") /\ journal' = [phase |-> "committed", undo |-> snapshot]
    /\ UNCHANGED <<files, request, restoreErrors, accepted>>

\* The caller is told of the success also when the journal cannot be removed.
Cleanup ==
    /\ stage = "cleanup"
    /\ \/ journal' = [journal EXCEPT !.phase = "none"] /\ UNCHANGED bounds
       \/ Fail("discard") /\ UNCHANGED journal
    /\ stage' = "idle"
    /\ UNCHANGED <<files, purpose, request, restoreErrors, accepted>>

-----------------------------------------------------------------------------
(* The environment                                                         *)

\* The process is stopped and started again between two mutations.
Stop ==
    /\ stage = "idle" /\ stage' = "down"
    /\ UNCHANGED <<disk, purpose, request, restoreErrors, accepted, bounds>>

Crash ==
    /\ stage # "down" /\ crashes < MaxCrashes
    /\ crashes' = crashes + 1
    /\ stage' = "down" /\ restoreErrors' = {}
    /\ UNCHANGED <<disk, purpose, request, accepted, failures, edits>>

\* A user edits ~/.ssh/config in a terminal.
ExternalEdit ==
    /\ edits < MaxEdits /\ edits' = edits + 1
    /\ \E content \in Contents :
         /\ files' = [files EXCEPT !.config = content]
         /\ accepted' = [accepted EXCEPT !.config = content]
    /\ UNCHANGED <<journal, stage, purpose, request, restoreErrors, failures, crashes>>

Undo == UndoConfig \/ UndoConfigFails \/ UndoOptions \/ UndoOptionsFails
        \/ Discard \/ DiscardFails

Mutate == Prepare \/ PrepareFails \/ WriteConfig \/ RefuseConfig \/ WriteConfigFails
          \/ WriteOptions \/ RefuseOptions \/ Commit \/ CommitFails \/ Cleanup

Next == \/ Start \/ Recover \/ Undo \/ Mutate \/ Stop \/ Crash \/ ExternalEdit
        \/ \E op \in Operations : Begin(op)

Spec == Init /\ [][Next]_vars
-----------------------------------------------------------------------------
(* Properties                                                              *)

\* Every variable stays in its range.
TypeOK ==
    /\ files \in Pairs /\ snapshot \in Pairs /\ accepted \in Pairs
    /\ journal \in Journal
    /\ stage \in Stages /\ purpose \in Purposes
    /\ ifMatch \in Contents /\ optionWrites \in 0..2
    /\ restoreErrors \subseteq {"config"}
    /\ failures \in Nat /\ crashes \in Nat /\ edits \in Nat

\* What the next start, or the next mutation, would make of the disk.
RecoveredPair == IF journal.phase = "prepared" THEN journal.undo ELSE files

\* Wherever the process dies, also during a rollback or a recovery, what is
\* recovered is the pair that was committed last: the two files never come from
\* different mutations, and a mutation that was refused leaves no trace.
Recoverable == RecoveredPair = accepted

\* Whatever fails and whoever edits the SSH config meanwhile, a prepared journal
\* that is not committed goes only when both files are what it holds (or what the
\* user has made of the SSH config): a restore that failed is tried again.
JournalKept ==
    [][journal.phase = "prepared" /\ journal' # journal /\ stage # "commit"
         => /\ files.options = journal.undo.options
            /\ files.config \in {journal.undo.config, accepted.config}]_vars

\* The service implements the atomic pair: an error reply means that nothing
\* changed, a success that both files did.
InMutation == /\ stage \notin {"down", "failed", "idle"} /\ purpose # "start"
Pair == INSTANCE DefinitionPair
            WITH pair <- RecoveredPair,
                 request <- IF ~InMutation THEN "none"
                            ELSE IF stage = "cleanup" THEN "taken" ELSE "open"
KeepsPair == Pair!Spec

-----------------------------------------------------------------------------
(* What the documentation says and the code does not do                    *)

\* docs/deployment.md: "Read-only SSH Secrets and projected volumes remain usable
\* for connections"; docs/troubleshooting.md calls them valid.
ReadOnlyStarts == stage # "failed"
=============================================================================
