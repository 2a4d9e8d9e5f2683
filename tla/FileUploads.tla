---------------------------- MODULE FileUploads ----------------------------
(***************************************************************************)
(* Uploads to the file system of a connection instance:                    *)
(* src/backend/internal/filesystem/upload*.go, the upload records of the   *)
(* store and the three HTTP handlers.                                      *)
(*                                                                         *)
(* Each upload is a goroutine (runUpload) that works on files staged on    *)
(* disk; the client polls and cancels it.  setStatus changes the job under *)
(* its mutex and saves it outside of it, but only the goroutine of the job *)
(* calls it, so the two are one action here and a crash between them is a  *)
(* save that fails.  A file counts one byte.                               *)
(***************************************************************************)
EXTENDS Naturals, FiniteSets

CONSTANTS Uploads, Files,
          MaxUploadFaults \* bound: failed writes and crashes

Nobody == "nobody"

UploadBounds == /\ IsFiniteSet(Uploads) /\ IsFiniteSet(Files) /\ MaxUploadFaults \in Nat
                /\ Uploads \cap {Nobody, "user"} = {}

VARIABLES job,      \* Service.uploads: the jobs of this process
          records,  \* uploads/<id>.json
          staging,  \* uploads whose staging directory exists
          present,  \* files at the destination, with the upload that wrote them
          newer,    \* files at the destination newer than the staged ones
          rsync,    \* transfers[instance]: what is known of rsync on the remote
          uploadFaults

uploadVars == <<job, records, staging, present, newer, rsync, uploadFaults>>

Policies == {"refuse", "overwrite", "update-if-newer"}
Terminal == {"completed", "failed", "partial-failure", "cancelled"}
Statuses == {"queued", "running"} \cup Terminal
Steps    == {"none", "staged", "queued", "target", "lease", "probe", "rsync", "mkdir", "scp",
             "copying", "judge", "cleanup", "done"}
Total    == Cardinality(Files)

NoJob == [step |-> "none", status |-> "queued", policy |-> "refuse", sent |-> 0, todo |-> {},
          failed |-> FALSE, cancelled |-> FALSE, lease |-> FALSE]
NoRecord == [status |-> "none", sent |-> 0]

UploadTypeOK ==
    /\ job \in [Uploads -> [step : Steps, status : Statuses, policy : Policies, sent : Nat,
                            todo : SUBSET Files, failed : BOOLEAN, cancelled : BOOLEAN,
                            lease : BOOLEAN]]
    /\ records \in [Uploads -> [status : Statuses, sent : 0..Total] \cup {NoRecord}]
    /\ staging \subseteq Uploads
    /\ present \in [Files -> Uploads \cup {Nobody, "user"}]
    /\ newer \subseteq Files
    /\ rsync \in {"unknown", "yes", "no"} /\ uploadFaults \in 0..MaxUploadFaults

UploadInit ==
    /\ job = [u \in Uploads |-> NoJob] /\ records = [u \in Uploads |-> NoRecord]
    /\ staging = {} /\ present = [f \in Files |-> Nobody] /\ newer = {}
    /\ rsync = "unknown" /\ uploadFaults = 0

UploadFault == uploadFaults < MaxUploadFaults /\ uploadFaults' = uploadFaults + 1
Existing == {f \in Files : present[f] # Nobody}

(***************************************************************************)
(* SaveUpload, whose caller ignores the error: the record is written, or   *)
(* the write fails; validateUploadRecord rejects more bytes than there are.*)
(***************************************************************************)
Valid(sent) == sent <= Total
SaveUpload(u, status, sent) ==
    \/ Valid(sent) /\ records' = [records EXCEPT ![u] = [status |-> status, sent |-> sent]] /\ UNCHANGED uploadFaults
    \/ Valid(sent) /\ UploadFault /\ UNCHANGED records
    \/ ~Valid(sent) /\ UNCHANGED <<records, uploadFaults>>

SetStatus(u, j) == job' = [job EXCEPT ![u] = j] /\ SaveUpload(u, j.status, j.sent)
Goto(u, step)   == job' = [job EXCEPT ![u].step = step] /\ UNCHANGED <<records, uploadFaults>>

----------------------------------------------------------------------------
(***************************************************************************)
(* CreateUpload: the files are staged, the job is saved as queued, enters  *)
(* the map and its goroutine starts.  Any error removes the staging.       *)
(***************************************************************************)
Stage(u, policy) ==
    /\ job[u].step = "none" /\ records[u] = NoRecord /\ u \notin staging
    /\ job' = [job EXCEPT ![u].step = "staged", ![u].policy = policy]
    /\ staging' = staging \cup {u}
    /\ UNCHANGED <<records, present, newer, rsync, uploadFaults>>

StageFails(u) ==
    /\ job[u].step = "staged" /\ UploadFault
    /\ job' = [job EXCEPT ![u] = NoJob] /\ staging' = staging \ {u}
    /\ UNCHANGED <<records, present, newer, rsync>>

Queue(u) ==
    /\ job[u].step = "staged"
    /\ job' = [job EXCEPT ![u].step = "queued"]
    /\ records' = [records EXCEPT ![u] = [status |-> "queued", sent |-> 0]]
    /\ UNCHANGED <<staging, present, newer, rsync, uploadFaults>>

----------------------------------------------------------------------------
(* runUpload *)
Run(u) ==
    /\ job[u].step = "queued"
    /\ SetStatus(u, [job[u] EXCEPT !.step = "target", !.status = "running"])
    /\ UNCHANGED <<staging, present, newer, rsync>>

\* job.fail: a partial failure stays one.
Failed(j) == [j EXCEPT !.step = "cleanup",
                       !.status = IF j.status = "partial-failure" THEN j.status ELSE "failed"]

\* The target directory is resolved; `refuse' looks for files that exist already.
ResolveTarget(u) ==
    /\ job[u].step = "target"
    /\ \/ /\ ~(job[u].policy = "refuse" /\ Existing # {})
          /\ Goto(u, "lease")
       \/ job[u].policy = "refuse" /\ Existing # {} /\ SetStatus(u, Failed(job[u]))
    /\ UNCHANGED <<staging, present, newer, rsync>>

\* resolving, looking for conflicts, the lease or the probe reports an error, a
\* cancelled context among them.
RemoteFails(u) ==
    /\ job[u].step \in {"target", "lease", "probe"}
    /\ SetStatus(u, Failed(job[u]))
    /\ UNCHANGED <<staging, present, newer, rsync>>

AcquireLease(u) ==
    /\ job[u].step = "lease"
    /\ job' = [job EXCEPT ![u].step = "probe", ![u].lease = TRUE]
    /\ UNCHANGED <<records, staging, present, newer, rsync, uploadFaults>>

\* rsyncAvailable (cached), and rsync must be installed here too; else scp.
RsyncAvailable(u) ==
    /\ job[u].step = "probe"
    /\ \E available \in (IF rsync = "unknown" THEN {"yes", "no"} ELSE {rsync}) :
       \E step \in (IF available = "yes" THEN {"rsync", "mkdir"} ELSE {"mkdir"}) :
          /\ rsync' = available
          /\ SetStatus(u, [job[u] EXCEPT !.step = step])
    /\ UNCHANGED <<staging, present, newer>>

CapabilityExpires == rsync # "unknown" /\ rsync' = "unknown"
                     /\ UNCHANGED <<job, records, staging, present, newer, uploadFaults>>

\* What is written of the files `fs' by `u', which leaves newer files alone when it must.
Skipped(u) == IF job[u].policy = "update-if-newer" THEN newer ELSE {}
Write(u, fs) ==
    /\ present' = [f \in Files |-> IF f \in fs \ Skipped(u) THEN u ELSE present[f]]
    /\ newer' = newer \ (fs \ Skipped(u))

\* rsyncProgressWriter: a number of rsync's output, clamped to the total.
Clamped(v) == IF v > Total THEN Total ELSE v
Progress(u) ==
    /\ job[u].step = "rsync"
    /\ \E v \in (job[u].sent + 1)..(Total + 1) :
          /\ Clamped(v) > job[u].sent
          /\ SetStatus(u, [job[u] EXCEPT !.sent = Clamped(v)])
    /\ UNCHANGED <<staging, present, newer, rsync>>

RunRsync(u) ==
    /\ job[u].step = "rsync"
    /\ \/ Write(u, Files) /\ Goto(u, "judge") /\ UNCHANGED rsync
       \/ /\ \E fs \in SUBSET Files : Write(u, fs)
          /\ job' = [job EXCEPT ![u].step = "judge", ![u].failed = TRUE]
          /\ rsync' = "unknown"
          /\ UNCHANGED <<records, uploadFaults>>
    /\ UNCHANGED staging

\* createRemoteDirectories, then the files one after the other.
CreateDirectories(u) ==
    /\ job[u].step = "mkdir"
    /\ \E ok \in BOOLEAN :
          job' = [job EXCEPT ![u].step = IF ok THEN "scp" ELSE "judge",
                             ![u].failed = ~ok, ![u].todo = Files]
    /\ UNCHANGED <<records, staging, present, newer, rsync, uploadFaults>>

\* The next file: shouldUploadWithScp may fail or leave it out.
NextFile(u) ==
    /\ job[u].step = "scp"
    /\ \/ job[u].todo = {} /\ Goto(u, "judge")
       \/ \E f \in job[u].todo \cap Skipped(u) :
             /\ job' = [job EXCEPT ![u].todo = @ \ {f}]
             /\ UNCHANGED <<records, uploadFaults>>
       \/ job[u].todo \ Skipped(u) # {} /\ SetStatus(u, [job[u] EXCEPT !.step = "copying"])
       \/ /\ job[u].policy = "update-if-newer" /\ job[u].todo # {}
          /\ job' = [job EXCEPT ![u].step = "judge", ![u].failed = TRUE]
          /\ UNCHANGED <<records, uploadFaults>>
    /\ UNCHANGED <<staging, present, newer, rsync>>

CopyFile(u) ==
    /\ job[u].step = "copying"
    /\ \E f \in job[u].todo \ Skipped(u) :
          /\ Write(u, {f})
          /\ SetStatus(u, [job[u] EXCEPT !.step = "scp", !.todo = @ \ {f}, !.sent = @ + 1])
    /\ UNCHANGED <<staging, rsync>>

\* The failed scp does not end the loop.
CopyFails_GoesOn(u) ==
    /\ job[u].step = "copying"
    /\ SetStatus(u, [job[u] EXCEPT !.step = "scp", !.todo = {}])
    /\ UNCHANGED <<staging, present, newer, rsync>>

CopyFails(u) ==
    /\ job[u].step = "copying"
    /\ SetStatus(u, [job[u] EXCEPT !.step = "judge", !.failed = TRUE, !.status = "partial-failure"])
    /\ UNCHANGED <<staging, present, newer, rsync>>

Judge(u) ==
    /\ job[u].step = "judge"
    /\ SetStatus(u, CASE job[u].cancelled -> [job[u] EXCEPT !.step = "cleanup", !.status = "cancelled"]
                      [] ~job[u].cancelled /\ job[u].failed -> Failed(job[u])
                      [] OTHER -> [job[u] EXCEPT !.step = "cleanup", !.status = "completed",
                                                 !.sent = Total])
    /\ UNCHANGED <<staging, present, newer, rsync>>

\* job.cleanup, and the deferred Close of the lease.
CleanUp(u) ==
    /\ job[u].step = "cleanup"
    /\ staging' = staging \ {u}
    /\ SetStatus(u, [job[u] EXCEPT !.step = "done", !.lease = FALSE])
    /\ UNCHANGED <<present, newer, rsync>>

----------------------------------------------------------------------------
(***************************************************************************)
(* CancelUpload.  A job of this process is asked to stop; of a job of an   *)
(* earlier process only the record is left, which becomes cancelled.       *)
(***************************************************************************)
Cancel(u) ==
    /\ job[u].step \notin {"none", "staged"} /\ job[u].status \notin Terminal
    /\ job' = [job EXCEPT ![u].cancelled = TRUE]
    /\ UNCHANGED <<records, staging, present, newer, rsync, uploadFaults>>

CancelRecord(u) ==
    /\ job[u].step = "none" /\ records[u] # NoRecord /\ records[u].status \notin Terminal
    /\ SaveUpload(u, "cancelled", records[u].sent)
    /\ UNCHANGED <<job, staging, present, newer, rsync>>

\* UploadStatus: what a client that polls is told.
UploadStatus(u) == IF job[u].step \notin {"none", "staged"} THEN job[u].status ELSE records[u].status

\* The process ends and starts again: no job is resumed, no staging removed.
UploadsCrash ==
    /\ UploadFault /\ \E u \in Uploads : job[u].step # "none"
    /\ job' = [u \in Uploads |-> NoJob] /\ rsync' = "unknown"
    /\ UNCHANGED <<records, staging, present, newer>>

\* External: a user of the remote host writes a file.
UserWrites(f) ==
    /\ present[f] = Nobody
    /\ present' = [present EXCEPT ![f] = "user"]
    /\ newer' \in {newer, newer \cup {f}}
    /\ UNCHANGED <<job, records, staging, rsync, uploadFaults>>

UploadNext ==
    \/ \E u \in Uploads :
          \/ \E policy \in Policies : Stage(u, policy)
          \/ StageFails(u) \/ Queue(u) \/ Run(u) \/ ResolveTarget(u) \/ RemoteFails(u)
          \/ AcquireLease(u) \/ RsyncAvailable(u) \/ Progress(u) \/ RunRsync(u)
          \/ CreateDirectories(u) \/ NextFile(u) \/ CopyFile(u) \/ CopyFails(u)
          \/ Judge(u) \/ CleanUp(u) \/ Cancel(u) \/ CancelRecord(u)
    \/ CapabilityExpires \/ UploadsCrash
    \/ \E f \in Files : UserWrites(f)

UploadSpec == UploadInit /\ [][UploadNext]_uploadVars

----------------------------------------------------------------------------
(* Properties *)

\* Every save of a job is acceptable to the store: whatever rsync prints and
\* however often a file is counted, no more is sent than there is.  A rejected
\* save would freeze the record (validateUploadRecord).
SavesAccepted == \A u \in Uploads : Valid(job[u].sent)

\* The staged files are there as long as something may still copy them, although
\* CreateUpload, the goroutine and each of its error paths may remove them.
StagedWhileNeeded ==
    \A u \in Uploads : job[u].step \in Steps \ {"none", "cleanup", "done"} => u \in staging

\* A goroutine that has ended left nothing behind: neither staged files nor the
\* lease that keeps the control master.
NothingLeftBehind ==
    \A u \in Uploads : job[u].step = "done" => u \notin staging /\ ~job[u].lease

\* An upload that comes out as `completed' wrote every file, or another upload has
\* replaced it since, or the one at the destination is newer and was to be kept.
CompletedIsWhole ==
    \A u \in Uploads :
        job[u].status = "completed" /\ job[u].step = "cleanup"
            => \A f \in Files : present[f] \in Uploads \/ f \in Skipped(u)

\* What a record says of the end of an upload stays, through crashes, failed
\* writes and later cancellations; only a partial failure may become cancelled.
RecordedResultStands ==
    \A u \in Uploads :
         records[u].status \in Terminal /\ records'[u] # records[u]
            => /\ records[u].status = "partial-failure"
               /\ records'[u].status = "cancelled"

\* docs/api.md:136 tells a client to poll until the status is terminal: within a process
\* what it was told then stays, except that a partial failure whose cancellation was
\* asked for in time becomes cancelled after it was told.
PolledResultStands ==
    \A u \in Uploads :
         LET told == UploadStatus(u) IN
         told \in Terminal /\ UploadStatus(u)' # told
            => \/ told = "partial-failure" /\ UploadStatus(u)' = "cancelled"
               \/ job[u].step # "none" /\ job'[u].step = "none"      \* the process ended

\* An upload keeps what it needs, leaves nothing behind and ends as what it was,
\* whoever cancels, whatever fails and however often the process restarts.
UploadsSafe == /\ UploadTypeOK /\ SavesAccepted /\ StagedWhileNeeded
               /\ NothingLeftBehind /\ CompletedIsWhole
=============================================================================
