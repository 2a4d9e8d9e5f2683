---------------------------- MODULE SnapshotSaver ----------------------------
(***************************************************************************)
(* The periodic and the final snapshots of one terminal session            *)
(* (src/backend/internal/terminal/snapshots.go) and where they end up in   *)
(* the store (src/backend/internal/persistence/snapshots.go, audit.go).    *)
(*                                                                         *)
(* A save reads Session.sequence, asks the worker, writes the file and     *)
(* looks at the session again, and holds no lock in between: a slow save   *)
(* overlaps the next one, and the retirement of the session.               *)
(***************************************************************************)
EXTENDS Integers, FiniteSets

CONSTANTS Saves,      \* saves that may be under way at the same time
          MaxChanges, \* bound: output chunks and resizes
          MaxErrors   \* bound: failing calls of the worker and of the store

SaverBounds == IsFiniteSet(Saves) /\ MaxChanges \in Nat /\ MaxErrors \in Nat

VARIABLES
    sequence,  \* Session.sequence; the worker has applied as many changes
    timer,     \* Session.snapshotTimer # nil
    phase,     \* of the session: "open", "closed", then the stages of retireSession
    save,      \* progress of every save
    stored,    \* sequence of the active terminal.snapshot, or None
    archived,  \* sequence of the archived copy, or None
    final,     \* ghost: what the final snapshot of the retirement holds
    overtaken, \* ghost: saves that were under way when the final one was read
    errors

saverVars == <<sequence, timer, phase, save, stored, archived, final, overtaken, errors>>

None == -1
Versions == 0..MaxChanges
Idle == [at |-> None, through |-> None, stage |-> "idle"]
SaveStages == {"idle", "asked", "answered", "written"}

SaverTypeOK ==
    /\ sequence \in Versions /\ timer \in BOOLEAN
    /\ phase \in {"open", "closed", "final", "stored", "archived", "removed"}
    /\ save \in [Saves -> [at : Versions \union {None}, through : Versions \union {None},
                           stage : SaveStages]]
    /\ {stored, archived, final} \subseteq Versions \union {None}
    /\ overtaken \subseteq Saves
    /\ errors \in 0..MaxErrors

SaverInit ==
    /\ sequence = 0 /\ timer = FALSE /\ phase = "open"
    /\ save = [s \in Saves |-> Idle]
    /\ stored = None /\ archived = None /\ final = None /\ overtaken = {} /\ errors = 0

Open == phase = "open"
Error == errors < MaxErrors /\ errors' = errors + 1
At(s, stage) == save[s].stage = stage
Become(s, record) == save' = [save EXCEPT ![s] = record]
retirement == <<archived, final, overtaken>>

\* handleOutput and resize: the change reaches the worker and the timer is set
\* unless it is.  The read loop may outlive the process.
Change ==
    /\ phase \in {"open", "closed"} /\ sequence < MaxChanges
    /\ sequence' = sequence + 1
    /\ timer' = TRUE
    /\ UNCHANGED <<phase, save, stored, retirement, errors>>

\* The timer fires on an open session; on a closed one it does nothing.
SaveBegin(s) ==
    /\ timer /\ At(s, "idle") /\ Open
    /\ timer' = FALSE
    /\ Become(s, [at |-> sequence, through |-> None, stage |-> "asked"])
    /\ UNCHANGED <<sequence, phase, stored, retirement, errors>>

\* The worker answers with what it has applied by now.  It keeps the session until
\* the retirement is over.
SaveAnswered(s) ==
    /\ At(s, "asked") /\ phase # "removed"
    /\ Become(s, [save[s] EXCEPT !.through = sequence, !.stage = "answered"])
    /\ UNCHANGED <<sequence, timer, phase, stored, retirement, errors>>

\* The worker refuses, or the session is unknown to it by now.
SaveRefused(s) ==
    /\ At(s, "asked")
    /\ IF phase = "removed" THEN UNCHANGED errors ELSE Error
    /\ Become(s, Idle)
    /\ UNCHANGED <<sequence, timer, phase, stored, retirement>>

\* SaveSnapshot creates the directory when it is gone and replaces the file.
SaveWritten(s) ==
    /\ At(s, "answered")
    /\ stored' = save[s].through
    /\ Become(s, [save[s] EXCEPT !.stage = "written"])
    /\ UNCHANGED <<sequence, timer, phase, retirement, errors>>

SaveFails(s) ==
    /\ At(s, "answered") /\ Error
    /\ Become(s, Idle)
    /\ UNCHANGED <<sequence, timer, phase, stored, retirement>>

\* Mutant: the session is not looked at again.
SaveEnds_NoRecheck(s) ==
    /\ At(s, "written")
    /\ Become(s, Idle)
    /\ UNCHANGED <<sequence, timer, phase, stored, retirement, errors>>

\* A change since the save began schedules the next one.
SaveEnds(s) ==
    /\ At(s, "written")
    /\ timer' = (timer \/ (Open /\ sequence # save[s].at))
    /\ Become(s, Idle)
    /\ UNCHANGED <<sequence, phase, stored, retirement, errors>>

\* The process exits or the session is terminated.
Close ==
    /\ Open /\ phase' = "closed"
    /\ UNCHANGED <<sequence, timer, save, stored, retirement, errors>>

\* Mutant: the final snapshot is skipped like a periodic one of a closed session.
FinalAnswered_Skipped ==
    /\ phase = "closed" /\ phase' = "final"
    /\ timer' = FALSE
    /\ overtaken' = {s \in Saves : ~At(s, "idle")}
    /\ UNCHANGED <<sequence, save, stored, archived, final, errors>>

\* retireSession, after the read loop has ended: the forced snapshot.
FinalAnswered ==
    /\ phase = "closed" /\ phase' = "final"
    /\ timer' = FALSE
    /\ final' = sequence
    /\ overtaken' = {s \in Saves : ~At(s, "idle")}
    /\ UNCHANGED <<sequence, save, stored, archived, errors>>

FinalWritten ==
    /\ phase = "final" /\ phase' = "stored"
    /\ stored' = IF final = None THEN stored ELSE final
    /\ UNCHANGED <<sequence, timer, save, retirement, errors>>

\* The final snapshot cannot be taken or written: the retirement is given up and
\* may be tried again.
FinalFails ==
    /\ phase = "final" /\ Error
    /\ phase' = "closed" /\ final' = None /\ overtaken' = {}
    /\ UNCHANGED <<sequence, timer, save, stored, archived>>

\* ArchiveConnectionInstance copies what is in the active directory by then.
Archive ==
    /\ phase = "stored" /\ phase' = "archived"
    /\ archived' = stored
    /\ UNCHANGED <<sequence, timer, save, stored, final, overtaken, errors>>

Remove ==
    /\ phase = "archived" /\ phase' = "removed"
    /\ stored' = None
    /\ UNCHANGED <<sequence, timer, save, retirement, errors>>

SaveStep(s) ==
    SaveAnswered(s) \/ SaveRefused(s) \/ SaveWritten(s) \/ SaveFails(s) \/ SaveEnds(s)
SaverNext ==
    \/ Change \/ Close
    \/ \E s \in Saves : SaveBegin(s) \/ SaveStep(s)
    \/ FinalAnswered \/ FinalWritten \/ FinalFails \/ Archive \/ Remove

\* A timer fires, and a call of the worker or of the store returns.
SaverFairness ==
    /\ WF_saverVars(\E s \in Saves : SaveBegin(s))
    /\ \A s \in Saves : WF_saverVars(SaveStep(s))
SaverSpec == SaverInit /\ [][SaverNext]_saverVars
SaverFairSpec == SaverSpec /\ SaverFairness

-----------------------------------------------------------------------------
(* Properties                                                              *)

\* However saves overlap and overtake one another, a change that the store does
\* not hold yet is never forgotten while the session is open and no call failed:
\* the timer is set, or a save is under way that will write it or see that it must
\* set the timer (snapshots.go:65).
ChangeIsScheduled ==
    (Open /\ errors = 0 /\ sequence > 0 /\ stored # sequence) =>
        \/ timer
        \/ \E s \in Saves : At(s, "asked") \/ save[s].through = sequence
                            \/ (~At(s, "idle") /\ save[s].at # sequence)

\* An older save may replace a newer one (hazard snapshots.go:57), but when the output
\* pauses the store converges to the last state and stays there.
EventuallyStored ==
    <>[](Open /\ errors = 0) => <>[](sequence = 0 \/ stored = sequence)

\* The archived snapshot is the final one; only a periodic save that was under way
\* when the final one was read can have taken its place (hazard snapshots.go:57).
ArchiveIsFinal ==
    archived # None =>
        archived = sequence \/ (overtaken # {} /\ archived < sequence)

\* With no save overtaken, what the retirement has removed stays removed.
RemovedStaysRemoved ==
    (phase = "removed" /\ overtaken = {}) => stored = None

\* Periodic, overlapping and final snapshots settle on the right one: none is
\* forgotten, and the archive and the removal are not undone.
SnapshotsSettle == SaverTypeOK /\ ChangeIsScheduled /\ ArchiveIsFinal /\ RemovedStaysRemoved
=============================================================================
