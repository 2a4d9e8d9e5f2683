------------------------- MODULE TerminalLifecycle -------------------------
(***************************************************************************)
(* The life of a connection instance in the terminal runtime               *)
(* (src/backend/internal/terminal) together with the active and audit      *)
(* copies of its metadata (src/backend/internal/persistence).              *)
(*                                                                         *)
(* Every goroutine that works on a session is a thread <<role, id>> with a *)
(* program counter; one action is one critical section of session.mu or    *)
(* Manager.mu, or one call of the store, so every interleaving the locks   *)
(* allow is explored.  The memory of the backend is lost by Exit and       *)
(* Crash, the directories `active' and `audit' are not.                    *)
(***************************************************************************)
EXTENDS Integers, FiniteSets

CONSTANTS Ids,          \* connection instance identifiers; never reused
          LaunchIds,    \* instances created by CreatePendingProcess
          CwdEmitters,  \* instances whose output carries cwd markers
          Requests,     \* concurrent HTTP requests and pending watchers
          Limit,        \* cfg.MaxConnectionInstances
          MaxFaults,    \* bound: failing store, worker and reader calls
          MaxCrashes    \* bound: crashes of the backend process

ASSUME LaunchAssumption == LaunchIds \subseteq Ids /\ CwdEmitters \subseteq Ids
ASSUME FiniteAssumption == IsFiniteSet(Ids)
ASSUME LimitAssumption  == Limit \in Nat \ {0}
ASSUME BoundAssumption  == MaxFaults \in Nat /\ MaxCrashes \in Nat
ASSUME RequestAssumption ==
    Requests \cap {"wait", "marker", "shutdown", "boot"} = {}

Absent     == "absent"
Lifecycles == {"pending", "live", "exited", "cancelled", "interrupted"}
Roles      == {"wait", "marker", "shutdown", "boot"} \union Requests
Threads    == Roles \X Ids

\* Stages of retireSession after `retiring' is claimed, in code order.
RetireStages == {"snapshot", "meta", "archive", "delete", "mark", "unmap"}
Stages == RetireStages \union
          {"idle", "exit", "cancel", "interrupt", "kill", "retire",
           "finish", "unpend", "update", "fired", "promote", "move",
           "abort", "bootSave", "bootArchive", "bootDelete", "waiting"}
CreatorStages == {"fresh", "reserved", "started", "saved", "done"}
InFlight == {"reserved", "started", "saved"}

VARIABLES
    mode,               \* "down", "starting", "up" or "stopping"
    sessions, pending,  \* Manager.sessions and Manager.pending
    createReservations, \* Manager.createReservations
    creator,            \* progress of the creating request of each instance
    closed, ephemeral, retiring, retired,   \* Session flags, as sets of ids
    hook,               \* sessions whose onExit is not taken yet
    onMarker,           \* sessions whose onMarker is not taken yet
    lifecycle,          \* Session.meta.Lifecycle
    running, reading,   \* child process alive; readLoop alive
    workerSessions,     \* sessions known to the terminal worker
    active, audit,      \* stored metadata: a lifecycle or Absent
    pc,                 \* program counter of every thread
    faults, crashes

flags   == <<closed, ephemeral, retiring, retired, hook, onMarker>>
maps    == <<sessions, pending, createReservations, creator>>
process == <<running, reading, workerSessions>>
disk    == <<active, audit>>
bounds  == <<faults, crashes>>
vars == <<mode, maps, flags, lifecycle, process, disk, pc, bounds>>

Goto(t, id, stage) == pc' = [pc EXCEPT ![<<t, id>>] = stage]
At(t, id, stage)   == pc[<<t, id>>] = stage
Serving == mode \in {"up", "stopping"}

\* A failing call of the store: it may have replaced the file already, because
\* atomicWrite can fail after the rename, in the synchronisation of the directory.
Fault == faults < MaxFaults /\ faults' = faults + 1 /\ UNCHANGED crashes
NoFault == UNCHANGED bounds
SaveMeta(id, value) == active' = [active EXCEPT ![id] = value]
MaybeSaveMeta(id, value) == SaveMeta(id, value) \/ UNCHANGED active

Init ==
    /\ mode = "down"
    /\ sessions = {} /\ pending = {} /\ createReservations = 0
    /\ creator = [id \in Ids |-> "fresh"]
    /\ closed = {} /\ ephemeral = {} /\ retiring = {} /\ retired = {}
    /\ hook = {} /\ onMarker = {}
    /\ lifecycle = [id \in Ids |-> "live"]
    /\ running = {} /\ reading = {} /\ workerSessions = {}
    /\ active = [id \in Ids |-> Absent] /\ audit = [id \in Ids |-> Absent]
    /\ pc = [t \in Threads |-> "idle"]
    /\ faults = 0 /\ crashes = 0

-----------------------------------------------------------------------------
(* Creation: Create and createProcess                                      *)

\* The capacity check and the reservation share one critical section.
Reserve(id) ==
    /\ Serving /\ creator[id] = "fresh"
    /\ Cardinality(sessions) + Cardinality(pending) + createReservations < Limit
    /\ createReservations' = createReservations + 1
    /\ creator' = [creator EXCEPT ![id] = "reserved"]
    /\ UNCHANGED <<mode, sessions, pending, flags, lifecycle, process, disk, pc, bounds>>

\* An inaccessible directory, a worker that refuses, a PTY that does not start:
\* the deferred function gives the reservation back.
CreateFails(id) ==
    /\ Serving /\ creator[id] = "reserved"
    /\ createReservations' = createReservations - 1
    /\ creator' = [creator EXCEPT ![id] = "done"]
    /\ UNCHANGED <<mode, sessions, pending, flags, lifecycle, process, disk, pc, bounds>>

\* worker.Create, startCommand and the fields set before the session is shared.
StartProcess(id) ==
    /\ Serving /\ creator[id] = "reserved"
    /\ creator' = [creator EXCEPT ![id] = IF id \in LaunchIds THEN "saved" ELSE "started"]
    /\ workerSessions' = workerSessions \union {id}
    /\ running' = running \union {id}
    /\ hook' = hook \union {id}
    /\ ephemeral' = IF id \in LaunchIds THEN ephemeral \union {id} ELSE ephemeral
    /\ onMarker' = IF id \in LaunchIds THEN onMarker \union {id} ELSE onMarker
    /\ lifecycle' = [lifecycle EXCEPT ![id] = IF id \in LaunchIds THEN "pending" ELSE "live"]
    /\ UNCHANGED <<mode, sessions, pending, createReservations, closed, retiring,
                   retired, reading, disk, pc, bounds>>

\* saveMeta of a session that is not ephemeral.
Persist(id) ==
    /\ Serving /\ creator[id] = "started"
    /\ creator' = [creator EXCEPT ![id] = "saved"]
    /\ SaveMeta(id, "live") /\ UNCHANGED audit
    /\ UNCHANGED <<mode, sessions, pending, createReservations, flags, lifecycle,
                   process, pc, bounds>>

\* saveMeta fails: abortSession stops the process and drops the session.  It happens
\* at most once for each creation and is not counted among the faults.
PersistFails(id) ==
    /\ Serving /\ creator[id] = "started"
    /\ MaybeSaveMeta(id, "live") /\ UNCHANGED audit
    /\ creator' = [creator EXCEPT ![id] = "done"]
    /\ createReservations' = createReservations - 1
    /\ running' = running \ {id}
    /\ workerSessions' = workerSessions \ {id}
    /\ hook' = hook \ {id}      \* the connection manager releases its own resources
    /\ UNCHANGED <<mode, sessions, pending, closed, ephemeral, retiring, retired,
                   onMarker, lifecycle, reading, pc, bounds>>

\* Insert into the map and startLoops.
Publish(id) ==
    /\ Serving /\ creator[id] = "saved"
    /\ creator' = [creator EXCEPT ![id] = "done"]
    /\ createReservations' = createReservations - 1
    /\ IF id \in ephemeral
         THEN pending' = pending \union {id} /\ UNCHANGED sessions
         ELSE sessions' = sessions \union {id} /\ UNCHANGED pending
    /\ reading' = reading \union {id}
    /\ Goto("wait", id, "waiting")
    /\ UNCHANGED <<mode, flags, lifecycle, running, workerSessions, disk, bounds>>

-----------------------------------------------------------------------------
(* The child process and the two loops of a session                        *)

ProcessExits(id) ==
    /\ id \in running
    /\ running' = running \ {id}
    /\ UNCHANGED <<mode, maps, flags, lifecycle, reading, workerSessions, disk, pc, bounds>>

\* readLoop returns once the PTY is closed or the process is gone.
ReadEnds(id) ==
    /\ id \in reading /\ (id \notin running \/ id \in closed)
    /\ reading' = reading \ {id}
    /\ UNCHANGED <<mode, maps, flags, lifecycle, running, workerSessions, disk, pc, bounds>>

\* waitLoop after cmd.Wait: nothing to do for a session somebody else closed,
\* otherwise it closes the session, saves it and takes the exit hook.
WaitLoop(id) ==
    /\ At("wait", id, "waiting") /\ id \notin running
    /\ IF id \in closed
         THEN /\ Goto("wait", id, "idle")
              /\ UNCHANGED <<closed, hook, lifecycle, disk, bounds>>
         ELSE /\ closed' = closed \union {id}
              /\ hook' = hook \ {id}
              /\ lifecycle' = [lifecycle EXCEPT ![id] = "exited"]
              /\ IF id \in ephemeral
                   THEN /\ Goto("wait", id, "finish")
                        /\ UNCHANGED <<active, bounds>>
                   ELSE /\ Goto("wait", id, "retire")
                        /\ \/ SaveMeta(id, "exited") /\ NoFault
                           \/ UNCHANGED active /\ Fault
              /\ UNCHANGED audit
    /\ UNCHANGED <<mode, maps, ephemeral, retiring, retired, onMarker, process>>

\* applyMarkerLocked saves the metadata on a cwd marker of any session and on a
\* finish marker of one that is not ephemeral; errors are ignored.
MarkerSave(id) ==
    /\ id \in reading
    /\ id \in CwdEmitters \/ id \notin ephemeral
    /\ SaveMeta(id, lifecycle[id])
    /\ UNCHANGED <<mode, maps, flags, lifecycle, process, audit, pc, bounds>>

\* The first tmux-ready marker starts the callback in a goroutine of its own.
MarkerFires(id) ==
    /\ id \in reading /\ id \in onMarker
    /\ onMarker' = onMarker \ {id}
    /\ Goto("marker", id, "fired")
    /\ UNCHANGED <<mode, maps, closed, ephemeral, retiring, retired, hook, lifecycle,
                   process, disk, bounds>>

-----------------------------------------------------------------------------
(* PromotePending, called by the marker callback                           *)

\* The callback finds the tmux option changed, or looks the launch up.
MarkerDecides(id) ==
    /\ At("marker", id, "fired")
    /\ \/ Goto("marker", id, "abort")
       \/ Goto("marker", id, IF id \in pending THEN "promote" ELSE "abort")
    /\ UNCHANGED <<mode, maps, flags, lifecycle, process, disk, bounds>>

PromoteRefused(id) ==
    /\ At("marker", id, "promote") /\ (id \in closed \/ id \notin ephemeral)
    /\ Goto("marker", id, "abort")
    /\ UNCHANGED <<mode, maps, flags, lifecycle, process, disk, bounds>>

\* Mutant: the launch is published without saving its metadata.
PromotePublish_Unsaved(id) ==
    /\ At("marker", id, "promote") /\ id \notin closed /\ id \in ephemeral
    /\ ephemeral' = ephemeral \ {id}
    /\ lifecycle' = [lifecycle EXCEPT ![id] = "live"]
    /\ Goto("marker", id, "move")
    /\ UNCHANGED <<mode, maps, closed, retiring, retired, hook, onMarker, process, disk, bounds>>

\* First critical section: publish the metadata under session.mu.
PromotePublish(id) ==
    /\ At("marker", id, "promote") /\ id \notin closed /\ id \in ephemeral
    /\ ephemeral' = ephemeral \ {id}
    /\ onMarker' = onMarker \ {id}
    /\ lifecycle' = [lifecycle EXCEPT ![id] = "live"]
    /\ SaveMeta(id, "live")
    /\ Goto("marker", id, "move")
    /\ UNCHANGED <<mode, maps, closed, retiring, retired, hook, process, audit, bounds>>

\* The same critical section when saveMeta fails: the session is pending again.
PromotePublishFails(id) ==
    /\ At("marker", id, "promote") /\ id \notin closed /\ id \in ephemeral
    /\ Fault
    /\ MaybeSaveMeta(id, "live")
    /\ lifecycle' = [lifecycle EXCEPT ![id] = "pending"]
    /\ onMarker' = onMarker \ {id}
    /\ Goto("marker", id, "abort")
    /\ UNCHANGED <<mode, maps, closed, ephemeral, retiring, retired, hook, process, audit>>

\* Second critical section: move the session to the heartbeat-visible map.
PromoteMove(id) ==
    /\ At("marker", id, "move")
    /\ pending' = pending \ {id}
    /\ sessions' = IF id \in pending THEN sessions \union {id} ELSE sessions
    /\ Goto("marker", id, "idle")
    /\ UNCHANGED <<mode, createReservations, creator, flags, lifecycle, process, disk, bounds>>

-----------------------------------------------------------------------------
(* Requests: DELETE, abort of a pending launch, and late metadata updates  *)

RequestIdle(r) == \A id \in Ids : At(r, id, "idle")

DeleteLookup(r, id) ==
    /\ Serving /\ RequestIdle(r) /\ id \in sessions
    /\ Goto(r, id, "exit")
    /\ UNCHANGED <<mode, maps, flags, lifecycle, process, disk, bounds>>

\* DELETE of a launch, a closed request or watchPending call AbortPending.
AbortRequest(r, id) ==
    /\ Serving /\ RequestIdle(r) /\ id \in pending
    /\ Goto(r, id, "cancel")
    /\ UNCHANGED <<mode, maps, flags, lifecycle, process, disk, bounds>>

\* The marker callback calls AbortPending as well.
AbortLookup(id) ==
    /\ At("marker", id, "abort")
    /\ Goto("marker", id, IF id \in pending THEN "cancel" ELSE "idle")
    /\ UNCHANGED <<mode, maps, flags, lifecycle, process, disk, bounds>>

\* SetTitle, MarkSourceState and MarkGenerationResult look the session up ...
UpdateLookup(r, id) ==
    /\ Serving /\ RequestIdle(r) /\ id \in sessions
    /\ Goto(r, id, "update")
    /\ UNCHANGED <<mode, maps, flags, lifecycle, process, disk, bounds>>

\* ... and save it in a later critical section that does not look at the flags.
MetaUpdate(r, id) ==
    /\ At(r, id, "update")
    /\ SaveMeta(id, lifecycle[id])
    /\ Goto(r, id, "idle")
    /\ UNCHANGED <<mode, maps, flags, lifecycle, process, audit, bounds>>

-----------------------------------------------------------------------------
(* terminateSession and Shutdown                                           *)

\* The lifecycle that each caller passes to terminateSession, or sets itself.
Label(stage) == CASE stage = "exit"      -> "exited"
                  [] stage = "cancel"    -> "cancelled"
                  [] stage = "interrupt" -> "interrupted"

\* terminateSession returns early for a retired session; Shutdown does not look.
TerminateRetired(t, id) ==
    /\ pc[<<t, id>>] \in {"exit", "cancel"} /\ id \in retired
    /\ Goto(t, id, "idle")
    /\ UNCHANGED <<mode, maps, flags, lifecycle, process, disk, bounds>>

TerminateMark(t, id) ==
    /\ \/ pc[<<t, id>>] \in {"exit", "cancel"} /\ id \notin retired
       \/ pc[<<t, id>>] = "interrupt"
    /\ closed' = closed \union {id}
    /\ lifecycle' = [lifecycle EXCEPT ![id] = Label(pc[<<t, id>>])]
    /\ Goto(t, id, "kill")
    /\ UNCHANGED <<mode, maps, ephemeral, retiring, retired, hook, onMarker, process,
                   disk, bounds>>

\* Mutant: the branch on `ephemeral' is lost.
AfterKill_Finish(id) == "finish"

\* Only an ephemeral session skips the store.
AfterKill(id) == IF id \in ephemeral THEN "finish" ELSE "retire"

\* Mutant: the worker session is closed before the final snapshot.
Kill_ClosesWorker(t, id) ==
    /\ At(t, id, "kill")
    /\ running' = running \ {id} /\ workerSessions' = workerSessions \ {id}
    /\ hook' = hook \ {id}
    /\ Goto(t, id, AfterKill(id))
    /\ UNCHANGED <<mode, maps, closed, ephemeral, retiring, retired, onMarker, lifecycle,
                   reading, disk, bounds>>

\* terminateSessionProcessGroup, takeExitHook, and the branch.
Kill(t, id) ==
    /\ At(t, id, "kill")
    /\ running' = running \ {id}
    /\ hook' = hook \ {id}
    /\ Goto(t, id, AfterKill(id))
    /\ UNCHANGED <<mode, maps, closed, ephemeral, retiring, retired, onMarker, lifecycle,
                   reading, workerSessions, disk, bounds>>

\* A signal, a failed listener or a failed worker; a create request may still run.
ShutdownBegin ==
    /\ mode = "up"
    /\ mode' = "stopping"
    /\ pc' = [th \in Threads |->
                IF th[1] = "shutdown" /\ th[2] \in sessions \union pending
                  THEN "interrupt" ELSE pc[th]]
    /\ UNCHANGED <<maps, flags, lifecycle, process, disk, bounds>>

-----------------------------------------------------------------------------
(* finishEphemeral                                                         *)

Finish(t, id) ==
    /\ At(t, id, "finish")
    /\ retired' = retired \union {id}
    /\ Goto(t, id, IF id \in retired THEN "idle" ELSE "unpend")
    /\ UNCHANGED <<mode, maps, closed, ephemeral, retiring, hook, onMarker, lifecycle,
                   process, disk, bounds>>

Unpend(t, id) ==
    /\ At(t, id, "unpend")
    /\ pending' = pending \ {id}
    /\ workerSessions' = workerSessions \ {id}
    /\ Goto(t, id, "idle")
    /\ UNCHANGED <<mode, sessions, createReservations, creator, flags, lifecycle, running,
                   reading, disk, bounds>>

-----------------------------------------------------------------------------
(* retireSession                                                           *)

\* Mutant: the flag is set but not tested.
RetireBegin_Untested(t, id) ==
    /\ At(t, id, "retire")
    /\ IF id \in retired
         THEN Goto(t, id, "idle") /\ UNCHANGED retiring
         ELSE Goto(t, id, "snapshot") /\ retiring' = retiring \union {id}
    /\ UNCHANGED <<mode, maps, closed, ephemeral, retired, hook, onMarker, lifecycle,
                   process, disk, bounds>>

\* Claim the retirement, or leave it to whoever holds it.
RetireBegin(t, id) ==
    /\ At(t, id, "retire")
    /\ IF id \in retired \union retiring
         THEN Goto(t, id, "idle") /\ UNCHANGED retiring
         ELSE Goto(t, id, "snapshot") /\ retiring' = retiring \union {id}
    /\ UNCHANGED <<mode, maps, closed, ephemeral, retired, hook, onMarker, lifecycle,
                   process, disk, bounds>>

\* Mutant: an error return keeps the claim.
RetireFails_Keeps(t, id, stage) ==
    /\ At(t, id, stage) /\ Fault
    /\ Goto(t, id, "idle")
    /\ UNCHANGED <<mode, maps, flags, lifecycle, process>>

\* An error return: the deferred function clears `retiring', nothing is undone.
RetireFails(t, id, stage) ==
    /\ At(t, id, stage) /\ Fault
    /\ retiring' = retiring \ {id}
    /\ Goto(t, id, "idle")
    /\ UNCHANGED <<mode, maps, closed, ephemeral, retired, hook, onMarker, lifecycle, process>>

\* waitReadLoop gives up on a reader that does not return (counted as a fault);
\* the final snapshot needs the session in the worker.
RetireSnapshot(t, id) ==
    /\ At(t, id, "snapshot")
    /\ IF id \in reading THEN Fault ELSE NoFault
    /\ IF id \in workerSessions
         THEN Goto(t, id, "meta") /\ UNCHANGED retiring
         ELSE Goto(t, id, "idle") /\ retiring' = retiring \ {id}
    /\ UNCHANGED <<mode, maps, closed, ephemeral, retired, hook, onMarker, lifecycle,
                   process, disk>>

RetireSnapshotFails(t, id) ==
    /\ RetireFails(t, id, "snapshot") /\ id \notin reading /\ UNCHANGED disk

RetireMeta(t, id) ==
    /\ At(t, id, "meta")
    /\ SaveMeta(id, lifecycle[id])
    /\ Goto(t, id, "archive")
    /\ UNCHANGED <<mode, maps, flags, lifecycle, process, audit, bounds>>

RetireMetaFails(t, id) ==
    /\ RetireFails(t, id, "meta") /\ MaybeSaveMeta(id, lifecycle[id]) /\ UNCHANGED audit

\* ArchiveConnectionInstance copies the active metadata, and fails without it.
RetireArchive(t, id) ==
    /\ At(t, id, "archive")
    /\ IF active[id] = Absent
         THEN Goto(t, id, "idle") /\ retiring' = retiring \ {id} /\ UNCHANGED audit
         ELSE /\ Goto(t, id, "delete")
              /\ audit' = [audit EXCEPT ![id] = active[id]]
              /\ UNCHANGED retiring
    /\ UNCHANGED <<mode, maps, closed, ephemeral, retired, hook, onMarker, lifecycle,
                   process, active, bounds>>

\* Mutant: the error of the archive call is ignored.
RetireArchiveFails_Ignored(t, id) ==
    /\ At(t, id, "archive") /\ Fault
    /\ Goto(t, id, "delete")
    /\ UNCHANGED <<mode, maps, flags, lifecycle, process, disk>>

RetireArchiveFails(t, id) ==
    /\ RetireFails(t, id, "archive") /\ active[id] # Absent
    /\ audit' = [audit EXCEPT ![id] = active[id]] \/ UNCHANGED audit
    /\ UNCHANGED active

RetireDelete(t, id) ==
    /\ At(t, id, "delete")
    /\ SaveMeta(id, Absent)
    /\ Goto(t, id, "mark")
    /\ UNCHANGED <<mode, maps, flags, lifecycle, process, audit, bounds>>

RetireDeleteFails(t, id) ==
    /\ RetireFails(t, id, "delete") /\ MaybeSaveMeta(id, Absent) /\ UNCHANGED audit

RetireMark(t, id) ==
    /\ At(t, id, "mark")
    /\ retired' = retired \union {id}
    /\ Goto(t, id, "unmap")
    /\ UNCHANGED <<mode, maps, closed, ephemeral, retiring, hook, onMarker, lifecycle,
                   process, disk, bounds>>

\* Leave the map, close the worker session, and clear `retiring'.
RetireUnmap(t, id) ==
    /\ At(t, id, "unmap")
    /\ sessions' = sessions \ {id}
    /\ workerSessions' = workerSessions \ {id}
    /\ retiring' = retiring \ {id}
    /\ Goto(t, id, "idle")
    /\ UNCHANGED <<mode, pending, createReservations, creator, closed, ephemeral, retired,
                   hook, onMarker, lifecycle, running, reading, disk, bounds>>

-----------------------------------------------------------------------------
(* The backend process: start, stop and crash                              *)

\* Start lists the active records that the previous process left.
StartUp ==
    /\ mode = "down"
    /\ mode' = "starting"
    /\ pc' = [th \in Threads |->
                IF th[1] = "boot" /\ active[th[2]] # Absent THEN "bootSave" ELSE "idle"]
    /\ UNCHANGED <<maps, flags, lifecycle, process, disk, bounds>>

\* Mutant: a record that is not live is skipped, as if it were archived already.
BootSave_OnlyLive(id) ==
    /\ At("boot", id, "bootSave")
    /\ IF active[id] = "live"
         THEN SaveMeta(id, "interrupted") /\ Goto("boot", id, "bootArchive")
         ELSE Goto("boot", id, "idle") /\ UNCHANGED active
    /\ UNCHANGED <<mode, maps, flags, lifecycle, process, audit, bounds>>

\* retirePersisted: a record of a live session becomes interrupted first.
BootSave(id) ==
    /\ At("boot", id, "bootSave")
    /\ \/ /\ active[id] # "live"
          /\ Goto("boot", id, "bootArchive") /\ UNCHANGED active /\ NoFault
       \/ /\ active[id] = "live"
          /\ SaveMeta(id, "interrupted")
          /\ Goto("boot", id, "bootArchive") /\ NoFault
       \/ /\ active[id] = "live"
          /\ Fault /\ MaybeSaveMeta(id, "interrupted") /\ Goto("boot", id, "idle")
    /\ UNCHANGED <<mode, maps, flags, lifecycle, process, audit>>

BootArchive(id) ==
    /\ At("boot", id, "bootArchive")
    /\ \/ /\ audit' = [audit EXCEPT ![id] = active[id]]
          /\ Goto("boot", id, "bootDelete") /\ NoFault
       \/ /\ audit' = [audit EXCEPT ![id] = active[id]] \/ UNCHANGED audit
          /\ Fault /\ Goto("boot", id, "idle")
    /\ UNCHANGED <<mode, maps, flags, lifecycle, process, active>>

BootDelete(id) ==
    /\ At("boot", id, "bootDelete")
    /\ \/ SaveMeta(id, Absent) /\ NoFault
       \/ MaybeSaveMeta(id, Absent) /\ Fault
    /\ Goto("boot", id, "idle")
    /\ UNCHANGED <<mode, maps, flags, lifecycle, process, audit>>

StartDone ==
    /\ mode = "starting" /\ \A id \in Ids : At("boot", id, "idle")
    /\ mode' = "up"
    /\ UNCHANGED <<maps, flags, lifecycle, process, disk, pc, bounds>>

\* Memory, child processes (Pdeathsig) and the worker go with the backend.
MemoryLost ==
    /\ mode' = "down"
    /\ sessions' = {} /\ pending' = {} /\ createReservations' = 0
    /\ creator' = [id \in Ids |-> IF creator[id] = "fresh" THEN "fresh" ELSE "done"]
    /\ closed' = {} /\ ephemeral' = {} /\ retiring' = {} /\ retired' = {}
    /\ hook' = {} /\ onMarker' = {}
    /\ lifecycle' = [id \in Ids |-> "live"]
    /\ running' = {} /\ reading' = {} /\ workerSessions' = {}
    /\ pc' = [t \in Threads |-> "idle"]

\* main returns after Shutdown has waited for every session it found.
Exit ==
    /\ mode = "stopping" /\ \A id \in Ids : At("shutdown", id, "idle")
    /\ MemoryLost
    /\ UNCHANGED <<disk, bounds>>

Crash ==
    /\ mode # "down" /\ crashes < MaxCrashes
    /\ crashes' = crashes + 1
    /\ MemoryLost
    /\ UNCHANGED <<disk, faults>>

-----------------------------------------------------------------------------
Creating(id) == Reserve(id) \/ CreateFails(id) \/ StartProcess(id) \/ Persist(id)
                \/ PersistFails(id) \/ Publish(id)

Promoting(id) == MarkerDecides(id) \/ PromoteRefused(id) \/ PromotePublish(id)
                 \/ PromotePublishFails(id) \/ PromoteMove(id) \/ AbortLookup(id)

Terminating(t, id) == TerminateRetired(t, id) \/ TerminateMark(t, id) \/ Kill(t, id)
                      \/ Finish(t, id) \/ Unpend(t, id)

Retiring(t, id) == RetireBegin(t, id) \/ RetireSnapshot(t, id) \/ RetireMeta(t, id)
                   \/ RetireArchive(t, id) \/ RetireDelete(t, id) \/ RetireMark(t, id)
                   \/ RetireUnmap(t, id)

RetiringFails(t, id) == RetireSnapshotFails(t, id) \/ RetireMetaFails(t, id)
                        \/ RetireArchiveFails(t, id) \/ RetireDeleteFails(t, id)

Booting(id) == BootSave(id) \/ BootArchive(id) \/ BootDelete(id)

Requesting(r, id) == DeleteLookup(r, id) \/ AbortRequest(r, id) \/ UpdateLookup(r, id)
                     \/ MetaUpdate(r, id)

Next ==
    \/ \E id \in Ids :
         \/ Creating(id) \/ Promoting(id) \/ Booting(id)
         \/ ProcessExits(id) \/ ReadEnds(id) \/ WaitLoop(id)
         \/ MarkerSave(id) \/ MarkerFires(id)
    \/ \E r \in Requests, id \in Ids : Requesting(r, id)
    \/ \E t \in Roles, id \in Ids :
         Terminating(t, id) \/ Retiring(t, id) \/ RetiringFails(t, id)
    \/ ShutdownBegin \/ StartUp \/ StartDone \/ Exit \/ Crash

Spec == Init /\ [][Next]_vars

\* Goroutines are scheduled, calls of the store and of the worker return (they
\* run under timeouts), and a closed PTY ends its reader.  Users, child
\* processes and operators owe nothing.
Fairness ==
    /\ \A id \in Ids :
         /\ WF_vars(Promoting(id)) /\ WF_vars(Booting(id))
         /\ WF_vars(ReadEnds(id)) /\ WF_vars(WaitLoop(id))
         /\ WF_vars(Publish(id) \/ Persist(id) \/ StartProcess(id))
    /\ \A t \in Roles \ {"boot"}, id \in Ids : WF_vars(Terminating(t, id) \/ Retiring(t, id))
    /\ \A r \in Requests, id \in Ids : WF_vars(MetaUpdate(r, id))
    /\ WF_vars(StartDone) /\ WF_vars(Exit)

FairSpec == Spec /\ Fairness
-----------------------------------------------------------------------------
(* Properties                                                              *)

\* Every variable stays in its range.
TypeOK ==
    /\ mode \in {"down", "starting", "up", "stopping"}
    /\ sessions \subseteq Ids /\ pending \subseteq Ids
    /\ createReservations \in Int
    /\ creator \in [Ids -> CreatorStages]
    /\ closed \subseteq Ids /\ ephemeral \subseteq Ids
    /\ retiring \subseteq Ids /\ retired \subseteq Ids
    /\ hook \subseteq Ids /\ onMarker \subseteq Ids
    /\ lifecycle \in [Ids -> Lifecycles]
    /\ running \subseteq Ids /\ reading \subseteq Ids /\ workerSessions \subseteq Ids
    /\ active \in [Ids -> Lifecycles \union {Absent}]
    /\ audit \in [Ids -> Lifecycles \union {Absent}]
    /\ pc \in [Threads -> Stages]
    /\ faults \in Nat /\ crashes \in Nat

\* The check in Create and createProcess counts sessions, launches and requests
\* in flight: however creations, promotions and retirements interleave, the
\* instances that exist or are being made never exceed the configured maximum,
\* and every reservation is given back by the request that took it.
Capacity ==
    /\ Cardinality(sessions) + Cardinality(pending) + createReservations <= Limit
    /\ createReservations = Cardinality({id \in Ids : creator[id] \in InFlight})

\* The `retiring' flag makes retirement exclusive: waitLoop, DELETE and Shutdown
\* may all reach retireSession for one session, and at most one is inside.
SingleRetirer ==
    \A id \in Ids, t, u \in Roles :
        pc[<<t, id>>] \in RetireStages /\ pc[<<u, id>>] \in RetireStages => t = u

\* A promoted instance is persisted before the heartbeat can list it, and it
\* stays persisted until somebody has closed it (pending.go, retire.go).
VisibleIsDurable ==
    \A id \in sessions : id \notin closed => active[id] # Absent

\* The terminal worker keeps the session as long as anybody may still attach to
\* it or take its final snapshot.
WorkerSessionLives ==
    \A id \in sessions \union pending : id \notin retired => id \in workerSessions

\* The check before the move in PromotePending never fires: no termination that
\* runs between the two critical sections takes the launch out of `pending'.
PromoteFindsLaunch ==
    \A id \in Ids : At("marker", id, "move") => id \in pending

\* Audit copies are of finished connections: the final metadata is written
\* before the copy is made, at exit, on shutdown and at the next start.
AuditNotLive == \A id \in Ids : audit[id] # "live"

\* The active record goes only after the audit copy was committed, across
\* failures, crashes, restarts and a retirement that is tried again.
AuditBeforeDelete ==
    [][\A id \in Ids : active[id] # Absent /\ active'[id] = Absent => audit[id] # Absent]_vars

\* The runtime and its store implement the abstract record: nothing but a
\* finished record is archived, and nothing is removed that is not archived.
Record == INSTANCE ConnectionRecord
KeepsRecords == Record!Spec

\* Somebody is about to end the session: DELETE, an abort, Shutdown, its wait loop.
Ending(id) == \E t \in Roles :
    pc[<<t, id>>] \in {"exit", "cancel", "interrupt", "kill", "retire"} \union RetireStages

\* A session that is closed, whoever closed it and however many retire it, has its
\* exit hook run, so that the SSH transport of the instance is released, and a launch
\* that was not promoted leaves the map of pending ones; a failing call changes
\* neither.  A local or derived session whose retirement fails stays in the map of
\* active ones, and nothing tries again by itself: but `retiring' is released, so the
\* next DELETE or Shutdown does remove it, once the calls do not fail any more.  (A
\* launch that exits between the two critical sections of PromotePending is inserted
\* in `sessions' after it was retired.)
ClosedIsCleared ==
    /\ closed \cap hook # {} ~> closed \cap hook = {}
    /\ retiring # {} ~> retiring = {}
    /\ \A id \in LaunchIds : (id \in closed /\ id \in ephemeral) ~> id \notin pending
    /\ \A id \in Ids \ LaunchIds :
         (Ending(id) /\ faults = MaxFaults) ~> id \notin sessions

\* The records left by a crash, or by a start or a retirement that failed, are archived
\* and retired by the next start on which no call fails, unless that start is cut short
\* by another crash.
LeftoversRetired ==
    (/\ mode = "starting" /\ faults = MaxFaults
     /\ \A id \in Ids : active[id] # Absent => At("boot", id, "bootSave"))
    ~> (mode = "down" \/ (\A id \in Ids : active[id] = Absent))

-----------------------------------------------------------------------------
(* What the documentation says and the code does not do                    *)

\* docs/backup-recovery.md: "When a connection exits, its active files are
\* archived and removed".
RetiredIsRemoved == \A id \in retired : audit[id] # Absent => active[id] = Absent

=============================================================================
