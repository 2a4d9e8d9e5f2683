-------------------------- MODULE AgentObservation --------------------------
(***************************************************************************)
(* How the server installs the Codex agent component on one SSH endpoint   *)
(* and follows what the agent does there (internal/agent).                  *)
(*                                                                         *)
(* An initialisation request checks the connection, marks its target in    *)
(* the endpoint record, and then either joins the running operation of the *)
(* endpoint or starts one.  The operation works under the endpoint mutex;  *)
(* the request's own updates of the record do not.  One scheduler reads    *)
(* the remote state files one after another and projects each into the     *)
(* record, again under the mutex, appending a message for each change of   *)
(* state it sees.  The record is a file that is rewritten as a whole.      *)
(*                                                                         *)
(* A runtime is a tmux server and session: its creation time is not a      *)
(* counter (clocks step back, and two sessions can share a second).  Names, *)
(* versions, error texts and the other endpoints are left out.             *)
(***************************************************************************)
EXTENDS Naturals, Sequences, FiniteSets

CONSTANTS Instances,      \* live SSH connections to the endpoint
          Targets,        \* tmux sessions on it
          TargetOf,       \* the session of each connection
          Ops,            \* operation identifiers, in the order they are taken
          Runtime,        \* creation time and socket of the n-th runtime of a session
          AgentStates,    \* what a hook can report
          MaxIndex,       \* reports of one runtime
          MaxFaults,      \* failed writes and appends, lost state files, deleted
                          \* messages and restarts
          Nil

VARIABLES record,         \* the endpoint record in memory (Store.state)
          disk,           \* the record in agent-endpoints.json
          bound,          \* connections whose target is cached (bindings)
          request,        \* StartInitialization of each connection
          ops,            \* operations and what each goroutine does next
          current,        \* endpointOps of the endpoint
          mutex,          \* holder of the endpoint mutex
          sync,           \* what the scheduler has read and decided
          remote,         \* the state file of each session
          installed,      \* the component is on the remote host
          inbox,          \* messages: order of arrival, kept and forgotten keys
          late,           \* targets marked for an operation that was over
          faults

agentVars == <<record, disk, bound, request, ops, current, mutex, sync, remote,
               installed, inbox, late, faults>>

RuntimeNumbers == DOMAIN Runtime
Scheduler == 0            \* holds the endpoint mutex while it projects a snapshot
Components == {"none", "initializing", "needs_trust", "ready", "error"}
SyncStatus == {"none", "pending", "available", "stale", "failed"}
TargetStates ==
  [component: Components, op: Ops \union {Nil}, state: AgentStates \union {"none"},
   index: 0..MaxIndex, runtime: RuntimeNumbers \union {0},
   created: {Runtime[r].created: r \in RuntimeNumbers} \union {0},
   toldIndex: 0..MaxIndex, toldRuntime: RuntimeNumbers \union {0}, sync: SyncStatus]
Records == [installation: Components, targets: [Targets -> TargetStates]]
Snapshots == [runtime: RuntimeNumbers, index: 1..MaxIndex, state: AgentStates]
Keys == Targets \X RuntimeNumbers \X (1..MaxIndex)

AgentBounds ==
  /\ TargetOf \in [Instances -> Targets]
  /\ Ops \subseteq Nat \ {0} /\ IsFiniteSet(Ops)
  /\ Runtime \in Seq([created: Nat, socket: Nat]) /\ Runtime # << >>
  /\ {MaxIndex, MaxFaults} \subseteq Nat
  /\ "none" \notin AgentStates /\ Nil \notin Nat \union Keys

Phases == {"none", "queued", "working", "installing", "verified", "marked",
           "completing", "failing", "done"}

Blank == [component |-> "none", op |-> Nil, state |-> "none", index |-> 0, runtime |-> 0,
          created |-> 0, toldIndex |-> 0, toldRuntime |-> 0, sync |-> "none"]
Idle == [pc |-> "idle", prior |-> "none", created |-> 0, op |-> Nil]
NoSync == [pc |-> "idle", target |-> Nil, snap |-> Nil, key |-> Nil]
Unused == [status |-> "unused", pc |-> "none", target |-> Nil, prior |-> "none",
           component |-> "none"]

AgentInit ==
  /\ record = [installation |-> "none", targets |-> [t \in Targets |-> Blank]]
  /\ disk = record
  /\ bound = {}
  /\ request = [i \in Instances |-> Idle]
  /\ ops = [o \in Ops |-> Unused]
  /\ current = Nil /\ mutex = Nil
  /\ sync = NoSync
  /\ remote = [t \in Targets |-> [runtime |-> 1, index |-> 0, state |-> "none"]]
  /\ installed = FALSE
  /\ inbox = [log |-> << >>, kept |-> {}, forgotten |-> {}]
  /\ late = {} /\ faults = 0

----------------------------------------------------------------------------
\* Store.Update: a record that cannot be saved is rolled back in memory, but
\* the rename may have happened before the directory could be flushed.
Saved(new) == record' = new /\ disk' = new /\ UNCHANGED faults

Unsaved(new) ==
  /\ faults < MaxFaults
  /\ faults' = faults + 1
  /\ disk' \in {disk, new}
  /\ UNCHANGED record

Update(new) == Saved(new) \/ Unsaved(new)

Set(t, value) == [record EXCEPT !.targets[t] = value]

\* The targets an ending operation writes: its own and those that joined it.
Touched(o) == {t \in Targets : t = ops[o].target \/ record.targets[t].op = o}

OperationRuns == current # Nil /\ ops[current].status = "running"
Finished == {o \in Ops : ops[o].status \in {"completed", "failed"}}

Pruned(gone) ==
  [o \in Ops |-> IF o \in gone THEN [ops[o] EXCEPT !.status = "gone"] ELSE ops[o]]

----------------------------------------------------------------------------
\* StartInitialization: the checks, the preflight that reads the session's
\* creation time, and what the record says of the component so far.
Begin(i) ==
  /\ request[i].pc = "idle"
  /\ \E o \in Ops : ops[o].status = "unused"
  /\ LET t == TargetOf[i] IN
       request' = [request EXCEPT ![i] =
         [pc |-> "checked", created |-> Runtime[remote[t].runtime].created, op |-> Nil,
          prior |-> IF record.targets[t].component = "ready" THEN "ready"
                    ELSE record.installation]]
  /\ UNCHANGED <<record, disk, bound, ops, current, mutex, sync, remote, installed,
                 inbox, late, faults>>

PreparedRecord(i) ==
  LET t == TargetOf[i]
  IN [Set(t, [record.targets[t] EXCEPT !.component = "initializing", !.state = "none",
                !.index = 0, !.created = request[i].created, !.sync = "pending"])
        EXCEPT !.installation = "initializing"]

Prepare(i) ==
  /\ request[i].pc = "checked"
  /\ \/ /\ Saved(PreparedRecord(i))
        /\ bound' = bound \union {i}
        /\ request' = [request EXCEPT ![i].pc = "prepared"]
        /\ late' = late \ {TargetOf[i]}
     \/ /\ Unsaved(PreparedRecord(i))
        /\ request' = [request EXCEPT ![i] = Idle]
        /\ UNCHANGED <<bound, late>>
  /\ UNCHANGED <<ops, current, mutex, sync, remote, installed, inbox>>

NextOp == CHOOSE o \in Ops :
  /\ ops[o].status = "unused"
  /\ \A p \in Ops : ops[p].status = "unused" => o <= p

Start(i) ==
  /\ ops' = [ops EXCEPT ![NextOp] = [Unused EXCEPT !.status = "running", !.target = TargetOf[i],
                                                  !.prior = request[i].prior]]
  /\ current' = NextOp
  /\ request' = [request EXCEPT ![i].pc = "created", ![i].op = NextOp]

JoinOrStart(i) ==
  /\ request[i].pc = "prepared"
  /\ \/ /\ OperationRuns
        /\ request' = [request EXCEPT ![i].pc = "joined", ![i].op = current]
        /\ UNCHANGED <<ops, current>>
     \/ /\ ~OperationRuns
        /\ \E o \in Ops : ops[o].status = "unused"
        /\ Start(i)
  /\ UNCHANGED <<record, disk, bound, mutex, sync, remote, installed, inbox, late, faults>>

\* setTargetInitialization, whose error is ignored; then the request is answered
\* and, if it started the operation, the goroutine runs.
AnswerRequest(i) ==
  /\ request[i].pc \in {"joined", "created"}
  /\ LET t == TargetOf[i]
         o == request[i].op
     IN /\ Update(Set(t, [record.targets[t] EXCEPT !.op = o, !.component = "initializing"]))
        /\ ops' = IF request[i].pc = "created" THEN [ops EXCEPT ![o].pc = "queued"] ELSE ops
        /\ late' = IF ops[o].pc = "done" THEN late \union {t} ELSE late
  /\ request' = [request EXCEPT ![i] = Idle]
  /\ UNCHANGED <<bound, current, mutex, sync, remote, installed, inbox>>

\* GetInitialization prunes before it answers.
GetInitialization ==
  /\ \E gone \in SUBSET Finished : gone # {} /\ ops' = Pruned(gone)
  /\ UNCHANGED <<record, disk, bound, request, current, mutex, sync, remote, installed,
                 inbox, late, faults>>

----------------------------------------------------------------------------
\* executeInitialization holds the endpoint mutex from its first to its last step.
TakeMutex(o) ==
  /\ ops[o].pc = "queued" /\ mutex = Nil
  /\ mutex' = o
  /\ ops' = [ops EXCEPT ![o].pc = "working"]
  /\ UNCHANGED <<record, disk, bound, request, current, sync, remote, installed, inbox,
                 late, faults>>

\* The part of completeInitialization and failInitialization under Service.mu.
Ends(o, status, pc) ==
  /\ ops' = [ops EXCEPT ![o].status = IF @ = "running" THEN status ELSE @, ![o].pc = pc]
  /\ current' = IF current = o THEN Nil ELSE current

\* The transport, the platform probe, the asset or the existing probe fails.
ProbeFails(o) ==
  /\ ops[o].pc = "working"
  /\ Ends(o, "failed", "failing")
  /\ UNCHANGED <<record, disk, bound, request, mutex, sync, remote, installed, inbox,
                 late, faults>>

MarkedRecord(o, component) ==
  [Set(ops[o].target, [record.targets[ops[o].target] EXCEPT !.component = component])
     EXCEPT !.installation = component]

MarkTargetComponent(o, component) ==
  \/ /\ Saved(MarkedRecord(o, component))
     /\ ops' = [ops EXCEPT ![o].pc = "marked", ![o].component = component]
     /\ UNCHANGED current
  \/ /\ Unsaved(MarkedRecord(o, component))
     /\ Ends(o, "failed", "failing")

\* The probe finds the component of the manifest: nothing is uploaded.
AlreadyCurrent(o) ==
  /\ ops[o].pc = "working" /\ installed
  /\ MarkTargetComponent(o, IF ops[o].prior \in {"none", "initializing", "error"}
                            THEN "needs_trust" ELSE ops[o].prior)
  /\ UNCHANGED <<bound, request, mutex, sync, remote, installed, inbox, late>>

AnnounceInstall(o) ==
  /\ ops[o].pc = "working" /\ ~installed
  /\ \/ /\ Saved([record EXCEPT !.installation = "initializing"])
        /\ ops' = [ops EXCEPT ![o].pc = "installing"]
        /\ UNCHANGED current
     \/ /\ Unsaved([record EXCEPT !.installation = "initializing"])
        /\ Ends(o, "failed", "failing")
  /\ UNCHANGED <<bound, request, mutex, sync, remote, installed, inbox, late>>

InstallRemote(o) ==
  /\ ops[o].pc = "installing"
  /\ \/ /\ installed' = TRUE
        /\ ops' = [ops EXCEPT ![o].pc = "verified"]
        /\ UNCHANGED current
     \/ /\ installed' \in BOOLEAN
        /\ Ends(o, "failed", "failing")
  /\ UNCHANGED <<record, disk, bound, request, mutex, sync, remote, inbox, late, faults>>

InstallVerified(o) ==
  /\ ops[o].pc = "verified"
  /\ MarkTargetComponent(o, IF ops[o].prior = "ready" THEN "ready" ELSE "needs_trust")
  /\ UNCHANGED <<bound, request, mutex, sync, remote, installed, inbox, late>>

CompleteInitialization(o) ==
  /\ ops[o].pc = "marked"
  /\ Ends(o, "completed", "completing")
  /\ UNCHANGED <<record, disk, bound, request, mutex, sync, remote, installed, inbox,
                 late, faults>>

\* The update that follows, outside Service.mu; its error is ignored.
Settled_OwnOnly(o, component) ==
  [record.targets EXCEPT ![ops[o].target].component = IF @ = "ready" THEN @ ELSE component,
                         ![ops[o].target].op = Nil]

Settled(o, component) ==
  [t \in Targets |->
     IF t \notin Touched(o) THEN record.targets[t]
     ELSE [record.targets[t] EXCEPT !.component = IF @ = "ready" THEN @ ELSE component,
                                    !.op = Nil]]

SettleCompleted(o) ==
  /\ ops[o].pc = "completing"
  /\ Update([record EXCEPT !.targets = Settled(o, ops[o].component)])
  /\ ops' = [ops EXCEPT ![o].pc = "done"]
  /\ mutex' = Nil
  /\ UNCHANGED <<bound, request, current, sync, remote, installed, inbox, late>>

AnyReady(o) ==
  record.installation = "ready" \/ \E t \in Touched(o) : record.targets[t].component = "ready"

SettleFailed(o) ==
  /\ ops[o].pc = "failing"
  /\ Update([installation |-> IF AnyReady(o) THEN record.installation ELSE "error",
             targets |-> Settled(o, "error")])
  /\ ops' = [ops EXCEPT ![o].pc = "done"]
  /\ mutex' = Nil
  /\ UNCHANGED <<bound, request, current, sync, remote, installed, inbox, late>>

----------------------------------------------------------------------------
\* SyncOnce visits the connections in turn; a state file is read without the mutex.
ReadRemoteState(i) ==
  LET t == TargetOf[i] IN
  /\ sync.pc = "idle" /\ installed /\ remote[t].index > 0
  /\ sync' = [pc |-> "read", target |-> t, snap |-> remote[t], key |-> Nil]
  /\ bound' = bound \union {i}
  /\ UNCHANGED <<record, disk, request, ops, current, mutex, remote, installed, inbox,
                 late, faults>>

RecordSyncFailure(i) ==
  LET t == TargetOf[i] IN
  /\ sync.pc = "idle"
  /\ Update(Set(t, [record.targets[t] EXCEPT !.sync = "failed"]))
  /\ bound' = bound \union {i}
  /\ UNCHANGED <<request, ops, current, mutex, sync, remote, installed, inbox, late>>

SameRuntime(previous, snap) == previous.runtime # 0 /\ previous.runtime = snap.runtime

\* Of two runtimes of the same second the accepted one stays, unless they share
\* the tmux socket.
OlderRuntime(previous, snap) ==
  \/ Runtime[snap.runtime].created < previous.created
  \/ /\ Runtime[snap.runtime].created = previous.created
     /\ Runtime[snap.runtime].socket # Runtime[previous.runtime].socket

Stale_Never(previous, snap) == FALSE

Stale(previous, snap) ==
  \/ previous.runtime # 0 /\ ~SameRuntime(previous, snap) /\ OlderRuntime(previous, snap)
  \/ SameRuntime(previous, snap) /\ snap.index < previous.index
  \/ /\ SameRuntime(previous, snap) /\ snap.index = previous.index
     /\ previous.state \notin {"none", snap.state}

Known(previous, snap) ==
  SameRuntime(previous, snap) /\ snap.index = previous.index /\ previous.state = snap.state

Transition(previous, snap) ==
  SameRuntime(previous, snap) /\ previous.state \notin {"none", snap.state}

\* acceptSnapshot when there is nothing to project.
RejectSnapshot ==
  LET t == sync.target
      previous == record.targets[t]
  IN /\ sync.pc = "read" /\ mutex = Nil
     /\ \/ /\ Stale(previous, sync.snap)
           /\ Update(Set(t, [previous EXCEPT !.sync = "stale"]))
        \/ /\ ~Stale(previous, sync.snap) /\ Known(previous, sync.snap)
           /\ Update(Set(t, [previous EXCEPT !.sync = "available"]))
     /\ sync' = NoSync
     /\ UNCHANGED <<bound, request, ops, current, mutex, remote, installed, inbox, late>>

\* AppendMessage: the repository answers with the old message for a key it holds.
Appended_Always(key) == [inbox EXCEPT !.log = Append(@, key), !.kept = @ \union {key}]

Appended(key) ==
  IF key \in inbox.kept THEN inbox
  ELSE [inbox EXCEPT !.log = Append(@, key), !.kept = @ \union {key}]

JudgeSnapshot ==
  LET t == sync.target
      previous == record.targets[t]
      key == <<t, sync.snap.runtime, sync.snap.index>>
      transition == Transition(previous, sync.snap)
      toTell == transition /\ <<t, previous.toldRuntime, previous.toldIndex>> # key
  IN /\ sync.pc = "read" /\ mutex = Nil
     /\ ~Stale(previous, sync.snap) /\ ~Known(previous, sync.snap)
     /\ \/ /\ inbox' = IF toTell THEN Appended(key) ELSE inbox
           /\ mutex' = Scheduler
           /\ sync' = [sync EXCEPT !.pc = "accepted", !.key = IF transition THEN key ELSE Nil]
           /\ UNCHANGED faults
        \/ /\ toTell /\ faults < MaxFaults
           /\ faults' = faults + 1
           /\ sync' = NoSync
           /\ UNCHANGED <<inbox, mutex>>
     /\ UNCHANGED <<record, disk, bound, request, ops, current, remote, installed, late>>

ProjectSnapshot ==
  LET t == sync.target
      snap == sync.snap
      told == sync.key # Nil
  IN /\ sync.pc = "accepted"
     /\ Update([Set(t, [record.targets[t] EXCEPT
                          !.component = "ready", !.state = snap.state, !.index = snap.index,
                          !.runtime = snap.runtime, !.created = Runtime[snap.runtime].created,
                          !.toldRuntime = IF told THEN snap.runtime ELSE @,
                          !.toldIndex = IF told THEN snap.index ELSE @,
                          !.sync = "available"])
                  EXCEPT !.installation = IF @ \in {"none", "initializing"} THEN "ready" ELSE @])
     /\ sync' = NoSync
     /\ mutex' = Nil
     /\ UNCHANGED <<bound, request, ops, current, remote, installed, inbox, late>>

----------------------------------------------------------------------------
\* The remote side and the user.
HookReports(t) ==
  /\ installed /\ remote[t].index < MaxIndex
  /\ \E s \in AgentStates :
       remote' = [remote EXCEPT ![t].index = @ + 1, ![t].state = s]
  /\ UNCHANGED <<record, disk, bound, request, ops, current, mutex, sync, installed, inbox,
                 late, faults>>

RuntimeRestarts(t) ==
  /\ remote[t].runtime + 1 \in RuntimeNumbers
  /\ remote' = [remote EXCEPT ![t] = [runtime |-> @.runtime + 1, index |-> 0, state |-> "none"]]
  /\ UNCHANGED <<record, disk, bound, request, ops, current, mutex, sync, installed, inbox,
                 late, faults>>

StateFileLost(t) ==
  /\ faults < MaxFaults /\ remote[t].index > 0
  /\ faults' = faults + 1
  /\ remote' = [remote EXCEPT ![t].index = 0, ![t].state = "none"]
  /\ UNCHANGED <<record, disk, bound, request, ops, current, mutex, sync, installed, inbox, late>>

\* The user deletes a message, and with it the key that would be recognised.
MessageDeleted ==
  /\ faults < MaxFaults
  /\ faults' = faults + 1
  /\ \E key \in inbox.kept :
       inbox' = [inbox EXCEPT !.kept = @ \ {key}, !.forgotten = @ \union {key}]
  /\ UNCHANGED <<record, disk, bound, request, ops, current, mutex, sync, remote, installed,
                 late>>

Restart ==
  /\ faults < MaxFaults
  /\ faults' = faults + 1
  /\ record' = disk
  /\ bound' = {}
  /\ request' = [i \in Instances |-> Idle]
  /\ ops' = [o \in Ops |-> IF ops[o].status = "unused" THEN Unused
                           ELSE [ops[o] EXCEPT !.status = "gone", !.pc = "done"]]
  /\ current' = Nil /\ mutex' = Nil
  /\ sync' = NoSync
  /\ UNCHANGED <<disk, remote, installed, inbox, late>>

AgentNext ==
  \/ \E i \in Instances :
       \/ Begin(i) \/ Prepare(i) \/ JoinOrStart(i) \/ AnswerRequest(i)
       \/ ReadRemoteState(i) \/ RecordSyncFailure(i)
  \/ \E o \in Ops :
       \/ TakeMutex(o) \/ ProbeFails(o) \/ AlreadyCurrent(o) \/ AnnounceInstall(o)
       \/ InstallRemote(o) \/ InstallVerified(o) \/ CompleteInitialization(o)
       \/ SettleCompleted(o) \/ SettleFailed(o)
  \/ GetInitialization \/ RejectSnapshot \/ JudgeSnapshot \/ ProjectSnapshot
  \/ \E t \in Targets : HookReports(t) \/ RuntimeRestarts(t) \/ StateFileLost(t)
  \/ MessageDeleted \/ Restart

AgentSpec == AgentInit /\ [][AgentNext]_agentVars

----------------------------------------------------------------------------
\* Type correctness of the agent service's state.
AgentTypeOK ==
  /\ record \in Records /\ disk \in Records
  /\ bound \subseteq Instances
  /\ \A i \in Instances : request[i].pc \in {"idle", "checked", "prepared", "joined", "created"}
  /\ \A o \in Ops : ops[o].status \in {"unused", "running", "completed", "failed", "gone"}
                    /\ ops[o].pc \in Phases
  /\ current \in Ops \union {Nil} /\ mutex \in Ops \union {Nil, Scheduler}
  /\ late \subseteq Targets
  /\ sync.pc \in {"idle", "read", "accepted"}
  /\ \A n \in DOMAIN inbox.log : inbox.log[n] \in Keys
  /\ faults \in 0..MaxFaults

\* An endpoint has at most one operation at work, whatever requests, failures
\* and restarts come between; the client that polls it finds it, and finds it
\* running, until its outcome is decided (join under Service.mu, pruning).
OneOperation ==
  LET atWork == {o \in Ops : ops[o].pc \in {"queued", "working", "installing", "verified", "marked"}}
  IN /\ Cardinality(atWork) <= 1
     /\ \A o \in atWork : ops[o].status = "running" /\ current = o

\* A change of state is told once: a crash, or a failed save, after the message
\* was stored and before the projection was does not repeat it, unless the user
\* deleted the message meanwhile (appendTransitionMessage, acceptSnapshot).
ToldOnce ==
  \A m, n \in DOMAIN inbox.log :
     m # n /\ inbox.log[m] = inbox.log[n] => inbox.log[n] \in inbox.forgotten

\* The projection says that the component is there only when it is, also for
\* targets that joined, after failed installs and after restarts.
ReadyIsInstalled ==
  \A t \in Targets : record.targets[t].component \in {"ready", "needs_trust"} => installed

\* The projection never goes back to a runtime it has left or to an earlier
\* report of the one it follows; only an initialisation starts it over.
ProjectionForward ==
  \A t \in Targets :
       LET old == record.targets[t]
           new == record'.targets[t]
       IN /\ new.runtime >= old.runtime
          /\ old.runtime = new.runtime /\ new.index < old.index
               => new.index = 0 /\ new.component = "initializing"

\* A change of state that the projection takes over within one runtime has been
\* told: the message is stored before the projection moves.
ChangesAreTold ==
  \A t \in Targets :
       LET old == record.targets[t]
           new == record'.targets[t]
       IN /\ old.runtime = new.runtime
          /\ old.state # "none" /\ new.state \notin {"none", old.state}
          => <<t, new.runtime, new.index>> \in inbox.kept \union inbox.forgotten

\* Once no request and no operation is under way, no target is left waiting for
\* an initialisation, the ones that joined included, except after a failed save
\* or a restart, and except where the join was recorded too late: StartInitialization
\* marks the target after Service.mu is released, and an operation that ended in
\* between has settled its targets already (initialization.go, line 72).
SettledTargets ==
  (/\ \A i \in Instances : request[i].pc = "idle"
   /\ \A o \in Ops : ops[o].pc \in {"none", "done"}
   /\ faults = 0)
  => \A t \in Targets \ late : record.targets[t].component # "initializing"

\* An initialisation is one, ends for all who wait for it, and is believed only when
\* the component is there.
PreparationSafe == AgentTypeOK /\ OneOperation /\ ReadyIsInstalled /\ SettledTargets
=============================================================================
