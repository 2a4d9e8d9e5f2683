----------------------- MODULE TerminalLifecycle_proofs -----------------------
(***************************************************************************)
(* Proofs about TerminalLifecycle for every set of instances, requests and *)
(* bounds.  IInv, at the end, is the conjunction of the parts stated here; *)
(* each part is kept by every action, given the parts before it.           *)
(***************************************************************************)
EXTENDS TerminalLifecycle, FiniteSetTheorems, TLAPS

BootStages == {"bootSave", "bootArchive", "bootDelete"}
TermStages == {"kill", "retire", "finish", "unpend"} \union RetireStages

\* Nobody works on an instance before its creator publishes it; a backend that
\* does not serve holds no session; only the startup loop uses the boot stages.
Quiet ==
    /\ \A id \in Ids : creator[id] # "done" =>
          /\ id \notin sessions /\ id \notin pending /\ id \notin closed
          /\ id \notin retiring /\ id \notin retired /\ id \notin reading
          /\ \A t \in Roles : pc[<<t, id>>] = "idle"
          /\ creator[id] # "saved" => active[id] = Absent
    /\ ~Serving =>
          /\ sessions = {} /\ pending = {} /\ reading = {} /\ closed = {}
          /\ \A id \in Ids : creator[id] \in {"fresh", "done"}
    /\ \A t \in Roles, id \in Ids :
          /\ ~Serving => pc[<<t, id>>] \in BootStages \union {"idle"}
          /\ pc[<<t, id>>] \in BootStages => t = "boot" /\ mode = "starting"
          /\ t = "boot" => pc[<<t, id>>] \in BootStages \union {"idle"}

\* A thread that terminates or retires a session has closed it, a closed session
\* is no longer live, and finishEphemeral is reached only by ephemeral sessions.
ClosedInv ==
    \A id \in Ids :
        /\ id \in closed => lifecycle[id] # "live"
        /\ At("marker", id, "move") => id \notin ephemeral
        /\ \A t \in Roles :
             /\ pc[<<t, id>>] \in TermStages => id \in closed
             /\ pc[<<t, id>>] \in {"finish", "unpend"} => id \in ephemeral
             /\ pc[<<t, id>>] \in {"unpend", "unmap"} => id \in retired

\* Being inside retireSession means that `retiring' is set.
RetireInv ==
    /\ \A id \in Ids, t \in Roles : pc[<<t, id>>] \in RetireStages => id \in retiring
    /\ SingleRetirer

\* The creator opens the worker session before the session is shared.
WorkerInv ==
    /\ WorkerSessionLives
    /\ \A id \in Ids : creator[id] \in {"started", "saved"} => id \in workerSessions

\* Between the lookup and the move only a termination could remove the launch.
PromoteInv ==
    /\ PromoteFindsLaunch
    /\ \A id \in Ids : At("marker", id, "promote") /\ id \notin closed => id \in pending

\* Published metadata is on disk while the session is on its way into the map.
DurableInv ==
    /\ VisibleIsDurable
    /\ \A id \in Ids :
         /\ At("marker", id, "move") /\ id \notin closed => active[id] # Absent
         /\ creator[id] = "saved" => id \in ephemeral \/ active[id] # Absent

\* What the threads of retireSession and retirePersisted have already written.
RecordInv ==
    /\ AuditNotLive
    /\ \A id \in Ids, t \in Roles :
         /\ pc[<<t, id>>] = "archive" => active[id] # "live"
         /\ pc[<<t, id>>] = "bootSave" => active[id] # Absent
         /\ pc[<<t, id>>] = "bootArchive" => active[id] \notin {Absent, "live"}
         /\ pc[<<t, id>>] \in {"delete", "bootDelete"} => audit[id] # Absent

-----------------------------------------------------------------------------
(* Type invariant and steps of the program counters                        *)

\* The initial state is well typed.
LEMMA TypeInit == Init => TypeOK
  BY LimitAssumption DEF Init, TypeOK, CreatorStages, Lifecycles, Stages, RetireStages

\* Every action keeps the types.
LEMMA TypeNext == TypeOK /\ [Next]_vars => TypeOK'
<1> SUFFICES ASSUME TypeOK, [Next]_vars PROVE TypeOK'
    OBVIOUS
<1> USE BoundAssumption DEF TypeOK, flags, maps, process, disk, bounds, Goto, At,
        Fault, NoFault, SaveMeta, MaybeSaveMeta
<1>1. ASSUME NEW id \in Ids, Creating(id)
      PROVE  TypeOK'
  <2>1. CASE Reserve(id)
    BY <2>1
      DEF Reserve, Lifecycles, Stages, RetireStages, CreatorStages, Threads, Roles
  <2>2. CASE CreateFails(id)
    BY <2>2
      DEF CreateFails, Lifecycles, Stages, RetireStages, CreatorStages, Threads, Roles
  <2>3. CASE StartProcess(id)
    BY <2>3
      DEF StartProcess, Lifecycles, Stages, RetireStages, CreatorStages, Threads, Roles
  <2>4. CASE Persist(id)
    BY <2>4
      DEF Persist, Lifecycles, Stages, RetireStages, CreatorStages, Threads, Roles
  <2>5. CASE PersistFails(id)
    BY <2>5
      DEF PersistFails, Lifecycles, Stages, RetireStages, CreatorStages, Threads, Roles
  <2>6. CASE Publish(id)
    BY <2>6
      DEF Publish, Lifecycles, Stages, RetireStages, CreatorStages, Threads, Roles
  <2> QED
    BY <1>1, <2>1, <2>2, <2>3, <2>4, <2>5, <2>6 DEF Creating
<1>2. ASSUME NEW id \in Ids, Promoting(id)
      PROVE  TypeOK'
  BY <1>2
    DEF Promoting, MarkerDecides, PromoteRefused, PromotePublish, PromotePublishFails,
        PromoteMove, AbortLookup, Lifecycles, Stages, RetireStages, CreatorStages, Threads,
        Roles
<1>3. ASSUME NEW id \in Ids, Booting(id)
      PROVE  TypeOK'
  BY <1>3
    DEF Booting, BootSave, BootArchive, BootDelete, Lifecycles, Stages, RetireStages,
        CreatorStages, Threads, Roles
<1>4. ASSUME NEW id \in Ids,
             ProcessExits(id) \/ ReadEnds(id) \/ WaitLoop(id) \/ MarkerSave(id) \/ MarkerFires(id)
      PROVE  TypeOK'
  <2>1. CASE ProcessExits(id)
    BY <2>1
      DEF ProcessExits, Lifecycles, Stages, RetireStages, CreatorStages, Threads, Roles
  <2>2. CASE ReadEnds(id)
    BY <2>2
      DEF ReadEnds, Lifecycles, Stages, RetireStages, CreatorStages, Threads, Roles
  <2>3. CASE WaitLoop(id)
    <3>1. <<"wait", id>> \in Threads
      BY DEF Threads, Roles
    <3>2. CASE id \in closed
      BY <2>3, <3>1, <3>2 DEF WaitLoop, Stages
    <3>3. CASE id \notin closed /\ id \in ephemeral
      BY <2>3, <3>1, <3>3 DEF WaitLoop, Stages, Lifecycles
    <3>4. CASE id \notin closed /\ id \notin ephemeral
      BY <2>3, <3>1, <3>4 DEF WaitLoop, Stages, Lifecycles
    <3> QED
      BY <3>2, <3>3, <3>4
  <2>4. CASE MarkerSave(id)
    BY <2>4
      DEF MarkerSave, Lifecycles, Stages, RetireStages, CreatorStages, Threads, Roles
  <2>5. CASE MarkerFires(id)
    BY <2>5
      DEF MarkerFires, Lifecycles, Stages, RetireStages, CreatorStages, Threads, Roles
  <2> QED
    BY <1>4, <2>1, <2>2, <2>3, <2>4, <2>5
<1>5. ASSUME NEW r \in Requests, NEW id \in Ids, Requesting(r, id)
      PROVE  TypeOK'
  <2>1. CASE DeleteLookup(r, id)
    BY <2>1
      DEF DeleteLookup, Lifecycles, Stages, RetireStages, CreatorStages, Threads, Roles
  <2>2. CASE AbortRequest(r, id)
    BY <2>2
      DEF AbortRequest, Lifecycles, Stages, RetireStages, CreatorStages, Threads, Roles
  <2>3. CASE UpdateLookup(r, id)
    BY <2>3
      DEF UpdateLookup, Lifecycles, Stages, RetireStages, CreatorStages, Threads, Roles
  <2>4. CASE MetaUpdate(r, id)
    BY <2>4
      DEF MetaUpdate, Lifecycles, Stages, RetireStages, CreatorStages, Threads, Roles
  <2> QED
    BY <1>5, <2>1, <2>2, <2>3, <2>4 DEF Requesting
<1>6. ASSUME NEW t \in Roles, NEW id \in Ids, Terminating(t, id)
      PROVE  TypeOK'
  BY <1>6
    DEF Terminating, TerminateRetired, TerminateMark, Kill, Finish, Unpend, Label,
        AfterKill, Lifecycles, Stages, RetireStages, CreatorStages, Threads, Roles
<1>7. ASSUME NEW t \in Roles, NEW id \in Ids, Retiring(t, id)
      PROVE  TypeOK'
  BY <1>7
    DEF Retiring, RetireBegin, RetireSnapshot, RetireMeta, RetireArchive, RetireDelete,
        RetireMark, RetireUnmap, Lifecycles, Stages, RetireStages, CreatorStages, Threads,
        Roles
<1>8. ASSUME NEW t \in Roles, NEW id \in Ids, RetiringFails(t, id)
      PROVE  TypeOK'
  BY <1>8
    DEF RetiringFails, RetireSnapshotFails, RetireMetaFails, RetireArchiveFails,
        RetireDeleteFails, RetireFails, Lifecycles, Stages, RetireStages, CreatorStages,
        Threads, Roles
<1>9. ASSUME ShutdownBegin \/ StartUp \/ StartDone \/ Exit \/ Crash
      PROVE  TypeOK'
  BY <1>9
    DEF ShutdownBegin, StartUp, StartDone, Exit, Crash, MemoryLost, Lifecycles, Stages,
        RetireStages, CreatorStages, Threads, Roles
<1>10. CASE UNCHANGED vars
  BY <1>10
    DEF vars, Lifecycles, Stages, RetireStages, CreatorStages, Threads, Roles
<1> QED
  BY <1>1, <1>2, <1>3, <1>4, <1>5, <1>6, <1>7, <1>8, <1>9, <1>10 DEF Next

\* A step of one thread changes the stage of that thread only.
LEMMA PcStep ==
    ASSUME TypeOK, NEW t \in Roles, NEW id \in Ids, NEW stage, Goto(t, id, stage)
    PROVE  \A u \in Roles, i \in Ids :
               pc'[<<u, i>>] = IF u = t /\ i = id THEN stage ELSE pc[<<u, i>>]
  BY DEF TypeOK, Goto, Threads

\* The fixed roles and the requests are roles.
LEMMA RoleNames == {"wait", "marker", "shutdown", "boot"} \subseteq Roles /\ Requests \subseteq Roles
  BY DEF Roles

-----------------------------------------------------------------------------
(* The capacity of the runtime                                             *)

\* Sets of instances are finite.
LEMMA FiniteParts ==
    ASSUME TypeOK, NEW S \in SUBSET Ids
    PROVE  IsFiniteSet(S) /\ Cardinality(S) \in Nat
  BY FiniteAssumption, FS_Subset, FS_CardinalityType

\* Adding an element adds at most one to a cardinality.
LEMMA AddBound ==
    ASSUME NEW S, NEW x, IsFiniteSet(S)
    PROVE  Cardinality(S \cup {x}) \in Nat /\ Cardinality(S \cup {x}) <= Cardinality(S) + 1
<1>1. IsFiniteSet(S \cup {x}) /\ Cardinality(S) \in Nat
  BY FS_AddElement, FS_CardinalityType
<1>2. Cardinality(S \cup {x}) \in Nat
  BY <1>1, FS_CardinalityType
<1>3. Cardinality(S \cup {x}) = IF x \in S THEN Cardinality(S) ELSE Cardinality(S) + 1
  BY FS_AddElement
<1> QED
  BY <1>1, <1>2, <1>3

\* Removing a member takes one from a cardinality.
LEMMA RemoveBound ==
    ASSUME NEW S, NEW x, IsFiniteSet(S)
    PROVE  /\ Cardinality(S \ {x}) \in Nat /\ Cardinality(S \ {x}) <= Cardinality(S)
           /\ x \in S => Cardinality(S \ {x}) = Cardinality(S) - 1
<1>1. IsFiniteSet(S \ {x}) /\ Cardinality(S) \in Nat
  BY FS_RemoveElement, FS_CardinalityType
<1>2. Cardinality(S \ {x}) \in Nat
  BY <1>1, FS_CardinalityType
<1>3. Cardinality(S \ {x}) = IF x \in S THEN Cardinality(S) - 1 ELSE Cardinality(S)
  BY FS_RemoveElement
<1> QED
  BY <1>1, <1>2, <1>3

\* The requests that hold a reservation.
Counted == {id \in Ids : creator[id] \in InFlight}

\* The reservation count follows the requests in flight, and a move between the
\* two maps never raises the sum.
LEMMA CapacityNext == TypeOK /\ Capacity /\ [Next]_vars => Capacity'
<1> SUFFICES ASSUME TypeOK, Capacity, [Next]_vars PROVE Capacity'
    OBVIOUS
<1> USE DEF flags, maps, process, disk, bounds, Fault, NoFault
<1>a. /\ sessions \in SUBSET Ids /\ pending \in SUBSET Ids /\ Counted \in SUBSET Ids
      /\ creator \in [Ids -> CreatorStages] /\ Limit \in Nat
  BY LimitAssumption DEF TypeOK, Counted
<1>b. /\ IsFiniteSet(sessions) /\ IsFiniteSet(pending) /\ IsFiniteSet(Counted)
      /\ Cardinality(sessions) \in Nat /\ Cardinality(pending) \in Nat
      /\ Cardinality(Counted) \in Nat
  BY <1>a, FiniteParts
<1>c. /\ Cardinality(sessions) + Cardinality(pending) + createReservations <= Limit
      /\ createReservations = Cardinality(Counted)
  BY DEF Capacity, Counted
<1>d. ASSUME Cardinality(sessions') + Cardinality(pending') + createReservations' <= Limit,
             createReservations' = Cardinality(Counted')
      PROVE  Capacity'
  BY <1>d DEF Capacity, Counted
<1>e. ASSUME NEW id \in Ids, creator[id] \in InFlight,
             creator' = [creator EXCEPT ![id] = "done"],
             createReservations' = createReservations - 1
      PROVE  createReservations' = Cardinality(Counted')
  <2>1. Counted' = Counted \ {id} /\ id \in Counted
    BY <1>a, <1>e DEF Counted, InFlight
  <2> QED
    BY <2>1, <1>b, <1>c, <1>e, FS_RemoveElement
<1>f. ASSUME UNCHANGED <<sessions, pending, createReservations, creator>>
      PROVE  Capacity'
  BY <1>f DEF Capacity
<1>1. ASSUME NEW id \in Ids, Creating(id)
      PROVE  Capacity'
  <2>1. CASE Reserve(id)
    <3>1. Counted' = Counted \cup {id} /\ id \notin Counted
      BY <2>1, <1>a DEF Reserve, Counted, InFlight
    <3>2. createReservations' = Cardinality(Counted')
      BY <2>1, <3>1, <1>b, <1>c, FS_AddElement DEF Reserve
    <3> QED
      BY <2>1, <3>2, <1>b, <1>c, <1>d, <1>a DEF Reserve
  <2>2. CASE CreateFails(id)
    <3>1. /\ createReservations' = Cardinality(Counted')
          /\ createReservations' = createReservations - 1
          /\ UNCHANGED <<sessions, pending>>
      BY <2>2, <1>e DEF CreateFails, InFlight
    <3>2. Cardinality(sessions') + Cardinality(pending') + createReservations' <= Limit
      BY <3>1, <1>a, <1>b, <1>c
    <3> QED
      BY <3>1, <3>2, <1>d
  <2>3. CASE StartProcess(id) \/ Persist(id)
    <3>1. Counted' = Counted /\ UNCHANGED <<sessions, pending, createReservations>>
      BY <2>3, <1>a DEF StartProcess, Persist, Counted, InFlight
    <3> QED
      BY <3>1, <1>c, <1>d
  <2>4. CASE PersistFails(id)
    <3>1. /\ createReservations' = Cardinality(Counted')
          /\ createReservations' = createReservations - 1
          /\ UNCHANGED <<sessions, pending>>
      BY <2>4, <1>e DEF PersistFails, InFlight
    <3>2. Cardinality(sessions') + Cardinality(pending') + createReservations' <= Limit
      BY <3>1, <1>a, <1>b, <1>c
    <3> QED
      BY <3>1, <3>2, <1>d
  <2>5. CASE Publish(id)
    <3>1. createReservations' = Cardinality(Counted')
          /\ createReservations' = createReservations - 1
      BY <2>5, <1>e DEF Publish, InFlight
    <3>2. \/ sessions' = sessions \cup {id} /\ pending' = pending
          \/ pending' = pending \cup {id} /\ sessions' = sessions
      BY <2>5 DEF Publish
    <3>3. /\ Cardinality(sessions \cup {id}) <= Cardinality(sessions) + 1
          /\ Cardinality(pending \cup {id}) <= Cardinality(pending) + 1
          /\ Cardinality(sessions \cup {id}) \in Nat /\ Cardinality(pending \cup {id}) \in Nat
      BY <1>b, AddBound
    <3>4. CASE sessions' = sessions \cup {id} /\ pending' = pending
      <4>1. Cardinality(sessions') + Cardinality(pending') + createReservations' <= Limit
        BY <3>1, <3>3, <3>4, <1>a, <1>b, <1>c
      <4> QED
        BY <4>1, <3>1, <1>d
    <3>5. CASE pending' = pending \cup {id} /\ sessions' = sessions
      <4>1. Cardinality(sessions') + Cardinality(pending') + createReservations' <= Limit
        BY <3>1, <3>3, <3>5, <1>a, <1>b, <1>c
      <4> QED
        BY <4>1, <3>1, <1>d
    <3> QED
      BY <3>2, <3>4, <3>5
  <2> QED
    BY <1>1, <2>1, <2>2, <2>3, <2>4, <2>5 DEF Creating
<1>2. ASSUME NEW id \in Ids, Promoting(id)
      PROVE  Capacity'
  <2>1. CASE PromoteMove(id)
    <3>1. CASE id \in pending
      <4>1. /\ Cardinality(pending \ {id}) = Cardinality(pending) - 1
            /\ Cardinality(sessions \cup {id}) <= Cardinality(sessions) + 1
            /\ Cardinality(sessions \cup {id}) \in Nat
        BY <1>b, <3>1, AddBound, RemoveBound
      <4>2. Counted' = Counted
        BY <2>1 DEF PromoteMove, Counted
      <4> QED
        BY <2>1, <3>1, <4>1, <4>2, <1>a, <1>b, <1>c, <1>d DEF PromoteMove
    <3>2. CASE id \notin pending
      <4>1. pending \ {id} = pending
        BY <3>2
      <4> QED
        BY <2>1, <3>2, <4>1, <1>f DEF PromoteMove
    <3> QED
      BY <3>1, <3>2
  <2>2. CASE ~PromoteMove(id)
    BY <1>2, <2>2, <1>f
      DEF Promoting, MarkerDecides, PromoteRefused, PromotePublish, PromotePublishFails,
          AbortLookup
  <2> QED
    BY <2>1, <2>2
<1>3. ASSUME NEW id \in Ids, Booting(id)
      PROVE  Capacity'
  BY <1>3, <1>f DEF Booting, BootSave, BootArchive, BootDelete
<1>4. ASSUME NEW id \in Ids,
             ProcessExits(id) \/ ReadEnds(id) \/ WaitLoop(id) \/ MarkerSave(id) \/ MarkerFires(id)
      PROVE  Capacity'
  BY <1>4, <1>f DEF ProcessExits, ReadEnds, WaitLoop, MarkerSave, MarkerFires
<1>5. ASSUME NEW r \in Requests, NEW id \in Ids, Requesting(r, id)
      PROVE  Capacity'
  BY <1>5, <1>f DEF Requesting, DeleteLookup, AbortRequest, UpdateLookup, MetaUpdate
<1>6. ASSUME NEW t \in Roles, NEW id \in Ids, Terminating(t, id)
      PROVE  Capacity'
  <2>1. CASE Unpend(t, id)
    <3>1. /\ Cardinality(pending \ {id}) <= Cardinality(pending)
          /\ Cardinality(pending \ {id}) \in Nat
      BY <1>b, RemoveBound
    <3>2. Counted' = Counted
      BY <2>1 DEF Unpend, Counted
    <3> QED
      BY <2>1, <3>1, <3>2, <1>a, <1>b, <1>c, <1>d DEF Unpend
  <2>2. CASE ~Unpend(t, id)
    BY <1>6, <2>2, <1>f DEF Terminating, TerminateRetired, TerminateMark, Kill, Finish
  <2> QED
    BY <2>1, <2>2
<1>7. ASSUME NEW t \in Roles, NEW id \in Ids, Retiring(t, id)
      PROVE  Capacity'
  <2>1. CASE RetireUnmap(t, id)
    <3>1. /\ Cardinality(sessions \ {id}) <= Cardinality(sessions)
          /\ Cardinality(sessions \ {id}) \in Nat
      BY <1>b, RemoveBound
    <3>2. Counted' = Counted
      BY <2>1 DEF RetireUnmap, Counted
    <3> QED
      BY <2>1, <3>1, <3>2, <1>a, <1>b, <1>c, <1>d DEF RetireUnmap
  <2>2. CASE ~RetireUnmap(t, id)
    BY <1>7, <2>2, <1>f
      DEF Retiring, RetireBegin, RetireSnapshot, RetireMeta, RetireArchive, RetireDelete,
          RetireMark
  <2> QED
    BY <2>1, <2>2
<1>8. ASSUME NEW t \in Roles, NEW id \in Ids, RetiringFails(t, id)
      PROVE  Capacity'
  BY <1>8, <1>f
    DEF RetiringFails, RetireFails, RetireSnapshotFails, RetireMetaFails, RetireArchiveFails,
        RetireDeleteFails
<1>9. CASE ShutdownBegin \/ StartUp \/ StartDone
  BY <1>9, <1>f DEF ShutdownBegin, StartUp, StartDone
<1>10. CASE Exit \/ Crash
  <2>1. /\ sessions' = {} /\ pending' = {} /\ createReservations' = 0 /\ Counted' = {}
    BY <1>10, <1>a DEF Exit, Crash, MemoryLost, Counted, InFlight
  <2> QED
    BY <2>1, <1>a, <1>d, FS_EmptySet
<1>11. CASE UNCHANGED vars
  BY <1>11, <1>f DEF vars
<1> QED
  BY <1>1, <1>2, <1>3, <1>4, <1>5, <1>6, <1>7, <1>8, <1>9, <1>10, <1>11 DEF Next

-----------------------------------------------------------------------------
(* The parts of the inductive invariant                                    *)

\* Every action keeps Quiet.
LEMMA QuietNext == TypeOK /\ Quiet /\ [Next]_vars => Quiet'
<1> SUFFICES ASSUME TypeOK, Quiet, [Next]_vars
             PROVE  Quiet'
    OBVIOUS
<1> USE PcStep, RoleNames
        DEF TypeOK, flags, maps, process, disk, bounds, At, Fault, NoFault, Serving,
            SaveMeta, MaybeSaveMeta
<1>1. ASSUME NEW id \in Ids, Creating(id)
      PROVE  Quiet'
  <2>1. CASE Reserve(id)
    BY <2>1
      DEF Reserve, Quiet, BootStages
  <2>2. CASE CreateFails(id)
    BY <2>2
      DEF CreateFails, Quiet, BootStages
  <2>3. CASE StartProcess(id)
    BY <2>3
      DEF StartProcess, Quiet, BootStages
  <2>4. CASE Persist(id)
    BY <2>4
      DEF Persist, Quiet, BootStages
  <2>5. CASE PersistFails(id)
    BY <2>5
      DEF PersistFails, Quiet, BootStages
  <2>6. CASE Publish(id)
    BY <2>6
      DEF Publish, Quiet, BootStages
  <2> QED
    BY <1>1, <2>1, <2>2, <2>3, <2>4, <2>5, <2>6 DEF Creating
<1>2. ASSUME NEW id \in Ids, Promoting(id)
      PROVE  Quiet'
  <2>1. CASE MarkerDecides(id)
    BY <2>1
      DEF MarkerDecides, Quiet, BootStages
  <2>2. CASE PromoteRefused(id)
    BY <2>2
      DEF PromoteRefused, Quiet, BootStages
  <2>3. CASE PromotePublish(id)
    BY <2>3
      DEF PromotePublish, Quiet, BootStages
  <2>4. CASE PromotePublishFails(id)
    BY <2>4
      DEF PromotePublishFails, Quiet, BootStages
  <2>5. CASE PromoteMove(id)
    BY <2>5
      DEF PromoteMove, Quiet, BootStages
  <2>6. CASE AbortLookup(id)
    BY <2>6
      DEF AbortLookup, Quiet, BootStages
  <2> QED
    BY <1>2, <2>1, <2>2, <2>3, <2>4, <2>5, <2>6 DEF Promoting
<1>3. ASSUME NEW id \in Ids, Booting(id)
      PROVE  Quiet'
  <2>1. CASE BootSave(id)
    BY <2>1
      DEF BootSave, Quiet, BootStages
  <2>2. CASE BootArchive(id)
    BY <2>2
      DEF BootArchive, Quiet, BootStages
  <2>3. CASE BootDelete(id)
    BY <2>3
      DEF BootDelete, Quiet, BootStages
  <2> QED
    BY <1>3, <2>1, <2>2, <2>3 DEF Booting
<1>4. ASSUME NEW id \in Ids,
             ProcessExits(id) \/ ReadEnds(id) \/ WaitLoop(id) \/ MarkerSave(id) \/ MarkerFires(id)
      PROVE  Quiet'
  <2>1. CASE ProcessExits(id)
    BY <2>1
      DEF ProcessExits, Quiet, BootStages
  <2>2. CASE ReadEnds(id)
    BY <2>2
      DEF ReadEnds, Quiet, BootStages
  <2>3. CASE WaitLoop(id)
    BY <2>3
      DEF WaitLoop, Quiet, BootStages
  <2>4. CASE MarkerSave(id)
    BY <2>4
      DEF MarkerSave, Quiet, BootStages
  <2>5. CASE MarkerFires(id)
    BY <2>5
      DEF MarkerFires, Quiet, BootStages
  <2> QED
    BY <1>4, <2>1, <2>2, <2>3, <2>4, <2>5
<1>5. ASSUME NEW r \in Requests, NEW id \in Ids, Requesting(r, id)
      PROVE  Quiet'
  <2>1. CASE DeleteLookup(r, id)
    BY <2>1, RequestAssumption
      DEF DeleteLookup, Quiet, BootStages
  <2>2. CASE AbortRequest(r, id)
    BY <2>2, RequestAssumption
      DEF AbortRequest, Quiet, BootStages
  <2>3. CASE UpdateLookup(r, id)
    BY <2>3, RequestAssumption
      DEF UpdateLookup, Quiet, BootStages
  <2>4. CASE MetaUpdate(r, id)
    BY <2>4
      DEF MetaUpdate, Quiet, BootStages
  <2> QED
    BY <1>5, <2>1, <2>2, <2>3, <2>4 DEF Requesting
<1>6. ASSUME NEW t \in Roles, NEW id \in Ids, Terminating(t, id)
      PROVE  Quiet'
  <2>1. CASE TerminateRetired(t, id)
    BY <2>1
      DEF TerminateRetired, Quiet, BootStages
  <2>2. CASE TerminateMark(t, id)
    BY <2>2
      DEF TerminateMark, Label, Quiet, BootStages
  <2>3. CASE Kill(t, id)
    BY <2>3
      DEF Kill, AfterKill, Quiet, BootStages
  <2>4. CASE Finish(t, id)
    BY <2>4
      DEF Finish, Quiet, BootStages
  <2>5. CASE Unpend(t, id)
    BY <2>5
      DEF Unpend, Quiet, BootStages
  <2> QED
    BY <1>6, <2>1, <2>2, <2>3, <2>4, <2>5 DEF Terminating
<1>7. ASSUME NEW t \in Roles, NEW id \in Ids, Retiring(t, id)
      PROVE  Quiet'
  <2>1. CASE RetireBegin(t, id)
    BY <2>1
      DEF RetireBegin, Quiet, BootStages
  <2>2. CASE RetireSnapshot(t, id)
    BY <2>2
      DEF RetireSnapshot, Quiet, BootStages
  <2>3. CASE RetireMeta(t, id)
    BY <2>3
      DEF RetireMeta, Quiet, BootStages
  <2>4. CASE RetireArchive(t, id)
    BY <2>4
      DEF RetireArchive, Quiet, BootStages
  <2>5. CASE RetireDelete(t, id)
    BY <2>5
      DEF RetireDelete, Quiet, BootStages
  <2>6. CASE RetireMark(t, id)
    BY <2>6
      DEF RetireMark, Quiet, BootStages
  <2>7. CASE RetireUnmap(t, id)
    BY <2>7
      DEF RetireUnmap, Quiet, BootStages
  <2> QED
    BY <1>7, <2>1, <2>2, <2>3, <2>4, <2>5, <2>6, <2>7 DEF Retiring
<1>8. ASSUME NEW t \in Roles, NEW id \in Ids, RetiringFails(t, id)
      PROVE  Quiet'
  <2>1. CASE RetireSnapshotFails(t, id)
    BY <2>1
      DEF RetireSnapshotFails, RetireFails, Quiet, BootStages
  <2>2. CASE RetireMetaFails(t, id)
    BY <2>2
      DEF RetireMetaFails, RetireFails, Quiet, BootStages
  <2>3. CASE RetireArchiveFails(t, id)
    BY <2>3
      DEF RetireArchiveFails, RetireFails, Quiet, BootStages
  <2>4. CASE RetireDeleteFails(t, id)
    BY <2>4
      DEF RetireDeleteFails, RetireFails, Quiet, BootStages
  <2> QED
    BY <1>8, <2>1, <2>2, <2>3, <2>4 DEF RetiringFails
<1>9. ASSUME ShutdownBegin \/ StartUp \/ StartDone \/ Exit \/ Crash
      PROVE  Quiet'
  <2>1. CASE ShutdownBegin
    BY <2>1
      DEF ShutdownBegin, Threads, Quiet, BootStages
  <2>2. CASE StartUp
    BY <2>2
      DEF StartUp, Threads, Quiet, BootStages
  <2>3. CASE StartDone
    BY <2>3
      DEF StartDone, Quiet, BootStages
  <2>4. CASE Exit
    BY <2>4
      DEF Exit, MemoryLost, Threads, Quiet, BootStages
  <2>5. CASE Crash
    BY <2>5
      DEF Crash, MemoryLost, Threads, Quiet, BootStages
  <2> QED
    BY <1>9, <2>1, <2>2, <2>3, <2>4, <2>5
<1>10. CASE UNCHANGED vars
  BY <1>10
    DEF vars, Quiet, BootStages
<1> QED
  BY <1>1, <1>2, <1>3, <1>4, <1>5, <1>6, <1>7, <1>8, <1>9, <1>10 DEF Next

\* Every action keeps ClosedInv.
LEMMA ClosedNext == TypeOK /\ Quiet /\ ClosedInv /\ [Next]_vars => ClosedInv'
<1> SUFFICES ASSUME TypeOK, Quiet, ClosedInv, [Next]_vars
             PROVE  ClosedInv'
    OBVIOUS
<1> USE DEF TypeOK, flags, maps, process, disk, bounds, At, Fault, NoFault, Serving,
            SaveMeta, MaybeSaveMeta, Goto, Threads, Roles
<1>1. ASSUME NEW id \in Ids, Creating(id)
      PROVE  ClosedInv'
  <2>1. CASE Reserve(id)
    BY <2>1
      DEF Reserve, Quiet, ClosedInv, BootStages, TermStages, RetireStages
  <2>2. CASE CreateFails(id)
    BY <2>2
      DEF CreateFails, Quiet, ClosedInv, BootStages, TermStages, RetireStages
  <2>3. CASE StartProcess(id)
    BY <2>3
      DEF StartProcess, Quiet, ClosedInv, BootStages, TermStages, RetireStages
  <2>4. CASE Persist(id)
    BY <2>4
      DEF Persist, Quiet, ClosedInv, BootStages, TermStages, RetireStages
  <2>5. CASE PersistFails(id)
    BY <2>5
      DEF PersistFails, Quiet, ClosedInv, BootStages, TermStages, RetireStages
  <2>6. CASE Publish(id)
    BY <2>6, ZenonT(40)
      DEF Publish, Quiet, ClosedInv, BootStages, TermStages, RetireStages
  <2> QED
    BY <1>1, <2>1, <2>2, <2>3, <2>4, <2>5, <2>6 DEF Creating
<1>2. ASSUME NEW id \in Ids, Promoting(id)
      PROVE  ClosedInv'
  <2>1. CASE MarkerDecides(id)
    <3>1. PICK stage \in {"abort", "promote"} :
               /\ pc' = [pc EXCEPT ![<<"marker", id>>] = stage]
               /\ UNCHANGED <<closed, ephemeral, retired, lifecycle>>
      BY <2>1 DEF MarkerDecides
    <3>2. pc[<<"marker", id>>] = "fired"
      BY <2>1 DEF MarkerDecides
    <3> QED
      BY <3>1, <3>2 DEF ClosedInv, TermStages, RetireStages
  <2>2. CASE PromoteRefused(id)
    BY <2>2, ZenonT(40)
      DEF PromoteRefused, Quiet, ClosedInv, BootStages, TermStages, RetireStages
  <2>3. CASE PromotePublish(id)
    BY <2>3, ZenonT(40)
      DEF PromotePublish, Quiet, ClosedInv, BootStages, TermStages, RetireStages
  <2>4. CASE PromotePublishFails(id)
    BY <2>4, ZenonT(40)
      DEF PromotePublishFails, Quiet, ClosedInv, BootStages, TermStages, RetireStages
  <2>5. CASE PromoteMove(id)
    BY <2>5, ZenonT(40)
      DEF PromoteMove, Quiet, ClosedInv, BootStages, TermStages, RetireStages
  <2>6. CASE AbortLookup(id)
    BY <2>6, ZenonT(40)
      DEF AbortLookup, Quiet, ClosedInv, BootStages, TermStages, RetireStages
  <2> QED
    BY <1>2, <2>1, <2>2, <2>3, <2>4, <2>5, <2>6 DEF Promoting
<1>3. ASSUME NEW id \in Ids, Booting(id)
      PROVE  ClosedInv'
  <2>1. CASE BootSave(id)
    <3>1. PICK stage \in {"bootArchive", "idle"} :
               /\ pc' = [pc EXCEPT ![<<"boot", id>>] = stage]
               /\ UNCHANGED <<closed, ephemeral, retired, lifecycle>>
      BY <2>1 DEF BootSave
    <3>2. pc[<<"boot", id>>] = "bootSave"
      BY <2>1 DEF BootSave
    <3> QED
      BY <3>1, <3>2 DEF ClosedInv, TermStages, RetireStages
  <2>2. CASE BootArchive(id)
    <3>1. PICK stage \in {"bootDelete", "idle"} :
               /\ pc' = [pc EXCEPT ![<<"boot", id>>] = stage]
               /\ UNCHANGED <<closed, ephemeral, retired, lifecycle>>
      BY <2>2 DEF BootArchive
    <3>2. pc[<<"boot", id>>] = "bootArchive"
      BY <2>2 DEF BootArchive
    <3> QED
      BY <3>1, <3>2 DEF ClosedInv, TermStages, RetireStages
  <2>3. CASE BootDelete(id)
    <3>1. PICK stage \in {"idle"} :
               /\ pc' = [pc EXCEPT ![<<"boot", id>>] = stage]
               /\ UNCHANGED <<closed, ephemeral, retired, lifecycle>>
      BY <2>3 DEF BootDelete
    <3>2. pc[<<"boot", id>>] = "bootDelete"
      BY <2>3 DEF BootDelete
    <3> QED
      BY <3>1, <3>2 DEF ClosedInv, TermStages, RetireStages
  <2> QED
    BY <1>3, <2>1, <2>2, <2>3 DEF Booting
<1>4. ASSUME NEW id \in Ids,
             ProcessExits(id) \/ ReadEnds(id) \/ WaitLoop(id) \/ MarkerSave(id) \/ MarkerFires(id)
      PROVE  ClosedInv'
  <2>1. CASE ProcessExits(id)
    BY <2>1
      DEF ProcessExits, Quiet, ClosedInv, BootStages, TermStages, RetireStages
  <2>2. CASE ReadEnds(id)
    BY <2>2
      DEF ReadEnds, Quiet, ClosedInv, BootStages, TermStages, RetireStages
  <2>3. CASE WaitLoop(id)
    <3>1. CASE id \in closed
      <4>1. /\ pc' = [pc EXCEPT ![<<"wait", id>>] = "idle"]
            /\ UNCHANGED <<closed, ephemeral, retired, lifecycle>>
        BY <2>3, <3>1 DEF WaitLoop
      <4> QED
        BY <4>1 DEF ClosedInv, TermStages, RetireStages
    <3>2. CASE id \notin closed
      <4>1. PICK stage \in {"finish", "retire"} :
               /\ pc' = [pc EXCEPT ![<<"wait", id>>] = stage]
               /\ stage = "finish" => id \in ephemeral
        BY <2>3, <3>2 DEF WaitLoop
      <4>2. /\ closed' = closed \union {id}
            /\ lifecycle' = [lifecycle EXCEPT ![id] = "exited"]
            /\ UNCHANGED <<ephemeral, retired>>
        BY <2>3, <3>2 DEF WaitLoop
      <4> QED
        BY <4>1, <4>2 DEF ClosedInv, TermStages, RetireStages
    <3> QED
      BY <3>1, <3>2
  <2>4. CASE MarkerSave(id)
    BY <2>4
      DEF MarkerSave, Quiet, ClosedInv, BootStages, TermStages, RetireStages
  <2>5. CASE MarkerFires(id)
    BY <2>5, ZenonT(40)
      DEF MarkerFires, Quiet, ClosedInv, BootStages, TermStages, RetireStages
  <2> QED
    BY <1>4, <2>1, <2>2, <2>3, <2>4, <2>5
<1>5. ASSUME NEW r \in Requests, NEW id \in Ids, Requesting(r, id)
      PROVE  ClosedInv'
  <2>1. CASE DeleteLookup(r, id)
    BY <2>1, ZenonT(40)
      DEF DeleteLookup, Quiet, ClosedInv, BootStages, TermStages, RetireStages
  <2>2. CASE AbortRequest(r, id)
    BY <2>2, ZenonT(40)
      DEF AbortRequest, Quiet, ClosedInv, BootStages, TermStages, RetireStages
  <2>3. CASE UpdateLookup(r, id)
    BY <2>3, ZenonT(40)
      DEF UpdateLookup, Quiet, ClosedInv, BootStages, TermStages, RetireStages
  <2>4. CASE MetaUpdate(r, id)
    BY <2>4, ZenonT(40)
      DEF MetaUpdate, Quiet, ClosedInv, BootStages, TermStages, RetireStages
  <2> QED
    BY <1>5, <2>1, <2>2, <2>3, <2>4 DEF Requesting
<1>6. ASSUME NEW t \in Roles, NEW id \in Ids, Terminating(t, id)
      PROVE  ClosedInv'
  <2>1. CASE TerminateRetired(t, id)
    BY <2>1, ZenonT(40)
      DEF TerminateRetired, Quiet, ClosedInv, BootStages, TermStages, RetireStages
  <2>2. CASE TerminateMark(t, id)
    BY <2>2, ZenonT(40)
      DEF TerminateMark, Label, Quiet, ClosedInv, BootStages, TermStages, RetireStages
  <2>3. CASE Kill(t, id)
    BY <2>3, ZenonT(40)
      DEF Kill, AfterKill, Quiet, ClosedInv, BootStages, TermStages, RetireStages
  <2>4. CASE Finish(t, id)
    BY <2>4, ZenonT(80)
      DEF Finish, Quiet, ClosedInv, BootStages, TermStages, RetireStages
  <2>5. CASE Unpend(t, id)
    BY <2>5, ZenonT(40)
      DEF Unpend, Quiet, ClosedInv, BootStages, TermStages, RetireStages
  <2> QED
    BY <1>6, <2>1, <2>2, <2>3, <2>4, <2>5 DEF Terminating
<1>7. ASSUME NEW t \in Roles, NEW id \in Ids, Retiring(t, id)
      PROVE  ClosedInv'
  <2>1. CASE RetireBegin(t, id)
    <3>1. PICK stage \in {"idle", "snapshot"} :
               /\ pc' = [pc EXCEPT ![<<t, id>>] = stage]
               /\ UNCHANGED <<closed, ephemeral, retired, lifecycle>>
      BY <2>1 DEF RetireBegin
    <3>2. pc[<<t, id>>] = "retire"
      BY <2>1 DEF RetireBegin
    <3> QED
      BY <3>1, <3>2 DEF ClosedInv, TermStages, RetireStages
  <2>2. CASE RetireSnapshot(t, id)
    <3>1. PICK stage \in {"idle", "meta"} :
               /\ pc' = [pc EXCEPT ![<<t, id>>] = stage]
               /\ UNCHANGED <<closed, ephemeral, retired, lifecycle>>
      BY <2>2 DEF RetireSnapshot
    <3>2. pc[<<t, id>>] = "snapshot"
      BY <2>2 DEF RetireSnapshot
    <3> QED
      BY <3>1, <3>2 DEF ClosedInv, TermStages, RetireStages
  <2>3. CASE RetireMeta(t, id)
    BY <2>3, ZenonT(40)
      DEF RetireMeta, Quiet, ClosedInv, BootStages, TermStages, RetireStages
  <2>4. CASE RetireArchive(t, id)
    <3>1. PICK stage \in {"idle", "delete"} :
               /\ pc' = [pc EXCEPT ![<<t, id>>] = stage]
               /\ UNCHANGED <<closed, ephemeral, retired, lifecycle>>
      BY <2>4 DEF RetireArchive
    <3>2. pc[<<t, id>>] = "archive"
      BY <2>4 DEF RetireArchive
    <3> QED
      BY <3>1, <3>2 DEF ClosedInv, TermStages, RetireStages
  <2>5. CASE RetireDelete(t, id)
    BY <2>5, ZenonT(40)
      DEF RetireDelete, Quiet, ClosedInv, BootStages, TermStages, RetireStages
  <2>6. CASE RetireMark(t, id)
    BY <2>6, ZenonT(40)
      DEF RetireMark, Quiet, ClosedInv, BootStages, TermStages, RetireStages
  <2>7. CASE RetireUnmap(t, id)
    BY <2>7, ZenonT(40)
      DEF RetireUnmap, Quiet, ClosedInv, BootStages, TermStages, RetireStages
  <2> QED
    BY <1>7, <2>1, <2>2, <2>3, <2>4, <2>5, <2>6, <2>7 DEF Retiring
<1>8. ASSUME NEW t \in Roles, NEW id \in Ids, RetiringFails(t, id)
      PROVE  ClosedInv'
  <2>1. CASE RetireSnapshotFails(t, id)
    BY <2>1, ZenonT(40)
      DEF RetireSnapshotFails, RetireFails, Quiet, ClosedInv, BootStages, TermStages,
          RetireStages
  <2>2. CASE RetireMetaFails(t, id)
    BY <2>2, ZenonT(40)
      DEF RetireMetaFails, RetireFails, Quiet, ClosedInv, BootStages, TermStages,
          RetireStages
  <2>3. CASE RetireArchiveFails(t, id)
    BY <2>3, ZenonT(40)
      DEF RetireArchiveFails, RetireFails, Quiet, ClosedInv, BootStages, TermStages,
          RetireStages
  <2>4. CASE RetireDeleteFails(t, id)
    BY <2>4, ZenonT(40)
      DEF RetireDeleteFails, RetireFails, Quiet, ClosedInv, BootStages, TermStages,
          RetireStages
  <2> QED
    BY <1>8, <2>1, <2>2, <2>3, <2>4 DEF RetiringFails
<1>9. ASSUME ShutdownBegin \/ StartUp \/ StartDone \/ Exit \/ Crash
      PROVE  ClosedInv'
  <2>1. CASE ShutdownBegin
    BY <2>1, ZenonT(40)
      DEF ShutdownBegin, Threads, Quiet, ClosedInv, BootStages, TermStages, RetireStages
  <2>2. CASE StartUp
    BY <2>2, ZenonT(40)
      DEF StartUp, Threads, Quiet, ClosedInv, BootStages, TermStages, RetireStages
  <2>3. CASE StartDone
    BY <2>3
      DEF StartDone, Quiet, ClosedInv, BootStages, TermStages, RetireStages
  <2>4. CASE Exit
    BY <2>4
      DEF Exit, MemoryLost, Threads, Quiet, ClosedInv, BootStages, TermStages, RetireStages
  <2>5. CASE Crash
    BY <2>5
      DEF Crash, MemoryLost, Threads, Quiet, ClosedInv, BootStages, TermStages, RetireStages
  <2> QED
    BY <1>9, <2>1, <2>2, <2>3, <2>4, <2>5
<1>10. CASE UNCHANGED vars
  BY <1>10
    DEF vars, Quiet, ClosedInv, BootStages, TermStages, RetireStages
<1> QED
  BY <1>1, <1>2, <1>3, <1>4, <1>5, <1>6, <1>7, <1>8, <1>9, <1>10 DEF Next

\* Retirement stays exclusive.
LEMMA RetireNext == TypeOK /\ Quiet /\ RetireInv /\ [Next]_vars => RetireInv'
<1> SUFFICES ASSUME TypeOK, Quiet, RetireInv, [Next]_vars
             PROVE  RetireInv'
    OBVIOUS
<1> USE PcStep, RoleNames
        DEF TypeOK, flags, maps, process, disk, bounds, At, Fault, NoFault, Serving,
            SaveMeta, MaybeSaveMeta
<1>1. ASSUME NEW id \in Ids, Creating(id)
      PROVE  RetireInv'
  <2>1. CASE Reserve(id)
    BY <2>1
      DEF Reserve, Quiet, RetireInv, SingleRetirer, BootStages, RetireStages
  <2>2. CASE CreateFails(id)
    BY <2>2
      DEF CreateFails, Quiet, RetireInv, SingleRetirer, BootStages, RetireStages
  <2>3. CASE StartProcess(id)
    BY <2>3
      DEF StartProcess, Quiet, RetireInv, SingleRetirer, BootStages, RetireStages
  <2>4. CASE Persist(id)
    BY <2>4
      DEF Persist, Quiet, RetireInv, SingleRetirer, BootStages, RetireStages
  <2>5. CASE PersistFails(id)
    BY <2>5
      DEF PersistFails, Quiet, RetireInv, SingleRetirer, BootStages, RetireStages
  <2>6. CASE Publish(id)
    BY <2>6
      DEF Publish, Quiet, RetireInv, SingleRetirer, BootStages, RetireStages
  <2> QED
    BY <1>1, <2>1, <2>2, <2>3, <2>4, <2>5, <2>6 DEF Creating
<1>2. ASSUME NEW id \in Ids, Promoting(id)
      PROVE  RetireInv'
  <2>1. CASE MarkerDecides(id)
    BY <2>1
      DEF MarkerDecides, Quiet, RetireInv, SingleRetirer, BootStages, RetireStages
  <2>2. CASE PromoteRefused(id)
    BY <2>2
      DEF PromoteRefused, Quiet, RetireInv, SingleRetirer, BootStages, RetireStages
  <2>3. CASE PromotePublish(id)
    BY <2>3, SMTT(30)
      DEF PromotePublish, Quiet, RetireInv, SingleRetirer, BootStages, RetireStages
  <2>4. CASE PromotePublishFails(id)
    BY <2>4
      DEF PromotePublishFails, Quiet, RetireInv, SingleRetirer, BootStages, RetireStages
  <2>5. CASE PromoteMove(id)
    BY <2>5
      DEF PromoteMove, Quiet, RetireInv, SingleRetirer, BootStages, RetireStages
  <2>6. CASE AbortLookup(id)
    BY <2>6
      DEF AbortLookup, Quiet, RetireInv, SingleRetirer, BootStages, RetireStages
  <2> QED
    BY <1>2, <2>1, <2>2, <2>3, <2>4, <2>5, <2>6 DEF Promoting
<1>3. ASSUME NEW id \in Ids, Booting(id)
      PROVE  RetireInv'
  <2>1. CASE BootSave(id)
    BY <2>1, SMTT(30)
      DEF BootSave, Quiet, RetireInv, SingleRetirer, BootStages, RetireStages
  <2>2. CASE BootArchive(id)
    BY <2>2, SMTT(30)
      DEF BootArchive, Quiet, RetireInv, SingleRetirer, BootStages, RetireStages
  <2>3. CASE BootDelete(id)
    BY <2>3
      DEF BootDelete, Quiet, RetireInv, SingleRetirer, BootStages, RetireStages
  <2> QED
    BY <1>3, <2>1, <2>2, <2>3 DEF Booting
<1>4. ASSUME NEW id \in Ids,
             ProcessExits(id) \/ ReadEnds(id) \/ WaitLoop(id) \/ MarkerSave(id) \/ MarkerFires(id)
      PROVE  RetireInv'
  <2>1. CASE ProcessExits(id)
    BY <2>1
      DEF ProcessExits, Quiet, RetireInv, SingleRetirer, BootStages, RetireStages
  <2>2. CASE ReadEnds(id)
    BY <2>2
      DEF ReadEnds, Quiet, RetireInv, SingleRetirer, BootStages, RetireStages
  <2>3. CASE WaitLoop(id)
    BY <2>3, SMTT(30)
      DEF WaitLoop, Quiet, RetireInv, SingleRetirer, BootStages, RetireStages
  <2>4. CASE MarkerSave(id)
    BY <2>4
      DEF MarkerSave, Quiet, RetireInv, SingleRetirer, BootStages, RetireStages
  <2>5. CASE MarkerFires(id)
    BY <2>5
      DEF MarkerFires, Quiet, RetireInv, SingleRetirer, BootStages, RetireStages
  <2> QED
    BY <1>4, <2>1, <2>2, <2>3, <2>4, <2>5
<1>5. ASSUME NEW r \in Requests, NEW id \in Ids, Requesting(r, id)
      PROVE  RetireInv'
  <2>1. CASE DeleteLookup(r, id)
    BY <2>1
      DEF DeleteLookup, Quiet, RetireInv, SingleRetirer, BootStages, RetireStages
  <2>2. CASE AbortRequest(r, id)
    BY <2>2
      DEF AbortRequest, Quiet, RetireInv, SingleRetirer, BootStages, RetireStages
  <2>3. CASE UpdateLookup(r, id)
    BY <2>3
      DEF UpdateLookup, Quiet, RetireInv, SingleRetirer, BootStages, RetireStages
  <2>4. CASE MetaUpdate(r, id)
    BY <2>4
      DEF MetaUpdate, Quiet, RetireInv, SingleRetirer, BootStages, RetireStages
  <2> QED
    BY <1>5, <2>1, <2>2, <2>3, <2>4 DEF Requesting
<1>6. ASSUME NEW t \in Roles, NEW id \in Ids, Terminating(t, id)
      PROVE  RetireInv'
  <2>1. CASE TerminateRetired(t, id)
    BY <2>1
      DEF TerminateRetired, Quiet, RetireInv, SingleRetirer, BootStages, RetireStages
  <2>2. CASE TerminateMark(t, id)
    BY <2>2
      DEF TerminateMark, Label, Quiet, RetireInv, SingleRetirer, BootStages, RetireStages
  <2>3. CASE Kill(t, id)
    BY <2>3
      DEF Kill, AfterKill, Quiet, RetireInv, SingleRetirer, BootStages, RetireStages
  <2>4. CASE Finish(t, id)
    BY <2>4
      DEF Finish, Quiet, RetireInv, SingleRetirer, BootStages, RetireStages
  <2>5. CASE Unpend(t, id)
    BY <2>5
      DEF Unpend, Quiet, RetireInv, SingleRetirer, BootStages, RetireStages
  <2> QED
    BY <1>6, <2>1, <2>2, <2>3, <2>4, <2>5 DEF Terminating
<1>7. ASSUME NEW t \in Roles, NEW id \in Ids, Retiring(t, id)
      PROVE  RetireInv'
  <2>1. CASE RetireBegin(t, id)
    BY <2>1
      DEF RetireBegin, Quiet, RetireInv, SingleRetirer, BootStages, RetireStages
  <2>2. CASE RetireSnapshot(t, id)
    BY <2>2
      DEF RetireSnapshot, Quiet, RetireInv, SingleRetirer, BootStages, RetireStages
  <2>3. CASE RetireMeta(t, id)
    BY <2>3
      DEF RetireMeta, Quiet, RetireInv, SingleRetirer, BootStages, RetireStages
  <2>4. CASE RetireArchive(t, id)
    BY <2>4
      DEF RetireArchive, Quiet, RetireInv, SingleRetirer, BootStages, RetireStages
  <2>5. CASE RetireDelete(t, id)
    BY <2>5
      DEF RetireDelete, Quiet, RetireInv, SingleRetirer, BootStages, RetireStages
  <2>6. CASE RetireMark(t, id)
    BY <2>6
      DEF RetireMark, Quiet, RetireInv, SingleRetirer, BootStages, RetireStages
  <2>7. CASE RetireUnmap(t, id)
    BY <2>7
      DEF RetireUnmap, Quiet, RetireInv, SingleRetirer, BootStages, RetireStages
  <2> QED
    BY <1>7, <2>1, <2>2, <2>3, <2>4, <2>5, <2>6, <2>7 DEF Retiring
<1>8. ASSUME NEW t \in Roles, NEW id \in Ids, RetiringFails(t, id)
      PROVE  RetireInv'
  <2>1. CASE RetireSnapshotFails(t, id)
    BY <2>1
      DEF RetireSnapshotFails, RetireFails, Quiet, RetireInv, SingleRetirer, BootStages,
          RetireStages
  <2>2. CASE RetireMetaFails(t, id)
    BY <2>2
      DEF RetireMetaFails, RetireFails, Quiet, RetireInv, SingleRetirer, BootStages,
          RetireStages
  <2>3. CASE RetireArchiveFails(t, id)
    BY <2>3
      DEF RetireArchiveFails, RetireFails, Quiet, RetireInv, SingleRetirer, BootStages,
          RetireStages
  <2>4. CASE RetireDeleteFails(t, id)
    BY <2>4
      DEF RetireDeleteFails, RetireFails, Quiet, RetireInv, SingleRetirer, BootStages,
          RetireStages
  <2> QED
    BY <1>8, <2>1, <2>2, <2>3, <2>4 DEF RetiringFails
<1>9. ASSUME ShutdownBegin \/ StartUp \/ StartDone \/ Exit \/ Crash
      PROVE  RetireInv'
  <2>1. CASE ShutdownBegin
    BY <2>1
      DEF ShutdownBegin, Threads, Quiet, RetireInv, SingleRetirer, BootStages, RetireStages
  <2>2. CASE StartUp
    BY <2>2
      DEF StartUp, Threads, Quiet, RetireInv, SingleRetirer, BootStages, RetireStages
  <2>3. CASE StartDone
    BY <2>3
      DEF StartDone, Quiet, RetireInv, SingleRetirer, BootStages, RetireStages
  <2>4. CASE Exit
    BY <2>4
      DEF Exit, MemoryLost, Threads, Quiet, RetireInv, SingleRetirer, BootStages,
          RetireStages
  <2>5. CASE Crash
    BY <2>5
      DEF Crash, MemoryLost, Threads, Quiet, RetireInv, SingleRetirer, BootStages,
          RetireStages
  <2> QED
    BY <1>9, <2>1, <2>2, <2>3, <2>4, <2>5
<1>10. CASE UNCHANGED vars
  BY <1>10
    DEF vars, Quiet, RetireInv, SingleRetirer, BootStages, RetireStages
<1> QED
  BY <1>1, <1>2, <1>3, <1>4, <1>5, <1>6, <1>7, <1>8, <1>9, <1>10 DEF Next

\* The worker session outlives everything that needs it.
LEMMA WorkerNext == TypeOK /\ Quiet /\ ClosedInv /\ WorkerInv /\ [Next]_vars => WorkerInv'
<1> SUFFICES ASSUME TypeOK, Quiet, ClosedInv, WorkerInv, [Next]_vars
             PROVE  WorkerInv'
    OBVIOUS
<1> USE PcStep, RoleNames
        DEF TypeOK, flags, maps, process, disk, bounds, At, Fault, NoFault, Serving,
            SaveMeta, MaybeSaveMeta
<1>1. ASSUME NEW id \in Ids, Creating(id)
      PROVE  WorkerInv'
  BY <1>1
    DEF Creating, Reserve, CreateFails, StartProcess, Persist, PersistFails, Publish, Quiet,
        ClosedInv, WorkerInv, WorkerSessionLives
<1>2. ASSUME NEW id \in Ids, Promoting(id)
      PROVE  WorkerInv'
  BY <1>2
    DEF Promoting, MarkerDecides, PromoteRefused, PromotePublish, PromotePublishFails,
        PromoteMove, AbortLookup, Quiet, ClosedInv, WorkerInv, WorkerSessionLives
<1>3. ASSUME NEW id \in Ids, Booting(id)
      PROVE  WorkerInv'
  BY <1>3
    DEF Booting, BootSave, BootArchive, BootDelete, Quiet, ClosedInv, WorkerInv,
        WorkerSessionLives
<1>4. ASSUME NEW id \in Ids,
             ProcessExits(id) \/ ReadEnds(id) \/ WaitLoop(id) \/ MarkerSave(id) \/ MarkerFires(id)
      PROVE  WorkerInv'
  BY <1>4
    DEF ProcessExits, ReadEnds, WaitLoop, MarkerSave, MarkerFires, Quiet, ClosedInv,
        WorkerInv, WorkerSessionLives
<1>5. ASSUME NEW r \in Requests, NEW id \in Ids, Requesting(r, id)
      PROVE  WorkerInv'
  BY <1>5
    DEF Requesting, DeleteLookup, AbortRequest, UpdateLookup, MetaUpdate, Quiet, ClosedInv,
        WorkerInv, WorkerSessionLives
<1>6. ASSUME NEW t \in Roles, NEW id \in Ids, Terminating(t, id)
      PROVE  WorkerInv'
  <2>1. CASE TerminateRetired(t, id)
    BY <2>1
      DEF TerminateRetired, Quiet, ClosedInv, WorkerInv, WorkerSessionLives
  <2>2. CASE TerminateMark(t, id)
    BY <2>2
      DEF TerminateMark, Label, Quiet, ClosedInv, WorkerInv, WorkerSessionLives
  <2>3. CASE Kill(t, id)
    BY <2>3
      DEF Kill, AfterKill, Quiet, ClosedInv, WorkerInv, WorkerSessionLives
  <2>4. CASE Finish(t, id)
    BY <2>4
      DEF Finish, Quiet, ClosedInv, WorkerInv, WorkerSessionLives
  <2>5. CASE Unpend(t, id)
    <3>1. id \in retired /\ creator[id] = "done"
      BY <2>5 DEF Unpend, ClosedInv, Quiet
    <3> QED
      BY <2>5, <3>1 DEF Unpend, WorkerInv, WorkerSessionLives
  <2> QED
    BY <1>6, <2>1, <2>2, <2>3, <2>4, <2>5 DEF Terminating
<1>7. ASSUME NEW t \in Roles, NEW id \in Ids, Retiring(t, id)
      PROVE  WorkerInv'
  <2>1. CASE RetireBegin(t, id)
    BY <2>1
      DEF RetireBegin, Quiet, ClosedInv, WorkerInv, WorkerSessionLives
  <2>2. CASE RetireSnapshot(t, id)
    BY <2>2
      DEF RetireSnapshot, Quiet, ClosedInv, WorkerInv, WorkerSessionLives
  <2>3. CASE RetireMeta(t, id)
    BY <2>3
      DEF RetireMeta, Quiet, ClosedInv, WorkerInv, WorkerSessionLives
  <2>4. CASE RetireArchive(t, id)
    BY <2>4
      DEF RetireArchive, Quiet, ClosedInv, WorkerInv, WorkerSessionLives
  <2>5. CASE RetireDelete(t, id)
    BY <2>5
      DEF RetireDelete, Quiet, ClosedInv, WorkerInv, WorkerSessionLives
  <2>6. CASE RetireMark(t, id)
    BY <2>6
      DEF RetireMark, Quiet, ClosedInv, WorkerInv, WorkerSessionLives
  <2>7. CASE RetireUnmap(t, id)
    <3>1. id \in retired /\ creator[id] = "done"
      BY <2>7 DEF RetireUnmap, ClosedInv, Quiet
    <3> QED
      BY <2>7, <3>1 DEF RetireUnmap, WorkerInv, WorkerSessionLives
  <2> QED
    BY <1>7, <2>1, <2>2, <2>3, <2>4, <2>5, <2>6, <2>7 DEF Retiring
<1>8. ASSUME NEW t \in Roles, NEW id \in Ids, RetiringFails(t, id)
      PROVE  WorkerInv'
  BY <1>8
    DEF RetiringFails, RetireSnapshotFails, RetireMetaFails, RetireArchiveFails,
        RetireDeleteFails, RetireFails, Quiet, ClosedInv, WorkerInv, WorkerSessionLives
<1>9. ASSUME ShutdownBegin \/ StartUp \/ StartDone \/ Exit \/ Crash
      PROVE  WorkerInv'
  <2>1. CASE ShutdownBegin
    BY <2>1
      DEF ShutdownBegin, Threads, Quiet, ClosedInv, WorkerInv, WorkerSessionLives
  <2>2. CASE StartUp
    BY <2>2
      DEF StartUp, Threads, Quiet, ClosedInv, WorkerInv, WorkerSessionLives
  <2>3. CASE StartDone
    BY <2>3
      DEF StartDone, Quiet, ClosedInv, WorkerInv, WorkerSessionLives
  <2>4. CASE Exit
    BY <2>4
      DEF Exit, MemoryLost, Threads, Quiet, ClosedInv, WorkerInv, WorkerSessionLives
  <2>5. CASE Crash
    BY <2>5
      DEF Crash, MemoryLost, Threads, Quiet, ClosedInv, WorkerInv, WorkerSessionLives
  <2> QED
    BY <1>9, <2>1, <2>2, <2>3, <2>4, <2>5
<1>10. CASE UNCHANGED vars
  BY <1>10
    DEF vars, Quiet, ClosedInv, WorkerInv, WorkerSessionLives
<1> QED
  BY <1>1, <1>2, <1>3, <1>4, <1>5, <1>6, <1>7, <1>8, <1>9, <1>10 DEF Next

\* A launch being promoted is still pending.
LEMMA PromoteNext == TypeOK /\ Quiet /\ ClosedInv /\ PromoteInv /\ [Next]_vars => PromoteInv'
<1> SUFFICES ASSUME TypeOK, Quiet, ClosedInv, PromoteInv, [Next]_vars
             PROVE  PromoteInv'
    OBVIOUS
<1> USE PcStep, RoleNames
        DEF TypeOK, flags, maps, process, disk, bounds, At, Fault, NoFault, Serving,
            SaveMeta, MaybeSaveMeta
<1>1. ASSUME NEW id \in Ids, Creating(id)
      PROVE  PromoteInv'
  BY <1>1
    DEF Creating, Reserve, CreateFails, StartProcess, Persist, PersistFails, Publish, Quiet,
        ClosedInv, TermStages, PromoteInv, PromoteFindsLaunch
<1>2. ASSUME NEW id \in Ids, Promoting(id)
      PROVE  PromoteInv'
  <2>1. CASE MarkerDecides(id)
    BY <2>1
      DEF MarkerDecides, Quiet, ClosedInv, TermStages, PromoteInv, PromoteFindsLaunch
  <2>2. CASE PromoteRefused(id)
    BY <2>2
      DEF PromoteRefused, Quiet, ClosedInv, TermStages, PromoteInv, PromoteFindsLaunch
  <2>3. CASE PromotePublish(id)
    BY <2>3
      DEF PromotePublish, Quiet, ClosedInv, TermStages, PromoteInv, PromoteFindsLaunch
  <2>4. CASE PromotePublishFails(id)
    BY <2>4
      DEF PromotePublishFails, Quiet, ClosedInv, TermStages, PromoteInv, PromoteFindsLaunch
  <2>5. CASE PromoteMove(id)
    BY <2>5
      DEF PromoteMove, Quiet, ClosedInv, TermStages, PromoteInv, PromoteFindsLaunch
  <2>6. CASE AbortLookup(id)
    BY <2>6
      DEF AbortLookup, Quiet, ClosedInv, TermStages, PromoteInv, PromoteFindsLaunch
  <2> QED
    BY <1>2, <2>1, <2>2, <2>3, <2>4, <2>5, <2>6 DEF Promoting
<1>3. ASSUME NEW id \in Ids, Booting(id)
      PROVE  PromoteInv'
  BY <1>3
    DEF Booting, BootSave, BootArchive, BootDelete, Quiet, ClosedInv, TermStages,
        PromoteInv, PromoteFindsLaunch
<1>4. ASSUME NEW id \in Ids,
             ProcessExits(id) \/ ReadEnds(id) \/ WaitLoop(id) \/ MarkerSave(id) \/ MarkerFires(id)
      PROVE  PromoteInv'
  BY <1>4
    DEF ProcessExits, ReadEnds, WaitLoop, MarkerSave, MarkerFires, Quiet, ClosedInv,
        TermStages, PromoteInv, PromoteFindsLaunch
<1>5. ASSUME NEW r \in Requests, NEW id \in Ids, Requesting(r, id)
      PROVE  PromoteInv'
  BY <1>5
    DEF Requesting, DeleteLookup, AbortRequest, UpdateLookup, MetaUpdate, Quiet, ClosedInv,
        TermStages, PromoteInv, PromoteFindsLaunch
<1>6. ASSUME NEW t \in Roles, NEW id \in Ids, Terminating(t, id)
      PROVE  PromoteInv'
  BY <1>6
    DEF Terminating, TerminateRetired, TerminateMark, Kill, Finish, Unpend, Label,
        AfterKill, Quiet, ClosedInv, TermStages, PromoteInv, PromoteFindsLaunch
<1>7. ASSUME NEW t \in Roles, NEW id \in Ids, Retiring(t, id)
      PROVE  PromoteInv'
  BY <1>7
    DEF Retiring, RetireBegin, RetireSnapshot, RetireMeta, RetireArchive, RetireDelete,
        RetireMark, RetireUnmap, Quiet, ClosedInv, TermStages, PromoteInv,
        PromoteFindsLaunch
<1>8. ASSUME NEW t \in Roles, NEW id \in Ids, RetiringFails(t, id)
      PROVE  PromoteInv'
  BY <1>8
    DEF RetiringFails, RetireSnapshotFails, RetireMetaFails, RetireArchiveFails,
        RetireDeleteFails, RetireFails, Quiet, ClosedInv, TermStages, PromoteInv,
        PromoteFindsLaunch
<1>9. ASSUME ShutdownBegin \/ StartUp \/ StartDone \/ Exit \/ Crash
      PROVE  PromoteInv'
  <2>1. CASE ShutdownBegin
    BY <2>1
      DEF ShutdownBegin, Threads, Quiet, ClosedInv, TermStages, PromoteInv,
          PromoteFindsLaunch
  <2>2. CASE StartUp
    BY <2>2
      DEF StartUp, Threads, Quiet, ClosedInv, TermStages, PromoteInv, PromoteFindsLaunch
  <2>3. CASE StartDone
    BY <2>3
      DEF StartDone, Quiet, ClosedInv, TermStages, PromoteInv, PromoteFindsLaunch
  <2>4. CASE Exit
    BY <2>4
      DEF Exit, MemoryLost, Threads, Quiet, ClosedInv, TermStages, PromoteInv,
          PromoteFindsLaunch
  <2>5. CASE Crash
    BY <2>5
      DEF Crash, MemoryLost, Threads, Quiet, ClosedInv, TermStages, PromoteInv,
          PromoteFindsLaunch
  <2> QED
    BY <1>9, <2>1, <2>2, <2>3, <2>4, <2>5
<1>10. CASE UNCHANGED vars
  BY <1>10
    DEF vars, Quiet, ClosedInv, TermStages, PromoteInv, PromoteFindsLaunch
<1> QED
  BY <1>1, <1>2, <1>3, <1>4, <1>5, <1>6, <1>7, <1>8, <1>9, <1>10 DEF Next

\* A visible session stays persisted.
LEMMA DurableNext == TypeOK /\ Quiet /\ ClosedInv /\ DurableInv /\ [Next]_vars => DurableInv'
<1> SUFFICES ASSUME TypeOK, Quiet, ClosedInv, DurableInv, [Next]_vars
             PROVE  DurableInv'
    OBVIOUS
<1> USE PcStep, RoleNames
        DEF TypeOK, flags, maps, process, disk, bounds, At, Fault, NoFault, Serving,
            SaveMeta, MaybeSaveMeta
<1>1. ASSUME NEW id \in Ids, Creating(id)
      PROVE  DurableInv'
  <2>1. CASE Reserve(id)
    BY <2>1
      DEF Reserve, Quiet, ClosedInv, TermStages, RetireStages, BootStages, DurableInv,
          VisibleIsDurable, Lifecycles, Absent
  <2>2. CASE CreateFails(id)
    BY <2>2
      DEF CreateFails, Quiet, ClosedInv, TermStages, RetireStages, BootStages, DurableInv,
          VisibleIsDurable, Lifecycles, Absent
  <2>3. CASE StartProcess(id)
    BY <2>3
      DEF StartProcess, Quiet, ClosedInv, TermStages, RetireStages, BootStages, DurableInv,
          VisibleIsDurable, Lifecycles, Absent
  <2>4. CASE Persist(id)
    BY <2>4
      DEF Persist, Quiet, ClosedInv, TermStages, RetireStages, BootStages, DurableInv,
          VisibleIsDurable, Lifecycles, Absent
  <2>5. CASE PersistFails(id)
    BY <2>5
      DEF PersistFails, Quiet, ClosedInv, TermStages, RetireStages, BootStages, DurableInv,
          VisibleIsDurable, Lifecycles, Absent
  <2>6. CASE Publish(id)
    <3>1. CASE id \in ephemeral
      BY <2>6, <3>1 DEF Publish, DurableInv, VisibleIsDurable, Quiet
    <3>2. CASE id \notin ephemeral
      <4>1. /\ active[id] # Absent
            /\ sessions' = sessions \union {id}
            /\ UNCHANGED <<active, closed, ephemeral>>
            /\ creator' = [creator EXCEPT ![id] = "done"]
        BY <2>6, <3>2 DEF Publish, DurableInv
      <4>2. \A i \in Ids : At("marker", i, "move")' <=> At("marker", i, "move")
        BY <2>6 DEF Publish
      <4> QED
        BY <4>1, <4>2 DEF DurableInv, VisibleIsDurable
    <3> QED
      BY <3>1, <3>2
  <2> QED
    BY <1>1, <2>1, <2>2, <2>3, <2>4, <2>5, <2>6 DEF Creating
<1>2. ASSUME NEW id \in Ids, Promoting(id)
      PROVE  DurableInv'
  <2>1. CASE MarkerDecides(id)
    BY <2>1
      DEF MarkerDecides, Quiet, ClosedInv, TermStages, RetireStages, BootStages, DurableInv,
          VisibleIsDurable, Lifecycles, Absent
  <2>2. CASE PromoteRefused(id)
    BY <2>2
      DEF PromoteRefused, Quiet, ClosedInv, TermStages, RetireStages, BootStages,
          DurableInv, VisibleIsDurable, Lifecycles, Absent
  <2>3. CASE PromotePublish(id)
    BY <2>3
      DEF PromotePublish, Quiet, ClosedInv, TermStages, RetireStages, BootStages,
          DurableInv, VisibleIsDurable, Lifecycles, Absent
  <2>4. CASE PromotePublishFails(id)
    BY <2>4
      DEF PromotePublishFails, Quiet, ClosedInv, TermStages, RetireStages, BootStages,
          DurableInv, VisibleIsDurable, Lifecycles, Absent
  <2>5. CASE PromoteMove(id)
    BY <2>5
      DEF PromoteMove, Quiet, ClosedInv, TermStages, RetireStages, BootStages, DurableInv,
          VisibleIsDurable, Lifecycles, Absent
  <2>6. CASE AbortLookup(id)
    BY <2>6
      DEF AbortLookup, Quiet, ClosedInv, TermStages, RetireStages, BootStages, DurableInv,
          VisibleIsDurable, Lifecycles, Absent
  <2> QED
    BY <1>2, <2>1, <2>2, <2>3, <2>4, <2>5, <2>6 DEF Promoting
<1>3. ASSUME NEW id \in Ids, Booting(id)
      PROVE  DurableInv'
  <2>1. CASE BootSave(id)
    BY <2>1
      DEF BootSave, Quiet, ClosedInv, TermStages, RetireStages, BootStages, DurableInv,
          VisibleIsDurable, Lifecycles, Absent
  <2>2. CASE BootArchive(id)
    BY <2>2
      DEF BootArchive, Quiet, ClosedInv, TermStages, RetireStages, BootStages, DurableInv,
          VisibleIsDurable, Lifecycles, Absent
  <2>3. CASE BootDelete(id)
    BY <2>3
      DEF BootDelete, Quiet, ClosedInv, TermStages, RetireStages, BootStages, DurableInv,
          VisibleIsDurable, Lifecycles, Absent
  <2> QED
    BY <1>3, <2>1, <2>2, <2>3 DEF Booting
<1>4. ASSUME NEW id \in Ids,
             ProcessExits(id) \/ ReadEnds(id) \/ WaitLoop(id) \/ MarkerSave(id) \/ MarkerFires(id)
      PROVE  DurableInv'
  <2>1. CASE ProcessExits(id)
    BY <2>1
      DEF ProcessExits, Quiet, ClosedInv, TermStages, RetireStages, BootStages, DurableInv,
          VisibleIsDurable, Lifecycles, Absent
  <2>2. CASE ReadEnds(id)
    BY <2>2
      DEF ReadEnds, Quiet, ClosedInv, TermStages, RetireStages, BootStages, DurableInv,
          VisibleIsDurable, Lifecycles, Absent
  <2>3. CASE WaitLoop(id)
    BY <2>3
      DEF WaitLoop, Quiet, ClosedInv, TermStages, RetireStages, BootStages, DurableInv,
          VisibleIsDurable, Lifecycles, Absent
  <2>4. CASE MarkerSave(id)
    BY <2>4
      DEF MarkerSave, Quiet, ClosedInv, TermStages, RetireStages, BootStages, DurableInv,
          VisibleIsDurable, Lifecycles, Absent
  <2>5. CASE MarkerFires(id)
    BY <2>5
      DEF MarkerFires, Quiet, ClosedInv, TermStages, RetireStages, BootStages, DurableInv,
          VisibleIsDurable, Lifecycles, Absent
  <2> QED
    BY <1>4, <2>1, <2>2, <2>3, <2>4, <2>5
<1>5. ASSUME NEW r \in Requests, NEW id \in Ids, Requesting(r, id)
      PROVE  DurableInv'
  <2>1. CASE DeleteLookup(r, id)
    BY <2>1
      DEF DeleteLookup, Quiet, ClosedInv, TermStages, RetireStages, BootStages, DurableInv,
          VisibleIsDurable, Lifecycles, Absent
  <2>2. CASE AbortRequest(r, id)
    BY <2>2
      DEF AbortRequest, Quiet, ClosedInv, TermStages, RetireStages, BootStages, DurableInv,
          VisibleIsDurable, Lifecycles, Absent
  <2>3. CASE UpdateLookup(r, id)
    BY <2>3
      DEF UpdateLookup, Quiet, ClosedInv, TermStages, RetireStages, BootStages, DurableInv,
          VisibleIsDurable, Lifecycles, Absent
  <2>4. CASE MetaUpdate(r, id)
    BY <2>4
      DEF MetaUpdate, Quiet, ClosedInv, TermStages, RetireStages, BootStages, DurableInv,
          VisibleIsDurable, Lifecycles, Absent
  <2> QED
    BY <1>5, <2>1, <2>2, <2>3, <2>4 DEF Requesting
<1>6. ASSUME NEW t \in Roles, NEW id \in Ids, Terminating(t, id)
      PROVE  DurableInv'
  <2>1. CASE TerminateRetired(t, id)
    BY <2>1
      DEF TerminateRetired, Quiet, ClosedInv, TermStages, RetireStages, BootStages,
          DurableInv, VisibleIsDurable, Lifecycles, Absent
  <2>2. CASE TerminateMark(t, id)
    BY <2>2
      DEF TerminateMark, Label, Quiet, ClosedInv, TermStages, RetireStages, BootStages,
          DurableInv, VisibleIsDurable, Lifecycles, Absent
  <2>3. CASE Kill(t, id)
    BY <2>3
      DEF Kill, AfterKill, Quiet, ClosedInv, TermStages, RetireStages, BootStages,
          DurableInv, VisibleIsDurable, Lifecycles, Absent
  <2>4. CASE Finish(t, id)
    BY <2>4
      DEF Finish, Quiet, ClosedInv, TermStages, RetireStages, BootStages, DurableInv,
          VisibleIsDurable, Lifecycles, Absent
  <2>5. CASE Unpend(t, id)
    BY <2>5
      DEF Unpend, Quiet, ClosedInv, TermStages, RetireStages, BootStages, DurableInv,
          VisibleIsDurable, Lifecycles, Absent
  <2> QED
    BY <1>6, <2>1, <2>2, <2>3, <2>4, <2>5 DEF Terminating
<1>7. ASSUME NEW t \in Roles, NEW id \in Ids, Retiring(t, id)
      PROVE  DurableInv'
  <2>1. CASE RetireBegin(t, id)
    BY <2>1
      DEF RetireBegin, Quiet, ClosedInv, TermStages, RetireStages, BootStages, DurableInv,
          VisibleIsDurable, Lifecycles, Absent
  <2>2. CASE RetireSnapshot(t, id)
    BY <2>2
      DEF RetireSnapshot, Quiet, ClosedInv, TermStages, RetireStages, BootStages,
          DurableInv, VisibleIsDurable, Lifecycles, Absent
  <2>3. CASE RetireMeta(t, id)
    BY <2>3
      DEF RetireMeta, Quiet, ClosedInv, TermStages, RetireStages, BootStages, DurableInv,
          VisibleIsDurable, Lifecycles, Absent
  <2>4. CASE RetireArchive(t, id)
    BY <2>4
      DEF RetireArchive, Quiet, ClosedInv, TermStages, RetireStages, BootStages, DurableInv,
          VisibleIsDurable, Lifecycles, Absent
  <2>5. CASE RetireDelete(t, id)
    <3>1. id \in closed /\ creator[id] = "done"
      BY <2>5 DEF RetireDelete, ClosedInv, Quiet, TermStages, RetireStages
    <3> QED
      BY <2>5, <3>1 DEF RetireDelete, DurableInv, VisibleIsDurable
  <2>6. CASE RetireMark(t, id)
    BY <2>6
      DEF RetireMark, Quiet, ClosedInv, TermStages, RetireStages, BootStages, DurableInv,
          VisibleIsDurable, Lifecycles, Absent
  <2>7. CASE RetireUnmap(t, id)
    BY <2>7
      DEF RetireUnmap, Quiet, ClosedInv, TermStages, RetireStages, BootStages, DurableInv,
          VisibleIsDurable, Lifecycles, Absent
  <2> QED
    BY <1>7, <2>1, <2>2, <2>3, <2>4, <2>5, <2>6, <2>7 DEF Retiring
<1>8. ASSUME NEW t \in Roles, NEW id \in Ids, RetiringFails(t, id)
      PROVE  DurableInv'
  <2>1. CASE RetireSnapshotFails(t, id)
    BY <2>1
      DEF RetireSnapshotFails, RetireFails, Quiet, ClosedInv, TermStages, RetireStages,
          BootStages, DurableInv, VisibleIsDurable, Lifecycles, Absent
  <2>2. CASE RetireMetaFails(t, id)
    BY <2>2
      DEF RetireMetaFails, RetireFails, Quiet, ClosedInv, TermStages, RetireStages,
          BootStages, DurableInv, VisibleIsDurable, Lifecycles, Absent
  <2>3. CASE RetireArchiveFails(t, id)
    BY <2>3
      DEF RetireArchiveFails, RetireFails, Quiet, ClosedInv, TermStages, RetireStages,
          BootStages, DurableInv, VisibleIsDurable, Lifecycles, Absent
  <2>4. CASE RetireDeleteFails(t, id)
    <3>1. id \in closed /\ creator[id] = "done"
      BY <2>4 DEF RetireDeleteFails, ClosedInv, Quiet, TermStages, RetireStages, RetireFails
    <3> QED
      BY <2>4, <3>1 DEF RetireDeleteFails, DurableInv, VisibleIsDurable, RetireFails
  <2> QED
    BY <1>8, <2>1, <2>2, <2>3, <2>4 DEF RetiringFails
<1>9. ASSUME ShutdownBegin \/ StartUp \/ StartDone \/ Exit \/ Crash
      PROVE  DurableInv'
  <2>1. CASE ShutdownBegin
    BY <2>1
      DEF ShutdownBegin, Threads, Quiet, ClosedInv, TermStages, RetireStages, BootStages,
          DurableInv, VisibleIsDurable, Lifecycles, Absent
  <2>2. CASE StartUp
    BY <2>2
      DEF StartUp, Threads, Quiet, ClosedInv, TermStages, RetireStages, BootStages,
          DurableInv, VisibleIsDurable, Lifecycles, Absent
  <2>3. CASE StartDone
    BY <2>3
      DEF StartDone, Quiet, ClosedInv, TermStages, RetireStages, BootStages, DurableInv,
          VisibleIsDurable, Lifecycles, Absent
  <2>4. CASE Exit
    BY <2>4
      DEF Exit, MemoryLost, Threads, Quiet, ClosedInv, TermStages, RetireStages, BootStages,
          DurableInv, VisibleIsDurable, Lifecycles, Absent
  <2>5. CASE Crash
    BY <2>5
      DEF Crash, MemoryLost, Threads, Quiet, ClosedInv, TermStages, RetireStages,
          BootStages, DurableInv, VisibleIsDurable, Lifecycles, Absent
  <2> QED
    BY <1>9, <2>1, <2>2, <2>3, <2>4, <2>5
<1>10. CASE UNCHANGED vars
  BY <1>10
    DEF vars, Quiet, ClosedInv, TermStages, RetireStages, BootStages, DurableInv,
        VisibleIsDurable, Lifecycles, Absent
<1> QED
  BY <1>1, <1>2, <1>3, <1>4, <1>5, <1>6, <1>7, <1>8, <1>9, <1>10 DEF Next

\* What is archived is finished, and what is deleted is archived.
LEMMA RecordNext == TypeOK /\ Quiet /\ ClosedInv /\ RecordInv /\ [Next]_vars => RecordInv'
<1> SUFFICES ASSUME TypeOK, Quiet, ClosedInv, RecordInv, [Next]_vars
             PROVE  RecordInv'
    OBVIOUS
<1> USE PcStep, RoleNames
        DEF TypeOK, flags, maps, process, disk, bounds, At, Fault, NoFault, Serving,
            SaveMeta, MaybeSaveMeta
<1>1. ASSUME NEW id \in Ids, Creating(id)
      PROVE  RecordInv'
  <2>1. CASE Reserve(id)
    BY <2>1
      DEF Reserve, Quiet, ClosedInv, TermStages, RetireStages, BootStages, RecordInv,
          AuditNotLive, Lifecycles, Absent
  <2>2. CASE CreateFails(id)
    BY <2>2
      DEF CreateFails, Quiet, ClosedInv, TermStages, RetireStages, BootStages, RecordInv,
          AuditNotLive, Lifecycles, Absent
  <2>3. CASE StartProcess(id)
    BY <2>3
      DEF StartProcess, Quiet, ClosedInv, TermStages, RetireStages, BootStages, RecordInv,
          AuditNotLive, Lifecycles, Absent
  <2>4. CASE Persist(id)
    BY <2>4
      DEF Persist, Quiet, ClosedInv, TermStages, RetireStages, BootStages, RecordInv,
          AuditNotLive, Lifecycles, Absent
  <2>5. CASE PersistFails(id)
    BY <2>5
      DEF PersistFails, Quiet, ClosedInv, TermStages, RetireStages, BootStages, RecordInv,
          AuditNotLive, Lifecycles, Absent
  <2>6. CASE Publish(id)
    BY <2>6
      DEF Publish, Quiet, ClosedInv, TermStages, RetireStages, BootStages, RecordInv,
          AuditNotLive, Lifecycles, Absent
  <2> QED
    BY <1>1, <2>1, <2>2, <2>3, <2>4, <2>5, <2>6 DEF Creating
<1>2. ASSUME NEW id \in Ids, Promoting(id)
      PROVE  RecordInv'
  <2>1. CASE MarkerDecides(id)
    BY <2>1
      DEF MarkerDecides, Quiet, ClosedInv, TermStages, RetireStages, BootStages, RecordInv,
          AuditNotLive, Lifecycles, Absent
  <2>2. CASE PromoteRefused(id)
    BY <2>2
      DEF PromoteRefused, Quiet, ClosedInv, TermStages, RetireStages, BootStages, RecordInv,
          AuditNotLive, Lifecycles, Absent
  <2>3. CASE PromotePublish(id)
    BY <2>3
      DEF PromotePublish, Quiet, ClosedInv, TermStages, RetireStages, BootStages, RecordInv,
          AuditNotLive, Lifecycles, Absent
  <2>4. CASE PromotePublishFails(id)
    BY <2>4
      DEF PromotePublishFails, Quiet, ClosedInv, TermStages, RetireStages, BootStages,
          RecordInv, AuditNotLive, Lifecycles, Absent
  <2>5. CASE PromoteMove(id)
    BY <2>5
      DEF PromoteMove, Quiet, ClosedInv, TermStages, RetireStages, BootStages, RecordInv,
          AuditNotLive, Lifecycles, Absent
  <2>6. CASE AbortLookup(id)
    BY <2>6
      DEF AbortLookup, Quiet, ClosedInv, TermStages, RetireStages, BootStages, RecordInv,
          AuditNotLive, Lifecycles, Absent
  <2> QED
    BY <1>2, <2>1, <2>2, <2>3, <2>4, <2>5, <2>6 DEF Promoting
<1>3. ASSUME NEW id \in Ids, Booting(id)
      PROVE  RecordInv'
  <2>1. CASE BootSave(id)
    BY <2>1
      DEF BootSave, Quiet, ClosedInv, TermStages, RetireStages, BootStages, RecordInv,
          AuditNotLive, Lifecycles, Absent
  <2>2. CASE BootArchive(id)
    BY <2>2
      DEF BootArchive, Quiet, ClosedInv, TermStages, RetireStages, BootStages, RecordInv,
          AuditNotLive, Lifecycles, Absent
  <2>3. CASE BootDelete(id)
    BY <2>3
      DEF BootDelete, Quiet, ClosedInv, TermStages, RetireStages, BootStages, RecordInv,
          AuditNotLive, Lifecycles, Absent
  <2> QED
    BY <1>3, <2>1, <2>2, <2>3 DEF Booting
<1>4. ASSUME NEW id \in Ids,
             ProcessExits(id) \/ ReadEnds(id) \/ WaitLoop(id) \/ MarkerSave(id) \/ MarkerFires(id)
      PROVE  RecordInv'
  <2>1. CASE ProcessExits(id)
    BY <2>1
      DEF ProcessExits, Quiet, ClosedInv, TermStages, RetireStages, BootStages, RecordInv,
          AuditNotLive, Lifecycles, Absent
  <2>2. CASE ReadEnds(id)
    BY <2>2
      DEF ReadEnds, Quiet, ClosedInv, TermStages, RetireStages, BootStages, RecordInv,
          AuditNotLive, Lifecycles, Absent
  <2>3. CASE WaitLoop(id)
    BY <2>3
      DEF WaitLoop, Quiet, ClosedInv, TermStages, RetireStages, BootStages, RecordInv,
          AuditNotLive, Lifecycles, Absent
  <2>4. CASE MarkerSave(id)
    <3>1. /\ \A u \in Roles : pc[<<u, id>>] \notin BootStages
          /\ \A u \in Roles : pc[<<u, id>>] = "archive" => lifecycle[id] # "live"
          /\ lifecycle[id] # Absent
      BY <2>4, RequestAssumption DEF MarkerSave, ClosedInv, Quiet, BootStages, TermStages, RetireStages, Lifecycles, Absent
    <3> QED
      BY <2>4, <3>1 DEF MarkerSave, RecordInv, AuditNotLive, BootStages
  <2>5. CASE MarkerFires(id)
    BY <2>5
      DEF MarkerFires, Quiet, ClosedInv, TermStages, RetireStages, BootStages, RecordInv,
          AuditNotLive, Lifecycles, Absent
  <2> QED
    BY <1>4, <2>1, <2>2, <2>3, <2>4, <2>5
<1>5. ASSUME NEW r \in Requests, NEW id \in Ids, Requesting(r, id)
      PROVE  RecordInv'
  <2>1. CASE DeleteLookup(r, id)
    BY <2>1
      DEF DeleteLookup, Quiet, ClosedInv, TermStages, RetireStages, BootStages, RecordInv,
          AuditNotLive, Lifecycles, Absent
  <2>2. CASE AbortRequest(r, id)
    BY <2>2
      DEF AbortRequest, Quiet, ClosedInv, TermStages, RetireStages, BootStages, RecordInv,
          AuditNotLive, Lifecycles, Absent
  <2>3. CASE UpdateLookup(r, id)
    BY <2>3
      DEF UpdateLookup, Quiet, ClosedInv, TermStages, RetireStages, BootStages, RecordInv,
          AuditNotLive, Lifecycles, Absent
  <2>4. CASE MetaUpdate(r, id)
    <3>1. /\ \A u \in Roles : pc[<<u, id>>] \notin BootStages
          /\ \A u \in Roles : pc[<<u, id>>] = "archive" => lifecycle[id] # "live"
          /\ lifecycle[id] # Absent
      BY <2>4, RequestAssumption, ZenonT(40) DEF MetaUpdate, ClosedInv, Quiet, BootStages, TermStages, RetireStages, Lifecycles, Absent
    <3> QED
      BY <2>4, <3>1 DEF MetaUpdate, RecordInv, AuditNotLive, BootStages
  <2> QED
    BY <1>5, <2>1, <2>2, <2>3, <2>4 DEF Requesting
<1>6. ASSUME NEW t \in Roles, NEW id \in Ids, Terminating(t, id)
      PROVE  RecordInv'
  <2>1. CASE TerminateRetired(t, id)
    BY <2>1
      DEF TerminateRetired, Quiet, ClosedInv, TermStages, RetireStages, BootStages,
          RecordInv, AuditNotLive, Lifecycles, Absent
  <2>2. CASE TerminateMark(t, id)
    BY <2>2
      DEF TerminateMark, Label, Quiet, ClosedInv, TermStages, RetireStages, BootStages,
          RecordInv, AuditNotLive, Lifecycles, Absent
  <2>3. CASE Kill(t, id)
    BY <2>3
      DEF Kill, AfterKill, Quiet, ClosedInv, TermStages, RetireStages, BootStages,
          RecordInv, AuditNotLive, Lifecycles, Absent
  <2>4. CASE Finish(t, id)
    BY <2>4
      DEF Finish, Quiet, ClosedInv, TermStages, RetireStages, BootStages, RecordInv,
          AuditNotLive, Lifecycles, Absent
  <2>5. CASE Unpend(t, id)
    BY <2>5
      DEF Unpend, Quiet, ClosedInv, TermStages, RetireStages, BootStages, RecordInv,
          AuditNotLive, Lifecycles, Absent
  <2> QED
    BY <1>6, <2>1, <2>2, <2>3, <2>4, <2>5 DEF Terminating
<1>7. ASSUME NEW t \in Roles, NEW id \in Ids, Retiring(t, id)
      PROVE  RecordInv'
  <2>1. CASE RetireBegin(t, id)
    BY <2>1
      DEF RetireBegin, Quiet, ClosedInv, TermStages, RetireStages, BootStages, RecordInv,
          AuditNotLive, Lifecycles, Absent
  <2>2. CASE RetireSnapshot(t, id)
    BY <2>2
      DEF RetireSnapshot, Quiet, ClosedInv, TermStages, RetireStages, BootStages, RecordInv,
          AuditNotLive, Lifecycles, Absent
  <2>3. CASE RetireMeta(t, id)
    <3>1. /\ \A u \in Roles : pc[<<u, id>>] \notin BootStages
          /\ lifecycle[id] # "live"
          /\ lifecycle[id] # Absent
      BY <2>3, RequestAssumption, ZenonT(40) DEF RetireMeta, ClosedInv, Quiet, BootStages, TermStages, RetireStages, Lifecycles, Absent
    <3> QED
      BY <2>3, <3>1 DEF RetireMeta, RecordInv, AuditNotLive, BootStages
  <2>4. CASE RetireArchive(t, id)
    BY <2>4
      DEF RetireArchive, Quiet, ClosedInv, TermStages, RetireStages, BootStages, RecordInv,
          AuditNotLive, Lifecycles, Absent
  <2>5. CASE RetireDelete(t, id)
    BY <2>5
      DEF RetireDelete, Quiet, ClosedInv, TermStages, RetireStages, BootStages, RecordInv,
          AuditNotLive, Lifecycles, Absent
  <2>6. CASE RetireMark(t, id)
    BY <2>6
      DEF RetireMark, Quiet, ClosedInv, TermStages, RetireStages, BootStages, RecordInv,
          AuditNotLive, Lifecycles, Absent
  <2>7. CASE RetireUnmap(t, id)
    BY <2>7
      DEF RetireUnmap, Quiet, ClosedInv, TermStages, RetireStages, BootStages, RecordInv,
          AuditNotLive, Lifecycles, Absent
  <2> QED
    BY <1>7, <2>1, <2>2, <2>3, <2>4, <2>5, <2>6, <2>7 DEF Retiring
<1>8. ASSUME NEW t \in Roles, NEW id \in Ids, RetiringFails(t, id)
      PROVE  RecordInv'
  <2>1. CASE RetireSnapshotFails(t, id)
    BY <2>1
      DEF RetireSnapshotFails, RetireFails, Quiet, ClosedInv, TermStages, RetireStages,
          BootStages, RecordInv, AuditNotLive, Lifecycles, Absent
  <2>2. CASE RetireMetaFails(t, id)
    <3>1. /\ \A u \in Roles : pc[<<u, id>>] \notin BootStages
          /\ \A u \in Roles : pc[<<u, id>>] = "archive" => lifecycle[id] # "live"
          /\ lifecycle[id] # Absent
      BY <2>2, RequestAssumption, ZenonT(40) DEF RetireMetaFails, ClosedInv, Quiet, BootStages, TermStages, RetireStages, Lifecycles, Absent, RetireFails
    <3> QED
      BY <2>2, <3>1 DEF RetireMetaFails, RecordInv, AuditNotLive, BootStages, RetireFails
  <2>3. CASE RetireArchiveFails(t, id)
    BY <2>3
      DEF RetireArchiveFails, RetireFails, Quiet, ClosedInv, TermStages, RetireStages,
          BootStages, RecordInv, AuditNotLive, Lifecycles, Absent
  <2>4. CASE RetireDeleteFails(t, id)
    BY <2>4
      DEF RetireDeleteFails, RetireFails, Quiet, ClosedInv, TermStages, RetireStages,
          BootStages, RecordInv, AuditNotLive, Lifecycles, Absent
  <2> QED
    BY <1>8, <2>1, <2>2, <2>3, <2>4 DEF RetiringFails
<1>9. ASSUME ShutdownBegin \/ StartUp \/ StartDone \/ Exit \/ Crash
      PROVE  RecordInv'
  <2>1. CASE ShutdownBegin
    BY <2>1
      DEF ShutdownBegin, Threads, Quiet, ClosedInv, TermStages, RetireStages, BootStages,
          RecordInv, AuditNotLive, Lifecycles, Absent
  <2>2. CASE StartUp
    BY <2>2
      DEF StartUp, Threads, Quiet, ClosedInv, TermStages, RetireStages, BootStages,
          RecordInv, AuditNotLive, Lifecycles, Absent
  <2>3. CASE StartDone
    BY <2>3
      DEF StartDone, Quiet, ClosedInv, TermStages, RetireStages, BootStages, RecordInv,
          AuditNotLive, Lifecycles, Absent
  <2>4. CASE Exit
    BY <2>4
      DEF Exit, MemoryLost, Threads, Quiet, ClosedInv, TermStages, RetireStages, BootStages,
          RecordInv, AuditNotLive, Lifecycles, Absent
  <2>5. CASE Crash
    BY <2>5
      DEF Crash, MemoryLost, Threads, Quiet, ClosedInv, TermStages, RetireStages,
          BootStages, RecordInv, AuditNotLive, Lifecycles, Absent
  <2> QED
    BY <1>9, <2>1, <2>2, <2>3, <2>4, <2>5
<1>10. CASE UNCHANGED vars
  BY <1>10
    DEF vars, Quiet, ClosedInv, TermStages, RetireStages, BootStages, RecordInv,
        AuditNotLive, Lifecycles, Absent
<1> QED
  BY <1>1, <1>2, <1>3, <1>4, <1>5, <1>6, <1>7, <1>8, <1>9, <1>10 DEF Next

-----------------------------------------------------------------------------
(* The inductive invariant and what follows from it                        *)

IInv == /\ TypeOK /\ Capacity /\ Quiet /\ ClosedInv /\ RetireInv
        /\ WorkerInv /\ PromoteInv /\ DurableInv /\ RecordInv

\* The invariant holds before the first start of the backend.
LEMMA InitIInv == Init => IInv
<1> SUFFICES ASSUME Init PROVE IInv
    OBVIOUS
<1>1. TypeOK
  BY TypeInit
<1>2. Capacity
  <2>1. {id \in Ids : creator[id] \in InFlight} = {}
    BY DEF Init, InFlight
  <2> QED
    BY <2>1, FS_EmptySet, LimitAssumption DEF Init, Capacity
<1>3. \A t \in Roles, id \in Ids : pc[<<t, id>>] = "idle"
  BY DEF Init, Threads
<1>4. Quiet
  BY <1>3 DEF Init, Quiet, Serving, BootStages
<1>5. ClosedInv /\ PromoteInv /\ DurableInv
  BY <1>3, RoleNames
    DEF Init, ClosedInv, PromoteInv, PromoteFindsLaunch, DurableInv, VisibleIsDurable,
        TermStages, RetireStages, At
<1>6. RetireInv /\ RecordInv /\ WorkerInv
  BY <1>3
    DEF Init, RetireInv, SingleRetirer, RecordInv, AuditNotLive, WorkerInv,
        WorkerSessionLives, RetireStages, Absent
<1> QED
  BY <1>1, <1>2, <1>4, <1>5, <1>6 DEF IInv

\* Every step of every goroutine, every fault and every crash keeps it.
LEMMA NextIInv == IInv /\ [Next]_vars => IInv'
  BY TypeNext, CapacityNext, QuietNext, ClosedNext, RetireNext, WorkerNext, PromoteNext,
     DurableNext, RecordNext
    DEF IInv

\* The inductive invariant of the terminal runtime.
THEOREM Invariance == Spec => []IInv
  BY InitIInv, NextIInv, PTL DEF Spec

\* Every variable keeps its type.
THEOREM TypeCorrect == Spec => []TypeOK
  BY Invariance, PTL DEF IInv

\* The configured maximum of instances is never exceeded.
THEOREM CapacityHolds == Spec => []Capacity
  BY Invariance, PTL DEF IInv

\* At most one goroutine is inside retireSession for a session.
THEOREM SingleRetirerHolds == Spec => []SingleRetirer
<1>1. IInv => SingleRetirer
  BY DEF IInv, RetireInv
<1> QED
  BY <1>1, Invariance, PTL

\* A session that the heartbeat lists has active metadata.
THEOREM VisibleIsDurableHolds == Spec => []VisibleIsDurable
<1>1. IInv => VisibleIsDurable
  BY DEF IInv, DurableInv
<1> QED
  BY <1>1, Invariance, PTL

\* The worker keeps the session until it is retired.
THEOREM WorkerSessionLivesHolds == Spec => []WorkerSessionLives
<1>1. IInv => WorkerSessionLives
  BY DEF IInv, WorkerInv
<1> QED
  BY <1>1, Invariance, PTL

\* PromotePending always finds the launch it has published.
THEOREM PromoteFindsLaunchHolds == Spec => []PromoteFindsLaunch
<1>1. IInv => PromoteFindsLaunch
  BY DEF IInv, PromoteInv
<1> QED
  BY <1>1, Invariance, PTL

\* No audit copy is of a live connection.
THEOREM AuditNotLiveHolds == Spec => []AuditNotLive
<1>1. IInv => AuditNotLive
  BY DEF IInv, RecordInv
<1> QED
  BY <1>1, Invariance, PTL

-----------------------------------------------------------------------------
(* The runtime implements ConnectionRecord                                 *)

Writing(id) == Record!Save(id) \/ Record!Archive(id) \/ Record!Remove(id)

\* A step writes at most one record, in a way the abstract record allows.
LEMMA StepRecord ==
    IInv /\ [Next]_vars => [Record!Next]_<<active, audit>>
<1> SUFFICES ASSUME IInv, [Next]_vars, ~UNCHANGED <<active, audit>>
             PROVE  \E id \in Ids : Writing(id)
    BY DEF Record!Next, Writing
<1> USE DEF flags, maps, process, disk, bounds, At, Fault, NoFault, SaveMeta, MaybeSaveMeta
<1>t. /\ lifecycle \in [Ids -> Lifecycles]
      /\ {"live", "exited", "interrupted"} \subseteq Lifecycles
  BY DEF IInv, TypeOK, Lifecycles
<1>s. ASSUME NEW id \in Ids, NEW value \in Lifecycles,
             active' = [active EXCEPT ![id] = value], audit' = audit
      PROVE  Writing(id)
  BY <1>s DEF Writing, Record!Save
<1>r. ASSUME NEW id \in Ids, audit[id] # Absent, SaveMeta(id, Absent), audit' = audit
      PROVE  Writing(id)
  BY <1>r DEF Writing, Record!Remove
<1>a. ASSUME NEW id \in Ids, active[id] # Absent, active[id] # "live", active' = active,
             audit' = [audit EXCEPT ![id] = active[id]]
      PROVE  Writing(id)
  BY <1>a DEF Writing, Record!Archive
<1>1. ASSUME NEW id \in Ids, Creating(id)
      PROVE  Writing(id)
  BY <1>1, <1>s, <1>t
    DEF Creating, Reserve, CreateFails, StartProcess, Persist, PersistFails, Publish
<1>2. ASSUME NEW id \in Ids, Promoting(id)
      PROVE  Writing(id)
  BY <1>2, <1>s, <1>t
    DEF Promoting, MarkerDecides, PromoteRefused, PromotePublish, PromotePublishFails,
        PromoteMove, AbortLookup
<1>3. ASSUME NEW id \in Ids, Booting(id)
      PROVE  Writing(id)
  <2>1. CASE BootSave(id)
    BY <2>1, <1>s, <1>t DEF BootSave
  <2>2. CASE BootArchive(id)
    <3>1. active[id] # Absent /\ active[id] # "live"
      BY <2>2, RoleNames DEF BootArchive, IInv, RecordInv
    <3> QED
      BY <2>2, <3>1, <1>a DEF BootArchive
  <2>3. CASE BootDelete(id)
    <3>1. audit[id] # Absent
      BY <2>3, RoleNames DEF BootDelete, IInv, RecordInv
    <3> QED
      BY <2>3, <3>1, <1>r DEF BootDelete
  <2> QED
    BY <1>3, <2>1, <2>2, <2>3 DEF Booting
<1>4. ASSUME NEW id \in Ids,
             ProcessExits(id) \/ ReadEnds(id) \/ WaitLoop(id) \/ MarkerSave(id) \/ MarkerFires(id)
      PROVE  Writing(id)
  BY <1>4, <1>s, <1>t DEF ProcessExits, ReadEnds, WaitLoop, MarkerSave, MarkerFires
<1>5. ASSUME NEW r \in Requests, NEW id \in Ids, Requesting(r, id)
      PROVE  Writing(id)
  BY <1>5, <1>s, <1>t DEF Requesting, DeleteLookup, AbortRequest, UpdateLookup, MetaUpdate
<1>6. ASSUME NEW t \in Roles, NEW id \in Ids, Terminating(t, id)
      PROVE  Writing(id)
  BY <1>6 DEF Terminating, TerminateRetired, TerminateMark, Kill, Finish, Unpend
<1>7. ASSUME NEW t \in Roles, NEW id \in Ids, Retiring(t, id)
      PROVE  Writing(id)
  <2>1. CASE RetireMeta(t, id)
    BY <2>1, <1>s, <1>t DEF RetireMeta
  <2>2. CASE RetireArchive(t, id)
    <3>1. active[id] # "live"
      BY <2>2 DEF RetireArchive, IInv, RecordInv
    <3> QED
      BY <2>2, <3>1, <1>a DEF RetireArchive
  <2>3. CASE RetireDelete(t, id)
    <3>1. audit[id] # Absent
      BY <2>3 DEF RetireDelete, IInv, RecordInv
    <3> QED
      BY <2>3, <3>1, <1>r DEF RetireDelete
  <2>4. CASE RetireBegin(t, id) \/ RetireSnapshot(t, id) \/ RetireMark(t, id) \/ RetireUnmap(t, id)
    BY <2>4 DEF RetireBegin, RetireSnapshot, RetireMark, RetireUnmap
  <2> QED
    BY <1>7, <2>1, <2>2, <2>3, <2>4 DEF Retiring
<1>8. ASSUME NEW t \in Roles, NEW id \in Ids, RetiringFails(t, id)
      PROVE  Writing(id)
  <2>1. CASE RetireSnapshotFails(t, id) \/ RetireMetaFails(t, id)
    BY <2>1, <1>s, <1>t DEF RetireSnapshotFails, RetireMetaFails
  <2>2. CASE RetireArchiveFails(t, id)
    <3>1. active[id] # "live"
      BY <2>2 DEF RetireArchiveFails, RetireFails, IInv, RecordInv
    <3> QED
      BY <2>2, <3>1, <1>a DEF RetireArchiveFails
  <2>3. CASE RetireDeleteFails(t, id)
    <3>1. audit[id] # Absent
      BY <2>3 DEF RetireDeleteFails, RetireFails, IInv, RecordInv
    <3> QED
      BY <2>3, <3>1, <1>r DEF RetireDeleteFails
  <2> QED
    BY <1>8, <2>1, <2>2, <2>3 DEF RetiringFails
<1>9. ~(ShutdownBegin \/ StartUp \/ StartDone \/ Exit \/ Crash \/ UNCHANGED vars)
  BY DEF ShutdownBegin, StartUp, StartDone, Exit, Crash, vars
<1> QED
  BY <1>1, <1>2, <1>3, <1>4, <1>5, <1>6, <1>7, <1>8, <1>9 DEF Next

\* The terminal runtime and its store implement the abstract record.
THEOREM RecordRefinement == Spec => KeepsRecords
<1>1. Init => Record!Init
  BY DEF Init, Record!Init
<1> QED
  BY <1>1, Invariance, StepRecord, PTL DEF Spec, KeepsRecords, Record!Spec

\* The active record of a connection is removed only when its audit copy exists.
THEOREM AuditBeforeDeleteHolds == Spec => AuditBeforeDelete
<1>1. IInv /\ [Next]_vars =>
        [\A id \in Ids : active[id] # Absent /\ active'[id] = Absent => audit[id] # Absent]_vars
  <2> SUFFICES ASSUME IInv, [Next]_vars, NEW id \in Ids,
                      active[id] # Absent, active'[id] = Absent
               PROVE  audit[id] # Absent
      OBVIOUS
  <2>1. PICK i \in Ids : Record!Save(i) \/ Record!Archive(i) \/ Record!Remove(i)
    BY StepRecord DEF Record!Next
  <2>2. active \in [Ids -> Lifecycles \union {Absent}] /\ Absent \notin Lifecycles
    BY DEF IInv, TypeOK, Lifecycles, Absent
  <2> QED
    BY <2>1, <2>2 DEF Record!Save, Record!Archive, Record!Remove
<1> QED
  BY <1>1, Invariance, PTL DEF Spec, AuditBeforeDelete
=============================================================================
