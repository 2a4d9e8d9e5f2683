---------------------------- MODULE Endpoint_proofs ----------------------------
(***************************************************************************)
(* Proofs about what the server keeps on an SSH endpoint: the transports   *)
(* to it and the agent component on it.                                    *)
(*                                                                         *)
(* The pool of transports, for every set of instances and of auxiliary     *)
(* users.  The counters are related to the sets they count (CountInv); the *)
(* shape of the pool says who may be in those sets (ShapeInv); together    *)
(* they are inductive.                                                     *)
(*                                                                         *)
(* The agent, for every set of connections, targets, operations, runtimes  *)
(* and faults: an endpoint is prepared by one operation, which ends for    *)
(* all who wait for it (PreparationSafe), a change of state is told once   *)
(* (ToldOnce), and the projection goes forward and passes over nothing.    *)
(*                                                                         *)
(* The argument for the operations: the running one is the current one,    *)
(* and one that has no goroutine yet is owned by the request that will     *)
(* start it; so at most one is at work, and no other relies on the         *)
(* component while it is being installed (OpsInv, InstalledInv).  A target *)
(* that waits has such a request or operation, and an operation settles    *)
(* all it touches in its last step (AwaitedInv).                           *)
(*                                                                         *)
(* The argument for the projection: every record that is written follows   *)
(* the one in memory, and a write that failed may still have reached the   *)
(* disk, so the disk follows the memory and a restart goes forward too.    *)
(* The scheduler holds one snapshot at a time, and its message is stored   *)
(* before it is accepted (ProjectionInv).                                  *)
(***************************************************************************)
EXTENDS TransportPool, AgentObservation, FiniteSetTheorems, WellFoundedInduction, TLAPS

\* The instances that the pool maps to a transport, and its auxiliary users.
Mapped(t) == {id \in Ids : instances[id] = t}
Pinned(t) == {u \in AuxUsers : Holds(u, t)}
\* The instances whose channel is still to be given back: also a reuse that is
\* being created when Shutdown clears the maps.
Booked(t) ==
    {id \in Ids : \/ instances[id] = t
                  \/ id \in Derived /\ stage[id] = "creating" /\ target[id] = t}

CountInv ==
    /\ \A t \in Owners : channels[t] >= Cardinality(Booked(t))
    /\ \A t \in transports : channels[t] = Cardinality(Mapped(t))
    /\ \A t \in Owners : auxiliary[t] = Cardinality(Pinned(t))

\* Where the transport of an instance comes from.
TargetInv ==
    /\ \A t \in Owners : target[t] = t
    /\ \A id \in Ids : stage[id] # "fresh" => target[id] \in Owners
    /\ \A id \in Ids : stage[id] \in {"found", "checked"} => id \in Derived
    /\ \A id \in Ids : stage[id] = "found" =>
          /\ source[id] \in Ids /\ target[source[id]] = target[id]
          /\ stage[source[id]] \notin {"fresh", "found", "checked"}
    /\ \A id \in Derived : stage[id] \notin {"fresh", "found"} => stage[target[id]] \in Started
    /\ \A u \in AuxUsers : auxStage[u] # "idle" =>
          auxTarget[u] \in Owners /\ stage[auxTarget[u]] \in Started

\* Which transports are in the pool, and which instances are mapped to them.
ShapeInv ==
    /\ \A id \in Ids : instances[id] # None =>
          /\ instances[id] = target[id] /\ stage[id] \in {"creating", "live", "hooked"}
          /\ instances[id] \in transports \union cleared
    /\ \A id \in Ids : stage[id] \in {"creating", "live"} /\ target[id] \notin cleared =>
          instances[id] = target[id]
    /\ \A t \in transports :
          /\ stage[t] \in Started \union {"creating"}
          /\ t \notin cleared \union stopping \union stopped
    /\ \A t \in cleared \union stopping \union stopped : stage[t] # "fresh"
    /\ \A t \in Owners : stage[t] \in Started /\ t \notin transports \union cleared =>
          channels[t] = 0 /\ auxiliary[t] = 0

\* The inductive invariant.
IInv == TypeOK /\ TargetInv /\ ShapeInv /\ CountInv

-----------------------------------------------------------------------------
(* Cardinalities                                                           *)

\* Every set of users is finite.
LEMMA Finite ==
    /\ IsFiniteSet(Ids) /\ IsFiniteSet(AuxUsers)
    /\ \A t : /\ IsFiniteSet(Mapped(t)) /\ IsFiniteSet(Booked(t)) /\ IsFiniteSet(Pinned(t))
              /\ Cardinality(Mapped(t)) \in Nat /\ Cardinality(Booked(t)) \in Nat
              /\ Cardinality(Pinned(t)) \in Nat
<1>1. IsFiniteSet(Ids) /\ IsFiniteSet(AuxUsers)
  BY FiniteAssumption DEF Ids
<1>2. ASSUME NEW t
      PROVE  /\ Mapped(t) \in SUBSET Ids /\ Booked(t) \in SUBSET Ids
             /\ Pinned(t) \in SUBSET AuxUsers
  BY DEF Mapped, Booked, Pinned
<1>. QED
  BY <1>1, <1>2, FS_Subset, FS_CardinalityType

\* One element more or less, and the empty set.
LEMMA CardinalityFacts ==
    ASSUME NEW S, IsFiniteSet(S), NEW x
    PROVE  /\ Cardinality(S) \in Nat
           /\ x \notin S => Cardinality(S \union {x}) = Cardinality(S) + 1
           /\ x \in S => Cardinality(S \ {x}) = Cardinality(S) - 1 /\ Cardinality(S) >= 1
           /\ Cardinality(S) = 0 => S = {}
<1>1. Cardinality(S) \in Nat
  BY FS_CardinalityType
<1>2. x \notin S => Cardinality(S \union {x}) = Cardinality(S) + 1
  BY FS_AddElement
<1>3. x \in S => Cardinality(S \ {x}) = Cardinality(S) - 1
  BY FS_RemoveElement
<1>4. Cardinality(S) = 0 => S = {}
  BY FS_EmptySet
<1>. QED
  BY <1>1, <1>2, <1>3, <1>4

\* A smaller set.
LEMMA CardinalitySubset ==
    ASSUME NEW S, IsFiniteSet(S), NEW T, T \subseteq S
    PROVE  Cardinality(T) \in Nat /\ Cardinality(T) <= Cardinality(S)
  BY FS_Subset, FS_CardinalityType

-----------------------------------------------------------------------------
(* Induction                                                               *)

\* A reuse that fails finds its own channel counted.
LEMMA TypeNext == TypeOK /\ TargetInv /\ CountInv /\ [Next]_vars => TypeOK'
<1>. SUFFICES ASSUME TypeOK, TargetInv, CountInv, [Next]_vars PROVE TypeOK'
  OBVIOUS
<1>. USE KindAssumption
<1>1. ASSUME NEW id \in Ids, CreateOwner(id)
      PROVE  TypeOK'
  BY <1>1 DEF CreateOwner, SetStage, TypeOK, Stages, AuxStages, Ids, pool, life, aux, stops
<1>2. ASSUME NEW id \in Ids, CreateOwnerFails(id)
      PROVE  TypeOK'
  BY <1>2 DEF CreateOwnerFails, SetStage, TypeOK, Stages, AuxStages, Ids, pool, life, aux, stops
<1>3. ASSUME NEW id \in Ids, CreateReturns(id)
      PROVE  TypeOK'
  BY <1>3 DEF CreateReturns, SetStage, TypeOK, Stages, AuxStages, Ids, pool, life, aux, stops
<1>4. ASSUME NEW id \in Ids, ReuseRefused(id)
      PROVE  TypeOK'
  <2>1. target[id] \in Owners
    BY <1>4 DEF ReuseRefused, TargetInv
  <2>. QED
    BY <2>1, <1>4 DEF ReuseRefused, Refuse, SetStage, TypeOK, Stages, aux, stops
<1>5. ASSUME NEW id \in Ids, ReuseChecked(id)
      PROVE  TypeOK'
  BY <1>5 DEF ReuseChecked, SetStage, TypeOK, Stages, AuxStages, Ids, pool, life, aux, stops
<1>6. ASSUME NEW id \in Ids, ReuseReserve(id)
      PROVE  TypeOK'
  <2>1. target[id] \in Owners
    BY <1>6 DEF ReuseReserve, TargetInv
  <2>. QED
    BY <2>1, <1>6 DEF ReuseReserve, Refuse, AcceptsReuse, SetStage, TypeOK, Stages, aux, stops
<1>7. ASSUME NEW id \in Ids, ReuseFails(id)
      PROVE  TypeOK'
  <2>1. target[id] \in Owners /\ id \in Booked(target[id])
    BY <1>7 DEF ReuseFails, TargetInv, TypeOK, Booked
  <2>2. /\ Cardinality(Booked(target[id])) \in Nat
        /\ Cardinality(Booked(target[id])) >= 1
    BY <2>1, Finite, CardinalityFacts
  <2>3. channels[target[id]] - 1 \in Nat
    BY <2>1, <2>2 DEF CountInv, TypeOK
  <2>. QED
    BY <2>1, <2>3, <1>7 DEF ReuseFails, SetStage, TypeOK, Stages, Ids, pool, life, aux, stops
<1>8. ASSUME NEW id \in Ids, Exits(id)
      PROVE  TypeOK'
  BY <1>8 DEF Exits, SetStage, TypeOK, Stages, AuxStages, Ids, pool, life, aux, stops
<1>9. ASSUME NEW id \in Ids, HookFinishes(id)
      PROVE  TypeOK'
  BY <1>9 DEF HookFinishes, FinishInstance, CountDown, SetStage, TypeOK, Stages, AuxStages, Ids, pool, life, aux, stops
<1>10. ASSUME NEW id \in Ids, DeleteFinishes(id)
      PROVE  TypeOK'
  BY <1>10 DEF DeleteFinishes, FinishInstance, CountDown, TypeOK, Stages, AuxStages, Ids, pool, life, aux, stops
<1>11. ASSUME NEW id \in Ids, NEW from \in Ids, ReuseLookup(id, from)
      PROVE  TypeOK'
  BY <1>11 DEF ReuseLookup, SetStage, TypeOK, Stages, AuxStages, Ids, pool, life, aux, stops
<1>12. ASSUME NEW u \in AuxUsers, AuxReserve(u)
      PROVE  TypeOK'
  <2>1. auxTarget[u] \in Owners
    BY <1>12 DEF AuxReserve, TargetInv
  <2>. QED
    BY <2>1, <1>12 DEF AuxReserve, AuxIdle, AcceptsAuxiliary, TypeOK, AuxStages, life, stops
<1>13. ASSUME NEW u \in AuxUsers, AuxUses(u)
      PROVE  TypeOK'
  BY <1>13 DEF AuxUses, TypeOK, Stages, AuxStages, Ids, pool, life, aux, stops
<1>14. ASSUME NEW u \in AuxUsers, AuxRelease(u)
      PROVE  TypeOK'
  <2>1. auxTarget[u] \in Owners
    BY <1>14 DEF AuxRelease, TargetInv
  <2>. QED
    BY <2>1, <1>14 DEF AuxRelease, AuxIdle, TypeOK, AuxStages, life
<1>15. ASSUME NEW u \in AuxUsers, NEW t \in Owners, AuxFind(u, t)
      PROVE  TypeOK'
  BY <1>15 DEF AuxFind, TypeOK, Stages, AuxStages, Ids, pool, life, aux, stops
<1>16. ASSUME NEW t \in Owners, RefreshSources(t)
      PROVE  TypeOK'
  BY <1>16 DEF RefreshSources, TypeOK, Stages, AuxStages, Ids, pool, life, aux, stops
<1>17. ASSUME NEW t \in Owners, StopTransport(t)
      PROVE  TypeOK'
  BY <1>17 DEF StopTransport, TypeOK, Stages, AuxStages, Ids, pool, life, aux, stops
<1>18. CASE Shutdown
  BY <1>18 DEF Shutdown, TypeOK, Stages, AuxStages, Ids, pool, life, aux, stops
<1>19. CASE UNCHANGED vars
  BY <1>19 DEF vars, stops, TypeOK, Stages, AuxStages, Ids, pool, life, aux, stops
<1>. QED
  BY <1>1, <1>2, <1>3, <1>4, <1>5, <1>6, <1>7, <1>8, <1>9, <1>10,
     <1>11, <1>12, <1>13, <1>14, <1>15, <1>16, <1>17, <1>18, <1>19
     DEF Next, Opening, Reusing, Ending, Using

\* An instance keeps its transport, and its transport stays published.
LEMMA TargetNext == TypeOK /\ TargetInv /\ ShapeInv /\ [Next]_vars => TargetInv'
<1>. SUFFICES ASSUME TypeOK, TargetInv, ShapeInv, [Next]_vars PROVE TargetInv'
  OBVIOUS
<1>. USE KindAssumption
<1>1. ASSUME NEW id \in Ids, CreateOwner(id)
      PROVE  TargetInv'
  BY <1>1 DEF CreateOwner, SetStage, TargetInv, ShapeInv, Started, TypeOK, Stages, Ids, pool, life, aux, stops
<1>2. ASSUME NEW id \in Ids, CreateOwnerFails(id)
      PROVE  TargetInv'
  BY <1>2 DEF CreateOwnerFails, SetStage, TargetInv, ShapeInv, Started, TypeOK, Stages, Ids, pool, life, aux, stops
<1>3. ASSUME NEW id \in Ids, CreateReturns(id)
      PROVE  TargetInv'
  BY <1>3 DEF CreateReturns, SetStage, TargetInv, ShapeInv, Started, TypeOK, Stages, Ids, pool, life, aux, stops
<1>4. ASSUME NEW id \in Ids, ReuseRefused(id)
      PROVE  TargetInv'
  BY <1>4 DEF ReuseRefused, Refuse, SetStage, TargetInv, ShapeInv, Started, TypeOK, Stages, Ids, pool, life, aux, stops
<1>5. ASSUME NEW id \in Ids, ReuseChecked(id)
      PROVE  TargetInv'
  BY <1>5 DEF ReuseChecked, SetStage, TargetInv, ShapeInv, Started, TypeOK, Stages, Ids, pool, life, aux, stops
<1>6. ASSUME NEW id \in Ids, ReuseReserve(id)
      PROVE  TargetInv'
  BY <1>6 DEF ReuseReserve, Refuse, AcceptsReuse, SetStage, TargetInv, ShapeInv, Started, TypeOK, Stages, Ids, pool, life, aux, stops
<1>7. ASSUME NEW id \in Ids, ReuseFails(id)
      PROVE  TargetInv'
  BY <1>7 DEF ReuseFails, SetStage, TargetInv, ShapeInv, Started, TypeOK, Stages, Ids, pool, life, aux, stops
<1>8. ASSUME NEW id \in Ids, Exits(id)
      PROVE  TargetInv'
  BY <1>8 DEF Exits, SetStage, TargetInv, ShapeInv, Started, TypeOK, Stages, Ids, pool, life, aux, stops
<1>9. ASSUME NEW id \in Ids, HookFinishes(id)
      PROVE  TargetInv'
  BY <1>9 DEF HookFinishes, FinishInstance, CountDown, SetStage, TargetInv, ShapeInv, Started, TypeOK, Stages, Ids, pool, life, aux, stops
<1>10. ASSUME NEW id \in Ids, DeleteFinishes(id)
      PROVE  TargetInv'
  BY <1>10 DEF DeleteFinishes, FinishInstance, CountDown, TargetInv, ShapeInv, Started, TypeOK, Stages, Ids, pool, life, aux, stops
<1>11. ASSUME NEW id \in Ids, NEW from \in Ids, ReuseLookup(id, from)
      PROVE  TargetInv'
  BY <1>11 DEF ReuseLookup, SetStage, TargetInv, ShapeInv, Started, TypeOK, Stages, Ids, pool, life, aux, stops
<1>12. ASSUME NEW u \in AuxUsers, AuxReserve(u)
      PROVE  TargetInv'
  BY <1>12 DEF AuxReserve, AuxIdle, AcceptsAuxiliary, TargetInv, ShapeInv, Started, TypeOK, Stages, Ids, pool, life, aux, stops
<1>13. ASSUME NEW u \in AuxUsers, AuxUses(u)
      PROVE  TargetInv'
  BY <1>13 DEF AuxUses, TargetInv, ShapeInv, Started, TypeOK, Stages, Ids, pool, life, aux, stops
<1>14. ASSUME NEW u \in AuxUsers, AuxRelease(u)
      PROVE  TargetInv'
  BY <1>14 DEF AuxRelease, AuxIdle, TargetInv, ShapeInv, Started, TypeOK, Stages, Ids, pool, life, aux, stops
<1>15. ASSUME NEW u \in AuxUsers, NEW t \in Owners, AuxFind(u, t)
      PROVE  TargetInv'
  BY <1>15 DEF AuxFind, TargetInv, ShapeInv, Started, TypeOK, Stages, Ids, pool, life, aux, stops
<1>16. ASSUME NEW t \in Owners, RefreshSources(t)
      PROVE  TargetInv'
  BY <1>16 DEF RefreshSources, TargetInv, ShapeInv, Started, TypeOK, Stages, Ids, pool, life, aux, stops
<1>17. ASSUME NEW t \in Owners, StopTransport(t)
      PROVE  TargetInv'
  BY <1>17 DEF StopTransport, TargetInv, ShapeInv, Started, TypeOK, Stages, Ids, pool, life, aux, stops
<1>18. CASE Shutdown
  BY <1>18 DEF Shutdown, TargetInv, ShapeInv, Started, TypeOK, Stages, Ids, pool, life, aux, stops
<1>19. CASE UNCHANGED vars
  BY <1>19 DEF vars, stops, TargetInv, ShapeInv, Started, TypeOK, Stages, Ids, pool, life, aux, stops
<1>. QED
  BY <1>1, <1>2, <1>3, <1>4, <1>5, <1>6, <1>7, <1>8, <1>9, <1>10,
     <1>11, <1>12, <1>13, <1>14, <1>15, <1>16, <1>17, <1>18, <1>19
     DEF Next, Opening, Reusing, Ending, Using

\* The counters are right as long as they do not change and the sets do not grow.
LEMMA CountKept ==
    ASSUME TypeOK, CountInv,
           \A s \in Owners : /\ Mapped(s)' = Mapped(s) /\ Pinned(s)' = Pinned(s)
                             /\ Booked(s)' \subseteq Booked(s),
           channels' = channels, auxiliary' = auxiliary, transports' \subseteq transports
    PROVE  CountInv'
<1>1. \A s \in Owners : /\ Cardinality(Booked(s)) \in Nat /\ Cardinality(Booked(s)') \in Nat
                        /\ Cardinality(Booked(s)') <= Cardinality(Booked(s))
  BY Finite, CardinalitySubset
<1>2. \A s \in Owners : channels'[s] >= Cardinality(Booked(s)')
  BY <1>1 DEF CountInv, TypeOK
<1>3. \A s \in transports' : channels'[s] = Cardinality(Mapped(s)')
  BY DEF CountInv, TypeOK
<1>4. \A s \in Owners : auxiliary'[s] = Cardinality(Pinned(s)')
  BY DEF CountInv
<1>. QED
  BY <1>2, <1>3, <1>4 DEF CountInv

\* An instance that gives its channel back was counted, and is counted no longer.
LEMMA CountLess ==
    ASSUME TypeOK, CountInv, NEW id \in Ids, NEW t \in Owners,
           id \in Booked(t), t \in transports' => t \in transports /\ id \in Mapped(t),
           \A s \in Owners :
             /\ Mapped(s)' = IF s = t THEN Mapped(s) \ {id} ELSE Mapped(s)
             /\ Booked(s)' = IF s = t THEN Booked(s) \ {id} ELSE Booked(s)
             /\ Pinned(s)' = Pinned(s),
           channels' = [channels EXCEPT ![t] = @ - 1],
           auxiliary' = auxiliary, transports' \subseteq transports
    PROVE  CountInv'
<1>1. /\ Cardinality(Booked(t)) \in Nat
      /\ Cardinality(Booked(t) \ {id}) = Cardinality(Booked(t)) - 1
      /\ id \in Mapped(t) => Cardinality(Mapped(t) \ {id}) = Cardinality(Mapped(t)) - 1
      /\ Cardinality(Mapped(t)) \in Nat
  BY Finite, CardinalityFacts
<1>2. ASSUME NEW s \in Owners PROVE channels'[s] >= Cardinality(Booked(s)')
  <2>1. CASE s = t
    <3>1. channels'[s] = channels[t] - 1 /\ Booked(s)' = Booked(t) \ {id}
      BY <2>1 DEF TypeOK
    <3>2. channels[t] \in Nat /\ channels[t] >= Cardinality(Booked(t))
      BY DEF CountInv, TypeOK
    <3>. QED
      BY <1>1, <3>1, <3>2
  <2>2. CASE s # t
    <3>1. channels'[s] = channels[s] /\ Booked(s)' = Booked(s)
      BY <2>2 DEF TypeOK
    <3>. QED
      BY <3>1 DEF CountInv
  <2>. QED
    BY <2>1, <2>2
<1>3. \A s \in transports' : channels'[s] = Cardinality(Mapped(s)')
  BY <1>1 DEF CountInv, TypeOK
<1>4. \A s \in Owners : auxiliary'[s] = Cardinality(Pinned(s)')
  BY DEF CountInv
<1>. QED
  BY <1>2, <1>3, <1>4 DEF CountInv

\* finishInstance of a mapped instance: the counter is positive, so it goes down.
LEMMA FinishCounts ==
    ASSUME TypeOK, TargetInv, ShapeInv, CountInv, NEW id \in Ids,
           instances[id] # None, FinishInstance(id)
    PROVE  /\ instances[id] \in Owners /\ id \in Mapped(instances[id])
           /\ channels[instances[id]] >= 1
           /\ channels' = [channels EXCEPT ![instances[id]] = @ - 1]
           /\ instances' = [instances EXCEPT ![id] = None]
           /\ auxiliary' = auxiliary /\ transports' \subseteq transports
<1>1. instances[id] \in Owners /\ id \in Mapped(instances[id]) /\ id \in Booked(instances[id])
  BY DEF TypeOK, Mapped, Booked
<1>2. /\ Cardinality(Booked(instances[id])) \in Nat
      /\ Cardinality(Booked(instances[id])) >= 1
  BY <1>1, Finite, CardinalityFacts
<1>3. channels[instances[id]] \in Nat /\ channels[instances[id]] >= 1
  BY <1>1, <1>2 DEF CountInv, TypeOK
<1>. QED
  BY <1>1, <1>3 DEF FinishInstance, CountDown, TypeOK

\* The counters follow the sets they count.
LEMMA CountNext ==
    TypeOK /\ TargetInv /\ ShapeInv /\ CountInv /\ [Next]_vars => CountInv'
<1>. SUFFICES ASSUME TypeOK, TargetInv, ShapeInv, CountInv, [Next]_vars PROVE CountInv'
  OBVIOUS
<1>. USE KindAssumption
<1>1. ASSUME NEW id \in Ids, CreateOwner(id)
      PROVE  CountInv'
  <2>1. /\ Mapped(id)' = {id} /\ Booked(id)' = {id}
        /\ \A s \in Owners : /\ Pinned(s)' = Pinned(s)
                             /\ s # id => Mapped(s)' = Mapped(s) /\ Booked(s)' = Booked(s)
    BY <1>1 DEF CreateOwner, SetStage, Mapped, Booked, Pinned, Holds, TargetInv, ShapeInv, TypeOK, Started, Ids, aux
  <2>2. Cardinality({id}) = 1
    BY FS_Singleton
  <2>3. /\ channels' = [channels EXCEPT ![id] = 1] /\ auxiliary' = auxiliary
        /\ transports' = transports \union {id} /\ id \in Owners
    BY <1>1 DEF CreateOwner
  <2>4. channels'[id] = 1 /\ \A s \in Owners : s # id => channels'[s] = channels[s]
    BY <2>3 DEF TypeOK
  <2>5. ASSUME NEW s \in Owners PROVE channels'[s] >= Cardinality(Booked(s)')
    <3>1. CASE s = id
      BY <2>1, <2>2, <2>4, <3>1
    <3>2. CASE s # id
      <4>1. channels'[s] = channels[s] /\ Booked(s)' = Booked(s)
        BY <2>1, <2>4, <3>2
      <4>. QED
        BY <4>1 DEF CountInv
    <3>. QED
      BY <3>1, <3>2
  <2>6. ASSUME NEW s \in transports' PROVE channels'[s] = Cardinality(Mapped(s)')
    <3>1. CASE s = id
      BY <2>1, <2>2, <2>4, <3>1
    <3>2. CASE s # id
      <4>1. channels'[s] = channels[s] /\ Mapped(s)' = Mapped(s) /\ s \in transports
        BY <2>1, <2>3, <2>4, <3>2 DEF TypeOK
      <4>. QED
        BY <4>1 DEF CountInv
    <3>. QED
      BY <3>1, <3>2
  <2>7. \A s \in Owners : auxiliary'[s] = Cardinality(Pinned(s)')
    BY <2>1, <2>3 DEF CountInv
  <2>. QED
    BY <2>5, <2>6, <2>7 DEF CountInv
<1>2. ASSUME NEW id \in Ids, CreateOwnerFails(id)
      PROVE  CountInv'
  <2>1. \A s \in Owners : /\ Pinned(s)' = Pinned(s) /\ Booked(s)' \subseteq Booked(s)
                          /\ s # id => Mapped(s)' = Mapped(s)
    BY <1>2 DEF CreateOwnerFails, SetStage, Mapped, Booked, Pinned, Holds, TargetInv, ShapeInv, TypeOK, Started, Ids, aux
  <2>2. /\ channels' = channels /\ auxiliary' = auxiliary /\ transports' = transports \ {id}
    BY <1>2 DEF CreateOwnerFails
  <2>3. \A s \in Owners : /\ Cardinality(Booked(s)) \in Nat /\ Cardinality(Booked(s)') \in Nat
                          /\ Cardinality(Booked(s)') <= Cardinality(Booked(s))
    BY <2>1, Finite, CardinalitySubset
  <2>4. \A s \in Owners : channels'[s] >= Cardinality(Booked(s)')
    BY <2>2, <2>3 DEF CountInv, TypeOK
  <2>5. \A s \in transports' : channels'[s] = Cardinality(Mapped(s)')
    BY <2>1, <2>2 DEF CountInv, TypeOK
  <2>6. \A s \in Owners : auxiliary'[s] = Cardinality(Pinned(s)')
    BY <2>1, <2>2 DEF CountInv
  <2>. QED
    BY <2>4, <2>5, <2>6 DEF CountInv
<1>3. ASSUME NEW id \in Ids, CreateReturns(id)
      PROVE  CountInv'
  <2>1. \A s \in Owners : /\ Mapped(s)' = Mapped(s) /\ Pinned(s)' = Pinned(s)
                           /\ Booked(s)' \subseteq Booked(s)
    BY <1>3 DEF CreateReturns, SetStage, Mapped, Booked, Pinned, Holds, pool, life, aux, stops
  <2>2. /\ channels' = channels /\ auxiliary' = auxiliary /\ transports' \subseteq transports
    BY <1>3 DEF CreateReturns, SetStage, pool
  <2>. QED
    BY <2>1, <2>2, CountKept
<1>4. ASSUME NEW id \in Ids, ReuseRefused(id)
      PROVE  CountInv'
  <2>1. \A s \in Owners : /\ Mapped(s)' = Mapped(s) /\ Pinned(s)' = Pinned(s)
                           /\ Booked(s)' \subseteq Booked(s)
    BY <1>4 DEF ReuseRefused, Refuse, SetStage, Mapped, Booked, Pinned, Holds, pool, life, aux, stops
  <2>2. /\ channels' = channels /\ auxiliary' = auxiliary /\ transports' \subseteq transports
    BY <1>4 DEF ReuseRefused, Refuse, SetStage, pool
  <2>. QED
    BY <2>1, <2>2, CountKept
<1>5. ASSUME NEW id \in Ids, ReuseChecked(id)
      PROVE  CountInv'
  <2>1. \A s \in Owners : /\ Mapped(s)' = Mapped(s) /\ Pinned(s)' = Pinned(s)
                           /\ Booked(s)' \subseteq Booked(s)
    BY <1>5 DEF ReuseChecked, SetStage, Mapped, Booked, Pinned, Holds, pool, life, aux, stops
  <2>2. /\ channels' = channels /\ auxiliary' = auxiliary /\ transports' \subseteq transports
    BY <1>5 DEF ReuseChecked, SetStage, pool
  <2>. QED
    BY <2>1, <2>2, CountKept
<1>6. ASSUME NEW id \in Ids, ReuseReserve(id)
      PROVE  CountInv'
  <2>1. CASE ~AcceptsReuse(target[id])
    <3>1. \A s \in Owners : /\ Mapped(s)' = Mapped(s) /\ Pinned(s)' = Pinned(s)
                            /\ Booked(s)' \subseteq Booked(s)
      BY <2>1, <1>6 DEF ReuseReserve, Refuse, SetStage, Mapped, Booked, Pinned, Holds, TypeOK, aux
    <3>2. channels' = channels /\ auxiliary' = auxiliary /\ transports' \subseteq transports
      BY <2>1, <1>6 DEF ReuseReserve
    <3>. QED
      BY <3>1, <3>2, CountKept
  <2>2. CASE AcceptsReuse(target[id])
    <3>. DEFINE t == target[id]
    <3>1. t \in Owners /\ id \notin Mapped(t) /\ id \notin Booked(t)
      BY <1>6 DEF ReuseReserve, TargetInv, ShapeInv, Mapped, Booked
    <3>2. \A s \in Owners :
            /\ Mapped(s)' = IF s = t THEN Mapped(s) \union {id} ELSE Mapped(s)
            /\ Booked(s)' = IF s = t THEN Booked(s) \union {id} ELSE Booked(s)
            /\ Pinned(s)' = Pinned(s)
      BY <2>2, <3>1, <1>6 DEF ReuseReserve, SetStage, Mapped, Booked, Pinned, Holds, TypeOK,
                            ShapeInv, aux
    <3>3. /\ channels' = [channels EXCEPT ![t] = @ + 1] /\ auxiliary' = auxiliary
          /\ transports' = transports
      BY <2>2, <1>6 DEF ReuseReserve
    <3>4. /\ Cardinality(Booked(t)) \in Nat /\ Cardinality(Mapped(t)) \in Nat
          /\ Cardinality(Booked(t) \union {id}) = Cardinality(Booked(t)) + 1
          /\ Cardinality(Mapped(t) \union {id}) = Cardinality(Mapped(t)) + 1
      BY <3>1, Finite, CardinalityFacts
    <3>. HIDE DEF t
    <3>5. ASSUME NEW s \in Owners PROVE channels'[s] >= Cardinality(Booked(s)')
      <4>1. CASE s = t
        <5>1. channels'[s] = channels[t] + 1 /\ Booked(s)' = Booked(t) \union {id}
          BY <4>1, <3>1, <3>2, <3>3 DEF TypeOK
        <5>2. channels[t] \in Nat /\ channels[t] >= Cardinality(Booked(t))
          BY <3>1 DEF CountInv, TypeOK
        <5>. QED
          BY <3>4, <5>1, <5>2
      <4>2. CASE s # t
        <5>1. channels'[s] = channels[s] /\ Booked(s)' = Booked(s)
          BY <4>2, <3>1, <3>2, <3>3 DEF TypeOK
        <5>. QED
          BY <5>1 DEF CountInv
      <4>. QED
        BY <4>1, <4>2
    <3>6. \A s \in transports' : channels'[s] = Cardinality(Mapped(s)')
      BY <3>1, <3>2, <3>3, <3>4 DEF CountInv, TypeOK
    <3>7. \A s \in Owners : auxiliary'[s] = Cardinality(Pinned(s)')
      BY <3>2, <3>3 DEF CountInv
    <3>. QED
      BY <3>5, <3>6, <3>7 DEF CountInv
  <2>. QED
    BY <2>1, <2>2
<1>7. ASSUME NEW id \in Ids, ReuseFails(id)
      PROVE  CountInv'
  <2>. DEFINE t == target[id]
  <2>1. t \in Owners /\ id \in Booked(t)
    BY <1>7 DEF ReuseFails, TargetInv, Booked
  <2>2. t \in transports => id \in Mapped(t)
    BY <1>7 DEF ReuseFails, ShapeInv, Mapped
  <2>3. \A s \in Owners : /\ Mapped(s)' = IF s = t THEN Mapped(s) \ {id} ELSE Mapped(s)
                          /\ Booked(s)' = IF s = t THEN Booked(s) \ {id} ELSE Booked(s)
                          /\ Pinned(s)' = Pinned(s)
    BY <2>1, <1>7 DEF ReuseFails, SetStage, Mapped, Booked, Pinned, Holds, TypeOK, ShapeInv, aux
  <2>4. /\ channels' = [channels EXCEPT ![t] = @ - 1]
        /\ auxiliary' = auxiliary /\ transports' = transports
    BY <1>7 DEF ReuseFails
  <2>. HIDE DEF t
  <2>. QED
    BY <2>1, <2>2, <2>3, <2>4, CountLess
<1>8. ASSUME NEW id \in Ids, Exits(id)
      PROVE  CountInv'
  <2>1. \A s \in Owners : /\ Mapped(s)' = Mapped(s) /\ Pinned(s)' = Pinned(s)
                           /\ Booked(s)' \subseteq Booked(s)
    BY <1>8 DEF Exits, SetStage, Mapped, Booked, Pinned, Holds, pool, life, aux, stops
  <2>2. /\ channels' = channels /\ auxiliary' = auxiliary /\ transports' \subseteq transports
    BY <1>8 DEF Exits, SetStage, pool
  <2>. QED
    BY <2>1, <2>2, CountKept
<1>9. ASSUME NEW id \in Ids, HookFinishes(id)
      PROVE  CountInv'
  <2>1. CASE instances[id] = None
    <3>1. \A s \in Owners : /\ Mapped(s)' = Mapped(s) /\ Pinned(s)' = Pinned(s)
                            /\ Booked(s)' \subseteq Booked(s)
      BY <2>1, <1>9 DEF HookFinishes, FinishInstance, SetStage, Mapped, Booked, Pinned, Holds,
                      TypeOK, pool, aux
    <3>2. channels' = channels /\ auxiliary' = auxiliary /\ transports' \subseteq transports
      BY <2>1, <1>9 DEF HookFinishes, FinishInstance, pool
    <3>. QED
      BY <3>1, <3>2, CountKept
  <2>2. CASE instances[id] # None
    <3>. DEFINE t == instances[id]
    <3>1. FinishInstance(id)
      BY <1>9 DEF HookFinishes
    <3>2. /\ t \in Owners /\ id \in Mapped(t) /\ transports' \subseteq transports
          /\ channels' = [channels EXCEPT ![t] = @ - 1] /\ auxiliary' = auxiliary
          /\ instances' = [instances EXCEPT ![id] = None]
      BY <2>2, <3>1, FinishCounts
    <3>3. id \in Booked(t)
      BY <3>2 DEF Mapped, Booked
    <3>4. \A s \in Owners : /\ Mapped(s)' = IF s = t THEN Mapped(s) \ {id} ELSE Mapped(s)
                            /\ Booked(s)' = IF s = t THEN Booked(s) \ {id} ELSE Booked(s)
                            /\ Pinned(s)' = Pinned(s)
      BY <3>2, <1>9 DEF HookFinishes, SetStage, Mapped, Booked, Pinned, Holds, TypeOK, aux
    <3>. HIDE DEF t
    <3>. QED
      BY <3>2, <3>3, <3>4, CountLess
  <2>. QED
    BY <2>1, <2>2
<1>10. ASSUME NEW id \in Ids, DeleteFinishes(id)
      PROVE  CountInv'
  <2>1. CASE instances[id] = None
    <3>1. \A s \in Owners : /\ Mapped(s)' = Mapped(s) /\ Pinned(s)' = Pinned(s)
                            /\ Booked(s)' \subseteq Booked(s)
      BY <2>1, <1>10 DEF DeleteFinishes, FinishInstance, Mapped, Booked, Pinned, Holds,
                      pool, aux, life
    <3>2. channels' = channels /\ auxiliary' = auxiliary /\ transports' \subseteq transports
      BY <2>1, <1>10 DEF DeleteFinishes, FinishInstance, pool
    <3>. QED
      BY <3>1, <3>2, CountKept
  <2>2. CASE instances[id] # None
    <3>. DEFINE t == instances[id]
    <3>1. FinishInstance(id)
      BY <1>10 DEF DeleteFinishes
    <3>2. /\ t \in Owners /\ id \in Mapped(t) /\ transports' \subseteq transports
          /\ channels' = [channels EXCEPT ![t] = @ - 1] /\ auxiliary' = auxiliary
          /\ instances' = [instances EXCEPT ![id] = None]
      BY <2>2, <3>1, FinishCounts
    <3>3. id \in Booked(t)
      BY <3>2 DEF Mapped, Booked
    <3>4. \A s \in Owners : /\ Mapped(s)' = IF s = t THEN Mapped(s) \ {id} ELSE Mapped(s)
                            /\ Booked(s)' = IF s = t THEN Booked(s) \ {id} ELSE Booked(s)
                            /\ Pinned(s)' = Pinned(s)
      BY <3>2, <1>10 DEF DeleteFinishes, Mapped, Booked, Pinned, Holds, TypeOK, aux, life
    <3>. HIDE DEF t
    <3>. QED
      BY <3>2, <3>3, <3>4, CountLess
  <2>. QED
    BY <2>1, <2>2
<1>11. ASSUME NEW id \in Ids, NEW from \in Ids, ReuseLookup(id, from)
      PROVE  CountInv'
  <2>1. \A s \in Owners : /\ Mapped(s)' = Mapped(s) /\ Pinned(s)' = Pinned(s)
                           /\ Booked(s)' \subseteq Booked(s)
    BY <1>11 DEF ReuseLookup, SetStage, Mapped, Booked, Pinned, Holds, pool, life, aux, stops
  <2>2. /\ channels' = channels /\ auxiliary' = auxiliary /\ transports' \subseteq transports
    BY <1>11 DEF ReuseLookup, SetStage, pool
  <2>. QED
    BY <2>1, <2>2, CountKept
<1>12. ASSUME NEW u \in AuxUsers, AuxReserve(u)
      PROVE  CountInv'
  <2>1. CASE ~AcceptsAuxiliary(auxTarget[u])
    <3>1. \A s \in Owners : /\ Mapped(s)' = Mapped(s) /\ Pinned(s)' = Pinned(s)
                            /\ Booked(s)' \subseteq Booked(s)
      BY <2>1, <1>12 DEF AuxReserve, AuxIdle, Mapped, Booked, Pinned, Holds, TypeOK, life
    <3>2. channels' = channels /\ auxiliary' = auxiliary /\ transports' \subseteq transports
      BY <2>1, <1>12 DEF AuxReserve
    <3>. QED
      BY <3>1, <3>2, CountKept
  <2>2. CASE AcceptsAuxiliary(auxTarget[u])
    <3>. DEFINE t == auxTarget[u]
    <3>1. t \in Owners /\ u \notin Pinned(t)
      BY <1>12 DEF AuxReserve, TargetInv, Pinned, Holds
    <3>2. \A s \in Owners :
            /\ Mapped(s)' = Mapped(s) /\ Booked(s)' = Booked(s)
            /\ Pinned(s)' = IF s = t THEN Pinned(s) \union {u} ELSE Pinned(s)
      BY <2>2, <3>1, <1>12 DEF AuxReserve, Mapped, Booked, Pinned, Holds, TypeOK, life
    <3>3. /\ auxiliary' = [auxiliary EXCEPT ![t] = @ + 1] /\ channels' = channels
          /\ transports' = transports
      BY <2>2, <1>12 DEF AuxReserve
    <3>4. /\ Cardinality(Pinned(t)) \in Nat
          /\ Cardinality(Pinned(t) \union {u}) = Cardinality(Pinned(t)) + 1
      BY <3>1, Finite, CardinalityFacts
    <3>. HIDE DEF t
    <3>5. \A s \in Owners : channels'[s] >= Cardinality(Booked(s)')
      BY <3>2, <3>3 DEF CountInv
    <3>6. \A s \in transports' : channels'[s] = Cardinality(Mapped(s)')
      BY <3>2, <3>3 DEF CountInv, TypeOK
    <3>7. \A s \in Owners : auxiliary'[s] = Cardinality(Pinned(s)')
      BY <3>1, <3>2, <3>3, <3>4 DEF CountInv, TypeOK
    <3>. QED
      BY <3>5, <3>6, <3>7 DEF CountInv
  <2>. QED
    BY <2>1, <2>2
<1>13. ASSUME NEW u \in AuxUsers, AuxUses(u)
      PROVE  CountInv'
  <2>1. \A s \in Owners : /\ Mapped(s)' = Mapped(s) /\ Pinned(s)' = Pinned(s)
                           /\ Booked(s)' \subseteq Booked(s)
    BY <1>13 DEF AuxUses, Mapped, Booked, Pinned, Holds, pool, life, aux, stops
  <2>2. /\ channels' = channels /\ auxiliary' = auxiliary /\ transports' \subseteq transports
    BY <1>13 DEF AuxUses, pool
  <2>. QED
    BY <2>1, <2>2, CountKept
<1>14. ASSUME NEW u \in AuxUsers, AuxRelease(u)
      PROVE  CountInv'
  <2>. DEFINE t == auxTarget[u]
  <2>1. t \in Owners /\ u \in Pinned(t)
    BY <1>14 DEF AuxRelease, TargetInv, Pinned, Holds
  <2>2. /\ Cardinality(Pinned(t)) \in Nat /\ Cardinality(Pinned(t)) >= 1
        /\ Cardinality(Pinned(t) \ {u}) = Cardinality(Pinned(t)) - 1
    BY <2>1, Finite, CardinalityFacts
  <2>3. \A s \in Owners :
          /\ Mapped(s)' = Mapped(s) /\ Booked(s)' = Booked(s)
          /\ Pinned(s)' = IF s = t THEN Pinned(s) \ {u} ELSE Pinned(s)
    BY <2>1, <1>14 DEF AuxRelease, AuxIdle, Mapped, Booked, Pinned, Holds, TypeOK, life
  <2>4. /\ auxiliary' = [auxiliary EXCEPT ![t] = IF @ > 0 THEN @ - 1 ELSE 0]
        /\ channels' = channels /\ transports' \subseteq transports
    BY <1>14 DEF AuxRelease
  <2>. HIDE DEF t
  <2>5. \A s \in Owners : channels'[s] >= Cardinality(Booked(s)')
    BY <2>3, <2>4 DEF CountInv
  <2>6. \A s \in transports' : channels'[s] = Cardinality(Mapped(s)')
    BY <2>3, <2>4 DEF CountInv, TypeOK
  <2>7. ASSUME NEW s \in Owners PROVE auxiliary'[s] = Cardinality(Pinned(s)')
    <3>1. CASE s = t
      <4>1. auxiliary[t] = Cardinality(Pinned(t)) /\ Pinned(s)' = Pinned(t) \ {u}
        BY <2>1, <2>3, <3>1 DEF CountInv
      <4>2. auxiliary'[s] = auxiliary[t] - 1
        BY <2>1, <2>2, <2>4, <3>1, <4>1 DEF TypeOK
      <4>. QED
        BY <2>2, <4>1, <4>2
    <3>2. CASE s # t
      BY <2>1, <2>3, <2>4, <3>2 DEF CountInv, TypeOK
    <3>. QED
      BY <3>1, <3>2
  <2>. QED
    BY <2>5, <2>6, <2>7 DEF CountInv
<1>15. ASSUME NEW u \in AuxUsers, NEW t \in Owners, AuxFind(u, t)
      PROVE  CountInv'
  <2>1. \A s \in Owners : /\ Mapped(s)' = Mapped(s) /\ Pinned(s)' = Pinned(s)
                           /\ Booked(s)' \subseteq Booked(s)
    BY <1>15 DEF AuxFind, Mapped, Booked, Pinned, Holds, pool, life, aux, stops
  <2>2. /\ channels' = channels /\ auxiliary' = auxiliary /\ transports' \subseteq transports
    BY <1>15 DEF AuxFind, pool
  <2>. QED
    BY <2>1, <2>2, CountKept
<1>16. ASSUME NEW t \in Owners, RefreshSources(t)
      PROVE  CountInv'
  <2>1. \A s \in Owners : /\ Mapped(s)' = Mapped(s) /\ Pinned(s)' = Pinned(s)
                           /\ Booked(s)' \subseteq Booked(s)
    BY <1>16 DEF RefreshSources, Mapped, Booked, Pinned, Holds, pool, life, aux, stops
  <2>2. /\ channels' = channels /\ auxiliary' = auxiliary /\ transports' \subseteq transports
    BY <1>16 DEF RefreshSources, pool
  <2>. QED
    BY <2>1, <2>2, CountKept
<1>17. ASSUME NEW t \in Owners, StopTransport(t)
      PROVE  CountInv'
  <2>1. \A s \in Owners : /\ Mapped(s)' = Mapped(s) /\ Pinned(s)' = Pinned(s)
                           /\ Booked(s)' \subseteq Booked(s)
    BY <1>17 DEF StopTransport, Mapped, Booked, Pinned, Holds, pool, life, aux, stops
  <2>2. /\ channels' = channels /\ auxiliary' = auxiliary /\ transports' \subseteq transports
    BY <1>17 DEF StopTransport, pool
  <2>. QED
    BY <2>1, <2>2, CountKept
<1>18. CASE Shutdown
  <2>1. /\ \A s \in Owners : Pinned(s)' = Pinned(s) /\ Booked(s)' \subseteq Booked(s)
        /\ channels' = channels /\ auxiliary' = auxiliary /\ transports' = {}
    BY <1>18 DEF Shutdown, Booked, Pinned, Holds, TypeOK, life, aux
  <2>2. \A s \in Owners : /\ Cardinality(Booked(s)) \in Nat /\ Cardinality(Booked(s)') \in Nat
                          /\ Cardinality(Booked(s)') <= Cardinality(Booked(s))
    BY <2>1, Finite, CardinalitySubset
  <2>. QED
    BY <2>1, <2>2 DEF CountInv, TypeOK
<1>19. CASE UNCHANGED vars
  <2>1. \A s \in Owners : /\ Mapped(s)' = Mapped(s) /\ Pinned(s)' = Pinned(s)
                           /\ Booked(s)' \subseteq Booked(s)
    BY <1>19 DEF vars, Mapped, Booked, Pinned, Holds, pool, life, aux, stops
  <2>2. /\ channels' = channels /\ auxiliary' = auxiliary /\ transports' \subseteq transports
    BY <1>19 DEF vars, pool
  <2>. QED
    BY <2>1, <2>2, CountKept
<1>. QED
  BY <1>1, <1>2, <1>3, <1>4, <1>5, <1>6, <1>7, <1>8, <1>9, <1>10,
     <1>11, <1>12, <1>13, <1>14, <1>15, <1>16, <1>17, <1>18, <1>19
     DEF Next, Opening, Reusing, Ending, Using

\* A transport of the pool that has no channels has no instances.
LEMMA CountsNobody ==
    ASSUME CountInv, NEW t \in transports, channels[t] = 0
    PROVE  \A id \in Ids : instances[id] # t
<1>1. Cardinality(Mapped(t)) = 0
  BY DEF CountInv
<1>2. Mapped(t) = {}
  BY <1>1, Finite, CardinalityFacts
<1>. QED
  BY <1>2 DEF Mapped

\* The last channel leaves nobody behind.
LEMMA FinishShape ==
    ASSUME TypeOK, TargetInv, ShapeInv, CountInv, CountInv', NEW id \in Ids,
           FinishInstance(id), stage[id] \in {"hooked", "ended"},
           stage' = stage \/ stage' = [stage EXCEPT ![id] = "ended"],
           target' = target
    PROVE  ShapeInv'
<1>1. CASE instances[id] = None
  BY <1>1 DEF FinishInstance, ShapeInv, TypeOK, Started, Ids, pool, stops
<1>2. CASE instances[id] # None
  <2>. DEFINE t == instances[id]
           Stops == ShouldStop(t, channels'[t], auxiliary[t], ownerClosed')
  <2>1. /\ t \in Owners /\ channels[t] \in Nat /\ channels[t] >= 1
        /\ channels' = [channels EXCEPT ![t] = @ - 1]
        /\ instances' = [instances EXCEPT ![id] = None]
        /\ auxiliary' = auxiliary /\ transports' \subseteq transports
    BY <1>2, FinishCounts DEF TypeOK
  <2>2. /\ IF Stops THEN transports' = transports \ {t} /\ stopping' = stopping \union {t}
                    ELSE transports' = transports /\ stopping' = stopping
        /\ UNCHANGED <<stopped, cleared>>
    BY <1>2 DEF FinishInstance, CountDown
  <2>3. /\ t \in transports \union cleared /\ channels'[t] = channels[t] - 1
        /\ \A s \in Owners : s # t => channels'[s] = channels[s]
    BY <1>2, <2>1 DEF ShapeInv, TypeOK
  <2>4. ASSUME t \in transports, channels'[t] = 0, NEW other \in Ids, other # id
        PROVE  instances[other] # t
    <3>1. Cardinality(Mapped(t)) = 1
      BY <2>1, <2>3, <2>4 DEF CountInv
    <3>2. id \in Mapped(t)
      BY DEF Mapped
    <3>3. Cardinality(Mapped(t) \ {id}) = 0 /\ IsFiniteSet(Mapped(t) \ {id})
      BY <3>1, <3>2, Finite, CardinalityFacts, FS_Subset
    <3>4. Mapped(t) \ {id} = {}
      BY <3>3, CardinalityFacts
    <3>. QED
      BY <3>4, <2>4 DEF Mapped
  <2>5. Stops => channels'[t] = 0 /\ auxiliary[t] = 0
    BY DEF ShouldStop
  <2>6. \A other \in Ids : other # id => instances'[other] = instances[other]
    BY <2>1 DEF TypeOK
  <2>7. instances'[id] = None
    BY <2>1 DEF TypeOK
  <2>8. /\ \A other \in Ids : stage'[other] = stage[other] \/ (other = id /\ stage'[id] = "ended")
        /\ stage'[id] \in {"hooked", "ended"}
    <3>1. CASE stage' = stage
      BY <3>1
    <3>2. CASE stage' = [stage EXCEPT ![id] = "ended"]
      BY <3>2 DEF TypeOK
    <3>. QED
      BY <3>1, <3>2
  <2>. HIDE DEF t, Stops
  <2>9. \A other \in Ids : instances'[other] # None =>
          /\ instances'[other] = target'[other] /\ stage'[other] \in {"creating", "live", "hooked"}
          /\ instances'[other] \in transports' \union cleared'
    BY <2>2, <2>4, <2>5, <2>6, <2>7, <2>8 DEF ShapeInv
  <2>10. \A other \in Ids : stage'[other] \in {"creating", "live"} /\ target'[other] \notin cleared' =>
          instances'[other] = target'[other]
    BY <2>2, <2>6, <2>8 DEF ShapeInv
  <2>11. \A s \in transports' :
          /\ stage'[s] \in Started \union {"creating"}
          /\ s \notin cleared' \union stopping' \union stopped'
    BY <2>1, <2>2, <2>8 DEF ShapeInv, Started, TypeOK, Ids
  <2>12. \A s \in cleared' \union stopping' \union stopped' : stage'[s] # "fresh"
    <3>1. stage[t] # "fresh"
      BY <2>1, <2>3 DEF ShapeInv, Started, TypeOK
    <3>. QED
      BY <2>1, <2>2, <2>8, <3>1 DEF ShapeInv, TypeOK, Ids
  <2>13. \A s \in Owners : stage'[s] \in Started /\ s \notin transports' \union cleared' =>
          channels'[s] = 0 /\ auxiliary'[s] = 0
    BY <2>1, <2>2, <2>3, <2>5, <2>8 DEF ShapeInv, Started, Ids
  <2>. QED
    BY <2>9, <2>10, <2>11, <2>12, <2>13 DEF ShapeInv
<1>. QED
  BY <1>1, <1>2

\* The pool keeps its shape.
LEMMA ShapeNext ==
    TypeOK /\ TargetInv /\ ShapeInv /\ CountInv /\ CountInv' /\ [Next]_vars => ShapeInv'
<1>. SUFFICES ASSUME TypeOK, TargetInv, ShapeInv, CountInv, CountInv', [Next]_vars
              PROVE  ShapeInv'
  OBVIOUS
<1>. USE KindAssumption
<1>1. ASSUME NEW id \in Ids, CreateOwner(id)
      PROVE  ShapeInv'
  BY <1>1 DEF CreateOwner, SetStage, ShapeInv, TargetInv, TypeOK, Started, Stages, Ids, pool, life, aux, stops
<1>2. ASSUME NEW id \in Ids, CreateOwnerFails(id)
      PROVE  ShapeInv'
  <2>1. \A other \in Ids \ {id} : instances[other] # id
    BY <1>2 DEF CreateOwnerFails, ShapeInv, TargetInv, TypeOK, Started, Ids
  <2>. QED
    BY <2>1, <1>2 DEF CreateOwnerFails, SetStage, ShapeInv, TargetInv, TypeOK, Started, Stages, Ids, pool, life, aux, stops
<1>3. ASSUME NEW id \in Ids, CreateReturns(id)
      PROVE  ShapeInv'
  BY <1>3 DEF CreateReturns, SetStage, ShapeInv, TargetInv, TypeOK, Started, Stages, Ids, pool, life, aux, stops
<1>4. ASSUME NEW id \in Ids, ReuseRefused(id)
      PROVE  ShapeInv'
  BY <1>4 DEF ReuseRefused, Refuse, SetStage, ShapeInv, TargetInv, TypeOK, Started, Stages, Ids, pool, life, aux, stops
<1>5. ASSUME NEW id \in Ids, ReuseChecked(id)
      PROVE  ShapeInv'
  BY <1>5 DEF ReuseChecked, SetStage, ShapeInv, TargetInv, TypeOK, Started, Stages, Ids, pool, life, aux, stops
<1>6. ASSUME NEW id \in Ids, ReuseReserve(id)
      PROVE  ShapeInv'
  <2>1. CASE ~AcceptsReuse(target[id])
    BY <2>1, <1>6 DEF ReuseReserve, Refuse, SetStage, ShapeInv, TargetInv, TypeOK, Started, Ids, aux, stops
  <2>2. CASE AcceptsReuse(target[id])
    <3>1. /\ target[id] \in transports \union cleared /\ id \notin Owners
          /\ target[id] \in Owners
      BY <2>2, <1>6 DEF ReuseReserve, AcceptsReuse, ShapeInv, TargetInv, TypeOK
    <3>2. \A t \in Owners : channels'[t] = 0 <=> channels[t] = 0
      BY <3>1, <2>2, <1>6 DEF ReuseReserve, AcceptsReuse, TypeOK
    <3>. QED
      BY <3>1, <3>2, <2>2, <1>6 DEF ReuseReserve, SetStage, ShapeInv, TargetInv, TypeOK, Started, Ids, aux, stops
  <2>. QED
    BY <2>1, <2>2
<1>7. ASSUME NEW id \in Ids, ReuseFails(id)
      PROVE  ShapeInv'
  BY <1>7 DEF ReuseFails, SetStage, ShapeInv, TargetInv, TypeOK, Started, Stages, Ids, pool, life, aux, stops
<1>8. ASSUME NEW id \in Ids, Exits(id)
      PROVE  ShapeInv'
  BY <1>8 DEF Exits, SetStage, ShapeInv, TargetInv, TypeOK, Started, Stages, Ids, pool, life, aux, stops
<1>9. ASSUME NEW id \in Ids, HookFinishes(id)
      PROVE  ShapeInv'
  BY <1>9, FinishShape DEF HookFinishes, SetStage, aux
<1>10. ASSUME NEW id \in Ids, DeleteFinishes(id)
      PROVE  ShapeInv'
  BY <1>10, FinishShape DEF DeleteFinishes, aux, life
<1>11. ASSUME NEW id \in Ids, NEW from \in Ids, ReuseLookup(id, from)
      PROVE  ShapeInv'
  BY <1>11 DEF ReuseLookup, SetStage, ShapeInv, TargetInv, TypeOK, Started, Stages, Ids, pool, life, aux, stops
<1>12. ASSUME NEW u \in AuxUsers, AuxReserve(u)
      PROVE  ShapeInv'
  <2>1. auxTarget[u] \in Owners
    BY <1>12 DEF AuxReserve, TargetInv
  <2>. QED
    BY <2>1, <1>12 DEF AuxReserve, AuxIdle, AcceptsAuxiliary, ShapeInv, TypeOK, life, stops
<1>13. ASSUME NEW u \in AuxUsers, AuxUses(u)
      PROVE  ShapeInv'
  BY <1>13 DEF AuxUses, ShapeInv, TargetInv, TypeOK, Started, Stages, Ids, pool, life, aux, stops
<1>14. ASSUME NEW u \in AuxUsers, AuxRelease(u)
      PROVE  ShapeInv'
  <2>. DEFINE t == auxTarget[u]
  <2>1. t \in Owners
    BY <1>14 DEF AuxRelease, TargetInv
  <2>2. t \in transports /\ channels[t] = 0 => \A id \in Ids : instances[id] # t
    BY <2>1, CountsNobody
  <2>3. /\ auxiliary' = [auxiliary EXCEPT ![t] = IF @ > 0 THEN @ - 1 ELSE 0]
        /\ IF ShouldStop(t, channels[t], auxiliary'[t], ownerClosed) /\ t \in transports
             THEN transports' = transports \ {t} /\ stopping' = stopping \union {t}
             ELSE UNCHANGED <<transports, stopping>>
        /\ UNCHANGED <<instances, channels, life, stopped, cleared>>
    BY <1>14 DEF AuxRelease
  <2>4. \A s \in Owners : auxiliary[s] = 0 => auxiliary'[s] = 0
    BY <2>1, <2>3 DEF TypeOK
  <2>. HIDE DEF t
  <2>. QED
    BY <2>1, <2>2, <2>3, <2>4 DEF ShouldStop, ShapeInv, TypeOK, Started, Ids, life
<1>15. ASSUME NEW u \in AuxUsers, NEW t \in Owners, AuxFind(u, t)
      PROVE  ShapeInv'
  BY <1>15 DEF AuxFind, ShapeInv, TargetInv, TypeOK, Started, Stages, Ids, pool, life, aux, stops
<1>16. ASSUME NEW t \in Owners, RefreshSources(t)
      PROVE  ShapeInv'
  BY <1>16 DEF RefreshSources, ShapeInv, TargetInv, TypeOK, Started, Stages, Ids, pool, life, aux, stops
<1>17. ASSUME NEW t \in Owners, StopTransport(t)
      PROVE  ShapeInv'
  BY <1>17 DEF StopTransport, ShapeInv, TargetInv, TypeOK, Started, Stages, Ids, pool, life, aux, stops
<1>18. CASE Shutdown
  BY <1>18 DEF Shutdown, ShapeInv, TargetInv, TypeOK, Started, Stages, Ids, pool, life, aux, stops
<1>19. CASE UNCHANGED vars
  BY <1>19 DEF vars, stops, ShapeInv, TargetInv, TypeOK, Started, Stages, Ids, pool, life, aux, stops
<1>. QED
  BY <1>1, <1>2, <1>3, <1>4, <1>5, <1>6, <1>7, <1>8, <1>9, <1>10,
     <1>11, <1>12, <1>13, <1>14, <1>15, <1>16, <1>17, <1>18, <1>19
     DEF Next, Opening, Reusing, Ending, Using

-----------------------------------------------------------------------------
(* The inductive invariant and what follows from it                        *)

\* A pool that was never used.
LEMMA InitInv == Init => IInv
<1>. SUFFICES ASSUME Init PROVE IInv
  OBVIOUS
<1>. USE KindAssumption
<1>1. TypeOK
  BY DEF Init, TypeOK, Stages, AuxStages, Ids
<1>2. TargetInv /\ ShapeInv
  BY DEF Init, TargetInv, ShapeInv, Started, Ids
<1>3. \A t \in Owners : Mapped(t) = {} /\ Booked(t) = {} /\ Pinned(t) = {}
  BY DEF Init, Mapped, Booked, Pinned, Holds, Ids
<1>4. Cardinality({}) = 0
  BY FS_EmptySet
<1>5. CountInv
  BY <1>3, <1>4, SMTT(30) DEF Init, CountInv
<1>. QED
  BY <1>1, <1>2, <1>5 DEF IInv

\* Every action keeps the four parts together.
LEMMA NextInv == IInv /\ [Next]_vars => IInv'
  BY TypeNext, TargetNext, CountNext, ShapeNext DEF IInv

\* The invariant holds in every reachable state.
LEMMA AlwaysInv == Spec => []IInv
  BY InitInv, NextInv, PTL DEF Spec

\* Every variable stays in its range.
THEOREM TypeCorrect == Spec => []TypeOK
<1>1. IInv => TypeOK
  BY DEF IInv
<1>. QED
  BY <1>1, AlwaysInv, PTL

\* The counters are the number of users, whatever interleaves.
THEOREM CountsAreExact == Spec => []CountsExact
<1>1. IInv => CountsExact
  BY DEF IInv, CountInv, CountsExact, Mapped, Pinned
<1>. QED
  BY <1>1, AlwaysInv, PTL

\* An instance that lives, or is being created, keeps its transport.
THEOREM InstanceKeepsTransport == Spec => []KeepsTransport
<1>1. IInv => KeepsTransport
  BY KindAssumption DEF IInv, TypeOK, TargetInv, ShapeInv, KeepsTransport, Ids
<1>. QED
  BY <1>1, AlwaysInv, PTL

\* A reserved auxiliary channel keeps the directory of its transport.
THEOREM ReservationPins == Spec => []PinHolds
<1>1. ASSUME IInv, NEW u \in AuxUsers, NEW t \in Owners, Holds(u, t), t \notin cleared
      PROVE  t \notin stopping \union stopped
  <2>1. stage[t] \in Started
    BY <1>1 DEF IInv, TargetInv, Holds
  <2>2. auxiliary[t] # 0
    <3>1. u \in Pinned(t)
      BY <1>1 DEF Pinned
    <3>2. Cardinality(Pinned(t)) >= 1 /\ Cardinality(Pinned(t)) \in Nat
      BY <3>1, Finite, CardinalityFacts
    <3>3. auxiliary[t] = Cardinality(Pinned(t))
      BY <1>1 DEF IInv, CountInv
    <3>. QED
      BY <3>2, <3>3
  <2>3. t \in transports
    BY <1>1, <2>1, <2>2 DEF IInv, ShapeInv
  <2>. QED
    BY <1>1, <2>3 DEF IInv, ShapeInv
<1>2. IInv => PinHolds
  BY <1>1 DEF PinHolds
<1>. QED
  BY <1>2, AlwaysInv, PTL

\* Nobody loses the control master he uses (KeepsTransport and PinHolds together).
THEOREM UsersKeepTransport == Spec => []TransportStays
<1>1. KeepsTransport /\ PinHolds => TransportStays
  BY DEF TransportStays
<1>. QED
  BY <1>1, InstanceKeepsTransport, ReservationPins, PTL

-----------------------------------------------------------------------------
(* The pool implements SharedMaster                                        *)

\* The users of a transport are the instances mapped to it and its auxiliary users.
LEMMA UsersAre ==
    \A t : UsersOf(t) = Mapped(t) \union Pinned(t) /\ UsersOf(t)' = Mapped(t)' \union Pinned(t)'
  BY DEF UsersOf, Mapped, Pinned

\* A transport that has channels has users.
LEMMA CountsSomebody ==
    ASSUME CountInv, NEW t \in transports, channels[t] > 0
    PROVE  UsersOf(t) # {}
<1>1. Cardinality(Mapped(t)) # 0
  BY DEF CountInv
<1>2. Mapped(t) # {}
  BY <1>1, FS_EmptySet
<1>. QED
  BY <1>2, UsersAre

\* A transport that has no auxiliary channels has no auxiliary users.
LEMMA CountsNoPin ==
    ASSUME CountInv', NEW t \in Owners, auxiliary'[t] = 0
    PROVE  Pinned(t)' = {}
<1>1. Cardinality(Pinned(t)') = 0
  BY DEF CountInv
<1>2. IsFiniteSet(Pinned(t)')
  <2>1. Pinned(t)' \in SUBSET AuxUsers
    BY DEF Pinned
  <2>. QED
    BY <2>1, Finite, FS_Subset
<1>. QED
  BY <1>1, <1>2, CardinalityFacts

\* What leaves the transports of the pool and their users alone.
LEMMA MasterStutters ==
    ASSUME transports' = transports,
           \A s \in Owners : /\ s \in transports => UsersOf(s)' = UsersOf(s)
                             /\ stage'[s] = "fresh" <=> stage[s] = "fresh"
    PROVE  UNCHANGED <<MasterState, MasterUsers>>
<1>1. MasterState' = MasterState
  BY DEF MasterState
<1>2. MasterUsers' = MasterUsers
  BY DEF MasterUsers
<1>. QED
  BY <1>1, <1>2

\* A new user of a transport that is in use.
LEMMA MasterJoins ==
    ASSUME NEW t \in Owners, t \in transports, transports' = transports, UsersOf(t) # {},
           NEW u \in Ids \union AuxUsers, ShapeInv,
           \A s \in Owners :
               /\ UsersOf(s)' = IF s = t THEN UsersOf(s) \union {u} ELSE UsersOf(s)
               /\ stage'[s] = "fresh" <=> stage[s] = "fresh"
    PROVE  Master!Next
<1>1. MasterState' = MasterState
  BY DEF MasterState
<1>2. MasterState[t] = "open"
  BY DEF MasterState, ShapeInv, Started
<1>3. MasterUsers' = [MasterUsers EXCEPT ![t] = @ \union {u}] /\ MasterUsers[t] # {}
  BY DEF MasterUsers
<1>. QED
  BY <1>1, <1>2, <1>3 DEF Master!Next, Master!Join

\* A user leaves, and the last one may close the transport.
LEMMA MasterLeaves ==
    ASSUME NEW t \in Owners, t \in transports, NEW u \in UsersOf(t), ShapeInv,
           \A s \in Owners :
               /\ s # t => UsersOf(s)' = UsersOf(s)
               /\ stage'[s] = "fresh" <=> stage[s] = "fresh",
           UsersOf(t)' = UsersOf(t) \ {u},
           transports' = transports \/ (transports' = transports \ {t} /\ UsersOf(t)' = {})
    PROVE  Master!Next
<1>1. MasterState[t] = "open"
  BY DEF MasterState, ShapeInv, Started
<1>2. u \in MasterUsers[t]
  BY DEF MasterUsers
<1>3. MasterUsers' = [MasterUsers EXCEPT ![t] = @ \ {u}]
  BY DEF MasterUsers
<1>4. \/ MasterState' = MasterState
      \/ MasterUsers'[t] = {} /\ MasterState' = [MasterState EXCEPT ![t] = "closed"]
  <2>1. CASE transports' = transports
    BY <2>1 DEF MasterState
  <2>2. CASE transports' = transports \ {t} /\ UsersOf(t)' = {}
    <3>1. MasterUsers'[t] = {}
      BY <2>2 DEF MasterUsers
    <3>2. stage'[t] # "fresh" /\ t \notin transports'
      BY <2>2 DEF ShapeInv, Started
    <3>3. \A s \in Owners : s # t => (s \in transports' <=> s \in transports)
      BY <2>2
    <3>4. MasterState' = [MasterState EXCEPT ![t] = "closed"]
      BY <3>2, <3>3 DEF MasterState
    <3>. QED
      BY <3>1, <3>4
  <2>. QED
    BY <2>1, <2>2
<1>. QED
  BY <1>1, <1>2, <1>3, <1>4 DEF Master!Next, Master!Leave

\* finishInstance is a user that leaves, or nothing.
LEMMA FinishLeaves ==
    ASSUME IInv, IInv', NEW id \in Ids, FinishInstance(id), stage[id] \in {"hooked", "ended"},
           stage' = stage \/ stage' = [stage EXCEPT ![id] = "ended"],
           auxStage' = auxStage, auxTarget' = auxTarget
    PROVE  [Master!Next]_<<MasterState, MasterUsers>>
<1>. USE DEF IInv
<1>1. \A s \in Owners : stage'[s] = "fresh" <=> stage[s] = "fresh"
  BY DEF TypeOK, Ids
<1>2. CASE instances[id] = None
  <2>1. instances' = instances /\ transports' = transports
    BY <1>2 DEF FinishInstance, pool
  <2>2. \A s \in Owners : UsersOf(s)' = UsersOf(s)
    BY <2>1 DEF UsersOf, Holds
  <2>. QED
    BY <1>1, <2>1, <2>2, MasterStutters
<1>3. CASE instances[id] # None
  <2>. PICK t \in Owners : t = instances[id]
    BY <1>3, FinishCounts
  <2>1. /\ instances' = [instances EXCEPT ![id] = None]
        /\ auxiliary' = auxiliary
    BY <1>3, FinishCounts
  <2>2. \/ transports' = transports
        \/ /\ transports' = transports \ {t}
           /\ channels'[t] = 0 /\ auxiliary'[t] = 0
    BY <1>3, <2>1 DEF FinishInstance, CountDown, ShouldStop
  <2>3. \A s \in Owners : UsersOf(s)' = IF s = t THEN UsersOf(s) \ {id} ELSE UsersOf(s)
    BY <2>1, KindAssumption DEF UsersOf, Holds, TypeOK, Ids
  <2>4. id \in UsersOf(t)
    BY DEF UsersOf
  <2>5. ASSUME channels'[t] = 0, t \in transports PROVE Mapped(t)' = {}
    <3>1. channels[t] >= 1 /\ channels' = [channels EXCEPT ![t] = @ - 1] /\ id \in Mapped(t)
      BY <1>3, FinishCounts
    <3>2. channels[t] \in Nat /\ channels[t] = Cardinality(Mapped(t))
      BY <2>1, <2>5 DEF CountInv, TypeOK
    <3>3. Cardinality(Mapped(t)) = 1
      BY <2>1, <2>5, <3>1, <3>2 DEF TypeOK
    <3>4. Cardinality(Mapped(t) \ {id}) = 0 /\ IsFiniteSet(Mapped(t) \ {id})
      BY <3>1, <3>3, Finite, CardinalityFacts, FS_Subset
    <3>5. Mapped(t) \ {id} = {}
      BY <3>4, CardinalityFacts
    <3>6. Mapped(t)' = Mapped(t) \ {id}
      BY <2>1, KindAssumption DEF Mapped, TypeOK
    <3>. QED
      BY <3>5, <3>6
  <2>6. CASE t \notin transports
    BY <1>1, <2>1, <2>2, <2>3, <2>6, MasterStutters
  <2>7. CASE t \in transports /\ transports' = transports
    BY <1>1, <2>1, <2>3, <2>4, <2>7, MasterLeaves
  <2>8. CASE t \in transports /\ transports' # transports
    <3>1. transports' = transports \ {t} /\ channels'[t] = 0 /\ auxiliary'[t] = 0
      BY <2>2, <2>8
    <3>2. UsersOf(t)' = {}
      BY <2>1, <2>5, <2>8, <3>1, CountsNoPin, UsersAre
    <3>. QED
      BY <1>1, <2>1, <2>3, <2>4, <2>8, <3>1, <3>2, MasterLeaves
  <2>. QED
    BY <2>6, <2>7, <2>8
<1>. QED
  BY <1>2, <1>3

\* Every step of the pool is a step of the shared master, or none.
LEMMA MasterNext ==
    IInv /\ IInv' /\ [Next]_vars => [Master!Next]_<<MasterState, MasterUsers>>
<1>. SUFFICES ASSUME IInv, IInv', [Next]_vars
              PROVE  [Master!Next]_<<MasterState, MasterUsers>>
  OBVIOUS
<1>. USE KindAssumption DEF IInv
<1>1. ASSUME NEW id \in Ids, CreateOwner(id)
      PROVE  [Master!Next]_<<MasterState, MasterUsers>>
  <2>1. /\ id \in Owners /\ stage[id] = "fresh" /\ stage'[id] # "fresh"
        /\ id \notin transports /\ transports' = transports \union {id}
        /\ \A s \in Owners : s # id => stage'[s] = stage[s]
    BY <1>1 DEF CreateOwner, SetStage, ShapeInv, TypeOK, Started, Ids
  <2>2. UsersOf(id)' = {id} /\ \A s \in Owners : s # id => UsersOf(s)' = UsersOf(s)
    BY <1>1 DEF CreateOwner, UsersOf, Holds, TargetInv, ShapeInv, TypeOK, Started, Ids, aux
  <2>3. MasterState[id] = "absent"
    BY <2>1 DEF MasterState
  <2>4. MasterState' = [MasterState EXCEPT ![id] = "open"]
    BY <2>1 DEF MasterState
  <2>5. MasterUsers' = [MasterUsers EXCEPT ![id] = {id}]
    BY <2>1, <2>2 DEF MasterUsers
  <2>. QED
    BY <2>1, <2>3, <2>4, <2>5 DEF Master!Next, Master!Open
<1>2. ASSUME NEW id \in Ids, CreateOwnerFails(id)
      PROVE  [Master!Next]_<<MasterState, MasterUsers>>
  <2>1. /\ id \in Owners /\ transports' = transports \ {id}
        /\ \A s \in Owners : stage'[s] = "fresh" <=> stage[s] = "fresh"
    <3>1. /\ id \in Owners /\ transports' = transports \ {id}
          /\ stage[id] = "creating" /\ stage' = [stage EXCEPT ![id] = "failed"]
      BY <1>2 DEF CreateOwnerFails, SetStage
    <3>. QED
      BY <3>1 DEF TypeOK, Ids
  <2>2. \A s \in Owners : s # id => UsersOf(s)' = UsersOf(s)
    BY <1>2 DEF CreateOwnerFails, UsersOf, Holds, TargetInv, ShapeInv, TypeOK, Ids, aux
  <2>3. CASE id \notin transports
    BY <2>1, <2>2, <2>3, MasterStutters
  <2>4. CASE id \in transports
    <3>1. id \in UsersOf(id) /\ UsersOf(id)' = UsersOf(id) \ {id} /\ UsersOf(id)' = {}
      BY <2>4, <1>2 DEF CreateOwnerFails, UsersOf, Holds, TargetInv, ShapeInv, TypeOK, Started, Ids, aux
    <3>. QED
      BY <2>1, <2>2, <2>4, <3>1, MasterLeaves
  <2>. QED
    BY <2>3, <2>4
<1>3. ASSUME NEW id \in Ids, CreateReturns(id)
      PROVE  [Master!Next]_<<MasterState, MasterUsers>>
  <2>1. \A s \in Owners : UsersOf(s)' = UsersOf(s) /\ (stage'[s] = "fresh" <=> stage[s] = "fresh")
    BY <1>3 DEF CreateReturns, SetStage, UsersOf, Holds, TargetInv, TypeOK, Ids, pool, life, aux, stops
  <2>2. transports' = transports
    BY <1>3 DEF CreateReturns, SetStage, pool, life, aux, stops
  <2>. QED
    BY <2>1, <2>2, MasterStutters
<1>4. ASSUME NEW id \in Ids, ReuseRefused(id)
      PROVE  [Master!Next]_<<MasterState, MasterUsers>>
  <2>1. \A s \in Owners : UsersOf(s)' = UsersOf(s) /\ (stage'[s] = "fresh" <=> stage[s] = "fresh")
    BY <1>4 DEF ReuseRefused, Refuse, SetStage, UsersOf, Holds, TargetInv, TypeOK, Ids, pool, life, aux, stops
  <2>2. transports' = transports
    BY <1>4 DEF ReuseRefused, Refuse, SetStage, pool, life, aux, stops
  <2>. QED
    BY <2>1, <2>2, MasterStutters
<1>5. ASSUME NEW id \in Ids, ReuseChecked(id)
      PROVE  [Master!Next]_<<MasterState, MasterUsers>>
  <2>1. \A s \in Owners : UsersOf(s)' = UsersOf(s) /\ (stage'[s] = "fresh" <=> stage[s] = "fresh")
    BY <1>5 DEF ReuseChecked, SetStage, UsersOf, Holds, TargetInv, TypeOK, Ids, pool, life, aux, stops
  <2>2. transports' = transports
    BY <1>5 DEF ReuseChecked, SetStage, pool, life, aux, stops
  <2>. QED
    BY <2>1, <2>2, MasterStutters
<1>6. ASSUME NEW id \in Ids, ReuseReserve(id)
      PROVE  [Master!Next]_<<MasterState, MasterUsers>>
  <2>. DEFINE t == target[id]
  <2>1. /\ t \in Owners /\ id \in Derived /\ transports' = transports
        /\ \A s \in Owners : stage'[s] = "fresh" <=> stage[s] = "fresh"
    BY <1>6 DEF ReuseReserve, Refuse, SetStage, TargetInv, TypeOK, Ids
  <2>2. CASE ~AcceptsReuse(t)
    <3>1. \A s \in Owners : UsersOf(s)' = UsersOf(s)
      BY <2>2, <1>6 DEF ReuseReserve, UsersOf, Holds, aux
    <3>. QED
      BY <2>1, <3>1, MasterStutters
  <2>3. CASE AcceptsReuse(t)
    <3>1. \A s \in Owners : UsersOf(s)' = IF s = t THEN UsersOf(s) \union {id} ELSE UsersOf(s)
      BY <2>1, <2>3, <1>6 DEF ReuseReserve, UsersOf, Holds, ShapeInv, TypeOK, aux
    <3>2. t \in transports => channels[t] > 0
      BY <2>3 DEF AcceptsReuse
    <3>. HIDE DEF t
    <3>3. CASE t \notin transports
      BY <2>1, <3>1, <3>3, MasterStutters
    <3>4. CASE t \in transports
      <4>1. UsersOf(t) # {}
        BY <2>1, <3>2, <3>4, CountsSomebody
      <4>. QED
        BY <2>1, <3>1, <3>4, <4>1, MasterJoins
    <3>. QED
      BY <3>3, <3>4
  <2>. QED
    BY <2>2, <2>3
<1>7. ASSUME NEW id \in Ids, ReuseFails(id)
      PROVE  [Master!Next]_<<MasterState, MasterUsers>>
  <2>. DEFINE t == target[id]
  <2>1. /\ t \in Owners /\ transports' = transports /\ stage[t] # "fresh"
        /\ \A s \in Owners : stage'[s] = "fresh" <=> stage[s] = "fresh"
    BY <1>7 DEF ReuseFails, SetStage, TargetInv, TypeOK, Started, Ids
  <2>2. \A s \in Owners : UsersOf(s)' = IF s = t THEN UsersOf(s) \ {id} ELSE UsersOf(s)
    BY <2>1, <1>7 DEF ReuseFails, UsersOf, Holds, ShapeInv, TypeOK, Ids, aux
  <2>3. t \in transports => id \in UsersOf(t)
    BY <2>1, <1>7 DEF ReuseFails, UsersOf, ShapeInv
  <2>. HIDE DEF t
  <2>4. CASE t \notin transports
    BY <2>1, <2>2, <2>4, MasterStutters
  <2>5. CASE t \in transports
    BY <2>1, <2>2, <2>3, <2>5, MasterLeaves
  <2>. QED
    BY <2>4, <2>5
<1>8. ASSUME NEW id \in Ids, Exits(id)
      PROVE  [Master!Next]_<<MasterState, MasterUsers>>
  <2>1. \A s \in Owners : UsersOf(s)' = UsersOf(s) /\ (stage'[s] = "fresh" <=> stage[s] = "fresh")
    BY <1>8 DEF Exits, SetStage, UsersOf, Holds, TargetInv, TypeOK, Ids, pool, life, aux, stops
  <2>2. transports' = transports
    BY <1>8 DEF Exits, SetStage, pool, life, aux, stops
  <2>. QED
    BY <2>1, <2>2, MasterStutters
<1>9. ASSUME NEW id \in Ids, HookFinishes(id)
      PROVE  [Master!Next]_<<MasterState, MasterUsers>>
  BY <1>9, FinishLeaves DEF HookFinishes, SetStage, aux
<1>10. ASSUME NEW id \in Ids, DeleteFinishes(id)
      PROVE  [Master!Next]_<<MasterState, MasterUsers>>
  BY <1>10, FinishLeaves DEF DeleteFinishes, aux, life
<1>11. ASSUME NEW id \in Ids, NEW from \in Ids, ReuseLookup(id, from)
      PROVE  [Master!Next]_<<MasterState, MasterUsers>>
  <2>1. \A s \in Owners : UsersOf(s)' = UsersOf(s) /\ (stage'[s] = "fresh" <=> stage[s] = "fresh")
    BY <1>11 DEF ReuseLookup, SetStage, UsersOf, Holds, TargetInv, TypeOK, Ids, pool, life, aux, stops
  <2>2. transports' = transports
    BY <1>11 DEF ReuseLookup, SetStage, pool, life, aux, stops
  <2>. QED
    BY <2>1, <2>2, MasterStutters
<1>12. ASSUME NEW u \in AuxUsers, AuxReserve(u)
      PROVE  [Master!Next]_<<MasterState, MasterUsers>>
  <2>. DEFINE t == auxTarget[u]
  <2>1. t \in Owners /\ stage' = stage /\ transports' = transports
    BY <1>12 DEF AuxReserve, TargetInv, life
  <2>2. CASE ~AcceptsAuxiliary(t)
    <3>1. \A s \in Owners : UsersOf(s)' = UsersOf(s)
      BY <2>2, <1>12 DEF AuxReserve, AuxIdle, UsersOf, Holds, TypeOK
    <3>. QED
      BY <2>1, <3>1, MasterStutters
  <2>3. CASE AcceptsAuxiliary(t)
    <3>1. \A s \in Owners : UsersOf(s)' = IF s = t THEN UsersOf(s) \union {u} ELSE UsersOf(s)
      BY <2>1, <2>3, <1>12 DEF AuxReserve, UsersOf, Holds, TypeOK
    <3>2. t \in transports /\ channels[t] > 0
      BY <2>3 DEF AcceptsAuxiliary
    <3>. HIDE DEF t
    <3>3. UsersOf(t) # {}
      BY <2>1, <3>2, CountsSomebody
    <3>. QED
      BY <2>1, <3>1, <3>2, <3>3, MasterJoins
  <2>. QED
    BY <2>2, <2>3
<1>13. ASSUME NEW u \in AuxUsers, AuxUses(u)
      PROVE  [Master!Next]_<<MasterState, MasterUsers>>
  <2>1. \A s \in Owners : UsersOf(s)' = UsersOf(s) /\ (stage'[s] = "fresh" <=> stage[s] = "fresh")
    BY <1>13 DEF AuxUses, UsersOf, Holds, TargetInv, TypeOK, Ids, pool, life, aux, stops
  <2>2. transports' = transports
    BY <1>13 DEF AuxUses, pool, life, aux, stops
  <2>. QED
    BY <2>1, <2>2, MasterStutters
<1>14. ASSUME NEW u \in AuxUsers, AuxRelease(u)
      PROVE  [Master!Next]_<<MasterState, MasterUsers>>
  <2>. PICK t \in Owners : t = auxTarget[u]
    BY <1>14 DEF AuxRelease, TargetInv
  <2>1. u \in Pinned(t) /\ stage' = stage
    BY <1>14 DEF AuxRelease, TargetInv, Pinned, Holds, Started, life
  <2>2. \A s \in Owners : UsersOf(s)' = IF s = t THEN UsersOf(s) \ {u} ELSE UsersOf(s)
    BY <2>1, <1>14 DEF AuxRelease, AuxIdle, UsersOf, Holds, TypeOK, Ids
  <2>3. /\ auxiliary' = [auxiliary EXCEPT ![t] = IF @ > 0 THEN @ - 1 ELSE 0]
        /\ \/ transports' = transports
           \/ /\ transports' = transports \ {t} /\ t \in transports
              /\ channels[t] = 0 /\ auxiliary'[t] = 0
    BY <1>14 DEF AuxRelease, ShouldStop
  <2>4. u \in UsersOf(t)
    BY <2>1 DEF UsersOf, Pinned
  <2>5. CASE t \notin transports
    BY <2>1, <2>2, <2>3, <2>5, MasterStutters
  <2>6. CASE t \in transports /\ transports' = transports
    BY <2>1, <2>2, <2>4, <2>6, MasterLeaves
  <2>7. CASE t \in transports /\ transports' # transports
    <3>1. channels[t] = 0 /\ auxiliary'[t] = 0 /\ transports' = transports \ {t}
      BY <2>3, <2>7
    <3>2. \A id \in Ids : instances[id] # t
      BY <2>7, <3>1, CountsNobody
    <3>3. Pinned(t)' = {}
      BY <2>1, <3>1, CountsNoPin
    <3>4. UsersOf(t)' = {}
      <4>1. instances' = instances
        BY <1>14 DEF AuxRelease
      <4>. QED
        BY <3>2, <3>3, <4>1, UsersAre DEF Mapped
    <3>. QED
      BY <2>1, <2>2, <2>4, <2>7, <3>1, <3>4, MasterLeaves
  <2>. QED
    BY <2>5, <2>6, <2>7
<1>15. ASSUME NEW u \in AuxUsers, NEW t \in Owners, AuxFind(u, t)
      PROVE  [Master!Next]_<<MasterState, MasterUsers>>
  <2>1. \A s \in Owners : UsersOf(s)' = UsersOf(s) /\ (stage'[s] = "fresh" <=> stage[s] = "fresh")
    BY <1>15 DEF AuxFind, UsersOf, Holds, TargetInv, TypeOK, Ids, pool, life, aux, stops
  <2>2. transports' = transports
    BY <1>15 DEF AuxFind, pool, life, aux, stops
  <2>. QED
    BY <2>1, <2>2, MasterStutters
<1>16. ASSUME NEW t \in Owners, RefreshSources(t)
      PROVE  [Master!Next]_<<MasterState, MasterUsers>>
  <2>1. \A s \in Owners : UsersOf(s)' = UsersOf(s) /\ (stage'[s] = "fresh" <=> stage[s] = "fresh")
    BY <1>16 DEF RefreshSources, UsersOf, Holds, TargetInv, TypeOK, Ids, pool, life, aux, stops
  <2>2. transports' = transports
    BY <1>16 DEF RefreshSources, pool, life, aux, stops
  <2>. QED
    BY <2>1, <2>2, MasterStutters
<1>17. ASSUME NEW t \in Owners, StopTransport(t)
      PROVE  [Master!Next]_<<MasterState, MasterUsers>>
  <2>1. \A s \in Owners : UsersOf(s)' = UsersOf(s) /\ (stage'[s] = "fresh" <=> stage[s] = "fresh")
    BY <1>17 DEF StopTransport, UsersOf, Holds, TargetInv, TypeOK, Ids, pool, life, aux, stops
  <2>2. transports' = transports
    BY <1>17 DEF StopTransport, pool, life, aux, stops
  <2>. QED
    BY <2>1, <2>2, MasterStutters
<1>18. CASE Shutdown
  <2>1. \A s \in transports : stage[s] # "fresh"
    BY DEF ShapeInv, Started
  <2>2. transports' = {} /\ stage' = stage
    BY <1>18 DEF Shutdown, life
  <2>3. MasterState' = [m \in Owners |-> IF MasterState[m] = "open" THEN "closed" ELSE MasterState[m]]
    BY <2>1, <2>2 DEF MasterState
  <2>4. MasterUsers' = [m \in Owners |-> {}]
    BY <2>2 DEF MasterUsers
  <2>. QED
    BY <2>3, <2>4 DEF Master!Next, Master!Shutdown
<1>19. CASE UNCHANGED vars
  <2>1. \A s \in Owners : UsersOf(s)' = UsersOf(s) /\ (stage'[s] = "fresh" <=> stage[s] = "fresh")
    BY <1>19 DEF vars, UsersOf, Holds, TargetInv, TypeOK, Ids, pool, life, aux, stops
  <2>2. transports' = transports
    BY <1>19 DEF vars, pool, life, aux, stops
  <2>. QED
    BY <2>1, <2>2, MasterStutters
<1>. QED
  BY <1>1, <1>2, <1>3, <1>4, <1>5, <1>6, <1>7, <1>8, <1>9, <1>10,
     <1>11, <1>12, <1>13, <1>14, <1>15, <1>16, <1>17, <1>18, <1>19
     DEF Next, Opening, Reusing, Ending, Using

\* The pool opens a control master once, shares it, and closes it for good after
\* its last user, or in Shutdown.
THEOREM PoolSharesMaster == Spec => SharesMaster
<1>1. Init => Master!Init
  <2>. SUFFICES ASSUME Init PROVE Master!Init
    OBVIOUS
  <2>1. MasterState = [m \in Owners |-> "absent"]
    BY DEF Init, MasterState, Ids
  <2>2. MasterUsers = [m \in Owners |-> {}]
    BY DEF Init, MasterUsers
  <2>. QED
    BY <2>1, <2>2 DEF Master!Init
<1>. QED
  BY <1>1, AlwaysInv, MasterNext, PTL DEF Spec, SharesMaster, Master!Spec

-----------------------------------------------------------------------------
(* The agent on an endpoint: the invariant                                 *)

\* The types of the state, in full.
Times == {Runtime[r].created : r \in RuntimeNumbers} \union {0}
Requests == [pc : {"idle", "checked", "prepared", "joined", "created"}, prior : Components,
             created : Times, op : Ops \union {Nil}]
Operations == [status : {"unused", "running", "completed", "failed", "gone"}, pc : Phases,
               target : Targets \union {Nil}, prior : Components, component : Components]
StateFiles == [runtime : RuntimeNumbers, index : 0..MaxIndex, state : AgentStates \union {"none"}]

AgentTypes ==
    /\ record \in Records /\ disk \in Records /\ bound \subseteq Instances
    /\ request \in [Instances -> Requests]
    /\ ops \in [Ops -> Operations]
    /\ current \in Ops \union {Nil} /\ mutex \in Ops \union {Nil, Scheduler}
    /\ sync \in [pc : {"idle", "read", "accepted"}, target : Targets \union {Nil},
                 snap : Snapshots \union {Nil}, key : Keys \union {Nil}]
    /\ sync.pc # "idle" => sync.target \in Targets /\ sync.snap \in Snapshots
    /\ remote \in [Targets -> StateFiles]
    /\ \A t \in Targets : remote[t].index > 0 => remote[t].state \in AgentStates
    /\ inbox \in [log : Seq(Keys), kept : SUBSET Keys, forgotten : SUBSET Keys]
    /\ late \subseteq Targets /\ faults \in 0..MaxFaults /\ installed \in BOOLEAN
    /\ \A o \in Ops : ops[o].status # "unused" => ops[o].target \in Targets


\* An operation is at work while it may still succeed or fail, then it ends: the
\* outcome is decided under Service.mu, the targets are settled after it.
AtWork == {"queued", "working", "installing", "verified", "marked"}
AtEnd == {"completing", "failing"}
\* The request that created an operation starts its goroutine with the answer.
CreatedBy(i, o) == request[i].pc = "created" /\ request[i].op = o

\* One operation runs, and it is the current one.
OpsInv ==
    /\ \A o \in Ops : /\ ops[o].pc \in AtWork => ops[o].status = "running"
                      /\ ops[o].status = "running" => current = o
                      /\ ops[o].status = "unused" => ops[o].pc = "none"
                      /\ ops[o].status # "unused" /\ ops[o].pc = "none" => \E i \in Instances : CreatedBy(i, o)
                      /\ ops[o].pc \in {"marked", "completing"} =>
                            ops[o].component \in {"ready", "needs_trust"}
    /\ \A i \in Instances :
          request[i].pc \in {"joined", "created"} =>
             request[i].op \in Ops /\ ops[request[i].op].status # "unused"
    /\ \A i \in Instances, o \in Ops :
          CreatedBy(i, o) => /\ ops[o].pc = "none" /\ ops[o].status = "running"
                             /\ \A j \in Instances : CreatedBy(j, o) => i = j

\* Who installs does not find the component; who goes on has found or installed it;
\* neither the memory nor the disk believes in a component that is not there.
Believed(R) == \A t \in Targets : R.targets[t].component \in {"ready", "needs_trust"} => installed
InstalledInv ==
    /\ \A o \in Ops : /\ ops[o].pc = "installing" => ~installed
                      /\ ops[o].pc \in {"verified", "marked", "completing"} => installed
    /\ sync.pc # "idle" => installed
    /\ Believed(record) /\ Believed(disk)

\* A waiting target has a request on its way to an operation, or an operation that
\* will settle it.
Awaited(t) ==
    \/ \E i \in Instances : TargetOf[i] = t /\ request[i].pc \in {"prepared", "joined", "created"}
    \/ /\ record.targets[t].op \in Ops
       /\ ops[record.targets[t].op].status # "unused" /\ ops[record.targets[t].op].pc # "done"
AwaitedInv ==
    faults = 0 => \A t \in Targets \ late : record.targets[t].component = "initializing" => Awaited(t)

\* A message in the log has a key that is kept, or was forgotten by the user.
Told == inbox.kept \union inbox.forgotten
MessagesInv == (\A n \in DOMAIN inbox.log : inbox.log[n] \in Told) /\ ToldOnce

\* A record that may replace another: forward, and nothing passed over untold.
Follows(R, S) ==
    \A t \in Targets :
       LET old == R.targets[t]
           new == S.targets[t]
       IN /\ new.runtime >= old.runtime
          /\ old.runtime = new.runtime /\ new.index < old.index
               => new.index = 0 /\ new.component = "initializing"
          /\ old.runtime = new.runtime /\ old.state # "none" /\ new.state \notin {"none", old.state}
               => <<t, new.runtime, new.index>> \in Told
\* The projection is behind its session, and what it has told was stored.
Behind(R) ==
    \A t \in Targets : /\ R.targets[t].runtime <= remote[t].runtime
                       /\ R.targets[t].toldRuntime # 0 =>
                             <<t, R.targets[t].toldRuntime, R.targets[t].toldIndex>> \in Told
\* The snapshot in the scheduler's hands: newer than the projection and older than
\* the session, and told when it is accepted.
SnapInv ==
    LET t    == sync.target
        snap == sync.snap
        old  == record.targets[t]
        key  == <<t, snap.runtime, snap.index>>
    IN  /\ sync.pc # "idle" => old.runtime <= snap.runtime /\ snap.runtime <= remote[t].runtime
        /\ sync.pc = "accepted" =>
              /\ old.runtime = snap.runtime => /\ old.index <= snap.index
                                               /\ old.state \notin {"none", snap.state} => key \in Told
              /\ sync.key # Nil => sync.key = key /\ key \in Told
ProjectionInv == Behind(record) /\ Behind(disk) /\ Follows(record, disk) /\ SnapInv

AgentInv == OpsInv /\ InstalledInv /\ AwaitedInv /\ MessagesInv /\ ProjectionInv

-----------------------------------------------------------------------------
(* Records                                                                 *)

\* The values that the model's constants bring with them.
LEMMA Values ==
  ASSUME AgentBounds
  PROVE  /\ 0 \in 0..MaxIndex /\ 0 \in Times /\ 0 \in RuntimeNumbers \union {0}
         /\ \A r \in RuntimeNumbers : Runtime[r].created \in Times /\ r \in Nat \ {0}
         /\ {"none", "initializing", "needs_trust", "ready", "error"} = Components
         /\ {"none", "pending", "available", "stale", "failed"} = SyncStatus
         /\ 1 \in RuntimeNumbers /\ MaxFaults \in Nat /\ MaxIndex \in Nat
BY DEF AgentBounds, Times, RuntimeNumbers, Components, SyncStatus

\* A record with one target changed.
LEMMA SetTarget ==
  ASSUME NEW R \in Records, NEW t \in Targets, NEW v \in TargetStates, NEW S,
         S = [R EXCEPT !.targets[t] = v]
  PROVE  S \in Records /\ S.targets[t] = v /\ \A u \in Targets \ {t} : S.targets[u] = R.targets[u]
BY DEF Records

\* A record with the state of the installation changed.
LEMMA SetInstallation ==
  ASSUME NEW R \in Records, NEW c \in Components, NEW S, S = [R EXCEPT !.installation = c]
  PROVE  S \in Records /\ S.targets = R.targets
BY DEF Records

\* What an update may leave behind.
LEMMA Updates ==
  ASSUME AgentBounds, faults \in 0..MaxFaults, NEW new
  PROVE  /\ Saved(new) => record' = new /\ disk' = new /\ faults' = faults
         /\ Unsaved(new) => record' = record /\ disk' \in {disk, new} /\ faults' \in 1..MaxFaults
         /\ Update(new) => /\ faults' \in 0..MaxFaults /\ disk' \in {disk, new}
                           /\ \/ record' = new /\ disk' = new /\ faults' = faults
                              \/ record' = record /\ faults' # 0
<1>1. MaxFaults \in Nat
  BY DEF AgentBounds
<1>. QED
  BY <1>1 DEF Saved, Unsaved, Update

\* What Prepare writes: the target is started over, its runtime is kept.
LEMMA RecordOfPrepare ==
  ASSUME AgentBounds, AgentTypes, NEW i \in Instances
  PROVE  /\ PreparedRecord(i) \in Records /\ TargetOf[i] \in Targets
         /\ LET old == record.targets[TargetOf[i]]
                new == PreparedRecord(i).targets[TargetOf[i]]
            IN  /\ new.component = "initializing" /\ new.state = "none" /\ new.index = 0
                /\ new.op = old.op /\ new.runtime = old.runtime
                /\ new.toldRuntime = old.toldRuntime /\ new.toldIndex = old.toldIndex
         /\ \A u \in Targets \ {TargetOf[i]} : PreparedRecord(i).targets[u] = record.targets[u]
<1>1. PICK t : t = TargetOf[i]
  OBVIOUS
<1>2. t \in Targets /\ record.targets[t] \in TargetStates /\ record \in Records
  BY <1>1 DEF AgentBounds, AgentTypes, Records
<1>3. PICK v : v = [record.targets[t] EXCEPT !.component = "initializing", !.state = "none",
                !.index = 0, !.created = request[i].created, !.sync = "pending"]
  OBVIOUS
<1>4. request[i].created \in Times
  BY DEF AgentTypes, Requests
<1>5. /\ v \in TargetStates
      /\ v.component = "initializing" /\ v.state = "none" /\ v.index = 0
      /\ v.op = record.targets[t].op /\ v.runtime = record.targets[t].runtime
      /\ v.toldRuntime = record.targets[t].toldRuntime /\ v.toldIndex = record.targets[t].toldIndex
  BY <1>2, <1>3, <1>4, Values DEF TargetStates, Times
<1>6. PICK R : R = [record EXCEPT !.targets[t] = v]
  OBVIOUS
<1>7. R \in Records /\ R.targets[t] = v /\ \A u \in Targets \ {t} : R.targets[u] = record.targets[u]
  BY <1>2, <1>5, <1>6, SetTarget
<1>8. PreparedRecord(i) = [R EXCEPT !.installation = "initializing"] /\ "initializing" \in Components
  BY <1>1, <1>3, <1>6, Values DEF PreparedRecord, Set
<1>9. PreparedRecord(i) \in Records /\ PreparedRecord(i).targets = R.targets
  BY <1>7, <1>8, SetInstallation
<1>. QED
  BY <1>1, <1>2, <1>5, <1>7, <1>9

\* The targets a step may change in a way that matters to others.
Recolored(R, t) ==
    /\ R \in Records
    /\ \A u \in Targets : /\ R.targets[u].state = record.targets[u].state
                          /\ R.targets[u].index = record.targets[u].index
                          /\ R.targets[u].runtime = record.targets[u].runtime
                          /\ R.targets[u].toldRuntime = record.targets[u].toldRuntime
                          /\ R.targets[u].toldIndex = record.targets[u].toldIndex
    /\ \A u \in Targets \ {t} : R.targets[u] = record.targets[u]

\* What AnswerRequest writes: the target waits for the operation.
LEMMA RecordOfAnswer ==
  ASSUME AgentBounds, AgentTypes, NEW t \in Targets, NEW o \in Ops
  PROVE  LET new == Set(t, [record.targets[t] EXCEPT !.op = o, !.component = "initializing"])
         IN  Recolored(new, t) /\ new.targets[t].op = o /\ new.targets[t].component = "initializing"
<1>2. record.targets[t] \in TargetStates /\ record \in Records
  BY DEF AgentTypes, Records
<1>3. PICK v : v = [record.targets[t] EXCEPT !.op = o, !.component = "initializing"]
  OBVIOUS
<1>5. /\ v \in TargetStates /\ v.op = o /\ v.component = "initializing"
      /\ v.state = record.targets[t].state /\ v.index = record.targets[t].index
      /\ v.runtime = record.targets[t].runtime
      /\ v.toldRuntime = record.targets[t].toldRuntime /\ v.toldIndex = record.targets[t].toldIndex
  BY <1>2, <1>3, Values DEF TargetStates
<1>6. PICK R : R = [record EXCEPT !.targets[t] = v]
  OBVIOUS
<1>7. R \in Records /\ R.targets[t] = v /\ \A u \in Targets \ {t} : R.targets[u] = record.targets[u]
  BY <1>2, <1>5, <1>6, SetTarget
<1>8. Set(t, v) = R
  BY <1>6 DEF Set
<1>. QED
  BY <1>3, <1>5, <1>7, <1>8 DEF Recolored

\* What a failed, a stale and a repeated snapshot write.
LEMMA RecordOfSync ==
  ASSUME AgentBounds, AgentTypes, NEW t \in Targets, NEW s \in {"failed", "stale", "available"}
  PROVE  LET new == Set(t, [record.targets[t] EXCEPT !.sync = s])
         IN  /\ Recolored(new, t) /\ new.targets[t].op = record.targets[t].op
             /\ new.targets[t].component = record.targets[t].component
<1>2. record.targets[t] \in TargetStates /\ record \in Records
  BY DEF AgentTypes, Records
<1>3. PICK v : v = [record.targets[t] EXCEPT !.sync = s]
  OBVIOUS
<1>5. /\ v \in TargetStates /\ v.op = record.targets[t].op /\ v.component = record.targets[t].component
      /\ v.state = record.targets[t].state /\ v.index = record.targets[t].index
      /\ v.runtime = record.targets[t].runtime
      /\ v.toldRuntime = record.targets[t].toldRuntime /\ v.toldIndex = record.targets[t].toldIndex
  BY <1>2, <1>3, Values DEF TargetStates
<1>6. PICK R : R = [record EXCEPT !.targets[t] = v]
  OBVIOUS
<1>7. R \in Records /\ R.targets[t] = v /\ \A u \in Targets \ {t} : R.targets[u] = record.targets[u]
  BY <1>2, <1>5, <1>6, SetTarget
<1>8. Set(t, v) = R
  BY <1>6 DEF Set
<1>. QED
  BY <1>3, <1>5, <1>7, <1>8 DEF Recolored

\* What MarkTargetComponent writes.
LEMMA RecordOfMark ==
  ASSUME AgentBounds, AgentTypes, NEW o \in Ops, ops[o].target \in Targets, NEW c \in Components
  PROVE  /\ Recolored(MarkedRecord(o, c), ops[o].target)
         /\ MarkedRecord(o, c).targets[ops[o].target].op = record.targets[ops[o].target].op
         /\ MarkedRecord(o, c).targets[ops[o].target].component = c
<1>1. PICK t : t = ops[o].target
  OBVIOUS
<1>2. t \in Targets /\ record.targets[t] \in TargetStates /\ record \in Records
  BY <1>1 DEF AgentTypes, Records
<1>3. PICK v : v = [record.targets[t] EXCEPT !.component = c]
  OBVIOUS
<1>5. /\ v \in TargetStates /\ v.op = record.targets[t].op /\ v.component = c
      /\ v.state = record.targets[t].state /\ v.index = record.targets[t].index
      /\ v.runtime = record.targets[t].runtime
      /\ v.toldRuntime = record.targets[t].toldRuntime /\ v.toldIndex = record.targets[t].toldIndex
  BY <1>2, <1>3 DEF TargetStates
<1>6. PICK R : R = [record EXCEPT !.targets[t] = v]
  OBVIOUS
<1>7. R \in Records /\ R.targets[t] = v /\ \A u \in Targets \ {t} : R.targets[u] = record.targets[u]
  BY <1>2, <1>5, <1>6, SetTarget
<1>8. MarkedRecord(o, c) = [R EXCEPT !.installation = c]
  BY <1>1, <1>3, <1>6 DEF MarkedRecord, Set
<1>9. MarkedRecord(o, c) \in Records /\ MarkedRecord(o, c).targets = R.targets
  BY <1>7, <1>8, SetInstallation
<1>. QED
  BY <1>1, <1>5, <1>7, <1>9 DEF Recolored

\* What an ending operation does to the targets it touches, and to no other.
LEMMA TargetsOfSettle ==
  ASSUME AgentBounds, AgentTypes, NEW o \in Ops, NEW c \in Components, NEW R,
         R.targets = Settled(o, c), R \in [installation : Components, targets : {Settled(o, c)}]
  PROVE  /\ R \in Records
         /\ \A u \in Targets : /\ R.targets[u].state = record.targets[u].state
                               /\ R.targets[u].index = record.targets[u].index
                               /\ R.targets[u].runtime = record.targets[u].runtime
                               /\ R.targets[u].toldRuntime = record.targets[u].toldRuntime
                               /\ R.targets[u].toldIndex = record.targets[u].toldIndex
         /\ \A u \in Targets \ Touched(o) : R.targets[u] = record.targets[u]
         /\ \A u \in Touched(o) : /\ R.targets[u].op = Nil
                                  /\ R.targets[u].component \in {"ready", c}
                                  /\ R.targets[u].component = "ready" \/ record.targets[u].component # "ready"
                                  /\ R.targets[u].component = "ready" /\ c # "ready" => record.targets[u].component = "ready"
<1>1. ASSUME NEW u \in Targets
      PROVE  /\ Settled(o, c)[u] \in TargetStates
             /\ Settled(o, c)[u].state = record.targets[u].state
             /\ Settled(o, c)[u].index = record.targets[u].index
             /\ Settled(o, c)[u].runtime = record.targets[u].runtime
             /\ Settled(o, c)[u].toldRuntime = record.targets[u].toldRuntime
             /\ Settled(o, c)[u].toldIndex = record.targets[u].toldIndex
             /\ u \notin Touched(o) => Settled(o, c)[u] = record.targets[u]
             /\ u \in Touched(o) => /\ Settled(o, c)[u].op = Nil
                                    /\ Settled(o, c)[u].component \in {"ready", c}
                                    /\ Settled(o, c)[u].component = "ready" \/ record.targets[u].component # "ready"
                                    /\ Settled(o, c)[u].component = "ready" /\ c # "ready" => record.targets[u].component = "ready"
  <2>1. record.targets[u] \in TargetStates
    BY DEF AgentTypes, Records
  <2>2. CASE u \notin Touched(o)
    BY <2>1, <2>2 DEF Settled
  <2>3. CASE u \in Touched(o)
    <3>1. PICK v : v = Settled(o, c)[u]
      OBVIOUS
    <3>2. v = [record.targets[u] EXCEPT !.component = IF @ = "ready" THEN @ ELSE c, !.op = Nil]
      BY <2>3, <3>1 DEF Settled
    <3>3. v \in TargetStates /\ v.op = Nil
          /\ v.component = IF record.targets[u].component = "ready" THEN "ready" ELSE c
      BY <2>1, <3>2 DEF TargetStates
    <3>4. /\ v.state = record.targets[u].state /\ v.index = record.targets[u].index
          /\ v.runtime = record.targets[u].runtime
          /\ v.toldRuntime = record.targets[u].toldRuntime /\ v.toldIndex = record.targets[u].toldIndex
      BY <2>1, <3>2 DEF TargetStates
    <3>. QED
      BY <2>3, <3>1, <3>3, <3>4
  <2>. QED
    BY <2>2, <2>3
<1>2. Settled(o, c) \in [Targets -> TargetStates]
  <2>1. DOMAIN Settled(o, c) = Targets /\ Settled(o, c) = [t \in Targets |-> Settled(o, c)[t]]
    BY DEF Settled
  <2>. QED
    BY <1>1, <2>1
<1>3. R \in Records
  BY <1>2 DEF Records
<1>4. Touched(o) \subseteq Targets
  BY DEF Touched
<1>. QED
  BY <1>1, <1>3, <1>4

\* The record that an ending operation writes, on success and on failure.
LEMMA RecordOfSettle ==
  ASSUME AgentBounds, AgentTypes, NEW o \in Ops, NEW c \in Components, NEW R,
         \/ R = [record EXCEPT !.targets = Settled(o, c)]
         \/ R = [installation |-> IF AnyReady(o) THEN record.installation ELSE "error",
                 targets |-> Settled(o, c)]
  PROVE  R.targets = Settled(o, c) /\ R \in [installation : Components, targets : {Settled(o, c)}]
<1>1. record.installation \in Components /\ "error" \in Components
  BY Values DEF AgentTypes, Records
<1>2. PICK f : f = Settled(o, c)
  OBVIOUS
<1>3. CASE R = [record EXCEPT !.targets = f]
  BY <1>1, <1>2, <1>3 DEF AgentTypes, Records
<1>4. CASE R = [installation |-> IF AnyReady(o) THEN record.installation ELSE "error", targets |-> f]
  BY <1>1, <1>2, <1>4
<1>. QED
  BY <1>2, <1>3, <1>4

\* The record that ProjectSnapshot writes.
Projected ==
    [Set(sync.target, [record.targets[sync.target] EXCEPT
            !.component = "ready", !.state = sync.snap.state, !.index = sync.snap.index,
            !.runtime = sync.snap.runtime, !.created = Runtime[sync.snap.runtime].created,
            !.toldRuntime = IF sync.key # Nil THEN sync.snap.runtime ELSE @,
            !.toldIndex = IF sync.key # Nil THEN sync.snap.index ELSE @,
            !.sync = "available"])
        EXCEPT !.installation = IF @ \in {"none", "initializing"} THEN "ready" ELSE @]

\* What ProjectSnapshot writes: the target becomes what the snapshot says.
LEMMA RecordOfProject ==
  ASSUME AgentBounds, AgentTypes, sync.pc = "accepted"
  PROVE  /\ Projected \in Records
         /\ \A u \in Targets \ {sync.target} : Projected.targets[u] = record.targets[u]
         /\ LET new == Projected.targets[sync.target]
            IN  /\ new.component = "ready" /\ new.state = sync.snap.state
                /\ new.index = sync.snap.index /\ new.runtime = sync.snap.runtime
                /\ new.toldRuntime = IF sync.key # Nil THEN sync.snap.runtime
                                     ELSE record.targets[sync.target].toldRuntime
                /\ new.toldIndex = IF sync.key # Nil THEN sync.snap.index
                                   ELSE record.targets[sync.target].toldIndex
<1>1. PICK t, snap, told : t = sync.target /\ snap = sync.snap /\ told = (sync.key # Nil)
  OBVIOUS
<1>2. /\ t \in Targets /\ snap \in Snapshots /\ record.targets[t] \in TargetStates /\ record \in Records
      /\ told \in BOOLEAN
  BY <1>1 DEF AgentTypes, Records
<1>3. /\ snap.runtime \in RuntimeNumbers /\ snap.index \in 0..MaxIndex /\ snap.state \in AgentStates
      /\ Runtime[snap.runtime].created \in Times
  <2>1. /\ snap.runtime \in RuntimeNumbers /\ snap.index \in 1..MaxIndex /\ snap.state \in AgentStates
    BY <1>2 DEF Snapshots
  <2>. QED
    BY <2>1, Values DEF AgentBounds
<1>4. PICK v : v = [record.targets[t] EXCEPT
            !.component = "ready", !.state = snap.state, !.index = snap.index,
            !.runtime = snap.runtime, !.created = Runtime[snap.runtime].created,
            !.toldRuntime = IF told THEN snap.runtime ELSE @,
            !.toldIndex = IF told THEN snap.index ELSE @, !.sync = "available"]
  OBVIOUS
<1>5. /\ v.component = "ready" /\ v.state = snap.state /\ v.index = snap.index /\ v.runtime = snap.runtime
      /\ v.toldRuntime = IF told THEN snap.runtime ELSE record.targets[t].toldRuntime
      /\ v.toldIndex = IF told THEN snap.index ELSE record.targets[t].toldIndex
  BY <1>2, <1>4 DEF TargetStates
<1>6. v \in TargetStates
  <2>1. PICK told1, told2 : /\ told1 = (IF told THEN snap.runtime ELSE record.targets[t].toldRuntime)
                            /\ told2 = (IF told THEN snap.index ELSE record.targets[t].toldIndex)
    OBVIOUS
  <2>2. told1 \in RuntimeNumbers \union {0} /\ told2 \in 0..MaxIndex
    BY <1>2, <1>3, <2>1 DEF TargetStates
  <2>3. v = [record.targets[t] EXCEPT
            !.component = "ready", !.state = snap.state, !.index = snap.index,
            !.runtime = snap.runtime, !.created = Runtime[snap.runtime].created,
            !.toldRuntime = told1, !.toldIndex = told2, !.sync = "available"]
    BY <1>2, <1>4, <2>1 DEF TargetStates
  <2>4. "ready" \in Components /\ "available" \in SyncStatus
    BY Values
  <2>5. /\ snap.state \in AgentStates \union {"none"} /\ snap.runtime \in RuntimeNumbers \union {0}
        /\ Runtime[snap.runtime].created \in {Runtime[r].created : r \in RuntimeNumbers} \union {0}
    BY <1>3
  <2>. QED
    BY <1>2, <1>3, <2>2, <2>3, <2>4, <2>5 DEF TargetStates
<1>7. PICK R : R = [record EXCEPT !.targets[t] = v]
  OBVIOUS
<1>8. R \in Records /\ R.targets[t] = v /\ \A u \in Targets \ {t} : R.targets[u] = record.targets[u]
  BY <1>2, <1>6, <1>7, SetTarget
<1>9. PICK c : c = IF R.installation \in {"none", "initializing"} THEN "ready" ELSE R.installation
  OBVIOUS
<1>10. c \in Components
  BY <1>8, <1>9, Values DEF Records
<1>11. Projected = [R EXCEPT !.installation = c]
  BY <1>1, <1>4, <1>7, <1>8, <1>9 DEF Projected, Set, Records
<1>12. Projected \in Records /\ Projected.targets = R.targets
  BY <1>8, <1>10, <1>11, SetInstallation
<1>. QED
  BY <1>1, <1>2, <1>5, <1>8, <1>12

-----------------------------------------------------------------------------
(* Types                                                                   *)

\* The next operation is one that has not been used.
LEMMA FirstOf ==
  ASSUME NEW S \in SUBSET Nat, S # {}
  PROVE  \E x \in S : \A y \in S : x <= y
<1>. DEFINE Less == OpToRel(<, Nat)
<1>1. IsWellFoundedOn(Less, Nat)
  BY NatLessThanWellFounded
<1>2. ASSUME NEW x \in Nat, NEW y \in Nat, <<y, x>> \notin Less PROVE x <= y
  <2>1. ~(y < x)
    BY <1>2 DEF OpToRel
  <2>. QED
    BY <2>1
<1>. HIDE DEF Less
<1>3. PICK x \in S : \A y \in S : ~(<<y, x>> \in Less)
  BY <1>1, WFMin
<1>. QED
  BY <1>2, <1>3

\* NextOp, a CHOOSE, finds an unused operation while there is one.
LEMMA NextIsUnused ==
  ASSUME AgentBounds, \E o \in Ops : ops[o].status = "unused"
  PROVE  NextOp \in Ops /\ ops[NextOp].status = "unused"
<1>1. PICK S : S = {o \in Ops : ops[o].status = "unused"}
  OBVIOUS
<1>2. S # {} /\ S \subseteq Nat
  BY <1>1 DEF AgentBounds
<1>3. PICK o \in S : \A p \in S : o <= p
  BY <1>2, FirstOf
<1>5. \E p \in Ops : /\ ops[p].status = "unused"
                     /\ \A q \in Ops : ops[q].status = "unused" => p <= q
  BY <1>1, <1>3
<1>. QED
  BY <1>5 DEF NextOp

\* What moves: each action on one operation, spelled out.
OpMoves(o, status, pc, component) ==
    /\ ops' \in [Ops -> Operations]
    /\ \A p \in Ops \ {o} : ops'[p] = ops[p]
    /\ ops'[o].status = status /\ ops'[o].pc = pc /\ ops'[o].component = component
    /\ ops'[o].target = ops[o].target
OpEnds(o, status, pc) ==
    /\ OpMoves(o, IF ops[o].status = "running" THEN status ELSE ops[o].status, pc, ops[o].component)
    /\ current' = IF current = o THEN Nil ELSE current

\* Ends, spelled out.
LEMMA EndsMoves ==
  ASSUME AgentTypes, NEW o \in Ops, NEW status \in {"completed", "failed"}, NEW pc \in Phases,
         Ends(o, status, pc)
  PROVE  OpEnds(o, status, pc)
<1>1. PICK s : s = IF ops[o].status = "running" THEN status ELSE ops[o].status
  OBVIOUS
<1>2. s \in {"unused", "running", "completed", "failed", "gone"}
  BY <1>1 DEF AgentTypes, Operations
<1>3. ops' = [ops EXCEPT ![o].status = s, ![o].pc = pc]
  BY <1>1 DEF Ends, AgentTypes, Operations
<1>4. ops' \in [Ops -> Operations]
  <2>1. PICK w : w = [ops[o] EXCEPT !.status = s, !.pc = pc]
    OBVIOUS
  <2>2. w \in Operations
    <3>1. ops[o] \in Operations
      BY DEF AgentTypes
    <3>. QED
      BY <1>2, <2>1, <3>1 DEF Operations
  <2>3. ops' = [ops EXCEPT ![o] = w]
    BY <1>3, <2>1 DEF AgentTypes
  <2>. QED
    BY <2>2, <2>3 DEF AgentTypes
<1>5. /\ \A p \in Ops \ {o} : ops'[p] = ops[p]
      /\ ops'[o].status = s /\ ops'[o].pc = pc /\ ops'[o].component = ops[o].component
      /\ ops'[o].target = ops[o].target
  BY <1>3 DEF AgentTypes, Operations
<1>. QED
  BY <1>1, <1>4, <1>5 DEF OpEnds, OpMoves, Ends

\* A step of an operation that goes on, spelled out.
LEMMA GoesMoves ==
  ASSUME AgentTypes, NEW o \in Ops, NEW pc \in Phases, NEW c \in Components,
         \/ ops' = [ops EXCEPT ![o].pc = pc] /\ c = ops[o].component
         \/ ops' = [ops EXCEPT ![o].pc = pc, ![o].component = c]
  PROVE  OpMoves(o, ops[o].status, pc, c)
<1>1. ops' \in [Ops -> Operations]
  <2>1. PICK w : w = [ops[o] EXCEPT !.pc = pc, !.component = c]
    OBVIOUS
  <2>2. w \in Operations
    <3>1. ops[o] \in Operations
      BY DEF AgentTypes
    <3>. QED
      BY <2>1, <3>1 DEF Operations
  <2>3. ops' = [ops EXCEPT ![o] = w]
    <3>1. CASE ops' = [ops EXCEPT ![o].pc = pc] /\ c = ops[o].component
      BY <2>1, <3>1 DEF AgentTypes, Operations
    <3>2. CASE ops' = [ops EXCEPT ![o].pc = pc, ![o].component = c]
      BY <2>1, <3>2 DEF AgentTypes
    <3>. QED
      BY <3>1, <3>2
  <2>. QED
    BY <2>2, <2>3 DEF AgentTypes
<1>2. /\ \A p \in Ops \ {o} : ops'[p] = ops[p]
      /\ ops'[o].status = ops[o].status /\ ops'[o].pc = pc /\ ops'[o].component = c
      /\ ops'[o].target = ops[o].target
  BY DEF AgentTypes, Operations
<1>. QED
  BY <1>1, <1>2 DEF OpMoves

\* A request that got its operation is one.
LEMMA SetRequest ==
  ASSUME AgentTypes, NEW i \in Instances, NEW pc \in {"joined", "created"}, NEW o \in Ops,
         request' = [request EXCEPT ![i].pc = pc, ![i].op = o]
  PROVE  request' \in [Instances -> Requests]
<1>1. request[i] \in Requests /\ request \in [Instances -> Requests]
  BY DEF AgentTypes
<1>2. PICK w : w = [request[i] EXCEPT !.pc = pc, !.op = o]
  OBVIOUS
<1>3. w \in Requests
  BY <1>1, <1>2 DEF Requests
<1>4. request' = [request EXCEPT ![i] = w]
  BY <1>1, <1>2
<1>. QED
  BY <1>1, <1>3, <1>4

\* Requests and operations move; the projection and what it is read from do not.
LEMMA RequestTypes ==
  ASSUME AgentBounds, AgentTypes, NEW i \in Instances,
         Begin(i) \/ Prepare(i) \/ JoinOrStart(i) \/ AnswerRequest(i)
  PROVE  AgentTypes'
<1>. USE DEF AgentTypes
<1>1. CASE Begin(i)
  <2>1. TargetOf[i] \in Targets /\ record.installation \in Components
    BY DEF AgentBounds, Records
  <2>2. Runtime[remote[TargetOf[i]].runtime].created \in Times
    BY <2>1, Values DEF StateFiles
  <2>3. PICK q : q = [pc |-> "checked", created |-> Runtime[remote[TargetOf[i]].runtime].created, op |-> Nil,
          prior |-> IF record.targets[TargetOf[i]].component = "ready" THEN "ready" ELSE record.installation]
    OBVIOUS
  <2>4. q \in Requests
    BY <2>1, <2>2, <2>3, Values DEF Requests
  <2>5. request' = [request EXCEPT ![i] = q]
    BY <1>1, <2>3 DEF Begin
  <2>6. request' \in [Instances -> Requests]
    BY <2>4, <2>5
  <2>. QED
    BY <1>1, <2>6 DEF Begin
<1>2. CASE Prepare(i)
  <2>1. PreparedRecord(i) \in Records /\ TargetOf[i] \in Targets
    BY RecordOfPrepare
  <2>2. record' \in Records /\ disk' \in Records /\ faults' \in 0..MaxFaults
    <3>1. PICK R : R = PreparedRecord(i)
      OBVIOUS
    <3>2. Saved(R) \/ Unsaved(R)
      BY <1>2, <3>1 DEF Prepare
    <3>3. Update(R) /\ R \in Records
      BY <2>1, <3>1, <3>2 DEF Update
    <3>. QED
      BY <3>3, Updates
  <2>3. request' \in [Instances -> Requests]
    <3>1. Idle \in Requests
      BY Values DEF Idle, Requests
    <3>2. CASE request' = [request EXCEPT ![i] = Idle]
      BY <3>1, <3>2
    <3>3. CASE request' = [request EXCEPT ![i].pc = "prepared"]
      <4>1. PICK w : w = [request[i] EXCEPT !.pc = "prepared"]
        OBVIOUS
      <4>2. request[i] \in Requests
        OBVIOUS
      <4>3. w \in Requests
        BY <4>1, <4>2 DEF Requests
      <4>4. request' = [request EXCEPT ![i] = w]
        BY <3>3, <4>1
      <4>. QED
        BY <4>3, <4>4
    <3>. QED
      BY <1>2, <3>2, <3>3 DEF Prepare
  <2>. QED
    BY <1>2, <2>2, <2>3 DEF Prepare
<1>3. CASE JoinOrStart(i)
  <2>1. CASE OperationRuns
    <3>1. current \in Ops
      BY <2>1 DEF OperationRuns
    <3>2. request' = [request EXCEPT ![i].pc = "joined", ![i].op = current]
      BY <1>3, <2>1 DEF JoinOrStart
    <3>3. request' \in [Instances -> Requests]
      BY <3>1, <3>2, SetRequest
    <3>. QED
      BY <1>3, <2>1, <3>3 DEF JoinOrStart
  <2>2. CASE ~OperationRuns
    <3>1. PICK n : n = NextOp
      OBVIOUS
    <3>2. n \in Ops
      BY <1>3, <2>2, <3>1, NextIsUnused DEF JoinOrStart
    <3>3. request' = [request EXCEPT ![i].pc = "created", ![i].op = n] /\ current' = n
      BY <1>3, <2>2, <3>1 DEF JoinOrStart, Start
    <3>4. request' \in [Instances -> Requests]
      BY <3>2, <3>3, SetRequest
    <3>5. PICK w : w = [Unused EXCEPT !.status = "running", !.target = TargetOf[i], !.prior = request[i].prior]
      OBVIOUS
    <3>6. w \in Operations /\ w.target \in Targets
      <4>1. TargetOf[i] \in Targets /\ request[i].prior \in Components /\ "none" \in Components
        BY Values DEF AgentBounds, Requests
      <4>. QED
        BY <3>5, <4>1 DEF Unused, Operations, Phases
    <3>7. ops' = [ops EXCEPT ![n] = w]
      BY <1>3, <2>2, <3>1, <3>5 DEF JoinOrStart, Start
    <3>. QED
      BY <1>3, <2>2, <3>2, <3>3, <3>4, <3>6, <3>7 DEF JoinOrStart, Start
  <2>. QED
    BY <2>1, <2>2
<1>4. CASE AnswerRequest(i)
  <2>1. TargetOf[i] \in Targets
    BY DEF AgentBounds
  <2>2. PICK o, R : o = request[i].op
                    /\ R = Set(TargetOf[i], [record.targets[TargetOf[i]] EXCEPT !.op = request[i].op,
                                                                               !.component = "initializing"])
    OBVIOUS
  <2>3. Update(R) /\ request' = [request EXCEPT ![i] = Idle]
    BY <1>4, <2>2 DEF AnswerRequest
  <2>4. o \in Ops \union {Nil}
    BY <2>2 DEF Requests
  <2>5. R \in Records
    <3>1. record.targets[TargetOf[i]] \in TargetStates
      BY <2>1 DEF Records
    <3>2. PICK v : v = [record.targets[TargetOf[i]] EXCEPT !.op = o, !.component = "initializing"]
      OBVIOUS
    <3>3. v \in TargetStates
      BY <2>4, <3>1, <3>2, Values DEF TargetStates
    <3>. QED
      BY <2>1, <2>2, <3>2, <3>3, SetTarget DEF Set
  <2>6. record' \in Records /\ disk' \in Records /\ faults' \in 0..MaxFaults
    BY <2>3, <2>5, Updates
  <2>7. request' \in [Instances -> Requests]
    <3>1. Idle \in Requests
      BY Values DEF Idle, Requests
    <3>. QED
      BY <2>3, <3>1
  <2>8. /\ ops' \in [Ops -> Operations]
        /\ \A p \in Ops : ops'[p].status = ops[p].status /\ ops'[p].target = ops[p].target
    <3>1. CASE ops' = ops
      BY <3>1
    <3>2. CASE ops' = [ops EXCEPT ![o].pc = "queued"]
      <4>1. CASE o \in Ops
        <5>1. OpMoves(o, ops[o].status, "queued", ops[o].component)
          BY <3>2, <4>1, GoesMoves DEF Phases, Operations
        <5>. QED
          BY <5>1 DEF OpMoves
      <4>2. CASE o \notin Ops
        BY <3>2, <4>2
      <4>. QED
        BY <4>1, <4>2
    <3>. QED
      BY <1>4, <2>2, <3>1, <3>2 DEF AnswerRequest
  <2>. QED
    BY <1>4, <2>1, <2>6, <2>7, <2>8 DEF AnswerRequest
<1>. QED
  BY <1>1, <1>2, <1>3, <1>4

\* Operations write the record, move themselves and hold the mutex.
LEMMA OperationTypes ==
  ASSUME AgentBounds, AgentTypes, NEW o \in Ops, ops[o].target \in Targets,
         \/ TakeMutex(o) \/ ProbeFails(o) \/ AlreadyCurrent(o) \/ AnnounceInstall(o)
         \/ InstallRemote(o) \/ InstallVerified(o) \/ CompleteInitialization(o)
         \/ SettleCompleted(o) \/ SettleFailed(o)
  PROVE  /\ AgentTypes'
         /\ UNCHANGED <<bound, request, sync, remote, inbox, late>>
<1>. USE DEF AgentTypes
<1>1. Phases = {"none", "queued", "working", "installing", "verified", "marked",
                "completing", "failing", "done"}
  BY DEF Phases
\* Every one of them moves its operation, and may end it.
<1>2. \/ \E pc \in Phases, c \in Components : OpMoves(o, ops[o].status, pc, c) /\ current' = current
      \/ \E status \in {"completed", "failed"}, pc \in Phases : OpEnds(o, status, pc)
  <2>0. ops[o].component \in Components /\ {"working", "installing", "verified", "failing", "done"} \subseteq Phases
    BY <1>1 DEF Operations
  <2>1. CASE TakeMutex(o) \/ SettleCompleted(o) \/ SettleFailed(o)
    <3>1. \/ ops' = [ops EXCEPT ![o].pc = "working"]
          \/ ops' = [ops EXCEPT ![o].pc = "done"]
      BY <2>1 DEF TakeMutex, SettleCompleted, SettleFailed
    <3>2. current' = current
      BY <2>1 DEF TakeMutex, SettleCompleted, SettleFailed
    <3>3. \/ OpMoves(o, ops[o].status, "working", ops[o].component)
          \/ OpMoves(o, ops[o].status, "done", ops[o].component)
      BY <2>0, <3>1, GoesMoves
    <3>. QED
      BY <2>0, <3>2, <3>3
  <2>2. CASE ProbeFails(o) \/ CompleteInitialization(o)
    BY <1>1, <2>2, EndsMoves DEF ProbeFails, CompleteInitialization
  <2>3. CASE AnnounceInstall(o) \/ InstallRemote(o)
    <3>1. \/ ops' = [ops EXCEPT ![o].pc = "installing"] /\ current' = current
          \/ ops' = [ops EXCEPT ![o].pc = "verified"] /\ current' = current
          \/ Ends(o, "failed", "failing")
      BY <2>3 DEF AnnounceInstall, InstallRemote
    <3>2. CASE ops' = [ops EXCEPT ![o].pc = "installing"] /\ current' = current
      <4>1. OpMoves(o, ops[o].status, "installing", ops[o].component)
        BY <2>0, <3>2, GoesMoves
      <4>. QED
        BY <2>0, <3>2, <4>1
    <3>3. CASE ops' = [ops EXCEPT ![o].pc = "verified"] /\ current' = current
      <4>1. OpMoves(o, ops[o].status, "verified", ops[o].component)
        BY <2>0, <3>3, GoesMoves
      <4>. QED
        BY <2>0, <3>3, <4>1
    <3>4. CASE Ends(o, "failed", "failing")
      <4>1. OpEnds(o, "failed", "failing")
        BY <2>0, <3>4, EndsMoves
      <4>. QED
        BY <2>0, <4>1
    <3>. QED
      BY <3>1, <3>2, <3>3, <3>4
  <2>4. CASE AlreadyCurrent(o) \/ InstallVerified(o)
    <3>1. PICK c \in Components : MarkTargetComponent(o, c)
      BY <2>4, Values DEF AlreadyCurrent, InstallVerified, Operations
    <3>. QED
      BY <1>1, <3>1, EndsMoves, GoesMoves DEF MarkTargetComponent
  <2>. QED
    BY <2>1, <2>2, <2>3, <2>4
<1>3. /\ ops' \in [Ops -> Operations] /\ current' \in Ops \union {Nil}
      /\ \A p \in Ops : ops'[p].target = ops[p].target
      /\ \A p \in Ops : ops'[p].status # "unused" => ops[p].status # "unused"
  BY <1>2 DEF OpMoves, OpEnds
<1>4. record' \in Records /\ disk' \in Records /\ faults' \in 0..MaxFaults
  <2>1. CASE TakeMutex(o) \/ ProbeFails(o) \/ InstallRemote(o) \/ CompleteInitialization(o)
    BY <2>1 DEF TakeMutex, ProbeFails, InstallRemote, CompleteInitialization
  <2>2. CASE AnnounceInstall(o)
    <3>1. PICK R : R = [record EXCEPT !.installation = "initializing"]
      OBVIOUS
    <3>2. R \in Records
      BY <3>1, Values, SetInstallation
    <3>. QED
      BY <2>2, <3>1, <3>2, Updates DEF AnnounceInstall
  <2>3. CASE AlreadyCurrent(o) \/ InstallVerified(o)
    <3>1. PICK c \in Components : MarkTargetComponent(o, c)
      BY <2>3, Values DEF AlreadyCurrent, InstallVerified, Operations
    <3>2. MarkedRecord(o, c) \in Records
      BY RecordOfMark DEF Recolored
    <3>. QED
      BY <3>1, <3>2, Updates DEF MarkTargetComponent
  <2>4. CASE SettleCompleted(o) \/ SettleFailed(o)
    <3>0. PICK c \in Components : \E R :
            /\ Update(R)
            /\ \/ R = [record EXCEPT !.targets = Settled(o, c)]
               \/ R = [installation |-> IF AnyReady(o) THEN record.installation ELSE "error",
                       targets |-> Settled(o, c)]
      BY <2>4, Values DEF SettleCompleted, SettleFailed, Operations
    <3>1. PICK R :
            /\ Update(R)
            /\ \/ R = [record EXCEPT !.targets = Settled(o, c)]
               \/ R = [installation |-> IF AnyReady(o) THEN record.installation ELSE "error",
                       targets |-> Settled(o, c)]
      BY <3>0
    <3>2. R \in Records
      BY <3>1, RecordOfSettle, TargetsOfSettle
    <3>. QED
      BY <3>1, <3>2, Updates
  <2>. QED
    BY <2>1, <2>2, <2>3, <2>4
<1>5. /\ UNCHANGED <<bound, request, sync, remote, inbox, late>>
      /\ mutex' \in {mutex, o, Nil} /\ installed' \in BOOLEAN
  BY DEF TakeMutex, ProbeFails, AlreadyCurrent, AnnounceInstall, InstallRemote, InstallVerified,
     CompleteInitialization, SettleCompleted, SettleFailed
<1>. QED
  BY <1>3, <1>4, <1>5

\* The scheduler, the remote side and the user.
LEMMA SchedulerTypes ==
  ASSUME AgentBounds, AgentTypes,
         \/ \E i \in Instances : ReadRemoteState(i) \/ RecordSyncFailure(i)
         \/ RejectSnapshot \/ JudgeSnapshot \/ ProjectSnapshot
  PROVE  AgentTypes'
<1>. USE DEF AgentTypes
<1>0. NoSync \in [pc : {"idle", "read", "accepted"}, target : Targets \union {Nil},
                  snap : Snapshots \union {Nil}, key : Keys \union {Nil}] /\ NoSync.pc = "idle"
  BY DEF NoSync
<1>1. ASSUME NEW i \in Instances, ReadRemoteState(i) PROVE AgentTypes'
  <2>1. PICK t : t = TargetOf[i]
    OBVIOUS
  <2>2. t \in Targets
    BY <2>1 DEF AgentBounds
  <2>3. remote[t] \in Snapshots
    <3>1. remote[t] \in StateFiles /\ remote[t].index > 0 /\ remote[t].state \in AgentStates
      BY <1>1, <2>1, <2>2 DEF ReadRemoteState
    <3>2. remote[t].index \in 1..MaxIndex
      BY <3>1 DEF StateFiles, AgentBounds
    <3>. QED
      BY <3>1, <3>2 DEF StateFiles, Snapshots
  <2>4. sync' = [pc |-> "read", target |-> t, snap |-> remote[t], key |-> Nil]
    BY <1>1, <2>1 DEF ReadRemoteState
  <2>5. sync' \in [pc : {"idle", "read", "accepted"}, target : Targets \union {Nil},
                   snap : Snapshots \union {Nil}, key : Keys \union {Nil}]
    BY <2>2, <2>3, <2>4
  <2>6. sync'.target \in Targets /\ sync'.snap \in Snapshots
    BY <2>2, <2>3, <2>4
  <2>. QED
    BY <1>1, <2>5, <2>6 DEF ReadRemoteState
<1>2. ASSUME NEW i \in Instances, RecordSyncFailure(i) PROVE AgentTypes'
  <2>1. PICK t \in Targets : Update(Set(t, [record.targets[t] EXCEPT !.sync = "failed"]))
    BY <1>2 DEF RecordSyncFailure, AgentBounds
  <2>2. Set(t, [record.targets[t] EXCEPT !.sync = "failed"]) \in Records
    BY RecordOfSync DEF Recolored
  <2>3. record' \in Records /\ disk' \in Records /\ faults' \in 0..MaxFaults
    BY <2>1, <2>2, Updates
  <2>. QED
    BY <1>2, <2>3 DEF RecordSyncFailure
<1>3. CASE RejectSnapshot
  <2>1. PICK t \in Targets, s \in {"stale", "available"} : Update(Set(t, [record.targets[t] EXCEPT !.sync = s]))
    BY <1>3 DEF RejectSnapshot
  <2>2. Set(t, [record.targets[t] EXCEPT !.sync = s]) \in Records
    BY RecordOfSync DEF Recolored
  <2>3. record' \in Records /\ disk' \in Records /\ faults' \in 0..MaxFaults
    BY <2>1, <2>2, Updates
  <2>. QED
    BY <1>0, <1>3, <2>3 DEF RejectSnapshot
<1>4. CASE JudgeSnapshot
  <2>1. PICK key : key = <<sync.target, sync.snap.runtime, sync.snap.index>>
    OBVIOUS
  <2>2. sync.target \in Targets /\ sync.snap \in Snapshots
    BY <1>4 DEF JudgeSnapshot
  <2>3. key \in Keys
    BY <2>1, <2>2 DEF Keys, Snapshots
  <2>4. inbox' \in [log : Seq(Keys), kept : SUBSET Keys, forgotten : SUBSET Keys]
    <3>1. inbox' = inbox \/ inbox' = Appended(key)
      BY <1>4, <2>1 DEF JudgeSnapshot
    <3>2. Appended(key) \in [log : Seq(Keys), kept : SUBSET Keys, forgotten : SUBSET Keys]
      <4>1. PICK l : l = Append(inbox.log, key)
        OBVIOUS
      <4>2. l \in Seq(Keys)
        BY <2>3, <4>1
      <4>3. PICK k : k = inbox.kept \union {key}
        OBVIOUS
      <4>4. Appended(key) = inbox \/ Appended(key) = [inbox EXCEPT !.log = l, !.kept = k]
        BY <4>1, <4>3 DEF Appended
      <4>5. k \in SUBSET Keys
        BY <2>3, <4>3
      <4>. QED
        BY <4>2, <4>4, <4>5
    <3>. QED
      BY <3>1, <3>2
  <2>5. mutex' \in Ops \union {Nil, Scheduler} /\ faults' \in 0..MaxFaults
    BY <1>4 DEF JudgeSnapshot, AgentBounds
  <2>6. /\ sync' \in [pc : {"idle", "read", "accepted"}, target : Targets \union {Nil},
                      snap : Snapshots \union {Nil}, key : Keys \union {Nil}]
        /\ sync'.pc # "idle" => sync'.target \in Targets /\ sync'.snap \in Snapshots
    <3>1. CASE sync' = NoSync
      BY <1>0, <3>1
    <3>2. CASE \E k \in Keys \union {Nil} : sync' = [sync EXCEPT !.pc = "accepted", !.key = k]
      BY <2>2, <3>2
    <3>. QED
      BY <1>4, <2>1, <2>3, <3>1, <3>2 DEF JudgeSnapshot
  <2>. QED
    BY <1>4, <2>4, <2>5, <2>6 DEF JudgeSnapshot
<1>5. CASE ProjectSnapshot
  <2>1. Update(Projected)
    BY <1>5 DEF ProjectSnapshot, Projected
  <2>2. record' \in Records /\ disk' \in Records /\ faults' \in 0..MaxFaults
    BY <1>5, <2>1, Updates, RecordOfProject DEF ProjectSnapshot
  <2>. QED
    BY <1>0, <1>5, <2>2 DEF ProjectSnapshot
<1>. QED
  BY <1>1, <1>2, <1>3, <1>4, <1>5

\* The hook, the user, pruning and restarts keep the types.
LEMMA RemoteTypes ==
  ASSUME AgentBounds, AgentTypes,
         \/ \E t \in Targets : HookReports(t) \/ RuntimeRestarts(t) \/ StateFileLost(t)
         \/ MessageDeleted \/ GetInitialization \/ Restart
  PROVE  AgentTypes'
<1>. USE DEF AgentTypes
<1>1. ASSUME NEW t \in Targets, HookReports(t) \/ RuntimeRestarts(t) \/ StateFileLost(t)
      PROVE  AgentTypes'
  <2>0. remote[t] \in StateFiles
    OBVIOUS
  <2>1. PICK f \in StateFiles : remote' = [remote EXCEPT ![t] = f] /\ (f.index > 0 => f.state \in AgentStates)
    <3>1. CASE HookReports(t)
      <4>1. PICK s \in AgentStates : remote' = [remote EXCEPT ![t].index = @ + 1, ![t].state = s]
        BY <3>1 DEF HookReports
      <4>2. PICK f : f = [remote[t] EXCEPT !.index = @ + 1, !.state = s]
        OBVIOUS
      <4>3. remote[t].index + 1 \in 0..MaxIndex
        <5>1. remote[t].index \in 0..MaxIndex
          BY <2>0 DEF StateFiles
        <5>2. remote[t].index < MaxIndex /\ MaxIndex \in Nat
          BY <3>1 DEF HookReports, AgentBounds
        <5>. QED
          BY <5>1, <5>2
      <4>4. f \in StateFiles /\ f.state = s
        BY <2>0, <4>2, <4>3 DEF StateFiles
      <4>5. remote' = [remote EXCEPT ![t] = f]
        BY <4>1, <4>2
      <4>. QED
        BY <4>4, <4>5
    <3>2. CASE RuntimeRestarts(t)
      <4>1. PICK f : f = [runtime |-> remote[t].runtime + 1, index |-> 0, state |-> "none"]
        OBVIOUS
      <4>2. f \in StateFiles /\ f.index = 0
        BY <3>2, <4>1, Values DEF RuntimeRestarts, StateFiles
      <4>3. remote' = [remote EXCEPT ![t] = f]
        BY <3>2, <4>1 DEF RuntimeRestarts
      <4>4. ~(f.index > 0)
        BY <4>2
      <4>. QED
        BY <4>2, <4>3, <4>4
    <3>3. CASE StateFileLost(t)
      <4>1. PICK f : f = [remote[t] EXCEPT !.index = 0, !.state = "none"]
        OBVIOUS
      <4>2. f \in StateFiles /\ f.index = 0
        BY <2>0, <4>1, Values DEF StateFiles
      <4>3. remote' = [remote EXCEPT ![t] = f]
        BY <3>3, <4>1 DEF StateFileLost
      <4>4. ~(f.index > 0)
        BY <4>2
      <4>. QED
        BY <4>2, <4>3, <4>4
    <3>. QED
      BY <1>1, <3>1, <3>2, <3>3
  <2>2. faults' \in 0..MaxFaults
    BY <1>1, Values DEF HookReports, RuntimeRestarts, StateFileLost
  <2>3. UNCHANGED <<record, disk, bound, request, ops, current, mutex, sync, installed, inbox, late>>
    BY <1>1 DEF HookReports, RuntimeRestarts, StateFileLost
  <2>4. remote' \in [Targets -> StateFiles] /\ \A u \in Targets : remote'[u].index > 0 => remote'[u].state \in AgentStates
    BY <2>1
  <2>. QED
    BY <2>2, <2>3, <2>4
<1>2. CASE MessageDeleted
  <2>1. faults' \in 0..MaxFaults
    <3>1. faults < MaxFaults /\ faults' = faults + 1 /\ faults \in 0..MaxFaults
      BY <1>2 DEF MessageDeleted
    <3>2. MaxFaults \in Nat
      BY Values
    <3>. HIDE DEF AgentTypes
    <3>. QED
      BY <3>1, <3>2
  <2>2. inbox' \in [log : Seq(Keys), kept : SUBSET Keys, forgotten : SUBSET Keys]
    <3>1. PICK key \in inbox.kept :
            inbox' = [inbox EXCEPT !.kept = @ \ {key}, !.forgotten = @ \union {key}]
      BY <1>2 DEF MessageDeleted
    <3>2. PICK k, f : k = inbox.kept \ {key} /\ f = inbox.forgotten \union {key}
      OBVIOUS
    <3>3. k \in SUBSET Keys /\ f \in SUBSET Keys
      BY <3>2
    <3>4. inbox' = [inbox EXCEPT !.kept = k, !.forgotten = f]
      BY <3>1, <3>2
    <3>. QED
      BY <3>3, <3>4
  <2>. QED
    BY <1>2, <2>1, <2>2 DEF MessageDeleted
<1>3. CASE GetInitialization
  <2>1. PICK gone \in SUBSET Finished : ops' = Pruned(gone)
    BY <1>3 DEF GetInitialization
  <2>2. /\ ops' \in [Ops -> Operations]
        /\ \A o \in Ops : ops'[o].target = ops[o].target
        /\ \A o \in Ops : ops'[o].status # "unused" => ops[o].status # "unused"
    <3>1. ASSUME NEW o \in Ops
          PROVE  /\ Pruned(gone)[o] \in Operations /\ Pruned(gone)[o].target = ops[o].target
                 /\ Pruned(gone)[o].status # "unused" => ops[o].status # "unused"
      <4>0. ops[o] \in Operations
        OBVIOUS
      <4>1. CASE o \in gone
        BY <4>0, <4>1 DEF Pruned, Operations, Finished
      <4>2. CASE o \notin gone
        BY <4>0, <4>2 DEF Pruned
      <4>. QED
        BY <4>1, <4>2
    <3>2. Pruned(gone) = [o \in Ops |-> Pruned(gone)[o]]
      BY DEF Pruned
    <3>. QED
      BY <2>1, <3>1, <3>2
  <2>. QED
    BY <1>3, <2>2 DEF GetInitialization
<1>4. CASE Restart
  <2>1. faults' \in 0..MaxFaults
    <3>1. faults < MaxFaults /\ faults' = faults + 1 /\ faults \in 0..MaxFaults
      BY <1>4 DEF Restart
    <3>2. MaxFaults \in Nat
      BY Values
    <3>. HIDE DEF AgentTypes
    <3>. QED
      BY <3>1, <3>2
  <2>2. request' \in [Instances -> Requests]
    <3>1. Idle \in Requests
      BY Values DEF Idle, Requests
    <3>. QED
      BY <1>4, <3>1 DEF Restart
  <2>3. /\ ops' \in [Ops -> Operations]
        /\ \A o \in Ops : ops'[o].status # "unused" => ops'[o].target \in Targets
    <3>1. ASSUME NEW o \in Ops
          PROVE  ops'[o] \in Operations /\ (ops'[o].status # "unused" => ops'[o].target \in Targets)
      <4>0. ops[o] \in Operations
        OBVIOUS
      <4>1. CASE ops[o].status = "unused"
        <5>1. ops'[o] = Unused
          BY <1>4, <4>1 DEF Restart
        <5>. QED
          BY <5>1, Values DEF Unused, Operations, Phases
      <4>2. CASE ops[o].status # "unused"
        <5>1. ops'[o] = [ops[o] EXCEPT !.status = "gone", !.pc = "done"]
          BY <1>4, <4>2 DEF Restart
        <5>. QED
          BY <4>0, <4>2, <5>1 DEF Operations, Phases
      <4>. QED
        BY <4>1, <4>2
    <3>2. DOMAIN ops' = Ops /\ ops' = [o \in Ops |-> ops'[o]]
      BY <1>4 DEF Restart
    <3>. QED
      BY <3>1, <3>2
  <2>4. NoSync \in [pc : {"idle", "read", "accepted"}, target : Targets \union {Nil},
                    snap : Snapshots \union {Nil}, key : Keys \union {Nil}] /\ NoSync.pc = "idle"
    BY DEF NoSync
  <2>. QED
    BY <1>4, <2>1, <2>2, <2>3, <2>4 DEF Restart
<1>. QED
  BY <1>1, <1>2, <1>3, <1>4

\* Every step keeps the types.
LEMMA AgentTyped ==
  ASSUME AgentBounds, AgentTypes, OpsInv, [AgentNext]_agentVars
  PROVE  AgentTypes'
<1>1. CASE UNCHANGED agentVars
  BY <1>1 DEF agentVars, AgentTypes
<1>2. ASSUME NEW o \in Ops,
         \/ TakeMutex(o) \/ ProbeFails(o) \/ AlreadyCurrent(o) \/ AnnounceInstall(o)
         \/ InstallRemote(o) \/ InstallVerified(o) \/ CompleteInitialization(o)
         \/ SettleCompleted(o) \/ SettleFailed(o)
      PROVE  AgentTypes'
  <2>1. ops[o].pc # "none"
    BY <1>2 DEF TakeMutex, ProbeFails, AlreadyCurrent, AnnounceInstall, InstallRemote, InstallVerified,
       CompleteInitialization, SettleCompleted, SettleFailed
  <2>2. ops[o].target \in Targets
    BY <2>1 DEF OpsInv, AgentTypes
  <2>. QED
    BY <1>2, <2>2, OperationTypes
<1>. QED
  BY <1>1, <1>2, RequestTypes, SchedulerTypes, RemoteTypes DEF AgentNext

-----------------------------------------------------------------------------
(* Operations                                                              *)

\* An operation that is under way goes on or ends.
LEMMA OpsMoved ==
  ASSUME AgentBounds, AgentTypes, OpsInv, NEW o \in Ops, NEW pc \in Phases \ {"none"},
         NEW c \in Components, request' = request, ops[o].pc # "none",
         pc \in {"marked", "completing"} => c \in {"ready", "needs_trust"},
         \/ /\ OpMoves(o, ops[o].status, pc, c) /\ current' = current
            /\ pc \in AtWork => ops[o].pc \in AtWork
         \/ \E status \in {"completed", "failed"} : OpEnds(o, status, pc) /\ c = ops[o].component /\ pc \in AtEnd
  PROVE  OpsInv'
<1>1. /\ ops[o].status # "unused"
      /\ \A i \in Instances : ~CreatedBy(i, o)
  BY DEF OpsInv
<1>2. /\ \A p \in Ops \ {o} : ops'[p] = ops[p]
      /\ ops'[o].pc = pc /\ ops'[o].component = c /\ ops'[o].status # "unused"
      /\ ops'[o].status = "running" => ops[o].status = "running" /\ current' = current
      /\ pc \in AtWork => ops'[o].status = ops[o].status /\ ops[o].pc \in AtWork
      /\ \A p \in Ops \ {o} : current = p => current' = p
  BY <1>1 DEF OpMoves, OpEnds, AtWork, AtEnd
<1>3. \A i \in Instances, p \in Ops : CreatedBy(i, p)' = CreatedBy(i, p)
  BY DEF CreatedBy
<1>4. ASSUME NEW p \in Ops
      PROVE  /\ ops'[p].pc \in AtWork => ops'[p].status = "running"
             /\ ops'[p].status = "running" => current' = p
             /\ ops'[p].status = "unused" => ops'[p].pc = "none"
             /\ ops'[p].status # "unused" /\ ops'[p].pc = "none" => \E i \in Instances : CreatedBy(i, p)'
             /\ ops'[p].pc \in {"marked", "completing"} => ops'[p].component \in {"ready", "needs_trust"}
  BY <1>1, <1>2, <1>3 DEF OpsInv
<1>5. \A i \in Instances :
          request'[i].pc \in {"joined", "created"} =>
             request'[i].op \in Ops /\ ops'[request'[i].op].status # "unused"
  BY <1>2 DEF OpsInv
<1>6. \A i \in Instances, p \in Ops :
          CreatedBy(i, p)' => /\ ops'[p].pc = "none" /\ ops'[p].status = "running"
                              /\ \A j \in Instances : CreatedBy(j, p)' => i = j
  BY <1>1, <1>2, <1>3 DEF OpsInv
<1>. QED
  BY <1>4, <1>5, <1>6 DEF OpsInv

\* What each action of an operation does to it.
LEMMA OperationMoves ==
  ASSUME AgentBounds, AgentTypes, OpsInv, NEW o \in Ops
  PROVE  /\ TakeMutex(o) => OpMoves(o, ops[o].status, "working", ops[o].component) /\ current' = current
         /\ ProbeFails(o) => OpEnds(o, "failed", "failing")
         /\ CompleteInitialization(o) => OpEnds(o, "completed", "completing")
         /\ AnnounceInstall(o) => \/ OpEnds(o, "failed", "failing")
                                  \/ /\ OpMoves(o, ops[o].status, "installing", ops[o].component)
                                     /\ current' = current
         /\ InstallRemote(o) => \/ OpEnds(o, "failed", "failing")
                                \/ /\ OpMoves(o, ops[o].status, "verified", ops[o].component)
                                   /\ installed' = TRUE /\ current' = current
         /\ AlreadyCurrent(o) \/ InstallVerified(o) =>
              \E c \in {"ready", "needs_trust"} :
                 /\ MarkTargetComponent(o, c)
                 /\ \/ OpEnds(o, "failed", "failing")
                    \/ OpMoves(o, ops[o].status, "marked", c) /\ current' = current
         /\ SettleCompleted(o) \/ SettleFailed(o) =>
              OpMoves(o, ops[o].status, "done", ops[o].component) /\ current' = current
<1>0. /\ {"working", "failing", "completing", "installing", "verified", "marked", "done"} \subseteq Phases
      /\ ops[o].component \in Components /\ ops[o].prior \in Components
      /\ {"ready", "needs_trust"} \subseteq Components
  BY DEF Phases, Components, AgentTypes, Operations
<1>1. TakeMutex(o) => OpMoves(o, ops[o].status, "working", ops[o].component) /\ current' = current
  BY <1>0, GoesMoves DEF TakeMutex
<1>2. ProbeFails(o) => OpEnds(o, "failed", "failing")
  BY <1>0, EndsMoves DEF ProbeFails
<1>3. CompleteInitialization(o) => OpEnds(o, "completed", "completing")
  BY <1>0, EndsMoves DEF CompleteInitialization
<1>4. AnnounceInstall(o) => \/ OpEnds(o, "failed", "failing")
                            \/ /\ OpMoves(o, ops[o].status, "installing", ops[o].component)
                               /\ current' = current
  BY <1>0, EndsMoves, GoesMoves DEF AnnounceInstall
<1>5. InstallRemote(o) => \/ OpEnds(o, "failed", "failing")
                          \/ /\ OpMoves(o, ops[o].status, "verified", ops[o].component)
                             /\ installed' = TRUE /\ current' = current
  BY <1>0, EndsMoves, GoesMoves DEF InstallRemote
<1>6. ASSUME AlreadyCurrent(o) \/ InstallVerified(o)
      PROVE  \E c \in {"ready", "needs_trust"} :
               /\ MarkTargetComponent(o, c)
               /\ \/ OpEnds(o, "failed", "failing")
                  \/ OpMoves(o, ops[o].status, "marked", c) /\ current' = current
  <2>1. PICK c \in {"ready", "needs_trust"} : MarkTargetComponent(o, c)
    <3>1. CASE AlreadyCurrent(o)
      <4>1. ops[o].prior \notin {"none", "initializing", "error"} => ops[o].prior \in {"ready", "needs_trust"}
        BY <1>0 DEF Components
      <4>. QED
        BY <3>1, <4>1 DEF AlreadyCurrent
    <3>2. CASE InstallVerified(o)
      BY <3>2 DEF InstallVerified
    <3>. QED
      BY <1>6, <3>1, <3>2
  <2>2. \/ OpEnds(o, "failed", "failing")
        \/ OpMoves(o, ops[o].status, "marked", c) /\ current' = current
    BY <1>0, <2>1, EndsMoves, GoesMoves DEF MarkTargetComponent
  <2>. QED
    BY <2>1, <2>2
<1>7. SettleCompleted(o) \/ SettleFailed(o) =>
              OpMoves(o, ops[o].status, "done", ops[o].component) /\ current' = current
  BY <1>0, GoesMoves DEF SettleCompleted, SettleFailed
<1>. QED
  BY <1>1, <1>2, <1>3, <1>4, <1>5, <1>6, <1>7

\* The steps of an operation keep the operations consistent.
LEMMA OperationsKept ==
  ASSUME AgentBounds, AgentTypes, OpsInv, NEW o \in Ops,
         \/ TakeMutex(o) \/ ProbeFails(o) \/ AlreadyCurrent(o) \/ AnnounceInstall(o)
         \/ InstallRemote(o) \/ InstallVerified(o) \/ CompleteInitialization(o)
         \/ SettleCompleted(o) \/ SettleFailed(o)
  PROVE  OpsInv'
<1>0. /\ {"working", "failing", "completing", "installing", "verified", "marked", "done"} \subseteq Phases \ {"none"}
      /\ ops[o].component \in Components
      /\ {"ready", "needs_trust"} \subseteq Components
      /\ AtWork = {"queued", "working", "installing", "verified", "marked"}
      /\ AtEnd = {"completing", "failing"}
  BY DEF Phases, Components, AgentTypes, Operations, AtWork, AtEnd
<1>1. request' = request
  BY DEF TakeMutex, ProbeFails, AlreadyCurrent, AnnounceInstall, InstallRemote, InstallVerified,
     CompleteInitialization, SettleCompleted, SettleFailed
<1>2. CASE TakeMutex(o)
  <2>1. ops[o].pc = "queued"
    BY <1>2 DEF TakeMutex
  <2>. QED
    BY <1>0, <1>1, <1>2, <2>1, OpsMoved, OperationMoves
<1>3. CASE ProbeFails(o)
  <2>1. ops[o].pc = "working"
    BY <1>3 DEF ProbeFails
  <2>. QED
    BY <1>0, <1>1, <1>3, <2>1, OpsMoved, OperationMoves
<1>4. CASE CompleteInitialization(o)
  <2>1. ops[o].pc = "marked"
    BY <1>4 DEF CompleteInitialization
  <2>2. ops[o].component \in {"ready", "needs_trust"}
    BY <2>1 DEF OpsInv
  <2>. QED
    BY <1>0, <1>1, <1>4, <2>1, <2>2, OpsMoved, OperationMoves
<1>5. CASE AnnounceInstall(o)
  <2>1. ops[o].pc = "working"
    BY <1>5 DEF AnnounceInstall
  <2>. QED
    BY <1>0, <1>1, <1>5, <2>1, OpsMoved, OperationMoves
<1>6. CASE InstallRemote(o)
  <2>1. ops[o].pc = "installing"
    BY <1>6 DEF InstallRemote
  <2>. QED
    BY <1>0, <1>1, <1>6, <2>1, OpsMoved, OperationMoves
<1>7. CASE AlreadyCurrent(o) \/ InstallVerified(o)
  <2>1. ops[o].pc \in {"working", "verified"}
    BY <1>7 DEF AlreadyCurrent, InstallVerified
  <2>2. PICK c \in {"ready", "needs_trust"} :
                 \/ OpEnds(o, "failed", "failing")
                 \/ OpMoves(o, ops[o].status, "marked", c) /\ current' = current
    BY <1>7, OperationMoves
  <2>3. CASE OpEnds(o, "failed", "failing")
    BY <1>0, <1>1, <2>1, <2>3, OpsMoved
  <2>4. CASE OpMoves(o, ops[o].status, "marked", c) /\ current' = current
    BY <1>0, <1>1, <2>1, <2>4, OpsMoved
  <2>. QED
    BY <2>2, <2>3, <2>4
<1>8. CASE SettleCompleted(o) \/ SettleFailed(o)
  <2>1. ops[o].pc \in {"completing", "failing"}
    BY <1>8 DEF SettleCompleted, SettleFailed
  <2>. QED
    BY <1>0, <1>1, <1>8, <2>1, OpsMoved, OperationMoves
<1>. QED
  BY <1>2, <1>3, <1>4, <1>5, <1>6, <1>7, <1>8

\* What JoinOrStart and AnswerRequest do to the operations.
LEMMA Joins ==
  ASSUME AgentBounds, AgentTypes, OpsInv, NEW i \in Instances, JoinOrStart(i)
  PROVE  \E o \in Ops :
           /\ request'[i].op = o /\ \A j \in Instances \ {i} : request'[j] = request[j]
           /\ \A p \in Ops \ {o} : ops'[p] = ops[p]
           /\ \/ /\ request'[i].pc = "joined" /\ ops' = ops /\ current' = current
                 /\ ops[o].status = "running"
              \/ /\ request'[i].pc = "created" /\ current' = o
                 /\ ops[o].status = "unused" /\ \A p \in Ops : ops[p].status # "running"
                 /\ ops'[o].status = "running" /\ ops'[o].pc = "none" /\ ops'[o].target = TargetOf[i]
<1>1. CASE OperationRuns
  <2>1. current \in Ops /\ ops[current].status = "running"
    BY <1>1 DEF OperationRuns, AgentTypes
  <2>2. request' = [request EXCEPT ![i].pc = "joined", ![i].op = current] /\ ops' = ops /\ current' = current
    BY <1>1 DEF JoinOrStart
  <2>. QED
    BY <2>1, <2>2 DEF AgentTypes, Requests
<1>2. CASE ~OperationRuns
  <2>1. PICK n : n = NextOp
    OBVIOUS
  <2>2. n \in Ops /\ ops[n].status = "unused"
    BY <1>2, <2>1, NextIsUnused DEF JoinOrStart
  <2>3. \A p \in Ops : ops[p].status # "running"
    <3>1. \A p \in Ops : ops[p].status = "running" => current = p
      BY DEF OpsInv
    <3>2. \A p \in Ops : p # Nil
      BY DEF AgentBounds
    <3>. QED
      BY <1>2, <3>1, <3>2 DEF OperationRuns
  <2>4. PICK w : w = [Unused EXCEPT !.status = "running", !.target = TargetOf[i], !.prior = request[i].prior]
    OBVIOUS
  <2>5. w.status = "running" /\ w.pc = "none" /\ w.target = TargetOf[i]
    BY <2>4 DEF Unused
  <2>6. /\ ops' = [ops EXCEPT ![n] = w] /\ current' = n
        /\ request' = [request EXCEPT ![i].pc = "created", ![i].op = n]
    BY <1>2, <2>1, <2>4 DEF JoinOrStart, Start
  <2>7. ops'[n] = w /\ \A p \in Ops \ {n} : ops'[p] = ops[p]
    BY <2>2, <2>6 DEF AgentTypes
  <2>8. request'[i].pc = "created" /\ request'[i].op = n /\ \A j \in Instances \ {i} : request'[j] = request[j]
    BY <2>6 DEF AgentTypes, Requests
  <2>. QED
    BY <2>2, <2>3, <2>5, <2>6, <2>7, <2>8
<1>. QED
  BY <1>1, <1>2

\* What AnswerRequest does: the goroutine of a created operation is started.
LEMMA Answers ==
  ASSUME AgentBounds, AgentTypes, OpsInv, NEW i \in Instances, AnswerRequest(i)
  PROVE  \E o \in Ops :
           /\ request[i].op = o /\ request'[i] = Idle /\ \A j \in Instances \ {i} : request'[j] = request[j]
           /\ ops[o].status # "unused"
           /\ \A p \in Ops \ {o} : ops'[p] = ops[p]
           /\ ops'[o].status = ops[o].status /\ ops'[o].target = ops[o].target
           /\ ops'[o].component = ops[o].component
           /\ \/ request[i].pc = "created" /\ ops[o].pc = "none" /\ ops'[o].pc = "queued"
              \/ request[i].pc = "joined" /\ ops'[o].pc = ops[o].pc
           /\ late' = IF ops[o].pc = "done" THEN late \union {TargetOf[i]} ELSE late
<1>1. PICK o : o = request[i].op
  OBVIOUS
<1>2. o \in Ops /\ ops[o].status # "unused" /\ request[i].pc \in {"joined", "created"}
  BY <1>1 DEF OpsInv, AnswerRequest
<1>3. request'[i] = Idle /\ \A j \in Instances \ {i} : request'[j] = request[j]
  BY DEF AnswerRequest, AgentTypes
<1>4. late' = IF ops[o].pc = "done" THEN late \union {TargetOf[i]} ELSE late
  BY <1>1 DEF AnswerRequest
<1>5. CASE request[i].pc = "created"
  <2>1. ops[o].pc = "none"
    BY <1>1, <1>2, <1>5 DEF OpsInv, CreatedBy
  <2>2. ops' = [ops EXCEPT ![o].pc = "queued"]
    BY <1>1, <1>5 DEF AnswerRequest
  <2>3. OpMoves(o, ops[o].status, "queued", ops[o].component)
    BY <1>2, <2>2, GoesMoves DEF Phases, AgentTypes, Operations
  <2>. QED
    BY <1>1, <1>2, <1>3, <1>4, <1>5, <2>1, <2>3 DEF OpMoves
<1>6. CASE request[i].pc = "joined"
  <2>1. ops' = ops
    BY <1>6 DEF AnswerRequest
  <2>. QED
    BY <1>1, <1>2, <1>3, <1>4, <1>6, <2>1
<1>. QED
  BY <1>2, <1>5, <1>6

\* Every step keeps the operations consistent: at most one is running, and
\* one that was created is owned by the request that is about to start it.
LEMMA OpsKept ==
  ASSUME AgentBounds, AgentTypes, OpsInv, [AgentNext]_agentVars
  PROVE  OpsInv'
<1>1. ASSUME UNCHANGED <<ops, request, current>> PROVE OpsInv'
  BY <1>1 DEF OpsInv, CreatedBy
<1>2. ASSUME NEW i \in Instances, Begin(i) \/ Prepare(i) PROVE OpsInv'
  <2>1. /\ UNCHANGED <<ops, current>>
        /\ \A j \in Instances \ {i} : request'[j] = request[j]
        /\ request[i].pc \notin {"joined", "created"} /\ request'[i].pc \notin {"joined", "created"}
    <3>1. CASE Begin(i)
      BY <3>1 DEF Begin, AgentTypes
    <3>2. CASE Prepare(i)
      BY <3>2 DEF Prepare, AgentTypes, Idle, Requests
    <3>. QED
      BY <1>2, <3>1, <3>2
  <2>2. \A j \in Instances, o \in Ops : CreatedBy(j, o)' = CreatedBy(j, o)
    BY <2>1 DEF CreatedBy
  <2>. QED
    BY <2>1, <2>2 DEF OpsInv
<1>3. ASSUME NEW i \in Instances, JoinOrStart(i) PROVE OpsInv'
  <2>1. PICK o \in Ops :
           /\ request'[i].op = o /\ \A j \in Instances \ {i} : request'[j] = request[j]
           /\ \A p \in Ops \ {o} : ops'[p] = ops[p]
           /\ \/ /\ request'[i].pc = "joined" /\ ops' = ops /\ current' = current
                 /\ ops[o].status = "running"
              \/ /\ request'[i].pc = "created" /\ current' = o
                 /\ ops[o].status = "unused" /\ \A p \in Ops : ops[p].status # "running"
                 /\ ops'[o].status = "running" /\ ops'[o].pc = "none" /\ ops'[o].target = TargetOf[i]
    BY <1>3, Joins
  <2>2. request[i].pc = "prepared"
    BY <1>3 DEF JoinOrStart
  <2>3. CASE /\ request'[i].pc = "joined" /\ ops' = ops /\ current' = current
             /\ ops[o].status = "running"
    <3>1. \A j \in Instances, p \in Ops : CreatedBy(j, p)' = CreatedBy(j, p)
      BY <2>1, <2>2, <2>3 DEF CreatedBy
    <3>. QED
      BY <2>1, <2>3, <3>1 DEF OpsInv
  <2>4. CASE /\ request'[i].pc = "created" /\ current' = o
             /\ ops[o].status = "unused" /\ \A p \in Ops : ops[p].status # "running"
             /\ ops'[o].status = "running" /\ ops'[o].pc = "none" /\ ops'[o].target = TargetOf[i]
    <3>1. \A j \in Instances, p \in Ops : ~CreatedBy(j, p)
      BY <2>4 DEF OpsInv
    <3>2. CreatedBy(i, o)' /\ \A j \in Instances, p \in Ops : CreatedBy(j, p)' => j = i /\ p = o
      BY <2>1, <2>4, <3>1 DEF CreatedBy
    <3>3. \A p \in Ops : ops[p].status # "unused" => ops[p].pc # "none"
      BY <3>1 DEF OpsInv
    <3>4. \A p \in Ops : /\ ops'[p].pc \in AtWork => ops'[p].status = "running"
                         /\ ops'[p].status = "running" => current' = p
                         /\ ops'[p].status = "unused" => ops'[p].pc = "none"
                         /\ ops'[p].status # "unused" /\ ops'[p].pc = "none" => \E j \in Instances : CreatedBy(j, p)'
                         /\ ops'[p].pc \in {"marked", "completing"} => ops'[p].component \in {"ready", "needs_trust"}
      <4>1. ASSUME NEW p \in Ops, p # o
            PROVE  /\ ops'[p].pc \in AtWork => ops'[p].status = "running"
                   /\ ops'[p].status = "running" => current' = p
                   /\ ops'[p].status = "unused" => ops'[p].pc = "none"
                   /\ ops'[p].status # "unused" /\ ops'[p].pc = "none" => \E j \in Instances : CreatedBy(j, p)'
                   /\ ops'[p].pc \in {"marked", "completing"} => ops'[p].component \in {"ready", "needs_trust"}
        BY <2>1, <2>4, <3>3, <4>1 DEF OpsInv
      <4>2. ops'[o].pc \notin AtWork /\ ops'[o].pc \notin {"marked", "completing"}
        BY <2>4 DEF AtWork
      <4>. QED
        BY <2>4, <3>2, <4>1, <4>2
    <3>5. \A j \in Instances :
              request'[j].pc \in {"joined", "created"} =>
                request'[j].op \in Ops /\ ops'[request'[j].op].status # "unused"
      BY <2>1, <2>4 DEF OpsInv
    <3>6. \A j \in Instances, p \in Ops :
              CreatedBy(j, p)' => /\ ops'[p].pc = "none" /\ ops'[p].status = "running"
                                  /\ \A k \in Instances : CreatedBy(k, p)' => j = k
      BY <2>4, <3>2
    <3>. QED
      BY <3>4, <3>5, <3>6 DEF OpsInv
  <2>. QED
    BY <2>1, <2>3, <2>4
<1>4. ASSUME NEW i \in Instances, AnswerRequest(i) PROVE OpsInv'
  <2>1. PICK o \in Ops :
           /\ request[i].op = o /\ request'[i] = Idle /\ \A j \in Instances \ {i} : request'[j] = request[j]
           /\ ops[o].status # "unused"
           /\ \A p \in Ops \ {o} : ops'[p] = ops[p]
           /\ ops'[o].status = ops[o].status /\ ops'[o].target = ops[o].target
           /\ ops'[o].component = ops[o].component
           /\ \/ request[i].pc = "created" /\ ops[o].pc = "none" /\ ops'[o].pc = "queued"
              \/ request[i].pc = "joined" /\ ops'[o].pc = ops[o].pc
    BY <1>4, Answers
  <2>2. current' = current
    BY <1>4 DEF AnswerRequest
  <2>3. /\ request[i].pc = "created" => CreatedBy(i, o) /\ ops[o].status = "running"
        /\ \A j \in Instances, p \in Ops : CreatedBy(j, p)' => j # i /\ CreatedBy(j, p)
        /\ \A j \in Instances \ {i}, p \in Ops : CreatedBy(j, p) => CreatedBy(j, p)'
    BY <2>1 DEF OpsInv, CreatedBy, Idle
  <2>4. \A j \in Instances : CreatedBy(j, o)' => request[i].pc = "joined"
    BY <2>1, <2>3 DEF OpsInv
  <2>5. \A p \in Ops : /\ ops'[p].pc \in AtWork => ops'[p].status = "running"
                       /\ ops'[p].status = "running" => current' = p
                       /\ ops'[p].status = "unused" => ops'[p].pc = "none"
                       /\ ops'[p].status # "unused" /\ ops'[p].pc = "none" => \E j \in Instances : CreatedBy(j, p)'
                       /\ ops'[p].pc \in {"marked", "completing"} => ops'[p].component \in {"ready", "needs_trust"}
    <3>1. ASSUME NEW p \in Ops, ops'[p].status # "unused" /\ ops'[p].pc = "none"
          PROVE  \E j \in Instances : CreatedBy(j, p)'
      <4>1. ops[p].status # "unused" /\ ops[p].pc = "none"
        BY <2>1, <3>1
      <4>2. PICK j \in Instances : CreatedBy(j, p)
        BY <4>1 DEF OpsInv
      <4>3. CASE j # i
        BY <2>3, <4>2, <4>3
      <4>4. CASE j = i
        BY <2>1, <3>1, <4>2, <4>4 DEF CreatedBy
      <4>. QED
        BY <4>3, <4>4
    <3>2. ASSUME NEW p \in Ops
          PROVE  /\ ops'[p].pc \in AtWork => ops'[p].status = "running"
                 /\ ops'[p].status = "running" => current' = p
                 /\ ops'[p].status = "unused" => ops'[p].pc = "none"
                 /\ ops'[p].pc \in {"marked", "completing"} => ops'[p].component \in {"ready", "needs_trust"}
      BY <2>1, <2>2, <2>3 DEF OpsInv
    <3>. QED
      BY <3>1, <3>2
  <2>6. \A j \in Instances :
            request'[j].pc \in {"joined", "created"} =>
              request'[j].op \in Ops /\ ops'[request'[j].op].status # "unused"
    BY <2>1 DEF OpsInv, Idle
  <2>7. \A j \in Instances, p \in Ops :
            CreatedBy(j, p)' => /\ ops'[p].pc = "none" /\ ops'[p].status = "running"
                                /\ \A k \in Instances : CreatedBy(k, p)' => j = k
    BY <2>1, <2>3, <2>4 DEF OpsInv
  <2>. QED
    BY <2>5, <2>6, <2>7 DEF OpsInv
<1>5. CASE GetInitialization
  <2>1. PICK gone \in SUBSET Finished : ops' = Pruned(gone)
    BY <1>5 DEF GetInitialization
  <2>2. ASSUME NEW p \in Ops
        PROVE  /\ ops'[p].pc = ops[p].pc /\ ops'[p].component = ops[p].component
               /\ \/ ops'[p].status = ops[p].status
                  \/ ops[p].status \in {"completed", "failed"} /\ ops'[p].status = "gone"
    BY <2>1 DEF Pruned, Finished, AgentTypes, Operations
  <2>3. UNCHANGED <<request, current>>
    BY <1>5 DEF GetInitialization
  <2>4. \A j \in Instances, p \in Ops : CreatedBy(j, p)' = CreatedBy(j, p)
    BY <2>3 DEF CreatedBy
  <2>. QED
    BY <2>2, <2>3, <2>4 DEF OpsInv
<1>6. CASE Restart
  <2>1. ASSUME NEW p \in Ops
        PROVE  \/ ops'[p].status = "unused" /\ ops'[p].pc = "none"
               \/ ops'[p].status = "gone" /\ ops'[p].pc = "done"
    <3>1. CASE ops[p].status = "unused"
      BY <1>6, <3>1 DEF Restart, Unused
    <3>2. CASE ops[p].status # "unused"
      BY <1>6, <3>2 DEF Restart, AgentTypes, Operations
    <3>. QED
      BY <3>1, <3>2
  <2>2. \A i \in Instances : request'[i].pc = "idle"
    BY <1>6 DEF Restart, Idle
  <2>3. \A i \in Instances, p \in Ops : ~CreatedBy(i, p)'
    BY <2>2 DEF CreatedBy
  <2>. QED
    BY <2>1, <2>2, <2>3 DEF OpsInv, AtWork
<1>7. CASE \/ \E i \in Instances : ReadRemoteState(i) \/ RecordSyncFailure(i)
           \/ RejectSnapshot \/ JudgeSnapshot \/ ProjectSnapshot \/ MessageDeleted
           \/ \E t \in Targets : HookReports(t) \/ RuntimeRestarts(t) \/ StateFileLost(t)
           \/ UNCHANGED agentVars
  <2>1. UNCHANGED <<ops, request, current>>
    BY <1>7 DEF ReadRemoteState, RecordSyncFailure, RejectSnapshot, JudgeSnapshot, ProjectSnapshot,
       MessageDeleted, HookReports, RuntimeRestarts, StateFileLost, agentVars
  <2>. QED
    BY <1>1, <2>1
<1>. QED
  BY <1>2, <1>3, <1>4, <1>5, <1>6, <1>7, OperationsKept DEF AgentNext

-----------------------------------------------------------------------------
(* The component is believed only when it is there                         *)

\* A write keeps the belief, in memory and on disk, if the new record does.
LEMMA BelievedAfter ==
  ASSUME AgentBounds, AgentTypes, InstalledInv, NEW new, Believed(new),
         Update(new) \/ UNCHANGED <<record, disk>>, installed' = installed
  PROVE  Believed(record)' /\ Believed(disk)'
<1>1. record' \in {record, disk, new} /\ disk' \in {record, disk, new}
  BY DEF Update, Saved, Unsaved
<1>. QED
  BY <1>1 DEF InstalledInv, Believed

\* Requests only take the belief back.
LEMMA InstalledByRequests ==
  ASSUME AgentBounds, AgentTypes, OpsInv, InstalledInv, NEW i \in Instances,
         Begin(i) \/ Prepare(i) \/ JoinOrStart(i) \/ AnswerRequest(i)
  PROVE  InstalledInv'
<1>1. sync' = sync /\ installed' = installed
  BY DEF Begin, Prepare, JoinOrStart, AnswerRequest
<1>2. \A p \in Ops : ops'[p].pc = ops[p].pc \/ ops'[p].pc \in {"none", "queued"}
  <2>1. CASE Begin(i) \/ Prepare(i)
    BY <2>1 DEF Begin, Prepare
  <2>2. CASE JoinOrStart(i)
    BY <2>2, Joins
  <2>3. CASE AnswerRequest(i)
    BY <2>3, Answers
  <2>. QED
    BY <2>1, <2>2, <2>3
<1>3. Believed(record)' /\ Believed(disk)'
  <2>1. CASE Begin(i) \/ JoinOrStart(i)
    BY <1>1, <2>1 DEF Begin, JoinOrStart, InstalledInv, Believed
  <2>2. CASE Prepare(i)
    <3>1. Update(PreparedRecord(i))
      BY <2>2 DEF Prepare, Update
    <3>2. Believed(PreparedRecord(i))
      <4>1. ASSUME NEW t \in Targets, PreparedRecord(i).targets[t].component \in {"ready", "needs_trust"}
            PROVE  record.targets[t].component \in {"ready", "needs_trust"}
        BY <4>1, RecordOfPrepare
      <4>. QED
        BY <4>1 DEF InstalledInv, Believed
    <3>. QED
      BY <1>1, <3>1, <3>2, BelievedAfter
  <2>3. CASE AnswerRequest(i)
    <3>1. PICK o \in Ops : request[i].op = o
      BY <2>3, Answers
    <3>2. PICK t \in Targets : t = TargetOf[i]
      BY DEF AgentBounds
    <3>3. PICK R : R = Set(t, [record.targets[t] EXCEPT !.op = o, !.component = "initializing"])
      OBVIOUS
    <3>4. Update(R)
      BY <2>3, <3>1, <3>2, <3>3 DEF AnswerRequest
    <3>5. /\ R.targets[t].component = "initializing"
          /\ \A u \in Targets \ {t} : R.targets[u] = record.targets[u]
      <4>1. Recolored(R, t) /\ R.targets[t].component = "initializing"
        BY <3>3, RecordOfAnswer
      <4>. QED
        BY <4>1 DEF Recolored
    <3>6. Believed(R)
      BY <3>5 DEF InstalledInv, Believed
    <3>. QED
      BY <1>1, <3>4, <3>6, BelievedAfter
  <2>. QED
    BY <2>1, <2>2, <2>3
<1>. QED
  BY <1>1, <1>2, <1>3 DEF InstalledInv

\* An operation marks a target only when the component was found or installed.
\* The one that installs works alone, so nobody else relies on the component.
LEMMA InstalledByOperations ==
  ASSUME AgentBounds, AgentTypes, OpsInv, InstalledInv, NEW o \in Ops,
         \/ TakeMutex(o) \/ ProbeFails(o) \/ AlreadyCurrent(o) \/ AnnounceInstall(o)
         \/ InstallRemote(o) \/ InstallVerified(o) \/ CompleteInitialization(o)
         \/ SettleCompleted(o) \/ SettleFailed(o)
  PROVE  InstalledInv'
<1>0. sync' = sync
  BY DEF TakeMutex, ProbeFails, AlreadyCurrent, AnnounceInstall, InstallRemote, InstallVerified,
     CompleteInitialization, SettleCompleted, SettleFailed
<1>1. CASE InstallRemote(o)
  <2>1. ops[o].pc = "installing" /\ UNCHANGED <<record, disk>>
    BY <1>1 DEF InstallRemote
  <2>2. ~installed
    BY <2>1 DEF InstalledInv
  <2>3. \A p \in Ops \ {o} : ops[p].pc \notin {"installing", "verified", "marked", "completing"}
    BY <2>1, <2>2 DEF OpsInv, InstalledInv, AtWork
  <2>4. /\ \A p \in Ops \ {o} : ops'[p] = ops[p]
        /\ \/ ops'[o].pc = "failing"
           \/ ops'[o].pc = "verified" /\ installed' = TRUE
    BY <1>1, OperationMoves DEF OpMoves, OpEnds
  <2>5. Believed(record)' /\ Believed(disk)'
    BY <2>1, <2>2 DEF InstalledInv, Believed
  <2>. QED
    BY <1>0, <2>2, <2>3, <2>4, <2>5 DEF InstalledInv
<1>2. CASE ~InstallRemote(o)
  <2>1. installed' = installed
    BY <1>2 DEF TakeMutex, ProbeFails, AlreadyCurrent, AnnounceInstall, InstallVerified,
       CompleteInitialization, SettleCompleted, SettleFailed
  <2>2. /\ \A p \in Ops \ {o} : ops'[p] = ops[p]
        /\ ops'[o].pc = "installing" => ~installed
        /\ ops'[o].pc \in {"verified", "marked", "completing"} => installed
    <3>1. CASE TakeMutex(o) \/ ProbeFails(o) \/ SettleCompleted(o) \/ SettleFailed(o)
      BY <3>1, OperationMoves DEF OpMoves, OpEnds
    <3>2. CASE AnnounceInstall(o)
      <4>1. ~installed
        BY <3>2 DEF AnnounceInstall
      <4>. QED
        BY <3>2, <4>1, OperationMoves DEF OpMoves, OpEnds
    <3>3. CASE AlreadyCurrent(o) \/ InstallVerified(o)
      <4>1. installed
        BY <3>3 DEF AlreadyCurrent, InstallVerified, InstalledInv
      <4>. QED
        BY <3>3, <4>1, OperationMoves DEF OpMoves, OpEnds
    <3>4. CASE CompleteInitialization(o)
      <4>1. installed
        BY <3>4 DEF CompleteInitialization, InstalledInv
      <4>. QED
        BY <3>4, <4>1, OperationMoves DEF OpMoves, OpEnds
    <3>. QED
      BY <1>2, <3>1, <3>2, <3>3, <3>4
  <2>3. Believed(record)' /\ Believed(disk)'
    <3>1. CASE installed
      BY <2>1, <3>1 DEF Believed
    <3>2. CASE ~installed
      <4>1. CASE TakeMutex(o) \/ ProbeFails(o) \/ CompleteInitialization(o)
        BY <2>1, <4>1 DEF TakeMutex, ProbeFails, CompleteInitialization, InstalledInv, Believed
      <4>2. CASE AnnounceInstall(o)
        <5>1. PICK R : R = [record EXCEPT !.installation = "initializing"]
          OBVIOUS
        <5>2. R.targets = record.targets
          BY <5>1, Values, SetInstallation DEF AgentTypes
        <5>3. Update(R)
          BY <4>2, <5>1 DEF AnnounceInstall, Update
        <5>4. Believed(R)
          BY <5>2 DEF InstalledInv, Believed
        <5>. QED
          BY <2>1, <5>3, <5>4, BelievedAfter
      <4>3. CASE SettleFailed(o)
        <5>1. PICK R : R = [installation |-> IF AnyReady(o) THEN record.installation ELSE "error",
                            targets |-> Settled(o, "error")]
          OBVIOUS
        <5>2. Update(R)
          BY <4>3, <5>1 DEF SettleFailed
        <5>3. \A u \in Targets : \/ R.targets[u] = record.targets[u]
                                     \/ /\ R.targets[u].component \in {"ready", "error"}
                                        /\ (R.targets[u].component = "ready" => record.targets[u].component = "ready")
          BY <5>1, Values, RecordOfSettle, TargetsOfSettle
        <5>4. Believed(R)
          BY <5>3 DEF InstalledInv, Believed
        <5>. QED
          BY <2>1, <5>2, <5>4, BelievedAfter
      <4>4. CASE AlreadyCurrent(o) \/ InstallVerified(o) \/ SettleCompleted(o)
        BY <3>2, <4>4 DEF AlreadyCurrent, InstallVerified, SettleCompleted, InstalledInv
      <4>. QED
        BY <1>2, <4>1, <4>2, <4>3, <4>4
    <3>. QED
      BY <3>1, <3>2
  <2>. QED
    BY <1>0, <2>1, <2>2, <2>3 DEF InstalledInv
<1>. QED
  BY <1>1, <1>2

\* Every step keeps the belief justified.
LEMMA InstalledKept ==
  ASSUME AgentBounds, AgentTypes, OpsInv, InstalledInv, [AgentNext]_agentVars
  PROVE  InstalledInv'
<1>1. ASSUME UNCHANGED <<record, disk, ops, installed>>, sync' = sync \/ sync'.pc = "idle" \/ installed
      PROVE  InstalledInv'
  BY <1>1 DEF InstalledInv, Believed
<1>2. CASE \/ \E i \in Instances : ReadRemoteState(i)
           \/ \E t \in Targets : HookReports(t) \/ RuntimeRestarts(t) \/ StateFileLost(t)
           \/ MessageDeleted \/ JudgeSnapshot \/ UNCHANGED agentVars
  <2>1. CASE \/ \E i \in Instances : ReadRemoteState(i)
             \/ JudgeSnapshot
    BY <1>1, <2>1 DEF ReadRemoteState, JudgeSnapshot, InstalledInv
  <2>2. CASE \/ \E t \in Targets : HookReports(t) \/ RuntimeRestarts(t) \/ StateFileLost(t)
             \/ MessageDeleted \/ UNCHANGED agentVars
    BY <1>1, <2>2 DEF HookReports, RuntimeRestarts, StateFileLost, MessageDeleted, agentVars
  <2>. QED
    BY <1>2, <2>1, <2>2
<1>3. CASE RejectSnapshot \/ \E i \in Instances : RecordSyncFailure(i)
  <2>1. PICK t \in Targets, s \in {"failed", "stale", "available"} :
            Update(Set(t, [record.targets[t] EXCEPT !.sync = s]))
    BY <1>3 DEF RejectSnapshot, RecordSyncFailure, AgentBounds, AgentTypes
  <2>2. PICK R : R = Set(t, [record.targets[t] EXCEPT !.sync = s])
    OBVIOUS
  <2>3. \A u \in Targets : R.targets[u].component = record.targets[u].component
    <3>1. Recolored(R, t) /\ R.targets[t].component = record.targets[t].component
      BY <2>2, RecordOfSync
    <3>. QED
      BY <3>1 DEF Recolored
  <2>4. Believed(R)
    BY <2>3 DEF InstalledInv, Believed
  <2>5. UNCHANGED <<ops, installed>> /\ (sync' = sync \/ sync'.pc = "idle")
    <3>1. CASE RejectSnapshot
      BY <3>1 DEF RejectSnapshot, NoSync
    <3>2. CASE \E i \in Instances : RecordSyncFailure(i)
      BY <3>2 DEF RecordSyncFailure
    <3>. QED
      BY <1>3, <3>1, <3>2
  <2>6. Believed(record)' /\ Believed(disk)'
    BY <2>1, <2>2, <2>4, <2>5, BelievedAfter
  <2>. QED
    BY <2>5, <2>6 DEF InstalledInv
<1>4. CASE ProjectSnapshot
  <2>1. UNCHANGED <<ops, installed>> /\ sync'.pc = "idle" /\ installed
    BY <1>4 DEF ProjectSnapshot, NoSync, InstalledInv
  <2>. QED
    BY <2>1 DEF InstalledInv, Believed
<1>5. CASE GetInitialization
  <2>1. \A p \in Ops : ops'[p].pc = ops[p].pc
    BY <1>5 DEF GetInitialization, Pruned, AgentTypes, Operations
  <2>2. UNCHANGED <<record, disk, sync, installed>>
    BY <1>5 DEF GetInitialization
  <2>. QED
    BY <2>1, <2>2 DEF InstalledInv, Believed
<1>6. CASE Restart
  <2>1. \A p \in Ops : ops'[p].pc \in {"none", "done"}
    BY <1>6 DEF Restart, Unused, AgentTypes, Operations
  <2>2. record' = disk /\ disk' = disk /\ installed' = installed /\ sync'.pc = "idle"
    BY <1>6 DEF Restart, NoSync
  <2>. QED
    BY <2>1, <2>2 DEF InstalledInv, Believed
<1>. QED
  BY <1>2, <1>3, <1>4, <1>5, <1>6, InstalledByRequests, InstalledByOperations DEF AgentNext

-----------------------------------------------------------------------------
(* Every target that waits is waited for                                   *)

\* Requests that will still ask for, or join, an operation; operations that will
\* still settle their targets.
Waits == {"prepared", "joined", "created"}
Alive(o) == o \in Ops /\ ops[o].status # "unused" /\ ops[o].pc # "done"

\* A target stays awaited while its request or its operation goes on.
LEMMA StillAwaited ==
  ASSUME NEW t \in Targets, Awaited(t), record'.targets[t].op = record.targets[t].op,
         Alive(record.targets[t].op) => Alive(record.targets[t].op)',
         \A i \in Instances : TargetOf[i] = t /\ request[i].pc \in Waits => request'[i].pc \in Waits
  PROVE  Awaited(t)'
BY DEF Awaited, Waits, Alive

\* A write that went through, when nothing has gone wrong.
LEMMA WentThrough ==
  ASSUME AgentTypes, AgentBounds, faults' = 0, NEW new, Update(new)
  PROVE  record' = new /\ faults = 0
<1>1. faults \in 0..MaxFaults
  BY DEF AgentTypes
<1>. QED
  BY <1>1, Updates

\* A request hands its target to the operation, or notes that it came too late.
LEMMA AwaitedByRequests ==
  ASSUME AgentBounds, AgentTypes, OpsInv, AwaitedInv, NEW i \in Instances,
         Begin(i) \/ Prepare(i) \/ JoinOrStart(i) \/ AnswerRequest(i)
  PROVE  AwaitedInv'
<1>. SUFFICES ASSUME faults' = 0, NEW t \in Targets, t \notin late',
                     record'.targets[t].component = "initializing"
              PROVE  Awaited(t)'
  BY DEF AwaitedInv
<1>0. TargetOf[i] \in Targets
  BY DEF AgentBounds
<1>1. CASE Begin(i)
  <2>1. UNCHANGED <<record, ops, late, faults>>
    BY <1>1 DEF Begin
  <2>2. Awaited(t)
    BY <2>1 DEF AwaitedInv
  <2>3. /\ \A j \in Instances : request[j].pc \in Waits => request'[j].pc \in Waits
    BY <1>1 DEF Begin, Waits, AgentTypes
  <2>. QED
    BY <2>1, <2>2, <2>3, StillAwaited DEF Alive
<1>2. CASE Prepare(i)
  <2>0. faults \in 0..MaxFaults
    BY DEF AgentTypes
  <2>1. CASE Unsaved(PreparedRecord(i))
    <3>1. faults' # 0
      BY <2>0, <2>1, Updates
    <3>. QED
      BY <3>1
  <2>2. CASE ~Unsaved(PreparedRecord(i))
    <3>1. /\ record' = PreparedRecord(i) /\ faults = 0 /\ ops' = ops
          /\ late' = late \ {TargetOf[i]} /\ request' = [request EXCEPT ![i].pc = "prepared"]
      BY <1>2, <2>2 DEF Prepare, Saved
    <3>2. request'[i].pc \in Waits /\ \A j \in Instances : request[j].pc \in Waits => request'[j].pc \in Waits
      BY <3>1 DEF Waits, AgentTypes, Requests
    <3>3. CASE t = TargetOf[i]
      BY <3>2, <3>3 DEF Awaited, Waits
    <3>4. CASE t # TargetOf[i]
      <4>1. record'.targets[t] = record.targets[t]
        BY <3>1, <3>4, RecordOfPrepare
      <4>2. Awaited(t)
        BY <3>1, <3>4, <4>1 DEF AwaitedInv
      <4>. QED
        BY <3>1, <3>2, <4>1, <4>2, StillAwaited DEF Alive
    <3>. QED
      BY <3>3, <3>4
  <2>. QED
    BY <2>1, <2>2
<1>3. CASE JoinOrStart(i)
  <2>1. UNCHANGED <<record, late, faults>> /\ request[i].pc = "prepared"
    BY <1>3 DEF JoinOrStart
  <2>2. Awaited(t)
    BY <2>1 DEF AwaitedInv
  <2>3. PICK o \in Ops :
           /\ request'[i].op = o /\ \A j \in Instances \ {i} : request'[j] = request[j]
           /\ \A p \in Ops \ {o} : ops'[p] = ops[p]
           /\ \/ request'[i].pc = "joined" /\ ops' = ops
              \/ request'[i].pc = "created" /\ ops[o].status = "unused"
    BY <1>3, Joins
  <2>4. \A p : Alive(p) => Alive(p)'
    BY <2>3 DEF Alive
  <2>5. \A j \in Instances : request[j].pc \in Waits => request'[j].pc \in Waits
    BY <2>3 DEF Waits
  <2>. QED
    BY <2>1, <2>2, <2>4, <2>5, StillAwaited
<1>4. CASE AnswerRequest(i)
  <2>1. PICK o \in Ops :
           /\ request[i].op = o /\ request'[i] = Idle /\ \A j \in Instances \ {i} : request'[j] = request[j]
           /\ ops[o].status # "unused"
           /\ \A p \in Ops \ {o} : ops'[p] = ops[p]
           /\ ops'[o].status = ops[o].status
           /\ \/ request[i].pc = "created" /\ ops[o].pc = "none" /\ ops'[o].pc = "queued"
              \/ request[i].pc = "joined" /\ ops'[o].pc = ops[o].pc
           /\ late' = IF ops[o].pc = "done" THEN late \union {TargetOf[i]} ELSE late
    BY <1>4, Answers
  <2>2. PICK u \in Targets : u = TargetOf[i]
    BY <1>0
  <2>3. PICK R : R = Set(u, [record.targets[u] EXCEPT !.op = o, !.component = "initializing"])
    OBVIOUS
  <2>4. Update(R)
    BY <1>4, <2>1, <2>2, <2>3 DEF AnswerRequest
  <2>5. record' = R /\ faults = 0
    BY <2>4, WentThrough
  <2>6. R.targets[u].op = o /\ \A v \in Targets \ {u} : R.targets[v] = record.targets[v]
    <3>1. Recolored(R, u) /\ R.targets[u].op = o
      BY <2>2, <2>3, RecordOfAnswer
    <3>. QED
      BY <3>1 DEF Recolored
  <2>7. \A p : Alive(p) => Alive(p)'
    BY <2>1 DEF Alive
  <2>8. CASE t = u
    <3>1. ops[o].pc # "done"
      BY <2>1, <2>2, <2>8
    <3>. QED
      BY <2>1, <2>5, <2>6, <2>8, <3>1 DEF Awaited
  <2>9. CASE t # u
    <3>1. record'.targets[t] = record.targets[t] /\ t \notin late
      BY <2>1, <2>2, <2>5, <2>6, <2>9
    <3>2. Awaited(t)
      BY <2>5, <3>1 DEF AwaitedInv
    <3>3. \A j \in Instances : TargetOf[j] = t /\ request[j].pc \in Waits => request'[j].pc \in Waits
      BY <2>1, <2>2, <2>9
    <3>. QED
      BY <2>7, <3>1, <3>2, <3>3, StillAwaited
  <2>. QED
    BY <2>8, <2>9
<1>. QED
  BY <1>1, <1>2, <1>3, <1>4

\* An ending operation settles all the targets it touches before it is over.
LEMMA AwaitedByOperations ==
  ASSUME AgentBounds, AgentTypes, OpsInv, AwaitedInv, NEW o \in Ops,
         \/ TakeMutex(o) \/ ProbeFails(o) \/ AlreadyCurrent(o) \/ AnnounceInstall(o)
         \/ InstallRemote(o) \/ InstallVerified(o) \/ CompleteInitialization(o)
         \/ SettleCompleted(o) \/ SettleFailed(o)
  PROVE  AwaitedInv'
<1>. SUFFICES ASSUME faults' = 0, NEW t \in Targets, t \notin late',
                     record'.targets[t].component = "initializing"
              PROVE  Awaited(t)'
  BY DEF AwaitedInv
<1>0. UNCHANGED <<request, late>>
  BY DEF TakeMutex, ProbeFails, AlreadyCurrent, AnnounceInstall, InstallRemote, InstallVerified,
     CompleteInitialization, SettleCompleted, SettleFailed
<1>1. CASE SettleCompleted(o) \/ SettleFailed(o)
  <2>0. PICK c \in {"ready", "needs_trust", "error"} : \E R :
            /\ Update(R)
            /\ \/ R = [record EXCEPT !.targets = Settled(o, c)]
               \/ R = [installation |-> IF AnyReady(o) THEN record.installation ELSE "error",
                       targets |-> Settled(o, c)]
    <3>1. SettleCompleted(o) => ops[o].component \in {"ready", "needs_trust"}
      BY DEF SettleCompleted, OpsInv
    <3>. QED
      BY <1>1, <3>1 DEF SettleCompleted, SettleFailed
  <2>1. PICK R :
            /\ Update(R)
            /\ \/ R = [record EXCEPT !.targets = Settled(o, c)]
               \/ R = [installation |-> IF AnyReady(o) THEN record.installation ELSE "error",
                       targets |-> Settled(o, c)]
    BY <2>0
  <2>2. record' = R /\ faults = 0
    BY <2>1, WentThrough
  <2>3. c \in Components
    BY Values
  <2>4. /\ \A u \in Targets \ Touched(o) : R.targets[u] = record.targets[u]
        /\ \A u \in Touched(o) : R.targets[u].component \in {"ready", c}
    BY <2>1, <2>3, RecordOfSettle, TargetsOfSettle
  <2>5. t \notin Touched(o)
    BY <2>2, <2>4
  <2>6. record'.targets[t] = record.targets[t] /\ record.targets[t].op # o
    BY <2>2, <2>4, <2>5 DEF Touched
  <2>7. Awaited(t)
    BY <1>0, <2>2, <2>6 DEF AwaitedInv
  <2>8. \A p : Alive(p) /\ p # o => Alive(p)'
    <3>1. \A p \in Ops \ {o} : ops'[p] = ops[p]
      BY <1>1, OperationMoves DEF OpMoves
    <3>. QED
      BY <3>1 DEF Alive
  <2>. QED
    BY <1>0, <2>6, <2>7, <2>8, StillAwaited
<1>2. CASE ~(SettleCompleted(o) \/ SettleFailed(o))
  <2>1. \A p : Alive(p) => Alive(p)'
    <3>1. /\ \A p \in Ops \ {o} : ops'[p] = ops[p]
          /\ ops'[o].pc # "done" /\ (ops[o].status # "unused" => ops'[o].status # "unused")
      BY <1>2, OperationMoves DEF OpMoves, OpEnds
    <3>. QED
      BY <3>1 DEF Alive
  <2>2. faults = 0 /\ record'.targets[t].op = record.targets[t].op /\ record.targets[t].component = "initializing"
    <3>1. CASE TakeMutex(o) \/ ProbeFails(o) \/ InstallRemote(o) \/ CompleteInitialization(o)
      BY <3>1 DEF TakeMutex, ProbeFails, InstallRemote, CompleteInitialization
    <3>2. CASE AnnounceInstall(o)
      <4>1. PICK R : R = [record EXCEPT !.installation = "initializing"]
        OBVIOUS
      <4>2. R.targets = record.targets
        BY <4>1, Values, SetInstallation DEF AgentTypes
      <4>3. Update(R)
        BY <3>2, <4>1 DEF AnnounceInstall, Update
      <4>. QED
        BY <4>2, <4>3, WentThrough
    <3>3. CASE AlreadyCurrent(o) \/ InstallVerified(o)
      <4>1. PICK c \in {"ready", "needs_trust"} : MarkTargetComponent(o, c)
        BY <3>3, OperationMoves
      <4>2. Update(MarkedRecord(o, c))
        BY <4>1 DEF MarkTargetComponent, Update
      <4>3. record' = MarkedRecord(o, c) /\ faults = 0
        BY <4>2, WentThrough
      <4>4. ops[o].target \in Targets
        <5>1. ops[o].pc \in {"working", "verified"}
          BY <3>3 DEF AlreadyCurrent, InstallVerified
        <5>. QED
          BY <5>1 DEF OpsInv, AgentTypes
      <4>5. c \in Components
        BY Values
      <4>6. /\ \A u \in Targets \ {ops[o].target} : record'.targets[u] = record.targets[u]
            /\ record'.targets[ops[o].target].component = c
        BY <4>3, <4>4, <4>5, RecordOfMark DEF Recolored
      <4>7. t # ops[o].target
        BY <4>6
      <4>. QED
        BY <4>3, <4>6, <4>7
    <3>. QED
      BY <1>2, <3>1, <3>2, <3>3
  <2>3. Awaited(t)
    BY <1>0, <2>2 DEF AwaitedInv
  <2>. QED
    BY <1>0, <2>1, <2>2, <2>3, StillAwaited
<1>. QED
  BY <1>1, <1>2

\* Every step keeps the waiting targets awaited.
LEMMA AwaitedKept ==
  ASSUME AgentBounds, AgentTypes, OpsInv, AwaitedInv, [AgentNext]_agentVars
  PROVE  AwaitedInv'
<1>0. faults \in 0..MaxFaults /\ MaxFaults \in Nat
  BY Values DEF AgentTypes
<1>1. CASE \/ \E i \in Instances : ReadRemoteState(i) \/ RecordSyncFailure(i)
           \/ \E t \in Targets : HookReports(t) \/ RuntimeRestarts(t)
           \/ RejectSnapshot \/ JudgeSnapshot \/ ProjectSnapshot \/ GetInitialization \/ UNCHANGED agentVars
  <2>. SUFFICES ASSUME faults' = 0, NEW t \in Targets, t \notin late',
                       record'.targets[t].component = "initializing"
                PROVE  Awaited(t)'
    BY DEF AwaitedInv
  <2>1. UNCHANGED <<request, late>>
    BY <1>1 DEF ReadRemoteState, RecordSyncFailure, HookReports, RuntimeRestarts, RejectSnapshot,
       JudgeSnapshot, ProjectSnapshot, GetInitialization, agentVars
  <2>2. \A p : Alive(p) => Alive(p)'
    <3>1. CASE GetInitialization
      BY <3>1 DEF GetInitialization, Pruned, Finished, AgentTypes, Operations, Alive
    <3>2. CASE ~GetInitialization
      <4>1. ops' = ops
        BY <1>1, <3>2 DEF ReadRemoteState, RecordSyncFailure, HookReports, RuntimeRestarts, RejectSnapshot,
           JudgeSnapshot, ProjectSnapshot, agentVars
      <4>. QED
        BY <4>1 DEF Alive
    <3>. QED
      BY <3>1, <3>2
  <2>3. faults = 0 /\ record'.targets[t].op = record.targets[t].op /\ record.targets[t].component = "initializing"
    <3>1. CASE \/ \E i \in Instances : ReadRemoteState(i)
               \/ \E u \in Targets : HookReports(u) \/ RuntimeRestarts(u)
               \/ GetInitialization \/ UNCHANGED agentVars
      BY <3>1 DEF ReadRemoteState, HookReports, RuntimeRestarts, GetInitialization, agentVars
    <3>2. CASE JudgeSnapshot
      BY <1>0, <3>2 DEF JudgeSnapshot
    <3>3. CASE RejectSnapshot \/ \E i \in Instances : RecordSyncFailure(i)
      <4>1. PICK u \in Targets, s \in {"failed", "stale", "available"} :
                Update(Set(u, [record.targets[u] EXCEPT !.sync = s]))
        BY <3>3 DEF RejectSnapshot, RecordSyncFailure, AgentBounds, AgentTypes
      <4>2. PICK R : R = Set(u, [record.targets[u] EXCEPT !.sync = s])
        OBVIOUS
      <4>3. Recolored(R, u) /\ R.targets[u].component = record.targets[u].component
            /\ R.targets[u].op = record.targets[u].op
        BY <4>2, RecordOfSync
      <4>4. record' = R /\ faults = 0
        BY <4>1, <4>2, WentThrough
      <4>5. CASE t = u
        BY <4>3, <4>4, <4>5
      <4>6. CASE t # u
        <5>1. R.targets[t] = record.targets[t]
          BY <4>3, <4>6 DEF Recolored
        <5>. QED
          BY <4>4, <5>1
      <4>. QED
        BY <4>5, <4>6
    <3>4. CASE ProjectSnapshot
      <4>1. Update(Projected) /\ sync.pc = "accepted"
        BY <3>4 DEF ProjectSnapshot, Projected
      <4>2. record' = Projected /\ faults = 0
        BY <4>1, WentThrough
      <4>3. /\ \A u \in Targets \ {sync.target} : Projected.targets[u] = record.targets[u]
            /\ Projected.targets[sync.target].component = "ready"
        BY <4>1, RecordOfProject
      <4>. QED
        BY <4>2, <4>3
    <3>. QED
      BY <1>1, <3>1, <3>2, <3>3, <3>4
  <2>4. Awaited(t)
    BY <2>1, <2>3 DEF AwaitedInv
  <2>. QED
    BY <2>1, <2>2, <2>3, <2>4, StillAwaited
<1>2. CASE MessageDeleted \/ Restart \/ \E t \in Targets : StateFileLost(t)
  <2>1. faults' = faults + 1
    BY <1>2 DEF MessageDeleted, Restart, StateFileLost
  <2>2. faults' # 0
    BY <1>0, <2>1
  <2>. QED
    BY <2>2 DEF AwaitedInv
<1>. QED
  BY <1>1, <1>2, AwaitedByRequests, AwaitedByOperations DEF AgentNext

-----------------------------------------------------------------------------
(* Messages                                                                *)

\* What is told stays told.
LEMMA ToldGrows ==
  ASSUME AgentBounds, AgentTypes, [AgentNext]_agentVars
  PROVE  Told \subseteq Told' /\ inbox.forgotten \subseteq inbox'.forgotten
<1>1. CASE inbox' = inbox
  BY <1>1 DEF Told
<1>2. CASE JudgeSnapshot
  <2>1. PICK key : inbox' = inbox \/ inbox' = Appended(key)
    BY <1>2 DEF JudgeSnapshot
  <2>2. inbox \in [log : Seq(Keys), kept : SUBSET Keys, forgotten : SUBSET Keys]
    BY DEF AgentTypes
  <2>3. inbox.kept \subseteq inbox'.kept /\ inbox'.forgotten = inbox.forgotten
    BY <2>1, <2>2 DEF Appended
  <2>. QED
    BY <2>3 DEF Told
<1>3. CASE MessageDeleted
  BY <1>3 DEF MessageDeleted, Told, AgentTypes
<1>. QED
  BY <1>1, <1>2, <1>3 DEF AgentNext, agentVars, Begin, Prepare, JoinOrStart, AnswerRequest, ReadRemoteState,
     RecordSyncFailure, TakeMutex, ProbeFails, AlreadyCurrent, AnnounceInstall, InstallRemote, InstallVerified,
     CompleteInitialization, SettleCompleted, SettleFailed, GetInitialization, RejectSnapshot, ProjectSnapshot,
     HookReports, RuntimeRestarts, StateFileLost, Restart

\* A key is appended only when the repository does not hold it.
LEMMA MessagesKept ==
  ASSUME AgentBounds, AgentTypes, MessagesInv, [AgentNext]_agentVars
  PROVE  MessagesInv'
<1>0. Told \subseteq Told' /\ inbox.forgotten \subseteq inbox'.forgotten
  BY ToldGrows
<1>1. CASE inbox'.log = inbox.log
  <2>1. \A n \in DOMAIN inbox'.log : inbox'.log[n] \in Told'
    BY <1>0, <1>1 DEF MessagesInv
  <2>2. ToldOnce'
    BY <1>0, <1>1 DEF MessagesInv, ToldOnce
  <2>. QED
    BY <2>1, <2>2 DEF MessagesInv
<1>2. ASSUME NEW key \in Keys \ inbox.kept, inbox' = [inbox EXCEPT !.log = Append(@, key), !.kept = @ \union {key}]
      PROVE  MessagesInv'
  <2>1. PICK l : l = inbox.log
    OBVIOUS
  <2>2. l \in Seq(Keys) /\ inbox'.log = Append(l, key) /\ key \in Told' /\ inbox'.forgotten = inbox.forgotten
    BY <1>2, <2>1 DEF AgentTypes, Told
  <2>3. /\ DOMAIN inbox'.log = 1..Len(l) + 1 /\ DOMAIN l = 1..Len(l) /\ Len(l) \in Nat
        /\ inbox'.log[Len(l) + 1] = key
        /\ \A n \in 1..Len(l) : inbox'.log[n] = l[n]
    BY <2>2
  <2>4. \A n \in DOMAIN inbox'.log : n \in DOMAIN l \/ n = Len(l) + 1
    BY <2>3
  <2>5. \A n \in DOMAIN inbox'.log : inbox'.log[n] \in Told'
    BY <1>0, <2>1, <2>2, <2>3, <2>4 DEF MessagesInv
  <2>6. \A n \in DOMAIN l : l[n] = key => key \in inbox.forgotten
    BY <1>2, <2>1 DEF MessagesInv, Told
  <2>7. ASSUME NEW m \in DOMAIN inbox'.log, NEW n \in DOMAIN inbox'.log, m # n, inbox'.log[m] = inbox'.log[n]
        PROVE  inbox'.log[n] \in inbox'.forgotten
    <3>1. CASE m \in DOMAIN l /\ n \in DOMAIN l
      BY <2>1, <2>2, <2>3, <2>7, <3>1 DEF MessagesInv, ToldOnce
    <3>2. CASE m = Len(l) + 1 /\ n \in DOMAIN l
      BY <2>2, <2>3, <2>6, <2>7, <3>2
    <3>3. CASE n = Len(l) + 1 /\ m \in DOMAIN l
      BY <2>2, <2>3, <2>6, <2>7, <3>3
    <3>. QED
      BY <2>4, <2>7, <3>1, <3>2, <3>3
  <2>. QED
    BY <2>5, <2>7 DEF MessagesInv, ToldOnce
<1>3. CASE JudgeSnapshot
  <2>1. PICK key : key = <<sync.target, sync.snap.runtime, sync.snap.index>>
    OBVIOUS
  <2>2. key \in Keys
    BY <1>3, <2>1 DEF JudgeSnapshot, AgentTypes, Keys, Snapshots
  <2>3. inbox' = inbox \/ inbox' = Appended(key)
    BY <1>3, <2>1 DEF JudgeSnapshot
  <2>. QED
    BY <1>1, <1>2, <2>2, <2>3 DEF Appended
<1>4. CASE MessageDeleted
  <2>1. inbox'.log = inbox.log
    BY <1>4 DEF MessageDeleted, AgentTypes
  <2>. QED
    BY <1>1, <2>1
<1>5. CASE ~JudgeSnapshot /\ ~MessageDeleted
  <2>1. inbox' = inbox
    BY <1>5 DEF AgentNext, agentVars, Begin, Prepare, JoinOrStart, AnswerRequest, ReadRemoteState,
       RecordSyncFailure, TakeMutex, ProbeFails, AlreadyCurrent, AnnounceInstall, InstallRemote, InstallVerified,
       CompleteInitialization, SettleCompleted, SettleFailed, GetInitialization, RejectSnapshot, ProjectSnapshot,
       HookReports, RuntimeRestarts, StateFileLost, Restart
  <2>. QED
    BY <1>1, <2>1
<1>. QED
  BY <1>3, <1>4, <1>5

-----------------------------------------------------------------------------
(* The projection                                                          *)

\* A write that follows the record, in memory and on disk.
Written(new) == \/ record' = new /\ disk' = new
                \/ record' = record /\ disk' \in {disk, new}

\* Runtimes and indices of a record are numbers.
LEMMA Numbers ==
  ASSUME AgentBounds, NEW R \in Records, NEW t \in Targets
  PROVE  R.targets[t].runtime \in Nat /\ R.targets[t].index \in Nat
<1>1. R.targets[t].runtime \in RuntimeNumbers \union {0} /\ R.targets[t].index \in 0..MaxIndex
  BY DEF Records, TargetStates
<1>. QED
  BY <1>1, Values

\* A record follows itself.
LEMMA Reflexive ==
  ASSUME AgentBounds, NEW R \in Records
  PROVE  Follows(R, R)
BY Numbers DEF Follows

\* A write of a record that follows leaves the disk following the memory.
LEMMA WrittenFollows ==
  ASSUME AgentBounds, AgentTypes, ProjectionInv, NEW new \in Records, Written(new),
         Follows(record, new), Behind(new)
  PROVE  Follows(record, record') /\ Follows(record', disk') /\ Behind(record') /\ Behind(disk')
<1>1. Follows(new, new) /\ Follows(record, record)
  BY Reflexive DEF AgentTypes
<1>. QED
  BY <1>1 DEF Written, ProjectionInv

\* A target that stays where it is, or is started over.
Soft(old, new) ==
    /\ new.runtime = old.runtime /\ new.toldRuntime = old.toldRuntime /\ new.toldIndex = old.toldIndex
    /\ \/ new.state = old.state /\ new.index = old.index
       \/ new.state = "none" /\ new.index = 0 /\ new.component = "initializing"

\* Soft changes follow.
LEMMA SoftFollows ==
  ASSUME AgentBounds, AgentTypes, NEW R \in Records, \A u \in Targets : Soft(record.targets[u], R.targets[u]),
         Behind(record)
  PROVE  Follows(record, R) /\ Behind(R)
<1>1. Behind(R)
  BY DEF Behind, Soft
<1>2. ASSUME NEW t \in Targets
      PROVE  LET old == record.targets[t]
                 new == R.targets[t]
             IN  /\ new.runtime >= old.runtime
                 /\ old.runtime = new.runtime /\ new.index < old.index
                      => new.index = 0 /\ new.component = "initializing"
                 /\ old.runtime = new.runtime /\ old.state # "none" /\ new.state \notin {"none", old.state}
                      => <<t, new.runtime, new.index>> \in Told
  <2>1. /\ record.targets[t].runtime \in Nat /\ record.targets[t].index \in Nat
        /\ R.targets[t].runtime \in Nat /\ R.targets[t].index \in Nat
    BY Numbers DEF AgentTypes
  <2>. QED
    BY <2>1 DEF Soft
<1>. QED
  BY <1>1, <1>2 DEF Follows

\* Every step but a projection and a restart is soft.
LEMMA SoftSteps ==
  ASSUME AgentBounds, AgentTypes, OpsInv, [AgentNext]_agentVars, ~ProjectSnapshot, ~Restart
  PROVE  \E R \in Records : Written(R) /\ \A u \in Targets : Soft(record.targets[u], R.targets[u])
<1>0. \A R : Update(R) => Written(R)
  BY DEF Update, Saved, Unsaved, Written
<1>1. ASSUME UNCHANGED <<record, disk>>
      PROVE  \E R \in Records : Written(R) /\ \A u \in Targets : Soft(record.targets[u], R.targets[u])
  BY <1>1 DEF Written, Soft, AgentTypes
<1>2. ASSUME NEW R, NEW t \in Targets, Update(R), Recolored(R, t)
      PROVE  \E S \in Records : Written(S) /\ \A u \in Targets : Soft(record.targets[u], S.targets[u])
  BY <1>0, <1>2 DEF Recolored, Soft
<1>3. ASSUME NEW i \in Instances, Prepare(i)
      PROVE  \E R \in Records : Written(R) /\ \A u \in Targets : Soft(record.targets[u], R.targets[u])
  <2>1. Update(PreparedRecord(i))
    BY <1>3 DEF Prepare, Update
  <2>2. PreparedRecord(i) \in Records /\ \A u \in Targets : Soft(record.targets[u], PreparedRecord(i).targets[u])
    BY RecordOfPrepare DEF Soft
  <2>. QED
    BY <1>0, <2>1, <2>2
<1>4. ASSUME NEW i \in Instances, AnswerRequest(i)
      PROVE  \E R \in Records : Written(R) /\ \A u \in Targets : Soft(record.targets[u], R.targets[u])
  <2>1. PICK o \in Ops : request[i].op = o
    BY <1>4, Answers
  <2>2. PICK u \in Targets : u = TargetOf[i]
    BY DEF AgentBounds
  <2>3. PICK R : R = Set(u, [record.targets[u] EXCEPT !.op = o, !.component = "initializing"])
    OBVIOUS
  <2>4. Update(R)
    BY <1>4, <2>1, <2>2, <2>3 DEF AnswerRequest
  <2>5. Recolored(R, u)
    BY <2>3, RecordOfAnswer
  <2>. QED
    BY <1>2, <2>4, <2>5
<1>5. ASSUME RejectSnapshot \/ \E i \in Instances : RecordSyncFailure(i)
      PROVE  \E R \in Records : Written(R) /\ \A u \in Targets : Soft(record.targets[u], R.targets[u])
  <2>1. PICK t \in Targets, s \in {"failed", "stale", "available"} :
            Update(Set(t, [record.targets[t] EXCEPT !.sync = s]))
    BY <1>5 DEF RejectSnapshot, RecordSyncFailure, AgentBounds, AgentTypes
  <2>. QED
    BY <1>2, <2>1, RecordOfSync
<1>6. ASSUME NEW o \in Ops, AlreadyCurrent(o) \/ InstallVerified(o)
      PROVE  \E R \in Records : Written(R) /\ \A u \in Targets : Soft(record.targets[u], R.targets[u])
  <2>1. PICK c \in {"ready", "needs_trust"} : MarkTargetComponent(o, c)
    BY <1>6, OperationMoves
  <2>2. Update(MarkedRecord(o, c))
    BY <2>1 DEF MarkTargetComponent, Update
  <2>3. ops[o].target \in Targets
    <3>1. ops[o].pc \in {"working", "verified"}
      BY <1>6 DEF AlreadyCurrent, InstallVerified
    <3>. QED
      BY <3>1 DEF OpsInv, AgentTypes
  <2>4. c \in Components
    BY Values
  <2>. QED
    BY <1>2, <2>2, <2>3, <2>4, RecordOfMark
<1>7. ASSUME NEW o \in Ops, AnnounceInstall(o)
      PROVE  \E R \in Records : Written(R) /\ \A u \in Targets : Soft(record.targets[u], R.targets[u])
  <2>1. PICK R : R = [record EXCEPT !.installation = "initializing"]
    OBVIOUS
  <2>2. R \in Records /\ R.targets = record.targets
    BY <2>1, Values, SetInstallation DEF AgentTypes
  <2>3. Update(R)
    BY <1>7, <2>1 DEF AnnounceInstall, Update
  <2>. QED
    BY <1>0, <2>2, <2>3 DEF Soft
<1>8. ASSUME NEW o \in Ops, SettleCompleted(o) \/ SettleFailed(o)
      PROVE  \E R \in Records : Written(R) /\ \A u \in Targets : Soft(record.targets[u], R.targets[u])
  <2>1. PICK c \in Components : \E R :
            /\ Update(R)
            /\ \/ R = [record EXCEPT !.targets = Settled(o, c)]
               \/ R = [installation |-> IF AnyReady(o) THEN record.installation ELSE "error",
                       targets |-> Settled(o, c)]
    BY <1>8, Values DEF SettleCompleted, SettleFailed, AgentTypes, Operations
  <2>2. PICK R :
            /\ Update(R)
            /\ \/ R = [record EXCEPT !.targets = Settled(o, c)]
               \/ R = [installation |-> IF AnyReady(o) THEN record.installation ELSE "error",
                       targets |-> Settled(o, c)]
    BY <2>1
  <2>3. R \in Records /\ \A u \in Targets : Soft(record.targets[u], R.targets[u])
    BY <2>2, RecordOfSettle, TargetsOfSettle DEF Soft
  <2>. QED
    BY <1>0, <2>2, <2>3
<1>9. CASE \/ \E i \in Instances : Begin(i) \/ JoinOrStart(i) \/ ReadRemoteState(i)
           \/ \E o \in Ops : TakeMutex(o) \/ ProbeFails(o) \/ InstallRemote(o) \/ CompleteInitialization(o)
           \/ \E t \in Targets : HookReports(t) \/ RuntimeRestarts(t) \/ StateFileLost(t)
           \/ GetInitialization \/ JudgeSnapshot \/ MessageDeleted \/ UNCHANGED agentVars
  <2>1. UNCHANGED <<record, disk>>
    BY <1>9 DEF Begin, JoinOrStart, ReadRemoteState, TakeMutex, ProbeFails, InstallRemote,
       CompleteInitialization, HookReports, RuntimeRestarts, StateFileLost, GetInitialization,
       JudgeSnapshot, MessageDeleted, agentVars
  <2>. QED
    BY <1>1, <2>1
<1>. QED
  BY <1>3, <1>4, <1>5, <1>6, <1>7, <1>8, <1>9 DEF AgentNext

\* A session's runtimes only follow each other.
LEMMA RuntimesRise ==
  ASSUME AgentBounds, AgentTypes, [AgentNext]_agentVars, NEW t \in Targets
  PROVE  remote[t].runtime <= remote'[t].runtime
<1>0. remote[t].runtime \in Nat
  <2>1. remote[t].runtime \in RuntimeNumbers
    BY DEF AgentTypes, StateFiles
  <2>. QED
    BY <2>1, Values
<1>1. ASSUME NEW u \in Targets, HookReports(u) \/ RuntimeRestarts(u) \/ StateFileLost(u)
      PROVE  remote[t].runtime <= remote'[t].runtime
  <2>1. remote'[t].runtime = remote[t].runtime \/ remote'[t].runtime = remote[t].runtime + 1
    <3>1. CASE HookReports(u)
      BY <3>1 DEF HookReports, AgentTypes, StateFiles
    <3>2. CASE RuntimeRestarts(u)
      BY <3>2 DEF RuntimeRestarts, AgentTypes
    <3>3. CASE StateFileLost(u)
      BY <3>3 DEF StateFileLost, AgentTypes, StateFiles
    <3>. QED
      BY <1>1, <3>1, <3>2, <3>3
  <2>. QED
    BY <1>0, <2>1
<1>2. CASE remote' = remote
  BY <1>0, <1>2
<1>. QED
  BY <1>1, <1>2 DEF AgentNext, agentVars, Begin, Prepare, JoinOrStart, AnswerRequest, ReadRemoteState,
     RecordSyncFailure, TakeMutex, ProbeFails, AlreadyCurrent, AnnounceInstall, InstallRemote, InstallVerified,
     CompleteInitialization, SettleCompleted, SettleFailed, GetInitialization, RejectSnapshot, JudgeSnapshot,
     ProjectSnapshot, MessageDeleted, Restart

\* The snapshot in hand survives a soft step.
LEMMA SnapKept ==
  ASSUME AgentBounds, AgentTypes, AgentTypes', SnapInv, sync' = sync, Told \subseteq Told',
         \A u \in Targets : Soft(record.targets[u], record'.targets[u]),
         \A u \in Targets : remote[u].runtime <= remote'[u].runtime
  PROVE  SnapInv'
<1>1. CASE sync.pc = "idle"
  BY <1>1 DEF SnapInv
<1>2. CASE sync.pc # "idle"
  <2>1. PICK t, snap : t = sync.target /\ snap = sync.snap
    OBVIOUS
  <2>2. t \in Targets /\ snap \in Snapshots
    BY <1>2, <2>1 DEF AgentTypes
  <2>3. /\ record.targets[t].runtime \in Nat /\ snap.runtime \in Nat /\ snap.index \in Nat
        /\ remote[t].runtime \in Nat /\ remote'[t].runtime \in Nat
    <3>1. /\ snap.runtime \in RuntimeNumbers /\ remote[t].runtime \in RuntimeNumbers
          /\ remote'[t].runtime \in RuntimeNumbers /\ snap.index \in 1..MaxIndex
      BY <2>2 DEF Snapshots, AgentTypes, StateFiles
    <3>2. record.targets[t].runtime \in Nat
      BY <2>2, Numbers DEF AgentTypes
    <3>. QED
      BY <3>1, <3>2, Values
  <2>4. Soft(record.targets[t], record'.targets[t]) /\ remote[t].runtime <= remote'[t].runtime
    BY <2>2
  <2>5. /\ record.targets[t].runtime <= snap.runtime /\ snap.runtime <= remote[t].runtime
        /\ sync.pc = "accepted" =>
              /\ record.targets[t].runtime = snap.runtime =>
                   /\ record.targets[t].index <= snap.index
                   /\ record.targets[t].state \notin {"none", snap.state} => <<t, snap.runtime, snap.index>> \in Told
              /\ sync.key # Nil => sync.key = <<t, snap.runtime, snap.index>> /\ sync.key \in Told
    BY <1>2, <2>1 DEF SnapInv
  <2>6. record'.targets[t].runtime <= snap.runtime /\ snap.runtime <= remote'[t].runtime
    BY <2>3, <2>4, <2>5 DEF Soft
  <2>7. ASSUME sync.pc = "accepted"
        PROVE  /\ record'.targets[t].runtime = snap.runtime =>
                    /\ record'.targets[t].index <= snap.index
                    /\ record'.targets[t].state \notin {"none", snap.state} => <<t, snap.runtime, snap.index>> \in Told'
               /\ sync.key # Nil => sync.key = <<t, snap.runtime, snap.index>> /\ sync.key \in Told'
    BY <2>3, <2>4, <2>5, <2>7 DEF Soft
  <2>. QED
    BY <2>1, <2>6, <2>7 DEF SnapInv
<1>. QED
  BY <1>1, <1>2

\* A snapshot is accepted only when it goes forward, and told before it is.
LEMMA SnapAccepted ==
  ASSUME AgentBounds, AgentTypes, AgentTypes', OpsInv, ProjectionInv, JudgeSnapshot, Told \subseteq Told'
  PROVE  SnapInv'
<1>1. PICK t, snap, old, key : t = sync.target /\ snap = sync.snap /\ old = record.targets[t]
                               /\ key = <<t, snap.runtime, snap.index>>
  OBVIOUS
<1>2. /\ t \in Targets /\ snap \in Snapshots /\ sync.pc = "read"
      /\ ~Stale(old, snap) /\ ~Known(old, snap)
      /\ UNCHANGED <<record, remote>>
  BY <1>1 DEF JudgeSnapshot, AgentTypes
<1>3. /\ old.runtime \in Nat /\ old.index \in Nat /\ snap.runtime \in Nat \ {0} /\ snap.index \in Nat
      /\ key \in Keys /\ key # Nil
  <2>1. snap.runtime \in RuntimeNumbers /\ snap.index \in 1..MaxIndex
    BY <1>2 DEF Snapshots
  <2>2. old.runtime \in Nat /\ old.index \in Nat
    BY <1>1, <1>2, Numbers DEF AgentTypes
  <2>3. key \in Keys
    BY <1>1, <1>2, <2>1 DEF Keys
  <2>4. key # Nil
    BY <2>3 DEF AgentBounds
  <2>. QED
    BY <2>1, <2>2, <2>3, <2>4, Values
<1>4. old.runtime <= snap.runtime /\ snap.runtime <= remote[t].runtime
  BY <1>1, <1>2 DEF ProjectionInv, SnapInv
<1>5. CASE sync' = NoSync
  BY <1>5 DEF NoSync, SnapInv
<1>6. CASE sync' # NoSync
  <2>1. /\ inbox' = IF Transition(old, snap) /\ <<t, old.toldRuntime, old.toldIndex>> # key
                    THEN Appended(key) ELSE inbox
        /\ sync' = [sync EXCEPT !.pc = "accepted", !.key = IF Transition(old, snap) THEN key ELSE Nil]
    BY <1>1, <1>6 DEF JudgeSnapshot
  <2>2. ASSUME Transition(old, snap) PROVE key \in Told'
    <3>1. CASE <<t, old.toldRuntime, old.toldIndex>> = key
      <4>1. old.toldRuntime # 0
        BY <1>1, <1>3, <3>1
      <4>2. key \in Told
        BY <1>1, <1>2, <3>1, <4>1 DEF ProjectionInv, Behind
      <4>. QED
        BY <4>2
    <3>2. CASE <<t, old.toldRuntime, old.toldIndex>> # key
      <4>1. inbox' = Appended(key)
        BY <2>1, <2>2, <3>2
      <4>. QED
        <5>1. \/ key \in inbox.kept /\ inbox' = inbox
              \/ inbox' = [inbox EXCEPT !.log = Append(@, key), !.kept = @ \union {key}]
          BY <4>1 DEF Appended
        <5>2. inbox \in [log : Seq(Keys), kept : SUBSET Keys, forgotten : SUBSET Keys]
          BY DEF AgentTypes
        <5>3. key \in inbox'.kept
          BY <5>1, <5>2
        <5>. QED
          BY <5>3 DEF Told
    <3>. QED
      BY <3>1, <3>2
  <2>3. sync'.target = t /\ sync'.snap = snap /\ sync'.key = IF Transition(old, snap) THEN key ELSE Nil
    BY <1>1, <2>1 DEF AgentTypes
  <2>4. ASSUME old.runtime = snap.runtime
        PROVE  /\ old.index <= snap.index
               /\ old.state \notin {"none", snap.state} => key \in Told'
    <3>1. SameRuntime(old, snap)
      BY <1>3, <2>4 DEF SameRuntime
    <3>2. old.index <= snap.index
      BY <1>2, <1>3, <3>1 DEF Stale
    <3>3. old.state \notin {"none", snap.state} => Transition(old, snap)
      BY <3>1 DEF Transition
    <3>. QED
      BY <2>2, <3>2, <3>3
  <2>5. sync'.key # Nil => sync'.key = key /\ key \in Told'
    BY <2>2, <2>3
  <2>6. record'.targets[t] = old /\ remote' = remote
    BY <1>1, <1>2
  <2>. QED
    BY <1>1, <1>4, <2>3, <2>4, <2>5, <2>6 DEF SnapInv
<1>. QED
  BY <1>5, <1>6

\* What ProjectSnapshot writes follows the record, and its message is stored.
LEMMA ProjectionFollows ==
  ASSUME AgentBounds, AgentTypes, ProjectionInv, ProjectSnapshot
  PROVE  Written(Projected) /\ Follows(record, Projected) /\ Behind(Projected) /\ Projected \in Records
<1>1. Written(Projected) /\ sync.pc = "accepted"
  BY DEF ProjectSnapshot, Projected, Update, Saved, Unsaved, Written
<1>2. PICK t, snap, old, new : t = sync.target /\ snap = sync.snap /\ old = record.targets[t]
                               /\ new = Projected.targets[t]
  OBVIOUS
<1>3. /\ Projected \in Records
      /\ \A u \in Targets \ {t} : Projected.targets[u] = record.targets[u]
      /\ new.component = "ready" /\ new.state = snap.state
      /\ new.index = snap.index /\ new.runtime = snap.runtime
      /\ new.toldRuntime = IF sync.key # Nil THEN snap.runtime ELSE old.toldRuntime
      /\ new.toldIndex = IF sync.key # Nil THEN snap.index ELSE old.toldIndex
  BY <1>1, <1>2, RecordOfProject
<1>4. /\ old.runtime <= snap.runtime /\ snap.runtime <= remote[t].runtime
      /\ old.runtime = snap.runtime =>
           /\ old.index <= snap.index
           /\ old.state \notin {"none", snap.state} => <<t, snap.runtime, snap.index>> \in Told
      /\ sync.key # Nil => <<t, snap.runtime, snap.index>> \in Told
  BY <1>1, <1>2 DEF ProjectionInv, SnapInv
<1>5. t \in Targets
  BY <1>1, <1>2 DEF AgentTypes
<1>6. Behind(Projected)
  <2>1. ASSUME NEW u \in Targets, u # t
        PROVE  /\ Projected.targets[u].runtime <= remote[u].runtime
               /\ Projected.targets[u].toldRuntime # 0 =>
                     <<u, Projected.targets[u].toldRuntime, Projected.targets[u].toldIndex>> \in Told
    BY <1>3, <2>1 DEF ProjectionInv, Behind
  <2>2. new.runtime <= remote[t].runtime
    BY <1>3, <1>4
  <2>3. new.toldRuntime # 0 => <<t, new.toldRuntime, new.toldIndex>> \in Told
    <3>1. CASE sync.key # Nil
      BY <1>3, <1>4, <3>1
    <3>2. CASE sync.key = Nil
      <4>1. old.toldRuntime # 0 => <<t, old.toldRuntime, old.toldIndex>> \in Told
        BY <1>2, <1>5 DEF ProjectionInv, Behind
      <4>. QED
        BY <1>3, <3>2, <4>1
    <3>. QED
      BY <3>1, <3>2
  <2>. QED
    BY <1>2, <2>1, <2>2, <2>3 DEF Behind
<1>7. Follows(record, Projected)
  <2>1. \A u \in Targets : /\ record.targets[u].runtime \in Nat /\ record.targets[u].index \in Nat
                           /\ Projected.targets[u].runtime \in Nat /\ Projected.targets[u].index \in Nat
    BY <1>3, Numbers DEF AgentTypes
  <2>2. ASSUME NEW u \in Targets
        PROVE  /\ Projected.targets[u].runtime >= record.targets[u].runtime
               /\ record.targets[u].runtime = Projected.targets[u].runtime =>
                    /\ ~(Projected.targets[u].index < record.targets[u].index)
                    /\ record.targets[u].state # "none"
                       /\ Projected.targets[u].state \notin {"none", record.targets[u].state}
                       => <<u, Projected.targets[u].runtime, Projected.targets[u].index>> \in Told
    <3>1. CASE u # t
      BY <1>3, <2>1, <3>1
    <3>2. CASE u = t
      BY <1>2, <1>3, <1>4, <2>1, <3>2
    <3>. QED
      BY <3>1, <3>2
  <2>. QED
    BY <2>2 DEF Follows
<1>. QED
  BY <1>1, <1>3, <1>6, <1>7

\* Every step keeps the projection behind the session and the disk following the
\* memory, and each record follows the one before.
LEMMA ProjectionKept ==
  ASSUME AgentBounds, AgentTypes, AgentTypes', OpsInv, ProjectionInv, [AgentNext]_agentVars
  PROVE  ProjectionInv' /\ Follows(record, record')
<1>1. Told \subseteq Told' /\ \A u \in Targets : remote[u].runtime <= remote'[u].runtime
  BY ToldGrows, RuntimesRise
<1>2. Follows(record, record') /\ Follows(record', disk') /\ Behind(record') /\ Behind(disk')
  <2>1. CASE Restart
    <3>1. record' = disk /\ disk' = disk
      BY <2>1 DEF Restart
    <3>2. Follows(disk, disk)
      BY Reflexive DEF AgentTypes
    <3>. QED
      BY <3>1, <3>2 DEF ProjectionInv
  <2>2. CASE ProjectSnapshot
    BY <2>2, ProjectionFollows, WrittenFollows
  <2>3. CASE ~Restart /\ ~ProjectSnapshot
    <3>1. PICK R \in Records : Written(R) /\ \A u \in Targets : Soft(record.targets[u], R.targets[u])
      BY <2>3, SoftSteps
    <3>2. Follows(record, R) /\ Behind(R)
      BY <3>1, SoftFollows DEF ProjectionInv
    <3>. QED
      BY <3>1, <3>2, WrittenFollows
  <2>. QED
    BY <2>1, <2>2, <2>3
<1>3. Follows(record, disk)'
  BY <1>1, <1>2 DEF Follows
<1>4. ASSUME NEW R, R \in Records, Behind(R)
      PROVE  \A t \in Targets : /\ R.targets[t].runtime <= remote'[t].runtime
                                /\ R.targets[t].toldRuntime # 0 =>
                                      <<t, R.targets[t].toldRuntime, R.targets[t].toldIndex>> \in Told'
  <2>1. ASSUME NEW t \in Targets PROVE R.targets[t].runtime <= remote'[t].runtime
    <3>1. /\ R.targets[t].runtime <= remote[t].runtime /\ remote[t].runtime <= remote'[t].runtime
      BY <1>1, <1>4 DEF Behind
    <3>2. R.targets[t].runtime \in Nat
      BY <1>4, Numbers
    <3>3. remote[t].runtime \in RuntimeNumbers /\ remote'[t].runtime \in RuntimeNumbers
      BY DEF AgentTypes, StateFiles
    <3>. QED
      BY <3>1, <3>2, <3>3, Values
  <2>. QED
    BY <1>1, <1>4, <2>1 DEF Behind
<1>5. record' \in Records /\ disk' \in Records
  BY DEF AgentTypes
<1>6. Behind(record)' /\ Behind(disk)'
  BY <1>2, <1>4, <1>5 DEF Behind
<1>7. SnapInv'
  <2>1. CASE sync'.pc = "idle"
    BY <2>1 DEF SnapInv
  <2>2. CASE JudgeSnapshot
    BY <1>1, <2>2, SnapAccepted
  <2>3. ASSUME NEW i \in Instances, ReadRemoteState(i) PROVE SnapInv'
    <3>1. PICK t \in Targets : t = TargetOf[i]
      BY DEF AgentBounds
    <3>2. sync'.pc = "read" /\ sync'.target = t /\ sync'.snap = remote[t] /\ UNCHANGED <<record, remote>>
      BY <2>3, <3>1 DEF ReadRemoteState
    <3>3. record.targets[t].runtime <= remote[t].runtime
      BY DEF ProjectionInv, Behind
    <3>4. remote[t].runtime \in RuntimeNumbers
      BY DEF AgentTypes, StateFiles
    <3>5. remote[t].runtime <= remote[t].runtime
      BY <3>4, Values
    <3>. QED
      BY <3>2, <3>3, <3>5 DEF SnapInv
  <2>4. CASE ~JudgeSnapshot /\ sync'.pc # "idle" /\ \A i \in Instances : ~ReadRemoteState(i)
    <3>1. sync' = sync /\ ~Restart /\ ~ProjectSnapshot
      <4>1. Restart \/ ProjectSnapshot \/ RejectSnapshot => sync' = NoSync
        BY DEF Restart, ProjectSnapshot, RejectSnapshot
      <4>2. ~Restart /\ ~ProjectSnapshot /\ ~RejectSnapshot
        BY <2>4, <4>1 DEF NoSync
      <4>3. sync' = sync
        BY <2>4, <4>2 DEF AgentNext, agentVars, Begin, Prepare, JoinOrStart, AnswerRequest,
           RecordSyncFailure, TakeMutex, ProbeFails, AlreadyCurrent, AnnounceInstall, InstallRemote,
           InstallVerified, CompleteInitialization, SettleCompleted, SettleFailed, GetInitialization,
           HookReports, RuntimeRestarts, StateFileLost, MessageDeleted
      <4>. QED
        BY <4>2, <4>3
    <3>2. PICK R \in Records : Written(R) /\ \A u \in Targets : Soft(record.targets[u], R.targets[u])
      BY <3>1, SoftSteps
    <3>3. \A u \in Targets : Soft(record.targets[u], record'.targets[u])
      BY <3>2 DEF Written, Soft
    <3>. QED
      BY <1>1, <3>1, <3>3, SnapKept DEF ProjectionInv
  <2>. QED
    BY <2>1, <2>2, <2>3, <2>4
<1>. QED
  BY <1>2, <1>3, <1>6, <1>7 DEF ProjectionInv

-----------------------------------------------------------------------------
(* The invariant and what follows from it                                  *)

\* The invariant holds initially.
LEMMA AgentInitially ==
  ASSUME AgentBounds, AgentInit
  PROVE  AgentTypes /\ AgentInv
<1>. USE DEF AgentInit
<1>1. Blank \in TargetStates /\ Blank.component = "none" /\ Blank.runtime = 0 /\ Blank.toldRuntime = 0
  BY Values DEF Blank, TargetStates, Times
<1>2. record \in Records /\ disk = record /\ \A t \in Targets : record.targets[t] = Blank
  BY <1>1, Values DEF Records
<1>3. request \in [Instances -> Requests] /\ \A i \in Instances : request[i].pc = "idle"
  BY Values DEF Idle, Requests
<1>4. ops \in [Ops -> Operations] /\ \A o \in Ops : ops[o].status = "unused" /\ ops[o].pc = "none"
  BY Values DEF Unused, Operations, Phases
<1>5. remote \in [Targets -> StateFiles] /\ \A t \in Targets : remote[t].runtime = 1 /\ remote[t].index = 0
  BY Values DEF StateFiles
<1>6. AgentTypes
  <2>1. sync \in [pc : {"idle", "read", "accepted"}, target : Targets \union {Nil},
                  snap : Snapshots \union {Nil}, key : Keys \union {Nil}] /\ sync.pc = "idle"
    BY DEF NoSync
  <2>2. inbox \in [log : Seq(Keys), kept : SUBSET Keys, forgotten : SUBSET Keys]
    OBVIOUS
  <2>3. \A t \in Targets : ~(remote[t].index > 0)
    BY <1>5
  <2>4. faults \in 0..MaxFaults
    BY Values
  <2>. QED
    BY <1>2, <1>3, <1>4, <1>5, <2>1, <2>2, <2>3, <2>4 DEF AgentTypes
<1>7. OpsInv
  BY <1>3, <1>4 DEF OpsInv, CreatedBy, AtWork
<1>8. InstalledInv
  BY <1>1, <1>2, <1>4 DEF InstalledInv, Believed, NoSync
<1>9. AwaitedInv
  BY <1>1, <1>2 DEF AwaitedInv
<1>10. MessagesInv
  BY DEF MessagesInv, ToldOnce
<1>11. ProjectionInv
  <2>1. Behind(record)
    BY <1>1, <1>2, <1>5 DEF Behind
  <2>2. Follows(record, disk)
    BY <1>2, Reflexive
  <2>3. SnapInv
    BY DEF SnapInv, NoSync
  <2>. QED
    BY <1>2, <2>1, <2>2, <2>3 DEF ProjectionInv
<1>. QED
  BY <1>6, <1>7, <1>8, <1>9, <1>10, <1>11 DEF AgentInv

\* The invariant holds always.
LEMMA AgentInductive ==
  ASSUME AgentBounds
  PROVE  AgentSpec => [](AgentTypes /\ AgentInv)
<1>1. AgentInit => AgentTypes /\ AgentInv
  BY AgentInitially
<1>2. AgentTypes /\ AgentInv /\ [AgentNext]_agentVars => (AgentTypes /\ AgentInv)'
  <2>. SUFFICES ASSUME AgentTypes, AgentInv, [AgentNext]_agentVars PROVE (AgentTypes /\ AgentInv)'
    OBVIOUS
  <2>1. AgentTypes'
    BY AgentTyped DEF AgentInv
  <2>2. OpsInv' /\ InstalledInv' /\ AwaitedInv' /\ MessagesInv' /\ ProjectionInv'
    BY <2>1, OpsKept, InstalledKept, AwaitedKept, MessagesKept, ProjectionKept DEF AgentInv
  <2>. QED
    BY <2>1, <2>2 DEF AgentInv
<1>. QED
  BY <1>1, <1>2, PTL DEF AgentSpec

\* An endpoint is prepared by one operation at a time, which ends for all who
\* wait for it, and is believed to be ready only when the component is there.
THEOREM PreparationIsSafe ==
  ASSUME AgentBounds
  PROVE  AgentSpec => []PreparationSafe
<1>1. AgentTypes /\ AgentInv => PreparationSafe
  <2>. SUFFICES ASSUME AgentTypes, AgentInv PROVE PreparationSafe
    OBVIOUS
  <2>. USE DEF AgentInv
  <2>1. AgentTypeOK
    <3>1. \A i \in Instances : request[i].pc \in {"idle", "checked", "prepared", "joined", "created"}
      BY DEF AgentTypes, Requests
    <3>2. \A o \in Ops : /\ ops[o].status \in {"unused", "running", "completed", "failed", "gone"}
                         /\ ops[o].pc \in Phases
      BY DEF AgentTypes, Operations
    <3>3. \A n \in DOMAIN inbox.log : inbox.log[n] \in Keys
      <4>1. inbox.log \in Seq(Keys)
        BY DEF AgentTypes
      <4>. QED
        BY <4>1
    <3>4. sync.pc \in {"idle", "read", "accepted"}
      BY DEF AgentTypes
    <3>. QED
      BY <3>1, <3>2, <3>3, <3>4 DEF AgentTypes, AgentTypeOK
  <2>2. OneOperation
    <3>1. PICK S : S = {o \in Ops : ops[o].pc \in {"queued", "working", "installing", "verified", "marked"}}
      OBVIOUS
    <3>2. \A o \in S : ops[o].status = "running" /\ current = o
      BY <3>1 DEF OpsInv, AtWork
    <3>3. S = {} \/ S = {current}
      BY <3>2
    <3>4. Cardinality(S) <= 1
      BY <3>3, FS_EmptySet, FS_Singleton
    <3>. QED
      BY <3>1, <3>2, <3>4 DEF OneOperation
  <2>3. ReadyIsInstalled
    BY DEF InstalledInv, Believed, ReadyIsInstalled
  <2>4. SettledTargets
    <3>. SUFFICES ASSUME \A i \in Instances : request[i].pc = "idle", \A o \in Ops : ops[o].pc \in {"none", "done"},
                         faults = 0, NEW t \in Targets \ late, record.targets[t].component = "initializing"
                  PROVE  FALSE
      BY DEF SettledTargets
    <3>1. Awaited(t)
      BY DEF AwaitedInv
    <3>2. PICK o \in Ops : ops[o].status # "unused" /\ ops[o].pc = "none"
      BY <3>1 DEF Awaited
    <3>3. \E i \in Instances : CreatedBy(i, o)
      BY <3>2 DEF OpsInv
    <3>. QED
      BY <3>3 DEF CreatedBy
  <2>. QED
    BY <2>1, <2>2, <2>3, <2>4 DEF PreparationSafe
<1>. QED
  BY <1>1, AgentInductive, PTL

\* No change of state is told twice, unless the user deleted its message.
THEOREM ChangesAreToldOnce ==
  ASSUME AgentBounds
  PROVE  AgentSpec => []ToldOnce
<1>1. AgentInv => ToldOnce
  BY DEF AgentInv, MessagesInv
<1>. QED
  BY <1>1, AgentInductive, PTL

\* The projection only goes forward, also over restarts and failed writes, and
\* no change of state within a runtime passes untold.
THEOREM ProjectionGoesForward ==
  ASSUME AgentBounds
  PROVE  AgentSpec => [][ProjectionForward /\ ChangesAreTold]_agentVars
<1>1. AgentTypes /\ AgentInv /\ [AgentNext]_agentVars => ProjectionForward /\ ChangesAreTold
  <2>. SUFFICES ASSUME AgentTypes, AgentInv, [AgentNext]_agentVars PROVE ProjectionForward /\ ChangesAreTold
    OBVIOUS
  <2>1. AgentTypes'
    BY AgentTyped DEF AgentInv
  <2>2. Follows(record, record')
    BY <2>1, ProjectionKept DEF AgentInv
  <2>. QED
    BY <2>2 DEF Follows, Told, ProjectionForward, ChangesAreTold
<1>. QED
  BY <1>1, AgentInductive, PTL DEF AgentSpec
=============================================================================
