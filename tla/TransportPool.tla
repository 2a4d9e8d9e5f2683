---------------------------- MODULE TransportPool ----------------------------
(***************************************************************************)
(* The pool of SSH transports (src/backend/internal/connection): an        *)
(* instance opens a control master, others reuse it, and monitor, file     *)
(* system and agent commands borrow it as auxiliary channels.              *)
(*                                                                         *)
(* A transport is named by the instance that opened it.  One action is one *)
(* critical section of TransportPool.mu or one call made without the lock, *)
(* so a reuse, an exit, a release and Shutdown interleave as they may in   *)
(* the code.  How an instance lives in the terminal runtime is             *)
(* TerminalLifecycle; here it is created, fails, or ends through its hook. *)
(***************************************************************************)
EXTENDS Integers, FiniteSets

CONSTANTS Owners,       \* instances that open a transport of their own
          Derived,      \* instances created with reuseFrom
          AuxUsers,     \* auxiliary commands, readers, transfer leases, probes
          None

ASSUME KindAssumption ==
    /\ Owners \cap Derived = {} /\ (Owners \union Derived) \cap AuxUsers = {}
    /\ None \notin Owners \union Derived \union AuxUsers
ASSUME FiniteAssumption == IsFiniteSet(Owners \union Derived) /\ IsFiniteSet(AuxUsers)

Ids     == Owners \union Derived
Stages  == {"fresh", "found", "checked", "creating", "live", "hooked", "ended", "failed"}
Started == {"live", "hooked", "ended"}
AuxStages == {"idle", "found", "reserved", "using"}

VARIABLES
    transports,             \* TransportPool.transports, as a set of owners
    instances,              \* TransportPool.instances: a transport or None
    channels, auxiliary,    \* Transport.Channels, Transport.AuxiliaryChannels
    ownerClosed, draining,  \* Transport.OwnerClosed, Transport.Draining, as sets
    stage,                  \* progress and life of every instance
    target, source,         \* the transport, and reuseFrom, of its creating request
    auxStage, auxTarget,    \* progress of every auxiliary user, and its transport
    stopping, stopped,      \* stopTransport is called; it has removed the socket
    mode,                   \* "up"; "down" once Shutdown has cleared the pool
    cleared, abandoned      \* history: transports cleared by Shutdown; transports
                            \* whose last channel a failed reuse gave back

pool   == <<transports, instances, channels, auxiliary, ownerClosed, draining>>
life   == <<stage, target, source>>
aux    == <<auxStage, auxTarget>>
stops  == <<stopping, stopped, mode, cleared, abandoned>>
vars   == <<pool, life, aux, stops>>

Init ==
    /\ transports = {} /\ instances = [id \in Ids |-> None]
    /\ channels = [t \in Owners |-> 0] /\ auxiliary = [t \in Owners |-> 0]
    /\ ownerClosed = {} /\ draining = {}
    /\ stage = [id \in Ids |-> "fresh"]
    /\ target = [id \in Ids |-> IF id \in Owners THEN id ELSE None]
    /\ source = [id \in Ids |-> None]
    /\ auxStage = [u \in AuxUsers |-> "idle"] /\ auxTarget = [u \in AuxUsers |-> None]
    /\ stopping = {} /\ stopped = {} /\ mode = "up"
    /\ cleared = {} /\ abandoned = {}

SetStage(id, value) == stage' = [stage EXCEPT ![id] = value]

-----------------------------------------------------------------------------
(* createRemote and createRemoteTmux                                       *)

CreateOwner(t) ==
    /\ stage[t] = "fresh" /\ t \in Owners
    /\ transports' = transports \union {t}
    /\ instances' = [instances EXCEPT ![t] = t]
    /\ channels' = [channels EXCEPT ![t] = 1]
    /\ SetStage(t, "creating")
    /\ UNCHANGED <<auxiliary, ownerClosed, draining, target, source, aux, stops>>

\* No capacity, no worker, no process: the transport is dropped and its
\* directory removed.
CreateOwnerFails(t) ==
    /\ stage[t] = "creating" /\ t \in Owners
    /\ transports' = transports \ {t}
    /\ instances' = [instances EXCEPT ![t] = None]
    /\ stopped' = stopped \union {t}
    /\ SetStage(t, "failed")
    /\ UNCHANGED <<channels, auxiliary, ownerClosed, draining, target, source, aux,
                   stopping, mode, cleared, abandoned>>

\* The terminal runtime has published the instance.
CreateReturns(id) ==
    /\ stage[id] = "creating"
    /\ SetStage(id, "live")
    /\ UNCHANGED <<pool, target, source, aux, stops>>

-----------------------------------------------------------------------------
(* createReuse and createReuseTmux                                         *)

\* The transport of the source; that of a derived source is looked up again
\* under the name of its owner.
ReuseLookup(id, from) ==
    /\ stage[id] = "fresh" /\ id \in Derived
    /\ instances[from] # None
    /\ instances[from] = from \/ instances[from] \in transports
    /\ target' = [target EXCEPT ![id] = instances[from]]
    /\ source' = [source EXCEPT ![id] = from]
    /\ SetStage(id, "found")
    /\ UNCHANGED <<pool, aux, stops>>

\* The request gives up: its identifier is not used, so that it may be tried again.
Refuse(id) ==
    /\ SetStage(id, "fresh")
    /\ target' = [target EXCEPT ![id] = None]
    /\ source' = [source EXCEPT ![id] = None]

\* The source is gone, the socket does not answer, the definition differs, or
\* its revision has changed; the latter drains the transport.
ReuseRefused(id) ==
    /\ stage[id] = "found" /\ Refuse(id)
    /\ draining' \in {draining, draining \union {target[id]}}
    /\ UNCHANGED <<transports, instances, channels, auxiliary, ownerClosed, aux, stops>>

ReuseChecked(id) ==
    /\ stage[id] = "found" /\ stage[source[id]] = "live"
    /\ target[id] \notin draining /\ target[id] \notin stopped
    /\ SetStage(id, "checked")
    /\ source' = [source EXCEPT ![id] = None]
    /\ UNCHANGED <<pool, target, aux, stops>>

\* Mutant: the checks made before the lock are trusted.
AcceptsReuse_Unchecked(t) == TRUE

\* transportAcceptsReuse, again, under the lock.
AcceptsReuse(t) == channels[t] > 0 /\ t \notin draining

ReuseReserve(id) ==
    /\ stage[id] = "checked"
    /\ IF AcceptsReuse(target[id])
         THEN /\ channels' = [channels EXCEPT ![target[id]] = @ + 1]
              /\ instances' = [instances EXCEPT ![id] = target[id]]
              /\ SetStage(id, "creating")
              /\ UNCHANGED <<target, source>>
         ELSE Refuse(id) /\ UNCHANGED <<channels, instances>>
    /\ UNCHANGED <<transports, auxiliary, ownerClosed, draining, aux, stops>>

\* shouldStop of finishInstance and releaseAuxiliary, for the counts that result.
ShouldStop(t, instanceChannels, auxiliaryChannels, closedOwners) ==
    t \in closedOwners /\ instanceChannels = 0 /\ auxiliaryChannels = 0

\* Mutant: the mapping of the instance is kept.
ReuseFails_KeepsMapping(id) ==
    /\ stage[id] = "creating" /\ id \in Derived
    /\ channels' = [channels EXCEPT ![target[id]] = @ - 1]
    /\ SetStage(id, "failed")
    /\ UNCHANGED <<transports, instances, auxiliary, ownerClosed, draining, target, source,
                   aux, stops>>

\* The channel is given back, without looking whether it was the last one.
ReuseFails(id) ==
    /\ stage[id] = "creating" /\ id \in Derived
    /\ channels' = [channels EXCEPT ![target[id]] = @ - 1]
    /\ instances' = [instances EXCEPT ![id] = None]
    /\ abandoned' = IF ShouldStop(target[id], channels'[target[id]],
                                  auxiliary[target[id]], ownerClosed)
                      THEN abandoned \union {target[id]} ELSE abandoned
    /\ SetStage(id, "failed")
    /\ UNCHANGED <<transports, auxiliary, ownerClosed, draining, target, source, aux,
                   stopping, stopped, mode, cleared>>

-----------------------------------------------------------------------------
(* The end of an instance: finishInstance                                  *)

\* The process exits, or is killed by DELETE, an abort or Shutdown: the exit hook
\* is taken.
Exits(id) ==
    /\ stage[id] = "live"
    /\ SetStage(id, "hooked")
    /\ UNCHANGED <<pool, target, source, aux, stops>>

\* One channel less, and the last one stops the transport.
CountDown(id, t, auxiliaryChannels) ==
    /\ channels' = [channels EXCEPT ![t] = IF @ > 0 THEN @ - 1 ELSE 0]
    /\ ownerClosed' = IF id = t THEN ownerClosed \union {t} ELSE ownerClosed
    /\ IF ShouldStop(t, channels'[t], auxiliaryChannels, ownerClosed')
         THEN transports' = transports \ {t} /\ stopping' = stopping \union {t}
         ELSE UNCHANGED <<transports, stopping>>
    /\ UNCHANGED <<auxiliary, draining, stopped, mode, cleared, abandoned>>

FinishInstance(id) ==
    IF instances[id] = None THEN UNCHANGED <<pool, stops>>
    ELSE /\ instances' = [instances EXCEPT ![id] = None]
         /\ CountDown(id, instances[id], auxiliary[instances[id]])

\* The exit hook.
HookFinishes(id) ==
    /\ stage[id] = "hooked" /\ FinishInstance(id)
    /\ SetStage(id, "ended")
    /\ UNCHANGED <<target, source, aux>>

\* Manager.Delete calls finishInstance as well, before or after the hook does.
DeleteFinishes(id) ==
    /\ stage[id] \in {"hooked", "ended"} /\ FinishInstance(id)
    /\ UNCHANGED <<life, aux>>

-----------------------------------------------------------------------------
(* Auxiliary channels                                                      *)

Holds(u, t) == auxTarget[u] = t /\ auxStage[u] \in {"reserved", "using"}

\* lookupRemoteTransport and ownerTransport know a transport through an instance
\* that was published, and so does the marker callback of a launch, which does not
\* look into the pool; what they see may change before the reservation.
AuxFind(u, t) ==
    /\ auxStage[u] = "idle"
    /\ \E id \in Ids : target[id] = t /\ stage[id] \in Started
    /\ auxStage' = [auxStage EXCEPT ![u] = "found"]
    /\ auxTarget' = [auxTarget EXCEPT ![u] = t]
    /\ UNCHANGED <<pool, life, stops>>

AuxIdle(u) ==
    /\ auxStage' = [auxStage EXCEPT ![u] = "idle"]
    /\ auxTarget' = [auxTarget EXCEPT ![u] = None]

\* Mutant: the transport that was looked up is reserved without looking again.
AcceptsAuxiliary_Stale(t) == TRUE

\* A draining transport is still good for auxiliary channels.
AcceptsAuxiliary(t) == t \in transports /\ channels[t] > 0

AuxReserve(u) ==
    /\ auxStage[u] = "found"
    /\ IF AcceptsAuxiliary(auxTarget[u])
         THEN /\ auxiliary' = [auxiliary EXCEPT ![auxTarget[u]] = @ + 1]
              /\ auxStage' = [auxStage EXCEPT ![u] = "reserved"]
              /\ UNCHANGED auxTarget
         ELSE AuxIdle(u) /\ UNCHANGED auxiliary
    /\ UNCHANGED <<transports, instances, channels, ownerClosed, draining, life, stops>>

\* transportReady: the control socket answers.
AuxUses(u) ==
    /\ auxStage[u] = "reserved" /\ auxTarget[u] \notin stopped
    /\ auxStage' = [auxStage EXCEPT ![u] = "using"]
    /\ UNCHANGED <<pool, life, auxTarget, stops>>

\* Mutant: the last auxiliary user leaves the transport running.
AuxRelease_NoStop(u) ==
    LET t == auxTarget[u] IN
    /\ auxStage[u] \in {"reserved", "using"} /\ AuxIdle(u)
    /\ auxiliary' = [auxiliary EXCEPT ![t] = IF @ > 0 THEN @ - 1 ELSE 0]
    /\ UNCHANGED <<transports, instances, channels, ownerClosed, draining, life, stops>>

\* The socket does not answer, the request is cancelled, or the command is done.
AuxRelease(u) ==
    LET t == auxTarget[u] IN
    /\ auxStage[u] \in {"reserved", "using"} /\ AuxIdle(u)
    /\ auxiliary' = [auxiliary EXCEPT ![t] = IF @ > 0 THEN @ - 1 ELSE 0]
    /\ IF ShouldStop(t, channels[t], auxiliary'[t], ownerClosed) /\ t \in transports
         THEN transports' = transports \ {t} /\ stopping' = stopping \union {t}
         ELSE UNCHANGED <<transports, stopping>>
    /\ UNCHANGED <<instances, channels, ownerClosed, draining, life, stopped, mode,
                   cleared, abandoned>>

-----------------------------------------------------------------------------
(* The watcher of the SSH config, stopTransport, and Shutdown              *)

\* refreshSources works on a copy of the pool, so the transport may be gone.
RefreshSources(t) ==
    /\ stage[t] # "fresh"
    /\ draining' = draining \union {t}
    /\ UNCHANGED <<transports, instances, channels, auxiliary, ownerClosed, life, aux, stops>>

StopTransport(t) ==
    /\ t \in stopping
    /\ stopping' = stopping \ {t} /\ stopped' = stopped \union {t}
    /\ UNCHANGED <<pool, life, aux, mode, cleared, abandoned>>

\* Requests that the HTTP server has not finished go on afterwards.
Shutdown ==
    /\ mode = "up" /\ mode' = "down"
    /\ stopping' = stopping \union transports
    /\ cleared' = cleared \union transports
    /\ transports' = {} /\ instances' = [id \in Ids |-> None]
    /\ UNCHANGED <<channels, auxiliary, ownerClosed, draining, life, aux, stopped, abandoned>>

Opening(id) == CreateOwner(id) \/ CreateOwnerFails(id) \/ CreateReturns(id)
Reusing(id) == ReuseRefused(id) \/ ReuseChecked(id) \/ ReuseReserve(id) \/ ReuseFails(id)
Ending(id)  == Exits(id) \/ HookFinishes(id) \/ DeleteFinishes(id)
Using(u)    == AuxReserve(u) \/ AuxUses(u) \/ AuxRelease(u)

Next ==
    \/ \E id \in Ids : Opening(id) \/ Reusing(id) \/ Ending(id)
    \/ \E id, from \in Ids : ReuseLookup(id, from)
    \/ \E u \in AuxUsers : Using(u)
    \/ \E u \in AuxUsers, t \in Owners : AuxFind(u, t)
    \/ \E t \in Owners : RefreshSources(t) \/ StopTransport(t)
    \/ Shutdown

Spec == Init /\ [][Next]_vars

\* stopTransport runs `ssh -O exit' and removes the directory; nobody owes an exit
\* or the end of an auxiliary command.
FairSpec == Spec /\ \A t \in Owners : WF_vars(StopTransport(t))
-----------------------------------------------------------------------------
(* Properties                                                              *)

\* Every variable stays in its range.
TypeOK ==
    /\ transports \subseteq Owners
    /\ instances \in [Ids -> Owners \union {None}]
    /\ channels \in [Owners -> Nat] /\ auxiliary \in [Owners -> Nat]
    /\ ownerClosed \subseteq Owners /\ draining \subseteq Owners
    /\ stage \in [Ids -> Stages]
    /\ target \in [Ids -> Owners \union {None}]
    /\ source \in [Ids -> Ids \union {None}]
    /\ auxStage \in [AuxUsers -> AuxStages]
    /\ auxTarget \in [AuxUsers -> Owners \union {None}]
    /\ stopping \subseteq Owners /\ stopped \subseteq Owners
    /\ mode \in {"up", "down"}
    /\ cleared \subseteq Owners /\ abandoned \subseteq Owners

\* The counters are the number of users: however creations, failed reuses, exits
\* that are reported twice, releases and Shutdown interleave, no channel is
\* counted twice, forgotten, or given back by somebody who does not hold it.
CountsExact ==
    /\ \A t \in transports : channels[t] = Cardinality({id \in Ids : instances[id] = t})
    /\ \A t \in Owners : auxiliary[t] = Cardinality({u \in AuxUsers : Holds(u, t)})

\* transport_pool.go: "Existing terminal instances must keep their FileSystem and
\* monitor channels until the owner and all derived instances have exited".
KeepsTransport ==
    \A id \in Ids :
        stage[id] \in {"creating", "live"} /\ target[id] \notin cleared =>
            /\ instances[id] = target[id] /\ target[id] \in transports
            /\ target[id] \notin stopping \union stopped

\* remote_monitor_adapter.go: "The pin closes the owner-exit cleanup race: once the
\* reservation succeeds, finishInstance cannot remove the mux directory until the
\* auxiliary command releases its channel".
PinHolds ==
    \A u \in AuxUsers, t \in Owners :
        Holds(u, t) /\ t \notin cleared => t \notin stopping \union stopped

\* Nobody loses the control master he uses, as an instance or as an auxiliary user.
TransportStays == KeepsTransport /\ PinHolds

\* The pool implements the shared master.
UsersOf(t) ==
    {id \in Ids : instances[id] = t} \union {u \in AuxUsers : Holds(u, t)}
MasterState ==
    [t \in Owners |-> IF stage[t] = "fresh" THEN "absent"
                      ELSE IF t \in transports THEN "open" ELSE "closed"]
MasterUsers == [t \in Owners |-> IF t \in transports THEN UsersOf(t) ELSE {}]
Master == INSTANCE SharedMaster WITH Masters <- Owners, Users <- Ids \union AuxUsers,
                                     state <- MasterState, users <- MasterUsers
SharesMaster == Master!Spec

\* A transport whose owner and users are all gone is stopped, whoever left last
\* (a reuse that fails excepted, see LastReleaseCleans).
Released(t) ==
    t \in ownerClosed /\ channels[t] = 0 /\ auxiliary[t] = 0 /\ t \notin abandoned
ReleasedStops == \A t \in Owners : Released(t) ~> t \in stopped

-----------------------------------------------------------------------------
(* What the documentation says and the code does not do                    *)

\* transport_watch.go: "The final owner/auxiliary release performs cleanup": no
\* transport stays in the pool when its owner and all its users are gone.
LastReleaseCleans ==
    \A t \in transports : ~ShouldStop(t, channels[t], auxiliary[t], ownerClosed)
=============================================================================
