---------------------------- MODULE MCObservation ----------------------------
(***************************************************************************)
(* The way of an agent's state to the server in one TLC run: the hook that *)
(* records it on the remote host, the installer of that hook, and the      *)
(* server that initialises and observes it, seen twice: one session that   *)
(* is observed, two that are initialised together.  `focus' is chosen      *)
(* initially and only that module moves, so the states of the run are the  *)
(* sum of theirs, not the product.                                         *)
(***************************************************************************)
EXTENDS HookState, HookInstall, AgentObservation, TLC

CONSTANTS h1, h2, h3, r1, r2, p1, p2, p3

RunsIn  == (h1 :> r1) @@ (h2 :> r1) @@ (h3 :> r2)
Reports == [a |-> "running", b |-> "relax", c |-> None]
\* Two servers with an older component, one with a newer.
Carries == (p1 :> 1) @@ (p2 :> 2) @@ (p3 :> 1)
Sessions == [i |-> "t", j |-> "s"]
\* A session is recreated twice; the last runtime has the age of the first.
Recreated == <<[created |-> 2, socket |-> 1], [created |-> 1, socket |-> 1],
               [created |-> 2, socket |-> 1]>>

VARIABLE focus

\* "observe": one connection initialises its session once, and is observed.
ObserveOne ==
    /\ UNCHANGED <<ops[2], request["j"], remote["s"]>> /\ "j" \notin bound'
    /\ ops[1].status = "unused" \/ request'["i"].pc \in {request["i"].pc, "idle"}
\* "prepare": two connections initialise their sessions, and nothing is reported or lost.
PrepareTwo == UNCHANGED <<remote, faults>>

ObservationInit ==
    /\ focus \in {"hook", "install", "observe", "prepare"}
    /\ HookInit /\ InstallInit /\ AgentInit
ObservationNext ==
    \/ focus = "hook" /\ HookNext /\ UNCHANGED <<focus, installVars, agentVars>>
    \/ focus = "install" /\ InstallNext /\ UNCHANGED <<focus, hookVars, agentVars>>
    \/ /\ focus = "observe" /\ AgentNext /\ ObserveOne
       /\ UNCHANGED <<focus, hookVars, installVars>>
    \/ /\ focus = "prepare" /\ AgentNext /\ PrepareTwo
       /\ UNCHANGED <<focus, hookVars, installVars>>
ObservationSpec ==
    ObservationInit /\ [][ObservationNext]_<<focus, hookVars, installVars, agentVars>>

ASSUME HookBounds /\ InstallBounds /\ AgentBounds

\* From the hook's file to the messages of the server, an agent's state only goes
\* forward, and no step of it is passed over in silence.
NothingGoesBack ==
    [][/\ IndexRises /\ NeverOlder
       /\ ProjectionForward /\ ChangesAreTold]_<<hookVars, installVars, agentVars>>
=============================================================================
