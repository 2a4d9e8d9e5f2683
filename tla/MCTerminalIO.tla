---------------------------- MODULE MCTerminalIO ----------------------------
(***************************************************************************)
(* The modules of a terminal's input and output in one TLC run: the stream *)
(* of a session to its clients, the snapshot saver and the worker client.  *)
(* They are checked one at a time: `focus' is chosen initially and only    *)
(* that module moves, so the states of the run are the sum of theirs, not  *)
(* the product.                                                            *)
(***************************************************************************)
EXTENDS TerminalStream, SnapshotSaver, WorkerClient

CONSTANTS r1, r2, c1, c2, s1, s2, t1, t2

VARIABLE focus

streamVars == vars

IOInit ==
    /\ focus \in {"stream", "saver", "worker"}
    /\ Init /\ SaverInit /\ WorkerInit
IONext ==
    \/ focus = "stream" /\ Next        /\ UNCHANGED <<focus, saverVars, workerVars>>
    \/ focus = "saver"  /\ SaverNext   /\ UNCHANGED <<focus, streamVars, workerVars>>
    \/ focus = "worker" /\ WorkerNext /\ UNCHANGED <<focus, streamVars, saverVars>>
IOSpec == IOInit /\ [][IONext]_<<focus, streamVars, saverVars, workerVars>>

ASSUME Bounds /\ SaverBounds /\ WorkerBounds
=============================================================================
