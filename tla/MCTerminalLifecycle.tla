------------------------ MODULE MCTerminalLifecycle ------------------------
(* Model values for TerminalLifecycle: one local shell and one SSH launch.  *)
EXTENDS TerminalLifecycle, TLC

CONSTANTS local, launch, r1, r2

\* CONSTRAINT of the passing run: a behaviour follows one instance, so the run
\* has the states of the shell and those of the launch, not their product.
OneInstance == Cardinality({id \in Ids : creator[id] # "fresh"}) <= 1

\* SYMMETRY: requests differ in nothing but their names.
RequestsAlike == Permutations(Requests)
=============================================================================
