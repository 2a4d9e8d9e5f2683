---------------------- MODULE MCDefinitionTransaction ----------------------
(* Model values for DefinitionTransaction.                                  *)
EXTENDS DefinitionTransaction, TLC

CONSTANTS c1, c2, c3

\* No action tells one content from another.
ContentSymmetry == Permutations({c1, c2, c3})
=============================================================================
