---------------------------- MODULE MCTransportPool ----------------------------
(* Model values for TransportPool: a connection, two that reuse it, and       *)
(* auxiliary commands.                                                        *)
EXTENDS TransportPool

CONSTANTS owner, d1, d2, a1, a2
===============================================================================
