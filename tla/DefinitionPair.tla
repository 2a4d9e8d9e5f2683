---------------------------- MODULE DefinitionPair ----------------------------
(***************************************************************************)
(* What a mutation of the connection definitions promises about the pair   *)
(* of files it writes, the SSH config and the options file: it takes       *)
(* effect on both or on neither, a success is reported only if it did, an  *)
(* error only if it did not, and a crash leaves one of the two.            *)
(***************************************************************************)
CONSTANT Pairs

VARIABLES pair, request     \* request: "none", "open" or "taken"

Init == pair \in Pairs /\ request = "none"

Open == request = "none" /\ request' = "open" /\ UNCHANGED pair

TakeEffect ==
    /\ request = "open" /\ request' = "taken"
    /\ \E new \in Pairs : pair' = new

Refuse  == request = "open" /\ request' = "none" /\ UNCHANGED pair
Succeed == request = "taken" /\ request' = "none" /\ UNCHANGED pair
Crash   == request' = "none" /\ UNCHANGED pair

Next == Open \/ TakeEffect \/ Refuse \/ Succeed \/ Crash

Spec == Init /\ [][Next]_<<pair, request>>
=============================================================================
