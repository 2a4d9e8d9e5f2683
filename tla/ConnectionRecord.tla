--------------------------- MODULE ConnectionRecord ---------------------------
(***************************************************************************)
(* What the store promises about the record of a connection instance,      *)
(* whatever runs, fails or crashes above it: an active record may be       *)
(* written at any time, only a record that is not live is copied to the    *)
(* audit area, and an active record is removed only when an audit copy     *)
(* exists.  retireSession (retire.go) and retirePersisted (lifecycle.go)   *)
(* are the two places that have to keep the promise.                       *)
(***************************************************************************)
CONSTANTS Ids, Lifecycles, Absent

VARIABLES active, audit

Init == /\ active = [id \in Ids |-> Absent]
        /\ audit = [id \in Ids |-> Absent]

Save(id) ==
    /\ \E value \in Lifecycles : active' = [active EXCEPT ![id] = value]
    /\ UNCHANGED audit

Archive(id) ==
    /\ active[id] \notin {Absent, "live"}
    /\ audit' = [audit EXCEPT ![id] = active[id]]
    /\ UNCHANGED active

Remove(id) ==
    /\ audit[id] # Absent
    /\ active' = [active EXCEPT ![id] = Absent]
    /\ UNCHANGED audit

Next == \E id \in Ids : Save(id) \/ Archive(id) \/ Remove(id)

Spec == Init /\ [][Next]_<<active, audit>>
=============================================================================
