---------------------------- MODULE SharedMaster ----------------------------
(***************************************************************************)
(* What the pool of SSH transports promises about a control master that    *)
(* several users share: it is opened for its first user, others join while *)
(* somebody uses it, and it is closed for good when its last user has left *)
(* or when the backend shuts down, never under a user.                     *)
(***************************************************************************)
CONSTANTS Masters, Users

VARIABLES state, users      \* "absent", "open" or "closed"; who uses it

Init == /\ state = [m \in Masters |-> "absent"]
        /\ users = [m \in Masters |-> {}]

Open(m) ==
    /\ state[m] = "absent"
    /\ state' = [state EXCEPT ![m] = "open"]
    /\ \E u \in Users : users' = [users EXCEPT ![m] = {u}]

Join(m) ==
    /\ state[m] = "open" /\ users[m] # {}
    /\ \E u \in Users : users' = [users EXCEPT ![m] = @ \union {u}]
    /\ UNCHANGED state

Leave(m) ==
    /\ state[m] = "open"
    /\ \E u \in users[m] : users' = [users EXCEPT ![m] = @ \ {u}]
    /\ \/ UNCHANGED state
       \/ users'[m] = {} /\ state' = [state EXCEPT ![m] = "closed"]

Shutdown ==
    /\ state' = [m \in Masters |-> IF state[m] = "open" THEN "closed" ELSE state[m]]
    /\ users' = [m \in Masters |-> {}]

Next == Shutdown \/ \E m \in Masters : Open(m) \/ Join(m) \/ Leave(m)

Spec == Init /\ [][Next]_<<state, users>>
=============================================================================
