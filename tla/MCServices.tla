----------------------------- MODULE MCServices -----------------------------
(***************************************************************************)
(* Authentication, the push notifications of its sessions, and the file    *)
(* system's listings and content in one TLC run.  `focus' is chosen        *)
(* initially and only that part moves, so the states of the run are the    *)
(* sum of theirs, not the product: a listing and a file that is read share *)
(* nothing but the root.                                                   *)
(***************************************************************************)
EXTENDS AuthSessions, NotificationQueue, FileListing

CONSTANTS p1, s1, s2, e1

VARIABLE focus

ServicesInit ==
    /\ focus \in {"auth", "push", "listing", "content"} /\ AuthInit /\ PushInit /\ ListingInit
    /\ focus # "content" => versions[1].size = 0
ServicesNext ==
    \/ focus = "auth" /\ AuthNext /\ UNCHANGED <<focus, pushVars, listingVars>>
    \/ focus = "push" /\ PushNext /\ UNCHANGED <<focus, authVars, listingVars>>
    \/ focus = "listing" /\ ListingNext /\ UNCHANGED <<focus, authVars, pushVars, versions, content>>
    \/ focus = "content" /\ ListingNext /\ UNCHANGED <<focus, authVars, pushVars, snapshots, reader>>
ServicesSpec == ServicesInit /\ [][ServicesNext]_<<focus, authVars, pushVars, listingVars>>

ASSUME AuthBounds /\ PushBounds /\ ListingBounds
=============================================================================
