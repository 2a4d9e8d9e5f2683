------------------------------ MODULE MCShared ------------------------------
(***************************************************************************)
(* What several clients share, in one TLC run: the image preview cache and *)
(* the pages of the browser.  `focus' is chosen initially and only that    *)
(* module moves, so the states of the run are the sum of theirs, not the   *)
(* product.                                                                *)
(***************************************************************************)
EXTENDS PreviewCache, BrowserPages, TLC

CONSTANTS c1, c2, v1, v2, a, b

VARIABLE focus

\* "commands": viewers of one client, no frames.  Every command of the first worker has
\* a request, none of the second has.
Commanding ==
    /\ toggles' = 0 /\ ~down' /\ page'.frame = 0 /\ \A v \in Viewers : viewers'[v].client # b
    /\ command'.type \in {"open", "close", "input"} => command' = command \/ asked' # asked \/ page.run = 2
    /\ page'.run = 2 => page'.op <= 1 /\ asked' = asked
\* "views": one worker, no requests, and everything a viewer may toggle; after a second
\* operation nobody takes the viewport.
Viewing ==
    /\ runs' <= 1 /\ \A r \in Requests : asked'[r] = NoViewer
    /\ page'.op = 2 => primary' = Unknown /\ \A v \in Viewers : viewers'[v].client # b

SharedInit ==
    /\ focus \in {"preview", "commands", "views"} /\ PreviewInit /\ BrowserInit
    /\ focus # "preview" => marker = "none"
SharedNext ==
    \/ focus = "preview" /\ PreviewNext /\ UNCHANGED <<focus, browserVars>>
    \/ focus = "commands" /\ BrowserNext /\ Commanding /\ UNCHANGED <<focus, previewVars>>
    \/ focus = "views" /\ BrowserNext /\ Viewing /\ UNCHANGED <<focus, previewVars>>
SharedSpec == SharedInit /\ [][SharedNext]_<<focus, previewVars, browserVars>>

ASSUME PreviewBounds /\ BrowserBounds

\* The requests of a conversion, and the viewers of the browser, are interchangeable.
Interchangeable == Permutations(Callers) \cup Permutations(Viewers)
=============================================================================
