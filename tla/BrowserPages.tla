---------------------------- MODULE BrowserPages ----------------------------
(***************************************************************************)
(* The shared remote browser: src/backend/internal/browser.  One worker    *)
(* process shows one page to every viewer (WebSocket).  A viewer's command *)
(* changes the page under Manager.mu and is written to the worker after    *)
(* that, under the process' commandMu; the worker's events come back at    *)
(* any time, late ones of earlier operations among them.                   *)
(*                                                                         *)
(* A page generation is the operation that opened the page.  The revisions *)
(* and the content of a page are left out; "open" stands for "loading",    *)
(* "ready" and "error", which the server does not tell apart.  Of the      *)
(* worker (src/backend/browser-worker) the model has what it takes from    *)
(* its commands; the events it sends are any status and any frame of an    *)
(* operation it has taken, in any order, which is more than it does, and   *)
(* the server must cope with all of them.                                  *)
(***************************************************************************)
EXTENDS Naturals, Sequences, FiniteSets

CONSTANTS Viewers, Clients,
          NoClient, NoViewer,
          QueueLimit,   \* cap(viewer.events), 32 in the code
          MaxRuns, MaxOperations, MaxRequests, \* bounds: workers, page operations, requests
          MaxToggles    \* bound: visibility, viewport and sync commands


VARIABLES runs,    \* workers started so far
          page,    \* Manager.process, run = 0 when it is nil, and the page fields
          viewers, \* the WebSocket handlers and their queues
          primary, \* the client that controls the viewport; "unknown" before the first
          pending, \* runtime.pending: requests the worker has not answered
          command, \* the command that holds commandMu and is still to be written
          worker,  \* what the worker has taken from its commands
          asked, answers, \* ghosts: the viewer of each request, its results
          down,    \* Manager.shutdown
          toggles

browserVars == <<runs, page, viewers, primary, pending, command, worker, asked, answers, down, toggles>>

Requests == 1..MaxRequests
Statuses == {"none", "open", "closing", "closed"}
Unknown  == "unknown"
BrowserBounds ==
    /\ QueueLimit \in Nat \ {0} /\ {MaxRuns, MaxOperations, MaxRequests, MaxToggles} \subseteq Nat
    /\ NoViewer \notin Viewers /\ {NoClient, Unknown} \cap Clients = {}
NoPage    == [run |-> 0, status |-> "none", op |-> 0, opened |-> 0, frame |-> 0]
NoCommand == [viewer |-> NoViewer, type |-> "none", op |-> 0, visible |-> FALSE]
NoWorker  == [op |-> 0, visible |-> FALSE, misdirected |-> FALSE]
Off == [state |-> "off", run |-> 0, client |-> NoClient, visible |-> FALSE, queue |-> <<>>,
        seen |-> [op |-> 0, status |-> "none"]]

Item == [type : {"state", "frame", "other"}, op : 0..MaxOperations, status : Statuses]

BrowserTypeOK ==
    /\ page \in [run : 0..MaxRuns, status : Statuses, op : 0..MaxOperations,
                opened : 0..MaxOperations, frame : 0..MaxOperations]
    /\ \A v \in Viewers :
          /\ viewers[v].state \in {"off", "accepted", "on", "done"}
          /\ viewers[v].queue \in Seq(Item) /\ Len(viewers[v].queue) <= QueueLimit
          /\ viewers[v].client \in Clients \cup {NoClient}
    /\ primary \in Clients \cup {Unknown, NoClient}
    /\ pending \subseteq Requests
    /\ command.viewer \in Viewers \cup {NoViewer}
    /\ asked \in [Requests -> Viewers \cup {NoViewer}] /\ answers \in [Requests -> 0..2]
    /\ down \in BOOLEAN /\ runs \in 0..MaxRuns /\ toggles \in 0..MaxToggles

BrowserInit ==
    /\ runs = 0 /\ page = NoPage /\ viewers = [v \in Viewers |-> Off] /\ primary = Unknown
    /\ pending = {} /\ command = NoCommand /\ worker = NoWorker
    /\ asked = [r \in Requests |-> NoViewer] /\ answers = [r \in Requests |-> 0]
    /\ down = FALSE /\ toggles = 0

InMap(v)   == viewers[v].state \in {"on", "done"}
Current(v) == InMap(v) /\ page.run # 0 /\ viewers[v].run = page.run
HasPage(p) == p.status \notin {"none", "closed"}

----------------------------------------------------------------------------
(***************************************************************************)
(* enqueueLocked: a full queue drops a frame, the new one or the oldest in *)
(* it; when it holds control messages only the viewer is disconnected.     *)
(***************************************************************************)
StateEvent(p)   == [type |-> "state",  op |-> p.op, status |-> p.status]
FrameEvent(p)   == [type |-> "frame",  op |-> p.frame, status |-> p.status]
Other           == [type |-> "other",  op |-> 0, status |-> "none"] \* results, primary, resize, settings
FirstFrame(q)   == CHOOSE i \in DOMAIN q : q[i].type = "frame"
                                          /\ \A j \in 1..(i - 1) : q[j].type # "frame"
WithoutFrame(q) == LET i == FirstFrame(q) IN SubSeq(q, 1, i - 1) \o SubSeq(q, i + 1, Len(q))
HasFrame(q)     == \E i \in DOMAIN q : q[i].type = "frame"

\* close(viewer.done): what is queued is not delivered any more.
Disconnected(x) == [x EXCEPT !.state = "done", !.queue = <<>>]

\* A full queue drops whatever comes.
Put_DropsControl(x, item) ==
    IF Len(x.queue) < QueueLimit THEN [x EXCEPT !.queue = Append(x.queue, item)] ELSE x

Put(x, item) ==
    LET q == x.queue
    IN  CASE x.state = "done" -> x
          [] x.state # "done" /\ Len(q) < QueueLimit -> [x EXCEPT !.queue = Append(q, item)]
          [] x.state # "done" /\ Len(q) = QueueLimit /\ item.type = "frame" -> x
          [] Len(q) = QueueLimit /\ item.type # "frame" /\ HasFrame(q) ->
                [x EXCEPT !.queue = Append(WithoutFrame(q), item)]
          [] OTHER -> Disconnected(x)

\* broadcastStateLocked, and the copies of a worker's event.
Broadcast(p, item) ==
    [v \in Viewers |-> IF InMap(v) /\ viewers[v].run = p.run THEN Put(viewers[v], item) ELSE viewers[v]]
BroadcastFrame(p) ==
    [v \in Viewers |-> IF InMap(v) /\ viewers[v].run = p.run /\ viewers[v].visible
                       THEN Put(viewers[v], FrameEvent(p)) ELSE viewers[v]]

----------------------------------------------------------------------------
(* Viewers *)

\* ensureProcess: the worker is started for the first viewer.
Accept(v, client) ==
    /\ viewers[v].state = "off" /\ ~down /\ runs + (IF page.run = 0 THEN 1 ELSE 0) <= MaxRuns
    /\ IF page.run = 0
       THEN /\ runs' = runs + 1 /\ page' = [NoPage EXCEPT !.run = runs + 1]
            /\ primary' = Unknown /\ worker' = NoWorker
       ELSE UNCHANGED <<runs, page, primary, worker>>
    /\ viewers' = [viewers EXCEPT ![v] = [Off EXCEPT !.state = "accepted", !.run = page'.run,
                                                     !.client = client]]
    /\ UNCHANGED <<pending, command, asked, answers, down, toggles>>

\* addViewer: refused if that process has ended since; else the page's state and frame.
AddViewer(v) ==
    /\ viewers[v].state = "accepted"
    /\ LET on    == Put([viewers[v] EXCEPT !.state = "on"], StateEvent(page))
           frame == page.frame # 0 /\ page.status \notin {"none", "closed"}
       IN  viewers' = [viewers EXCEPT ![v] =
               IF viewers[v].run # page.run THEN Off
               ELSE IF frame THEN Put(on, FrameEvent(page)) ELSE on]
    /\ UNCHANGED <<runs, page, primary, pending, command, worker, asked, answers, down, toggles>>

\* The handler writes the next event to its WebSocket.
Deliver(v) ==
    /\ viewers[v].state = "on" /\ viewers[v].queue # <<>>
    /\ LET item == Head(viewers[v].queue)
       IN  viewers' = [viewers EXCEPT ![v].queue = Tail(@),
                                      ![v].seen = IF item.type = "other" THEN @
                                                  ELSE [op |-> item.op, status |-> item.status]]
    /\ UNCHANGED <<runs, page, primary, pending, command, worker, asked, answers, down, toggles>>

\* removeViewer, under commandMu: its requests are forgotten, its client gives up the
\* viewport unless it has another viewer, the worker hears when nobody looks any more.
In(vs, run) == {w \in Viewers : vs[w].state \in {"on", "done"} /\ vs[w].run = run}
AnyVisible(vs, run) == \E w \in In(vs, run) : vs[w].visible
GivesUp(v, vs) == primary = viewers[v].client /\ ~\E w \in In(vs, page.run) : vs[w].client = primary
ToAll(vs, item) == [w \in Viewers |-> IF w \in In(vs, page.run) THEN Put(vs[w], item) ELSE vs[w]]
Forget(v) ==
    /\ pending' = {r \in pending : asked[r] # v}
    /\ asked' = [r \in Requests |-> IF asked[r] = v THEN NoViewer ELSE asked[r]]
Tell(v, vs) ==
    command' = IF Current(v) /\ ~AnyVisible(vs, page.run)
               THEN [NoCommand EXCEPT !.viewer = v, !.type = "visibility"] ELSE command

RemoveViewer(v) ==
    /\ InMap(v) /\ (Current(v) => command = NoCommand)
    /\ LET vs == [viewers EXCEPT ![v] = Off]
       IN  /\ IF Current(v) /\ GivesUp(v, vs)
              THEN primary' = NoClient /\ viewers' = ToAll(vs, Other)
              ELSE viewers' = vs /\ UNCHANGED primary
           /\ Tell(v, vs)
    /\ Forget(v)
    /\ UNCHANGED <<runs, page, worker, answers, down, toggles>>

----------------------------------------------------------------------------
(***************************************************************************)
(* Commands.  The client names the page generation it saw last, and        *)
(* usually the operation; a stale one is answered with a failure and the   *)
(* current state.                                                          *)
(***************************************************************************)
SeesPage(v) ==
    viewers[v].seen.op >= page.opened \/ (~HasPage(page) /\ viewers[v].seen.op = 0)
Fresh(v, names) == IF names THEN viewers[v].seen.op = page.op ELSE SeesPage(v)
Refuse(v) ==
    /\ viewers' = [viewers EXCEPT ![v] = Put(Put(@, Other), StateEvent(page))]
    /\ UNCHANGED <<page, pending, command, asked>>
RefuseClosing(v) ==
    /\ viewers' = [viewers EXCEPT ![v] = Put(@, Other)]
    /\ UNCHANGED <<page, pending, command, asked>>

\* prepareWorkerCommandLocked: a request that has an id is remembered with its viewer.
Remember(v) ==
    \/ UNCHANGED <<pending, asked>>
    \/ \E r \in Requests :
          /\ asked[r] = NoViewer /\ answers[r] = 0
          /\ \A q \in 1..(r - 1) : asked[q] # NoViewer \/ answers[q] > 0
          /\ pending' = pending \cup {r} /\ asked' = [asked EXCEPT ![r] = v]

Closing           == page.status = "closing"
CanOpen(v, names) == Fresh(v, names) /\ ~Closing
CanUse(v, names)  == CanOpen(v, names) /\ HasPage(page)

\* A page that is there is navigated and keeps its generation; otherwise a new one opens.
Navigate(v, names) ==
    /\ Current(v) /\ command = NoCommand
    /\ \/ Closing /\ RefuseClosing(v)
       \/ ~Closing /\ ~CanOpen(v, names) /\ Refuse(v)
       \/ /\ CanOpen(v, names) /\ page.op < MaxOperations
          /\ page' = [page EXCEPT !.op = @ + 1, !.status = "open", !.frame = 0,
                                  !.opened = IF HasPage(page) THEN @ ELSE page.op + 1]
          /\ viewers' = Broadcast(page', StateEvent(page'))
          /\ Remember(v)
          /\ command' = [NoCommand EXCEPT !.viewer = v, !.type = "open", !.op = page'.op]
    /\ UNCHANGED <<runs, primary, worker, answers, down, toggles>>

\* The page's own close; every other answer is a result and the state.
ClosePage(v, names) ==
    /\ Current(v) /\ command = NoCommand
    /\ \/ ~CanUse(v, names) /\ Refuse(v)
       \/ /\ CanUse(v, names) /\ page.op < MaxOperations
          /\ page' = [page EXCEPT !.op = @ + 1, !.status = "closing", !.frame = 0]
          /\ viewers' = Broadcast(page', StateEvent(page'))
          /\ Remember(v)
          /\ command' = [NoCommand EXCEPT !.viewer = v, !.type = "close", !.op = page'.op]
    /\ UNCHANGED <<runs, primary, worker, answers, down, toggles>>

\* Input takes the lock of the pipe only, so that another command may come first.
PageCommand_Unlocked(v, names) ==
    /\ Current(v) /\ command = NoCommand /\ CanUse(v, names)
    /\ Remember(v) /\ UNCHANGED <<page, viewers>>
    /\ command' \in {[NoCommand EXCEPT !.viewer = v, !.type = "input", !.op = op] :
                      op \in {page.op, page.op - 1}}
    /\ UNCHANGED <<runs, primary, worker, answers, down, toggles>>

\* forwardPageCommand: back, forward, reload, input, copy, dialog.
PageCommand(v, names) ==
    /\ Current(v) /\ command = NoCommand
    /\ \/ ~CanUse(v, names) /\ Refuse(v)
       \/ /\ CanUse(v, names) /\ Remember(v) /\ UNCHANGED <<page, viewers>>
          /\ command' = [NoCommand EXCEPT !.viewer = v, !.type = "input", !.op = page.op]
    /\ UNCHANGED <<runs, primary, worker, answers, down, toggles>>

\* visibility: the worker is told only of a change for all viewers together.  Who looks
\* is synchronised next, still under commandMu.
SetVisible(v, visible) ==
    /\ Current(v) /\ command = NoCommand /\ toggles < MaxToggles /\ toggles' = toggles + 1
    /\ viewers' = [viewers EXCEPT ![v].visible = visible]
    /\ command' = CASE AnyVisible(viewers, page.run) # AnyVisible(viewers', page.run) ->
                        [NoCommand EXCEPT !.viewer = v, !.type = "visibility", !.visible = visible]
                    [] AnyVisible(viewers, page.run) = AnyVisible(viewers', page.run) /\ visible ->
                        [NoCommand EXCEPT !.viewer = v, !.type = "looks"]
                    [] OTHER -> NoCommand
    /\ UNCHANGED <<runs, page, primary, pending, worker, asked, answers, down>>

\* syncUnlocked: the state, the cached frame, and the worker is asked to announce.
Sync(v) ==
    /\ Current(v)
    /\ \/ command = NoCommand /\ toggles < MaxToggles /\ toggles' = toggles + 1
       \/ command.type = "looks" /\ command.viewer = v /\ UNCHANGED toggles
    /\ viewers' = [viewers EXCEPT ![v] = LET x == Put(@, StateEvent(page))
                                         IN  IF HasPage(page) /\ page.frame # 0
                                             THEN Put(x, FrameEvent(page)) ELSE x]
    /\ command' = IF HasPage(page)
                  THEN [NoCommand EXCEPT !.viewer = v, !.type = "sync", !.op = page.op]
                  ELSE NoCommand
    /\ UNCHANGED <<runs, page, primary, pending, worker, asked, answers, down>>

\* resize: only with the viewport in hand or taken over.  It writes to the worker while
\* it holds Manager.mu.
ResizeRefused(v) ==
    /\ Current(v) /\ command = NoCommand /\ toggles < MaxToggles /\ toggles' = toggles + 1
    /\ viewers' = [viewers EXCEPT ![v] = Put(@, Other)]
    /\ UNCHANGED <<runs, page, primary, pending, command, worker, asked, answers, down>>
Resize(v, takeover) ==
    /\ Current(v) /\ command = NoCommand /\ toggles < MaxToggles /\ toggles' = toggles + 1
    /\ primary \in {Unknown, viewers[v].client} \/ takeover
    /\ primary' = viewers[v].client
    /\ LET told == IF primary = primary' THEN viewers ELSE ToAll(viewers, Other)
       IN  viewers' = [told EXCEPT ![v] = Put(@, Other)]
    /\ UNCHANGED <<runs, page, pending, command, worker, asked, answers, down>>

\* configureDisplay: the settings of a page, by the client that has the viewport.
Configure(v) ==
    /\ Current(v) /\ command = NoCommand /\ toggles < MaxToggles /\ toggles' = toggles + 1
    /\ primary \in {Unknown, viewers[v].client} /\ HasPage(page) /\ ~Closing
    /\ primary' = viewers[v].client
    /\ LET told == IF primary = primary' THEN viewers ELSE ToAll(viewers, Other)
       IN  viewers' = [w \in Viewers |-> IF w \in In(told, page.run) THEN Put(told[w], StateEvent(page))
                                         ELSE told[w]]
    /\ UNCHANGED <<runs, page, pending, command, worker, asked, answers, down>>

\* What the worker makes of a command: it takes over the operation, and input for another
\* one has been let through in vain.
Received(w, c) ==
    CASE c.type \in {"open", "close", "sync"} -> [w EXCEPT !.op = c.op]
      [] c.type = "visibility" -> [w EXCEPT !.visible = c.visible]
      [] OTHER -> [w EXCEPT !.misdirected = @ \/ c.op # w.op]
\* A worker that has lost its page answers a close without taking it over: the server
\* is left at "closing" until a viewer synchronises.
HasNoPage(c) == c.type = "close"

\* writeRuntime under commandMu.  The worker reads its commands in order.
Write ==
    /\ command.type \in {"open", "close", "sync", "visibility", "input"}
    /\ worker' = Received(worker, command) \/ (HasNoPage(command) /\ UNCHANGED worker)
    /\ command' = IF command.type = "visibility" /\ command.visible
                  THEN [command EXCEPT !.type = "looks", !.visible = FALSE] ELSE NoCommand
    /\ UNCHANGED <<runs, page, primary, viewers, pending, asked, answers, down, toggles>>

----------------------------------------------------------------------------
(* Events of the worker *)

\* A result goes to the viewer that asked, once: that of the worker or, when it is late,
\* that of expireBrowserRequest.  The state follows a failure.
Result(r) ==
    /\ r \in pending
    /\ pending' = pending \ {r} /\ answers' = [answers EXCEPT ![r] = @ + 1]
    /\ LET v == asked[r]
       IN  \/ ~Current(v) /\ UNCHANGED viewers
           \/ Current(v) /\ viewers' = [viewers EXCEPT ![v] = Put(@, Other)]
           \/ Current(v) /\ viewers' = [viewers EXCEPT ![v] = Put(Put(@, Other), StateEvent(page))]
    /\ UNCHANGED <<runs, page, primary, command, worker, asked, down, toggles>>

Accepted(op) == op = page.op

\* Any event of the current operation is believed; one that carries no status or no
\* operation only repeats what the server has.
PageEvent(op, status) ==
    /\ page.run # 0 /\ op \in 0..worker.op /\ Accepted(op)
    /\ status = "none" => op = 0
    /\ op = 0 => status = page.status
    /\ page' = [page EXCEPT !.status = status, !.frame = IF status = "closed" THEN 0 ELSE @]
    /\ viewers' = Broadcast(page', StateEvent(page'))
    /\ UNCHANGED <<runs, primary, pending, command, worker, asked, answers, down, toggles>>

\* The worker sends frames while a page is closing, and the server keeps them.
Frame(op) ==
    /\ page.run # 0 /\ op \in 1..worker.op /\ Accepted(op)
    /\ page' = [page EXCEPT !.frame = op]
    /\ viewers' = BroadcastFrame(page')
    /\ UNCHANGED <<runs, primary, pending, command, worker, asked, answers, down, toggles>>

\* processEnded, from either goroutine: the viewers of that process are told and closed,
\* and the write of a command fails.
ProcessEnds ==
    /\ page.run # 0
    /\ viewers' = [v \in Viewers |-> IF v \in In(viewers, page.run) THEN Disconnected(viewers[v])
                                     ELSE viewers[v]]
    /\ page' = NoPage /\ primary' = Unknown /\ pending' = {} /\ worker' = NoWorker /\ command' = NoCommand
    /\ asked' = [r \in Requests |-> NoViewer]
    /\ UNCHANGED <<runs, answers, down, toggles>>

Shutdown ==
    /\ ~down /\ down' = TRUE
    /\ viewers' = [v \in Viewers |-> IF InMap(v) THEN Off ELSE viewers[v]]
    /\ page' = NoPage /\ primary' = Unknown /\ pending' = {} /\ worker' = NoWorker /\ command' = NoCommand
    /\ asked' = [r \in Requests |-> NoViewer]
    /\ UNCHANGED <<runs, answers, toggles>>

BrowserNext ==
    \/ \E v \in Viewers :
          \/ \E client \in Clients : Accept(v, client)
          \/ AddViewer(v) \/ Deliver(v) \/ RemoveViewer(v)
          \/ Sync(v) \/ ResizeRefused(v) \/ Configure(v)
          \/ \E names \in BOOLEAN : Navigate(v, names) \/ ClosePage(v, names) \/ PageCommand(v, names)
          \/ \E b \in BOOLEAN : SetVisible(v, b) \/ Resize(v, b)
    \/ \E r \in Requests : Result(r)
    \/ \E op \in 0..MaxOperations, status \in Statuses : PageEvent(op, status)
    \/ \E op \in 1..MaxOperations : Frame(op)
    \/ Write \/ ProcessEnds \/ Shutdown

BrowserSpec == BrowserInit /\ [][BrowserNext]_browserVars

----------------------------------------------------------------------------
(* Properties *)

\* The last event of the page on its way to a viewer, or what it has seen.
Shown(q)    == {i \in DOMAIN q : q[i].type # "other"}
LastSeen(x) ==
    LET q == x.queue
    IN  IF Shown(q) = {} THEN x.seen ELSE q[CHOOSE i \in Shown(q) : \A j \in Shown(q) : j <= i]

\* A viewer that is not being disconnected knows the page or has it in its queue: the
\* last event that reached it or waits for it carries the current operation and status,
\* although frames are dropped and the queue is full from time to time.
ViewersConverge ==
    \A v \in Viewers :
        viewers[v].state = "on" /\ viewers[v].run = page.run =>
            LET last == LastSeen(viewers[v]) IN last.op = page.op /\ last.status = page.status

\* The frame kept for new viewers is of the current operation: the page before does not
\* come back with a late frame.
FrameOfThePage == page.frame # 0 => page.frame = page.op

\* Input reaches the page its sender saw: when the worker reads it, it is at the
\* operation the input was checked against.
InputHitsItsPage == ~worker.misdirected

\* The viewport belongs to a client that is connected.
PrimaryIsConnected ==
    primary \in Clients => \E v \in Viewers : Current(v) /\ viewers[v].client = primary

\* When no command is on its way, the worker renders exactly if somebody looks.
VisibilityAgrees ==
    page.run # 0 /\ command.type \in {"none", "looks"} => worker.visible = AnyVisible(viewers, page.run)

\* A request gets one result at most, and it stays pending until then or its viewer goes.
OneResultPerRequest ==
    \A r \in Requests : /\ answers[r] <= 1
                        /\ asked[r] # NoViewer /\ answers[r] = 0 => r \in pending
                        /\ r \in pending => InMap(asked[r])

\* All that look at the page see the same page, and the worker renders when they look.
ViewersAgree == BrowserTypeOK /\ ViewersConverge /\ FrameOfThePage /\ VisibilityAgrees

\* A command acts on the page its sender saw, is answered once, and only a connected
\* client is in control.
CommandsLand == InputHitsItsPage /\ OneResultPerRequest /\ PrimaryIsConnected
=============================================================================
