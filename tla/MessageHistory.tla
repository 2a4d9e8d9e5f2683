--------------------------- MODULE MessageHistory ---------------------------
(***************************************************************************)
(* The message history: messages.json, which persistence/messages*.go      *)
(* reads, changes and replaces under messagesMu, the service in messages/  *)
(* and its HTTP handlers, seen with one page that lists the history with   *)
(* cursors and caches what it last loaded under the file's revision.       *)
(*                                                                         *)
(* A message is its idempotency key, its sequence and whether it has       *)
(* passed the age of retention.  A page holds one message.                 *)
(***************************************************************************)
EXTENDS Naturals, Sequences, SequencesExt, FiniteSets

CONSTANTS Keys,
          MaxStored,    \* maxStoredMessages
          MaxSequence,  \* bound: messages appended
          MaxMessageFaults \* bound: failing writes

MessageBounds == /\ IsFiniteSet(Keys)
                 /\ MaxStored \in Nat \ {0} /\ {MaxSequence, MaxMessageFaults} \subseteq Nat

VARIABLES history, \* messages.json
          pushed,  \* the sequences handed to the notifier, in order
          paging,  \* a client that follows nextCursor
          cache,   \* what a client loaded last, with its revision
          messageFaults

messageVars == <<history, pushed, paging, cache, messageFaults>>

Message   == [key : Keys, seq : 1..MaxSequence, old : BOOLEAN]
NoPaging  == [on |-> FALSE, before |-> 0, from |-> 0, seen |-> <<>>]
Seqs(ms)  == {ms[i].seq : i \in DOMAIN ms}
KeysOf(f) == {f.messages[i].key : i \in DOMAIN f.messages}

Content(f) == <<[i \in DOMAIN f.messages |-> f.messages[i].seq], f.readThrough>>

MessageTypeOK ==
    /\ history \in [latest : 0..MaxSequence, revision : Nat, readThrough : Nat, messages : Seq(Message)]
    /\ pushed \in Seq(1..MaxSequence)
    /\ paging \in [on : BOOLEAN, before : 0..MaxSequence, from : 0..MaxSequence,
                   seen : Seq(1..MaxSequence)]
    /\ messageFaults \in 0..MaxMessageFaults

MessageInit ==
    /\ history = [latest |-> 0, revision |-> 0, readThrough |-> 0, messages |-> <<>>]
    /\ pushed = <<>> /\ paging = NoPaging /\ messageFaults = 0
    /\ cache = [revision |-> 0, content |-> <<<<>>, 0>>]

----------------------------------------------------------------------------
(* The file *)

\* validateMessageFile: what loadMessages and saveMessages refuse.
ValidFile(f) ==
    /\ f.readThrough <= f.latest /\ Len(f.messages) <= MaxStored
    /\ \A i, j \in DOMAIN f.messages : i < j =>
          /\ f.messages[i].seq < f.messages[j].seq
          /\ f.messages[i].key # f.messages[j].key
    /\ \A i \in DOMAIN f.messages : f.messages[i].seq \in 1..f.latest

\* pruneMessageFile: the old ones go, then all but the newest MaxStored.  The n-th
\* message that is not old is the one that has n of them up to itself.
Young(ms)    == {i \in DOMAIN ms : ~ms[i].old}
Nth(S, n)    == CHOOSE i \in S : Cardinality({j \in S : j <= i}) = n
Retained(ms) == [n \in 1..Cardinality(Young(ms)) |-> ms[Nth(Young(ms), n)]]
Newest(ms) == IF Len(ms) <= MaxStored THEN ms
              ELSE SubSeq(ms, Len(ms) - MaxStored + 1, Len(ms))
Prune(f)   == [f EXCEPT !.messages = Newest(Retained(@))]

\* saveMessages with atomicWrite: a write that fails leaves the old file; one
\* that fails after the rename has replaced it, though it is reported.
Saved(f)  == ValidFile(f) /\ history' = f /\ UNCHANGED messageFaults
SaveFails(f) ==
    \/ ValidFile(f) /\ messageFaults < MaxMessageFaults /\ messageFaults' = messageFaults + 1 /\ history' \in {history, f}
    \/ ~ValidFile(f) /\ UNCHANGED <<history, messageFaults>>
Save(f)   == Saved(f) \/ SaveFails(f)

Bump(f)   == [f EXCEPT !.revision = @ + 1]

\* AppendMessage of the repository.
Appended(k) ==
    LET f == Prune(history)
        r == [key |-> k, seq |-> f.latest + 1, old |-> FALSE]
    IN  Bump(Prune([f EXCEPT !.latest = @ + 1, !.messages = Append(@, r)]))

Duplicate(k) == k \in KeysOf(Prune(history))

----------------------------------------------------------------------------
(* The agent's observer appends *)

\* Service.AppendMessage: a message that was stored, and is new, is handed to
\* the notifier.
AppendMessage(k) ==
    /\ ~Duplicate(k) /\ history.latest < MaxSequence
    /\ \/ Saved(Appended(k)) /\ pushed' = Append(pushed, Appended(k).latest)
       \/ SaveFails(Appended(k)) /\ UNCHANGED pushed
    /\ UNCHANGED <<paging, cache>>

\* A known key: the pruned file is saved if anything was pruned.
AppendDuplicate(k) ==
    /\ Duplicate(k) /\ Prune(history) # history
    /\ Save(Bump(Prune(history)))
    /\ UNCHANGED <<pushed, paging, cache>>

----------------------------------------------------------------------------
(* The user's calls *)

MarkRead_Backwards(s) ==
    LET to == IF s > history.latest THEN history.latest ELSE s
    IN  /\ to # history.readThrough
        /\ Save(Bump([history EXCEPT !.readThrough = to]))
        /\ UNCHANGED <<pushed, paging, cache>>

\* MarkMessagesReadThrough, of requests that may arrive in any order.
MarkRead(s) ==
    LET to == IF s > history.latest THEN history.latest ELSE s
    IN  /\ to > history.readThrough
        /\ Save(Bump([history EXCEPT !.readThrough = to]))
        /\ UNCHANGED <<pushed, paging, cache>>

DeleteMessage_SameRevision(i) ==
    /\ i \in DOMAIN history.messages
    /\ Save([history EXCEPT !.messages = RemoveAt(@, i)])
    /\ UNCHANGED <<pushed, paging, cache>>

DeleteMessage(i) ==
    /\ i \in DOMAIN history.messages
    /\ Save(Bump([history EXCEPT !.messages = RemoveAt(@, i)]))
    /\ UNCHANGED <<pushed, paging, cache>>

ClearMessages ==
    /\ history.messages # <<>>
    /\ Save(Bump([history EXCEPT !.messages = <<>>, !.readThrough = history.latest]))
    /\ UNCHANGED <<pushed, paging, cache>>

----------------------------------------------------------------------------
(* ListMessages with a limit of one *)

\* The newest message before the cursor; zero is no cursor.
Older(before)      == {s \in Seqs(history.messages) : before = 0 \/ s < before}
NewestOf(S)        == CHOOSE s \in S : \A t \in S : t <= s
HasMore(before, s) == \E t \in Seqs(history.messages) : t < s

NextBefore(s) == s

\* List: a page, its cursor, and the end of the paging when there is no more.
ListPage ==
    /\ paging.before <= history.latest
    /\ LET older == Older(paging.before)
           s     == NewestOf(older)
           more  == older # {} /\ HasMore(paging.before, s)
           first == ~paging.on
       IN  paging' = [on     |-> more,
                      before |-> IF more THEN NextBefore(s) ELSE 0,
                      from   |-> IF first THEN history.latest ELSE paging.from,
                      seen   |-> (IF first THEN <<>> ELSE paging.seen) \o (IF older = {} THEN <<>> ELSE <<s>>)]
    /\ UNCHANGED <<history, pushed, cache, messageFaults>>

\* The whole list and its revision, loaded because the heartbeat (MessageState)
\* reports another revision than the one the page knows.
Reload ==
    /\ cache.revision # history.revision
    /\ cache' = [revision |-> history.revision, content |-> Content(history)]
    /\ UNCHANGED <<history, pushed, paging, messageFaults>>

----------------------------------------------------------------------------
(* Time and restarts *)

\* The oldest message that is not old yet passes the age of retention.
Age ==
    /\ \E i \in DOMAIN history.messages :
          /\ ~history.messages[i].old /\ \A j \in 1..(i - 1) : history.messages[j].old
          /\ history' = [history EXCEPT !.messages[i].old = TRUE]
    /\ UNCHANGED <<pushed, paging, cache, messageFaults>>

\* initializeMessages
Restart ==
    /\ Prune(history) # history /\ Save(Bump(Prune(history)))
    /\ UNCHANGED <<pushed, paging, cache>>

MessageNext ==
    \/ \E k \in Keys : AppendMessage(k) \/ AppendDuplicate(k)
    \/ \E s \in 1..(MaxSequence + 1) : MarkRead(s)
    \/ \E i \in 1..MaxStored : DeleteMessage(i)
    \/ ClearMessages \/ ListPage \/ Reload \/ Age \/ Restart

MessageSpec == MessageInit /\ [][MessageNext]_messageVars

----------------------------------------------------------------------------
(***************************************************************************)
(* No change is refused by the validation of the file it makes: a refusal  *)
(* would repeat at every later call and end the history.  Whatever is      *)
(* appended, deleted, aged or marked, what AppendMessage and Prune make of *)
(* the file is valid.                                                      *)
(***************************************************************************)
SavesAreValid ==
    /\ ValidFile(history) /\ ValidFile(Prune(history))
    /\ \A k \in Keys : ~Duplicate(k) => ValidFile(Appended(k))

(***************************************************************************)
(* Someone who pages through the history while messages are appended,      *)
(* deleted, cleared and pruned sees none twice, in descending order, and   *)
(* none that was there when the paging began, and still is, is left out.   *)
(***************************************************************************)
PagingIsExact ==
    /\ \A i, j \in DOMAIN paging.seen : i < j => paging.seen[i] > paging.seen[j]
    /\ \A s \in Seqs(history.messages) :
          (s <= paging.from /\ (paging.on => s >= paging.before)) => s \in ToSet(paging.seen)

(***************************************************************************)
(* The revision in a heartbeat identifies the list a client holds: as long *)
(* as it is the one the client loaded, the messages and their read state   *)
(* are the ones it shows (a page refreshes only when it differs).          *)
(***************************************************************************)
RevisionIdentifies ==
    cache.revision = history.revision => cache.content = Content(history)

(***************************************************************************)
(* A message that was read never becomes unread, in whatever order the     *)
(* read marks of several pages arrive.                                     *)
(***************************************************************************)
ReadStaysRead ==
    \A s \in Seqs(history.messages) \cap Seqs(history'.messages) :
          s <= history.readThrough => s <= history'.readThrough

(***************************************************************************)
(* A new message is unread, also after the messages before it were deleted *)
(* or cleared: no sequence is given a second time.                         *)
(***************************************************************************)
NewIsUnread ==
    \A i \in DOMAIN history'.messages :
          history'.messages[i].key \notin KeysOf(history) =>
              history'.messages[i].seq > history'.readThrough

\* Each stored message is pushed at most once, in the order of the history.
PushedOnce == \A i, j \in DOMAIN pushed : i < j => pushed[i] < pushed[j]

\* Readers of the history, and the devices it is pushed to, see each message once and
\* never a list that is not the one they are told.
HistorySafe == /\ MessageTypeOK /\ SavesAreValid /\ PagingIsExact
               /\ RevisionIdentifies /\ PushedOnce
=============================================================================
