---------------------------- MODULE FileListing ----------------------------
(***************************************************************************)
(* Reading the file system of a connection instance: its root, directory   *)
(* pages and file content (src/backend/internal/filesystem service.go,     *)
(* directory.go, content.go and the HTTP handlers that call them).         *)
(*                                                                         *)
(* The remote host changes between any two commands sent to it: the        *)
(* directory of the active tmux pane, the entries of a directory, a file.  *)
(* One client lists a directory page by page while another reads a file.   *)
(* A root is identified with its revision, a hash of its path.             *)
(***************************************************************************)
EXTENDS Integers, Sequences

CONSTANTS PaneRoots,   \* directories the tmux pane may be in
          HomeRoot,    \* the configured fallback
          MaxListings, \* bound: listings made
          MaxVersions, \* bound: versions of the file
          MaxSize,     \* bound: its size
          MaxEntries,  \* bound: entries of a directory
          Window,      \* bytes served without a Range header, and the largest range (8 MiB)
          MaxStream    \* maxContentStream

ListingBounds ==
    /\ {MaxListings, MaxEntries, MaxSize, Window, MaxStream} \subseteq Nat
    /\ MaxVersions \in Nat \ {0}
    /\ HomeRoot \notin PaneRoots

VARIABLES pane,        \* the root tmux reports, or NoRoot while the probe fails
          tmuxFailed,  \* failures[instance]: a failed probe is remembered for a second
          snapshots,   \* Service.snapshots
          reader,      \* the client that follows the pages of a directory
          versions,    \* the file: size and time stamp of every version it has had
          content,     \* the request that reads the file
          wentBack     \* bound: changes of the pane

listingVars == <<pane, tmuxFailed, snapshots, reader, versions, content, wentBack>>

NoRoot   == "none"
Roots    == PaneRoots \cup {HomeRoot}
Listings == 1..MaxListings
\* The i-th listing of a directory has entries no other listing has, so that pages
\* of different listings can be told apart; how many there are is chosen when it is made.
Entry == Listings \X (1..MaxEntries)
NoReader  == [root |-> NoRoot, got |-> <<>>, cursor |-> [id |-> 0, offset |-> 0]]
NoContent == [step |-> "none", root |-> NoRoot, seen |-> 0, start |-> 0, length |-> 0,
              again |-> 0, from |-> 0]
\* The time stamp counts seconds: a version may have that of the one before, and its size.
Version == [size : 0..MaxSize, stamp : Nat]
Current == Len(versions)

ListingTypeOK ==
    /\ pane \in PaneRoots \cup {NoRoot} /\ tmuxFailed \in BOOLEAN
    /\ versions \in Seq(Version) /\ Current \in 1..MaxVersions
    /\ \A i \in DOMAIN snapshots : snapshots[i].root \in Roots /\ snapshots[i].size \in 0..MaxEntries
    /\ Len(snapshots) <= MaxListings
    /\ reader.root \in Roots \cup {NoRoot} /\ reader.got \in Seq(Entry)
    /\ content.step \in {"none", "stated", "restated", "opened", "served", "refused"}
    /\ wentBack \in 0..2

ListingInit ==
    /\ pane \in PaneRoots /\ tmuxFailed = FALSE /\ snapshots = <<>> /\ reader = NoReader
    /\ \E size \in 0..MaxSize : versions = <<[size |-> size, stamp |-> 1]>>
    /\ content = NoContent /\ wentBack = 0

remote == <<pane, versions, wentBack>>

----------------------------------------------------------------------------
(***************************************************************************)
(* Root: the pane's directory, probed twice; the configured directory when *)
(* both probes fail or a failure is remembered.  rootForRevision refuses a *)
(* client that names another revision.                                     *)
(***************************************************************************)
ProbeTmuxRoot == pane
Root == IF ProbeTmuxRoot # NoRoot /\ ~tmuxFailed THEN ProbeTmuxRoot ELSE HomeRoot
RememberFailure == tmuxFailed' = (tmuxFailed \/ ProbeTmuxRoot = NoRoot)
RootForRevision(revision) == revision \in {NoRoot, Root}

FailureExpires == tmuxFailed /\ tmuxFailed' = FALSE
                  /\ UNCHANGED <<pane, snapshots, reader, versions, content, wentBack>>

----------------------------------------------------------------------------
(***************************************************************************)
(* Entries.  Without a cursor the directory is listed and the sorted       *)
(* entries are kept for two seconds; a cursor names a snapshot and an      *)
(* offset, and is good for the same instance, revision and path only.      *)
(***************************************************************************)
Page(i, size, offset, limit) ==
    LET end == IF offset + limit > size THEN size ELSE offset + limit
    IN  [entries |-> [k \in 1..(end - offset) |-> <<i, offset + k>>],
         cursor  |-> IF end < size THEN [id |-> i, offset |-> end] ELSE [id |-> 0, offset |-> 0]]

\* The first page, with or without a revision.
ListEntries(revision, size, limit) ==
    /\ Len(snapshots) < MaxListings /\ RootForRevision(revision) /\ RememberFailure
    /\ snapshots' = Append(snapshots, [root |-> Root, size |-> size, live |-> TRUE])
    /\ LET page == Page(Len(snapshots) + 1, size, 0, limit)
       IN  reader' = [root |-> Root, got |-> page.entries, cursor |-> page.cursor]
    /\ UNCHANGED <<remote, content>>

Continues(i, root) == snapshots[i].live /\ snapshots[i].root = root

\* A further page.  The client may name its revision or none.
NextPage(revision, limit) ==
    /\ reader.cursor.id # 0 /\ RootForRevision(revision) /\ RememberFailure
    /\ LET i == reader.cursor.id  page == Page(i, snapshots[i].size, reader.cursor.offset, limit)
       IN  \/ /\ Continues(i, Root)
              /\ reader' = [root |-> Root, got |-> reader.got \o page.entries,
                            cursor |-> page.cursor]
              /\ UNCHANGED snapshots
           \/ /\ ~Continues(i, Root)
              /\ reader' = NoReader
              /\ snapshots' = [snapshots EXCEPT ![i].live = FALSE]
    /\ UNCHANGED <<remote, content>>

SnapshotExpires ==
    /\ \E i \in DOMAIN snapshots :
          snapshots[i].live /\ snapshots' = [snapshots EXCEPT ![i].live = FALSE]
    /\ UNCHANGED <<remote, tmuxFailed, reader, content>>

----------------------------------------------------------------------------
(***************************************************************************)
(* GET content: stat, the window, stat again, the remote command that      *)
(* reads, and then, if both stats gave the same consistency token, a       *)
(* response.  The file may change between any two of them.                 *)
(***************************************************************************)
NoRange   == [first |-> 0 - 1, last |-> 0 - 1]      \* no Range header
Suffix(n) == [first |-> 0 - 2, last |-> n]          \* bytes=-n
Whole     == [first |-> 0 - 3, last |-> 0 - 1]      \* none, and the original or a download
ByteRange(a, b) == [first |-> a, last |-> b]            \* bytes=a-b; b = -1 for bytes=a-
Ranges == {NoRange, Whole} \cup {Suffix(n) : n \in 0..(MaxSize + 1)}
          \cup {ByteRange(a, b) : a \in 0..(MaxSize + 1), b \in (0 - 1)..(MaxSize + 1)}
Refused == [start |-> 0, length |-> 0 - 1]

\* contentRange, and contentWindowLength when no range is asked for.
ContentRange(r, size) ==
    LET last == IF r.last = 0 - 1 \/ r.last >= size THEN size - 1 ELSE r.last
    IN  CASE r = NoRange -> [start |-> 0, length |-> IF size < Window THEN size ELSE Window]
          [] r = Whole -> [start |-> 0, length |-> size]
          [] r \notin {NoRange, Whole} /\ size = 0 -> Refused
          [] r.first = 0 - 2 /\ size > 0 ->
                IF r.last <= 0 THEN Refused
                ELSE LET n == IF r.last > size THEN size ELSE r.last
                     IN  [start |-> size - n, length |-> n]
          [] r.first >= 0 /\ size > 0 ->
                IF r.first >= size \/ (r.last # 0 - 1 /\ r.last < r.first)
                   \/ last - r.first + 1 > Window
                THEN Refused
                ELSE [start |-> r.first, length |-> last - r.first + 1]

StatContent(revision, r) ==
    /\ content.step = "none" /\ RootForRevision(revision) /\ RememberFailure
    /\ LET window == ContentRange(r, versions[Current].size)
       IN  content' = IF window = Refused THEN [NoContent EXCEPT !.step = "refused"]
                      ELSE [NoContent EXCEPT !.step = "stated", !.root = Root, !.seen = Current,
                                             !.start = window.start, !.length = window.length]
    /\ UNCHANGED <<remote, snapshots, reader>>

\* OpenContent under the revision of the first stat; its own stat must fit the window.
RestatContent ==
    /\ content.step = "stated" /\ RememberFailure
    /\ content' = IF /\ RootForRevision(content.root)
                     /\ content.length <= versions[Current].size - content.start
                     /\ content.length <= MaxStream
                  THEN [content EXCEPT !.step = "restated", !.again = Current]
                  ELSE [NoContent EXCEPT !.step = "refused"]
    /\ UNCHANGED <<remote, snapshots, reader>>

\* Its remote command then reads the file as it is.
OpenContent ==
    /\ content.step = "restated"
    /\ content' = [content EXCEPT !.step = "opened", !.from = Current]
    /\ UNCHANGED <<remote, tmuxFailed, snapshots, reader>>

\* The file is gone when a command comes to it.
ContentFails ==
    /\ content.step \in {"stated", "restated"}
    /\ content' = [NoContent EXCEPT !.step = "refused"]
    /\ UNCHANGED <<remote, tmuxFailed, snapshots, reader>>

Serve_Unchecked ==
    /\ content.step = "opened"
    /\ content' = [content EXCEPT !.step = "served"]
    /\ UNCHANGED <<remote, tmuxFailed, snapshots, reader>>

\* The consistency tokens of the two stats are compared, then headers and bytes are sent.
Serve ==
    /\ content.step = "opened"
    /\ content' = [content EXCEPT !.step = IF versions[content.again] = versions[content.seen]
                                           THEN "served" ELSE "refused"]
    /\ UNCHANGED <<remote, tmuxFailed, snapshots, reader>>

Again == content.step \in {"served", "refused"} /\ content' = NoContent
         /\ UNCHANGED <<remote, tmuxFailed, snapshots, reader>>

----------------------------------------------------------------------------
\* External: the pane changes its directory, tmux stops answering, the file is replaced.
PaneMoves ==
    /\ wentBack < 2 /\ wentBack' = wentBack + 1
    /\ pane' \in (PaneRoots \cup {NoRoot}) \ {pane}
    /\ UNCHANGED <<tmuxFailed, snapshots, reader, versions, content>>

FileChanges ==
    /\ Current < MaxVersions
    /\ \E size \in 0..MaxSize, later \in 0..1 :
          versions' = Append(versions, [size |-> size, stamp |-> versions[Current].stamp + later])
    /\ UNCHANGED <<pane, tmuxFailed, snapshots, reader, content, wentBack>>

ListingNext ==
    \/ \E revision \in {NoRoot, reader.root} :
          \/ \E size \in 0..MaxEntries, limit \in 1..2 : ListEntries(revision, size, limit)
          \/ \E limit \in 1..2 : NextPage(revision, limit)
    \/ \E revision \in {NoRoot} \cup Roots, r \in Ranges : StatContent(revision, r)
    \/ SnapshotExpires \/ FailureExpires
    \/ RestatContent \/ OpenContent \/ ContentFails \/ Serve \/ Again
    \/ PaneMoves \/ FileChanges

ListingSpec == ListingInit /\ [][ListingNext]_listingVars

----------------------------------------------------------------------------
(* Properties *)

\* The pages a client has put together are the beginning of one listing of one
\* root, each entry once and in order, whatever expires or moves in between; after
\* the last page they are all of it.
PagesOfOneListing ==
    \A k \in DOMAIN reader.got :
        LET i == reader.got[1][1]
        IN  /\ reader.got[k] = <<i, k>>
            /\ reader.root = snapshots[i].root
            /\ reader.cursor.id = 0 => Len(reader.got) = snapshots[i].size

(***************************************************************************)
(* What is served is what the headers describe, ETag, length and window,   *)
(* however the file changed between the two stats: it lies inside the file *)
(* both of them saw and is of a version with their size and time stamp.    *)
(* Nothing watches a file that changes later: bytes read by then may be of *)
(* any version written since the second stat.                              *)
(***************************************************************************)
ServedAsDescribed ==
    content.step = "served" =>
        /\ content.start + content.length <= versions[content.seen].size
        /\ content.start + content.length <= versions[content.again].size
        /\ \/ versions[content.from] = versions[content.seen]
           \/ content.from > content.again

\* contentRange gives exactly the bytes of the file that were asked for: the first
\* `Window' of them without a range, and otherwise those the range names.
RangeIsExact ==
    \A r \in Ranges :
        LET size  == versions[Current].size
            asked == CASE r = NoRange -> 0..(Window - 1)
                       [] r = Whole -> 0..(size - 1)
                       [] r.first = 0 - 2 -> (size - r.last)..(size - 1)
                       [] r.first >= 0 /\ r.last = 0 - 1 -> r.first..(size - 1)
                       [] OTHER -> r.first..r.last
            w == ContentRange(r, size)
        IN  w # Refused => w.start..(w.start + w.length - 1) = asked \cap 0..(size - 1)

\* What a client is given belongs together: the pages of a listing, the headers and
\* the bytes of a file, a range and what was asked for.
ListingSafe == ListingTypeOK /\ PagesOfOneListing /\ ServedAsDescribed /\ RangeIsExact
=============================================================================
