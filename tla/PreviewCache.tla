---------------------------- MODULE PreviewCache ----------------------------
(***************************************************************************)
(* Image previews: src/backend/internal/imagepreview, with the callbacks   *)
(* of the content handler.  Requests for one picture convert it at most    *)
(* once at a time and share the result through a disk cache (fcache,       *)
(* external: an entry per key, a filler holds its key, an expired entry is *)
(* not returned); a janitor deletes the entries it has tracked once they   *)
(* have expired.  An open reader reads on when its entry goes, so nothing  *)
(* more is said of a request once it has one.                              *)
(*                                                                         *)
(* The cache key is a hash of everything that identifies the source, so    *)
(* here it is the version of the source that the handler's stat reported.  *)
(***************************************************************************)
EXTENDS Naturals, FiniteSets

CONSTANTS Callers,        \* HTTP requests
          MaxConversions, \* cap(slots)
          MaxVersion,     \* bound: versions of the picture, the keys of the cache
          MaxTime,        \* bound: the clock
          MaxFaults,      \* bound: damaged entries, failed steps of New and of the janitor, crashes
          NoCaller

PreviewBounds ==
    /\ IsFiniteSet(Callers) /\ NoCaller \notin Callers
    /\ {MaxConversions, MaxVersion} \subseteq Nat \ {0} /\ {MaxTime, MaxFaults} \subseteq Nat

VARIABLES source,    \* the current version of the picture
          cache,     \* key -> entry or NoEntry
          filling,   \* key -> the caller whose filler runs, or NoCaller
          tracked,   \* Service.tracked: key -> expiry, or 0
          caller,    \* the requests in Open
          slots,     \* conversions running (len of the channel)
          sweep,     \* the janitor: keys still to delete, and the key to untrack
          now, faults,
          up,        \* the service: down, claiming the directory, clearing the cache, up, off for good
          marker,    \* the file that says the directory is Roaminal's: none, partial, ours;
                     \* "foreign" when there is none and the directory is not empty
          raced      \* ghost: keys put between their deletion and `delete(s.tracked, key)'

previewVars == <<source, cache, filling, tracked, caller, slots, sweep, now, faults, up, marker, raced>>

Keys    == 1..MaxVersion
NoEntry == [of |-> 0, good |-> FALSE, expires |-> 0]
Idle    == [step |-> "idle", key |-> 0, read |-> 0, second |-> FALSE, expires |-> 0]
NoSweep == [keys |-> {}, last |-> 0]
CacheMaxAge == 1

PreviewTypeOK ==
    /\ source \in Keys /\ now \in 0..MaxTime /\ faults \in 0..MaxFaults
    /\ cache \in [Keys -> [of : 0..MaxVersion, good : BOOLEAN, expires : 0..(MaxTime + CacheMaxAge)]]
    /\ filling \in [Keys -> Callers \cup {NoCaller}]
    /\ tracked \in [Keys -> 0..(MaxTime + CacheMaxAge)]
    /\ caller \in [Callers -> [step : {"idle", "get", "put", "slot", "open", "copy", "validate",
                                       "convert", "track"},
                               key : 0..MaxVersion, read : 0..MaxVersion, second : BOOLEAN,
                               expires : 0..(MaxTime + CacheMaxAge)]]
    /\ slots \in 0..MaxConversions
    /\ sweep \in [keys : SUBSET Keys, last : 0..MaxVersion]
    /\ up \in {"down", "claiming", "clearing", "up", "off"} /\ marker \in {"none", "foreign", "partial", "ours"}
    /\ raced \subseteq Keys

PreviewInit ==
    /\ source = 1 /\ cache = [k \in Keys |-> NoEntry] /\ filling = [k \in Keys |-> NoCaller]
    /\ tracked = [k \in Keys |-> 0] /\ caller = [c \in Callers |-> Idle]
    /\ slots = 0 /\ sweep = NoSweep /\ now = 0 /\ faults = 0
    /\ up = "down" /\ marker \in {"none", "foreign"} /\ raced = {}

Move(c, step) == caller' = [caller EXCEPT ![c].step = step]
Served(c)     == caller' = [caller EXCEPT ![c] = Idle]
Live(k)  == cache[k] # NoEntry /\ now < cache[k].expires
\* validateCachedReader: the frame of the picture, its header and its chunks, is whole.
\* Damage inside a chunk passes unnoticed and is no damage here.
Valid(k) == cache[k].good
KeyOf(version) == version                \* the digest of the request
Fault == faults < MaxFaults /\ faults' = faults + 1

\* cache.Delete, which may fail; it waits for a filler of the key (external).
Deleted(k) == filling[k] = NoCaller /\ cache' = [cache EXCEPT ![k] = NoEntry] /\ UNCHANGED faults
NotDeleted(k) == filling[k] = NoCaller /\ Fault /\ UNCHANGED cache

----------------------------------------------------------------------------
(* filesystemImagePreview and Open *)

\* The handler stats the file and asks for the preview of that version.
Request(c) ==
    /\ caller[c].step = "idle" /\ up = "up"
    /\ caller' = [caller EXCEPT ![c] = [Idle EXCEPT !.step = "get", !.key = KeyOf(source)]]
    /\ UNCHANGED <<source, cache, filling, tracked, slots, sweep, now, faults, raced, up, marker>>

\* GetReader: a valid entry is served; a damaged one is deleted, and whether that
\* works or not a fill is tried.
GetReader(c) ==
    LET k == caller[c].key
    IN  /\ caller[c].step = "get" /\ filling[k] = NoCaller
        /\ \/ Live(k) /\ Valid(k) /\ Served(c) /\ UNCHANGED <<cache, faults>>
           \/ Live(k) /\ ~Valid(k) /\ Move(c, "put") /\ (Deleted(k) \/ NotDeleted(k))
           \/ ~Live(k) /\ Move(c, "put") /\ UNCHANGED <<cache, faults>>
        /\ UNCHANGED <<source, filling, tracked, slots, sweep, now, raced, up, marker>>

\* GetReaderOrPut: an entry that another caller has put is taken if it is valid.
\* A damaged one is deleted and the fill is tried a second and last time.
FoundEntry(c) ==
    LET k == caller[c].key
    IN  /\ caller[c].step = "put" /\ filling[k] = NoCaller /\ Live(k)
        /\ \/ Valid(k) /\ Served(c) /\ UNCHANGED <<cache, faults>>
           \/ /\ ~Valid(k)
              /\ \/ /\ Deleted(k)
                    /\ caller' = [caller EXCEPT ![c] = IF caller[c].second THEN Idle
                                                       ELSE [@ EXCEPT !.second = TRUE]]
                 \/ NotDeleted(k) /\ caller' = [caller EXCEPT ![c] = Idle]
        /\ UNCHANGED <<source, filling, tracked, slots, sweep, now, raced, up, marker>>

BeginFill(c) ==
    LET k == caller[c].key
    IN  /\ caller[c].step = "put" /\ filling[k] = NoCaller /\ ~Live(k)
        /\ filling' = [filling EXCEPT ![k] = c]
        /\ Move(c, "slot")
        /\ UNCHANGED <<source, cache, tracked, slots, sweep, now, faults, raced, up, marker>>

----------------------------------------------------------------------------
(* fill *)

AcquireSlot(c) ==
    /\ caller[c].step = "slot" /\ slots < MaxConversions
    /\ slots' = slots + 1 /\ Move(c, "open")
    /\ UNCHANGED <<source, cache, filling, tracked, sweep, now, faults, raced, up, marker>>

HasSlot(c) == caller[c].step \in {"open", "copy", "validate", "convert"}

\* The source cannot be opened, copied or converted, is too large, or the request's
\* context has ended, while it waited for a slot too.
Release(c) == IF HasSlot(c) THEN slots - 1 ELSE slots
FillFails(c) ==
    /\ caller[c].step = "slot" \/ HasSlot(c)
    /\ slots' = Release(c)
    /\ filling' = [filling EXCEPT ![caller[c].key] = NoCaller]
    /\ caller' = [caller EXCEPT ![c] = Idle]
    /\ UNCHANGED <<source, cache, tracked, sweep, now, faults, raced, up, marker>>

\* request.Open: the stat that goes with it must still report the same version.
OpenSource(c) ==
    /\ caller[c].step = "open" /\ source = caller[c].key
    /\ Move(c, "copy")
    /\ UNCHANGED <<source, cache, filling, tracked, slots, sweep, now, faults, raced, up, marker>>

CopySource(c) ==
    /\ caller[c].step = "copy"
    /\ caller' = [caller EXCEPT ![c] = [@ EXCEPT !.step = "validate", !.read = source]]
    /\ UNCHANGED <<source, cache, filling, tracked, slots, sweep, now, faults, raced, up, marker>>

Validate_Skipped(c) ==
    /\ caller[c].step = "validate"
    /\ Move(c, "convert")
    /\ UNCHANGED <<source, cache, filling, tracked, slots, sweep, now, faults, raced, up, marker>>

\* request.Validate: the stat after the copy.
Validate(c) ==
    /\ caller[c].step = "validate" /\ source = caller[c].key
    /\ Move(c, "convert")
    /\ UNCHANGED <<source, cache, filling, tracked, slots, sweep, now, faults, raced, up, marker>>

\* convertFile and the write of the entry; the key and the slot are given back.
Convert(c) ==
    LET k == caller[c].key
    IN  /\ caller[c].step = "convert"
        /\ cache' = [cache EXCEPT ![k] = [of |-> caller[c].read, good |-> TRUE,
                                          expires |-> now + CacheMaxAge]]
        /\ filling' = [filling EXCEPT ![k] = NoCaller] /\ slots' = slots - 1
        /\ caller' = [caller EXCEPT ![c] = [@ EXCEPT !.step = "track",
                                                      !.expires = now + CacheMaxAge]]
        /\ raced' = IF sweep.last = k THEN raced \cup {k} ELSE raced \ {k}
        /\ UNCHANGED <<source, tracked, sweep, now, faults, up, marker>>

Track(c) ==
    /\ caller[c].step = "track"
    /\ tracked' = [tracked EXCEPT ![caller[c].key] = caller[c].expires]
    /\ Served(c)
    /\ UNCHANGED <<source, cache, filling, slots, sweep, now, faults, raced, up, marker>>

----------------------------------------------------------------------------
(***************************************************************************)
(* cleanupExpired: the expired keys are collected under trackedMu, then    *)
(* each is deleted from the cache and after that no longer tracked.        *)
(***************************************************************************)
CollectExpired ==
    /\ sweep = NoSweep /\ up = "up"
    /\ \E keys \in {{k \in Keys : tracked[k] # 0 /\ now >= tracked[k]}} :
          keys # {} /\ sweep' = [keys |-> keys, last |-> 0]
    /\ UNCHANGED <<source, cache, filling, tracked, caller, slots, now, faults, raced, up, marker>>

DeleteExpired(k) ==
    /\ sweep.last = 0 /\ k \in sweep.keys
    /\ \/ Deleted(k) /\ sweep' = [keys |-> sweep.keys \ {k}, last |-> k]
       \/ NotDeleted(k) /\ sweep' = [sweep EXCEPT !.keys = @ \ {k}]
    /\ UNCHANGED <<source, filling, tracked, caller, slots, now, raced, up, marker>>

Untrack ==
    /\ sweep.last # 0
    /\ tracked' = [tracked EXCEPT ![sweep.last] = 0] /\ sweep' = [sweep EXCEPT !.last = 0]
    /\ UNCHANGED <<source, cache, filling, caller, slots, now, faults, raced, up, marker>>

----------------------------------------------------------------------------
(***************************************************************************)
(* New.  The directory is claimed by a marker, which must be the first     *)
(* thing in it and is created before it is written; then the cache of the  *)
(* run before is cleared or its directory replaced, because no entry of it *)
(* is tracked.  What fails leaves the service off.                         *)
(***************************************************************************)
PrepareDirectory ==
    /\ up = "down"
    /\ \/ marker = "none" /\ up' = "claiming" /\ marker' = "partial" /\ UNCHANGED faults
       \/ marker = "ours" /\ up' = "clearing" /\ UNCHANGED <<marker, faults>>
       \/ marker \in {"foreign", "partial"} /\ up' = "off" /\ UNCHANGED <<marker, faults>>
       \/ Fault /\ up' = "off" /\ UNCHANGED marker
    /\ UNCHANGED <<source, cache, filling, tracked, caller, slots, sweep, now, raced>>
EnsureMarker ==
    /\ up = "claiming"
    /\ \/ up' = "clearing" /\ marker' = "ours" /\ UNCHANGED faults
       \/ Fault /\ up' = "off" /\ marker' \in {"partial", "ours"}
    /\ UNCHANGED <<source, cache, filling, tracked, caller, slots, sweep, now, raced>>

ClearCache ==
    /\ up = "clearing" /\ up' = "up" /\ cache' = [k \in Keys |-> NoEntry]
    /\ UNCHANGED <<source, filling, tracked, caller, slots, sweep, now, faults, marker, raced>>
\* The cache does not let itself be cleared: its directory is replaced, or that fails too.
ReplaceData ==
    /\ up = "clearing" /\ Fault
    /\ \/ up' = "up" /\ cache' = [k \in Keys |-> NoEntry]
       \/ up' = "off" /\ UNCHANGED cache
    /\ UNCHANGED <<source, filling, tracked, caller, slots, sweep, now, marker, raced>>

Crash ==
    /\ up \in {"claiming", "clearing", "up"} /\ Fault /\ up' = "down"
    /\ filling' = [k \in Keys |-> NoCaller] /\ tracked' = [k \in Keys |-> 0]
    /\ caller' = [c \in Callers |-> Idle] /\ slots' = 0 /\ sweep' = NoSweep
    /\ UNCHANGED <<source, cache, now, marker, raced>>

----------------------------------------------------------------------------
\* External: the picture is replaced, time passes, an entry is damaged or evicted.
SourceChanges ==
    /\ source < MaxVersion /\ source' = source + 1
    /\ UNCHANGED <<cache, filling, tracked, caller, slots, sweep, now, faults, raced, up, marker>>
Tick ==
    /\ now < MaxTime /\ now' = now + 1
    /\ UNCHANGED <<source, cache, filling, tracked, caller, slots, sweep, faults, raced, up, marker>>
Damage(k) ==
    /\ cache[k] # NoEntry /\ cache[k].good /\ Fault
    /\ cache' = [cache EXCEPT ![k].good = FALSE]
    /\ UNCHANGED <<source, filling, tracked, caller, slots, sweep, now, raced, up, marker>>
Evict(k) ==
    /\ cache[k] # NoEntry /\ filling[k] = NoCaller
    /\ cache' = [cache EXCEPT ![k] = NoEntry]
    /\ UNCHANGED <<source, filling, tracked, caller, slots, sweep, now, faults, raced, up, marker>>

PreviewNext ==
    \/ \E c \in Callers :
          \/ Request(c) \/ GetReader(c) \/ FoundEntry(c) \/ BeginFill(c)
          \/ AcquireSlot(c) \/ FillFails(c) \/ OpenSource(c) \/ CopySource(c)
          \/ Validate(c) \/ Convert(c) \/ Track(c)
    \/ \E k \in Keys : DeleteExpired(k) \/ Damage(k) \/ Evict(k)
    \/ CollectExpired \/ Untrack \/ SourceChanges \/ Tick
    \/ PrepareDirectory \/ EnsureMarker \/ ClearCache \/ ReplaceData \/ Crash

PreviewSpec == PreviewInit /\ [][PreviewNext]_previewVars

----------------------------------------------------------------------------
(* Properties *)

\* What the cache holds under the key of a version was converted from that version:
\* the picture may be replaced at any moment between the three stats and the copy.
\* (Versions that share size, second and mode share a key; this is not modelled.)
PreviewOfItsSource == \A k \in Keys : cache[k] # NoEntry => cache[k].of = k

\* However a fill ends, its slot is given back: the conversions running are exactly
\* the callers between acquiring a slot and the end of their fill.
SlotsExact == slots = Cardinality({c \in Callers : HasSlot(c)})

\* The janitor can only delete what is tracked, and CacheMaxAge bounds the life of an
\* entry on disk by this alone (configuration.md:33-34): an entry is tracked, or its
\* caller is about to track it, through evictions, failed deletions and refills, except
\* for the keys that were filled again between the two halves of cleanupExpired.
ForgottenOnlyByRace ==
    up = "up" => \A k \in Keys \ raced : cache[k] # NoEntry =>
        tracked[k] # 0 \/ \E c \in Callers : caller[c].step = "track" /\ caller[c].key = k

\* The cache holds what it says it holds, and counts and remembers it, however a fill
\* or an expiry goes.
PreviewSafe == /\ PreviewTypeOK /\ PreviewOfItsSource /\ SlotsExact /\ ForgottenOnlyByRace
=============================================================================
