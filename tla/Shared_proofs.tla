---------------------------- MODULE Shared_proofs ----------------------------
(***************************************************************************)
(* Proofs about what several clients share, for any number of requests and *)
(* viewers and any limits: the image previews (PreviewSafe), the commands  *)
(* of the remote browser (CommandsLand), and what its viewers see          *)
(* (ViewersAgree).                                                         *)
(*                                                                         *)
(* The argument for a preview: the stat after the copy leaves one version  *)
(* for what was asked and what was read, so what is written under a key was*)
(* converted from the version the key stands for. For the age of the cache:*)
(* an entry is put before it is tracked and untracked after it is deleted, *)
(* and only a fill between the two is forgotten.                           *)
(*                                                                         *)
(* The argument for a command: it is written before the next one is        *)
(* prepared, so the worker is at the operation of the page whenever no new *)
(* operation is on its way.                                                *)
(*                                                                         *)
(* The argument for what is seen: the page is what a viewer saw last, or a *)
(* state in its queue, and nothing behind that says anything else (Agrees).*)
(* Frames only repeat it, so dropping one keeps this, and a change of the  *)
(* page puts a new state behind everything, or disconnects the viewer.     *)
(***************************************************************************)
EXTENDS PreviewCache, BrowserPages, FiniteSetTheorems, WellFoundedInduction, TLAPS

-----------------------------------------------------------------------------
(* The image previews: the invariant                                     *)

Steps == {"idle", "get", "put", "slot", "open", "copy", "validate", "convert", "track"}
Expiries == 0..(MaxTime + CacheMaxAge)
CallerRecord == [step : Steps, key : 0..MaxVersion, read : 0..MaxVersion, second : BOOLEAN, expires : Expiries]
Entry == [of : 0..MaxVersion, good : BOOLEAN, expires : Expiries]
Filling == {c \in Callers : HasSlot(c)}

\* The version of a fill is not newer than the picture, nor what it has read older than
\* its version; the stat after the copy leaves one version for both.
ReadInOrder ==
    \A c \in Callers :
        /\ caller[c].step \in {"copy", "validate", "convert"} => caller[c].key \in Keys
        /\ caller[c].step = "copy" => caller[c].key <= source
        /\ caller[c].step = "validate" => caller[c].key <= caller[c].read /\ caller[c].read <= source
        /\ caller[c].step = "convert" => caller[c].read = caller[c].key
        /\ caller[c].step = "track" => caller[c].expires # 0

\* Between the two halves of cleanupExpired the key has no entry, or was raced.
SweptIsGone == sweep.last # 0 => cache[sweep.last] = NoEntry \/ sweep.last \in raced

PreviewInv ==
    /\ PreviewTypeOK /\ PreviewOfItsSource /\ SlotsExact /\ ForgottenOnlyByRace
    /\ ReadInOrder /\ SweptIsGone

\* The constants, and the sets they bound.
LEMMA PreviewConstants ==
  ASSUME PreviewBounds
  PROVE  /\ MaxVersion \in Nat /\ MaxTime \in Nat /\ MaxFaults \in Nat /\ MaxConversions \in Nat
         /\ Keys \subseteq 0..MaxVersion /\ Keys \subseteq Nat /\ 0 \notin Keys /\ 1 \in Keys
         /\ 0 \in 0..MaxVersion /\ 0 \in Expiries /\ \A t \in 0..MaxTime : t + CacheMaxAge \in Expiries \ {0}
         /\ NoEntry \in Entry /\ Idle \in CallerRecord /\ Idle.step = "idle"
<1>1. /\ MaxVersion \in Nat /\ MaxTime \in Nat /\ MaxFaults \in Nat /\ MaxConversions \in Nat
      /\ MaxVersion >= 1
  BY DEF PreviewBounds
<1>2. 0 \in 0..MaxVersion /\ 0 \in Expiries /\ \A t \in 0..MaxTime : t + CacheMaxAge \in Expiries \ {0}
  BY <1>1 DEF Expiries, CacheMaxAge
<1>3. Keys \subseteq 0..MaxVersion /\ Keys \subseteq Nat /\ 0 \notin Keys /\ 1 \in Keys
  BY <1>1 DEF Keys
<1>4. NoEntry \in Entry
  BY <1>2 DEF NoEntry, Entry
<1>5. Idle \in CallerRecord /\ Idle.step = "idle"
  BY <1>2 DEF Idle, CallerRecord, Steps
<1>. QED  BY <1>1, <1>2, <1>3, <1>4, <1>5

\* A step of one caller changes its record alone.
Becomes(c, r) ==
    /\ caller' \in [Callers -> CallerRecord] /\ caller'[c] = r
    /\ \A d \in Callers \ {c} : caller'[d] = caller[d]

LEMMA CallerBecomes ==
  ASSUME caller \in [Callers -> CallerRecord], NEW c \in Callers, NEW r \in CallerRecord,
         caller' = [caller EXCEPT ![c] = r]
  PROVE  Becomes(c, r)
BY DEF Becomes

LEMMA MoveBecomes ==
  ASSUME caller \in [Callers -> CallerRecord], NEW c \in Callers, NEW step \in Steps, Move(c, step)
  PROVE  \E r \in CallerRecord :
            /\ Becomes(c, r) /\ r.step = step
            /\ r.key = caller[c].key /\ r.read = caller[c].read /\ r.expires = caller[c].expires
<1>. DEFINE r == [caller[c] EXCEPT !.step = step]
<1>1. caller[c] \in CallerRecord
  OBVIOUS
<1>2. /\ r \in CallerRecord /\ r.step = step
      /\ r.key = caller[c].key /\ r.read = caller[c].read /\ r.expires = caller[c].expires
  BY <1>1 DEF CallerRecord
<1>3. caller' = [caller EXCEPT ![c] = r]
  BY DEF Move
<1>. HIDE DEF r
<1>4. Becomes(c, r)
  BY <1>2, <1>3, CallerBecomes
<1>. QED  BY <1>2, <1>4

\* The slots of a step that changes one caller: who gains and who loses one.
LEMMA SlotsMove ==
  ASSUME PreviewBounds, PreviewTypeOK, SlotsExact, NEW c \in Callers, NEW r \in CallerRecord, Becomes(c, r)
  PROVE  /\ r.step \notin {"open", "copy", "validate", "convert"} /\ HasSlot(c) =>
              Cardinality(Filling') = slots - 1 /\ slots - 1 \in 0..MaxConversions
         /\ r.step \in {"open", "copy", "validate", "convert"} /\ ~HasSlot(c) =>
              Cardinality(Filling') = slots + 1
         /\ (r.step \in {"open", "copy", "validate", "convert"} <=> HasSlot(c)) =>
              Cardinality(Filling') = slots
<1>1. IsFiniteSet(Filling) /\ Cardinality(Filling) \in Nat /\ slots = Cardinality(Filling)
  BY FS_Subset, FS_CardinalityType DEF PreviewBounds, SlotsExact, Filling
<1>2. slots \in 0..MaxConversions /\ MaxConversions \in Nat
  BY PreviewConstants DEF PreviewTypeOK
<1>3. ASSUME r.step \notin {"open", "copy", "validate", "convert"}  PROVE Filling' = Filling \ {c}
  BY <1>3 DEF Filling, HasSlot, Becomes
<1>4. ASSUME r.step \in {"open", "copy", "validate", "convert"}  PROVE Filling' = Filling \union {c}
  BY <1>4 DEF Filling, HasSlot, Becomes
<1>5. c \in Filling <=> HasSlot(c)
  BY DEF Filling
<1>6. Cardinality(Filling \ {c}) = IF c \in Filling THEN Cardinality(Filling) - 1 ELSE Cardinality(Filling)
  BY <1>1, FS_RemoveElement
<1>7. Cardinality(Filling \union {c}) = IF c \in Filling THEN Cardinality(Filling) ELSE Cardinality(Filling) + 1
  BY <1>1, FS_AddElement
<1>8. IsFiniteSet(Filling \ {c}) /\ Cardinality(Filling \ {c}) \in Nat
  BY <1>1, FS_RemoveElement, FS_CardinalityType
<1>9. ASSUME r.step \notin {"open", "copy", "validate", "convert"}, HasSlot(c)
      PROVE  Cardinality(Filling') = slots - 1 /\ slots - 1 \in 0..MaxConversions
  <2>1. Cardinality(Filling') = slots - 1
    BY <1>1, <1>3, <1>5, <1>6, <1>9
  <2>2. slots - 1 \in Nat
    BY <1>1, <1>5, <1>6, <1>8, <1>9
  <2>. QED  BY <1>2, <2>1, <2>2
<1>10. ASSUME r.step \in {"open", "copy", "validate", "convert"}, ~HasSlot(c)
       PROVE  Cardinality(Filling') = slots + 1
  BY <1>1, <1>4, <1>5, <1>7, <1>10
<1>11. ASSUME r.step \in {"open", "copy", "validate", "convert"}, HasSlot(c)
       PROVE  Cardinality(Filling') = slots
  BY <1>1, <1>4, <1>5, <1>7, <1>11
<1>12. ASSUME r.step \notin {"open", "copy", "validate", "convert"}, ~HasSlot(c)
       PROVE  Cardinality(Filling') = slots
  BY <1>1, <1>3, <1>5, <1>6, <1>12
<1>. QED  BY <1>9, <1>10, <1>11, <1>12

LEMMA PreviewStart == ASSUME PreviewBounds, PreviewInit PROVE PreviewInv
<1>1. caller \in [Callers -> CallerRecord] /\ cache \in [Keys -> Entry] /\ \A c \in Callers : caller[c].step = "idle"
  BY PreviewConstants DEF PreviewInit
<1>2. Filling = {}
  BY <1>1 DEF Filling, HasSlot
<1>3. SlotsExact
  BY <1>2, FS_EmptySet DEF SlotsExact, Filling, PreviewInit
<1>4. filling \in [Keys -> Callers \union {NoCaller}] /\ tracked \in [Keys -> Expiries]
  BY PreviewConstants DEF PreviewInit
<1>5. source \in Keys /\ now \in 0..MaxTime /\ faults \in 0..MaxFaults /\ slots \in 0..MaxConversions
  BY PreviewConstants DEF PreviewInit
<1>6. sweep \in [keys : SUBSET Keys, last : 0..MaxVersion]
  BY PreviewConstants DEF PreviewInit, NoSweep
<1>7. PreviewTypeOK
  BY <1>1, <1>4, <1>5, <1>6 DEF PreviewTypeOK, PreviewInit, CallerRecord, Entry, Steps, Expiries
<1>. QED
  BY <1>1, <1>3, <1>7 DEF PreviewInit, PreviewInv, PreviewOfItsSource, ForgottenOnlyByRace, ReadInOrder,
       SweptIsGone, NoSweep

-----------------------------------------------------------------------------
(* The image previews: the steps                                           *)

PreviewRest == PreviewOfItsSource /\ SlotsExact /\ ForgottenOnlyByRace /\ ReadInOrder /\ SweptIsGone

\* Entries go, but none comes.
Fewer == \A k \in Keys : cache'[k] = cache[k] \/ cache'[k] = NoEntry

\* A step that removes entries at most, and leaves the callers and the janitor alone.
LEMMA FewerKeeps ==
  ASSUME PreviewBounds, PreviewInv, Fewer,
         UNCHANGED <<source, tracked, caller, slots, sweep, raced, up>>
  PROVE  PreviewRest'
<1>. USE DEF PreviewInv, Fewer
<1>1. sweep.last # 0 => sweep.last \in Keys
  BY PreviewConstants DEF PreviewTypeOK, Keys
<1>2. PreviewOfItsSource' /\ ForgottenOnlyByRace' /\ SweptIsGone'
  BY <1>1 DEF PreviewOfItsSource, ForgottenOnlyByRace, SweptIsGone
<1>3. SlotsExact' /\ ReadInOrder'
  BY DEF SlotsExact, HasSlot, ReadInOrder
<1>. QED  BY <1>2, <1>3 DEF PreviewRest

\* The same for a caller that has nothing to do with a fill before and after.
LEMMA CallerKeeps ==
  ASSUME PreviewBounds, PreviewInv, Fewer, NEW c \in Callers, NEW r \in CallerRecord, Becomes(c, r),
         r.step \notin {"open", "copy", "validate", "convert", "track"},
         caller[c].step \notin {"open", "copy", "validate", "convert", "track"},
         UNCHANGED <<source, tracked, slots, sweep, raced, up>>
  PROVE  PreviewRest'
<1>. USE DEF PreviewInv, Fewer
<1>1. sweep.last # 0 => sweep.last \in Keys
  BY PreviewConstants DEF PreviewTypeOK, Keys
<1>2. PreviewOfItsSource' /\ SweptIsGone'
  BY <1>1 DEF PreviewOfItsSource, SweptIsGone
<1>3. ForgottenOnlyByRace'
  BY DEF ForgottenOnlyByRace, Becomes
<1>4. SlotsExact'
  BY SlotsMove DEF SlotsExact, Filling, HasSlot
<1>5. ReadInOrder'
  BY DEF ReadInOrder, Becomes
<1>. QED  BY <1>2, <1>3, <1>4, <1>5 DEF PreviewRest

\* And for a caller inside its fill.
LEMMA FillKeeps ==
  ASSUME PreviewBounds, PreviewInv, NEW c \in Callers, NEW r \in CallerRecord, Becomes(c, r),
         r.step # "track", caller[c].step # "track", slots' = Cardinality(Filling'),
         r.step \in {"copy", "validate", "convert"} => r.key \in Keys,
         r.step = "copy" => r.key <= source,
         r.step = "validate" => r.key <= r.read /\ r.read <= source,
         r.step = "convert" => r.read = r.key,
         UNCHANGED <<source, cache, tracked, sweep, raced, up>>
  PROVE  PreviewRest'
<1>. USE DEF PreviewInv
<1>1. PreviewOfItsSource' /\ SweptIsGone'
  BY DEF PreviewOfItsSource, SweptIsGone
<1>2. ForgottenOnlyByRace'
  BY DEF ForgottenOnlyByRace, Becomes
<1>3. SlotsExact'
  BY DEF SlotsExact, Filling
<1>4. ReadInOrder'
  BY DEF ReadInOrder, Becomes
<1>. QED  BY <1>1, <1>2, <1>3, <1>4 DEF PreviewRest

LEMMA PreviewTyped ==
  ASSUME PreviewTypeOK
  PROVE  caller \in [Callers -> CallerRecord] /\ cache \in [Keys -> Entry] /\ tracked \in [Keys -> Expiries]
BY DEF PreviewTypeOK, CallerRecord, Steps, Expiries, Entry

\* The deletion of an entry.
LEMMA DeletedIsFewer ==
  ASSUME PreviewTypeOK, NEW k,
         \/ UNCHANGED cache
         \/ cache' = [cache EXCEPT ![k] = NoEntry]
  PROVE  Fewer
BY PreviewTyped DEF Fewer

\* A caller that is before or after its fill.
Looks(c) ==
    \E r \in CallerRecord : Becomes(c, r) /\ r.step \in {"idle", "get", "put", "slot"}

LEMMA LookupsKeep ==
  ASSUME PreviewBounds, PreviewInv, NEW c \in Callers,
         Request(c) \/ GetReader(c) \/ FoundEntry(c) \/ BeginFill(c)
  PROVE  PreviewRest' /\ \E r \in CallerRecord : Becomes(c, r)
<1>. USE DEF PreviewInv
<1>1. caller \in [Callers -> CallerRecord] /\ caller[c] \in CallerRecord
  BY PreviewTyped
<1>2. Fewer
  BY DeletedIsFewer DEF Request, GetReader, FoundEntry, BeginFill, Served, Deleted, NotDeleted
<1>3. UNCHANGED <<source, tracked, slots, sweep, raced, up>>
  BY DEF Request, GetReader, FoundEntry, BeginFill
<1>4. caller[c].step \in {"idle", "get", "put"}
  BY DEF Request, GetReader, FoundEntry, BeginFill
<1>5. Looks(c)
  <2>1. ASSUME Request(c)  PROVE Looks(c)
    <3>. DEFINE r == [Idle EXCEPT !.step = "get", !.key = KeyOf(source)]
    <3>1. r \in CallerRecord /\ r.step = "get"
      BY PreviewConstants DEF CallerRecord, Steps, KeyOf, PreviewTypeOK
    <3>2. caller' = [caller EXCEPT ![c] = r]
      BY <2>1 DEF Request
    <3>. HIDE DEF r
    <3>. QED  BY <1>1, <3>1, <3>2, CallerBecomes DEF Looks
  <2>2. ASSUME GetReader(c) \/ BeginFill(c)  PROVE Looks(c)
    <3>1. Served(c) \/ \E step \in {"put", "slot"} : Move(c, step)
      BY <2>2 DEF GetReader, BeginFill
    <3>2. CASE Served(c)
      BY <1>1, <3>2, CallerBecomes, PreviewConstants DEF Looks, Served
    <3>3. ASSUME NEW step \in {"put", "slot"}, Move(c, step)  PROVE Looks(c)
      BY <1>1, <3>3, MoveBecomes DEF Steps, Looks
    <3>. QED  BY <3>1, <3>2, <3>3
  <2>3. ASSUME FoundEntry(c)  PROVE Looks(c)
    <3>. DEFINE r == [caller[c] EXCEPT !.second = TRUE]
    <3>1. r \in CallerRecord /\ r.step = caller[c].step
      BY <1>1 DEF CallerRecord
    <3>2. \/ caller[c].step = "put" /\ caller' = [caller EXCEPT ![c] = r]
          \/ caller' = [caller EXCEPT ![c] = Idle]
      BY <2>3 DEF FoundEntry, Served
    <3>. HIDE DEF r
    <3>3. CASE caller[c].step = "put" /\ caller' = [caller EXCEPT ![c] = r]
      BY <1>1, <3>1, <3>3, CallerBecomes DEF Looks
    <3>4. CASE caller' = [caller EXCEPT ![c] = Idle]
      BY <1>1, <3>4, CallerBecomes, PreviewConstants DEF Looks
    <3>. QED  BY <3>2, <3>3, <3>4
  <2>. QED  BY <2>1, <2>2, <2>3
<1>6. PICK r \in CallerRecord : Becomes(c, r) /\ r.step \in {"idle", "get", "put", "slot"}
  BY <1>5 DEF Looks
<1>. QED  BY <1>2, <1>3, <1>4, <1>6, CallerKeeps

LEMMA FillsKeep ==
  ASSUME PreviewBounds, PreviewInv, NEW c \in Callers,
         AcquireSlot(c) \/ FillFails(c) \/ OpenSource(c) \/ CopySource(c) \/ Validate(c)
  PROVE  PreviewRest' /\ slots' \in 0..MaxConversions /\ \E r \in CallerRecord : Becomes(c, r)
<1>. USE DEF PreviewInv
<1>1. caller \in [Callers -> CallerRecord] /\ caller[c] \in CallerRecord
  BY PreviewTyped
<1>2. source \in Keys /\ Keys \subseteq 0..MaxVersion /\ Keys \subseteq Nat
      /\ slots \in 0..MaxConversions /\ MaxConversions \in Nat
  BY PreviewConstants DEF PreviewTypeOK
<1>3. UNCHANGED <<source, cache, tracked, sweep, raced, up>>
  BY DEF AcquireSlot, FillFails, OpenSource, CopySource, Validate
<1>4. ASSUME AcquireSlot(c)
      PROVE  PreviewRest' /\ slots' \in 0..MaxConversions /\ \E r \in CallerRecord : Becomes(c, r)
  <2>1. PICK r \in CallerRecord : Becomes(c, r) /\ r.step = "open"
    BY <1>1, <1>4, MoveBecomes DEF AcquireSlot, Steps
  <2>2. caller[c].step = "slot" /\ ~HasSlot(c) /\ slots' = slots + 1 /\ slots < MaxConversions
    BY <1>4 DEF AcquireSlot, HasSlot
  <2>3. slots' = Cardinality(Filling')
    BY <2>1, <2>2, SlotsMove
  <2>4. slots' \in 0..MaxConversions
    BY <1>2, <2>2
  <2>. QED  BY <1>3, <2>1, <2>2, <2>3, <2>4, FillKeeps
<1>5. ASSUME FillFails(c)
      PROVE  PreviewRest' /\ slots' \in 0..MaxConversions /\ \E r \in CallerRecord : Becomes(c, r)
  <2>1. Becomes(c, Idle) /\ Idle \in CallerRecord /\ Idle.step = "idle"
    BY <1>1, <1>5, CallerBecomes, PreviewConstants DEF FillFails
  <2>2. caller[c].step # "track" /\ slots' = IF HasSlot(c) THEN slots - 1 ELSE slots
    BY <1>5 DEF FillFails, HasSlot, Release
  <2>3. slots' = Cardinality(Filling') /\ slots' \in 0..MaxConversions
    BY <1>2, <2>1, <2>2, SlotsMove
  <2>. QED  BY <1>3, <2>1, <2>2, <2>3, FillKeeps
<1>6. ASSUME OpenSource(c) \/ Validate(c)
      PROVE  PreviewRest' /\ slots' \in 0..MaxConversions /\ \E r \in CallerRecord : Becomes(c, r)
  <2>1. PICK step \in {"copy", "convert"} :
           /\ Move(c, step) /\ source = caller[c].key /\ UNCHANGED slots
           /\ caller[c].step = IF step = "copy" THEN "open" ELSE "validate"
    BY <1>6 DEF OpenSource, Validate
  <2>2. PICK r \in CallerRecord :
           Becomes(c, r) /\ r.step = step /\ r.key = caller[c].key /\ r.read = caller[c].read
    BY <1>1, <2>1, MoveBecomes DEF Steps
  <2>3. HasSlot(c)
    BY <2>1 DEF HasSlot
  <2>4. slots' = Cardinality(Filling')
    BY <2>1, <2>2, <2>3, SlotsMove
  <2>5. r.read \in Nat /\ r.key \in Nat
    BY <1>2 DEF CallerRecord
  <2>6. r.key <= source
    <3>1. r.key = source
      BY <2>1, <2>2
    <3>. QED  BY <1>2, <2>5, <3>1
  <2>8. r.key \in Keys
    BY <1>2, <2>1, <2>2
  <2>7. r.step = "convert" => r.read = r.key
    BY <1>2, <2>1, <2>2, <2>5 DEF ReadInOrder
  <2>. QED  BY <1>2, <1>3, <2>1, <2>2, <2>4, <2>6, <2>7, <2>8, FillKeeps
<1>7. ASSUME CopySource(c)
      PROVE  PreviewRest' /\ slots' \in 0..MaxConversions /\ \E r \in CallerRecord : Becomes(c, r)
  <2>. DEFINE r == [caller[c] EXCEPT !.step = "validate", !.read = source]
  <2>1. r \in CallerRecord /\ r.step = "validate" /\ r.read = source /\ r.key = caller[c].key
    BY <1>1, <1>2 DEF CallerRecord, Steps
  <2>2. caller[c].step = "copy" /\ caller' = [caller EXCEPT ![c] = r] /\ UNCHANGED slots
    BY <1>7 DEF CopySource
  <2>. HIDE DEF r
  <2>3. Becomes(c, r) /\ HasSlot(c)
    BY <1>1, <2>1, <2>2, CallerBecomes DEF HasSlot
  <2>4. slots' = Cardinality(Filling')
    BY <2>1, <2>2, <2>3, SlotsMove
  <2>5. r.key <= r.read /\ r.read <= source /\ r.key \in Keys
    BY <1>2, <2>1, <2>2 DEF ReadInOrder
  <2>. QED  BY <1>2, <1>3, <2>1, <2>2, <2>3, <2>4, <2>5, FillKeeps
<1>. QED  BY <1>4, <1>5, <1>6, <1>7

\* What the converter writes was read from the version its key stands for.
LEMMA ConvertKeeps ==
  ASSUME PreviewBounds, PreviewInv, NEW c \in Callers, Convert(c)
  PROVE  /\ PreviewRest' /\ slots' \in 0..MaxConversions /\ \E r \in CallerRecord : Becomes(c, r)
         /\ cache' \in [Keys -> Entry] /\ raced' \subseteq Keys
<1>. USE DEF PreviewInv
<1>. DEFINE k == caller[c].key
            r == [caller[c] EXCEPT !.step = "track", !.expires = now + CacheMaxAge]
            e == [of |-> caller[c].read, good |-> TRUE, expires |-> now + CacheMaxAge]
<1>1. /\ caller \in [Callers -> CallerRecord] /\ caller[c] \in CallerRecord
      /\ cache \in [Keys -> Entry] /\ raced \subseteq Keys /\ sweep.last \in 0..MaxVersion
  BY PreviewTyped DEF PreviewTypeOK
<1>2. caller[c].step = "convert" /\ k \in Keys /\ caller[c].read = k /\ HasSlot(c)
  BY DEF Convert, ReadInOrder, HasSlot
<1>3. now + CacheMaxAge \in Expiries \ {0}
  BY PreviewConstants DEF PreviewTypeOK
<1>4. r \in CallerRecord /\ r.step = "track" /\ r.key = k /\ r.expires # 0
  BY <1>1, <1>3 DEF CallerRecord, Steps
<1>5. e \in Entry /\ e.of = k
  BY <1>1, <1>2, <1>3 DEF Entry, CallerRecord
<1>6. /\ cache' = [cache EXCEPT ![k] = e] /\ caller' = [caller EXCEPT ![c] = r] /\ slots' = slots - 1
      /\ raced' = IF sweep.last = k THEN raced \union {k} ELSE raced \ {k}
      /\ UNCHANGED <<source, tracked, sweep, up>>
  BY DEF Convert
<1>. HIDE DEF r, e, k
<1>7. Becomes(c, r)
  BY <1>1, <1>4, <1>6, CallerBecomes
<1>8. slots' = Cardinality(Filling') /\ slots' \in 0..MaxConversions
  BY <1>2, <1>4, <1>6, <1>7, SlotsMove
<1>9. cache' \in [Keys -> Entry] /\ raced' \subseteq Keys
  BY <1>1, <1>2, <1>5, <1>6
<1>10. PreviewOfItsSource'
  BY <1>1, <1>2, <1>5, <1>6 DEF PreviewOfItsSource
<1>11. SlotsExact'
  BY <1>8 DEF SlotsExact, Filling
<1>12. ForgottenOnlyByRace'
  <2>. SUFFICES ASSUME up' = "up", NEW j \in Keys \ raced', cache'[j] # NoEntry
                PROVE  tracked'[j] # 0 \/ \E d \in Callers : caller'[d].step = "track" /\ caller'[d].key = j
    BY DEF ForgottenOnlyByRace
  <2>1. CASE j = k
    BY <1>4, <1>7, <2>1 DEF Becomes
  <2>2. CASE j # k
    <3>1. j \in Keys \ raced /\ cache[j] # NoEntry
      BY <1>1, <1>6, <2>2
    <3>2. tracked[j] # 0 \/ \E d \in Callers \ {c} : caller[d].step = "track" /\ caller[d].key = j
      BY <1>2, <1>6, <3>1 DEF ForgottenOnlyByRace
    <3>. QED  BY <1>6, <1>7, <3>2 DEF Becomes
  <2>. QED  BY <2>1, <2>2
<1>13. ReadInOrder'
  BY <1>4, <1>6, <1>7 DEF ReadInOrder, Becomes
<1>14. SweptIsGone'
  BY <1>1, <1>2, <1>6 DEF SweptIsGone
<1>. QED  BY <1>4, <1>7, <1>8, <1>9, <1>10, <1>11, <1>12, <1>13, <1>14 DEF PreviewRest

LEMMA TrackKeeps ==
  ASSUME PreviewBounds, PreviewInv, NEW c \in Callers, Track(c)
  PROVE  PreviewRest' /\ tracked' \in [Keys -> Expiries] /\ \E r \in CallerRecord : Becomes(c, r)
<1>. USE DEF PreviewInv
<1>1. /\ caller \in [Callers -> CallerRecord] /\ caller[c] \in CallerRecord
      /\ tracked \in [Keys -> Expiries]
  BY PreviewTyped
<1>2. /\ caller[c].step = "track" /\ caller[c].expires # 0 /\ ~HasSlot(c)
      /\ tracked' = [tracked EXCEPT ![caller[c].key] = caller[c].expires]
      /\ UNCHANGED <<source, cache, slots, sweep, raced, up>>
  BY DEF Track, ReadInOrder, HasSlot
<1>3. PICK r \in CallerRecord : Becomes(c, r) /\ r.step = "idle"
  BY <1>1, CallerBecomes, PreviewConstants DEF Track, Served
<1>4. tracked' \in [Keys -> Expiries]
  BY <1>1, <1>2 DEF CallerRecord
<1>5. PreviewOfItsSource' /\ SweptIsGone'
  BY <1>2 DEF PreviewOfItsSource, SweptIsGone
<1>6. SlotsExact'
  BY <1>2, <1>3, SlotsMove DEF SlotsExact, Filling, HasSlot
<1>7. ForgottenOnlyByRace'
  <2>. SUFFICES ASSUME up' = "up", NEW j \in Keys \ raced', cache'[j] # NoEntry
                PROVE  tracked'[j] # 0 \/ \E d \in Callers : caller'[d].step = "track" /\ caller'[d].key = j
    BY DEF ForgottenOnlyByRace
  <2>1. tracked[j] # 0 \/ \E d \in Callers : caller[d].step = "track" /\ caller[d].key = j
    BY <1>2 DEF ForgottenOnlyByRace
  <2>2. tracked'[j] = IF caller[c].key = j THEN caller[c].expires ELSE tracked[j]
    BY <1>1, <1>2
  <2>. QED  BY <1>2, <1>3, <2>1, <2>2 DEF Becomes
<1>8. ReadInOrder'
  BY <1>2, <1>3 DEF ReadInOrder, Becomes
<1>. QED  BY <1>3, <1>4, <1>5, <1>6, <1>7, <1>8 DEF PreviewRest

\* The janitor.
LEMMA JanitorKeeps ==
  ASSUME PreviewBounds, PreviewInv,
         CollectExpired \/ Untrack \/ \E k \in Keys : DeleteExpired(k)
  PROVE  /\ PreviewRest' /\ tracked' \in [Keys -> Expiries]
         /\ sweep' \in [keys : SUBSET Keys, last : 0..MaxVersion]
<1>. USE DEF PreviewInv
<1>1. /\ sweep \in [keys : SUBSET Keys, last : 0..MaxVersion] /\ tracked \in [Keys -> Expiries]
      /\ cache \in [Keys -> Entry]
      /\ Keys \subseteq 0..MaxVersion /\ 0 \in 0..MaxVersion /\ 0 \in Expiries /\ 0 \notin Keys
  BY PreviewTyped, PreviewConstants DEF PreviewTypeOK
<1>2. sweep.last # 0 => sweep.last \in Keys
  BY <1>1 DEF Keys
<1>3. UNCHANGED <<source, caller, slots, raced, up>>
  BY DEF CollectExpired, Untrack, DeleteExpired
<1>4. SlotsExact' /\ ReadInOrder'
  BY <1>3 DEF SlotsExact, HasSlot, ReadInOrder
<1>5. CASE CollectExpired
  <2>1. sweep' \in [keys : SUBSET Keys, last : 0..MaxVersion] /\ sweep'.last = 0 /\ UNCHANGED <<cache, tracked>>
    BY <1>1, <1>5 DEF CollectExpired
  <2>. QED  BY <1>1, <1>3, <1>4, <2>1 DEF PreviewRest, PreviewOfItsSource, ForgottenOnlyByRace, SweptIsGone
<1>6. CASE Untrack
  <2>1. /\ sweep' \in [keys : SUBSET Keys, last : 0..MaxVersion] /\ sweep'.last = 0 /\ UNCHANGED cache
        /\ sweep.last # 0 /\ tracked' = [tracked EXCEPT ![sweep.last] = 0]
    BY <1>1, <1>6 DEF Untrack
  <2>2. cache[sweep.last] = NoEntry \/ sweep.last \in raced
    BY <2>1 DEF SweptIsGone
  <2>3. tracked' \in [Keys -> Expiries]
    BY <1>1, <2>1
  <2>4. ForgottenOnlyByRace'
    BY <1>1, <1>3, <2>1, <2>2 DEF ForgottenOnlyByRace
  <2>. QED  BY <1>3, <1>4, <2>1, <2>3, <2>4 DEF PreviewRest, PreviewOfItsSource, SweptIsGone
<1>7. ASSUME NEW k \in Keys, DeleteExpired(k)
      PROVE  /\ PreviewRest' /\ tracked' \in [Keys -> Expiries]
             /\ sweep' \in [keys : SUBSET Keys, last : 0..MaxVersion]
  <2>1. UNCHANGED tracked /\ sweep.last = 0
    BY <1>7 DEF DeleteExpired
  <2>2. /\ sweep' \in [keys : SUBSET Keys, last : 0..MaxVersion]
        /\ \/ sweep'.last = k /\ cache' = [cache EXCEPT ![k] = NoEntry]
           \/ sweep'.last = 0 /\ UNCHANGED cache
    BY <1>1, <1>7, <2>1 DEF DeleteExpired, Deleted, NotDeleted
  <2>3. Fewer
    BY <2>2, DeletedIsFewer
  <2>4. PreviewOfItsSource' /\ ForgottenOnlyByRace'
    BY <1>3, <2>1, <2>3 DEF PreviewOfItsSource, ForgottenOnlyByRace, Fewer
  <2>5. SweptIsGone'
    BY <1>1, <2>2 DEF SweptIsGone
  <2>. QED  BY <1>1, <1>4, <2>1, <2>2, <2>4, <2>5 DEF PreviewRest
<1>. QED  BY <1>5, <1>6, <1>7

\* The start, which leaves no entry of the run before, and the end of the process.
LEMMA ServiceKeeps ==
  ASSUME PreviewBounds, PreviewInv,
         PrepareDirectory \/ EnsureMarker \/ ClearCache \/ ReplaceData \/ Crash
  PROVE  /\ PreviewRest' /\ tracked' \in [Keys -> Expiries] /\ cache' \in [Keys -> Entry]
         /\ sweep' \in [keys : SUBSET Keys, last : 0..MaxVersion]
         /\ caller' \in [Callers -> CallerRecord] /\ slots' \in 0..MaxConversions
<1>. USE DEF PreviewInv
<1>1. /\ sweep \in [keys : SUBSET Keys, last : 0..MaxVersion] /\ tracked \in [Keys -> Expiries]
      /\ cache \in [Keys -> Entry] /\ caller \in [Callers -> CallerRecord] /\ slots \in 0..MaxConversions
  BY PreviewTyped DEF PreviewTypeOK
<1>2. sweep.last # 0 => sweep.last \in Keys
  BY <1>1 DEF Keys
<1>3. CASE PrepareDirectory \/ EnsureMarker \/ ClearCache \/ ReplaceData
  <2>1. UNCHANGED <<source, caller, slots, raced, tracked, sweep>>
    BY <1>3 DEF PrepareDirectory, EnsureMarker, ClearCache, ReplaceData
  <2>2. (up' # "up" /\ UNCHANGED cache) \/ cache' = [k \in Keys |-> NoEntry]
    BY <1>3 DEF PrepareDirectory, EnsureMarker, ClearCache, ReplaceData
  <2>3. SlotsExact' /\ ReadInOrder'
    BY <2>1 DEF SlotsExact, HasSlot, ReadInOrder
  <2>4. PreviewOfItsSource' /\ ForgottenOnlyByRace' /\ SweptIsGone'
    BY <1>2, <2>1, <2>2 DEF PreviewOfItsSource, ForgottenOnlyByRace, SweptIsGone
  <2>5. cache' \in [Keys -> Entry]
    BY <1>1, <2>2, PreviewConstants
  <2>. QED  BY <1>1, <2>1, <2>3, <2>4, <2>5 DEF PreviewRest
<1>4. CASE Crash
  <2>1. /\ UNCHANGED <<source, cache, raced>> /\ up' = "down" /\ slots' = 0 /\ sweep' = NoSweep
        /\ tracked' = [k \in Keys |-> 0] /\ caller' = [c \in Callers |-> Idle]
    BY <1>4 DEF Crash
  <2>2. caller' \in [Callers -> CallerRecord] /\ \A c \in Callers : caller'[c].step = "idle"
    BY <2>1, PreviewConstants
  <2>3. tracked' \in [Keys -> Expiries] /\ slots' \in 0..MaxConversions
    BY <2>1, PreviewConstants
  <2>4. sweep' \in [keys : SUBSET Keys, last : 0..MaxVersion] /\ sweep'.last = 0
    BY <2>1, PreviewConstants DEF NoSweep
  <2>5. Filling' = {}
    BY <2>2 DEF Filling, HasSlot
  <2>6. SlotsExact'
    BY <2>1, <2>5, FS_EmptySet DEF SlotsExact, Filling
  <2>7. PreviewOfItsSource' /\ ForgottenOnlyByRace' /\ SweptIsGone' /\ ReadInOrder'
    BY <2>1, <2>2, <2>4 DEF PreviewOfItsSource, ForgottenOnlyByRace, SweptIsGone, ReadInOrder
  <2>. QED  BY <1>1, <2>1, <2>2, <2>3, <2>4, <2>6, <2>7 DEF PreviewRest
<1>. QED  BY <1>3, <1>4

\* What happens around the service.
LEMMA OutsideKeeps ==
  ASSUME PreviewBounds, PreviewInv,
         SourceChanges \/ Tick \/ \E k \in Keys : Damage(k) \/ Evict(k)
  PROVE  PreviewRest' /\ cache' \in [Keys -> Entry]
<1>. USE DEF PreviewInv
<1>1. /\ sweep \in [keys : SUBSET Keys, last : 0..MaxVersion] /\ cache \in [Keys -> Entry]
      /\ caller \in [Callers -> CallerRecord] /\ source \in Nat /\ Keys \subseteq Nat
      /\ MaxVersion \in Nat /\ NoEntry \in Entry
  BY PreviewTyped, PreviewConstants DEF PreviewTypeOK
<1>2. sweep.last # 0 => sweep.last \in Keys
  BY <1>1 DEF Keys
<1>3. CASE SourceChanges
  <2>1. UNCHANGED <<cache, caller, slots, raced, tracked, sweep, up>> /\ source' = source + 1
    BY <1>3 DEF SourceChanges
  <2>2. \A c \in Callers : caller[c].key \in Nat /\ caller[c].read \in Nat
    BY <1>1 DEF CallerRecord
  <2>3. ReadInOrder'
    BY <1>1, <2>1, <2>2 DEF ReadInOrder
  <2>4. PreviewOfItsSource' /\ SlotsExact' /\ ForgottenOnlyByRace' /\ SweptIsGone'
    BY <2>1 DEF PreviewOfItsSource, SlotsExact, HasSlot, ForgottenOnlyByRace, SweptIsGone
  <2>. QED  BY <1>1, <2>1, <2>3, <2>4 DEF PreviewRest
<1>4. CASE Tick
  BY <1>1, <1>4 DEF Tick, PreviewRest, PreviewOfItsSource, SlotsExact, HasSlot, ForgottenOnlyByRace,
       SweptIsGone, ReadInOrder
<1>5. ASSUME NEW k \in Keys, Damage(k)  PROVE PreviewRest' /\ cache' \in [Keys -> Entry]
  <2>. DEFINE e == [cache[k] EXCEPT !.good = FALSE]
  <2>1. e \in Entry /\ e.of = cache[k].of /\ cache[k] # NoEntry
    BY <1>1, <1>5 DEF Damage, Entry
  <2>2. cache' = [cache EXCEPT ![k] = e] /\ UNCHANGED <<source, caller, slots, raced, tracked, sweep, up>>
    BY <1>5 DEF Damage
  <2>. HIDE DEF e
  <2>3. \A j \in Keys : cache'[j] # NoEntry => cache[j] # NoEntry /\ cache'[j].of = cache[j].of
    BY <1>1, <2>1, <2>2
  <2>4. PreviewOfItsSource' /\ ForgottenOnlyByRace' /\ SweptIsGone'
    BY <1>2, <2>2, <2>3 DEF PreviewOfItsSource, ForgottenOnlyByRace, SweptIsGone
  <2>5. SlotsExact' /\ ReadInOrder'
    BY <2>2 DEF SlotsExact, HasSlot, ReadInOrder
  <2>. QED  BY <1>1, <2>1, <2>2, <2>4, <2>5 DEF PreviewRest
<1>6. ASSUME NEW k \in Keys, Evict(k)  PROVE PreviewRest' /\ cache' \in [Keys -> Entry]
  <2>1. cache' = [cache EXCEPT ![k] = NoEntry] /\ UNCHANGED <<source, tracked, caller, slots, sweep, raced, up>>
    BY <1>6 DEF Evict
  <2>. QED  BY <1>1, <2>1, DeletedIsFewer, FewerKeeps
<1>. QED  BY <1>3, <1>4, <1>5, <1>6

-----------------------------------------------------------------------------
(* The image previews: the theorems                                        *)

\* One step of one caller.
CallerStep(c) ==
    \/ Request(c) \/ GetReader(c) \/ FoundEntry(c) \/ BeginFill(c)
    \/ AcquireSlot(c) \/ FillFails(c) \/ OpenSource(c) \/ CopySource(c)
    \/ Validate(c) \/ Convert(c) \/ Track(c)

\* The bounded counters and the small variables keep their types.
LEMMA SmallTyped ==
  ASSUME PreviewBounds, PreviewTypeOK, PreviewNext
  PROVE  /\ source' \in Keys /\ now' \in 0..MaxTime /\ faults' \in 0..MaxFaults
         /\ up' \in {"down", "claiming", "clearing", "up", "off"} /\ marker' \in {"none", "foreign", "partial", "ours"}
<1>1. /\ source \in Keys /\ now \in 0..MaxTime /\ faults \in 0..MaxFaults
      /\ MaxVersion \in Nat /\ MaxTime \in Nat /\ MaxFaults \in Nat
      /\ up \in {"down", "claiming", "clearing", "up", "off"} /\ marker \in {"none", "foreign", "partial", "ours"}
  BY PreviewConstants DEF PreviewTypeOK
<1>2. source' = source \/ (source < MaxVersion /\ source' = source + 1)
  BY DEF PreviewNext, Request, GetReader, FoundEntry, BeginFill, AcquireSlot, FillFails, OpenSource, CopySource,
       Validate, Convert, Track, DeleteExpired, Damage, Evict, CollectExpired, Untrack, SourceChanges,
       Tick, PrepareDirectory, EnsureMarker, ClearCache, ReplaceData, Crash
<1>3. now' = now \/ (now < MaxTime /\ now' = now + 1)
  BY DEF PreviewNext, Request, GetReader, FoundEntry, BeginFill, AcquireSlot, FillFails, OpenSource, CopySource,
       Validate, Convert, Track, DeleteExpired, Damage, Evict, CollectExpired, Untrack, SourceChanges,
       Tick, PrepareDirectory, EnsureMarker, ClearCache, ReplaceData, Crash
<1>4. faults' = faults \/ (faults < MaxFaults /\ faults' = faults + 1)
  <2>1. CASE \E c \in Callers : CallerStep(c)
    <3>1. faults' = faults \/ Fault
      BY <2>1 DEF CallerStep, Request, GetReader, FoundEntry, BeginFill, AcquireSlot, FillFails, OpenSource,
           CopySource, Validate, Convert, Track, Deleted, NotDeleted
    <3>. QED  BY <3>1 DEF Fault
  <2>2. CASE ~\E c \in Callers : CallerStep(c)
    <3>1. faults' = faults \/ Fault
      BY <2>2 DEF PreviewNext, CallerStep, DeleteExpired, Damage, Evict, CollectExpired, Untrack, SourceChanges,
           Tick, PrepareDirectory, EnsureMarker, ClearCache, ReplaceData, Crash, Deleted, NotDeleted
    <3>. QED  BY <3>1 DEF Fault
  <2>. QED  BY <2>1, <2>2
<1>5. /\ up' \in {up, "down", "claiming", "clearing", "up", "off"}
      /\ marker' \in {marker, "partial", "ours"}
  BY DEF PreviewNext, Request, GetReader, FoundEntry, BeginFill, AcquireSlot, FillFails, OpenSource, CopySource,
       Validate, Convert, Track, DeleteExpired, Damage, Evict, CollectExpired, Untrack, SourceChanges,
       Tick, PrepareDirectory, EnsureMarker, ClearCache, ReplaceData, Crash
<1>6. source' \in Keys
  BY <1>1, <1>2 DEF Keys
<1>7. now' \in 0..MaxTime /\ faults' \in 0..MaxFaults
  BY <1>1, <1>3, <1>4
<1>. QED  BY <1>1, <1>5, <1>6, <1>7

\* What a step leaves of the fillers, the slots and the cache.
LEMMA FillersTyped ==
  ASSUME PreviewBounds, PreviewTypeOK, PreviewNext
  PROVE  filling' \in [Keys -> Callers \union {NoCaller}]
<1>1. filling \in [Keys -> Callers \union {NoCaller}]
  BY DEF PreviewTypeOK
<1>2. ASSUME NEW c \in Callers, CallerStep(c)
      PROVE  \/ UNCHANGED filling \/ \E k, d : d \in {c, NoCaller} /\ filling' = [filling EXCEPT ![k] = d]
  BY <1>2 DEF CallerStep, Request, GetReader, FoundEntry, BeginFill, AcquireSlot, FillFails, OpenSource, CopySource,
       Validate, Convert, Track
<1>3. \/ UNCHANGED filling \/ \E k, d : d \in Callers \union {NoCaller} /\ filling' = [filling EXCEPT ![k] = d]
      \/ filling' = [k \in Keys |-> NoCaller]
  <2>1. CASE \E c \in Callers : CallerStep(c)
    BY <1>2, <2>1
  <2>2. CASE ~\E c \in Callers : CallerStep(c)
    BY <2>2 DEF PreviewNext, CallerStep, DeleteExpired, Damage, Evict, CollectExpired, Untrack, SourceChanges,
         Tick, PrepareDirectory, EnsureMarker, ClearCache, ReplaceData, Crash
  <2>. QED  BY <2>1, <2>2
<1>. QED  BY <1>1, <1>3

\* One step of one caller keeps the types of everything a caller touches.
LEMMA CallersTyped ==
  ASSUME PreviewBounds, PreviewInv, NEW c \in Callers, CallerStep(c)
  PROVE  /\ PreviewRest' /\ caller' \in [Callers -> CallerRecord] /\ cache' \in [Keys -> Entry]
         /\ tracked' \in [Keys -> Expiries] /\ slots' \in 0..MaxConversions
         /\ sweep' \in [keys : SUBSET Keys, last : 0..MaxVersion] /\ raced' \subseteq Keys
<1>. USE DEF PreviewInv
<1>1. /\ caller \in [Callers -> CallerRecord] /\ cache \in [Keys -> Entry] /\ tracked \in [Keys -> Expiries]
      /\ slots \in 0..MaxConversions /\ sweep \in [keys : SUBSET Keys, last : 0..MaxVersion] /\ raced \subseteq Keys
  BY PreviewTyped DEF PreviewTypeOK
<1>2. CASE Request(c) \/ GetReader(c) \/ FoundEntry(c) \/ BeginFill(c)
  <2>1. PreviewRest' /\ caller' \in [Callers -> CallerRecord]
    BY <1>2, LookupsKeep DEF Becomes
  <2>2. UNCHANGED <<tracked, slots, sweep, raced>>
    BY <1>2 DEF Request, GetReader, FoundEntry, BeginFill
  <2>3. UNCHANGED cache \/ \E k : cache' = [cache EXCEPT ![k] = NoEntry]
    BY <1>2 DEF Request, GetReader, FoundEntry, BeginFill, Served, Deleted, NotDeleted
  <2>4. cache' \in [Keys -> Entry]
    BY <1>1, <2>3, PreviewConstants
  <2>. QED  BY <1>1, <2>1, <2>2, <2>4
<1>3. CASE AcquireSlot(c) \/ FillFails(c) \/ OpenSource(c) \/ CopySource(c) \/ Validate(c)
  <2>1. PreviewRest' /\ slots' \in 0..MaxConversions /\ caller' \in [Callers -> CallerRecord]
    BY <1>3, FillsKeep DEF Becomes
  <2>2. UNCHANGED <<cache, tracked, sweep, raced>>
    BY <1>3 DEF AcquireSlot, FillFails, OpenSource, CopySource, Validate
  <2>. QED  BY <1>1, <2>1, <2>2
<1>4. CASE Convert(c)
  <2>1. UNCHANGED <<tracked, sweep>>
    BY <1>4 DEF Convert
  <2>. QED  BY <1>1, <1>4, <2>1, ConvertKeeps DEF Becomes
<1>5. CASE Track(c)
  <2>1. UNCHANGED <<cache, slots, sweep, raced>>
    BY <1>5 DEF Track
  <2>. QED  BY <1>1, <1>5, <2>1, TrackKeeps DEF Becomes
<1>. QED  BY <1>2, <1>3, <1>4, <1>5 DEF CallerStep

LEMMA PreviewStep ==
  ASSUME PreviewBounds, PreviewInv, [PreviewNext]_previewVars
  PROVE  PreviewInv'
<1>. USE DEF PreviewInv
<1>1. /\ caller \in [Callers -> CallerRecord] /\ cache \in [Keys -> Entry] /\ tracked \in [Keys -> Expiries]
      /\ slots \in 0..MaxConversions /\ sweep \in [keys : SUBSET Keys, last : 0..MaxVersion] /\ raced \subseteq Keys
  BY PreviewTyped DEF PreviewTypeOK
<1>2. CASE UNCHANGED previewVars
  BY <1>2 DEF previewVars, PreviewTypeOK, PreviewOfItsSource, SlotsExact, HasSlot, ForgottenOnlyByRace,
       ReadInOrder, SweptIsGone
<1>3. CASE PreviewNext
  <2>1. /\ PreviewRest' /\ caller' \in [Callers -> CallerRecord] /\ cache' \in [Keys -> Entry]
        /\ tracked' \in [Keys -> Expiries] /\ slots' \in 0..MaxConversions
        /\ sweep' \in [keys : SUBSET Keys, last : 0..MaxVersion] /\ raced' \subseteq Keys
    <3>1. CASE \E c \in Callers : CallerStep(c)
      BY <3>1, CallersTyped
    <3>2. CASE CollectExpired \/ Untrack \/ \E k \in Keys : DeleteExpired(k)
      <4>1. UNCHANGED <<caller, slots, raced>>
        BY <3>2 DEF CollectExpired, Untrack, DeleteExpired
      <4>2. UNCHANGED cache \/ \E k : cache' = [cache EXCEPT ![k] = NoEntry]
        BY <3>2 DEF CollectExpired, Untrack, DeleteExpired, Deleted, NotDeleted
      <4>3. cache' \in [Keys -> Entry]
        BY <1>1, <4>2, PreviewConstants
      <4>. QED  BY <1>1, <3>2, <4>1, <4>3, JanitorKeeps
    <3>3. CASE PrepareDirectory \/ EnsureMarker \/ ClearCache \/ ReplaceData \/ Crash
      <4>1. UNCHANGED raced
        BY <3>3 DEF PrepareDirectory, EnsureMarker, ClearCache, ReplaceData, Crash
      <4>. QED  BY <1>1, <3>3, <4>1, ServiceKeeps
    <3>4. CASE SourceChanges \/ Tick \/ \E k \in Keys : Damage(k) \/ Evict(k)
      <4>1. UNCHANGED <<caller, tracked, slots, sweep, raced>>
        BY <3>4 DEF SourceChanges, Tick, Damage, Evict
      <4>. QED  BY <1>1, <3>4, <4>1, OutsideKeeps
    <3>. QED  BY <1>3, <3>1, <3>2, <3>3, <3>4 DEF PreviewNext, CallerStep
  <2>2. PreviewTypeOK'
    <3>1. filling' \in [Keys -> Callers \union {NoCaller}]
      BY <1>3, FillersTyped
    <3>2. /\ source' \in Keys /\ now' \in 0..MaxTime /\ faults' \in 0..MaxFaults
          /\ up' \in {"down", "claiming", "clearing", "up", "off"} /\ marker' \in {"none", "foreign", "partial", "ours"}
      BY <1>3, SmallTyped
    <3>. QED  BY <2>1, <3>1, <3>2 DEF PreviewTypeOK, CallerRecord, Steps, Expiries, Entry
  <2>. QED  BY <2>1, <2>2 DEF PreviewRest
<1>. QED  BY <1>2, <1>3

\* An image preview is of the version its key names, conversions never exceed their
\* slots and give every one back, and an entry is forgotten by the janitor only when it
\* was filled between the deletion and the untracking of its key.
THEOREM PreviewHolds == ASSUME PreviewBounds PROVE PreviewSpec => []PreviewSafe
<1>1. PreviewInit => PreviewInv
  BY PreviewStart
<1>2. PreviewInv /\ [PreviewNext]_previewVars => PreviewInv'
  BY PreviewStep
<1>3. PreviewInv => PreviewSafe
  BY DEF PreviewInv, PreviewSafe
<1>. QED  BY <1>1, <1>2, <1>3, PTL DEF PreviewSpec

-----------------------------------------------------------------------------
(* The browser: the invariant                                              *)

Fields == {"state", "run", "client", "visible", "queue", "seen"}
Page == [run : Nat, status : Statuses, op : Nat, opened : Nat, frame : Nat]
Command == [viewer : Viewers \union {NoViewer},
            type : {"none", "open", "close", "input", "visibility", "looks", "sync"},
            op : Nat, visible : BOOLEAN]
Worker == [op : Nat, visible : BOOLEAN, misdirected : BOOLEAN]

BrowserTyped ==
    /\ runs \in Nat /\ page \in Page /\ command \in Command /\ worker \in Worker
    /\ DOMAIN viewers = Viewers /\ \A v \in Viewers : DOMAIN viewers[v] = Fields
    /\ pending \subseteq Requests
    /\ asked \in [Requests -> Viewers \union {NoViewer}] /\ answers \in [Requests -> Nat]

\* A command on its way names the operation of the page.  The worker is at that operation
\* except while it has not been written, or when a close has found no page: then the
\* page stays at "closing", where no input is let through.
WorkerFollows ==
    /\ command.type # "none" => page.run # 0
    /\ command.type \in {"open", "close", "sync", "input"} => command.op = page.op
    /\ command.type \in {"open", "close"} => worker.op < page.op
    /\ command.type = "close" => page.status = "closing"
    /\ command.type = "input" => worker.op = page.op
    /\ page.run # 0 /\ command.type \notin {"open", "close"} =>
          worker.op <= page.op /\ (worker.op = page.op \/ page.status = "closing")

\* A request is pending exactly as long as it is asked and not answered.
PendingExact ==
    \A r \in Requests :
        /\ answers[r] <= 1
        /\ r \in pending <=> asked[r] # NoViewer /\ answers[r] = 0
        /\ r \in pending => InMap(asked[r])

BrowserInv ==
    /\ BrowserTyped /\ InputHitsItsPage /\ WorkerFollows /\ PendingExact /\ PrimaryIsConnected

\* What an event does to a viewer that is in the map.
SameViewer(x, y) ==
    /\ DOMAIN y = DOMAIN x /\ y.run = x.run /\ y.client = x.client
    /\ x.state \in {"on", "done"} <=> y.state \in {"on", "done"}

LEMMA PutSame ==
  ASSUME NEW x, NEW item, DOMAIN x = Fields, x.state \in {"on", "done"}
  PROVE  SameViewer(x, Put(x, item))
<1>1. ASSUME NEW q  PROVE SameViewer(x, [x EXCEPT !.queue = q])
  BY DEF SameViewer, Fields
<1>2. SameViewer(x, Disconnected(x))
  BY DEF SameViewer, Fields, Disconnected
<1>3. SameViewer(x, x)
  BY DEF SameViewer
<1>. QED  BY <1>1, <1>2, <1>3 DEF Put

\* A step that does nothing but events to the viewers in the map.
ViewersSame ==
    DOMAIN viewers' = Viewers /\ \A v \in Viewers : SameViewer(viewers[v], viewers'[v])

LEMMA SameTyped ==
  ASSUME BrowserTyped, ViewersSame
  PROVE  DOMAIN viewers' = Viewers /\ \A v \in Viewers : DOMAIN viewers'[v] = Fields
BY DEF BrowserTyped, ViewersSame, SameViewer

LEMMA OneSame ==
  ASSUME BrowserTyped, NEW v \in Viewers, NEW y, SameViewer(viewers[v], y),
         viewers' = [viewers EXCEPT ![v] = y]
  PROVE  ViewersSame
BY DEF BrowserTyped, ViewersSame, SameViewer

LEMMA TwiceSame ==
  ASSUME NEW x, NEW item, NEW other, DOMAIN x = Fields, x.state \in {"on", "done"}
  PROVE  SameViewer(x, Put(Put(x, item), other))
<1>1. SameViewer(x, Put(x, item))
  BY PutSame
<1>2. PICK y : y = Put(x, item)
  OBVIOUS
<1>3. DOMAIN y = Fields /\ y.state \in {"on", "done"} /\ SameViewer(x, y)
  BY <1>1, <1>2 DEF SameViewer
<1>4. SameViewer(y, Put(y, other))
  BY <1>3, PutSame
<1>5. PICK z : z = Put(y, other)
  OBVIOUS
<1>6. SameViewer(x, z)
  BY <1>3, <1>4, <1>5 DEF SameViewer
<1>. QED  BY <1>2, <1>5, <1>6

LEMMA BroadcastSame ==
  ASSUME BrowserTyped, NEW p, NEW item,
         viewers' = Broadcast(p, item) \/ viewers' = BroadcastFrame(p)
  PROVE  ViewersSame
<1>. SUFFICES ASSUME NEW v \in Viewers
              PROVE  SameViewer(viewers[v], viewers'[v])
  BY DEF ViewersSame, Broadcast, BroadcastFrame
<1>1. DOMAIN viewers[v] = Fields
  BY DEF BrowserTyped
<1>2. InMap(v) => \A i : SameViewer(viewers[v], Put(viewers[v], i))
  BY <1>1, PutSame DEF InMap
<1>3. SameViewer(viewers[v], viewers[v])
  BY DEF SameViewer
<1>. QED  BY <1>2, <1>3 DEF Broadcast, BroadcastFrame

\* Under such a step the requests and the viewport keep their viewers.
LEMMA SameKeeps ==
  ASSUME BrowserInv, ViewersSame, page'.run = page.run,
         primary' = primary \/ \E v \in Viewers : Current(v) /\ primary' = viewers[v].client
  PROVE  /\ PrimaryIsConnected' /\ \A v \in Viewers : InMap(v)' = InMap(v)
         /\ \A v \in Viewers : Current(v)' = Current(v)
<1>1. \A v \in Viewers : InMap(v)' = InMap(v)
  BY DEF ViewersSame, SameViewer, InMap
<1>2. \A v \in Viewers : Current(v)' = Current(v) /\ viewers'[v].client = viewers[v].client
  BY <1>1 DEF ViewersSame, SameViewer, Current
<1>. QED  BY <1>1, <1>2 DEF BrowserInv, PrimaryIsConnected

LEMMA PendingKeeps ==
  ASSUME PendingExact, BrowserTyped, BrowserBounds, \A v \in Viewers : InMap(v) => InMap(v)',
         UNCHANGED <<pending, asked, answers>>
  PROVE  PendingExact'
<1>1. \A r \in pending : asked[r] \in Viewers
  BY DEF PendingExact, BrowserTyped
<1>3. \A r \in Requests : r \in pending => InMap(asked[r])'
  BY <1>1 DEF PendingExact, BrowserTyped
<1>4. \A r \in Requests : asked'[r] = asked[r]
  OBVIOUS
<1>. QED  BY <1>3, <1>4 DEF PendingExact, InMap

LEMMA RememberKeeps ==
  ASSUME PendingExact, BrowserTyped, BrowserBounds, \A v \in Viewers : InMap(v)' = InMap(v),
         NEW v \in Viewers, InMap(v), Remember(v), UNCHANGED answers
  PROVE  /\ PendingExact' /\ pending' \subseteq Requests
         /\ asked' \in [Requests -> Viewers \union {NoViewer}]
<1>1. CASE UNCHANGED <<pending, asked>>
  BY <1>1, PendingKeeps DEF BrowserTyped
<1>2. ASSUME NEW r \in Requests, asked[r] = NoViewer, answers[r] = 0,
             pending' = pending \union {r}, asked' = [asked EXCEPT ![r] = v]
      PROVE  /\ PendingExact' /\ pending' \subseteq Requests
             /\ asked' \in [Requests -> Viewers \union {NoViewer}]
  <2>1. asked \in [Requests -> Viewers \union {NoViewer}] /\ v # NoViewer
    BY DEF BrowserTyped, BrowserBounds
  <2>2. \A q \in Requests : asked'[q] = IF q = r THEN v ELSE asked[q]
    BY <1>2, <2>1
  <2>3. InMap(v)'
    OBVIOUS
  <2>4. \A q \in pending : asked[q] \in Viewers /\ InMap(asked[q]) /\ q \in Requests
    BY DEF PendingExact, BrowserTyped
  <2>5. \A q \in Requests : q \in pending' => viewers'[asked'[q]].state \in {"on", "done"}
    BY <1>2, <2>2, <2>3, <2>4 DEF InMap
  <2>6. PendingExact'
    BY <1>2, <2>1, <2>2, <2>5 DEF PendingExact, InMap
  <2>. QED  BY <1>2, <2>1, <2>6 DEF BrowserTyped
<1>. QED  BY <1>1, <1>2 DEF Remember

\* Two rounds of events.
MapSame(vs, ws) ==
    DOMAIN ws = Viewers /\ \A v \in Viewers : SameViewer(vs[v], ws[v])

LEMMA ToAllSame ==
  ASSUME NEW vs, NEW item, \A v \in Viewers : DOMAIN vs[v] = Fields
  PROVE  MapSame(vs, ToAll(vs, item)) /\ \A v \in Viewers : DOMAIN ToAll(vs, item)[v] = Fields
<1>1. ASSUME NEW v \in Viewers
      PROVE  SameViewer(vs[v], ToAll(vs, item)[v])
  <2>1. v \in In(vs, page.run) => vs[v].state \in {"on", "done"}
    BY DEF In
  <2>2. vs[v].state \in {"on", "done"} => SameViewer(vs[v], Put(vs[v], item))
    BY PutSame
  <2>3. SameViewer(vs[v], vs[v])
    BY DEF SameViewer
  <2>4. ToAll(vs, item)[v] = IF v \in In(vs, page.run) THEN Put(vs[v], item) ELSE vs[v]
    BY DEF ToAll
  <2>. QED  BY <2>1, <2>2, <2>3, <2>4
<1>2. DOMAIN ToAll(vs, item) = Viewers
  BY DEF ToAll
<1>. QED  BY <1>1, <1>2 DEF MapSame, SameViewer

LEMMA ThenSame ==
  ASSUME NEW us, NEW vs, NEW ws, MapSame(us, vs), MapSame(vs, ws)
  PROVE  MapSame(us, ws)
BY DEF MapSame, SameViewer

\* An event to all, perhaps, and then to one of those in the map.
LEMMA ToldSame ==
  ASSUME BrowserTyped, NEW v \in Viewers, InMap(v), NEW told, told = viewers \/ told = ToAll(viewers, Other)
  PROVE  /\ MapSame(viewers, told) /\ \A w \in Viewers : DOMAIN told[w] = Fields
         /\ \A item : MapSame(viewers, [told EXCEPT ![v] = Put(@, item)])
<1>1. MapSame(viewers, viewers) /\ \A w \in Viewers : DOMAIN viewers[w] = Fields
  BY DEF BrowserTyped, MapSame, SameViewer
<1>2. MapSame(viewers, told) /\ \A w \in Viewers : DOMAIN told[w] = Fields
  BY <1>1, ToAllSame
<1>3. told[v].state \in {"on", "done"} /\ DOMAIN told[v] = Fields /\ DOMAIN told = Viewers
  BY <1>2 DEF MapSame, SameViewer, InMap
<1>4. ASSUME NEW item  PROVE MapSame(viewers, [told EXCEPT ![v] = Put(@, item)])
  <2>1. SameViewer(told[v], Put(told[v], item))
    BY <1>3, PutSame
  <2>2. PICK y : y = Put(told[v], item)
    OBVIOUS
  <2>3. MapSame(told, [told EXCEPT ![v] = y])
    BY <1>3, <2>1, <2>2 DEF MapSame, SameViewer
  <2>4. MapSame(viewers, [told EXCEPT ![v] = y])
    BY <1>2, <2>3, ThenSame
  <2>. QED  BY <2>2, <2>4
<1>. QED  BY <1>2, <1>4

-----------------------------------------------------------------------------
(* The browser: the steps                                                  *)

BrowserRest == InputHitsItsPage /\ WorkerFollows /\ PendingExact /\ PrimaryIsConnected

\* A current viewer is in the map, and only while there is a worker.
LEMMA CurrentInMap == ASSUME NEW v, Current(v) PROVE InMap(v) /\ page.run # 0
BY DEF Current

LEMMA TypedFacts ==
  ASSUME BrowserTyped
  PROVE  /\ page \in Page /\ command \in Command /\ worker \in Worker
         /\ NoCommand.type = "none" /\ [NoCommand EXCEPT !.type = "none"] \in Command
         /\ \A v \in Viewers : DOMAIN viewers[v] = Fields
<1>1. [NoCommand EXCEPT !.type = "none"] \in Command
  BY DEF NoCommand, Command
<1>. QED  BY <1>1 DEF BrowserTyped, NoCommand

\* The viewer that asks is told, and everybody the state: the page, the requests and
\* the worker stay.
LEMMA RefusalKeeps ==
  ASSUME BrowserTyped, NEW v \in Viewers, InMap(v), Refuse(v) \/ RefuseClosing(v)
  PROVE  ViewersSame
<1>1. DOMAIN viewers[v] = Fields /\ viewers[v].state \in {"on", "done"}
  BY DEF BrowserTyped, InMap
<1>2. PICK y : viewers' = [viewers EXCEPT ![v] = y] /\ SameViewer(viewers[v], y)
  BY <1>1, PutSame, TwiceSame DEF Refuse, RefuseClosing
<1>. QED  BY <1>2, OneSame

LEMMA RequestKeeps ==
  ASSUME BrowserBounds, BrowserInv, NEW v \in Viewers, NEW names \in BOOLEAN,
         Navigate(v, names) \/ ClosePage(v, names) \/ PageCommand(v, names)
  PROVE  BrowserTyped' /\ BrowserRest'
<1>. USE DEF BrowserInv
<1>1. /\ Current(v) /\ InMap(v) /\ page.run # 0 /\ command = NoCommand
      /\ UNCHANGED <<runs, primary, worker, answers>>
  BY CurrentInMap DEF Navigate, ClosePage, PageCommand
<1>2. /\ page \in Page /\ worker \in Worker /\ DOMAIN NoCommand = {"viewer", "type", "op", "visible"}
      /\ command.type = "none" /\ (worker.op = page.op \/ page.status = "closing")
  BY <1>1, TypedFacts DEF WorkerFollows, NoCommand
<1>3. CASE Refuse(v) \/ RefuseClosing(v)
  <2>1. ViewersSame
    BY <1>1, <1>3, RefusalKeeps
  <2>2. UNCHANGED <<page, pending, command, asked>>
    BY <1>3 DEF Refuse, RefuseClosing
  <2>3. PrimaryIsConnected' /\ PendingExact'
    BY <1>1, <2>1, <2>2, SameKeeps, PendingKeeps
  <2>4. InputHitsItsPage' /\ WorkerFollows'
    BY <1>1, <2>2 DEF InputHitsItsPage, WorkerFollows
  <2>5. BrowserTyped'
    BY <1>1, <2>1, <2>2, SameTyped DEF BrowserTyped
  <2>. QED  BY <2>3, <2>4, <2>5 DEF BrowserRest
<1>4. CASE ~(Refuse(v) \/ RefuseClosing(v))
  <2>1. Remember(v) /\ page.status # "closing" /\ worker.op = page.op
    <3>1. Remember(v) /\ (CanOpen(v, names) \/ CanUse(v, names))
      BY <1>4 DEF Navigate, ClosePage, PageCommand
    <3>. QED  BY <1>2, <3>1 DEF CanOpen, CanUse, Closing
  <2>2. /\ page' \in Page /\ page'.run = page.run
        /\ command' \in Command /\ command'.op = page'.op
        /\ \/ command'.type \in {"open", "close"} /\ page'.op = page.op + 1
           \/ command'.type = "input" /\ page'.op = page.op
        /\ command'.type = "close" => page'.status = "closing"
    <3>1. CASE PageCommand(v, names)
      <4>1. page' = page /\ command' = [NoCommand EXCEPT !.viewer = v, !.type = "input", !.op = page.op]
        BY <1>4, <3>1 DEF PageCommand
      <4>. QED  BY <1>2, <4>1 DEF NoCommand, Command, Page
    <3>2. CASE Navigate(v, names) \/ ClosePage(v, names)
      <4>0. page.op \in Nat /\ page.op + 1 \in Nat /\ page.opened \in Nat
        BY <1>2 DEF Page
      <4>1. PICK status \in {"open", "closing"}, type \in {"open", "close"}, opened \in Nat :
               /\ page' = [page EXCEPT !.op = page.op + 1, !.status = status, !.frame = 0, !.opened = opened]
               /\ command' = [NoCommand EXCEPT !.viewer = v, !.type = type, !.op = page'.op]
               /\ type = "close" => status = "closing"
        <5>1. CASE Navigate(v, names)
          <6>1. PICK opened \in {page.opened, page.op + 1} :
                   /\ page' = [page EXCEPT !.op = page.op + 1, !.status = "open", !.frame = 0, !.opened = opened]
                   /\ command' = [NoCommand EXCEPT !.viewer = v, !.type = "open", !.op = page'.op]
            BY <1>4, <5>1 DEF Navigate
          <6>. QED  BY <4>0, <6>1
        <5>2. CASE ClosePage(v, names)
          <6>1. /\ page' = [page EXCEPT !.op = page.op + 1, !.status = "closing", !.frame = 0]
                /\ command' = [NoCommand EXCEPT !.viewer = v, !.type = "close", !.op = page'.op]
            BY <1>4, <5>2 DEF ClosePage
          <6>2. page' = [page EXCEPT !.op = page.op + 1, !.status = "closing", !.frame = 0, !.opened = page.opened]
            BY <1>2, <6>1 DEF Page
          <6>. QED  BY <4>0, <6>1, <6>2
        <5>. QED  BY <3>2, <5>1, <5>2
      <4>2. page' \in Page /\ page'.run = page.run /\ page'.op = page.op + 1 /\ page'.status = status
        BY <1>2, <4>0, <4>1 DEF Page, Statuses
      <4>3. page'.op \in Nat
        BY <4>2 DEF Page
      <4>. QED  BY <1>2, <4>1, <4>2, <4>3 DEF NoCommand, Command
    <3>. QED  BY <3>1, <3>2
  <2>3. ViewersSame
    <3>1. viewers' = viewers \/ viewers' = Broadcast(page', StateEvent(page'))
      BY <1>4 DEF Navigate, ClosePage, PageCommand
    <3>2. CASE viewers' = viewers
      BY <3>2 DEF ViewersSame, SameViewer, BrowserTyped
    <3>3. CASE viewers' = Broadcast(page', StateEvent(page'))
      <4>1. PICK p, item : p = page' /\ item = StateEvent(page')
        OBVIOUS
      <4>. QED  BY <3>3, <4>1, BroadcastSame
    <3>. QED  BY <3>1, <3>2, <3>3
  <2>4. PrimaryIsConnected' /\ \A w \in Viewers : InMap(w)' = InMap(w)
    BY <1>1, <2>2, <2>3, SameKeeps
  <2>5. PendingExact' /\ pending' \subseteq Requests /\ asked' \in [Requests -> Viewers \union {NoViewer}]
    BY <1>1, <2>1, <2>4, RememberKeeps
  <2>6. InputHitsItsPage' /\ WorkerFollows'
    <3>1. page.op \in Nat /\ worker'.op = page.op /\ page'.run # 0
      BY <1>1, <1>2, <2>1, <2>2 DEF Page
    <3>2. InputHitsItsPage'
      BY <1>1 DEF InputHitsItsPage
    <3>3. CASE command'.type \in {"open", "close"} /\ page'.op = page.op + 1
      <4>1. worker'.op < page'.op
        BY <3>1, <3>3
      <4>. QED  BY <2>2, <3>1, <3>2, <3>3, <4>1 DEF WorkerFollows
    <3>4. CASE command'.type = "input" /\ page'.op = page.op
      <4>1. worker'.op <= page'.op /\ worker'.op = page'.op
        BY <3>1, <3>4
      <4>. QED  BY <2>2, <3>1, <3>2, <3>4, <4>1 DEF WorkerFollows
    <3>. QED  BY <2>2, <3>2, <3>3, <3>4
  <2>7. BrowserTyped'
    BY <1>1, <2>2, <2>3, <2>5, SameTyped DEF BrowserTyped
  <2>. QED  BY <2>4, <2>5, <2>6, <2>7 DEF BrowserRest
<1>. QED  BY <1>3, <1>4

\* The commands that ask for no result, and what the worker tells everybody.
LEMMA TellKeeps ==
  ASSUME BrowserBounds, BrowserInv, NEW v \in Viewers,
         \/ Sync(v) \/ ResizeRefused(v) \/ Configure(v) \/ Deliver(v)
         \/ \E b \in BOOLEAN : SetVisible(v, b) \/ Resize(v, b)
  PROVE  BrowserTyped' /\ BrowserRest'
<1>. USE DEF BrowserInv
<1>1. UNCHANGED <<runs, page, pending, worker, asked, answers>>
  BY DEF Sync, ResizeRefused, Configure, Deliver, SetVisible, Resize
<1>2. InMap(v) /\ (~Deliver(v) => Current(v) /\ page.run # 0)
  BY CurrentInMap DEF Sync, ResizeRefused, Configure, Deliver, SetVisible, Resize, InMap
<1>3. DOMAIN viewers[v] = Fields /\ viewers[v].state \in {"on", "done"} /\ page \in Page
      /\ DOMAIN viewers = Viewers
  BY <1>2 DEF BrowserTyped, InMap
<1>4. ViewersSame
  <2>1. CASE ResizeRefused(v)
    <3>1. PICK y : viewers' = [viewers EXCEPT ![v] = y] /\ SameViewer(viewers[v], y)
      BY <1>3, <2>1, PutSame DEF ResizeRefused
    <3>. QED  BY <3>1, OneSame
  <2>2. CASE Sync(v)
    <3>1. PICK y : viewers' = [viewers EXCEPT ![v] = y] /\ SameViewer(viewers[v], y)
      BY <1>3, <2>2, PutSame, TwiceSame DEF Sync
    <3>. QED  BY <3>1, OneSame
  <2>3. CASE Deliver(v)
    <3>1. PICK q, seen : viewers' = [viewers EXCEPT ![v] = [@ EXCEPT !.queue = q, !.seen = seen]]
      BY <2>3 DEF Deliver
    <3>2. SameViewer(viewers[v], [viewers[v] EXCEPT !.queue = q, !.seen = seen])
      BY <1>3 DEF SameViewer, Fields
    <3>. QED  BY <3>1, <3>2, OneSame
  <2>4. ASSUME NEW b \in BOOLEAN, SetVisible(v, b)  PROVE ViewersSame
    <3>1. viewers' = [viewers EXCEPT ![v] = [@ EXCEPT !.visible = b]]
      BY <2>4 DEF SetVisible
    <3>2. SameViewer(viewers[v], [viewers[v] EXCEPT !.visible = b])
      BY <1>3 DEF SameViewer, Fields
    <3>. QED  BY <3>1, <3>2, OneSame
  <2>5. ASSUME NEW b \in BOOLEAN, Resize(v, b)  PROVE ViewersSame
    <3>1. PICK told : /\ told = viewers \/ told = ToAll(viewers, Other)
                      /\ viewers' = [told EXCEPT ![v] = Put(@, Other)]
      BY <2>5 DEF Resize
    <3>2. MapSame(viewers, [told EXCEPT ![v] = Put(@, Other)])
      BY <1>2, <3>1, ToldSame
    <3>. QED  BY <3>1, <3>2 DEF MapSame, ViewersSame
  <2>6. CASE Configure(v)
    <3>1. PICK told : /\ told = viewers \/ told = ToAll(viewers, Other)
                      /\ viewers' = ToAll(told, StateEvent(page))
      BY <2>6 DEF Configure, ToAll
    <3>2. MapSame(viewers, told) /\ \A w \in Viewers : DOMAIN told[w] = Fields
      BY <1>2, <3>1, ToldSame
    <3>3. MapSame(told, ToAll(told, StateEvent(page)))
      BY <3>2, ToAllSame
    <3>4. PICK ws : ws = ToAll(told, StateEvent(page))
      OBVIOUS
    <3>5. MapSame(viewers, ws)
      BY <3>2, <3>3, <3>4, ThenSame
    <3>. QED  BY <3>1, <3>4, <3>5 DEF MapSame, ViewersSame
  <2>. QED  BY <2>1, <2>2, <2>3, <2>4, <2>5, <2>6
<1>5. primary' = primary \/ (Current(v) /\ primary' = viewers[v].client)
  BY <1>2 DEF Sync, ResizeRefused, Configure, Deliver, SetVisible, Resize
<1>6. PrimaryIsConnected' /\ PendingExact'
  BY <1>1, <1>4, <1>5, SameKeeps, PendingKeeps
<1>7. /\ command' \in Command
      /\ command'.type \in {"sync", "visibility", "looks", "none"} \/ UNCHANGED command
      /\ command'.type # "none" => page.run # 0
      /\ command'.type = "sync" /\ ~UNCHANGED command => command'.op = page.op
      /\ command.type \in {"none", "looks"} \/ UNCHANGED command
  <2>1. CASE ResizeRefused(v) \/ Configure(v) \/ Deliver(v) \/ \E b \in BOOLEAN : Resize(v, b)
    <3>1. UNCHANGED command
      BY <2>1 DEF ResizeRefused, Configure, Deliver, Resize
    <3>. QED  BY <3>1, TypedFacts DEF WorkerFollows
  <2>2. CASE Sync(v)
    <3>1. \/ command' = [NoCommand EXCEPT !.viewer = v, !.type = "sync", !.op = page.op]
          \/ command' = NoCommand
      BY <2>2 DEF Sync
    <3>2. command.type \in {"none", "looks"} /\ page.op \in Nat /\ page.run # 0
      <4>1. Current(v) /\ (command = NoCommand \/ command.type = "looks")
        BY <2>2 DEF Sync
      <4>2. page.op \in Nat
        BY <1>3 DEF Page
      <4>. QED  BY <4>1, <4>2, CurrentInMap, TypedFacts
    <3>3. /\ [NoCommand EXCEPT !.viewer = v, !.type = "sync", !.op = page.op] \in Command
          /\ [NoCommand EXCEPT !.viewer = v, !.type = "sync", !.op = page.op].type = "sync"
          /\ [NoCommand EXCEPT !.viewer = v, !.type = "sync", !.op = page.op].op = page.op
      BY <3>2 DEF NoCommand, Command
    <3>4. NoCommand \in Command /\ NoCommand.type = "none"
      BY DEF NoCommand, Command
    <3>. QED  BY <3>1, <3>2, <3>3, <3>4
  <2>3. ASSUME NEW b \in BOOLEAN, SetVisible(v, b)
        PROVE  /\ command' \in Command /\ command'.type \in {"visibility", "looks", "none"}
               /\ command.type = "none" /\ page.run # 0
    <3>1. \/ command' = [NoCommand EXCEPT !.viewer = v, !.type = "visibility", !.visible = b]
          \/ command' = [NoCommand EXCEPT !.viewer = v, !.type = "looks"]
          \/ command' = NoCommand
      BY <2>3 DEF SetVisible
    <3>2. command.type = "none" /\ page.run # 0
      <4>1. Current(v) /\ command = NoCommand
        BY <2>3 DEF SetVisible
      <4>. QED  BY <4>1, CurrentInMap, TypedFacts
    <3>3. /\ [NoCommand EXCEPT !.viewer = v, !.type = "looks"] \in Command
          /\ [NoCommand EXCEPT !.viewer = v, !.type = "looks"].type = "looks"
      BY DEF NoCommand, Command
    <3>5. NoCommand \in Command /\ NoCommand.type = "none"
      BY DEF NoCommand, Command
    <3>4. /\ [NoCommand EXCEPT !.viewer = v, !.type = "visibility", !.visible = b] \in Command
          /\ [NoCommand EXCEPT !.viewer = v, !.type = "visibility", !.visible = b].type = "visibility"
      BY DEF NoCommand, Command
    <3>. QED  BY <3>1, <3>2, <3>3, <3>4, <3>5
  <2>. QED  BY <2>1, <2>2, <2>3
<1>8. InputHitsItsPage' /\ WorkerFollows'
  BY <1>1, <1>7 DEF InputHitsItsPage, WorkerFollows
<1>9. BrowserTyped'
  BY <1>1, <1>4, <1>7, SameTyped DEF BrowserTyped
<1>. QED  BY <1>6, <1>8, <1>9 DEF BrowserRest

\* What comes from the worker, and what is written to it.
LEMMA EventsKeep ==
  ASSUME BrowserBounds, BrowserInv,
         \/ \E op \in 1..MaxOperations : Frame(op)
         \/ \E op \in 0..MaxOperations, status \in Statuses : PageEvent(op, status)
         \/ Write
  PROVE  BrowserTyped' /\ BrowserRest'
<1>. USE DEF BrowserInv
<1>1. UNCHANGED <<runs, primary, pending, asked, answers>>
  BY DEF Frame, PageEvent, Write
<1>2. page \in Page /\ worker \in Worker /\ command \in Command /\ NoCommand.type = "none"
      /\ page.run \in Nat /\ page.op \in Nat /\ page.frame \in Nat /\ page.status \in Statuses
  BY TypedFacts DEF Page
<1>3. ViewersSame /\ page' \in Page /\ page'.run = page.run /\ page'.op = page.op
  <2>1. ASSUME NEW op \in 1..MaxOperations, Frame(op)
        PROVE  ViewersSame /\ page' \in Page /\ page'.run = page.run /\ page'.op = page.op
    <3>1. viewers' = BroadcastFrame(page') /\ op \in Nat /\ page' = [page EXCEPT !.frame = op]
      BY <2>1 DEF Frame, BrowserBounds
    <3>2. page' \in Page /\ page'.run = page.run /\ page'.op = page.op
      BY <1>2, <3>1 DEF Page
    <3>3. PICK p : p = page'
      OBVIOUS
    <3>. QED  BY <3>1, <3>2, <3>3, BroadcastSame
  <2>2. ASSUME NEW op \in 0..MaxOperations, NEW status \in Statuses, PageEvent(op, status)
        PROVE  ViewersSame /\ page' \in Page /\ page'.run = page.run /\ page'.op = page.op
    <3>1. viewers' = Broadcast(page', StateEvent(page'))
      BY <2>2 DEF PageEvent
    <3>2. PICK frame \in {0, page.frame} : page' = [page EXCEPT !.status = status, !.frame = frame]
      BY <2>2 DEF PageEvent
    <3>3. page' \in Page /\ page'.run = page.run /\ page'.op = page.op
      <4>1. frame \in Nat /\ status \in Statuses
        BY <1>2 DEF Statuses
      <4>. QED  BY <1>2, <3>2, <4>1 DEF Page
    <3>4. PICK p, item : p = page' /\ item = StateEvent(page')
      OBVIOUS
    <3>. QED  BY <3>1, <3>3, <3>4, BroadcastSame
  <2>3. ASSUME Write  PROVE ViewersSame /\ page' \in Page /\ page'.run = page.run /\ page'.op = page.op
    BY <1>2, <2>3 DEF Write, ViewersSame, SameViewer, BrowserTyped
  <2>. QED  BY <2>1, <2>2, <2>3
<1>4. PrimaryIsConnected' /\ PendingExact'
  BY <1>1, <1>3, SameKeeps, PendingKeeps
<1>5. CASE ~Write
  <2>1. UNCHANGED <<command, worker>> /\ page.run # 0 /\ page.op <= worker.op
    <3>1. UNCHANGED <<command, worker>> /\ page.run # 0
      BY <1>5 DEF Frame, PageEvent
    <3>2. worker.op \in Nat
      BY <1>2 DEF Worker
    <3>3. ASSUME NEW op \in 1..MaxOperations, Frame(op)  PROVE page.op <= worker.op
      BY <3>2, <3>3 DEF Frame, Accepted
    <3>4. ASSUME NEW op \in 0..MaxOperations, NEW status \in Statuses, PageEvent(op, status)
          PROVE  page.op <= worker.op
      <4>1. op \in 0..worker.op /\ op = page.op
        BY <3>4 DEF PageEvent, Accepted
      <4>. QED  BY <3>2, <4>1
    <3>. QED  BY <1>5, <3>1, <3>3, <3>4
  <2>2. InputHitsItsPage' /\ WorkerFollows'
    <3>1. worker.op \in Nat
      BY <1>2 DEF Worker
    <3>2. worker.op = page.op /\ command.type \notin {"open", "close"}
      BY <1>2, <2>1, <3>1 DEF WorkerFollows
    <3>. QED  BY <1>3, <2>1, <3>1, <3>2 DEF InputHitsItsPage, WorkerFollows
  <2>3. BrowserTyped'
    BY <1>1, <1>2, <1>3, <2>1, SameTyped DEF BrowserTyped
  <2>. QED  BY <1>4, <2>2, <2>3 DEF BrowserRest
<1>6. CASE Write
  <2>1. /\ command.type \in {"open", "close", "sync", "visibility", "input"}
        /\ \/ worker' = Received(worker, command)
           \/ command.type = "close" /\ worker' = worker
        /\ page' = page
        /\ \/ command' = NoCommand
           \/ /\ command' = [command EXCEPT !.type = "looks", !.visible = FALSE]
              /\ command.type = "visibility"
    BY <1>6 DEF Write, HasNoPage
  <2>2. page.run # 0 /\ command.op \in Nat /\ command.visible \in BOOLEAN
        /\ worker.op \in Nat /\ worker.misdirected = FALSE
    BY <1>2, <2>1 DEF WorkerFollows, Command, Worker, InputHitsItsPage
  <2>3. command' \in Command /\ command'.type \in {"none", "looks"}
    <3>1. NoCommand \in Command
      BY DEF NoCommand, Command
    <3>2. [command EXCEPT !.type = "looks", !.visible = FALSE] \in Command
          /\ [command EXCEPT !.type = "looks", !.visible = FALSE].type = "looks"
      BY <1>2 DEF Command
    <3>. QED  BY <1>2, <2>1, <3>1, <3>2
  <2>4. /\ worker' \in Worker /\ worker'.misdirected = FALSE /\ worker'.op <= page.op
        /\ worker'.op = page.op \/ page.status = "closing"
    <3>0. page.op \in Nat /\ page.op <= page.op
      BY <1>2
    <3>1. CASE command.type \in {"open", "close", "sync"} /\ worker' = Received(worker, command)
      <4>1. worker' = [worker EXCEPT !.op = command.op] /\ command.op = page.op
        BY <2>1, <3>1 DEF Received, WorkerFollows
      <4>. QED  BY <1>2, <2>2, <3>0, <4>1 DEF Worker
    <3>2. CASE command.type = "visibility"
      <4>1. /\ worker' = [worker EXCEPT !.visible = command.visible]
            /\ worker.op <= page.op /\ (worker.op = page.op \/ page.status = "closing")
        BY <2>1, <2>2, <3>2 DEF Received, WorkerFollows
      <4>. QED  BY <1>2, <2>2, <4>1 DEF Worker
    <3>3. CASE command.type = "input"
      <4>1. worker.op = page.op /\ command.op = page.op
        BY <2>2, <3>3 DEF WorkerFollows
      <4>2. worker' = [worker EXCEPT !.misdirected = FALSE]
        BY <2>1, <2>2, <3>3, <4>1 DEF Received
      <4>. QED  BY <1>2, <2>2, <3>0, <4>1, <4>2 DEF Worker
    <3>4. CASE command.type = "close" /\ worker' = worker
      <4>1. worker.op < page.op /\ page.status = "closing"
        BY <3>4 DEF WorkerFollows
      <4>. QED  BY <1>2, <2>2, <3>0, <3>4, <4>1
    <3>. QED  BY <2>1, <3>1, <3>2, <3>3, <3>4
  <2>5. InputHitsItsPage' /\ WorkerFollows'
    BY <2>1, <2>2, <2>3, <2>4 DEF InputHitsItsPage, WorkerFollows
  <2>6. BrowserTyped'
    BY <1>1, <1>3, <2>3, <2>4, SameTyped DEF BrowserTyped
  <2>. QED  BY <1>4, <2>5, <2>6 DEF BrowserRest
<1>. QED  BY <1>5, <1>6

\* A result is the only one of its request.
LEMMA ResultKeeps ==
  ASSUME BrowserBounds, BrowserInv, NEW r \in Requests, Result(r)
  PROVE  BrowserTyped' /\ BrowserRest'
<1>. USE DEF BrowserInv
<1>1. /\ UNCHANGED <<runs, page, primary, command, worker, asked>>
      /\ r \in pending /\ pending' = pending \ {r} /\ answers' = [answers EXCEPT ![r] = @ + 1]
  BY DEF Result
<1>2. asked[r] \in Viewers /\ answers[r] = 0 /\ answers \in [Requests -> Nat]
  BY <1>1 DEF PendingExact, BrowserTyped
<1>3. ViewersSame
  <2>1. PICK v : v = asked[r]
    OBVIOUS
  <2>2. CASE viewers' = viewers
    BY <2>2 DEF ViewersSame, SameViewer, BrowserTyped
  <2>3. CASE viewers' # viewers
    <3>1. v \in Viewers /\ Current(v) /\ InMap(v)
      BY <1>2, <2>1, <2>3, CurrentInMap DEF Result
    <3>2. DOMAIN viewers[v] = Fields /\ viewers[v].state \in {"on", "done"}
      BY <3>1 DEF BrowserTyped, InMap
    <3>3. PICK y : viewers' = [viewers EXCEPT ![v] = y] /\ SameViewer(viewers[v], y)
      BY <2>1, <2>3, <3>2, PutSame, TwiceSame DEF Result
    <3>. QED  BY <3>1, <3>3, OneSame
  <2>. QED  BY <2>2, <2>3
<1>4. PrimaryIsConnected' /\ \A v \in Viewers : InMap(v)' = InMap(v)
  BY <1>1, <1>3, SameKeeps
<1>5. answers' \in [Requests -> Nat] /\ \A q \in Requests : answers'[q] = IF q = r THEN 1 ELSE answers[q]
  BY <1>1, <1>2
<1>6. \A q \in pending : asked[q] \in Viewers /\ InMap(asked[q]) /\ q \in Requests
  BY <1>2 DEF PendingExact, BrowserTyped, BrowserBounds
<1>7. \A q \in pending' : viewers'[asked'[q]].state \in {"on", "done"}
  BY <1>1, <1>4, <1>6 DEF InMap
<1>8. PendingExact'
  BY <1>1, <1>5, <1>7 DEF PendingExact, InMap
<1>9. InputHitsItsPage' /\ WorkerFollows'
  BY <1>1 DEF InputHitsItsPage, WorkerFollows
<1>10. BrowserTyped'
  BY <1>1, <1>3, <1>5, SameTyped DEF BrowserTyped
<1>. QED  BY <1>4, <1>8, <1>9, <1>10 DEF BrowserRest

\* A viewer comes, and goes.
LEMMA AcceptKeeps ==
  ASSUME BrowserBounds, BrowserInv, NEW v \in Viewers, NEW client \in Clients, Accept(v, client)
  PROVE  BrowserTyped' /\ BrowserRest'
<1>. USE DEF BrowserInv
<1>1. UNCHANGED <<pending, command, asked, answers>> /\ viewers[v].state = "off" /\ ~InMap(v)
  BY DEF Accept, InMap
<1>2. PICK y : viewers' = [viewers EXCEPT ![v] = y] /\ DOMAIN y = Fields
  <2>1. PICK run : viewers' = [viewers EXCEPT ![v] = [Off EXCEPT !.state = "accepted", !.run = run, !.client = client]]
    BY DEF Accept
  <2>2. DOMAIN [Off EXCEPT !.state = "accepted", !.run = run, !.client = client] = Fields
    BY DEF Off, Fields
  <2>. QED  BY <2>1, <2>2
<1>3. DOMAIN viewers' = Viewers /\ \A w \in Viewers : w # v => viewers'[w] = viewers[w]
  BY <1>2 DEF BrowserTyped
<1>4. \A w \in Viewers : DOMAIN viewers'[w] = Fields
  BY <1>2, <1>3 DEF BrowserTyped
<1>5. \A w \in Viewers : InMap(w) => InMap(w)' /\ viewers'[w] = viewers[w]
  BY <1>1, <1>3 DEF InMap
<1>6. PendingExact'
  BY <1>1, <1>5, PendingKeeps
<1>7. CASE page.run = 0
  <2>1. runs' = runs + 1 /\ page' = [NoPage EXCEPT !.run = runs + 1] /\ primary' = Unknown /\ worker' = NoWorker
    BY <1>7 DEF Accept
  <2>2. runs \in Nat /\ runs + 1 \in Nat \ {0}
    BY DEF BrowserTyped
  <2>3. page' \in Page /\ page'.run # 0 /\ page'.op = 0
    BY <2>1, <2>2 DEF NoPage, Page, Statuses
  <2>4. worker' \in Worker /\ worker'.op = 0 /\ worker'.misdirected = FALSE
    BY <2>1 DEF NoWorker, Worker
  <2>5. command.type = "none"
    BY <1>7 DEF WorkerFollows
  <2>6. InputHitsItsPage' /\ WorkerFollows'
    <3>1. 0 <= 0
      OBVIOUS
    <3>. QED  BY <1>1, <2>3, <2>4, <2>5, <3>1 DEF InputHitsItsPage, WorkerFollows
  <2>7. PrimaryIsConnected'
    BY <2>1 DEF PrimaryIsConnected, BrowserBounds
  <2>8. BrowserTyped'
    BY <1>1, <1>3, <1>4, <2>1, <2>2, <2>3, <2>4 DEF BrowserTyped
  <2>. QED  BY <1>6, <2>6, <2>7, <2>8 DEF BrowserRest
<1>8. CASE page.run # 0
  <2>1. UNCHANGED <<runs, page, primary, worker>>
    BY <1>8 DEF Accept
  <2>2. InputHitsItsPage' /\ WorkerFollows'
    BY <1>1, <2>1 DEF InputHitsItsPage, WorkerFollows
  <2>3. PrimaryIsConnected'
    BY <1>5, <2>1 DEF PrimaryIsConnected, Current
  <2>4. BrowserTyped'
    BY <1>1, <1>3, <1>4, <2>1 DEF BrowserTyped
  <2>. QED  BY <1>6, <2>2, <2>3, <2>4 DEF BrowserRest
<1>. QED  BY <1>7, <1>8

LEMMA AddKeeps ==
  ASSUME BrowserBounds, BrowserInv, NEW v \in Viewers, AddViewer(v)
  PROVE  BrowserTyped' /\ BrowserRest'
<1>. USE DEF BrowserInv
<1>1. /\ UNCHANGED <<runs, page, primary, pending, command, worker, asked, answers>>
      /\ viewers[v].state = "accepted" /\ ~InMap(v) /\ DOMAIN viewers[v] = Fields
  BY DEF AddViewer, InMap, BrowserTyped
<1>2. PICK x : x = [viewers[v] EXCEPT !.state = "on"]
  OBVIOUS
<1>3. DOMAIN x = Fields /\ x.state \in {"on", "done"}
  BY <1>1, <1>2 DEF Fields
<1>4. /\ SameViewer(x, Put(x, StateEvent(page)))
      /\ SameViewer(x, Put(Put(x, StateEvent(page)), FrameEvent(page)))
  BY <1>3, PutSame, TwiceSame
<1>5. /\ DOMAIN Put(x, StateEvent(page)) = Fields
      /\ DOMAIN Put(Put(x, StateEvent(page)), FrameEvent(page)) = Fields
      /\ DOMAIN Off = Fields
  BY <1>3, <1>4 DEF SameViewer, Off, Fields
<1>6. PICK y : viewers' = [viewers EXCEPT ![v] = y] /\ DOMAIN y = Fields
  BY <1>2, <1>5 DEF AddViewer
<1>7. DOMAIN viewers' = Viewers /\ \A w \in Viewers : w # v => viewers'[w] = viewers[w]
  BY <1>6 DEF BrowserTyped
<1>8. \A w \in Viewers : DOMAIN viewers'[w] = Fields
  BY <1>6, <1>7 DEF BrowserTyped
<1>9. \A w \in Viewers : InMap(w) => InMap(w)' /\ viewers'[w] = viewers[w]
  BY <1>1, <1>7 DEF InMap
<1>10. PendingExact'
  BY <1>1, <1>9, PendingKeeps
<1>11. InputHitsItsPage' /\ WorkerFollows'
  BY <1>1 DEF InputHitsItsPage, WorkerFollows
<1>12. PrimaryIsConnected'
  BY <1>1, <1>9 DEF PrimaryIsConnected, Current
<1>13. BrowserTyped'
  BY <1>1, <1>7, <1>8 DEF BrowserTyped
<1>. QED  BY <1>10, <1>11, <1>12, <1>13 DEF BrowserRest

\* removeViewer: its requests are forgotten, and the viewport is given up unless its
\* client has another viewer.
LEMMA RemoveKeeps ==
  ASSUME BrowserBounds, BrowserInv, NEW v \in Viewers, RemoveViewer(v)
  PROVE  BrowserTyped' /\ BrowserRest'
<1>. USE DEF BrowserInv
<1>1. PICK vs : vs = [viewers EXCEPT ![v] = Off]
  OBVIOUS
<1>2. /\ UNCHANGED <<runs, page, worker, answers>> /\ Forget(v) /\ Tell(v, vs)
      /\ Current(v) => command = NoCommand
      /\ \/ Current(v) /\ GivesUp(v, vs) /\ primary' = NoClient /\ viewers' = ToAll(vs, Other)
         \/ ~(Current(v) /\ GivesUp(v, vs)) /\ viewers' = vs /\ UNCHANGED primary
  BY <1>1 DEF RemoveViewer
<1>3. /\ DOMAIN vs = Viewers /\ \A w \in Viewers : vs[w] = IF w = v THEN Off ELSE viewers[w]
      /\ \A w \in Viewers : DOMAIN vs[w] = Fields
  BY <1>1 DEF BrowserTyped, Off, Fields
<1>4. MapSame(vs, viewers')
  <2>1. CASE viewers' = vs
    BY <1>3, <2>1 DEF MapSame, SameViewer
  <2>2. CASE viewers' = ToAll(vs, Other)
    BY <1>3, <2>2, ToAllSame
  <2>. QED  BY <1>2, <2>1, <2>2
<1>5. DOMAIN viewers' = Viewers /\ \A w \in Viewers : DOMAIN viewers'[w] = Fields
  BY <1>3, <1>4 DEF MapSame, SameViewer
<1>6. \A w \in Viewers \ {v} : /\ InMap(w) => InMap(w)'
                              /\ viewers'[w].run = viewers[w].run /\ viewers'[w].client = viewers[w].client
  BY <1>3, <1>4 DEF MapSame, SameViewer, InMap
<1>7. /\ asked' = [r \in Requests |-> IF asked[r] = v THEN NoViewer ELSE asked[r]]
      /\ pending' = {r \in pending : asked[r] # v} /\ asked \in [Requests -> Viewers \union {NoViewer}]
      /\ pending \subseteq Requests
  BY <1>2 DEF Forget, BrowserTyped
<1>8. asked' \in [Requests -> Viewers \union {NoViewer}] /\ pending' \subseteq Requests
  BY <1>7
<1>9. \A r \in pending' : asked'[r] = asked[r] /\ asked[r] \in Viewers \ {v} /\ InMap(asked[r])
  BY <1>7 DEF PendingExact
<1>10. PendingExact'
  <2>1. \A r \in pending' : InMap(asked[r])'
    BY <1>6, <1>9
  <2>2. \A r \in pending' : viewers'[asked'[r]].state \in {"on", "done"}
    BY <1>9, <2>1 DEF InMap
  <2>3. v # NoViewer
    BY DEF BrowserBounds
  <2>. QED  BY <1>2, <1>7, <2>2, <2>3 DEF PendingExact, InMap
<1>11. page \in Page /\ command \in Command /\ (Current(v) => command.type = "none")
  BY <1>2, TypedFacts
<1>12. /\ command' \in Command
       /\ command' = command \/ (command'.type = "visibility" /\ page.run # 0 /\ command.type = "none")
  <2>1. \/ command' = [NoCommand EXCEPT !.viewer = v, !.type = "visibility"] /\ Current(v)
        \/ command' = command
    BY <1>2 DEF Tell
  <2>2. /\ [NoCommand EXCEPT !.viewer = v, !.type = "visibility"] \in Command
        /\ [NoCommand EXCEPT !.viewer = v, !.type = "visibility"].type = "visibility"
    BY DEF NoCommand, Command
  <2>. QED  BY <1>11, <2>1, <2>2, CurrentInMap
<1>13. InputHitsItsPage' /\ WorkerFollows'
  BY <1>2, <1>11, <1>12 DEF InputHitsItsPage, WorkerFollows
<1>14. PrimaryIsConnected'
  <2>. SUFFICES ASSUME primary' \in Clients
                PROVE  \E w \in Viewers : Current(w)' /\ viewers'[w].client = primary'
    BY DEF PrimaryIsConnected
  <2>1. primary' = primary /\ ~(Current(v) /\ GivesUp(v, vs))
    BY <1>2 DEF BrowserBounds
  <2>2. PICK w \in Viewers : Current(w) /\ viewers[w].client = primary
    BY <2>1 DEF PrimaryIsConnected
  <2>3. page.run # 0
    BY <2>2, CurrentInMap
  <2>4. CASE w # v
    BY <1>2, <1>6, <2>1, <2>2, <2>4 DEF Current
  <2>5. CASE w = v
    <3>1. PICK u \in In(vs, page.run) : vs[u].client = primary
      BY <2>1, <2>2, <2>5 DEF GivesUp
    <3>2. u \in Viewers /\ vs[u].state \in {"on", "done"} /\ vs[u].run = page.run
      BY <3>1 DEF In
    <3>3. viewers'[u].state \in {"on", "done"} /\ viewers'[u].run = page.run /\ viewers'[u].client = primary
      BY <1>4, <3>1, <3>2 DEF MapSame, SameViewer
    <3>. QED  BY <1>2, <2>1, <2>3, <3>2, <3>3 DEF Current, InMap
  <2>. QED  BY <2>4, <2>5
<1>15. BrowserTyped'
  BY <1>2, <1>5, <1>8, <1>12 DEF BrowserTyped
<1>. QED  BY <1>10, <1>13, <1>14, <1>15 DEF BrowserRest

\* The end of the worker, and of the manager.
LEMMA EndKeeps ==
  ASSUME BrowserBounds, BrowserInv, ProcessEnds \/ Shutdown
  PROVE  BrowserTyped' /\ BrowserRest'
<1>. USE DEF BrowserInv
<1>1. /\ UNCHANGED <<runs, answers>> /\ page' = NoPage /\ primary' = Unknown /\ pending' = {}
      /\ worker' = NoWorker /\ command' = NoCommand /\ asked' = [r \in Requests |-> NoViewer]
  BY DEF ProcessEnds, Shutdown
<1>2. DOMAIN viewers' = Viewers /\ \A v \in Viewers : DOMAIN viewers'[v] = Fields
  <2>1. \A v \in Viewers : DOMAIN viewers[v] = Fields /\ DOMAIN Disconnected(viewers[v]) = Fields
    BY DEF BrowserTyped, Disconnected, Fields
  <2>2. DOMAIN Off = Fields
    BY DEF Off, Fields
  <2>. QED  BY <2>1, <2>2 DEF ProcessEnds, Shutdown
<1>3. NoPage \in Page /\ NoPage.run = 0
  BY DEF NoPage, Page, Statuses
<1>4. NoWorker \in Worker /\ NoWorker.misdirected = FALSE
  BY DEF NoWorker, Worker
<1>5. NoCommand \in Command /\ NoCommand.type = "none"
  BY DEF NoCommand, Command
<1>6. BrowserTyped'
  BY <1>1, <1>2, <1>3, <1>4, <1>5 DEF BrowserTyped
<1>7. InputHitsItsPage' /\ WorkerFollows'
  BY <1>1, <1>3, <1>4, <1>5 DEF InputHitsItsPage, WorkerFollows
<1>8. PendingExact'
  BY <1>1 DEF PendingExact
<1>9. PrimaryIsConnected'
  BY <1>1 DEF PrimaryIsConnected, BrowserBounds
<1>. QED  BY <1>6, <1>7, <1>8, <1>9 DEF BrowserRest

-----------------------------------------------------------------------------
(* The browser: the theorem                                                *)

LEMMA BrowserStart == ASSUME BrowserBounds, BrowserInit PROVE BrowserInv
<1>1. page \in Page /\ page.run = 0
  BY DEF BrowserInit, NoPage, Page, Statuses
<1>2. worker \in Worker /\ worker.misdirected = FALSE
  BY DEF BrowserInit, NoWorker, Worker
<1>3. command \in Command /\ command.type = "none"
  BY DEF BrowserInit, NoCommand, Command
<1>4. DOMAIN viewers = Viewers /\ \A v \in Viewers : DOMAIN viewers[v] = Fields
  BY DEF BrowserInit, Off, Fields
<1>5. /\ runs \in Nat /\ pending = {} /\ primary = Unknown
      /\ asked = [r \in Requests |-> NoViewer] /\ answers = [r \in Requests |-> 0]
  BY DEF BrowserInit
<1>6. BrowserTyped
  BY <1>1, <1>2, <1>3, <1>4, <1>5 DEF BrowserTyped
<1>7. InputHitsItsPage /\ WorkerFollows
  BY <1>1, <1>2, <1>3 DEF InputHitsItsPage, WorkerFollows
<1>8. PendingExact
  BY <1>5 DEF PendingExact
<1>9. PrimaryIsConnected
  BY <1>5 DEF PrimaryIsConnected, BrowserBounds
<1>. QED  BY <1>6, <1>7, <1>8, <1>9 DEF BrowserInv

LEMMA BrowserStep ==
  ASSUME BrowserBounds, BrowserInv, [BrowserNext]_browserVars
  PROVE  BrowserInv'
<1>1. CASE UNCHANGED browserVars
  BY <1>1 DEF browserVars, BrowserInv, BrowserTyped, InputHitsItsPage, WorkerFollows, PendingExact, InMap,
       PrimaryIsConnected, Current
<1>2. CASE BrowserNext
  <2>1. BrowserTyped' /\ BrowserRest'
    BY <1>2, AcceptKeeps, AddKeeps, RemoveKeeps, RequestKeeps, TellKeeps, EventsKeep, ResultKeeps, EndKeeps
       DEF BrowserNext
  <2>. QED  BY <2>1 DEF BrowserRest, BrowserInv
<1>. QED  BY <1>1, <1>2

\* Input reaches the page its sender saw, a request has one result at most and is
\* pending until then, and the viewport belongs to a client that is connected.
THEOREM CommandsHold == ASSUME BrowserBounds PROVE BrowserSpec => []CommandsLand
<1>1. BrowserInit => BrowserInv
  BY BrowserStart
<1>2. BrowserInv /\ [BrowserNext]_browserVars => BrowserInv'
  BY BrowserStep
<1>3. BrowserInv => CommandsLand
  BY DEF BrowserInv, CommandsLand, OneResultPerRequest, PendingExact
<1>. QED  BY <1>1, <1>2, <1>3, PTL DEF BrowserSpec

-----------------------------------------------------------------------------
(* What the viewers see: a queue                                           *)

\* An event that leaves a viewer with the page it knows.
Matches(item, op, status) == item.op = op /\ item.status = status
Agreeing(item, op, status) == item.type = "other" \/ (item.type = "frame" /\ Matches(item, op, status))

\* The page is what was seen, or a state in the queue, and nothing after it says
\* anything else.
Agrees(q, seen, op, status) ==
    \E i \in 0..Len(q) :
        /\ i = 0 => Matches(seen, op, status)
        /\ i # 0 => q[i].type = "state" /\ Matches(q[i], op, status)
        /\ \A j \in DOMAIN q : j > i => Agreeing(q[j], op, status)

\* A set of numbers has a first one, and a set of positions a last one.
LEMMA FirstOf ==
  ASSUME NEW S \in SUBSET Nat, S # {}
  PROVE  \E x \in S : \A y \in S : x <= y
<1>. DEFINE Less == OpToRel(<, Nat)
<1>1. IsWellFoundedOn(Less, Nat)
  BY NatLessThanWellFounded
<1>2. ASSUME NEW x \in Nat, NEW y \in Nat, <<y, x>> \notin Less PROVE x <= y
  <2>1. ~(y < x)
    BY <1>2 DEF OpToRel
  <2>. QED
    BY <2>1
<1>. HIDE DEF Less
<1>3. PICK x \in S : \A y \in S : ~(<<y, x>> \in Less)
  BY <1>1, WFMin
<1>. QED
  BY <1>2, <1>3

LEMMA LastOf ==
  ASSUME NEW k \in Nat, NEW S \in SUBSET (1..k), S # {}
  PROVE  \E x \in S : \A y \in S : y <= x
<1>1. PICK T : T = {k - x : x \in S}
  OBVIOUS
<1>2. T \in SUBSET Nat /\ T # {}
  <2>1. \A x \in S : k - x \in Nat
    OBVIOUS
  <2>2. \A t \in T : t \in Nat
    BY <1>1, <2>1
  <2>. QED
    BY <1>1, <2>2
<1>3. PICK t \in T : \A u \in T : t <= u
  BY <1>2, FirstOf
<1>4. PICK x \in S : t = k - x
  BY <1>1, <1>3
<1>5. ASSUME NEW y \in S PROVE y <= x
  <2>1. k - y \in T /\ x \in 1..k /\ y \in 1..k
    BY <1>1
  <2>. QED
    BY <1>3, <1>4, <2>1
<1>. QED
  BY <1>5

\* What comes last decides.
LEMMA AgreementIsSeen ==
  ASSUME NEW x, x.queue \in Seq(Item), NEW op, NEW status, Agrees(x.queue, x.seen, op, status)
  PROVE  LastSeen(x).op = op /\ LastSeen(x).status = status
<1>1. PICK q : q = x.queue
  OBVIOUS
<1>2. q \in Seq(Item) /\ Len(q) \in Nat /\ DOMAIN q = 1..Len(q)
  BY <1>1
<1>3. PICK i \in 0..Len(q) :
        /\ i = 0 => Matches(x.seen, op, status)
        /\ i # 0 => q[i].type = "state" /\ Matches(q[i], op, status)
        /\ \A j \in DOMAIN q : j > i => Agreeing(q[j], op, status)
  BY <1>1 DEF Agrees
<1>4. CASE Shown(q) = {}
  <2>1. i = 0
    BY <1>2, <1>3, <1>4 DEF Shown
  <2>. QED
    BY <1>1, <1>3, <1>4, <2>1 DEF LastSeen, Matches
<1>5. CASE Shown(q) # {}
  <2>1. Shown(q) \in SUBSET (1..Len(q))
    BY <1>2 DEF Shown
  <2>2. \E m \in Shown(q) : \A j \in Shown(q) : j <= m
    BY <1>2, <1>5, <2>1, LastOf
  <2>3. PICK m : m = CHOOSE n \in Shown(q) : \A j \in Shown(q) : j <= n
    OBVIOUS
  <2>4. m \in Shown(q) /\ \A j \in Shown(q) : j <= m
    BY <2>2, <2>3
  <2>5. m \in 1..Len(q) /\ q[m].type # "other"
    BY <2>1, <2>4 DEF Shown
  <2>6. i # 0 => i \in Shown(q)
    BY <1>2, <1>3 DEF Shown
  <2>7. m = i \/ m > i
    BY <1>2, <2>4, <2>5, <2>6
  <2>8. Matches(q[m], op, status)
    BY <1>2, <1>3, <2>5, <2>7 DEF Agreeing
  <2>9. LastSeen(x) = q[m]
    BY <1>1, <1>5, <2>3 DEF LastSeen
  <2>. QED
    BY <2>8, <2>9 DEF Matches
<1>. QED
  BY <1>4, <1>5

\* What an append to a queue is.
LEMMA Appending ==
  ASSUME NEW q \in Seq(Item), NEW item \in Item, NEW r, r = Append(q, item)
  PROVE  /\ r \in Seq(Item) /\ Len(r) = Len(q) + 1 /\ Len(q) \in Nat
         /\ DOMAIN r = 1..(Len(q) + 1) /\ DOMAIN q = 1..Len(q)
         /\ r[Len(q) + 1] = item /\ \A i \in DOMAIN q : r[i] = q[i]
         /\ \A i \in DOMAIN r : i \in DOMAIN q \/ i = Len(q) + 1
<1>1. /\ r \in Seq(Item) /\ Len(r) = Len(q) + 1 /\ Len(q) \in Nat /\ DOMAIN q = 1..Len(q)
      /\ r[Len(q) + 1] = item /\ \A i \in 1..Len(q) : r[i] = q[i]
  OBVIOUS
<1>2. DOMAIN r = 1..(Len(q) + 1)
  BY <1>1
<1>. QED
  BY <1>1, <1>2

\* An event that agrees changes nothing, a state decides.
LEMMA AppendAgrees ==
  ASSUME NEW q \in Seq(Item), NEW item \in Item, NEW seen, NEW op, NEW status,
         \/ Agreeing(item, op, status) /\ Agrees(q, seen, op, status)
         \/ item.type = "state" /\ Matches(item, op, status)
  PROVE  Agrees(Append(q, item), seen, op, status)
<1>1. PICK r : r = Append(q, item)
  OBVIOUS
<1>2. /\ Len(r) = Len(q) + 1 /\ Len(q) \in Nat
      /\ DOMAIN r = 1..(Len(q) + 1) /\ DOMAIN q = 1..Len(q)
      /\ r[Len(q) + 1] = item /\ \A i \in DOMAIN q : r[i] = q[i]
      /\ \A i \in DOMAIN r : i \in DOMAIN q \/ i = Len(q) + 1
  BY <1>1, Appending
<1>3. CASE Agreeing(item, op, status) /\ Agrees(q, seen, op, status)
  <2>1. PICK i \in 0..Len(q) :
        /\ i = 0 => Matches(seen, op, status)
        /\ i # 0 => q[i].type = "state" /\ Matches(q[i], op, status)
        /\ \A j \in DOMAIN q : j > i => Agreeing(q[j], op, status)
    BY <1>3 DEF Agrees
  <2>2. i # 0 => r[i].type = "state" /\ Matches(r[i], op, status)
    BY <1>2, <2>1
  <2>3. \A j \in DOMAIN r : j > i => Agreeing(r[j], op, status)
    BY <1>2, <1>3, <2>1
  <2>4. i \in 0..Len(r)
    BY <1>2
  <2>. QED
    BY <1>1, <2>1, <2>2, <2>3, <2>4 DEF Agrees
<1>4. CASE item.type = "state" /\ Matches(item, op, status)
  <2>1. PICK i : i = Len(q) + 1
    OBVIOUS
  <2>2. i \in 0..Len(r) /\ i # 0 /\ r[i] = item /\ \A j \in DOMAIN r : ~(j > i)
    BY <1>2, <2>1
  <2>. QED
    BY <1>1, <1>4, <2>2 DEF Agrees
<1>. QED
  BY <1>3, <1>4

\* What two queues make.
LEMMA Joining ==
  ASSUME NEW a \in Seq(Item), NEW b \in Seq(Item)
  PROVE  /\ a \o b \in Seq(Item) /\ Len(a \o b) = Len(a) + Len(b)
         /\ \A n \in 1..(Len(a) + Len(b)) : (a \o b)[n] = IF n <= Len(a) THEN a[n] ELSE b[n - Len(a)]
OBVIOUS

\* What a queue without one of its events is.
LEMMA Removing ==
  ASSUME NEW q \in Seq(Item), NEW f \in 1..Len(q), NEW r,
         r = SubSeq(q, 1, f - 1) \o SubSeq(q, f + 1, Len(q))
  PROVE  /\ r \in Seq(Item) /\ Len(r) = Len(q) - 1
         /\ \A n \in 1..Len(r) : r[n] = IF n < f THEN q[n] ELSE q[n + 1]
<1>1. PICK a, b : a = SubSeq(q, 1, f - 1) /\ b = SubSeq(q, f + 1, Len(q))
  OBVIOUS
<1>2. a \in Seq(Item) /\ Len(a) = f - 1 /\ \A n \in 1..(f - 1) : a[n] = q[n]
  <2>1. a = SubSeq(q, 1, f - 1) /\ f - 1 \in 0..Len(q)
    BY <1>1
  <2>2. a \in Seq(Item)
    BY <2>1
  <2>3. Len(a) = f - 1
    BY <2>1
  <2>4. \A n \in 1..(f - 1) : a[n] = q[n]
    BY <2>1
  <2>. QED
    BY <2>2, <2>3, <2>4
<1>3. b \in Seq(Item) /\ Len(b) = Len(q) - f /\ \A n \in 1..(Len(q) - f) : b[n] = q[n + f]
  <2>1. b = SubSeq(q, f + 1, Len(q)) /\ f + 1 \in 1..(Len(q) + 1) /\ Len(q) \in Nat
    BY <1>1
  <2>2. b \in Seq(Item)
    BY <2>1
  <2>3. Len(b) = Len(q) - f
    BY <2>1
  <2>4. ASSUME NEW n \in 1..(Len(q) - f)
        PROVE  b[n] = q[n + f]
    <3>1. n \in 1..(Len(q) - (f + 1) + 1) /\ (f + 1) + n - 1 = n + f
      OBVIOUS
    <3>2. b[n] = q[(f + 1) + n - 1]
      BY <2>1, <3>1
    <3>. QED  BY <3>1, <3>2
  <2>. QED
    BY <2>2, <2>3, <2>4
<1>4. r = a \o b
  BY <1>1
<1>5. Len(q) \in Nat /\ f \in Nat /\ 1 <= f /\ f <= Len(q)
  OBVIOUS
<1>6. PICK la, lb : la = f - 1 /\ lb = Len(q) - f
  OBVIOUS
<1>7. la \in Nat /\ lb \in Nat /\ la + lb = Len(q) - 1 /\ Len(a) = la /\ Len(b) = lb /\ f = la + 1
  BY <1>2, <1>3, <1>5, <1>6
<1>8. a \in Seq(Item) /\ b \in Seq(Item)
  BY <1>2, <1>3
<1>9. r \in Seq(Item) /\ Len(r) = la + lb
  BY <1>4, <1>7, <1>8, Joining
<1>10. ASSUME NEW n \in 1..(la + lb) PROVE r[n] = IF n < f THEN q[n] ELSE q[n + 1]
  <2>1. r[n] = IF n <= la THEN a[n] ELSE b[n - la]
    <3>1. \A m \in 1..(Len(a) + Len(b)) : (a \o b)[m] = IF m <= Len(a) THEN a[m] ELSE b[m - Len(a)]
      BY <1>8, Joining
    <3>2. n \in 1..(Len(a) + Len(b))
      BY <1>7
    <3>3. (a \o b)[n] = IF n <= Len(a) THEN a[n] ELSE b[n - Len(a)]
      BY <3>1, <3>2
    <3>. QED
      BY <1>4, <1>7, <3>3
  <2>2. CASE n < f
    <3>1. n <= la /\ n \in 1..(f - 1)
      BY <1>7, <2>2
    <3>. QED
      BY <1>2, <2>1, <2>2, <3>1
  <2>3. CASE ~(n < f)
    <3>1. ~(n <= la) /\ n - la \in 1..lb /\ n - la + f = n + 1
      BY <1>7, <2>3
    <3>. QED
      BY <1>3, <1>6, <2>1, <2>3, <3>1
  <2>. QED
    BY <2>2, <2>3
<1>. QED
  BY <1>7, <1>9, <1>10

\* Neither does a frame that is dropped, for it says what was said before it.
LEMMA DropAgrees ==
  ASSUME NEW q \in Seq(Item), HasFrame(q)
  PROVE  /\ WithoutFrame(q) \in Seq(Item) /\ Len(WithoutFrame(q)) = Len(q) - 1
         /\ \A seen, op, status : Agrees(q, seen, op, status) => Agrees(WithoutFrame(q), seen, op, status)
<1>0. Len(q) \in Nat /\ DOMAIN q = 1..Len(q)
  OBVIOUS
<1>1. PICK f, r : f = FirstFrame(q) /\ r = WithoutFrame(q)
  OBVIOUS
<1>2. f \in 1..Len(q) /\ q[f].type = "frame"
  <2>1. PICK S : S = {i \in DOMAIN q : q[i].type = "frame"}
    OBVIOUS
  <2>2. S \in SUBSET Nat /\ S # {}
    BY <1>0, <2>1 DEF HasFrame
  <2>3. PICK m \in S : \A j \in S : m <= j
    BY <2>2, FirstOf
  <2>4. m \in DOMAIN q /\ q[m].type = "frame" /\ \A j \in 1..(m - 1) : q[j].type # "frame"
    BY <1>0, <2>1, <2>3
  <2>5. f \in DOMAIN q /\ q[f].type = "frame"
    BY <1>1, <2>4 DEF FirstFrame
  <2>. QED
    BY <1>0, <2>5
<1>3. /\ r \in Seq(Item) /\ Len(r) = Len(q) - 1 /\ DOMAIN r = 1..(Len(q) - 1)
      /\ \A n \in 1..Len(r) : r[n] = IF n < f THEN q[n] ELSE q[n + 1]
  <2>5. /\ r \in Seq(Item) /\ Len(r) = Len(q) - 1
        /\ \A n \in 1..Len(r) : r[n] = IF n < f THEN q[n] ELSE q[n + 1]
    <3>1. r = SubSeq(q, 1, f - 1) \o SubSeq(q, f + 1, Len(q))
      BY <1>1 DEF WithoutFrame
    <3>. QED
      BY <1>2, <3>1, Removing
  <2>7. DOMAIN r = 1..(Len(q) - 1)
    BY <2>5
  <2>. QED
    BY <2>5, <2>7
<1>4. ASSUME NEW seen, NEW op, NEW status, Agrees(q, seen, op, status)
      PROVE  Agrees(r, seen, op, status)
  <2>1. PICK i \in 0..Len(q) :
        /\ i = 0 => Matches(seen, op, status)
        /\ i # 0 => q[i].type = "state" /\ Matches(q[i], op, status)
        /\ \A j \in DOMAIN q : j > i => Agreeing(q[j], op, status)
    BY <1>4 DEF Agrees
  <2>2. i # f
    BY <1>2, <2>1
  <2>3. PICK k : k = IF i < f THEN i ELSE i - 1
    OBVIOUS
  <2>4. k \in 0..Len(r) /\ (k = 0 <=> i = 0)
    BY <1>0, <1>2, <1>3, <2>2, <2>3
  <2>5. k # 0 => r[k] = q[i]
    <3>1. CASE i < f
      BY <1>0, <1>2, <1>3, <2>3, <2>4, <3>1
    <3>2. CASE ~(i < f)
      <4>1. k = i - 1 /\ ~(k < f) /\ k + 1 = i
        BY <1>2, <2>2, <2>3, <3>2
      <4>. QED
        BY <1>0, <1>3, <2>4, <4>1
    <3>. QED
      BY <3>1, <3>2
  <2>6. ASSUME NEW j \in DOMAIN r, j > k PROVE Agreeing(r[j], op, status)
    <3>1. CASE j < f
      <4>1. j > i /\ j \in DOMAIN q /\ r[j] = q[j]
        BY <1>0, <1>2, <1>3, <2>2, <2>3, <2>6, <3>1
      <4>. QED
        BY <2>1, <4>1
    <3>2. CASE ~(j < f)
      <4>1. j + 1 > i /\ j + 1 \in DOMAIN q /\ r[j] = q[j + 1]
        BY <1>0, <1>2, <1>3, <2>2, <2>3, <2>6, <3>2
      <4>. QED
        BY <2>1, <4>1
    <3>. QED
      BY <3>1, <3>2
  <2>. QED
    BY <2>1, <2>4, <2>5, <2>6 DEF Agrees
<1>. QED
  BY <1>1, <1>3, <1>4

\* The event that is delivered becomes what was seen.
LEMMA DeliverAgrees ==
  ASSUME NEW q \in Seq(Item), q # <<>>, NEW seen, NEW op, NEW status, Agrees(q, seen, op, status), NEW seen1,
         seen1 = (IF Head(q).type = "other" THEN seen ELSE [op |-> Head(q).op, status |-> Head(q).status])
  PROVE  Agrees(Tail(q), seen1, op, status)
<1>1. PICK r : r = Tail(q)
  OBVIOUS
<1>2. /\ Len(q) \in Nat \ {0} /\ DOMAIN q = 1..Len(q) /\ Head(q) = q[1]
      /\ r \in Seq(Item) /\ Len(r) = Len(q) - 1 /\ DOMAIN r = 1..(Len(q) - 1)
      /\ \A n \in 1..(Len(q) - 1) : r[n] = q[n + 1]
  <2>1. /\ Len(q) \in Nat \ {0} /\ DOMAIN q = 1..Len(q) /\ Head(q) = q[1]
        /\ r \in Seq(Item) /\ Len(r) = Len(q) - 1
        /\ \A n \in 1..(Len(q) - 1) : r[n] = q[n + 1]
    BY <1>1
  <2>. QED
    BY <2>1
<1>3. PICK i \in 0..Len(q) :
        /\ i = 0 => Matches(seen, op, status)
        /\ i # 0 => q[i].type = "state" /\ Matches(q[i], op, status)
        /\ \A j \in DOMAIN q : j > i => Agreeing(q[j], op, status)
  BY DEF Agrees
<1>4. PICK k : k = IF i = 0 THEN 0 ELSE i - 1
  OBVIOUS
<1>5. k \in 0..Len(r) /\ (k # 0 => r[k] = q[i])
  BY <1>2, <1>3, <1>4
<1>6. \A j \in DOMAIN r : j > k => j + 1 > i /\ j + 1 \in DOMAIN q /\ r[j] = q[j + 1]
  BY <1>2, <1>3, <1>4
<1>7. k = 0 => Matches(seen1, op, status)
  <2>1. CASE i = 0
    <3>1. Agreeing(q[1], op, status)
      BY <1>2, <1>3, <2>1
    <3>2. CASE q[1].type = "other"
      BY <1>2, <1>3, <2>1, <3>2
    <3>3. CASE q[1].type # "other"
      BY <1>2, <3>1, <3>3 DEF Agreeing, Matches
    <3>. QED
      BY <3>2, <3>3
  <2>2. CASE i = 1
    BY <1>2, <1>3, <2>2 DEF Matches
  <2>. QED
    BY <1>4, <2>1, <2>2
<1>. QED
  BY <1>1, <1>3, <1>4, <1>5, <1>6, <1>7 DEF Agrees

-----------------------------------------------------------------------------
(* What the viewers see: one viewer                                        *)

ViewerRecord ==
    [state : {"off", "accepted", "on", "done"}, run : 0..MaxRuns, client : Clients \union {NoClient},
     visible : BOOLEAN, queue : Seq(Item), seen : [op : 0..MaxOperations, status : Statuses]]
Fits(x) == x \in ViewerRecord /\ Len(x.queue) <= QueueLimit

\* What an event does to a viewer in the map, besides its queue.
Keeps(x, y) ==
    /\ Fits(y) /\ y.run = x.run /\ y.client = x.client /\ y.visible = x.visible
    /\ x.state \in {"on", "done"} <=> y.state \in {"on", "done"}
    /\ y.state \notin {"on", "done"} => y.state = x.state
    /\ y.state = "on" => x.state = "on"

\* The viewer keeps the page that it knows.
StillAgrees(x, y) ==
    \A op, status : y.state = "on" /\ Agrees(x.queue, x.seen, op, status) => Agrees(y.queue, y.seen, op, status)
NowAgrees(y, op, status) == y.state = "on" => Agrees(y.queue, y.seen, op, status)

\* A viewer with another queue.
LEMMA Requeued ==
  ASSUME NEW x, Fits(x), NEW q \in Seq(Item), Len(q) <= QueueLimit, NEW y, y = [x EXCEPT !.queue = q]
  PROVE  Keeps(x, y) /\ y.queue = q /\ y.seen = x.seen /\ y.state = x.state
BY DEF Fits, Keeps, ViewerRecord

LEMMA PutIs ==
  ASSUME BrowserBounds, NEW x, Fits(x), x.state \in {"on", "done"}, NEW item \in Item, NEW y, y = Put(x, item)
  PROVE  /\ Keeps(x, y)
         /\ \A op, status : Agreeing(item, op, status) /\ Agrees(x.queue, x.seen, op, status) => NowAgrees(y, op, status)
         /\ \A op, status : item.type = "state" /\ Matches(item, op, status) => NowAgrees(y, op, status)
<1>1. PICK q : q = x.queue
  OBVIOUS
<1>2. q \in Seq(Item) /\ Len(q) \in Nat /\ Len(q) <= QueueLimit /\ QueueLimit \in Nat \ {0} /\ Keeps(x, x)
  BY <1>1 DEF Fits, ViewerRecord, Keeps, BrowserBounds
<1>3. CASE y.state = "done" /\ Keeps(x, y)
  BY <1>3 DEF NowAgrees
<1>4. CASE y = [x EXCEPT !.queue = Append(q, item)] /\ Len(q) < QueueLimit
  <2>1. Append(q, item) \in Seq(Item) /\ Len(Append(q, item)) <= QueueLimit
    BY <1>2, <1>4
  <2>2. Keeps(x, y) /\ y.queue = Append(q, item) /\ y.seen = x.seen
    <3>1. PICK r1 : r1 = Append(q, item)
      OBVIOUS
    <3>2. r1 \in Seq(Item) /\ Len(r1) <= QueueLimit
      BY <2>1, <3>1
    <3>3. y = [x EXCEPT !.queue = r1]
      BY <1>4, <3>1
    <3>4. Keeps(x, y) /\ y.queue = r1 /\ y.seen = x.seen
      BY <3>2, <3>3, Requeued
    <3>. QED
      BY <3>1, <3>4
  <2>. QED
    BY <1>1, <1>2, <2>2, AppendAgrees DEF NowAgrees
<1>5. CASE y = x /\ item.type = "frame"
  BY <1>2, <1>5 DEF NowAgrees
<1>6. CASE HasFrame(q) /\ y = [x EXCEPT !.queue = Append(WithoutFrame(q), item)]
  <2>1. PICK r : r = WithoutFrame(q)
    OBVIOUS
  <2>2. /\ r \in Seq(Item) /\ Len(r) = Len(q) - 1 /\ Len(r) \in Nat
        /\ \A seen, op, status : Agrees(q, seen, op, status) => Agrees(r, seen, op, status)
    BY <1>2, <1>6, <2>1, DropAgrees
  <2>3. Append(r, item) \in Seq(Item) /\ Len(Append(r, item)) <= QueueLimit
    BY <1>2, <2>2
  <2>4. Keeps(x, y) /\ y.queue = Append(r, item) /\ y.seen = x.seen
    <3>1. PICK r1 : r1 = Append(r, item)
      OBVIOUS
    <3>2. r1 \in Seq(Item) /\ Len(r1) <= QueueLimit
      BY <2>3, <3>1
    <3>3. y = [x EXCEPT !.queue = r1]
      BY <1>6, <2>1, <3>1
    <3>4. Keeps(x, y) /\ y.queue = r1 /\ y.seen = x.seen
      BY <3>2, <3>3, Requeued
    <3>. QED
      BY <3>1, <3>4
  <2>. QED
    BY <1>1, <2>2, <2>4, AppendAgrees DEF NowAgrees
<1>7. CASE y = Disconnected(x)
  <2>1. y = [x EXCEPT !.state = "done", !.queue = <<>>]
    BY <1>7 DEF Disconnected
  <2>2. <<>> \in Seq(Item) /\ Len(<<>>) <= QueueLimit
    BY <1>2
  <2>3. y \in ViewerRecord /\ y.state = "done" /\ y.queue = <<>> /\ y.run = x.run /\ y.client = x.client
        /\ y.visible = x.visible
    BY <2>1, <2>2 DEF Fits, ViewerRecord
  <2>. QED
    BY <2>2, <2>3 DEF Keeps, Fits, NowAgrees
<1>8. CASE x.state = "done" /\ y = x
  BY <1>2, <1>3, <1>8
<1>. QED
  <2>1. \/ x.state = "done" /\ y = x
        \/ y = [x EXCEPT !.queue = Append(q, item)] /\ Len(q) < QueueLimit
        \/ y = x /\ item.type = "frame"
        \/ HasFrame(q) /\ y = [x EXCEPT !.queue = Append(WithoutFrame(q), item)]
        \/ y = Disconnected(x)
    BY <1>1 DEF Put
  <2>. QED
    BY <1>4, <1>5, <1>6, <1>7, <1>8, <2>1

LEMMA KeepsOn ==
  ASSUME NEW x, NEW y, NEW z, Keeps(x, y), Keeps(y, z)
  PROVE  Keeps(x, z)
BY DEF Keeps

LEMMA KeepsItself == ASSUME NEW x, Fits(x) PROVE Keeps(x, x)
BY DEF Keeps

-----------------------------------------------------------------------------
(* What the viewers see: the invariant                                     *)

ViewersFit ==
    \A v \in Viewers : /\ Fits(viewers[v])
                       /\ viewers[v].state # "off" => viewers[v].run \in 1..runs
                       /\ viewers[v].state \in {"off", "accepted"} => ~viewers[v].visible

\* Everyone who looks knows the page, or has it in the queue.
AllAgree ==
    \A v \in Viewers : viewers[v].run = page.run /\ viewers[v].state # "accepted" =>
                          NowAgrees(viewers[v], page.op, page.status)

PageBounded ==
    /\ runs \in 0..MaxRuns /\ page.run <= runs
    /\ page.op <= MaxOperations /\ page.opened <= MaxOperations /\ page.frame <= MaxOperations

\* The worker renders if somebody looks, or the command that tells it is on its way.
WorkerLooks ==
    page.run # 0 =>
        IF command.type = "visibility" THEN command.visible = AnyVisible(viewers, page.run)
        ELSE worker.visible = AnyVisible(viewers, page.run)

RestTyped == primary \in Clients \union {Unknown, NoClient} /\ down \in BOOLEAN /\ toggles \in 0..MaxToggles

LookInv == ViewersFit /\ AllAgree /\ PageBounded /\ WorkerLooks /\ RestTyped /\ FrameOfThePage

LEMMA LookIsAgreement ==
  ASSUME BrowserBounds, BrowserInv, LookInv
  PROVE  ViewersAgree
<1>1. BrowserTypeOK
  <2>1. page \in Page /\ page.run <= runs /\ runs \in 0..MaxRuns /\ page.op <= MaxOperations
        /\ page.opened <= MaxOperations /\ page.frame <= MaxOperations /\ {MaxRuns, MaxOperations} \subseteq Nat
    BY DEF BrowserInv, BrowserTyped, LookInv, PageBounded, BrowserBounds
  <2>2. page \in [run : 0..MaxRuns, status : Statuses, op : 0..MaxOperations,
                      opened : 0..MaxOperations, frame : 0..MaxOperations]
    BY <2>1 DEF Page
  <2>3. \A v \in Viewers :
          /\ viewers[v].state \in {"off", "accepted", "on", "done"}
          /\ viewers[v].queue \in Seq(Item) /\ Len(viewers[v].queue) <= QueueLimit
          /\ viewers[v].client \in Clients \cup {NoClient}
    BY DEF LookInv, ViewersFit, Fits, ViewerRecord
  <2>4. command.viewer \in Viewers \cup {NoViewer} /\ pending \subseteq Requests
        /\ asked \in [Requests -> Viewers \cup {NoViewer}]
    BY DEF BrowserInv, BrowserTyped, Command
  <2>5. answers \in [Requests -> 0..2]
    <3>1. answers \in [Requests -> Nat] /\ \A r \in Requests : answers[r] <= 1
      BY DEF BrowserInv, BrowserTyped, PendingExact
    <3>2. \A r \in Requests : answers[r] \in 0..2
      BY <3>1
    <3>. QED
      BY <3>1, <3>2
  <2>. QED
    BY <2>1, <2>2, <2>3, <2>4, <2>5 DEF BrowserTypeOK, LookInv, RestTyped
<1>2. ViewersConverge
  <2>1. ASSUME NEW v \in Viewers, viewers[v].state = "on", viewers[v].run = page.run
        PROVE  LastSeen(viewers[v]).op = page.op /\ LastSeen(viewers[v]).status = page.status
    <3>1. viewers[v].queue \in Seq(Item)
      BY DEF LookInv, ViewersFit, Fits, ViewerRecord
    <3>2. Agrees(viewers[v].queue, viewers[v].seen, page.op, page.status)
      BY <2>1 DEF LookInv, AllAgree, NowAgrees
    <3>. QED
      BY <3>1, <3>2, AgreementIsSeen
  <2>. QED
    BY <2>1 DEF ViewersConverge
<1>3. VisibilityAgrees
  BY DEF LookInv, WorkerLooks, VisibilityAgrees
<1>. QED
  BY <1>1, <1>2, <1>3 DEF ViewersAgree, LookInv

-----------------------------------------------------------------------------
(* What the viewers see: all viewers                                       *)

\* An event that says what is true of the page, or nothing of it.
Says(item, op, status) == item \in Item /\ (item.type = "other" \/ Matches(item, op, status))

\* What such an event does to a viewer, for the page as it is.
Hears(x, y, op, status) == Keeps(x, y) /\ (NowAgrees(x, op, status) => NowAgrees(y, op, status))
AllHear(vs, ws) == \A v \in Viewers : Hears(vs[v], ws[v], page.op, page.status)
AllFit(vs) == DOMAIN vs = Viewers /\ \A v \in Viewers : Fits(vs[v])

LEMMA PutHears ==
  ASSUME BrowserBounds, NEW x, Fits(x), x.state \in {"on", "done"}, NEW op, NEW status,
         NEW item, Says(item, op, status)
  PROVE  Hears(x, Put(x, item), op, status)
<1>1. PICK y : y = Put(x, item)
  OBVIOUS
<1>2. item \in Item /\ item.type \in {"state", "frame", "other"}
  BY DEF Says, Item
<1>3. /\ Keeps(x, y)
      /\ Agreeing(item, op, status) /\ Agrees(x.queue, x.seen, op, status) => NowAgrees(y, op, status)
      /\ item.type = "state" /\ Matches(item, op, status) => NowAgrees(y, op, status)
  BY <1>1, <1>2, PutIs
<1>4. Agreeing(item, op, status) \/ (item.type = "state" /\ Matches(item, op, status))
  BY <1>2 DEF Says, Agreeing
<1>5. NowAgrees(x, op, status) => NowAgrees(y, op, status)
  <2>1. CASE x.state = "on"
    BY <1>3, <1>4, <2>1 DEF NowAgrees
  <2>2. CASE x.state # "on"
    BY <1>3, <2>2 DEF Keeps, NowAgrees
  <2>. QED
    BY <2>1, <2>2
<1>. QED
  BY <1>1, <1>3, <1>5 DEF Hears

LEMMA HearsOn ==
  ASSUME NEW x, NEW y, NEW z, NEW op, NEW status, Hears(x, y, op, status), Hears(y, z, op, status)
  PROVE  Hears(x, z, op, status)
BY KeepsOn DEF Hears

LEMMA HearsNothing == ASSUME NEW x, Fits(x), NEW op, NEW status PROVE Hears(x, x, op, status)
BY KeepsItself DEF Hears

LEMMA PutTwiceHears ==
  ASSUME BrowserBounds, NEW x, Fits(x), x.state \in {"on", "done"}, NEW op, NEW status,
         NEW item, Says(item, op, status), NEW other, Says(other, op, status)
  PROVE  Hears(x, Put(Put(x, item), other), op, status)
<1>1. PICK y : y = Put(x, item)
  OBVIOUS
<1>2. Hears(x, y, op, status) /\ Fits(y) /\ y.state \in {"on", "done"}
  BY <1>1, PutHears DEF Hears, Keeps
<1>3. Hears(y, Put(y, other), op, status)
  BY <1>2, PutHears
<1>4. PICK z : z = Put(y, other)
  OBVIOUS
<1>5. Hears(x, z, op, status)
  BY <1>2, <1>3, <1>4, HearsOn
<1>. QED
  BY <1>1, <1>4, <1>5

LEMMA OneHears ==
  ASSUME NEW vs, AllFit(vs), NEW v \in Viewers, NEW y, Hears(vs[v], y, page.op, page.status)
  PROVE  AllHear(vs, [vs EXCEPT ![v] = y]) /\ AllFit([vs EXCEPT ![v] = y])
<1>1. PICK ws : ws = [vs EXCEPT ![v] = y]
  OBVIOUS
<1>2. DOMAIN ws = Viewers /\ \A w \in Viewers : ws[w] = IF w = v THEN y ELSE vs[w]
  BY <1>1 DEF AllFit
<1>3. AllHear(vs, ws)
  BY <1>2, HearsNothing DEF AllHear, AllFit
<1>4. AllFit(ws)
  BY <1>2 DEF AllFit, Hears, Keeps
<1>. QED
  BY <1>1, <1>3, <1>4

LEMMA ToAllHear ==
  ASSUME BrowserBounds, NEW vs, AllFit(vs), NEW item, Says(item, page.op, page.status)
  PROVE  AllHear(vs, ToAll(vs, item)) /\ AllFit(ToAll(vs, item))
<1>1. PICK ws : ws = ToAll(vs, item)
  OBVIOUS
<1>2. DOMAIN ws = Viewers /\ \A w \in Viewers : ws[w] = IF w \in In(vs, page.run) THEN Put(vs[w], item) ELSE vs[w]
  BY <1>1 DEF ToAll
<1>3. ASSUME NEW w \in Viewers PROVE Hears(vs[w], ws[w], page.op, page.status)
  <2>1. Fits(vs[w])
    BY DEF AllFit
  <2>2. CASE w \in In(vs, page.run)
    <3>1. vs[w].state \in {"on", "done"}
      BY <2>2 DEF In
    <3>2. Hears(vs[w], Put(vs[w], item), page.op, page.status)
      BY <2>1, <3>1, PutHears
    <3>. QED
      BY <1>2, <2>2, <3>2
  <2>3. CASE w \notin In(vs, page.run)
    BY <1>2, <2>1, <2>3, HearsNothing
  <2>. QED
    BY <2>2, <2>3
<1>4. AllHear(vs, ws) /\ AllFit(ws)
  BY <1>2, <1>3 DEF AllHear, AllFit, Hears, Keeps
<1>. QED
  BY <1>1, <1>4

LEMMA ThenHear ==
  ASSUME NEW us, NEW vs, NEW ws, AllHear(us, vs), AllHear(vs, ws)
  PROVE  AllHear(us, ws)
BY HearsOn DEF AllHear

\* The events the code makes say what is true of the page.
LEMMA EventsOfThePage ==
  ASSUME BrowserBounds, NEW p \in Page, p.op <= MaxOperations, p.frame <= MaxOperations
  PROVE  /\ StateEvent(p) \in Item /\ StateEvent(p).type = "state" /\ Matches(StateEvent(p), p.op, p.status)
         /\ p.frame = p.op => Says(FrameEvent(p), p.op, p.status)
         /\ \A op, status : Says(Other, op, status)
<1>1. p.op \in 0..MaxOperations /\ p.frame \in 0..MaxOperations /\ p.status \in Statuses
  BY DEF Page, BrowserBounds
<1>2. StateEvent(p) \in Item /\ FrameEvent(p) \in Item
  BY <1>1 DEF StateEvent, FrameEvent, Item
<1>3. Other \in Item
  BY DEF Other, Item, Statuses, BrowserBounds
<1>. QED
  BY <1>2, <1>3 DEF Says, Matches, StateEvent, FrameEvent, Other

\* What an unchanged page, and events that say what is true of it, leave.
LEMMA LooksUnchanged ==
  ASSUME BrowserBounds, BrowserInv, LookInv
  PROVE  /\ AllFit(viewers) /\ page \in Page
         /\ Says(StateEvent(page), page.op, page.status) /\ \A op, status : Says(Other, op, status)
         /\ page.frame # 0 => Says(FrameEvent(page), page.op, page.status)
<1>1. page \in Page /\ DOMAIN viewers = Viewers
  BY DEF BrowserInv, BrowserTyped
<1>2. page.op <= MaxOperations /\ page.frame <= MaxOperations /\ (page.frame # 0 => page.frame = page.op)
  BY DEF LookInv, PageBounded, FrameOfThePage
<1>3. AllFit(viewers)
  BY <1>1 DEF AllFit, LookInv, ViewersFit
<1>4. StateEvent(page) \in Item /\ Matches(StateEvent(page), page.op, page.status)
  BY <1>1, <1>2, EventsOfThePage
<1>. QED
  BY <1>1, <1>2, <1>3, <1>4, EventsOfThePage DEF Says

LEMMA VisibleHeard ==
  ASSUME NEW vs, NEW ws, AllHear(vs, ws)
  PROVE  \A run : AnyVisible(ws, run) = AnyVisible(vs, run)
<1>1. \A v \in Viewers : Keeps(vs[v], ws[v])
  BY DEF AllHear, Hears
<1>2. \A run : In(ws, run) = In(vs, run)
  BY <1>1 DEF In, Keeps
<1>3. \A v \in Viewers : ws[v].visible = vs[v].visible
  BY <1>1 DEF Keeps
<1>4. \A run : In(vs, run) \subseteq Viewers
  BY DEF In
<1>. QED
  BY <1>2, <1>3, <1>4 DEF AnyVisible

LEMMA HeardKeeps ==
  ASSUME LookInv, AllHear(viewers, viewers'), runs' = runs,
         page'.run = page.run, page'.op = page.op, page'.status = page.status
  PROVE  /\ ViewersFit' /\ AllAgree'
         /\ \A run : AnyVisible(viewers', run) = AnyVisible(viewers, run)
<1>1. \A v \in Viewers : /\ Keeps(viewers[v], viewers'[v])
                         /\ NowAgrees(viewers[v], page.op, page.status) => NowAgrees(viewers'[v], page.op, page.status)
  BY DEF AllHear, Hears
<1>2. ViewersFit'
  BY <1>1 DEF Keeps, LookInv, ViewersFit
<1>3. AllAgree'
  <2>1. ASSUME NEW v \in Viewers, viewers'[v].run = page.run, viewers'[v].state # "accepted"
        PROVE  NowAgrees(viewers'[v], page.op, page.status)
    <3>1. CASE viewers'[v].state = "on"
      <4>1. viewers[v].run = page.run /\ viewers[v].state = "on"
        BY <1>1, <2>1, <3>1 DEF Keeps
      <4>. QED
        BY <1>1, <4>1 DEF LookInv, AllAgree
    <3>2. CASE viewers'[v].state # "on"
      BY <3>2 DEF NowAgrees
    <3>. QED
      BY <3>1, <3>2
  <2>. QED
    BY <2>1 DEF AllAgree
<1>5. \A run : AnyVisible(viewers', run) = AnyVisible(viewers, run)
  BY VisibleHeard
<1>. QED
  BY <1>2, <1>3, <1>5

\* The worker is told nothing about who looks, and nobody changes it.
LEMMA WorkerKeeps ==
  ASSUME LookInv, page'.run = page.run, worker'.visible = worker.visible,
         \A run : AnyVisible(viewers', run) = AnyVisible(viewers, run),
         command' = command \/ (command.type # "visibility" /\ command'.type # "visibility")
  PROVE  WorkerLooks'
BY DEF LookInv, WorkerLooks

-----------------------------------------------------------------------------
(* What the viewers see: the steps                                         *)

\* A step in which the viewers only hear, and the page stays.
LEMMA HeardLooks ==
  ASSUME LookInv, AllHear(viewers, viewers'), UNCHANGED <<page, runs, worker>>, RestTyped',
         command' = command \/ (command.type # "visibility" /\ command'.type # "visibility")
  PROVE  LookInv'
<1>1. /\ ViewersFit' /\ AllAgree'
      /\ \A run : AnyVisible(viewers', run) = AnyVisible(viewers, run)
  BY HeardKeeps
<1>2. WorkerLooks'
  BY <1>1, WorkerKeeps
<1>3. PageBounded' /\ FrameOfThePage'
  BY DEF LookInv, PageBounded, FrameOfThePage
<1>. QED
  BY <1>1, <1>2, <1>3 DEF LookInv

\* The state of a new operation, or a new status, reaches everybody who looks.
LEMMA ToldLooks ==
  ASSUME BrowserBounds, BrowserInv, LookInv, page' \in Page, page'.run = page.run,
         page'.op <= MaxOperations, page'.opened <= MaxOperations, page'.frame <= MaxOperations, page'.frame = 0 \/ FrameOfThePage',
         viewers' = Broadcast(page', StateEvent(page')), UNCHANGED <<runs, worker, primary, down, toggles>>,
         command' = command \/ (command.type # "visibility" /\ command'.type # "visibility")
  PROVE  LookInv'
<1>1. PICK p, item : p = page' /\ item = StateEvent(page')
  OBVIOUS
<1>2. /\ p.run = page.run /\ item \in Item /\ item.type = "state" /\ Matches(item, p.op, p.status)
      /\ DOMAIN viewers' = Viewers
      /\ \A v \in Viewers : viewers'[v] = IF InMap(v) /\ viewers[v].run = page.run
                                          THEN Put(viewers[v], item) ELSE viewers[v]
  <2>1. item \in Item /\ item.type = "state" /\ Matches(item, p.op, p.status)
    BY <1>1, EventsOfThePage
  <2>2. viewers' = Broadcast(p, item)
    BY <1>1
  <2>. QED
    BY <1>1, <2>1, <2>2 DEF Broadcast
<1>3. ASSUME NEW v \in Viewers
      PROVE  /\ Keeps(viewers[v], viewers'[v])
             /\ viewers[v].run = page.run /\ InMap(v) => NowAgrees(viewers'[v], p.op, p.status)
  <2>1. Fits(viewers[v])
    BY DEF LookInv, ViewersFit
  <2>2. CASE InMap(v) /\ viewers[v].run = page.run
    <3>1. viewers[v].state \in {"on", "done"}
      BY <2>2 DEF InMap
    <3>2. Keeps(viewers[v], viewers'[v]) /\ NowAgrees(viewers'[v], p.op, p.status)
      BY <1>2, <2>1, <2>2, <3>1, PutIs
    <3>. QED
      BY <3>2
  <2>3. CASE ~(InMap(v) /\ viewers[v].run = page.run)
    BY <1>2, <2>1, <2>3, KeepsItself
  <2>. QED
    BY <2>2, <2>3
<1>4. ViewersFit'
  BY <1>3 DEF Keeps, LookInv, ViewersFit
<1>5. AllAgree'
  <2>1. ASSUME NEW v \in Viewers, viewers'[v].run = page'.run, viewers'[v].state # "accepted"
        PROVE  NowAgrees(viewers'[v], page'.op, page'.status)
    <3>1. CASE viewers'[v].state = "on"
      <4>1. viewers[v].run = page.run /\ viewers[v].state = "on"
        BY <1>3, <2>1, <3>1 DEF Keeps
      <4>. QED
        BY <1>1, <1>3, <4>1 DEF InMap
    <3>2. CASE viewers'[v].state # "on"
      BY <3>2 DEF NowAgrees
    <3>. QED
      BY <3>1, <3>2
  <2>. QED
    BY <2>1 DEF AllAgree
<1>6. \A run : In(viewers', run) = In(viewers, run)
  BY <1>3 DEF In, Keeps
<1>7. \A run : AnyVisible(viewers', run) = AnyVisible(viewers, run)
  <2>1. \A v \in Viewers : viewers'[v].visible = viewers[v].visible
    BY <1>3 DEF Keeps
  <2>2. \A run : In(viewers, run) \subseteq Viewers
    BY DEF In
  <2>. QED
    BY <1>6, <2>1, <2>2 DEF AnyVisible
<1>8. WorkerLooks'
  BY <1>7, WorkerKeeps
<1>9. PageBounded' /\ FrameOfThePage' /\ RestTyped'
  BY DEF LookInv, PageBounded, FrameOfThePage, RestTyped
<1>. QED
  BY <1>4, <1>5, <1>8, <1>9 DEF LookInv

\* Commands that are refused, or carried out.
LEMMA RequestLooks ==
  ASSUME BrowserBounds, BrowserInv, LookInv, NEW v \in Viewers, NEW names \in BOOLEAN,
         Navigate(v, names) \/ ClosePage(v, names) \/ PageCommand(v, names)
  PROVE  LookInv'
<1>1. /\ Current(v) /\ InMap(v) /\ command = NoCommand /\ command.type = "none"
      /\ UNCHANGED <<runs, primary, worker, down, toggles>>
  BY CurrentInMap DEF Navigate, ClosePage, PageCommand, NoCommand
<1>2. AllFit(viewers) /\ viewers[v].state \in {"on", "done"} /\ Fits(viewers[v]) /\ RestTyped'
  BY <1>1, LooksUnchanged DEF InMap, AllFit, LookInv, RestTyped
<1>3. CASE Refuse(v) \/ RefuseClosing(v)
  <2>1. PICK y : /\ viewers' = [viewers EXCEPT ![v] = y]
                 /\ y = Put(viewers[v], Other) \/ y = Put(Put(viewers[v], Other), StateEvent(page))
    BY <1>3 DEF Refuse, RefuseClosing
  <2>2. Hears(viewers[v], y, page.op, page.status)
    <3>1. Says(StateEvent(page), page.op, page.status) /\ Says(Other, page.op, page.status)
      BY LooksUnchanged
    <3>2. Hears(viewers[v], Put(viewers[v], Other), page.op, page.status)
      BY <1>2, <3>1, PutHears
    <3>3. Hears(viewers[v], Put(Put(viewers[v], Other), StateEvent(page)), page.op, page.status)
      BY <1>2, <3>1, PutTwiceHears
    <3>. QED
      BY <2>1, <3>2, <3>3
  <2>3. AllHear(viewers, viewers')
    BY <1>2, <2>1, <2>2, OneHears
  <2>4. UNCHANGED <<page, command>>
    BY <1>3 DEF Refuse, RefuseClosing
  <2>. QED
    BY <1>1, <1>2, <2>3, <2>4, HeardLooks
<1>4. CASE PageCommand(v, names) /\ ~Refuse(v)
  <2>1. UNCHANGED <<page, viewers>> /\ command' = [NoCommand EXCEPT !.viewer = v, !.type = "input", !.op = page.op]
    BY <1>4 DEF PageCommand
  <2>2. command'.type = "input"
    BY <2>1 DEF NoCommand
  <2>3. AllHear(viewers, viewers')
    BY <1>2, <2>1, HearsNothing DEF AllHear, AllFit
  <2>. QED
    BY <1>1, <1>2, <2>1, <2>2, <2>3, HeardLooks
<1>5. CASE (Navigate(v, names) \/ ClosePage(v, names)) /\ ~(Refuse(v) \/ RefuseClosing(v))
  <2>0. page \in Page /\ MaxOperations \in Nat /\ page.op \in Nat /\ page.opened \in Nat /\ page.opened <= MaxOperations
    BY LooksUnchanged DEF BrowserBounds, Page, LookInv, PageBounded
  <2>1. PICK status \in {"open", "closing"}, type \in {"open", "close"}, opened \in {page.opened, page.op + 1} :
           /\ page.op < MaxOperations
           /\ page' = [page EXCEPT !.op = page.op + 1, !.status = status, !.frame = 0, !.opened = opened]
           /\ viewers' = Broadcast(page', StateEvent(page'))
           /\ command' = [NoCommand EXCEPT !.viewer = v, !.type = type, !.op = page'.op]
    <3>1. CASE Navigate(v, names)
      <4>1. PICK opened \in {page.opened, page.op + 1} :
              /\ page.op < MaxOperations
              /\ page' = [page EXCEPT !.op = page.op + 1, !.status = "open", !.frame = 0, !.opened = opened]
              /\ viewers' = Broadcast(page', StateEvent(page'))
              /\ command' = [NoCommand EXCEPT !.viewer = v, !.type = "open", !.op = page'.op]
        BY <1>5, <3>1 DEF Navigate
      <4>. QED
        BY <4>1
    <3>2. CASE ClosePage(v, names)
      <4>1. /\ page.op < MaxOperations
            /\ page' = [page EXCEPT !.op = page.op + 1, !.status = "closing", !.frame = 0]
            /\ viewers' = Broadcast(page', StateEvent(page'))
            /\ command' = [NoCommand EXCEPT !.viewer = v, !.type = "close", !.op = page'.op]
        BY <1>5, <3>2 DEF ClosePage
      <4>2. page' = [page EXCEPT !.op = page.op + 1, !.status = "closing", !.frame = 0, !.opened = page.opened]
        BY <2>0, <4>1 DEF Page
      <4>. QED
        BY <4>1, <4>2
    <3>. QED
      BY <1>5, <3>1, <3>2
  <2>2. /\ page.op + 1 \in Nat /\ page.op + 1 <= MaxOperations
        /\ opened \in Nat /\ opened <= MaxOperations
    BY <2>0, <2>1
  <2>3. page' \in Page /\ page'.run = page.run /\ page'.op <= MaxOperations /\ page'.opened <= MaxOperations
        /\ page'.frame = 0
    <3>1. PICK op \in Nat :
            /\ op <= MaxOperations
            /\ page' = [page EXCEPT !.op = op, !.status = status, !.frame = 0, !.opened = opened]
      BY <2>1, <2>2
    <3>. QED
      BY <2>0, <2>2, <3>1 DEF Page, Statuses
  <2>4. command'.type # "visibility"
    BY <2>1 DEF NoCommand
  <2>. QED
    BY <1>1, <2>0, <2>1, <2>3, <2>4, ToldLooks
<1>. QED
  BY <1>3, <1>4, <1>5

\* The commands that ask for no result.
LEMMA TellLooks ==
  ASSUME BrowserBounds, BrowserInv, LookInv, NEW v \in Viewers,
         Sync(v) \/ ResizeRefused(v) \/ Configure(v) \/ \E b \in BOOLEAN : Resize(v, b)
  PROVE  LookInv'
<1>1. UNCHANGED <<runs, page, worker, down>> /\ Current(v) /\ InMap(v)
  BY CurrentInMap DEF Sync, ResizeRefused, Configure, Resize
<1>2. AllFit(viewers) /\ viewers[v].state \in {"on", "done"} /\ Fits(viewers[v])
  BY <1>1, LooksUnchanged DEF InMap, AllFit
<1>3. /\ Says(StateEvent(page), page.op, page.status) /\ Says(Other, page.op, page.status)
      /\ page.frame # 0 => Says(FrameEvent(page), page.op, page.status)
  BY LooksUnchanged
<1>4. RestTyped'
  <2>1. viewers[v].client \in Clients \union {NoClient}
    BY <1>2 DEF Fits, ViewerRecord
  <2>2. primary' \in {primary, viewers[v].client}
    BY DEF Sync, ResizeRefused, Configure, Resize
  <2>3. toggles' \in 0..MaxToggles
    <3>1. toggles \in 0..MaxToggles /\ MaxToggles \in Nat
      BY DEF LookInv, RestTyped, BrowserBounds
    <3>2. toggles' = toggles \/ (toggles < MaxToggles /\ toggles' = toggles + 1)
      BY DEF Sync, ResizeRefused, Configure, Resize
    <3>. QED
      BY <3>1, <3>2
  <2>. QED
    BY <1>1, <2>1, <2>2, <2>3 DEF LookInv, RestTyped
<1>5. command' = command \/ (command.type # "visibility" /\ command'.type # "visibility")
  <2>1. CASE Sync(v)
    <3>1. command.type # "visibility"
      BY <2>1 DEF Sync, NoCommand
    <3>2. \/ command' = [NoCommand EXCEPT !.viewer = v, !.type = "sync", !.op = page.op]
          \/ command' = NoCommand
      BY <2>1 DEF Sync
    <3>3. /\ [NoCommand EXCEPT !.viewer = v, !.type = "sync", !.op = page.op].type = "sync"
          /\ NoCommand.type = "none"
      BY DEF NoCommand
    <3>. QED
      BY <3>1, <3>2, <3>3
  <2>2. CASE ~Sync(v)
    BY <2>2 DEF ResizeRefused, Configure, Resize
  <2>. QED
    BY <2>1, <2>2
<1>6. AllHear(viewers, viewers')
  <2>1. CASE ResizeRefused(v)
    <3>1. PICK y : viewers' = [viewers EXCEPT ![v] = y] /\ y = Put(viewers[v], Other)
      BY <2>1 DEF ResizeRefused
    <3>2. Hears(viewers[v], y, page.op, page.status)
      BY <1>2, <1>3, <3>1, PutHears
    <3>. QED
      BY <1>2, <3>1, <3>2, OneHears
  <2>2. CASE Sync(v)
    <3>1. PICK y : /\ viewers' = [viewers EXCEPT ![v] = y]
                   /\ \/ y = Put(viewers[v], StateEvent(page))
                      \/ page.frame # 0 /\ y = Put(Put(viewers[v], StateEvent(page)), FrameEvent(page))
      BY <2>2 DEF Sync
    <3>2. Hears(viewers[v], Put(viewers[v], StateEvent(page)), page.op, page.status)
      BY <1>2, <1>3, PutHears
    <3>3. page.frame # 0
          => Hears(viewers[v], Put(Put(viewers[v], StateEvent(page)), FrameEvent(page)), page.op, page.status)
      BY <1>2, <1>3, PutTwiceHears
    <3>4. Hears(viewers[v], y, page.op, page.status)
      BY <3>1, <3>2, <3>3
    <3>. QED
      BY <1>2, <3>1, <3>4, OneHears
  <2>3. ASSUME NEW told, told = viewers \/ told = ToAll(viewers, Other)
        PROVE  AllHear(viewers, told) /\ AllFit(told)
    <3>1. AllHear(viewers, viewers)
      BY <1>2, HearsNothing DEF AllHear, AllFit
    <3>2. AllHear(viewers, ToAll(viewers, Other)) /\ AllFit(ToAll(viewers, Other))
      BY <1>2, <1>3, ToAllHear
    <3>. QED
      BY <1>2, <2>3, <3>1, <3>2
  <2>4. ASSUME NEW b \in BOOLEAN, Resize(v, b) PROVE AllHear(viewers, viewers')
    <3>1. PICK told : /\ told = viewers \/ told = ToAll(viewers, Other)
                      /\ viewers' = [told EXCEPT ![v] = Put(@, Other)]
      BY <2>4 DEF Resize
    <3>2. AllHear(viewers, told) /\ AllFit(told)
      BY <2>3, <3>1
    <3>3. Fits(told[v]) /\ told[v].state \in {"on", "done"}
      BY <1>2, <3>2 DEF AllHear, AllFit, Hears, Keeps
    <3>4. PICK y : y = Put(told[v], Other)
      OBVIOUS
    <3>5. Hears(told[v], y, page.op, page.status)
      BY <1>3, <3>3, <3>4, PutHears
    <3>6. viewers' = [told EXCEPT ![v] = y]
      BY <3>1, <3>4
    <3>7. AllHear(told, viewers')
      BY <3>2, <3>5, <3>6, OneHears
    <3>. QED
      BY <3>2, <3>7, ThenHear
  <2>5. CASE Configure(v)
    <3>1. PICK told : /\ told = viewers \/ told = ToAll(viewers, Other)
                      /\ viewers' = ToAll(told, StateEvent(page))
      BY <2>5 DEF Configure, ToAll
    <3>2. AllHear(viewers, told) /\ AllFit(told)
      BY <2>3, <3>1
    <3>3. AllHear(told, viewers')
      BY <1>3, <3>1, <3>2, ToAllHear
    <3>. QED
      BY <3>2, <3>3, ThenHear
  <2>. QED
    BY <2>1, <2>2, <2>4, <2>5
<1>. QED
  BY <1>1, <1>4, <1>5, <1>6, HeardLooks

\* What is delivered has been seen.
LEMMA DeliverLooks ==
  ASSUME BrowserBounds, BrowserInv, LookInv, NEW v \in Viewers, Deliver(v)
  PROVE  LookInv'
<1>1. UNCHANGED <<runs, page, primary, command, worker, down, toggles>>
  BY DEF Deliver
<1>2. AllFit(viewers) /\ Fits(viewers[v]) /\ page \in Page
  BY LooksUnchanged DEF AllFit
<1>3. PICK x : x = viewers[v]
  OBVIOUS
<1>4. PICK q, seen : /\ q = Tail(x.queue)
                     /\ seen = IF Head(x.queue).type = "other" THEN x.seen
                               ELSE [op |-> Head(x.queue).op, status |-> Head(x.queue).status]
  OBVIOUS
<1>5. x.state = "on" /\ x.queue # <<>> /\ viewers' = [viewers EXCEPT ![v] = [x EXCEPT !.queue = q, !.seen = seen]]
  <2>1. x.state = "on" /\ x.queue # <<>>
    BY <1>3 DEF Deliver
  <2>2. viewers' = [viewers EXCEPT ![v].queue = q, ![v].seen = seen]
    BY <1>3, <1>4 DEF Deliver
  <2>. QED
    BY <1>3, <1>4, <2>1, <2>2
<1>6. x \in ViewerRecord /\ Len(x.queue) <= QueueLimit /\ QueueLimit \in Nat /\ x.queue \in Seq(Item)
      /\ x.seen \in [op : 0..MaxOperations, status : Statuses]
  BY <1>2, <1>3 DEF Fits, ViewerRecord, BrowserBounds
<1>7. q \in Seq(Item) /\ Len(q) <= QueueLimit
  <2>1. PICK r : r = x.queue
    OBVIOUS
  <2>2. r \in Seq(Item) /\ r # <<>> /\ Len(r) \in Nat
    BY <1>5, <1>6, <2>1
  <2>3. Tail(r) \in Seq(Item) /\ Len(Tail(r)) = Len(r) - 1
    BY <2>2
  <2>. QED
    BY <1>4, <1>6, <2>1, <2>2, <2>3
<1>8. seen \in [op : 0..MaxOperations, status : Statuses]
  <2>1. Head(x.queue) \in Item
    BY <1>5, <1>6
  <2>2. PICK item \in Item : item = Head(x.queue)
    BY <2>1
  <2>3. [op |-> item.op, status |-> item.status] \in [op : 0..MaxOperations, status : Statuses]
    BY DEF Item
  <2>. QED
    BY <1>4, <1>6, <2>2, <2>3
<1>9. PICK y : y = [x EXCEPT !.queue = q, !.seen = seen]
  OBVIOUS
<1>10. /\ y \in ViewerRecord /\ y.queue = q /\ y.seen = seen /\ y.state = x.state /\ y.run = x.run
       /\ y.client = x.client /\ y.visible = x.visible
  BY <1>6, <1>7, <1>8, <1>9 DEF ViewerRecord
<1>11. Keeps(x, y)
  BY <1>7, <1>10 DEF Keeps, Fits
<1>12. NowAgrees(x, page.op, page.status) => NowAgrees(y, page.op, page.status)
  <2>1. ASSUME Agrees(x.queue, x.seen, page.op, page.status) PROVE Agrees(q, seen, page.op, page.status)
    <3>1. PICK r, s, op, status : r = x.queue /\ s = x.seen /\ op = page.op /\ status = page.status
      OBVIOUS
    <3>2. r \in Seq(Item) /\ r # <<>> /\ Agrees(r, s, op, status)
      BY <1>5, <1>6, <2>1, <3>1
    <3>3. seen = (IF Head(r).type = "other" THEN s ELSE [op |-> Head(r).op, status |-> Head(r).status])
      BY <1>4, <3>1
    <3>4. Agrees(Tail(r), seen, op, status)
      BY <3>2, <3>3, DeliverAgrees
    <3>. QED
      BY <1>4, <3>1, <3>4
  <2>. QED
    BY <1>5, <1>10, <2>1 DEF NowAgrees
<1>13. Hears(viewers[v], y, page.op, page.status)
  BY <1>3, <1>11, <1>12 DEF Hears
<1>14. AllHear(viewers, viewers')
  BY <1>2, <1>5, <1>9, <1>13, OneHears
<1>15. RestTyped'
  BY <1>1 DEF LookInv, RestTyped
<1>. QED
  BY <1>1, <1>14, <1>15, HeardLooks

\* A result, and the state after a failure.
LEMMA ResultLooks ==
  ASSUME BrowserBounds, BrowserInv, LookInv, NEW r \in Requests, Result(r)
  PROVE  LookInv'
<1>1. UNCHANGED <<runs, page, primary, command, worker, down, toggles>>
  BY DEF Result
<1>2. AllFit(viewers)
  BY LooksUnchanged
<1>3. asked[r] \in Viewers
  BY DEF Result, BrowserInv, PendingExact, BrowserTyped
<1>4. PICK v \in Viewers : v = asked[r]
  BY <1>3
<1>5. AllHear(viewers, viewers')
  <2>1. CASE viewers' = viewers
    BY <1>2, <2>1, HearsNothing DEF AllHear, AllFit
  <2>2. CASE viewers' # viewers
    <3>1. /\ Current(v)
          /\ \/ viewers' = [viewers EXCEPT ![v] = Put(@, Other)]
             \/ viewers' = [viewers EXCEPT ![v] = Put(Put(@, Other), StateEvent(page))]
      BY <1>4, <2>2 DEF Result
    <3>2. Fits(viewers[v]) /\ viewers[v].state \in {"on", "done"}
      BY <1>2, <3>1, CurrentInMap DEF AllFit, InMap
    <3>3. Says(StateEvent(page), page.op, page.status) /\ Says(Other, page.op, page.status)
      BY LooksUnchanged
    <3>4. PICK y : /\ viewers' = [viewers EXCEPT ![v] = y]
                   /\ y = Put(viewers[v], Other) \/ y = Put(Put(viewers[v], Other), StateEvent(page))
      BY <3>1
    <3>5. Hears(viewers[v], y, page.op, page.status)
      BY <3>2, <3>3, <3>4, PutHears, PutTwiceHears
    <3>. QED
      BY <1>2, <3>4, <3>5, OneHears
  <2>. QED
    BY <2>1, <2>2
<1>6. RestTyped'
  BY <1>1 DEF LookInv, RestTyped
<1>. QED
  BY <1>1, <1>5, <1>6, HeardLooks

\* The same viewers look.
LEMMA SameLook ==
  ASSUME NEW vs, NEW ws,
         \A w \in Viewers : \/ ws[w] = vs[w]
                            \/ /\ vs[w].state \notin {"on", "done"} \/ ~vs[w].visible
                               /\ ws[w].state \notin {"on", "done"} \/ ~ws[w].visible
  PROVE  \A run : AnyVisible(ws, run) = AnyVisible(vs, run)
BY DEF AnyVisible, In

\* The worker is told when the first one looks, or the last one looks away.
LEMMA VisibleLooks ==
  ASSUME BrowserBounds, BrowserInv, LookInv, NEW v \in Viewers, NEW b \in BOOLEAN, SetVisible(v, b)
  PROVE  LookInv'
<1>1. /\ UNCHANGED <<runs, page, worker, primary, down>> /\ Current(v) /\ InMap(v) /\ command = NoCommand
      /\ toggles < MaxToggles /\ toggles' = toggles + 1
      /\ viewers' = [viewers EXCEPT ![v].visible = b]
  BY CurrentInMap DEF SetVisible
<1>2. PICK x, y : x = viewers[v] /\ y = [x EXCEPT !.visible = b]
  OBVIOUS
<1>3. DOMAIN viewers = Viewers /\ viewers' = [viewers EXCEPT ![v] = y] /\ Fits(x) /\ x.state \in {"on", "done"}
  BY <1>1, <1>2 DEF BrowserInv, BrowserTyped, LookInv, ViewersFit, InMap
<1>4. Fits(y) /\ y.state = x.state /\ y.run = x.run /\ y.queue = x.queue /\ y.seen = x.seen /\ y.visible = b
  BY <1>2, <1>3 DEF Fits, ViewerRecord
<1>5. \A w \in Viewers : viewers'[w] = IF w = v THEN y ELSE viewers[w]
  BY <1>3
<1>6. ViewersFit'
  BY <1>1, <1>2, <1>3, <1>4, <1>5 DEF LookInv, ViewersFit
<1>7. AllAgree'
  BY <1>1, <1>2, <1>3, <1>4, <1>5 DEF LookInv, AllAgree, NowAgrees
<1>8. WorkerLooks'
  <2>1. worker.visible = AnyVisible(viewers, page.run) /\ page.run # 0
    BY <1>1, CurrentInMap DEF LookInv, WorkerLooks, NoCommand
  <2>2. PICK was, is : was = AnyVisible(viewers, page.run) /\ is = AnyVisible(viewers', page.run)
    OBVIOUS
  <2>3. was \in BOOLEAN /\ is \in BOOLEAN
    BY <2>2 DEF AnyVisible
  <2>4. was # is => is = b
    <3>1. CASE b
      <4>1. v \in In(viewers', page.run) /\ viewers'[v].visible
        BY <1>1, <1>2, <1>3, <1>4, <1>5, <3>1 DEF Current, In
      <4>. QED
        BY <2>2, <2>3, <3>1, <4>1 DEF AnyVisible
    <3>2. CASE ~b
      <4>1. ASSUME is PROVE was
        <5>1. PICK w \in In(viewers', page.run) : viewers'[w].visible
          BY <2>2, <4>1 DEF AnyVisible
        <5>2. w \in Viewers /\ w # v /\ viewers'[w] = viewers[w]
          BY <1>4, <1>5, <3>2, <5>1 DEF In
        <5>3. w \in In(viewers, page.run) /\ viewers[w].visible
          BY <5>1, <5>2 DEF In
        <5>. QED
          BY <2>2, <5>3 DEF AnyVisible
      <4>. QED
        BY <2>3, <3>2, <4>1
    <3>. QED
      BY <3>1, <3>2
  <2>5. \/ was # is /\ command' = [NoCommand EXCEPT !.viewer = v, !.type = "visibility", !.visible = b]
        \/ was = is /\ (command' = [NoCommand EXCEPT !.viewer = v, !.type = "looks"] \/ command' = NoCommand)
    BY <1>1, <2>2 DEF SetVisible
  <2>6. /\ [NoCommand EXCEPT !.viewer = v, !.type = "visibility", !.visible = b].type = "visibility"
        /\ [NoCommand EXCEPT !.viewer = v, !.type = "visibility", !.visible = b].visible = b
        /\ [NoCommand EXCEPT !.viewer = v, !.type = "looks"].type = "looks" /\ NoCommand.type = "none"
    BY DEF NoCommand
  <2>7. CASE was # is
    <3>1. command'.type = "visibility" /\ command'.visible = is
      BY <2>4, <2>5, <2>6, <2>7
    <3>. QED
      BY <1>1, <2>2, <3>1 DEF WorkerLooks
  <2>8. CASE was = is
    <3>1. command'.type # "visibility" /\ worker'.visible = is
      BY <1>1, <2>1, <2>2, <2>5, <2>6, <2>8
    <3>. QED
      BY <1>1, <2>2, <3>1 DEF WorkerLooks
  <2>. QED
    BY <2>7, <2>8
<1>9. RestTyped'
  <2>1. toggles \in 0..MaxToggles /\ MaxToggles \in Nat
    BY DEF LookInv, RestTyped, BrowserBounds
  <2>2. toggles' \in 0..MaxToggles
    BY <1>1, <2>1
  <2>. QED
    BY <1>1, <2>2 DEF LookInv, RestTyped
<1>10. PageBounded' /\ FrameOfThePage'
  BY <1>1 DEF LookInv, PageBounded, FrameOfThePage
<1>. QED
  BY <1>6, <1>7, <1>8, <1>9, <1>10 DEF LookInv

\* What the worker says, and what it is told.
LEMMA FrameLooks ==
  ASSUME BrowserBounds, BrowserInv, LookInv, NEW op \in 1..MaxOperations, Frame(op)
  PROVE  LookInv'
<1>1. /\ op = page.op /\ page' = [page EXCEPT !.frame = op] /\ viewers' = BroadcastFrame(page')
      /\ UNCHANGED <<runs, primary, command, worker, down, toggles>>
  BY DEF Frame, Accepted
<1>2. page \in Page /\ AllFit(viewers) /\ op \in Nat /\ op <= MaxOperations
  BY LooksUnchanged DEF BrowserBounds
<1>3. PICK p : p = page'
  OBVIOUS
<1>4. p \in Page /\ p.run = page.run /\ p.op = page.op /\ p.status = page.status /\ p.frame = page.op
      /\ p.opened = page.opened
  BY <1>1, <1>2, <1>3 DEF Page
<1>5. Says(FrameEvent(p), page.op, page.status)
  <2>1. p.op <= MaxOperations /\ p.frame <= MaxOperations /\ p.frame = p.op
    BY <1>1, <1>2, <1>4
  <2>2. Says(FrameEvent(p), p.op, p.status)
    BY <1>4, <2>1, EventsOfThePage
  <2>. QED
    BY <1>4, <2>2
<1>6. AllHear(viewers, viewers')
  <2>1. ASSUME NEW v \in Viewers PROVE Hears(viewers[v], viewers'[v], page.op, page.status)
    <3>1. viewers'[v] = (IF InMap(v) /\ viewers[v].run = p.run /\ viewers[v].visible
                         THEN Put(viewers[v], FrameEvent(p)) ELSE viewers[v])
      BY <1>1, <1>3 DEF BroadcastFrame
    <3>2. Fits(viewers[v])
      BY <1>2 DEF AllFit
    <3>3. InMap(v) => Hears(viewers[v], Put(viewers[v], FrameEvent(p)), page.op, page.status)
      BY <1>5, <3>2, PutHears DEF InMap
    <3>4. Hears(viewers[v], viewers[v], page.op, page.status)
      BY <3>2, HearsNothing
    <3>. QED
      BY <3>1, <3>3, <3>4
  <2>. QED
    BY <2>1 DEF AllHear
<1>7. ViewersFit' /\ AllAgree' /\ \A run : AnyVisible(viewers', run) = AnyVisible(viewers, run)
  BY <1>1, <1>3, <1>4, <1>6, HeardKeeps
<1>8. WorkerLooks'
  BY <1>1, <1>3, <1>4, <1>7, WorkerKeeps
<1>9. PageBounded' /\ FrameOfThePage'
  <2>1. runs' = runs /\ page' = p
    BY <1>1, <1>3
  <2>. QED
    BY <1>1, <1>2, <1>4, <2>1 DEF LookInv, PageBounded, FrameOfThePage
<1>10. RestTyped'
  BY <1>1 DEF LookInv, RestTyped
<1>. QED
  BY <1>7, <1>8, <1>9, <1>10 DEF LookInv

LEMMA PageLooks ==
  ASSUME BrowserBounds, BrowserInv, LookInv, NEW op \in 0..MaxOperations, NEW status \in Statuses, PageEvent(op, status)
  PROVE  LookInv'
<1>1. /\ viewers' = Broadcast(page', StateEvent(page')) /\ UNCHANGED <<runs, primary, command, worker, down, toggles>>
      /\ page' = [page EXCEPT !.status = status, !.frame = IF status = "closed" THEN 0 ELSE @]
  BY DEF PageEvent
<1>2. PICK frame : frame = IF status = "closed" THEN 0 ELSE page.frame
  OBVIOUS
<1>3. page' = [page EXCEPT !.status = status, !.frame = frame]
  BY <1>1, <1>2
<1>4. page \in Page /\ status \in Statuses /\ page.frame \in Nat /\ frame \in Nat
  BY <1>2, LooksUnchanged DEF Page, Statuses
<1>5. /\ page' \in Page /\ page'.run = page.run /\ page'.op = page.op /\ page'.status = status
      /\ page'.opened = page.opened /\ page'.frame = frame
  BY <1>3, <1>4 DEF Page
<1>6. FrameOfThePage'
  <2>1. frame # 0 => frame = page.frame
    BY <1>2
  <2>. QED
    BY <1>5, <2>1 DEF LookInv, FrameOfThePage
<1>7. page'.op <= MaxOperations /\ page'.opened <= MaxOperations /\ page'.frame <= MaxOperations
  BY <1>2, <1>5 DEF LookInv, PageBounded, BrowserBounds
<1>. QED
  BY <1>1, <1>5, <1>6, <1>7, ToldLooks

LEMMA WriteLooks ==
  ASSUME BrowserBounds, BrowserInv, LookInv, Write
  PROVE  LookInv'
<1>1. /\ UNCHANGED <<runs, page, primary, viewers, down, toggles>>
      /\ \/ worker' = Received(worker, command)
         \/ command.type = "close" /\ worker' = worker
      /\ command.type \in {"open", "close", "sync", "visibility", "input"}
      /\ \/ command' = [command EXCEPT !.type = "looks", !.visible = FALSE] \/ command' = NoCommand
  BY DEF Write, HasNoPage
<1>2. command'.type # "visibility"
  <2>1. NoCommand.type = "none"
    BY DEF NoCommand
  <2>2. [command EXCEPT !.type = "looks", !.visible = FALSE].type = "looks"
    BY DEF BrowserInv, BrowserTyped, Command
  <2>. QED
    BY <1>1, <2>1, <2>2
<1>3. worker'.visible = IF command.type = "visibility" THEN command.visible ELSE worker.visible
  <2>1. worker \in Worker
    BY DEF BrowserInv, BrowserTyped
  <2>2. CASE command.type \in {"open", "close", "sync"}
    <3>1. worker' = [worker EXCEPT !.op = command.op] \/ worker' = worker
      BY <1>1, <2>2 DEF Received
    <3>. QED
      BY <2>1, <2>2, <3>1 DEF Worker
  <2>3. CASE command.type = "visibility"
    <3>1. worker' = [worker EXCEPT !.visible = command.visible]
      BY <1>1, <2>3 DEF Received
    <3>. QED
      BY <2>1, <2>3, <3>1 DEF Worker
  <2>4. CASE command.type = "input"
    <3>1. PICK b : worker' = [worker EXCEPT !.misdirected = b]
      BY <1>1, <2>4 DEF Received
    <3>. QED
      BY <2>1, <2>4, <3>1 DEF Worker
  <2>. QED
    BY <1>1, <2>2, <2>3, <2>4
<1>4. WorkerLooks'
  BY <1>1, <1>2, <1>3 DEF LookInv, WorkerLooks
<1>5. ViewersFit' /\ AllAgree' /\ PageBounded' /\ RestTyped' /\ FrameOfThePage'
  BY <1>1 DEF LookInv, ViewersFit, AllAgree, PageBounded, RestTyped, FrameOfThePage
<1>. QED
  BY <1>4, <1>5 DEF LookInv

\* A viewer comes: nobody looks before it is in the map and says so.
LEMMA OffFits == ASSUME BrowserBounds PROVE Fits(Off) /\ Off.state = "off" /\ ~Off.visible
<1>1. <<>> \in Seq(Item) /\ Len(<<>>) = 0
  OBVIOUS
<1>2. 0 \in 0..MaxRuns /\ 0 \in 0..MaxOperations /\ 0 <= QueueLimit
  BY DEF BrowserBounds
<1>. QED
  BY <1>1, <1>2 DEF Off, Fits, ViewerRecord, Statuses

LEMMA AcceptLooks ==
  ASSUME BrowserBounds, BrowserInv, LookInv, NEW v \in Viewers, NEW client \in Clients, Accept(v, client)
  PROVE  LookInv'
<1>1. /\ viewers[v].state = "off" /\ UNCHANGED <<command, down, toggles>>
      /\ viewers' = [viewers EXCEPT ![v] = [Off EXCEPT !.state = "accepted", !.run = page'.run,
                                                       !.client = client]]
  BY DEF Accept
<1>2. PICK y : y = [Off EXCEPT !.state = "accepted", !.run = page'.run, !.client = client]
  OBVIOUS
<1>3. /\ runs \in Nat /\ MaxRuns \in Nat /\ runs <= MaxRuns /\ page \in Page /\ page.run \in Nat /\ page.run <= runs
      /\ DOMAIN viewers = Viewers
  BY DEF BrowserInv, BrowserTyped, LookInv, PageBounded, BrowserBounds, Page
<1>4. /\ page'.run \in 1..runs' /\ runs <= runs' /\ runs' \in 0..MaxRuns
      /\ \/ page.run = 0 /\ runs' = runs + 1 /\ page' = [NoPage EXCEPT !.run = runs + 1] /\ primary' = Unknown
            /\ worker' = NoWorker /\ page'.run = runs + 1
         \/ page.run # 0 /\ UNCHANGED <<runs, page, primary, worker>>
  <2>1. CASE page.run = 0
    <3>1. /\ runs' = runs + 1 /\ page' = [NoPage EXCEPT !.run = runs + 1] /\ primary' = Unknown
          /\ worker' = NoWorker /\ runs + 1 <= MaxRuns
      BY <2>1 DEF Accept
    <3>2. page'.run = runs + 1
      BY <3>1 DEF NoPage
    <3>. QED
      BY <1>3, <2>1, <3>1, <3>2
  <2>2. CASE page.run # 0
    <3>1. UNCHANGED <<runs, page, primary, worker>>
      BY <2>2 DEF Accept
    <3>. QED
      BY <1>3, <2>2, <3>1
  <2>. QED
    BY <2>1, <2>2
<1>5. Fits(y) /\ y.state = "accepted" /\ y.run = page'.run /\ ~y.visible
  <2>1. PICK run \in 0..MaxRuns : run = page'.run
    BY <1>3, <1>4
  <2>2. y = [Off EXCEPT !.state = "accepted", !.run = run, !.client = client]
    BY <1>2, <2>1
  <2>3. Off \in ViewerRecord /\ Len(Off.queue) <= QueueLimit /\ ~Off.visible
    BY OffFits DEF Fits
  <2>4. y \in ViewerRecord /\ y.queue = Off.queue /\ y.visible = Off.visible /\ y.run = run /\ y.state = "accepted"
    BY <2>2, <2>3 DEF ViewerRecord
  <2>. QED
    BY <2>1, <2>3, <2>4 DEF Fits
<1>6. \A w \in Viewers : viewers'[w] = IF w = v THEN y ELSE viewers[w]
  BY <1>1, <1>2, <1>3
<1>7. ViewersFit'
  <2>1. ASSUME NEW w \in Viewers, w # v, viewers[w].state # "off" PROVE viewers[w].run \in 1..runs'
    <3>1. viewers[w].run \in 1..runs
      BY <2>1 DEF LookInv, ViewersFit
    <3>. QED
      BY <1>3, <1>4, <3>1
  <2>. QED
    BY <1>4, <1>5, <1>6, <2>1 DEF LookInv, ViewersFit
<1>8. CASE page.run = 0
  <2>1. /\ runs' = runs + 1 /\ page' = [NoPage EXCEPT !.run = runs + 1] /\ primary' = Unknown
        /\ worker' = NoWorker /\ page'.run = runs + 1
    BY <1>4, <1>8
  <2>2. page'.op = 0 /\ page'.opened = 0 /\ page'.frame = 0 /\ worker'.visible = FALSE
    BY <2>1 DEF NoPage, NoWorker
  <2>3. ASSUME NEW w \in Viewers, viewers'[w].run = page'.run PROVE viewers'[w].state \in {"off", "accepted"}
    <3>1. CASE w = v
      BY <1>5, <1>6, <3>1
    <3>2. CASE w # v
      <4>1. viewers[w].state # "off" => viewers[w].run \in 1..runs
        BY DEF LookInv, ViewersFit
      <4>2. viewers[w].state # "off" => viewers[w].run # runs + 1
        BY <1>3, <4>1
      <4>. QED
        BY <1>6, <2>1, <2>3, <3>2, <4>2
    <3>. QED
      BY <3>1, <3>2
  <2>4. AllAgree'
    BY <2>3 DEF AllAgree, NowAgrees
  <2>5. AnyVisible(viewers', page'.run) = FALSE
    <3>1. ~AnyVisible(viewers', page'.run)
      BY <2>3 DEF AnyVisible, In
    <3>. QED
      BY <3>1 DEF AnyVisible
  <2>6. command'.type # "visibility"
    BY <1>1, <1>8 DEF BrowserInv, WorkerFollows
  <2>7. WorkerLooks'
    BY <2>2, <2>5, <2>6 DEF WorkerLooks
  <2>8. PageBounded' /\ FrameOfThePage'
    BY <1>3, <1>4, <2>1, <2>2 DEF PageBounded, FrameOfThePage, BrowserBounds
  <2>9. RestTyped'
    BY <1>1, <2>1 DEF LookInv, RestTyped
  <2>. QED
    BY <1>7, <2>4, <2>7, <2>8, <2>9 DEF LookInv
<1>9. CASE page.run # 0
  <2>1. UNCHANGED <<runs, page, primary, worker>>
    BY <1>4, <1>9
  <2>2. AllAgree'
    BY <1>5, <1>6, <2>1 DEF LookInv, AllAgree
  <2>3. \A run : AnyVisible(viewers', run) = AnyVisible(viewers, run)
    <3>1. \A w \in Viewers : w # v => viewers'[w] = viewers[w]
      BY <1>6
    <3>2. viewers[v].state \notin {"on", "done"} /\ viewers'[v].state \notin {"on", "done"}
      BY <1>1, <1>5, <1>6
    <3>. QED
      BY <3>1, <3>2, SameLook
  <2>4. WorkerLooks'
    BY <1>1, <2>1, <2>3, WorkerKeeps
  <2>5. PageBounded' /\ FrameOfThePage' /\ RestTyped'
    BY <1>1, <2>1 DEF LookInv, PageBounded, FrameOfThePage, RestTyped
  <2>. QED
    BY <1>7, <2>2, <2>4, <2>5 DEF LookInv
<1>. QED
  BY <1>8, <1>9

\* The page's state comes first, then its frame.
LEMMA AddLooks ==
  ASSUME BrowserBounds, BrowserInv, LookInv, NEW v \in Viewers, AddViewer(v)
  PROVE  LookInv'
<1>1. viewers[v].state = "accepted" /\ UNCHANGED <<runs, page, primary, command, worker, down, toggles>>
  BY DEF AddViewer
<1>2. /\ Fits(viewers[v]) /\ ~viewers[v].visible /\ viewers[v].run \in 1..runs /\ DOMAIN viewers = Viewers
      /\ page \in Page
  BY <1>1 DEF LookInv, ViewersFit, BrowserInv, BrowserTyped
<1>3. PICK x : x = [viewers[v] EXCEPT !.state = "on"]
  OBVIOUS
<1>4. Fits(x) /\ x.state = "on" /\ x.run = viewers[v].run /\ x.visible = viewers[v].visible
  BY <1>2, <1>3 DEF Fits, ViewerRecord
<1>5. PICK on, item : item = StateEvent(page) /\ on = Put(x, item)
  OBVIOUS
<1>6. Keeps(x, on) /\ NowAgrees(on, page.op, page.status)
  <2>1. item \in Item /\ item.type = "state" /\ Matches(item, page.op, page.status)
    BY <1>2, <1>5, EventsOfThePage DEF LookInv, PageBounded
  <2>. QED
    BY <1>4, <1>5, <2>1, PutIs
<1>7. page.frame # 0 => Keeps(x, Put(on, FrameEvent(page))) /\ NowAgrees(Put(on, FrameEvent(page)), page.op, page.status)
  <2>. SUFFICES ASSUME page.frame # 0
                PROVE  Keeps(x, Put(on, FrameEvent(page))) /\ NowAgrees(Put(on, FrameEvent(page)), page.op, page.status)
    OBVIOUS
  <2>1. Says(FrameEvent(page), page.op, page.status)
    BY LooksUnchanged
  <2>2. Fits(on) /\ on.state \in {"on", "done"}
    BY <1>4, <1>6 DEF Keeps
  <2>3. Hears(on, Put(on, FrameEvent(page)), page.op, page.status)
    BY <2>1, <2>2, PutHears
  <2>4. PICK z : z = Put(on, FrameEvent(page))
    OBVIOUS
  <2>5. Keeps(x, z) /\ NowAgrees(z, page.op, page.status)
    BY <1>6, <2>3, <2>4, KeepsOn DEF Hears
  <2>. QED
    BY <2>4, <2>5
<1>8. PICK y : /\ viewers' = [viewers EXCEPT ![v] = y]
               /\ \/ y = Off
                  \/ /\ viewers[v].run = page.run
                     /\ Keeps(x, y) /\ NowAgrees(y, page.op, page.status)
  <2>1. \/ viewers' = [viewers EXCEPT ![v] = Off]
        \/ /\ viewers[v].run = page.run
           /\ \/ viewers' = [viewers EXCEPT ![v] = on]
              \/ page.frame # 0 /\ viewers' = [viewers EXCEPT ![v] = Put(on, FrameEvent(page))]
    BY <1>3, <1>5 DEF AddViewer
  <2>. QED
    BY <1>6, <1>7, <2>1
<1>9. \A w \in Viewers : viewers'[w] = IF w = v THEN y ELSE viewers[w]
  BY <1>2, <1>8
<1>10. /\ Fits(y) /\ ~y.visible /\ (y.state # "off" => y.run \in 1..runs)
       /\ y.run = page.run => NowAgrees(y, page.op, page.status)
  <2>1. CASE y = Off
    BY <2>1, OffFits DEF NowAgrees
  <2>2. CASE Keeps(x, y) /\ NowAgrees(y, page.op, page.status)
    BY <1>2, <1>4, <2>2 DEF Keeps
  <2>. QED
    BY <1>8, <2>1, <2>2
<1>11. ViewersFit'
  BY <1>1, <1>9, <1>10 DEF LookInv, ViewersFit
<1>12. AllAgree'
  BY <1>1, <1>9, <1>10 DEF LookInv, AllAgree
<1>13. \A run : AnyVisible(viewers', run) = AnyVisible(viewers, run)
  <2>1. \A w \in Viewers : w # v => viewers'[w] = viewers[w]
    BY <1>9
  <2>2. ~viewers[v].visible /\ ~viewers'[v].visible
    BY <1>2, <1>9, <1>10
  <2>. QED
    BY <2>1, <2>2, SameLook
<1>14. WorkerLooks'
  BY <1>1, <1>13, WorkerKeeps
<1>15. PageBounded' /\ FrameOfThePage' /\ RestTyped'
  BY <1>1 DEF LookInv, PageBounded, FrameOfThePage, RestTyped
<1>. QED
  BY <1>11, <1>12, <1>14, <1>15 DEF LookInv

\* When the last one who looks goes, the worker is told.
LEMMA RemoveLooks ==
  ASSUME BrowserBounds, BrowserInv, LookInv, NEW v \in Viewers, RemoveViewer(v)
  PROVE  LookInv'
<1>1. PICK vs : vs = [viewers EXCEPT ![v] = Off]
  OBVIOUS
<1>2. /\ UNCHANGED <<runs, page, worker, down, toggles>> /\ InMap(v) /\ Tell(v, vs)
      /\ Current(v) => command = NoCommand
      /\ viewers' = vs \/ viewers' = ToAll(vs, Other)
      /\ primary' \in {primary, NoClient}
  BY <1>1 DEF RemoveViewer
<1>3. AllFit(viewers) /\ Says(Other, page.op, page.status)
  BY LooksUnchanged
<1>4. \A w \in Viewers : vs[w] = IF w = v THEN Off ELSE viewers[w]
  BY <1>1, <1>3 DEF AllFit
<1>5. AllFit(vs)
  BY <1>1, <1>3, OffFits DEF AllFit
<1>6. AllHear(vs, viewers')
  <2>1. AllHear(vs, vs)
    BY <1>5, HearsNothing DEF AllHear, AllFit
  <2>2. AllHear(vs, ToAll(vs, Other))
    BY <1>3, <1>5, ToAllHear
  <2>. QED
    BY <1>2, <2>1, <2>2
<1>7. ASSUME NEW w \in Viewers
      PROVE  /\ Keeps(vs[w], viewers'[w])
             /\ NowAgrees(vs[w], page.op, page.status) => NowAgrees(viewers'[w], page.op, page.status)
  BY <1>6 DEF AllHear, Hears
<1>8. ASSUME NEW w \in Viewers
      PROVE  /\ vs[w].state # "off" => vs[w].run \in 1..runs
             /\ vs[w].state \in {"off", "accepted"} => ~vs[w].visible
             /\ vs[w].run = page.run /\ vs[w].state # "accepted" => NowAgrees(vs[w], page.op, page.status)
  <2>1. CASE w = v
    BY <1>4, <2>1, OffFits DEF NowAgrees
  <2>2. CASE w # v
    BY <1>4, <2>2 DEF LookInv, ViewersFit, AllAgree
  <2>. QED
    BY <2>1, <2>2
<1>9. ViewersFit'
  BY <1>2, <1>7, <1>8 DEF Keeps, ViewersFit
<1>10. AllAgree'
  <2>1. ASSUME NEW w \in Viewers, viewers'[w].run = page.run, viewers'[w].state # "accepted"
        PROVE  NowAgrees(viewers'[w], page.op, page.status)
    <3>1. CASE viewers'[w].state = "on"
      <4>1. vs[w].run = page.run /\ vs[w].state = "on"
        BY <1>7, <2>1, <3>1 DEF Keeps
      <4>. QED
        BY <1>7, <1>8, <4>1
    <3>2. CASE viewers'[w].state # "on"
      BY <3>2 DEF NowAgrees
    <3>. QED
      BY <3>1, <3>2
  <2>. QED
    BY <1>2, <2>1 DEF AllAgree
<1>11. AnyVisible(viewers', page.run) = AnyVisible(vs, page.run)
  BY <1>6, VisibleHeard
<1>12. WorkerLooks'
  <2>. SUFFICES ASSUME page.run # 0
                PROVE  IF command'.type = "visibility" THEN command'.visible = AnyVisible(vs, page.run)
                       ELSE worker.visible = AnyVisible(vs, page.run)
    BY <1>2, <1>11 DEF WorkerLooks
  <2>1. AnyVisible(vs, page.run) => AnyVisible(viewers, page.run)
    BY <1>4, OffFits DEF AnyVisible, In
  <2>2. CASE Current(v) /\ ~AnyVisible(vs, page.run)
    <3>1. command' = [NoCommand EXCEPT !.viewer = v, !.type = "visibility"]
      BY <1>2, <2>2 DEF Tell
    <3>2. AnyVisible(vs, page.run) = FALSE
      BY <2>2 DEF AnyVisible
    <3>3. /\ [NoCommand EXCEPT !.viewer = v, !.type = "visibility"].type = "visibility"
          /\ [NoCommand EXCEPT !.viewer = v, !.type = "visibility"].visible = FALSE
      BY DEF NoCommand
    <3>. QED
      BY <3>1, <3>2, <3>3
  <2>3. CASE ~(Current(v) /\ ~AnyVisible(vs, page.run))
    <3>1. command' = command
      BY <1>2, <2>3 DEF Tell
    <3>2. ~Current(v) => (AnyVisible(viewers, page.run) => AnyVisible(vs, page.run))
      <4>. SUFFICES ASSUME ~Current(v)
                    PROVE  AnyVisible(viewers, page.run) => AnyVisible(vs, page.run)
        OBVIOUS
      <4>1. viewers[v].run # page.run
        BY <1>2 DEF Current
      <4>. QED
        BY <1>4, <4>1 DEF AnyVisible, In
    <3>3. AnyVisible(viewers, page.run) = AnyVisible(vs, page.run)
      <4>1. AnyVisible(viewers, page.run) <=> AnyVisible(vs, page.run)
        BY <2>1, <2>3, <3>2
      <4>. QED
        BY <4>1 DEF AnyVisible
    <3>. QED
      BY <3>1, <3>3 DEF LookInv, WorkerLooks
  <2>. QED
    BY <2>2, <2>3
<1>13. PageBounded' /\ FrameOfThePage' /\ RestTyped'
  BY <1>2 DEF LookInv, PageBounded, FrameOfThePage, RestTyped
<1>. QED
  BY <1>9, <1>10, <1>12, <1>13 DEF LookInv

\* The end of the worker, and of the manager: no page is left to know.
LEMMA EndLooks ==
  ASSUME BrowserBounds, BrowserInv, LookInv, ProcessEnds \/ Shutdown
  PROVE  LookInv'
<1>1. page' = NoPage /\ primary' = Unknown /\ UNCHANGED <<runs, toggles>> /\ down' \in {TRUE, down}
  BY DEF ProcessEnds, Shutdown
<1>2. page'.run = 0 /\ page'.op = 0 /\ page'.opened = 0 /\ page'.frame = 0
  BY <1>1 DEF NoPage
<1>3. ASSUME NEW v \in Viewers
      PROVE  \/ viewers'[v] = viewers[v] \/ viewers'[v] = Off
             \/ InMap(v) /\ viewers'[v] = Disconnected(viewers[v])
  BY DEF ProcessEnds, Shutdown, In, InMap
<1>4. ASSUME NEW v \in Viewers
      PROVE  /\ Fits(viewers'[v])
             /\ viewers'[v].state # "off" => viewers'[v].run \in 1..runs
             /\ viewers'[v].state \in {"off", "accepted"} => ~viewers'[v].visible
  <2>1. CASE viewers'[v] = viewers[v]
    BY <2>1 DEF LookInv, ViewersFit
  <2>2. CASE viewers'[v] = Off
    BY <2>2, OffFits
  <2>3. CASE InMap(v) /\ viewers'[v] = Disconnected(viewers[v])
    <3>1. PICK x, y : x = viewers[v] /\ y = [x EXCEPT !.state = "done", !.queue = <<>>]
      OBVIOUS
    <3>2. Fits(x) /\ x.run \in 1..runs
      BY <2>3, <3>1 DEF LookInv, ViewersFit, InMap
    <3>3. <<>> \in Seq(Item) /\ Len(<<>>) = 0 /\ 0 <= QueueLimit
      BY DEF BrowserBounds
    <3>4. y \in ViewerRecord /\ y.queue = <<>> /\ y.state = "done" /\ y.run = x.run
      BY <3>1, <3>2, <3>3 DEF Fits, ViewerRecord
    <3>. QED
      BY <2>3, <3>1, <3>2, <3>3, <3>4 DEF Disconnected, Fits
  <2>. QED
    BY <1>3, <2>1, <2>2, <2>3
<1>5. ViewersFit'
  BY <1>1, <1>4 DEF ViewersFit
<1>6. AllAgree'
  <2>1. ASSUME NEW v \in Viewers, viewers'[v].run = 0 PROVE viewers'[v].state # "on"
    BY <1>4, <2>1
  <2>. QED
    BY <1>2, <2>1 DEF AllAgree, NowAgrees
<1>7. WorkerLooks'
  BY <1>2 DEF WorkerLooks
<1>8. PageBounded' /\ FrameOfThePage'
  <2>1. runs \in 0..MaxRuns /\ {MaxRuns, MaxOperations} \subseteq Nat
    BY DEF LookInv, PageBounded, BrowserBounds
  <2>. QED
    BY <1>1, <1>2, <2>1 DEF PageBounded, FrameOfThePage
<1>9. RestTyped'
  BY <1>1 DEF LookInv, RestTyped
<1>. QED
  BY <1>5, <1>6, <1>7, <1>8, <1>9 DEF LookInv

-----------------------------------------------------------------------------
(* What the viewers see: the theorem                                       *)

LEMMA LookStart == ASSUME BrowserBounds, BrowserInit PROVE LookInv
<1>1. runs = 0 /\ page = NoPage /\ \A v \in Viewers : viewers[v] = Off
  BY DEF BrowserInit
<1>2. page.run = 0 /\ page.op = 0 /\ page.opened = 0 /\ page.frame = 0
  BY <1>1 DEF NoPage
<1>3. ViewersFit
  BY <1>1, OffFits DEF ViewersFit
<1>4. AllAgree
  BY <1>1, OffFits DEF AllAgree, NowAgrees
<1>5. PageBounded /\ FrameOfThePage /\ WorkerLooks
  BY <1>1, <1>2 DEF PageBounded, FrameOfThePage, WorkerLooks, BrowserBounds
<1>6. RestTyped
  <2>1. primary = Unknown /\ down = FALSE /\ toggles = 0 /\ MaxToggles \in Nat
    BY DEF BrowserInit, BrowserBounds
  <2>2. toggles \in 0..MaxToggles
    BY <2>1
  <2>3. primary \in Clients \union {Unknown, NoClient} /\ down \in BOOLEAN
    BY <2>1
  <2>. QED
    BY <2>2, <2>3 DEF RestTyped
<1>. QED
  BY <1>3, <1>4, <1>5, <1>6 DEF LookInv

LEMMA LookStep ==
  ASSUME BrowserBounds, BrowserInv, LookInv, [BrowserNext]_browserVars
  PROVE  LookInv'
<1>1. CASE UNCHANGED browserVars
  BY <1>1 DEF browserVars, LookInv, ViewersFit, AllAgree, PageBounded, WorkerLooks, RestTyped, FrameOfThePage
<1>2. CASE BrowserNext
  BY <1>2, AcceptLooks, AddLooks, DeliverLooks, RemoveLooks, RequestLooks, TellLooks, VisibleLooks, FrameLooks,
     PageLooks, WriteLooks, ResultLooks, EndLooks DEF BrowserNext
<1>. QED
  BY <1>1, <1>2

\* Everyone who looks at the page knows it or has it in the queue, the frame kept for
\* newcomers is of the page, and the worker renders when somebody looks.
THEOREM ViewersSeeThePage == ASSUME BrowserBounds PROVE BrowserSpec => []ViewersAgree
<1>1. BrowserInit => BrowserInv /\ LookInv
  BY BrowserStart, LookStart
<1>2. BrowserInv /\ LookInv /\ [BrowserNext]_browserVars => (BrowserInv /\ LookInv)'
  BY BrowserStep, LookStep
<1>3. BrowserInv /\ LookInv => ViewersAgree
  BY LookIsAgreement
<1>. QED
  BY <1>1, <1>2, <1>3, PTL DEF BrowserSpec
==============================================================================
