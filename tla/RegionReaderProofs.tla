------------------------- MODULE RegionReaderProofs -------------------------
(***************************************************************************)
(* Proofs about RegionLayout, for every size of rings, pool and registry   *)
(* that the header's fields can hold, and about RegionReader, for any      *)
(* number of tracks and events: a load that races the producers yields     *)
(* what was committed when it read head, and no gap its drop counter does  *)
(* not show; and the bytes of the rings, as _drainRing decodes them,       *)
(* implement the abstract log.                                             *)
(***************************************************************************)
EXTENDS RegionReader, TraceRingProofs, FiniteSetTheorems

(* Whole blocks of one size do not reach into a later block.               *)
LEMMA BlocksApart ==
  ASSUME NEW size \in Nat, NEW j \in Nat, NEW k \in Nat, j < k
  PROVE  j * size + size <= k * size
<1>1. PICK d \in Nat : k = j + 1 + d
  <2>1. k - j - 1 \in Nat /\ k = j + 1 + (k - j - 1)
    OBVIOUS
  <2> QED BY <2>1
<1>2. k * size = j * size + size + d * size
  BY <1>1
<1>3. d * size \in Nat /\ j * size \in Nat
  OBVIOUS
<1> QED BY <1>2, <1>3

(* A field that does not overflow holds what createFile computed.          *)
LEMMA FieldsExact ==
  ASSUME NEW s \in Sizes, Representable(s)
  PROVE  /\ s.producers \in Nat \ {0} /\ s.pool \in Nat \ {0}
         /\ s.words \in Nat \ {0}
         /\ HeaderOf(s) =
              [producer_registry_offset |-> 128,
               string_pool_offset       |-> 4224,
               string_pool_size         |-> s.pool,
               producer_ring_offset     |-> 4224 + s.pool,
               per_producer_ring_size   |-> 64 + 8 * s.words,
               max_producers            |-> s.producers]
<1> USE DEF HeaderSize, RegistrySlotSize, RegistryReservedBytes,
     RingHeaderSize, RingSectionOffset, PerRingSize
<1>1. /\ s.producers \in Nat \ {0} /\ s.pool \in Nat \ {0}
      /\ s.words \in Nat \ {0}
  BY DEF Sizes
<1>2. /\ 4224 + s.pool < FieldRange /\ 64 + 8 * s.words < FieldRange
      /\ s.producers < FieldRange
  BY <1>1 DEF Representable
<1>3. \A n \in 0..FieldRange-1 : n % FieldRange = n
  BY LayoutAssumption
<1>4. /\ Field(128) = 128 /\ Field(4224) = 4224 /\ Field(s.pool) = s.pool
      /\ Field(4224 + s.pool) = 4224 + s.pool
      /\ Field(64 + 8 * s.words) = 64 + 8 * s.words
      /\ Field(s.producers) = s.producers
  BY <1>1, <1>2, <1>3, LayoutAssumption DEF Field
<1> QED BY <1>1, <1>4 DEF HeaderOf

(* Registry slots, pool and rings of a region with at most 256 producers   *)
(* lie one after the other inside the file.                                *)
LEMMA RegionsInOrder ==
  ASSUME NEW s \in Sizes, Representable(s), s.producers <= 256
  PROVE  InOrder(s)
<1> DEFINE per == 64 + 8 * s.words
           h == HeaderOf(s)
<1>1. /\ s.producers \in Nat \ {0} /\ s.pool \in Nat \ {0}
      /\ s.words \in Nat \ {0} /\ per \in Nat
  BY FieldsExact
<1>2. /\ TracksOf(h) = 0..s.producers-1
      /\ PoolArea(h) = Area(4224, s.pool)
      /\ \A k : SlotAt(h, k) = Area(128 + k * 16, 16)
      /\ \A k : RingAt(h, k, s) = Area(4224 + s.pool + k * per, per)
  BY FieldsExact DEF TracksOf, PoolArea, SlotAt, RingAt, RegistrySlotSize,
     RingHeaderSize
<1>3. TotalSize(s) = 4224 + s.pool + per * s.producers
  BY <1>1 DEF TotalSize, RingSectionOffset, PerRingSize, HeaderSize,
     RegistryReservedBytes, RegistrySlotSize, RingHeaderSize
<1> HIDE DEF per, h
<1>4. ASSUME NEW k \in TracksOf(h)
      PROVE  /\ Before(Area(0, HeaderSize), SlotAt(h, k))
             /\ Before(SlotAt(h, k), PoolArea(h))
             /\ Before(PoolArea(h), RingAt(h, k, s))
             /\ Before(RingAt(h, k, s), Area(TotalSize(s), 0))
  <2>1. k \in Nat /\ k < s.producers /\ k * per \in Nat
    BY <1>1, <1>2
  <2>2. k * per + per <= s.producers * per
    BY <1>1, <2>1, BlocksApart
  <2>3. Before(Area(0, HeaderSize), SlotAt(h, k))
    BY <1>2, <2>1 DEF Before, Area, HeaderSize
  <2>4. Before(SlotAt(h, k), PoolArea(h))
    BY <1>1, <1>2, <2>1 DEF Before, Area
  <2>5. Before(PoolArea(h), RingAt(h, k, s))
    BY <1>1, <1>2, <2>1 DEF Before, Area
  <2>6. Before(RingAt(h, k, s), Area(TotalSize(s), 0))
    <3>1. per * s.producers = s.producers * per
      BY <1>1
    <3>2. 4224 + s.pool + k * per + per <= 4224 + s.pool + per * s.producers
      BY <1>1, <2>1, <2>2, <3>1
    <3> QED BY <1>2, <1>3, <3>2 DEF Before, Area
  <2> QED BY <2>3, <2>4, <2>5, <2>6
<1>5. ASSUME NEW j \in TracksOf(h), NEW k \in TracksOf(h), j < k
      PROVE  /\ Before(SlotAt(h, j), SlotAt(h, k))
             /\ Before(RingAt(h, j, s), RingAt(h, k, s))
  <2>1. j \in Nat /\ k \in Nat /\ j * per \in Nat /\ k * per \in Nat
    BY <1>1, <1>2
  <2>2. j * per + per <= k * per
    BY <1>1, <1>5, <2>1, BlocksApart
  <2>3. Before(SlotAt(h, j), SlotAt(h, k))
    BY <1>2, <1>5, <2>1 DEF Before, Area
  <2>4. Before(RingAt(h, j, s), RingAt(h, k, s))
    <3>1. 4224 + s.pool + j * per + per <= 4224 + s.pool + k * per
      BY <1>1, <2>1, <2>2
    <3> QED BY <1>2, <3>1 DEF Before, Area
  <2> QED BY <2>3, <2>4
<1> QED BY <1>4, <1>5 DEF InOrder, h

(* Every ring starts at a multiple of 8 when the pool is whole words; the  *)
(* first ring does not when it is not.                                     *)
LEMMA RingsAligned ==
  ASSUME NEW s \in Sizes, Representable(s)
  PROVE  Aligned(s) <=> s.pool % 8 = 0
<1> DEFINE h == HeaderOf(s)
<1>1. /\ s.producers \in Nat \ {0} /\ s.pool \in Nat \ {0}
      /\ s.words \in Nat \ {0}
  BY FieldsExact
<1>2. /\ TracksOf(h) = 0..s.producers-1
      /\ \A k : RingAt(h, k, s).at = 4224 + s.pool + k * (64 + 8 * s.words)
  BY FieldsExact DEF TracksOf, RingAt, Area
<1> HIDE DEF h
<1>3. ASSUME s.pool % 8 = 0 PROVE Aligned(s)
  <2>1. PICK q \in Nat : s.pool = 8 * q
    BY <1>1, <1>3
  <2> SUFFICES ASSUME NEW k \in TracksOf(h)
               PROVE  RingAt(h, k, s).at % 8 = 0
    BY DEF Aligned, h
  <2>2. k \in Nat /\ k * s.words \in Nat
    BY <1>1, <1>2
  <2>3. k * (64 + 8 * s.words) = 64 * k + 8 * (k * s.words)
    BY <1>1, <2>2
  <2>4. PICK m \in Nat : m = 528 + q + 8 * k + k * s.words
    BY <2>1, <2>2
  <2>5. RingAt(h, k, s).at = 8 * m
    BY <1>2, <2>1, <2>2, <2>3, <2>4
  <2>6. (8 * m) % 8 = 0
    OBVIOUS
  <2> QED BY <2>5, <2>6
<1>4. ASSUME Aligned(s) PROVE s.pool % 8 = 0
  <2>1. 0 \in TracksOf(h)
    BY <1>1, <1>2
  <2>2. RingAt(h, 0, s).at = 4224 + s.pool
    BY <1>1, <1>2
  <2>3. (4224 + s.pool) % 8 = 0
    BY <1>4, <2>1, <2>2 DEF Aligned, h
  <2> QED BY <1>1, <2>3
<1> QED BY <1>3, <1>4

(* A track id of 8 bits names every slot of at most 256.                   *)
LEMMA TracksOwn ==
  ASSUME NEW s \in Sizes, Representable(s)
  PROVE  OwnTracks(s) <=> s.producers <= 256
<1>1. s.producers \in Nat /\ TracksOf(HeaderOf(s)) = 0..s.producers-1
  BY FieldsExact DEF TracksOf
<1>2. ASSUME s.producers <= 256 PROVE OwnTracks(s)
  BY <1>1, <1>2 DEF OwnTracks, TrackArgument, TrackIds
<1>3. ASSUME OwnTracks(s) PROVE s.producers <= 256
  <2> SUFFICES ASSUME s.producers > 256 PROVE FALSE
    BY <1>1
  <2>1. 256 \in TracksOf(HeaderOf(s))
    BY <1>1
  <2> QED BY <1>3, <2>1 DEF OwnTracks, TrackArgument, TrackIds
<1> QED BY <1>2, <1>3

(* A region whose sizes fit the header's fields is sound exactly when it   *)
(* has at most 256 producers and a pool of whole words: createFile,        *)
(* ring_for_track and the uint8_t track ids agree up to there.             *)
THEOREM LayoutIsExact == LayoutExact
<1> SUFFICES ASSUME NEW s \in Layouts, Representable(s)
             PROVE  InOrder(s) /\ Aligned(s) /\ OwnTracks(s)
                      <=> s.producers <= 256 /\ s.pool % 8 = 0
  BY DEF LayoutExact
<1>1. s \in Sizes
  BY LayoutAssumption
<1>2. s.producers <= 256 => InOrder(s)
  BY <1>1, RegionsInOrder
<1> QED BY <1>1, <1>2, RingsAligned, TracksOwn

(* Every load of RegionReader reads a region laid out this way.            *)
THEOREM LoadsFromLayoutHolds == RSpec => []LoadsFromLayout
<1>1. LoadsFromLayout
  BY LayoutIsExact DEF LoadsFromLayout
<1> QED BY <1>1, PTL

-----------------------------------------------------------------------------
(* The reader.                                                             *)

LEMMA InsideEvent ==
  ASSUME NEW pos \in Nat, NEW words \in Nat, NEW k \in 0..words-1,
         NEW limit \in Nat, pos + words <= limit
  PROVE  pos + k \in Nat /\ pos + k < limit
OBVIOUS

(* While nobody drains, a counter below the ring's size is its own slot.   *)
LEMMA SlotOfWord ==
  ASSUME NEW p \in 0..RingWords-1
  PROVE  Slot(p) = p
BY RingAssumption DEF Slot

(* What the invariant says of one track.                                   *)
LEMMA ReadTrack ==
  ASSUME ReaderInv, NEW t \in Tracks
  PROVE  /\ TypeOK /\ TrackInv(t)
         /\ head[t] \in 0..RingWords /\ dropped[t] \in 0..MaxWrites
         /\ Len(log[t]) \in Nat /\ Len(drained[t]) = 0
         /\ StartOf(t, 1) = 0
         /\ data[t] \in [0..RingWords-1 -> Words]
         /\ log[t] \in Seq(Entries)
         /\ \A i \in 1..Len(log[t]) :
              /\ log[t][i].pos \in Nat /\ log[t][i].words \in Nat
              /\ log[t][i].words > 0 /\ log[t][i].seq \in Nat
<1>1. RingInv /\ TypeOK /\ TrackInv(t) /\ Undrained(t)
  BY DEF ReaderInv, RingInv
<1>2. /\ head[t] \in Nat /\ dropped[t] \in Nat /\ Len(log[t]) \in Nat
      /\ issued[t] \in 0..MaxWrites /\ log[t] \in Seq(Entries)
      /\ data[t] \in [0..RingWords-1 -> Words]
      /\ \A i \in 1..Len(log[t]) :
           /\ log[t][i].pos \in Nat /\ log[t][i].words \in Nat
           /\ log[t][i].seq \in Nat /\ log[t][i] \in Entries
  BY <1>1, TrackTypes
<1>3. tail[t] = 0 /\ Len(drained[t]) = 0
  BY <1>1, EmptySeq DEF Undrained
<1>4. StartOf(t, 1) = 0 /\ head[t] <= RingWords
  BY <1>1, <1>2, <1>3, RingAssumption DEF TrackInv, CursorsAgree
<1>5. dropped[t] <= MaxWrites
  <2>1. issued[t] - (Len(log[t]) + dropped[t]) \in 0..1
    BY <1>1 DEF TrackInv, Accounted
  <2> QED BY <1>2, <2>1, RingAssumption
<1>6. \A e \in Entries : e.words > 0
  BY RingAssumption DEF Entries
<1> QED BY <1>1, <1>2, <1>3, <1>4, <1>5, <1>6, RingAssumption

(* A step of the producers leaves a log as it is or adds an event at head; *)
(* nothing is drained.                                                     *)
LEMMA StepGrowsLog ==
  ASSUME ReaderInv, [Next]_vars, NEW t \in Tracks
  PROVE  /\ Undrained(t)'
         /\ \/ log'[t] = log[t] /\ head'[t] = head[t]
            \/ \E e \in Entries :
                 log'[t] = Append(log[t], e) /\ e.pos = head[t]
<1>1. TypeOK /\ TrackInv(t) /\ Undrained(t) /\ ~Draining
  BY ReaderAssumption DEF ReaderInv, RingInv
<1>2. CASE UNCHANGED vars
  BY <1>1, <1>2 DEF vars, ring, consumer, Undrained
<1>3. CASE Next
  <2>1. PICK u \in Tracks : Step(u)
    BY <1>3 DEF Next
  <2>2. CASE u # t
    BY <1>1, <2>1, <2>2, OthersKept DEF Undrained
  <2>3. CASE u = t /\ Commit(t)
    <3> DEFINE e == [seq |-> ev[t].seq, words |-> ev[t].words, pos |-> head[t]]
    <3>1. /\ log' = [log EXCEPT ![t] = Append(@, e)] /\ pc[t] = "commit"
          /\ tail' = tail /\ drained' = drained /\ buf' = buf
      BY <2>3 DEF Commit, consumer
    <3>2. ev[t] \in Events /\ head[t] \in Nat
      BY <1>1, <3>1, TrackTypes DEF TrackInv, WriteInPlace
    <3>3. e \in Entries /\ e.pos = head[t]
      BY <3>2 DEF Events, Entries
    <3>4. log'[t] = Append(log[t], e)
      BY <1>1, <3>1 DEF TypeOK
    <3> HIDE DEF e
    <3> QED BY <1>1, <3>1, <3>3, <3>4 DEF Undrained
  <2>4. CASE u = t /\ ~Commit(t) /\ ~DrainEvent(t)
    <3>1. UNCHANGED <<log, head, tail, drained>> /\ (buf' = buf \/ DrainWord(t))
      BY <2>1, <2>4
         DEF Step, Write, Drain, Start, CountDrop, CountTotalDrop, StoreBody,
             StoreHeader, CountEvent, Crash, DrainWord, ring, consumer
    <3>2. ~DrainWord(t)
      BY <1>1 DEF DrainWord
    <3> QED BY <1>1, <3>1, <3>2 DEF Undrained
  <2>5. ~DrainEvent(t)
    BY <1>1 DEF DrainEvent, Undrained
  <2> QED BY <2>2, <2>3, <2>4, <2>5
<1> QED BY <1>2, <1>3

(* What the copy covers stays covered while the producers go on.           *)
LEMMA CoversStays ==
  ASSUME ReaderInv, [Next]_vars, UNCHANGED copy, NEW t \in Tracks,
         NEW n \in 0..Len(log[t]), Covers(t, n)
  PROVE  n \in 0..Len(log'[t]) /\ Covers(t, n)'
<1>1. /\ head[t] \in Nat /\ Len(log[t]) \in Nat /\ log[t] \in Seq(Entries)
      /\ n + 1 \in Nat
  BY ReadTrack, RingAssumption
<1>2. CASE log'[t] = log[t] /\ head'[t] = head[t]
  BY <1>2 DEF Covers, StartOf
<1>3. CASE \E e \in Entries : log'[t] = Append(log[t], e) /\ e.pos = head[t]
  <2>1. PICK e \in Entries : log'[t] = Append(log[t], e) /\ e.pos = head[t]
    BY <1>3
  <2>2. /\ Len(log'[t]) = Len(log[t]) + 1
        /\ \A i \in 1..Len(log[t]) : log'[t][i] = log[t][i]
        /\ log'[t][Len(log[t]) + 1] = e
    BY <1>1, <2>1, AppendProperties
  <2>3. StartOf(t, n + 1)' = StartOf(t, n + 1)
    <3>1. CASE n = Len(log[t])
      BY <1>1, <2>1, <2>2, <3>1 DEF StartOf
    <3>2. CASE n < Len(log[t])
      <4>1. n + 1 \in 1..Len(log[t])
        BY <1>1, <3>2
      <4> QED BY <1>1, <2>2, <4>1 DEF StartOf
    <3> QED BY <1>1, <3>1, <3>2
  <2>4. \A i \in 1..n : log'[t][i] = log[t][i]
    BY <1>1, <2>2
  <2>5. n \in 0..Len(log'[t])
    BY <1>1, <2>2
  <2>6. Covers(t, n)'
    BY <2>3, <2>4 DEF Covers
  <2> QED BY <2>5, <2>6
<1> QED BY <1>2, <1>3, StepGrowsLog

(* The types of the copy's parts.                                          *)
LEMMA CopyTypes ==
  ASSUME CopyTypeOK
  PROVE  /\ copy.track \in Tracks \cup {NoTrack}
         /\ copy.at \in {"slot", "head", "dropped", "data"}
         /\ copy.listed \in BOOLEAN /\ copy.before \in Nat
         /\ copy.head \in 0..RingWords /\ copy.dropped \in 0..MaxWrites
         /\ copy.words \in Seq(Words) /\ Len(copy.words) \in 0..RingWords
<1>1. copy.words \in Seq(Words) /\ Len(copy.words) <= RingWords
  BY DEF CopyTypeOK
<1>2. Len(copy.words) \in Nat
  BY <1>1
<1> QED BY <1>1, <1>2, RingAssumption DEF CopyTypeOK

(* The step copies a part of slot or ring and changes nothing else.        *)
Copies(t) ==
  /\ CopyTypeOK' /\ copy'.track = t
  /\ copy'.listed = copy.listed /\ copy'.before = copy.before

(* Each read of the load.                                                  *)
LEMMA CopyHeadStep ==
  ASSUME ReaderInv, NEW t \in Tracks, CopyHead(t), UNCHANGED vars,
         NEW n, n = Len(log[t])
  PROVE  /\ Copies(t) /\ copy'.at = "dropped" /\ copy'.words = <<>>
         /\ Covers(t, n)'
<1>1. /\ copy' = [copy EXCEPT !.head = head[t], !.at = "dropped"]
      /\ copy.track = t /\ copy.words = <<>> /\ CopyTypeOK
  BY DEF CopyHead, ReaderInv, CopyFits
<1>2. /\ copy'.track = t /\ copy'.head = head[t] /\ copy'.at = "dropped"
      /\ copy'.words = <<>> /\ copy'.dropped = copy.dropped
      /\ copy'.listed = copy.listed /\ copy'.before = copy.before
  BY <1>1 DEF CopyTypeOK
<1>3. CopyTypeOK'
  BY <1>1, ReadTrack DEF CopyTypeOK
<1>4. Len(log[t]) \in Nat /\ \A i \in 1..Len(log[t]) :
        log[t][i].pos \in Nat /\ log[t][i].words \in Nat
  BY ReadTrack
<1>5. Covers(t, n)'
  <2>1. log' = log /\ head' = head
    BY DEF vars, ring
  <2>2. Len(copy'.words) = 0
    BY <1>2, EmptySeq
  <2>3. StartOf(t, n + 1)' = head[t]
    BY <1>4, <2>1 DEF StartOf
  <2> QED BY <1>2, <1>4, <2>1, <2>2, <2>3 DEF Covers
<1> QED BY <1>2, <1>3, <1>5 DEF Copies

(* Copying the drop counter: it covers every drop before the copied head.  *)
LEMMA CopyDroppedStep ==
  ASSUME ReaderInv, NEW t \in Tracks, CopyDropped(t), UNCHANGED vars,
         NEW n \in 0..Len(log[t]), Covers(t, n)
  PROVE  Copies(t) /\ copy'.at = "data" /\ Covers(t, n)'
<1>1. /\ copy' = [copy EXCEPT !.dropped = dropped[t], !.at = "data"]
      /\ copy.track = t /\ CopyTypeOK
  BY DEF CopyDropped, ReaderInv
<1>2. /\ copy'.track = t /\ copy'.head = copy.head /\ copy'.at = "data"
      /\ copy'.words = copy.words /\ copy'.dropped = dropped[t]
      /\ copy'.listed = copy.listed /\ copy'.before = copy.before
  BY <1>1 DEF CopyTypeOK
<1>3. CopyTypeOK'
  BY <1>1, ReadTrack DEF CopyTypeOK
<1>4. Len(log[t]) \in Nat /\ dropped[t] \in Nat /\ TrackInv(t)
      /\ \A i \in 1..Len(log[t]) : log[t][i].seq \in Nat
  BY ReadTrack
<1>5. \A i \in 1..n : log[t][i].seq - i <= dropped[t]
  BY <1>4 DEF TrackInv, Accounted
<1>6. Covers(t, n)'
  <2>1. log' = log /\ head' = head
    BY DEF vars, ring
  <2> QED BY <1>2, <1>5, <2>1 DEF Covers, StartOf
<1> QED BY <1>2, <1>3, <1>6 DEF Copies

(* A copied word below the copied head is the one its event wrote.         *)
LEMMA CopyWordStep ==
  ASSUME ReaderInv, NEW t \in Tracks, CopyWord(t), UNCHANGED vars,
         NEW n \in 0..Len(log[t]), Covers(t, n)
  PROVE  Copies(t) /\ copy'.at = "data" /\ Covers(t, n)'
<1> DEFINE size == Len(copy.words)
           word == data[t][size]
<1>1. /\ copy' = [copy EXCEPT !.words = Append(copy.words, word)]
      /\ copy.track = t /\ copy.at = "data" /\ size < RingWords /\ CopyTypeOK
  BY DEF CopyWord, ReaderInv
<1>2. size \in 0..RingWords-1 /\ copy.words \in Seq(Words)
  BY <1>1, CopyTypes, RingAssumption
<1>3. word \in Words
  BY <1>2, ReadTrack
<1> HIDE DEF word
<1>4. /\ copy'.track = t /\ copy'.head = copy.head /\ copy'.at = "data"
      /\ copy'.words = Append(copy.words, word)
      /\ copy'.dropped = copy.dropped
      /\ copy'.listed = copy.listed /\ copy'.before = copy.before
  BY <1>1 DEF CopyTypeOK
<1>5. /\ copy'.words \in Seq(Words) /\ Len(copy'.words) = size + 1
      /\ \A i \in 1..size : copy'.words[i] = copy.words[i]
      /\ copy'.words[size + 1] = word
  BY <1>2, <1>3, <1>4, AppendProperties
<1>6. CopyTypeOK'
  <2>1. Len(copy'.words) <= RingWords
    BY <1>2, <1>5, RingAssumption
  <2> QED BY <1>1, <1>4, <1>5, <2>1 DEF CopyTypeOK
<1>7. log' = log /\ head' = head
  BY DEF vars, ring
<1>8. ASSUME NEW i \in 1..n, NEW k \in 0..log[t][i].words-1,
             log[t][i].pos + k < Len(copy'.words)
      PROVE  copy'.words[log[t][i].pos + k + 1] = Word(log[t][i], k)
  <2> DEFINE p == log[t][i].pos + k
  <2>1. i \in 1..Len(log[t]) /\ p \in Nat /\ Len(drained[t]) = 0 /\ TrackInv(t)
        /\ log[t][i].words \in Nat
    BY ReadTrack
  <2>2. CASE p < size
    <3>1. copy.words[p + 1] = Word(log[t][i], k)
      BY <2>2 DEF Covers
    <3>2. p + 1 \in 1..size
      BY <1>2, <2>1, <2>2
    <3> QED BY <1>5, <3>1, <3>2
  <2>3. CASE p = size
    <3>1. data[t][Slot(p)] = Word(log[t][i], k)
      BY <2>1 DEF TrackInv, Intact
    <3>2. Slot(p) = size
      BY <1>2, <2>3, SlotOfWord
    <3> QED BY <1>5, <2>3, <3>1, <3>2 DEF word
  <2>4. p < size \/ p = size
    BY <1>2, <1>5, <1>8, <2>1
  <2> QED BY <2>2, <2>3, <2>4
<1>9. Covers(t, n)'
  BY <1>1, <1>4, <1>7, <1>8 DEF Covers, StartOf
<1> QED BY <1>4, <1>6, <1>9 DEF Copies

(* Nothing is registered or copied at the start.                           *)
LEMMA InitReaderInv == RInit => ReaderInv
<1> SUFFICES ASSUME RInit PROVE ReaderInv
  OBVIOUS
<1>1. RingInv
  BY InitRingInv DEF RInit
<1>2. copy = NoCopy /\ CopyTypeOK
  <2>1. <<>> \in Seq(Words) /\ Len(<<>>) = 0
    BY EmptySeq
  <2> QED BY <2>1, RingAssumption DEF RInit, NoCopy, CopyTypeOK
<1>3. \A t \in Tracks : Undrained(t) /\ log[t] = <<>>
  BY DEF RInit, Init, Undrained
<1> QED BY <1>1, <1>2, <1>3 DEF ReaderInv, CopyFits, NoCopy

(* A step of the producers keeps the copy's words true.                    *)
LEMMA CopyFitsStays ==
  ASSUME ReaderInv, [Next]_vars, UNCHANGED copy
  PROVE  CopyTypeOK' /\ CopyFits'
<1>1. CopyTypeOK /\ CopyFits
  BY DEF ReaderInv
<1>2. CopyTypeOK'
  BY <1>1 DEF CopyTypeOK
<1>3. CASE copy.track = NoTrack
  BY <1>1, <1>2, <1>3 DEF CopyFits, NoCopy
<1>4. CASE copy.track # NoTrack
  <2>1. PICK t \in Tracks : t = copy.track
    BY <1>1, <1>4, CopyTypes
  <2>2. /\ copy.before <= Len(log[t]) /\ Len(log[t]) \in Nat
        /\ copy.before \in Nat
    BY <1>1, <1>4, <2>1, CopyTypes, ReadTrack DEF CopyFits
  <2>3. copy.before <= Len(log'[t])
    <3>1. CASE log'[t] = log[t]
      BY <2>2, <3>1
    <3>2. CASE \E e \in Entries : log'[t] = Append(log[t], e)
      <4>1. log[t] \in Seq(Entries)
        BY ReadTrack
      <4>2. Len(log'[t]) = Len(log[t]) + 1
        BY <3>2, <4>1, AppendProperties
      <4> QED BY <2>2, <4>2
    <3> QED BY <3>1, <3>2, StepGrowsLog
  <2>4. ASSUME copy.at # "head"
        PROVE  \E n \in copy.before..Len(log'[t]) : Covers(t, n)'
    <3>1. PICK n \in copy.before..Len(log[t]) : Covers(t, n)
      BY <1>1, <1>4, <2>1, <2>4 DEF CopyFits
    <3>2. n \in 0..Len(log[t]) /\ n >= copy.before
      BY <2>2, <3>1
    <3>3. n \in 0..Len(log'[t]) /\ Covers(t, n)'
      BY <3>1, <3>2, CoversStays
    <3>4. n \in copy.before..Len(log'[t])
      BY <2>2, <3>2, <3>3
    <3> QED BY <3>3, <3>4
  <2>5. copy.at # "head" =>
          \E n \in copy'.before..Len(log'[copy'.track]) : Covers(copy.track, n)'
    <3>1. copy' = copy
      OBVIOUS
    <3> QED BY <2>1, <2>4, <3>1 DEF Covers, StartOf
  <2> QED BY <1>1, <1>2, <1>4, <2>1, <2>3, <2>5 DEF CopyFits
<1> QED BY <1>2, <1>3, <1>4

(* A step of the load that leaves the events n of the copy's ring covered. *)
LEMMA CopyFitsNext ==
  ASSUME ReaderInv, UNCHANGED vars, NEW t \in Tracks, copy.track = t,
         Copies(t), copy'.at \in {"dropped", "data"},
         copy'.at # "data" => copy'.words = <<>>,
         NEW n \in copy.before..Len(log[t]), Covers(t, n)'
  PROVE  CopyFits'
<1>1. log' = log /\ t # NoTrack
  BY ReaderAssumption DEF vars
<1>2. CopyFits /\ copy.before <= Len(log[t])
  BY <1>1 DEF ReaderInv, CopyFits
<1>3. /\ copy'.track = t /\ copy'.before = copy.before
      /\ copy'.listed = copy.listed
  BY DEF Copies
<1>4. \E m \in copy'.before..Len(log'[copy'.track]) : Covers(copy.track, m)'
  <2>1. n \in copy'.before..Len(log'[copy'.track])
    BY <1>1, <1>3
  <2>2. Covers(copy.track, n)'
    BY <1>3 DEF Covers, StartOf
  <2> QED BY <2>1, <2>2
<1> QED BY <1>1, <1>2, <1>3, <1>4 DEF CopyFits

LEMMA LoadStep ==
  ASSUME ReaderInv, NEW t \in Tracks, Load(t), UNCHANGED <<vars, registered>>
  PROVE  CopyTypeOK' /\ CopyFits'
<1>1. CopyTypeOK /\ CopyFits /\ t # NoTrack /\ log' = log
  BY ReaderAssumption DEF ReaderInv, vars
<1>2. /\ Len(log[t]) \in Nat /\ copy.before \in Nat
      /\ t \notin registered => log[t] = <<>>
  BY <1>1, CopyTypes, ReadTrack DEF ReaderInv
<1>3. CASE CopySlot(t)
  <2>1. /\ copy = NoCopy
        /\ copy' = [copy EXCEPT !.track = t, !.listed = t \in registered,
                                !.before = Len(log[t]), !.at = "head"]
    BY <1>1, <1>3 DEF CopySlot, CopyFits
  <2>2. copy' = [track |-> t, at |-> "head", listed |-> t \in registered,
                 before |-> Len(log[t]), head |-> 0, dropped |-> 0,
                 words |-> <<>>]
    BY <2>1 DEF NoCopy
  <2>3. <<>> \in Seq(Words) /\ Len(<<>>) = 0
    BY EmptySeq
  <2>4. CopyTypeOK'
    BY <1>2, <2>2, <2>3, RingAssumption DEF CopyTypeOK
  <2>5. ~copy'.listed => copy'.before = 0
    BY <1>2, <2>2, <2>3
  <2>6. copy'.before <= Len(log'[copy'.track])
    BY <1>1, <1>2, <2>2
  <2> QED BY <1>1, <2>2, <2>4, <2>5, <2>6 DEF CopyFits
<1>4. CASE CopyHead(t)
  <2>1. copy.track = t
    BY <1>4 DEF CopyHead
  <2>2. PICK n \in copy.before..Len(log[t]) : n = Len(log[t])
    BY <1>1, <1>2, <2>1 DEF CopyFits
  <2> QED BY <1>4, <2>1, <2>2, CopyHeadStep, CopyFitsNext DEF Copies
<1>5. CASE CopyDropped(t) \/ CopyWord(t)
  <2>1. copy.track = t /\ copy.at # "head"
    BY <1>5 DEF CopyDropped, CopyWord
  <2>2. PICK n \in copy.before..Len(log[t]) : Covers(t, n)
    BY <1>1, <2>1 DEF CopyFits
  <2>3. n \in 0..Len(log[t])
    BY <1>2, <2>2
  <2>4. Copies(t) /\ copy'.at = "data" /\ Covers(t, n)'
    BY <1>5, <2>2, <2>3, CopyDroppedStep, CopyWordStep
  <2> QED BY <2>1, <2>4, CopyFitsNext DEF Copies
<1>6. CASE Release(t)
  <2>1. copy' = NoCopy
    BY <1>6 DEF Release
  <2>2. <<>> \in Seq(Words) /\ Len(<<>>) = 0
    BY EmptySeq
  <2> QED BY <2>1, <2>2, RingAssumption DEF NoCopy, CopyTypeOK, CopyFits
<1> QED BY <1>3, <1>4, <1>5, <1>6 DEF Load

(* A step of the producers or of the load keeps the invariant.             *)
LEMMA StepReaderInv == ReaderInv /\ [RNext]_rvars => ReaderInv'
<1> SUFFICES ASSUME ReaderInv, [RNext]_rvars PROVE ReaderInv'
  OBVIOUS
<1>1. RingInv /\ TypeOK
  BY DEF ReaderInv, RingInv
<1>2. ASSUME [Next]_vars
      PROVE  RingInv' /\ \A u \in Tracks : Undrained(u)'
  BY <1>1, <1>2, StepRingInv, StepGrowsLog
<1>3. CASE UNCHANGED rvars \/ \E t \in Tracks : Register(t)
  <2>1. UNCHANGED vars /\ UNCHANGED copy /\ registered \subseteq registered'
    BY <1>3 DEF rvars, Register
  <2>2. log' = log
    BY <2>1 DEF vars
  <2>3. \A u \in Tracks : u \notin registered' => log'[u] = <<>>
    BY <2>1, <2>2 DEF ReaderInv
  <2> QED BY <1>2, <2>1, <2>3, CopyFitsStays DEF ReaderInv
<1>4. ASSUME NEW t \in Tracks, Produce(t)
      PROVE  ReaderInv'
  <2>1. /\ t \in registered /\ Step(t) /\ Next
        /\ registered' = registered /\ copy' = copy
    BY <1>4 DEF Produce, Next
  <2>2. ASSUME NEW u \in Tracks, u \notin registered'
        PROVE  log'[u] = <<>>
    <3>1. u # t /\ log[u] = <<>>
      BY <2>1, <2>2 DEF ReaderInv
    <3> QED BY <1>1, <2>1, <3>1, OthersKept
  <2> QED BY <1>2, <2>1, <2>2, CopyFitsStays DEF ReaderInv
<1>5. ASSUME NEW t \in Tracks, Load(t), UNCHANGED <<vars, registered>>
      PROVE  ReaderInv'
  <2>1. \A u \in Tracks : u \notin registered' => log'[u] = <<>>
    BY <1>5 DEF ReaderInv, vars
  <2> QED BY <1>2, <1>5, <2>1, LoadStep DEF ReaderInv
<1> QED BY <1>3, <1>4, <1>5 DEF RNext

(* While the producers write, fill their rings and die, what a load has    *)
(* copied belongs to the events that were committed when it read head.     *)
THEOREM ReaderInvHolds == RSpec => []ReaderInv
<1>1. RInit => ReaderInv
  BY InitReaderInv
<1>2. ReaderInv /\ [RNext]_rvars => ReaderInv'
  BY StepReaderInv
<1> QED BY <1>1, <1>2, PTL DEF RSpec

-----------------------------------------------------------------------------
(* The trace that a finished load yields.                                  *)

LEMMA LoadDecodes ==
  ASSUME ReaderInv, Loaded, NEW t, t = copy.track,
         NEW n \in 0..Len(log[t]), Covers(t, n)
  PROVE  Decode(CopiedData, copy.head) = Plain(SubSeq(log[t], 1, n))
<1> DEFINE at == [i \in 1..n+1 |-> StartOf(t, i)]
<1>1. /\ CopyTypeOK /\ t \in Tracks /\ Len(copy.words) = RingWords
      /\ copy.words \in Seq(Words) /\ copy.head \in 0..RingWords
  BY CopyTypes DEF ReaderInv, Loaded
<1>2. /\ log[t] \in Seq(Entries) /\ Len(log[t]) \in Nat /\ head[t] \in Nat
      /\ TrackInv(t) /\ StartOf(t, 1) = 0 /\ Len(drained[t]) = 0
      /\ \A i \in 1..Len(log[t]) :
           /\ log[t][i].pos \in Nat /\ log[t][i].words \in Nat
  BY <1>1, ReadTrack, RingAssumption
<1>3. CopiedData \in [0..RingWords-1 -> Words]
  <2>1. \A i \in 0..RingWords-1 : copy.words[i + 1] \in Words
    BY <1>1, RingAssumption
  <2> QED BY <2>1 DEF CopiedData
<1>4. at \in [1..n+1 -> Nat] /\ at[n + 1] = copy.head /\ at[1] = 0
  BY <1>2 DEF Covers, StartOf
<1>5. ASSUME NEW i \in 1..n
      PROVE  /\ log[t][i].pos = at[i]
             /\ log[t][i].pos + log[t][i].words = at[i + 1]
             /\ log[t][i].pos + log[t][i].words <= copy.head
             /\ \A k \in 0..log[t][i].words-1 :
                  CopiedData[Slot(log[t][i].pos + k)] = Word(log[t][i], k)
  <2>1. i \in 1..Len(log[t]) /\ i \in 1..n+1 /\ i + 1 \in 1..n+1
    BY <1>2
  <2>2. log[t][i].pos = at[i] /\ log[t][i].pos + log[t][i].words = at[i + 1]
    BY <1>2, <2>1 DEF TrackInv, LogTiled, StartOf
  <2>3. log[t][i].pos + log[t][i].words <= StartOf(t, n + 1)
    <3>1. CASE n = Len(log[t])
      BY <1>2, <2>1, <3>1 DEF TrackInv, LogTiled, StartOf
    <3>2. CASE n < Len(log[t])
      <4>1. n + 1 \in i+1..Len(log[t])
        BY <1>2, <3>2
      <4> QED BY <1>2, <2>1, <4>1 DEF TrackInv, LogTiled, StartOf
    <3> QED BY <1>2, <3>1, <3>2
  <2>4. log[t][i].pos + log[t][i].words <= copy.head
    BY <2>3 DEF Covers
  <2>5. ASSUME NEW k \in 0..log[t][i].words-1
        PROVE  CopiedData[Slot(log[t][i].pos + k)] = Word(log[t][i], k)
    <3> DEFINE p == log[t][i].pos + k
    <3>1. p \in Nat /\ p < copy.head
      <4>1. log[t][i].pos \in Nat /\ log[t][i].words \in Nat
        BY <1>2, <2>1
      <4>2. copy.head \in Nat
        BY <1>1, RingAssumption
      <4> QED BY ONLY <2>4, <4>1, <4>2, k \in 0..log[t][i].words-1, InsideEvent
    <3>2. p \in 0..RingWords-1 /\ p < Len(copy.words)
      BY <1>1, <3>1, RingAssumption
    <3>3. Slot(p) = p
      BY <3>2, SlotOfWord
    <3>4. copy.words[p + 1] = Word(log[t][i], k)
      BY <3>2 DEF Covers
    <3> HIDE DEF p
    <3> QED BY <3>2, <3>3, <3>4 DEF CopiedData, p
  <2> QED BY <2>2, <2>4, <2>5
<1>6. Holds(CopiedData, log[t], n, at, copy.head)
  <2> HIDE DEF at
  <2> QED BY <1>4, <1>5 DEF Holds
<1>7. copy.head \in 0..4*RingWords /\ n \in 0..Len(log[t])
  BY <1>1, RingAssumption
<1> QED BY <1>2, <1>3, <1>6, <1>7, DecodeReads

(* A finished load covers a number of events; a copy without data words    *)
(* has not been finished.                                                  *)
LEMMA LoadedCovers ==
  ASSUME ReaderInv, Loaded
  PROVE  /\ copy.track \in Tracks /\ copy.at = "data"
         /\ copy.before \in Nat /\ (~copy.listed => copy.before = 0)
         /\ \E n \in 0..Len(log[copy.track]) :
              n >= copy.before /\ Covers(copy.track, n)
<1>1. copy.track \in Tracks /\ copy.before \in Nat
  BY CopyTypes DEF ReaderInv, Loaded
<1>2. copy.at = "data"
  <2>1. Len(copy.words) = RingWords /\ RingWords # 0 /\ Len(<<>>) = 0
    BY RingAssumption, EmptySeq DEF Loaded
  <2> QED BY <2>1 DEF ReaderInv, CopyFits
<1>3. PICK n \in copy.before..Len(log[copy.track]) : Covers(copy.track, n)
  BY <1>2 DEF ReaderInv, CopyFits, Loaded
<1>4. n \in 0..Len(log[copy.track]) /\ n >= copy.before
  BY <1>1, <1>3, ReadTrack
<1> QED BY <1>1, <1>2, <1>3, <1>4 DEF ReaderInv, CopyFits

(* The events that start below the copied head are the first n of the log. *)
LEMMA CoversCount ==
  ASSUME ReaderInv, NEW t \in Tracks, NEW n \in 0..Len(log[t]), Covers(t, n)
  PROVE  Cardinality({i \in DOMAIN log[t] : log[t][i].pos < copy.head}) = n
<1>1. /\ log[t] \in Seq(Entries) /\ Len(log[t]) \in Nat /\ TrackInv(t)
      /\ head[t] \in Nat
      /\ \A i \in 1..Len(log[t]) :
           /\ log[t][i].pos \in Nat /\ log[t][i].words \in Nat
           /\ log[t][i].words > 0
  BY ReadTrack, RingAssumption
<1>2. DOMAIN log[t] = 1..Len(log[t])
  BY <1>1
<1>3. ASSUME NEW i \in 1..Len(log[t])
      PROVE  log[t][i].pos < copy.head <=> i <= n
  <2>1. CASE i <= n
    <3>1. log[t][i].pos + log[t][i].words <= StartOf(t, n + 1)
      <4>1. CASE n = Len(log[t])
        <5>1. StartOf(t, n + 1) = head[t]
          BY <1>1, <4>1 DEF StartOf
        <5> QED BY <1>1, <5>1 DEF TrackInv, LogTiled
      <4>2. CASE n < Len(log[t])
        <5>1. n + 1 \in i+1..Len(log[t])
          BY <1>1, <2>1, <4>2
        <5> QED BY <1>1, <5>1 DEF TrackInv, LogTiled, StartOf
      <4> QED BY <1>1, <4>1, <4>2
    <3>2. copy.head = StartOf(t, n + 1) /\ StartOf(t, n + 1) \in Nat
      BY <1>1 DEF Covers, StartOf
    <3> QED BY <1>1, <2>1, <3>1, <3>2
  <2>2. CASE i = n + 1
    BY <1>1, <2>2 DEF Covers, StartOf
  <2>3. CASE i > n + 1
    <3>1. n + 1 \in 1..Len(log[t]) /\ i \in (n+1)+1..Len(log[t])
      BY <1>1, <2>3
    <3>2. log[t][n + 1].pos + log[t][n + 1].words <= log[t][i].pos
      BY <1>1, <3>1 DEF TrackInv, LogTiled
    <3>3. copy.head = log[t][n + 1].pos
      BY <1>1, <3>1 DEF Covers, StartOf
    <3> QED BY <1>1, <2>3, <3>1, <3>2, <3>3
  <2> QED BY <1>1, <2>1, <2>2, <2>3
<1>4. {i \in DOMAIN log[t] : log[t][i].pos < copy.head} = 1..n
  BY <1>1, <1>2, <1>3
<1>5. Cardinality(1..n) = n
  BY <1>1, FS_Interval
<1> QED BY <1>4, <1>5

(* A load racing the producers yields exactly the events committed when it *)
(* read head, whole and in order, and none of a track that its registry    *)
(* does not list, for any ring and any interleaving.                       *)
THEOREM LoadsAreSnapshots == RSpec => []SnapshotIsPrefix
<1>1. ReaderInv => SnapshotIsPrefix
  <2> SUFFICES ASSUME ReaderInv, Loaded
               PROVE  LET committed == log[copy.track]
                          below == {i \in DOMAIN committed :
                                      committed[i].pos < copy.head}
                          n == IF copy.listed THEN Cardinality(below) ELSE 0
                      IN  /\ DrainRing = Plain(SubSeq(committed, 1, n))
                          /\ n >= copy.before
    BY DEF SnapshotIsPrefix
  <2>1. PICK t \in Tracks : t = copy.track
    BY LoadedCovers
  <2>2. PICK n \in 0..Len(log[t]) : n >= copy.before /\ Covers(t, n)
    BY <2>1, LoadedCovers
  <2>3. Cardinality({i \in DOMAIN log[t] : log[t][i].pos < copy.head}) = n
    BY <2>2, CoversCount
  <2>4. CASE copy.listed
    <3>1. DrainRing = Plain(SubSeq(log[t], 1, n))
      BY <2>1, <2>2, <2>4, LoadDecodes DEF DrainRing
    <3> QED BY <2>1, <2>2, <2>3, <2>4, <3>1
  <2>5. CASE ~copy.listed
    <3>1. Plain(SubSeq(log[t], 1, 0)) = <<>>
      <4>1. SubSeq(log[t], 1, 0) = <<>>
        BY SubSeqEmpty
      <4>2. Plain(<<>>) = <<>>
        BY DEF Plain
      <4> QED BY <4>1, <4>2
    <3>2. DrainRing = <<>> /\ copy.before = 0
      BY <2>5, LoadedCovers DEF DrainRing
    <3> QED BY <2>1, <2>5, <3>1, <3>2
  <2> QED BY <2>4, <2>5
<1> QED BY <1>1, ReaderInvHolds, PTL

(* A load that shows no drop misses no event before the last it shows.     *)
THEOREM NoGapIsSilent == RSpec => []NoSilentGap
<1>1. ReaderInv => NoSilentGap
  <2> SUFFICES ASSUME ReaderInv, Loaded, copy.dropped = 0,
                      NEW i \in DOMAIN DrainRing
               PROVE  DrainRing[i].seq = i
    BY DEF NoSilentGap
  <2>1. PICK t \in Tracks : t = copy.track
    BY LoadedCovers
  <2>2. PICK n \in 0..Len(log[t]) : Covers(t, n)
    BY <2>1, LoadedCovers
  <2> DEFINE part == SubSeq(log[t], 1, n)
  <2>3. DrainRing = Plain(part)
    <3>1. copy.listed
      BY DEF DrainRing
    <3> QED BY <2>1, <2>2, <3>1, LoadDecodes DEF DrainRing
  <2>4. /\ log[t] \in Seq(Entries) /\ Len(log[t]) \in Nat /\ TrackInv(t)
        /\ dropped[t] \in Nat
        /\ \A j \in 1..Len(log[t]) : log[t][j].seq \in Nat
    BY ReadTrack
  <2>5. /\ part \in Seq(Entries) /\ Len(part) = n
        /\ \A j \in 1..n : part[j] = log[t][j]
    <3>1. \A j \in 1..n : log[t][j] \in Entries
      BY <2>4
    <3>2. n \in Nat
      BY <2>4
    <3> QED BY <3>1, <3>2, SubSeqProperties
  <2> HIDE DEF part
  <2>6. /\ Len(Plain(part)) = n /\ Plain(part) \in Seq(Plains)
        /\ \A j \in 1..n : Plain(part)[j].seq = part[j].seq
    <3>1. /\ Len(Plain(part)) = n /\ Plain(part) \in Seq(Plains)
          /\ \A j \in 1..n : Plain(part)[j] = [seq |-> part[j].seq, words |-> part[j].words]
      BY <2>5, PlainSeq
    <3> QED BY <3>1
  <2>7. i \in 1..n /\ DrainRing[i].seq = log[t][i].seq
    BY <2>3, <2>5, <2>6
  <2>8. i \in 1..Len(log[t]) /\ n > 0
    BY <2>4, <2>7
  <2>9. log[t][i].seq - i \in 0..dropped[t]
    BY <2>4, <2>8 DEF TrackInv, Accounted
  <2>10. copy.at = "data"
    BY LoadedCovers
  <2>11. log[t][i].seq - i <= 0
    BY <2>2, <2>7, <2>10 DEF Covers
  <2> QED BY <2>4, <2>7, <2>8, <2>9, <2>11
<1> QED BY <1>1, ReaderInvHolds, PTL

-----------------------------------------------------------------------------
(* The bytes of the rings at any moment.                                   *)

(* A ring that nothing drains decodes to the whole log of its producer.    *)
LEMMA RingDecodes ==
  ASSUME ReaderInv, NEW t \in Tracks
  PROVE  Decode(data[t], head[t]) = Plain(log[t])
<1> DEFINE n == Len(log[t])
           at == [i \in 1..n+1 |-> StartOf(t, i)]
<1>1. /\ head[t] \in 0..RingWords /\ n \in Nat /\ log[t] \in Seq(Entries)
      /\ data[t] \in [0..RingWords-1 -> Words] /\ TrackInv(t)
      /\ StartOf(t, 1) = 0 /\ Len(drained[t]) = 0
      /\ \A i \in 1..n : log[t][i].pos \in Nat /\ log[t][i].words \in Nat
  BY ReadTrack
<1>2. head[t] \in Nat /\ head[t] \in 0..4*RingWords
  BY <1>1, RingAssumption
<1>3. at \in [1..n+1 -> Nat] /\ at[1] = 0 /\ at[n + 1] = head[t]
  BY <1>1, <1>2 DEF StartOf
<1>4. ASSUME NEW i \in 1..n
      PROVE  /\ log[t][i].pos = at[i]
             /\ log[t][i].pos + log[t][i].words = at[i + 1]
             /\ log[t][i].pos + log[t][i].words <= head[t]
             /\ \A k \in 0..log[t][i].words-1 :
                  data[t][Slot(log[t][i].pos + k)] = Word(log[t][i], k)
  <2>1. i \in 1..n+1 /\ i + 1 \in 1..n+1
    BY <1>1
  <2>2. at[i] = StartOf(t, i) /\ at[i + 1] = StartOf(t, i + 1)
    BY <2>1
  <2>3. StartOf(t, i) = log[t][i].pos
    BY DEF StartOf
  <2> HIDE DEF at
  <2>4. /\ log[t][i].pos + log[t][i].words = StartOf(t, i + 1)
        /\ log[t][i].pos + log[t][i].words <= head[t]
    BY <1>1 DEF TrackInv, LogTiled
  <2>5. i \in Len(drained[t])+1..Len(log[t])
    BY <1>1
  <2>6. \A k \in 0..log[t][i].words-1 :
          data[t][Slot(log[t][i].pos + k)] = Word(log[t][i], k)
    BY <1>1, <2>5 DEF TrackInv, Intact
  <2> QED BY <2>2, <2>3, <2>4, <2>6
<1>5. Holds(data[t], log[t], n, at, head[t])
  <2> HIDE DEF at, n
  <2> QED BY <1>3, <1>4 DEF Holds
<1>6. Decode(data[t], head[t]) = Plain(SubSeq(log[t], 1, n))
  <2> HIDE DEF at
  <2>1. n \in 0..Len(log[t])
    BY <1>1
  <2> QED BY <1>1, <1>2, <1>5, <2>1, DecodeReads
<1>7. SubSeq(log[t], 1, n) = log[t]
  BY <1>1, SubSeqFull
<1> QED BY <1>6, <1>7

(* What a reader makes of the bytes at any moment behaves as the abstract  *)
(* log, while any number of producers register, write, drop and die.       *)
THEOREM ImplementsRecorded == RSpec => RecordedSpec
<1>1. ReaderInv => [t \in Tracks |-> Decode(data[t], head[t])]
                     = [t \in Tracks |-> Plain(log[t])]
  BY RingDecodes
<1>2. ReaderInv /\ Logged!Init => Recorded!Init
  BY <1>1 DEF Logged!Init, Recorded!Init
<1>3. ReaderInv /\ ReaderInv' /\ [Logged!Next]_(Logged!vars)
        => [Recorded!Next]_(Recorded!vars)
  <2> SUFFICES ASSUME ReaderInv, ReaderInv', [Logged!Next]_(Logged!vars)
               PROVE  [Recorded!Next]_(Recorded!vars)
    OBVIOUS
  <2> DEFINE r == [t \in Tracks |-> Decode(data[t], head[t])]
             l == [t \in Tracks |-> Plain(log[t])]
  <2>1. r = l
    BY <1>1
  <2>2. r' = l'
    <3>1. (ReaderInv => r = l)'
      BY <1>1, PTL
    <3> QED BY <3>1
  <2> QED BY <2>1, <2>2
       DEF Logged!Next, Logged!Record, Logged!Lose, Logged!vars,
           Recorded!Next, Recorded!Record, Recorded!Lose, Recorded!vars
<1>4. RInit => Logged!Init
  BY DEF RInit, Init, Logged!Init, Plain
<1>5. [RNext]_rvars => [Next]_vars
  BY DEF RNext, rvars, Register, Produce, Next
<1>6. ReaderInv => RingInv
  BY DEF ReaderInv
<1> QED BY <1>2, <1>3, <1>4, <1>5, <1>6, StepLogged, ReaderInvHolds, PTL
       DEF RSpec, RecordedSpec, Recorded!Spec
=============================================================================
