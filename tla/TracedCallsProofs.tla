------------------------- MODULE TracedCallsProofs -------------------------
(***************************************************************************)
(* Proofs about TracedCalls: its inductive invariant, and with it that the *)
(* spans a reader reconstructs are calls that were made; and about the     *)
(* words the wrappers record.                                              *)
(***************************************************************************)
EXTENDS TracedCalls, TLAPS

(* What an action may do to the registry: claim slots, each for one        *)
(* thread.                                                                 *)
ProcessOK ==
  /\ env_region \in BOOLEAN /\ ids \in IdSources /\ active \in BOOLEAN
  /\ claimed \in 0..MaxProducers
  /\ my_track \in [Threads -> Tracks \cup {NoTrack}]
  /\ recorder \in [Threads -> Tracks \cup {NoTrack}]
  /\ owner \in [Tracks -> Threads \cup {"none"}]
  /\ \A t \in Threads : \A k \in {my_track[t], recorder[t]} :
       k # NoTrack => k < claimed /\ owner[k] = t

OwnersKept ==
  /\ claimed <= claimed'
  /\ \A k \in Tracks : k < claimed => owner'[k] = owner[k]
  /\ ids' = ids

LEMMA ProcessKept ==
  ASSUME CallsInv, UNCHANGED process
  PROVE  ProcessOK' /\ OwnersKept
BY DEF CallsInv, TypeOK, TracksOwned, process, ProcessOK, OwnersKept

LEMMA RegisterKeeps ==
  ASSUME CallsInv, NEW t \in Threads, Register(t)
  PROVE  /\ claimed' \in 0..MaxProducers /\ claimed <= claimed'
         /\ my_track' \in [Threads -> Tracks \cup {NoTrack}]
         /\ owner' \in [Tracks -> Threads \cup {"none"}]
         /\ \A k \in Tracks : k < claimed => owner'[k] = owner[k]
         /\ \A u \in Threads : my_track'[u] # NoTrack =>
              my_track'[u] < claimed' /\ owner'[my_track'[u]] = u
         /\ claimed < MaxProducers => claimed < claimed' /\ owner'[claimed] = t
<1>1. /\ claimed \in 0..MaxProducers /\ MaxProducers \in Nat
      /\ my_track \in [Threads -> Tracks \cup {NoTrack}]
      /\ owner \in [Tracks -> Threads \cup {"none"}]
      /\ \A u \in Threads : my_track[u] # NoTrack =>
           my_track[u] < claimed /\ owner[my_track[u]] = u
  BY CallsAssumption DEF CallsInv, TypeOK, TracksOwned
<1>2. CASE claimed < MaxProducers
  <2>1. claimed \in Tracks
    BY <1>1, <1>2 DEF Tracks
  <2>2. /\ claimed' = claimed + 1
        /\ my_track' = [my_track EXCEPT ![t] = claimed]
        /\ owner' = [owner EXCEPT ![claimed] = t]
    BY <1>2 DEF Register
  <2>3. \A k \in Tracks : k < claimed => owner'[k] = owner[k]
    BY <1>1, <2>1, <2>2 DEF Tracks
  <2>4. ASSUME NEW u \in Threads, my_track'[u] # NoTrack
        PROVE  my_track'[u] < claimed' /\ owner'[my_track'[u]] = u
    BY <1>1, <2>1, <2>2, <2>4 DEF Tracks, NoTrack
  <2>5. /\ claimed' \in 0..MaxProducers /\ claimed < claimed'
        /\ my_track' \in [Threads -> Tracks \cup {NoTrack}]
        /\ owner' \in [Tracks -> Threads \cup {"none"}]
        /\ owner'[claimed] = t
    BY <1>1, <1>2, <2>1, <2>2
  <2> QED BY <1>1, <2>3, <2>4, <2>5
<1>3. CASE ~(claimed < MaxProducers)
  <2>1. UNCHANGED <<claimed, my_track, owner>>
    BY <1>3 DEF Register
  <2> QED BY <1>1, <1>3, <2>1
<1> QED BY <1>2, <1>3

LEMMA EnsureAttachedKeeps ==
  ASSUME CallsInv, NEW t \in Threads, EnsureAttached(t)
  PROVE  ProcessOK' /\ OwnersKept
<1>1. active' \in BOOLEAN
  BY DEF EnsureAttached
<1>2. CASE Register(t)
  <2>1. /\ recorder' = recorder /\ env_region' = env_region /\ ids' = ids
        /\ env_region \in BOOLEAN /\ ids \in IdSources
        /\ recorder \in [Threads -> Tracks \cup {NoTrack}]
        /\ claimed \in Int /\ \A k \in Tracks : k \in Int
        /\ \A u \in Threads : recorder[u] # NoTrack => recorder[u] \in Tracks
    BY CallsAssumption DEF EnsureAttached, CallsInv, TypeOK, Tracks
  <2>2. \A u \in Threads : recorder[u] # NoTrack =>
          recorder[u] < claimed /\ owner[recorder[u]] = u
    BY DEF CallsInv, TracksOwned
  <2>3. /\ claimed' \in Int /\ claimed <= claimed'
        /\ \A k \in Tracks : k < claimed => owner'[k] = owner[k]
    BY <1>2, RegisterKeeps
  <2>4. \A u \in Threads : recorder'[u] # NoTrack =>
          recorder'[u] < claimed' /\ owner'[recorder'[u]] = u
    BY <2>1, <2>2, <2>3
  <2> QED BY <1>1, <1>2, <2>1, <2>3, <2>4, RegisterKeeps DEF ProcessOK, OwnersKept
<1>3. CASE UNCHANGED <<claimed, my_track, owner>>
  BY <1>1, <1>3
     DEF EnsureAttached, CallsInv, TypeOK, TracksOwned, ProcessOK, OwnersKept
<1> QED BY <1>2, <1>3 DEF EnsureAttached

-----------------------------------------------------------------------------
(* What recording an event does.                                           *)

LEMMA StoreOrDrop ==
  ASSUME TypeOK, NEW k \in Tracks, NEW words \in Nat,
         \/ HasRoom(k, words) /\ Store(k, words)
         \/ Drop(k)
  PROVE  /\ used' \in [Tracks -> 0..RingWords] /\ dropped' \in [Tracks -> Nat]
         /\ \A j \in Tracks : dropped[j] <= dropped'[j]
         /\ \A j \in Tracks : dropped'[j] = 0 => dropped[j] = 0
         /\ Drop(k) => dropped'[k] > 0
<1>1. /\ used \in [Tracks -> 0..RingWords] /\ dropped \in [Tracks -> Nat]
      /\ RingWords \in Nat
  BY CallsAssumption DEF TypeOK
<1>2. CASE HasRoom(k, words) /\ Store(k, words)
  BY <1>1, <1>2 DEF HasRoom, Store, Drop
<1>3. CASE Drop(k)
  <2>1. used' = used /\ dropped' = [dropped EXCEPT ![k] = @ + 1]
    BY <1>3 DEF Drop
  <2>2. ASSUME NEW j \in Tracks
        PROVE  dropped'[j] \in Nat /\ dropped[j] \in Nat
               /\ dropped'[j] = (IF j = k THEN dropped[j] + 1 ELSE dropped[j])
    BY <1>1, <2>1
  <2> QED BY <1>1, <2>1, <2>2
<1> QED BY <1>2, <1>3

Begun(p, k, call, key) == [call |-> call, key |-> key, track |-> k]

LEMMA BeginRecorded ==
  ASSUME TypeOK, NEW k \in Tracks \cup {NoTrack}, NEW p, k # NoTrack => p \in Pairings,
         NEW call \in Nat, NEW key \in Keys, NEW words \in Nat,
         RecordBegin(k, p, call, key, words)
  PROVE  /\ used' \in [Tracks -> 0..RingWords] /\ dropped' \in [Tracks -> Nat]
         /\ \A j \in Tracks : dropped[j] <= dropped'[j]
         /\ \A j \in Tracks : dropped'[j] = 0 => dropped[j] = 0
         /\ open' \in [Pairings -> SUBSET BeginEvent]
         /\ spans' = spans /\ unmatched' = unmatched
         /\ \A q \in Pairings : q # p => open'[q] = open[q]
         /\ \/ open' = open /\ (k = NoTrack \/ dropped'[k] > 0)
            \/ k # NoTrack /\ open'[p] = open[p] \cup {Begun(p, k, call, key)}
<1>1. CASE k = NoTrack
  BY <1>1, CallsAssumption DEF RecordBegin, TypeOK, rings, pairing
<1>2. CASE k # NoTrack /\ HasRoom(k, words) /\ Store(k, words) /\ PairBegin(p, k, call, key)
  <2>1. Begun(p, k, call, key) \in BeginEvent
    BY <1>2 DEF Begun, BeginEvent
  <2>2. /\ open' = [open EXCEPT ![p] = @ \cup {Begun(p, k, call, key)}]
        /\ spans' = spans /\ unmatched' = unmatched
    BY <1>2 DEF PairBegin, Begun
  <2> QED BY <1>2, <2>1, <2>2, StoreOrDrop DEF TypeOK
<1>3. CASE k # NoTrack /\ Drop(k) /\ UNCHANGED pairing
  BY <1>3, StoreOrDrop DEF TypeOK, pairing
<1> QED BY <1>1, <1>2, <1>3 DEF RecordBegin

LEMMA EndRecorded ==
  ASSUME TypeOK, NEW k \in Tracks \cup {NoTrack}, NEW p, k # NoTrack => p \in Pairings,
         NEW call \in Nat, NEW key \in Keys, NEW words \in Nat,
         RecordEnd(k, p, call, key, words)
  PROVE  /\ used' \in [Tracks -> 0..RingWords] /\ dropped' \in [Tracks -> Nat]
         /\ \A j \in Tracks : dropped[j] <= dropped'[j]
         /\ \A j \in Tracks : dropped'[j] = 0 => dropped[j] = 0
         /\ open' \in [Pairings -> SUBSET BeginEvent]
         /\ \A q \in Pairings : q # p => open'[q] = open[q]
         /\ \/ UNCHANGED pairing /\ (k = NoTrack \/ dropped'[k] > 0)
            \/ /\ k # NoTrack
               /\ \E b \in open[p] : b.key = key
               /\ open'[p] = open[p] \ {Newest(p, key)}
               /\ spans' = spans \cup {[at |-> p, begin |-> Newest(p, key).call, end |-> call]}
               /\ unmatched' = unmatched
            \/ /\ k # NoTrack
               /\ ~\E b \in open[p] : b.key = key
               /\ open' = open /\ spans' = spans
               /\ unmatched' = unmatched \cup {[at |-> p, track |-> k, call |-> call]}
<1>1. CASE k = NoTrack
  BY <1>1, CallsAssumption DEF RecordEnd, TypeOK, rings, pairing
<1>2. CASE k # NoTrack /\ HasRoom(k, words) /\ Store(k, words) /\ PairEnd(p, k, call, key)
  <2>1. CASE \E b \in open[p] : b.key = key
    <3>1. /\ open' = [open EXCEPT ![p] = @ \ {Newest(p, key)}]
          /\ spans' = spans \cup {[at |-> p, begin |-> Newest(p, key).call, end |-> call]}
          /\ unmatched' = unmatched
      BY <1>2, <2>1 DEF PairEnd
    <3> QED BY <1>2, <2>1, <3>1, StoreOrDrop DEF TypeOK
  <2>2. CASE ~\E b \in open[p] : b.key = key
    <3>1. /\ open' = open /\ spans' = spans
          /\ unmatched' = unmatched \cup {[at |-> p, track |-> k, call |-> call]}
      BY <1>2, <2>2 DEF PairEnd
    <3> QED BY <1>2, <2>2, <3>1, StoreOrDrop DEF TypeOK
  <2> QED BY <2>1, <2>2
<1>3. CASE k # NoTrack /\ Drop(k) /\ UNCHANGED pairing
  BY <1>3, StoreOrDrop DEF TypeOK, pairing
<1> QED BY <1>1, <1>2, <1>3 DEF RecordEnd

-----------------------------------------------------------------------------
(* Conjuncts that an action leaves alone.                                  *)

CountersGrow ==
  /\ used' \in [Tracks -> 0..RingWords] /\ dropped' \in [Tracks -> Nat]
  /\ \A j \in Tracks : dropped[j] <= dropped'[j]
  /\ \A j \in Tracks : dropped'[j] = 0 => dropped[j] = 0

LEMMA SpansKept ==
  ASSUME CallsInv, CountersGrow, OwnersKept, torn \subseteq torn',
         spans' = spans, unmatched' = unmatched
  PROVE  SyncSpansTrue' /\ AsyncSpansTrue' /\ UnmatchedExplained'
<1>1. \A k \in Tracks : Whole(k)' => Whole(k)
  BY DEF CountersGrow, Whole
<1>2. SyncSpansTrue'
  BY <1>1 DEF CallsInv, SyncSpansTrue
<1>3. AsyncSpansTrue'
  BY DEF CallsInv, AsyncSpansTrue, OwnersKept
<1>4. UnmatchedExplained'
  <2> SUFFICES ASSUME NEW u \in unmatched
               PROVE  dropped'[u.track] > 0 \/ u.at \in torn' \/ (u.at = Async /\ ids' = "session")
    BY DEF UnmatchedExplained
  <2>1. dropped[u.track] > 0 \/ u.at \in torn \/ (u.at = Async /\ ids = "session")
    BY DEF CallsInv, UnmatchedExplained
  <2>2. u.track \in Tracks
    BY DEF CallsInv, TypeOK
  <2>3. dropped[u.track] > 0 => dropped'[u.track] > 0
    BY <2>2 DEF CallsInv, TypeOK, CountersGrow
  <2> QED BY <2>1, <2>3 DEF OwnersKept
<1> QED BY <1>2, <1>3, <1>4

LEMMA AsyncKept ==
  ASSUME CallsInv, CountersGrow, OwnersKept, UNCHANGED <<pending, next_request>>,
         open'[Async] = open[Async]
  PROVE  RequestsDistinct' /\ PendingOpen'
<1>1. RequestsDistinct'
  BY DEF CallsInv, RequestsDistinct, OwnersKept, BeginOf
<1>2. PendingOpen'
  <2>1. \A b \in open[Async] : b.track \in Tracks
    BY DEF CallsInv, TypeOK, BeginEvent, Pairings
  <2>2. \A a \in pending : a.track # NoTrack => a.track \in Tracks
    BY DEF CallsInv, TypeOK
  <2> QED BY <2>1, <2>2 DEF CallsInv, PendingOpen, OwnersKept, BeginOf, CountersGrow
<1> QED BY <1>1, <1>2

LEMMA SyncKept ==
  ASSUME CallsInv, CountersGrow, UNCHANGED <<calls, torn>>,
         \A k \in Tracks : open'[k] = open[k]
  PROVE  OpenIsRunning'
BY DEF CallsInv, OpenIsRunning, CountersGrow, Whole, BeginOf

LEMMA OwnedKept ==
  ASSUME CallsInv, ProcessOK', OwnersKept, calls' \subseteq calls
  PROVE  TracksOwned'
<1>1. \A c \in calls : c.track # NoTrack => c.track \in Tracks /\ c.track < claimed
  BY DEF CallsInv, TypeOK, TracksOwned
<1>2. claimed \in Int /\ claimed' \in Int /\ \A k \in Tracks : k \in Int
  BY CallsAssumption DEF CallsInv, TypeOK, ProcessOK, Tracks
<1>3. \A c \in calls' : c.track # NoTrack => c.track < claimed' /\ owner'[c.track] = c.thread
  BY <1>1, <1>2 DEF CallsInv, TracksOwned, OwnersKept
<1> QED BY <1>3 DEF ProcessOK, TracksOwned

LEMMA OnlyProcess ==
  ASSUME CallsInv, ProcessOK', OwnersKept, CountersGrow,
         UNCHANGED <<calls, pending, pairing, torn, next_request>>,
         next_call' \in Nat \ {0}, next_call <= next_call',
         next_correlation' \in [Threads -> Nat \ {0}]
  PROVE  CallsInv'
<1>1. TypeOK'
  BY DEF CallsInv, TypeOK, ProcessOK, CountersGrow, pairing
<1>2. TracksOwned'
  BY OwnedKept
<1>3. CallsNumbered'
  BY DEF CallsInv, CallsNumbered, TypeOK
<1>4. OpenIsRunning'
  BY SyncKept DEF pairing
<1>5. RequestsDistinct' /\ PendingOpen'
  BY AsyncKept DEF pairing
<1>6. SyncSpansTrue' /\ AsyncSpansTrue' /\ UnmatchedExplained'
  BY SpansKept DEF pairing
<1> QED BY <1>1, <1>2, <1>3, <1>4, <1>5, <1>6 DEF CallsInv

-----------------------------------------------------------------------------
(* The actions.                                                            *)

LEMMA RecorderAttachKeeps ==
  ASSUME CallsInv, NEW t \in Threads, RecorderAttach(t)
  PROVE  CallsInv'
<1>1. ProcessOK' /\ OwnersKept
  <2>1. /\ env_region \in BOOLEAN /\ ids \in IdSources
        /\ recorder \in [Threads -> Tracks \cup {NoTrack}]
        /\ \A u \in Threads : recorder[u] # NoTrack =>
             recorder[u] < claimed /\ owner[recorder[u]] = u
        /\ claimed \in 0..MaxProducers
    BY DEF CallsInv, TypeOK, TracksOwned
  <2>2. /\ active' = TRUE /\ Register(t)
        /\ recorder' = [recorder EXCEPT ![t] = IF claimed < MaxProducers THEN claimed ELSE NoTrack]
        /\ env_region' = env_region /\ ids' = ids
    BY DEF RecorderAttach
  <2>3. claimed < MaxProducers => claimed \in Tracks
    BY <2>1, CallsAssumption DEF Tracks
  <2>4. recorder' \in [Threads -> Tracks \cup {NoTrack}]
    BY <2>1, <2>2, <2>3
  <2>5. ASSUME NEW u \in Threads, recorder'[u] # NoTrack
        PROVE  recorder'[u] < claimed' /\ owner'[recorder'[u]] = u
    <3>1. CASE u = t
      BY <2>1, <2>2, <2>5, <3>1, RegisterKeeps
    <3>2. CASE u # t
      <4>1. recorder'[u] = recorder[u] /\ recorder[u] \in Tracks
        BY <2>1, <2>2, <2>5, <3>2
      <4> QED BY <2>1, <2>2, <2>5, <4>1, RegisterKeeps, CallsAssumption DEF Tracks
    <3> QED BY <3>1, <3>2
  <2> QED BY <2>1, <2>2, <2>4, <2>5, RegisterKeeps DEF ProcessOK, OwnersKept
<1>2. /\ UNCHANGED <<calls, pending, pairing, torn, next_request, next_call, rings>>
      /\ next_correlation' \in [Threads -> Nat \ {0}]
  BY DEF RecorderAttach, CallsInv, TypeOK
<1>3. CountersGrow
  BY <1>2 DEF rings, CountersGrow, CallsInv, TypeOK
<1> QED BY <1>1, <1>2, <1>3, OnlyProcess DEF CallsInv, TypeOK

LEMMA CallUnresolvedKeeps ==
  ASSUME CallsInv, NEW t \in Threads, CallUnresolved(t)
  PROVE  CallsInv'
<1>1. UNCHANGED <<counters, calls, pending, next_call, rings, pairing, torn>>
  BY DEF CallUnresolved
<1>2. CountersGrow
  BY <1>1 DEF rings, CountersGrow, CallsInv, TypeOK
<1>3. ProcessOK' /\ OwnersKept
  BY EnsureAttachedKeeps DEF CallUnresolved
<1> QED BY <1>1, <1>2, <1>3, OnlyProcess DEF CallsInv, TypeOK, counters

LEMMA SampleKeeps ==
  ASSUME CallsInv, NEW t \in Threads, NEW n \in Nat, Sample(t, n)
  PROVE  CallsInv'
<1>1. Words(0, n) \in Nat
  BY DEF Words
<1>2. recorder[t] \in Tracks
  BY DEF Sample, CallsInv, TypeOK
<1>3. /\ UNCHANGED <<process, counters, calls, pending, pairing, torn>>
      /\ next_call' = next_call + 1
      /\ \/ HasRoom(recorder[t], Words(0, n)) /\ Store(recorder[t], Words(0, n))
         \/ Drop(recorder[t])
  BY DEF Sample
<1>4. CountersGrow
  BY <1>1, <1>2, <1>3, StoreOrDrop DEF CountersGrow, CallsInv
<1>5. ProcessOK' /\ OwnersKept
  BY <1>3, ProcessKept
<1> QED BY <1>3, <1>4, <1>5, OnlyProcess DEF CallsInv, TypeOK, counters

LEMMA BeginKeeps ==
  ASSUME CallsInv, NEW t \in Threads, NEW where \in {"here", "recorder"},
         NEW k \in Tracks \cup {NoTrack}, NEW key \in Keys, NEW words \in Nat,
         NEW endWords \in Nat, Begin(t, where, k, key, words, endWords),
         ProcessOK', OwnersKept, k # NoTrack => k < claimed' /\ owner'[k] = t
  PROVE  CallsInv'
<1> DEFINE c == [call |-> next_call, thread |-> t, where |-> where, track |-> k,
                 key |-> key, words |-> endWords]
<1>1. /\ next_call' = next_call + 1 /\ next_call \in Nat \ {0}
      /\ calls' = calls \cup {c}
      /\ RecordBegin(k, k, next_call, key, words)
      /\ UNCHANGED <<counters, pending, torn>>
  BY DEF Begin, CallsInv, TypeOK
<1>2. k # NoTrack => k \in Tracks /\ k \in Pairings /\ k # Async
  BY CallsAssumption DEF Pairings, Tracks, Async
<1>3. NoTrack \notin Tracks /\ Async \notin Tracks /\ NoTrack # Async
  BY CallsAssumption DEF Tracks, Async, NoTrack
<1>4. /\ CountersGrow
      /\ open' \in [Pairings -> SUBSET BeginEvent]
      /\ spans' = spans /\ unmatched' = unmatched
      /\ \A q \in Pairings : q # k => open'[q] = open[q]
      /\ \/ open' = open /\ (k = NoTrack \/ dropped'[k] > 0)
         \/ k # NoTrack /\ open'[k] = open[k] \cup {Begun(k, k, next_call, key)}
  BY <1>1, <1>2, BeginRecorded DEF CountersGrow, CallsInv
<1>5. TypeOK'
  BY <1>1, <1>4 DEF CallsInv, TypeOK, ProcessOK, CountersGrow, counters
<1>6. TracksOwned'
  <2>1. \A d \in calls : d.track # NoTrack => d.track \in Tracks /\ d.track < claimed
    BY DEF CallsInv, TypeOK, TracksOwned
  <2>2. claimed \in Int /\ claimed' \in Int /\ \A q \in Tracks : q \in Int
    BY CallsAssumption DEF CallsInv, TypeOK, ProcessOK, Tracks
  <2>3. \A d \in calls : d.track # NoTrack => d.track < claimed' /\ owner'[d.track] = d.thread
    BY <2>1, <2>2 DEF CallsInv, TracksOwned, OwnersKept
  <2> QED BY <1>1, <2>3 DEF ProcessOK, TracksOwned
<1>7. CallsNumbered'
  <2>1. \A d \in calls \cup pending : d.call \in Nat /\ d.call < next_call
    BY DEF CallsInv, TypeOK, CallsNumbered
  <2>2. \A d \in calls' \cup pending' : d.call < next_call'
    BY <1>1, <2>1
  <2>3. \A d, e \in calls' : d.call = e.call => d = e
    BY <1>1, <2>1 DEF CallsInv, CallsNumbered
  <2> QED BY <1>1, <2>2, <2>3 DEF CallsInv, CallsNumbered
<1>8. OpenIsRunning'
  <2> SUFFICES ASSUME NEW q \in Tracks, Whole(q)'
               PROVE  open'[q] = {BeginOf(d) : d \in {e \in calls' : e.track = q}}
    BY DEF OpenIsRunning, BeginOf
  <2>1. open[q] = {BeginOf(d) : d \in {e \in calls : e.track = q}}
    BY <1>1, <1>4 DEF CallsInv, OpenIsRunning, Whole, CountersGrow
  <2>2. CASE q # k
    BY <1>1, <1>4, <2>1, <2>2 DEF Pairings
  <2>3. CASE q = k
    <3>1. dropped'[k] = 0 /\ k # NoTrack
      BY <1>3, <2>3 DEF Whole
    <3>2. open'[k] = open[k] \cup {BeginOf(c)}
      BY <1>4, <3>1 DEF BeginOf, Begun, CountersGrow
    <3> QED BY <1>1, <2>1, <2>3, <3>2
  <2> QED BY <2>2, <2>3
<1>9. RequestsDistinct' /\ PendingOpen'
  <2>1. k # Async
    BY <1>2, <1>3
  <2> QED BY <1>1, <1>4, <2>1, AsyncKept DEF Pairings, counters
<1>10. SyncSpansTrue' /\ AsyncSpansTrue' /\ UnmatchedExplained'
  BY <1>1, <1>4, SpansKept
<1> QED BY <1>5, <1>6, <1>7, <1>8, <1>9, <1>10 DEF CallsInv

(* On a whole track the END of a thread's innermost call finds the BEGIN   *)
(* of that call.                                                           *)
LEMMA InnermostIsNewest ==
  ASSUME CallsInv, NEW c \in calls, Innermost(c), c.track # NoTrack, Whole(c.track)
  PROVE  BeginOf(c) \in open[c.track] /\ Newest(c.track, c.key) = BeginOf(c)
<1> DEFINE k == c.track
<1>1. k \in Tracks
  BY DEF CallsInv, TypeOK
<1>2. open[k] = {BeginOf(d) : d \in {e \in calls : e.track = k}}
  BY <1>1 DEF CallsInv, OpenIsRunning
<1>3. ASSUME NEW d \in calls, d.track = k
      PROVE  d.call \in Nat /\ d.call <= c.call
  BY <1>3 DEF CallsInv, TypeOK, TracksOwned, Innermost
<1>4. \A d, e \in calls : d.call = e.call => d = e
  BY DEF CallsInv, CallsNumbered
<1>5. BeginOf(c) \in open[k] /\ BeginOf(c).key = c.key /\ BeginOf(c).call = c.call
  BY <1>2 DEF BeginOf
<1>6. \A a \in open[k] : a.call <= BeginOf(c).call
  BY <1>2, <1>3, <1>5 DEF BeginOf
<1>7. ASSUME NEW b \in open[k], b.key = c.key,
             \A a \in open[k] : a.key = c.key => a.call <= b.call
      PROVE  b = BeginOf(c)
  <2>1. PICK d \in calls : d.track = k /\ b = BeginOf(d)
    BY <1>2
  <2>2. b.call = d.call
    BY <2>1 DEF BeginOf
  <2>3. c.call <= d.call /\ d.call <= c.call /\ c.call \in Nat /\ d.call \in Nat
    BY <1>3, <1>5, <1>7, <2>1, <2>2
  <2> QED BY <1>4, <2>1, <2>3
<1> QED BY <1>5, <1>6, <1>7 DEF Newest

LEMMA ReturnKeeps ==
  ASSUME CallsInv, NEW c \in calls, Return(c)
  PROVE  CallsInv'
<1>0. PICK k : k = EndTrack(c)
  OBVIOUS
<1>1. /\ Innermost(c)
      /\ calls' = calls \ {c}
      /\ RecordEnd(k, k, c.call, c.key, c.words)
      /\ torn' = IF k = c.track THEN torn ELSE torn \cup {k, c.track}
      /\ UNCHANGED <<process, counters, pending, next_call>>
  BY <1>0 DEF Return
<1>2. /\ c.call \in Nat /\ c.key \in Keys /\ c.words \in Nat
      /\ c.track \in Tracks \cup {NoTrack} /\ k \in Tracks \cup {NoTrack}
  BY <1>0 DEF CallsInv, TypeOK, EndTrack
<1>3. /\ NoTrack \notin Tracks /\ Async \notin Tracks /\ NoTrack # Async
      /\ k # NoTrack => k \in Tracks /\ k \in Pairings
      /\ k # Async
  BY <1>2, CallsAssumption DEF Tracks, Async, NoTrack, Pairings
<1> DEFINE Lost == UNCHANGED pairing /\ (k = NoTrack \/ dropped'[k] > 0)
           Paired == /\ k # NoTrack
                     /\ \E b \in open[k] : b.key = c.key
                     /\ open'[k] = open[k] \ {Newest(k, c.key)}
                     /\ spans' = spans \cup {[at |-> k, begin |-> Newest(k, c.key).call,
                                               end |-> c.call]}
                     /\ unmatched' = unmatched
           Alone == /\ k # NoTrack
                    /\ ~\E b \in open[k] : b.key = c.key
                    /\ open' = open /\ spans' = spans
                    /\ unmatched' = unmatched \cup {[at |-> k, track |-> k, call |-> c.call]}
<1>4. /\ CountersGrow
      /\ open' \in [Pairings -> SUBSET BeginEvent]
      /\ \A q \in Pairings : q # k => open'[q] = open[q]
      /\ Lost \/ Paired \/ Alone
  <2>1. TypeOK
    BY DEF CallsInv
  <2>2. /\ k \in Tracks \cup {NoTrack} /\ (k # NoTrack => k \in Pairings)
        /\ RecordEnd(k, k, c.call, c.key, c.words)
    BY <1>1, <1>2, <1>3
  <2>3. Lost \/ Paired \/ Alone
    BY <1>2, <2>1, <2>2, EndRecorded
  <2> HIDE DEF Lost, Paired, Alone
  <2>4. CountersGrow
    BY <1>2, <2>1, <2>2, EndRecorded DEF CountersGrow
  <2> QED BY <1>2, <2>1, <2>2, <2>3, <2>4, EndRecorded
<1>5. ProcessOK' /\ OwnersKept
  BY <1>1, ProcessKept
<1>6. torn \subseteq torn' /\ torn' \subseteq Tracks \cup {NoTrack}
  BY <1>1, <1>2 DEF CallsInv, TypeOK
(* On a whole track it is the BEGIN of c that the END finds.               *)
<1>7. ASSUME k # NoTrack, Whole(k)'
      PROVE  /\ c.track = k /\ Whole(k) /\ BeginOf(c) \in open[k]
             /\ Paired /\ Newest(k, c.key) = BeginOf(c)
  <2>1. c.track = k /\ Whole(k)
    BY <1>1, <1>3, <1>4, <1>7 DEF Whole, CountersGrow
  <2>2. BeginOf(c) \in open[k] /\ Newest(k, c.key) = BeginOf(c)
    BY <1>1, <1>7, <2>1, InnermostIsNewest
  <2>3. BeginOf(c).key = c.key
    BY DEF BeginOf
  <2>4. ~Lost /\ ~Alone
    BY <1>7, <2>2, <2>3 DEF Whole
  <2> QED BY <1>4, <2>1, <2>2, <2>4
<1>8. /\ \A s \in spans' : s \in spans \/ (k # NoTrack /\ s.at = k)
      /\ unmatched' \subseteq [at : Pairings, track : Tracks, call : Nat]
  <2>1. CASE Lost
    BY <2>1 DEF pairing, CallsInv, TypeOK
  <2>2. CASE Paired
    BY <2>2 DEF CallsInv, TypeOK
  <2>3. CASE Alone
    BY <1>2, <1>3, <2>3 DEF CallsInv, TypeOK
  <2> QED BY <1>4, <2>1, <2>2, <2>3
<1>9. TypeOK'
  BY <1>1, <1>3, <1>4, <1>5, <1>6, <1>8 DEF CallsInv, TypeOK, ProcessOK, CountersGrow, counters
<1>10. TracksOwned'
  BY <1>1, <1>5, OwnedKept
<1>11. CallsNumbered'
  BY <1>1 DEF CallsInv, CallsNumbered
<1>12. OpenIsRunning'
  <2> SUFFICES ASSUME NEW q \in Tracks, Whole(q)'
               PROVE  open'[q] = {BeginOf(d) : d \in {e \in calls' : e.track = q}}
    BY DEF OpenIsRunning, BeginOf
  <2>1. open[q] = {BeginOf(d) : d \in {e \in calls : e.track = q}}
    BY <1>4, <1>6 DEF CallsInv, OpenIsRunning, Whole, CountersGrow
  <2>2. CASE q # k
    <3>1. c.track # q
      BY <1>1, <2>2 DEF Whole
    <3> QED BY <1>1, <1>4, <2>1, <2>2, <3>1 DEF Pairings
  <2>3. CASE q = k
    <3>1. open'[k] = open[k] \ {BeginOf(c)} /\ c.track = k
      BY <1>3, <1>7, <2>3
    <3>2. \A d \in calls : BeginOf(d) = BeginOf(c) => d = c
      BY DEF BeginOf, CallsInv, CallsNumbered
    <3> QED BY <1>1, <2>1, <2>3, <3>1, <3>2
  <2> QED BY <2>2, <2>3
<1>13. RequestsDistinct' /\ PendingOpen'
  BY <1>1, <1>3, <1>4, <1>5, AsyncKept DEF Pairings, counters
<1>14. SyncSpansTrue'
  <2> SUFFICES ASSUME NEW s \in spans', s.at \in Tracks, Whole(s.at)'
               PROVE  s.begin = s.end
    BY DEF SyncSpansTrue
  <2>1. CASE s \in spans
    BY <1>4, <1>6, <2>1 DEF CallsInv, SyncSpansTrue, Whole, CountersGrow
  <2>2. CASE s \notin spans
    <3>1. k # NoTrack /\ s.at = k
      BY <1>8, <2>2
    <3>2. Paired /\ Newest(k, c.key) = BeginOf(c)
      BY <1>7, <3>1
    <3> QED BY <2>2, <3>2 DEF BeginOf
  <2> QED BY <2>1, <2>2
<1>15. AsyncSpansTrue'
  BY <1>3, <1>5, <1>8 DEF CallsInv, AsyncSpansTrue, OwnersKept
<1>16. UnmatchedExplained'
  <2> SUFFICES ASSUME NEW u \in unmatched'
               PROVE  dropped'[u.track] > 0 \/ u.at \in torn' \/ (u.at = Async /\ ids' = "session")
    BY DEF UnmatchedExplained
  <2>1. CASE u \in unmatched
    <3>1. dropped[u.track] > 0 \/ u.at \in torn \/ (u.at = Async /\ ids = "session")
      BY <2>1 DEF CallsInv, UnmatchedExplained
    <3>2. u.track \in Tracks
      BY <2>1 DEF CallsInv, TypeOK
    <3>3. dropped[u.track] > 0 => dropped'[u.track] > 0
      BY <1>4, <3>2 DEF CallsInv, TypeOK, CountersGrow
    <3> QED BY <1>5, <1>6, <3>1, <3>3 DEF OwnersKept
  <2>2. CASE u \notin unmatched
    <3>1. Alone /\ u.at = k /\ u.track = k
      BY <1>4, <2>2 DEF pairing
    <3>2. ~Whole(k)'
      BY <1>7, <3>1
    <3>3. dropped'[k] \in Nat
      BY <1>3, <1>4, <3>1 DEF CountersGrow
    <3> QED BY <3>1, <3>2, <3>3 DEF Whole
  <2> QED BY <2>1, <2>2
<1> QED BY <1>9, <1>10, <1>11, <1>12, <1>13, <1>14, <1>15, <1>16 DEF CallsInv

LEMMA TraceAsyncKeeps ==
  ASSUME CallsInv, NEW t \in Threads, NEW span \in UserSpans, TraceAsync(t, span)
  PROVE  CallsInv'
<1>0. PICK r, k : r = Correlation(t) /\ k = recorder[t]
  OBVIOUS
<1> DEFINE key == <<span, r>>
           words == Words(r, 0)
           a == [call |-> next_call, thread |-> t, track |-> k, key |-> key, words |-> words]
<1>1. /\ next_call' = next_call + 1 /\ next_call \in Nat \ {0}
      /\ TakeCorrelation(t)
      /\ pending' = pending \cup {a}
      /\ RecordBegin(k, Async, next_call, key, words)
      /\ UNCHANGED <<process, calls, torn>>
  BY <1>0 DEF TraceAsync, PairingKey, CallsInv, TypeOK
<1>2. /\ r \in Nat /\ k \in Tracks \cup {NoTrack} /\ key \in Keys /\ words \in Nat
      /\ Async \in Pairings
  BY <1>0 DEF CallsInv, TypeOK, Correlation, Keys, Words, Pairings
<1>3. /\ next_correlation' \in [Threads -> Nat \ {0}] /\ next_request' \in Nat \ {0}
      /\ ids # "session" => r = next_request /\ next_request' = next_request + 1
  BY <1>0, <1>1 DEF TakeCorrelation, Correlation, CallsInv, TypeOK
<1>4. /\ CountersGrow
      /\ open' \in [Pairings -> SUBSET BeginEvent]
      /\ spans' = spans /\ unmatched' = unmatched
      /\ \A q \in Pairings : q # Async => open'[q] = open[q]
      /\ \/ open' = open /\ (k = NoTrack \/ dropped'[k] > 0)
         \/ k # NoTrack /\ open'[Async] = open[Async] \cup {Begun(Async, k, next_call, key)}
  BY <1>1, <1>2, BeginRecorded DEF CountersGrow, CallsInv
<1>5. Begun(Async, k, next_call, key) = BeginOf(a)
  BY DEF Begun, BeginOf
<1>6. ProcessOK' /\ OwnersKept
  BY <1>1, ProcessKept
<1>7. TypeOK'
  BY <1>1, <1>2, <1>3, <1>4, <1>6 DEF CallsInv, TypeOK, ProcessOK, CountersGrow
<1>8. TracksOwned'
  BY <1>1, <1>6, OwnedKept
<1>9. CallsNumbered'
  <2>1. \A d \in calls \cup pending : d.call \in Nat /\ d.call < next_call
    BY DEF CallsInv, TypeOK, CallsNumbered
  <2>2. \A d \in calls' \cup pending' : d.call < next_call'
    BY <1>1, <2>1
  <2>3. \A d, e \in pending' : d.call = e.call => d = e
    BY <1>1, <2>1 DEF CallsInv, CallsNumbered
  <2> QED BY <1>1, <2>2, <2>3 DEF CallsInv, CallsNumbered
<1>10. OpenIsRunning'
  BY <1>1, <1>4, SyncKept, CallsAssumption DEF Pairings, Async, Tracks
<1>11. SyncSpansTrue' /\ AsyncSpansTrue' /\ UnmatchedExplained'
  BY <1>1, <1>4, <1>6, SpansKept
<1> HIDE DEF a, key
<1>12. a.key[2] = r /\ BeginOf(a).key[2] = r /\ BeginOf(a).track = k /\ a.track = k
  BY DEF a, key, BeginOf
<1>13. open'[Async] \subseteq open[Async] \cup {BeginOf(a)}
  BY <1>4, <1>5
<1>14. ASSUME ids # "session"
       PROVE  /\ r = next_request /\ next_request \in Nat /\ next_request' = next_request + 1
              /\ \A d \in pending : d.key[2] \in Nat /\ d.key[2] < r
              /\ \A b \in open[Async] : b.key[2] \in Nat /\ b.key[2] < r
  <2>1. \A d \in pending : d.key[2] \in Nat
    BY DEF CallsInv, TypeOK, Keys
  <2>2. \A b \in open[Async] : b.key[2] \in Nat
    BY <1>2 DEF CallsInv, TypeOK, Keys, BeginEvent
  <2>3. ids = "caller"
    BY <1>14, CallsAssumption DEF CallsInv, TypeOK
  <2> QED BY <1>3, <1>14, <2>1, <2>2, <2>3 DEF CallsInv, RequestsDistinct, TypeOK
<1>15. RequestsDistinct'
  <2> SUFFICES ASSUME ids = "caller"
               PROVE  /\ \A d \in pending' : d.key[2] < next_request'
                      /\ \A b \in open'[Async] : b.key[2] < next_request'
                      /\ \A d \in pending' : \A e \in pending' : d.key[2] = e.key[2] => d = e
                      /\ \A b \in open'[Async] : \A d \in pending' :
                           d.key[2] = b.key[2] => b = BeginOf(d)
                      /\ \A b, d \in open'[Async] : b.key[2] = d.key[2] => b = d
    BY <1>6 DEF RequestsDistinct, BeginOf, OwnersKept
  <2>1. /\ \A d, e \in pending : d.key[2] = e.key[2] => d = e
        /\ \A b \in open[Async] : \A d \in pending : d.key[2] = b.key[2] => b = BeginOf(d)
        /\ \A b, d \in open[Async] : b.key[2] = d.key[2] => b = d
    BY DEF CallsInv, RequestsDistinct
  <2>2. \A d \in pending' : d = a \/ d \in pending
    BY <1>1 DEF a
  <2>3. \A b \in open'[Async] : b = BeginOf(a) \/ b \in open[Async]
    BY <1>13
  <2> QED BY <1>12, <1>14, <2>1, <2>2, <2>3
<1>16. PendingOpen'
  <2> SUFFICES ASSUME ids = "caller"
               PROVE  /\ \A b \in open'[Async] : dropped'[b.track] = 0 =>
                           \E d \in pending' : b = BeginOf(d)
                      /\ \A d \in pending' : d.track # NoTrack /\ dropped'[d.track] = 0 =>
                           BeginOf(d) \in open'[Async]
    BY <1>6 DEF PendingOpen, BeginOf, OwnersKept
  <2>1. /\ \A b \in open[Async] : dropped[b.track] = 0 => \E d \in pending : b = BeginOf(d)
        /\ \A d \in pending : d.track # NoTrack /\ dropped[d.track] = 0 =>
             BeginOf(d) \in open[Async]
    BY DEF CallsInv, PendingOpen
  <2>2. pending' = pending \cup {a}
    BY <1>1 DEF a
  <2>3. /\ \A b \in open[Async] : b.track \in Tracks
        /\ \A d \in pending : d.track # NoTrack => d.track \in Tracks
    BY <1>2 DEF CallsInv, TypeOK, BeginEvent
  <2>4. ASSUME NEW b \in open'[Async], dropped'[b.track] = 0
        PROVE  \E d \in pending' : b = BeginOf(d)
    BY <1>4, <1>13, <2>1, <2>2, <2>3, <2>4 DEF CountersGrow
  <2>5. ASSUME NEW d \in pending', d.track # NoTrack, dropped'[d.track] = 0
        PROVE  BeginOf(d) \in open'[Async]
    <3>1. CASE d = a
      <4>1. open'[Async] = open[Async] \cup {BeginOf(a)}
        BY <1>4, <1>5, <1>12, <2>5, <3>1
      <4> QED BY <3>1, <4>1
    <3>2. CASE d \in pending
      <4>1. open[Async] \subseteq open'[Async]
        BY <1>4
      <4> QED BY <1>4, <2>1, <2>3, <2>5, <3>2, <4>1 DEF CountersGrow
    <3> QED BY <2>2, <3>1, <3>2
  <2> QED BY <2>4, <2>5
<1> QED BY <1>7, <1>8, <1>9, <1>10, <1>11, <1>15, <1>16 DEF CallsInv

LEMMA CompleteAsyncKeeps ==
  ASSUME CallsInv, NEW a \in pending, CompleteAsync(a)
  PROVE  CallsInv'
<1>0. PICK k : k = a.track
  OBVIOUS
<1>1. /\ pending' = pending \ {a}
      /\ RecordEnd(k, Async, a.call, a.key, a.words)
      /\ UNCHANGED <<process, counters, calls, next_call, torn>>
  BY <1>0 DEF CompleteAsync
<1>2. /\ a.call \in Nat /\ a.key \in Keys /\ a.words \in Nat
      /\ k \in Tracks \cup {NoTrack} /\ Async \in Pairings
  BY <1>0 DEF CallsInv, TypeOK, Pairings
<1>3. Async \notin Tracks /\ NoTrack \notin Tracks
  BY CallsAssumption DEF Tracks, Async, NoTrack
<1> DEFINE Lost == UNCHANGED pairing /\ (k = NoTrack \/ dropped'[k] > 0)
           Paired == /\ k # NoTrack
                     /\ \E b \in open[Async] : b.key = a.key
                     /\ open'[Async] = open[Async] \ {Newest(Async, a.key)}
                     /\ spans' = spans \cup {[at |-> Async, end |-> a.call,
                                               begin |-> Newest(Async, a.key).call]}
                     /\ unmatched' = unmatched
           Alone == /\ k # NoTrack
                    /\ ~\E b \in open[Async] : b.key = a.key
                    /\ open' = open /\ spans' = spans
                    /\ unmatched' = unmatched \cup {[at |-> Async, track |-> k, call |-> a.call]}
<1>4. /\ CountersGrow
      /\ open' \in [Pairings -> SUBSET BeginEvent]
      /\ \A q \in Pairings : q # Async => open'[q] = open[q]
      /\ Lost \/ Paired \/ Alone
  <2>1. TypeOK
    BY DEF CallsInv
  <2>2. Lost \/ Paired \/ Alone
    BY <1>1, <1>2, <2>1, EndRecorded
  <2> HIDE DEF Lost, Paired, Alone
  <2>3. CountersGrow
    BY <1>1, <1>2, <2>1, EndRecorded DEF CountersGrow
  <2> QED BY <1>1, <1>2, <2>1, <2>2, <2>3, EndRecorded
<1>5. ProcessOK' /\ OwnersKept
  BY <1>1, ProcessKept
<1>6. /\ \A s \in spans' : s \in spans \/ s.at = Async
      /\ unmatched' \subseteq [at : Pairings, track : Tracks, call : Nat]
  <2>1. CASE Lost
    BY <2>1 DEF pairing, CallsInv, TypeOK
  <2>2. CASE Paired
    BY <2>2 DEF CallsInv, TypeOK
  <2>3. CASE Alone
    BY <1>2, <1>3, <2>3 DEF CallsInv, TypeOK
  <2> QED BY <1>4, <2>1, <2>2, <2>3
<1>7. TypeOK'
  BY <1>1, <1>2, <1>4, <1>5, <1>6 DEF CallsInv, TypeOK, ProcessOK, CountersGrow, counters
<1>8. TracksOwned'
  BY <1>1, <1>5, OwnedKept
<1>9. CallsNumbered'
  BY <1>1 DEF CallsInv, CallsNumbered
<1>10. OpenIsRunning'
  BY <1>1, <1>3, <1>4, SyncKept DEF Pairings
<1>11. SyncSpansTrue'
  <2>1. \A q \in Tracks : Whole(q)' => Whole(q)
    BY <1>1, <1>4 DEF CountersGrow, Whole
  <2> QED BY <1>3, <1>6, <2>1 DEF CallsInv, SyncSpansTrue
(* With ids of one counter it is the BEGIN of a that the END finds.        *)
<1>12. ASSUME ids = "caller"
       PROVE  /\ \A b \in open[Async] : b.key = a.key => b = BeginOf(a)
              /\ Paired => Newest(Async, a.key) = BeginOf(a) /\ BeginOf(a) \in open[Async]
  <2>1. \A b \in open[Async] : b.key = a.key => b = BeginOf(a)
    BY <1>12 DEF CallsInv, RequestsDistinct
  <2>2. ASSUME Paired
        PROVE  Newest(Async, a.key) = BeginOf(a) /\ BeginOf(a) \in open[Async]
    <3>1. BeginOf(a) \in open[Async]
      BY <2>1, <2>2
    <3>2. BeginOf(a).key = a.key /\ BeginOf(a).call \in Nat
      BY <1>2 DEF BeginOf
    <3>3. \A d \in open[Async] : d.key = a.key => d.call <= BeginOf(a).call
      BY <2>1, <3>2
    <3> QED BY <2>1, <3>1, <3>2, <3>3 DEF Newest
  <2> QED BY <2>1, <2>2
<1>13. AsyncSpansTrue'
  <2> SUFFICES ASSUME ids = "caller", NEW s \in spans', s.at = Async
               PROVE  s.begin = s.end
    BY <1>5 DEF AsyncSpansTrue, OwnersKept
  <2>1. CASE s \in spans
    BY <2>1 DEF CallsInv, AsyncSpansTrue
  <2>2. CASE s \notin spans
    <3>1. Paired
      BY <1>4, <2>2 DEF pairing
    <3>2. Newest(Async, a.key).call = a.call
      BY <1>12, <3>1 DEF BeginOf
    <3> QED BY <2>2, <3>1, <3>2
  <2> QED BY <2>1, <2>2
<1>14. RequestsDistinct'
  <2>1. pending' \subseteq pending /\ open'[Async] \subseteq open[Async]
    <3>1. open'[Async] \subseteq open[Async]
      BY <1>4 DEF pairing
    <3> QED BY <1>1, <3>1
  <2>2. ids' = ids /\ next_request' = next_request
    BY <1>1, <1>5 DEF counters, OwnersKept
  <2> QED BY <2>1, <2>2 DEF CallsInv, RequestsDistinct, BeginOf
<1>15. ASSUME ids = "caller", k # NoTrack, dropped[k] = 0
       PROVE  BeginOf(a) \in open[Async]
  BY <1>0, <1>15 DEF CallsInv, PendingOpen
<1>16. PendingOpen'
  <2> SUFFICES ASSUME ids = "caller"
               PROVE  /\ \A b \in open'[Async] : dropped'[b.track] = 0 =>
                           \E d \in pending' : b = BeginOf(d)
                      /\ \A d \in pending' : d.track # NoTrack /\ dropped'[d.track] = 0 =>
                           BeginOf(d) \in open'[Async]
    BY <1>5 DEF PendingOpen, BeginOf, OwnersKept
  <2>1. /\ \A b \in open[Async] : dropped[b.track] = 0 => \E d \in pending : b = BeginOf(d)
        /\ \A d \in pending : d.track # NoTrack /\ dropped[d.track] = 0 =>
             BeginOf(d) \in open[Async]
    BY DEF CallsInv, PendingOpen
  <2>2. /\ \A b \in open[Async] : b.track \in Tracks
        /\ \A d \in pending : d.track # NoTrack => d.track \in Tracks
    BY <1>2 DEF CallsInv, TypeOK, BeginEvent
  <2>3. BeginOf(a).track = k /\ BeginOf(a).key = a.key
    BY <1>0 DEF BeginOf
  <2>4. \A d \in pending : BeginOf(d) = BeginOf(a) => d = a
    BY DEF BeginOf, CallsInv, CallsNumbered
  <2>5. CASE Lost
    <3>1. open' = open
      BY <2>5 DEF pairing
    <3>2. BeginOf(a) \in open[Async] => dropped'[k] # 0
      BY <1>3, <1>4, <2>2, <2>3, <2>5 DEF CountersGrow
    <3> QED BY <1>1, <1>4, <2>1, <2>2, <2>3, <2>4, <3>1, <3>2 DEF CountersGrow
  <2>6. CASE Paired
    <3>1. open'[Async] = open[Async] \ {BeginOf(a)}
      BY <1>12, <2>6
    <3> QED BY <1>1, <1>4, <2>1, <2>2, <2>4, <3>1 DEF CountersGrow
  <2>7. CASE Alone
    <3>1. BeginOf(a) \notin open[Async] /\ open' = open
      BY <2>3, <2>7
    <3> QED BY <1>1, <1>4, <2>1, <2>2, <2>4, <3>1 DEF CountersGrow
  <2> QED BY <1>4, <2>5, <2>6, <2>7
<1>17. UnmatchedExplained'
  <2> SUFFICES ASSUME NEW u \in unmatched'
               PROVE  dropped'[u.track] > 0 \/ u.at \in torn' \/ (u.at = Async /\ ids' = "session")
    BY DEF UnmatchedExplained
  <2>1. CASE u \in unmatched
    <3>1. dropped[u.track] > 0 \/ u.at \in torn \/ (u.at = Async /\ ids = "session")
      BY <2>1 DEF CallsInv, UnmatchedExplained
    <3>2. u.track \in Tracks
      BY <2>1 DEF CallsInv, TypeOK
    <3>3. dropped[u.track] > 0 => dropped'[u.track] > 0
      BY <1>4, <3>2 DEF CallsInv, TypeOK, CountersGrow
    <3> QED BY <1>1, <1>5, <3>1, <3>3 DEF OwnersKept
  <2>2. CASE u \notin unmatched
    <3>1. Alone /\ u.at = Async /\ u.track = k
      BY <1>4, <2>2 DEF pairing
    <3>2. BeginOf(a).key = a.key
      BY DEF BeginOf
    <3>3. ids = "caller" => dropped[k] # 0
      BY <1>15, <3>1, <3>2
    <3>4. k \in Tracks /\ dropped[k] \in Nat /\ dropped'[k] \in Nat /\ dropped[k] <= dropped'[k]
      BY <1>2, <1>4, <3>1 DEF CountersGrow, CallsInv, TypeOK
    <3>5. ids = "caller" \/ ids = "session"
      BY CallsAssumption DEF CallsInv, TypeOK
    <3> QED BY <1>5, <3>1, <3>3, <3>4, <3>5 DEF OwnersKept
  <2> QED BY <2>1, <2>2
<1> QED BY <1>7, <1>8, <1>9, <1>10, <1>11, <1>13, <1>14, <1>16, <1>17 DEF CallsInv

-----------------------------------------------------------------------------

LEMMA WrapperWords ==
  ASSUME NEW f \in Wrappers
  PROVE  Words(0, Len(f.begin)) \in Nat /\ Words(0, Len(f.end)) \in Nat
<1> DEFINE Begins ==
             {<<"string">>, <<"string", "u32", "string">>, <<"ptr">>, <<"ptr", "string">>,
              <<"ptr", "string", "unsigned">>, <<"ptr", "u32", "i64">>, <<"ptr", "u32", "sx">>,
              <<"ptr", "u32">>, <<"ptr", "u32", "f64">>, <<"ptr", "u32", "length">>,
              <<"ptr", "u32", "clamped">>, <<"ptr", "u32", "size">>}
           Ends == {<<"ptr", "u32">>, <<"u32">>, <<"sx">>, <<"i64">>, <<"f64">>, <<"size">>,
                    <<"flag">>, <<"length">>, <<"string">>}
<1>1. f.begin \in Begins /\ f.end \in Ends
  BY DEF Wrappers, Wrapper, sqlite3_open, sqlite3_open_v2, sqlite3_close,
         sqlite3_close_v2, sqlite3_prepare_v3, sqlite3_prepare_v2, sqlite3_step,
         sqlite3_reset, sqlite3_finalize, sqlite3_bind_int64, sqlite3_bind_int,
         sqlite3_bind_null, sqlite3_bind_double, sqlite3_bind_text,
         sqlite3_bind_blob, sqlite3_bind_blob64, sqlite3_clear_bindings,
         sqlite3_column_count, sqlite3_column_int, sqlite3_column_int64,
         sqlite3_column_double, sqlite3_column_text, sqlite3_column_blob,
         sqlite3_column_bytes, sqlite3_exec, sqlite3_changes,
         sqlite3_total_changes, sqlite3_last_insert_rowid, sqlite3_errcode,
         sqlite3_errmsg
<1>2. \A s \in Begins \cup Ends : Len(s) \in Nat
  OBVIOUS
<1> QED BY <1>1, <1>2 DEF Words

LEMMA CallKeeps ==
  ASSUME CallsInv, NEW t \in Threads, NEW f \in Functions, Call(t, f)
  PROVE  CallsInv'
<1>1. ProcessOK' /\ OwnersKept
  BY EnsureAttachedKeeps DEF Call
<1>2. PICK k : k = my_track'[t]
  OBVIOUS
<1>3. k \in Tracks \cup {NoTrack} /\ (k # NoTrack => k < claimed' /\ owner'[k] = t)
  BY <1>1, <1>2 DEF ProcessOK
<1>4. PairingKey(f.span, 0) \in Keys
  BY DEF PairingKey, Keys
<1>5. Words(0, Len(f.begin)) \in Nat /\ Words(0, Len(f.end)) \in Nat
  BY WrapperWords, CallsAssumption
<1>6. Begin(t, "here", k, PairingKey(f.span, 0), Words(0, Len(f.begin)), Words(0, Len(f.end)))
  BY <1>2 DEF Call
<1> QED BY <1>1, <1>3, <1>4, <1>5, <1>6, BeginKeeps

LEMMA TraceKeeps ==
  ASSUME CallsInv, NEW t \in Threads, NEW span \in UserSpans, NEW correlation \in SyncIds,
         Trace(t, span, correlation)
  PROVE  CallsInv'
<1>1. ProcessOK' /\ OwnersKept /\ UNCHANGED <<recorder, claimed, owner>>
  BY ProcessKept DEF Trace, process
<1>2. PICK k : k = recorder[t]
  OBVIOUS
<1>3. k \in Tracks \cup {NoTrack} /\ (k # NoTrack => k < claimed' /\ owner'[k] = t)
  BY <1>1, <1>2 DEF CallsInv, TypeOK, TracksOwned
<1>4. PairingKey(span, correlation) \in Keys /\ Words(correlation, 0) \in Nat
  BY CallsAssumption DEF PairingKey, Keys, Words
<1>5. Begin(t, "recorder", k, PairingKey(span, correlation),
            Words(correlation, 0), Words(correlation, 0))
  BY <1>2 DEF Trace
<1> QED BY <1>1, <1>3, <1>4, <1>5, BeginKeeps

LEMMA CallsInvInit == Init => CallsInv
<1> SUFFICES ASSUME Init PROVE CallsInv
  OBVIOUS
<1>1. TypeOK
  <2>1. 0 \in 0..MaxProducers /\ 0 \in 0..RingWords /\ 1 \in Nat \ {0}
    BY CallsAssumption
  <2>2. /\ env_region \in BOOLEAN /\ ids \in IdSources /\ active \in BOOLEAN
        /\ claimed \in 0..MaxProducers
        /\ next_request \in Nat \ {0} /\ next_call \in Nat \ {0}
    BY <2>1 DEF Init
  <2>3. /\ my_track \in [Threads -> Tracks \cup {NoTrack}]
        /\ recorder \in [Threads -> Tracks \cup {NoTrack}]
        /\ owner \in [Tracks -> Threads \cup {"none"}]
        /\ next_correlation \in [Threads -> Nat \ {0}]
        /\ used \in [Tracks -> 0..RingWords] /\ dropped \in [Tracks -> Nat]
        /\ open \in [Pairings -> SUBSET BeginEvent]
    BY <2>1 DEF Init
  <2> QED BY <2>2, <2>3 DEF Init, TypeOK
<1>2. TracksOwned /\ CallsNumbered /\ RequestsDistinct /\ PendingOpen
  BY DEF Init, TracksOwned, CallsNumbered, RequestsDistinct, PendingOpen, Pairings
<1>3. OpenIsRunning
  BY DEF Init, OpenIsRunning, Pairings
<1>4. SyncSpansTrue /\ AsyncSpansTrue /\ UnmatchedExplained
  BY DEF Init, SyncSpansTrue, AsyncSpansTrue, UnmatchedExplained
<1> QED BY <1>1, <1>2, <1>3, <1>4 DEF CallsInv

LEMMA CallsInvNext == CallsInv /\ [Next]_vars => CallsInv'
<1> SUFFICES ASSUME CallsInv, [Next]_vars PROVE CallsInv'
  OBVIOUS
<1>1. ASSUME NEW t \in Threads, RecorderAttach(t) PROVE CallsInv'
  BY <1>1, RecorderAttachKeeps
<1>2. ASSUME NEW t \in Threads, CallUnresolved(t) PROVE CallsInv'
  BY <1>2, CallUnresolvedKeeps
<1>3. ASSUME NEW t \in Threads, NEW f \in Functions, Call(t, f) PROVE CallsInv'
  BY <1>3, CallKeeps
<1>4. ASSUME NEW t \in Threads, NEW span \in UserSpans, NEW correlation \in SyncIds,
             Trace(t, span, correlation)
      PROVE  CallsInv'
  BY <1>4, TraceKeeps
<1>5. ASSUME NEW t \in Threads, NEW span \in UserSpans, TraceAsync(t, span) PROVE CallsInv'
  BY <1>5, TraceAsyncKeeps
<1>6. ASSUME NEW t \in Threads, NEW n \in {1, 3}, Sample(t, n) PROVE CallsInv'
  BY <1>6, SampleKeeps
<1>7. ASSUME NEW c \in calls, Return(c) PROVE CallsInv'
  BY <1>7, ReturnKeeps
<1>8. ASSUME NEW a \in pending, CompleteAsync(a) PROVE CallsInv'
  BY <1>8, CompleteAsyncKeeps
<1>9. ASSUME UNCHANGED vars PROVE CallsInv'
  <2>1. UNCHANGED <<process, counters, calls, pending, next_call, rings, pairing, torn>>
    BY <1>9 DEF vars
  <2>2. CountersGrow
    BY <2>1 DEF rings, CountersGrow, CallsInv, TypeOK
  <2> QED BY <2>1, <2>2, ProcessKept, OnlyProcess DEF CallsInv, TypeOK, counters
<1> QED BY <1>1, <1>2, <1>3, <1>4, <1>5, <1>6, <1>7, <1>8, <1>9 DEF Next

(* The inductive invariant holds in every reachable state, for any number  *)
(* of threads, functions, slots, ring words and calls.                     *)
THEOREM CallsInvHolds == Spec => []CallsInv
BY CallsInvInit, CallsInvNext, PTL DEF Spec

(* A synchronous span on a track that dropped nothing and was not          *)
(* re-registered in the middle of a call is one call (trace.dart:991-1006) *)
THEOREM SyncSpansAreCalls == Spec => []SyncSpansTrue
<1>1. CallsInv => SyncSpansTrue
  BY DEF CallsInv
<1> QED BY <1>1, CallsInvHolds, PTL

(* With ids of one counter every asynchronous span is one call, whatever   *)
(* ends were dropped (trace.dart:1043-1086).                               *)
THEOREM AsyncSpansAreCalls == Spec => []AsyncSpansTrue
<1>1. CallsInv => AsyncSpansTrue
  BY DEF CallsInv
<1> QED BY <1>1, CallsInvHolds, PTL

(* The reader's unmatched ends are explained by a drop counter or by a     *)
(* registration in the middle of a call.                                   *)
THEOREM UnmatchedAreExplained == Spec => []UnmatchedExplained
<1>1. CallsInv => UnmatchedExplained
  BY DEF CallsInv
<1> QED BY <1>1, CallsInvHolds, PTL

(* A span without an end is a call in progress, on tracks that dropped     *)
(* nothing and have both ends of every call, and for asynchronous spans    *)
(* with ids of one counter.                                                *)
THEOREM UnfinishedAreRunning == Spec => []UnfinishedIsRunning
<1>1. CallsInv => UnfinishedIsRunning
  <2> SUFFICES ASSUME CallsInv PROVE UnfinishedIsRunning
    OBVIOUS
  <2>1. ASSUME NEW k \in Tracks, Whole(k), NEW b \in open[k]
        PROVE  \E c \in calls : c.call = b.call
    BY <2>1 DEF CallsInv, OpenIsRunning, BeginOf
  <2>2. ASSUME ids = "caller", NEW b \in open[Async], dropped[b.track] = 0
        PROVE  \E a \in pending : a.call = b.call
    BY <2>2 DEF CallsInv, PendingOpen, BeginOf
  <2> QED BY <2>1, <2>2 DEF UnfinishedIsRunning
<1> QED BY <1>1, CallsInvHolds, PTL

-----------------------------------------------------------------------------
(* The words of the SQLite events, for every width of an int and of a      *)
(* 64-bit word.                                                            *)

LEMMA Widths ==
  /\ Word32 \in Nat /\ Word32 > 0 /\ Word64 \in Nat /\ Word64 >= 2 * Word32
  /\ Word32 = (Word32 \div 2) + (Word32 \div 2) /\ Word32 \div 2 \in Nat
  /\ Word64 = (Word64 \div 2) + (Word64 \div 2) /\ Word64 \div 2 \in Nat
<1>1. /\ Word32 \in Nat \ {0} /\ Word64 \in Nat \ {0}
      /\ Word32 % 2 = 0 /\ Word64 % Word32 = 0 /\ Word64 # Word32
  BY WordAssumption
<1>2. Word32 = (Word32 \div 2) + (Word32 \div 2) /\ Word32 \div 2 \in Nat
  BY <1>1
<1>3. PICK q \in Int : q = Word64 \div Word32
  BY <1>1
<1>4. Word64 = Word32 * q
  BY <1>1, <1>3
<1>5. q >= 2
  BY <1>1, <1>4
<1>6. Word64 >= 2 * Word32
  BY <1>1, <1>4, <1>5
<1> DEFINE h == Word32 \div 2
<1>7. h \in Int /\ Word32 = 2 * h
  BY <1>2
<1> HIDE DEF h
<1>8. Word64 = 2 * (h * q) /\ h * q \in Int
  BY <1>1, <1>4, <1>7
<1>9. Word64 = (Word64 \div 2) + (Word64 \div 2) /\ Word64 \div 2 \in Nat
  <2>1. PICK k \in Int : k = h * q
    BY <1>8
  <2> QED BY <1>1, <1>8, <2>1
<1> QED BY <1>1, <1>2, <1>6, <1>9

LEMMA ModSmall ==
  ASSUME NEW m \in Nat \ {0}, NEW v \in 0..m-1
  PROVE  v % m = v
  OBVIOUS

LEMMA ModNegative ==
  ASSUME NEW m \in Nat \ {0}, NEW v \in Int, -m <= v, v < 0
  PROVE  v % m = v + m
  OBVIOUS

(* A word of two's complement gives back the number it was made of.        *)
LEMMA SignedBack ==
  ASSUME NEW m \in Nat \ {0}, m = (m \div 2) + (m \div 2), m \div 2 \in Nat,
         NEW v \in -(m \div 2)..(m \div 2)-1
  PROVE  v % m \in 0..m-1 /\ Signed(v % m, m) = v
<1> DEFINE h == m \div 2
<1> HIDE DEF h
<1>1. h \in Nat /\ m = h + h /\ v \in Int /\ -h <= v /\ v <= h - 1
  BY DEF h
<1>2. v % m = IF v < 0 THEN v + m ELSE v
  <2>1. CASE v < 0
    BY <1>1, <2>1, ModNegative
  <2>2. CASE ~(v < 0)
    BY <1>1, <2>2, ModSmall
  <2> QED BY <2>1, <2>2
<1>3. Signed(v % m, m) = IF v % m >= h THEN (v % m) - m ELSE v % m
  BY DEF Signed, h
<1> QED BY <1>1, <1>2, <1>3

(* A word of a conversion decodes to the value of the call.                *)
Fits(conversion, type) ==
  \A v \in Domain(conversion) :
    Decode(type, Encode(conversion, v)) = Meant(conversion, v)

LEMMA ConversionsFit ==
  /\ Fits("u32", "i32") /\ Fits("unsigned", "u32")
  /\ Fits("sx", "i64") /\ Fits("i64", "i64")
  /\ \A c \in {"ptr", "f64", "string", "size", "length", "clamped"} :
       \A t \in {"ptr", "f64", "string_id", "bytes_len"} : Fits(c, t)
<1>1. ASSUME NEW v \in Domain("u32")
      PROVE  Decode("i32", Encode("u32", v)) = v
  <2>1. v \in -(Word32 \div 2)..(Word32 \div 2)-1
    BY DEF Domain
  <2>2. v % Word32 \in 0..Word32-1 /\ Signed(v % Word32, Word32) = v
    BY <2>1, Widths, SignedBack
  <2>3. (v % Word32) % Word32 = v % Word32
    BY <2>2, Widths, ModSmall
  <2>4. Decode("i32", Encode("u32", v)) = Signed((v % Word32) % Word32, Word32)
    BY DEF Decode, Encode
  <2> QED BY <2>2, <2>3, <2>4
<1>2. ASSUME NEW v \in Domain("unsigned")
      PROVE  Decode("u32", Encode("unsigned", v)) = v
  <2>1. v \in 0..Word32-1
    BY DEF Domain
  <2>2. v % Word32 = v
    BY <2>1, Widths, ModSmall
  <2> QED BY <2>2 DEF Decode, Encode
<1>3. ASSUME NEW c \in {"sx", "i64"}, NEW v \in Domain(c)
      PROVE  Decode("i64", Encode(c, v)) = v
  <2>1. v \in -(Word64 \div 2)..(Word64 \div 2)-1
    <3>1. CASE c = "i64"
      BY <3>1 DEF Domain
    <3>2. CASE c = "sx"
      <4>1. v \in -(Word32 \div 2)..(Word32 \div 2)-1
        BY <3>2 DEF Domain
      <4> DEFINE a == Word32 \div 2
                 b == Word64 \div 2
      <4>2. a \in Nat /\ b \in Nat /\ a <= b
        BY Widths
      <4> HIDE DEF a, b
      <4>3. v \in -a..a-1
        BY <4>1 DEF a
      <4>4. v \in -b..b-1
        BY <4>2, <4>3
      <4> QED BY <4>4 DEF b
    <3> QED BY <3>1, <3>2
  <2>2. Signed(v % Word64, Word64) = v
    BY <2>1, Widths, SignedBack
  <2> QED BY <2>2 DEF Decode, Encode
<1>4. ASSUME NEW c \in {"ptr", "f64", "string", "size", "length", "clamped"},
             NEW t \in {"ptr", "f64", "string_id", "bytes_len"},
             NEW v \in Domain(c)
      PROVE  Decode(t, Encode(c, v)) = Meant(c, v)
  <2>1. Decode(t, Encode(c, v)) = Encode(c, v)
    BY DEF Decode
  <2>2. CASE c = "length"
    <3>1. v \in 0..(Word32 \div 2)-1
      BY <2>2 DEF Domain
    <3>2. v \in 0..Word32-1
      BY <3>1, Widths
    <3>3. v % Word32 = v
      BY <3>2, Widths, ModSmall
    <3> QED BY <2>1, <2>2, <3>3 DEF Encode, Meant
  <2>3. CASE c = "clamped"
    BY <2>1, <2>3 DEF Encode, Meant
  <2>4. CASE c \in {"ptr", "f64", "string", "size"}
    BY <2>1, <2>4 DEF Encode, Meant
  <2> QED BY <2>2, <2>3, <2>4
<1>5. /\ \A v : Meant("u32", v) = v /\ Meant("unsigned", v) = v
      /\ \A v : Meant("sx", v) = v /\ Meant("i64", v) = v
  BY DEF Meant
<1>6. Fits("u32", "i32") /\ Fits("unsigned", "u32")
  BY <1>1, <1>2, <1>5 DEF Fits
<1>7. Fits("sx", "i64") /\ Fits("i64", "i64")
  BY <1>3, <1>5 DEF Fits
<1> QED BY <1>4, <1>6, <1>7 DEF Fits

(* Events of one, two and three words.                                     *)
LEMMA CarriesOne ==
  ASSUME NEW c, NEW t, Fits(c, t)
  PROVE  Carries(<<c>>, <<t>>)
  BY DEF Carries, Fits

LEMMA CarriesTwo ==
  ASSUME NEW c, NEW t, Fits(c, t), NEW d, NEW u, Fits(d, u)
  PROVE  Carries(<<c, d>>, <<t, u>>)
  BY DEF Carries, Fits

LEMMA CarriesThree ==
  ASSUME NEW c, NEW t, Fits(c, t), NEW d, NEW u, Fits(d, u), NEW e, NEW w, Fits(e, w)
  PROVE  Carries(<<c, d, e>>, <<t, u, w>>)
  BY DEF Carries, Fits

(* The same for the argument lists that occur.                             *)
LEMMA ArgumentsFit ==
  /\ \A c \in {"ptr", "f64", "size", "length"} : \A t \in {"ptr", "f64", "bytes_len"} :
       Carries(<<c>>, <<t>>)
  /\ Carries(<<"string">>, <<"string_id">>) /\ Carries(<<"u32">>, <<"i32">>)
  /\ Carries(<<"sx">>, <<"i64">>) /\ Carries(<<"i64">>, <<"i64">>)
  /\ Carries(<<"ptr", "u32">>, <<"ptr", "i32">>)
  /\ Carries(<<"ptr", "string">>, <<"ptr", "string_id">>)
  /\ Carries(<<"string", "u32", "string">>, <<"string_id", "i32", "string_id">>)
  /\ Carries(<<"ptr", "string", "unsigned">>, <<"ptr", "string_id", "u32">>)
  /\ \A c \in {"f64", "length", "clamped", "size"} : \A t \in {"f64", "bytes_len"} :
       Carries(<<"ptr", "u32", c>>, <<"ptr", "i32", t>>)
  /\ \A c \in {"sx", "i64"} : Carries(<<"ptr", "u32", c>>, <<"ptr", "i32", "i64">>)
<1>1. \A c \in {"ptr", "f64", "size", "length"} : \A t \in {"ptr", "f64", "bytes_len"} :
        Carries(<<c>>, <<t>>)
  BY ConversionsFit, CarriesOne
<1>2. /\ Carries(<<"string">>, <<"string_id">>) /\ Carries(<<"u32">>, <<"i32">>)
      /\ Carries(<<"sx">>, <<"i64">>) /\ Carries(<<"i64">>, <<"i64">>)
  BY ConversionsFit, CarriesOne
<1>3. /\ Carries(<<"ptr", "u32">>, <<"ptr", "i32">>)
      /\ Carries(<<"ptr", "string">>, <<"ptr", "string_id">>)
  BY ConversionsFit, CarriesTwo
<1>4. Carries(<<"string", "u32", "string">>, <<"string_id", "i32", "string_id">>)
  BY ConversionsFit, CarriesThree
<1>5. Carries(<<"ptr", "string", "unsigned">>, <<"ptr", "string_id", "u32">>)
  BY ConversionsFit, CarriesThree
<1>6. ASSUME NEW c \in {"f64", "length", "clamped", "size"}, NEW t \in {"f64", "bytes_len"}
      PROVE  Carries(<<"ptr", "u32", c>>, <<"ptr", "i32", t>>)
  <2>1. Fits("ptr", "ptr") /\ Fits("u32", "i32") /\ Fits(c, t)
    BY ConversionsFit
  <2> QED BY <2>1, CarriesThree
<1>7. ASSUME NEW c \in {"sx", "i64"}
      PROVE  Carries(<<"ptr", "u32", c>>, <<"ptr", "i32", "i64">>)
  <2>1. Fits("ptr", "ptr") /\ Fits("u32", "i32") /\ Fits(c, "i64")
    BY ConversionsFit
  <2> QED BY <2>1, CarriesThree
<1> QED BY <1>1, <1>2, <1>3, <1>4, <1>5, <1>6, <1>7

(* A length in bytes does not say whether a pointer is NULL.               *)
LEMMA FlagIsNoLength == ~Carries(<<"flag">>, <<"bytes_len">>)
<1>1. 2 \in Domain("flag")
  BY Widths DEF Domain
<1>2. Decode("bytes_len", Encode("flag", 2)) # Meant("flag", 2)
  BY DEF Decode, Encode, Meant
<1> QED BY <1>1, <1>2 DEF Carries

(* Each wrapper's events carry what the vocabulary declares, but for one   *)
(* END.                                                                    *)
Described(f) ==
  /\ Carries(f.begin, Schema[f.span].begin)
  /\ f # sqlite3_column_blob => Carries(f.end, Schema[f.span].end)

LEMMA WrappersFit == WrappersDescribed
<1> USE ArgumentsFit DEF Schema, Args, Wrapper, Rc, OfStmt, OfColumn, OfBind
<1>1. /\ Described(sqlite3_open)
      /\ Described(sqlite3_open_v2)
      /\ Described(sqlite3_close)
      /\ Described(sqlite3_close_v2)
      /\ Described(sqlite3_prepare_v3)
  BY DEF Described, sqlite3_open, sqlite3_open_v2, sqlite3_close,
     sqlite3_close_v2, sqlite3_prepare_v3
<1>2. /\ Described(sqlite3_prepare_v2)
      /\ Described(sqlite3_step)
      /\ Described(sqlite3_reset)
      /\ Described(sqlite3_finalize)
      /\ Described(sqlite3_bind_int64)
  BY DEF Described, sqlite3_prepare_v2, sqlite3_step, sqlite3_reset,
     sqlite3_finalize, sqlite3_bind_int64
<1>3. /\ Described(sqlite3_bind_int)
      /\ Described(sqlite3_bind_null)
      /\ Described(sqlite3_bind_double)
      /\ Described(sqlite3_bind_text)
      /\ Described(sqlite3_bind_blob)
  BY DEF Described, sqlite3_bind_int, sqlite3_bind_null, sqlite3_bind_double,
     sqlite3_bind_text, sqlite3_bind_blob
<1>4. /\ Described(sqlite3_bind_blob64)
      /\ Described(sqlite3_clear_bindings)
      /\ Described(sqlite3_column_count)
      /\ Described(sqlite3_column_int)
      /\ Described(sqlite3_column_int64)
  BY DEF Described, sqlite3_bind_blob64, sqlite3_clear_bindings,
     sqlite3_column_count, sqlite3_column_int, sqlite3_column_int64
<1>5. /\ Described(sqlite3_column_double)
      /\ Described(sqlite3_column_text)
      /\ Described(sqlite3_column_bytes)
      /\ Described(sqlite3_exec)
      /\ Described(sqlite3_changes)
  BY DEF Described, sqlite3_column_double, sqlite3_column_text,
     sqlite3_column_bytes, sqlite3_exec, sqlite3_changes
<1>6. /\ Described(sqlite3_total_changes)
      /\ Described(sqlite3_last_insert_rowid)
      /\ Described(sqlite3_errcode)
      /\ Described(sqlite3_errmsg)
  BY DEF Described, sqlite3_total_changes, sqlite3_last_insert_rowid,
     sqlite3_errcode, sqlite3_errmsg
<1>7. Described(sqlite3_column_blob)
  BY DEF Described, sqlite3_column_blob
<1>8. \A f \in Wrappers : Described(f)
  BY <1>1, <1>2, <1>3, <1>4, <1>5, <1>6, <1>7 DEF Wrappers
<1>9. \A s, u \in DOMAIN SpanId : SpanId[s] = SpanId[u] => s = u
  BY DEF SpanId
<1>10. \A s \in DOMAIN SpanId : SpanId[s] < UserSpanIdStart
  BY DEF SpanId, UserSpanIdStart
<1>11. ~Carries(sqlite3_column_blob.end, Schema[sqlite3_column_blob.span].end)
  BY FlagIsNoLength DEF sqlite3_column_blob
<1> QED
  <2> HIDE DEF Schema
  <2> QED BY <1>8, <1>9, <1>10, <1>11 DEF WrappersDescribed, Described

(* The words of every event but the END of sqlite3_column_blob are as many *)
(* as the vocabulary declares for its span and decode to the values of the *)
(* call, and the word of that END does not: for every width of an int and  *)
(* of a word, 2^32 and 2^64 among them.                                    *)
THEOREM EventsAreDescribed == Spec => []EventsDescribed
<1>1. EventsDescribed
  BY WrappersFit DEF EventsDescribed
<1> QED BY <1>1, PTL
=============================================================================
