-------------------------- MODULE TraceRingProofs --------------------------
(***************************************************************************)
(* Proofs about TraceRing for any number of tracks, any ring size and any  *)
(* lengths of events.  RingInv is inductive; the safety properties are     *)
(* among its conjuncts.                                                    *)
(***************************************************************************)
EXTENDS TraceRing, SequenceTheorems, Recursion, TLAPS

(***************************************************************************)
(* Two counters less than a ring apart never share a slot, which is what   *)
(* makes (head + k) & mask safe to store to.                               *)
(***************************************************************************)
LEMMA SlotsApart ==
  ASSUME NEW p \in Nat, NEW q \in Nat, p < q, q < p + RingWords
  PROVE  Slot(p) # Slot(q)
<1> USE RingAssumption
<1>1. SUFFICES ASSUME p % RingWords = q % RingWords PROVE FALSE
  BY DEF Slot
<1>. DEFINE a == p \div RingWords
            b == q \div RingWords
<1>2. p = RingWords * a + (p % RingWords) /\ q = RingWords * b + (q % RingWords)
      /\ a \in Int /\ b \in Int
  OBVIOUS
<1>3. q - p = RingWords * (b - a)
  BY <1>1, <1>2
<1> HIDE DEF a, b
<1>4. b - a >= 1 \/ b - a <= 0
  BY <1>2
<1>5. CASE b - a >= 1
  <2>1. RingWords * (b - a) >= RingWords
    BY <1>2, <1>5
  <2> QED BY <2>1, <1>3
<1>6. CASE b - a <= 0
  <2>1. RingWords * (b - a) <= 0
    BY <1>2, <1>6
  <2> QED BY <2>1, <1>3
<1> QED BY <1>4, <1>5, <1>6

(***************************************************************************)
(* A store at head + k inside the free words misses every word m of an     *)
(* event that lies between tail and head.                                  *)
(***************************************************************************)
LEMMA StoreMissesCommitted ==
  ASSUME NEW tl \in Nat, NEW hd \in Nat, NEW pos \in Nat, NEW words \in Nat,
         NEW m \in 0..words-1, NEW k \in Nat,
         tl <= pos, pos + words <= hd, hd + k < tl + RingWords
  PROVE  Slot(pos + m) # Slot(hd + k)
<1> USE RingAssumption
<1>1. pos + m \in Nat /\ hd + k \in Nat
  OBVIOUS
<1>2. pos + m < hd + k /\ hd + k < (pos + m) + RingWords
  OBVIOUS
<1> QED BY ONLY <1>1, <1>2, SlotsApart

(* The slot of any counter is an index of the ring.                        *)
LEMMA SlotInRing ==
  ASSUME NEW p \in Nat
  PROVE  Slot(p) \in 0..RingWords-1
BY RingAssumption DEF Slot

-----------------------------------------------------------------------------
(* A track none of whose variables changes keeps its invariant.            *)
LEMMA Untouched ==
  ASSUME NEW t \in Tracks, TrackInv(t),
         head'[t] = head[t], tail'[t] = tail[t], dropped'[t] = dropped[t],
         data'[t] = data[t], pc'[t] = pc[t], ev'[t] = ev[t],
         next_word'[t] = next_word[t], issued'[t] = issued[t],
         buf'[t] = buf[t], log'[t] = log[t], drained'[t] = drained[t]
  PROVE  TrackInv(t)'
<1> USE DEF StartOf, Stored
<1>1. CursorsAgree(t)' BY DEF TrackInv, CursorsAgree
<1>2. LogTiled(t)'     BY DEF TrackInv, LogTiled
<1>3. WriteInPlace(t)' BY DEF TrackInv, WriteInPlace
<1>4. Intact(t)'       BY DEF TrackInv, Intact
<1>5. Faithful(t)'     BY DEF TrackInv, Faithful
<1>6. Accounted(t)'    BY DEF TrackInv, Accounted
<1> QED BY <1>1, <1>2, <1>3, <1>4, <1>5, <1>6 DEF TrackInv

(* Empty rings satisfy the invariant.                                      *)
LEMMA InitRingInv == Init => RingInv
<1> SUFFICES ASSUME Init PROVE RingInv
  OBVIOUS
<1> USE RingAssumption DEF Init
<1>1. TypeOK
  BY DEF TypeOK, Zero, Word, NoEvent, Words, Entries
<1>2. ASSUME NEW t \in Tracks PROVE TrackInv(t)
  BY DEF TrackInv, CursorsAgree, LogTiled, WriteInPlace, Intact, Faithful,
         Accounted, StartOf
<1> QED BY <1>1, <1>2 DEF RingInv

(* What TypeOK says of one track.                                          *)
LEMMA TrackTypes ==
  ASSUME TypeOK, NEW t \in Tracks
  PROVE  /\ head[t] \in Nat /\ tail[t] \in Nat /\ dropped[t] \in Nat
         /\ next_word[t] \in Nat /\ issued[t] \in 0..MaxWrites
         /\ Len(log[t]) \in Nat /\ Len(drained[t]) \in Nat
         /\ Len(buf[t]) \in Nat
         /\ log[t] \in Seq(Entries) /\ drained[t] \in Seq(Entries)
         /\ buf[t] \in Seq(Words)
         /\ data[t] \in [0..RingWords-1 -> Words]
         /\ \A i \in 1..Len(log[t]) :
              /\ log[t][i] \in Entries
              /\ log[t][i].pos \in Nat /\ log[t][i].words \in Nat
              /\ log[t][i].seq \in Nat
<1>1. log[t] \in Seq(Entries) /\ drained[t] \in Seq(Entries)
      /\ buf[t] \in Seq(Words)
  BY DEF TypeOK
<1>2. \A i \in 1..Len(log[t]) : log[t][i] \in Entries
  BY <1>1
<1>3. \A e \in Entries : e.pos \in Nat /\ e.words \in Nat /\ e.seq \in Nat
  BY RingAssumption DEF Entries
<1>4. head[t] \in Nat /\ tail[t] \in Nat /\ dropped[t] \in Nat
      /\ next_word[t] \in Nat /\ issued[t] \in 0..MaxWrites
      /\ data[t] \in [0..RingWords-1 -> Words]
  BY DEF TypeOK
<1> QED BY <1>1, <1>2, <1>3, <1>4

-----------------------------------------------------------------------------
(* One lemma for each action: the acting track keeps its invariant.        *)

LEMMA StartStep ==
  ASSUME TypeOK, NEW t \in Tracks, TrackInv(t),
         NEW needed \in 2..MaxEventWords, Start(t, needed)
  PROVE  TypeOK' /\ TrackInv(t)'
<1> USE RingAssumption
<1>0. UNCHANGED <<head, tail, dropped, data, total_events, total_dropped,
                  buf, log, drained>>
  BY DEF Start, ring, totals, consumer
<1>1. /\ pc[t] = "idle"
      /\ pc'[t] = IF HasRoom(t, needed) THEN "body" ELSE "drop"
      /\ issued'[t] = issued[t] + 1
      /\ ev'[t] = [seq |-> issued[t] + 1, words |-> needed]
      /\ ev'[t] \in Events
      /\ next_word'[t] = 1
  BY DEF Start, Goto, TypeOK, Events
<1>2. TypeOK'
  <2>1. ev' \in [Tracks -> Events \cup {NoEvent}]
    BY <1>1 DEF Start, TypeOK
  <2>2. pc' \in [Tracks -> {"idle", "body", "header", "commit", "count",
                           "drop", "drop_total", "dead"}]
    BY DEF Start, Goto, TypeOK
  <2>3. issued' \in [Tracks -> 0..MaxWrites] /\ next_word' \in [Tracks -> Nat]
    BY DEF Start, TypeOK
  <2> QED BY <1>0, <2>1, <2>2, <2>3 DEF TypeOK
<1>3. CursorsAgree(t)' /\ LogTiled(t)' /\ Intact(t)' /\ Faithful(t)'
  BY <1>0 DEF TrackInv, CursorsAgree, LogTiled, Intact, Faithful, StartOf
<1>4. Accounted(t) /\ issued[t] = Len(log[t]) + dropped[t]
  BY <1>1, TrackTypes DEF TrackInv, Accounted
<1>5. WriteInPlace(t)'
  <2>1. pc'[t] = "body" => head'[t] + ev'[t].words <= tail'[t] + RingWords
    BY <1>0, <1>1 DEF HasRoom
  <2>2. pc'[t] = "body" => Stored(t)' = {}
    BY <1>1 DEF Stored
  <2> QED BY <1>0, <1>1, <1>4, <2>1, <2>2, TrackTypes DEF WriteInPlace
<1>6. Accounted(t)'
  BY <1>0, <1>1, <1>4, TrackTypes DEF Accounted
<1> QED BY <1>2, <1>3, <1>5, <1>6 DEF TrackInv

(* Counting a drop touches no word.                                        *)
LEMMA CountDropStep ==
  ASSUME TypeOK, NEW t \in Tracks, TrackInv(t), CountDrop(t)
  PROVE  TypeOK' /\ TrackInv(t)'
<1>0. UNCHANGED <<head, tail, data, total_events, total_dropped, ev,
                  next_word, issued, buf, log, drained>>
  BY DEF CountDrop, totals, consumer
<1>1. pc[t] = "drop" /\ pc'[t] = "drop_total" /\ dropped'[t] = dropped[t] + 1
  BY DEF CountDrop, Goto, TypeOK
<1>2. TypeOK'
  <2>1. dropped' \in [Tracks -> Nat]
    BY DEF CountDrop, TypeOK
  <2>2. pc' \in [Tracks -> {"idle", "body", "header", "commit", "count",
                           "drop", "drop_total", "dead"}]
    BY DEF CountDrop, Goto, TypeOK
  <2> QED BY <1>0, <2>1, <2>2 DEF TypeOK
<1>3. CursorsAgree(t)' /\ LogTiled(t)' /\ Intact(t)' /\ Faithful(t)'
  BY <1>0 DEF TrackInv, CursorsAgree, LogTiled, Intact, Faithful, StartOf
<1>4. WriteInPlace(t)'
  <2>1. pc'[t] \notin {"body", "header", "commit", "drop"}
    BY <1>1
  <2> QED BY <2>1 DEF WriteInPlace
<1>5. Accounted(t)'
  <2>1. /\ Len(log[t]) \in Nat /\ dropped[t] \in Nat /\ issued[t] \in Nat
        /\ issued[t] = Len(log[t]) + dropped[t] + 1
        /\ \A i \in 1..Len(log[t]) : log[t][i].seq \in Nat
    BY <1>1, TrackTypes DEF TrackInv, WriteInPlace
  <2>2. \A i \in 1..Len(log[t]) : log[t][i].seq - i \in 0..dropped[t]
    BY DEF TrackInv, Accounted
  <2>3. \A i \in 1..Len(log[t]) : log[t][i].seq - i \in 0..dropped'[t]
    BY <1>1, <2>1, <2>2
  <2>4. issued[t] = Len(log[t]) + dropped'[t]
    BY <1>1, <2>1
  <2>5. issued[t] - (Len(log[t]) + dropped'[t]) \in 0..1
    BY <1>1, <2>1, <2>4
  <2> QED BY <1>0, <2>3, <2>4, <2>5 DEF Accounted
<1> QED BY <1>2, <1>3, <1>4, <1>5 DEF TrackInv

(* The steps that move only the program counter of a track on.             *)
LEMMA CounterStep ==
  ASSUME TypeOK, NEW t \in Tracks, TrackInv(t),
         CountTotalDrop(t) \/ CountEvent(t) \/ Crash(t)
  PROVE  TypeOK' /\ TrackInv(t)'
<1> USE DEF CountTotalDrop, CountEvent, Crash, Goto, ring, totals, consumer
<1>0. UNCHANGED <<head, tail, dropped, data, ev, next_word, issued, buf, log,
                  drained>>
  OBVIOUS
<1>1. /\ pc'[t] \in {"idle", "dead"}
      /\ pc'[t] = "idle" => pc[t] \in {"count", "drop_total"}
  BY DEF TypeOK
<1>2. TypeOK'
  <2>1. total_events' \in Nat /\ total_dropped' \in Nat
    BY DEF TypeOK
  <2>2. pc' \in [Tracks -> {"idle", "body", "header", "commit", "count",
                           "drop", "drop_total", "dead"}]
    BY DEF TypeOK
  <2> QED BY <1>0, <2>1, <2>2 DEF TypeOK
<1>3. CursorsAgree(t)' /\ LogTiled(t)' /\ Intact(t)' /\ Faithful(t)'
  BY <1>0 DEF TrackInv, CursorsAgree, LogTiled, Intact, Faithful, StartOf
<1>4. WriteInPlace(t)'
  BY <1>1 DEF WriteInPlace
<1>5. Accounted(t)'
  BY <1>0, <1>1 DEF TrackInv, Accounted
<1> QED BY <1>2, <1>3, <1>4, <1>5 DEF TrackInv

(***************************************************************************)
(* A store of word k of the event being written puts that word in place    *)
(* and disturbs neither a committed word nor another word of the event.    *)
(***************************************************************************)
LEMMA StoreIsPrivate ==
  ASSUME TypeOK, NEW t \in Tracks, TrackInv(t),
         pc[t] \in {"body", "header"},
         NEW k \in 0..ev[t].words-1, StoreWord(t, k),
         UNCHANGED <<head, log, drained>>
  PROVE  /\ data' \in [Tracks -> [0..RingWords-1 -> Words]]
         /\ Intact(t)'
         /\ data'[t][Slot(head[t] + k)] = Word(ev[t], k)
         /\ \A j \in 0..ev[t].words-1 :
              j # k => data'[t][Slot(head[t] + j)] = data[t][Slot(head[t] + j)]
<1>0. /\ ev[t] \in Events /\ ev[t].words \in Nat /\ ev[t].seq \in 0..MaxWrites
      /\ head[t] + ev[t].words <= tail[t] + RingWords
      /\ tail[t] <= head[t]
      /\ head[t] \in Nat /\ tail[t] \in Nat
      /\ RingWords \in Nat
  BY TrackTypes, RingAssumption
     DEF TrackInv, WriteInPlace, CursorsAgree, Events
<1>1. Word(ev[t], k) \in Words
  BY <1>0 DEF Word, Words, Events
<1>2. Slot(head[t] + k) \in 0..RingWords-1
  BY <1>0, SlotInRing
<1>3. data' \in [Tracks -> [0..RingWords-1 -> Words]]
  BY <1>1, <1>2 DEF StoreWord, TypeOK
<1>4. /\ data'[t][Slot(head[t] + k)] = Word(ev[t], k)
      /\ \A s \in 0..RingWords-1 :
           s # Slot(head[t] + k) => data'[t][s] = data[t][s]
  BY <1>2 DEF StoreWord, TypeOK
<1>5. \A j \in 0..ev[t].words-1 :
        j # k => data'[t][Slot(head[t] + j)] = data[t][Slot(head[t] + j)]
  <2> SUFFICES ASSUME NEW j \in 0..ev[t].words-1, j # k
               PROVE  Slot(head[t] + j) # Slot(head[t] + k)
    BY <1>0, <1>4, SlotInRing
  <2>1. CASE j < k
    BY <2>1, <1>0, SlotsApart
  <2>2. CASE k < j
    BY <2>2, <1>0, SlotsApart
  <2> QED BY <2>1, <2>2
<1>6. Intact(t)'
  <2> SUFFICES ASSUME NEW i \in Len(drained[t])+1..Len(log[t]),
                      NEW m \in 0..log[t][i].words-1
               PROVE  data'[t][Slot(log[t][i].pos + m)] = Word(log[t][i], m)
    BY DEF Intact
  <2>1. i \in 1..Len(log[t]) /\ i > Len(drained[t])
    BY TrackTypes
  <2>2. /\ log[t][i].pos \in Nat /\ log[t][i].words \in Nat
        /\ tail[t] <= log[t][i].pos
        /\ log[t][i].pos + log[t][i].words <= head[t]
    BY <2>1, TrackTypes DEF TrackInv, LogTiled
  <2>3. Slot(log[t][i].pos + m) # Slot(head[t] + k)
    <3>1. k \in Nat /\ head[t] + k < tail[t] + RingWords
      BY <1>0
    <3> QED BY <1>0, <2>2, <3>1, StoreMissesCommitted
  <2>4. Slot(log[t][i].pos + m) \in 0..RingWords-1
    <3>1. log[t][i].pos + m \in Nat
      BY <2>2
    <3> QED BY ONLY <3>1, SlotInRing
  <2> QED BY <1>4, <2>3, <2>4 DEF TrackInv, Intact
<1> QED BY <1>3, <1>4, <1>5, <1>6

(* A payload word goes into the free words.                                *)
LEMMA StoreBodyStep ==
  ASSUME TypeOK, NEW t \in Tracks, TrackInv(t), StoreBody(t)
  PROVE  TypeOK' /\ TrackInv(t)'
<1> DEFINE k == next_word[t]
<1>0. UNCHANGED <<head, tail, dropped, total_events, total_dropped, ev,
                  issued, buf, log, drained>>
  BY DEF StoreBody, totals, consumer
<1>1. /\ pc[t] = "body" /\ StoreWord(t, k)
      /\ next_word'[t] = k + 1
      /\ pc'[t] = IF k + 1 = ev[t].words THEN "header" ELSE "body"
  BY DEF StoreBody, Goto, TypeOK
<1>2. k \in 1..ev[t].words-1 /\ ev[t].words \in Nat /\ k \in Nat
  BY <1>1, TrackTypes, RingAssumption DEF TrackInv, WriteInPlace, Events
<1>3. /\ data' \in [Tracks -> [0..RingWords-1 -> Words]]
      /\ Intact(t)'
      /\ data'[t][Slot(head[t] + k)] = Word(ev[t], k)
      /\ \A j \in 0..ev[t].words-1 :
           j # k => data'[t][Slot(head[t] + j)] = data[t][Slot(head[t] + j)]
  BY <1>0, <1>1, <1>2, StoreIsPrivate
<1>4. TypeOK'
  <2>1. pc' \in [Tracks -> {"idle", "body", "header", "commit", "count",
                           "drop", "drop_total", "dead"}]
    BY DEF StoreBody, Goto, TypeOK
  <2>2. next_word' \in [Tracks -> Nat]
    BY DEF StoreBody, TypeOK
  <2> QED BY <1>0, <1>3, <2>1, <2>2 DEF TypeOK
<1>5. CursorsAgree(t)' /\ LogTiled(t)' /\ Faithful(t)'
  BY <1>0 DEF TrackInv, CursorsAgree, LogTiled, Faithful, StartOf
<1>6. Accounted(t)'
  BY <1>0, <1>1 DEF TrackInv, Accounted
<1>7. WriteInPlace(t)'
  <2>1. /\ ev[t] \in Events
        /\ head[t] + ev[t].words <= tail[t] + RingWords
        /\ ev[t].seq = issued[t]
        /\ issued[t] = Len(log[t]) + dropped[t] + 1
        /\ \A j \in 1..k-1 : data[t][Slot(head[t] + j)] = Word(ev[t], j)
    BY <1>1 DEF TrackInv, WriteInPlace, Stored
  <2>2. Stored(t)' = 1..k
    BY <1>0, <1>1, <1>2 DEF Stored
  <2>3. \A j \in 1..k : data'[t][Slot(head[t] + j)] = Word(ev[t], j)
    BY <1>2, <1>3, <2>1
  <2>4. pc'[t] = "body" => next_word'[t] \in 1..ev[t].words-1
    BY <1>1, <1>2
  <2>5. pc'[t] # "drop"
    BY <1>1
  <2> QED BY <1>0, <2>1, <2>2, <2>3, <2>4, <2>5 DEF WriteInPlace
<1> QED BY <1>3, <1>4, <1>5, <1>6, <1>7 DEF TrackInv

(* So does the header word, the last one of its event to be stored.        *)
LEMMA StoreHeaderStep ==
  ASSUME TypeOK, NEW t \in Tracks, TrackInv(t), StoreHeader(t)
  PROVE  TypeOK' /\ TrackInv(t)'
<1>0. UNCHANGED <<head, tail, dropped, total_events, total_dropped, ev,
                  next_word, issued, buf, log, drained>>
  BY DEF StoreHeader, totals, consumer
<1>1. pc[t] = "header" /\ StoreWord(t, 0) /\ pc'[t] = "commit"
  BY DEF StoreHeader, Goto, TypeOK
<1>2. ev[t].words \in Nat /\ 0 \in 0..ev[t].words-1
  BY <1>1, RingAssumption DEF TrackInv, WriteInPlace, Events
<1>3. /\ data' \in [Tracks -> [0..RingWords-1 -> Words]]
      /\ Intact(t)'
      /\ data'[t][Slot(head[t] + 0)] = Word(ev[t], 0)
      /\ \A j \in 0..ev[t].words-1 :
           j # 0 => data'[t][Slot(head[t] + j)] = data[t][Slot(head[t] + j)]
  BY <1>0, <1>1, <1>2, StoreIsPrivate
<1>4. TypeOK'
  <2>1. pc' \in [Tracks -> {"idle", "body", "header", "commit", "count",
                           "drop", "drop_total", "dead"}]
    BY DEF StoreHeader, Goto, TypeOK
  <2> QED BY <1>0, <1>3, <2>1 DEF TypeOK
<1>5. CursorsAgree(t)' /\ LogTiled(t)' /\ Faithful(t)'
  BY <1>0 DEF TrackInv, CursorsAgree, LogTiled, Faithful, StartOf
<1>6. Accounted(t)'
  BY <1>0, <1>1 DEF TrackInv, Accounted
<1>7. WriteInPlace(t)'
  <2>1. /\ ev[t] \in Events
        /\ head[t] + ev[t].words <= tail[t] + RingWords
        /\ ev[t].seq = issued[t]
        /\ issued[t] = Len(log[t]) + dropped[t] + 1
        /\ \A j \in 1..ev[t].words-1 :
             data[t][Slot(head[t] + j)] = Word(ev[t], j)
    BY <1>1 DEF TrackInv, WriteInPlace, Stored
  <2>2. Stored(t)' = 0..ev[t].words-1
    BY <1>0, <1>1 DEF Stored
  <2>3. \A j \in 0..ev[t].words-1 :
          data'[t][Slot(head[t] + j)] = Word(ev[t], j)
    BY <1>2, <1>3, <2>1
  <2> QED BY <1>0, <1>1, <2>1, <2>2, <2>3 DEF WriteInPlace
<1> QED BY <1>3, <1>4, <1>5, <1>6, <1>7 DEF TrackInv

(* The new head takes the stored event over whole.                         *)
LEMMA CommitStep ==
  ASSUME TypeOK, NEW t \in Tracks, TrackInv(t), Commit(t)
  PROVE  TypeOK' /\ TrackInv(t)'
<1> DEFINE e == [seq |-> ev[t].seq, words |-> ev[t].words, pos |-> head[t]]
           n == Len(log[t])
<1>0. UNCHANGED <<tail, dropped, data, total_events, total_dropped, ev,
                  next_word, issued, buf, drained>>
  BY DEF Commit, totals, consumer
<1>1. /\ pc[t] = "commit" /\ pc'[t] = "count"
      /\ head'[t] = head[t] + ev[t].words
      /\ log'[t] = Append(log[t], e)
  BY DEF Commit, Goto, TypeOK
<1>2. /\ ev[t] \in Events
      /\ ev[t].words \in 2..MaxEventWords /\ ev[t].seq \in 1..MaxWrites
      /\ ev[t].words \in Nat /\ ev[t].seq \in Nat
      /\ head[t] + ev[t].words <= tail[t] + RingWords
      /\ ev[t].seq = issued[t]
      /\ issued[t] = n + dropped[t] + 1
      /\ \A k \in 0..ev[t].words-1 : data[t][Slot(head[t] + k)] = Word(ev[t], k)
  BY <1>1, RingAssumption DEF TrackInv, WriteInPlace, Stored, Events
<1>3. /\ head[t] \in Nat /\ tail[t] \in Nat /\ dropped[t] \in Nat
      /\ n \in Nat /\ Len(drained[t]) \in Nat
      /\ Len(drained[t]) <= n
      /\ tail[t] <= head[t]
  BY TrackTypes DEF TrackInv, CursorsAgree
<1>4. e \in Entries
  BY <1>2, <1>3 DEF Entries
<1>5. /\ Len(log'[t]) = n + 1
      /\ log'[t][n + 1] = e
      /\ \A i \in 1..n : log'[t][i] = log[t][i]
      /\ log'[t] \in Seq(Entries)
  BY <1>1, <1>4, TrackTypes
<1>5a. /\ log'[t][n + 1].pos = head[t] /\ log'[t][n + 1].words = ev[t].words
       /\ log'[t][n + 1].seq = ev[t].seq
  BY <1>5
<1> HIDE DEF e
<1>6. TypeOK'
  <2>1. pc' \in [Tracks -> {"idle", "body", "header", "commit", "count",
                           "drop", "drop_total", "dead"}]
    BY DEF Commit, Goto, TypeOK
  <2>2. head' \in [Tracks -> Nat]
    BY <1>2 DEF Commit, TypeOK
  <2>3. log' \in [Tracks -> Seq(Entries)]
    BY <1>5, <1>1 DEF Commit, TypeOK
  <2> QED BY <1>0, <2>1, <2>2, <2>3 DEF TypeOK
<1>7. \A i \in 1..n+1 : StartOf(t, i)' = StartOf(t, i)
  <2> SUFFICES ASSUME NEW i \in 1..n+1 PROVE StartOf(t, i)' = StartOf(t, i)
    OBVIOUS
  <2>1. StartOf(t, i)' = log'[t][i].pos
    BY <1>3, <1>5 DEF StartOf
  <2>2. CASE i \in 1..n
    BY <2>1, <2>2, <1>3, <1>5 DEF StartOf
  <2>3. CASE i = n + 1
    BY <2>1, <2>3, <1>3, <1>5a DEF StartOf
  <2> QED BY <1>3, <2>2, <2>3
<1>8. CursorsAgree(t)'
  <2>1. tail'[t] = StartOf(t, Len(drained[t]) + 1)'
    BY <1>0, <1>3, <1>7 DEF TrackInv, CursorsAgree
  <2> QED BY SMTT(20), <1>0, <1>1, <1>2, <1>3, <1>5, <2>1 DEF CursorsAgree
<1>9. LogTiled(t)'
  <2> SUFFICES ASSUME NEW i \in 1..n+1
               PROVE  /\ log'[t][i].pos + log'[t][i].words = StartOf(t, i + 1)'
                      /\ log'[t][i].pos + log'[t][i].words <= head'[t]
                      /\ \A j \in i+1..n+1 :
                           log'[t][i].pos + log'[t][i].words <= log'[t][j].pos
                      /\ i > Len(drained[t]) => tail[t] <= log'[t][i].pos
    BY <1>0, <1>5 DEF LogTiled
  <2>1. CASE i \in 1..n
    <3>1. /\ log[t][i].pos + log[t][i].words = StartOf(t, i + 1)
          /\ log[t][i].pos + log[t][i].words <= head[t]
          /\ \A j \in i+1..n : log[t][i].pos + log[t][i].words <= log[t][j].pos
          /\ i > Len(drained[t]) => tail[t] <= log[t][i].pos
      BY <2>1 DEF TrackInv, LogTiled
    <3>2. log[t][i].pos \in Nat /\ log[t][i].words \in Nat
      BY <2>1, TrackTypes
    <3>3. StartOf(t, i + 1)' = StartOf(t, i + 1)
      BY <2>1, <1>3, <1>7
    <3>4. log'[t][i] = log[t][i]
      BY <2>1, <1>5
    <3>5. \A j \in i+1..n+1 : log[t][i].pos + log[t][i].words <= log'[t][j].pos
      <4> SUFFICES ASSUME NEW j \in i+1..n+1
                   PROVE  log[t][i].pos + log[t][i].words <= log'[t][j].pos
        OBVIOUS
      <4>1. CASE j = n + 1
        BY <4>1, <1>5a, <3>1
      <4>2. CASE j # n + 1
        <5>1. j \in i+1..n /\ j \in 1..n
          BY <4>2, <1>3, <2>1
        <5> QED BY <5>1, <1>5, <3>1
      <4> QED BY <4>1, <4>2
    <3>6. log[t][i].pos + log[t][i].words <= head'[t]
      <4>1. /\ head'[t] = head[t] + ev[t].words /\ ev[t].words \in Nat
            /\ head[t] \in Nat
        BY <1>1, <1>2, <1>3
      <4>2. log[t][i].pos + log[t][i].words <= head[t]
        BY <3>1
      <4> QED BY ONLY <4>1, <4>2, <3>2
    <3> QED BY <3>1, <3>3, <3>4, <3>5, <3>6
  <2>2. CASE i = n + 1
    <3>1. StartOf(t, i + 1)' = head'[t]
      BY <2>2, <1>3, <1>5 DEF StartOf
    <3>2. i+1..n+1 = {}
      BY <2>2, <1>3
    <3>3. log'[t][i].pos = head[t] /\ log'[t][i].words = ev[t].words
      BY <2>2, <1>5a
    <3>4. /\ log'[t][i].pos + log'[t][i].words = head'[t]
          /\ tail[t] <= log'[t][i].pos
      BY <1>1, <1>3, <3>3
    <3>5. head'[t] <= head'[t]
      BY <1>1, <1>2, <1>3
    <3> QED BY ONLY <3>1, <3>2, <3>4, <3>5
  <2> QED BY <1>3, <2>1, <2>2
<1>10. Intact(t)'
  <2> SUFFICES ASSUME NEW i \in Len(drained[t])+1..n+1,
                      NEW m \in 0..log'[t][i].words-1
               PROVE  data[t][Slot(log'[t][i].pos + m)] = Word(log'[t][i], m)
    BY <1>0, <1>5 DEF Intact
  <2>1. CASE i <= n
    BY SMTT(20), <2>1, <1>3, <1>5 DEF TrackInv, Intact
  <2>2. CASE i = n + 1
    <3>1. /\ log'[t][i].pos = head[t] /\ log'[t][i].words = ev[t].words
          /\ Word(log'[t][i], m) = Word(ev[t], m)
      BY <2>2, <1>5a DEF Word
    <3>2. m \in 0..ev[t].words-1
      BY <3>1
    <3> QED BY <1>2, <3>1, <3>2
  <2> QED BY <1>3, <2>1, <2>2
<1>11. Faithful(t)'
  <2>1. \A i \in 1..Len(drained[t]) : drained[t][i] = log'[t][i]
    BY <1>3, <1>5 DEF TrackInv, Faithful
  <2>2. ASSUME buf[t] # <<>>
        PROVE  Len(drained[t]) + 1 \in 1..n
    BY <2>2, <1>3 DEF TrackInv, Faithful
  <2>3. ASSUME buf[t] # <<>>
        PROVE  log'[t][Len(drained[t]) + 1] = log[t][Len(drained[t]) + 1]
    BY <2>2, <2>3, <1>5
  <2>4. ASSUME buf[t] # <<>>
        PROVE  /\ Len(drained[t]) < n
               /\ Len(buf[t]) <= log[t][Len(drained[t]) + 1].words
               /\ \A k \in 1..Len(buf[t]) :
                    buf[t][k] = Word(log[t][Len(drained[t]) + 1], k - 1)
    BY <2>4 DEF TrackInv, Faithful
  <2>5. /\ buf' = buf /\ drained' = drained /\ Len(log'[t]) = n + 1
        /\ Len(drained[t]) <= n + 1
        /\ Len(drained[t]) < n => Len(drained[t]) < n + 1
    BY <1>0, <1>3, <1>5
  <2> HIDE DEF n
  <2> QED BY ONLY <2>1, <2>3, <2>4, <2>5 DEF Faithful
<1>12. Accounted(t)'
  <2>1. \A i \in 1..n : log'[t][i].seq - i \in 0..dropped[t]
    BY <1>5 DEF TrackInv, Accounted
  <2>2. log'[t][n + 1].seq - (n + 1) = dropped[t]
    <3>1. log'[t][n + 1].seq = n + dropped[t] + 1
      BY <1>2, <1>5a
    <3> QED BY ONLY <1>3, <3>1
  <2>3. \A i \in 1..n+1 : log'[t][i].seq - i \in 0..dropped[t]
    BY <1>3, <2>1, <2>2
  <2>4. issued[t] - (n + 1 + dropped[t]) = 0
    BY <1>2, <1>3
  <2>5. /\ Len(log'[t]) = n + 1
        /\ dropped'[t] = dropped[t] /\ issued'[t] = issued[t]
    BY <1>0, <1>5
  <2>6. issued[t] = n + 1 + dropped[t] /\ issued[t] - (n + 1 + dropped[t]) \in 0..1
    BY <1>2, <1>3
  <2> QED BY <2>3, <2>5, <2>6 DEF Accounted
<1>13. WriteInPlace(t)'
  BY <1>1 DEF WriteInPlace
<1> QED BY <1>6, <1>8, <1>9, <1>10, <1>11, <1>12, <1>13 DEF TrackInv

(* The consumer reads a word the producer does not write.                  *)
LEMMA DrainWordStep ==
  ASSUME TypeOK, NEW t \in Tracks, TrackInv(t), DrainWord(t)
  PROVE  TypeOK' /\ TrackInv(t)'
<1> DEFINE n == Len(drained[t])
           b == Len(buf[t])
           w == data[t][Slot(tail[t] + b)]
<1>0. UNCHANGED <<head, tail, dropped, data, total_events, total_dropped, pc,
                  ev, next_word, issued, log, drained>>
  BY DEF DrainWord, ring, totals, producer
<1>1. /\ tail[t] < head[t]
      /\ buf[t] # <<>> => b < buf[t][1].words
      /\ buf'[t] = Append(buf[t], w)
  BY DEF DrainWord, TypeOK
<1>2. /\ head[t] \in Nat /\ tail[t] \in Nat /\ b \in Nat /\ n \in Nat
      /\ buf[t] \in Seq(Words) /\ Len(log[t]) \in Nat
      /\ w \in Words
  <2>1. tail[t] + b \in Nat
    BY TrackTypes
  <2>2. Slot(tail[t] + b) \in 0..RingWords-1
    BY <2>1, SlotInRing
  <2> QED BY <2>2, TrackTypes
(* Behind head there is an event the consumer has not taken.               *)
<1>3. n < Len(log[t]) /\ tail[t] = log[t][n + 1].pos
  BY <1>1, <1>2 DEF TrackInv, CursorsAgree, StartOf
<1>4. log[t][n + 1] \in Entries /\ log[t][n + 1].words \in 2..MaxEventWords
      /\ log[t][n + 1].words \in Nat /\ log[t][n + 1].words >= 2
  <2>1. n + 1 \in 1..Len(log[t])
    BY <1>2, <1>3
  <2>2. log[t][n + 1] \in Entries
    BY <2>1, TrackTypes
  <2> QED BY <2>2, RingAssumption DEF Entries
<1>5. b < log[t][n + 1].words
  <2>1. CASE buf[t] = <<>>
    BY <2>1, <1>4
  <2>2. CASE buf[t] # <<>>
    <3>1. b >= 1
      BY <2>2, <1>2
    <3>2. buf[t][1] = Word(log[t][n + 1], 0)
      BY <1>2, <2>2, <3>1 DEF TrackInv, Faithful
    <3> QED BY <2>2, <1>1, <3>2 DEF Word
  <2> QED BY <2>1, <2>2
<1>6. w = Word(log[t][n + 1], b)
  <2>1. n + 1 \in n+1..Len(log[t]) /\ b \in 0..log[t][n + 1].words-1
    BY <1>2, <1>3, <1>4, <1>5
  <2> QED BY <1>3, <2>1 DEF TrackInv, Intact
<1>7. /\ Len(buf'[t]) = b + 1
      /\ buf'[t][b + 1] = w
      /\ \A k \in 1..b : buf'[t][k] = buf[t][k]
      /\ buf'[t] \in Seq(Words)
  BY <1>1, <1>2
<1>8. TypeOK'
  <2>1. buf' \in [Tracks -> Seq(Words)]
    BY <1>1, <1>7 DEF DrainWord, TypeOK
  <2> QED BY <1>0, <2>1 DEF TypeOK
<1>9. CursorsAgree(t)' /\ LogTiled(t)' /\ Intact(t)' /\ Accounted(t)'
  BY <1>0 DEF TrackInv, CursorsAgree, LogTiled, Intact, Accounted, StartOf
<1>10. WriteInPlace(t)'
  BY <1>0 DEF TrackInv, WriteInPlace, Stored
<1>11. Faithful(t)'
  <2>1. \A k \in 1..b : buf[t][k] = Word(log[t][n + 1], k - 1)
    BY <1>2 DEF TrackInv, Faithful
  <2>2. \A k \in 1..b+1 : buf'[t][k] = Word(log[t][n + 1], k - 1)
    <3> SUFFICES ASSUME NEW k \in 1..b+1
                 PROVE  buf'[t][k] = Word(log[t][n + 1], k - 1)
      OBVIOUS
    <3>1. CASE k = b + 1
      <4>1. k - 1 = b
        BY <3>1, <1>2
      <4> QED BY <3>1, <4>1, <1>6, <1>7
    <3>2. CASE k # b + 1
      <4>1. k \in 1..b
        BY <3>2, <1>2
      <4> QED BY <4>1, <1>7, <2>1
    <3> QED BY <3>1, <3>2
  <2>3. \A i \in 1..n : drained[t][i] = log[t][i]
    BY DEF TrackInv, Faithful
  <2>4. Len(buf'[t]) = b + 1 /\ b + 1 <= log[t][n + 1].words
    BY <1>2, <1>4, <1>5, <1>7
  <2>5. drained'[t] = drained[t] /\ log'[t] = log[t]
    BY <1>0
  <2> QED BY <1>3, <2>2, <2>3, <2>4, <2>5, <1>2 DEF Faithful
<1> QED BY <1>8, <1>9, <1>10, <1>11 DEF TrackInv

(* An event read whole is freed whole.                                     *)
LEMMA DrainEventStep ==
  ASSUME TypeOK, NEW t \in Tracks, TrackInv(t), DrainEvent(t)
  PROVE  TypeOK' /\ TrackInv(t)'
<1> DEFINE n == Len(drained[t])
           e == log[t][n + 1]
<1>0. UNCHANGED <<head, dropped, data, total_events, total_dropped, pc,
                  ev, next_word, issued, log>>
  BY DEF DrainEvent, totals, producer
<1>1. /\ buf[t] # <<>>
      /\ Len(buf[t]) = buf[t][1].words
      /\ drained'[t] = Append(drained[t], [seq |-> buf[t][1].seq,
                                           words |-> buf[t][1].words,
                                           pos |-> tail[t]])
      /\ tail'[t] = tail[t] + buf[t][1].words
      /\ buf'[t] = <<>>
  BY DEF DrainEvent, TypeOK
<1>2. /\ head[t] \in Nat /\ tail[t] \in Nat /\ n \in Nat
      /\ buf[t] \in Seq(Words) /\ Len(buf[t]) \in Nat /\ Len(log[t]) \in Nat
      /\ drained[t] \in Seq(Entries)
  BY TrackTypes
<1>3. /\ n < Len(log[t])
      /\ buf[t][1] = Word(e, 0)
      /\ tail[t] = e.pos
  BY <1>1, <1>2 DEF TrackInv, Faithful, CursorsAgree, StartOf
<1>4. /\ e \in Entries /\ e.words \in Nat /\ e.pos \in Nat /\ e.words >= 2
      /\ e = [seq |-> e.seq, words |-> e.words, pos |-> e.pos]
  <2>1. n + 1 \in 1..Len(log[t])
    BY <1>2, <1>3
  <2>2. e \in Entries
    BY <2>1, TrackTypes
  <2> HIDE DEF e
  <2> QED BY <2>2, RingAssumption DEF Entries
<1>5. drained'[t] = Append(drained[t], e) /\ tail'[t] = tail[t] + e.words
  BY <1>1, <1>3, <1>4 DEF Word
<1>6. /\ Len(drained'[t]) = n + 1
      /\ drained'[t][n + 1] = e
      /\ \A i \in 1..n : drained'[t][i] = drained[t][i]
      /\ drained'[t] \in Seq(Entries)
  BY <1>2, <1>4, <1>5
<1>7. TypeOK'
  <2>1. drained' \in [Tracks -> Seq(Entries)]
    BY <1>6, <1>1 DEF DrainEvent, TypeOK
  <2>2. tail' \in [Tracks -> Nat]
    <3>1. buf[t][1].words \in Nat
      BY <1>3, <1>4 DEF Word
    <3>2. tail' = [tail EXCEPT ![t] = @ + buf[t][1].words]
      BY DEF DrainEvent
    <3>3. tail \in [Tracks -> Nat]
      BY DEF TypeOK
    <3> QED BY ONLY <3>1, <3>2, <3>3
  <2>3. buf' \in [Tracks -> Seq(Words)]
    BY DEF DrainEvent, TypeOK
  <2> QED BY <1>0, <2>1, <2>2, <2>3 DEF TypeOK
<1>8. /\ \A i \in Int : StartOf(t, i)' = StartOf(t, i)
      /\ e.pos + e.words = StartOf(t, (n + 1) + 1)
      /\ e.pos + e.words <= head[t]
      /\ \A j \in (n+1)+1..Len(log[t]) : e.pos + e.words <= log[t][j].pos
  <2>1. n + 1 \in 1..Len(log[t])
    BY <1>2, <1>3
  <2>2. \A i \in Int : StartOf(t, i)' = StartOf(t, i)
    BY <1>0 DEF StartOf
  <2> QED BY <2>1, <2>2 DEF TrackInv, LogTiled
<1>9. CursorsAgree(t)'
  BY SMTT(20), <1>0, <1>2, <1>3, <1>4, <1>5, <1>6, <1>8, RingAssumption
     DEF TrackInv, CursorsAgree
<1>10. LogTiled(t)'
  <2> SUFFICES ASSUME NEW i \in 1..Len(log[t])
               PROVE  /\ log[t][i].pos + log[t][i].words = StartOf(t, i + 1)
                      /\ log[t][i].pos + log[t][i].words <= head[t]
                      /\ \A j \in i+1..Len(log[t]) :
                           log[t][i].pos + log[t][i].words <= log[t][j].pos
                      /\ i > n + 1 => tail'[t] <= log[t][i].pos
    BY <1>0, <1>2, <1>6, <1>8 DEF LogTiled
  <2>1. i > n + 1 => e.pos + e.words <= log[t][i].pos
    <3>1. i > n + 1 => i \in (n+1)+1..Len(log[t])
      BY <1>2
    <3> QED BY <3>1, <1>8
  <2> QED BY <1>3, <1>5, <2>1 DEF TrackInv, LogTiled
<1>11. Intact(t)'
  <2>1. \A i \in Len(drained'[t])+1..Len(log[t]) : i \in n+1..Len(log[t])
    BY <1>2, <1>6
  <2>2. \A i \in n+1..Len(log[t]) : \A k \in 0..log[t][i].words-1 :
          data[t][Slot(log[t][i].pos + k)] = Word(log[t][i], k)
    BY DEF TrackInv, Intact
  <2> QED BY ONLY <1>0, <2>1, <2>2 DEF Intact
<1>12. Faithful(t)'
  <2>1. \A i \in 1..n : drained[t][i] = log[t][i]
    BY DEF TrackInv, Faithful
  <2>2. \A i \in 1..n+1 : drained'[t][i] = log[t][i]
    BY SMTT(20), <1>2, <1>6, <2>1
  <2>3. /\ Len(drained'[t]) = n + 1 /\ n + 1 <= Len(log'[t])
        /\ buf'[t] = <<>> /\ log' = log
    BY <1>0, <1>1, <1>2, <1>3, <1>6
  <2> QED BY ONLY <2>2, <2>3 DEF Faithful
<1>13. Accounted(t)'
  BY <1>0 DEF TrackInv, Accounted
<1>14. WriteInPlace(t)'
  <2>1. Stored(t)' = Stored(t)
    BY <1>0 DEF Stored
  <2>2. ev[t] \in Events /\ head[t] + ev[t].words <= tail[t] + RingWords =>
          head[t] + ev[t].words <= tail'[t] + RingWords
    <3>1. \A v \in Events : v.words \in Nat
      BY RingAssumption DEF Events
    <3>2. tail'[t] >= tail[t] /\ tail'[t] \in Nat
      BY <1>2, <1>4, <1>5
    <3> QED BY <1>2, <3>1, <3>2, RingAssumption
  <2> QED BY <1>0, <2>1, <2>2 DEF TrackInv, WriteInPlace
<1> QED BY <1>7, <1>9, <1>10, <1>11, <1>12, <1>13, <1>14 DEF TrackInv

-----------------------------------------------------------------------------
(* An action of t leaves the variables of every other track alone.         *)
LEMMA OthersKept ==
  ASSUME TypeOK, NEW t \in Tracks, NEW u \in Tracks, u # t, Step(t)
  PROVE  /\ head'[u] = head[u] /\ tail'[u] = tail[u]
         /\ dropped'[u] = dropped[u] /\ data'[u] = data[u]
         /\ pc'[u] = pc[u] /\ ev'[u] = ev[u] /\ next_word'[u] = next_word[u]
         /\ issued'[u] = issued[u] /\ buf'[u] = buf[u] /\ log'[u] = log[u]
         /\ drained'[u] = drained[u]
<1> USE DEF TypeOK, Goto, StoreWord, ring, totals, producer, consumer
<1>1. CASE \E needed \in 2..MaxEventWords : Start(t, needed)
  BY <1>1 DEF Start
<1>2. CASE CountDrop(t)
  BY <1>2 DEF CountDrop
<1>3. CASE CountTotalDrop(t)
  BY <1>3 DEF CountTotalDrop
<1>4. CASE StoreBody(t)
  BY <1>4 DEF StoreBody
<1>5. CASE StoreHeader(t)
  BY <1>5 DEF StoreHeader
<1>6. CASE Commit(t)
  BY <1>6 DEF Commit
<1>7. CASE CountEvent(t)
  BY <1>7 DEF CountEvent
<1>8. CASE Crash(t)
  BY <1>8 DEF Crash
<1>9. CASE DrainWord(t)
  BY <1>9 DEF DrainWord
<1>10. CASE DrainEvent(t)
  BY <1>10 DEF DrainEvent
<1> QED BY <1>1, <1>2, <1>3, <1>4, <1>5, <1>6, <1>7, <1>8, <1>9, <1>10
        DEF Step, Write, Drain

(* Every step keeps the invariant on every track.                          *)
LEMMA StepRingInv == RingInv /\ [Next]_vars => RingInv'
<1> SUFFICES ASSUME RingInv, [Next]_vars PROVE RingInv'
  OBVIOUS
<1>1. TypeOK /\ \A t \in Tracks : TrackInv(t)
  BY DEF RingInv
<1>2. CASE UNCHANGED vars
  <2>1. UNCHANGED <<head, tail, dropped, data, total_events, total_dropped, pc,
                    ev, next_word, issued, buf, log, drained>>
    BY <1>2 DEF vars, ring, totals, producer, consumer
  <2>2. TypeOK'
    BY <1>1, <2>1 DEF TypeOK
  <2>3. \A t \in Tracks : TrackInv(t)'
    BY <1>1, <2>1, Untouched
  <2> QED BY <2>2, <2>3 DEF RingInv
<1>3. CASE Next
  <2>1. PICK t \in Tracks : Step(t)
    BY <1>3 DEF Next
  <2>2. TypeOK' /\ TrackInv(t)'
    <3>1. CASE \E needed \in 2..MaxEventWords : Start(t, needed)
      BY <1>1, <3>1, StartStep
    <3>2. CASE CountDrop(t)
      BY <1>1, <3>2, CountDropStep
    <3>3. CASE CountTotalDrop(t) \/ CountEvent(t) \/ Crash(t)
      BY <1>1, <3>3, CounterStep
    <3>4. CASE StoreBody(t)
      BY <1>1, <3>4, StoreBodyStep
    <3>5. CASE StoreHeader(t)
      BY <1>1, <3>5, StoreHeaderStep
    <3>6. CASE Commit(t)
      BY <1>1, <3>6, CommitStep
    <3>7. CASE DrainWord(t)
      BY <1>1, <3>7, DrainWordStep
    <3>8. CASE DrainEvent(t)
      BY <1>1, <3>8, DrainEventStep
    <3> QED BY <2>1, <3>1, <3>2, <3>3, <3>4, <3>5, <3>6, <3>7, <3>8
            DEF Step, Write, Drain
  <2>3. ASSUME NEW u \in Tracks, u # t
        PROVE  TrackInv(u)'
    BY <1>1, <2>1, <2>3, OthersKept, Untouched
  <2> QED BY <2>2, <2>3 DEF RingInv
<1> QED BY <1>2, <1>3

-----------------------------------------------------------------------------
(* The inductive invariant holds in every reachable state.                 *)
THEOREM RingInvHolds == Spec => []RingInv
<1>1. Init => RingInv
  BY InitRingInv
<1>2. RingInv /\ [Next]_vars => RingInv'
  BY StepRingInv
<1> QED BY <1>1, <1>2, PTL DEF Spec

(* Every variable keeps its shape.                                         *)
THEOREM TypesHold == Spec => []TypeOK
<1>1. RingInv => TypeOK
  BY DEF RingInv
<1> QED BY <1>1, RingInvHolds, PTL

(* No store of write_event touches a word of an event that head has made   *)
(* visible and tail has not released, for every ring size, every event     *)
(* length that fits and every death of a producer.                         *)
THEOREM CommittedStaysIntact == Spec => []CommittedIntact
<1>1. RingInv => CommittedIntact
  BY DEF RingInv, TrackInv, CommittedIntact
<1> QED BY <1>1, RingInvHolds, PTL

(* The consumer takes the committed events in order, none twice and none   *)
(* torn.                                                                   *)
THEOREM DrainIsFaithful == Spec => []DrainedFaithful
<1>1. RingInv => DrainedFaithful
  BY DEF RingInv, TrackInv, DrainedFaithful
<1> QED BY <1>1, RingInvHolds, PTL

(* Every call of write_event is committed, counted dropped or in flight.   *)
THEOREM LossIsAccounted == Spec => []LossAccounted
<1>1. RingInv => LossAccounted
  BY DEF RingInv, TrackInv, LossAccounted
<1> QED BY <1>1, RingInvHolds, PTL

-----------------------------------------------------------------------------
(* Plain keeps the length of a log and forgets the place of each event.    *)
Plains == [seq : 1..MaxWrites, words : 2..MaxEventWords]

(* The plain view keeps the number and the order of entries.               *)
LEMMA PlainSeq ==
  ASSUME NEW s \in Seq(Entries)
  PROVE  /\ Plain(s) \in Seq(Plains) /\ Len(Plain(s)) = Len(s)
         /\ \A i \in 1..Len(s) :
              Plain(s)[i] = [seq |-> s[i].seq, words |-> s[i].words]
<1>1. \A i \in 1..Len(s) : [seq |-> s[i].seq, words |-> s[i].words] \in Plains
  <2>1. \A i \in 1..Len(s) : s[i] \in Entries
    OBVIOUS
  <2> QED BY <2>1 DEF Entries, Plains
<1>2. Plain(s) \in [1..Len(s) -> Plains]
  BY <1>1 DEF Plain
<1>3. Len(s) \in Nat
  OBVIOUS
<1> HIDE DEF Plains
<1>4. Plain(s) \in Seq(Plains) /\ Len(Plain(s)) = Len(s)
  BY ONLY <1>2, <1>3
<1> QED BY <1>4 DEF Plain

(* The plain view of a longer log has the new entry's view behind.         *)
LEMMA PlainAppend ==
  ASSUME NEW s \in Seq(Entries), NEW e \in Entries
  PROVE  Plain(Append(s, e)) = Append(Plain(s), [seq |-> e.seq, words |-> e.words])
<1> DEFINE p == [seq |-> e.seq, words |-> e.words]
           a == Append(s, e)
           l == Plain(a)
           r == Append(Plain(s), p)
<1>1. Plain(s) \in Seq(Plains) /\ Len(Plain(s)) = Len(s) /\ Len(s) \in Nat
      /\ \A i \in 1..Len(s) :
           Plain(s)[i] = [seq |-> s[i].seq, words |-> s[i].words]
  BY PlainSeq
<1>2. p \in Plains
  BY DEF Plains, Entries
<1>3. a \in Seq(Entries) /\ Len(a) = Len(s) + 1 /\ a[Len(s) + 1] = e
      /\ \A i \in 1..Len(s) : a[i] = s[i]
  OBVIOUS
<1>4. l \in Seq(Plains) /\ Len(l) = Len(s) + 1
      /\ \A i \in 1..Len(s)+1 : l[i] = [seq |-> a[i].seq, words |-> a[i].words]
  BY <1>3, PlainSeq
<1> HIDE DEF p, a, l
<1>5. r \in Seq(Plains) /\ Len(r) = Len(s) + 1 /\ r[Len(s) + 1] = p
      /\ \A i \in 1..Len(s) : r[i] = Plain(s)[i]
  BY <1>1, <1>2
<1> HIDE DEF r
<1>6. ASSUME NEW i \in 1..Len(s)+1
      PROVE  l[i] = r[i]
  <2>1. CASE i = Len(s) + 1
    BY <1>3, <1>4, <1>5, <2>1 DEF p
  <2>2. CASE i \in 1..Len(s)
    BY <1>1, <1>3, <1>4, <1>5, <2>2
  <2> QED BY <1>1, <2>1, <2>2
<1>7. l = r
  BY ONLY <1>4, <1>5, <1>6, SeqEqual
<1> QED BY <1>7 DEF l, r, a, p

(* Every step of a ring records, loses or stutters in the log.             *)
LEMMA StepLogged == RingInv /\ [Next]_vars => [Logged!Next]_(Logged!vars)
<1> SUFFICES ASSUME RingInv, [Next]_vars
             PROVE  [Logged!Next]_(Logged!vars)
  OBVIOUS
<1>1. CASE UNCHANGED <<log, dropped>>
  BY <1>1 DEF Logged!vars
<1>2. ASSUME NEW t \in Tracks, CountDrop(t)
      PROVE  Logged!Lose(t)
  <2>1. dropped' = [dropped EXCEPT ![t] = @ + 1] /\ log' = log
    BY <1>2 DEF CountDrop
  <2> QED BY <2>1 DEF Logged!Lose
<1>3. ASSUME NEW t \in Tracks, Commit(t)
      PROVE  Logged!Record(t, ev[t].words) /\ ev[t].words \in 2..MaxEventWords
  <2> DEFINE e == [seq |-> ev[t].seq, words |-> ev[t].words, pos |-> head[t]]
  <2>1. /\ log' = [log EXCEPT ![t] = Append(@, e)] /\ dropped' = dropped
        /\ pc[t] = "commit"
    BY <1>3 DEF Commit
  <2>2. /\ TypeOK /\ TrackInv(t)
    BY DEF RingInv
  <2>3. /\ ev[t] \in Events
        /\ ev[t].seq = Len(log[t]) + dropped[t] + 1
    BY <2>1, <2>2 DEF TrackInv, WriteInPlace
  <2>4. e \in Entries /\ log[t] \in Seq(Entries)
    BY <2>2, <2>3, TrackTypes DEF Events, Entries
  <2>5. Plain(Append(log[t], e)) =
          Append(Plain(log[t]), [seq |-> ev[t].seq, words |-> ev[t].words])
    BY <2>4, PlainAppend
  <2>6. Len(Plain(log[t])) = Len(log[t])
    BY <2>4 DEF Plain
  <2>7. log'[t] = Append(log[t], e) /\ \A u \in Tracks : u # t => log'[u] = log[u]
    BY <2>1, <2>2 DEF TypeOK
  <2>8. [u \in Tracks |-> Plain(log'[u])] =
          [[u \in Tracks |-> Plain(log[u])] EXCEPT ![t] =
             Append(@, [seq |-> Len(@) + dropped[t] + 1, words |-> ev[t].words])]
    <3>1. Plain(log'[t]) =
            Append(Plain(log[t]), [seq |-> Len(Plain(log[t])) + dropped[t] + 1,
                                   words |-> ev[t].words])
      BY <2>3, <2>5, <2>6, <2>7
    <3> QED BY <2>7, <3>1, Zenon
  <2> QED BY <2>1, <2>3, <2>8 DEF Logged!Record, Events
<1>4. CASE Next
  <2>1. PICK t \in Tracks : Step(t)
    BY <1>4 DEF Next
  <2>2. CASE CountDrop(t)
    BY <1>2, <2>2 DEF Logged!Next
  <2>3. CASE Commit(t)
    BY <1>3, <2>3 DEF Logged!Next
  <2>4. CASE ~ CountDrop(t) /\ ~ Commit(t)
    <3>1. UNCHANGED <<log, dropped>>
      BY <2>1, <2>4
         DEF Step, Write, Drain, Start, CountTotalDrop, StoreBody, StoreHeader,
             CountEvent, Crash, DrainWord, DrainEvent, ring
    <3> QED BY <3>1, <1>1
  <2> QED BY <2>2, <2>3, <2>4
<1> QED BY <1>1, <1>4 DEF vars, ring

(* The rings implement the abstract log: whatever the interleaving of the  *)
(* memory accesses and wherever a producer dies, an event enters the log   *)
(* whole and in order or is in the drop counter.                           *)
THEOREM ImplementsLog == Spec => LoggedSpec
<1>1. Init => Logged!Init
  BY DEF Init, Logged!Init, Plain
<1>2. RingInv /\ [Next]_vars => [Logged!Next]_(Logged!vars)
  BY StepLogged
<1> QED BY <1>1, <1>2, RingInvHolds, PTL DEF Spec, LoggedSpec, Logged!Spec

-----------------------------------------------------------------------------
(* What Decode finds in a ring whose words are whole.                      *)

(* A part of a log looks the same before and after its places are gone.    *)
LEMMA PlainPart ==
  ASSUME NEW s \in Seq(Entries), NEW m \in Nat \ {0}, NEW n \in 0..Len(s)
  PROVE  Plain(SubSeq(s, m, n)) = SubSeq(Plain(s), m, n)
<1> DEFINE part == SubSeq(s, m, n)
           l == Plain(part)
           r == SubSeq(Plain(s), m, n)
           size == IF m <= n THEN n - m + 1 ELSE 0
<1>1. /\ Plain(s) \in Seq(Plains) /\ Len(Plain(s)) = Len(s)
      /\ \A i \in 1..Len(s) :
           Plain(s)[i] = [seq |-> s[i].seq, words |-> s[i].words]
  BY PlainSeq
<1>2. \A i \in m..n : s[i] \in Entries /\ Plain(s)[i] \in Plains
  BY <1>1
<1>3. /\ part \in Seq(Entries) /\ Len(part) = size
      /\ \A i \in 1..n-m+1 : part[i] = s[m+i-1]
  <2>1. \A i \in m..n : s[i] \in Entries
    BY <1>2
  <2> QED BY ONLY <2>1, m \in Int, n \in Int, SubSeqProperties
<1>4. /\ r \in Seq(Plains) /\ Len(r) = size
      /\ \A i \in 1..n-m+1 : r[i] = Plain(s)[m+i-1]
  <2>1. \A i \in m..n : Plain(s)[i] \in Plains
    BY <1>2
  <2> QED BY ONLY <2>1, m \in Int, n \in Int, SubSeqProperties
<1> HIDE DEF part, r
<1>5. /\ l \in Seq(Plains) /\ Len(l) = size
      /\ \A i \in 1..Len(part) : l[i] = [seq |-> part[i].seq, words |-> part[i].words]
  BY <1>3, PlainSeq
<1> HIDE DEF l
<1>6. ASSUME NEW i \in 1..Len(l) PROVE l[i] = r[i]
  <2>1. i \in 1..n-m+1 /\ i \in 1..Len(part) /\ m+i-1 \in 1..Len(s)
    BY <1>3, <1>5
  <2> QED BY <1>1, <1>3, <1>4, <1>5, <2>1
<1>7. l = r
  BY ONLY <1>4, <1>5, <1>6, SeqEqual
<1> QED BY <1>7 DEF l, r, part

(* The recursion of Decode, which moves on by at least a word, has its     *)
(* defining equation.                                                      *)
LEMMA DecodeScans ==
  ASSUME NEW words \in [0..RingWords-1 -> Words], NEW limit \in Nat
  PROVE  \E scan :
           /\ \A p \in Nat : scan[p] =
                IF ScanEnds(words, p, limit) THEN <<>>
                ELSE <<EventAt(words, p)>> \o scan[p + RingWord(words, p).words]
           /\ Decode(words, limit) = scan[0]
<1> DEFINE Eqn(scan) == scan = [p \in Nat |->
                IF ScanEnds(words, p, limit) THEN <<>>
                ELSE <<EventAt(words, p)>> \o scan[p + RingWord(words, p).words]]
           E == [seq : Int, words : Nat]
           V == Seq(E)
           Stop == {p \in Nat : ScanEnds(words, p, limit)}
           join == [p \in Nat |-> [v \in V |-> <<EventAt(words, p)>> \o v]]
           next == [p \in Nat |-> p + RingWord(words, p).words]
           measure == [p \in Nat |-> IF p >= limit THEN 0 ELSE limit - p]
           stop == [p \in Nat |-> <<>>]
<1>1. ASSUME NEW p \in Nat
      PROVE  /\ RingWord(words, p) \in Words
             /\ RingWord(words, p).words \in Nat /\ RingWord(words, p).seq \in Int
             /\ p + RingWord(words, p).words \in Nat
             /\ RingWord(words, p) # Zero => RingWord(words, p).words > 0
  <2>1. RingWord(words, p) \in Words
    BY SlotInRing DEF RingWord
  <2>2. \A w \in Words : /\ w.words \in Nat /\ w.seq \in Int
                         /\ w # Zero => w.words > 0
    BY RingAssumption DEF Words, Zero, Word, NoEvent
  <2> QED BY <2>1, <2>2
<1>2. ASSUME NEW p \in Nat PROVE EventAt(words, p) \in E
  BY <1>1 DEF EventAt, Corrupt
<1>3. /\ stop \in [Nat -> V] /\ next \in [Nat -> Nat]
      /\ measure \in [Nat -> Nat]
  BY <1>1
<1>4. join \in [Nat -> [V -> V]]
  <2> SUFFICES ASSUME NEW p \in Nat, NEW v \in V PROVE <<EventAt(words, p)>> \o v \in V
    OBVIOUS
  <2> HIDE DEF E
  <2>1. <<EventAt(words, p)>> \in Seq(E)
    BY <1>2
  <2> QED BY <2>1, ConcatProperties
<1>5. Descends(Nat, Stop, next, measure)
  BY <1>1 DEF Descends, ScanEnds
<1>6. PICK f \in [Nat -> V] : Recurs(f, Nat, Stop, stop, join, next)
  <2> HIDE DEF V, Stop, stop, join, next, measure
  <2> QED BY ONLY <1>3, <1>4, <1>5, RecursionDefines
<1>7. Eqn(f)
  <2> SUFFICES ASSUME NEW p \in Nat
               PROVE  f[p] = IF ScanEnds(words, p, limit) THEN <<>>
                             ELSE <<EventAt(words, p)>> \o f[p + RingWord(words, p).words]
    <3> HIDE DEF Stop, stop, join, next, V
    <3> QED BY <1>6
  <2>1. f[p] = IF p \in Stop THEN stop[p] ELSE join[p][f[next[p]]]
    <3> HIDE DEF Stop, stop, join, next, V
    <3> QED BY <1>6 DEF Recurs
  <2>2. p + RingWord(words, p).words \in Nat
    BY <1>1, Zenon
  <2> DEFINE q == p + RingWord(words, p).words
  <2>3. next[p] = q /\ f[q] \in V
    <3> HIDE DEF V
    <3> QED BY <2>2
  <2>4. \A v \in V : join[p][v] = <<EventAt(words, p)>> \o v
    <3> HIDE DEF V
    <3> QED OBVIOUS
  <2>5. stop[p] = <<>> /\ (p \in Stop <=> ScanEnds(words, p, limit))
    OBVIOUS
  <2> HIDE DEF Stop, stop, join, next, V, q
  <2> QED BY <2>1, <2>3, <2>4, <2>5 DEF q
<1> DEFINE scan == CHOOSE scan : Eqn(scan)
<1>8. Eqn(scan)
  BY <1>7, Zenon
<1>9. Decode(words, limit) = scan[0]
  BY Zenon DEF Decode
<1> HIDE DEF scan
<1>10. \A p \in Nat : scan[p] =
                IF ScanEnds(words, p, limit) THEN <<>>
                ELSE <<EventAt(words, p)>> \o scan[p + RingWord(words, p).words]
  BY <1>8
<1> QED BY <1>9, <1>10

(* The first n events of the log l lie in the ring whole and one after the *)
(* other: event i starts at the counter at[i], the last one ends at limit. *)
Holds(words, l, n, at, limit) ==
  /\ at \in [1..n+1 -> Nat] /\ at[1] = 0 /\ at[n + 1] = limit
  /\ \A i \in 1..n :
       /\ l[i].pos = at[i] /\ l[i].pos + l[i].words = at[i + 1]
       /\ l[i].pos + l[i].words <= limit
       /\ \A k \in 0..l[i].words-1 : words[Slot(l[i].pos + k)] = Word(l[i], k)

(* Then these are the events that its words decode to.                     *)
LEMMA DecodeReads ==
  ASSUME NEW words \in [0..RingWords-1 -> Words],
         NEW limit \in 0..4*RingWords,
         NEW l \in Seq(Entries), NEW n \in 0..Len(l),
         NEW at, Holds(words, l, n, at, limit)
  PROVE  Decode(words, limit) = Plain(SubSeq(l, 1, n))
<1>1. PICK scan :
        /\ \A p \in Nat : scan[p] =
             IF ScanEnds(words, p, limit) THEN <<>>
             ELSE <<EventAt(words, p)>> \o scan[p + RingWord(words, p).words]
        /\ Decode(words, limit) = scan[0]
  <2>1. limit \in Nat
    BY RingAssumption
  <2> QED BY <2>1, DecodeScans
<1> DEFINE S == {d \in Nat : d <= n =>
                  scan[at[n + 1 - d]] = SubSeq(Plain(l), n + 1 - d, n)}
<1>2. /\ Plain(l) \in Seq(Plains) /\ Len(Plain(l)) = Len(l) /\ Len(l) \in Nat
      /\ \A i \in 1..Len(l) :
           Plain(l)[i] = [seq |-> l[i].seq, words |-> l[i].words]
  BY PlainSeq
<1>3. 0 \in S
  <2>1. at[n + 1] = limit
    BY DEF Holds
  <2>2. scan[limit] = <<>>
    <3>1. limit \in Nat /\ ScanEnds(words, limit, limit)
      BY RingAssumption DEF ScanEnds
    <3> QED BY <1>1, <3>1
  <2>3. SubSeq(Plain(l), n + 1, n) = <<>> /\ n + 1 - 0 = n + 1
    BY SubSeqEmpty
  <2> QED BY <2>1, <2>2, <2>3
<1>4. ASSUME NEW d \in Nat, d \in S PROVE d + 1 \in S
  <2> SUFFICES ASSUME d + 1 <= n
               PROVE  scan[at[n - d]] = SubSeq(Plain(l), n - d, n)
    <3>1. n + 1 - (d + 1) = n - d
      OBVIOUS
    <3> QED BY <3>1
  <2> DEFINE i == n - d
             e == l[i]
  <2>1. i \in 1..n /\ i \in 1..Len(l) /\ n + 1 - d = i + 1 /\ d <= n
    BY <1>2
  <2>2. e \in Entries /\ e.pos \in Nat /\ e.words \in Nat /\ e.words > 0
        /\ e.seq \in Nat /\ e.seq > 0
    <3>1. e \in Entries
      BY <2>1
    <3>2. \A x \in Entries : /\ x.pos \in Nat /\ x.words \in Nat /\ x.words > 0
                             /\ x.seq \in Nat /\ x.seq > 0
      BY RingAssumption DEF Entries
    <3> HIDE DEF e
    <3> QED BY <3>1, <3>2
  <2> HIDE DEF e, i
  <2>3. /\ e.pos = at[i] /\ e.pos + e.words = at[i + 1]
        /\ e.pos + e.words <= limit
        /\ \A k \in 0..e.words-1 : RingWord(words, e.pos + k) = Word(e, k)
    BY <2>1 DEF Holds, RingWord, e
  <2>4. RingWord(words, e.pos) = Word(e, 0)
    <3>1. e.pos + 0 = e.pos /\ 0 \in 0..e.words-1
      BY <2>2
    <3> QED BY <2>3, <3>1
  <2>5. RingWord(words, e.pos) # Zero /\ RingWord(words, e.pos).words = e.words
    BY <2>2, <2>4 DEF Zero, Word, NoEvent
  <2>6. EventAt(words, e.pos) = [seq |-> e.seq, words |-> e.words]
    <3>1. \A k \in 0..e.words-1 :
            RingWord(words, e.pos + k) = [Word(e, 0) EXCEPT !.at = k]
      <4>1. \A k : Word(e, k) = [Word(e, 0) EXCEPT !.at = k]
        BY DEF Word
      <4> QED BY <2>3, <4>1
    <3> QED BY <2>4, <3>1 DEF EventAt, Word
  <2>7. ~ScanEnds(words, e.pos, limit)
    <3>1. limit \in Nat /\ 4 * RingWords \in Nat /\ limit <= 4 * RingWords
      BY RingAssumption
    <3>2. e.pos < limit /\ ~(e.pos > 4 * RingWords)
      BY ONLY <2>2, <2>3, <3>1
    <3> QED BY ONLY <2>2, <2>5, <3>1, <3>2 DEF ScanEnds
  <2>8. scan[e.pos] = <<EventAt(words, e.pos)>> \o scan[e.pos + e.words]
    BY <1>1, <2>2, <2>5, <2>7
  <2>9. scan[at[i + 1]] = SubSeq(Plain(l), i + 1, n)
    BY <1>4, <2>1
  <2>10. EventAt(words, e.pos) = Plain(l)[i]
    BY <1>2, <2>1, <2>6 DEF e
  <2>11. scan[at[i]] = <<Plain(l)[i]>> \o SubSeq(Plain(l), i + 1, n)
    BY <2>3, <2>8, <2>9, <2>10
  <2>12. SubSeq(Plain(l), i, n) = <<Plain(l)[i]>> \o SubSeq(Plain(l), i + 1, n)
    <3>1. i \in 1..Len(Plain(l)) /\ n \in i..Len(Plain(l))
      BY <1>2, <2>1
    <3> QED BY <1>2, <3>1, SubSeqRecursiveFirst
  <2> QED BY <2>11, <2>12 DEF i
<1> HIDE DEF S
<1>5. n \in S
  <2>1. n \in Nat
    OBVIOUS
  <2> QED BY <1>3, <1>4, <2>1, Induction
<1>6. scan[at[1]] = SubSeq(Plain(l), 1, n)
  <2>1. n + 1 - n = 1 /\ n <= n
    OBVIOUS
  <2> QED BY <1>5, <2>1 DEF S
<1>7. SubSeq(Plain(l), 1, n) = Plain(SubSeq(l, 1, n))
  <2>1. 1 \in Nat \ {0}
    OBVIOUS
  <2> QED BY <2>1, PlainPart
<1>8. at[1] = 0
  BY DEF Holds
<1> QED BY <1>1, <1>6, <1>7, <1>8
=============================================================================
