----------------------------- MODULE TraceRing -----------------------------
(***************************************************************************)
(* The per-producer rings of native/tracelite_runtime.c, one shared-memory *)
(* access per step: write_event_with_correlation_on_track_id is a check of *)
(* the free words, a store of each payload word, a store of the header     *)
(* word, a store of head, and the counters, in that order.                 *)
(*                                                                         *)
(* A producer can die between any two steps.  A ring has one writer, the   *)
(* thread that registered the track (module ProducerRuntime).              *)
(*                                                                         *)
(* Nothing under src/ advances tail: a region is written once from word 0  *)
(* and decoded from its bytes.  The writer still loads tail with acquire   *)
(* ordering, for the draining consumer of doc/runtime-protocol.md          *)
(* section 8; Draining = TRUE adds that consumer, which is external.       *)
(***************************************************************************)
EXTENDS Integers, Sequences, FiniteSetsExt

CONSTANTS
  Tracks,         (* track ids with a registered producer                  *)
  RingWords,      (* size_words, the data words of a ring                  *)
  MaxEventWords,  (* longest event: header, timestamp, correlation, args   *)
  MaxWrites,      (* bound: events a producer is asked to write            *)
  Draining        (* whether the external consumer exists                  *)

ASSUME RingAssumption ==
  /\ RingWords \in Nat \ {0}
  /\ MaxEventWords \in Nat
  /\ MaxWrites \in Nat
  /\ Draining \in BOOLEAN

VARIABLES
  (* Shared memory.                                                        *)
  head,           (* words committed, a counter                            *)
  tail,           (* words drained, a counter                              *)
  dropped,        (* events dropped on this ring                           *)
  data,           (* the ring's words                                      *)
  total_events,   (* region header, all rings                              *)
  total_dropped,  (* region header, all rings                              *)
  (* The producer.                                                         *)
  pc,             (* the next memory access of write_event                 *)
  ev,             (* the event being written                               *)
  next_word,      (* the next payload word to store                        *)
  issued,         (* events the producer was asked to write                *)
  (* The draining consumer.                                                *)
  buf,            (* words of the event being drained                      *)
  (* History.                                                              *)
  log,            (* events committed, with the counter of their header    *)
  drained         (* events the consumer has taken                         *)

ring     == <<head, tail, dropped, data>>
totals   == <<total_events, total_dropped>>
producer == <<pc, ev, next_word, issued>>
consumer == <<buf, drained>>
vars     == <<ring, totals, producer, consumer, log>>

(***************************************************************************)
(* A 64-bit word is told apart by the event it belongs to, that event's    *)
(* length and its place in the event.  The header word (at = 0) is where   *)
(* arg_count and the correlation flag, hence the length, are read from.    *)
(* The created file is zeros.                                              *)
(***************************************************************************)
Events == [seq : 1..MaxWrites, words : 2..MaxEventWords]
NoEvent == [seq |-> 0, words |-> 0]
Word(e, k) == [seq |-> e.seq, words |-> e.words, at |-> k]
Zero == Word(NoEvent, 0)
Words == {Zero} \cup [seq : 1..MaxWrites, words : 2..MaxEventWords, at : Nat]

Slot(p) == p % RingWords

Init ==
  /\ head = [t \in Tracks |-> 0]
  /\ tail = [t \in Tracks |-> 0]
  /\ dropped = [t \in Tracks |-> 0]
  /\ data = [t \in Tracks |-> [i \in 0..RingWords-1 |-> Zero]]
  /\ total_events = 0
  /\ total_dropped = 0
  /\ pc = [t \in Tracks |-> "idle"]
  /\ ev = [t \in Tracks |-> NoEvent]
  /\ next_word = [t \in Tracks |-> 0]
  /\ issued = [t \in Tracks |-> 0]
  /\ buf = [t \in Tracks |-> <<>>]
  /\ log = [t \in Tracks |-> <<>>]
  /\ drained = [t \in Tracks |-> <<>>]

-----------------------------------------------------------------------------
(* The producer.                                                           *)

Goto(t, label) == pc' = [pc EXCEPT ![t] = label]

(* Mutant: the room check admits one word too many.                        *)
HasRoomOffByOne(t, needed) == head[t] + needed <= tail[t] + RingWords + 1

HasRoom(t, needed) == head[t] + needed <= tail[t] + RingWords

(***************************************************************************)
(* Loads tail and head and decides.  tail may move on afterwards: the      *)
(* decision then rests on a stale, smaller tail.                           *)
(***************************************************************************)
Start(t, needed) ==
  /\ pc[t] = "idle"
  /\ issued[t] < MaxWrites
  /\ issued' = [issued EXCEPT ![t] = @ + 1]
  /\ ev' = [ev EXCEPT ![t] = [seq |-> issued[t] + 1, words |-> needed]]
  /\ next_word' = [next_word EXCEPT ![t] = 1]
  /\ Goto(t, IF HasRoom(t, needed) THEN "body" ELSE "drop")
  /\ UNCHANGED <<ring, totals, consumer, log>>

(* Mutants of CountDrop: only the region's counter is bumped; the call     *)
(* waits for room in a loop that does not load tail again.                 *)
CountDropUncounted(t) ==
  /\ pc[t] = "drop"
  /\ Goto(t, "drop_total")
  /\ UNCHANGED <<ring, totals, ev, next_word, issued, consumer, log>>

CountDropWaits(t) == pc[t] = "drop" /\ UNCHANGED vars

(* The drop counter of the ring, then that of the region.                  *)
CountDrop(t) ==
  /\ pc[t] = "drop"
  /\ dropped' = [dropped EXCEPT ![t] = @ + 1]
  /\ Goto(t, "drop_total")
  /\ UNCHANGED <<head, tail, data, totals, ev, next_word, issued,
                 consumer, log>>

CountTotalDrop(t) ==
  /\ pc[t] = "drop_total"
  /\ total_dropped' = total_dropped + 1
  /\ Goto(t, "idle")
  /\ UNCHANGED <<ring, total_events, ev, next_word, issued, consumer, log>>

StoreWord(t, k) ==
  data' = [data EXCEPT ![t][Slot(head[t] + k)] = Word(ev[t], k)]

(* Mutant: head moves on before the header word is stored.                 *)
StoreBodyCommits(t) ==
  /\ pc[t] = "body"
  /\ StoreWord(t, next_word[t])
  /\ next_word' = [next_word EXCEPT ![t] = @ + 1]
  /\ Goto(t, IF next_word[t] + 1 = ev[t].words THEN "commit" ELSE "body")
  /\ UNCHANGED <<head, tail, dropped, totals, ev, issued, consumer, log>>

(* Timestamp, correlation and args, from the word after the header on.     *)
StoreBody(t) ==
  /\ pc[t] = "body"
  /\ StoreWord(t, next_word[t])
  /\ next_word' = [next_word EXCEPT ![t] = @ + 1]
  /\ Goto(t, IF next_word[t] + 1 = ev[t].words THEN "header" ELSE "body")
  /\ UNCHANGED <<head, tail, dropped, totals, ev, issued, consumer, log>>

StoreHeader(t) ==
  /\ pc[t] = "header"
  /\ StoreWord(t, 0)
  /\ Goto(t, "commit")
  /\ UNCHANGED <<head, tail, dropped, totals, ev, next_word, issued,
                 consumer, log>>

(* The release store of head makes the event visible.                      *)
Commit(t) ==
  /\ pc[t] = "commit"
  /\ head' = [head EXCEPT ![t] = @ + ev[t].words]
  /\ log' = [log EXCEPT ![t] =
               Append(@, [seq |-> ev[t].seq, words |-> ev[t].words,
                          pos |-> head[t]])]
  /\ Goto(t, "count")
  /\ UNCHANGED <<tail, dropped, data, totals, ev, next_word, issued, consumer>>

(* last_write_ts, which nothing reads, and the region's event count.       *)
CountEvent(t) ==
  /\ pc[t] = "count"
  /\ total_events' = total_events + 1
  /\ Goto(t, "idle")
  /\ UNCHANGED <<ring, total_dropped, ev, next_word, issued, consumer, log>>

(* The process that owns the track dies wherever it is.                    *)
Crash(t) ==
  /\ pc[t] # "dead"
  /\ Goto(t, "dead")
  /\ UNCHANGED <<ring, totals, ev, next_word, issued, consumer, log>>

-----------------------------------------------------------------------------
(* The external consumer takes the event at tail word by word and then     *)
(* releases its words.                                                     *)

DrainWord(t) ==
  /\ Draining
  /\ tail[t] < head[t]
  /\ buf[t] # <<>> => Len(buf[t]) < buf[t][1].words
  /\ buf' = [buf EXCEPT ![t] = Append(@, data[t][Slot(tail[t] + Len(@))])]
  /\ UNCHANGED <<ring, totals, producer, drained, log>>

DrainEvent(t) ==
  /\ buf[t] # <<>>
  /\ Len(buf[t]) = buf[t][1].words
  /\ drained' = [drained EXCEPT ![t] =
                   Append(@, [seq |-> buf[t][1].seq,
                              words |-> buf[t][1].words, pos |-> tail[t]])]
  /\ tail' = [tail EXCEPT ![t] = @ + buf[t][1].words]
  /\ buf' = [buf EXCEPT ![t] = <<>>]
  /\ UNCHANGED <<head, dropped, data, totals, producer, log>>

-----------------------------------------------------------------------------
Write(t) ==
  \/ CountDrop(t) \/ CountTotalDrop(t)
  \/ StoreBody(t) \/ StoreHeader(t) \/ Commit(t) \/ CountEvent(t)

Drain(t) == DrainWord(t) \/ DrainEvent(t)

Step(t) ==
  \/ \E needed \in 2..MaxEventWords : Start(t, needed)
  \/ Write(t) \/ Crash(t) \/ Drain(t)

Next == \E t \in Tracks : Step(t)

Spec == Init /\ [][Next]_vars

(* A running thread keeps executing the call it is in, and so does the     *)
(* consumer.  Nothing obliges the program to record another event, and a   *)
(* dead process has no step to take.                                       *)
Fairness == \A t \in Tracks : WF_vars(Write(t)) /\ WF_vars(Drain(t))

FairSpec == Spec /\ Fairness
-----------------------------------------------------------------------------
(* Decoding, as _drainRing of lib/src/trace.dart does it: the scan begins  *)
(* at word 0, wherever tail is.  A header word gives the event's length,   *)
(* the payload follows, the next header comes after it; a zero word, the   *)
(* end of the committed words or the fourth lap of the ring stops it.      *)

Corrupt == [seq |-> -1, words |-> 0]

RingWord(words, p) == words[Slot(p)]

EventAt(words, p) ==
  LET h == RingWord(words, p)
  IN  IF \A k \in 0..h.words-1 : RingWord(words, p + k) = [h EXCEPT !.at = k]
      THEN [seq |-> h.seq, words |-> h.words]
      ELSE Corrupt

ScanEnds(words, p, limit) ==
  p >= limit \/ p > 4 * RingWords \/ RingWord(words, p) = Zero

Decode(words, limit) ==
  LET scan[p \in Nat] ==
        IF ScanEnds(words, p, limit) THEN <<>>
        ELSE <<EventAt(words, p)>> \o scan[p + RingWord(words, p).words]
  IN  scan[0]

-----------------------------------------------------------------------------
(* Properties.                                                             *)

Entries == [seq : 1..MaxWrites, words : 2..MaxEventWords, pos : Nat]

(* Every variable has the shape the code gives it.                         *)
TypeOK ==
  /\ head \in [Tracks -> Nat]
  /\ tail \in [Tracks -> Nat]
  /\ dropped \in [Tracks -> Nat]
  /\ data \in [Tracks -> [0..RingWords-1 -> Words]]
  /\ total_events \in Nat
  /\ total_dropped \in Nat
  /\ pc \in [Tracks -> {"idle", "body", "header", "commit", "count",
                        "drop", "drop_total", "dead"}]
  /\ ev \in [Tracks -> Events \cup {NoEvent}]
  /\ next_word \in [Tracks -> Nat]
  /\ issued \in [Tracks -> 0..MaxWrites]
  /\ buf \in [Tracks -> Seq(Words)]
  /\ log \in [Tracks -> Seq(Entries)]
  /\ drained \in [Tracks -> Seq(Entries)]

(* An event that head has made visible and tail has not released keeps all *)
(* of its words, whatever the producer writes next and wherever it dies:   *)
(* the room check, made on a tail that may be stale, never lets a store    *)
(* alias a committed word (native/tracelite_runtime.c:391-434).            *)
Intact(t) ==
  \A i \in Len(drained[t])+1..Len(log[t]) :
    \A k \in 0..log[t][i].words-1 :
      data[t][Slot(log[t][i].pos + k)] = Word(log[t][i], k)

CommittedIntact == \A t \in Tracks : Intact(t)

(* The consumer takes exactly the committed events, in commit order, none  *)
(* twice and none torn, though it reads word by word while the producer    *)
(* writes (doc/runtime-protocol.md section 8).                             *)
Faithful(t) ==
  LET n == Len(drained[t])
  IN  /\ n <= Len(log[t])
      /\ \A i \in 1..n : drained[t][i] = log[t][i]
      /\ buf[t] # <<>> =>
           /\ n < Len(log[t])
           /\ Len(buf[t]) <= log[t][n + 1].words
           /\ \A k \in 1..Len(buf[t]) : buf[t][k] = Word(log[t][n + 1], k - 1)

DrainedFaithful == \A t \in Tracks : Faithful(t)

(* Every call of write_event is committed, counted dropped, or in flight;  *)
(* a producer that died loses at most the one event it was writing, and    *)
(* the position of an event in the log never trails its number by more     *)
(* than the ring's own drop counter admits.                                *)
Accounted(t) ==
  LET known == Len(log[t]) + dropped[t]
  IN  /\ issued[t] - known \in 0..1
      /\ pc[t] \in {"idle", "count", "drop_total"} => issued[t] = known
      /\ \A i \in 1..Len(log[t]) : log[t][i].seq - i \in 0..dropped[t]

LossAccounted == \A t \in Tracks : Accounted(t)

(* The producer's side is a behaviour of the abstract log: a committed     *)
(* event enters the log whole at the store of head, numbered by the events *)
(* committed and dropped before it, and the other steps of a call and of   *)
(* the consumer change nothing a reader is promised.                       *)
Plain(s) == [i \in 1..Len(s) |-> [seq |-> s[i].seq, words |-> s[i].words]]

Logged == INSTANCE TraceLog WITH
  log  <- [t \in Tracks |-> Plain(log[t])],
  lost <- dropped

LoggedSpec == Logged!Spec

(* A call of write_event returns whatever the other producers and the      *)
(* consumer do, a full ring included: it never waits for room.             *)
WriteReturns ==
  \A t \in Tracks : pc[t] # "idle" ~> pc[t] \in {"idle", "dead"}

(* Every committed event is drained in the end, even one whose producer    *)
(* has died since.                                                         *)
EventuallyDrained ==
  \A t \in Tracks : \A n \in 1..MaxWrites :
    Len(log[t]) >= n ~> Len(drained[t]) >= n

-----------------------------------------------------------------------------
(* The inductive invariant behind the safety properties: how the cursors,  *)
(* the log and the words of the ring hang together (module TraceRingProofs *)
(* shows that it is inductive).                                            *)

(* The counter at which the i-th event of the log starts, or will start.   *)
StartOf(t, i) == IF i <= Len(log[t]) THEN log[t][i].pos ELSE head[t]

CursorsAgree(t) ==
  /\ tail[t] <= head[t]
  /\ head[t] <= tail[t] + RingWords
  /\ Len(drained[t]) <= Len(log[t])
  /\ tail[t] = StartOf(t, Len(drained[t]) + 1)

LogTiled(t) ==
  \A i \in 1..Len(log[t]) :
    /\ log[t][i].pos + log[t][i].words = StartOf(t, i + 1)
    /\ log[t][i].pos + log[t][i].words <= head[t]
    /\ \A j \in i+1..Len(log[t]) :
         log[t][i].pos + log[t][i].words <= log[t][j].pos
    /\ i > Len(drained[t]) => tail[t] <= log[t][i].pos

(* The words of the event being written that are already in place.         *)
Stored(t) ==
  CASE pc[t] = "body"   -> 1..next_word[t]-1
    [] pc[t] = "header" -> 1..ev[t].words-1
    [] pc[t] = "commit" -> 0..ev[t].words-1
    [] OTHER            -> {}

WriteInPlace(t) ==
  /\ pc[t] \in {"body", "header", "commit"} =>
       /\ ev[t] \in Events
       /\ head[t] + ev[t].words <= tail[t] + RingWords
       /\ ev[t].seq = issued[t]
       /\ issued[t] = Len(log[t]) + dropped[t] + 1
       /\ \A k \in Stored(t) : data[t][Slot(head[t] + k)] = Word(ev[t], k)
  /\ pc[t] = "body" => next_word[t] \in 1..ev[t].words-1
  /\ pc[t] = "drop" => issued[t] = Len(log[t]) + dropped[t] + 1

TrackInv(t) ==
  /\ CursorsAgree(t) /\ LogTiled(t) /\ WriteInPlace(t)
  /\ Intact(t) /\ Faithful(t) /\ Accounted(t)

RingInv == TypeOK /\ \A t \in Tracks : TrackInv(t)
=============================================================================
