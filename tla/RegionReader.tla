---------------------------- MODULE RegionReader ----------------------------
(***************************************************************************)
(* Trace.loadRegion of lib/src/trace.dart reading a region file while its  *)
(* producers may still be writing it: the bytes are copied in file order,  *)
(* one 64-bit word at a time, and _drainRing decodes the copy.  In a ring  *)
(* head comes first, then dropped, then the data words.                    *)
(*                                                                         *)
(* The registry lies before the rings, so a load learns which slots are    *)
(* registered before it copies their rings: fromRegionBytes decodes the    *)
(* ring of a track only when the state in the copied slot is 2 or 3.       *)
(*                                                                         *)
(* The scan starts at word 0, so the module is about rings that nothing    *)
(* drains.                                                                 *)
(***************************************************************************)
EXTENDS TraceRing, RegionLayout

NoTrack == "none"

ASSUME ReaderAssumption == ~Draining /\ NoTrack \notin Tracks

VARIABLES
  registered,     (* tracks whose slot has a state of 2 or 3               *)
  copy            (* the bytes copied so far and the track they come from  *)

rvars == <<vars, registered, copy>>

(* before is history: how many events were committed when the load began.  *)
NoCopy ==
  [track |-> NoTrack, at |-> "slot", listed |-> FALSE, before |-> 0,
   head |-> 0, dropped |-> 0, words |-> <<>>]

RInit == Init /\ registered = {} /\ copy = NoCopy

(* The last store of tlt_register_producer.                                *)
Register(t) ==
  /\ t \notin registered
  /\ registered' = registered \cup {t}
  /\ UNCHANGED <<vars, copy>>

(* Only a registered track has a producer.                                 *)
Produce(t) ==
  /\ t \in registered
  /\ Step(t)
  /\ UNCHANGED <<registered, copy>>

(* Each step copies one word of the file.                                  *)
CopySlot(t) ==
  /\ copy.track = NoTrack
  /\ copy' = [copy EXCEPT !.track = t, !.listed = t \in registered,
                          !.before = Len(log[t]), !.at = "head"]

CopyHead(t) ==
  /\ copy.track = t
  /\ copy.at = "head"
  /\ copy' = [copy EXCEPT !.head = head[t], !.at = "dropped"]

CopyDropped(t) ==
  /\ copy.track = t
  /\ copy.at = "dropped"
  /\ copy' = [copy EXCEPT !.dropped = dropped[t], !.at = "data"]

CopyWord(t) ==
  /\ copy.track = t
  /\ copy.at = "data"
  /\ Len(copy.words) < RingWords
  /\ copy' = [copy EXCEPT !.words = Append(@, data[t][Len(@)])]

(* The trace has been used; another load may follow.                       *)
Release(t) ==
  /\ copy.track = t
  /\ Len(copy.words) = RingWords
  /\ copy' = NoCopy

(* Mutant: the drop counter is copied before head.                         *)
LoadDroppedFirst(t) ==
  \/ CopySlot(t) \/ CopyWord(t) \/ Release(t)
  \/ /\ copy.track = t
     /\ copy.at = "head"
     /\ copy' = [copy EXCEPT !.dropped = dropped[t], !.at = "dropped"]
  \/ /\ copy.track = t
     /\ copy.at = "dropped"
     /\ copy' = [copy EXCEPT !.head = head[t], !.at = "data"]

Load(t) ==
  \/ CopySlot(t) \/ CopyHead(t) \/ CopyDropped(t)
  \/ CopyWord(t) \/ Release(t)

RNext ==
  \E t \in Tracks :
    \/ Register(t)
    \/ Produce(t)
    \/ Load(t) /\ UNCHANGED <<vars, registered>>

RSpec == RInit /\ [][RNext]_rvars

-----------------------------------------------------------------------------
Loaded == copy.track # NoTrack /\ Len(copy.words) = RingWords

CopiedData == [i \in 0..RingWords-1 |-> copy.words[i + 1]]

(* What the trace holds of the copied ring; _drainRing is called for the   *)
(* tracks of the copied registry only.                                     *)
DrainRing == IF copy.listed THEN Decode(CopiedData, copy.head) ELSE <<>>

(* The copy has the shape of a slot and a ring's bytes.                    *)
CopyTypeOK ==
  /\ copy \in [track   : Tracks \cup {NoTrack},
               at      : {"slot", "head", "dropped", "data"},
               listed  : BOOLEAN,
               before  : Nat,
               head    : 0..RingWords,
               dropped : 0..MaxWrites,
               words   : Seq(Words)]
  /\ Len(copy.words) <= RingWords

(* A load racing the producers yields the events committed when it read    *)
(* the ring's head, whole and in order, and so every event committed       *)
(* before it began: neither the words stored since nor the half-written    *)
(* event behind head show up in the trace (trace.dart:962-1016).  Of a     *)
(* track that was not registered when the load read the registry it yields *)
(* nothing, events below the copied head included (trace.dart:204); then   *)
(* none had been committed when it began.                                  *)
SnapshotIsPrefix ==
  Loaded =>
    LET committed == log[copy.track]
        below == {i \in DOMAIN committed : committed[i].pos < copy.head}
        n == IF copy.listed THEN Cardinality(below) ELSE 0
    IN  /\ DrainRing = Plain(SubSeq(committed, 1, n))
        /\ n >= copy.before

(* A trace loaded with a zero drop counter has no gap, even when drops     *)
(* happen between the reads: dropped is read after head, so a drop that an *)
(* event in the copy follows is in the copied counter.  The diagnostics    *)
(* gate of tool/tracelite_dev.dart:2424 relies on it.  A track that is not *)
(* in the copied registry shows neither events nor drops.                  *)
NoSilentGap ==
  Loaded /\ copy.dropped = 0 =>
    \A i \in DOMAIN DrainRing : DrainRing[i].seq = i

(* A load finds every slot, string and ring where the producers keep it,   *)
(* and nothing else there, in regions of exactly the sizes that            *)
(* LayoutExact names: _readRegistry and _drainRing compute the same        *)
(* addresses as tlt_attach and ring_for_track.                             *)
LoadsFromLayout == copy # NoCopy => LayoutExact

-----------------------------------------------------------------------------
(* What the loop of _drainRing makes of the bytes as they stand, say after *)
(* every producer has exited, is a behaviour of the abstract log: events   *)
(* appear whole and in order at the moment their head is stored, and every *)
(* gap is in the ring's drop counter (trace.dart:947-1016).                *)
Recorded == INSTANCE TraceLog WITH
  log  <- [t \in Tracks |-> Decode(data[t], head[t])],
  lost <- dropped

RecordedSpec == Recorded!Spec

-----------------------------------------------------------------------------
(* The inductive invariant behind them (module RegionReaderProofs).        *)

Undrained(t) == tail[t] = 0 /\ drained[t] = <<>> /\ buf[t] = <<>>

(* The copied head is where the n-th event of the log ends; the words of   *)
(* the first n events that are in the copy are theirs, and the copied drop *)
(* counter explains every gap before them.                                 *)
Covers(t, n) ==
  /\ copy.head = StartOf(t, n + 1)
  /\ \A i \in 1..n :
       /\ copy.at = "data" => log[t][i].seq - i <= copy.dropped
       /\ \A k \in 0..log[t][i].words-1 :
            log[t][i].pos + k < Len(copy.words) =>
              copy.words[log[t][i].pos + k + 1] = Word(log[t][i], k)

(* No step of the load has been taken, or those up to copy.at.             *)
CopyFits ==
  /\ copy.at # "data" => copy.words = <<>>
  /\ ~copy.listed => copy.before = 0
  /\ copy.track = NoTrack => copy = NoCopy
  /\ copy.track # NoTrack =>
       /\ copy.at # "slot"
       /\ copy.before <= Len(log[copy.track])
       /\ copy.at # "head" =>
            \E n \in copy.before..Len(log[copy.track]) : Covers(copy.track, n)

ReaderInv ==
  /\ RingInv /\ CopyTypeOK /\ CopyFits
  /\ \A t \in Tracks : Undrained(t) /\ (t \notin registered => log[t] = <<>>)
=============================================================================
