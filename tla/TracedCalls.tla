---------------------------- MODULE TracedCalls ----------------------------
(***************************************************************************)
(* From a traced call to the span a reader reconstructs from it.  Threads  *)
(* of one process call SQLite through the shim and run Dart code that      *)
(* traces calls with TraceRecorder or TraceSession, nested and             *)
(* concurrently, while threads attach, slots run out and rings fill up;    *)
(* the reader pairs BEGIN and END events on each track and asynchronous    *)
(* ones over all tracks (lib/src/trace.dart).                              *)
(*                                                                         *)
(* A call of the recording API is one step here: TraceRing has the memory  *)
(* accesses inside it, ProducerRuntime the races of attaching, detaching   *)
(* and resetting.  This is the life of one region, in which nothing is     *)
(* detached; no consumer advances a tail in a region file.  The clock      *)
(* advances between events, so the reader's order by timestamp is theirs.  *)
(* Pairing is done as events are written: the reader takes the events of a *)
(* track, and those of all tracks, in this order.                          *)
(***************************************************************************)
EXTENDS SqliteWrappers

CONSTANTS
  Threads,        (* OS threads, each running at most one isolate          *)
  Functions,      (* the wrapped functions they call                       *)
  UserSpans,      (* spans they trace themselves                           *)
  SyncIds,        (* correlation ids of synchronous calls; 0 is none       *)
  IdSources,      (* where asynchronous calls have theirs from, see ids    *)
  MaxProducers,   (* registry slots of the region                          *)
  RingWords,      (* words of a ring                                       *)
  MaxCalls        (* bound: traced calls                                   *)

ASSUME CallsAssumption ==
  /\ Functions \subseteq Wrappers
  /\ SyncIds \subseteq Nat
  /\ IdSources \subseteq {"caller", "session"}
  /\ MaxProducers \in Nat /\ RingWords \in Nat /\ MaxCalls \in Nat

Tracks == 0..MaxProducers-1
NoTrack == -1

(* Where asynchronous events are paired; synchronous ones at their track.  *)
Async == MaxProducers
Pairings == Tracks \cup {Async}

VARIABLES
  env_region,     (* whether TRACELITE_REGION names the region             *)
  ids,            (* "caller": asynchronous calls pass ids of one counter. *)
                  (* "session": TraceSession chooses their ids.            *)
  active,         (* tlt_active                                            *)
  claimed,        (* slots of the registry claimed so far                  *)
  my_track,       (* tlt_my_track_id of a thread                           *)
  recorder,       (* trackId of a thread's TraceRecorder                   *)
  next_correlation, (* _nextCorrelationId of a thread's TraceSession       *)
  next_request,   (* the counter of the callers                            *)
  calls,          (* synchronous calls in progress                         *)
  pending,        (* asynchronous calls in progress                        *)
  next_call,      (* traced calls so far; a call is known by its number    *)
  used,           (* words written to a ring                               *)
  dropped,        (* its dropped counter                                   *)
  open,           (* BEGIN events read and not yet paired                  *)
  spans,          (* pairs of BEGIN and END                                *)
  unmatched,      (* END events that found no BEGIN                        *)
  (* History.                                                              *)
  owner,          (* the thread that claimed a slot                        *)
  torn            (* tracks that have one end only of some call            *)

process == <<env_region, ids, active, claimed, my_track, recorder, owner>>
counters == <<next_correlation, next_request>>
rings == <<used, dropped>>
pairing == <<open, spans, unmatched>>
vars == <<process, counters, calls, pending, next_call, rings, pairing, torn>>

Init ==
  /\ env_region \in BOOLEAN
  /\ ids \in IdSources
  /\ active = FALSE
  /\ claimed = 0
  /\ my_track = [t \in Threads |-> NoTrack]
  /\ recorder = [t \in Threads |-> NoTrack]
  /\ next_correlation = [t \in Threads |-> 1]
  /\ next_request = 1
  /\ calls = {}
  /\ pending = {}
  /\ next_call = 1
  /\ used = [k \in Tracks |-> 0]
  /\ dropped = [k \in Tracks |-> 0]
  /\ open = [p \in Pairings |-> {}]
  /\ spans = {}
  /\ unmatched = {}
  /\ owner = [k \in Tracks |-> "none"]
  /\ torn = {}

-----------------------------------------------------------------------------
(* Writing an event.                                                       *)

(* The words of an event: header, timestamp, a correlation id, arguments.  *)
Words(correlation, args) == 2 + (IF correlation = 0 THEN 0 ELSE 1) + args

HasRoom(k, words) == used[k] + words <= RingWords

(* Mutant: the loss is not counted.                                        *)
DropUncounted(k) == UNCHANGED rings

(* Drop newest.                                                            *)
Drop(k) ==
  /\ dropped' = [dropped EXCEPT ![k] = @ + 1]
  /\ UNCHANGED used

Store(k, words) ==
  /\ used' = [used EXCEPT ![k] = @ + words]
  /\ UNCHANGED dropped

-----------------------------------------------------------------------------
(* Pairing.                                                                *)

(* Mutant: the correlation id is not part of the key.                      *)
PairingKeyOfSpan(span, correlation) == <<span, 0>>

PairingKey(span, correlation) == <<span, correlation>>

(* Mutant: the stack is taken from the wrong end.                          *)
Oldest(p, key) ==
  CHOOSE b \in open[p] : b.key = key /\ \A a \in open[p] : a.key = key => b.call <= a.call

(* removeLast: the latest BEGIN with the key that is still open.           *)
Newest(p, key) ==
  CHOOSE b \in open[p] : b.key = key /\ \A a \in open[p] : a.key = key => a.call <= b.call

PairBegin(p, k, call, key) ==
  /\ open' = [open EXCEPT ![p] = @ \cup {[call |-> call, key |-> key, track |-> k]}]
  /\ UNCHANGED <<spans, unmatched>>

PairEnd(p, k, call, key) ==
  IF \E b \in open[p] : b.key = key
  THEN /\ open' = [open EXCEPT ![p] = @ \ {Newest(p, key)}]
       /\ spans' = spans \cup {[at |-> p, begin |-> Newest(p, key).call, end |-> call]}
       /\ UNCHANGED unmatched
  ELSE /\ unmatched' = unmatched \cup {[at |-> p, track |-> k, call |-> call]}
       /\ UNCHANGED <<open, spans>>

(* A BEGIN or an END of a call on track k, paired at p.                    *)
RecordBegin(k, p, call, key, words) ==
  \/ k = NoTrack /\ UNCHANGED <<rings, pairing>>
  \/ k # NoTrack /\ HasRoom(k, words) /\ Store(k, words) /\ PairBegin(p, k, call, key)
  \/ k # NoTrack /\ ~HasRoom(k, words) /\ Drop(k) /\ UNCHANGED pairing

RecordEnd(k, p, call, key, words) ==
  \/ k = NoTrack /\ UNCHANGED <<rings, pairing>>
  \/ k # NoTrack /\ HasRoom(k, words) /\ Store(k, words) /\ PairEnd(p, k, call, key)
  \/ k # NoTrack /\ ~HasRoom(k, words) /\ Drop(k) /\ UNCHANGED pairing

-----------------------------------------------------------------------------
(* Attaching and registering.                                              *)

(* tlt_register_producer by t.                                             *)
Register(t) ==
  IF claimed < MaxProducers
  THEN /\ claimed' = claimed + 1
       /\ my_track' = [my_track EXCEPT ![t] = claimed]
       /\ owner' = [owner EXCEPT ![claimed] = t]
  ELSE UNCHANGED <<claimed, my_track, owner>>

(* ensure_attached                                                         *)
EnsureAttached(t) ==
  /\ active' = (active \/ env_region)
  /\ IF active' /\ ~(active /\ my_track[t] # NoTrack)
     THEN Register(t) ELSE UNCHANGED <<claimed, my_track, owner>>
  /\ UNCHANGED <<env_region, ids, recorder>>

(* TraceSession.attach: a recorder with a track of its own, or a disabled  *)
(* one when the registry is full.  The metadata events of vocabularies are *)
(* Sample's.                                                               *)
RecorderAttach(t) ==
  /\ active' = TRUE
  /\ Register(t)
  /\ recorder' = [recorder EXCEPT ![t] = IF claimed < MaxProducers THEN claimed ELSE NoTrack]
  /\ next_correlation' = [next_correlation EXCEPT ![t] = 1]
  /\ UNCHANGED <<env_region, ids, next_request, calls, pending, next_call, rings,
                 pairing, torn>>

-----------------------------------------------------------------------------
(* Synchronous calls.                                                      *)

Begin(t, where, k, key, words, endWords) ==
  /\ next_call <= MaxCalls
  /\ next_call' = next_call + 1
  /\ calls' = calls \cup {[call |-> next_call, thread |-> t, where |-> where,
                           track |-> k, key |-> key, words |-> endWords]}
  /\ RecordBegin(k, k, next_call, key, words)
  /\ UNCHANGED <<counters, pending, torn>>

(* A wrapped function is entered and its BEGIN recorded.                   *)
Call(t, f) ==
  /\ EnsureAttached(t)
  /\ Begin(t, "here", my_track'[t], PairingKey(f.span, 0),
           Words(0, Len(f.begin)), Words(0, Len(f.end)))

(* The real function cannot be resolved.                                   *)
CallUnresolved(t) ==
  /\ EnsureAttached(t)
  /\ UNCHANGED <<counters, calls, pending, next_call, rings, pairing, torn>>

(* TraceRecorder.trace                                                     *)
Trace(t, span, correlation) ==
  /\ Begin(t, "recorder", recorder[t], PairingKey(span, correlation),
           Words(correlation, 0), Words(correlation, 0))
  /\ UNCHANGED process

Innermost(c) == \A d \in calls : d.thread = c.thread => d.call <= c.call

EndTrack(c) == IF c.where = "here" THEN my_track[c.thread] ELSE c.track

(* The call returns and its END is recorded: by tlt_end on the track the   *)
(* thread has now, by a recorder on its own.                               *)
Return(c) ==
  /\ Innermost(c)
  /\ calls' = calls \ {c}
  /\ RecordEnd(EndTrack(c), EndTrack(c), c.call, c.key, c.words)
  /\ torn' = IF EndTrack(c) = c.track THEN torn ELSE torn \cup {EndTrack(c), c.track}
  /\ UNCHANGED <<process, counters, pending, next_call>>

-----------------------------------------------------------------------------
(* Asynchronous calls.                                                     *)

(* The correlation id of the next asynchronous call of t.                  *)
Correlation(t) == IF ids = "session" THEN next_correlation[t] ELSE next_request

TakeCorrelation(t) ==
  IF ids = "session"
  THEN /\ next_correlation' = [next_correlation EXCEPT ![t] = @ + 1]
       /\ UNCHANGED next_request
  ELSE next_request' = next_request + 1 /\ UNCHANGED next_correlation

(* traceAsync up to its await.                                             *)
TraceAsync(t, span) ==
  LET key == PairingKey(span, Correlation(t))
      words == Words(Correlation(t), 0) IN
  /\ next_call <= MaxCalls
  /\ next_call' = next_call + 1
  /\ TakeCorrelation(t)
  /\ pending' = pending \cup {[call |-> next_call, thread |-> t, track |-> recorder[t],
                               key |-> key, words |-> words]}
  /\ RecordBegin(recorder[t], Async, next_call, key, words)
  /\ UNCHANGED <<process, calls, torn>>

(* The awaited future completes and the isolate is free to go on.          *)
CompleteAsync(a) ==
  /\ \A c \in calls : c.thread # a.thread
  /\ pending' = pending \ {a}
  /\ RecordEnd(a.track, Async, a.call, a.key, a.words)
  /\ UNCHANGED <<process, counters, calls, next_call, torn>>

(* An event that opens and closes nothing: an instant, a counter, a gauge, *)
(* metadata.  n is the number of its arguments.                            *)
Sample(t, n) ==
  /\ recorder[t] # NoTrack
  /\ next_call <= MaxCalls
  /\ next_call' = next_call + 1
  /\ IF HasRoom(recorder[t], Words(0, n)) THEN Store(recorder[t], Words(0, n))
     ELSE Drop(recorder[t])
  /\ UNCHANGED <<process, counters, calls, pending, pairing, torn>>

Next ==
  \/ \E t \in Threads :
       \/ RecorderAttach(t)
       \/ CallUnresolved(t)
       \/ \E f \in Functions : Call(t, f)
       \/ \E span \in UserSpans : \E correlation \in SyncIds :
            Trace(t, span, correlation)
       \/ \E span \in UserSpans : TraceAsync(t, span)
       \/ \E n \in {1, 3} : Sample(t, n)
  \/ \E c \in calls : Return(c)
  \/ \E a \in pending : CompleteAsync(a)

Spec == Init /\ [][Next]_vars

-----------------------------------------------------------------------------
(* Properties.                                                             *)

Keys == ({f.span : f \in Functions} \cup UserSpans) \X Nat

BeginEvent == [call : Nat, key : Keys, track : Tracks]

TypeOK ==
  /\ env_region \in BOOLEAN /\ ids \in IdSources /\ active \in BOOLEAN
  /\ claimed \in 0..MaxProducers
  /\ my_track \in [Threads -> Tracks \cup {NoTrack}]
  /\ recorder \in [Threads -> Tracks \cup {NoTrack}]
  /\ owner \in [Tracks -> Threads \cup {"none"}]
  /\ next_correlation \in [Threads -> Nat \ {0}] /\ next_request \in Nat \ {0}
  /\ calls \subseteq [call : Nat, thread : Threads, where : {"here", "recorder"},
                      track : Tracks \cup {NoTrack}, key : Keys, words : Nat]
  /\ pending \subseteq [call : Nat, thread : Threads, track : Tracks \cup {NoTrack},
                        key : Keys, words : Nat]
  /\ next_call \in Nat \ {0}
  /\ used \in [Tracks -> 0..RingWords] /\ dropped \in [Tracks -> Nat]
  /\ open \in [Pairings -> SUBSET BeginEvent]
  /\ \A s \in spans : s.at \in Pairings
  /\ unmatched \subseteq [at : Pairings, track : Tracks, call : Nat]
  /\ torn \subseteq Tracks \cup {NoTrack}

(* A track that dropped nothing and has both ends of every call.           *)
Whole(k) == dropped[k] = 0 /\ k \notin torn

(* Every span a reader shows on a track that dropped nothing, and on which *)
(* no registration separated the ends of a call, joins the two ends of one *)
(* call, however calls nest, with spans and correlation ids repeated, on   *)
(* however many threads (lib/src/trace.dart:991-1006).                     *)
SyncSpansTrue ==
  \A s \in spans : s.at \in Tracks /\ Whole(s.at) => s.begin = s.end

(* Every asynchronous span joins the two ends of one call, whatever ends   *)
(* were dropped, when calls have ids of their own (trace.dart:1043-1086).  *)
AsyncSpansTrue ==
  ids = "caller" => \A s \in spans : s.at = Async => s.begin = s.end

(* The same for the ids TraceSession chooses (lib/src/session.dart:37-43). *)
SessionSpansTrue == \A s \in spans : s.at = Async => s.begin = s.end

(* An END without a BEGIN, which the reader counts, is explained by a drop *)
(* counter of the same track or by a registration in the middle of a call. *)
UnmatchedExplained ==
  \A u \in unmatched :
    \/ dropped[u.track] > 0
    \/ u.at \in torn
    \/ u.at = Async /\ ids = "session"

(* The events of native/shim_sqlite3.c against the declarations of         *)
(* tool/spans.yaml: their words are as many as the span has arguments and  *)
(* decode to the values of the call, at the ends of every type, with one   *)
(* exception, which is a disagreement of the two files: the END of         *)
(* sqlite3_column_blob stores 0 or 1 (shim_sqlite3.c:779) where a length   *)
(* in bytes is declared (spans.yaml:309).                                  *)
EventsDescribed == calls # {} => WrappersDescribed

(* A span the reader shows without an end is a call still in progress, if  *)
(* its track dropped nothing and, for a synchronous one, has both ends of  *)
(* every call (of a call that registers its thread again the END goes to   *)
(* another track, and the finished call shows as unfinished); for an       *)
(* asynchronous one if the ids are of one counter, not of one per session. *)
UnfinishedIsRunning ==
  /\ \A k \in Tracks : Whole(k) =>
       \A b \in open[k] : \E c \in calls : c.call = b.call
  /\ ids = "caller" =>
       \A b \in open[Async] : dropped[b.track] = 0 =>
         \E a \in pending : a.call = b.call

-----------------------------------------------------------------------------
(* The inductive invariant.                                                *)

(* Tracks belong to one thread each, and calls record on tracks of their   *)
(* own thread.                                                             *)
TracksOwned ==
  /\ \A t \in Threads : \A k \in {my_track[t], recorder[t]} :
       k # NoTrack => k < claimed /\ owner[k] = t
  /\ \A c \in calls : c.track # NoTrack => c.track < claimed /\ owner[c.track] = c.thread

CallsNumbered ==
  /\ \A c \in calls \cup pending : c.call < next_call
  /\ \A c, d \in calls : c.call = d.call => c = d
  /\ \A a, b \in pending : a.call = b.call => a = b

BeginOf(c) == [call |-> c.call, key |-> c.key, track |-> c.track]

(* On a whole track the open BEGINs are those of the calls in progress.    *)
OpenIsRunning ==
  \A k \in Tracks : Whole(k) =>
    open[k] = {BeginOf(c) : c \in {d \in calls : d.track = k}}

(* Ids of a shared counter are handed out once.                            *)
RequestsDistinct ==
  ids = "caller" =>
    /\ \A a \in pending : a.key[2] < next_request
    /\ \A b \in open[Async] : b.key[2] < next_request
    /\ \A a \in pending : \A d \in pending : a.key[2] = d.key[2] => a = d
    /\ \A b \in open[Async] : \A a \in pending : a.key[2] = b.key[2] => b = BeginOf(a)
    /\ \A b, d \in open[Async] : b.key[2] = d.key[2] => b = d

(* An open asynchronous BEGIN is running unless its END was dropped, and   *)
(* a running call has its BEGIN open unless it was dropped.                *)
PendingOpen ==
  ids = "caller" =>
    /\ \A b \in open[Async] : dropped[b.track] = 0 => \E a \in pending : b = BeginOf(a)
    /\ \A a \in pending : a.track # NoTrack /\ dropped[a.track] = 0 =>
         BeginOf(a) \in open[Async]

CallsInv ==
  /\ TypeOK
  /\ TracksOwned
  /\ CallsNumbered
  /\ OpenIsRunning
  /\ RequestsDistinct
  /\ PendingOpen
  /\ SyncSpansTrue
  /\ AsyncSpansTrue
  /\ UnmatchedExplained
=============================================================================
