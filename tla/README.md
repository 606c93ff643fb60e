# Tracelite: specifications, model checks and proofs

Tracelite profiles SQLite in Dart programs.  Producers (a native runtime, an
interposed SQLite, Dart isolates) append events to a memory-mapped *region
file*; a reader decodes the file afterwards; a benchmark harness runs worker
processes, one region per sample, and compares what it finds.  This directory
holds TLA+ models of the parts of that pipeline whose correctness depends on
order, failure or concurrency, the TLC configurations that check them and the
TLAPS proofs about them.

## 1. The system

| Component | State | Operations | Talks to |
|---|---|---|---|
| Event rings (`native/tracelite_runtime.c`) | per ring: `head`, `tail`, `dropped`, words; region: `total_events`, `total_dropped` | `write_event_with_correlation_on_track_id` and its public wrappers | reader, through the file |
| String pool (same file) | `string_pool_head`, bytes | `tlt_intern_string` | reader, through the file |
| Attach and registry (same file) | `tlt_active`, mapping pointers, `g_runtime_generation`; slot states; thread-local track id and generation | `tlt_attach`, `tlt_register_producer`, `tlt_current_track_id`, `tlt_detach`, `tlt_detach_track`, `tlt_reset_runtime` | rings, pool, threads of the process |
| SQLite shim (`native/shim_sqlite3.c`) | resolved symbols | `ensure_attached`, one begin/end pair per wrapped call, SQL fingerprints | runtime |
| Dart producer (`lib/src/producer.dart`) | `trackId` of a `TraceRecorder` | `attach`, `begin`/`end`/..., `detach` | runtime, over FFI |
| Session (`lib/src/session.dart`) | next correlation id | `trace`, `traceAsync` | producer |
| Region and reader (`lib/src/trace.dart`) | none (pure) | `createFile`, `loadRegion`, `_drainRing`, `_readStringPool`, span pairing | region file |
| Peer worker (`tool/peer_runner.dart`) | per request: region, runtimes to reset | request loop, reset, pause | harness over pipes, runtime |
| Worker harness (`tool/tracelite_dev.dart`) | pending requests, child process | start, run, timeout, close, kill | worker |
| Suite, history, compare (`tool/tracelite_dev.dart`) | artifacts on disk | run cases, recommend timeouts, classify peers | worker harness, reader |
| Decision, diff, calibration (`lib/src/*.dart`) | none (pure) | classify differences of statistics | artifacts |
| Reports, insights, graph data, vocabularies, CLI, visualizer, release tools | none | formatting | everything above |

**What is hard.** Producers of several threads and processes write shared
memory without locks and may be killed anywhere; the reader may look at the
file while they do.  Threads of one process share the attach state and the
mapping, which `tlt_detach_track` and `tlt_reset_runtime` take away.  Samples
must not leak into each other although the worker process lives on.  The
harness hears of a worker through its answers, the end of its output and its
exit code, in any order.

**What makes each part correct.**

* Rings: a committed event is never overwritten before it is drained, is
  decoded whole and in order, and every lost event is in a counter.  A write
  returns without waiting.
* Pool: entries lie inside the pool, an id names the same bytes for ever and the
  reader finds it.
* Registry: one writer per ring; slots are never reused; an event lands in the
  ring and the region its thread registered in; nobody touches an unmapped page.
* Reader: a trace is a prefix of what was committed, it holds everything that
  was complete when the load began, and gaps are announced.
* Shim: the words of an event are the arguments its span declares; the
  fingerprint of a statement depends on its shape only; the scanner stays in its
  buffers and ends.
* Spans: a span joins the two ends of one call; what cannot be joined is
  explained by a drop or by a registration in the middle of a call.
* Harness: every request completes once, with its own answer or the end of the
  worker; samples are reported in order, each from its own events.

## 2. Modules

| Module | Models | Uses |
|---|---|---|
| `TraceLog` | abstract: a log per producer, an event is recorded whole or counted lost | |
| `TraceRing` | `write_event...`, one shared-memory access per step; the consumer; the decode loop of `_drainRing` | implements `TraceLog` |
| `RegionReader` | `Trace.loadRegion` copying the file word by word while producers write | extends `TraceRing` and `RegionLayout` |
| `RegionLayout` | the offsets `createFile` computes, the header fields that carry them, the addresses the runtime makes of them | |
| `StringPool` | `tlt_intern_string`, `_readStringPool` | |
| `ProducerRuntime` | attach, registry, generations, write guards, detach, reset | stands above `TraceRing`, which assumes its single-writer property |
| `SqlFingerprint` | `intern_fingerprinted_sql` of the shim, one loop round per step; the capture modes | |
| `SqlLexemes` | what a statement's lexemes are and how they make up its text, said without the scanner; the invariant `LexemeInv` over them | extends `SqlFingerprint` |
| `SqliteWrappers` | the spans and the event words of the 30 wrapped functions, the vocabulary that declares them | |
| `TracedCalls` | calls through the shim, `TraceRecorder` and `TraceSession`, one API call per step, and the reader's pairing of spans | extends `SqliteWrappers`; stands above `TraceRing` and `ProducerRuntime`, whose steps it takes as one |
| `PeerSamples` | abstract: what a worker run reports, sample by sample | |
| `PeerWorker` | `_PeerWorkerProcess`, the sample loop and the worker's request loop, with the pipes between them | implements `PeerSamples`; takes from `ProducerRuntime` that an active runtime ignores `tlt_attach` and an inactive one ignores events |
| `MC...` | the instances TLC runs | |
| `Recursion` | lemmas: induction on numbers, recursive definitions over any domain | used by the proofs |
| `TraceRingProofs`, `RegionReaderProofs`, `StringPoolProofs`, `ProducerRuntimeProofs`, `SqlFingerprintProofs`, `TracedCallsProofs`, `PeerWorkerProofs` | theorems and proofs | |

### TraceRing

`pc[t]` is the next memory access of the call `t` is in: `Start` loads `tail`
and `head` and decides (a later move of `tail` only makes the decision
cautious), `StoreBody` stores payload words one at a time, `StoreHeader` the
header word, `Commit` the new `head`, `CountEvent` the region's counter;
`CountDrop` and `CountTotalDrop` are the drop path.  `Crash` stops a producer
for ever between any two of them.  A word carries the event it belongs to, the
event's length and its place in the event, so that overwriting or tearing
shows; timestamps and argument values are not told apart.  `log` and `drained`
are history.  Nothing under `src/` advances `tail`: the draining consumer is
the one `doc/runtime-protocol.md` section 8 describes and is external
(`Draining`).  `Decode` is the loop of `_drainRing`, which starts at word 0
wherever `tail` is; nothing is said of it for rings that are drained.  The
region's `total_events` and `total_dropped` are stored as the code stores them;
nothing under `src/` reads them (`native/tracelite_runtime.h:77` calls the first
informational), so no property is about them.  The stores are in program order: the code's release stores and
acquire loads are taken at their word and weaker orderings are not explored.

### RegionReader

`loadRegion` reads the file's bytes in file order; each step of `Load` copies
one word, interleaved with the producers: first the track's slot (`CopySlot`),
then the head of its ring, the drop counter and the data.  `fromRegionBytes`
decodes a ring only when the copied slot is registered or ended (`DrainRing`),
so a producer that registers and writes while the file is being read is missed
with all its events, those below the copied head included.  `registered` are the
slots whose last store has been made (`Register`); before it a track records
nothing.  `before` is history, the events committed when the slot was copied:
`SnapshotIsPrefix` says that none of these is missed.  Several rings are loaded
one after the other in a real load; here a load is of one track, which may be
any, since what it finds of one ring does not depend on another.

### RegionLayout

An area is a first byte and a length.  The header's 32-bit fields are taken
modulo `FieldRange`, which is 2^32 in the code and small for TLC.  A caller of
`create-region` may ask for any positive sizes; `createFile` refuses a ring
whose words are not a power of two (`Accepted`) and nothing else, and
`tlt_attach` refuses no size.  `LayoutExact` says that of the accepted sizes
exactly those work that have at most 256 producers, as
`doc/runtime-protocol.md:109` demands, and a pool of whole words, provided that
no field overflows.

### StringPool

The pool is an array of bytes, since the walk reads whatever stands where it
expects a length.  `reserved` (CAS won) and `interned` (id returned) are
history; `Holes` are reservations nobody filled.

### ProducerRuntime

Every access of a thread to a global, a slot state or the mapping that another
thread can interleave with is a step; an access through a pointer that is NULL
or unmapped is `Fault`.  A thread calls through the shim (`ShimCall`), on its
thread-local track (`RecordHere`) or through a recorder (`RecordOnTrack`).
`Reset` is one step because its contract (`native/tracelite_runtime.h:139`)
allows it at quiescent boundaries only; the harness then names the next region.
A reset leaves recorders and the thread-local ids of the other threads as they
are, and all of them may be used at any time afterwards.  A thread uses one
recorder at a time: a new one that attaches successfully replaces the old one,
which is not used again.  `usage` says what a process does besides: only
resets end tracks (`resets`), recorders and threads detach (`detaches`), or the
Dart VM runs an isolate on one thread after another (`moves`).  `CheckState`
lets an ended slot through, as `write_event` does (it refuses state < 2 only),
although `doc/runtime-protocol.md:159` says no new events come from one.

Known from the model and not a property of a run: a thread between its
`tlt_active` check and its access to the mapping faults when the last detach
unmaps the region (`NoFault` without its premise);
`doc/runtime-protocol.md:676` says the mapping stays.  `tlt_current_track_id`
answers the old id after a reset made by another thread, and -1 only from the
next attach on, when the generation advances.  A call that looks its id up in
between (`doc/runtime-protocol.md:695-697` says late calls occur) and goes on
when the next region is attached writes into whatever ring has this id there,
and so does every call through a recorder kept over a reset, whose detach ends
whatever slot has its id, an empty one included.  `origin` and
`recorder_region` say where an id comes from, and events stored and slots ended
through an id of another region are marked (`stale`, `hit`).  `EventsByOwner`,
`OneProducerPerTrack` and `SlotLifecycle` exempt exactly these; without the
exemption TLC finds late calls and kept recorders that write into the ring of
another thread.  What they say is that nothing else goes wrong: the generation
screens out every thread-local id that is looked up while a region is attached.

### SqlFingerprint

A statement is a text in C memory; `i`, `out`, `token` and `last_space` are the
scanner's own variables, `mode` the loop that is running.  Character classes
have a few members each (`Letters`, `Digits`, `Quotes`, `Markers`); `NULL`,
`TRUE` and `FALSE` are one keyword.  The lexemes a text was made from are known
to the properties only: `Canonical` is the fingerprint defined on them, and
`SqlLexemes` says which texts are lexemes and which may follow each other
(`Joins`); it is an assumption on `Statements`, which TLC evaluates.  Lexemes are
SQLite's with one exception: a comment of one line ends at a carriage return
too, as it does in the scanner (`native/shim_sqlite3.c:268`), while SQLite reads
on to the line feed, so that the comment's text behind a carriage return shows
in the fingerprint.  A number directly followed by a sign is excluded (`GluedNumber`): the scanner
reads `1--` and `1+a` as one number, so there the text of a comment, or the
absence of a word, shows in the fingerprint.  `Exec` interns its text whole, as
`sqlite3_exec` does in every capture mode although `README.md:72` makes raw
capture an opt-in.  The 64-bit hash in front of the label is a function of the
text and is left out.

### SqliteWrappers and TracedCalls

A wrapper is the conversions its event words are made by (`Encode`), one
operator per function, in the order of the C code; the vocabulary gives the
types a reader takes them for (`Decode`).  The two disagree in one place, and
`EventsDescribed` says so: the END of `sqlite3_column_blob` stores 0 or 1
(`native/shim_sqlite3.c:779`) where `tool/spans.yaml:309` declares a length in
bytes.  Words are taken at small widths (`Word32` = 4, `Word64` = 16): a
conversion is right or wrong by sign extension and truncation, which show there.

In `TracedCalls` a thread calls SQLite (`Call`), traces a call of its own
(`Trace`), starts an asynchronous one (`TraceAsync`) or writes a sample that
opens nothing (`Sample`).  `Return` ends the innermost call of a thread, on the
track the thread has *then*: `RecorderAttach` between the two ends of a call
moves it (`torn`).  `SyncSpansTrue` and `UnfinishedIsRunning` are about tracks
without such a call and without drops (`Whole`): elsewhere a finished call may
show as unfinished, or its END close an older beginning.  `CompleteAsync` may end any pending request, in any order,
when the thread runs nothing else.  `ids` says whether requests are numbered by
one counter, as `doc/format-spec.md:490` shows, or by each `TraceSession` for
itself.  Pairing is done as events are written: the reader takes them in this
order, since the clock advances between events.

### PeerWorker

Three parties: the harness (`hpc`), its event handlers (`HandleLine`,
`CompletePendingOnExit`, once for `exitCode.then`, once for the end of stdout
and once for an error on it) and the child (`wpc`).  `stdin` and `stdout` are
the pipes.  `pending`, `result` and `ready` are the completers.  A request is
named by its sample: `runPeer` is called at most once for one.  `attached` is
the region each runtime of the child writes to, `lingering` the samples whose
threads may still make traced calls, `events` who wrote what where, `seen` what
the harness found.  Faults: a crash of the child anywhere, a region that cannot
be created or attached, a scenario that throws, a metrics file that cannot be
written (`MetricsFail`), output of a peer that spoils an answer line
(`Garbles`), a dead child's stdin that swallows a request without an error
(`SinkReports = FALSE`).  A failed metrics file leaves runtimes and threads on the
region of its sample: `Retargeted` and `OkIsComplete` are checked without such
failures (`worker_returns`; `worker_retarget` refutes the first with them), as is
`RunPeerReturns`; `worker_safety` has them.  The exit code of a crash is never 0.  Left out: the
texts of stdout and stderr, and stopwatches.  Assumed: the
pause after the reset outlasts the threads a scenario leaves behind.

## 3. Runs

| Run | Configuration | Expected | Properties | Shows |
|---|---|---|---|---|
| `ring_drain` | `MCTraceRing.cfg` | pass | `CommittedIntact`, `DrainedFaithful`, `LossAccounted`, `RingInv`, `LoggedSpec`, `WriteReturns`, `EventuallyDrained` | One producer and a draining consumer on an 8-word ring, stopped or killed between any two memory accesses: no committed word is overwritten, nothing is drained torn or twice, every call is accounted for, the rings refine the abstract log, calls return and committed events are drained. |
| `reader_live` | `MCRegionReader.cfg` | pass | `SnapshotIsPrefix`, `NoSilentGap`, `LoadsFromLayout`, `RecordedSpec` | A region file copied word by word, the registry first, while its two producers register, write, drop and die: the decoded copy of a ring whose slot was registered is exactly the events committed when its head was read, of any other ring nothing, in either case every event committed before the load began, and a zero drop counter means no gap; what the decode loop makes of an undrained ring at rest refines the abstract log; and the areas of a region with rings of an accepted size are apart, aligned and recorded on their own rings exactly when it has at most 256 producers and a pool of whole words. |
| `pool_safety` | `MCStringPool.cfg` | pass | `ReservationsDisjoint`, `InternedIntact`, `WalkSoundBelowHoles`, `PoolInv`, `InternReturns` | Threads race for a pool of a few entries and die anywhere in tlt_intern_string: entries lie inside the pool and never overlap, an interned string is never written again, the walk finds every string below the first unfilled entry, and every call returns, also when others win the CAS, die after reserving or fill the pool. |
| `pool_crash` | `MCStringPool_crash.cfg` | violation | `CrashKeepsStrings` | A producer killed between its CAS and the store of the length leaves a zero length in the pool, and the walk loses strings that other producers interned. |
| `runtime_reset` | `MCProducerRuntime.cfg` | pass | `RuntimeInv`, `EventsByOwner`, `OneProducerPerTrack`, `NoFault`, `SlotLifecycle` | Two threads attach concurrently, claim slots and write through the shim or a recorder, and the process resets and moves to the next region, or its threads end their tracks, while recorders and thread-local ids of the earlier region stay in use, or its isolates move between threads: an event lands in a ring of another thread, and a slot is ended out of order, only through an id of an earlier region, no slot is held or won twice, and nothing faults when only resets end tracks. |
| `runtime_moves` | `MCProducerRuntime_moves.cfg` | violation | `SoleWriter` | An isolate that registered on one thread and goes on on another leaves its track id in the first thread's TLS: a call the first thread makes writes into the ring the recorder writes, at the same time. |
| `sql_fingerprint` | `MCSqlFingerprint.cfg` | pass | `FingerprintCanonical`, `ScanInv`, `ScanReturns` | Every statement of up to three lexemes, comments ended by a line feed or a carriage return among them, the last one possibly cut off, passed with a NUL, with a length, or with a length beyond its NUL, under every capture mode: the fingerprint is that of the lexemes unless a sign follows a number, the scanner stays within text and buffers, and it ends. |
| `traced_calls` | `MCTracedCalls.cfg` | pass | `SyncSpansTrue`, `AsyncSpansTrue`, `UnmatchedExplained`, `UnfinishedIsRunning`, `EventsDescribed`, `CallsInv` | Two threads call SQLite and trace calls of their own, nested and asynchronous, while tracks are registered in the middle of calls, slots run out and rings fill up: spans join the two ends of one call, ends without a beginning are explained, spans without an end are calls in progress on tracks that dropped nothing and have both ends of every call, and the words of every event of the wrappers but the END of sqlite3_column_blob are what the vocabulary declares. |
| `async_sessions` | `MCTracedCalls_sessions.cfg` | violation | `SessionSpansTrue` | Two TraceSessions of one region trace the same span at the same time: both use correlation id 1, and the reader joins the beginning of one request with the end of the other. |
| `worker_safety` | `MCPeerWorker_safety.cfg` | pass | `OwnEventsOnly`, `ReadAfterUse`, `SuccessWasAnswered`, `WorkerInv`, `ResultFinal`, `SamplesSpec`, `CloseReturns` | A preflight and two samples in one worker process that crashes anywhere, spoils answer lines, answers late and cannot always write its metrics: no sample is read with events of another, success is never read off an exit code, no result is delivered twice, the reports follow PeerSamples, and close ends within its two timeouts with nothing assumed of the scheduling of the child. |
| `worker_returns` | `MCPeerWorker_returns.cfg` | pass | `Retargeted`, `OkIsComplete`, `RunPeerReturns` | While metrics files can be written, every scenario runs with all runtimes on its own region and a sample reported ok has lost no event to another region, however attaches and scenarios fail; and every call of runPeer returns although the worker may crash or exit, when answer lines arrive intact and scenarios end. |
| `worker_retarget` | `MCPeerWorker_retarget.cfg` | violation | `Retargeted` | When the metrics file of a sample cannot be written the runtimes are not reset, and the next sample runs with its runtimes on the region of the earlier one. |

`CHECK_DEADLOCK FALSE` in every configuration: producers make a bounded number
of calls and may die, so the models stop.

**Bounds.** A ring of 8 words with events of 2 to 4 words wraps twice within
five writes and meets every alignment of an event with the end of the ring,
including exact fit and one word too few.  The reader's instance has two
producers on rings of 4 words and three writes each, what a drop followed by an
event that fits needs.  The sizes of regions lie on both sides of 256 producers, of
whole words, of powers of two and of `FieldRange`.  A pool of 20 bytes holds two or
three of the strings of 0, 1 and 5 bytes, so entries start at aligned and
unaligned places and the pool fills.  Two threads, two slots and two regions
are the smallest instance with a race for a slot, a full registry and an id
that survives into the next region; `MaxGeneration` lets both threads attach
at the same time, between resets twice; moving isolates have one region, which
suffices for `SoleWriter` to fail.  `runtime_reset` stops at two producers that
have written (`FewEvents`, a state constraint), takes threads for
interchangeable (`AnyThread`) and tells states apart by what a thread may still
read (`WithoutLeftovers`, a view: the caller, track and origin of a finished
call are overwritten before they are read).  Statements of
up to three lexemes put every class next to every other and cut the last one
off; an output of 5 and a token of 4 characters overflow within them.  Four
calls of two threads nest three deep, or overlap two requests of each of two
sessions, and fill a ring of 8 words; two slots are too few for two threads and
their recorders.  A preflight and two samples with two runtimes are the
smallest instance in which a sample follows another one in the same process
and one runtime can be left behind while the other moves on.

**Fairness.** `TraceRing`: a thread inside `write_event` keeps running and so
does the consumer (weak fairness of `Write` and of `Drain`); nothing obliges
the program to record another event, and a dead process takes no step.
`StringPool`: weak fairness of a running call, and strong fairness of the CAS:
a weak CAS may fail spuriously but not for ever.
`SqlFingerprint`: a call that has begun goes on (weak fairness of `Scan`);
nothing in it waits.
`PeerWorker`: the event loop of the harness runs and its timers fire (weak
fairness of `Harness` and of `Handlers`); for `RunPeerReturns` the child is
scheduled and its scenario ends (weak fairness of `Progress`), for
`CloseReturns` nothing is assumed of the child.

## 4. Proofs

`TraceRingProofs` proves, for every number of tracks, ring size, event length
and number of writes, that `RingInv` is inductive, and from it `TypeOK`,
`CommittedIntact`, `DrainedFaithful`, `LossAccounted` and that the module
implements `TraceLog` (`LoggedSpec`).  Assumed: `RingAssumption` (a ring has at
least one word).  The safety properties are not inductive on their own:
`RingInv` adds how the cursors and the log hang together (`CursorsAgree`,
`LogTiled`: the events of the log tile the counters up to `head`, and `tail`
is the start of one of them) and what the call in flight has already stored
(`WriteInPlace`).  The heart is `SlotsApart`: two counters less than a ring
apart never share a slot, so a store inside the free words misses every word
between `tail` and `head` (`StoreMissesCommitted`, `StoreIsPrivate`).  Each
action has a lemma for the acting track; `OthersKept` and `Untouched` handle
the other tracks.

`RegionReaderProofs` goes on to `RecordedSpec`: the log of `TraceLog` is also
what the *reader* makes of a ring that nobody drains.  `Decode` is the loop of
`_drainRing` over the words from 0 to `head`; `DecodeScans` and `DecodeReads`
(in `TraceRingProofs`) say what it returns when events tile these words, by
induction on their number.

`Recursion` is what makes that possible.  A recursive function of TLA+ is
some function that satisfies its equation *if one does*, and nothing follows
from a definition like `Decode` before that is proved.
`RecursionDefines` proves it for every definition whose calls lower a measure,
with domain, stop set, stop values and combining step given as functions;
`Induction` has a set of numbers in place of a predicate.  Both avoid the
operator parameters of the library's theorems, which the provers cannot
instantiate.

`RegionReaderProofs` also proves, for any tracks, ring size and number of
writes, `SnapshotIsPrefix` and `NoSilentGap` from `ReaderInv`.  Neither is
inductive, since they speak of a finished load: `ReaderInv` extends `RingInv`
by what each partial copy is worth.  The copied head is
the end of some committed event, the words of it and of its predecessors that
the copy has are the ones they were written with, since nobody advances `tail` and so
nobody stores over them, and once the drop counter is copied, it covers every drop
before them: it stands behind the head in the file (`Covers`).  That event is
none of those before the load began, and a track that was not registered then
had recorded nothing (`CopyFits`).
Assumed: `ReaderAssumption` (nobody drains while a file is read,
as nothing under `src/` does), `RingAssumption`.  TLC confirmed `ReaderInv` on the
instance of `MCRegionReader.cfg` (656,196 states).

The same module proves `LayoutExact`, and with it `LoadsFromLayout`, for
all accepted sizes: `BlocksApart` is the
arithmetic of blocks of one size, `FieldsExact` says what a header holds whose
fields do not overflow, and one lemma each treats the order of the areas, their
alignment and the track ids.  Assumed: `LayoutAssumption`.

`StringPoolProofs` proves, for any threads, strings and pool size, that
`PoolInv` is inductive and with it `ReservationsDisjoint` (entries are disjoint
and end at the head, which stays inside the pool) and `InternedIntact`.  The strengthening says who may still write: a thread
between its CAS and its return owns an unfilled entry of its own
(`OwnersApart`), and has stored the length by the time it copies the bytes
(`HalfFilled`); a store inside one entry leaves every other entry alone
(`StoreInsideEntry`).  `WalkSoundBelowHoles` needs `Tiled` besides: the entries
follow each other without a gap from the first byte to `pool_head`, so the
walk of `_readStringPool` goes from the start of one entry to the start of the
next until it meets a hole.  Assumed: `PoolAssumption`: the size of the pool
and the lengths of entries fit 32 bits, the width of both in the file
(`native/tracelite_runtime.c:344`); a longer string would be stored under a
length that is not its own.

`ProducerRuntimeProofs` proves, for any threads, slots, regions and usages,
that `RuntimeInv` is inductive, and from it `EventsByOwner`,
`OneProducerPerTrack`, `NoFault` and `SlotLifecycle`.  The properties speak of
events, ids and slots; the strengthening says where an id comes from.  A slot
that is being claimed belongs to exactly the thread that won its CAS
(`ClaimsOwned`, `ClaimsHeld`), and a region that is not yet the target is
untouched (`OnTarget`).  After a reset recorders and the other threads still
have their ids of the last region, and `tlt_current_track_id` still answers
them until the next attach has advanced the generation (`IdsCurrent`): from
then on a thread-local id that answers, an id a call obtained in the region that
is named now, and the id of a recorder that was attached to it were all claimed
there by their thread (`TracksOwned`, `GenerationsPast`).  The slot of a claim
in progress stays `claiming` unless a detach with an old id hits it
(`ClaimsOwned`).  A thread past its check of `tlt_active` keeps the mapping while nothing but a
reset takes it away (`MappingKept`).  Each step of a thread has a lemma.
Assumed: `RuntimeAssumption`.

`SqlFingerprintProofs` proves, for any alphabet, statements and buffer sizes,
two things.  `ScanInv` is inductive: the scanner reads nothing beyond the statement,
writes nothing beyond `normalized` and `token`, and what it has emitted has no
quote and no two spaces in a row (`CappedOK`,
`CappedSpace`); assumed: `FingerprintAssumption`.  And the label is the
canonical form of the lexemes (`FingerprintCanonical`), from `LexemeInv`: the
label shows the first k lexemes, as far as it has room, and the scanner is either
between two lexemes or inside lexeme k + 1, in the loop that reads this class
and not past its end.  `BranchIs` says that the branch taken at the start of a
lexeme is the one of its class, `LoopStarts` and the lemmas `LineRound` to
`WordRound` that a round of each loop stays inside or leaves at the end,
`EmitShows` that a label cut off at the buffer's end is cut off where the
canonical one is.  Assumed: `LexemesAssumption`: a statement is made of whole
lexemes that do not run into each other, the last of which may lack its end;
its length argument is negative, the length of the text, or more with a NUL
behind the text; keywords are shorter than the token buffer.  TLC confirmed
`LexemeInv` on the instance of `MCSqlFingerprint.cfg` (197,724 states).

`TracedCallsProofs` proves, for any threads, functions, spans, ids, slots and
ring size, that `CallsInv` is inductive, and from it `SyncSpansTrue`,
`AsyncSpansTrue`, `UnmatchedExplained` and `UnfinishedIsRunning`.  A pair that
is right says nothing of the next one: the strengthening says that tracks
belong to one thread each (`TracksOwned`), that on a track that dropped nothing
and is not torn the open beginnings are exactly the calls in progress
(`OpenIsRunning`; calls of one thread end innermost first, so the newest
beginning with a key is the one that ends), and that ids of one counter are
handed out once and pending requests have their beginning open unless it was
dropped (`RequestsDistinct`, `PendingOpen`).  Assumed: `CallsAssumption`.
`EventsDescribed` is about the tables of `SqliteWrappers` alone and proved for
every width of an int and of an event word: `ConversionsFit` has a case per
conversion (what a value becomes in an event word, what the declared type makes
of it), `FlagIsNoLength` treats the one word that is not what is declared, and
`WrappersFit` goes through the functions one by one.

`PeerWorkerProofs` proves, for any number of samples and runtime libraries,
that `WorkerInv` is inductive, and from it `SuccessWasAnswered`,
`ReadAfterUse`, `OwnEventsOnly`, that the module implements `PeerSamples` and,
when metrics files can be written, `Retargeted` and `OkIsComplete`.
`ResultFinal` is proved handler by handler: an answer completes only a request
that waits, and so do the end of stdout, an error on it and the exit.
Assumed: `WorkerAssumption`.  The strengthening says where the one request is
while the child lives (`OneRequest`: in stdin, with the child, in stdout,
delivered or spoilt), what is pending (`Bookkeeping`), that the exit code 0
and a pending request exclude each other (`Success`), that verdicts are given
in order (`Reporting`), that runtimes are never on the region of a later sample
and threads are left behind only together with all runtimes (`Separation`, which
keeps the traces apart also when metrics files fail), and that otherwise
runtimes and leftover threads belong to the request being served (`Isolation`).

Every safety invariant, every action property and every refinement of the runs
that pass is proved.  Only model-checked are the liveness properties
(`WriteReturns`, `EventuallyDrained`, `InternReturns`, `ScanReturns`,
`RunPeerReturns`, `CloseReturns`): they need fairness, and so ENABLED, which the
prover does not treat.

## 5. Where code and documents disagree

* `worker_retarget` (`Retargeted`, `src/tool/peer_runner.dart:172`): _writePeerMetrics is the first call of the finally block and may throw (an unwritable or full scratch directory, a value jsonEncode refuses): the resets and the pause after it are then skipped, the request is answered with 65 and the worker goes on. tlt_attach answers 0 while a runtime is active, so the next request runs with its runtimes still on the region of the failed sample and its trace is lost. README.md:171 says the worker "retargets each sample to a fresh trace region", and doc/production-benchmark-readiness.md:711 that it "explicitly attaches each sample to a fresh trace region, resets native Tracelite runtimes at quiescent sample boundaries".
* `pool_crash` (`CrashKeepsStrings`, `src/native/tracelite_runtime.c:362`): The code publishes the reservation (CAS on string_pool_head) before it stores the length, so a producer that dies in between leaves a zero length where the reader expects one; _readStringPool then reads the bytes of the hole as empty entries and later strings are found under other ids or not at all. doc/runtime-protocol.md:554 says "The protocol survives any producer crash without corrupting the buffer or the trace. The worst case is some events lost."
* `runtime_moves` (`SoleWriter`, `src/native/tracelite_runtime.c:309`): tlt_register_producer stores the new track id in the thread-local tlt_my_track_id also when a TraceRecorder registers, which keeps the id itself and writes with the *_on_track calls. native/tracelite_runtime.h:194 says those are for "logical producers whose event emission can move across OS threads (notably Dart async continuations)": once the isolate goes on on another thread, a tlt_* call made on the first one (a wrapped SQLite function linked into the same library, say) still writes into the recorder's ring, at the same time as the recorder. native/tracelite_runtime.c:14 says "Each producer owns a private ring buffer (SPSC: producer is sole writer of head + data; consumer is sole writer of tail)."
* `async_sessions` (`SessionSpansTrue`, `src/lib/src/session.dart:104`): Every TraceSession counts its correlation ids from 1 and traceAsync takes one of them unless the caller passes another, while _pairAsyncSpans pairs by span id and correlation id over all tracks. Two sessions of one region (two isolates, or two processes) that trace the same span concurrently get spans with the end of the other's request. doc/format-spec.md:46 says "**Correlation ID** — a 64-bit value linking events across tracks (one logical request's lifetime).", doc/format-spec.md:490 shows one atomic counter, and doc/format-spec.md:505 promises "The aggregator can now reconstruct the full lifecycle of every request by joining on correlation ID."

## 6. Not modelled

* Memory orders weaker than the ones the code asks for, and the compiler.
* Windows code paths; file-system failures other than the ones `PeerWorker`
  names; the FFI layer.
* What SQLite does behind a wrapper; the hash of a fingerprint; the Dart
  normalisation of raw captures (`lib/src/trace.dart:846`).
* The validation of a region's header; files cut short.
* Statistics, decision gates and suite history: planned, see below.
* Reports, insights, graph data, vocabularies, the command line, the
  visualizer, the benchmark scenarios and the maintenance tools: sequential
  formatting or third-party code.

## 7. Plan

Done: `TraceRing`, `TraceLog`, `RegionReader`, `RegionLayout`; `StringPool`;
`ProducerRuntime`; `PeerSamples`, `PeerWorker`; `SqlFingerprint`;
`SqliteWrappers`, `TracedCalls`; and the proofs of every safety property,
action property and refinement that the runs check.
Left, the most important first:

1. `SuiteHistory`: timeouts recommended from earlier runs, and which runs
   calibrate.
2. `DecisionGate`: classification of runs and differences as operators checked
   against reference definitions.
3. Both modules' classifications are functions of records and sequences:
   `Recursion` serves for what they prove over runs of any length.
