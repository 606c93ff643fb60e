----------------------------- MODULE PeerWorker -----------------------------
(***************************************************************************)
(* compare --runner=worker: one long-lived child process runs every        *)
(* sample.  The harness (class _PeerWorkerProcess and the sample loop of    *)
(* tool/tracelite_dev.dart) writes requests to its stdin and reads answers *)
(* from its stdout; the child (tool/peer_runner.dart) points its tracelite *)
(* runtimes at the region of the sample, runs the scenario, resets them    *)
(* and answers.                                                            *)
(*                                                                         *)
(* Sample 0 is the preflight trace.  runPeer is called at most once for a  *)
(* sample, so a request is named by its sample.  Threads that a scenario   *)
(* leaves behind (the reader isolates of resqlite) may go on calling their *)
(* runtime until the pause after the reset has passed.                     *)
(***************************************************************************)
EXTENDS Integers, Sequences

CONSTANTS
  LastSample,     (* bound: samples 1..LastSample follow the preflight     *)
  LastRuntime,    (* runtime libraries 1..LastRuntime, in opening order    *)
  MetricsFail,    (* whether writing the metrics file may throw            *)
  Garbles,        (* whether output of a peer may spoil an answer line     *)
  SinkReports     (* dart:io: whether a flush to a dead child always fails *)

ASSUME WorkerAssumption ==
  /\ LastSample \in Nat
  /\ LastRuntime \in Nat \ {0}
  /\ MetricsFail \in BOOLEAN
  /\ Garbles \in BOOLEAN
  /\ SinkReports \in BOOLEAN

Samples == 0..LastSample
Runtimes == 1..LastRuntime
NoRegion == -1
Pending == -2     (* a result that has not been delivered *)
Running == -3     (* the exit code of a child that has not exited *)

VARIABLES
  (* The harness.                                                          *)
  hpc,            (* its place in startWorker, the sample loop and close   *)
  sample,         (* the sample the loop is at                             *)
  pending,        (* keys of _pending                                      *)
  result,         (* exit code each request's completer was completed with *)
  ready,          (* the _ready completer                                  *)
  callbacks,      (* subscriptions that will call _completePendingOnExit   *)
  verdict,        (* status of every sample                                *)
  seen,           (* events found in the region of a sample                *)
  (* The pipes.                                                            *)
  stdin,          (* lines written and not read by the child               *)
  stdinOpen,
  stdout,         (* lines printed and not handled by the harness          *)
  signalled,      (* close has sent SIGTERM                                *)
  (* The child.                                                            *)
  wpc,            (* its place in _runPeerWorker                           *)
  request,        (* the sample of the request it runs                     *)
  at,             (* the runtime an attach or reset loop is at             *)
  code,           (* exitCode of the answer it prepares                    *)
  unsupported,    (* the scenario threw UnsupportedPeerScenario            *)
  attached,       (* the region each runtime writes to                     *)
  lingering,      (* samples whose threads may still call                  *)
  exitCode,       (* of the process                                        *)
  (* The file system.                                                      *)
  metrics,        (* status in the metrics file of a sample                *)
  events          (* <<region, sample whose code emitted it, runtime>>     *)

harness == <<hpc, sample, pending, result, ready, callbacks, verdict, seen>>
pipes   == <<stdin, stdinOpen, stdout, signalled>>
child   == <<wpc, request, at, code, unsupported, attached, lingering, exitCode>>
files   == <<metrics, events>>
vars    == <<harness, pipes, child, files>>

Init ==
  /\ hpc = "starting" /\ sample = 0
  /\ pending = {}
  /\ result = [s \in Samples |-> Pending]
  /\ ready = "waiting"
  /\ callbacks = {"exit", "done"}
  /\ verdict = [s \in Samples |-> "none"]
  /\ seen = [s \in Samples |-> {}]
  /\ stdin = <<>> /\ stdinOpen = TRUE /\ stdout = <<>> /\ signalled = FALSE
  /\ wpc = "boot" /\ request = 0 /\ at = 1 /\ code = 0
  /\ unsupported = FALSE
  /\ attached = [k \in Runtimes |-> NoRegion]
  /\ lingering = {}
  /\ exitCode = Running
  /\ metrics = [s \in Samples |-> "none"]
  /\ events = {}

Exited == wpc = "exited"
Shutdown == -4     (* the line {"command": "shutdown"} *)

-----------------------------------------------------------------------------
(* The harness: startWorker, _workerPreflight, _runPeerCompare, close.     *)

ReadyOk ==
  /\ hpc = "starting" /\ ready = "ready"
  /\ hpc' = "create"
  /\ UNCHANGED <<sample, pending, result, ready, callbacks, verdict, seen,
                 pipes, child, files>>

(* The error of the future ends the command; the child is gone already.    *)
ReadyFails ==
  /\ hpc = "starting" /\ ready = "failed"
  /\ hpc' = "ended"
  /\ UNCHANGED <<sample, pending, result, ready, callbacks, verdict, seen,
                 pipes, child, files>>

ReadyTimeout ==
  /\ hpc = "starting" /\ ready = "waiting"
  /\ hpc' = "close"
  /\ UNCHANGED <<sample, pending, result, ready, callbacks, verdict, seen,
                 pipes, child, files>>

(* Mutant: a failed preflight is only reported.                            *)
AfterSampleTrusting(s, v) == IF s = LastSample THEN "close" ELSE "create"

AfterSample(s, v) ==
  IF (s = 0 /\ v # "ok") \/ s = LastSample THEN "close" ELSE "create"

Classify(v) ==
  /\ verdict' = [verdict EXCEPT ![sample] = v]
  /\ hpc' = AfterSample(sample, v)
  /\ sample' = IF AfterSample(sample, v) = "create" THEN sample + 1 ELSE sample

CreateRegion ==
  /\ hpc = "create"
  /\ \/ hpc' = "send" /\ UNCHANGED <<sample, verdict>>
     \/ Classify("failed")
  /\ UNCHANGED <<pending, result, ready, callbacks, seen, pipes, child, files>>

(* runPeer up to the flush.  What is written to a dead child is lost.      *)
SendRequest ==
  /\ hpc = "send"
  /\ hpc' = IF Exited THEN "lost" ELSE "flush"
  /\ pending' = pending \cup {sample}
  /\ stdin' = IF Exited THEN stdin ELSE Append(stdin, sample)
  /\ UNCHANGED <<sample, result, ready, callbacks, verdict, seen, stdinOpen,
                 stdout, signalled, child, files>>

FlushOk ==
  /\ hpc = "flush" \/ (hpc = "lost" /\ ~SinkReports)
  /\ hpc' = "wait"
  /\ UNCHANGED <<sample, pending, result, ready, callbacks, verdict, seen,
                 pipes, child, files>>

(* The request stays in _pending.                                          *)
FlushThrows ==
  /\ hpc \in {"flush", "lost"} /\ Exited
  /\ Classify("failed")
  /\ UNCHANGED <<pending, result, ready, callbacks, seen, pipes, child, files>>

(* The preflight does not look at the metrics file.                        *)
Status(s) ==
  IF s > 0 /\ metrics[s] = "unsupported" THEN "unsupported"
  ELSE IF result[s] # 0 THEN "failed"
  ELSE IF \A e \in events : e[1] # s THEN "no_trace" ELSE "ok"

(* A file of the sample that cannot be read fails it, and so do            *)
(* diagnostics in the trace of the preflight.                              *)
ReadSample ==
  /\ hpc = "wait" /\ result[sample] # Pending
  /\ seen' = [seen EXCEPT ![sample] = {e \in events : e[1] = sample}]
  /\ \E v \in {Status(sample), "failed"} : Classify(v)
  /\ UNCHANGED <<pending, result, ready, callbacks, pipes, child, files>>

(* close: a failure of the shutdown line only sends the signal earlier.    *)
CloseWorker ==
  /\ hpc = "close"
  /\ hpc' = "closing"
  /\ stdin' = IF Exited THEN stdin ELSE Append(stdin, Shutdown)
  /\ stdinOpen' = FALSE
  /\ UNCHANGED <<sample, pending, result, ready, callbacks, verdict, seen,
                 stdout, signalled, child, files>>

CloseTimeout ==
  /\ hpc = "closing" /\ ~Exited
  /\ signalled' = TRUE
  /\ hpc' = "killing"
  /\ UNCHANGED <<sample, pending, result, ready, callbacks, verdict, seen,
                 stdin, stdinOpen, stdout, child, files>>

(* Mutant: the second wait has no onTimeout.                               *)
CloseEndsOnExit ==
  /\ hpc \in {"closing", "killing"} /\ Exited
  /\ hpc' = "ended"
  /\ callbacks' = {}
  /\ UNCHANGED <<sample, pending, result, ready, verdict, seen, pipes, child,
                 files>>

(* The child has exited, or the second wait is over; both subscriptions    *)
(* are cancelled.                                                          *)
CloseEnds ==
  /\ \/ hpc \in {"closing", "killing"} /\ Exited
     \/ hpc = "killing"
  /\ hpc' = "ended"
  /\ callbacks' = {}
  /\ UNCHANGED <<sample, pending, result, ready, verdict, seen, pipes, child,
                 files>>

-----------------------------------------------------------------------------
(* The event handlers of _PeerWorkerProcess.                               *)

(* Mutant: a completer is completed without looking whether it has been.   *)
DeliverAgain(s, c) == [result EXCEPT ![s] = c]

(* _pending.remove: an answer nobody waits for is noise.                   *)
Deliver(s, c) ==
  IF s \in pending /\ result[s] = Pending THEN [result EXCEPT ![s] = c]
  ELSE result

(* Mutant: an answer completes whatever request is pending.                *)
HandleLineAnyId ==
  /\ stdout # <<>> /\ hpc # "ended"
  /\ LET line == Head(stdout) IN
       CASE line.kind = "ready" ->
              /\ ready' = IF ready = "waiting" THEN "ready" ELSE ready
              /\ UNCHANGED <<pending, result, callbacks>>
         [] line.kind = "answer" ->
              /\ result' = Deliver(sample, line.code)
              /\ pending' = pending \ {sample}
              /\ UNCHANGED <<ready, callbacks>>
         [] line.kind = "noise" ->
              /\ callbacks' = callbacks \cup {"error"}
              /\ UNCHANGED <<pending, result, ready>>
  /\ stdout' = Tail(stdout)
  /\ UNCHANGED <<hpc, sample, verdict, seen, stdin, stdinOpen, signalled, child,
                 files>>

(* _handleStdoutLine, and the onError of the subscription when the bytes   *)
(* are not UTF-8; a line that is no JSON object is kept as noise.          *)
HandleLine ==
  /\ stdout # <<>> /\ hpc # "ended"
  /\ LET line == Head(stdout) IN
       CASE line.kind = "ready" ->
              /\ ready' = IF ready = "waiting" THEN "ready" ELSE ready
              /\ UNCHANGED <<pending, result, callbacks>>
         [] line.kind = "answer" ->
              /\ result' = Deliver(line.id, line.code)
              /\ pending' = pending \ {line.id}
              /\ UNCHANGED <<ready, callbacks>>
         [] line.kind = "noise" ->
              /\ callbacks' \in {callbacks, callbacks \cup {"error"}}
              /\ UNCHANGED <<pending, result, ready>>
  /\ stdout' = Tail(stdout)
  /\ UNCHANGED <<hpc, sample, verdict, seen, stdin, stdinOpen, signalled, child,
                 files>>

(* Mutant: the callback does not wait for the exit code.                   *)
CompletePendingAtOnce(who) ==
  /\ who \in callbacks /\ hpc # "ended"
  /\ who \in {"exit", "done"} => Exited
  /\ who = "done" => stdout = <<>>
  /\ callbacks' = callbacks \ {who}
  /\ ready' = IF ready = "waiting" THEN "failed" ELSE ready
  /\ result' = [s \in Samples |->
                  IF s \in pending /\ result[s] = Pending THEN exitCode
                  ELSE result[s]]
  /\ pending' = {}
  /\ UNCHANGED <<hpc, sample, verdict, seen, pipes, child, files>>

(* Mutant: only the ready completer is failed.                             *)
CompleteReadyOnExit(who) ==
  /\ who \in callbacks /\ Exited /\ hpc # "ended"
  /\ who = "done" => stdout = <<>>
  /\ callbacks' = callbacks \ {who}
  /\ ready' = IF ready = "waiting" THEN "failed" ELSE ready
  /\ UNCHANGED <<hpc, sample, pending, result, verdict, seen, pipes, child,
                 files>>

(* _completePendingOnExit, from exitCode.then ("exit"), from the end of    *)
(* stdout ("done") or from an error on it; each waits for the exit code.   *)
CompletePendingOnExit(who) ==
  /\ who \in callbacks /\ Exited /\ hpc # "ended"
  /\ who = "done" => stdout = <<>>
  /\ callbacks' = callbacks \ {who}
  /\ ready' = IF ready = "waiting" THEN "failed" ELSE ready
  /\ result' = [s \in Samples |->
                  IF s \in pending /\ result[s] = Pending THEN exitCode
                  ELSE result[s]]
  /\ pending' = {}
  /\ UNCHANGED <<hpc, sample, verdict, seen, pipes, child, files>>

-----------------------------------------------------------------------------
(* The child: _runPeerWorker and _runPeerWorkerRequest.                    *)

Exit(c) ==
  /\ wpc' = "exited"
  /\ exitCode' = c
  /\ attached' = [k \in Runtimes |-> NoRegion]
  /\ lingering' = {}

(* No runtime library could be opened: exit 66.                            *)
Boot ==
  /\ wpc = "boot"
  /\ \/ /\ wpc' = "loop"
        /\ stdout' = Append(stdout, [kind |-> "ready"])
        /\ UNCHANGED <<attached, lingering, exitCode>>
     \/ Exit(66) /\ UNCHANGED stdout
  /\ UNCHANGED <<harness, stdin, stdinOpen, signalled, request, at, code,
                 unsupported, files>>

TakeRequest ==
  /\ wpc = "loop" /\ stdin # <<>> /\ Head(stdin) # Shutdown
  /\ request' = Head(stdin)
  /\ stdin' = Tail(stdin)
  /\ wpc' = "attach" /\ at' = 1 /\ code' = 0 /\ unsupported' = FALSE
  /\ UNCHANGED <<harness, stdinOpen, stdout, signalled, attached, lingering,
                 exitCode, files>>

LeaveLoop ==
  /\ wpc = "loop"
  /\ \/ stdin # <<>> /\ Head(stdin) = Shutdown
     \/ stdin = <<>> /\ ~stdinOpen
  /\ Exit(0)
  /\ UNCHANGED <<harness, pipes, request, at, code, unsupported, files>>

(* tlt_attach answers 0 and changes nothing while the runtime is active.   *)
Attach ==
  /\ wpc = "attach"
  /\ attached' = IF attached[at] = NoRegion
                 THEN [attached EXCEPT ![at] = request] ELSE attached
  /\ at' = IF at = LastRuntime THEN at ELSE at + 1
  /\ wpc' = IF at = LastRuntime THEN "run" ELSE "attach"
  /\ UNCHANGED <<harness, pipes, request, code, unsupported, lingering,
                 exitCode, files>>

AttachFails ==
  /\ wpc = "attach" /\ attached[at] = NoRegion
  /\ code' = 65
  /\ wpc' = "metrics"
  /\ UNCHANGED <<harness, pipes, request, at, unsupported, attached, lingering,
                 exitCode, files>>

(* A traced call of the scenario, or of a thread an earlier one left.      *)
Record(k) ==
  /\ attached[k] # NoRegion
  /\ \E s \in lingering \cup (IF wpc = "run" THEN {request} ELSE {}) :
       events' = events \cup {<<attached[k], s, k>>}
  /\ UNCHANGED <<harness, pipes, child, metrics>>

(* Mutant: a scenario that throws is answered at once, without the resets. *)
RunScenarioNoFinally ==
  /\ wpc = "run"
  /\ lingering' \in {lingering, lingering \cup {request}}
  /\ \/ wpc' = "metrics" /\ unsupported' \in BOOLEAN /\ code' = code
     \/ wpc' = "answer" /\ code' = 65 /\ UNCHANGED unsupported
  /\ UNCHANGED <<harness, pipes, request, at, attached, exitCode, files>>

(* runPeerScenario returns, throws UnsupportedPeerScenario, or throws.     *)
RunScenario ==
  /\ wpc = "run"
  /\ lingering' \in {lingering, lingering \cup {request}}
  /\ \/ unsupported' \in BOOLEAN /\ code' = code
     \/ code' = 65 /\ UNCHANGED unsupported
  /\ wpc' = "metrics"
  /\ UNCHANGED <<harness, pipes, request, at, attached, exitCode, files>>

(* Mutant: the answer leaves before the finally block.                     *)
WriteMetricsAfterAnswer ==
  /\ wpc = "metrics"
  /\ metrics' = [metrics EXCEPT ![request] =
                   IF unsupported THEN "unsupported" ELSE "ok"]
  /\ stdout' = Append(stdout, [kind |-> "answer", id |-> request, code |-> code])
  /\ at' = LastRuntime
  /\ wpc' = "reset"
  /\ UNCHANGED <<harness, stdin, stdinOpen, signalled, request, code,
                 unsupported, attached, lingering, exitCode, events>>

WriteMetrics ==
  /\ wpc = "metrics"
  /\ metrics' = [metrics EXCEPT ![request] =
                   IF unsupported THEN "unsupported" ELSE "ok"]
  /\ at' = LastRuntime
  /\ wpc' = "reset"
  /\ UNCHANGED <<harness, pipes, request, code, unsupported, attached,
                 lingering, exitCode, events>>

(* The exception leaves the finally block: no reset, no pause.             *)
WriteMetricsThrows ==
  /\ wpc = "metrics" /\ MetricsFail
  /\ code' = 65
  /\ wpc' = "answer"
  /\ UNCHANGED <<harness, pipes, request, at, unsupported, attached, lingering,
                 exitCode, files>>

(* Mutant: the loop stops before the first runtime.                        *)
ResetRuntimeOffByOne ==
  /\ wpc = "reset"
  /\ attached' = IF at = 1 THEN attached
                 ELSE [attached EXCEPT ![at] = NoRegion]
  /\ at' = IF at = 1 THEN at ELSE at - 1
  /\ wpc' = IF at = 1 THEN "pause" ELSE "reset"
  /\ UNCHANGED <<harness, pipes, request, code, unsupported, lingering,
                 exitCode, files>>

(* runtimes.reversed; tlt_reset_runtime cannot fail.                       *)
ResetRuntime ==
  /\ wpc = "reset"
  /\ attached' = [attached EXCEPT ![at] = NoRegion]
  /\ at' = IF at = 1 THEN at ELSE at - 1
  /\ wpc' = IF at = 1 THEN "pause" ELSE "reset"
  /\ UNCHANGED <<harness, pipes, request, code, unsupported, lingering,
                 exitCode, files>>

(* Mutant: the answer is not delayed.                                      *)
NoQuiescence ==
  /\ wpc = "pause"
  /\ wpc' = "answer"
  /\ UNCHANGED <<harness, pipes, request, at, code, unsupported, attached,
                 lingering, exitCode, files>>

(* _postResetQuiescence: the threads left behind are over when it ends.    *)
PostResetQuiescence ==
  /\ wpc = "pause"
  /\ lingering' = {}
  /\ wpc' = "answer"
  /\ UNCHANGED <<harness, pipes, request, at, code, unsupported, attached,
                 exitCode, files>>

(* A peer that printed half a line, or bytes that are not UTF-8, spoils    *)
(* the line of the answer.                                                 *)
Answer ==
  /\ wpc = "answer"
  /\ \/ stdout' = Append(stdout, [kind |-> "answer", id |-> request, code |-> code])
     \/ Garbles /\ stdout' = Append(stdout, [kind |-> "noise"])
  /\ wpc' = "loop"
  /\ UNCHANGED <<harness, stdin, stdinOpen, signalled, request, at, code,
                 unsupported, attached, lingering, exitCode, files>>

(* An unhandled error or a signal.                                         *)
Crash ==
  /\ ~Exited
  /\ Exit(255)
  /\ UNCHANGED <<harness, pipes, request, at, code, unsupported, files>>

Terminated ==
  /\ ~Exited /\ signalled
  /\ Exit(-15)
  /\ UNCHANGED <<harness, pipes, request, at, code, unsupported, files>>

-----------------------------------------------------------------------------
Harness ==
  \/ ReadyOk \/ ReadyFails \/ ReadyTimeout \/ CreateRegion \/ SendRequest
  \/ FlushOk \/ FlushThrows \/ ReadSample
  \/ CloseWorker \/ CloseTimeout \/ CloseEnds

Handlers ==
  \/ HandleLine
  \/ \E who \in {"exit", "done", "error"} : CompletePendingOnExit(who)

Progress ==
  \/ Boot \/ TakeRequest \/ LeaveLoop \/ Attach \/ RunScenario
  \/ WriteMetrics \/ ResetRuntime \/ PostResetQuiescence \/ Answer

Faults == AttachFails \/ WriteMetricsThrows \/ Crash \/ Terminated

Next ==
  \/ Harness \/ Handlers \/ Progress \/ Faults
  \/ \E k \in Runtimes : Record(k)

Spec == Init /\ [][Next]_vars

(* The event loop of the harness runs, and every timer fires.              *)
HarnessFairSpec == Spec /\ WF_vars(Harness) /\ WF_vars(Handlers)

(* The child is scheduled too: a scenario it runs ends.                    *)
FairSpec == HarnessFairSpec /\ WF_vars(Progress)

-----------------------------------------------------------------------------
Lines == [kind : {"ready", "noise"}]
           \cup [kind : {"answer"}, id : Samples, code : {0, 65}]

HarnessTypeOK ==
  /\ hpc \in {"starting", "create", "send", "flush", "lost", "wait", "close",
              "closing", "killing", "ended"}
  /\ sample \in Samples
  /\ pending \subseteq Samples
  /\ result \in [Samples -> {Pending, 0, 65, 66, 255, -15}]
  /\ ready \in {"waiting", "ready", "failed"}
  /\ callbacks \subseteq {"exit", "done", "error"}
  /\ verdict \in [Samples -> {"none", "ok", "no_trace", "failed", "unsupported"}]
  /\ seen \in [Samples -> SUBSET (Samples \X Samples \X Runtimes)]

PipeTypeOK ==
  /\ stdin \in Seq(Samples \cup {Shutdown})
  /\ stdinOpen \in BOOLEAN
  /\ stdout \in Seq(Lines)
  /\ signalled \in BOOLEAN

ChildTypeOK ==
  /\ wpc \in {"boot", "loop", "attach", "run", "metrics", "reset", "pause",
              "answer", "exited"}
  /\ request \in Samples
  /\ at \in Runtimes
  /\ code \in {0, 65}
  /\ unsupported \in BOOLEAN
  /\ attached \in [Runtimes -> Samples \cup {NoRegion}]
  /\ lingering \subseteq Samples
  /\ exitCode \in {Running, 0, 66, 255, -15}

FileTypeOK ==
  /\ metrics \in [Samples -> {"none", "ok", "unsupported"}]
  /\ events \subseteq Samples \X Samples \X Runtimes

(* Every variable keeps its shape.                                         *)
TypeOK == HarnessTypeOK /\ PipeTypeOK /\ ChildTypeOK /\ FileTypeOK

(* The events the harness finds in the region of a sample were emitted by  *)
(* the code of that sample: the pipes, the reset and the pause keep the    *)
(* samples of one process apart ("keeps resqlite reactive samples          *)
(* isolated", test/compare_artifact_test.dart).                            *)
OwnEventsOnly == \A s \in Samples : \A e \in seen[s] : e[2] = s

(* A scenario runs only when every runtime of the process writes to the    *)
(* region of its sample (README.md: "retargets each sample to a fresh      *)
(* trace region").                                                         *)
Retargeted == wpc = "run" => \A k \in Runtimes : attached[k] = request

(* A sample reported ok has all of its events in its own region: none went *)
(* to the region of another one.                                           *)
OkIsComplete ==
  \A s \in Samples : verdict[s] = "ok" =>
    \A e \in events : e[2] = s => e[1] = s

(* Whoever holds a result of a request got it from the answer to that very *)
(* request or from the exit code: once the harness reads the region of a   *)
(* sample, the child has left that request.                                *)
ReadAfterUse ==
  hpc = "wait" /\ result[sample] # Pending =>
    \/ Exited
    \/ wpc = "loop" /\ request = sample

(* Success is never read off an exit code or an answer to somebody else:   *)
(* a request that completed with 0 ran to the point of writing its         *)
(* metrics file.                                                           *)
SuccessWasAnswered == \A s \in Samples : result[s] = 0 => metrics[s] # "none"

(* A completer is completed once: no handler changes a delivered result,   *)
(* though an answer, the end of stdout and the exit race for it.           *)
ResultFinal ==
  [][\A s \in Samples : result[s] # Pending => result'[s] = result[s]]_vars

Over == hpc \in {"close", "closing", "killing", "ended"}

(* What is reported, in the terms of PeerSamples: one verdict a sample, in *)
(* order, from its own events, and none after a bad preflight (README.md:  *)
(* "the command fails before any benchmark sample is trusted"), also when  *)
(* metrics files cannot be written and runtimes stay on the region of an   *)
(* earlier sample: a sample is then found with fewer events than it made,  *)
(* not with those of another one.                                          *)
Reported ==
  INSTANCE PeerSamples WITH
    current <- sample,
    status <- verdict,
    found <- [s \in Samples |-> {<<e[2], e[3]>> : e \in seen[s]}],
    over <- Over

SamplesSpec == Reported!Spec

(* Every call of runPeer returns: an answer, the exit of the child or a    *)
(* failed flush ends it.                                                   *)
RunPeerReturns ==
  hpc \in {"flush", "lost", "wait"} ~> hpc \notin {"flush", "lost", "wait"}

(* close returns whatever the child does, a hung one included.             *)
CloseReturns == hpc = "close" ~> hpc = "ended"

-----------------------------------------------------------------------------
(* The inductive invariant.                                                *)

Serving == {"attach", "run", "metrics", "reset", "pause", "answer"}
Awaiting == hpc \in {"flush", "wait"} /\ result[sample] = Pending
NoAnswer == \A i \in 1..Len(stdout) : stdout[i].kind # "answer"

(* While the child lives, the request of the current sample is in exactly  *)
(* one place: in stdin, with the child, in stdout, delivered or spoilt.    *)
OneRequest ==
  ~Exited =>
    /\ \A i \in 1..Len(stdin) : stdin[i] # Shutdown =>
         /\ Awaiting /\ stdin[i] = sample /\ Len(stdin) = 1
         /\ wpc \in {"boot", "loop"} /\ NoAnswer
    /\ wpc \in Serving =>
         Awaiting /\ request = sample /\ stdin = <<>> /\ NoAnswer
    /\ \A i \in 1..Len(stdout) : stdout[i].kind = "answer" =>
         /\ Awaiting /\ stdout[i].id = sample /\ request = sample
         /\ stdin = <<>> /\ wpc = "loop"
         /\ \A j \in 1..Len(stdout) : stdout[j].kind = "answer" => j = i
    /\ hpc \in {"flush", "wait"} /\ ~Awaiting =>
         wpc = "loop" /\ request = sample /\ stdin = <<>>

(* What is pending, and what is still open.                                *)
Bookkeeping ==
  /\ Exited <=> exitCode # Running
  /\ hpc = "lost" => Exited
  /\ \A s \in Samples : s > sample => result[s] = Pending /\ s \notin pending
  /\ hpc \in {"starting", "create", "send"} =>
       result[sample] = Pending /\ sample \notin pending
  /\ ~Exited => /\ pending # {} => pending = {sample} /\ hpc \in {"flush", "wait"}
                /\ result[sample] # Pending => sample \notin pending

(* The sample loop reports in order.                                       *)
Reporting ==
  /\ hpc = "starting" => sample = 0
  /\ ~Over => \A s \in Samples : s >= sample => verdict[s] = "none"

(* The exit code 0 and the code of a served request.                       *)
Success ==
  /\ (\E i \in 1..Len(stdin) : stdin[i] = Shutdown) \/ ~stdinOpen \/ exitCode = 0
       => hpc \in {"closing", "killing", "ended"}
  /\ exitCode = 0 => pending = {}
  /\ wpc \in {"reset", "pause"} \/ (wpc = "answer" /\ code = 0)
       => metrics[request] # "none"
  /\ \A i \in 1..Len(stdout) :
       stdout[i].kind = "answer" /\ stdout[i].code = 0
         => metrics[stdout[i].id] # "none"
  /\ SuccessWasAnswered

(* The runtimes and the threads left behind belong to the request that is  *)
(* being served.                                                           *)
Isolation ==
  /\ \A k \in Runtimes : attached[k] # NoRegion =>
       wpc \in {"attach", "run", "metrics", "reset"} /\ attached[k] = request
  /\ wpc = "attach" => \A k \in Runtimes : attached[k] # NoRegion <=> k < at
  /\ wpc = "run" => \A k \in Runtimes : attached[k] # NoRegion
  /\ wpc = "reset" => \A k \in Runtimes : k > at => attached[k] = NoRegion
  /\ lingering # {} => /\ wpc \in {"metrics", "reset", "pause"}
                       /\ lingering = {request}
  /\ \A e \in events : e[1] = e[2]
  /\ \A s \in Samples : seen[s] \subseteq {e \in events : e[1] = s}

(* What keeps the traces apart also after a metrics file could not be      *)
(* written: a runtime is left on the region of an earlier sample, never on *)
(* that of a later one, and threads are left behind only together with all *)
(* runtimes.                                                               *)
Separation ==
  /\ request <= sample
  /\ \A k \in Runtimes : attached[k] # NoRegion =>
       /\ attached[k] <= request
       /\ \A s \in lingering : attached[k] <= s
  /\ \A s \in lingering : s <= request
  /\ wpc = "attach" => \A k \in Runtimes : k < at => attached[k] # NoRegion
  /\ wpc = "run" \/ (lingering # {} /\ wpc \notin {"reset", "pause"}) =>
       \A k \in Runtimes : attached[k] # NoRegion
  /\ \A e \in events : e[1] <= e[2] /\ e[2] <= request
  /\ \A s \in Samples : seen[s] \subseteq {e \in events : e[1] = s}
  /\ OwnEventsOnly

(* All of it is inductive; a metrics file that cannot be written only      *)
(* takes the isolation away.                                               *)
WorkerInv ==
  /\ TypeOK /\ OneRequest /\ Bookkeeping /\ Reporting /\ Success /\ Separation
  /\ ~MetricsFail => Isolation
=============================================================================
