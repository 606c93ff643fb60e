-------------------------- MODULE PeerWorkerProofs --------------------------
(***************************************************************************)
(* Proofs about PeerWorker, for any number of samples and runtimes.  The   *)
(* inductive invariant is WorkerInv: one lemma for the step of each of its *)
(* conjuncts, one step for each action or group of actions that can        *)
(* disturb it.                                                             *)
(***************************************************************************)
EXTENDS PeerWorker, TLAPS

(* What is left of a queue when its first line is taken.                   *)
LEMMA TailFacts ==
  ASSUME NEW S, NEW q \in Seq(S), q # <<>>
  PROVE  /\ Head(q) = q[1] /\ Head(q) \in S /\ 1 \in 1..Len(q)
         /\ Tail(q) \in Seq(S) /\ Len(Tail(q)) = Len(q) - 1
         /\ \A i \in 1..Len(Tail(q)) : Tail(q)[i] = q[i + 1] /\ i + 1 \in 1..Len(q)
  OBVIOUS

(* A queue and the line appended to it.                                    *)
LEMMA AppendFacts ==
  ASSUME NEW S, NEW q \in Seq(S), NEW x \in S
  PROVE  /\ Append(q, x) \in Seq(S) /\ Len(Append(q, x)) = Len(q) + 1
         /\ \A i \in 1..Len(Append(q, x)) :
              \/ i \in 1..Len(q) /\ Append(q, x)[i] = q[i]
              \/ i = Len(q) + 1 /\ Append(q, x)[i] = x
  OBVIOUS

LEMMA InitInv == Init => WorkerInv
  BY WorkerAssumption DEF Init, WorkerInv, TypeOK, HarnessTypeOK, PipeTypeOK,
     ChildTypeOK, FileTypeOK, OneRequest, Bookkeeping, Reporting, Over, Success,
     SuccessWasAnswered, Isolation, Separation, OwnEventsOnly, Samples, Runtimes,
     NoRegion, Pending, Running, Exited, Serving, Awaiting, NoAnswer, Shutdown, Lines

-----------------------------------------------------------------------------
(* Isolation: what a served request leaves behind is gone before the       *)
(* next one is taken.                                                      *)

(* The harness and its handlers touch neither the child nor the events.    *)
LEMMA HarnessFrame ==
  ASSUME Harness \/ Handlers
  PROVE  UNCHANGED <<child, files>>
  BY DEF Harness, Handlers, ReadyOk, ReadyFails, ReadyTimeout, CreateRegion,
     SendRequest, FlushOk, FlushThrows, ReadSample, CloseWorker, CloseTimeout,
     CloseEnds, HandleLine, CompletePendingOnExit, child, files

(* The child does not touch the state of the harness.                      *)
LEMMA ChildFrame ==
  ASSUME Progress \/ Faults \/ \E k \in Runtimes : Record(k)
  PROVE  UNCHANGED harness
  BY DEF Progress, Faults, Boot, TakeRequest, LeaveLoop, Attach, RunScenario,
     WriteMetrics, ResetRuntime, PostResetQuiescence, Answer, AttachFails,
     WriteMetricsThrows, Crash, Terminated, Record

(* Only ReadSample looks at a region.                                      *)
LEMMA SeenFrame ==
  ASSUME TypeOK, Harness \/ Handlers
  PROVE  seen' = seen \/ seen' = [seen EXCEPT ![sample] = {e \in events : e[1] = sample}]
  BY DEF Harness, Handlers, ReadyOk, ReadyFails, ReadyTimeout, CreateRegion,
     SendRequest, FlushOk, FlushThrows, ReadSample, CloseWorker, CloseTimeout,
     CloseEnds, HandleLine, CompletePendingOnExit, child, files

LEMMA IsolationStep ==
  ASSUME ~MetricsFail, TypeOK, Isolation, Next
  PROVE  Isolation'
<1> USE DEF Samples, Runtimes
<1>1. CASE Harness \/ Handlers
  <2>1. UNCHANGED <<wpc, request, at, attached, lingering, events>>
    BY <1>1, HarnessFrame DEF child, files
  <2>2. \A s \in Samples : seen'[s] \subseteq {e \in events : e[1] = s}
    <3>1. seen \in [Samples -> SUBSET (Samples \X Samples \X Runtimes)]
      BY DEF TypeOK, HarnessTypeOK
    <3>2. \A s \in Samples : seen[s] \subseteq {e \in events : e[1] = s}
      BY DEF Isolation
    <3>3. CASE seen' = seen
      BY <3>2, <3>3
    <3>4. CASE seen' = [seen EXCEPT ![sample] = {e \in events : e[1] = sample}]
      BY <3>1, <3>2, <3>4
    <3> QED BY <1>1, <3>3, <3>4, SeenFrame
  <2> QED BY <2>1, <2>2 DEF Isolation, NoRegion
<1>2. CASE Boot \/ LeaveLoop \/ Crash \/ Terminated
  <2>1. /\ UNCHANGED <<events, seen>>
        /\ \/ UNCHANGED <<attached, lingering>> /\ wpc = "boot" /\ wpc' = "loop"
           \/ /\ attached' = [k \in Runtimes |-> NoRegion]
              /\ lingering' = {} /\ wpc' = "exited"
    BY <1>2 DEF Boot, LeaveLoop, Crash, Terminated, Exit, harness, files
  <2> QED BY <2>1 DEF Isolation, NoRegion
<1>3. CASE TakeRequest
  BY <1>3, WorkerAssumption DEF TakeRequest, Isolation, TypeOK, ChildTypeOK, harness, files, NoRegion
<1>4. CASE Attach
  <2>1. \A k \in Runtimes : attached'[k] # NoRegion <=> k <= at
    BY <1>4, WorkerAssumption DEF Attach, Isolation, TypeOK, ChildTypeOK, NoRegion
  <2>2. \A k \in Runtimes : attached'[k] # NoRegion => attached'[k] = request
    BY <1>4 DEF Attach, Isolation, TypeOK, ChildTypeOK
  <2> QED
    BY <1>4, <2>1, <2>2, WorkerAssumption
       DEF Attach, Isolation, TypeOK, ChildTypeOK, harness, files, NoRegion
<1>5. CASE AttachFails
  BY <1>5 DEF AttachFails, Isolation, TypeOK, ChildTypeOK, harness, files, NoRegion
<1>6. CASE \E k \in Runtimes : Record(k)
  <2>1. PICK k \in Runtimes, s \in lingering \cup (IF wpc = "run" THEN {request} ELSE {}) :
          /\ attached[k] # NoRegion
          /\ events' = events \cup {<<attached[k], s, k>>}
          /\ UNCHANGED <<harness, pipes, child, metrics>>
    BY <1>6 DEF Record
  <2>2. attached[k] = request /\ s = request
    BY <2>1 DEF Isolation
  <2> QED BY <2>1, <2>2 DEF Isolation, harness, child
<1>7. CASE RunScenario
  BY <1>7 DEF RunScenario, Isolation, TypeOK, ChildTypeOK, harness, files, NoRegion
<1>8. CASE WriteMetrics
  BY <1>8, WorkerAssumption DEF WriteMetrics, Isolation, TypeOK, ChildTypeOK, harness, NoRegion
<1>9. CASE WriteMetricsThrows
  BY <1>9 DEF WriteMetricsThrows
<1>10. CASE ResetRuntime
  BY <1>10, WorkerAssumption DEF ResetRuntime, Isolation, TypeOK, ChildTypeOK, harness, files, NoRegion
<1>11. CASE PostResetQuiescence \/ Answer
  BY <1>11 DEF PostResetQuiescence, Answer, Isolation, TypeOK, ChildTypeOK, harness, files, NoRegion
<1> QED
  BY <1>1, <1>2, <1>3, <1>4, <1>5, <1>6, <1>7, <1>8, <1>9, <1>10, <1>11
     DEF Next, Progress, Faults

-----------------------------------------------------------------------------
(* Separation: what a failed metrics file leaves behind never reaches the  *)
(* region of a later sample.                                               *)

(* The harness goes on to the next sample, and nowhere else.               *)
LEMMA SampleFrame ==
  ASSUME TypeOK, Harness \/ Handlers
  PROVE  sample' = sample \/ sample' = sample + 1
<1>1. ASSUME NEW v, Classify(v)
      PROVE  sample' = sample \/ sample' = sample + 1
  BY <1>1 DEF Classify
<1> QED
  BY <1>1 DEF Harness, Handlers, ReadyOk, ReadyFails, ReadyTimeout, CreateRegion,
     SendRequest, FlushOk, FlushThrows, ReadSample, CloseWorker, CloseTimeout,
     CloseEnds, HandleLine, CompletePendingOnExit, child, files

(* An invariant of the child and its events.                               *)
ChildSeparation ==
  /\ \A k \in Runtimes : attached[k] # NoRegion =>
       /\ attached[k] <= request
       /\ \A s \in lingering : attached[k] <= s
  /\ \A s \in lingering : s <= request
  /\ wpc = "attach" => \A k \in Runtimes : k < at => attached[k] # NoRegion
  /\ wpc = "run" \/ (lingering # {} /\ wpc \notin {"reset", "pause"}) =>
       \A k \in Runtimes : attached[k] # NoRegion
  /\ \A e \in events : e[1] <= e[2] /\ e[2] <= request

LEMMA ChildSeparationStep ==
  ASSUME TypeOK, OneRequest, Separation, Next
  PROVE  request' <= sample' /\ ChildSeparation'
<1> USE DEF Samples, Runtimes, NoRegion
<1>0. /\ request \in Samples /\ at \in Runtimes /\ lingering \subseteq Samples
      /\ attached \in [Runtimes -> Samples \cup {NoRegion}]
      /\ events \subseteq Samples \X Samples \X Runtimes /\ sample \in Samples
  BY DEF TypeOK, ChildTypeOK, FileTypeOK, HarnessTypeOK
<1>1. CASE Harness \/ Handlers
  <2>1. UNCHANGED <<wpc, request, at, attached, lingering, events>>
    BY <1>1, HarnessFrame DEF child, files
  <2> QED BY <1>0, <1>1, <2>1, SampleFrame DEF Separation, ChildSeparation
<1>2. CASE Boot \/ LeaveLoop \/ Crash \/ Terminated
  <2>1. /\ UNCHANGED <<events, request, sample>>
        /\ \/ UNCHANGED <<attached, lingering>> /\ wpc = "boot" /\ wpc' = "loop"
           \/ /\ attached' = [k \in Runtimes |-> NoRegion]
              /\ lingering' = {} /\ wpc' = "exited"
    BY <1>2 DEF Boot, LeaveLoop, Crash, Terminated, Exit, harness, files
  <2> QED BY <2>1 DEF Separation, ChildSeparation
<1>3. CASE TakeRequest
  <2>1. request' = sample
    BY <1>3 DEF TakeRequest, OneRequest, Exited, TypeOK, PipeTypeOK
  <2>2. /\ wpc = "loop" /\ wpc' = "attach" /\ at' = 1
        /\ UNCHANGED <<sample, attached, lingering, events>>
    BY <1>3 DEF TakeRequest, harness, files
  <2>3. request <= request'
    BY <2>1 DEF Separation
  <2> QED BY <1>0, <2>1, <2>2, <2>3 DEF Separation, ChildSeparation
<1>4. CASE Attach
  <2>1. /\ attached' = IF attached[at] = NoRegion
                       THEN [attached EXCEPT ![at] = request] ELSE attached
        /\ at' = IF at = LastRuntime THEN at ELSE at + 1
        /\ wpc = "attach" /\ wpc' = IF at = LastRuntime THEN "run" ELSE "attach"
        /\ UNCHANGED <<request, sample, lingering, events>>
    BY <1>4 DEF Attach, harness, files
  <2>2. \A k \in Runtimes : k <= at => attached'[k] # NoRegion
    BY <1>0, <2>1 DEF Separation
  <2>3. lingering # {} => attached' = attached
    BY <1>0, <2>1 DEF Separation
  <2>4. \A k \in Runtimes : attached'[k] # NoRegion =>
          /\ attached'[k] <= request
          /\ \A s \in lingering : attached'[k] <= s
    BY <1>0, <2>1, <2>3 DEF Separation
  <2>5. wpc' = "attach" => \A k \in Runtimes : k < at' => attached'[k] # NoRegion
    BY <1>0, <2>1, <2>2
  <2>6. wpc' = "run" => \A k \in Runtimes : attached'[k] # NoRegion
    BY <1>0, <2>1, <2>2
  <2>7. lingering # {} => \A k \in Runtimes : attached'[k] # NoRegion
    BY <2>1, <2>3 DEF Separation
  <2> QED BY <2>1, <2>4, <2>5, <2>6, <2>7 DEF Separation, ChildSeparation
<1>5. CASE AttachFails
  BY <1>0, <1>5 DEF AttachFails, Separation, ChildSeparation, harness, files
<1>6. CASE \E k \in Runtimes : Record(k)
  <2>1. PICK k \in Runtimes, s \in lingering \cup (IF wpc = "run" THEN {request} ELSE {}) :
          /\ attached[k] # NoRegion
          /\ events' = events \cup {<<attached[k], s, k>>}
          /\ UNCHANGED <<harness, pipes, child, metrics>>
    BY <1>6 DEF Record
  <2>2. attached[k] <= s /\ s <= request
    BY <1>0, <2>1 DEF Separation
  <2> QED BY <2>1, <2>2 DEF Separation, ChildSeparation, harness, child
<1>7. CASE RunScenario
  <2>1. /\ lingering' \in {lingering, lingering \cup {request}}
        /\ wpc = "run" /\ wpc' = "metrics"
        /\ UNCHANGED <<request, sample, attached, events>>
    BY <1>7 DEF RunScenario, harness, files
  <2> QED BY <1>0, <2>1 DEF Separation, ChildSeparation
<1>8. CASE WriteMetrics \/ WriteMetricsThrows
  BY <1>8 DEF WriteMetrics, WriteMetricsThrows, Separation, ChildSeparation, harness, files
<1>9. CASE ResetRuntime
  <2>1. /\ attached' = [attached EXCEPT ![at] = NoRegion]
        /\ wpc' \in {"pause", "reset"}
        /\ UNCHANGED <<request, sample, lingering, events>>
    BY <1>9 DEF ResetRuntime, harness, files
  <2> QED BY <1>0, <2>1 DEF Separation, ChildSeparation
<1>10. CASE PostResetQuiescence \/ Answer
  BY <1>10 DEF PostResetQuiescence, Answer, Separation, ChildSeparation, harness, files
<1> QED
  BY <1>1, <1>2, <1>3, <1>4, <1>5, <1>6, <1>7, <1>8, <1>9, <1>10
     DEF Next, Progress, Faults

(* What has been read of a region: all events there were written by code   *)
(* of its sample, since the child is not past that sample yet.             *)
LEMMA SeparationStep ==
  ASSUME TypeOK, OneRequest, Separation, Next
  PROVE  Separation'
<1> DEFINE Own(S) == \A s \in Samples : S[s] \subseteq {e \in events : e[1] = s /\ e[2] = s}
<1>0. /\ seen \in [Samples -> SUBSET (Samples \X Samples \X Runtimes)]
      /\ events \subseteq Samples \X Samples \X Runtimes
      /\ request \in Nat /\ sample \in Nat
  BY DEF TypeOK, FileTypeOK, HarnessTypeOK, ChildTypeOK, Samples
<1>1. Own(seen)
  BY DEF Separation, OwnEventsOnly
<1>2. \A e \in events : e[1] = sample => e[2] = sample
  <2>1. ASSUME NEW e \in events, e[1] = sample
        PROVE  e[2] = sample
    <3>1. e[1] \in Nat /\ e[2] \in Nat
      BY <1>0 DEF Samples
    <3>2. e[1] <= e[2] /\ e[2] <= request /\ request <= sample
      BY DEF Separation
    <3> QED BY <1>0, <2>1, <3>1, <3>2
  <2> QED BY <2>1
<1>3. Own(seen')
  <2>1. CASE Harness \/ Handlers
    BY <1>0, <1>1, <1>2, <2>1, SeenFrame
  <2>2. CASE Progress \/ Faults \/ \E k \in Runtimes : Record(k)
    BY <1>1, <2>2, ChildFrame DEF harness
  <2> QED BY <2>1, <2>2 DEF Next
<1>4. events \subseteq events'
  <2>1. CASE \E k \in Runtimes : Record(k)
    BY <2>1 DEF Record
  <2>2. CASE Harness \/ Handlers
    BY <2>2, HarnessFrame DEF files
  <2>3. CASE Progress \/ Faults
    BY <2>3 DEF Progress, Faults, Boot, TakeRequest, Answer, LeaveLoop, Attach,
       RunScenario, WriteMetrics, ResetRuntime, PostResetQuiescence, AttachFails,
       WriteMetricsThrows, Crash, Terminated, files
  <2> QED BY <2>1, <2>2, <2>3 DEF Next
<1>5. /\ \A s \in Samples : seen'[s] \subseteq {e \in events' : e[1] = s}
      /\ OwnEventsOnly'
  BY <1>3, <1>4 DEF OwnEventsOnly
<1> QED BY <1>5, ChildSeparationStep DEF Separation, ChildSeparation

-----------------------------------------------------------------------------
(* Types.                                                                  *)

(* A sample that is classified either moves the loop on or ends it.        *)
LEMMA ClassifyTypes ==
  ASSUME TypeOK, NEW v \in {"ok", "no_trace", "failed", "unsupported"}, Classify(v)
  PROVE  /\ verdict' \in [Samples -> {"none", "ok", "no_trace", "failed", "unsupported"}]
         /\ \/ hpc' = "create" /\ sample' = sample + 1
            \/ hpc' = "close" /\ sample' = sample
         /\ sample' \in Samples
<1>1. hpc' \in {"create", "close"}
  BY DEF Classify, AfterSample
<1>2. hpc' = "create" => sample # LastSample /\ sample' = sample + 1
  BY DEF Classify, AfterSample
<1>3. hpc' = "close" => sample' = sample
  BY DEF Classify, AfterSample
<1>4. sample' \in Samples
  BY <1>1, <1>2, <1>3, WorkerAssumption DEF TypeOK, HarnessTypeOK, Samples
<1> QED BY <1>1, <1>2, <1>3, <1>4 DEF Classify, TypeOK, HarnessTypeOK

LEMMA HarnessTypes ==
  ASSUME TypeOK, Bookkeeping, Harness \/ Handlers
  PROVE  HarnessTypeOK'
<1> USE DEF TypeOK, HarnessTypeOK
<1>1. CASE ReadyOk \/ ReadyFails \/ ReadyTimeout
  BY <1>1 DEF ReadyOk, ReadyFails, ReadyTimeout
<1>2. CASE FlushOk \/ CloseWorker \/ CloseTimeout \/ CloseEnds
  BY <1>2 DEF FlushOk, CloseWorker, CloseTimeout, CloseEnds
<1>3. CASE CreateRegion \/ FlushThrows
  BY <1>3, ClassifyTypes DEF CreateRegion, FlushThrows
<1>4. CASE SendRequest
  BY <1>4 DEF SendRequest
<1>5. CASE ReadSample
  <2>1. {Status(sample), "failed"} \subseteq {"ok", "no_trace", "failed", "unsupported"}
    BY DEF Status
  <2>2. seen' \in [Samples -> SUBSET (Samples \X Samples \X Runtimes)]
    BY <1>5 DEF ReadSample, FileTypeOK
  <2> QED BY <1>5, <2>1, <2>2, ClassifyTypes DEF ReadSample
<1>6. CASE HandleLine
  <2>1. Head(stdout) \in Lines
    BY <1>6, TailFacts DEF HandleLine, PipeTypeOK
  <2>2. PICK line \in Lines : line = Head(stdout)
    BY <2>1
  <2>3. CASE line.kind = "answer"
    <3>1. line.id \in Samples /\ line.code \in {0, 65}
      BY <2>3 DEF Lines
    <3>2. result' = Deliver(line.id, line.code)
      BY <1>6, <2>2, <2>3 DEF HandleLine
    <3>3. result' \in [Samples -> {Pending, 0, 65, 66, 255, -15}]
      BY <3>1, <3>2 DEF Deliver
    <3>4. pending' \subseteq Samples /\ UNCHANGED <<hpc, sample, ready, callbacks, verdict, seen>>
      BY <1>6, <2>2, <2>3 DEF HandleLine
    <3> QED BY <3>3, <3>4
  <2>4. CASE line.kind = "ready"
    <3>1. /\ ready' \in {ready, "ready"}
          /\ UNCHANGED <<hpc, sample, pending, result, callbacks, verdict, seen>>
      BY <1>6, <2>2, <2>4 DEF HandleLine
    <3> QED BY <3>1
  <2>5. CASE line.kind = "noise"
    <3>1. /\ callbacks' \subseteq {"exit", "done", "error"}
          /\ UNCHANGED <<hpc, sample, pending, result, ready, verdict, seen>>
      BY <1>6, <2>2, <2>5 DEF HandleLine
    <3> QED BY <3>1
  <2> QED BY <2>3, <2>4, <2>5 DEF Lines
<1>7. CASE \E who \in {"exit", "done", "error"} : CompletePendingOnExit(who)
  <2>1. PICK who \in {"exit", "done", "error"} : CompletePendingOnExit(who)
    BY <1>7
  <2>2. Exited /\ exitCode \in {Running, 0, 66, 255, -15}
    BY <2>1 DEF CompletePendingOnExit, ChildTypeOK
  <2>3. exitCode # Running
    BY <2>2 DEF Bookkeeping
  <2>4. result' \in [Samples -> {Pending, 0, 65, 66, 255, -15}]
    BY <2>1, <2>2, <2>3 DEF CompletePendingOnExit
  <2> QED BY <2>1, <2>4 DEF CompletePendingOnExit
<1> QED
  BY <1>1, <1>2, <1>3, <1>4, <1>5, <1>6, <1>7 DEF Harness, Handlers

(* Lines are appended to the pipes and taken from their front.             *)
LEMMA PipeTypes ==
  ASSUME TypeOK, Next
  PROVE  PipeTypeOK'
<1> USE DEF TypeOK, PipeTypeOK
<1>1. CASE SendRequest
  BY <1>1, AppendFacts DEF SendRequest, HarnessTypeOK
<1>2. CASE CloseWorker
  BY <1>2, AppendFacts DEF CloseWorker
<1>3. CASE HandleLine
  BY <1>3, TailFacts DEF HandleLine
<1>4. CASE TakeRequest
  BY <1>4, TailFacts DEF TakeRequest
<1>5. CASE Boot
  <2>1. [kind |-> "ready"] \in Lines
    BY DEF Lines
  <2> QED BY <1>5, <2>1, AppendFacts DEF Boot
<1>6. CASE Answer
  <2>1. [kind |-> "noise"] \in Lines
    BY DEF Lines
  <2>2. [kind |-> "answer", id |-> request, code |-> code] \in Lines
    BY DEF Lines, ChildTypeOK
  <2>3. \A line \in Lines : Append(stdout, line) \in Seq(Lines)
    <3>1. stdout \in Seq(Lines)
      OBVIOUS
    <3> QED BY <3>1, AppendFacts
  <2>4. stdout' \in Seq(Lines)
    BY <1>6, <2>1, <2>2, <2>3 DEF Answer
  <2>5. UNCHANGED <<stdin, stdinOpen, signalled>>
    BY <1>6 DEF Answer
  <2> QED BY <2>4, <2>5
<1>7. CASE CloseTimeout
  BY <1>7 DEF CloseTimeout
<1>8. CASE UNCHANGED pipes
  BY <1>8 DEF pipes
<1>9. CASE Harness \/ Handlers
  <2>1. SendRequest \/ CloseWorker \/ HandleLine \/ CloseTimeout \/ UNCHANGED pipes
    BY <1>9 DEF Harness, Handlers, ReadyOk, ReadyFails, ReadyTimeout, CreateRegion,
       FlushOk, FlushThrows, ReadSample, CloseEnds, CompletePendingOnExit
  <2> QED BY <2>1, <1>1, <1>2, <1>3, <1>7, <1>8
<1>10. CASE Progress \/ Faults \/ \E k \in Runtimes : Record(k)
  <2>1. Boot \/ TakeRequest \/ Answer \/ UNCHANGED pipes
    BY <1>10 DEF Progress, Faults, LeaveLoop, Attach, RunScenario, WriteMetrics,
       ResetRuntime, PostResetQuiescence, AttachFails, WriteMetricsThrows, Crash,
       Terminated, Record
  <2> QED BY <2>1, <1>4, <1>5, <1>6, <1>8
<1> QED BY <1>9, <1>10 DEF Next

LEMMA ChildTypes ==
  ASSUME TypeOK, Progress \/ Faults
  PROVE  ChildTypeOK'
<1> USE DEF TypeOK, ChildTypeOK
<1>1. CASE Boot \/ LeaveLoop \/ Crash \/ Terminated
  BY <1>1 DEF Boot, LeaveLoop, Crash, Terminated, Exit
<1>2. CASE TakeRequest
  <2>1. request' \in Samples
    BY <1>2, TailFacts DEF TakeRequest, PipeTypeOK
  <2>2. 1 \in Runtimes
    BY WorkerAssumption DEF Runtimes
  <2>3. /\ wpc' = "attach" /\ at' = 1 /\ code' = 0 /\ unsupported' = FALSE
        /\ UNCHANGED <<attached, lingering, exitCode>>
    BY <1>2 DEF TakeRequest
  <2> QED BY <2>1, <2>2, <2>3
<1>3. CASE Attach
  BY <1>3, WorkerAssumption DEF Attach, Runtimes
<1>4. CASE AttachFails \/ RunScenario \/ WriteMetricsThrows
  BY <1>4 DEF AttachFails, RunScenario, WriteMetricsThrows
<1>5. CASE WriteMetrics
  BY <1>5, WorkerAssumption DEF WriteMetrics, Runtimes
<1>6. CASE ResetRuntime
  BY <1>6, WorkerAssumption DEF ResetRuntime, Runtimes
<1>7. CASE PostResetQuiescence \/ Answer
  BY <1>7 DEF PostResetQuiescence, Answer
<1> QED
  BY <1>1, <1>2, <1>3, <1>4, <1>5, <1>6, <1>7 DEF Progress, Faults

LEMMA FileTypes ==
  ASSUME TypeOK, Next
  PROVE  FileTypeOK'
<1> USE DEF TypeOK, FileTypeOK
<1>1. CASE \E k \in Runtimes : Record(k)
  <2>1. PICK k \in Runtimes, s \in lingering \cup (IF wpc = "run" THEN {request} ELSE {}) :
          /\ attached[k] # NoRegion
          /\ events' = events \cup {<<attached[k], s, k>>}
          /\ UNCHANGED metrics
    BY <1>1 DEF Record
  <2>2. attached[k] \in Samples /\ s \in Samples
    BY <2>1 DEF ChildTypeOK
  <2> QED BY <2>1, <2>2
<1>2. CASE WriteMetrics
  BY <1>2 DEF WriteMetrics, ChildTypeOK
<1>3. CASE Harness \/ Handlers
  BY <1>3, HarnessFrame DEF files
<1>4. CASE Progress \/ Faults
  <2>1. WriteMetrics \/ UNCHANGED files
    BY <1>4 DEF Progress, Faults, Boot, TakeRequest, Answer, LeaveLoop, Attach,
       RunScenario, ResetRuntime, PostResetQuiescence, AttachFails,
       WriteMetricsThrows, Crash, Terminated
  <2> QED BY <2>1, <1>2 DEF files
<1> QED BY <1>1, <1>3, <1>4 DEF Next

LEMMA TypeStep ==
  ASSUME TypeOK, Bookkeeping, Next
  PROVE  TypeOK'
<1>1. HarnessTypeOK'
  <2>1. CASE Progress \/ Faults \/ \E k \in Runtimes : Record(k)
    <3>1. UNCHANGED harness
      BY <2>1, ChildFrame
    <3> QED BY <3>1 DEF harness, TypeOK, HarnessTypeOK
  <2> QED BY <2>1, HarnessTypes DEF Next
<1>2. ChildTypeOK'
  <2>1. CASE Harness \/ Handlers \/ \E k \in Runtimes : Record(k)
    <3>1. UNCHANGED child
      BY <2>1, HarnessFrame DEF Record
    <3> QED BY <3>1 DEF child, TypeOK, ChildTypeOK
  <2> QED BY <2>1, ChildTypes DEF Next
<1> QED BY <1>1, <1>2, PipeTypes, FileTypes DEF TypeOK

-----------------------------------------------------------------------------
(* Bookkeeping: what is pending and what has been delivered.               *)

(* The process exits once, with an exit code.                              *)
LEMMA ExitStep ==
  ASSUME TypeOK, Bookkeeping, Next
  PROVE  /\ Exited' <=> exitCode' # Running
         /\ Exited => UNCHANGED <<wpc, exitCode>>
<1>1. CASE Harness \/ Handlers
  BY <1>1, HarnessFrame DEF child, Bookkeeping, Exited
<1>2. CASE \E k \in Runtimes : Record(k)
  BY <1>2 DEF Record, child, Bookkeeping, Exited
<1>3. CASE Progress \/ Faults
  <2>1. \/ ~Exited /\ \E c \in {0, 66, 255, -15} : Exit(c)
        \/ ~Exited /\ wpc' # "exited" /\ exitCode' = exitCode
    BY <1>3 DEF Progress, Faults, Boot, TakeRequest, LeaveLoop, Attach, RunScenario,
       WriteMetrics, ResetRuntime, PostResetQuiescence, Answer, AttachFails,
       WriteMetricsThrows, Crash, Terminated, Exited
  <2> QED BY <2>1 DEF Exit, Exited, Bookkeeping, Running
<1> QED BY <1>1, <1>2, <1>3 DEF Next

LEMMA BookkeepingStep ==
  ASSUME TypeOK, Bookkeeping, OneRequest, Next
  PROVE  Bookkeeping'
<1> USE DEF Samples
<1>1. sample \in Samples /\ result \in [Samples -> {Pending, 0, 65, 66, 255, -15}]
      /\ pending \subseteq Samples
  BY DEF TypeOK, HarnessTypeOK
<1>2. CASE Progress \/ Faults \/ \E k \in Runtimes : Record(k)
  BY <1>2, ChildFrame, ExitStep DEF harness, Bookkeeping, Exited
<1>3. CASE Harness \/ Handlers
  <2>0. UNCHANGED <<wpc, exitCode>>
    BY <1>3, HarnessFrame DEF child
  <2>1. CASE ReadyOk \/ ReadyFails \/ ReadyTimeout \/ CloseWorker \/ CloseTimeout \/ CloseEnds
    BY <2>0, <2>1 DEF ReadyOk, ReadyFails, ReadyTimeout, CloseWorker, CloseTimeout,
       CloseEnds, Bookkeeping, Exited
  <2>2. CASE CreateRegion
    <3>1. CASE hpc' = "send" /\ UNCHANGED <<sample, verdict>>
      BY <2>0, <2>2, <3>1 DEF CreateRegion, Bookkeeping, Exited
    <3>2. CASE Classify("failed")
      BY <1>1, <2>0, <2>2, <3>2, ClassifyTypes DEF CreateRegion, Bookkeeping, Exited
    <3> QED BY <2>2, <3>1, <3>2 DEF CreateRegion
  <2>3. CASE SendRequest
    BY <1>1, <2>0, <2>3 DEF SendRequest, Bookkeeping, Exited
  <2>4. CASE FlushOk
    BY <2>0, <2>4 DEF FlushOk, Bookkeeping, Exited
  <2>5. CASE FlushThrows
    BY <1>1, <2>0, <2>5, ClassifyTypes DEF FlushThrows, Bookkeeping, Exited
  <2>6. CASE ReadSample
    <3>1. {Status(sample), "failed"} \subseteq {"ok", "no_trace", "failed", "unsupported"}
      BY DEF Status
    <3>2. ~Exited => pending = {}
      BY <2>6 DEF ReadSample, Bookkeeping
    <3> QED
      BY <1>1, <2>0, <2>6, <3>1, <3>2, ClassifyTypes DEF ReadSample, Bookkeeping, Exited
  <2>7. CASE HandleLine
    <3>1. PICK s \in Samples, c \in {0, 65} :
            \/ result' = Deliver(s, c) /\ pending' = pending \ {s}
            \/ result' = result /\ pending' = pending
      <4>1. Head(stdout) \in Lines
        BY <2>7, TailFacts DEF HandleLine, TypeOK, PipeTypeOK
      <4>2. PICK line \in Lines : line = Head(stdout)
        BY <4>1
      <4>3. CASE line.kind = "answer"
        <5>1. line.id \in Samples /\ line.code \in {0, 65}
          BY <4>3 DEF Lines
        <5> QED BY <2>7, <4>2, <4>3, <5>1 DEF HandleLine
      <4>4. CASE line.kind = "ready"
        BY <2>7, <4>2, <4>4, <1>1 DEF HandleLine
      <4>5. CASE line.kind = "noise"
        BY <2>7, <4>2, <4>5, <1>1 DEF HandleLine
      <4> QED BY <4>3, <4>4, <4>5 DEF Lines
    <3>2. UNCHANGED <<hpc, sample>>
      BY <2>7 DEF HandleLine
    <3>3. CASE result' = Deliver(s, c) /\ pending' = pending \ {s}
      <4>1. \A r \in Samples : r # s \/ s \notin pending => result'[r] = result[r]
        BY <1>1, <3>3 DEF Deliver
      <4>2. \A r \in pending' : r \in pending /\ r # s
        BY <3>3
      <4>3. (Exited' <=> Exited) /\ exitCode' = exitCode
        BY <2>0 DEF Exited
      <4>4. \A r \in Samples : r > sample => result'[r] = Pending /\ r \notin pending'
        BY <1>1, <4>1, <4>2 DEF Bookkeeping
      <4>5. hpc \in {"starting", "create", "send"} =>
              result'[sample] = Pending /\ sample \notin pending'
        BY <1>1, <4>1, <4>2 DEF Bookkeeping
      <4>6. ASSUME ~Exited, pending' # {}
            PROVE  pending' = {sample} /\ hpc \in {"flush", "wait"}
        BY <1>1, <4>2, <4>6 DEF Bookkeeping
      <4>7. ASSUME ~Exited, result'[sample] # Pending
            PROVE  sample \notin pending'
        BY <1>1, <4>1, <4>2, <4>7 DEF Bookkeeping
      <4> QED BY <3>2, <4>3, <4>4, <4>5, <4>6, <4>7 DEF Bookkeeping
    <3>4. CASE result' = result /\ pending' = pending
      BY <2>0, <3>2, <3>4 DEF Bookkeeping, Exited
    <3> QED BY <3>1, <3>3, <3>4
  <2>8. CASE \E who \in {"exit", "done", "error"} : CompletePendingOnExit(who)
    BY <1>1, <2>0, <2>8 DEF CompletePendingOnExit, Bookkeeping, Exited
  <2> QED
    BY <1>3, <2>1, <2>2, <2>3, <2>4, <2>5, <2>6, <2>7, <2>8 DEF Harness, Handlers
<1> QED BY <1>2, <1>3 DEF Next

-----------------------------------------------------------------------------
(* OneRequest: where the request of the current sample is.                 *)

(* Outside flush and wait the child has nothing to serve.                  *)
LEMMA ChildIdle ==
  ASSUME OneRequest, ~Exited, ~Awaiting
  PROVE  /\ \A i \in 1..Len(stdin) : stdin[i] = Shutdown
         /\ wpc \notin Serving /\ NoAnswer
  BY DEF OneRequest, NoAnswer

LEMMA HarnessRequest ==
  ASSUME TypeOK, OneRequest, Bookkeeping, Success, Harness
  PROVE  OneRequest'
<1>1. UNCHANGED <<wpc, request>>
  BY HarnessFrame DEF child
<1>2. SUFFICES ASSUME ~Exited
               PROVE  OneRequest'
  BY <1>1 DEF OneRequest, Exited
<1>3. CASE SendRequest
  <2>1. /\ hpc = "send" /\ hpc' = "flush" /\ stdin' = Append(stdin, sample)
        /\ UNCHANGED <<sample, result, stdout>>
    BY <1>2, <1>3 DEF SendRequest
  <2>2. /\ \A i \in 1..Len(stdin) : stdin[i] = Shutdown
        /\ wpc \notin Serving /\ NoAnswer
    BY <1>2, <2>1, ChildIdle DEF Awaiting
  <2>3. stdin \in Seq(Samples \cup {Shutdown}) /\ Len(stdin) \in Nat
    BY DEF TypeOK, PipeTypeOK
  <2>4. Len(stdin) = 0
    <3>1. ~ \E i \in 1..Len(stdin) : stdin[i] = Shutdown
      BY <2>1 DEF Success
    <3>2. 1 \notin 1..Len(stdin)
      BY <2>2, <3>1
    <3> QED BY <2>3, <3>2
  <2>5. sample \in Samples \cup {Shutdown}
    BY DEF TypeOK, HarnessTypeOK
  <2>6. Len(stdin') = 1 /\ \A i \in 1..Len(stdin') : stdin'[i] = sample
    BY <2>1, <2>3, <2>4, <2>5, AppendFacts
  <2>7. wpc \in {"boot", "loop"}
    BY <1>2, <2>2 DEF TypeOK, ChildTypeOK, Exited, Serving
  <2>8. result[sample] = Pending
    BY <2>1 DEF Bookkeeping
  <2> QED
    BY <1>1, <2>1, <2>2, <2>6, <2>7, <2>8 DEF OneRequest, Awaiting, NoAnswer, Exited, Serving
<1>4. CASE FlushOk
  <2>1. hpc = "flush" /\ hpc' = "wait" /\ UNCHANGED <<sample, result, stdin, stdout>>
    BY <1>2, <1>4 DEF FlushOk, Bookkeeping, pipes
  <2>2. (Awaiting' <=> Awaiting) /\ (NoAnswer' <=> NoAnswer)
    BY <2>1 DEF Awaiting, NoAnswer
  <2> QED BY <1>1, <1>2, <2>1, <2>2 DEF OneRequest, Exited
<1>5. CASE hpc' \notin {"flush", "wait"} /\ stdout' = stdout /\ ~Awaiting
  <2>1. /\ \A i \in 1..Len(stdin) : stdin[i] = Shutdown
        /\ wpc \notin Serving /\ NoAnswer
    BY <1>2, <1>5, ChildIdle
  <2>2. \A i \in 1..Len(stdin') : stdin'[i] = Shutdown
    <3>1. stdin' = stdin \/ stdin' = Append(stdin, Shutdown) \/ SendRequest
      BY DEF Harness, ReadyOk, ReadyFails, ReadyTimeout, CreateRegion, FlushOk,
         FlushThrows, ReadSample, CloseWorker, CloseTimeout, CloseEnds, pipes
    <3>2. ~SendRequest
      BY <1>2, <1>5 DEF SendRequest
    <3>3. stdin \in Seq(Samples \cup {Shutdown})
      BY DEF TypeOK, PipeTypeOK
    <3> QED BY <2>1, <3>1, <3>2, <3>3, AppendFacts
  <2>3. NoAnswer'
    BY <1>5, <2>1 DEF NoAnswer
  <2> QED BY <1>1, <1>5, <2>1, <2>2, <2>3 DEF OneRequest, NoAnswer, Exited
<1>6. SendRequest \/ FlushOk \/ (hpc' \notin {"flush", "wait"} /\ stdout' = stdout /\ ~Awaiting)
  BY <1>2 DEF Harness, ReadyOk, ReadyFails, ReadyTimeout, CreateRegion, FlushThrows,
     ReadSample, CloseWorker, CloseTimeout, CloseEnds, pipes, Classify, AfterSample, Awaiting
<1> QED BY <1>3, <1>4, <1>5, <1>6

LEMMA HandlerRequest ==
  ASSUME TypeOK, OneRequest, Bookkeeping, Handlers
  PROVE  OneRequest'
<1>1. UNCHANGED <<wpc, request, hpc, sample, stdin>>
  BY HarnessFrame DEF child, Handlers, HandleLine, CompletePendingOnExit, pipes
<1>2. SUFFICES ASSUME ~Exited
               PROVE  OneRequest'
  BY <1>1 DEF OneRequest, Exited
<1>3. HandleLine
  BY <1>2 DEF Handlers, CompletePendingOnExit
<1>4. stdout \in Seq(Lines) /\ stdout # <<>> /\ stdout' = Tail(stdout)
  BY <1>3 DEF HandleLine, TypeOK, PipeTypeOK
<1>5. /\ Head(stdout) = stdout[1] /\ Head(stdout) \in Lines /\ 1 \in 1..Len(stdout)
      /\ \A i \in 1..Len(stdout') : stdout'[i] = stdout[i + 1] /\ i + 1 \in 1..Len(stdout)
                                   /\ i + 1 # 1
  BY <1>4, TailFacts
<1>6. NoAnswer => NoAnswer'
  BY <1>5 DEF NoAnswer
<1>7. CASE Head(stdout).kind = "answer"
  <2>1. /\ Awaiting /\ request = sample /\ stdin = <<>> /\ wpc = "loop"
        /\ \A j \in 1..Len(stdout) : stdout[j].kind = "answer" => j = 1
    BY <1>2, <1>5, <1>7 DEF OneRequest
  <2>2. NoAnswer'
    BY <1>5, <2>1 DEF NoAnswer
  <2> QED
    BY <1>1, <2>1, <2>2 DEF OneRequest, NoAnswer, Serving
<1>8. CASE Head(stdout).kind # "answer"
  <2>1. result' = result
    BY <1>3, <1>5, <1>8 DEF HandleLine, Lines
  <2>2. Awaiting' <=> Awaiting
    BY <1>1, <2>1 DEF Awaiting
  <2>3. ASSUME NEW i \in 1..Len(stdout'), stdout'[i].kind = "answer"
        PROVE  /\ Awaiting /\ stdout'[i].id = sample /\ request = sample
               /\ stdin = <<>> /\ wpc = "loop"
               /\ \A j \in 1..Len(stdout') : stdout'[j].kind = "answer" => j = i
    <3>1. stdout[i + 1].kind = "answer" /\ i + 1 \in 1..Len(stdout)
      BY <1>5, <2>3
    <3>2. /\ Awaiting /\ stdout[i + 1].id = sample /\ request = sample
          /\ stdin = <<>> /\ wpc = "loop"
          /\ \A j \in 1..Len(stdout) : stdout[j].kind = "answer" => j = i + 1
      BY <1>2, <3>1 DEF OneRequest
    <3>3. ASSUME NEW j \in 1..Len(stdout'), stdout'[j].kind = "answer"
          PROVE  j = i
      <4>1. j + 1 = i + 1
        BY <1>5, <3>2, <3>3
      <4> QED BY <4>1
    <3> QED BY <1>5, <3>2, <3>3
  <2> QED
    BY <1>1, <1>2, <1>6, <2>2, <2>3 DEF OneRequest, Exited
<1> QED BY <1>7, <1>8

LEMMA ChildRequest ==
  ASSUME TypeOK, OneRequest, Bookkeeping, Progress \/ Faults \/ \E k \in Runtimes : Record(k)
  PROVE  OneRequest'
<1>1. UNCHANGED <<hpc, sample, result>>
  BY ChildFrame DEF harness
<1>2. Awaiting' <=> Awaiting
  BY <1>1 DEF Awaiting
<1>3. CASE Exited'
  BY <1>3 DEF OneRequest
<1>4. CASE \E k \in Runtimes : Record(k)
  BY <1>1, <1>4 DEF Record, child, pipes, OneRequest, Awaiting, NoAnswer, Exited
<1>5. CASE Boot /\ ~Exited'
  <2>1. /\ wpc = "boot" /\ wpc' = "loop" /\ UNCHANGED <<stdin, request>>
        /\ stdout' = Append(stdout, [kind |-> "ready"])
    BY <1>5 DEF Boot, Exit, Exited
  <2>2. NoAnswer
    BY <2>1 DEF OneRequest, NoAnswer, Exited
  <2>3. NoAnswer'
    <3>1. [kind |-> "ready"] \in Lines /\ stdout \in Seq(Lines)
      BY DEF Lines, TypeOK, PipeTypeOK
    <3> QED BY <2>1, <2>2, <3>1, AppendFacts DEF NoAnswer
  <2> QED BY <1>1, <1>2, <2>1, <2>3 DEF OneRequest, NoAnswer, Exited, Serving
<1>6. CASE TakeRequest
  <2>1. /\ wpc = "loop" /\ wpc' = "attach" /\ request' = Head(stdin)
        /\ stdin # <<>> /\ Head(stdin) # Shutdown /\ stdin' = Tail(stdin)
        /\ UNCHANGED stdout
    BY <1>6 DEF TakeRequest
  <2>2. stdin \in Seq(Samples \cup {Shutdown})
    BY DEF TypeOK, PipeTypeOK
  <2>3. Awaiting /\ stdin[1] = sample /\ Len(stdin) = 1 /\ NoAnswer /\ Head(stdin) = stdin[1]
    BY <2>1, <2>2, TailFacts DEF OneRequest, Exited
  <2>4. stdin' = <<>>
    BY <2>1, <2>2, <2>3
  <2>5. NoAnswer'
    BY <2>1, <2>3 DEF NoAnswer
  <2> QED BY SMTT(20), <1>1, <1>2, <2>1, <2>3, <2>4, <2>5 DEF OneRequest, NoAnswer, Awaiting
<1>7. CASE Answer
  <2>1. wpc = "answer" /\ wpc' = "loop" /\ UNCHANGED <<stdin, request>>
    BY <1>7 DEF Answer
  <2>2. Awaiting /\ request = sample /\ stdin = <<>> /\ NoAnswer
    BY <2>1 DEF OneRequest, Serving, Exited
  <2>3. stdout \in Seq(Lines) /\ Len(stdout) \in Nat
    BY DEF TypeOK, PipeTypeOK
  <2>4. CASE stdout' = Append(stdout, [kind |-> "answer", id |-> request, code |-> code])
    <3> DEFINE x == [kind |-> "answer", id |-> request, code |-> code]
    <3>1. x \in Lines
      BY DEF Lines, TypeOK, ChildTypeOK
    <3>2. \A i \in 1..Len(stdout') : stdout'[i].kind = "answer" =>
            i = Len(stdout) + 1 /\ stdout'[i].id = request
      BY <2>2, <2>3, <2>4, <3>1, AppendFacts DEF NoAnswer
    <3> QED
      BY <1>1, <1>2, <2>1, <2>2, <3>2 DEF OneRequest, NoAnswer, Awaiting, Serving
  <2>5. CASE stdout' = Append(stdout, [kind |-> "noise"])
    <3>1. [kind |-> "noise"] \in Lines
      BY DEF Lines
    <3>2. NoAnswer'
      BY <2>2, <2>3, <2>5, <3>1, AppendFacts DEF NoAnswer
    <3> QED
      BY <1>1, <1>2, <2>1, <2>2, <3>2 DEF OneRequest, NoAnswer, Awaiting, Serving
  <2> QED BY <1>7, <2>4, <2>5 DEF Answer
<1>8. CASE wpc \in Serving /\ wpc' \in Serving /\ UNCHANGED <<stdin, stdout, request>>
  BY <1>1, <1>2, <1>8 DEF OneRequest, Serving, Exited, Awaiting, NoAnswer
<1>9. \/ Exited' \/ (\E k \in Runtimes : Record(k)) \/ (Boot /\ ~Exited')
      \/ TakeRequest \/ Answer
      \/ wpc \in Serving /\ wpc' \in Serving /\ UNCHANGED <<stdin, stdout, request>>
  BY DEF Progress, Faults, LeaveLoop, Attach, RunScenario, WriteMetrics, ResetRuntime,
     PostResetQuiescence, AttachFails, WriteMetricsThrows, Crash, Terminated, Exit,
     Exited, Serving, pipes
<1> QED BY <1>3, <1>4, <1>5, <1>6, <1>7, <1>8, <1>9

LEMMA OneRequestStep ==
  ASSUME TypeOK, OneRequest, Bookkeeping, Success, Next
  PROVE  OneRequest'
  BY HarnessRequest, HandlerRequest, ChildRequest DEF Next

-----------------------------------------------------------------------------
(* Success: nothing but an answer completes a request with 0.              *)

LEMMA HarnessSuccess ==
  ASSUME TypeOK, Bookkeeping, Success, Harness
  PROVE  Success'
<1>1. UNCHANGED <<wpc, request, code, exitCode, metrics>>
  BY HarnessFrame DEF child, files
<1>2. result' = result /\ stdout' = stdout
  BY DEF Harness, ReadyOk, ReadyFails, ReadyTimeout, CreateRegion, SendRequest, FlushOk,
     FlushThrows, ReadSample, CloseWorker, CloseTimeout, CloseEnds, pipes
<1>3. SuccessWasAnswered'
  BY <1>1, <1>2 DEF Success, SuccessWasAnswered
<1>4. \A i \in 1..Len(stdout') :
        stdout'[i].kind = "answer" /\ stdout'[i].code = 0 => metrics'[stdout'[i].id] # "none"
  BY <1>1, <1>2 DEF Success
<1>5. (\E i \in 1..Len(stdin') : stdin'[i] = Shutdown) \/ ~stdinOpen' \/ exitCode = 0
        => hpc' \in {"closing", "killing", "ended"}
  <2>1. CASE SendRequest
    <3>1. stdin \in Seq(Samples \cup {Shutdown}) /\ sample \in Samples
      BY DEF TypeOK, PipeTypeOK, HarnessTypeOK
    <3>2. sample # Shutdown
      BY <3>1, WorkerAssumption DEF Samples, Shutdown
    <3>3. hpc = "send" /\ UNCHANGED stdinOpen /\ (stdin' = stdin \/ stdin' = Append(stdin, sample))
      BY <2>1 DEF SendRequest
    <3>4. ~(\E i \in 1..Len(stdin) : stdin[i] = Shutdown) /\ stdinOpen /\ exitCode # 0
      BY <3>3 DEF Success
    <3> QED BY <3>1, <3>2, <3>3, <3>4, AppendFacts
  <2>2. CASE CloseWorker
    BY <2>2 DEF CloseWorker
  <2>3. CASE ~SendRequest /\ ~CloseWorker
    <3>1. UNCHANGED <<stdin, stdinOpen>>
      BY <2>3 DEF Harness, ReadyOk, ReadyFails, ReadyTimeout, CreateRegion, FlushOk,
         FlushThrows, ReadSample, CloseTimeout, CloseEnds, pipes
    <3>2. hpc \in {"closing", "killing", "ended"} => hpc' \in {"closing", "killing", "ended"}
      BY <2>3 DEF Harness, ReadyOk, ReadyFails, ReadyTimeout, CreateRegion, FlushOk,
         FlushThrows, ReadSample, CloseTimeout, CloseEnds
    <3> QED BY <3>1, <3>2 DEF Success
  <2> QED BY <2>1, <2>2, <2>3
<1>6. exitCode = 0 => pending' = {}
  <2>1. pending' = pending \/ SendRequest
    BY DEF Harness, ReadyOk, ReadyFails, ReadyTimeout, CreateRegion, FlushOk,
       FlushThrows, ReadSample, CloseWorker, CloseTimeout, CloseEnds
  <2> QED BY <2>1 DEF Success, SendRequest
<1> QED BY <1>1, <1>3, <1>4, <1>5, <1>6 DEF Success

LEMMA HandlerSuccess ==
  ASSUME TypeOK, Bookkeeping, Success, Handlers
  PROVE  Success'
<1>1. UNCHANGED <<wpc, request, code, exitCode, metrics, hpc, stdin, stdinOpen>>
  BY HarnessFrame DEF child, files, Handlers, HandleLine, CompletePendingOnExit, pipes
<1>2. exitCode = 0 => pending' = {}
  <2>1. pending' \subseteq pending
    <3>1. CASE HandleLine
      <4>1. Head(stdout) \in Lines
        BY <3>1, TailFacts DEF HandleLine, TypeOK, PipeTypeOK
      <4>2. Head(stdout).kind \in {"ready", "answer", "noise"}
        BY <4>1 DEF Lines
      <4>3. pending' = pending \/ \E s : pending' = pending \ {s}
        BY <3>1, <4>2 DEF HandleLine
      <4> QED BY <4>3
    <3>2. CASE ~HandleLine
      BY <3>2 DEF Handlers, CompletePendingOnExit
    <3> QED BY <3>1, <3>2
  <2> QED BY <2>1 DEF Success
<1>3. \A i \in 1..Len(stdout') :
        stdout'[i].kind = "answer" /\ stdout'[i].code = 0 => metrics[stdout'[i].id] # "none"
  <2>1. CASE HandleLine
    <3>1. \A i \in 1..Len(stdout') : stdout'[i] = stdout[i + 1] /\ i + 1 \in 1..Len(stdout)
      BY <2>1, TailFacts DEF HandleLine, TypeOK, PipeTypeOK
    <3> QED BY <3>1 DEF Success
  <2>2. CASE ~HandleLine
    BY <2>2 DEF Handlers, CompletePendingOnExit, pipes, Success
  <2> QED BY <2>1, <2>2
<1>4. ASSUME NEW s \in Samples, result'[s] = 0
      PROVE  metrics[s] # "none"
  <2>0. result \in [Samples -> {Pending, 0, 65, 66, 255, -15}]
    BY DEF TypeOK, HarnessTypeOK
  <2>1. CASE result[s] = 0
    BY <2>1 DEF Success, SuccessWasAnswered
  <2>2. CASE HandleLine /\ result[s] # 0
    <3>1. Head(stdout) = stdout[1] /\ stdout[1] \in Lines /\ 1 \in 1..Len(stdout)
      BY <2>2, TailFacts DEF HandleLine, TypeOK, PipeTypeOK
    <3>2. /\ stdout[1].kind = "answer"
          /\ result' = Deliver(stdout[1].id, stdout[1].code)
      BY <1>4, <2>2, <3>1 DEF HandleLine, Lines
    <3>3. s = stdout[1].id /\ stdout[1].code = 0
      BY <1>4, <2>0, <2>2, <3>2 DEF Deliver
    <3> QED BY <3>1, <3>2, <3>3 DEF Success
  <2>3. CASE ~HandleLine /\ result[s] # 0
    <3>1. s \in pending /\ exitCode = 0
      BY <1>4, <2>3 DEF Handlers, CompletePendingOnExit
    <3> QED BY <3>1 DEF Success
  <2> QED BY <2>1, <2>2, <2>3
<1> QED BY <1>1, <1>2, <1>3, <1>4 DEF Success, SuccessWasAnswered

LEMMA ChildSuccess ==
  ASSUME TypeOK, Bookkeeping, Success, Progress \/ Faults \/ \E k \in Runtimes : Record(k)
  PROVE  Success'
<1>1. UNCHANGED <<hpc, pending, result>>
  BY ChildFrame DEF harness
(* A metrics file is never removed while its sample is being served.       *)
<1>2. \A s \in Samples : metrics[s] # "none" => metrics'[s] # "none"
  BY DEF Progress, Faults, Boot, TakeRequest, LeaveLoop, Attach, RunScenario,
     WriteMetrics, ResetRuntime, PostResetQuiescence, Answer, AttachFails,
     WriteMetricsThrows, Crash, Terminated, Record, files, TypeOK, FileTypeOK
<1>3. /\ UNCHANGED stdinOpen
      /\ (\E i \in 1..Len(stdin') : stdin'[i] = Shutdown)
           => \E i \in 1..Len(stdin) : stdin[i] = Shutdown
  <2>1. CASE TakeRequest
    <3>1. \A i \in 1..Len(stdin') : stdin'[i] = stdin[i + 1] /\ i + 1 \in 1..Len(stdin)
      BY <2>1, TailFacts DEF TakeRequest, TypeOK, PipeTypeOK
    <3> QED BY <2>1, <3>1 DEF TakeRequest
  <2>2. CASE ~TakeRequest
    BY <2>2 DEF Progress, Faults, Boot, LeaveLoop, Attach, RunScenario,
     WriteMetrics, ResetRuntime, PostResetQuiescence, Answer, AttachFails,
     WriteMetricsThrows, Crash, Terminated, Record, pipes
  <2> QED BY <2>1, <2>2
<1>4. exitCode' = 0 => hpc \in {"closing", "killing", "ended"} /\ pending = {}
  <2>1. CASE LeaveLoop
    <3>1. \/ \E i \in 1..Len(stdin) : stdin[i] = Shutdown
          \/ ~stdinOpen
      <4>1. CASE stdin # <<>> /\ Head(stdin) = Shutdown
        <5>1. Head(stdin) = stdin[1] /\ 1 \in 1..Len(stdin)
          BY <4>1, TailFacts DEF TypeOK, PipeTypeOK
        <5> QED BY <4>1, <5>1
      <4> QED BY <2>1, <4>1 DEF LeaveLoop
    <3>2. hpc \in {"closing", "killing", "ended"}
      BY <3>1 DEF Success
    <3>3. pending = {}
      BY <2>1, <3>2 DEF Bookkeeping, LeaveLoop, Exited
    <3> QED BY <3>2, <3>3
  <2>2. CASE ~LeaveLoop
    <3>1. exitCode' = exitCode \/ exitCode' \in {66, 255, -15}
      BY <2>2 DEF Progress, Faults, Boot, TakeRequest, Attach, RunScenario,
         WriteMetrics, ResetRuntime, PostResetQuiescence, Answer, AttachFails,
         WriteMetricsThrows, Crash, Terminated, Record, Exit, child
    <3> QED BY <3>1 DEF Success
  <2> QED BY <2>1, <2>2
<1>5. wpc' \in {"reset", "pause"} \/ (wpc' = "answer" /\ code' = 0)
        => metrics'[request'] # "none"
  <2>1. request \in Samples /\ metrics \in [Samples -> {"none", "ok", "unsupported"}]
    BY DEF TypeOK, ChildTypeOK, FileTypeOK
  <2>2. CASE WriteMetrics
    BY <2>1, <2>2 DEF WriteMetrics
  <2>3. CASE ResetRuntime \/ PostResetQuiescence
    BY <2>1, <2>3, <1>2 DEF ResetRuntime, PostResetQuiescence, Success, files
  <2>4. CASE \E k \in Runtimes : Record(k)
    BY <2>4 DEF Record, child, Success
  <2>5. CASE ~WriteMetrics /\ ~ResetRuntime /\ ~PostResetQuiescence
             /\ ~ \E k \in Runtimes : Record(k)
    <3>1. wpc' \notin {"reset", "pause"} /\ (wpc' = "answer" => code' = 65)
      BY <2>5 DEF Progress, Faults, Boot, TakeRequest, LeaveLoop, Attach, RunScenario,
         Answer, AttachFails, WriteMetricsThrows, Crash, Terminated, Exit
    <3> QED BY <3>1
  <2> QED BY <2>2, <2>3, <2>4, <2>5
<1>6. \A i \in 1..Len(stdout') :
        stdout'[i].kind = "answer" /\ stdout'[i].code = 0 => metrics'[stdout'[i].id] # "none"
  <2>1. stdout \in Seq(Lines) /\ \A i \in 1..Len(stdout) :
          stdout[i].kind = "answer" => stdout[i].id \in Samples
    <3>1. stdout \in Seq(Lines)
      BY DEF TypeOK, PipeTypeOK
    <3>2. \A i \in 1..Len(stdout) : stdout[i] \in Lines
      BY <3>1
    <3>3. \A x \in Lines : x.kind = "answer" => x.id \in Samples
      BY DEF Lines
    <3> QED BY <3>1, <3>2, <3>3
  <2>2. CASE stdout' = stdout
    BY <1>2, <2>1, <2>2 DEF Success
  <2>3. CASE \E x \in Lines : stdout' = Append(stdout, x) /\ x.kind # "answer"
    BY <1>2, <2>1, <2>3, AppendFacts DEF Success
  <2>4. CASE /\ wpc = "answer" /\ UNCHANGED metrics
             /\ stdout' = Append(stdout, [kind |-> "answer", id |-> request, code |-> code])
    <3> DEFINE x == [kind |-> "answer", id |-> request, code |-> code]
    <3>1. x \in Lines
      BY DEF Lines, TypeOK, ChildTypeOK
    <3>2. code = 0 => metrics[request] # "none"
      BY <2>4 DEF Success
    <3> QED BY <2>1, <2>4, <3>1, <3>2, AppendFacts DEF Success
  <2>5. CASE Boot \/ Answer
    <3>1. [kind |-> "ready"] \in Lines /\ [kind |-> "noise"] \in Lines
      BY DEF Lines
    <3> QED BY <2>2, <2>3, <2>4, <2>5, <3>1 DEF Boot, Answer, files
  <2>6. CASE ~Boot /\ ~Answer
    <3>1. stdout' = stdout
      BY <2>6 DEF Progress, Faults, TakeRequest, LeaveLoop, Attach, RunScenario,
         WriteMetrics, ResetRuntime, PostResetQuiescence, AttachFails,
         WriteMetricsThrows, Crash, Terminated, Record, pipes
    <3> QED BY <2>2, <3>1
  <2> QED BY <2>5, <2>6
<1>7. SuccessWasAnswered'
  BY <1>1, <1>2 DEF Success, SuccessWasAnswered
<1>8. (\E i \in 1..Len(stdin') : stdin'[i] = Shutdown) \/ ~stdinOpen' \/ exitCode' = 0
        => hpc' \in {"closing", "killing", "ended"}
  BY <1>1, <1>3, <1>4 DEF Success
<1> QED BY <1>1, <1>4, <1>5, <1>6, <1>7, <1>8 DEF Success

-----------------------------------------------------------------------------
(* The steps of the report, in the terms of PeerSamples.                   *)

(* A step of the harness reports the current sample, gives up, or leaves   *)
(* the report alone.                                                       *)
LEMMA ReportSteps ==
  ASSUME TypeOK, Reporting, Next
  PROVE  \/ \E v \in {"ok", "no_trace", "failed", "unsupported"} :
              /\ ~Over /\ Classify(v)
              /\ \/ v # "ok" /\ seen' = seen
                 \/ /\ v = "ok" => \E e \in events : e[1] = sample
                    /\ seen' = [seen EXCEPT ![sample] = {e \in events : e[1] = sample}]
         \/ ~Over /\ sample = 0 /\ Over' /\ UNCHANGED <<sample, verdict, seen>>
         \/ (Over' <=> Over) /\ (hpc' = "starting" => hpc = "starting")
            /\ UNCHANGED <<sample, verdict, seen>>
<1>1. CASE Progress \/ Faults \/ \E k \in Runtimes : Record(k)
  BY <1>1, ChildFrame DEF harness, Over
<1>2. CASE Handlers
  BY <1>2 DEF Handlers, HandleLine, CompletePendingOnExit, Over
<1>3. CASE ReadyOk \/ SendRequest \/ FlushOk \/ CloseWorker \/ CloseTimeout \/ CloseEnds
  BY <1>3 DEF ReadyOk, SendRequest, FlushOk, CloseWorker, CloseTimeout, CloseEnds, Over
<1>4. CASE ReadyFails \/ ReadyTimeout
  BY <1>4 DEF ReadyFails, ReadyTimeout, Over, Reporting
<1>5. CASE CreateRegion \/ FlushThrows
  BY <1>5 DEF CreateRegion, FlushThrows, Over
<1>6. CASE ReadSample
  <2>1. PICK v \in {Status(sample), "failed"} : Classify(v)
    BY <1>6 DEF ReadSample
  <2>2. v = "ok" => \E e \in events : e[1] = sample
    BY DEF Status
  <2>3. v \in {"ok", "no_trace", "failed", "unsupported"} /\ ~Over
        /\ seen' = [seen EXCEPT ![sample] = {e \in events : e[1] = sample}]
    BY <1>6 DEF ReadSample, Over, Status
  <2> QED BY <2>1, <2>2, <2>3
<1> QED
  BY <1>1, <1>2, <1>3, <1>4, <1>5, <1>6 DEF Next, Harness

LEMMA ReportingStep ==
  ASSUME TypeOK, Reporting, Next
  PROVE  Reporting'
<1>1. ASSUME NEW v \in {"ok", "no_trace", "failed", "unsupported"}, ~Over, Classify(v)
      PROVE  Reporting'
  <2>1. /\ verdict' = [verdict EXCEPT ![sample] = v]
        /\ verdict \in [Samples -> {"none", "ok", "no_trace", "failed", "unsupported"}]
    BY <1>1 DEF Classify, TypeOK, HarnessTypeOK
  <2>2. \/ hpc' = "create" /\ sample' = sample + 1
        \/ hpc' = "close" /\ sample' = sample
    BY <1>1, ClassifyTypes
  <2>3. \A s \in Samples : s >= sample => verdict[s] = "none"
    BY <1>1 DEF Reporting
  <2>4. sample \in Samples
    BY DEF TypeOK, HarnessTypeOK
  <2> QED BY <2>1, <2>2, <2>3, <2>4 DEF Reporting, Over, Samples
<1>2. CASE ~Over /\ sample = 0 /\ Over' /\ UNCHANGED <<sample, verdict, seen>>
  BY <1>2 DEF Reporting, Over
<1>3. CASE (Over' <=> Over) /\ (hpc' = "starting" => hpc = "starting")
           /\ UNCHANGED <<sample, verdict, seen>>
  BY <1>3 DEF Reporting
<1> QED BY <1>1, <1>2, <1>3, ReportSteps

-----------------------------------------------------------------------------
LEMMA InvStep == WorkerInv /\ [Next]_vars => WorkerInv'
<1>1. ASSUME WorkerInv, Next
      PROVE  WorkerInv'
  BY <1>1, TypeStep, BookkeepingStep, OneRequestStep, ReportingStep, IsolationStep,
     SeparationStep, HarnessSuccess, HandlerSuccess, ChildSuccess DEF WorkerInv, Next
<1>2. ASSUME WorkerInv, UNCHANGED vars
      PROVE  WorkerInv'
  <2>1. TypeOK'
    BY <1>2 DEF WorkerInv, vars, harness, pipes, child, files, TypeOK, HarnessTypeOK,
       PipeTypeOK, ChildTypeOK, FileTypeOK
  <2>2. OneRequest' /\ Bookkeeping' /\ Reporting' /\ Success'
    BY <1>2 DEF WorkerInv, vars, harness, pipes, child, files, OneRequest, Bookkeeping,
       Reporting, Over, Success, SuccessWasAnswered, Awaiting, NoAnswer, Exited
  <2>3. Isolation => Isolation'
    BY <1>2 DEF vars, harness, pipes, child, files, Isolation
  <2>4. Separation'
    BY <1>2 DEF WorkerInv, vars, harness, pipes, child, files, Separation, OwnEventsOnly
  <2> QED BY <1>2, <2>1, <2>2, <2>3, <2>4 DEF WorkerInv
<1> QED BY <1>1, <1>2

(* The inductive invariant of the harness, the pipes and the child holds   *)
(* for any number of samples and of runtime libraries.                     *)
THEOREM WorkerInvHolds == Spec => []WorkerInv
<1> QED BY InitInv, InvStep, PTL DEF Spec

(* A request completes with 0 only when the child has served it: an exit   *)
(* of the child, a late answer or a lost line never looks like success.    *)
THEOREM SuccessIsAnswered == Spec => []SuccessWasAnswered
<1>1. WorkerInv => SuccessWasAnswered
  BY DEF WorkerInv, Success
<1> QED BY <1>1, WorkerInvHolds, PTL

(* Whenever the harness may read the region of a sample, the child has     *)
(* answered that sample or is gone.                                        *)
THEOREM ReadsAfterUse == Spec => []ReadAfterUse
<1>1. WorkerInv => ReadAfterUse
  BY DEF WorkerInv, OneRequest, ReadAfterUse, Awaiting
<1> QED BY <1>1, WorkerInvHolds, PTL

(* The answer, the end of stdout, an error on it and the exit of the child *)
(* race for a request, and the first of them decides it: its result is     *)
(* never replaced.                                                         *)
THEOREM ResultsAreFinal == Spec => ResultFinal
<1> DEFINE Final == \A s \in Samples : result[s] # Pending => result'[s] = result[s]
<1>1. ASSUME WorkerInv, Next
      PROVE  Final
  <2>0. result \in [Samples -> {Pending, 0, 65, 66, 255, -15}]
    BY <1>1 DEF WorkerInv, TypeOK, HarnessTypeOK
  <2>1. CASE HandleLine
    <3>1. \A r, c : \A s \in Samples :
            result[s] # Pending => Deliver(r, c)[s] = result[s]
      BY <2>0 DEF Deliver
    <3>2. result' = result \/ \E r, c : result' = Deliver(r, c)
      <4>1. stdout \in Seq(Lines) /\ stdout # <<>>
        BY <1>1, <2>1 DEF HandleLine, WorkerInv, TypeOK, PipeTypeOK
      <4>2. Head(stdout).kind \in {"ready", "answer", "noise"}
        <5>1. Head(stdout) \in Lines
          BY <4>1, TailFacts
        <5> QED BY <5>1 DEF Lines
      <4> QED BY <2>1, <4>2 DEF HandleLine
    <3> QED BY <3>1, <3>2
  <2>2. CASE \E who \in {"exit", "done", "error"} : CompletePendingOnExit(who)
    BY <2>0, <2>2 DEF CompletePendingOnExit
  <2>3. CASE Harness
    BY <2>3 DEF Harness, ReadyOk, ReadyFails, ReadyTimeout, CreateRegion, SendRequest,
       FlushOk, FlushThrows, ReadSample, CloseWorker, CloseTimeout, CloseEnds
  <2>4. CASE Progress \/ Faults \/ \E k \in Runtimes : Record(k)
    BY <2>4, ChildFrame DEF harness
  <2> QED BY <1>1, <2>1, <2>2, <2>3, <2>4 DEF Next, Handlers
<1>2. WorkerInv /\ [Next]_vars => [Final]_vars
  BY <1>1
<1> QED BY <1>2, WorkerInvHolds, PTL DEF Spec, ResultFinal

(* With metrics files that can be written, a scenario runs with all        *)
(* runtimes on the region of its own sample.                               *)
THEOREM SamplesRetargeted == Spec => [](~MetricsFail => Retargeted)
<1>1. WorkerInv => (~MetricsFail => Retargeted)
  BY DEF WorkerInv, Isolation, Retargeted
<1> QED BY <1>1, WorkerInvHolds, PTL

(* With metrics files that can be written, a sample that is reported ok    *)
(* has lost none of its events to the region of another one.               *)
THEOREM OkSamplesComplete == Spec => [](~MetricsFail => OkIsComplete)
<1>1. WorkerInv => (~MetricsFail => OkIsComplete)
  BY DEF WorkerInv, Isolation, OkIsComplete
<1> QED BY <1>1, WorkerInvHolds, PTL

(* No sample is read with the events of another one in its region, whether *)
(* or not metrics files can be written.                                    *)
THEOREM SamplesIsolated == Spec => []OwnEventsOnly
<1>1. WorkerInv => OwnEventsOnly
  BY DEF WorkerInv, Separation
<1> QED BY <1>1, WorkerInvHolds, PTL

(* The worker implements the report of PeerSamples, whatever crashes, late *)
(* or spoilt answers and failed requests there are, metrics files that     *)
(* cannot be written included.                                             *)
THEOREM ImplementsSamples == Spec => SamplesSpec
<1> DEFINE F == [s \in Samples |-> {<<e[2], e[3]>> : e \in seen[s]}]
<1>1. Init => Reported!Init
  <2> SUFFICES ASSUME Init
               PROVE  Reported!Init
    OBVIOUS
  <2>1. F = [s \in 0..LastSample |-> {}]
    BY DEF Init, Samples
  <2> QED BY <2>1 DEF Init, Reported!Init, Over, Samples
<1>2. ASSUME WorkerInv, Next
      PROVE  Reported!Next \/ UNCHANGED <<sample, verdict, F, Over>>
  <2>0. sample \in Samples /\ seen \in [Samples -> SUBSET (Samples \X Samples \X Runtimes)]
        /\ Separation /\ WorkerInv'
    BY <1>2, InvStep DEF WorkerInv, TypeOK, HarnessTypeOK
  <2>1. ASSUME NEW v \in {"ok", "no_trace", "failed", "unsupported"}, ~Over, Classify(v),
               NEW T \in SUBSET events, \A e \in T : e[1] = sample,
               v = "ok" => T # {}, seen' = [seen EXCEPT ![sample] = T]
        PROVE  Reported!Next
    <3> DEFINE trace == {<<e[2], e[3]>> : e \in T}
    <3>1. trace \in SUBSET ({sample} \X Runtimes)
      <4>1. /\ seen' \in [Samples -> SUBSET (Samples \X Samples \X Runtimes)]
            /\ \A s \in Samples : \A e \in seen'[s] : e[2] = s
        BY <2>0 DEF WorkerInv, TypeOK, HarnessTypeOK, Separation, OwnEventsOnly
      <4>2. seen'[sample] = T
        BY <2>0, <2>1
      <4>3. \A e \in T : e[2] = sample /\ e[3] \in Runtimes
        BY <2>0, <4>1, <4>2
      <4> QED BY <4>3
    <3>2. v = "ok" => trace # {}
      BY <2>1
    <3>3. F' = [F EXCEPT ![sample] = trace]
      <4>1. F' = [s \in Samples |-> {<<e[2], e[3]>> : e \in seen'[s]}]
        OBVIOUS
      <4>2. \A s \in Samples : F'[s] = IF s = sample THEN trace ELSE F[s]
        BY <2>0, <2>1, <4>1
      <4> QED BY <2>0, <4>1, <4>2
    <3>4. verdict[sample] = "none" /\ verdict' = [verdict EXCEPT ![sample] = v]
      BY <1>2, <2>0, <2>1, WorkerAssumption DEF WorkerInv, Reporting, Classify, Samples
    <3>5. /\ Over' <=> ((sample = 0 /\ v # "ok") \/ sample = LastSample)
          /\ sample' = IF Over' THEN sample ELSE sample + 1
      BY <2>1 DEF Classify, AfterSample, Over
    <3>6. Over' = ((sample = 0 /\ v # "ok") \/ sample = LastSample)
      BY <3>5 DEF Over
    <3> HIDE DEF F, trace
    <3>7. Reported!Report(v, trace)
      BY <2>1, <3>2, <3>3, <3>4, <3>5, <3>6 DEF Reported!Report, F
    <3> QED BY <3>1, <3>7 DEF Reported!Next
  <2>2. ASSUME NEW v \in {"ok", "no_trace", "failed", "unsupported"}, ~Over, Classify(v),
               v # "ok", seen' = seen
        PROVE  Reported!Next
    <3>1. seen[sample] \in SUBSET events /\ \A e \in seen[sample] : e[1] = sample
      BY <2>0 DEF Separation
    <3>2. seen' = [seen EXCEPT ![sample] = seen[sample]]
      BY <2>0, <2>2
    <3> QED BY <2>1, <2>2, <3>1, <3>2
  <2>3. ASSUME NEW v \in {"ok", "no_trace", "failed", "unsupported"}, ~Over, Classify(v),
               v = "ok" => \E e \in events : e[1] = sample,
               seen' = [seen EXCEPT ![sample] = {e \in events : e[1] = sample}]
        PROVE  Reported!Next
    <3> DEFINE T == {e \in events : e[1] = sample}
    <3>1. T \in SUBSET events /\ (\A e \in T : e[1] = sample) /\ (v = "ok" => T # {})
      BY <2>3
    <3> QED BY <2>1, <2>3, <3>1
  <2>4. CASE ~Over /\ sample = 0 /\ Over' /\ UNCHANGED <<sample, verdict, seen>>
    <3>1. verdict[0] = "none"
      BY <1>2, <2>0, <2>4, WorkerAssumption DEF WorkerInv, Reporting, Samples
    <3>2. Over' = TRUE
      BY <2>4 DEF Over
    <3>3. F' = F
      BY <2>4
    <3> HIDE DEF F
    <3> QED BY <2>4, <3>1, <3>2, <3>3 DEF Reported!Next, Reported!GiveUp, F
  <2>5. CASE (Over' <=> Over) /\ UNCHANGED <<sample, verdict, seen>>
    <3>1. Over' = Over
      BY <2>5 DEF Over
    <3> QED BY <2>5, <3>1
  <2> QED BY <1>2, <2>2, <2>3, <2>4, <2>5, ReportSteps DEF WorkerInv
<1>3. UNCHANGED vars => UNCHANGED <<sample, verdict, F, Over>>
  BY DEF vars, harness, Over
<1>4. WorkerInv /\ [Next]_vars => [Reported!Next]_<<sample, verdict, F, Over>>
  BY <1>2, <1>3
<1> QED BY <1>1, <1>4, WorkerInvHolds, PTL DEF Spec, SamplesSpec, Reported!Spec
=============================================================================
