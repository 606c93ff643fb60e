---------------------------- MODULE PeerSamples ----------------------------
(***************************************************************************)
(* What compare --runner=worker promises whatever happens to the worker:   *)
(* a preflight and then the samples are reported one after the other, each *)
(* once; the trace found for a sample holds events of that sample only,    *)
(* and is not empty when the sample is reported ok; after a bad preflight  *)
(* no sample follows.                                                      *)
(***************************************************************************)
EXTENDS Integers

CONSTANTS LastSample, Runtimes

VARIABLES
  current,        (* the sample to report next                             *)
  status,         (* what has been reported                                *)
  found,          (* <<sample that emitted it, runtime>> in each trace     *)
  over            (* the command reports nothing any more                  *)

Init ==
  /\ current = 0
  /\ status = [s \in 0..LastSample |-> "none"]
  /\ found = [s \in 0..LastSample |-> {}]
  /\ over = FALSE

Report(v, trace) ==
  /\ ~over
  /\ status[current] = "none"
  /\ v = "ok" => trace # {}
  /\ status' = [status EXCEPT ![current] = v]
  /\ found' = [found EXCEPT ![current] = trace]
  /\ over' = ((current = 0 /\ v # "ok") \/ current = LastSample)
  /\ current' = IF over' THEN current ELSE current + 1

(* The worker never became ready.                                          *)
GiveUp ==
  /\ ~over /\ status[0] = "none"
  /\ over' = TRUE
  /\ UNCHANGED <<current, status, found>>

Next ==
  \/ GiveUp
  \/ \E v \in {"ok", "no_trace", "failed", "unsupported"} :
       \E trace \in SUBSET ({current} \X Runtimes) : Report(v, trace)

Spec == Init /\ [][Next]_<<current, status, found, over>>
=============================================================================
