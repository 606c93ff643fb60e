------------------------- MODULE MCProducerRuntime -------------------------
(* TLC instances of ProducerRuntime.                                       *)
EXTENDS ProducerRuntime, TLC

(* Two regions, so that ids of the first meet the second; one where        *)
(* isolates move, which multiplies the states.                             *)
SomeRegions == [u \in Usages |-> IF u = "moves" THEN 1 ELSE 2]

(* Two attaches, and three between resets, so that a racing pair is        *)
(* followed by another.                                                    *)
SomeGenerations == [u \in Usages |-> IF u = "resets" THEN 4 ELSE 3]

(* Bound: producers that have written an event.                            *)
FewEvents == Cardinality(written) <= 2

(* No action tells threads apart.                                          *)
AnyThread == Permutations(Threads)

(* What a thread worked on before is never read again.                     *)
Starting ==
  {"attach", "attach_map", "attach_bump", "attach_on", "register", "lookup",
   "forget"}

WithoutLeftovers ==
  <<usage, globals, faulted, target, state, locals, pc, recorders,
    [t \in Threads |-> IF pc[t] = "idle" THEN "none" ELSE caller[t]],
    [t \in Threads |-> IF pc[t] \in Starting \cup {"idle"} THEN NoTrack
                       ELSE track[t]],
    [t \in Threads |-> IF pc[t] \in Writing \cup Ending THEN origin[t]
                       ELSE NoRegion],
    owner, written, hit>>
=============================================================================
