------------------------------ MODULE TraceLog ------------------------------
(***************************************************************************)
(* What the ring protocol promises to whoever reads a trace, with memory   *)
(* words, cursors and program counters gone: every producer has a log that *)
(* only grows, an event either enters it whole or is counted as lost, and  *)
(* the count explains every gap in the log.                                *)
(***************************************************************************)
EXTENDS Integers, Sequences

CONSTANTS
  Tracks,         (* the producers' track ids                              *)
  MaxEventWords   (* the longest event, in 64-bit words                    *)

VARIABLES
  log,            (* log[t]: the events of t a reader can decode           *)
  lost            (* lost[t]: the drop counter a reader is shown           *)

vars == <<log, lost>>

Init ==
  /\ log  = [t \in Tracks |-> <<>>]
  /\ lost = [t \in Tracks |-> 0]

(***************************************************************************)
(* The event enters the log under its own number among the events that t   *)
(* was asked to write: those before it are in the log or counted lost.     *)
(***************************************************************************)
Record(t, w) ==
  /\ log' = [log EXCEPT ![t] =
               Append(@, [seq |-> Len(@) + lost[t] + 1, words |-> w])]
  /\ UNCHANGED lost

Lose(t) ==
  /\ lost' = [lost EXCEPT ![t] = @ + 1]
  /\ UNCHANGED log

Next ==
  \E t \in Tracks :
    \/ \E w \in 2..MaxEventWords : Record(t, w)
    \/ Lose(t)

Spec == Init /\ [][Next]_vars
=============================================================================
