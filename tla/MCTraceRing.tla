---------------------------- MODULE MCTraceRing ----------------------------
(* TLC instance of TraceRing.                                              *)
EXTENDS TraceRing
=============================================================================
