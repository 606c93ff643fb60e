--------------------------- MODULE MCTracedCalls ---------------------------
(* TLC instances of TracedCalls.                                           *)
EXTENDS TracedCalls, TLC

Exec == {sqlite3_exec}

ThreadsAlike == Permutations(Threads)
=============================================================================
