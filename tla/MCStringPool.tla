---------------------------- MODULE MCStringPool ----------------------------
(* TLC instances of StringPool.                                            *)
EXTENDS StringPool

(* Lengths 0, 1 and 5: one that leaves the next entry word-aligned and two *)
(* kinds that do not.                                                      *)
SomeStrings == {<<>>, <<97>>, <<98, 99, 100, 101, 102>>}
=============================================================================
