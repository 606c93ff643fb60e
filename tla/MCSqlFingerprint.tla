-------------------------- MODULE MCSqlFingerprint --------------------------
(* TLC instances of SqlFingerprint.                                        *)
EXTENDS SqlLexemes, FiniteSets

SomeChars ==
  Space \cup Letters \cup Digits \cup Quotes \cup Markers
    \cup {NUL, "[", "]", "-", "/", "*", "_", ".", "+", "="}

X(kind, text) == [kind |-> kind, text |-> text]

Lexemes ==
  {X("space", <<" ">>), X("space", <<"LF">>), X("space", <<"CR">>),
   X("word", <<"a">>), X("word", <<"A", "_", "1", "a">>), X("word", <<"x">>),
   X("literal", <<"n">>), X("literal", <<"1">>), X("literal", <<"1", ".", "1">>),
   X("literal", <<"tick", "s", "tick">>), X("literal", <<"tick", "tick", "tick", "-", "tick">>),
   X("literal", <<"x", "tick", "1", "tick">>),
   X("literal", <<"dquote", "tick", "dquote">>),
   X("literal", <<"grave", "dollar", "grave">>), X("literal", <<"[", "s", "]">>),
   X("literal", <<"?", "1">>), X("literal", <<":", "a">>),
   X("comment", <<"-", "-", "tick", "LF">>), X("comment", <<"-", "-", "CR">>),
   X("comment", <<"/", "*", "tick", "*", "/">>),
   X("other", <<"-">>), X("other", <<"/">>), X("other", <<"=">>)}

(* A text may end inside its last lexeme.                                  *)
Unfinished ==
  {X("literal", <<"tick", "s">>), X("literal", <<"tick", "tick", "tick">>),
   X("literal", <<"[", "s">>), X("comment", <<"-", "-", "s">>),
   X("comment", <<"/", "*", "s">>), X("comment", <<"/", "*">>)}

Apart(s) == \A k \in 1..Len(s)-1 : ~Joins(s[k], s[k + 1].text[1])

LexemeSeqs(n) ==
  LET Ended == UNION {[1..k -> Lexemes] : k \in 0..n}
  IN  {s \in Ended \cup {Append(w, u) : w \in Ended, u \in Unfinished} : Apart(s)}

TextOfLexemes[s \in Seq([kind : STRING, text : Seq(Chars)])] ==
  IF s = <<>> THEN <<>>
  ELSE TextOfLexemes[SubSeq(s, 1, Len(s) - 1)] \o s[Len(s)].text

(* With the terminating NUL only; with a length and more text behind it;   *)
(* with a length that counts the NUL.                                      *)
Passed(s) ==
  LET text == TextOfLexemes[s] IN
  {[lexemes |-> s, memory |-> Append(text, NUL), nByte |-> -1],
   [lexemes |-> s, memory |-> text \o <<"s", NUL>>, nByte |-> Len(text)],
   [lexemes |-> s, memory |-> text \o <<NUL, "s">>, nByte |-> Len(text) + 2]}

SomeStatements == UNION {Passed(s) : s \in LexemeSeqs(2)}

SomeEnvironments ==
  {[capture |-> "unset", raw |-> "unset"], [capture |-> "raw", raw |-> "unset"],
   [capture |-> "redacted", raw |-> "1"], [capture |-> "redacted", raw |-> "0"]}
=============================================================================
