----------------------------- MODULE SqlLexemes -----------------------------
(***************************************************************************)
(* What the lexemes of a statement of SqlFingerprint are: the tokens of    *)
(* SQLite (see Shape for one difference), said without the scanner, and    *)
(* how they make up its text.                                              *)
(***************************************************************************)
EXTENDS SqlFingerprint

WordChars == Letters \cup Digits \cup {"_"}

IsSpace(x) == x.kind = "space" /\ Len(x.text) = 1 /\ x.text[1] \in Space

IsWord(x) ==
  /\ x.kind = IF [j \in 1..Len(x.text) |-> Uppercase(x.text[j])] \in Keywords
              THEN "literal" ELSE "word"
  /\ x.text[1] \in Letters \cup {"_"}
  /\ \A j \in 1..Len(x.text) : x.text[j] \in WordChars

(* An exponent may have a sign.                                            *)
IsNumber(x) ==
  /\ x.kind = "literal" /\ x.text[1] \in Digits
  /\ \A j \in 1..Len(x.text) : x.text[j] \in WordChars \cup {".", "+", "-"}

IsParameter(x) ==
  /\ x.kind = "literal" /\ x.text[1] \in Markers
  /\ \A j \in 2..Len(x.text) : x.text[j] \in WordChars

IsOther(x) ==
  /\ x.kind = "other" /\ Len(x.text) = 1
  /\ x.text[1] \notin Space \cup WordChars \cup Quotes \cup Markers \cup {"[", NUL}

(* Lexemes with an end of their own have it once, in the last place.       *)
IsLine(x) ==
  /\ x.kind = "comment" /\ Len(x.text) > 1 /\ x.text[1] = "-" /\ x.text[2] = "-"
  /\ \A j \in 3..Len(x.text) : x.text[j] \in Newlines => j = Len(x.text)

LineEnds(x) == Len(x.text) > 2 /\ x.text[Len(x.text)] \in Newlines

IsBlock(x) ==
  /\ x.kind = "comment" /\ Len(x.text) > 1 /\ x.text[1] = "/" /\ x.text[2] = "*"
  /\ \A j \in 4..Len(x.text) :
       x.text[j - 1] = "*" /\ x.text[j] = "/" => j = Len(x.text)

BlockEnds(x) ==
  Len(x.text) > 3 /\ x.text[Len(x.text) - 1] = "*" /\ x.text[Len(x.text)] = "/"

IsBracket(x) ==
  /\ x.kind = "literal" /\ x.text[1] = "["
  /\ \A j \in 2..Len(x.text) : x.text[j] = "]" => j = Len(x.text)

BracketEnds(x) == Len(x.text) > 1 /\ x.text[Len(x.text)] = "]"

(* A string, a quoted name or a blob.                                      *)
QuoteOf(x) == IF x.text[1] \in Quotes THEN x.text[1] ELSE "tick"
Opening(x) == IF x.text[1] \in Quotes THEN 1 ELSE 2

IsQuoted(x) ==
  /\ x.kind = "literal"
  /\ \/ x.text[1] \in Quotes
     \/ Len(x.text) > 1 /\ x.text[1] \in {"x", "X"} /\ x.text[2] = "tick"

(* places are those between the characters of x, up to end, at which none  *)
(* of the quotes before is without its double.                             *)
Doubled(x, end, places) ==
  /\ Opening(x) \in places /\ end \in places
  /\ \A p \in places \ {end} :
       IF x.text[p + 1] # QuoteOf(x) THEN p + 1 \in places
       ELSE p + 2 \in places /\ x.text[p + 2] = QuoteOf(x)

QuotedTo(x, end) ==
  end >= Opening(x) /\ \E places \in SUBSET (Opening(x)..end) : Doubled(x, end, places)

QuotedEnds(x) ==
  QuotedTo(x, Len(x.text) - 1) /\ x.text[Len(x.text)] = QuoteOf(x)

(* Whole lexemes, and those the text may end in.                           *)
Whole(x) ==
  \/ IsSpace(x) \/ IsWord(x) \/ IsNumber(x) \/ IsParameter(x) \/ IsOther(x)
  \/ IsLine(x) /\ LineEnds(x)
  \/ IsBlock(x) /\ BlockEnds(x)
  \/ IsBracket(x) /\ BracketEnds(x)
  \/ IsQuoted(x) /\ QuotedEnds(x)

Unended(x) ==
  \/ IsLine(x) /\ ~LineEnds(x)
  \/ IsBlock(x) /\ ~BlockEnds(x)
  \/ IsBracket(x) /\ ~BracketEnds(x)
  \/ IsQuoted(x) /\ QuotedTo(x, Len(x.text))

(* A character that right behind x would belong to it.                     *)
Joins(x, c) ==
  \/ (IsWord(x) \/ IsNumber(x) \/ IsParameter(x)) /\ c \in WordChars
  \/ IsNumber(x) /\ c = "."
  \/ x.text \in {<<"x">>, <<"X">>} /\ c = "tick"
  \/ IsQuoted(x) /\ c = QuoteOf(x)
  \/ x.text = <<"-">> /\ c = "-"
  \/ x.text = <<"/">> /\ c = "*"

-----------------------------------------------------------------------------
LexemeType == [kind : STRING, text : Seq(Chars \ {NUL})]

(* The characters of the first k lexemes.                                  *)
Upto(s) ==
  LET n[k \in 0..Len(s)] == IF k = 0 THEN 0 ELSE n[k - 1] + Len(s[k].text)
  IN  n

Consists(text, s) ==
  \A k \in 1..Len(s) : \A j \in 1..Len(s[k].text) :
    text[Upto(s)[k - 1] + j] = s[k].text[j]

(* A caller passes the text of its lexemes, with a NUL behind it, with its *)
(* length, or with more than that and a NUL.                               *)
Lexed(s) ==
  LET x == s.lexemes
      n == Len(x)
      chars == Upto(x)[n]
  IN  /\ x \in Seq(LexemeType)
      /\ \A k \in 1..n : x[k].text # <<>> /\ (Whole(x[k]) \/ (k = n /\ Unended(x[k])))
      /\ \A k \in 1..n-1 : ~Joins(x[k], x[k + 1].text[1])
      /\ chars <= Len(s.memory) /\ Consists(s.memory, x)
      /\ s.nByte < 0 \/ s.nByte >= chars
      /\ s.nByte = chars \/ (chars < Len(s.memory) /\ s.memory[chars + 1] = NUL)

ASSUME LexemesAssumption ==
  /\ \A s \in Statements : Lexed(s)
  /\ OutCap > 1 /\ \A w \in Keywords : Len(w) + 1 < TokenCap

-----------------------------------------------------------------------------
(* The inductive invariant behind FingerprintCanonical (module             *)
(* SqlFingerprintProofs): where the scanner is among the lexemes.          *)

At(k) == Upto(stmt.lexemes)[k]

(* The label holds what the first k lexemes stand for.                     *)
Emitted(k) ==
  LET shapes == Shapes[SubSeq(stmt.lexemes, 1, k)]
  IN  /\ out = Capped(shapes)
      /\ last_space = (shapes # <<>> /\ shapes[Len(shapes)] = Blank)

(* A loop has read j characters of x, and its end is not among them; word  *)
(* is what it has kept of them and close the quote it looks for.           *)
Reading(loop, word, close, x, j) ==
  /\ j \in 0..Len(x.text)
  /\ \/ /\ loop = "word" /\ IsWord(x)
        /\ word = [m \in 1..(IF j < TokenCap THEN j ELSE TokenCap - 1)
                     |-> Uppercase(x.text[m])]
     \/ loop = "number" /\ IsNumber(x) /\ j > 0
     \/ loop = "parameter" /\ IsParameter(x) /\ j > 0
     \/ loop = "line" /\ IsLine(x) /\ j > 1 /\ (LineEnds(x) => j < Len(x.text))
     \/ loop = "block" /\ IsBlock(x) /\ j > 1 /\ (BlockEnds(x) => j < Len(x.text) - 1)
     \/ loop = "bracket" /\ IsBracket(x) /\ j > 0 /\ (BracketEnds(x) => j < Len(x.text))
     \/ /\ loop \in {"quoted", "blob"} /\ IsQuoted(x) /\ close = QuoteOf(x)
        /\ \E end \in {Len(x.text) - 1, Len(x.text)} :
             /\ IF end < Len(x.text) THEN x.text[Len(x.text)] = QuoteOf(x) ELSE ~Whole(x)
             /\ \E places \in SUBSET (Opening(x)..end) :
                  Doubled(x, end, places) /\ j \in places

(* Between two lexemes, or at the end of a line that ends a comment.       *)
Between(k) ==
  \/ i = At(k)
  \/ /\ k > 0 /\ IsLine(stmt.lexemes[k]) /\ LineEnds(stmt.lexemes[k])
     /\ i = At(k) - 1

AmongLexemes ==
  LET n == Len(stmt.lexemes)
  IN  /\ len = At(n)
      /\ \/ mode = "scan" /\ \E k \in 0..n : Emitted(k) /\ Between(k)
         \/ \E k \in 1..n :
              /\ Emitted(k - 1)
              /\ Reading(mode, token, quote, stmt.lexemes[k], i - At(k - 1))

LexemeInv ==
  /\ mode # "word" => token = <<>>
  /\ mode = "idle" => i = 0 /\ out = <<>> /\ last_space = FALSE
  /\ mode # "done" => interned.form = "none"
  /\ mode \notin {"idle", "done"} /\ ~GluedNumber(stmt.lexemes) => AmongLexemes
  /\ FingerprintCanonical
=============================================================================
