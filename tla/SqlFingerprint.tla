--------------------------- MODULE SqlFingerprint ---------------------------
(***************************************************************************)
(* What native/shim_sqlite3.c puts into the string pool for the SQL text   *)
(* of a call: the scanner of intern_fingerprinted_sql for prepare_v2 and   *)
(* prepare_v3, and the plain tlt_intern_string of sqlite3_exec.            *)
(*                                                                         *)
(* A text is a sequence of characters in C memory.  The lexemes it was     *)
(* made from are known to the properties only.                             *)
(***************************************************************************)
EXTENDS Integers, Sequences

CONSTANTS
  Chars,          (* the values of a char                                  *)
  Statements,     (* [lexemes, memory, nByte]: what callers pass           *)
  Environments,   (* [capture, raw]: TRACELITE_SQL_CAPTURE and _RAW_SQL    *)
  OutCap,         (* sizeof(normalized), 512                               *)
  TokenCap        (* sizeof(token), 96                                     *)

(* A few characters of each class.                                         *)
NUL == "NUL"
Blank == " "
None == "end"
Newlines == {"LF", "CR"}
Space == {Blank} \cup Newlines
Letters == {"a", "n", "s", "x", "A", "N", "S", "X"}
Digits == {"1"}
Quotes == {"tick", "dquote", "grave"}
Markers == {"?", ":", "at", "dollar"}

(* NULL, TRUE and FALSE, upper-cased                                       *)
Keywords == {<<"N">>}

ASSUME FingerprintAssumption ==
  /\ Space \cup Letters \cup Digits \cup Quotes \cup Markers \cup {NUL, "?", "_"} \subseteq Chars
  /\ None \notin Chars
  /\ OutCap \in Nat \ {0} /\ TokenCap \in Nat \ {0}
  /\ \A s \in Statements :
       /\ s.memory \in Seq(Chars)
       /\ s.nByte \in Int
       /\ \E k \in 0..Len(s.memory)-1 :
            s.memory[k + 1] = NUL /\ \A j \in 1..k : s.memory[j] # NUL

VARIABLES
  env,            (* the two variables of the process                      *)
  stmt,           (* the statement of the call                             *)
  len,            (* characters of it                                      *)
  i,              (* characters read                                       *)
  mode,           (* the loop that is running                              *)
  quote,          (* what ends the literal being skipped                   *)
  token,          (* the word being read, upper-cased                      *)
  out,            (* normalized[0..out_len-1]                              *)
  last_space,
  interned        (* what the pool is given                                *)

call == <<env, stmt, len>>
vars == <<call, i, mode, quote, token, out, last_space, interned>>

Init ==
  /\ env \in Environments
  /\ stmt \in Statements
  /\ len = 0
  /\ i = 0
  /\ mode = "idle"
  /\ quote = "none"
  /\ token = <<>>
  /\ out = <<>>
  /\ last_space = FALSE
  /\ interned = [form |-> "none", text |-> <<>>]

-----------------------------------------------------------------------------
(* Capture modes and lengths.                                              *)

TruthyEnv(v) == v \notin {"unset", "", "0", "false", "FALSE", "no", "NO"}

SqlCaptureRaw == TruthyEnv(env.raw) \/ env.capture = "raw"

SqlCaptureRedacted == env.capture = "redacted"

(* strlen                                                                  *)
FirstNul(m) == CHOOSE k \in 0..Len(m)-1 :
                 m[k + 1] = NUL /\ \A j \in 1..k : m[j] # NUL

(* Mutant: an explicit length is taken as it is.                           *)
StatementLenUnbounded(m, nByte) == IF nByte < 0 THEN FirstNul(m) ELSE nByte

StatementLen(m, nByte) ==
  IF nByte < 0 \/ FirstNul(m) < nByte THEN FirstNul(m) ELSE nByte

InternWhole(form, text) ==
  /\ mode' = "done"
  /\ interned' = [form |-> form, text |-> text]
  /\ UNCHANGED <<call, i, quote, token, out, last_space>>

(* sqlite3_exec interns its text as it is.                                 *)
Exec ==
  /\ mode = "idle"
  /\ InternWhole("exec", SubSeq(stmt.memory, 1, FirstNul(stmt.memory)))

PrepareRaw ==
  /\ mode = "idle"
  /\ SqlCaptureRaw
  /\ InternWhole("raw", SubSeq(stmt.memory, 1,
                               StatementLen(stmt.memory, stmt.nByte)))

PrepareRedacted ==
  /\ mode = "idle"
  /\ ~SqlCaptureRaw /\ SqlCaptureRedacted
  /\ InternWhole("redacted", <<>>)

PrepareScan ==
  /\ mode = "idle"
  /\ ~SqlCaptureRaw /\ ~SqlCaptureRedacted
  /\ len' = StatementLen(stmt.memory, stmt.nByte)
  /\ mode' = "scan"
  /\ UNCHANGED <<env, stmt, i, quote, token, out, last_space, interned>>

-----------------------------------------------------------------------------
(* sqlfp_emit and sqlfp_emit_literal.                                      *)

Capped(s) == SubSeq(s, 1, IF Len(s) < OutCap THEN Len(s) ELSE OutCap - 1)

EmitSpace ==
  IF out = <<>> \/ last_space
  THEN UNCHANGED <<out, last_space>>
  ELSE out' = Capped(Append(out, Blank)) /\ last_space' = TRUE

(* Characters none of which is a space.                                    *)
Emit(s) ==
  /\ out' = Capped(out \o s)
  /\ last_space' = IF s = <<>> THEN last_space ELSE FALSE

EmitLiteral == Emit(<<"?">>)

-----------------------------------------------------------------------------
(* The scanner.                                                            *)

(* The character n places ahead, if it belongs to the text.                *)
Ahead(n) == IF i + n < len THEN stmt.memory[i + n + 1] ELSE None

(* Mutant: an underscore starts a word and is no part of it.               *)
IsAlnum(c) == c \in Letters \cup Digits

IsIdentifierChar(c) == c \in Letters \cup Digits \cup {"_"}

(* The branch of the outer loop that takes the next character.             *)
Branch ==
  CASE Ahead(0) \in Space                             -> "space"
    [] Ahead(0) = "-" /\ Ahead(1) = "-"               -> "line"
    [] Ahead(0) = "/" /\ Ahead(1) = "*"               -> "block"
    [] Ahead(0) \in {"x", "X"} /\ Ahead(1) = "tick"   -> "blob"
    [] Ahead(0) \in Quotes                            -> "quoted"
    [] Ahead(0) = "["                                 -> "bracket"
    [] Ahead(0) \in Digits                            -> "number"
    [] Ahead(0) \in Markers                           -> "parameter"
    [] Ahead(0) \in (Letters \ {"x", "X"}) \cup {"_"} -> "word"
    [] Ahead(0) \in {"x", "X"} /\ Ahead(1) # "tick"   -> "word"
    [] OTHER                                          -> "other"

Skips == {"line", "block", "blob", "quoted", "bracket", "number", "parameter"}

(* The characters a skipping loop goes on over in one round, 0 at its end. *)
(* Mutant: a doubled quote ends the literal.                               *)
RoundUndoubled ==
  IF Ahead(0) = None THEN 0 ELSE
  CASE mode = "line"        -> IF Ahead(0) \notin Newlines THEN 1 ELSE 0
    [] mode = "block"       -> IF Ahead(0) # "*" \/ Ahead(1) # "/" THEN 1 ELSE 0
    [] mode = "bracket"     -> IF Ahead(0) # "]" THEN 1 ELSE 0
    [] mode = "number"      -> IF IsIdentifierChar(Ahead(0)) \/ Ahead(0) \in {".", "+", "-"}
                               THEN 1 ELSE 0
    [] mode = "parameter"   -> IF IsIdentifierChar(Ahead(0)) THEN 1 ELSE 0
    [] OTHER                -> IF Ahead(0) # quote THEN 1 ELSE 0

Round ==
  IF Ahead(0) = None THEN 0 ELSE
  CASE mode = "line"        -> IF Ahead(0) \notin Newlines THEN 1 ELSE 0
    [] mode = "block"       -> IF Ahead(0) # "*" \/ Ahead(1) # "/" THEN 1 ELSE 0
    [] mode = "bracket"     -> IF Ahead(0) # "]" THEN 1 ELSE 0
    [] mode = "number"      -> IF IsIdentifierChar(Ahead(0)) \/ Ahead(0) \in {".", "+", "-"}
                               THEN 1 ELSE 0
    [] mode = "parameter"   -> IF IsIdentifierChar(Ahead(0)) THEN 1 ELSE 0
    [] OTHER                -> IF Ahead(0) # quote THEN 1
                               ELSE IF Ahead(1) = quote THEN 2 ELSE 0

(* The characters of the end itself.                                       *)
Closing ==
  IF Ahead(0) = None THEN 0 ELSE
  CASE mode = "block" -> 2
    [] mode \in {"blob", "quoted", "bracket"} -> 1
    [] OTHER -> 0

(* One character that is not skipped.                                      *)
TakeOne ==
  /\ mode = "scan" /\ Ahead(0) # None
  /\ \/ Branch = "space" /\ EmitSpace
     \/ Branch = "other" /\ Emit(<<Ahead(0)>>)
  /\ i' = i + 1
  /\ UNCHANGED <<call, mode, quote, token, interned>>

StartLoop ==
  /\ mode = "scan" /\ Ahead(0) # None
  /\ Branch \in Skips \cup {"word"}
  /\ mode' = Branch
  /\ i' = CASE Branch \in {"line", "block", "blob"} -> i + 2
            [] Branch = "word" -> i
            [] OTHER -> i + 1
  /\ quote' = CASE Branch = "blob" -> "tick"
                [] Branch = "quoted" -> Ahead(0)
                [] OTHER -> quote
  /\ UNCHANGED <<call, token, out, last_space, interned>>

SkipOn ==
  /\ mode \in Skips
  /\ Round > 0
  /\ i' = i + Round
  /\ UNCHANGED <<call, mode, quote, token, out, last_space, interned>>

SkipEnds ==
  /\ mode \in Skips
  /\ Round = 0
  /\ IF mode \in {"line", "block"} THEN EmitSpace ELSE EmitLiteral
  /\ mode' = "scan"
  /\ i' = i + Closing
  /\ UNCHANGED <<call, quote, token, interned>>

(* toupper                                                                 *)
Uppercase(c) ==
  CASE c = "a" -> "A" [] c = "n" -> "N" [] c = "s" -> "S" [] c = "x" -> "X"
    [] OTHER -> c

(* Characters that do not fit into token are left out.                     *)
WordOn ==
  /\ mode = "word"
  /\ IsIdentifierChar(Ahead(0))
  /\ token' = IF Len(token) + 1 < TokenCap
              THEN Append(token, Uppercase(Ahead(0))) ELSE token
  /\ i' = i + 1
  /\ UNCHANGED <<call, mode, quote, out, last_space, interned>>

WordEnds ==
  /\ mode = "word"
  /\ ~IsIdentifierChar(Ahead(0))
  /\ IF token \in Keywords THEN EmitLiteral ELSE Emit(token)
  /\ token' = <<>>
  /\ mode' = "scan"
  /\ UNCHANGED <<call, i, quote, interned>>

(* The trailing space goes; the id is a hash of what is left.              *)
Trimmed(s) ==
  IF s # <<>> /\ s[Len(s)] = Blank THEN SubSeq(s, 1, Len(s) - 1) ELSE s

InternLabel ==
  /\ mode = "scan" /\ Ahead(0) = None
  /\ out' = Trimmed(out)
  /\ interned' = [form |-> "sqlfp", text |-> Trimmed(out)]
  /\ mode' = "done"
  /\ UNCHANGED <<call, i, quote, token, last_space>>

Scan ==
  TakeOne \/ StartLoop \/ SkipOn \/ SkipEnds \/ WordOn \/ WordEnds \/ InternLabel

Next == Exec \/ PrepareRaw \/ PrepareRedacted \/ PrepareScan \/ Scan

(* A call that has begun goes on: nothing in it waits.                     *)
Spec == Init /\ [][Next]_vars /\ WF_vars(Scan)

-----------------------------------------------------------------------------
(* Reference: the fingerprint, lexeme by lexeme.                           *)

(* What a lexeme stands for.  The kinds are those of SQLite's tokenizer,   *)
(* but a comment of one line ends at a carriage return too: SQLite reads   *)
(* on to the line feed, the shim takes what follows for lexemes.           *)
Shape(x) ==
  CASE x.kind \in {"space", "comment"} -> <<Blank>>
    [] x.kind = "literal" -> <<"?">>
    [] x.kind = "word" ->
         [k \in 1..(IF Len(x.text) < TokenCap THEN Len(x.text) ELSE TokenCap - 1)
            |-> Uppercase(x.text[k])]
    [] OTHER -> x.text

(* Shapes one after the other, runs of spaces and leading space dropped.   *)
Shapes[s \in Seq([kind : STRING, text : Seq(Chars)])] ==
  IF s = <<>> THEN <<>>
  ELSE LET before == Shapes[SubSeq(s, 1, Len(s) - 1)]
           last == Shape(s[Len(s)])
       IN  IF last = <<Blank>> /\ (before = <<>> \/ before[Len(before)] = Blank)
           THEN before ELSE before \o last

Canonical(s) == Trimmed(Capped(Shapes[s]))

(* A number directly followed by a sign, which the scanner takes for a     *)
(* part of it together with the word or comment that follows.              *)
GluedNumber(s) ==
  \E k \in 1..Len(s)-1 :
    /\ s[k].kind = "literal" /\ s[k].text[1] \in Digits
    /\ s[k + 1].text[1] \in {"+", "-"}

-----------------------------------------------------------------------------
(* Properties.                                                             *)

(* A fingerprint depends on the kinds of its statement's lexemes and on    *)
(* its words only: not on what a literal, a quoted name or a comment says, *)
(* however it is delimited, where the buffer of the statement ends or      *)
(* what is cut off (doc/format-spec.md:652-656).  Two exceptions: a number *)
(* directly followed by a sign, and what stands behind a carriage return   *)
(* in a comment of one line, which counts as lexemes here.                 *)
FingerprintCanonical ==
  interned.form = "sqlfp" /\ ~GluedNumber(stmt.lexemes) =>
    interned.text = Canonical(stmt.lexemes)

Printed == Chars \ (Quotes \cup {"[", NUL} \cup Newlines)
Solid == Printed \ {Blank}

(* The scanner stays within the statement and within its two buffers, and  *)
(* what it has emitted has no quote, no leading space and no two spaces in *)
(* a row, which is what Trimmed relies on.                                 *)
ScanInv ==
  /\ mode \in {"idle", "scan", "word", "done"} \cup Skips
  /\ len \in 0..Len(stmt.memory)
  /\ \A k \in 1..len : stmt.memory[k] # NUL
  /\ i \in 0..len
  /\ token \in Seq(Solid) /\ Len(token) < TokenCap
  /\ out \in Seq(Printed) /\ Len(out) < OutCap
  /\ \A k \in 1..Len(out) : out[k] = Blank => k > 1 /\ out[k - 1] # Blank
  /\ Len(out) > 0 /\ out[Len(out)] = Blank =>
       last_space \/ Len(out) = OutCap - 1

(* Every call comes to its end, also when a literal or a comment does not. *)
ScanReturns == (mode # "idle") ~> (mode = "done")
=============================================================================
