------------------------ MODULE SqlFingerprintProofs ------------------------
(* The scanner of SqlFingerprint stays within its buffers, for every text  *)
(* and every size of them, and what it makes of a text is the canonical    *)
(* form of its lexemes.                                                    *)
EXTENDS SqlLexemes, Recursion, SequenceTheorems, TLAPS

(* What a step needs besides ScanInv.                                      *)
ScanInd ==
  /\ ScanInv
  /\ stmt \in Statements
  /\ quote # None
  /\ mode = "idle" => i = 0

OutOK(o, sp) ==
  /\ o \in Seq(Printed) /\ Len(o) < OutCap
  /\ \A k \in 1..Len(o) : o[k] = Blank => k > 1 /\ o[k - 1] # Blank
  /\ Len(o) > 0 /\ o[Len(o)] = Blank => sp \/ Len(o) = OutCap - 1

Caps == OutCap \in Nat \ {0} /\ TokenCap \in Nat \ {0}

(* Both buffers hold one character at least.                               *)
LEMMA CapsOK == Caps
  BY FingerprintAssumption DEF Caps

(* StatementLen is the length of the text, or of what nByte leaves of it.  *)
LEMMA StatementLenOK ==
  ASSUME NEW s \in Statements
  PROVE  /\ StatementLen(s.memory, s.nByte) \in 0..Len(s.memory)
         /\ \A k \in 1..StatementLen(s.memory, s.nByte) : s.memory[k] # NUL
  <1> DEFINE m == s.memory
  <1>1. m \in Seq(Chars) /\ s.nByte \in Int
    BY FingerprintAssumption
  <1>2. \E k \in 0..Len(m)-1 : m[k + 1] = NUL /\ \A j \in 1..k : m[j] # NUL
    BY FingerprintAssumption
  <1>3. /\ FirstNul(m) \in 0..Len(m)-1
        /\ \A j \in 1..FirstNul(m) : m[j] # NUL
    BY <1>2 DEF FirstNul
  <1> QED
    BY <1>1, <1>3 DEF StatementLen

(* Ahead is a character of the text, or None behind it.                   *)
LEMMA AheadOK ==
  ASSUME ScanInd, NEW n \in Nat
  PROVE  /\ Ahead(n) = None <=> i + n >= len
         /\ Ahead(n) # None => Ahead(n) \in Chars /\ Ahead(n) # NUL
  <1>1. /\ stmt.memory \in Seq(Chars)
        /\ None \notin Chars
    BY FingerprintAssumption DEF ScanInd
  <1>2. /\ len \in 0..Len(stmt.memory) /\ i \in 0..len
        /\ \A k \in 1..len : stmt.memory[k] # NUL
    BY DEF ScanInd, ScanInv
  <1>3. CASE i + n < len
    <2>1. i + n + 1 \in 1..len /\ i + n + 1 \in 1..Len(stmt.memory)
      BY <1>1, <1>2, <1>3
    <2>2. Ahead(n) = stmt.memory[i + n + 1]
      BY <1>3 DEF Ahead
    <2> QED
      BY <1>1, <1>2, <1>3, <2>1, <2>2
  <1>4. CASE ~(i + n < len)
    BY <1>2, <1>4 DEF Ahead
  <1> QED
    BY <1>3, <1>4

(* A blank is no solid character, and `?' is one.                          *)
LEMMA Characters ==
  /\ Blank \in Printed /\ Solid \subseteq Printed /\ Blank \notin Solid
  /\ "?" \in Solid
  BY FingerprintAssumption
     DEF Printed, Solid, Quotes, NUL, Blank, Space, Newlines, Markers

(* The part of s that fits is s itself up to OutCap - 1.                   *)
LEMMA CappedParts ==
  ASSUME NEW s \in Seq(Printed)
  PROVE  LET n == IF Len(s) < OutCap THEN Len(s) ELSE OutCap - 1
         IN  /\ Capped(s) \in Seq(Printed)
             /\ Len(Capped(s)) = n
             /\ n \in Nat /\ n < OutCap /\ n <= Len(s)
             /\ \A k \in 1..n : Capped(s)[k] = s[k]
  <1> DEFINE n == IF Len(s) < OutCap THEN Len(s) ELSE OutCap - 1
  <1>1. n \in Nat /\ n < OutCap /\ n <= Len(s)
    BY CapsOK DEF Caps
  <1>2. \A k \in 1..n : s[k] \in Printed
    BY <1>1
  <1>3. Capped(s) = SubSeq(s, 1, n)
    BY DEF Capped
  <1> HIDE DEF n
  <1>4. /\ SubSeq(s, 1, n) \in Seq(Printed)
        /\ Len(SubSeq(s, 1, n)) = IF 1 <= n THEN n - 1 + 1 ELSE 0
        /\ \A k \in 1..n - 1 + 1 : SubSeq(s, 1, n)[k] = s[1 + k - 1]
    BY <1>1, <1>2, SubSeqProperties
  <1>5. /\ Capped(s) \in Seq(Printed) /\ Len(Capped(s)) = n
        /\ \A k \in 1..n : Capped(s)[k] = s[k]
    BY <1>1, <1>3, <1>4
  <1> QED
    BY <1>1, <1>5 DEF n

(* Cutting off leaves a text OutOK if what is left was spaced well, and    *)
(* the flag tells of a space at the end unless something was cut off.      *)
LEMMA CappedOK ==
  ASSUME NEW s \in Seq(Printed), NEW sp,
         \A k \in 1..Len(s) :
           k < OutCap /\ s[k] = Blank => k > 1 /\ s[k - 1] # Blank,
         Len(s) < OutCap - 1 /\ Len(s) > 0 /\ s[Len(s)] = Blank => sp
  PROVE  OutOK(Capped(s), sp)
  <1> DEFINE n == Len(Capped(s))
  <1>1. /\ Capped(s) \in Seq(Printed)
        /\ n \in Nat /\ n < OutCap /\ n <= Len(s)
        /\ \A k \in 1..n : Capped(s)[k] = s[k]
        /\ Len(s) < OutCap => n = Len(s)
        /\ ~(Len(s) < OutCap) => n = OutCap - 1
    BY CappedParts
  <1>2. \A k \in 1..n : Capped(s)[k] = Blank => k > 1 /\ Capped(s)[k - 1] # Blank
    <2> SUFFICES ASSUME NEW k \in 1..n, Capped(s)[k] = Blank
                 PROVE  k > 1 /\ Capped(s)[k - 1] # Blank
      OBVIOUS
    <2>1. k \in 1..Len(s) /\ k < OutCap /\ s[k] = Blank
      BY <1>1, CapsOK DEF Caps
    <2>2. k > 1 /\ s[k - 1] # Blank
      BY <2>1
    <2>3. k - 1 \in 1..n
      BY <1>1, <2>2
    <2> QED
      BY <1>1, <2>2, <2>3
  <1>3. n > 0 /\ Capped(s)[n] = Blank => sp \/ n = OutCap - 1
    BY <1>1, CapsOK DEF Caps
  <1> QED
    BY <1>1, <1>2, <1>3 DEF OutOK

(* Appending a blank, as far as there is room, makes no run of blanks.     *)
LEMMA CappedSpace ==
  ASSUME OutOK(out, last_space), ~last_space, Len(out) > 0
  PROVE  OutOK(Capped(Append(out, Blank)), TRUE)
  <1> DEFINE s == Append(out, Blank)
  <1>1. /\ s \in Seq(Printed) /\ Len(s) = Len(out) + 1
        /\ \A k \in 1..Len(out) : s[k] = out[k]
    BY Characters, AppendProperties DEF OutOK
  <1>2. ASSUME NEW k \in 1..Len(s), k < OutCap, s[k] = Blank
        PROVE  k > 1 /\ s[k - 1] # Blank
    <2>1. Len(out) \in Nat \ {0} /\ OutCap \in Nat
      BY CapsOK DEF Caps, OutOK
    <2>2. CASE k <= Len(out)
      <3>1. k \in 1..Len(out) /\ out[k] = Blank
        BY <1>1, <1>2, <2>1, <2>2
      <3>2. k > 1 /\ out[k - 1] # Blank
        BY <3>1 DEF OutOK
      <3>3. k - 1 \in 1..Len(out)
        BY <2>1, <3>1, <3>2
      <3> QED
        BY <1>1, <3>2, <3>3
    <2>3. CASE k = Len(out) + 1
      <3>1. out[Len(out)] # Blank
        BY <1>2, <2>1, <2>3 DEF OutOK
      <3>2. s[k - 1] = out[Len(out)]
        BY <1>1, <2>1, <2>3
      <3> QED
        BY <2>1, <2>3, <3>1, <3>2
    <2> QED
      BY <1>1, <2>1, <2>2, <2>3
  <1> HIDE DEF s
  <1> QED
    BY <1>1, <1>2, CappedOK DEF s

(* Appending solid characters makes no run of blanks.                      *)
LEMMA CappedChars ==
  ASSUME OutOK(out, last_space), NEW t \in Seq(Solid)
  PROVE  OutOK(Capped(out \o t), IF t = <<>> THEN last_space ELSE FALSE)
  <1> DEFINE s == out \o t
  <1>1. /\ s \in Seq(Printed) /\ Len(s) = Len(out) + Len(t)
        /\ \A k \in 1..Len(out) : s[k] = out[k]
        /\ \A k \in Len(out)+1..Len(s) : s[k] = t[k - Len(out)]
        /\ Len(out) \in Nat /\ Len(t) \in Nat
    <2>1. t \in Seq(Printed) /\ out \in Seq(Printed)
      BY Characters DEF OutOK
    <2>2. /\ s \in Seq(Printed) /\ Len(s) = Len(out) + Len(t)
          /\ \A k \in 1..Len(out) + Len(t) :
               s[k] = IF k <= Len(out) THEN out[k] ELSE t[k - Len(out)]
      BY <2>1, ConcatProperties
    <2> QED
      BY <2>1, <2>2
  <1> HIDE DEF s
  <1>2. \A k \in Len(out)+1..Len(s) : s[k] # Blank
    <2> SUFFICES ASSUME NEW k \in Len(out)+1..Len(s) PROVE s[k] # Blank
      OBVIOUS
    <2>1. k - Len(out) \in 1..Len(t) /\ s[k] = t[k - Len(out)]
      BY <1>1
    <2>2. t[k - Len(out)] \in Solid
      BY <2>1
    <2> QED
      BY <2>1, <2>2, Characters
  <1>3. ASSUME NEW k \in 1..Len(s), s[k] = Blank
        PROVE  k > 1 /\ s[k - 1] # Blank
    <2>1. k \in 1..Len(out) /\ out[k] = Blank
      BY <1>1, <1>2, <1>3
    <2>2. k > 1 /\ out[k - 1] # Blank
      BY <2>1 DEF OutOK
    <2>3. k - 1 \in 1..Len(out)
      BY <1>1, <2>1, <2>2
    <2> QED
      BY <1>1, <2>2, <2>3
  <1>4. ASSUME Len(s) < OutCap - 1, Len(s) > 0, s[Len(s)] = Blank
        PROVE  t = <<>> /\ last_space
    <2>1. Len(s) \in 1..Len(out) /\ out[Len(s)] = Blank
      BY <1>1, <1>2, <1>4
    <2>2. Len(t) = 0 /\ Len(s) = Len(out)
      BY <1>1, <2>1
    <2>3. last_space
      BY <1>1, <1>4, <2>1, <2>2, CapsOK DEF OutOK, Caps
    <2>4. t = <<>>
      BY <2>2, EmptySeq
    <2> QED
      BY <2>3, <2>4
  <1> QED
    BY <1>1, <1>3, <1>4, CappedOK DEF s

(* A label stays well-formed when a space is emitted.                      *)
LEMMA EmitSpaceOK ==
  ASSUME OutOK(out, last_space), EmitSpace
  PROVE  OutOK(out', last_space')
  BY CappedSpace DEF EmitSpace, OutOK

(* A label stays well-formed when solid characters are emitted.            *)
LEMMA EmitOK ==
  ASSUME OutOK(out, last_space), NEW s \in Seq(Solid),
         Emit(s)
  PROVE  OutOK(out', last_space')
  BY CappedChars DEF Emit

(* A label stays well-formed when the `?' of a literal is emitted.         *)
LEMMA EmitLiteralOK ==
  ASSUME OutOK(out, last_space), EmitLiteral
  PROVE  OutOK(out', last_space')
  <1>1. <<"?">> \in Seq(Solid)
    BY Characters
  <1> QED
    BY <1>1, EmitOK DEF EmitLiteral

(* An upper-cased identifier character is never a quote or a space.        *)
LEMMA UppercaseFit ==
  ASSUME NEW c, IsIdentifierChar(c)
  PROVE  Uppercase(c) \in Solid
  <1>1. Letters \cup Digits \cup {"_"} \subseteq Solid
    BY FingerprintAssumption
       DEF Letters, Digits, Printed, Solid, Quotes, Newlines, NUL, Blank
  <1>2. c \in Letters \cup Digits \cup {"_"}
    BY DEF IsIdentifierChar
  <1>3. Uppercase(c) \in Letters \cup Digits \cup {"_"}
    BY <1>2 DEF Uppercase, Letters
  <1> QED
    BY <1>1, <1>3

(* A label stays well-formed when a trailing space is taken off.           *)
LEMMA TrimmedOK ==
  ASSUME OutOK(out, last_space)
  PROVE  OutOK(Trimmed(out), last_space)
  <1>1. CASE out # <<>> /\ out[Len(out)] = Blank
    <2> DEFINE o == SubSeq(out, 1, Len(out) - 1)
    <2>1. Len(out) \in Nat \ {0} /\ Len(out) - 1 \in 0..Len(out)
      BY <1>1 DEF OutOK
    <2>a. \A k \in 1..Len(out) - 1 : out[k] \in Printed
      BY <2>1 DEF OutOK
    <2>b. /\ o \in Seq(Printed)
          /\ Len(o) = IF 1 <= Len(out) - 1 THEN Len(out) - 1 - 1 + 1 ELSE 0
          /\ \A k \in 1..Len(out) - 1 - 1 + 1 : o[k] = out[1 + k - 1]
      BY <2>1, <2>a, SubSeqProperties
    <2> HIDE DEF o
    <2>2. o \in Seq(Printed) /\ Len(o) = Len(out) - 1
      <3>1. CASE Len(out) = 1
        BY <2>b, <3>1
      <3>2. CASE Len(out) > 1
        BY <2>1, <2>b, <3>2
      <3>3. Len(out) = 1 \/ Len(out) > 1
        BY <2>1
      <3> QED
        BY <3>1, <3>2, <3>3
    <2>3. \A k \in 1..Len(o) : o[k] = out[k]
      BY <2>1, <2>2, <2>b
    <2>4. \A k \in 1..Len(o) : o[k] = Blank => k > 1 /\ o[k - 1] # Blank
      BY <2>1, <2>2, <2>3 DEF OutOK
    <2>5. o # <<>> => o[Len(o)] # Blank
      BY <1>1, <2>1, <2>2, <2>3 DEF OutOK
    <2>6. OutOK(o, last_space)
      BY <2>1, <2>2, <2>4, <2>5, CapsOK DEF OutOK, Caps
    <2> QED
      BY <1>1, <2>6, <2>1 DEF Trimmed, o
  <1>2. CASE ~(out # <<>> /\ out[Len(out)] = Blank)
    BY <1>2 DEF Trimmed
  <1> QED
    BY <1>1, <1>2

-----------------------------------------------------------------------------
(* Nothing is scanned at the start.                                        *)
LEMMA ScanInit == Init => ScanInd
  <1> SUFFICES ASSUME Init PROVE ScanInd
    OBVIOUS
  <1>1. stmt.memory \in Seq(Chars)
    BY FingerprintAssumption DEF Init
  <1>2. /\ <<>> \in Seq(Solid) /\ <<>> \in Seq(Printed)
        /\ Len(<<>>) = 0 /\ Len(<<>>) < TokenCap /\ Len(<<>>) < OutCap
    BY CapsOK DEF Caps
  <1>3. /\ token = <<>> /\ out = <<>> /\ len = 0 /\ i = 0 /\ mode = "idle"
        /\ quote # None /\ stmt \in Statements
    BY DEF Init, None
  <1>4. ScanInv
    BY <1>1, <1>2, <1>3 DEF ScanInv
  <1> QED
    BY <1>3, <1>4 DEF ScanInd

(* Every round of every loop keeps the scanner in its bounds.              *)
LEMMA ScanStep == ScanInd /\ [Next]_vars => ScanInd'
  <1> SUFFICES ASSUME ScanInd, [Next]_vars PROVE ScanInd'
    OBVIOUS
  <1>o. OutOK(out, last_space)
    BY DEF ScanInd, ScanInv, OutOK
  <1>t. /\ len \in 0..Len(stmt.memory) /\ i \in 0..len
        /\ stmt.memory \in Seq(Chars)
    BY FingerprintAssumption DEF ScanInd, ScanInv
  <1>a. /\ Ahead(0) = None <=> i >= len
        /\ Ahead(1) = None <=> i + 1 >= len
        /\ Ahead(0) # None => Ahead(0) \in Chars /\ Ahead(0) # NUL
    BY <1>t, AheadOK
  <1>k. ASSUME UNCHANGED stmt, UNCHANGED len, i' \in 0..len,
               mode' \in {"scan", "word", "done"} \cup Skips, quote' # None,
               token' = token \/ token' = <<>>, OutOK(out', last_space')
        PROVE  ScanInd'
    <2>1. token' \in Seq(Solid) /\ Len(token') < TokenCap
      <3>1. <<>> \in Seq(Solid) /\ Len(<<>>) < TokenCap
        BY CapsOK DEF Caps
      <3>2. token \in Seq(Solid) /\ Len(token) < TokenCap
        BY DEF ScanInd, ScanInv
      <3> QED
        BY <1>k, <3>1, <3>2
    <2>2. /\ len' \in 0..Len(stmt'.memory)
          /\ \A k \in 1..len' : stmt'.memory[k] # NUL
      BY <1>k DEF ScanInd, ScanInv
    <2>3. ScanInv'
      BY <1>k, <2>1, <2>2 DEF ScanInv, OutOK
    <2>4. mode' # "idle"
      BY <1>k DEF Skips
    <2> QED
      BY <1>k, <2>3, <2>4 DEF ScanInd
  <1>1. CASE Exec \/ PrepareRaw \/ PrepareRedacted
    <2> USE <1>1 DEF Exec, PrepareRaw, PrepareRedacted, InternWhole, call
    <2>1. OutOK(out', last_space')
      BY <1>o
    <2>2. /\ UNCHANGED stmt /\ UNCHANGED len /\ UNCHANGED token
          /\ mode' = "done" /\ i' = i /\ quote' = quote
      OBVIOUS
    <2> QED
      BY <1>k, <1>t, <2>1, <2>2 DEF ScanInd
  <1>2. CASE PrepareScan
    <2> USE <1>2 DEF PrepareScan
    <2>1. i = 0
      BY DEF ScanInd
    <2>2. /\ len' \in 0..Len(stmt.memory)
          /\ \A k \in 1..len' : stmt.memory[k] # NUL
      BY StatementLenOK DEF ScanInd
    <2> QED
      BY <2>1, <2>2 DEF ScanInd, ScanInv
  <1>3. CASE TakeOne
    <2> USE <1>3 DEF TakeOne, call
    <2>1. EmitSpace => OutOK(out', last_space')
      BY <1>o, EmitSpaceOK
    <2>2. ASSUME Branch = "other", Emit(<<Ahead(0)>>)
          PROVE  OutOK(out', last_space')
      <3>1. Ahead(0) \in Solid
        BY <1>a, <2>2 DEF Branch, Printed, Solid, Space, Newlines
      <3>2. <<Ahead(0)>> \in Seq(Solid)
        BY <3>1
      <3> QED
        BY <1>o, <2>2, <3>2, EmitOK
    <2>3. OutOK(out', last_space')
      BY <2>1, <2>2
    <2>4. i' \in 0..len
      BY <1>a, <1>t
    <2> QED
      BY <1>k, <2>3, <2>4 DEF ScanInd
  <1>4. CASE StartLoop
    <2> USE <1>4 DEF StartLoop, call
    <2>1. Branch \in {"line", "block", "blob"} => Ahead(1) # None
      BY DEF Branch, None
    <2>2. i' \in 0..len
      BY <1>a, <1>t, <2>1
    <2>3. quote' # None
      BY DEF ScanInd, None
    <2> QED
      BY <1>k, <1>o, <2>2, <2>3
  <1>5. CASE SkipOn
    <2> USE <1>5 DEF SkipOn, call
    <2>1. /\ Round \in {0, 1, 2}
          /\ Round = 1 => Ahead(0) # None
          /\ Round = 2 => Ahead(0) # None /\ Ahead(1) # None
      <3>1. quote # None
        BY DEF ScanInd
      <3>2. CASE Ahead(0) = None
        BY <3>2 DEF Round
      <3>3. CASE Ahead(0) # None /\ mode \in {"line", "block", "bracket", "number", "parameter"}
        BY <3>3 DEF Round
      <3>4. CASE Ahead(0) # None /\ mode \notin {"line", "block", "bracket", "number", "parameter"}
        BY <3>1, <3>4 DEF Round
      <3> QED
        BY <3>2, <3>3, <3>4
    <2>2. i' \in 0..len
      BY <1>a, <1>t, <2>1
    <2> QED
      BY <1>k, <1>o, <2>2 DEF ScanInd, ScanInv
  <1>6. CASE SkipEnds
    <2> USE <1>6 DEF SkipEnds, call
    <2>1. OutOK(out', last_space')
      BY <1>o, EmitSpaceOK, EmitLiteralOK
    <2>2. /\ Closing \in {0, 1, 2}
          /\ Closing = 1 => Ahead(0) # None
          /\ Closing = 2 => Ahead(0) # None /\ Ahead(1) # None
      <3>1. CASE Ahead(0) = None
        BY <3>1 DEF Closing
      <3>2. CASE Ahead(0) # None /\ mode = "block"
        <4>1. Ahead(1) = "/"
          BY <3>2 DEF Round
        <4> QED
          BY <3>2, <4>1 DEF Closing, None
      <3>3. CASE Ahead(0) # None /\ mode # "block"
        BY <3>3 DEF Closing
      <3> QED
        BY <3>1, <3>2, <3>3
    <2>3. i' \in 0..len
      BY <1>a, <1>t, <2>2
    <2> QED
      BY <1>k, <2>1, <2>3 DEF ScanInd
  <1>7. CASE WordOn
    <2> USE <1>7 DEF WordOn, call
    <2>1. Ahead(0) # None
      BY DEF IsIdentifierChar, Letters, Digits, None
    <2>2. i' \in 0..len
      BY <1>a, <1>t, <2>1
    <2>3. Uppercase(Ahead(0)) \in Solid
      BY UppercaseFit
    <2>4. /\ token' \in Seq(Solid)
          /\ Len(token') < TokenCap
      BY <2>3, CapsOK DEF ScanInd, ScanInv, Caps
    <2> QED
      BY <2>2, <2>4 DEF ScanInd, ScanInv
  <1>8. CASE WordEnds
    <2> USE <1>8 DEF WordEnds, call
    <2>1. token \in Seq(Solid)
      BY DEF ScanInd, ScanInv
    <2>2. OutOK(out', last_space')
      BY <1>o, <2>1, EmitLiteralOK, EmitOK
    <2> QED
      BY <1>k, <1>t, <2>2 DEF ScanInd
  <1>9. CASE InternLabel
    <2> USE <1>9 DEF InternLabel, call
    <2>1. OutOK(out', last_space')
      BY <1>o, TrimmedOK
    <2> QED
      BY <1>k, <1>t, <2>1 DEF ScanInd
  <1>10. CASE UNCHANGED vars
    BY <1>10 DEF vars, call, ScanInd, ScanInv
  <1> QED
    BY <1>1, <1>2, <1>3, <1>4, <1>5, <1>6, <1>7, <1>8, <1>9, <1>10 DEF Next, Scan

(* The loops of intern_fingerprinted_sql read nothing behind the statement *)
(* and write nothing behind normalized and token, whatever the statement,  *)
(* its length argument and the sizes of the buffers are.                   *)
THEOREM ScanSafe == Spec => []ScanInv
  <1>1. ScanInd => ScanInv
    BY DEF ScanInd
  <1> QED
    BY <1>1, ScanInit, ScanStep, PTL DEF Spec

-----------------------------------------------------------------------------
(* The lexemes of a statement, and the text of each.                       *)
Lexeme == [kind : STRING, text : Seq(Chars)]

(* The lexemes of a statement are texts of one character or more.          *)
LEMMA LexemesAre ==
  ASSUME NEW s \in Statements
  PROVE  /\ s.lexemes \in Seq(LexemeType) /\ s.lexemes \in Seq(Lexeme)
         /\ Len(s.lexemes) \in Nat
         /\ \A k \in 1..Len(s.lexemes) :
              /\ s.lexemes[k] \in LexemeType /\ s.lexemes[k] \in Lexeme
              /\ s.lexemes[k].text \in Seq(Chars \ {NUL})
              /\ s.lexemes[k].text # <<>>
              /\ Len(s.lexemes[k].text) \in Nat \ {0}
<1>1. s.lexemes \in Seq(LexemeType)
  BY LexemesAssumption DEF Lexed
<1>2. \A k \in 1..Len(s.lexemes) : s.lexemes[k].text # <<>>
  BY LexemesAssumption DEF Lexed
<1>3. LexemeType \subseteq Lexeme
  <2>1. Seq(Chars \ {NUL}) \subseteq Seq(Chars)
    BY SeqMonotonic
  <2> QED BY <2>1 DEF LexemeType, Lexeme
<1>4. s.lexemes \in Seq(Lexeme)
  BY <1>1, <1>3, SeqMonotonic
<1>5. ASSUME NEW k \in 1..Len(s.lexemes)
      PROVE  /\ s.lexemes[k] \in LexemeType /\ s.lexemes[k] \in Lexeme
             /\ s.lexemes[k].text \in Seq(Chars \ {NUL})
             /\ s.lexemes[k].text # <<>>
             /\ Len(s.lexemes[k].text) \in Nat \ {0}
  <2>1. s.lexemes[k] \in LexemeType
    BY <1>1, ElementOfSeq
  <2>2. s.lexemes[k].text \in Seq(Chars \ {NUL})
    BY <2>1 DEF LexemeType
  <2>3. Len(s.lexemes[k].text) \in Nat \ {0}
    BY <1>2, <2>2, EmptySeq
  <2> QED BY <1>2, <1>3, <2>1, <2>2, <2>3
<1>6. Len(s.lexemes) \in Nat
  BY <1>1, LenProperties
<1> QED BY <1>1, <1>4, <1>5, <1>6

(* Upto counts the characters before and in each lexeme.                   *)
LEMMA UptoCounts ==
  ASSUME NEW s \in Statements
  PROVE  LET n == Upto(s.lexemes) IN
         /\ n[0] = 0
         /\ \A k \in 1..Len(s.lexemes) :
              n[k] = n[k - 1] + Len(s.lexemes[k].text)
         /\ \A k \in 0..Len(s.lexemes) : n[k] \in Nat
<1> DEFINE x == s.lexemes
           D == 0..Len(x)
           size == [k \in D |-> IF k = 0 THEN 0 ELSE Len(x[k].text)]
           Eqn(n) == n = [k \in D |-> IF k = 0 THEN 0 ELSE n[k - 1] + Len(x[k].text)]
           Stop == {0}
           stop == [k \in D |-> 0]
           join == [k \in D |-> [v \in Nat |-> v + size[k]]]
           next == [k \in D |-> IF k = 0 THEN 0 ELSE k - 1]
           measure == [k \in D |-> k]
<1>1. /\ Len(x) \in Nat
      /\ \A k \in 1..Len(x) : Len(x[k].text) \in Nat
  BY LexemesAre
<1> HIDE DEF x
<1>2. /\ stop \in [D -> Nat] /\ next \in [D -> D] /\ measure \in [D -> Nat]
      /\ size \in [D -> Nat]
  BY <1>1
<1>3. join \in [D -> [Nat -> Nat]]
  <2> HIDE DEF size
  <2> QED BY <1>2
<1>4. Descends(D, Stop, next, measure)
  BY <1>1 DEF Descends
<1>5. PICK f \in [D -> Nat] : Recurs(f, D, Stop, stop, join, next)
  <2> HIDE DEF D, Stop, stop, join, next, measure
  <2> QED BY ONLY <1>2, <1>3, <1>4, RecursionDefines
<1>6. ASSUME NEW k \in D
      PROVE  f[k] = IF k = 0 THEN 0 ELSE f[k - 1] + Len(x[k].text)
  <2>1. f[k] = IF k \in Stop THEN stop[k] ELSE join[k][f[next[k]]]
    <3> HIDE DEF D, Stop, stop, join, next
    <3> QED BY <1>5 DEF Recurs
  <2>2. CASE k = 0
    BY <2>1, <2>2
  <2>3. CASE k # 0
    <3>1. k - 1 \in D /\ next[k] = k - 1 /\ f[k - 1] \in Nat
      BY <1>1, <2>3
    <3>2. \A v \in Nat : join[k][v] = v + Len(x[k].text)
      BY <2>3
    <3> HIDE DEF join, next, D
    <3> QED BY <2>1, <2>3, <3>1, <3>2
  <2> QED BY <2>2, <2>3
<1>7. Eqn(f)
  <2> HIDE DEF D
  <2> QED BY <1>6
<1> DEFINE n == CHOOSE n : Eqn(n)
<1>8. Eqn(n)
  BY <1>7, Zenon
<1>9. Upto(x) = n
  BY Zenon DEF Upto
<1> HIDE DEF n
<1>10. \A k \in D : n[k] = IF k = 0 THEN 0 ELSE n[k - 1] + Len(x[k].text)
  BY <1>8
<1>11. n[0] = 0 /\ \A k \in 1..Len(x) : n[k] = n[k - 1] + Len(x[k].text)
  BY <1>1, <1>10
<1>12. \A k \in 0..Len(x) : n[k] \in Nat
  <2> DEFINE S == {k \in Nat : k <= Len(x) => n[k] \in Nat}
  <2>1. 0 \in S
    BY <1>11
  <2>2. ASSUME NEW k \in Nat, k \in S PROVE k + 1 \in S
    <3>1. k + 1 <= Len(x) => k + 1 \in 1..Len(x) /\ k <= Len(x) /\ (k + 1) - 1 = k
      BY <1>1
    <3> QED BY <1>1, <1>11, <2>2, <3>1
  <2> HIDE DEF S
  <2>3. \A k \in Nat : k \in S
    BY <2>1, <2>2, Induction
  <2> QED BY <1>1, <2>3 DEF S
<1> QED BY <1>9, <1>11, <1>12 DEF x

(* A lexeme more is a character more at least.                             *)
LEMMA UptoGrows ==
  ASSUME NEW s \in Statements,
         NEW j \in 0..Len(s.lexemes), NEW k \in 0..Len(s.lexemes), j < k
  PROVE  Upto(s.lexemes)[j] < Upto(s.lexemes)[k]
<1> DEFINE n == Upto(s.lexemes)
           N == Len(s.lexemes)
           S == {d \in Nat : j + d + 1 <= N => n[j] < n[j + d + 1]}
<1>1. /\ \A m \in 1..N : n[m] = n[m - 1] + Len(s.lexemes[m].text)
                          /\ Len(s.lexemes[m].text) \in Nat \ {0}
      /\ \A m \in 0..N : n[m] \in Nat
      /\ N \in Nat
  BY UptoCounts, LexemesAre
<1> HIDE DEF n, N
<1>2. ASSUME NEW m \in 1..N PROVE n[m - 1] < n[m]
  <2> DEFINE d == Len(s.lexemes[m].text)
  <2>1. /\ n[m] = n[m - 1] + d /\ d \in Nat \ {0}
        /\ m - 1 \in 0..N /\ n[m - 1] \in Nat
    BY <1>1
  <2> HIDE DEF d
  <2> QED BY <2>1
<1>3. 0 \in S
  <2>1. j + 1 <= N => j + 1 \in 1..N /\ (j + 1) - 1 = j
    BY <1>1
  <2> QED BY <1>2, <2>1
<1>4. ASSUME NEW d \in Nat, d \in S PROVE d + 1 \in S
  <2> SUFFICES ASSUME j + (d + 1) + 1 <= N PROVE n[j] < n[j + (d + 1) + 1]
    OBVIOUS
  <2>1. /\ j + d + 2 \in 1..N /\ (j + d + 2) - 1 = j + d + 1
        /\ j + d + 1 \in 0..N /\ j \in 0..N /\ j + (d + 1) + 1 = j + d + 2
    BY <1>1 DEF N
  <2>2. n[j] < n[j + d + 1] /\ n[j + d + 1] < n[j + d + 2]
    BY <1>2, <1>4, <2>1
  <2>3. n[j] \in Nat /\ n[j + d + 1] \in Nat /\ n[j + d + 2] \in Nat
    BY <1>1, <2>1
  <2> QED BY <2>1, <2>2, <2>3
<1> HIDE DEF S
<1>5. \A d \in Nat : d \in S
  BY <1>3, <1>4, Induction
<1>6. k - j - 1 \in Nat /\ j + (k - j - 1) + 1 = k /\ k <= N
  BY DEF N
<1>7. n[j] < n[j + (k - j - 1) + 1]
  BY <1>5, <1>6 DEF S
<1> QED BY <1>6, <1>7 DEF n

-----------------------------------------------------------------------------
(* Shapes one after the other.                                             *)
Joined(before, last) ==
  IF last = <<Blank>> /\ (before = <<>> \/ before[Len(before)] = Blank)
  THEN before ELSE before \o last

(* What a lexeme stands for in the label is a text.                        *)
LEMMA ShapeFits ==
  ASSUME NEW x \in Lexeme
  PROVE  Shape(x) \in Seq(Chars)
<1>1. <<Blank>> \in Seq(Chars) /\ <<"?">> \in Seq(Chars)
  <2>1. Blank \in Chars /\ "?" \in Chars
    BY FingerprintAssumption DEF Space, Newlines
  <2> QED BY <2>1
<1>2. x.text \in Seq(Chars) /\ Len(x.text) \in Nat
  BY LenProperties DEF Lexeme
<1> DEFINE n == IF Len(x.text) < TokenCap THEN Len(x.text) ELSE TokenCap - 1
<1>3. n \in Nat /\ n <= Len(x.text)
  BY <1>2, CapsOK DEF Caps
<1>4. \A k \in 1..n : Uppercase(x.text[k]) \in Chars
  <2>1. \A k \in 1..n : x.text[k] \in Chars
    BY <1>2, <1>3
  <2>2. \A c \in Chars : Uppercase(c) \in Chars
    BY FingerprintAssumption DEF Uppercase, Letters
  <2> QED BY <2>1, <2>2
<1>5. [k \in 1..n |-> Uppercase(x.text[k])] \in Seq(Chars)
  <2> HIDE DEF n
  <2> QED BY <1>3, <1>4
<1> QED BY <1>1, <1>2, <1>5 DEF Shape

(* The recursive definition of Shapes has the meaning it reads as.         *)
LEMMA ShapesRecur ==
  /\ Shapes[<<>>] = <<>>
  /\ \A s \in Seq(Lexeme) :
       /\ Shapes[s] \in Seq(Chars)
       /\ s # <<>> => Shapes[s] = Joined(Shapes[SubSeq(s, 1, Len(s) - 1)],
                                         Shape(s[Len(s)]))
<1> DEFINE D == Seq(Lexeme)
           V == Seq(Chars)
           front(s) == SubSeq(s, 1, Len(s) - 1)
           Eqn(f) == f = [s \in D |->
             IF s = <<>> THEN <<>>
             ELSE LET before == f[SubSeq(s, 1, Len(s) - 1)]
                      last == Shape(s[Len(s)])
                  IN  IF last = <<Blank>> /\ (before = <<>> \/ before[Len(before)] = Blank)
                      THEN before ELSE before \o last]
           Stop == {<<>>}
           stop == [s \in D |-> <<>>]
           join == [s \in D |-> [v \in V |->
                      IF s = <<>> THEN v ELSE Joined(v, Shape(s[Len(s)]))]]
           next == [s \in D |-> IF s = <<>> THEN s ELSE front(s)]
           measure == [s \in D |-> Len(s)]
<1>1. ASSUME NEW s \in D, s # <<>>
      PROVE  /\ front(s) \in D /\ Len(front(s)) < Len(s)
             /\ s[Len(s)] \in Lexeme
  <2> HIDE DEF D
  <2>1. Len(s) \in Nat \ {0} /\ \A k \in 1..Len(s) : s[k] \in Lexeme
    BY <1>1, EmptySeq, ElementOfSeq DEF D
  <2>2. \A k \in 1..Len(s)-1 : s[k] \in Lexeme
    BY <2>1
  <2>3. /\ front(s) \in Seq(Lexeme)
        /\ Len(front(s)) = IF 1 <= Len(s) - 1 THEN (Len(s) - 1) - 1 + 1 ELSE 0
    <3>1. 1 \in Int /\ Len(s) - 1 \in Int
      BY <2>1
    <3> HIDE DEF Lexeme
    <3> QED BY <2>2, <3>1, SubSeqProperties
  <2>4. Len(front(s)) < Len(s)
    <3> HIDE DEF front
    <3> QED BY <2>1, <2>3
  <2> QED BY <2>1, <2>3, <2>4 DEF D
<1>2. \A s \in D : Len(s) \in Nat
  BY LenProperties
<1>3. <<>> \in V /\ <<>> \in D
  BY EmptySeq
<1>4. ASSUME NEW v \in V, NEW s \in D, s # <<>>
      PROVE  Joined(v, Shape(s[Len(s)])) \in V
  <2>1. Shape(s[Len(s)]) \in V
    BY <1>1, <1>4, ShapeFits
  <2>2. v \o Shape(s[Len(s)]) \in V
    BY <2>1, ConcatProperties
  <2> QED BY <2>2 DEF Joined
<1> HIDE DEF D, V, front
<1>5. stop \in [D -> V] /\ next \in [D -> D] /\ measure \in [D -> Nat]
  BY <1>1, <1>2, <1>3
<1>6. join \in [D -> [V -> V]]
  BY <1>4
<1>7. Descends(D, Stop, next, measure)
  BY <1>1 DEF Descends
<1>8. PICK f \in [D -> V] : Recurs(f, D, Stop, stop, join, next)
  <2> HIDE DEF Stop, stop, join, next, measure
  <2> QED BY ONLY <1>5, <1>6, <1>7, RecursionDefines
<1>9. ASSUME NEW s \in D
      PROVE  f[s] = IF s = <<>> THEN <<>>
                    ELSE Joined(f[front(s)], Shape(s[Len(s)]))
  <2>1. f[s] = IF s \in Stop THEN stop[s] ELSE join[s][f[next[s]]]
    <3> HIDE DEF Stop, stop, join, next
    <3> QED BY <1>8 DEF Recurs
  <2>2. CASE s = <<>>
    BY <2>1, <2>2
  <2>3. CASE s # <<>>
    <3>1. front(s) \in D /\ next[s] = front(s) /\ f[front(s)] \in V
      BY <1>1, <2>3
    <3>2. \A v \in V : join[s][v] = Joined(v, Shape(s[Len(s)]))
      BY <2>3
    <3> HIDE DEF join, next
    <3> QED BY <2>1, <2>3, <3>1, <3>2
  <2> QED BY <2>2, <2>3
<1>10. Eqn(f)
  BY <1>9 DEF Joined, front
<1> DEFINE g == CHOOSE h : Eqn(h)
<1>11. Eqn(g)
  BY <1>10, Zenon
<1>12. Shapes = g
  BY Zenon DEF Shapes, D, Lexeme
<1> HIDE DEF g
<1>13. \A s \in D : Shapes[s] = IF s = <<>> THEN <<>>
                    ELSE Joined(Shapes[front(s)], Shape(s[Len(s)]))
  BY <1>11, <1>12 DEF Joined, front
<1>14. \A s \in D : Shapes[s] \in V
  <2> DEFINE S == {n \in Nat : \A s \in D : Len(s) = n => Shapes[s] \in V}
             T == {n \in Nat : \A m \in Nat : m <= n => m \in S}
  <2>1. \A s \in D : Len(s) = 0 => s = <<>>
    BY EmptySeq DEF D
  <2>2. 0 \in T
    <3>1. 0 \in S
      BY <1>3, <1>13, <2>1
    <3> HIDE DEF S
    <3> QED BY <3>1
  <2>3. ASSUME NEW n \in Nat, n \in T PROVE n + 1 \in T
    <3>1. n + 1 \in S
      <4> SUFFICES ASSUME NEW s \in D, Len(s) = n + 1 PROVE Shapes[s] \in V
        OBVIOUS
      <4>1. s # <<>>
        BY EmptySeq
      <4>2. front(s) \in D /\ Len(front(s)) \in Nat /\ Len(front(s)) <= n
        BY <1>1, <1>2, <4>1
      <4>3. Len(front(s)) \in S
        BY <2>3, <4>2
      <4>4. Shapes[front(s)] \in V
        BY <4>2, <4>3
      <4> QED BY <1>4, <1>13, <4>1, <4>4
    <3> HIDE DEF S
    <3> QED BY <2>3, <3>1
  <2> HIDE DEF T
  <2>4. \A n \in Nat : n \in T
    BY <2>2, <2>3, Induction
  <2> QED BY <1>2, <2>4 DEF T
<1>15. Shapes[<<>>] = <<>>
  BY <1>3, <1>13
<1> QED BY <1>13, <1>14, <1>15 DEF D, V, front

(* So the shapes of k lexemes are those of k - 1 and the last one.         *)
Before(s, k) == Shapes[SubSeq(s.lexemes, 1, k)]

(* k lexemes stand for what k - 1 do, joined with the last one's shape.    *)
LEMMA ShapesOfPrefixes ==
  ASSUME NEW s \in Statements
  PROVE  /\ Before(s, 0) = <<>>
         /\ \A k \in 0..Len(s.lexemes) : Before(s, k) \in Seq(Chars)
         /\ \A k \in 1..Len(s.lexemes) :
              Before(s, k) = Joined(Before(s, k - 1), Shape(s.lexemes[k]))
         /\ Before(s, Len(s.lexemes)) = Shapes[s.lexemes]
<1> DEFINE x == s.lexemes
<1>1. x \in Seq(Lexeme) /\ Len(x) \in Nat
  BY LexemesAre
<1> HIDE DEF x
<1>2. ASSUME NEW k \in 0..Len(x)
      PROVE  /\ SubSeq(x, 1, k) \in Seq(Lexeme) /\ Len(SubSeq(x, 1, k)) = k
             /\ \A m \in 1..k : SubSeq(x, 1, k)[m] = x[m]
  <2>1. \A m \in 1..k : x[m] \in Lexeme
    BY <1>1, ElementOfSeq
  <2>2. 1 \in Int /\ k \in Int
    BY <1>1
  <2>3. /\ SubSeq(x, 1, k) \in Seq(Lexeme)
        /\ Len(SubSeq(x, 1, k)) = IF 1 <= k THEN k - 1 + 1 ELSE 0
        /\ \A m \in 1..k - 1 + 1 : SubSeq(x, 1, k)[m] = x[1 + m - 1]
    <3> HIDE DEF Lexeme
    <3> QED BY <2>1, <2>2, SubSeqProperties
  <2> DEFINE p == SubSeq(x, 1, k)
  <2> HIDE DEF p
  <2>4. Len(p) = k /\ \A m \in 1..k : p[m] = x[m]
    BY <1>1, <2>2, <2>3 DEF p
  <2> QED BY <2>3, <2>4 DEF p
<1>3. SubSeq(x, 1, 0) = <<>>
  BY SubSeqEmpty
<1>4. SubSeq(x, 1, Len(x)) = x
  BY <1>1, SubSeqFull
<1>5. ASSUME NEW k \in 1..Len(x)
      PROVE  Shapes[SubSeq(x, 1, k)] = Joined(Shapes[SubSeq(x, 1, k - 1)], Shape(x[k]))
  <2> DEFINE p == SubSeq(x, 1, k)
  <2>1. k \in 0..Len(x) /\ k \in 1..k /\ k - 1 \in 1..k \cup {0}
    BY <1>1
  <2>2. p \in Seq(Lexeme) /\ Len(p) = k /\ p[k] = x[k]
    BY <1>2, <2>1
  <2>3. p # <<>>
    BY <2>1, <2>2, EmptySeq
  <2>4. SubSeq(p, 1, k - 1) = SubSeq(x, 1, k - 1)
    <3> DEFINE q == SubSeq(p, 1, k - 1)
               r == SubSeq(x, 1, k - 1)
    <3>1. k - 1 \in 0..Len(x) /\ k - 1 \in Int /\ 1 \in Int
      BY <1>1
    <3>2. r \in Seq(Lexeme) /\ Len(r) = k - 1 /\ \A m \in 1..k-1 : r[m] = x[m]
      BY <1>2, <3>1
    <3>3. \A m \in 1..k-1 : p[m] = x[m] /\ p[m] \in Lexeme
      <4>1. \A m \in 1..k-1 : m \in 1..k /\ m \in 1..Len(x)
        BY <1>1
      <4>2. \A m \in 1..k : p[m] = x[m]
        BY <1>2, <2>1
      <4>3. \A m \in 1..Len(x) : x[m] \in Lexeme
        BY <1>1, ElementOfSeq
      <4> QED BY <4>1, <4>2, <4>3
    <3>4. /\ q \in Seq(Lexeme)
          /\ Len(q) = IF 1 <= k - 1 THEN (k - 1) - 1 + 1 ELSE 0
          /\ \A m \in 1..(k - 1) - 1 + 1 : q[m] = p[1 + m - 1]
      <4> HIDE DEF Lexeme, p
      <4> QED BY <3>1, <3>3, SubSeqProperties
    <3> HIDE DEF p, q, r
    <3>5. Len(q) = k - 1 /\ \A m \in 1..k-1 : q[m] = p[m]
      BY <1>1, <3>4
    <3>6. Len(q) = Len(r) /\ \A m \in 1..Len(q) : q[m] = r[m]
      BY <3>2, <3>3, <3>5
    <3>7. q = r
      <4> HIDE DEF Lexeme
      <4> QED BY <3>2, <3>4, <3>6, SeqEqual
    <3> QED BY <3>7 DEF q, r
  <2> HIDE DEF p
  <2>5. Shapes[p] = Joined(Shapes[SubSeq(p, 1, Len(p) - 1)], Shape(p[Len(p)]))
    BY <2>2, <2>3, ShapesRecur
  <2> QED BY <2>2, <2>4, <2>5 DEF p
<1>6. \A k \in 0..Len(x) : Shapes[SubSeq(x, 1, k)] \in Seq(Chars)
  BY <1>2, ShapesRecur
<1> QED BY <1>3, <1>4, <1>5, <1>6, ShapesRecur DEF Before, x

-----------------------------------------------------------------------------
(* The label holds s as far as it fits, and sp tells of a space at the end *)
(* of s.                                                                   *)
Shows(o, sp, s) ==
  /\ o = Capped(s)
  /\ sp = (s # <<>> /\ s[Len(s)] = Blank)

CapsTwo == OutCap \in Nat /\ OutCap > 1

(* The output buffer has room for more than its NUL.                       *)
LEMMA CapsTwoOK == CapsTwo
  BY FingerprintAssumption, LexemesAssumption DEF CapsTwo

(* A capped text is the text, or the part of it that there is room for.    *)
LEMMA CappedIs ==
  ASSUME NEW s \in Seq(Chars)
  PROVE  /\ Capped(s) \in Seq(Chars)
         /\ Len(s) < OutCap => Capped(s) = s
         /\ ~(Len(s) < OutCap) => Len(Capped(s)) = OutCap - 1
         /\ \A k \in 1..Len(Capped(s)) : k <= Len(s) /\ Capped(s)[k] = s[k]
<1> DEFINE n == IF Len(s) < OutCap THEN Len(s) ELSE OutCap - 1
<1>1. n \in Nat /\ n <= Len(s) /\ Len(s) \in Nat
  BY CapsTwoOK, LenProperties DEF CapsTwo
<1>2. \A k \in 1..n : s[k] \in Chars
  BY <1>1
<1>3. Capped(s) = SubSeq(s, 1, n)
  BY DEF Capped
<1>4. Len(s) < OutCap => Capped(s) = s
  BY SubSeqFull DEF Capped
<1>5. ~(Len(s) < OutCap) => n = OutCap - 1
  OBVIOUS
<1> HIDE DEF n
<1>6. /\ SubSeq(s, 1, n) \in Seq(Chars)
      /\ Len(SubSeq(s, 1, n)) = IF 1 <= n THEN n - 1 + 1 ELSE 0
      /\ \A k \in 1..n - 1 + 1 : SubSeq(s, 1, n)[k] = s[1 + k - 1]
  <2>1. 1 \in Int /\ n \in Int
    BY <1>1
  <2> QED BY <1>2, <2>1, SubSeqProperties
<1> DEFINE p == SubSeq(s, 1, n)
<1>7. p \in Seq(Chars) /\ Len(p) = n /\ \A k \in 1..n : p[k] = s[k]
  <2> HIDE DEF p
  <2> QED BY <1>1, <1>6 DEF p
<1> HIDE DEF p
<1> QED BY <1>1, <1>3, <1>4, <1>5, <1>7 DEF p

(* What is cut off once makes no difference to what is cut off later.      *)
LEMMA CappedTwice ==
  ASSUME NEW s \in Seq(Chars), NEW t \in Seq(Chars)
  PROVE  Capped(Capped(s) \o t) = Capped(s \o t)
<1>1. CASE Len(s) < OutCap
  BY <1>1, CappedIs
<1>2. CASE ~(Len(s) < OutCap)
  <2> DEFINE a == Capped(s)
             b == a \o t
             c == s \o t
  <2>1. /\ a \in Seq(Chars) /\ Len(a) = OutCap - 1 /\ Len(a) \in Nat
        /\ \A k \in 1..Len(a) : a[k] = s[k]
        /\ Len(s) \in Nat /\ Len(t) \in Nat
    BY <1>2, CappedIs, LenProperties
  <2> HIDE DEF a
  <2>2. /\ b \in Seq(Chars) /\ Len(b) = Len(a) + Len(t)
        /\ \A k \in 1..Len(a) + Len(t) :
             b[k] = IF k <= Len(a) THEN a[k] ELSE t[k - Len(a)]
    BY <2>1, ConcatProperties
  <2>3. /\ c \in Seq(Chars) /\ Len(c) = Len(s) + Len(t)
        /\ \A k \in 1..Len(s) + Len(t) :
             c[k] = IF k <= Len(s) THEN s[k] ELSE t[k - Len(s)]
    BY <2>1, ConcatProperties
  <2> HIDE DEF b, c
  <2>4. ASSUME NEW k \in 1..OutCap-1 PROVE b[k] = s[k] /\ c[k] = s[k]
    <3>1. /\ k \in 1..Len(a) /\ k \in 1..Len(a) + Len(t) /\ k <= Len(a)
          /\ k \in 1..Len(s) + Len(t) /\ k <= Len(s)
      BY <1>2, <2>1, CapsTwoOK DEF CapsTwo
    <3> QED BY <2>1, <2>2, <2>3, <3>1
  <2>5. /\ Capped(b) \in Seq(Chars) /\ Len(Capped(b)) = OutCap - 1
        /\ \A k \in 1..OutCap-1 : Capped(b)[k] = b[k]
    <3>1. CASE Len(b) < OutCap
      <4>1. Capped(b) = b /\ Len(b) = OutCap - 1
        BY <2>1, <2>2, <3>1, CappedIs, CapsTwoOK DEF CapsTwo
      <4> QED BY <2>2, <4>1
    <3>2. CASE ~(Len(b) < OutCap)
      BY <2>2, <3>2, CappedIs
    <3> QED BY <3>1, <3>2
  <2>6. /\ Capped(c) \in Seq(Chars) /\ Len(Capped(c)) = OutCap - 1
        /\ \A k \in 1..OutCap-1 : Capped(c)[k] = c[k]
    <3>1. ~(Len(c) < OutCap)
      BY <1>2, <2>1, <2>3, CapsTwoOK DEF CapsTwo
    <3> QED BY <2>3, <3>1, CappedIs
  <2>7. Capped(b) = Capped(c)
    <3>1. \A k \in 1..Len(Capped(b)) : Capped(b)[k] = Capped(c)[k]
      BY <2>4, <2>5, <2>6
    <3> QED BY <2>5, <2>6, <3>1, SeqEqual
  <2> QED BY <2>7 DEF a, b, c
<1> QED BY <1>1, <1>2

(* Capping makes no text empty.                                            *)
LEMMA CappedEmpty ==
  ASSUME NEW s \in Seq(Chars)
  PROVE  Capped(s) = <<>> <=> s = <<>>
<1>1. Len(<<>>) = 0 /\ (Len(s) = 0 => s = <<>>) /\ Len(s) \in Nat
  BY EmptySeq, LenProperties
<1>2. CASE Len(s) < OutCap
  BY <1>2, CappedIs
<1>3. CASE ~(Len(s) < OutCap)
  <2>1. Len(Capped(s)) = OutCap - 1 /\ OutCap - 1 # 0
    BY <1>3, CappedIs, CapsTwoOK DEF CapsTwo
  <2>2. Len(s) # 0
    BY <1>3, CapsTwoOK DEF CapsTwo
  <2> QED BY <1>1, <2>1, <2>2
<1> QED BY <1>2, <1>3

(* What blanks and literals stand for are texts.                           *)
LEMMA SpaceShape == <<Blank>> \in Seq(Chars) /\ <<"?">> \in Seq(Chars)
<1>1. Blank \in Chars /\ "?" \in Chars
  BY FingerprintAssumption DEF Space, Newlines
<1> QED BY <1>1

(* EmitSpace puts the shape of a space behind what is there.               *)
LEMMA EmitSpaceShows ==
  ASSUME NEW s \in Seq(Chars), Shows(out, last_space, s), EmitSpace
  PROVE  Shows(out', last_space', Joined(s, <<Blank>>))
<1>1. out = <<>> <=> s = <<>>
  BY CappedEmpty DEF Shows
<1>2. CASE s = <<>> \/ last_space
  <2>1. Joined(s, <<Blank>>) = s
    BY <1>2 DEF Joined, Shows
  <2>2. out' = out /\ last_space' = last_space
    BY <1>1, <1>2 DEF EmitSpace
  <2> QED BY <2>1, <2>2 DEF Shows
<1>3. CASE ~(s = <<>> \/ last_space)
  <2> DEFINE t == s \o <<Blank>>
  <2>1. Joined(s, <<Blank>>) = t
    BY <1>3 DEF Joined, Shows
  <2>2. out' = Capped(Append(out, Blank)) /\ last_space' = TRUE
    BY <1>1, <1>3 DEF EmitSpace
  <2>3. out \in Seq(Chars) /\ out = Capped(s)
    BY CappedIs DEF Shows
  <2>4. Append(out, Blank) = out \o <<Blank>>
    BY <2>3
  <2>5. out' = Capped(t)
    BY <2>2, <2>3, <2>4, CappedTwice, SpaceShape
  <2>6. t # <<>> /\ t[Len(t)] = Blank
    <3>1. /\ Len(t) = Len(s) + Len(<<Blank>>)
          /\ \A k \in 1..Len(s) + Len(<<Blank>>) :
               t[k] = IF k <= Len(s) THEN s[k] ELSE <<Blank>>[k - Len(s)]
      BY SpaceShape, ConcatProperties
    <3>2. Len(s) \in Nat /\ Len(<<>>) = 0
      BY LenProperties, EmptySeq
    <3> HIDE DEF t
    <3>3. Len(t) = Len(s) + 1 /\ t[Len(s) + 1] = Blank
      BY <3>1, <3>2
    <3> QED BY <3>2, <3>3
  <2> HIDE DEF t
  <2> QED BY <2>1, <2>2, <2>5, <2>6 DEF Shows
<1> QED BY <1>2, <1>3

(* And does nothing behind the shape of a space.                           *)
LEMMA JoinedTwice ==
  ASSUME NEW s \in Seq(Chars)
  PROVE  Joined(Joined(s, <<Blank>>), <<Blank>>) = Joined(s, <<Blank>>)
<1>1. CASE s = <<>> \/ s[Len(s)] = Blank
  BY <1>1 DEF Joined
<1>2. CASE ~(s = <<>> \/ s[Len(s)] = Blank)
  <2> DEFINE t == s \o <<Blank>>
  <2>1. /\ Len(t) = Len(s) + Len(<<Blank>>)
        /\ \A k \in 1..Len(s) + Len(<<Blank>>) :
             t[k] = IF k <= Len(s) THEN s[k] ELSE <<Blank>>[k - Len(s)]
    BY SpaceShape, ConcatProperties
  <2>2. Len(s) \in Nat
    BY LenProperties
  <2>3. Joined(s, <<Blank>>) = t
    BY <1>2 DEF Joined
  <2> HIDE DEF t
  <2>4. t[Len(t)] = Blank
    BY <2>1, <2>2
  <2> QED BY <2>3, <2>4 DEF Joined
<1> QED BY <1>1, <1>2

(* Emit puts a shape that does not end in a space behind it.               *)
LEMMA EmitShows ==
  ASSUME NEW s \in Seq(Chars), NEW t \in Seq(Chars),
         t # <<>>, t[Len(t)] # Blank,
         Shows(out, last_space, s), Emit(t)
  PROVE  Shows(out', last_space', Joined(s, t))
<1> DEFINE u == s \o t
<1>1. out' = Capped(out \o t) /\ last_space' = FALSE
  BY DEF Emit
<1>2. out' = Capped(u)
  BY <1>1, CappedTwice DEF Shows
<1>3. /\ Len(u) = Len(s) + Len(t)
      /\ \A k \in 1..Len(s) + Len(t) :
           u[k] = IF k <= Len(s) THEN s[k] ELSE t[k - Len(s)]
  BY ConcatProperties
<1>4. Len(s) \in Nat /\ Len(t) \in Nat \ {0} /\ Len(<<>>) = 0
  BY LenProperties, EmptySeq
<1>5. t # <<Blank>>
  <2>1. <<Blank>>[Len(<<Blank>>)] = Blank
    OBVIOUS
  <2> QED BY <2>1, Zenon
<1>6. Joined(s, t) = u
  BY <1>5 DEF Joined
<1> HIDE DEF u
<1>7. u[Len(u)] = t[Len(t)]
  BY <1>3, <1>4
<1>8. (u # <<>> /\ u[Len(u)] = Blank) = FALSE
  BY <1>7
<1> QED BY <1>1, <1>2, <1>6, <1>8 DEF Shows

-----------------------------------------------------------------------------
(* What the scanner sees from within a lexeme.                             *)
Positioned(k, j) ==
  /\ k \in 1..Len(stmt.lexemes) /\ j \in 0..Len(stmt.lexemes[k].text)
  /\ len = At(Len(stmt.lexemes)) /\ i = At(k - 1) + j

FirstBehind(k) ==
  IF k = Len(stmt.lexemes) THEN None ELSE stmt.lexemes[k + 1].text[1]

(* What the scanner sees m characters ahead of place j of lexeme k.        *)
LEMMA AheadAmong ==
  ASSUME stmt \in Statements, NEW k, NEW j, NEW m \in Nat, Positioned(k, j)
  PROVE  LET x == stmt.lexemes[k] IN
         /\ j + m < Len(x.text) => Ahead(m) = x.text[j + m + 1]
         /\ j + m = Len(x.text) => Ahead(m) = FirstBehind(k)
<1> DEFINE L == stmt.lexemes
           N == Len(L)
           n == Upto(L)
           x == L[k]
<1>1. /\ N \in Nat
      /\ \A q \in 1..N : n[q] = n[q - 1] + Len(L[q].text)
                         /\ Len(L[q].text) \in Nat \ {0}
      /\ \A q \in 0..N : n[q] \in Nat
  BY UptoCounts, LexemesAre
<1>2. \A q \in 0..N : \A r \in 0..N : q < r => n[q] < n[r]
  BY UptoGrows
<1>3. \A q \in 1..N : \A r \in 1..Len(L[q].text) :
        stmt.memory[n[q - 1] + r] = L[q].text[r]
  BY LexemesAssumption DEF Lexed, Consists
<1>4. k \in 1..N /\ j \in 0..Len(x.text) /\ len = n[N] /\ i = n[k - 1] + j
  BY DEF Positioned, At
<1>5. n[k] = n[k - 1] + Len(x.text) /\ k \in 0..N /\ N \in 0..N /\ k - 1 \in 0..N
      /\ Len(x.text) \in Nat
  BY <1>1, <1>4
<1>6. /\ n[k] \in Nat /\ n[k - 1] \in Nat /\ n[N] \in Nat /\ n[k] <= n[N]
      /\ k < N => n[k] < n[N]
      /\ k <= N /\ j \in Nat
  <2> HIDE DEF n, N, L, x
  <2>1. n[k] \in Nat /\ n[k - 1] \in Nat /\ n[N] \in Nat /\ k <= N /\ j \in Nat
    BY <1>1, <1>4, <1>5
  <2>2. k < N => n[k] < n[N]
    BY <1>2, <1>5
  <2>3. k = N => n[k] = n[N]
    OBVIOUS
  <2> QED BY <1>1, <1>4, <2>1, <2>2, <2>3
<1>7. ASSUME j + m < Len(x.text) PROVE Ahead(m) = x.text[j + m + 1]
  <2>1. j + m + 1 \in 1..Len(x.text)
    BY <1>5, <1>6, <1>7
  <2>2. stmt.memory[n[k - 1] + (j + m + 1)] = x.text[j + m + 1]
    BY <1>3, <1>4, <2>1
  <2>3. i + m < len /\ i + m + 1 = n[k - 1] + (j + m + 1)
    <3> DEFINE a == n[k - 1]
               b == n[k]
               w == Len(x.text)
    <3>1. /\ a \in Nat /\ b \in Nat /\ w \in Nat /\ b = a + w /\ i = a + j
          /\ len \in Nat /\ b <= len /\ j + m < w /\ j \in Nat
      BY <1>4, <1>5, <1>6, <1>7
    <3> HIDE DEF a, b, w
    <3>2. i + m < len /\ i + m + 1 = a + (j + m + 1)
      BY <3>1
    <3> QED BY <3>2 DEF a
  <2> QED BY <2>2, <2>3 DEF Ahead
<1>8. ASSUME j + m = Len(x.text) PROVE Ahead(m) = FirstBehind(k)
  <2>1. i + m = n[k]
    <3> HIDE DEF n, N, L, x
    <3> QED BY <1>4, <1>5, <1>6, <1>8
  <2>2. CASE k = N
    <3>1. ~(i + m < len)
      <4> HIDE DEF n, N, L, x
      <4> QED BY <1>4, <1>6, <2>1, <2>2
    <3> QED BY <2>2, <3>1 DEF Ahead, FirstBehind
  <2>3. CASE k # N
    <3>1. i + m < len /\ k + 1 \in 1..N /\ (k + 1) - 1 = k
      <4> HIDE DEF n, N, L, x
      <4> QED BY <1>1, <1>4, <1>6, <2>1, <2>3
    <3>2. 1 \in 1..Len(L[k + 1].text)
      BY <1>1, <3>1
    <3>3. stmt.memory[n[k] + 1] = L[k + 1].text[1]
      BY <1>3, <3>1, <3>2
    <3> QED BY <2>1, <2>3, <3>1, <3>3 DEF Ahead, FirstBehind
  <2> QED BY <2>2, <2>3
<1> QED BY <1>7, <1>8

(* A lexeme of the text, c being the character behind it or None.          *)
Found(x, c) ==
  /\ x.text \in Seq(Chars \ {NUL}) /\ Len(x.text) \in Nat \ {0}
  /\ \A m \in 1..Len(x.text) : x.text[m] # None
  /\ Whole(x) \/ (Unended(x) /\ c = None)
  /\ ~Joins(x, c)
  /\ IsNumber(x) => c \notin {"+", "-"}

Sees(x, j, c) ==
  /\ j \in 0..Len(x.text)
  /\ j < Len(x.text) => Ahead(0) = x.text[j + 1]
  /\ j = Len(x.text) => Ahead(0) = c
  /\ j + 1 < Len(x.text) => Ahead(1) = x.text[j + 2]
  /\ j + 1 = Len(x.text) => Ahead(1) = c

(* At a place of lexeme k the scanner sees the rest of this lexeme.        *)
LEMMA SeesLexeme ==
  ASSUME stmt \in Statements, ~GluedNumber(stmt.lexemes),
         NEW k, NEW j, Positioned(k, j)
  PROVE  /\ Found(stmt.lexemes[k], FirstBehind(k))
         /\ Sees(stmt.lexemes[k], j, FirstBehind(k))
<1> DEFINE L == stmt.lexemes
           N == Len(L)
           x == L[k]
           c == FirstBehind(k)
<1>1. k \in 1..N /\ N \in Nat /\ j \in 0..Len(x.text)
  BY LexemesAre DEF Positioned
<1>2. x.text \in Seq(Chars \ {NUL}) /\ Len(x.text) \in Nat \ {0}
  BY <1>1, LexemesAre
<1>3. \A m \in 1..Len(x.text) : x.text[m] # None
  <2>1. \A m \in 1..Len(x.text) : x.text[m] \in Chars
    BY <1>2, ElementOfSeq
  <2> QED BY <2>1, FingerprintAssumption
<1>4. Whole(x) \/ (Unended(x) /\ c = None)
  <2>1. Whole(L[k]) \/ (k = N /\ Unended(L[k]))
    BY <1>1, LexemesAssumption DEF Lexed
  <2> QED BY <2>1 DEF FirstBehind
<1>5. ASSUME k = N PROVE Found(x, c)
  <2>1. c = None
    BY <1>5 DEF FirstBehind
  <2>2. ~Joins(x, c)
    BY <2>1 DEF Joins, None, WordChars, Letters, Digits, QuoteOf, Quotes
  <2> QED BY <1>2, <1>3, <1>4, <2>1, <2>2 DEF Found, None
<1>6. ASSUME k # N PROVE Found(x, c)
  <2>1. k \in 1..N-1 /\ c = L[k + 1].text[1]
    BY <1>1, <1>6 DEF FirstBehind
  <2>2. ~Joins(x, c)
    BY <2>1, LexemesAssumption DEF Lexed
  <2>3. IsNumber(x) => c \notin {"+", "-"}
    BY <2>1 DEF GluedNumber, IsNumber
  <2> QED BY <1>2, <1>3, <1>4, <2>2, <2>3 DEF Found
<1>7. Found(x, c)
  BY <1>5, <1>6
<1>8. Sees(x, j, c)
  <2>1. /\ j + 0 < Len(x.text) => Ahead(0) = x.text[j + 0 + 1]
        /\ j + 0 = Len(x.text) => Ahead(0) = c
    BY AheadAmong
  <2>2. /\ j + 1 < Len(x.text) => Ahead(1) = x.text[j + 1 + 1]
        /\ j + 1 = Len(x.text) => Ahead(1) = c
    BY AheadAmong
  <2>3. j + 0 = j /\ j + 0 + 1 = j + 1 /\ j + 1 + 1 = j + 2
    BY <1>1
  <2> HIDE DEF x, c
  <2> QED BY <1>1, <2>1, <2>2, <2>3 DEF Sees
<1> QED BY <1>7, <1>8

-----------------------------------------------------------------------------
(* A sequence of length 1 is its only element.                             *)
LEMMA OneChar ==
  ASSUME NEW S, NEW s \in Seq(S), Len(s) = 1
  PROVE  s = <<s[1]>>
<1>1. s[1] \in S
  BY ElementOfSeq
<1>2. <<s[1]>> \in Seq(S) /\ Len(<<s[1]>>) = 1 /\ <<s[1]>>[1] = s[1]
  BY <1>1
<1> QED BY <1>2, SeqEqual

(* The branch that the outer loop takes at the first character of a lexeme *)
(* is the one for its class.                                               *)
BranchOf(x) ==
  \/ IsSpace(x) /\ Branch = "space"
  \/ IsOther(x) /\ Branch = "other"
  \/ IsWord(x) /\ Branch = "word"
  \/ IsNumber(x) /\ Branch = "number"
  \/ IsParameter(x) /\ Branch = "parameter"
  \/ IsLine(x) /\ Branch = "line"
  \/ IsBlock(x) /\ Branch = "block"
  \/ IsBracket(x) /\ Branch = "bracket"
  \/ /\ IsQuoted(x)
     /\ Branch = IF x.text[1] \in Quotes THEN "quoted" ELSE "blob"

(* The branch taken where a lexeme starts is the one of its class.         *)
LEMMA BranchIs ==
  ASSUME NEW x, NEW c, Found(x, c), Sees(x, 0, c)
  PROVE  BranchOf(x)
<1>1. /\ Len(x.text) \in Nat \ {0}
      /\ Ahead(0) = x.text[1]
      /\ Len(x.text) > 1 => Ahead(1) = x.text[2]
      /\ Len(x.text) = 1 => Ahead(1) = c /\ x.text = <<x.text[1]>>
  BY OneChar DEF Found, Sees
<1>2. CASE IsSpace(x)
  <2>1. Branch = "space"
    BY <1>1, <1>2 DEF IsSpace, Branch, Space, Newlines, Blank, Digits, Quotes, Markers, Letters
  <2> QED BY <1>2, <2>1 DEF BranchOf
<1>3. CASE IsOther(x)
  <2>1. Ahead(1) = c /\ x.text = <<Ahead(0)>>
    BY <1>1, <1>3 DEF IsOther
  <2>2. Ahead(0) \notin Space \cup WordChars \cup Quotes \cup Markers \cup {"[", NUL}
    BY <1>1, <1>3 DEF IsOther
  <2>3. /\ Ahead(0) = "-" => Ahead(1) # "-"
        /\ Ahead(0) = "/" => Ahead(1) # "*"
    BY <2>1 DEF Found, Joins
  <2>4. Branch = "other"
    BY <2>2, <2>3 DEF Branch, WordChars, Letters
  <2> QED BY <1>3, <2>4 DEF BranchOf
<1>4. CASE IsWord(x)
  <2>1. Ahead(0) \in Letters \cup {"_"}
    BY <1>1, <1>4 DEF IsWord
  <2>2. Ahead(0) \in {"x", "X"} => Ahead(1) # "tick"
    <3>1. CASE Len(x.text) > 1
      <4>0. 2 \in 1..Len(x.text)
        BY <1>1, <3>1
      <4>1. x.text[2] \in WordChars
        BY <1>4, <4>0 DEF IsWord
      <4> QED BY <1>1, <3>1, <4>1 DEF WordChars, Letters, Digits
    <3>2. CASE Len(x.text) = 1
      <4>1. x.text = <<Ahead(0)>> /\ Ahead(1) = c
        BY <1>1, <3>2
      <4>2. ~Joins(x, c)
        BY DEF Found
      <4>3. x.text \in {<<"x">>, <<"X">>} => c # "tick"
        BY <4>2 DEF Joins
      <4> QED BY <4>1, <4>3
    <3>3. Len(x.text) > 1 \/ Len(x.text) = 1
      <4> DEFINE w == Len(x.text)
      <4>1. w \in Nat \ {0}
        BY <1>1
      <4> HIDE DEF w
      <4>2. w > 1 \/ w = 1
        BY <4>1
      <4> QED BY <4>2 DEF w
    <3> QED BY <3>1, <3>2, <3>3
  <2>3. Branch = "word"
    BY <2>1, <2>2 DEF Branch, Letters, Space, Newlines, Blank, Digits, Quotes, Markers
  <2> QED BY <1>4, <2>3 DEF BranchOf
<1>5. CASE IsNumber(x)
  <2>1. Branch = "number"
    BY <1>1, <1>5 DEF IsNumber, Branch, Space, Newlines, Blank, Digits, Quotes, Markers, Letters
  <2> QED BY <1>5, <2>1 DEF BranchOf
<1>6. CASE IsParameter(x)
  <2>1. Branch = "parameter"
    BY <1>1, <1>6 DEF IsParameter, Branch, Space, Newlines, Blank, Digits, Quotes, Markers, Letters
  <2> QED BY <1>6, <2>1 DEF BranchOf
<1>7. CASE IsLine(x)
  <2>1. Branch = "line"
    BY <1>1, <1>7 DEF IsLine, Branch, Space, Newlines, Blank, Digits, Quotes, Markers, Letters
  <2> QED BY <1>7, <2>1 DEF BranchOf
<1>8. CASE IsBlock(x)
  <2>1. Branch = "block"
    BY <1>1, <1>8 DEF IsBlock, Branch, Space, Newlines, Blank, Digits, Quotes, Markers, Letters
  <2> QED BY <1>8, <2>1 DEF BranchOf
<1>9. CASE IsBracket(x)
  <2>1. Branch = "bracket"
    BY <1>1, <1>9 DEF IsBracket, Branch, Space, Newlines, Blank, Digits, Quotes, Markers, Letters
  <2> QED BY <1>9, <2>1 DEF BranchOf
<1>10. CASE IsQuoted(x)
  <2>1. Branch = IF x.text[1] \in Quotes THEN "quoted" ELSE "blob"
    BY <1>1, <1>10 DEF IsQuoted, Branch, Space, Newlines, Blank, Digits, Quotes, Markers, Letters
  <2> QED BY <1>10, <2>1 DEF BranchOf
<1> QED
  BY <1>2, <1>3, <1>4, <1>5, <1>6, <1>7, <1>8, <1>9, <1>10 DEF Found, Whole, Unended

(* Where the loop for a lexeme starts, and with which quote.               *)
StartOf(loop) ==
  IF loop \in {"line", "block", "blob"} THEN 2 ELSE IF loop = "word" THEN 0 ELSE 1

CloseOf(loop) ==
  IF loop = "blob" THEN "tick" ELSE IF loop = "quoted" THEN Ahead(0) ELSE quote

(* A quoted lexeme's quotes are doubled up to its end or closing quote.    *)
LEMMA QuotedEndsSomewhere ==
  ASSUME NEW x, NEW c, Found(x, c), IsQuoted(x)
  PROVE  \E end \in {Len(x.text) - 1, Len(x.text)} :
           /\ IF end < Len(x.text) THEN x.text[Len(x.text)] = QuoteOf(x) ELSE ~Whole(x)
           /\ QuotedTo(x, end)
<1>0. Len(x.text) \in Nat \ {0}
  BY DEF Found
<1>1. /\ ~IsSpace(x) /\ ~IsWord(x) /\ ~IsNumber(x) /\ ~IsParameter(x) /\ ~IsOther(x)
      /\ ~IsLine(x) /\ ~IsBlock(x) /\ ~IsBracket(x)
  <2>1. ~IsWord(x)
    <3>1. CASE x.text[1] \in Quotes
      BY <3>1 DEF IsWord, Quotes, Letters
    <3>2. CASE x.text[1] \notin Quotes
      <4>1. 2 \in 1..Len(x.text) /\ x.text[2] = "tick"
        BY <1>0, <3>2 DEF IsQuoted
      <4> QED BY <4>1 DEF IsWord, WordChars, Letters, Digits
    <3> QED BY <3>1, <3>2
  <2> QED BY <2>1 DEF IsQuoted, IsSpace, IsNumber, IsParameter, IsOther, IsLine,
                      IsBlock, IsBracket, Quotes, Digits, Markers
<1>2. CASE Whole(x)
  <2>1. QuotedTo(x, Len(x.text) - 1) /\ x.text[Len(x.text)] = QuoteOf(x)
    BY <1>1, <1>2 DEF Whole, QuotedEnds
  <2> QED BY <1>0, <2>1
<1>3. CASE ~Whole(x)
  <2>1. QuotedTo(x, Len(x.text))
    BY <1>1, <1>3 DEF Unended, Found
  <2> QED BY <1>0, <1>3, <2>1
<1> QED BY <1>2, <1>3

(* The loop of that branch starts inside the lexeme.                       *)
LEMMA LoopStarts ==
  ASSUME NEW x, NEW c, Found(x, c), Sees(x, 0, c), Branch \in Skips \cup {"word"}
  PROVE  Reading(Branch, <<>>, CloseOf(Branch), x, StartOf(Branch))
<1>1. BranchOf(x)
  BY BranchIs
<1>2. Len(x.text) \in Nat \ {0} /\ Ahead(0) = x.text[1]
  BY DEF Found, Sees
<1>3. CASE IsWord(x) /\ Branch = "word"
  <2> DEFINE w == [m \in 1..(IF 0 < TokenCap THEN 0 ELSE TokenCap - 1)
                      |-> Uppercase(x.text[m])]
  <2>1. w = <<>>
    <3>1. (IF 0 < TokenCap THEN 0 ELSE TokenCap - 1) = 0
      BY CapsOK DEF Caps
    <3>2. w = [m \in 1..0 |-> Uppercase(x.text[m])]
      BY <3>1
    <3> QED BY <3>2
  <2>2. 0 \in 0..Len(x.text)
    BY <1>2
  <2> HIDE DEF w
  <2> QED BY <1>3, <2>1, <2>2 DEF Reading, StartOf, w
<1>4. CASE IsNumber(x) /\ Branch = "number"
  BY <1>2, <1>4 DEF Reading, StartOf
<1>5. CASE IsParameter(x) /\ Branch = "parameter"
  BY <1>2, <1>5 DEF Reading, StartOf
<1>6. CASE IsLine(x) /\ Branch = "line"
  BY <1>2, <1>6 DEF Reading, StartOf, IsLine, LineEnds
<1>7. CASE IsBlock(x) /\ Branch = "block"
  BY <1>2, <1>7 DEF Reading, StartOf, IsBlock, BlockEnds
<1>8. CASE IsBracket(x) /\ Branch = "bracket"
  BY <1>2, <1>8 DEF Reading, StartOf, BracketEnds
<1>9. CASE IsQuoted(x) /\ Branch = IF x.text[1] \in Quotes THEN "quoted" ELSE "blob"
  <2>1. PICK end \in {Len(x.text) - 1, Len(x.text)} :
           /\ IF end < Len(x.text) THEN x.text[Len(x.text)] = QuoteOf(x) ELSE ~Whole(x)
           /\ QuotedTo(x, end)
    BY <1>9, QuotedEndsSomewhere
  <2>2. PICK places \in SUBSET (Opening(x)..end) : Doubled(x, end, places)
    BY <2>1 DEF QuotedTo
  <2>3. StartOf(Branch) = Opening(x) /\ CloseOf(Branch) = QuoteOf(x)
        /\ Branch \in {"quoted", "blob"}
    BY <1>2, <1>9 DEF StartOf, CloseOf, Opening, QuoteOf
  <2>4. Opening(x) \in places
    BY <2>2 DEF Doubled
  <2>5. Opening(x) \in 0..Len(x.text)
    BY <1>2, <1>9 DEF Opening, IsQuoted
  <2> QED BY <1>9, <2>1, <2>2, <2>3, <2>4, <2>5 DEF Reading
<1> QED BY <1>1, <1>3, <1>4, <1>5, <1>6, <1>7, <1>8, <1>9 DEF BranchOf, Skips

-----------------------------------------------------------------------------
(* A skipping loop goes on to the end of its lexeme, and stops there.      *)
Within(x, c, j) ==
  /\ Found(x, c) /\ Sees(x, j, c)
  /\ mode \in Skips /\ quote # None
  /\ Reading(mode, token, quote, x, j)

GoesOn(x, j) == Round > 0 => Reading(mode, token, quote, x, j + Round)

ComesToEnd(x, j) ==
  Round = 0 => \/ j + Closing = Len(x.text)
               \/ j + Closing = Len(x.text) - 1 /\ IsLine(x) /\ LineEnds(x)

(* What the scanner sees at place j of a lexeme and right behind it.       *)
LEMMA WithinSees ==
  ASSUME NEW x, NEW c, NEW j, Within(x, c, j)
  PROVE  /\ Len(x.text) \in Nat \ {0} /\ j \in 0..Len(x.text)
         /\ j < Len(x.text) => Ahead(0) = x.text[j + 1] /\ Ahead(0) # None
         /\ j = Len(x.text) => Ahead(0) = c
         /\ j + 1 < Len(x.text) => Ahead(1) = x.text[j + 2]
         /\ j + 1 = Len(x.text) => Ahead(1) = c
<1>1. /\ Len(x.text) \in Nat \ {0} /\ j \in 0..Len(x.text)
      /\ \A m \in 1..Len(x.text) : x.text[m] # None
      /\ Sees(x, j, c)
  BY DEF Within, Found, Sees
<1>2. j < Len(x.text) => j + 1 \in 1..Len(x.text)
  <2> DEFINE n == Len(x.text)
  <2>1. n \in Nat \ {0} /\ j \in 0..n
    BY <1>1
  <2> HIDE DEF n
  <2>2. j < n => j + 1 \in 1..n
    BY <2>1
  <2> QED BY <2>2 DEF n
<1> QED BY <1>1, <1>2 DEF Sees

(* A round of a line comment's loop stays inside or comes to its end.      *)
LEMMA LineRound ==
  ASSUME NEW x, NEW c, NEW j, Within(x, c, j), mode = "line"
  PROVE  GoesOn(x, j) /\ ComesToEnd(x, j) /\ Shape(x) = <<Blank>>
<1> DEFINE n == Len(x.text)
<1>1. IsLine(x) /\ j > 1 /\ (LineEnds(x) => j < n)
  BY DEF Within, Reading
<1>2. /\ n \in Nat \ {0} /\ j \in 0..n
      /\ j < n => Ahead(0) = x.text[j + 1] /\ Ahead(0) # None
      /\ j = n => Ahead(0) = c
  BY WithinSees
<1>3. ~LineEnds(x) => c = None
  <2>1. /\ ~IsSpace(x) /\ ~IsWord(x) /\ ~IsNumber(x) /\ ~IsParameter(x) /\ ~IsOther(x)
        /\ ~IsBlock(x) /\ ~IsBracket(x) /\ ~IsQuoted(x)
    BY <1>1 DEF IsLine, IsSpace, IsWord, IsNumber, IsParameter, IsOther, IsBlock,
                IsBracket, IsQuoted
  <2> QED BY <1>1, <2>1 DEF Within, Found, Whole
<1>4. \A m \in 3..n : x.text[m] \in Newlines => m = n
  BY <1>1 DEF IsLine
<1>5. LineEnds(x) <=> n > 2 /\ x.text[n] \in Newlines
  BY DEF LineEnds
<1>6. Round = IF Ahead(0) = None \/ Ahead(0) \in Newlines THEN 0 ELSE 1
  BY DEF Round
<1>7. Closing = 0
  BY DEF Closing
<1>8. Shape(x) = <<Blank>>
  BY <1>1 DEF IsLine, Shape
<1>9. GoesOn(x, j)
  <2> SUFFICES ASSUME Ahead(0) # None, Ahead(0) \notin Newlines
               PROVE  Reading(mode, token, quote, x, j + 1)
    BY <1>6 DEF GoesOn
  <2>1. j < n
    <3> HIDE DEF n
    <3> QED BY <1>1, <1>2, <1>3
  <2>2. LineEnds(x) => j + 1 < n
    <3> HIDE DEF n
    <3>1. j + 1 = n => x.text[n] \notin Newlines
      BY <1>2, <2>1
    <3> QED BY <1>2, <1>5, <2>1, <3>1
  <2>3. j + 1 \in 0..n /\ j + 1 > 1
    <3> HIDE DEF n
    <3> QED BY <1>1, <1>2, <2>1
  <2> QED BY <1>1, <2>2, <2>3 DEF Reading
<1>10. ComesToEnd(x, j)
  <2> SUFFICES ASSUME Ahead(0) = None \/ Ahead(0) \in Newlines
               PROVE  j = n \/ (j = n - 1 /\ LineEnds(x))
    <3>1. j \in Nat /\ j + 0 = j
      BY <1>2
    <3> QED BY <1>1, <1>6, <1>7, <3>1 DEF ComesToEnd
  <2> HIDE DEF n
  <2>1. CASE j < n
    <3>1. x.text[j + 1] \in Newlines /\ j + 1 \in 3..n
      BY <1>1, <1>2, <2>1
    <3>2. j + 1 = n
      BY <1>4, <3>1
    <3> QED BY <1>1, <1>2, <1>5, <3>1, <3>2
  <2>2. CASE ~(j < n)
    BY <1>2, <2>2
  <2> QED BY <2>1, <2>2
<1> QED BY <1>8, <1>9, <1>10

(* A round of a block comment's loop stays inside or comes to its end.     *)
LEMMA BlockRound ==
  ASSUME NEW x, NEW c, NEW j, Within(x, c, j), mode = "block"
  PROVE  GoesOn(x, j) /\ ComesToEnd(x, j) /\ Shape(x) = <<Blank>>
<1> DEFINE n == Len(x.text)
<1>1. IsBlock(x) /\ j > 1 /\ (BlockEnds(x) => j < n - 1)
  BY DEF Within, Reading
<1>2. /\ n \in Nat \ {0} /\ j \in 0..n
      /\ j < n => Ahead(0) = x.text[j + 1] /\ Ahead(0) # None
      /\ j = n => Ahead(0) = c
      /\ j + 1 < n => Ahead(1) = x.text[j + 2]
      /\ j + 1 = n => Ahead(1) = c
  BY WithinSees
<1>3. ~BlockEnds(x) => c = None
  <2>1. /\ ~IsSpace(x) /\ ~IsWord(x) /\ ~IsNumber(x) /\ ~IsParameter(x) /\ ~IsOther(x)
        /\ ~IsLine(x) /\ ~IsBracket(x) /\ ~IsQuoted(x)
    BY <1>1 DEF IsLine, IsSpace, IsWord, IsNumber, IsParameter, IsOther, IsBlock,
                IsBracket, IsQuoted
  <2> QED BY <1>1, <2>1 DEF Within, Found, Whole
<1>4. \A m \in 4..n : x.text[m - 1] = "*" /\ x.text[m] = "/" => m = n
  BY <1>1 DEF IsBlock
<1>5. BlockEnds(x) <=> n > 3 /\ x.text[n - 1] = "*" /\ x.text[n] = "/"
  BY DEF BlockEnds
<1>6. Round = IF Ahead(0) = None \/ (Ahead(0) = "*" /\ Ahead(1) = "/") THEN 0 ELSE 1
  BY DEF Round
<1>7. Closing = IF Ahead(0) = None THEN 0 ELSE 2
  BY DEF Closing
<1>8. Shape(x) = <<Blank>>
  BY <1>1 DEF IsBlock, Shape
<1>9. GoesOn(x, j)
  <2> SUFFICES ASSUME Ahead(0) # None, ~(Ahead(0) = "*" /\ Ahead(1) = "/")
               PROVE  Reading(mode, token, quote, x, j + 1)
    BY <1>6 DEF GoesOn
  <2>1. j < n
    <3> HIDE DEF n
    <3> QED BY <1>1, <1>2, <1>3
  <2>2. BlockEnds(x) => j + 1 < n - 1
    <3> HIDE DEF n
    <3>1. j + 1 = n - 1 => ~(x.text[n - 1] = "*" /\ x.text[n] = "/")
      <4> SUFFICES ASSUME j + 1 = n - 1
                   PROVE  ~(x.text[n - 1] = "*" /\ x.text[n] = "/")
        OBVIOUS
      <4>1. j + 2 = n /\ j + 1 < n
        BY <1>2
      <4> QED BY <1>2, <2>1, <4>1
    <3> QED BY <1>1, <1>2, <1>5, <2>1, <3>1
  <2>3. j + 1 \in 0..n /\ j + 1 > 1
    <3> HIDE DEF n
    <3> QED BY <1>1, <1>2, <2>1
  <2> QED BY <1>1, <2>2, <2>3 DEF Reading
<1>10. ComesToEnd(x, j)
  <2> SUFFICES ASSUME Ahead(0) = None \/ (Ahead(0) = "*" /\ Ahead(1) = "/")
               PROVE  j + Closing = n
    BY <1>6 DEF ComesToEnd
  <2> HIDE DEF n
  <2>1. CASE j < n
    <3>1. /\ x.text[j + 1] = "*" /\ Ahead(1) = "/" /\ Closing = 2
      BY <1>2, <1>7, <2>1, Zenon
    <3>2. j + 1 < n
      <4>1. j + 1 = n => c = "/"
        BY <1>2, <3>1
      <4>2. c = None => c # "/"
        BY DEF None
      <4> QED BY <1>1, <1>2, <1>3, <2>1, <4>1, <4>2
    <3>3. /\ j + 2 \in 4..n /\ (j + 2) - 1 = j + 1 /\ x.text[j + 2] = "/"
      BY <1>1, <1>2, <3>1, <3>2
    <3>4. j + 2 = n
      BY <1>4, <3>1, <3>3
    <3> QED BY <3>1, <3>4
  <2>2. CASE ~(j < n)
    <3>1. j = n /\ ~BlockEnds(x)
      BY <1>1, <1>2, <2>2
    <3>2. Closing = 0
      BY <1>2, <1>3, <1>7, <3>1
    <3> QED BY <1>2, <3>1, <3>2
  <2> QED BY <2>1, <2>2
<1> QED BY <1>8, <1>9, <1>10

(* A round of a bracketed name's loop stays inside or comes to its end.    *)
LEMMA BracketRound ==
  ASSUME NEW x, NEW c, NEW j, Within(x, c, j), mode = "bracket"
  PROVE  GoesOn(x, j) /\ ComesToEnd(x, j) /\ Shape(x) = <<"?">>
<1> DEFINE n == Len(x.text)
<1>1. IsBracket(x) /\ j > 0 /\ (BracketEnds(x) => j < n)
  BY DEF Within, Reading
<1>2. /\ n \in Nat \ {0} /\ j \in 0..n
      /\ j < n => Ahead(0) = x.text[j + 1] /\ Ahead(0) # None
      /\ j = n => Ahead(0) = c
  BY WithinSees
<1>3. ~BracketEnds(x) => c = None
  <2>1. /\ ~IsSpace(x) /\ ~IsWord(x) /\ ~IsNumber(x) /\ ~IsParameter(x) /\ ~IsOther(x)
        /\ ~IsLine(x) /\ ~IsBlock(x) /\ ~IsQuoted(x)
    BY <1>1 DEF IsLine, IsSpace, IsWord, IsNumber, IsParameter, IsOther, IsBlock,
                IsBracket, IsQuoted, Letters, Digits, Markers, Quotes
  <2> QED BY <1>1, <2>1 DEF Within, Found, Whole
<1>4. \A m \in 2..n : x.text[m] = "]" => m = n
  BY <1>1 DEF IsBracket
<1>5. BracketEnds(x) <=> n > 1 /\ x.text[n] = "]"
  BY DEF BracketEnds
<1>6. Round = IF Ahead(0) = None \/ Ahead(0) = "]" THEN 0 ELSE 1
  BY DEF Round
<1>7. Closing = IF Ahead(0) = None THEN 0 ELSE 1
  BY DEF Closing
<1>8. Shape(x) = <<"?">>
  BY <1>1 DEF IsBracket, Shape
<1>9. GoesOn(x, j)
  <2> SUFFICES ASSUME Ahead(0) # None, Ahead(0) # "]"
               PROVE  Reading(mode, token, quote, x, j + 1)
    BY <1>6 DEF GoesOn
  <2>1. j < n
    <3> HIDE DEF n
    <3> QED BY <1>1, <1>2, <1>3
  <2>2. BracketEnds(x) => j + 1 < n
    <3> HIDE DEF n
    <3>1. j + 1 = n => x.text[n] # "]"
      BY <1>2, <2>1
    <3> QED BY <1>2, <1>5, <2>1, <3>1
  <2>3. j + 1 \in 0..n /\ j + 1 > 0
    <3> HIDE DEF n
    <3> QED BY <1>1, <1>2, <2>1
  <2> QED BY <1>1, <2>2, <2>3 DEF Reading
<1>10. ComesToEnd(x, j)
  <2> SUFFICES ASSUME Ahead(0) = None \/ Ahead(0) = "]"
               PROVE  j + Closing = n
    BY <1>6 DEF ComesToEnd
  <2> HIDE DEF n
  <2>1. CASE j < n
    <3>1. /\ x.text[j + 1] = "]" /\ j + 1 \in 2..n /\ Closing = 1
      BY <1>1, <1>2, <1>7, <2>1
    <3>2. j + 1 = n
      BY <1>4, <3>1
    <3> QED BY <3>1, <3>2
  <2>2. CASE ~(j < n)
    <3>1. j = n /\ ~BracketEnds(x)
      BY <1>1, <1>2, <2>2
    <3>2. Closing = 0
      BY <1>2, <1>3, <1>7, <3>1
    <3> QED BY <1>2, <3>1, <3>2
  <2> QED BY <2>1, <2>2
<1> QED BY <1>8, <1>9, <1>10

(* A round of a number's loop stays inside or comes to its end.            *)
LEMMA NumberRound ==
  ASSUME NEW x, NEW c, NEW j, Within(x, c, j), mode = "number"
  PROVE  GoesOn(x, j) /\ ComesToEnd(x, j) /\ Shape(x) = <<"?">>
<1> DEFINE n == Len(x.text)
<1>1. IsNumber(x) /\ j > 0
  BY DEF Within, Reading
<1>2. /\ n \in Nat \ {0} /\ j \in 0..n
      /\ j < n => Ahead(0) = x.text[j + 1] /\ Ahead(0) # None
      /\ j = n => Ahead(0) = c
  BY WithinSees
<1>3. \A m \in 1..n : IsIdentifierChar(x.text[m]) \/ x.text[m] \in {".", "+", "-"}
  BY <1>1 DEF IsNumber, WordChars, IsIdentifierChar
<1>4. ~IsIdentifierChar(c) /\ c \notin {".", "+", "-"}
  BY <1>1 DEF Within, Found, Joins, WordChars, IsIdentifierChar
<1>5. Round = IF Ahead(0) # None /\ (IsIdentifierChar(Ahead(0)) \/ Ahead(0) \in {".", "+", "-"})
              THEN 1 ELSE 0
  BY DEF Round
<1>6. Closing = 0
  BY DEF Closing
<1>7. Shape(x) = <<"?">>
  BY <1>1 DEF IsNumber, Shape
<1>8. CASE j < n
  <2>1. j + 1 \in 1..n /\ j + 1 \in 0..n /\ j + 1 > 0
    <3> HIDE DEF n
    <3> QED BY <1>2, <1>8
  <2>2. Round = 1
    BY <1>2, <1>3, <1>5, <1>8, <2>1
  <2>3. Reading(mode, token, quote, x, j + 1)
    BY <1>1, <2>1 DEF Reading
  <2> QED BY <1>7, <2>2, <2>3 DEF GoesOn, ComesToEnd
<1>9. CASE ~(j < n)
  <2>1. j = n
    <3> HIDE DEF n
    <3> QED BY <1>2, <1>9
  <2>2. Round = 0
    BY <1>2, <1>4, <1>5, <2>1
  <2>3. j + Closing = n
    <3> HIDE DEF n
    <3> QED BY <1>2, <1>6, <2>1
  <2> QED BY <1>7, <2>2, <2>3 DEF GoesOn, ComesToEnd
<1> QED BY <1>8, <1>9

(* A round of a parameter's loop stays inside or comes to its end.         *)
LEMMA ParameterRound ==
  ASSUME NEW x, NEW c, NEW j, Within(x, c, j), mode = "parameter"
  PROVE  GoesOn(x, j) /\ ComesToEnd(x, j) /\ Shape(x) = <<"?">>
<1> DEFINE n == Len(x.text)
<1>1. IsParameter(x) /\ j > 0
  BY DEF Within, Reading
<1>2. /\ n \in Nat \ {0} /\ j \in 0..n
      /\ j < n => Ahead(0) = x.text[j + 1] /\ Ahead(0) # None
      /\ j = n => Ahead(0) = c
  BY WithinSees
<1>3. \A m \in 2..n : IsIdentifierChar(x.text[m])
  BY <1>1 DEF IsParameter, WordChars, IsIdentifierChar
<1>4. ~IsIdentifierChar(c)
  BY <1>1 DEF Within, Found, Joins, WordChars, IsIdentifierChar
<1>5. Round = IF Ahead(0) # None /\ IsIdentifierChar(Ahead(0)) THEN 1 ELSE 0
  BY DEF Round
<1>6. Closing = 0
  BY DEF Closing
<1>7. Shape(x) = <<"?">>
  BY <1>1 DEF IsParameter, Shape
<1>8. CASE j < n
  <2>1. j + 1 \in 2..n /\ j + 1 \in 0..n /\ j + 1 > 0
    <3> HIDE DEF n
    <3> QED BY <1>1, <1>2, <1>8
  <2>2. Round = 1
    BY <1>2, <1>3, <1>5, <1>8, <2>1
  <2>3. Reading(mode, token, quote, x, j + 1)
    BY <1>1, <2>1 DEF Reading
  <2> QED BY <1>7, <2>2, <2>3 DEF GoesOn, ComesToEnd
<1>9. CASE ~(j < n)
  <2>1. j = n
    <3> HIDE DEF n
    <3> QED BY <1>2, <1>9
  <2>2. Round = 0
    BY <1>2, <1>4, <1>5, <2>1
  <2>3. j + Closing = n
    <3> HIDE DEF n
    <3> QED BY <1>2, <1>6, <2>1
  <2> QED BY <1>7, <2>2, <2>3 DEF GoesOn, ComesToEnd
<1> QED BY <1>8, <1>9

(* A round of a quoted text's loop stays inside or comes to its end.       *)
LEMMA QuotedRound ==
  ASSUME NEW x, NEW c, NEW j, Within(x, c, j), mode \in {"quoted", "blob"}
  PROVE  GoesOn(x, j) /\ ComesToEnd(x, j) /\ Shape(x) = <<"?">>
<1> DEFINE n == Len(x.text)
           d == QuoteOf(x)
<1>1. /\ IsQuoted(x) /\ quote = d /\ quote # None
      /\ \E end \in {n - 1, n} :
           /\ IF end < n THEN x.text[n] = d ELSE ~Whole(x)
           /\ \E places \in SUBSET (Opening(x)..end) :
                Doubled(x, end, places) /\ j \in places
  BY DEF Within, Reading
<1>2. PICK end \in {n - 1, n} :
           /\ IF end < n THEN x.text[n] = d ELSE ~Whole(x)
           /\ \E places \in SUBSET (Opening(x)..end) :
                Doubled(x, end, places) /\ j \in places
  BY <1>1
<1>3. PICK places \in SUBSET (Opening(x)..end) : Doubled(x, end, places) /\ j \in places
  BY <1>2
<1>4. /\ n \in Nat \ {0} /\ j \in 0..n
      /\ j < n => Ahead(0) = x.text[j + 1] /\ Ahead(0) # None
      /\ j = n => Ahead(0) = c
      /\ j + 1 < n => Ahead(1) = x.text[j + 2]
      /\ j + 1 = n => Ahead(1) = c
  BY WithinSees
<1>5. c # d
  BY <1>1 DEF Within, Found, Joins
<1>6. end \in Int /\ end <= n /\ (end < n => end = n - 1)
  <2> HIDE DEF n
  <2> QED BY <1>4
<1>7. end = n => c = None
  <2>1. end = n => ~Whole(x)
    BY <1>2, <1>6
  <2> QED BY <2>1 DEF Within, Found
<1>8. Opening(x) \in {1, 2}
  BY DEF Opening
<1>9. /\ \A p \in places : p \in Int /\ Opening(x) <= p /\ p <= end
      /\ \A p \in places \ {end} : IF x.text[p + 1] # d THEN p + 1 \in places
                                   ELSE p + 2 \in places /\ x.text[p + 2] = d
  BY <1>3, <1>6, <1>8 DEF Doubled
<1>10. ASSUME NEW q \in places PROVE Reading(mode, token, quote, x, q)
  <2>1. q \in 0..n
    <3> HIDE DEF n
    <3> QED BY <1>4, <1>6, <1>8, <1>9
  <2> QED BY <1>1, <1>2, <1>3, <2>1 DEF Reading
<1>11. Round = IF Ahead(0) = None THEN 0 ELSE IF Ahead(0) # d THEN 1
               ELSE IF Ahead(1) = d THEN 2 ELSE 0
  BY <1>1 DEF Round
<1>12. Closing = IF Ahead(0) = None THEN 0 ELSE 1
  BY DEF Closing
<1>13. Shape(x) = <<"?">>
  BY <1>1 DEF IsQuoted, Shape
<1>14. d # None
  BY <1>1
<1> HIDE DEF d
<1>15. CASE j = end /\ end < n
  <2>1. j < n /\ j + 1 = n /\ x.text[n] = d
    <3> HIDE DEF n
    <3> QED BY <1>2, <1>4, <1>6, <1>15
  <2>2. Ahead(0) = d /\ Ahead(1) # d
    BY <1>4, <1>5, <2>1
  <2>3. Round = 0 /\ j + Closing = n
    BY <1>11, <1>12, <1>14, <2>1, <2>2
  <2> QED BY <1>13, <2>3 DEF GoesOn, ComesToEnd
<1>16. CASE j = end /\ ~(end < n)
  <2>1. j = n /\ Ahead(0) = None
    <3> HIDE DEF n
    <3> QED BY <1>4, <1>6, <1>7, <1>16
  <2>2. Round = 0 /\ j + Closing = n
    BY <1>4, <1>11, <1>12, <2>1
  <2> QED BY <1>13, <2>2 DEF GoesOn, ComesToEnd
<1>17. CASE j # end
  <2>1. j < n /\ j \in places \ {end}
    <3> HIDE DEF n
    <3> QED BY <1>3, <1>4, <1>6, <1>9, <1>17
  <2>2. Ahead(0) = x.text[j + 1] /\ Ahead(0) # None
    BY <1>4, <2>1
  <2>3. CASE Ahead(0) # d
    <3>1. j + 1 \in places /\ Round = 1
      BY <1>9, <1>11, <2>1, <2>2, <2>3
    <3>2. Reading(mode, token, quote, x, j + Round)
      BY <1>10, <3>1
    <3> QED BY <1>13, <3>1, <3>2 DEF GoesOn, ComesToEnd
  <2>4. CASE Ahead(0) = d
    <3>1. j + 2 \in places /\ x.text[j + 2] = d
      BY <1>9, <2>1, <2>2, <2>4
    <3>2. j + 1 < n
      <4> HIDE DEF n
      <4>1. j + 2 <= end
        BY <1>9, <3>1
      <4> QED BY <1>4, <1>6, <4>1
    <3>3. Round = 2
      BY <1>4, <1>11, <2>2, <2>4, <3>1, <3>2
    <3>4. Reading(mode, token, quote, x, j + Round)
      BY <1>10, <3>1, <3>3
    <3> QED BY <1>13, <3>3, <3>4 DEF GoesOn, ComesToEnd
  <2> QED BY <2>3, <2>4
<1> QED BY <1>15, <1>16, <1>17

(* All of them, and what each lexeme stands for.                           *)
LEMMA LoopRound ==
  ASSUME NEW x, NEW c, NEW j, Within(x, c, j)
  PROVE  /\ GoesOn(x, j) /\ ComesToEnd(x, j)
         /\ Shape(x) = IF mode \in {"line", "block"} THEN <<Blank>> ELSE <<"?">>
<1>1. mode \in {"line", "block", "bracket", "number", "parameter", "quoted", "blob"}
  BY DEF Within, Skips
<1> QED
  BY <1>1, LineRound, BlockRound, BracketRound, NumberRound, ParameterRound, QuotedRound

(* The loop over a word goes on to its end, and what it has kept then is   *)
(* the shape of the word, or a keyword.                                    *)
LEMMA WordRound ==
  ASSUME NEW x, NEW c, NEW j, Found(x, c), Sees(x, j, c), mode = "word",
         Reading(mode, token, quote, x, j)
  PROVE  /\ IsIdentifierChar(Ahead(0)) =>
              Reading("word", IF Len(token) + 1 < TokenCap
                              THEN Append(token, Uppercase(Ahead(0))) ELSE token,
                      quote, x, j + 1)
         /\ ~IsIdentifierChar(Ahead(0)) =>
              /\ j = Len(x.text)
              /\ token # <<>>
              /\ Shape(x) = IF token \in Keywords THEN <<"?">> ELSE token
<1> DEFINE n == Len(x.text)
           kept(m) == IF m < TokenCap THEN m ELSE TokenCap - 1
           upper(m) == [q \in 1..m |-> Uppercase(x.text[q])]
<1>1. IsWord(x) /\ token = upper(kept(j))
  BY DEF Reading
<1>2. /\ n \in Nat \ {0} /\ j \in 0..n
      /\ j < n => Ahead(0) = x.text[j + 1]
      /\ j = n => Ahead(0) = c
  BY DEF Found, Sees
<1>3. /\ \A m \in 1..n : IsIdentifierChar(x.text[m])
      /\ ~IsIdentifierChar(c)
  BY <1>1 DEF IsWord, Found, Joins, WordChars, IsIdentifierChar
<1>4. TokenCap \in Nat /\ TokenCap > 1
  <2>1. <<"N">> \in Keywords /\ Len(<<"N">>) = 1
    BY DEF Keywords
  <2>2. 1 + 1 < TokenCap
    BY <2>1, LexemesAssumption
  <2> QED BY <2>2, CapsOK DEF Caps
<1>5. ASSUME NEW m \in Nat
      PROVE  kept(m) \in Nat /\ kept(m) <= m /\ (m > 0 => kept(m) > 0)
  BY <1>4
<1>6. ASSUME NEW m \in Nat PROVE Len(upper(m)) = m /\ (m > 0 => upper(m) # <<>>)
  <2>1. Len(upper(m)) = m
    OBVIOUS
  <2>2. Len(<<>>) = 0
    OBVIOUS
  <2> HIDE DEF upper
  <2> QED BY <2>1, <2>2
<1>7. ASSUME j < n
      PROVE  /\ IsIdentifierChar(Ahead(0))
             /\ Reading("word", IF Len(token) + 1 < TokenCap
                                THEN Append(token, Uppercase(Ahead(0))) ELSE token,
                        quote, x, j + 1)
  <2>1. j + 1 \in 1..n /\ j + 1 \in 0..n /\ j \in Nat
    <3> HIDE DEF n
    <3> QED BY <1>2, <1>7
  <2>2. IsIdentifierChar(Ahead(0)) /\ Ahead(0) = x.text[j + 1]
    BY <1>2, <1>3, <1>7, <2>1
  <2> DEFINE w == IF Len(token) + 1 < TokenCap
                  THEN Append(token, Uppercase(Ahead(0))) ELSE token
  <2>3. Len(token) = kept(j) /\ kept(j) \in Nat
    <3> HIDE DEF kept, upper
    <3> QED BY <1>1, <1>5, <1>6, <2>1
  <2>4. w = upper(kept(j + 1))
    <3>1. CASE j + 1 < TokenCap
      <4>1. kept(j) = j /\ kept(j + 1) = j + 1
        BY <1>4, <2>1, <3>1
      <4>2. w = Append(token, Uppercase(x.text[j + 1]))
        <5> HIDE DEF kept, upper
        <5> QED BY <2>2, <2>3, <3>1, <4>1
      <4>3. Append(upper(j), Uppercase(x.text[j + 1])) = upper(j + 1)
        BY <2>1
      <4> HIDE DEF w, kept, upper
      <4> QED BY <1>1, <4>1, <4>2, <4>3
    <3>2. CASE ~(j + 1 < TokenCap)
      <4>1. kept(j) = TokenCap - 1 /\ kept(j + 1) = TokenCap - 1
        BY <1>4, <2>1, <3>2
      <4>2. w = token
        <5> HIDE DEF kept, upper
        <5> QED BY <1>4, <2>3, <4>1
      <4> HIDE DEF w, kept, upper
      <4> QED BY <1>1, <4>1, <4>2
    <3> QED BY <3>1, <3>2
  <2> HIDE DEF w
  <2>5. Reading("word", w, quote, x, j + 1)
    BY <1>1, <2>1, <2>4 DEF Reading
  <2> QED BY <2>2, <2>5 DEF w
<1>8. ASSUME ~(j < n)
      PROVE  /\ ~IsIdentifierChar(Ahead(0)) /\ j = n /\ token # <<>>
             /\ Shape(x) = IF token \in Keywords THEN <<"?">> ELSE token
  <2>1. j = n
    <3> HIDE DEF n
    <3> QED BY <1>2, <1>8
  <2>2. ~IsIdentifierChar(Ahead(0))
    BY <1>2, <1>3, <2>1
  <2>3. token = upper(kept(n)) /\ n \in Nat \ {0}
    BY <1>1, <1>2, <2>1
  <2>4. Len(token) = kept(n) /\ Len(upper(n)) = n /\ token # <<>>
    <3> HIDE DEF kept, upper, n
    <3> QED BY <1>5, <1>6, <2>3
  <2>5. x.kind = IF upper(n) \in Keywords THEN "literal" ELSE "word"
    BY <1>1 DEF IsWord
  <2>6. token \in Keywords <=> upper(n) \in Keywords
    <3>1. CASE n < TokenCap
      <4>1. kept(n) = n
        BY <3>1
      <4> HIDE DEF kept, upper
      <4> QED BY <2>3, <4>1
    <3>2. CASE ~(n < TokenCap)
      <4>1. kept(n) = TokenCap - 1
        BY <3>2
      <4>2. \A w \in Keywords : Len(w) + 1 < TokenCap
        BY LexemesAssumption
      <4>3. token \notin Keywords
        <5> HIDE DEF kept, upper, n
        <5>1. Len(token) + 1 = TokenCap
          BY <1>4, <2>4, <4>1
        <5> QED BY <1>4, <4>2, <5>1
      <4>4. upper(n) \notin Keywords
        <5> HIDE DEF kept, upper
        <5>1. ~(Len(upper(n)) + 1 < TokenCap)
          <6> DEFINE p == Len(upper(n))
          <6>1. p = n /\ n \in Nat /\ ~(n < TokenCap)
            BY <2>3, <2>4, <3>2
          <6> HIDE DEF p, n
          <6>2. ~(p + 1 < TokenCap)
            BY <1>4, <6>1
          <6> QED BY <6>2 DEF p
        <5> QED BY <4>2, <5>1
      <4> QED BY <4>3, <4>4
    <3> QED BY <3>1, <3>2
  <2>7. Shape(x) = IF token \in Keywords THEN <<"?">> ELSE token
    <3>1. CASE upper(n) \in Keywords
      <4>1. x.kind = "literal"
        BY <2>5, <3>1
      <4> HIDE DEF upper, kept
      <4> QED BY <2>6, <3>1, <4>1 DEF Shape
    <3>2. CASE upper(n) \notin Keywords
      <4>1. x.kind = "word"
        BY <2>5, <3>2
      <4>2. Shape(x) = upper(kept(n))
        BY <4>1 DEF Shape
      <4> HIDE DEF upper, kept
      <4> QED BY <2>3, <2>6, <3>2, <4>2
    <3> QED BY <3>1, <3>2
  <2> QED BY <2>1, <2>2, <2>4, <2>7
<1> QED BY <1>7, <1>8

-----------------------------------------------------------------------------
(* What the steps of the scanner start from.                               *)
Scanning ==
  /\ ScanInd /\ LexemeInv
  /\ mode \notin {"idle", "done"} /\ ~GluedNumber(stmt.lexemes)

(* The places where lexemes end grow with their number.                    *)
LEMMA AtCounts ==
  ASSUME stmt \in Statements
  PROVE  LET N == Len(stmt.lexemes) IN
         /\ N \in Nat /\ At(0) = 0
         /\ \A k \in 0..N : At(k) \in Nat /\ At(k) <= At(N)
         /\ \A k \in 0..N-1 : At(k) < At(N)
         /\ \A k \in 1..N : /\ Len(stmt.lexemes[k].text) \in Nat \ {0}
                            /\ At(k) = At(k - 1) + Len(stmt.lexemes[k].text)
<1> DEFINE N == Len(stmt.lexemes)
<1>1. /\ N \in Nat /\ At(0) = 0
      /\ \A k \in 0..N : At(k) \in Nat
      /\ \A k \in 1..N : /\ Len(stmt.lexemes[k].text) \in Nat \ {0}
                         /\ At(k) = At(k - 1) + Len(stmt.lexemes[k].text)
  BY UptoCounts, LexemesAre DEF At
<1>2. ASSUME NEW k \in 0..N, k < N PROVE At(k) < At(N)
  <2>1. N \in 0..N
    BY <1>1
  <2> QED BY <1>2, <2>1, UptoGrows DEF At
<1> HIDE DEF N
<1>3. \A k \in 0..N-1 : At(k) < At(N)
  <2>1. \A k \in 0..N-1 : k \in 0..N /\ k < N
    BY <1>1
  <2> QED BY <1>2, <2>1
<1>4. ASSUME NEW k \in 0..N PROVE At(k) <= At(N)
  <2>1. CASE k < N
    <3>1. N \in 0..N
      BY <1>1
    <3>2. At(k) \in Nat /\ At(N) \in Nat /\ At(k) < At(N)
      BY <1>1, <1>2, <2>1, <3>1
    <3> QED BY <3>2
  <2>2. CASE ~(k < N)
    <3>1. k = N /\ N \in 0..N
      BY <1>1, <2>2
    <3>2. At(N) \in Nat
      BY <1>1, <3>1
    <3> QED BY <3>1, <3>2
  <2> QED BY <2>1, <2>2
<1> QED BY <1>1, <1>3, <1>4 DEF N

(* The two ways to say what the label holds agree.                         *)
LEMMA EmittedShows ==
  ASSUME NEW k
  PROVE  Emitted(k) <=> Shows(out, last_space, Before(stmt, k))
  BY DEF Emitted, Shows, Before

(* Ways to be among the lexemes after a step.                              *)
LEMMA ScansAgain ==
  ASSUME NEW k \in 0..Len(stmt.lexemes), len = At(Len(stmt.lexemes)),
         UNCHANGED call, mode' = "scan",
         Shows(out', last_space', Before(stmt, k)),
         \/ i' = At(k)
         \/ k > 0 /\ IsLine(stmt.lexemes[k]) /\ LineEnds(stmt.lexemes[k])
            /\ i' = At(k) - 1
  PROVE  AmongLexemes'
<1>1. stmt' = stmt /\ len' = len
  BY DEF call
<1>2. At(k)' = At(k) /\ At(Len(stmt.lexemes))' = At(Len(stmt.lexemes))
  BY <1>1 DEF At
<1>3. Emitted(k)' /\ Between(k)'
  BY <1>1, <1>2 DEF Emitted, Shows, Before, Between
<1> QED BY <1>1, <1>2, <1>3 DEF AmongLexemes

(* A loop that stays in its lexeme is still among the lexemes.             *)
LEMMA ReadsOn ==
  ASSUME NEW k \in 1..Len(stmt.lexemes), len = At(Len(stmt.lexemes)),
         UNCHANGED <<call, out, last_space>>,
         Shows(out, last_space, Before(stmt, k - 1)), NEW j, i' - At(k - 1) = j,
         Reading(mode', token', quote', stmt.lexemes[k], j)
  PROVE  AmongLexemes'
<1>1. stmt' = stmt /\ len' = len /\ out' = out /\ last_space' = last_space
  BY DEF call
<1>2. At(k - 1)' = At(k - 1) /\ At(Len(stmt.lexemes))' = At(Len(stmt.lexemes))
  BY <1>1 DEF At
<1>3. Emitted(k - 1)'
  BY <1>1 DEF Emitted, Shows, Before
<1>4. (Reading(mode, token, quote, stmt.lexemes[k], i - At(k - 1)))'
  BY <1>1, <1>2
<1> QED BY <1>1, <1>2, <1>3, <1>4 DEF AmongLexemes

-----------------------------------------------------------------------------
(* Between two lexemes.                                                    *)
LEMMA InScan ==
  ASSUME Scanning, mode = "scan"
  PROVE  /\ len = At(Len(stmt.lexemes)) /\ token = <<>>
         /\ \E k \in 0..Len(stmt.lexemes) :
              Shows(out, last_space, Before(stmt, k)) /\ Between(k)
<1>1. AmongLexemes /\ token = <<>>
  BY DEF Scanning, LexemeInv
<1>2. \A x, j : ~Reading("scan", token, quote, x, j)
  BY DEF Reading
<1> QED BY <1>1, <1>2, EmittedShows DEF AmongLexemes

(* A character seen between lexemes is the first of the next one.          *)
LEMMA NextLexeme ==
  ASSUME Scanning, NEW k \in 0..Len(stmt.lexemes), len = At(Len(stmt.lexemes)),
         i = At(k), Ahead(0) # None
  PROVE  k + 1 \in 1..Len(stmt.lexemes) /\ (k + 1) - 1 = k /\ Positioned(k + 1, 0)
<1> DEFINE N == Len(stmt.lexemes)
<1>1. stmt \in Statements
  BY DEF Scanning, ScanInd
<1>2. /\ N \in Nat
      /\ \A q \in 1..N : Len(stmt.lexemes[q].text) \in Nat \ {0}
      /\ \A q \in 0..N : At(q) \in Nat
  BY <1>1, AtCounts
<1>3. i < len
  <2>1. At(k) \in Nat
    BY <1>2
  <2> QED BY <2>1 DEF Ahead
<1>4. k # N
  <2>1. At(k) \in Nat
    BY <1>2
  <2> QED BY <1>3, <2>1
<1>5. k + 1 \in 1..N /\ (k + 1) - 1 = k
  <2> HIDE DEF N
  <2>1. k \in 0..N
    BY DEF N
  <2> QED BY <1>2, <1>4, <2>1
<1>6. 0 \in 0..Len(stmt.lexemes[k + 1].text)
  BY <1>2, <1>5
<1>7. i = At(k) + 0
  <2>1. At(k) \in Nat
    BY <1>2
  <2> QED BY <2>1
<1>8. Positioned(k + 1, 0)
  BY <1>5, <1>6, <1>7 DEF Positioned
<1> QED BY <1>5, <1>8

(* The end of line that a comment left unread is taken as a space.         *)
LEMMA LineEndLast ==
  ASSUME Scanning, NEW k \in 0..Len(stmt.lexemes), len = At(Len(stmt.lexemes)),
         k > 0, IsLine(stmt.lexemes[k]), LineEnds(stmt.lexemes[k]), i = At(k) - 1
  PROVE  /\ k \in 1..Len(stmt.lexemes) /\ Branch = "space"
         /\ Shape(stmt.lexemes[k]) = <<Blank>> /\ Ahead(0) # None
         /\ i + 1 = At(k)
<1> DEFINE n == Len(stmt.lexemes[k].text)
<1>1. stmt \in Statements
  BY DEF Scanning, ScanInd
<1>2. k \in 1..Len(stmt.lexemes)
  <2> DEFINE N == Len(stmt.lexemes)
  <2>1. N \in Nat /\ k \in 0..N
    BY <1>1, AtCounts
  <2> HIDE DEF N
  <2>2. k \in 1..N
    BY <2>1
  <2> QED BY <2>2 DEF N
<1>3. /\ n \in Nat \ {0} /\ At(k) = At(k - 1) + n
      /\ At(k - 1) \in Nat /\ At(k) \in Nat
  <2>1. k - 1 \in 0..Len(stmt.lexemes)
    BY <1>1, <1>2, AtCounts
  <2> QED BY <1>1, <1>2, <2>1, AtCounts
<1>4. n - 1 \in 0..n /\ i = At(k - 1) + (n - 1) /\ i + 1 = At(k)
      /\ (n - 1) + 0 < n /\ (n - 1) + 0 + 1 = n
  <2> HIDE DEF n
  <2> QED BY <1>3
<1>5. Positioned(k, n - 1)
  BY <1>2, <1>4 DEF Positioned
<1>6. Ahead(0) = stmt.lexemes[k].text[n]
  <2> DEFINE j == n - 1
  <2>1. Positioned(k, j) /\ 0 \in Nat
    BY <1>5
  <2>2. j + 0 < n /\ j + 0 + 1 = n
    BY <1>4
  <2> HIDE DEF j
  <2>3. j + 0 < n => Ahead(0) = stmt.lexemes[k].text[j + 0 + 1]
    BY <1>1, <2>1, AheadAmong
  <2> HIDE DEF n
  <2> QED BY <2>2, <2>3
<1>7. Ahead(0) \in Newlines
  BY <1>6 DEF LineEnds
<1>8. Branch = "space" /\ Ahead(0) # None
  BY <1>7 DEF Branch, Space, Newlines, Blank, Digits, Quotes, Markers, Letters, None
<1>9. Shape(stmt.lexemes[k]) = <<Blank>>
  BY DEF IsLine, Shape
<1> QED BY <1>2, <1>4, <1>8, <1>9

(* A space or a character of its own is taken.                             *)
LEMMA TakeOneStays ==
  ASSUME Scanning, TakeOne
  PROVE  AmongLexemes' /\ token' = <<>>
<1> DEFINE L == stmt.lexemes
           N == Len(L)
<1>1. /\ mode = "scan" /\ Ahead(0) # None /\ i' = i + 1 /\ UNCHANGED call
      /\ mode' = "scan" /\ token' = token
      /\ \/ Branch = "space" /\ EmitSpace
         \/ Branch = "other" /\ Emit(<<Ahead(0)>>)
  BY DEF TakeOne
<1>2. stmt \in Statements /\ len = At(N) /\ token = <<>>
  BY <1>1, InScan DEF Scanning, ScanInd
<1>3. PICK k \in 0..N : Shows(out, last_space, Before(stmt, k)) /\ Between(k)
  BY <1>1, InScan
<1>4. Before(stmt, k) \in Seq(Chars)
  BY <1>2, ShapesOfPrefixes
<1>5. CASE i = At(k)
  <2>1. k + 1 \in 1..N /\ (k + 1) - 1 = k /\ Positioned(k + 1, 0)
    BY <1>1, <1>2, <1>5, NextLexeme
  <2> DEFINE x == L[k + 1]
             c == FirstBehind(k + 1)
  <2>2. Found(x, c) /\ Sees(x, 0, c)
    BY <1>2, <2>1, SeesLexeme DEF Scanning
  <2>3. BranchOf(x)
    BY <2>2, BranchIs
  <2>4. /\ Before(stmt, k + 1) = Joined(Before(stmt, k), Shape(x))
        /\ At(k + 1) = At(k) + Len(x.text) /\ At(k) \in Nat
        /\ k + 1 \in 0..N
    BY <1>2, <2>1, ShapesOfPrefixes, AtCounts
  <2>5. Ahead(0) = x.text[1] /\ x.text \in Seq(Chars \ {NUL})
        /\ (Len(x.text) = 1 => x.text = <<x.text[1]>>)
    BY <2>2, OneChar DEF Found, Sees
  <2>6. CASE Branch = "space"
    <3>1. IsSpace(x)
      BY <2>3, <2>6 DEF BranchOf
    <3>2. Shape(x) = <<Blank>> /\ Len(x.text) = 1
      BY <3>1 DEF IsSpace, Shape
    <3>3. EmitSpace
      BY <1>1, <2>6
    <3>4. Shows(out', last_space', Before(stmt, k + 1))
      BY <1>3, <1>4, <2>4, <3>2, <3>3, EmitSpaceShows
    <3>5. i' = At(k + 1)
      BY <1>1, <1>5, <2>4, <3>2
    <3> QED BY <1>1, <1>2, <2>4, <3>4, <3>5, ScansAgain
  <2>7. CASE Branch = "other"
    <3>1. IsOther(x)
      BY <2>3, <2>7 DEF BranchOf
    <3>2. Shape(x) = x.text /\ Len(x.text) = 1 /\ Ahead(0) \notin Space
      BY <2>5, <3>1 DEF IsOther, Shape
    <3>3. Shape(x) = <<Ahead(0)>>
      BY <2>5, <3>2
    <3>4. Emit(<<Ahead(0)>>)
      BY <1>1, <2>7
    <3>5. <<Ahead(0)>> \in Seq(Chars) /\ <<Ahead(0)>> # <<>>
          /\ <<Ahead(0)>>[Len(<<Ahead(0)>>)] # Blank
      <4>1. Ahead(0) \in Chars
        <5>1. 1 \in 1..Len(x.text)
          BY <3>2
        <5> QED BY <2>5, <5>1, ElementOfSeq
      <4>2. Ahead(0) # Blank
        BY <3>2 DEF Space, Newlines
      <4> HIDE DEF x, c
      <4> QED BY <4>1, <4>2
    <3>6. Shows(out', last_space', Joined(Before(stmt, k), <<Ahead(0)>>))
      BY <1>3, <1>4, <3>4, <3>5, EmitShows
    <3>7. Shows(out', last_space', Before(stmt, k + 1))
      BY <2>4, <3>3, <3>6
    <3>8. i' = At(k + 1)
      BY <1>1, <1>5, <2>4, <3>2
    <3> QED BY <1>1, <1>2, <2>4, <3>7, <3>8, ScansAgain
  <2> QED BY <1>1, <2>6, <2>7
<1>6. CASE k > 0 /\ IsLine(L[k]) /\ LineEnds(L[k]) /\ i = At(k) - 1
  <2>1. /\ k \in 1..N /\ Branch = "space" /\ Shape(L[k]) = <<Blank>>
        /\ i + 1 = At(k)
    BY <1>2, <1>6, LineEndLast
  <2>2. EmitSpace
    BY <1>1, <2>1
  <2>3. /\ Before(stmt, k) = Joined(Before(stmt, k - 1), <<Blank>>)
        /\ Before(stmt, k - 1) \in Seq(Chars)
    <3>1. k - 1 \in 0..N
      BY <1>2, <2>1, AtCounts
    <3> QED BY <1>2, <2>1, <3>1, ShapesOfPrefixes
  <2>4. Joined(Before(stmt, k), <<Blank>>) = Before(stmt, k)
    BY <2>3, JoinedTwice
  <2>5. Shows(out', last_space', Joined(Before(stmt, k), <<Blank>>))
    BY <1>3, <1>4, <2>2, EmitSpaceShows
  <2>6. Shows(out', last_space', Before(stmt, k)) /\ i' = At(k)
    BY <1>1, <2>1, <2>4, <2>5
  <2> QED BY <1>1, <1>2, <2>6, ScansAgain
<1> QED BY <1>3, <1>5, <1>6 DEF Between

(* A loop starts.                                                          *)
LEMMA StartLoopStays ==
  ASSUME Scanning, StartLoop
  PROVE  AmongLexemes' /\ (mode' # "word" => token' = <<>>)
<1> DEFINE L == stmt.lexemes
           N == Len(L)
<1>1. /\ mode = "scan" /\ Ahead(0) # None
      /\ Branch \in Skips \cup {"word"} /\ mode' = Branch
      /\ UNCHANGED <<call, token, out, last_space>>
      /\ i' = CASE Branch \in {"line", "block", "blob"} -> i + 2
                [] Branch = "word" -> i
                [] OTHER -> i + 1
      /\ quote' = CASE Branch = "blob" -> "tick"
                    [] Branch = "quoted" -> Ahead(0)
                    [] OTHER -> quote
  BY DEF StartLoop
<1>2. stmt \in Statements /\ len = At(N) /\ token = <<>> /\ token' = <<>>
  BY <1>1, InScan DEF Scanning, ScanInd
<1>3. PICK k \in 0..N : Shows(out, last_space, Before(stmt, k)) /\ Between(k)
  BY <1>1, InScan
<1>4. Branch # "space"
  BY <1>1 DEF Skips
<1>5. i = At(k)
  BY <1>2, <1>3, <1>4, LineEndLast DEF Between
<1>6. k + 1 \in 1..N /\ (k + 1) - 1 = k /\ Positioned(k + 1, 0)
  BY <1>1, <1>2, <1>5, NextLexeme
<1> DEFINE x == L[k + 1]
           c == FirstBehind(k + 1)
           j == StartOf(Branch)
<1>7. Found(x, c) /\ Sees(x, 0, c)
  BY <1>2, <1>6, SeesLexeme DEF Scanning
<1>8. Reading(Branch, <<>>, CloseOf(Branch), x, j)
  BY <1>1, <1>7, LoopStarts
<1>9. quote' = CloseOf(Branch)
  BY <1>1 DEF CloseOf
<1>10. i' - At(k) = j
  <2>1. At(k) \in Nat
    BY <1>2, AtCounts
  <2>2. i' = i + j
    <3>1. CASE Branch \in {"line", "block", "blob"}
      BY <1>1, <3>1 DEF StartOf
    <3>2. CASE Branch = "word"
      <4>1. i' = i /\ j = 0
        BY <1>1, <3>2 DEF StartOf
      <4> HIDE DEF j
      <4> QED BY <1>5, <2>1, <4>1
    <3>3. CASE Branch \notin {"line", "block", "blob", "word"}
      BY <1>1, <3>3 DEF StartOf
    <3> QED BY <3>1, <3>2, <3>3
  <2>3. j \in Nat
    BY DEF StartOf
  <2> HIDE DEF j
  <2> QED BY <1>5, <2>1, <2>2, <2>3
<1>11. Reading(mode', token', quote', x, j)
  <2> HIDE DEF j, x
  <2> QED BY <1>1, <1>2, <1>8, <1>9
<1>12. AmongLexemes'
  <2> HIDE DEF j
  <2>1. Shows(out, last_space, Before(stmt, (k + 1) - 1)) /\ i' - At((k + 1) - 1) = j
    BY <1>3, <1>6, <1>10
  <2> QED BY <1>1, <1>2, <1>6, <1>11, <2>1, ReadsOn
<1> QED BY <1>2, <1>12

-----------------------------------------------------------------------------
(* Inside a lexeme.                                                        *)
LEMMA InLexeme ==
  ASSUME Scanning, mode # "scan"
  PROVE  \E k \in 1..Len(stmt.lexemes), j \in Nat :
           /\ len = At(Len(stmt.lexemes))
           /\ Shows(out, last_space, Before(stmt, k - 1))
           /\ Positioned(k, j)
           /\ Reading(mode, token, quote, stmt.lexemes[k], j)
           /\ k - 1 \in 0..Len(stmt.lexemes) /\ k \in 0..Len(stmt.lexemes)
           /\ At(k - 1) \in Nat /\ j \in Nat
           /\ At(k) = At(k - 1) + Len(stmt.lexemes[k].text)
           /\ Before(stmt, k - 1) \in Seq(Chars)
           /\ Before(stmt, k) = Joined(Before(stmt, k - 1), Shape(stmt.lexemes[k]))
<1> DEFINE N == Len(stmt.lexemes)
<1>1. AmongLexemes /\ stmt \in Statements /\ i \in Nat
  BY DEF Scanning, LexemeInv, ScanInd, ScanInv
<1>2. PICK k \in 1..N :
        /\ Emitted(k - 1)
        /\ Reading(mode, token, quote, stmt.lexemes[k], i - At(k - 1))
  BY <1>1 DEF AmongLexemes
<1>3. PICK j : j = i - At(k - 1)
  OBVIOUS
<1>4. k - 1 \in 0..N /\ k \in 0..N
  <2>1. N \in Nat
    BY <1>1, AtCounts
  <2> HIDE DEF N
  <2> QED BY <2>1
<1>5. /\ At(k - 1) \in Nat /\ At(k) = At(k - 1) + Len(stmt.lexemes[k].text)
      /\ Before(stmt, k - 1) \in Seq(Chars)
      /\ Before(stmt, k) = Joined(Before(stmt, k - 1), Shape(stmt.lexemes[k]))
  BY <1>1, <1>4, AtCounts, ShapesOfPrefixes
<1>6. Shows(out, last_space, Before(stmt, k - 1))
  BY <1>2, EmittedShows
<1>7. Reading(mode, token, quote, stmt.lexemes[k], j)
  BY <1>2, <1>3
<1>8. j \in 0..Len(stmt.lexemes[k].text)
  BY <1>7 DEF Reading
<1>9. i = At(k - 1) + j /\ j \in Nat
  BY <1>1, <1>3, <1>5, <1>8
<1>10. len = At(N)
  BY <1>1 DEF AmongLexemes
<1>11. Positioned(k, j)
  BY <1>8, <1>9, <1>10 DEF Positioned
<1> QED BY <1>4, <1>5, <1>6, <1>7, <1>9, <1>10, <1>11

(* A loop that skips a character stays in its lexeme.                      *)
LEMMA SkipOnStays ==
  ASSUME Scanning, SkipOn
  PROVE  AmongLexemes' /\ token' = <<>>
<1>1. /\ mode \in Skips /\ Round > 0 /\ i' = i + Round
      /\ UNCHANGED <<call, mode, quote, token, out, last_space>>
      /\ mode # "scan" /\ mode # "word"
  BY DEF SkipOn, Skips
<1>2. stmt \in Statements /\ quote # None /\ token' = <<>>
  BY <1>1 DEF Scanning, ScanInd, LexemeInv
<1>3. PICK k \in 1..Len(stmt.lexemes), j \in Nat :
           /\ len = At(Len(stmt.lexemes))
           /\ Shows(out, last_space, Before(stmt, k - 1))
           /\ Positioned(k, j)
           /\ Reading(mode, token, quote, stmt.lexemes[k], j)
           /\ At(k - 1) \in Nat /\ j \in Nat
  BY <1>1, InLexeme
<1> DEFINE x == stmt.lexemes[k]
           c == FirstBehind(k)
<1>4. Within(x, c, j)
  BY <1>1, <1>2, <1>3, SeesLexeme DEF Within, Scanning
<1>5. GoesOn(x, j)
  BY <1>4, LoopRound
<1>6. Reading(mode, token, quote, x, j + Round)
  BY <1>1, <1>5 DEF GoesOn
<1>7. i' - At(k - 1) = j + Round
  <2>1. Round \in Nat
    BY <1>1 DEF Round
  <2>2. i = At(k - 1) + j
    BY <1>3 DEF Positioned
  <2> QED BY <1>1, <1>3, <2>1, <2>2
<1>8. Reading(mode', token', quote', x, j + Round)
  BY <1>1, <1>6
<1> QED BY <1>1, <1>2, <1>3, <1>7, <1>8, ReadsOn

(* A loop that ends leaves the scanner behind its lexeme.                  *)
LEMMA SkipEndsStays ==
  ASSUME Scanning, SkipEnds
  PROVE  AmongLexemes' /\ token' = <<>>
<1>1. /\ mode \in Skips /\ Round = 0 /\ i' = i + Closing /\ mode' = "scan"
      /\ IF mode \in {"line", "block"} THEN EmitSpace ELSE EmitLiteral
      /\ UNCHANGED call /\ UNCHANGED token
      /\ mode # "scan" /\ mode # "word"
  BY DEF SkipEnds, Skips
<1>2. stmt \in Statements /\ quote # None /\ token' = <<>>
  BY <1>1 DEF Scanning, ScanInd, LexemeInv
<1>3. PICK k \in 1..Len(stmt.lexemes), j \in Nat :
           /\ len = At(Len(stmt.lexemes))
           /\ Shows(out, last_space, Before(stmt, k - 1))
           /\ Positioned(k, j)
           /\ Reading(mode, token, quote, stmt.lexemes[k], j)
           /\ k \in 0..Len(stmt.lexemes) /\ At(k - 1) \in Nat /\ j \in Nat
           /\ At(k) = At(k - 1) + Len(stmt.lexemes[k].text)
           /\ Before(stmt, k - 1) \in Seq(Chars)
           /\ Before(stmt, k) = Joined(Before(stmt, k - 1), Shape(stmt.lexemes[k]))
  BY <1>1, InLexeme
<1> DEFINE x == stmt.lexemes[k]
           c == FirstBehind(k)
           n == Len(x.text)
<1>4. Within(x, c, j)
  BY <1>1, <1>2, <1>3, SeesLexeme DEF Within, Scanning
<1>5. /\ ComesToEnd(x, j)
      /\ Shape(x) = IF mode \in {"line", "block"} THEN <<Blank>> ELSE <<"?">>
  BY <1>4, LoopRound
<1>6. Shows(out', last_space', Before(stmt, k))
  <2>1. CASE mode \in {"line", "block"}
    <3>1. EmitSpace /\ Before(stmt, k) = Joined(Before(stmt, k - 1), <<Blank>>)
      BY <1>1, <1>3, <1>5, <2>1
    <3> QED BY <1>3, <3>1, EmitSpaceShows
  <2>2. CASE mode \notin {"line", "block"}
    <3>1. EmitLiteral /\ Before(stmt, k) = Joined(Before(stmt, k - 1), <<"?">>)
      BY <1>1, <1>3, <1>5, <2>2
    <3>2. Emit(<<"?">>)
      BY <3>1 DEF EmitLiteral
    <3>3. <<"?">> \in Seq(Chars) /\ <<"?">> # <<>> /\ <<"?">>[Len(<<"?">>)] # Blank
      BY SpaceShape DEF Blank
    <3> QED BY <1>3, <3>1, <3>2, <3>3, EmitShows
  <2> QED BY <2>1, <2>2
<1>7. \/ i' = At(k)
      \/ k > 0 /\ IsLine(x) /\ LineEnds(x) /\ i' = At(k) - 1
  <2>1. \/ j + Closing = n
        \/ j + Closing = n - 1 /\ IsLine(x) /\ LineEnds(x)
    BY <1>1, <1>5 DEF ComesToEnd
  <2>2. Closing \in Nat
    BY DEF Closing
  <2>3. i = At(k - 1) + j
    BY <1>3 DEF Positioned
  <2>4. n \in Nat /\ k > 0
    <3>1. n \in Nat
      BY <1>4 DEF Within, Found
    <3> QED BY <3>1
  <2>5. CASE j + Closing = n
    <3> HIDE DEF n
    <3> QED BY <1>1, <1>3, <2>2, <2>3, <2>4, <2>5 DEF n
  <2>6. CASE j + Closing = n - 1 /\ IsLine(x) /\ LineEnds(x)
    <3> DEFINE a == At(k - 1)
               b == At(k)
    <3>1. /\ b = a + n /\ a \in Nat /\ n \in Nat /\ i = a + j /\ i' = i + Closing
          /\ j \in Nat /\ Closing \in Nat /\ j + Closing = n - 1
      BY <1>1, <1>3, <2>2, <2>3, <2>4, <2>6
    <3> HIDE DEF n, x, a, b
    <3>2. i' = b - 1
      BY <3>1
    <3> QED BY <2>4, <2>6, <3>2 DEF b
  <2> QED BY <2>1, <2>5, <2>6
<1> QED BY <1>1, <1>2, <1>3, <1>6, <1>7, ScansAgain

(* A word's loop that takes a character stays in the word.                 *)
LEMMA WordOnStays ==
  ASSUME Scanning, WordOn
  PROVE  AmongLexemes' /\ mode' = "word"
<1>1. /\ mode = "word" /\ IsIdentifierChar(Ahead(0)) /\ i' = i + 1
      /\ token' = IF Len(token) + 1 < TokenCap
                  THEN Append(token, Uppercase(Ahead(0))) ELSE token
      /\ UNCHANGED <<call, mode, quote, out, last_space>>
  BY DEF WordOn
<1>2. stmt \in Statements
  BY DEF Scanning, ScanInd
<1>3. PICK k \in 1..Len(stmt.lexemes), j \in Nat :
           /\ len = At(Len(stmt.lexemes))
           /\ Shows(out, last_space, Before(stmt, k - 1))
           /\ Positioned(k, j)
           /\ Reading(mode, token, quote, stmt.lexemes[k], j)
           /\ At(k - 1) \in Nat /\ j \in Nat
  BY <1>1, InLexeme
<1> DEFINE x == stmt.lexemes[k]
           c == FirstBehind(k)
<1>4. Found(x, c) /\ Sees(x, j, c)
  BY <1>2, <1>3, SeesLexeme DEF Scanning
<1>5. Reading("word", token', quote, x, j + 1)
  BY <1>1, <1>3, <1>4, WordRound
<1>6. i' - At(k - 1) = j + 1
  <2>1. i = At(k - 1) + j
    BY <1>3 DEF Positioned
  <2> QED BY <1>1, <1>3, <2>1
<1>7. Reading(mode', token', quote', x, j + 1)
  BY <1>1, <1>5
<1> QED BY <1>1, <1>3, <1>6, <1>7, ReadsOn

(* A word that ends is in the label, as a word or as a literal.            *)
LEMMA WordEndsStays ==
  ASSUME Scanning, WordEnds
  PROVE  AmongLexemes' /\ token' = <<>>
<1>1. /\ mode = "word" /\ ~IsIdentifierChar(Ahead(0)) /\ mode' = "scan"
      /\ IF token \in Keywords THEN EmitLiteral ELSE Emit(token)
      /\ UNCHANGED call /\ i' = i /\ token' = <<>>
  BY DEF WordEnds
<1>2. stmt \in Statements /\ token \in Seq(Solid)
  BY DEF Scanning, ScanInd, ScanInv
<1>3. PICK k \in 1..Len(stmt.lexemes), j \in Nat :
           /\ len = At(Len(stmt.lexemes))
           /\ Shows(out, last_space, Before(stmt, k - 1))
           /\ Positioned(k, j)
           /\ Reading(mode, token, quote, stmt.lexemes[k], j)
           /\ k \in 0..Len(stmt.lexemes) /\ At(k - 1) \in Nat /\ j \in Nat
           /\ At(k) = At(k - 1) + Len(stmt.lexemes[k].text)
           /\ Before(stmt, k - 1) \in Seq(Chars)
           /\ Before(stmt, k) = Joined(Before(stmt, k - 1), Shape(stmt.lexemes[k]))
  BY <1>1, InLexeme
<1> DEFINE x == stmt.lexemes[k]
           c == FirstBehind(k)
           shape == IF token \in Keywords THEN <<"?">> ELSE token
<1>4. Found(x, c) /\ Sees(x, j, c)
  BY <1>2, <1>3, SeesLexeme DEF Scanning
<1>5. j = Len(x.text) /\ token # <<>> /\ Shape(x) = shape
  BY <1>1, <1>3, <1>4, WordRound
<1>6. Emit(shape)
  BY <1>1 DEF EmitLiteral
<1>7. shape \in Seq(Chars) /\ shape # <<>> /\ shape[Len(shape)] # Blank
  <2>1. CASE token \in Keywords
    <3>1. <<"?">> \in Seq(Chars) /\ <<"?">> # <<>> /\ <<"?">>[Len(<<"?">>)] # Blank
      BY SpaceShape DEF Blank
    <3> QED BY <2>1, <3>1
  <2>2. CASE token \notin Keywords
    <3>1. Solid \subseteq Chars /\ Blank \notin Solid
      BY DEF Solid, Printed
    <3>2. token \in Seq(Chars)
      BY <1>2, <3>1, SeqMonotonic
    <3>3. Len(token) \in 1..Len(token)
      <4>1. Len(token) \in Nat \ {0}
        BY <1>2, <1>5, EmptySeq
      <4> QED BY <4>1
    <3>4. token[Len(token)] \in Solid
      BY <1>2, <3>3, ElementOfSeq
    <3> QED BY <1>5, <2>2, <3>1, <3>2, <3>4
  <2> QED BY <2>1, <2>2
<1>8. Shows(out', last_space', Before(stmt, k))
  <2> HIDE DEF shape
  <2>1. Shows(out', last_space', Joined(Before(stmt, k - 1), shape))
    BY <1>3, <1>6, <1>7, EmitShows
  <2> QED BY <1>3, <1>5, <2>1
<1>9. i' = At(k)
  BY <1>1, <1>3, <1>5 DEF Positioned
<1> QED BY <1>1, <1>3, <1>8, <1>9, ScansAgain

(* The end of the text is the end of its last lexeme.                      *)
LEMMA LabelIsCanonical ==
  ASSUME Scanning, InternLabel
  PROVE  interned'.text = Canonical(stmt.lexemes)
<1> DEFINE N == Len(stmt.lexemes)
<1>1. /\ mode = "scan" /\ Ahead(0) = None
      /\ interned' = [form |-> "sqlfp", text |-> Trimmed(out)]
  BY DEF InternLabel
<1>2. stmt \in Statements /\ len = At(N) /\ ScanInd
  BY <1>1, InScan DEF Scanning, ScanInd
<1>3. PICK k \in 0..N : Shows(out, last_space, Before(stmt, k)) /\ Between(k)
  BY <1>1, InScan
<1>4. i = At(k)
  BY <1>1, <1>2, <1>3, LineEndLast DEF Between, Scanning
<1>5. i >= len
  <2>1. Ahead(0) = None <=> i + 0 >= len
    BY <1>2, AheadOK
  <2>2. i \in Nat
    BY <1>2 DEF ScanInd, ScanInv
  <2> QED BY <1>1, <2>1, <2>2
<1>6. k = N
  <2>1. N \in Nat /\ At(k) \in Nat /\ At(N) \in Nat /\ (k \in 0..N-1 => At(k) < At(N))
    <3>1. N \in Nat
      BY <1>2, AtCounts
    <3>2. N \in 0..N
      BY <3>1
    <3> QED BY <1>2, <3>1, <3>2, AtCounts
  <2> HIDE DEF N
  <2>2. k \in 0..N
    BY DEF N
  <2> QED BY <1>2, <1>4, <1>5, <2>1, <2>2
<1>7. out = Capped(Shapes[stmt.lexemes])
  BY <1>2, <1>3, <1>6, ShapesOfPrefixes DEF Shows
<1> QED BY <1>1, <1>7 DEF Canonical

-----------------------------------------------------------------------------
(* The length the shim finds is that of the lexemes.                       *)
LEMMA NoNulInLexemes ==
  ASSUME NEW s \in Statements
  PROVE  \A q \in 1..Upto(s.lexemes)[Len(s.lexemes)] : s.memory[q] # NUL
<1> DEFINE N == Len(s.lexemes)
           n == Upto(s.lexemes)
           size(k) == Len(s.lexemes[k].text)
           S == {k \in Nat : k <= N => \A q \in 1..n[k] : s.memory[q] # NUL}
<1>1. /\ N \in Nat /\ n[0] = 0
      /\ \A k \in 0..N : n[k] \in Nat
      /\ \A k \in 1..N : n[k] = n[k - 1] + size(k) /\ size(k) \in Nat
  BY UptoCounts, LexemesAre
<1>2. ASSUME NEW k \in 1..N, NEW j \in 1..size(k)
      PROVE  s.memory[n[k - 1] + j] # NUL
  <2>1. s.memory[n[k - 1] + j] = s.lexemes[k].text[j]
    BY LexemesAssumption DEF Lexed, Consists
  <2>2. s.lexemes[k].text \in Seq(Chars \ {NUL})
    BY LexemesAre
  <2>3. s.lexemes[k].text[j] \in Chars \ {NUL}
    BY <2>2, ElementOfSeq
  <2> QED BY <2>1, <2>3
<1> HIDE DEF N, n, size
<1>3. 0 \in S
  BY <1>1
<1>4. ASSUME NEW k \in Nat, k \in S PROVE k + 1 \in S
  <2> SUFFICES ASSUME k + 1 <= N, NEW q \in 1..n[k + 1] PROVE s.memory[q] # NUL
    OBVIOUS
  <2>1. k + 1 \in 1..N /\ (k + 1) - 1 = k /\ k <= N /\ k \in 0..N
    BY <1>1
  <2>2. /\ n[k + 1] = n[k] + size(k + 1) /\ size(k + 1) \in Nat /\ n[k] \in Nat
    BY <1>1, <2>1
  <2>3. CASE q <= n[k]
    <3>1. q \in 1..n[k]
      BY <2>2, <2>3
    <3> QED BY <1>4, <2>1, <3>1
  <2>4. CASE ~(q <= n[k])
    <3> DEFINE j == q - n[k]
    <3>1. j \in 1..size(k + 1) /\ n[k] + j = q
      <4> DEFINE a == n[k]
                 b == size(k + 1)
      <4>1. q \in 1..(a + b) /\ a \in Nat /\ b \in Nat /\ ~(q <= a)
        BY <2>2, <2>4
      <4> HIDE DEF a, b
      <4>2. q - a \in 1..b /\ a + (q - a) = q
        BY <4>1
      <4> QED BY <4>2 DEF a, b
    <3> HIDE DEF j
    <3> QED BY <1>2, <2>1, <3>1
  <2> QED BY <2>3, <2>4
<1> HIDE DEF S
<1>5. \A k \in Nat : k \in S
  BY <1>3, <1>4, Induction
<1>6. \A q \in 1..n[N] : s.memory[q] # NUL
  BY <1>1, <1>5 DEF S
<1> QED BY <1>6 DEF n, N

(* The length the scanner goes by is that of the lexemes.                  *)
LEMMA LengthIsOfLexemes ==
  ASSUME NEW s \in Statements
  PROVE  StatementLen(s.memory, s.nByte) = Upto(s.lexemes)[Len(s.lexemes)]
<1> DEFINE m == s.memory
           chars == Upto(s.lexemes)[Len(s.lexemes)]
           f == FirstNul(m)
<1>1. \A q \in 1..chars : m[q] # NUL
  BY NoNulInLexemes
<1>2. /\ s.nByte \in Int /\ m \in Seq(Chars) /\ Len(m) \in Nat
  BY FingerprintAssumption, LenProperties
<1>3. /\ chars <= Len(m)
      /\ s.nByte < 0 \/ s.nByte >= chars
      /\ s.nByte = chars \/ (chars < Len(m) /\ m[chars + 1] = NUL)
  BY LexemesAssumption DEF Lexed
<1>4. chars \in Nat
  <2>1. Len(s.lexemes) \in 0..Len(s.lexemes)
    <3>1. Len(s.lexemes) \in Nat
      BY LexemesAre
    <3> QED BY <3>1
  <2> QED BY <2>1, UptoCounts
<1>5. f \in 0..Len(m)-1 /\ m[f + 1] = NUL /\ \A q \in 1..f : m[q] # NUL
  <2>1. \E k \in 0..Len(m)-1 : m[k + 1] = NUL /\ \A q \in 1..k : m[q] # NUL
    BY FingerprintAssumption
  <2> QED BY <2>1 DEF FirstNul
<1>6. StatementLen(m, s.nByte) = IF s.nByte < 0 \/ f < s.nByte THEN f ELSE s.nByte
  BY DEF StatementLen
<1> HIDE DEF m, chars, f
<1>7. f >= chars
  BY <1>1, <1>2, <1>4, <1>5
<1>8. chars < Len(m) /\ m[chars + 1] = NUL => f = chars
  BY <1>2, <1>4, <1>5, <1>7
<1>9. StatementLen(m, s.nByte) = chars
  BY <1>2, <1>3, <1>4, <1>5, <1>6, <1>7, <1>8
<1> QED BY <1>9 DEF m, chars

(* A prepared statement is scanned from before its first lexeme.           *)
LEMMA ScanBegins ==
  ASSUME ScanInd, LexemeInv, PrepareScan
  PROVE  AmongLexemes'
<1> DEFINE N == Len(stmt.lexemes)
<1>1. /\ mode = "idle" /\ mode' = "scan" /\ stmt \in Statements
      /\ len' = StatementLen(stmt.memory, stmt.nByte)
      /\ UNCHANGED <<stmt, i, out, last_space>>
      /\ i = 0 /\ out = <<>> /\ last_space = FALSE
  BY DEF PrepareScan, ScanInd, LexemeInv
<1>2. len' = At(N)
  BY <1>1, LengthIsOfLexemes DEF At
<1>3. At(0) = 0 /\ 0 \in 0..N
  <2>1. N \in Nat /\ At(0) = 0
    BY <1>1, AtCounts
  <2> HIDE DEF N
  <2> QED BY <2>1
<1>4. Shows(out, last_space, Before(stmt, 0))
  <2>1. Before(stmt, 0) = <<>> /\ <<>> \in Seq(Chars)
    BY <1>1, ShapesOfPrefixes
  <2>2. Capped(<<>>) = <<>>
    BY <2>1, CappedEmpty
  <2> QED BY <1>1, <2>1, <2>2 DEF Shows
<1>5. At(0)' = At(0) /\ At(N)' = At(N)
  BY <1>1 DEF At
<1>6. Emitted(0)' /\ Between(0)'
  BY <1>1, <1>3, <1>4, <1>5 DEF Emitted, Shows, Before, Between
<1> QED BY <1>1, <1>2, <1>3, <1>5, <1>6 DEF AmongLexemes

-----------------------------------------------------------------------------
(* No statement is being scanned at the start.                             *)
LEMMA LexemeInit == Init => LexemeInv
  BY DEF Init, LexemeInv, FingerprintCanonical

(* Every step keeps the scanner among the lexemes and labels canonical.    *)
LEMMA LexemeStep == ScanInd /\ LexemeInv /\ [Next]_vars => LexemeInv'
<1> SUFFICES ASSUME ScanInd, LexemeInv, [Next]_vars PROVE LexemeInv'
  OBVIOUS
<1>1. CASE Exec \/ PrepareRaw \/ PrepareRedacted
  <2>1. /\ mode = "idle" /\ mode' = "done" /\ token' = token
        /\ interned'.form \in {"exec", "raw", "redacted"}
    BY <1>1 DEF Exec, PrepareRaw, PrepareRedacted, InternWhole
  <2> QED BY <2>1 DEF LexemeInv, FingerprintCanonical
<1>2. CASE PrepareScan
  <2>1. /\ mode = "idle" /\ mode' = "scan" /\ token' = token /\ interned' = interned
    BY <1>2 DEF PrepareScan
  <2>2. AmongLexemes'
    BY <1>2, ScanBegins
  <2> QED BY <2>1, <2>2 DEF LexemeInv, FingerprintCanonical
<1>3. CASE TakeOne \/ StartLoop \/ SkipOn \/ SkipEnds \/ WordOn \/ WordEnds
  <2>1. /\ mode \notin {"idle", "done"} /\ mode' \notin {"idle", "done"}
        /\ stmt' = stmt /\ interned' = interned
    BY <1>3 DEF TakeOne, StartLoop, SkipOn, SkipEnds, WordOn, WordEnds, Skips, call
  <2>2. ~GluedNumber(stmt.lexemes) => AmongLexemes'
    BY <1>3, <2>1, TakeOneStays, StartLoopStays, SkipOnStays, SkipEndsStays,
       WordOnStays, WordEndsStays DEF Scanning
  <2>3. mode' # "word" => token' = <<>>
    <3>1. mode # "word" => token = <<>>
      BY DEF LexemeInv
    <3> QED BY <1>3, <3>1 DEF TakeOne, StartLoop, SkipOn, SkipEnds, WordOn, WordEnds, Skips
  <2> QED BY <2>1, <2>2, <2>3 DEF LexemeInv, FingerprintCanonical
<1>4. CASE InternLabel
  <2>1. /\ mode = "scan" /\ mode' = "done" /\ token' = token /\ stmt' = stmt
    BY <1>4 DEF InternLabel, call
  <2>2. ~GluedNumber(stmt.lexemes) => interned'.text = Canonical(stmt.lexemes)
    BY <1>4, <2>1, LabelIsCanonical DEF Scanning
  <2> QED BY <2>1, <2>2 DEF LexemeInv, FingerprintCanonical
<1>5. CASE UNCHANGED vars
  <2>1. UNCHANGED <<stmt, len, i, mode, quote, token, out, last_space, interned>>
    BY <1>5 DEF vars, call
  <2>2. AmongLexemes' <=> AmongLexemes
    BY <2>1 DEF AmongLexemes, Emitted, Between, At
  <2> QED BY <2>1, <2>2 DEF LexemeInv, FingerprintCanonical
<1> QED BY <1>1, <1>2, <1>3, <1>4, <1>5 DEF Next, Scan

(* Whatever the length argument of a statement, what lies behind it and    *)
(* the sizes of the buffers: what intern_fingerprinted_sql gives to the    *)
(* pool is the canonical form of the lexemes, unless one of them is a      *)
(* number directly followed by a sign.  Lexemes are SQLite's, except that  *)
(* a carriage return ends a comment of one line (SqlLexemes).              *)
THEOREM FingerprintIsCanonical == Spec => []FingerprintCanonical
<1>1. LexemeInv => FingerprintCanonical
  BY DEF LexemeInv
<1> QED BY <1>1, ScanInit, ScanStep, LexemeInit, LexemeStep, PTL DEF Spec
=============================================================================
