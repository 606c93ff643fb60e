----------------------------- MODULE StringPool -----------------------------
(***************************************************************************)
(* The shared string pool: tlt_intern_string of native/tracelite_runtime.c *)
(* reserves bytes with a CAS on string_pool_head and fills them in         *)
(* afterwards; _readStringPool of lib/src/trace.dart walks the entries     *)
(* from byte 0, each one's length telling where the next one starts.       *)
(*                                                                         *)
(* The pool is a byte array because the walk reads whatever bytes stand    *)
(* where it expects a length.                                              *)
(***************************************************************************)
EXTENDS Integers, Sequences

CONSTANTS
  Threads,        (* producers of any process mapping the region           *)
  Strings,        (* what they intern, as sequences of bytes               *)
  PoolBytes,      (* string_pool_size                                      *)
  MaxCalls        (* bound: calls of tlt_intern_string per thread          *)

(* n < 2^32, in numbers TLC can hold.                                      *)
FitsWord(n) == n \div 16777216 < 256

(* string_pool_size and needed are uint32_t: a string so long that needed  *)
(* wraps around is outside this model.                                     *)
ASSUME PoolAssumption ==
  /\ PoolBytes \in Nat /\ FitsWord(PoolBytes)
  /\ MaxCalls \in Nat
  /\ \A s \in Strings : s \in Seq(0..255) /\ FitsWord(4 + Len(s))

VARIABLES
  pool,           (* the bytes; a created file is zeros                    *)
  pool_head,      (* string_pool_head                                      *)
  pc,             (* where a thread is in tlt_intern_string                *)
  str,            (* its argument                                          *)
  cur,            (* the head value it last loaded                         *)
  calls,          (* calls it has made                                     *)
  (* History.                                                              *)
  reserved,       (* entries whose CAS succeeded                           *)
  interned        (* entries whose id has been returned                    *)

vars == <<pool, pool_head, pc, str, cur, calls, reserved, interned>>

LenBytes == 4
Needed(s) == LenBytes + Len(s)

(* The length is stored as four bytes, least significant first.            *)
Weight == <<1, 256, 65536, 16777216>>
LenByte(s, k) == (Len(s) \div Weight[k + 1]) % 256

Entry(id, s) == [id |-> id, s |-> s]
Mine(t) == Entry(cur[t], str[t])

Init ==
  /\ pool = [b \in 0..PoolBytes-1 |-> 0]
  /\ pool_head = 0
  /\ pc = [t \in Threads |-> "idle"]
  /\ str = [t \in Threads |-> <<>>]
  /\ cur = [t \in Threads |-> 0]
  /\ calls = [t \in Threads |-> 0]
  /\ reserved = {}
  /\ interned = {}

Goto(t, label) == pc' = [pc EXCEPT ![t] = label]

Call(t, s) ==
  /\ pc[t] = "idle"
  /\ calls[t] < MaxCalls
  /\ calls' = [calls EXCEPT ![t] = @ + 1]
  /\ str' = [str EXCEPT ![t] = s]
  /\ Goto(t, "load")
  /\ UNCHANGED <<pool, pool_head, cur, reserved, interned>>

(* Mutant: the room check forgets the length prefix.                       *)
LoadHeadNoPrefix(t) ==
  /\ pc[t] = "load"
  /\ cur' = [cur EXCEPT ![t] = pool_head]
  /\ Goto(t, IF pool_head + Len(str[t]) > PoolBytes THEN "idle" ELSE "cas")
  /\ UNCHANGED <<pool, pool_head, str, calls, reserved, interned>>

(* Loads the head; a string that does not fit gets the overflow sentinel   *)
(* and leaves the pool alone.                                              *)
LoadHead(t) ==
  /\ pc[t] = "load"
  /\ cur' = [cur EXCEPT ![t] = pool_head]
  /\ Goto(t, IF pool_head + Needed(str[t]) > PoolBytes THEN "idle" ELSE "cas")
  /\ UNCHANGED <<pool, pool_head, str, calls, reserved, interned>>

(* Mutant: a plain store of the new head instead of a CAS.                 *)
ReserveBlindly(t) ==
  /\ pc[t] = "cas"
  /\ pool_head' = cur[t] + Needed(str[t])
  /\ reserved' = reserved \cup {Mine(t)}
  /\ Goto(t, "len")
  /\ UNCHANGED <<pool, str, cur, calls, interned>>

Reserve(t) ==
  /\ pc[t] = "cas"
  /\ pool_head = cur[t]
  /\ pool_head' = cur[t] + Needed(str[t])
  /\ reserved' = reserved \cup {Mine(t)}
  /\ Goto(t, "len")
  /\ UNCHANGED <<pool, str, cur, calls, interned>>

(* Mutant: the loop tries the CAS again without loading the head again.    *)
RetryStale(t) == pc[t] = "cas" /\ pool_head # cur[t] /\ UNCHANGED vars

(* Another thread was first, or the weak CAS fails on its own.             *)
Retry(t) ==
  /\ pc[t] = "cas"
  /\ Goto(t, "load")
  /\ UNCHANGED <<pool, pool_head, str, cur, calls, reserved, interned>>

(* Mutant: the prefix counts its own bytes.                                *)
StoreNeeded(t) ==
  /\ pc[t] = "len"
  /\ pool' = [pool EXCEPT ![cur[t]] = Needed(str[t])]
  /\ Goto(t, "bytes")
  /\ UNCHANGED <<pool_head, str, cur, calls, reserved, interned>>

StoreLen(t) ==
  /\ pc[t] = "len"
  /\ pool' = [b \in DOMAIN pool |->
                IF b \in cur[t]..cur[t]+LenBytes-1
                THEN LenByte(str[t], b - cur[t]) ELSE pool[b]]
  /\ Goto(t, "bytes")
  /\ UNCHANGED <<pool_head, str, cur, calls, reserved, interned>>

(* memcpy, and the id is returned.                                         *)
StoreBytes(t) ==
  /\ pc[t] = "bytes"
  /\ pool' = [b \in DOMAIN pool |->
                IF b \in cur[t]+LenBytes..cur[t]+Needed(str[t])-1
                THEN str[t][b - cur[t] - LenBytes + 1] ELSE pool[b]]
  /\ interned' = interned \cup {Mine(t)}
  /\ Goto(t, "idle")
  /\ UNCHANGED <<pool_head, str, cur, calls, reserved>>

(* The thread's process is killed.                                         *)
Crash(t) ==
  /\ pc[t] # "dead"
  /\ Goto(t, "dead")
  /\ UNCHANGED <<pool, pool_head, str, cur, calls, reserved, interned>>

Intern(t) ==
  \/ LoadHead(t) \/ Reserve(t) \/ Retry(t) \/ StoreLen(t) \/ StoreBytes(t)

Next ==
  \E t \in Threads :
    \/ \E s \in Strings : Call(t, s)
    \/ Intern(t)
    \/ Crash(t)

Spec == Init /\ [][Next]_vars

(* Running threads keep running; a weak CAS that can succeed again and     *)
(* again does not fail spuriously for ever.                                *)
FairSpec ==
  /\ Spec
  /\ \A t \in Threads : WF_vars(Intern(t)) /\ SF_vars(Reserve(t))

-----------------------------------------------------------------------------
(* The reader's walk over the pool bytes, as a set of entries.             *)

WordAt(p) ==
  pool[p] * Weight[1] + pool[p+1] * Weight[2]
    + pool[p+2] * Weight[3] + pool[p+3] * Weight[4]

Limit == IF pool_head < PoolBytes THEN pool_head ELSE PoolBytes

Walk ==
  LET from[p \in Nat] ==
        IF p + LenBytes > Limit \/ p + LenBytes + WordAt(p) > Limit THEN {}
        ELSE {Entry(p, [i \in 1..WordAt(p) |-> pool[p + LenBytes + i - 1]])}
             \cup from[p + LenBytes + WordAt(p)]
  IN  from[0]

-----------------------------------------------------------------------------
(* Properties.                                                             *)

(* Every variable has the shape the code gives it.                         *)
TypeOK ==
  /\ pool \in [0..PoolBytes-1 -> 0..255]
  /\ pool_head \in 0..PoolBytes
  /\ pc \in [Threads -> {"idle", "load", "cas", "len", "bytes", "dead"}]
  /\ str \in [Threads -> Strings \cup {<<>>}]
  /\ cur \in [Threads -> Nat]
  /\ calls \in [Threads -> 0..MaxCalls]
  /\ reserved \subseteq [id : Nat, s : Strings \cup {<<>>}]
  /\ interned \subseteq reserved

Before(e, f) == e.id + Needed(e.s) <= f.id

(* However the CAS attempts interleave, two reservations never share a     *)
(* byte and all of them lie below the head, which never passes the pool's  *)
(* end: a thread whose CAS succeeds still has the room it checked          *)
(* (native/tracelite_runtime.c:352-359).                                   *)
ReservationsDisjoint ==
  /\ pool_head <= PoolBytes
  /\ \A e \in reserved : e.id + Needed(e.s) <= pool_head
  /\ \A e, f \in reserved : e = f \/ Before(e, f) \/ Before(f, e)

LenInPlace(e) == \A k \in 0..LenBytes-1 : pool[e.id + k] = LenByte(e.s, k)
BytesInPlace(e) ==
  \A i \in 1..Len(e.s) : pool[e.id + LenBytes + i - 1] = e.s[i]

(* A string whose id was returned keeps its length and its bytes, whatever *)
(* other producers intern and wherever they die                            *)
(* (native/tracelite_runtime.c:361-365).                                   *)
InternedIntact ==
  \A e \in interned : LenInPlace(e) /\ BytesInPlace(e)

Holes == reserved \ interned

(* A reader that looks at the pool at any moment, also while strings are   *)
(* being interned or after a crash, finds under its id every string that   *)
(* was interned below the first unfilled reservation; when all are filled, *)
(* it finds those strings and no others.                                   *)
WalkSoundBelowHoles ==
  /\ \A e \in interned : (\A h \in Holes : e.id < h.id) => e \in Walk
  /\ Holes = {} => Walk = interned

(* doc/runtime-protocol.md:554 promises that any producer crash is         *)
(* survived with at worst some events lost: once nobody is interning, every*)
(* id that was handed out still names its string.                          *)
CrashKeepsStrings ==
  (\A t \in Threads : pc[t] \in {"idle", "dead"}) => interned \subseteq Walk

(* A call returns although other threads compete for the same bytes, die   *)
(* after reserving, or fill the pool: nobody holds anything it waits for.  *)
(* The others make at most MaxCalls calls each; against callers that never *)
(* stop interning the CAS loop is lock-free, not wait-free.                *)
InternReturns ==
  \A t \in Threads : pc[t] # "idle" ~> pc[t] \in {"idle", "dead"}

-----------------------------------------------------------------------------
(* The inductive invariant behind the first three: who may still write     *)
(* where (module StringPoolProofs).                                        *)

Filling(t) == pc[t] \in {"len", "bytes"}

OwnersApart ==
  /\ \A t \in Threads : Filling(t) => Mine(t) \in Holes
  /\ \A t, u \in Threads :
       Filling(t) /\ Filling(u) /\ t # u => Mine(t) # Mine(u)

HalfFilled ==
  /\ \A t \in Threads : pc[t] = "bytes" => LenInPlace(Mine(t))
  /\ InternedIntact

(* What a thread knows when it tries the CAS.                              *)
RoomSeen ==
  \A t \in Threads : pc[t] = "cas" => cur[t] + Needed(str[t]) <= PoolBytes

(* The reservations leave no gap: each byte where one ends, and byte 0, is *)
(* where another starts or is the head.                                    *)
Tiled ==
  {0} \cup {e.id + Needed(e.s) : e \in reserved}
    = {pool_head} \cup {e.id : e \in reserved}

PoolInv ==
  /\ TypeOK /\ ReservationsDisjoint /\ Tiled
  /\ OwnersApart /\ HalfFilled /\ RoomSeen
=============================================================================
