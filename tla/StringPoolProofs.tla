-------------------------- MODULE StringPoolProofs --------------------------
(***************************************************************************)
(* Proofs about StringPool for any number of threads, any strings and any  *)
(* pool size: the CAS on string_pool_head hands out disjoint entries, and  *)
(* an entry whose id has been returned is never written again.             *)
(***************************************************************************)
EXTENDS StringPool, Recursion, SequenceTheorems, TLAPS

(* What an entry occupies is computed from numbers.                        *)
LEMMA EntrySizes ==
  /\ \A s \in Strings \cup {<<>>} :
       /\ s \in Seq(0..255) /\ Len(s) \in Nat
       /\ Needed(s) \in Nat /\ Needed(s) = 4 + Len(s)
       /\ \A i \in 1..Len(s) : s[i] \in 0..255
  /\ \A s \in Strings \cup {<<>>} : \A k \in 0..3 : LenByte(s, k) \in 0..255
<1>1. ASSUME NEW s \in Strings \cup {<<>>}
      PROVE  /\ s \in Seq(0..255) /\ Len(s) \in Nat
             /\ Needed(s) \in Nat /\ Needed(s) = 4 + Len(s)
             /\ \A i \in 1..Len(s) : s[i] \in 0..255
  <2>1. s \in Seq(0..255)
    <3>1. CASE s \in Strings
      BY <3>1, PoolAssumption
    <3>2. CASE s = <<>>
      BY <3>2
    <3> QED BY <3>1, <3>2
  <2>2. Len(s) \in Nat /\ \A i \in 1..Len(s) : s[i] \in 0..255
    BY <2>1, ElementOfSeq
  <2> QED BY <2>1, <2>2 DEF Needed, LenBytes
<1>2. ASSUME NEW s \in Strings \cup {<<>>}, NEW k \in 0..3
      PROVE  LenByte(s, k) \in 0..255
  <2>1. Len(s) \in Nat
    BY <1>1
  <2>2. Weight[k + 1] \in Nat \ {0}
    BY DEF Weight
  <2> DEFINE d == (Len(s) \div Weight[k + 1])
  <2>3. d \in Nat
    BY <2>1, <2>2
  <2>4. LenByte(s, k) = d % 256
    BY DEF LenByte
  <2> HIDE DEF d
  <2> QED BY ONLY <2>3, <2>4
<1> QED BY <1>1, <1>2

(* The entry a thread works on, and its place in the pool.                 *)
LEMMA MineTypes ==
  ASSUME TypeOK, NEW t \in Threads
  PROVE  /\ Mine(t).id = cur[t] /\ Mine(t).s = str[t]
         /\ str[t] \in Strings \cup {<<>>} /\ cur[t] \in Nat
         /\ Mine(t) \in [id : Nat, s : Strings \cup {<<>>}]
BY DEF TypeOK, Mine, Entry

(* Where the length and the bytes of an entry lie.                         *)
LEMMA LengthOffset ==
  ASSUME NEW a \in Nat, NEW n \in Nat, NEW k \in 0..3
  PROVE  a + k \in Nat /\ a <= a + k /\ a + k < a + (4 + n)
OBVIOUS

(* The bytes of an entry lie behind its length and before its end.         *)
LEMMA ByteOffset ==
  ASSUME NEW a \in Nat, NEW n \in Nat, NEW i \in 1..n
  PROVE  a + 4 + i - 1 \in Nat /\ a <= a + 4 + i - 1 /\ a + 4 + i - 1 < a + (4 + n)
OBVIOUS

(***************************************************************************)
(* A store inside one reserved entry leaves every other reserved entry     *)
(* alone.                                                                  *)
(***************************************************************************)
LEMMA StoreInsideEntry ==
  ASSUME TypeOK, ReservationsDisjoint,
         NEW e \in reserved, NEW f \in reserved, e # f,
         NEW lo \in Nat, NEW hi \in Int,
         e.id <= lo, hi < e.id + Needed(e.s),
         \A b \in 0..PoolBytes-1 : b \notin lo..hi => pool'[b] = pool[b]
  PROVE  /\ LenInPlace(f) => LenInPlace(f)'
         /\ BytesInPlace(f) => BytesInPlace(f)'
<1>1. /\ e.id \in Nat /\ f.id \in Nat
      /\ e.s \in Strings \cup {<<>>} /\ f.s \in Strings \cup {<<>>}
  BY DEF TypeOK
<1>2. /\ Needed(e.s) \in Nat /\ Needed(f.s) = 4 + Len(f.s) /\ Len(f.s) \in Nat
  BY <1>1, EntrySizes
<1>3. PoolBytes \in Nat /\ pool_head \in Nat /\ pool_head <= PoolBytes
  BY PoolAssumption DEF TypeOK
<1>4. f.id + Needed(f.s) <= pool_head
  BY DEF ReservationsDisjoint
<1>5. e.id + Needed(e.s) <= f.id \/ f.id + Needed(f.s) <= e.id
  BY DEF ReservationsDisjoint, Before
<1>6. ASSUME NEW b \in Nat, f.id <= b, b < f.id + Needed(f.s)
      PROVE  pool'[b] = pool[b]
  <2>1. b \in 0..PoolBytes-1 /\ b \notin lo..hi
    BY <1>1, <1>2, <1>3, <1>4, <1>5, <1>6
  <2> QED BY <2>1
<1>7. \A k \in 0..3 : pool'[f.id + k] = pool[f.id + k]
  <2> SUFFICES ASSUME NEW k \in 0..3 PROVE pool'[f.id + k] = pool[f.id + k]
    OBVIOUS
  <2>1. f.id + k \in Nat /\ f.id <= f.id + k /\ f.id + k < f.id + Needed(f.s)
    BY <1>1, <1>2, LengthOffset
  <2> QED BY <1>6, <2>1
<1>8. \A i \in 1..Len(f.s) : pool'[f.id + 4 + i - 1] = pool[f.id + 4 + i - 1]
  <2> SUFFICES ASSUME NEW i \in 1..Len(f.s)
               PROVE  pool'[f.id + 4 + i - 1] = pool[f.id + 4 + i - 1]
    OBVIOUS
  <2>1. /\ f.id + 4 + i - 1 \in Nat /\ f.id <= f.id + 4 + i - 1
        /\ f.id + 4 + i - 1 < f.id + Needed(f.s)
    BY <1>1, <1>2, ByteOffset
  <2> QED BY <1>6, <2>1
<1> QED BY <1>7, <1>8 DEF LenInPlace, BytesInPlace, LenBytes

-----------------------------------------------------------------------------
(* An empty pool satisfies the invariant.                                  *)
LEMMA InitPoolInv == Init => PoolInv
<1> SUFFICES ASSUME Init PROVE PoolInv
  OBVIOUS
<1> USE PoolAssumption DEF Init
<1>1. TypeOK
  BY DEF TypeOK
<1>2. ReservationsDisjoint /\ Tiled /\ OwnersApart /\ HalfFilled /\ RoomSeen
  BY DEF ReservationsDisjoint, Tiled, OwnersApart, HalfFilled, InternedIntact,
         RoomSeen, Filling
<1> QED BY <1>1, <1>2 DEF PoolInv

(* Steps that touch neither the pool nor the entries.                      *)
LEMMA LocalStep ==
  ASSUME PoolInv, NEW t \in Threads,
         \/ \E s \in Strings : Call(t, s)
         \/ LoadHead(t) \/ Retry(t) \/ Crash(t)
  PROVE  PoolInv'
<1> USE DEF PoolInv
<1>0. UNCHANGED <<pool, pool_head, reserved, interned>>
  BY DEF Call, LoadHead, Retry, Crash
<1>1. /\ pc'[t] \notin {"len", "bytes"}
      /\ \A u \in Threads : u # t => /\ pc'[u] = pc[u] /\ str'[u] = str[u]
                                     /\ cur'[u] = cur[u]
  BY DEF Call, LoadHead, Retry, Crash, Goto, TypeOK
<1>2. TypeOK'
  <2>1. pc' \in [Threads -> {"idle", "load", "cas", "len", "bytes", "dead"}]
    BY DEF Call, LoadHead, Retry, Crash, Goto, TypeOK
  <2>2. str' \in [Threads -> Strings \cup {<<>>}]
    BY DEF Call, LoadHead, Retry, Crash, TypeOK
  <2>3. cur' \in [Threads -> Nat]
    BY DEF Call, LoadHead, Retry, Crash, TypeOK
  <2>4. calls' \in [Threads -> 0..MaxCalls]
    <3>1. CASE \E s \in Strings : Call(t, s)
      <4>1. calls[t] + 1 \in 0..MaxCalls
        BY <3>1, PoolAssumption DEF Call, TypeOK
      <4> QED BY <3>1, <4>1 DEF Call, TypeOK
    <3>2. CASE LoadHead(t) \/ Retry(t) \/ Crash(t)
      BY <3>2 DEF LoadHead, Retry, Crash, TypeOK
    <3> QED BY <3>1, <3>2
  <2> QED BY <1>0, <2>1, <2>2, <2>3, <2>4 DEF TypeOK
<1>3. ReservationsDisjoint' /\ Tiled'
  BY <1>0 DEF ReservationsDisjoint, Tiled
<1>4. \A u \in Threads : Filling(u)' => u # t /\ Filling(u) /\ Mine(u)' = Mine(u)
  BY <1>1 DEF Filling, Mine
<1>5. OwnersApart'
  BY <1>0, <1>4 DEF OwnersApart, Holes
<1>6. HalfFilled'
  <2>1. \A e : LenInPlace(e)' = LenInPlace(e) /\ BytesInPlace(e)' = BytesInPlace(e)
    BY <1>0 DEF LenInPlace, BytesInPlace
  <2>2. ASSUME NEW u \in Threads, pc'[u] = "bytes"
        PROVE  LenInPlace(Mine(u))'
    <3>1. pc[u] = "bytes" /\ Mine(u)' = Mine(u) /\ u # t
      BY <1>1, <1>4, <2>2 DEF Filling
    <3>2. LenInPlace(Mine(u))
      BY <3>1 DEF HalfFilled
    <3> QED BY <1>0, <3>1, <3>2 DEF LenInPlace
  <2>3. InternedIntact'
    BY <1>0, <2>1 DEF HalfFilled, InternedIntact
  <2> QED BY <2>2, <2>3 DEF HalfFilled
<1>7. RoomSeen'
  <2>1. pc'[t] = "cas" => cur'[t] + Needed(str'[t]) <= PoolBytes
    <3>1. CASE LoadHead(t)
      <4>1. /\ cur'[t] = pool_head /\ str'[t] = str[t]
            /\ pc'[t] = IF pool_head + Needed(str[t]) > PoolBytes
                        THEN "idle" ELSE "cas"
        BY <3>1 DEF LoadHead, Goto, TypeOK
      <4>2. pool_head \in Nat /\ Needed(str[t]) \in Nat /\ PoolBytes \in Nat
        BY EntrySizes, PoolAssumption DEF TypeOK
      <4> QED BY <4>1, <4>2
    <3>2. CASE ~ LoadHead(t)
      BY <3>2 DEF Call, Retry, Crash, Goto, TypeOK
    <3> QED BY <3>1, <3>2
  <2> QED BY <1>1, <2>1 DEF RoomSeen
<1> QED BY <1>2, <1>3, <1>5, <1>6, <1>7

(* The entry a successful CAS adds starts where all the others have ended. *)
LEMMA ReserveStep ==
  ASSUME PoolInv, NEW t \in Threads, Reserve(t)
  PROVE  PoolInv'
<1> DEFINE e == Mine(t)
<1> USE DEF PoolInv
<1>0. /\ UNCHANGED <<pool, str, cur, calls, interned>>
      /\ pc[t] = "cas" /\ pool_head = cur[t]
      /\ pool_head' = cur[t] + Needed(str[t])
      /\ reserved' = reserved \cup {e}
      /\ pc' = [pc EXCEPT ![t] = "len"]
  BY DEF Reserve, Goto
<1>1. /\ e.id = pool_head /\ e.s = str[t]
      /\ e \in [id : Nat, s : Strings \cup {<<>>}]
      /\ pool_head \in Nat /\ Needed(str[t]) \in Nat /\ PoolBytes \in Nat
      /\ Needed(str[t]) = 4 + Len(str[t]) /\ Len(str[t]) \in Nat
      /\ cur[t] + Needed(str[t]) <= PoolBytes
  BY SMTT(20), <1>0, MineTypes, EntrySizes, PoolAssumption DEF TypeOK, RoomSeen
<1>2. TypeOK'
  <2>1. pool_head' \in 0..PoolBytes
    BY <1>0, <1>1
  <2>2. reserved' \subseteq [id : Nat, s : Strings \cup {<<>>}]
    BY <1>0, <1>1 DEF TypeOK
  <2>3. interned' \subseteq reserved'
    BY <1>0 DEF TypeOK
  <2>4. pc' \in [Threads -> {"idle", "load", "cas", "len", "bytes", "dead"}]
    BY <1>0 DEF TypeOK
  <2> QED BY <1>0, <2>1, <2>2, <2>3, <2>4 DEF TypeOK
<1>3. \A f \in reserved : /\ f.id \in Nat /\ Needed(f.s) \in Nat
                          /\ Needed(f.s) >= 4
                          /\ f.id + Needed(f.s) <= pool_head
  BY EntrySizes DEF TypeOK, ReservationsDisjoint
<1>4. e \notin reserved
  BY <1>1, <1>3
<1>5. ReservationsDisjoint'
  <2>1. \A f \in reserved' : f.id + Needed(f.s) <= pool_head'
    BY <1>0, <1>1, <1>3
  <2>2. \A f \in reserved : Before(f, e)
    BY <1>1, <1>3 DEF Before
  <2>3. \A f, g \in reserved' : f = g \/ Before(f, g) \/ Before(g, f)
    BY <1>0, <2>2 DEF ReservationsDisjoint
  <2>4. pool_head' <= PoolBytes
    BY <1>0, <1>1
  <2> QED BY <2>1, <2>3, <2>4 DEF ReservationsDisjoint
<1>6. \A u \in Threads : /\ Mine(u)' = Mine(u)
                         /\ u # t => pc'[u] = pc[u]
                         /\ pc'[t] = "len"
  BY <1>0 DEF Mine, TypeOK
<1>7. OwnersApart'
  <2>1. ASSUME NEW u \in Threads, Filling(u)'
        PROVE  Mine(u)' \in Holes' /\ (u # t => Mine(u) # e /\ Filling(u))
    <3>1. CASE u = t
      BY <1>0, <1>4, <1>6, <3>1 DEF Holes, TypeOK
    <3>2. CASE u # t
      <4>1. Filling(u) /\ Mine(u) \in Holes
        BY <1>6, <2>1, <3>2 DEF Filling, OwnersApart
      <4> QED BY <1>0, <1>4, <1>6, <3>2, <4>1 DEF Holes
    <3> QED BY <3>1, <3>2
  <2> QED BY <1>6, <2>1 DEF OwnersApart
<1>8. HalfFilled'
  <2>1. ASSUME NEW u \in Threads, pc'[u] = "bytes"
        PROVE  LenInPlace(Mine(u))'
    <3>1. pc[u] = "bytes" /\ Mine(u)' = Mine(u)
      BY <1>6, <2>1
    <3>2. LenInPlace(Mine(u))
      BY <3>1 DEF HalfFilled
    <3> QED BY <1>0, <3>1, <3>2 DEF LenInPlace
  <2>2. InternedIntact'
    BY <1>0 DEF HalfFilled, InternedIntact, LenInPlace, BytesInPlace
  <2> QED BY <2>1, <2>2 DEF HalfFilled
<1>9. RoomSeen'
  BY <1>0, <1>6 DEF RoomSeen
<1>10. Tiled'
  <2>1. e.id = pool_head /\ e.id + Needed(e.s) = pool_head'
    BY <1>0, <1>1
  <2> HIDE DEF e
  <2>2. {f.id + Needed(f.s) : f \in reserved'}
          = {f.id + Needed(f.s) : f \in reserved} \cup {pool_head'}
    BY <1>0, <2>1
  <2>3. {f.id : f \in reserved'} = {f.id : f \in reserved} \cup {pool_head}
    BY <1>0, <2>1
  <2> QED BY <2>2, <2>3 DEF Tiled
<1> QED BY <1>2, <1>5, <1>7, <1>8, <1>9, <1>10

(* The length is stored into the thread's own entry.                       *)
LEMMA StoreLenStep ==
  ASSUME PoolInv, NEW t \in Threads, StoreLen(t)
  PROVE  PoolInv'
<1> DEFINE e == Mine(t)
<1> USE DEF PoolInv
<1>0. /\ UNCHANGED <<pool_head, str, cur, calls, reserved, interned>>
      /\ pc[t] = "len" /\ pc' = [pc EXCEPT ![t] = "bytes"]
      /\ pool' = [b \in DOMAIN pool |->
                    IF b \in cur[t]..cur[t]+3
                    THEN LenByte(str[t], b - cur[t]) ELSE pool[b]]
  BY DEF StoreLen, Goto, LenBytes
<1>1. /\ e.id = cur[t] /\ e.s = str[t] /\ cur[t] \in Nat
      /\ str[t] \in Strings \cup {<<>>}
      /\ Needed(str[t]) = 4 + Len(str[t]) /\ Len(str[t]) \in Nat
      /\ e \in reserved /\ e \notin interned
      /\ PoolBytes \in Nat /\ pool_head \in Nat /\ pool_head <= PoolBytes
      /\ cur[t] + Needed(str[t]) <= pool_head
  <2>1. e \in Holes
    BY <1>0 DEF OwnersApart, Filling
  <2>2. e \in reserved /\ e \notin interned
    BY <2>1 DEF Holes
  <2>3. e.id = cur[t] /\ e.s = str[t] /\ cur[t] \in Nat
        /\ str[t] \in Strings \cup {<<>>}
    BY MineTypes
  <2>4. e.id + Needed(e.s) <= pool_head
    BY <2>2 DEF ReservationsDisjoint
  <2>5. PoolBytes \in Nat /\ pool_head \in Nat /\ pool_head <= PoolBytes
    BY PoolAssumption DEF TypeOK
  <2>6. Needed(str[t]) = 4 + Len(str[t]) /\ Len(str[t]) \in Nat
    BY <2>3, EntrySizes
  <2> HIDE DEF e
  <2> QED BY <2>2, <2>3, <2>4, <2>5, <2>6
<1>2. /\ \A b \in 0..PoolBytes-1 : b \notin cur[t]..cur[t]+3 => pool'[b] = pool[b]
      /\ \A k \in 0..3 : pool'[cur[t] + k] = LenByte(str[t], k)
      /\ pool' \in [0..PoolBytes-1 -> 0..255]
  <2>1. DOMAIN pool = 0..PoolBytes-1
    BY DEF TypeOK
  <2>2. \A k \in 0..3 : /\ cur[t] + k \in DOMAIN pool
                        /\ cur[t] + k \in cur[t]..cur[t]+3
                        /\ (cur[t] + k) - cur[t] = k
    BY <1>1, <2>1
  <2>3. \A b \in 0..PoolBytes-1 : b \in cur[t]..cur[t]+3 => b - cur[t] \in 0..3
    BY <1>1
  <2>4. \A k \in 0..3 : LenByte(str[t], k) \in 0..255
    BY <1>1, EntrySizes
  <2>5. \A b \in 0..PoolBytes-1 : pool[b] \in 0..255
    BY DEF TypeOK
  <2>6. pool' \in [0..PoolBytes-1 -> 0..255]
    BY <1>0, <2>1, <2>3, <2>4, <2>5
  <2>7. \A k \in 0..3 : pool'[cur[t] + k] = LenByte(str[t], k)
    BY <1>0, <2>2
  <2>8. \A b \in 0..PoolBytes-1 : b \notin cur[t]..cur[t]+3 => pool'[b] = pool[b]
    BY <1>0, <2>1
  <2> QED BY <2>6, <2>7, <2>8
<1>3. ASSUME NEW f \in reserved, f # e
      PROVE  /\ LenInPlace(f) => LenInPlace(f)'
             /\ BytesInPlace(f) => BytesInPlace(f)'
  <2>1. /\ cur[t] \in Nat /\ cur[t] + 3 \in Int /\ e.id <= cur[t]
        /\ cur[t] + 3 < e.id + Needed(e.s) /\ e # f /\ e \in reserved
    BY <1>1, <1>3
  <2> HIDE DEF e
  <2> QED BY <1>2, <2>1, StoreInsideEntry
<1>4. TypeOK'
  <2>1. pc' \in [Threads -> {"idle", "load", "cas", "len", "bytes", "dead"}]
    BY <1>0 DEF TypeOK
  <2> QED BY <1>0, <1>2, <2>1 DEF TypeOK
<1>5. \A u \in Threads : /\ Mine(u)' = Mine(u) /\ Filling(u)' = Filling(u)
                         /\ u # t => pc'[u] = pc[u]
  BY <1>0 DEF Mine, Filling, TypeOK
<1>6. OwnersApart'
  BY <1>0, <1>5 DEF OwnersApart, Holes
<1>7. HalfFilled'
  <2>1. ASSUME NEW u \in Threads, pc'[u] = "bytes"
        PROVE  LenInPlace(Mine(u))'
    <3>1. CASE u = t
      <4>1. LenInPlace(Mine(t))'
        <5>1. Mine(t)' = e
          BY <1>5
        <5>2. \A k \in 0..3 : pool'[e.id + k] = LenByte(e.s, k)
          BY <1>1, <1>2
        <5> HIDE DEF e
        <5> QED BY <5>1, <5>2 DEF LenInPlace, LenBytes
      <4> QED BY <3>1, <4>1
    <3>2. CASE u # t
      <4>1. /\ pc[u] = "bytes" /\ Filling(u) /\ Filling(t)
            /\ Mine(u) \in reserved /\ Mine(u) # e
        BY <1>0, <1>5, <2>1, <3>2 DEF OwnersApart, Filling, Holes
      <4>2. LenInPlace(Mine(u))
        BY <4>1 DEF HalfFilled
      <4>3. Mine(u)' = Mine(u)
        BY <1>5
      <4> QED BY <1>3, <4>1, <4>2, <4>3 DEF LenInPlace
    <3> QED BY <3>1, <3>2
  <2>2. ASSUME NEW f \in interned
        PROVE  LenInPlace(f)' /\ BytesInPlace(f)'
    BY <1>1, <1>3, <2>2 DEF HalfFilled, InternedIntact, TypeOK
  <2>3. InternedIntact'
    BY <1>0, <2>2 DEF InternedIntact
  <2> QED BY <2>1, <2>3 DEF HalfFilled
<1>8. RoomSeen'
  BY <1>0, <1>5 DEF RoomSeen, TypeOK
<1> QED BY <1>0, <1>4, <1>6, <1>7, <1>8 DEF ReservationsDisjoint, Tiled

(* The last store fills the entry, and only then is its id returned.       *)
LEMMA StoreBytesStep ==
  ASSUME PoolInv, NEW t \in Threads, StoreBytes(t)
  PROVE  PoolInv'
<1> DEFINE e == Mine(t)
           lo == cur[t] + 4
           hi == cur[t] + Needed(str[t]) - 1
<1> USE DEF PoolInv
<1>0. /\ UNCHANGED <<pool_head, str, cur, calls, reserved>>
      /\ pc[t] = "bytes" /\ pc' = [pc EXCEPT ![t] = "idle"]
      /\ interned' = interned \cup {e}
      /\ pool' = [b \in DOMAIN pool |->
                    IF b \in lo..hi
                    THEN str[t][b - cur[t] - 4 + 1] ELSE pool[b]]
  BY DEF StoreBytes, Goto, LenBytes
<1>1. /\ e.id = cur[t] /\ e.s = str[t] /\ cur[t] \in Nat
      /\ str[t] \in Strings \cup {<<>>}
      /\ Needed(str[t]) = 4 + Len(str[t]) /\ Len(str[t]) \in Nat
      /\ e \in reserved /\ e \notin interned
      /\ PoolBytes \in Nat /\ pool_head \in Nat /\ pool_head <= PoolBytes
      /\ cur[t] + Needed(str[t]) <= pool_head
  <2>1. e \in Holes
    BY <1>0 DEF OwnersApart, Filling
  <2>2. e \in reserved /\ e \notin interned
    BY <2>1 DEF Holes
  <2>3. e.id = cur[t] /\ e.s = str[t] /\ cur[t] \in Nat
        /\ str[t] \in Strings \cup {<<>>}
    BY MineTypes
  <2>4. e.id + Needed(e.s) <= pool_head
    BY <2>2 DEF ReservationsDisjoint
  <2>5. PoolBytes \in Nat /\ pool_head \in Nat /\ pool_head <= PoolBytes
    BY PoolAssumption DEF TypeOK
  <2>6. Needed(str[t]) = 4 + Len(str[t]) /\ Len(str[t]) \in Nat
    BY <2>3, EntrySizes
  <2> HIDE DEF e, lo, hi
  <2> QED BY <2>2, <2>3, <2>4, <2>5, <2>6
<1>2. /\ \A b \in 0..PoolBytes-1 : b \notin lo..hi => pool'[b] = pool[b]
      /\ \A i \in 1..Len(str[t]) : pool'[cur[t] + 4 + i - 1] = str[t][i]
      /\ pool' \in [0..PoolBytes-1 -> 0..255]
  <2>1. DOMAIN pool = 0..PoolBytes-1
    BY DEF TypeOK
  <2>2. ASSUME NEW i \in 1..Len(str[t])
        PROVE  /\ cur[t] + 4 + i - 1 \in DOMAIN pool
               /\ cur[t] + 4 + i - 1 \in lo..hi
               /\ (cur[t] + 4 + i - 1) - cur[t] - 4 + 1 = i
    <3>1. /\ cur[t] \in Nat /\ i \in Nat /\ 1 <= i /\ i <= Len(str[t])
          /\ Len(str[t]) \in Nat /\ PoolBytes \in Nat /\ pool_head \in Nat
          /\ Needed(str[t]) = 4 + Len(str[t])
          /\ cur[t] + Needed(str[t]) <= pool_head /\ pool_head <= PoolBytes
      BY <1>1
    <3> QED BY ONLY SMTT(20), <2>1, <3>1
  <2>3. \A b \in 0..PoolBytes-1 :
          b \in lo..hi => b - cur[t] - 4 + 1 \in 1..Len(str[t])
    BY SMTT(20), <1>1
  <2>4. \A i \in 1..Len(str[t]) : str[t][i] \in 0..255
    BY <1>1, EntrySizes
  <2>5. \A b \in 0..PoolBytes-1 : pool[b] \in 0..255
    BY DEF TypeOK
  <2> HIDE DEF lo, hi
  <2>6. pool' \in [0..PoolBytes-1 -> 0..255]
    BY <1>0, <2>1, <2>3, <2>4, <2>5
  <2>7. \A i \in 1..Len(str[t]) : pool'[cur[t] + 4 + i - 1] = str[t][i]
    BY <1>0, <2>2
  <2>8. \A b \in 0..PoolBytes-1 : b \notin lo..hi => pool'[b] = pool[b]
    BY <1>0, <2>1
  <2> QED BY <2>6, <2>7, <2>8
<1>3. ASSUME NEW f \in reserved, f # e
      PROVE  /\ LenInPlace(f) => LenInPlace(f)'
             /\ BytesInPlace(f) => BytesInPlace(f)'
  <2>1. /\ lo \in Nat /\ hi \in Int /\ e.id <= lo
        /\ hi < e.id + Needed(e.s) /\ e # f /\ e \in reserved
    BY <1>1, <1>3
  <2> HIDE DEF e, lo, hi
  <2> QED BY <1>2, <2>1, StoreInsideEntry
<1>4. TypeOK'
  <2>1. pc' \in [Threads -> {"idle", "load", "cas", "len", "bytes", "dead"}]
    BY <1>0 DEF TypeOK
  <2>2. interned' \subseteq reserved'
    BY <1>0, <1>1 DEF TypeOK
  <2> QED BY <1>0, <1>2, <2>1, <2>2 DEF TypeOK
<1>5. \A u \in Threads : /\ Mine(u)' = Mine(u)
                         /\ Filling(u)' => Filling(u) /\ u # t /\ pc'[u] = pc[u]
  BY <1>0 DEF Mine, Filling, TypeOK
<1>6. OwnersApart'
  <2>1. ASSUME NEW u \in Threads, Filling(u)'
        PROVE  Mine(u)' \in Holes'
    <3>1. Filling(u) /\ Filling(t) /\ u # t
      BY <1>0, <1>5, <2>1 DEF Filling
    <3>2. Mine(u) \in Holes /\ Mine(u) # e
      BY <3>1 DEF OwnersApart
    <3> QED BY <1>0, <1>5, <3>2 DEF Holes
  <2> QED BY <1>5, <2>1 DEF OwnersApart
<1>7. HalfFilled'
  <2>1. ASSUME NEW u \in Threads, pc'[u] = "bytes"
        PROVE  LenInPlace(Mine(u))'
    <3>1. /\ pc[u] = "bytes" /\ Filling(u) /\ Filling(t) /\ u # t
      BY <1>0, <1>5, <2>1 DEF Filling
    <3>2. Mine(u) \in reserved /\ Mine(u) # e
      BY <3>1 DEF OwnersApart, Holes
    <3>3. LenInPlace(Mine(u))
      BY <3>1 DEF HalfFilled
    <3>4. Mine(u)' = Mine(u)
      BY <1>5
    <3> QED BY <1>3, <3>2, <3>3, <3>4 DEF LenInPlace
  <2>2. ASSUME NEW f \in interned
        PROVE  LenInPlace(f)' /\ BytesInPlace(f)'
    BY <1>1, <1>3, <2>2 DEF HalfFilled, InternedIntact, TypeOK
  <2>3. /\ \A k \in 0..3 : pool'[e.id + k] = LenByte(e.s, k)
        /\ \A i \in 1..Len(e.s) : pool'[e.id + 4 + i - 1] = e.s[i]
    <3>1. LenInPlace(e)
      BY <1>0 DEF HalfFilled
    <3>2. \A k \in 0..3 : /\ cur[t] + k \in 0..PoolBytes-1
                          /\ cur[t] + k \notin lo..hi
      <4>1. /\ cur[t] \in Nat /\ cur[t] + 4 <= PoolBytes /\ PoolBytes \in Nat
        BY <1>1
      <4> QED BY ONLY <4>1
    <3>3. \A k \in 0..3 : pool'[e.id + k] = LenByte(e.s, k)
      <4>1. \A k \in 0..3 : pool[cur[t] + k] = LenByte(e.s, k)
        BY <1>1, <3>1 DEF LenInPlace, LenBytes
      <4>2. e.id = cur[t]
        BY <1>1
      <4> HIDE DEF e, lo, hi
      <4> QED BY <1>2, <3>2, <4>1, <4>2
    <3>4. \A i \in 1..Len(e.s) : pool'[e.id + 4 + i - 1] = e.s[i]
      BY <1>1, <1>2
    <3> QED BY <3>3, <3>4
  <2>4. InternedIntact'
    <3> SUFFICES ASSUME NEW f \in interned'
                 PROVE  LenInPlace(f)' /\ BytesInPlace(f)'
      BY DEF InternedIntact
    <3>1. CASE f \in interned
      BY <2>2, <3>1
    <3>2. CASE f = e
      BY <2>3, <3>2 DEF LenInPlace, BytesInPlace, LenBytes
    <3> QED BY <1>0, <3>1, <3>2
  <2> QED BY <2>1, <2>4 DEF HalfFilled
<1>8. RoomSeen'
  BY <1>0 DEF RoomSeen, TypeOK
<1> QED BY <1>0, <1>4, <1>6, <1>7, <1>8 DEF ReservationsDisjoint, Tiled

(* Every step of every thread keeps the invariant.                         *)
LEMMA StepPoolInv == PoolInv /\ [Next]_vars => PoolInv'
<1> SUFFICES ASSUME PoolInv, [Next]_vars PROVE PoolInv'
  OBVIOUS
<1>1. CASE UNCHANGED vars
  BY <1>1 DEF vars, PoolInv, TypeOK, ReservationsDisjoint, Tiled, OwnersApart,
              HalfFilled, InternedIntact, LenInPlace, BytesInPlace, RoomSeen,
              Filling, Mine, Holes
<1>2. CASE Next
  <2>1. PICK t \in Threads :
          (\E s \in Strings : Call(t, s)) \/ Intern(t) \/ Crash(t)
    BY <1>2 DEF Next
  <2>2. CASE \/ \E s \in Strings : Call(t, s)
             \/ LoadHead(t) \/ Retry(t) \/ Crash(t)
    BY <2>2, LocalStep
  <2>3. CASE Reserve(t)
    BY <2>3, ReserveStep
  <2>4. CASE StoreLen(t)
    BY <2>4, StoreLenStep
  <2>5. CASE StoreBytes(t)
    BY <2>5, StoreBytesStep
  <2> QED BY <2>1, <2>2, <2>3, <2>4, <2>5 DEF Intern
<1> QED BY <1>1, <1>2

-----------------------------------------------------------------------------
(* The reader's walk.                                                      *)

(* A length below 2^32 is the sum of its four bytes.                       *)
LEMMA FourBytes ==
  ASSUME NEW n \in Nat, FitsWord(n)
  PROVE  n = (n % 256) + ((n \div 256) % 256) * 256
               + ((n \div 65536) % 256) * 65536
               + ((n \div 16777216) % 256) * 16777216
<1> DEFINE a == n \div 256
           b == n \div 65536
           c == n \div 16777216
<1>1. a \in Nat /\ b \in Nat /\ c \in Nat /\ c < 256
  BY DEF FitsWord
<1>2. n = (n % 256) + a * 256
  OBVIOUS
<1>3. a = (a % 256) + b * 256
  <2>1. b = a \div 256
    OBVIOUS
  <2> HIDE DEF a, b
  <2> QED BY <1>1, <2>1
<1>4. b = (b % 256) + c * 256
  <2>1. c = b \div 256
    OBVIOUS
  <2> HIDE DEF b, c
  <2> QED BY <1>1, <2>1
<1>5. c = c % 256
  <2> HIDE DEF c
  <2> QED BY <1>1
<1> DEFINE x == n % 256
           y == a % 256
           z == b % 256
           w == c % 256
<1>6. x \in Nat /\ y \in Nat /\ z \in Nat /\ w \in Nat
  <2> HIDE DEF a, b, c
  <2> QED BY <1>1
<1> HIDE DEF a, b, c, x, y, z, w
<1>7. n = x + y * 256 + z * 65536 + w * 16777216
  <2>1. n = x + a * 256 /\ a = y + b * 256 /\ b = z + c * 256 /\ c = w
    BY <1>2, <1>3, <1>4, <1>5 DEF x, y, z, w
  <2> QED BY <1>1, <1>6, <2>1
<1> QED BY <1>7 DEF a, b, c, x, y, z, w

(* The reader reads the length the producer stored.                        *)
LEMMA LengthReads ==
  ASSUME TypeOK, ReservationsDisjoint, NEW e \in reserved, LenInPlace(e)
  PROVE  WordAt(e.id) = Len(e.s)
<1> DEFINE n == Len(e.s)
<1>1. e.id \in Nat /\ n \in Nat /\ Needed(e.s) = 4 + n /\ e.s \in Strings \cup {<<>>}
  BY EntrySizes DEF TypeOK
<1>2. FitsWord(n)
  <2>1. e.id + (4 + n) <= PoolBytes /\ PoolBytes \in Nat
    BY <1>1, PoolAssumption DEF TypeOK, ReservationsDisjoint
  <2> HIDE DEF n
  <2>2. n <= PoolBytes
    BY <1>1, <2>1
  <2> QED BY <1>1, <2>1, <2>2, PoolAssumption DEF FitsWord
<1>3. /\ LenByte(e.s, 0) = (n \div 1) % 256
      /\ LenByte(e.s, 1) = (n \div 256) % 256
      /\ LenByte(e.s, 2) = (n \div 65536) % 256
      /\ LenByte(e.s, 3) = (n \div 16777216) % 256
  BY DEF LenByte, Weight
<1>4. /\ pool[e.id] = LenByte(e.s, 0) /\ pool[e.id + 1] = LenByte(e.s, 1)
      /\ pool[e.id + 2] = LenByte(e.s, 2) /\ pool[e.id + 3] = LenByte(e.s, 3)
  <2>1. e.id + 0 = e.id
    BY <1>1
  <2>2. \A k \in 0..3 : pool[e.id + k] = LenByte(e.s, k)
    BY DEF LenInPlace, LenBytes
  <2>3. 0 \in 0..3 /\ 1 \in 0..3 /\ 2 \in 0..3 /\ 3 \in 0..3
    OBVIOUS
  <2> QED BY <2>1, <2>2, <2>3
<1>5. WordAt(e.id) = LenByte(e.s, 0) * 1 + LenByte(e.s, 1) * 256
                      + LenByte(e.s, 2) * 65536 + LenByte(e.s, 3) * 16777216
  BY <1>4 DEF WordAt, Weight
<1> HIDE DEF n
<1>6. (n \div 1) % 256 = n % 256
  BY <1>1
<1>7. /\ n % 256 \in Nat /\ (n \div 256) % 256 \in Nat
      /\ (n \div 65536) % 256 \in Nat /\ (n \div 16777216) % 256 \in Nat
  BY <1>1
<1> DEFINE sum == (n % 256) + ((n \div 256) % 256) * 256
                  + ((n \div 65536) % 256) * 65536
                  + ((n \div 16777216) % 256) * 16777216
<1>8. WordAt(e.id) = sum
  BY <1>3, <1>5, <1>6, <1>7
<1>9. n = sum
  BY <1>1, <1>2, FourBytes
<1> HIDE DEF sum
<1>10. WordAt(e.id) = n
  BY <1>8, <1>9
<1> QED BY <1>10 DEF n

(* Where a walk that has come to p stops.                                  *)
StopsAt(p) == p + LenBytes > Limit \/ p + LenBytes + WordAt(p) > Limit
Read(p) == Entry(p, [i \in 1..WordAt(p) |-> pool[p + LenBytes + i - 1]])
NextAt(p) == p + LenBytes + WordAt(p)

(* The walk ends at the head and reads lengths that are numbers.           *)
LEMMA WalkReads ==
  ASSUME TypeOK
  PROVE  /\ Limit \in Nat /\ Limit = pool_head /\ Limit <= PoolBytes
         /\ \A p \in Nat : ~StopsAt(p) => WordAt(p) \in Nat
<1>1. Limit \in Nat /\ Limit = pool_head /\ Limit <= PoolBytes
  BY PoolAssumption DEF TypeOK, Limit
<1>2. ASSUME NEW p \in Nat, ~StopsAt(p) PROVE WordAt(p) \in Nat
  <2>1. PoolBytes \in Nat /\ p + 4 <= PoolBytes
    BY <1>1, <1>2, PoolAssumption DEF StopsAt, LenBytes
  <2>2. \A k \in 0..3 : p + k \in 0..PoolBytes-1
    BY <2>1
  <2>3. \A k \in 0..3 : pool[p + k] \in Nat
    <3>1. \A b \in 0..PoolBytes-1 : pool[b] \in 0..255
      BY DEF TypeOK
    <3>2. \A b \in 0..PoolBytes-1 : pool[b] \in Nat
      BY <3>1
    <3> QED BY <2>2, <3>2
  <2>4. pool[p] \in Nat /\ pool[p+1] \in Nat /\ pool[p+2] \in Nat /\ pool[p+3] \in Nat
    <3>1. p + 0 = p
      OBVIOUS
    <3>2. 0 \in 0..3 /\ 1 \in 0..3 /\ 2 \in 0..3 /\ 3 \in 0..3
      OBVIOUS
    <3> QED BY <2>3, <3>1, <3>2
  <2>5. WordAt(p) = pool[p] * 1 + pool[p+1] * 256 + pool[p+2] * 65536
                      + pool[p+3] * 16777216
    BY DEF WordAt, Weight
  <2> QED BY <2>4, <2>5
<1> QED BY <1>1, <1>2

(* The walk is the function its equation describes: the entry it stands at *)
(* and what it finds from the next one on.                                 *)
LEMMA WalkScans ==
  ASSUME TypeOK
  PROVE  \E from : /\ \A p \in Nat : from[p] =
                         IF StopsAt(p) THEN {} ELSE {Read(p)} \cup from[NextAt(p)]
                   /\ Walk = from[0]
<1> DEFINE Eqn(from) == from = [p \in Nat |->
             IF StopsAt(p) THEN {} ELSE {Read(p)} \cup from[NextAt(p)]]
           V == SUBSET {Read(p) : p \in Nat}
           Stop == {p \in Nat : StopsAt(p)}
           stop == [p \in Nat |-> {}]
           join == [p \in Nat |-> [v \in V |-> {Read(p)} \cup v]]
           next == [p \in Nat |-> IF StopsAt(p) THEN p ELSE NextAt(p)]
           measure == [p \in Nat |-> IF p > Limit THEN 0 ELSE Limit - p]
<1>1. ASSUME NEW p \in Nat, ~StopsAt(p)
      PROVE  NextAt(p) \in Nat /\ p < NextAt(p) /\ NextAt(p) <= Limit
  BY <1>1, WalkReads DEF StopsAt, NextAt, LenBytes
<1>2. stop \in [Nat -> V] /\ next \in [Nat -> Nat] /\ measure \in [Nat -> Nat]
  BY <1>1, WalkReads
<1>3. join \in [Nat -> [V -> V]]
  OBVIOUS
<1>4. Descends(Nat, Stop, next, measure)
  BY <1>1, WalkReads DEF Descends
<1>5. PICK f \in [Nat -> V] : Recurs(f, Nat, Stop, stop, join, next)
  <2> HIDE DEF V, Stop, stop, join, next, measure
  <2> QED BY ONLY <1>2, <1>3, <1>4, RecursionDefines
<1>6. Eqn(f)
  <2> SUFFICES ASSUME NEW p \in Nat
               PROVE  f[p] = IF StopsAt(p) THEN {} ELSE {Read(p)} \cup f[NextAt(p)]
    <3> HIDE DEF Stop, stop, join, next, V
    <3> QED BY <1>5
  <2>1. f[p] = IF p \in Stop THEN stop[p] ELSE join[p][f[next[p]]]
    <3> HIDE DEF Stop, stop, join, next, V
    <3> QED BY <1>5 DEF Recurs
  <2>2. CASE StopsAt(p)
    BY <2>1, <2>2
  <2>3. CASE ~StopsAt(p)
    <3>1. f[NextAt(p)] \in V
      <4> HIDE DEF V
      <4> QED BY <1>1, <2>3
    <3>2. next[p] = NextAt(p) /\ p \notin Stop
      BY <2>3
    <3>3. \A v \in V : join[p][v] = {Read(p)} \cup v
      <4> HIDE DEF V
      <4> QED OBVIOUS
    <3> HIDE DEF V, Stop, stop, join, next
    <3> QED BY <2>1, <2>3, <3>1, <3>2, <3>3
  <2> QED BY <2>2, <2>3
<1> DEFINE from == CHOOSE from : Eqn(from)
<1>7. Eqn(from)
  BY <1>6, Zenon
<1>8. Walk = from[0]
  BY Zenon DEF Walk, StopsAt, Read, NextAt
<1> HIDE DEF from
<1>9. \A p \in Nat : from[p] =
        IF StopsAt(p) THEN {} ELSE {Read(p)} \cup from[NextAt(p)]
  BY <1>7
<1> QED BY <1>8, <1>9

(* At an entry that is in place the walk reads it and goes on at its end.  *)
LEMMA EntryReads ==
  ASSUME PoolInv, NEW e \in interned
  PROVE  /\ e.id \in Nat /\ ~StopsAt(e.id) /\ Read(e.id) = e
         /\ NextAt(e.id) = e.id + Needed(e.s) /\ NextAt(e.id) <= pool_head
         /\ e.id < NextAt(e.id)
<1> USE DEF PoolInv
<1>1. e \in reserved /\ LenInPlace(e) /\ BytesInPlace(e)
  BY DEF TypeOK, HalfFilled, InternedIntact
<1>2. /\ e \in [id : Nat, s : Strings \cup {<<>>}] /\ e.id \in Nat
      /\ e.s \in Seq(0..255) /\ Len(e.s) \in Nat /\ Needed(e.s) = 4 + Len(e.s)
  BY <1>1, EntrySizes DEF TypeOK
<1>3. WordAt(e.id) = Len(e.s)
  BY <1>1, LengthReads
<1>4. e.id + Needed(e.s) <= pool_head /\ pool_head = Limit /\ pool_head \in Nat
  BY <1>1, WalkReads DEF ReservationsDisjoint
<1>5. /\ ~StopsAt(e.id) /\ NextAt(e.id) = e.id + Needed(e.s)
      /\ e.id < NextAt(e.id)
  BY <1>2, <1>3, <1>4 DEF StopsAt, NextAt, LenBytes
<1>6. [i \in 1..WordAt(e.id) |-> pool[e.id + LenBytes + i - 1]] = e.s
  <2>1. e.s = [i \in 1..Len(e.s) |-> e.s[i]]
    BY <1>2
  <2>2. \A i \in 1..Len(e.s) : pool[e.id + LenBytes + i - 1] = e.s[i]
    BY <1>1 DEF BytesInPlace
  <2> QED BY <1>3, <2>1, <2>2
<1>7. Read(e.id) = e
  BY <1>2, <1>6 DEF Read, Entry
<1> QED BY <1>2, <1>4, <1>5, <1>7

(* Bytes at which an entry starts, and the head.                           *)
Bounds == {pool_head} \cup {e.id : e \in reserved}

(* From byte 0 the walk comes to every entry with only filled ones below.  *)
LEMMA WalkComesTo ==
  ASSUME PoolInv, NEW from,
         \A p \in Nat : from[p] =
            IF StopsAt(p) THEN {} ELSE {Read(p)} \cup from[NextAt(p)],
         NEW e \in interned, \A h \in Holes : e.id < h.id
  PROVE  from[e.id] \subseteq from[0]
<1> DEFINE T == {p \in Bounds : p <= e.id /\ ~(from[p] \subseteq from[0])}
<1> SUFFICES ASSUME T # {} PROVE FALSE
  <2>1. e.id \in Nat /\ e.id <= e.id
    BY EntryReads
  <2>2. e.id \in Bounds
    BY DEF PoolInv, TypeOK, Bounds
  <2> QED BY <2>1, <2>2
<1>1. T \subseteq Nat
  BY DEF PoolInv, TypeOK, Bounds
<1>2. PICK p \in T : \A q \in T : p <= q
  <2> HIDE DEF T
  <2> QED BY <1>1, LeastNatural
<1>3. p \in Bounds /\ p \in Nat /\ p # 0 /\ p <= e.id /\ ~(from[p] \subseteq from[0])
  BY <1>1
<1>4. PICK f \in reserved : p = f.id + Needed(f.s)
  BY <1>3 DEF PoolInv, Tiled, Bounds
<1>5. /\ f.id \in Nat /\ e.id \in Nat /\ f.id < p
      /\ f.id \in Bounds
  BY <1>4, EntrySizes DEF PoolInv, TypeOK, Bounds
<1>6. f \in interned
  BY <1>3, <1>5 DEF Holes, PoolInv, TypeOK
<1>7. from[f.id] = {Read(f.id)} \cup from[p]
  BY <1>4, <1>5, <1>6, EntryReads
<1>8. from[f.id] \subseteq from[0]
  BY <1>1, <1>2, <1>3, <1>5
<1> QED BY <1>3, <1>7, <1>8

(* With no hole it meets nothing but entries that are in place.            *)
LEMMA WalkMeetsEntries ==
  ASSUME PoolInv, Holes = {}, NEW from,
         \A p \in Nat : from[p] =
            IF StopsAt(p) THEN {} ELSE {Read(p)} \cup from[NextAt(p)]
  PROVE  from[0] \subseteq interned
<1> DEFINE T == {pool_head - p : p \in {q \in Bounds : ~(from[q] \subseteq interned)}}
<1>0. pool_head \in Nat /\ 0 \in Bounds
  <2>1. pool_head \in Nat
    BY PoolAssumption DEF PoolInv, TypeOK
  <2>2. 0 \in Bounds
    BY DEF PoolInv, Tiled, Bounds
  <2> QED BY <2>1, <2>2
<1>1. \A p \in Bounds : p \in Nat /\ p <= pool_head /\ pool_head - p \in Nat
  <2>1. \A f \in reserved : f.id \in Nat /\ f.id + Needed(f.s) <= pool_head
                            /\ Needed(f.s) \in Nat
    BY EntrySizes DEF PoolInv, TypeOK, ReservationsDisjoint
  <2> QED BY <1>0, <2>1 DEF Bounds
<1> SUFFICES ASSUME T # {} PROVE FALSE
  BY <1>0
<1>2. T \subseteq Nat
  BY <1>1
<1>3. PICK k \in T : \A m \in T : k <= m
  <2> HIDE DEF T
  <2> QED BY <1>2, LeastNatural
<1>4. PICK p \in Bounds : k = pool_head - p /\ ~(from[p] \subseteq interned)
  OBVIOUS
<1>5. p # pool_head
  <2>1. StopsAt(pool_head)
    BY <1>0, WalkReads DEF PoolInv, StopsAt, LenBytes
  <2> QED BY <1>0, <1>4, <2>1
<1>6. PICK f \in reserved : p = f.id
  BY <1>5 DEF Bounds
<1>7. f \in interned
  BY DEF Holes
<1> DEFINE q == f.id + Needed(f.s)
<1>8. /\ q \in Bounds /\ p < q /\ q \in Nat /\ p \in Nat
      /\ from[p] = {f} \cup from[q]
  <2>1. q \in Bounds
    BY DEF PoolInv, Tiled, Bounds
  <2>2. /\ p \in Nat /\ ~StopsAt(p) /\ Read(p) = f /\ NextAt(p) = q /\ p < NextAt(p)
    BY <1>6, <1>7, EntryReads
  <2> HIDE DEF q
  <2> QED BY <1>1, <2>1, <2>2
<1> HIDE DEF q
<1>9. ~(from[q] \subseteq interned)
  BY <1>4, <1>7, <1>8
<1>10. pool_head - q \in T
  BY <1>8, <1>9
<1>11. pool_head - p <= pool_head - q
  BY <1>3, <1>4, <1>10
<1> QED BY <1>0, <1>8, <1>11

(* In a state of the invariant the walk is sound.                          *)
LEMMA WalkIsSoundNow == PoolInv => WalkSoundBelowHoles
<1> SUFFICES ASSUME PoolInv PROVE WalkSoundBelowHoles
  OBVIOUS
<1>1. PICK from : /\ \A p \in Nat : from[p] =
                       IF StopsAt(p) THEN {} ELSE {Read(p)} \cup from[NextAt(p)]
                  /\ Walk = from[0]
  BY WalkScans DEF PoolInv
<1>2. ASSUME NEW e \in interned, \A h \in Holes : e.id < h.id
      PROVE  e \in Walk
  <2>1. from[e.id] \subseteq from[0]
    BY <1>1, <1>2, WalkComesTo
  <2>2. from[e.id] = {e} \cup from[NextAt(e.id)]
    BY <1>1, EntryReads
  <2> QED BY <1>1, <2>1, <2>2
<1>3. ASSUME Holes = {} PROVE Walk = interned
  <2>1. Walk \subseteq interned
    BY <1>1, <1>3, WalkMeetsEntries
  <2>2. interned \subseteq Walk
    BY <1>2, <1>3
  <2> QED BY <2>1, <2>2
<1> QED BY <1>2, <1>3 DEF WalkSoundBelowHoles

-----------------------------------------------------------------------------
(* The inductive invariant holds in every reachable state.                 *)
THEOREM PoolInvHolds == Spec => []PoolInv
<1>1. Init => PoolInv
  BY InitPoolInv
<1>2. PoolInv /\ [Next]_vars => PoolInv'
  BY StepPoolInv
<1> QED BY <1>1, <1>2, PTL DEF Spec

(* The CAS on string_pool_head hands out entries that never share a byte   *)
(* and never leave the pool.                                               *)
THEOREM ReservationsStayDisjoint == Spec => []ReservationsDisjoint
<1>1. PoolInv => ReservationsDisjoint
  BY DEF PoolInv
<1> QED BY <1>1, PoolInvHolds, PTL

(* An entry whose id has been returned is never written again.             *)
THEOREM InternedStaysIntact == Spec => []InternedIntact
<1>1. PoolInv => InternedIntact
  BY DEF PoolInv, HalfFilled
<1> QED BY <1>1, PoolInvHolds, PTL

(* The reader's walk over the bytes, taken at any moment, finds under its  *)
(* id every string interned below the first unfilled reservation, and      *)
(* exactly the interned strings when there is none.                        *)
THEOREM WalkIsSound == Spec => []WalkSoundBelowHoles
<1> QED BY WalkIsSoundNow, PoolInvHolds, PTL
=============================================================================
