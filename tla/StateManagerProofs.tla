-------------------------- MODULE StateManagerProofs --------------------------
(***************************************************************************)
(* Proofs about the StateManager, for any finite number of callers: as     *)
(* long as nobody rolls back, the operator's nonces fit, whoever sends at  *)
(* the same time, whatever sibling blocks displace and the pool replaces.  *)
(***************************************************************************)
EXTENDS StateManager, ProofLibrary

-----------------------------------------------------------------------------
(* The invariant.                                                          *)

(* What reth has, and the operator's part of it.                           *)
All == pool \cup Mined(chain)
Ops(S) == {t \in S : IsSystem(t.by)}
Nonces(S) == {t.nonce : t \in Ops(S)}

(* The operator's transactions in S have the nonces from a on, one each.   *)
From(S, a) ==
    /\ IsFiniteSet(Ops(S))
    /\ Nonces(S) = a..(a + Cardinality(Ops(S)) - 1)

Distinct(S) == \A s, t \in Ops(S) : s.nonce = t.nonce => s = t

(* No transaction of the operator in S is behind the blocks k.             *)
Ahead(S, k) == \A t \in Ops(S) : t.nonce >= NonceAt(k)

(* Blocks k with the operator's transactions in order, and only with       *)
(* nonces that there are in S.                                             *)
InPlace(k, S) ==
    /\ \E T : k \in Seq(T)
    /\ IsFiniteSet(Mined(k)) /\ Distinct(Mined(k)) /\ From(Mined(k), 0)
    /\ Nonces(Mined(k)) \subseteq Nonces(S)

Fields == {"pc", "fee", "nonce", "sent", "base", "tries", "answer"}
RollbackSteps == {"stop", "unwind", "resync"}

CallsOK ==
    /\ asks \in Scenarios
    /\ operatorNonce \in Nat
    /\ DOMAIN call = Callers
    /\ \A c \in Callers :
          /\ DOMAIN call[c] = Fields
          /\ call[c].nonce \in 0..operatorNonce
          /\ call[c].pc \notin RollbackSteps

Counting == {c \in Callers : At(c, "count")}

(* Of the nonces that were counted or are about to be, reth knows all but  *)
(* as many as it replaced.                                                 *)
Fitting(S, missing, known) ==
    /\ Nonces(S) \subseteq 0..(known - 1)
    /\ Cardinality(Nonces(S)) + missing = known

BooksOK ==
    /\ IsFiniteSet(All) /\ Distinct(All) /\ Ahead(pool, chain)
    /\ replaced \in Nat
    /\ Fitting(All, replaced, operatorNonce + Cardinality(Counting))

BlocksOK ==
    /\ InPlace(chain, All)
    /\ \A c \in Callers : call[c].pc \in {"build", "commit"} => InPlace(call[c].base, All)

IInv == Steady => CallsOK /\ BooksOK /\ BlocksOK

-----------------------------------------------------------------------------
(* Sets of transactions.                                                   *)

LEMMA CardinalityOf ==
  ASSUME NEW S, NEW a \in Nat, From(S, a)
  PROVE  /\ Cardinality(Ops(S)) \in Nat
         /\ \A t \in Ops(S) : t.nonce \in Nat /\ a <= t.nonce /\ t.nonce < a + Cardinality(Ops(S))
         /\ \A n \in a..(a + Cardinality(Ops(S)) - 1) : \E t \in Ops(S) : t.nonce = n
<1>1. Cardinality(Ops(S)) \in Nat
  BY FS_CardinalityType DEF From
<1>2. ASSUME NEW t \in Ops(S)
      PROVE  t.nonce \in Nat /\ a <= t.nonce /\ t.nonce < a + Cardinality(Ops(S))
  <2>1. t.nonce \in a..(a + Cardinality(Ops(S)) - 1)
    BY DEF From, Nonces
  <2> QED
    BY <2>1, <1>1
<1>3. \A n \in a..(a + Cardinality(Ops(S)) - 1) : \E t \in Ops(S) : t.nonce = n
  BY DEF From, Nonces
<1> QED
  BY <1>1, <1>2, <1>3

LEMMA Intervals ==
  ASSUME NEW a \in Nat, NEW n \in Nat, NEW m \in Nat
  PROVE  /\ a..(a + (n + 1) - 1) = (a..(a + n - 1)) \cup {a + n}
         /\ 0..(0 + (n + m) - 1) = (0..(0 + n - 1)) \cup (n..(n + m - 1))
<1>1. a..(a + (n + 1) - 1) = (a..(a + n - 1)) \cup {a + n}
  OBVIOUS
<1>2. 0..(0 + (n + m) - 1) = (0..(0 + n - 1)) \cup (n..(n + m - 1))
  OBVIOUS
<1> QED
  BY <1>1, <1>2

(* One more: the next of the operator's, or a user's.                      *)
LEMMA OneMore ==
  ASSUME NEW S, NEW a \in Nat, From(S, a), NEW t,
         IsSystem(t.by) => t.nonce = a + Cardinality(Ops(S)),
         NEW R, R = S \cup {t}
  PROVE  /\ From(R, a)
         /\ Cardinality(Ops(R)) = Cardinality(Ops(S)) + (IF IsSystem(t.by) THEN 1 ELSE 0)
         /\ Distinct(S) => Distinct(R)
<1> DEFINE n == Cardinality(Ops(S))
<1>1. /\ n \in Nat
      /\ \A s \in Ops(S) : s.nonce \in Nat /\ s.nonce < a + n
  BY CardinalityOf
<1>2. CASE ~IsSystem(t.by)
  <2>1. Ops(R) = Ops(S)
    BY <1>2 DEF Ops
  <2> QED
    <3>1. From(R, a)
      BY <2>1 DEF From, Nonces
    <3>2. Distinct(S) => Distinct(R)
      BY <2>1 DEF Distinct
    <3> QED
      BY <1>1, <1>2, <2>1, <3>1, <3>2
<1>3. CASE IsSystem(t.by)
  <2>1. Ops(R) = Ops(S) \cup {t} /\ t \notin Ops(S)
    <3>1. t \notin Ops(S)
      BY <1>1, <1>3
    <3>2. Ops(R) = Ops(S) \cup {t}
      BY <1>3 DEF Ops
    <3> QED
      BY <3>1, <3>2
  <2>2. IsFiniteSet(Ops(R)) /\ Cardinality(Ops(R)) = n + 1
    BY <2>1, FS_AddElement DEF From
  <2>3. Nonces(R) = Nonces(S) \cup {a + n}
    BY <2>1, <1>3 DEF Nonces
  <2>4. Nonces(S) = a..(a + n - 1)
    BY DEF From
  <2>5. Nonces(R) = a..(a + (n + 1) - 1)
    <3> HIDE DEF n
    <3> QED
      BY <1>1, <2>3, <2>4, Intervals
  <2>6. ASSUME Distinct(S) PROVE Distinct(R)
    <3>1. SUFFICES ASSUME NEW x \in Ops(R), NEW y \in Ops(R), x.nonce = y.nonce PROVE x = y
      BY DEF Distinct
    <3>2. \A s \in Ops(S) : s.nonce # t.nonce
      BY <1>1, <1>3
    <3> QED
      BY <2>1, <2>6, <3>1, <3>2 DEF Distinct
  <2> QED
    BY <1>3, <2>2, <2>5, <2>6 DEF From
<1> QED
  BY <1>2, <1>3

(* Those from a on and those that follow them.                             *)
LEMMA FollowedBy ==
  ASSUME NEW S, From(S, 0), Distinct(S), NEW T, From(T, Cardinality(Ops(S))), Distinct(T)
  PROVE  From(S \cup T, 0) /\ Distinct(S \cup T)
<1> DEFINE n == Cardinality(Ops(S))
           m == Cardinality(Ops(T))
<1>1. n \in Nat /\ IsFiniteSet(Ops(S)) /\ Nonces(S) = 0..(0 + n - 1)
      /\ \A s \in Ops(S) : s.nonce \in Nat /\ s.nonce < n
  BY CardinalityOf DEF From
<1>2. m \in Nat /\ IsFiniteSet(Ops(T)) /\ Nonces(T) = n..(n + m - 1)
      /\ \A s \in Ops(T) : s.nonce \in Nat /\ n <= s.nonce
  BY <1>1, CardinalityOf DEF From
<1>3. Ops(S) \cap Ops(T) = {}
  BY <1>1, <1>2
<1>4. Ops(S \cup T) = Ops(S) \cup Ops(T)
  BY DEF Ops
<1>5. IsFiniteSet(Ops(S \cup T)) /\ Cardinality(Ops(S \cup T)) = n + m
  <2>1. /\ IsFiniteSet(Ops(S) \cup Ops(T))
        /\ Cardinality(Ops(S) \cup Ops(T)) = n + m - Cardinality(Ops(S) \cap Ops(T))
    BY <1>1, <1>2, FS_Union
  <2>2. Cardinality(Ops(S) \cap Ops(T)) = 0
    BY <1>3, FS_EmptySet
  <2>3. n \in Nat /\ m \in Nat
    BY <1>1, <1>2
  <2> HIDE DEF n, m
  <2>4. n + m - 0 = n + m
    BY <2>3
  <2> QED
    BY <1>4, <2>1, <2>2, <2>4
<1>6. Nonces(S \cup T) = Nonces(S) \cup Nonces(T)
  BY <1>4 DEF Nonces
<1>7. Nonces(S \cup T) = 0..(0 + (n + m) - 1)
  <2>1. /\ n \in Nat /\ m \in Nat
        /\ Nonces(S) = 0..(0 + n - 1) /\ Nonces(T) = n..(n + m - 1)
    BY <1>1, <1>2
  <2> HIDE DEF n, m
  <2>2. 0..(0 + (n + m) - 1) = (0..(0 + n - 1)) \cup (n..(n + m - 1))
    BY <2>1, Intervals
  <2> QED
    BY <1>6, <2>1, <2>2
<1>8. Distinct(S \cup T)
  <2>1. SUFFICES ASSUME NEW x \in Ops(S) \cup Ops(T), NEW y \in Ops(S) \cup Ops(T), x.nonce = y.nonce
                 PROVE  x = y
    BY <1>4 DEF Distinct
  <2>2. (x \in Ops(S) /\ y \in Ops(S)) \/ (x \in Ops(T) /\ y \in Ops(T))
    BY <1>1, <1>2, <2>1
  <2> QED
    BY <2>1, <2>2 DEF Distinct
<1> QED
  BY <1>5, <1>7, <1>8 DEF From

-----------------------------------------------------------------------------
(* Blocks that reth builds.                                                *)

LEMMA BestOfThem ==
  ASSUME NEW W, W # {}, \A t \in Ops(W) : t.nonce \in Nat
  PROVE  Best(W) \in W
<1>1. \E t \in W : \A u \in W : IsSystem(t.by) => IsSystem(u.by) /\ t.nonce <= u.nonce
  <2>1. CASE \E t \in W : ~IsSystem(t.by)
    BY <2>1
  <2>2. CASE \A t \in W : IsSystem(t.by)
    <3>1. Ops(W) = W
      BY <2>2 DEF Ops
    <3>2. Nonces(W) \in SUBSET Nat /\ Nonces(W) # {}
      BY <3>1 DEF Nonces
    <3>3. PICK n \in Nonces(W) : \A k \in Nonces(W) : n <= k
      BY <3>2, NatSetLeast
    <3>4. PICK t \in W : t.nonce = n
      BY <3>1, <3>3 DEF Nonces
    <3>5. \A u \in W : u.nonce \in Nonces(W)
      BY <3>1 DEF Nonces
    <3> QED
      BY <2>2, <3>3, <3>4, <3>5
  <2> QED
    BY <2>1, <2>2
<1> QED
  BY <1>1 DEF Best

(* The loop as a recursive function.                                       *)
IsPacking(s, c, W) ==
    s = [k \in 0..Cardinality(W) |->
            IF k = 0 THEN [txs |-> <<>>, left |-> W] ELSE PackNext(c, s[k - 1])]

LEMMA PackingExists ==
  ASSUME NEW c, NEW W, Cardinality(W) \in Nat
  PROVE  \E s : IsPacking(s, c, W)
<1> DEFINE Trace(f, n) == /\ f = [i \in 0..n |-> f[i]] /\ f[0] = [txs |-> <<>>, left |-> W]
                          /\ \A i \in 1..n : f[i] = PackNext(c, f[i - 1])
           Ok == {n \in Nat : \E f : Trace(f, n)}
<1>1. 0 \in Ok
  <2>1. Trace([i \in 0..0 |-> [txs |-> <<>>, left |-> W]], 0)
    OBVIOUS
  <2> QED
    BY <2>1
<1>2. ASSUME NEW n \in Ok PROVE n + 1 \in Ok
  <2>1. PICK f : Trace(f, n)
    BY <1>2
  <2> DEFINE t == [i \in 0..(n + 1) |-> IF i = n + 1 THEN PackNext(c, f[n]) ELSE f[i]]
  <2>2. n \in Nat /\ t = [i \in 0..(n + 1) |-> t[i]] /\ t[0] = [txs |-> <<>>, left |-> W]
    BY <2>1
  <2>3. ASSUME NEW i \in 1..(n + 1) PROVE t[i] = PackNext(c, t[i - 1])
    <3>1. CASE i = n + 1
      BY <3>1, <2>2
    <3>2. CASE i # n + 1
      <4>1. i \in 1..n /\ i - 1 \in 0..n /\ i \in 0..n
        BY <2>2, <3>2
      <4>2. t[i] = f[i] /\ t[i - 1] = f[i - 1]
        BY <4>1, <2>2
      <4> QED
        BY <2>1, <4>1, <4>2
    <3> QED
      BY <3>1, <3>2
  <2> HIDE DEF t
  <2>4. Trace(t, n + 1)
    BY <2>2, <2>3
  <2> HIDE DEF Trace
  <2> QED
    BY <2>2, <2>4
<1> HIDE DEF Ok
<1>3. Ok = Nat
  <2>1. Ok \in SUBSET Nat
    BY DEF Ok
  <2> QED
    BY <1>1, <1>2, <2>1, NatSetInduction
<1>4. PICK f : Trace(f, Cardinality(W))
  BY <1>3 DEF Ok
<1>5. ASSUME NEW k \in 0..Cardinality(W)
      PROVE  f[k] = IF k = 0 THEN [txs |-> <<>>, left |-> W] ELSE PackNext(c, f[k - 1])
  <2>1. CASE k = 0
    BY <2>1, <1>4
  <2>2. CASE k # 0
    <3>1. k \in 1..Cardinality(W)
      BY <2>2
    <3> QED
      BY <3>1, <2>2, <1>4
  <2> QED
    BY <2>1, <2>2
<1>6. IsPacking(f, c, W)
  BY <1>4, <1>5, Zenon DEF IsPacking
<1> QED
  BY <1>6

Packs(s, c, W) ==
    /\ Packed(c, W) = s[Cardinality(W)].txs
    /\ s[0] = [txs |-> <<>>, left |-> W]
    /\ \A k \in 1..Cardinality(W) : s[k] = PackNext(c, s[k - 1])

LEMMA PackingOf ==
  ASSUME NEW c, NEW W, Cardinality(W) \in Nat
  PROVE  \E s : Packs(s, c, W)
<1> DEFINE s == CHOOSE s : IsPacking(s, c, W)
<1>1. IsPacking(s, c, W)
  BY PackingExists
<1>2. Packed(c, W) = s[Cardinality(W)].txs
  BY DEF Packed, IsPacking
<1> HIDE DEF s
<1>3. s[0] = [txs |-> <<>>, left |-> W]
  BY <1>1 DEF IsPacking
<1>4. ASSUME NEW k \in 1..Cardinality(W) PROVE s[k] = PackNext(c, s[k - 1])
  <2>1. k \in 0..Cardinality(W) /\ k # 0
    OBVIOUS
  <2> QED
    BY <2>1, <1>1 DEF IsPacking
<1>5. Packs(s, c, W)
  BY <1>2, <1>3, <1>4 DEF Packs
<1> QED
  BY <1>5

(* What is in a block so far: of what waits, the operator's next nonces.   *)
PackedOK(s, c, W, k) ==
    /\ s.txs \in Seq(W)
    /\ From(ToSet(s.txs), NonceAt(c)) /\ Distinct(ToSet(s.txs))
    /\ s.left \subseteq W /\ IsFiniteSet(s.left)
    /\ Cardinality(s.left) = Cardinality(W) - k

LEMMA AppendedSet ==
  ASSUME NEW T, NEW q \in Seq(T), NEW t \in T
  PROVE  ToSet(Append(q, t)) = ToSet(q) \cup {t}
<1>1. Len(q) \in Nat /\ DOMAIN q = 1..Len(q) /\ Append(q, t) \in Seq(T)
      /\ DOMAIN Append(q, t) = 1..(Len(q) + 1)
  BY LenProperties, AppendProperties
<1>2. Append(q, t)[Len(q) + 1] = t /\ \A i \in 1..Len(q) : Append(q, t)[i] = q[i]
  BY AppendProperties
<1>3. \A x \in ToSet(Append(q, t)) : x \in ToSet(q) \cup {t}
  <2>1. SUFFICES ASSUME NEW i \in 1..(Len(q) + 1) PROVE Append(q, t)[i] \in ToSet(q) \cup {t}
    BY <1>1 DEF ToSet
  <2>2. CASE i = Len(q) + 1
    BY <2>2, <1>2
  <2>3. CASE i # Len(q) + 1
    <3>1. i \in 1..Len(q)
      BY <2>3, <1>1
    <3> QED
      BY <3>1, <1>1, <1>2 DEF ToSet
  <2> QED
    BY <2>2, <2>3
<1>4. \A x \in ToSet(q) \cup {t} : x \in ToSet(Append(q, t))
  <2>1. t \in ToSet(Append(q, t))
    <3>1. Len(q) + 1 \in DOMAIN Append(q, t)
      BY <1>1
    <3> QED
      BY <3>1, <1>2 DEF ToSet
  <2>2. ASSUME NEW i \in 1..Len(q) PROVE q[i] \in ToSet(Append(q, t))
    <3>1. i \in DOMAIN Append(q, t)
      BY <1>1
    <3> QED
      BY <3>1, <1>2 DEF ToSet
  <2> QED
    BY <1>1, <2>1, <2>2 DEF ToSet
<1> QED
  BY <1>3, <1>4

LEMMA PackNextKeeps ==
  ASSUME NEW c, NEW W, IsFiniteSet(W), NonceAt(c) \in Nat, \A t \in Ops(W) : t.nonce \in Nat,
         NEW k \in Nat, k < Cardinality(W), NEW s, PackedOK(s, c, W, k)
  PROVE  PackedOK(PackNext(c, s), c, W, k + 1)
<1> DEFINE t == Best(s.left)
           next == PackNext(c, s)
<1>1. Cardinality(W) \in Nat /\ Cardinality(s.left) > 0
  BY FS_CardinalityType DEF PackedOK
<1>2. s.left # {}
  BY <1>1, FS_EmptySet
<1>3. t \in s.left /\ t \in W
  <2>1. \A u \in Ops(s.left) : u.nonce \in Nat
    BY DEF PackedOK, Ops
  <2> QED
    BY <1>2, <2>1, BestOfThem DEF PackedOK
<1> HIDE DEF t
<1>4. /\ next.txs = IF Fits(c, s.txs, t) THEN Append(s.txs, t) ELSE s.txs
      /\ next.left = s.left \ {t}
  BY DEF PackNext, t
<1> HIDE DEF next
<1>5. next.left \subseteq W /\ IsFiniteSet(next.left) /\ Cardinality(next.left) = Cardinality(W) - (k + 1)
  <2>1. IsFiniteSet(s.left \ {t}) /\ Cardinality(s.left \ {t}) = Cardinality(s.left) - 1
    BY <1>3, FS_RemoveElement DEF PackedOK
  <2> QED
    BY <1>1, <1>4, <2>1 DEF PackedOK
<1>6. next.txs \in Seq(W) /\ From(ToSet(next.txs), NonceAt(c)) /\ Distinct(ToSet(next.txs))
  <2>1. CASE ~Fits(c, s.txs, t)
    BY <2>1, <1>4 DEF PackedOK
  <2>2. CASE Fits(c, s.txs, t)
    <3>1. next.txs = Append(s.txs, t) /\ s.txs \in Seq(W)
      BY <2>2, <1>4 DEF PackedOK
    <3>2. ToSet(next.txs) = ToSet(s.txs) \cup {t}
      BY <3>1, <1>3, AppendedSet
    <3>3. IsSystem(t.by) => t.nonce = NonceAt(c) + Cardinality(Ops(ToSet(s.txs)))
      BY <2>2 DEF Fits, Ops
    <3>4. From(ToSet(next.txs), NonceAt(c)) /\ Distinct(ToSet(next.txs))
      BY <3>2, <3>3, OneMore DEF PackedOK
    <3> QED
      BY <3>1, <3>4, <1>3, AppendProperties
  <2> QED
    BY <2>1, <2>2
<1> QED
  BY <1>5, <1>6 DEF PackedOK, next

LEMMA PackedFits ==
  ASSUME NEW c, NEW W, IsFiniteSet(W), NonceAt(c) \in Nat, \A t \in Ops(W) : t.nonce \in Nat
  PROVE  /\ ToSet(Packed(c, W)) \subseteq W
         /\ From(ToSet(Packed(c, W)), NonceAt(c)) /\ Distinct(ToSet(Packed(c, W)))
<1> DEFINE n == Cardinality(W)
<1>1. n \in Nat
  BY FS_CardinalityType
<1>2. PICK s : Packs(s, c, W)
  BY <1>1, PackingOf
<1>3. /\ Packed(c, W) = s[n].txs
      /\ s[0] = [txs |-> <<>>, left |-> W]
      /\ \A k \in 1..n : s[k] = PackNext(c, s[k - 1])
  BY <1>2 DEF Packs
<1> DEFINE Ok == {k \in Nat : k <= n => PackedOK(s[k], c, W, k)}
<1>4. 0 \in Ok
  <2>1. s[0].txs = <<>> /\ s[0].left = W
    BY <1>3
  <2>2. ToSet(<<>>) = {}
    BY DEF ToSet
  <2>3. Ops({}) = {} /\ Nonces({}) = {}
    BY DEF Ops, Nonces
  <2>4. From({}, NonceAt(c)) /\ Distinct({})
    <3>1. IsFiniteSet(Ops({})) /\ Cardinality(Ops({})) = 0
      BY <2>3, FS_EmptySet
    <3>2. NonceAt(c)..(NonceAt(c) + 0 - 1) = {}
      OBVIOUS
    <3> QED
      BY <2>3, <3>1, <3>2 DEF From, Distinct
  <2>5. s[0].txs \in Seq(W) /\ Cardinality(W) = Cardinality(W) - 0
    BY <1>1, <2>1
  <2>6. PackedOK(s[0], c, W, 0)
    BY <2>1, <2>2, <2>4, <2>5 DEF PackedOK
  <2> QED
    BY <2>6
<1>5. ASSUME NEW k \in Ok PROVE k + 1 \in Ok
  <2>1. SUFFICES ASSUME k + 1 <= n PROVE PackedOK(s[k + 1], c, W, k + 1)
    BY <1>5
  <2>2. k \in Nat /\ k < n /\ PackedOK(s[k], c, W, k) /\ k + 1 \in 1..n /\ (k + 1) - 1 = k
    BY <1>1, <1>5, <2>1
  <2>3. s[k + 1] = PackNext(c, s[k])
    BY <2>2, <1>3
  <2> QED
    BY <2>2, <2>3, PackNextKeeps
<1>6. Ok \in SUBSET Nat
  OBVIOUS
<1> HIDE DEF Ok
<1>7. Ok = Nat
  BY <1>4, <1>5, <1>6, NatSetInduction
<1>8. PackedOK(s[n], c, W, n)
  BY <1>1, <1>7 DEF Ok
<1>9. s[n].txs \in Seq(W) /\ From(ToSet(s[n].txs), NonceAt(c)) /\ Distinct(ToSet(s[n].txs))
  BY <1>8 DEF PackedOK
<1>10. ToSet(s[n].txs) \subseteq W
  BY <1>9, ElementOfSeq, LenProperties DEF ToSet
<1> QED
  BY <1>3, <1>9, <1>10

LEMMA MinedAppended ==
  ASSUME NEW T, NEW k \in Seq(T), NEW b
  PROVE  /\ Mined(Append(k, b)) = Mined(k) \cup ToSet(b.txs)
         /\ Append(k, b) \in Seq(T \cup {b})
<1> DEFINE n == Len(k)
           new == Append(k, b)
<1>1. k \in Seq(T \cup {b}) /\ n \in Nat /\ DOMAIN k = 1..n
  BY LenProperties, SeqMonotonic
<1>2. /\ new \in Seq(T \cup {b}) /\ DOMAIN new = 1..(n + 1)
      /\ new[n + 1] = b /\ \A i \in 1..n : new[i] = k[i]
  BY <1>1, AppendProperties, LenProperties
<1> HIDE DEF new, n
<1>3. \A t \in Mined(new) : t \in Mined(k) \cup ToSet(b.txs)
  <2>1. SUFFICES ASSUME NEW i \in 1..(n + 1), NEW t \in ToSet(new[i].txs)
                 PROVE  t \in Mined(k) \cup ToSet(b.txs)
    BY <1>2 DEF Mined
  <2>2. CASE i = n + 1
    BY <2>1, <2>2, <1>2
  <2>3. CASE i # n + 1
    <3>1. i \in 1..n
      BY <2>3, <1>1
    <3> QED
      BY <2>1, <3>1, <1>1, <1>2 DEF Mined
  <2> QED
    BY <2>2, <2>3
<1>4. \A t \in ToSet(b.txs) : t \in Mined(new)
  <2>1. n + 1 \in DOMAIN new
    BY <1>1, <1>2
  <2> QED
    BY <2>1, <1>2 DEF Mined
<1>5. \A t \in Mined(k) : t \in Mined(new)
  <2>1. SUFFICES ASSUME NEW i \in 1..n, NEW t \in ToSet(k[i].txs) PROVE t \in Mined(new)
    BY <1>1 DEF Mined
  <2>2. i \in DOMAIN new
    BY <1>1, <1>2
  <2> QED
    BY <2>1, <2>2, <1>2 DEF Mined
<1>6. Mined(new) = Mined(k) \cup ToSet(b.txs)
  BY <1>3, <1>4, <1>5
<1> QED
  BY <1>2, <1>6 DEF new

(* What the blocks in place hold, and what is in the pool with them.       *)
LEMMA PoolKeeps ==
  ASSUME BooksOK, NEW k, InPlace(k, All)
  PROVE  /\ NonceAt(k) = Cardinality(Ops(Mined(k))) /\ NonceAt(k) \in Nat
         /\ \A t \in Ops(Mined(k)) : t.nonce \in Nat /\ t.nonce < NonceAt(k)
         /\ \A n \in 0..(NonceAt(k) - 1) : \E t \in Ops(Mined(k)) : t.nonce = n
         /\ PoolOn(k) \subseteq All /\ IsFiniteSet(PoolOn(k)) /\ Ahead(PoolOn(k), k)
         /\ \A t \in Ops(All) : t.nonce \in Nat
<1>1. NonceAt(k) = Cardinality(Ops(Mined(k)))
  BY DEF NonceAt, Ops
<1>2. /\ NonceAt(k) \in Nat
      /\ \A t \in Ops(Mined(k)) : t.nonce \in Nat /\ t.nonce < 0 + NonceAt(k)
      /\ \A n \in 0..(0 + NonceAt(k) - 1) : \E t \in Ops(Mined(k)) : t.nonce = n
  BY <1>1, CardinalityOf DEF InPlace
<1>3. PoolOn(k) \subseteq All /\ IsFiniteSet(PoolOn(k)) /\ Ahead(PoolOn(k), k)
  BY FS_Subset DEF PoolOn, All, Ahead, Ops, BooksOK
<1>4. ASSUME NEW t \in Ops(All) PROVE t.nonce \in Nat
  BY DEF BooksOK, Fitting, Nonces
<1> QED
  BY <1>1, <1>2, <1>3, <1>4

(* When blocks in place become the canonical ones, no nonce gets lost:     *)
(* what is displaced is in the pool again, unless its nonce is used.       *)
LEMMA AllKept ==
  ASSUME BooksOK, NEW k, InPlace(k, All), NEW A, A = PoolOn(k) \cup Mined(k)
  PROVE  IsFiniteSet(A) /\ Distinct(A) /\ Nonces(A) = Nonces(All)
<1>1. /\ NonceAt(k) \in Nat
      /\ \A t \in Ops(Mined(k)) : t.nonce \in Nat /\ t.nonce < NonceAt(k)
      /\ \A n \in 0..(NonceAt(k) - 1) : \E t \in Ops(Mined(k)) : t.nonce = n
      /\ PoolOn(k) \subseteq All /\ IsFiniteSet(PoolOn(k))
      /\ \A t \in Ops(PoolOn(k)) : t.nonce >= NonceAt(k)
      /\ \A t \in Ops(All) : t.nonce \in Nat
  BY PoolKeeps DEF Ahead
<1>2. IsFiniteSet(A)
  BY <1>1, FS_Union DEF InPlace
<1>3. Ops(A) = Ops(PoolOn(k)) \cup Ops(Mined(k)) /\ Ops(PoolOn(k)) \subseteq Ops(All)
  BY <1>1 DEF Ops
<1>4. Distinct(A)
  <2>1. SUFFICES ASSUME NEW x \in Ops(A), NEW y \in Ops(A), x.nonce = y.nonce PROVE x = y
    BY DEF Distinct
  <2>2. (x \in Ops(PoolOn(k)) /\ y \in Ops(PoolOn(k))) \/ (x \in Ops(Mined(k)) /\ y \in Ops(Mined(k)))
    <3>1. \A s \in Ops(PoolOn(k)), t \in Ops(Mined(k)) : s.nonce # t.nonce
      <4>1. SUFFICES ASSUME NEW s \in Ops(PoolOn(k)), NEW t \in Ops(Mined(k)), s.nonce = t.nonce
                     PROVE  FALSE
        OBVIOUS
      <4>2. s.nonce >= NonceAt(k) /\ t.nonce \in Nat /\ t.nonce < NonceAt(k)
        BY <1>1
      <4> QED
        BY <4>1, <4>2, <1>1
    <3> QED
      BY <3>1, <1>3, <2>1, Zenon
  <2>3. CASE x \in Ops(PoolOn(k)) /\ y \in Ops(PoolOn(k))
    BY <2>1, <2>3, <1>3 DEF BooksOK, Distinct
  <2>4. CASE x \in Ops(Mined(k)) /\ y \in Ops(Mined(k))
    BY <2>1, <2>4 DEF InPlace, Distinct
  <2> QED
    BY <2>2, <2>3, <2>4
<1>5. Nonces(A) \subseteq Nonces(All)
  BY <1>3 DEF InPlace, Nonces
<1>6. ASSUME NEW t \in Ops(All) PROVE \E s \in Ops(A) : s.nonce = t.nonce
  <2>1. CASE t.nonce < NonceAt(k)
    <3>1. t.nonce \in 0..(NonceAt(k) - 1)
      BY <2>1, <1>1
    <3> QED
      BY <3>1, <1>1, <1>3
  <2>2. CASE ~(t.nonce < NonceAt(k))
    <3>1. t.nonce >= NonceAt(k)
      BY <2>2, <1>1
    <3>2. t \in PoolOn(k) \cup Mined(k)
      BY <3>1 DEF PoolOn, All, Ops
    <3> QED
      BY <3>2 DEF Ops
  <2> QED
    BY <2>1, <2>2
<1>7. Nonces(All) \subseteq Nonces(A)
  BY <1>6 DEF Nonces
<1> QED
  BY <1>2, <1>4, <1>5, <1>7

(* A block that is built on blocks in place is in place.                   *)
LEMMA BuiltInPlace ==
  ASSUME BooksOK, NEW k, InPlace(k, All), NEW fee,
         NEW b, b = [txs |-> Packed(k, PoolOn(k)), fee |-> fee]
  PROVE  InPlace(Append(k, b), All)
<1> DEFINE W == PoolOn(k)
<1>1. /\ NonceAt(k) = Cardinality(Ops(Mined(k))) /\ NonceAt(k) \in Nat
      /\ W \subseteq All /\ IsFiniteSet(W)
      /\ \A t \in Ops(All) : t.nonce \in Nat
  BY PoolKeeps
<1> HIDE DEF W
<1>2. Ops(W) \subseteq Ops(All) /\ \A t \in Ops(W) : t.nonce \in Nat
  BY <1>1 DEF Ops
<1>3. ToSet(b.txs) \subseteq W /\ From(ToSet(b.txs), NonceAt(k)) /\ Distinct(ToSet(b.txs))
  BY <1>1, <1>2, PackedFits DEF W
<1>4. PICK T : k \in Seq(T)
  BY DEF InPlace
<1>5. Mined(Append(k, b)) = Mined(k) \cup ToSet(b.txs) /\ Append(k, b) \in Seq(T \cup {b})
  BY <1>4, MinedAppended
<1>6. IsFiniteSet(Mined(k) \cup ToSet(b.txs))
  <2>1. IsFiniteSet(ToSet(b.txs))
    BY <1>1, <1>3, FS_Subset
  <2> QED
    BY <2>1, FS_Union DEF InPlace
<1>7. From(Mined(k) \cup ToSet(b.txs), 0) /\ Distinct(Mined(k) \cup ToSet(b.txs))
  BY <1>1, <1>3, FollowedBy DEF InPlace
<1>8. Nonces(Mined(k) \cup ToSet(b.txs)) \subseteq Nonces(All)
  <2>1. Ops(Mined(k) \cup ToSet(b.txs)) \subseteq Ops(Mined(k)) \cup Ops(All)
    BY <1>1, <1>3 DEF Ops
  <2> QED
    BY <2>1 DEF InPlace, Nonces
<1>9. \E U : Append(k, b) \in Seq(U)
  BY <1>5
<1> QED
  BY <1>5, <1>6, <1>7, <1>8, <1>9 DEF InPlace

-----------------------------------------------------------------------------
(* Steps. *)

LEMMA InPlaceStill ==
  ASSUME NEW k, NEW S, NEW R, Nonces(S) \subseteq Nonces(R), InPlace(k, S)
  PROVE  InPlace(k, R)
  BY DEF InPlace

LEMMA CallMoves ==
  ASSUME CallsOK, asks' = asks, NEW c \in Callers, NEW new, call' = [call EXCEPT ![c] = new],
         DOMAIN new = Fields, new.nonce \in 0..operatorNonce', new.pc \notin RollbackSteps,
         operatorNonce' \in Nat, operatorNonce <= operatorNonce'
  PROVE  /\ CallsOK'
         /\ \A d \in Callers : call'[d] = IF d = c THEN new ELSE call[d]
         /\ Counting' = IF new.pc = "count" THEN Counting \cup {c} ELSE Counting \ {c}
<1>1. DOMAIN call = Callers /\ Callers' = Callers
  BY DEF CallsOK, Callers
<1>2. \A d \in Callers : call'[d] = IF d = c THEN new ELSE call[d]
  BY <1>1
<1>3. ASSUME NEW d \in Callers
      PROVE  DOMAIN call'[d] = Fields /\ call'[d].nonce \in 0..operatorNonce' /\ call'[d].pc \notin RollbackSteps
  <2>1. CASE d = c
    BY <2>1, <1>2
  <2>2. CASE d # c
    <3>1. call'[d] = call[d] /\ call[d].nonce \in 0..operatorNonce /\ operatorNonce \in Nat
      BY <2>2, <1>2 DEF CallsOK
    <3>2. call[d].nonce \in 0..operatorNonce'
      BY <3>1
    <3> QED
      BY <3>1, <3>2 DEF CallsOK
  <2> QED
    BY <2>1, <2>2
<1>4. DOMAIN call' = Callers
  BY <1>1
<1>5. CallsOK'
  BY <1>1, <1>3, <1>4 DEF CallsOK
<1>6. Counting' = {d \in Callers : call'[d].pc = "count"}
  BY <1>1 DEF Counting, At
<1>7. Counting' = IF new.pc = "count" THEN Counting \cup {c} ELSE Counting \ {c}
  <2>1. CASE new.pc = "count"
    BY <2>1, <1>2, <1>6 DEF Counting, At
  <2>2. CASE new.pc # "count"
    BY <2>2, <1>2, <1>6 DEF Counting, At
  <2> QED
    BY <2>1, <2>2
<1> QED
  BY <1>2, <1>5, <1>7

(* The invariant of the next state from facts about what it has.           *)
LEMMA Assemble ==
  ASSUME asks' = asks, IsFiniteSet(All'), Distinct(All'), Ahead(pool', chain'), replaced' \in Nat,
         Fitting(All', replaced', operatorNonce' + Cardinality(Counting')),
         InPlace(chain', All'),
         \A c \in Callers : call'[c].pc \in {"build", "commit"} => InPlace(call'[c].base, All')
  PROVE  BooksOK' /\ BlocksOK'
<1> USE DEF From, Nonces, Ops, IsSystem, Method, Distinct
<1>1. Distinct(All)'
  OBVIOUS
<1>2. Ahead(pool, chain)'
  BY DEF Ahead, NonceAt
<1>3. Fitting(All, replaced, operatorNonce + Cardinality(Counting))'
  BY DEF Fitting
<1>4. InPlace(chain, All)'
  BY DEF InPlace
<1>5. (\A c \in Callers : call[c].pc \in {"build", "commit"} => InPlace(call[c].base, All))'
  <2>1. SUFFICES ASSUME NEW c \in Callers, call'[c].pc \in {"build", "commit"}
                 PROVE  InPlace(call[c].base, All)'
    BY DEF Callers
  <2>2. InPlace(call'[c].base, All')
    BY <2>1
  <2> QED
    BY <2>2 DEF InPlace
<1> HIDE DEF From, Nonces, Ops, IsSystem, Method, Distinct
<1> QED
  BY <1>1, <1>2, <1>3, <1>4, <1>5 DEF BooksOK, BlocksOK

LEMMA StepKeeps ==
  ASSUME CallsOK, BooksOK, BlocksOK, asks' = asks, NEW c \in Callers, NEW new,
         call' = [call EXCEPT ![c] = new],
         DOMAIN new = Fields, new.nonce \in 0..operatorNonce', new.pc \notin RollbackSteps,
         operatorNonce' \in Nat, operatorNonce <= operatorNonce',
         IsFiniteSet(All'), Distinct(All'), Ahead(pool', chain'), replaced' \in Nat,
         Nonces(All) \subseteq Nonces(All'),
         Fitting(All', replaced', operatorNonce'
             + Cardinality(IF new.pc = "count" THEN Counting \cup {c} ELSE Counting \ {c})),
         InPlace(chain', All'),
         new.pc \in {"build", "commit"} => InPlace(new.base, All')
  PROVE  CallsOK' /\ BooksOK' /\ BlocksOK'
<1>1. /\ CallsOK'
      /\ \A d \in Callers : call'[d] = IF d = c THEN new ELSE call[d]
      /\ Counting' = IF new.pc = "count" THEN Counting \cup {c} ELSE Counting \ {c}
  BY CallMoves
<1>2. ASSUME NEW d \in Callers, call'[d].pc \in {"build", "commit"}
      PROVE  InPlace(call'[d].base, All')
  <2>1. CASE d = c
    BY <2>1, <1>1, <1>2
  <2>2. CASE d # c
    <3>1. call'[d] = call[d] /\ InPlace(call[d].base, All)
      BY <2>2, <1>1, <1>2 DEF BlocksOK
    <3> QED
      BY <3>1, InPlaceStill
  <2> QED
    BY <2>1, <2>2
<1> QED
  BY <1>1, <1>2, Assemble

(* reth after a step that neither sends nor counts: a transaction may have *)
(* moved between pool and chain, or given way to one of the same nonce.    *)
Still ==
    /\ asks' = asks /\ operatorNonce' = operatorNonce /\ replaced' = replaced
    /\ IsFiniteSet(All') /\ Distinct(All') /\ Nonces(All') = Nonces(All)
    /\ Ahead(pool', chain') /\ InPlace(chain', All)

LEMMA NothingMoves ==
  ASSUME BooksOK, BlocksOK, asks' = asks, operatorNonce' = operatorNonce, replaced' = replaced,
         chain' = chain, pool' = pool
  PROVE  Still
<1>1. All' = All
  BY DEF All, Mined
<1> QED
  BY <1>1 DEF Still, BooksOK, BlocksOK

LEMMA QuietKeeps ==
  ASSUME CallsOK, BooksOK, BlocksOK, NEW c \in Callers, NEW new,
         call' = [call EXCEPT ![c] = new], DOMAIN new = Fields,
         new.nonce \in 0..operatorNonce, new.pc \notin RollbackSteps,
         new.pc # "count", call[c].pc # "count", Still,
         new.pc \in {"build", "commit"} => InPlace(new.base, All)
  PROVE  CallsOK' /\ BooksOK' /\ BlocksOK'
<1>1. Counting \ {c} = Counting
  BY DEF Counting, At
<1>2. /\ asks' = asks /\ operatorNonce' = operatorNonce
      /\ operatorNonce' \in Nat /\ operatorNonce <= operatorNonce'
  BY DEF CallsOK, Still
<1>3. /\ IsFiniteSet(All') /\ Distinct(All') /\ Ahead(pool', chain') /\ replaced' \in Nat
      /\ Nonces(All) \subseteq Nonces(All')
  BY DEF BooksOK, Still
<1>4. Fitting(All', replaced', operatorNonce'
             + Cardinality(IF new.pc = "count" THEN Counting \cup {c} ELSE Counting \ {c}))
  <2>1. Fitting(All, replaced, operatorNonce + Cardinality(Counting))
    BY DEF BooksOK
  <2>2. replaced' = replaced /\ Nonces(All') = Nonces(All)
    BY DEF Still
  <2>3. (IF new.pc = "count" THEN Counting \cup {c} ELSE Counting \ {c}) = Counting
    BY <1>1
  <2> QED
    BY <2>1, <2>2, <2>3, <1>2 DEF Fitting
<1>5. /\ new.nonce \in 0..operatorNonce' /\ InPlace(chain', All')
      /\ (new.pc \in {"build", "commit"} => InPlace(new.base, All'))
  BY <1>2, InPlaceStill DEF Still
<1> QED
  BY <1>2, <1>3, <1>4, <1>5, StepKeeps

(* A user's transaction has no nonce of the operator.                      *)
LEMMA UserSends ==
  ASSUME BooksOK, BlocksOK, NEW t, ~IsSystem(t.by), NEW p, p = pool \cup {t},
         NEW A, A = p \cup Mined(chain)
  PROVE  IsFiniteSet(A) /\ Distinct(A) /\ Nonces(A) = Nonces(All) /\ Ahead(p, chain)
<1>1. A = All \cup {t}
  BY DEF All
<1>2. Ops(A) = Ops(All) /\ Ops(p) = Ops(pool)
  BY <1>1 DEF Ops
<1>3. IsFiniteSet(A)
  BY <1>1, FS_AddElement DEF BooksOK
<1> QED
  BY <1>2, <1>3 DEF Distinct, Nonces, Ahead, BooksOK

(* The operator's transaction is taken with a nonce that reth does not     *)
(* have, or instead of the one that has it.                                *)
LEMMA OperatorSends ==
  ASSUME BooksOK, BlocksOK, NEW t, IsSystem(t.by), t.nonce \in Nat, ~NonceTaken(t),
         NEW p, p = (pool \ Rivals(t)) \cup {t},
         NEW A, A = p \cup Mined(chain)
  PROVE  /\ IsFiniteSet(A) /\ Distinct(A) /\ Nonces(A) = Nonces(All) \cup {t.nonce} /\ Ahead(p, chain)
         /\ \/ Cardinality(Rivals(t)) = 0 /\ t.nonce \notin Nonces(All)
            \/ Cardinality(Rivals(t)) = 1 /\ t.nonce \in Nonces(All)
<1>1. /\ NonceAt(chain) \in Nat
      /\ \A s \in Ops(Mined(chain)) : s.nonce \in Nat /\ s.nonce < NonceAt(chain)
  BY PoolKeeps DEF BlocksOK
<1>2. t.nonce >= NonceAt(chain)
  BY <1>1 DEF NonceTaken
<1>3. \A s \in Ops(Mined(chain)) : s.nonce # t.nonce
  BY <1>1, <1>2
<1>4. \A s \in Rivals(t) : s \in Ops(pool) /\ s \in Ops(All) /\ s.nonce = t.nonce
  BY DEF Rivals, Ops, All
<1>5. \A s \in Ops(All) : s.nonce = t.nonce => s \in Rivals(t)
  BY <1>3 DEF Rivals, Ops, All
<1>6. Ops(A) = (Ops(All) \ Rivals(t)) \cup {t}
  <2>1. \A s \in Ops(A) : s \in (Ops(All) \ Rivals(t)) \cup {t}
    BY <1>3, <1>4 DEF Ops, All
  <2>2. \A s \in (Ops(All) \ Rivals(t)) \cup {t} : s \in Ops(A)
    BY DEF Ops, All
  <2> QED
    BY <2>1, <2>2
<1>7. IsFiniteSet(A)
  <2>1. IsFiniteSet(All \cup {t})
    BY FS_AddElement DEF BooksOK
  <2>2. A \subseteq All \cup {t}
    BY DEF All
  <2> QED
    BY <2>1, <2>2, FS_Subset
<1>8. Distinct(A)
  <2>1. SUFFICES ASSUME NEW x \in Ops(A), NEW y \in Ops(A), x.nonce = y.nonce PROVE x = y
    BY DEF Distinct
  <2>2. CASE x = t \/ y = t
    BY <2>1, <2>2, <1>5, <1>6
  <2>3. CASE x # t /\ y # t
    BY <2>1, <2>3, <1>6 DEF BooksOK, Distinct
  <2> QED
    BY <2>2, <2>3
<1>9. Nonces(A) = Nonces(All) \cup {t.nonce}
  <2>1. \A s \in Ops(A) : s.nonce \in Nonces(All) \cup {t.nonce}
    BY <1>6 DEF Nonces
  <2>2. \A s \in Ops(All) : s.nonce \in Nonces(A)
    <3>1. SUFFICES ASSUME NEW s \in Ops(All) PROVE \E x \in Ops(A) : x.nonce = s.nonce
      BY DEF Nonces
    <3>2. CASE s \in Rivals(t)
      BY <3>2, <1>4, <1>6
    <3>3. CASE s \notin Rivals(t)
      BY <3>3, <1>6
    <3> QED
      BY <3>2, <3>3
  <2>3. t.nonce \in Nonces(A)
    BY <1>6 DEF Nonces
  <2> QED
    BY <2>1, <2>2, <2>3 DEF Nonces
<1>10. Ahead(p, chain)
  BY <1>2 DEF Ahead, Ops, BooksOK
<1>11. \/ Cardinality(Rivals(t)) = 0 /\ t.nonce \notin Nonces(All)
       \/ Cardinality(Rivals(t)) = 1 /\ t.nonce \in Nonces(All)
  <2>1. CASE Rivals(t) = {}
    <3>1. t.nonce \notin Nonces(All)
      BY <2>1, <1>5 DEF Nonces
    <3> QED
      BY <2>1, <3>1, FS_EmptySet
  <2>2. CASE Rivals(t) # {}
    <3>1. PICK s \in Rivals(t) : TRUE
      BY <2>2
    <3>2. \A x \in Rivals(t) : x = s
      BY <3>1, <1>4 DEF BooksOK, Distinct
    <3>3. Rivals(t) = {s}
      BY <3>1, <3>2
    <3>4. t.nonce \in Nonces(All)
      BY <3>1, <1>4 DEF Nonces
    <3> QED
      BY <3>3, <3>4, FS_Singleton
  <2> QED
    BY <2>1, <2>2
<1> QED
  BY <1>7, <1>8, <1>9, <1>10, <1>11

LEMMA SendKeeps ==
  ASSUME CallsOK, BooksOK, BlocksOK, NEW c \in Callers, Send(c)
  PROVE  CallsOK' /\ BooksOK' /\ BlocksOK'
<1> DEFINE t == TxOf(c)
<1>0. /\ asks' = asks /\ chain' = chain /\ operatorNonce' = operatorNonce /\ call[c].pc = "send"
      /\ DOMAIN call[c] = Fields /\ call[c].nonce \in 0..operatorNonce /\ operatorNonce \in Nat
      /\ InPlace(chain, All)
  BY DEF Send, At, CallsOK, BlocksOK
<1>1. CASE ~up \/ NonceTaken(t)
  <2> DEFINE new == [call[c] EXCEPT !.pc = "done", !.answer = "failed"]
  <2>1. call' = [call EXCEPT ![c] = new] /\ pool' = pool /\ replaced' = replaced
    BY <1>1 DEF Send, Finish, Becomes
  <2>2. /\ DOMAIN new = Fields /\ new.nonce = call[c].nonce /\ new.pc = "done"
        /\ new.pc \notin RollbackSteps
    BY <1>0 DEF Fields, RollbackSteps
  <2> HIDE DEF new
  <2>3. Still
    BY <1>0, <2>1, NothingMoves
  <2> QED
    BY <1>0, <2>1, <2>2, <2>3, QuietKeeps
<1>2. CASE ~(~up \/ NonceTaken(t))
  <2> DEFINE new == [call[c] EXCEPT !.sent = Append(@, t),
                                    !.pc = IF IsSystem(c) THEN "count" ELSE "mine"]
  <2>1. /\ call' = [call EXCEPT ![c] = new] /\ pool' = (pool \ Rivals(t)) \cup {t}
        /\ replaced' = replaced + Cardinality(Rivals(t))
    BY <1>2 DEF Send, Accept, Becomes
  <2>2. /\ DOMAIN new = Fields /\ new.nonce = call[c].nonce
        /\ new.pc = (IF IsSystem(c) THEN "count" ELSE "mine") /\ new.pc \notin RollbackSteps
        /\ new.pc \notin {"build", "commit"}
    BY <1>0 DEF Fields, RollbackSteps
  <2> HIDE DEF new
  <2>3. All' = pool' \cup Mined(chain)
    BY <1>0 DEF All, Mined
  <2>4. t.by = c /\ t.nonce = call[c].nonce /\ t.nonce \in Nat /\ t.nonce <= operatorNonce
    BY <1>0 DEF TxOf
  <2>5. /\ IsFiniteSet(Counting) /\ c \notin Counting /\ Counting \ {c} = Counting
        /\ Cardinality(Counting) \in Nat /\ Cardinality(Counting \cup {c}) = Cardinality(Counting) + 1
    <3>1. IsFiniteSet(Callers)
      BY StateManagerConstants DEF CallsOK, Callers
    <3>2. Counting \subseteq Callers /\ c \notin Counting
      BY <1>0 DEF Counting, At
    <3> QED
      BY <3>1, <3>2, FS_Subset, FS_CardinalityType, FS_AddElement
  <2>6. replaced \in Nat /\ Fitting(All, replaced, operatorNonce + Cardinality(Counting))
    BY DEF BooksOK
  <2> DEFINE counting == IF new.pc = "count" THEN Counting \cup {c} ELSE Counting \ {c}
  <2>7. /\ IsFiniteSet(All') /\ Distinct(All') /\ Ahead(pool', chain') /\ replaced' \in Nat
        /\ Nonces(All) \subseteq Nonces(All')
        /\ Fitting(All', replaced', operatorNonce' + Cardinality(counting))
    <3>1. CASE ~IsSystem(c)
      <4>1. Rivals(t) = {} /\ pool' = pool \cup {t} /\ replaced' = replaced
        <5>1. Rivals(t) = {}
          BY <3>1, <2>4 DEF Rivals
        <5> QED
          BY <5>1, <2>1, <2>6, FS_EmptySet
      <4>2. IsFiniteSet(All') /\ Distinct(All') /\ Nonces(All') = Nonces(All) /\ Ahead(pool', chain)
        <5> HIDE DEF t
        <5> QED
          BY <4>1, <3>1, <2>3, <2>4, UserSends
      <4>3. counting = Counting
        BY <3>1, <2>2, <2>5
      <4> QED
        BY <4>1, <4>2, <4>3, <2>6, <1>0 DEF Fitting
    <3>2. CASE IsSystem(c)
      <4>1. /\ IsFiniteSet(All') /\ Distinct(All') /\ Ahead(pool', chain)
            /\ Nonces(All') = Nonces(All) \cup {t.nonce}
            /\ \/ Cardinality(Rivals(t)) = 0 /\ t.nonce \notin Nonces(All)
               \/ Cardinality(Rivals(t)) = 1 /\ t.nonce \in Nonces(All)
        <5> HIDE DEF t
        <5> QED
          BY <3>2, <1>2, <2>1, <2>3, <2>4, OperatorSends
      <4> DEFINE known == operatorNonce + Cardinality(Counting)
      <4>2. operatorNonce' + Cardinality(counting) = known + 1 /\ known \in Nat /\ t.nonce <= known
        BY <3>2, <2>2, <2>4, <2>5, <1>0
      <4>3. Nonces(All) \subseteq 0..(known - 1) /\ Cardinality(Nonces(All)) + replaced = known
        BY <2>6 DEF Fitting
      <4> HIDE DEF known, counting, t
      <4>4. Nonces(All') \subseteq 0..((known + 1) - 1)
        BY <4>1, <4>2, <4>3, <2>4
      <4>5. /\ replaced' \in Nat
            /\ Cardinality(Nonces(All')) + replaced' = known + 1
        <5>1. IsFiniteSet(Nonces(All)) /\ Cardinality(Nonces(All)) \in Nat
          <6>1. IsFiniteSet(0..(known - 1))
            BY <4>2, FS_Interval
          <6> QED
            BY <6>1, <4>3, FS_Subset, FS_CardinalityType
        <5>2. CASE Cardinality(Rivals(t)) = 0 /\ t.nonce \notin Nonces(All)
          <6>1. Cardinality(Nonces(All')) = Cardinality(Nonces(All)) + 1
            BY <5>1, <5>2, <4>1, FS_AddElement
          <6> QED
            BY <6>1, <5>1, <5>2, <4>2, <4>3, <2>1, <2>6
        <5>3. CASE Cardinality(Rivals(t)) = 1 /\ t.nonce \in Nonces(All)
          <6>1. Nonces(All') = Nonces(All)
            BY <5>3, <4>1
          <6> QED
            BY <6>1, <5>1, <5>3, <4>2, <4>3, <2>1, <2>6
        <5> QED
          BY <4>1, <5>2, <5>3
      <4>6. Fitting(All', replaced', operatorNonce' + Cardinality(counting))
        BY <4>2, <4>4, <4>5 DEF Fitting
      <4> QED
        BY <4>1, <4>5, <4>6, <1>0
    <3> QED
      BY <3>1, <3>2
  <2>8. InPlace(chain', All')
    BY <1>0, <2>7, InPlaceStill
  <2>9. /\ operatorNonce' \in Nat /\ operatorNonce <= operatorNonce'
        /\ new.nonce \in 0..operatorNonce'
        /\ (new.pc \in {"build", "commit"} => InPlace(new.base, All'))
    BY <1>0, <2>2
  <2> HIDE DEF t
  <2> QED
    BY <1>0, <2>1, <2>2, <2>7, <2>8, <2>9, StepKeeps
<1> QED
  BY <1>1, <1>2

LEMMA CountKeeps ==
  ASSUME CallsOK, BooksOK, BlocksOK, NEW c \in Callers, Count(c)
  PROVE  CallsOK' /\ BooksOK' /\ BlocksOK'
<1> DEFINE pc == IF Method(c) = "simulateL1Call" /\ Len(call[c].sent) < 2 THEN "price" ELSE "mine"
           new == [call[c] EXCEPT !.pc = pc]
<1>1. /\ asks' = asks /\ chain' = chain /\ pool' = pool /\ replaced' = replaced /\ operatorNonce' = operatorNonce + 1
      /\ call[c].pc = "count" /\ call' = [call EXCEPT ![c] = new]
  BY DEF Count, reth, At, Go, Becomes
<1>2. /\ DOMAIN call[c] = Fields /\ call[c].nonce \in 0..operatorNonce /\ operatorNonce \in Nat
      /\ InPlace(chain, All)
  BY DEF CallsOK, BlocksOK
<1>3. /\ DOMAIN new = Fields /\ new.nonce = call[c].nonce
      /\ new.pc \notin RollbackSteps /\ new.pc \notin {"build", "commit", "count"}
  BY <1>2 DEF Fields, RollbackSteps
<1> HIDE DEF new
<1>4. All' = All
  BY <1>1 DEF All, Mined
<1>5. IsFiniteSet(Counting) /\ c \in Counting
  <2>1. IsFiniteSet(Callers)
    BY StateManagerConstants DEF CallsOK, Callers
  <2> QED
    BY <2>1, <1>1, FS_Subset DEF Counting, At
<1>6. Cardinality(Counting \ {c}) = Cardinality(Counting) - 1 /\ Cardinality(Counting) \in Nat
  BY <1>5, FS_RemoveElement, FS_CardinalityType
<1>7. Fitting(All', replaced', operatorNonce'
             + Cardinality(IF new.pc = "count" THEN Counting \cup {c} ELSE Counting \ {c}))
  <2>1. Fitting(All, replaced, operatorNonce + Cardinality(Counting))
    BY DEF BooksOK
  <2>2. (IF new.pc = "count" THEN Counting \cup {c} ELSE Counting \ {c}) = Counting \ {c}
    BY <1>3
  <2>3. operatorNonce' + Cardinality(Counting \ {c}) = operatorNonce + Cardinality(Counting)
    BY <1>1, <1>2, <1>6
  <2> QED
    BY <2>1, <2>2, <2>3, <1>1, <1>4
<1>8. operatorNonce' \in Nat /\ operatorNonce <= operatorNonce' /\ new.nonce \in 0..operatorNonce'
  BY <1>1, <1>2, <1>3
<1>9. /\ IsFiniteSet(All') /\ Distinct(All') /\ Ahead(pool', chain') /\ replaced' \in Nat
      /\ Nonces(All) \subseteq Nonces(All') /\ InPlace(chain', All')
  BY <1>1, <1>2, <1>4 DEF BooksOK
<1> QED
  BY <1>1, <1>3, <1>7, <1>8, <1>9, StepKeeps

(* reth gets new canonical blocks.                                         *)
LEMMA HeadMoves ==
  ASSUME BooksOK, asks' = asks, operatorNonce' = operatorNonce, replaced' = replaced,
         NEW k, InPlace(k, All), chain' = k, pool' = PoolOn(k)
  PROVE  Still
<1> DEFINE A == PoolOn(k) \cup Mined(k)
<1>1. IsFiniteSet(A) /\ Distinct(A) /\ Nonces(A) = Nonces(All) /\ Ahead(PoolOn(k), k)
  BY AllKept, PoolKeeps
<1>2. All' = A
  BY DEF All, Mined
<1> HIDE DEF A
<1> QED
  BY <1>1, <1>2 DEF Still

LEMMA BuildKeeps ==
  ASSUME CallsOK, BooksOK, BlocksOK, NEW c \in Callers, Build(c)
  PROVE  CallsOK' /\ BooksOK' /\ BlocksOK'
<1> DEFINE base == call[c].base
           block == [txs |-> Packed(base, PoolOn(base)), fee |-> NextBaseFee(base)]
           failed == [call[c] EXCEPT !.pc = "check"]
           done(answer) == [call[c] EXCEPT !.pc = "done", !.answer = answer]
           built == [call[c] EXCEPT !.pc = "commit", !.base = Append(base, block)]
<1>1. /\ asks' = asks /\ operatorNonce' = operatorNonce /\ replaced' = replaced
      /\ call[c].pc = "build"
  BY DEF Build, At, reth
<1>2. /\ DOMAIN call[c] = Fields /\ call[c].nonce \in 0..operatorNonce /\ operatorNonce \in Nat
      /\ InPlace(chain, All) /\ InPlace(base, All)
  BY <1>1 DEF CallsOK, BlocksOK
<1>3. \/ /\ chain' = chain /\ pool' = pool
         /\ \/ call' = [call EXCEPT ![c] = failed]
            \/ call' = [call EXCEPT ![c] = done("failed")]
      \/ /\ chain' = base /\ pool' = PoolOn(base)
         /\ \/ call' = [call EXCEPT ![c] = done("ok")]
            \/ call' = [call EXCEPT ![c] = built]
  BY DEF Build, MineFailed, Go, Finish, Becomes, reth
<1>4. Still
  <2>1. CASE chain' = chain /\ pool' = pool
    BY <2>1, <1>1, NothingMoves
  <2>2. CASE chain' = base /\ pool' = PoolOn(base)
    BY <2>2, <1>1, <1>2, HeadMoves
  <2> QED
    BY <1>3, <2>1, <2>2
<1>5. /\ DOMAIN failed = Fields /\ failed.nonce = call[c].nonce /\ failed.pc = "check"
      /\ \A answer : /\ DOMAIN done(answer) = Fields /\ done(answer).nonce = call[c].nonce
                     /\ done(answer).pc = "done"
      /\ DOMAIN built = Fields /\ built.nonce = call[c].nonce /\ built.pc = "commit"
      /\ built.base = Append(base, block)
  BY <1>2 DEF Fields
<1>6. {"check", "done", "commit"} \cap RollbackSteps = {}
  BY DEF RollbackSteps
<1>7. InPlace(Append(base, block), All)
  <2> HIDE DEF base
  <2> QED
    BY <1>2, BuiltInPlace
<1> HIDE DEF base, block, failed, done, built
<1>8. CASE call' = [call EXCEPT ![c] = failed]
  BY <1>8, <1>1, <1>2, <1>4, <1>5, <1>6, QuietKeeps
<1>9. ASSUME NEW answer, call' = [call EXCEPT ![c] = done(answer)]
      PROVE  CallsOK' /\ BooksOK' /\ BlocksOK'
  BY <1>9, <1>1, <1>2, <1>4, <1>5, <1>6, QuietKeeps
<1>10. CASE call' = [call EXCEPT ![c] = built]
  BY <1>10, <1>1, <1>2, <1>4, <1>5, <1>6, <1>7, QuietKeeps
<1> QED
  BY <1>3, <1>8, <1>9, <1>10

LEMMA CommitKeeps ==
  ASSUME CallsOK, BooksOK, BlocksOK, NEW c \in Callers, Commit(c)
  PROVE  CallsOK' /\ BooksOK' /\ BlocksOK'
<1> DEFINE blocks == call[c].base
           check == [call[c] EXCEPT !.pc = "check"]
           done(answer) == [call[c] EXCEPT !.pc = "done", !.answer = answer]
<1>1. /\ asks' = asks /\ operatorNonce' = operatorNonce /\ replaced' = replaced
      /\ call[c].pc = "commit"
  BY DEF Commit, At, reth
<1>2. /\ DOMAIN call[c] = Fields /\ call[c].nonce \in 0..operatorNonce /\ operatorNonce \in Nat
      /\ InPlace(chain, All) /\ InPlace(blocks, All)
  BY <1>1 DEF CallsOK, BlocksOK
<1>3. /\ \/ chain' = chain /\ pool' = pool
         \/ chain' = blocks /\ pool' = PoolOn(blocks)
      /\ \/ call' = [call EXCEPT ![c] = check]
         \/ \E answer : call' = [call EXCEPT ![c] = done(answer)]
  BY DEF Commit, MineFailed, Go, Finish, Becomes, reth
<1>4. Still
  <2>1. CASE chain' = chain /\ pool' = pool
    BY <2>1, <1>1, NothingMoves
  <2>2. CASE chain' = blocks /\ pool' = PoolOn(blocks)
    BY <2>2, <1>1, <1>2, HeadMoves
  <2> QED
    BY <1>3, <2>1, <2>2
<1>5. /\ DOMAIN check = Fields /\ check.nonce = call[c].nonce /\ check.pc = "check"
      /\ \A answer : /\ DOMAIN done(answer) = Fields /\ done(answer).nonce = call[c].nonce
                     /\ done(answer).pc = "done"
  BY <1>2 DEF Fields
<1>6. {"check", "done"} \cap RollbackSteps = {}
  BY DEF RollbackSteps
<1> HIDE DEF blocks, check, done
<1>7. CASE call' = [call EXCEPT ![c] = check]
  BY <1>7, <1>1, <1>2, <1>4, <1>5, <1>6, QuietKeeps
<1>8. ASSUME NEW answer, call' = [call EXCEPT ![c] = done(answer)]
      PROVE  CallsOK' /\ BooksOK' /\ BlocksOK'
  BY <1>8, <1>1, <1>2, <1>4, <1>5, <1>6, QuietKeeps
<1> QED
  BY <1>3, <1>7, <1>8

LEMMA PriceKeeps ==
  ASSUME CallsOK, BooksOK, BlocksOK, NEW c \in Callers, Price(c)
  PROVE  CallsOK' /\ BooksOK' /\ BlocksOK'
<1> DEFINE new == [call[c] EXCEPT !.pc = "send", !.nonce = operatorNonce,
                                  !.fee = IF up THEN NextBaseFee(chain) ELSE StartFee]
<1>1. /\ asks' = asks /\ operatorNonce' = operatorNonce /\ call[c].pc = "price"
      /\ chain' = chain /\ pool' = pool /\ replaced' = replaced /\ call' = [call EXCEPT ![c] = new]
  BY DEF Price, At, Becomes, reth
<1>2. /\ DOMAIN call[c] = Fields /\ operatorNonce \in Nat /\ InPlace(chain, All)
  BY DEF CallsOK, BlocksOK
<1>3. /\ DOMAIN new = Fields /\ new.nonce \in 0..operatorNonce /\ new.pc = "send"
      /\ new.pc \notin RollbackSteps
  BY <1>2 DEF Fields, RollbackSteps
<1>4. Still
  BY <1>1, NothingMoves
<1> HIDE DEF new
<1> QED
  BY <1>1, <1>2, <1>3, <1>4, QuietKeeps

(* Steps that only read what reth has.                                     *)
LEMMA ReadKeeps ==
  ASSUME CallsOK, BooksOK, BlocksOK, NEW c \in Callers,
         Look(c) \/ ReadHead(c) \/ CheckReceipt(c) \/ CheckPool(c)
  PROVE  CallsOK' /\ BooksOK' /\ BlocksOK'
<1> DEFINE to(pc) == [call[c] EXCEPT !.pc = pc]
           done(answer) == [call[c] EXCEPT !.pc = "done", !.answer = answer]
           head == [call[c] EXCEPT !.pc = "build", !.base = chain]
           again == [call[c] EXCEPT !.pc = "mine", !.tries = @ + 1]
<1>1. /\ asks' = asks /\ operatorNonce' = operatorNonce /\ call[c].pc # "count"
      /\ chain' = chain /\ pool' = pool /\ replaced' = replaced
  BY DEF Look, ReadHead, CheckReceipt, CheckPool, At, reth
<1>2. /\ DOMAIN call[c] = Fields /\ call[c].nonce \in 0..operatorNonce /\ operatorNonce \in Nat
      /\ InPlace(chain, All)
  BY DEF CallsOK, BlocksOK
<1>3. \/ \E pc \in {"price", "pool", "verify", "check"} : call' = [call EXCEPT ![c] = to(pc)]
      \/ \E answer : call' = [call EXCEPT ![c] = done(answer)]
      \/ call' = [call EXCEPT ![c] = head]
      \/ call' = [call EXCEPT ![c] = again]
  <2>1. CASE Look(c)
    BY <2>1 DEF Look, Finish, Go, Becomes
  <2>2. CASE ReadHead(c)
    BY <2>2 DEF ReadHead, MineFailed, Finish, Go, Becomes
  <2>3. CASE CheckReceipt(c)
    BY <2>3 DEF CheckReceipt, Finish, Go, Becomes
  <2>4. CASE CheckPool(c)
    BY <2>4 DEF CheckPool, Finish, Go, Becomes
  <2> QED
    BY <2>1, <2>2, <2>3, <2>4
<1>4. Still
  BY <1>1, NothingMoves
<1>5. /\ \A pc : DOMAIN to(pc) = Fields /\ to(pc).nonce = call[c].nonce /\ to(pc).pc = pc
      /\ \A answer : /\ DOMAIN done(answer) = Fields /\ done(answer).nonce = call[c].nonce
                     /\ done(answer).pc = "done"
      /\ DOMAIN head = Fields /\ head.nonce = call[c].nonce /\ head.pc = "build" /\ head.base = chain
      /\ DOMAIN again = Fields /\ again.nonce = call[c].nonce /\ again.pc = "mine"
  BY <1>2 DEF Fields
<1>6. {"price", "pool", "verify", "check", "done", "build", "mine"} \cap RollbackSteps = {}
  BY DEF RollbackSteps
<1> HIDE DEF to, done, head, again
<1>7. ASSUME NEW pc \in {"price", "pool", "verify", "check"}, call' = [call EXCEPT ![c] = to(pc)]
      PROVE  CallsOK' /\ BooksOK' /\ BlocksOK'
  <2> DEFINE new == to(pc)
  <2>1. /\ DOMAIN new = Fields /\ new.nonce \in 0..operatorNonce /\ new.pc = pc
        /\ call' = [call EXCEPT ![c] = new]
    BY <1>2, <1>5, <1>7
  <2>2. pc \notin RollbackSteps /\ pc # "count" /\ pc \notin {"build", "commit"}
    BY <1>6
  <2> HIDE DEF new
  <2> QED
    BY <2>1, <2>2, <1>1, <1>4, QuietKeeps
<1>8. ASSUME NEW answer, call' = [call EXCEPT ![c] = done(answer)]
      PROVE  CallsOK' /\ BooksOK' /\ BlocksOK'
  BY <1>8, <1>1, <1>2, <1>4, <1>5, <1>6, QuietKeeps
<1>9. CASE call' = [call EXCEPT ![c] = head]
  BY <1>9, <1>1, <1>2, <1>4, <1>5, <1>6, QuietKeeps
<1>10. CASE call' = [call EXCEPT ![c] = again]
  BY <1>10, <1>1, <1>2, <1>4, <1>5, <1>6, QuietKeeps
<1> QED
  BY <1>3, <1>7, <1>8, <1>9, <1>10

LEMMA NextKeeps ==
  ASSUME IInv, [Next]_vars
  PROVE  IInv'
<1>1. asks' = asks
  BY DEF Next, Step, vars, Look, Price, Send, Count, ReadHead, Build, Commit, CheckReceipt,
         CheckPool, Stop, Unwind, ComesUp, Resync
<1>2. SUFFICES ASSUME Steady PROVE CallsOK' /\ BooksOK' /\ BlocksOK'
  BY <1>1 DEF IInv, Steady, Callers, Method
<1>3. CallsOK /\ BooksOK /\ BlocksOK
  BY <1>2 DEF IInv
<1>4. CASE UNCHANGED <<chain, pool, replaced, operatorNonce, call>>
  <2>1. CallsOK'
    BY <1>1, <1>3, <1>4 DEF CallsOK, Callers
  <2>2. All' = All /\ Counting' = Counting
    BY <1>1, <1>4 DEF All, Mined, Counting, Callers, At
  <2>3. BooksOK' /\ BlocksOK'
    BY <1>1, <1>3, <1>4, <2>2, Assemble DEF BooksOK, BlocksOK
  <2> QED
    BY <2>1, <2>3
<1>5. CASE Next
  <2>1. PICK c \in Callers : Step(c)
    BY <1>5 DEF Next
  <2>2. ~(Stop(c) \/ Unwind(c) \/ Resync(c))
    BY <1>3 DEF Stop, Unwind, Resync, At, CallsOK, RollbackSteps
  <2>3. CASE ComesUp(c)
    BY <2>3, <1>4 DEF ComesUp
  <2> QED
    BY <1>3, <2>1, <2>2, <2>3, SendKeeps, CountKeeps, BuildKeeps, CommitKeeps, PriceKeeps, ReadKeeps
       DEF Step
<1> QED
  BY <1>4, <1>5 DEF vars

LEMMA InitEstablishes ==
  ASSUME Init
  PROVE  IInv
<1>1. SUFFICES ASSUME Steady PROVE CallsOK /\ BooksOK /\ BlocksOK
  BY DEF IInv
<1>2. /\ asks \in Scenarios /\ chain = <<Genesis>> /\ pool = {} /\ replaced = 0
      /\ operatorNonce = 0
      /\ DOMAIN call = Callers
      /\ \A c \in Callers : /\ DOMAIN call[c] = Fields /\ call[c].nonce = 0
                            /\ call[c].pc = First(Method(c))
  BY DEF Init, Fields
<1>3. ASSUME NEW c \in Callers PROVE call[c].pc \in {"look", "price", "send"}
  <2>1. Method(c) \in Methods /\ Method(c) # "rollbackToBlock"
    BY <1>1, <1>2, StateManagerConstants DEF Steady, Method, Callers
  <2> QED
    BY <1>2, <2>1 DEF First, Methods
<1>4. CallsOK
  BY <1>2, <1>3 DEF CallsOK, RollbackSteps
<1>5. Mined(chain) = {}
  <2>1. \A i \in DOMAIN chain : chain[i].txs = <<>>
    BY <1>2 DEF Genesis
  <2>2. ToSet(<<>>) = {}
    BY DEF ToSet
  <2> QED
    BY <2>1, <2>2 DEF Mined
<1>6. From({}, 0) /\ Cardinality(Ops({})) = 0
  <2>1. Ops({}) = {} /\ Nonces({}) = {}
    BY DEF Ops, Nonces
  <2>2. IsFiniteSet(Ops({})) /\ Cardinality(Ops({})) = 0
    BY <2>1, FS_EmptySet
  <2>3. 0..(0 + 0 - 1) = {}
    OBVIOUS
  <2> QED
    BY <2>1, <2>2, <2>3 DEF From
<1>7. All = {}
  BY <1>2, <1>5 DEF All
<1>8. BooksOK
  <2>1. Counting = {} /\ Cardinality(Counting) = 0
    <3>1. Counting = {}
      BY <1>3 DEF Counting, At
    <3> QED
      BY <3>1, FS_EmptySet
  <2>2. Ops({}) = {} /\ Nonces({}) = {}
    BY DEF Ops, Nonces
  <2>3. Distinct({}) /\ Ahead({}, chain)
    BY <2>2 DEF Distinct, Ahead
  <2>4. Fitting({}, 0, 0 + Cardinality(Counting))
    BY <2>1, <2>2, FS_EmptySet DEF Fitting
  <2> QED
    BY <1>2, <1>7, <2>3, <2>4, FS_EmptySet DEF BooksOK
<1>9. BlocksOK
  <2>1. \E T : chain \in Seq(T)
    <3>1. <<Genesis>> \in Seq({Genesis})
      OBVIOUS
    <3> QED
      BY <3>1, <1>2
  <2>2. InPlace(chain, All)
    BY <1>5, <1>6, <1>7, <2>1, FS_EmptySet DEF InPlace, Distinct, Ops
  <2> QED
    BY <2>2, <1>3 DEF BlocksOK
<1> QED
  BY <1>4, <1>8, <1>9

LEMMA Invariance == Spec => []IInv
<1>1. Init => IInv
  BY InitEstablishes
<1>2. IInv /\ [Next]_vars => IInv'
  BY NextKeeps
<1> QED
  BY <1>1, <1>2, PTL DEF Spec

-----------------------------------------------------------------------------
(* The theorem.                                                            *)

(* For any number of callers, whoever sends at the same time and whatever  *)
(* is displaced, the operator's nonces in reth never repeat, none is ahead *)
(* of what the StateManager has counted or is about to count               *)
(* (sendSystemTx), and as many are missing as reth's pool has replaced     *)
(* transactions.                                                           *)
THEOREM NoncesDoFit == Spec => []NoncesFit
<1>1. IInv => NoncesFit
  <2> DEFINE known == operatorNonce + Cardinality({c \in Callers : At(c, "count")})
             nonces == {t.nonce : t \in Operators}
  <2>1. SUFFICES ASSUME IInv, Steady
                 PROVE  /\ nonces \subseteq 0..known - 1
                        /\ Cardinality(nonces) = Cardinality(Operators)
                        /\ Cardinality(nonces) + replaced = known
    BY DEF NoncesFit
  <2>2. BooksOK
    BY <2>1 DEF IInv
  <2>3. /\ Operators = Ops(All) /\ nonces = Nonces(All)
        /\ known = operatorNonce + Cardinality(Counting)
    BY DEF Operators, Ops, All, Counting, Nonces
  <2>4. nonces \subseteq 0..known - 1 /\ Cardinality(nonces) + replaced = known
    BY <2>2, <2>3 DEF BooksOK, Fitting
  <2>5. Cardinality(Nonces(All)) = Cardinality(Ops(All))
    <3> DEFINE f == [t \in Ops(All) |-> t.nonce]
    <3>1. f \in Bijection(Ops(All), Nonces(All))
      BY <2>2 DEF BooksOK, Distinct, Nonces, Bijection, Injection, Surjection, IsInjective
    <3>2. ExistsBijection(Ops(All), Nonces(All))
      BY <3>1 DEF ExistsBijection
    <3>3. IsFiniteSet(Ops(All))
      BY <2>2, FS_Subset DEF BooksOK, Ops
    <3> QED
      BY <3>2, <3>3, FS_Bijection
  <2> QED
    BY <2>3, <2>4, <2>5
<1> QED
  BY <1>1, Invariance, PTL

=============================================================================
