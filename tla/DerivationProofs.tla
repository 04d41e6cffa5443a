--------------------------- MODULE DerivationProofs ---------------------------
(***************************************************************************)
(* Theorems about the L2 chain of a fullnode: it is a function of the L1   *)
(* chain, and what recovery restores is a state the node was in.           *)
(*                                                                         *)
(* EventProcessorProofs shows which root the node tracks.  Here its chain  *)
(* is compared with that root: Made(root) is all that the root commits to  *)
(* but for what the owner of the rollup set, and wherever the hashes of    *)
(* the node are those of L1, its chain holds Made of what it tracks        *)
(* (InStep), while events are processed up to the one at the head of the   *)
(* queue (EventsDerive).  The parts of the argument:                       *)
(*   - flattening, and picking elements of a sequence;                     *)
(*   - the events of a block add their transactions to the root before     *)
(*     them (Telescope), and so do the blocks they are replayed in, one by *)
(*     one (ReplayedOne) or as a batch (BatchReplays);                     *)
(*   - L1 only grows blocks of that kind (ChainDerives), and the queue of  *)
(*     a fetch is made of their events (LogDerives);                       *)
(*   - every checkpoint is a state that the chain was in (CheckpointsFit), *)
(*     and the file describes the chain it was saved with (DiskFits);      *)
(*   - one lemma for each action.                                          *)
(***************************************************************************)
EXTENDS EventProcessorProofs

-----------------------------------------------------------------------------
(* Prefixes, and sequences of sequences. *)

(* A prefix is the one before it and one element.                          *)
LEMMA PrefixAppend ==
  ASSUME NEW S, NEW s \in Seq(S), NEW n \in 1..Len(s)
  PROVE  /\ SubSeq(s, 1, n) = Append(SubSeq(s, 1, n - 1), s[n])
         /\ SubSeq(s, 1, n - 1) \in Seq(S) /\ SubSeq(s, 1, n) \in Seq(S) /\ s[n] \in S
<1>1. Len(s) \in Nat /\ n \in Nat /\ n - 1 \in Nat /\ 1 \in 1..Len(s) /\ n \in 1..Len(s)
  BY LenProperties
<1>2. s[n] \in S
  BY ElementOfSeq
<1>3. \A i \in 1..n : s[i] \in S
  BY <1>1, ElementOfSeq
<1>4. SubSeq(s, 1, n - 1) \in Seq(S) /\ SubSeq(s, 1, n) \in Seq(S)
  BY <1>1, <1>3, SubSeqProperties
<1>5. SubSeq(s, 1, n) = SubSeq(s, 1, n - 1) \o <<s[n]>>
  BY <1>1, SubSeqRecursiveSecond
<1> QED
  BY <1>2, <1>4, <1>5, AppendIsConcat

(* Flattening prefixes, step by step.                                      *)
LEMMA FlattenPrefix ==
  ASSUME NEW T, NEW ss \in Seq(Seq(T)), NEW n \in 1..Len(ss)
  PROVE  /\ FlattenSeq(SubSeq(ss, 1, n)) = FlattenSeq(SubSeq(ss, 1, n - 1)) \o ss[n]
         /\ FlattenSeq(SubSeq(ss, 1, n - 1)) \in Seq(T) /\ ss[n] \in Seq(T)
<1> DEFINE S == Seq(T)
<1>1. ss \in Seq(S)
  OBVIOUS
<1> HIDE DEF S
<1>2. /\ SubSeq(ss, 1, n) = Append(SubSeq(ss, 1, n - 1), ss[n])
      /\ SubSeq(ss, 1, n - 1) \in Seq(S) /\ ss[n] \in S
  BY <1>1, PrefixAppend
<1> QED
  BY <1>2, FlattenAppend, FlattenType DEF S

LEMMA NoPrefix ==
  ASSUME NEW s
  PROVE  SubSeq(s, 1, 0) = <<>>
BY SubSeqEmpty

(* Flattening commutes with concatenation: a chain that grows keeps its    *)
(* root as a prefix.                                                       *)
LEMMA FlattenConcat ==
  ASSUME NEW T, NEW ss \in Seq(Seq(T)), NEW tt \in Seq(Seq(T))
  PROVE  FlattenSeq(ss \o tt) = FlattenSeq(ss) \o FlattenSeq(tt)
<1> DEFINE P(k) == SubSeq(tt, 1, k)
           A == {k \in Nat : k <= Len(tt) => FlattenSeq(ss \o P(k)) = FlattenSeq(ss) \o FlattenSeq(P(k))}
<1>0. FlattenSeq(ss) \in Seq(T) /\ Len(tt) \in Nat
  BY FlattenType, LenProperties
<1>1. A \in SUBSET Nat /\ 0 \in A
  <2>1. P(0) = <<>> /\ FlattenSeq(P(0)) = <<>>
    BY NoPrefix, FlattenEmpty
  <2>2. ss \o <<>> = ss /\ FlattenSeq(ss) \o <<>> = FlattenSeq(ss)
    BY <1>0, ConcatEmptySeq
  <2> QED
    BY <2>1, <2>2
<1>2. ASSUME NEW k \in A PROVE k + 1 \in A
  <2> DEFINE S == Seq(T)
  <2> SUFFICES ASSUME k + 1 <= Len(tt)
               PROVE  FlattenSeq(ss \o P(k + 1)) = FlattenSeq(ss) \o FlattenSeq(P(k + 1))
    OBVIOUS
  <2>1. k + 1 \in 1..Len(tt) /\ (k + 1) - 1 = k /\ k <= Len(tt)
    BY <1>0
  <2>2. tt \in Seq(S) /\ ss \in Seq(S)
    OBVIOUS
  <2> HIDE DEF S
  <2>3. P(k + 1) = Append(P(k), tt[k + 1]) /\ P(k) \in Seq(S) /\ tt[k + 1] \in S
    BY <2>1, <2>2, PrefixAppend
  <2> HIDE DEF P
  <2>4. ss \o P(k) \in Seq(S)
    BY <2>2, <2>3, ConcatProperties
  <2>5. ss \o P(k + 1) = Append(ss \o P(k), tt[k + 1])
    <3>1. P(k + 1) = P(k) \o <<tt[k + 1]>>
      BY <2>3, AppendIsConcat
    <3>2. <<tt[k + 1]>> \in Seq(S)
      BY <2>3, Single
    <3> DEFINE u == <<tt[k + 1]>>
               p == P(k)
    <3> HIDE DEF u, p
    <3>3. p \in Seq(S) /\ u \in Seq(S) /\ P(k + 1) = p \o u
      BY <2>3, <3>1, <3>2 DEF u, p
    <3>4. ss \o (p \o u) = (ss \o p) \o u
      BY ONLY <2>2, <3>3, ConcatAssociative, SMTT(30)
    <3>5. (ss \o p) \o u = Append(ss \o P(k), tt[k + 1])
      BY <2>3, <2>4, AppendIsConcat DEF u, p
    <3> QED
      BY <3>3, <3>4, <3>5
  <2>6. FlattenSeq(ss \o P(k + 1)) = FlattenSeq(ss \o P(k)) \o tt[k + 1]
    BY <2>3, <2>4, <2>5, FlattenAppend DEF S
  <2>7. FlattenSeq(P(k + 1)) = FlattenSeq(P(k)) \o tt[k + 1] /\ FlattenSeq(P(k)) \in Seq(T)
    BY <2>3, FlattenAppend, FlattenType DEF S
  <2>8. FlattenSeq(ss \o P(k)) = FlattenSeq(ss) \o FlattenSeq(P(k))
    BY <1>2, <2>1
  <2>9. (FlattenSeq(ss) \o FlattenSeq(P(k))) \o tt[k + 1] = FlattenSeq(ss) \o (FlattenSeq(P(k)) \o tt[k + 1])
    <3>1. FlattenSeq(ss) \in Seq(T) /\ FlattenSeq(P(k)) \in Seq(T) /\ tt[k + 1] \in Seq(T)
      BY <1>0, <2>3, <2>7 DEF S
    <3> DEFINE x == FlattenSeq(ss)
               y == FlattenSeq(P(k))
               z == tt[k + 1]
    <3> HIDE DEF x, y, z
    <3>2. x \in Seq(T) /\ y \in Seq(T) /\ z \in Seq(T)
      BY <3>1 DEF x, y, z
    <3>3. (x \o y) \o z = x \o (y \o z)
      BY ONLY <3>2, ConcatAssociative
    <3> QED
      BY <3>3 DEF x, y, z
  <2> QED
    BY <2>6, <2>7, <2>8, <2>9
<1> HIDE DEF A
<1>3. A = Nat
  BY <1>1, <1>2, NatSetInduction
<1>4. P(Len(tt)) = tt
  BY SubSeqFull
<1> HIDE DEF P
<1>5. Len(tt) \in A
  BY <1>0, <1>3
<1> QED
  BY <1>0, <1>4, <1>5 DEF A

(* Nothing is in the whole that is in no element.                          *)
LEMMA FlattenElements ==
  ASSUME NEW T, NEW ss \in Seq(Seq(T)), NEW x \in ToSet(FlattenSeq(ss))
  PROVE  \E i \in 1..Len(ss) : x \in ToSet(ss[i])
<1>1. PICK f \in [0..Len(ss) -> Seq(T)] : Flattens(f, ss) /\ FlattenSeq(ss) = f[Len(ss)]
  BY FlattenLoop
<1>2. Len(ss) \in Nat /\ \A n \in 1..Len(ss) : ss[n] \in Seq(T)
  BY LenProperties, ElementOfSeq
<1> DEFINE Found(n) == \A y \in ToSet(f[n]) : \E i \in 1..n : y \in ToSet(ss[i])
           A == {n \in Nat : n <= Len(ss) => Found(n)}
<1>3. A \in SUBSET Nat /\ 0 \in A
  BY <1>1 DEF Flattens, ToSet
<1>4. ASSUME NEW n \in A PROVE n + 1 \in A
  <2> SUFFICES ASSUME n + 1 <= Len(ss), NEW y \in ToSet(f[n + 1])
               PROVE  \E i \in 1..(n + 1) : y \in ToSet(ss[i])
    OBVIOUS
  <2>1. n \in 0..Len(ss) /\ n + 1 \in 1..Len(ss) /\ (n + 1) - 1 = n /\ Found(n)
    BY <1>2
  <2>2. f[n + 1] = f[n] \o ss[n + 1] /\ f[n] \in Seq(T) /\ ss[n + 1] \in Seq(T)
    BY <1>1, <1>2, <2>1 DEF Flattens
  <2> DEFINE p == f[n]
             q == ss[n + 1]
  <2> HIDE DEF p, q
  <2>3. y \in ToSet(p) \/ y \in ToSet(q)
    <3>1. y \in ToSet(p \o q) /\ p \in Seq(T) /\ q \in Seq(T)
      BY <2>2 DEF p, q
    <3>2. PICK i \in DOMAIN (p \o q) : y = (p \o q)[i]
      BY <3>1 DEF ToSet
    <3>3. /\ Len(p) \in Nat /\ Len(q) \in Nat /\ DOMAIN p = 1..Len(p) /\ DOMAIN q = 1..Len(q)
          /\ i \in 1..(Len(p) + Len(q))
      BY <3>1, <3>2, ConcatProperties, LenProperties
    <3>4. (p \o q)[i] = IF i <= Len(p) THEN p[i] ELSE q[i - Len(p)]
      BY <3>1, <3>3, ConcatProperties
    <3> QED
      BY <3>2, <3>3, <3>4 DEF ToSet
  <2> QED
    BY <2>1, <2>3 DEF p, q
<1> HIDE DEF A
<1>5. A = Nat
  BY <1>3, <1>4, NatSetInduction
<1>6. Len(ss) \in A
  BY <1>2, <1>5
<1> QED
  BY <1>1, <1>2, <1>6 DEF A

(* Every element at most one element long: so is the whole. *)
LEMMA FlattenShort ==
  ASSUME NEW T, NEW ss \in Seq(Seq(T)), \A i \in 1..Len(ss) : Len(ss[i]) <= 1
  PROVE  Len(FlattenSeq(ss)) <= Len(ss)
<1>1. PICK f \in [0..Len(ss) -> Seq(T)] : Flattens(f, ss) /\ FlattenSeq(ss) = f[Len(ss)]
  BY FlattenLoop
<1>2. Len(ss) \in Nat /\ \A n \in 1..Len(ss) : ss[n] \in Seq(T)
  BY LenProperties, ElementOfSeq
<1> DEFINE A == {n \in Nat : n <= Len(ss) => Len(f[n]) <= n}
<1>3. A \in SUBSET Nat /\ 0 \in A
  BY <1>1, EmptySeq DEF Flattens
<1>4. ASSUME NEW n \in A PROVE n + 1 \in A
  <2> SUFFICES ASSUME n + 1 <= Len(ss) PROVE Len(f[n + 1]) <= n + 1
    OBVIOUS
  <2>1. n \in 0..Len(ss) /\ n + 1 \in 1..Len(ss) /\ (n + 1) - 1 = n /\ Len(f[n]) <= n
    BY <1>2
  <2>2. f[n + 1] = f[n] \o ss[n + 1] /\ f[n] \in Seq(T) /\ ss[n + 1] \in Seq(T)
    BY <1>1, <1>2, <2>1 DEF Flattens
  <2>3. Len(f[n + 1]) = Len(f[n]) + Len(ss[n + 1]) /\ Len(f[n]) \in Nat /\ Len(ss[n + 1]) \in Nat
    BY <2>2, ConcatProperties, LenProperties
  <2> QED
    BY <2>1, <2>3
<1> HIDE DEF A
<1>5. A = Nat
  BY <1>3, <1>4, NatSetInduction
<1>6. Len(ss) \in A
  BY <1>2, <1>5
<1> QED
  BY <1>1, <1>2, <1>6 DEF A

(* One element at each place from a + 1 to b, and none elsewhere. *)
LEMMA FlattenRun ==
  ASSUME NEW T, NEW ss \in Seq(Seq(T)), NEW a \in Nat, NEW v \in Seq(T), a + Len(v) <= Len(ss),
         \A i \in 1..Len(ss) : ss[i] = IF a < i /\ i <= a + Len(v) THEN <<v[i - a]>> ELSE <<>>
  PROVE  FlattenSeq(ss) = v
<1>1. PICK f \in [0..Len(ss) -> Seq(T)] : Flattens(f, ss) /\ FlattenSeq(ss) = f[Len(ss)]
  BY FlattenLoop
<1>2. Len(ss) \in Nat /\ Len(v) \in Nat
  BY LenProperties
<1>0. \A i \in 1..Len(ss) : a < i /\ i <= a + Len(v) => ss[i] = <<v[i - a]>>
  OBVIOUS
<1> DEFINE Upto(n) == IF n <= a THEN 0 ELSE IF n <= a + Len(v) THEN n - a ELSE Len(v)
           A == {n \in Nat : n <= Len(ss) => f[n] = SubSeq(v, 1, Upto(n))}
<1>3. A \in SUBSET Nat /\ 0 \in A
  <2>1. Upto(0) = 0
    OBVIOUS
  <2> QED
    BY <1>1, <2>1, NoPrefix DEF Flattens
<1>4. ASSUME NEW n \in A PROVE n + 1 \in A
  <2> SUFFICES ASSUME n + 1 <= Len(ss) PROVE f[n + 1] = SubSeq(v, 1, Upto(n + 1))
    OBVIOUS
  <2>1. n \in 0..Len(ss) /\ n + 1 \in 1..Len(ss) /\ (n + 1) - 1 = n /\ f[n] = SubSeq(v, 1, Upto(n))
    BY <1>2
  <2>2. f[n + 1] = f[n] \o ss[n + 1] /\ f[n] \in Seq(T)
    BY <1>1, <2>1 DEF Flattens
  <2>3. CASE a < n + 1 /\ n + 1 <= a + Len(v)
    <3>1. Upto(n + 1) \in 1..Len(v) /\ Upto(n) = Upto(n + 1) - 1 /\ n + 1 - a = Upto(n + 1)
      BY <1>2, <2>3
    <3> HIDE DEF Upto
    <3> DEFINE k == Upto(n + 1)
    <3> HIDE DEF k
    <3>2. k \in 1..Len(v) /\ f[n] = SubSeq(v, 1, k - 1)
      BY <2>1, <3>1 DEF k
    <3>5. ss[n + 1] = <<v[k]>>
      <4> DEFINE i == n + 1
      <4> HIDE DEF i
      <4>1. i \in 1..Len(ss) /\ a < i /\ i <= a + Len(v) /\ i - a = k
        BY <2>1, <2>3, <3>1 DEF i, k
      <4>2. ss[i] = <<v[i - a]>>
        BY <1>0, <4>1
      <4> QED
        BY <4>1, <4>2 DEF i
    <3>3. SubSeq(v, 1, k) = Append(SubSeq(v, 1, k - 1), v[k])
          /\ SubSeq(v, 1, k - 1) \in Seq(T) /\ v[k] \in T
      BY <3>2, PrefixAppend
    <3>4. Append(SubSeq(v, 1, k - 1), v[k]) = SubSeq(v, 1, k - 1) \o <<v[k]>>
      BY <3>3, AppendIsConcat
    <3> QED
      BY <2>2, <3>2, <3>3, <3>4, <3>5 DEF k
  <2>4. CASE ~(a < n + 1 /\ n + 1 <= a + Len(v))
    <3>1. Upto(n + 1) = Upto(n)
      <4>1. n \in Nat /\ a \in Nat /\ Len(v) \in Nat
        BY <1>2
      <4>2. CASE n + 1 <= a
        BY <4>1, <4>2
      <4>3. CASE n + 1 > a + Len(v)
        BY <4>1, <4>3
      <4> QED
        BY <2>4, <4>1, <4>2, <4>3
    <3>2. ss[n + 1] = <<>>
      BY <2>1, <2>4
    <3>3. f[n] \o <<>> = f[n]
      BY <2>2, ConcatEmptySeq
    <3> QED
      BY <2>1, <2>2, <3>1, <3>2, <3>3
  <2> QED
    BY <2>3, <2>4
<1> HIDE DEF A
<1>5. A = Nat
  BY <1>3, <1>4, NatSetInduction
<1>6. Len(ss) \in A
  BY <1>2, <1>5
<1>7. Upto(Len(ss)) = Len(v)
  BY <1>2
<1>8. SubSeq(v, 1, Len(v)) = v
  BY SubSeqFull
<1> HIDE DEF Upto
<1>9. f[Len(ss)] = SubSeq(v, 1, Upto(Len(ss)))
  BY <1>2, <1>6 DEF A
<1> QED
  BY <1>1, <1>7, <1>8, <1>9

-----------------------------------------------------------------------------
(* The elements at some places of a sequence. *)

Picks(es, places) == [i \in DOMAIN es |-> IF i \in places THEN <<es[i]>> ELSE <<>>]

(* What Picked flattens: a sequence of one element or none at each place.  *)
LEMMA PicksType ==
  ASSUME NEW T, NEW es \in Seq(T), NEW places
  PROVE  /\ Picks(es, places) \in Seq(Seq(T)) /\ Len(Picks(es, places)) = Len(es)
         /\ Len(es) \in Nat /\ DOMAIN es = 1..Len(es)
         /\ \A i \in 1..Len(es) :
               /\ es[i] \in T
               /\ Picks(es, places)[i] = IF i \in places THEN <<es[i]>> ELSE <<>>
<1>1. Len(es) \in Nat /\ DOMAIN es = 1..Len(es) /\ \A i \in 1..Len(es) : es[i] \in T
  BY LenProperties, ElementOfSeq
<1> DEFINE c(i) == IF i \in places THEN <<es[i]>> ELSE <<>>
           S == Seq(T)
<1>2. \A i \in 1..Len(es) : c(i) \in S
  BY <1>1, Single, EmptySeq
<1>3. Picks(es, places) = [i \in 1..Len(es) |-> c(i)]
  BY <1>1 DEF Picks
<1> HIDE DEF c, S
<1>4. [i \in 1..Len(es) |-> c(i)] \in Seq(S)
  BY <1>1, <1>2, IsASeq
<1>5. Picks(es, places) \in Seq(S) /\ DOMAIN Picks(es, places) = 1..Len(es)
  BY <1>3, <1>4
<1>6. Len(Picks(es, places)) = Len(es)
  BY <1>1, <1>5, LenProperties
<1> QED
  BY <1>1, <1>3, <1>5, <1>6 DEF c, S

(* What is picked is from the sequence, and no more than all of it.        *)
LEMMA PickedType ==
  ASSUME NEW T, NEW es \in Seq(T), NEW places
  PROVE  /\ Picked(es, places) \in Seq(T) /\ Len(Picked(es, places)) <= Len(es)
         /\ ToSet(Picked(es, places)) \subseteq ToSet(es)
<1> DEFINE ss == Picks(es, places)
<1>1. /\ ss \in Seq(Seq(T)) /\ Len(ss) = Len(es) /\ DOMAIN es = 1..Len(es)
      /\ \A i \in 1..Len(es) : es[i] \in T /\ ss[i] = IF i \in places THEN <<es[i]>> ELSE <<>>
  BY PicksType
<1>2. Picked(es, places) = FlattenSeq(ss)
  BY DEF Picked, Picks
<1> HIDE DEF ss
<1>3. ASSUME NEW i \in 1..Len(ss) PROVE Len(ss[i]) <= 1
  <2>1. es[i] \in T /\ (i \in places => ss[i] = <<es[i]>>) /\ (i \notin places => ss[i] = <<>>)
    BY <1>1
  <2>2. Len(<<es[i]>>) = 1 /\ Len(<<>>) = 0
    BY <2>1, Single, EmptySeq
  <2>3. Len(ss[i]) = 1 \/ Len(ss[i]) = 0
    BY <2>1, <2>2, Zenon
  <2> QED
    BY <2>3
<1>4. FlattenSeq(ss) \in Seq(T) /\ Len(FlattenSeq(ss)) <= Len(ss)
  BY <1>1, <1>3, FlattenType, FlattenShort
<1>5. ASSUME NEW x \in ToSet(FlattenSeq(ss)) PROVE x \in ToSet(es)
  <2>1. PICK i \in 1..Len(ss) : x \in ToSet(ss[i])
    BY <1>1, FlattenElements
  <2>2. x = es[i]
    <3>1. (i \in places => ss[i] = <<es[i]>>) /\ (i \notin places => ss[i] = <<>>)
      BY <1>1
    <3>2. ToSet(<<es[i]>>) = {es[i]} /\ ToSet(<<>>) = {}
      BY DEF ToSet
    <3> QED
      BY <2>1, <3>1, <3>2
  <2> QED
    BY <1>1, <2>1, <2>2 DEF ToSet
<1> QED
  BY <1>1, <1>2, <1>4, <1>5

(* The elements of a stretch. *)
LEMMA PickedRun ==
  ASSUME NEW T, NEW es \in Seq(T), NEW a \in Nat, NEW b \in Nat, a <= b, b <= Len(es),
         NEW places, \A i \in 1..Len(es) : i \in places <=> a < i /\ i <= b
  PROVE  Picked(es, places) = SubSeq(es, a + 1, b)
<1> DEFINE ss == Picks(es, places)
           v == SubSeq(es, a + 1, b)
<1>1. /\ ss \in Seq(Seq(T)) /\ Len(ss) = Len(es) /\ Len(es) \in Nat
      /\ \A i \in 1..Len(es) : es[i] \in T /\ ss[i] = IF i \in places THEN <<es[i]>> ELSE <<>>
  BY PicksType
<1>2. Picked(es, places) = FlattenSeq(ss)
  BY DEF Picked, Picks
<1>3. v \in Seq(T) /\ Len(v) = b - a /\ \A i \in 1..(b - a) : v[i] = es[a + i]
  <2>1. a + 1 \in Int /\ b \in Int /\ \A i \in (a + 1)..b : es[i] \in T
    BY <1>1
  <2>2. /\ v \in Seq(T) /\ Len(v) = IF a + 1 <= b THEN b - (a + 1) + 1 ELSE 0
        /\ \A i \in 1..(b - (a + 1) + 1) : v[i] = es[(a + 1) + i - 1]
    BY <2>1, SubSeqProperties
  <2>3. \A i \in 1..(b - a) : (a + 1) + i - 1 = a + i
    OBVIOUS
  <2>4. b - (a + 1) + 1 = b - a
    OBVIOUS
  <2> QED
    BY <2>2, <2>3, <2>4
<1> HIDE DEF ss, v
<1>4. a + Len(v) = b /\ a + Len(v) <= Len(ss)
  BY <1>1, <1>3
<1>5. ASSUME NEW i \in 1..Len(ss) PROVE ss[i] = IF a < i /\ i <= a + Len(v) THEN <<v[i - a]>> ELSE <<>>
  <2>1. CASE i \in places
    <3>1. a < i /\ i <= b /\ i - a \in 1..(b - a) /\ a + (i - a) = i
      BY <1>1, <1>5, <2>1
    <3>2. v[i - a] = es[i]
      BY <1>3, <3>1
    <3> QED
      BY <1>1, <1>4, <2>1, <3>1, <3>2
  <2>2. CASE i \notin places
    BY <1>1, <1>4, <2>2
  <2> QED
    BY <2>1, <2>2
<1>6. FlattenSeq(ss) = v
  BY <1>1, <1>3, <1>4, <1>5, FlattenRun
<1> QED
  BY <1>2, <1>6 DEF v

(* The same when they are told by their kind.                              *)
LEMMA OfKindRun ==
  ASSUME NEW T, NEW es \in Seq(T), NEW a \in Nat, NEW b \in Nat, a <= b, b <= Len(es),
         NEW kinds, \A i \in 1..Len(es) : es[i].kind \in kinds <=> a < i /\ i <= b
  PROVE  OfKind(es, kinds) = SubSeq(es, a + 1, b)
<1>1. DOMAIN es = 1..Len(es)
  BY LenProperties
<1> DEFINE places == {i \in DOMAIN es : es[i].kind \in kinds}
<1>2. \A i \in 1..Len(es) : i \in places <=> a < i /\ i <= b
  BY <1>1
<1> HIDE DEF places
<1>3. Picked(es, places) = SubSeq(es, a + 1, b)
  BY <1>2, PickedRun
<1> QED
  BY <1>3 DEF OfKind, places

(* What is of a kind is from the sequence.                                 *)
LEMMA OfKindType ==
  ASSUME NEW T, NEW es \in Seq(T), NEW kinds
  PROVE  /\ OfKind(es, kinds) \in Seq(T) /\ Len(OfKind(es, kinds)) <= Len(es)
         /\ ToSet(OfKind(es, kinds)) \subseteq ToSet(es)
BY PickedType DEF OfKind

(* Picking by kind commutes with concatenation.                            *)
LEMMA OfKindConcat ==
  ASSUME NEW T, NEW s \in Seq(T), NEW t \in Seq(T), NEW kinds
  PROVE  OfKind(s \o t, kinds) = OfKind(s, kinds) \o OfKind(t, kinds)
<1> DEFINE At(es) == {i \in DOMAIN es : es[i].kind \in kinds}
           C(es) == Picks(es, At(es))
           S == Seq(T)
<1>1. ASSUME NEW es \in Seq(T)
      PROVE  /\ OfKind(es, kinds) = FlattenSeq(C(es)) /\ C(es) \in Seq(S) /\ Len(C(es)) = Len(es)
             /\ Len(es) \in Nat
             /\ \A i \in 1..Len(es) : C(es)[i] = IF es[i].kind \in kinds THEN <<es[i]>> ELSE <<>>
  <2>1. /\ C(es) \in Seq(Seq(T)) /\ Len(C(es)) = Len(es) /\ DOMAIN es = 1..Len(es) /\ Len(es) \in Nat
        /\ \A i \in 1..Len(es) : C(es)[i] = IF i \in At(es) THEN <<es[i]>> ELSE <<>>
    BY PicksType
  <2>2. OfKind(es, kinds) = FlattenSeq(C(es))
    BY DEF OfKind, Picked, Picks
  <2> QED
    BY <2>1, <2>2
<1>2. s \o t \in Seq(T) /\ Len(s \o t) = Len(s) + Len(t)
      /\ \A i \in 1..(Len(s) + Len(t)) : (s \o t)[i] = IF i <= Len(s) THEN s[i] ELSE t[i - Len(s)]
  BY ConcatProperties
<1> DEFINE u == s \o t
           cs == C(s)
           ct == C(t)
           cu == C(u)
<1>3. /\ cs \in Seq(S) /\ Len(cs) = Len(s) /\ Len(s) \in Nat
      /\ \A i \in 1..Len(s) : cs[i] = IF s[i].kind \in kinds THEN <<s[i]>> ELSE <<>>
      /\ OfKind(s, kinds) = FlattenSeq(cs)
  BY <1>1
<1>4. /\ ct \in Seq(S) /\ Len(ct) = Len(t) /\ Len(t) \in Nat
      /\ \A i \in 1..Len(t) : ct[i] = IF t[i].kind \in kinds THEN <<t[i]>> ELSE <<>>
      /\ OfKind(t, kinds) = FlattenSeq(ct)
  BY <1>1
<1>5. /\ cu \in Seq(S) /\ Len(cu) = Len(u)
      /\ \A i \in 1..Len(u) : cu[i] = IF u[i].kind \in kinds THEN <<u[i]>> ELSE <<>>
      /\ OfKind(u, kinds) = FlattenSeq(cu)
  BY <1>1, <1>2
<1>6. Len(u) = Len(s) + Len(t) /\ \A i \in 1..(Len(s) + Len(t)) : u[i] = IF i <= Len(s) THEN s[i] ELSE t[i - Len(s)]
  BY <1>2
<1> HIDE DEF u, cs, ct, cu, S
<1>7. /\ cs \o ct \in Seq(S) /\ Len(cs \o ct) = Len(s) + Len(t)
      /\ \A i \in 1..(Len(s) + Len(t)) : (cs \o ct)[i] = IF i <= Len(s) THEN cs[i] ELSE ct[i - Len(s)]
  <2>1. cs \in Seq(S) /\ ct \in Seq(S) /\ Len(cs) = Len(s) /\ Len(ct) = Len(t)
    BY <1>3, <1>4
  <2>2. /\ cs \o ct \in Seq(S) /\ Len(cs \o ct) = Len(cs) + Len(ct)
        /\ \A i \in 1..(Len(cs) + Len(ct)) : (cs \o ct)[i] = IF i <= Len(cs) THEN cs[i] ELSE ct[i - Len(cs)]
    BY <2>1, ConcatProperties
  <2> QED
    BY <2>1, <2>2
<1>8. ASSUME NEW i \in 1..Len(u) PROVE cu[i] = (cs \o ct)[i]
  <2>1. CASE i <= Len(s)
    <3>1. i \in 1..Len(s) /\ i \in 1..(Len(s) + Len(t))
      BY <1>3, <1>4, <1>6, <2>1
    <3> QED
      BY <1>3, <1>5, <1>6, <1>7, <2>1, <3>1
  <2>2. CASE ~(i <= Len(s))
    <3>1. i - Len(s) \in 1..Len(t) /\ i \in 1..(Len(s) + Len(t))
      BY <1>3, <1>4, <1>6, <2>2
    <3>2. u[i] = t[i - Len(s)] /\ (cs \o ct)[i] = ct[i - Len(s)]
      BY <1>6, <1>7, <2>2, <3>1
    <3> QED
      BY <1>4, <1>5, <3>1, <3>2
  <2> QED
    BY <2>1, <2>2
<1>9. cu = cs \o ct
  BY <1>5, <1>6, <1>7, <1>8, SeqEqual
<1>10. FlattenSeq(cs \o ct) = FlattenSeq(cs) \o FlattenSeq(ct)
  BY <1>3, <1>4, FlattenConcat DEF S
<1> QED
  BY <1>3, <1>4, <1>5, <1>9, <1>10 DEF u

-----------------------------------------------------------------------------
(* The transactions that a root stands for. *)

(* All that it commits to, but for what the owner of the rollup set. *)
Made(root) == OfKind(root, (Kinds \cup {"preload"}) \ {"update"})

(* An event adds transactions of its own name; accounting and updates add  *)
(* none.                                                                   *)
LEMMA TransactionsType ==
  ASSUME NEW e, e.kind \in Kinds, e.name \in STRING
  PROVE  /\ Transactions(e) \in Root
         /\ \A t \in ToSet(Transactions(e)) :
               /\ t.name = e.name /\ t.kind \in {e.kind, "preload"} /\ t.kind # "update"
               /\ t.kind \in Signed => t = OriginalTransaction(e)
         /\ Transactions(e) = <<>> <=> e.kind \in {"accounting", "update"}
<1> DEFINE o == OriginalTransaction(e)
           p == PreloadL2ToL1Entry(e)
           c == IncomingCall(e)
<1>1. /\ o \in Transaction /\ o.name = e.name /\ o.kind = e.kind
      /\ p \in Transaction /\ p.name = e.name /\ p.kind = "preload" /\ p.kind \notin Signed
      /\ c \in Transaction /\ c.name = e.name /\ c.kind = "call" /\ c.kind \notin Signed
  BY DEF OriginalTransaction, PreloadL2ToL1Entry, IncomingCall, Transaction, Kinds, Signed
<1> HIDE DEF o, p, c
<1> DEFINE Says(s) ==
              /\ s \in Root
              /\ \A t \in ToSet(s) :
                    /\ t.name = e.name /\ t.kind \in {e.kind, "preload"} /\ t.kind # "update"
                    /\ t.kind \in Signed => t = o
              /\ s = <<>> <=> e.kind \in {"accounting", "update"}
<1>2. CASE e.kind = "withdrawal"
  <2>1. Transactions(e) = <<p, o>>
    BY <1>2 DEF Transactions, p, o
  <2>2. <<p, o>> \in Root /\ ToSet(<<p, o>>) = {p, o} /\ <<p, o>> # <<>>
    BY <1>1 DEF Root, ToSet
  <2>3. Says(<<p, o>>)
    BY <1>1, <1>2, <2>2
  <2> QED
    BY <2>1, <2>3 DEF o
<1>3. CASE e.kind \in {"tx", "deploy"}
  <2>1. Transactions(e) = <<o>>
    BY <1>3 DEF Transactions, o
  <2>2. <<o>> \in Root /\ ToSet(<<o>>) = {o} /\ <<o>> # <<>>
    BY <1>1 DEF Root, ToSet
  <2>3. Says(<<o>>)
    BY <1>1, <1>3, <2>2
  <2> QED
    BY <2>1, <2>3 DEF o
<1>4. CASE e.kind = "call"
  <2>1. Transactions(e) = <<c>>
    BY <1>4 DEF Transactions, c
  <2>2. <<c>> \in Root /\ ToSet(<<c>>) = {c} /\ <<c>> # <<>>
    BY <1>1 DEF Root, ToSet
  <2>3. Says(<<c>>)
    BY <1>1, <1>4, <2>2
  <2> QED
    BY <2>1, <2>3 DEF o
<1>5. CASE e.kind \in {"accounting", "update"}
  <2>1. Transactions(e) = <<>>
    BY <1>5 DEF Transactions
  <2>2. <<>> \in Root /\ ToSet(<<>>) = {}
    BY EmptySeq DEF Root, ToSet
  <2>3. Says(<<>>)
    BY <1>5, <2>2
  <2> QED
    BY <2>1, <2>3 DEF o
<1> QED
  BY <1>2, <1>3, <1>4, <1>5 DEF Kinds

(* What a root is made of is a part of it.                                 *)
LEMMA MadeType ==
  ASSUME NEW root \in Root
  PROVE  /\ Made(root) \in Root /\ Len(Made(root)) <= Len(root) /\ Len(root) \in Nat
         /\ Len(Made(root)) \in Nat
         /\ ToSet(Made(root)) \subseteq ToSet(root)
<1>1. /\ Made(root) \in Seq(Transaction) /\ Len(Made(root)) <= Len(root)
      /\ ToSet(Made(root)) \subseteq ToSet(root)
  BY OfKindType DEF Made, Root
<1> QED
  BY <1>1, LenProperties DEF Root

LEMMA MadeNothing == Made(<<>>) = <<>>
<1>1. <<>> \in Root /\ Len(<<>>) = 0
  BY EmptySeq DEF Root
<1>2. Made(<<>>) \in Root /\ Len(Made(<<>>)) <= 0 /\ Len(Made(<<>>)) \in Nat
  BY <1>1, MadeType
<1> QED
  BY <1>2, EmptySeq DEF Root

(* None of them is of the owner's making. *)
LEMMA MadeWhole ==
  ASSUME NEW root \in Root, \A t \in ToSet(root) : t.kind # "update"
  PROVE  Made(root) = root
<1> DEFINE kinds == (Kinds \cup {"preload"}) \ {"update"}
           n == Len(root)
<1>1. n \in Nat /\ DOMAIN root = 1..n /\ \A i \in 1..n : root[i] \in Transaction
  BY LenProperties, ElementOfSeq DEF Root
<1>2. ASSUME NEW i \in 1..n PROVE root[i].kind \in kinds
  <2>1. root[i] \in ToSet(root) /\ root[i].kind \in Kinds \cup {"preload"}
    BY <1>1 DEF ToSet, Transaction
  <2> QED
    BY <2>1
<1>3. \A i \in 1..Len(root) : root[i].kind \in kinds <=> 0 < i /\ i <= n
  BY <1>1, <1>2
<1> HIDE DEF kinds
<1>4. root \in Seq(Transaction) /\ 0 \in Nat /\ 0 <= n /\ n <= Len(root)
  BY <1>1 DEF Root
<1> HIDE DEF n
<1>5. OfKind(root, kinds) = SubSeq(root, 0 + 1, n)
  BY <1>1, <1>3, <1>4, OfKindRun
<1>6. SubSeq(root, 0 + 1, n) = root
  BY <1>4, SubSeqFull DEF n
<1>7. Made(root) = OfKind(root, kinds)
  BY DEF Made, kinds
<1> QED
  BY <1>5, <1>6, <1>7

(* What the owner sets is made of nothing.                                 *)
LEMMA MadeOfNothing ==
  ASSUME NEW t \in Transaction, t.kind = "update"
  PROVE  Made(<<t>>) = <<>>
<1> DEFINE kinds == (Kinds \cup {"preload"}) \ {"update"}
           s == <<t>>
<1>1. s \in Seq(Transaction) /\ Len(s) = 1 /\ s[1] = t
  BY Single
<1> HIDE DEF s
<1>2. \A i \in 1..Len(s) : s[i].kind \in kinds <=> 0 < i /\ i <= 0
  BY <1>1
<1> HIDE DEF kinds
<1>3. 0 \in Nat /\ 0 <= 0 /\ 0 <= Len(s)
  BY <1>1
<1>4. OfKind(s, kinds) = SubSeq(s, 0 + 1, 0)
  BY <1>1, <1>2, <1>3, OfKindRun
<1> QED
  BY <1>4, NoPrefix DEF Made, kinds, s

(* What an event adds to the transactions of the root. *)
LEMMA MadeAfter ==
  ASSUME NEW root \in Root, NEW e, e.kind \in Kinds, e.name \in STRING
  PROVE  Made(RootAfter(root, e)) = Made(root) \o Transactions(e)
<1>0. Transactions(e) \in Root /\ \A t \in ToSet(Transactions(e)) : t.kind # "update"
  BY TransactionsType
<1>1. CASE e.kind = "update"
  <2> DEFINE t == [kind |-> "update", name |-> e.name]
             s == <<t>>
  <2>1. t \in Transaction /\ t.kind = "update"
    BY <1>1 DEF Transaction, Kinds
  <2> HIDE DEF t
  <2>2. s \in Seq(Transaction)
    BY <2>1, Single
  <2>3. RootAfter(root, e) = root \o s
    <3>1. RootAfter(root, e) = Append(root, t)
      BY <1>1 DEF RootAfter, t
    <3> QED
      BY <2>1, <3>1, AppendIsConcat DEF Root
  <2>4. Made(s) = <<>>
    BY <2>1, MadeOfNothing
  <2> HIDE DEF s
  <2>5. Made(root \o s) = Made(root) \o Made(s)
    BY <2>2, OfKindConcat DEF Made, Root
  <2>6. Transactions(e) = <<>>
    BY <1>1, TransactionsType
  <2> QED
    BY <2>3, <2>4, <2>5, <2>6
<1>2. CASE e.kind # "update"
  <2>1. RootAfter(root, e) = root \o Transactions(e)
    BY <1>2 DEF RootAfter
  <2>2. Made(root \o Transactions(e)) = Made(root) \o Made(Transactions(e))
    BY <1>0, OfKindConcat DEF Made, Root
  <2>3. Made(Transactions(e)) = Transactions(e)
    BY <1>0, MadeWhole
  <2> QED
    BY <2>1, <2>2, <2>3
<1> QED
  BY <1>1, <1>2

(* An event adds what has its name, and keeps what was there. *)
LEMMA RootAfterElements ==
  ASSUME NEW root \in Root, NEW e, e.kind \in Kinds, e.name \in STRING
  PROVE  /\ ToSet(root) \subseteq ToSet(RootAfter(root, e))
         /\ \A t \in ToSet(RootAfter(root, e)) :
               t \in ToSet(root) \/ (t.name = e.name /\ t.kind \in {e.kind, "preload"})
<1>0. /\ Transactions(e) \in Root
      /\ \A t \in ToSet(Transactions(e)) : t.name = e.name /\ t.kind \in {e.kind, "preload"}
  BY TransactionsType
<1>1. PICK s \in Root : /\ RootAfter(root, e) = root \o s
                        /\ \A t \in ToSet(s) : t.name = e.name /\ t.kind \in {e.kind, "preload"}
  <2>1. CASE e.kind = "update"
    <3> DEFINE u == [kind |-> "update", name |-> e.name]
    <3>1. u \in Transaction /\ u.kind = e.kind /\ u.name = e.name
      BY <2>1 DEF Transaction, Kinds
    <3>2. RootAfter(root, e) = Append(root, u)
      BY <2>1 DEF RootAfter
    <3> HIDE DEF u
    <3>3. RootAfter(root, e) = root \o <<u>> /\ <<u>> \in Root
      BY <3>1, <3>2, AppendIsConcat, Single DEF Root
    <3>4. ToSet(<<u>>) = {u}
      BY DEF ToSet
    <3> QED
      BY <3>1, <3>3, <3>4
  <2>2. CASE e.kind # "update"
    BY <1>0, <2>2 DEF RootAfter
  <2> QED
    BY <2>1, <2>2
<1>2. /\ Len(root) \in Nat /\ Len(s) \in Nat /\ DOMAIN root = 1..Len(root) /\ DOMAIN s = 1..Len(s)
      /\ DOMAIN (root \o s) = 1..(Len(root) + Len(s))
      /\ \A i \in 1..(Len(root) + Len(s)) :
            (root \o s)[i] = IF i <= Len(root) THEN root[i] ELSE s[i - Len(root)]
  <2>1. root \in Seq(Transaction) /\ s \in Seq(Transaction)
    BY DEF Root
  <2>2. root \o s \in Seq(Transaction) /\ Len(root \o s) = Len(root) + Len(s)
    BY <2>1, ConcatProperties
  <2> QED
    BY <2>1, <2>2, ConcatProperties, LenProperties
<1>3. ASSUME NEW t \in ToSet(root) PROVE t \in ToSet(root \o s)
  <2>1. PICK i \in 1..Len(root) : t = root[i]
    BY <1>2 DEF ToSet
  <2>2. i \in 1..(Len(root) + Len(s)) /\ t = (root \o s)[i]
    BY <1>2, <2>1
  <2> QED
    BY <1>2, <2>2 DEF ToSet
<1>4. ASSUME NEW t \in ToSet(root \o s) PROVE t \in ToSet(root) \/ t \in ToSet(s)
  <2>1. PICK i \in 1..(Len(root) + Len(s)) : t = (root \o s)[i]
    BY <1>2 DEF ToSet
  <2> QED
    BY <1>2, <2>1 DEF ToSet
<1> QED
  BY <1>1, <1>3, <1>4

-----------------------------------------------------------------------------
(* The events of L1: each starts from a root and leads to another.         *)

(* The owner of the rollup never calls setStateByOwner.                    *)
NoUpdates == \A payload \in Payloads : \A i \in DOMAIN payload : payload[i].kind # "update"

(* An event of L1: a signed transaction is not in the root it comes upon.  *)
EventDerives(e) ==
    /\ e.newState = RootAfter(e.currentState, e)
    /\ e.kind \in Signed => OriginalTransaction(e) \notin ToSet(e.currentState)
    /\ NoUpdates => Made(e.newState) = e.newState

(* Events, one after the other, from a root on. *)
Leads(es, root) ==
    \A i \in 1..Len(es) :
        /\ es[i].currentState = IF i = 1 THEN root ELSE es[i - 1].newState
        /\ EventDerives(es[i])

EndOf(es, root) == IF es = <<>> THEN root ELSE es[Len(es)].newState

TransactionsOf(es) == FlattenSeq([i \in DOMAIN es |-> Transactions(es[i])])

(* Events have the types of their fields.                                  *)
LEMMA EventTypes ==
  ASSUME NEW es \in Seq(Event)
  PROVE  /\ Len(es) \in Nat /\ DOMAIN es = 1..Len(es)
         /\ \A i \in 1..Len(es) :
               /\ es[i] \in Event /\ es[i].kind \in Kinds /\ es[i].name \in STRING
               /\ es[i].currentState \in Root /\ es[i].newState \in Root
<1>1. Len(es) \in Nat /\ DOMAIN es = 1..Len(es) /\ \A i \in 1..Len(es) : es[i] \in Event
  BY LenProperties, ElementOfSeq
<1>2. \A e \in Event : e.kind \in Kinds /\ e.name \in STRING /\ e.currentState \in Root /\ e.newState \in Root
  BY DEF Event
<1> QED
  BY <1>1, <1>2

(* The transactions of events, one sequence for each.                      *)
LEMMA TransactionsOfType ==
  ASSUME NEW es \in Seq(Event)
  PROVE  LET ts == [i \in DOMAIN es |-> Transactions(es[i])]
         IN /\ ts \in Seq(Seq(Transaction)) /\ Len(ts) = Len(es) /\ Len(es) \in Nat
            /\ \A i \in 1..Len(es) : ts[i] = Transactions(es[i]) /\ ts[i] \in Root
            /\ TransactionsOf(es) = FlattenSeq(ts) /\ TransactionsOf(es) \in Root
<1> DEFINE ts == [i \in DOMAIN es |-> Transactions(es[i])]
           S == Seq(Transaction)
           n == Len(es)
<1>1. n \in Nat /\ DOMAIN es = 1..n /\ \A i \in 1..n : Transactions(es[i]) \in S
  BY EventTypes, TransactionsType DEF Root
<1>2. TransactionsOf(es) = FlattenSeq(ts)
  BY DEF TransactionsOf
<1> HIDE DEF S, n
<1>3. [i \in 1..n |-> Transactions(es[i])] \in Seq(S)
  BY <1>1, IsASeq
<1>4. ts = [i \in 1..n |-> Transactions(es[i])]
  BY <1>1
<1>5. ts \in Seq(S) /\ DOMAIN ts = 1..n /\ \A i \in 1..n : ts[i] = Transactions(es[i])
  BY <1>3, <1>4
<1> HIDE DEF ts
<1>6. Len(ts) = n
  BY <1>1, <1>5, LenProperties
<1>7. FlattenSeq(ts) \in Root
  BY <1>5, FlattenType DEF S, Root
<1>8. \A i \in 1..n : ts[i] \in Root
  BY <1>1, <1>5 DEF S, Root
<1> QED
  BY <1>1, <1>2, <1>5, <1>6, <1>7, <1>8 DEF n, S, ts

(* Events that follow one another add their transactions to the root.      *)
LEMMA Telescope ==
  ASSUME NEW root \in Root, NEW es \in Seq(Event), Leads(es, root)
  PROVE  Made(root) \o TransactionsOf(es) = Made(EndOf(es, root))
<1> DEFINE N == Len(es)
<1>1. PICK ts : /\ ts \in Seq(Seq(Transaction)) /\ Len(ts) = N /\ N \in Nat
                /\ \A i \in 1..N : ts[i] = Transactions(es[i]) /\ ts[i] \in Root
                /\ TransactionsOf(es) = FlattenSeq(ts)
  BY TransactionsOfType
<1>2. PICK f \in [0..N -> Seq(Transaction)] : Flattens(f, ts) /\ FlattenSeq(ts) = f[N]
  BY <1>1, FlattenLoop
<1>3. Made(root) \in Root
  BY MadeType
<1> DEFINE After(n) == IF n = 0 THEN root ELSE es[n].newState
           A == {n \in Nat : n <= N => Made(root) \o f[n] = Made(After(n))}
<1>4. A \in SUBSET Nat /\ 0 \in A
  <2>1. f[0] = <<>> /\ Made(root) \o <<>> = Made(root)
    BY <1>2, <1>3, ConcatEmptySeq DEF Flattens, Root
  <2>2. After(0) = root
    OBVIOUS
  <2> QED
    BY <2>1, <2>2
<1>5. ASSUME NEW n \in A PROVE n + 1 \in A
  <2> SUFFICES ASSUME n + 1 <= N PROVE Made(root) \o f[n + 1] = Made(After(n + 1))
    OBVIOUS
  <2> DEFINE i == n + 1
  <2>1. i \in 1..N /\ i - 1 = n /\ n \in 0..N /\ n \in Nat
    BY <1>1
  <2>2. Made(root) \o f[n] = Made(After(n))
    BY <2>1
  <2>3. After(i) = es[i].newState
    BY <2>1
  <2>4. After(n) = IF i = 1 THEN root ELSE es[i - 1].newState
    BY <2>1
  <2> HIDE DEF i, After
  <2>5. f[i] = f[n] \o ts[i]
    BY <1>1, <1>2, <2>1 DEF Flattens
  <2>6. es[i].currentState = After(n) /\ es[i].newState = RootAfter(After(n), es[i])
    BY <2>1, <2>4 DEF Leads, EventDerives
  <2>7. es[i].kind \in Kinds /\ es[i].name \in STRING /\ es[i].currentState \in Root
    BY <2>1, EventTypes
  <2>8. Made(es[i].newState) = Made(After(n)) \o Transactions(es[i])
    BY <2>6, <2>7, MadeAfter
  <2> DEFINE x == Made(root)
             y == f[n]
             z == ts[i]
  <2>9. x \in Seq(Transaction) /\ y \in Seq(Transaction) /\ z \in Seq(Transaction)
    BY <1>1, <1>2, <1>3, <2>1 DEF Root
  <2> HIDE DEF x, y, z
  <2>10. (x \o y) \o z = x \o (y \o z)
    BY ONLY <2>9, ConcatAssociative, SMTT(30)
  <2>11. Made(root) \o f[i] = (Made(root) \o f[n]) \o ts[i]
    BY <2>5, <2>10 DEF x, y, z
  <2>12. ts[i] = Transactions(es[i])
    BY <1>1, <2>1
  <2>13. Made(root) \o f[i] = Made(After(i))
    BY <2>2, <2>3, <2>8, <2>11, <2>12
  <2> QED
    BY <2>13 DEF i
<1> HIDE DEF A
<1>6. A = Nat
  BY <1>4, <1>5, NatSetInduction
<1>7. N \in A
  BY <1>1, <1>6
<1>8. Made(root) \o f[N] = Made(After(N))
  BY <1>1, <1>7 DEF A
<1>9. After(N) = EndOf(es, root)
  <2>1. N = 0 <=> es = <<>>
    BY <1>1, EmptySeq
  <2> QED
    BY <2>1 DEF EndOf
<1> QED
  BY <1>1, <1>2, <1>8, <1>9

(* What is in a root stays in those after it. *)
LEMMA LeadsGrows ==
  ASSUME NEW root \in Root, NEW es \in Seq(Event), Leads(es, root), NEW n \in 1..Len(es)
  PROVE  ToSet(root) \subseteq ToSet(es[n].currentState) /\ ToSet(root) \subseteq ToSet(es[n].newState)
<1>1. /\ Len(es) \in Nat
      /\ \A i \in 1..Len(es) : es[i].kind \in Kinds /\ es[i].name \in STRING /\ es[i].currentState \in Root
  BY EventTypes
<1>2. ASSUME NEW i \in 1..Len(es)
      PROVE  ToSet(es[i].currentState) \subseteq ToSet(es[i].newState)
  <2>1. es[i].newState = RootAfter(es[i].currentState, es[i])
    BY DEF Leads, EventDerives
  <2> QED
    BY <1>1, <2>1, RootAfterElements
<1> DEFINE A == {k \in Nat : k \in 1..Len(es) => ToSet(root) \subseteq ToSet(es[k].currentState)}
<1>3. A \in SUBSET Nat /\ 0 \in A
  BY <1>1
<1>4. ASSUME NEW k \in A PROVE k + 1 \in A
  <2> SUFFICES ASSUME k + 1 \in 1..Len(es) PROVE ToSet(root) \subseteq ToSet(es[k + 1].currentState)
    OBVIOUS
  <2>1. es[k + 1].currentState = IF k + 1 = 1 THEN root ELSE es[(k + 1) - 1].newState
    BY DEF Leads
  <2>2. CASE k = 0
    BY <2>1, <2>2
  <2>3. CASE k # 0
    <3>1. k \in 1..Len(es) /\ (k + 1) - 1 = k /\ k + 1 # 1
      BY <1>1, <2>3
    <3>2. ToSet(root) \subseteq ToSet(es[k].currentState)
      BY <1>4, <3>1
    <3>3. ToSet(es[k].currentState) \subseteq ToSet(es[k].newState)
      BY <1>2, <3>1
    <3> QED
      BY <2>1, <3>1, <3>2, <3>3
  <2> QED
    BY <2>2, <2>3
<1> HIDE DEF A
<1>5. A = Nat
  BY <1>3, <1>4, NatSetInduction
<1>6. n \in A
  BY <1>1, <1>5
<1>7. ToSet(root) \subseteq ToSet(es[n].currentState)
  BY <1>6 DEF A
<1> QED
  BY <1>2, <1>7

-----------------------------------------------------------------------------
(* What the node replays an event, or a batch of them, as. *)

(* One piece, and two.                                                     *)
LEMMA FlattenOne ==
  ASSUME NEW T, NEW s \in Seq(T)
  PROVE  FlattenSeq(<<s>>) = s /\ <<s>> \in Seq(Seq(T))
<1> DEFINE S == Seq(T)
<1>1. <<>> \in Seq(S)
  BY EmptySeq
<1>2. s \in S
  OBVIOUS
<1> HIDE DEF S
<1>3. Append(<<>>, s) = <<s>> /\ <<s>> \in Seq(S)
  BY <1>2, Single
<1>4. FlattenSeq(Append(<<>>, s)) = FlattenSeq(<<>>) \o s
  BY <1>1, FlattenAppend DEF S
<1>5. <<>> \o s = s
  BY ConcatEmptySeq
<1> QED
  BY <1>3, <1>4, <1>5, FlattenEmpty DEF S

LEMMA Pair ==
  ASSUME NEW S, NEW x \in S, NEW y \in S
  PROVE  /\ <<x, y>> \in Seq(S) /\ Append(<<x>>, y) = <<x, y>> /\ <<x>> \o <<y>> = <<x, y>>
         /\ SubSeq(<<x, y>>, 1, 1) = <<x>> /\ SubSeq(<<x, y>>, 2, 2) = <<y>>
<1> DEFINE p == <<x, y>>
           q == <<x>>
           r == <<y>>
<1>1. p \in Seq(S) /\ Len(p) = 2 /\ p[1] = x /\ p[2] = y
  OBVIOUS
<1>2. q \in Seq(S) /\ Len(q) = 1 /\ q[1] = x /\ r \in Seq(S) /\ Len(r) = 1 /\ r[1] = y
  OBVIOUS
<1> HIDE DEF p, q, r
<1>3. /\ Append(q, y) \in Seq(S) /\ Len(Append(q, y)) = 2
      /\ Append(q, y)[1] = x /\ Append(q, y)[2] = y
  <2>1. /\ Append(q, y) \in Seq(S) /\ Len(Append(q, y)) = Len(q) + 1
        /\ \A i \in 1..Len(q) : Append(q, y)[i] = q[i]
        /\ Append(q, y)[Len(q) + 1] = y
    <3>1. q \in Seq(S) /\ y \in S
      BY <1>2
    <3> QED
      BY <3>1, AppendProperties
  <2>2. Len(q) + 1 = 2 /\ 1 \in 1..Len(q)
    BY <1>2
  <2> QED
    BY <1>2, <2>1, <2>2
<1>4. Append(q, y) = p
  <2>1. \A i \in 1..2 : Append(q, y)[i] = p[i]
    BY <1>1, <1>3
  <2> QED
    BY <1>1, <1>3, <2>1, SeqEqual
<1>5. q \o r = p
  BY <1>2, <1>4, AppendIsConcat DEF r
<1>6. SubSeq(p, 1, 1) = q
  <2>1. \A i \in 1..1 : p[i] \in S
    BY <1>1
  <2>2. SubSeq(p, 1, 1) \in Seq(S) /\ Len(SubSeq(p, 1, 1)) = 1 /\ SubSeq(p, 1, 1)[1] = p[1]
    BY <2>1, SubSeqProperties
  <2>3. \A i \in 1..1 : SubSeq(p, 1, 1)[i] = q[i]
    BY <1>1, <1>2, <2>2
  <2> QED
    BY <1>2, <2>2, <2>3, SeqEqual
<1>7. SubSeq(p, 2, 2) = r
  <2>1. \A i \in 2..2 : p[i] \in S
    BY <1>1
  <2>2. SubSeq(p, 2, 2) \in Seq(S) /\ Len(SubSeq(p, 2, 2)) = 1 /\ SubSeq(p, 2, 2)[1] = p[2]
    BY <2>1, SubSeqProperties
  <2>3. \A i \in 1..1 : SubSeq(p, 2, 2)[i] = r[i]
    BY <1>1, <1>2, <2>2
  <2> QED
    BY <1>2, <2>2, <2>3, SeqEqual
<1> QED
  BY <1>1, <1>4, <1>5, <1>6, <1>7 DEF p, q, r

LEMMA FlattenTwo ==
  ASSUME NEW T, NEW s \in Seq(T), NEW t \in Seq(T)
  PROVE  FlattenSeq(<<s, t>>) = s \o t /\ <<s, t>> \in Seq(Seq(T))
<1> DEFINE S == Seq(T)
<1>1. <<s>> \in Seq(S) /\ FlattenSeq(<<s>>) = s
  BY FlattenOne
<1>2. s \in S /\ t \in S
  OBVIOUS
<1> HIDE DEF S
<1>3. Append(<<s>>, t) = <<s, t>> /\ <<s, t>> \in Seq(S)
  BY <1>2, Pair
<1>4. FlattenSeq(Append(<<s>>, t)) = FlattenSeq(<<s>>) \o t
  BY <1>1, FlattenAppend DEF S
<1> QED
  BY <1>1, <1>3, <1>4 DEF S

(* A lone event: its transactions, in one block or two. *)
LEMMA ReplayedOne ==
  ASSUME NEW e, e.kind \in Kinds, e.name \in STRING
  PROVE  Replayed(e) \in Seq(Root) /\ FlattenSeq(Replayed(e)) = Transactions(e)
<1>1. Transactions(e) \in Seq(Transaction)
  BY TransactionsType DEF Root
<1>2. CASE e.kind = "withdrawal"
  <2> DEFINE p == PreloadL2ToL1Entry(e)
             o == OriginalTransaction(e)
  <2>1. Transactions(e) = <<p, o>>
    BY <1>2 DEF Transactions
  <2>2. p \in Transaction /\ o \in Transaction
    BY DEF PreloadL2ToL1Entry, OriginalTransaction, Transaction
  <2> HIDE DEF p, o
  <2>3. SubSeq(<<p, o>>, 1, 1) = <<p>> /\ SubSeq(<<p, o>>, 2, 2) = <<o>> /\ <<p>> \o <<o>> = <<p, o>>
    BY <2>2, Pair
  <2>4. Replayed(e) = <<<<p>>, <<o>>>>
    BY <1>2, <2>1, <2>3 DEF Replayed
  <2>5. <<p>> \in Seq(Transaction) /\ <<o>> \in Seq(Transaction)
    BY <2>2, Single
  <2> DEFINE u == <<p>>
             v == <<o>>
  <2>6. u \in Seq(Transaction) /\ v \in Seq(Transaction)
    BY <2>5
  <2>7. Replayed(e) = <<u, v>> /\ Transactions(e) = u \o v
    BY <2>1, <2>3, <2>4
  <2> HIDE DEF u, v
  <2>8. FlattenSeq(<<u, v>>) = u \o v /\ <<u, v>> \in Seq(Seq(Transaction))
    BY <2>6, FlattenTwo
  <2> QED
    BY <2>7, <2>8 DEF Root
<1>3. CASE e.kind # "withdrawal"
  BY <1>1, <1>3, FlattenOne DEF Replayed, Root
<1> QED
  BY <1>2, <1>3

(* One transaction each. *)
LEMMA PlainRun ==
  ASSUME NEW es \in Seq(Event), \A i \in 1..Len(es) : es[i].kind \in {"tx", "deploy"}
  PROVE  LET plain == [i \in DOMAIN es |-> OriginalTransaction(es[i])]
         IN plain \in Root /\ TransactionsOf(es) = plain
<1> DEFINE plain == [i \in DOMAIN es |-> OriginalTransaction(es[i])]
           n == Len(es)
<1>1. n \in Nat /\ DOMAIN es = 1..n /\ \A i \in 1..n : es[i].kind \in Kinds /\ es[i].name \in STRING
  BY EventTypes
<1>2. \A i \in 1..n : OriginalTransaction(es[i]) \in Transaction
  BY <1>1 DEF OriginalTransaction, Transaction
<1>3. PICK ts : /\ ts \in Seq(Seq(Transaction)) /\ Len(ts) = n
                /\ \A i \in 1..n : ts[i] = Transactions(es[i])
                /\ TransactionsOf(es) = FlattenSeq(ts)
  BY TransactionsOfType
<1>4. \A i \in 1..n : Transactions(es[i]) = <<OriginalTransaction(es[i])>>
  BY DEF Transactions
<1> HIDE DEF n
<1>5. [i \in 1..n |-> OriginalTransaction(es[i])] \in Seq(Transaction)
  BY <1>1, <1>2, IsASeq
<1>6. plain = [i \in 1..n |-> OriginalTransaction(es[i])]
  BY <1>1
<1>7. plain \in Seq(Transaction) /\ DOMAIN plain = 1..n /\ \A i \in 1..n : plain[i] = OriginalTransaction(es[i])
  BY <1>5, <1>6
<1> HIDE DEF plain
<1>8. Len(plain) = n
  BY <1>1, <1>7, LenProperties
<1>9. 0 \in Nat /\ 0 + Len(plain) <= Len(ts)
  BY <1>1, <1>3, <1>8
<1>10. ASSUME NEW i \in 1..Len(ts)
       PROVE  ts[i] = IF 0 < i /\ i <= 0 + Len(plain) THEN <<plain[i - 0]>> ELSE <<>>
  <2>1. i \in 1..n /\ 0 < i /\ i <= 0 + Len(plain) /\ i - 0 = i
    BY <1>1, <1>3, <1>8
  <2>2. ts[i] = <<plain[i]>>
    BY <1>3, <1>4, <1>7, <2>1 DEF n
  <2> QED
    BY <2>1, <2>2
<1>11. FlattenSeq(ts) = plain
  BY <1>3, <1>7, <1>9, <1>10, FlattenRun
<1> QED
  BY <1>3, <1>7, <1>11 DEF plain, Root

(* The transactions of a prefix, event by event.                           *)
LEMMA TransactionsOfPrefix ==
  ASSUME NEW es \in Seq(Event), NEW n \in 1..Len(es)
  PROVE  /\ TransactionsOf(SubSeq(es, 1, n)) = TransactionsOf(SubSeq(es, 1, n - 1)) \o Transactions(es[n])
         /\ SubSeq(es, 1, n) \in Seq(Event) /\ SubSeq(es, 1, n - 1) \in Seq(Event)
         /\ TransactionsOf(SubSeq(es, 1, n - 1)) \in Root /\ Transactions(es[n]) \in Root
<1> DEFINE p == SubSeq(es, 1, n)
           q == SubSeq(es, 1, n - 1)
           tp == [i \in DOMAIN p |-> Transactions(p[i])]
           tq == [i \in DOMAIN q |-> Transactions(q[i])]
           t == Transactions(es[n])
           S == Seq(Transaction)
<1>1. p = Append(q, es[n]) /\ q \in Seq(Event) /\ p \in Seq(Event) /\ es[n] \in Event
  BY PrefixAppend
<1>2. t \in S
  BY EventTypes, TransactionsType DEF Root
<1> HIDE DEF p, q
<1>3. Len(p) = Len(q) + 1 /\ Len(q) \in Nat /\ p[Len(q) + 1] = es[n] /\ \A i \in 1..Len(q) : p[i] = q[i]
  BY <1>1, AppendProperties, LenProperties
<1>4. /\ tp \in Seq(S) /\ Len(tp) = Len(p) /\ \A i \in 1..Len(p) : tp[i] = Transactions(p[i])
      /\ TransactionsOf(p) = FlattenSeq(tp)
  BY <1>1, TransactionsOfType
<1>5. /\ tq \in Seq(S) /\ Len(tq) = Len(q) /\ \A i \in 1..Len(q) : tq[i] = Transactions(q[i])
      /\ TransactionsOf(q) = FlattenSeq(tq) /\ TransactionsOf(q) \in Root
  BY <1>1, TransactionsOfType
<1>6. t = Transactions(es[n])
  OBVIOUS
<1> HIDE DEF tp, tq, t, S
<1>7. /\ Append(tq, t) \in Seq(S) /\ Len(Append(tq, t)) = Len(q) + 1
      /\ Append(tq, t)[Len(q) + 1] = t /\ \A i \in 1..Len(q) : Append(tq, t)[i] = tq[i]
  BY <1>2, <1>5, AppendProperties
<1>8. ASSUME NEW i \in 1..Len(tp) PROVE tp[i] = Append(tq, t)[i]
  <2>1. CASE i = Len(q) + 1
    BY <1>3, <1>4, <1>6, <1>7, <2>1
  <2>2. CASE i # Len(q) + 1
    <3>1. i \in 1..Len(q) /\ i \in 1..Len(p)
      BY <1>3, <1>4, <2>2
    <3> QED
      BY <1>3, <1>4, <1>5, <1>7, <3>1
  <2> QED
    BY <2>1, <2>2
<1>9. tp = Append(tq, t)
  BY <1>3, <1>4, <1>7, <1>8, SeqEqual
<1>10. FlattenSeq(Append(tq, t)) = FlattenSeq(tq) \o t
  BY <1>2, <1>5, FlattenAppend DEF S
<1> QED
  BY <1>1, <1>2, <1>4, <1>5, <1>6, <1>9, <1>10 DEF p, q, S, Root

(* A batch in the order in which it is replayed. *)
Ordered(es) ==
    LET m == Len(es)
    IN /\ \A i \in 1..(m - 1) : es[i].kind \in {"tx", "deploy"}
       /\ es[m].kind \in {"tx", "deploy", "withdrawal"}
       /\ es[m].kind = "withdrawal" =>
             \E d \in 1..(m - 1) : \A k \in 1..(m - 1) : es[k].kind = "deploy" <=> k <= d

(* In that order, the blocks of replayBatchExecution hold the transactions *)
(* of the events, in their order.                                          *)
LEMMA BatchReplays ==
  ASSUME NEW es \in Seq(Event), es # <<>>, Ordered(es)
  PROVE  /\ BatchBlocks(es) \in Seq(Root) /\ BatchBlocks(es) # <<>>
         /\ FlattenSeq(BatchBlocks(es)) = TransactionsOf(es)
<1>0. PICK m \in Nat \ {0} : m = Len(es)
  BY EventTypes, EmptySeq
<1> DEFINE Plain(x) == [i \in DOMAIN x |-> OriginalTransaction(x[i])]
           Loads(x) == [i \in DOMAIN x |-> PreloadL2ToL1Entry(x[i])]
           deploys == OfKind(es, {"deploy"})
           withdrawals == OfKind(es, {"withdrawal"})
           others == OfKind(es, {"tx"})
<1>1. /\ m = Len(es) /\ m \in Nat \ {0} /\ DOMAIN es = 1..m
      /\ \A i \in 1..m : es[i].kind \in Kinds /\ es[i].name \in STRING /\ es[i] \in Event
  BY <1>0, EventTypes
<1>2. /\ \A i \in 1..(m - 1) : es[i].kind \in {"tx", "deploy"}
      /\ es[m].kind \in {"tx", "deploy", "withdrawal"}
      /\ es[m].kind = "withdrawal" =>
            \E d \in 1..(m - 1) : \A k \in 1..(m - 1) : es[k].kind = "deploy" <=> k <= d
  BY <1>0 DEF Ordered
<1>3. SubSeq(es, 1, m) = es
  BY <1>0, SubSeqFull
<1>4. Decoded(es) = es
  <2> DEFINE kinds == Kinds \ {"call"}
  <2>1. ASSUME NEW i \in 1..m PROVE es[i].kind \in kinds
    <3>1. i \in 1..(m - 1) \/ i = m
      BY <1>1
    <3>2. es[i].kind \in {"tx", "deploy", "withdrawal"}
      BY <1>2, <3>1
    <3> QED
      BY <3>2 DEF Kinds
  <2> HIDE DEF kinds
  <2>2. \A i \in 1..Len(es) : es[i].kind \in kinds <=> 0 < i /\ i <= m
    BY <1>1, <2>1
  <2>3. 0 \in Nat /\ m \in Nat /\ 0 <= m /\ m <= Len(es)
    BY <1>1
  <2>4. OfKind(es, kinds) = SubSeq(es, 0 + 1, m)
    BY <2>2, <2>3, OfKindRun
  <2>5. 0 + 1 = 1
    OBVIOUS
  <2> QED
    BY <1>3, <2>4, <2>5 DEF Decoded, kinds
<1>5. BatchBlocks(es) =
         IF withdrawals = <<>> THEN <<Plain(es)>>
         ELSE (IF deploys = <<>> THEN <<>> ELSE <<Plain(deploys \o others)>>)
                 \o <<Loads(withdrawals), Plain(withdrawals)>>
  BY <1>4, Zenon DEF BatchBlocks
<1>6. CASE es[m].kind # "withdrawal"
  <2>1. withdrawals = <<>>
    <3>1. ASSUME NEW i \in 1..Len(es) PROVE es[i].kind \in {"withdrawal"} <=> 0 < i /\ i <= 0
      <4>1. i \in 1..(m - 1) \/ i = m
        BY <1>1
      <4> QED
        BY <1>2, <1>6, <4>1
    <3>2. 0 \in Nat /\ 0 <= 0 /\ 0 <= Len(es)
      BY <1>1
    <3>3. withdrawals = SubSeq(es, 0 + 1, 0)
      BY <3>1, <3>2, OfKindRun
    <3> QED
      BY <3>3, NoPrefix
  <2>2. \A i \in 1..Len(es) : es[i].kind \in {"tx", "deploy"}
    <3>1. ASSUME NEW i \in 1..Len(es) PROVE i \in 1..(m - 1) \/ i = m
      BY <1>1
    <3> QED
      BY <1>2, <1>6, <3>1
  <2>3. Plain(es) \in Root /\ TransactionsOf(es) = Plain(es)
    BY <2>2, PlainRun
  <2>4. BatchBlocks(es) = <<Plain(es)>>
    BY <1>5, <2>1
  <2> DEFINE s == Plain(es)
  <2> HIDE DEF s
  <2>5. FlattenSeq(<<s>>) = s /\ <<s>> \in Seq(Root) /\ <<s>> # <<>>
    BY <2>3, FlattenOne DEF s, Root
  <2> QED
    BY <2>3, <2>4, <2>5 DEF s
<1>7. CASE es[m].kind = "withdrawal"
  <2>1. PICK d \in 1..(m - 1) : \A k \in 1..(m - 1) : es[k].kind = "deploy" <=> k <= d
    BY <1>2, <1>7
  <2>2. m - 1 \in Nat /\ d \in Nat /\ d + 1 \in Nat /\ d <= m - 1 /\ m - 1 <= Len(es) /\ d <= Len(es) /\ m <= Len(es)
    BY <1>1
  <2>3. deploys = SubSeq(es, 1, d)
    <3>1. ASSUME NEW i \in 1..Len(es) PROVE es[i].kind \in {"deploy"} <=> 0 < i /\ i <= d
      <4>1. i \in 1..(m - 1) \/ (i = m /\ ~(i <= d))
        BY <1>1, <2>2
      <4>2. 0 < i
        OBVIOUS
      <4> QED
        BY <1>7, <2>1, <4>1, <4>2
    <3>2. 0 \in Nat /\ 0 <= d
      BY <2>2
    <3>3. deploys = SubSeq(es, 0 + 1, d)
      BY <2>2, <3>1, <3>2, OfKindRun
    <3>4. 0 + 1 = 1
      OBVIOUS
    <3> QED
      BY <3>3, <3>4
  <2>4. others = SubSeq(es, d + 1, m - 1)
    <3>1. ASSUME NEW i \in 1..Len(es) PROVE es[i].kind \in {"tx"} <=> d < i /\ i <= m - 1
      <4>1. CASE i = m
        BY <1>1, <1>7, <4>1
      <4>2. CASE i # m
        <5>1. i \in 1..(m - 1) /\ i <= m - 1 /\ (d < i <=> ~(i <= d))
          BY <1>1, <2>2, <4>2
        <5>2. es[i].kind \in {"tx", "deploy"} /\ (es[i].kind = "deploy" <=> i <= d)
          BY <1>2, <2>1, <5>1
        <5> QED
          BY <5>1, <5>2
      <4> QED
        BY <4>1, <4>2
    <3> QED
      BY <2>2, <3>1, OfKindRun
  <2>5. withdrawals = <<es[m]>>
    <3>1. ASSUME NEW i \in 1..Len(es) PROVE es[i].kind \in {"withdrawal"} <=> m - 1 < i /\ i <= m
      <4>1. CASE i = m
        BY <1>1, <1>7, <4>1
      <4>2. CASE i # m
        <5>1. i \in 1..(m - 1) /\ ~(m - 1 < i)
          BY <1>1, <4>2
        <5> QED
          BY <1>2, <5>1
      <4> QED
        BY <4>1, <4>2
    <3>2. m - 1 <= m /\ m \in Nat
      BY <1>1
    <3>3. withdrawals = SubSeq(es, (m - 1) + 1, m)
      BY <2>2, <3>1, <3>2, OfKindRun
    <3>4. (m - 1) + 1 = m /\ m \in 1..Len(es) /\ m \in Int
      BY <1>1
    <3>5. /\ SubSeq(es, m, m) \in Seq(Event) /\ Len(SubSeq(es, m, m)) = 1 /\ SubSeq(es, m, m)[1] = es[m]
      <4>1. \A i \in m..m : es[i] \in Event
        BY <1>1
      <4>2. m - m + 1 = 1 /\ m + 1 - 1 = m /\ m <= m
        BY <1>1
      <4>3. /\ SubSeq(es, m, m) \in Seq(Event)
            /\ Len(SubSeq(es, m, m)) = IF m <= m THEN m - m + 1 ELSE 0
            /\ \A i \in 1..(m - m + 1) : SubSeq(es, m, m)[i] = es[m + i - 1]
        BY <3>4, <4>1, SubSeqProperties
      <4> QED
        BY <4>2, <4>3
    <3>6. <<es[m]>> \in Seq(Event) /\ Len(<<es[m]>>) = 1 /\ <<es[m]>>[1] = es[m]
      BY <1>1, Single
    <3>7. \A i \in 1..1 : SubSeq(es, m, m)[i] = <<es[m]>>[i]
      BY <3>5, <3>6
    <3>8. SubSeq(es, m, m) = <<es[m]>>
      <4> DEFINE x == SubSeq(es, m, m)
                 y == <<es[m]>>
      <4>1. /\ x \in Seq(Event) /\ y \in Seq(Event) /\ Len(x) = 1 /\ Len(y) = 1
            /\ \A i \in 1..1 : x[i] = y[i]
        BY <3>5, <3>6, <3>7
      <4> HIDE DEF x, y
      <4>2. x = y
        BY <4>1, SeqEqual
      <4> QED
        BY <4>2 DEF x, y
    <3> QED
      BY <3>3, <3>4, <3>8
  <2> DEFINE q == SubSeq(es, 1, m - 1)
             w == es[m]
             p == PreloadL2ToL1Entry(w)
             o == OriginalTransaction(w)
  <2>6. deploys \o others = q
    <3>1. 1 \in 1..(Len(es) + 1) /\ d \in (1 - 1)..Len(es) /\ m - 1 \in d..Len(es)
      BY <1>1, <2>2
    <3>2. SubSeq(es, 1, d) \o SubSeq(es, d + 1, m - 1) = SubSeq(es, 1, m - 1)
      BY <3>1, ConcatAdjacentSubSeq
    <3> QED
      BY <2>3, <2>4, <3>2
  <2>7. deploys # <<>>
    <3>1. \A i \in 1..d : es[i] \in Event
      BY <1>1, <2>2
    <3>2. Len(SubSeq(es, 1, d)) = d
      BY <2>2, <3>1, SubSeqProperties
    <3> QED
      BY <2>3, <3>2, EmptySeq
  <2>8. q \in Seq(Event) /\ Len(q) = m - 1 /\ \A i \in 1..(m - 1) : q[i] = es[i]
    <3>1. \A i \in 1..(m - 1) : es[i] \in Event
      BY <1>1, <2>2
    <3> QED
      BY <1>1, <2>2, <3>1, SubSeqProperties
  <2>9. Plain(q) \in Root /\ TransactionsOf(q) = Plain(q)
    BY <1>2, <2>8, PlainRun
  <2>10. Loads(<<w>>) = <<p>> /\ Plain(<<w>>) = <<o>>
    OBVIOUS
  <2>11. p \in Transaction /\ o \in Transaction /\ Transactions(w) = <<p, o>>
    BY <1>1, <1>7 DEF PreloadL2ToL1Entry, OriginalTransaction, Transaction, Transactions
  <2>12. BatchBlocks(es) = <<Plain(q)>> \o <<<<p>>, <<o>>>>
    <3>1. withdrawals # <<>>
      BY <2>5
    <3> HIDE DEF withdrawals, deploys, others, Plain, Loads
    <3>2. BatchBlocks(es) = <<Plain(deploys \o others)>> \o <<Loads(withdrawals), Plain(withdrawals)>>
      BY <1>5, <2>7, <3>1
    <3> QED
      BY <2>5, <2>6, <2>10, <3>2, Zenon
  <2>13. TransactionsOf(es) = TransactionsOf(q) \o <<p, o>>
    <3>1. m \in 1..Len(es)
      BY <1>1
    <3> QED
      BY <1>3, <2>11, <3>1, TransactionsOfPrefix
  <2> DEFINE s == Plain(q)
             S == Seq(Transaction)
  <2> HIDE DEF p, o, q, s, w
  <2>14. s \in S /\ <<p>> \in S /\ <<o>> \in S /\ <<p>> \o <<o>> = <<p, o>>
    BY <2>9, <2>11, Single, Pair DEF s, Root
  <2>15. FlattenSeq(<<s>>) = s /\ FlattenSeq(<<<<p>>, <<o>>>>) = <<p, o>>
    <3> DEFINE p1 == <<p>>
               o1 == <<o>>
    <3>1. p1 \in S /\ o1 \in S /\ p1 \o o1 = <<p, o>>
      BY <2>14
    <3> HIDE DEF p1, o1
    <3>2. FlattenSeq(<<p1, o1>>) = p1 \o o1
      BY <3>1, FlattenTwo
    <3>3. FlattenSeq(<<s>>) = s
      BY <2>14, FlattenOne
    <3> QED
      BY <3>1, <3>2, <3>3 DEF p1, o1
  <2> DEFINE u == <<s>>
             v == <<<<p>>, <<o>>>>
  <2>16. u \in Seq(S) /\ v \in Seq(S) /\ u # <<>>
    BY <2>14, FlattenOne, FlattenTwo
  <2> HIDE DEF S, u, v
  <2>17. FlattenSeq(u \o v) = FlattenSeq(u) \o FlattenSeq(v)
    BY <2>16, FlattenConcat DEF S
  <2>18. u \o v \in Seq(S) /\ u \o v # <<>>
    BY <2>16, ConcatProperties, ConcatEqualIffEmpty
  <2> QED
    BY <2>9, <2>12, <2>13, <2>15, <2>17, <2>18 DEF s, u, v, S, Root
<1> QED
  BY <1>6, <1>7

-----------------------------------------------------------------------------
(* What L1 may put into a block, for the node to follow it to the letter.  *)

Changes(kind) == kind # "accounting"

Together(kinds, i, j) == \A k \in i..j : kinds[k] # "update"

(* A batch is replayed in the order of its events only if it neither       *)
(* withdraws twice nor has anything after a withdrawal, and if one that    *)
(* withdraws starts with deployments, which its transactions then follow.  *)
DeploysFirst(kinds, j) ==
    \E d \in 1..(j - 1) :
        /\ Together(kinds, d, j)
        /\ \A k \in 1..(j - 1) : Together(kinds, k, j) => (kinds[k] = "deploy" <=> k <= d)

BatchInOrder(kinds) ==
    \A i, j \in DOMAIN kinds :
        i < j /\ Together(kinds, i, j) /\ Changes(kinds[i]) /\ Changes(kinds[j]) =>
           /\ kinds[i] \in {"tx", "deploy"}
           /\ kinds[j] \in {"tx", "deploy", "withdrawal"}
           /\ kinds[j] = "withdrawal" => DeploysFirst(kinds, j)

(* A transaction is signed for one nonce.                                  *)
SignedOnce(payload) ==
    \A i, j \in DOMAIN payload :
        i < j /\ payload[j].kind \in Signed => payload[i] # payload[j]

(* The payloads whose batches come out of replayBatchExecution in order.   *)
PayloadsReplay ==
    \A payload \in Payloads : BatchInOrder(KindsOf(payload)) /\ SignedOnce(payload)

-----------------------------------------------------------------------------
(* The roots of L1. *)

BlockDerives(root, events) == Leads(events, root) /\ BatchInOrder(KindsOf(events))

(* All that is in a root is about an event before it. *)
Named(b, n) ==
    \A t \in ToSet(RootAt(b, n)) :
        \E m \in 1..n : \E i \in DOMAIN b[m].events : b[m].events[i].name = t.name

(* Every block of b starts from the root of those before it.               *)
ChainDerives(b) ==
    \A n \in 1..Len(b) : BlockDerives(RootAt(b, n - 1), b[n].events) /\ Named(b, n)

(* The transactions of an event depend on its kind and its name alone.     *)
LEMMA SameTransactions ==
  ASSUME NEW e, NEW p, e.kind = p.kind, e.name = p.name, NEW root
  PROVE  /\ Transactions(e) = Transactions(p) /\ RootAfter(root, e) = RootAfter(root, p)
         /\ OriginalTransaction(e) = OriginalTransaction(p)
<1>1. /\ OriginalTransaction(e) = OriginalTransaction(p)
      /\ PreloadL2ToL1Entry(e) = PreloadL2ToL1Entry(p) /\ IncomingCall(e) = IncomingCall(p)
  BY DEF OriginalTransaction, PreloadL2ToL1Entry, IncomingCall
<1>2. Transactions(e) = Transactions(p)
  BY <1>1 DEF Transactions
<1> QED
  BY <1>1, <1>2 DEF RootAfter

(* A root that the owner has never set is made of transactions only. *)
LEMMA MadeAfterWhole ==
  ASSUME NEW root \in Root, Made(root) = root, NEW e, e.kind \in Kinds, e.name \in STRING,
         e.kind # "update"
  PROVE  Made(RootAfter(root, e)) = RootAfter(root, e)
<1>1. Made(RootAfter(root, e)) = Made(root) \o Transactions(e)
  BY MadeAfter
<1> QED
  BY <1>1 DEF RootAfter

(* What a payload adds to a root. *)
Adds(payload, n, t) ==
    \E j \in 1..n : t.name = payload[j].name /\ t.kind \in {payload[j].kind, "preload"}

(* The events that L1 emits for a payload start from the root, each from   *)
(* where the last one ended, and what they add bears their names.          *)
LEMMA EmittedDerive ==
  ASSUME PayloadsReplay, NEW root \in Root, NEW payload \in Payloads,
         \A i \in DOMAIN payload : payload[i].kind \in Signed =>
             \A t \in ToSet(root) : t.name # payload[i].name,
         NoUpdates => Made(root) = root
  PROVE  LET events == Emitted(root, payload)
         IN /\ Leads(events, root) /\ BatchInOrder(KindsOf(events))
            /\ \A n \in 1..Len(events) : \A t \in ToSet(events[n].newState) :
                  t \in ToSet(root) \/ Adds(payload, n, t)
<1> DEFINE events == Emitted(root, payload)
           N == Len(payload)
           Before(i) == IF i = 1 THEN root ELSE events[i - 1].newState
<1>1. /\ payload \in Seq(Item) /\ N \in Nat /\ DOMAIN payload = 1..N
      /\ \A i \in 1..N : payload[i] \in Item /\ payload[i].kind \in Kinds /\ payload[i].name \in STRING
  <2>1. payload \in Seq(Item)
    BY ProcessorConstants DEF Item
  <2>2. N \in Nat /\ DOMAIN payload = 1..N /\ \A i \in 1..N : payload[i] \in Item
    BY <2>1, LenProperties, ElementOfSeq
  <2> QED
    BY <2>1, <2>2 DEF Item
<1>2. /\ events \in Seq(Event) /\ Len(events) = N
      /\ \A i \in 1..N : /\ events[i].kind = payload[i].kind
                         /\ events[i] = EventFrom(Before(i), payload[i])
  BY <1>1, EmittedEvents
<1>3. DOMAIN events = 1..N /\ \A i \in 1..N : events[i] \in Event
  BY <1>2, EventTypes
<1> HIDE DEF events, N
<1>4. ASSUME NEW i \in 1..N
      PROVE  /\ events[i].currentState = Before(i) /\ events[i].name = payload[i].name
             /\ events[i].newState = RootAfter(Before(i), payload[i])
             /\ events[i].newState = RootAfter(events[i].currentState, events[i])
             /\ OriginalTransaction(events[i]) = OriginalTransaction(payload[i])
             /\ events[i].newState \in Root
  <2> DEFINE r == Before(i)
             e == events[i]
             p == payload[i]
  <2>1. e = EventFrom(r, p) /\ e \in Event
    BY <1>2, <1>3
  <2> HIDE DEF r, e, p
  <2>2. e.kind = p.kind /\ e.name = p.name /\ e.currentState = r /\ e.newState = RootAfter(r, p)
    BY <2>1 DEF EventFrom
  <2>3. RootAfter(r, e) = RootAfter(r, p) /\ OriginalTransaction(e) = OriginalTransaction(p)
    BY <2>2, SameTransactions
  <2>4. e.newState \in Root
    BY <2>1 DEF Event
  <2> QED
    BY <2>2, <2>3, <2>4 DEF r, e, p
<1> DEFINE Known(r, n) == \A t \in ToSet(r) : t \in ToSet(root) \/ Adds(payload, n, t)
           Good(n) == /\ Before(n + 1) \in Root /\ Known(Before(n + 1), n)
                      /\ NoUpdates => Made(Before(n + 1)) = Before(n + 1)
           A == {n \in Nat : n <= N => Good(n)}
<1>5. 0 \in A
  <2>1. Before(0 + 1) = root
    OBVIOUS
  <2> HIDE DEF Before
  <2> QED
    BY <2>1
<1>6. ASSUME NEW n \in A PROVE n + 1 \in A
  <2> SUFFICES ASSUME n + 1 <= N PROVE Good(n + 1)
    BY <1>6
  <2> DEFINE m == n + 1
             r == Before(m)
             s == Before(m + 1)
             p == payload[m]
  <2>1. n \in Nat /\ m \in 1..N /\ Good(n) /\ m = n + 1
    BY <1>1, <1>6
  <2>2. s = events[m].newState
    BY <2>1
  <2>3. s = RootAfter(r, p) /\ s \in Root
    BY <1>4, <2>1, <2>2
  <2>4. p.kind \in Kinds /\ p.name \in STRING /\ p \in Item
    BY <1>1, <2>1
  <2>5. r \in Root /\ Known(r, n) /\ (NoUpdates => Made(r) = r)
    BY <2>1
  <2>6. NoUpdates => p.kind # "update"
    BY <1>1, <2>1 DEF NoUpdates
  <2> HIDE DEF Before, m
  <2> HIDE DEF r, s, p
  <2>7. NoUpdates => Made(s) = s
    BY <2>3, <2>4, <2>5, <2>6, MadeAfterWhole
  <2>8. \A t \in ToSet(s) : t \in ToSet(r) \/ (t.name = p.name /\ t.kind \in {p.kind, "preload"})
    BY <2>3, <2>4, <2>5, RootAfterElements
  <2>9. Known(s, m)
    <3> SUFFICES ASSUME NEW t \in ToSet(s), t \notin ToSet(root) PROVE Adds(payload, m, t)
      OBVIOUS
    <3>1. CASE t \in ToSet(r)
      <4>1. Adds(payload, n, t)
        BY <2>5, <3>1
      <4> QED
        BY <2>1, <4>1 DEF Adds
    <3>2. CASE t.name = p.name /\ t.kind \in {p.kind, "preload"}
      <4>1. m \in 1..m
        BY <1>1, <2>1
      <4> QED
        BY <3>2, <4>1 DEF Adds, p
    <3> QED
      BY <2>8, <3>1, <3>2
  <2> HIDE DEF Known
  <2>10. Good(m)
    BY <2>3, <2>7, <2>9 DEF s
  <2> QED
    BY <2>10 DEF m
<1> HIDE DEF Good
<1>7. A = Nat
  <2>1. A \in SUBSET Nat
    OBVIOUS
  <2> HIDE DEF A
  <2> QED
    BY <1>5, <1>6, <2>1, NatSetInduction
<1>8. \A n \in 0..N : Good(n)
  BY <1>1, <1>7
<1>9. Leads(events, root)
  <2> SUFFICES ASSUME NEW i \in 1..N PROVE events[i].currentState = Before(i) /\ EventDerives(events[i])
    BY <1>2 DEF Leads
  <2> DEFINE n == i - 1
             p == payload[i]
  <2>1. n \in 0..N /\ n + 1 = i /\ i \in 0..N /\ n \in Nat /\ i \in Nat
    BY <1>1
  <2>2. Known(Before(i), n)
    BY <1>8, <2>1 DEF Good
  <2>3. NoUpdates => Made(events[i].newState) = events[i].newState
    <3>1. Before(i + 1) = events[i].newState
      BY <2>1
    <3>2. Good(i)
      BY <1>8, <2>1
    <3> QED
      BY <3>1, <3>2 DEF Good
  <2>4. ASSUME p.kind \in Signed PROVE OriginalTransaction(p) \notin ToSet(Before(i))
    <3> DEFINE t == OriginalTransaction(p)
    <3> SUFFICES ASSUME t \in ToSet(Before(i)) PROVE FALSE
      OBVIOUS
    <3>1. t.kind = p.kind /\ t.name = p.name
      BY DEF OriginalTransaction
    <3>2. t \notin ToSet(root)
      BY <1>1, <2>4, <3>1
    <3> HIDE DEF t, n
    <3>3. Adds(payload, n, t)
      BY <2>2, <3>2
    <3>4. PICK j \in 1..n : t.name = payload[j].name /\ t.kind \in {payload[j].kind, "preload"}
      BY <3>3 DEF Adds
    <3>5. j \in 1..N /\ j < i
      BY <1>1, <2>1, <3>4
    <3>6. payload[j].kind = p.kind /\ payload[j].name = p.name
      BY <2>4, <3>1, <3>4 DEF Signed
    <3>7. payload[j] = p
      <4>1. payload[j] \in Item /\ p \in Item
        BY <1>1, <3>5
      <4> QED
        BY <3>6, <4>1 DEF Item
    <3>8. payload[j] # payload[i]
      BY <1>1, <2>4, <3>5 DEF PayloadsReplay, SignedOnce
    <3> QED
      BY <3>7, <3>8
  <2> HIDE DEF Before
  <2>5. events[i].kind \in Signed => OriginalTransaction(events[i]) \notin ToSet(events[i].currentState)
    BY <1>2, <1>4, <2>4
  <2> QED
    BY <1>4, <2>3, <2>5 DEF EventDerives
<1>10. BatchInOrder(KindsOf(events))
  <2>1. KindsOf(events) = KindsOf(payload)
    <3>1. \A i \in 1..N : events[i].kind = payload[i].kind
      BY <1>2
    <3> QED
      BY <1>1, <1>3, <3>1 DEF KindsOf
  <2> QED
    BY <2>1 DEF PayloadsReplay
<1>11. ASSUME NEW n \in 1..N, NEW t \in ToSet(events[n].newState)
       PROVE  t \in ToSet(root) \/ Adds(payload, n, t)
  <2>1. Before(n + 1) = events[n].newState /\ n \in 0..N
    BY <1>1
  <2>2. Good(n)
    BY <1>8, <2>1
  <2> QED
    BY <1>11, <2>1, <2>2 DEF Good
<1> QED
  BY <1>2, <1>9, <1>10, <1>11 DEF events

(* The root before the first block is empty.                               *)
LEMMA NothingNamed ==
  ASSUME NEW b \in Seq(Block)
  PROVE  RootAt(b, 0) = <<>> /\ ToSet(RootAt(b, 0)) = {} /\ Named(b, 0)
<1>1. RootAt(b, 0) = <<>>
  BY RootOfNothing DEF RootAt
<1>2. ToSet(<<>>) = {}
  BY EmptySeq DEF ToSet
<1> QED
  BY <1>1, <1>2 DEF Named

(* Chains that share their first blocks share the roots there.             *)
LEMMA SameRoots ==
  ASSUME NEW b \in Seq(Block), NEW c \in Seq(Block), NEW k \in 0..Len(b), k <= Len(c),
         \A i \in 1..k : b[i] = c[i]
  PROVE  \A n \in 0..k : RootAt(c, n) = RootAt(b, n) /\ (Named(b, n) => Named(c, n))
<1> SUFFICES ASSUME NEW n \in 0..k
             PROVE  RootAt(c, n) = RootAt(b, n) /\ (Named(b, n) => Named(c, n))
  OBVIOUS
<1>1. Len(b) \in Nat /\ Len(c) \in Nat
  BY LenProperties
<1>2. n \in 0..Len(b) /\ n <= Len(c) /\ \A i \in 1..n : b[i] = c[i]
  BY <1>1
<1>3. RootAt(c, n) = RootAt(b, n)
  BY <1>2, SamePrefix DEF RootAt
<1> QED
  BY <1>2, <1>3 DEF Named

(* Blocks of a chain that another chain has too. *)
LEMMA SharedDerive ==
  ASSUME NEW b \in Seq(Block), NEW c \in Seq(Block), NEW k \in 0..Len(b), k <= Len(c),
         \A i \in 1..k : b[i] = c[i], ChainDerives(b)
  PROVE  \A n \in 1..k : BlockDerives(RootAt(c, n - 1), c[n].events) /\ Named(c, n)
<1> SUFFICES ASSUME NEW n \in 1..k
             PROVE  BlockDerives(RootAt(c, n - 1), c[n].events) /\ Named(c, n)
  OBVIOUS
<1> DEFINE m == n - 1
<1>1. Len(b) \in Nat /\ n \in 1..Len(b) /\ m \in 0..k /\ n \in 0..k
  BY LenProperties
<1>2. BlockDerives(RootAt(b, m), b[n].events) /\ Named(b, n)
  BY <1>1 DEF ChainDerives
<1> HIDE DEF m
<1>3. RootAt(c, m) = RootAt(b, m) /\ Named(c, n)
  BY <1>1, <1>2, SameRoots
<1>4. BlockDerives(RootAt(c, m), c[n].events)
  BY <1>2, <1>3
<1> QED
  BY <1>3, <1>4 DEF m

(* A part of such a chain is one.                                          *)
LEMMA PrefixDerives ==
  ASSUME NEW b \in Seq(Block), ChainDerives(b), NEW k \in 0..Len(b)
  PROVE  ChainDerives(SubSeq(b, 1, k))
<1> DEFINE c == SubSeq(b, 1, k)
<1>1. c \in Seq(Block) /\ Len(c) = k /\ \A i \in 1..k : b[i] = c[i]
  BY PrefixTypes
<1>2. k <= k
  BY LenProperties
<1> HIDE DEF c
<1>3. \A n \in 1..k : BlockDerives(RootAt(c, n - 1), c[n].events) /\ Named(c, n)
  BY <1>1, <1>2, SharedDerive
<1> QED
  BY <1>1, <1>3 DEF ChainDerives, c

(* The root of a chain in which the owner sets none is made of            *)
(* transactions.                                                           *)
LEMMA RootMade ==
  ASSUME NEW b \in Seq(Block), ChainDerives(b), NoUpdates, NEW n \in 0..Len(b)
  PROVE  Made(RootAt(b, n)) = RootAt(b, n)
<1> DEFINE A == {k \in Nat : k <= Len(b) => Made(RootAt(b, k)) = RootAt(b, k)}
<1>1. Len(b) \in Nat
  BY LenProperties
<1>2. 0 \in A
  BY NothingNamed, MadeNothing
<1>3. ASSUME NEW k \in A PROVE k + 1 \in A
  <2> SUFFICES ASSUME k + 1 <= Len(b) PROVE Made(RootAt(b, k + 1)) = RootAt(b, k + 1)
    BY <1>3
  <2> DEFINE m == k + 1
             events == b[m].events
  <2>1. m \in 1..Len(b) /\ m - 1 = k /\ Made(RootAt(b, k)) = RootAt(b, k)
    BY <1>1, <1>3
  <2>2. events \in Seq(Event)
    BY <2>1, BlockTypes
  <2>3. Leads(events, RootAt(b, k))
    BY <2>1 DEF ChainDerives, BlockDerives
  <2> HIDE DEF m
  <2>4. RootAt(b, m) = IF events = <<>> THEN RootAt(b, k) ELSE Last(events).newState
    BY <2>1, RootOfPrefix DEF RootAt
  <2> HIDE DEF events
  <2>5. CASE events = <<>>
    BY <2>1, <2>4, <2>5 DEF m
  <2>6. CASE events # <<>>
    <3>1. Len(events) \in 1..Len(events) /\ Last(events) = events[Len(events)]
      BY <2>2, <2>6, LastEvent
    <3>2. Made(events[Len(events)].newState) = events[Len(events)].newState
      BY <2>3, <3>1 DEF Leads, EventDerives
    <3> QED
      BY <2>4, <2>6, <3>1, <3>2 DEF m
  <2> QED
    BY <2>5, <2>6
<1>4. A = Nat
  <2>1. A \in SUBSET Nat
    OBVIOUS
  <2> HIDE DEF A
  <2> QED
    BY <1>2, <1>3, <2>1, NatSetInduction
<1> QED
  BY <1>1, <1>4

(* A block that is appended follows on: its signed transactions are fresh, *)
(* and so in no root before it.                                            *)
LEMMA WithBlockDerives ==
  ASSUME AccountingComesLast, PayloadsReplay, NEW b \in Seq(Block), ChainDerives(b),
         NEW gen \in Nat, NEW payload \in Payloads, Fresh(b, payload)
  PROVE  ChainDerives(WithBlock(b, gen, payload))
<1> DEFINE c == WithBlock(b, gen, payload)
           N == Len(b)
           M == N + 1
           root == RootAt(b, N)
           events == Emitted(root, payload)
           L == Len(payload)
<1>1. /\ c \in Seq(Block) /\ Len(c) = M /\ N \in Nat /\ \A i \in 1..N : b[i] = c[i]
  BY WithBlockChain
<1>2. root = L1RootOf(b) /\ root \in Root
  <2>1. SubSeq(b, 1, N) = b
    BY SubSeqFull
  <2> QED
    BY <2>1, RootType DEF RootAt
<1>3. payload \in Seq(Item) /\ L \in Nat /\ DOMAIN payload = 1..L
  <2>1. payload \in Seq(Item)
    BY ProcessorConstants DEF Item
  <2> QED
    BY <2>1, LenProperties
<1>4. c[M].events = events
  <2> DEFINE x == [gen |-> gen, events |-> events]
  <2>1. c = Append(b, x)
    BY <1>2 DEF WithBlock
  <2>2. x.events = events
    OBVIOUS
  <2>3. Append(b, x)[Len(b) + 1] = x
    <3> HIDE DEF x
    <3>1. b \in Seq(Block \cup {x}) /\ x \in Block \cup {x}
      <4>1. b \in [1..Len(b) -> Block] /\ Len(b) \in Nat
        BY LenProperties
      <4> QED
        BY <4>1
    <3> QED
      BY <3>1, AppendProperties
  <2> QED
    BY <2>1, <2>2, <2>3
<1>5. /\ events \in Seq(Event) /\ Len(events) = L /\ DOMAIN events = 1..L
      /\ \A i \in 1..L : events[i].name = payload[i].name
  <2>1. /\ events \in Seq(Event) /\ Len(events) = L
        /\ \A i \in 1..L : events[i] = EventFrom(IF i = 1 THEN root ELSE events[i - 1].newState, payload[i])
    BY <1>2, <1>3, EmittedEvents
  <2> HIDE DEF events
  <2>2. ASSUME NEW i \in 1..L PROVE events[i].name = payload[i].name
    <3> DEFINE r == IF i = 1 THEN root ELSE events[i - 1].newState
    <3>1. events[i] = EventFrom(r, payload[i])
      BY <2>1
    <3> HIDE DEF r
    <3> QED
      BY <3>1 DEF EventFrom
  <2> QED
    BY <2>1, <2>2, EventTypes
<1>6. Named(b, N)
  <2>1. CASE N = 0
    BY <2>1, NothingNamed
  <2>2. CASE N # 0
    BY <1>1, <2>2 DEF ChainDerives
  <2> QED
    BY <2>1, <2>2
<1>7. ASSUME NEW i \in DOMAIN payload, payload[i].kind \in Signed, NEW t \in ToSet(root)
      PROVE  t.name # payload[i].name
  <2>1. PICK m \in 1..N : \E j \in DOMAIN b[m].events : b[m].events[j].name = t.name
    BY <1>6 DEF Named
  <2>2. m \in DOMAIN b /\ payload[i] \in ToSet(payload)
    BY LenProperties DEF ToSet
  <2> QED
    BY <1>7, <2>1, <2>2 DEF Fresh
<1>8. NoUpdates => Made(root) = root
  BY <1>1, RootMade
<1>9. /\ Leads(events, root) /\ BatchInOrder(KindsOf(events))
      /\ \A n \in 1..L : \A t \in ToSet(events[n].newState) : t \in ToSet(root) \/ Adds(payload, n, t)
  BY <1>2, <1>5, <1>7, <1>8, EmittedDerive
<1> HIDE DEF c, events, L
<1>10. RootAt(c, N) = root /\ Named(c, N)
  BY <1>1, <1>6, SameRoots
<1>11. RootAt(c, M) = IF events = <<>> THEN root ELSE Last(events).newState
  <2>1. M \in 1..Len(c) /\ M - 1 = N
    BY <1>1
  <2> HIDE DEF M, root
  <2>2. RootAt(c, M) = IF events = <<>> THEN RootAt(c, N) ELSE Last(events).newState
    BY <1>1, <1>4, <2>1, RootOfPrefix DEF RootAt
  <2> QED
    BY <1>10, <2>2
<1>12. Named(c, M)
  <2> SUFFICES ASSUME NEW t \in ToSet(RootAt(c, M))
               PROVE  \E m \in 1..M : \E i \in DOMAIN c[m].events : c[m].events[i].name = t.name
    BY DEF Named
  <2>1. CASE t \in ToSet(root)
    <3>1. PICK m \in 1..N : \E i \in DOMAIN c[m].events : c[m].events[i].name = t.name
      BY <1>10, <2>1 DEF Named
    <3>2. m \in 1..M
      BY <1>1
    <3> QED
      BY <3>1, <3>2
  <2>2. CASE t \notin ToSet(root)
    <3>1. events # <<>>
      BY <1>11, <2>2
    <3>2. L \in 1..L /\ Last(events) = events[L]
      BY <1>5, <3>1, LastEvent
    <3>3. Adds(payload, L, t)
      BY <1>9, <1>11, <2>2, <3>1, <3>2
    <3>4. PICK j \in 1..L : t.name = payload[j].name
      BY <3>3 DEF Adds
    <3>5. M \in 1..M
      BY <1>1
    <3> QED
      BY <1>4, <1>5, <3>4, <3>5
  <2> QED
    BY <2>1, <2>2
<1>13. \A n \in 1..N : BlockDerives(RootAt(c, n - 1), c[n].events) /\ Named(c, n)
  <2>1. N \in 0..Len(b) /\ N <= Len(c)
    BY <1>1
  <2> QED
    BY <1>1, <2>1, SharedDerive
<1>14. BlockDerives(RootAt(c, M - 1), c[M].events)
  <2>1. M - 1 = N
    BY <1>1
  <2> QED
    BY <1>4, <1>9, <1>10, <2>1 DEF BlockDerives
<1>15. \A n \in 1..M : n \in 1..N \/ n = M
  BY <1>1
<1> HIDE DEF M, root
<1>16. ChainDerives(c)
  BY <1>1, <1>12, <1>13, <1>14, <1>15 DEF ChainDerives
<1> QED
  BY <1>16 DEF c

(* L1 stays of that kind, whatever it does: new blocks and reorgs are made *)
(* by WithBlock.                                                           *)
LEMMA L1Derives ==
  ASSUME AccountingComesLast, PayloadsReplay, L1OK, ChainDerives(l1), L1
  PROVE  ChainDerives(l1')
<1>1. l1 \in Seq(Block) /\ Len(l1) \in Nat /\ reorgs \in Nat
  BY ChainTypes DEF L1OK
<1>2. CASE \E payload \in Payloads : NewBlock(payload)
  <2>1. PICK payload \in Payloads : Fresh(l1, payload) /\ l1' = WithBlock(l1, reorgs, payload)
    BY <1>2 DEF NewBlock
  <2> QED
    BY <1>1, <2>1, WithBlockDerives
<1>3. ASSUME NEW removed \in 1..ReorgDepth, NEW n \in 0..ReorgDepth,
             NEW payloads \in [1..n -> Payloads], Reorg(removed, payloads)
      PROVE  ChainDerives(l1')
  <2> DEFINE K == Len(l1) - removed
             kept == SubSeq(l1, 1, K)
             gen == reorgs + 1
  <2>1. PICK c : Rebuilds(c, kept, gen, payloads, n) /\ l1' = c[n]
    BY <1>3, ReorgChains
  <2>2. K \in 0..Len(l1) /\ n \in Nat /\ gen \in Nat
    BY <1>1, <1>3, ProcessorConstants DEF Reorg
  <2>3. kept \in Seq(Block) /\ ChainDerives(kept)
    BY <1>1, <2>2, PrefixTypes, PrefixDerives
  <2> HIDE DEF kept, gen
  <2> DEFINE A == {i \in Nat : i <= n => c[i] \in Seq(Block) /\ ChainDerives(c[i])}
  <2>4. 0 \in A
    BY <2>1, <2>3 DEF Rebuilds
  <2>5. ASSUME NEW i \in A PROVE i + 1 \in A
    <3> SUFFICES ASSUME i + 1 <= n PROVE c[i + 1] \in Seq(Block) /\ ChainDerives(c[i + 1])
      BY <2>5
    <3> DEFINE j == i + 1
               x == c[i]
               p == payloads[j]
    <3>1. j \in 1..n /\ j - 1 = i /\ x \in Seq(Block) /\ ChainDerives(x) /\ p \in Payloads
      BY <2>2, <2>5
    <3> HIDE DEF j
    <3>2. c[j] = WithBlock(x, gen, p) /\ Fresh(x, p)
      BY <2>1, <3>1 DEF Rebuilds
    <3> HIDE DEF x, p
    <3>3. ChainDerives(WithBlock(x, gen, p)) /\ WithBlock(x, gen, p) \in Seq(Block)
      BY <2>2, <3>1, <3>2, WithBlockDerives, WithBlockChain
    <3> QED
      BY <3>2, <3>3 DEF j
  <2>6. A = Nat
    <3>1. A \in SUBSET Nat
      OBVIOUS
    <3> HIDE DEF A
    <3> QED
      BY <2>4, <2>5, <3>1, NatSetInduction
  <2> QED
    BY <2>1, <2>2, <2>6
<1> QED
  BY <1>2, <1>3 DEF L1

-----------------------------------------------------------------------------
(* The events of a range of blocks. *)

IsCanonical(b, entry) == entry.block \in 1..Len(b) /\ b[entry.block].gen = entry.gen

Rising(queue) == \A i, j \in DOMAIN queue : i <= j => queue[i].block <= queue[j].block

DeploysFirstIn(queue, j) ==
    \E d \in 1..(j - 1) :
        /\ InOneBlock(queue, d, j)
        /\ \A k \in 1..(j - 1) :
              InOneBlock(queue, k, j) => (queue[k].event.kind = "deploy" <=> k <= d)

QueueInOrder(queue) ==
    \A i, j \in DOMAIN queue :
        /\ i < j /\ InOneBlock(queue, i, j)
        /\ Changes(queue[i].event.kind) /\ Changes(queue[j].event.kind)
        => /\ queue[i].event.kind \in {"tx", "deploy"}
           /\ queue[j].event.kind \in {"tx", "deploy", "withdrawal"}
           /\ queue[j].event.kind = "withdrawal" => DeploysFirstIn(queue, j)

(* Each event starts from the root that the one before it left. *)
QueueLeads(queue, root) ==
    \A i \in DOMAIN queue :
        /\ queue[i].event.currentState = RootBefore(queue, root, i)
        /\ EventDerives(queue[i].event)

QueueCanonical(queue) == \A i \in DOMAIN queue : IsCanonical(l1, queue[i])

LogDerives(queue, root) ==
    QueueLeads(queue, root) /\ Rising(queue) /\ QueueInOrder(queue) /\ QueueCanonical(queue)

(* z is the queue x of length a and then the m events of block n. *)
Followed(x, a, n, events, m, z) ==
    /\ a \in Nat /\ m \in Nat
    /\ DOMAIN x = 1..a /\ DOMAIN events = 1..m /\ DOMAIN z = 1..(a + m)
    /\ \A i \in 1..a : z[i] = x[i] /\ x[i].block # n
    /\ \A i \in 1..m : z[i + a].block = n /\ z[i + a].event = events[i]

(* Such a queue keeps the order of its batches, none of which spans two    *)
(* blocks.                                                                 *)
LEMMA OrderOfConcat ==
  ASSUME NEW x, NEW a, NEW n, NEW events, NEW m, NEW z, Followed(x, a, n, events, m, z),
         QueueInOrder(x), BatchInOrder(KindsOf(events))
  PROVE  QueueInOrder(z)
<1> DEFINE K == KindsOf(events)
<1>0. /\ a \in Nat /\ m \in Nat
      /\ DOMAIN x = 1..a /\ DOMAIN events = 1..m /\ DOMAIN z = 1..(a + m)
      /\ \A i \in 1..a : z[i] = x[i] /\ x[i].block # n
      /\ \A i \in 1..m : z[i + a].block = n /\ z[i + a].event = events[i]
  BY DEF Followed
<1> USE <1>0
<1>1. DOMAIN K = 1..m /\ \A i \in 1..m : K[i] = events[i].kind
  BY DEF KindsOf
<1> HIDE DEF K
<1>2. ASSUME NEW i \in 1..(a + m), i > a
      PROVE  /\ i - a \in 1..m /\ (i - a) + a = i
             /\ z[i].block = n /\ z[i].event.kind = K[i - a]
  <2> DEFINE u == i - a
  <2>1. u \in 1..m /\ u + a = i
    BY <1>2
  <2> HIDE DEF u
  <2>2. z[u + a].block = n /\ z[u + a].event = events[u]
    BY <2>1
  <2> QED
    BY <1>1, <2>1, <2>2 DEF u
<1>3. ASSUME NEW u \in 1..m, NEW v \in 1..m, u <= v
      PROVE  InOneBlock(z, u + a, v + a) <=> Together(K, u, v)
  <2> DEFINE p == u + a
             q == v + a
  <2>1. p \in 1..(a + m) /\ p > a /\ q \in 1..(a + m) /\ q > a /\ p - a = u /\ q - a = v /\ p <= q
        /\ p \in Nat /\ q \in Nat
    BY <1>3
  <2> HIDE DEF p, q
  <2>2. ASSUME InOneBlock(z, p, q), NEW k \in u..v PROVE K[k] # "update"
    <3> DEFINE t == k + a
    <3>1. t \in p..q /\ t \in 1..(a + m) /\ t > a /\ t - a = k
      BY <1>3 DEF p, q
    <3> HIDE DEF t
    <3> QED
      BY <1>2, <2>2, <3>1 DEF InOneBlock
  <2>3. ASSUME Together(K, u, v), NEW t \in p..q PROVE z[t].block = z[p].block /\ z[t].event.kind # "update"
    <3>1. t \in 1..(a + m) /\ t > a /\ t - a \in u..v
      BY <1>3 DEF p, q
    <3> QED
      BY <1>2, <2>1, <2>3, <3>1 DEF Together
  <2> QED
    BY <2>2, <2>3 DEF InOneBlock, Together, p, q
<1>4. ASSUME NEW i \in 1..a, NEW j \in 1..(a + m), j > a PROVE ~InOneBlock(z, i, j)
  <2>1. j \in i..j /\ z[j].block = n /\ z[i].block # n
    BY <1>2, <1>4
  <2> QED
    BY <2>1 DEF InOneBlock
<1>5. ASSUME NEW i \in 1..a, NEW j \in 1..a, i <= j
      PROVE  InOneBlock(z, i, j) <=> InOneBlock(x, i, j)
  <2>1. \A k \in i..j : k \in 1..a
    OBVIOUS
  <2> QED
    BY <2>1 DEF InOneBlock
<1> SUFFICES ASSUME NEW i \in 1..(a + m), NEW j \in 1..(a + m), i < j, InOneBlock(z, i, j),
                    Changes(z[i].event.kind), Changes(z[j].event.kind)
             PROVE  /\ z[i].event.kind \in {"tx", "deploy"}
                    /\ z[j].event.kind \in {"tx", "deploy", "withdrawal"}
                    /\ z[j].event.kind = "withdrawal" => DeploysFirstIn(z, j)
  BY DEF QueueInOrder
<1>6. CASE j <= a
  <2>1. i \in 1..a /\ j \in 1..a /\ i <= j /\ z[i] = x[i] /\ z[j] = x[j]
    BY <1>6
  <2>2. InOneBlock(x, i, j)
    BY <1>5, <2>1
  <2>3. /\ x[i].event.kind \in {"tx", "deploy"} /\ x[j].event.kind \in {"tx", "deploy", "withdrawal"}
        /\ x[j].event.kind = "withdrawal" => DeploysFirstIn(x, j)
    BY <2>1, <2>2 DEF QueueInOrder
  <2>4. ASSUME DeploysFirstIn(x, j) PROVE DeploysFirstIn(z, j)
    <3>1. PICK d \in 1..(j - 1) :
             /\ InOneBlock(x, d, j)
             /\ \A k \in 1..(j - 1) :
                   InOneBlock(x, k, j) => (x[k].event.kind = "deploy" <=> k <= d)
      BY <2>4 DEF DeploysFirstIn
    <3>2. \A k \in 1..(j - 1) : k \in 1..a /\ k <= j
      BY <2>1
    <3>3. d \in 1..(j - 1) /\ InOneBlock(z, d, j)
      BY <1>5, <2>1, <3>1, <3>2
    <3>4. ASSUME NEW k \in 1..(j - 1), InOneBlock(z, k, j)
          PROVE  z[k].event.kind = "deploy" <=> k <= d
      <4>1. k \in 1..a /\ k <= j
        BY <3>2
      <4>2. InOneBlock(x, k, j) /\ z[k] = x[k]
        BY <1>5, <2>1, <3>4, <4>1
      <4> QED
        BY <3>1, <4>2
    <3> QED
      BY <3>3, <3>4 DEF DeploysFirstIn
  <2> QED
    BY <2>1, <2>3, <2>4
<1>7. CASE j > a
  <2> DEFINE p == i - a
             q == j - a
  <2>1. i > a
    BY <1>4, <1>7
  <2>2. p \in 1..m /\ q \in 1..m /\ p + a = i /\ q + a = j /\ z[i].event.kind = K[p] /\ z[j].event.kind = K[q]
    BY <1>2, <1>7, <2>1
  <2>3. p < q /\ p <= q
    BY <2>2
  <2> HIDE DEF p, q
  <2>4. Together(K, p, q)
    BY <1>3, <2>2, <2>3
  <2>5. /\ K[p] \in {"tx", "deploy"} /\ K[q] \in {"tx", "deploy", "withdrawal"}
        /\ K[q] = "withdrawal" => DeploysFirst(K, q)
    BY <1>1, <2>2, <2>3, <2>4 DEF BatchInOrder, K
  <2>6. ASSUME DeploysFirst(K, q) PROVE DeploysFirstIn(z, j)
    <3>1. PICK d \in 1..(q - 1) :
             /\ Together(K, d, q)
             /\ \A k \in 1..(q - 1) : Together(K, k, q) => (K[k] = "deploy" <=> k <= d)
      BY <2>6 DEF DeploysFirst
    <3> DEFINE e == d + a
    <3>2. e \in 1..(j - 1) /\ d \in 1..m /\ d <= q /\ d \in Nat
      BY <2>2, <3>1
    <3>3. InOneBlock(z, e, j)
      BY <1>3, <2>2, <3>1, <3>2
    <3>4. ASSUME NEW k \in 1..(j - 1), InOneBlock(z, k, j) PROVE z[k].event.kind = "deploy" <=> k <= e
      <4> DEFINE u == k - a
      <4>1. k > a
        BY <1>4, <1>7, <3>4
      <4>2. k \in 1..(a + m)
        BY <2>2
      <4>3. u \in 1..m /\ u + a = k /\ z[k].event.kind = K[u]
        BY <1>2, <4>1, <4>2
      <4>4. u \in 1..(q - 1) /\ u <= q /\ (u <= d <=> k <= e)
        BY <2>2, <3>2, <4>3
      <4> HIDE DEF u, e
      <4>5. Together(K, u, q)
        BY <1>3, <2>2, <3>4, <4>3, <4>4
      <4> QED
        BY <3>1, <4>3, <4>4, <4>5
    <3> QED
      BY <3>2, <3>3, <3>4 DEF DeploysFirstIn
  <2> QED
    BY <2>2, <2>5, <2>6
<1> QED
  BY <1>6, <1>7

(* The events of one more block follow those of the blocks before it.      *)
LEMMA AnotherBlockDerives ==
  ASSUME L1OK, ChainDerives(l1), NEW from \in Nat \ {0}, NEW n \in from..Len(l1), NEW root,
         NEW x, QueueFine(x, from, n - 1), Straight(x, root, n - 1), LogDerives(x, root)
  PROVE  LogDerives(x \o EventsOf(n), root)
<1> DEFINE y == EventsOf(n)
           z == x \o y
           a == Len(x)
           m == Len(y)
           events == l1[n].events
<1>1. n \in Nat /\ n \in 1..Len(l1) /\ l1 \in Seq(Block) /\ Len(l1) \in Nat
  BY ChainTypes DEF L1OK
<1>2. /\ events \in Seq(Event)
      /\ y \in Seq(LogEntry) /\ m = Len(events) /\ DOMAIN events = 1..m /\ m \in Nat
      /\ \A i \in 1..m : y[i].block = n /\ y[i].event = events[i] /\ y[i].gen = l1[n].gen
  BY <1>1, EventsOfBlock
<1>3. Leads(events, RootAt(l1, n - 1)) /\ BatchInOrder(KindsOf(events))
  BY <1>1 DEF ChainDerives, BlockDerives
<1> HIDE DEF y, events
<1>4. /\ x \in Seq(LogEntry) /\ a \in Nat /\ DOMAIN x = 1..a
      /\ \A i \in 1..a : x[i].block \in from..(n - 1)
  <2>1. x \in Seq(LogEntry)
    BY DEF QueueFine
  <2> QED
    BY <2>1, LenProperties DEF QueueFine
<1>5. /\ z \in Seq(LogEntry) /\ DOMAIN z = 1..(a + m)
      /\ \A i \in 1..(a + m) : z[i] = IF i <= a THEN x[i] ELSE y[i - a]
  <2>1. /\ z \in Seq(LogEntry) /\ Len(z) = a + m
        /\ \A i \in 1..(a + m) : z[i] = IF i <= a THEN x[i] ELSE y[i - a]
    BY <1>2, <1>4, ConcatProperties
  <2> HIDE DEF z
  <2> QED
    BY <2>1, LenProperties
<1> HIDE DEF z, a, m
<1>6. \A i \in 1..a : z[i] = x[i] /\ i \in 1..(a + m)
  BY <1>2, <1>4, <1>5
<1>7. \A i \in 1..(a + m) : i > a =>
         /\ i - a \in 1..m /\ z[i].block = n /\ z[i].event = events[i - a] /\ z[i].gen = l1[n].gen
  <2> SUFFICES ASSUME NEW i \in 1..(a + m), i > a
               PROVE  /\ i - a \in 1..m /\ z[i].block = n /\ z[i].event = events[i - a]
                      /\ z[i].gen = l1[n].gen
    OBVIOUS
  <2>1. i - a \in 1..m /\ z[i] = y[i - a]
    BY <1>2, <1>4, <1>5
  <2> QED
    BY <1>2, <2>1
<1>8. \A i \in 1..(a + m) : i <= a => i \in 1..a
  BY <1>2, <1>4
<1>9. Rising(z)
  <2> SUFFICES ASSUME NEW i \in 1..(a + m), NEW j \in 1..(a + m), i <= j
               PROVE  z[i].block <= z[j].block
    BY <1>5 DEF Rising
  <2>1. CASE j <= a
    <3>1. i \in 1..a /\ j \in 1..a
      BY <1>2, <1>4, <2>1
    <3>2. x[i].block <= x[j].block
      BY <1>4, <3>1 DEF LogDerives, Rising
    <3> QED
      BY <1>6, <3>1, <3>2
  <2>2. CASE j > a
    <3>1. z[j].block = n
      BY <1>7, <2>2
    <3>2. CASE i <= a
      <4>1. i \in 1..a /\ z[i].block \in from..(n - 1)
        BY <1>4, <1>6, <1>8, <3>2
      <4> QED
        BY <1>1, <3>1, <4>1
    <3>3. CASE i > a
      BY <1>1, <1>7, <3>1, <3>3
    <3> QED
      BY <1>4, <3>2, <3>3
  <2> QED
    BY <1>4, <2>1, <2>2
<1>10. QueueCanonical(z)
  <2> SUFFICES ASSUME NEW i \in 1..(a + m) PROVE IsCanonical(l1, z[i])
    BY <1>5 DEF QueueCanonical
  <2>1. CASE i <= a
    BY <1>4, <1>6, <1>8, <2>1 DEF LogDerives, QueueCanonical
  <2>2. CASE i > a
    BY <1>1, <1>7, <2>2 DEF IsCanonical
  <2> QED
    BY <1>4, <2>1, <2>2
<1>11. QueueLeads(z, root)
  <2> SUFFICES ASSUME NEW i \in 1..(a + m)
               PROVE  /\ z[i].event.currentState = RootBefore(z, root, i)
                      /\ EventDerives(z[i].event)
    BY <1>5 DEF QueueLeads
  <2> DEFINE o == i - 1
  <2>1. i # 1 => o \in 1..(a + m) /\ o + 1 = i
    BY <1>2, <1>4
  <2>2. RootBefore(z, root, i) = IF i = 1 THEN root ELSE z[o].event.newState
    BY DEF RootBefore
  <2>3. CASE i <= a
    <3>1. i \in 1..a /\ (i # 1 => o \in 1..a)
      BY <1>2, <1>4, <2>3
    <3>2. RootBefore(x, root, i) = IF i = 1 THEN root ELSE x[o].event.newState
      BY DEF RootBefore
    <3>3. x[i].event.currentState = RootBefore(x, root, i) /\ EventDerives(x[i].event)
      BY <1>4, <3>1 DEF LogDerives, QueueLeads
    <3> HIDE DEF o
    <3>4. RootBefore(z, root, i) = RootBefore(x, root, i)
      BY <1>6, <2>2, <3>1, <3>2
    <3> QED
      BY <1>6, <3>1, <3>3, <3>4
  <2>4. CASE i = a + 1
    <3>1. i > a /\ i - a = 1 /\ (i # 1 => o \in 1..a /\ o = a)
      BY <1>4, <2>4
    <3>2. z[i].event = events[1] /\ 1 \in 1..m
      BY <1>7, <3>1
    <3>3. events[1].currentState = RootAt(l1, n - 1) /\ EventDerives(events[1])
      BY <1>2, <1>3, <3>2 DEF Leads
    <3>4. RootBefore(x, root, a + 1) = RootAt(l1, n - 1)
      BY DEF Straight, a
    <3>5. RootBefore(z, root, i) = RootBefore(x, root, a + 1)
      <4>1. RootBefore(x, root, i) = IF i = 1 THEN root ELSE x[o].event.newState
        BY DEF RootBefore
      <4> HIDE DEF o
      <4>2. i # 1 => z[o] = x[o]
        BY <1>6, <3>1
      <4> QED
        BY <2>2, <2>4, <4>1, <4>2
    <3> QED
      BY <3>2, <3>3, <3>4, <3>5
  <2>5. CASE i > a + 1
    <3> DEFINE u == i - a
               v == u - 1
    <3>1. i > a /\ o \in 1..(a + m) /\ o > a /\ i # 1 /\ u # 1 /\ o - a = v
      BY <1>2, <1>4, <2>5
    <3>2. z[i].event = events[u] /\ u \in 1..m
      BY <1>7, <3>1
    <3>3. z[o].event = events[v]
      BY <1>7, <3>1
    <3>4. events[u].currentState = events[v].newState /\ EventDerives(events[u])
      <4>1. events[u].currentState = IF u = 1 THEN RootAt(l1, n - 1) ELSE events[u - 1].newState
        BY <1>2, <1>3, <3>2 DEF Leads
      <4>2. EventDerives(events[u])
        BY <1>2, <1>3, <3>2 DEF Leads
      <4> QED
        BY <3>1, <4>1, <4>2
    <3> HIDE DEF u, v, o
    <3> QED
      BY <2>2, <3>1, <3>2, <3>3, <3>4
  <2> QED
    BY <1>4, <2>3, <2>4, <2>5
<1>12. QueueInOrder(z)
  <2>1. QueueInOrder(x)
    BY DEF LogDerives
  <2>2. \A i \in 1..a : x[i].block # n
    BY <1>1, <1>4
  <2>3. ASSUME NEW i \in 1..m PROVE z[i + a].block = n /\ z[i + a].event = events[i]
    <3> DEFINE t == i + a
    <3>1. t \in 1..(a + m) /\ t > a /\ t - a = i
      BY <1>2, <1>4
    <3> HIDE DEF t
    <3>2. z[t].block = n /\ z[t].event = events[i]
      BY <1>7, <3>1
    <3> QED
      BY <3>2 DEF t
  <2>4. Followed(x, a, n, events, m, z)
    BY <1>2, <1>4, <1>5, <1>6, <2>2, <2>3 DEF Followed
  <2> QED
    BY <1>3, <2>1, <2>4, OrderOfConcat
<1> QED
  BY <1>9, <1>10, <1>11, <1>12 DEF LogDerives, y, z

(* What QueryEvents returns: canonical events, each from the root that the *)
(* last one left, the first from the root at the block before the range.   *)
LEMMA LogOfRangeDerives ==
  ASSUME L1OK, ChainDerives(l1), NEW from \in Nat \ {0}, NEW to \in Nat, from <= to, to <= Len(l1)
  PROVE  LogDerives(Log(from..to), RootAt(l1, from - 1))
<1> DEFINE N == Len(l1)
           range == from..to
           S == Seq(LogEntry)
           root == RootAt(l1, from - 1)
           More(n) == IF n \in range THEN EventsOf(n) ELSE <<>>
<1>1. N \in Nat /\ <<>> \in S /\ l1 \in Seq(Block)
  BY ChainTypes, EmptySeq DEF L1OK
<1>2. ASSUME NEW n \in 1..N, NEW x \in S PROVE x \o More(n) \in S
  <2>1. EventsOf(n) \in S
    BY EventsOfBlock
  <2>2. More(n) \in S
    BY <1>1, <2>1
  <2> HIDE DEF More
  <2> QED
    BY <2>2, ConcatProperties
<1>3. PICK c : LogSteps(c, range)
  BY LogLoop
<1>7. Log(range) = c[N]
  BY <1>3 DEF LogSteps
<1>8. c[0] = <<>> /\ \A n \in 1..N : c[n] = c[n - 1] \o More(n)
  BY <1>3 DEF LogSteps
<1> HIDE DEF N, S, More, range
<1> DEFINE Top(n) == IF n < from THEN from - 1 ELSE IF n > to THEN to ELSE n
           Good(x, n) == /\ x \in S /\ QueueFine(x, from, Top(n)) /\ Straight(x, root, Top(n))
                         /\ LogDerives(x, root)
           Ok == {n \in Nat : n <= N => Good(c[n], n)}
<1> HIDE DEF root
<1>9. Good(<<>>, 0)
  <2>1. Top(0) = from - 1
    OBVIOUS
  <2>2. QueueFine(<<>>, from, from - 1)
    BY EmptySeq DEF QueueFine
  <2>3. Straight(<<>>, root, from - 1)
    BY EmptySeq DEF Straight, RootBefore, root
  <2>4. LogDerives(<<>>, root)
    BY EmptySeq DEF LogDerives, QueueLeads, Rising, QueueInOrder, QueueCanonical
  <2> QED
    BY <1>1, <2>1, <2>2, <2>3, <2>4
<1>10. ASSUME NEW n \in 1..N, NEW x, Good(x, n - 1) PROVE Good(x \o More(n), n)
  <2>1. n \in Nat /\ x \in S
    BY <1>1, <1>10
  <2>2. CASE n \in range
    <3>1. n \in from..Len(l1) /\ Top(n) = n /\ Top(n - 1) = n - 1
      BY <2>1, <2>2 DEF range, N
    <3>2. QueueFine(x, from, n - 1) /\ Straight(x, root, n - 1) /\ LogDerives(x, root)
      BY <1>10, <3>1
    <3>3. QueueFine(x \o EventsOf(n), from, n) /\ Straight(x \o EventsOf(n), root, n)
      BY <3>1, <3>2, AnotherBlock
    <3>6. LogDerives(x \o EventsOf(n), root)
      BY <3>1, <3>2, AnotherBlockDerives
    <3>4. More(n) = EventsOf(n)
      BY <2>2 DEF More
    <3>5. x \o More(n) \in S
      BY <1>2, <2>1
    <3> QED
      BY <3>1, <3>3, <3>4, <3>5, <3>6
  <2>3. CASE n \notin range
    <3>1. Top(n) = Top(n - 1)
      BY <2>1, <2>3 DEF range
    <3>2. x \o More(n) = x
      BY <2>1, <2>3, ConcatEmptySeq DEF More, S
    <3> HIDE DEF Top
    <3> QED
      BY <1>10, <3>1, <3>2
  <2> QED
    BY <2>2, <2>3
<1> HIDE DEF Good
<1>11. Ok = Nat
  <2>1. 0 \in Ok
    BY <1>8, <1>9
  <2>2. ASSUME NEW n \in Ok PROVE n + 1 \in Ok
    <3> SUFFICES ASSUME n + 1 <= N PROVE Good(c[n + 1], n + 1)
      BY <2>2
    <3> DEFINE k == n + 1
    <3>1. n \in Nat /\ Good(c[n], n) /\ k \in 1..N /\ k - 1 = n
      BY <1>1, <2>2
    <3> HIDE DEF k
    <3>2. c[k] = c[n] \o More(k)
      BY <1>8, <3>1
    <3>3. Good(c[k], k)
      BY <1>10, <3>1, <3>2
    <3> QED
      BY <3>3 DEF k
  <2>3. Ok \in SUBSET Nat
    OBVIOUS
  <2> HIDE DEF Ok
  <2> QED
    BY <2>1, <2>2, <2>3, NatSetInduction
<1>12. Good(c[N], N)
  BY <1>1, <1>11
<1> QED
  BY <1>7, <1>12 DEF Good, root, range

-----------------------------------------------------------------------------
(* The events at the head of a queue. *)

(* The first k of them follow one another from the root before them.       *)
LEMMA HeadLeads ==
  ASSUME NEW queue \in Seq(LogEntry), NEW root, NEW k \in 0..Len(queue),
         \A i \in 1..k : /\ queue[i].event.currentState = RootBefore(queue, root, i)
                         /\ EventDerives(queue[i].event)
  PROVE  LET es == HeadOf(queue, k)
         IN /\ es \in Seq(Event) /\ Len(es) = k /\ DOMAIN es = 1..k
            /\ \A i \in 1..k : es[i] = queue[i].event
            /\ Leads(es, root) /\ EndOf(es, root) = RootBefore(queue, root, k + 1)
<1> DEFINE es == HeadOf(queue, k)
<1>1. /\ Len(queue) \in Nat /\ k \in Nat
      /\ \A i \in 1..k : queue[i] \in LogEntry /\ queue[i].event \in Event
  <2>1. Len(queue) \in Nat /\ \A i \in 1..Len(queue) : queue[i] \in LogEntry
    BY LenProperties, ElementOfSeq
  <2> QED
    BY <2>1 DEF LogEntry
<1>2. es \in Seq(Event) /\ es = [i \in 1..k |-> es[i]] /\ \A i \in 1..k : es[i] = queue[i].event
  <2>1. es = [i \in 1..k |-> es[i]] /\ \A i \in 1..k : es[i] = queue[i].event
    BY DEF HeadOf
  <2> HIDE DEF es
  <2>2. es \in Seq(Event)
    BY <1>1, <2>1, IsASeq
  <2> QED
    BY <2>1, <2>2
<1> HIDE DEF es
<1>3. Len(es) = k /\ DOMAIN es = 1..k
  BY <1>1, <1>2, LenProperties
<1>4. Leads(es, root)
  <2> SUFFICES ASSUME NEW i \in 1..k
               PROVE  /\ es[i].currentState = IF i = 1 THEN root ELSE es[i - 1].newState
                      /\ EventDerives(es[i])
    BY <1>3 DEF Leads
  <2> DEFINE o == i - 1
  <2>1. i # 1 => o \in 1..k
    BY <1>1
  <2>2. RootBefore(queue, root, i) = IF i = 1 THEN root ELSE queue[o].event.newState
    BY DEF RootBefore
  <2> SUFFICES es[i].currentState = (IF i = 1 THEN root ELSE es[o].newState) /\ EventDerives(es[i])
    OBVIOUS
  <2> HIDE DEF o
  <2> QED
    BY <1>2, <2>1, <2>2
<1>5. EndOf(es, root) = RootBefore(queue, root, k + 1)
  <2>1. es = <<>> <=> k = 0
    BY <1>2, <1>3, EmptySeq
  <2>2. k # 0 => k \in 1..k /\ k + 1 # 1 /\ k + 1 - 1 = k
    BY <1>1
  <2>3. CASE k = 0
    BY <2>1, <2>3 DEF EndOf, RootBefore
  <2>4. CASE k # 0
    <3>1. EndOf(es, root) = es[k].newState
      BY <1>3, <2>1, <2>4 DEF EndOf
    <3>2. RootBefore(queue, root, k + 1) = queue[k].event.newState
      BY <2>2, <2>4 DEF RootBefore
    <3> QED
      BY <1>2, <2>2, <2>4, <3>1, <3>2
  <2> QED
    BY <2>3, <2>4
<1> QED
  BY <1>2, <1>3, <1>4, <1>5 DEF es

(* What the chain should contain is what L1's root is made of. *)
LEMMA DerivedIsMade ==
  ASSUME L1OK, ChainDerives(l1)
  PROVE  Derived = Made(L1Root)
<1> DEFINE N == Len(l1)
           log == Log(1..N)
           K == Len(log)
           es == HeadOf(log, K)
           none == <<>>
<1>1. N \in Nat /\ l1 \in Seq(Block) /\ SubSeq(l1, 1, N) = l1 /\ none \in Root
  BY ChainTypes, SubSeqFull, EmptySeq DEF L1OK, Root
<1>2. L1Root = RootAt(l1, N) /\ RootAt(l1, 0) = none
  BY <1>1, NothingNamed DEF L1Root, RootAt
<1>3. log \in Seq(LogEntry) /\ QueueLeads(log, none) /\ RootBefore(log, none, K + 1) = L1Root
  <2>1. CASE N = 0
    <3>1. PICK c : LogSteps(c, 1..N)
      BY LogLoop
    <3>2. log = <<>>
      BY <2>1, <3>1 DEF LogSteps
    <3>3. <<>> \in Seq(LogEntry) /\ QueueLeads(<<>>, none) /\ RootBefore(<<>>, none, 0 + 1) = none /\ Len(<<>>) = 0
      BY EmptySeq DEF QueueLeads, RootBefore
    <3>4. L1Root = none
      BY <1>2, <2>1
    <3> HIDE DEF none, log
    <3> QED
      BY <3>2, <3>3, <3>4
  <2>2. CASE N # 0
    <3>1. 1 \in Nat \ {0} /\ 1 <= N /\ N <= Len(l1) /\ 1 - 1 = 0
      BY <1>1, <2>2
    <3>2. QueueFine(log, 1, N) /\ Straight(log, RootAt(l1, 1 - 1), N)
      BY <1>1, <3>1, LogOfRange
    <3>3. LogDerives(log, RootAt(l1, 1 - 1))
      BY <1>1, <3>1, LogOfRangeDerives
    <3> HIDE DEF log, none
    <3> QED
      BY <1>2, <3>1, <3>2, <3>3 DEF QueueFine, Straight, LogDerives
  <2> QED
    BY <2>1, <2>2
<1> HIDE DEF log
<1>4. K \in Nat /\ DOMAIN log = 1..K /\ K \in 0..K
  BY <1>3, LenProperties
<1> HIDE DEF none, K
<1>5. /\ es \in Seq(Event) /\ DOMAIN es = 1..K /\ \A i \in 1..K : es[i] = log[i].event
      /\ Leads(es, none) /\ EndOf(es, none) = L1Root
  <2>1. \A i \in 1..K : /\ log[i].event.currentState = RootBefore(log, none, i)
                        /\ EventDerives(log[i].event)
    BY <1>3, <1>4 DEF QueueLeads
  <2>2. K \in 0..Len(log)
    BY <1>4 DEF K
  <2> QED
    BY <1>3, <2>1, <2>2, HeadLeads
<1> HIDE DEF es
<1>6. Made(none) \o TransactionsOf(es) = Made(L1Root)
  BY <1>1, <1>5, Telescope
<1>7. TransactionsOf(es) \in Seq(Transaction) /\ Made(none) = <<>>
  BY <1>5, TransactionsOfType, MadeNothing DEF Root, none
<1>8. <<>> \o TransactionsOf(es) = TransactionsOf(es)
  BY <1>7, ConcatEmptySeq
<1>9. Derived = TransactionsOf(es)
  <2>1. Derived = FlattenSeq([i \in DOMAIN log |-> Transactions(log[i].event)])
    BY DEF Derived, log
  <2>2. [i \in DOMAIN log |-> Transactions(log[i].event)] = [i \in DOMAIN es |-> Transactions(es[i])]
    BY <1>4, <1>5
  <2> QED
    BY <2>1, <2>2 DEF TransactionsOf
<1> QED
  BY <1>6, <1>7, <1>8, <1>9

-----------------------------------------------------------------------------
(* A root's transactions are accepted where they were made for. *)

(* Accepts(Made(root), ...): no signed transaction is replayed twice.      *)
LEMMA GroupAccepted ==
  ASSUME NEW root \in Root, NEW es \in Seq(Event), Leads(es, root)
  PROVE  Accepts(Made(root), TransactionsOf(es))
<1> SUFFICES ASSUME NEW t \in ToSet(TransactionsOf(es)), t.kind \in Signed
             PROVE  t \notin ToSet(Made(root))
  BY DEF Accepts
<1> DEFINE ts == [i \in DOMAIN es |-> Transactions(es[i])]
<1>1. /\ ts \in Seq(Seq(Transaction)) /\ Len(ts) = Len(es)
      /\ \A i \in 1..Len(es) : ts[i] = Transactions(es[i])
      /\ TransactionsOf(es) = FlattenSeq(ts)
  BY TransactionsOfType
<1> HIDE DEF ts
<1>2. PICK i \in 1..Len(es) : t \in ToSet(Transactions(es[i]))
  <2>1. \E i \in 1..Len(ts) : t \in ToSet(ts[i])
    BY <1>1, FlattenElements
  <2> QED
    BY <1>1, <2>1
<1>3. es[i].kind \in Kinds /\ es[i].name \in STRING
  BY EventTypes
<1>4. t = OriginalTransaction(es[i]) /\ t.kind = es[i].kind
  BY <1>2, <1>3, TransactionsType DEF OriginalTransaction
<1>5. t \notin ToSet(es[i].currentState)
  BY <1>4 DEF Leads, EventDerives
<1> QED
  BY <1>5, LeadsGrows, MadeType

(* A node with the root that the events start from, which replays them in  *)
(* blocks that hold their transactions, arrives at the root they lead to.  *)
LEMMA MineDerives ==
  ASSUME chain \in Seq(Root), NEW blocks \in Seq(Root), Mine(blocks),
         mishaps \in Nat, mishaps' > 0 => "replay" \notin Faults
  PROVE  /\ chain' \in Seq(Root) /\ Len(chain) \in Nat /\ Len(chain) <= Len(chain')
         /\ \A k \in 0..Len(chain) : SubSeq(chain', 1, k) = SubSeq(chain, 1, k)
         /\ \A root \in Root : \A es \in Seq(Event) :
               /\ Leads(es, root) /\ ActualStateRoot = Made(root)
               /\ FlattenSeq(blocks) = TransactionsOf(es)
               /\ Canonical(job.queue[1])
               => ActualStateRoot' = Made(EndOf(es, root))
<1> DEFINE longer == chain \o blocks
<1>1. Len(chain) \in Nat /\ Len(blocks) \in Nat
  BY LenProperties
<1>2. /\ longer \in Seq(Root) /\ Len(longer) = Len(chain) + Len(blocks)
      /\ \A i \in 1..Len(chain) : longer[i] = chain[i]
  <2>1. /\ longer \in Seq(Root) /\ Len(longer) = Len(chain) + Len(blocks)
        /\ \A i \in 1..(Len(chain) + Len(blocks)) :
              longer[i] = IF i <= Len(chain) THEN chain[i] ELSE blocks[i - Len(chain)]
    BY ConcatProperties
  <2> HIDE DEF longer
  <2> QED
    BY <1>1, <2>1
<1> HIDE DEF longer
<1>3. chain' = longer \/ chain' = chain
  BY DEF Mine, longer
<1>4. ASSUME NEW k \in 0..Len(chain) PROVE SubSeq(longer, 1, k) = SubSeq(chain, 1, k)
  <2>1. \A i \in 1..k : longer[i] = chain[i]
    BY <1>1, <1>2
  <2> QED
    BY <2>1 DEF SubSeq
<1>5. ASSUME NEW root \in Root, NEW es \in Seq(Event), Leads(es, root), ActualStateRoot = Made(root),
             FlattenSeq(blocks) = TransactionsOf(es), Canonical(job.queue[1])
      PROVE  ActualStateRoot' = Made(EndOf(es, root))
  <2>1. Accepts(ActualStateRoot, FlattenSeq(blocks))
    BY <1>5, GroupAccepted
  <2>2. chain' = longer
    BY <1>5, <2>1 DEF Mine, Mishap, longer
  <2>3. FlattenSeq(longer) = FlattenSeq(chain) \o FlattenSeq(blocks)
    <3>1. chain \in Seq(Seq(Transaction)) /\ blocks \in Seq(Seq(Transaction))
      BY DEF Root
    <3> QED
      BY <3>1, FlattenConcat DEF longer
  <2>4. ActualStateRoot' = FlattenSeq(chain') /\ ActualStateRoot = FlattenSeq(chain)
    BY DEF ActualStateRoot
  <2>5. Made(root) \o TransactionsOf(es) = Made(EndOf(es, root))
    BY <1>5, Telescope
  <2> QED
    BY <1>5, <2>2, <2>3, <2>4, <2>5
<1> QED
  BY <1>1, <1>2, <1>3, <1>4, <1>5

-----------------------------------------------------------------------------
(* Checkpoints: each is a state that the chain was in.                     *)

CheckpointFits(b, h, ch, cp) ==
    /\ cp.l2BlockNumber \in 0..Len(ch)
    /\ Solid(b, h, cp.l1BlockNumber - 1) =>
          FlattenSeq(SubSeq(ch, 1, cp.l2BlockNumber)) = Made(cp.trackedStateRoot)

InOrderOf(cp, other) ==
    cp.l1BlockNumber < other.l1BlockNumber => cp.l2BlockNumber <= other.l2BlockNumber

CheckpointsFit(b, h, ch, cps) ==
    /\ \A i \in DOMAIN cps : CheckpointFits(b, h, ch, cps[i])
    /\ \A i, j \in DOMAIN cps : InOrderOf(cps[i], cps[j])

(* No checkpoint, nothing to fit.                                          *)
LEMMA NoneFit ==
  ASSUME NEW b, NEW h, NEW ch
  PROVE  CheckpointsFit(b, h, ch, <<>>)
BY EmptySeq DEF CheckpointsFit

(* Hashes that are canonical up to n are so up to m.                       *)
LEMMA SolidDown ==
  ASSUME NEW b, NEW r, NEW h, Recorded(b, r, h), NEW n \in Int, Solid(b, h, n), NEW m \in Int, m <= n
  PROVE  Solid(b, h, m)
<1>1. \A i \in DOMAIN h : i \in Nat
  BY ProcessorConstants DEF Recorded
<1> QED
  BY <1>1 DEF Solid

(* L1 takes no checkpoint away: one with a block before it replaced claims *)
(* nothing.                                                                *)
LEMMA StepKeepsFit ==
  ASSUME NEW b, NEW r, NEW c, NEW s, ChainOK(b, r), ChainOK(c, s),
         NEW k \in Nat, L1Step(b, r, c, s, k), NEW h, Recorded(b, r, h),
         NEW n \in Nat, Covered(b, r, h, n), NEW cps, CheckpointsOK(b, h, n, cps),
         NEW ch, CheckpointsFit(b, h, ch, cps)
  PROVE  CheckpointsFit(c, h, ch, cps)
<1> SUFFICES ASSUME NEW i \in DOMAIN cps
             PROVE  CheckpointFits(c, h, ch, cps[i])
  BY DEF CheckpointsFit
<1> DEFINE m == cps[i].l1BlockNumber - 1
<1>1. m \in Nat /\ m \in 0..n
  BY DEF CheckpointsOK
<1>2. CheckpointFits(b, h, ch, cps[i])
  BY DEF CheckpointsFit
<1>3. ASSUME Solid(c, h, m) PROVE Solid(b, h, m)
  <2> HIDE DEF m
  <2>1. Covered(b, r, h, m)
    BY <1>1, CoveredDown
  <2> QED
    BY <1>1, <1>3, <2>1, StepKeepsSolid
<1> QED
  BY <1>2, <1>3 DEF CheckpointFits

(* Nor does a hash that is recorded, or a canonical one that is forgotten. *)
LEMMA FitWith ==
  ASSUME NEW b, NEW r, NEW h, Recorded(b, r, h), NEW h2, NEW n \in Nat, Knows(b, h2, h, n),
         NEW cps, CheckpointsOK(b, h, n, cps), NEW ch, CheckpointsFit(b, h, ch, cps)
  PROVE  CheckpointsFit(b, h2, ch, cps)
<1> SUFFICES ASSUME NEW i \in DOMAIN cps
             PROVE  CheckpointFits(b, h2, ch, cps[i])
  BY DEF CheckpointsFit
<1> DEFINE m == cps[i].l1BlockNumber - 1
<1>1. m \in Int /\ m <= n
  BY DEF CheckpointsOK
<1>2. CheckpointFits(b, h, ch, cps[i])
  BY DEF CheckpointsFit
<1>3. ASSUME Solid(b, h2, m) PROVE Solid(b, h, m)
  <2> HIDE DEF m
  <2> QED
    BY <1>1, <1>3, SolidWith
<1> QED
  BY <1>2, <1>3 DEF CheckpointFits

(* Nor do blocks that are added to the chain.                              *)
LEMMA FitLonger ==
  ASSUME NEW b, NEW h, NEW ch, NEW longer, Len(ch) \in Nat, Len(longer) \in Nat, Len(ch) <= Len(longer),
         \A k \in 0..Len(ch) : SubSeq(longer, 1, k) = SubSeq(ch, 1, k),
         NEW cps, CheckpointsFit(b, h, ch, cps)
  PROVE  CheckpointsFit(b, h, longer, cps)
<1> SUFFICES ASSUME NEW i \in DOMAIN cps
             PROVE  CheckpointFits(b, h, longer, cps[i])
  BY DEF CheckpointsFit
<1>1. CheckpointFits(b, h, ch, cps[i])
  BY DEF CheckpointsFit
<1> DEFINE k == cps[i].l2BlockNumber
<1>2. k \in 0..Len(ch)
  BY <1>1 DEF CheckpointFits
<1>3. SubSeq(longer, 1, k) = SubSeq(ch, 1, k) /\ k \in 0..Len(longer)
  BY <1>2
<1> QED
  BY <1>1, <1>3 DEF CheckpointFits

-----------------------------------------------------------------------------
(* The node. *)

(* As far as its hashes are those of L1, the node's chain is what the root *)
(* that it tracks is made of.                                              *)
InStep ==
    Solid(l1, blockHashHistory, lastProcessedBlock) => ActualStateRoot = Made(tracked)

(* The last block of which all that was processed counts. *)
Sure == IF job.queue = <<>> THEN job.to
        ELSE IF job.at = NextBlock THEN NextBlock ELSE NextBlock - 1

QueueStarts ==
    /\ ActualStateRoot = Made(tracked)
    /\ job.queue # <<>> => tracked = job.queue[1].event.currentState

EventsDerive ==
    /\ QueueLeads(job.queue, job.queue[1].event.currentState)
    /\ Rising(job.queue) /\ QueueInOrder(job.queue) /\ job.at \in Nat
    /\ \A i \in DOMAIN job.queue :
          /\ job.queue[i].block >= job.at
          /\ Solid(l1, blockHashHistory, job.queue[i].block) => IsCanonical(l1, job.queue[i])
    /\ Solid(l1, blockHashHistory, Sure) => QueueStarts
    /\ \A i \in DOMAIN checkpoints :
          checkpoints[i].l1BlockNumber <= lastProcessedBlock \/ checkpoints[i].l1BlockNumber <= job.at

(* A node that has not processed anything since it was started will find   *)
(* its chain as the file describes it.                                     *)
Resuming == pc \in {"down", "start"} \/ (pc \in {"hashes", "query"} /\ job.by = "start")

DiskFits ==
    IF disk = <<>> THEN chain = <<>>
    ELSE /\ ActualStateRoot = disk[1].stateRoot
         /\ Made(disk[1].stateRoot) = disk[1].stateRoot
         /\ CheckpointsFit(l1, disk[1].reorgData.blockHashHistory, chain, disk[1].reorgData.checkpoints)

(* A node that may be stopped has saved where it is. *)
DiskSaved ==
    IF disk = <<>> THEN chain = <<>>
    ELSE /\ disk[1].lastProcessedBlock = lastProcessedBlock /\ disk[1].stateRoot = tracked
         /\ disk[1].reorgData.blockHashHistory = blockHashHistory
         /\ disk[1].reorgData.checkpoints = checkpoints

Stoppable ==
    pc \in {"start", "poll", "tip"} /\ "stop" \in Faults /\ mishaps < MaxMishaps

(* What the chain, the file and the queue have to do with the roots of L1. *)
DInv ==
    /\ ChainDerives(l1) /\ chain \in Seq(Root)
    /\ CheckpointsFit(l1, blockHashHistory, chain, checkpoints)
    /\ pc \notin {"down", "events"} => InStep
    /\ pc = "events" => EventsDerive
    /\ pc \in {"tip", "recover"} => job = NoJob
    /\ Resuming => DiskFits
    /\ Stoppable => DiskSaved

(* What goes wrong loses no block and no checkpoint, and a node that may   *)
(* be stopped has saved where it is: the owner sets no root, and no read   *)
(* fails before the stop.                                                  *)
Recoverable ==
    /\ Faults \cap {"crash", "checkpoint", "replay"} = {}
    /\ "stop" \in Faults => NoUpdates /\ ("read" \in Faults => MaxMishaps <= 1)

Harmless == mishaps > 0 => Recoverable

(* It holds as long as nothing has gone wrong that cannot be recovered     *)
(* from; what may still go wrong does not matter.                          *)
HDInv == mishaps \in Nat /\ (Harmless => DInv)

-----------------------------------------------------------------------------
(* L1. *)

(* L1 moves: what is replaced is not solid any more, and what is solid has *)
(* not moved.                                                              *)
LEMMA L1KeepsDerived ==
  ASSUME AccountingComesLast, PayloadsReplay, IInv, DInv, L1OK', L1,
         NEW k \in Nat, L1Step(l1, reorgs, l1', reorgs', k),
         UNCHANGED <<chain, disk, pc, job, memory, mishaps>>
  PROVE  DInv'
<1> DEFINE b == l1
           r == reorgs
           c == l1'
           s == reorgs'
           h == blockHashHistory
           last == lastProcessedBlock
<1>1. /\ chain' = chain /\ disk' = disk /\ pc' = pc /\ job' = job /\ lastProcessedBlock' = last
      /\ blockHashHistory' = h /\ checkpoints' = checkpoints /\ tracked' = tracked /\ mishaps' = mishaps
      /\ ActualStateRoot' = ActualStateRoot
  BY DEF memory, ActualStateRoot
<1>2. ChainOK(b, r) /\ ChainOK(c, s) /\ L1Step(b, r, c, s, k)
  BY DEF IInv, L1OK
<1>3. Len(b) \in Nat /\ Len(c) \in Nat
  BY <1>2, ChainTypes
<1>4. /\ last \in Nat /\ Recorded(b, r, h) /\ Covered(b, r, h, last)
      /\ CheckpointsOK(b, h, Horizon, checkpoints)
  BY DEF IInv, MemoryOK
<1>5. Fetching => job.from = last + 1 /\ job.to \in job.from..Len(b) /\ job.to \in Nat
  BY <1>3, <1>4 DEF IInv, JobOK
<1>6. Horizon \in Nat /\ Covered(b, r, h, Horizon)
  <2>1. CASE pc = "events"
    BY <1>5, <2>1 DEF Horizon, Fetching, IInv, JobOK
  <2>2. CASE pc # "events"
    BY <1>4, <2>2 DEF Horizon
  <2> QED
    BY <2>1, <2>2
<1> HIDE DEF b, r, c, s, h, last
<1>7. ChainDerives(c)
  BY L1Derives DEF IInv, DInv, c
<1>8. CheckpointsFit(c, h, chain, checkpoints)
  BY <1>2, <1>4, <1>6, StepKeepsFit DEF DInv, b, h
<1>9. ASSUME InStep PROVE InStep'
  <2> SUFFICES ASSUME Solid(c, h, last) PROVE ActualStateRoot = Made(tracked)
    BY <1>1 DEF InStep, c, h, last
  <2>1. Solid(b, h, last)
    BY <1>2, <1>4, StepKeepsSolid
  <2> QED
    BY <1>9, <2>1 DEF InStep, b, h, last
<1>10. ASSUME pc = "events" PROVE EventsDerive'
  <2> DEFINE q == job.queue
  <2>1. /\ job.to \in Nat /\ Covered(b, r, h, job.to) /\ QueueFine(q, job.from, job.to)
        /\ job.from \in Nat \ {0}
    BY <1>4, <1>5, <1>10 DEF IInv, JobOK, EventsJob, Fetching, b, r, h
  <2>2. EventsDerive
    BY <1>10 DEF DInv
  <2>3. ASSUME NEW n \in 0..job.to, Solid(c, h, n) PROVE n \in Nat /\ n <= k /\ Solid(b, h, n)
    <3>1. n \in Nat /\ Covered(b, r, h, n)
      BY <2>1, CoveredDown
    <3> QED
      BY <1>2, <1>4, <2>3, <3>1, StepKeepsSolid
  <2>4. \A i \in DOMAIN q : q[i].block \in 0..job.to /\ q[i].block \in Nat \ {0}
    BY <2>1 DEF QueueFine
  <2>5. ASSUME NEW i \in DOMAIN q, Solid(c, h, q[i].block) PROVE IsCanonical(c, q[i])
    <3> DEFINE n == q[i].block
    <3>1. n \in 0..job.to /\ n \in Nat \ {0}
      BY <2>4
    <3>2. n <= k /\ Solid(b, h, n)
      BY <2>3, <2>5, <3>1
    <3>3. IsCanonical(b, q[i])
      BY <2>2, <3>2 DEF EventsDerive, b, h
    <3>4. c[n] = b[n] /\ n \in 1..Len(c)
      BY <1>2, <1>3, <3>1, <3>2 DEF L1Step
    <3> QED
      BY <3>3, <3>4 DEF IsCanonical
  <2>6. Sure \in 0..job.to
    <3>1. CASE q = <<>>
      BY <2>1, <3>1 DEF Sure
    <3>2. CASE q # <<>>
      <4>1. q \in Seq(LogEntry)
        BY <2>1 DEF QueueFine
      <4>2. 1 \in DOMAIN q
        BY <3>2, <4>1, EmptySeq, LenProperties
      <4>3. NextBlock \in 0..job.to /\ NextBlock \in Nat \ {0}
        BY <2>4, <4>2 DEF NextBlock
      <4>4. NextBlock - 1 \in 0..job.to
        BY <2>1, <4>3
      <4> QED
        BY <3>2, <4>3, <4>4 DEF Sure
    <3> QED
      BY <3>1, <3>2
  <2>7. Solid(c, h, Sure) => QueueStarts
    BY <2>2, <2>3, <2>6 DEF EventsDerive, b, h
  <2>8. Sure' = Sure /\ (QueueStarts' <=> QueueStarts)
    BY <1>1 DEF Sure, NextBlock, QueueStarts
  <2>9. ASSUME Solid(l1', blockHashHistory', Sure') PROVE QueueStarts'
    BY <1>1, <2>7, <2>8, <2>9 DEF c, h
  <2>10. \A i \in DOMAIN job'.queue :
            /\ job'.queue[i].block >= job'.at
            /\ Solid(l1', blockHashHistory', job'.queue[i].block) => IsCanonical(l1', job'.queue[i])
    BY <1>1, <2>2, <2>5 DEF EventsDerive, c, h
  <2>11. /\ QueueLeads(job'.queue, job'.queue[1].event.currentState)
         /\ Rising(job'.queue) /\ QueueInOrder(job'.queue) /\ job'.at \in Nat
         /\ \A i \in DOMAIN checkpoints' :
               \/ checkpoints'[i].l1BlockNumber <= lastProcessedBlock'
               \/ checkpoints'[i].l1BlockNumber <= job'.at
    BY <1>1, <2>2 DEF EventsDerive, last
  <2> QED
    BY <2>9, <2>10, <2>11 DEF EventsDerive
<1>11. ASSUME DiskFits PROVE DiskFits'
  <2>1. CASE disk = <<>>
    BY <1>1, <1>11, <2>1 DEF DiskFits
  <2>2. CASE disk # <<>>
    <3> DEFINE n == disk[1].lastProcessedBlock
               g == disk[1].reorgData.blockHashHistory
               cps == disk[1].reorgData.checkpoints
    <3>1. /\ n \in Nat /\ Recorded(b, r, g) /\ Covered(b, r, g, n) /\ CheckpointsOK(b, g, n, cps)
      BY <2>2 DEF IInv, DiskOK, Restorable, Remembers, b, r
    <3>2. CheckpointsFit(b, g, chain, cps)
      BY <1>11, <2>2 DEF DiskFits, b
    <3> HIDE DEF n, g, cps
    <3>3. CheckpointsFit(c, g, chain, cps)
      BY <1>2, <3>1, <3>2, StepKeepsFit
    <3> QED
      BY <1>1, <1>11, <2>2, <3>3 DEF DiskFits, c, g, cps
  <2> QED
    BY <2>1, <2>2
<1>12. /\ Resuming' <=> Resuming
       /\ Stoppable' <=> Stoppable
       /\ DiskSaved' <=> DiskSaved
  BY <1>1 DEF Resuming, Stoppable, DiskSaved, h, last
<1>13. pc' \notin {"down", "events"} => InStep'
  BY <1>1, <1>9 DEF DInv
<1>14. pc' \in {"tip", "recover"} => job' = NoJob
  BY <1>1 DEF DInv
<1>15. CheckpointsFit(l1', blockHashHistory', chain', checkpoints') /\ chain' \in Seq(Root) /\ ChainDerives(l1')
  BY <1>1, <1>7, <1>8 DEF DInv, c, h
<1>16. (pc' = "events" => EventsDerive') /\ (Resuming' => DiskFits') /\ (Stoppable' => DiskSaved')
  BY <1>1, <1>10, <1>11, <1>12 DEF DInv
<1> QED
  BY <1>13, <1>14, <1>15, <1>16 DEF DInv

-----------------------------------------------------------------------------
(* The node's steps that neither change the chain nor forget anything. *)

(* Steps that change pc, job and mishaps only.                             *)
LEMMA QuietKeeps ==
  ASSUME DInv, UNCHANGED <<l1, chain, disk, memory>>,
         pc \notin {"down", "events"}, pc' \notin {"down", "events"},
         pc' \in {"tip", "recover"} => job' = NoJob,
         Resuming' => Resuming, Stoppable' => Stoppable
  PROVE  DInv'
<1>1. /\ l1' = l1 /\ chain' = chain /\ disk' = disk /\ lastProcessedBlock' = lastProcessedBlock
      /\ blockHashHistory' = blockHashHistory /\ checkpoints' = checkpoints /\ tracked' = tracked
      /\ ActualStateRoot' = ActualStateRoot
  BY DEF memory, ActualStateRoot
<1>2. /\ InStep' <=> InStep
      /\ DiskFits' <=> DiskFits
      /\ DiskSaved' <=> DiskSaved
  BY <1>1 DEF InStep, DiskFits, DiskSaved
<1> QED
  BY <1>1, <1>2 DEF DInv

(* A node that may be stopped after a step that nothing is saved in could  *)
(* be before it.                                                           *)
LEMMA MishapsGrow ==
  ASSUME mishaps \in Nat, mishaps' \in {mishaps, mishaps + 1}, pc \in {"start", "poll", "tip"}
  PROVE  Stoppable' => Stoppable
BY ProcessorConstants DEF Stoppable

(* The first fetch; detectReorg, the search for the fork, the look at the  *)
(* tip.                                                                    *)
LEMMA ReplayHistoricalEventsDerives ==
  ASSUME DInv, mishaps \in Nat, ReplayHistoricalEvents
  PROVE  DInv'
<1>1. /\ UNCHANGED <<l1, chain, disk, memory>> /\ pc = "start" /\ pc' \in {"hashes", "poll"}
      /\ mishaps' = mishaps
  BY DEF ReplayHistoricalEvents
<1>2. Resuming
  BY <1>1 DEF Resuming
<1> QED
  BY <1>1, <1>2, MishapsGrow, QuietKeeps

LEMMA DetectReorgDerives ==
  ASSUME DInv, mishaps \in Nat, DetectReorg
  PROVE  DInv'
<1>1. /\ UNCHANGED <<l1, chain, disk, memory>> /\ pc = "poll" /\ pc' \in {"tip", "search"}
      /\ mishaps' \in {mishaps, mishaps + 1} /\ (pc' = "tip" => job' = NoJob)
  BY DEF DetectReorg
<1>2. ~Resuming'
  BY <1>1 DEF Resuming
<1> QED
  BY <1>1, <1>2, MishapsGrow, QuietKeeps

LEMMA FindForkPointDerives ==
  ASSUME DInv, FindForkPoint
  PROVE  DInv'
<1>1. UNCHANGED <<l1, chain, disk, memory>> /\ pc = "search" /\ pc' = "search"
  BY DEF FindForkPoint
<1>2. ~Resuming' /\ ~Stoppable'
  BY <1>1 DEF Resuming, Stoppable
<1> QED
  BY <1>1, <1>2, QuietKeeps

LEMMA CheckTipDerives ==
  ASSUME DInv, mishaps \in Nat, CheckTip
  PROVE  DInv'
<1>1. /\ UNCHANGED <<l1, chain, disk, memory>> /\ pc = "tip" /\ pc' \in {"search", "hashes", "poll"}
      /\ mishaps' = mishaps
  BY DEF CheckTip
<1>2. ~Resuming'
  BY <1>1 DEF Resuming, CheckTip, FetchJob, Job
<1> QED
  BY <1>1, <1>2, MishapsGrow, QuietKeeps

-----------------------------------------------------------------------------
(* Stopping and starting. *)

LEMMA NoChain == ASSUME NEW x, x = <<>> PROVE FlattenSeq(x) = <<>> /\ x \in Seq(Root)
BY FlattenEmpty, EmptySeq

(* A node that goes down leaves the file behind, which describes its       *)
(* chain.                                                                  *)
LEMMA DownDerives ==
  ASSUME DInv, Down, DiskFits
  PROVE  DInv'
<1>1. /\ l1' = l1 /\ chain' = chain /\ disk' = disk /\ pc' = "down" /\ checkpoints' = <<>>
      /\ ActualStateRoot' = ActualStateRoot
  BY DEF Down, EmptyMemory, ActualStateRoot
<1>2. DiskFits' /\ ~Stoppable'
  BY <1>1 DEF DiskFits, Stoppable
<1>3. CheckpointsFit(l1', blockHashHistory', chain', checkpoints')
  BY <1>1, NoneFit
<1> QED
  BY <1>1, <1>2, <1>3 DEF DInv

(* An orderly stop: the file is the one of the state the node is in.       *)
LEMMA StopDerives ==
  ASSUME IInv, DInv, Stop, Recoverable
  PROVE  DInv'
<1>1. /\ Down /\ pc = "poll" /\ lastProcessedBlock = Len(l1) /\ Undisturbed
      /\ "stop" \in Faults /\ mishaps < MaxMishaps
  BY DEF Stop, UpToDate, Mishap
<1>2. Solid(l1, blockHashHistory, lastProcessedBlock)
  BY <1>1 DEF Undisturbed, Solid, HashMatches, Matches
<1>3. ActualStateRoot = Made(tracked)
  BY <1>1, <1>2 DEF DInv, InStep
<1>4. l1 \in Seq(Block) /\ Len(l1) \in Nat
  BY ChainTypes DEF IInv, L1OK
<1>5. tracked = RootAt(l1, Len(l1))
  BY <1>1, <1>2 DEF IInv, MemoryOK, Tracks
<1>6. Made(tracked) = tracked
  BY <1>1, <1>4, <1>5, RootMade DEF Recoverable, DInv
<1>7. DiskSaved
  BY <1>1 DEF DInv, Stoppable
<1>8. DiskFits
  BY <1>3, <1>6, <1>7 DEF DiskSaved, DiskFits, DInv
<1> QED
  BY <1>1, <1>8, DownDerives

(* A read that throws ends the poll; at the start it ends the process,     *)
(* whose file still describes the chain.                                   *)
LEMMA FetchFailsDerives ==
  ASSUME DInv, mishaps \in Nat, FetchFails, Recoverable
  PROVE  DInv'
<1>1. CASE pc = "start" \/ job.by = "start"
  <2>1. Down /\ pc \in {"start", "tip", "recover", "hashes", "query"}
    BY <1>1 DEF FetchFails
  <2>2. pc \notin {"tip", "recover"}
    BY <1>1 DEF DInv, NoJob, Job
  <2>3. Resuming
    BY <1>1, <2>1, <2>2 DEF Resuming
  <2> QED
    BY <2>1, <2>3, DownDerives DEF DInv
<1>2. CASE ~(pc = "start" \/ job.by = "start")
  <2>1. /\ UNCHANGED <<l1, chain, disk, memory>> /\ pc' = "poll"
        /\ pc \in {"tip", "recover", "hashes", "query"}
        /\ mishaps' = mishaps + 1 /\ "read" \in Faults
    BY <1>2 DEF FetchFails, Mishap
  <2>2. ~Resuming'
    BY <2>1 DEF Resuming
  <2>3. Stoppable' => Stoppable
    BY <2>1, ProcessorConstants DEF Stoppable, Recoverable
  <2> QED
    BY <2>1, <2>2, <2>3, QuietKeeps
<1> QED
  BY <1>1, <1>2

(* A node that has wiped its data starts with nothing.                     *)
LEMMA Emptied ==
  ASSUME DInv, EmptyMemory, chain' = <<>>, l1' = l1, pc' \notin {"down", "events"},
         pc' \in {"tip", "recover"} => job' = NoJob,
         Resuming' => disk' = <<>>, Stoppable' => disk' = <<>>
  PROVE  DInv'
<1>1. ActualStateRoot' = <<>> /\ chain' \in Seq(Root)
  BY NoChain DEF ActualStateRoot
<1>2. tracked' = <<>> /\ checkpoints' = <<>>
  BY DEF EmptyMemory, ResetState
<1>3. InStep'
  BY <1>1, <1>2, MadeNothing DEF InStep
<1>4. CheckpointsFit(l1', blockHashHistory', chain', checkpoints')
  BY <1>2, NoneFit
<1>5. (Resuming' => DiskFits') /\ (Stoppable' => DiskSaved')
  BY DEF DiskFits, DiskSaved
<1> QED
  BY <1>1, <1>3, <1>4, <1>5 DEF DInv

(* Start: the file is used if the chain has the root it names, and then    *)
(* its checkpoints fit; else the chain is empty.                           *)
LEMMA StartDerives ==
  ASSUME DInv, Start
  PROVE  DInv'
<1>1. /\ pc = "down" /\ pc' = "start" /\ l1' = l1 /\ chain' = chain /\ disk' = disk
      /\ ActualStateRoot' = ActualStateRoot
  BY DEF Start, ActualStateRoot
<1>2. DiskFits
  BY <1>1 DEF DInv, Resuming
<1>3. CASE disk = <<>>
  <2>1. EmptyMemory /\ chain = <<>>
    BY <1>2, <1>3 DEF Start, DiskFits
  <2> QED
    BY <1>1, <1>3, <2>1, Emptied
<1>4. CASE disk # <<>>
  <2>1. SetResumeState(disk[1]) /\ ActualStateRoot = disk[1].stateRoot
    BY <1>2, <1>4 DEF Start, DiskFits
  <2>2. /\ tracked' = disk[1].stateRoot /\ lastProcessedBlock' = disk[1].lastProcessedBlock
        /\ blockHashHistory' = disk[1].reorgData.blockHashHistory
        /\ checkpoints' = disk[1].reorgData.checkpoints
    BY <2>1 DEF SetResumeState
  <2>3. ActualStateRoot' = Made(tracked')
    BY <1>1, <1>2, <1>4, <2>2 DEF DiskFits
  <2>4. CheckpointsFit(l1', blockHashHistory', chain', checkpoints')
    BY <1>1, <1>2, <1>4, <2>2 DEF DiskFits
  <2>5. DiskFits'
    BY <1>1, <1>2 DEF DiskFits
  <2>6. DiskSaved'
    BY <1>1, <1>4, <2>2 DEF DiskSaved
  <2>7. InStep'
    BY <2>3 DEF InStep
  <2> QED
    BY <1>1, <2>4, <2>5, <2>6, <2>7 DEF DInv
<1> QED
  BY <1>3, <1>4

-----------------------------------------------------------------------------
(* Reorgs. *)

(* A prefix of a prefix.                                                   *)
LEMMA PartOfPart ==
  ASSUME NEW S, NEW s \in Seq(S), NEW k \in 0..Len(s), NEW m \in 0..k
  PROVE  /\ SubSeq(s, 1, k) \in Seq(S) /\ Len(SubSeq(s, 1, k)) = k
         /\ SubSeq(SubSeq(s, 1, k), 1, m) = SubSeq(s, 1, m)
<1> DEFINE t == SubSeq(s, 1, k)
<1>1. t \in Seq(S) /\ Len(t) = k /\ \A i \in 1..k : t[i] = s[i]
  BY SubSeqProperties, LenProperties
<1>2. /\ SubSeq(s, 1, m) \in Seq(S) /\ Len(SubSeq(s, 1, m)) = m
      /\ \A i \in 1..m : SubSeq(s, 1, m)[i] = s[i]
  BY SubSeqProperties, LenProperties
<1> HIDE DEF t
<1>3. /\ SubSeq(t, 1, m) \in Seq(S) /\ Len(SubSeq(t, 1, m)) = m
      /\ \A i \in 1..m : SubSeq(t, 1, m)[i] = t[i]
  BY <1>1, SubSeqProperties, LenProperties
<1>4. \A i \in 1..m : SubSeq(t, 1, m)[i] = SubSeq(s, 1, m)[i]
  BY <1>1, <1>2, <1>3
<1>5. SubSeq(t, 1, m) = SubSeq(s, 1, m)
  BY <1>2, <1>3, <1>4, SeqEqual
<1> QED
  BY <1>1, <1>5 DEF t

(* Unwinding to a checkpoint restores a state the chain was in, and the    *)
(* checkpoints before it still fit.                                        *)
LEMMA UnwindDerives ==
  ASSUME IInv, DInv, NEW n, NEW i \in DOMAIN FindCheckpointsBefore(n),
         Unwind(FindCheckpointsBefore(n)[i]),
         l1' = l1, pc' = "recover", job' = NoJob
  PROVE  DInv'
<1> DEFINE h == blockHashHistory
           cps == checkpoints
<1>1. IsSequence(cps)
  BY DEF IInv, MemoryOK, CheckpointsOK
<1>2. PICK j \in DOMAIN cps : FindCheckpointsBefore(n)[i] = cps[j]
  BY <1>1, CheckpointsBefore
<1> DEFINE cp == cps[j]
           at == cp.l1BlockNumber
           kept == cp.l2BlockNumber
<1>3. /\ chain' = SubSeq(chain, 1, kept) /\ tracked' = cp.trackedStateRoot
      /\ blockHashHistory' = HashesBefore(at) /\ checkpoints' = FindCheckpointsBefore(at)
      /\ lastProcessedBlock' = at - 1 /\ ActualStateRoot' = FlattenSeq(chain')
  BY <1>2 DEF Unwind, UnwindToBlock, RestoreState, PruneFromBlock, ActualStateRoot
<1>4. chain \in Seq(Root) /\ CheckpointsFit(l1, h, chain, cps) /\ ChainDerives(l1)
  BY DEF DInv
<1>5. /\ CheckpointFits(l1, h, chain, cp) /\ at \in Nat \ {0}
      /\ \A k \in DOMAIN cps : cps[k].l1BlockNumber \in Nat \ {0}
  <2>1. \A k \in DOMAIN cps : cps[k].l1BlockNumber \in 1..Horizon
    BY DEF IInv, MemoryOK, CheckpointsOK
  <2> QED
    BY <1>4, <2>1 DEF CheckpointsFit
<1>6. kept \in 0..Len(chain)
  BY <1>5 DEF CheckpointFits
<1>7. ASSUME NEW m \in Int, m < at, Solid(l1, HashesBefore(at), m)
      PROVE  Solid(l1, h, m)
  <2> SUFFICES ASSUME NEW x \in DOMAIN h, x <= m
               PROVE  Matches(l1, h, x)
    BY DEF Solid
  <2>1. x \in Nat
    BY ProcessorConstants DEF IInv, MemoryOK, Recorded
  <2>2. x < at
    BY <1>5, <1>7, <2>1
  <2>3. x \in DOMAIN HashesBefore(at) /\ HashesBefore(at)[x] = h[x]
    BY <2>2 DEF HashesBefore, Restrict
  <2> QED
    BY <1>7, <2>3 DEF Solid, Matches
<1>8. chain' \in Seq(Root) /\ Len(chain') = kept
  BY <1>3, <1>4, <1>6, PartOfPart
<1>9. InStep'
  <2> SUFFICES ASSUME Solid(l1, HashesBefore(at), at - 1)
               PROVE  FlattenSeq(chain') = Made(cp.trackedStateRoot)
    BY <1>3 DEF InStep
  <2>1. Solid(l1, h, at - 1)
    BY <1>5, <1>7
  <2> QED
    BY <1>3, <1>5, <2>1 DEF CheckpointFits
<1>10. \A k \in DOMAIN checkpoints' : \E x \in DOMAIN cps :
          checkpoints'[k] = cps[x] /\ cps[x].l1BlockNumber < at
  BY <1>1, <1>3, CheckpointsBefore
<1>11. ASSUME NEW x \in DOMAIN cps, cps[x].l1BlockNumber < at
       PROVE  CheckpointFits(l1, HashesBefore(at), chain', cps[x])
  <2> DEFINE l2 == cps[x].l2BlockNumber
             m == cps[x].l1BlockNumber - 1
  <2>1. CheckpointFits(l1, h, chain, cps[x]) /\ InOrderOf(cps[x], cp)
    BY <1>4 DEF CheckpointsFit
  <2>2. l2 \in 0..Len(chain) /\ l2 <= kept
    BY <1>11, <2>1 DEF CheckpointFits, InOrderOf
  <2>3. l2 \in 0..kept
    BY <1>6, <2>2
  <2>4. SubSeq(chain', 1, l2) = SubSeq(chain, 1, l2)
    BY <1>3, <1>4, <1>6, <2>3, PartOfPart
  <2>5. m \in Int /\ m < at
    BY <1>5, <1>11
  <2>6. Solid(l1, HashesBefore(at), m) => Solid(l1, h, m)
    BY <1>7, <2>5
  <2> QED
    BY <1>8, <2>1, <2>3, <2>4, <2>6 DEF CheckpointFits
<1>12. CheckpointsFit(l1, HashesBefore(at), chain', checkpoints')
  <2>1. \A k \in DOMAIN checkpoints' : CheckpointFits(l1, HashesBefore(at), chain', checkpoints'[k])
    BY <1>10, <1>11
  <2>2. \A x, y \in DOMAIN cps : InOrderOf(cps[x], cps[y])
    BY <1>4 DEF CheckpointsFit
  <2>3. \A k, x \in DOMAIN checkpoints' : InOrderOf(checkpoints'[k], checkpoints'[x])
    <3> SUFFICES ASSUME NEW k \in DOMAIN checkpoints', NEW x \in DOMAIN checkpoints'
                 PROVE  InOrderOf(checkpoints'[k], checkpoints'[x])
      OBVIOUS
    <3>1. PICK y \in DOMAIN cps : checkpoints'[k] = cps[y]
      BY <1>10
    <3>2. PICK z \in DOMAIN cps : checkpoints'[x] = cps[z]
      BY <1>10
    <3> QED
      BY <2>2, <3>1, <3>2
  <2> QED
    BY <2>1, <2>3 DEF CheckpointsFit
<1>13. ~Resuming' /\ ~Stoppable'
  BY DEF Resuming, Stoppable
<1> QED
  BY <1>3, <1>4, <1>8, <1>9, <1>12, <1>13 DEF DInv

(* handleReorg: unwind, or wipe.                                           *)
LEMMA HandleReorgDerives ==
  ASSUME IInv, DInv, HandleReorg
  PROVE  DInv'
<1> DEFINE before == FindCheckpointsBefore(job.from)
<1>1. /\ l1' = l1 /\ pc' = "recover" /\ job' = NoJob
      /\ (before # <<>> /\ Unwind(Last(before))) \/ Wipe
  BY DEF HandleReorg
<1>2. ~Resuming' /\ ~Stoppable'
  BY <1>1 DEF Resuming, Stoppable
<1>3. CASE Wipe
  BY <1>1, <1>2, <1>3, Emptied DEF Wipe, ClearRethData
<1>4. CASE before # <<>> /\ Unwind(Last(before))
  <2>1. IsSequence(checkpoints)
    BY DEF IInv, MemoryOK, CheckpointsOK
  <2>2. PICK i \in DOMAIN before : Last(before) = before[i]
    BY <1>4, <2>1, CheckpointsBefore
  <2> QED
    BY <1>1, <1>4, <2>2, UnwindDerives
<1> QED
  BY <1>1, <1>3, <1>4

-----------------------------------------------------------------------------
(* Fetching. *)

(* The end of a fetch: the queue is empty, the chain holds what is         *)
(* tracked, and the file is written.                                       *)
LEMMA FinishFetchDerives ==
  ASSUME DInv, FinishFetch
  PROVE  DInv'
<1>1. /\ l1' = l1 /\ chain' = chain /\ blockHashHistory' = blockHashHistory /\ checkpoints' = checkpoints
      /\ tracked' = tracked /\ pc = "events" /\ job.queue = <<>> /\ pc' = "poll"
      /\ lastProcessedBlock' = job.to /\ disk' = SyncState(job.to) /\ ActualStateRoot' = ActualStateRoot
  BY DEF FinishFetch, ActualStateRoot
<1>2. InStep'
  BY <1>1 DEF DInv, EventsDerive, Sure, QueueStarts, InStep
<1>3. DiskSaved'
  <2>1. /\ disk' # <<>> /\ disk'[1].lastProcessedBlock = job.to /\ disk'[1].stateRoot = tracked
        /\ disk'[1].reorgData.blockHashHistory = blockHashHistory
        /\ disk'[1].reorgData.checkpoints = checkpoints
    BY <1>1 DEF SyncState, ReorgData
  <2> QED
    BY <1>1, <2>1 DEF DiskSaved
<1>4. ~Resuming'
  BY <1>1 DEF Resuming
<1> QED
  BY <1>1, <1>2, <1>3, <1>4 DEF DInv

(* After a reorg: fetch again, or write the file.                          *)
LEMMA ReprocessFromCheckpointDerives ==
  ASSUME DInv, ReprocessFromCheckpoint
  PROVE  DInv'
<1>1. /\ UNCHANGED <<l1, chain, memory>> /\ pc = "recover"
  BY DEF ReprocessFromCheckpoint
<1>2. CASE lastProcessedBlock < Len(l1)
  <2>1. pc' = "hashes" /\ job'.by = "reorg" /\ disk' = disk
    BY <1>2 DEF ReprocessFromCheckpoint, FetchJob, Job
  <2>2. ~Resuming' /\ ~Stoppable'
    BY <2>1 DEF Resuming, Stoppable
  <2> QED
    BY <1>1, <2>1, <2>2, QuietKeeps
<1>3. CASE ~(lastProcessedBlock < Len(l1))
  <2>1. /\ l1' = l1 /\ chain' = chain /\ lastProcessedBlock' = lastProcessedBlock /\ pc' = "poll"
        /\ blockHashHistory' = blockHashHistory /\ checkpoints' = checkpoints /\ tracked' = tracked
        /\ disk' = SyncState(lastProcessedBlock) /\ ActualStateRoot' = ActualStateRoot
    BY <1>1, <1>3 DEF ReprocessFromCheckpoint, memory, ActualStateRoot
  <2>2. InStep'
    BY <1>1, <2>1 DEF DInv, InStep
  <2>3. DiskSaved'
    <3>1. /\ disk' # <<>> /\ disk'[1].lastProcessedBlock = lastProcessedBlock
          /\ disk'[1].stateRoot = tracked
          /\ disk'[1].reorgData.blockHashHistory = blockHashHistory
          /\ disk'[1].reorgData.checkpoints = checkpoints
      BY <2>1 DEF SyncState, ReorgData
    <3> QED
      BY <2>1, <3>1 DEF DiskSaved
  <2>4. ~Resuming'
    BY <2>1 DEF Resuming
  <2> QED
    BY <2>1, <2>2, <2>3, <2>4 DEF DInv
<1> QED
  BY <1>2, <1>3

(* Hashes that come or go while nothing else changes.                      *)
LEMMA HashesKeep ==
  ASSUME IInv, DInv, UNCHANGED <<l1, chain, disk, lastProcessedBlock, checkpoints, tracked>>,
         Knows(l1, blockHashHistory', blockHashHistory, lastProcessedBlock),
         pc = "hashes", pc' \in {"hashes", "query"}, job'.by = job.by
  PROVE  DInv'
<1> DEFINE h == blockHashHistory
           k == blockHashHistory'
           last == lastProcessedBlock
<1>1. /\ last \in Nat /\ Recorded(l1, reorgs, h) /\ CheckpointsOK(l1, h, last, checkpoints)
  BY DEF IInv, MemoryOK, Horizon
<1>2. CheckpointsFit(l1, h, chain, checkpoints) /\ InStep
  BY DEF DInv
<1>3. CheckpointsFit(l1, k, chain, checkpoints)
  <2> HIDE DEF h, k, last
  <2> QED
    BY <1>1, <1>2, FitWith DEF h, k, last
<1>4. Solid(l1, k, last) => Solid(l1, h, last)
  <2>1. last \in Int /\ last <= last
    BY <1>1
  <2> QED
    BY <1>1, <2>1, SolidWith
<1>5. InStep'
  BY <1>2, <1>4 DEF InStep, ActualStateRoot
<1>6. /\ Resuming' => Resuming
      /\ ~Stoppable'
  BY DEF Resuming, Stoppable
<1>7. DiskFits => DiskFits'
  BY DEF DiskFits, ActualStateRoot
<1> QED
  BY <1>3, <1>5, <1>6, <1>7 DEF DInv

(* recordBlockHashes, one block at a time, and the pruning after it.       *)
LEMMA RecordBlockHashDerives ==
  ASSUME IInv, DInv, RecordBlockHash
  PROVE  DInv'
<1>1. /\ UNCHANGED <<l1, chain, disk, lastProcessedBlock, checkpoints, tracked>>
      /\ pc = "hashes" /\ pc' = "hashes" /\ job'.by = job.by
  BY DEF RecordBlockHash
<1>2. \A n \in DOMAIN blockHashHistory :
         n \in DOMAIN blockHashHistory' /\ blockHashHistory'[n] = blockHashHistory[n]
  BY DEF RecordBlockHash
<1>3. Knows(l1, blockHashHistory', blockHashHistory, lastProcessedBlock)
  BY <1>2 DEF Knows
<1> QED
  BY <1>1, <1>3, HashesKeep

LEMMA PruneBlockHashHistoryDerives ==
  ASSUME IInv, DInv, PruneBlockHashHistory, ForgetsOnlyCanonical
  PROVE  DInv'
<1> DEFINE h == blockHashHistory
           k == blockHashHistory'
<1>1. /\ UNCHANGED <<l1, chain, disk, lastProcessedBlock, checkpoints, tracked>>
      /\ pc = "hashes" /\ pc' = "query" /\ job'.by = job.by /\ k = Restrict(h, Recent(DOMAIN h))
  BY DEF PruneBlockHashHistory
<1>2. /\ DOMAIN k = Recent(DOMAIN h) /\ \A n \in DOMAIN k : k[n] = h[n]
  BY <1>1 DEF Restrict, Recent
<1>3. \A n \in DOMAIN h \ DOMAIN k : Matches(l1, h, n)
  BY <1>2 DEF ForgetsOnlyCanonical, HashMatches, Matches
<1>4. Knows(l1, k, h, lastProcessedBlock)
  BY <1>2, <1>3 DEF Knows
<1> QED
  BY <1>1, <1>4, HashesKeep

(* The queue starts from the root that is tracked, if all is canonical up  *)
(* to there.                                                               *)
LEMMA QueryEventsDerives ==
  ASSUME IInv, DInv, QueryEvents
  PROVE  DInv'
<1> DEFINE q == Log(job.from..job.to)
           h == blockHashHistory
           last == lastProcessedBlock
           from == job.from
           to == job.to
<1>1. /\ l1' = l1 /\ chain' = chain /\ lastProcessedBlock' = last /\ blockHashHistory' = h
      /\ checkpoints' = checkpoints /\ tracked' = tracked /\ disk' = disk
      /\ pc = "query" /\ pc' = "events" /\ ActualStateRoot' = ActualStateRoot
      /\ job'.queue = q /\ job'.at = 0 /\ job'.to = to
  BY DEF QueryEvents, memory, ActualStateRoot
<1>2. /\ last \in Nat /\ Recorded(l1, reorgs, h)
      /\ CheckpointsOK(l1, h, last, checkpoints) /\ Tracks(l1, h, last, tracked)
  BY <1>1 DEF IInv, MemoryOK, Horizon
<1>3. from = last + 1 /\ to \in from..Len(l1)
  BY <1>1 DEF IInv, JobOK, Fetching
<1>4. L1OK /\ Len(l1) \in Nat
  BY ChainTypes DEF IInv, L1OK
<1>5. from \in Nat \ {0} /\ to \in Nat /\ from <= to /\ to <= Len(l1) /\ from - 1 = last /\ last <= to
  BY <1>2, <1>3, <1>4
<1>6. ChainDerives(l1) /\ InStep /\ CheckpointsFit(l1, h, chain, checkpoints) /\ chain \in Seq(Root)
  BY <1>1 DEF DInv
<1> HIDE DEF q, h, last, from, to
<1>7. LogDerives(q, RootAt(l1, last))
  BY <1>4, <1>5, <1>6, LogOfRangeDerives DEF q, from, to
<1>8. QueueFine(q, from, to)
  BY <1>4, <1>5, LogOfRange DEF q, from, to
<1>9. /\ q \in Seq(LogEntry) /\ DOMAIN q = 1..Len(q) /\ Len(q) \in Nat
      /\ \A i \in DOMAIN q : q[i].block \in from..to
  BY <1>8, LenProperties DEF QueueFine
<1>10. QueueLeads(q, q[1].event.currentState) /\ Rising(q) /\ QueueInOrder(q)
  <2> DEFINE root == q[1].event.currentState
  <2>1. QueueLeads(q, RootAt(l1, last)) /\ Rising(q) /\ QueueInOrder(q)
    BY <1>7 DEF LogDerives
  <2>2. \A i \in DOMAIN q : q[i].event.currentState = RootBefore(q, root, i)
    BY <2>1 DEF QueueLeads, RootBefore
  <2> QED
    BY <2>1, <2>2 DEF QueueLeads
<1>11. \A i \in DOMAIN q : q[i].block >= 0 /\ IsCanonical(l1, q[i])
  BY <1>5, <1>7, <1>9 DEF LogDerives, QueueCanonical
<1>12. ASSUME Solid(l1, h, Sure') PROVE QueueStarts'
  <2>1. q # <<>> => 1 \in DOMAIN q
    BY <1>9, EmptySeq
  <2>2. Sure' \in Int /\ last <= Sure'
    <3>1. CASE q = <<>>
      BY <1>1, <1>5, <3>1 DEF Sure
    <3>2. CASE q # <<>>
      <4>1. q[1].block \in from..to /\ q[1].block # 0 /\ NextBlock' = q[1].block
        BY <1>1, <1>5, <1>9, <2>1, <3>2 DEF NextBlock
      <4>2. Sure' = q[1].block - 1
        BY <1>1, <3>2, <4>1 DEF Sure
      <4> QED
        BY <1>2, <1>5, <4>1, <4>2
    <3> QED
      BY <3>1, <3>2
  <2> DEFINE n == Sure'
  <2>3. n \in Int /\ last <= n /\ Solid(l1, h, n)
    BY <1>12, <2>2
  <2> HIDE DEF n
  <2>4. Solid(l1, h, last)
    BY <1>2, <2>3, SolidDown
  <2>5. ActualStateRoot = Made(tracked)
    BY <1>6, <2>4 DEF InStep, h, last
  <2>6. tracked = RootAt(l1, last)
    BY <1>2, <2>4 DEF Tracks
  <2>7. q # <<>> => tracked = q[1].event.currentState
    BY <1>7, <2>1, <2>6 DEF LogDerives, QueueLeads, RootBefore
  <2> QED
    BY <1>1, <2>5, <2>7 DEF QueueStarts
<1>13. \A i \in DOMAIN checkpoints : checkpoints[i].l1BlockNumber <= last
  BY <1>2 DEF CheckpointsOK
<1>14. EventsDerive'
  BY <1>1, <1>10, <1>11, <1>12, <1>13 DEF EventsDerive
<1>15. ~Resuming' /\ ~Stoppable'
  BY <1>1 DEF Resuming, Stoppable
<1> QED
  BY <1>1, <1>6, <1>14, <1>15 DEF DInv, h

(* A checkpoint of the state the chain is in.                              *)
LEMMA FitMore ==
  ASSUME NEW b, NEW h, NEW n, NEW cps, CheckpointsOK(b, h, n, cps),
         NEW ch, CheckpointsFit(b, h, ch, cps), Len(ch) \in Nat,
         NEW cp, CheckpointFits(b, h, ch, cp), cp.l2BlockNumber = Len(ch),
         \A i \in DOMAIN cps : cps[i].l1BlockNumber <= cp.l1BlockNumber,
         cp.l1BlockNumber \in Nat, \A i \in DOMAIN cps : cps[i].l1BlockNumber \in Nat
  PROVE  /\ CheckpointsFit(b, h, ch, Append(cps, cp)) /\ IsSequence(Append(cps, cp))
         /\ Len(Append(cps, cp)) \in Nat
         /\ \A i \in DOMAIN Append(cps, cp) :
               Append(cps, cp)[i] = cp \/ \E j \in DOMAIN cps : Append(cps, cp)[i] = cps[j]
<1> DEFINE S == {cps[i] : i \in DOMAIN cps}
           T == S \cup {cp}
           y == Append(cps, cp)
<1>1. cps \in Seq(S)
  BY DEF CheckpointsOK, IsSequence
<1>2. cps \in Seq(T) /\ cp \in T
  BY <1>1, SeqMonotonic
<1> HIDE DEF S, T
<1>3. /\ y \in Seq(T) /\ Len(y) = Len(cps) + 1 /\ y[Len(cps) + 1] = cp /\ Len(cps) \in Nat
      /\ \A i \in 1..Len(cps) : y[i] = cps[i]
      /\ DOMAIN cps = 1..Len(cps) /\ DOMAIN y = 1..(Len(cps) + 1)
  BY <1>2, AppendProperties, LenProperties
<1> HIDE DEF y
<1>4. IsSequence(y)
  BY <1>3, OwnElements
<1>5. \A i \in DOMAIN y : y[i] = cp \/ \E j \in DOMAIN cps : y[i] = cps[j]
  <2> SUFFICES ASSUME NEW i \in DOMAIN y, i # Len(cps) + 1 PROVE i \in DOMAIN cps
    BY <1>3
  <2> QED
    BY <1>3
<1>6. \A i \in DOMAIN y : CheckpointFits(b, h, ch, y[i])
  BY <1>5 DEF CheckpointsFit
<1>7. ASSUME NEW i \in DOMAIN y, NEW j \in DOMAIN y PROVE InOrderOf(y[i], y[j])
  <2>1. CASE y[i] = cp
    <3>1. y[j].l1BlockNumber <= cp.l1BlockNumber /\ y[j].l1BlockNumber \in Nat
      BY <1>5
    <3> QED
      BY <2>1, <3>1 DEF InOrderOf
  <2>2. CASE y[j] = cp
    <3>1. y[i].l2BlockNumber <= Len(ch)
      BY <1>6 DEF CheckpointFits
    <3> QED
      BY <2>2, <3>1 DEF InOrderOf
  <2>3. CASE y[i] # cp /\ y[j] # cp
    <3>1. PICK k \in DOMAIN cps : y[i] = cps[k]
      BY <1>5, <2>3
    <3>2. PICK m \in DOMAIN cps : y[j] = cps[m]
      BY <1>5, <2>3
    <3> QED
      BY <3>1, <3>2 DEF CheckpointsFit
  <2> QED
    BY <2>1, <2>2, <2>3
<1>8. Len(y) \in Nat
  BY <1>3
<1> QED
  BY <1>4, <1>5, <1>6, <1>7, <1>8 DEF CheckpointsFit, y

(* Fewer checkpoints fit as well.                                          *)
LEMMA FitFewer ==
  ASSUME NEW b, NEW h, NEW ch, NEW cps, IsSequence(cps), CheckpointsFit(b, h, ch, cps),
         NEW k \in Nat, k <= Len(cps)
  PROVE  LET y == SubSeq(cps, k + 1, Len(cps))
         IN /\ CheckpointsFit(b, h, ch, y)
            /\ \A i \in DOMAIN y : \E j \in DOMAIN cps : y[i] = cps[j]
<1> DEFINE S == {cps[i] : i \in DOMAIN cps}
           y == SubSeq(cps, k + 1, Len(cps))
<1>1. cps \in Seq(S)
  BY DEF IsSequence
<1> HIDE DEF S
<1>2. /\ y \in Seq(S) /\ Len(y) = Len(cps) - k
      /\ \A i \in 1..(Len(cps) - k) : y[i] = cps[k + i]
  BY <1>1, Rest
<1> HIDE DEF y
<1>3. Len(cps) \in Nat /\ DOMAIN cps = 1..Len(cps) /\ DOMAIN y = 1..(Len(cps) - k)
  BY <1>1, <1>2, LenProperties
<1>4. ASSUME NEW i \in DOMAIN y PROVE \E j \in DOMAIN cps : y[i] = cps[j]
  <2>1. i \in 1..(Len(cps) - k) /\ i \in Nat
    BY <1>3
  <2>2. k + i \in DOMAIN cps /\ y[i] = cps[k + i]
    BY <1>2, <1>3, <2>1
  <2> QED
    BY <2>2
<1>5. ASSUME NEW i \in DOMAIN y, NEW j \in DOMAIN y PROVE InOrderOf(y[i], y[j])
  <2>1. PICK p \in DOMAIN cps : y[i] = cps[p]
    BY <1>4
  <2>2. PICK m \in DOMAIN cps : y[j] = cps[m]
    BY <1>4
  <2> QED
    BY <2>1, <2>2 DEF CheckpointsFit
<1>6. CheckpointsFit(b, h, ch, y)
  BY <1>4, <1>5 DEF CheckpointsFit
<1> QED
  BY <1>4, <1>6 DEF y

-----------------------------------------------------------------------------
(* Processing. *)

(* What is known of the queue while events are processed. *)
LEMMA QueueTypes ==
  ASSUME IInv, Processing
  PROVE  /\ QueueFine(job.queue, job.from, job.to) /\ job.queue \in Seq(LogEntry)
         /\ DOMAIN job.queue = 1..Len(job.queue) /\ Len(job.queue) \in Nat \ {0}
         /\ 1 \in DOMAIN job.queue /\ NextBlock \in job.from..job.to /\ NextBlock \in Nat
         /\ job.from = lastProcessedBlock + 1 /\ lastProcessedBlock \in Nat /\ job.to \in Nat
         /\ \A i \in DOMAIN job.queue : job.queue[i].block \in Nat
<1>1. /\ QueueFine(job.queue, job.from, job.to) /\ job.from = lastProcessedBlock + 1
      /\ job.to \in job.from..Len(l1) /\ lastProcessedBlock \in Nat
  BY DEF Processing, IInv, JobOK, Fetching, EventsJob, MemoryOK
<1>2. Len(l1) \in Nat
  BY ChainTypes DEF IInv, L1OK
<1> DEFINE q == job.queue
<1>3. q \in Seq(LogEntry) /\ q # <<>> /\ \A i \in DOMAIN q : q[i].block \in job.from..job.to
  BY <1>1 DEF Processing, QueueFine
<1>4. NextBlock = q[1].block
  BY DEF NextBlock
<1>5. job.to \in Nat /\ job.from \in Nat
  BY <1>1, <1>2
<1> HIDE DEF q
<1>6. DOMAIN q = 1..Len(q) /\ Len(q) \in Nat \ {0} /\ 1 \in DOMAIN q
  BY <1>3, EmptySeq, LenProperties
<1>7. NextBlock \in job.from..job.to /\ \A i \in DOMAIN q : q[i].block \in Nat
  BY <1>3, <1>4, <1>5, <1>6
<1>8. NextBlock \in Nat
  BY <1>5, <1>7
<1> QED
  BY <1>1, <1>3, <1>5, <1>6, <1>7, <1>8 DEF q

(* A checkpoint is saved before the first event of its block: the chain    *)
(* then holds what is tracked.                                             *)
LEMMA SaveCheckpointDerives ==
  ASSUME IInv, DInv, mishaps \in Nat, SaveCheckpoint, mishaps' > 0 => Recoverable
  PROVE  DInv'
<1> DEFINE h == blockHashHistory
           n == NextBlock
           q == job.queue
           last == lastProcessedBlock
           cps == checkpoints
           W == MAX_REORG_HISTORY
<1>1. /\ l1' = l1 /\ pc = "events" /\ pc' = "events" /\ chain' = chain /\ Processing
      /\ last' = last /\ h' = h /\ tracked' = tracked
      /\ q # <<>> /\ job.at # n /\ job' = [job EXCEPT !.at = n]
      /\ ActualStateRoot' = ActualStateRoot
  BY DEF SaveCheckpoint, Processing, ActualStateRoot
<1>2. PICK height :
         /\ height # Len(chain) => Mishap("checkpoint")
         /\ mishaps' = IF height = Len(chain) THEN mishaps ELSE mishaps + 1
         /\ checkpoints' = LET all == Append(cps, [l1BlockNumber |-> n,
                                                   l2BlockNumber |-> height,
                                                   trackedStateRoot |-> tracked])
                               surplus == Len(all) - W
                           IN IF surplus > 0 THEN SubSeq(all, surplus + 1, Len(all)) ELSE all
  BY DEF SaveCheckpoint
<1>3. height = Len(chain)
  <2> SUFFICES ASSUME height # Len(chain) PROVE FALSE
    OBVIOUS
  <2>1. "checkpoint" \in Faults /\ mishaps' = mishaps + 1
    BY <1>2 DEF Mishap
  <2>2. Recoverable
    BY <2>1
  <2> QED
    BY <2>1, <2>2 DEF Recoverable
<1> DEFINE cp == [l1BlockNumber |-> n, l2BlockNumber |-> Len(chain), trackedStateRoot |-> tracked]
           all == Append(cps, cp)
           surplus == Len(all) - W
<1>4. checkpoints' = IF surplus > 0 THEN SubSeq(all, surplus + 1, Len(all)) ELSE all
  BY <1>2, <1>3
<1>5. cp.l1BlockNumber = n /\ cp.trackedStateRoot = tracked /\ cp.l2BlockNumber = Len(chain)
  OBVIOUS
<1> HIDE DEF cp
<1>6. /\ n \in Nat /\ last \in Nat /\ last < n /\ DOMAIN q = 1..Len(q) /\ 1 \in DOMAIN q
      /\ \A i \in DOMAIN q : q[i].block \in Nat
  BY <1>1, QueueTypes
<1>7. /\ ChainDerives(l1) /\ chain \in Seq(Root) /\ CheckpointsFit(l1, h, chain, cps) /\ EventsDerive
  BY <1>1 DEF DInv
<1>8. /\ Recorded(l1, reorgs, h) /\ CheckpointsOK(l1, h, job.to, cps)
  BY <1>1 DEF IInv, MemoryOK, Horizon
<1>9. \A i \in DOMAIN cps : cps[i].l1BlockNumber \in Nat
  BY <1>8 DEF CheckpointsOK
<1>10. job.at <= n /\ \A i \in DOMAIN cps : cps[i].l1BlockNumber <= last \/ cps[i].l1BlockNumber <= job.at
  <2>1. q[1].block >= job.at
    BY <1>6, <1>7 DEF EventsDerive
  <2>2. n = q[1].block /\ job.at \in Nat
    BY <1>7 DEF NextBlock, EventsDerive
  <2>3. q[1].block \in Nat
    BY <1>6
  <2> QED
    BY <1>7, <2>1, <2>2, <2>3 DEF EventsDerive
<1>11. \A i \in DOMAIN cps : cps[i].l1BlockNumber <= n
  <2>1. job.at \in Nat
    BY <1>7 DEF EventsDerive
  <2> QED
    BY <1>6, <1>9, <1>10, <2>1
<1>12. Sure = n - 1 /\ Sure' = n
  <2>1. NextBlock' = n /\ job'.queue = q /\ job'.at = n
    BY <1>1 DEF NextBlock
  <2> QED
    BY <1>1, <2>1 DEF Sure
<1>13. Solid(l1, h, n - 1) => QueueStarts
  BY <1>7, <1>12 DEF EventsDerive
<1>14. CheckpointFits(l1, h, chain, cp)
  <2>1. Len(chain) \in 0..Len(chain) /\ SubSeq(chain, 1, Len(chain)) = chain
    BY <1>7, LenProperties, SubSeqFull
  <2> QED
    BY <1>5, <1>13, <2>1 DEF CheckpointFits, QueueStarts, ActualStateRoot
<1> HIDE DEF n, h, cps
<1>15. /\ CheckpointsFit(l1, h, chain, all) /\ IsSequence(all) /\ Len(all) \in Nat
       /\ \A i \in DOMAIN all : all[i] = cp \/ \E j \in DOMAIN cps : all[i] = cps[j]
  <2>1. Len(chain) \in Nat
    BY <1>7, LenProperties
  <2> QED
    BY <1>5, <1>6, <1>7, <1>8, <1>9, <1>11, <1>14, <2>1, FitMore
<1> HIDE DEF all
<1>16. /\ CheckpointsFit(l1, h, chain, checkpoints')
       /\ \A i \in DOMAIN checkpoints' : \E j \in DOMAIN all : checkpoints'[i] = all[j]
  <2>1. CASE surplus > 0
    <3>1. surplus \in Nat /\ surplus <= Len(all)
      BY <1>15, <2>1, ProcessorConstants
    <3> HIDE DEF surplus
    <3>2. checkpoints' = SubSeq(all, surplus + 1, Len(all))
      BY <1>4, <2>1
    <3> QED
      BY <1>15, <3>1, <3>2, FitFewer
  <2>2. CASE ~(surplus > 0)
    BY <1>4, <1>15, <2>2
  <2> QED
    BY <2>1, <2>2
<1>17. \A i \in DOMAIN checkpoints' : checkpoints'[i].l1BlockNumber <= n
  BY <1>5, <1>6, <1>11, <1>15, <1>16
<1>18. EventsDerive'
  <2>1. job'.queue = q /\ job'.at = n /\ n = q[1].block
    BY <1>1 DEF NextBlock, n
  <2>2. /\ QueueLeads(q, q[1].event.currentState) /\ Rising(q) /\ QueueInOrder(q)
        /\ \A i \in DOMAIN q : Solid(l1, h, q[i].block) => IsCanonical(l1, q[i])
    BY <1>7 DEF EventsDerive, h
  <2>3. \A i \in DOMAIN q : q[i].block >= n
    <3>1. \A i \in DOMAIN q : 1 <= i
      BY <1>6
    <3>2. \A i \in DOMAIN q : q[1].block <= q[i].block
      BY <1>6, <2>2, <3>1 DEF Rising
    <3> QED
      BY <1>6, <2>1, <3>2
  <2>4. ASSUME Solid(l1, h, n) PROVE QueueStarts'
    <3>1. n \in Int /\ n - 1 \in Int /\ n - 1 <= n
      BY <1>6
    <3>2. Solid(l1, h, n - 1)
      BY <1>8, <2>4, <3>1, SolidDown
    <3> QED
      BY <1>1, <1>13, <2>1, <3>2 DEF QueueStarts
  <2>5. Solid(l1', blockHashHistory', Sure') => QueueStarts'
    BY <1>1, <1>12, <2>4 DEF h
  <2>6. \A i \in DOMAIN job'.queue :
           /\ job'.queue[i].block >= job'.at
           /\ Solid(l1', blockHashHistory', job'.queue[i].block) => IsCanonical(l1', job'.queue[i])
    BY <1>1, <2>1, <2>2, <2>3 DEF h
  <2>7. job'.at \in Nat /\ \A i \in DOMAIN checkpoints' : checkpoints'[i].l1BlockNumber <= job'.at
    BY <1>6, <1>17, <2>1
  <2> QED
    BY <2>1, <2>2, <2>5, <2>6, <2>7 DEF EventsDerive
<1>19. ~Resuming' /\ ~Stoppable'
  BY <1>1 DEF Resuming, Stoppable
<1> QED
  BY <1>1, <1>7, <1>16, <1>18, <1>19 DEF DInv, h

(* The k executions of block at the head of queue, the first p of which    *)
(* change the state.                                                       *)
Splits(queue, block, k, p) ==
    /\ k \in 1..Len(queue) /\ p \in 0..k
    /\ \A i \in 1..k : queue[i].event.kind # "update" /\ queue[i].block = block
    /\ k = Len(queue) \/ queue[k + 1].event.kind = "update" \/ queue[k + 1].block # block
    /\ \A i \in 1..k : Changes(queue[i].event.kind) <=> i <= p

(* The group at the head of the queue is one of those, and its batch the   *)
(* part that changes the state.                                            *)
LEMMA GroupSplits ==
  ASSUME NEW from, NEW to, QueueFine(job.queue, from, to), job.queue # <<>>, IsExecution(job.queue[1])
  PROVE  \E k, p : /\ Splits(job.queue, NextBlock, k, p)
                   /\ Group = HeadOf(job.queue, k) /\ Len(Group) = k /\ Group \in Seq(Event)
                   /\ Batch = SubSeq(Group, 1, p) /\ Len(Batch) = p
<1> DEFINE q == job.queue
           N == Len(q)
<1>1. q \in Seq(LogEntry) /\ N \in Nat /\ DOMAIN q = 1..N /\ \A i \in 1..N : q[i] \in LogEntry
  <2>1. q \in Seq(LogEntry)
    BY DEF QueueFine
  <2> QED
    BY <2>1, LenProperties, ElementOfSeq
<1>2. PICK k \in 1..N :
         /\ Group = HeadOf(q, k) /\ Len(Group) = k /\ DOMAIN Group = 1..k
         /\ \A i \in 1..k : IsExecution(q[i]) /\ q[i].block = NextBlock
         /\ k = N \/ ~IsExecution(q[k + 1]) \/ q[k + 1].block # NextBlock
  BY <1>1, GroupShape
<1>3. k \in Nat /\ k <= N /\ \A i \in 1..k : i \in DOMAIN q /\ i \in Nat
  BY <1>1
<1>4. \A i \in 1..k : Group[i] = q[i].event
  BY <1>2 DEF HeadOf
<1>5. Group \in Seq(Event)
  <2>1. \A i \in 1..k : q[i].event \in Event
    BY <1>1, <1>3 DEF LogEntry
  <2> QED
    BY <1>2, <1>3, <2>1 DEF HeadOf
<1>6. \A i \in 1..k : ChangesState(Group[i]) <=> Changes(q[i].event.kind)
  BY <1>3, <1>4 DEF QueueFine, Changes
<1> DEFINE places == {i \in DOMAIN Group : ChangesState(Group[i])}
<1>7. \A i \in 1..k : i \in places <=> Changes(q[i].event.kind)
  BY <1>2, <1>6
<1> HIDE DEF q, N, places
<1>8. \E p \in 0..k : \A i \in 1..k : i \in places <=> i <= p
  <2> DEFINE P == {0} \cup {i \in 1..k : i \in places}
  <2>1. P \in SUBSET (0..k) /\ 0 \in P /\ \A i \in 1..k : i \in P <=> i \in places
    BY <1>3
  <2> HIDE DEF P
  <2>2. PICK p \in P : \A j \in P : j <= p
    BY <1>3, <2>1, NatSetGreatest
  <2>3. ASSUME NEW i \in 1..k, i <= p PROVE i \in places
    <3> SUFFICES ASSUME i \notin places PROVE FALSE
      OBVIOUS
    <3>1. p \in 1..k /\ i # p /\ p \in places
      BY <2>1, <2>3
    <3>2. q[i].event.kind = "accounting" /\ Changes(q[p].event.kind)
      BY <1>7, <2>3, <3>1 DEF Changes
    <3>3. i < p /\ i \in DOMAIN q /\ p \in DOMAIN q
      BY <1>3, <2>3, <3>1
    <3>4. InOneBlock(q, i, p)
      <4>1. \A m \in i..p : m \in 1..k
        BY <1>3, <3>1, <3>3
      <4> QED
        BY <1>2, <2>3, <4>1 DEF InOneBlock, IsExecution
    <3>5. q[p].event.kind = "accounting"
      BY <3>2, <3>3, <3>4 DEF QueueFine, q
    <3> QED
      BY <3>2, <3>5 DEF Changes
  <2>4. ASSUME NEW i \in 1..k, i \in places PROVE i <= p
    BY <2>1, <2>2, <2>4
  <2> QED
    BY <2>1, <2>3, <2>4
<1>9. PICK p \in 0..k : \A i \in 1..k : i \in places <=> i <= p
  BY <1>8
<1>10. Batch = SubSeq(Group, 1, p)
  <2>1. 0 \in Nat /\ p \in Nat /\ 0 <= p /\ p <= Len(Group)
    BY <1>2, <1>3
  <2>2. \A i \in 1..Len(Group) : i \in places <=> 0 < i /\ i <= p
    BY <1>2, <1>3, <1>9
  <2>3. Picked(Group, places) = SubSeq(Group, 0 + 1, p)
    BY <1>5, <2>1, <2>2, PickedRun
  <2> QED
    BY <2>3 DEF Batch, places
<1>11. Len(Batch) = p
  <2>1. p \in 0..Len(Group)
    BY <1>2
  <2> QED
    BY <1>5, <1>10, <2>1, PartOfPart, EmptySeq
<1>12. Splits(q, NextBlock, k, p)
  <2>1. \A i \in 1..k : Changes(q[i].event.kind) <=> i <= p
    BY <1>7, <1>9
  <2> QED
    BY <1>2, <1>9, <2>1 DEF Splits, IsExecution, N
<1> QED
  BY <1>2, <1>5, <1>10, <1>11, <1>12 DEF q

(* What is cut off at k takes nothing from what a batch behind it needs.   *)
CutAt(queue, k) ==
    \A d \in 1..k : \A i, j \in (k + 1)..Len(queue) :
        i < j /\ InOneBlock(queue, d, j) =>
           ~(Changes(queue[i].event.kind) /\ Changes(queue[j].event.kind))

(* So the order of the batches in the rest is as it was.                   *)
LEMMA DropInOrder ==
  ASSUME NEW q \in Seq(LogEntry), QueueInOrder(q), NEW k \in 1..Len(q), CutAt(q, k)
  PROVE  QueueInOrder(SubSeq(q, k + 1, Len(q)))
<1> DEFINE L == Len(q)
           rest == SubSeq(q, k + 1, Len(q))
<1>1. L \in Nat /\ DOMAIN q = 1..L /\ k \in Nat /\ k <= L
  BY LenProperties
<1>2. /\ rest \in Seq(LogEntry) /\ Len(rest) = L - k
      /\ \A i \in 1..(L - k) : rest[i] = q[k + i]
  BY <1>1, Rest
<1> HIDE DEF rest
<1>3. DOMAIN rest = 1..(L - k)
  BY <1>2, LenProperties
<1>4. \A i \in 1..(L - k) : i \in Nat /\ i > 0 /\ k + i \in 1..L /\ k + i \in (k + 1)..L
  BY <1>1
<1> HIDE DEF L
<1>5. ASSUME NEW i \in 1..(L - k), NEW j \in 1..(L - k)
      PROVE  InOneBlock(rest, i, j) <=> InOneBlock(q, k + i, k + j)
  <2> DEFINE a == k + i
             b == k + j
  <2>1. \A m \in i..j : m \in 1..(L - k) /\ k + m \in a..b
    BY <1>1, <1>4
  <2>2. \A m \in a..b : m - k \in i..j /\ k + (m - k) = m
    BY <1>1, <1>4
  <2>3. rest[i] = q[a]
    BY <1>2
  <2>4. \A m \in i..j : rest[m] = q[k + m]
    BY <1>2, <2>1
  <2> HIDE DEF a, b
  <2>5. ASSUME InOneBlock(rest, i, j) PROVE InOneBlock(q, a, b)
    <3> SUFFICES ASSUME NEW m \in a..b PROVE q[m].block = q[a].block /\ q[m].event.kind # "update"
      BY DEF InOneBlock
    <3> DEFINE t == m - k
    <3>1. t \in i..j /\ k + t = m
      BY <2>2
    <3> HIDE DEF t
    <3>2. rest[t] = q[m]
      BY <2>4, <3>1
    <3> QED
      BY <2>3, <2>5, <3>1, <3>2 DEF InOneBlock
  <2>6. ASSUME InOneBlock(q, a, b) PROVE InOneBlock(rest, i, j)
    <3> SUFFICES ASSUME NEW m \in i..j PROVE rest[m].block = rest[i].block /\ rest[m].event.kind # "update"
      BY DEF InOneBlock
    <3>1. k + m \in a..b /\ rest[m] = q[k + m]
      BY <2>1, <2>4
    <3> QED
      BY <2>3, <2>6, <3>1 DEF InOneBlock
  <2> QED
    BY <2>5, <2>6 DEF a, b
<1> SUFFICES ASSUME NEW i \in 1..(L - k), NEW j \in 1..(L - k), i < j, InOneBlock(rest, i, j),
                    Changes(rest[i].event.kind), Changes(rest[j].event.kind)
             PROVE  /\ rest[i].event.kind \in {"tx", "deploy"}
                    /\ rest[j].event.kind \in {"tx", "deploy", "withdrawal"}
                    /\ rest[j].event.kind = "withdrawal" => DeploysFirstIn(rest, j)
  BY <1>3 DEF QueueInOrder, rest
<1> DEFINE a == k + i
           b == k + j
<1>6. /\ a \in DOMAIN q /\ b \in DOMAIN q /\ a < b /\ rest[i] = q[a] /\ rest[j] = q[b]
      /\ InOneBlock(q, a, b) /\ a \in (k + 1)..L /\ b \in (k + 1)..L
  BY <1>1, <1>2, <1>4, <1>5
<1>7. /\ q[a].event.kind \in {"tx", "deploy"}
      /\ q[b].event.kind \in {"tx", "deploy", "withdrawal"}
      /\ q[b].event.kind = "withdrawal" => DeploysFirstIn(q, b)
  BY <1>6 DEF QueueInOrder
<1>8. ASSUME DeploysFirstIn(q, b) PROVE DeploysFirstIn(rest, j)
  <2>1. PICK d \in 1..(b - 1) :
           /\ InOneBlock(q, d, b)
           /\ \A m \in 1..(b - 1) : InOneBlock(q, m, b) => (q[m].event.kind = "deploy" <=> m <= d)
    BY <1>8 DEF DeploysFirstIn
  <2>2. d > k
    <3> SUFFICES ASSUME d \in 1..k PROVE FALSE
      BY <1>1, <1>4
    <3> QED
      BY <1>6, <2>1 DEF CutAt, L
  <2> DEFINE e == d - k
  <2>3. e \in 1..(j - 1) /\ e \in 1..(L - k) /\ k + e = d
    BY <1>1, <1>4, <2>2
  <2> HIDE DEF e
  <2>4. InOneBlock(rest, e, j)
    BY <1>5, <2>1, <2>3
  <2>5. ASSUME NEW m \in 1..(j - 1), InOneBlock(rest, m, j)
        PROVE  rest[m].event.kind = "deploy" <=> m <= e
    <3> DEFINE c == k + m
    <3>1. m \in 1..(L - k) /\ c \in 1..(b - 1) /\ (c <= d <=> m <= e)
      BY <1>1, <1>4, <2>3
    <3>2. rest[m] = q[c] /\ InOneBlock(q, c, b)
      BY <1>2, <1>5, <2>5, <3>1
    <3> HIDE DEF b, c
    <3>3. q[c].event.kind = "deploy" <=> c <= d
      BY <2>1, <3>1, <3>2
    <3> QED
      BY <3>1, <3>2, <3>3
  <2> QED
    BY <2>3, <2>4, <2>5 DEF DeploysFirstIn
<1> QED
  BY <1>6, <1>7, <1>8

(* The chain has grown, if it has changed. *)
ChainGrows ==
    /\ chain' \in Seq(Root) /\ Len(chain) \in Nat /\ Len(chain) <= Len(chain')
    /\ \A k \in 0..Len(chain) : SubSeq(chain', 1, k) = SubSeq(chain, 1, k)

(* A job that goes on with what is left of its queue.                      *)
LEMMA EventsTaken ==
  ASSUME NEW s, job' = [job EXCEPT !.queue = s]
  PROVE  job'.queue = s /\ job'.to = job.to /\ job'.at = job.at
OBVIOUS

(* k events are done: the queue is cut there, the tracked root is the one  *)
(* after the k-th.                                                         *)
LEMMA EventsDoneDerive ==
  ASSUME IInv, DInv, Processing, job.at = NextBlock, ChainGrows,
         UNCHANGED <<l1, disk, pc, lastProcessedBlock, blockHashHistory, checkpoints>>,
         NEW k \in 1..Len(job.queue), CutAt(job.queue, k),
         tracked' = job.queue[k].event.newState,
         job' = [job EXCEPT !.queue = SubSeq(job.queue, k + 1, Len(job.queue))],
         Solid(l1, blockHashHistory, NextBlock) => ActualStateRoot' = Made(tracked')
  PROVE  DInv'
<1> DEFINE h == blockHashHistory
           q == job.queue
           L == Len(q)
           rest == SubSeq(q, k + 1, Len(q))
           to == job.to
           n == NextBlock
<1>1. /\ l1' = l1 /\ disk' = disk /\ pc = "events" /\ pc' = "events" /\ blockHashHistory' = h
      /\ lastProcessedBlock' = lastProcessedBlock /\ checkpoints' = checkpoints
  BY DEF Processing
<1> HIDE DEF rest
<1>2. job'.to = to /\ job'.queue = rest /\ job'.at = n
  <2>1. job' = [job EXCEPT !.queue = rest]
    BY DEF rest
  <2> QED
    BY <2>1, EventsTaken
<1>3. /\ q \in Seq(LogEntry) /\ DOMAIN q = 1..L /\ L \in Nat /\ n \in Nat /\ to \in Nat /\ n <= to
      /\ \A i \in 1..L : q[i].block \in Nat
  BY QueueTypes
<1>4. Recorded(l1, reorgs, h)
  BY DEF IInv, MemoryOK
<1>5. ChainDerives(l1) /\ CheckpointsFit(l1, h, chain, checkpoints) /\ EventsDerive
  BY <1>1 DEF DInv
<1>6. /\ QueueLeads(q, q[1].event.currentState) /\ Rising(q) /\ QueueInOrder(q)
      /\ \A i \in DOMAIN q : q[i].block >= n /\ (Solid(l1, h, q[i].block) => IsCanonical(l1, q[i]))
      /\ \A i \in DOMAIN checkpoints :
            checkpoints[i].l1BlockNumber <= lastProcessedBlock \/ checkpoints[i].l1BlockNumber <= n
  BY <1>5 DEF EventsDerive
<1>7. k \in Nat /\ k <= L
  BY <1>3
<1>8. /\ rest \in Seq(LogEntry) /\ Len(rest) = L - k
      /\ \A i \in 1..(L - k) : rest[i] = q[k + i]
  BY <1>3, <1>7, Rest DEF rest
<1>9. DOMAIN rest = 1..(L - k)
  BY <1>8, LenProperties
<1>10. QueueInOrder(rest)
  BY <1>3, <1>6, DropInOrder DEF rest
<1> HIDE DEF q, L, n, h, to
<1>11. \A i \in 1..(L - k) : i \in Nat /\ i > 0 /\ k + i \in 1..L
  BY <1>3, <1>7, SMTT(30)
<1>12. CheckpointsFit(l1, h, chain', checkpoints)
  BY <1>5, FitLonger DEF ChainGrows
<1>13. QueueLeads(rest, rest[1].event.currentState)
  <2> SUFFICES ASSUME NEW i \in 1..(L - k)
               PROVE  /\ rest[i].event.currentState = RootBefore(rest, rest[1].event.currentState, i)
                      /\ EventDerives(rest[i].event)
    BY <1>9 DEF QueueLeads
  <2> DEFINE p == k + i
             root == q[1].event.currentState
  <2>1. p \in DOMAIN q /\ rest[i] = q[p] /\ p # 1
    BY <1>3, <1>7, <1>8, <1>11
  <2>2. q[p].event.currentState = RootBefore(q, root, p) /\ EventDerives(q[p].event)
    BY <1>6, <2>1 DEF QueueLeads
  <2>3. CASE i = 1
    BY <2>1, <2>2, <2>3 DEF RootBefore
  <2>4. CASE i # 1
    <3> DEFINE j == i - 1
    <3>1. j \in 1..(L - k) /\ k + j = p - 1
      <4>1. i \in Nat /\ i > 0 /\ i <= L - k /\ L - k \in Int
        BY <1>3, <1>7, <1>11
      <4> QED
        BY <1>7, <2>4, <4>1
    <3>2. rest[j] = q[k + j]
      BY <1>8, <3>1
    <3>3. rest[j] = q[p - 1]
      BY <3>1, <3>2
    <3> HIDE DEF p
    <3> QED
      BY <2>1, <2>2, <2>4, <3>3 DEF RootBefore
  <2> QED
    BY <2>3, <2>4
<1>14. Rising(rest)
  <2> SUFFICES ASSUME NEW i \in 1..(L - k), NEW j \in 1..(L - k), i <= j
               PROVE  rest[i].block <= rest[j].block
    BY <1>9 DEF Rising
  <2>1. k + i <= k + j /\ k + i \in DOMAIN q /\ k + j \in DOMAIN q
    BY <1>3, <1>7, <1>11
  <2>2. q[k + i].block <= q[k + j].block
    BY <1>6, <2>1 DEF Rising
  <2> QED
    BY <1>8, <2>2
<1>15. \A i \in DOMAIN rest : /\ rest[i].block >= n /\ rest[i].block \in Nat
                              /\ Solid(l1, h, rest[i].block) => IsCanonical(l1, rest[i])
  <2> SUFFICES ASSUME NEW i \in 1..(L - k)
               PROVE  /\ rest[i].block >= n /\ rest[i].block \in Nat
                      /\ Solid(l1, h, rest[i].block) => IsCanonical(l1, rest[i])
    BY <1>9
  <2>1. rest[i] = q[k + i] /\ k + i \in DOMAIN q /\ k + i \in 1..L
    BY <1>3, <1>8, <1>11
  <2> DEFINE p == k + i
  <2> HIDE DEF p
  <2>2. rest[i] = q[p] /\ p \in DOMAIN q /\ p \in 1..L
    BY <2>1 DEF p
  <2> QED
    BY <1>3, <1>6, <2>2
<1>16. ASSUME rest # <<>>
       PROVE  1 \in DOMAIN rest /\ tracked' = rest[1].event.currentState
  <2>1. 1 \in 1..(L - k)
    <3>1. Len(rest) # 0 /\ Len(rest) \in Nat
      BY <1>8, <1>16, EmptySeq, LenProperties
    <3> QED
      BY <1>3, <1>7, <1>8, <3>1
  <2> DEFINE p == k + 1
  <2>2. p \in DOMAIN q /\ rest[1] = q[p] /\ p # 1 /\ p - 1 = k
    BY <1>3, <1>7, <1>8, <1>11, <2>1
  <2> HIDE DEF p
  <2>3. q[p].event.currentState = q[k].event.newState
    BY <1>6, <2>2 DEF QueueLeads, RootBefore
  <2> QED
    BY <1>9, <2>1, <2>2, <2>3 DEF q
<1>17. ASSUME Solid(l1, h, Sure') PROVE QueueStarts'
  <2>1. Sure' \in Int /\ n <= Sure'
    <3>1. CASE rest = <<>>
      BY <1>2, <1>3, <3>1 DEF Sure
    <3>2. CASE rest # <<>>
      <4>1. NextBlock' = rest[1].block /\ rest[1].block >= n /\ rest[1].block \in Nat
        BY <1>2, <1>15, <1>16, <3>2 DEF NextBlock
      <4>2. Sure' = IF n = rest[1].block THEN rest[1].block ELSE rest[1].block - 1
        BY <1>2, <3>2, <4>1 DEF Sure
      <4> QED
        BY <1>3, <4>1, <4>2
    <3> QED
      BY <3>1, <3>2
  <2> DEFINE m == Sure'
  <2>2. m \in Int /\ n <= m /\ Solid(l1, h, m)
    BY <1>17, <2>1
  <2> HIDE DEF m
  <2>3. Solid(l1, h, n)
    BY <1>3, <1>4, <2>2, SolidDown
  <2>4. ActualStateRoot' = Made(tracked')
    BY <2>3 DEF n, h
  <2> QED
    BY <1>2, <1>16, <2>4 DEF QueueStarts
<1>18. EventsDerive'
  <2>1. Solid(l1', blockHashHistory', Sure') => QueueStarts'
    BY <1>1, <1>17
  <2>2. \A i \in DOMAIN job'.queue :
           /\ job'.queue[i].block >= job'.at
           /\ Solid(l1', blockHashHistory', job'.queue[i].block) => IsCanonical(l1', job'.queue[i])
    BY <1>1, <1>2, <1>15
  <2>3. \A i \in DOMAIN checkpoints' :
            \/ checkpoints'[i].l1BlockNumber <= lastProcessedBlock'
            \/ checkpoints'[i].l1BlockNumber <= job'.at
    BY <1>1, <1>2, <1>6
  <2> QED
    BY <1>2, <1>3, <1>10, <1>13, <1>14, <2>1, <2>2, <2>3 DEF EventsDerive
<1>19. ~Resuming' /\ ~Stoppable'
  BY <1>1 DEF Resuming, Stoppable
<1> QED
  BY <1>1, <1>5, <1>12, <1>18, <1>19 DEF DInv, h, ChainGrows

(* The state that the next events start from, if their block is canonical. *)
LEMMA ReadyForNext ==
  ASSUME IInv, DInv, Processing, job.at = NextBlock, Solid(l1, blockHashHistory, NextBlock)
  PROVE  /\ ActualStateRoot = Made(job.queue[1].event.currentState)
         /\ Canonical(job.queue[1])
<1>1. EventsDerive /\ job.queue # <<>> /\ NextBlock = job.queue[1].block /\ 1 \in DOMAIN job.queue
  BY QueueTypes DEF DInv, Processing, NextBlock
<1>2. Sure = NextBlock
  BY <1>1 DEF Sure
<1>3. QueueStarts /\ IsCanonical(l1, job.queue[1])
  BY <1>1, <1>2 DEF EventsDerive
<1>4. l1 \in Seq(Block)
  BY ChainTypes DEF IInv, L1OK
<1> QED
  BY <1>1, <1>3, <1>4, LenProperties DEF QueueStarts, IsCanonical, Canonical

(* The first k events, replayed in blocks that hold their transactions.    *)
LEMMA HeadReplayed ==
  ASSUME IInv, DInv, mishaps \in Nat, mishaps' > 0 => Recoverable,
         Processing, job.at = NextBlock, UNCHANGED l1,
         NEW k \in 1..Len(job.queue), NEW blocks \in Seq(Root), Mine(blocks),
         Solid(l1, blockHashHistory, NextBlock) =>
            FlattenSeq(blocks) = TransactionsOf(HeadOf(job.queue, k))
  PROVE  /\ ChainGrows
         /\ Solid(l1, blockHashHistory, NextBlock) => ActualStateRoot' = Made(job.queue[k].event.newState)
<1> DEFINE q == job.queue
           root == q[1].event.currentState
           es == HeadOf(q, k)
<1>1. chain \in Seq(Root) /\ EventsDerive
  BY DEF DInv, Processing
<1>2. mishaps' > 0 => "replay" \notin Faults
  BY DEF Recoverable
<1>3. /\ ChainGrows
      /\ \A r \in Root : \A s \in Seq(Event) :
            /\ Leads(s, r) /\ ActualStateRoot = Made(r)
            /\ FlattenSeq(blocks) = TransactionsOf(s)
            /\ Canonical(job.queue[1])
            => ActualStateRoot' = Made(EndOf(s, r))
  BY <1>1, <1>2, MineDerives DEF ChainGrows
<1>4. /\ q \in Seq(LogEntry) /\ DOMAIN q = 1..Len(q) /\ Len(q) \in Nat /\ 1 \in DOMAIN q
  BY QueueTypes
<1>5. root \in Root /\ k \in 0..Len(q) /\ k + 1 # 1 /\ (k + 1) - 1 = k /\ \A i \in 1..k : i \in DOMAIN q
  <2>1. q[1] \in LogEntry
    BY <1>4
  <2> QED
    BY <1>4, <2>1 DEF LogEntry, Event
<1>6. QueueLeads(q, root)
  BY <1>1 DEF EventsDerive
<1> HIDE DEF q, root
<1>7. /\ es \in Seq(Event) /\ Leads(es, root) /\ EndOf(es, root) = RootBefore(q, root, k + 1)
  <2>1. \A i \in 1..k : /\ q[i].event.currentState = RootBefore(q, root, i)
                        /\ EventDerives(q[i].event)
    BY <1>5, <1>6 DEF QueueLeads
  <2> QED
    BY <1>4, <1>5, <2>1, HeadLeads
<1>8. EndOf(es, root) = q[k].event.newState
  BY <1>5, <1>7 DEF RootBefore
<1> HIDE DEF es
<1>9. ASSUME Solid(l1, blockHashHistory, NextBlock)
      PROVE  ActualStateRoot' = Made(q[k].event.newState)
  <2>1. ActualStateRoot = Made(root) /\ Canonical(job.queue[1])
    BY <1>9, ReadyForNext DEF root, q
  <2>2. FlattenSeq(blocks) = TransactionsOf(es)
    BY <1>9 DEF es, q
  <2> QED
    BY <1>3, <1>5, <1>7, <1>8, <2>1, <2>2
<1> QED
  BY <1>3, <1>9 DEF q

(* A queue with one event at its head.                                     *)
LEMMA OneEvent ==
  ASSUME NEW queue \in Seq(LogEntry), 1 \in DOMAIN queue
  PROVE  LET e == queue[1].event
         IN /\ TransactionsOf(HeadOf(queue, 1)) = Transactions(e)
            /\ e.kind \in Kinds /\ e.name \in STRING /\ e.currentState \in Root /\ e.newState \in Root
<1> DEFINE e == queue[1].event
           es == HeadOf(queue, 1)
           t == Transactions(e)
<1>1. e \in Event
  <2>1. queue[1] \in LogEntry
    BY ElementOfSeq, LenProperties
  <2> QED
    BY <2>1 DEF LogEntry
<1>2. e.kind \in Kinds /\ e.name \in STRING /\ e.currentState \in Root /\ e.newState \in Root
  BY <1>1 DEF Event
<1>3. es \in Seq(Event) /\ Len(es) = 1 /\ DOMAIN es = 1..1 /\ es[1] = e
  BY <1>1 DEF HeadOf
<1>4. t \in Root
  BY <1>2, TransactionsType
<1> DEFINE ts == [i \in DOMAIN es |-> Transactions(es[i])]
<1> HIDE DEF es, t
<1>5. ts \in Seq(Root) /\ Len(ts) = 1 /\ ts[1] = t
  BY <1>3, <1>4 DEF t
<1>6. <<t>> \in Seq(Root) /\ Len(<<t>>) = 1 /\ <<t>>[1] = t
  BY <1>4, Single
<1> HIDE DEF ts
<1>7. ts = <<t>>
  BY <1>5, <1>6, SeqEqual
<1>8. FlattenSeq(<<t>>) = t
  BY <1>4, FlattenOne DEF Root
<1> QED
  BY <1>2, <1>7, <1>8 DEF TransactionsOf, ts, es, t

(* The blocks in which one event is replayed hold its transactions.        *)
LEMMA OneReplayed ==
  ASSUME NEW e, e.kind \in Kinds, e.name \in STRING, e.currentState \in Root, e.newState \in Root,
         ChangesState(e) <=> e.kind # "accounting", NEW actual
  PROVE  /\ ReplayExecution(actual, e) \in Seq(Root)
         /\ EventDerives(e) /\ actual = Made(e.currentState) /\ e.kind # "update" =>
               FlattenSeq(ReplayExecution(actual, e)) = Transactions(e)
<1>1. Replayed(e) \in Seq(Root) /\ FlattenSeq(Replayed(e)) = Transactions(e)
  BY ReplayedOne
<1>2. <<>> \in Seq(Root) /\ FlattenSeq(<<>>) = <<>>
  BY NoChain
<1>3. ReplayExecution(actual, e) \in Seq(Root)
  BY <1>1, <1>2 DEF ReplayExecution
<1>4. ASSUME EventDerives(e), actual = Made(e.currentState), e.kind # "update"
      PROVE  FlattenSeq(ReplayExecution(actual, e)) = Transactions(e)
  <2>1. CASE ~ChangesState(e)
    <3>1. Transactions(e) = <<>>
      BY <2>1, TransactionsType
    <3> QED
      BY <1>2, <2>1, <3>1 DEF ReplayExecution
  <2>2. CASE ChangesState(e)
    <3> DEFINE root == e.currentState
               t == Transactions(e)
    <3>1. t \in Root /\ t # <<>>
      BY <1>4, <2>2, TransactionsType
    <3>2. e.newState = root \o t
      BY <1>4 DEF EventDerives, RootAfter
    <3> HIDE DEF root, t
    <3>3. root \in Root
      BY DEF root
    <3>4. Len(root \o t) = Len(root) + Len(t) /\ Len(root) \in Nat /\ Len(t) \in Nat
      BY <3>1, <3>3, ConcatProperties, LenProperties DEF Root
    <3>5. Len(t) # 0
      BY <3>1, EmptySeq DEF Root
    <3>6. Len(Made(root)) <= Len(root) /\ Len(Made(root)) \in Nat
      BY <3>3, MadeType
    <3>7. ~PreExecuted(actual, e)
      <4> SUFFICES ASSUME actual = e.newState PROVE FALSE
        BY DEF PreExecuted
      <4>1. Made(root) = root \o t
        BY <1>4, <3>2 DEF root
      <4> QED
        BY <3>4, <3>5, <3>6, <4>1
    <3> QED
      BY <1>1, <2>2, <3>7 DEF ReplayExecution
  <2> QED
    BY <2>1, <2>2
<1> QED
  BY <1>3, <1>4

(* ProcessEvent: one event, replayed in its own blocks.                    *)
LEMMA ProcessEventDerives ==
  ASSUME IInv, DInv, mishaps \in Nat, mishaps' > 0 => Recoverable, ProcessEvent
  PROVE  DInv'
<1> DEFINE q == job.queue
           e == q[1].event
           blocks == IF IsExecution(q[1]) THEN ReplayExecution(ActualStateRoot, e) ELSE <<>>
<1>1. /\ Processing /\ job.at = NextBlock /\ ~IsBatch /\ Mine(blocks) /\ tracked' = e.newState
      /\ UNCHANGED <<l1, disk, pc, lastProcessedBlock, blockHashHistory, checkpoints>>
      /\ job' = [job EXCEPT !.queue = Tail(job.queue)]
  BY DEF ProcessEvent, UpdateState
<1>2. /\ q \in Seq(LogEntry) /\ DOMAIN q = 1..Len(q) /\ Len(q) \in Nat \ {0} /\ 1 \in DOMAIN q
      /\ QueueFine(q, job.from, job.to) /\ q # <<>> /\ 1 \in 1..Len(q)
  BY <1>1, QueueTypes DEF Processing
<1>3. /\ e.kind \in Kinds /\ e.name \in STRING /\ e.currentState \in Root /\ e.newState \in Root
      /\ TransactionsOf(HeadOf(q, 1)) = Transactions(e)
  BY <1>2, OneEvent
<1>4. ChangesState(e) <=> e.kind # "accounting"
  BY <1>2 DEF QueueFine
<1>5. EventDerives(e)
  BY <1>1, <1>2 DEF DInv, EventsDerive, Processing, QueueLeads
<1>6. blocks \in Seq(Root)
  BY <1>3, <1>4, OneReplayed, NoChain
<1>7. ASSUME Solid(l1, blockHashHistory, NextBlock)
      PROVE  FlattenSeq(blocks) = TransactionsOf(HeadOf(q, 1))
  <2>1. ActualStateRoot = Made(e.currentState)
    BY <1>1, <1>7, ReadyForNext
  <2>2. CASE IsExecution(q[1])
    <3>1. e.kind # "update"
      BY <2>2 DEF IsExecution
    <3>2. FlattenSeq(ReplayExecution(ActualStateRoot, e)) = Transactions(e)
      BY <1>3, <1>4, <1>5, <2>1, <3>1, OneReplayed
    <3> QED
      BY <1>3, <2>2, <3>2
  <2>3. CASE ~IsExecution(q[1])
    <3>1. e.kind = "update"
      BY <2>3 DEF IsExecution
    <3>2. Transactions(e) = <<>>
      BY <1>3, <3>1, TransactionsType
    <3> QED
      BY <1>3, <2>3, <3>2, FlattenEmpty
  <2> QED
    BY <2>2, <2>3
<1> HIDE DEF blocks
<1>8. /\ ChainGrows
      /\ Solid(l1, blockHashHistory, NextBlock) => ActualStateRoot' = Made(q[1].event.newState)
  BY <1>1, <1>2, <1>6, <1>7, HeadReplayed
<1>9. CutAt(q, 1)
  <2> SUFFICES ASSUME NEW i \in 2..Len(q), NEW j \in 2..Len(q), i < j, InOneBlock(q, 1, j)
               PROVE  ~Changes(q[i].event.kind)
    BY DEF CutAt
  <2>1. 1 \in 1..j /\ i \in Nat /\ j \in Nat /\ i > 1
    BY <1>2
  <2>2. IsExecution(q[1])
    BY <2>1 DEF InOneBlock, IsExecution
  <2>3. PICK k, p : Splits(q, NextBlock, k, p) /\ Len(Batch) = p
    BY <1>2, <2>2, GroupSplits
  <2>4. k \in 1..Len(q) /\ p \in 0..k /\ ~(p > 1)
    BY <1>1, <2>2, <2>3 DEF Splits, IsBatch
  <2>5. j <= k
    <3> SUFFICES ASSUME ~(j <= k) PROVE FALSE
      OBVIOUS
    <3>1. k + 1 \in 1..j /\ k # Len(q)
      BY <1>2, <2>1, <2>4
    <3>2. q[k + 1].block = q[1].block /\ q[k + 1].event.kind # "update" /\ q[1].block = NextBlock
      BY <3>1 DEF InOneBlock, NextBlock
    <3> QED
      BY <2>3, <3>1, <3>2 DEF Splits
  <2>6. i \in 1..k /\ ~(i <= p)
    BY <1>2, <2>1, <2>4, <2>5
  <2> QED
    BY <2>3, <2>6 DEF Splits
<1> HIDE DEF q
<1>10. Tail(q) = SubSeq(q, 1 + 1, Len(q))
  BY <1>2, TailIsSubSeq
<1>11. job' = [job EXCEPT !.queue = SubSeq(q, 1 + 1, Len(q))]
  BY <1>1, <1>10 DEF q
<1> QED
  BY <1>1, <1>2, <1>8, <1>9, <1>11, EventsDoneDerive DEF q

(* Accounting events add nothing to what is to be replayed.                *)
LEMMA TrailingAccounting ==
  ASSUME NEW es \in Seq(Event), NEW p \in 0..Len(es),
         \A i \in (p + 1)..Len(es) : es[i].kind = "accounting"
  PROVE  TransactionsOf(es) = TransactionsOf(SubSeq(es, 1, p))
<1> DEFINE L == Len(es)
           P(n) == p + n <= L => TransactionsOf(SubSeq(es, 1, p + n)) = TransactionsOf(SubSeq(es, 1, p))
           S == {n \in Nat : P(n)}
<1>1. L \in Nat /\ p \in Nat
  BY LenProperties
<1>2. 0 \in S
  BY <1>1
<1>3. ASSUME NEW n \in Nat, n \in S PROVE n + 1 \in S
  <2> SUFFICES ASSUME p + (n + 1) <= L
               PROVE  TransactionsOf(SubSeq(es, 1, p + (n + 1))) = TransactionsOf(SubSeq(es, 1, p))
    OBVIOUS
  <2> DEFINE m == p + (n + 1)
  <2>1. m \in 1..L /\ m - 1 = p + n /\ m \in (p + 1)..L /\ p + n <= L
    BY <1>1
  <2>2. TransactionsOf(SubSeq(es, 1, m - 1)) = TransactionsOf(SubSeq(es, 1, p))
    BY <1>3, <2>1
  <2> HIDE DEF m
  <2>3. es[m] \in Event /\ es[m].kind = "accounting" /\ es[m].kind \in Kinds /\ es[m].name \in STRING
    BY <2>1, EventTypes
  <2>4. Transactions(es[m]) = <<>>
    BY <2>3, TransactionsType
  <2>5. /\ TransactionsOf(SubSeq(es, 1, m)) = TransactionsOf(SubSeq(es, 1, m - 1)) \o Transactions(es[m])
        /\ TransactionsOf(SubSeq(es, 1, m - 1)) \in Root
    BY <2>1, TransactionsOfPrefix
  <2>6. TransactionsOf(SubSeq(es, 1, m - 1)) \o <<>> = TransactionsOf(SubSeq(es, 1, m - 1))
    BY <2>5, ConcatEmptySeq DEF Root
  <2> QED
    BY <2>2, <2>4, <2>5, <2>6 DEF m
<1>0. S \in SUBSET Nat
  OBVIOUS
<1> HIDE DEF S
<1>4. S = Nat
  BY <1>0, <1>2, <1>3, NatSetInduction
<1>5. L - p \in S /\ p + (L - p) = L
  BY <1>1, <1>4
<1> DEFINE m == L - p
<1> HIDE DEF m
<1>7. P(m) /\ p + m = L
  BY <1>5 DEF S, m
<1>6. TransactionsOf(SubSeq(es, 1, L)) = TransactionsOf(SubSeq(es, 1, p))
  BY <1>1, <1>7
<1> QED
  BY <1>6, SubSeqFull

(* ReplayBatchExecution: a group, replayed as a batch, its accounting      *)
(* events after it.                                                        *)
LEMMA ReplayBatchExecutionDerives ==
  ASSUME IInv, DInv, mishaps \in Nat, mishaps' > 0 => Recoverable, ReplayBatchExecution
  PROVE  DInv'
<1> DEFINE q == job.queue
           blocks == BatchBlocks(Batch)
<1>1. /\ Processing /\ job.at = NextBlock /\ IsBatch /\ Mine(blocks) /\ tracked' = LastUpdate.newState
      /\ UNCHANGED <<l1, disk, pc, lastProcessedBlock, blockHashHistory, checkpoints>>
      /\ job' = [job EXCEPT !.queue = SubSeq(job.queue, Len(Group) + 1, Len(job.queue))]
  BY DEF ReplayBatchExecution, UpdateState
<1>2. /\ q \in Seq(LogEntry) /\ DOMAIN q = 1..Len(q) /\ Len(q) \in Nat \ {0} /\ 1 \in DOMAIN q
      /\ QueueFine(q, job.from, job.to) /\ q # <<>>
  BY <1>1, QueueTypes DEF Processing
<1>3. IsExecution(q[1]) /\ Len(Batch) > 1
  BY <1>1 DEF IsBatch
<1>4. PICK k, p : /\ Splits(q, NextBlock, k, p)
                  /\ Group = HeadOf(q, k) /\ Len(Group) = k /\ Group \in Seq(Event)
                  /\ Batch = SubSeq(Group, 1, p) /\ Len(Batch) = p
  BY <1>2, <1>3, GroupSplits
<1>5. k \in 1..Len(q) /\ p \in 0..k /\ p \in Nat /\ p > 1 /\ k \in Nat /\ k <= Len(q)
  BY <1>2, <1>3, <1>4 DEF Splits
<1>6. LastUpdate = q[k].event
  <2>1. \E m \in Nat \ {0} : Len(Group) = m /\ LastUpdate = q[m].event
    BY BatchGroup
  <2> QED
    BY <1>4, <2>1
<1>7. QueueInOrder(q)
  BY <1>1 DEF DInv, EventsDerive, Processing
<1>8. /\ \A i \in 1..k : /\ q[i].event.kind # "update" /\ q[i].block = NextBlock
                         /\ Changes(q[i].event.kind) <=> i <= p
      /\ k = Len(q) \/ q[k + 1].event.kind = "update" \/ q[k + 1].block # NextBlock
  BY <1>4 DEF Splits
<1> HIDE DEF q, blocks
<1>9. Batch \in Seq(Event) /\ \A i \in 1..p : Batch[i] = q[i].event
  <2>1. p \in 0..Len(Group)
    BY <1>4, <1>5
  <2>2. Batch \in Seq(Event)
    BY <1>4, <2>1, PartOfPart
  <2>3. \A i \in 1..p : Batch[i] = Group[i]
    BY <1>4, <1>5
  <2>4. \A i \in 1..p : Group[i] = q[i].event
    BY <1>4, <1>5 DEF HeadOf
  <2> QED
    BY <2>2, <2>3, <2>4
<1>10. \A i \in 1..p : /\ i \in DOMAIN q /\ i \in 1..k /\ Changes(q[i].event.kind)
                       /\ InOneBlock(q, i, p)
  <2> SUFFICES ASSUME NEW i \in 1..p
               PROVE  /\ i \in DOMAIN q /\ i \in 1..k /\ Changes(q[i].event.kind)
                      /\ InOneBlock(q, i, p)
    OBVIOUS
  <2>1. i \in 1..k /\ i <= p /\ i \in DOMAIN q
    BY <1>2, <1>5
  <2>2. \A m \in i..p : m \in 1..k
    BY <1>5
  <2> QED
    BY <1>8, <2>1, <2>2 DEF InOneBlock
<1>11. Ordered(Batch)
  <2>1. ASSUME NEW i \in 1..(p - 1)
        PROVE  /\ q[i].event.kind \in {"tx", "deploy"}
               /\ q[p].event.kind \in {"tx", "deploy", "withdrawal"}
               /\ q[p].event.kind = "withdrawal" => DeploysFirstIn(q, p)
    <3>1. i \in 1..p /\ p \in 1..p /\ i < p
      BY <1>5
    <3> QED
      BY <1>7, <1>10, <3>1 DEF QueueInOrder
  <2>2. 1 \in 1..(p - 1) /\ p \in 1..p /\ \A i \in 1..(p - 1) : i \in 1..p
    BY <1>5
  <2>3. ASSUME q[p].event.kind = "withdrawal"
        PROVE  \E d \in 1..(p - 1) : \A m \in 1..(p - 1) : Batch[m].kind = "deploy" <=> m <= d
    <3>1. PICK d \in 1..(p - 1) : \A m \in 1..(p - 1) :
                 InOneBlock(q, m, p) => (q[m].event.kind = "deploy" <=> m <= d)
      BY <2>1, <2>2, <2>3 DEF DeploysFirstIn
    <3>2. \A m \in 1..(p - 1) : Batch[m].kind = "deploy" <=> m <= d
      BY <1>9, <1>10, <2>2, <3>1
    <3> QED
      BY <3>2
  <2>4. Batch[p] = q[p].event /\ \A i \in 1..(p - 1) : Batch[i] = q[i].event
    BY <1>9, <2>2
  <2>5. /\ \A i \in 1..(p - 1) : Batch[i].kind \in {"tx", "deploy"}
        /\ Batch[p].kind \in {"tx", "deploy", "withdrawal"}
    BY <2>1, <2>2, <2>4
  <2>6. Batch[p].kind = "withdrawal" =>
           \E d \in 1..(p - 1) : \A m \in 1..(p - 1) : Batch[m].kind = "deploy" <=> m <= d
    BY <2>3, <2>4
  <2>7. Len(Batch) = p
    BY <1>4
  <2> QED
    BY <2>5, <2>6, <2>7 DEF Ordered
<1>12. Batch # <<>>
  BY <1>4, <1>5, EmptySeq
<1>13. blocks \in Seq(Root) /\ FlattenSeq(blocks) = TransactionsOf(Batch)
  BY <1>9, <1>11, <1>12, BatchReplays DEF blocks
<1>14. TransactionsOf(Group) = TransactionsOf(Batch)
  <2>1. \A i \in (p + 1)..Len(Group) : Group[i].kind = "accounting"
    <3> SUFFICES ASSUME NEW i \in (p + 1)..k PROVE Group[i].kind = "accounting"
      BY <1>4
    <3>1. i \in 1..k /\ ~(i <= p)
      BY <1>5
    <3>2. Group[i] = q[i].event
      BY <1>4, <3>1 DEF HeadOf
    <3>3. ~Changes(q[i].event.kind)
      BY <1>8, <3>1
    <3> QED
      BY <3>2, <3>3 DEF Changes
  <2>2. p \in 0..Len(Group)
    BY <1>4, <1>5
  <2> QED
    BY <1>4, <2>1, <2>2, TrailingAccounting
<1>15. /\ ChainGrows
       /\ Solid(l1, blockHashHistory, NextBlock) => ActualStateRoot' = Made(q[k].event.newState)
  BY <1>1, <1>4, <1>5, <1>13, <1>14, HeadReplayed DEF q
<1>16. CutAt(q, k)
  <2> SUFFICES ASSUME NEW d \in 1..k, NEW j \in (k + 1)..Len(q), InOneBlock(q, d, j)
               PROVE  FALSE
    BY DEF CutAt
  <2>1. k + 1 \in d..j /\ k # Len(q)
    <3>1. Len(q) \in Nat
      BY <1>2
    <3>2. d <= k /\ k + 1 <= j /\ j <= Len(q) /\ d \in Nat /\ j \in Nat
      BY <1>5, <3>1
    <3> QED
      BY <1>5, <3>1, <3>2
  <2> DEFINE n == k + 1
  <2>2. q[n].block = q[d].block /\ q[n].event.kind # "update"
    BY <2>1 DEF InOneBlock
  <2>3. q[d].block = NextBlock
    BY <1>8
  <2> QED
    BY <1>8, <2>1, <2>2, <2>3
<1> QED
  BY <1>1, <1>4, <1>5, <1>6, <1>15, <1>16, EventsDoneDerive DEF q

(* Nothing is derived from nothing.                                        *)
LEMMA InitHDInv == Init => HDInv
<1> SUFFICES ASSUME Init PROVE HDInv
  OBVIOUS
<1>1. /\ l1 = <<>> /\ chain = <<>> /\ disk = <<>> /\ pc = "down" /\ checkpoints = <<>> /\ mishaps = 0
  BY DEF Init
<1>2. ChainDerives(l1) /\ chain \in Seq(Root)
  BY <1>1, NoChain, EmptySeq DEF ChainDerives
<1>3. CheckpointsFit(l1, blockHashHistory, chain, checkpoints)
  BY <1>1, NoneFit
<1>4. DiskFits /\ ~Stoppable
  BY <1>1 DEF DiskFits, Stoppable
<1> QED
  BY <1>1, <1>2, <1>3, <1>4 DEF HDInv, DInv

(* At most one thing goes wrong at a time.                                 *)
LEMMA MishapsStep ==
  ASSUME mishaps \in Nat, [Next]_vars
  PROVE  mishaps' \in {mishaps, mishaps + 1}
<1>1. CASE UNCHANGED vars
  BY <1>1 DEF vars
<1>2. CASE L1
  BY <1>2 DEF L1, NewBlock, Reorg
<1>3. CASE Start \/ ReplayHistoricalEvents \/ DetectReorg \/ FindForkPoint \/ CheckTip
  BY <1>3 DEF Start, ReplayHistoricalEvents, DetectReorg, FindForkPoint, CheckTip
<1>4. CASE HandleReorg
  BY <1>4 DEF HandleReorg
<1>5. CASE ReprocessFromCheckpoint \/ RecordBlockHash \/ PruneBlockHashHistory \/ QueryEvents
  BY <1>5 DEF ReprocessFromCheckpoint, RecordBlockHash, PruneBlockHashHistory, QueryEvents
<1>6. CASE SaveCheckpoint
  BY <1>6 DEF SaveCheckpoint
<1>7. CASE ProcessEvent
  BY <1>7 DEF ProcessEvent, Mine
<1>8. CASE ReplayBatchExecution
  BY <1>8 DEF ReplayBatchExecution, Mine
<1>9. CASE FinishFetch
  BY <1>9 DEF FinishFetch
<1>10. CASE FetchFails \/ Stop \/ Crash
  BY <1>10 DEF FetchFails, Stop, Crash, Down
<1> QED
  BY <1>1, <1>2, <1>3, <1>4, <1>5, <1>6, <1>7, <1>8, <1>9, <1>10 DEF Next, Node

(* A step that changes nothing.                                            *)
LEMMA SameDerived ==
  ASSUME DInv, UNCHANGED vars
  PROVE  DInv'
<1>1. /\ l1' = l1 /\ chain' = chain /\ disk' = disk /\ lastProcessedBlock' = lastProcessedBlock
      /\ blockHashHistory' = blockHashHistory /\ checkpoints' = checkpoints /\ tracked' = tracked
      /\ pc' = pc /\ job' = job /\ mishaps' = mishaps /\ ActualStateRoot' = ActualStateRoot
  BY DEF vars, memory, ActualStateRoot
<1>2. /\ InStep' <=> InStep
      /\ DiskFits' <=> DiskFits
      /\ DiskSaved' <=> DiskSaved
      /\ Resuming' <=> Resuming
      /\ Stoppable' <=> Stoppable
  BY <1>1 DEF InStep, DiskFits, DiskSaved, Resuming, Stoppable
<1>3. Sure' = Sure /\ (QueueStarts' <=> QueueStarts)
  BY <1>1 DEF Sure, NextBlock, QueueStarts
<1>4. EventsDerive' <=> EventsDerive
  BY <1>1, <1>3 DEF EventsDerive
<1> QED
  BY <1>1, <1>2, <1>4 DEF DInv

(* One step of the node or of L1, when what has gone wrong so far can be   *)
(* recovered from.                                                         *)
LEMMA NextDInv ==
  ASSUME AccountingComesLast, PayloadsReplay, Shrinks # "ever", IInv, [Next]_vars,
         ForgetsOnlyCanonical, DInv, mishaps \in Nat, mishaps' > 0 => Recoverable
  PROVE  DInv'
<1>1. CASE UNCHANGED vars
  BY <1>1, SameDerived
<1>2. CASE \E payload \in Payloads : NewBlock(payload)
  <2>1. PICK payload \in Payloads : NewBlock(payload)
    BY <1>2
  <2>2. UNCHANGED <<chain, disk, pc, job, memory, mishaps>> /\ L1
    BY <2>1 DEF NewBlock, L1
  <2>3. L1OK' /\ \E k \in Nat : L1Step(l1, reorgs, l1', reorgs', k)
    BY <2>1, NewBlockStep DEF IInv
  <2> QED
    BY <2>2, <2>3, L1KeepsDerived
<1>3. ASSUME NEW removed \in 1..ReorgDepth, NEW n \in 0..ReorgDepth,
             NEW payloads \in [1..n -> Payloads], Reorg(removed, payloads)
      PROVE  DInv'
  <2>1. UNCHANGED <<chain, disk, pc, job, memory, mishaps>>
    BY <1>3 DEF Reorg
  <2>2. L1
    BY <1>3 DEF L1
  <2>3. L1OK' /\ \E k \in Nat : L1Step(l1, reorgs, l1', reorgs', k)
    BY <1>3, ReorgStep DEF IInv
  <2> QED
    BY <2>1, <2>2, <2>3, L1KeepsDerived
<1>4. CASE L1
  BY <1>2, <1>3, <1>4 DEF L1
<1>5. CASE Start
  BY <1>5, StartDerives
<1>6. CASE ReplayHistoricalEvents
  BY <1>6, ReplayHistoricalEventsDerives
<1>7. CASE DetectReorg
  BY <1>7, DetectReorgDerives
<1>8. CASE FindForkPoint
  BY <1>8, FindForkPointDerives
<1>9. CASE CheckTip
  BY <1>9, CheckTipDerives
<1>10. CASE HandleReorg
  BY <1>10, HandleReorgDerives
<1>11. CASE ReprocessFromCheckpoint
  BY <1>11, ReprocessFromCheckpointDerives
<1>12. CASE RecordBlockHash
  BY <1>12, RecordBlockHashDerives
<1>13. CASE PruneBlockHashHistory
  BY <1>13, PruneBlockHashHistoryDerives
<1>14. CASE QueryEvents
  BY <1>14, QueryEventsDerives
<1>15. CASE SaveCheckpoint
  BY <1>15, SaveCheckpointDerives
<1>16. CASE ProcessEvent
  BY <1>16, ProcessEventDerives
<1>17. CASE ReplayBatchExecution
  BY <1>17, ReplayBatchExecutionDerives
<1>18. CASE FinishFetch
  BY <1>18, FinishFetchDerives
<1>19. CASE FetchFails
  <2>1. mishaps' = mishaps + 1
    BY <1>19 DEF FetchFails, Down
  <2>2. Recoverable
    BY <2>1
  <2> QED
    BY <1>19, <2>2, FetchFailsDerives
<1>20. CASE Stop
  <2>1. mishaps' = mishaps + 1
    BY <1>20 DEF Stop, Down
  <2>2. Recoverable
    BY <2>1
  <2> QED
    BY <1>20, <2>2, StopDerives
<1>21. CASE Crash
  <2>1. mishaps' = mishaps + 1 /\ "crash" \in Faults
    BY <1>21 DEF Crash, Down, Mishap
  <2>2. Recoverable
    BY <2>1
  <2> QED
    BY <2>1, <2>2 DEF Recoverable
<1> QED
  BY <1>1, <1>4, <1>5, <1>6, <1>7, <1>8, <1>9, <1>10, <1>11, <1>12, <1>13, <1>14, <1>15,
     <1>16, <1>17, <1>18, <1>19, <1>20, <1>21 DEF Next, Node

(* The invariant is inductive.                                             *)
LEMMA NextHDInv ==
  ASSUME AccountingComesLast, PayloadsReplay, Shrinks # "ever", IInv, [Next]_vars,
         ForgetsOnlyCanonical, HDInv
  PROVE  HDInv'
<1>1. mishaps \in Nat /\ mishaps' \in {mishaps, mishaps + 1}
  BY MishapsStep DEF HDInv
<1>2. ASSUME Harmless' PROVE DInv'
  <2>1. mishaps' > 0 => Recoverable
    BY <1>2 DEF Harmless, Recoverable, NoUpdates
  <2>2. DInv
    BY <1>1, <2>1 DEF HDInv, Harmless
  <2> QED
    BY <1>1, <2>1, <2>2, NextDInv
<1> QED
  BY <1>1, <1>2 DEF HDInv

-----------------------------------------------------------------------------
(* What follows from it. *)

(* An up-to-date node whose hashes are canonical tracks the root of L1, so *)
(* its chain is made of what L1 derives.                                   *)
LEMMA DInvDerived == IInv /\ DInv => DerivedFromL1
<1> SUFFICES ASSUME IInv, DInv, UpToDate, Undisturbed PROVE ActualStateRoot = Derived /\ IsSynced
  BY DEF DerivedFromL1
<1>1. tracked = L1Root /\ IsSynced
  BY IInvTracked DEF TrackedMatchesL1, IsSynced
<1>2. Solid(l1, blockHashHistory, lastProcessedBlock)
  BY DEF Undisturbed, HashMatches, Solid, Matches
<1>3. ActualStateRoot = Made(tracked)
  BY <1>2 DEF DInv, InStep, UpToDate
<1> QED
  BY <1>1, <1>3, DerivedIsMade DEF IInv, DInv

(* A checkpoint with no replaced block before it names the L2 block that   *)
(* has its root.                                                           *)
LEMMA DInvRestorable ==
  ASSUME IInv, DInv, NoUpdates
  PROVE  CheckpointsRestorable
<1> SUFFICES ASSUME NEW i \in DOMAIN checkpoints,
                    \A n \in DOMAIN blockHashHistory :
                       n < checkpoints[i].l1BlockNumber => HashMatches(n)
             PROVE  FlattenSeq(SubSeq(chain, 1, checkpoints[i].l2BlockNumber))
                      = checkpoints[i].trackedStateRoot
  BY DEF CheckpointsRestorable
<1> DEFINE cp == checkpoints[i]
           h == blockHashHistory
           n == cp.l1BlockNumber - 1
<1>1. /\ l1 \in Seq(Block) /\ Len(l1) \in Nat /\ DOMAIN l1 = 1..Len(l1)
      /\ Final(l1, reorgs) \in Int /\ Final(l1, reorgs) <= Len(l1)
  BY ChainTypes DEF IInv, L1OK
<1>2. Recorded(l1, reorgs, h) /\ CheckpointsOK(l1, h, Horizon, checkpoints)
  BY DEF IInv, MemoryOK
<1>3. Horizon \in Nat /\ Covered(l1, reorgs, h, Horizon)
  <2>1. CASE pc = "events"
    <3>1. job.from = lastProcessedBlock + 1 /\ job.to \in job.from..Len(l1) /\ lastProcessedBlock \in Nat
      BY <2>1 DEF IInv, JobOK, MemoryOK, Fetching
    <3> QED
      BY <1>1, <2>1, <3>1 DEF Horizon, Fetching, IInv, JobOK
  <2>2. CASE pc # "events"
    BY <2>2 DEF Horizon, IInv, MemoryOK
  <2> QED
    BY <2>1, <2>2
<1>4. /\ cp.l1BlockNumber \in 1..Horizon /\ Tracks(l1, h, n, cp.trackedStateRoot)
  BY <1>2 DEF CheckpointsOK
<1>5. n \in Nat /\ n \in 0..Horizon /\ n < cp.l1BlockNumber
  BY <1>3, <1>4
<1>6. Solid(l1, h, n)
  <2>1. \A m \in DOMAIN h : m \in Nat
    BY <1>2, ProcessorConstants DEF Recorded
  <2>2. \A m \in DOMAIN h : m <= n => m < cp.l1BlockNumber
    BY <1>4, <2>1
  <2> QED
    BY <2>2 DEF Solid, Matches, HashMatches
<1>7. CheckpointFits(l1, h, chain, cp)
  BY DEF DInv, CheckpointsFit
<1> HIDE DEF n, h
<1>8. n \in 0..Len(l1)
  <2>1. Covered(l1, reorgs, h, n)
    BY <1>3, <1>5, CoveredDown
  <2>2. CASE n = 0
    BY <1>1, <2>2
  <2>3. CASE n # 0
    <3>1. n \in 1..n
      BY <1>5, <2>3
    <3>2. n \in DOMAIN h \/ n <= Final(l1, reorgs)
      BY <2>1, <3>1 DEF Covered
    <3>3. n \in DOMAIN h => n \in 1..Len(l1)
      BY <1>1, <1>5, <1>6 DEF Solid, Matches
    <3> QED
      BY <1>1, <1>5, <3>2, <3>3
  <2> QED
    BY <2>2, <2>3
<1>9. cp.trackedStateRoot = RootAt(l1, n)
  BY <1>4, <1>6 DEF Tracks
<1>10. Made(RootAt(l1, n)) = RootAt(l1, n)
  BY <1>1, <1>8, RootMade DEF DInv
<1> QED
  BY <1>6, <1>7, <1>9, <1>10 DEF CheckpointFits, n

-----------------------------------------------------------------------------
(* The L2 chain is a function of the L1 chain: an up-to-date node whose    *)
(* hashes are all canonical holds exactly the transactions of the          *)
(* canonical events, in their order (processEvent, replayBatchExecution),  *)
(* after any reorgs, failed reads, failed unwinds and orderly stops.       *)
THEOREM Derives ==
  ASSUME AccountingComesLast, PayloadsReplay, Shrinks # "ever",
         MaxBlocks <= MAX_REORG_HISTORY, Recoverable
  PROVE  Spec => []DerivedFromL1
<1>1. KeptFarEnough
  BY DEF KeptFarEnough
<1>2. IInv => ForgetsOnlyCanonical
  BY <1>1, ForgottenAreFinal DEF ForgetsOnlyCanonical
<1>3. IInv /\ HDInv /\ [Next]_vars => IInv' /\ HDInv'
  BY <1>1, <1>2, NextIInv, NextHDInv
<1>4. IInv /\ HDInv => DerivedFromL1
  BY DInvDerived DEF HDInv, Harmless
<1> QED
  BY InitIInv, InitHDInv, <1>3, <1>4, PTL DEF Spec

(* As long as nothing has failed this holds whatever may still fail:       *)
(* crashes, replays that reth rejects and checkpoints taken without its    *)
(* answer included.                                                        *)
THEOREM DerivesWithoutMishaps ==
  ASSUME AccountingComesLast, PayloadsReplay, Shrinks # "ever", MaxBlocks <= MAX_REORG_HISTORY
  PROVE  Spec => []DerivedWithoutMishaps
<1>1. KeptFarEnough
  BY DEF KeptFarEnough
<1>2. IInv => ForgetsOnlyCanonical
  BY <1>1, ForgottenAreFinal DEF ForgetsOnlyCanonical
<1>3. IInv /\ HDInv /\ [Next]_vars => IInv' /\ HDInv'
  BY <1>1, <1>2, NextIInv, NextHDInv
<1>4. IInv /\ HDInv => DerivedWithoutMishaps
  BY DInvDerived DEF HDInv, Harmless, DerivedWithoutMishaps
<1> QED
  BY InitIInv, InitHDInv, <1>3, <1>4, PTL DEF Spec

(* Every checkpoint that handleReorg may choose, one with no replaced      *)
(* block before it, is a state the chain was in: unwinding reth to its L2  *)
(* block gives the root that is restored with it.                          *)
THEOREM Restores ==
  ASSUME AccountingComesLast, PayloadsReplay, NoUpdates, Shrinks # "ever",
         MaxBlocks <= MAX_REORG_HISTORY, Recoverable
  PROVE  Spec => []CheckpointsRestorable
<1>1. KeptFarEnough
  BY DEF KeptFarEnough
<1>2. IInv => ForgetsOnlyCanonical
  BY <1>1, ForgottenAreFinal DEF ForgetsOnlyCanonical
<1>3. IInv /\ HDInv /\ [Next]_vars => IInv' /\ HDInv'
  BY <1>1, <1>2, NextIInv, NextHDInv
<1>4. IInv /\ HDInv => CheckpointsRestorable
  BY DInvRestorable DEF HDInv, Harmless
<1> QED
  BY InitIInv, InitHDInv, <1>3, <1>4, PTL DEF Spec

-----------------------------------------------------------------------------
(* How much is kept, and where the node may be. *)

(* SaveCheckpoint drops the oldest.                                        *)
Kept(cps) == Len(cps) <= MAX_REORG_HISTORY

Counts ==
    /\ Kept(checkpoints)
    /\ disk = <<>> \/ (Len(disk) = 1 /\ Kept(disk[1].reorgData.checkpoints))
    /\ pc \in {"down", "start", "poll", "tip", "search", "recover", "hashes", "query", "events"}

LEMMA KeepsNone == Kept(<<>>)
BY ProcessorConstants DEF Kept

(* The file holds one record, of the checkpoints in memory. *)
LEMMA SyncStateCounts ==
  ASSUME NEW n, Kept(checkpoints), disk' = SyncState(n)
  PROVE  Len(disk') = 1 /\ Kept(disk'[1].reorgData.checkpoints)
<1> DEFINE record == [lastProcessedBlock |-> n, stateRoot |-> tracked, reorgData |-> ReorgData]
<1>1. disk' = <<record>>
  BY DEF SyncState
<1>2. record.reorgData.checkpoints = checkpoints
  BY DEF ReorgData
<1> HIDE DEF record
<1>3. Len(disk') = 1 /\ disk'[1] = record
  BY <1>1
<1> QED
  BY <1>2, <1>3

(* The oldest checkpoints make room for the new one. *)
LEMMA SaveCheckpointCounts ==
  ASSUME IsSequence(checkpoints), Kept(checkpoints), SaveCheckpoint
  PROVE  Kept(checkpoints')
<1> DEFINE C(cp) == {checkpoints[i] : i \in DOMAIN checkpoints} \cup {cp}
<1>1. PICK height : LET cps == Append(checkpoints, [l1BlockNumber |-> NextBlock,
                                                     l2BlockNumber |-> height,
                                                     trackedStateRoot |-> tracked])
                        surplus == Len(cps) - MAX_REORG_HISTORY
                    IN checkpoints' = IF surplus > 0 THEN SubSeq(cps, surplus + 1, Len(cps)) ELSE cps
  BY DEF SaveCheckpoint
<1> DEFINE cp == [l1BlockNumber |-> NextBlock, l2BlockNumber |-> height, trackedStateRoot |-> tracked]
           cps == Append(checkpoints, cp)
           surplus == Len(cps) - MAX_REORG_HISTORY
<1>2. checkpoints' = IF surplus > 0 THEN SubSeq(cps, surplus + 1, Len(cps)) ELSE cps
  BY <1>1
<1> HIDE DEF cp
<1>3. checkpoints \in Seq(C(cp)) /\ cp \in C(cp)
  BY DEF IsSequence
<1> DEFINE S == C(cp)
<1> HIDE DEF C
<1>4. cps \in Seq(S) /\ Len(cps) = Len(checkpoints) + 1 /\ Len(checkpoints) \in Nat
  BY <1>3, AppendProperties, LenProperties
<1>5. MAX_REORG_HISTORY \in Nat \ {0}
  BY ProcessorConstants
<1> HIDE DEF cps, S
<1>6. CASE surplus > 0
  <2>1. surplus = 1 /\ Len(cps) = MAX_REORG_HISTORY + 1
    BY <1>4, <1>5, <1>6 DEF Kept
  <2>2. checkpoints' = SubSeq(cps, 1 + 1, Len(cps)) /\ 1 \in Nat /\ 1 <= Len(cps)
    BY <1>2, <1>5, <1>6, <2>1
  <2>3. Len(SubSeq(cps, 1 + 1, Len(cps))) = Len(cps) - 1
    BY <1>4, <2>2, Rest
  <2> QED
    BY <1>5, <2>1, <2>2, <2>3 DEF Kept
<1>7. CASE ~(surplus > 0)
  BY <1>2, <1>4, <1>5, <1>7 DEF Kept
<1> QED
  BY <1>6, <1>7

(* Recovery keeps no more checkpoints than there were.                     *)
LEMMA HandleReorgCounts ==
  ASSUME IsSequence(checkpoints), Kept(checkpoints), HandleReorg
  PROVE  Kept(checkpoints')
<1>1. CASE Wipe
  BY <1>1, KeepsNone DEF Wipe, EmptyMemory
<1>2. ASSUME NEW cp, Unwind(cp) PROVE Kept(checkpoints')
  <2> DEFINE n == cp.l1BlockNumber
             before == FindCheckpointsBefore(n)
  <2>1. checkpoints' = before
    BY <1>2 DEF Unwind, PruneFromBlock
  <2> HIDE DEF n
  <2>2. IsSequence(before) /\ Len(before) <= Len(checkpoints)
    BY CheckpointsBefore
  <2> HIDE DEF before
  <2>3. Len(before) \in Nat /\ Len(checkpoints) \in Nat
    BY <2>2, LenProperties DEF IsSequence
  <2> QED
    BY <2>1, <2>2, <2>3, ProcessorConstants DEF Kept
<1> QED
  BY <1>1, <1>2 DEF HandleReorg

(* A process that ends leaves the file as it is; one that starts reads it. *)
LEMMA DownCounts ==
  ASSUME Counts, Down
  PROVE  Counts'
BY KeepsNone DEF Down, EmptyMemory, Counts

LEMMA StartCounts ==
  ASSUME Counts, Start
  PROVE  Counts'
<1>1. disk' = disk /\ pc' = "start"
  BY DEF Start
<1>2. Kept(checkpoints')
  BY KeepsNone DEF Start, Counts, SetResumeState, EmptyMemory
<1> QED
  BY <1>1, <1>2 DEF Counts

(* Steps that take no checkpoint, and may write the file.                  *)
LEMMA Persists ==
  ASSUME Counts, UNCHANGED checkpoints,
         disk' = disk \/ \E n : disk' = SyncState(n),
         pc' \in {"down", "start", "poll", "tip", "search", "recover", "hashes", "query", "events"}
  PROVE  Counts'
<1>1. CASE disk' = disk
  BY <1>1 DEF Counts
<1>2. CASE \E n : disk' = SyncState(n)
  <2>1. PICK n : disk' = SyncState(n)
    BY <1>2
  <2>2. Len(disk') = 1 /\ Kept(disk'[1].reorgData.checkpoints)
    BY <2>1, SyncStateCounts DEF Counts
  <2> QED
    BY <2>2 DEF Counts
<1> QED
  BY <1>1, <1>2

(* No step of the node or of L1 exceeds these bounds.                      *)
LEMMA NextCounts ==
  ASSUME IInv, Counts, [Next]_vars
  PROVE  Counts'
<1>0. IsSequence(checkpoints) /\ Kept(checkpoints)
  BY DEF IInv, MemoryOK, CheckpointsOK, Counts
<1>1. CASE UNCHANGED vars
  BY <1>1, Persists DEF vars, memory, Counts
<1>2. CASE L1
  BY <1>2, Persists DEF L1, NewBlock, Reorg, memory, Counts
<1>3. CASE Start
  BY <1>3, StartCounts
<1>4. CASE ReplayHistoricalEvents \/ DetectReorg \/ FindForkPoint \/ CheckTip
  BY <1>4, Persists DEF ReplayHistoricalEvents, DetectReorg, FindForkPoint, CheckTip, memory, Counts
<1>5. CASE HandleReorg
  <2>1. Kept(checkpoints')
    BY <1>0, <1>5, HandleReorgCounts
  <2> QED
    BY <1>5, <2>1 DEF HandleReorg, Counts
<1>6. CASE ReprocessFromCheckpoint
  BY <1>6, Persists DEF ReprocessFromCheckpoint, memory
<1>7. CASE RecordBlockHash \/ PruneBlockHashHistory \/ QueryEvents
  BY <1>7, Persists DEF RecordBlockHash, PruneBlockHashHistory, QueryEvents, memory, Counts
<1>8. CASE SaveCheckpoint
  <2>1. Kept(checkpoints')
    BY <1>0, <1>8, SaveCheckpointCounts
  <2> QED
    BY <1>8, <2>1 DEF SaveCheckpoint, Counts
<1>9. CASE ProcessEvent \/ ReplayBatchExecution
  BY <1>9, Persists DEF ProcessEvent, ReplayBatchExecution, Counts
<1>10. CASE FinishFetch
  BY <1>10, Persists DEF FinishFetch
<1>11. CASE FetchFails
  <2>1. CASE Down
    BY <2>1, DownCounts
  <2>2. CASE UNCHANGED <<disk, memory>> /\ pc' = "poll"
    BY <2>2, Persists DEF memory
  <2> QED
    BY <1>11, <2>1, <2>2 DEF FetchFails
<1>12. CASE Stop \/ Crash
  BY <1>12, DownCounts DEF Stop, Crash
<1> QED
  BY <1>1, <1>2, <1>3, <1>4, <1>5, <1>6, <1>7, <1>8, <1>9, <1>10, <1>11, <1>12 DEF Next, Node

(* A finite domain of heights. *)
LEMMA HashesCounted ==
  ASSUME NEW b, NEW r, NEW h, ChainOK(b, r), Recorded(b, r, h)
  PROVE  /\ \A n \in DOMAIN h : h[n] \in Hash /\ n > 0
         /\ Cardinality(DOMAIN h) <= MAX_REORG_HISTORY + MaxBlocks
<1>1. /\ r \in Nat /\ r <= MaxReorgs /\ MaxBlocks \in Nat /\ MaxReorgs \in Nat
      /\ DOMAIN b = 1..Len(b) /\ \A n \in 1..Len(b) : b[n].gen \in Nat /\ b[n].gen <= r
  BY ChainTypes, ProcessorConstants
<1>2. ASSUME NEW n \in DOMAIN h PROVE h[n] \in Hash /\ n > 0 /\ n \in 1..MaxBlocks
  <2>1. n \in 1..MaxBlocks /\ h[n] \in Nat
    BY DEF Recorded
  <2>2. CASE n \in DOMAIN b
    <3>1. h[n] <= b[n].gen /\ b[n].gen \in Nat /\ b[n].gen <= r
      BY <1>1, <2>2 DEF Recorded
    <3> QED
      BY <1>1, <2>1, <3>1 DEF Hash
  <2>3. CASE n \notin DOMAIN b
    <3>1. h[n] < r
      BY <2>3 DEF Recorded
    <3> QED
      BY <1>1, <2>1, <3>1 DEF Hash
  <2> QED
    BY <2>1, <2>2, <2>3
<1>3. Cardinality(DOMAIN h) <= MaxBlocks /\ Cardinality(DOMAIN h) \in Nat
  <2> DEFINE heights == DOMAIN h
             range == 1..MaxBlocks
  <2>1. heights \in SUBSET range
    BY <1>2
  <2>2. IsFiniteSet(range) /\ Cardinality(range) = MaxBlocks
    BY <1>1, FS_Interval
  <2> HIDE DEF heights, range
  <2>3. IsFiniteSet(heights) /\ Cardinality(heights) <= Cardinality(range)
    BY <2>1, <2>2, FS_Subset
  <2>4. Cardinality(heights) \in Nat
    BY <2>3, FS_CardinalityType
  <2> QED
    BY <2>2, <2>3, <2>4 DEF heights
<1> QED
  BY <1>1, <1>2, <1>3, ProcessorConstants

(* The types follow from the invariants.                                   *)
LEMMA InvTypes ==
  ASSUME IInv, DInv, Counts
  PROVE  TypeOK
<1>1. \A n \in DOMAIN l1 : l1[n].gen \in 0..reorgs
  <2>1. /\ reorgs \in Nat /\ DOMAIN l1 = 1..Len(l1)
        /\ \A n \in 1..Len(l1) : l1[n].gen \in Nat /\ l1[n].gen <= reorgs
    BY ChainTypes DEF IInv, L1OK
  <2> QED
    BY <2>1
<1>2. /\ \A n \in DOMAIN blockHashHistory : blockHashHistory[n] \in Hash /\ n > 0
      /\ Cardinality(DOMAIN blockHashHistory) <= MAX_REORG_HISTORY + MaxBlocks
  BY HashesCounted DEF IInv, L1OK, MemoryOK
<1>3. \A i \in DOMAIN checkpoints : checkpoints[i].l2BlockNumber \in 0..Len(chain)
  BY DEF DInv, CheckpointsFit, CheckpointFits
<1>4. lastProcessedBlock \in Nat /\ tracked \in Root /\ chain \in Seq(Root)
  BY DEF IInv, MemoryOK, DInv
<1>5. Len(disk) <= 1
  <2>1. Len(<<>>) = 0
    BY EmptySeq
  <2> QED
    BY <2>1 DEF Counts
<1> QED
  BY <1>1, <1>2, <1>3, <1>4, <1>5 DEF TypeOK, Counts, Kept

(* What the node holds is of its type and bounded, and no checkpoint names *)
(* an L2 block that reth does not have.                                    *)
THEOREM WellTyped ==
  ASSUME AccountingComesLast, PayloadsReplay, Shrinks # "ever",
         MaxBlocks <= MAX_REORG_HISTORY, Recoverable
  PROVE  Spec => []TypeOK
<1>1. KeptFarEnough
  BY DEF KeptFarEnough
<1>2. IInv => ForgetsOnlyCanonical
  BY <1>1, ForgottenAreFinal DEF ForgetsOnlyCanonical
<1>3. IInv /\ HDInv /\ Counts /\ [Next]_vars => IInv' /\ HDInv' /\ Counts'
  BY <1>1, <1>2, NextIInv, NextHDInv, NextCounts
<1>4. IInv /\ HDInv /\ Counts => TypeOK
  BY InvTypes DEF HDInv, Harmless
<1>5. Init => Counts
  BY KeepsNone DEF Init, Counts
<1> QED
  BY InitIInv, InitHDInv, <1>3, <1>4, <1>5, PTL DEF Spec

-----------------------------------------------------------------------------
(* An L1 of any length: what is forgotten is canonical when it is.         *)

(* The two invariants, with the condition on what is forgotten as an       *)
(* action.                                                                 *)
LEMMA NextLongL1 ==
  ASSUME AccountingComesLast, PayloadsReplay, Shrinks # "ever", KeptFarEnough,
         IInv, HDInv, [Next]_vars, [ForgetsOnlyCanonical]_vars
  PROVE  IInv' /\ HDInv'
<1>1. CASE ForgetsOnlyCanonical
  BY <1>1, NextIInv, NextHDInv
<1>2. CASE UNCHANGED vars
  <2>1. ~PruneBlockHashHistory
    BY <1>2 DEF vars, PruneBlockHashHistory
  <2> QED
    BY <2>1, NextIInv, NextHDInv DEF ForgetsOnlyCanonical
<1> QED
  BY <1>1, <1>2

(* Derives for an L1 of any length, under the two conditions of            *)
(* TracksLongL1 (PruneBlockHashHistory drops the oldest hashes).           *)
THEOREM DerivesLongL1 ==
  ASSUME AccountingComesLast, PayloadsReplay, Shrinks # "ever",
         MaxReorgs * ReorgDepth <= MAX_REORG_HISTORY, Recoverable
  PROVE  Spec /\ [][ForgetsOnlyCanonical]_vars => []DerivedFromL1
<1>1. KeptFarEnough
  BY ProcessorConstants DEF KeptFarEnough, Reach
<1>2. IInv /\ HDInv /\ [Next]_vars /\ [ForgetsOnlyCanonical]_vars => IInv' /\ HDInv'
  BY <1>1, NextLongL1
<1>3. IInv /\ HDInv => DerivedFromL1
  BY DInvDerived DEF HDInv, Harmless
<1> QED
  BY InitIInv, InitHDInv, <1>2, <1>3, PTL DEF Spec

(* Restores for an L1 of any length, under the same conditions.            *)
THEOREM RestoresLongL1 ==
  ASSUME AccountingComesLast, PayloadsReplay, NoUpdates, Shrinks # "ever",
         MaxReorgs * ReorgDepth <= MAX_REORG_HISTORY, Recoverable
  PROVE  Spec /\ [][ForgetsOnlyCanonical]_vars => []CheckpointsRestorable
<1>1. KeptFarEnough
  BY ProcessorConstants DEF KeptFarEnough, Reach
<1>2. IInv /\ HDInv /\ [Next]_vars /\ [ForgetsOnlyCanonical]_vars => IInv' /\ HDInv'
  BY <1>1, NextLongL1
<1>3. IInv /\ HDInv => CheckpointsRestorable
  BY DInvRestorable DEF HDInv, Harmless
<1> QED
  BY InitIInv, InitHDInv, <1>2, <1>3, PTL DEF Spec
===============================================================================
