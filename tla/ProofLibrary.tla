---------------------------- MODULE ProofLibrary ----------------------------
(***************************************************************************)
(* Facts that the proofs of several components use: sets of naturals,      *)
(* loops as recursive functions, flattened sequences, how often an entry   *)
(* is in a table, and where the frames of a call stack are.                *)
(***************************************************************************)
EXTENDS Integers, SequencesExt, SequenceTheorems, FiniteSetTheorems, WellFoundedInduction, TLAPS

-----------------------------------------------------------------------------
(* Sets of natural numbers: induction, least and greatest elements.        *)

(* Induction on the naturals, stated for sets: a set of naturals with 0    *)
(* and the successor of each of its elements is Nat.                       *)
LEMMA NatSetInduction ==
  ASSUME NEW S \in SUBSET Nat, 0 \in S, \A n \in S : n + 1 \in S
  PROVE  S = Nat
<1> DEFINE Rest == Nat \ S
<1> SUFFICES ASSUME Rest # {} PROVE FALSE
  OBVIOUS
<1>1. IsWellFoundedOn(OpToRel(<, Nat), Nat)
  BY NatLessThanWellFounded
<1>2. PICK m \in Rest : \A k \in Rest : <<k, m>> \notin OpToRel(<, Nat)
  <2> HIDE DEF Rest
  <2>1. Rest \subseteq Nat
    BY DEF Rest
  <2> QED
    BY <1>1, <2>1, WFMin
<1>3. \A k \in Rest : ~(k < m)
  BY <1>2 DEF OpToRel
<1>4. m - 1 \in S
  BY <1>3
<1> QED
  BY <1>4

(* A set of naturals has a least element, and one with an upper bound has  *)
(* a greatest.                                                             *)
LEMMA NatSetLeast ==
  ASSUME NEW S \in SUBSET Nat, S # {}
  PROVE  \E m \in S : \A k \in S : m <= k
<1>1. IsWellFoundedOn(OpToRel(<, Nat), Nat)
  BY NatLessThanWellFounded
<1>2. PICK m \in S : \A k \in S : <<k, m>> \notin OpToRel(<, Nat)
  BY <1>1, WFMin
<1>3. \A k \in S : ~(k < m)
  BY <1>2 DEF OpToRel
<1>4. \A k \in S : m <= k
  BY <1>3
<1> QED
  BY <1>4

LEMMA NatSetGreatest ==
  ASSUME NEW n \in Nat, NEW S \in SUBSET (0..n), S # {}
  PROVE  \E m \in S : \A k \in S : k <= m
<1> DEFINE D == {d \in Nat : n - d \in S}
<1>1. D # {}
  <2>1. PICK k \in S : TRUE
    OBVIOUS
  <2>2. n - k \in Nat /\ n - (n - k) = k
    BY <2>1
  <2>3. n - k \in D
    BY <2>1, <2>2
  <2> QED
    BY <2>3
<1>2. D \in SUBSET Nat
  OBVIOUS
<1> HIDE DEF D
<1>3. PICK d \in D : \A e \in D : d <= e
  BY <1>1, <1>2, NatSetLeast
<1>4. n - d \in S /\ d \in Nat
  BY <1>3 DEF D
<1>5. ASSUME NEW k \in S PROVE k <= n - d
  <2>1. n - k \in Nat /\ n - (n - k) = k
    BY <1>5
  <2>2. n - k \in D
    BY <2>1, <1>5 DEF D
  <2>3. d <= n - k
    BY <2>2, <1>3
  <2> QED
    BY <2>1, <2>3, <1>4
<1> QED
  BY <1>4, <1>5

-----------------------------------------------------------------------------
(* Recursive functions over a counter: a loop that starts with a and       *)
(* applies g[n] in its n-th iteration has a trace.                         *)
Loops(N, S) == [1..N -> [S -> S]]

Traces(N, S, a, g) == {f \in [0..N -> S] : f[0] = a /\ \A n \in 1..N : f[n] = g[n][f[n - 1]]}

LEMMA Recursion ==
  ASSUME NEW S, NEW a \in S, NEW N \in Nat, NEW g \in Loops(N, S)
  PROVE  Traces(N, S, a, g) # {}
<1> USE DEF Loops, Traces
<1> DEFINE Trace(f, n) == /\ f \in [0..n -> S] /\ f[0] = a
                          /\ \A i \in 1..n : f[i] = g[i][f[i - 1]]
           Ok == {n \in Nat : n <= N => \E f : Trace(f, n)}
<1>1. 0 \in Ok
  <2>1. Trace([i \in 0..0 |-> a], 0)
    OBVIOUS
  <2> QED
    BY <2>1
<1>2. ASSUME NEW n \in Ok PROVE n + 1 \in Ok
  <2> SUFFICES ASSUME n + 1 <= N PROVE \E f : Trace(f, n + 1)
    OBVIOUS
  <2>1. PICK f : Trace(f, n)
    BY <1>2
  <2> DEFINE t == [i \in 0..(n + 1) |-> IF i = n + 1 THEN g[n + 1][f[n]] ELSE f[i]]
  <2>2. n \in Nat /\ f[n] \in S /\ n + 1 \in 1..N
    BY <2>1
  <2>3. g[n + 1][f[n]] \in S
    BY <2>2
  <2>4. t \in [0..(n + 1) -> S] /\ t[0] = a
    BY <2>1, <2>2, <2>3
  <2>5. ASSUME NEW i \in 1..(n + 1) PROVE t[i] = g[i][t[i - 1]]
    <3>1. CASE i = n + 1
      BY <2>2, <3>1
    <3>2. CASE i # n + 1
      <4>1. i \in 1..n /\ i - 1 \in 0..n
        BY <2>2, <3>2
      <4> QED
        BY <2>1, <4>1
    <3> QED
      BY <3>1, <3>2
  <2> QED
    BY <2>4, <2>5
<1> HIDE DEF Ok
<1>3. Ok = Nat
  <2>1. Ok \in SUBSET Nat
    BY DEF Ok
  <2> QED
    BY <1>1, <1>2, <2>1, NatSetInduction
<1>4. PICK f : Trace(f, N)
  BY <1>3 DEF Ok
<1>5. f \in Traces(N, S, a, g)
  BY <1>4
<1> QED
  BY <1>5

-----------------------------------------------------------------------------
(* Sequences of sequences, flattened. *)

Flattens(f, ss) ==
    f[0] = <<>> /\ \A n \in 1..Len(ss) : f[n] = f[n - 1] \o ss[n]

(* Flattening is a loop over the sequence that concatenates its elements.  *)
LEMMA FlattenLoop ==
  ASSUME NEW T, NEW ss \in Seq(Seq(T))
  PROVE  \E f \in [0..Len(ss) -> Seq(T)] : Flattens(f, ss) /\ FlattenSeq(ss) = f[Len(ss)]
<1> DEFINE N == Len(ss)
           S == Seq(T)
           a == <<>>
           g == [n \in 1..N |-> [x \in S |-> x \o ss[n]]]
<1>1. N \in Nat /\ \A n \in 1..N : ss[n] \in S
  BY LenProperties, ElementOfSeq
<1>2. a \in S
  BY EmptySeq
<1>3. g \in Loops(N, S)
  <2>1. ASSUME NEW n \in 1..N, NEW x \in S PROVE x \o ss[n] \in S
    BY <1>1, ConcatProperties
  <2> QED
    BY <2>1 DEF Loops
<1>4. \A n \in 1..N : \A x \in S : g[n][x] = x \o ss[n]
  OBVIOUS
<1> HIDE DEF g, S, a, N
<1>5. PICK f \in Traces(N, S, a, g) : TRUE
  BY <1>1, <1>2, <1>3, Recursion
<1>6. f \in [0..N -> S] /\ f[0] = a /\ \A n \in 1..N : f[n - 1] \in S /\ f[n] = f[n - 1] \o ss[n]
  <2>1. f \in [0..N -> S] /\ f[0] = a /\ \A n \in 1..N : f[n] = g[n][f[n - 1]]
    BY <1>5 DEF Traces
  <2>2. ASSUME NEW n \in 1..N PROVE f[n - 1] \in S /\ f[n] = f[n - 1] \o ss[n]
    <3>1. n - 1 \in 0..N
      BY <1>1
    <3>2. f[n - 1] \in S
      BY <2>1, <3>1
    <3> QED
      BY <1>4, <2>1, <3>2
  <2> QED
    BY <2>1, <2>2
<1>7. Flattens(f, ss)
  BY <1>6 DEF Flattens, N, a
<1>8. FlattenSeq(ss) = f[N]
  <2>1. CASE N = 0
    <3>1. ss = <<>>
      BY <2>1, EmptySeq DEF N, S
    <3> QED
      BY <2>1, <3>1, <1>6 DEF FlattenSeq, N, a
  <2>2. CASE N # 0
    <3> DEFINE Eq(h) == h = [i \in 1..N |-> IF i = 1 THEN ss[i] ELSE h[i - 1] \o ss[i]]
               k == [i \in 1..N |-> f[i]]
    <3>1. Eq(k)
      <4>1. ASSUME NEW i \in 1..N PROVE f[i] = IF i = 1 THEN ss[i] ELSE k[i - 1] \o ss[i]
        <5>1. CASE i = 1
          <6>1. f[1] = <<>> \o ss[1] /\ ss[1] \in Seq(T)
            <7>1. 1 \in 1..N /\ 1 - 1 = 0
              BY <1>1, <5>1
            <7> QED
              BY <1>1, <1>6, <7>1 DEF a, S
          <6> QED
            BY <5>1, <6>1, ConcatEmptySeq
        <5>2. CASE i # 1
          BY <1>1, <1>6, <5>2
        <5> QED
          BY <5>1, <5>2
      <4> QED
        BY <4>1
    <3>2. PICK h : h = CHOOSE x : Eq(x)
      OBVIOUS
    <3>3. Eq(h)
      BY <3>1, <3>2
    <3>4. \A i \in 1..N : h[i] = f[i]
      <4> DEFINE A == {n \in Nat : n \in 1..N => h[n] = f[n]}
      <4>1. A \in SUBSET Nat /\ 0 \in A
        BY <1>1
      <4>2. ASSUME NEW n \in A PROVE n + 1 \in A
        <5> SUFFICES ASSUME n + 1 \in 1..N PROVE h[n + 1] = f[n + 1]
          OBVIOUS
        <5>1. CASE n = 0
          <6>1. h[1] = ss[1]
            BY <1>1, <3>3, <5>1
          <6>2. f[1] = <<>> \o ss[1] /\ ss[1] \in Seq(T)
            <7>1. 1 \in 1..N /\ 1 - 1 = 0
              BY <1>1, <5>1
            <7> QED
              BY <1>1, <1>6, <7>1 DEF a, S
          <6> QED
            BY <5>1, <6>1, <6>2, ConcatEmptySeq
        <5>2. CASE n # 0
          <6>1. n \in 1..N /\ h[n] = f[n] /\ (n + 1) - 1 = n /\ n + 1 # 1
            BY <1>1, <4>2, <5>2
          <6>2. h[n + 1] = h[(n + 1) - 1] \o ss[n + 1]
            BY <3>3, <6>1
          <6>3. f[n + 1] = f[(n + 1) - 1] \o ss[n + 1]
            BY <1>6
          <6> QED
            BY <6>1, <6>2, <6>3
        <5> QED
          BY <5>1, <5>2
      <4> HIDE DEF A
      <4>3. A = Nat
        BY <4>1, <4>2, NatSetInduction
      <4> QED
        BY <1>1, <4>3 DEF A
    <3>5. FlattenSeq(ss) = h[N]
      BY <2>2, <3>2 DEF FlattenSeq, N
    <3> QED
      BY <1>1, <2>2, <3>4, <3>5
  <2> QED
    BY <2>1, <2>2
<1> QED
  BY <1>6, <1>7, <1>8 DEF N, S

LEMMA Single ==
  ASSUME NEW S, NEW x \in S
  PROVE  <<x>> \in Seq(S) /\ Len(<<x>>) = 1 /\ <<x>>[1] = x
OBVIOUS

(* Flattening looks at nothing but the elements it is given.               *)
LEMMA FlattensAgree ==
  ASSUME NEW ss, NEW tt, NEW n \in Nat, n <= Len(ss), n <= Len(tt), Len(ss) \in Nat, Len(tt) \in Nat,
         \A i \in 1..n : ss[i] = tt[i],
         NEW f, NEW g, Flattens(f, ss), Flattens(g, tt)
  PROVE  f[n] = g[n]
<1> DEFINE A == {m \in Nat : m <= n => f[m] = g[m]}
<1>1. A \in SUBSET Nat /\ 0 \in A
  BY DEF Flattens
<1>2. ASSUME NEW m \in A PROVE m + 1 \in A
  <2> SUFFICES ASSUME m + 1 <= n PROVE f[m + 1] = g[m + 1]
    OBVIOUS
  <2>1. m + 1 \in 1..Len(ss) /\ m + 1 \in 1..Len(tt) /\ m + 1 \in 1..n /\ (m + 1) - 1 = m /\ f[m] = g[m]
    OBVIOUS
  <2>2. f[m + 1] = f[m] \o ss[m + 1] /\ g[m + 1] = g[m] \o tt[m + 1]
    BY <2>1 DEF Flattens
  <2> QED
    BY <2>1, <2>2
<1> HIDE DEF A
<1>3. A = Nat
  BY <1>1, <1>2, NatSetInduction
<1> QED
  BY <1>3 DEF A

(* What the elements are sequences of, the flattened sequence is one of.   *)
LEMMA FlattenType ==
  ASSUME NEW T, NEW ss \in Seq(Seq(T))
  PROVE  FlattenSeq(ss) \in Seq(T)
<1>1. PICK f \in [0..Len(ss) -> Seq(T)] : FlattenSeq(ss) = f[Len(ss)]
  BY FlattenLoop
<1>2. Len(ss) \in 0..Len(ss)
  BY LenProperties
<1> QED
  BY <1>1, <1>2

LEMMA FlattenEmpty == FlattenSeq(<<>>) = <<>>
BY EmptySeq DEF FlattenSeq

(* One more element is one more piece at the end.                          *)
LEMMA FlattenAppend ==
  ASSUME NEW T, NEW ss \in Seq(Seq(T)), NEW s \in Seq(T)
  PROVE  FlattenSeq(Append(ss, s)) = FlattenSeq(ss) \o s
<1> DEFINE tt == Append(ss, s)
           n == Len(ss)
<1>1. tt \in Seq(Seq(T)) /\ Len(tt) = n + 1 /\ n \in Nat /\ tt[n + 1] = s /\ \A i \in 1..n : tt[i] = ss[i]
  BY AppendProperties, LenProperties
<1> HIDE DEF tt
<1>2. PICK f : Flattens(f, ss) /\ FlattenSeq(ss) = f[n]
  BY FlattenLoop
<1>3. PICK g : Flattens(g, tt) /\ FlattenSeq(tt) = g[Len(tt)]
  BY <1>1, FlattenLoop
<1> HIDE DEF n
<1>4. n \in Nat /\ Len(ss) \in Nat /\ n <= Len(ss) /\ n <= Len(tt) /\ Len(tt) \in Nat /\ \A i \in 1..n : ss[i] = tt[i]
  BY <1>1 DEF n
<1>5. f[n] = g[n]
  BY <1>2, <1>3, <1>4, FlattensAgree
<1>6. g[n + 1] = g[n] \o tt[n + 1]
  <2>1. n + 1 \in 1..Len(tt) /\ (n + 1) - 1 = n
    BY <1>1
  <2> QED
    BY <1>3, <2>1 DEF Flattens
<1> QED
  BY <1>1, <1>2, <1>3, <1>5, <1>6 DEF tt

-----------------------------------------------------------------------------
(* How often an entry is in a table: the tables of both managers grow by   *)
(* push and shrink by moving the last entry into the place of the one      *)
(* that is removed.                                                        *)

Places(queue, e) == {i \in DOMAIN queue : queue[i] = e}

LEMMA PlacesFinite ==
  ASSUME NEW S, NEW q \in Seq(S), NEW e
  PROVE  /\ IsFiniteSet(Places(q, e)) /\ Cardinality(Places(q, e)) \in Nat
         /\ Places(q, e) \subseteq 1..Len(q)
<1>1. Len(q) \in Nat /\ DOMAIN q = 1..Len(q)
  BY LenProperties
<1>2. Places(q, e) \in SUBSET (1..Len(q))
  BY <1>1 DEF Places
<1>3. IsFiniteSet(1..Len(q))
  BY <1>1, FS_Interval
<1>4. IsFiniteSet(Places(q, e))
  BY <1>2, <1>3, FS_Subset
<1> QED
  BY <1>2, <1>4, FS_CardinalityType

(* An entry is in a table exactly if it has a place there. *)
LEMMA PlacesCount ==
  ASSUME NEW S, NEW q \in Seq(S), NEW e
  PROVE  (\E i \in DOMAIN q : q[i] = e) <=> Cardinality(Places(q, e)) > 0
<1>1. IsFiniteSet(Places(q, e)) /\ Cardinality(Places(q, e)) \in Nat
  BY PlacesFinite
<1>2. Cardinality(Places(q, e)) = 0 <=> Places(q, e) = {}
  BY <1>1, FS_EmptySet
<1>3. (\E i \in DOMAIN q : q[i] = e) <=> Places(q, e) # {}
  BY DEF Places
<1> QED
  BY <1>1, <1>2, <1>3

LEMMA PlacesEmpty ==
  ASSUME NEW e
  PROVE  Cardinality(Places(<<>>, e)) = 0
<1>1. Places(<<>>, e) = {}
  BY DEF Places
<1> QED
  BY <1>1, FS_EmptySet

(* push: one more of the entry that is pushed, as many of the others. *)
LEMMA PlacesAppend ==
  ASSUME NEW S, NEW q \in Seq(S), NEW x \in S, NEW e
  PROVE  Cardinality(Places(Append(q, x), e))
           = Cardinality(Places(q, e)) + (IF x = e THEN 1 ELSE 0)
<1> DEFINE t == Append(q, x)
           n == Len(q)
<1>1. /\ t \in Seq(S) /\ n \in Nat /\ Len(t) = n + 1
      /\ t[n + 1] = x /\ \A i \in 1..n : t[i] = q[i]
      /\ DOMAIN q = 1..n /\ DOMAIN t = 1..(n + 1)
  BY AppendProperties, LenProperties
<1> HIDE DEF t, n
<1>2. Places(t, e) = IF x = e THEN Places(q, e) \cup {n + 1} ELSE Places(q, e)
  BY <1>1 DEF Places
<1>3. n + 1 \notin Places(q, e)
  BY <1>1 DEF Places
<1>4. IsFiniteSet(Places(q, e)) /\ Cardinality(Places(q, e)) \in Nat
  BY PlacesFinite
<1>5. Cardinality(Places(q, e) \cup {n + 1}) = Cardinality(Places(q, e)) + 1
  BY <1>3, <1>4, FS_AddElement
<1> QED
  BY <1>2, <1>4, <1>5 DEF t

(* Removal: the last entry moves to place p, unless it is the one removed. *)
Without(q, p) == [j \in 1..(Len(q) - 1) |-> IF j = p THEN q[Len(q)] ELSE q[j]]

LEMMA WithoutType ==
  ASSUME NEW S, NEW q \in Seq(S), NEW p \in 1..Len(q)
  PROVE  /\ Without(q, p) \in Seq(S)
         /\ Len(Without(q, p)) = Len(q) - 1
         /\ \A j \in 1..(Len(q) - 1) : Without(q, p)[j] = IF j = p THEN q[Len(q)] ELSE q[j]
         /\ Len(q) \in Nat /\ Len(q) > 0
<1> DEFINE n == Len(q)
<1>1. n \in Nat /\ n > 0 /\ \A i \in 1..n : q[i] \in S
  BY ElementOfSeq
<1>2. n \in 1..n /\ \A j \in 1..(n - 1) : j \in 1..n
  BY <1>1
<1>3. Without(q, p) \in [1..(n - 1) -> S]
  BY <1>1, <1>2 DEF Without
<1>4. n - 1 \in Nat
  BY <1>1
<1>5. \A j \in 1..(n - 1) : Without(q, p)[j] = IF j = p THEN q[n] ELSE q[j]
  BY DEF Without
<1> HIDE DEF Without, n
<1>6. Without(q, p) \in Seq(S) /\ Len(Without(q, p)) = n - 1
  BY <1>3, <1>4
<1> QED
  BY <1>1, <1>5, <1>6 DEF n

(* One place fewer for the entry that was at p, as many for the others:    *)
(* what takes its place leaves the end of the table.                       *)
LEMMA PlacesWithout ==
  ASSUME NEW S, NEW q \in Seq(S), NEW p \in 1..Len(q), NEW e
  PROVE  Cardinality(Places(Without(q, p), e))
           = Cardinality(Places(q, e)) - (IF q[p] = e THEN 1 ELSE 0)
<1> DEFINE t == Without(q, p)
           n == Len(q)
           P == Places(q, e)
           R == Places(t, e)
<1>1. /\ t \in Seq(S) /\ n \in Nat /\ n > 0 /\ Len(t) = n - 1 /\ p \in 1..n
      /\ \A i \in 1..(n - 1) : t[i] = IF i = p THEN q[n] ELSE q[i]
  BY WithoutType
<1>2. DOMAIN q = 1..n /\ DOMAIN t = 1..(n - 1)
  BY <1>1, LenProperties
<1>3. IsFiniteSet(P) /\ Cardinality(P) \in Nat
  BY PlacesFinite
<1> HIDE DEF t, n
<1>4. P = {i \in 1..n : q[i] = e} /\ R = {i \in 1..(n - 1) : t[i] = e}
  BY <1>2 DEF Places
<1> HIDE DEF P, R
<1>5. CASE q[n] # e
  <2>1. R = P \ {p}
    BY <1>1, <1>4, <1>5
  <2>2. p \in P <=> q[p] = e
    BY <1>1, <1>4
  <2>3. Cardinality(R) = IF q[p] = e THEN Cardinality(P) - 1 ELSE Cardinality(P)
    BY <1>3, <2>1, <2>2, FS_RemoveElement
  <2> QED
    BY <1>3, <2>3 DEF t, P, R
<1>6. CASE q[n] = e /\ n = p
  <2>1. R = P \ {p} /\ q[p] = e /\ p \in P
    BY <1>1, <1>4, <1>6
  <2> QED
    BY <1>3, <2>1, FS_RemoveElement DEF t, P, R
<1>7. CASE q[n] = e /\ n # p
  <2>1. R = (P \ {n}) \cup {p} /\ n \in P
    BY <1>1, <1>4, <1>7
  <2>2. IsFiniteSet(P \ {n}) /\ Cardinality(P \ {n}) = Cardinality(P) - 1
    BY <1>3, <2>1, FS_RemoveElement
  <2>3. p \in P \ {n} <=> q[p] = e
    BY <1>1, <1>4, <1>7
  <2>4. Cardinality(R) = IF q[p] = e THEN Cardinality(P \ {n}) ELSE Cardinality(P \ {n}) + 1
    BY <2>1, <2>2, <2>3, FS_AddElement
  <2> QED
    BY <1>3, <2>2, <2>4 DEF t, P, R
<1> QED
  BY <1>5, <1>6, <1>7

-----------------------------------------------------------------------------
(* Where the frames of a call stack are: both managers keep a scope above  *)
(* the frame of the scope that contains it, the root scope above the entry *)
(* point, and a call above the frame of its scope.  From that, frame by    *)
(* frame, the whole path of a call follows.                                *)

Placed(s, i) ==
    /\ s[i].kind = "scope" =>
          /\ i > 1
          /\ \/ s[i].scope = <<>> /\ s[i - 1].kind = "entry"
             \/ /\ s[i - 1].kind = "scope"
                /\ \E c \in Nat : s[i].scope = Append(s[i - 1].scope, c)
    /\ s[i].kind = "call" =>
          /\ i > 1
          /\ s[i - 1].kind = "scope" /\ s[i - 1].scope = s[i].action.scope

Paths(s) ==
    /\ Len(s) \in Nat
    /\ \A i \in 1..Len(s) :
          Placed(s, i) /\ s[i].scope \in Seq(Nat) /\ s[i].action.scope \in Seq(Nat)

(* Frames are popped, or change without a call changing its action. *)
LEMMA PlacedKept ==
  ASSUME NEW n \in Nat, NEW m \in 0..n, NEW s, NEW t, \A i \in 1..n : Placed(s, i),
         \A i \in 1..m : /\ t[i].kind = s[i].kind /\ t[i].scope = s[i].scope
                         /\ s[i].kind = "call" => t[i].action = s[i].action
  PROVE  \A i \in 1..m : Placed(t, i)
<1> SUFFICES ASSUME NEW i \in 1..m PROVE Placed(t, i)
  OBVIOUS
<1>1. Placed(s, i) /\ (i > 1 => i - 1 \in 1..m)
  OBVIOUS
<1> QED
  BY <1>1 DEF Placed

(* A frame is pushed. *)
LEMMA PlacedPush ==
  ASSUME NEW n \in Nat, NEW s, NEW t, \A i \in 1..n : Placed(s, i),
         \A i \in 1..n : t[i] = s[i], Placed(t, n + 1)
  PROVE  \A i \in 1..(n + 1) : Placed(t, i)
<1> SUFFICES ASSUME NEW i \in 1..n PROVE Placed(t, i)
  OBVIOUS
<1>1. Placed(s, i) /\ t[i] = s[i] /\ (i > 1 => t[i - 1] = s[i - 1])
  OBVIOUS
<1> QED
  BY <1>1 DEF Placed

(* Below the frame of a prefix of a scope is the frame of its parent. *)
LEMMA ParentBelow ==
  ASSUME NEW s, Paths(s), NEW j \in 1..Len(s), s[j].kind = "scope",
         NEW b \in Seq(Nat), NEW k \in 1..Len(b), s[j].scope = SubSeq(b, 1, k)
  PROVE  j > 1 /\ s[j - 1].kind = "scope" /\ s[j - 1].scope = SubSeq(b, 1, k - 1)
<1> DEFINE x == SubSeq(b, 1, k)
<1>1. /\ Len(b) \in Nat /\ k \in Nat /\ k > 0 /\ k <= Len(b)
      /\ \A h \in 1..k : b[h] \in Nat
  BY ElementOfSeq
<1>2. x \in Seq(Nat) /\ Len(x) = k
  BY <1>1, SubSeqProperties
<1>3. SubSeq(x, 1, k - 1) = SubSeq(b, 1, k - 1)
  BY <1>1, <1>2, SMT
<1> HIDE DEF x
<1>4. x # <<>>
  BY <1>1, <1>2, EmptySeq
<1>5. Placed(s, j)
  BY DEF Paths
<1>6. j > 1 /\ s[j - 1].kind = "scope" /\ \E c \in Nat : x = Append(s[j - 1].scope, c)
  BY <1>4, <1>5 DEF Placed, x
<1>7. PICK c \in Nat : x = Append(s[j - 1].scope, c)
  BY <1>6
<1>8. s[j - 1].scope \in Seq(Nat)
  <2>1. j - 1 \in 1..Len(s)
    BY <1>6
  <2> QED
    BY <2>1 DEF Paths
<1>9. Len(s[j - 1].scope) = k - 1 /\ s[j - 1].scope = SubSeq(x, 1, Len(s[j - 1].scope))
  BY <1>1, <1>2, <1>7, <1>8, AppendProperties, SMTT(30)
<1> QED
  BY <1>3, <1>6, <1>9

LEMMA FramesBelow ==
  ASSUME NEW s, Paths(s), NEW i \in 1..Len(s), s[i].kind = "call",
         NEW m \in 0..Len(s[i].action.scope)
  PROVE  /\ i - 1 - m \in 1..Len(s) /\ s[i - 1 - m].kind = "scope"
         /\ s[i - 1 - m].scope = SubSeq(s[i].action.scope, 1, Len(s[i].action.scope) - m)
<1> DEFINE b == s[i].action.scope
           d == Len(b)
           Below(h) == /\ i - 1 - h \in 1..Len(s) /\ s[i - 1 - h].kind = "scope"
                       /\ s[i - 1 - h].scope = SubSeq(b, 1, d - h)
           Ok == {h \in Nat : h <= d => Below(h)}
<1>1. /\ Len(s) \in Nat /\ i \in Nat /\ i <= Len(s)
      /\ b \in Seq(Nat) /\ d \in Nat /\ SubSeq(b, 1, d) = b
  BY SubSeqFull DEF Paths
<1>2. i > 1 /\ s[i - 1].kind = "scope" /\ s[i - 1].scope = b
  BY DEF Paths, Placed
<1> HIDE DEF b
<1>3. 0 \in Ok
  BY <1>1, <1>2
<1>4. ASSUME NEW h \in Ok PROVE h + 1 \in Ok
  <2> SUFFICES ASSUME h + 1 <= d PROVE Below(h + 1)
    BY <1>4, SMTT(30)
  <2> DEFINE j == i - 1 - h
             k == d - h
  <2>1. h \in Nat /\ h <= d /\ k \in 1..d /\ Below(h)
    <3> HIDE DEF Below, d
    <3>1. h \in Nat /\ h <= d /\ Below(h)
      BY <1>1, <1>4
    <3>2. d - h \in 1..d
      BY <1>1, <3>1
    <3> QED
      BY <3>1, <3>2
  <2>2. j > 1 /\ s[j - 1].kind = "scope" /\ s[j - 1].scope = SubSeq(b, 1, k - 1)
    BY <1>1, <2>1, ParentBelow
  <2>3. j - 1 = i - 1 - (h + 1) /\ k - 1 = d - (h + 1) /\ j - 1 \in 1..Len(s)
    BY <1>1, <2>1, <2>2
  <2> QED
    BY <2>2, <2>3
<1> HIDE DEF Ok
<1>5. Ok = Nat
  <2>1. Ok \in SUBSET Nat
    BY DEF Ok
  <2> QED
    BY <1>3, <1>4, <2>1, NatSetInduction
<1>6. m \in Ok /\ m <= d
  BY <1>1, <1>5 DEF b
<1>7. Below(m)
  BY <1>6 DEF Ok
<1> QED
  BY <1>7 DEF b

LEMMA EntryBelow ==
  ASSUME NEW s, Paths(s), NEW i \in 1..Len(s), s[i].kind = "call"
  PROVE  s[i - Len(s[i].action.scope) - 2].kind = "entry"
<1> DEFINE b == s[i].action.scope
           d == Len(b)
           j == i - 1 - d
<1>1. Len(s) \in Nat /\ i \in Nat /\ b \in Seq(Nat) /\ d \in Nat
  BY DEF Paths
<1>2. d \in 0..d
  BY <1>1
<1>3. j \in 1..Len(s) /\ s[j].kind = "scope" /\ s[j].scope = SubSeq(b, 1, d - d)
  BY <1>2, FramesBelow
<1>4. SubSeq(b, 1, d - d) = <<>> /\ i - d - 2 = j - 1
  BY <1>1, SubSeqEmpty
<1> HIDE DEF b, d, j
<1>5. s[j].scope = <<>> /\ j \in Int
  BY <1>3, <1>4
<1>6. Placed(s, j)
  BY <1>3 DEF Paths
<1>7. ASSUME j > 1, s[j - 1].kind = "scope", \E c \in Nat : s[j].scope = Append(s[j - 1].scope, c)
      PROVE  FALSE
  <2>1. j - 1 \in 1..Len(s)
    BY <1>1, <1>3, <1>7
  <2>2. s[j - 1].scope \in Seq(Nat)
    BY <2>1 DEF Paths
  <2> QED
    BY <1>5, <1>7, <2>2, AppendProperties
<1>8. s[j - 1].kind = "entry"
  BY <1>3, <1>6, <1>7 DEF Placed
<1> QED
  BY <1>4, <1>8 DEF b, d

(* The frames below a call are the entry point and, in order, the frames   *)
(* of the prefixes of its scope.                                           *)
LEMMA CallPath ==
  ASSUME NEW s, Paths(s), NEW i \in 1..Len(s), s[i].kind = "call"
  PROVE  LET depth == Len(s[i].action.scope)
         IN /\ s[i - depth - 2].kind = "entry"
            /\ \A n \in 0..depth :
                  /\ s[i - depth - 1 + n].kind = "scope"
                  /\ s[i - depth - 1 + n].scope = SubSeq(s[i].action.scope, 1, n)
<1> DEFINE d == Len(s[i].action.scope)
<1>1. i \in Nat /\ d \in Nat
  BY DEF Paths
<1>2. ASSUME NEW n \in 0..d
      PROVE  /\ s[i - d - 1 + n].kind = "scope"
             /\ s[i - d - 1 + n].scope = SubSeq(s[i].action.scope, 1, n)
  <2>1. d - n \in 0..d /\ i - 1 - (d - n) = i - d - 1 + n /\ d - (d - n) = n
    BY <1>1
  <2>2. /\ s[i - 1 - (d - n)].kind = "scope"
        /\ s[i - 1 - (d - n)].scope = SubSeq(s[i].action.scope, 1, d - (d - n))
    BY <2>1, FramesBelow
  <2> QED
    BY <2>1, <2>2
<1>3. s[i - d - 2].kind = "entry"
  BY EntryBelow
<1> QED
  BY <1>2, <1>3
=============================================================================
