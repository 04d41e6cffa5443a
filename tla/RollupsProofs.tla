---------------------------- MODULE RollupsProofs ----------------------------
(***************************************************************************)
(* Theorems about the L1 contract, for every set of batches, every number  *)
(* of rollups and every depth of the call stack: the Ether it holds, the   *)
(* table of executions, the call stack above it, and that the contract     *)
(* implements the RollupsLedger.                                           *)
(***************************************************************************)
EXTENDS Rollups, ProofLibrary

-----------------------------------------------------------------------------
(* Total is additive, for every number of rollups. *)

(* The running sums of f up to n. *)
SumsOf(f, n) == {s \in [0..n -> Int] : s[0] = 0 /\ \A i \in 1..n : s[i] = s[i - 1] + f[i]}

(* Total is the last of its running sums: the recursive function exists.   *)
LEMMA PartialSums ==
  ASSUME NEW f \in [1..MaxRollups -> Int]
  PROVE  \E s \in SumsOf(f, MaxRollups) : Total(f) = s[MaxRollups]
<1>1. \E s : s \in SumsOf(f, MaxRollups)
  <2> DEFINE Ok == {n \in Nat : n <= MaxRollups => \E s : s \in SumsOf(f, n)}
  <2>1. 0 \in Ok
    <3>1. [i \in 0..0 |-> 0] \in SumsOf(f, 0)
      BY DEF SumsOf
    <3> QED
      BY <3>1
  <2>2. ASSUME NEW n \in Ok PROVE n + 1 \in Ok
    <3> SUFFICES ASSUME n + 1 <= MaxRollups PROVE \E s : s \in SumsOf(f, n + 1)
      OBVIOUS
    <3>1. PICK s : s \in SumsOf(f, n)
      BY <2>2, MaxRollupsNat
    <3> DEFINE t == [i \in 0..(n + 1) |-> IF i = n + 1 THEN s[n] + f[n + 1] ELSE s[i]]
    <3>2. t \in SumsOf(f, n + 1)
      <4>1. n \in Nat /\ s \in [0..n -> Int] /\ f[n + 1] \in Int
        BY <3>1, MaxRollupsNat DEF SumsOf
      <4>2. t \in [0..(n + 1) -> Int]
        BY <4>1
      <4>3. ASSUME NEW i \in 1..(n + 1) PROVE t[i] = t[i - 1] + f[i]
        <5>1. CASE i = n + 1
          BY <4>1, <5>1
        <5>2. CASE i # n + 1
          BY <3>1, <4>1, <5>2 DEF SumsOf
        <5> QED
          BY <5>1, <5>2
      <4>4. t[0] = 0
        BY <3>1, <4>1 DEF SumsOf
      <4> QED
        BY <4>2, <4>3, <4>4 DEF SumsOf
    <3> QED
      BY <3>2
  <2> HIDE DEF Ok
  <2>3. Ok = Nat
    <3>1. Ok \in SUBSET Nat
      BY DEF Ok
    <3> QED
      BY <2>1, <2>2, <3>1, NatSetInduction
  <2> QED
    BY <2>3, MaxRollupsNat DEF Ok
<1> DEFINE Eq(s) == s = [n \in 0..MaxRollups |-> IF n = 0 THEN 0 ELSE s[n - 1] + f[n]]
<1>2. PICK s : s \in SumsOf(f, MaxRollups)
  BY <1>1
<1>3. Eq(s)
  BY <1>2, MaxRollupsNat DEF SumsOf
<1> DEFINE c == CHOOSE u : Eq(u)
<1>4. Eq(c)
  BY <1>3
<1>5. Total(f) = c[MaxRollups]
  BY DEF Total
<1> HIDE DEF c
<1>6. c \in SumsOf(f, MaxRollups)
  <2>1. DOMAIN c = 0..MaxRollups
    BY <1>4
  <2>2. c[0] = 0
    BY <1>4, MaxRollupsNat
  <2>3. \A i \in 1..MaxRollups : c[i] = c[i - 1] + f[i]
    BY <1>4, MaxRollupsNat
  <2>4. \A i \in 0..MaxRollups : c[i] \in Int
    <3> DEFINE Ok == {n \in Nat : n <= MaxRollups => c[n] \in Int}
    <3>1. 0 \in Ok
      BY <2>2
    <3>2. ASSUME NEW n \in Ok PROVE n + 1 \in Ok
      BY <2>3, <3>2, MaxRollupsNat
    <3> HIDE DEF Ok
    <3>3. Ok = Nat
      <4>1. Ok \in SUBSET Nat
        BY DEF Ok
      <4> QED
        BY <3>1, <3>2, <4>1, NatSetInduction
    <3> QED
      BY <3>3, MaxRollupsNat DEF Ok
  <2>5. c \in [0..MaxRollups -> Int]
    BY <1>4, <2>4
  <2> QED
    BY <2>2, <2>3, <2>5 DEF SumsOf
<1> QED
  BY <1>5, <1>6

(* What _applyStateDeltas relies on: adding the deltas one by one adds     *)
(* their sum to the total.                                                 *)
LEMMA TotalOfSum ==
  ASSUME NEW f \in [1..MaxRollups -> Int], NEW g \in [1..MaxRollups -> Int],
         NEW h \in [1..MaxRollups -> Int], \A r \in 1..MaxRollups : h[r] = f[r] + g[r]
  PROVE  Total(h) = Total(f) + Total(g)
<1>1. PICK s \in SumsOf(f, MaxRollups) : Total(f) = s[MaxRollups]
  BY PartialSums
<1>2. PICK t \in SumsOf(g, MaxRollups) : Total(g) = t[MaxRollups]
  BY PartialSums
<1>3. PICK u \in SumsOf(h, MaxRollups) : Total(h) = u[MaxRollups]
  BY PartialSums
<1> DEFINE Ok == {n \in Nat : n <= MaxRollups => u[n] = s[n] + t[n]}
<1>4. 0 \in Ok
  BY MaxRollupsNat DEF SumsOf
<1>5. ASSUME NEW n \in Ok PROVE n + 1 \in Ok
  BY MaxRollupsNat, SMTT(30) DEF SumsOf
<1> HIDE DEF Ok
<1>6. Ok = Nat
  <2>1. Ok \in SUBSET Nat
    BY DEF Ok
  <2> QED
    BY <1>4, <1>5, <2>1, NatSetInduction
<1> QED
  BY <1>1, <1>2, <1>3, <1>6, MaxRollupsNat DEF Ok

(* A total of integers is an integer. *)
LEMMA TotalType ==
  ASSUME NEW f \in [1..MaxRollups -> Int]
  PROVE  Total(f) \in Int
<1>1. PICK s \in SumsOf(f, MaxRollups) : Total(f) = s[MaxRollups]
  BY PartialSums
<1> QED
  BY <1>1, MaxRollupsNat DEF SumsOf

-----------------------------------------------------------------------------
(* Types of the data. *)

LEMMA ActionTypes ==
  /\ NoAction \in Action
  /\ \A r \in ChainIds, to \in Addresses, v \in Nat, data \in Data,
        from \in Addresses, c \in ChainIds, scope \in Scope :
        CallAction(r, to, v, data, from, c, scope) \in Action
  /\ \A r \in ChainIds, data \in Data, failed \in BOOLEAN :
        ResultAction(r, data, failed) \in Action
BY ActionConstants, RollupsConstants
   DEF NoAction, CallAction, ResultAction, Unaddressed, Action, ActionType,
       ChainIds, MAINNET_ROLLUP_ID, Scope

LEMMA EntryTypes ==
  ASSUME NEW e \in ExecutionEntry
  PROVE  /\ DOMAIN e.stateDeltas \subseteq RollupIds
         /\ \A r \in DOMAIN e.stateDeltas :
               /\ e.stateDeltas[r].newState \in Roots
               /\ e.stateDeltas[r].etherDelta \in Int
         /\ e.nextAction \in Action
         /\ e.nextAction.actionType \in {"L2TX", "REVERT"} => e.nextAction.rollupId \in RollupIds
BY EntryShape DEF StateDelta, NextActions

LEMMA WorldEtherDelta ==
  ASSUME NEW w \in World, NEW i \in Int
  PROVE  [w EXCEPT !.etherDelta = i] \in World
BY DEF World

LEMMA WorldRollups ==
  ASSUME NEW w \in World, NEW rs \in RollupConfigs
  PROVE  [w EXCEPT !.rollups = rs] \in World
BY DEF World

LEMMA ApplyType ==
  ASSUME NEW w \in World, NEW e \in ExecutionEntry, DeltasApply(w, e.stateDeltas)
  PROVE  ApplyStateDeltas(w, e.stateDeltas) \in World
<1> DEFINE deltas == e.stateDeltas
           applied == [r \in RollupIds |->
             IF r \in DOMAIN deltas
             THEN [w.rollups[r] EXCEPT !.stateRoot = deltas[r].newState,
                                       !.etherBalance = @ + deltas[r].etherDelta]
             ELSE w.rollups[r]]
<1>1. ASSUME NEW r \in RollupIds, r \in DOMAIN deltas
      PROVE  [w.rollups[r] EXCEPT !.stateRoot = deltas[r].newState,
                                  !.etherBalance = @ + deltas[r].etherDelta] \in RollupConfig
  <2>1. w.rollups[r] \in RollupConfig
    BY DEF World, RollupConfigs
  <2>2. deltas[r].newState \in Roots /\ deltas[r].etherDelta \in Int
    BY <1>1, EntryTypes
  <2>3. w.rollups[r].etherBalance + deltas[r].etherDelta >= 0
    BY <1>1 DEF DeltasApply
  <2>4. w.rollups[r].etherBalance + deltas[r].etherDelta \in Nat
    BY <2>1, <2>2, <2>3 DEF RollupConfig
  <2> HIDE DEF deltas
  <2> QED
    BY <2>1, <2>2, <2>4 DEF RollupConfig
<1>2. applied \in RollupConfigs
  BY <1>1 DEF World, RollupConfigs
<1>3. ApplyStateDeltas(w, deltas) = [w EXCEPT !.rollups = applied, !.etherDelta = 0]
  BY DEF ApplyStateDeltas
<1> HIDE DEF applied
<1>4. [w EXCEPT !.rollups = applied, !.etherDelta = 0] \in World
  <2> DEFINE x == [w EXCEPT !.rollups = applied]
  <2>1. x \in World
    BY <1>2, WorldRollups
  <2>2. [w EXCEPT !.rollups = applied, !.etherDelta = 0] = [x EXCEPT !.etherDelta = 0]
    BY DEF World
  <2> HIDE DEF x
  <2> QED
    BY <2>1, <2>2, WorldEtherDelta
<1> QED
  BY <1>3, <1>4

LEMMA FirstMatchInTable ==
  ASSUME NEW w \in World, NEW a, Matching(w, a) # {}
  PROVE  /\ FirstMatch(w, a) \in 1..Len(w.executions)
         /\ FirstMatch(w, a) \in Matching(w, a)
<1>1. Matching(w, a) \in SUBSET Nat
  BY DEF Matching
<1>2. \E i \in Matching(w, a) : \A j \in Matching(w, a) : i <= j
  BY <1>1, NatSetLeast
<1>3. FirstMatch(w, a) \in Matching(w, a)
  BY <1>2 DEF FirstMatch
<1> QED
  BY <1>3 DEF Matching

LEMMA SwapAndPopType ==
  ASSUME NEW S, NEW s \in Seq(S), NEW i \in 1..Len(s)
  PROVE  SwapAndPop(s, i) \in Seq(S)
<1>1. Len(s) \in Nat /\ \A j \in 1..Len(s) : s[j] \in S
  BY ElementOfSeq, LenProperties
<1>2. SwapAndPop(s, i) \in [1..(Len(s) - 1) -> S]
  BY <1>1 DEF SwapAndPop
<1>3. Len(s) - 1 \in Nat
  BY <1>1
<1> HIDE DEF SwapAndPop
<1> QED
  BY <1>2, <1>3

LEMMA ExecuteType ==
  ASSUME NEW w \in World, NEW a, Executable(w, a)
  PROVE  /\ w.executions[FirstMatch(w, a)] \in ExecutionEntry
         /\ Execute(w, a) \in World
         /\ NextAction(w, a) \in Action
<1> DEFINE i == FirstMatch(w, a)
           e == w.executions[i]
           x == ApplyStateDeltas(w, e.stateDeltas)
<1>1. i \in 1..Len(w.executions)
  BY FirstMatchInTable DEF Executable
<1>2. w.executions \in Seq(ExecutionEntry) /\ w.consumed \in Seq(ExecutionEntry)
  BY DEF World
<1>3. e \in ExecutionEntry
  BY <1>1, <1>2, ElementOfSeq
<1>4. x \in World
  BY <1>3, ApplyType DEF Executable
<1>5. SwapAndPop(w.executions, i) \in Seq(ExecutionEntry)
  BY <1>1, <1>2, SwapAndPopType
<1>6. Append(w.consumed, e) \in Seq(ExecutionEntry)
  BY <1>2, <1>3
<1>7. Execute(w, a) = [x EXCEPT !.executions = SwapAndPop(w.executions, i),
                                !.consumed = Append(w.consumed, e)]
  BY DEF Execute
<1>8. NextAction(w, a) \in Action
  BY <1>3, EntryTypes DEF NextAction
<1> HIDE DEF x, e, i
<1>9. Execute(w, a) \in World
  BY <1>4, <1>5, <1>6, <1>7 DEF World
<1> QED
  BY <1>3, <1>8, <1>9 DEF e, i

-----------------------------------------------------------------------------
(* The ether of a world. *)

LEMMA BalancesType ==
  ASSUME NEW w \in World
  PROVE  Balances(w) \in [1..MaxRollups -> Int] /\ Gap(w) \in Int
<1>1. \A r \in RollupIds : w.rollups[r].etherBalance \in Nat
  BY DEF World, RollupConfigs, RollupConfig
<1>2. Balances(w) \in [1..MaxRollups -> Int]
  BY <1>1, RollupsConstants DEF Balances
<1>3. w.held \in Nat
  BY DEF World
<1> HIDE DEF Balances
<1>4. Total(Balances(w)) \in Int
  BY <1>2, TotalType
<1> QED
  BY <1>2, <1>3, <1>4 DEF Gap

(* Only the rollups' balances and held count. *)
LEMMA SameGap ==
  ASSUME NEW v \in World, NEW w,
         \A r \in RollupIds : w.rollups[r].etherBalance = v.rollups[r].etherBalance,
         w.held = v.held
  PROVE  Gap(w) = Gap(v)
<1>1. Balances(w) = Balances(v)
  BY DEF Balances
<1> QED
  BY <1>1 DEF Gap

(* Applying deltas moves the gap by exactly the ether the transaction has  *)
(* seen flow, which _applyStateDeltas compares the deltas with.            *)
LEMMA ApplyGap ==
  ASSUME NEW w \in World, NEW e \in ExecutionEntry, DeltasApply(w, e.stateDeltas)
  PROVE  Gap(ApplyStateDeltas(w, e.stateDeltas)) = Gap(w) + w.etherDelta
<1> DEFINE x == ApplyStateDeltas(w, e.stateDeltas)
           f == Balances(w)
           g == EtherDeltas(e.stateDeltas)
           h == Balances(x)
<1>1. x \in World
  BY ApplyType
<1>2. x.held = w.held
  BY DEF ApplyStateDeltas, World
<1>3. x.rollups = [r \in RollupIds |->
            IF r \in DOMAIN e.stateDeltas
            THEN [w.rollups[r] EXCEPT !.stateRoot = e.stateDeltas[r].newState,
                                      !.etherBalance = @ + e.stateDeltas[r].etherDelta]
            ELSE w.rollups[r]]
  BY DEF ApplyStateDeltas, World
<1>4. f \in [1..MaxRollups -> Int] /\ h \in [1..MaxRollups -> Int]
  BY <1>1, BalancesType
<1>5. g \in [1..MaxRollups -> Int]
  BY EntryTypes, RollupsConstants DEF EtherDeltas
<1>6. ASSUME NEW r \in 1..MaxRollups PROVE h[r] = f[r] + g[r]
  <2>1. r \in RollupIds /\ w.rollups[r] \in RollupConfig
    BY RollupsConstants DEF World, RollupConfigs
  <2>2. CASE r \in DOMAIN e.stateDeltas
    <3>1. x.rollups[r].etherBalance = w.rollups[r].etherBalance + e.stateDeltas[r].etherDelta
      BY <1>3, <2>1, <2>2 DEF RollupConfig
    <3> QED
      BY <3>1, <2>1, <2>2 DEF Balances, EtherDeltas
  <2>3. CASE r \notin DOMAIN e.stateDeltas
    <3>1. x.rollups[r] = w.rollups[r]
      BY <1>3, <2>1, <2>3
    <3>2. w.rollups[r].etherBalance \in Nat
      BY <2>1 DEF RollupConfig
    <3> QED
      BY <3>1, <3>2, <2>1, <2>3 DEF Balances, EtherDeltas
  <2> QED
    BY <2>2, <2>3
<1> HIDE DEF f, g, h
<1>7. Total(h) = Total(f) + Total(g)
  BY <1>4, <1>5, <1>6, TotalOfSum
<1>8. Total(g) = w.etherDelta
  BY DEF DeltasApply, g
<1>9. Total(f) \in Int /\ Total(g) \in Int /\ w.held \in Int
  BY <1>4, <1>5, TotalType DEF World
<1> QED
  BY <1>2, <1>7, <1>8, <1>9 DEF Gap, f, h

LEMMA ExecuteGap ==
  ASSUME NEW w \in World, NEW a, Executable(w, a)
  PROVE  Gap(Execute(w, a)) = Gap(w) + w.etherDelta
<1> DEFINE e == w.executions[FirstMatch(w, a)]
           x == ApplyStateDeltas(w, e.stateDeltas)
<1>1. e \in ExecutionEntry /\ DeltasApply(w, e.stateDeltas)
  BY ExecuteType DEF Executable
<1>2. x \in World /\ Gap(x) = Gap(w) + w.etherDelta
  BY <1>1, ApplyType, ApplyGap
<1>3. Execute(w, a).rollups = x.rollups /\ Execute(w, a).held = x.held
  BY <1>2 DEF Execute, World
<1> QED
  BY <1>2, <1>3, SameGap

-----------------------------------------------------------------------------
(* The inductive invariant.  k is a number of rollups that no revert can   *)
(* take back: every entry a prover has proved is about one of them, so     *)
(* none can credit a rollup that createRollup has still to set up.         *)

Known(entries, k) ==
    \A i \in 1..Len(entries) : \A r \in DOMAIN entries[i].stateDeltas : r < k

(* A state the contract may be in, or be rolled back to. *)
Fresh(w, k) ==
    /\ w \in World
    /\ k <= w.rollupCounter
    /\ \A r \in RollupIds : r >= w.rollupCounter => w.rollups[r].etherBalance = 0
    /\ Known(w.executions, k)

Sound(w, k) == Fresh(w, k) /\ w.etherDelta = 0

Handed(frame) == IF frame.kind = "call" THEN frame.action.value ELSE 0

(* Frames s under state w: a scope or a call has its caller below it, and  *)
(* each call accounts for the ether it was handed.                         *)
At(s, w, i) == IF i <= Len(s) THEN s[i].before ELSE w

Nested(s) ==
    \A i \in 1..Len(s) :
        s[i].kind \in {"scope", "call"} => i > 1 /\ s[i - 1].kind \in {"entry", "scope"}

Owed(s, w) ==
    /\ Gap(At(s, w, 1)) = 0
    /\ \A i \in 1..Len(s) : Gap(At(s, w, i + 1)) = Gap(At(s, w, i)) + Handed(s[i])

Good(s, w, k) ==
    /\ s \in Seq(Frame)
    /\ Sound(w, k)
    /\ \A i \in 1..Len(s) : Sound(s[i].before, k) /\ Known(s[i].todo, k)
    /\ Nested(s)
    /\ Owed(s, w)

ProofType == [entries: Seq(ExecutionEntry), verificationKeys: [RollupIds -> VKs],
              blockNumber: Nat]

IInv ==
    /\ blockNumber \in Nat
    /\ proof \in ProofType
    /\ \E k \in Nat : Good(stack, evm, k) /\ Known(proof.entries, k)

-----------------------------------------------------------------------------
(* What happens to the stack. *)

(* The state changes under the frames, and the gap does not. *)
LEMMA GoodStep ==
  ASSUME NEW k \in Nat, NEW s, NEW w, Good(s, w, k),
         NEW v, Sound(v, k), Gap(v) = Gap(w)
  PROVE  Good(s, v, k)
<1>1. Len(s) \in Nat
  BY DEF Good
<1>2. ASSUME NEW i \in 1..(Len(s) + 1) PROVE Gap(At(s, v, i)) = Gap(At(s, w, i))
  BY <1>1 DEF At
<1>3. Owed(s, v)
  BY <1>1, <1>2 DEF Good, Owed
<1> QED
  BY <1>3 DEF Good

(* A frame is pushed. *)
LEMMA GoodPush ==
  ASSUME NEW k \in Nat, NEW s, NEW w, Good(s, w, k),
         NEW f \in Frame, Sound(f.before, k), Known(f.todo, k), Gap(f.before) = Gap(w),
         f.kind \in {"scope", "call"} => s # <<>> /\ s[Len(s)].kind \in {"entry", "scope"},
         NEW v, Sound(v, k), Gap(v) = Gap(f.before) + Handed(f)
  PROVE  Good(Append(s, f), v, k)
<1> DEFINE t == Append(s, f)
           n == Len(s)
<1>1. /\ s \in Seq(Frame) /\ n \in Nat
      /\ t \in Seq(Frame) /\ Len(t) = n + 1
      /\ t[n + 1] = f
      /\ \A i \in 1..n : t[i] = s[i]
  BY DEF Good
<1>2. s # <<>> => n > 0
  BY <1>1, EmptySeq
<1> HIDE DEF t, n
<1>3. \A i \in 1..Len(t) : Sound(t[i].before, k) /\ Known(t[i].todo, k)
  <2> TAKE i \in 1..Len(t)
  <2>1. CASE i = n + 1
    BY <1>1, <2>1
  <2>2. CASE i \in 1..n
    BY <1>1, <2>2 DEF Good, n
  <2> QED
    BY <1>1, <2>1, <2>2
<1>4. Nested(t)
  <2> SUFFICES ASSUME NEW i \in 1..Len(t), t[i].kind \in {"scope", "call"}
               PROVE  i > 1 /\ t[i - 1].kind \in {"entry", "scope"}
    BY DEF Nested
  <2>1. CASE i = n + 1
    BY <1>1, <1>2, <2>1 DEF n
  <2>2. CASE i \in 1..n
    <3>1. s[i].kind \in {"scope", "call"}
      BY <1>1, <2>2
    <3>2. i > 1 /\ s[i - 1].kind \in {"entry", "scope"}
      BY <2>2, <3>1 DEF Good, Nested, n
    <3> QED
      BY <1>1, <2>2, <3>2
  <2> QED
    BY <1>1, <2>1, <2>2
<1>5. \A i \in 1..(n + 1) : Gap(At(t, v, i)) = Gap(At(s, w, i))
  BY <1>1 DEF At, n
<1>6. Gap(At(t, v, n + 2)) = Gap(v)
  BY <1>1 DEF At
<1>7. Owed(t, v)
  <2>1. Gap(At(t, v, 1)) = 0
    BY <1>1, <1>5 DEF Good, Owed
  <2>2. ASSUME NEW i \in 1..Len(t)
        PROVE  Gap(At(t, v, i + 1)) = Gap(At(t, v, i)) + Handed(t[i])
    <3>1. CASE i = n + 1
      <4>1. Gap(At(s, w, n + 1)) = Gap(w)
        BY <1>1 DEF At, n
      <4> QED
        BY <1>1, <1>5, <1>6, <3>1, <4>1
    <3>2. CASE i \in 1..n
      <4>1. Gap(At(s, w, i + 1)) = Gap(At(s, w, i)) + Handed(s[i])
        BY <3>2 DEF Good, Owed, n
      <4> QED
        BY <1>1, <1>5, <3>2, <4>1
    <3> QED
      BY <1>1, <3>1, <3>2
  <2> QED
    BY <2>1, <2>2 DEF Owed
<1> QED
  BY <1>1, <1>3, <1>4, <1>7 DEF Good, t

(* The frames above the first n return or are rolled back. *)
LEMMA GoodPrefix ==
  ASSUME NEW k \in Nat, NEW s, NEW w, Good(s, w, k), NEW n \in 0..Len(s),
         NEW v, Sound(v, k), Gap(v) = Gap(At(s, w, n + 1))
  PROVE  /\ Good(SubSeq(s, 1, n), v, k)
         /\ Len(SubSeq(s, 1, n)) = n
         /\ \A i \in 1..n : SubSeq(s, 1, n)[i] = s[i]
<1> DEFINE t == SubSeq(s, 1, n)
<1>1. s \in Seq(Frame) /\ Len(s) \in Nat /\ n \in Nat /\ n <= Len(s)
  BY DEF Good
<1>2. \A i \in 1..n : s[i] \in Frame
  BY <1>1, ElementOfSeq
<1>3. t \in Seq(Frame) /\ Len(t) = n /\ \A i \in 1..n : t[i] = s[i]
  BY <1>1, <1>2, SubSeqProperties
<1> HIDE DEF t
<1>4. ASSUME NEW i \in 1..Len(t) PROVE Sound(t[i].before, k) /\ Known(t[i].todo, k)
  <2>1. i \in 1..Len(s) /\ t[i] = s[i]
    BY <1>1, <1>3
  <2> QED
    BY <2>1 DEF Good
<1>5. Nested(t)
  BY <1>1, <1>3 DEF Good, Nested
<1>6. \A i \in 1..(n + 1) : Gap(At(t, v, i)) = Gap(At(s, w, i))
  BY <1>1, <1>3 DEF At
<1>7. Owed(t, v)
  <2>1. Gap(At(t, v, 1)) = 0
    BY <1>1, <1>6 DEF Good, Owed
  <2>2. ASSUME NEW i \in 1..n
        PROVE  Gap(At(t, v, i + 1)) = Gap(At(t, v, i)) + Handed(t[i])
    <3>1. Gap(At(s, w, i + 1)) = Gap(At(s, w, i)) + Handed(s[i])
      BY <1>1, <2>2 DEF Good, Owed
    <3> QED
      BY <1>1, <1>3, <1>6, <3>1
  <2> QED
    BY <1>3, <2>1, <2>2 DEF Owed
<1> QED
  BY <1>3, <1>4, <1>5, <1>7 DEF Good, t

(* A frame that is not a call is given a new action or todo. *)
LEMMA GoodUpdate ==
  ASSUME NEW k \in Nat, NEW s, NEW w, Good(s, w, k), NEW n \in 1..Len(s),
         NEW f \in Frame, f.kind = s[n].kind, f.kind # "call",
         f.before = s[n].before, Known(f.todo, k)
  PROVE  Good([s EXCEPT ![n] = f], w, k)
<1> DEFINE t == [s EXCEPT ![n] = f]
<1>1. s \in Seq(Frame) /\ Len(s) \in Nat
  BY DEF Good
<1>2. t \in Seq(Frame) /\ Len(t) = Len(s) /\ t[n] = f
      /\ \A i \in 1..Len(s) : i # n => t[i] = s[i]
  BY <1>1, ExceptSeq
<1> HIDE DEF t
<1>3. \A i \in 1..Len(t) : /\ t[i].kind = s[i].kind /\ t[i].before = s[i].before
                            /\ Handed(t[i]) = Handed(s[i]) /\ Known(t[i].todo, k)
  BY <1>1, <1>2 DEF Handed, Good
<1>4. \A i \in 1..Len(t) : Sound(t[i].before, k) /\ Known(t[i].todo, k)
  BY <1>2, <1>3 DEF Good
<1>5. Nested(t)
  BY <1>1, <1>2, <1>3 DEF Good, Nested
<1>6. \A i \in 1..(Len(s) + 1) : At(t, w, i) = At(s, w, i)
  BY <1>1, <1>2, <1>3 DEF At
<1>7. Owed(t, w)
  <2>1. Gap(At(t, w, 1)) = 0
    BY <1>1, <1>6 DEF Good, Owed
  <2>2. ASSUME NEW i \in 1..Len(t)
        PROVE  Gap(At(t, w, i + 1)) = Gap(At(t, w, i)) + Handed(t[i])
    <3>1. Gap(At(s, w, i + 1)) = Gap(At(s, w, i)) + Handed(s[i])
      BY <1>2 DEF Good, Owed
    <3> QED
      BY <1>1, <1>2, <1>3, <1>6, <3>1
  <2> QED
    BY <2>1, <2>2 DEF Owed
<1> QED
  BY <1>2, <1>4, <1>5, <1>7 DEF Good, t

-----------------------------------------------------------------------------
(* What _findAndApplyExecution leaves is sound, and so is a batch's delta. *)

LEMMA ApplySound ==
  ASSUME NEW k \in Nat, NEW w, Fresh(w, k), NEW e \in ExecutionEntry,
         \A r \in DOMAIN e.stateDeltas : r < k, DeltasApply(w, e.stateDeltas)
  PROVE  Sound(ApplyStateDeltas(w, e.stateDeltas), k)
<1> DEFINE x == ApplyStateDeltas(w, e.stateDeltas)
<1>1. w \in World /\ x \in World
  BY ApplyType DEF Fresh
<1>2. /\ x.rollupCounter = w.rollupCounter
      /\ x.executions = w.executions
      /\ x.etherDelta = 0
      /\ x.rollups = [r \in RollupIds |->
            IF r \in DOMAIN e.stateDeltas
            THEN [w.rollups[r] EXCEPT !.stateRoot = e.stateDeltas[r].newState,
                                      !.etherBalance = @ + e.stateDeltas[r].etherDelta]
            ELSE w.rollups[r]]
  BY <1>1 DEF ApplyStateDeltas, World
<1> HIDE DEF x
<1>3. ASSUME NEW r \in RollupIds, r >= w.rollupCounter
      PROVE  x.rollups[r].etherBalance = 0
  <2>1. r \in Nat /\ w.rollupCounter \in Nat /\ k <= w.rollupCounter
    BY <1>1, ActionConstants DEF World, Fresh
  <2>2. ~(r < k)
    BY <1>3, <2>1
  <2>3. x.rollups[r] = w.rollups[r]
    BY <1>2, <2>2
  <2> QED
    BY <1>3, <2>3 DEF Fresh
<1> QED
  BY <1>1, <1>2, <1>3 DEF Sound, Fresh, x

LEMMA ExecuteSound ==
  ASSUME NEW k \in Nat, NEW w, Fresh(w, k), NEW a, Executable(w, a)
  PROVE  Sound(Execute(w, a), k)
<1> DEFINE i == FirstMatch(w, a)
           e == w.executions[i]
           x == ApplyStateDeltas(w, e.stateDeltas)
           y == Execute(w, a)
<1>1. w \in World /\ i \in 1..Len(w.executions) /\ e \in ExecutionEntry
  BY ExecuteType, FirstMatchInTable DEF Fresh, Executable
<1>2. \A r \in DOMAIN e.stateDeltas : r < k
  BY <1>1 DEF Fresh, Known
<1>3. DeltasApply(w, e.stateDeltas)
  BY DEF Executable
<1>4. Sound(x, k) /\ x \in World
  BY <1>1, <1>2, <1>3, ApplySound DEF Sound, Fresh
<1>5. x.executions = w.executions
  BY <1>1 DEF ApplyStateDeltas, World
<1>6. /\ y \in World
      /\ y.rollupCounter = x.rollupCounter /\ y.rollups = x.rollups
      /\ y.etherDelta = x.etherDelta
      /\ y.executions = SwapAndPop(w.executions, i)
  BY <1>1, <1>4, ExecuteType DEF Execute, World
<1>7. Known(SwapAndPop(w.executions, i), k)
  <2> DEFINE n == Len(w.executions)
             s == SwapAndPop(w.executions, i)
  <2>1. n \in Nat
    BY <1>1 DEF World
  <2>2. s = [j \in 1..(n - 1) |-> IF j = i THEN w.executions[n] ELSE w.executions[j]]
    BY DEF SwapAndPop
  <2>3. s \in Seq(ExecutionEntry)
    BY <1>1, SwapAndPopType DEF World
  <2>4. Len(s) = n - 1
    <3>1. DOMAIN s = 1..Len(s) /\ Len(s) \in Nat
      BY <2>3, LenProperties
    <3>2. DOMAIN s = 1..(n - 1) /\ n - 1 \in Nat
      BY <1>1, <2>1, <2>2
    <3> HIDE DEF s, n
    <3> QED
      BY <3>1, <3>2
  <2> HIDE DEF s, i, e, x, y
  <2>5. ASSUME NEW j \in 1..Len(s), NEW r \in DOMAIN s[j].stateDeltas PROVE r < k
    <3>1. PICK m \in 1..n : s[j] = w.executions[m]
      <4>1. j \in 1..(n - 1) /\ n \in 1..n /\ j \in 1..n
        BY <2>1, <2>4
      <4>2. s[j] = IF j = i THEN w.executions[n] ELSE w.executions[j]
        BY <2>2, <4>1
      <4> HIDE DEF n
      <4> QED
        BY <4>1, <4>2
    <3> QED
      BY <2>5, <3>1 DEF Fresh, Known
  <2> QED
    BY <2>5 DEF Known, s
<1> HIDE DEF x, y, e, i
<1> QED
  BY <1>4, <1>6, <1>7 DEF Sound, Fresh, y

-----------------------------------------------------------------------------
(* Steps the actions share. *)

LEMMA TopFrame ==
  ASSUME NEW k \in Nat, Good(stack, evm, k), stack # <<>>
  PROVE  /\ Len(stack) \in Nat /\ Len(stack) > 0
         /\ Top \in Frame
         /\ Sound(Top.before, k) /\ Known(Top.todo, k)
         /\ Gap(evm) = Gap(Top.before) + Handed(Top)
         /\ Gap(At(stack, evm, Len(stack))) = Gap(Top.before)
         /\ Top.kind \in {"scope", "call"} =>
               Len(stack) > 1 /\ stack[Len(stack) - 1].kind \in {"entry", "scope"}
         /\ stack[1].kind \in {"entry", "batch"}
<1>1. stack \in Seq(Frame) /\ Len(stack) \in Nat /\ Len(stack) > 0
  BY EmptySeq DEF Good
<1>2. Top \in Frame /\ stack[1] \in Frame
  BY <1>1, ElementOfSeq DEF Top
<1>3. Gap(At(stack, evm, Len(stack) + 1)) = Gap(At(stack, evm, Len(stack))) + Handed(Top)
  BY <1>1 DEF Good, Owed, Top
<1>4. At(stack, evm, Len(stack) + 1) = evm /\ At(stack, evm, Len(stack)) = Top.before
  BY <1>1 DEF At, Top
<1>5. Sound(Top.before, k) /\ Known(Top.todo, k)
  BY <1>1 DEF Good, Top
<1>6. Top.kind \in {"scope", "call"} =>
         Len(stack) > 1 /\ stack[Len(stack) - 1].kind \in {"entry", "scope"}
  BY <1>1 DEF Good, Nested, Top
<1>7. stack[1].kind \in {"entry", "batch"}
  <2>1. stack[1].kind \notin {"scope", "call"}
    BY <1>1 DEF Good, Nested
  <2> QED
    BY <1>2, <2>1 DEF Frame, FrameKind
<1> QED
  BY <1>1, <1>2, <1>3, <1>4, <1>5, <1>6, <1>7

LEMMA ThisEntryInStack ==
  ASSUME NEW k \in Nat, Good(stack, evm, k), stack # <<>>
  PROVE  ThisEntry \in 1..Len(stack)
<1> DEFINE E == {i \in 1..Len(stack) : EntryPoint(i)}
<1>1. Len(stack) \in Nat /\ Len(stack) > 0 /\ stack[1].kind \in {"entry", "batch"}
  BY TopFrame
<1>2. E # {} /\ E \in SUBSET (0..Len(stack))
  BY <1>1 DEF EntryPoint
<1>3. PICK m \in E : \A j \in E : j <= m
  BY <1>1, <1>2, NatSetGreatest
<1>4. \E i \in 1..Len(stack) : EntryPoint(i) /\ \A j \in (i + 1)..Len(stack) : ~EntryPoint(j)
  BY <1>1, <1>3
<1> QED
  BY <1>4 DEF ThisEntry

LEMMA AbortGood ==
  ASSUME NEW k \in Nat, Good(stack, evm, k), stack # <<>>, Abort
  PROVE  Good(stack', evm', k)
<1> DEFINE o == ThisEntry
<1> HIDE DEF o
<1>1. o \in 1..Len(stack) /\ o - 1 \in 0..Len(stack) /\ (o - 1) + 1 = o
  BY TopFrame, ThisEntryInStack DEF o
<1>2. At(stack, evm, o) = stack[o].before /\ Sound(stack[o].before, k)
  BY <1>1 DEF At, Good
<1>3. Good(SubSeq(stack, 1, o - 1), stack[o].before, k)
  BY <1>1, <1>2, GoodPrefix
<1> QED
  BY <1>3 DEF Abort, o

(* The innermost frame, a scope or a call, leaves state v and answers a. *)
LEMMA ReturnGood ==
  ASSUME NEW k \in Nat, Good(stack, evm, k), stack # <<>>, Top.kind \in {"scope", "call"},
         NEW a \in Action, NEW v, Sound(v, k), Gap(v) = Gap(Top.before)
  PROVE  Good(ReturnToParent(a), v, k)
<1> DEFINE n == Len(stack) - 1
           f == [stack[n] EXCEPT !.action = a]
<1>1. /\ Len(stack) \in Nat /\ n \in 1..Len(stack) /\ n \in 0..Len(stack)
      /\ n + 1 = Len(stack) /\ stack[n].kind \in {"entry", "scope"}
      /\ Gap(At(stack, evm, n + 1)) = Gap(v)
  BY TopFrame
<1>2. stack[n] \in Frame /\ Known(stack[n].todo, k)
  BY <1>1, ElementOfSeq DEF Good
<1> HIDE DEF n
<1>3. /\ Good(Pop, v, k)
      /\ Len(Pop) = n
      /\ Pop[n] = stack[n]
  BY <1>1, GoodPrefix DEF Pop, n
<1>4. f \in Frame /\ f.kind = stack[n].kind /\ f.before = stack[n].before
      /\ f.todo = stack[n].todo
  BY <1>2 DEF Frame
<1>5. ReturnToParent(a) = [Pop EXCEPT ![n] = f]
  BY <1>3 DEF ReturnToParent, n
<1>6. n \in 1..Len(Pop)
  BY <1>1, <1>3
<1> HIDE DEF f
<1>7. Good([Pop EXCEPT ![n] = f], v, k)
  BY <1>1, <1>2, <1>3, <1>4, <1>6, GoodUpdate
<1> QED
  BY <1>5, <1>7

LEMMA AnswerGood ==
  ASSUME NEW k \in Nat, Good(stack, evm, k), stack # <<>>, Top.kind \in {"scope", "call"},
         NEW w, Fresh(w, k), Gap(w) + w.etherDelta = Gap(Top.before),
         NEW a, Answer(w, a)
  PROVE  Good(stack', evm', k)
<1>1. CASE /\ Executable(w, a) /\ evm' = Execute(w, a)
           /\ stack' = ReturnToParent(NextAction(w, a))
  <2>1. w \in World
    BY DEF Fresh
  <2>2. Sound(Execute(w, a), k) /\ Gap(Execute(w, a)) = Gap(Top.before)
    BY <1>1, <2>1, ExecuteSound, ExecuteGap
  <2>3. NextAction(w, a) \in Action
    BY <1>1, <2>1, ExecuteType
  <2> QED
    BY <1>1, <2>2, <2>3, ReturnGood
<1>2. CASE Abort
  BY <1>2, AbortGood
<1> QED
  BY <1>1, <1>2 DEF Answer

-----------------------------------------------------------------------------
(* Functions that finish without calling out. *)

LEMMA CreateRollupGood ==
  ASSUME NEW k \in Nat, Good(stack, evm, k),
         NEW owner \in Callers, NEW key \in VKs \ {ZeroVK}, NEW root \in InitialRoots,
         CreateRollup(owner, key, root)
  PROVE  Good(stack', evm', k)
<1> DEFINE n == evm.rollupCounter
           config == [owner |-> owner, verificationKey |-> key, stateRoot |-> root,
                      etherBalance |-> 0]
           rs == [evm.rollups EXCEPT ![n] = config]
<1>1. evm \in World /\ Fresh(evm, k) /\ evm.etherDelta = 0 /\ n \in RollupIds /\ n \in Nat
  BY ActionConstants DEF Good, Sound, Fresh, CreateRollup
<1>2. config \in RollupConfig
  BY RollupsConstants DEF RollupConfig
<1>3. rs \in RollupConfigs
  BY <1>1, <1>2 DEF World, RollupConfigs
<1>4. evm' = [evm EXCEPT !.rollupCounter = n + 1, !.rollups = rs]
  BY DEF CreateRollup
<1>5. [evm EXCEPT !.rollups = rs] \in World
  BY <1>1, <1>3, WorldRollups
<1>6. /\ evm' \in World /\ evm'.rollupCounter = n + 1 /\ evm'.rollups = rs
      /\ evm'.etherDelta = 0 /\ evm'.executions = evm.executions /\ evm'.held = evm.held
  <2>1. evm' = [[evm EXCEPT !.rollups = rs] EXCEPT !.rollupCounter = n + 1]
    BY <1>1, <1>4 DEF World
  <2>2. n + 1 \in Nat
    BY <1>1
  <2> HIDE DEF rs, n, config
  <2>3. evm' \in World
    BY <1>5, <2>1, <2>2 DEF World
  <2> QED
    BY <1>1, <1>4, <2>3 DEF World
<1>7. ASSUME NEW r \in RollupIds
      PROVE  rs[r].etherBalance = evm.rollups[r].etherBalance
  <2>1. evm.rollups[n].etherBalance = 0
    BY <1>1 DEF Fresh
  <2> QED
    BY <1>1, <2>1 DEF World, RollupConfigs
<1> HIDE DEF rs, n, config
<1>8. Gap(evm') = Gap(evm)
  BY <1>1, <1>6, <1>7, SameGap
<1>9. Sound(evm', k)
  <2>1. k <= n + 1
    BY <1>1 DEF Fresh, n
  <2>2. \A r \in RollupIds : r >= n + 1 => rs[r].etherBalance = 0
    <3> TAKE r \in RollupIds
    <3> HAVE r >= n + 1
    <3>1. r >= evm.rollupCounter
      BY <1>1, ActionConstants DEF n
    <3> QED
      BY <1>1, <1>7, <3>1 DEF Fresh
  <2> QED
    BY <1>1, <1>6, <2>1, <2>2 DEF Sound, Fresh
<1>10. stack' = stack
  BY DEF CreateRollup
<1> QED
  BY <1>8, <1>9, <1>10, GoodStep

(* A state that differs in roots, keys, owners, proxies or the block of    *)
(* the last batch is as good as the one before.                            *)
LEMMA Harmless ==
  ASSUME NEW k \in Nat, NEW w, Sound(w, k), NEW v \in World,
         v.rollupCounter = w.rollupCounter, v.executions = w.executions,
         v.held = w.held, v.etherDelta = w.etherDelta,
         \A r \in RollupIds : v.rollups[r].etherBalance = w.rollups[r].etherBalance
  PROVE  Sound(v, k) /\ Gap(v) = Gap(w)
<1>1. w \in World
  BY DEF Sound, Fresh
<1>2. Gap(v) = Gap(w)
  BY <1>1, SameGap
<1> QED
  BY <1>2 DEF Sound, Fresh

LEMMA ConfigSound ==
  ASSUME NEW k \in Nat, NEW w, Sound(w, k), NEW rs \in RollupConfigs,
         \A r \in RollupIds : rs[r].etherBalance = w.rollups[r].etherBalance
  PROVE  /\ Sound([w EXCEPT !.rollups = rs], k)
         /\ Gap([w EXCEPT !.rollups = rs]) = Gap(w)
<1> DEFINE v == [w EXCEPT !.rollups = rs]
<1>1. w \in World /\ v \in World
  BY WorldRollups DEF Sound, Fresh
<1>2. /\ v.rollupCounter = w.rollupCounter /\ v.executions = w.executions
      /\ v.held = w.held /\ v.etherDelta = w.etherDelta /\ v.rollups = rs
  BY <1>1 DEF World
<1> HIDE DEF v
<1>3. Sound(v, k) /\ Gap(v) = Gap(w)
  BY <1>1, <1>2, Harmless
<1> QED
  BY <1>3 DEF v

LEMMA ProxySound ==
  ASSUME NEW k \in Nat, NEW w, Sound(w, k), NEW p \in Proxy
  PROVE  /\ Sound([w EXCEPT !.authorizedProxies = @ \cup {p}], k)
         /\ Gap([w EXCEPT !.authorizedProxies = @ \cup {p}]) = Gap(w)
<1> DEFINE ps == w.authorizedProxies \cup {p}
           v == [w EXCEPT !.authorizedProxies = ps]
<1>1. w \in World
  BY DEF Sound, Fresh
<1>2. ps \in SUBSET Proxy
  BY <1>1 DEF World
<1> HIDE DEF ps
<1>3. v \in World
  BY <1>1, <1>2 DEF World
<1>4. /\ v.rollupCounter = w.rollupCounter /\ v.executions = w.executions
      /\ v.held = w.held /\ v.etherDelta = w.etherDelta /\ v.rollups = w.rollups
  BY <1>1 DEF World
<1> HIDE DEF v
<1>5. Sound(v, k) /\ Gap(v) = Gap(w)
  BY <1>3, <1>4, Harmless
<1> QED
  BY <1>5 DEF v, ps

(* What the owner of a rollup, and anybody, may change at any time. *)
LEMMA ManageGood ==
  ASSUME NEW k \in Nat, Good(stack, evm, k), Manage
  PROVE  Good(stack', evm', k)
<1>1. evm \in World /\ Sound(evm, k) /\ evm.rollups \in RollupConfigs
  BY DEF Good, Sound, Fresh, World
<1>2. ASSUME NEW rs \in RollupConfigs, evm' = [evm EXCEPT !.rollups = rs], stack' = stack,
             \A r \in RollupIds : rs[r].etherBalance = evm.rollups[r].etherBalance
      PROVE  Good(stack', evm', k)
  <2>1. Sound(evm', k) /\ Gap(evm') = Gap(evm)
    BY <1>1, <1>2, ConfigSound
  <2> QED
    BY <1>2, <2>1, GoodStep
<1>3. ASSUME NEW p \in UserProxies, CreateCrossChainProxy(p)
      PROVE  Good(stack', evm', k)
  <2>1. p \in Proxy
    BY RollupsConstants
  <2>2. Sound(evm', k) /\ Gap(evm') = Gap(evm) /\ stack' = stack
    BY <1>1, <1>3, <2>1, ProxySound DEF CreateCrossChainProxy
  <2> QED
    BY <2>2, GoodStep
<1>4. ASSUME NEW sender \in Callers, NEW r \in RollupIds, NEW root \in OwnerRoots,
             SetStateByOwner(sender, r, root)
      PROVE  Good(stack', evm', k)
  <2> DEFINE rs == [evm.rollups EXCEPT ![r].stateRoot = root]
  <2>1. evm' = [evm EXCEPT !.rollups = rs] /\ stack' = stack
    BY <1>4 DEF SetStateByOwner
  <2>2. root \in Roots
    BY RollupsConstants
  <2>3. rs \in RollupConfigs /\ \A q \in RollupIds : rs[q].etherBalance = evm.rollups[q].etherBalance
    BY <1>1, <2>2 DEF RollupConfigs, RollupConfig
  <2> HIDE DEF rs
  <2> QED
    BY <1>2, <2>1, <2>3
<1>5. ASSUME NEW sender \in Callers, NEW r \in RollupIds, NEW key \in VKs,
             SetVerificationKey(sender, r, key)
      PROVE  Good(stack', evm', k)
  <2> DEFINE rs == [evm.rollups EXCEPT ![r].verificationKey = key]
  <2>1. evm' = [evm EXCEPT !.rollups = rs] /\ stack' = stack
    BY <1>5 DEF SetVerificationKey
  <2>2. rs \in RollupConfigs /\ \A q \in RollupIds : rs[q].etherBalance = evm.rollups[q].etherBalance
    BY <1>1 DEF RollupConfigs, RollupConfig
  <2> HIDE DEF rs
  <2> QED
    BY <1>2, <2>1, <2>2
<1>6. ASSUME NEW sender \in Callers, NEW r \in RollupIds, NEW newOwner \in Callers,
             TransferRollupOwnership(sender, r, newOwner)
      PROVE  Good(stack', evm', k)
  <2> DEFINE rs == [evm.rollups EXCEPT ![r].owner = newOwner]
  <2>1. evm' = [evm EXCEPT !.rollups = rs] /\ stack' = stack
    BY <1>6 DEF TransferRollupOwnership
  <2>2. newOwner \in Addresses
    BY RollupsConstants
  <2>3. rs \in RollupConfigs /\ \A q \in RollupIds : rs[q].etherBalance = evm.rollups[q].etherBalance
    BY <1>1, <2>2 DEF RollupConfigs, RollupConfig
  <2> HIDE DEF rs
  <2> QED
    BY <1>2, <2>1, <2>3
<1> QED
  BY <1>3, <1>4, <1>5, <1>6, CreateRollupGood DEF Manage

-----------------------------------------------------------------------------
(* postBatch. *)

LEMMA TableSound ==
  ASSUME NEW k \in Nat, NEW w, Sound(w, k), NEW v \in World,
         v.rollupCounter = w.rollupCounter, v.held = w.held,
         v.etherDelta = w.etherDelta, v.rollups = w.rollups, Known(v.executions, k)
  PROVE  Sound(v, k) /\ Gap(v) = Gap(w)
<1>1. w \in World
  BY DEF Sound, Fresh
<1>2. Gap(v) = Gap(w)
  BY <1>1, SameGap
<1> QED
  BY <1>2 DEF Sound, Fresh

LEMMA PostBatchGood ==
  ASSUME NEW k \in Nat, Good(stack, evm, k), proof \in ProofType, Known(proof.entries, k),
         PostBatch
  PROVE  Good(stack', evm', k)
<1> DEFINE f == BatchFrame(proof.entries)
<1>1. evm \in World /\ Sound(evm, k)
  BY DEF Good, Sound, Fresh
<1>2. evm' = [evm EXCEPT !.executions = <<>>, !.loaded = <<>>, !.consumed = <<>>]
  BY DEF PostBatch
<1>3. evm' \in World /\ Known(evm'.executions, k)
      /\ evm'.rollupCounter = evm.rollupCounter /\ evm'.held = evm.held
      /\ evm'.etherDelta = evm.etherDelta /\ evm'.rollups = evm.rollups
  <2>1. << >> \in Seq(ExecutionEntry) /\ Len(<< >>) = 0
    BY EmptySeq
  <2>2. evm' \in World
    BY <1>1, <1>2, <2>1 DEF World
  <2>3. /\ evm'.executions = << >>
        /\ evm'.rollupCounter = evm.rollupCounter /\ evm'.held = evm.held
        /\ evm'.etherDelta = evm.etherDelta /\ evm'.rollups = evm.rollups
    BY <1>1, <1>2 DEF World
  <2> QED
    BY <2>1, <2>2, <2>3 DEF Known
<1>4. Sound(evm', k) /\ Gap(evm') = Gap(evm) /\ Gap(evm) \in Int
  BY <1>1, <1>3, TableSound, BalancesType
<1>5. f \in Frame /\ f.kind = "batch" /\ f.before = evm /\ f.todo = proof.entries
  BY <1>1, ActionTypes, EmptySeq DEF BatchFrame, Frame, FrameKind, Scope, ProofType
<1>6. stack' = Append(stack, f)
  BY DEF PostBatch, Push
<1> HIDE DEF f
<1>7. Handed(f) = 0
  BY <1>5 DEF Handed
<1> QED
  BY <1>1, <1>4, <1>5, <1>6, <1>7, GoodPush

(* The batch frame moves on to the entries after the first. *)
LEMMA NextTodoGood ==
  ASSUME NEW k \in Nat, Good(stack, evm, k), Running("batch"), Remaining # <<>>
  PROVE  /\ Head(Remaining) \in ExecutionEntry
         /\ \A r \in DOMAIN Head(Remaining).stateDeltas : r < k
         /\ Good(NextTodo, evm, k)
<1> DEFINE todo == Top.todo
           f == [Top EXCEPT !.todo = Tail(todo)]
           n == Len(stack)
<1>1. /\ n \in Nat /\ n > 0 /\ Top \in Frame /\ Top.kind = "batch"
      /\ Known(todo, k) /\ Top = stack[n]
  BY TopFrame DEF Running, Top
<1>2. todo \in Seq(ExecutionEntry) /\ todo # <<>>
  BY <1>1 DEF Frame, Remaining
<1>3. Head(todo) \in ExecutionEntry /\ Tail(todo) \in Seq(ExecutionEntry)
      /\ Head(todo) = todo[1] /\ Len(todo) \in Nat /\ Len(todo) > 0
      /\ Len(Tail(todo)) = Len(todo) - 1
      /\ \A i \in 1..Len(Tail(todo)) : Tail(todo)[i] = todo[i + 1]
  BY <1>2, HeadTailProperties, EmptySeq
<1>4. \A r \in DOMAIN Head(todo).stateDeltas : r < k
  BY <1>1, <1>3 DEF Known
<1>5. Known(Tail(todo), k)
  BY <1>1, <1>3 DEF Known
<1>6. f \in Frame /\ f.kind = "batch" /\ f.before = stack[n].before /\ f.todo = Tail(todo)
  BY <1>1, <1>3 DEF Frame
<1>7. NextTodo = [stack EXCEPT ![n] = f]
  BY <1>1 DEF NextTodo
<1>8. n \in 1..Len(stack) /\ f.kind = stack[n].kind /\ f.kind # "call"
  BY <1>1, <1>6
<1> HIDE DEF f, n
<1>9. Good([stack EXCEPT ![n] = f], evm, k)
  BY <1>5, <1>6, <1>8, GoodUpdate
<1> QED
  BY <1>3, <1>4, <1>7, <1>9 DEF Remaining

LEMMA BatchGood ==
  ASSUME NEW k \in Nat, Good(stack, evm, k), proof \in ProofType, Known(proof.entries, k),
         blockNumber \in Nat, Batch
  PROVE  Good(stack', evm', k)
<1>1. evm \in World /\ Sound(evm, k) /\ Gap(evm) \in Int /\ evm.etherDelta = 0 /\ Fresh(evm, k)
  BY BalancesType DEF Good, Sound, Fresh
<1>2. CASE ProcessImmediate
  <2> DEFINE e == Head(Remaining)
  <2>1. e \in ExecutionEntry /\ (\A r \in DOMAIN e.stateDeltas : r < k) /\ Good(NextTodo, evm, k)
    BY <1>2, NextTodoGood DEF ProcessImmediate
  <2>2. DeltasApply(evm, e.stateDeltas) /\ evm' = ApplyStateDeltas(evm, e.stateDeltas)
        /\ stack' = NextTodo
    BY <1>2 DEF ProcessImmediate, ImmediateApplies
  <2> HIDE DEF e
  <2>3. Sound(evm', k) /\ Gap(evm') = Gap(evm)
    BY <1>1, <2>1, <2>2, ApplySound, ApplyGap
  <2> QED
    BY <2>1, <2>2, <2>3, GoodStep
<1>3. CASE ProcessDeferred
  <2> DEFINE e == Head(Remaining)
  <2>1. e \in ExecutionEntry /\ (\A r \in DOMAIN e.stateDeltas : r < k) /\ Good(NextTodo, evm, k)
    BY <1>3, NextTodoGood DEF ProcessDeferred
  <2>2. /\ evm' = [evm EXCEPT !.executions = Append(@, e), !.loaded = Append(@, e)]
        /\ stack' = NextTodo
    BY <1>3 DEF ProcessDeferred
  <2> HIDE DEF e
  <2> DEFINE es == Append(evm.executions, e)
             ls == Append(evm.loaded, e)
  <2>3. /\ es \in Seq(ExecutionEntry) /\ ls \in Seq(ExecutionEntry)
        /\ Len(es) = Len(evm.executions) + 1 /\ Len(evm.executions) \in Nat
        /\ es[Len(evm.executions) + 1] = e
        /\ \A i \in 1..Len(evm.executions) : es[i] = evm.executions[i]
    BY <1>1, <2>1 DEF World
  <2>4. evm' = [evm EXCEPT !.executions = es, !.loaded = ls]
    BY <2>2
  <2> HIDE DEF es, ls
  <2>5. Known(es, k)
    <3>1. ASSUME NEW i \in 1..Len(es), NEW r \in DOMAIN es[i].stateDeltas PROVE r < k
      <4>1. CASE i = Len(evm.executions) + 1
        BY <2>1, <2>3, <3>1, <4>1
      <4>2. CASE i \in 1..Len(evm.executions)
        BY <1>1, <2>3, <3>1, <4>2 DEF Fresh, Known
      <4> QED
        BY <2>3, <4>1, <4>2
    <3> QED
      BY <3>1 DEF Known
  <2>6. evm' \in World
    BY <1>1, <2>3, <2>4 DEF World
  <2>7. evm'.executions = es /\ evm'.rollupCounter = evm.rollupCounter /\ evm'.held = evm.held
        /\ evm'.etherDelta = evm.etherDelta /\ evm'.rollups = evm.rollups
    BY <1>1, <2>4 DEF World
  <2>8. Sound(evm', k) /\ Gap(evm') = Gap(evm)
    BY <1>1, <2>5, <2>6, <2>7, TableSound
  <2> QED
    BY <2>1, <2>2, <2>8, GoodStep
<1>4. CASE FinishBatch
  <2>1. stack # <<>> /\ Top.kind = "batch"
    BY <1>4 DEF FinishBatch, Running
  <2>2. evm' \in World /\ evm'.executions = evm.executions
        /\ evm'.rollupCounter = evm.rollupCounter /\ evm'.held = evm.held
        /\ evm'.etherDelta = evm.etherDelta /\ evm'.rollups = evm.rollups
    BY <1>1, <1>4 DEF World, FinishBatch
  <2>3. Sound(evm', k) /\ Gap(evm') = Gap(evm)
    BY <1>1, <2>2, Harmless
  <2>4. /\ Len(stack) \in Nat /\ Len(stack) > 0
        /\ Gap(evm) = Gap(At(stack, evm, Len(stack)))
    BY <1>1, <2>1, TopFrame, BalancesType DEF Handed, Sound, Fresh
  <2>5. Len(stack) - 1 \in 0..Len(stack) /\ (Len(stack) - 1) + 1 = Len(stack)
    BY <2>4
  <2>6. Good(Pop, evm', k)
    BY <2>3, <2>4, <2>5, GoodPrefix DEF Pop
  <2> QED
    BY <1>4, <2>6 DEF FinishBatch
<1>5. CASE BatchReverts
  BY <1>5, AbortGood DEF BatchReverts, Running
<1> QED
  BY <1>2, <1>3, <1>4, <1>5, PostBatchGood DEF Batch

-----------------------------------------------------------------------------
(* executeCrossChainCall and executeL2TX. *)

(* Ether flows in or out. *)
LEMMA FlowType ==
  ASSUME NEW w \in World, NEW h \in Nat, NEW d \in Int
  PROVE  [w EXCEPT !.held = h, !.etherDelta = d] \in World
<1> DEFINE u == [w EXCEPT !.held = h]
<1>1. u \in World
  BY DEF World
<1>2. [w EXCEPT !.held = h, !.etherDelta = d] = [u EXCEPT !.etherDelta = d]
  BY DEF World
<1> HIDE DEF u
<1> QED
  BY <1>1, <1>2, WorldEtherDelta

LEMMA FlowGap ==
  ASSUME NEW k \in Nat, NEW w, Sound(w, k), NEW v \in World, v.rollups = w.rollups,
         v.rollupCounter = w.rollupCounter, v.executions = w.executions
  PROVE  Fresh(v, k) /\ Gap(v) = Gap(w) + w.held - v.held
<1>1. w \in World /\ w.held \in Nat /\ v.held \in Nat
  BY DEF Sound, Fresh, World
<1>2. Fresh(v, k)
  BY DEF Sound, Fresh
<1>3. Balances(v) = Balances(w)
  BY DEF Balances
<1>4. Total(Balances(w)) \in Int
  BY <1>1, BalancesType, TotalType
<1>5. Gap(v) = Gap(w) + w.held - v.held
  BY <1>1, <1>3, <1>4 DEF Gap
<1> QED
  BY <1>2, <1>5

LEMMA EnterGood ==
  ASSUME NEW k \in Nat, Good(stack, evm, k),
         NEW w, Fresh(w, k), Gap(w) + w.etherDelta = Gap(evm), NEW a, Enter(w, a)
  PROVE  Good(stack', evm', k)
<1> DEFINE b == NextAction(w, a)
           v == Execute(w, a)
           f == EntryFrame(b)
           g == ScopeFrame(<<>>, b, v)
           t == Append(stack, f)
<1>1. w \in World /\ Executable(w, a) /\ evm' = v /\ stack' = t \o RootScope(b, v)
  BY DEF Enter, Fresh, Push
<1>2. b \in Action /\ v \in World /\ Sound(v, k) /\ Gap(v) = Gap(evm) /\ Gap(v) \in Int
  BY <1>1, ExecuteType, ExecuteSound, ExecuteGap, BalancesType
<1>3. evm \in World /\ Sound(evm, k)
  BY DEF Good, Sound, Fresh
<1> HIDE DEF b, v
<1>4. << >> \in Seq(ExecutionEntry) /\ << >> \in Scope /\ Known(<< >>, k)
  BY EmptySeq DEF Scope, Known
<1>5. f \in Frame /\ f.kind = "entry" /\ f.before = evm /\ f.todo = << >>
  BY <1>2, <1>3, <1>4 DEF EntryFrame, Frame, FrameKind
<1>6. g \in Frame /\ g.kind = "scope" /\ g.before = v /\ g.todo = << >>
  BY <1>2, <1>4 DEF ScopeFrame, Frame, FrameKind
<1> HIDE DEF f, g
<1>7. Handed(f) = 0 /\ Handed(g) = 0
  BY <1>5, <1>6 DEF Handed
<1>8. Gap(v) = Gap(f.before) + Handed(f) /\ Gap(v) = Gap(g.before) + Handed(g)
  BY <1>2, <1>5, <1>6, <1>7
<1>9. Good(t, v, k)
  BY <1>2, <1>3, <1>4, <1>5, <1>8, GoodPush
<1>10. /\ t \in Seq(Frame) /\ t # << >> /\ t[Len(t)] = f
  BY <1>5 DEF Good
<1> HIDE DEF t
<1>11. Good(Append(t, g), v, k)
  BY <1>2, <1>4, <1>5, <1>6, <1>8, <1>9, <1>10, GoodPush
<1>12. stack' = t \/ stack' = Append(t, g)
  <2>1. CASE b.actionType = "CALL"
    BY <1>1, <1>6, <1>10, <2>1, AppendIsConcat DEF RootScope, g
  <2>2. CASE b.actionType # "CALL"
    BY <1>1, <1>10, <2>2, ConcatEmptySeq DEF RootScope
  <2> QED
    BY <2>1, <2>2
<1> QED
  BY <1>1, <1>9, <1>11, <1>12

LEMMA BeginGood ==
  ASSUME NEW k \in Nat, Good(stack, evm, k), Begin
  PROVE  Good(stack', evm', k)
<1>1. /\ Sound(evm, k) /\ evm \in World /\ evm.held \in Nat /\ evm.etherDelta = 0
      /\ Gap(evm) \in Int
  BY BalancesType DEF Good, Sound, Fresh, World
<1>2. ASSUME NEW p, NEW sender, NEW v \in CallValues, NEW data,
             ExecuteCrossChainCall(p, sender, v, data)
      PROVE  Good(stack', evm', k)
  <2> DEFINE h == evm.held + v
             d == evm.etherDelta + v
             w == [evm EXCEPT !.held = h, !.etherDelta = d]
             a == CallAction(p[2], p[1], v, data, sender, MAINNET_ROLLUP_ID, <<>>)
  <2>1. v \in Nat
    BY RollupsConstants
  <2>2. h \in Nat /\ d \in Int /\ h = evm.held + v /\ d = v
    BY <1>1, <2>1
  <2>3. Enter(w, a)
    BY <1>2 DEF ExecuteCrossChainCall
  <2> HIDE DEF h, d
  <2>6. w \in World
    BY <1>1, <2>2, FlowType
  <2>7. /\ w.rollups = evm.rollups /\ w.rollupCounter = evm.rollupCounter
        /\ w.executions = evm.executions /\ w.held = h /\ w.etherDelta = d
    BY <1>1 DEF World
  <2> HIDE DEF w, a
  <2>4. Fresh(w, k) /\ Gap(w) = Gap(evm) + evm.held - h
    BY <1>1, <2>6, <2>7, FlowGap
  <2>5. Gap(w) + w.etherDelta = Gap(evm)
    BY <1>1, <2>1, <2>2, <2>4, <2>7
  <2> QED
    BY <2>3, <2>4, <2>5, EnterGood
<1>3. ASSUME NEW r, NEW tx, ExecuteL2TX(r, tx)
      PROVE  Good(stack', evm', k)
  <2>1. Enter(evm, L2TxAction(r, tx))
    BY <1>3 DEF ExecuteL2TX
  <2>2. Fresh(evm, k) /\ Gap(evm) + evm.etherDelta = Gap(evm)
    BY <1>1 DEF Sound
  <2> QED
    BY <2>1, <2>2, EnterGood
<1> QED
  BY <1>2, <1>3 DEF Begin

-----------------------------------------------------------------------------
(* The navigation. *)

LEMMA SourceProxySound ==
  ASSUME NEW k \in Nat, Good(stack, evm, k), NEW a \in Action
  PROVE  Sound(WithSourceProxy(a), k) /\ Gap(WithSourceProxy(a)) = Gap(evm)
<1>1. SourceProxy(a) \in Proxy
  BY DEF SourceProxy, Action, Proxy
<1>2. Sound(evm, k)
  BY DEF Good
<1> QED
  BY <1>1, <1>2, ProxySound DEF WithSourceProxy

LEMMA MakeCallGood ==
  ASSUME NEW k \in Nat, Good(stack, evm, k), MakeCall
  PROVE  Good(stack', evm', k)
<1> DEFINE a == Top.action
           w == WithSourceProxy(a)
           h == evm.held - a.value
           d == w.etherDelta
           v == [w EXCEPT !.held = h, !.etherDelta = d]
           f == CallFrame(a, w)
<1>1. stack # <<>> /\ Top.kind = "scope" /\ a.value <= evm.held
  BY DEF MakeCall, CanCall, InScope, Running
<1>2. a \in Action /\ a.value \in Nat
  BY <1>1, TopFrame DEF Frame, Action
<1>3. Sound(evm, k) /\ evm \in World /\ evm.held \in Nat
  BY DEF Good, Sound, Fresh, World
<1>4. Sound(w, k) /\ w \in World /\ Gap(w) = Gap(evm) /\ d = 0 /\ d \in Int /\ Gap(w) \in Int
  BY <1>2, SourceProxySound, BalancesType DEF Sound, Fresh
<1>5. w.held = evm.held
  BY <1>3 DEF WithSourceProxy, World
<1>6. h \in Nat
  BY <1>1, <1>2, <1>3
<1>7. evm' = [w EXCEPT !.held = w.held - a.value]
  BY DEF MakeCall
<1>8. evm' = v
  BY <1>4, <1>5, <1>7 DEF World
<1>9. stack' = Append(stack, f)
  BY DEF MakeCall, Push
<1>10. << >> \in Seq(ExecutionEntry) /\ << >> \in Scope /\ Known(<< >>, k)
  BY EmptySeq DEF Scope, Known
<1>11. /\ f \in Frame /\ f.kind = "call" /\ f.before = w /\ f.todo = << >>
       /\ f.action = a
  BY <1>2, <1>4, <1>10 DEF CallFrame, Frame, FrameKind
<1>12. /\ h = evm.held - a.value
  OBVIOUS
<1> HIDE DEF h, d, w, f, a
<1>16. v \in World
  BY <1>4, <1>6, FlowType
<1>17. /\ v.rollups = w.rollups /\ v.rollupCounter = w.rollupCounter
       /\ v.executions = w.executions /\ v.held = h /\ v.etherDelta = d
  BY <1>4 DEF World
<1> HIDE DEF v
<1>13. Fresh(v, k) /\ v.etherDelta = d /\ Gap(v) = Gap(w) + w.held - h
  BY <1>4, <1>16, <1>17, FlowGap
<1>14. Sound(v, k) /\ Gap(v) = Gap(f.before) + Handed(f)
  BY <1>2, <1>3, <1>4, <1>5, <1>11, <1>12, <1>13 DEF Sound, Handed
<1>15. stack[Len(stack)].kind \in {"entry", "scope"}
  BY <1>1 DEF Top
<1> QED
  BY <1>1, <1>4, <1>8, <1>9, <1>10, <1>11, <1>14, <1>15, GoodPush

LEMMA CallUnfundedGood ==
  ASSUME NEW k \in Nat, Good(stack, evm, k), CallUnfunded
  PROVE  Good(stack', evm', k)
<1> DEFINE w == WithSourceProxy(Top.action)
           a == ResultAction(Top.action.rollupId, EmptyData, TRUE)
           n == Len(stack)
<1>1. stack # <<>> /\ Top.kind = "scope"
  BY DEF CallUnfunded, CanCall, InScope, Running
<1>2. Top \in Frame /\ Known(Top.todo, k) /\ n \in Nat /\ n > 0 /\ Top = stack[n]
  BY <1>1, TopFrame DEF Top
<1>3. Sound(w, k) /\ w \in World /\ Fresh(w, k) /\ Gap(w) = Gap(evm) /\ w.etherDelta = 0
      /\ Gap(w) \in Int
  BY <1>2, SourceProxySound, BalancesType DEF Sound, Fresh, Frame
<1>4. AnswerInPlace(w, a)
  BY DEF CallUnfunded
<1> HIDE DEF w, a
<1>5. CASE /\ Executable(w, a) /\ evm' = Execute(w, a)
           /\ stack' = [stack EXCEPT ![Len(stack)].action = NextAction(w, a)]
  <2> DEFINE f == [Top EXCEPT !.action = NextAction(w, a)]
  <2>1. Sound(evm', k) /\ Gap(evm') = Gap(evm)
    BY <1>3, <1>5, ExecuteSound, ExecuteGap
  <2>2. NextAction(w, a) \in Action
    BY <1>3, <1>5, ExecuteType
  <2>3. /\ f \in Frame /\ f.kind = "scope" /\ f.before = stack[n].before
        /\ f.todo = Top.todo
    BY <1>1, <1>2, <2>2 DEF Frame
  <2>4. stack' = [stack EXCEPT ![n] = f]
    BY <1>2, <1>5
  <2>5. n \in 1..Len(stack) /\ f.kind = stack[n].kind /\ f.kind # "call" /\ Known(f.todo, k)
    BY <1>1, <1>2, <2>3
  <2> HIDE DEF f, n
  <2>6. Good([stack EXCEPT ![n] = f], evm, k)
    BY <2>3, <2>5, GoodUpdate
  <2> QED
    BY <2>1, <2>4, <2>6, GoodStep
<1>6. CASE Abort
  BY <1>1, <1>6, AbortGood
<1> QED
  BY <1>4, <1>5, <1>6 DEF AnswerInPlace

LEMMA EnterChildScopeGood ==
  ASSUME NEW k \in Nat, Good(stack, evm, k), EnterChildScope
  PROVE  Good(stack', evm', k)
<1> DEFINE a == Top.action
           c == NextScope(Top.scope, a.scope)
           f == ScopeFrame(c, a, evm)
<1>1. /\ stack # <<>> /\ Top.kind = "scope" /\ AboveTarget
      /\ evm' = evm /\ stack' = Append(stack, f)
  BY DEF EnterChildScope, InScope, Running, Push
<1>2. a \in Action /\ Top.scope \in Seq(Nat) /\ a.scope \in Seq(Nat)
  BY <1>1, TopFrame DEF Frame, Action, Scope
<1>3. Len(Top.scope) + 1 \in 1..Len(a.scope)
  BY <1>1, <1>2 DEF AboveTarget, IsChildScope
<1>4. c \in Scope
  BY <1>2, <1>3, ElementOfSeq DEF NextScope, AppendToScope, Scope
<1>5. Sound(evm, k) /\ evm \in World /\ Gap(evm) \in Int
  BY BalancesType DEF Good, Sound, Fresh
<1>6. << >> \in Seq(ExecutionEntry) /\ Known(<< >>, k)
  BY EmptySeq DEF Known
<1> HIDE DEF a, c
<1>7. f \in Frame /\ f.kind = "scope" /\ f.before = evm /\ f.todo = << >>
  BY <1>2, <1>4, <1>5, <1>6 DEF ScopeFrame, Frame, FrameKind
<1> HIDE DEF f
<1>8. Gap(evm) = Gap(f.before) + Handed(f)
  BY <1>5, <1>7 DEF Handed
<1>9. stack[Len(stack)].kind \in {"entry", "scope"}
  BY <1>1 DEF Top
<1> QED
  BY <1>1, <1>5, <1>6, <1>7, <1>8, <1>9, GoodPush

LEMMA LeaveScopeGood ==
  ASSUME NEW k \in Nat, Good(stack, evm, k), LeaveScope
  PROVE  Good(stack', evm', k)
<1>1. stack # <<>> /\ Top.kind = "scope"
  BY DEF LeaveScope, Running
<1>2. Top.action \in Action
  BY <1>1, TopFrame DEF Frame
<1>3. Sound(evm, k) /\ Gap(evm) = Gap(Top.before)
  <2>1. Gap(evm) = Gap(Top.before) + 0 /\ Gap(Top.before) \in Int
    BY <1>1, TopFrame, BalancesType DEF Handed, Sound, Fresh
  <2> QED
    BY <2>1 DEF Good
<1>4. Good(ReturnToParent(Top.action), evm, k)
  BY <1>1, <1>2, <1>3, ReturnGood
<1> QED
  BY <1>4 DEF LeaveScope

LEMMA RevertScopeGood ==
  ASSUME NEW k \in Nat, Good(stack, evm, k), RevertScope
  PROVE  Good(stack', evm', k)
<1> DEFINE w == Top.before
           r == Top.action.rollupId
           rs == [w.rollups EXCEPT ![r].stateRoot = RootAtRevert]
<1>1. stack # <<>> /\ Top.kind = "scope" /\ Executable(evm, Resume)
  BY DEF RevertScope, InScope, Running
<1>2. evm \in World /\ Sound(w, k) /\ w \in World
  BY <1>1, TopFrame DEF Good, Sound, Fresh
<1>3. NextAction(evm, Resume) \in Action
  BY <1>1, <1>2, ExecuteType
<1>4. evm' = [w EXCEPT !.rollups = rs] /\ stack' = ReturnToParent(NextAction(evm, Resume))
  BY DEF RevertScope
<1>5. rs \in RollupConfigs /\ \A q \in RollupIds : rs[q].etherBalance = w.rollups[q].etherBalance
  <2>1. CASE r \in RollupIds
    <3>1. RootAtRevert \in Roots
      BY <1>2, <2>1 DEF RootAtRevert, World, RollupConfigs, RollupConfig
    <3> HIDE DEF r, w
    <3> QED
      BY <1>2, <2>1, <3>1 DEF World, RollupConfigs, RollupConfig
  <2>2. CASE r \notin RollupIds
    <3> HIDE DEF r, w
    <3>1. rs = w.rollups
      BY <1>2, <2>2 DEF World, RollupConfigs
    <3> QED
      BY <1>2, <3>1 DEF World
  <2> QED
    BY <2>1, <2>2
<1> HIDE DEF w, rs, r
<1>6. Sound(evm', k) /\ Gap(evm') = Gap(w)
  BY <1>2, <1>4, <1>5, ConfigSound
<1> QED
  BY <1>1, <1>3, <1>4, <1>6, ReturnGood DEF w

LEMMA ReturnResultGood ==
  ASSUME NEW k \in Nat, Good(stack, evm, k), ReturnResult
  PROVE  Good(stack', evm', k)
<1>1. stack # <<>> /\ Top.kind = "entry" /\ evm' = evm /\ stack' = Pop
  BY DEF ReturnResult, Running
<1>2. /\ Len(stack) \in Nat /\ Len(stack) > 0
      /\ Gap(evm) = Gap(Top.before) + 0 /\ Gap(Top.before) \in Int
      /\ Gap(At(stack, evm, Len(stack))) = Gap(Top.before)
  BY <1>1, TopFrame, BalancesType DEF Handed, Sound, Fresh
<1>3. Len(stack) - 1 \in 0..Len(stack) /\ (Len(stack) - 1) + 1 = Len(stack)
  BY <1>2
<1>4. Gap(evm) = Gap(At(stack, evm, (Len(stack) - 1) + 1)) /\ Sound(evm, k)
  BY <1>2, <1>3 DEF Good
<1>5. Good(Pop, evm, k)
  BY <1>3, <1>4, GoodPrefix DEF Pop
<1> QED
  BY <1>1, <1>5

LEMMA NavigateGood ==
  ASSUME NEW k \in Nat, Good(stack, evm, k), Navigate
  PROVE  Good(stack', evm', k)
<1>1. CASE CallExecutionFailed \/ NoContinuation \/ ProxyCollision
  BY <1>1, AbortGood DEF CallExecutionFailed, NoContinuation, ProxyCollision, InScope, Running
<1> QED
  BY <1>1, ReturnResultGood, EnterChildScopeGood, LeaveScopeGood, RevertScopeGood,
     MakeCallGood, CallUnfundedGood DEF Navigate

LEMMA CalleeGood ==
  ASSUME NEW k \in Nat, Good(stack, evm, k), Callee
  PROVE  Good(stack', evm', k)
<1>1. stack # <<>> /\ Top.kind = "call"
  BY DEF Callee, CallReturns, CallReverts, Running
<1>2. /\ Top \in Frame /\ Sound(Top.before, k)
      /\ Gap(evm) = Gap(Top.before) + Top.action.value
  BY <1>1, TopFrame DEF Handed
<1>3. Top.action.value \in Nat /\ Gap(Top.before) \in Int
  BY <1>2, BalancesType DEF Frame, Action, Sound, Fresh
<1>4. ASSUME NEW data, CallReturns(data)
      PROVE  Good(stack', evm', k)
  <2> DEFINE d == evm.etherDelta - Top.action.value
             w == [evm EXCEPT !.etherDelta = d]
  <2>1. Sound(evm, k) /\ evm \in World /\ d \in Int /\ d = 0 - Top.action.value
    BY <1>3 DEF Good, Sound, Fresh
  <2>2. Answer(w, ResultAction(Top.action.rollupId, data, FALSE))
    BY <1>4 DEF CallReturns
  <2> HIDE DEF d
  <2>3. w \in World
    BY <2>1, WorldEtherDelta
  <2>4. /\ w.rollups = evm.rollups /\ w.rollupCounter = evm.rollupCounter
        /\ w.executions = evm.executions /\ w.held = evm.held /\ w.etherDelta = d
        /\ evm.held \in Nat
    BY <2>1 DEF World
  <2> HIDE DEF w
  <2>5. Fresh(w, k) /\ Gap(w) = Gap(evm) + evm.held - evm.held
    BY <2>1, <2>3, <2>4, FlowGap
  <2>6. Gap(w) + w.etherDelta = Gap(Top.before)
    BY <1>2, <1>3, <2>1, <2>4, <2>5
  <2> QED
    BY <1>1, <2>2, <2>5, <2>6, AnswerGood
<1>5. ASSUME NEW data, CallReverts(data)
      PROVE  Good(stack', evm', k)
  <2>1. Answer(Top.before, ResultAction(Top.action.rollupId, data, TRUE))
    BY <1>5 DEF CallReverts
  <2>2. Fresh(Top.before, k) /\ Gap(Top.before) + Top.before.etherDelta = Gap(Top.before)
    BY <1>2, <1>3 DEF Sound
  <2> QED
    BY <1>1, <2>1, <2>2, AnswerGood
<1> QED
  BY <1>4, <1>5 DEF Callee

-----------------------------------------------------------------------------
(* The invariant is inductive. *)

LEMMA InitGood == Init => IInv
<1> SUFFICES ASSUME Init PROVE IInv
  OBVIOUS
<1> DEFINE rs == [r \in RollupIds |->
                    [owner |-> ZeroAddress, verificationKey |-> ZeroVK,
                     stateRoot |-> ZeroRoot, etherBalance |-> 0]]
<1>1. << >> \in Seq(ExecutionEntry) /\ << >> \in Seq(Frame) /\ Len(<< >>) = 0
  BY EmptySeq
<1>2. rs \in RollupConfigs
  BY RollupsConstants, ActionConstants DEF RollupConfigs, RollupConfig
<1>3. evm = [rollupCounter |-> 1, rollups |-> rs,
             executions |-> <<>>, authorizedProxies |-> {},
             lastStateUpdateBlock |-> 0, etherDelta |-> 0, held |-> 0,
             loaded |-> <<>>, consumed |-> <<>>]
  BY DEF Init
<1>4. \A r \in RollupIds : rs[r].etherBalance = 0
  OBVIOUS
<1> HIDE DEF rs
<1>5. evm \in World /\ evm.etherDelta = 0 /\ evm.rollups = rs /\ evm.rollupCounter = 1
      /\ evm.executions = << >> /\ evm.held = 0
  BY <1>1, <1>2, <1>3 DEF World
<1>6. Sound(evm, 0)
  BY <1>1, <1>4, <1>5 DEF Sound, Fresh, Known
<1>7. Gap(evm) = 0
  <2> DEFINE f == Balances(evm)
             zero == [r \in 1..MaxRollups |-> 0]
  <2>1. f = zero
    BY <1>4, <1>5, RollupsConstants DEF Balances
  <2>2. zero \in [1..MaxRollups -> Int] /\ \A r \in 1..MaxRollups : zero[r] = zero[r] + zero[r]
    OBVIOUS
  <2> HIDE DEF zero
  <2>3. Total(zero) = Total(zero) + Total(zero) /\ Total(zero) \in Int
    BY <2>2, TotalOfSum, TotalType
  <2>4. Total(zero) = 0
    <3>1. \A x \in Int : x = x + x => x = 0
      OBVIOUS
    <3> QED
      BY <2>3, <3>1
  <2> QED
    BY <1>5, <2>1, <2>4 DEF Gap
<1>8. stack = << >>
  BY DEF Init
<1>9. Owed(stack, evm) /\ Nested(stack)
  BY <1>1, <1>7, <1>8 DEF Owed, Nested, At
<1>10. Good(stack, evm, 0)
  BY <1>1, <1>6, <1>8, <1>9 DEF Good
<1>11. proof \in ProofType /\ blockNumber \in Nat /\ Known(proof.entries, 0)
  BY <1>1, RollupsConstants DEF Init, NoProof, ProofType, Known
<1> QED
  BY <1>10, <1>11 DEF IInv

(* A prover reads committed states only, whose rollups stay created. *)
LEMMA ProveGood ==
  ASSUME IInv, NEW entries \in Batches, NEW b \in {blockNumber, blockNumber + 1},
         Prove(entries, b)
  PROVE  IInv'
<1> DEFINE n == evm.rollupCounter
<1>1. PICK k \in Nat : Good(stack, evm, k)
  BY DEF IInv
<1>2. stack = << >> /\ stack' = stack /\ evm' = evm /\ blockNumber' = blockNumber
  BY DEF Prove
<1>3. Sound(evm, k) /\ evm \in World /\ n \in Nat /\ k <= n
  BY <1>1 DEF Good, Sound, Fresh, World
<1>4. RollupIds \subseteq Nat
  BY ActionConstants
<1>5. Known(evm.executions, n)
  <2>1. ASSUME NEW i \in 1..Len(evm.executions), NEW r \in DOMAIN evm.executions[i].stateDeltas
        PROVE  r < n
    <3>1. evm.executions[i] \in ExecutionEntry
      BY <1>3, ElementOfSeq DEF World
    <3>2. r \in Nat
      BY <1>4, <2>1, <3>1, EntryTypes
    <3>3. r < k
      BY <1>3, <2>1 DEF Sound, Fresh, Known
    <3> QED
      BY <1>3, <3>2, <3>3
  <2> QED
    BY <2>1 DEF Known
<1>6. Sound(evm, n)
  BY <1>3, <1>5 DEF Sound, Fresh
<1>7. Good(stack', evm', n)
  BY <1>1, <1>2, <1>6, EmptySeq DEF Good
<1>8. proof' = [entries |-> entries, verificationKeys |-> CurrentKeys, blockNumber |-> b]
  BY DEF Prove
<1>9. Known(proof'.entries, n)
  BY <1>8 DEF Prove, Known, Created
<1>10. proof' \in ProofType
  <2>1. CurrentKeys \in [RollupIds -> VKs]
    BY <1>3 DEF CurrentKeys, World, RollupConfigs, RollupConfig
  <2>2. entries \in Seq(ExecutionEntry)
    BY EntryShape
  <2>3. b \in Nat
    BY DEF IInv
  <2> QED
    BY <1>8, <2>1, <2>2, <2>3 DEF ProofType
<1>11. blockNumber' \in Nat
  BY <1>2 DEF IInv
<1> QED
  BY <1>3, <1>7, <1>9, <1>10, <1>11 DEF IInv

(* A transaction begins within a block.                                    *)
LEMMA BeginInBlock ==
  ASSUME Begin
  PROVE  blockNumber' = blockNumber /\ proof' = proof
<1>1. \A p, sender, v, d : ExecuteCrossChainCall(p, sender, v, d) =>
        blockNumber' = blockNumber /\ proof' = proof
  BY DEF ExecuteCrossChainCall, Enter
<1>2. \A r, tx : ExecuteL2TX(r, tx) => blockNumber' = blockNumber /\ proof' = proof
  BY DEF ExecuteL2TX, Enter
<1> HIDE DEF ExecuteCrossChainCall, ExecuteL2TX
<1> QED
  BY <1>1, <1>2, Zenon DEF Begin

LEMMA Inductive == IInv /\ [Next]_vars => IInv'
<1> SUFFICES ASSUME IInv, [Next]_vars PROVE IInv'
  OBVIOUS
<1>1. PICK k \in Nat : Good(stack, evm, k) /\ Known(proof.entries, k)
  BY DEF IInv
<1>2. blockNumber \in Nat /\ proof \in ProofType
  BY DEF IInv
<1>3. ASSUME Good(stack', evm', k), UNCHANGED <<blockNumber, proof>> PROVE IInv'
  BY <1>1, <1>2, <1>3 DEF IInv
<1>4. CASE Manage
  <2>1. UNCHANGED <<blockNumber, proof>>
    BY <1>4 DEF Manage, CreateRollup, CreateCrossChainProxy, SetStateByOwner,
                SetVerificationKey, TransferRollupOwnership
  <2> QED
    BY <1>1, <1>3, <1>4, <2>1, ManageGood
<1>5. CASE Batch
  <2>1. UNCHANGED <<blockNumber, proof>>
    BY <1>5 DEF Batch, PostBatch, ProcessImmediate, ProcessDeferred, FinishBatch,
                BatchReverts, Abort
  <2> QED
    BY <1>1, <1>2, <1>3, <1>5, <2>1, BatchGood
<1>6. CASE Begin
  <2>1. UNCHANGED <<blockNumber, proof>>
    BY <1>6, BeginInBlock
  <2> QED
    BY <1>1, <1>3, <1>6, <2>1, BeginGood
<1>7. CASE Navigate
  <2>1. UNCHANGED <<blockNumber, proof>>
    BY <1>7 DEF Navigate, ReturnResult, CallExecutionFailed, EnterChildScope, LeaveScope,
                RevertScope, NoContinuation, ProxyCollision, MakeCall, CallUnfunded,
                AnswerInPlace, Abort
  <2> QED
    BY <1>1, <1>3, <1>7, <2>1, NavigateGood
<1>8. CASE Callee
  <2>1. UNCHANGED <<blockNumber, proof>>
    BY <1>8 DEF Callee, CallReturns, CallReverts, Answer, Abort
  <2> QED
    BY <1>1, <1>3, <1>8, <2>1, CalleeGood
<1>9. CASE OutOfGas
  <2>1. Abort /\ stack # << >>
    BY <1>9 DEF OutOfGas
  <2>2. UNCHANGED <<blockNumber, proof>>
    BY <2>1 DEF Abort
  <2> QED
    BY <1>1, <1>3, <2>1, <2>2, AbortGood
<1>10. CASE NewBlock
  BY <1>1, <1>2, <1>10 DEF NewBlock, IInv
<1>11. CASE \E entries \in Batches, b \in {blockNumber, blockNumber + 1} : Prove(entries, b)
  BY <1>11, ProveGood
<1>12. CASE UNCHANGED vars
  BY <1>1, <1>2, <1>12 DEF vars, IInv
<1> QED
  BY <1>4, <1>5, <1>6, <1>7, <1>8, <1>9, <1>10, <1>11, <1>12 DEF Next

LEMMA Invariant == Spec => []IInv
BY InitGood, Inductive, PTL DEF Spec

-----------------------------------------------------------------------------
(* What the invariant says. *)

(* Every variable keeps its type: in particular no sequence of payouts,    *)
(* re-entrant deposits and rollbacks makes a rollup's balance negative.    *)
THEOREM TypeCorrect == Spec => []TypeOK
<1>1. IInv => TypeOK
  BY DEF IInv, Good, Sound, Fresh, TypeOK, ProofType
<1> QED
  BY <1>1, Invariant, PTL

(* The ether the contract holds is what its rollups own, minus what the    *)
(* running calls were handed, in every state a revert may restore.         *)
THEOREM EtherAccounted == Spec => []Accounted
<1>1. IInv => Accounted
  <2> SUFFICES ASSUME IInv PROVE Accounted
    OBVIOUS
  <2>1. Owed(stack, evm)
    BY DEF IInv, Good
  <2>2. \A i : WorldAt(i) = At(stack, evm, i)
    BY DEF WorldAt, At
  <2> QED
    BY <2>1, <2>2 DEF Owed, Accounted, Handed
<1> QED
  BY <1>1, Invariant, PTL

(* No step leaves a flow of ether unbooked for a later lookup to absorb.   *)
THEOREM FlowSettled == Spec => []EtherDeltaSettled
<1>1. IInv => EtherDeltaSettled
  <2> SUFFICES ASSUME IInv PROVE EtherDeltaSettled
    OBVIOUS
  <2>1. PICK k \in Nat : Good(stack, evm, k)
    BY DEF IInv
  <2>2. Len(stack) \in Nat
    BY <2>1 DEF Good
  <2> QED
    BY <2>1, <2>2 DEF Good, Sound, EtherDeltaSettled, WorldAt
<1> QED
  BY <1>1, Invariant, PTL

-----------------------------------------------------------------------------
(* Entries are loaded, and then are in the table or consumed. *)

Conserved(w) ==
    \A e \in ExecutionEntry :
        Count(w.executions, e) + Count(w.consumed, e) = Count(w.loaded, e)

(* The table is that of the same batch, with the same entries or fewer. *)
Within(v, w) ==
    /\ v.lastStateUpdateBlock = w.lastStateUpdateBlock
    /\ v.loaded = w.loaded
    /\ Elements(v.executions) \subseteq Elements(w.executions)

SameTable(v, w) ==
    /\ v.lastStateUpdateBlock = w.lastStateUpdateBlock /\ v.loaded = w.loaded
    /\ v.executions = w.executions /\ v.consumed = w.consumed

LEMMA CountPlaces ==
  ASSUME NEW q, NEW e
  PROVE  Count(q, e) = Cardinality(Places(q, e))
BY DEF Count, Places

LEMMA CountType ==
  ASSUME NEW q \in Seq(ExecutionEntry), NEW e
  PROVE  Count(q, e) \in Nat /\ (e \in Elements(q) <=> Count(q, e) > 0)
<1>1. Cardinality(Places(q, e)) \in Nat
  BY PlacesFinite
<1>2. (\E i \in DOMAIN q : q[i] = e) <=> Cardinality(Places(q, e)) > 0
  BY PlacesCount
<1> QED
  BY <1>1, <1>2, CountPlaces DEF Elements

LEMMA CountAppend ==
  ASSUME NEW q \in Seq(ExecutionEntry), NEW x \in ExecutionEntry, NEW e
  PROVE  Count(Append(q, x), e) = Count(q, e) + (IF x = e THEN 1 ELSE 0)
BY CountPlaces, PlacesAppend

LEMMA CountSwapAndPop ==
  ASSUME NEW q \in Seq(ExecutionEntry), NEW i \in 1..Len(q), NEW e
  PROVE  Count(SwapAndPop(q, i), e) = Count(q, e) - (IF q[i] = e THEN 1 ELSE 0)
<1>1. SwapAndPop(q, i) = Without(q, i)
  BY DEF SwapAndPop, Without
<1> QED
  BY <1>1, CountPlaces, PlacesWithout

LEMMA SameConserved ==
  ASSUME NEW w, Conserved(w), NEW v, SameTable(v, w)
  PROVE  Conserved(v) /\ Within(v, w)
BY DEF Conserved, SameTable, Within

LEMMA WithinTransitive ==
  ASSUME NEW u, NEW v, NEW w, Within(u, v), Within(v, w)
  PROVE  Within(u, w)
BY DEF Within

LEMMA ExecuteConserved ==
  ASSUME NEW w \in World, Conserved(w), NEW a, Executable(w, a)
  PROVE  Conserved(Execute(w, a)) /\ Within(Execute(w, a), w)
<1> DEFINE i == FirstMatch(w, a)
           e == w.executions[i]
           v == Execute(w, a)
           x == ApplyStateDeltas(w, e.stateDeltas)
<1>1. i \in 1..Len(w.executions) /\ e \in ExecutionEntry
  BY FirstMatchInTable, ExecuteType DEF Executable
<1>2. /\ w.executions \in Seq(ExecutionEntry) /\ w.consumed \in Seq(ExecutionEntry)
      /\ w.loaded \in Seq(ExecutionEntry)
  BY DEF World
<1>3. SwapAndPop(w.executions, i) \in Seq(ExecutionEntry)
  BY <1>1, <1>2, SwapAndPopType
<1>4. x \in World /\ SameTable(x, w)
  <2>1. x \in World
    BY <1>1, ApplyType DEF Executable
  <2> QED
    BY <2>1 DEF ApplyStateDeltas, World, SameTable
<1>5. v = [x EXCEPT !.executions = SwapAndPop(w.executions, i), !.consumed = Append(w.consumed, e)]
  BY DEF Execute
<1> HIDE DEF v, x, e, i
<1>6. /\ v.executions = SwapAndPop(w.executions, i) /\ v.consumed = Append(w.consumed, e)
      /\ v.loaded = w.loaded /\ v.lastStateUpdateBlock = w.lastStateUpdateBlock
  BY <1>4, <1>5 DEF World, SameTable
<1>7. ASSUME NEW f
      PROVE  /\ Count(v.executions, f) = Count(w.executions, f) - (IF e = f THEN 1 ELSE 0)
             /\ Count(v.consumed, f) = Count(w.consumed, f) + (IF e = f THEN 1 ELSE 0)
             /\ Count(w.executions, f) \in Nat /\ Count(w.consumed, f) \in Nat
             /\ f \in Elements(v.executions) => f \in Elements(w.executions)
  <2>1. Count(SwapAndPop(w.executions, i), f)
          = Count(w.executions, f) - (IF w.executions[i] = f THEN 1 ELSE 0)
    BY <1>1, <1>2, CountSwapAndPop
  <2>2. Count(Append(w.consumed, e), f) = Count(w.consumed, f) + (IF e = f THEN 1 ELSE 0)
    BY <1>1, <1>2, CountAppend
  <2>3. /\ Count(w.executions, f) \in Nat /\ Count(w.consumed, f) \in Nat
        /\ f \in Elements(w.executions) <=> Count(w.executions, f) > 0
        /\ f \in Elements(v.executions) <=> Count(v.executions, f) > 0
    BY <1>2, <1>3, <1>6, CountType
  <2> QED
    BY <1>6, <2>1, <2>2, <2>3 DEF e
<1>8. Conserved(v)
  BY <1>6, <1>7 DEF Conserved
<1>9. Elements(v.executions) \subseteq Elements(w.executions)
  BY <1>7
<1> QED
  BY <1>6, <1>8, <1>9 DEF Within, v

-----------------------------------------------------------------------------
(* The invariant of the frames s under state w in block b: frames are in   *)
(* the places of their scopes, no state has lost an entry, and the first   *)
(* frame says what the transaction does.  A batch runs alone and moves no  *)
(* ether; anything else uses the table of this block's batch only.         *)

Posting(s, w, b) ==
    s[1].before.lastStateUpdateBlock # b /\ w.held = s[1].before.held

Using(s, w, b) ==
    /\ s[1].before.lastStateUpdateBlock = b
    /\ \A i \in 1..(Len(s) + 1) : Within(At(s, w, i), s[1].before)

Fits(s, w, b) ==
    /\ \A i \in 1..Len(s) : Placed(s, i)
    /\ \A i \in 1..(Len(s) + 1) : Conserved(At(s, w, i))
    /\ \A i \in 1..Len(s) : s[i].kind = "batch" => Len(s) = 1
    /\ s # <<>> => IF s[1].kind = "batch" THEN Posting(s, w, b) ELSE Using(s, w, b)

TInv == Fits(stack, evm, blockNumber)

LEMMA FitsNow ==
  ASSUME NEW s \in Seq(Frame), NEW w, NEW b, Fits(s, w, b)
  PROVE  /\ Len(s) \in Nat /\ Conserved(w)
         /\ s # <<>> => /\ Len(s) > 0
                        /\ Conserved(s[Len(s)].before)
                        /\ s[1].kind # "batch" => /\ s[1].before.lastStateUpdateBlock = b
                                                  /\ Within(w, s[1].before)
                                                  /\ Within(s[Len(s)].before, s[1].before)
<1>1. Len(s) \in Nat /\ (s # <<>> => Len(s) > 0)
  BY EmptySeq
<1>2. At(s, w, Len(s) + 1) = w /\ (s # <<>> => At(s, w, Len(s)) = s[Len(s)].before)
  BY <1>1 DEF At
<1>3. Conserved(w) /\ (s # <<>> => Conserved(s[Len(s)].before))
  BY <1>1, <1>2 DEF Fits
<1>4. ASSUME s # <<>>, s[1].kind # "batch"
      PROVE  /\ s[1].before.lastStateUpdateBlock = b
             /\ Within(w, s[1].before) /\ Within(s[Len(s)].before, s[1].before)
  BY <1>1, <1>2, <1>4 DEF Fits, Using
<1> QED
  BY <1>1, <1>3, <1>4

(* The first m frames of s, but for what they do next. *)
Kept(t, s, m) ==
    /\ Len(t) = m
    /\ \A i \in 1..m : /\ t[i].kind = s[i].kind /\ t[i].scope = s[i].scope
                       /\ t[i].before = s[i].before
                       /\ s[i].kind = "call" => t[i].action = s[i].action

(* Frames are popped, or change what they do next, and the state changes.  *)
LEMMA FitsKept ==
  ASSUME NEW s \in Seq(Frame), NEW w, NEW b, Fits(s, w, b), NEW t, NEW m \in 0..Len(s),
         Kept(t, s, m), t = <<>> <=> m = 0, NEW v, Conserved(v),
         m > 0 => IF s[1].kind = "batch" THEN v.held = w.held ELSE Within(v, s[1].before)
  PROVE  Fits(t, v, b)
<1>1. Len(s) \in Nat /\ m \in Nat /\ m <= Len(s) /\ Len(t) = m
  BY DEF Kept
<1>2. \A i \in 1..m : Placed(t, i)
  <2>1. \A i \in 1..Len(s) : Placed(s, i)
    BY DEF Fits
  <2>2. \A i \in 1..m : /\ t[i].kind = s[i].kind /\ t[i].scope = s[i].scope
                        /\ s[i].kind = "call" => t[i].action = s[i].action
    BY DEF Kept
  <2> HIDE DEF Kept
  <2>3. Len(s) \in Nat /\ m \in 0..Len(s)
    BY <1>1
  <2> QED
    BY ONLY <2>1, <2>2, <2>3, PlacedKept
<1>3. ASSUME NEW i \in 1..(m + 1) PROVE At(t, v, i) = IF i = m + 1 THEN v ELSE At(s, w, i)
  BY <1>1 DEF At, Kept
<1>4. \A i \in 1..(m + 1) : Conserved(At(t, v, i))
  BY <1>1, <1>3 DEF Fits
<1>5. ASSUME NEW i \in 1..m, t[i].kind = "batch" PROVE m = 1
  <2>1. s[i].kind = "batch" /\ i \in 1..Len(s)
    BY <1>1, <1>5 DEF Kept
  <2>2. Len(s) = 1
    BY <2>1 DEF Fits
  <2> QED
    BY <1>1, <2>2
<1>6. ASSUME t # <<>> PROVE IF t[1].kind = "batch" THEN Posting(t, v, b) ELSE Using(t, v, b)
  <2>1. m > 0 /\ s # <<>> /\ t[1].kind = s[1].kind /\ t[1].before = s[1].before
    BY <1>1, <1>6, EmptySeq DEF Kept
  <2>2. CASE s[1].kind = "batch"
    BY <2>1, <2>2 DEF Fits, Posting
  <2>3. CASE s[1].kind # "batch"
    <3>1. Using(s, w, b) /\ Within(v, s[1].before)
      BY <2>1, <2>3 DEF Fits
    <3>2. ASSUME NEW i \in 1..(m + 1) PROVE Within(At(t, v, i), t[1].before)
      BY <1>1, <1>3, <2>1, <3>1 DEF Using
    <3> QED
      BY <1>1, <2>1, <2>3, <3>1, <3>2 DEF Using
  <2> QED
    BY <2>2, <2>3
<1> QED
  BY <1>1, <1>2, <1>4, <1>5, <1>6 DEF Fits

(* The state changes, the table does not. *)
LEMMA FitsSame ==
  ASSUME NEW s \in Seq(Frame), NEW w, NEW b, Fits(s, w, b),
         NEW v, SameTable(v, w), v.held = w.held
  PROVE  Fits(s, v, b)
<1>1. Len(s) \in Nat /\ Conserved(w) /\ (s = <<>> <=> Len(s) = 0)
      /\ (s # <<>> /\ s[1].kind # "batch" => Within(w, s[1].before))
  BY FitsNow, EmptySeq
<1>2. Conserved(v) /\ Within(v, w)
  BY <1>1, SameConserved
<1>3. Len(s) > 0 => IF s[1].kind = "batch" THEN v.held = w.held ELSE Within(v, s[1].before)
  BY <1>1, <1>2, WithinTransitive
<1>4. Kept(s, s, Len(s)) /\ Len(s) \in 0..Len(s)
  BY <1>1 DEF Kept
<1> QED
  BY <1>1, <1>2, <1>3, <1>4, FitsKept

(* A frame that is no batch is pushed, not onto a batch. *)
LEMMA FitsPush ==
  ASSUME NEW s \in Seq(Frame), NEW w, NEW b, Fits(s, w, b), NEW f \in Frame,
         f.kind # "batch", Placed(Append(s, f), Len(s) + 1),
         IF s = <<>> THEN f.before.lastStateUpdateBlock = b ELSE s[1].kind # "batch",
         NEW v, Conserved(f.before), Conserved(v), Within(f.before, w), Within(v, f.before)
  PROVE  Fits(Append(s, f), v, b)
<1> DEFINE t == Append(s, f)
           n == Len(s)
<1>1. /\ n \in Nat /\ t \in Seq(Frame) /\ Len(t) = n + 1 /\ t # <<>>
      /\ t[n + 1] = f /\ \A i \in 1..n : t[i] = s[i]
  BY AppendProperties, EmptySeq
<1> HIDE DEF t, n
<1>2. \A i \in 1..(n + 1) : Placed(t, i)
  BY <1>1, PlacedPush DEF Fits, t, n
<1>3. ASSUME NEW i \in 1..(n + 2)
      PROVE  At(t, v, i) = IF i = n + 2 THEN v ELSE IF i = n + 1 THEN f.before ELSE At(s, w, i)
  BY <1>1 DEF At, n
<1>4. \A i \in 1..(n + 2) : Conserved(At(t, v, i))
  BY <1>1, <1>3 DEF Fits, n
<1>5. CASE n = 0
  <2>1. s = <<>> /\ t[1] = f
    BY <1>1, <1>5, EmptySeq DEF n
  <2>2. \A i \in 1..2 : Within(At(t, v, i), f.before)
    BY <1>3, <1>5 DEF Within
  <2>3. Using(t, v, b)
    BY <1>1, <1>5, <2>1, <2>2 DEF Using
  <2> QED
    BY <1>1, <1>2, <1>4, <1>5, <2>1, <2>3 DEF Fits, t
<1>6. CASE n > 0
  <2>1. s # <<>> /\ t[1] = s[1] /\ s[1].kind # "batch" /\ Using(s, w, b)
    BY <1>1, <1>6, EmptySeq DEF Fits, n
  <2>2. Within(w, s[1].before)
    BY <2>1, FitsNow
  <2>3. Within(f.before, s[1].before) /\ Within(v, s[1].before)
    BY <2>2, WithinTransitive
  <2>4. ASSUME NEW i \in 1..(n + 2) PROVE Within(At(t, v, i), s[1].before)
    BY <1>1, <1>3, <2>1, <2>3 DEF Using, n
  <2>5. Using(t, v, b)
    BY <1>1, <2>1, <2>4 DEF Using
  <2>6. \A i \in 1..(n + 1) : t[i].kind # "batch"
    <3>1. \A i \in 1..n : s[i].kind # "batch"
      BY <1>1, <1>6, <2>1 DEF Fits, n
    <3> QED
      BY <1>1, <3>1
  <2> QED
    BY <1>1, <1>2, <1>4, <2>1, <2>5, <2>6 DEF Fits, t
<1> QED
  BY <1>1, <1>5, <1>6

-----------------------------------------------------------------------------
(* Steps the actions share. *)

LEMMA StackTypes ==
  ASSUME IInv
  PROVE  /\ stack \in Seq(Frame) /\ Len(stack) \in Nat /\ evm \in World
         /\ stack # <<>> <=> Len(stack) > 0
         /\ stack # <<>> =>
              /\ Top \in Frame /\ Top.before \in World /\ Top = stack[Len(stack)]
              /\ Top.kind \in {"scope", "call"} =>
                    Len(stack) > 1 /\ stack[Len(stack) - 1].kind \in {"entry", "scope"}
              /\ stack[1].kind \in {"entry", "batch"}
              /\ ThisEntry \in 1..Len(stack)
<1>1. PICK k \in Nat : Good(stack, evm, k)
  BY DEF IInv
<1>2. stack \in Seq(Frame) /\ evm \in World
  BY <1>1 DEF Good, Sound, Fresh
<1>3. Len(stack) \in Nat /\ (stack # <<>> <=> Len(stack) > 0)
  BY <1>2, EmptySeq
<1>4. ASSUME stack # <<>>
      PROVE  /\ Top \in Frame /\ Top.before \in World
             /\ Top.kind \in {"scope", "call"} =>
                   Len(stack) > 1 /\ stack[Len(stack) - 1].kind \in {"entry", "scope"}
             /\ stack[1].kind \in {"entry", "batch"}
             /\ ThisEntry \in 1..Len(stack)
  BY <1>1, <1>4, TopFrame, ThisEntryInStack DEF Sound, Fresh
<1> QED
  BY <1>2, <1>3, <1>4 DEF Top

(* Only a batch runs in a batch. *)
LEMMA NotInBatch ==
  ASSUME IInv, TInv, stack # <<>>, Top.kind # "batch"
  PROVE  /\ stack[1].kind = "entry"
         /\ Within(evm, stack[1].before) /\ Within(Top.before, stack[1].before)
         /\ evm.lastStateUpdateBlock = blockNumber
<1>1. /\ stack \in Seq(Frame) /\ Len(stack) \in Nat /\ Len(stack) > 0
      /\ stack[1].kind \in {"entry", "batch"} /\ Top = stack[Len(stack)]
  BY StackTypes
<1>2. stack[1].kind # "batch"
  BY <1>1 DEF TInv, Fits
<1>3. /\ Within(evm, stack[1].before) /\ Within(Top.before, stack[1].before)
      /\ stack[1].before.lastStateUpdateBlock = blockNumber
  BY <1>1, <1>2, FitsNow DEF TInv
<1> QED
  BY <1>1, <1>2, <1>3 DEF Within

LEMMA PrefixKept ==
  ASSUME NEW s \in Seq(Frame), NEW m \in 0..Len(s)
  PROVE  Kept(SubSeq(s, 1, m), s, m) /\ (SubSeq(s, 1, m) = <<>> <=> m = 0)
         /\ SubSeq(s, 1, m) \in Seq(Frame)
<1> DEFINE t == SubSeq(s, 1, m)
<1>1. Len(s) \in Nat /\ m \in Nat /\ m <= Len(s) /\ \A i \in 1..m : s[i] \in Frame
  BY ElementOfSeq
<1>2. t \in Seq(Frame) /\ Len(t) = m /\ \A i \in 1..m : t[i] = s[i]
  BY <1>1, SubSeqProperties
<1> HIDE DEF t
<1>3. t = <<>> <=> m = 0
  BY <1>1, <1>2, EmptySeq
<1> QED
  BY <1>2, <1>3 DEF Kept, t

LEMMA UpdateKept ==
  ASSUME NEW s \in Seq(Frame), NEW m \in 1..Len(s), NEW f,
         f.kind = s[m].kind, f.scope = s[m].scope, f.before = s[m].before,
         s[m].kind = "call" => f.action = s[m].action
  PROVE  Kept([s EXCEPT ![m] = f], s, Len(s)) /\ [s EXCEPT ![m] = f] # <<>>
<1> DEFINE t == [s EXCEPT ![m] = f]
<1>1. Len(s) \in Nat /\ DOMAIN s = 1..Len(s)
  BY LenProperties
<1>2. DOMAIN t = 1..Len(s) /\ Len(t) = Len(s) /\ \A i \in 1..Len(s) : t[i] = IF i = m THEN f ELSE s[i]
  BY <1>1
<1> HIDE DEF t
<1>3. Kept(t, s, Len(s))
  BY <1>2 DEF Kept
<1>4. t # <<>>
  BY <1>1, <1>2
<1> QED
  BY <1>3, <1>4 DEF t

LEMMA AbortFits ==
  ASSUME IInv, TInv, stack # <<>>, Abort
  PROVE  Fits(stack', evm', blockNumber)
<1> DEFINE o == ThisEntry
           v == stack[o].before
           t == SubSeq(stack, 1, o - 1)
<1> HIDE DEF o
<1>1. /\ stack \in Seq(Frame) /\ Len(stack) \in Nat /\ o \in 1..Len(stack)
      /\ o - 1 \in 0..Len(stack) /\ o \in 1..(Len(stack) + 1)
  BY StackTypes DEF o
<1>2. Kept(t, stack, o - 1) /\ (t = <<>> <=> o - 1 = 0)
  BY <1>1, PrefixKept
<1>3. At(stack, evm, o) = v
  BY <1>1 DEF At
<1>4. Conserved(v)
  BY <1>1, <1>3 DEF TInv, Fits
<1>5. o - 1 > 0 => stack[1].kind # "batch" /\ Within(v, stack[1].before)
  <2> SUFFICES ASSUME o - 1 > 0 PROVE stack[1].kind # "batch" /\ Within(v, stack[1].before)
    OBVIOUS
  <2> DEFINE n == Len(stack)
  <2>1. 1 \in 1..n /\ n # 1
    <3>1. n \in Nat /\ n > 1
      BY <1>1
    <3> HIDE DEF n
    <3> QED
      BY <3>1
  <2>2. stack[1].kind # "batch"
    BY <2>1 DEF TInv, Fits
  <2> QED
    BY <1>1, <1>3, <2>1, <2>2 DEF TInv, Fits, Using
<1> HIDE DEF v, t
<1>6. Fits(t, v, blockNumber)
  BY <1>1, <1>2, <1>4, <1>5, FitsKept DEF TInv
<1> QED
  BY <1>6 DEF Abort, v, t, o

(* The innermost frame, a scope or a call, answers a. *)
LEMMA ReturnKept ==
  ASSUME IInv, stack # <<>>, Top.kind \in {"scope", "call"}, NEW a
  PROVE  /\ Len(stack) - 1 \in 1..Len(stack)
         /\ Kept(ReturnToParent(a), stack, Len(stack) - 1)
         /\ ReturnToParent(a) # <<>>
<1> DEFINE n == Len(stack) - 1
           f == [stack[n] EXCEPT !.action = a]
           t == [Pop EXCEPT ![n] = f]
<1>1. /\ stack \in Seq(Frame) /\ Len(stack) \in Nat /\ n \in 1..Len(stack) /\ n \in 0..Len(stack)
      /\ stack[n].kind \in {"entry", "scope"} /\ n > 0
  BY StackTypes
<1>2. stack[n] \in Frame
  BY <1>1, ElementOfSeq
<1> HIDE DEF n
<1>3. Pop \in Seq(Frame) /\ Kept(Pop, stack, n) /\ Len(Pop) = n /\ Pop[n] = stack[n]
  <2>1. Pop = SubSeq(stack, 1, n)
    BY DEF Pop, n
  <2>2. Pop \in Seq(Frame) /\ Kept(Pop, stack, n)
    BY <1>1, <2>1, PrefixKept
  <2>3. Pop[n] = stack[n]
    BY <1>1, <2>1
  <2> QED
    BY <2>2, <2>3 DEF Kept
<1>4. /\ f.kind = stack[n].kind /\ f.scope = stack[n].scope /\ f.before = stack[n].before
  BY <1>2 DEF Frame
<1>5. ReturnToParent(a) = t
  BY <1>3 DEF ReturnToParent, n
<1> HIDE DEF f
<1>6. Kept(t, Pop, n) /\ t # <<>>
  <2>1. /\ Pop \in Seq(Frame) /\ n \in 1..Len(Pop) /\ Len(Pop) = n
        /\ f.kind = Pop[n].kind /\ f.scope = Pop[n].scope /\ f.before = Pop[n].before
        /\ Pop[n].kind # "call"
    BY <1>1, <1>3, <1>4
  <2> QED
    BY <2>1, UpdateKept
<1> HIDE DEF t
<1>7. Kept(t, stack, n)
  BY <1>3, <1>6 DEF Kept
<1> QED
  BY <1>1, <1>5, <1>6, <1>7 DEF n

(* It leaves state v. *)
LEMMA ReturnFits ==
  ASSUME IInv, TInv, stack # <<>>, Top.kind \in {"scope", "call"}, NEW a,
         NEW v, Conserved(v), Within(v, stack[1].before)
  PROVE  Fits(ReturnToParent(a), v, blockNumber)
<1> DEFINE n == Len(stack) - 1
           t == ReturnToParent(a)
<1>1. stack \in Seq(Frame) /\ n \in 0..Len(stack) /\ n > 0 /\ Kept(t, stack, n) /\ t # <<>>
  BY StackTypes, ReturnKept
<1>2. stack[1].kind # "batch"
  BY NotInBatch
<1> HIDE DEF n, t
<1>3. Fits(t, v, blockNumber)
  BY <1>1, <1>2, FitsKept DEF TInv
<1> QED
  BY <1>3 DEF t

LEMMA AnswerFits ==
  ASSUME IInv, TInv, stack # <<>>, Top.kind \in {"scope", "call"},
         NEW w \in World, Conserved(w), Within(w, stack[1].before), NEW a, Answer(w, a)
  PROVE  Fits(stack', evm', blockNumber)
<1>1. CASE /\ Executable(w, a) /\ evm' = Execute(w, a)
           /\ stack' = ReturnToParent(NextAction(w, a))
  <2>1. Conserved(Execute(w, a)) /\ Within(Execute(w, a), w) /\ NextAction(w, a) \in Action
    BY <1>1, ExecuteConserved, ExecuteType
  <2>2. Within(Execute(w, a), stack[1].before)
    BY <2>1, WithinTransitive
  <2> QED
    BY <1>1, <2>1, <2>2, ReturnFits
<1>2. CASE Abort
  BY <1>2, AbortFits
<1> QED
  BY <1>1, <1>2 DEF Answer

-----------------------------------------------------------------------------
(* Functions that finish without calling out, and postBatch. *)

LEMMA ManageFits ==
  ASSUME IInv, TInv, Manage
  PROVE  Fits(stack', evm', blockNumber)
<1>1. stack \in Seq(Frame) /\ evm \in World
  BY StackTypes
<1>2. stack' = stack /\ SameTable(evm', evm) /\ evm'.held = evm.held
  BY <1>1 DEF Manage, CreateRollup, CreateCrossChainProxy, SetStateByOwner,
              SetVerificationKey, TransferRollupOwnership, World, SameTable
<1> QED
  BY <1>1, <1>2, FitsSame DEF TInv

LEMMA PostBatchFits ==
  ASSUME IInv, TInv, PostBatch
  PROVE  Fits(stack', evm', blockNumber)
<1> DEFINE f == BatchFrame(proof.entries)
<1>1. /\ Outside /\ evm.lastStateUpdateBlock # blockNumber
      /\ evm' = [evm EXCEPT !.executions = <<>>, !.loaded = <<>>, !.consumed = <<>>]
      /\ stack' = Append(stack, f)
  BY DEF PostBatch, Push
<1>2. stack = <<>>
  BY <1>1, NotInBatch DEF Outside, Running
<1>3. /\ evm'.executions = <<>> /\ evm'.loaded = <<>> /\ evm'.consumed = <<>>
      /\ evm'.held = evm.held /\ evm \in World /\ Conserved(evm)
  <2>1. stack \in Seq(Frame) /\ evm \in World
    BY StackTypes
  <2> QED
    BY <1>1, <2>1, FitsNow DEF World, TInv
<1>4. f.kind = "batch" /\ f.before = evm
  BY DEF BatchFrame
<1> HIDE DEF f
<1>5. Len(stack') = 1 /\ stack'[1] = f
  BY <1>1, <1>2
<1> DEFINE t == stack'
           v == evm'
<1>6. Conserved(v)
  <2>1. \A e : Count(<<>>, e) = 0
    BY CountPlaces, PlacesEmpty
  <2> QED
    BY <1>3, <2>1 DEF Conserved
<1> HIDE DEF t, v
<1>7. Placed(t, 1)
  BY <1>4, <1>5 DEF Placed, t
<1>8. \A i \in 1..2 : Conserved(At(t, v, i))
  BY <1>3, <1>4, <1>5, <1>6 DEF At, t
<1>9. Posting(t, v, blockNumber)
  BY <1>1, <1>3, <1>4, <1>5 DEF Posting, t, v
<1>10. Fits(t, v, blockNumber)
  BY <1>4, <1>5, <1>7, <1>8, <1>9 DEF Fits, t
<1> QED
  BY <1>10 DEF t, v

LEMMA BatchFits ==
  ASSUME IInv, TInv, Batch
  PROVE  Fits(stack', evm', blockNumber)
<1> DEFINE n == Len(stack)
<1>1. /\ stack \in Seq(Frame) /\ evm \in World /\ n \in Nat /\ Conserved(evm)
  BY StackTypes, FitsNow DEF TInv
<1>2. ASSUME Running("batch")
      PROVE  /\ n = 1 /\ stack # <<>> /\ stack[1].kind = "batch"
             /\ Top \in Frame /\ Top = stack[n]
  <2>1. stack # <<>> /\ Top.kind = "batch"
    BY <1>2 DEF Running
  <2>2. n > 0 /\ Top \in Frame /\ Top = stack[n]
    BY <2>1, StackTypes
  <2>3. n = 1
    BY <1>1, <2>1, <2>2 DEF TInv, Fits
  <2> QED
    BY <2>1, <2>2, <2>3
<1>3. ASSUME Running("batch"), stack' = NextTodo, Conserved(evm'), evm'.held = evm.held
      PROVE  Fits(stack', evm', blockNumber)
  <2> DEFINE f == [stack[n] EXCEPT !.todo = Tail(@)]
             t == [stack EXCEPT ![n] = f]
             v == evm'
  <2>1. f.kind = stack[n].kind /\ f.scope = stack[n].scope /\ f.before = stack[n].before
    BY <1>2, <1>3 DEF Frame
  <2>2. stack' = t
    BY <1>3 DEF NextTodo
  <2> HIDE DEF f, v, n
  <2>5. n \in 1..n /\ n \in 0..n /\ n > 0 /\ stack[n].kind = "batch" /\ stack[1].kind = "batch"
    BY <1>2, <1>3
  <2>6. v.held = evm.held /\ Conserved(v) /\ n = Len(stack)
    BY <1>3 DEF v, n
  <2>3. Kept(t, stack, n) /\ t # <<>>
    BY <1>1, <2>1, <2>5, <2>6, UpdateKept
  <2> HIDE DEF t
  <2>4. Fits(t, v, blockNumber)
    BY <1>1, <2>3, <2>5, <2>6, FitsKept DEF TInv
  <2> QED
    BY <2>2, <2>4 DEF v
<1>4. CASE ProcessImmediate
  <2>1. evm' = ApplyStateDeltas(evm, Head(Remaining).stateDeltas)
        /\ Running("batch") /\ stack' = NextTodo
    BY <1>4 DEF ProcessImmediate
  <2>2. SameTable(evm', evm) /\ evm'.held = evm.held
    BY <1>1, <2>1 DEF ApplyStateDeltas, World, SameTable
  <2>3. Conserved(evm')
    BY <1>1, <2>2 DEF SameTable, Conserved
  <2> QED
    BY <1>3, <2>1, <2>2, <2>3
<1>5. CASE ProcessDeferred
  <2> DEFINE e == Head(Remaining)
             v == evm'
  <2>1. /\ Running("batch") /\ Remaining # <<>> /\ stack' = NextTodo
        /\ v = [evm EXCEPT !.executions = Append(evm.executions, e),
                           !.loaded = Append(evm.loaded, e)]
    BY <1>5 DEF ProcessDeferred
  <2>2. e \in ExecutionEntry
    <3>1. Remaining \in Seq(ExecutionEntry)
      BY <1>2, <2>1 DEF Remaining, Frame
    <3> QED
      BY <2>1, <3>1
  <2>3. /\ evm.executions \in Seq(ExecutionEntry) /\ evm.loaded \in Seq(ExecutionEntry)
        /\ evm.consumed \in Seq(ExecutionEntry)
    BY <1>1 DEF World
  <2> HIDE DEF e, v
  <2>4. /\ v.executions = Append(evm.executions, e) /\ v.loaded = Append(evm.loaded, e)
        /\ v.consumed = evm.consumed /\ v.held = evm.held
    BY <1>1, <2>1 DEF World
  <2>5. Conserved(v)
    <3> SUFFICES ASSUME NEW x \in ExecutionEntry
                 PROVE  Count(v.executions, x) + Count(v.consumed, x) = Count(v.loaded, x)
      BY DEF Conserved
    <3>1. /\ Count(v.executions, x) = Count(evm.executions, x) + (IF e = x THEN 1 ELSE 0)
          /\ Count(v.loaded, x) = Count(evm.loaded, x) + (IF e = x THEN 1 ELSE 0)
      BY <2>2, <2>3, <2>4, CountAppend
    <3>2. /\ Count(evm.executions, x) \in Nat /\ Count(evm.consumed, x) \in Nat
          /\ Count(evm.loaded, x) \in Nat
          /\ Count(evm.executions, x) + Count(evm.consumed, x) = Count(evm.loaded, x)
      BY <1>1, <2>3, CountType DEF Conserved
    <3> QED
      BY <2>4, <3>1, <3>2
  <2> QED
    BY <1>3, <2>1, <2>4, <2>5 DEF v
<1>6. CASE FinishBatch
  <2>1. Running("batch") /\ evm' = [evm EXCEPT !.lastStateUpdateBlock = blockNumber]
        /\ stack' = Pop
    BY <1>6 DEF FinishBatch
  <2> DEFINE v == evm'
  <2>2. Conserved(v)
    BY <1>1, <2>1 DEF World, Conserved
  <2>6. n - 1 = 0 /\ 0 \in 0..n
    <3> HIDE DEF n
    <3> QED
      BY <1>2, <2>1
  <2>3. Pop = SubSeq(stack, 1, 0) /\ 0 \in 0..Len(stack)
    BY <2>6 DEF Pop
  <2>4. Kept(Pop, stack, 0) /\ Pop = <<>>
    BY <1>1, <2>3, PrefixKept
  <2> HIDE DEF v, n
  <2>5. Fits(Pop, v, blockNumber)
    <3> DEFINE m == 0
    <3>1. m \in 0..Len(stack) /\ ~(m > 0) /\ (Pop = <<>> <=> m = 0) /\ Kept(Pop, stack, m)
      BY <2>3, <2>4
    <3> HIDE DEF m
    <3> QED
      BY <1>1, <2>2, <3>1, FitsKept DEF TInv
  <2> QED
    BY <2>1, <2>5 DEF v
<1>7. CASE BatchReverts
  BY <1>7, AbortFits DEF BatchReverts, Running
<1> QED
  BY <1>4, <1>5, <1>6, <1>7, PostBatchFits DEF Batch

-----------------------------------------------------------------------------
(* executeCrossChainCall, executeL2TX and the navigation. *)

LEMMA PushFits ==
  ASSUME IInv, TInv, stack # <<>>, Top.kind # "batch",
         NEW f \in Frame, f.kind # "batch", Placed(Append(stack, f), Len(stack) + 1),
         SameTable(f.before, evm), NEW v, SameTable(v, evm)
  PROVE  Fits(Append(stack, f), v, blockNumber)
<1>1. stack \in Seq(Frame) /\ Conserved(evm) /\ stack[1].kind = "entry"
  BY StackTypes, NotInBatch, FitsNow DEF TInv
<1>2. Conserved(f.before) /\ Within(f.before, evm) /\ Conserved(v) /\ SameTable(v, f.before)
  BY <1>1, SameConserved DEF SameTable
<1>3. Within(v, f.before)
  BY <1>2, SameConserved
<1> QED
  BY <1>1, <1>2, <1>3, FitsPush DEF TInv

LEMMA EnterFits ==
  ASSUME IInv, TInv, Outside, InCurrentBlock, NEW w \in World, SameTable(w, evm),
         NEW a, Enter(w, a)
  PROVE  Fits(stack', evm', blockNumber)
<1> DEFINE b == NextAction(w, a)
           v == Execute(w, a)
           f == EntryFrame(b)
           g == ScopeFrame(<<>>, b, v)
           t == Append(stack, f)
           n == Len(stack)
<1>1. Executable(w, a) /\ evm' = v /\ stack' = t \o RootScope(b, v)
  BY DEF Enter, Push
<1>2. /\ stack \in Seq(Frame) /\ n \in Nat /\ evm \in World /\ Conserved(evm)
      /\ evm.lastStateUpdateBlock = blockNumber
      /\ IF stack = <<>> THEN TRUE ELSE stack[1].kind # "batch"
  BY StackTypes, FitsNow, NotInBatch DEF TInv, Outside, Running, InCurrentBlock
<1>3. Conserved(w) /\ Within(w, evm)
  BY <1>2, SameConserved
<1>4. b \in Action /\ v \in World /\ Conserved(v) /\ Within(v, w)
  BY <1>1, <1>3, ExecuteType, ExecuteConserved
<1>5. Within(v, evm) /\ Within(evm, evm) /\ Within(v, v)
  BY <1>3, <1>4, WithinTransitive DEF Within
<1> HIDE DEF b, v
<1>6. << >> \in Seq(ExecutionEntry) /\ << >> \in Scope
  BY EmptySeq DEF Scope
<1>7. f \in Frame /\ f.kind = "entry" /\ f.before = evm
  BY <1>2, <1>4, <1>6 DEF EntryFrame, Frame, FrameKind
<1>8. g \in Frame /\ g.kind = "scope" /\ g.before = v /\ g.scope = <<>>
  BY <1>4, <1>6 DEF ScopeFrame, Frame, FrameKind
<1> HIDE DEF f, g, n
<1>9. /\ t \in Seq(Frame) /\ t # << >> /\ Len(t) = n + 1 /\ t[n + 1] = f
      /\ t[1] = IF stack = <<>> THEN f ELSE stack[1]
  BY <1>2, <1>7, AppendProperties, EmptySeq DEF n
<1>10. Placed(t, n + 1)
  BY <1>7, <1>9 DEF Placed
<1>11. Fits(t, v, blockNumber)
  <2>1. IF stack = <<>> THEN f.before.lastStateUpdateBlock = blockNumber
                        ELSE stack[1].kind # "batch"
    BY <1>2, <1>7
  <2>2. Placed(Append(stack, f), Len(stack) + 1)
    BY <1>10 DEF n
  <2>3. Conserved(f.before) /\ Within(f.before, evm) /\ Within(v, f.before) /\ f.kind # "batch"
    BY <1>2, <1>5, <1>7
  <2> QED
    BY <1>2, <1>4, <1>7, <2>1, <2>2, <2>3, FitsPush DEF TInv
<1> HIDE DEF t
<1>12. Placed(Append(t, g), Len(t) + 1)
  <2>1. Append(t, g)[n + 2] = g /\ Append(t, g)[n + 1] = f /\ Len(t) + 1 = n + 2
    BY <1>2, <1>8, <1>9, AppendProperties DEF n
  <2>2. n + 2 > 1 /\ (n + 2) - 1 = n + 1
    BY <1>2 DEF n
  <2> QED
    BY <1>7, <1>8, <2>1, <2>2 DEF Placed
<1>13. Fits(Append(t, g), v, blockNumber)
  <2>1. t[1].kind # "batch"
    BY <1>2, <1>7, <1>9
  <2> QED
    BY <1>4, <1>5, <1>8, <1>9, <1>11, <1>12, <2>1, FitsPush
<1>14. stack' = t \/ stack' = Append(t, g)
  <2>1. CASE b.actionType = "CALL"
    BY <1>1, <1>8, <1>9, <2>1, AppendIsConcat DEF RootScope, g, t
  <2>2. CASE b.actionType # "CALL"
    BY <1>1, <1>9, <2>2, ConcatEmptySeq DEF RootScope, t
  <2> QED
    BY <2>1, <2>2
<1> QED
  BY <1>1, <1>11, <1>13, <1>14

LEMMA BeginFits ==
  ASSUME IInv, TInv, Begin
  PROVE  Fits(stack', evm', blockNumber)
<1>1. evm \in World /\ evm.held \in Nat /\ evm.etherDelta \in Int
  BY StackTypes DEF World
<1>2. ASSUME NEW p, NEW sender, NEW value \in CallValues, NEW data,
             ExecuteCrossChainCall(p, sender, value, data)
      PROVE  Fits(stack', evm', blockNumber)
  <2> DEFINE h == evm.held + value
             d == evm.etherDelta + value
             w == [evm EXCEPT !.held = h, !.etherDelta = d]
             a == CallAction(p[2], p[1], value, data, sender, MAINNET_ROLLUP_ID, <<>>)
  <2>1. h \in Nat /\ d \in Int
    BY <1>1, RollupsConstants
  <2>2. Outside /\ InCurrentBlock /\ Enter(w, a)
    BY <1>2 DEF ExecuteCrossChainCall
  <2> HIDE DEF h, d, a
  <2>3. w \in World
    BY <1>1, <2>1, FlowType
  <2>4. SameTable(w, evm)
    BY <1>1 DEF World, SameTable
  <2> HIDE DEF w
  <2> QED
    BY <2>2, <2>3, <2>4, EnterFits
<1>3. ASSUME NEW r, NEW tx, ExecuteL2TX(r, tx)
      PROVE  Fits(stack', evm', blockNumber)
  <2>1. Outside /\ InCurrentBlock /\ Enter(evm, L2TxAction(r, tx))
    BY <1>3 DEF ExecuteL2TX
  <2>2. SameTable(evm, evm)
    BY DEF SameTable
  <2> QED
    BY <1>1, <2>1, <2>2, EnterFits
<1> QED
  BY <1>2, <1>3 DEF Begin

LEMMA EnterChildScopeFits ==
  ASSUME IInv, TInv, EnterChildScope
  PROVE  Fits(stack', evm', blockNumber)
<1> DEFINE a == Top.action
           c == NextScope(Top.scope, a.scope)
           f == ScopeFrame(c, a, evm)
           n == Len(stack)
<1>1. /\ stack # <<>> /\ Top.kind = "scope" /\ AboveTarget
      /\ evm' = evm /\ stack' = Append(stack, f)
  BY DEF EnterChildScope, InScope, Running, Push
<1>2. /\ stack \in Seq(Frame) /\ n \in Nat /\ n > 0 /\ Top \in Frame /\ Top = stack[n]
      /\ evm \in World
  BY <1>1, StackTypes
<1>3. a \in Action /\ Top.scope \in Seq(Nat) /\ a.scope \in Seq(Nat)
  BY <1>2 DEF Frame, Action, Scope
<1>4. Len(Top.scope) + 1 \in 1..Len(a.scope)
  BY <1>1, <1>3 DEF AboveTarget, IsChildScope
<1>5. c = Append(Top.scope, a.scope[Len(Top.scope) + 1]) /\ a.scope[Len(Top.scope) + 1] \in Nat
  BY <1>3, <1>4, ElementOfSeq DEF NextScope, AppendToScope
<1>6. c \in Scope /\ << >> \in Seq(ExecutionEntry)
  BY <1>3, <1>5, AppendProperties, EmptySeq DEF Scope
<1> HIDE DEF a, c
<1>7. f \in Frame /\ f.kind = "scope" /\ f.before = evm /\ f.scope = c
  BY <1>2, <1>3, <1>6 DEF ScopeFrame, Frame, FrameKind
<1> HIDE DEF f, n
<1>8. Append(stack, f)[n + 1] = f /\ Append(stack, f)[n] = stack[n]
  BY <1>2, <1>7, AppendProperties DEF n
<1>9. Placed(Append(stack, f), n + 1)
  <2> DEFINE t == Append(stack, f)
  <2>1. t[n + 1] = f /\ t[n] = Top /\ (n + 1) - 1 = n /\ n + 1 > 1
    BY <1>2, <1>8
  <2> HIDE DEF t
  <2>2. Placed(t, n + 1)
    BY <1>1, <1>3, <1>5, <1>7, <2>1 DEF Placed
  <2> QED
    BY <2>2 DEF t
<1>10. SameTable(f.before, evm) /\ SameTable(evm, evm)
  BY <1>7 DEF SameTable
<1>11. Fits(Append(stack, f), evm, blockNumber)
  BY <1>1, <1>7, <1>9, <1>10, PushFits DEF n
<1> QED
  BY <1>1, <1>11

LEMMA WithSourceProxySame ==
  ASSUME evm \in World, NEW a \in Action
  PROVE  WithSourceProxy(a) \in World /\ SameTable(WithSourceProxy(a), evm)
<1> DEFINE ps == evm.authorizedProxies \cup {SourceProxy(a)}
           w == [evm EXCEPT !.authorizedProxies = ps]
<1>1. ps \in SUBSET Proxy
  BY DEF SourceProxy, Action, Proxy, World
<1> HIDE DEF ps
<1>2. w \in World /\ SameTable(w, evm)
  BY <1>1 DEF World, SameTable
<1> QED
  BY <1>2 DEF WithSourceProxy, ps

LEMMA MakeCallFits ==
  ASSUME IInv, TInv, MakeCall
  PROVE  Fits(stack', evm', blockNumber)
<1> DEFINE a == Top.action
           w == WithSourceProxy(a)
           f == CallFrame(a, w)
           n == Len(stack)
           v == evm'
<1>1. /\ stack # <<>> /\ Top.kind = "scope" /\ Top.scope = a.scope
      /\ v = [w EXCEPT !.held = w.held - a.value] /\ stack' = Append(stack, f)
  BY DEF MakeCall, CanCall, InScope, Running, AtTarget, ScopesMatch, Push
<1>2. /\ stack \in Seq(Frame) /\ n \in Nat /\ n > 0 /\ Top \in Frame /\ Top = stack[n]
      /\ evm \in World
  BY <1>1, StackTypes
<1>3. a \in Action /\ << >> \in Seq(ExecutionEntry) /\ << >> \in Scope
  BY <1>2, EmptySeq DEF Frame, Scope
<1>4. w \in World /\ SameTable(w, evm)
  BY <1>2, <1>3, WithSourceProxySame
<1> HIDE DEF w, v
<1>5. SameTable(v, evm)
  BY <1>1, <1>4 DEF World, SameTable
<1>6. f \in Frame /\ f.kind = "call" /\ f.before = w /\ f.action = a
  BY <1>3, <1>4 DEF CallFrame, Frame, FrameKind
<1> HIDE DEF f, n, a
<1>7. Append(stack, f)[n + 1] = f /\ Append(stack, f)[n] = stack[n]
  BY <1>2, <1>6, AppendProperties DEF n
<1>8. Placed(Append(stack, f), n + 1)
  <2> DEFINE t == Append(stack, f)
  <2>1. t[n + 1] = f /\ t[n] = Top /\ (n + 1) - 1 = n /\ n + 1 > 1
    BY <1>2, <1>7
  <2> HIDE DEF t
  <2>2. Placed(t, n + 1)
    BY <1>1, <1>6, <2>1 DEF Placed
  <2> QED
    BY <2>2 DEF t
<1>9. Fits(Append(stack, f), v, blockNumber)
  BY <1>1, <1>4, <1>5, <1>6, <1>8, PushFits DEF n
<1> QED
  BY <1>1, <1>9 DEF v

LEMMA CallUnfundedFits ==
  ASSUME IInv, TInv, CallUnfunded
  PROVE  Fits(stack', evm', blockNumber)
<1> DEFINE w == WithSourceProxy(Top.action)
           a == ResultAction(Top.action.rollupId, EmptyData, TRUE)
           n == Len(stack)
<1>1. stack # <<>> /\ Top.kind = "scope" /\ AnswerInPlace(w, a)
  BY DEF CallUnfunded, CanCall, InScope, Running
<1>2. /\ stack \in Seq(Frame) /\ n \in Nat /\ n > 0 /\ Top \in Frame /\ Top = stack[n]
      /\ evm \in World /\ stack[1].kind = "entry" /\ Conserved(evm)
      /\ Within(evm, stack[1].before)
  BY <1>1, StackTypes, NotInBatch, FitsNow DEF TInv
<1>3. w \in World /\ SameTable(w, evm)
  BY <1>2, WithSourceProxySame DEF Frame
<1> HIDE DEF w, a
<1>4. CASE /\ Executable(w, a) /\ evm' = Execute(w, a)
           /\ stack' = [stack EXCEPT ![n].action = NextAction(w, a)]
  <2> DEFINE v == Execute(w, a)
             f == [stack[n] EXCEPT !.action = NextAction(w, a)]
             t == [stack EXCEPT ![n] = f]
  <2>1. Conserved(w) /\ Within(w, evm)
    BY <1>2, <1>3, SameConserved
  <2>2. Conserved(v) /\ Within(v, w)
    BY <1>3, <1>4, <2>1, ExecuteConserved
  <2>3. Within(v, stack[1].before)
    BY <1>2, <2>1, <2>2, WithinTransitive
  <2>4. f.kind = stack[n].kind /\ f.scope = stack[n].scope /\ f.before = stack[n].before
    BY <1>2 DEF Frame
  <2>5. stack' = t /\ evm' = v
    BY <1>4
  <2> HIDE DEF f, n, v
  <2>6. n \in 1..n /\ n \in 0..n /\ stack[n].kind # "call" /\ n = Len(stack)
    BY <1>1, <1>2 DEF n
  <2>7. Kept(t, stack, n) /\ t # <<>>
    BY <1>2, <2>4, <2>6, UpdateKept
  <2> HIDE DEF t
  <2>8. Fits(t, v, blockNumber)
    BY <1>2, <2>2, <2>3, <2>6, <2>7, FitsKept DEF TInv
  <2> QED
    BY <2>5, <2>8
<1> QED
  BY <1>1, <1>4, AbortFits DEF AnswerInPlace

LEMMA RevertScopeFits ==
  ASSUME IInv, TInv, RevertScope
  PROVE  Fits(stack', evm', blockNumber)
<1> DEFINE v == evm'
<1>1. /\ stack # <<>> /\ Top.kind = "scope" /\ Executable(evm, Resume)
      /\ v = [Top.before EXCEPT !.rollups[Top.action.rollupId].stateRoot = RootAtRevert]
      /\ stack' = ReturnToParent(NextAction(evm, Resume))
  BY DEF RevertScope, InScope, Running
<1>2. /\ evm \in World /\ Top.before \in World /\ Conserved(Top.before)
      /\ Within(Top.before, stack[1].before)
  BY <1>1, StackTypes, NotInBatch, FitsNow DEF TInv
<1>3. NextAction(evm, Resume) \in Action
  BY <1>1, <1>2, ExecuteType
<1>4. SameTable(v, Top.before)
  BY <1>1, <1>2 DEF World, SameTable
<1> HIDE DEF v
<1>5. Conserved(v) /\ Within(v, stack[1].before)
  BY <1>2, <1>4, SameConserved, WithinTransitive
<1>6. Fits(ReturnToParent(NextAction(evm, Resume)), v, blockNumber)
  BY <1>1, <1>3, <1>5, ReturnFits
<1> QED
  BY <1>1, <1>6 DEF v

LEMMA NavigateFits ==
  ASSUME IInv, TInv, Navigate
  PROVE  Fits(stack', evm', blockNumber)
<1>1. CASE ReturnResult
  <2> DEFINE m == Len(stack) - 1
  <2>1. stack # <<>> /\ Top.kind = "entry" /\ evm' = evm /\ stack' = Pop
    BY <1>1 DEF ReturnResult, Running
  <2>2. /\ stack \in Seq(Frame) /\ m \in 0..Len(stack) /\ Conserved(evm)
        /\ stack[1].kind = "entry" /\ Within(evm, stack[1].before)
    BY <2>1, StackTypes, NotInBatch, FitsNow DEF TInv
  <2>3. Pop = SubSeq(stack, 1, m)
    BY DEF Pop
  <2> HIDE DEF m
  <2>4. Kept(Pop, stack, m) /\ (Pop = <<>> <=> m = 0)
    BY <2>2, <2>3, PrefixKept
  <2>5. Fits(Pop, evm, blockNumber)
    BY <2>2, <2>4, FitsKept DEF TInv
  <2> QED
    BY <2>1, <2>5
<1>2. CASE LeaveScope
  <2>1. stack # <<>> /\ Top.kind = "scope" /\ evm' = evm /\ stack' = ReturnToParent(Top.action)
    BY <1>2 DEF LeaveScope, Running
  <2>2. Top.action \in Action /\ Conserved(evm) /\ Within(evm, stack[1].before)
    BY <2>1, StackTypes, NotInBatch, FitsNow DEF TInv, Frame
  <2>3. Fits(ReturnToParent(Top.action), evm, blockNumber)
    BY <2>1, <2>2, ReturnFits
  <2> QED
    BY <2>1, <2>3
<1>3. CASE CallExecutionFailed \/ NoContinuation \/ ProxyCollision
  BY <1>3, AbortFits DEF CallExecutionFailed, NoContinuation, ProxyCollision, InScope, Running
<1> QED
  BY <1>1, <1>2, <1>3, EnterChildScopeFits, RevertScopeFits, MakeCallFits, CallUnfundedFits
     DEF Navigate

LEMMA CalleeFits ==
  ASSUME IInv, TInv, Callee
  PROVE  Fits(stack', evm', blockNumber)
<1>1. stack # <<>> /\ Top.kind = "call"
  BY DEF Callee, CallReturns, CallReverts, Running
<1>2. /\ evm \in World /\ Top \in Frame /\ Top.before \in World
      /\ Conserved(evm) /\ Within(evm, stack[1].before)
      /\ Conserved(Top.before) /\ Within(Top.before, stack[1].before)
  BY <1>1, StackTypes, NotInBatch, FitsNow DEF TInv
<1>3. ASSUME NEW data, CallReturns(data) PROVE Fits(stack', evm', blockNumber)
  <2> DEFINE d == evm.etherDelta - Top.action.value
             w == [evm EXCEPT !.etherDelta = d]
  <2>1. d \in Int
    BY <1>2 DEF World, Frame, Action
  <2>2. Answer(w, ResultAction(Top.action.rollupId, data, FALSE))
    BY <1>3 DEF CallReturns
  <2> HIDE DEF d
  <2>3. w \in World /\ SameTable(w, evm)
    BY <1>2, <2>1, WorldEtherDelta DEF World, SameTable
  <2> HIDE DEF w
  <2>4. Conserved(w) /\ Within(w, stack[1].before)
    BY <1>2, <2>3, SameConserved, WithinTransitive
  <2> QED
    BY <1>1, <2>2, <2>3, <2>4, AnswerFits
<1>4. ASSUME NEW data, CallReverts(data) PROVE Fits(stack', evm', blockNumber)
  BY <1>1, <1>2, <1>4, AnswerFits DEF CallReverts
<1> QED
  BY <1>3, <1>4 DEF Callee

-----------------------------------------------------------------------------
(* The invariant holds initially and is preserved. *)

LEMMA InitFits == Init => TInv
<1> SUFFICES ASSUME Init PROVE TInv
  OBVIOUS
<1>1. stack = <<>> /\ Len(stack) = 0
  BY DEF Init
<1>2. /\ evm.executions = <<>> /\ evm.consumed = <<>> /\ evm.loaded = <<>>
  BY DEF Init
<1>3. \A e : Count(<<>>, e) = 0
  BY CountPlaces, PlacesEmpty
<1>4. Conserved(evm)
  BY <1>2, <1>3 DEF Conserved
<1>5. \A i \in 1..(Len(stack) + 1) : At(stack, evm, i) = evm
  BY <1>1 DEF At
<1> QED
  BY <1>1, <1>4, <1>5 DEF TInv, Fits

LEMMA TInductive == IInv /\ TInv /\ [Next]_vars => TInv'
<1> SUFFICES ASSUME IInv, TInv, [Next]_vars PROVE TInv'
  OBVIOUS
<1>1. ASSUME Fits(stack', evm', blockNumber') PROVE TInv'
  BY <1>1 DEF TInv, Fits, Placed, Conserved, At, Posting, Using, Within
<1>2. CASE Manage
  <2>1. blockNumber' = blockNumber
    BY <1>2 DEF Manage, CreateRollup, CreateCrossChainProxy, SetStateByOwner,
                SetVerificationKey, TransferRollupOwnership
  <2> QED
    BY <1>1, <1>2, <2>1, ManageFits
<1>3. CASE Batch
  <2>1. blockNumber' = blockNumber
    BY <1>3 DEF Batch, PostBatch, ProcessImmediate, ProcessDeferred, FinishBatch,
                BatchReverts, Abort
  <2> QED
    BY <1>1, <1>3, <2>1, BatchFits
<1>4. CASE Begin
  <2>1. blockNumber' = blockNumber
    BY <1>4, BeginInBlock
  <2> QED
    BY <1>1, <1>4, <2>1, BeginFits
<1>5. CASE Navigate
  <2>1. blockNumber' = blockNumber
    BY <1>5 DEF Navigate, ReturnResult, CallExecutionFailed, EnterChildScope, LeaveScope,
                RevertScope, NoContinuation, ProxyCollision, MakeCall, CallUnfunded,
                AnswerInPlace, Abort
  <2> QED
    BY <1>1, <1>5, <2>1, NavigateFits
<1>6. CASE Callee
  <2>1. blockNumber' = blockNumber
    BY <1>6 DEF Callee, CallReturns, CallReverts, Answer, Abort
  <2> QED
    BY <1>1, <1>6, <2>1, CalleeFits
<1>7. CASE OutOfGas
  <2>1. Abort /\ stack # <<>> /\ blockNumber' = blockNumber
    BY <1>7 DEF OutOfGas, Abort
  <2> QED
    BY <1>1, <2>1, AbortFits
<1>8. CASE NewBlock
  <2>1. stack = <<>> /\ stack' = stack /\ evm' = evm
    BY <1>8 DEF NewBlock
  <2>2. Fits(stack, evm, blockNumber')
    BY <2>1 DEF TInv, Fits
  <2> QED
    BY <1>1, <2>1, <2>2
<1>9. CASE \/ \E entries \in Batches, b \in {blockNumber, blockNumber + 1} : Prove(entries, b)
           \/ UNCHANGED vars
  <2>1. stack' = stack /\ evm' = evm /\ blockNumber' = blockNumber
    BY <1>9 DEF Prove, vars
  <2> QED
    BY <1>1, <2>1 DEF TInv
<1> QED
  BY <1>2, <1>3, <1>4, <1>5, <1>6, <1>7, <1>8, <1>9 DEF Next

LEMMA TableInvariant == Spec => [](IInv /\ TInv)
<1>1. Init => IInv /\ TInv
  BY InitGood, InitFits
<1>2. (IInv /\ TInv) /\ [Next]_vars => (IInv /\ TInv)'
  BY Inductive, TInductive
<1> QED
  BY <1>1, <1>2, PTL DEF Spec

-----------------------------------------------------------------------------
(* What the invariant says. *)

(* The swap-and-pop of _findAndApplyExecution, undone or not by a revert,  *)
(* loses no entry of the batch, invents none and gives none out twice.     *)
THEOREM EntriesUsedOnce == Spec => []ExactlyOnce
<1>1. IInv /\ TInv => ExactlyOnce
  <2> SUFFICES ASSUME IInv, TInv PROVE ExactlyOnce
    OBVIOUS
  <2>1. evm \in World /\ Conserved(evm)
    BY StackTypes, FitsNow DEF TInv
  <2>2. /\ evm.executions \in Seq(ExecutionEntry) /\ evm.consumed \in Seq(ExecutionEntry)
        /\ evm.loaded \in Seq(ExecutionEntry)
    BY <2>1 DEF World
  <2>3. ASSUME NEW q \in Seq(ExecutionEntry) PROVE Elements(q) \subseteq ExecutionEntry
    BY DEF Elements
  <2>4. ASSUME NEW e \in ExecutionEntry
        PROVE  /\ Count(evm.executions, e) + Count(evm.consumed, e) = Count(evm.loaded, e)
               /\ e \in Elements(evm.loaded)
                     <=> e \in Elements(evm.executions) \/ e \in Elements(evm.consumed)
    <3>1. /\ Count(evm.executions, e) \in Nat
          /\ e \in Elements(evm.executions) <=> Count(evm.executions, e) > 0
      BY <2>2, CountType
    <3>2. /\ Count(evm.consumed, e) \in Nat
          /\ e \in Elements(evm.consumed) <=> Count(evm.consumed, e) > 0
      BY <2>2, CountType
    <3>3. e \in Elements(evm.loaded) <=> Count(evm.loaded, e) > 0
      BY <2>2, CountType
    <3>4. Count(evm.executions, e) + Count(evm.consumed, e) = Count(evm.loaded, e)
      BY <2>1 DEF Conserved
    <3> QED
      BY <3>1, <3>2, <3>3, <3>4
  <2>5. /\ Elements(evm.executions) \subseteq ExecutionEntry
        /\ Elements(evm.consumed) \subseteq ExecutionEntry
        /\ Elements(evm.loaded) \subseteq ExecutionEntry
    BY <2>2, <2>3
  <2> HIDE DEF Elements, Count
  <2>6. Elements(evm.executions) \cup Elements(evm.consumed) = Elements(evm.loaded)
    BY <2>4, <2>5
  <2> QED
    BY <2>4, <2>5, <2>6 DEF ExactlyOnce
<1> QED
  BY <1>1, TableInvariant, PTL

(* No batch runs while an entry point does, however contracts re-enter,    *)
(* and the table it consumes is the one of this block it began with.       *)
THEOREM TableKept == Spec => []TableStable
<1>1. IInv /\ TInv => TableStable
  <2> SUFFICES ASSUME IInv, TInv, NEW i \in 1..Len(stack), stack[i].kind = "entry"
               PROVE  /\ evm.lastStateUpdateBlock = blockNumber
                      /\ stack[i].before.loaded = evm.loaded
                      /\ \A j \in 1..Len(stack) : stack[j].kind # "batch"
    BY DEF TableStable
  <2>1. stack \in Seq(Frame) /\ Len(stack) \in Nat /\ stack # <<>> /\ 1 \in 1..Len(stack)
    BY StackTypes
  <2>2. ASSUME NEW j \in 1..Len(stack), stack[j].kind = "batch" PROVE FALSE
    <3>1. Len(stack) = 1
      BY <2>2 DEF TInv, Fits
    <3> QED
      BY <2>1, <2>2, <3>1
  <2>3. Using(stack, evm, blockNumber)
    BY <2>1, <2>2 DEF TInv, Fits
  <2>4. /\ Within(At(stack, evm, i), stack[1].before)
        /\ Within(At(stack, evm, Len(stack) + 1), stack[1].before)
        /\ At(stack, evm, i) = stack[i].before /\ At(stack, evm, Len(stack) + 1) = evm
    BY <2>1, <2>3 DEF Using, At
  <2> QED
    BY <2>2, <2>3, <2>4 DEF Using, Within
<1> QED
  BY <1>1, TableInvariant, PTL

(* However frames are entered and left, a call is made in the frame of its *)
(* scope, below the frames of its enclosing scopes, each in its place.     *)
THEOREM CallsPlaced == Spec => []CallsInTheirScope
<1>1. IInv /\ TInv => CallsInTheirScope
  <2> SUFFICES ASSUME IInv, TInv PROVE CallsInTheirScope
    OBVIOUS
  <2>1. stack \in Seq(Frame) /\ Len(stack) \in Nat
    BY StackTypes
  <2>2. ASSUME NEW i \in 1..Len(stack)
        PROVE  Placed(stack, i) /\ stack[i].scope \in Seq(Nat) /\ stack[i].action.scope \in Seq(Nat)
    <3>1. stack[i] \in Frame
      BY <2>1, ElementOfSeq
    <3>2. stack[i].scope \in Seq(Nat) /\ stack[i].action.scope \in Seq(Nat)
      BY <3>1 DEF Frame, Action, Scope
    <3> QED
      BY <3>2 DEF TInv, Fits
  <2>3. Paths(stack)
    BY <2>1, <2>2 DEF Paths
  <2> QED
    BY <2>3, CallPath DEF CallsInTheirScope
<1> QED
  BY <1>1, TableInvariant, PTL

-----------------------------------------------------------------------------
(* The ledger of RollupsLedger: what a running transaction would be rolled   *)
(* back to changes only when the transaction ends, and then as the ledger's. *)

(* Steps the ledger does not see. *)

(* The committed state of frames t under state v is the current one. *)
Unseen(t, v) == At(t, v, 1) = At(stack, evm, 1)

(* Frames are popped but not all of them, or change what they do next. *)
LEMMA KeptUnseen ==
  ASSUME NEW m \in 1..Len(stack), NEW t, Kept(t, stack, m), NEW v, Len(stack) \in Nat
  PROVE  Unseen(t, v)
<1>1. Len(t) = m /\ t[1].before = stack[1].before /\ 1 <= m /\ 1 <= Len(stack)
  BY DEF Kept
<1> QED
  BY <1>1 DEF Unseen, At

(* A frame is pushed that, if it is the first, starts from this state. *)
LEMMA PushUnseen ==
  ASSUME stack \in Seq(Frame), NEW f \in Frame, stack = <<>> => f.before = evm, NEW v
  PROVE  Unseen(Append(stack, f), v)
<1> DEFINE t == Append(stack, f)
           n == Len(stack)
<1>1. n \in Nat /\ Len(t) = n + 1 /\ t[n + 1] = f /\ \A i \in 1..n : t[i] = stack[i]
  BY AppendProperties
<1>2. stack = <<>> <=> n = 0
  BY EmptySeq
<1> HIDE DEF t, n
<1>3. t[1].before = IF 1 <= n THEN stack[1].before ELSE evm
  BY <1>1, <1>2
<1>4. At(t, v, 1) = IF 1 <= n THEN stack[1].before ELSE evm
  BY <1>1, <1>3 DEF At
<1> QED
  BY <1>4 DEF Unseen, At, t, n

(* A revert of the whole transaction gives back what it started from. *)
LEMMA AbortUnseen ==
  ASSUME IInv, stack # <<>>, Abort
  PROVE  Unseen(stack', evm')
<1> DEFINE o == ThisEntry
           t == SubSeq(stack, 1, o - 1)
           v == stack[o].before
<1> HIDE DEF o
<1>1. /\ stack \in Seq(Frame) /\ Len(stack) \in Nat /\ o \in 1..Len(stack)
      /\ o - 1 \in 0..Len(stack)
  BY StackTypes DEF o
<1>2. Kept(t, stack, o - 1)
  BY <1>1, PrefixKept
<1> HIDE DEF t
<1>3. CASE o = 1
  <2>1. Len(t) = 0 /\ v = stack[1].before
    BY <1>1, <1>2, <1>3 DEF Kept
  <2> QED
    BY <1>1, <2>1 DEF Unseen, At, Abort, t, o
<1>4. CASE o > 1
  <2>1. o - 1 \in 1..Len(stack)
    BY <1>1, <1>4
  <2>2. Unseen(t, v)
    BY <1>1, <1>2, <2>1, KeptUnseen
  <2> QED
    BY <2>2 DEF Abort, t, o
<1> QED
  BY <1>1, <1>3, <1>4

LEMMA ReturnUnseen ==
  ASSUME IInv, stack # <<>>, Top.kind \in {"scope", "call"}, NEW a, NEW v
  PROVE  Unseen(ReturnToParent(a), v)
BY ReturnKept, KeptUnseen, StackTypes

(* The innermost frame changes what it does next. *)
LEMMA UpdateUnseen ==
  ASSUME IInv, stack # <<>>, NEW f, f.kind = Top.kind, f.scope = Top.scope,
         f.before = Top.before, Top.kind = "call" => f.action = Top.action, NEW v
  PROVE  Unseen([stack EXCEPT ![Len(stack)] = f], v)
<1> DEFINE n == Len(stack)
<1>1. stack \in Seq(Frame) /\ n \in Nat /\ n \in 1..n /\ Top = stack[n] /\ n = Len(stack)
  BY StackTypes
<1> HIDE DEF n
<1>2. Kept([stack EXCEPT ![n] = f], stack, n)
  BY <1>1, UpdateKept
<1> QED
  BY <1>1, <1>2, KeptUnseen

LEMMA AnswerUnseen ==
  ASSUME IInv, stack # <<>>, Top.kind \in {"scope", "call"}, NEW w, NEW a, Answer(w, a)
  PROVE  Unseen(stack', evm')
BY AbortUnseen, ReturnUnseen DEF Answer

LEMMA BatchUnseen ==
  ASSUME IInv, Batch
  PROVE  Unseen(stack', evm') \/ FinishBatch
<1>1. stack \in Seq(Frame) /\ evm \in World /\ (stack # <<>> => Top \in Frame)
  BY StackTypes
<1>2. CASE PostBatch
  <2> DEFINE f == BatchFrame(proof.entries)
  <2>1. f.before = evm /\ stack' = Append(stack, f)
    BY <1>2 DEF PostBatch, Push, BatchFrame
  <2>2. f \in Frame
    <3>1. proof.entries \in Seq(ExecutionEntry) /\ NoAction \in Action /\ << >> \in Scope
      BY ActionTypes, EmptySeq DEF IInv, ProofType, Scope
    <3> QED
      BY <1>1, <3>1 DEF BatchFrame, Frame, FrameKind
  <2> HIDE DEF f
  <2> QED
    BY <1>1, <2>1, <2>2, PushUnseen
<1>3. CASE ProcessImmediate \/ ProcessDeferred
  <2> DEFINE f == [stack[Len(stack)] EXCEPT !.todo = Tail(@)]
  <2>1. stack # <<>> /\ stack' = [stack EXCEPT ![Len(stack)] = f]
    BY <1>3 DEF ProcessImmediate, ProcessDeferred, NextTodo, Running
  <2>2. /\ f.kind = Top.kind /\ f.scope = Top.scope /\ f.before = Top.before
        /\ f.action = Top.action
    BY <1>1, <2>1 DEF Frame, Top
  <2> HIDE DEF f
  <2> QED
    BY <2>1, <2>2, UpdateUnseen
<1>4. CASE BatchReverts
  BY <1>4, AbortUnseen DEF BatchReverts, Running
<1> QED
  BY <1>2, <1>3, <1>4 DEF Batch

LEMMA EnterUnseen ==
  ASSUME IInv, NEW w \in World, NEW a, Enter(w, a)
  PROVE  Unseen(stack', evm')
<1> DEFINE b == NextAction(w, a)
           v == Execute(w, a)
           f == EntryFrame(b)
           t == Append(stack, f)
           r == RootScope(b, v)
<1>1. Executable(w, a) /\ stack' = t \o r /\ stack \in Seq(Frame) /\ evm \in World
  BY StackTypes DEF Enter, Push
<1>2. b \in Action /\ v \in World
  BY <1>1, ExecuteType
<1> HIDE DEF b, v
<1>3. << >> \in Seq(ExecutionEntry) /\ << >> \in Scope
  BY EmptySeq DEF Scope
<1>4. f \in Frame /\ f.before = evm
  BY <1>1, <1>2, <1>3 DEF EntryFrame, Frame, FrameKind
<1>5. ScopeFrame(<<>>, b, v) \in Frame
  BY <1>2, <1>3 DEF ScopeFrame, Frame, FrameKind
<1>6. r \in Seq(Frame)
  BY <1>5, EmptySeq DEF RootScope
<1> HIDE DEF f, r
<1>7. t \in Seq(Frame) /\ Len(t) = Len(stack) + 1 /\ Len(stack) \in Nat /\ Len(r) \in Nat
  BY <1>1, <1>4, <1>6, AppendProperties
<1>8. Unseen(t, evm')
  BY <1>1, <1>4, PushUnseen
<1> HIDE DEF t
<1>9. Len(t \o r) = Len(t) + Len(r) /\ (t \o r)[1] = t[1]
  <2>1. Len(t \o r) = Len(t) + Len(r) /\ 1 \in 1..Len(t) + Len(r) /\ 1 <= Len(t)
    BY <1>6, <1>7, ConcatProperties, SMTT(60)
  <2> QED
    BY <1>6, <1>7, <2>1, ConcatProperties, SMTT(30)
<1>10. At(t \o r, evm', 1) = At(t, evm', 1)
  BY <1>7, <1>9 DEF At
<1> QED
  BY <1>1, <1>8, <1>10 DEF Unseen

LEMMA BeginUnseen ==
  ASSUME IInv, Begin
  PROVE  Unseen(stack', evm')
<1>1. evm \in World /\ evm.held \in Nat /\ evm.etherDelta \in Int
  BY StackTypes DEF World
<1>2. ASSUME NEW p, NEW sender, NEW value \in CallValues, NEW data,
             ExecuteCrossChainCall(p, sender, value, data)
      PROVE  Unseen(stack', evm')
  <2> DEFINE h == evm.held + value
             d == evm.etherDelta + value
             w == [evm EXCEPT !.held = h, !.etherDelta = d]
             a == CallAction(p[2], p[1], value, data, sender, MAINNET_ROLLUP_ID, <<>>)
  <2>1. h \in Nat /\ d \in Int
    BY <1>1, RollupsConstants
  <2>2. Enter(w, a)
    BY <1>2 DEF ExecuteCrossChainCall
  <2> HIDE DEF h, d, a
  <2>3. w \in World
    BY <1>1, <2>1, FlowType
  <2> HIDE DEF w
  <2> QED
    BY <2>2, <2>3, EnterUnseen
<1>3. ASSUME NEW r, NEW tx, ExecuteL2TX(r, tx)
      PROVE  Unseen(stack', evm')
  BY <1>1, <1>3, EnterUnseen DEF ExecuteL2TX
<1> QED
  BY <1>2, <1>3 DEF Begin

LEMMA MakeCallUnseen ==
  ASSUME IInv, MakeCall
  PROVE  Unseen(stack', evm')
<1> DEFINE a == Top.action
           w == WithSourceProxy(a)
           f == CallFrame(a, w)
<1>1. stack # <<>> /\ stack' = Append(stack, f)
  BY DEF MakeCall, CanCall, InScope, Running, Push
<1>2. stack \in Seq(Frame) /\ Top \in Frame /\ evm \in World
  BY <1>1, StackTypes
<1>3. a \in Action /\ << >> \in Seq(ExecutionEntry) /\ << >> \in Scope
  BY <1>2, EmptySeq DEF Frame, Scope
<1>4. w \in World
  BY <1>2, <1>3, WithSourceProxySame
<1> HIDE DEF w, a
<1>5. f \in Frame
  BY <1>3, <1>4 DEF CallFrame, Frame, FrameKind
<1> QED
  BY <1>1, <1>2, <1>5, PushUnseen

LEMMA EnterChildScopeUnseen ==
  ASSUME IInv, EnterChildScope
  PROVE  Unseen(stack', evm')
<1> DEFINE a == Top.action
           c == NextScope(Top.scope, a.scope)
           f == ScopeFrame(c, a, evm)
<1>1. stack # <<>> /\ AboveTarget /\ stack' = Append(stack, f)
  BY DEF EnterChildScope, InScope, Running, Push
<1>2. stack \in Seq(Frame) /\ Top \in Frame /\ evm \in World
  BY <1>1, StackTypes
<1>3. a \in Action /\ Top.scope \in Seq(Nat) /\ a.scope \in Seq(Nat)
  BY <1>2 DEF Frame, Action, Scope
<1>4. Len(Top.scope) + 1 \in 1..Len(a.scope)
  BY <1>1, <1>3 DEF AboveTarget, IsChildScope
<1>5. c = Append(Top.scope, a.scope[Len(Top.scope) + 1]) /\ a.scope[Len(Top.scope) + 1] \in Nat
  BY <1>3, <1>4, ElementOfSeq DEF NextScope, AppendToScope
<1>6. c \in Scope /\ << >> \in Seq(ExecutionEntry)
  BY <1>3, <1>5, AppendProperties, EmptySeq DEF Scope
<1> HIDE DEF a, c
<1>7. f \in Frame
  BY <1>2, <1>3, <1>6 DEF ScopeFrame, Frame, FrameKind
<1> QED
  BY <1>1, <1>2, <1>7, PushUnseen

LEMMA CallUnfundedUnseen ==
  ASSUME IInv, CallUnfunded
  PROVE  Unseen(stack', evm')
<1> DEFINE w == WithSourceProxy(Top.action)
           a == ResultAction(Top.action.rollupId, EmptyData, TRUE)
           f == [stack[Len(stack)] EXCEPT !.action = NextAction(w, a)]
<1>1. stack # <<>> /\ Top.kind = "scope" /\ AnswerInPlace(w, a)
  BY DEF CallUnfunded, CanCall, InScope, Running
<1>2. Top \in Frame
  BY <1>1, StackTypes
<1> HIDE DEF w, a
<1>3. CASE stack' = [stack EXCEPT ![Len(stack)] = f]
  <2>1. f.kind = Top.kind /\ f.scope = Top.scope /\ f.before = Top.before
    BY <1>2 DEF Frame, Top
  <2> HIDE DEF f
  <2> QED
    BY <1>1, <1>3, <2>1, UpdateUnseen
<1> QED
  BY <1>1, <1>3, AbortUnseen DEF AnswerInPlace

LEMMA NavigateUnseen ==
  ASSUME IInv, Navigate
  PROVE  Unseen(stack', evm') \/ ReturnResult
<1>1. CASE LeaveScope \/ RevertScope
  BY <1>1, ReturnUnseen DEF LeaveScope, RevertScope, InScope, Running
<1>2. CASE CallExecutionFailed \/ NoContinuation \/ ProxyCollision
  BY <1>2, AbortUnseen DEF CallExecutionFailed, NoContinuation, ProxyCollision, InScope, Running
<1> QED
  BY <1>1, <1>2, EnterChildScopeUnseen, MakeCallUnseen, CallUnfundedUnseen DEF Navigate

LEMMA CalleeUnseen ==
  ASSUME IInv, Callee
  PROVE  Unseen(stack', evm')
BY AnswerUnseen DEF Callee, CallReturns, CallReverts, Running

-----------------------------------------------------------------------------
(* What the ledger sees of a state. *)

LEMMA WorldLedger ==
  ASSUME NEW w \in World
  PROVE  /\ Balances(w) \in [1..MaxRollups -> Nat] /\ Total(Balances(w)) \in Int
         /\ w.held \in Nat /\ Total(Balances(w)) = w.held + Gap(w)
         /\ Elements(w.executions) \subseteq ExecutionEntry
<1>1. \A r \in RollupIds : w.rollups[r].etherBalance \in Nat
  BY DEF World, RollupConfigs, RollupConfig
<1>2. Balances(w) \in [1..MaxRollups -> Nat]
  BY <1>1, RollupsConstants DEF Balances
<1>3. w.held \in Nat /\ w.executions \in Seq(ExecutionEntry)
  BY DEF World
<1>4. Elements(w.executions) \subseteq ExecutionEntry
  BY <1>3 DEF Elements
<1> HIDE DEF Balances
<1>5. Total(Balances(w)) \in Int
  BY <1>2, TotalType
<1> QED
  BY <1>2, <1>3, <1>4, <1>5 DEF Gap

LEMMA SameTotal ==
  ASSUME NEW f
  PROVE  Ledger!Total(f) = Total(f)
BY DEF Total, Ledger!Total

(* Functions that finish without calling out move no ether. *)
LEMMA ManageLedger ==
  ASSUME IInv, Manage
  PROVE  /\ Balances(evm') = Balances(evm) /\ evm'.held = evm.held
         /\ evm'.executions = evm.executions
         /\ evm'.lastStateUpdateBlock = evm.lastStateUpdateBlock
         /\ stack' = stack
<1>1. PICK k \in Nat : Good(stack, evm, k)
  BY DEF IInv
<1>2. evm \in World /\ Fresh(evm, k) /\ evm.rollups \in RollupConfigs
  BY <1>1 DEF Good, Sound, Fresh, World
<1>3. /\ evm'.held = evm.held /\ evm'.executions = evm.executions
      /\ evm'.lastStateUpdateBlock = evm.lastStateUpdateBlock /\ stack' = stack
  BY <1>2 DEF Manage, CreateRollup, CreateCrossChainProxy, SetStateByOwner,
              SetVerificationKey, TransferRollupOwnership, World
<1>4. ASSUME NEW r \in RollupIds
      PROVE  evm'.rollups[r].etherBalance = evm.rollups[r].etherBalance
  <2>1. ASSUME NEW owner, NEW key, NEW root, CreateRollup(owner, key, root)
        PROVE  evm'.rollups[r].etherBalance = evm.rollups[r].etherBalance
    <3>1. evm.rollups[evm.rollupCounter].etherBalance = 0 /\ evm.rollupCounter \in RollupIds
      BY <1>2, <2>1, ActionConstants DEF CreateRollup, Fresh
    <3> QED
      BY <1>2, <2>1, <3>1 DEF CreateRollup, World, RollupConfigs
  <2>2. ASSUME NEW p, CreateCrossChainProxy(p)
        PROVE  evm'.rollups[r].etherBalance = evm.rollups[r].etherBalance
    BY <1>2, <2>2 DEF CreateCrossChainProxy, World
  <2>3. ASSUME NEW sender, NEW q \in RollupIds,
               \/ \E root \in OwnerRoots : SetStateByOwner(sender, q, root)
               \/ \E key \in VKs : SetVerificationKey(sender, q, key)
               \/ \E newOwner \in Callers : TransferRollupOwnership(sender, q, newOwner)
        PROVE  evm'.rollups[r].etherBalance = evm.rollups[r].etherBalance
    <3>1. evm.rollups[q] \in RollupConfig /\ DOMAIN evm.rollups = RollupIds
      BY <1>2 DEF RollupConfigs
    <3>2. CASE \E root \in OwnerRoots : SetStateByOwner(sender, q, root)
      BY <1>2, <3>1, <3>2 DEF SetStateByOwner, World, RollupConfig
    <3>3. CASE \E key \in VKs : SetVerificationKey(sender, q, key)
      BY <1>2, <3>1, <3>3 DEF SetVerificationKey, World, RollupConfig
    <3>4. CASE \E newOwner \in Callers : TransferRollupOwnership(sender, q, newOwner)
      BY <1>2, <3>1, <3>4 DEF TransferRollupOwnership, World, RollupConfig
    <3> QED
      BY <2>3, <3>2, <3>3, <3>4
  <2> QED
    BY <2>1, <2>2, <2>3 DEF Manage
<1>5. Balances(evm') = Balances(evm)
  BY <1>4 DEF Balances
<1> QED
  BY <1>3, <1>5

(* The variables of the ledger, in this state and in the next. *)
LEMMA LedgerNow ==
  /\ Balances(WorldAt(1)) = Balances(At(stack, evm, 1))
  /\ WorldAt(1) = At(stack, evm, 1)
  /\ Balances(WorldAt(1))' = Balances(At(stack', evm', 1))
  /\ (WorldAt(1).held)' = At(stack', evm', 1).held
  /\ Elements(WorldAt(1).executions)' = Elements(At(stack', evm', 1).executions)
  /\ (WorldAt(1).lastStateUpdateBlock)' = At(stack', evm', 1).lastStateUpdateBlock
BY DEF WorldAt, At, Balances, Elements

LEMMA UnseenLedger ==
  ASSUME Unseen(stack', evm'), blockNumber' = blockNumber
  PROVE  UNCHANGED Ledger!ledger
BY LedgerNow DEF Unseen, Ledger!ledger

-----------------------------------------------------------------------------
(* The steps the ledger sees: the end of a transaction. *)

(* The first frame is the last to go. *)
LEMMA PopCommits ==
  ASSUME IInv, stack # <<>>, stack' = Pop
  PROVE  IF Len(stack) = 1 THEN At(stack', evm', 1) = evm' ELSE Unseen(stack', evm')
<1> DEFINE n == Len(stack)
           t == SubSeq(stack, 1, n - 1)
           v == evm'
<1>1. stack \in Seq(Frame) /\ n \in Nat /\ n > 0 /\ stack' = t
  BY StackTypes DEF Pop
<1> HIDE DEF n
<1>2. n - 1 \in 0..n /\ n = Len(stack)
  BY <1>1 DEF n
<1>3. Kept(t, stack, n - 1)
  BY <1>1, <1>2, PrefixKept
<1> HIDE DEF t, v
<1>4. CASE n = 1
  <2>1. Len(t) = 0
    BY <1>3, <1>4 DEF Kept
  <2>2. At(t, v, 1) = v
    BY <2>1 DEF At
  <2> QED
    BY <1>1, <1>2, <1>4, <2>2 DEF v
<1>5. CASE n # 1
  <2>1. n - 1 \in 1..n
    BY <1>1, <1>5
  <2>2. Unseen(t, v)
    BY <1>1, <1>2, <1>3, <2>1, KeptUnseen
  <2> QED
    BY <1>1, <1>2, <1>5, <2>2 DEF v
<1> QED
  BY <1>4, <1>5

LEMMA FinishBatchLedger ==
  ASSUME IInv, TInv, FinishBatch
  PROVE  Ledger!PostBatch
<1> DEFINE w == stack[1].before
           v == [evm EXCEPT !.lastStateUpdateBlock = blockNumber]
<1>1. stack # <<>> /\ Top.kind = "batch" /\ evm' = v /\ stack' = Pop /\ blockNumber' = blockNumber
  BY DEF FinishBatch, Running
<1>2. PICK k \in Nat : Good(stack, evm, k)
  BY DEF IInv
<1>3. /\ Len(stack) = 1 /\ stack[1].kind = "batch" /\ evm \in World /\ blockNumber \in Nat
      /\ w \in World
  <2>1. stack # <<>> /\ Len(stack) \in Nat /\ Len(stack) > 0 /\ Top = stack[Len(stack)]
        /\ evm \in World /\ Top.before \in World
    BY <1>1, StackTypes
  <2>2. Len(stack) = 1
    BY <1>1, <2>1 DEF TInv, Fits
  <2> QED
    BY <1>1, <2>1, <2>2 DEF IInv
<1>4. w.lastStateUpdateBlock # blockNumber /\ evm.held = w.held
  BY <1>1, <1>3 DEF TInv, Fits, Posting
<1>5. At(stack, evm, 1) = w /\ At(stack, evm, 2) = evm
  BY <1>3 DEF At
<1>6. Gap(w) = 0 /\ Gap(evm) = 0
  <2>1. Gap(w) = 0 /\ Gap(At(stack, evm, 1 + 1)) = Gap(w) + Handed(stack[1])
    BY <1>2, <1>3, <1>5 DEF Good, Owed
  <2>2. Handed(stack[1]) = 0
    BY <1>3 DEF Handed
  <2> QED
    BY <1>5, <2>1, <2>2
<1>7. v \in World /\ Balances(v) = Balances(evm) /\ v.held = evm.held
      /\ v.lastStateUpdateBlock = blockNumber
  BY <1>3 DEF World, Balances
<1>8. At(stack', evm', 1) = v
  BY <1>1, <1>3, PopCommits
<1> HIDE DEF w, v
<1>9. /\ Balances(v) \in [1..MaxRollups -> Nat] /\ Total(Balances(v)) = Total(Balances(w))
      /\ Elements(v.executions) \subseteq ExecutionEntry
  BY <1>3, <1>4, <1>6, <1>7, WorldLedger
<1> QED
  BY <1>1, <1>4, <1>5, <1>7, <1>8, <1>9, LedgerNow, SameTotal DEF Ledger!PostBatch

LEMMA ReturnResultLedger ==
  ASSUME IInv, TInv, ReturnResult, Len(stack) = 1
  PROVE  Ledger!Transact
<1> DEFINE w == stack[1].before
<1>1. stack # <<>> /\ Top.kind = "entry" /\ evm' = evm /\ stack' = Pop /\ blockNumber' = blockNumber
  BY DEF ReturnResult, Running
<1>2. PICK k \in Nat : Good(stack, evm, k)
  BY DEF IInv
<1>3. stack[1].kind = "entry" /\ evm \in World /\ w \in World
  <2>1. Top = stack[1] /\ Top.before \in World /\ evm \in World
    BY <1>1, StackTypes
  <2> QED
    BY <1>1, <2>1
<1>4. /\ w.lastStateUpdateBlock = blockNumber /\ evm.lastStateUpdateBlock = blockNumber
      /\ Elements(evm.executions) \subseteq Elements(w.executions)
  BY <1>1, NotInBatch DEF Within
<1>5. At(stack, evm, 1) = w /\ At(stack, evm, 2) = evm
  BY DEF At
<1>6. Gap(w) = 0 /\ Gap(evm) = 0
  <2>1. Gap(w) = 0 /\ Gap(At(stack, evm, 1 + 1)) = Gap(w) + Handed(stack[1])
    BY <1>2, <1>5 DEF Good, Owed
  <2>2. Handed(stack[1]) = 0
    BY <1>3 DEF Handed
  <2> QED
    BY <1>5, <2>1, <2>2
<1>7. At(stack', evm', 1) = evm
  BY <1>1, PopCommits
<1> HIDE DEF w
<1>8. /\ Balances(evm) \in [1..MaxRollups -> Nat] /\ evm.held \in Nat /\ w.held \in Nat
      /\ Total(Balances(evm)) = evm.held /\ Total(Balances(w)) = w.held
  BY <1>3, <1>6, WorldLedger
<1> QED
  BY <1>1, <1>4, <1>5, <1>7, <1>8, LedgerNow, SameTotal DEF Ledger!Transact

LEMMA LedgerStep ==
  ASSUME IInv, TInv, [Next]_vars
  PROVE  [Ledger!Next]_(Ledger!ledger)
<1>1. ASSUME Unseen(stack', evm'), blockNumber' = blockNumber
      PROVE  [Ledger!Next]_(Ledger!ledger)
  BY <1>1, UnseenLedger
<1>2. CASE Manage
  <2>1. blockNumber' = blockNumber
    BY <1>2 DEF Manage, CreateRollup, CreateCrossChainProxy, SetStateByOwner,
                SetVerificationKey, TransferRollupOwnership
  <2> DEFINE w == At(stack, evm, 1)
             v == At(stack', evm', 1)
  <2>2. /\ Balances(v) = Balances(w) /\ v.held = w.held /\ v.executions = w.executions
        /\ v.lastStateUpdateBlock = w.lastStateUpdateBlock
    BY <1>2, ManageLedger DEF At
  <2> HIDE DEF w, v
  <2>3. UNCHANGED Ledger!ledger
    BY <2>1, <2>2, LedgerNow DEF Ledger!ledger, w, v
  <2> QED
    BY <2>3
<1>3. CASE Batch
  <2>1. blockNumber' = blockNumber
    BY <1>3 DEF Batch, PostBatch, ProcessImmediate, ProcessDeferred, FinishBatch,
                BatchReverts, Abort
  <2> QED
    BY <1>1, <1>3, <2>1, BatchUnseen, FinishBatchLedger DEF Ledger!Next
<1>4. CASE Begin
  <2>1. blockNumber' = blockNumber
    BY <1>4, BeginInBlock
  <2> QED
    BY <1>1, <1>4, <2>1, BeginUnseen
<1>5. CASE Navigate
  <2>1. blockNumber' = blockNumber
    BY <1>5 DEF Navigate, ReturnResult, CallExecutionFailed, EnterChildScope, LeaveScope,
                RevertScope, NoContinuation, ProxyCollision, MakeCall, CallUnfunded,
                AnswerInPlace, Abort
  <2>2. ReturnResult => Ledger!Transact \/ Unseen(stack', evm')
    BY ReturnResultLedger, PopCommits DEF ReturnResult, Running
  <2> QED
    BY <1>1, <1>5, <2>1, <2>2, NavigateUnseen DEF Ledger!Next
<1>6. CASE Callee
  <2>1. blockNumber' = blockNumber
    BY <1>6 DEF Callee, CallReturns, CallReverts, Answer, Abort
  <2> QED
    BY <1>1, <1>6, <2>1, CalleeUnseen
<1>7. CASE OutOfGas
  <2>1. Abort /\ stack # <<>> /\ blockNumber' = blockNumber
    BY <1>7 DEF OutOfGas, Abort
  <2> QED
    BY <1>1, <2>1, AbortUnseen
<1>8. CASE NewBlock
  <2>1. stack' = stack /\ evm' = evm /\ blockNumber' = blockNumber + 1
    BY <1>8 DEF NewBlock
  <2>2. Ledger!NextBlock
    BY <2>1, LedgerNow DEF Ledger!NextBlock
  <2> QED
    BY <2>2 DEF Ledger!Next
<1>9. CASE \/ \E entries \in Batches, b \in {blockNumber, blockNumber + 1} : Prove(entries, b)
           \/ UNCHANGED vars
  <2>1. stack' = stack /\ evm' = evm /\ blockNumber' = blockNumber
    BY <1>9 DEF Prove, vars
  <2> QED
    BY <1>1, <2>1 DEF Unseen
<1> QED
  BY <1>2, <1>3, <1>4, <1>5, <1>6, <1>7, <1>8, <1>9 DEF Next

LEMMA LedgerInit == Init => Ledger!Init
<1> SUFFICES ASSUME Init PROVE Ledger!Init
  OBVIOUS
<1>1. stack = <<>> /\ Len(stack) = 0
  BY DEF Init
<1>2. At(stack, evm, 1) = evm
  BY <1>1 DEF At
<1>3. Balances(evm) = [r \in 1..MaxRollups |-> 0]
  BY RollupsConstants DEF Init, Balances
<1>4. Elements(<<>>) = {}
  BY DEF Elements
<1> QED
  BY <1>2, <1>3, <1>4, LedgerNow DEF Init, Ledger!Init

-----------------------------------------------------------------------------
(* Whatever the called contracts do, the contract behaves as the ledger:   *)
(* each transaction happens entirely or not at all, moves into or out of   *)
(* the contract exactly the ether it books on the rollups, at most one     *)
(* batch is posted per block and entries are used only in their block.     *)
THEOREM ImplementsTheLedger == Spec => ImplementsLedger
<1>1. Init => Ledger!Init
  BY LedgerInit
<1>2. (IInv /\ TInv) /\ [Next]_vars => [Ledger!Next]_(Ledger!ledger)
  BY LedgerStep
<1> QED
  BY <1>1, <1>2, TableInvariant, PTL DEF Spec, ImplementsLedger, Ledger!Spec
=============================================================================
