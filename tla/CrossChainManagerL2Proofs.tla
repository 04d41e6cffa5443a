---------------------- MODULE CrossChainManagerL2Proofs ----------------------
(***************************************************************************)
(* Theorems about the L2 contract, for every set of tables, of calls and   *)
(* of callers, and every depth of the call stack.                          *)
(***************************************************************************)
EXTENDS CrossChainManagerL2, ProofLibrary

-----------------------------------------------------------------------------
(* Types of the data. *)

LEMMA EntryTypes ==
  ASSUME NEW e \in Entries
  PROVE  e.actionHash \in Hashes /\ e.actionHash \in Action /\ e.nextAction \in Action
BY L2Constants DEF Hashes

LEMMA QueueTypes ==
  ASSUME NEW w \in World, NEW key \in Hashes
  PROVE  /\ w.executions[key] \in Seq(Entries) /\ Len(w.executions[key]) \in Nat
         /\ w.loaded[key] \in Seq(Entries) /\ Len(w.loaded[key]) \in Nat
         /\ w.consumed[key] \in Seq(Entries) /\ Len(w.consumed[key]) \in Nat
BY DEF World, Queues

-----------------------------------------------------------------------------
(* How often an entry is in a queue. *)

LEMMA CountType ==
  ASSUME NEW q \in Seq(Entries), NEW e
  PROVE  Count(q, e) \in Nat
BY PlacesFinite DEF Count, Places

LEMMA CountAppend ==
  ASSUME NEW q \in Seq(Entries), NEW x \in Entries, NEW e
  PROVE  Count(Append(q, x), e) = Count(q, e) + (IF x = e THEN 1 ELSE 0)
<1>1. /\ Count(q, e) = Cardinality(Places(q, e))
      /\ Count(Append(q, x), e) = Cardinality(Places(Append(q, x), e))
  BY DEF Count, Places
<1> QED
  BY <1>1, PlacesAppend

LEMMA TakeFirstType ==
  ASSUME NEW q \in Seq(Entries), q # <<>>
  PROVE  /\ TakeFirst(q) \in Seq(Entries)
         /\ Len(TakeFirst(q)) = Len(q) - 1
         /\ Len(q) \in Nat /\ Len(q) > 0
<1>1. 1 \in 1..Len(q) /\ TakeFirst(q) = Without(q, 1)
  BY EmptySeq DEF TakeFirst, Without
<1> QED
  BY <1>1, WithoutType

LEMMA CountTakeFirst ==
  ASSUME NEW q \in Seq(Entries), q # <<>>, NEW e
  PROVE  Count(TakeFirst(q), e) = Count(q, e) - (IF q[1] = e THEN 1 ELSE 0)
<1>1. 1 \in 1..Len(q) /\ TakeFirst(q) = Without(q, 1)
  BY EmptySeq DEF TakeFirst, Without
<1>2. /\ Count(q, e) = Cardinality(Places(q, e))
      /\ Count(TakeFirst(q), e) = Cardinality(Places(Without(q, 1), e))
  BY <1>1 DEF Count, Places
<1> QED
  BY <1>1, <1>2, PlacesWithout

-----------------------------------------------------------------------------
(* The states that the contract may be in or be rolled back to: the        *)
(* counter is exact, and every entry is in the table or was used.          *)

Counted(w) == /\ IsFiniteSet(Pending(w))
              /\ w.pendingEntryCount = Cardinality(Pending(w))

Conserved(w) ==
    \A e \in Entries : Count(w.loaded[e.actionHash], e)
                         = Count(w.executions[e.actionHash], e) + Count(w.consumed[e.actionHash], e)

Sound(w) == w \in World /\ Counted(w) /\ Conserved(w)

LEMMA PendingPairs ==
  ASSUME NEW w, NEW key, NEW i
  PROVE  <<key, i>> \in Pending(w) <=> key \in Hashes /\ i \in 1..Len(w.executions[key])
BY DEF Pending

LEMMA PendingSet ==
  ASSUME NEW w, NEW x \in Pending(w)
  PROVE  \E key \in Hashes : \E i \in 1..Len(w.executions[key]) : x = <<key, i>>
BY DEF Pending

(* Only the table, its counter and the history matter. *)
LEMMA SameTable ==
  ASSUME NEW w, Sound(w), NEW v \in World,
         v.executions = w.executions, v.pendingEntryCount = w.pendingEntryCount,
         v.loaded = w.loaded, v.consumed = w.consumed
  PROVE  Sound(v)
<1>1. Pending(v) = Pending(w)
  BY DEF Pending
<1> QED
  BY <1>1 DEF Sound, Counted, Conserved

(* The contract's ether goes to a call, or comes with one. *)
LEMMA EtherSound ==
  ASSUME NEW w, Sound(w), NEW held \in Nat, NEW system \in Nat
  PROVE  Sound([w EXCEPT !.system = system, !.held = held])
<1> DEFINE v == [w EXCEPT !.system = system, !.held = held]
<1>1. v \in World
  BY DEF Sound, World
<1>2. /\ v.executions = w.executions /\ v.pendingEntryCount = w.pendingEntryCount
      /\ v.loaded = w.loaded /\ v.consumed = w.consumed
  BY DEF Sound, World
<1> HIDE DEF v
<1>3. Sound(v)
  BY <1>1, <1>2, SameTable
<1> QED
  BY <1>3 DEF v

LEMMA ProxySound ==
  ASSUME NEW w, Sound(w), NEW p \in Proxy
  PROVE  Sound([w EXCEPT !.authorizedProxies = @ \cup {p}])
<1> DEFINE v == [w EXCEPT !.authorizedProxies = @ \cup {p}]
<1>1. v \in World
  BY DEF Sound, World
<1>2. /\ v.executions = w.executions /\ v.pendingEntryCount = w.pendingEntryCount
      /\ v.loaded = w.loaded /\ v.consumed = w.consumed
  BY DEF Sound, World
<1> HIDE DEF v
<1>3. Sound(v)
  BY <1>1, <1>2, SameTable
<1> QED
  BY <1>3 DEF v

-----------------------------------------------------------------------------
(* loadExecutionTable. *)

LEMMA PushSound ==
  ASSUME NEW w, Sound(w), NEW e \in Entries
  PROVE  Sound(PushExecution(w, e))
<1> DEFINE key == e.actionHash
           q == w.executions[key]
           n == Len(q)
           v == PushExecution(w, e)
<1>1. /\ w \in World /\ key \in Hashes /\ q \in Seq(Entries) /\ n \in Nat
      /\ w.loaded[key] \in Seq(Entries) /\ w.pendingEntryCount \in Nat
      /\ w.executions \in Queues /\ w.loaded \in Queues
  BY EntryTypes, QueueTypes DEF Sound, World
<1>2. /\ Append(q, e) \in Seq(Entries) /\ Append(w.loaded[key], e) \in Seq(Entries)
      /\ Len(Append(q, e)) = n + 1
  BY <1>1, AppendProperties
<1> DEFINE qs == [w.executions EXCEPT ![key] = Append(q, e)]
           ls == [w.loaded EXCEPT ![key] = Append(w.loaded[key], e)]
<1>3. qs \in Queues /\ ls \in Queues
  BY <1>1, <1>2 DEF Queues
<1>4. v = [w EXCEPT !.executions = qs, !.pendingEntryCount = w.pendingEntryCount + 1,
                    !.loaded = ls]
  BY <1>1 DEF PushExecution, World
<1>5. /\ qs[key] = Append(q, e) /\ \A h \in Hashes : h # key => qs[h] = w.executions[h]
      /\ ls[key] = Append(w.loaded[key], e) /\ \A h \in Hashes : h # key => ls[h] = w.loaded[h]
  BY <1>1 DEF Queues
<1> DEFINE c == w.pendingEntryCount + 1
<1>10. c \in Nat
  BY <1>1
<1> HIDE DEF v, qs, ls, key, q, n, c
<1>6. /\ v \in World /\ v.executions = qs /\ v.loaded = ls /\ v.consumed = w.consumed
      /\ v.pendingEntryCount = w.pendingEntryCount + 1
  <2>1. v = [w EXCEPT !.executions = qs, !.pendingEntryCount = c, !.loaded = ls]
    BY <1>4 DEF c
  <2> QED
    BY <1>1, <1>3, <1>10, <2>1 DEF World, c
<1>7. Pending(v) = Pending(w) \cup {<<key, n + 1>>} /\ <<key, n + 1>> \notin Pending(w)
  <2>1. ASSUME NEW x \in Pending(v) PROVE x \in Pending(w) \cup {<<key, n + 1>>}
    <3>1. PICK h \in Hashes : \E i \in 1..Len(v.executions[h]) : x = <<h, i>>
      BY <2>1, PendingSet
    <3>2. CASE h = key
      BY <1>1, <1>2, <1>5, <1>6, <3>1, <3>2, PendingPairs DEF q, n
    <3>3. CASE h # key
      BY <1>5, <1>6, <3>1, <3>3, PendingPairs
    <3> QED
      BY <3>2, <3>3
  <2>2. ASSUME NEW x \in Pending(w) PROVE x \in Pending(v)
    <3>1. PICK h \in Hashes : \E i \in 1..Len(w.executions[h]) : x = <<h, i>>
      BY <2>2, PendingSet
    <3>2. CASE h = key
      BY <1>1, <1>2, <1>5, <1>6, <3>1, <3>2, PendingPairs DEF q, n
    <3>3. CASE h # key
      BY <1>5, <1>6, <3>1, <3>3, PendingPairs
    <3> QED
      BY <3>2, <3>3
  <2>3. <<key, n + 1>> \in Pending(v)
    BY <1>1, <1>2, <1>5, <1>6, PendingPairs
  <2>4. <<key, n + 1>> \notin Pending(w)
    BY <1>1, PendingPairs DEF q, n
  <2> QED
    BY <2>1, <2>2, <2>3, <2>4
<1>8. Counted(v)
  BY <1>6, <1>7, FS_AddElement DEF Sound, Counted
<1>9. Conserved(v)
  <2> SUFFICES ASSUME NEW x \in Entries
               PROVE  Count(v.loaded[x.actionHash], x)
                        = Count(v.executions[x.actionHash], x) + Count(v.consumed[x.actionHash], x)
    BY DEF Conserved
  <2> DEFINE h == x.actionHash
             d == IF e = x THEN 1 ELSE 0
  <2>1. /\ h \in Hashes /\ w.executions[h] \in Seq(Entries) /\ w.consumed[h] \in Seq(Entries)
        /\ w.loaded[h] \in Seq(Entries)
        /\ Count(w.loaded[h], x) = Count(w.executions[h], x) + Count(w.consumed[h], x)
    BY <1>1, EntryTypes, QueueTypes DEF Sound, Conserved
  <2>2. /\ Count(w.executions[h], x) \in Nat /\ Count(w.consumed[h], x) \in Nat
        /\ Count(w.loaded[h], x) \in Nat
    BY <2>1, CountType
  <2>3. CASE h = key
    <3>1. qs[h] = Append(w.executions[h], e) /\ ls[h] = Append(w.loaded[h], e)
      BY <1>5, <2>3 DEF q
    <3> HIDE DEF h
    <3>2. Count(qs[h], x) = Count(w.executions[h], x) + d
      BY <2>1, <3>1, CountAppend
    <3>3. Count(ls[h], x) = Count(w.loaded[h], x) + d
      BY <2>1, <3>1, CountAppend
    <3> QED
      BY <1>6, <2>1, <2>2, <3>2, <3>3 DEF h
  <2>4. CASE h # key
    BY <1>5, <1>6, <2>1, <2>4
  <2> QED
    BY <2>3, <2>4
<1> QED
  BY <1>6, <1>8, <1>9 DEF Sound, v

(* The loop of loadExecutionTable, entry by entry. *)
LoadRuns(w, entries) ==
    {c \in [0..Len(entries) -> {x \in World : Sound(x)}] :
        /\ c[0] = w /\ c[Len(entries)] = Load(w, entries)
        /\ \A i \in 1..Len(entries) : c[i] = PushExecution(c[i - 1], entries[i])}

LEMMA LoadRun ==
  ASSUME NEW w, Sound(w), NEW entries \in Seq(Entries)
  PROVE  LoadRuns(w, entries) # {}
<1> DEFINE n == Len(entries)
           Worlds == {x \in World : Sound(x)}
           g == [i \in 1..n |-> [x \in Worlds |-> PushExecution(x, entries[i])]]
           IsRun(f) == f = [i \in 0..n |-> IF i = 0 THEN w ELSE PushExecution(f[i - 1], entries[i])]
<1>1. n \in Nat /\ \A i \in 1..n : entries[i] \in Entries
  BY ElementOfSeq
<1>2. \A x \in Worlds, i \in 1..n : PushExecution(x, entries[i]) \in Worlds
  BY <1>1, PushSound DEF Sound
<1>3. w \in Worlds
  BY DEF Sound
<1> HIDE DEF Worlds, n
<1>4. g \in Loops(n, Worlds) /\ \A i \in 1..n, x \in Worlds : g[i][x] = PushExecution(x, entries[i])
  BY <1>2 DEF Loops
<1> HIDE DEF g
<1>5. PICK f : f \in Traces(n, Worlds, w, g)
  BY <1>1, <1>3, <1>4, Recursion
<1>6. /\ f \in [0..n -> Worlds] /\ f[0] = w
      /\ \A i \in 1..n : f[i] = PushExecution(f[i - 1], entries[i])
  BY <1>1, <1>4, <1>5 DEF Traces
<1>7. IsRun(f)
  BY <1>1, <1>6
<1> DEFINE c == CHOOSE h : IsRun(h)
<1>8. IsRun(c) /\ Load(w, entries) = c[n]
  BY <1>7 DEF Load, n
<1> HIDE DEF c
<1>9. c[0] = w /\ \A i \in 1..n : c[i] = PushExecution(c[i - 1], entries[i])
  BY <1>1, <1>8
<1> DEFINE Good == {m \in Nat : m <= n => c[m] \in Worlds}
<1>10. 0 \in Good
  BY <1>3, <1>9
<1>11. ASSUME NEW m \in Good PROVE m + 1 \in Good
  <2> SUFFICES ASSUME m + 1 <= n PROVE c[m + 1] \in Worlds
    OBVIOUS
  <2>1. m \in Nat /\ m + 1 \in 1..n /\ c[m] \in Worlds /\ (m + 1) - 1 = m
    BY <1>1, <1>11
  <2>2. c[m + 1] = PushExecution(c[(m + 1) - 1], entries[m + 1])
    BY <1>9, <2>1
  <2> QED
    BY <1>2, <2>1, <2>2
<1> HIDE DEF Good
<1>12. Good = Nat
  <2>1. Good \in SUBSET Nat
    BY DEF Good
  <2> QED
    BY <1>10, <1>11, <2>1, NatSetInduction
<1>13. \A i \in 0..n : c[i] \in Worlds
  BY <1>1, <1>12 DEF Good
<1>14. c \in [0..n -> Worlds]
  BY <1>8, <1>13
<1>15. c \in LoadRuns(w, entries)
  BY <1>8, <1>9, <1>14 DEF LoadRuns, Worlds, n
<1> QED
  BY <1>15

LEMMA LoadSound ==
  ASSUME NEW w, Sound(w), NEW entries \in Seq(Entries)
  PROVE  Sound(Load(w, entries))
<1>1. PICK c : c \in LoadRuns(w, entries)
  BY LoadRun
<1>2. Len(entries) \in 0..Len(entries)
  BY ElementOfSeq
<1> QED
  BY <1>1, <1>2 DEF LoadRuns

-----------------------------------------------------------------------------
(* _consumeExecution. *)

LEMMA ConsumeSound ==
  ASSUME NEW w, Sound(w), NEW a, Answered(w, a)
  PROVE  Sound(ConsumeExecution(w, a)) /\ NextAction(w, a) \in Action
<1> DEFINE q == w.executions[a]
           n == Len(q)
           v == ConsumeExecution(w, a)
           c == w.pendingEntryCount - 1
           qs == [w.executions EXCEPT ![a] = TakeFirst(q)]
           us == [w.consumed EXCEPT ![a] = Append(w.consumed[a], q[1])]
<1>1. /\ w \in World /\ a \in Hashes /\ q \in Seq(Entries) /\ q # <<>>
      /\ w.consumed[a] \in Seq(Entries) /\ w.pendingEntryCount \in Nat
      /\ w.executions \in Queues /\ w.consumed \in Queues
  BY QueueTypes DEF Sound, World, Answered
<1>2. /\ n \in Nat /\ n > 0 /\ q[1] \in Entries
      /\ TakeFirst(q) \in Seq(Entries) /\ Len(TakeFirst(q)) = n - 1
      /\ Append(w.consumed[a], q[1]) \in Seq(Entries)
  <2>1. n \in Nat /\ n > 0 /\ TakeFirst(q) \in Seq(Entries) /\ Len(TakeFirst(q)) = n - 1
    BY <1>1, TakeFirstType
  <2>2. q[1] \in Entries
    BY <1>1, <2>1, ElementOfSeq
  <2> QED
    BY <1>1, <2>1, <2>2, AppendProperties
<1>3. NextAction(w, a) \in Action
  BY <1>2, EntryTypes DEF NextAction
<1>4. qs \in Queues /\ us \in Queues
  BY <1>1, <1>2 DEF Queues
<1>5. /\ qs[a] = TakeFirst(q) /\ \A h \in Hashes : h # a => qs[h] = w.executions[h]
      /\ us[a] = Append(w.consumed[a], q[1]) /\ \A h \in Hashes : h # a => us[h] = w.consumed[h]
  BY <1>1 DEF Queues
<1>6. v = [w EXCEPT !.executions = qs, !.pendingEntryCount = c, !.consumed = us]
  BY <1>1 DEF ConsumeExecution, World
<1>7. <<a, n>> \in Pending(w)
  BY <1>1, <1>2, PendingPairs
<1>8. IsFiniteSet(Pending(w)) /\ w.pendingEntryCount = Cardinality(Pending(w))
  BY DEF Sound, Counted
<1>9. /\ IsFiniteSet(Pending(w) \ {<<a, n>>}) /\ Cardinality(Pending(w) \ {<<a, n>>}) = c
  BY <1>7, <1>8, FS_RemoveElement
<1>10. c \in Nat
  BY <1>9, FS_CardinalityType
<1> HIDE DEF v, qs, us, q, n, c
<1>11. /\ v \in World /\ v.executions = qs /\ v.loaded = w.loaded /\ v.consumed = us
       /\ v.pendingEntryCount = c
  BY <1>1, <1>4, <1>6, <1>10 DEF World
<1>12. Pending(v) = Pending(w) \ {<<a, n>>}
  <2>1. ASSUME NEW x \in Pending(v) PROVE x \in Pending(w) \ {<<a, n>>}
    <3>1. PICK h \in Hashes : \E i \in 1..Len(v.executions[h]) : x = <<h, i>>
      BY <2>1, PendingSet
    <3>2. CASE h = a
      <4>1. PICK i \in 1..(n - 1) : x = <<h, i>>
        BY <1>2, <1>5, <1>11, <3>1, <3>2
      <4>2. i \in 1..n /\ i # n
        BY <1>2, <4>1
      <4> QED
        BY <1>1, <3>2, <4>1, <4>2, PendingPairs DEF q, n
    <3>3. CASE h # a
      BY <1>5, <1>11, <3>1, <3>3, PendingPairs
    <3> QED
      BY <3>2, <3>3
  <2>2. ASSUME NEW x \in Pending(w), x # <<a, n>> PROVE x \in Pending(v)
    <3>1. PICK h \in Hashes : \E i \in 1..Len(w.executions[h]) : x = <<h, i>>
      BY <2>2, PendingSet
    <3>2. CASE h = a
      <4>1. PICK i \in 1..n : x = <<h, i>>
        BY <3>1, <3>2 DEF q, n
      <4>2. i \in 1..(n - 1)
        BY <1>2, <2>2, <3>2, <4>1
      <4> QED
        BY <1>1, <1>2, <1>5, <1>11, <3>2, <4>1, <4>2, PendingPairs
    <3>3. CASE h # a
      BY <1>5, <1>11, <3>1, <3>3, PendingPairs
    <3> QED
      BY <3>2, <3>3
  <2> QED
    BY <2>1, <2>2, <1>2, <1>5, <1>11, PendingPairs
<1>13. Counted(v)
  BY <1>9, <1>11, <1>12 DEF Counted
<1>14. Conserved(v)
  <2> SUFFICES ASSUME NEW x \in Entries
               PROVE  Count(v.loaded[x.actionHash], x)
                        = Count(v.executions[x.actionHash], x) + Count(v.consumed[x.actionHash], x)
    BY DEF Conserved
  <2> DEFINE h == x.actionHash
             d == IF q[1] = x THEN 1 ELSE 0
  <2>1. /\ h \in Hashes /\ w.executions[h] \in Seq(Entries) /\ w.consumed[h] \in Seq(Entries)
        /\ w.loaded[h] \in Seq(Entries)
        /\ Count(w.loaded[h], x) = Count(w.executions[h], x) + Count(w.consumed[h], x)
    BY <1>1, EntryTypes, QueueTypes DEF Sound, Conserved
  <2>2. /\ Count(w.executions[h], x) \in Nat /\ Count(w.consumed[h], x) \in Nat
        /\ Count(w.loaded[h], x) \in Nat /\ d \in Int
    BY <2>1, CountType
  <2>3. CASE h = a
    <3>1. /\ qs[h] = TakeFirst(w.executions[h]) /\ w.executions[h] # <<>>
          /\ w.executions[h][1] = q[1]
          /\ us[h] = Append(w.consumed[h], q[1])
      BY <1>1, <1>5, <2>3 DEF q
    <3> HIDE DEF h
    <3>2. Count(qs[h], x) = Count(w.executions[h], x) - d
      BY <2>1, <3>1, CountTakeFirst
    <3>3. Count(us[h], x) = Count(w.consumed[h], x) + d
      BY <1>2, <2>1, <3>1, CountAppend
    <3> HIDE DEF d
    <3> QED
      BY <1>11, <2>1, <2>2, <3>2, <3>3 DEF h
  <2>4. CASE h # a
    BY <1>5, <1>11, <2>1, <2>4
  <2> QED
    BY <2>3, <2>4
<1> QED
  BY <1>3, <1>11, <1>13, <1>14 DEF Sound, v

-----------------------------------------------------------------------------
(* The inductive invariant. *)

Frames(s) ==
    /\ s \in Seq(Frame)
    /\ \A i \in 1..Len(s) : Sound(s[i].before) /\ Placed(s, i)

IInv == Sound(evm) /\ Frames(stack) /\ loads \in Nat

LEMMA PushFrames ==
  ASSUME NEW s, Frames(s), NEW f \in Frame, Sound(f.before), Placed(Append(s, f), Len(s) + 1)
  PROVE  Frames(Append(s, f))
<1> DEFINE t == Append(s, f)
           n == Len(s)
<1>1. /\ s \in Seq(Frame) /\ n \in Nat /\ t \in Seq(Frame) /\ Len(t) = n + 1
      /\ t[n + 1] = f /\ \A i \in 1..n : t[i] = s[i]
  BY AppendProperties DEF Frames
<1> HIDE DEF t, n
<1>2. ASSUME NEW i \in 1..(n + 1) PROVE Sound(t[i].before) /\ Placed(t, i)
  <2>1. CASE i = n + 1
    BY <1>1, <2>1 DEF t, n
  <2>2. CASE i # n + 1
    <3>1. i \in 1..n /\ t[i] = s[i] /\ (i > 1 => t[i - 1] = s[i - 1])
      BY <1>1, <2>2
    <3>2. Sound(s[i].before) /\ Placed(s, i)
      BY <3>1 DEF Frames, n
    <3> QED
      BY <3>1, <3>2 DEF Placed
  <2> QED
    BY <2>1, <2>2
<1> QED
  BY <1>1, <1>2 DEF Frames, t

LEMMA PrefixFrames ==
  ASSUME NEW s, Frames(s), NEW n \in 0..Len(s)
  PROVE  /\ Frames(SubSeq(s, 1, n)) /\ Len(SubSeq(s, 1, n)) = n
         /\ \A i \in 1..n : SubSeq(s, 1, n)[i] = s[i]
<1> DEFINE t == SubSeq(s, 1, n)
<1>1. s \in Seq(Frame) /\ Len(s) \in Nat /\ n \in Nat /\ n <= Len(s)
  BY DEF Frames
<1>2. \A i \in 1..n : s[i] \in Frame
  BY <1>1, ElementOfSeq
<1>3. t \in Seq(Frame) /\ Len(t) = n /\ \A i \in 1..n : t[i] = s[i]
  BY <1>1, <1>2, SubSeqProperties
<1> HIDE DEF t
<1>4. ASSUME NEW i \in 1..n PROVE Sound(t[i].before) /\ Placed(t, i)
  <2>1. i \in 1..Len(s) /\ t[i] = s[i] /\ (i > 1 => t[i - 1] = s[i - 1])
    BY <1>1, <1>3
  <2>2. Sound(s[i].before) /\ Placed(s, i)
    BY <2>1 DEF Frames
  <2> QED
    BY <2>1, <2>2 DEF Placed
<1> QED
  BY <1>3, <1>4 DEF Frames, t

(* A frame that is not a call is given a new action. *)
LEMMA UpdateFrames ==
  ASSUME NEW s, Frames(s), NEW n \in 1..Len(s), s[n].kind # "call", NEW a \in Action
  PROVE  Frames([s EXCEPT ![n].action = a])
<1> DEFINE f == [s[n] EXCEPT !.action = a]
           t == [s EXCEPT ![n] = f]
<1>1. s \in Seq(Frame) /\ Len(s) \in Nat /\ s[n] \in Frame
  BY ElementOfSeq DEF Frames
<1>2. f \in Frame /\ f.kind = s[n].kind /\ f.scope = s[n].scope /\ f.before = s[n].before
  BY <1>1 DEF Frame
<1> HIDE DEF f
<1>3. t \in Seq(Frame) /\ Len(t) = Len(s) /\ \A i \in 1..Len(s) : t[i] = IF i = n THEN f ELSE s[i]
  BY <1>1, <1>2, ExceptSeq
<1>4. t = [s EXCEPT ![n].action = a]
  BY DEF f
<1> HIDE DEF t
<1>5. ASSUME NEW i \in 1..Len(s)
      PROVE  /\ t[i].kind = s[i].kind /\ t[i].scope = s[i].scope /\ t[i].before = s[i].before
             /\ s[i].kind = "call" => t[i] = s[i]
  BY <1>2, <1>3
<1>6. ASSUME NEW i \in 1..Len(s) PROVE Sound(t[i].before) /\ Placed(t, i)
  <2>1. Sound(s[i].before) /\ Placed(s, i)
    BY DEF Frames
  <2>2. i > 1 => i - 1 \in 1..Len(s)
    BY <1>1
  <2>3. i > 1 => t[i - 1].kind = s[i - 1].kind /\ t[i - 1].scope = s[i - 1].scope
    BY <1>5, <2>2
  <2> QED
    BY <1>5, <2>1, <2>3 DEF Placed
<1> QED
  BY <1>3, <1>4, <1>6 DEF Frames

-----------------------------------------------------------------------------
(* Steps the actions share. *)

LEMMA TopFrame ==
  ASSUME IInv, stack # <<>>
  PROVE  /\ Len(stack) \in Nat /\ Len(stack) > 0
         /\ Top \in Frame /\ Sound(Top.before) /\ Placed(stack, Len(stack))
         /\ stack[1].kind = "entry"
<1>1. stack \in Seq(Frame) /\ Len(stack) \in Nat /\ Len(stack) > 0
  BY EmptySeq DEF IInv, Frames
<1>2. Top \in Frame /\ stack[1] \in Frame
  BY <1>1, ElementOfSeq DEF Top
<1>3. Sound(Top.before) /\ Placed(stack, Len(stack)) /\ Placed(stack, 1)
  BY <1>1 DEF IInv, Frames, Top
<1>4. stack[1].kind = "entry"
  BY <1>2, <1>3 DEF Placed, Frame, FrameKind
<1> QED
  BY <1>1, <1>2, <1>3, <1>4

LEMMA AbortKeeps ==
  ASSUME IInv, stack # <<>>, Abort
  PROVE  IInv'
<1> DEFINE E == {i \in 1..Len(stack) : stack[i].kind = "entry"}
<1>1. Len(stack) \in Nat /\ Len(stack) > 0 /\ stack[1].kind = "entry"
  BY TopFrame
<1>2. E # {} /\ E \in SUBSET (0..Len(stack))
  BY <1>1
<1>3. PICK m \in E : \A j \in E : j <= m
  BY <1>1, <1>2, NatSetGreatest
<1>4. \E i \in 1..Len(stack) :
          stack[i].kind = "entry" /\ \A j \in (i + 1)..Len(stack) : stack[j].kind # "entry"
  BY <1>1, <1>3
<1>5. ThisEntry \in 1..Len(stack)
  BY <1>4 DEF ThisEntry
<1> DEFINE o == ThisEntry
<1>6. evm' = stack[o].before /\ stack' = SubSeq(stack, 1, o - 1) /\ loads' = loads
  BY DEF Abort
<1> HIDE DEF o
<1>7. o \in 1..Len(stack) /\ o - 1 \in 0..Len(stack)
  BY <1>1, <1>5 DEF o
<1>8. Sound(stack[o].before) /\ Frames(SubSeq(stack, 1, o - 1))
  BY <1>7, PrefixFrames DEF IInv, Frames
<1>9. Sound(evm') /\ Frames(stack') /\ loads' \in Nat
  BY <1>6, <1>8 DEF IInv
<1> QED
  BY <1>9 DEF IInv, Sound, Counted, Conserved, Frames, Placed

(* The innermost frame, a scope or a call, answers a. *)
LEMMA ReturnFrames ==
  ASSUME IInv, stack # <<>>, Top.kind \in {"scope", "call"}, NEW a \in Action
  PROVE  Frames(ReturnToParent(a))
<1> DEFINE n == Len(stack) - 1
<1>1. Len(stack) \in Nat /\ Placed(stack, Len(stack)) /\ Top = stack[Len(stack)]
  BY TopFrame DEF Top
<1>2. n \in 1..Len(stack) /\ stack[n].kind # "call"
  BY <1>1 DEF Placed
<1>3. n \in 0..Len(stack) /\ Frames(stack) /\ n \in Nat
  BY <1>1, <1>2 DEF IInv
<1> HIDE DEF n
<1> DEFINE s == SubSeq(stack, 1, n)
<1>4. Frames(s) /\ Len(s) = n /\ \A i \in 1..n : s[i] = stack[i]
  BY <1>3, PrefixFrames
<1> HIDE DEF s
<1>5. n \in 1..Len(s) /\ s[n].kind # "call"
  BY <1>2, <1>3, <1>4
<1>6. Frames([s EXCEPT ![n].action = a])
  BY <1>4, <1>5, UpdateFrames
<1>7. ReturnToParent(a) = [s EXCEPT ![n].action = a]
  BY DEF ReturnToParent, Pop, s, n
<1> QED
  BY <1>6, <1>7

LEMMA AnswerKeeps ==
  ASSUME IInv, stack # <<>>, Top.kind \in {"scope", "call"},
         NEW w, Sound(w), NEW a, Answer(w, a)
  PROVE  IInv'
<1>1. CASE /\ Answered(w, a) /\ evm' = ConsumeExecution(w, a)
           /\ stack' = ReturnToParent(NextAction(w, a)) /\ UNCHANGED loads
  <2>1. Sound(ConsumeExecution(w, a)) /\ NextAction(w, a) \in Action
    BY <1>1, ConsumeSound
  <2>2. Frames(ReturnToParent(NextAction(w, a)))
    BY <2>1, ReturnFrames
  <2>3. Sound(evm') /\ Frames(stack') /\ loads' \in Nat
    BY <1>1, <2>1, <2>2 DEF IInv
  <2> QED
    BY <2>3 DEF IInv, Sound, Counted, Conserved, Frames, Placed
<1>2. CASE Abort
  BY <1>2, AbortKeeps
<1> QED
  BY <1>1, <1>2 DEF Answer

-----------------------------------------------------------------------------
(* Transactions of the system address and of users. *)

LEMMA KeepsIInv ==
  ASSUME Sound(evm'), Frames(stack'), loads' \in Nat
  PROVE  IInv'
BY DEF IInv, Sound, Counted, Conserved, Frames, Placed

LEMMA ResolveFrames ==
  ASSUME IInv, NEW a \in Action, NEW w, Sound(w)
  PROVE  Frames(ResolveScopes(a, w))
<1> DEFINE f == NewFrame("entry", <<>>, a, evm)
           g == NewFrame("scope", <<>>, a, w)
           s == Append(stack, f)
           n == Len(stack)
<1>1. Sound(evm) /\ evm \in World /\ w \in World /\ <<>> \in Scope
  BY EmptySeq DEF IInv, Sound, Scope
<1>2. /\ f \in Frame /\ f.kind = "entry" /\ f.before = evm
      /\ g \in Frame /\ g.kind = "scope" /\ g.before = w /\ g.scope = <<>>
  BY <1>1 DEF NewFrame, Frame, FrameKind
<1> HIDE DEF f, g
<1>3. /\ stack \in Seq(Frame) /\ n \in Nat /\ Len(s) = n + 1 /\ s \in Seq(Frame)
      /\ s[n + 1] = f
  BY <1>2, AppendProperties DEF IInv, Frames
<1>4. Placed(s, n + 1)
  BY <1>2, <1>3 DEF Placed
<1>5. Frames(s)
  BY <1>1, <1>2, <1>4, PushFrames DEF IInv
<1> HIDE DEF s
<1>6. /\ Append(s, g)[n + 2] = g /\ Append(s, g)[n + 1] = f /\ s \o <<g>> = Append(s, g)
  BY <1>2, <1>3, AppendProperties, AppendIsConcat
<1>7. Placed(Append(s, g), Len(s) + 1)
  BY <1>2, <1>3, <1>6 DEF Placed
<1>8. Frames(Append(s, g))
  BY <1>1, <1>2, <1>5, <1>7, PushFrames
<1>9. s \o <<>> = s
  BY <1>3, ConcatEmptySeq
<1>10. ResolveScopes(a, w) = s \o (IF a.actionType = "CALL" THEN <<g>> ELSE <<>>)
  BY DEF ResolveScopes, Push, s, f, g
<1> QED
  BY <1>5, <1>6, <1>8, <1>9, <1>10

LEMMA EtherType ==
  ASSUME IInv
  PROVE  evm \in World /\ evm.system \in Nat /\ evm.held \in Nat /\ Sound(evm)
BY DEF IInv, Sound, World

LEMMA SystemKeeps ==
  ASSUME IInv, System
  PROVE  IInv'
<1>1. ASSUME NEW entries \in Tables, LoadExecutionTable(entries) PROVE IInv'
  <2>1. entries \in Seq(Entries)
    BY L2Constants
  <2>2. Sound(Load(evm, entries))
    BY <2>1, LoadSound DEF IInv
  <2>3. Sound(evm') /\ Frames(stack') /\ loads' \in Nat
    BY <1>1, <2>2 DEF LoadExecutionTable, IInv
  <2> QED
    BY <2>3, KeepsIInv
<1>2. ASSUME NEW call \in IncomingCalls, NEW sent \in MessageValues,
             ExecuteIncomingCrossChainCall(call, sent)
      PROVE  IInv'
  <2> DEFINE system == evm.system - sent
             held == evm.held + sent
             funded == [evm EXCEPT !.system = system, !.held = held]
  <2>1. call \in Action /\ sent \in Nat /\ sent <= evm.system
    BY <1>2, L2Constants DEF Action, ExecuteIncomingCrossChainCall
  <2>2. system \in Nat /\ held \in Nat /\ Sound(evm)
    BY <2>1, EtherType
  <2>3. evm' = funded /\ stack' = ResolveScopes(call, funded) /\ loads' = loads
    BY <1>2, EtherType DEF ExecuteIncomingCrossChainCall, World
  <2> HIDE DEF system, held
  <2>4. Sound(funded)
    BY <2>2, EtherSound
  <2> HIDE DEF funded
  <2>5. Sound(evm') /\ Frames(stack') /\ loads' \in Nat
    BY <2>1, <2>3, <2>4, ResolveFrames DEF IInv
  <2> QED
    BY <2>5, KeepsIInv
<1> QED
  BY <1>1, <1>2 DEF System

LEMMA UsersKeep ==
  ASSUME IInv, Users
  PROVE  IInv'
<1>1. ASSUME NEW p \in UserProxies, CreateCrossChainProxy(p) PROVE IInv'
  <2>1. p \in Proxy /\ Sound(evm)
    BY L2Constants DEF IInv
  <2>2. Sound([evm EXCEPT !.authorizedProxies = @ \cup {p}])
    BY <2>1, ProxySound
  <2>3. Sound(evm') /\ Frames(stack') /\ loads' \in Nat
    BY <1>1, <2>2 DEF CreateCrossChainProxy, IInv
  <2> QED
    BY <2>3, KeepsIInv
<1>2. ASSUME NEW p, NEW sender, NEW value \in CallValues, NEW data,
             ExecuteCrossChainCall(p, sender, value, data)
      PROVE  IInv'
  <2> DEFINE call == Forwarded(p, sender, value, data)
             system == evm.system + value
             paid == [evm EXCEPT !.system = system]
  <2>1. value \in Nat /\ system \in Nat /\ evm \in World /\ evm.held \in Nat /\ Sound(evm)
    BY L2Constants, EtherType
  <2>2. /\ Answered(paid, call) /\ evm' = ConsumeExecution(paid, call) /\ loads' = loads
        /\ stack' = ResolveScopes(NextAction(paid, call), ConsumeExecution(paid, call))
    BY <1>2 DEF ExecuteCrossChainCall
  <2> HIDE DEF system, call
  <2>3. paid = [evm EXCEPT !.system = system, !.held = evm.held]
    BY <2>1 DEF World
  <2>4. Sound(paid)
    BY <2>1, <2>3, EtherSound
  <2> HIDE DEF paid
  <2>5. Sound(evm') /\ NextAction(paid, call) \in Action
    BY <2>2, <2>4, ConsumeSound
  <2>6. Frames(stack') /\ loads' \in Nat
    BY <2>2, <2>5, ResolveFrames DEF IInv
  <2> QED
    BY <2>5, <2>6, KeepsIInv
<1> QED
  BY <1>1, <1>2 DEF Users

-----------------------------------------------------------------------------
(* newScope and its calls. *)

LEMMA EnterChildScopeKeeps ==
  ASSUME IInv, EnterChildScope
  PROVE  IInv'
<1> DEFINE a == Top.action
           c == NextScope(Top.scope, a.scope)
           f == NewFrame("scope", c, a, evm)
           n == Len(stack)
<1>1. /\ stack # <<>> /\ Top.kind = "scope" /\ AboveTarget
      /\ evm' = evm /\ loads' = loads /\ stack' = Append(stack, f)
  BY DEF EnterChildScope, InScope, Running, Push
<1>2. a \in Action /\ Top.scope \in Seq(Nat) /\ a.scope \in Seq(Nat)
      /\ Sound(evm) /\ evm \in World
  BY <1>1, TopFrame DEF Frame, Action, Scope, IInv, Sound
<1>3. Len(Top.scope) + 1 \in 1..Len(a.scope)
  BY <1>1, <1>2 DEF AboveTarget, IsChildScope
<1>4. c = Append(Top.scope, a.scope[Len(Top.scope) + 1]) /\ a.scope[Len(Top.scope) + 1] \in Nat
  BY <1>2, <1>3, ElementOfSeq DEF NextScope, AppendToScope
<1>5. c \in Scope
  BY <1>2, <1>4, AppendProperties DEF Scope
<1> HIDE DEF a, c
<1>6. f \in Frame /\ f.kind = "scope" /\ f.before = evm /\ f.scope = c
  BY <1>2, <1>5 DEF NewFrame, Frame, FrameKind
<1> HIDE DEF f
<1>7. /\ n \in Nat /\ n > 0 /\ stack \in Seq(Frame) /\ Top = stack[n]
      /\ Append(stack, f)[n + 1] = f /\ Append(stack, f)[n] = stack[n]
  BY <1>1, <1>6, TopFrame, AppendProperties DEF IInv, Frames, Top
<1>8. Placed(Append(stack, f), n + 1)
  BY <1>1, <1>4, <1>6, <1>7, SMTT(30) DEF Placed
<1>9. Sound(evm') /\ Frames(stack') /\ loads' \in Nat
  BY <1>1, <1>2, <1>6, <1>8, PushFrames DEF IInv
<1> QED
  BY <1>9, KeepsIInv

LEMMA SourceProxySound ==
  ASSUME IInv, NEW a \in Action
  PROVE  Sound(WithSourceProxy(a)) /\ WithSourceProxy(a).held = evm.held
         /\ WithSourceProxy(a).system = evm.system
<1>1. SourceProxy(a) \in Proxy
  BY DEF SourceProxy, Action, Proxy
<1>2. Sound(evm) /\ evm \in World
  BY EtherType
<1> QED
  BY <1>1, <1>2, ProxySound DEF WithSourceProxy, World

LEMMA MakeCallKeeps ==
  ASSUME IInv, MakeCall
  PROVE  IInv'
<1> DEFINE a == Top.action
           w == WithSourceProxy(a)
           held == evm.held - a.value
           f == NewFrame("call", <<>>, a, w)
           n == Len(stack)
<1>1. /\ stack # <<>> /\ Top.kind = "scope" /\ Top.scope = a.scope /\ a.value <= evm.held
      /\ loads' = loads /\ stack' = Append(stack, f)
      /\ evm' = [w EXCEPT !.held = w.held - a.value]
  BY DEF MakeCall, InScope, Running, AtTarget, ScopesMatch, Funded, Push
<1>2. a \in Action /\ a.value \in Nat
  BY <1>1, TopFrame DEF Frame, Action
<1>3. Sound(w) /\ w \in World /\ w.held = evm.held /\ evm.held \in Nat /\ w.system \in Nat
  BY <1>2, SourceProxySound, EtherType DEF Sound
<1>4. held \in Nat
  BY <1>1, <1>2, <1>3
<1>5. evm' = [w EXCEPT !.system = w.system, !.held = held]
  BY <1>1, <1>3 DEF World
<1>6. <<>> \in Scope
  BY EmptySeq DEF Scope
<1>7. f \in Frame /\ f.kind = "call" /\ f.before = w /\ f.action = a
  BY <1>2, <1>3, <1>6 DEF NewFrame, Frame, FrameKind
<1> HIDE DEF w, held, f
<1>8. Sound(evm')
  BY <1>3, <1>4, <1>5, EtherSound
<1>9. /\ n \in Nat /\ n > 0 /\ stack \in Seq(Frame) /\ Top = stack[n]
      /\ Append(stack, f)[n + 1] = f /\ Append(stack, f)[n] = stack[n]
  BY <1>1, <1>7, TopFrame, AppendProperties DEF IInv, Frames, Top
<1>10. Placed(Append(stack, f), n + 1)
  BY <1>1, <1>7, <1>9 DEF Placed
<1>11. Frames(stack') /\ loads' \in Nat
  BY <1>1, <1>3, <1>7, <1>10, PushFrames DEF IInv
<1> QED
  BY <1>8, <1>11, KeepsIInv

LEMMA CallUnfundedKeeps ==
  ASSUME IInv, CallUnfunded
  PROVE  IInv'
<1> DEFINE w == WithSourceProxy(Top.action)
           a == ResultAction(Top.action.rollupId, EmptyData, TRUE)
           n == Len(stack)
<1>1. stack # <<>> /\ Top.kind = "scope"
  BY DEF CallUnfunded, InScope, Running
<1>2. Top \in Frame /\ n \in Nat /\ n > 0 /\ Top = stack[n]
  BY <1>1, TopFrame DEF Top
<1>3. Sound(w)
  BY <1>2, SourceProxySound DEF Frame
<1>4. \/ /\ Answered(w, a) /\ evm' = ConsumeExecution(w, a) /\ loads' = loads
         /\ stack' = [stack EXCEPT ![n].action = NextAction(w, a)]
      \/ Abort
  BY DEF CallUnfunded
<1> HIDE DEF w, a
<1>5. CASE /\ Answered(w, a) /\ evm' = ConsumeExecution(w, a) /\ loads' = loads
           /\ stack' = [stack EXCEPT ![n].action = NextAction(w, a)]
  <2>1. Sound(evm') /\ NextAction(w, a) \in Action
    BY <1>3, <1>5, ConsumeSound
  <2>2. n \in 1..Len(stack) /\ stack[n].kind # "call" /\ Frames(stack)
    BY <1>1, <1>2 DEF IInv
  <2> HIDE DEF n
  <2>3. Frames(stack') /\ loads' \in Nat
    BY <1>5, <2>1, <2>2, UpdateFrames DEF IInv
  <2> QED
    BY <2>1, <2>3, KeepsIInv
<1> QED
  BY <1>1, <1>4, <1>5, AbortKeeps

LEMMA RevertScopeKeeps ==
  ASSUME IInv, RevertScope
  PROVE  IInv'
<1>1. /\ stack # <<>> /\ Top.kind = "scope" /\ Answered(evm, Resume)
      /\ evm' = Top.before /\ stack' = ReturnToParent(NextAction(evm, Resume)) /\ loads' = loads
  BY DEF RevertScope, InScope, Running
<1>2. Sound(Top.before) /\ NextAction(evm, Resume) \in Action
  BY <1>1, TopFrame, ConsumeSound DEF IInv
<1>3. Sound(evm') /\ Frames(stack') /\ loads' \in Nat
  BY <1>1, <1>2, ReturnFrames DEF IInv
<1> QED
  BY <1>3, KeepsIInv

LEMMA NavigateKeeps ==
  ASSUME IInv, Navigate
  PROVE  IInv'
<1>1. CASE ReturnResult
  <2>1. /\ stack # <<>> /\ evm' = evm /\ loads' = loads
        /\ stack' = SubSeq(stack, 1, Len(stack) - 1)
    BY <1>1 DEF ReturnResult, Running, Pop
  <2>2. Len(stack) - 1 \in 0..Len(stack)
    BY <2>1, TopFrame
  <2>3. Sound(evm') /\ Frames(stack') /\ loads' \in Nat
    BY <2>1, <2>2, PrefixFrames DEF IInv
  <2> QED
    BY <2>3, KeepsIInv
<1>2. CASE LeaveScope
  <2>1. /\ stack # <<>> /\ Top.kind = "scope" /\ evm' = evm /\ loads' = loads
        /\ stack' = ReturnToParent(Top.action)
    BY <1>2 DEF LeaveScope, Running
  <2>2. Top.action \in Action
    BY <2>1, TopFrame DEF Frame
  <2>3. Sound(evm') /\ Frames(stack') /\ loads' \in Nat
    BY <2>1, <2>2, ReturnFrames DEF IInv
  <2> QED
    BY <2>3, KeepsIInv
<1>3. CASE CallExecutionFailed \/ NoContinuation \/ ProxyCollision
  BY <1>3, AbortKeeps DEF CallExecutionFailed, NoContinuation, ProxyCollision, InScope, Running
<1> QED
  BY <1>1, <1>2, <1>3, EnterChildScopeKeeps, RevertScopeKeeps, MakeCallKeeps, CallUnfundedKeeps
     DEF Navigate

LEMMA CalleeKeeps ==
  ASSUME IInv, Callee
  PROVE  IInv'
<1>1. stack # <<>> /\ Top.kind = "call"
  BY DEF Callee, CallReturns, CallReverts, Running
<1>2. Sound(Top.before) /\ Sound(evm)
  BY <1>1, TopFrame DEF IInv
<1>3. ASSUME NEW data, CallReturns(data) PROVE IInv'
  BY <1>1, <1>2, <1>3, AnswerKeeps DEF CallReturns
<1>4. ASSUME NEW data, CallReverts(data) PROVE IInv'
  BY <1>1, <1>2, <1>4, AnswerKeeps DEF CallReverts
<1> QED
  BY <1>3, <1>4 DEF Callee

-----------------------------------------------------------------------------
(* The invariant holds. *)

LEMMA InitGood ==
  ASSUME Init
  PROVE  IInv
<1>1. NoEntries \in Queues /\ \A h \in Hashes : NoEntries[h] = <<>>
  BY EmptySeq DEF NoEntries, Queues
<1>2. Reserve \in Nat
  BY L2Constants
<1> HIDE DEF NoEntries
<1>3. /\ evm \in World /\ evm.executions = NoEntries /\ evm.pendingEntryCount = 0
      /\ evm.loaded = NoEntries /\ evm.consumed = NoEntries
  BY <1>1, <1>2 DEF Init, World
<1>4. Pending(evm) = {}
  <2>1. ASSUME NEW x \in Pending(evm) PROVE FALSE
    <3>1. PICK h \in Hashes : \E i \in 1..Len(evm.executions[h]) : x = <<h, i>>
      BY PendingSet
    <3>2. Len(evm.executions[h]) = 0
      BY <1>1, <1>3, <3>1
    <3> QED
      BY <3>1, <3>2
  <2> QED
    BY <2>1
<1>5. Counted(evm)
  BY <1>3, <1>4, FS_EmptySet DEF Counted
<1>6. \A e \in Entries : Count(<<>>, e) = 0
  <2> SUFFICES ASSUME NEW e \in Entries PROVE Count(<<>>, e) = 0
    OBVIOUS
  <2>1. {i \in DOMAIN <<>> : <<>>[i] = e} = {}
    OBVIOUS
  <2> QED
    BY <2>1, FS_EmptySet DEF Count
<1>7. Conserved(evm)
  BY <1>1, <1>3, <1>6, EntryTypes DEF Conserved
<1>8. stack = <<>> /\ loads = 0
  BY DEF Init
<1>9. Frames(stack)
  BY <1>8, EmptySeq DEF Frames
<1> QED
  BY <1>3, <1>5, <1>7, <1>8, <1>9 DEF IInv, Sound

LEMMA Inductive ==
  ASSUME IInv, [Next]_vars
  PROVE  IInv'
<1>1. CASE OutOfGas
  BY <1>1, AbortKeeps DEF OutOfGas
<1>2. CASE UNCHANGED vars
  <2>1. Sound(evm') /\ Frames(stack') /\ loads' \in Nat
    BY <1>2 DEF vars, IInv
  <2> QED
    BY <2>1, KeepsIInv
<1> QED
  BY <1>1, <1>2, SystemKeeps, UsersKeep, NavigateKeeps, CalleeKeeps DEF Next

(* Every state the contract reaches, or can be rolled back to, is sound.   *)
THEOREM Invariant == Spec => []IInv
<1>1. Init => IInv
  BY InitGood
<1>2. IInv /\ [Next]_vars => IInv'
  BY Inductive
<1> QED
  BY <1>1, <1>2, PTL DEF Spec

-----------------------------------------------------------------------------
(* What follows from it. *)

LEMMA WorldsSound ==
  ASSUME IInv, NEW i \in 1..(Len(stack) + 1)
  PROVE  Sound(WorldAt(i))
BY DEF IInv, Frames, WorldAt

(* TypeOK: in particular, neither the ether of the contract, nor that of   *)
(* the system address, nor pendingEntryCount, whose decrement Solidity     *)
(* checks, ever falls below zero, whatever the contracts called do.        *)
THEOREM TypeCorrect == Spec => []TypeOK
<1>1. IInv => TypeOK
  BY DEF IInv, Sound, Frames, TypeOK
<1> QED
  BY <1>1, Invariant, PTL

(* pendingEntryCount is the number of entries in the table, in the current *)
(* state and in every state that a revert would restore.                   *)
THEOREM CounterExact == Spec => []PendingCounted
<1>1. IInv => PendingCounted
  BY WorldsSound DEF PendingCounted, Sound, Counted
<1> QED
  BY <1>1, Invariant, PTL

(* Every entry that loadExecutionTable pushed is in the table still or was *)
(* consumed, as often as it was pushed, whatever was rolled back since.    *)
THEOREM UsedOnce == Spec => []ExactlyOnce
<1>1. IInv => ExactlyOnce
  BY DEF IInv, Sound, Conserved, ExactlyOnce
<1> QED
  BY <1>1, Invariant, PTL

(* CallsInTheirScope: while a call runs, the scopes that contain it are    *)
(* exactly the frames below it, the entry point under the root scope; the  *)
(* snapshots they hold undo the call when one of them reverts.             *)
THEOREM CallsPlaced == Spec => []CallsInTheirScope
<1>1. ASSUME IInv PROVE CallsInTheirScope
  <2>1. stack \in Seq(Frame) /\ Len(stack) \in Nat /\ \A i \in 1..Len(stack) : stack[i] \in Frame
    BY <1>1, ElementOfSeq DEF IInv, Frames
  <2>2. Paths(stack)
    BY <1>1, <2>1 DEF IInv, Frames, Paths, Frame, Action, Scope
  <2> QED
    BY <2>2, CallPath DEF CallsInTheirScope
<1>2. IInv => CallsInTheirScope
  BY <1>1
<1> QED
  BY <1>2, Invariant, PTL

-----------------------------------------------------------------------------
(* The answers ledger: how often each answer is in the table. *)

Slots(bag) == UNION {{<<e, i>> : i \in 1..bag[e]} : e \in Entries}

(* What the proof needs to know of a state beside Sound: an answer is under *)
(* its own key, and the counter is the size of the bag.                     *)
Sized(w) ==
    /\ \A h \in Hashes : \A i \in 1..Len(w.executions[h]) : w.executions[h][i].actionHash = h
    /\ IsFiniteSet(Slots(PendingBag(w)))
    /\ w.pendingEntryCount = Cardinality(Slots(PendingBag(w)))

LEMMA BagType ==
  ASSUME NEW w \in World
  PROVE  PendingBag(w) \in [Entries -> Nat]
<1>1. ASSUME NEW e \in Entries PROVE Count(w.executions[e.actionHash], e) \in Nat
  BY EntryTypes, QueueTypes, CountType
<1> QED
  BY <1>1 DEF PendingBag

LEMMA SlotsMore ==
  ASSUME NEW b \in [Entries -> Nat], NEW c \in [Entries -> Nat], NEW e \in Entries,
         c[e] = b[e] + 1, \A x \in Entries \ {e} : c[x] = b[x]
  PROVE  /\ Slots(c) = Slots(b) \cup {<<e, c[e]>>} /\ <<e, c[e]>> \notin Slots(b)
         /\ Slots(b) = Slots(c) \ {<<e, c[e]>>} /\ <<e, c[e]>> \in Slots(c)
<1>1. \A x, i : <<x, i>> \in Slots(b) <=> x \in Entries /\ i \in 1..b[x]
  BY DEF Slots
<1>2. \A x, i : <<x, i>> \in Slots(c) <=> x \in Entries /\ i \in 1..c[x]
  BY DEF Slots
<1>3. \A z : z \in Slots(b) \cup Slots(c) => \E x, i : z = <<x, i>>
  BY DEF Slots
<1>4. \A x \in Entries : b[x] \in Nat /\ c[x] \in Nat
  OBVIOUS
<1>5. ASSUME NEW x, NEW i
      PROVE  <<x, i>> \in Slots(c) <=> <<x, i>> \in Slots(b) \/ (x = e /\ i = c[e])
  <2>1. CASE x = e
    <3>1. i \in 1..c[e] <=> i \in 1..b[e] \/ i = c[e]
      BY <1>4
    <3> QED
      BY <1>1, <1>2, <2>1, <3>1
  <2>2. CASE x # e
    BY <1>1, <1>2, <2>2
  <2> QED
    BY <2>1, <2>2
<1>6. <<e, c[e]>> \notin Slots(b)
  BY <1>1, <1>4
<1> QED
  BY <1>3, <1>5, <1>6

(* Only the table and its counter matter. *)
LEMMA SizedSame ==
  ASSUME NEW w, Sized(w), NEW v,
         v.executions = w.executions, v.pendingEntryCount = w.pendingEntryCount
  PROVE  Sized(v) /\ PendingBag(v) = PendingBag(w)
BY DEF Sized, PendingBag

LEMMA PushSized ==
  ASSUME NEW w, Sound(w), Sized(w), NEW e \in Entries
  PROVE  /\ Sized(PushExecution(w, e))
         /\ PushExecution(w, e).system = w.system /\ PushExecution(w, e).held = w.held
         /\ \A x \in Entries : PendingBag(PushExecution(w, e))[x]
                                 = PendingBag(w)[x] + (IF e = x THEN 1 ELSE 0)
<1> DEFINE key == e.actionHash
           q == w.executions[key]
           v == PushExecution(w, e)
<1>1. /\ w \in World /\ v \in World /\ key \in Hashes /\ q \in Seq(Entries) /\ Len(q) \in Nat
      /\ w.executions \in Queues
  BY EntryTypes, QueueTypes, PushSound DEF Sound, World
<1>2. v.executions = [w.executions EXCEPT ![key] = Append(q, e)]
      /\ v.pendingEntryCount = w.pendingEntryCount + 1
      /\ v.system = w.system /\ v.held = w.held
  BY <1>1 DEF PushExecution, World
<1>3. v.executions[key] = Append(q, e) /\ \A h \in Hashes : h # key => v.executions[h] = w.executions[h]
  BY <1>1, <1>2 DEF Queues
<1> HIDE DEF v
<1>4. PendingBag(w) \in [Entries -> Nat] /\ PendingBag(v) \in [Entries -> Nat]
  BY <1>1, BagType
<1>5. ASSUME NEW x \in Entries
      PROVE  PendingBag(v)[x] = PendingBag(w)[x] + (IF e = x THEN 1 ELSE 0)
  <2>1. x.actionHash \in Hashes
    BY EntryTypes
  <2>2. CASE x.actionHash = key
    <3>1. Count(Append(q, e), x) = Count(q, x) + (IF e = x THEN 1 ELSE 0)
      BY <1>1, CountAppend
    <3> QED
      BY <1>3, <2>2, <3>1 DEF PendingBag
  <2>3. CASE x.actionHash # key
    <3>1. e # x /\ PendingBag(v)[x] = PendingBag(w)[x] /\ PendingBag(w)[x] \in Nat
      BY <1>3, <1>4, <2>1, <2>3 DEF PendingBag
    <3> QED
      BY <3>1
  <2> QED
    BY <2>2, <2>3
<1>6. ASSUME NEW h \in Hashes, NEW i \in 1..Len(v.executions[h])
      PROVE  v.executions[h][i].actionHash = h
  <2>1. CASE h = key
    <3>1. Len(Append(q, e)) = Len(q) + 1 /\ Append(q, e)[Len(q) + 1] = e
          /\ \A j \in 1..Len(q) : Append(q, e)[j] = q[j]
      BY <1>1, AppendProperties
    <3>2. \A j \in 1..Len(q) : q[j].actionHash = key
      BY <1>1 DEF Sized
    <3>3. Len(v.executions[h]) = Len(q) + 1 /\ v.executions[h][i] = Append(q, e)[i]
      BY <1>3, <2>1, <3>1
    <3>4. i \in 1..Len(q) \/ i = Len(q) + 1
      BY <1>1, <3>3
    <3> HIDE DEF q
    <3> QED
      BY <2>1, <3>1, <3>2, <3>3, <3>4
  <2>2. CASE h # key
    BY <1>3, <2>2 DEF Sized
  <2> QED
    BY <2>1, <2>2
<1> DEFINE b == PendingBag(w)
           c == PendingBag(v)
<1>7. b[e] \in Nat /\ c[e] = b[e] + 1 /\ \A x \in Entries \ {e} : c[x] = b[x]
  <2>1. \A x \in Entries : b[x] \in Nat /\ c[x] = b[x] + (IF e = x THEN 1 ELSE 0)
    BY <1>4, <1>5
  <2> HIDE DEF b, c
  <2> QED
    BY <2>1
<1> HIDE DEF b, c
<1>8. Slots(c) = Slots(b) \cup {<<e, c[e]>>} /\ <<e, c[e]>> \notin Slots(b)
  <2>1. b \in [Entries -> Nat] /\ c \in [Entries -> Nat]
    BY <1>4 DEF b, c
  <2> QED
    BY <1>7, <2>1, SlotsMore
<1>9. IsFiniteSet(Slots(b)) /\ w.pendingEntryCount = Cardinality(Slots(b))
  BY DEF Sized, b
<1>10. IsFiniteSet(Slots(c)) /\ v.pendingEntryCount = Cardinality(Slots(c))
  BY <1>2, <1>8, <1>9, FS_AddElement, ZenonT(60)
<1> QED
  BY <1>2, <1>5, <1>6, <1>10 DEF Sized, v, c

(* One transaction used answers, and the value x that came with it. *)
Below(u, w, x) ==
    /\ Sound(u) /\ Sized(u) /\ w \in World
    /\ \A e \in Entries : PendingBag(u)[e] <= PendingBag(w)[e]
    /\ u.system >= w.system - x
    /\ u.held <= w.held + x

Follows(u, w) == Below(u, w, 0)

LEMMA ConsumeFollows ==
  ASSUME NEW w, Sound(w), Sized(w), NEW a, Answered(w, a)
  PROVE  Follows(ConsumeExecution(w, a), w)
<1> DEFINE q == w.executions[a]
           f == q[1]
           v == ConsumeExecution(w, a)
<1>1. /\ w \in World /\ a \in Hashes /\ q \in Seq(Entries) /\ q # <<>>
      /\ w.executions \in Queues /\ w.pendingEntryCount \in Nat
      /\ v \in World /\ Sound(v)
  BY QueueTypes, ConsumeSound DEF Sound, World, Answered
<1>2. /\ v.executions = [w.executions EXCEPT ![a] = TakeFirst(q)]
      /\ v.pendingEntryCount = w.pendingEntryCount - 1 /\ v.system = w.system /\ v.held = w.held
      /\ w.system \in Nat /\ w.held \in Nat
  BY <1>1 DEF ConsumeExecution, World
<1>3. v.executions[a] = TakeFirst(q) /\ \A h \in Hashes : h # a => v.executions[h] = w.executions[h]
  BY <1>1, <1>2 DEF Queues
<1>4. /\ Len(q) \in Nat /\ Len(q) > 0 /\ Len(TakeFirst(q)) = Len(q) - 1 /\ f \in Entries
      /\ f.actionHash = a
  <2>1. Len(q) \in Nat /\ Len(q) > 0 /\ Len(TakeFirst(q)) = Len(q) - 1
    BY <1>1, TakeFirstType
  <2>2. 1 \in 1..Len(q)
    BY <2>1
  <2> QED
    BY <1>1, <2>1, <2>2, ElementOfSeq DEF Sized
<1> HIDE DEF v
<1>5. PendingBag(w) \in [Entries -> Nat] /\ PendingBag(v) \in [Entries -> Nat]
  BY <1>1, BagType
<1>6. ASSUME NEW x \in Entries
      PROVE  PendingBag(v)[x] = PendingBag(w)[x] - (IF f = x THEN 1 ELSE 0)
  <2>1. x.actionHash \in Hashes
    BY EntryTypes
  <2>2. CASE x.actionHash = a
    <3>1. Count(TakeFirst(q), x) = Count(q, x) - (IF f = x THEN 1 ELSE 0)
      BY <1>1, CountTakeFirst
    <3> QED
      BY <1>3, <2>2, <3>1 DEF PendingBag
  <2>3. CASE x.actionHash # a
    <3>1. f # x /\ PendingBag(v)[x] = PendingBag(w)[x] /\ PendingBag(w)[x] \in Nat
      BY <1>3, <1>4, <1>5, <2>1, <2>3 DEF PendingBag
    <3> QED
      BY <3>1
  <2> QED
    BY <2>2, <2>3
<1>7. ASSUME NEW h \in Hashes, NEW i \in 1..Len(v.executions[h])
      PROVE  v.executions[h][i].actionHash = h
  <2>1. CASE h = a
    <3>1. \A j \in 1..Len(q) : q[j].actionHash = a
      BY <1>1 DEF Sized
    <3>2. i \in 1..(Len(q) - 1) /\ TakeFirst(q)[i] = q[IF i = 1 THEN Len(q) ELSE i]
      BY <1>3, <1>4, <2>1 DEF TakeFirst
    <3> QED
      BY <1>3, <1>4, <2>1, <3>1, <3>2, SMTT(30)
  <2>2. CASE h # a
    BY <1>3, <2>2 DEF Sized
  <2> QED
    BY <2>1, <2>2
<1> DEFINE b == PendingBag(w)
           c == PendingBag(v)
<1> HIDE DEF f
<1>8. c[f] \in Nat /\ b[f] = c[f] + 1 /\ \A x \in Entries \ {f} : b[x] = c[x]
  <2>1. \A x \in Entries : b[x] \in Nat /\ c[x] \in Nat /\ c[x] = b[x] - (IF f = x THEN 1 ELSE 0)
    BY <1>5, <1>6
  <2> HIDE DEF b, c
  <2> QED
    BY <1>4, <2>1
<1>9. b \in [Entries -> Nat] /\ c \in [Entries -> Nat]
  BY <1>5
<1>10. IsFiniteSet(Slots(b)) /\ w.pendingEntryCount = Cardinality(Slots(b))
  BY DEF Sized
<1> HIDE DEF b, c
<1>11. Slots(c) = Slots(b) \ {<<f, b[f]>>} /\ <<f, b[f]>> \in Slots(b)
  BY <1>4, <1>8, <1>9, SlotsMore
<1>12. IsFiniteSet(Slots(c)) /\ v.pendingEntryCount = Cardinality(Slots(c))
  BY <1>2, <1>10, <1>11, FS_RemoveElement, ZenonT(60)
<1>13. Sized(v)
  BY <1>7, <1>12 DEF Sized, c
<1>14. \A e \in Entries : c[e] <= b[e]
  BY <1>4, <1>8, <1>9
<1> QED
  BY <1>1, <1>2, <1>13, <1>14 DEF Follows, Below, v, b, c

LEMMA LoadSized ==
  ASSUME NEW w, Sound(w), Sized(w), NEW entries \in Seq(Entries)
  PROVE  /\ Sized(Load(w, entries))
         /\ Load(w, entries).system = w.system /\ Load(w, entries).held = w.held
         /\ PendingBag(Load(w, entries)) = [e \in Entries |-> PendingBag(w)[e] + BagOf(entries)[e]]
<1> DEFINE n == Len(entries)
           Times(m, e) == Cardinality({i \in 1..m : entries[i] = e})
<1>1. PICK c : c \in LoadRuns(w, entries)
  BY LoadRun
<1>2. /\ n \in Nat /\ DOMAIN entries = 1..n /\ \A i \in 1..n : entries[i] \in Entries
      /\ c[0] = w /\ c[n] = Load(w, entries) /\ \A i \in 0..n : Sound(c[i])
      /\ \A i \in 1..n : c[i] = PushExecution(c[i - 1], entries[i])
  BY <1>1, ElementOfSeq, LenProperties DEF LoadRuns
<1> HIDE DEF n
<1> DEFINE Grown(m) ==
               /\ Sized(c[m]) /\ c[m].system = w.system /\ c[m].held = w.held
               /\ \A e \in Entries : PendingBag(c[m])[e] = PendingBag(w)[e] + Times(m, e)
           Ok == {m \in Nat : m <= n => Grown(m)}
<1>3. PendingBag(w) \in [Entries -> Nat]
  BY BagType DEF Sound
<1>4. 0 \in Ok
  <2>1. \A e : {i \in 1..0 : entries[i] = e} = {}
    OBVIOUS
  <2>2. \A e : Times(0, e) = 0
    BY <2>1, FS_EmptySet
  <2> HIDE DEF Times
  <2> QED
    BY <1>2, <1>3, <2>2
<1>5. ASSUME NEW m \in Ok PROVE m + 1 \in Ok
  <2> SUFFICES ASSUME m + 1 <= n PROVE Grown(m + 1)
    OBVIOUS
  <2>1. m \in Nat /\ m + 1 \in 1..n /\ m \in 0..n /\ (m + 1) - 1 = m /\ Grown(m)
    BY <1>2, <1>5
  <2> DEFINE x == entries[m + 1]
  <2>2. c[m + 1] = PushExecution(c[m], x) /\ x \in Entries /\ Sound(c[m]) /\ Sized(c[m])
    BY <1>2, <2>1
  <2>3. ASSUME NEW e PROVE Times(m, e) \in Nat /\ Times(m + 1, e) = Times(m, e) + (IF x = e THEN 1 ELSE 0)
    <3> DEFINE s == {i \in 1..m : entries[i] = e}
               t == {i \in 1..(m + 1) : entries[i] = e}
    <3>1. t = (IF x = e THEN s \cup {m + 1} ELSE s) /\ m + 1 \notin s
      BY <2>1
    <3>2. IsFiniteSet(s)
      <4>1. IsFiniteSet(1..m) /\ s \in SUBSET (1..m)
        BY <2>1, FS_Interval
      <4> QED
        BY <4>1, FS_Subset
    <3> HIDE DEF s, t
    <3>3. Cardinality(s) \in Nat
      BY <3>2, FS_CardinalityType
    <3>4. CASE x = e
      <4>1. Cardinality(t) = Cardinality(s) + 1
        BY <3>1, <3>2, <3>4, FS_AddElement
      <4> QED
        BY <3>3, <3>4, <4>1 DEF s, t
    <3>5. CASE x # e
      <4>1. Cardinality(t) = Cardinality(s) + 0
        BY <3>1, <3>3, <3>5
      <4> QED
        BY <3>3, <3>5, <4>1 DEF s, t
    <3> QED
      BY <3>4, <3>5
  <2> HIDE DEF Times, x
  <2>4. /\ Sized(c[m + 1]) /\ c[m + 1].system = c[m].system /\ c[m + 1].held = c[m].held
        /\ \A e \in Entries : PendingBag(c[m + 1])[e] = PendingBag(c[m])[e] + (IF x = e THEN 1 ELSE 0)
    BY <2>2, PushSized
  <2>5. ASSUME NEW e \in Entries PROVE PendingBag(c[m + 1])[e] = PendingBag(w)[e] + Times(m + 1, e)
    <3>1. PendingBag(w)[e] \in Nat /\ PendingBag(c[m])[e] = PendingBag(w)[e] + Times(m, e)
      BY <1>3, <2>1
    <3> QED
      BY <2>3, <2>4, <3>1
  <2> QED
    BY <2>1, <2>4, <2>5
<1> HIDE DEF Ok
<1>6. Ok = Nat
  <2>1. Ok \in SUBSET Nat
    BY DEF Ok
  <2> QED
    BY <1>4, <1>5, <2>1, NatSetInduction
<1>7. Grown(n)
  BY <1>2, <1>6 DEF Ok
<1>8. ASSUME NEW e \in Entries PROVE PendingBag(c[n])[e] = PendingBag(w)[e] + BagOf(entries)[e]
  <2>1. Times(n, e) = BagOf(entries)[e]
    BY <1>2 DEF BagOf, Count
  <2> QED
    BY <1>7, <2>1
<1>9. DOMAIN PendingBag(c[n]) = Entries
  BY DEF PendingBag
<1>10. PendingBag(c[n]) = [e \in Entries |-> PendingBag(w)[e] + BagOf(entries)[e]]
  <2>1. PendingBag(c[n]) = [e \in Entries |-> PendingBag(c[n])[e]]
    BY <1>9 DEF PendingBag
  <2> QED
    BY <1>8, <2>1
<1> QED
  BY <1>2, <1>7, <1>10
-----------------------------------------------------------------------------
(* What holds between transactions and inside of one: every state on the   *)
(* stack is below the one the transaction started from.                    *)

Reached(s, v) == {s[i].before : i \in 1..Len(s)} \cup {v}
Start(s, v)   == IF s = <<>> THEN v ELSE s[1].before
Amounts       == MessageValues \cup {0}

Within(s, v, x) == \A w \in Reached(s, v) : Below(w, Start(s, v), x)

LInv(s, v) == IF s = <<>> THEN Within(s, v, 0) ELSE \E x \in Amounts : Within(s, v, x)

(* Frames t over state u come after the current ones without more ether    *)
(* for the contract or more answers.                                       *)
Succeeds(t, u) ==
    /\ t # <<>> => Start(t, u) = Start(stack, evm)
    /\ \A w \in Reached(t, u) : \E z \in Reached(stack, evm) : Follows(w, z)

LEMMA AmountTypes == Amounts \subseteq Nat
BY L2Constants DEF Amounts, Action

LEMMA WorldTypes ==
  ASSUME NEW w \in World
  PROVE  /\ w.system \in Nat /\ w.held \in Nat
         /\ \A e \in Entries : PendingBag(w)[e] \in Nat
BY BagType DEF World

LEMMA FollowsItself ==
  ASSUME NEW w, Sound(w), Sized(w)
  PROVE  Follows(w, w)
BY WorldTypes DEF Follows, Below, Sound

LEMMA BelowTransitive ==
  ASSUME NEW u, NEW w, NEW z, NEW x \in Nat, Follows(u, w), Below(w, z, x)
  PROVE  Below(u, z, x)
<1>1. u \in World /\ w \in World /\ z \in World
  BY DEF Follows, Below, Sound
<1>2. ASSUME NEW e \in Entries PROVE PendingBag(u)[e] <= PendingBag(z)[e]
  <2>1. PendingBag(u)[e] <= PendingBag(w)[e] /\ PendingBag(w)[e] <= PendingBag(z)[e]
    BY DEF Follows, Below
  <2>2. PendingBag(u)[e] \in Nat /\ PendingBag(w)[e] \in Nat /\ PendingBag(z)[e] \in Nat
    BY <1>1, WorldTypes
  <2> QED
    BY <2>1, <2>2
<1>3. u.system >= z.system - x /\ u.held <= z.held + x
  <2>1. u.system >= w.system - 0 /\ u.held <= w.held + 0
        /\ w.system >= z.system - x /\ w.held <= z.held + x
    BY DEF Follows, Below
  <2>2. /\ u.system \in Nat /\ u.held \in Nat /\ w.system \in Nat /\ w.held \in Nat
        /\ z.system \in Nat /\ z.held \in Nat
    BY <1>1, WorldTypes
  <2> QED
    BY <2>1, <2>2
<1> QED
  BY <1>1, <1>2, <1>3 DEF Follows, Below

LEMMA ReachedFine ==
  ASSUME LInv(stack, evm), NEW w \in Reached(stack, evm)
  PROVE  Sound(w) /\ Sized(w) /\ Follows(w, w)
<1>1. Sound(w) /\ Sized(w)
  BY DEF LInv, Within, Below
<1> QED
  BY <1>1, FollowsItself

LEMMA AmountNow ==
  ASSUME LInv(stack, evm)
  PROVE  \E x \in Amounts : Within(stack, evm, x)
BY DEF LInv, Amounts

LEMMA SucceedsKeeps ==
  ASSUME LInv(stack, evm), NEW t, NEW u, Succeeds(t, u)
  PROVE  LInv(t, u)
<1>1. PICK x \in Amounts : Within(stack, evm, x)
  BY AmountNow
<1>2. x \in Nat
  BY AmountTypes
<1>3. CASE t = <<>>
  <2>1. Sound(u) /\ Sized(u)
    BY DEF Succeeds, Reached, Follows, Below
  <2>2. Follows(u, u)
    BY <2>1, FollowsItself
  <2>3. Reached(t, u) = {u} /\ Start(t, u) = u
    BY <1>3, EmptySeq DEF Reached, Start
  <2> QED
    BY <1>3, <2>2, <2>3 DEF LInv, Within, Follows
<1>4. CASE t # <<>>
  <2>1. Start(t, u) = Start(stack, evm)
    BY <1>4 DEF Succeeds
  <2>2. ASSUME NEW w \in Reached(t, u) PROVE Below(w, Start(t, u), x)
    <3>1. PICK z \in Reached(stack, evm) : Follows(w, z)
      BY DEF Succeeds
    <3>2. Below(z, Start(stack, evm), x)
      BY <1>1 DEF Within
    <3> QED
      BY <1>2, <2>1, <3>1, <3>2, BelowTransitive
  <2> QED
    BY <1>4, <2>2 DEF LInv, Within
<1> QED
  BY <1>3, <1>4

-----------------------------------------------------------------------------
(* How the stack changes. *)

Shorter(t) ==
    /\ Len(t) \in 0..Len(stack)
    /\ t # <<>> => Len(t) > 0 /\ stack # <<>>
    /\ \A i \in 1..Len(t) : t[i].before = stack[i].before

LEMMA ShorterSucceeds ==
  ASSUME IInv, LInv(stack, evm), NEW t, Shorter(t),
         NEW u, NEW z \in Reached(stack, evm), Follows(u, z)
  PROVE  Succeeds(t, u)
<1>1. Len(stack) \in Nat
  BY EmptySeq DEF IInv, Frames
<1>2. t # <<>> => Start(t, u) = Start(stack, evm)
  BY <1>1 DEF Shorter, Start
<1>3. ASSUME NEW w \in Reached(t, u), w # u PROVE w \in Reached(stack, evm)
  BY <1>1, <1>3 DEF Reached, Shorter
<1>4. ASSUME NEW w \in Reached(t, u) PROVE \E y \in Reached(stack, evm) : Follows(w, y)
  <2>1. CASE w = u
    BY <2>1
  <2>2. CASE w # u
    BY <1>3, <2>2, ReachedFine
  <2> QED
    BY <2>1, <2>2
<1> QED
  BY <1>2, <1>4 DEF Succeeds

LEMMA SameShorter ==
  ASSUME IInv
  PROVE  Shorter(stack)
<1>1. stack \in Seq(Frame) /\ Len(stack) \in Nat
  BY LenProperties DEF IInv, Frames
<1> QED
  BY <1>1, EmptySeq DEF Shorter

LEMMA PrefixShorter ==
  ASSUME IInv, NEW n \in 0..Len(stack)
  PROVE  Shorter(SubSeq(stack, 1, n))
<1> DEFINE t == SubSeq(stack, 1, n)
<1>1. /\ Frames(t) /\ Len(t) = n /\ \A i \in 1..n : t[i] = stack[i]
      /\ stack \in Seq(Frame) /\ Len(stack) \in Nat
  BY PrefixFrames, LenProperties DEF IInv, Frames
<1> HIDE DEF t
<1>2. t \in Seq(Frame)
  BY <1>1 DEF Frames
<1>3. t # <<>> => Len(t) > 0 /\ stack # <<>>
  BY <1>1, <1>2, EmptySeq
<1> QED
  BY <1>1, <1>3 DEF Shorter, t

LEMMA UpdateShorter ==
  ASSUME IInv, NEW n \in 1..Len(stack), NEW s \in Seq(Frame), Len(s) \in {n, Len(stack)},
         \A i \in 1..Len(s) : s[i] = stack[i], NEW a \in Action
  PROVE  Shorter([s EXCEPT ![n].action = a])
<1> DEFINE f == [s[n] EXCEPT !.action = a]
           t == [s EXCEPT ![n] = f]
<1>1. stack \in Seq(Frame) /\ Len(stack) \in Nat /\ stack # <<>> /\ n \in 1..Len(s)
  BY EmptySeq, LenProperties DEF IInv, Frames
<1>2. s[n] \in Frame
  BY <1>1, ElementOfSeq
<1>3. f \in Frame /\ f.before = s[n].before
  BY <1>2 DEF Frame
<1> HIDE DEF f
<1>4. t \in Seq(Frame) /\ Len(t) = Len(s) /\ \A i \in 1..Len(s) : t[i] = IF i = n THEN f ELSE s[i]
  BY <1>1, <1>3, ExceptSeq
<1> HIDE DEF t
<1>5. Len(t) \in 0..Len(stack) /\ Len(t) > 0
  BY <1>1, <1>4
<1>6. \A i \in 1..Len(t) : t[i].before = stack[i].before
  BY <1>3, <1>4
<1>7. Shorter(t)
  BY <1>1, <1>5, <1>6 DEF Shorter
<1> QED
  BY <1>7 DEF t, f

LEMMA ReturnShorter ==
  ASSUME IInv, stack # <<>>, Top.kind \in {"scope", "call"}, NEW a \in Action
  PROVE  Shorter(ReturnToParent(a))
<1> DEFINE n == Len(stack) - 1
           s == SubSeq(stack, 1, n)
<1>1. Len(stack) \in Nat /\ Placed(stack, Len(stack)) /\ Top = stack[Len(stack)]
  BY TopFrame DEF Top
<1>2. n \in 1..Len(stack)
  BY <1>1 DEF Placed
<1>3. n \in 0..Len(stack) /\ Frames(stack)
  BY <1>1, <1>2 DEF IInv
<1> HIDE DEF n
<1>4. s \in Seq(Frame) /\ Len(s) = n /\ \A i \in 1..Len(s) : s[i] = stack[i]
  BY <1>3, PrefixFrames DEF Frames
<1>5. ReturnToParent(a) = [s EXCEPT ![n].action = a]
  BY DEF ReturnToParent, Pop, n
<1> HIDE DEF s
<1>6. Len(s) \in {n, Len(stack)}
  BY <1>4
<1>7. Shorter([s EXCEPT ![n].action = a])
  BY <1>2, <1>4, <1>6, UpdateShorter
<1> QED
  BY <1>5, <1>7

LEMMA PushSucceeds ==
  ASSUME IInv, LInv(stack, evm), NEW f \in Frame, stack = <<>> => f.before = evm,
         NEW u, NEW z \in Reached(stack, evm), Follows(u, z),
         NEW y \in Reached(stack, evm), Follows(f.before, y)
  PROVE  Succeeds(Append(stack, f), u)
<1> DEFINE t == Append(stack, f)
           n == Len(stack)
<1>1. /\ stack \in Seq(Frame) /\ n \in Nat /\ Len(t) = n + 1 /\ t[n + 1] = f
      /\ \A i \in 1..n : t[i] = stack[i]
  BY AppendProperties, LenProperties DEF IInv, Frames
<1>2. t # <<>> /\ (stack = <<>> <=> n = 0)
  BY <1>1, EmptySeq
<1> HIDE DEF t
<1>3. Start(t, u) = Start(stack, evm)
  <2>1. CASE n = 0
    BY <1>1, <1>2, <2>1 DEF Start
  <2>2. CASE n # 0
    <3>1. 1 \in 1..n
      BY <1>1, <2>2
    <3> QED
      BY <1>1, <1>2, <2>2, <3>1 DEF Start
  <2> QED
    BY <2>1, <2>2
<1>4. ASSUME NEW w \in Reached(t, u) PROVE \E v \in Reached(stack, evm) : Follows(w, v)
  <2>1. w = u \/ \E i \in 1..(n + 1) : w = t[i].before
    BY <1>1 DEF Reached
  <2>2. ASSUME NEW i \in 1..(n + 1), w = t[i].before, i # n + 1 PROVE w \in Reached(stack, evm)
    <3>1. i \in 1..n /\ t[i] = stack[i]
      BY <1>1, <2>2
    <3> QED
      BY <2>2, <3>1 DEF Reached
  <2> QED
    BY <1>1, <2>1, <2>2, ReachedFine
<1> QED
  BY <1>3, <1>4 DEF Succeeds, t

LEMMA AbortSucceeds ==
  ASSUME IInv, LInv(stack, evm), stack # <<>>, Abort
  PROVE  Succeeds(stack', evm')
<1> DEFINE o == ThisEntry
<1>1. Len(stack) \in Nat /\ Len(stack) > 0 /\ stack[1].kind = "entry"
  BY TopFrame
<1>2. o \in 1..Len(stack)
  <2> DEFINE E == {i \in 1..Len(stack) : stack[i].kind = "entry"}
  <2>1. E # {} /\ E \in SUBSET (0..Len(stack))
    BY <1>1
  <2>2. PICK m \in E : \A j \in E : j <= m
    BY <1>1, <2>1, NatSetGreatest
  <2>3. \E i \in 1..Len(stack) :
            stack[i].kind = "entry" /\ \A j \in (i + 1)..Len(stack) : stack[j].kind # "entry"
    BY <1>1, <2>2
  <2> QED
    BY <2>3 DEF ThisEntry
<1>3. evm' = stack[o].before /\ stack' = SubSeq(stack, 1, o - 1)
  BY DEF Abort
<1> HIDE DEF o
<1>4. o - 1 \in 0..Len(stack) /\ stack[o].before \in Reached(stack, evm)
  BY <1>1, <1>2 DEF Reached
<1>5. Shorter(stack') /\ Follows(evm', stack[o].before)
  BY <1>3, <1>4, PrefixShorter, ReachedFine
<1> QED
  BY <1>4, <1>5, ShorterSucceeds

LEMMA EvmReached == evm \in Reached(stack, evm)
BY DEF Reached

LEMMA AnswerSucceeds ==
  ASSUME IInv, LInv(stack, evm), stack # <<>>, Top.kind \in {"scope", "call"},
         NEW w \in Reached(stack, evm), NEW a, Answer(w, a)
  PROVE  Succeeds(stack', evm')
<1>1. CASE /\ Answered(w, a) /\ evm' = ConsumeExecution(w, a)
           /\ stack' = ReturnToParent(NextAction(w, a))
  <2>1. Sound(w) /\ Sized(w)
    BY ReachedFine
  <2>2. Follows(evm', w) /\ NextAction(w, a) \in Action
    BY <1>1, <2>1, ConsumeFollows, ConsumeSound
  <2>3. Shorter(stack')
    BY <1>1, <2>2, ReturnShorter
  <2> QED
    BY <2>2, <2>3, ShorterSucceeds
<1> QED
  BY <1>1, AbortSucceeds DEF Answer
-----------------------------------------------------------------------------
(* The actions. *)

LEMMA ResolveSucceeds ==
  ASSUME IInv, LInv(stack, evm), NEW a \in Action, NEW u, Follows(u, evm)
  PROVE  Succeeds(ResolveScopes(a, u), u)
<1> DEFINE f == NewFrame("entry", <<>>, a, evm)
           g == NewFrame("scope", <<>>, a, u)
           s == Append(stack, f)
           n == Len(stack)
<1>1. /\ Sound(evm) /\ evm \in World /\ u \in World /\ <<>> \in Scope
      /\ Sized(evm) /\ Follows(evm, evm)
  BY EmptySeq, EvmReached, ReachedFine DEF IInv, Sound, Scope, Follows, Below
<1>2. /\ f \in Frame /\ f.before = evm
      /\ g \in Frame /\ g.before = u
  BY <1>1 DEF NewFrame, Frame, FrameKind
<1> HIDE DEF f, g
<1>3. /\ stack \in Seq(Frame) /\ n \in Nat /\ Len(s) = n + 1 /\ s \in Seq(Frame)
  BY <1>2, AppendProperties DEF IInv, Frames
<1>4. Succeeds(s, u)
  BY <1>1, <1>2, EvmReached, PushSucceeds
<1>5. s # <<>>
  BY <1>3, EmptySeq
<1> HIDE DEF s
<1>6. /\ Len(Append(s, g)) = n + 2 /\ Append(s, g)[n + 2] = g
      /\ \A i \in 1..(n + 1) : Append(s, g)[i] = s[i]
  BY <1>2, <1>3, AppendProperties
<1>7. Append(s, g) # <<>> /\ Start(Append(s, g), u) = Start(s, u)
  BY <1>3, <1>5, <1>6 DEF Start
<1>8. ASSUME NEW w \in Reached(Append(s, g), u) PROVE w \in Reached(s, u)
  <2>1. w = u \/ \E i \in 1..(n + 2) : w = Append(s, g)[i].before
    BY <1>6 DEF Reached
  <2>2. ASSUME NEW i \in 1..(n + 2), w = Append(s, g)[i].before PROVE w \in Reached(s, u)
    BY <1>2, <1>3, <1>6, <2>2 DEF Reached
  <2> QED
    BY <2>1, <2>2 DEF Reached
<1>9. Succeeds(Append(s, g), u)
  BY <1>4, <1>5, <1>7, <1>8 DEF Succeeds
<1>10. s \o <<g>> = Append(s, g) /\ s \o <<>> = s
  BY <1>2, <1>3, AppendIsConcat, ConcatEmptySeq
<1>11. ResolveScopes(a, u) = s \o (IF a.actionType = "CALL" THEN <<g>> ELSE <<>>)
  BY DEF ResolveScopes, Push, s, f, g
<1> QED
  BY <1>4, <1>9, <1>10, <1>11

LEMMA UsersSucceed ==
  ASSUME IInv, LInv(stack, evm), Users
  PROVE  Succeeds(stack', evm')
<1>1. evm \in World /\ Sound(evm) /\ Sized(evm) /\ Follows(evm, evm)
  BY EvmReached, ReachedFine DEF Sound
<1>2. ASSUME NEW p \in UserProxies, CreateCrossChainProxy(p) PROVE Succeeds(stack', evm')
  <2> DEFINE v == [evm EXCEPT !.authorizedProxies = @ \cup {p}]
  <2>1. p \in Proxy /\ evm' = v /\ stack' = stack
    BY <1>2, L2Constants DEF CreateCrossChainProxy
  <2>2. Sound(v)
    BY <1>1, <2>1, ProxySound
  <2>3. /\ v.executions = evm.executions /\ v.pendingEntryCount = evm.pendingEntryCount
        /\ v.system = evm.system /\ v.held = evm.held
    BY <1>1 DEF World
  <2> HIDE DEF v
  <2>4. Follows(v, evm)
    BY <1>1, <2>2, <2>3, SizedSame DEF Follows, Below
  <2> QED
    BY <2>1, <2>4, SameShorter, ShorterSucceeds, EvmReached
<1>3. ASSUME NEW p, NEW sender, NEW value \in CallValues, NEW data,
             ExecuteCrossChainCall(p, sender, value, data)
      PROVE  Succeeds(stack', evm')
  <2> DEFINE call == Forwarded(p, sender, value, data)
             system == evm.system + value
             paid == [evm EXCEPT !.system = system]
  <2>1. value \in Nat /\ system \in Nat /\ evm.held \in Nat /\ evm.system \in Nat
    BY <1>1, L2Constants, WorldTypes
  <2>2. /\ Answered(paid, call) /\ evm' = ConsumeExecution(paid, call)
        /\ stack' = ResolveScopes(NextAction(paid, call), ConsumeExecution(paid, call))
    BY <1>3 DEF ExecuteCrossChainCall
  <2>3. system >= evm.system
    BY <2>1
  <2> HIDE DEF system, call
  <2>4. paid = [evm EXCEPT !.system = system, !.held = evm.held]
    BY <1>1, <2>1 DEF World
  <2>5. Sound(paid)
    BY <1>1, <2>1, <2>4, EtherSound
  <2>6. /\ paid.executions = evm.executions /\ paid.pendingEntryCount = evm.pendingEntryCount
        /\ paid.system = system /\ paid.held = evm.held
    BY <1>1 DEF World
  <2> HIDE DEF paid
  <2>7. Sized(paid) /\ Follows(paid, evm)
    <3>1. Sized(paid) /\ PendingBag(paid) = PendingBag(evm)
      BY <1>1, <2>6, SizedSame
    <3>2. \A e \in Entries : PendingBag(evm)[e] \in Nat
      BY <1>1, WorldTypes
    <3> QED
      BY <1>1, <2>1, <2>3, <2>5, <2>6, <3>1, <3>2 DEF Follows, Below
  <2>8. Follows(evm', paid) /\ NextAction(paid, call) \in Action
    BY <2>2, <2>5, <2>7, ConsumeFollows, ConsumeSound
  <2>9. Follows(evm', evm)
    BY <2>7, <2>8, BelowTransitive DEF Follows
  <2> QED
    BY <2>2, <2>8, <2>9, ResolveSucceeds
<1> QED
  BY <1>2, <1>3 DEF Users

LEMMA EnterChildScopeSucceeds ==
  ASSUME IInv, LInv(stack, evm), EnterChildScope
  PROVE  Succeeds(stack', evm')
<1> DEFINE a == Top.action
           c == NextScope(Top.scope, a.scope)
           f == NewFrame("scope", c, a, evm)
<1>1. stack # <<>> /\ AboveTarget /\ evm' = evm /\ stack' = Append(stack, f)
  BY DEF EnterChildScope, InScope, Running, Push
<1>2. a \in Action /\ Top.scope \in Seq(Nat) /\ a.scope \in Seq(Nat)
      /\ evm \in World /\ Follows(evm, evm)
  BY <1>1, TopFrame, EvmReached, ReachedFine DEF Frame, Action, Scope, Sound
<1>3. Len(Top.scope) + 1 \in 1..Len(a.scope)
  BY <1>1, <1>2 DEF AboveTarget, IsChildScope
<1>4. c = Append(Top.scope, a.scope[Len(Top.scope) + 1]) /\ a.scope[Len(Top.scope) + 1] \in Nat
  BY <1>2, <1>3, ElementOfSeq DEF NextScope, AppendToScope
<1>5. c \in Scope
  BY <1>2, <1>4, AppendProperties DEF Scope
<1> HIDE DEF a, c
<1>6. f \in Frame /\ f.before = evm
  BY <1>2, <1>5 DEF NewFrame, Frame, FrameKind
<1> HIDE DEF f
<1> QED
  BY <1>1, <1>2, <1>6, EvmReached, PushSucceeds

LEMMA SourceProxyFollows ==
  ASSUME IInv, LInv(stack, evm), NEW a \in Action
  PROVE  LET w == WithSourceProxy(a)
         IN /\ Sound(w) /\ Sized(w) /\ Follows(w, evm)
            /\ w.held = evm.held /\ w.system = evm.system
<1> DEFINE w == WithSourceProxy(a)
<1>1. evm \in World /\ Sized(evm) /\ Follows(evm, evm)
  BY EvmReached, ReachedFine DEF Sound
<1>2. Sound(w) /\ w.held = evm.held /\ w.system = evm.system
  BY SourceProxySound
<1>3. w.executions = evm.executions /\ w.pendingEntryCount = evm.pendingEntryCount
  BY <1>1 DEF WithSourceProxy, World
<1> HIDE DEF w
<1>4. Sized(w) /\ Follows(w, evm)
  BY <1>1, <1>2, <1>3, SizedSame DEF Follows, Below
<1> QED
  BY <1>2, <1>4 DEF w

LEMMA MakeCallSucceeds ==
  ASSUME IInv, LInv(stack, evm), MakeCall
  PROVE  Succeeds(stack', evm')
<1> DEFINE a == Top.action
           w == WithSourceProxy(a)
           held == w.held - a.value
           v == [w EXCEPT !.held = held]
           f == NewFrame("call", <<>>, a, w)
<1>1. /\ stack # <<>> /\ a.value <= evm.held
      /\ stack' = Append(stack, f) /\ evm' = v
  BY DEF MakeCall, InScope, Running, Funded, Push
<1>2. a \in Action /\ a.value \in Nat /\ <<>> \in Scope
  BY <1>1, TopFrame, EmptySeq DEF Frame, Action, Scope
<1>3. Sound(w) /\ Sized(w) /\ Follows(w, evm) /\ w.held = evm.held /\ w \in World
  BY <1>2, SourceProxyFollows DEF Sound
<1>4. w.system \in Nat /\ w.held \in Nat /\ held \in Nat /\ held <= w.held
  BY <1>1, <1>2, <1>3, WorldTypes
<1>5. v = [w EXCEPT !.system = w.system, !.held = held]
  BY <1>3 DEF World
<1>6. f \in Frame /\ f.before = w
  BY <1>2, <1>3 DEF NewFrame, Frame, FrameKind
<1> HIDE DEF w, held, f
<1>7. Sound(v)
  BY <1>3, <1>4, <1>5, EtherSound
<1>8. /\ v.executions = w.executions /\ v.pendingEntryCount = w.pendingEntryCount
      /\ v.system = w.system /\ v.held = held
  BY <1>3 DEF World
<1> HIDE DEF v
<1>9. Sized(v) /\ PendingBag(v) = PendingBag(w)
  BY <1>3, <1>8, SizedSame
<1>10. Follows(v, w)
  <2>1. \A e \in Entries : PendingBag(w)[e] \in Nat
    BY <1>3, WorldTypes
  <2> QED
    BY <1>3, <1>4, <1>7, <1>8, <1>9, <2>1 DEF Follows, Below
<1>11. Follows(v, evm)
  BY <1>3, <1>10, BelowTransitive DEF Follows
<1> QED
  BY <1>1, <1>3, <1>6, <1>11, EvmReached, PushSucceeds

LEMMA CallUnfundedSucceeds ==
  ASSUME IInv, LInv(stack, evm), CallUnfunded
  PROVE  Succeeds(stack', evm')
<1> DEFINE w == WithSourceProxy(Top.action)
           a == ResultAction(Top.action.rollupId, EmptyData, TRUE)
           n == Len(stack)
<1>1. stack # <<>>
  BY DEF CallUnfunded, InScope, Running
<1>2. Top \in Frame /\ n \in Nat /\ n > 0 /\ stack \in Seq(Frame)
  BY <1>1, TopFrame DEF IInv, Frames
<1>3. Sound(w) /\ Sized(w) /\ Follows(w, evm)
  BY <1>2, SourceProxyFollows DEF Frame
<1>4. \/ /\ Answered(w, a) /\ evm' = ConsumeExecution(w, a)
         /\ stack' = [stack EXCEPT ![n].action = NextAction(w, a)]
      \/ Abort
  BY DEF CallUnfunded
<1> HIDE DEF w, a
<1>5. CASE /\ Answered(w, a) /\ evm' = ConsumeExecution(w, a)
           /\ stack' = [stack EXCEPT ![n].action = NextAction(w, a)]
  <2>1. Follows(evm', w) /\ NextAction(w, a) \in Action
    BY <1>3, <1>5, ConsumeFollows, ConsumeSound
  <2>2. Follows(evm', evm)
    BY <1>3, <2>1, BelowTransitive DEF Follows
  <2>3. n \in 1..Len(stack) /\ Len(stack) \in {n, Len(stack)}
    BY <1>2
  <2> HIDE DEF n
  <2>4. Shorter(stack')
    BY <1>2, <1>5, <2>1, <2>3, UpdateShorter
  <2> QED
    BY <2>2, <2>4, EvmReached, ShorterSucceeds
<1> QED
  BY <1>1, <1>4, <1>5, AbortSucceeds

LEMMA NavigateSucceeds ==
  ASSUME IInv, LInv(stack, evm), Navigate
  PROVE  Succeeds(stack', evm')
<1>1. Follows(evm, evm)
  BY EvmReached, ReachedFine
<1>2. CASE ReturnResult
  <2>1. stack # <<>> /\ evm' = evm /\ stack' = SubSeq(stack, 1, Len(stack) - 1)
    BY <1>2 DEF ReturnResult, Running, Pop
  <2>2. Len(stack) - 1 \in 0..Len(stack)
    BY <2>1, TopFrame
  <2> QED
    BY <1>1, <2>1, <2>2, PrefixShorter, EvmReached, ShorterSucceeds
<1>3. CASE LeaveScope
  <2>1. stack # <<>> /\ Top.kind = "scope" /\ evm' = evm /\ stack' = ReturnToParent(Top.action)
    BY <1>3 DEF LeaveScope, Running
  <2>2. Top.action \in Action
    BY <2>1, TopFrame DEF Frame
  <2> QED
    BY <1>1, <2>1, <2>2, ReturnShorter, EvmReached, ShorterSucceeds
<1>4. CASE RevertScope
  <2>1. /\ stack # <<>> /\ Top.kind = "scope" /\ Answered(evm, Resume)
        /\ evm' = Top.before /\ stack' = ReturnToParent(NextAction(evm, Resume))
    BY <1>4 DEF RevertScope, InScope, Running
  <2>2. NextAction(evm, Resume) \in Action /\ Len(stack) \in 1..Len(stack)
    BY <2>1, TopFrame, ConsumeSound DEF IInv
  <2>3. Top.before \in Reached(stack, evm)
    BY <2>2 DEF Reached, Top
  <2> QED
    BY <2>1, <2>2, <2>3, ReachedFine, ReturnShorter, ShorterSucceeds
<1>5. CASE CallExecutionFailed \/ NoContinuation \/ ProxyCollision
  BY <1>5, AbortSucceeds DEF CallExecutionFailed, NoContinuation, ProxyCollision, InScope, Running
<1> QED
  BY <1>2, <1>3, <1>4, <1>5, EnterChildScopeSucceeds, MakeCallSucceeds, CallUnfundedSucceeds
     DEF Navigate

LEMMA CalleeSucceeds ==
  ASSUME IInv, LInv(stack, evm), Callee
  PROVE  Succeeds(stack', evm')
<1>1. stack # <<>> /\ Top.kind = "call"
  BY DEF Callee, CallReturns, CallReverts, Running
<1>2. Len(stack) \in 1..Len(stack)
  BY <1>1, TopFrame
<1>3. Top.before \in Reached(stack, evm)
  BY <1>2 DEF Reached, Top
<1>4. ASSUME NEW data, CallReturns(data) PROVE Succeeds(stack', evm')
  BY <1>1, <1>4, EvmReached, AnswerSucceeds DEF CallReturns
<1>5. ASSUME NEW data, CallReverts(data) PROVE Succeeds(stack', evm')
  BY <1>1, <1>3, <1>5, AnswerSucceeds DEF CallReverts
<1> QED
  BY <1>4, <1>5 DEF Callee

-----------------------------------------------------------------------------
(* The ledger's steps. *)

LEMMA AnswersNow ==
  ASSUME stack \in Seq(Frame), stack' \in Seq(Frame)
  PROVE  /\ WorldAt(1) = Start(stack, evm)
         /\ PendingBag(WorldAt(1))' = PendingBag(Start(stack', evm'))
         /\ (WorldAt(1).pendingEntryCount)' = Start(stack', evm').pendingEntryCount
         /\ (WorldAt(1).system)' = Start(stack', evm').system
         /\ (WorldAt(1).held)' = Start(stack', evm').held
<1>1. Len(stack) \in Nat /\ Len(stack') \in Nat
  BY LenProperties
<1>2. 1 <= Len(stack) <=> stack # <<>>
  BY <1>1, EmptySeq
<1>3. 1 <= Len(stack') <=> stack' # <<>>
  BY <1>1, EmptySeq
<1> QED
  BY <1>2, <1>3 DEF WorldAt, Start, PendingBag

LEMMA SizeIsSlots ==
  ASSUME NEW b
  PROVE  Answers!Size(b) = Cardinality(Slots(b))
BY DEF Answers!Size, Slots, Answers!Cardinality, Cardinality, Answers!IsFiniteSet, IsFiniteSet

(* A transaction that has not ended is not seen, and one that has ended is *)
(* one of the ledger's.                                                    *)
LEMMA SucceedsImplements ==
  ASSUME stack \in Seq(Frame), stack' \in Seq(Frame), LInv(stack, evm), Succeeds(stack', evm')
  PROVE  [Answers!Next]_(Answers!answers)
<1>1. CASE stack' # <<>>
  <2>1. Start(stack', evm') = Start(stack, evm)
    BY <1>1 DEF Succeeds
  <2> QED
    BY <2>1, AnswersNow DEF Answers!answers
<1>2. CASE stack' = <<>>
  <2>1. PICK x \in Amounts : Within(stack, evm, x)
    BY AmountNow
  <2>2. PICK z \in Reached(stack, evm) : Follows(evm', z)
    BY DEF Succeeds, Reached
  <2>3. Below(evm', Start(stack, evm), x)
    BY <2>1, <2>2, AmountTypes, BelowTransitive DEF Within
  <2>4. Start(stack', evm') = evm'
    BY <1>2 DEF Start
  <2>5. Answers!Transact(x)
    BY <2>3, <2>4, AnswersNow, SizeIsSlots DEF Answers!Transact, Below, Sized
  <2> QED
    BY <2>5 DEF Answers!Next, Amounts
<1> QED
  BY <1>1, <1>2

LEMMA LoadImplements ==
  ASSUME IInv, LInv(stack, evm), NEW entries \in Tables, LoadExecutionTable(entries)
  PROVE  LInv(stack', evm') /\ [Answers!Next]_(Answers!answers)
<1>1. entries \in Seq(Entries) /\ stack = <<>> /\ stack' = <<>> /\ evm' = Load(evm, entries)
  BY L2Constants DEF LoadExecutionTable
<1>2. Sound(evm) /\ Sized(evm) /\ evm \in World
  BY EvmReached, ReachedFine DEF Sound
<1>3. /\ Sound(evm') /\ Sized(evm') /\ evm'.system = evm.system /\ evm'.held = evm.held
      /\ PendingBag(evm') = [e \in Entries |-> PendingBag(evm)[e] + BagOf(entries)[e]]
  BY <1>1, <1>2, LoadSound, LoadSized
<1>4. LInv(stack', evm')
  <2>1. Reached(stack', evm') = {evm'} /\ Start(stack', evm') = evm'
    BY <1>1, EmptySeq DEF Reached, Start
  <2> QED
    BY <1>1, <1>3, <2>1, FollowsItself DEF LInv, Within, Follows
<1>5. Answers!Load(BagOf(entries))
  <2>1. Start(stack, evm) = evm /\ Start(stack', evm') = evm'
    BY <1>1 DEF Start
  <2>2. stack \in Seq(Frame) /\ stack' \in Seq(Frame)
    BY <1>1 DEF IInv, Frames
  <2> QED
    BY <1>3, <2>1, <2>2, AnswersNow, SizeIsSlots DEF Answers!Load, Sized
<1> QED
  BY <1>4, <1>5 DEF Answers!Next
(* What the system sends along with a call may be paid out again.          *)
LEMMA IncomingImplements ==
  ASSUME IInv, LInv(stack, evm), stack' \in Seq(Frame),
         NEW call \in IncomingCalls, NEW x \in MessageValues,
         ExecuteIncomingCrossChainCall(call, x)
  PROVE  LInv(stack', evm') /\ [Answers!Next]_(Answers!answers)
<1> DEFINE system == evm.system - x
           held == evm.held + x
           v == [evm EXCEPT !.system = system, !.held = held]
           f == NewFrame("entry", <<>>, call, evm)
           g == NewFrame("scope", <<>>, call, v)
<1>1. /\ stack = <<>> /\ x <= evm.system /\ evm' = v
      /\ stack' = ResolveScopes(call, v) /\ call \in Action /\ x \in Amounts
      /\ call.actionType = "CALL" /\ evm \in World /\ Sound(evm) /\ Sized(evm)
  <2>1. evm \in World /\ Sound(evm) /\ Sized(evm)
    BY EvmReached, ReachedFine DEF Sound
  <2>2. call \in Action /\ call.actionType = "CALL" /\ x \in Amounts
    BY L2Constants DEF Amounts
  <2> QED
    BY <2>1, <2>2 DEF ExecuteIncomingCrossChainCall, World
<1>2. Len(stack') = 2 /\ stack'[1] = f /\ stack'[2] = g
  <2>1. stack' = Append(Append(<<>>, f), g)
    BY <1>1 DEF ResolveScopes, Push
  <2> HIDE DEF f, g
  <2>2. Append(<<>>, f) = <<f>>
    OBVIOUS
  <2>3. <<f>> \in Seq({f, g})
    OBVIOUS
  <2>4. /\ Append(<<f>>, g) \in Seq({f, g}) /\ Len(Append(<<f>>, g)) = 2
        /\ Append(<<f>>, g)[1] = f /\ Append(<<f>>, g)[2] = g
    BY <2>3, AppendProperties
  <2> QED
    BY <2>1, <2>2, <2>4
<1>3. x \in Nat /\ evm.system \in Nat /\ evm.held \in Nat /\ system \in Nat /\ held \in Nat
  BY <1>1, AmountTypes, WorldTypes
<1>4. f.before = evm /\ g.before = v
  BY DEF NewFrame
<1> HIDE DEF f, g
<1>4a. /\ stack' # <<>> /\ Len(stack') = 2
      /\ stack'[1].before = evm /\ stack'[2].before = v
  <2> HIDE DEF v
  <2>1. stack'[1].before = f.before
    BY <1>2
  <2>2. stack'[2].before = g.before
    BY <1>2
  <2>3. Len(stack') # Len(<<>>)
    BY <1>2
  <2>4. stack' # <<>>
    BY <2>3
  <2> QED
    BY <1>2, <1>4, <2>1, <2>2, <2>4
<1>5. Start(stack', evm') = evm /\ Start(stack, evm) = evm
  <2> HIDE DEF v
  <2> QED
    BY <1>1, <1>4a DEF Start
<1>6. stack' # <<>> /\ \A w \in Reached(stack', evm') : w = evm \/ w = v
  <2> HIDE DEF v
  <2>2. \A i \in 1..2 : i = 1 \/ i = 2
    OBVIOUS
  <2>3. evm' = v
    BY <1>1
  <2> QED
    BY <1>4a, <2>2, <2>3 DEF Reached
<1>7. /\ v.executions = evm.executions /\ v.pendingEntryCount = evm.pendingEntryCount
      /\ v.system = system /\ v.held = held
  BY <1>1 DEF World
<1>8. system >= evm.system - x /\ held <= evm.held + x
  BY <1>3
<1>9. evm.system >= evm.system - x /\ evm.held <= evm.held + x
  BY <1>3
<1> HIDE DEF system, held
<1>10. Sound(v)
  BY <1>1, <1>3, EtherSound
<1> HIDE DEF v
<1>11. Sized(v) /\ PendingBag(v) = PendingBag(evm)
  BY <1>1, <1>7, SizedSame
<1>12. \A e \in Entries : PendingBag(evm)[e] \in Nat
  BY <1>1, WorldTypes
<1>13. Below(v, evm, x) /\ Below(evm, evm, x)
  BY <1>1, <1>7, <1>8, <1>9, <1>10, <1>11, <1>12 DEF Below
<1>14. LInv(stack', evm')
  BY <1>1, <1>5, <1>6, <1>13 DEF LInv, Within
<1>15. UNCHANGED Answers!answers
  <2>1. stack \in Seq(Frame)
    BY DEF IInv, Frames
  <2> QED
    BY <1>5, <2>1, AnswersNow DEF Answers!answers
<1> QED
  BY <1>14, <1>15

LEMMA StepImplements ==
  ASSUME IInv, LInv(stack, evm), [Next]_vars
  PROVE  LInv(stack, evm)' /\ [Answers!Next]_(Answers!answers)
<1>1. stack \in Seq(Frame) /\ stack' \in Seq(Frame)
  BY Inductive DEF IInv, Frames
<1>2. LInv(stack, evm)' <=> LInv(stack', evm')
  BY DEF LInv, Within, Start, Reached, Below, Amounts, Sound, Sized, Counted, Conserved
<1>3. ASSUME Succeeds(stack', evm') PROVE LInv(stack', evm') /\ [Answers!Next]_(Answers!answers)
  BY <1>1, <1>3, SucceedsKeeps, SucceedsImplements
<1>4. CASE Next
  <2>1. CASE System
    BY <1>1, <2>1, LoadImplements, IncomingImplements DEF System
  <2>2. CASE OutOfGas
    BY <1>3, <2>2, AbortSucceeds DEF OutOfGas
  <2> QED
    BY <1>3, <1>4, <2>1, <2>2, UsersSucceed, NavigateSucceeds, CalleeSucceeds DEF Next
<1>5. CASE UNCHANGED vars
  BY <1>1, <1>5, AnswersNow DEF vars, Answers!answers
<1> QED
  BY <1>2, <1>4, <1>5 DEF vars

LEMMA InitImplements ==
  ASSUME Init
  PROVE  LInv(stack, evm) /\ Answers!Init
<1>1. IInv /\ stack = <<>>
  BY InitGood DEF Init
<1>2. /\ evm.executions = NoEntries /\ evm.pendingEntryCount = 0
      /\ evm.system = Reserve /\ evm.held = 0 /\ Sound(evm)
  BY <1>1 DEF Init, IInv
<1>3. \A h \in Hashes : NoEntries[h] = <<>>
  BY DEF NoEntries
<1>4. \A e \in Entries : Count(<<>>, e) = 0
  BY PlacesEmpty DEF Count, Places
<1>5. PendingBag(evm) = [e \in Entries |-> 0]
  BY <1>2, <1>3, <1>4, EntryTypes DEF PendingBag
<1>6. Slots([e \in Entries |-> 0]) = {}
  <2>1. 1..0 = {}
    OBVIOUS
  <2> QED
    BY <2>1 DEF Slots
<1>7. Sized(evm)
  <2>1. Cardinality(Slots(PendingBag(evm))) = 0
    BY <1>5, <1>6, FS_EmptySet
  <2>2. IsFiniteSet(Slots(PendingBag(evm)))
    BY <1>5, <1>6, FS_EmptySet
  <2>3. ASSUME NEW h \in Hashes, NEW i \in 1..Len(evm.executions[h]) PROVE FALSE
    <3>1. evm.executions[h] = <<>>
      BY <1>2, <1>3
    <3>2. Len(<<>>) = 0
      OBVIOUS
    <3> QED
      BY <2>3, <3>1, <3>2
  <2> QED
    BY <1>2, <2>1, <2>2, <2>3 DEF Sized
<1>8. Reached(stack, evm) = {evm} /\ Start(stack, evm) = evm
  BY <1>1, EmptySeq DEF Reached, Start
<1>9. LInv(stack, evm)
  BY <1>1, <1>2, <1>7, <1>8, FollowsItself DEF LInv, Within, Follows
<1>10. WorldAt(1) = evm
  BY <1>1, EmptySeq DEF WorldAt
<1> QED
  BY <1>2, <1>5, <1>9, <1>10 DEF Answers!Init

(* ImplementsAnswers: seen from outside, a transaction of any depth, with   *)
(* any reverts inside, is one step that takes answers out of the table,    *)
(* keeps pendingEntryCount exact, and draws on the system address by no    *)
(* more than the ether sent along with the call that was delivered.        *)
THEOREM ImplementsTheAnswers == Spec => ImplementsAnswers
<1>1. Init => LInv(stack, evm) /\ Answers!Init
  BY InitImplements
<1>2. IInv /\ LInv(stack, evm) /\ [Next]_vars
        => LInv(stack, evm)' /\ [Answers!Next]_(Answers!answers)
  BY StepImplements
<1> QED
  BY <1>1, <1>2, Invariant, PTL DEF Spec, ImplementsAnswers, Answers!Spec
=============================================================================
