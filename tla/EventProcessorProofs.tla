------------------------- MODULE EventProcessorProofs -------------------------
(***************************************************************************)
(* Theorems about the event processor, for every content of L1 blocks,     *)
(* every depth and number of reorgs, and every failure of L1, reth and the *)
(* process: what the node tracks is L1's root whenever its own hashes give *)
(* it no reason for doubt.                                                 *)
(***************************************************************************)
EXTENDS EventProcessor, ProofLibrary

-----------------------------------------------------------------------------
(* L1. *)

Event == [kind: Kinds, name: STRING, currentState: Root, newState: Root]
Block == [gen: Nat, events: Seq(Event)]

(* In a run of executions no event that changes the root follows an        *)
(* accounting event: only then is the last accounting event of a batch     *)
(* also the last event of its group.                                       *)
AccountingLast(kinds) ==
    \A i, j \in DOMAIN kinds :
        (/\ i < j /\ kinds[i] = "accounting"
         /\ \A k \in i..j : kinds[k] # "update") => kinds[j] = "accounting"

KindsOf(events) == [i \in DOMAIN events |-> events[i].kind]

(* What L1 may put into a block. *)
AccountingComesLast == \A payload \in Payloads : AccountingLast(KindsOf(payload))

EventsFine(events) ==
    /\ AccountingLast(KindsOf(events))
    /\ \A i \in DOMAIN events : ChangesState(events[i]) <=> events[i].kind # "accounting"

IsSequence(s) == s \in Seq({s[i] : i \in DOMAIN s})

(* L1 is the chain of blocks b after r reorgs. *)
ChainOK(b, r) ==
    /\ b \in Seq(Block) /\ Len(b) <= MaxBlocks
    /\ \A n \in DOMAIN b : b[n].gen <= r /\ EventsFine(b[n].events)
    /\ r \in 0..MaxReorgs

L1OK == ChainOK(l1, reorgs)

(* The reorgs that are still possible reach no block up to Final. *)
Reach(r) == (MaxReorgs - r) * ReorgDepth
Final(b, r) == Len(b) - Reach(r)

RootAt(b, n) == L1RootOf(SubSeq(b, 1, n))

-----------------------------------------------------------------------------
(* What the node remembers: hashes h, checkpoints cps, and the root it     *)
(* tracks after block n.  All of it is true of L1 as far as the hashes up  *)
(* to the block in question are still those of L1.                         *)

Matches(b, h, n) == n \in DOMAIN b /\ b[n].gen = h[n]

Solid(b, h, n) == \A m \in DOMAIN h : m <= n => Matches(b, h, m)

(* A hash that was replaced does not come back. *)
Recorded(b, r, h) ==
    \A n \in DOMAIN h :
        /\ n \in 1..MaxBlocks /\ n <= Final(b, r) + Reach(0)
        /\ h[n] \in Nat
        /\ IF n \in DOMAIN b THEN h[n] <= b[n].gen ELSE h[n] < r

Covered(b, r, h, n) == \A m \in 1..n : m \in DOMAIN h \/ m <= Final(b, r)

Tracks(b, h, n, root) == root \in Root /\ (Solid(b, h, n) => root = RootAt(b, n))

CheckpointsOK(b, h, n, cps) ==
    /\ IsSequence(cps)
    /\ \A i \in DOMAIN cps :
          /\ cps[i].l1BlockNumber \in 1..n
          /\ Tracks(b, h, cps[i].l1BlockNumber - 1, cps[i].trackedStateRoot)

Remembers(b, r, h, n, cps) ==
    /\ n \in Nat /\ Recorded(b, r, h) /\ Covered(b, r, h, n)
    /\ CheckpointsOK(b, h, n, cps)

-----------------------------------------------------------------------------
(* The fetch that is going on.  RootBefore(i) is the root before the i-th  *)
(* event of the queue, and Opens(i) says that it is the first one of its   *)
(* block.                                                                  *)

LogEntry == [block: Nat, gen: Nat, event: Event]

RootBefore(queue, root, i) == IF i = 1 THEN root ELSE queue[i - 1].event.newState

Opens(queue, at, i) ==
    IF i = 1 THEN at # queue[1].block ELSE queue[i - 1].block # queue[i].block

InOneBlock(queue, i, j) ==
    \A k \in i..j : queue[k].block = queue[i].block /\ queue[k].event.kind # "update"

(* The queue as far as it does not depend on L1. *)
QueueFine(queue, from, to) ==
    /\ queue \in Seq(LogEntry)
    /\ \A i \in DOMAIN queue :
          /\ queue[i].block \in from..to
          /\ ChangesState(queue[i].event) <=> queue[i].event.kind # "accounting"
    /\ \A i, j \in DOMAIN queue :
          i < j /\ queue[i].event.kind = "accounting" /\ InOneBlock(queue, i, j)
          => queue[j].event.kind = "accounting"

QueueTracks(b, h, queue, at, root, to) ==
    /\ \A i \in DOMAIN queue :
          Opens(queue, at, i) =>
             Tracks(b, h, queue[i].block - 1, RootBefore(queue, root, i))
    /\ Tracks(b, h, to, RootBefore(queue, root, Len(queue) + 1))

Fetching == pc \in {"hashes", "query", "events"}

HashesJob ==
    /\ job.at \in 1..(job.to + 1) /\ job.at > lastProcessedBlock
    /\ Covered(l1, reorgs, blockHashHistory, job.at - 1)

EventsJob ==
    /\ QueueFine(job.queue, job.from, job.to)
    /\ QueueTracks(l1, blockHashHistory, job.queue, job.at, tracked, job.to)

JobOK ==
    /\ Fetching => job.from = lastProcessedBlock + 1 /\ job.to \in job.from..Len(l1)
    /\ pc = "hashes" => HashesJob
    /\ pc \in {"query", "events"} => Covered(l1, reorgs, blockHashHistory, job.to)
    /\ pc = "events" => EventsJob

(* A fetch has processed events of blocks up to job.to. *)
Horizon == IF pc = "events" THEN job.to ELSE lastProcessedBlock

MemoryOK ==
    /\ lastProcessedBlock \in Nat /\ tracked \in Root
    /\ Recorded(l1, reorgs, blockHashHistory)
    /\ Covered(l1, reorgs, blockHashHistory, lastProcessedBlock)
    /\ CheckpointsOK(l1, blockHashHistory, Horizon, checkpoints)
    /\ pc # "events" => Tracks(l1, blockHashHistory, lastProcessedBlock, tracked)

Restorable(b, r, saved) ==
    LET data == saved.reorgData
    IN /\ Remembers(b, r, data.blockHashHistory, saved.lastProcessedBlock, data.checkpoints)
       /\ Tracks(b, data.blockHashHistory, saved.lastProcessedBlock, saved.stateRoot)

DiskOK == disk # <<>> => Restorable(l1, reorgs, disk[1])

IInv == L1OK /\ MemoryOK /\ DiskOK /\ JobOK

-----------------------------------------------------------------------------
LEMMA OwnElements ==
  ASSUME NEW S, NEW s \in Seq(S)
  PROVE  IsSequence(s)
<1> DEFINE D == {s[i] : i \in DOMAIN s}
<1>1. Len(s) \in Nat /\ DOMAIN s = 1..Len(s) /\ s = [i \in 1..Len(s) |-> s[i]]
  BY LenProperties
<1>2. \A i \in 1..Len(s) : s[i] \in D
  BY <1>1
<1> HIDE DEF D
<1>3. s \in Seq(D)
  BY <1>1, <1>2, IsASeq
<1> QED
  BY <1>3 DEF D, IsSequence

-----------------------------------------------------------------------------
(* The events of a block. *)

Item == [kind: Kinds, name: STRING]

LEMMA RootAfterType ==
  ASSUME NEW root \in Root, NEW e \in Item
  PROVE  /\ RootAfter(root, e) \in Root
         /\ RootAfter(root, e) # root <=> e.kind # "accounting"
<1> DEFINE T == Transaction
<1>1. e.kind \in Kinds /\ e.name \in STRING
  BY DEF Item
<1>2. CASE e.kind = "update"
  <2> DEFINE x == [kind |-> "update", name |-> e.name]
  <2>1. x \in Transaction
    BY <1>1 DEF Transaction, Kinds
  <2>2. RootAfter(root, e) = Append(root, x)
    BY <1>2 DEF RootAfter
  <2> HIDE DEF x
  <2>3. Append(root, x) \in Seq(Transaction) /\ Len(Append(root, x)) = Len(root) + 1 /\ Len(root) \in Nat
    BY <2>1, AppendProperties DEF Root
  <2>4. Append(root, x) # root
    BY <2>3
  <2> QED
    BY <1>2, <2>2, <2>3, <2>4 DEF Root
<1>3. CASE e.kind # "update"
  <2> DEFINE ts == Transactions(e)
  <2>1. ts \in Seq(Transaction) /\ (ts = <<>> <=> e.kind = "accounting")
    <3>1. CASE e.kind = "withdrawal"
      <4>1. ts = <<PreloadL2ToL1Entry(e), OriginalTransaction(e)>>
        BY <3>1 DEF Transactions
      <4>2. PreloadL2ToL1Entry(e) \in Transaction /\ OriginalTransaction(e) \in Transaction
        BY <1>1 DEF PreloadL2ToL1Entry, OriginalTransaction, Transaction
      <4> QED
        BY <3>1, <4>1, <4>2
    <3>2. CASE e.kind \in {"tx", "deploy"}
      <4>1. ts = <<OriginalTransaction(e)>>
        BY <3>2 DEF Transactions
      <4>2. OriginalTransaction(e) \in Transaction
        BY <1>1 DEF OriginalTransaction, Transaction
      <4> QED
        BY <3>2, <4>1, <4>2
    <3>3. CASE e.kind = "call"
      <4>1. ts = <<IncomingCall(e)>>
        BY <3>3 DEF Transactions
      <4>2. IncomingCall(e) \in Transaction
        BY <1>1 DEF IncomingCall, Transaction, Kinds
      <4> QED
        BY <3>3, <4>1, <4>2
    <3>4. CASE e.kind = "accounting"
      <4>1. ts = <<>>
        BY <3>4 DEF Transactions
      <4> QED
        BY <3>4, <4>1
    <3> QED
      BY <1>1, <1>3, <3>1, <3>2, <3>3, <3>4 DEF Kinds
  <2>2. RootAfter(root, e) = root \o ts
    BY <1>3 DEF RootAfter
  <2> HIDE DEF ts
  <2>3. root \o ts \in Seq(Transaction) /\ Len(root \o ts) = Len(root) + Len(ts)
        /\ Len(root) \in Nat /\ Len(ts) \in Nat
    BY <2>1, ConcatProperties DEF Root
  <2>4. Len(ts) = 0 <=> ts = <<>>
    BY <2>1, EmptySeq
  <2>5. ts = <<>> => root \o ts = root
    BY ConcatEmptySeq DEF Root
  <2> QED
    BY <2>1, <2>2, <2>3, <2>4, <2>5 DEF Root
<1> QED
  BY <1>2, <1>3

(* The events that a block emits follow its content one by one, each from  *)
(* the root that the one before it left.                                   *)
LEMMA EmittedEvents ==
  ASSUME NEW root \in Root, NEW payload \in Seq(Item)
  PROVE  LET events == Emitted(root, payload)
         IN /\ events \in Seq(Event) /\ Len(events) = Len(payload)
            /\ \A i \in 1..Len(payload) :
                  /\ events[i].kind = payload[i].kind
                  /\ ChangesState(events[i]) <=> events[i].kind # "accounting"
                  /\ events[i] = EventFrom(IF i = 1 THEN root ELSE events[i - 1].newState, payload[i])
<1> DEFINE N == Len(payload)
           Before(x, n) == IF n = 1 THEN root ELSE x[n - 1].newState
           Next1(x, n) == Append(x, EventFrom(Before(x, n), payload[n]))
           Eq(f) == f = [n \in 0..N |-> IF n = 0 THEN <<>>
                            ELSE Append(f[n - 1], EventFrom(IF n = 1 THEN root ELSE f[n - 1][n - 1].newState, payload[n]))]
           g == [n \in 1..N |-> [x \in Seq(Event) |-> IF Len(x) = n - 1 THEN Next1(x, n) ELSE x]]
<1>1. N \in Nat /\ \A n \in 1..N : payload[n] \in Item
  BY LenProperties, ElementOfSeq
<1>2. ASSUME NEW n \in 1..N, NEW x \in Seq(Event), Len(x) = n - 1
      PROVE  /\ Before(x, n) \in Root
             /\ EventFrom(Before(x, n), payload[n]) \in Event
             /\ EventFrom(Before(x, n), payload[n]).kind = payload[n].kind
             /\ ChangesState(EventFrom(Before(x, n), payload[n])) <=> payload[n].kind # "accounting"
  <2>1. Before(x, n) \in Root
    <3>1. CASE n = 1
      BY <3>1
    <3>2. CASE n # 1
      <4>1. n - 1 \in 1..Len(x)
        BY <1>1, <1>2, <3>2
      <4>2. x[n - 1] \in Event
        BY <4>1, ElementOfSeq
      <4> QED
        BY <3>2, <4>2 DEF Event
    <3> QED
      BY <3>1, <3>2
  <2> DEFINE b == Before(x, n)
  <2> HIDE DEF Before
  <2>2. RootAfter(b, payload[n]) \in Root /\ (RootAfter(b, payload[n]) # b <=> payload[n].kind # "accounting")
    BY <1>1, <2>1, RootAfterType
  <2>3. payload[n].kind \in Kinds /\ payload[n].name \in STRING
    BY <1>1 DEF Item
  <2> QED
    BY <2>1, <2>2, <2>3 DEF EventFrom, Event, ChangesState
<1>3. g \in [1..N -> [Seq(Event) -> Seq(Event)]]
  <2> SUFFICES ASSUME NEW n \in 1..N, NEW x \in Seq(Event), Len(x) = n - 1 PROVE Next1(x, n) \in Seq(Event)
    OBVIOUS
  <2>1. EventFrom(Before(x, n), payload[n]) \in Event
    BY <1>2
  <2> QED
    BY <2>1, AppendProperties
<1>4. <<>> \in Seq(Event)
  BY EmptySeq
<1> HIDE DEF g, N
<1>5. PICK f \in [0..N -> Seq(Event)] : f[0] = <<>> /\ \A n \in 1..N : f[n] = g[n][f[n - 1]]
  <2> DEFINE S == Seq(Event)
             a == <<>>
  <2>1. a \in S /\ N \in Nat /\ g \in Loops(N, S)
    BY <1>1, <1>3, <1>4 DEF Loops
  <2> HIDE DEF S, a
  <2>2. Traces(N, S, a, g) # {}
    BY <2>1, Recursion
  <2> QED
    BY <2>2 DEF S, a, Traces
<1> DEFINE Good(x, n) ==
              /\ x \in Seq(Event) /\ Len(x) = n
              /\ \A i \in 1..n : /\ x[i].kind = payload[i].kind
                                 /\ ChangesState(x[i]) <=> payload[i].kind # "accounting"
                                 /\ x[i] = EventFrom(Before(x, i), payload[i])
<1>6. ASSUME NEW n \in 1..N, NEW x, Good(x, n - 1) PROVE Good(Next1(x, n), n)
  <2> DEFINE e == EventFrom(Before(x, n), payload[n])
  <2>1. x \in Seq(Event) /\ Len(x) = n - 1
    BY <1>6
  <2>2. e \in Event /\ e.kind = payload[n].kind /\ (ChangesState(e) <=> payload[n].kind # "accounting")
    BY <1>2, <2>1
  <2>5. e = EventFrom(Before(x, n), payload[n])
    OBVIOUS
  <2> HIDE DEF e
  <2>3. /\ Append(x, e) \in Seq(Event) /\ Len(Append(x, e)) = n - 1 + 1
        /\ Append(x, e)[n] = e /\ \A i \in 1..(n - 1) : Append(x, e)[i] = x[i]
    BY <1>1, <2>1, <2>2, AppendProperties
  <2>6. ASSUME NEW i \in 1..n PROVE Before(Append(x, e), i) = Before(x, i)
    <3>1. CASE i = 1
      BY <3>1
    <3>2. CASE i # 1
      <4>1. i - 1 \in 1..(n - 1)
        BY <1>1, <3>2
      <4> QED
        BY <2>3, <3>2, <4>1
    <3> QED
      BY <3>1, <3>2
  <2>4. ASSUME NEW i \in 1..n
        PROVE /\ Append(x, e)[i].kind = payload[i].kind
              /\ ChangesState(Append(x, e)[i]) <=> payload[i].kind # "accounting"
              /\ Append(x, e)[i] = EventFrom(Before(Append(x, e), i), payload[i])
    <3>1. CASE i = n
      <4>1. Before(Append(x, e), n) = Before(x, n)
        BY <2>6, <3>1
      <4> HIDE DEF Before
      <4> QED
        BY <2>2, <2>3, <2>5, <3>1, <4>1
    <3>2. CASE i # n
      <4>1. i \in 1..(n - 1)
        BY <1>1, <3>2
      <4>2. Before(Append(x, e), i) = Before(x, i)
        BY <2>6
      <4>3. /\ x[i].kind = payload[i].kind
            /\ ChangesState(x[i]) <=> payload[i].kind # "accounting"
            /\ x[i] = EventFrom(Before(x, i), payload[i])
        BY <1>6, <4>1
      <4>4. Append(x, e)[i] = x[i]
        BY <2>3, <4>1
      <4> HIDE DEF Before
      <4> QED
        BY <4>2, <4>3, <4>4
    <3> QED
      BY <3>1, <3>2
  <2> QED
    BY <1>1, <2>3, <2>4 DEF e
<1>7. ASSUME NEW f0, f0[0] = <<>>,
             \A n \in 1..N : Good(f0[n - 1], n - 1) => f0[n] = Next1(f0[n - 1], n)
      PROVE  \A n \in 0..N : Good(f0[n], n)
  <2> DEFINE Ok == {n \in Nat : n <= N => Good(f0[n], n)}
  <2>1. 0 \in Ok
    <3>1. Good(<<>>, 0) /\ f0[0] = <<>>
      BY <1>4, <1>7
    <3> HIDE DEF Good
    <3> QED
      BY <3>1
  <2>2. ASSUME NEW n \in Ok PROVE n + 1 \in Ok
    <3> SUFFICES ASSUME n + 1 <= N PROVE Good(f0[n + 1], n + 1)
      OBVIOUS
    <3> HIDE DEF Good, Next1
    <3>1. Good(f0[n], n) /\ n + 1 \in 1..N /\ n + 1 - 1 = n
      BY <1>1, <2>2
    <3>2. f0[n + 1] = Next1(f0[n], n + 1)
      BY <1>7, <3>1
    <3> QED
      BY <1>6, <3>1, <3>2
  <2> HIDE DEF Ok, Good
  <2>3. Ok = Nat
    <3>1. Ok \in SUBSET Nat
      BY DEF Ok
    <3> QED
      BY <2>1, <2>2, <3>1, NatSetInduction
  <2>4. ASSUME NEW n \in 0..N PROVE Good(f0[n], n)
    <3>1. n \in Nat /\ n <= N
      BY <1>1
    <3> QED
      BY <2>3, <3>1 DEF Ok
  <2> QED
    BY <2>4
<1>8. Eq(f)
  <2>1. ASSUME NEW n \in 1..N, Good(f[n - 1], n - 1) PROVE f[n] = Next1(f[n - 1], n)
    BY <1>5, <2>1 DEF g
  <2>2. \A n \in 0..N : Good(f[n], n)
    <3> HIDE DEF Good, Next1
    <3> QED
      BY <1>5, <1>7, <2>1
  <2>3. ASSUME NEW n \in 1..N PROVE f[n] = Next1(f[n - 1], n)
    <3>1. n - 1 \in 0..N
      BY <1>1
    <3> HIDE DEF Good, Next1
    <3> QED
      BY <2>1, <2>2, <3>1
  <2> DEFINE v == [n \in 0..N |-> IF n = 0 THEN <<>> ELSE Next1(f[n - 1], n)]
  <2>4. \A n \in 0..N : f[n] = IF n = 0 THEN <<>> ELSE Next1(f[n - 1], n)
    <3> HIDE DEF Next1
    <3> QED
      BY <1>1, <1>5, <2>3
  <2>5. f = v
    <3> HIDE DEF Next1
    <3> QED
      BY <2>4
  <2> QED
    BY <2>5
<1> DEFINE c == CHOOSE u : Eq(u)
<1>9. Eq(c)
  BY <1>8
<1>10. Emitted(root, payload) = c[N]
  BY DEF Emitted, N
<1> HIDE DEF c
<1>11. \A n \in 0..N : Good(c[n], n)
  <2>1. c[0] = <<>>
    BY <1>1, <1>9
  <2>2. ASSUME NEW n \in 1..N PROVE c[n] = Next1(c[n - 1], n)
    <3>1. n \in 0..N /\ n # 0
      BY <1>1
    <3> QED
      BY <1>9, <3>1
  <2> HIDE DEF Good, Next1
  <2> QED
    BY <1>7, <2>1, <2>2
<1> QED
  BY <1>1, <1>10, <1>11 DEF N

-----------------------------------------------------------------------------
(* The root of a chain of blocks. *)

LEMMA BlockTypes ==
  ASSUME NEW blocks \in Seq(Block)
  PROVE  /\ Len(blocks) \in Nat /\ DOMAIN blocks = 1..Len(blocks)
         /\ \A n \in 1..Len(blocks) :
               /\ blocks[n] \in Block /\ blocks[n].gen \in Nat
               /\ blocks[n].events \in Seq(Event)
<1>1. Len(blocks) \in Nat /\ DOMAIN blocks = 1..Len(blocks)
  BY LenProperties
<1>2. \A n \in 1..Len(blocks) : blocks[n] \in Block
  BY ElementOfSeq
<1> QED
  BY <1>1, <1>2 DEF Block

LEMMA LastEvent ==
  ASSUME NEW events \in Seq(Event), events # <<>>
  PROVE  /\ Len(events) \in Nat /\ Len(events) > 0
         /\ Last(events) = events[Len(events)]
         /\ Last(events) \in Event /\ Last(events).newState \in Root
<1>1. Len(events) \in Nat /\ Len(events) > 0
  BY EmptySeq, LenProperties
<1>2. events[Len(events)] \in Event
  BY <1>1, ElementOfSeq
<1> QED
  BY <1>1, <1>2 DEF Last, Event

(* The root is the one after the last event of the last block that has one. *)
LEMMA RootOfBlocks ==
  ASSUME NEW blocks \in Seq(Block), NEW n \in 1..Len(blocks),
         blocks[n].events # <<>>, \A m \in (n + 1)..Len(blocks) : blocks[m].events = <<>>
  PROVE  L1RootOf(blocks) = Last(blocks[n].events).newState
<1> DEFINE written == {m \in DOMAIN blocks : blocks[m].events # <<>>}
           top == CHOOSE m \in written : \A k \in written : k <= m
<1>1. Len(blocks) \in Nat /\ DOMAIN blocks = 1..Len(blocks)
  BY LenProperties
<1>2. n \in written /\ \A k \in written : k <= n
  BY <1>1
<1>3. top \in written /\ \A k \in written : k <= top
  BY <1>2
<1>4. top = n
  BY <1>1, <1>2, <1>3
<1> HIDE DEF top
<1>5. L1RootOf(blocks) = Last(blocks[top].events).newState
  BY <1>2 DEF L1RootOf, top
<1> QED
  BY <1>4, <1>5

LEMMA RootOfEmptyBlocks ==
  ASSUME NEW blocks \in Seq(Block), \A m \in 1..Len(blocks) : blocks[m].events = <<>>
  PROVE  L1RootOf(blocks) = <<>>
<1>1. DOMAIN blocks = 1..Len(blocks)
  BY LenProperties
<1> QED
  BY <1>1 DEF L1RootOf

LEMMA PrefixTypes ==
  ASSUME NEW blocks \in Seq(Block), NEW n \in 0..Len(blocks)
  PROVE  /\ SubSeq(blocks, 1, n) \in Seq(Block) /\ Len(SubSeq(blocks, 1, n)) = n
         /\ \A i \in 1..n : SubSeq(blocks, 1, n)[i] = blocks[i]
<1>1. Len(blocks) \in Nat /\ n \in Nat /\ \A i \in 1..n : blocks[i] \in Block
  BY LenProperties, ElementOfSeq
<1>2. CASE n = 0
  <2>1. SubSeq(blocks, 1, n) = <<>>
    BY <1>1, <1>2, SubSeqEmpty
  <2> QED
    BY <1>2, <2>1
<1>3. CASE n > 0
  BY <1>1, <1>3, SubSeqProperties
<1> QED
  BY <1>1, <1>2, <1>3

(* Block by block: a block with events sets the root to that of its last   *)
(* one, a block without leaves it.                                         *)
LEMMA RootOfPrefix ==
  ASSUME NEW blocks \in Seq(Block), NEW n \in 1..Len(blocks)
  PROVE  L1RootOf(SubSeq(blocks, 1, n)) =
            IF blocks[n].events = <<>> THEN L1RootOf(SubSeq(blocks, 1, n - 1))
            ELSE Last(blocks[n].events).newState
<1> DEFINE p == SubSeq(blocks, 1, n)
           q == SubSeq(blocks, 1, n - 1)
<1>1. Len(blocks) \in Nat /\ n \in Nat /\ n - 1 \in 0..Len(blocks) /\ n \in 0..Len(blocks)
  BY LenProperties
<1>2. /\ p \in Seq(Block) /\ Len(p) = n /\ \A i \in 1..n : p[i] = blocks[i]
      /\ q \in Seq(Block) /\ Len(q) = n - 1 /\ \A i \in 1..(n - 1) : q[i] = blocks[i]
  BY <1>1, PrefixTypes
<1> HIDE DEF p, q
<1>3. CASE blocks[n].events # <<>>
  <2>1. n \in 1..Len(p) /\ p[n] = blocks[n] /\ \A m \in (n + 1)..Len(p) : p[m].events = <<>>
    BY <1>1, <1>2
  <2>2. L1RootOf(p) = Last(p[n].events).newState
    BY <1>2, <1>3, <2>1, RootOfBlocks
  <2> QED
    BY <1>3, <2>1, <2>2 DEF p
<1>4. CASE blocks[n].events = <<>>
  <2> DEFINE W == {m \in 1..(n - 1) : blocks[m].events # <<>>}
  <2>1. CASE W = {}
    <3>1. \A m \in 1..Len(p) : p[m].events = <<>>
      BY <1>1, <1>2, <1>4, <2>1
    <3>2. \A m \in 1..Len(q) : q[m].events = <<>>
      BY <1>1, <1>2, <2>1
    <3> QED
      BY <1>2, <1>4, <3>1, <3>2, RootOfEmptyBlocks DEF p, q
  <2>2. CASE W # {}
    <3>1. W \in SUBSET (0..n) /\ n \in Nat
      BY <1>1
    <3>2. PICK k \in W : \A m \in W : m <= k
      BY <2>2, <3>1, NatSetGreatest
    <3>3. /\ k \in 1..(n - 1) /\ blocks[k].events # <<>>
          /\ \A m \in (k + 1)..(n - 1) : blocks[m].events = <<>>
      BY <1>1, <3>2
    <3>4. L1RootOf(p) = Last(p[k].events).newState
      <4>1. k \in 1..Len(p) /\ p[k].events # <<>> /\ \A m \in (k + 1)..Len(p) : p[m].events = <<>>
        BY <1>1, <1>2, <1>4, <3>3
      <4> QED
        BY <1>2, <4>1, RootOfBlocks
    <3>5. L1RootOf(q) = Last(q[k].events).newState
      <4>1. k \in 1..Len(q) /\ q[k].events # <<>> /\ \A m \in (k + 1)..Len(q) : q[m].events = <<>>
        BY <1>1, <1>2, <3>3, SMTT(30)
      <4> QED
        BY <1>2, <4>1, RootOfBlocks
    <3>6. p[k] = blocks[k] /\ q[k] = blocks[k]
      BY <1>1, <1>2, <3>3
    <3> QED
      BY <1>4, <3>4, <3>5, <3>6 DEF p, q
  <2> QED
    BY <2>1, <2>2
<1> QED
  BY <1>3, <1>4

LEMMA RootOfNothing ==
  ASSUME NEW blocks \in Seq(Block)
  PROVE  L1RootOf(SubSeq(blocks, 1, 0)) = <<>>
<1>1. Len(blocks) \in Nat
  BY LenProperties
<1>2. SubSeq(blocks, 1, 0) = <<>>
  BY SubSeqEmpty
<1> DEFINE p == SubSeq(blocks, 1, 0)
<1>3. p \in Seq(Block) /\ \A m \in 1..Len(p) : p[m].events = <<>>
  BY <1>2, EmptySeq
<1> HIDE DEF p
<1>4. L1RootOf(p) = <<>>
  BY <1>3, RootOfEmptyBlocks
<1> QED
  BY <1>4 DEF p

LEMMA RootType ==
  ASSUME NEW blocks \in Seq(Block)
  PROVE  L1RootOf(blocks) \in Root
<1>1. Len(blocks) \in Nat
  BY LenProperties
<1> DEFINE W == {m \in 1..Len(blocks) : blocks[m].events # <<>>}
<1>2. CASE W = {}
  <2>1. L1RootOf(blocks) = <<>>
    BY <1>2, RootOfEmptyBlocks
  <2> QED
    BY <2>1, EmptySeq DEF Root
<1>3. CASE W # {}
  <2>1. W \in SUBSET (0..Len(blocks))
    BY <1>1
  <2>2. PICK k \in W : \A m \in W : m <= k
    BY <1>1, <1>3, <2>1, NatSetGreatest
  <2>3. /\ k \in 1..Len(blocks) /\ blocks[k].events # <<>>
        /\ \A m \in (k + 1)..Len(blocks) : blocks[m].events = <<>>
    BY <1>1, <2>2
  <2>4. L1RootOf(blocks) = Last(blocks[k].events).newState
    BY <2>3, RootOfBlocks
  <2>5. blocks[k].events \in Seq(Event)
    BY <2>3, BlockTypes
  <2> QED
    BY <2>3, <2>4, <2>5, LastEvent
<1> QED
  BY <1>2, <1>3

(* Chains with the same first n blocks have the same root there. *)
LEMMA SamePrefix ==
  ASSUME NEW b \in Seq(Block), NEW c \in Seq(Block), NEW n \in 0..Len(b), n <= Len(c),
         \A i \in 1..n : b[i] = c[i]
  PROVE  L1RootOf(SubSeq(b, 1, n)) = L1RootOf(SubSeq(c, 1, n))
<1>1. Len(b) \in Nat /\ Len(c) \in Nat /\ n \in 0..Len(c)
  BY LenProperties
<1>2. /\ SubSeq(b, 1, n) \in Seq(Block) /\ Len(SubSeq(b, 1, n)) = n
      /\ \A i \in 1..n : SubSeq(b, 1, n)[i] = b[i]
  BY PrefixTypes
<1>3. /\ SubSeq(c, 1, n) \in Seq(Block) /\ Len(SubSeq(c, 1, n)) = n
      /\ \A i \in 1..n : SubSeq(c, 1, n)[i] = c[i]
  BY <1>1, PrefixTypes
<1>4. SubSeq(b, 1, n) = SubSeq(c, 1, n)
  BY <1>2, <1>3, SeqEqual
<1> QED
  BY <1>4

-----------------------------------------------------------------------------
(* Steps of L1. *)

LEMMA WithBlockChain ==
  ASSUME AccountingComesLast, NEW blocks \in Seq(Block), NEW gen \in Nat, NEW payload \in Payloads
  PROVE  LET c == WithBlock(blocks, gen, payload)
         IN /\ c \in Seq(Block) /\ Len(c) = Len(blocks) + 1 /\ Len(blocks) \in Nat
            /\ \A n \in 1..Len(blocks) : c[n] = blocks[n]
            /\ c[Len(blocks) + 1].gen = gen
            /\ EventsFine(c[Len(blocks) + 1].events)
<1> DEFINE events == Emitted(L1RootOf(blocks), payload)
           b == [gen |-> gen, events |-> events]
           N == Len(payload)
<1>1. payload \in Seq(Item) /\ N \in Nat /\ DOMAIN payload = 1..N
  BY ProcessorConstants, LenProperties DEF Item
<1>2. /\ events \in Seq(Event) /\ Len(events) = N
      /\ \A i \in 1..N : /\ events[i].kind = payload[i].kind
                         /\ ChangesState(events[i]) <=> events[i].kind # "accounting"
  BY <1>1, RootType, EmittedEvents
<1>3. DOMAIN events = 1..N
  BY <1>2, LenProperties
<1> HIDE DEF events
<1>4. EventsFine(events)
  <2>1. KindsOf(events) = KindsOf(payload)
    <3>1. \A i \in 1..N : events[i].kind = payload[i].kind
      BY <1>2
    <3> QED
      BY <1>1, <1>3, <3>1 DEF KindsOf
  <2> QED
    BY <1>2, <1>3, <2>1 DEF EventsFine, AccountingComesLast
<1>5. b \in Block
  BY <1>2 DEF Block
<1>6. WithBlock(blocks, gen, payload) = Append(blocks, b)
  BY DEF WithBlock, events
<1> HIDE DEF b
<1>7. /\ Append(blocks, b) \in Seq(Block) /\ Len(Append(blocks, b)) = Len(blocks) + 1
      /\ Len(blocks) \in Nat /\ \A n \in 1..Len(blocks) : Append(blocks, b)[n] = blocks[n]
      /\ Append(blocks, b)[Len(blocks) + 1] = b
  BY <1>5, AppendProperties, LenProperties
<1>8. b.gen = gen /\ b.events = events
  BY DEF b
<1> QED
  BY <1>4, <1>6, <1>7, <1>8

(* A step of L1 from (b, r) to (c, s) keeps the blocks up to k; what is    *)
(* above them is new.  Only a reorg removes blocks, and then the new ones  *)
(* are of a generation that no block was of before.                        *)
L1Step(b, r, c, s, k) ==
    /\ k \in 0..Len(b) /\ k <= Len(c) /\ r <= s
    /\ Final(b, r) <= k /\ Final(b, r) <= Final(c, s)
    /\ Final(b, r) \in Int /\ Final(c, s) \in Int
    /\ \A n \in 1..k : c[n] = b[n]
    /\ \A n \in (k + 1)..Len(c) : c[n].gen = s
    /\ k < Len(b) => r < s

LEMMA Reaches ==
  ASSUME NEW r \in 0..MaxReorgs
  PROVE  /\ Reach(r) \in Nat /\ Reach(r) <= Reach(0)
         /\ r < MaxReorgs => Reach(r) = Reach(r + 1) + ReorgDepth /\ Reach(r + 1) \in Nat
<1>1. r \in Nat /\ MaxReorgs \in Nat /\ ReorgDepth \in Nat /\ r <= MaxReorgs
  BY ProcessorConstants
<1> DEFINE a == MaxReorgs - r
           d == ReorgDepth
<1>2. a \in Nat /\ d \in Nat
  BY <1>1
<1>3. Reach(r) = a * d /\ a * d \in Nat
  BY <1>2 DEF Reach
<1>4. Reach(r) <= Reach(0)
  <2> DEFINE w == a * d
             z == r * d
  <2>1. Reach(0) = (a + r) * d
    BY <1>1 DEF Reach
  <2> HIDE DEF a, d
  <2>2. (a + r) * d = a * d + r * d /\ r * d \in Nat
    BY <1>1, <1>2
  <2>3. Reach(r) = w /\ Reach(0) = w + z /\ w \in Nat /\ z \in Nat
    BY <1>3, <2>1, <2>2
  <2> HIDE DEF w, z, Reach
  <2> QED
    BY <2>3
<1>5. ASSUME r < MaxReorgs PROVE Reach(r) = Reach(r + 1) + ReorgDepth /\ Reach(r + 1) \in Nat
  <2>1. a - 1 \in Nat /\ MaxReorgs - (r + 1) = a - 1
    BY <1>1, <1>5
  <2>2. Reach(r + 1) = (a - 1) * d
    BY <2>1 DEF Reach
  <2> HIDE DEF a, d
  <2>3. (a - 1) * d \in Nat /\ a * d = (a - 1) * d + d
    BY <1>2, <2>1
  <2> QED
    BY <1>3, <2>2, <2>3 DEF d
<1> QED
  BY <1>3, <1>4, <1>5

LEMMA NewBlockStep ==
  ASSUME AccountingComesLast, L1OK, NEW payload \in Payloads, NewBlock(payload)
  PROVE  /\ L1OK' /\ \E k \in Nat : L1Step(l1, reorgs, l1', reorgs', k)
         /\ Fetching => Len(l1) <= Len(l1')
<1> DEFINE N == Len(l1)
<1>1. /\ l1 \in Seq(Block) /\ N \in Nat /\ DOMAIN l1 = 1..N /\ reorgs \in Nat
      /\ \A n \in 1..N : l1[n].gen <= reorgs /\ EventsFine(l1[n].events) /\ l1[n].gen \in Nat
  BY BlockTypes, ProcessorConstants DEF L1OK, ChainOK
<1>2. l1' = WithBlock(l1, reorgs, payload) /\ reorgs' = reorgs /\ N < MaxBlocks /\ pc' = pc
  BY DEF NewBlock
<1>3. /\ l1' \in Seq(Block) /\ Len(l1') = N + 1 /\ \A n \in 1..N : l1'[n] = l1[n]
      /\ l1'[N + 1].gen = reorgs /\ EventsFine(l1'[N + 1].events)
  BY <1>1, <1>2, WithBlockChain
<1>4. DOMAIN l1' = 1..(N + 1)
  BY <1>3, LenProperties
<1> HIDE DEF N
<1>5. L1OK'
  <2>1. ASSUME NEW n \in DOMAIN l1' PROVE l1'[n].gen <= reorgs' /\ EventsFine(l1'[n].events)
    <3>1. CASE n = N + 1
      BY <1>1, <1>2, <1>3, <3>1
    <3>2. CASE n # N + 1
      <4>1. n \in 1..N
        BY <1>1, <1>4, <3>2
      <4> QED
        BY <1>1, <1>2, <1>3, <4>1
    <3> QED
      BY <3>1, <3>2
  <2>2. reorgs' \in 0..MaxReorgs /\ Len(l1') <= MaxBlocks
    BY <1>1, <1>2, <1>3, ProcessorConstants DEF L1OK, ChainOK
  <2> QED
    BY <1>3, <2>1, <2>2 DEF L1OK, ChainOK
<1>6. L1Step(l1, reorgs, l1', reorgs', N) /\ N <= Len(l1')
  <2> DEFINE z == Reach(reorgs)
  <2>1. z \in Nat
    BY Reaches DEF L1OK, ChainOK
  <2>2. Final(l1, reorgs) = N - z
    BY DEF Final, N
  <2>3. Final(l1', reorgs') = N + 1 - z
    <3>1. Final(l1', reorgs') = Len(l1') - Reach(reorgs')
      BY DEF Final
    <3>2. Reach(reorgs') = z
      BY <1>2
    <3> HIDE DEF z
    <3> QED
      BY <1>1, <1>3, <2>1, <3>1, <3>2
  <2> HIDE DEF z
  <2>4. Final(l1, reorgs) <= N /\ Final(l1, reorgs) <= Final(l1', reorgs') /\ Final(l1, reorgs) \in Int /\ Final(l1', reorgs') \in Int
    <3> HIDE DEF Final
    <3> QED
      BY <1>1, <2>1, <2>2, <2>3
  <2>5. \A n \in (N + 1)..Len(l1') : l1'[n].gen = reorgs'
    BY <1>1, <1>2, <1>3
  <2> HIDE DEF Final
  <2> QED
    BY <1>1, <1>2, <1>3, <2>4, <2>5 DEF L1Step, N
<1> QED
  BY <1>1, <1>5, <1>6

(* The chains that a reorg goes through, block by block. *)
Rebuilds(c, kept, gen, payloads, n) ==
    /\ c[0] = kept
    /\ \A i \in 1..n : c[i] = WithBlock(c[i - 1], gen, payloads[i]) /\ Fresh(c[i - 1], payloads[i])

LEMMA ReorgChains ==
  ASSUME AccountingComesLast, L1OK,
         NEW removed \in 1..ReorgDepth, NEW n \in 0..ReorgDepth,
         NEW payloads \in [1..n -> Payloads], Reorg(removed, payloads)
  PROVE  \E c : /\ Rebuilds(c, SubSeq(l1, 1, Len(l1) - removed), reorgs + 1, payloads, n)
               /\ l1' = c[n]
<1> DEFINE N == Len(l1)
           K == N - removed
           kept == SubSeq(l1, 1, K)
           Eq(f) == f = [i \in 0..Len(payloads) |->
                           IF i = 0 THEN kept ELSE WithBlock(f[i - 1], reorgs + 1, payloads[i])]
           c == CHOOSE f : Eq(f)
           g == [i \in 1..n |-> [x \in Seq(Block) |-> WithBlock(x, reorgs + 1, payloads[i])]]
<1>1. /\ l1 \in Seq(Block) /\ N \in Nat /\ DOMAIN l1 = 1..N /\ reorgs \in Nat
      /\ \A m \in 1..N : l1[m].gen <= reorgs /\ EventsFine(l1[m].events) /\ l1[m].gen \in Nat
  BY BlockTypes, ProcessorConstants DEF L1OK, ChainOK
<1>2. /\ removed <= N /\ n \in Nat /\ removed \in Nat
      /\ l1' = c[n] /\ Len(payloads) = n /\ DOMAIN payloads = 1..n
      /\ \A i \in DOMAIN payloads : Fresh(c[i - 1], payloads[i])
  <2>1. n \in Nat /\ removed \in Nat /\ Len(payloads) = n /\ DOMAIN payloads = 1..n
    BY ProcessorConstants
  <2>2. removed <= N
    BY DEF Reorg
  <2>3. l1' = c[Len(payloads)] /\ \A i \in DOMAIN payloads : Fresh(c[i - 1], payloads[i])
    BY DEF Reorg
  <2> HIDE DEF c, N
  <2> QED
    BY <2>1, <2>2, <2>3
<1> HIDE DEF c
<1>3. /\ kept \in Seq(Block) /\ Len(kept) = K /\ \A m \in 1..K : kept[m] = l1[m]
      /\ K \in 0..N
  <2>1. K \in 0..N
    BY <1>1, <1>2
  <2> QED
    BY <1>1, <2>1, PrefixTypes
<1> HIDE DEF N, K, kept
<1>4. g \in Loops(n, Seq(Block))
  <2>1. ASSUME NEW i \in 1..n, NEW x \in Seq(Block)
        PROVE  WithBlock(x, reorgs + 1, payloads[i]) \in Seq(Block)
    <3> DEFINE gen == reorgs + 1
               payload == payloads[i]
    <3>1. gen \in Nat /\ payload \in Payloads
      BY <1>1
    <3> HIDE DEF gen, payload
    <3>2. WithBlock(x, gen, payload) \in Seq(Block)
      BY <3>1, WithBlockChain
    <3> QED
      BY <3>2 DEF gen, payload
  <2> QED
    BY <2>1 DEF Loops
<1> HIDE DEF g
<1>5. PICK f : f \in Traces(n, Seq(Block), kept, g)
  <2> DEFINE S == Seq(Block)
  <2>1. kept \in S /\ n \in Nat /\ g \in Loops(n, S)
    BY <1>2, <1>3, <1>4
  <2> HIDE DEF S
  <2>2. Traces(n, S, kept, g) # {}
    BY <2>1, Recursion
  <2> QED
    BY <2>2 DEF S
<1>6. Eq(f)
  <2>1. /\ f \in [0..n -> Seq(Block)] /\ f[0] = kept
        /\ \A i \in 1..n : f[i] = g[i][f[i - 1]]
    BY <1>5 DEF Traces
  <2>2. ASSUME NEW i \in 1..n PROVE f[i] = WithBlock(f[i - 1], reorgs + 1, payloads[i])
    <3>1. f[i - 1] \in Seq(Block)
      BY <1>2, <2>1
    <3> QED
      BY <2>1, <3>1 DEF g
  <2>3. f = [i \in 0..n |-> IF i = 0 THEN kept ELSE WithBlock(f[i - 1], reorgs + 1, payloads[i])]
    <3> DEFINE v == [i \in 0..n |-> IF i = 0 THEN kept ELSE WithBlock(f[i - 1], reorgs + 1, payloads[i])]
    <3>1. ASSUME NEW i \in 0..n PROVE f[i] = v[i]
      BY <1>2, <2>1, <2>2
    <3>2. DOMAIN f = DOMAIN v /\ f = [i \in 0..n |-> f[i]] /\ v = [i \in 0..n |-> v[i]]
      BY <2>1
    <3> HIDE DEF v
    <3>3. f = v
      BY <3>1, <3>2
    <3> QED
      BY <3>3 DEF v
  <2> QED
    BY <1>2, <2>3
<1>7. Eq(c)
  BY <1>6 DEF c
<1>8. Rebuilds(c, kept, reorgs + 1, payloads, n)
  <2>1. c[0] = kept
    BY <1>2, <1>7
  <2>2. ASSUME NEW i \in 1..n PROVE c[i] = WithBlock(c[i - 1], reorgs + 1, payloads[i])
    <3>1. i \in 0..Len(payloads) /\ i # 0
      BY <1>2
    <3> QED
      BY <1>7, <3>1
  <2> QED
    BY <1>2, <2>1, <2>2 DEF Rebuilds
<1>9. kept = SubSeq(l1, 1, Len(l1) - removed)
  BY DEF kept, K, N
<1> QED
  BY <1>2, <1>8, <1>9

LEMMA ReorgStep ==
  ASSUME AccountingComesLast, Shrinks # "ever", L1OK,
         NEW removed \in 1..ReorgDepth, NEW n \in 0..ReorgDepth,
         NEW payloads \in [1..n -> Payloads], Reorg(removed, payloads)
  PROVE  /\ L1OK' /\ \E k \in Nat : L1Step(l1, reorgs, l1', reorgs', k)
         /\ Fetching => Len(l1) <= Len(l1')
<1> DEFINE N == Len(l1)
           K == N - removed
           kept == SubSeq(l1, 1, K)
<1>1. /\ l1 \in Seq(Block) /\ N \in Nat /\ DOMAIN l1 = 1..N /\ reorgs \in Nat
      /\ \A m \in 1..N : l1[m].gen <= reorgs /\ EventsFine(l1[m].events) /\ l1[m].gen \in Nat
  BY BlockTypes, ProcessorConstants DEF L1OK, ChainOK
<1>2. /\ reorgs < MaxReorgs /\ removed <= N /\ N - removed + n <= MaxBlocks
      /\ n < removed => Shrinks = "idle" /\ pc = "poll"
      /\ reorgs' = reorgs + 1 /\ pc' = pc /\ n \in Nat /\ removed \in Nat
      /\ Len(payloads) = n
  <2>1. Len(payloads) = n
    BY ProcessorConstants
  <2> QED
    BY <2>1, ProcessorConstants DEF Reorg
<1>7. PICK c : Rebuilds(c, kept, reorgs + 1, payloads, n) /\ l1' = c[n]
  BY ReorgChains
<1>3. /\ kept \in Seq(Block) /\ Len(kept) = K /\ \A m \in 1..K : kept[m] = l1[m]
      /\ K \in 0..N
  <2>1. K \in 0..N
    BY <1>1, <1>2
  <2> QED
    BY <1>1, <2>1, PrefixTypes
<1> HIDE DEF N, K, kept
<1> DEFINE Good(x, i) ==
              /\ x \in Seq(Block) /\ Len(x) = K + i
              /\ \A m \in 1..K : x[m] = l1[m]
              /\ \A m \in (K + 1)..(K + i) : x[m].gen = reorgs + 1 /\ EventsFine(x[m].events)
           Ok == {i \in Nat : i <= n => Good(c[i], i)}
<1>8. 0 \in Ok
  <2>1. c[0] = kept
    BY <1>7 DEF Rebuilds
  <2> QED
    BY <1>3, <2>1
<1>9. ASSUME NEW i \in Ok PROVE i + 1 \in Ok
  <2> SUFFICES ASSUME i + 1 <= n PROVE Good(c[i + 1], i + 1)
    BY <1>9
  <2>1. i \in Nat /\ Good(c[i], i) /\ i + 1 \in 1..n /\ i + 1 - 1 = i /\ K \in Nat
    BY <1>2, <1>3, <1>9
  <2>2. c[i + 1] = WithBlock(c[i], reorgs + 1, payloads[i + 1])
    BY <1>7, <2>1 DEF Rebuilds
  <2> DEFINE x == c[i]
             y == c[i + 1]
  <2>3. /\ y \in Seq(Block) /\ Len(y) = K + i + 1 /\ \A m \in 1..(K + i) : y[m] = x[m]
        /\ y[K + i + 1].gen = reorgs + 1 /\ EventsFine(y[K + i + 1].events)
    <3>1. reorgs + 1 \in Nat /\ payloads[i + 1] \in Payloads /\ x \in Seq(Block) /\ Len(x) = K + i
      BY <1>1, <2>1
    <3>2. y = WithBlock(x, reorgs + 1, payloads[i + 1])
      BY <2>2
    <3> DEFINE q == payloads[i + 1]
               r == reorgs + 1
    <3> HIDE DEF x, y, q, r
    <3>3. /\ y \in Seq(Block) /\ Len(y) = Len(x) + 1
          /\ \A m \in 1..Len(x) : y[m] = x[m]
          /\ y[Len(x) + 1].gen = r /\ EventsFine(y[Len(x) + 1].events)
      <4>1. q \in Payloads /\ r \in Nat /\ x \in Seq(Block)
        BY <3>1 DEF q, r
      <4>2. y = WithBlock(x, r, q)
        BY <3>2 DEF q, r
      <4> QED
        BY <4>1, <4>2, WithBlockChain, ZenonT(60)
    <3> QED
      BY <3>1, <3>3 DEF r
  <2>4. /\ \A m \in 1..K : x[m] = l1[m]
        /\ \A m \in (K + 1)..(K + i) : x[m].gen = reorgs + 1 /\ EventsFine(x[m].events)
    BY <2>1
  <2> HIDE DEF x, y, Good
  <2>5. \A m \in 1..K : y[m] = l1[m]
    BY <1>1, <1>2, <2>1, <2>3, <2>4
  <2>6. ASSUME NEW m \in (K + 1)..(K + (i + 1))
        PROVE y[m].gen = reorgs + 1 /\ EventsFine(y[m].events)
    <3>1. CASE m = K + i + 1
      BY <2>3, <3>1
    <3>2. CASE m # K + i + 1
      <4>1. m \in (K + 1)..(K + i) /\ m \in 1..(K + i)
        BY <2>1, <3>2
      <4> QED
        BY <2>3, <2>4, <4>1
    <3> QED
      BY <3>1, <3>2
  <2>7. K + i + 1 = K + (i + 1)
    BY <2>1
  <2> QED
    BY <2>3, <2>5, <2>6, <2>7 DEF Good, y
<1> HIDE DEF Ok
<1>10. Ok = Nat
  <2>1. Ok \in SUBSET Nat
    BY DEF Ok
  <2> QED
    BY <1>8, <1>9, <2>1, NatSetInduction
<1>11. Good(l1', n)
  <2>1. n \in Ok
    BY <1>2, <1>10
  <2> QED
    BY <1>2, <1>7, <2>1 DEF Ok
<1>12. DOMAIN l1' = 1..(K + n)
  BY <1>11, LenProperties
<1>13. L1OK'
  <2>1. ASSUME NEW m \in DOMAIN l1' PROVE l1'[m].gen <= reorgs' /\ EventsFine(l1'[m].events)
    <3>1. CASE m <= K
      <4>1. m \in 1..K /\ m \in 1..N
        BY <1>1, <1>3, <1>12, <3>1
      <4>2. l1'[m] = l1[m]
        BY <1>11, <4>1
      <4> QED
        BY <1>1, <1>2, <4>1, <4>2
    <3>2. CASE ~(m <= K)
      <4>1. m \in (K + 1)..(K + n)
        BY <1>2, <1>3, <1>12, <3>2
      <4>2. l1'[m].gen = reorgs + 1 /\ EventsFine(l1'[m].events)
        BY <1>11, <4>1
      <4> QED
        BY <1>1, <1>2, <4>2
    <3> QED
      BY <3>1, <3>2
  <2>2. reorgs' \in 0..MaxReorgs
    BY <1>1, <1>2, ProcessorConstants
  <2>3. Len(l1') <= MaxBlocks
    BY <1>2, <1>11 DEF K
  <2> QED
    BY <1>11, <2>1, <2>2, <2>3 DEF L1OK, ChainOK
<1>14. L1Step(l1, reorgs, l1', reorgs', K) /\ (Fetching => N <= Len(l1'))
  <2> DEFINE w == Reach(reorgs)
             z == Reach(reorgs + 1)
  <2>1. w = z + ReorgDepth /\ z \in Nat /\ ReorgDepth \in Nat
    BY <1>2, Reaches, ProcessorConstants DEF L1OK, ChainOK
  <2>2. Final(l1, reorgs) = N - w
    BY DEF Final, N
  <2>3. Final(l1', reorgs') = K + n - z
    <3>1. Final(l1', reorgs') = Len(l1') - Reach(reorgs')
      BY DEF Final
    <3>2. Len(l1') = K + n
      BY <1>11
    <3>3. Reach(reorgs') = z
      BY <1>2
    <3> HIDE DEF z
    <3> QED
      BY <1>1, <1>2, <1>3, <2>1, <3>1, <3>2, <3>3
  <2>4. K = N - removed /\ removed <= ReorgDepth
    BY <1>2 DEF K
  <2> HIDE DEF w, z
  <2>5. Final(l1, reorgs) <= K /\ Final(l1, reorgs) <= Final(l1', reorgs') /\ Final(l1, reorgs) \in Int /\ Final(l1', reorgs') \in Int
    <3> HIDE DEF Final
    <3> QED
      BY <1>1, <1>2, <1>3, <2>1, <2>2, <2>3, <2>4
  <2>6. Len(l1') = K + n /\ \A m \in 1..K : l1'[m] = l1[m]
    BY <1>11
  <2>7. \A m \in (K + 1)..Len(l1') : l1'[m].gen = reorgs'
    BY <1>2, <1>11, <2>6
  <2>8. Fetching => N <= Len(l1')
    BY <1>1, <1>2, <2>4, <2>6 DEF Fetching
  <2> HIDE DEF Final
  <2> QED
    BY <1>1, <1>2, <1>3, <2>5, <2>6, <2>7, <2>8 DEF L1Step, N
<1> QED
  BY <1>3, <1>13, <1>14 DEF N

-----------------------------------------------------------------------------
(* What the node remembers survives every step of L1.                      *)

LEMMA ChainTypes ==
  ASSUME NEW b, NEW r, ChainOK(b, r)
  PROVE  /\ b \in Seq(Block) /\ Len(b) \in Nat /\ DOMAIN b = 1..Len(b) /\ Len(b) <= MaxBlocks
         /\ \A n \in 1..Len(b) : b[n].gen \in Nat /\ b[n].gen <= r /\ EventsFine(b[n].events)
         /\ r \in Nat /\ r <= MaxReorgs /\ MaxBlocks \in Nat
         /\ Final(b, r) \in Int /\ Final(b, r) <= Len(b) /\ Len(b) <= Final(b, r) + Reach(0)
         /\ Reach(0) \in Nat
<1>1. b \in Seq(Block) /\ r \in 0..MaxReorgs /\ Len(b) <= MaxBlocks
  BY DEF ChainOK
<1>2. /\ Len(b) \in Nat /\ DOMAIN b = 1..Len(b)
      /\ \A n \in 1..Len(b) : b[n].gen \in Nat
  BY <1>1, BlockTypes
<1>3. \A n \in 1..Len(b) : b[n].gen <= r /\ EventsFine(b[n].events)
  BY <1>2 DEF ChainOK
<1>4. Reach(r) \in Nat /\ Reach(r) <= Reach(0) /\ 0 \in 0..MaxReorgs /\ r \in Nat /\ r <= MaxReorgs
  BY <1>1, Reaches, ProcessorConstants
<1>5. Reach(0) \in Nat
  BY <1>4, Reaches
<1>6. Final(b, r) = Len(b) - Reach(r)
  BY DEF Final
<1> HIDE DEF Reach, Final
<1>7. Final(b, r) \in Int /\ Final(b, r) <= Len(b) /\ Len(b) <= Final(b, r) + Reach(0)
  BY <1>2, <1>4, <1>5, <1>6
<1> QED
  BY <1>1, <1>2, <1>3, <1>4, <1>5, <1>7, ProcessorConstants

(* Hashes that are still those of L1 are of blocks that a step kept. *)
LEMMA StepKeepsSolid ==
  ASSUME NEW b, NEW r, NEW c, NEW s, ChainOK(b, r), ChainOK(c, s),
         NEW k \in Nat, L1Step(b, r, c, s, k), NEW h, Recorded(b, r, h),
         NEW n \in Nat, Covered(b, r, h, n), Solid(c, h, n)
  PROVE  n <= k /\ Solid(b, h, n)
<1> DEFINE N == Len(b)
           M == Len(c)
           F == Final(b, r)
           G == Final(c, s)
           R == Reach(0)
<1>1. /\ b \in Seq(Block) /\ N \in Nat /\ DOMAIN b = 1..N /\ r \in Nat /\ F \in Int /\ F <= N
      /\ \A i \in 1..N : b[i].gen \in Nat /\ b[i].gen <= r
      /\ R \in Nat /\ MaxBlocks \in Nat
  BY ChainTypes
<1>2. /\ c \in Seq(Block) /\ M \in Nat /\ DOMAIN c = 1..M /\ s \in Nat /\ G \in Int
      /\ \A i \in 1..M : c[i].gen \in Nat
  BY ChainTypes
<1>3. /\ k <= N /\ k <= M /\ r <= s /\ F <= k /\ F <= G
      /\ \A i \in 1..k : c[i] = b[i]
      /\ \A i \in (k + 1)..M : c[i].gen = s
      /\ k < N => r < s
  BY DEF L1Step
<1>4. \A i \in DOMAIN h :
         /\ i \in 1..MaxBlocks /\ i <= F + R /\ h[i] \in Nat
         /\ IF i \in DOMAIN b THEN h[i] <= b[i].gen ELSE h[i] < r
  BY DEF Recorded
<1>5. ASSUME NEW i \in DOMAIN h, k < i PROVE h[i] < s
  <2>1. CASE i \in DOMAIN b
    <3>1. i \in 1..N /\ h[i] <= b[i].gen /\ h[i] \in Nat
      BY <1>1, <1>4, <2>1
    <3>2. r < s /\ b[i].gen \in Nat /\ b[i].gen <= r
      BY <1>1, <1>3, <1>5, <3>1
    <3> HIDE DEF N
    <3> QED
      BY <1>1, <1>2, <3>1, <3>2
  <2>2. CASE i \notin DOMAIN b
    BY <1>1, <1>2, <1>3, <1>4, <2>2
  <2> QED
    BY <2>1, <2>2
<1>6. \A i \in DOMAIN h : i <= k => i \in 1..k /\ i \in 1..N /\ i \in 1..M /\ c[i] = b[i]
  BY <1>1, <1>2, <1>3, <1>4
<1> HIDE DEF N, M, F, G, R
<1>7. n <= k
  <2> SUFFICES ASSUME k < n PROVE FALSE
    OBVIOUS
  <2>1. n \in 1..n /\ ~(n <= F)
    BY <1>1, <1>3
  <2>2. n \in DOMAIN h
    BY <2>1 DEF Covered, F
  <2>3. n \in 1..M /\ c[n].gen = h[n]
    BY <1>2, <2>2 DEF Solid, Matches
  <2>4. n \in (k + 1)..M
    BY <1>2, <2>3
  <2>5. h[n] < s /\ h[n] = s
    BY <1>3, <1>5, <2>2, <2>3, <2>4
  <2> QED
    BY <1>2, <2>5
<1>8. Solid(b, h, n)
  <2> SUFFICES ASSUME NEW m \in DOMAIN h, m <= n PROVE m \in DOMAIN b /\ b[m].gen = h[m]
    BY DEF Solid, Matches
  <2>1. m <= k
    BY <1>4, <1>7
  <2>2. m \in 1..N /\ c[m] = b[m]
    BY <1>6, <2>1
  <2>3. c[m].gen = h[m]
    BY DEF Solid, Matches
  <2> QED
    BY <1>1, <2>2, <2>3
<1> QED
  BY <1>7, <1>8

LEMMA StepKeepsHashes ==
  ASSUME NEW b, NEW r, NEW c, NEW s, ChainOK(b, r), ChainOK(c, s),
         NEW k \in Nat, L1Step(b, r, c, s, k), NEW h, Recorded(b, r, h)
  PROVE  /\ Recorded(c, s, h)
         /\ \A n \in Nat : Covered(b, r, h, n) => Covered(c, s, h, n)
         /\ \A n \in Nat : \A root :
               Covered(b, r, h, n) /\ Tracks(b, h, n, root) => Tracks(c, h, n, root)
<1> DEFINE N == Len(b)
           M == Len(c)
           F == Final(b, r)
           G == Final(c, s)
           R == Reach(0)
<1>1. /\ b \in Seq(Block) /\ N \in Nat /\ DOMAIN b = 1..N /\ r \in Nat /\ F \in Int /\ F <= N
      /\ \A n \in 1..N : b[n].gen \in Nat /\ b[n].gen <= r
      /\ R \in Nat /\ MaxBlocks \in Nat
  BY ChainTypes
<1>2. /\ c \in Seq(Block) /\ M \in Nat /\ DOMAIN c = 1..M /\ s \in Nat /\ G \in Int
      /\ \A n \in 1..M : c[n].gen \in Nat
  BY ChainTypes
<1>3. /\ k <= N /\ k <= M /\ r <= s /\ F <= k /\ F <= G
      /\ \A n \in 1..k : c[n] = b[n]
      /\ \A n \in (k + 1)..M : c[n].gen = s
      /\ k < N => r < s
  BY DEF L1Step
<1>4. \A n \in DOMAIN h :
         /\ n \in 1..MaxBlocks /\ n <= F + R /\ h[n] \in Nat
         /\ IF n \in DOMAIN b THEN h[n] <= b[n].gen ELSE h[n] < r
  BY DEF Recorded
<1>5. ASSUME NEW n \in DOMAIN h, k < n PROVE h[n] < s
  <2>1. CASE n \in DOMAIN b
    <3>1. n \in 1..N /\ h[n] <= b[n].gen /\ h[n] \in Nat
      BY <1>1, <1>4, <2>1
    <3>2. r < s /\ b[n].gen \in Nat /\ b[n].gen <= r
      BY <1>1, <1>3, <1>5, <3>1
    <3> HIDE DEF N
    <3> QED
      BY <1>1, <1>2, <3>1, <3>2
  <2>2. CASE n \notin DOMAIN b
    BY <1>1, <1>2, <1>3, <1>4, <2>2
  <2> QED
    BY <2>1, <2>2
<1>6. \A n \in DOMAIN h : n <= k => n \in 1..k /\ n \in 1..N /\ n \in 1..M /\ c[n] = b[n]
  BY <1>1, <1>2, <1>3, <1>4
<1> HIDE DEF N, M, F, G, R
<1>7. Recorded(c, s, h)
  <2> SUFFICES ASSUME NEW n \in DOMAIN h
               PROVE  /\ n \in 1..MaxBlocks /\ n <= G + R /\ h[n] \in Nat
                      /\ IF n \in 1..M THEN h[n] <= c[n].gen ELSE h[n] < s
    BY <1>2 DEF Recorded, G, R
  <2>1. n \in 1..MaxBlocks /\ n <= G + R /\ h[n] \in Nat
    BY <1>1, <1>2, <1>3, <1>4
  <2>2. CASE n <= k
    BY <1>1, <1>4, <1>6, <2>1, <2>2
  <2>3. CASE ~(n <= k)
    <3>1. n \in Nat /\ k < n
      BY <1>1, <1>4, <2>3
    <3>2. h[n] < s
      BY <1>5, <3>1
    <3>3. n \in 1..M => n \in (k + 1)..M
      BY <1>2, <3>1
    <3> QED
      BY <1>2, <1>3, <1>4, <2>1, <3>2, <3>3
  <2> QED
    BY <2>1, <2>2, <2>3
<1>8. ASSUME NEW n \in Nat, Covered(b, r, h, n) PROVE Covered(c, s, h, n)
  <2> SUFFICES ASSUME NEW m \in 1..n PROVE m \in DOMAIN h \/ m <= G
    BY DEF Covered, G
  <2>1. m \in DOMAIN h \/ m <= F
    BY <1>8 DEF Covered, F
  <2> QED
    BY <1>1, <1>2, <1>3, <2>1
<1>9. ASSUME NEW n \in Nat, NEW root, Covered(b, r, h, n), Tracks(b, h, n, root)
      PROVE  Tracks(c, h, n, root)
  <2> SUFFICES ASSUME Solid(c, h, n) PROVE root = RootAt(c, n)
    BY <1>9 DEF Tracks
  <2>1. n <= k /\ Solid(b, h, n)
    BY <1>9, StepKeepsSolid
  <2>3. root = RootAt(b, n)
    BY <1>9, <2>1 DEF Tracks
  <2>4. L1RootOf(SubSeq(b, 1, n)) = L1RootOf(SubSeq(c, 1, n))
    <3>1. n \in 0..Len(b) /\ n <= Len(c)
      BY <1>1, <1>2, <1>3, <2>1 DEF N, M
    <3>2. \A i \in 1..n : b[i] = c[i]
      BY <1>1, <1>3, <2>1
    <3> QED
      BY <1>1, <1>2, <3>1, <3>2, SamePrefix
  <2> QED
    BY <2>3, <2>4 DEF RootAt
<1> QED
  BY <1>7, <1>8, <1>9

LEMMA CoveredDown ==
  ASSUME NEW b, NEW r, NEW h, NEW n \in Nat, Covered(b, r, h, n), NEW m \in 0..n
  PROVE  Covered(b, r, h, m)
BY DEF Covered

LEMMA StepKeepsCheckpoints ==
  ASSUME NEW b, NEW r, NEW c, NEW s, ChainOK(b, r), ChainOK(c, s),
         NEW k \in Nat, L1Step(b, r, c, s, k), NEW h, Recorded(b, r, h),
         NEW n \in Nat, Covered(b, r, h, n), NEW cps, CheckpointsOK(b, h, n, cps)
  PROVE  CheckpointsOK(c, h, n, cps)
<1> SUFFICES ASSUME NEW i \in DOMAIN cps
             PROVE  Tracks(c, h, cps[i].l1BlockNumber - 1, cps[i].trackedStateRoot)
  BY DEF CheckpointsOK
<1> DEFINE m == cps[i].l1BlockNumber - 1
           root == cps[i].trackedStateRoot
<1>1. m \in Nat /\ m \in 0..n /\ Tracks(b, h, m, root)
  BY DEF CheckpointsOK
<1> HIDE DEF m, root
<1>2. Covered(b, r, h, m)
  BY <1>1, CoveredDown
<1>3. Tracks(c, h, m, root)
  BY <1>1, <1>2, StepKeepsHashes
<1> QED
  BY <1>3 DEF m, root

LEMMA StepKeepsQueue ==
  ASSUME NEW b, NEW r, NEW c, NEW s, ChainOK(b, r), ChainOK(c, s),
         NEW k \in Nat, L1Step(b, r, c, s, k), NEW h, Recorded(b, r, h),
         NEW from \in Nat \ {0}, NEW to \in Nat, Covered(b, r, h, to),
         NEW queue, QueueFine(queue, from, to),
         NEW at, NEW root, QueueTracks(b, h, queue, at, root, to)
  PROVE  QueueTracks(c, h, queue, at, root, to)
<1>1. ASSUME NEW i \in DOMAIN queue, Opens(queue, at, i)
      PROVE  Tracks(c, h, queue[i].block - 1, RootBefore(queue, root, i))
  <2> DEFINE m == queue[i].block - 1
             x == RootBefore(queue, root, i)
  <2>1. Tracks(b, h, m, x)
    BY <1>1 DEF QueueTracks
  <2>2. queue[i].block \in from..to
    BY DEF QueueFine
  <2>3. m \in Nat /\ m \in 0..to
    BY <2>2
  <2> HIDE DEF m, x
  <2>4. Covered(b, r, h, m)
    BY <2>3, CoveredDown
  <2>5. Tracks(c, h, m, x)
    BY <2>1, <2>3, <2>4, StepKeepsHashes
  <2> QED
    BY <2>5 DEF m, x
<1>2. Tracks(c, h, to, RootBefore(queue, root, Len(queue) + 1))
  <2> DEFINE x == RootBefore(queue, root, Len(queue) + 1)
  <2>1. Tracks(b, h, to, x)
    BY DEF QueueTracks
  <2> HIDE DEF x
  <2>2. Tracks(c, h, to, x)
    BY <2>1, StepKeepsHashes
  <2> QED
    BY <2>2 DEF x
<1> QED
  BY <1>1, <1>2 DEF QueueTracks

-----------------------------------------------------------------------------
(* Other hashes: those of h2 say as much about the blocks up to n as those *)
(* of h did.                                                               *)
Knows(b, h2, h, n) ==
    \A m \in DOMAIN h :
        m <= n => (m \in DOMAIN h2 /\ h2[m] = h[m]) \/ Matches(b, h, m)

LEMMA SolidWith ==
  ASSUME NEW b, NEW r, NEW h, Recorded(b, r, h), NEW h2, NEW n \in Nat, Knows(b, h2, h, n),
         NEW m \in Int, m <= n, Solid(b, h2, m)
  PROVE  Solid(b, h, m)
<1>1. \A i \in DOMAIN h : i \in Nat
  BY ProcessorConstants DEF Recorded
<1> QED
  BY <1>1 DEF Solid, Knows, Matches

LEMMA TracksWith ==
  ASSUME NEW b, NEW r, NEW h, Recorded(b, r, h), NEW h2, NEW n \in Nat, Knows(b, h2, h, n),
         NEW m \in Nat, m <= n, NEW root, Tracks(b, h, m, root)
  PROVE  Tracks(b, h2, m, root)
BY SolidWith DEF Tracks

LEMMA CheckpointsWith ==
  ASSUME NEW b, NEW r, NEW h, Recorded(b, r, h), NEW h2, NEW n \in Nat, Knows(b, h2, h, n),
         NEW cps, CheckpointsOK(b, h, n, cps)
  PROVE  CheckpointsOK(b, h2, n, cps)
<1> SUFFICES ASSUME NEW i \in DOMAIN cps
             PROVE  Tracks(b, h2, cps[i].l1BlockNumber - 1, cps[i].trackedStateRoot)
  BY DEF CheckpointsOK
<1> DEFINE m == cps[i].l1BlockNumber - 1
           root == cps[i].trackedStateRoot
<1>1. m \in Nat /\ m <= n /\ Tracks(b, h, m, root)
  BY DEF CheckpointsOK
<1> HIDE DEF m, root
<1>2. Tracks(b, h2, m, root)
  BY <1>1, TracksWith
<1> QED
  BY <1>2 DEF m, root

LEMMA CheckpointsUpTo ==
  ASSUME NEW b, NEW h, NEW n \in Nat, NEW m \in Nat, n <= m, NEW cps, CheckpointsOK(b, h, n, cps)
  PROVE  CheckpointsOK(b, h, m, cps)
<1>1. \A i \in DOMAIN cps : cps[i].l1BlockNumber \in 1..n => cps[i].l1BlockNumber \in 1..m
  OBVIOUS
<1> QED
  BY <1>1 DEF CheckpointsOK

LEMMA FewerHashes ==
  ASSUME NEW b, NEW r, NEW h, Recorded(b, r, h), NEW h2,
         \A m \in DOMAIN h2 : m \in DOMAIN h /\ h2[m] = h[m]
  PROVE  Recorded(b, r, h2)
BY DEF Recorded

(* A node that remembers nothing. *)
LEMMA EmptyRemembers ==
  ASSUME NEW b \in Seq(Block), NEW r
  PROVE  /\ Recorded(b, r, <<>>) /\ Covered(b, r, <<>>, 0)
         /\ CheckpointsOK(b, <<>>, 0, <<>>) /\ Tracks(b, <<>>, 0, <<>>)
<1>1. Recorded(b, r, <<>>) /\ Covered(b, r, <<>>, 0)
  BY DEF Recorded, Covered
<1>2. CheckpointsOK(b, <<>>, 0, <<>>)
  <2>1. IsSequence(<<>>)
    BY EmptySeq DEF IsSequence
  <2> QED
    BY <2>1 DEF CheckpointsOK
<1>3. Tracks(b, <<>>, 0, <<>>)
  <2>1. <<>> \in Root
    BY EmptySeq DEF Root
  <2>2. RootAt(b, 0) = <<>>
    BY RootOfNothing DEF RootAt
  <2> QED
    BY <2>1, <2>2 DEF Tracks
<1> QED
  BY <1>1, <1>2, <1>3

-----------------------------------------------------------------------------
(* The node's actions, one by one.  Some leave what it remembers alone,    *)
(* some leave it with nothing.                                             *)

LEMMA Idle ==
  ASSUME IInv, UNCHANGED <<l1, reorgs, disk, memory>>,
         pc # "events", pc' \notin {"hashes", "query", "events"}
  PROVE  IInv'
<1>1. /\ l1' = l1 /\ reorgs' = reorgs /\ disk' = disk /\ lastProcessedBlock' = lastProcessedBlock
      /\ blockHashHistory' = blockHashHistory /\ checkpoints' = checkpoints /\ tracked' = tracked
  BY DEF memory
<1>2. L1OK' /\ DiskOK'
  BY <1>1 DEF IInv, L1OK, DiskOK
<1>3. Horizon = lastProcessedBlock /\ Horizon' = lastProcessedBlock
  BY <1>1 DEF Horizon
<1>4. MemoryOK'
  BY <1>1, <1>3 DEF IInv, MemoryOK
<1>5. JobOK'
  BY DEF JobOK, Fetching
<1> QED
  BY <1>2, <1>4, <1>5 DEF IInv

LEMMA Empty ==
  ASSUME IInv, UNCHANGED <<l1, reorgs, disk>>, EmptyMemory, pc' \notin {"hashes", "query", "events"}
  PROVE  IInv'
<1>1. /\ l1' = l1 /\ reorgs' = reorgs /\ disk' = disk /\ lastProcessedBlock' = 0
      /\ blockHashHistory' = <<>> /\ checkpoints' = <<>> /\ tracked' = <<>>
  BY DEF EmptyMemory, ResetState
<1>2. L1OK' /\ DiskOK'
  BY <1>1 DEF IInv, L1OK, DiskOK
<1>3. Horizon' = 0
  BY <1>1 DEF Horizon
<1>4. MemoryOK'
  <2>1. l1 \in Seq(Block)
    BY DEF IInv, L1OK, ChainOK
  <2>2. /\ Recorded(l1, reorgs, <<>>) /\ Covered(l1, reorgs, <<>>, 0)
        /\ CheckpointsOK(l1, <<>>, 0, <<>>) /\ Tracks(l1, <<>>, 0, <<>>)
    BY <2>1, EmptyRemembers
  <2>3. <<>> \in Root
    BY EmptySeq DEF Root
  <2> QED
    BY <1>1, <1>3, <2>2, <2>3 DEF MemoryOK
<1>5. JobOK'
  BY DEF JobOK, Fetching
<1> QED
  BY <1>2, <1>4, <1>5 DEF IInv

LEMMA DownKeeps ==
  ASSUME IInv, Down
  PROVE  IInv'
<1>1. UNCHANGED <<l1, reorgs, disk>> /\ EmptyMemory /\ pc' = "down"
  BY DEF Down
<1> QED
  BY <1>1, Empty

LEMMA StartKeeps ==
  ASSUME IInv, Start
  PROVE  IInv'
<1>1. UNCHANGED <<l1, reorgs, disk>> /\ pc' = "start"
  BY DEF Start
<1>2. CASE EmptyMemory
  BY <1>1, <1>2, Empty
<1>3. CASE disk # <<>> /\ SetResumeState(disk[1])
  <2> DEFINE saved == disk[1]
             data == saved.reorgData
  <2>1. /\ l1' = l1 /\ reorgs' = reorgs /\ disk' = disk
        /\ lastProcessedBlock' = saved.lastProcessedBlock /\ tracked' = saved.stateRoot
        /\ blockHashHistory' = data.blockHashHistory /\ checkpoints' = data.checkpoints
    BY <1>1, <1>3 DEF SetResumeState
  <2>2. /\ Remembers(l1, reorgs, data.blockHashHistory, saved.lastProcessedBlock, data.checkpoints)
        /\ Tracks(l1, data.blockHashHistory, saved.lastProcessedBlock, saved.stateRoot)
    BY <1>3 DEF IInv, DiskOK, Restorable
  <2> HIDE DEF data, saved
  <2>3. Horizon' = saved.lastProcessedBlock
    BY <1>1, <2>1 DEF Horizon
  <2>4. L1OK' /\ DiskOK'
    BY <2>1 DEF IInv, L1OK, DiskOK
  <2>5. MemoryOK'
    BY <2>1, <2>2, <2>3 DEF MemoryOK, Remembers, Tracks
  <2>6. JobOK'
    BY <1>1 DEF JobOK, Fetching
  <2> QED
    BY <2>4, <2>5, <2>6 DEF IInv
<1> QED
  BY <1>2, <1>3 DEF Start

(* The hashes kept reach as far back as reorgs do: as long as L1 is no     *)
(* longer than what is kept, or if its reorgs do not go deeper together.   *)
KeptFarEnough == MaxBlocks <= MAX_REORG_HISTORY \/ Reach(0) <= MAX_REORG_HISTORY

LEMMA Fetches ==
  ASSUME IInv, KeptFarEnough, UNCHANGED <<l1, reorgs, disk, memory>>,
         pc # "events", pc' = "hashes", lastProcessedBlock < Len(l1),
         NEW by, job' = FetchJob(by)
  PROVE  IInv'
<1> DEFINE h == blockHashHistory
           last == lastProcessedBlock
           N == Len(l1)
           W == MAX_REORG_HISTORY
           far == IF last + 1 < N - 2 * W THEN N - 2 * W ELSE last + 1
<1>1. /\ l1' = l1 /\ reorgs' = reorgs /\ disk' = disk /\ lastProcessedBlock' = last
      /\ blockHashHistory' = h /\ checkpoints' = checkpoints /\ tracked' = tracked
  BY DEF memory
<1>2. /\ last \in Nat /\ N \in Nat /\ N <= MaxBlocks /\ MaxBlocks \in Nat /\ last < N
      /\ Final(l1, reorgs) \in Int /\ N <= Final(l1, reorgs) + Reach(0)
      /\ W \in Nat /\ W > 0 /\ Reach(0) \in Nat /\ Covered(l1, reorgs, h, last)
  BY ChainTypes, ProcessorConstants DEF IInv, L1OK, MemoryOK
<1>3. job'.from = last + 1 /\ job'.to = N /\ job'.at = far
  BY DEF FetchJob, Job
<1>4. L1OK' /\ DiskOK'
  BY <1>1 DEF IInv, L1OK, DiskOK
<1>5. Horizon = last /\ Horizon' = last
  BY <1>1 DEF Horizon
<1>6. MemoryOK'
  BY <1>1, <1>5 DEF IInv, MemoryOK
<1> HIDE DEF N, W, last, h
<1>7. far \in 1..(N + 1) /\ far > last
  BY <1>2
<1>8. Covered(l1, reorgs, h, far - 1)
  <2> SUFFICES ASSUME NEW m \in 1..(far - 1) PROVE m \in DOMAIN h \/ m <= Final(l1, reorgs)
    BY DEF Covered
  <2>1. CASE m <= last
    <3>1. m \in 1..last
      BY <1>2, <1>7, <2>1
    <3> QED
      BY <1>2, <3>1 DEF Covered
  <2>2. CASE ~(m <= last)
    <3> DEFINE F == Final(l1, reorgs)
               R == Reach(0)
    <3> HIDE DEF F, R
    <3>1. last + 1 < N - 2 * W /\ far = N - 2 * W /\ m \in Nat
      BY <1>2, <2>2
    <3>2. m <= N - 2 * W - 1 /\ N - 2 * W \in Int
      BY <1>2, <3>1
    <3>3. F \in Int /\ N <= F + R /\ R \in Nat
      BY <1>2 DEF F, R
    <3>4. CASE MaxBlocks <= W
      <4>1. N <= W
        BY <1>2, <3>4
      <4> QED
        BY <1>2, <3>1, <4>1
    <3>5. CASE R <= W
      <4>1. m <= F
        BY <1>2, <3>1, <3>2, <3>3, <3>5
      <4> QED
        BY <4>1 DEF F
    <3> QED
      BY <3>4, <3>5 DEF KeptFarEnough, W, R
  <2> QED
    BY <2>1, <2>2
<1>9. JobOK'
  <2>1. job'.to \in job'.from..Len(l1)
    BY <1>2, <1>3 DEF N
  <2> HIDE DEF far
  <2> QED
    BY <1>1, <1>3, <1>7, <1>8, <2>1 DEF JobOK, Fetching, HashesJob, last, h
<1> QED
  BY <1>4, <1>6, <1>9 DEF IInv

LEMMA ReplayHistoricalEventsKeeps ==
  ASSUME IInv, KeptFarEnough, ReplayHistoricalEvents
  PROVE  IInv'
<1>1. UNCHANGED <<l1, reorgs, disk, memory>> /\ pc = "start"
  BY DEF ReplayHistoricalEvents
<1>2. CASE lastProcessedBlock < Len(l1)
  <2>1. pc' = "hashes" /\ job' = FetchJob("start")
    BY <1>2 DEF ReplayHistoricalEvents
  <2> QED
    BY <1>1, <1>2, <2>1, Fetches
<1>3. CASE ~(lastProcessedBlock < Len(l1))
  <2>1. pc' = "poll"
    BY <1>3 DEF ReplayHistoricalEvents
  <2> QED
    BY <1>1, <2>1, Idle
<1> QED
  BY <1>2, <1>3

LEMMA CheckTipKeeps ==
  ASSUME IInv, KeptFarEnough, CheckTip
  PROVE  IInv'
<1>1. UNCHANGED <<l1, reorgs, disk, memory>> /\ pc = "tip"
  BY DEF CheckTip
<1>2. CASE pc' \in {"search", "poll"}
  BY <1>1, <1>2, Idle
<1>3. CASE Len(l1) > lastProcessedBlock /\ pc' = "hashes" /\ job' = FetchJob("poll")
  <2>1. lastProcessedBlock < Len(l1)
    BY <1>3, ChainTypes DEF IInv, L1OK, MemoryOK
  <2> QED
    BY <1>1, <1>3, <2>1, Fetches
<1> QED
  BY <1>2, <1>3 DEF CheckTip

(* What is written to disk is what the node has in memory. *)
LEMMA Saved ==
  ASSUME NEW n \in Nat, Remembers(l1, reorgs, blockHashHistory, n, checkpoints),
         Tracks(l1, blockHashHistory, n, tracked)
  PROVE  Restorable(l1, reorgs, SyncState(n)[1])
<1> DEFINE saved == [lastProcessedBlock |-> n, stateRoot |-> tracked, reorgData |-> ReorgData]
<1>1. SyncState(n)[1] = saved
  BY DEF SyncState
<1>2. /\ saved.lastProcessedBlock = n /\ saved.stateRoot = tracked
      /\ saved.reorgData.blockHashHistory = blockHashHistory
      /\ saved.reorgData.checkpoints = checkpoints
  BY DEF ReorgData
<1> HIDE DEF saved
<1> QED
  BY <1>1, <1>2 DEF Restorable

LEMMA ReprocessFromCheckpointKeeps ==
  ASSUME IInv, KeptFarEnough, ReprocessFromCheckpoint
  PROVE  IInv'
<1>1. UNCHANGED <<l1, reorgs, memory>> /\ pc = "recover"
  BY DEF ReprocessFromCheckpoint
<1>2. CASE lastProcessedBlock < Len(l1)
  <2>1. pc' = "hashes" /\ job' = FetchJob("reorg") /\ disk' = disk
    BY <1>2 DEF ReprocessFromCheckpoint
  <2> QED
    BY <1>1, <1>2, <2>1, Fetches
<1>3. CASE ~(lastProcessedBlock < Len(l1))
  <2>1. pc' = "poll" /\ disk' = SyncState(lastProcessedBlock)
    BY <1>3 DEF ReprocessFromCheckpoint
  <2>2. /\ l1' = l1 /\ reorgs' = reorgs /\ lastProcessedBlock' = lastProcessedBlock
        /\ blockHashHistory' = blockHashHistory /\ checkpoints' = checkpoints /\ tracked' = tracked
    BY <1>1 DEF memory
  <2>3. Horizon = lastProcessedBlock /\ Horizon' = lastProcessedBlock
    BY <1>1, <2>1, <2>2 DEF Horizon
  <2>4. L1OK' /\ MemoryOK'
    BY <1>1, <2>2, <2>3 DEF IInv, L1OK, MemoryOK
  <2>5. Restorable(l1, reorgs, SyncState(lastProcessedBlock)[1])
    BY <1>1, <2>3, Saved DEF IInv, MemoryOK, Remembers
  <2>6. DiskOK'
    BY <2>1, <2>2, <2>5 DEF DiskOK
  <2>7. JobOK'
    BY <2>1 DEF JobOK, Fetching
  <2> QED
    BY <2>4, <2>6, <2>7 DEF IInv
<1> QED
  BY <1>2, <1>3

-----------------------------------------------------------------------------
(* Recovery: the checkpoints before a block are some of those there are.   *)

LEMMA CheckpointsBefore ==
  ASSUME IsSequence(checkpoints), NEW n
  PROVE  LET before == FindCheckpointsBefore(n)
         IN /\ IsSequence(before) /\ Len(before) <= Len(checkpoints)
            /\ \A i \in DOMAIN before :
                  /\ before[i].l1BlockNumber < n
                  /\ \E j \in DOMAIN checkpoints : before[i] = checkpoints[j]
            /\ before # <<>> => \E i \in DOMAIN before : Last(before) = before[i]
<1> DEFINE N == Len(checkpoints)
           C == {checkpoints[i] : i \in DOMAIN checkpoints}
           S == Seq(C)
           Step(x, i) == IF checkpoints[i].l1BlockNumber < n THEN Append(x, checkpoints[i]) ELSE x
           Eq(f) == f = [i \in 0..N |->
                           IF i = 0 THEN <<>>
                           ELSE IF checkpoints[i].l1BlockNumber < n THEN Append(f[i - 1], checkpoints[i])
                           ELSE f[i - 1]]
           c == CHOOSE f : Eq(f)
           g == [i \in 1..N |-> [x \in S |-> Step(x, i)]]
<1>1. checkpoints \in S /\ N \in Nat /\ DOMAIN checkpoints = 1..N /\ <<>> \in S
  BY LenProperties, EmptySeq DEF IsSequence
<1>2. \A i \in 1..N : checkpoints[i] \in C
  BY <1>1
<1> HIDE DEF C
<1>3. ASSUME NEW i \in 1..N, NEW x \in S PROVE Step(x, i) \in S
  BY <1>2, AppendProperties
<1> HIDE DEF N, S, Step
<1>4. g \in Loops(N, S)
  BY <1>3 DEF Loops
<1> HIDE DEF g
<1>5. PICK f : f \in Traces(N, S, <<>>, g)
  <2> DEFINE a == <<>>
  <2>1. a \in S
    BY <1>1
  <2> HIDE DEF a
  <2>2. Traces(N, S, a, g) # {}
    BY <1>1, <1>4, <2>1, Recursion
  <2> QED
    BY <2>2 DEF a
<1>6. Eq(f)
  <2>1. /\ f \in [0..N -> S] /\ f[0] = <<>>
        /\ \A i \in 1..N : f[i] = g[i][f[i - 1]]
    BY <1>5 DEF Traces
  <2>2. ASSUME NEW i \in 1..N PROVE f[i] = Step(f[i - 1], i)
    <3>1. f[i - 1] \in S
      BY <1>1, <2>1
    <3> QED
      BY <2>1, <3>1 DEF g
  <2> DEFINE v == [i \in 0..N |-> IF i = 0 THEN <<>> ELSE Step(f[i - 1], i)]
  <2>3. ASSUME NEW i \in 0..N PROVE f[i] = v[i]
    BY <1>1, <2>1, <2>2
  <2>4. DOMAIN f = DOMAIN v /\ f = [i \in 0..N |-> f[i]] /\ v = [i \in 0..N |-> v[i]]
    BY <2>1
  <2> HIDE DEF v
  <2>5. f = v
    BY <2>3, <2>4
  <2> QED
    BY <2>5 DEF v, Step
<1>7. Eq(c)
  BY <1>6
<1>8. FindCheckpointsBefore(n) = c[N]
  BY DEF FindCheckpointsBefore, N
<1> HIDE DEF c
<1>9. c[0] = <<>> /\ \A i \in 1..N : c[i] = Step(c[i - 1], i)
  <2>1. c[0] = <<>>
    BY <1>1, <1>7
  <2>2. ASSUME NEW i \in 1..N PROVE c[i] = Step(c[i - 1], i)
    <3>1. i # 0 /\ i \in 0..N
      BY <1>1
    <3>2. c[i] = IF checkpoints[i].l1BlockNumber < n THEN Append(c[i - 1], checkpoints[i]) ELSE c[i - 1]
      BY <1>7, <3>1
    <3> QED
      BY <3>2 DEF Step
  <2> QED
    BY <2>1, <2>2
<1> DEFINE Good(x, k) == x \in S /\ Len(x) <= k /\ \A i \in DOMAIN x : x[i].l1BlockNumber < n
           Ok == {i \in Nat : i <= N => Good(c[i], i)}
<1>10. Good(<<>>, 0)
  BY <1>1
<1>11. ASSUME NEW i \in 1..N, NEW k \in Nat, NEW x, Good(x, k) PROVE Good(Step(x, i), k + 1)
  <2>1. CASE checkpoints[i].l1BlockNumber < n
    <3> DEFINE cp == checkpoints[i]
               y == Append(x, cp)
    <3>1. cp \in C /\ x \in Seq(C) /\ cp.l1BlockNumber < n
      BY <1>2, <1>11, <2>1 DEF S
    <3> HIDE DEF cp
    <3>2. /\ y \in Seq(C) /\ Len(y) = Len(x) + 1 /\ y[Len(x) + 1] = cp /\ Len(x) \in Nat
          /\ \A j \in 1..Len(x) : y[j] = x[j]
          /\ DOMAIN x = 1..Len(x) /\ DOMAIN y = 1..(Len(x) + 1)
      BY <3>1, AppendProperties, LenProperties
    <3>3. Step(x, i) = y
      BY <2>1 DEF Step, cp
    <3> HIDE DEF y
    <3>4. ASSUME NEW j \in DOMAIN y PROVE y[j].l1BlockNumber < n
      <4>1. CASE j = Len(x) + 1
        BY <3>1, <3>2, <4>1
      <4>2. CASE j # Len(x) + 1
        <5>1. j \in 1..Len(x)
          BY <3>2, <4>2
        <5> QED
          BY <1>11, <3>2, <5>1
      <4> QED
        BY <4>1, <4>2
    <3> QED
      BY <1>11, <3>2, <3>3, <3>4 DEF S
  <2>2. CASE ~(checkpoints[i].l1BlockNumber < n)
    <3>1. Len(x) \in Nat
      BY <1>11, LenProperties DEF S
    <3> QED
      BY <1>11, <2>2, <3>1 DEF Step
  <2> QED
    BY <2>1, <2>2
<1> HIDE DEF Good
<1>12. Ok = Nat
  <2>1. 0 \in Ok
    BY <1>9, <1>10
  <2>2. ASSUME NEW i \in Ok PROVE i + 1 \in Ok
    <3> SUFFICES ASSUME i + 1 <= N PROVE Good(c[i + 1], i + 1)
      BY <2>2
    <3>1. i \in Nat /\ Good(c[i], i) /\ i + 1 \in 1..N /\ i + 1 - 1 = i
      BY <1>1, <2>2
    <3>2. c[i + 1] = Step(c[i], i + 1)
      BY <1>9, <3>1
    <3> QED
      BY <1>11, <3>1, <3>2
  <2>3. Ok \in SUBSET Nat
    OBVIOUS
  <2> HIDE DEF Ok
  <2> QED
    BY <2>1, <2>2, <2>3, NatSetInduction
<1>13. Good(c[N], N)
  BY <1>1, <1>12
<1> DEFINE x == c[N]
<1>14. /\ x \in Seq(C) /\ Len(x) \in Nat /\ DOMAIN x = 1..Len(x) /\ Len(x) <= N
       /\ \A i \in DOMAIN x : x[i] \in C /\ x[i].l1BlockNumber < n
  <2>1. x \in Seq(C) /\ Len(x) <= N /\ \A i \in DOMAIN x : x[i].l1BlockNumber < n
    BY <1>13 DEF Good, S
  <2> QED
    BY <2>1, LenProperties, ElementOfSeq
<1> HIDE DEF x
<1>15. IsSequence(x)
  BY <1>14, OwnElements
<1>16. x # <<>> => \E i \in DOMAIN x : Last(x) = x[i]
  <2> SUFFICES ASSUME x # <<>> PROVE \E i \in DOMAIN x : Last(x) = x[i]
    OBVIOUS
  <2>1. Len(x) # 0
    BY <1>14, EmptySeq
  <2> QED
    BY <1>14, <2>1 DEF Last
<1>17. \A i \in DOMAIN x : \E j \in DOMAIN checkpoints : x[i] = checkpoints[j]
  BY <1>14 DEF C
<1> QED
  BY <1>8, <1>14, <1>15, <1>16, <1>17 DEF x, N

LEMMA HandleReorgKeeps ==
  ASSUME IInv, HandleReorg
  PROVE  IInv'
<1> DEFINE before == FindCheckpointsBefore(job.from)
           cp == Last(before)
           n == cp.l1BlockNumber
           h == blockHashHistory
           h2 == HashesBefore(n)
           last == lastProcessedBlock
           cps2 == FindCheckpointsBefore(n)
<1>1. /\ UNCHANGED <<l1, reorgs, disk>> /\ pc = "search" /\ pc' = "recover"
      /\ EmptyMemory \/ (before # <<>> /\ Unwind(cp))
  BY DEF HandleReorg, Wipe
<1>2. CASE EmptyMemory
  BY <1>1, <1>2, Empty
<1>3. CASE before # <<>> /\ Unwind(cp)
  <2>1. /\ blockHashHistory' = h2 /\ checkpoints' = cps2
        /\ lastProcessedBlock' = n - 1 /\ tracked' = cp.trackedStateRoot
    BY <1>3 DEF Unwind, RestoreState, PruneFromBlock
  <2>2. /\ CheckpointsOK(l1, h, last, checkpoints) /\ last \in Nat
        /\ Recorded(l1, reorgs, h) /\ Covered(l1, reorgs, h, last)
    BY <1>1 DEF IInv, MemoryOK, Horizon
  <2>3. IsSequence(checkpoints)
    BY <2>2 DEF CheckpointsOK
  <2> HIDE DEF last
  <2>4. /\ n \in 1..last /\ Tracks(l1, h, n - 1, cp.trackedStateRoot)
    <3> HIDE DEF h, before
    <3>1. PICK j \in DOMAIN checkpoints : cp = checkpoints[j]
      BY <1>3, <2>3, CheckpointsBefore DEF before
    <3> QED
      BY <2>2, <3>1 DEF CheckpointsOK
  <2> HIDE DEF cp
  <2>5. n \in Nat /\ n - 1 \in Nat /\ n - 1 <= last /\ \A m \in DOMAIN h : m \in Nat
    BY <2>2, <2>4, ProcessorConstants DEF Recorded
  <2> HIDE DEF n, h, cps2
  <2>6. /\ DOMAIN h2 = {m \in DOMAIN h : m < n}
        /\ \A m \in DOMAIN h2 : h2[m] = h[m]
    BY DEF HashesBefore, Restrict, h
  <2> HIDE DEF h2
  <2>7. Knows(l1, h2, h, n - 1)
    BY <2>5, <2>6 DEF Knows
  <2>8. Recorded(l1, reorgs, h2)
    BY <2>2, <2>6, FewerHashes
  <2>9. Covered(l1, reorgs, h2, n - 1)
    <3> SUFFICES ASSUME NEW m \in 1..(n - 1) PROVE m \in DOMAIN h2 \/ m <= Final(l1, reorgs)
      BY DEF Covered
    <3>1. m \in 1..last /\ m < n
      BY <2>2, <2>5
    <3> QED
      BY <2>2, <2>6, <3>1 DEF Covered
  <2>10. CheckpointsOK(l1, h2, n - 1, cps2)
    <3> DEFINE k == n - 1
    <3>1. /\ IsSequence(cps2)
          /\ \A i \in DOMAIN cps2 :
                /\ cps2[i].l1BlockNumber < n
                /\ \E j \in DOMAIN checkpoints : cps2[i] = checkpoints[j]
      BY <2>3, CheckpointsBefore DEF cps2
    <3>2. CheckpointsOK(l1, h, k, cps2)
      <4> SUFFICES ASSUME NEW i \in DOMAIN cps2
                   PROVE  /\ cps2[i].l1BlockNumber \in 1..k
                          /\ Tracks(l1, h, cps2[i].l1BlockNumber - 1, cps2[i].trackedStateRoot)
        BY <3>1 DEF CheckpointsOK
      <4>1. PICK j \in DOMAIN checkpoints : cps2[i] = checkpoints[j]
        BY <3>1
      <4>2. /\ checkpoints[j].l1BlockNumber \in 1..last
            /\ Tracks(l1, h, checkpoints[j].l1BlockNumber - 1, checkpoints[j].trackedStateRoot)
        BY <2>2 DEF CheckpointsOK
      <4>3. cps2[i].l1BlockNumber < n
        BY <3>1
      <4> QED
        BY <2>2, <2>5, <4>1, <4>2, <4>3
    <3>3. k \in Nat /\ Knows(l1, h2, h, k)
      BY <2>5, <2>7
    <3> HIDE DEF k
    <3>4. CheckpointsOK(l1, h2, k, cps2)
      BY <2>2, <3>2, <3>3, CheckpointsWith
    <3> QED
      BY <3>4 DEF k
  <2>11. Tracks(l1, h2, n - 1, cp.trackedStateRoot)
    <3> DEFINE k == n - 1
               root == cp.trackedStateRoot
    <3>1. k \in Nat /\ Knows(l1, h2, h, k) /\ Tracks(l1, h, k, root) /\ k <= k
      BY <2>4, <2>5, <2>7 DEF n
    <3> HIDE DEF k, root
    <3>2. Tracks(l1, h2, k, root)
      BY <2>2, <3>1, TracksWith
    <3> QED
      BY <3>2 DEF k, root
  <2>12. Horizon' = n - 1
    BY <1>1, <2>1 DEF Horizon
  <2>13. l1' = l1 /\ reorgs' = reorgs /\ disk' = disk
    BY <1>1
  <2>14. L1OK' /\ DiskOK'
    BY <2>13 DEF IInv, L1OK, DiskOK
  <2>15. cp.trackedStateRoot \in Root
    BY <2>11 DEF Tracks
  <2>16. MemoryOK'
    BY <2>1, <2>5, <2>8, <2>9, <2>10, <2>11, <2>12, <2>13, <2>15 DEF MemoryOK
  <2>17. JobOK'
    BY <1>1 DEF JobOK, Fetching
  <2> QED
    BY <2>14, <2>16, <2>17 DEF IInv
<1> QED
  BY <1>1, <1>2, <1>3

-----------------------------------------------------------------------------
(* A fetch: the hashes. *)

LEMMA RecordBlockHashKeeps ==
  ASSUME IInv, RecordBlockHash
  PROVE  IInv'
<1> DEFINE h == blockHashHistory
           h2 == [n \in DOMAIN h \cup {job.at} |-> IF n = job.at THEN l1[n].gen ELSE h[n]]
           last == lastProcessedBlock
           at == job.at
           F == Final(l1, reorgs)
<1>1. /\ l1' = l1 /\ reorgs' = reorgs /\ disk' = disk /\ pc = "hashes" /\ pc' = "hashes"
      /\ lastProcessedBlock' = last /\ checkpoints' = checkpoints /\ tracked' = tracked
      /\ at <= job.to /\ job' = [job EXCEPT !.at = @ + 1]
      /\ blockHashHistory' = IF at \in DOMAIN l1 \ DOMAIN h THEN h2 ELSE h
  BY DEF RecordBlockHash
<1>2. /\ job.from = last + 1 /\ job.to \in job.from..Len(l1)
      /\ at \in 1..(job.to + 1) /\ at > last /\ Covered(l1, reorgs, h, at - 1)
  BY <1>1 DEF IInv, JobOK, Fetching, HashesJob
<1>3. /\ last \in Nat /\ tracked \in Root /\ Recorded(l1, reorgs, h) /\ Covered(l1, reorgs, h, last)
      /\ CheckpointsOK(l1, h, last, checkpoints) /\ Tracks(l1, h, last, tracked)
  BY <1>1 DEF IInv, MemoryOK, Horizon
<1>4. /\ Len(l1) \in Nat /\ DOMAIN l1 = 1..Len(l1) /\ Len(l1) <= MaxBlocks /\ MaxBlocks \in Nat
      /\ \A n \in 1..Len(l1) : l1[n].gen \in Nat
      /\ Len(l1) <= F + Reach(0) /\ F \in Int /\ Reach(0) \in Nat
  BY ChainTypes DEF IInv, L1OK
<1> HIDE DEF h2, last, F, at, h
<1>5. at \in DOMAIN l1 /\ at \in Nat
  BY <1>1, <1>2, <1>3, <1>4
<1>6. /\ DOMAIN h2 = DOMAIN h \cup {at} /\ h2[at] = l1[at].gen
      /\ \A n \in DOMAIN h : n # at => h2[n] = h[n]
  BY DEF h2, at, h
<1> DEFINE k == blockHashHistory'
<1>7. k = IF at \notin DOMAIN h THEN h2 ELSE h
  BY <1>1, <1>5
<1> HIDE DEF k
<1>8. /\ \A n \in DOMAIN h : n \in DOMAIN k /\ k[n] = h[n]
      /\ DOMAIN k = DOMAIN h \cup {at}
      /\ k[at] = l1[at].gen \/ at \in DOMAIN h
  BY <1>6, <1>7
<1>9. Recorded(l1, reorgs, k)
  <2> SUFFICES ASSUME NEW n \in DOMAIN k
               PROVE  /\ n \in 1..MaxBlocks /\ n <= F + Reach(0) /\ k[n] \in Nat
                      /\ IF n \in DOMAIN l1 THEN k[n] <= l1[n].gen ELSE k[n] < reorgs
    BY DEF Recorded, F
  <2>1. CASE n \in DOMAIN h
    BY <1>3, <1>8, <2>1 DEF Recorded, F
  <2>2. CASE n \notin DOMAIN h
    <3>1. n = at /\ k[n] = l1[n].gen /\ n \in 1..Len(l1)
      BY <1>4, <1>5, <1>8, <2>2
    <3>2. k[n] \in Nat /\ k[n] <= l1[n].gen
      BY <1>4, <3>1
    <3> DEFINE R == Reach(0)
    <3> HIDE DEF R
    <3>3. n <= F + R /\ n \in 1..MaxBlocks
      BY <1>4, <3>1 DEF R
    <3> QED
      BY <1>4, <3>1, <3>2, <3>3 DEF R
  <2> QED
    BY <2>1, <2>2
<1>10. \A n \in Nat : Knows(l1, k, h, n)
  BY <1>8 DEF Knows
<1>11. Covered(l1, reorgs, k, last) /\ Covered(l1, reorgs, k, at + 1 - 1)
  <2>1. Covered(l1, reorgs, k, last)
    BY <1>3, <1>8 DEF Covered
  <2>2. Covered(l1, reorgs, k, at + 1 - 1)
    <3> SUFFICES ASSUME NEW m \in 1..at PROVE m \in DOMAIN k \/ m <= F
      BY <1>5 DEF Covered, F
    <3>1. m = at \/ m \in 1..(at - 1)
      BY <1>5
    <3> QED
      BY <1>2, <1>8, <3>1 DEF Covered, F
  <2> QED
    BY <2>1, <2>2
<1>12. CheckpointsOK(l1, k, last, checkpoints) /\ Tracks(l1, k, last, tracked)
  <2>1. Knows(l1, k, h, last) /\ last <= last
    BY <1>3, <1>10
  <2>2. CheckpointsOK(l1, k, last, checkpoints)
    BY <1>3, <2>1, CheckpointsWith
  <2>3. Tracks(l1, k, last, tracked)
    BY <1>3, <2>1, TracksWith
  <2> QED
    BY <2>2, <2>3
<1>13. L1OK' /\ DiskOK'
  BY <1>1 DEF IInv, L1OK, DiskOK
<1>14. Horizon' = last
  BY <1>1 DEF Horizon
<1>15. MemoryOK'
  BY <1>1, <1>3, <1>9, <1>11, <1>12, <1>14 DEF MemoryOK, k
<1>16. JobOK'
  <2>1. job'.from = job.from /\ job'.to = job.to /\ job'.at = job.at + 1
    BY <1>1
  <2> QED
    BY <1>1, <1>2, <1>3, <1>4, <1>5, <1>11, <2>1, SMTT(30) DEF JobOK, Fetching, HashesJob, at, k
<1> QED
  BY <1>13, <1>15, <1>16 DEF IInv

(* A hash is forgotten when MAX_REORG_HISTORY higher ones are kept. *)
LEMMA ForgottenHeights ==
  ASSUME NEW T \in Nat, NEW heights \in SUBSET (1..T), NEW n \in heights \ Recent(heights)
  PROVE  n <= T - MAX_REORG_HISTORY
<1> DEFINE above == {m \in heights : m > n}
           X == (n + 1)..T
           W == MAX_REORG_HISTORY
<1>1. n \in Nat /\ n <= T /\ W \in Nat
  BY ProcessorConstants
<1>2. above \subseteq X
  <2> SUFFICES ASSUME NEW m \in above PROVE m \in X
    OBVIOUS
  <2>1. m \in 1..T /\ m > n
    OBVIOUS
  <2> QED
    BY <1>1, <2>1
<1>3. IsFiniteSet(X) /\ Cardinality(X) = T - n
  <2>1. IsFiniteSet(X) /\ Cardinality(X) = IF n + 1 > T THEN 0 ELSE T - (n + 1) + 1
    BY <1>1, FS_Interval
  <2> HIDE DEF X
  <2> QED
    BY <1>1, <2>1
<1>4. ~(Cardinality(above) < W)
  BY DEF Recent
<1> HIDE DEF above, X, W
<1>5. IsFiniteSet(above) /\ Cardinality(above) <= Cardinality(X)
  BY <1>2, <1>3, FS_Subset
<1>6. Cardinality(above) \in Nat
  BY <1>5, FS_CardinalityType
<1>7. T - n \in Nat
  BY <1>1
<1>8. W <= T - n
  BY <1>1, <1>3, <1>4, <1>5, <1>6, <1>7
<1> QED
  BY <1>1, <1>8 DEF W

LEMMA ForgottenAreFinal ==
  ASSUME IInv, KeptFarEnough, NEW n \in DOMAIN blockHashHistory \ Recent(DOMAIN blockHashHistory)
  PROVE  n <= Final(l1, reorgs) /\ ~(MaxBlocks <= MAX_REORG_HISTORY)
<1> DEFINE h == blockHashHistory
           F == Final(l1, reorgs)
           R == Reach(0)
           W == MAX_REORG_HISTORY
           D == DOMAIN h
<1>1. /\ F \in Int /\ R \in Nat /\ F + R \in Nat /\ MaxBlocks \in Nat /\ W \in Nat
  <2>1. F \in Int /\ R \in Nat /\ Len(l1) <= F + R /\ Len(l1) \in Nat
    BY ChainTypes DEF IInv, L1OK
  <2> HIDE DEF F, R
  <2>2. F + R \in Nat
    BY <2>1
  <2> QED
    BY <2>1, <2>2, ProcessorConstants
<1>2. \A m \in D : m \in 1..MaxBlocks /\ m <= F + R
  BY DEF IInv, MemoryOK, Recorded
<1>3. n \in D \ Recent(D)
  OBVIOUS
<1> HIDE DEF F, R, W, D
<1>4. D \in SUBSET (1..MaxBlocks) /\ D \in SUBSET (1..(F + R))
  BY <1>1, <1>2
<1>5. n <= MaxBlocks - W
  BY <1>1, <1>3, <1>4, ForgottenHeights DEF W
<1>6. n <= F + R - W
  <2> DEFINE T == F + R
  <2>1. T \in Nat /\ D \in SUBSET (1..T)
    BY <1>1, <1>4
  <2> HIDE DEF T
  <2>2. n <= T - W
    BY <1>3, <2>1, ForgottenHeights DEF W
  <2> QED
    BY <1>1, <2>2 DEF T
<1>7. n \in Nat /\ n > 0
  BY <1>1, <1>2, <1>3
<1>8. ~(MaxBlocks <= W)
  BY <1>1, <1>5, <1>7
<1>9. R <= W
  BY <1>8 DEF KeptFarEnough, R, W
<1>10. n <= F
  BY <1>1, <1>6, <1>7, <1>9
<1> QED
  BY <1>8, <1>10 DEF F, W

(* What is forgotten is still the hash of a block of L1. *)
ForgetsOnlyCanonical ==
    PruneBlockHashHistory =>
        \A n \in DOMAIN blockHashHistory \ Recent(DOMAIN blockHashHistory) : HashMatches(n)

LEMMA PruneBlockHashHistoryKeeps ==
  ASSUME IInv, KeptFarEnough, PruneBlockHashHistory, ForgetsOnlyCanonical
  PROVE  IInv'
<1> DEFINE h == blockHashHistory
           k == Restrict(h, Recent(DOMAIN h))
           last == lastProcessedBlock
           F == Final(l1, reorgs)
<1>1. /\ l1' = l1 /\ reorgs' = reorgs /\ disk' = disk /\ pc = "hashes" /\ pc' = "query"
      /\ lastProcessedBlock' = last /\ checkpoints' = checkpoints /\ tracked' = tracked
      /\ job.at > job.to /\ job' = job /\ blockHashHistory' = k
  BY DEF PruneBlockHashHistory
<1>2. /\ job.from = last + 1 /\ job.to \in job.from..Len(l1)
      /\ job.at \in 1..(job.to + 1) /\ Covered(l1, reorgs, h, job.at - 1)
  BY <1>1 DEF IInv, JobOK, Fetching, HashesJob
<1>3. /\ last \in Nat /\ tracked \in Root /\ Recorded(l1, reorgs, h) /\ Covered(l1, reorgs, h, last)
      /\ CheckpointsOK(l1, h, last, checkpoints) /\ Tracks(l1, h, last, tracked)
  BY <1>1 DEF IInv, MemoryOK, Horizon
<1>4. Len(l1) \in Nat
  BY ChainTypes DEF IInv, L1OK
<1>5. /\ DOMAIN k = Recent(DOMAIN h) /\ Recent(DOMAIN h) \subseteq DOMAIN h
      /\ \A n \in DOMAIN k : k[n] = h[n]
  BY DEF Restrict, Recent
<1>6. \A n \in DOMAIN h \ DOMAIN k : n <= F /\ Matches(l1, h, n)
  BY <1>5, ForgottenAreFinal DEF ForgetsOnlyCanonical, HashMatches, Matches
<1> HIDE DEF h, k, last, F
<1>7. Recorded(l1, reorgs, k)
  BY <1>3, <1>5, FewerHashes
<1>8. \A n \in Nat : Knows(l1, k, h, n)
  BY <1>5, <1>6 DEF Knows
<1>9. \A n : Covered(l1, reorgs, h, n) => Covered(l1, reorgs, k, n)
  BY <1>6 DEF Covered, F
<1>10. CheckpointsOK(l1, k, last, checkpoints) /\ Tracks(l1, k, last, tracked)
  <2>1. Knows(l1, k, h, last) /\ last <= last
    BY <1>3, <1>8
  <2>2. CheckpointsOK(l1, k, last, checkpoints)
    BY <1>3, <2>1, CheckpointsWith
  <2>3. Tracks(l1, k, last, tracked)
    BY <1>3, <2>1, TracksWith
  <2> QED
    BY <2>2, <2>3
<1>11. Covered(l1, reorgs, k, last) /\ Covered(l1, reorgs, k, job.to)
  <2>1. job.at - 1 = job.to
    BY <1>1, <1>2, <1>3, <1>4
  <2> QED
    BY <1>2, <1>3, <1>9, <2>1
<1>12. L1OK' /\ DiskOK'
  BY <1>1 DEF IInv, L1OK, DiskOK
<1>13. Horizon' = last
  BY <1>1 DEF Horizon
<1>14. MemoryOK'
  BY <1>1, <1>3, <1>7, <1>10, <1>11, <1>13 DEF MemoryOK
<1>15. JobOK'
  BY <1>1, <1>2, <1>11 DEF JobOK, Fetching, last
<1> QED
  BY <1>12, <1>14, <1>15 DEF IInv

-----------------------------------------------------------------------------
(* A fetch: the events.  Those of a range are in the order of the blocks,  *)
(* and their roots are those of L1 at every block.                         *)

Straight(queue, root, to) ==
    /\ \A i \in DOMAIN queue :
          Opens(queue, 0, i) => RootBefore(queue, root, i) = RootAt(l1, queue[i].block - 1)
    /\ RootBefore(queue, root, Len(queue) + 1) = RootAt(l1, to)

LEMMA EventsOfBlock ==
  ASSUME L1OK, NEW n \in 1..Len(l1)
  PROVE  LET y == EventsOf(n)
             events == l1[n].events
         IN /\ events \in Seq(Event) /\ EventsFine(events)
            /\ y \in Seq(LogEntry) /\ Len(y) = Len(events)
            /\ DOMAIN events = 1..Len(y) /\ Len(y) \in Nat
            /\ \A i \in 1..Len(y) : y[i].block = n /\ y[i].event = events[i] /\ y[i].gen = l1[n].gen
<1> DEFINE events == l1[n].events
           y == EventsOf(n)
           N == Len(events)
<1>1. /\ n \in Nat /\ l1[n].gen \in Nat /\ events \in Seq(Event) /\ EventsFine(events)
  <2>1. l1 \in Seq(Block) /\ n \in Nat /\ l1[n].gen \in Nat /\ EventsFine(events)
    BY ChainTypes DEF L1OK
  <2> QED
    BY <2>1, BlockTypes
<1>2. N \in Nat /\ DOMAIN events = 1..N /\ \A i \in 1..N : events[i] \in Event
  BY <1>1, LenProperties, ElementOfSeq
<1>3. y = [i \in 1..N |-> [block |-> n, gen |-> l1[n].gen, event |-> events[i]]]
  BY <1>2 DEF EventsOf
<1> HIDE DEF y, events, N
<1>4. \A i \in 1..N : /\ y[i].block = n /\ y[i].event = events[i] /\ y[i].gen = l1[n].gen
                     /\ y[i] \in LogEntry
  BY <1>1, <1>2, <1>3 DEF LogEntry, events
<1>5. y = [i \in 1..N |-> y[i]]
  BY <1>3
<1>6. y \in Seq(LogEntry)
  BY <1>2, <1>4, <1>5, IsASeq
<1>7. Len(y) = N
  BY <1>2, <1>5, <1>6, LenProperties
<1> QED
  BY <1>1, <1>2, <1>4, <1>6, <1>7 DEF y, events

LEMMA AnotherBlock ==
  ASSUME L1OK, NEW from \in Nat \ {0}, NEW n \in from..Len(l1), NEW root,
         NEW x, QueueFine(x, from, n - 1), Straight(x, root, n - 1)
  PROVE  QueueFine(x \o EventsOf(n), from, n) /\ Straight(x \o EventsOf(n), root, n)
<1> DEFINE y == EventsOf(n)
           z == x \o y
           a == Len(x)
           m == Len(y)
           events == l1[n].events
<1>1. n \in Nat /\ n \in 1..Len(l1) /\ l1 \in Seq(Block) /\ Len(l1) \in Nat
  BY ChainTypes DEF L1OK
<1>2. /\ events \in Seq(Event) /\ EventsFine(events)
      /\ y \in Seq(LogEntry) /\ m = Len(events) /\ DOMAIN events = 1..m /\ m \in Nat
      /\ \A i \in 1..m : y[i].block = n /\ y[i].event = events[i]
  BY <1>1, EventsOfBlock
<1> HIDE DEF y, events
<1>3. /\ x \in Seq(LogEntry) /\ a \in Nat /\ DOMAIN x = 1..a
      /\ \A i \in 1..a : x[i].block \in from..(n - 1)
      /\ \A i \in 1..a : ChangesState(x[i].event) <=> x[i].event.kind # "accounting"
  <2>1. x \in Seq(LogEntry)
    BY DEF QueueFine
  <2> QED
    BY <2>1, LenProperties DEF QueueFine
<1>4. /\ z \in Seq(LogEntry) /\ Len(z) = a + m /\ DOMAIN z = 1..(a + m)
      /\ \A i \in 1..(a + m) : z[i] = IF i <= a THEN x[i] ELSE y[i - a]
  <2>1. /\ z \in Seq(LogEntry) /\ Len(z) = a + m
        /\ \A i \in 1..(a + m) : z[i] = IF i <= a THEN x[i] ELSE y[i - a]
    BY <1>2, <1>3, ConcatProperties
  <2> HIDE DEF z
  <2> QED
    BY <2>1, LenProperties
<1> HIDE DEF z, a, m
<1>5. \A i \in 1..(a + m) : i <= a => i \in 1..a /\ z[i] = x[i]
  BY <1>2, <1>3, <1>4
<1>6. \A i \in 1..(a + m) : ~(i <= a) =>
         i - a \in 1..m /\ z[i].block = n /\ z[i].event = events[i - a]
  <2> SUFFICES ASSUME NEW i \in 1..(a + m), ~(i <= a)
               PROVE  i - a \in 1..m /\ z[i].block = n /\ z[i].event = events[i - a]
    OBVIOUS
  <2>1. i - a \in 1..m /\ z[i] = y[i - a]
    BY <1>2, <1>3, <1>4
  <2> QED
    BY <1>2, <2>1
<1>7. QueueFine(z, from, n)
  <2>1. ASSUME NEW i \in DOMAIN z
        PROVE  /\ z[i].block \in from..n
               /\ ChangesState(z[i].event) <=> z[i].event.kind # "accounting"
    <3>1. CASE i <= a
      <4>1. i \in 1..a /\ z[i] = x[i]
        BY <1>4, <1>5, <3>1
      <4>2. x[i].block \in from..(n - 1)
        BY <1>3, <4>1
      <4> QED
        BY <1>1, <1>3, <4>1, <4>2
    <3>2. CASE ~(i <= a)
      <4>1. i - a \in 1..m /\ z[i].block = n /\ z[i].event = events[i - a]
        BY <1>4, <1>6, <3>2
      <4>2. ChangesState(events[i - a]) <=> events[i - a].kind # "accounting"
        BY <1>2, <4>1 DEF EventsFine
      <4> QED
        BY <1>1, <4>1, <4>2
    <3> QED
      BY <3>1, <3>2
  <2>2. ASSUME NEW i \in DOMAIN z, NEW j \in DOMAIN z,
               i < j, z[i].event.kind = "accounting", InOneBlock(z, i, j)
        PROVE  z[j].event.kind = "accounting"
    <3>1. /\ i \in Nat /\ j \in Nat /\ i \in 1..(a + m) /\ j \in 1..(a + m)
          /\ \A k \in i..j : k \in 1..(a + m)
      BY <1>2, <1>3, <1>4
    <3>2. \A k \in i..j : z[k].block = z[i].block /\ z[k].event.kind # "update"
      BY <2>2 DEF InOneBlock
    <3>3. CASE j <= a
      <4>1. i \in 1..a /\ j \in 1..a /\ z[i] = x[i] /\ z[j] = x[j]
        BY <1>3, <1>5, <2>2, <3>1, <3>3
      <4>2. InOneBlock(x, i, j)
        <5> SUFFICES ASSUME NEW k \in i..j PROVE x[k].block = x[i].block /\ x[k].event.kind # "update"
          BY DEF InOneBlock
        <5>1. k <= a
          BY <1>3, <3>1, <3>3
        <5>2. z[k] = x[k]
          BY <1>5, <3>1, <5>1
        <5> QED
          BY <3>2, <4>1, <5>2
      <4>3. i \in DOMAIN x /\ j \in DOMAIN x /\ x[i].event.kind = "accounting"
        BY <1>3, <2>2, <4>1
      <4>4. x[j].event.kind = "accounting"
        BY <2>2, <4>2, <4>3 DEF QueueFine
      <4> QED
        BY <4>1, <4>4
    <3>4. CASE ~(i <= a)
      <4> DEFINE p == i - a
                 q == j - a
      <4>1. ~(j <= a)
        BY <1>3, <2>2, <3>1, <3>4
      <4>2. /\ p \in 1..m /\ z[i].event = events[p] /\ q \in 1..m /\ z[j].event = events[q]
        BY <1>6, <3>1, <3>4, <4>1
      <4>3. p < q /\ p + a = i /\ q + a = j /\ p \in Nat /\ q \in Nat
        <5>1. p \in Nat /\ q \in Nat
          BY <1>2, <4>2
        <5>2. i < j /\ i \in Nat /\ j \in Nat /\ a \in Nat
          BY <1>3, <2>2, <3>1
        <5> QED
          BY <5>1, <5>2
      <4> HIDE DEF p, q
      <4>4. ASSUME NEW k \in p..q PROVE events[k].kind # "update" /\ k \in 1..m
        <5>1. k + a \in i..j /\ ~(k + a <= a) /\ k + a - a = k
          BY <1>2, <1>3, <4>2, <4>3
        <5> DEFINE t == k + a
        <5>2. t \in i..j /\ ~(t <= a) /\ t - a = k
          BY <1>3, <4>3, <5>1
        <5> HIDE DEF t
        <5>3. z[t].event = events[k] /\ k \in 1..m
          BY <1>6, <3>1, <5>2
        <5> QED
          BY <3>2, <5>2, <5>3
      <4> DEFINE kinds == KindsOf(events)
      <4>5. DOMAIN kinds = 1..m /\ \A k \in 1..m : kinds[k] = events[k].kind
        BY <1>2 DEF KindsOf
      <4>6. AccountingLast(kinds)
        BY <1>2 DEF EventsFine
      <4> HIDE DEF kinds
      <4>7. kinds[p] = "accounting" /\ \A k \in p..q : kinds[k] # "update"
        BY <2>2, <4>2, <4>4, <4>5
      <4>8. kinds[q] = "accounting"
        BY <4>2, <4>3, <4>5, <4>6, <4>7 DEF AccountingLast
      <4> QED
        BY <4>2, <4>5, <4>8
    <3>5. CASE i <= a /\ ~(j <= a)
      <4>1. z[i].block \in from..(n - 1)
        BY <1>3, <1>5, <3>1, <3>5
      <4>2. z[j].block = n
        BY <1>6, <3>1, <3>5
      <4>3. z[j].block = z[i].block
        <5>1. j \in i..j
          BY <2>2, <3>1
        <5> QED
          BY <3>2, <5>1
      <4> QED
        BY <1>1, <4>1, <4>2, <4>3
    <3> QED
      BY <3>3, <3>4, <3>5
  <2> QED
    BY <1>4, <2>1, <2>2 DEF QueueFine
<1>8. ASSUME NEW i \in DOMAIN z, Opens(z, 0, i)
      PROVE  RootBefore(z, root, i) = RootAt(l1, z[i].block - 1)
  <2>1. i \in 1..(a + m) /\ i \in Nat /\ i - 1 \in Nat
    BY <1>2, <1>3, <1>4
  <2>2. CASE i <= a
    <3>1. i \in 1..a /\ z[i] = x[i]
      BY <1>5, <2>1, <2>2
    <3>2. i # 1 => i - 1 \in 1..(a + m) /\ i - 1 <= a
      BY <1>2, <1>3, <2>1, <2>2
    <3>3. i # 1 => z[i - 1] = x[i - 1]
      BY <1>5, <3>2
    <3>4. z[1] = x[1]
      <4>1. 1 \in 1..(a + m) /\ 1 <= a
        BY <1>2, <1>3, <3>1
      <4> QED
        BY <1>5, <4>1
    <3>5. Opens(x, 0, i) /\ RootBefore(z, root, i) = RootBefore(x, root, i)
      BY <1>8, <3>1, <3>3, <3>4 DEF Opens, RootBefore
    <3>6. RootBefore(x, root, i) = RootAt(l1, x[i].block - 1)
      BY <1>3, <3>1, <3>5 DEF Straight
    <3> QED
      BY <3>1, <3>5, <3>6
  <2>3. CASE i = a + 1
    <3>1. z[i].block = n
      BY <1>3, <1>6, <2>1, <2>3
    <3>2. i # 1 => i - 1 \in 1..(a + m) /\ i - 1 <= a /\ i - 1 = a
      BY <1>2, <1>3, <2>1, <2>3
    <3>3. RootBefore(z, root, i) = RootBefore(x, root, a + 1)
      BY <1>5, <2>3, <3>2 DEF RootBefore
    <3>4. RootBefore(x, root, a + 1) = RootAt(l1, n - 1)
      BY DEF Straight, a
    <3> QED
      BY <3>1, <3>3, <3>4
  <2>4. CASE i > a + 1
    <3>1. i - 1 \in 1..(a + m) /\ ~(i - 1 <= a) /\ ~(i <= a) /\ i # 1
      BY <1>2, <1>3, <2>1, <2>4
    <3>2. z[i].block = n /\ z[i - 1].block = n
      BY <1>6, <2>1, <3>1
    <3> QED
      BY <1>8, <3>1, <3>2 DEF Opens
  <2> QED
    BY <1>2, <1>3, <2>1, <2>2, <2>3, <2>4
<1>9. RootBefore(z, root, Len(z) + 1) = RootAt(l1, n)
  <2>1. RootAt(l1, n) = IF events = <<>> THEN RootAt(l1, n - 1) ELSE Last(events).newState
    BY <1>1, RootOfPrefix DEF RootAt, events
  <2>2. CASE events = <<>>
    <3>1. m = 0
      BY <1>2, <2>2, EmptySeq
    <3>2. Len(z) + 1 = a + 1
      BY <1>3, <1>4, <3>1
    <3>3. a # 0 => a \in 1..(a + m) /\ a <= a
      BY <1>2, <1>3
    <3>4. a # 0 => z[a] = x[a]
      BY <1>5, <3>3
    <3>5. RootBefore(z, root, a + 1) = RootBefore(x, root, a + 1)
      BY <1>3, <3>4 DEF RootBefore
    <3>6. RootBefore(x, root, a + 1) = RootAt(l1, n - 1)
      BY DEF Straight, a
    <3> QED
      BY <2>1, <2>2, <3>2, <3>5, <3>6
  <2>3. CASE events # <<>>
    <3>1. m > 0 /\ Last(events) = events[m]
      BY <1>2, <2>3, LastEvent
    <3>2. /\ Len(z) \in 1..(a + m) /\ ~(Len(z) <= a) /\ Len(z) - a = m
          /\ Len(z) + 1 # 1 /\ Len(z) + 1 - 1 = Len(z)
      BY <1>2, <1>3, <1>4, <3>1
    <3>3. z[Len(z)].event = events[m]
      BY <1>6, <3>2
    <3> QED
      BY <2>1, <2>3, <3>1, <3>2, <3>3 DEF RootBefore
  <2> QED
    BY <2>2, <2>3
<1> QED
  BY <1>7, <1>8, <1>9 DEF Straight, y, z

(* The log of a range is put together block by block. *)
LogSteps(c, range) ==
    /\ c[0] = <<>> /\ Log(range) = c[Len(l1)]
    /\ \A n \in 1..Len(l1) : c[n] = c[n - 1] \o (IF n \in range THEN EventsOf(n) ELSE <<>>)

LEMMA LogLoop ==
  ASSUME L1OK, NEW range
  PROVE  \E c : LogSteps(c, range)
<1> DEFINE N == Len(l1)
           S == Seq(LogEntry)
           More(n) == IF n \in range THEN EventsOf(n) ELSE <<>>
           Eq(f) == f = [n \in 0..N |-> IF n = 0 THEN <<>>
                            ELSE f[n - 1] \o (IF n \in range THEN EventsOf(n) ELSE <<>>)]
           c == CHOOSE f : Eq(f)
           g == [n \in 1..N |-> [x \in S |-> x \o More(n)]]
<1>1. N \in Nat /\ <<>> \in S /\ l1 \in Seq(Block)
  BY ChainTypes, EmptySeq DEF L1OK
<1>2. ASSUME NEW n \in 1..N, NEW x \in S PROVE x \o More(n) \in S
  <2>1. EventsOf(n) \in S
    BY EventsOfBlock
  <2>2. More(n) \in S
    BY <1>1, <2>1
  <2> HIDE DEF More
  <2> QED
    BY <2>2, ConcatProperties
<1> HIDE DEF N, S, More
<1>3. g \in Loops(N, S)
  BY <1>2 DEF Loops
<1> HIDE DEF g
<1>4. PICK f : f \in Traces(N, S, <<>>, g)
  <2> DEFINE a == <<>>
  <2>1. a \in S
    BY <1>1
  <2> HIDE DEF a
  <2>2. Traces(N, S, a, g) # {}
    BY <1>1, <1>3, <2>1, Recursion
  <2> QED
    BY <2>2 DEF a
<1>5. Eq(f)
  <2>1. /\ f \in [0..N -> S] /\ f[0] = <<>>
        /\ \A n \in 1..N : f[n] = g[n][f[n - 1]]
    BY <1>4 DEF Traces
  <2>2. ASSUME NEW n \in 1..N PROVE f[n] = f[n - 1] \o More(n)
    <3>1. f[n - 1] \in S
      BY <1>1, <2>1
    <3> QED
      BY <2>1, <3>1 DEF g
  <2> DEFINE v == [n \in 0..N |-> IF n = 0 THEN <<>> ELSE f[n - 1] \o More(n)]
  <2>3. ASSUME NEW n \in 0..N PROVE f[n] = v[n]
    <3>1. CASE n = 0
      BY <2>1, <3>1
    <3>2. CASE n # 0
      <4>1. n \in 1..N
        BY <1>1, <3>2
      <4> QED
        BY <2>2, <3>2, <4>1
    <3> QED
      BY <3>1, <3>2
  <2>4. DOMAIN f = DOMAIN v /\ f = [n \in 0..N |-> f[n]] /\ v = [n \in 0..N |-> v[n]]
    BY <2>1
  <2> HIDE DEF v
  <2>5. f = v
    BY <2>3, <2>4
  <2> QED
    BY <2>5 DEF v, More
<1>6. Eq(c)
  BY <1>5
<1>7. Log(range) = c[N]
  BY DEF Log, N
<1> HIDE DEF c
<1>8. c[0] = <<>> /\ \A n \in 1..N : c[n] = c[n - 1] \o More(n)
  <2>1. c[0] = <<>>
    BY <1>1, <1>6
  <2>2. ASSUME NEW n \in 1..N PROVE c[n] = c[n - 1] \o More(n)
    <3>1. n # 0 /\ n \in 0..N
      BY <1>1
    <3>2. c[n] = c[n - 1] \o (IF n \in range THEN EventsOf(n) ELSE <<>>)
      BY <1>6, <3>1
    <3> QED
      BY <3>2 DEF More
  <2> QED
    BY <2>1, <2>2
<1> QED
  BY <1>7, <1>8 DEF LogSteps, N, More

LEMMA LogOfRange ==
  ASSUME L1OK, NEW from \in Nat \ {0}, NEW to \in Nat, from <= to, to <= Len(l1)
  PROVE  /\ QueueFine(Log(from..to), from, to)
         /\ Straight(Log(from..to), RootAt(l1, from - 1), to)
<1> DEFINE N == Len(l1)
           range == from..to
           S == Seq(LogEntry)
           root == RootAt(l1, from - 1)
           More(n) == IF n \in range THEN EventsOf(n) ELSE <<>>
<1>1. N \in Nat /\ <<>> \in S /\ l1 \in Seq(Block)
  BY ChainTypes, EmptySeq DEF L1OK
<1>2. ASSUME NEW n \in 1..N, NEW x \in S PROVE x \o More(n) \in S
  <2>1. EventsOf(n) \in S
    BY EventsOfBlock
  <2>2. More(n) \in S
    BY <1>1, <2>1
  <2> HIDE DEF More
  <2> QED
    BY <2>2, ConcatProperties
<1>3. PICK c : LogSteps(c, range)
  BY LogLoop
<1>7. Log(range) = c[N]
  BY <1>3 DEF LogSteps
<1>8. c[0] = <<>> /\ \A n \in 1..N : c[n] = c[n - 1] \o More(n)
  BY <1>3 DEF LogSteps
<1> HIDE DEF N, S, More, range
<1> DEFINE Top(n) == IF n < from THEN from - 1 ELSE IF n > to THEN to ELSE n
           Good(x, n) == x \in S /\ QueueFine(x, from, Top(n)) /\ Straight(x, root, Top(n))
           Ok == {n \in Nat : n <= N => Good(c[n], n)}
<1> HIDE DEF root
<1>9. Good(<<>>, 0)
  <2>1. Top(0) = from - 1
    OBVIOUS
  <2>2. QueueFine(<<>>, from, from - 1)
    BY EmptySeq DEF QueueFine
  <2>3. Straight(<<>>, root, from - 1)
    BY EmptySeq DEF Straight, RootBefore, root
  <2> QED
    BY <1>1, <2>1, <2>2, <2>3
<1>10. ASSUME NEW n \in 1..N, NEW x, Good(x, n - 1) PROVE Good(x \o More(n), n)
  <2>1. n \in Nat /\ x \in S
    BY <1>1, <1>10
  <2>2. CASE n \in range
    <3>1. n \in from..Len(l1) /\ Top(n) = n /\ Top(n - 1) = n - 1
      BY <2>1, <2>2 DEF range, N
    <3>2. QueueFine(x, from, n - 1) /\ Straight(x, root, n - 1)
      BY <1>10, <3>1
    <3>3. QueueFine(x \o EventsOf(n), from, n) /\ Straight(x \o EventsOf(n), root, n)
      BY <3>1, <3>2, AnotherBlock
    <3>4. More(n) = EventsOf(n)
      BY <2>2 DEF More
    <3>5. x \o More(n) \in S
      BY <1>2, <2>1
    <3> QED
      BY <3>1, <3>3, <3>4, <3>5
  <2>3. CASE n \notin range
    <3>1. Top(n) = Top(n - 1)
      BY <2>1, <2>3 DEF range
    <3>2. x \o More(n) = x
      BY <2>1, <2>3, ConcatEmptySeq DEF More, S
    <3> HIDE DEF Top
    <3> QED
      BY <1>10, <3>1, <3>2
  <2> QED
    BY <2>2, <2>3
<1> HIDE DEF Good
<1>11. Ok = Nat
  <2>1. 0 \in Ok
    BY <1>8, <1>9
  <2>2. ASSUME NEW n \in Ok PROVE n + 1 \in Ok
    <3> SUFFICES ASSUME n + 1 <= N PROVE Good(c[n + 1], n + 1)
      BY <2>2
    <3> DEFINE k == n + 1
    <3>1. n \in Nat /\ Good(c[n], n) /\ k \in 1..N /\ k - 1 = n
      BY <1>1, <2>2
    <3> HIDE DEF k
    <3>2. c[k] = c[n] \o More(k)
      BY <1>8, <3>1
    <3>3. Good(c[k], k)
      BY <1>10, <3>1, <3>2
    <3> QED
      BY <3>3 DEF k
  <2>3. Ok \in SUBSET Nat
    OBVIOUS
  <2> HIDE DEF Ok
  <2> QED
    BY <2>1, <2>2, <2>3, NatSetInduction
<1>12. Good(c[N], N)
  BY <1>1, <1>11
<1>13. Top(N) = to
  BY <1>1 DEF N
<1> QED
  BY <1>7, <1>12, <1>13 DEF Good, root, range

LEMMA QueryEventsKeeps ==
  ASSUME IInv, QueryEvents
  PROVE  IInv'
<1> DEFINE q == Log(job.from..job.to)
           h == blockHashHistory
           last == lastProcessedBlock
           from == job.from
           to == job.to
<1>1. /\ UNCHANGED <<l1, reorgs, disk, memory>> /\ pc = "query" /\ pc' = "events"
      /\ job' = [job EXCEPT !.queue = q, !.at = 0]
  BY DEF QueryEvents
<1>2. /\ l1' = l1 /\ reorgs' = reorgs /\ disk' = disk /\ lastProcessedBlock' = last
      /\ blockHashHistory' = h /\ checkpoints' = checkpoints /\ tracked' = tracked
  BY <1>1 DEF memory
<1>3. /\ last \in Nat /\ tracked \in Root /\ Recorded(l1, reorgs, h) /\ Covered(l1, reorgs, h, last)
      /\ CheckpointsOK(l1, h, last, checkpoints) /\ Tracks(l1, h, last, tracked)
  BY <1>1 DEF IInv, MemoryOK, Horizon
<1>4. from = last + 1 /\ to \in from..Len(l1) /\ Covered(l1, reorgs, h, to)
  BY <1>1 DEF IInv, JobOK, Fetching
<1>5. L1OK /\ Len(l1) \in Nat
  BY ChainTypes DEF IInv, L1OK
<1> HIDE DEF q
<1>6. job'.from = from /\ job'.to = to /\ job'.queue = q /\ job'.at = 0
  BY <1>1
<1> HIDE DEF h, last, from, to
<1>7. from \in Nat \ {0} /\ to \in Nat /\ from <= to /\ to <= Len(l1) /\ from - 1 = last /\ last <= to
  BY <1>3, <1>4, <1>5
<1>8. QueueFine(q, from, to) /\ Straight(q, RootAt(l1, last), to)
  BY <1>5, <1>7, LogOfRange DEF q, from, to
<1>9. /\ q \in Seq(LogEntry) /\ DOMAIN q = 1..Len(q) /\ Len(q) \in Nat
      /\ \A i \in 1..Len(q) : q[i] \in LogEntry /\ q[i].block \in from..to
  <2>1. q \in Seq(LogEntry)
    BY <1>8 DEF QueueFine
  <2>2. DOMAIN q = 1..Len(q) /\ Len(q) \in Nat /\ \A i \in 1..Len(q) : q[i] \in LogEntry
    BY <2>1, LenProperties, ElementOfSeq
  <2> QED
    BY <1>8, <2>1, <2>2 DEF QueueFine
<1>10. ASSUME NEW i \in 1..(Len(q) + 1)
       PROVE  /\ RootBefore(q, tracked, i) \in Root
              /\ tracked = RootAt(l1, last) =>
                    RootBefore(q, tracked, i) = RootBefore(q, RootAt(l1, last), i)
  <2>1. CASE i = 1
    BY <1>3, <2>1 DEF RootBefore
  <2>2. CASE i # 1
    <3>1. i - 1 \in 1..Len(q)
      BY <1>9, <2>2
    <3>2. q[i - 1] \in LogEntry
      BY <1>9, <3>1
    <3> QED
      BY <2>2, <3>2 DEF RootBefore, LogEntry, Event
  <2> QED
    BY <2>1, <2>2
<1>11. ASSUME NEW n \in Nat, last <= n, Solid(l1, h, n) PROVE tracked = RootAt(l1, last)
  <2>1. \A m \in DOMAIN h : m \in Nat
    BY <1>3, ProcessorConstants DEF Recorded
  <2>2. Solid(l1, h, last)
    BY <1>3, <1>11, <2>1 DEF Solid
  <2> QED
    BY <1>3, <2>2 DEF Tracks
<1>12. QueueTracks(l1, h, q, 0, tracked, to)
  <2>1. ASSUME NEW i \in DOMAIN q, Opens(q, 0, i)
        PROVE  Tracks(l1, h, q[i].block - 1, RootBefore(q, tracked, i))
    <3> DEFINE n == q[i].block - 1
    <3>1. n \in Nat /\ last <= n /\ i \in 1..(Len(q) + 1)
      <4>1. q[i].block \in from..to
        BY <1>9
      <4> QED
        BY <1>3, <1>7, <1>9, <4>1
    <3>2. RootBefore(q, RootAt(l1, last), i) = RootAt(l1, n)
      BY <1>8, <2>1 DEF Straight
    <3> HIDE DEF n
    <3> SUFFICES Tracks(l1, h, n, RootBefore(q, tracked, i))
      BY DEF n
    <3> QED
      BY <1>10, <1>11, <3>1, <3>2 DEF Tracks
  <2>2. Tracks(l1, h, to, RootBefore(q, tracked, Len(q) + 1))
    <3> DEFINE i == Len(q) + 1
    <3>1. i \in 1..(Len(q) + 1)
      BY <1>9
    <3>2. RootBefore(q, RootAt(l1, last), i) = RootAt(l1, to)
      BY <1>8 DEF Straight
    <3> HIDE DEF i
    <3>3. Tracks(l1, h, to, RootBefore(q, tracked, i))
      BY <1>7, <1>10, <1>11, <3>1, <3>2 DEF Tracks
    <3> QED
      BY <3>3 DEF i
  <2> QED
    BY <2>1, <2>2 DEF QueueTracks
<1>13. L1OK' /\ DiskOK'
  BY <1>2 DEF IInv, L1OK, DiskOK
<1>14. CheckpointsOK(l1, h, to, checkpoints) /\ Horizon' = to
  <2>1. Horizon' = to
    BY <1>1, <1>6 DEF Horizon
  <2> QED
    BY <1>3, <1>7, <2>1, CheckpointsUpTo
<1>15. MemoryOK'
  BY <1>1, <1>2, <1>3, <1>14 DEF MemoryOK, h
<1>16. JobOK'
  <2>1. EventsJob'
    BY <1>2, <1>6, <1>8, <1>12 DEF EventsJob, h
  <2> QED
    BY <1>1, <1>2, <1>4, <1>6, <2>1 DEF JobOK, Fetching, h, last
<1> QED
  BY <1>13, <1>15, <1>16 DEF IInv

-----------------------------------------------------------------------------
(* A fetch: the checkpoints and the events that are done.                  *)

LEMMA Rest ==
  ASSUME NEW S, NEW s \in Seq(S), NEW k \in Nat, k <= Len(s)
  PROVE  LET rest == SubSeq(s, k + 1, Len(s))
         IN /\ rest \in Seq(S) /\ Len(rest) = Len(s) - k
            /\ \A i \in 1..(Len(s) - k) : rest[i] = s[k + i]
<1>1. Len(s) \in Nat
  BY LenProperties
<1> DEFINE m == k + 1
           n == Len(s)
           t == SubSeq(s, m, n)
<1>2. m \in Int /\ n \in Int /\ \A i \in m..n : s[i] \in S
  BY <1>1, ElementOfSeq
<1> HIDE DEF m, n
<1>3. /\ t \in Seq(S) /\ Len(t) = IF m <= n THEN n - m + 1 ELSE 0
      /\ \A i \in 1..(n - m + 1) : t[i] = s[m + i - 1]
  BY <1>2, SubSeqProperties
<1> HIDE DEF t
<1>4. n - m + 1 = n - k /\ (~(m <= n) => n - k = 0)
  BY <1>1 DEF m, n
<1>5. \A i \in 1..(n - k) : m + i - 1 = k + i
  BY <1>1 DEF m
<1> QED
  BY <1>3, <1>4, <1>5 DEF m, n, t

LEMMA SaveMore ==
  ASSUME NEW b, NEW h, NEW n \in Nat, NEW cps, CheckpointsOK(b, h, n, cps),
         NEW cp, cp.l1BlockNumber \in 1..n,
         Tracks(b, h, cp.l1BlockNumber - 1, cp.trackedStateRoot)
  PROVE  CheckpointsOK(b, h, n, Append(cps, cp)) /\ Len(Append(cps, cp)) \in Nat \ {0}
<1> DEFINE S == {cps[i] : i \in DOMAIN cps}
           T == S \cup {cp}
           y == Append(cps, cp)
<1>1. cps \in Seq(S)
  BY DEF CheckpointsOK, IsSequence
<1>2. cps \in Seq(T) /\ cp \in T
  BY <1>1, SeqMonotonic
<1> HIDE DEF S, T
<1>3. /\ y \in Seq(T) /\ Len(y) = Len(cps) + 1 /\ y[Len(cps) + 1] = cp /\ Len(cps) \in Nat
      /\ \A i \in 1..Len(cps) : y[i] = cps[i]
      /\ DOMAIN cps = 1..Len(cps) /\ DOMAIN y = 1..(Len(cps) + 1)
  BY <1>2, AppendProperties, LenProperties
<1> HIDE DEF y
<1>4. IsSequence(y)
  BY <1>3, OwnElements
<1>5. ASSUME NEW i \in DOMAIN y
      PROVE  y[i].l1BlockNumber \in 1..n /\ Tracks(b, h, y[i].l1BlockNumber - 1, y[i].trackedStateRoot)
  <2>1. CASE i = Len(cps) + 1
    BY <1>3, <2>1
  <2>2. CASE i # Len(cps) + 1
    <3>1. i \in DOMAIN cps /\ y[i] = cps[i]
      BY <1>3, <2>2
    <3> QED
      BY <3>1 DEF CheckpointsOK
  <2> QED
    BY <2>1, <2>2
<1>6. Len(y) \in Nat \ {0}
  BY <1>3
<1> QED
  BY <1>4, <1>5, <1>6 DEF CheckpointsOK, y

LEMMA DropOldest ==
  ASSUME NEW b, NEW h, NEW n \in Nat, NEW cps, CheckpointsOK(b, h, n, cps),
         NEW k \in Nat, k <= Len(cps)
  PROVE  CheckpointsOK(b, h, n, SubSeq(cps, k + 1, Len(cps)))
<1> DEFINE S == {cps[i] : i \in DOMAIN cps}
           y == SubSeq(cps, k + 1, Len(cps))
<1>1. cps \in Seq(S)
  BY DEF CheckpointsOK, IsSequence
<1> HIDE DEF S
<1>2. /\ y \in Seq(S) /\ Len(y) = Len(cps) - k
      /\ \A i \in 1..(Len(cps) - k) : y[i] = cps[k + i]
  BY <1>1, Rest
<1> HIDE DEF y
<1>3. Len(cps) \in Nat /\ DOMAIN cps = 1..Len(cps) /\ DOMAIN y = 1..(Len(cps) - k)
  BY <1>1, <1>2, LenProperties
<1>4. IsSequence(y)
  BY <1>2, OwnElements
<1>5. ASSUME NEW i \in DOMAIN y
      PROVE  y[i].l1BlockNumber \in 1..n /\ Tracks(b, h, y[i].l1BlockNumber - 1, y[i].trackedStateRoot)
  <2>1. k + i \in DOMAIN cps /\ y[i] = cps[k + i]
    <3>1. i \in 1..(Len(cps) - k) /\ i \in Nat
      BY <1>3
    <3> QED
      BY <1>2, <1>3, <3>1
  <2> QED
    BY <2>1 DEF CheckpointsOK
<1> QED
  BY <1>4, <1>5 DEF CheckpointsOK, y

LEMMA SaveCheckpointKeeps ==
  ASSUME IInv, SaveCheckpoint
  PROVE  IInv'
<1> DEFINE h == blockHashHistory
           n == NextBlock
           to == job.to
           q == job.queue
           W == MAX_REORG_HISTORY
<1>1. /\ l1' = l1 /\ reorgs' = reorgs /\ disk' = disk /\ pc = "events" /\ pc' = "events"
      /\ lastProcessedBlock' = lastProcessedBlock /\ blockHashHistory' = h /\ tracked' = tracked
      /\ q # <<>> /\ job.at # n /\ job' = [job EXCEPT !.at = n]
  BY DEF SaveCheckpoint, Processing
<1>2. PICK height :
         checkpoints' = LET cps == Append(checkpoints, [l1BlockNumber |-> n,
                                                        l2BlockNumber |-> height,
                                                        trackedStateRoot |-> tracked])
                            surplus == Len(cps) - W
                        IN IF surplus > 0 THEN SubSeq(cps, surplus + 1, Len(cps)) ELSE cps
  BY DEF SaveCheckpoint
<1> DEFINE cp == [l1BlockNumber |-> n, l2BlockNumber |-> height, trackedStateRoot |-> tracked]
           cps == Append(checkpoints, cp)
           surplus == Len(cps) - W
<1>3. checkpoints' = IF surplus > 0 THEN SubSeq(cps, surplus + 1, Len(cps)) ELSE cps
  BY <1>2
<1>4. cp.l1BlockNumber = n /\ cp.trackedStateRoot = tracked
  OBVIOUS
<1> HIDE DEF cp
<1>5. /\ job.from = lastProcessedBlock + 1 /\ to \in job.from..Len(l1)
      /\ Covered(l1, reorgs, h, to) /\ lastProcessedBlock \in Nat /\ tracked \in Root
      /\ Recorded(l1, reorgs, h) /\ Covered(l1, reorgs, h, lastProcessedBlock)
      /\ CheckpointsOK(l1, h, to, checkpoints)
      /\ QueueFine(q, job.from, to) /\ QueueTracks(l1, h, q, job.at, tracked, to)
  BY <1>1 DEF IInv, MemoryOK, JobOK, Fetching, EventsJob, Horizon
<1>6. Len(l1) \in Nat
  BY ChainTypes DEF IInv, L1OK
<1>7. q \in Seq(LogEntry) /\ DOMAIN q = 1..Len(q) /\ Len(q) \in Nat /\ 1 \in DOMAIN q
  <2>1. q \in Seq(LogEntry)
    BY <1>5 DEF QueueFine
  <2>2. Len(q) \in Nat \ {0} /\ DOMAIN q = 1..Len(q)
    BY <1>1, <2>1, EmptySeq, LenProperties
  <2> QED
    BY <2>1, <2>2
<1>8. n = q[1].block
  BY DEF NextBlock
<1> HIDE DEF q, n, h, to, W
<1>9. n \in job.from..to /\ n \in 1..to /\ to \in Nat
  <2>1. n \in job.from..to
    BY <1>5, <1>7, <1>8 DEF QueueFine
  <2> QED
    BY <1>5, <1>6, <2>1
<1>10. Tracks(l1, h, n - 1, tracked)
  <2>1. Opens(q, job.at, 1) /\ RootBefore(q, tracked, 1) = tracked
    BY <1>1, <1>8 DEF Opens, RootBefore
  <2> QED
    BY <1>5, <1>7, <1>8, <2>1 DEF QueueTracks
<1>11. CheckpointsOK(l1, h, to, cps) /\ Len(cps) \in Nat \ {0}
  BY <1>4, <1>5, <1>9, <1>10, SaveMore
<1> HIDE DEF cps
<1>12. CheckpointsOK(l1, h, to, checkpoints')
  <2>1. CASE surplus > 0
    <3>1. W \in Nat /\ surplus \in Nat /\ surplus <= Len(cps)
      BY <1>11, <2>1, ProcessorConstants DEF W
    <3> HIDE DEF surplus
    <3>2. CheckpointsOK(l1, h, to, SubSeq(cps, surplus + 1, Len(cps)))
      BY <1>9, <1>11, <3>1, DropOldest
    <3> QED
      BY <1>3, <2>1, <3>2
  <2>2. CASE ~(surplus > 0)
    BY <1>3, <1>11, <2>2
  <2> QED
    BY <2>1, <2>2
<1>13. job'.from = job.from /\ job'.to = to /\ job'.queue = q /\ job'.at = n
  BY <1>1 DEF to, q
<1>14. QueueTracks(l1, h, q, n, tracked, to)
  <2>1. ASSUME NEW i \in DOMAIN q, Opens(q, n, i)
        PROVE  Opens(q, job.at, i)
    BY <1>1, <1>8, <2>1 DEF Opens
  <2> QED
    BY <1>5, <2>1 DEF QueueTracks
<1>15. L1OK' /\ DiskOK'
  BY <1>1 DEF IInv, L1OK, DiskOK
<1>16. Horizon' = to
  BY <1>1, <1>13 DEF Horizon
<1>17. MemoryOK'
  BY <1>1, <1>5, <1>12, <1>16 DEF MemoryOK
<1>18. JobOK'
  <2>1. EventsJob'
    BY <1>1, <1>5, <1>13, <1>14 DEF EventsJob
  <2> QED
    BY <1>1, <1>5, <1>13, <2>1 DEF JobOK, Fetching
<1> QED
  BY <1>15, <1>17, <1>18 DEF IInv

(* The queue after its first k events, the last of them in the block that  *)
(* is being processed.                                                     *)
LEMMA DropEvents ==
  ASSUME NEW b, NEW h, NEW from, NEW to, NEW queue, QueueFine(queue, from, to),
         NEW at, NEW root, QueueTracks(b, h, queue, at, root, to),
         NEW k \in Nat \ {0}, k <= Len(queue), queue[k].block = at
  PROVE  /\ QueueFine(SubSeq(queue, k + 1, Len(queue)), from, to)
         /\ QueueTracks(b, h, SubSeq(queue, k + 1, Len(queue)), at, queue[k].event.newState, to)
<1> DEFINE L == Len(queue)
           rest == SubSeq(queue, k + 1, Len(queue))
           last == queue[k].event.newState
<1>1. queue \in Seq(LogEntry) /\ L \in Nat /\ DOMAIN queue = 1..L
  <2>1. queue \in Seq(LogEntry)
    BY DEF QueueFine
  <2> QED
    BY <2>1, LenProperties
<1>2. /\ rest \in Seq(LogEntry) /\ Len(rest) = L - k /\ DOMAIN rest = 1..(L - k)
      /\ \A i \in 1..(L - k) : rest[i] = queue[k + i]
  <2>1. /\ rest \in Seq(LogEntry) /\ Len(rest) = L - k
        /\ \A i \in 1..(L - k) : rest[i] = queue[k + i]
    BY <1>1, Rest
  <2> HIDE DEF rest
  <2> QED
    BY <2>1, LenProperties
<1> HIDE DEF rest
<1>3. \A i \in 1..(L - k) : i \in Nat /\ i > 0 /\ k + i \in 1..L /\ k + i # 1
  BY <1>1
<1> HIDE DEF L
<1>4. QueueFine(rest, from, to)
  <2>1. ASSUME NEW i \in DOMAIN rest
        PROVE  /\ rest[i].block \in from..to
               /\ ChangesState(rest[i].event) <=> rest[i].event.kind # "accounting"
    BY <1>1, <1>2, <1>3 DEF QueueFine
  <2>2. ASSUME NEW i \in DOMAIN rest, NEW j \in DOMAIN rest,
               i < j, rest[i].event.kind = "accounting", InOneBlock(rest, i, j)
        PROVE  rest[j].event.kind = "accounting"
    <3> DEFINE p == k + i
               q == k + j
    <3>1. p \in DOMAIN queue /\ q \in DOMAIN queue /\ rest[i] = queue[p] /\ rest[j] = queue[q]
      BY <1>1, <1>2, <1>3
    <3>2. p < q /\ \A m \in p..q : m - k \in i..j /\ m - k \in 1..(L - k) /\ k + (m - k) = m
      BY <1>1, <1>2, <1>3, <2>2
    <3> HIDE DEF p, q
    <3>3. InOneBlock(queue, p, q)
      <4> SUFFICES ASSUME NEW m \in p..q
                   PROVE  queue[m].block = queue[p].block /\ queue[m].event.kind # "update"
        BY DEF InOneBlock
      <4> DEFINE t == m - k
      <4>1. t \in i..j /\ t \in 1..(L - k) /\ k + t = m
        BY <3>2
      <4> HIDE DEF t
      <4>2. rest[t] = queue[m]
        BY <1>2, <4>1
      <4> QED
        BY <2>2, <3>1, <4>1, <4>2 DEF InOneBlock
    <3>4. queue[q].event.kind = "accounting"
      BY <2>2, <3>1, <3>2, <3>3 DEF QueueFine
    <3> QED
      BY <3>1, <3>4
  <2> QED
    BY <1>2, <2>1, <2>2 DEF QueueFine
<1>5. \A i \in 1..(L - k + 1) : RootBefore(rest, last, i) = RootBefore(queue, root, k + i)
  <2> SUFFICES ASSUME NEW i \in 1..(L - k + 1)
               PROVE  RootBefore(rest, last, i) = RootBefore(queue, root, k + i)
    OBVIOUS
  <2>1. CASE i = 1
    <3>1. k + i # 1 /\ k + i - 1 = k
      BY <2>1
    <3> QED
      BY <2>1, <3>1 DEF RootBefore
  <2>2. CASE i # 1
    <3>1. i - 1 \in 1..(L - k) /\ k + i # 1 /\ k + (i - 1) = k + i - 1
      BY <1>1, <2>2
    <3>2. rest[i - 1] = queue[k + i - 1]
      BY <1>2, <3>1
    <3> QED
      BY <2>2, <3>1, <3>2 DEF RootBefore
  <2> QED
    BY <2>1, <2>2
<1>6. QueueTracks(b, h, rest, at, last, to)
  <2>1. ASSUME NEW i \in DOMAIN rest, Opens(rest, at, i)
        PROVE  Tracks(b, h, rest[i].block - 1, RootBefore(rest, last, i))
    <3> DEFINE p == k + i
    <3>1. i \in 1..(L - k) /\ i \in 1..(L - k + 1) /\ p \in DOMAIN queue /\ rest[i] = queue[p] /\ p # 1
      BY <1>1, <1>2, <1>3
    <3>2. Opens(queue, at, p) => Tracks(b, h, queue[p].block - 1, RootBefore(queue, root, p))
      BY <3>1 DEF QueueTracks
    <3>3. RootBefore(rest, last, i) = RootBefore(queue, root, p)
      BY <1>5, <3>1
    <3> HIDE DEF p
    <3>4. Opens(queue, at, p) => Tracks(b, h, rest[i].block - 1, RootBefore(rest, last, i))
      BY <3>1, <3>2, <3>3
    <3>5. Opens(queue, at, p)
      <4>1. CASE i = 1
        <5>1. p - 1 = k
          BY <4>1 DEF p
        <5> QED
          BY <2>1, <3>1, <4>1, <5>1 DEF Opens
      <4>2. CASE i # 1
        <5>1. i - 1 \in 1..(L - k) /\ k + (i - 1) = p - 1
          BY <1>1, <3>1, <4>2 DEF p
        <5>2. rest[i - 1] = queue[p - 1]
          BY <1>2, <5>1
        <5> QED
          BY <2>1, <3>1, <4>2, <5>2 DEF Opens
      <4> QED
        BY <4>1, <4>2
    <3> QED
      BY <3>4, <3>5
  <2>2. Tracks(b, h, to, RootBefore(rest, last, Len(rest) + 1))
    <3>1. L - k + 1 \in 1..(L - k + 1) /\ k + (L - k + 1) = L + 1
      BY <1>1 DEF L
    <3>2. RootBefore(rest, last, Len(rest) + 1) = RootBefore(queue, root, L + 1)
      BY <1>2, <1>5, <3>1
    <3> QED
      BY <3>2 DEF QueueTracks, L
  <2> QED
    BY <2>1, <2>2 DEF QueueTracks
<1> QED
  BY <1>4, <1>6 DEF rest

LEMMA EventsDone ==
  ASSUME IInv, pc = "events", UNCHANGED <<l1, reorgs, disk, pc, lastProcessedBlock,
                                          blockHashHistory, checkpoints>>,
         NEW k \in Nat \ {0}, k <= Len(job.queue), job.queue[k].block = job.at,
         tracked' = job.queue[k].event.newState,
         job' = [job EXCEPT !.queue = SubSeq(job.queue, k + 1, Len(job.queue))]
  PROVE  IInv'
<1> DEFINE h == blockHashHistory
           q == job.queue
           rest == SubSeq(q, k + 1, Len(q))
           root == q[k].event.newState
           to == job.to
<1>1. /\ l1' = l1 /\ reorgs' = reorgs /\ disk' = disk /\ pc' = "events"
      /\ lastProcessedBlock' = lastProcessedBlock /\ blockHashHistory' = h
      /\ checkpoints' = checkpoints
  OBVIOUS
<1> HIDE DEF rest
<1>2. job'.from = job.from /\ job'.to = to /\ job'.queue = rest /\ job'.at = job.at /\ tracked' = root
  BY SMTT(30) DEF rest
<1>3. /\ job.from = lastProcessedBlock + 1 /\ to \in job.from..Len(l1)
      /\ Covered(l1, reorgs, h, to) /\ lastProcessedBlock \in Nat
      /\ Recorded(l1, reorgs, h) /\ Covered(l1, reorgs, h, lastProcessedBlock)
      /\ CheckpointsOK(l1, h, to, checkpoints)
      /\ QueueFine(q, job.from, to) /\ QueueTracks(l1, h, q, job.at, tracked, to)
  BY DEF IInv, MemoryOK, JobOK, Fetching, EventsJob, Horizon
<1> HIDE DEF h, to
<1>4. QueueFine(rest, job.from, to) /\ QueueTracks(l1, h, rest, job.at, root, to)
  BY <1>3, DropEvents DEF rest
<1>5. root \in Root
  <2>1. q \in Seq(LogEntry)
    BY <1>3 DEF QueueFine
  <2>2. k \in 1..Len(q)
    BY <2>1, LenProperties
  <2>3. q[k] \in LogEntry
    BY <2>1, <2>2, ElementOfSeq
  <2> QED
    BY <2>3 DEF LogEntry, Event
<1> HIDE DEF root, q
<1>6. L1OK' /\ DiskOK'
  BY <1>1 DEF IInv, L1OK, DiskOK
<1>7. Horizon' = to
  BY <1>1, <1>2 DEF Horizon
<1>8. MemoryOK'
  BY <1>1, <1>2, <1>3, <1>5, <1>7 DEF MemoryOK
<1>9. JobOK'
  <2>1. EventsJob'
    BY <1>1, <1>2, <1>4 DEF EventsJob
  <2> QED
    BY <1>1, <1>2, <1>3, <2>1 DEF JobOK, Fetching
<1> QED
  BY <1>6, <1>8, <1>9 DEF IInv

LEMMA ProcessEventKeeps ==
  ASSUME IInv, ProcessEvent
  PROVE  IInv'
<1> DEFINE q == job.queue
           rest == Tail(q)
<1>1. /\ UNCHANGED <<l1, reorgs, disk, pc, lastProcessedBlock, blockHashHistory, checkpoints>>
      /\ pc = "events" /\ q # <<>> /\ job.at = q[1].block
      /\ tracked' = q[1].event.newState /\ job' = [job EXCEPT !.queue = rest]
  BY DEF ProcessEvent, Processing, NextBlock, UpdateState
<1>2. q \in Seq(LogEntry)
  BY <1>1 DEF IInv, JobOK, EventsJob, QueueFine
<1>3. rest = SubSeq(q, 1 + 1, Len(q))
  BY <1>1, <1>2, TailIsSubSeq
<1>4. 1 <= Len(q)
  BY <1>1, <1>2, EmptySeq
<1> HIDE DEF rest
<1>5. /\ 1 \in Nat \ {0} /\ q[1].block = job.at /\ tracked' = q[1].event.newState
      /\ job' = [job EXCEPT !.queue = SubSeq(q, 1 + 1, Len(q))]
  BY <1>1, <1>3
<1> QED
  BY <1>1, <1>4, <1>5, EventsDone

(* The events of the first entries of a queue. *)
HeadOf(queue, k) == [i \in 1..k |-> queue[i].event]

(* The executions at the head of the queue: those of its block.            *)
LEMMA GroupShape ==
  ASSUME job.queue \in Seq(LogEntry), job.queue # <<>>, IsExecution(job.queue[1])
  PROVE  \E k \in 1..Len(job.queue) :
            /\ Group = HeadOf(job.queue, k) /\ Len(Group) = k /\ DOMAIN Group = 1..k
            /\ \A i \in 1..k : IsExecution(job.queue[i]) /\ job.queue[i].block = NextBlock
            /\ \/ k = Len(job.queue)
               \/ ~IsExecution(job.queue[k + 1]) \/ job.queue[k + 1].block # NextBlock
<1> DEFINE q == job.queue
           N == Len(q)
           Ends(i) == i = N \/ ~IsExecution(q[i + 1]) \/ q[i + 1].block # NextBlock
           n == CHOOSE i \in DOMAIN q : Ends(i) /\ \A j \in 1..(i - 1) : ~Ends(j)
<1>1. NextBlock = q[1].block /\ IsExecution(q[1])
  BY DEF NextBlock
<1>3. q \in Seq(LogEntry) /\ N \in Nat \ {0} /\ DOMAIN q = 1..N
  BY EmptySeq, LenProperties
<1>4. Group = [i \in 1..n |-> q[i].event]
  BY <1>1 DEF Group
<1> HIDE DEF q, N
<1>5. \E i \in DOMAIN q : Ends(i) /\ \A j \in 1..(i - 1) : ~Ends(j)
  <2> DEFINE E == {i \in 1..N : Ends(i)}
  <2>1. N \in E
    BY <1>3
  <2>2. E \in SUBSET Nat
    BY <1>3
  <2>3. \A i \in 1..N : i \in E <=> Ends(i)
    OBVIOUS
  <2>4. E \subseteq 1..N
    OBVIOUS
  <2> HIDE DEF E, Ends
  <2>5. PICK i \in E : \A j \in E : i <= j
    BY <2>1, <2>2, NatSetLeast
  <2>6. ASSUME NEW j \in 1..(i - 1) PROVE ~Ends(j)
    <3>1. i \in 1..N /\ j \in 1..N /\ ~(i <= j)
      BY <1>3, <2>4
    <3> QED
      BY <2>3, <2>5, <3>1
  <2> QED
    BY <1>3, <2>3, <2>4, <2>5, <2>6
<1>6. n \in DOMAIN q /\ Ends(n) /\ \A j \in 1..(n - 1) : ~Ends(j)
  <2> HIDE DEF Ends
  <2> QED
    BY <1>5
<1> HIDE DEF n
<1>7. n \in Nat \ {0} /\ n <= N /\ n \in 1..N /\ n \in 1..n
  BY <1>3, <1>6
<1>8. \A i \in 1..n : IsExecution(q[i]) /\ q[i].block = NextBlock /\ i \in 1..N
  <2> SUFFICES ASSUME NEW i \in 1..n PROVE IsExecution(q[i]) /\ q[i].block = NextBlock
    BY <1>3, <1>7
  <2>1. CASE i = 1
    BY <1>1, <2>1 DEF q
  <2>2. CASE i # 1
    <3> DEFINE j == i - 1
    <3>1. j \in 1..(n - 1) /\ j + 1 = i
      BY <1>7, <2>2
    <3> HIDE DEF j
    <3>2. ~Ends(j)
      BY <1>6, <3>1
    <3> QED
      BY <3>1, <3>2
  <2> QED
    BY <2>1, <2>2
<1>9. Len(Group) = n /\ DOMAIN Group = 1..n /\ \A i \in 1..n : Group[i] = q[i].event
  BY <1>4, <1>7
<1>10. Ends(n)
  BY <1>6
<1> QED
  BY <1>4, <1>7, <1>8, <1>9, <1>10 DEF q, N, HeadOf

(* A batch: the executions of one block, the last accounting event last.   *)
LEMMA BatchGroup ==
  ASSUME IInv, ReplayBatchExecution
  PROVE  \E k \in Nat \ {0} :
            /\ k <= Len(job.queue) /\ job.queue[k].block = job.at
            /\ Len(Group) = k /\ LastUpdate = job.queue[k].event
<1> DEFINE q == job.queue
           N == Len(q)
<1>1. pc = "events" /\ q # <<>> /\ job.at = NextBlock /\ NextBlock = q[1].block /\ IsExecution(q[1])
  BY DEF ReplayBatchExecution, Processing, NextBlock, IsBatch
<1>2. QueueFine(q, job.from, job.to)
  BY <1>1 DEF IInv, JobOK, EventsJob
<1>3. q \in Seq(LogEntry) /\ N \in Nat \ {0} /\ DOMAIN q = 1..N
  <2>1. q \in Seq(LogEntry)
    BY <1>2 DEF QueueFine
  <2> QED
    BY <1>1, <2>1, EmptySeq, LenProperties
<1>4. PICK n \in 1..N :
         /\ Group = HeadOf(q, n) /\ Len(Group) = n /\ DOMAIN Group = 1..n
         /\ \A i \in 1..n : IsExecution(q[i]) /\ q[i].block = NextBlock
  BY <1>1, <1>3, GroupShape
<1> HIDE DEF q, N
<1>7. n \in Nat \ {0} /\ n <= N /\ n \in 1..N /\ n \in 1..n
  BY <1>3
<1>8. \A i \in 1..n : IsExecution(q[i]) /\ q[i].block = NextBlock /\ i \in 1..N
  BY <1>3, <1>4, <1>7
<1>9. Len(Group) = n /\ DOMAIN Group = 1..n /\ \A i \in 1..n : Group[i] = q[i].event
  BY <1>4 DEF HeadOf
<1>10. \A i \in 1..n : ~ChangesState(Group[i]) <=> q[i].event.kind = "accounting"
  BY <1>2, <1>3, <1>8, <1>9 DEF QueueFine
<1>11. LastUpdate = q[n].event
  <2> DEFINE A == Accounting
  <2>1. A = {i \in 1..n : q[i].event.kind = "accounting"}
    BY <1>9, <1>10 DEF Accounting
  <2>2. CASE A = {}
    <3>1. Last(Group) = Group[n]
      BY <1>9 DEF Last
    <3> QED
      BY <1>7, <1>9, <2>2, <3>1 DEF LastUpdate
  <2>3. CASE A # {}
    <3>1. A \in SUBSET (0..n)
      BY <1>7, <2>1
    <3> HIDE DEF A
    <3>2. \E i \in A : \A j \in A : j <= i
      BY <1>7, <2>3, <3>1, NatSetGreatest
    <3>3. Newest(A) \in A /\ \A j \in A : Newest(A) >= j
      <4>1. \A i, j \in A : j <= i <=> i >= j
        BY <3>1
      <4> QED
        BY <3>2, <4>1 DEF Newest
    <3> DEFINE i == Newest(A)
    <3> HIDE DEF i
    <3>4. i \in 1..n /\ i \in Nat /\ q[i].event.kind = "accounting"
      BY <2>1, <3>3 DEF i
    <3>5. i = n
      <4> SUFFICES ASSUME i # n PROVE FALSE
        OBVIOUS
      <4>1. i < n
        BY <1>7, <3>4
      <4>2. InOneBlock(q, i, n)
        <5>1. \A k \in i..n : k \in 1..n
          BY <1>7, <3>4
        <5> QED
          BY <1>8, <3>4, <5>1 DEF InOneBlock, IsExecution
      <4>3. i \in DOMAIN q /\ n \in DOMAIN q
        BY <1>3, <1>7, <1>8, <3>4
      <4>4. q[n].event.kind = "accounting"
        BY <1>2, <3>4, <4>1, <4>2, <4>3 DEF QueueFine
      <4>5. n \in A
        BY <1>7, <2>1, <4>4
      <4>6. i >= n
        BY <3>3, <4>5 DEF i
      <4> QED
        BY <1>7, <3>4, <4>1, <4>6
    <3> QED
      BY <1>7, <1>9, <2>3, <3>5 DEF LastUpdate, A, i
  <2> QED
    BY <2>2, <2>3
<1>12. q[n].block = job.at
  BY <1>1, <1>7, <1>8
<1> QED
  BY <1>7, <1>9, <1>11, <1>12 DEF q, N

LEMMA ReplayBatchExecutionKeeps ==
  ASSUME IInv, ReplayBatchExecution
  PROVE  IInv'
<1>1. PICK k \in Nat \ {0} :
         /\ k <= Len(job.queue) /\ job.queue[k].block = job.at
         /\ Len(Group) = k /\ LastUpdate = job.queue[k].event
  BY BatchGroup
<1>2. /\ UNCHANGED <<l1, reorgs, disk, pc, lastProcessedBlock, blockHashHistory, checkpoints>>
      /\ pc = "events" /\ tracked' = LastUpdate.newState
      /\ job' = [job EXCEPT !.queue = SubSeq(job.queue, Len(Group) + 1, Len(job.queue))]
  BY DEF ReplayBatchExecution, Processing, UpdateState
<1>3. /\ tracked' = job.queue[k].event.newState
      /\ job' = [job EXCEPT !.queue = SubSeq(job.queue, k + 1, Len(job.queue))]
  BY <1>1, <1>2
<1> QED
  BY <1>1, <1>2, <1>3, EventsDone

LEMMA FinishFetchKeeps ==
  ASSUME IInv, FinishFetch
  PROVE  IInv'
<1> DEFINE h == blockHashHistory
           to == job.to
<1>1. /\ l1' = l1 /\ reorgs' = reorgs /\ pc = "events" /\ pc' = "poll" /\ job.queue = <<>>
      /\ lastProcessedBlock' = to /\ blockHashHistory' = h /\ checkpoints' = checkpoints
      /\ tracked' = tracked /\ disk' = SyncState(to)
  BY DEF FinishFetch
<1>2. /\ job.from = lastProcessedBlock + 1 /\ to \in job.from..Len(l1) /\ lastProcessedBlock \in Nat
      /\ Recorded(l1, reorgs, h) /\ Covered(l1, reorgs, h, to)
      /\ CheckpointsOK(l1, h, to, checkpoints) /\ QueueTracks(l1, h, job.queue, job.at, tracked, to)
  BY <1>1 DEF IInv, MemoryOK, JobOK, Fetching, EventsJob, Horizon
<1>3. Len(l1) \in Nat
  BY ChainTypes DEF IInv, L1OK
<1> HIDE DEF h, to
<1>4. to \in Nat
  BY <1>2, <1>3
<1>5. Tracks(l1, h, to, tracked)
  <2>1. RootBefore(job.queue, tracked, Len(job.queue) + 1) = tracked
    BY <1>1, EmptySeq DEF RootBefore
  <2> QED
    BY <1>2, <2>1 DEF QueueTracks
<1>6. Horizon' = to
  BY <1>1 DEF Horizon
<1>7. Restorable(l1, reorgs, SyncState(to)[1])
  BY <1>2, <1>4, <1>5, Saved DEF Remembers, h
<1>8. L1OK' /\ DiskOK'
  BY <1>1, <1>7 DEF IInv, L1OK, DiskOK
<1>9. tracked \in Root
  BY <1>5 DEF Tracks
<1>10. MemoryOK'
  BY <1>1, <1>2, <1>4, <1>5, <1>6, <1>9 DEF MemoryOK
<1>11. JobOK'
  BY <1>1 DEF JobOK, Fetching
<1> QED
  BY <1>8, <1>10, <1>11 DEF IInv

-----------------------------------------------------------------------------
(* L1 may take a step between any two of the node's.                       *)

LEMMA L1Keeps ==
  ASSUME IInv, L1OK', NEW k \in Nat, L1Step(l1, reorgs, l1', reorgs', k),
         Fetching => Len(l1) <= Len(l1'), UNCHANGED <<disk, pc, job, memory>>
  PROVE  IInv'
<1> DEFINE b == l1
           r == reorgs
           c == l1'
           s == reorgs'
           h == blockHashHistory
           last == lastProcessedBlock
<1>1. /\ disk' = disk /\ pc' = pc /\ job' = job /\ lastProcessedBlock' = last
      /\ blockHashHistory' = h /\ checkpoints' = checkpoints /\ tracked' = tracked
  BY DEF memory
<1>2. ChainOK(b, r) /\ ChainOK(c, s) /\ L1Step(b, r, c, s, k)
  BY DEF IInv, L1OK
<1>3. Len(b) \in Nat /\ Len(c) \in Nat
  BY <1>2, ChainTypes
<1>4. /\ last \in Nat /\ tracked \in Root /\ Recorded(b, r, h) /\ Covered(b, r, h, last)
      /\ CheckpointsOK(b, h, Horizon, checkpoints)
      /\ pc # "events" => Tracks(b, h, last, tracked)
  BY DEF IInv, MemoryOK
<1>5. Fetching => job.from = last + 1 /\ job.to \in job.from..Len(b) /\ job.to \in Nat
                  /\ job.from \in Nat \ {0} /\ Len(b) <= Len(c)
  BY <1>3, <1>4 DEF IInv, JobOK
<1>6. Horizon \in Nat /\ Covered(b, r, h, Horizon) /\ Horizon' = Horizon
  <2>1. Horizon' = Horizon
    BY <1>1 DEF Horizon
  <2>2. CASE pc = "events"
    BY <1>5, <2>1, <2>2 DEF Horizon, Fetching, IInv, JobOK
  <2>3. CASE pc # "events"
    BY <1>4, <2>1, <2>3 DEF Horizon
  <2> QED
    BY <2>2, <2>3
<1> HIDE DEF b, r, c, s, h, last
<1>7. /\ Recorded(c, s, h)
      /\ \A n \in Nat : Covered(b, r, h, n) => Covered(c, s, h, n)
      /\ \A n \in Nat : \A root :
            Covered(b, r, h, n) /\ Tracks(b, h, n, root) => Tracks(c, h, n, root)
  BY <1>2, <1>4, StepKeepsHashes
<1>8. CheckpointsOK(c, h, Horizon, checkpoints)
  BY <1>2, <1>4, <1>6, StepKeepsCheckpoints
<1>9. MemoryOK'
  BY <1>1, <1>4, <1>6, <1>7, <1>8 DEF MemoryOK, b, r, c, s, h, last
<1>10. DiskOK'
  <2> SUFFICES ASSUME disk # <<>> PROVE Restorable(c, s, disk[1])
    BY <1>1 DEF DiskOK, c, s
  <2> DEFINE n == disk[1].lastProcessedBlock
             root == disk[1].stateRoot
             g == disk[1].reorgData.blockHashHistory
             cps == disk[1].reorgData.checkpoints
  <2>1. /\ n \in Nat /\ Recorded(b, r, g) /\ Covered(b, r, g, n) /\ CheckpointsOK(b, g, n, cps)
        /\ Tracks(b, g, n, root)
    BY DEF IInv, DiskOK, Restorable, Remembers, b, r
  <2> HIDE DEF n, root, g, cps
  <2>2. Recorded(c, s, g) /\ Covered(c, s, g, n) /\ Tracks(c, g, n, root)
    BY <1>2, <2>1, StepKeepsHashes
  <2>3. CheckpointsOK(c, g, n, cps)
    BY <1>2, <2>1, StepKeepsCheckpoints
  <2> QED
    BY <2>1, <2>2, <2>3 DEF Restorable, Remembers, n, root, g, cps
<1>11. JobOK'
  <2>1. ASSUME Fetching PROVE job.from = last + 1 /\ job.to \in job.from..Len(c)
    BY <1>3, <1>5, <2>1
  <2>2. ASSUME pc = "hashes"
        PROVE  /\ job.at \in 1..(job.to + 1) /\ job.at > last
               /\ Covered(c, s, h, job.at - 1)
    <3>1. /\ job.at \in 1..(job.to + 1) /\ job.at > last /\ Covered(b, r, h, job.at - 1)
      BY <2>2 DEF IInv, JobOK, HashesJob, b, r, h, last
    <3>2. job.to \in Nat
      BY <1>5, <2>2 DEF Fetching
    <3> DEFINE n == job.at - 1
    <3>3. n \in Nat
      BY <3>1, <3>2
    <3> HIDE DEF n
    <3>4. Covered(c, s, h, n)
      BY <1>7, <3>1, <3>3 DEF n
    <3> QED
      BY <3>1, <3>4 DEF n
  <2>3. ASSUME pc \in {"query", "events"} PROVE Covered(c, s, h, job.to)
    BY <1>5, <1>7, <2>3 DEF IInv, JobOK, Fetching, b, r, h
  <2>4. ASSUME pc = "events"
        PROVE  /\ QueueFine(job.queue, job.from, job.to)
               /\ QueueTracks(c, h, job.queue, job.at, tracked, job.to)
    <3>1. /\ job.from \in Nat \ {0} /\ job.to \in Nat /\ Covered(b, r, h, job.to)
          /\ QueueFine(job.queue, job.from, job.to)
          /\ QueueTracks(b, h, job.queue, job.at, tracked, job.to)
      BY <1>5, <2>4 DEF IInv, JobOK, Fetching, EventsJob, b, r, h
    <3>2. QueueTracks(c, h, job.queue, job.at, tracked, job.to)
      BY <1>2, <1>4, <3>1, StepKeepsQueue
    <3> QED
      BY <3>1, <3>2
  <2> QED
    BY <1>1, <2>1, <2>2, <2>3, <2>4
    DEF JobOK, Fetching, HashesJob, EventsJob, c, s, h, last
<1> QED
  BY <1>9, <1>10, <1>11 DEF IInv

-----------------------------------------------------------------------------
(* The invariant. *)

LEMMA InitIInv == Init => IInv
<1> SUFFICES ASSUME Init PROVE IInv
  OBVIOUS
<1>1. /\ l1 = <<>> /\ reorgs = 0 /\ disk = <<>> /\ pc = "down"
      /\ lastProcessedBlock = 0 /\ blockHashHistory = <<>> /\ checkpoints = <<>> /\ tracked = <<>>
  BY DEF Init
<1>2. <<>> \in Seq(Block) /\ Len(<<>>) = 0 /\ <<>> \in Root
  BY EmptySeq DEF Root
<1>3. L1OK
  BY <1>1, <1>2, ProcessorConstants DEF L1OK, ChainOK
<1>4. /\ Recorded(l1, reorgs, <<>>) /\ Covered(l1, reorgs, <<>>, 0)
      /\ CheckpointsOK(l1, <<>>, 0, <<>>) /\ Tracks(l1, <<>>, 0, <<>>)
  BY <1>1, <1>2, EmptyRemembers
<1>5. Horizon = 0
  BY <1>1 DEF Horizon
<1>6. MemoryOK
  BY <1>1, <1>2, <1>4, <1>5 DEF MemoryOK
<1> QED
  BY <1>1, <1>3, <1>6 DEF IInv, DiskOK, JobOK, Fetching

LEMMA NextIInv ==
  ASSUME AccountingComesLast, Shrinks # "ever", KeptFarEnough,
         IInv, [Next]_vars, ForgetsOnlyCanonical
  PROVE  IInv'
<1>1. CASE UNCHANGED vars
  <2>1. /\ l1' = l1 /\ reorgs' = reorgs /\ disk' = disk /\ pc' = pc /\ job' = job
        /\ lastProcessedBlock' = lastProcessedBlock /\ blockHashHistory' = blockHashHistory
        /\ checkpoints' = checkpoints /\ tracked' = tracked
    BY <1>1 DEF vars, memory
  <2>2. Horizon' = Horizon /\ (Fetching' <=> Fetching)
    BY <2>1 DEF Horizon, Fetching
  <2>3. L1OK' /\ DiskOK' /\ MemoryOK'
    BY <2>1, <2>2 DEF IInv, L1OK, DiskOK, MemoryOK
  <2>4. JobOK'
    BY <2>1, <2>2 DEF IInv, JobOK, HashesJob, EventsJob
  <2> QED
    BY <2>3, <2>4 DEF IInv
<1>2. CASE \E payload \in Payloads : NewBlock(payload)
  <2>1. PICK payload \in Payloads : NewBlock(payload)
    BY <1>2
  <2>2. UNCHANGED <<disk, pc, job, memory>>
    BY <2>1 DEF NewBlock
  <2>3. /\ L1OK' /\ \E k \in Nat : L1Step(l1, reorgs, l1', reorgs', k)
        /\ Fetching => Len(l1) <= Len(l1')
    BY <2>1, NewBlockStep DEF IInv
  <2> QED
    BY <2>2, <2>3, L1Keeps
<1>3. ASSUME NEW removed \in 1..ReorgDepth, NEW n \in 0..ReorgDepth,
             NEW payloads \in [1..n -> Payloads], Reorg(removed, payloads)
      PROVE  IInv'
  <2>1. UNCHANGED <<disk, pc, job, memory>>
    BY <1>3 DEF Reorg
  <2>2. /\ L1OK' /\ \E k \in Nat : L1Step(l1, reorgs, l1', reorgs', k)
        /\ Fetching => Len(l1) <= Len(l1')
    BY <1>3, ReorgStep DEF IInv
  <2> QED
    BY <2>1, <2>2, L1Keeps
<1>4. CASE Start
  BY <1>4, StartKeeps
<1>5. CASE ReplayHistoricalEvents
  BY <1>5, ReplayHistoricalEventsKeeps
<1>6. CASE DetectReorg
  <2>1. UNCHANGED <<l1, reorgs, disk, memory>> /\ pc = "poll" /\ pc' \in {"tip", "search"}
    BY <1>6 DEF DetectReorg
  <2> QED
    BY <2>1, Idle
<1>7. CASE FindForkPoint
  <2>1. UNCHANGED <<l1, reorgs, disk, memory>> /\ pc = "search" /\ pc' = "search"
    BY <1>7 DEF FindForkPoint
  <2> QED
    BY <2>1, Idle
<1>8. CASE CheckTip
  BY <1>8, CheckTipKeeps
<1>9. CASE HandleReorg
  BY <1>9, HandleReorgKeeps
<1>10. CASE ReprocessFromCheckpoint
  BY <1>10, ReprocessFromCheckpointKeeps
<1>11. CASE RecordBlockHash
  BY <1>11, RecordBlockHashKeeps
<1>12. CASE PruneBlockHashHistory
  BY <1>12, PruneBlockHashHistoryKeeps
<1>13. CASE QueryEvents
  BY <1>13, QueryEventsKeeps
<1>14. CASE SaveCheckpoint
  BY <1>14, SaveCheckpointKeeps
<1>15. CASE ProcessEvent
  BY <1>15, ProcessEventKeeps
<1>16. CASE ReplayBatchExecution
  BY <1>16, ReplayBatchExecutionKeeps
<1>17. CASE FinishFetch
  BY <1>17, FinishFetchKeeps
<1>18. CASE FetchFails
  <2>1. Down \/ (UNCHANGED <<l1, reorgs, disk, memory>> /\ pc # "events" /\ pc' = "poll")
    BY <1>18 DEF FetchFails
  <2> QED
    BY <2>1, DownKeeps, Idle
<1>19. CASE Stop \/ Crash
  BY <1>19, DownKeeps DEF Stop, Crash
<1>20. CASE L1
  BY <1>2, <1>3, <1>20 DEF L1
<1> QED
  BY <1>1, <1>4, <1>5, <1>6, <1>7, <1>8, <1>9, <1>10, <1>11, <1>12, <1>13, <1>14, <1>15,
     <1>16, <1>17, <1>18, <1>19, <1>20 DEF Next, Node

LEMMA IInvTracked == IInv => TrackedMatchesL1
<1> SUFFICES ASSUME IInv, UpToDate, Undisturbed PROVE tracked = L1Root
  BY DEF TrackedMatchesL1, IsSynced
<1>1. pc = "poll" /\ lastProcessedBlock = Len(l1)
  BY DEF UpToDate
<1>2. Tracks(l1, blockHashHistory, Len(l1), tracked)
  BY <1>1 DEF IInv, MemoryOK
<1>3. Solid(l1, blockHashHistory, Len(l1))
  BY DEF Undisturbed, HashMatches, Solid, Matches
<1>4. SubSeq(l1, 1, Len(l1)) = l1
  BY ChainTypes, SubSeqFull DEF IInv, L1OK
<1> QED
  BY <1>2, <1>3, <1>4 DEF Tracks, RootAt, L1Root

-----------------------------------------------------------------------------
(* As long as L1 is no longer than the history of hashes, nothing is       *)
(* forgotten.                                                              *)

(* replayExecution's comment "The tracked state advances to match L1", for *)
(* every content of the blocks in which accounting events come last, every *)
(* depth and number of reorgs, and every failure of a read, a replay, an   *)
(* unwinding or the process: a node that is up to date tracks L1's root.   *)
THEOREM TracksL1 ==
  ASSUME AccountingComesLast, Shrinks # "ever", MaxBlocks <= MAX_REORG_HISTORY
  PROVE  Spec => []TrackedMatchesL1
<1>1. KeptFarEnough
  BY DEF KeptFarEnough
<1>2. IInv => ForgetsOnlyCanonical
  BY <1>1, ForgottenAreFinal DEF ForgetsOnlyCanonical
<1>3. IInv /\ [Next]_vars => IInv'
  BY <1>1, <1>2, NextIInv
<1> QED
  BY InitIInv, <1>3, IInvTracked, PTL DEF Spec

(* The same for an L1 of any length, when its reorgs go no deeper together *)
(* than the history reaches and a hash is only forgotten while it is that  *)
(* of a block of L1 (detectReorg: one that was replaced is found first).*)
THEOREM TracksLongL1 ==
  ASSUME AccountingComesLast, Shrinks # "ever", MaxReorgs * ReorgDepth <= MAX_REORG_HISTORY
  PROVE  Spec /\ [][ForgetsOnlyCanonical]_vars => []TrackedMatchesL1
<1>1. KeptFarEnough
  BY ProcessorConstants DEF KeptFarEnough, Reach
<1>2. IInv /\ [Next]_vars /\ [ForgetsOnlyCanonical]_vars => IInv'
  <2> SUFFICES ASSUME IInv, [Next]_vars, [ForgetsOnlyCanonical]_vars PROVE IInv'
    OBVIOUS
  <2>1. CASE ForgetsOnlyCanonical
    BY <1>1, <2>1, NextIInv
  <2>2. CASE UNCHANGED vars
    <3>1. ~PruneBlockHashHistory
      BY <2>2 DEF vars, PruneBlockHashHistory
    <3> QED
      BY <1>1, <3>1, NextIInv DEF ForgetsOnlyCanonical
  <2> QED
    BY <2>1, <2>2
<1> QED
  BY InitIInv, <1>2, IInvTracked, PTL DEF Spec
===============================================================================
