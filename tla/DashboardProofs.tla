--------------------------- MODULE DashboardProofs ---------------------------
(***************************************************************************)
(* Proofs about the dashboard, for all histories of the two chains and any *)
(* number of sessions: however queries and pollers bring the logs, the     *)
(* list of events is in the order of each chain, the diagram is well       *)
(* formed, going back in time shows what the contracts had, and bundles    *)
(* are the classes of events that share action hashes.                     *)
(***************************************************************************)
EXTENDS Dashboard, ProofLibrary

-----------------------------------------------------------------------------
(* The invariant.                                                          *)

Logged == {history["l1"][k] : k \in DOMAIN history["l1"]}
            \cup {history["l2"][k] : k \in DOMAIN history["l2"]}

(* Heads, queries and pollers are somewhere on the chain.                  *)
PlacesOK ==
    /\ history \in Histories
    /\ head \in [Chains -> Nat]
    /\ \A c \in Chains : head[c] <= Len(history[c])
    /\ DOMAIN reads = 1..MaxSessions
    /\ \A s \in 1..MaxSessions : DOMAIN reads[s] = Chains
    /\ \A s \in 1..MaxSessions, c \in Chains : reads[s][c].upTo \in 0..Len(history[c])
    /\ DOMAIN watch = Chains
    /\ \A c \in Chains : watch[c] \in [Names(c) -> Int]
    /\ \A c \in Chains : \A n \in Names(c) : -1 <= watch[c][n] /\ watch[c][n] <= Len(history[c])

(* The list holds logs, each once, by block and log index over both chains.*)
ListOK(list) ==
    /\ list \in Seq(Logged)
    /\ \A i, j \in DOMAIN list :
          i < j => ~Before(list[j], list[i]) /\ Id(list[i]) # Id(list[j])

(* The columns of a lane that are taken are those before the next one.     *)
LaneOK(lane, next) ==
    /\ next \in Nat
    /\ \A a \in DOMAIN lane : lane[a] \in Nat /\ lane[a] < next
    /\ \A a, b \in DOMAIN lane : lane[a] = lane[b] => a = b

DiagramOK(d) ==
    /\ DOMAIN d = {"nodes", "edges", "known", "nextCol"}
    /\ DOMAIN d.nodes = Chains /\ DOMAIN d.nextCol = Chains
    /\ \A c \in Chains : LaneOK(d.nodes[c], d.nextCol[c]) /\ Manager[c] \in DOMAIN d.nodes[c]
    /\ \A edge \in d.edges : {edge[1], edge[2]} \subseteq Existing(d)

(* While a session lasts the managers are drawn; between sessions nothing  *)
(* is, unless an answer came late.                                         *)
DrawnOK ==
    late \/ IF connected THEN DiagramOK(Diagram)
            ELSE nodes = [c \in Chains |-> <<>>] /\ edges = {}

IInv == PlacesOK /\ ListOK(events) /\ DrawnOK

-----------------------------------------------------------------------------
(* Logs.                                                                   *)

LEMMA ChainShape ==
  ASSUME history \in Histories, NEW c \in Chains
  PROVE  /\ Len(history[c]) \in Nat /\ DOMAIN history[c] = 1..Len(history[c])
         /\ \A k \in DOMAIN history[c] :
               /\ history[c][k] \in Logged
               /\ history[c][k].chain = c
               /\ history[c][k].block \in Nat /\ history[c][k].index \in Nat
               /\ history[c][k].entries \in Seq(Range(history[c][k].entries))
         /\ \A j, k \in DOMAIN history[c] :
               j < k => Before(history[c][j], history[c][k])
<1>1. history[c] \in Seq(Range(history[c]))
  BY HistoryShape
<1>2. Len(history[c]) \in Nat /\ DOMAIN history[c] = 1..Len(history[c])
  BY <1>1, LenProperties
<1>3. \A k \in DOMAIN history[c] : history[c][k] \in Logged
  BY DEF Logged, Chains
<1> QED
  BY <1>2, <1>3, HistoryShape

LEMMA LoggedShape ==
  ASSUME history \in Histories, NEW e \in Logged
  PROVE  /\ e.chain \in Chains /\ e.block \in Nat /\ e.index \in Nat
         /\ e.entries \in Seq(Range(e.entries))
         /\ \A entry \in Range(e.entries) : entry.hash # Nothing
         /\ e.name = "ExecutionConsumed" => e.hash # Immediate
         /\ \E k \in DOMAIN history[e.chain] : history[e.chain][k] = e
<1>1. PICK c \in Chains : \E k \in DOMAIN history[c] : history[c][k] = e
  BY DEF Logged, Chains
<1>2. PICK k \in DOMAIN history[c] : history[c][k] = e
  BY <1>1
<1>8. \A h \in Histories, d \in Chains : \A m \in DOMAIN h[d] :
         \A entry \in Range(h[d][m].entries) : entry.hash # Nothing
  BY HistoryShape
<1>3. \A entry \in Range(history[c][k].entries) : entry.hash # Nothing
  BY <1>8, Zenon
<1>7. history[c][k].name = "ExecutionConsumed" => history[c][k].hash # Immediate
  BY HistoryShape, Zenon
<1>4. /\ \A entry \in Range(e.entries) : entry.hash # Nothing
      /\ e.name = "ExecutionConsumed" => e.hash # Immediate
  BY <1>2, <1>3, <1>7, Zenon
<1>5. e.chain \in Chains /\ \E j \in DOMAIN history[e.chain] : history[e.chain][j] = e
  BY <1>2, ChainShape
<1>6. e.block \in Nat /\ e.index \in Nat /\ e.entries \in Seq(Range(e.entries))
  BY <1>2, ChainShape
<1> QED
  BY <1>4, <1>5, <1>6, Zenon

(* An event's position is where its chain has it.                          *)
LEMMA PositionOf ==
  ASSUME history \in Histories, NEW c \in Chains, NEW k \in DOMAIN history[c]
  PROVE  Position(history[c][k]) = k
<1> DEFINE e == history[c][k]
<1>1. e.chain = c /\ \A j \in DOMAIN history[c] : Id(history[c][j]) = Id(e) => j = k
  <2>1. SUFFICES ASSUME NEW j \in DOMAIN history[c], Id(history[c][j]) = Id(e) PROVE j = k
    BY ChainShape
  <2>2. history[c][j].block = e.block /\ history[c][j].index = e.index
    BY <2>1 DEF Id
  <2>3. ~Before(history[c][j], e) /\ ~Before(e, history[c][j])
    BY <2>2, ChainShape DEF Before
  <2> QED
    BY <2>3, ChainShape
<1> QED
  BY <1>1 DEF Position

-----------------------------------------------------------------------------
(* The list of events.                                                     *)

LEMMA BeforeOrder ==
  ASSUME history \in Histories, NEW a \in Logged, NEW b \in Logged, NEW d \in Logged
  PROVE  /\ ~Before(b, a) /\ ~Before(d, b) => ~Before(d, a)
         /\ Before(a, b) => ~Before(b, a)
  BY LoggedShape DEF Before

(* A set of places that holds with a place those before it is a prefix.    *)
LEMMA PrefixOf ==
  ASSUME NEW n \in Nat, NEW S \in SUBSET (1..n),
         \A i \in 1..n, k \in S : i < k => i \in S
  PROVE  Cardinality(S) \in 0..n /\ S = 1..Cardinality(S)
<1>1. CASE S = {}
  BY <1>1, FS_EmptySet
<1>2. CASE S # {}
  <2>1. PICK m \in S : \A k \in S : k <= m
    <3>1. S \in SUBSET (0..n)
      OBVIOUS
    <3> QED
      BY <1>2, <3>1, NatSetGreatest
  <2>2. S = 1..m
    <3>1. \A i \in 1..m : i \in S
      <4>1. SUFFICES ASSUME NEW i \in 1..m, i # m PROVE i \in S
        BY <2>1
      <4>2. i \in 1..n /\ i < m
        BY <4>1, <2>1
      <4> QED
        BY <4>2
    <3>2. \A i \in S : i \in 1..m
      BY <2>1
    <3> QED
      BY <3>1, <3>2
  <2>3. Cardinality(1..m) = m
    BY <2>1, FS_Interval
  <2> QED
    BY <2>1, <2>2, <2>3
<1> QED
  BY <1>1, <1>2

LEMMA InsertionOf ==
  ASSUME NEW S, NEW list \in Seq(S), NEW new \in S, NEW p \in 0..Len(list),
         NEW longer, longer = Inserted(list, new, p)
  PROVE  /\ longer \in Seq(S) /\ Len(longer) = Len(list) + 1
         /\ \A k \in 1..(Len(list) + 1) :
               /\ k <= p => longer[k] = list[k]
               /\ k = p + 1 => longer[k] = new
               /\ k > p + 1 => longer[k] = list[k - 1]
<1> DEFINE a == SubSeq(list, 1, p)
           b == SubSeq(list, p + 1, Len(list))
<1>1. Len(list) \in Nat /\ p + 1 - 1 = p
  BY LenProperties
<1>2. a \in Seq(S) /\ Len(a) = p /\ \A k \in 1..p : a[k] = list[k]
  <2>1. \A k \in 1..p : list[k] \in S
    BY <1>1, ElementOfSeq
  <2> QED
    BY <1>1, <2>1, SubSeqProperties
<1>3. b \in Seq(S) /\ Len(b) = Len(list) - p /\ \A k \in 1..(Len(list) - p) : b[k] = list[p + k]
  <2>1. \A k \in (p + 1)..Len(list) : list[k] \in S
    BY <1>1, ElementOfSeq
  <2> QED
    BY <1>1, <2>1, SubSeqProperties
<1> HIDE DEF a, b
<1>4. <<new>> \in Seq(S) /\ Len(<<new>>) = 1 /\ <<new>>[1] = new
  OBVIOUS
<1>5. a \o <<new>> \in Seq(S) /\ Len(a \o <<new>>) = p + 1
      /\ (\A k \in 1..p : (a \o <<new>>)[k] = list[k]) /\ (a \o <<new>>)[p + 1] = new
  BY <1>1, <1>2, <1>4, ConcatProperties
<1> DEFINE ae == a \o <<new>>
<1> HIDE DEF ae
<1>6. ae \in Seq(S) /\ Len(ae) = p + 1
      /\ (\A k \in 1..p : ae[k] = list[k]) /\ ae[p + 1] = new
  BY <1>5 DEF ae
<1>7. /\ ae \o b \in Seq(S) /\ Len(ae \o b) = Len(list) + 1
      /\ \A k \in 1..(Len(list) + 1) :
            (ae \o b)[k] = IF k <= p + 1 THEN ae[k] ELSE b[k - (p + 1)]
  BY <1>1, <1>3, <1>6, ConcatProperties
<1>9. ASSUME NEW k \in (p + 2)..(Len(list) + 1) PROVE (ae \o b)[k] = list[k - 1]
  <2>1. k \in 1..(Len(list) + 1) /\ ~(k <= p + 1) /\ k - (p + 1) \in 1..(Len(list) - p)
        /\ p + (k - (p + 1)) = k - 1
    BY <1>1
  <2> QED
    BY <2>1, <1>3, <1>7
<1>10. /\ \A k \in 1..p : (ae \o b)[k] = list[k]
       /\ (ae \o b)[p + 1] = new
  <2>1. \A k \in 1..(p + 1) : k \in 1..(Len(list) + 1) /\ k <= p + 1
    BY <1>1
  <2> QED
    BY <2>1, <1>1, <1>6, <1>7
<1>11. longer = ae \o b
  BY DEF Inserted, ae, a, b
<1> HIDE DEF ae
<1>12. ASSUME NEW k \in 1..(Len(list) + 1)
       PROVE  /\ k <= p => (ae \o b)[k] = list[k]
              /\ k = p + 1 => (ae \o b)[k] = new
              /\ k > p + 1 => (ae \o b)[k] = list[k - 1]
  <2>1. k <= p => (ae \o b)[k] = list[k]
    <3>1. k <= p => k \in 1..p
      BY <1>1, <1>12
    <3> QED
      BY <3>1, <1>10
  <2>2. k = p + 1 => (ae \o b)[k] = new
    BY <1>10
  <2>3. k > p + 1 => (ae \o b)[k] = list[k - 1]
    <3>1. k > p + 1 => k \in (p + 2)..(Len(list) + 1)
      BY <1>1, <1>12
    <3> QED
      BY <3>1, <1>9
  <2> QED
    BY <2>1, <2>2, <2>3, <1>1
<1> QED
  BY <1>7, <1>11, <1>12

(* An event that goes behind those it is not before keeps the order.       *)
LEMMA InsertionKeepsOrder ==
  ASSUME history \in Histories, NEW list, ListOK(list), NEW e \in Logged,
         NEW p \in 0..Len(list),
         \A k \in 1..p : ~Before(e, list[k]),
         \A k \in (p + 1)..Len(list) : ~Before(list[k], e),
         \A k \in 1..Len(list) : Id(list[k]) # Id(e),
         NEW longer, longer = Inserted(list, e, p)
  PROVE  ListOK(longer)
<1>1. list \in Seq(Logged) /\ Len(list) \in Nat /\ DOMAIN list = 1..Len(list)
  BY LenProperties DEF ListOK
<1>2. /\ longer \in Seq(Logged) /\ Len(longer) = Len(list) + 1
      /\ \A k \in 1..(Len(list) + 1) :
            /\ k <= p => longer[k] = list[k]
            /\ k = p + 1 => longer[k] = e
            /\ k > p + 1 => longer[k] = list[k - 1]
  <2>1. PICK T : T = Logged
    OBVIOUS
  <2>2. list \in Seq(T) /\ e \in T
    BY <1>1, <2>1
  <2>3. \A k \in 1..(Len(list) + 1) : k = p + 1 => longer[k] = e
    BY <2>2, InsertionOf
  <2>4. \A k \in 1..(Len(list) + 1) : k <= p => longer[k] = list[k]
    BY <2>2, InsertionOf
  <2>5. \A k \in 1..(Len(list) + 1) : k > p + 1 => longer[k] = list[k - 1]
    BY <2>2, InsertionOf
  <2>6. longer \in Seq(T) /\ Len(longer) = Len(list) + 1
    BY <2>2, InsertionOf
  <2> QED
    BY <2>1, <2>3, <2>4, <2>5, <2>6
<1>3. DOMAIN longer = 1..(Len(list) + 1)
  BY <1>2, LenProperties
<1>4. \A a, b \in 1..Len(list) : a < b => ~Before(list[b], list[a]) /\ Id(list[a]) # Id(list[b])
  BY <1>1 DEF ListOK
<1>5. ASSUME NEW i \in 1..(Len(list) + 1), NEW j \in 1..(Len(list) + 1), i < j
      PROVE  ~Before(longer[j], longer[i]) /\ Id(longer[i]) # Id(longer[j])
  <2>1. CASE j <= p
    <3>1. i \in 1..Len(list) /\ j \in 1..Len(list) /\ i <= p
      BY <2>1, <1>5, <1>1
    <3> QED
      BY <3>1, <2>1, <1>5, <1>2, <1>4
  <2>2. CASE j = p + 1
    <3>1. i \in 1..p /\ i \in 1..Len(list) /\ i <= p
      BY <2>2, <1>5, <1>1
    <3>2. longer[i] = list[i] /\ longer[j] = e
      BY <3>1, <2>2, <1>2, <1>5
    <3> QED
      BY <3>1, <3>2
  <2>3. CASE j > p + 1 /\ i <= p
    <3>1. i \in 1..Len(list) /\ j - 1 \in 1..Len(list) /\ i < j - 1
      BY <2>3, <1>5, <1>1
    <3> QED
      BY <3>1, <2>3, <1>5, <1>2, <1>4
  <2>4. CASE j > p + 1 /\ i = p + 1
    <3>1. j - 1 \in (p + 1)..Len(list) /\ j - 1 \in 1..Len(list)
      BY <2>4, <1>5, <1>1
    <3>2. longer[i] = e /\ longer[j] = list[j - 1]
      BY <2>4, <1>2, <1>5
    <3> QED
      BY <3>1, <3>2
  <2>5. CASE j > p + 1 /\ i > p + 1
    <3>1. i - 1 \in 1..Len(list) /\ j - 1 \in 1..Len(list) /\ i - 1 < j - 1
      BY <2>5, <1>5, <1>1
    <3> QED
      BY <3>1, <2>5, <1>5, <1>2, <1>4
  <2> QED
    BY <2>1, <2>2, <2>3, <2>4, <2>5, <1>5, <1>1
<1> QED
  BY <1>2, <1>3, <1>5 DEF ListOK

(* addEvent keeps the list ordered and without repetition, whatever is     *)
(* added to it.                                                            *)
LEMMA AddEventKeepsOrder ==
  ASSUME history \in Histories, NEW list, ListOK(list), NEW e \in Logged
  PROVE  ListOK(AddEvent(list, e))
<1>1. CASE \E k \in DOMAIN list : Id(list[k]) = Id(e)
  BY <1>1 DEF AddEvent
<1>2. CASE \A k \in DOMAIN list : Id(list[k]) # Id(e)
  <2> DEFINE S == {k \in DOMAIN list : ~Before(e, list[k])}
             p == Cardinality(S)
  <2>1. Len(list) \in Nat /\ DOMAIN list = 1..Len(list) /\ \A k \in 1..Len(list) : list[k] \in Logged
    BY ElementOfSeq, LenProperties DEF ListOK
  <2>2. \A i \in 1..Len(list), k \in S : i < k => i \in S
    <3>1. SUFFICES ASSUME NEW i \in 1..Len(list), NEW k \in S, i < k PROVE ~Before(e, list[i])
      BY <2>1
    <3>2. ~Before(list[k], list[i]) /\ ~Before(e, list[k])
      BY <3>1, <2>1 DEF ListOK
    <3> QED
      BY <3>2, <2>1, BeforeOrder
  <2>3. p \in 0..Len(list) /\ S = 1..p
    <3>1. S \in SUBSET (1..Len(list))
      BY <2>1
    <3> HIDE DEF S
    <3> QED
      BY <2>1, <2>2, <3>1, PrefixOf
  <2>4. \A k \in 1..p : ~Before(e, list[k])
    BY <2>3
  <2>5. \A k \in (p + 1)..Len(list) : ~Before(list[k], e)
    <3>1. SUFFICES ASSUME NEW k \in (p + 1)..Len(list) PROVE Before(e, list[k])
      BY <2>1, <2>3, BeforeOrder
    <3> HIDE DEF S, p
    <3>2. k \in 1..Len(list) /\ k \notin S
      BY <3>1, <2>3, <2>1
    <3> USE DEF S
    <3> QED
      BY <3>2, <2>1
  <2>6. AddEvent(list, e) = Inserted(list, e, p)
    BY <1>2 DEF AddEvent
  <2> HIDE DEF S, p
  <2> QED
    BY <1>2, <2>1, <2>3, <2>4, <2>5, <2>6, InsertionKeepsOrder
<1> QED
  BY <1>1, <1>2

(* Sorted by block and index, without repetition: so each chain is in its  *)
(* order.                                                                  *)
LEMMA OrderedLists ==
  ASSUME history \in Histories, ListOK(events)
  PROVE  EventsInChainOrder
<1>1. SUFFICES ASSUME NEW i \in DOMAIN events, NEW j \in DOMAIN events,
                      i < j, events[i].chain = events[j].chain
               PROVE  Position(events[i]) < Position(events[j])
  BY DEF EventsInChainOrder
<1>2. /\ events[i] \in Logged /\ events[j] \in Logged
      /\ ~Before(events[j], events[i]) /\ Id(events[i]) # Id(events[j])
  BY <1>1, ElementOfSeq, LenProperties DEF ListOK
<1> DEFINE c == events[i].chain
<1>3. c \in Chains
  BY <1>2, LoggedShape
<1>4. PICK k \in DOMAIN history[c] : history[c][k] = events[i]
  BY <1>2, LoggedShape
<1>5. PICK l \in DOMAIN history[c] : history[c][l] = events[j]
  BY <1>1, <1>2, LoggedShape
<1>6. Position(events[i]) = k /\ Position(events[j]) = l
  BY <1>3, <1>4, <1>5, PositionOf
<1>7. k \in Nat /\ l \in Nat /\ k # l
  BY <1>2, <1>3, <1>4, <1>5, ChainShape
<1>8. ~(l < k)
  BY <1>2, <1>3, <1>4, <1>5, ChainShape
<1> QED
  BY <1>6, <1>7, <1>8

-----------------------------------------------------------------------------
(* The diagram.                                                            *)

(* A new node takes the next column of its lane.                           *)
LEMMA LaneGrows ==
  ASSUME NEW lane, NEW next, LaneOK(lane, next), NEW id, id \notin DOMAIN lane,
         NEW longer, longer = Beside(lane, id, next)
  PROVE  LaneOK(longer, next + 1) /\ DOMAIN longer = DOMAIN lane \cup {id}
<1>1. DOMAIN longer = DOMAIN lane \cup {id}
  BY DEF Beside
<1>2. longer[id] = next
  BY DEF Beside
<1>3. ASSUME NEW a \in DOMAIN lane PROVE longer[a] = lane[a] /\ lane[a] < next /\ lane[a] \in Nat
  BY <1>3 DEF Beside, LaneOK
<1>4. \A a, b \in DOMAIN lane : lane[a] = lane[b] => a = b
  BY DEF LaneOK
<1>5. next \in Nat
  BY DEF LaneOK
<1>6. \A a \in DOMAIN longer : longer[a] \in Nat /\ longer[a] < next + 1
  BY <1>1, <1>2, <1>3, <1>5
<1>7. ASSUME NEW a \in DOMAIN longer, NEW b \in DOMAIN longer, longer[a] = longer[b]
      PROVE  a = b
  <2>1. CASE a \in DOMAIN lane /\ b \in DOMAIN lane
    BY <2>1, <1>3, <1>4, <1>7
  <2>2. CASE a = id /\ b \in DOMAIN lane
    <3>1. longer[a] = next /\ longer[b] < next /\ longer[b] \in Nat
      BY <2>2, <1>2, <1>3
    <3> QED
      BY <3>1, <1>5, <1>7
  <2>3. CASE a \in DOMAIN lane /\ b = id
    BY <2>3, <1>2, <1>3, <1>5, <1>7
  <2>4. CASE a = id /\ b = id
    BY <2>4
  <2> QED
    BY <2>1, <2>2, <2>3, <2>4, <1>1, <1>7
<1> QED
  BY <1>1, <1>5, <1>6, <1>7 DEF LaneOK

(* What drawing a node does to a sound diagram: it stays sound, the node   *)
(* is there, and so is what was.                                           *)
Draws(d, after, ids) ==
    DiagramOK(after) /\ Existing(d) \cup ids \subseteq Existing(after)

LEMMA GhostDrawn ==
  ASSUME NEW d, DiagramOK(d), NEW id, NEW c \in Chains
  PROVE  Draws(d, EnsureGhost(d, id, c), {id})
<1>1. CASE id \in Existing(d)
  BY <1>1 DEF EnsureGhost, Draws
<1>2. CASE id \notin Existing(d)
  <2> DEFINE lane == Beside(d.nodes[c], id, d.nextCol[c])
             after == [d EXCEPT !.nodes[c] = lane, !.nextCol[c] = @ + 1]
  <2>1. EnsureGhost(d, id, c) = after
    BY <1>2 DEF EnsureGhost
  <2> HIDE DEF lane
  <2>2. LaneOK(lane, d.nextCol[c] + 1) /\ DOMAIN lane = DOMAIN d.nodes[c] \cup {id}
    <3>1. LaneOK(d.nodes[c], d.nextCol[c]) /\ id \notin DOMAIN d.nodes[c]
      BY <1>2 DEF DiagramOK, Existing, Chains
    <3> QED
      BY <3>1, LaneGrows DEF lane
  <2>3. /\ DOMAIN after = {"nodes", "edges", "known", "nextCol"}
        /\ DOMAIN after.nodes = Chains /\ DOMAIN after.nextCol = Chains
        /\ after.edges = d.edges
        /\ after.nodes[c] = lane /\ after.nextCol[c] = d.nextCol[c] + 1
        /\ \A o \in Chains \ {c} : after.nodes[o] = d.nodes[o] /\ after.nextCol[o] = d.nextCol[o]
    BY DEF DiagramOK
  <2> HIDE DEF after
  <2>4. Existing(d) \cup {id} \subseteq Existing(after)
    BY <2>2, <2>3 DEF Existing, Chains
  <2>5. \A o \in Chains : LaneOK(after.nodes[o], after.nextCol[o]) /\ Manager[o] \in DOMAIN after.nodes[o]
    <3>1. SUFFICES ASSUME NEW o \in Chains
                   PROVE  LaneOK(after.nodes[o], after.nextCol[o]) /\ Manager[o] \in DOMAIN after.nodes[o]
      OBVIOUS
    <3>2. LaneOK(d.nodes[o], d.nextCol[o]) /\ Manager[o] \in DOMAIN d.nodes[o]
      BY <3>1 DEF DiagramOK
    <3>3. CASE o = c
      BY <3>2, <3>3, <2>2, <2>3
    <3>4. CASE o # c
      BY <3>2, <3>4, <2>3
    <3> QED
      BY <3>3, <3>4
  <2>6. \A edge \in after.edges : {edge[1], edge[2]} \subseteq Existing(after)
    BY <2>3, <2>4 DEF DiagramOK
  <2> QED
    BY <2>1, <2>3, <2>4, <2>5, <2>6 DEF Draws, DiagramOK
<1> QED
  BY <1>1, <1>2

LEMMA KnownMarked ==
  ASSUME NEW d, DiagramOK(d), NEW known, NEW after, after = [d EXCEPT !.known = known]
  PROVE  DiagramOK(after) /\ Existing(after) = Existing(d)
<1>1. /\ DOMAIN after = {"nodes", "edges", "known", "nextCol"}
      /\ after.nodes = d.nodes /\ after.nextCol = d.nextCol /\ after.edges = d.edges
  BY DEF DiagramOK
<1>2. Existing(after) = Existing(d)
  BY <1>1 DEF Existing
<1> QED
  BY <1>1, <1>2 DEF DiagramOK

LEMMA NodeDrawn ==
  ASSUME NEW d, DiagramOK(d), NEW id, NEW c \in Chains
  PROVE  Draws(d, EnsureNode(d, id, c), {id})
<1>1. CASE id \in Existing(d)
  BY <1>1 DEF EnsureNode, Draws
<1>2. CASE id \notin Existing(d)
  <2> DEFINE ghost == EnsureGhost(d, id, c)
             after == [ghost EXCEPT !.known = ghost.known \cup {id}]
  <2>1. Draws(d, ghost, {id})
    BY GhostDrawn
  <2>2. EnsureNode(d, id, c) = after
    BY <1>2 DEF EnsureNode
  <2> HIDE DEF ghost
  <2>3. DiagramOK(after) /\ Existing(after) = Existing(ghost)
    BY <2>1, KnownMarked DEF Draws
  <2> QED
    BY <2>1, <2>2, <2>3 DEF Draws
<1> QED
  BY <1>1, <1>2

LEMMA UnknownDrawn ==
  ASSUME NEW d, DiagramOK(d), NEW id, NEW c \in Chains
  PROVE  DiagramOK(EnsureUnknown(d, id, c))
  BY NodeDrawn DEF EnsureUnknown, Draws

(* An edge between nodes that are drawn.                                   *)
LEMMA EdgeDrawn ==
  ASSUME NEW d, DiagramOK(d), NEW a \in Existing(d), NEW b \in Existing(d),
         NEW after, after = [d EXCEPT !.edges = @ \cup {<<a, b>>}]
  PROVE  DiagramOK(after)
<1>1. /\ DOMAIN after = {"nodes", "edges", "known", "nextCol"}
      /\ after.nodes = d.nodes /\ after.nextCol = d.nextCol
      /\ after.edges = d.edges \cup {<<a, b>>}
  BY DEF DiagramOK
<1>2. Existing(after) = Existing(d)
  BY <1>1 DEF Existing
<1>3. \A edge \in after.edges : {edge[1], edge[2]} \subseteq Existing(after)
  BY <1>1, <1>2 DEF DiagramOK
<1> QED
  BY <1>1, <1>3 DEF DiagramOK

LEMMA JoinedDrawn ==
  ASSUME NEW d, DiagramOK(d), NEW a, NEW b
  PROVE  DiagramOK(Joined(d, a, b))
<1>1. CASE {a, b} \subseteq Existing(d)
  BY <1>1, EdgeDrawn DEF Joined
<1>2. CASE ~({a, b} \subseteq Existing(d))
  BY <1>2 DEF Joined
<1> QED
  BY <1>1, <1>2

LEMMA ManagersDrawn ==
  ASSUME NEW d, DiagramOK(d), NEW c \in Chains
  PROVE  Manager[c] \in Existing(d)
  BY DEF DiagramOK, Existing, Chains

LEMMA FixedDrawn ==
  ASSUME NEW d, DiagramOK(d), NEW id, NEW c \in Chains
  PROVE  DiagramOK(Fixed(EnsureGhost(d, id, c), id, Manager[c]))
<1>1. Draws(d, EnsureGhost(d, id, c), {id})
  BY GhostDrawn
<1>2. Manager[c] \in Existing(EnsureGhost(d, id, c)) /\ id \in Existing(EnsureGhost(d, id, c))
  BY <1>1, ManagersDrawn DEF Draws
<1> QED
  BY <1>1, <1>2, EdgeDrawn DEF Fixed, Draws

(* discoverFromEvent keeps the diagram sound, for any event.               *)
LEMMA DiscoveryDraws ==
  ASSUME NEW d, DiagramOK(d), NEW e, e.chain \in Chains
  PROVE  DiagramOK(DiscoverFromEvent(d, e))
<1>0. "l1" \in Chains /\ "l2" \in Chains
  BY DEF Chains
<1>1. CASE e.name = "CrossChainProxyCreated"
  <2>1. DiagramOK(EnsureNode(d, e.to, e.chain))
    BY NodeDrawn DEF Draws
  <2> QED
    BY <1>1, <2>1, JoinedDrawn DEF DiscoverFromEvent
<1>2. CASE e.name = "BatchPosted"
  BY <1>0, <1>2, FixedDrawn DEF DiscoverFromEvent
<1>3. CASE e.name = "ExecutionTableLoaded"
  BY <1>0, <1>3, FixedDrawn DEF DiscoverFromEvent
<1>4. CASE e.name = "CrossChainCallExecuted"
  <2>1. DiagramOK(EnsureUnknown(d, e.from, e.chain))
    BY UnknownDrawn
  <2> QED
    BY <1>4, <2>1, JoinedDrawn DEF DiscoverFromEvent
<1>5. CASE e.name = "IncomingCrossChainCallExecuted"
  <2> DEFINE drawn == EnsureUnknown(d, e.to, e.chain)
             after == [drawn EXCEPT !.known = drawn.known \cup {e.from}]
  <2>1. DiagramOK(drawn)
    BY UnknownDrawn
  <2> HIDE DEF drawn
  <2>2. DiagramOK(after)
    BY <2>1, KnownMarked
  <2>3. DiscoverFromEvent(d, e) = Joined(after, Manager[e.chain], e.to)
    BY <1>5 DEF DiscoverFromEvent, drawn
  <2> QED
    BY <2>2, <2>3, JoinedDrawn
<1>6. CASE e.name \notin {"CrossChainProxyCreated", "BatchPosted", "ExecutionTableLoaded",
                          "CrossChainCallExecuted", "IncomingCrossChainCallExecuted"}
  BY <1>6 DEF DiscoverFromEvent
<1> QED
  BY <1>1, <1>2, <1>3, <1>4, <1>5, <1>6

-----------------------------------------------------------------------------
(* The handler of logs: a loop, as a recursive function.                   *)

IsHandling(s, c, first, upTo, names) ==
    s = [k \in 0..(upTo - first) |->
            IF k = 0 THEN Store
            ELSE LET e == history[c][first + k]
                 IN IF e.name \in names THEN HandleEvent(s[k - 1], e) ELSE s[k - 1]]

LEMMA HandlingExists ==
  ASSUME NEW c, NEW first, NEW upTo, NEW names, upTo - first \in Nat
  PROVE  \E s : IsHandling(s, c, first, upTo, names)
<1> DEFINE Turn(x, k) == IF history[c][first + k].name \in names
                         THEN HandleEvent(x, history[c][first + k]) ELSE x
           Trace(f, n) == /\ f = [i \in 0..n |-> f[i]] /\ f[0] = Store
                          /\ \A i \in 1..n : f[i] = Turn(f[i - 1], i)
           Ok == {n \in Nat : \E f : Trace(f, n)}
<1> HIDE DEF Turn
<1>1. 0 \in Ok
  <2>1. Trace([i \in 0..0 |-> Store], 0)
    OBVIOUS
  <2> QED
    BY <2>1
<1>2. ASSUME NEW n \in Ok PROVE n + 1 \in Ok
  <2>1. PICK f : Trace(f, n)
    BY <1>2
  <2> DEFINE t == [i \in 0..(n + 1) |-> IF i = n + 1 THEN Turn(f[n], n + 1) ELSE f[i]]
  <2>2. n \in Nat /\ t = [i \in 0..(n + 1) |-> t[i]] /\ t[0] = Store
    BY <2>1
  <2>3. ASSUME NEW i \in 1..(n + 1) PROVE t[i] = Turn(t[i - 1], i)
    <3>1. CASE i = n + 1
      BY <3>1, <2>2
    <3>2. CASE i # n + 1
      <4>1. i \in 1..n /\ i - 1 \in 0..n /\ i \in 0..n
        BY <2>2, <3>2
      <4>2. t[i] = f[i] /\ t[i - 1] = f[i - 1]
        BY <4>1, <2>2
      <4> QED
        BY <2>1, <4>1, <4>2
    <3> QED
      BY <3>1, <3>2
  <2> HIDE DEF t
  <2>4. Trace(t, n + 1)
    BY <2>2, <2>3
  <2> HIDE DEF Trace
  <2> QED
    BY <2>2, <2>4
<1> HIDE DEF Ok
<1>3. Ok = Nat
  <2>1. Ok \in SUBSET Nat
    BY DEF Ok
  <2> QED
    BY <1>1, <1>2, <2>1, NatSetInduction
<1>4. PICK f : Trace(f, upTo - first)
  BY <1>3 DEF Ok
<1>5. ASSUME NEW k \in 0..(upTo - first)
      PROVE  f[k] = IF k = 0 THEN Store
                    ELSE LET e == history[c][first + k]
                         IN IF e.name \in names THEN HandleEvent(f[k - 1], e) ELSE f[k - 1]
  <2>1. CASE k = 0
    BY <2>1, <1>4
  <2>2. CASE k # 0
    <3>1. k \in 1..(upTo - first)
      BY <2>2
    <3>2. f[k] = Turn(f[k - 1], k)
      BY <3>1, <1>4
    <3> QED
      BY <3>2, <2>2, Zenon DEF Turn
  <2> QED
    BY <2>1, <2>2
<1>6. IsHandling(f, c, first, upTo, names)
  BY <1>4, <1>5, Zenon DEF IsHandling
<1> QED
  BY <1>6

(* The stores that the loop passes through.                                *)
Passes(s, c, first, upTo, names) ==
    /\ HandleAll(c, first, upTo, names) = s[upTo - first]
    /\ s[0] = Store
    /\ \A k \in 1..(upTo - first) :
          \/ s[k] = HandleEvent(s[k - 1], history[c][first + k])
          \/ s[k] = s[k - 1]

LEMMA HandlingOf ==
  ASSUME NEW c, NEW first, NEW upTo, NEW names, upTo - first \in Nat
  PROVE  \E s : Passes(s, c, first, upTo, names)
<1> DEFINE s == CHOOSE s : IsHandling(s, c, first, upTo, names)
<1>1. IsHandling(s, c, first, upTo, names)
  BY HandlingExists
<1>2. HandleAll(c, first, upTo, names) = s[upTo - first]
  BY DEF HandleAll, IsHandling
<1> HIDE DEF s
<1>3. s[0] = Store
  BY <1>1 DEF IsHandling
<1>4. ASSUME NEW k \in 1..(upTo - first)
      PROVE  \/ s[k] = HandleEvent(s[k - 1], history[c][first + k])
             \/ s[k] = s[k - 1]
  <2>1. k \in 0..(upTo - first) /\ k # 0
    OBVIOUS
  <2> QED
    BY <2>1, <1>1 DEF IsHandling
<1>5. Passes(s, c, first, upTo, names)
  BY <1>2, <1>3, <1>4 DEF Passes
<1> QED
  BY <1>5

(* The store after logs of a chain: the list is in order, and a sound      *)
(* diagram stays sound.                                                    *)
LEMMA HandlingKeeps ==
  ASSUME history \in Histories, NEW c \in Chains, NEW first \in Nat, NEW upTo \in Nat,
         first <= upTo, upTo <= Len(history[c]), NEW names, ListOK(events)
  PROVE  /\ ListOK(HandleAll(c, first, upTo, names).events)
         /\ DiagramOK(Diagram) => DiagramOK(HandleAll(c, first, upTo, names).diagram)
<1>1. upTo - first \in Nat
  OBVIOUS
<1>0. PICK s : Passes(s, c, first, upTo, names)
  BY <1>1, HandlingOf
<1>2. /\ HandleAll(c, first, upTo, names) = s[upTo - first]
      /\ s[0] = Store
      /\ \A k \in 1..(upTo - first) :
            \/ s[k] = HandleEvent(s[k - 1], history[c][first + k])
            \/ s[k] = s[k - 1]
  BY <1>0 DEF Passes
<1> DEFINE Fine(x) == ListOK(x.events) /\ (DiagramOK(Diagram) => DiagramOK(x.diagram))
           Ok == {n \in Nat : n <= upTo - first => Fine(s[n])}
<1>3. Fine(s[0])
  BY <1>2 DEF Store
<1>4. ASSUME NEW n \in Nat, n + 1 <= upTo - first, Fine(s[n]) PROVE Fine(s[n + 1])
  <2> DEFINE e == history[c][first + (n + 1)]
  <2>1. n + 1 \in 1..(upTo - first) /\ (n + 1) - 1 = n /\ first + (n + 1) \in 1..Len(history[c])
    BY <1>4, ChainShape
  <2>2. e \in Logged /\ e.chain \in Chains
    BY <2>1, ChainShape
  <2> HIDE DEF e
  <2>3. s[n + 1] = HandleEvent(s[n], e) \/ s[n + 1] = s[n]
    BY <2>1, <1>2 DEF e
  <2>4. /\ HandleEvent(s[n], e).events = AddEvent(s[n].events, e)
        /\ HandleEvent(s[n], e).diagram = DiscoverFromEvent(s[n].diagram, e)
    BY DEF HandleEvent
  <2>5. Fine(HandleEvent(s[n], e))
    BY <2>2, <2>4, <1>4, AddEventKeepsOrder, DiscoveryDraws
  <2> QED
    BY <2>3, <2>5, <1>4
<1> HIDE DEF Fine
<1>5. Ok = Nat
  <2>1. 0 \in Ok
    BY <1>3
  <2>2. ASSUME NEW n \in Ok PROVE n + 1 \in Ok
    BY <1>1, <1>4
  <2>3. Ok \in SUBSET Nat
    OBVIOUS
  <2> HIDE DEF Ok
  <2> QED
    BY <2>1, <2>2, <2>3, NatSetInduction
<1>6. Fine(s[upTo - first])
  BY <1>1, <1>5
<1> QED
  BY <1>2, <1>6 DEF Fine

-----------------------------------------------------------------------------
(* The initial states and the steps.                                       *)

LEMMA InitEstablishes ==
  ASSUME Init
  PROVE  IInv
<1> USE DEF Init
<1>1. PlacesOK
  <2>1. \A c \in Chains : Len(history[c]) \in Nat
    BY ChainShape
  <2>2. \A s \in 1..MaxSessions : \A c \in Chains : reads[s][c].upTo = 0
    BY DEF Read
  <2>3. DOMAIN reads = 1..MaxSessions /\ \A s \in 1..MaxSessions : DOMAIN reads[s] = Chains
    OBVIOUS
  <2>4. \A c \in Chains : watch[c] \in [Names(c) -> Int] /\ \A n \in Names(c) : watch[c][n] = -1
    OBVIOUS
  <2> QED
    BY <2>1, <2>2, <2>3, <2>4 DEF PlacesOK
<1>2. ListOK(events)
  BY DEF ListOK
<1>3. DrawnOK
  BY DEF DrawnOK
<1> QED
  BY <1>1, <1>2, <1>3 DEF IInv

(* A set of positions with an upper bound: what Max finds is its last.     *)
LEMMA MaxOf ==
  ASSUME NEW n \in Nat, NEW S \in SUBSET (1..n), S # {}
  PROVE  Max(S) \in S /\ \A k \in S : k <= Max(S)
<1>1. PICK m \in S : \A k \in S : k <= m
  <2>1. S \in SUBSET (0..n)
    OBVIOUS
  <2> QED
    BY <2>1, NatSetGreatest
<1>2. \E x \in S : \A k \in S : x >= k
  BY <1>1
<1> QED
  BY <1>2 DEF Max

LEMMA PlacesKept ==
  ASSUME IInv, [Next]_vars
  PROVE  PlacesOK'
<1> USE DEF IInv
<1>0. PlacesOK
  OBVIOUS
<1>1. \A c \in Chains : Len(history[c]) \in Nat
  BY <1>0, ChainShape DEF PlacesOK
<1>2. history' = history
  BY DEF Next, vars, Connect, Disconnect, Mine, Answer, Arrive, Install, Poll
<1>3. \A c \in Chains : Names(c)' = Names(c)
  BY <1>2 DEF Names
<1> HIDE DEF IInv
<1>4. ASSUME Connect PROVE PlacesOK'
  <2>1. /\ head' = head /\ watch' = watch
        /\ reads' = [reads EXCEPT ![session'] = [c \in Chains |-> Read("sent", 0)]]
    BY <1>4 DEF Connect
  <2>2. DOMAIN reads' = 1..MaxSessions
    BY <1>0, <2>1 DEF PlacesOK
  <2>3. ASSUME NEW s \in 1..MaxSessions
        PROVE  DOMAIN reads'[s] = Chains /\ \A c \in Chains : reads'[s][c].upTo \in 0..Len(history[c])
    <3>1. CASE s = session'
      <4>1. reads'[s] = [c \in Chains |-> Read("sent", 0)]
        BY <3>1, <2>1, <1>0 DEF PlacesOK
      <4> QED
        BY <4>1, <1>1 DEF Read
    <3>2. CASE s # session'
      <4>1. reads'[s] = reads[s]
        BY <3>2, <2>1, <1>0 DEF PlacesOK
      <4> QED
        BY <4>1, <1>0 DEF PlacesOK
    <3> QED
      BY <3>1, <3>2
  <2> QED
    BY <1>0, <1>2, <1>3, <2>1, <2>2, <2>3 DEF PlacesOK
<1>5. ASSUME Disconnect PROVE PlacesOK'
  <2>1. head' = head /\ reads' = reads /\ watch' = [c \in Chains |-> [n \in Names(c) |-> -1]]
    BY <1>5 DEF Disconnect
  <2>2. \A c \in Chains : watch'[c] \in [Names(c) -> Int] /\ \A n \in Names(c) : watch'[c][n] = -1
    BY <2>1
  <2> QED
    BY <1>0, <1>1, <1>2, <1>3, <2>1, <2>2 DEF PlacesOK
<1>6. ASSUME NEW c \in Chains, Mine(c) PROVE PlacesOK'
  <2> DEFINE S == {k \in DOMAIN history[c] : history[c][k].block = history[c][head[c] + 1].block}
  <2>1. /\ head[c] < Len(history[c]) /\ reads' = reads /\ watch' = watch
        /\ head' = [head EXCEPT ![c] = Max(S)]
    BY <1>6 DEF Mine
  <2>2. S \in SUBSET (1..Len(history[c])) /\ head[c] + 1 \in S
    <3>1. DOMAIN history[c] = 1..Len(history[c]) /\ head[c] \in Nat
      BY <1>0, ChainShape DEF PlacesOK
    <3> QED
      BY <3>1, <2>1, <1>1
  <2> HIDE DEF S
  <2>3. Max(S) \in 1..Len(history[c])
    BY <2>2, <1>1, MaxOf
  <2>4. head' \in [Chains -> Nat] /\ \A o \in Chains : head'[o] <= Len(history[o])
    BY <2>1, <2>3, <1>0, <1>1 DEF PlacesOK
  <2> QED
    BY <1>0, <1>2, <1>3, <2>1, <2>4 DEF PlacesOK
<1>7. ASSUME NEW c \in Chains, NEW s \in 1..MaxSessions, NEW read,
             read.upTo \in 0..Len(history[c]), reads' = [reads EXCEPT ![s][c] = read],
             head' = head, watch' = watch
      PROVE  PlacesOK'
  <2>1. DOMAIN reads' = 1..MaxSessions /\ \A o \in 1..MaxSessions : DOMAIN reads'[o] = Chains
    BY <1>0, <1>7 DEF PlacesOK
  <2>2. ASSUME NEW o \in 1..MaxSessions, NEW x \in Chains PROVE reads'[o][x].upTo \in 0..Len(history[x])
    <3>1. CASE o = s /\ x = c
      BY <3>1, <1>0, <1>7 DEF PlacesOK
    <3>2. CASE ~(o = s /\ x = c)
      <4>1. reads'[o][x] = reads[o][x]
        BY <3>2, <1>0, <1>7 DEF PlacesOK
      <4> QED
        BY <4>1, <1>0 DEF PlacesOK
    <3> QED
      BY <3>1, <3>2
  <2> QED
    BY <1>0, <1>2, <1>3, <1>7, <2>1, <2>2 DEF PlacesOK
<1>8. ASSUME NEW c \in Chains, NEW s \in 1..MaxSessions, Answer(s, c) PROVE PlacesOK'
  <2>1. PICK read \in {Read("read", head[c]), Read("done", 0)} : reads' = [reads EXCEPT ![s][c] = read]
    BY <1>8 DEF Answer
  <2>2. read.upTo \in 0..Len(history[c])
    BY <1>0, <1>1, <2>1 DEF PlacesOK, Read
  <2> QED
    BY <1>7, <1>8, <2>1, <2>2 DEF Answer
<1>9. ASSUME NEW c \in Chains, NEW s \in 1..MaxSessions, Arrive(s, c) PROVE PlacesOK'
  <2>1. Read("done", 0).upTo \in 0..Len(history[c])
    BY <1>1 DEF Read
  <2> QED
    BY <1>7, <1>9, <2>1 DEF Arrive
<1>10. ASSUME NEW c \in Chains, NEW n \in Names(c), Install(c, n) \/ Poll(c, n) PROVE PlacesOK'
  <2>1. head' = head /\ reads' = reads /\ watch' = [watch EXCEPT ![c][n] = head[c]]
    BY <1>10 DEF Install, Poll
  <2>2. head[c] \in Nat /\ head[c] <= Len(history[c])
    BY <1>0 DEF PlacesOK
  <2>3. DOMAIN watch' = Chains
    BY <1>0, <2>1 DEF PlacesOK
  <2>4. ASSUME NEW o \in Chains
        PROVE  /\ watch'[o] \in [Names(o) -> Int]
               /\ \A m \in Names(o) : -1 <= watch'[o][m] /\ watch'[o][m] <= Len(history[o])
    <3>0. /\ watch[o] \in [Names(o) -> Int]
          /\ \A m \in Names(o) : -1 <= watch[o][m] /\ watch[o][m] <= Len(history[o])
      BY <1>0 DEF PlacesOK
    <3>1. CASE o = c
      <4>1. watch'[o] = [watch[c] EXCEPT ![n] = head[c]]
        BY <3>1, <2>1, <1>0 DEF PlacesOK
      <4> QED
        BY <4>1, <3>0, <3>1, <2>2
    <3>2. CASE o # c
      <4>1. watch'[o] = watch[o]
        BY <3>2, <2>1, <1>0 DEF PlacesOK
      <4> QED
        BY <4>1, <3>0
    <3> QED
      BY <3>1, <3>2
  <2> QED
    BY <1>0, <1>2, <1>3, <2>1, <2>3, <2>4 DEF PlacesOK
<1>11. ASSUME UNCHANGED vars PROVE PlacesOK'
  BY <1>0, <1>2, <1>3, <1>11 DEF PlacesOK, vars
<1> QED
  BY <1>4, <1>5, <1>6, <1>8, <1>9, <1>10, <1>11 DEF Next

(* What the handler leaves in the variables.                               *)
LEMMA HandledStore ==
  ASSUME PlacesOK, history' = history, ListOK(events), NEW c \in Chains,
         NEW first \in Nat, NEW upTo \in Nat, first <= upTo, upTo <= Len(history[c]),
         NEW names, Handle(c, first, upTo, names)
  PROVE  ListOK(events)' /\ (DiagramOK(Diagram) => DiagramOK(Diagram)')
<1> DEFINE after == HandleAll(c, first, upTo, names)
<1>1. ListOK(after.events) /\ (DiagramOK(Diagram) => DiagramOK(after.diagram))
  BY HandlingKeeps DEF PlacesOK
<1>2. /\ events' = after.events
      /\ nodes' = after.diagram.nodes /\ edges' = after.diagram.edges
      /\ knownAddresses' = after.diagram.known /\ nextCol' = after.diagram.nextCol
  BY DEF Handle
<1> HIDE DEF after
<1>3. Logged' = Logged
  BY DEF Logged
<1>4. ListOK(events)'
  BY <1>1, <1>2, <1>3 DEF ListOK
<1>5. ASSUME DiagramOK(after.diagram) PROVE DiagramOK(Diagram)'
  <2>1. /\ Diagram'.nodes = after.diagram.nodes /\ Diagram'.edges = after.diagram.edges
        /\ Diagram'.nextCol = after.diagram.nextCol
        /\ DOMAIN Diagram' = {"nodes", "edges", "known", "nextCol"}
    BY <1>2 DEF Diagram
  <2>2. Existing(Diagram') = Existing(after.diagram)
    BY <2>1 DEF Existing
  <2> QED
    BY <1>5, <2>1, <2>2 DEF DiagramOK
<1> QED
  BY <1>1, <1>4, <1>5

LEMMA ConnectDraws ==
  ASSUME DrawnOK, Connect
  PROVE  DrawnOK'
<1>1. CASE late
  BY <1>1 DEF Connect, DrawnOK
<1>2. CASE ~late
  <2>1. nodes = [c \in Chains |-> <<>>] /\ edges = {}
    BY <1>2 DEF DrawnOK, Connect
  <2>2. /\ nodes' = InitManagerNodes(nodes) /\ edges' = edges /\ connected' = TRUE
        /\ nextCol' = [c \in Chains |-> 1]
    BY DEF Connect
  <2>3. ASSUME NEW c \in Chains PROVE nodes'[c] = [x \in {Manager[c]} |-> 0]
    <3>1. DOMAIN nodes[c] = {}
      BY <2>1
    <3>2. nodes'[c] = Beside(nodes[c], Manager[c], 0)
      BY <2>2, <3>1 DEF InitManagerNodes
    <3> QED
      BY <3>1, <3>2 DEF Beside
  <2>4. ASSUME NEW c \in Chains PROVE LaneOK(nodes'[c], nextCol'[c]) /\ Manager[c] \in DOMAIN nodes'[c]
    <3>1. nextCol'[c] = 1
      BY <2>2
    <3>2. DOMAIN nodes'[c] = {Manager[c]} /\ nodes'[c][Manager[c]] = 0
      BY <2>3
    <3> QED
      BY <3>1, <3>2 DEF LaneOK
  <2>5. /\ DOMAIN Diagram' = {"nodes", "edges", "known", "nextCol"}
        /\ Diagram'.nodes = nodes' /\ Diagram'.edges = {} /\ Diagram'.nextCol = nextCol'
        /\ DOMAIN nodes' = Chains /\ DOMAIN nextCol' = Chains
    BY <2>1, <2>2 DEF Diagram, InitManagerNodes
  <2>6. DiagramOK(Diagram)'
    BY <2>4, <2>5 DEF DiagramOK
  <2> QED
    BY <2>2, <2>6 DEF DrawnOK
<1> QED
  BY <1>1, <1>2

LEMMA NextKeeps ==
  ASSUME IInv, [Next]_vars
  PROVE  IInv'
<1>1. PlacesOK /\ ListOK(events) /\ DrawnOK
  BY DEF IInv
<1>2. PlacesOK'
  BY PlacesKept
<1>3. history' = history
  BY DEF Next, vars, Connect, Disconnect, Mine, Answer, Arrive, Install, Poll
<1>4. Logged' = Logged
  BY <1>3 DEF Logged
<1>5. ASSUME UNCHANGED <<connected, store, late>> PROVE ListOK(events)' /\ DrawnOK'
  BY <1>1, <1>4, <1>5 DEF store, ListOK, DrawnOK, Diagram
<1>6. ASSUME Connect PROVE ListOK(events)' /\ DrawnOK'
  <2>1. events' = events
    BY <1>6 DEF Connect
  <2> QED
    BY <1>1, <1>4, <1>6, <2>1, ConnectDraws DEF ListOK
<1>7. ASSUME Disconnect PROVE ListOK(events)' /\ DrawnOK'
  BY <1>7 DEF Disconnect, ClearAll, ListOK, DrawnOK
<1>8. ASSUME NEW c \in Chains, NEW s \in 1..MaxSessions, Arrive(s, c)
      PROVE  ListOK(events)' /\ DrawnOK'
  <2>1. /\ Handle(c, 0, reads[s][c].upTo, Names(c))
        /\ late' = (late \/ ~connected \/ s # session) /\ connected' = connected
    BY <1>8 DEF Arrive
  <2>2. reads[s][c].upTo \in Nat /\ reads[s][c].upTo <= Len(history[c])
    BY <1>1, ChainShape DEF PlacesOK
  <2>3. ListOK(events)' /\ (DiagramOK(Diagram) => DiagramOK(Diagram)')
    BY <1>1, <1>3, <2>1, <2>2, HandledStore
  <2> QED
    BY <1>1, <2>1, <2>3 DEF DrawnOK
<1>9. ASSUME NEW c \in Chains, NEW n \in Names(c), Poll(c, n)
      PROVE  ListOK(events)' /\ DrawnOK'
  <2>1. /\ connected /\ watch[c][n] # -1 /\ watch[c][n] < head[c]
        /\ Handle(c, watch[c][n], head[c], {n})
        /\ late' = late /\ connected' = connected
    BY <1>9 DEF Poll
  <2>2. watch[c][n] \in Nat /\ head[c] \in Nat /\ head[c] <= Len(history[c])
    <3>1. watch[c] \in [Names(c) -> Int] /\ -1 <= watch[c][n]
      BY <1>1 DEF PlacesOK
    <3> QED
      BY <1>1, <2>1, <3>1 DEF PlacesOK
  <2>3. ListOK(events)' /\ (DiagramOK(Diagram) => DiagramOK(Diagram)')
    BY <1>1, <1>3, <2>1, <2>2, HandledStore
  <2> QED
    BY <1>1, <2>1, <2>3 DEF DrawnOK
<1>10. ASSUME NEW c \in Chains, Mine(c) PROVE UNCHANGED <<connected, store, late>>
  BY <1>10 DEF Mine
<1>11. ASSUME NEW c \in Chains, NEW s \in 1..MaxSessions, Answer(s, c)
       PROVE  UNCHANGED <<connected, store, late>>
  BY <1>11 DEF Answer
<1>12. ASSUME NEW c \in Chains, NEW n \in Names(c), Install(c, n)
       PROVE  UNCHANGED <<connected, store, late>>
  BY <1>12 DEF Install
<1>13. ASSUME UNCHANGED vars PROVE UNCHANGED <<connected, store, late>>
  BY <1>13 DEF vars
<1>14. ListOK(events)' /\ DrawnOK'
  BY <1>5, <1>6, <1>7, <1>8, <1>9, <1>10, <1>11, <1>12, <1>13 DEF Next
<1> QED
  BY <1>2, <1>14 DEF IInv

LEMMA Invariance == Spec => []IInv
<1>1. Init => IInv
  BY InitEstablishes
<1>2. IInv /\ [Next]_vars => IInv'
  BY NextKeeps
<1> QED
  BY <1>1, <1>2, PTL DEF Spec

-----------------------------------------------------------------------------
(* Going back in time: the tables that a replay shows.                     *)

Hashes == UNION {{entry.hash : entry \in Range(e.entries)} : e \in Logged}
Row == [id : {<<Id(e), h>> : e \in Logged, h \in Hashes}, hash : Short(Hashes),
        status : {"ja", "ok", "jc", "consumed"}]

Struck(row) == row.status \in {"jc", "consumed"}

(* A table shows what a set of events loaded and consumed: of the hashes   *)
(* loaded what is shown of them, one row where one entry shows it, and     *)
(* that struck out if it was consumed.                                     *)
Shows(t, es) ==
    /\ t \in Seq(Row)
    /\ \A p \in DOMAIN t : t[p].hash \in Short(LoadedHashes(es))
    /\ \A h \in Short(LoadedHashes(es)) : \E p \in DOMAIN t : t[p].hash = h
    /\ \A p, q \in DOMAIN t : t[p].hash = t[q].hash /\ LoadedOnce(es, t[p].hash) => p = q
    /\ \A p \in DOMAIN t : Struck(t[p]) => t[p].hash \in Short(ConsumedHashes(es))
    /\ \A p \in DOMAIN t :
          t[p].hash \in Short(ConsumedHashes(es)) /\ LoadedOnce(es, t[p].hash) => Struck(t[p])

(* Hashes an event loads no row for.                                       *)
Skipped(e) == IF e.name = "BatchPosted" THEN {Immediate} ELSE {}

(* A sequence has the entries of another but those skipped, each once; g   *)
(* has their places.                                                       *)
Chosen(d, s, Z, g) ==
    /\ g \in [1..Len(d) -> DOMAIN s]
    /\ \A j, k \in 1..Len(d) : g[j] = g[k] => j = k
    /\ \A j \in 1..Len(d) : d[j] = s[g[j]] /\ s[g[j]].hash \notin Z
    /\ \A k \in DOMAIN s : s[k].hash \notin Z => \E j \in 1..Len(d) : g[j] = k

LEMMA DeferredOf ==
  ASSUME NEW T, NEW e, e.entries \in Seq(T)
  PROVE  Deferred(e) \in Seq(T) /\ \E g : Chosen(Deferred(e), e.entries, {Immediate}, g)
<1> DEFINE s == e.entries
           N == Len(s)
           piece == [k \in DOMAIN s |-> IF s[k].hash = Immediate THEN <<>> ELSE <<s[k]>>]
           Fits(d, n, g) ==
              /\ d \in Seq(T) /\ g \in [1..Len(d) -> 1..n]
              /\ \A j, k \in 1..Len(d) : g[j] = g[k] => j = k
              /\ \A j \in 1..Len(d) : d[j] = s[g[j]] /\ s[g[j]].hash # Immediate
              /\ \A k \in 1..n : s[k].hash # Immediate => \E j \in 1..Len(d) : g[j] = k
<1>1. N \in Nat /\ DOMAIN s = 1..N /\ \A k \in 1..N : s[k] \in T
  BY LenProperties, ElementOfSeq
<1>2. piece \in Seq(Seq(T)) /\ Len(piece) = N
        /\ \A k \in 1..N : piece[k] = IF s[k].hash = Immediate THEN <<>> ELSE <<s[k]>>
  <2>1. \A k \in 1..N : piece[k] \in Seq(T)
    BY <1>1, Single, EmptySeq
  <2>2. piece = [k \in 1..N |-> piece[k]]
    BY <1>1
  <2> HIDE DEF piece
  <2> DEFINE S == Seq(T)
  <2>3. piece \in [1..N -> S]
    BY <2>1, <2>2
  <2> HIDE DEF S
  <2>4. piece \in Seq(S)
    BY <1>1, <2>3, SeqDef
  <2>5. Len(piece) = N
    BY <1>1, <2>2, <2>4, LenProperties
  <2> QED
    BY <1>1, <2>4, <2>5 DEF piece, S
<1>3. Deferred(e) = FlattenSeq(piece)
  BY DEF Deferred
<1> HIDE DEF piece, s, N
<1>4. PICK f \in [0..Len(piece) -> Seq(T)] : Flattens(f, piece) /\ FlattenSeq(piece) = f[Len(piece)]
  BY <1>2, FlattenLoop
<1> DEFINE A == {n \in Nat : n <= N => \E g : Fits(f[n], n, g)}
<1>5. 0 \in A
  <2>1. f[0] = <<>> /\ <<>> \in Seq(T) /\ Len(<<>>) = 0
    BY <1>4, EmptySeq DEF Flattens
  <2>2. Fits(f[0], 0, [j \in 1..0 |-> 0])
    BY <2>1
  <2> HIDE DEF Fits
  <2> QED
    BY <2>2
<1>6. ASSUME NEW n \in A, n + 1 <= N PROVE \E g : Fits(f[n + 1], n + 1, g)
  <2>0. n \in Nat /\ n <= N /\ n + 1 \in 1..N /\ (n + 1) - 1 = n
    BY <1>1, <1>6
  <2>1. PICK g : Fits(f[n], n, g)
    BY <1>6, <2>0
  <2>2. f[n + 1] = f[n] \o piece[n + 1]
    BY <1>2, <1>4, <2>0 DEF Flattens
  <2>3. CASE s[n + 1].hash = Immediate
    <3>1. f[n + 1] = f[n]
      <4>1. piece[n + 1] = <<>> /\ f[n] \in Seq(T)
        BY <1>2, <2>0, <2>1, <2>3
      <4> QED
        BY <2>2, <4>1, ConcatEmptySeq
    <3>2. g \in [1..Len(f[n]) -> 1..(n + 1)]
      BY <2>0, <2>1
    <3>3. \A k \in 1..(n + 1) : s[k].hash # Immediate => \E j \in 1..Len(f[n]) : g[j] = k
      BY <2>0, <2>1, <2>3
    <3>4. Fits(f[n + 1], n + 1, g)
      BY <2>1, <3>1, <3>2, <3>3
    <3> QED
      BY <3>4
  <2>4. CASE s[n + 1].hash # Immediate
    <3> DEFINE d == f[n]
               x == s[n + 1]
               m == Len(d)
               g1 == [j \in 1..(m + 1) |-> IF j = m + 1 THEN n + 1 ELSE g[j]]
    <3>1. d \in Seq(T) /\ x \in T /\ m \in Nat
      BY <1>1, <2>0, <2>1, LenProperties
    <3>2. f[n + 1] = Append(d, x)
      <4>1. piece[n + 1] = <<x>>
        BY <1>2, <2>0, <2>4
      <4> QED
        BY <2>2, <3>1, <4>1, AppendIsConcat
    <3>3. /\ Append(d, x) \in Seq(T) /\ Len(Append(d, x)) = m + 1 /\ Append(d, x)[m + 1] = x
          /\ \A j \in 1..m : Append(d, x)[j] = d[j]
      BY <3>1, AppendProperties
    <3>4. /\ g \in [1..m -> 1..n] /\ \A j, k \in 1..m : g[j] = g[k] => j = k
          /\ \A j \in 1..m : d[j] = s[g[j]] /\ s[g[j]].hash # Immediate
          /\ \A k \in 1..n : s[k].hash # Immediate => \E j \in 1..m : g[j] = k
      BY <2>1
    <3> HIDE DEF d, m
    <3>5. g1 \in [1..(m + 1) -> 1..(n + 1)] /\ g1[m + 1] = n + 1
          /\ \A j \in 1..m : g1[j] = g[j] /\ g1[j] \in 1..n
      BY <2>0, <3>1, <3>4
    <3> HIDE DEF g1
    <3>6. \A j, k \in 1..(m + 1) : g1[j] = g1[k] => j = k
      <4>1. SUFFICES ASSUME NEW j \in 1..(m + 1), NEW k \in 1..(m + 1), g1[j] = g1[k] PROVE j = k
        OBVIOUS
      <4>2. (j = m + 1 \/ j \in 1..m) /\ (k = m + 1 \/ k \in 1..m)
        BY <3>1
      <4>3. n + 1 \notin 1..n
        BY <2>0
      <4> QED
        BY <3>4, <3>5, <4>1, <4>2, <4>3
    <3>7. \A j \in 1..(m + 1) : Append(d, x)[j] = s[g1[j]] /\ s[g1[j]].hash # Immediate
      <4>1. SUFFICES ASSUME NEW j \in 1..(m + 1)
                     PROVE  Append(d, x)[j] = s[g1[j]] /\ s[g1[j]].hash # Immediate
        OBVIOUS
      <4>2. j = m + 1 \/ j \in 1..m
        BY <3>1
      <4> QED
        BY <2>4, <3>3, <3>4, <3>5, <4>2
    <3>8. \A k \in 1..(n + 1) : s[k].hash # Immediate => \E j \in 1..(m + 1) : g1[j] = k
      <4>1. SUFFICES ASSUME NEW k \in 1..(n + 1), s[k].hash # Immediate
                     PROVE  \E j \in 1..(m + 1) : g1[j] = k
        OBVIOUS
      <4>2. CASE k = n + 1
        <5>1. m + 1 \in 1..(m + 1)
          BY <3>1
        <5> QED
          BY <3>5, <4>2, <5>1
      <4>3. CASE k # n + 1
        <5>1. k \in 1..n
          BY <2>0, <4>3
        <5>2. PICK j \in 1..m : g[j] = k
          BY <3>4, <4>1, <5>1
        <5>3. j \in 1..(m + 1)
          BY <3>1
        <5> QED
          BY <3>5, <5>2, <5>3
      <4> QED
        BY <4>2, <4>3
    <3>9. Fits(f[n + 1], n + 1, g1)
      BY <3>2, <3>3, <3>5, <3>6, <3>7, <3>8
    <3> HIDE DEF Fits
    <3> QED
      BY <3>9
  <2> QED
    BY <2>3, <2>4
<1> HIDE DEF Fits
<1>7. A = Nat
  <2>1. A \in SUBSET Nat
    OBVIOUS
  <2>2. ASSUME NEW n \in A PROVE n + 1 \in A
    <3>1. n + 1 \in Nat
      OBVIOUS
    <3>2. n + 1 <= N => \E g : Fits(f[n + 1], n + 1, g)
      BY <1>6
    <3> QED
      BY <3>1, <3>2
  <2> HIDE DEF A
  <2> QED
    BY <1>5, <2>1, <2>2, NatSetInduction
<1>8. PICK g : Fits(f[N], N, g)
  BY <1>1, <1>7
<1>9. Deferred(e) = f[N]
  BY <1>2, <1>3, <1>4
<1> DEFINE d == Deferred(e)
<1>10. d \in Seq(T) /\ Chosen(d, s, {Immediate}, g)
  BY <1>1, <1>8, <1>9 DEF Fits, Chosen
<1> QED
  BY <1>10 DEF s

LEMMA LoadedWith ==
  ASSUME NEW es, NEW e
  PROVE  LoadedHashes(es \cup {e}) =
            LoadedHashes(es) \cup
               (IF e.name \in {"BatchPosted", "ExecutionTableLoaded"}
                THEN {entry.hash : entry \in Range(e.entries)} \ Skipped(e) ELSE {})
<1> DEFINE hashes(f) == {entry.hash : entry \in Range(f.entries)}
           By(S, name) == UNION {hashes(f) : f \in {x \in S : x.name = name}}
<1>1. \A S : LoadedHashes(S) = (By(S, "BatchPosted") \ {Immediate})
                                  \cup By(S, "ExecutionTableLoaded")
  BY DEF LoadedHashes
<1> HIDE DEF hashes
<1>2. \A name : By(es \cup {e}, name) = By(es, name) \cup (IF e.name = name THEN hashes(e) ELSE {})
  OBVIOUS
<1> HIDE DEF By
<1>3. CASE e.name = "BatchPosted"
  <2>1. e.name # "ExecutionTableLoaded"
    BY <1>3
  <2> QED
    BY <1>1, <1>2, <1>3, <2>1 DEF Skipped, hashes
<1>4. CASE e.name # "BatchPosted"
  BY <1>1, <1>2, <1>4 DEF Skipped, hashes
<1> QED
  BY <1>3, <1>4

(* Hashes that are loaded or consumed show something that is.              *)
LEMMA ShortOf ==
  ASSUME NEW A, NEW B
  PROVE  /\ Short(A \cup B) = Short(A) \cup Short(B)
         /\ A \subseteq B => Short(A) \subseteq Short(B)
         /\ \A h : Short({h}) = {TruncateHex(h)}
BY DEF Short

LEMMA ConsumedWith ==
  ASSUME NEW es, NEW e
  PROVE  ConsumedHashes(es \cup {e}) =
            ConsumedHashes(es) \cup (IF e.name = "ExecutionConsumed" THEN {e.hash} ELSE {})
BY DEF ConsumedHashes

LEMMA OnceBefore ==
  ASSUME NEW es, NEW e, NEW h, LoadedOnce(es \cup {e}, h)
  PROVE  LoadedOnce(es, h)
BY DEF LoadedOnce

(* A hash that is loaded is that of an entry of some event.                *)
LEMMA LoadedBy ==
  ASSUME NEW es, NEW h \in Short(LoadedHashes(es))
  PROVE  \E f \in es : \E n \in DOMAIN f.entries : TruncateHex(f.entries[n].hash) = h
<1>1. PICK x \in LoadedHashes(es) : TruncateHex(x) = h
  BY DEF Short
<1>2. \E f \in es : \E n \in DOMAIN f.entries : f.entries[n].hash = x
  BY DEF LoadedHashes, Range
<1> QED
  BY <1>1, <1>2

(* A table whose rows keep their hashes and stay struck out or not.        *)
LEMMA Restyled ==
  ASSUME NEW es, NEW t, Shows(t, es), NEW u, u = [k \in DOMAIN t |-> u[k]],
         \A k \in DOMAIN t :
            u[k] \in Row /\ u[k].hash = t[k].hash /\ (Struck(u[k]) <=> Struck(t[k]))
  PROVE  Shows(u, es)
<1>1. t \in Seq(Row) /\ DOMAIN u = DOMAIN t /\ DOMAIN t = 1..Len(t) /\ Len(t) \in Nat
  BY LenProperties DEF Shows
<1>2. u \in Seq(Row)
  <2> DEFINE R == Row
  <2>1. u \in [1..Len(t) -> R]
    BY <1>1
  <2> HIDE DEF R
  <2>2. u \in Seq(R)
    BY <1>1, <2>1, SeqDef
  <2> QED
    BY <2>2 DEF R
<1> QED
  BY <1>1, <1>2 DEF Shows

LEMMA AgedShows ==
  ASSUME NEW es, NEW t, Shows(t, es)
  PROVE  Shows(Aged(t), es)
<1> DEFINE u == Aged(t)
<1>1. \A k \in DOMAIN t : t[k] \in Row
  BY ElementOfSeq, LenProperties DEF Shows
<1>2. u = [k \in DOMAIN t |-> u[k]]
  BY DEF Aged
<1>3. ASSUME NEW k \in DOMAIN t
      PROVE  u[k] \in Row /\ u[k].hash = t[k].hash /\ (Struck(u[k]) <=> Struck(t[k]))
  <2>1. u[k] = IF t[k].status = "ja" THEN [t[k] EXCEPT !.status = "ok"] ELSE t[k]
    BY DEF Aged
  <2>2. t[k] \in Row
    BY <1>1
  <2> HIDE DEF u
  <2> QED
    BY <2>1, <2>2 DEF Row, Struck
<1> HIDE DEF u
<1>4. Shows(u, es)
  BY <1>2, <1>3, Restyled
<1> QED
  BY <1>4 DEF u

(* Rows that are not struck out yet, for the entries that are not skipped. *)
RowsOf(r, s, Z, g) ==
    /\ r \in Seq(Row) /\ g \in [1..Len(r) -> DOMAIN s]
    /\ \A j, k \in 1..Len(r) : g[j] = g[k] => j = k
    /\ \A j \in 1..Len(r) :
          r[j].hash = TruncateHex(s[g[j]].hash) /\ s[g[j]].hash \notin Z /\ ~Struck(r[j])
    /\ \A k \in DOMAIN s : s[k].hash \notin Z => \E j \in 1..Len(r) : g[j] = k

(* An event that loads entries: each has a row.                            *)
LEMMA LoadingShows ==
  ASSUME NEW es, NEW e, e \notin es, NEW t, Shows(t, es),
         e.name \in {"BatchPosted", "ExecutionTableLoaded"},
         \A h \in ConsumedHashes(es) : h \in LoadedHashes(es),
         NEW r, NEW g, RowsOf(r, e.entries, Skipped(e), g)
  PROVE  Shows(t \o r, es \cup {e})
<1> DEFINE u == t \o r
           E == es \cup {e}
           L == Len(t)
           M == Len(r)
<1>0. /\ r \in Seq(Row) /\ g \in [1..M -> DOMAIN e.entries]
      /\ \A j, k \in 1..M : g[j] = g[k] => j = k
      /\ \A j \in 1..M : /\ r[j].hash = TruncateHex(e.entries[g[j]].hash)
                         /\ e.entries[g[j]].hash \notin Skipped(e) /\ ~Struck(r[j])
      /\ \A k \in DOMAIN e.entries :
            e.entries[k].hash \notin Skipped(e) => \E j \in 1..M : g[j] = k
  BY DEF RowsOf
<1>1. /\ t \in Seq(Row) /\ L \in Nat /\ M \in Nat /\ DOMAIN t = 1..L /\ DOMAIN r = 1..M
  BY <1>0, LenProperties DEF Shows
<1>2. /\ u \in Seq(Row) /\ Len(u) = L + M
      /\ \A p \in 1..(L + M) : u[p] = IF p <= L THEN t[p] ELSE r[p - L]
  BY <1>0, <1>1, ConcatProperties
<1>3. DOMAIN u = 1..(L + M)
  BY <1>2, LenProperties
<1> DEFINE New == {entry.hash : entry \in Range(e.entries)} \ Skipped(e)
           Now == Short(LoadedHashes(es))
           Then == Short(LoadedHashes(E))
           Gone == Short(ConsumedHashes(es))
<1>4. Then = Now \cup Short(New)
  <2>1. LoadedHashes(E) = LoadedHashes(es) \cup New
    BY LoadedWith
  <2>2. Short(LoadedHashes(es) \cup New) = Short(LoadedHashes(es)) \cup Short(New)
    BY ShortOf
  <2> HIDE DEF New, E
  <2> QED
    BY <2>1, <2>2
<1>5. ConsumedHashes(E) = ConsumedHashes(es)
  <2>1. e.name # "ExecutionConsumed"
    OBVIOUS
  <2> QED
    BY <2>1 DEF ConsumedHashes
<1>14. Gone \subseteq Now
  BY ShortOf, Zenon
<1>6. \A h : LoadedOnce(E, h) => LoadedOnce(es, h)
  BY OnceBefore
<1>7. ASSUME NEW h \in Now, NEW j \in 1..M, r[j].hash = h PROVE ~LoadedOnce(E, h)
  <2>1. PICK f \in es : \E n \in DOMAIN f.entries : TruncateHex(f.entries[n].hash) = h
    BY LoadedBy
  <2>2. g[j] \in DOMAIN e.entries /\ TruncateHex(e.entries[g[j]].hash) = h
    BY <1>0, <1>7
  <2> QED
    BY <2>1, <2>2 DEF LoadedOnce
<1>15. /\ \A p \in DOMAIN t : t[p].hash \in Now
       /\ \A h \in Now : \E p \in DOMAIN t : t[p].hash = h
       /\ \A p, q \in DOMAIN t : t[p].hash = t[q].hash /\ LoadedOnce(es, t[p].hash) => p = q
       /\ \A p \in DOMAIN t : Struck(t[p]) => t[p].hash \in Gone
       /\ \A p \in DOMAIN t : t[p].hash \in Gone /\ LoadedOnce(es, t[p].hash) => Struck(t[p])
  BY DEF Shows
<1> HIDE DEF u, E, L, M, Now, Then, Gone, New
<1>8. ASSUME NEW p \in DOMAIN u
      PROVE  \/ p \in DOMAIN t /\ u[p] = t[p]
             \/ p - L \in 1..M /\ u[p] = r[p - L] /\ p \notin DOMAIN t
  BY <1>1, <1>2, <1>3
<1>9. \A p \in DOMAIN u : u[p].hash \in Then
  <2>1. ASSUME NEW j \in 1..M PROVE r[j].hash \in Short(New)
    <3>1. /\ g[j] \in DOMAIN e.entries /\ r[j].hash = TruncateHex(e.entries[g[j]].hash)
          /\ e.entries[g[j]].hash \notin Skipped(e)
      BY <1>0
    <3>2. e.entries[g[j]] \in Range(e.entries)
      BY <3>1 DEF Range
    <3>3. e.entries[g[j]].hash \in New
      BY <3>1, <3>2 DEF New
    <3> QED
      BY <3>1, <3>3 DEF Short
  <2> QED
    BY <1>4, <1>8, <1>15, <2>1
<1>10. \A h \in Then : \E p \in DOMAIN u : u[p].hash = h
  <2>1. SUFFICES ASSUME NEW h \in Then PROVE \E p \in DOMAIN u : u[p].hash = h
    OBVIOUS
  <2>2. CASE h \in Now
    <3>1. PICK p \in DOMAIN t : t[p].hash = h
      BY <1>15, <2>2
    <3>2. p \in DOMAIN u /\ u[p] = t[p]
      BY <1>1, <1>2, <1>3
    <3> QED
      BY <3>1, <3>2
  <2>3. CASE h \notin Now
    <3>0. PICK x \in New : TruncateHex(x) = h
      BY <1>4, <2>3 DEF Short
    <3>1. PICK k \in DOMAIN e.entries : e.entries[k].hash = x /\ x \notin Skipped(e)
      BY DEF New, Range
    <3>2. PICK j \in 1..M : g[j] = k
      BY <1>0, <3>1
    <3>3. r[j].hash = h
      BY <1>0, <3>0, <3>1, <3>2
    <3>4. j + L \in DOMAIN u /\ u[j + L] = r[j]
      <4>1. j + L \in 1..(L + M) /\ ~(j + L <= L) /\ (j + L) - L = j
        BY <1>1
      <4> QED
        BY <1>2, <1>3, <4>1
    <3> QED
      BY <3>3, <3>4
  <2> QED
    BY <2>2, <2>3
<1>11. \A p, q \in DOMAIN u : u[p].hash = u[q].hash /\ LoadedOnce(E, u[p].hash) => p = q
  <2>1. SUFFICES ASSUME NEW p \in DOMAIN u, NEW q \in DOMAIN u,
                        u[p].hash = u[q].hash, LoadedOnce(E, u[p].hash)
                 PROVE  p = q
    OBVIOUS
  <2>2. CASE p \in DOMAIN t /\ q \in DOMAIN t
    <3>1. u[p] = t[p] /\ u[q] = t[q]
      BY <1>8, <2>2
    <3> QED
      BY <1>6, <1>15, <2>1, <2>2, <3>1
  <2>3. CASE p \notin DOMAIN t /\ q \notin DOMAIN t
    <3> DEFINE j == p - L
               k == q - L
    <3>1. j \in 1..M /\ k \in 1..M /\ u[p] = r[j] /\ u[q] = r[k]
      BY <1>8, <2>3
    <3> HIDE DEF j, k
    <3>2. /\ g[j] \in DOMAIN e.entries /\ g[k] \in DOMAIN e.entries
          /\ TruncateHex(e.entries[g[j]].hash) = u[p].hash
          /\ TruncateHex(e.entries[g[k]].hash) = u[p].hash
      BY <1>0, <2>1, <3>1
    <3>3. e \in E
      BY DEF E
    <3>4. g[j] = g[k]
      BY <2>1, <3>2, <3>3 DEF LoadedOnce
    <3>5. j = k
      BY <1>0, <3>1, <3>4
    <3> QED
      BY <1>1, <1>3, <3>5 DEF j, k
  <2>4. CASE p \in DOMAIN t /\ q \notin DOMAIN t
    <3>1. u[p] = t[p] /\ q - L \in 1..M /\ u[q] = r[q - L]
      BY <1>8, <2>4
    <3>2. t[p].hash \in Now
      BY <1>15, <2>4
    <3> QED
      BY <1>7, <2>1, <3>1, <3>2
  <2>5. CASE p \notin DOMAIN t /\ q \in DOMAIN t
    <3>1. u[q] = t[q] /\ p - L \in 1..M /\ u[p] = r[p - L]
      BY <1>8, <2>5
    <3>2. t[q].hash \in Now
      BY <1>15, <2>5
    <3> QED
      BY <1>7, <2>1, <3>1, <3>2
  <2> QED
    BY <2>2, <2>3, <2>4, <2>5
<1>12. \A p \in DOMAIN u : Struck(u[p]) => u[p].hash \in Gone
  <2>1. \A j \in 1..M : ~Struck(r[j])
    BY <1>0
  <2> QED
    BY <1>8, <1>15, <2>1
<1>13. \A p \in DOMAIN u : u[p].hash \in Gone /\ LoadedOnce(E, u[p].hash) => Struck(u[p])
  <2>1. SUFFICES ASSUME NEW p \in DOMAIN u, u[p].hash \in Gone, LoadedOnce(E, u[p].hash)
                 PROVE  Struck(u[p])
    OBVIOUS
  <2>2. CASE p \in DOMAIN t /\ u[p] = t[p]
    BY <1>6, <1>15, <2>1, <2>2
  <2>3. CASE p - L \in 1..M /\ u[p] = r[p - L]
    BY <1>7, <1>14, <2>1, <2>3
  <2> QED
    BY <1>8, <2>2, <2>3
<1> QED
  BY <1>2, <1>5, <1>9, <1>10, <1>11, <1>12, <1>13 DEF Shows, u, E, Then, Gone

LEMMA MinOf ==
  ASSUME NEW n \in Nat, NEW S \in SUBSET (1..n), S # {}
  PROVE  Min(S) \in S /\ \A k \in S : Min(S) <= k
<1>1. S \in SUBSET Nat
  OBVIOUS
<1>2. \E m \in S : \A k \in S : m <= k
  BY <1>1, NatSetLeast
<1> QED
  BY <1>2 DEF Min

(* An event that consumes a hash that was loaded: its first row is struck. *)
LEMMA ConsumingShows ==
  ASSUME NEW es, NEW e, NEW t, Shows(t, es), e.name = "ExecutionConsumed",
         e.hash \in LoadedHashes(es), NEW status \in {"jc", "consumed"}
  PROVE  Shows(ConsumeFirst(t, {TruncateHex(e.hash)}, status), es \cup {e})
<1> DEFINE h == TruncateHex(e.hash)
           E == es \cup {e}
           S == {k \in DOMAIN t : t[k].hash \in {h}}
           m == Min(S)
           u == ConsumeFirst(t, {h}, status)
<1>1. /\ t \in Seq(Row) /\ Len(t) \in Nat /\ DOMAIN t = 1..Len(t)
      /\ \A p \in DOMAIN t : t[p] \in Row
  BY ElementOfSeq, LenProperties DEF Shows
<1>2. S # {}
  <2>1. h \in Short(LoadedHashes(es))
    BY DEF Short
  <2> QED
    BY <2>1 DEF Shows
<1>3. m \in DOMAIN t /\ t[m].hash = h
  <2>1. S \in SUBSET (1..Len(t))
    BY <1>1
  <2> HIDE DEF S
  <2>2. m \in S
    BY <1>1, <1>2, <2>1, MinOf
  <2> QED
    BY <2>2 DEF S
<1>4. u = [t EXCEPT ![m].status = status]
  BY <1>2 DEF ConsumeFirst
<1> HIDE DEF u, m, S
<1>5. DOMAIN u = DOMAIN t /\ u = [p \in DOMAIN t |-> u[p]]
      /\ \A p \in DOMAIN t : u[p] = IF p = m THEN [t[p] EXCEPT !.status = status] ELSE t[p]
  BY <1>4
<1>6. \A p \in DOMAIN t : u[p] \in Row /\ u[p].hash = t[p].hash
  BY <1>1, <1>5 DEF Row
<1>7. Struck(u[m]) /\ \A p \in DOMAIN t : p # m => u[p] = t[p]
  BY <1>1, <1>3, <1>5 DEF Struck, Row
<1>8. u \in Seq(Row)
  <2> DEFINE R == Row
  <2>1. u \in [1..Len(t) -> R]
    BY <1>1, <1>5, <1>6
  <2> HIDE DEF R
  <2>2. u \in Seq(R)
    BY <1>1, <2>1, SeqDef
  <2> QED
    BY <2>2 DEF R
<1>9. LoadedHashes(E) = LoadedHashes(es)
  BY LoadedWith
<1> DEFINE Now == Short(LoadedHashes(es))
           Gone == Short(ConsumedHashes(es))
           After == Short(ConsumedHashes(E))
<1>10. After = Gone \cup {h}
  <2>1. ConsumedHashes(E) = ConsumedHashes(es) \cup {e.hash}
    BY ConsumedWith
  <2>2. Short(ConsumedHashes(es) \cup {e.hash}) = Short(ConsumedHashes(es)) \cup {h}
    BY DEF Short
  <2> HIDE DEF E, h
  <2> QED
    BY <2>1, <2>2
<1>11. \A x : LoadedOnce(E, x) => LoadedOnce(es, x)
  BY OnceBefore
<1>16. /\ \A p \in DOMAIN t : t[p].hash \in Now
       /\ \A x \in Now : \E p \in DOMAIN t : t[p].hash = x
       /\ \A p, q \in DOMAIN t : t[p].hash = t[q].hash /\ LoadedOnce(es, t[p].hash) => p = q
       /\ \A p \in DOMAIN t : Struck(t[p]) => t[p].hash \in Gone
       /\ \A p \in DOMAIN t : t[p].hash \in Gone /\ LoadedOnce(es, t[p].hash) => Struck(t[p])
  BY DEF Shows
<1> HIDE DEF E, h, Now, Gone, After
<1>12. /\ \A p \in DOMAIN u : u[p].hash \in Now
       /\ \A x \in Now : \E p \in DOMAIN u : u[p].hash = x
  BY <1>5, <1>6, <1>16
<1>13. \A p, q \in DOMAIN u : u[p].hash = u[q].hash /\ LoadedOnce(E, u[p].hash) => p = q
  BY <1>5, <1>6, <1>11, <1>16
<1>14. \A p \in DOMAIN u : Struck(u[p]) => u[p].hash \in After
  BY <1>3, <1>5, <1>6, <1>7, <1>10, <1>16
<1>15. \A p \in DOMAIN u : u[p].hash \in After /\ LoadedOnce(E, u[p].hash) => Struck(u[p])
  <2>1. SUFFICES ASSUME NEW p \in DOMAIN u, u[p].hash \in After, LoadedOnce(E, u[p].hash)
                 PROVE  Struck(u[p])
    OBVIOUS
  <2>2. CASE u[p].hash = h
    <3>1. p = m
      BY <1>3, <1>5, <1>6, <1>13, <2>1, <2>2
    <3> QED
      BY <1>7, <3>1
  <2>3. CASE u[p].hash # h
    <3>1. p \in DOMAIN t /\ p # m /\ u[p] = t[p]
      BY <1>3, <1>5, <1>6, <1>7, <2>3
    <3> QED
      BY <1>10, <1>11, <1>16, <2>1, <2>3, <3>1
  <2> QED
    BY <2>2, <2>3
<1> QED
  BY <1>8, <1>9, <1>12, <1>13, <1>14, <1>15 DEF Shows, u, h, E, Now, After

(* Any other event.                                                        *)
LEMMA OtherShows ==
  ASSUME NEW es, NEW e, NEW t, Shows(t, es),
         e.name \notin {"BatchPosted", "ExecutionTableLoaded", "ExecutionConsumed"}
  PROVE  Shows(t, es \cup {e})
<1> DEFINE E == es \cup {e}
<1>1. LoadedHashes(E) = LoadedHashes(es) /\ ConsumedHashes(E) = ConsumedHashes(es)
  BY LoadedWith, ConsumedWith
<1>2. \A x : LoadedOnce(E, x) => LoadedOnce(es, x)
  BY OnceBefore
<1> HIDE DEF E
<1>3. Shows(t, E)
  BY <1>1, <1>2 DEF Shows
<1> QED
  BY <1>3 DEF E

(* What a step of the replay does to the table of a chain: it ages, gets   *)
(* the rows of an event of the chain, and has a row struck out.            *)
LEMMA StepShows ==
  ASSUME history \in Histories, LogsOfContracts(history), NEW e \in Logged,
         NEW c \in Chains, NEW es, e \notin es, NEW view,
         Shows(view.table[c], es),
         \A h \in ConsumedHashes(es) : h \in LoadedHashes(es),
         e.chain = c /\ e.name = "ExecutionConsumed" => e.hash \in LoadedHashes(es),
         NEW current \in BOOLEAN, NEW next, next = ReplayStep(view, e, current).table
  PROVE  /\ DOMAIN next = Chains
         /\ Shows(next[c], IF e.chain = c THEN es \cup {e} ELSE es)
<1> DEFINE change == ProcessEventForTables(e)
           aged == [d \in Chains |-> Aged(view.table[d])]
           rows == [k \in DOMAIN change.adds |->
                       [change.adds[k] EXCEPT !.status = IF current THEN "ja" ELSE "ok"]]
           status == IF current THEN "jc" ELSE "consumed"
           t == Aged(view.table[c])
<1>1. PICK k \in DOMAIN history[e.chain] : history[e.chain][k] = e
  BY LoggedShape
<1>2. /\ e.chain \in Chains /\ e.entries \in Seq(Range(e.entries))
      /\ e.name = "BatchPosted" => e.chain = "l1"
      /\ e.name = "ExecutionTableLoaded" => e.chain = "l2"
  BY <1>1, LoggedShape DEF LogsOfContracts
<1>3. change.chain = e.chain
  BY <1>2 DEF ProcessEventForTables
<1>4. next = [aged EXCEPT ![e.chain] = ConsumeFirst(aged[e.chain] \o rows, change.consumes, status)]
  BY <1>3 DEF ReplayStep
<1>5. Shows(t, es) /\ t \in Seq(Row)
  BY AgedShows DEF Shows
<1>6. DOMAIN next = Chains
  BY <1>4
<1>7. CASE e.chain # c
  <2>1. next[c] = t
    BY <1>2, <1>4, <1>7
  <2> QED
    BY <1>5, <1>6, <1>7, <2>1
<1>8. CASE e.chain = c
  <2>1. next[c] = ConsumeFirst(t \o rows, change.consumes, status)
    BY <1>4, <1>8
  <2>2. CASE e.name = "ExecutionConsumed"
    <3>1. change.adds = <<>> /\ change.consumes = {TruncateHex(e.hash)}
      BY <2>2 DEF ProcessEventForTables
    <3>2. rows = <<>>
      BY <3>1
    <3> HIDE DEF change, rows, t
    <3>3. t \o rows = t
      BY <1>5, <3>2, ConcatEmptySeq
    <3>4. Shows(ConsumeFirst(t, {TruncateHex(e.hash)}, status), es \cup {e})
      BY <1>5, <1>8, <2>2, ConsumingShows
    <3> QED
      BY <1>6, <1>8, <2>1, <3>1, <3>3, <3>4
  <2>3. ASSUME change.consumes = {} PROVE next[c] = t \o rows
    <3> HIDE DEF change, rows, t
    <3> QED
      BY <2>1, <2>3 DEF ConsumeFirst
  <2>4. CASE e.name \in {"BatchPosted", "ExecutionTableLoaded"}
    <3> DEFINE entries == IF e.name = "BatchPosted" THEN Deferred(e) ELSE e.entries
    <3>1. change.adds = Rows(e, entries) /\ change.consumes = {}
      BY <2>4 DEF ProcessEventForTables
    <3>2. entries \in Seq(Range(e.entries)) /\ \E g : Chosen(entries, e.entries, Skipped(e), g)
      <4>1. CASE e.name = "BatchPosted"
        BY <1>2, <4>1, DeferredOf DEF Skipped
      <4>2. CASE e.name = "ExecutionTableLoaded"
        <5>1. entries = e.entries
          BY <4>2
        <5> DEFINE w == [j \in 1..Len(e.entries) |-> j]
        <5>2. DOMAIN e.entries = 1..Len(e.entries)
          BY <1>2, LenProperties
        <5>3. Skipped(e) = {}
          BY <4>2 DEF Skipped
        <5>4. /\ w \in [1..Len(e.entries) -> DOMAIN e.entries]
              /\ \A j \in 1..Len(e.entries) : w[j] = j
          BY <5>2
        <5> HIDE DEF w, entries
        <5>5. Chosen(entries, e.entries, Skipped(e), w)
          BY <5>1, <5>2, <5>3, <5>4 DEF Chosen
        <5> QED
          BY <1>2, <5>1, <5>5
      <4> QED
        BY <2>4, <4>1, <4>2
    <3>10. PICK g : Chosen(entries, e.entries, Skipped(e), g)
      BY <3>2
    <3> HIDE DEF entries
    <3> DEFINE N == Len(entries)
    <3>3. N \in Nat /\ DOMAIN entries = 1..N
      BY <3>2, LenProperties
    <3>4. /\ rows = [j \in 1..N |-> rows[j]]
          /\ \A j \in 1..N : rows[j] = [EntryToTableEntry(e, entries[j])
                                          EXCEPT !.status = IF current THEN "ja" ELSE "ok"]
      BY <3>1, <3>3 DEF Rows
    <3> HIDE DEF rows
    <3>5. ASSUME NEW j \in 1..N
          PROVE  /\ rows[j] \in Row /\ rows[j].hash = TruncateHex(e.entries[g[j]].hash)
                 /\ e.entries[g[j]].hash \notin Skipped(e) /\ ~Struck(rows[j])
      <4>1. /\ g[j] \in DOMAIN e.entries /\ entries[j] = e.entries[g[j]]
            /\ e.entries[g[j]].hash \notin Skipped(e)
        BY <3>10 DEF Chosen
      <4> DEFINE h == e.entries[g[j]].hash
                 x == TruncateHex(h)
      <4>2. h \in Hashes /\ x \in Short(Hashes)
        <5>1. h \in Hashes
          BY <4>1 DEF Hashes, Range
        <5> QED
          BY <5>1 DEF Short
      <4>3. rows[j] = [id |-> <<Id(e), h>>, hash |-> x, status |-> IF current THEN "ja" ELSE "ok"]
        <5>1. entries[j].hash = h
          BY <4>1
        <5> HIDE DEF h
        <5>2. EntryToTableEntry(e, entries[j]) = [id |-> <<Id(e), h>>, hash |-> x, status |-> "ja"]
          BY <5>1 DEF EntryToTableEntry
        <5>3. rows[j] = [EntryToTableEntry(e, entries[j])
                            EXCEPT !.status = IF current THEN "ja" ELSE "ok"]
          BY <3>4
        <5>4. \A v : [[id |-> <<Id(e), h>>, hash |-> x, status |-> "ja"] EXCEPT !.status = v]
                        = [id |-> <<Id(e), h>>, hash |-> x, status |-> v]
          OBVIOUS
        <5> QED
          BY <5>2, <5>3, <5>4
      <4>4. <<Id(e), h>> \in {<<Id(f), y>> : f \in Logged, y \in Hashes}
        BY <4>2
      <4> HIDE DEF x
      <4>5. rows[j] \in Row
        BY <4>2, <4>3, <4>4 DEF Row
      <4>6. rows[j].hash = x /\ ~Struck(rows[j])
        BY <4>3 DEF Struck
      <4> QED
        BY <4>1, <4>5, <4>6 DEF x
    <3>6. rows \in Seq(Row) /\ Len(rows) = N
      <4> DEFINE R == Row
      <4>1. rows \in [1..N -> R]
        BY <3>4, <3>5
      <4> HIDE DEF R
      <4>2. rows \in Seq(R)
        BY <3>3, <4>1, SeqDef
      <4>3. Len(rows) = N
        BY <3>3, <3>4, <4>2, LenProperties
      <4> QED
        BY <4>2, <4>3 DEF R
    <3>7. RowsOf(rows, e.entries, Skipped(e), g)
      BY <3>5, <3>6, <3>10 DEF RowsOf, Chosen
    <3> HIDE DEF t, N
    <3>8. Shows(t \o rows, es \cup {e})
      BY <1>5, <2>4, <3>7, LoadingShows
    <3>9. next[c] = t \o rows
      BY <2>3, <3>1
    <3> QED
      BY <1>6, <1>8, <3>8, <3>9
  <2>5. CASE e.name \notin {"BatchPosted", "ExecutionTableLoaded", "ExecutionConsumed"}
    <3>1. change.adds = <<>> /\ change.consumes = {}
      BY <2>5 DEF ProcessEventForTables
    <3>2. rows = <<>>
      BY <3>1
    <3> HIDE DEF change, rows, t
    <3>3. t \o rows = t
      BY <1>5, <3>2, ConcatEmptySeq
    <3>4. Shows(t, es \cup {e})
      BY <1>5, <2>5, OtherShows
    <3> QED
      BY <1>6, <1>8, <2>3, <3>1, <3>3, <3>4
  <2> QED
    BY <2>2, <2>4, <2>5
<1> QED
  BY <1>7, <1>8

(* The replay: a loop, as a recursive function.                            *)
IsReplay(s, i) ==
    s = [k \in 0..i |->
            IF k = 0 THEN [table |-> [c \in Chains |-> <<>>], root |-> Nothing]
            ELSE ReplayStep(s[k - 1], events[k], k = i)]

LEMMA ReplayExists ==
  ASSUME NEW i \in Nat
  PROVE  \E s : IsReplay(s, i)
<1> DEFINE Empty == [table |-> [c \in Chains |-> <<>>], root |-> Nothing]
           Turn(x, k) == ReplayStep(x, events[k], k = i)
           Trace(f, n) == /\ f = [k \in 0..n |-> f[k]] /\ f[0] = Empty
                          /\ \A k \in 1..n : f[k] = Turn(f[k - 1], k)
           Ok == {n \in Nat : \E f : Trace(f, n)}
<1> HIDE DEF Turn, Empty
<1>1. 0 \in Ok
  <2>1. Trace([k \in 0..0 |-> Empty], 0)
    OBVIOUS
  <2> QED
    BY <2>1
<1>2. ASSUME NEW n \in Ok PROVE n + 1 \in Ok
  <2>1. PICK f : Trace(f, n)
    BY <1>2
  <2> DEFINE t == [k \in 0..(n + 1) |-> IF k = n + 1 THEN Turn(f[n], n + 1) ELSE f[k]]
  <2>2. n \in Nat /\ t = [k \in 0..(n + 1) |-> t[k]] /\ t[0] = Empty
    BY <2>1
  <2>3. ASSUME NEW k \in 1..(n + 1) PROVE t[k] = Turn(t[k - 1], k)
    <3>1. CASE k = n + 1
      BY <3>1, <2>2
    <3>2. CASE k # n + 1
      <4>1. k \in 1..n /\ k - 1 \in 0..n /\ k \in 0..n
        BY <2>2, <3>2
      <4>2. t[k] = f[k] /\ t[k - 1] = f[k - 1]
        BY <4>1, <2>2
      <4> QED
        BY <2>1, <4>1, <4>2
    <3> QED
      BY <3>1, <3>2
  <2> HIDE DEF t
  <2>4. Trace(t, n + 1)
    BY <2>2, <2>3
  <2> HIDE DEF Trace
  <2> QED
    BY <2>2, <2>4
<1> HIDE DEF Ok
<1>3. Ok = Nat
  <2>1. Ok \in SUBSET Nat
    BY DEF Ok
  <2> QED
    BY <1>1, <1>2, <2>1, NatSetInduction
<1>4. PICK f : Trace(f, i)
  BY <1>3 DEF Ok
<1>5. ASSUME NEW k \in 0..i
      PROVE  f[k] = IF k = 0 THEN [table |-> [c \in Chains |-> <<>>], root |-> Nothing]
                    ELSE ReplayStep(f[k - 1], events[k], k = i)
  <2>1. CASE k = 0
    BY <2>1, <1>4 DEF Empty
  <2>2. CASE k # 0
    <3>1. k \in 1..i
      BY <2>2
    <3>2. f[k] = Turn(f[k - 1], k)
      BY <3>1, <1>4
    <3> QED
      BY <3>2, <2>2, Zenon DEF Turn
  <2> QED
    BY <2>1, <2>2
<1>6. IsReplay(f, i)
  BY <1>4, <1>5, Zenon DEF IsReplay
<1> QED
  BY <1>6

(* The views that the replay passes through.                               *)
Views(s, i) ==
    /\ Replay(i) = s[i]
    /\ s[0].table = [c \in Chains |-> <<>>]
    /\ \A k \in 1..i : s[k] = ReplayStep(s[k - 1], events[k], k = i)

LEMMA ReplayOf ==
  ASSUME NEW i \in Nat
  PROVE  \E s : Views(s, i)
<1> DEFINE s == CHOOSE s : IsReplay(s, i)
<1>1. IsReplay(s, i)
  BY ReplayExists
<1>2. Replay(i) = s[i]
  BY DEF Replay, IsReplay
<1> HIDE DEF s
<1>3. s[0] = [table |-> [c \in Chains |-> <<>>], root |-> Nothing]
  BY <1>1 DEF IsReplay
<1>4. ASSUME NEW k \in 1..i PROVE s[k] = ReplayStep(s[k - 1], events[k], k = i)
  <2>1. k \in 0..i /\ k # 0
    OBVIOUS
  <2> QED
    BY <2>1, <1>1 DEF IsReplay
<1>5. Views(s, i)
  BY <1>2, <1>3, <1>4 DEF Views
<1> QED
  BY <1>5

(* The events of a chain among the first k of the list.                    *)
Known(c, k) == {events[m] : m \in {j \in 1..k : events[j].chain = c}}

LEMMA KnownGrows ==
  ASSUME ListOK(events), NEW c, NEW k \in Nat, k + 1 \in DOMAIN events
  PROVE  /\ Known(c, k + 1) = IF events[k + 1].chain = c THEN Known(c, k) \cup {events[k + 1]}
                              ELSE Known(c, k)
         /\ events[k + 1] \notin Known(c, k)
<1>1. 1..(k + 1) = (1..k) \cup {k + 1}
  OBVIOUS
<1>2. DOMAIN events = 1..Len(events) /\ Len(events) \in Nat
  BY LenProperties DEF ListOK
<1>3. ASSUME NEW m \in 1..k PROVE events[m] # events[k + 1]
  <2>1. m \in DOMAIN events /\ m < k + 1
    BY <1>2
  <2> QED
    BY <2>1 DEF ListOK
<1> QED
  BY <1>1, <1>3 DEF Known

(* Where a chain has no gap, what is before one of its events on the chain *)
(* is before it in the list.                                               *)
LEMMA KnownBefore ==
  ASSUME history \in Histories, ListOK(events), NEW c \in Chains, NEW i \in DOMAIN events,
         Gapless(c, i), NEW k \in Nat, k + 1 \in 1..i, events[k + 1].chain = c
  PROVE  \E p \in DOMAIN history[c] :
            /\ history[c][p] = events[k + 1]
            /\ \A j \in 1..(p - 1) : history[c][j] \in Known(c, k)
<1> DEFINE shown == {m \in 1..i : events[m].chain = c}
           n == Cardinality(shown)
           place == [m \in shown |-> Position(events[m])]
<1>1. DOMAIN events = 1..Len(events) /\ Len(events) \in Nat /\ i \in Nat
  BY LenProperties DEF ListOK
<1>2. k + 1 \in shown /\ shown \subseteq 1..i /\ shown \subseteq DOMAIN events
      /\ \A m \in shown : m \in Nat
  BY <1>1
<1>3. ASSUME NEW m \in shown
      PROVE  /\ Position(events[m]) \in DOMAIN history[c] /\ Position(events[m]) \in Nat \ {0}
             /\ history[c][Position(events[m])] = events[m]
  <2>1. events[m] \in Logged /\ events[m].chain = c
    BY <1>1, <1>2, ElementOfSeq DEF ListOK
  <2>2. PICK p \in DOMAIN history[c] : history[c][p] = events[m]
    BY <2>1, LoggedShape
  <2>3. Position(events[m]) = p
    BY <2>2, PositionOf
  <2>4. p \in Nat \ {0}
    BY <2>2, ChainShape
  <2> QED
    BY <2>2, <2>3, <2>4
<1>4. \A l, m \in shown : l < m => Position(events[l]) < Position(events[m])
  BY <1>2, OrderedLists DEF EventsInChainOrder
<1>5. Max(shown) \in shown /\ \A m \in shown : m <= Max(shown)
  <2>1. shown \in SUBSET (1..i) /\ shown # {}
    BY <1>2
  <2> HIDE DEF shown
  <2> QED
    BY <1>1, <2>1, MaxOf
<1>6. Position(events[Max(shown)]) = n
  BY <1>2 DEF Gapless
<1> HIDE DEF shown, n
<1>7. n \in Nat /\ IsFiniteSet(1..n) /\ Cardinality(1..n) = n
  BY <1>3, <1>5, <1>6, FS_Interval
<1>8. ASSUME NEW m \in shown PROVE Position(events[m]) \in 1..n
  <2>1. Position(events[m]) <= n
    <3>1. m \in Nat /\ Max(shown) \in Nat
      BY <1>2, <1>5, Zenon
    <3>2. m = Max(shown) \/ m < Max(shown)
      BY <1>5, <3>1
    <3> QED
      BY <1>3, <1>4, <1>5, <1>6, <1>7, <3>2
  <2> QED
    BY <1>3, <1>7, <2>1
<1>9. place \in Injection(shown, 1..n)
  <2>1. place \in [shown -> 1..n]
    BY <1>8
  <2>2. ASSUME NEW l \in shown, NEW m \in shown, place[l] = place[m] PROVE l = m
    <3>1. l \in Nat /\ m \in Nat
      BY <1>2
    <3>2. Position(events[l]) = Position(events[m]) /\ Position(events[l]) \in Nat
      BY <1>3, <2>2
    <3> QED
      BY <1>4, <3>1, <3>2
  <2> QED
    BY <2>1, <2>2 DEF Injection, IsInjective
<1>10. place \in Surjection(shown, 1..n)
  BY <1>7, <1>9, FS_Injection DEF n
<1>11. \A j \in 1..n : \E m \in shown : Position(events[m]) = j
  BY <1>10 DEF Surjection
<1> DEFINE p == Position(events[k + 1])
<1>12. p \in 1..n /\ p \in DOMAIN history[c] /\ history[c][p] = events[k + 1]
  BY <1>2, <1>3, <1>8
<1> HIDE DEF place
<1>13. ASSUME NEW j \in 1..(p - 1) PROVE history[c][j] \in Known(c, k)
  <2>1. j \in 1..n /\ j < p /\ j \in Nat /\ p \in Nat
    BY <1>7, <1>12
  <2>2. PICK m \in shown : Position(events[m]) = j
    BY <1>11, <2>1
  <2>3. m \in Nat \ {0} /\ ~(k + 1 < m) /\ m # k + 1
    BY <1>2, <1>4, <2>1, <2>2
  <2>4. m \in 1..k /\ events[m].chain = c
    BY <2>3 DEF shown
  <2>5. history[c][j] = events[m]
    BY <1>3, <2>2
  <2> QED
    BY <2>4, <2>5 DEF Known
<1> QED
  BY <1>12, <1>13

(* What an event consumes was loaded by events before it in the list.      *)
LEMMA ConsumedWasLoaded ==
  ASSUME history \in Histories, LogsOfContracts(history), ListOK(events), NEW c \in Chains,
         NEW i \in DOMAIN events, Gapless(c, i), NEW k \in Nat, k + 1 \in 1..i,
         events[k + 1].chain = c, events[k + 1].name = "ExecutionConsumed"
  PROVE  events[k + 1].hash \in LoadedHashes(Known(c, k))
<1>1. PICK p \in DOMAIN history[c] :
         /\ history[c][p] = events[k + 1]
         /\ \A j \in 1..(p - 1) : history[c][j] \in Known(c, k)
  BY KnownBefore
<1>2. PICK j \in 1..(p - 1) : events[k + 1].hash \in LoadedHashes({history[c][j]})
  <2>1. history[c][p].name = "ExecutionConsumed" =>
           \E j \in 1..(p - 1) : history[c][p].hash \in LoadedHashes({history[c][j]})
    BY Zenon DEF LogsOfContracts
  <2> QED
    BY <1>1, <2>1, Zenon
<1>3. history[c][j] \in Known(c, k)
  BY <1>1
<1> QED
  BY <1>2, <1>3 DEF LoadedHashes

LEMMA NothingShown == Shows(<<>>, {})
<1>1. Short(LoadedHashes({})) = {} /\ Short(ConsumedHashes({})) = {}
  BY DEF LoadedHashes, ConsumedHashes, Short
<1>2. <<>> \in Seq(Row) /\ DOMAIN <<>> = {}
  OBVIOUS
<1> QED
  BY <1>1, <1>2 DEF Shows

LEMMA ReplayShows ==
  ASSUME history \in Histories, LogsOfContracts(history), ListOK(events), NEW c \in Chains,
         NEW i \in DOMAIN events, Gapless(c, i)
  PROVE  Shows(Replay(i).table[c], Known(c, i))
<1>1. DOMAIN events = 1..Len(events) /\ Len(events) \in Nat /\ i \in Nat
  BY LenProperties DEF ListOK
<1>2. PICK s : Views(s, i)
  BY <1>1, ReplayOf
<1> DEFINE Good(k) == /\ Shows(s[k].table[c], Known(c, k))
                      /\ \A h \in ConsumedHashes(Known(c, k)) : h \in LoadedHashes(Known(c, k))
           A == {k \in Nat : k <= i => Good(k)}
<1>3. Good(0)
  <2>1. Known(c, 0) = {}
    BY DEF Known
  <2>2. s[0].table[c] = <<>>
    BY <1>2 DEF Views
  <2>3. ConsumedHashes({}) = {}
    BY DEF ConsumedHashes
  <2> QED
    BY <2>1, <2>2, <2>3, NothingShown
<1>4. ASSUME NEW k \in Nat, k + 1 <= i, Good(k) PROVE Good(k + 1)
  <2> DEFINE e == events[k + 1]
             es == Known(c, k)
             next == s[k + 1].table
  <2>1. k + 1 \in 1..i /\ k + 1 \in DOMAIN events /\ (k + 1) - 1 = k
    BY <1>1, <1>4
  <2>2. e \in Logged
    BY <1>1, <2>1, ElementOfSeq DEF ListOK
  <2>3. e \notin es /\ Known(c, k + 1) = IF e.chain = c THEN es \cup {e} ELSE es
    BY <2>1, KnownGrows
  <2>4. next = ReplayStep(s[k], e, k + 1 = i).table
    BY <1>2, <2>1 DEF Views
  <2>5. e.chain = c /\ e.name = "ExecutionConsumed" => e.hash \in LoadedHashes(es)
    BY <2>1, ConsumedWasLoaded
  <2> HIDE DEF e, es, next
  <2>6. Shows(s[k].table[c], es) /\ \A h \in ConsumedHashes(es) : h \in LoadedHashes(es)
    BY <1>4 DEF es
  <2>7. Shows(next[c], IF e.chain = c THEN es \cup {e} ELSE es)
    <3> DEFINE current == k + 1 = i
    <3>1. current \in BOOLEAN
      OBVIOUS
    <3>2. next = ReplayStep(s[k], e, current).table
      BY <2>4
    <3> HIDE DEF current
    <3> QED
      BY <2>2, <2>3, <2>5, <2>6, <3>1, <3>2, StepShows
  <2>8. \A h \in ConsumedHashes(Known(c, k + 1)) : h \in LoadedHashes(Known(c, k + 1))
    <3>1. CASE e.chain = c
      <4>1. Known(c, k + 1) = es \cup {e}
        BY <2>3, <3>1
      <4>2. LoadedHashes(es) \subseteq LoadedHashes(es \cup {e})
        BY LoadedWith
      <4>3. \A h \in ConsumedHashes(es \cup {e}) :
               h \in ConsumedHashes(es) \/ (e.name = "ExecutionConsumed" /\ h = e.hash)
        BY ConsumedWith
      <4> QED
        BY <2>5, <2>6, <3>1, <4>1, <4>2, <4>3, Zenon
    <3>2. CASE e.chain # c
      BY <2>3, <2>6, <3>2
    <3> QED
      BY <3>1, <3>2
  <2> QED
    BY <2>3, <2>7, <2>8 DEF next
<1> HIDE DEF Good
<1>5. A = Nat
  <2>1. 0 \in A
    BY <1>3
  <2>2. ASSUME NEW k \in A PROVE k + 1 \in A
    BY <1>1, <1>4
  <2>3. A \in SUBSET Nat
    OBVIOUS
  <2> HIDE DEF A
  <2> QED
    BY <2>1, <2>2, <2>3, NatSetInduction
<1>6. Good(i)
  BY <1>1, <1>5
<1> QED
  BY <1>2, <1>6 DEF Good, Views

(* What a table shows, as sets of hashes.                                  *)
LEMMA ShownHashes ==
  ASSUME NEW t, NEW es, Shows(t, es)
  PROVE  LET rows == Range(t)
             once == {h \in Short(LoadedHashes(es)) : LoadedOnce(es, h)}
             struck == {row \in rows : row.status \in {"jc", "consumed"}}
         IN /\ {row.hash : row \in rows} = Short(LoadedHashes(es))
            /\ {row.hash : row \in struck} \cap once = Short(ConsumedHashes(es)) \cap once
<1> DEFINE rows == Range(t)
           once == {h \in Short(LoadedHashes(es)) : LoadedOnce(es, h)}
           struck == {row \in rows : row.status \in {"jc", "consumed"}}
<1>1. rows = {t[p] : p \in DOMAIN t}
  BY DEF Range
<1>2. {row.hash : row \in rows} = Short(LoadedHashes(es))
  BY <1>1 DEF Shows
<1>3. ASSUME NEW h \in once PROVE h \in {row.hash : row \in struck} <=> h \in Short(ConsumedHashes(es))
  <2>1. ASSUME NEW row \in struck, row.hash = h PROVE h \in Short(ConsumedHashes(es))
    <3>1. PICK p \in DOMAIN t : t[p] = row
      BY <1>1
    <3>2. Struck(t[p])
      BY <3>1 DEF Struck
    <3> QED
      BY <2>1, <3>1, <3>2 DEF Shows
  <2>2. ASSUME h \in Short(ConsumedHashes(es)) PROVE \E row \in struck : row.hash = h
    <3>1. PICK p \in DOMAIN t : t[p].hash = h
      BY DEF Shows
    <3>2. Struck(t[p])
      BY <2>2, <3>1 DEF Shows
    <3>3. t[p] \in struck
      BY <1>1, <3>2 DEF Struck
    <3> QED
      BY <3>1, <3>3
  <2> QED
    BY <2>1, <2>2
<1> QED
  BY <1>2, <1>3

-----------------------------------------------------------------------------
(* Bundles: a forest whose trees are the classes.                          *)

(* r has the root of each id, and every step towards it loses depth.       *)
Rooted(p, Ids, r, depth) ==
    /\ p \in [Ids -> Ids] /\ r \in [Ids -> Ids] /\ depth \in [Ids -> Nat]
    /\ \A x \in Ids :
          /\ p[r[x]] = r[x] /\ r[p[x]] = r[x]
          /\ p[x] = x => r[x] = x
          /\ p[x] # x => depth[p[x]] < depth[x]

Forests(Ids) == {p \in [Ids -> Ids] : \E r, depth : Rooted(p, Ids, r, depth)}

IsFinder(q, p) == q = [x \in DOMAIN p |-> IF p[x] = x THEN x ELSE q[p[x]]]

LEMMA FindsRoot ==
  ASSUME NEW Ids, NEW p, NEW r, NEW depth, Rooted(p, Ids, r, depth), NEW id \in Ids
  PROVE  Find(p, id) = r[id]
<1>1. /\ p \in [Ids -> Ids] /\ r \in [Ids -> Ids] /\ depth \in [Ids -> Nat]
      /\ \A x \in Ids : /\ p[x] \in Ids /\ depth[x] \in Nat /\ r[p[x]] = r[x]
                        /\ p[x] = x => r[x] = x
                        /\ p[x] # x => depth[p[x]] < depth[x]
  BY DEF Rooted
<1>2. IsFinder(r, p)
  <2>1. DOMAIN p = Ids /\ r = [x \in Ids |-> r[x]]
    BY <1>1
  <2>2. \A x \in Ids : r[x] = IF p[x] = x THEN x ELSE r[p[x]]
    BY <1>1
  <2> QED
    BY <2>1, <2>2 DEF IsFinder
<1> DEFINE q == CHOOSE q : IsFinder(q, p)
<1>3. IsFinder(q, p)
  BY <1>2
<1>4. Find(p, id) = q[id]
  BY DEF Find, IsFinder
<1> HIDE DEF q
<1>5. \A x \in Ids : q[x] = IF p[x] = x THEN x ELSE q[p[x]]
  BY <1>1, <1>3 DEF IsFinder
<1> DEFINE A == {n \in Nat : \A x \in Ids : depth[x] < n => q[x] = r[x]}
<1>6. A = Nat
  <2>1. 0 \in A
    BY <1>1
  <2>2. ASSUME NEW n \in A PROVE n + 1 \in A
    <3>1. SUFFICES ASSUME NEW x \in Ids, depth[x] < n + 1 PROVE q[x] = r[x]
      BY <2>2
    <3>2. CASE p[x] = x
      BY <1>1, <1>5, <3>2
    <3>3. CASE p[x] # x
      <4>1. p[x] \in Ids /\ depth[p[x]] < n
        BY <1>1, <2>2, <3>1, <3>3
      <4>2. q[p[x]] = r[p[x]]
        BY <2>2, <4>1
      <4> QED
        BY <1>1, <1>5, <3>3, <4>2
    <3> QED
      BY <3>2, <3>3
  <2>3. A \in SUBSET Nat
    OBVIOUS
  <2> HIDE DEF A
  <2> QED
    BY <2>1, <2>2, <2>3, NatSetInduction
<1>7. depth[id] + 1 \in Nat /\ depth[id] < depth[id] + 1
  BY <1>1
<1>8. q[id] = r[id]
  BY <1>6, <1>7
<1> QED
  BY <1>4, <1>8

(* Joining puts one tree below the root of another.                        *)
LEMMA JoiningOf ==
  ASSUME NEW Ids, NEW p \in Forests(Ids), NEW a \in Ids, NEW b \in Ids
  PROVE  /\ Joining(p, a, b) \in Forests(Ids)
         /\ \A x \in Ids : Find(Joining(p, a, b), x) =
               IF Find(p, x) = Find(p, a) THEN Find(p, b) ELSE Find(p, x)
<1>1. PICK r, depth : Rooted(p, Ids, r, depth)
  BY DEF Forests
<1>2. /\ p \in [Ids -> Ids] /\ r \in [Ids -> Ids] /\ depth \in [Ids -> Nat]
      /\ \A x \in Ids : /\ r[x] \in Ids /\ p[x] \in Ids /\ depth[x] \in Nat
                        /\ p[r[x]] = r[x] /\ r[p[x]] = r[x] /\ r[r[x]] = r[x]
                        /\ p[x] = x => r[x] = x
                        /\ p[x] # x => depth[p[x]] < depth[x]
  BY <1>1 DEF Rooted
<1> DEFINE u == r[a]
           v == r[b]
           p2 == [p EXCEPT ![u] = v]
           r2 == [x \in Ids |-> IF r[x] = u THEN v ELSE r[x]]
           depth2 == [x \in Ids |-> IF u # v /\ r[x] = u THEN depth[x] + depth[v] + 1 ELSE depth[x]]
<1>3. \A x \in Ids : Find(p, x) = r[x]
  BY <1>1, FindsRoot
<1>4. Joining(p, a, b) = p2
  BY <1>3 DEF Joining
<1>5. /\ u \in Ids /\ v \in Ids /\ p[u] = u /\ p[v] = v /\ r[u] = u /\ r[v] = v
  BY <1>2
<1>6. /\ p2 \in [Ids -> Ids] /\ r2 \in [Ids -> Ids] /\ depth2 \in [Ids -> Nat]
      /\ \A x \in Ids : /\ p2[x] = IF x = u THEN v ELSE p[x]
                        /\ r2[x] = IF r[x] = u THEN v ELSE r[x]
                        /\ depth2[x] = IF u # v /\ r[x] = u THEN depth[x] + depth[v] + 1 ELSE depth[x]
  BY <1>2, <1>5
<1> HIDE DEF p2, r2, depth2, u, v
<1>7. ASSUME NEW x \in Ids
      PROVE  /\ p2[r2[x]] = r2[x] /\ r2[p2[x]] = r2[x]
             /\ p2[x] = x => r2[x] = x
             /\ p2[x] # x => depth2[p2[x]] < depth2[x]
  <2>1. p2[r2[x]] = r2[x]
    BY <1>2, <1>5, <1>6
  <2>2. r2[p2[x]] = r2[x]
    BY <1>2, <1>5, <1>6
  <2>3. p2[x] = x => r2[x] = x
    BY <1>2, <1>5, <1>6
  <2>4. p2[x] # x => depth2[p2[x]] < depth2[x]
    <3>1. CASE x = u
      BY <1>2, <1>5, <1>6, <3>1
    <3>2. CASE x # u
      BY <1>2, <1>5, <1>6, <3>2
    <3> QED
      BY <3>1, <3>2
  <2> QED
    BY <2>1, <2>2, <2>3, <2>4
<1>8. Rooted(p2, Ids, r2, depth2)
  BY <1>6, <1>7 DEF Rooted
<1>9. p2 \in Forests(Ids)
  BY <1>6, <1>8 DEF Forests
<1>10. \A x \in Ids : Find(p2, x) = r2[x]
  BY <1>8, FindsRoot
<1> QED
  BY <1>3, <1>4, <1>6, <1>9, <1>10 DEF u, v

LEMMA Separate ==
  ASSUME NEW Ids
  PROVE  /\ [id \in Ids |-> id] \in Forests(Ids)
         /\ \A x \in Ids : Find([id \in Ids |-> id], x) = x
<1> DEFINE p == [id \in Ids |-> id]
           depth == [id \in Ids |-> 0]
<1>1. Rooted(p, Ids, p, depth)
  BY DEF Rooted
<1>2. p \in [Ids -> Ids] /\ \A x \in Ids : p[x] = x
  OBVIOUS
<1> HIDE DEF p, depth
<1>3. p \in Forests(Ids)
  BY <1>1, <1>2 DEF Forests
<1>4. \A x \in Ids : Find(p, x) = x
  BY <1>1, <1>2, FindsRoot
<1> QED
  BY <1>3, <1>4 DEF p

(* A set that no tree leads out of.                                        *)
Respects(p, Ids, C) == \A x, y \in Ids : Find(p, x) = Find(p, y) => (x \in C <=> y \in C)

LEMMA JoiningRespects ==
  ASSUME NEW Ids, NEW p \in Forests(Ids), NEW a \in Ids, NEW b \in Ids,
         NEW C, Respects(p, Ids, C), a \in C <=> b \in C
  PROVE  Respects(Joining(p, a, b), Ids, C)
<1> DEFINE p2 == Joining(p, a, b)
<1>1. \A x \in Ids : Find(p2, x) = IF Find(p, x) = Find(p, a) THEN Find(p, b) ELSE Find(p, x)
  BY JoiningOf
<1> HIDE DEF p2
<1>2. SUFFICES ASSUME NEW x \in Ids, NEW y \in Ids, Find(p2, x) = Find(p2, y)
               PROVE  x \in C <=> y \in C
  BY DEF Respects, p2
<1>3. CASE Find(p, x) = Find(p, y)
  BY <1>3 DEF Respects
<1>4. CASE Find(p, x) = Find(p, a) /\ Find(p, y) = Find(p, b)
  BY <1>4 DEF Respects
<1>5. CASE Find(p, x) = Find(p, b) /\ Find(p, y) = Find(p, a)
  BY <1>5 DEF Respects
<1> QED
  BY <1>1, <1>2, <1>3, <1>4, <1>5

(* The ids of the events of a list; the events of a hash in one tree; a    *)
(* set of ids that no hash leads out of.                                   *)
IdsOf(list) == {Id(e) : e \in Range(list)}

Together(p, list, h) ==
    \A k, m \in Sharing(list, h) : Find(p, Id(list[k])) = Find(p, Id(list[m]))

Coarser(p, q, Ids) == \A x, y \in Ids : Find(p, x) = Find(p, y) => Find(q, x) = Find(q, y)

NoHashLeavesOut(list, C) ==
    \A h : \A k, m \in Sharing(list, h) : Id(list[k]) \in C <=> Id(list[m]) \in C

(* Joining the events of a hash: a loop, as a recursive function.          *)
IsHashJoin(j, list, parent, h) ==
    j = [k \in 0..Len(list) |->
            IF k = 0 THEN parent
            ELSE IF k \in Sharing(list, h) \ {Min(Sharing(list, h))}
                 THEN Joining(j[k - 1], Id(list[Min(Sharing(list, h))]), Id(list[k]))
            ELSE j[k - 1]]

LEMMA HashJoined ==
  ASSUME NEW S, NEW list \in Seq(S), NEW Ids, Ids = IdsOf(list), NEW parent \in Forests(Ids),
         NEW h, NEW q, q = JoinHash(list, parent, h)
  PROVE  /\ q \in Forests(Ids) /\ Coarser(parent, q, Ids) /\ Together(q, list, h)
         /\ \A C : NoHashLeavesOut(list, C) /\ Respects(parent, Ids, C) => Respects(q, Ids, C)
<1> DEFINE arr == Sharing(list, h)
           m == Min(arr)
           N == Len(list)
           F == Forests(Ids)
           at(k) == Id(list[k])
           Turn(p, k) == IF k \in arr \ {m} THEN Joining(p, at(m), at(k)) ELSE p
<1>1. N \in Nat /\ DOMAIN list = 1..N /\ \A k \in 1..N : at(k) \in Ids
  <2>1. N \in Nat /\ DOMAIN list = 1..N
    BY LenProperties
  <2> QED
    BY <2>1 DEF IdsOf, Range
<1>2. arr \subseteq 1..N /\ (arr # {} => m \in arr)
  <2>1. arr \in SUBSET (1..N)
    BY <1>1 DEF Sharing
  <2> HIDE DEF arr
  <2> QED
    BY <1>1, <2>1, MinOf
<1> HIDE DEF arr, m, N, at
<1>3. \A p \in F, k \in 1..N : Turn(p, k) \in F
  <2>1. ASSUME NEW p \in F, NEW k \in 1..N PROVE Turn(p, k) \in F
    <3>1. CASE k \in arr \ {m}
      <4>1. at(m) \in Ids /\ at(k) \in Ids
        BY <1>1, <1>2, <3>1
      <4> QED
        BY <3>1, <4>1, JoiningOf
    <3>2. CASE k \notin arr \ {m}
      BY <3>2
    <3> QED
      BY <3>1, <3>2
  <2> QED
    BY <2>1
<1>4. \E f : /\ f = [k \in 0..N |-> f[k]] /\ f[0] = parent
             /\ \A k \in 1..N : f[k] = Turn(f[k - 1], k)
  <2> DEFINE g == [k \in 1..N |-> [p \in F |-> Turn(p, k)]]
  <2> HIDE DEF Turn, F
  <2>1. g \in Loops(N, F) /\ parent \in F
    BY <1>3 DEF Loops, F
  <2>2. \A k \in 1..N, p \in F : g[k][p] = Turn(p, k)
    OBVIOUS
  <2> HIDE DEF g
  <2>3. PICK f : f \in Traces(N, F, parent, g)
    BY <1>1, <2>1, Recursion
  <2>4. /\ f \in [0..N -> F] /\ f[0] = parent
        /\ \A k \in 1..N : f[k] = g[k][f[k - 1]]
    BY <2>3 DEF Traces
  <2>5. \A k \in 1..N : f[k] = Turn(f[k - 1], k)
    <3>1. \A k \in 1..N : f[k - 1] \in F
      BY <1>1, <2>4
    <3> QED
      BY <2>2, <2>4, <3>1
  <2>6. f = [k \in 0..N |-> f[k]]
    BY <2>4
  <2> QED
    BY <2>4, <2>5, <2>6
<1>5. PICK f : /\ f = [k \in 0..N |-> f[k]] /\ f[0] = parent
               /\ \A k \in 1..N : f[k] = Turn(f[k - 1], k)
  BY <1>4
<1>6. IsHashJoin(f, list, parent, h)
  <2>1. ASSUME NEW k \in 0..N
        PROVE  f[k] = IF k = 0 THEN parent
                      ELSE IF k \in arr \ {m} THEN Joining(f[k - 1], at(m), at(k)) ELSE f[k - 1]
    <3>1. CASE k = 0
      BY <1>5, <3>1
    <3>2. CASE k # 0
      <4>1. k \in 1..N
        BY <1>1, <3>2
      <4> QED
        BY <1>5, <3>2, <4>1
    <3> QED
      BY <3>1, <3>2
  <2> QED
    BY <1>5, <2>1, Zenon DEF IsHashJoin, arr, m, N, at
<1> DEFINE j == CHOOSE j : IsHashJoin(j, list, parent, h)
<1>7. IsHashJoin(j, list, parent, h)
  BY <1>6
<1>8. q = j[N]
  BY DEF JoinHash, IsHashJoin, N
<1> HIDE DEF j
<1>9. j[0] = parent /\ \A k \in 1..N : j[k] = Turn(j[k - 1], k)
  <2>1. j[0] = parent
    BY <1>1, <1>7 DEF IsHashJoin, N
  <2>2. ASSUME NEW k \in 1..N PROVE j[k] = Turn(j[k - 1], k)
    <3>1. k \in 0..N /\ k # 0
      BY <1>1
    <3> QED
      BY <1>7, <3>1 DEF IsHashJoin, arr, m, N, at
  <2> QED
    BY <2>1, <2>2
<1> DEFINE Good(k) ==
              /\ j[k] \in F /\ Coarser(parent, j[k], Ids)
              /\ \A l \in arr : l <= k => Find(j[k], at(l)) = Find(j[k], at(m))
              /\ \A C : NoHashLeavesOut(list, C) /\ Respects(parent, Ids, C)
                          => Respects(j[k], Ids, C)
           A == {k \in Nat : k <= N => Good(k)}
<1>10. Good(0)
  <2>1. \A l \in arr : ~(l <= 0)
    BY <1>1, <1>2
  <2> QED
    BY <1>9, <2>1 DEF Coarser
<1>11. ASSUME NEW k \in Nat, k + 1 <= N, Good(k) PROVE Good(k + 1)
  <2>1. k + 1 \in 1..N /\ (k + 1) - 1 = k
    BY <1>1, <1>11
  <2>2. CASE k + 1 \in arr \ {m}
    <3> DEFINE p == j[k]
               p2 == j[k + 1]
    <3>1. p2 = Joining(p, at(m), at(k + 1))
      BY <1>9, <2>1, <2>2
    <3>2. m \in arr /\ at(m) \in Ids /\ at(k + 1) \in Ids /\ p \in F
      BY <1>1, <1>2, <1>11, <2>1, <2>2
    <3>3. /\ p2 \in F
          /\ \A x \in Ids : Find(p2, x) = IF Find(p, x) = Find(p, at(m)) THEN Find(p, at(k + 1))
                                          ELSE Find(p, x)
      BY <3>1, <3>2, JoiningOf
    <3>4. /\ Coarser(parent, p, Ids)
          /\ \A l \in arr : l <= k => Find(p, at(l)) = Find(p, at(m))
          /\ \A C : NoHashLeavesOut(list, C) /\ Respects(parent, Ids, C) => Respects(p, Ids, C)
      BY <1>11
    <3> HIDE DEF p, p2
    <3>5. Coarser(parent, p2, Ids)
      BY <3>3, <3>4 DEF Coarser
    <3>6. ASSUME NEW l \in arr, l <= k + 1 PROVE Find(p2, at(l)) = Find(p2, at(m))
      <4>1. at(l) \in Ids /\ (l <= k \/ l = k + 1)
        BY <1>1, <1>2, <3>6
      <4> QED
        BY <3>2, <3>3, <3>4, <4>1
    <3>7. ASSUME NEW C, NoHashLeavesOut(list, C), Respects(parent, Ids, C) PROVE Respects(p2, Ids, C)
      <4>1. at(m) \in C <=> at(k + 1) \in C
        BY <2>2, <3>2, <3>7 DEF NoHashLeavesOut, arr, at
      <4>2. Respects(p, Ids, C)
        BY <3>4, <3>7
      <4> QED
        BY <3>1, <3>2, <4>1, <4>2, JoiningRespects
    <3> QED
      BY <3>3, <3>5, <3>6, <3>7 DEF p2
  <2>3. CASE k + 1 \notin arr \ {m}
    <3>1. j[k + 1] = j[k]
      BY <1>9, <2>1, <2>3
    <3>2. \A l \in arr : l <= k + 1 => l <= k \/ l = m
      BY <1>1, <1>2, <2>3
    <3> QED
      BY <1>11, <3>1, <3>2
  <2> QED
    BY <2>2, <2>3
<1> HIDE DEF Good
<1>12. A = Nat
  <2>1. 0 \in A
    BY <1>10
  <2>2. ASSUME NEW k \in A PROVE k + 1 \in A
    BY <1>1, <1>11
  <2>3. A \in SUBSET Nat
    OBVIOUS
  <2> HIDE DEF A
  <2> QED
    BY <2>1, <2>2, <2>3, NatSetInduction
<1>13. Good(N)
  BY <1>1, <1>12
<1>14. /\ q \in F /\ Coarser(parent, q, Ids)
       /\ \A l \in arr : l <= N => Find(q, at(l)) = Find(q, at(m))
       /\ \A C : NoHashLeavesOut(list, C) /\ Respects(parent, Ids, C) => Respects(q, Ids, C)
  BY <1>8, <1>13 DEF Good
<1>15. Together(q, list, h)
  <2>1. \A l \in arr : l <= N
    BY <1>1, <1>2
  <2>2. \A k, l \in arr : Find(q, at(k)) = Find(q, at(l))
    BY <1>14, <2>1
  <2> QED
    BY <2>2 DEF Together, arr, at
<1> QED
  BY <1>14, <1>15

(* A finite set as a sequence.                                             *)
LEMMA Enumerated ==
  ASSUME NEW H, IsFiniteSet(H)
  PROVE  /\ SetToSeq(H) \in Seq(H)
         /\ \A h \in H : \E n \in 1..Len(SetToSeq(H)) : SetToSeq(H)[n] = h
<1> DEFINE n == Cardinality(H)
           s == SetToSeq(H)
<1>1. n \in Nat /\ ExistsBijection(1..n, H)
  BY FS_CardinalityType
<1>2. \E f \in [1..n -> H] : IsInjective(f)
  BY <1>1 DEF ExistsBijection, Bijection, Injection
<1>3. s \in [1..n -> H] /\ IsInjective(s)
  BY <1>2 DEF SetToSeq
<1> HIDE DEF s, n
<1>4. s \in Seq(H) /\ Len(s) = n
  <2>1. s \in Seq(H)
    BY <1>1, <1>3, SeqDef
  <2> QED
    BY <1>1, <1>3, <2>1, LenProperties
<1>5. s \in Injection(1..n, H) /\ IsFiniteSet(1..n) /\ Cardinality(1..n) = n
  BY <1>1, <1>3, FS_Interval DEF Injection
<1>6. s \in Surjection(1..n, H)
  BY <1>5, FS_Injection DEF n
<1> QED
  BY <1>4, <1>6 DEF Surjection, s

(* All hashes: another loop.                                               *)
AllHashes(list) == UNION {HashesOf(e) : e \in Range(list)}

IsParenting(j, list) ==
    j = [k \in 0..Len(SetToSeq(AllHashes(list))) |->
            IF k = 0 THEN [id \in IdsOf(list) |-> id]
            ELSE JoinHash(list, j[k - 1], SetToSeq(AllHashes(list))[k])]

LEMMA ParentsOf ==
  ASSUME NEW S, NEW list \in Seq(S), IsFiniteSet(AllHashes(list)),
         NEW Ids, Ids = IdsOf(list), NEW q, q = Parents(list)
  PROVE  /\ \A h : Together(q, list, h)
         /\ \A C : NoHashLeavesOut(list, C) => Respects(q, Ids, C)
<1> DEFINE hashes == SetToSeq(AllHashes(list))
           N == Len(hashes)
           F == Forests(Ids)
           base == [id \in Ids |-> id]
<1>1. N \in Nat /\ \A h \in AllHashes(list) : \E n \in 1..N : hashes[n] = h
  BY Enumerated, LenProperties
<1>2. base \in F /\ \A x \in Ids : Find(base, x) = x
  BY Separate
<1> HIDE DEF hashes, N, base
<1>3. \A p \in F, k \in 1..N : JoinHash(list, p, hashes[k]) \in F
  BY HashJoined
<1>4. \E f : /\ f = [k \in 0..N |-> f[k]] /\ f[0] = base
             /\ \A k \in 1..N : f[k] = JoinHash(list, f[k - 1], hashes[k])
  <2> DEFINE g == [k \in 1..N |-> [p \in F |-> JoinHash(list, p, hashes[k])]]
  <2> HIDE DEF F
  <2>1. g \in Loops(N, F)
    BY <1>3 DEF Loops
  <2>2. \A k \in 1..N, p \in F : g[k][p] = JoinHash(list, p, hashes[k])
    OBVIOUS
  <2> HIDE DEF g
  <2>3. PICK f : f \in Traces(N, F, base, g)
    BY <1>1, <1>2, <2>1, Recursion DEF F
  <2>4. /\ f \in [0..N -> F] /\ f[0] = base
        /\ \A k \in 1..N : f[k] = g[k][f[k - 1]]
    BY <2>3 DEF Traces
  <2>5. \A k \in 1..N : f[k] = JoinHash(list, f[k - 1], hashes[k])
    <3>1. \A k \in 1..N : f[k - 1] \in F
      BY <1>1, <2>4
    <3> QED
      BY <2>2, <2>4, <3>1
  <2>6. f = [k \in 0..N |-> f[k]]
    BY <2>4
  <2> QED
    BY <2>4, <2>5, <2>6
<1>5. PICK f : /\ f = [k \in 0..N |-> f[k]] /\ f[0] = base
               /\ \A k \in 1..N : f[k] = JoinHash(list, f[k - 1], hashes[k])
  BY <1>4
<1>6. IsParenting(f, list)
  <2>1. ASSUME NEW k \in 0..N
        PROVE  f[k] = IF k = 0 THEN base ELSE JoinHash(list, f[k - 1], hashes[k])
    <3>1. CASE k = 0
      BY <1>5, <3>1
    <3>2. CASE k # 0
      <4>1. k \in 1..N
        BY <1>1, <3>2
      <4> QED
        BY <1>5, <3>2, <4>1
    <3> QED
      BY <3>1, <3>2
  <2> QED
    BY <1>5, <2>1, Zenon DEF IsParenting, hashes, N, base
<1> DEFINE j == CHOOSE j : IsParenting(j, list)
<1>7. IsParenting(j, list)
  BY <1>6
<1>8. q = j[N]
  BY DEF Parents, IsParenting, N, hashes, AllHashes, IdsOf
<1> HIDE DEF j
<1>9. j[0] = base /\ \A k \in 1..N : j[k] = JoinHash(list, j[k - 1], hashes[k])
  <2>1. j[0] = base
    BY <1>1, <1>7 DEF IsParenting, N, hashes, base
  <2>2. ASSUME NEW k \in 1..N PROVE j[k] = JoinHash(list, j[k - 1], hashes[k])
    <3>1. k \in 0..N /\ k # 0
      BY <1>1
    <3> QED
      BY <1>7, <3>1 DEF IsParenting, N, hashes
  <2> QED
    BY <2>1, <2>2
<1> DEFINE Good(k) ==
              /\ j[k] \in F
              /\ \A n \in 1..k : Together(j[k], list, hashes[n])
              /\ \A C : NoHashLeavesOut(list, C) => Respects(j[k], Ids, C)
           A == {k \in Nat : k <= N => Good(k)}
<1>10. Good(0)
  BY <1>2, <1>9 DEF Respects
<1>11. ASSUME NEW k \in Nat, k + 1 <= N, Good(k) PROVE Good(k + 1)
  <2> DEFINE p == j[k]
             p2 == j[k + 1]
  <2>1. k + 1 \in 1..N /\ (k + 1) - 1 = k
    BY <1>1, <1>11
  <2>2. p2 = JoinHash(list, p, hashes[k + 1])
    BY <1>9, <2>1
  <2>3. /\ p \in F /\ \A n \in 1..k : Together(p, list, hashes[n])
        /\ \A C : NoHashLeavesOut(list, C) => Respects(p, Ids, C)
    BY <1>11
  <2> HIDE DEF p, p2
  <2>4. /\ p2 \in F /\ Coarser(p, p2, Ids) /\ Together(p2, list, hashes[k + 1])
        /\ \A C : NoHashLeavesOut(list, C) /\ Respects(p, Ids, C) => Respects(p2, Ids, C)
    BY <2>2, <2>3, HashJoined
  <2>5. ASSUME NEW n \in 1..(k + 1) PROVE Together(p2, list, hashes[n])
    <3>1. CASE n = k + 1
      BY <2>4, <3>1
    <3>2. CASE n # k + 1
      <4>1. Together(p, list, hashes[n])
        BY <2>3, <3>2
      <4>2. \A l \in Sharing(list, hashes[n]) : Id(list[l]) \in Ids
        BY DEF Sharing, IdsOf, Range
      <4> QED
        BY <2>4, <4>1, <4>2 DEF Together, Coarser
    <3> QED
      BY <3>1, <3>2
  <2> QED
    BY <2>3, <2>4, <2>5 DEF p2
<1> HIDE DEF Good
<1>12. A = Nat
  <2>1. 0 \in A
    BY <1>10
  <2>2. ASSUME NEW k \in A PROVE k + 1 \in A
    BY <1>1, <1>11
  <2>3. A \in SUBSET Nat
    OBVIOUS
  <2> HIDE DEF A
  <2> QED
    BY <2>1, <2>2, <2>3, NatSetInduction
<1>13. Good(N)
  BY <1>1, <1>12
<1>14. ASSUME NEW h PROVE Together(q, list, h)
  <2>1. CASE h \in AllHashes(list)
    BY <1>1, <1>8, <1>13, <2>1 DEF Good
  <2>2. CASE h \notin AllHashes(list)
    <3>1. Sharing(list, h) = {}
      BY <2>2 DEF Sharing, AllHashes, Range
    <3> QED
      BY <3>1 DEF Together
  <2> QED
    BY <2>1, <2>2
<1> QED
  BY <1>8, <1>13, <1>14 DEF Good

(* Hashes are finitely many.                                               *)
LEMMA HashesFinite ==
  ASSUME history \in Histories, NEW e \in Logged
  PROVE  IsFiniteSet(HashesOf(e))
<1> DEFINE n == Len(e.entries)
           A == {entry.hash : entry \in Range(e.entries)}
           B == {entry.next : entry \in Range(e.entries)}
           f == [k \in 1..n |-> e.entries[k].hash]
           g == [k \in 1..n |-> e.entries[k].next]
<1>1. n \in Nat /\ DOMAIN e.entries = 1..n
  <2>1. e.entries \in Seq(Range(e.entries))
    BY LoggedShape
  <2> QED
    BY <2>1, LenProperties
<1>2. IsFiniteSet(1..n)
  BY <1>1, FS_Interval
<1>3. f \in Surjection(1..n, A) /\ g \in Surjection(1..n, B)
  BY <1>1 DEF Surjection, Range
<1> HIDE DEF f, g, n
<1>4. IsFiniteSet(A) /\ IsFiniteSet(B) /\ IsFiniteSet({e.hash})
  <2> HIDE DEF A, B
  <2> QED
    BY <1>2, <1>3, FS_Surjection, FS_Singleton
<1>5. IsFiniteSet({e.hash} \cup A \cup B)
  BY <1>4, FS_Union
<1>6. HashesOf(e) \subseteq {e.hash} \cup A \cup B
  BY DEF HashesOf
<1> HIDE DEF A, B
<1> QED
  BY <1>5, <1>6, FS_Subset

LEMMA AllHashesFinite ==
  ASSUME history \in Histories, NEW list \in Seq(Logged)
  PROVE  IsFiniteSet(AllHashes(list))
<1> DEFINE n == Len(list)
           A == {HashesOf(e) : e \in Range(list)}
           f == [k \in 1..n |-> HashesOf(list[k])]
<1>1. n \in Nat /\ DOMAIN list = 1..n /\ \A k \in 1..n : list[k] \in Logged
  BY LenProperties, ElementOfSeq
<1>2. IsFiniteSet(1..n)
  BY <1>1, FS_Interval
<1>3. f \in Surjection(1..n, A)
  BY <1>1 DEF Surjection, Range
<1>4. \A T \in A : IsFiniteSet(T)
  BY <1>1, HashesFinite DEF Range
<1> HIDE DEF f, n, A
<1>5. IsFiniteSet(A)
  BY <1>2, <1>3, FS_Surjection
<1>6. IsFiniteSet(UNION A)
  BY <1>4, <1>5, FS_UNION
<1> QED
  BY <1>6 DEF AllHashes, A

LEMMA IdsDiffer ==
  ASSUME history \in Histories, NEW e \in Logged, NEW f \in Logged, Id(e) = Id(f)
  PROVE  e = f
<1>1. e.chain = f.chain /\ e.block = f.block /\ e.index = f.index
  BY DEF Id
<1>2. PICK k \in DOMAIN history[e.chain] : history[e.chain][k] = e
  BY LoggedShape
<1>3. PICK m \in DOMAIN history[e.chain] : history[e.chain][m] = f
  BY <1>1, LoggedShape
<1>4. ~Before(e, f) /\ ~Before(f, e)
  BY <1>1, LoggedShape DEF Before
<1>5. e.chain \in Chains
  BY LoggedShape
<1>6. k \in Nat /\ m \in Nat /\ ~(k < m) /\ ~(m < k)
  BY <1>2, <1>3, <1>4, <1>5, ChainShape
<1> QED
  BY <1>2, <1>3, <1>6

(* A set of events that no hash leads out of.                              *)
ClosedIn(all, es) == \A e \in es, f \in all \ es : HashesOf(e) \cap HashesOf(f) = {}

(* Trees and hashes: events that share one are in one tree, and a set of   *)
(* events that no hash leads out of has all of a tree or nothing.          *)
LEMMA TreesOf ==
  ASSUME history \in Histories, NEW list \in Seq(Logged), NEW all, all = Range(list),
         NEW p, p = Parents(list)
  PROVE  /\ \A e, f \in all : HashesOf(e) \cap HashesOf(f) # {} => Find(p, Id(e)) = Find(p, Id(f))
         /\ \A es \in SUBSET all : ClosedIn(all, es) =>
               \A e, f \in all : Find(p, Id(e)) = Find(p, Id(f)) => (e \in es <=> f \in es)
<1> DEFINE Ids == IdsOf(list)
<1>1. IsFiniteSet(AllHashes(list))
  BY AllHashesFinite
<1>2. /\ \A h : Together(p, list, h)
      /\ \A C : NoHashLeavesOut(list, C) => Respects(p, Ids, C)
  BY <1>1, ParentsOf
<1>3. /\ \A k \in DOMAIN list : list[k] \in all
      /\ \A e \in all : e \in Logged /\ Id(e) \in Ids /\ \E k \in DOMAIN list : list[k] = e
  BY ElementOfSeq, LenProperties DEF Range, IdsOf
<1> HIDE DEF Ids
<1>4. ASSUME NEW e \in all, NEW f \in all, HashesOf(e) \cap HashesOf(f) # {}
      PROVE  Find(p, Id(e)) = Find(p, Id(f))
  <2>1. PICK h : h \in HashesOf(e) /\ h \in HashesOf(f)
    BY <1>4
  <2>2. PICK k \in DOMAIN list : list[k] = e
    BY <1>3
  <2>3. PICK m \in DOMAIN list : list[m] = f
    BY <1>3
  <2>4. k \in Sharing(list, h) /\ m \in Sharing(list, h)
    BY <2>1, <2>2, <2>3 DEF Sharing
  <2> QED
    BY <1>2, <2>2, <2>3, <2>4 DEF Together
<1>5. ASSUME NEW es \in SUBSET all, ClosedIn(all, es), NEW e \in all, NEW f \in all,
             Find(p, Id(e)) = Find(p, Id(f))
      PROVE  e \in es <=> f \in es
  <2> DEFINE C == {Id(x) : x \in es}
  <2>1. \A x \in all : Id(x) \in C <=> x \in es
    BY <1>3, IdsDiffer
  <2> HIDE DEF C
  <2>2. NoHashLeavesOut(list, C)
    <3>1. SUFFICES ASSUME NEW h, NEW k \in Sharing(list, h), NEW m \in Sharing(list, h)
                   PROVE  list[k] \in es <=> list[m] \in es
      BY <1>3, <2>1 DEF NoHashLeavesOut, Sharing
    <3>2. h \in HashesOf(list[k]) /\ h \in HashesOf(list[m]) /\ list[k] \in all /\ list[m] \in all
      BY <1>3, <3>1 DEF Sharing
    <3> QED
      BY <1>5, <3>2 DEF ClosedIn
  <2>3. Respects(p, Ids, C)
    BY <1>2, <2>2
  <2>4. Id(e) \in C <=> Id(f) \in C
    BY <1>3, <1>5, <2>3 DEF Respects
  <2> QED
    BY <2>1, <2>4
<1> QED
  BY <1>4, <1>5

(* What a loaded entry is for is among the hashes of its event, and so is  *)
(* what an event consumes.                                                 *)
LEMMA LoadedIsHash ==
  ASSUME history \in Histories, NEW es, \A e \in es : e \in Logged, NEW h \in LoadedHashes(es),
         h # Immediate
  PROVE  \E e \in es : h \in HashesOf(e)
<1>1. PICK e \in es : \E entry \in Range(e.entries) : entry.hash = h
  BY DEF LoadedHashes
<1>2. h # Nothing
  BY <1>1, LoggedShape
<1> QED
  BY <1>1, <1>2 DEF HashesOf

(* A bundle is complete if all that it loads was consumed, in it or not.   *)
LEMMA CompleteInside ==
  ASSUME history \in Histories, NEW all, \A e \in all : e \in Logged,
         NEW es \in SUBSET all, ClosedIn(all, es)
  PROVE  LoadedHashes(es) \subseteq ConsumedHashes(all)
            <=> LoadedHashes(es) \subseteq ConsumedHashes(es)
<1>1. ConsumedHashes(es) \subseteq ConsumedHashes(all)
  BY DEF ConsumedHashes
<1>2. ASSUME NEW h \in LoadedHashes(es), h \in ConsumedHashes(all) PROVE h \in ConsumedHashes(es)
  <2>2. PICK f \in all : f.name = "ExecutionConsumed" /\ f.hash = h
    BY <1>2 DEF ConsumedHashes
  <2>5. h # Immediate
    BY <2>2, LoggedShape
  <2>1. PICK e \in es : h \in HashesOf(e)
    BY <2>5, LoadedIsHash
  <2>3. h \in HashesOf(f)
    BY <2>1, <2>2 DEF HashesOf
  <2>4. f \in es
    BY <2>1, <2>3 DEF ClosedIn
  <2> QED
    BY <2>2, <2>4 DEF ConsumedHashes
<1> QED
  BY <1>1, <1>2

(* The bundles of a list.                                                  *)
LEMMA BundlesOf ==
  ASSUME history \in Histories, NEW list \in Seq(Logged), NEW all, all = Range(list),
         NEW bundles, bundles = BuildTransactionBundles(list)
  PROVE  /\ UNION {b.events : b \in bundles} = all
         /\ \A b \in bundles :
               /\ ClosedIn(all, b.events)
               /\ \A es \in (SUBSET b.events) \ {{}, b.events} : ~ClosedIn(all, es)
               /\ (b.status = "complete") <=>
                     \/ \A e \in b.events : HashesOf(e) = {}
                     \/ /\ LoadedHashes(b.events) # {}
                        /\ LoadedHashes(b.events) \subseteq ConsumedHashes(all)
<1> DEFINE p == Parents(list)
           linked == {e \in all : HashesOf(e) # {}}
           Class(e) == {f \in linked : Find(p, Id(f)) = Find(p, Id(e))}
<1>1. bundles = {BundleOf(group) : group \in {Class(e) : e \in linked}}
                   \cup {Alone(e) : e \in all \ linked}
  BY DEF BuildTransactionBundles
<1>2. \A e \in all : e \in Logged
  BY ElementOfSeq, LenProperties DEF Range
<1>3. /\ \A e, f \in all : HashesOf(e) \cap HashesOf(f) # {} => Find(p, Id(e)) = Find(p, Id(f))
      /\ \A es \in SUBSET all : ClosedIn(all, es) =>
            \A e, f \in all : Find(p, Id(e)) = Find(p, Id(f)) => (e \in es <=> f \in es)
  BY TreesOf
<1> HIDE DEF p
<1>4. ASSUME NEW e \in linked
      PROVE  /\ e \in Class(e) /\ Class(e) \in SUBSET linked /\ Class(e) \in SUBSET all
             /\ ClosedIn(all, Class(e))
             /\ \A es \in (SUBSET Class(e)) \ {{}, Class(e)} : ~ClosedIn(all, es)
  <2> DEFINE G == Class(e)
  <2>1. e \in G /\ G \in SUBSET linked /\ G \in SUBSET all
    OBVIOUS
  <2>2. ASSUME NEW x \in G, NEW y \in all \ G, HashesOf(x) \cap HashesOf(y) # {} PROVE FALSE
    <3>1. y \in linked /\ Find(p, Id(x)) = Find(p, Id(y))
      BY <1>3, <2>2
    <3> QED
      BY <2>2, <3>1
  <2>3. ASSUME NEW es \in SUBSET G, es # {}, es # G, ClosedIn(all, es) PROVE FALSE
    <3>1. PICK x \in es : TRUE
      BY <2>3
    <3>2. PICK y \in G : y \notin es
      BY <2>3
    <3>3. x \in all /\ y \in all /\ Find(p, Id(x)) = Find(p, Id(y)) /\ es \in SUBSET all
      BY <2>3, <3>1, <3>2
    <3> QED
      BY <1>3, <2>3, <3>1, <3>2, <3>3
  <2> HIDE DEF Class
  <2> QED
    BY <2>1, <2>2, <2>3 DEF ClosedIn
<1> HIDE DEF Class
<1>5. ASSUME NEW e \in linked, NEW b, b = BundleOf(Class(e))
      PROVE  /\ b.events = Class(e)
             /\ (b.status = "complete") <=>
                   \/ \A x \in b.events : HashesOf(x) = {}
                   \/ /\ LoadedHashes(b.events) # {}
                      /\ LoadedHashes(b.events) \subseteq ConsumedHashes(all)
  <2>1. b.events = Class(e)
    BY <1>5 DEF BundleOf
  <2>2. (b.status = "complete") <=> LoadedHashes(Class(e)) # {}
                                     /\ LoadedHashes(Class(e)) \subseteq ConsumedHashes(Class(e))
    BY <1>5 DEF BundleOf
  <2>3. ~\A x \in Class(e) : HashesOf(x) = {}
    BY <1>4
  <2>4. LoadedHashes(Class(e)) \subseteq ConsumedHashes(all)
           <=> LoadedHashes(Class(e)) \subseteq ConsumedHashes(Class(e))
    BY <1>2, <1>4, CompleteInside
  <2> QED
    BY <2>1, <2>2, <2>3, <2>4
<1>6. ASSUME NEW e \in all \ linked
      PROVE  /\ Alone(e).events = {e} /\ Alone(e).status = "complete" /\ HashesOf(e) = {}
             /\ ClosedIn(all, {e}) /\ (SUBSET {e}) \ {{}, {e}} = {}
  BY DEF Alone, ClosedIn
<1>7. UNION {b.events : b \in bundles} = all
  <2>1. ASSUME NEW b \in bundles PROVE b.events \subseteq all
    <3>1. CASE \E e \in linked : b = BundleOf(Class(e))
      BY <1>4, <1>5, <3>1
    <3>2. CASE \E e \in all \ linked : b = Alone(e)
      <4>1. PICK e \in all \ linked : b = Alone(e)
        BY <3>2
      <4>2. b.events = {e} /\ e \in all
        BY <1>6, <4>1
      <4> QED
        BY <4>2
    <3> QED
      BY <1>1, <3>1, <3>2
  <2>2. ASSUME NEW e \in all PROVE \E b \in bundles : e \in b.events
    <3>1. CASE e \in linked
      <4>1. BundleOf(Class(e)) \in bundles /\ BundleOf(Class(e)).events = Class(e) /\ e \in Class(e)
        BY <1>1, <1>4, <1>5, <3>1
      <4> QED
        BY <4>1
    <3>2. CASE e \notin linked
      <4>1. Alone(e) \in bundles /\ Alone(e).events = {e}
        BY <1>1, <1>6, <3>2
      <4> QED
        BY <4>1
    <3> QED
      BY <3>1, <3>2
  <2> QED
    BY <2>1, <2>2
<1>8. ASSUME NEW b \in bundles
      PROVE  /\ ClosedIn(all, b.events)
             /\ \A es \in (SUBSET b.events) \ {{}, b.events} : ~ClosedIn(all, es)
             /\ (b.status = "complete") <=>
                   \/ \A e \in b.events : HashesOf(e) = {}
                   \/ /\ LoadedHashes(b.events) # {}
                      /\ LoadedHashes(b.events) \subseteq ConsumedHashes(all)
  <2>1. ASSUME NEW e \in linked, b = BundleOf(Class(e))
        PROVE  /\ ClosedIn(all, b.events)
               /\ \A es \in (SUBSET b.events) \ {{}, b.events} : ~ClosedIn(all, es)
    <3>1. b.events = Class(e)
      BY <1>5, <2>1
    <3> QED
      BY <1>4, <3>1
  <2>2. CASE \E e \in linked : b = BundleOf(Class(e))
    BY <1>5, <2>1, <2>2
  <2>3. CASE \E e \in all \ linked : b = Alone(e)
    <3>1. PICK e \in all \ linked : b = Alone(e)
      BY <2>3
    <3>2. b.events = {e} /\ b.status = "complete"
      BY <1>6, <3>1
    <3> QED
      BY <1>6, <3>1, <3>2
  <2> QED
    BY <1>1, <2>2, <2>3
<1> QED
  BY <1>7, <1>8

-----------------------------------------------------------------------------
(* The theorems.                                                           *)

(* However queries and pollers interleave, and whatever arrives twice or   *)
(* late: an event is listed once and those of a chain are in its order     *)
(* (eventsSlice.addEvent).                                                 *)
THEOREM EventsAreInOrder == Spec => []EventsInChainOrder
<1>1. IInv => EventsInChainOrder
  BY OrderedLists DEF IInv, PlacesOK
<1> QED
  BY <1>1, Invariance, PTL

(* Unless an answer came after its session: edges end at nodes that are    *)
(* drawn and no two nodes of a lane share a column, in any order of        *)
(* arrival (discoverFromEvent).                                            *)
THEOREM DiagramIsSound == Spec => []DiagramSound
<1>1. IInv => DiagramSound
  <2>1. SUFFICES ASSUME IInv, ~late
                 PROVE  /\ \A edge \in edges : {edge[1], edge[2]} \subseteq Existing(Diagram)
                        /\ \A c \in Chains : \A a, b \in DOMAIN nodes[c] :
                              nodes[c][a] = nodes[c][b] => a = b
    BY DEF DiagramSound
  <2>2. CASE connected
    <3>1. DiagramOK(Diagram)
      BY <2>1, <2>2 DEF IInv, DrawnOK
    <3>2. Diagram.nodes = nodes /\ Diagram.edges = edges
      BY DEF Diagram
    <3> QED
      BY <3>1, <3>2 DEF DiagramOK, LaneOK
  <2>3. CASE ~connected
    BY <2>1, <2>3 DEF IInv, DrawnOK
  <2> QED
    BY <2>2, <2>3
<1> QED
  BY <1>1, Invariance, PTL

(* If L1 posts, L2 loads and a chain consumes only what it loaded before:  *)
(* whatever order the pollers bring the logs in, what is shown for any     *)
(* selected event is what the events of a chain up to it loaded, and       *)
(* struck out is what they consumed where one entry only shows the hash    *)
(* (useDerivedState), as far as the chain is known without a gap.  It is   *)
(* not the table of the contract, which a batch empties.                   *)
THEOREM ReplayShowsTheEvents ==
  ASSUME \A h \in Histories : LogsOfContracts(h)
  PROVE  Spec => []ReplayFollowsEvents
<1>1. IInv => ReplayFollowsEvents
  <2>1. SUFFICES ASSUME IInv, NEW i \in DOMAIN events, NEW c \in Chains, Gapless(c, i)
                 PROVE  LET known == Known(c, i)
                            rows == Range(Replay(i).table[c])
                            once == {s \in Short(LoadedHashes(known)) : LoadedOnce(known, s)}
                            struck == {row \in rows : row.status \in {"jc", "consumed"}}
                        IN /\ {row.hash : row \in rows} = Short(LoadedHashes(known))
                           /\ {row.hash : row \in struck} \cap once = Short(ConsumedHashes(known))
                                                                  \cap once
    BY Zenon DEF ReplayFollowsEvents, Known
  <2>2. history \in Histories /\ ListOK(events)
    BY <2>1 DEF IInv, PlacesOK
  <2>3. Shows(Replay(i).table[c], Known(c, i))
    BY <2>1, <2>2, ReplayShows
  <2> QED
    BY <2>3, ShownHashes
<1> QED
  BY <1>1, Invariance, PTL

(* Bundles partition the events, no action hash leads out of one and none  *)
(* falls apart into two, and one is complete exactly if all that it loads  *)
(* was consumed anywhere in the list: the union-find of                    *)
(* buildTransactionBundles, for any events that the pollers bring.         *)
THEOREM BundlesAreTheComponents == Spec => []BundlesAreComponents
<1>1. IInv => BundlesAreComponents
  <2>1. SUFFICES ASSUME IInv PROVE BundlesAreComponents
    OBVIOUS
  <2>2. history \in Histories /\ events \in Seq(Logged)
    BY <2>1 DEF IInv, PlacesOK, ListOK
  <2> DEFINE all == Range(events)
             bundles == BuildTransactionBundles(events)
  <2>3. /\ UNION {b.events : b \in bundles} = all
        /\ \A b \in bundles :
              /\ ClosedIn(all, b.events)
              /\ \A es \in (SUBSET b.events) \ {{}, b.events} : ~ClosedIn(all, es)
              /\ (b.status = "complete") <=>
                    \/ \A e \in b.events : HashesOf(e) = {}
                    \/ /\ LoadedHashes(b.events) # {}
                       /\ LoadedHashes(b.events) \subseteq ConsumedHashes(all)
    BY <2>2, BundlesOf
  <2> QED
    BY <2>3, Zenon DEF BundlesAreComponents, ClosedIn
<1> QED
  BY <1>1, Invariance, PTL

=============================================================================
