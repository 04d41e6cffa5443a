----------------------------- MODULE Dashboard -----------------------------
(***************************************************************************)
(* The dashboard that watches both managers.  On every connect it asks     *)
(* each chain once for all logs and, in parallel, has one poller per event *)
(* name; whatever arrives, in whatever order and however often, goes       *)
(* through one handler into a store.  Going back in time replays the       *)
(* stored events; bundles group them by the action hashes they share.      *)
(* Wording, colours and the highlighting of the last event are left out.   *)
(***************************************************************************)
EXTENDS Integers, SequencesExt, FiniteSetsExt

CONSTANTS
    Histories,   \* what may happen: the logs of both chains, and how often a user connects
    Immediate,   \* the action hash of an entry applied at once
    Nothing,     \* an argument an event does not have
    TruncateHex(_),  \* the eight hex digits of a hash that are shown
    Manager,     \* Manager[c]: address of the contract on chain c
    Prover, System,  \* the senders drawn as ghosts
    MaxSessions  \* bound: connects

Chains == {"l1", "l2"}

Before(e, f) == e.block < f.block \/ (e.block = f.block /\ e.index < f.index)

(* Logs of a chain know their chain and are in its order; entries are      *)
(* those of a list, and each has an action hash.  What is consumed is the  *)
(* hash of an action, never the zero hash.                                 *)
ASSUME HistoryShape ==
    /\ MaxSessions \in Nat
    /\ \A h \in Histories, c \in Chains :
          /\ h[c] \in Seq(Range(h[c]))
          /\ \A k \in DOMAIN h[c] :
                /\ h[c][k].chain = c
                /\ h[c][k].block \in Nat /\ h[c][k].index \in Nat
                /\ h[c][k].entries \in Seq(Range(h[c][k].entries))
                /\ \A entry \in Range(h[c][k].entries) : entry.hash # Nothing
                /\ h[c][k].name = "ExecutionConsumed" => h[c][k].hash # Immediate
                /\ \A j \in DOMAIN h[c] : j < k => Before(h[c][j], h[c][k])

VARIABLES
    history,       \* what will happen
    head,          \* head[c]: how many of them chain c has emitted
    connected, session,
    reads,         \* reads[s][c]: the one-off query of session s
    watch,         \* watch[c][n]: log position the poller of n has reached, -1 before it exists
    events, table, contractState,
    nodes,         \* nodes[c][id]: column of a node in the lane of chain c
    edges, knownAddresses, nextCol,
    late           \* a query was answered after its session had ended

store == <<events, table, contractState, nodes, edges, knownAddresses, nextCol>>
vars == <<history, head, connected, session, reads, watch, store, late>>

Id(e) == <<e.chain, e.block, e.index>>

Names(c) == {history[c][k].name : k \in DOMAIN history[c]}

(***************************************************************************)
(* Execution tables and state roots                                        *)
(***************************************************************************)
Deferred(e) == FlattenSeq([k \in DOMAIN e.entries |->
    IF e.entries[k].hash = Immediate THEN <<>> ELSE <<e.entries[k]>>])

(* A row is found again by what it shows of its hash. *)
EntryToTableEntry(e, entry) ==
    [id |-> <<Id(e), entry.hash>>, hash |-> TruncateHex(entry.hash), status |-> "ja"]

Rows(e, entries) == [k \in DOMAIN entries |-> EntryToTableEntry(e, entries[k])]

ProcessEventForTables(e) ==
    CASE e.name = "BatchPosted" -> [chain |-> "l1", adds |-> Rows(e, Deferred(e)), consumes |-> {}]
      [] e.name = "ExecutionTableLoaded" -> [chain |-> "l2", adds |-> Rows(e, e.entries), consumes |-> {}]
      [] e.name = "ExecutionConsumed" ->
            [chain |-> e.chain, adds |-> <<>>, consumes |-> {TruncateHex(e.hash)}]
      [] OTHER -> [chain |-> e.chain, adds |-> <<>>, consumes |-> {}]

(* The root a rollup has after the event, or the one it had. *)
ExtractRollupState(e, root) ==
    LET applied == SelectSeq(e.entries, LAMBDA entry : entry.hash = Immediate)
    IN CASE e.name \in {"RollupCreated", "StateUpdated", "L2ExecutionPerformed"} -> e.root
         [] e.name = "BatchPosted" /\ applied # <<>> -> Last(applied).root
         [] OTHER -> root

(* Mutant: a consumed row counts as loaded again. *)
Mutant_AgesConsumed(rows) == [k \in DOMAIN rows |-> [rows[k] EXCEPT !.status = "ok"]]

Aged(rows) == [k \in DOMAIN rows |->
    IF rows[k].status = "ja" THEN [rows[k] EXCEPT !.status = "ok"] ELSE rows[k]]

AddEntries(rows, adds) == IF adds = <<>> THEN rows ELSE Aged(rows) \o adds

(* Live, every row that shows the hash is struck out. *)
ConsumeEntry(rows, hashes) == [k \in DOMAIN rows |->
    IF rows[k].hash \in hashes THEN [rows[k] EXCEPT !.status = "jc"] ELSE rows[k]]

(* In a replay, the first one is. *)
ConsumeFirst(rows, hashes, status) ==
    LET matching == {k \in DOMAIN rows : rows[k].hash \in hashes}
    IN IF matching = {} THEN rows ELSE [rows EXCEPT ![Min(matching)].status = status]

ReplayStep(view, e, isCurrent) ==
    LET change == ProcessEventForTables(e)
        aged == [c \in Chains |-> Aged(view.table[c])]
        rows == [k \in DOMAIN change.adds |->
                    [change.adds[k] EXCEPT !.status = IF isCurrent THEN "ja" ELSE "ok"]]
    IN [ table |-> [aged EXCEPT ![change.chain] =
             ConsumeFirst(@ \o rows, change.consumes, IF isCurrent THEN "jc" ELSE "consumed")],
         root |-> ExtractRollupState(e, view.root) ]

(* What is shown when the i-th event is selected. *)
Replay(i) ==
    LET view[k \in 0..i] ==
            IF k = 0 THEN [table |-> [c \in Chains |-> <<>>], root |-> Nothing]
            ELSE ReplayStep(view[k - 1], events[k], k = i)
    IN view[i]

(***************************************************************************)
(* The diagram: lanes of nodes, one column each, and edges between them    *)
(***************************************************************************)
Existing(d) == DOMAIN d.nodes["l1"] \cup DOMAIN d.nodes["l2"]

Diagram == [nodes |-> nodes, edges |-> edges, known |-> knownAddresses, nextCol |-> nextCol]

(* The nodes of a lane and one more, in a column.                          *)
Beside(lane, id, column) ==
    [x \in DOMAIN lane \cup {id} |-> IF x = id THEN column ELSE lane[x]]

EnsureGhost(d, id, c) ==
    IF id \in Existing(d) THEN d
    ELSE [d EXCEPT !.nodes[c] = Beside(@, id, d.nextCol[c]), !.nextCol[c] = @ + 1]

EnsureNode(d, id, c) ==
    IF id \in Existing(d) THEN d
    ELSE [EnsureGhost(d, id, c) EXCEPT !.known = @ \cup {id}]

EnsureUnknown(d, id, c) == IF id \in d.known THEN d ELSE EnsureNode(d, id, c)

(* Mutant: an edge to a node that may not be there. *)
Mutant_EdgeAnyway(d, from, to) == [d EXCEPT !.edges = @ \cup {<<from, to>>}]

Joined(d, from, to) ==
    IF {from, to} \subseteq Existing(d) THEN [d EXCEPT !.edges = @ \cup {<<from, to>>}] ELSE d

Fixed(d, from, to) == [d EXCEPT !.edges = @ \cup {<<from, to>>}]

DiscoverFromEvent(d, e) ==
    CASE e.name = "CrossChainProxyCreated" ->
            Joined(EnsureNode(d, e.to, e.chain), e.to, Manager[e.chain])
      [] e.name = "BatchPosted" -> Fixed(EnsureGhost(d, Prover, "l1"), Prover, Manager["l1"])
      [] e.name = "ExecutionTableLoaded" -> Fixed(EnsureGhost(d, System, "l2"), System, Manager["l2"])
      [] e.name = "CrossChainCallExecuted" ->
            Joined(EnsureUnknown(d, e.from, e.chain), e.from, e.to)
      [] e.name = "IncomingCrossChainCallExecuted" ->
            LET drawn == EnsureUnknown(d, e.to, e.chain)
            IN Joined([drawn EXCEPT !.known = @ \cup {e.from}], Manager[e.chain], e.to)
      [] OTHER -> d

InitManagerNodes(lanes) == [c \in Chains |->
    IF Manager[c] \in DOMAIN lanes[c] THEN lanes[c] ELSE Beside(lanes[c], Manager[c], 0)]

(***************************************************************************)
(* The store                                                               *)
(***************************************************************************)

Inserted(list, e, place) ==
    SubSeq(list, 1, place) \o <<e>> \o SubSeq(list, place + 1, Len(list))

(* Mutant: events of one block in the order of arrival. *)
Mutant_ByBlockOnly(list, e) ==
    LET place == Cardinality({k \in DOMAIN list : e.block >= list[k].block})
    IN IF \E k \in DOMAIN list : Id(list[k]) = Id(e) THEN list ELSE Inserted(list, e, place)

(* Ordered by block and log index, whatever the chain; equal ones in the   *)
(* order of arrival.                                                       *)
AddEvent(list, e) ==
    LET place == Cardinality({k \in DOMAIN list : ~Before(e, list[k])})
    IN IF \E k \in DOMAIN list : Id(list[k]) = Id(e) THEN list
       ELSE Inserted(list, e, place)

Store == [events |-> events, table |-> table, root |-> contractState, diagram |-> Diagram]

(* The tables change even when the event is one already stored. *)
HandleEvent(s, e) ==
    LET change == ProcessEventForTables(e) IN
    [ events  |-> AddEvent(s.events, e),
      table   |-> [s.table EXCEPT ![change.chain] =
                      ConsumeEntry(AddEntries(@, change.adds), change.consumes)],
      root    |-> ExtractRollupState(e, s.root),
      diagram |-> DiscoverFromEvent(s.diagram, e) ]

(* The store after the logs of chain c from a position to another, those   *)
(* with one of the names, one by one.                                      *)
HandleAll(c, first, upTo, names) ==
    LET s[k \in 0..(upTo - first)] ==
            IF k = 0 THEN Store
            ELSE LET e == history[c][first + k]
                 IN IF e.name \in names THEN HandleEvent(s[k - 1], e) ELSE s[k - 1]
    IN s[upTo - first]

Handle(c, first, upTo, names) ==
    LET after == HandleAll(c, first, upTo, names) IN
    /\ events' = after.events /\ table' = after.table /\ contractState' = after.root
    /\ nodes' = after.diagram.nodes /\ edges' = after.diagram.edges
    /\ knownAddresses' = after.diagram.known /\ nextCol' = after.diagram.nextCol

ClearAll ==
    /\ events' = <<>> /\ table' = [c \in Chains |-> <<>>] /\ contractState' = Nothing
    /\ nodes' = [c \in Chains |-> <<>>] /\ edges' = {} /\ knownAddresses' = {}
    /\ nextCol' = [c \in Chains |-> 0]

(***************************************************************************)
(* Chains, queries and pollers                                             *)
(***************************************************************************)
Read(stage, upTo) == [stage |-> stage, upTo |-> upTo]

Init ==
    /\ history \in Histories
    /\ head = [c \in Chains |-> 0]
    /\ connected = FALSE /\ session = 0
    /\ reads = [s \in 1..MaxSessions |-> [c \in Chains |-> Read("idle", 0)]]
    /\ watch = [c \in Chains |-> [n \in Names(c) |-> -1]]
    /\ events = <<>> /\ table = [c \in Chains |-> <<>>] /\ contractState = Nothing
    /\ nodes = [c \in Chains |-> <<>>] /\ edges = {} /\ knownAddresses = {}
    /\ nextCol = [c \in Chains |-> 0]
    /\ late = FALSE

Mine(c) ==
    /\ head[c] < Len(history[c])
    /\ head' = [head EXCEPT ![c] =
          Max({k \in DOMAIN history[c] : history[c][k].block = history[c][@ + 1].block})]
    /\ UNCHANGED <<history, connected, session, reads, watch, store, late>>

Connect ==
    /\ ~connected /\ session < history.sessions
    /\ connected' = TRUE /\ session' = session + 1
    /\ nodes' = InitManagerNodes(nodes) /\ nextCol' = [c \in Chains |-> 1]
    /\ knownAddresses' = knownAddresses \cup {Manager[c] : c \in Chains}
    /\ reads' = [reads EXCEPT ![session'] = [c \in Chains |-> Read("sent", 0)]]
    /\ UNCHANGED <<history, head, watch, events, table, contractState, edges, late>>

Disconnect ==
    /\ connected
    /\ connected' = FALSE
    /\ watch' = [c \in Chains |-> [n \in Names(c) |-> -1]]
    /\ ClearAll
    /\ UNCHANGED <<history, head, session, reads, late>>

(* The chain answers the query with what it has, or the query fails. *)
Answer(s, c) ==
    /\ reads[s][c].stage = "sent"
    /\ \E read \in {Read("read", head[c]), Read("done", 0)} :
          reads' = [reads EXCEPT ![s][c] = read]
    /\ UNCHANGED <<history, head, connected, session, watch, store, late>>

(* Nothing stops a query whose session is over. *)
Arrive(s, c) ==
    /\ reads[s][c].stage = "read"
    /\ Handle(c, 0, reads[s][c].upTo, Names(c))
    /\ reads' = [reads EXCEPT ![s][c] = Read("done", 0)]
    /\ late' = (late \/ ~connected \/ s # session)
    /\ UNCHANGED <<history, head, connected, session, watch>>

Install(c, n) ==
    /\ connected /\ watch[c][n] = -1
    /\ watch' = [watch EXCEPT ![c][n] = head[c]]
    /\ UNCHANGED <<history, head, connected, session, reads, store, late>>

(* Mutant: a poll of several logs handles the first. *)
Mutant_FirstLogOnly(c, n) ==
    /\ connected /\ watch[c][n] # -1 /\ watch[c][n] < head[c]
    /\ LET new == {k \in (watch[c][n] + 1)..head[c] : history[c][k].name = n}
       IN Handle(c, watch[c][n], IF new = {} THEN head[c] ELSE Min(new), {n})
    /\ watch' = [watch EXCEPT ![c][n] = head[c]]
    /\ UNCHANGED <<history, head, connected, session, reads, late>>

Poll(c, n) ==
    /\ connected /\ watch[c][n] # -1 /\ watch[c][n] < head[c]
    /\ Handle(c, watch[c][n], head[c], {n})
    /\ watch' = [watch EXCEPT ![c][n] = head[c]]
    /\ UNCHANGED <<history, head, connected, session, reads, late>>

Next ==
    \/ Connect \/ Disconnect
    \/ \E c \in Chains :
          \/ Mine(c)
          \/ \E s \in 1..MaxSessions : Answer(s, c) \/ Arrive(s, c)
          \/ \E n \in Names(c) : Install(c, n) \/ Poll(c, n)

Spec == Init /\ [][Next]_vars

(* Weak fairness of answers, arrivals and pollers, written out: each of    *)
(* these actions disables itself.  A query is answered or fails, a poller  *)
(* polls at an interval while it exists; nobody has to connect.            *)
FairSpec ==
    /\ Spec
    /\ \A c \in Chains :
          /\ \A s \in 1..MaxSessions : []<>(reads[s][c].stage \notin {"sent", "read"})
          /\ []<>(connected => \A n \in Names(c) : watch[c][n] = head[c])

(***************************************************************************)
(* Bundles: events that share action hashes, directly or by way of others  *)
(***************************************************************************)
HashesOf(e) ==
    {h \in {e.hash} \cup {entry.hash : entry \in Range(e.entries)}
                    \cup {entry.next : entry \in Range(e.entries)} : h \notin {Immediate, Nothing}}

(* Where in the list the events of a hash are. *)
Sharing(list, h) == {k \in DOMAIN list : h \in HashesOf(list[k])}

Find(parent, id) ==
    LET root[x \in DOMAIN parent] == IF parent[x] = x THEN x ELSE root[parent[x]]
    IN root[id]

(* Mutant: the union links members, not roots. *)
Mutant_JoinWithoutRoots(parent, a, b) == [parent EXCEPT ![a] = b]

Joining(parent, a, b) == [parent EXCEPT ![Find(parent, a)] = Find(parent, b)]

(* The first event of a hash is joined with every other. *)
JoinHash(list, parent, h) ==
    LET arr == Sharing(list, h)
        joined[k \in 0..Len(list)] ==
            IF k = 0 THEN parent
            ELSE IF k \in arr \ {Min(arr)}
                 THEN Joining(joined[k - 1], Id(list[Min(arr)]), Id(list[k]))
            ELSE joined[k - 1]
    IN joined[Len(list)]

Parents(list) ==
    LET hashes == SetToSeq(UNION {HashesOf(e) : e \in Range(list)})
        parent[k \in 0..Len(hashes)] ==
            IF k = 0 THEN [id \in {Id(e) : e \in Range(list)} |-> id]
            ELSE JoinHash(list, parent[k - 1], hashes[k])
    IN parent[Len(hashes)]

LoadedHashes(group) ==
    LET By(name) == UNION {{entry.hash : entry \in Range(e.entries)} :
                              e \in {f \in group : f.name = name}}
    IN (By("BatchPosted") \ {Immediate}) \cup By("ExecutionTableLoaded")

ConsumedHashes(group) == {e.hash : e \in {f \in group : f.name = "ExecutionConsumed"}}

BundleOf(group) ==
    [ events |-> group,
      status |-> IF LoadedHashes(group) # {} /\ LoadedHashes(group) \subseteq ConsumedHashes(group)
                 THEN "complete" ELSE "in-progress" ]

Alone(e) == [events |-> {e}, status |-> "complete"]

BuildTransactionBundles(list) ==
    LET linked == {e \in Range(list) : HashesOf(e) # {}}
        parent == Parents(list)
        groups == {{f \in linked : Find(parent, Id(f)) = Find(parent, Id(e))} : e \in linked}
    IN {BundleOf(group) : group \in groups} \cup {Alone(e) : e \in Range(list) \ linked}

(***************************************************************************)
(* Properties                                                              *)
(***************************************************************************)
Position(e) == CHOOSE k \in DOMAIN history[e.chain] : Id(history[e.chain][k]) = Id(e)

(* However answers and pollers interleave, and whatever arrives twice or   *)
(* after the session it was asked for: an event is listed once and the     *)
(* events of a chain are in the order of the chain (eventsSlice).          *)
EventsInChainOrder ==
    \A i, j \in DOMAIN events :
        (i < j /\ events[i].chain = events[j].chain) => Position(events[i]) < Position(events[j])

(* A chain is shown without a gap up to the i-th event of the list.        *)
Gapless(c, i) ==
    LET shown == {k \in 1..i : events[k].chain = c}
    IN shown # {} => Position(events[Max(shown)]) = Cardinality(shown)

(* What the contracts emit: L1 posts batches and L2 loads tables, and what *)
(* is consumed on a chain was loaded there before.                         *)
LogsOfContracts(h) ==
    \A c \in Chains : \A k \in DOMAIN h[c] :
        /\ h[c][k].name = "BatchPosted" => c = "l1"
        /\ h[c][k].name = "ExecutionTableLoaded" => c = "l2"
        /\ h[c][k].name = "ExecutionConsumed" =>
              \E j \in 1..(k - 1) : h[c][k].hash \in LoadedHashes({h[c][j]})

Short(hashes) == {TruncateHex(h) : h \in hashes}

(* No two entries that the events of a set load show the same of a hash.   *)
LoadedOnce(es, shown) ==
    \A e, f \in es : \A m \in DOMAIN e.entries, n \in DOMAIN f.entries :
        TruncateHex(e.entries[m].hash) = shown /\ TruncateHex(f.entries[n].hash) = shown
            => e = f /\ m = n

(* Selecting any event shows what the events of a chain up to it loaded    *)
(* and consumed, as far as the chain is known without a gap, in whatever   *)
(* order the pollers brought them and whatever came from the other chain   *)
(* in between: a row for every hash loaded by then and no other, struck    *)
(* out exactly if it was consumed by then.  Stated for what hashes show of *)
(* themselves, and as to striking out where one entry only shows it: of    *)
(* two the replay (useDerivedState) strikes out the first one twice.  The  *)
(* contract deletes its table at each batch, the replay keeps the rows.    *)
ReplayFollowsEvents ==
    \A i \in DOMAIN events, c \in Chains : Gapless(c, i) =>
        LET known == {events[k] : k \in {j \in 1..i : events[j].chain = c}}
            rows == Range(Replay(i).table[c])
            once == {s \in Short(LoadedHashes(known)) : LoadedOnce(known, s)}
            struck == {row \in rows : row.status \in {"jc", "consumed"}}
        IN /\ {row.hash : row \in rows} = Short(LoadedHashes(known))
           /\ {row.hash : row \in struck} \cap once = Short(ConsumedHashes(known)) \cap once

(* Unless an answer came after its session: edges end at drawn nodes and   *)
(* no two nodes of a lane share a column, in any order of arrival.         *)
DiagramSound ==
    late \/
    /\ \A edge \in edges : {edge[1], edge[2]} \subseteq Existing(Diagram)
    /\ \A c \in Chains : \A a, b \in DOMAIN nodes[c] :
          nodes[c][a] = nodes[c][b] => a = b

(* Bundles are the classes of "shares an action hash", closed under going  *)
(* on from one event to the next: they partition the events, no hash       *)
(* leads out of one, and none falls apart into two.  One is complete only  *)
(* when all it loads was consumed, wherever in the list that happened.     *)
BundlesAreComponents ==
    LET all == Range(events)
        bundles == BuildTransactionBundles(events)
        Closed(es) == \A e \in es, f \in all \ es : HashesOf(e) \cap HashesOf(f) = {}
    IN /\ UNION {b.events : b \in bundles} = all
       /\ \A b \in bundles :
             /\ Closed(b.events)
             /\ \A es \in (SUBSET b.events) \ {{}, b.events} : ~Closed(es)
             /\ (b.status = "complete") <=>
                   \/ \A e \in b.events : HashesOf(e) = {}
                   \/ /\ LoadedHashes(b.events) # {}
                      /\ LoadedHashes(b.events) \subseteq ConsumedHashes(all)

Covered(c, k) ==
    /\ connected /\ k <= head[c]
    /\ \/ reads[session][c].stage = "read" /\ k <= reads[session][c].upTo
       \/ watch[c][history[c][k].name] \in 0..(k - 1)

Listed(c, k) == \E i \in DOMAIN events :
    events[i].chain = c /\ Position(events[i]) = k

(* An event that a query has read, or that was emitted after its poller    *)
(* existed, is shown sooner or later, or the user disconnects.  (One that  *)
(* was emitted after the query and before the poller is never shown.)      *)
MaxLength == Max({Len(h[c]) : h \in Histories, c \in Chains})

EveryCoveredEventShown ==
    \A c \in Chains : \A k \in 1..MaxLength :
        Covered(c, k) ~> (~connected \/ Listed(c, k))

=============================================================================
