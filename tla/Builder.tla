-------------------------------- MODULE Builder --------------------------------
(***************************************************************************)
(* The builder (builder.ts, execution-planner.ts, bundle-submitter.ts,     *)
(* mock-bundle-submitter.ts) between its own fullnode, the proofer with    *)
(* its fullnode (proofer.ts) and L1.  A request is simulated on the        *)
(* builder's node, proved on the proofer's node and submitted to L1; what  *)
(* fails is rolled back and, in some handlers, tried again.                *)
(*                                                                         *)
(* An action is the part of a handler between two waits for another        *)
(* process.  Timers may run out at any time.  L1 is Rollups.sol as far as  *)
(* the builder can tell: one postBatch per block, its entries are for that *)
(* block, and a proxy is created once.                                     *)
(*                                                                         *)
(* A definition named Mutant_X is X with a plausible mistake in it; no     *)
(* specification uses one.                                                 *)
(***************************************************************************)
EXTENDS RollupNode

CONSTANTS
    Scenarios,      \* kind of L1 and of verifier, requests made, what may go wrong
    StartHeight,    \* L2 blocks when the builder starts
    MaxAttempts,    \* bound: attempts per request (5, 20 and 30 in the code)
    MaxHeight,      \* bound: height up to which L1 has empty blocks
    MaxMishaps      \* bound: how often something goes wrong

Apis == {"submit-L2", "submit-batch", "submit-L1", "prepare-l1-call", "register-l2-hint"}

ASSUME BuilderConstants ==
    /\ \A s \in Scenarios :
          /\ s.chain \in {"bundle", "mempool", "anvil"}
          /\ s.ecdsa \in BOOLEAN /\ s.deployed \subseteq {"L1", "L2"}
          /\ s.inFlight \in Nat \ {0}
          /\ s.faults \subseteq {"rollback", "receipt", "restart", "refused"}
          /\ \A r \in DOMAIN s.requests : s.requests[r].api \in Apis
                                          /\ s.requests[r].txs \in Seq(Transaction)
    /\ StartHeight \in Nat \ {0} /\ MaxAttempts \in Nat \ {0}
    /\ MaxHeight \in Nat /\ MaxMishaps \in Nat

VARIABLES
    scenario,   \* one of Scenarios, for ever
    l1,         \* the L1 chain and its mempool
    bundles,    \* bundles that relays may still include
    node,       \* the builder's and the proofer's fullnode
    req,        \* the requests
    cache,      \* prepareL1Cache: the calls prepared, each with the root then
    hints,      \* recentL1ToL2Hints
    registered, \* l2HintTable: whether it has the L1 target of withdrawals
    mishaps     \* faults so far

vars == <<scenario, l1, bundles, node, req, cache, hints, registered, mishaps>>

Requests  == DOMAIN scenario.requests
Api(r)    == scenario.requests[r].api
Txs(r)    == scenario.requests[r].txs
IsAnvilL1 == scenario.chain = "anvil"
HasBundles == scenario.chain = "bundle"
Mishap(fault) == fault \in scenario.faults /\ mishaps < MaxMishaps

-----------------------------------------------------------------------------
(* L1. *)

(* All withdrawals go through one proxy on L2. *)
ProxyDeploy == [kind |-> "deploy", name |-> "proxy"]
Past ==
    <<[kind |-> "tx", name |-> "past"]>>
      \o IF "L2" \in scenario.deployed THEN <<ProxyDeploy>> ELSE <<>>
RootOf(log) == IF log = <<>> THEN Past ELSE Last(log).newState
L1Root == RootOf(l1.log)

(* Signed L1 transactions.  A proof asked for without a block has block 0. *)
Post(nonce, plan, proof) ==
    [act |-> "post", by |-> "builder", nonce |-> nonce, plan |-> plan, proof |-> proof]
Exec(by, nonce, event) == [act |-> "exec", by |-> by, nonce |-> nonce, event |-> event]
Deploy(nonce, proxy) == [act |-> "deploy", by |-> "builder", nonce |-> nonce, proxy |-> proxy]

(* A proxy on L1 stands for the L2 target of a call; every call has its    *)
(* own.  All withdrawals are for one target of L1, and share its alias.    *)
Alias == "alias"
Proxy(event) == IF event.kind = "withdrawal" THEN Alias ELSE event.name

Included(tx) == \E m \in l1.mined : m.tx = tx
Succeeded(tx) == [tx |-> tx, ok |-> TRUE] \in l1.mined

(* MockZKVerifier takes any proof; a signature is over the block number.   *)
Verifies(proof, height) == proof = IF scenario.ecdsa THEN height ELSE 0

(* A block takes one batch: its entries are there, or were used in it.     *)
HasBatch(height, state) ==
    state.table # <<>> \/ (state.log # <<>> /\ Last(state.log).block = height)

(* One transaction in the block at that height. *)
Execute(height, state, tx) ==
    LET used    == [state EXCEPT !.nonce = IF tx.by = "builder" THEN @ + 1 ELSE @]
        matches == {e \in ToSet(state.table) :
                       /\ tx.act = "exec" /\ e.event = tx.event /\ e.from = RootOf(state.log)
                       /\ e.event.kind = "call" => Proxy(e.event) \in state.proxies}
        ok      == /\ IF tx.by = "builder" THEN tx.nonce = state.nonce
                      ELSE \A m \in state.mined : m.tx # tx
                   /\ CASE tx.act = "post"   -> ~HasBatch(height, state) /\ Verifies(tx.proof, height)
                        [] tx.act = "deploy" -> tx.proxy \notin state.proxies
                        [] tx.act = "exec"   -> matches # {}
        marked  == [used EXCEPT !.mined = @ \cup {[tx |-> tx, ok |-> ok]}]
    IN IF ~ok THEN [marked EXCEPT !.failed = TRUE]
       ELSE IF tx.act = "post" THEN [marked EXCEPT !.table = tx.plan]
       ELSE IF tx.act = "deploy" THEN [marked EXCEPT !.proxies = @ \cup {tx.proxy}]
       ELSE LET e == CHOOSE e \in matches : TRUE
            IN [marked EXCEPT
                  !.table = SelectSeq(@, LAMBDA x : x # e),
                  !.log = Append(@, [kind |-> e.event.kind, name |-> e.event.name,
                                     currentState |-> e.from, newState |-> e.to,
                                     block |-> height])]

(* The L1 chain after one more block with these transactions. *)
WithBlock(txs) ==
    FoldLeft(LAMBDA s, tx : Execute(l1.height + 1, s, tx),
             [l1 EXCEPT !.height = @ + 1, !.table = <<>>, !.failed = FALSE,
                        !.pool = SelectSeq(@, LAMBDA tx : tx \notin ToSet(txs))],
             txs)

LiveAt(height) == {b \in bundles : b.last >= height}

(* A relay includes a bundle as a whole, and only if nothing in it fails. *)
LandBundle ==
    \E b \in bundles :
        /\ l1.height + 1 \in b.first..b.last
        /\ ~WithBlock(b.txs).failed
        /\ l1' = WithBlock(b.txs)
        /\ bundles' = LiveAt(l1.height + 2) \ {b}
        /\ UNCHANGED <<scenario, node, req, cache, hints, registered, mishaps>>

EmptyBlock ==
    /\ ~IsAnvilL1 /\ l1.height < MaxHeight
    /\ l1' = WithBlock(<<>>)
    /\ bundles' = LiveAt(l1.height + 2)
    /\ UNCHANGED <<scenario, node, req, cache, hints, registered, mishaps>>

(* Transactions of the mempool land in one block or in several; those of   *)
(* the builder in the order of their nonces.                               *)
MineMempool ==
    /\ ~IsAnvilL1
    /\ \E indices \in SUBSET DOMAIN l1.pool :
          LET sorted == SetToSortSeq(indices, LAMBDA i, j : i < j)
              txs    == [i \in DOMAIN sorted |-> l1.pool[sorted[i]]]
              builders == SelectSeq(txs, LAMBDA tx : tx.by = "builder")
          IN /\ indices # {}
             /\ \A i \in DOMAIN builders : builders[i].nonce = l1.nonce + i - 1
             /\ \E order \in {txs, builders \o SelectSeq(txs, LAMBDA tx : tx.by # "builder")} :
                   l1' = WithBlock(order)
    /\ bundles' = LiveAt(l1.height + 2)
    /\ UNCHANGED <<scenario, node, req, cache, hints, registered, mishaps>>

(* Anvil mines what it gets, unless mining is off. *)
Broadcasted(txs) ==
    IF IsAnvilL1 /\ l1.automine THEN WithBlock(l1.pool \o txs) ELSE [l1 EXCEPT !.pool = @ \o txs]

(* Whoever prepared a call sends it. *)
UserCalls(r) ==
    /\ Api(r) = "prepare-l1-call" /\ ~HasBundles
    /\ req[r].pc = "done" /\ req[r].ok
    /\ LET tx == Exec(r, 0, Txs(r)[1])
       IN /\ ~Included(tx) /\ tx \notin ToSet(l1.pool)
          /\ l1' = Broadcasted(<<tx>>)
    /\ UNCHANGED <<scenario, bundles, node, req, cache, hints, registered, mishaps>>

-----------------------------------------------------------------------------
(* The two fullnodes. *)

Nodes == {"builder", "proofer"}

Poll(n) ==
    /\ node[n].seen < Len(l1.log)
    /\ node' = [node EXCEPT ![n] = Follow(@, l1.log)]
    /\ UNCHANGED <<scenario, l1, bundles, req, cache, hints, registered, mishaps>>

(* A node that has the root it persisted resumes. *)
Restart(n) ==
    /\ Mishap("restart")
    /\ node[n].seen = Len(l1.log) /\ Actual(node[n]) = node[n].tracked
    /\ node' = [node EXCEPT ![n] = Resumed(@)]
    /\ mishaps' = mishaps + 1
    /\ UNCHANGED <<scenario, l1, bundles, req, cache, hints, registered>>

(* What may come of a rollback that is asked for. *)
RolledBack(n, target) ==
    {[node |-> m, missed |-> 0] : m \in Rollback(n, target)}
        \cup (IF Mishap("rollback")
              THEN {[node |-> m, missed |-> 1] : m \in RollbackMisses(n, target)} ELSE {})

(* syncrollups_getTrackedL2Block, and back to it unless the EVM is there. *)
Realigned(n) ==
    IF Actual(n) = n.tracked THEN {[node |-> n, missed |-> 0]} ELSE RolledBack(n, n.trackedBlock)

-----------------------------------------------------------------------------
(* Requests. *)

NewRequest == [pc |-> "new", attempt |-> 1, root |-> <<>>, snapshot |-> 0, mark |-> 0,
               plan |-> <<>>, hints |-> <<>>, proof |-> 0, txs |-> <<>>, last |-> 0, deploys |-> FALSE,
               ok |-> FALSE, polling |-> FALSE]

Init ==
    /\ scenario \in Scenarios
    /\ l1 = [height |-> 0, log |-> <<>>, table |-> <<>>, nonce |-> 0, mined |-> {},
             failed |-> FALSE, pool |-> <<>>, automine |-> TRUE,
             proxies |-> IF "L1" \in scenario.deployed
                         THEN {Proxy(t) : t \in UNION {ToSet(Txs(r)) : r \in Requests}} ELSE {}]
    /\ bundles = {}
    /\ LET chain == [i \in 1..StartHeight |-> IF i = 1 THEN Past ELSE <<>>]
       IN node = [n \in Nodes |-> NodeOf(chain, Past, StartHeight)]
    /\ req = [r \in Requests |-> NewRequest]
    /\ cache = {}
    /\ hints = <<>>
    /\ registered = FALSE
    /\ mishaps = 0

(* Request r goes on to pc, or is answered. *)
At(r, pc) == req[r].pc = pc
Becomes(r, new) == req' = [req EXCEPT ![r] = new]
Go(r, pc) == Becomes(r, [req[r] EXCEPT !.pc = pc])
Done(r, ok) == Becomes(r, [req[r] EXCEPT !.pc = "done", !.ok = ok])
Active == {r \in Requests : req[r].pc \notin {"new", "done"}}

(* Node n becomes one of these outcomes. *)
NodeIs(n, outcome) ==
    /\ node' = [node EXCEPT ![n] = outcome.node]
    /\ mishaps' = mishaps + outcome.missed

(* isTrackedStateSynced *)
Synced == node["builder"].tracked = L1Root

(* Requests arrive in any order and wait for their turn. *)
Arrived(r) == At(r, "new") /\ Cardinality(Active) < scenario.inFlight

(* A request is refused if the node is not synced within ten seconds.      *)
(* Batches are not asked about.                                            *)
NotSynced(r) ==
    /\ Arrived(r) /\ Api(r) \in {"submit-L2", "submit-L1", "prepare-l1-call"} /\ ~Synced
    /\ Done(r, FALSE)
    /\ UNCHANGED <<scenario, l1, bundles, node, cache, hints, registered, mishaps>>

Admit(r) ==
    Becomes(r, [req[r] EXCEPT !.pc = "accepted", !.root = L1Root,
                              !.deploys = /\ Txs(r)[1].kind = "call"
                                         /\ Proxy(Txs(r)[1]) \notin l1.proxies])

HandleSubmit(r) ==
    /\ Arrived(r) /\ Api(r) \in {"submit-L2", "submit-L1"} /\ Synced /\ Txs(r) # <<>>
    /\ Admit(r)
    /\ UNCHANGED <<scenario, l1, bundles, node, cache, hints, registered, mishaps>>

(* A transaction of L1 with no L2 target named is passed on as it is, and  *)
(* reported as a success unless L1 refuses it.                             *)
BroadcastPlain(r) ==
    /\ Arrived(r) /\ Api(r) = "submit-L1" /\ Synced /\ Txs(r) = <<>>
    /\ \E accepted \in BOOLEAN : Done(r, accepted)
    /\ UNCHANGED <<scenario, l1, bundles, node, cache, hints, registered, mishaps>>

HandleSubmitBatch(r) ==
    /\ Arrived(r) /\ Api(r) = "submit-batch"
    /\ Admit(r)
    /\ UNCHANGED <<scenario, l1, bundles, node, cache, hints, registered, mishaps>>

(* Preparations are forgotten after ten minutes. *)
PrunedCaches == SUBSET cache

(* A call that was prepared at this root is not prepared again. *)
PrepareL1CacheKey(r) == Txs(r)[1]
Reusable(r, prepared) == <<PrepareL1CacheKey(r), L1Root>> \in prepared
HandlePrepareL1Call(r) ==
    /\ Arrived(r) /\ Api(r) = "prepare-l1-call" /\ Synced
    /\ cache' \in PrunedCaches
    /\ IF Reusable(r, cache') THEN Done(r, TRUE) ELSE Admit(r)
    /\ UNCHANGED <<scenario, l1, bundles, node, hints, registered, mishaps>>

HandleRegisterL2Hint(r) ==
    /\ Arrived(r) /\ Api(r) = "register-l2-hint"
    /\ registered' = TRUE
    /\ Done(r, TRUE)
    /\ UNCHANGED <<scenario, l1, bundles, node, cache, hints, mishaps>>

(* The proxy for the target of a call is deployed before the call is       *)
(* prepared.  For a transaction of L1 it goes into the bundle; without     *)
(* bundles it is deployed before the batch is posted.                      *)
PendingNonces ==
    {tx.nonce : tx \in {tx \in ToSet(l1.pool) : tx.by = "builder" /\ tx.nonce >= l1.nonce}}
PendingNonce  == l1.nonce + Cardinality(PendingNonces)
DeployProxy(r) ==
    /\ \/ At(r, "accepted") /\ Api(r) = "prepare-l1-call" /\ req[r].deploys
       \/ At(r, "proved") /\ Api(r) = "submit-L1" /\ scenario.chain = "mempool" /\ req[r].deploys
    /\ LET tx == Deploy(PendingNonce, Proxy(Txs(r)[1]))
       IN /\ l1' = Broadcasted(<<tx>>)
          /\ Becomes(r, [req[r] EXCEPT !.pc = "deploying", !.txs = <<tx>>])
    /\ UNCHANGED <<scenario, bundles, node, cache, hints, registered, mishaps>>

(* tx.wait(): the handler goes on where it was, or fails, also when the    *)
(* nonce was used by a bundle that was given up.                           *)
Settled(tx) == Included(tx) \/ tx.nonce < l1.nonce
ProxyDeployed(r) ==
    /\ At(r, "deploying") /\ Settled(req[r].txs[1])
    /\ IF Succeeded(req[r].txs[1])
       THEN Becomes(r, [req[r] EXCEPT !.deploys = FALSE,
                           !.pc = IF Api(r) = "prepare-l1-call" THEN "accepted" ELSE "proved"])
       ELSE Done(r, FALSE)
    /\ UNCHANGED <<scenario, l1, bundles, node, cache, hints, registered, mishaps>>

(* On a real chain the EVM goes back to the tracked root, before an L2     *)
(* transaction and before a call is prepared.  The snapshot is taken after *)
(* that for the one, before it for the other.                              *)
EnsureEvm(r) ==
    /\ At(r, "accepted") /\ ~IsAnvilL1 /\ Api(r) = "submit-L2"
    /\ \E outcome \in Realigned(node["builder"]) :
          /\ NodeIs("builder", outcome)
          /\ Becomes(r, [req[r] EXCEPT !.pc = "ready", !.snapshot = Height(outcome.node)])
    /\ UNCHANGED <<scenario, l1, bundles, cache, hints, registered>>

EnsureEvmForCall(r) ==
    /\ At(r, "accepted") /\ ~IsAnvilL1 /\ Api(r) = "prepare-l1-call" /\ ~req[r].deploys
    /\ \E outcome \in Realigned(node["builder"]) : NodeIs("builder", outcome)
    /\ Becomes(r, [req[r] EXCEPT !.pc = "ready", !.snapshot = Height(node["builder"])])
    /\ UNCHANGED <<scenario, l1, bundles, cache, hints, registered>>

(* The EVM stays where it is before a batch, a transaction of L1, and on   *)
(* Anvil.                                                                  *)
TakeSnapshot(r) ==
    /\ At(r, "accepted")
    /\ \/ Api(r) \in {"submit-batch", "submit-L1"} \/ (IsAnvilL1 /\ Api(r) = "submit-L2")
       \/ IsAnvilL1 /\ Api(r) = "prepare-l1-call" /\ ~req[r].deploys
    /\ Becomes(r, [req[r] EXCEPT !.pc = "ready", !.snapshot = Height(node["builder"])])
    /\ UNCHANGED <<scenario, l1, bundles, node, cache, hints, registered, mishaps>>

-----------------------------------------------------------------------------
(* Planning, on the builder's node.                                        *)

Entry(t, from, to) ==
    [event |-> [kind |-> t.kind, name |-> t.name], from |-> from, to |-> to, data |-> FALSE]
Planned(answer, entries) == [node |-> answer.node, ok |-> answer.ok, plan |-> entries]

PlanL2Transaction(n, t) ==
    LET s == SimulateAction(n, t) IN Planned(s, <<Entry(t, L1Root, s.root)>>)
SpeculatePlanL2Transaction(n, t) ==
    LET s == SpeculateAction(n, t)
    IN Planned(s, <<[Entry(t, L1Root, s.root) EXCEPT !.data = s.data]>>)

(* The proxy has no code yet. *)
NeedsProxy(n) == ProxyDeploy \notin ToSet(Actual(n))

(* The operator loads the result that the call has when it is simulated on *)
(* L1.                                                                     *)
Preload(t) == [kind |-> "preload", name |-> t.name]

(* A withdrawal: the proxy is deployed if need be, the entry for the call  *)
(* is loaded and the transaction simulated.  The deployment is planned     *)
(* with no result data.                                                    *)
PlanL2ToL1Call(n, t) ==
    LET needed == NeedsProxy(n)
        d == IF needed THEN SimulateAction(n, ProxyDeploy) ELSE Answer(n, TRUE, L1Root)
        w == SimulateAction(SystemCall(d.node, Preload(t)), t)
    IN IF ~d.ok THEN Planned(d, <<>>)
       ELSE Planned(w, (IF needed THEN <<Entry(ProxyDeploy, L1Root, d.root)>> ELSE <<>>)
                          \o <<Entry(t, d.root, w.root)>>)

(* The first entry carries the transition of the whole batch. *)
PlanL2Batch(n, txs) ==
    LET s == SimulateBatch(n, txs)
    IN Planned(s, [i \in DOMAIN txs |-> Entry(txs[i], IF i = 1 THEN L1Root ELSE s.root, s.root)])

(* Of a call from L1 the state before it is the node's tracked root. *)
PlanL1ToL2Call(n, t) ==
    LET s == SimulateL1Call(n, t) IN Planned(s, <<Entry(t, n.tracked, s.root)>>)

(* The plan that was made is proved next, or the request fails. *)
Made(r, plan, failing) ==
    /\ At(r, "ready")
    /\ node' = [node EXCEPT !["builder"] = plan.node]
    /\ IF plan.ok THEN Becomes(r, [req[r] EXCEPT !.pc = "planned", !.plan = plan.plan,
                                       !.hints = IF Api(r) = "submit-L2" THEN hints ELSE <<>>])
       ELSE failing
    /\ UNCHANGED <<scenario, l1, bundles, cache, hints, registered, mishaps>>

(* A transaction is known for a withdrawal if its target is registered. *)
IsWithdrawal(t) == t.kind = "withdrawal" /\ registered

(* An L2 transaction has its simulation undone when that fails. *)
PlanL2(r) ==
    LET n == node["builder"]
        t == Txs(r)[1]
        plain == [t EXCEPT !.kind = "tx"]
        plan == CASE IsWithdrawal(t) -> PlanL2ToL1Call(n, t)
                  [] scenario.ecdsa /\ ~IsAnvilL1 -> SpeculatePlanL2Transaction(n, plain)
                  [] OTHER -> PlanL2Transaction(n, plain)
    IN Api(r) = "submit-L2" /\ Made(r, plan, Go(r, "failed"))

PlanBatch(r) ==
    Api(r) = "submit-batch" /\ Made(r, PlanL2Batch(node["builder"], Txs(r)), Done(r, FALSE))

(* A call that fails when simulated is not tried again, nor undone. *)
PlanL1(r) ==
    /\ Api(r) = "submit-L1"
    /\ Made(r, PlanL1ToL2Call(node["builder"], Txs(r)[1]), Done(r, FALSE))
PlanPrepared(r) ==
    /\ Api(r) = "prepare-l1-call" /\ ~IsAnvilL1
    /\ Made(r, PlanL1ToL2Call(node["builder"], Txs(r)[1]), Done(r, FALSE))
PlanPreparedOnAnvil(r) ==
    /\ Api(r) = "prepare-l1-call" /\ IsAnvilL1
    /\ Made(r, PlanL1ToL2Call(node["builder"], Txs(r)[1]), Done(r, FALSE))

-----------------------------------------------------------------------------
(* Proving, on the proofer's node.                                         *)

Mutant_TrustsPlan(n, plan) == Answer(n, plan # <<>>, plan[1].to)

(* A call is simulated by mining it. *)
VerifyCall(n, e) ==
    LET s == SimulateL1Call(n, e.event) IN Answer(s.node, s.ok /\ s.root = e.to, s.root)

(* What follows on L1 when an L2 transaction is executed there is compared *)
(* with the answer, unless it is a call.                                   *)
SameResult(answer, e) == e.event.kind = "withdrawal" \/ answer.data = e.data

(* Other transactions are simulated in a block that is not committed. *)
VerifyL2TX(n, e) ==
    LET s == SpeculateAction(n, e.event)
    IN Answer(s.node, s.ok /\ s.root = e.to /\ SameResult(s, e), s.root)

VerifyEntry(n, e) == IF e.event.kind = "call" THEN VerifyCall(n, e) ELSE VerifyL2TX(n, e)

(* The entries one after the other, those that change nothing excepted;    *)
(* that for the call of a withdrawal is loaded in a block before it.       *)
VerifyEntries(n, plan) ==
    LET Loaded(m, e) == IF e.event.kind = "withdrawal" THEN SystemCall(m, Preload(e.event)) ELSE m
    IN FoldLeft(LAMBDA done, e : IF ~done.ok \/ e.from = e.to THEN done
                                 ELSE VerifyEntry(Loaded(done.node, e), e),
                Answer(n, TRUE, n.tracked), plan)

VerifyBatch(n, plan) ==
    LET s == SimulateBatch(n, [i \in DOMAIN plan |-> plan[i].event])
    IN Answer(s.node, s.ok /\ s.root = plan[1].to, s.root)

(* applyHint: whether the call fails is not asked. *)
ApplyHint(n, call) == SimulateL1Call(n, call).node
ApplyHints(n, calls) == FoldLeft(ApplyHint, n, calls)

Verify(r, n) ==
    IF Api(r) = "submit-batch" THEN VerifyBatch(n, req[r].plan) ELSE VerifyEntries(n, req[r].plan)

(* The builder waits for the proofer's node if it takes less than two      *)
(* minutes, and asks; the proofer notes where to go back to.               *)
RequestProof(r, block) ==
    /\ At(r, "planned")
    /\ Becomes(r, [req[r] EXCEPT !.pc = "proving", !.proof = block, !.mark = Height(node["proofer"])])
    /\ UNCHANGED <<scenario, l1, bundles, node, cache, hints, registered, mishaps>>

(* Under the ECDSA verifier an L2 transaction, and a call that is prepared *)
(* for a real chain, get a proof for the next block.  Batches,             *)
(* transactions of L1 and calls prepared on Anvil never do.                *)
TargetBlock == l1.height + 1
AskForAnyBlock(r) ==
    /\ Api(r) \in {"submit-L2", "submit-L1"} /\ (Api(r) = "submit-L2" => ~scenario.ecdsa)
    /\ RequestProof(r, 0)
AskForBatch(r) == Api(r) = "submit-batch" /\ RequestProof(r, 0)
AskForCallInAnyBlock(r) ==
    /\ Api(r) = "prepare-l1-call" /\ (scenario.ecdsa => IsAnvilL1)
    /\ RequestProof(r, 0)
AskForBundle(r) ==
    /\ scenario.ecdsa /\ Api(r) = "submit-L2" /\ scenario.chain # "mempool"
    /\ RequestProof(r, TargetBlock)
AskForBroadcast(r) ==
    /\ scenario.ecdsa /\ Api(r) = "submit-L2" /\ scenario.chain = "mempool"
    /\ RequestProof(r, TargetBlock)
AskForCall(r) ==
    /\ scenario.ecdsa /\ Api(r) = "prepare-l1-call" /\ ~IsAnvilL1
    /\ RequestProof(r, TargetBlock)

(* What a request does that the proofer has rejected.  A transaction of L1 *)
(* is planned again only if the proofer speaks of a state mismatch; since  *)
(* its call went through in the plan, it does so whenever it rejects.      *)
Rejected(r) ==
    CASE Api(r) = "submit-L2" -> Go(r, "failed")
      [] Api(r) = "submit-L1" \/ (Api(r) = "prepare-l1-call" /\ ~IsAnvilL1) -> Go(r, "undo")
      [] OTHER -> Done(r, FALSE)

(* The node is taken back, if that works, to where it was. *)
TakenBack(n, mark) == RolledBack(n, mark)

(* What was verified stays on the proofer's node, and the hints are spent. *)
Sign(r) ==
    /\ Becomes(r, [req[r] EXCEPT !.pc = "proved", !.hints = <<>>])
    /\ hints' = IF req[r].hints # <<>> THEN <<>> ELSE hints

(* handleProve.  After a rejection the node is taken back, unless it was   *)
(* not at the state the first entry needs and there were no hints.         *)
Prove(r) ==
    /\ At(r, "proving")
    /\ LET required == req[r].plan[1].from
           p == node["proofer"]
       IN \E start \in (IF p.tracked = required THEN Realigned(p) ELSE {[node |-> p, missed |-> 0]}) :
             LET hinted   == Actual(start.node) # required /\ req[r].hints # <<>>
                 advanced == IF hinted THEN ApplyHints(start.node, req[r].hints) ELSE start.node
                 verdict  == IF Actual(advanced) # required THEN Answer(advanced, FALSE, <<>>)
                             ELSE Verify(r, advanced)
             IN CASE verdict.ok -> NodeIs("proofer", [start EXCEPT !.node = verdict.node]) /\ Sign(r)
                  [] Actual(start.node) # required /\ ~hinted ->
                       NodeIs("proofer", start) /\ Rejected(r) /\ UNCHANGED hints
                  [] OTHER ->
                       /\ \E back \in TakenBack(verdict.node, req[r].mark) :
                             NodeIs("proofer", [back EXCEPT !.missed = @ + start.missed])
                       /\ Rejected(r) /\ UNCHANGED hints
    /\ UNCHANGED <<scenario, l1, bundles, cache, registered>>

-----------------------------------------------------------------------------
(* Submission to L1.                                                       *)

Mutant_SignsOneLess(nonce, plan) ==
    [i \in 1..Len(plan) - 1 |-> Exec("builder", nonce + i - 1, plan[i].event)]

(* executeL2TX for every entry, from this nonce on. *)
Executions(nonce, plan) == [i \in DOMAIN plan |-> Exec("builder", nonce + i - 1, plan[i].event)]

(* What an L2 transaction takes: the alias of its L1 target if it is a     *)
(* withdrawal to one that has none, the batch, and its executions.         *)
SignedForL2(r, nonce) ==
    LET plan  == req[r].plan
        alias == IF Last(plan).event.kind = "withdrawal" /\ Alias \notin l1.proxies
                 THEN <<Deploy(nonce, Alias)>> ELSE <<>>
        post  == nonce + Len(alias)
    IN alias \o <<Post(post, plan, req[r].proof)>> \o Executions(post + 1, plan)

(* A transaction in a mempool of the same nonce is not looked for. *)
BundleOfL2(r)    == SignedForL2(r, PendingNonce)
BroadcastOfL2(r) == SignedForL2(r, l1.nonce)

(* A batch of L2 transactions. *)
SignedForBatch(r) ==
    <<Post(PendingNonce, req[r].plan, req[r].proof)>> \o Executions(PendingNonce + 1, req[r].plan)

(* The user signed the transaction of L1. *)
UserTx(r) == Exec(r, 0, req[r].plan[1].event)
SignedForL1(r) ==
    LET proxy == IF req[r].deploys THEN <<Deploy(PendingNonce, Proxy(Txs(r)[1]))>> ELSE <<>>
    IN proxy \o <<Post(PendingNonce + Len(proxy), req[r].plan, req[r].proof), UserTx(r)>>

(* A prepared call is made by the builder's wallet in the bundle, or by    *)
(* the user, later.                                                        *)
SignedForCall(r) ==
    <<Post(l1.nonce, req[r].plan, req[r].proof)>>
      \o IF HasBundles THEN Executions(l1.nonce + 1, req[r].plan) ELSE <<>>

Hinted(r) == hints' = Append(hints, req[r].plan[1].event)

Bundle(r) == CASE Api(r) = "submit-L2"       -> BundleOfL2(r)
               [] Api(r) = "submit-batch"    -> SignedForBatch(r)
               [] Api(r) = "submit-L1"       -> SignedForL1(r)
               [] Api(r) = "prepare-l1-call" -> SignedForCall(r)

(* submitAndWait: a bundle for each of the next three blocks. *)
SendBundle(r) ==
    /\ HasBundles
    /\ bundles' = bundles \cup {[txs |-> Bundle(r), first |-> l1.height + 1, last |-> l1.height + 3]}
    /\ Becomes(r, [req[r] EXCEPT !.pc = "waiting", !.txs = Bundle(r), !.last = l1.height + 3])
    /\ UNCHANGED <<l1, cache, hints>>

(* L1 may refuse the transaction that a user has signed.                   *)
Refusal(r) == Api(r) = "submit-L1" /\ Mishap("refused")

(* MockBundleSubmitter mines whatever is pending in one block, counts the  *)
(* transactions in it, and turns mining on again.  It goes by the number:  *)
(* one that was refused is missed only if no other was pending.            *)
MineBundle(r) ==
    /\ IsAnvilL1 /\ Api(r) # "prepare-l1-call"
    /\ \E sent \in {Bundle(r)} \cup (IF Refusal(r) THEN {Front(Bundle(r))} ELSE {}) :
          LET block == l1.pool \o sent
          IN /\ l1' = [WithBlock(block) EXCEPT !.automine = TRUE]
             /\ mishaps' = IF sent = Bundle(r) THEN mishaps ELSE mishaps + 1
             /\ IF Len(block) >= Len(Bundle(r)) THEN Done(r, TRUE) ELSE Go(r, "undo")
    /\ UNCHANGED <<bundles, cache, hints>>

(* A call is prepared on Anvil: mining is off until the poller sees the    *)
(* user's transaction.                                                     *)
PostPrepared(r) ==
    /\ IsAnvilL1 /\ Api(r) = "prepare-l1-call"
    /\ IF l1.nonce \in PendingNonces
       THEN l1' = [l1 EXCEPT !.automine = TRUE] /\ Done(r, FALSE) /\ UNCHANGED cache
       ELSE /\ l1' = [l1 EXCEPT !.automine = FALSE, !.pool = @ \o SignedForCall(r)]
            /\ Becomes(r, [req[r] EXCEPT !.pc = "done", !.ok = TRUE, !.polling = TRUE])
            /\ cache' = {c \in cache : c[1] # PrepareL1CacheKey(r)}
                          \cup {<<PrepareL1CacheKey(r), req[r].root>>}
    /\ UNCHANGED <<bundles, hints>>

(* On other chains everything goes to the mempool, which refuses a nonce   *)
(* it has.                                                                 *)
Broadcast(txs) == l1' = [l1 EXCEPT !.pool = @ \o SelectSeq(txs, LAMBDA tx : tx.nonce \notin PendingNonces)]
Refused(txs)   == \E tx \in ToSet(txs) : tx.nonce \in PendingNonces
Await(r, txs)  == Becomes(r, [req[r] EXCEPT !.pc = "waiting", !.txs = txs])

BroadcastL2(r) ==
    /\ Api(r) = "submit-L2"
    /\ Broadcast(BroadcastOfL2(r))
    /\ IF Refused(BroadcastOfL2(r)) THEN Go(r, "failed") ELSE Await(r, BroadcastOfL2(r))
    /\ UNCHANGED hints

BroadcastBatch(r) ==
    /\ Api(r) = "submit-batch"
    /\ Broadcast(SignedForBatch(r)) /\ Await(r, SignedForBatch(r))
    /\ UNCHANGED hints

(* The user's transaction has to wait for the batch to be mined. *)
PostBatchOnL1(r) ==
    /\ Api(r) = "submit-L1" /\ ~req[r].deploys
    /\ LET post == <<Post(PendingNonce, req[r].plan, req[r].proof)>>
       IN Broadcast(post) /\ Await(r, post)
    /\ UNCHANGED hints

BroadcastPrepared(r) ==
    /\ Api(r) = "prepare-l1-call"
    /\ Broadcast(SignedForCall(r))
    /\ IF Refused(SignedForCall(r)) THEN Done(r, FALSE) /\ UNCHANGED hints
       ELSE Done(r, TRUE) /\ Hinted(r)

ToMempool(r) ==
    /\ scenario.chain = "mempool"
    /\ BroadcastL2(r) \/ BroadcastBatch(r) \/ PostBatchOnL1(r) \/ BroadcastPrepared(r)
    /\ UNCHANGED <<bundles, cache>>

Submit(r) ==
    /\ At(r, "proved")
    /\ \/ MineBundle(r)
       \/ (SendBundle(r) \/ PostPrepared(r) \/ ToMempool(r)) /\ UNCHANGED mishaps
    /\ UNCHANGED <<scenario, node, registered>>

(* waitForInclusion finds the receipt of the first transaction; a call is  *)
(* kept for the proofer.                                                   *)
FoundReceipt(r) ==
    /\ At(r, "waiting") /\ HasBundles /\ Included(req[r].txs[1])
    /\ Done(r, TRUE)
    /\ UNCHANGED <<scenario, l1, bundles, node, cache, registered, mishaps>>
LandedL2(r)       == Api(r) = "submit-L2" /\ FoundReceipt(r) /\ UNCHANGED hints
LandedBatch(r)    == Api(r) = "submit-batch" /\ FoundReceipt(r) /\ UNCHANGED hints
LandedL1(r)       == Api(r) = "submit-L1" /\ FoundReceipt(r) /\ UNCHANGED hints
LandedPrepared(r) == Api(r) = "prepare-l1-call" /\ FoundReceipt(r) /\ Hinted(r)
Landed(r) == LandedL2(r) \/ LandedBatch(r) \/ LandedL1(r) \/ LandedPrepared(r)

(* An L2 transaction with a proof per block gets a new proof for the plan. *)
ProvesAgain(r) == Api(r) = "submit-L2" /\ scenario.ecdsa /\ req[r].attempt < MaxAttempts

Mutant_ExpiresAfterBlocks(r) == ~Included(req[r].txs[1]) /\ l1.height > req[r].last

(* waitForInclusion has an end: 24 seconds, or the last of the blocks.     *)
Expired(r) == ~Included(req[r].txs[1])

(* The receipt is not there, or cannot be read after the last block.       *)
GiveUp(r) ==
    /\ At(r, "waiting") /\ HasBundles
    /\ \/ Expired(r) /\ UNCHANGED mishaps
       \/ /\ Included(req[r].txs[1]) /\ l1.height > req[r].last /\ Mishap("receipt")
          /\ mishaps' = mishaps + 1
    /\ IF ProvesAgain(r)
       THEN Becomes(r, [req[r] EXCEPT !.pc = "planned", !.attempt = @ + 1])
       ELSE Rejected(r)
    /\ UNCHANGED <<scenario, l1, bundles, node, cache, hints, registered>>

(* Transactions in the mempool are waited for without a limit. *)
AllSucceeded(r) == \A tx \in ToSet(req[r].txs) : Succeeded(tx)
OneFailed(r)    == \E tx \in ToSet(req[r].txs) : Included(tx) /\ ~Succeeded(tx)

ConfirmL2(r) ==
    /\ Api(r) = "submit-L2" /\ UNCHANGED <<l1, mishaps>>
    /\ \/ AllSucceeded(r) /\ Done(r, TRUE)
       \/ OneFailed(r) /\ Go(r, "failed")
ConfirmBatch(r) ==
    /\ Api(r) = "submit-batch" /\ UNCHANGED <<l1, mishaps>>
    /\ \/ AllSucceeded(r) /\ Done(r, TRUE)
       \/ OneFailed(r) /\ Done(r, FALSE)

(* The user's transaction of L1 is sent, and reported as a success unless  *)
(* L1 refuses it; nothing is taken back.                                   *)
BroadcastUserTx(r) ==
    /\ Api(r) = "submit-L1"
    /\ \/ AllSucceeded(r) /\ Done(r, TRUE) /\ l1' = Broadcasted(<<UserTx(r)>>) /\ UNCHANGED mishaps
       \/ AllSucceeded(r) /\ Refusal(r) /\ Done(r, FALSE) /\ UNCHANGED l1 /\ mishaps' = mishaps + 1
       \/ OneFailed(r) /\ Done(r, FALSE) /\ UNCHANGED <<l1, mishaps>>

Confirmed(r) ==
    /\ At(r, "waiting") /\ scenario.chain = "mempool"
    /\ ConfirmL2(r) \/ ConfirmBatch(r) \/ BroadcastUserTx(r)
    /\ UNCHANGED <<scenario, bundles, node, cache, hints, registered>>

(* The proofer is asked to go back to its tracked root. *)
ProoferRollback == Realigned(node["proofer"])

(* An L2 transaction that failed: both nodes are taken back, the builder's *)
(* by a block number in decimal.                                           *)
Fail(r) ==
    /\ At(r, "failed")
    /\ \E own \in (IF IsAnvilL1 THEN {node["builder"]}
                   ELSE RevertToDecimal(node["builder"], req[r].snapshot)),
          other \in ProoferRollback :
          /\ node' = [n \in Nodes |-> IF n = "builder" THEN own ELSE other.node]
          /\ mishaps' = mishaps + other.missed
    /\ Done(r, FALSE)
    /\ UNCHANGED <<scenario, l1, bundles, cache, hints, registered>>

(* A call that failed: only the builder's node is taken back, and the call *)
(* is planned again.                                                       *)
Undo(r) ==
    /\ At(r, "undo")
    /\ \E outcome \in (IF Api(r) = "submit-L1"
                       THEN {[node |-> n, missed |-> 0] :
                                n \in RevertToDecimal(node["builder"], req[r].snapshot)}
                       ELSE RolledBack(node["builder"], req[r].snapshot)) :
          NodeIs("builder", outcome)
    /\ IF req[r].attempt < MaxAttempts
       THEN Becomes(r, [req[r] EXCEPT !.pc = "accepted", !.attempt = @ + 1])
       ELSE Done(r, FALSE)
    /\ UNCHANGED <<scenario, l1, bundles, cache, hints, registered>>

Mutant_ForgetsAutomine(r) ==
    /\ req[r].polling
    /\ l1' = [WithBlock(l1.pool) EXCEPT !.automine = Len(l1.pool) >= 2]
    /\ req' = [req EXCEPT ![r].polling = FALSE]
    /\ UNCHANGED <<scenario, bundles, node, cache, hints, registered, mishaps>>

(* waitForUserTxAndMine: two transactions are pending, or a minute passed. *)
PollerMines(r) ==
    /\ req[r].polling
    /\ l1' = [WithBlock(l1.pool) EXCEPT !.automine = TRUE]
    /\ req' = [req EXCEPT ![r].polling = FALSE]
    /\ UNCHANGED <<scenario, bundles, node, cache, hints, registered, mishaps>>

-----------------------------------------------------------------------------
Handle(r) ==
    \/ NotSynced(r) \/ HandleSubmit(r) \/ BroadcastPlain(r) \/ HandleSubmitBatch(r)
    \/ HandlePrepareL1Call(r) \/ HandleRegisterL2Hint(r)
    \/ DeployProxy(r) \/ ProxyDeployed(r)
    \/ EnsureEvm(r) \/ EnsureEvmForCall(r) \/ TakeSnapshot(r)
    \/ PlanL2(r) \/ PlanBatch(r) \/ PlanL1(r) \/ PlanPrepared(r) \/ PlanPreparedOnAnvil(r)
    \/ AskForAnyBlock(r) \/ AskForBatch(r) \/ AskForCallInAnyBlock(r)
    \/ AskForBundle(r) \/ AskForBroadcast(r) \/ AskForCall(r)
    \/ Prove(r)
    \/ Submit(r) \/ Landed(r) \/ GiveUp(r) \/ Confirmed(r)
    \/ Fail(r) \/ Undo(r) \/ PollerMines(r)

Next ==
    \/ LandBundle \/ EmptyBlock \/ MineMempool
    \/ \E n \in Nodes : Poll(n) \/ Restart(n)
    \/ \E r \in Requests : Handle(r) \/ UserCalls(r)

Spec == Init /\ [][Next]_vars

(* Weak fairness of Handle(r) and of MineMempool, written out with what    *)
(* enables them: handlers, timers and pollers run on, and L1 mines what is *)
(* in its mempool.  No relay has to include a bundle.                      *)
AllRequests == UNION {DOMAIN s.requests : s \in Scenarios}
CanRun(r) ==
    LET txs == req[r].txs
    IN \/ req[r].polling
       \/ req[r].pc \notin {"done", "new", "waiting", "deploying"}
       \/ At(r, "deploying") /\ Settled(txs[1])
       \/ At(r, "new") /\ Cardinality(Active) < scenario.inFlight
       \/ /\ At(r, "waiting")
          /\ IF HasBundles THEN Included(txs[1]) \/ Expired(r)
             ELSE \/ \A tx \in ToSet(txs) : Included(tx)
                  \/ \E tx \in ToSet(txs) : Included(tx) /\ ~Succeeded(tx)
Stopped(r) == IF r \in Requests THEN ~CanRun(r) ELSE TRUE
Runs(r)    == IF r \in Requests THEN req'[r] # req[r] ELSE FALSE
NothingToMine ==
    IsAnvilL1
    \/ \A tx \in ToSet(l1.pool) : tx.by = "builder" /\ tx.nonce # l1.nonce
FairSpec ==
    /\ Spec
    /\ \A r \in AllRequests : []<>Stopped(r) \/ []<><<Runs(r)>>_req
    /\ []<>NothingToMine \/ []<><<l1'.pool # l1.pool>>_l1

-----------------------------------------------------------------------------
(* The root that L1 holds is the one that a node arrives at which knows    *)
(* nothing but the events of L1: what the builder posts, from its own      *)
(* simulation, is what every fullnode derives.                             *)
Replica == Follow(NodeOf(<<Past>>, Past, 1), l1.log)
RootIsReplay == Actual(Replica) = L1Root

(* It holds as long as requests come one by one, are no batches, and L2    *)
(* transactions are simulated by mining them and not taken back in vain    *)
(* before a call from L1 that is not preceded by EnsureEvm.  A rollback    *)
(* may miss its block, unless a call is prepared on top of what it left:   *)
(* the transaction that it should have removed may have stayed in the      *)
(* proofer's pool too, and then both nodes agree on it.                    *)
Serial ==
    /\ scenario.inFlight = 1 /\ ~scenario.ecdsa
    /\ \A r \in Requests : /\ Api(r) # "submit-batch"
                           /\ Api(r) = "submit-L1" => ~HasBundles
                           /\ Api(r) = "prepare-l1-call" => "rollback" \notin scenario.faults
SerialRootIsReplay == Serial => RootIsReplay

(* No L2 transaction and no signed L1 transaction takes effect twice,      *)
(* although clients and the builder try again after timeouts while the     *)
(* bundles of earlier attempts can still be included.  A prepared call is  *)
(* not signed by who wants it on a chain with bundles, and may be made as  *)
(* often as users like on the others.                                      *)
PreparedCalls == {Txs(r)[1].name : r \in {r \in Requests : Api(r) = "prepare-l1-call"}}
ExecutedOnce ==
    LET effects == SelectSeq(l1.log, ChangesState)
    IN \A i, j \in DOMAIN effects :
          effects[i].name = effects[j].name => i = j \/ effects[i].name \in PreparedCalls

(* When a client of a real chain is told that its L2 transactions went     *)
(* through, L1 has executed every one of them.  The builder goes by the    *)
(* receipt of the first transaction of a bundle; two bundles may begin     *)
(* with the same one, that deploys the same alias.                         *)
OwnReceipt(r) ==
    \A q \in Requests \ {r} : req[q].txs # <<>> => Head(req[q].txs) # Head(req[r].txs)
SuccessMeansExecuted ==
    \A r \in Requests :
        Api(r) \in {"submit-L2", "submit-batch"} /\ req[r].ok /\ ~IsAnvilL1 /\ OwnReceipt(r) =>
            \A t \in ToSet(Txs(r)) : \E e \in ToSet(l1.log) : e.name = t.name

(* Every request that was taken is answered, whatever is included. *)
AtRest(r) == IF r \in Requests THEN req[r].pc \in {"new", "done"} ELSE TRUE
Answered == \A r \in AllRequests : []<>AtRest(r)

(* Mining is switched on again. *)
AutomineReturns == []<>l1.automine
=============================================================================
