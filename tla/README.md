# A verification project for sync-rollups

sync-rollups runs EVM rollups that compose synchronously with L1: a user's
transaction on one chain may call contracts on another and use the result, in
the same L1 block.  It does so by *pre-computing* the whole cross-chain
execution.  A builder simulates it, a proofer vouches for it, and a table of
entries "when you see this action in this state, go to that state and continue
with this action" is written into a contract on L1 and into one on each L2.  The
chains never talk to each other; they look up what was foreseen.

What can go wrong is therefore rarely a single function.  It is a table that is
consumed while foreign contracts re-enter it, ether that is booked at one depth
of the call stack and moved at another, a fullnode whose only input, L1, changes
under its feet, and a builder that simulates, proves, posts, gives up and tries
again on nodes that remember what it gave up.  These are what the modules here
are about.  They are translated from the Solidity and TypeScript sources; the
documents of the repository serve as statements to check.

Contents:
[1 The system](#1-the-system) ·
[2 Modules](#2-modules-and-how-they-follow-the-code) ·
[3 Runs](#3-runs) ·
[4 Fairness](#4-fairness) ·
[5 Proofs](#5-proofs) ·
[6 Where code and documents differ](#6-where-code-and-documents-differ) ·
[7 Not modelled](#7-what-is-not-modelled) ·
[8 Plan](#8-plan)

Paths below are relative to the repository; `rollup1/...` files are TypeScript,
`src/...` Solidity.


## 1. The system

### Components

| Component | Source | State it keeps | Operations that change it |
|---|---|---|---|
| L1 manager | `src/Rollups.sol` | per rollup: owner, key, root, ether; execution table; proxies; block of the last batch; `_etherDelta` (transient); its ether | `createRollup`, `postBatch`, `executeCrossChainCall`, `executeL2TX`, `newScope`, `createCrossChainProxy`, owner functions |
| L2 manager | `src/CrossChainManagerL2.sol` | answers by action hash, `pendingEntryCount`, proxies, its ether | `loadExecutionTable`, `executeCrossChainCall`, `executeIncomingCrossChainCall`, `newScope`, `createCrossChainProxy` |
| Proxy | `src/CrossChainProxy.sol` | none | fallback to the manager; `executeOnBehalf` for the manager |
| Verifier | `src/IZKVerifier.sol`, `src/verifier/` | signer | `verify` |
| Event processor | `rollup1/reth-fullnode/event-processor.ts`, `fullnode.ts` | last processed L1 block, block hashes, checkpoints | start, poll, replay of events, reorg recovery |
| State manager | `rollup1/reth-fullnode/state-manager.ts` | reth's chain and pool, tracked root and the L2 block remembered with it, operator nonce, `sync-state.json` | start and stop of reth, mining, speculating, unwind, rollback, system transactions |
| RPC server | `rollup1/reth-fullnode/rpc-server.ts` | none of its own | simulate, speculate, batch, L1 call, snapshot and rollback on the shared reth |
| Builder | `rollup1/builder/builder.ts` | preparation cache, recent hints, hint table, nonce of its wallet | submit L2 transaction, withdrawal, batch or L1 transaction; prepare an L1 call |
| Execution planner | `rollup1/builder/execution-planner.ts` | none | which entries an action needs |
| Bundle submitters | `rollup1/builder/bundle-submitter.ts`, `mock-bundle-submitter.ts` | none | submit and wait for inclusion; Anvil's stand-in mines |
| Proofer | `rollup1/proofer/proofer.ts`, `builder/proof-generator.ts` | its own fullnode | verify entries by re-execution, sign, roll back |
| RPC proxies | `rollup1/builder/rpc-proxy.ts`, `l2-rpc-proxy.ts` | response cache, hints of proxies and senders | forward, answer from the cache, route to the builder |
| Dashboard | `visualizator/dashboard/src/` | event store, tables, roots, diagram | connect, history query, pollers, replay, bundles |
| Token bridge | `src/periphery/Bridge.sol`, `WrappedToken.sol` | locked and wrapped tokens, canonical address | `bridgeEther`, `bridgeTokens`, `receiveTokens` |
| ethrex fullnode | `rollup1/ethrex-fullnode/src/` | tracked root, L2 chain | a second implementation of the derivation |
| Web UI, scripts, deployment | `rollup1/ui`, `rollup1/scripts`, `rollup1/deploy`, `script` | none | |

### How they interact

* A *user* calls a proxy on L1.  The proxy calls `executeCrossChainCall` on the L1
  manager, which looks the action up, applies the entry's state deltas and
  follows the entry's next action: return a result, or call somebody, at a
  scope, and look up the result of that call.  Called contracts may do
  anything, including calling the manager again.
* On L2 the *system address* loads the answers and delivers calls from other
  chains; user transactions consume the answers.
* The *builder* simulates on its own fullnode through the RPC server, has the
  proofer re-simulate on another fullnode and sign, posts the batch and the
  user's transaction so that they share an L1 block, and waits for inclusion.
* Every *fullnode* derives the L2 chain from L1's events and nothing else.
  Its tracked root is what L1 says; reth's root is what replaying gave.  The
  builder and the proofer, however, also simulate on theirs.
* *Wallets* talk to the two RPC proxies, which decide from hints whether a
  transaction goes to L1 or to the builder.
* The *dashboard* reads events of both managers and draws what they hold.
* The *bridge* on each side talks to the bridge on the other side through a proxy.

### What is hard

| Behaviour | Where | What makes the component correct |
|---|---|---|
| Re-entrancy in the middle of a navigation | L1 manager `:418`, L2 manager `:296` | ether stays accounted for, the table stays the one the navigation started with, entries are used once |
| Partial rollback: a scope reverts, its root survives | L1 manager `:377`, `:558` | the books of ether and table match whatever state is restored |
| One running total of ether for calls at all depths | L1 manager `:276`, `:424`, `:513` | no flow is absorbed by a lookup that has nothing to do with it |
| A counter beside a table, both rolled back | L2 manager `:246`-`:250` | the counter is exact in every state a revert restores |
| L1 reorgs between any two reads; failures and crashes between replay, checkpoint and save | event processor `:1104`-`:1480`, fullnode `:109` | an up-to-date node has the chain derived from the canonical events |
| Several executions in one L1 block | event processor `:318`-`:365`, `:851` | each has its effect, in order |
| Simulations that outlive the request they were for | RPC server `:404`, state manager `:534`, builder `:474` | the root posted on L1 is the one a replay of L1 gives |
| Timeouts and retries while earlier bundles can still be included | bundle submitter `:224`, builder `:690`, `:1401` | nothing is executed twice, a success is true, every request is answered |
| One wallet, one Anvil mining switch, one proofer node for all requests | builder `:715`, `:2360`, proofer `:303` | the same, and mining comes back on |
| Callers of one reth between every two awaits | state manager `:974`-`:1299` | a nonce is missing only where a transaction was replaced, every call ends |
| A shared cache filled by requests that overtake each other | rpc-proxy `:145`, `:249` | answers are not older than a lifetime and a flight |
| Events twice, late, or in the wrong order | dashboard `useChainWatcher.ts:39` | what is shown follows from the events up to it, in the order of the chain |

The full list, with a line for each, is under "hazards" in `PROJECT.json`, with
the properties that cover each, or what they leave out and why.


## 2. Modules and how they follow the code

```
CrossChainActions          actions, action hashes, scope arithmetic (both managers)
RollupSums                 sums over rollups
Rollups                    the L1 manager            -- implements --> RollupsLedger
  MCRollups                  its TLC instances
CrossChainManagerL2        the L2 manager            -- implements --> L2Answers
  MCCrossChainManagerL2      its TLC instances
L2Replay                   L2 transactions, roots, how L1 events are replayed
  EventProcessor             L1 as a fullnode sees it, and the fullnode
    MCEventProcessor           its TLC instances
  RollupNode                 a fullnode as the builder and the proofer use it
    Builder                    builder, planner, proofer, submitters, two nodes, L1
      MCBuilder                  its TLC instances
StateManager               the callers of one reth, between every two awaits
RpcProxies, Dashboard      (each with its MC module, StateManager too)

Proofs: ProofLibrary                                             facts several proofs share
        RollupsProofs                                            about Rollups
        CrossChainManagerL2Proofs                                about the L2 manager
        EventProcessorProofs                                     about the fullnode's tracked root
          DerivationProofs                                         about its L2 chain
        StateManagerProofs                                       about the callers of one reth
        RpcProxiesProofs                                         about the proxies
        DashboardProofs                                          about the dashboard
```

Definitions keep the names of the functions and variables they stand for,
capitalised where they are operators; `PROJECT.json` maps each one to its lines.
A definition named `Mutant_X` is `X` with a plausible mistake; no specification
uses it, and replacing `X` by it makes the property it was written for fail.

### CrossChainActions

An action is a record; the code's `actionHash` is `keccak256(abi.encode(action))`,
taken as injective, so the model uses the action for its hash.  Calldata,
transactions and results are members of a small set.  A scope is a sequence of
naturals; `ScopesMatch`, `IsChildScope` and `NextScope` are the code's helpers.

### Rollups: the L1 manager

`evm` holds everything the EVM rolls back when a frame reverts: storage,
transient storage and balance.  `stack` holds the Solidity frames that are
running, each with the `evm` it started from.  A frame is a `batch` (postBatch),
an `entry` (executeCrossChainCall or executeL2TX waiting in `_resolveScopes`), a
`scope` (one activation of `newScope`) or a `call` (`_processCallAtScope` waiting
for the called contract).

* With a `call` frame on top the called contract is in control.  It may return
  or revert with any data (`CallReturns`, `CallReverts`), or call any external
  function of the manager (`Outside`): deposit, run an L2 transaction, post a
  batch, create a rollup or proxy, act as an owner.  With an empty stack anybody
  may, and blocks may pass.
* `newScope` is one action per turn of its loop: descend, make the call, revert
  the scope, leave it.  The order of the tests is the code's.
* `_findAndApplyExecution` is `Executable` (an entry matches and its deltas
  apply), `NextAction` and `Execute` (deltas, swap-and-pop).  It takes the first
  match as the loop does, and a first match whose deltas do not apply reverts.
* A revert that is not a `ScopeReverted` goes through every `try`/`catch` of
  `newScope`, because `_handleScopeRevert` cannot decode it, up to the entry
  point; that is `Abort`.  Out of gas may happen to any frame of the contract.
* `RevertScope` rolls the scope's frame back, the use of the continuation entry
  included, and writes the root that `newScope` captured.
* External: `Prove` chooses a batch and binds it to the keys of the rollups and a
  block; `VerifyProof` accepts exactly that.

`loaded` and `consumed` are history variables inside `evm`; no guard reads them.
Entries have at most one delta per rollup, as the planner writes them.

`RollupsLedger` is what the contract promises when one looks only at committed
states: batches, at most one per block, redistribute ether; a transaction uses
entries in the block of their batch and moves exactly the ether that it books.
The refinement mapping is `WorldAt(1)`: what the outermost frame would be rolled
back to, or the current state when nothing runs.

### CrossChainManagerL2: the L2 manager

The same frames over the L2 contract's storage.  Answers are queues per action
hash; `TakeFirst` takes the first and moves the last into its place, as
`_consumeExecution` does.  Nothing expires and there are no roots: a scope revert
gives back everything.  Ether of outgoing calls goes to the system address's
reserve, and incoming calls bring it back, so "minting" and "burning" are
transfers from and to that reserve.

`L2Answers` is what the contract promises when one looks only at committed states: a bag
of answers, to which the system adds and from which it takes, where a transaction leaves a
sub-bag of what it found and draws on the system's reserve by at most the ether sent along.  A bag is
a function from the possible answers to how often each is stored; where in its queue an
answer stands is the contract's business.  The refinement mapping counts the queues of
`WorldAt(1)`.

`L2Answers` is the abstraction: a bag of one-shot answers with an exact count that
only the system address adds to; a transaction takes answers out and draws on the
reserve by at most the ether that the system sends along with the call it delivers.  That
ether is an input of its own (`MessageValues`): `executeIncomingCrossChainCall` does not
compare it with the value of the call, so what is missing comes out of what the contract
holds, what is over stays there, and a call that the contract cannot pay fails.

### L2Replay and EventProcessor: L1 and a fullnode

A state root is what it commits to: the sequence of L2 transactions that produced
it; so two chains have the same root if and only if they have the same
transactions.  `L2Replay` says which L2 transactions an event of L1 stands for
(`Transactions`: the preloaded result and the call of a withdrawal, the call
itself, nothing for accounting), what reth accepts (`Accepts`: a signed
transaction once), when the node has executed an event already
(`PreExecuted`), and how several events of one L1 block become L2 blocks
(`BatchBlocks`).  Both users of a fullnode, below, build on it.

In `EventProcessor` L1 is a sequence of blocks, each with its events and a
generation that stands for its hash.  A reorg replaces the last blocks by others of
a new generation, at any moment between two reads of the node.  An owner's
override is a transaction that nobody can replay.  Events carry the roots that an
honest builder and proofer put there.  The node is a program with a counter `pc`; a
step is what happens between two awaits that matter:

| Step | Code |
|---|---|
| `Start` | `fullnode.ts` start: resume from `sync-state.json` if its root is reth's, else replay from the first block over what reth has |
| `ReplayHistoricalEvents`, `DetectReorg`, `CheckTip` | start-up and the poll: hashes, then height, then new events |
| `FindForkPoint` | one probe of the binary search, unreadable and unrecorded hashes included |
| `HandleReorg`, `Unwind`, `Wipe`, `ReprocessFromCheckpoint` | `handleReorg`, with the fallback when unwinding fails or no checkpoint is left |
| `RecordBlockHash`, `PruneBlockHashHistory`, `QueryEvents` | start of `fetchAndProcessEvents`; one hash per step |
| `SaveCheckpoint`, `ProcessEvent`, `ReplayBatchExecution`, `FinishFetch` | its loop and the save at its end |
| `FetchFails`, `Stop`, `Crash` | a read that throws; an orderly stop; a crash anywhere |

Faults are switched on per run: `gone` (the transaction of a reorged event cannot
be fetched), `read`, `replay`, `checkpoint` (the L2 height cannot be read),
`unwind`, `stop`, `crash`.

### RollupNode and Builder: from a request to L1

`RollupNode` is a fullnode as its clients see it: each operator is one request to the
RPC server and gives the node afterwards, or an answer and it.  What matters is what
a request leaves behind.  `SimulateAction` and `SimulateL1Call` mine, and the block stays;
`SpeculateAction` throws the block away and leaves the transaction in reth's pool;
`MineBlock` takes whatever is in the pool; `Rollback` cuts the chain and may or may not
keep the pool, and `RollbackMisses` is the fallback of `rollbackToBlock` that ends one
block too low or nowhere.  `RevertToDecimal` is the request whose block number is
written in decimal and read as hexadecimal.  `Follow` is one poll of the event
processor, with its short cut for blocks the node has pre-executed.

`Builder` composes two of these nodes, the handlers of the builder, the proofer and L1.
An action is the part of a handler between two waits for another process:

| Steps | Code |
|---|---|
| `NotSynced`, `HandleSubmit`, `BroadcastPlain`, `HandleSubmitBatch`, `HandlePrepareL1Call`, `HandleRegisterL2Hint` | the entry of each request, with the cache of prepared calls |
| `DeployProxy`, `ProxyDeployed` | a proxy that a call needs first |
| `EnsureEvm`, `EnsureEvmForCall`, `TakeSnapshot` | realignment with the tracked root, in the order the handlers have |
| `PlanL2`, `PlanBatch`, `PlanL1`, `PlanPrepared`, `PlanPreparedOnAnvil` | `execution-planner.ts`: the entries with their chain of roots |
| `AskFor...`, `Prove` | `requestProof` and all of `handleProve`: wait, realignment, hints, verification of each entry, rollback after a rejection |
| `Submit` (`SendBundle`, `MineBundle`, `PostPrepared`, `ToMempool`) | signing and sending, per kind of L1 |
| `Landed`, `GiveUp`, `Confirmed` | what the handler is told, and the next attempt |
| `Fail`, `Undo`, `PollerMines` | rollbacks, retries, the poller of a prepared call on Anvil |

L1 is what the builder can tell of it: one batch per block, entries for that block on
the root they were built for, proxies created once, nonces, a mempool; relays include
bundles as a whole, at any of three blocks, or never.  The ECDSA verifier's proof is for
one block, the mock verifier's for any.  Whether a call reverts and whether a
transaction's callee returns data are constants (`Reverting`, `Returning`): planner and
proofer learn them in different ways, and their comparison (`SameResult`) is in the model.
Mishaps are switched on per scenario: a rollback that misses, a receipt that cannot be read,
a restart, and a user's transaction that L1 refuses (`Refusal`): then a mempool's broadcast
fails, and the stand-in for bundles reports inclusion only if the block has as many
transactions as the bundle, whosever they are.

### StateManager: many callers, one reth

The JavaScript process serves requests of its clients and of the event processor
at once; between two awaits anything may happen.  A caller runs `systemCall`,
`simulateL1Call`, `ensureProxyDeployed`, `broadcastRawTx`, `speculateAction` or
`rollbackToBlock`, one await at a time: price, send, count the nonce, read the head, have a
block built, make it the head, look for the receipt, ask for the pool.  reth keeps every
block it was given (`tree`), so two callers may build siblings, and transactions of the
displaced one return to the pool.  Blocks have a gas limit and a base fee by EIP-1559
(`ComputeNextBaseFee`); system transactions pay exactly the base fee they read.  reth refuses
a nonce that is mined; where one is waiting, the new transaction takes the place of the
old one if its fee is ten percent higher (`Rivals`, `NonceTaken`, `Accept`: `startEngine` sets no
other price bump), and `replaced` counts how often that happened.  `Unwind` may end
without reth coming up in time, and `ComesUp` is reth coming up later.

### RpcProxies: caches, retries, hints

The calls of clients in batches, their stages in `forwardToRpc` (asked, served,
backoff, done) and in the routing to the builder (submitted, decided), the cache with
lifetimes in ticks, the fallback on expired answers when L1 does not answer, the address
wallets use to detect the proxy, hints of both proxies and the timers that expire them.
Upstream may take a request and lose the answer, and the builder may answer an error for
what it takes: a bundle that it gave up may be executed later (`Decide`).

### Dashboard: events of two chains

One history query per connect and chain, one poller per event name, a single handler
into a store: events (kept sorted, once per id), live tables and roots, the diagram with
its lanes.  Tables are keyed by what `truncateHex` leaves of an action hash, a parameter of
the model (`TruncateHex`).  `Replay(i)` is `useDerivedState` at the i-th event,
`BuildTransactionBundles` the union-find over action hashes, which it has in full.  Answers
may come late, fail, or come after a disconnect.


## 3. Runs

Twelve runs, each with its own question.  Everything outside the program is free: who
calls, with what value, what called contracts do and return, when gas runs out, what
L1 mines, includes and drops, when requests are answered.  Scripted are only the inputs of a
run: the tables that a prover may prove, the requests that clients of the builder make, the
histories that the dashboard looks at.

| Run | Asks | Checks |
|---|---|---|
| `rollups_ether` | Do deposits, payouts, re-entrant deposits, immediate transfers and refused batches over two rollups and two blocks keep the books? | `TypeOK`, `Accounted`, `EtherDeltaSettled`, `ExactlyOnce`, `TableStable`, `Backed`, `ImplementsLedger` |
| `rollups_scopes` | Nested and sibling scopes, reverts with and without continuation, calls that cannot be paid, proxies that collide, owners who interfere from inside a payout | `CallsInTheirScope`, `TransactionsEnd` |
| `manager_l2` | The L2 contract with two loads of tables that call out, nest, revert, call back in and branch, and calls delivered with more or less ether than they say | `TypeOK`, `PendingCounted`, `ExactlyOnce`, `CallsInTheirScope`, `ImplementsAnswers`, `WalksToItsScope` |
| `processor_reorg` | Two reorgs of depth two at any moment, failing reads and unwinds, a stop and restart | `TypeOK`, `DerivedFromL1`, `CheckpointsRestorable`, `Converges` |
| `processor_faults` | All kinds of events, any two mishaps of seven kinds, around a reorg | `TrackedMatchesL1`, `DerivedWithoutMishaps` |
| `builder` | Two requests of every kind, together or one after the other, on L1 with bundles, with a mempool and on Anvil, with both verifiers, late bundles, failed rollbacks, lost receipts, refused transactions and a restart | `SerialRootIsReplay`, `ExecutedOnce`, `SuccessMeansExecuted`, `Answered`, `AutomineReturns` |
| `state_manager` | Groups of two or three callers of one reth | `NoncesFit`, `FeeComesDown`, `Answered` |
| `rpc_proxies` | Clients that read, poll, send and register hints while upstream limits, fails and loses answers | `BoundedStaleness`, `ReceiptsFound`, `HintedGoThroughBuilder`, `HintsKept`, `HonestAnswers`, `Answered` |
| `dashboard` | A history query and five pollers per chain, over two sessions | `EventsInChainOrder`, `ReplayFollowsEvents`, `DiagramSound`, `BundlesAreComponents`, `EveryCoveredEventShown` |
| `rollups_revert_doc`, `processor_batch_calls`, `builder_leftover` | A statement of the repository, see section 6 | violated |

### The properties in words

L1 manager:

* `Accounted`: ether held plus what running calls were handed is the sum of the
  balances, in the current state *and in every state a revert would restore*.
* `EtherDeltaSettled`: no ether flow is left in `_etherDelta` after the step that
  caused it.
* `ExactlyOnce`: every entry loaded is in the table or was used, once, however
  often calls were rolled back in between.
* `TableStable`: while an entry point consumes the table, it is this block's and
  no batch replaces it.
* `Backed`: the balance of a rollup is the ether its state root accounts for.
* `CallsInTheirScope`: a call runs below one `newScope` activation for each prefix of
  its scope, so a revert of any enclosing scope undoes it.
* `TransactionsEnd`: navigation does not run in circles.
* `ImplementsLedger`: refinement of `RollupsLedger`.

L2 manager: `ExactlyOnce` and `CallsInTheirScope` as above, and

* `PendingCounted`: `pendingEntryCount` is the number of entries, now and in every
  state a revert restores.
* `WalksToItsScope`: every turn of the navigation loop moves towards the scope of the
  action it holds, or leaves, or uses up an answer.
* `ImplementsAnswers`: refinement of `L2Answers`.

Fullnode:

* `DerivedFromL1`: a node that is up to date, with hashes that are all canonical,
  has replayed the canonical events, all, once, in order, and tracks L1's root.
* `CheckpointsRestorable`: unwinding to a checkpoint that recovery may choose gives
  the root that is restored with it.
* `TrackedMatchesL1`: after any mishaps such a node tracks L1's root;
  `DerivedWithoutMishaps`: without any, it is the derivation, for all kinds of events.
* `Converges`: when L1 comes to rest, the node arrives at the derivation and stays.

Builder:

* `SerialRootIsReplay`: requests handled one by one leave on L1 the root that a fullnode
  arrives at which replays L1's events from nothing (for the mock verifier, L2
  transactions and bundles, and although a rollback may miss its block unless a call is
  prepared after it; section 6 says what happens outside of that).
* `ExecutedOnce`: no transaction of a user takes effect twice, although clients and the
  builder try again while bundles of earlier attempts can still be included.
* `SuccessMeansExecuted`: a client who is told that its L2 transactions went through can
  rely on L1 having executed every one of them (on real chains, Anvil's stand-in judges
  less; and but for bundles that begin with the same transaction, section 6).
* `Answered`: every request is answered, whatever relays include and proofers refuse.
* `AutomineReturns`: Anvil mines by itself again once requests have been handled.

State manager:

* `NoncesFit`: the operator's nonces never repeat, and as many of those counted are missing
  as reth replaced transactions, whoever sends at the same time and whatever sibling
  blocks displace.
* `FeeComesDown`: a system transaction that missed a block because another caller's block
  raised the fee is mined before the wait is over (while nothing was replaced, and with at
  most two callers waiting).
* `Answered`: no caller keeps another one waiting for ever.

Proxies:

* `BoundedStaleness`: an answer is not older than a lifetime of the cache and a flight.
* `ReceiptsFound`: a receipt that exists is never denied from the cache.
* `HintedGoThroughBuilder`: a transaction to a proxy whose hint was confirmed never goes
  to L1 past the builder.
* `HintsKept`: a hint on L2 waits for a transaction of its sender and goes with one.
* `HonestAnswers`: a hash means that L1 took the transaction or the builder accepted it; an
  error to a transaction sent to L1 directly and once, none of whose answers got lost,
  that L1 did not take it.  An error from the builder means nothing of the kind.
* `Answered`: every batch of requests is answered.

Dashboard:

* `EventsInChainOrder`: an event is listed once, and those of a chain in its order.
* `ReplayFollowsEvents`: the tables at an event have a row for what the chain's events up to
  it loaded, struck out if they consumed it, as far as the chain is shown without a gap and
  no other entry shows the same eight digits of its hash.  These are not the contract's tables:
  L1 deletes its table at each batch, the replay keeps the rows (section 6).
* `DiagramSound`: edges end at nodes that are drawn, and no two nodes of a lane share a
  column, in any order of arrival (unless an answer came after its session).
* `BundlesAreComponents`: bundles are the connected components of "share an action hash",
  and a bundle that is called complete has nothing pending.
* `EveryCoveredEventShown`: what a history query or a poller covers is shown in the end.

### Bounds and why they are enough

* Contracts: two rollups for transfers, one elsewhere; one user and one contract
  that may be called, whose every move is free; values 0 and 1; at most 2 ether
  (`MaxHeld`; a `Reserve` of 1 on L2); 9 frames (`MaxDepth`; 7 for scopes, 8 on L2), enough
  for a call at scope [0,1], which is five frames, and a navigation inside it; two blocks
  (`MaxBlock`), the least in which an entry can be stale, and one where scopes are the
  question.  A third ether or block only repeats a situation, and what holds for any
  number of them is proved (section 5).  The tables contain two entries with one hash and
  different states, equal keys with three answers, sibling scopes of different depth, a
  revert at depth one with and without continuation.
* Fullnode: three blocks of L1, reorgs of at most two (`ReorgDepth`), two of them in
  the main run and one in the other.  Code constants are scaled:
  `REORG_CHECK_DEPTH` is 8 in the code and 2 or 3 here, `MAX_REORG_HISTORY` 128 and 4;
  what matters is the order *reorg depth < check depth <= height < history*, and in the
  runs with check depth 2 its violation.  One or two mishaps (`MaxMishaps`).  In the main
  run the blocks contain calls or nothing, which is what distinguishes chains; all kinds of
  events are in `processor_faults`.  L1 loses height (`Shrinks`) only while the node is
  between polls.
* Builder: 26 scenarios of two or three requests each (alike and different, L2
  transactions, withdrawals, prepared calls, L1 transactions and batches; `MCBuilder`
  says what each is for).  Two attempts (`MaxAttempts`; 3 in the code): the
  third is to the second what the second is to the first.  Three L1 blocks beyond the start
  (`MaxHeight`), which is how long a bundle is tried; one mishap.  L1 starts at block 12,
  because the rollback request carries a decimal number that is read as hexadecimal, and the
  two differ from 10 on.
* State manager: blocks of four units, a fee of 1000, so that one full block raises it by
  an eighth, more than the ten percent for which reth replaces a transaction, and an empty one
  lowers it; as many tries as each group of callers needs (`tries`; 50 in the code), which
  suffice to come down from what they can bring about.
* Proxies: lifetimes of one and two ticks, one retry, a flight of at most one tick, four
  calls in six scenarios; hints live for three ticks.  The ratio of lifetimes to flights is
  what distinguishes fresh, expired and overtaken answers.
* Dashboard: five histories of up to five events on two chains: a call into L2, an L2
  transaction that calls out, a proxy that is created and called, and two batches of which one
  applies an entry at once and loads one twice, and two batches of which one loads an entry that
  shows the same digits as one of the other; two sessions, so that answers of the
  first can come in the second.

Deadlock is checked for the contracts.  It is not for the others: their requests may all
be answered, L1 may come to its last block, and then there is nothing left to do.


## 4. Fairness

* Contracts: `WF` on the contract's own steps and `SF`, for each depth of the stack,
  on the called contract's return or revert.  Gas justifies it: a called
  contract cannot re-enter for ever, so the call at any given depth comes to an
  end, even though calls it makes interrupt it again and again.  On L2 the termination
  argument is `WalksToItsScope`, which needs no fairness: every turn of the loop comes nearer to
  its scope or uses an answer.  A scope revert gives back its answers, the
  continuation's too, so one table may be walked again until the gas is gone.
* Fullnode: `WF` on the node's steps.  `poll` schedules itself again in every outcome,
  also after an exception, and whoever operates the node starts it again.  Nothing
  is assumed about L1 but that the bounds stop its reorgs.
* Builder: each request is handled on (JavaScript runs what can run, and every wait
  has a timeout), and a mempool mines what it can mine.  No relay has to include a bundle.
  The conditions are written out as "infinitely often stopped or infinitely often a step",
  which is what `WF` means for actions that change what they are about; TLC evaluates them
  faster than `ENABLED`.
* State manager: `WF` on its steps.  Proxies: `WF` on the handling of each call;
  nobody has to call, nothing has to be mined.  Dashboard: queries are answered or fail,
  pollers poll, as long as the session lasts.


## 5. Proofs

Theorems about the two contracts, for every table and batch, any number of rollups, any
callers, values and depth of re-entrancy; about the fullnode, for every L1, any events,
reorgs, mishaps and restarts; about the callers of one reth, for any finite number of them;
about the proxies, for every set of calls, batches, lifetimes, retries and flights; and about
the dashboard, for every history of the two chains and any number of sessions.  Model
checking shows the same properties on the instances of section 3, and the inductive
invariants below were model-checked before they were proved.

| Module | Theorem | States |
|---|---|---|
| `RollupsProofs` | `TypeCorrect` | `Spec => []TypeOK`: in particular no balance is ever negative, nor one a revert would restore |
| | `EtherAccounted` | `Spec => []Accounted` |
| | `FlowSettled` | `Spec => []EtherDeltaSettled` |
| | `EntriesUsedOnce` | `Spec => []ExactlyOnce` |
| | `TableKept` | `Spec => TableStable` |
| | `CallsPlaced` | `Spec => []CallsInTheirScope` |
| | `ImplementsTheLedger` | `Spec => ImplementsLedger`, the refinement |
| `CrossChainManagerL2Proofs` | `TypeCorrect`, `CounterExact`, `UsedOnce`, `CallsPlaced` | `TypeOK`, `PendingCounted`, `ExactlyOnce`, `CallsInTheirScope` of the L2 manager |
| | `ImplementsTheAnswers` | `Spec => ImplementsAnswers`, the refinement |
| `EventProcessorProofs` | `TracksL1` | `Spec => []TrackedMatchesL1`, if the history of hashes holds all blocks |
| | `TracksLongL1` | the same for L1s of any length, if reorgs together are no longer than that history |
| `DerivationProofs` | `Derives` | `Spec => []DerivedFromL1`: the L2 chain is a function of the L1 chain |
| | `DerivesWithoutMishaps` | `Spec => []DerivedWithoutMishaps`: the same until something fails, whatever may |
| | `Restores` | `Spec => []CheckpointsRestorable` |
| | `DerivesLongL1`, `RestoresLongL1` | `Derives` and `Restores` for L1s of any length, as in `TracksLongL1` |
| | `WellTyped` | `Spec => []TypeOK`, under the hypotheses of `Derives` |
| `StateManagerProofs` | `NoncesDoFit` | `Spec => []NoncesFit` |
| `RpcProxiesProofs` | `StalenessBounded` | `Spec => []BoundedStaleness` |
| | `ReceiptsAreFound` | `Spec => []ReceiptsFound` |
| | `HintsGoThroughBuilder` | `Spec => []HintedGoThroughBuilder` |
| | `HintsAreKept` | `Spec => HintsKept` |
| | `AnswersAreHonest` | `Spec => []HonestAnswers` |
| `DashboardProofs` | `EventsAreInOrder` | `Spec => []EventsInChainOrder` |
| | `DiagramIsSound` | `Spec => []DiagramSound` |
| | `ReplayShowsTheEvents` | `Spec => []ReplayFollowsEvents`, for logs that the contracts emit |
| | `BundlesAreTheComponents` | `Spec => []BundlesAreComponents` |

Assumptions, all of them named in the modules and evaluated by TLC runs:
`ActionConstants`, `RollupsConstants`, `EntryShape` (entries are well-typed and name
rollup ids where the contract reads one), `MaxRollupsNat`, `L2Constants`,
`ProcessorConstants`, `ScenarioShape` and `LivesAssumption` (each call of a client is in one
batch, once; a chain, a kind, a key is one of those the program knows; lifetimes are natural
numbers), `StateManagerConstants` (finitely many callers, each with a method the fullnode
has), `HistoryShape` (a chain's logs in the order of its blocks and log indices, with lists of
entries that each have an action hash; what is consumed has one too), `InstanceLogs` (the
histories of the run are `LogsOfContracts`).  Facts that several proofs need are in `ProofLibrary`: finite sets of
naturals and induction over a loop's counter, flattened sequences, how often an entry is in a
table, the frames of a scope (by induction over its length; for both managers).

### L1: the ether

`Accounted` is not inductive.  That a step keeps the books needs three more things, which
`IInv` of `RollupsProofs` adds:

1. Every state on the stack is as good as the current one (`Sound` of every frame's
   `before`), because any of them may come back; in particular `_etherDelta` is 0 in
   each, and that is what lets a lookup compare its deltas with the ether that
   *this* step moved.
2. A scope or a call has an entry or a scope below it (`Nested`), so that an `Abort`
   or a return finds the frame whose books it falls back on, and `Owed` relates each
   frame's state to the next by what it was handed.
3. `createRollup` overwrites a record, setting a balance to 0.  It was 0 before:
   entries are only about rollups that existed when they were proved.  Existence can
   be rolled back, though, when `createRollup` was called from inside a call that
   then reverts, so the invariant carries a number `k` of rollups that no state
   on the stack can be without (`Known`, `Fresh`), and proofs are made between
   transactions only.

### L1: the table

The second half of `RollupsProofs` strengthens to `TInv`: frames are placed (a scope below its
parent's, a call below its scope's); every world, current or restorable, is conserved
(loaded = in the table + consumed, entry by entry); a batch's frame runs alone, before
its block's batch counts, and moves no ether; otherwise every world on the stack is of this
block's batch, has loaded the same, and holds a subset of what the first frame started
with.  The last part is what makes `TableStable` hold across reverts: no world that
may come back has another batch's table.

### L1: the ledger

What the refinement mapping sees, `WorldAt(1)`, changes only when the last frame goes.
So every other step stutters (lemma `Unseen`), and three remain: the end of a batch is
`PostBatch` of the ledger, the return of the only entry frame is `Transact`, a new block is
a new block; owner's functions outside a transaction move no ether.  `Accounted`, with
nothing handed to anybody, is the ledger's equation.

### L2: counter and answers

`pendingEntryCount` is decremented, so that it is a natural number depends on its
being exact, and types and `PendingCounted` are proved together: every world on the stack
has as its counter the cardinality of the finite set of (hash, index) pairs.  Loading
is a loop; that it keeps the invariant is proved by induction over its counter.
`CallsPlaced` is the argument of L1 over the same lemmas.

### L2: the ledger of answers

As on L1, the mapping sees only `WorldAt(1)`, which changes when a transaction ends.
What `L2Answers` asks then relates the transaction's end to its beginning, so the invariant
(`LInv`) does so for every state on the stack and the current one: it is `Below` the state
that the outermost frame started from, by the ether sent along with the delivered call
(no hash has more answers of a kind than before, the system's reserve is smaller and what
the users hold larger by at most that).  `Sized` says that the answers stored under a hash
are answers to that action, so that the counter is the size of the bag.  Each step is shown to
lead from the state below it to one that `Succeeds` it, transitivity does the rest, and a
revert brings back a state the invariant already speaks of.

### Fullnode: the tracked root

`TrackedMatchesL1` is about nodes that are up to date and whose hashes are canonical; the
invariant must say what every other node knows.  `IInv` has three parts.  `JobOK`: what
the running poll or replay has read of L1, and how far it got, fits what memory
holds.  `MemoryOK`: recorded hashes, checkpoints, the queue and the tracked root are what L1
had *as far as the hashes below them still match*; where a reorg has hit, nothing is said
until recovery has gone below it.  `DiskOK`: the same of the snapshot that a restart loads.
A reorg only weakens what `IInv` says; recovery establishes it again because it goes back to a
checkpoint below the first hash that differs.

The hypotheses are conditions under which the code does keep the root, and each has a
behaviour without it that does not:

* `AccountingComesLast`: in a batch, no execution that changes the state follows an event that
  only books ether.  Otherwise the tracked root stays behind (`event-processor.ts:347`,
  `:932`; section 3's `processor_faults` has payloads of both kinds).
* `Shrinks # "ever"`: L1 does not lose height in the middle of a poll.
* `TracksL1` asks for `MaxBlocks <= MAX_REORG_HISTORY`: no hash is forgotten.
  `TracksLongL1` does not; it asks that all reorgs together are no longer than the history and
  that a step forgets only hashes that are canonical (`ForgetsOnlyCanonical`, an action
  formula in the hypothesis).  The code forgets by height only.  After a downtime of 128
  blocks or more the replay at start-up, which looks at no hashes, can push a stale hash out
  of the history before the next poll compares it.

The run `processor_faults` meets all hypotheses of `TracksL1`.

### Fullnode: the chain

`DerivedFromL1` compares the node's L2 chain with what the events of L1 call for.
Neither is a state variable: both are sequences of sequences, flattened.
`DerivationProofs` compares each with the roots instead.  `Made(root)` is all that a root
commits to but for what the owner of the rollup set.

1. *On L1.*  The events of a block follow one another from the root before it
   (`Leads`), so `Made` of the last root is `Made` of the first followed by the events'
   transactions (`Telescope`).  Blocks and reorgs keep it so for the whole chain
   (`ChainDerives`), and therefore `Derived = Made(L1Root)` (`DerivedIsMade`).
2. *In the node.*  Where its hashes are those of L1, its chain is `Made` of the root it
   tracks (`InStep`).  That is the invariant `DInv`; with `tracked = L1Root`, which
   `TracksL1` gives, it is the property.  While a fetch is under way the queue must be known
   too: its events follow one another, are canonical as far as the hashes are, and
   the first of them starts where the chain is (`EventsDerive`).
3. *Replay.*  The blocks in which an event is replayed hold its transactions (`ReplayedOne`),
   and so do those of a batch (`BatchReplays`); reth accepts them, for a
   transaction is signed for one nonce and L1 has it once (`GroupAccepted`).
4. *Recovery.*  A checkpoint says of a chain that it was in a state: the
   blocks up to its L2 block are `Made` of its root, if the hashes below it are still those
   of L1, and later checkpoints name later L2 blocks (`CheckpointsFit`), so that those that
   remain after an unwind name blocks that remain.
5. *Restarts.*  The file names the chain's root and its checkpoints fit
   (`DiskFits`) while the node is down or has not processed anything since; a node that may be
   stopped has saved where it is (`DiskSaved`).

`HDInv` says `DInv` as long as nothing went wrong that cannot be recovered from.  With
`IInv`, on which it depends, it is inductive; TLC checked it in the reachable states of five
instances (up to four million states: the two passing runs' payloads and faults, and others)
before the proof was begun.
The hypotheses, next to those of the tracked root, are:

* `PayloadsReplay`: the batches of an L1 block are such that the order of replay is the order
  of the events, and no transaction is in a payload twice.  A batch may hold transactions and
  deployments in any order, or deployments, then transactions, then one withdrawal.  Excluded
  are the batches that the code is known not to replay (section 6): a call together
  with another execution, transactions and a withdrawal without a deployment; and those it
  replays in another order: two withdrawals, or anything after one.
* `Recoverable`: no crash between two saves, no replay that reth rejects, no checkpoint taken
  without reth's answer (each is in section 6); and if the node may be stopped, the owner sets
  no root, for then reth's root is not the one in the file, and not both a stop and failing reads
  among more than one mishap: a poll that fails after an unwind has not saved, and L1 may
  shrink to just the block where the node is, which then counts as up to date.
* `NoUpdates`, for `Restores` only: the owner sets no root.  Such a root is nobody's
  transactions, so that no unwinding leads to it.

The run `processor_reorg` meets all hypotheses of `Derives`, `Restores` and `WellTyped`, and
`processor_faults` those of `DerivesWithoutMishaps`.  `WellTyped` needs `DInv`:
that a checkpoint's L2 block is one of the chain is a part of `CheckpointsFit`, and a fault of
`"checkpoint"` makes it false.

### RPC proxies

`IInv` of `RpcProxiesProofs` speaks of four things.  Of each call, by its stage: what it has
been told, since when its answer is on the way, whether the receipt it asks for existed, whether
its hint was confirmed (`Typed`, `Routed`, `Timely`, `Existing`, `Confirmed`).  Of what L1 and the
builder have (`Origins`): some call sent it and either was told so or lost the answer.
Of the order (`InOrder`, `PastTheBuilder`): a batch that waits for another was
not started before that one ended, so what it found confirmed was confirmed when it was
routed.  And of the books (`Waiting`, `Taking`, `Due`, `Keeping` for the hints on L2 and their
timers, `Caches` for the two caches: an entry expires at most a flight and a
lifetime after it was read).  A request handler starts the calls of its batch one after the
other, each of which may change caches and hints; the batch is a recursive function over its
calls, and the invariant is proved for each state it passes through.

`HintedGoThroughBuilder` is stated from L1's side: every transaction in L1's pool was sent
by some call to L1 that either goes elsewhere or did not wait for the confirmation of its
hint.

### State manager

What reth has is `All`, the pool and what is mined.  `NoncesFit` speaks of it, and three things
keep it (`IInv` of `StateManagerProofs`).

1. The operator's transactions in `All` have different nonces, all below what `operatorNonce`
   has counted and callers are about to count; those missing are as many as transactions were
   replaced (`BooksOK`).  A caller has read a nonce that is at most `operatorNonce`; if reth
   accepts its transaction, the nonce is either a new one or that of the transaction it
   replaces.
2. The canonical blocks hold the nonces from 0 on, without a gap, and so do the blocks every caller has
   built upon or is about to commit (`BlocksOK`): a block is packed from what waits on
   its parent, and takes the operator's next nonces in their order.  That is proved along
   the loop that packs it, for any pool and any gas limit.
3. Therefore, when a caller commits a block that displaces its sibling, what falls out of the
   chain is again in the pool, and of what reth drops as outdated a mined transaction has the
   nonce (lemma `PoolKeeps`).  The nonces in `All` are only added to.

`NoncesFit` is stated, and proved, for callers none of which rolls back: with a rollback it is
false (section 6).

### Dashboard

`IInv` of `DashboardProofs` says that heads, queries and pollers are somewhere on the
chain; that the list of events is sorted by block and log index over both chains and has each
log once (`ListOK`); and that, unless an answer came after its session, what is drawn is a
diagram (`DiagramOK`): the columns taken in a lane are all below the next one and no
two nodes have the same, the managers are there, edges end at nodes that are.  The list
may hold events with the same block and index, of two chains; where one is inserted among
them does not matter for the order within a chain, which is strict.  A batch of logs is
handled one after the other, each through discovery rules that may draw several
nodes and edges; the invariant is proved for every store the loop passes through.

The replay and the bundles are computed from the list, so `IInv` is enough for both; what is
proved is what their loops compute, by induction over the loop's counter.

*The replay* (`ReplayShowsTheEvents`).  `Shows(t, es)` relates a table to a set of events: its
rows have exactly what is shown of the hashes that the events load, one row for what only one
entry shows, and that row is struck out exactly if its hash is consumed.  Every turn of the replay keeps it
(`StepShows`): rows age without being struck, an event that loads adds the rows of its
deferred entries, each at its place (`DeferredOf`, `LoadingShows`), one that consumes strikes
the first row of its hash (`ConsumingShows`).  That there is such a row is where
`Gapless` is needed: positions on the chain grow along the list, so if the last event shown is
at the position that says how many are shown, every earlier log is before it in the list
(`KnownBefore`).  The theorem supposes `LogsOfContracts`: only L1 posts batches and
only L2 loads tables, an entry L2 loads has an action, and what is consumed on a chain was loaded
there before (`Rollups.sol:481` and `CrossChainManagerL2.sol:252` emit `ExecutionConsumed`
when they remove an entry from their table).

*Bundles* (`BundlesAreTheComponents`).  `Rooted` says that parents are a forest: each id has
a root, and every step towards it loses depth.  So `find` ends, at the root (`FindsRoot`),
and `union` puts one tree below the root of another (`JoiningOf`).  After all hashes, events
that share one are in one tree (`Together`), and a set of ids that no hash leads out
of has all of a tree or nothing of it (`Respects`): the first makes bundles closed, the
second makes them minimal.  That a bundle is complete is decided from its own events;
as no hash leads out of it, all events give the same answer (`CompleteInside`).

### What stays with TLC

Liveness and `FairSpec` (the proof system has no fairness), among it `Converges`; `Backed` (it
is about the tables of the run); the builder's properties (roots are folds over
transactions); and `FeeComesDown` (it depends on the ratio of fees, gas and tries in the run).

## 6. Where code and documents differ

Three runs are expected to find a violation; each is a statement of the repository that
the code does not keep.

1. **A scope revert does not restore the root** (`rollups_revert_doc`).  `README.md:235`
   says that scope reverts restore state roots to pre-scope values.
   `_handleScopeRevert` (`Rollups.sol:558`) writes the root that the scope had reached.
   Balances and all other rollups are those of before the scope.
2. **Calls in a batch are dropped** (`processor_batch_calls`).  Two executions in one
   L1 block go through `replayBatchExecution`, which decodes `executeL2TX` only
   (`event-processor.ts:872`); a cross-chain call among them is never replayed.
   `STATE_TRANSITION_SPEC.md:40` wants one L2 block per call.
3. **A speculation stays in the pool** (`builder_leftover`).  `execution-planner.ts:129` says
   of the speculative plan that the canonical chain is unchanged and no rollback is needed,
   but `speculateAction` sends the transaction to reth's pool (`rpc-server.ts:404`), on the
   builder's node and, when the plan is verified, on the proofer's.  Nothing takes it out when
   its bundle is given up: the next speculated block contains it, and L1 gets a root that no
   replay of L1's events gives.

Other things the models reproduce, for which no run is kept:

*L2 manager and fullnode*

* Three answers under one L2 key are used in the order first, third, second
  (`CrossChainManagerL2.sol:246`); a comment in the tests expects first in, first out.
* A reorg may be missed: only the last `REORG_CHECK_DEPTH` hashes below the last block are
  compared (`event-processor.ts:1244`), and the replay at start-up compares none, so a node
  that was away derives from a mixture of two chains.  After a crash between two saves the
  node replays everything over the chain it has (`fullnode.ts:111`).  `DerivedFromL1` is
  therefore stated for hashes that are all canonical, and crashes are in
  `TrackedMatchesL1` only.
* A withdrawal and a transaction in one L1 block leave the tracked root at the
  accounting event's root, because accounting events follow the batch whatever
  their place (`event-processor.ts:347`).
* In a batch with withdrawals, transactions that neither deploy nor withdraw are
  mined only if something is deployed (`event-processor.ts:932`); if the node executed the
  deployment already, the withdrawal is given up too.
* If the L2 height cannot be read, the checkpoint says 0 and a later reorg unwinds to
  genesis with the tracked root of the checkpoint (`event-processor.ts:1197`).
* A hash that cannot be read leaves a gap for good (`event-processor.ts:1184`).
* `isSynced` compares the tracked root only; after a failed replay it holds of a node
  whose EVM is behind (`event-processor.ts:1523`).

*Builder, planner, proofer*

* `RootIsReplay` fails outside of `Serial`: with two requests in flight the plans share a
  reth; a call that is prepared after a rollback that missed is planned on what should be
  gone, and signed if the proofer's pool still has it too; with the ECDSA verifier a rejected
  proof leaves the simulation; an L1 transaction mines its simulation; entries of a batch
  that change nothing are skipped by followers.
* The rollback after a failed submission sends a decimal number where hexadecimal is
  read (and nothing for 0), so it rolls back too little or is refused.
* A preparation is used again from the cache after its batch was mined alone.  On
  Anvil and a mempool, a call that was given up may be made twice
  (`PreparedCalls` is what `ExecutedOnce` leaves out).
* On a mempool L1 the batch and a user's L1 transaction are always in different blocks, and the
  answer is a success all the same (`SuccessMeansExecuted` is about L2 transactions).  The
  stand-in for bundles on Anvil reports success for transactions that reverted.
* Bundles that begin with the same deployment of a proxy share their first hash, and
  inclusion is judged by it (`bundle-submitter.ts:73`).
* Under the ECDSA verifier, batches, L1 transactions and Anvil's preparations are proved
  without block parameters and refused on L1.
* `simulateAction` gives `0x` as the result of an L2 transaction (`rpc-server.ts:799`) and
  the planner writes `0x` for a deployment (`execution-planner.ts:292`), but the proofer
  compares it with what `eth_call` returns (`proofer.ts:641`, `rpc-server.ts:411`): with the
  mock verifier a transaction whose callee returns data is always refused, and so is, with
  either verifier, a withdrawal that must deploy its proxy first.
* Two proofs at once roll back each other's re-execution (`proofer.ts:303`).
* `trackedL2Block` is not saved, and is 0 after a restart.  When another transaction's
  simulation separates a prepared call from its landing, it remembers a head that is not the
  tracked root, and `EnsureEvm` does nothing from then on.

*State manager*

* Two callers that read one nonce, the second after a full block, are both accepted and both
  counted, but the second transaction replaces the first (`state-manager.ts:980`): the
  replaced caller waits in vain, `operatorNonce` is one ahead of what reth has, and later
  system transactions wait behind the gap until the nonce is read again from the chain.
* Two large transactions at once may be reported as "not in txpool" although one was mined
  (`state-manager.ts:1080`).
* A rollback that restarts reth while a system transaction is in flight leaves
  `operatorNonce` apart from reth's (`NoncesFit` and `FeeComesDown` leave out groups with a
  rollback).
* The rollback's fallback leaves fewer blocks than asked for; the comment that the event
  processor mines them again (`state-manager.ts:628`) is not what it does.
* The fee has a fixed point at 7 wei, below which full blocks do not raise it; the copy
  in `builder.ts:554` has no smallest step.

*Proxies and dashboard*

* A nonce read before one's own transaction is given for fifteen seconds after it
  (`rpc-proxy.ts:92` counts it among the methods that are safe to cache); block numbers can
  go backwards; after failures there is no limit to an answer's age.
* A transaction whose first answer was lost is sent again, and refused as known.  A
  transaction for which the builder answers an error may be executed later, in a bundle that it
  gave up (`builder.ts:766`).
* The timer of an older hint deletes a newer one (`l2-rpc-proxy.ts:247`); a failed
  submission has used the hint up; hints on L1 are never removed.
* Events between the history query and the creation of the pollers are never shown, and
  those that both see are handled twice and give two rows in the live table.
* The replay strikes the first of two equal entries twice, the live table both; rows of an
  earlier batch stay, as if active, after the contract has deleted its table
  (`Rollups.sol:221`); rows are matched by eight digits of their hash
  (`useDerivedState.ts:149`, `executionTableSlice.ts:40`), so the wrong one may be struck out;
  an answer that comes
  after a disconnect is drawn into the cleared store.


## 7. What is not modelled

* Widths: `uint256` arithmetic is that of naturals (no reachable sum comes near), and the
  truncation of rollup ids to `uint64` in `Rollups.sol:639` and `Bridge.sol:276` is left
  out.  A call whose destination is the manager itself, by which a proxy could
  enter `newScope` directly.  Hash collisions.
* The token bridge and the wrapped tokens.  What the bridge relies on, that a call happens on
  both sides or on none, is what the contracts' and the fullnode's properties are about; its
  own books are not modelled.
* State manager: `rollbackToBlock` (`state-manager.ts:534`) stops reth, rewinds it and starts it
  again in three steps; the reads in between are part of them.
* Fullnode: timestamps, ether bookkeeping and its correction, `saveOperatorNonce`,
  persistence formats.  RPC server: its reads, the ether and nonce queries.  Functions
  without a caller (`speculateBatch`, `deployProxy`, `planL1ToL2Call`, the RPC
  `sendSystemTx`) and branches that no path reaches (`builder.ts:1795`, `:1934`).
* Builder: that two requests read one wallet nonce and both sign with it (reading it and
  submitting are one action), fees and tips, restart of its process, status and error texts, the scripts'
  own mining on Anvil (`deferMine`).
* Proxies: the older form of hints, requests that are no JSON, status pages, CORS; the
  backoff is shorter than a tick, and a flight is bounded by `MaxFlight`.
* Dashboard: highlighting, titles, labels and details, `callFlowBuilder` and the architecture
  diagrams, selection, reorgs.  A poll is one step that never fails: the client library
  asks and hands over the logs, `useChainWatcher` only handles what it gets; a response that
  is lost loses its logs, and a node may forget a filter.
* Proof generation proper: a proof is accepted or not, for a set of entries and a block.
* The Rust fullnode, the rest of the UI, the static visualizator, scripts, deployment,
  the block explorer, logging, tests.  Except for the first they have no state machine
  a property could be about.

The models cover what the components decide; the lines they are mapped to are three tenths
of the implementation, the rest being formats, logging, wiring and the parts above.


## 8. Plan

1. **Token bridge** (`Bridge`): two bridges and the calls between them; wrapped supply is
   backed by locked tokens at the token's origin, with reverted and undelivered calls, the
   single `canonicalBridgeAddress` and the truncated `originalRollupId`.
2. **Derivation** as an abstract specification of the fullnode that `EventProcessor` and a
   model of the ethrex implementation both implement.
3. **Ether of the fullnode**: L1's balance of the rollup and the operator's reserve make up the
   genesis supply (`event-processor.ts:1530`, `state-manager.ts:725`).
4. **Proofs**: `SerialRootIsReplay` and `ExecutedOnce` of the builder, over the lemmas on
   replayed events that `DerivationProofs` has.
