------------------------------ MODULE RollupNode ------------------------------
(***************************************************************************)
(* A fullnode as its clients see it (rpc-server.ts and what it drives in   *)
(* state-manager.ts): the L2 chain, the transactions waiting in reth, the  *)
(* tracked root and the L2 block remembered with it.  Each operator is a   *)
(* request to it and gives the node afterwards, or the answer and it.      *)
(*                                                                         *)
(* Roots are sequences of L2 transactions, as in L2Replay.  Timestamps,    *)
(* fees and gas do not matter to them.                                     *)
(***************************************************************************)
EXTENDS L2Replay

CONSTANTS
    Reverting,      \* names of the transactions and calls that revert on L2
    Returning       \* names of the transactions whose callee returns data

(* chain: the L2 blocks; pool: user transactions in reth's txpool; tracked *)
(* and trackedBlock: stateRoot and trackedL2Block; seen: how much of the   *)
(* log of L1 the event processor has read.                                 *)
NodeOf(chain, root, block) ==
    [chain |-> chain, pool |-> <<>>, tracked |-> root, trackedBlock |-> block, seen |-> 0]

Actual(n) == FlattenSeq(n.chain)
Height(n) == Len(n.chain)

Mutant_NonceUnchecked(n, t) == FALSE

(* reth refuses a transaction whose nonce is used. *)
Taken(n, t) == ~Accepts(Actual(n), <<t>>)

(* sendRawTransaction: "already known" is no error. *)
WithTx(n, t) == IF t \in ToSet(n.pool) THEN n ELSE [n EXCEPT !.pool = Append(@, t)]

(* mineBlock takes whatever is in the pool; the operator's transactions,   *)
(* which pay no tip, come last.                                            *)
MineWith(n, systemTxs) ==
    [n EXCEPT !.chain = Append(@, SelectSeq(n.pool, LAMBDA t : ~Taken(n, t)) \o systemTxs),
              !.pool = <<>>]
MineBlock(n) == MineWith(n, <<>>)

(* An answer with no result data. *)
Answer(n, ok, root) == [node |-> n, ok |-> ok, root |-> root, data |-> FALSE]

(* syncrollups_simulateAction: the transaction is mined, and stays mined   *)
(* when it reverts.  What it returns is not known.                         *)
SimulateAction(n, t) ==
    IF Taken(n, t) THEN Answer(n, FALSE, n.tracked)
    ELSE LET m == MineBlock(WithTx(n, t)) IN Answer(m, t.name \notin Reverting, Actual(m))

(* The data that an eth_call of the transaction returns: the deployment of *)
(* a proxy returns the address.                                            *)
Returns(t) == t.name \notin Reverting /\ (t.kind = "deploy" \/ t.name \in Returning)

(* syncrollups_speculateAction: the root of a block that is not committed; *)
(* the transaction stays in the pool.  A revert is not noticed.            *)
SpeculateAction(n, t) ==
    IF Taken(n, t) THEN Answer(n, FALSE, n.tracked)
    ELSE LET m == WithTx(n, t)
         IN [Answer(m, TRUE, Actual(MineBlock(m))) EXCEPT !.data = Returns(t)]

(* The call made by the operator, to learn its result. *)
DryRunSucceeds(call) == call.name \notin Reverting

(* The entry for that result is loaded and the call made, in one block,    *)
(* whatever the result is.                                                 *)
ExecuteIncoming(n, call) == MineWith(n, <<call>>)

(* syncrollups_simulateL1Call: of a call that fails the root is the        *)
(* tracked one.                                                            *)
SimulateL1Call(n, call) ==
    LET m == ExecuteIncoming(n, call)
    IN IF DryRunSucceeds(call) THEN Answer(m, TRUE, Actual(m)) ELSE Answer(m, FALSE, n.tracked)

(* sendRawTransaction for one after the other, until one is refused. *)
SendAll(n, txs) ==
    FoldLeft(LAMBDA sent, t : IF sent.ok /\ ~Taken(n, t)
                              THEN [sent EXCEPT !.node = WithTx(@, t)]
                              ELSE [sent EXCEPT !.ok = FALSE],
             Answer(n, TRUE, n.tracked), txs)

(* syncrollups_simulateBatch: what was sent before a refusal stays in the  *)
(* pool, and nothing is mined.                                             *)
SimulateBatch(n, txs) ==
    LET sent == SendAll(n, txs)
    IN IF sent.ok THEN Answer(MineBlock(sent.node), TRUE, Actual(MineBlock(sent.node)))
       ELSE sent

(* syncrollups_systemCall *)
SystemCall(n, t) == MineWith(n, <<t>>)

(* rollbackToBlock by the path that works, reth stage unwind: later blocks *)
(* are gone; reth may or may not find its pool again.                      *)
Rollback(n, target) ==
    IF Height(n) <= target THEN {n}
    ELSE {[n EXCEPT !.chain = SubSeq(@, 1, target), !.pool = pool] : pool \in {n.pool, <<>>}}

(* A rollback may leave everything as it is, or end one block too low; the *)
(* node then remembers the lower block.                                    *)
RollbackMisses(n, target) ==
    IF Height(n) <= target \/ target = 0 THEN {}
    ELSE {n, [n EXCEPT !.chain = SubSeq(@, 1, target - 1), !.trackedBlock = target - 1]}

(* syncrollups_revertToSnapshot reads its parameter as hexadecimal, also a *)
(* number given in decimal: 12 becomes 18.  It refuses 0.                  *)
AsHex(height) == 16 * (height \div 10) + (height % 10)
RevertToDecimal(n, height) == IF height = 0 THEN {n} ELSE Rollback(n, AsHex(height))

(* An L2 transaction is replayed in a block of its own, if reth takes it;  *)
(* what the operator does for a call or a withdrawal always is.            *)
ReplayL2TX(n, t) == IF Taken(n, t) THEN n ELSE MineBlock(WithTx(n, t))
ReplaySystem(n, t) == MineWith(n, <<t>>)
Play(n, t) == IF t.kind \in Signed THEN ReplayL2TX(n, t) ELSE ReplaySystem(n, t)

(* Whatever came of the replay, the tracked root moves on, with the head.  *)
TrackReplay(n, e) == [n EXCEPT !.tracked = e.newState, !.trackedBlock = Height(n)]

(* replayExecution of one event; one that changes nothing leaves the       *)
(* remembered block alone.                                                 *)
FollowOne(n, e) ==
    IF ~ChangesState(e) THEN [n EXCEPT !.tracked = e.newState]
    ELSE TrackReplay(IF PreExecuted(Actual(n), e) THEN n
                     ELSE FoldLeft(Play, n, Transactions(e)), e)

(* The blocks of a batch; when a transaction is refused the rest is given  *)
(* up.                                                                     *)
PlayBatch(n, blocks) ==
    LET PlayBlock(done, block) ==
            LET sent == SendAll(done.node, SelectSeq(block, LAMBDA t : t.kind \in Signed))
            IN IF ~done.ok THEN done
               ELSE IF ~sent.ok THEN sent
               ELSE [sent EXCEPT !.node = MineWith(@, SelectSeq(block, LAMBDA t : t.kind \notin Signed))]
    IN FoldLeft(PlayBlock, Answer(n, blocks # <<>>, n.tracked), blocks)

(* The tracked root moves on, the remembered block only after a batch that *)
(* was not given up.                                                       *)
TrackBatch(played, root) ==
    [played.node EXCEPT !.tracked = root,
                        !.trackedBlock = IF played.ok THEN Height(played.node) ELSE @]

(* replayBatchExecution of the events of an L1 block that change the root. *)
(* It does not look whether the node has executed them already.            *)
FollowBatch(n, events) == TrackBatch(PlayBatch(n, BatchBlocks(events)), Last(events).newState)

(* The events of one L1 block. *)
FollowBlock(n, events) ==
    LET changes == SelectSeq(events, ChangesState)
    IN IF Len(changes) > 1
       THEN [FollowBatch(n, changes) EXCEPT !.tracked = Last(events).newState]
       ELSE FoldLeft(FollowOne, n, events)

(* One poll of the event processor: all it has not read of the log. *)
Follow(n, log) ==
    LET Events(b) == SelectSeq(SubSeq(log, n.seen + 1, Len(log)), LAMBDA e : e.block = b)
        blocks    == SetToSortSeq({log[i].block : i \in (n.seen + 1)..Len(log)},
                                  LAMBDA a, b : a < b)
    IN [FoldLeft(LAMBDA m, b : FollowBlock(m, Events(b)), n, blocks) EXCEPT !.seen = Len(log)]

(* A node that is started again with the root it persisted resumes; which  *)
(* block that root belongs to is not persisted.                            *)
Resumed(n) == [n EXCEPT !.trackedBlock = 0]
=============================================================================
