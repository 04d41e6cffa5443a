------------------------------- MODULE L2Replay -------------------------------
(***************************************************************************)
(* What an L1 event means for the L2 chain, and the L2 blocks as which a   *)
(* fullnode replays it (event-processor.ts).  A state root stands for what *)
(* it commits to: the sequence of L2 transactions.                         *)
(*                                                                         *)
(* An event is a record with a kind, the name of the L2 transaction or     *)
(* call it is about, and the roots before and after it.                    *)
(*                                                                         *)
(* A definition named Mutant_X is X with a plausible mistake in it; no     *)
(* specification uses one.                                                 *)
(***************************************************************************)
EXTENDS Integers, Sequences, FiniteSets, SequencesExt

Kinds == {"call", "tx", "deploy", "withdrawal", "accounting", "update"}

(* An L2 transaction; "preload" is the one that loads a withdrawal's entry. *)
Transaction == [kind: Kinds \cup {"preload"}, name: STRING]

(* The kinds that a user signs; the others are the operator's. *)
Signed == {"tx", "deploy", "withdrawal"}

(* The transaction its user signed, taken out of the executeL2TX call. *)
OriginalTransaction(e) == [kind |-> e.kind, name |-> e.name]

(* The operator loads the result that the call of a withdrawal had on L1,  *)
(* under the hash of the call which the proxy on L2 will make.             *)
PreloadL2ToL1Entry(e) == [kind |-> "preload", name |-> e.name]

(* A call from L1: the operator loads the entry for the result that a dry  *)
(* run foretells and makes the call, in one block; here one transaction.   *)
IncomingCall(e) == [kind |-> "call", name |-> e.name]

(* The L2 transactions that an event calls for. *)
Transactions(e) ==
    CASE e.kind = "withdrawal"        -> <<PreloadL2ToL1Entry(e), OriginalTransaction(e)>>
      [] e.kind \in {"tx", "deploy"} -> <<OriginalTransaction(e)>>
      [] e.kind = "call"              -> <<IncomingCall(e)>>
      [] OTHER                        -> <<>>

ChangesState(e) == e.currentState # e.newState

(* The elements of a sequence at some of its places, and those of some     *)
(* kinds, in their order.                                                  *)
Picked(es, places) == FlattenSeq([i \in DOMAIN es |-> IF i \in places THEN <<es[i]>> ELSE <<>>])
OfKind(es, kinds) == Picked(es, {i \in DOMAIN es : es[i].kind \in kinds})

Mutant_NoPreload(e) == <<SubSeq(Transactions(e), Len(Transactions(e)), Len(Transactions(e)))>>

(* replayExecution: the L2 blocks that one event is replayed as. *)
Replayed(e) ==
    IF e.kind = "withdrawal" THEN <<SubSeq(Transactions(e), 1, 1), SubSeq(Transactions(e), 2, 2)>>
    ELSE <<Transactions(e)>>

(* The builder's node has executed what it planned, and that is accepted   *)
(* whatever the timestamp of its block.                                    *)
PreExecuted(actual, e) == actual = e.newState

(* An event that changes no state, or whose root the node has already,     *)
(* needs no block.  Hashes and roots that do not fit are logged.           *)
ReplayExecution(actual, e) ==
    IF ~ChangesState(e) \/ PreExecuted(actual, e) THEN <<>> ELSE Replayed(e)

(* Only executeL2TX calls are decoded in a batch. *)
Decoded(batch) == OfKind(batch, Kinds \ {"call"})

(* replayBatchExecution: what neither deploys a proxy nor withdraws shares *)
(* the block of the deployments when there is a withdrawal.                *)
BatchBlocks(batch) ==
    LET l2txs       == Decoded(batch)
        deploys     == OfKind(l2txs, {"deploy"})
        withdrawals == OfKind(l2txs, {"withdrawal"})
        others      == OfKind(l2txs, {"tx"})
        Plain(es)   == [i \in DOMAIN es |-> OriginalTransaction(es[i])]
        Loads(es)   == [i \in DOMAIN es |-> PreloadL2ToL1Entry(es[i])]
    IN IF l2txs = <<>> THEN <<>>
       ELSE IF withdrawals = <<>> THEN <<Plain(l2txs)>>
       ELSE (IF deploys = <<>> THEN <<>> ELSE <<Plain(deploys \o others)>>)
               \o <<Loads(withdrawals), Plain(withdrawals)>>

(* reth refuses a signed transaction whose nonce is used. *)
Accepts(actual, transactions) ==
    \A t \in ToSet(transactions) : t.kind \in Signed => t \notin ToSet(actual)
=============================================================================
