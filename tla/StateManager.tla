----------------------------- MODULE StateManager -----------------------------
(***************************************************************************)
(* What happens inside a fullnode when several callers use it at once      *)
(* (state-manager.ts, and of rpc-server.ts simulateL1ToL2Call and          *)
(* syncrollups_speculateAction).  The event processor and every RPC        *)
(* request run through the same StateManager, one operatorNonce and one    *)
(* reth, without a lock: an action is what a call does between two awaits. *)
(*                                                                         *)
(* reth is external: it keeps the blocks it was given as a tree, follows   *)
(* the fork choice, but not to an ancestor of its head, and takes back     *)
(* into its pool what a reorganisation displaces.  Timestamps are left     *)
(* out: two blocks with the same parent and transactions are the same.     *)
(*                                                                         *)
(* A definition named Mutant_X is X with a plausible mistake in it; no     *)
(* specification uses one.                                                 *)
(***************************************************************************)
EXTENDS Integers, FiniteSets, SequencesExt

CONSTANTS
    Scenarios,      \* each a function from callers to what they ask for
    GasLimit,       \* of a block
    StartFee        \* base fee of the block the callers start from

(* What callers ask for: the method, the gas it uses, the block to go back *)
(* to, and a bound: the blocks mined in 30 seconds (at most 50).           *)
Methods == {"systemCall", "simulateL1Call", "ensureProxyDeployed",
            "broadcastRawTx", "speculateAction", "rollbackToBlock"}

ASSUME StateManagerConstants ==
    /\ \A s \in Scenarios : IsFiniteSet(DOMAIN s) /\ \A c \in DOMAIN s :
          s[c].method \in Methods /\ s[c].gas \in Nat /\ s[c].target \in Nat \ {0}
          /\ s[c].tries \in Nat \ {0}
    /\ GasLimit \in Nat /\ StartFee \in Nat

VARIABLES
    asks,           \* one of Scenarios, for ever
    chain,          \* the canonical blocks, the first being the one at the start
    tree,           \* every chain of blocks reth knows
    pool,           \* its txpool
    replaced,       \* history: how often the pool replaced a transaction of the operator
    up,             \* reth is running and l2Provider is set
    operatorNonce,  \* of the StateManager
    call            \* where each caller is

vars == <<asks, chain, tree, pool, replaced, up, operatorNonce, call>>
reth == <<chain, tree, pool, replaced, up>>

Callers == DOMAIN asks
Method(c) == asks[c].method
IsSystem(c) == Method(c) \in {"systemCall", "simulateL1Call", "ensureProxyDeployed"}
Waits(c) == Method(c) \in {"systemCall", "ensureProxyDeployed", "broadcastRawTx"}

-----------------------------------------------------------------------------
(* Blocks and fees.                                                        *)

GasUsed(txs) == FoldLeft(LAMBDA sum, t : sum + asks[t.by].gas, 0, txs)
Mined(c) == UNION {ToSet(c[i].txs) : i \in DOMAIN c}
NonceAt(c) == Cardinality({t \in Mined(c) : IsSystem(t.by)})

Mutant_NeverFalls(fee, used, limit) ==
    LET target == limit \div 2
    IN IF target = 0 \/ used <= target THEN fee
       ELSE fee + Max({1, ((fee * (used - target)) \div target) \div 8})

(* EIP-1559 *)
ComputeNextBaseFee(fee, used, limit) ==
    LET target == limit \div 2
        Delta(excess) == ((fee * excess) \div target) \div 8
    IN IF target = 0 \/ used = target THEN fee
       ELSE IF used > target THEN fee + Max({1, Delta(used - target)})
       ELSE Max({0, fee - Delta(target - used)})

NextBaseFee(c) == ComputeNextBaseFee(Last(c).fee, GasUsed(Last(c).txs), GasLimit)

(* What reth puts into a block on top of c: the operator's transactions,   *)
(* which pay no tip, last and in the order of their nonces, as long as     *)
(* they pay the base fee.                                                  *)
Best(waiting) ==
    CHOOSE t \in waiting : \A u \in waiting :
        IsSystem(t.by) => IsSystem(u.by) /\ t.nonce <= u.nonce

Fits(c, txs, t) ==
    /\ t.fee >= NextBaseFee(c)
    /\ GasUsed(txs) + asks[t.by].gas <= GasLimit
    /\ IsSystem(t.by) => t.nonce = NonceAt(c) + Cardinality({u \in ToSet(txs) : IsSystem(u.by)})

PackNext(c, s) ==
    LET t == Best(s.left)
    IN [ txs  |-> IF Fits(c, s.txs, t) THEN Append(s.txs, t) ELSE s.txs,
         left |-> s.left \ {t} ]

Packed(c, waiting) ==
    LET s[k \in 0..Cardinality(waiting)] ==
            IF k = 0 THEN [txs |-> <<>>, left |-> waiting] ELSE PackNext(c, s[k - 1])
    IN s[Cardinality(waiting)].txs

(* The pool when new becomes the canonical chain. *)
PoolOn(new) ==
    {t \in pool \cup Mined(chain) : /\ t \notin Mined(new)
                                    /\ IsSystem(t.by) => t.nonce >= NonceAt(new)}

-----------------------------------------------------------------------------
(* Callers. *)

First(method) ==
    CASE method = "rollbackToBlock"     -> "stop"
      [] method = "ensureProxyDeployed" -> "look"
      [] method \in {"systemCall", "simulateL1Call"} -> "price"
      [] OTHER -> "send"

Genesis == [txs |-> <<>>, fee |-> StartFee]
Init ==
    /\ asks \in Scenarios
    /\ chain = <<Genesis>> /\ tree = {<<Genesis>>} /\ pool = {} /\ up = TRUE
    /\ replaced = 0 /\ operatorNonce = 0
    /\ call = [c \in Callers |-> [pc |-> First(Method(c)), fee |-> 2 * StartFee, nonce |-> 0,
                                  sent |-> <<>>, base |-> <<>>, tries |-> 1, answer |-> "none"]]

At(c, pc) == call[c].pc = pc
Becomes(c, new) == call' = [call EXCEPT ![c] = new]
Go(c, pc) == Becomes(c, [call[c] EXCEPT !.pc = pc])
Finish(c, answer) == Becomes(c, [call[c] EXCEPT !.pc = "done", !.answer = answer])

Mutant_KeepsHead(c) == Go(c, "build")

(* mineBlock threw: waitForReceipt goes on, the others give up. *)
MineFailed(c) == IF Waits(c) THEN Go(c, "check") ELSE Finish(c, "failed")

(* ensureProxyDeployed asks for the code, before and after. *)
Deployed(c) == \E t \in Mined(c) : Method(t.by) = "ensureProxyDeployed"
Look(c) ==
    /\ At(c, "look") \/ At(c, "verify")
    /\ IF up /\ Deployed(chain) THEN Finish(c, "ok")
       ELSE IF up /\ At(c, "look") THEN Go(c, "price")
       ELSE Finish(c, "failed")
    /\ UNCHANGED <<reth, operatorNonce, asks>>

(* The base fee of the next block, or 1 gwei without a provider; then the  *)
(* nonce.                                                                  *)
Price(c) ==
    /\ At(c, "price")
    /\ Becomes(c, [call[c] EXCEPT !.pc = "send", !.nonce = operatorNonce,
                                  !.fee = IF up THEN NextBaseFee(chain) ELSE StartFee])
    /\ UNCHANGED <<reth, operatorNonce, asks>>

(* reth refuses a nonce that is used; where one is waiting, it takes the   *)
(* transaction instead of that if the fee is ten percent higher, the       *)
(* default of its pool (there are no tips).                                *)
TxOf(c) == [by |-> c, nonce |-> call[c].nonce, fee |-> call[c].fee]
Rivals(t) == {s \in pool : IsSystem(t.by) /\ IsSystem(s.by) /\ s.nonce = t.nonce}
NonceTaken(t) ==
    IsSystem(t.by) /\ ( \/ t.nonce < NonceAt(chain)
                       \/ \E s \in Rivals(t) : t.fee < (s.fee * 110) \div 100 )

Accept(c, t) ==
    /\ pool' = (pool \ Rivals(t)) \cup {t}
    /\ replaced' = replaced + Cardinality(Rivals(t))
    /\ Becomes(c, [call[c] EXCEPT !.sent = Append(@, t),
                                  !.pc = IF IsSystem(c) THEN "count" ELSE "mine"])

Mutant_CountsRefused(c) ==
    /\ At(c, "send") /\ up
    /\ IF NonceTaken(TxOf(c)) THEN Go(c, "count") /\ UNCHANGED <<pool, replaced>>
       ELSE Accept(c, TxOf(c))
    /\ UNCHANGED <<chain, tree, up, operatorNonce, asks>>

Send(c) ==
    /\ At(c, "send")
    /\ IF ~up \/ NonceTaken(TxOf(c)) THEN Finish(c, "failed") /\ UNCHANGED <<pool, replaced>>
       ELSE Accept(c, TxOf(c))
    /\ UNCHANGED <<chain, tree, up, operatorNonce, asks>>

(* The send was answered.  A simulated call sends loadExecutionTable and   *)
(* executeIncomingCrossChainCall before it mines.                          *)
Count(c) ==
    /\ At(c, "count")
    /\ operatorNonce' = operatorNonce + 1
    /\ Go(c, IF Method(c) = "simulateL1Call" /\ Len(call[c].sent) < 2 THEN "price" ELSE "mine")
    /\ UNCHANGED <<reth, asks>>

(* mineBlock: read the head ... *)
ReadHead(c) ==
    /\ At(c, "mine")
    /\ IF up THEN Becomes(c, [call[c] EXCEPT !.pc = "build", !.base = chain]) ELSE MineFailed(c)
    /\ UNCHANGED <<reth, operatorNonce, asks>>

(* ... have a block built on it, unless it is an ancestor by now; if it    *)
(* was displaced, it becomes the head again ...                            *)
Build(c) ==
    LET base == call[c].base
    IN /\ At(c, "build")
       /\ IF ~up \/ base \notin tree \/ IsStrictPrefix(base, chain)
          THEN MineFailed(c) /\ UNCHANGED reth
          ELSE LET block == [txs |-> Packed(base, PoolOn(base)), fee |-> NextBaseFee(base)]
               IN /\ chain' = base /\ pool' = PoolOn(base) /\ UNCHANGED <<tree, replaced, up>>
                  /\ IF Method(c) = "speculateAction" THEN Finish(c, "ok")
                     ELSE Becomes(c, [call[c] EXCEPT !.pc = "commit", !.base = Append(base, block)])
       /\ UNCHANGED <<operatorNonce, asks>>

(* ... and make it the head. *)
Commit(c) ==
    LET new == call[c].base
    IN /\ At(c, "commit")
       /\ IF ~up \/ Front(new) \notin tree THEN MineFailed(c) /\ UNCHANGED reth
          ELSE /\ tree' = tree \cup {new}
               /\ IF IsPrefix(new, chain) THEN UNCHANGED <<chain, pool>>
                  ELSE chain' = new /\ pool' = PoolOn(new)
               /\ UNCHANGED <<replaced, up>>
               /\ IF Waits(c) THEN Go(c, "check") ELSE Finish(c, "ok")
       /\ UNCHANGED <<operatorNonce, asks>>

(* The receipt; a second deployment of the proxy has reverted. *)
Reverted(t) ==
    /\ Method(t.by) = "ensureProxyDeployed"
    /\ \E s \in Mined(chain) : Method(s.by) = "ensureProxyDeployed" /\ s.nonce < t.nonce
CheckReceipt(c) ==
    LET t == Last(call[c].sent)
    IN /\ At(c, "check")
       /\ IF ~up \/ (t \in Mined(chain) /\ Reverted(t)) THEN Finish(c, "failed")
          ELSE IF t \notin Mined(chain) THEN Go(c, "pool")
          ELSE IF Method(c) = "ensureProxyDeployed" THEN Go(c, "verify")
          ELSE Finish(c, "ok")
       /\ UNCHANGED <<reth, operatorNonce, asks>>

(* There is none: txpool_status, and once more. *)
CheckPool(c) ==
    /\ At(c, "pool")
    /\ IF up /\ pool = {} THEN Finish(c, "not in txpool")
       ELSE IF call[c].tries < asks[c].tries THEN Becomes(c, [call[c] EXCEPT !.pc = "mine", !.tries = @ + 1])
       ELSE Finish(c, "not mined")
    /\ UNCHANGED <<reth, operatorNonce, asks>>

(* The provider is gone at once, for every caller. *)
StopEngine == up' = FALSE

(* rollbackToBlock: reth does not go back to an ancestor, and is stopped.  *)
Stop(c) ==
    /\ At(c, "stop")
    /\ IF ~up THEN Finish(c, "failed") /\ UNCHANGED up
       ELSE IF Len(chain) <= asks[c].target THEN Finish(c, "ok") /\ UNCHANGED up
       ELSE StopEngine /\ Go(c, "unwind")
    /\ UNCHANGED <<chain, tree, pool, replaced, operatorNonce, asks>>

(* reth stage unwind may fail; reth may or may not find its pool again,    *)
(* and may not answer within thirty seconds: the call fails, but nobody    *)
(* stops waiting for reth.                                                 *)
Unwind(c) ==
    /\ At(c, "unwind")
    /\ chain' \in {SubSeq(chain, 1, asks[c].target), chain}
    /\ tree' = {SubSeq(chain', 1, i) : i \in 1..Len(chain')}
    /\ pool' \in {pool, {}}
    /\ \/ up' = TRUE /\ Go(c, "resync")
       \/ up' = FALSE /\ Finish(c, "startup timeout")
    /\ UNCHANGED <<replaced, operatorNonce, asks>>

(* It answers after all: there is a provider, and the nonce is the old one. *)
ComesUp(c) ==
    /\ ~up /\ call[c].answer = "startup timeout" /\ \A d \in Callers : ~At(d, "unwind")
    /\ up' = TRUE
    /\ UNCHANGED <<chain, tree, pool, replaced, operatorNonce, asks, call>>

(* The end of startEngine. *)
Resync(c) ==
    /\ At(c, "resync")
    /\ operatorNonce' = NonceAt(chain)
    /\ Finish(c, "ok")
    /\ UNCHANGED <<reth, asks>>

-----------------------------------------------------------------------------
Step(c) ==
    Look(c) \/ Price(c) \/ Send(c) \/ Count(c) \/ ReadHead(c) \/ Build(c) \/ Commit(c)
      \/ CheckReceipt(c) \/ CheckPool(c) \/ Stop(c) \/ Unwind(c)
      \/ ComesUp(c) \/ Resync(c)
Next == \E c \in Callers : Step(c)

Spec == Init /\ [][Next]_vars

(* The process runs on; a call that is not done can take its next step. *)
FairSpec == Spec /\ WF_vars(Next)

-----------------------------------------------------------------------------
Steady == \A c \in Callers : Method(c) # "rollbackToBlock"

(* Whoever sends at the same time and whatever is displaced: the           *)
(* operator's nonces in reth never repeat, none is ahead of what the       *)
(* StateManager has counted or is about to count, and one is missing for   *)
(* every transaction the pool replaced and for nothing else.  (A replaced  *)
(* transaction is counted, and so is the one that replaced it: the nonce   *)
(* after theirs is never used, and nothing behind it is mined.)            *)
Operators == {t \in pool \cup Mined(chain) : IsSystem(t.by)}
NoncesFit ==
    LET known == operatorNonce + Cardinality({c \in Callers : At(c, "count")})
        nonces == {t.nonce : t \in Operators}
    IN Steady => /\ nonces \subseteq 0..known - 1
                 /\ Cardinality(nonces) = Cardinality(Operators)
                 /\ Cardinality(nonces) + replaced = known

(* A system transaction is priced for the next block and may miss it when  *)
(* another caller's block raises the fee; the blocks mined while waiting   *)
(* bring the fee down again before the wait is over, unless a third caller *)
(* waits that displaces them, or a replaced transaction left a gap.        *)
FeeComesDown ==
    Steady /\ replaced = 0 /\ Cardinality({c \in Callers : Waits(c)}) <= 2
        => \A c \in Callers : call[c].answer # "not mined"

(* Every caller gets an answer: no call keeps another one waiting, and     *)
(* mining for a receipt has an end.                                        *)
Answered == <>(\A c \in Callers : At(c, "done"))
=============================================================================
