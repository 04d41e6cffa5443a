--------------------------- MODULE RollupsLedger ---------------------------
(***************************************************************************)
(* What the L1 contract promises, one step per transaction: an ether       *)
(* ledger over rollups and a table of one-shot entries that live for one   *)
(* block.  Re-entrancy, scopes and reverts are gone: a transaction either  *)
(* did not happen or moved ether into or out of the contract by exactly    *)
(* what it booked on the rollups.                                          *)
(***************************************************************************)
EXTENDS RollupSums

CONSTANT Entries  \* every entry a batch may hold

VARIABLES
    balances,  \* what each rollup owns
    held,      \* what the contract holds
    table,     \* entries that may still be executed
    posted,    \* block of the batch the table came with
    block      \* the current block

ledger == <<balances, held, table, posted, block>>

Solvent == held = Total(balances)

Init ==
    /\ balances = [r \in 1..MaxRollups |-> 0]
    /\ held = 0
    /\ table = {}
    /\ posted = 0
    /\ block = 1

NextBlock ==
    /\ block' = block + 1
    /\ UNCHANGED <<balances, held, table, posted>>

(* One batch per block; it redistributes ether and replaces the table. *)
PostBatch ==
    /\ posted # block
    /\ posted' = block
    /\ balances' \in [1..MaxRollups -> Nat]
    /\ Total(balances') = Total(balances)
    /\ table' \subseteq Entries
    /\ UNCHANGED <<held, block>>

(* Entries are consumed only in the block of their batch. *)
Transact ==
    /\ posted = block
    /\ table' \subseteq table
    /\ balances' \in [1..MaxRollups -> Nat]
    /\ held' - held = Total(balances') - Total(balances)
    /\ UNCHANGED <<posted, block>>

Next == NextBlock \/ PostBatch \/ Transact

Spec == Init /\ [][Next]_ledger
=============================================================================
