----------------------------- MODULE RollupSums -----------------------------
(***************************************************************************)
(* Sums over the rollups 1..MaxRollups: _applyStateDeltas adds up the      *)
(* ether deltas of an entry, and the ledger adds up the balances.          *)
(***************************************************************************)
EXTENDS Integers

CONSTANT MaxRollups  \* bound: rollups that are ever created

ASSUME MaxRollupsNat == MaxRollups \in Nat

(* f[1] + ... + f[MaxRollups] *)
Total(f) ==
    LET sum[n \in 0..MaxRollups] == IF n = 0 THEN 0 ELSE sum[n - 1] + f[n]
    IN sum[MaxRollups]
=============================================================================
