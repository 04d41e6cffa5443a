------------------------------ MODULE MCRollups ------------------------------
(***************************************************************************)
(* Instances of Rollups for TLC.  Rollup 1 has one or two scripted tables; *)
(* everything around them (who calls, with what value, what a called       *)
(* contract does and returns, who re-enters, when gas runs out) is free.   *)
(***************************************************************************)
EXTENDS Rollups, TLC

CONSTANTS zero, alice, target,   \* addresses
          d, none,               \* data and the empty data
          immediate,             \* actionHash == bytes32(0)
          key1, nokey      \* verification keys

MCAddresses == {zero, alice, target}
MCData == {d, none}
MCRollupIds == 1..MaxRollups
MCCallers == {alice}
MCProxies == {<<target, 1>>}
MCValues == {0, 1}
MCInitialRoots == {"s0"}
NoRoots == {}
MCVKs == {nokey, key1}
MCRoots == {"none", "s0", "s1", "s2", "s3", "s4", "s5"}

(* The ether an L2 state accounts for, as its prover sees it. *)
EtherOf == [root \in MCRoots |->
    CASE root \in {"s1", "s2", "s5"} -> 1 [] root = "s4" -> 2 [] OTHER -> 0]

Delta(from, to, ether) == [currentState |-> from, newState |-> to, etherDelta |-> ether]
One(delta) == 1 :> delta
Entry(deltas, action, next) ==
    [stateDeltas |-> deltas, actionHash |-> action, nextAction |-> next]

Ok == ResultAction(1, none, FALSE)
DepositCall == CallAction(1, target, 1, d, alice, 0, <<>>)
Outgoing(v, scope) == CallAction(0, target, v, d, alice, 1, scope)
Returned == ResultAction(0, d, FALSE)
Reverted == ResultAction(0, d, TRUE)
Unpaid   == ResultAction(0, none, TRUE)

(* A user deposits, then an L2 transaction withdraws; while the withdrawal *)
(* is being paid out, the payee may deposit again.  Two entries share the  *)
(* hash of the successful result and differ in the state they expect.      *)
DepositWithdraw ==
    << Entry(One(Delta("s0", "s1", 1)), DepositCall, Ok),
       Entry(One(Delta("s2", "s3", -1)), Returned, Ok),
       Entry(One(Delta("s1", "s2", 0)), L2TxAction(1, d), Outgoing(1, <<>>)),
       Entry(One(Delta("s2", "s1", 0)), Reverted, Ok),
       Entry(One(Delta("s2", "s4", 1)), DepositCall, Ok),
       Entry(One(Delta("s4", "s1", -1)), Returned, Ok) >>

(* Immediate entries: a state commitment, a transfer between rollups, and  *)
(* two the contract must refuse: ether from nothing, and an overdraft.     *)
Commit   == << Entry(One(Delta("s1", "s5", 0)), immediate, Ok) >>
Transfer == << Entry(1 :> Delta("s1", "s3", -1) @@ 2 :> Delta("s0", "s1", 1), immediate, Ok),
               Entry(One(Delta("s3", "s0", 0)), immediate, Ok) >>
Inflate  == << Entry(One(Delta("s0", "s0", 0)), immediate, Ok),
               Entry(One(Delta("s0", "s1", 1)), immediate, Ok) >>
Overdraw == << Entry(1 :> Delta("s0", "s1", 1) @@ 2 :> Delta("s0", "s0", -1), immediate, Ok) >>

(* Nested scopes around a deposited ether: a call at [0] that pays, a call *)
(* at [0,1] inside it, a revert of [0] that continues at the sibling [1,0].*)
Deposit == Entry(One(Delta("s0", "s1", 1)), DepositCall, Ok)
Scopes ==
    << Deposit,
       Entry(One(Delta("s1", "s2", 0)), L2TxAction(1, d), Outgoing(1, <<0>>)),
       Entry(One(Delta("s2", "s3", -1)), Returned, Outgoing(0, <<0, 1>>)),
       Entry(One(Delta("s2", "s1", 0)), Reverted, Ok),
       Entry(One(Delta("s3", "s3", 0)), Returned, RevertAction(1, <<0>>)),
       Entry(One(Delta("s3", "s3", 0)), Reverted, Outgoing(0, <<1, 0>>)),
       Entry(One(Delta("s3", "s4", 0)), RevertContinueAction(1), Outgoing(0, <<1, 0>>)),
       Entry(One(Delta("s3", "s5", 0)), ResultAction(0, none, FALSE), Ok) >>

(* A call the contract cannot pay, and calls from the proxy of address(0). *)
FromZero == CallAction(0, target, 0, d, zero, 1, <<>>)
Edges ==
    << Entry(One(Delta("s0", "s2", 0)), L2TxAction(1, d), Outgoing(1, <<0>>)),
       Entry(One(Delta("s2", "s3", 0)), Unpaid, RevertAction(1, <<>>)),
       Entry(One(Delta("s3", "s3", 0)), RevertContinueAction(1), Ok),
       Entry(One(Delta("s0", "s4", 0)), L2TxAction(1, none), FromZero),
       Entry(One(Delta("s4", "s5", 0)), Returned, FromZero),
       Entry(One(Delta("s4", "s0", 0)), Reverted, RevertAction(1, <<>>)) >>

ScopeBatches == {Scopes, Edges}

EtherBatches == {DepositWithdraw, Transfer, Inflate, Overdraw}

(* What owners do while scopes are open and in between. *)
OwnerBatches == ScopeBatches \cup {Commit}
MCOwners == {alice, target}
MCOwnerRoots == {"s2"}

(* The balance the contract keeps for a rollup is the ether its L2 state   *)
(* accounts for: no interleaving of payouts, re-entrant deposits and       *)
(* rollbacks books a proven transition twice or on top of the wrong state. *)
Backed == \A r \in RollupIds :
    evm.rollups[r].etherBalance = EtherOf[evm.rollups[r].stateRoot]
=============================================================================
