------------------------- MODULE CrossChainActions -------------------------
(***************************************************************************)
(* The action records and the scope arithmetic both managers share:        *)
(* Rollups.sol on L1 and CrossChainManagerL2.sol on every L2.  An action   *)
(* hash is keccak256(abi.encode(action)); the hash is taken to be          *)
(* injective, so the model uses the action itself where the code uses its  *)
(* hash.  Calldata, transactions and return data are members of Data.      *)
(* A definition named Mutant_X is X with a plausible mistake in it; no     *)
(* specification uses one.                                                 *)
(***************************************************************************)
EXTENDS Naturals, Sequences

CONSTANTS
    Addresses,    \* accounts and contracts, on any chain
    ZeroAddress,  \* address(0): never a caller, the default of every mapping
    Data,         \* calldata, RLP transactions and return data
    EmptyData,    \* the empty byte string
    RollupIds     \* the ids a rollup may have; MAINNET_ROLLUP_ID is 0

ASSUME ActionConstants ==
    /\ ZeroAddress \in Addresses
    /\ EmptyData \in Data
    /\ RollupIds \subseteq Nat \ {0}

MAINNET_ROLLUP_ID == 0
ChainIds == RollupIds \cup {MAINNET_ROLLUP_ID}

ActionType == {"CALL", "RESULT", "L2TX", "REVERT", "REVERT_CONTINUE"}

Scope == Seq(Nat)

Action ==
    [actionType: ActionType, rollupId: ChainIds, destination: Addresses,
     value: Nat, data: Data, failed: BOOLEAN, sourceAddress: Addresses,
     sourceRollup: ChainIds, scope: Scope]

(* The proxy of an account: its CREATE2 salt is this pair. *)
Proxy == Addresses \X ChainIds

-----------------------------------------------------------------------------
(* The actions the managers build themselves before they hash them. *)

CallAction(rollupId, destination, value, data, sourceAddress, sourceRollup, scope) ==
    [actionType |-> "CALL", rollupId |-> rollupId, destination |-> destination,
     value |-> value, data |-> data, failed |-> FALSE,
     sourceAddress |-> sourceAddress, sourceRollup |-> sourceRollup,
     scope |-> scope]

Unaddressed(type, rollupId, data, failed, scope) ==
    [actionType |-> type, rollupId |-> rollupId, destination |-> ZeroAddress,
     value |-> 0, data |-> data, failed |-> failed,
     sourceAddress |-> ZeroAddress, sourceRollup |-> MAINNET_ROLLUP_ID,
     scope |-> scope]

L2TxAction(rollupId, tx)            == Unaddressed("L2TX", rollupId, tx, FALSE, <<>>)
ResultAction(rollupId, data, failed) == Unaddressed("RESULT", rollupId, data, failed, <<>>)
RevertContinueAction(rollupId)      ==
    Unaddressed("REVERT_CONTINUE", rollupId, EmptyData, TRUE, <<>>)

(* Written by the prover only: the action that makes a scope revert. *)
RevertAction(rollupId, scope)       == Unaddressed("REVERT", rollupId, EmptyData, FALSE, scope)

-----------------------------------------------------------------------------
(* Scope arithmetic: a scope is the path of a call in the call tree. *)

AppendToScope(scope, element) == Append(scope, element)

Mutant_LengthsMatch(a, b) == Len(a) = Len(b)

ScopesMatch(a, b) == a = b

IsChildScope(current, target) ==
    /\ Len(target) > Len(current)
    /\ \A i \in 1..Len(current) : current[i] = target[i]

Mutant_LastElement(current, target) == AppendToScope(current, target[Len(target)])

NextScope(current, target) == AppendToScope(current, target[Len(current) + 1])
=============================================================================
