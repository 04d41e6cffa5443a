------------------------------- MODULE Rollups -------------------------------
(***************************************************************************)
(* The L1 contract Rollups.sol: rollup state roots and ether balances, the *)
(* proven execution table, and the scope navigation that consumes it while *)
(* calling out to arbitrary contracts.                                     *)
(*                                                                         *)
(* A transaction is a sequence of small steps.  evm is what the EVM rolls  *)
(* back when a frame reverts; stack is the stack of Solidity frames still  *)
(* running, each with the evm it started from.  While the top frame is an  *)
(* outgoing call, the called contract is in control: it may re-enter any   *)
(* external function, return or revert.  With an empty stack, anybody may  *)
(* send a transaction and the chain may move to the next block.            *)
(*                                                                         *)
(* A definition named Mutant_X is X with a plausible mistake in it; no     *)
(* specification uses one.                                                 *)
(***************************************************************************)
EXTENDS CrossChainActions, RollupSums, FiniteSets

CONSTANTS
    Roots,             \* state roots
    ZeroRoot,          \* bytes32(0): the root of a rollup nobody created
    VKs,               \* verification keys
    ZeroVK,            \* bytes32(0): the key of a rollup nobody created
    Immediate,         \* actionHash == bytes32(0)
    Batches,           \* entry sequences the prover may prove
    Callers,           \* accounts that use the contract
    UserProxies,       \* bound: proxies deployed by createCrossChainProxy
    CallValues,        \* bound: values a caller may send
    InitialRoots,      \* bound: roots a rollup may be created with
    OwnerRoots,        \* bound: roots an owner may set without a proof
    MaxHeld,           \* bound: ether that callers may bring in
    MaxDepth,          \* bound: frames on the stack
    MaxBlock           \* bound: blocks

ASSUME RollupsConstants ==
    /\ RollupIds = 1..MaxRollups
    /\ ZeroRoot \in Roots
    /\ ZeroVK \in VKs
    /\ Immediate \notin Action
    /\ Callers \subseteq Addresses \ {ZeroAddress}
    /\ UserProxies \subseteq Proxy
    /\ CallValues \subseteq Nat
    /\ InitialRoots \subseteq Roots
    /\ OwnerRoots \subseteq Roots
    /\ MaxHeld \in Nat /\ MaxDepth \in Nat /\ MaxBlock \in Nat

VARIABLES
    evm,          \* storage, transient storage and balance of the contract
    stack,        \* running Solidity frames, the innermost last
    blockNumber,  \* block.number
    proof         \* external: the last proof a prover produced

vars == <<evm, stack, blockNumber, proof>>

-----------------------------------------------------------------------------
(* Data. *)

RollupConfig == [owner: Addresses, verificationKey: VKs, stateRoot: Roots,
                 etherBalance: Nat]

RollupConfigs == [RollupIds -> RollupConfig]

StateDelta == [currentState: Roots, newState: Roots, etherDelta: Int]

(* What a prover writes into a table names rollups wherever the contract   *)
(* reads one.                                                              *)
NextActions == {a \in Action : a.actionType \in {"L2TX", "REVERT"} => a.rollupId \in RollupIds}

(* Every entry the prover may prove.  An entry holds at most one delta of  *)
(* a rollup, as the planner writes it.                                     *)
ExecutionEntry == UNION {{entries[i] : i \in DOMAIN entries} : entries \in Batches}

ASSUME EntryShape ==
    /\ \A entries \in Batches : entries \in Seq(ExecutionEntry)
    /\ \A e \in ExecutionEntry :
          /\ e = [stateDeltas |-> e.stateDeltas, actionHash |-> e.actionHash,
                  nextAction |-> e.nextAction]
          /\ DOMAIN e.stateDeltas \subseteq RollupIds
          /\ e.stateDeltas \in [DOMAIN e.stateDeltas -> StateDelta]
          /\ e.actionHash \in Action \cup {Immediate}
          /\ e.nextAction \in NextActions

(* loaded and consumed are history: the deferred entries of the batch that *)
(* wrote the table, and those _findAndApplyExecution has removed from it.  *)
World == [rollupCounter: Nat, rollups: RollupConfigs,
          executions: Seq(ExecutionEntry), authorizedProxies: SUBSET Proxy,
          lastStateUpdateBlock: Nat, etherDelta: Int, held: Nat,
          loaded: Seq(ExecutionEntry), consumed: Seq(ExecutionEntry)]

(* batch: postBatch; entry: executeCrossChainCall or executeL2TX in        *)
(* _resolveScopes; scope: newScope; call: the call _processCallAtScope     *)
(* makes.  action is the frame's nextAction (the CALL being made, in a     *)
(* call frame), todo the entries postBatch has not processed.              *)
FrameKind == {"batch", "entry", "scope", "call"}
Frame == [kind: FrameKind, scope: Scope, action: Action,
          todo: Seq(ExecutionEntry), before: World]

NoAction == Unaddressed("RESULT", MAINNET_ROLLUP_ID, EmptyData, FALSE, <<>>)

BatchFrame(entries)     == [kind |-> "batch", scope |-> <<>>, action |-> NoAction,
                            todo |-> entries, before |-> evm]
EntryFrame(action)      == [kind |-> "entry", scope |-> <<>>, action |-> action,
                            todo |-> <<>>, before |-> evm]
ScopeFrame(scope, action, w) == [kind |-> "scope", scope |-> scope, action |-> action,
                                 todo |-> <<>>, before |-> w]
CallFrame(action, w)    == [kind |-> "call", scope |-> <<>>, action |-> action,
                            todo |-> <<>>, before |-> w]

Top  == stack[Len(stack)]
Pop  == SubSeq(stack, 1, Len(stack) - 1)
Push(frame) == Append(stack, frame)
Running(kind) == stack # <<>> /\ Top.kind = kind

(* The innermost frame returns action to the frame that called it. *)
ReturnToParent(action) ==
    [Pop EXCEPT ![Len(stack) - 1].action = action]

NoProof == [entries |-> <<>>, verificationKeys |-> [r \in RollupIds |-> ZeroVK],
            blockNumber |-> 0]

-----------------------------------------------------------------------------
(* Ether. *)

EtherDeltas(deltas) ==
    [r \in RollupIds |-> IF r \in DOMAIN deltas THEN deltas[r].etherDelta ELSE 0]

Balances(w) == [r \in RollupIds |-> w.rollups[r].etherBalance]

Mutant_NoOverdraftCheck(w, deltas) == Total(EtherDeltas(deltas)) = w.etherDelta
Mutant_NoEtherCheck(w, deltas) ==
    \A r \in DOMAIN deltas : w.rollups[r].etherBalance + deltas[r].etherDelta >= 0

(* _applyStateDeltas reverts unless this holds. *)
DeltasApply(w, deltas) ==
    /\ \A r \in DOMAIN deltas : w.rollups[r].etherBalance + deltas[r].etherDelta >= 0
    /\ Total(EtherDeltas(deltas)) = w.etherDelta

Mutant_NoReset(w, deltas) ==
    [w EXCEPT
       !.rollups = [r \in RollupIds |->
            IF r \in DOMAIN deltas
            THEN [w.rollups[r] EXCEPT !.stateRoot = deltas[r].newState,
                                      !.etherBalance = @ + deltas[r].etherDelta]
            ELSE w.rollups[r]]]

ApplyStateDeltas(w, deltas) ==
    [w EXCEPT
       !.rollups = [r \in RollupIds |->
            IF r \in DOMAIN deltas
            THEN [w.rollups[r] EXCEPT !.stateRoot = deltas[r].newState,
                                      !.etherBalance = @ + deltas[r].etherDelta]
            ELSE w.rollups[r]],
       !.etherDelta = 0]

-----------------------------------------------------------------------------
(* The execution table. *)

Mutant_IgnoreStates(w, deltas) == DOMAIN deltas \subseteq RollupIds

StatesMatch(w, deltas) ==
    \A r \in DOMAIN deltas : w.rollups[r].stateRoot = deltas[r].currentState

Matching(w, action) ==
    {i \in 1..Len(w.executions) : /\ w.executions[i].actionHash = action
                                  /\ StatesMatch(w, w.executions[i].stateDeltas)}

FirstMatch(w, action) ==
    CHOOSE i \in Matching(w, action) : \A j \in Matching(w, action) : i <= j

Mutant_PopOnly(entries, i) == SubSeq(entries, 1, Len(entries) - 1)

SwapAndPop(entries, i) ==
    [j \in 1..(Len(entries) - 1) |-> IF j = i THEN entries[Len(entries)] ELSE entries[j]]

(* _findAndApplyExecution finds an entry and its deltas apply ... *)
Executable(w, action) ==
    /\ Matching(w, action) # {}
    /\ DeltasApply(w, w.executions[FirstMatch(w, action)].stateDeltas)

(* ... and then it returns this action and leaves this state. *)
NextAction(w, action) == w.executions[FirstMatch(w, action)].nextAction

Execute(w, action) ==
    LET i == FirstMatch(w, action)
    IN [ApplyStateDeltas(w, w.executions[i].stateDeltas) EXCEPT
            !.executions = SwapAndPop(w.executions, i),
            !.consumed = Append(w.consumed, w.executions[i])]

-----------------------------------------------------------------------------
Init ==
    /\ evm = [rollupCounter |-> 1,
              rollups |-> [r \in RollupIds |->
                  [owner |-> ZeroAddress, verificationKey |-> ZeroVK,
                   stateRoot |-> ZeroRoot, etherBalance |-> 0]],
              executions |-> <<>>, authorizedProxies |-> {},
              lastStateUpdateBlock |-> 0, etherDelta |-> 0, held |-> 0,
              loaded |-> <<>>, consumed |-> <<>>]
    /\ stack = <<>>
    /\ blockNumber = 1
    /\ proof = NoProof

(* External code is in control: between transactions, or inside a call. *)
Outside == stack = <<>> \/ Running("call")
Deeper  == Len(stack) < MaxDepth

-----------------------------------------------------------------------------
(* Functions that finish without calling out. *)

CreateRollup(owner, verificationKey, root) ==
    /\ Outside
    /\ evm.rollupCounter \in RollupIds
    /\ evm' = [evm EXCEPT
                 !.rollupCounter = @ + 1,
                 !.rollups[evm.rollupCounter] =
                    [owner |-> owner, verificationKey |-> verificationKey,
                     stateRoot |-> root, etherBalance |-> 0]]
    /\ UNCHANGED <<stack, blockNumber, proof>>

(* A second deployment to the same CREATE2 address reverts. *)
CreateCrossChainProxy(p) ==
    /\ Outside
    /\ p \notin evm.authorizedProxies
    /\ evm' = [evm EXCEPT !.authorizedProxies = @ \cup {p}]
    /\ UNCHANGED <<stack, blockNumber, proof>>

SetStateByOwner(sender, r, root) ==
    /\ Outside
    /\ evm.rollups[r].owner = sender
    /\ evm' = [evm EXCEPT !.rollups[r].stateRoot = root]
    /\ UNCHANGED <<stack, blockNumber, proof>>

SetVerificationKey(sender, r, key) ==
    /\ Outside
    /\ evm.rollups[r].owner = sender
    /\ evm' = [evm EXCEPT !.rollups[r].verificationKey = key]
    /\ UNCHANGED <<stack, blockNumber, proof>>

TransferRollupOwnership(sender, r, newOwner) ==
    /\ Outside
    /\ evm.rollups[r].owner = sender
    /\ evm' = [evm EXCEPT !.rollups[r].owner = newOwner]
    /\ UNCHANGED <<stack, blockNumber, proof>>

-----------------------------------------------------------------------------
(* postBatch.  The public inputs bind the entries, the keys of the rollups *)
(* and the block, so the verifier accepts exactly a proof of all three.    *)

CurrentKeys == [r \in RollupIds |-> evm.rollups[r].verificationKey]

Created(r) == r < evm.rollupCounter

(* External: a prover proves a batch about rollups that exist, for this    *)
(* block or the next one.                                                  *)
Prove(entries, b) ==
    /\ stack = <<>>
    /\ b \in {blockNumber, blockNumber + 1}
    /\ \A i \in 1..Len(entries) : \A r \in DOMAIN entries[i].stateDeltas : Created(r)
    /\ proof' = [entries |-> entries, verificationKeys |-> CurrentKeys,
                 blockNumber |-> b]
    /\ UNCHANGED <<evm, stack, blockNumber>>

VerifyProof == /\ proof.verificationKeys = CurrentKeys
               /\ proof.blockNumber = blockNumber

Mutant_ManyBatches ==
    /\ Outside /\ Deeper
    /\ VerifyProof
    /\ evm' = [evm EXCEPT !.executions = <<>>, !.loaded = <<>>, !.consumed = <<>>]
    /\ stack' = Push(BatchFrame(proof.entries))
    /\ UNCHANGED <<blockNumber, proof>>

PostBatch ==
    /\ Outside /\ Deeper
    /\ evm.lastStateUpdateBlock # blockNumber
    /\ VerifyProof
    /\ evm' = [evm EXCEPT !.executions = <<>>, !.loaded = <<>>, !.consumed = <<>>]
    /\ stack' = Push(BatchFrame(proof.entries))
    /\ UNCHANGED <<blockNumber, proof>>

Remaining == Top.todo
NextTodo  == [stack EXCEPT ![Len(stack)].todo = Tail(@)]

ImmediateApplies(entry) ==
    StatesMatch(evm, entry.stateDeltas) /\ DeltasApply(evm, entry.stateDeltas)

ProcessImmediate ==
    /\ Running("batch") /\ Remaining # <<>>
    /\ Head(Remaining).actionHash = Immediate
    /\ ImmediateApplies(Head(Remaining))
    /\ evm' = ApplyStateDeltas(evm, Head(Remaining).stateDeltas)
    /\ stack' = NextTodo
    /\ UNCHANGED <<blockNumber, proof>>

ProcessDeferred ==
    /\ Running("batch") /\ Remaining # <<>>
    /\ Head(Remaining).actionHash # Immediate
    /\ evm' = [evm EXCEPT !.executions = Append(@, Head(Remaining)),
                          !.loaded = Append(@, Head(Remaining))]
    /\ stack' = NextTodo
    /\ UNCHANGED <<blockNumber, proof>>

FinishBatch ==
    /\ Running("batch") /\ Remaining = <<>>
    /\ evm' = [evm EXCEPT !.lastStateUpdateBlock = blockNumber]
    /\ stack' = Pop
    /\ UNCHANGED <<blockNumber, proof>>

-----------------------------------------------------------------------------
(* executeCrossChainCall and executeL2TX.  A call that finds no entry      *)
(* reverts before it leaves a trace, so it is no step.                     *)

Mutant_AnyBlock == evm.lastStateUpdateBlock <= blockNumber

InCurrentBlock == evm.lastStateUpdateBlock = blockNumber

Authorized(p) == p \in evm.authorizedProxies /\ p[1] # ZeroAddress

(* _resolveScopes enters the root scope at most once: what comes back is   *)
(* the final result or a failure, even if it is another CALL.              *)
RootScope(action, w) ==
    IF action.actionType = "CALL" THEN <<ScopeFrame(<<>>, action, w)>> ELSE <<>>

Enter(w, action) ==
    /\ Executable(w, action)
    /\ evm' = Execute(w, action)
    /\ stack' = Push(EntryFrame(NextAction(w, action)))
                    \o RootScope(NextAction(w, action), Execute(w, action))
    /\ UNCHANGED <<blockNumber, proof>>

ExecuteCrossChainCall(p, sourceAddress, value, data) ==
    /\ Outside /\ Deeper
    /\ Authorized(p)
    /\ InCurrentBlock
    /\ evm.held + value <= MaxHeld
    /\ Enter([evm EXCEPT !.held = @ + value, !.etherDelta = @ + value],
             CallAction(p[2], p[1], value, data, sourceAddress, MAINNET_ROLLUP_ID, <<>>))

ExecuteL2TX(r, tx) ==
    /\ Outside /\ Deeper
    /\ InCurrentBlock
    /\ Enter(evm, L2TxAction(r, tx))

-----------------------------------------------------------------------------
(* A revert inside an entry point that is not a ScopeReverted: a try/catch *)
(* above it finds at most 4 bytes, or bytes it cannot decode, and reverts  *)
(* in turn, up to whoever made the outermost call of this entry point.     *)

EntryPoint(i) == stack[i].kind \in {"entry", "batch"}

ThisEntry == CHOOSE i \in 1..Len(stack) :
                /\ EntryPoint(i)
                /\ \A j \in (i + 1)..Len(stack) : ~EntryPoint(j)

Abort ==
    /\ evm' = stack[ThisEntry].before
    /\ stack' = SubSeq(stack, 1, ThisEntry - 1)
    /\ UNCHANGED <<blockNumber, proof>>

(* The frame below gets the outcome of action, if the table has one. *)
Answer(w, action) ==
    \/ /\ Executable(w, action)
       /\ evm' = Execute(w, action)
       /\ stack' = ReturnToParent(NextAction(w, action))
       /\ UNCHANGED <<blockNumber, proof>>
    \/ /\ ~Executable(w, action)
       /\ Abort

(* StateRootMismatch, InsufficientRollupBalance or EtherDeltaMismatch. *)
BatchReverts ==
    /\ Running("batch") /\ Remaining # <<>>
    /\ Head(Remaining).actionHash = Immediate
    /\ ~ImmediateApplies(Head(Remaining))
    /\ Abort

(* Any frame of the contract may run out of gas. *)
OutOfGas == stack # <<>> /\ Top.kind # "call" /\ Abort

-----------------------------------------------------------------------------
(* _resolveScopes, once the navigation is over. *)

Succeeded(action) == action.actionType = "RESULT" /\ ~action.failed

ReturnResult ==
    /\ Running("entry")
    /\ Succeeded(Top.action)
    /\ stack' = Pop
    /\ UNCHANGED <<evm, blockNumber, proof>>

CallExecutionFailed ==
    /\ Running("entry")
    /\ ~Succeeded(Top.action)
    /\ Abort

-----------------------------------------------------------------------------
(* newScope: one iteration of its loop. *)

InScope(type) == Running("scope") /\ Top.action.actionType = type
AtTarget      == ScopesMatch(Top.scope, Top.action.scope)
AboveTarget   == IsChildScope(Top.scope, Top.action.scope)

EnterChildScope ==
    /\ InScope("CALL") /\ AboveTarget /\ Deeper
    /\ stack' = Push(ScopeFrame(NextScope(Top.scope, Top.action.scope), Top.action, evm))
    /\ UNCHANGED <<evm, blockNumber, proof>>

SourceProxy(action) == <<action.sourceAddress, action.sourceRollup>>

(* _processCallAtScope deploys the source proxy if it is not registered;   *)
(* the proxy of address(0) never counts as registered.                     *)
NeedsProxy(action) == ~Authorized(SourceProxy(action))
WithSourceProxy(action) ==
    [evm EXCEPT !.authorizedProxies = @ \cup {SourceProxy(action)}]

ProxyCollision ==
    /\ InScope("CALL") /\ AtTarget
    /\ NeedsProxy(Top.action)
    /\ SourceProxy(Top.action) \in evm.authorizedProxies
    /\ Abort

CanCall ==
    /\ InScope("CALL") /\ AtTarget
    /\ NeedsProxy(Top.action) => SourceProxy(Top.action) \notin evm.authorizedProxies

MakeCall ==
    /\ CanCall /\ Deeper
    /\ Top.action.value <= evm.held
    /\ evm' = [WithSourceProxy(Top.action) EXCEPT !.held = @ - Top.action.value]
    /\ stack' = Push(CallFrame(Top.action, WithSourceProxy(Top.action)))
    /\ UNCHANGED <<blockNumber, proof>>

(* The contract cannot pay the value: the call fails without running. *)
AnswerInPlace(w, action) ==
    \/ /\ Executable(w, action)
       /\ evm' = Execute(w, action)
       /\ stack' = [stack EXCEPT ![Len(stack)].action = NextAction(w, action)]
       /\ UNCHANGED <<blockNumber, proof>>
    \/ /\ ~Executable(w, action)
       /\ Abort

CallUnfunded ==
    /\ CanCall
    /\ Top.action.value > evm.held
    /\ AnswerInPlace(WithSourceProxy(Top.action),
                     ResultAction(Top.action.rollupId, EmptyData, TRUE))

(* The called contract returns data, or reverts with it. *)
CallReturns(data) ==
    /\ Running("call")
    /\ Answer([evm EXCEPT !.etherDelta = @ - Top.action.value],
              ResultAction(Top.action.rollupId, data, FALSE))

CallReverts(data) ==
    /\ Running("call")
    /\ Answer(Top.before, ResultAction(Top.action.rollupId, data, TRUE))

(* The scope reverts and carries the continuation out: everything it did   *)
(* is rolled back, the lookup of the continuation included, and the caught *)
(* handler then writes the root it saw into the one rollup named.          *)
RootAtRevert == evm.rollups[Top.action.rollupId].stateRoot

Resume == RevertContinueAction(Top.action.rollupId)

RevertScope ==
    /\ InScope("REVERT") /\ AtTarget
    /\ Executable(evm, Resume)
    /\ evm' = [Top.before EXCEPT !.rollups[Top.action.rollupId].stateRoot = RootAtRevert]
    /\ stack' = ReturnToParent(NextAction(evm, Resume))
    /\ UNCHANGED <<blockNumber, proof>>

NoContinuation ==
    /\ InScope("REVERT") /\ AtTarget
    /\ ~Executable(evm, Resume)
    /\ Abort

(* Anything else is for a scope further out. *)
LeaveScope ==
    /\ Running("scope")
    /\ ~(InScope("CALL") /\ (AboveTarget \/ AtTarget))
    /\ ~(InScope("REVERT") /\ AtTarget)
    /\ stack' = ReturnToParent(Top.action)
    /\ UNCHANGED <<evm, blockNumber, proof>>

-----------------------------------------------------------------------------
NewBlock ==
    /\ stack = <<>>
    /\ blockNumber < MaxBlock
    /\ blockNumber' = blockNumber + 1
    /\ UNCHANGED <<evm, stack, proof>>

Manage ==
    \/ \E owner \in Callers, key \in VKs \ {ZeroVK}, root \in InitialRoots :
          CreateRollup(owner, key, root)
    \/ \E p \in UserProxies : CreateCrossChainProxy(p)
    \/ \E sender \in Callers, r \in RollupIds :
          \/ \E root \in OwnerRoots : SetStateByOwner(sender, r, root)
          \/ \E key \in VKs : SetVerificationKey(sender, r, key)
          \/ \E newOwner \in Callers : TransferRollupOwnership(sender, r, newOwner)

Batch == PostBatch \/ ProcessImmediate \/ ProcessDeferred \/ FinishBatch \/ BatchReverts

Begin ==
    \/ \E p \in evm.authorizedProxies, sender \in Callers, v \in CallValues, d \in Data :
          ExecuteCrossChainCall(p, sender, v, d)
    \/ \E r \in RollupIds, tx \in Data : ExecuteL2TX(r, tx)

Navigate ==
    \/ ReturnResult \/ CallExecutionFailed
    \/ EnterChildScope \/ LeaveScope \/ RevertScope \/ NoContinuation
    \/ ProxyCollision \/ MakeCall \/ CallUnfunded

Callee == \E data \in Data : CallReturns(data) \/ CallReverts(data)

Next ==
    \/ Manage \/ Batch \/ Begin \/ Navigate \/ Callee \/ OutOfGas \/ NewBlock
    \/ \E entries \in Batches, b \in {blockNumber, blockNumber + 1} : Prove(entries, b)

Spec == Init /\ [][Next]_vars

(* Gas bounds every call: the contract's own steps are taken, and a called *)
(* contract cannot keep re-entering for ever, so it returns or reverts     *)
(* sooner or later, at whatever depth, however often the calls it makes    *)
(* itself interrupt it.                                                    *)
Fairness ==
    /\ WF_vars(Batch) /\ WF_vars(Navigate)
    /\ \A n \in 1..MaxDepth : SF_vars(Len(stack) = n /\ Callee)

FairSpec == Spec /\ Fairness

-----------------------------------------------------------------------------
(* Properties. *)

(* Every variable has its type; in particular no rollup's balance and no   *)
(* balance a frame would be rolled back to is negative (README: "Rollup    *)
(* ETH balances cannot go negative").                                      *)
TypeOK ==
    /\ evm \in World
    /\ stack \in Seq(Frame)
    /\ blockNumber \in Nat
    /\ proof \in [entries: Seq(ExecutionEntry), verificationKeys: [RollupIds -> VKs],
                  blockNumber: Nat]

(* The state the frames below frame i see: what frame i started from, or   *)
(* the current state for the position above the top.                       *)
WorldAt(i) == IF i <= Len(stack) THEN stack[i].before ELSE evm

(* Ether the rollups own and the contract does not hold. *)
Gap(w) == Total(Balances(w)) - w.held

(* The ether the contract holds is what it owes its rollups, except for    *)
(* exactly the values it has handed to calls that are still running -- in  *)
(* the current state and in every state a revert would restore.  Between   *)
(* transactions it holds exactly what it owes.                             *)
Accounted ==
    /\ Gap(WorldAt(1)) = 0
    /\ \A i \in 1..Len(stack) :
          Gap(WorldAt(i + 1)) = Gap(WorldAt(i))
              + (IF stack[i].kind = "call" THEN stack[i].action.value ELSE 0)

(* _etherDelta never survives the step that moved the ether: no flow is    *)
(* left for the next, unrelated lookup of the same transaction to absorb.  *)
EtherDeltaSettled == \A i \in 1..(Len(stack) + 1) : WorldAt(i).etherDelta = 0

Count(entries, e) == Cardinality({i \in DOMAIN entries : entries[i] = e})
Elements(entries) == {entries[i] : i \in DOMAIN entries}

(* Every deferred entry of the batch in the table is either still there or *)
(* was consumed, once: swap-and-pop loses and duplicates none, and a       *)
(* revert gives back exactly what it undoes.                               *)
ExactlyOnce ==
    /\ Elements(evm.executions) \cup Elements(evm.consumed) = Elements(evm.loaded)
    /\ \A e \in Elements(evm.loaded) :
          Count(evm.executions, e) + Count(evm.consumed, e) = Count(evm.loaded, e)

(* While an entry point is consuming the table, the table is this block's  *)
(* and no batch replaces it, however the called contracts re-enter.        *)
TableStable ==
    \A i \in 1..Len(stack) :
        stack[i].kind = "entry" =>
            /\ evm.lastStateUpdateBlock = blockNumber
            /\ stack[i].before.loaded = evm.loaded
            /\ \A j \in 1..Len(stack) : stack[j].kind # "batch"

(* A call runs in the frame its scope names, below one frame for every     *)
(* proper prefix of that scope: a revert of any enclosing scope undoes it. *)
CallsInTheirScope ==
    \A i \in 1..Len(stack) :
        stack[i].kind = "call" =>
            LET depth == Len(stack[i].action.scope)
            IN /\ stack[i - depth - 2].kind = "entry"
               /\ \A n \in 0..depth :
                     /\ stack[i - depth - 1 + n].kind = "scope"
                     /\ stack[i - depth - 1 + n].scope = SubSeq(stack[i].action.scope, 1, n)

(* The ledger sees committed states only: what a running transaction would *)
(* be rolled back to.                                                      *)
Ledger == INSTANCE RollupsLedger WITH
    Entries  <- ExecutionEntry,
    balances <- Balances(WorldAt(1)),
    held     <- WorldAt(1).held,
    table    <- Elements(WorldAt(1).executions),
    posted   <- WorldAt(1).lastStateUpdateBlock,
    block    <- blockNumber

(* Whatever called contracts do, the contract behaves as the ledger: each  *)
(* transaction is atomic, books exactly the ether that moved, posts at     *)
(* most one batch per block and executes entries only in their block.      *)
ImplementsLedger == Ledger!Spec

(* README, Security Considerations: "Scope reverts restore rollup state    *)
(* roots to pre-scope values".                                             *)
ScopeRevertRestoresRoot ==
    [][RevertScope =>
         \A r \in RollupIds :
            evm'.rollups[r].stateRoot = Top.before.rollups[r].stateRoot]_vars

(* A transaction ends: navigation does not run in circles. *)
TransactionsEnd == (stack # <<>>) ~> (stack = <<>>)
=============================================================================
