------------------------- MODULE CrossChainManagerL2 -------------------------
(***************************************************************************)
(* The contract CrossChainManagerL2.sol of one L2: a table of answers that *)
(* the system address loads, keyed by action, and the scope navigation     *)
(* that consumes it while calling out to arbitrary contracts.  There are   *)
(* no state roots here, nothing expires, and ether enters and leaves the   *)
(* rollup through the reserve of the system address.                       *)
(*                                                                         *)
(* evm, stack and the frames are those of Rollups: evm is what the EVM     *)
(* rolls back, stack the Solidity frames still running.                    *)
(*                                                                         *)
(* A definition named Mutant_X is X with a plausible mistake in it; no     *)
(* specification uses one.                                                 *)
(***************************************************************************)
EXTENDS CrossChainActions, Integers, FiniteSets

CONSTANTS
    ROLLUP_ID,      \* the rollup this contract belongs to
    Tables,         \* entry sequences the system address may load
    IncomingCalls,  \* calls from other chains it may deliver
    MessageValues,  \* bound: ether it may send along with one
    Callers,        \* accounts that call through proxies
    UserProxies,    \* bound: proxies deployed by createCrossChainProxy
    CallValues,     \* bound: values a caller may send
    Reserve,        \* ether of the system address at genesis
    MaxLoads,       \* bound: tables loaded
    MaxDepth        \* bound: frames on the stack

Entries == UNION {{entries[i] : i \in DOMAIN entries} : entries \in Tables}

(* The keys of the mapping _executions that are ever written. *)
Hashes == {e.actionHash : e \in Entries}

ASSUME L2Constants ==
    /\ ROLLUP_ID \in RollupIds
    /\ \A entries \in Tables : entries \in Seq(Entries)
    /\ \A e \in Entries : /\ e = [actionHash |-> e.actionHash, nextAction |-> e.nextAction]
                          /\ e.actionHash \in Action /\ e.nextAction \in Action
    /\ \A call \in IncomingCalls : /\ call \in Action
                                   /\ call.actionType = "CALL"
                                   /\ call.rollupId = ROLLUP_ID
                                   /\ ~call.failed
    /\ Callers \subseteq Addresses \ {ZeroAddress}
    /\ UserProxies \subseteq Proxy
    /\ CallValues \subseteq Nat /\ MessageValues \subseteq Nat
    /\ Reserve \in Nat /\ MaxLoads \in Nat /\ MaxDepth \in Nat

VARIABLES
    evm,    \* storage of the contract and the ether it and the system hold
    stack,  \* running Solidity frames, the innermost last
    loads   \* tables loaded so far

vars == <<evm, stack, loads>>

-----------------------------------------------------------------------------
(* Data.  loaded and consumed are history: per key, the entries ever       *)
(* pushed and the entries _consumeExecution has taken, in order.           *)
Queues == [Hashes -> Seq(Entries)]

World == [executions: Queues, pendingEntryCount: Nat, authorizedProxies: SUBSET Proxy,
          held: Nat, system: Nat, loaded: Queues, consumed: Queues]

FrameKind == {"entry", "scope", "call"}
Frame == [kind: FrameKind, scope: Scope, action: Action, before: World]

NewFrame(kind, scope, action, w) ==
    [kind |-> kind, scope |-> scope, action |-> action, before |-> w]

Top           == stack[Len(stack)]
Pop           == SubSeq(stack, 1, Len(stack) - 1)
Push(frame)   == Append(stack, frame)
Running(kind) == stack # <<>> /\ Top.kind = kind
Outside       == stack = <<>> \/ Running("call")
Deeper        == Len(stack) < MaxDepth

(* The innermost frame returns action to the frame that called it. *)
ReturnToParent(action) == [Pop EXCEPT ![Len(stack) - 1].action = action]

(* Ether in the hands of everybody but the system and the contract. *)
Circulating(w) == Reserve - w.system - w.held

-----------------------------------------------------------------------------
(* The execution table. *)

PushExecution(w, e) ==
    [w EXCEPT !.executions[e.actionHash] = Append(@, e),
              !.pendingEntryCount = @ + 1,
              !.loaded[e.actionHash] = Append(@, e)]

Load(w, entries) ==
    LET pushed[n \in 0..Len(entries)] ==
            IF n = 0 THEN w ELSE PushExecution(pushed[n - 1], entries[n])
    IN pushed[Len(entries)]

Mutant_PopLast(queue) == SubSeq(queue, 1, Len(queue) - 1)

(* The first entry leaves and the last one takes its place. *)
TakeFirst(queue) ==
    [i \in 1..(Len(queue) - 1) |-> IF i = 1 THEN queue[Len(queue)] ELSE queue[i]]

Answered(w, action) == action \in Hashes /\ w.executions[action] # <<>>

NextAction(w, action) == w.executions[action][1].nextAction

Mutant_NotCounted(w, action) ==
    [w EXCEPT !.executions[action] = TakeFirst(@),
              !.consumed[action] = Append(@, w.executions[action][1])]

ConsumeExecution(w, action) ==
    [w EXCEPT !.executions[action] = TakeFirst(@),
              !.pendingEntryCount = @ - 1,
              !.consumed[action] = Append(@, w.executions[action][1])]

-----------------------------------------------------------------------------
NoEntries == [key \in Hashes |-> <<>>]

Init ==
    /\ evm = [executions |-> NoEntries, pendingEntryCount |-> 0,
              authorizedProxies |-> {}, held |-> 0, system |-> Reserve,
              loaded |-> NoEntries, consumed |-> NoEntries]
    /\ stack = <<>>
    /\ loads = 0

(* The system address is an account without code: it only starts           *)
(* transactions, and paying it never fails or calls back.                  *)
LoadExecutionTable(entries) ==
    /\ stack = <<>>
    /\ loads < MaxLoads
    /\ evm' = Load(evm, entries)
    /\ loads' = loads + 1
    /\ UNCHANGED stack

(* A second deployment to the same CREATE2 address reverts. *)
CreateCrossChainProxy(p) ==
    /\ Outside
    /\ p \notin evm.authorizedProxies
    /\ evm' = [evm EXCEPT !.authorizedProxies = @ \cup {p}]
    /\ UNCHANGED <<stack, loads>>

Authorized(p) == p \in evm.authorizedProxies /\ p[1] # ZeroAddress

(* _resolveScopes enters the root scope if the action is a CALL. *)
ResolveScopes(action, w) ==
    Push(NewFrame("entry", <<>>, action, evm))
        \o (IF action.actionType = "CALL"
            THEN <<NewFrame("scope", <<>>, action, w)>> ELSE <<>>)

(* The fallback of a proxy passes the sender, its calldata and its ether   *)
(* to the manager as a call to the account the proxy stands for.           *)
Forwarded(p, sender, value, data) ==
    CallAction(p[2], p[1], value, data, sender, ROLLUP_ID, <<>>)

(* A call that finds no entry reverts before it leaves a trace, so it is   *)
(* no step.  The ether goes back to the system address at once.            *)
ExecuteCrossChainCall(p, sender, value, data) ==
    /\ Outside /\ Deeper
    /\ Authorized(p)
    /\ value <= Circulating(evm)
    /\ LET call  == Forwarded(p, sender, value, data)
           paid  == [evm EXCEPT !.system = @ + value]
           after == ConsumeExecution(paid, call)
       IN /\ Answered(paid, call)
          /\ evm' = after
          /\ stack' = ResolveScopes(NextAction(paid, call), after)
          /\ UNCHANGED loads

(* The ether sent along is not compared with the value of the call: what   *)
(* is missing the contract takes from what it holds, what is over stays.   *)
ExecuteIncomingCrossChainCall(call, sent) ==
    /\ stack = <<>>
    /\ sent <= evm.system
    /\ LET funded == [evm EXCEPT !.system = @ - sent, !.held = @ + sent]
       IN /\ evm' = funded
          /\ stack' = ResolveScopes(call, funded)
    /\ UNCHANGED loads

-----------------------------------------------------------------------------
(* A revert inside an entry point that is not a ScopeReverted passes every *)
(* try/catch above it, up to whoever called this entry point.              *)
ThisEntry == CHOOSE i \in 1..Len(stack) :
                /\ stack[i].kind = "entry"
                /\ \A j \in (i + 1)..Len(stack) : stack[j].kind # "entry"

Abort ==
    /\ evm' = stack[ThisEntry].before
    /\ stack' = SubSeq(stack, 1, ThisEntry - 1)
    /\ UNCHANGED loads

(* Any frame of the contract may run out of gas. *)
OutOfGas == stack # <<>> /\ Top.kind # "call" /\ Abort

Succeeded(action) == action.actionType = "RESULT" /\ ~action.failed

ReturnResult ==
    /\ Running("entry")
    /\ Succeeded(Top.action)
    /\ stack' = Pop
    /\ UNCHANGED <<evm, loads>>

CallExecutionFailed ==
    /\ Running("entry")
    /\ ~Succeeded(Top.action)
    /\ Abort

-----------------------------------------------------------------------------
(* newScope: one iteration of its loop. *)

InScope(type) == Running("scope") /\ Top.action.actionType = type
AtTarget      == ScopesMatch(Top.scope, Top.action.scope)
AboveTarget   == IsChildScope(Top.scope, Top.action.scope)

EnterChildScope ==
    /\ InScope("CALL") /\ AboveTarget /\ Deeper
    /\ stack' = Push(NewFrame("scope", NextScope(Top.scope, Top.action.scope), Top.action, evm))
    /\ UNCHANGED <<evm, loads>>

SourceProxy(action) == <<action.sourceAddress, action.sourceRollup>>

(* The proxy of address(0) never counts as registered. *)
NeedsProxy(action) == ~Authorized(SourceProxy(action))
WithSourceProxy(action) ==
    [evm EXCEPT !.authorizedProxies = @ \cup {SourceProxy(action)}]
Collides(action) == NeedsProxy(action) /\ SourceProxy(action) \in evm.authorizedProxies

Mutant_Credit(value) == TRUE

(* A call with more value than the contract has fails without running. *)
Funded(value) == value <= evm.held

ProxyCollision ==
    /\ InScope("CALL") /\ AtTarget
    /\ Collides(Top.action)
    /\ Abort

(* executeOnBehalf, called by the manager, hands the ether and control to  *)
(* the destination.                                                        *)
MakeCall ==
    /\ InScope("CALL") /\ AtTarget /\ Deeper
    /\ ~Collides(Top.action)
    /\ Funded(Top.action.value)
    /\ LET w == WithSourceProxy(Top.action)
       IN /\ evm' = [w EXCEPT !.held = @ - Top.action.value]
          /\ stack' = Push(NewFrame("call", <<>>, Top.action, w))
    /\ UNCHANGED loads

(* The result of a call is the key of what happens next. *)
CallUnfunded ==
    /\ InScope("CALL") /\ AtTarget
    /\ ~Collides(Top.action)
    /\ ~Funded(Top.action.value)
    /\ LET w      == WithSourceProxy(Top.action)
           result == ResultAction(Top.action.rollupId, EmptyData, TRUE)
       IN \/ /\ Answered(w, result)
             /\ evm' = ConsumeExecution(w, result)
             /\ stack' = [stack EXCEPT ![Len(stack)].action = NextAction(w, result)]
             /\ UNCHANGED loads
          \/ ~Answered(w, result) /\ Abort

Answer(w, result) ==
    \/ /\ Answered(w, result)
       /\ evm' = ConsumeExecution(w, result)
       /\ stack' = ReturnToParent(NextAction(w, result))
       /\ UNCHANGED loads
    \/ ~Answered(w, result) /\ Abort

CallReturns(data) ==
    /\ Running("call")
    /\ Answer(evm, ResultAction(Top.action.rollupId, data, FALSE))

Mutant_EffectsSurvive(data) ==
    /\ Running("call")
    /\ Answer([Top.before EXCEPT !.executions = evm.executions],
              ResultAction(Top.action.rollupId, data, TRUE))

CallReverts(data) ==
    /\ Running("call")
    /\ Answer(Top.before, ResultAction(Top.action.rollupId, data, TRUE))

(* The revert carries the continuation out; everything the scope did is    *)
(* rolled back, the removal of the continuation's own entry included.      *)
Resume == RevertContinueAction(Top.action.rollupId)

RevertScope ==
    /\ InScope("REVERT") /\ AtTarget
    /\ Answered(evm, Resume)
    /\ evm' = Top.before
    /\ stack' = ReturnToParent(NextAction(evm, Resume))
    /\ UNCHANGED loads

NoContinuation ==
    /\ InScope("REVERT") /\ AtTarget
    /\ ~Answered(evm, Resume)
    /\ Abort

(* Anything else is for a scope further out. *)
LeaveScope ==
    /\ Running("scope")
    /\ ~(InScope("CALL") /\ (AboveTarget \/ AtTarget))
    /\ ~(InScope("REVERT") /\ AtTarget)
    /\ stack' = ReturnToParent(Top.action)
    /\ UNCHANGED <<evm, loads>>

-----------------------------------------------------------------------------
System ==
    \/ \E entries \in Tables : LoadExecutionTable(entries)
    \/ \E call \in IncomingCalls, sent \in MessageValues :
          ExecuteIncomingCrossChainCall(call, sent)

Users ==
    \/ \E p \in UserProxies : CreateCrossChainProxy(p)
    \/ \E p \in evm.authorizedProxies, sender \in Callers, v \in CallValues, d \in Data :
          ExecuteCrossChainCall(p, sender, v, d)

Navigate ==
    \/ ReturnResult \/ CallExecutionFailed
    \/ EnterChildScope \/ LeaveScope \/ RevertScope \/ NoContinuation
    \/ ProxyCollision \/ MakeCall \/ CallUnfunded

Callee == \E d \in Data : CallReturns(d) \/ CallReverts(d)

Next == System \/ Users \/ Navigate \/ Callee \/ OutOfGas

Spec == Init /\ [][Next]_vars

-----------------------------------------------------------------------------
(* Properties. *)

(* Every variable has its type; no balance, no counter and none that a     *)
(* revert would restore is negative.                                       *)
TypeOK ==
    /\ evm \in World
    /\ stack \in Seq(Frame)
    /\ loads \in Nat

(* What frame i would be rolled back to; above the top, the current state. *)
WorldAt(i) == IF i <= Len(stack) THEN stack[i].before ELSE evm

Pending(w) == UNION {{<<key, i>> : i \in 1..Len(w.executions[key])} : key \in Hashes}

(* pendingEntryCount counts the entries in the table, in the current state *)
(* and in every state a revert would restore.                              *)
PendingCounted ==
    \A i \in 1..(Len(stack) + 1) :
        WorldAt(i).pendingEntryCount = Cardinality(Pending(WorldAt(i)))

Count(queue, e) == Cardinality({i \in DOMAIN queue : queue[i] = e})

(* An entry that was loaded is still in the table or was consumed, once,   *)
(* whatever calls were rolled back in between.                             *)
ExactlyOnce ==
    \A e \in Entries :
        Count(evm.loaded[e.actionHash], e)
            = Count(evm.executions[e.actionHash], e) + Count(evm.consumed[e.actionHash], e)

(* A call runs in the frame its scope names, below one frame for every     *)
(* proper prefix of that scope: a revert of any enclosing scope undoes it. *)
CallsInTheirScope ==
    \A i \in 1..Len(stack) :
        stack[i].kind = "call" =>
            LET depth == Len(stack[i].action.scope)
            IN /\ stack[i - depth - 2].kind = "entry"
               /\ \A n \in 0..depth :
                     /\ stack[i - depth - 1 + n].kind = "scope"
                     /\ stack[i - depth - 1 + n].scope = SubSeq(stack[i].action.scope, 1, n)

(* The answers ledger sees committed states only. *)
BagOf(entries) == [e \in Entries |-> Count(entries, e)]
PendingBag(w)  == [e \in Entries |-> Count(w.executions[e.actionHash], e)]

Answers == INSTANCE L2Answers WITH
    Tables  <- {BagOf(entries) : entries \in Tables},
    Values  <- MessageValues,
    pending <- PendingBag(WorldAt(1)),
    count   <- WorldAt(1).pendingEntryCount,
    system  <- WorldAt(1).system,
    manager <- WorldAt(1).held

(* Whatever called contracts do, each transaction is atomic: it removes    *)
(* answers and adds none, keeps the count exact, and draws on the reserve  *)
(* at most by what the system sends along with the call it delivers,       *)
(* whatever the value of that call says.                                   *)
ImplementsAnswers == Answers!Spec

(* Navigation does not run in circles: every frame that is entered or left *)
(* brings the action closer to the scope it is for, or out of the entry    *)
(* point if no frame on the stack has that scope.  Between two such walks  *)
(* an entry is consumed, a call runs, or a scope is reverted.              *)
Shared(a, b) ==
    Cardinality({n \in 1..Len(a) : n <= Len(b) /\ SubSeq(a, 1, n) = SubSeq(b, 1, n)})
StepsLeft ==
    LET here == Top.scope
        for  == Top.action.scope
    IN IF Top.kind # "scope" THEN 0
       ELSE IF \/ Top.action.actionType = "CALL"
               \/ Top.action.actionType = "REVERT" /\ Shared(here, for) = Len(for)
       THEN Len(here) + Len(for) - 2 * Shared(here, for) + 1
       ELSE Len(here) + 1
WalksToItsScope == [][EnterChildScope \/ LeaveScope => StepsLeft' < StepsLeft]_vars
=============================================================================
