----------------------- MODULE MCCrossChainManagerL2 -----------------------
(***************************************************************************)
(* Instances of CrossChainManagerL2 for TLC: the tables are scripted, who  *)
(* calls, what called contracts do and return, and when gas runs out is    *)
(* free.                                                                   *)
(***************************************************************************)
EXTENDS CrossChainManagerL2, TLC

CONSTANTS zero, alice, target, d, none

MCAddresses == {zero, alice, target}
MCData == {d, none}
MCRollupIds == {1}
MCCallers == {alice}
MCProxies == {<<target, 0>>}
MCValues == {0, 1}

Answer2(action, next) == [actionHash |-> action, nextAction |-> next]

Ok(data)           == ResultAction(1, data, FALSE)
Outgoing(v, data)  == CallAction(0, target, v, data, alice, 1, <<>>)
Incoming(v, scope) == CallAction(1, target, v, d, alice, 0, scope)
Returned           == ResultAction(1, d, FALSE)
Reverted           == ResultAction(1, d, TRUE)
Unpaid             == ResultAction(1, none, TRUE)

(* The same outgoing call three times, with three answers. *)
Repeated == << Answer2(Outgoing(0, d), Ok(d)),
               Answer2(Outgoing(0, d), Ok(none)),
               Answer2(Outgoing(0, d), Incoming(0, <<0>>)) >>

(* A delivered call whose destination calls back out, and what follows if  *)
(* it fails: the rollup continues as if nothing happened.                  *)
Delivered == << Answer2(Returned, Ok(d)),
                Answer2(Outgoing(1, d), Ok(none)),
                Answer2(Reverted, Ok(none)),
                Answer2(Returned, Ok(none)) >>

(* An outgoing call that runs a call at [0,1] and one at [0], reverts [0]  *)
(* and continues at [1].                                                   *)
Nested == << Answer2(Outgoing(0, none), Incoming(0, <<0, 1>>)),
             Answer2(Returned, Incoming(1, <<0>>)),
             Answer2(Unpaid, RevertAction(1, <<0>>)),
             Answer2(Returned, RevertAction(1, <<0>>)),
             Answer2(RevertContinueAction(1), Incoming(0, <<1>>)),
             Answer2(Returned, Ok(d)) >>

(* The proxy of address(0) can be deployed but never counts as registered. *)
FromZero == CallAction(1, target, 0, d, zero, 0, <<>>)
Zero == << Answer2(Outgoing(0, d), FromZero), Answer2(Returned, FromZero),
           Answer2(Reverted, RevertAction(1, <<>>)) >>

(* A call at [0,1], then one at its sibling branch [1,0,0].  Without a     *)
(* scope revert every answer is used at most once, so navigation ends; a   *)
(* scope revert gives its answers back, and may run until the gas is gone. *)
Deep == << Answer2(Outgoing(0, none), Incoming(0, <<0, 1>>)),
           Answer2(Returned, Incoming(0, <<1, 0, 0>>)),
           Answer2(Reverted, Incoming(0, <<1>>)),
           Answer2(Returned, Ok(d)),
           Answer2(Reverted, Ok(none)) >>
MCTables == {Delivered, Nested, Zero, Repeated, Deep}
MCCalls == {Incoming(1, <<>>), Incoming(0, <<1>>)}
=============================================================================
