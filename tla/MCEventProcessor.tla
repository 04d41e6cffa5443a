--------------------------- MODULE MCEventProcessor ---------------------------
(***************************************************************************)
(* Instances of EventProcessor for TLC: what L1 blocks may contain.        *)
(***************************************************************************)
EXTENDS EventProcessor

E(kind, name) == [kind |-> kind, name |-> name]

Call     == <<E("call", "c")>>
L2Tx     == <<E("tx", "t")>>
Other    == <<E("tx", "u")>>
Deploy   == E("deploy", "p")
Withdraw == <<E("withdrawal", "w"), E("accounting", "w")>>

Calls     == {<<>>, Call}
Mixed     == {<<>>, Withdraw, L2Tx \o Other, <<Deploy>> \o L2Tx \o Withdraw, <<E("update", "o")>>}

(* A block whose replay drops the call. *)
CallAndTx == {Call \o L2Tx}
=============================================================================
