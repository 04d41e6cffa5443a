---------------------------- MODULE MCStateManager ----------------------------
(***************************************************************************)
(* Callers that meet in one StateManager.                                  *)
(***************************************************************************)
EXTENDS StateManager

Ask(method, gas) == [method |-> method, gas |-> gas, target |-> 1, tries |-> 6]
Briefly(ask) == [ask EXCEPT !.tries = 2]
System   == Ask("systemCall", 1)
FromL1   == Ask("simulateL1Call", 1)
Proxy    == Ask("ensureProxyDeployed", 1)
Transfer == Ask("broadcastRawTx", 1)
Large    == Ask("broadcastRawTx", 3)
Full     == Ask("broadcastRawTx", 4)
Peek     == Ask("speculateAction", 3)
Back     == Ask("rollbackToBlock", 0)

Together ==
    {[s |-> System, l |-> Large, p |-> Peek], [l |-> Large, m |-> Large],
     [f |-> FromL1, l |-> Large], [s |-> System, f |-> FromL1],
     [s |-> Briefly(System), t |-> Briefly(System), l |-> Briefly(Full)],
     [p |-> Proxy, q |-> Proxy], [s |-> System, t |-> Transfer, b |-> Back],
     [f |-> FromL1, p |-> Proxy, b |-> Back]}
=============================================================================
