------------------------------- MODULE MCBuilder -------------------------------
(***************************************************************************)
(* Requests for the builder on the kinds of L1 it knows.                   *)
(***************************************************************************)
EXTENDS Builder

Tx(name)       == [kind |-> "tx", name |-> name]
Call(name)     == [kind |-> "call", name |-> name]
Withdraw(name) == [kind |-> "withdrawal", name |-> name]

Ask(api, txs) == [api |-> api, txs |-> txs]
L2(name)      == Ask("submit-L2", <<Tx(name)>>)
Prepare(name) == Ask("prepare-l1-call", <<Call(name)>>)
FromL1(name)  == Ask("submit-L1", <<Call(name)>>)
Exit(name)    == Ask("submit-L2", <<Withdraw(name)>>)
Hint          == Ask("register-l2-hint", <<>>)
Plain         == Ask("submit-L1", <<>>)
Batch(names)  == Ask("submit-batch", [i \in DOMAIN names |-> Tx(names[i])])

On(chain, requests) ==
    [chain |-> chain, ecdsa |-> FALSE, deployed |-> {"L1", "L2"}, inFlight |-> 1, faults |-> {}, requests |-> requests]
Ecdsa(s)        == [s EXCEPT !.ecdsa = TRUE]
Only(s, side)   == [s EXCEPT !.deployed = {side}]
Parallel(s)     == [s EXCEPT !.inFlight = 2]
May(s, fault)   == [s EXCEPT !.faults = {fault}]

TxTxCall  == [a |-> L2("a"), b |-> L2("b"), c |-> Prepare("c")]
TxTx      == [a |-> L2("a"), b |-> L2("b")]
TxAgain   == [a |-> L2("a"), again |-> L2("a")]
TxCall    == [a |-> L2("a"), c |-> Prepare("c")]
TxFromL1  == [a |-> L2("a"), c |-> FromL1("c")]
CallAgain == [c |-> Prepare("c"), again |-> Prepare("c"), d |-> Prepare("d")]
TwoExits  == [h |-> Hint, v |-> Exit("v"), w |-> Exit("w")]
BatchTx   == [a |-> L2("a"), b |-> Batch(<<"p", "q">>)]
Failing   == [a |-> L2("a"), x |-> L2("x"), y |-> Prepare("x")]

TwoCalls  == [c |-> Prepare("c"), d |-> FromL1("d")]
FromL1Again == [c |-> FromL1("c"), d |-> FromL1("d")]
Data      == [a |-> L2("a"), d |-> L2("d")]
OneExit   == [h |-> Hint, v |-> Exit("v")]
PlainBatch == [b |-> Batch(<<"p", "q">>), p |-> Plain]

(* What a builder is asked in the run in which it keeps its promises. *)
Served ==
    {May(On("bundle", TxCall), "receipt"), May(Parallel(On("bundle", TxTx)), "receipt"),
     Ecdsa(On("bundle", TxCall)), Only(On("bundle", TwoExits), "L2"),
     May(On("bundle", BatchTx), "rollback"), May(On("bundle", TxFromL1), "receipt"),
     May(On("bundle", TxAgain), "receipt"), On("bundle", Failing),
     May(On("bundle", TxAgain), "rollback"), May(On("mempool", TxFromL1), "rollback"),
     On("mempool", TxTxCall), May(On("mempool", TxFromL1), "restart"),
     May(On("mempool", BatchTx), "rollback"),
     May(On("anvil", TxFromL1), "restart"), May(On("anvil", FromL1Again), "refused"),
     May(On("mempool", FromL1Again), "refused"), On("anvil", TxCall), On("anvil", CallAgain),
     Only(On("bundle", TwoCalls), "L2"), Only(On("mempool", TwoCalls), "L2"),
     Parallel(Only(On("anvil", TwoCalls), "L2")),
     May(On("bundle", Data), "restart"), Ecdsa(On("bundle", Data)), Only(On("bundle", OneExit), "L1"),
     Ecdsa(On("bundle", PlainBatch)), Ecdsa(On("mempool", TxCall))}

(* Two transactions with a proof per block. *)
Speculating == {Ecdsa(On("bundle", TxTx))}
=============================================================================
