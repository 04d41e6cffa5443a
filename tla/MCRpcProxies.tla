---------------------------- MODULE MCRpcProxies ----------------------------
(***************************************************************************)
(* Instances of RpcProxies for TLC: clients that read, poll for receipts,  *)
(* send with and without hints, and wait for each other or not.            *)
(***************************************************************************)
EXTENDS RpcProxies

CONSTANTS null, detection, tx1, tx2, tx3, proxyB, eoa, counter, alice, bob

MCTTL(k) == CASE k = "height" -> 1 [] k \in {tx1, tx2} -> 2 [] OTHER -> 0

Read(c, k) == [chain |-> c, kind |-> "read", key |-> k, about |-> null]
Send(c, tx, about) == [chain |-> c, kind |-> "send", key |-> tx, about |-> about]
Hint(c, about, what) == [chain |-> c, kind |-> "hint", key |-> what, about |-> about]
Blocks(l1, l2) == [c \in {"l1", "l2"} |-> IF c = "l1" THEN l1 ELSE l2]
At(batch, after) == [calls |-> batch, after |-> after]

(* Two clients poll the height, one of them twice. *)
Heights == [ calls |-> <<Read("l1", "height"), Read("l1", "height"), Read("l1", "height")>>,
             batches |-> <<At(<<1>>, {}), At(<<2>>, {}), At(<<3>>, {1})>>,
   ticks |-> 2, blocks |-> Blocks(1, 0) ]

(* A transaction is sent and its receipt polled twice. *)
Receipts == [ calls |-> <<Send("l1", tx1, eoa), Read("l1", tx1), Read("l1", tx1)>>,
              batches |-> <<At(<<1>>, {}), At(<<2>>, {}), At(<<3>>, {2})>>,
   ticks |-> 2, blocks |-> Blocks(1, 0) ]

(* A hint for a proxy, a call that waits for it, one that does not. *)
Hinted == [ calls |-> <<Hint("l1", proxyB, counter), Send("l1", tx1, proxyB), Send("l1", tx2, proxyB),
                        Send("l1", tx3, proxyB)>>,
            batches |-> <<At(<<1>>, {}), At(<<2>>, {1}), At(<<3>>, {}), At(<<4>>, {1, 2})>>,
   ticks |-> 0, blocks |-> Blocks(0, 0) ]

(* Transactions of two senders on L2, one with a hint, two in one batch. *)
OnL2 == [ calls |-> <<Hint("l2", alice, tx1), Send("l2", tx1, alice), Send("l2", tx2, alice),
                      Send("l2", tx3, bob)>>,
          batches |-> <<At(<<1>>, {}), At(<<2, 4>>, {}), At(<<3>>, {})>>,
   ticks |-> 4, blocks |-> Blocks(0, 0) ]

(* A hint renewed, and reads no cache is for. *)
Renewed == [ calls |-> <<Hint("l2", alice, tx1), Hint("l2", alice, tx2), Send("l2", tx2, alice),
                         Read("l2", "height")>>,
             batches |-> <<At(<<1>>, {}), At(<<2>>, {}), At(<<3>>, {}), At(<<4>>, {})>>,
   ticks |-> 3, blocks |-> Blocks(0, 1) ]

Detected == [ calls |-> <<Read("l1", detection), Read("l1", "height"), Read("l1", "other"),
                          Read("l2", detection)>>,
              batches |-> <<At(<<1, 2>>, {}), At(<<3>>, {}), At(<<4>>, {})>>,
   ticks |-> 1, blocks |-> Blocks(1, 0) ]

MCScenarios == {Heights, Receipts, Hinted, OnL2, Renewed, Detected}
=============================================================================
