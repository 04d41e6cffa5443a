---------------------------- MODULE MCDashboard ----------------------------
(***************************************************************************)
(* Instances of Dashboard for TLC: a call from L1 to L2, an L2 transaction *)
(* that calls out, and batches with an immediate entry, with two equal     *)
(* ones and with two whose hashes look the same, each as the two logs the  *)
(* contracts emit for it.                                                  *)
(***************************************************************************)
EXTENDS Dashboard

CONSTANTS immediate, nothing, rollups, managerL2, prover, system,
          alice, counter, proxyB, proxyA

(* Two of the hashes begin with the same eight digits. *)
MCTruncateHex(h) == IF h \in {"call", "call again"} THEN "call..." ELSE h

MCManager == [c \in Chains |-> IF c = "l1" THEN rollups ELSE managerL2]

Event(c, block, index, name) ==
    [ chain |-> c, block |-> block, index |-> index, name |-> name, hash |-> nothing,
      entries |-> <<>>, from |-> nothing, to |-> nothing, root |-> nothing ]

Loads(e, entries) == [e EXCEPT !.entries = entries]
Entry(hash, next) == [hash |-> hash, next |-> next, root |-> nothing]
Applied(root) == [hash |-> immediate, next |-> "ok", root |-> root]
Calls(e, hash, from, to) == [e EXCEPT !.hash = hash, !.from = from, !.to = to]
Of(e, hash) == [e EXCEPT !.hash = hash]
Sets(e, root) == [e EXCEPT !.root = root]

(* alice calls the proxy of a counter on L2. *)
Inward == [
  l1 |-> << Loads(Event("l1", 1, 0, "BatchPosted"), <<Entry("call", "ok")>>),
            Calls(Event("l1", 1, 1, "CrossChainCallExecuted"), "call", alice, proxyB),
            Of(Event("l1", 1, 2, "ExecutionConsumed"), "call") >>,
  l2 |-> << Calls(Event("l2", 1, 0, "IncomingCrossChainCallExecuted"), "call", alice, counter) >>,
  sessions |-> 1]

(* An L2 transaction calls L1. *)
Outward == [
  l1 |-> << Loads(Event("l1", 1, 0, "BatchPosted"),
                  <<Entry("tx", "out"), Entry("returned", "ok")>>),
            Of(Event("l1", 1, 1, "ExecutionConsumed"), "tx"),
            Of(Event("l1", 1, 2, "ExecutionConsumed"), "returned") >>,
  l2 |-> << Loads(Event("l2", 1, 0, "ExecutionTableLoaded"), <<Entry("out", "back")>>),
            Of(Event("l2", 2, 0, "ExecutionConsumed"), "out") >>,
  sessions |-> 1]

(* A proxy is created and called. *)
Proxy == [
  l1 |-> <<>>,
  l2 |-> << Calls(Event("l2", 1, 0, "CrossChainProxyCreated"), nothing, nothing, proxyA),
            Calls(Event("l2", 2, 0, "CrossChainCallExecuted"), "out", counter, proxyA) >>,
  sessions |-> 2]

(* Two batches; the first applies an entry at once and loads one twice. *)
Batches == [
  l1 |-> << Loads(Event("l1", 1, 0, "BatchPosted"),
                  <<Applied("s1"), Entry("call", "ok"), Entry("call", "fail")>>),
            Of(Event("l1", 1, 1, "ExecutionConsumed"), "call"),
            Loads(Event("l1", 2, 0, "BatchPosted"), <<Entry("tx", "fail")>>),
            Of(Event("l1", 2, 1, "ExecutionConsumed"), "tx") >>,
  l2 |-> <<>>,
  sessions |-> 2]

(* Two batches; the second loads what looks like a call left in the first. *)
Alike == [
  l1 |-> << Loads(Event("l1", 1, 0, "BatchPosted"), <<Entry("call", "ok"), Entry("tx", "ok")>>),
            Of(Event("l1", 1, 1, "ExecutionConsumed"), "tx"),
            Loads(Event("l1", 2, 0, "BatchPosted"), <<Entry("call again", "ok")>>),
            Of(Event("l1", 2, 1, "ExecutionConsumed"), "call again") >>,
  l2 |-> <<>>,
  sessions |-> 1]

MCHistories == {Inward, Outward, Proxy, Batches, Alike}

(* These are logs that the contracts emit. *)
ASSUME InstanceLogs == \A h \in MCHistories : LogsOfContracts(h)
=============================================================================
