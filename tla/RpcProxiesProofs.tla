--------------------------- MODULE RpcProxiesProofs ---------------------------
(***************************************************************************)
(* Theorems about the JSON-RPC proxies, for any calls in any batches, any  *)
(* lifetimes and any number of attempts.                                   *)
(***************************************************************************)
EXTENDS RpcProxies, ProofLibrary

-----------------------------------------------------------------------------
(* The invariant.  Its parts take what they are about as parameters, since *)
(* a batch runs through states of calls, hints and timers of its own.      *)
AnyKey == UNION {{s.calls[i].key : i \in DOMAIN s.calls} : s \in Scenarios}
Values == AnyKey \cup Nat \cup {Null, "ok"}
Kinds == {"result", "error", "limited", "html", "lost", "success", "rejected"}
Answers == [kind : Kinds, value : Values, readAt : Nat, at : Nat]
Stages == {"new", "asked", "served", "backoff", "submitted", "decided", "done"}

CallState ==
    [ stage : Stages, attempt : Nat, sentAt : Nat, hint : AnyKey \cup Nat \cup {Null},
      response : Answers \cup {Null}, answer : Answers \cup {Null},
      failed : BOOLEAN, unsure : BOOLEAN, existed : BOOLEAN ]

Heard(x) == x.stage \in {"served", "decided"}
Closed(x) == x.stage = "done" /\ x.answer.kind = "result"
Flying(x) == x.stage \in {"asked", "served"}

(* Where a call is, and what it carries. *)
Typed(i, x) ==
    /\ x \in CallState
    /\ x.stage = "new" => x = Idle
    /\ Heard(x) => x.response \in Answers
    /\ x.stage = "done" => x.answer \in Answers
    /\ x.stage = "served" /\ x.response.kind \notin {"result", "error"} => x.failed
    /\ x.stage = "decided" /\ x.response.kind = "lost" => x.failed
    /\ x.stage = "submitted" => ~x.failed

Routed(i, x) ==
    /\ x.stage \in {"asked", "served", "backoff"} =>
        /\ Call(i).kind # "read" => Call(i).chain = "l1"
        /\ Call(i).kind = "send" => x.hint = Null
    /\ x.stage \in {"submitted", "decided"} =>
        /\ Call(i).kind = "send"
        /\ Call(i).chain = "l1" => x.hint # Null
    /\ x.hint # Null => Call(i).kind = "send"

(* A read under way was sent at most a flight ago. *)
Bound(i) ==
    MaxFlight + (IF Call(i).chain = "l1" /\ TTL(Call(i).key) > 0 THEN TTL(Call(i).key) - 1 ELSE 0)

Timely(i, x, n) ==
    Call(i).kind = "read" =>
        /\ Flying(x) => x.sentAt <= n /\ n <= x.sentAt + MaxFlight
        /\ x.stage = "served" /\ x.response.kind \in {"result", "error"}
             => /\ x.response.kind = "result"
                /\ x.sentAt <= x.response.readAt /\ x.response.readAt <= n
        /\ Closed(x) /\ ~x.failed /\ Call(i).key # Detection
             => x.answer.at <= x.answer.readAt + Bound(i)

(* What existed when the call came is still there. *)
Existing(i, x, m) ==
    x.existed =>
        /\ Call(i).kind = "read"
        /\ Call(i).key # "height" => Call(i).key \in m /\ Call(i).key # Null
        /\ x.stage = "served" /\ x.response.kind = "result" => x.response.value # Null
        /\ Closed(x) => x.answer.value # Null

(* Who was told yes was heard. *)
Confirmed(i, x, p, a, px) ==
    /\ Call(i).kind = "send" =>
        /\ x.stage = "served" /\ x.response.kind = "result" => Call(i).key \in p
        /\ x.stage = "decided" /\ x.response.kind = "success" => \E b \in a : b.call = i
        /\ Closed(x) => Call(i).key \in p \/ \E b \in a : b.call = i
    /\ Call(i).kind = "hint" /\ Call(i).chain = "l1" /\ Closed(x) => px[Call(i).about] # Null

CallFine(i, x, n, m, p, a, px) ==
    Typed(i, x) /\ Routed(i, x) /\ Timely(i, x, n) /\ Existing(i, x, m) /\ Confirmed(i, x, p, a, px)

(* What L1 heard was sent by a call that was told so or cannot be sure;    *)
(* what the builder took was sent to it.                                   *)
Told(x) == x.unsure \/ (x.stage = "served" /\ x.response.kind = "result") \/ Closed(x)

Origins(cs, p, a) ==
    /\ \A tx \in p : \E i \in Of("l1", "send") :
          /\ Call(i).key = tx /\ cs[i].hint = Null /\ cs[i].stage # "new" /\ Told(cs[i])
    /\ \A b \in a :
          /\ b.call \in Calls /\ cs[b.call].stage \in {"decided", "done"}
          /\ Call(b.call).chain = "l1" => cs[b.call].hint # Null

(* A batch runs after those it waits for. *)
InOrder(cs) ==
    \A i \in Calls, j \in Calls :
        (WaitsFor(i, j) /\ cs[i].stage # "new") => cs[j].stage = "done"

PastTheBuilder(cs) ==
    \A i \in Of("l1", "send"), j \in Of("l1", "hint") :
        (WaitsFor(i, j) /\ Call(i).about = Call(j).about /\ cs[i].stage # "new" /\ cs[i].hint = Null)
            => cs[j].answer.kind # "result"

(* A hint on L2 waits for a transaction of its sender, or goes with one. *)
Waiting(cs, ph) ==
    /\ ph \in [Senders -> Calls \cup {Null}]
    /\ \A s \in Senders : ph[s] # Null =>
          /\ ph[s] \in Of("l2", "hint") /\ Call(ph[s]).about = s /\ cs[ph[s]].stage = "done"
          /\ \A i \in Of("l2", "send") : cs[i].hint # ph[s]

Taking(cs) ==
    \A i \in Of("l2", "send") : cs[i].hint # Null =>
        /\ cs[i].hint \in Of("l2", "hint") /\ Call(cs[i].hint).about = Call(i).about
        /\ cs[cs[i].hint].stage = "done"
        /\ \A j \in Of("l2", "send") \ {i} : cs[j].hint # cs[i].hint

Timers == [sender : Senders, due : Nat, of : Calls]

Due(cs, tm) ==
    /\ tm \subseteq Timers
    /\ \A t \in tm :
          /\ t.of \in Of("l2", "hint") /\ cs[t.of].stage = "done"
          /\ t.sender = Call(t.of).about /\ t.due = cs[t.of].answer.at + HintLife

Keeping(cs, ph, n) ==
    \A h \in Of("l2", "hint") :
        ( /\ cs[h].stage = "done" /\ n < cs[h].answer.at + HintLife
          /\ \A g \in Of("l2", "hint") \ {h} : Call(g).about = Call(h).about => cs[g].stage = "new" )
        => ph[Call(h).about] = h \/ \E i \in Of("l2", "send") : cs[i].hint = h

Books(cs, ph, tm, n) ==
    Waiting(cs, ph) /\ Taking(cs) /\ Due(cs, tm) /\ Keeping(cs, ph, n)

(* The caches. *)
Entry == [value : Values, readAt : Nat, expiresAt : Nat]

Caches(rc, px) ==
    /\ rc \in [Keys -> Entry \cup {Null}]
    /\ \A k \in Keys : rc[k] # Null => rc[k].expiresAt <= rc[k].readAt + MaxFlight + TTL(k)
    /\ px \in [Addresses -> AnyKey \cup {Null}]

Chains(n, h, m, p) ==
    n \in Nat /\ h \in [{"l1", "l2"} -> Nat] /\ m \subseteq p

IInv ==
    /\ scenario \in Scenarios
    /\ Chains(now, height, mined, pool)
    /\ Caches(rpcCache, proxyToL2Cache)
    /\ calls \in [Calls -> CallState]
    /\ \A i \in Calls : CallFine(i, calls[i], now, mined, pool, accepted, proxyToL2Cache)
    /\ Origins(calls, pool, accepted)
    /\ InOrder(calls) /\ PastTheBuilder(calls)
    /\ Books(calls, pendingHints, timers, now)

-----------------------------------------------------------------------------
(* What the scenarios are. *)
LEMMA CallShape ==
  ASSUME scenario \in Scenarios, NEW i \in Calls
  PROVE  /\ i \in Nat /\ i # Null
         /\ Call(i).chain \in {"l1", "l2"} /\ Call(i).kind \in {"read", "send", "hint"}
         /\ Call(i).kind # "read" => Call(i).key # Null /\ Call(i).key # Detection
         /\ TTL(Call(i).key) \in Nat /\ Call(i).key \in AnyKey
BY ScenarioShape DEF Calls, Call, AnyKey

LEMMA BatchShape ==
  ASSUME scenario \in Scenarios, NEW b \in Batches
  PROVE  /\ Batch(b) \in Seq(Calls) /\ scenario.batches[b].after \subseteq Batches
         /\ \A d \in Batches : \A j \in DOMAIN Batch(b), k \in DOMAIN Batch(d) :
               Batch(b)[j] = Batch(d)[k] => b = d /\ j = k
BY ScenarioShape DEF Calls, Batches, Batch

LEMMA Lives == HintLife \in Nat /\ HintLife > 0 /\ MaxFlight \in Nat /\ MaxFlight > 0
               /\ MaxRetries \in Nat /\ Null \notin Nat
BY LivesAssumption, ScenarioShape

-----------------------------------------------------------------------------
(* Steps put together. *)
LEMMA Assemble ==
  ASSUME scenario \in Scenarios, scenario' = scenario,
         Chains(now', height', mined', pool'), Caches(rpcCache', proxyToL2Cache'),
         calls' \in [Calls -> CallState],
         \A i \in Calls : CallFine(i, calls'[i], now', mined', pool', accepted', proxyToL2Cache'),
         Origins(calls', pool', accepted'), InOrder(calls'), PastTheBuilder(calls'),
         Books(calls', pendingHints', timers', now')
  PROVE  IInv'
<1>1. Chains(now, height, mined, pool)'
  BY DEF Chains
<1>2. Caches(rpcCache, proxyToL2Cache)'
  BY DEF Caches, Keys, Addresses, Of, Calls, Call
<1>3. (\A i \in Calls : CallFine(i, calls[i], now, mined, pool, accepted, proxyToL2Cache))'
  BY DEF CallFine, Typed, Routed, Timely, Existing, Confirmed, Calls, Call, Bound
<1>4. Origins(calls, pool, accepted)'
  BY DEF Origins, Of, Calls, Call
<1>5. InOrder(calls)'
  BY DEF InOrder, WaitsFor, Batches, Batch, Calls
<1>0. /\ \A i : Call(i)' = Call(i)
      /\ \A chain, kind : Of(chain, kind)' = Of(chain, kind)
      /\ \A i, j : WaitsFor(i, j)' <=> WaitsFor(i, j)
  BY DEF WaitsFor, Batches, Batch, Of, Calls, Call
<1>6. PastTheBuilder(calls)'
  BY <1>0 DEF PastTheBuilder
<1>7. Books(calls, pendingHints, timers, now)'
  <2>1. Waiting(calls, pendingHints)'
    <3>1. Waiting(calls', pendingHints')
      BY DEF Books
    <3> QED
      BY <1>0, <3>1 DEF Waiting, Senders, Calls
  <2>2. Taking(calls)'
    BY DEF Books, Taking, Of, Calls, Call
  <2>3. Due(calls, timers)'
    BY DEF Books, Due, Timers, Senders, Of, Calls, Call
  <2>4. Keeping(calls, pendingHints, now)'
    BY DEF Books, Keeping, Of, Calls, Call
  <2> QED
    BY <2>1, <2>2, <2>3, <2>4 DEF Books
<1>8. (calls \in [Calls -> CallState])'
  BY DEF Calls
<1> QED
  BY <1>1, <1>2, <1>3, <1>4, <1>5, <1>6, <1>7, <1>8 DEF IInv

LEMMA CallGrows ==
  ASSUME NEW i \in Calls, NEW x, NEW n, NEW m, NEW p, NEW a, NEW px, CallFine(i, x, n, m, p, a, px),
         NEW m2, NEW p2, NEW a2, NEW px2, m \subseteq m2, p \subseteq p2, a \subseteq a2,
         px[Call(i).about] # Null => px2[Call(i).about] # Null
  PROVE  CallFine(i, x, n, m2, p2, a2, px2)
<1>1. Existing(i, x, m2)
  BY DEF CallFine, Existing
<1>2. Confirmed(i, x, p2, a2, px2)
  BY DEF CallFine, Confirmed
<1> QED
  BY <1>1, <1>2 DEF CallFine

(* A call that is under way goes on. *)
LEMMA GoesOn ==
  ASSUME NEW cs \in [Calls -> CallState], NEW i \in Calls, NEW y,
         cs[i].stage \notin {"new", "done"}, y.stage # "new", y.hint = cs[i].hint,
         Routed(i, cs[i]), scenario \in Scenarios,
         NEW ph, NEW tm, NEW n
  PROVE  LET ds == [cs EXCEPT ![i] = y] IN
         /\ InOrder(cs) => InOrder(ds)
         /\ InOrder(cs) /\ PastTheBuilder(cs) => PastTheBuilder(ds)
         /\ Books(cs, ph, tm, n) => Books(ds, ph, tm, n)
<1> DEFINE ds == [cs EXCEPT ![i] = y]
<1>1. ds[i] = y /\ \A j \in Calls \ {i} : ds[j] = cs[j]
  OBVIOUS
<1>2. \A j \in Calls : /\ ds[j].hint = cs[j].hint /\ (ds[j].stage = "new" <=> cs[j].stage = "new")
                       /\ cs[j].stage = "done" => ds[j] = cs[j]
  BY <1>1
<1>3. i \notin Of("l2", "hint")
  <2>1. cs[i].stage \in {"asked", "served", "backoff", "submitted", "decided"}
    BY DEF CallState, Stages
  <2> QED
    BY <2>1 DEF Routed, Of
<1> HIDE DEF ds
<1>4. \A c, k : Of(c, k) \subseteq Calls
  BY DEF Of
<1>5. ASSUME InOrder(cs) PROVE InOrder(ds)
  BY <1>2, <1>5 DEF InOrder
<1>6. ASSUME InOrder(cs), PastTheBuilder(cs) PROVE PastTheBuilder(ds)
  BY <1>2, <1>4, <1>6 DEF InOrder, PastTheBuilder
<1>7. ASSUME Books(cs, ph, tm, n) PROVE Books(ds, ph, tm, n)
  <2>1. Waiting(ds, ph)
    BY <1>2, <1>4, <1>7 DEF Books, Waiting
  <2>2. Taking(ds)
    BY <1>2, <1>4, <1>7 DEF Books, Taking
  <2>3. Due(ds, tm)
    BY <1>2, <1>4, <1>7 DEF Books, Due
  <2>4. Keeping(ds, ph, n)
    <3>1. \A h \in Of("l2", "hint") : h # i /\ ds[h] = cs[h]
      BY <1>1, <1>3, <1>4
    <3>2. \A j \in Of("l2", "send") : ds[j].hint = cs[j].hint
      BY <1>2, <1>4
    <3> QED
      BY <1>7, <3>1, <3>2 DEF Books, Keeping
  <2> QED
    BY <2>1, <2>2, <2>3, <2>4 DEF Books
<1> QED
  BY <1>5, <1>6, <1>7 DEF ds

(* What L1 heard of other calls, it heard; what of this one, the call was  *)
(* told or cannot be sure of.                                              *)
LEMMA OriginsKept ==
  ASSUME NEW cs \in [Calls -> CallState], NEW i \in Calls, NEW y, NEW p, NEW a, NEW p2, NEW a2,
         Origins(cs, p, a), y.stage # "new", y.hint = cs[i].hint,
         p2 \subseteq p \cup {Call(i).key}, a2 \subseteq a \cup {[call |-> i, hint |-> cs[i].hint]},
         Told(cs[i]) /\ cs[i].stage # "new" => Told(y),
         cs[i].stage \in {"decided", "done"} => y.stage \in {"decided", "done"},
         p2 \subseteq p \/ (i \in Of("l1", "send") /\ y.hint = Null /\ Told(y)),
         a2 \subseteq a \/ (y.stage \in {"decided", "done"} /\ (Call(i).chain = "l1" => y.hint # Null))
  PROVE  Origins([cs EXCEPT ![i] = y], p2, a2)
<1> DEFINE ds == [cs EXCEPT ![i] = y]
<1>1. ds[i] = y /\ \A j \in Calls \ {i} : ds[j] = cs[j]
  OBVIOUS
<1> HIDE DEF ds
<1>2. Of("l1", "send") \subseteq Calls
  BY DEF Of
<1> DEFINE Sender(xs, tx, j) == /\ j \in Of("l1", "send") /\ Call(j).key = tx
                                /\ xs[j].hint = Null /\ xs[j].stage # "new" /\ Told(xs[j])
<1>3. ASSUME NEW tx \in p2 PROVE \E j : Sender(ds, tx, j)
  <2>1. CASE tx \in p
    <3>1. PICK j : Sender(cs, tx, j)
      BY <2>1 DEF Origins
    <3>2. Sender(ds, tx, j)
      BY <1>1, <1>2, <3>1
    <3> QED
      BY <3>2
  <2>2. CASE tx \notin p
    <3>1. Sender(ds, tx, i)
      BY <1>1, <1>2, <1>3, <2>2
    <3> QED
      BY <3>1
  <2> QED
    BY <2>1, <2>2
<1>4. ASSUME NEW b \in a2
      PROVE  /\ b.call \in Calls /\ ds[b.call].stage \in {"decided", "done"}
             /\ Call(b.call).chain = "l1" => ds[b.call].hint # Null
  <2>1. CASE b \in a
    BY <1>1, <2>1 DEF Origins
  <2>2. CASE b \notin a
    <3>1. b = [call |-> i, hint |-> cs[i].hint]
      BY <1>4, <2>2
    <3>2. b.call = i
      BY <3>1
    <3> QED
      BY <1>1, <1>4, <2>2, <3>2
  <2> QED
    BY <2>1, <2>2
<1> QED
  BY <1>3, <1>4 DEF Origins, ds

LEMMA CallMoves ==
  ASSUME IInv, scenario' = scenario, now' = now, height' = height, mined' = mined,
         pendingHints' = pendingHints, timers' = timers,
         NEW i \in Calls, NEW y \in CallState, calls' = [calls EXCEPT ![i] = y],
         calls[i].stage \notin {"new", "done"}, y.stage # "new", y.hint = calls[i].hint,
         CallFine(i, y, now, mined, pool', accepted', proxyToL2Cache'),
         Caches(rpcCache', proxyToL2Cache'), pool \subseteq pool', accepted \subseteq accepted',
         \A x : proxyToL2Cache[x] # Null => proxyToL2Cache'[x] # Null,
         Origins([calls EXCEPT ![i] = y], pool', accepted')
  PROVE  IInv'
<1>1. /\ scenario \in Scenarios /\ calls \in [Calls -> CallState] /\ Routed(i, calls[i])
      /\ InOrder(calls) /\ PastTheBuilder(calls) /\ Books(calls, pendingHints, timers, now)
  BY DEF IInv, CallFine
<1>2. InOrder(calls') /\ PastTheBuilder(calls') /\ Books(calls', pendingHints', timers', now')
  BY <1>1, GoesOn
<1>3. calls' \in [Calls -> CallState]
  BY <1>1
<1>4. ASSUME NEW j \in Calls
      PROVE  CallFine(j, calls'[j], now', mined', pool', accepted', proxyToL2Cache')
  <2>1. CASE j = i
    BY <1>1, <2>1
  <2>2. CASE j # i
    <3>1. calls'[j] = calls[j] /\ CallFine(j, calls[j], now, mined, pool, accepted, proxyToL2Cache)
      BY <1>1, <2>2 DEF IInv
    <3> QED
      BY <3>1, CallGrows
  <2> QED
    BY <2>1, <2>2
<1>5. Chains(now', height', mined', pool')
  BY DEF IInv, Chains
<1> QED
  BY <1>1, <1>2, <1>3, <1>4, <1>5, Assemble

-----------------------------------------------------------------------------
(* The steps of a call. *)

LEMMA AnswerTypes ==
  ASSUME scenario \in Scenarios, NEW i \in Calls
  PROVE  /\ Hash(i) \in Answers /\ Error \in Answers
         /\ \A kind \in Kinds : [Error EXCEPT !.kind = kind] \in Answers
<1>1. Call(i).key \in AnyKey
  BY CallShape
<1> QED
  BY <1>1 DEF Answers, Hash, Error, Values, Kinds

LEMMA GoodAnswer ==
  ASSUME IInv, NEW i \in Calls
  PROVE  /\ Good(i) \in Answers /\ Good(i).kind \in {"result", "error"}
         /\ Call(i).kind = "read" =>
               /\ Good(i).kind = "result" /\ Good(i).readAt = now
               /\ Call(i).key = "height" \/ (Call(i).key \in mined /\ Call(i).key # Null)
                    => Good(i).value # Null
         /\ Call(i).kind = "send" /\ Call(i).key \notin pool => Good(i).kind = "result"
<1>1. /\ Call(i).chain \in {"l1", "l2"} /\ Call(i).kind \in {"read", "send", "hint"}
      /\ Call(i).key \in AnyKey /\ scenario \in Scenarios
  BY CallShape DEF IInv
<1>2. now \in Nat /\ height[Call(i).chain] \in Nat /\ Null \notin Nat
  BY <1>1, Lives DEF IInv, Chains
<1> DEFINE cur == Current(Call(i).chain, Call(i).key)
<1>3. cur \in Values /\ (Call(i).key = "height" => cur # Null)
      /\ (Call(i).key \in mined /\ Call(i).key # Null => cur # Null)
  BY <1>1, <1>2 DEF Current, Values
<1> HIDE DEF cur
<1>4. CASE Call(i).kind = "read"
  <2>1. Good(i) = Result(cur, now)
    BY <1>4 DEF Good, cur
  <2> QED
    BY <1>2, <1>3, <1>4, <2>1 DEF Result, Answers, Kinds
<1>5. CASE Call(i).kind = "hint"
  <2>1. Good(i) = Hash(i)
    BY <1>5 DEF Good
  <2> QED
    BY <1>1, <1>5, <2>1, AnswerTypes DEF Hash
<1>6. CASE Call(i).kind = "send"
  <2>1. Good(i) = IF Call(i).key \notin pool THEN Hash(i) ELSE Error
    BY <1>6 DEF Good
  <2> QED
    BY <1>1, <1>6, <2>1, AnswerTypes DEF Hash, Error
<1> QED
  BY <1>1, <1>4, <1>5, <1>6

LEMMA Parts ==
  ASSUME IInv, NEW i \in Calls
  PROVE  /\ scenario \in Scenarios /\ now \in Nat /\ calls \in [Calls -> CallState] /\ calls[i] \in CallState
         /\ Typed(i, calls[i]) /\ Routed(i, calls[i]) /\ Timely(i, calls[i], now)
         /\ Existing(i, calls[i], mined) /\ Confirmed(i, calls[i], pool, accepted, proxyToL2Cache)
         /\ Origins(calls, pool, accepted) /\ Caches(rpcCache, proxyToL2Cache)
         /\ Call(i).chain \in {"l1", "l2"} /\ Call(i).kind \in {"read", "send", "hint"}
BY CallShape DEF IInv, CallFine, Chains

LEMMA ServeKeeps ==
  ASSUME IInv, NEW i \in Calls, Serve(i)
  PROVE  IInv'
<1> DEFINE x == calls[i]
<1>1. /\ x.stage = "asked" /\ x \in CallState /\ calls \in [Calls -> CallState]
      /\ scenario \in Scenarios /\ now \in Nat
      /\ Typed(i, x) /\ Routed(i, x) /\ Timely(i, x, now) /\ Existing(i, x, mined)
  BY Parts DEF Serve
<1>2. ASSUME NEW heard \in BOOLEAN, NEW y \in CallState, pool' = pool \cup Sent(i, heard),
             y.stage = "served", y.response \in Answers, y.hint = x.hint, y.sentAt = x.sentAt,
             y.existed = x.existed, calls' = [calls EXCEPT ![i] = y],
             x.unsure => y.unsure,
             \/ y.failed /\ y.response.kind \notin {"result", "error"} /\ (heard /\ Call(i).kind = "send" => y.unsure)
             \/ y.response = Good(i) /\ y.failed = x.failed /\ heard
      PROVE  IInv'
  <2>1. Typed(i, y) /\ Routed(i, y)
    BY <1>1, <1>2, GoodAnswer DEF Typed, Routed, Heard
  <2>2. Timely(i, y, now)
    <3>1. x.sentAt \in Nat
      BY <1>1 DEF CallState
    <3> QED
      BY <1>1, <1>2, <3>1, GoodAnswer DEF Timely, Flying, Closed
  <2>3. Existing(i, y, mined)
    BY <1>1, <1>2, GoodAnswer DEF Existing, Closed
  <2>4. Confirmed(i, y, pool', accepted', proxyToL2Cache')
    BY <1>2 DEF Confirmed, Sent, Closed
  <2>5. pool \subseteq pool' /\ accepted' = accepted /\ pool' \subseteq pool \cup {Call(i).key}
    BY <1>2 DEF Serve, Sent
  <2>6. ASSUME ~(pool' \subseteq pool) PROVE i \in Of("l1", "send") /\ y.hint = Null /\ Told(y)
    <3>1. Call(i).kind = "send" /\ Call(i).key \notin pool /\ heard
      BY <1>2, <2>6 DEF Sent
    <3>2. i \in Of("l1", "send") /\ y.hint = Null
      BY <1>1, <1>2, <3>1 DEF Routed, Of
    <3> QED
      BY <1>2, <3>1, <3>2, GoodAnswer DEF Told
  <2>7. Told(x) => Told(y)
    BY <1>1, <1>2 DEF Told, Closed
  <2>8. Origins([calls EXCEPT ![i] = y], pool', accepted')
    BY <1>1, <1>2, <2>5, <2>6, <2>7, Parts, OriginsKept
  <2>9. CallFine(i, y, now, mined, pool', accepted', proxyToL2Cache')
    BY <2>1, <2>2, <2>3, <2>4 DEF CallFine
  <2>10. /\ UNCHANGED <<scenario, now, height, mined, rpcCache, proxyToL2Cache, pendingHints, timers>>
         /\ Caches(rpcCache, proxyToL2Cache)
    BY Parts DEF Serve, proxies
  <2>11. Caches(rpcCache', proxyToL2Cache')
    BY <2>10
  <2> QED
    BY <1>1, <1>2, <2>5, <2>8, <2>9, <2>10, <2>11, CallMoves
<1>3. ASSUME calls' = [calls EXCEPT ![i].stage = "served", ![i].response = Good(i)],
             pool' = pool \cup Sent(i, TRUE)
      PROVE  IInv'
  <2> DEFINE y == [x EXCEPT !.stage = "served", !.response = Good(i)]
  <2>1. Good(i) \in Answers
    BY GoodAnswer
  <2>2. /\ y \in CallState /\ y.stage = "served" /\ y.response = Good(i) /\ y.hint = x.hint
        /\ y.sentAt = x.sentAt /\ y.existed = x.existed /\ y.failed = x.failed /\ y.unsure = x.unsure
    BY <1>1, <2>1 DEF CallState, Stages
  <2>3. calls' = [calls EXCEPT ![i] = y]
    BY <1>1, <1>3
  <2> HIDE DEF y
  <2> QED
    BY <1>2, <1>3, <2>1, <2>2, <2>3
<1>4. ASSUME NEW kind \in {"limited", "html", "lost"}, NEW heard \in BOOLEAN,
             heard => kind # "limited",
             calls' = [calls EXCEPT ![i].stage = "served", ![i].failed = TRUE,
                                    ![i].unsure = @ \/ (Call(i).kind = "send" /\ kind # "limited"),
                                    ![i].response = [Error EXCEPT !.kind = kind]],
             pool' = pool \cup Sent(i, heard)
      PROVE  IInv'
  <2> DEFINE e == [Error EXCEPT !.kind = kind]
             y == [x EXCEPT !.stage = "served", !.failed = TRUE, !.response = e,
                            !.unsure = @ \/ (Call(i).kind = "send" /\ kind # "limited")]
  <2>1. e \in Answers /\ e.kind \notin {"result", "error"}
    BY <1>1, AnswerTypes DEF Kinds, Error
  <2> HIDE DEF e
  <2>2. /\ y \in CallState /\ y.stage = "served" /\ y.response = e /\ y.hint = x.hint
        /\ y.sentAt = x.sentAt /\ y.existed = x.existed /\ y.failed
        /\ y.unsure = (x.unsure \/ (Call(i).kind = "send" /\ kind # "limited"))
    BY <1>1, <2>1 DEF CallState, Stages
  <2>3. calls' = [calls EXCEPT ![i] = y]
    BY <1>1, <1>4 DEF e
  <2> HIDE DEF y
  <2> QED
    BY <1>2, <1>4, <2>1, <2>2, <2>3
<1> QED
  BY <1>3, <1>4 DEF Serve

(* A step that neither L1 nor the builder nor a cache takes part in. *)
LEMMA Quietly ==
  ASSUME IInv, NEW i \in Calls, NEW y \in CallState, calls' = [calls EXCEPT ![i] = y],
         UNCHANGED <<scenario, now, upstream, proxies>>,
         calls[i].stage \notin {"new", "done"}, y.stage # "new", y.hint = calls[i].hint,
         Typed(i, y), Routed(i, y), Timely(i, y, now), Existing(i, y, mined),
         Confirmed(i, y, pool, accepted, proxyToL2Cache),
         Told(calls[i]) => Told(y),
         calls[i].stage = "decided" => y.stage = "done"
  PROVE  IInv'
<1>1. /\ scenario' = scenario /\ now' = now /\ height' = height /\ pool' = pool /\ mined' = mined
      /\ accepted' = accepted /\ rpcCache' = rpcCache /\ proxyToL2Cache' = proxyToL2Cache
      /\ pendingHints' = pendingHints /\ timers' = timers
  BY DEF upstream, proxies
<1>2. Origins([calls EXCEPT ![i] = y], pool, accepted)
  BY Parts, OriginsKept
<1>3. CallFine(i, y, now, mined, pool, accepted, proxyToL2Cache)
  BY DEF CallFine
<1> QED
  BY <1>1, <1>2, <1>3, Parts, CallMoves

LEMMA RetryKeeps ==
  ASSUME IInv, NEW i \in Calls, Retry(i)
  PROVE  IInv'
<1> DEFINE x == calls[i]
           y == [x EXCEPT !.stage = "backoff", !.response = Null]
<1>1. /\ x.stage = "served" /\ ~Parsed(i) /\ x \in CallState /\ calls \in [Calls -> CallState]
      /\ Typed(i, x) /\ Routed(i, x) /\ Timely(i, x, now) /\ Existing(i, x, mined)
      /\ Call(i).chain = "l1" /\ Call(i).kind # "hint"
      /\ UNCHANGED <<scenario, now, upstream, proxies>>
  BY Parts DEF Retry, TriesAgain
<1>2. /\ y \in CallState /\ y.stage = "backoff" /\ y.hint = x.hint /\ y.failed = x.failed
      /\ y.unsure = x.unsure /\ y.existed = x.existed
  BY <1>1 DEF CallState, Stages
<1>3. calls' = [calls EXCEPT ![i] = y]
  BY <1>1 DEF Retry
<1>4. x.failed
  BY <1>1 DEF Typed, Parsed
<1> HIDE DEF y
<1>5. Typed(i, y) /\ Routed(i, y) /\ Timely(i, y, now)
  BY <1>1, <1>2 DEF Typed, Routed, Timely, Heard, Flying, Closed
<1>6. Existing(i, y, mined) /\ Confirmed(i, y, pool, accepted, proxyToL2Cache)
  BY <1>1, <1>2 DEF Existing, Confirmed, Closed
<1>7. Told(x) => Told(y)
  BY <1>1, <1>2 DEF Told, Closed, Parsed
<1> QED
  BY <1>1, <1>2, <1>3, <1>5, <1>6, <1>7, Quietly

LEMMA AskAgainKeeps ==
  ASSUME IInv, NEW i \in Calls, AskAgain(i)
  PROVE  IInv'
<1> DEFINE x == calls[i]
           y == [x EXCEPT !.stage = "asked", !.attempt = @ + 1, !.sentAt = now]
<1>1. /\ x.stage = "backoff" /\ x \in CallState /\ calls \in [Calls -> CallState] /\ now \in Nat
      /\ Typed(i, x) /\ Routed(i, x) /\ Timely(i, x, now) /\ Existing(i, x, mined)
      /\ UNCHANGED <<scenario, now, upstream, proxies>>
  BY Parts DEF AskAgain
<1>2. /\ y \in CallState /\ y.stage = "asked" /\ y.hint = x.hint /\ y.failed = x.failed
      /\ y.unsure = x.unsure /\ y.existed = x.existed /\ y.sentAt = now
  <2>1. x.attempt + 1 \in Nat
    BY <1>1 DEF CallState
  <2> QED
    BY <1>1, <2>1 DEF CallState, Stages
<1>3. calls' = [calls EXCEPT ![i] = y]
  BY <1>1 DEF AskAgain
<1> HIDE DEF y
<1>4. Typed(i, y) /\ Routed(i, y)
  BY <1>1, <1>2 DEF Typed, Routed, Heard
<1>5. Timely(i, y, now)
  BY <1>1, <1>2, Lives DEF Timely, Flying, Closed
<1>6. Existing(i, y, mined) /\ Confirmed(i, y, pool, accepted, proxyToL2Cache)
  BY <1>1, <1>2 DEF Existing, Confirmed, Closed
<1>7. Told(x) => Told(y)
  BY <1>1, <1>2 DEF Told, Closed
<1> QED
  BY <1>1, <1>2, <1>3, <1>4, <1>5, <1>6, <1>7, Quietly

LEMMA AnswerFields ==
  ASSUME NEW x \in CallState, NEW e \in Answers
  PROVE  /\ Answer(x, e) \in CallState /\ Answer(x, e).stage = "done" /\ Answer(x, e).answer = e
         /\ Answer(x, e).hint = x.hint /\ Answer(x, e).failed = x.failed
         /\ Answer(x, e).unsure = x.unsure /\ Answer(x, e).existed = x.existed
BY DEF Answer, CallState, Stages

LEMMA StaleAnswer ==
  ASSUME IInv, NEW i \in Calls, Call(i).kind = "read", Call(i).chain = "l1", Usable(Call(i).key)
  PROVE  LET e == FromCache(Call(i).key) IN
         /\ e \in Answers /\ e.kind = "result" /\ e.value # Null /\ e.at = now
         /\ rpcCache[Call(i).key] \in Entry /\ e.readAt = rpcCache[Call(i).key].readAt
         /\ rpcCache[Call(i).key].expiresAt <= e.readAt + MaxFlight + TTL(Call(i).key)
<1> DEFINE k == Call(i).key
           c == rpcCache[k]
<1>1. k \in Keys
  BY DEF Keys, Of
<1>2. Caches(rpcCache, proxyToL2Cache) /\ now \in Nat
  BY Parts
<1>3. c \in Entry /\ c # Null /\ c.value # Null /\ c.expiresAt <= c.readAt + MaxFlight + TTL(k)
  BY <1>1, <1>2 DEF Caches, Usable
<1>4. FromCache(k) = [kind |-> "result", value |-> c.value, readAt |-> c.readAt, at |-> now]
  BY DEF FromCache, Result
<1> QED
  BY <1>2, <1>3, <1>4 DEF Answers, Kinds, Entry

LEMMA ReceiveFailureKeeps ==
  ASSUME IInv, NEW i \in Calls, ReceiveFailure(i)
  PROVE  IInv'
<1> DEFINE x == calls[i]
           e == IF Call(i).chain = "l1" THEN StaleOrError(i) ELSE Error
           y == Answer(x, e)
<1>1. /\ x.stage = "served" /\ ~Parsed(i) /\ x \in CallState /\ calls \in [Calls -> CallState]
      /\ scenario \in Scenarios
      /\ Typed(i, x) /\ Routed(i, x) /\ Timely(i, x, now) /\ Existing(i, x, mined)
      /\ UNCHANGED <<scenario, now, upstream, proxies>>
  BY Parts DEF ReceiveFailure
<1>2. calls' = [calls EXCEPT ![i] = y]
  BY <1>1 DEF ReceiveFailure
<1>3. x.failed
  BY <1>1 DEF Typed, Parsed
<1>4. e \in Answers /\ (e.kind = "result" => Call(i).kind = "read" /\ e.value # Null)
  <2>1. CASE e = Error
    BY <1>1, <2>1, AnswerTypes DEF Error
  <2>2. CASE e # Error
    <3>1. /\ Call(i).chain = "l1" /\ Call(i).kind = "read" /\ Usable(Call(i).key)
          /\ e = FromCache(Call(i).key)
      BY <2>2 DEF StaleOrError
    <3> QED
      BY <3>1, StaleAnswer
  <2> QED
    BY <2>1, <2>2
<1> HIDE DEF e
<1>5. /\ y \in CallState /\ y.stage = "done" /\ y.answer = e /\ y.hint = x.hint /\ y.failed = x.failed
      /\ y.unsure = x.unsure /\ y.existed = x.existed
  BY <1>1, <1>4, AnswerFields
<1> HIDE DEF y
<1>6. Typed(i, y) /\ Routed(i, y) /\ Timely(i, y, now)
  BY <1>1, <1>3, <1>4, <1>5 DEF Typed, Routed, Timely, Heard, Flying
<1>7. Existing(i, y, mined) /\ Confirmed(i, y, pool, accepted, proxyToL2Cache)
  BY <1>1, <1>4, <1>5 DEF Existing, Confirmed, Closed
<1>8. Told(x) => Told(y)
  BY <1>1, <1>5 DEF Told, Closed, Parsed
<1> QED
  BY <1>1, <1>2, <1>5, <1>6, <1>7, <1>8, Quietly

LEMMA ReportKeeps ==
  ASSUME IInv, NEW i \in Calls, Report(i)
  PROVE  IInv'
<1> DEFINE x == calls[i]
           e == BuilderResult(i)
           y == Answer(x, e)
<1>1. /\ x.stage = "decided" /\ x \in CallState /\ calls \in [Calls -> CallState]
      /\ scenario \in Scenarios /\ Call(i).kind = "send"
      /\ Typed(i, x) /\ Routed(i, x) /\ Existing(i, x, mined)
      /\ Confirmed(i, x, pool, accepted, proxyToL2Cache)
      /\ UNCHANGED <<scenario, now, upstream, proxies>>
  BY Parts DEF Report, Routed
<1>2. calls' = [calls EXCEPT ![i] = y]
  BY <1>1 DEF Report
<1>3. e \in Answers /\ (e.kind = "result" <=> x.response.kind = "success")
  BY <1>1, AnswerTypes DEF BuilderResult, Hash, Error
<1> HIDE DEF e
<1>4. /\ y \in CallState /\ y.stage = "done" /\ y.answer = e /\ y.hint = x.hint /\ y.failed = x.failed
      /\ y.unsure = x.unsure /\ y.existed = x.existed
  BY <1>1, <1>3, AnswerFields
<1> HIDE DEF y
<1>5. Typed(i, y) /\ Routed(i, y) /\ Timely(i, y, now)
  BY <1>1, <1>3, <1>4 DEF Typed, Routed, Timely, Heard
<1>6. Existing(i, y, mined) /\ Confirmed(i, y, pool, accepted, proxyToL2Cache)
  BY <1>1, <1>3, <1>4 DEF Existing, Confirmed, Closed
<1>7. Told(x) => Told(y)
  BY <1>1, <1>4 DEF Told, Closed
<1> QED
  BY <1>1, <1>2, <1>4, <1>5, <1>6, <1>7, Quietly

LEMMA DecideKeeps ==
  ASSUME IInv, NEW i \in Calls, Decide(i)
  PROVE  IInv'
<1> DEFINE x == calls[i]
           new == {[call |-> i, hint |-> x.hint]}
<1>1. /\ x.stage = "submitted" /\ x \in CallState /\ calls \in [Calls -> CallState]
      /\ scenario \in Scenarios /\ Call(i).kind = "send"
      /\ Typed(i, x) /\ Routed(i, x) /\ Existing(i, x, mined)
      /\ Origins(calls, pool, accepted) /\ Caches(rpcCache, proxyToL2Cache)
      /\ scenario' = scenario /\ now' = now /\ height' = height /\ pool' = pool /\ mined' = mined
      /\ rpcCache' = rpcCache /\ proxyToL2Cache' = proxyToL2Cache
      /\ pendingHints' = pendingHints /\ timers' = timers
  BY Parts DEF Decide, Routed, proxies
<1>2. PICK takes \in BOOLEAN, kind \in {"success", "rejected", "lost"} :
          /\ kind = "success" => takes
          /\ accepted' = IF takes THEN accepted \cup new ELSE accepted
          /\ calls' = [calls EXCEPT ![i].stage = "decided", ![i].failed = (kind = "lost"),
                                    ![i].response = [Error EXCEPT !.kind = kind]]
  BY DEF Decide
<1> DEFINE e == [Error EXCEPT !.kind = kind]
           y == [x EXCEPT !.stage = "decided", !.failed = (kind = "lost"), !.response = e]
<1>3. e \in Answers /\ e.kind = kind
  BY <1>1, AnswerTypes DEF Kinds, Error
<1>4. calls' = [calls EXCEPT ![i] = y]
  BY <1>1, <1>2
<1> HIDE DEF e
<1>5. /\ y \in CallState /\ y.stage = "decided" /\ y.response = e /\ y.hint = x.hint
      /\ y.failed = (kind = "lost") /\ y.unsure = x.unsure /\ y.existed = x.existed
  BY <1>1, <1>3 DEF CallState, Stages
<1> HIDE DEF y
<1>6. Typed(i, y) /\ Routed(i, y) /\ Timely(i, y, now)
  BY <1>1, <1>3, <1>5 DEF Typed, Routed, Timely, Heard
<1>7. takes => \E b \in accepted' : b.call = i
  <2>1. [call |-> i, hint |-> x.hint].call = i
    OBVIOUS
  <2> QED
    BY <1>2, <2>1
<1>8. Existing(i, y, mined) /\ Confirmed(i, y, pool, accepted', proxyToL2Cache)
  BY <1>1, <1>2, <1>3, <1>5, <1>7 DEF Existing, Confirmed, Closed
<1>9. Told(x) => Told(y)
  BY <1>1, <1>5 DEF Told, Closed
<1>10. Call(i).chain = "l1" => y.hint # Null
  BY <1>1, <1>5 DEF Routed
<1>11. Origins([calls EXCEPT ![i] = y], pool, accepted')
  BY <1>1, <1>2, <1>5, <1>9, <1>10, OriginsKept
<1>12. CallFine(i, y, now, mined, pool, accepted', proxyToL2Cache)
  BY <1>6, <1>8 DEF CallFine
<1> QED
  BY <1>1, <1>2, <1>4, <1>5, <1>11, <1>12, CallMoves

LEMMA ReceiveParsedKeeps ==
  ASSUME IInv, NEW i \in Calls, ReceiveParsed(i)
  PROVE  IInv'
<1> DEFINE x == calls[i]
           e == IF Call(i).kind = "read" THEN [x.response EXCEPT !.at = now] ELSE x.response
           y == Answer(x, e)
           k == Call(i).key
           l1 == Call(i).chain = "l1" /\ Call(i).kind = "read"
<1>1. /\ x.stage = "served" /\ Parsed(i) /\ x \in CallState /\ calls \in [Calls -> CallState]
      /\ scenario \in Scenarios /\ now \in Nat /\ Call(i).kind \in {"read", "send", "hint"}
      /\ Typed(i, x) /\ Routed(i, x) /\ Timely(i, x, now) /\ Existing(i, x, mined)
      /\ Confirmed(i, x, pool, accepted, proxyToL2Cache)
      /\ Origins(calls, pool, accepted) /\ Caches(rpcCache, proxyToL2Cache)
      /\ scenario' = scenario /\ now' = now /\ height' = height /\ pool' = pool /\ mined' = mined
      /\ accepted' = accepted /\ pendingHints' = pendingHints /\ timers' = timers
  BY Parts DEF ReceiveParsed, upstream
<1>2. /\ calls' = [calls EXCEPT ![i] = y]
      /\ rpcCache' = IF l1 THEN SetCachedResult(k, x.response) ELSE rpcCache
      /\ proxyToL2Cache' = IF Call(i).kind = "hint" THEN RegisterHint(i) ELSE proxyToL2Cache
  BY <1>1 DEF ReceiveParsed
<1>3. x.response \in Answers /\ x.response.kind \in {"result", "error"}
  BY <1>1 DEF Typed, Heard, Parsed
<1>4. /\ e \in Answers /\ e.kind = x.response.kind /\ e.value = x.response.value
      /\ e.readAt = x.response.readAt /\ (Call(i).kind = "read" => e.at = now)
  BY <1>1, <1>3 DEF Answers
<1> HIDE DEF e
<1>5. /\ y \in CallState /\ y.stage = "done" /\ y.answer = e /\ y.hint = x.hint /\ y.failed = x.failed
      /\ y.unsure = x.unsure /\ y.existed = x.existed
  BY <1>1, <1>4, AnswerFields
<1> HIDE DEF y
<1>6. TTL(k) \in Nat /\ MaxFlight \in Nat /\ k \in AnyKey /\ (Call(i).kind # "read" => k # Null)
  BY <1>1, CallShape, Lives
<1>7. Call(i).kind = "read" => now <= e.readAt + MaxFlight
  <2>1. x.sentAt \in Nat /\ e.readAt \in Nat
    BY <1>1, <1>4 DEF CallState, Answers
  <2> QED
    BY <1>1, <1>3, <1>4, <1>6, <2>1 DEF Timely, Flying
<1>8. Typed(i, y) /\ Routed(i, y)
  BY <1>1, <1>4, <1>5 DEF Typed, Routed, Heard
<1>9. Timely(i, y, now)
  <2>1. e.readAt \in Nat
    BY <1>4 DEF Answers
  <2>2. Bound(i) \in Nat /\ MaxFlight <= Bound(i)
    BY <1>6 DEF Bound
  <2> QED
    BY <1>1, <1>4, <1>5, <1>6, <1>7, <2>1, <2>2 DEF Timely, Flying
<1>10. Existing(i, y, mined)
  BY <1>1, <1>4, <1>5 DEF Existing, Closed
<1>11. /\ \A z : proxyToL2Cache[z] # Null => proxyToL2Cache'[z] # Null
       /\ Call(i).kind = "hint" => proxyToL2Cache'[Call(i).about] # Null
       /\ proxyToL2Cache' \in [Addresses -> AnyKey \cup {Null}]
  <2>1. proxyToL2Cache \in [Addresses -> AnyKey \cup {Null}]
    BY <1>1 DEF Caches
  <2>2. CASE Call(i).kind = "hint"
    <3>1. Call(i).about \in Addresses
      BY <1>1, <2>2 DEF Addresses, Of, Routed
    <3>2. proxyToL2Cache' = [proxyToL2Cache EXCEPT ![Call(i).about] = k]
      BY <1>2, <2>2 DEF RegisterHint
    <3> QED
      BY <1>6, <2>1, <2>2, <3>1, <3>2
  <2>3. CASE Call(i).kind # "hint"
    BY <1>2, <2>1, <2>3
  <2> QED
    BY <2>2, <2>3
<1>12. Confirmed(i, y, pool, accepted, proxyToL2Cache')
  BY <1>1, <1>4, <1>5, <1>11 DEF Confirmed, Closed
<1>13. Caches(rpcCache', proxyToL2Cache')
  <2>1. CASE l1 /\ TTL(k) # 0
    <3> DEFINE c == [value |-> x.response.value, readAt |-> x.response.readAt, expiresAt |-> now + TTL(k)]
    <3>1. rpcCache' = [rpcCache EXCEPT ![k] = c] /\ k \in Keys
      BY <1>2, <2>1 DEF SetCachedResult, Keys, Of
    <3>2. c \in Entry /\ c.expiresAt = now + TTL(k) /\ c.readAt = e.readAt /\ e.readAt \in Nat
      BY <1>1, <1>3, <1>4, <1>6 DEF Entry, Answers
    <3>3. c.expiresAt <= c.readAt + MaxFlight + TTL(k)
      BY <1>1, <1>6, <1>7, <2>1, <3>2
    <3> HIDE DEF c
    <3> QED
      BY <1>1, <1>11, <3>1, <3>2, <3>3 DEF Caches
  <2>2. CASE ~(l1 /\ TTL(k) # 0)
    <3>1. rpcCache' = rpcCache
      BY <1>2, <2>2 DEF SetCachedResult
    <3> QED
      BY <1>1, <1>11, <3>1 DEF Caches
  <2> QED
    BY <2>1, <2>2
<1>14. Told(x) => Told(y)
  BY <1>1, <1>4, <1>5 DEF Told, Closed
<1>15. Origins([calls EXCEPT ![i] = y], pool, accepted)
  BY <1>1, <1>5, <1>14, OriginsKept
<1>16. CallFine(i, y, now, mined, pool, accepted, proxyToL2Cache')
  BY <1>8, <1>9, <1>10, <1>12 DEF CallFine
<1> QED
  BY <1>1, <1>2, <1>5, <1>11, <1>13, <1>15, <1>16, CallMoves

-----------------------------------------------------------------------------
(* Time, blocks and timers. *)
LEMMA TickKeeps ==
  ASSUME IInv, Tick
  PROVE  IInv'
<1>1. /\ scenario \in Scenarios /\ now \in Nat /\ calls \in [Calls -> CallState]
      /\ Chains(now, height, mined, pool) /\ Caches(rpcCache, proxyToL2Cache)
      /\ Origins(calls, pool, accepted) /\ InOrder(calls) /\ PastTheBuilder(calls)
      /\ Books(calls, pendingHints, timers, now)
  BY DEF IInv, Chains
<1>2. /\ scenario' = scenario /\ height' = height /\ pool' = pool /\ mined' = mined
      /\ accepted' = accepted /\ rpcCache' = rpcCache /\ proxyToL2Cache' = proxyToL2Cache
      /\ pendingHints' = pendingHints /\ timers' = timers /\ calls' = calls /\ now' = now + 1
  BY DEF Tick, upstream, proxies
<1>3. Chains(now', height, mined, pool)
  BY <1>1, <1>2 DEF Chains
<1>4. ASSUME NEW i \in Calls PROVE CallFine(i, calls[i], now', mined, pool, accepted, proxyToL2Cache)
  <2> DEFINE x == calls[i]
  <2>1. CallFine(i, x, now, mined, pool, accepted, proxyToL2Cache) /\ x \in CallState
    BY <1>1 DEF IInv
  <2>2. (Call(i).kind = "read" /\ Flying(x)) => now - x.sentAt < MaxFlight
    <3>1. Call(i).chain \in {"l1", "l2"}
      BY <1>1, CallShape
    <3> QED
      BY <3>1 DEF Tick, Of, Flying
  <2>3. Timely(i, x, now + 1)
    <3>1. x.sentAt \in Nat /\ (Heard(x) => x.response.readAt \in Nat)
      BY <2>1 DEF CallState, CallFine, Typed, Answers
    <3> QED
      BY <1>1, <2>1, <2>2, <3>1, Lives DEF CallFine, Timely, Flying, Heard
  <2> QED
    BY <1>2, <2>1, <2>3 DEF CallFine
<1>5. Books(calls, pendingHints, timers, now')
  <2>1. Keeping(calls, pendingHints, now')
    <3>1. ASSUME NEW h \in Of("l2", "hint"), calls[h].stage = "done", now' < calls[h].answer.at + HintLife
          PROVE  now < calls[h].answer.at + HintLife
      <4>1. h \in Calls
        BY DEF Of
      <4>2. calls[h].answer.at \in Nat
        BY <3>1, <4>1 DEF IInv, CallFine, Typed, Answers
      <4> QED
        BY <1>1, <1>2, <3>1, <4>2, Lives
    <3> QED
      BY <1>1, <3>1 DEF Books, Keeping
  <2> QED
    BY <1>1, <2>1 DEF Books
<1> QED
  BY <1>1, <1>2, <1>3, <1>4, <1>5, Assemble

LEMMA MineKeeps ==
  ASSUME IInv, NEW c \in {"l1", "l2"}, Mine(c)
  PROVE  IInv'
<1>1. /\ scenario \in Scenarios /\ calls \in [Calls -> CallState]
      /\ Chains(now, height, mined, pool) /\ Caches(rpcCache, proxyToL2Cache)
      /\ Origins(calls, pool, accepted) /\ InOrder(calls) /\ PastTheBuilder(calls)
      /\ Books(calls, pendingHints, timers, now)
  BY DEF IInv
<1>2. /\ scenario' = scenario /\ now' = now /\ pool' = pool
      /\ accepted' = accepted /\ rpcCache' = rpcCache /\ proxyToL2Cache' = proxyToL2Cache
      /\ pendingHints' = pendingHints /\ timers' = timers /\ calls' = calls
      /\ height' = [height EXCEPT ![c] = @ + 1]
      /\ mined' = IF c = "l1" THEN pool ELSE mined
  BY DEF Mine, proxies
<1>3. Chains(now, height', mined', pool) /\ mined \subseteq mined'
  BY <1>1, <1>2 DEF Chains
<1>4. ASSUME NEW i \in Calls PROVE CallFine(i, calls[i], now, mined', pool, accepted, proxyToL2Cache)
  BY <1>3, CallGrows DEF IInv
<1> QED
  BY <1>1, <1>2, <1>3, <1>4, Assemble

(* The timer of an old hint may delete a newer one of the same sender, but *)
(* not the only one.                                                       *)
LEMMA ExpireKeeps ==
  ASSUME IInv, NEW t \in timers, Expire(t)
  PROVE  IInv'
<1>1. /\ scenario \in Scenarios /\ now \in Nat /\ calls \in [Calls -> CallState]
      /\ Chains(now, height, mined, pool) /\ Caches(rpcCache, proxyToL2Cache)
      /\ Origins(calls, pool, accepted) /\ InOrder(calls) /\ PastTheBuilder(calls)
      /\ Waiting(calls, pendingHints) /\ Taking(calls) /\ Due(calls, timers)
      /\ Keeping(calls, pendingHints, now)
  BY DEF IInv, Chains, Books
<1>2. /\ scenario' = scenario /\ now' = now /\ height' = height /\ pool' = pool /\ mined' = mined
      /\ accepted' = accepted /\ rpcCache' = rpcCache /\ proxyToL2Cache' = proxyToL2Cache
      /\ calls' = calls /\ timers' = timers \ {t}
      /\ pendingHints' = [pendingHints EXCEPT ![t.sender] = Null] /\ t.due <= now
  BY DEF Expire, upstream
<1>3. /\ t.of \in Of("l2", "hint") /\ calls[t.of].stage = "done"
      /\ t.sender = Call(t.of).about /\ t.due = calls[t.of].answer.at + HintLife
  BY <1>1 DEF Due
<1>4. t.of \in Calls /\ t.sender \in Senders
  BY <1>3 DEF Of, Senders
<1>5. Waiting(calls, pendingHints')
  <2>1. pendingHints' \in [Senders -> Calls \cup {Null}]
    BY <1>1, <1>2 DEF Waiting
  <2>2. \A z \in Senders : pendingHints'[z] # Null => pendingHints'[z] = pendingHints[z]
    BY <1>1, <1>2, <1>4 DEF Waiting
  <2> QED
    BY <1>1, <2>1, <2>2 DEF Waiting
<1>6. Due(calls, timers')
  BY <1>1, <1>2 DEF Due
<1>7. Keeping(calls, pendingHints', now)
  <2> SUFFICES ASSUME NEW h \in Of("l2", "hint"), calls[h].stage = "done",
                      now < calls[h].answer.at + HintLife,
                      \A g \in Of("l2", "hint") \ {h} : Call(g).about = Call(h).about => calls[g].stage = "new"
               PROVE  pendingHints'[Call(h).about] = h \/ \E i \in Of("l2", "send") : calls[i].hint = h
    BY DEF Keeping
  <2>1. h \in Calls /\ calls[h].answer.at \in Nat
    <3>1. h \in Calls
      BY DEF Of
    <3> QED
      BY <3>1 DEF IInv, CallFine, Typed, Answers
  <2>2. t.of # h
    <3> SUFFICES ASSUME t.of = h PROVE FALSE
      OBVIOUS
    <3>1. calls[h].answer.at + HintLife <= now
      BY <1>2, <1>3
    <3> QED
      BY <1>1, <2>1, <3>1, Lives
  <2>3. t.sender # Call(h).about
    BY <1>3, <2>2
  <2>4. Call(h).about \in Senders
    BY DEF Senders
  <2>5. pendingHints'[Call(h).about] = pendingHints[Call(h).about]
    BY <1>1, <1>2, <2>3, <2>4 DEF Waiting
  <2> QED
    BY <1>1, <2>5 DEF Keeping
<1>8. Books(calls, pendingHints', timers', now)
  BY <1>1, <1>5, <1>6, <1>7 DEF Books
<1>9. \A i \in Calls : CallFine(i, calls[i], now, mined, pool, accepted, proxyToL2Cache)
  BY DEF IInv
<1> QED
  BY <1>1, <1>2, <1>8, <1>9, Assemble

LEMMA InitGood == Init => IInv
<1> SUFFICES ASSUME Init PROVE IInv
  OBVIOUS
<1>1. /\ scenario \in Scenarios /\ now = 0 /\ height = [c \in {"l1", "l2"} |-> 0]
      /\ pool = {} /\ mined = {} /\ accepted = {}
      /\ rpcCache = [k \in Keys |-> Null] /\ proxyToL2Cache = [a \in Addresses |-> Null]
      /\ pendingHints = [z \in Senders |-> Null] /\ timers = {}
      /\ calls = [i \in Calls |-> Idle]
  BY DEF Init
<1>2. Idle \in CallState /\ Idle.stage = "new" /\ Idle.hint = Null /\ ~Idle.failed /\ ~Idle.existed
  BY DEF Idle, CallState, Stages
<1>3. ASSUME NEW i \in Calls PROVE CallFine(i, calls[i], now, mined, pool, accepted, proxyToL2Cache)
  <2>1. Typed(i, Idle) /\ Routed(i, Idle) /\ Timely(i, Idle, now) /\ Existing(i, Idle, mined)
        /\ Confirmed(i, Idle, pool, accepted, proxyToL2Cache)
    BY <1>2 DEF Typed, Routed, Timely, Existing, Confirmed, Heard, Flying, Closed
  <2> QED
    BY <1>1, <2>1 DEF CallFine
<1>4. \A i \in Calls : calls[i].stage = "new" /\ calls[i].hint = Null
  BY <1>1, <1>2
<1>5. \A c, k : Of(c, k) \subseteq Calls
  BY DEF Of
<1>6. InOrder(calls) /\ PastTheBuilder(calls)
  BY <1>4, <1>5 DEF InOrder, PastTheBuilder
<1>7. Books(calls, pendingHints, timers, now)
  <2>1. Waiting(calls, pendingHints)
    BY <1>1 DEF Waiting
  <2>2. Taking(calls)
    BY <1>4, <1>5 DEF Taking
  <2>3. Due(calls, timers)
    BY <1>1 DEF Due
  <2>4. Keeping(calls, pendingHints, now)
    BY <1>4, <1>5 DEF Keeping
  <2> QED
    BY <2>1, <2>2, <2>3, <2>4 DEF Books
<1>8. Chains(now, height, mined, pool) /\ Caches(rpcCache, proxyToL2Cache) /\ Origins(calls, pool, accepted)
  BY <1>1 DEF Chains, Caches, Origins
<1>9. calls \in [Calls -> CallState]
  BY <1>1, <1>2
<1> QED
  BY <1>1, <1>3, <1>6, <1>7, <1>8, <1>9 DEF IInv

-----------------------------------------------------------------------------
(* A batch: calls, hints and timers, changed call by call. *)
Pieces == [calls : [Calls -> CallState], hints : [Senders -> Calls \cup {Null}], timers : SUBSET Timers]

PieceFine(s) ==
    /\ \A j \in Calls : CallFine(j, s.calls[j], now, mined, pool, accepted, proxyToL2Cache)
    /\ Origins(s.calls, pool, accepted) /\ InOrder(s.calls) /\ PastTheBuilder(s.calls)
    /\ Books(s.calls, s.hints, s.timers, now)

(* What the start of a call does to the three. *)
Plain(s, r, i, y) ==
    /\ r.hints = s.hints /\ r.timers = s.timers
    /\ i \notin Of("l2", "send") /\ i \notin Of("l2", "hint")
    /\ i \in Of("l1", "send") /\ y.hint = Null => proxyToL2Cache[Call(i).about] = Null

Takes(s, r, i, y) ==
    /\ i \in Of("l2", "send") /\ y.hint = s.hints[Call(i).about]
    /\ r.hints = [s.hints EXCEPT ![Call(i).about] = Null] /\ r.timers = s.timers

Registers(s, r, i, y) ==
    /\ i \in Of("l2", "hint") /\ y.stage = "done" /\ y.answer.at = now /\ y.hint = s.calls[i].hint
    /\ r.hints = [s.hints EXCEPT ![Call(i).about] = i]
    /\ r.timers = s.timers \cup {[sender |-> Call(i).about, due |-> now + HintLife, of |-> i]}

Starts(s, r, i) ==
    /\ r \in Pieces
    /\ \E y \in CallState :
          /\ r.calls = [s.calls EXCEPT ![i] = y] /\ y.stage # "new"
          /\ s.calls[i] = Idle => CallFine(i, y, now, mined, pool, accepted, proxyToL2Cache)
          /\ Plain(s, r, i, y) \/ Takes(s, r, i, y) \/ Registers(s, r, i, y)

LEMMA PieceTypes ==
  ASSUME NEW s \in Pieces, NEW i \in Calls
  PROVE  /\ s.calls \in [Calls -> CallState] /\ s.calls[i] \in CallState
         /\ s.hints \in [Senders -> Calls \cup {Null}] /\ s.timers \in SUBSET Timers
         /\ s = [calls |-> s.calls, hints |-> s.hints, timers |-> s.timers]
BY DEF Pieces

LEMMA PutIs ==
  ASSUME NEW s \in Pieces, NEW i \in Calls, NEW y \in CallState
  PROVE  /\ Put(s, i, y).calls = [s.calls EXCEPT ![i] = y]
         /\ Put(s, i, y).hints = s.hints /\ Put(s, i, y).timers = s.timers
         /\ Put(s, i, y) \in Pieces
BY PieceTypes DEF Put, Pieces

(* A call that is sent on starts to wait. *)
LEMMA AskStarts ==
  ASSUME IInv, NEW i \in Calls, NEW x \in CallState, NEW flag, flag \in BOOLEAN,
         NEW y, y = [x EXCEPT !.stage = "asked", !.sentAt = now, !.existed = flag]
  PROVE  /\ y \in CallState /\ y.stage = "asked" /\ y.hint = x.hint
         /\ ( /\ x = Idle /\ (Call(i).kind # "read" => Call(i).chain = "l1")
              /\ flag => /\ Call(i).kind = "read"
                         /\ Call(i).key # "height" => Call(i).key \in mined /\ Call(i).key # Null )
            => CallFine(i, y, now, mined, pool, accepted, proxyToL2Cache)
<1>1. now \in Nat
  BY Parts
<1>2. /\ y \in CallState /\ y.stage = "asked" /\ y.hint = x.hint /\ y.sentAt = now
      /\ y.existed = flag /\ y.failed = x.failed
  BY <1>1 DEF CallState, Stages
<1>3. ASSUME x = Idle, Call(i).kind # "read" => Call(i).chain = "l1",
             flag => /\ Call(i).kind = "read"
                     /\ Call(i).key # "height" => Call(i).key \in mined /\ Call(i).key # Null
      PROVE  CallFine(i, y, now, mined, pool, accepted, proxyToL2Cache)
  <2>1. x.hint = Null
    BY <1>3 DEF Idle
  <2>2. Typed(i, y) /\ Routed(i, y)
    BY <1>2, <1>3, <2>1 DEF Typed, Routed, Heard
  <2>3. Timely(i, y, now)
    BY <1>1, <1>2, Lives DEF Timely, Flying, Closed
  <2>4. Existing(i, y, mined) /\ Confirmed(i, y, pool, accepted, proxyToL2Cache)
    BY <1>2, <1>3 DEF Existing, Confirmed, Closed
  <2> QED
    BY <2>2, <2>3, <2>4 DEF CallFine
<1> QED
  BY <1>2, <1>3

LEMMA SubmitStarts ==
  ASSUME NEW i \in Calls, NEW x \in CallState, NEW hint \in AnyKey \cup Nat \cup {Null}
  PROVE  LET y == SubmitToBuilder(x, hint) IN
         /\ y \in CallState /\ y.stage = "submitted" /\ y.hint = hint
         /\ (x = Idle /\ Call(i).kind = "send" /\ (Call(i).chain = "l1" => hint # Null))
            => CallFine(i, y, now, mined, pool, accepted, proxyToL2Cache)
<1> DEFINE y == SubmitToBuilder(x, hint)
<1>1. /\ y \in CallState /\ y.stage = "submitted" /\ y.hint = hint
      /\ y.existed = x.existed /\ y.failed = x.failed
  BY DEF SubmitToBuilder, CallState, Stages
<1> HIDE DEF y
<1>2. ASSUME x = Idle, Call(i).kind = "send", Call(i).chain = "l1" => hint # Null
      PROVE  CallFine(i, y, now, mined, pool, accepted, proxyToL2Cache)
  <2>1. ~x.failed /\ ~x.existed
    BY <1>2 DEF Idle
  <2>2. Typed(i, y) /\ Routed(i, y)
    BY <1>1, <1>2, <2>1 DEF Typed, Routed, Heard
  <2>3. Timely(i, y, now) /\ Existing(i, y, mined) /\ Confirmed(i, y, pool, accepted, proxyToL2Cache)
    BY <1>1, <1>2, <2>1 DEF Timely, Existing, Confirmed, Closed
  <2> QED
    BY <2>2, <2>3 DEF CallFine
<1> QED
  BY <1>1, <1>2 DEF y

(* A call that is answered at once. *)
Ready(i, e, flag) ==
    /\ Call(i).kind = "read" /\ Call(i).key # Detection => e.at <= e.readAt + Bound(i)
    /\ ~(Call(i).kind = "hint" /\ Call(i).chain = "l1") /\ Call(i).kind # "send"
    /\ flag => /\ Call(i).kind = "read" /\ e.value # Null
               /\ Call(i).key # "height" => Call(i).key \in mined /\ Call(i).key # Null

LEMMA AnsweredFine ==
  ASSUME NEW i \in Calls, NEW y \in CallState, y.stage = "done", y.answer \in Answers, y.hint = Null,
         Ready(i, y.answer, y.existed)
  PROVE  CallFine(i, y, now, mined, pool, accepted, proxyToL2Cache)
<1>1. Typed(i, y) /\ Routed(i, y)
  BY DEF Typed, Routed, Heard
<1>2. Timely(i, y, now) /\ Existing(i, y, mined) /\ Confirmed(i, y, pool, accepted, proxyToL2Cache)
  BY DEF Ready, Timely, Existing, Confirmed, Closed, Flying
<1> QED
  BY <1>1, <1>2 DEF CallFine

LEMMA AnswerStarts ==
  ASSUME NEW i \in Calls, NEW x \in CallState, NEW e \in Answers,
         x = Idle => Ready(i, e, FALSE)
  PROVE  LET y == Answer(x, e) IN
         x = Idle => CallFine(i, y, now, mined, pool, accepted, proxyToL2Cache)
<1> SUFFICES ASSUME x = Idle
             PROVE  CallFine(i, Answer(x, e), now, mined, pool, accepted, proxyToL2Cache)
  OBVIOUS
<1> DEFINE y == Answer(x, e)
<1>1. /\ y \in CallState /\ y.stage = "done" /\ y.answer = e /\ y.hint = Null /\ y.existed = FALSE
  BY AnswerFields DEF Idle
<1> HIDE DEF y
<1>2. Ready(i, y.answer, y.existed)
  BY <1>1
<1>3. CallFine(i, y, now, mined, pool, accepted, proxyToL2Cache)
  BY <1>1, <1>2, AnsweredFine
<1> QED
  BY <1>3 DEF y

(* A call that neither takes nor registers a hint on L2. *)
LEMMA PlainStarts ==
  ASSUME NEW s \in Pieces, NEW i \in Calls, NEW y \in CallState, y.stage # "new",
         s.calls[i] = Idle => CallFine(i, y, now, mined, pool, accepted, proxyToL2Cache),
         i \notin Of("l2", "send"), i \notin Of("l2", "hint"),
         i \in Of("l1", "send") /\ y.hint = Null => proxyToL2Cache[Call(i).about] = Null,
         NEW r, r = Put(s, i, y)
  PROVE  Starts(s, r, i)
<1>1. r.calls = [s.calls EXCEPT ![i] = y] /\ r.hints = s.hints /\ r.timers = s.timers /\ r \in Pieces
  BY PutIs
<1>2. Plain(s, r, i, y)
  BY <1>1 DEF Plain
<1> QED
  BY <1>1, <1>2 DEF Starts

LEMMA SameExisted ==
  ASSUME NEW x \in CallState
  PROVE  \A n \in Nat : [x EXCEPT !.stage = "asked", !.sentAt = n]
                             = [x EXCEPT !.stage = "asked", !.sentAt = n, !.existed = x.existed]
BY DEF CallState, Stages

(* A read: from the cache of the L1 proxy, or asked for. *)
LEMMA ReadStarts ==
  ASSUME IInv, NEW i \in Calls, NEW x \in CallState, NEW flag, flag \in BOOLEAN, Call(i).kind = "read",
         NEW y, y = [ForwardToRpc(x, i) EXCEPT !.existed = flag]
  PROVE  /\ y \in CallState /\ y.stage # "new"
         /\ ( /\ x = Idle
              /\ flag /\ Call(i).key # "height" => Call(i).key \in mined /\ Call(i).key # Null )
            => CallFine(i, y, now, mined, pool, accepted, proxyToL2Cache)
<1> DEFINE k == Call(i).key
<1>1. CASE Call(i).chain = "l1" /\ Fresh(k)
  <2> DEFINE e == FromCache(k)
  <2>1. y = [Answer(x, e) EXCEPT !.existed = flag]
    BY <1>1 DEF ForwardToRpc
  <2>2. /\ e \in Answers /\ e.value # Null /\ e.at = now /\ rpcCache[k] \in Entry
        /\ now < rpcCache[k].expiresAt /\ TTL(k) > 0
        /\ rpcCache[k].expiresAt <= e.readAt + MaxFlight + TTL(k)
    BY <1>1, StaleAnswer DEF Fresh, Usable
  <2>3. now \in Nat /\ e.readAt \in Nat /\ rpcCache[k].expiresAt \in Nat /\ TTL(k) \in Nat /\ MaxFlight \in Nat
    BY <2>2, Parts, CallShape, Lives DEF Answers, Entry
  <2> HIDE DEF e
  <2>4. Bound(i) = MaxFlight + (TTL(k) - 1)
    BY <1>1, <2>2 DEF Bound
  <2>5. e.at <= e.readAt + Bound(i)
    BY <2>2, <2>3, <2>4
  <2>6. /\ y \in CallState /\ y.stage = "done" /\ y.answer = e /\ y.hint = x.hint /\ y.existed = flag
    <3> DEFINE z == Answer(x, e)
    <3>1. z \in CallState /\ z.stage = "done" /\ z.answer = e /\ z.hint = x.hint
      BY <2>2, AnswerFields
    <3>2. y = [z EXCEPT !.existed = flag]
      BY <2>1
    <3> HIDE DEF z
    <3> QED
      BY <3>1, <3>2 DEF CallState
  <2>7. ASSUME x = Idle, flag /\ k # "height" => k \in mined /\ k # Null
        PROVE  CallFine(i, y, now, mined, pool, accepted, proxyToL2Cache)
    <3>1. Ready(i, y.answer, y.existed) /\ y.hint = Null
      BY <2>2, <2>5, <2>6, <2>7 DEF Ready, Idle
    <3> QED
      BY <2>2, <2>6, <3>1, AnsweredFine
  <2> QED
    BY <2>6, <2>7
<1>2. CASE ~(Call(i).chain = "l1" /\ Fresh(k))
  <2>1. y = [x EXCEPT !.stage = "asked", !.sentAt = now, !.existed = flag]
    BY <1>2 DEF ForwardToRpc
  <2> QED
    BY <2>1, AskStarts
<1> QED
  BY <1>1, <1>2

LEMMA RequestStarts ==
  ASSUME IInv, NEW s \in Pieces, NEW i \in Calls
  PROVE  Starts(s, HandleRpcRequest(s, i), i)
<1> DEFINE x == s.calls[i]
           r == HandleRpcRequest(s, i)
           about == Call(i).about
           key == Call(i).key
<1> SUFFICES Starts(s, r, i)
  OBVIOUS
<1>1. /\ scenario \in Scenarios /\ now \in Nat /\ x \in CallState /\ x.existed \in BOOLEAN
      /\ Call(i).chain \in {"l1", "l2"} /\ Call(i).kind \in {"read", "send", "hint"}
      /\ i \in Nat /\ i # Null /\ (Call(i).kind # "read" => key # Null /\ key # Detection)
      /\ key \in AnyKey
  BY Parts, CallShape, PieceTypes DEF CallState
<1>2. CASE key = Detection
  <2> DEFINE e == Result(Detection, now)
             y == Answer(x, e)
  <2>1. r = Put(s, i, y) /\ Call(i).kind = "read"
    BY <1>1, <1>2 DEF HandleRpcRequest
  <2>2. e \in Answers
    BY <1>1, <1>2 DEF Result, Answers, Kinds, Values
  <2> HIDE DEF e
  <2>3. x = Idle => Ready(i, e, FALSE)
    BY <1>2, <2>1 DEF Ready
  <2>4. /\ y \in CallState /\ y.stage = "done"
        /\ x = Idle => CallFine(i, y, now, mined, pool, accepted, proxyToL2Cache)
    BY <1>1, <2>2, <2>3, AnswerStarts, AnswerFields
  <2> HIDE DEF y, x
  <2>6. i \notin Of("l2", "send") /\ i \notin Of("l2", "hint") /\ i \notin Of("l1", "send")
    BY <2>1 DEF Of
  <2> HIDE DEF r
  <2> QED
    BY <2>1, <2>4, <2>6, PlainStarts DEF x
<1>3. CASE key # Detection /\ Call(i).kind = "read"
  <2> DEFINE flag == Current(Call(i).chain, key) # Null
             y == [ForwardToRpc(x, i) EXCEPT !.existed = flag]
  <2>1. r = Put(s, i, y)
    BY <1>3 DEF HandleRpcRequest
  <2>2. flag \in BOOLEAN /\ (flag /\ key # "height" => key \in mined /\ key # Null)
    BY DEF Current
  <2> HIDE DEF flag
  <2>3. /\ y \in CallState /\ y.stage # "new"
        /\ x = Idle => CallFine(i, y, now, mined, pool, accepted, proxyToL2Cache)
    BY <1>1, <1>3, <2>2, ReadStarts
  <2> HIDE DEF y, r
  <2>4. i \notin Of("l2", "send") /\ i \notin Of("l2", "hint") /\ i \notin Of("l1", "send")
    BY <1>3 DEF Of
  <2> QED
    BY <2>1, <2>3, <2>4, PlainStarts
<1>4. ASSUME Call(i).kind # "read", Call(i).chain = "l1",
             Call(i).kind = "send" => proxyToL2Cache[about] = Null
      PROVE  Starts(s, r, i)
  <2> DEFINE y == [x EXCEPT !.stage = "asked", !.sentAt = now]
  <2>1. r = Put(s, i, y)
    BY <1>1, <1>4 DEF HandleRpcRequest, SendOnL1, ForwardToRpc, L2Target
  <2>2. x = Idle => x.existed = FALSE
    BY DEF Idle
  <2>3. y = [x EXCEPT !.stage = "asked", !.sentAt = now, !.existed = x.existed]
    BY <1>1, SameExisted
  <2> HIDE DEF y
  <2>4. /\ y \in CallState /\ y.stage = "asked"
        /\ x = Idle => CallFine(i, y, now, mined, pool, accepted, proxyToL2Cache)
    BY <1>1, <1>4, <2>2, <2>3, AskStarts
  <2>5. /\ i \notin Of("l2", "send") /\ i \notin Of("l2", "hint")
        /\ i \in Of("l1", "send") => proxyToL2Cache[about] = Null
    BY <1>4 DEF Of
  <2> HIDE DEF r
  <2> QED
    BY <2>1, <2>4, <2>5, PlainStarts
<1>5. CASE Call(i).kind = "send" /\ Call(i).chain = "l1" /\ proxyToL2Cache[about] # Null
  <2> DEFINE hint == proxyToL2Cache[about]
             y == SubmitToBuilder(x, hint)
  <2>1. r = Put(s, i, y)
    BY <1>1, <1>5 DEF HandleRpcRequest, SendOnL1, L2Target
  <2>2. hint \in AnyKey
    <3>1. about \in Addresses
      BY <1>5 DEF Addresses, Of
    <3> QED
      BY <1>5, <3>1, Parts DEF Caches
  <2> HIDE DEF hint
  <2>3. /\ y \in CallState /\ y.stage = "submitted" /\ y.hint = hint
        /\ x = Idle => CallFine(i, y, now, mined, pool, accepted, proxyToL2Cache)
    BY <1>1, <1>5, <2>2, SubmitStarts DEF hint
  <2> HIDE DEF y, r
  <2>4. i \notin Of("l2", "send") /\ i \notin Of("l2", "hint") /\ y.hint # Null
    BY <1>5, <2>3 DEF Of, hint
  <2> QED
    BY <2>1, <2>3, <2>4, PlainStarts
<1>6. CASE Call(i).kind = "send" /\ Call(i).chain = "l2"
  <2> DEFINE hint == s.hints[about]
             y == SubmitToBuilder(x, hint)
             hs == [s.hints EXCEPT ![about] = Null]
  <2>1. r = [Put(s, i, y) EXCEPT !.hints[about] = Null]
    BY <1>1, <1>6 DEF HandleRpcRequest, SendOnL2
  <2>2. about \in Senders /\ hint \in Calls \cup {Null} /\ i \in Of("l2", "send")
    BY <1>6, PieceTypes DEF Senders, Of
  <2>3. hint \in AnyKey \cup Nat \cup {Null}
    BY <1>1, <2>2, CallShape
  <2> HIDE DEF hint
  <2>4. /\ y \in CallState /\ y.stage = "submitted" /\ y.hint = hint
        /\ x = Idle => CallFine(i, y, now, mined, pool, accepted, proxyToL2Cache)
    BY <1>1, <1>6, <2>3, SubmitStarts
  <2> HIDE DEF y
  <2> DEFINE q == Put(s, i, y)
  <2>5. q \in Pieces /\ q.calls = [s.calls EXCEPT ![i] = y] /\ q.hints = s.hints /\ q.timers = s.timers
    BY <2>4, PutIs
  <2> HIDE DEF q
  <2>6. r = [q EXCEPT !.hints = hs]
    BY <2>1, <2>5 DEF q
  <2>7. hs \in [Senders -> Calls \cup {Null}]
    BY PieceTypes
  <2> HIDE DEF hs
  <2>8. r \in Pieces /\ r.calls = q.calls /\ r.hints = hs /\ r.timers = q.timers
    BY <2>5, <2>6, <2>7 DEF Pieces
  <2>9. Takes(s, r, i, y)
    BY <2>2, <2>4, <2>5, <2>8 DEF Takes, hint, hs
  <2> QED
    BY <2>4, <2>5, <2>8, <2>9 DEF Starts
<1>7. CASE Call(i).kind = "hint" /\ Call(i).chain = "l2"
  <2> DEFINE e == Result("ok", now)
             y == Answer(x, e)
             hs == [s.hints EXCEPT ![about] = i]
             ts == s.timers \cup {[sender |-> about, due |-> now + HintLife, of |-> i]}
  <2>1. r = [Put(s, i, y) EXCEPT !.hints[about] = i,
                !.timers = @ \cup {[sender |-> about, due |-> now + HintLife, of |-> i]}]
    BY <1>1, <1>7 DEF HandleRpcRequest, HintOnL2
  <2>2. about \in Senders /\ i \in Of("l2", "hint")
    BY <1>7 DEF Senders, Of
  <2>3. e \in Answers /\ e.at = now
    BY <1>1 DEF Result, Answers, Kinds, Values
  <2> HIDE DEF e
  <2>4. x = Idle => Ready(i, e, FALSE)
    BY <1>1, <1>7 DEF Ready
  <2>6. /\ y \in CallState /\ y.stage = "done" /\ y.answer = e /\ y.hint = x.hint
        /\ x = Idle => CallFine(i, y, now, mined, pool, accepted, proxyToL2Cache)
    BY <1>1, <2>3, <2>4, AnswerStarts, AnswerFields
  <2> HIDE DEF y
  <2> DEFINE q == Put(s, i, y)
  <2>7. q \in Pieces /\ q.calls = [s.calls EXCEPT ![i] = y] /\ q.hints = s.hints /\ q.timers = s.timers
    BY <2>6, PutIs
  <2> HIDE DEF q
  <2>8. r = [q EXCEPT !.hints = hs, !.timers = ts]
    BY <2>1, <2>7 DEF q
  <2>9. hs \in [Senders -> Calls \cup {Null}]
    BY PieceTypes
  <2>10. ts \in SUBSET Timers
    <3>1. now + HintLife \in Nat
      BY <1>1, Lives
    <3> QED
      BY <2>2, <3>1, PieceTypes DEF Timers
  <2> HIDE DEF hs, ts
  <2>11. r \in Pieces /\ r.calls = q.calls /\ r.hints = hs /\ r.timers = ts
    BY <2>7, <2>8, <2>9, <2>10 DEF Pieces
  <2>12. Registers(s, r, i, y)
    BY <2>2, <2>3, <2>6, <2>7, <2>11 DEF Registers, hs, ts
  <2> QED
    BY <2>6, <2>7, <2>11, <2>12 DEF Starts
<1> QED
  BY <1>1, <1>2, <1>3, <1>4, <1>5, <1>6, <1>7

(* A call starts after those it waits for, and finds the hint it waits for. *)
LEMMA StartOrder ==
  ASSUME NEW cs \in [Calls -> CallState], NEW i \in Calls, NEW y, cs[i].stage = "new", y.stage # "new",
         \A j \in Calls : WaitsFor(i, j) => cs[j].stage = "done",
         i \in Of("l1", "send") /\ y.hint = Null
           => \A j \in Of("l1", "hint") : Call(j).about = Call(i).about => ~Closed(cs[j]),
         Origins(cs, pool, accepted), InOrder(cs), PastTheBuilder(cs)
  PROVE  LET ds == [cs EXCEPT ![i] = y] IN
         Origins(ds, pool, accepted) /\ InOrder(ds) /\ PastTheBuilder(ds)
<1> DEFINE ds == [cs EXCEPT ![i] = y]
<1>1. ds[i] = y /\ \A j \in Calls : cs[j].stage # "new" => j # i /\ ds[j] = cs[j]
  OBVIOUS
<1>2. \A j \in Calls \ {i} : ds[j] = cs[j]
  OBVIOUS
<1> HIDE DEF ds
<1>3. \A c, k : Of(c, k) \subseteq Calls
  BY DEF Of
<1>4. Origins(ds, pool, accepted)
  <2>1. ASSUME NEW tx \in pool
        PROVE  \E j \in Of("l1", "send") : /\ Call(j).key = tx /\ ds[j].hint = Null /\ ds[j].stage # "new"
                                           /\ Told(ds[j])
    <3>1. PICK j \in Of("l1", "send") : /\ Call(j).key = tx /\ cs[j].hint = Null /\ cs[j].stage # "new"
                                        /\ Told(cs[j])
      BY DEF Origins
    <3>2. ds[j] = cs[j]
      BY <1>1, <1>3, <3>1
    <3> QED
      BY <3>1, <3>2
  <2>2. ASSUME NEW b \in accepted
        PROVE  /\ b.call \in Calls /\ ds[b.call].stage \in {"decided", "done"}
               /\ Call(b.call).chain = "l1" => ds[b.call].hint # Null
    <3>1. /\ b.call \in Calls /\ cs[b.call].stage \in {"decided", "done"}
          /\ Call(b.call).chain = "l1" => cs[b.call].hint # Null
      BY DEF Origins
    <3>2. ds[b.call] = cs[b.call]
      BY <1>1, <3>1
    <3> QED
      BY <3>1, <3>2
  <2> QED
    BY <2>1, <2>2 DEF Origins
<1>5. InOrder(ds)
  <2> SUFFICES ASSUME NEW k \in Calls, NEW j \in Calls, WaitsFor(k, j), ds[k].stage # "new"
               PROVE  ds[j].stage = "done"
    BY DEF InOrder
  <2>1. cs[j].stage = "done"
    BY <1>2 DEF InOrder
  <2> QED
    BY <1>1, <2>1
<1>6. PastTheBuilder(ds)
  <2> SUFFICES ASSUME NEW k \in Of("l1", "send"), NEW j \in Of("l1", "hint"), WaitsFor(k, j),
                      Call(k).about = Call(j).about, ds[k].stage # "new", ds[k].hint = Null
               PROVE  ds[j].answer.kind # "result"
    BY DEF PastTheBuilder
  <2>1. k \in Calls /\ j \in Calls
    BY <1>3
  <2>2. cs[j].stage = "done"
    BY <1>2, <2>1 DEF InOrder
  <2>3. ds[j] = cs[j]
    BY <1>1, <2>1, <2>2
  <2>4. CASE k = i
    BY <1>1, <2>2, <2>3, <2>4 DEF Closed
  <2>5. CASE k # i
    BY <1>2, <2>1, <2>3, <2>5 DEF PastTheBuilder
  <2> QED
    BY <2>4, <2>5
<1> QED
  BY <1>4, <1>5, <1>6 DEF ds

(* A hint that goes with a transaction is not pending any more. *)
LEMMA StartBooks ==
  ASSUME IInv, NEW s \in Pieces, NEW r \in Pieces, NEW i \in Calls, NEW y \in CallState,
         s.calls[i] = Idle, y.stage # "new", r.calls = [s.calls EXCEPT ![i] = y],
         Books(s.calls, s.hints, s.timers, now),
         Plain(s, r, i, y) \/ Takes(s, r, i, y) \/ Registers(s, r, i, y)
  PROVE  Books(r.calls, r.hints, r.timers, now)
<1> DEFINE cs == s.calls
           ds == r.calls
           about == Call(i).about
<1>1. /\ cs \in [Calls -> CallState] /\ s.hints \in [Senders -> Calls \cup {Null}]
      /\ r.hints \in [Senders -> Calls \cup {Null}] /\ s.timers \in SUBSET Timers /\ r.timers \in SUBSET Timers
  BY DEF Pieces
<1>2. cs[i].stage = "new" /\ cs[i].hint = Null
  BY DEF Idle
<1>3. ds[i] = y /\ (\A j \in Calls \ {i} : ds[j] = cs[j])
      /\ \A j \in Calls : cs[j].stage = "done" => j # i /\ ds[j] = cs[j]
  BY <1>1, <1>2
<1>4. \A c, k : Of(c, k) \subseteq Calls
  BY DEF Of
<1>5. i \in Nat /\ i # Null /\ now \in Nat
  BY CallShape, Parts
<1>6. Waiting(cs, s.hints) /\ Taking(cs) /\ Due(cs, s.timers) /\ Keeping(cs, s.hints, now)
  BY DEF Books
<1> HIDE DEF cs, ds
<1>7. CASE Plain(s, r, i, y)
  <2>1. r.hints = s.hints /\ r.timers = s.timers /\ i \notin Of("l2", "send") /\ i \notin Of("l2", "hint")
    BY <1>7 DEF Plain
  <2>2. \A j \in Of("l2", "send") \cup Of("l2", "hint") : ds[j] = cs[j]
    BY <1>3, <1>4, <2>1
  <2>3. Waiting(ds, s.hints)
    BY <1>6, <2>2 DEF Waiting
  <2>4. Taking(ds)
    BY <1>6, <2>2 DEF Taking
  <2>5. Due(ds, s.timers)
    BY <1>6, <2>2 DEF Due
  <2>6. Keeping(ds, s.hints, now)
    BY <1>6, <2>2 DEF Keeping
  <2> QED
    BY <2>1, <2>3, <2>4, <2>5, <2>6 DEF Books, ds
<1>8. CASE Takes(s, r, i, y)
  <2>1. /\ i \in Of("l2", "send") /\ y.hint = s.hints[about] /\ r.timers = s.timers
        /\ r.hints = [s.hints EXCEPT ![about] = Null] /\ about \in Senders
    BY <1>8 DEF Takes, Senders
  <2>2. \A z \in Senders : r.hints[z] = IF z = about THEN Null ELSE s.hints[z]
    BY <1>1, <2>1
  <2>3. i \notin Of("l2", "hint")
    BY <2>1 DEF Of
  <2>4. \A j \in Of("l2", "hint") : ds[j] = cs[j]
    BY <1>3, <1>4, <2>3
  <2>5. \A j \in Of("l2", "send") \ {i} : ds[j] = cs[j]
    BY <1>3, <1>4
  <2>6. y.hint # Null =>
           /\ y.hint \in Of("l2", "hint") /\ Call(y.hint).about = about /\ cs[y.hint].stage = "done"
           /\ \A j \in Of("l2", "send") : cs[j].hint # y.hint
    BY <1>6, <2>1 DEF Waiting
  <2>7. Waiting(ds, r.hints)
    <3> SUFFICES ASSUME NEW z \in Senders, r.hints[z] # Null
                 PROVE  /\ r.hints[z] \in Of("l2", "hint") /\ Call(r.hints[z]).about = z
                        /\ ds[r.hints[z]].stage = "done"
                        /\ \A j \in Of("l2", "send") : ds[j].hint # r.hints[z]
      BY <1>1 DEF Waiting
    <3> DEFINE h == r.hints[z]
    <3>1. h = s.hints[z] /\ z # about
      BY <2>2
    <3> HIDE DEF h
    <3>2. /\ h \in Of("l2", "hint") /\ Call(h).about = z /\ cs[h].stage = "done"
          /\ \A j \in Of("l2", "send") : cs[j].hint # h
      BY <1>6, <3>1 DEF Waiting, h
    <3>3. y.hint # h
      BY <2>6, <3>1, <3>2, <1>4, CallShape DEF IInv
    <3>4. \A j \in Of("l2", "send") : ds[j].hint # h
      BY <1>3, <2>5, <3>2, <3>3
    <3> QED
      BY <2>4, <3>2, <3>4 DEF h
  <2>8. Taking(ds)
    <3> SUFFICES ASSUME NEW k \in Of("l2", "send"), ds[k].hint # Null
                 PROVE  /\ ds[k].hint \in Of("l2", "hint") /\ Call(ds[k].hint).about = Call(k).about
                        /\ ds[ds[k].hint].stage = "done"
                        /\ \A j \in Of("l2", "send") \ {k} : ds[j].hint # ds[k].hint
      BY DEF Taking
    <3>1. CASE k = i
      BY <1>3, <2>4, <2>5, <2>6, <3>1
    <3>2. CASE k # i
      <4>1. ds[k] = cs[k]
        BY <2>5, <3>2
      <4>2. /\ cs[k].hint \in Of("l2", "hint") /\ Call(cs[k].hint).about = Call(k).about
            /\ cs[cs[k].hint].stage = "done" /\ \A j \in Of("l2", "send") \ {k} : cs[j].hint # cs[k].hint
        BY <1>6, <4>1 DEF Taking
      <4>3. y.hint # cs[k].hint
        BY <2>6, <4>1
      <4> QED
        BY <1>3, <2>4, <2>5, <4>1, <4>2, <4>3
    <3> QED
      BY <3>1, <3>2
  <2>9. Due(ds, r.timers)
    BY <1>6, <2>1, <2>4 DEF Due
  <2>10. Keeping(ds, r.hints, now)
    <3> SUFFICES ASSUME NEW h \in Of("l2", "hint"), ds[h].stage = "done",
                        now < ds[h].answer.at + HintLife,
                        \A g \in Of("l2", "hint") \ {h} : Call(g).about = Call(h).about => ds[g].stage = "new"
                 PROVE  r.hints[Call(h).about] = h \/ \E k \in Of("l2", "send") : ds[k].hint = h
      BY DEF Keeping
    <3>1. s.hints[Call(h).about] = h \/ \E k \in Of("l2", "send") : cs[k].hint = h
      BY <1>6, <2>4 DEF Keeping
    <3>2. Call(h).about \in Senders /\ h # Null
      BY <1>4, CallShape DEF Senders, IInv
    <3>3. CASE s.hints[Call(h).about] = h /\ Call(h).about # about
      BY <2>2, <3>2, <3>3
    <3>4. CASE s.hints[Call(h).about] = h /\ Call(h).about = about
      BY <1>3, <2>1, <3>4
    <3>5. CASE \E k \in Of("l2", "send") : cs[k].hint = h
      BY <1>2, <2>5, <3>2, <3>5
    <3> QED
      BY <3>1, <3>3, <3>4, <3>5
  <2> QED
    BY <2>7, <2>8, <2>9, <2>10 DEF Books, ds
<1>9. CASE Registers(s, r, i, y)
  <2> DEFINE t == [sender |-> about, due |-> now + HintLife, of |-> i]
  <2>1. /\ i \in Of("l2", "hint") /\ y.stage = "done" /\ y.answer.at = now /\ about \in Senders
        /\ r.hints = [s.hints EXCEPT ![about] = i] /\ r.timers = s.timers \cup {t}
    BY <1>9 DEF Registers, Senders
  <2>2. \A z \in Senders : r.hints[z] = IF z = about THEN i ELSE s.hints[z]
    BY <1>1, <2>1
  <2>3. i \notin Of("l2", "send")
    BY <2>1 DEF Of
  <2>4. \A j \in Of("l2", "send") : ds[j] = cs[j]
    BY <1>3, <1>4, <2>3
  <2>5. \A j \in Of("l2", "send") : cs[j].hint # i
    BY <1>2, <1>5, <1>6 DEF Taking
  <2>6. Waiting(ds, r.hints)
    <3> SUFFICES ASSUME NEW z \in Senders, r.hints[z] # Null
                 PROVE  /\ r.hints[z] \in Of("l2", "hint") /\ Call(r.hints[z]).about = z
                        /\ ds[r.hints[z]].stage = "done"
                        /\ \A j \in Of("l2", "send") : ds[j].hint # r.hints[z]
      BY <1>1 DEF Waiting
    <3>1. CASE z = about
      BY <1>3, <2>1, <2>2, <2>4, <2>5, <3>1
    <3>2. CASE z # about
      <4>1. r.hints[z] = s.hints[z]
        BY <2>2, <3>2
      <4> QED
        BY <1>3, <1>4, <1>6, <2>4, <4>1 DEF Waiting
    <3> QED
      BY <3>1, <3>2
  <2>7. Taking(ds)
    BY <1>3, <1>4, <1>6, <2>4 DEF Taking
  <2>8. Due(ds, r.timers)
    <3> SUFFICES ASSUME NEW u \in r.timers
                 PROVE  /\ u.of \in Of("l2", "hint") /\ ds[u.of].stage = "done"
                        /\ u.sender = Call(u.of).about /\ u.due = ds[u.of].answer.at + HintLife
      BY <1>1 DEF Due
    <3>1. CASE u = t
      BY <1>3, <2>1, <3>1
    <3>2. CASE u \in s.timers
      <4>1. /\ u.of \in Of("l2", "hint") /\ cs[u.of].stage = "done"
            /\ u.sender = Call(u.of).about /\ u.due = cs[u.of].answer.at + HintLife
        BY <1>6, <3>2 DEF Due
      <4>2. ds[u.of] = cs[u.of]
        BY <1>3, <1>4, <4>1
      <4> QED
        BY <4>1, <4>2
    <3> QED
      BY <2>1, <3>1, <3>2
  <2>9. Keeping(ds, r.hints, now)
    <3> SUFFICES ASSUME NEW h \in Of("l2", "hint"), ds[h].stage = "done",
                        now < ds[h].answer.at + HintLife,
                        \A g \in Of("l2", "hint") \ {h} : Call(g).about = Call(h).about => ds[g].stage = "new"
                 PROVE  r.hints[Call(h).about] = h \/ \E k \in Of("l2", "send") : ds[k].hint = h
      BY DEF Keeping
    <3>1. Call(h).about \in Senders
      BY DEF Senders
    <3>2. CASE h = i
      BY <2>1, <2>2, <3>2
    <3>3. CASE h # i
      <4>1. ds[h] = cs[h] /\ ds[i].stage # "new"
        BY <1>3, <1>4, <2>1, <3>3
      <4>2. Call(h).about # about
        BY <2>1, <3>3, <4>1
      <4>3. \A g \in Of("l2", "hint") \ {h} : Call(g).about = Call(h).about => cs[g].stage = "new"
        BY <1>2, <1>3, <1>4
      <4>4. s.hints[Call(h).about] = h \/ \E k \in Of("l2", "send") : cs[k].hint = h
        BY <1>6, <4>1, <4>3 DEF Keeping
      <4> QED
        BY <2>2, <2>4, <3>1, <4>2, <4>4
    <3> QED
      BY <3>2, <3>3
  <2> QED
    BY <2>6, <2>7, <2>8, <2>9 DEF Books, ds
<1> QED
  BY <1>7, <1>8, <1>9

LEMMA StartFine ==
  ASSUME IInv, NEW s \in Pieces, PieceFine(s), NEW i \in Calls, s.calls[i].stage = "new",
         \A j \in Calls : WaitsFor(i, j) => s.calls[j].stage = "done",
         NEW r, r = HandleRpcRequest(s, i)
  PROVE  r \in Pieces /\ PieceFine(r) /\ \A j \in Calls \ {i} : r.calls[j] = s.calls[j]
<1>1. s.calls[i] = Idle /\ s.calls \in [Calls -> CallState]
  BY PieceTypes DEF PieceFine, CallFine, Typed
<1>2. r \in Pieces
  BY RequestStarts DEF Starts
<1>3. PICK y \in CallState :
         /\ r.calls = [s.calls EXCEPT ![i] = y] /\ y.stage # "new"
         /\ CallFine(i, y, now, mined, pool, accepted, proxyToL2Cache)
         /\ Plain(s, r, i, y) \/ Takes(s, r, i, y) \/ Registers(s, r, i, y)
  BY <1>1, RequestStarts DEF Starts
<1>4. r.calls[i] = y /\ \A j \in Calls \ {i} : r.calls[j] = s.calls[j]
  BY <1>1, <1>3
<1>5. ASSUME i \in Of("l1", "send"), y.hint = Null, NEW j \in Of("l1", "hint"), Call(j).about = Call(i).about
      PROVE  ~Closed(s.calls[j])
  <2>1. Plain(s, r, i, y)
    BY <1>3, <1>5 DEF Takes, Registers, Of
  <2>2. proxyToL2Cache[Call(j).about] = Null
    BY <1>5, <2>1 DEF Plain
  <2>3. j \in Calls /\ Call(j).kind = "hint" /\ Call(j).chain = "l1"
    BY DEF Of
  <2> QED
    BY <2>2, <2>3 DEF PieceFine, CallFine, Confirmed
<1>6. Origins(r.calls, pool, accepted) /\ InOrder(r.calls) /\ PastTheBuilder(r.calls)
  <2>1. i \in Of("l1", "send") /\ y.hint = Null
          => \A j \in Of("l1", "hint") : Call(j).about = Call(i).about => ~Closed(s.calls[j])
    BY <1>5
  <2>2. Origins(s.calls, pool, accepted) /\ InOrder(s.calls) /\ PastTheBuilder(s.calls)
    BY DEF PieceFine
  <2> DEFINE cs == s.calls
  <2>3. cs \in [Calls -> CallState] /\ r.calls = [cs EXCEPT ![i] = y]
    BY <1>1, <1>3
  <2> HIDE DEF cs
  <2> QED
    BY <1>3, <2>1, <2>2, <2>3, StartOrder DEF cs
<1>7. Books(r.calls, r.hints, r.timers, now)
  BY <1>1, <1>2, <1>3, StartBooks DEF PieceFine
<1>8. \A j \in Calls : CallFine(j, r.calls[j], now, mined, pool, accepted, proxyToL2Cache)
  BY <1>3, <1>4 DEF PieceFine
<1> QED
  BY <1>2, <1>4, <1>6, <1>7, <1>8 DEF PieceFine

(* The states a batch runs through. *)
Before == [calls |-> calls, hints |-> pendingHints, timers |-> timers]

BatchRuns(batch) ==
    {c \in [0..Len(batch) -> Pieces] :
        /\ c[0] = Before /\ c[Len(batch)] = StartAll(batch)
        /\ \A i \in 1..Len(batch) : c[i] = HandleRpcRequest(c[i - 1], batch[i])}

LEMMA BeforeFine ==
  ASSUME IInv
  PROVE  Before \in Pieces /\ PieceFine(Before)
<1>1. /\ Before.calls = calls /\ Before.hints = pendingHints /\ Before.timers = timers
  BY DEF Before
<1>2. /\ calls \in [Calls -> CallState] /\ pendingHints \in [Senders -> Calls \cup {Null}]
      /\ timers \in SUBSET Timers
  BY DEF IInv, Books, Waiting, Due
<1>3. Before \in Pieces
  BY <1>2 DEF Before, Pieces
<1> QED
  BY <1>1, <1>3 DEF PieceFine, IInv

LEMMA BatchRun ==
  ASSUME IInv, NEW batch \in Seq(Calls)
  PROVE  BatchRuns(batch) # {}
<1> DEFINE n == Len(batch)
           g == [i \in 1..n |-> [x \in Pieces |-> HandleRpcRequest(x, batch[i])]]
           IsRun(f) == f = [i \in 0..n |-> IF i = 0 THEN Before ELSE HandleRpcRequest(f[i - 1], batch[i])]
<1>1. n \in Nat /\ \A i \in 1..n : batch[i] \in Calls
  BY ElementOfSeq
<1>2. \A x \in Pieces, i \in 1..n : HandleRpcRequest(x, batch[i]) \in Pieces
  BY <1>1, RequestStarts DEF Starts
<1>3. Before \in Pieces
  BY BeforeFine
<1>4. StartAll(batch) = (CHOOSE h : IsRun(h))[n]
  BY DEF StartAll, Before
<1> HIDE DEF n
<1>5. g \in Loops(n, Pieces) /\ \A i \in 1..n, x \in Pieces : g[i][x] = HandleRpcRequest(x, batch[i])
  BY <1>2 DEF Loops
<1> HIDE DEF g
<1>6. PICK f : f \in Traces(n, Pieces, Before, g)
  BY <1>1, <1>3, <1>5, Recursion
<1>7. /\ f \in [0..n -> Pieces] /\ f[0] = Before
      /\ \A i \in 1..n : f[i] = HandleRpcRequest(f[i - 1], batch[i])
  BY <1>1, <1>5, <1>6 DEF Traces
<1>8. IsRun(f)
  BY <1>1, <1>7
<1> DEFINE c == CHOOSE h : IsRun(h)
<1>9. IsRun(c) /\ StartAll(batch) = c[n]
  BY <1>4, <1>8
<1> HIDE DEF c
<1>10. c[0] = Before /\ \A i \in 1..n : c[i] = HandleRpcRequest(c[i - 1], batch[i])
  BY <1>1, <1>9
<1> DEFINE SoFar == {m \in Nat : m <= n => c[m] \in Pieces}
<1>11. 0 \in SoFar
  BY <1>3, <1>10
<1>12. ASSUME NEW m \in SoFar PROVE m + 1 \in SoFar
  <2> SUFFICES ASSUME m + 1 <= n PROVE c[m + 1] \in Pieces
    OBVIOUS
  <2>1. m \in Nat /\ m + 1 \in 1..n /\ c[m] \in Pieces /\ (m + 1) - 1 = m
    BY <1>1, <1>12
  <2>2. c[m + 1] = HandleRpcRequest(c[(m + 1) - 1], batch[m + 1])
    BY <1>10, <2>1
  <2> QED
    BY <1>2, <2>1, <2>2
<1> HIDE DEF SoFar
<1>13. SoFar = Nat
  <2>1. SoFar \in SUBSET Nat
    BY DEF SoFar
  <2> QED
    BY <1>11, <1>12, <2>1, NatSetInduction
<1>14. \A i \in 0..n : c[i] \in Pieces
  BY <1>1, <1>13 DEF SoFar
<1>15. c \in [0..n -> Pieces]
  BY <1>9, <1>14
<1>16. c \in BatchRuns(batch)
  BY <1>9, <1>10, <1>15 DEF BatchRuns, n
<1> QED
  BY <1>16

LEMMA StartAllFine ==
  ASSUME IInv, NEW batch \in Seq(Calls),
         \A j, k \in DOMAIN batch : batch[j] = batch[k] => j = k,
         \A k \in DOMAIN batch : calls[batch[k]].stage = "new",
         \A k \in DOMAIN batch, j \in Calls : WaitsFor(batch[k], j) => calls[j].stage = "done"
  PROVE  StartAll(batch) \in Pieces /\ PieceFine(StartAll(batch))
<1> DEFINE n == Len(batch)
<1>1. PICK c : c \in BatchRuns(batch)
  BY BatchRun
<1>2. /\ n \in Nat /\ DOMAIN batch = 1..n /\ \A i \in 1..n : batch[i] \in Calls
      /\ c[0] = Before /\ c[n] = StartAll(batch) /\ \A i \in 0..n : c[i] \in Pieces
      /\ \A i \in 1..n : c[i] = HandleRpcRequest(c[i - 1], batch[i])
  BY <1>1, ElementOfSeq, LenProperties DEF BatchRuns
<1> HIDE DEF n
<1> DEFINE SoFar(m) ==
               /\ PieceFine(c[m])
               /\ \A j \in Calls : (\A k \in 1..m : j # batch[k]) => c[m].calls[j] = calls[j]
           Steps == {m \in Nat : m <= n => SoFar(m)}
<1>3. 0 \in Steps
  <2>1. Before.calls = calls
    BY DEF Before
  <2> QED
    BY <1>2, <2>1, BeforeFine
<1>4. ASSUME NEW m \in Steps PROVE m + 1 \in Steps
  <2> SUFFICES ASSUME m + 1 <= n PROVE SoFar(m + 1)
    OBVIOUS
  <2>1. m \in Nat /\ m + 1 \in 1..n /\ m \in 0..n /\ (m + 1) - 1 = m /\ SoFar(m)
    BY <1>2, <1>4
  <2> DEFINE i == batch[m + 1]
             s == c[m]
             r == c[m + 1]
  <2>2. s \in Pieces /\ PieceFine(s) /\ i \in Calls /\ r = HandleRpcRequest(s, i)
    BY <1>2, <2>1
  <2>3. \A k \in 1..m : i # batch[k]
    <3> SUFFICES ASSUME NEW k \in 1..m, i = batch[k] PROVE FALSE
      OBVIOUS
    <3>1. k \in 1..n /\ k # m + 1
      BY <1>2, <2>1
    <3> QED
      BY <1>2, <2>1, <3>1
  <2>4. s.calls[i].stage = "new"
    BY <1>2, <2>1, <2>2, <2>3
  <2>5. ASSUME NEW j \in Calls, WaitsFor(i, j) PROVE s.calls[j].stage = "done"
    <3>1. calls[j].stage = "done"
      BY <1>2, <2>1, <2>5
    <3>2. ASSUME NEW k \in 1..m, j = batch[k] PROVE FALSE
      <4>1. k \in DOMAIN batch
        BY <1>2, <2>1
      <4> QED
        BY <3>1, <3>2, <4>1
    <3> QED
      BY <2>1, <3>1, <3>2
  <2>6. PieceFine(r) /\ \A j \in Calls \ {i} : r.calls[j] = s.calls[j]
    BY <2>2, <2>4, <2>5, StartFine
  <2>7. ASSUME NEW j \in Calls, \A k \in 1..(m + 1) : j # batch[k] PROVE r.calls[j] = calls[j]
    <3>1. j # i /\ \A k \in 1..m : j # batch[k]
      BY <2>1, <2>7
    <3> QED
      BY <2>1, <2>6, <3>1
  <2> QED
    BY <2>6, <2>7
<1> HIDE DEF Steps
<1>5. Steps = Nat
  <2>1. Steps \in SUBSET Nat
    BY DEF Steps
  <2> QED
    BY <1>3, <1>4, <2>1, NatSetInduction
<1>6. SoFar(n)
  BY <1>2, <1>5 DEF Steps
<1>7. n \in 0..n
  BY <1>2
<1> QED
  BY <1>2, <1>6, <1>7

LEMMA HandleRequestKeeps ==
  ASSUME IInv, NEW b \in Batches, HandleRequest(b)
  PROVE  IInv'
<1> DEFINE end == StartAll(Batch(b))
<1>1. /\ calls' = end.calls /\ pendingHints' = end.hints /\ timers' = end.timers
      /\ scenario' = scenario /\ now' = now /\ height' = height /\ pool' = pool /\ mined' = mined
      /\ accepted' = accepted /\ rpcCache' = rpcCache /\ proxyToL2Cache' = proxyToL2Cache
      /\ \A k \in DOMAIN Batch(b) : calls[Batch(b)[k]].stage = "new"
      /\ \A d \in scenario.batches[b].after : Replied(d)
  BY DEF HandleRequest, upstream
<1>2. /\ scenario \in Scenarios /\ Batch(b) \in Seq(Calls)
      /\ \A d \in Batches : \A j \in DOMAIN Batch(b), k \in DOMAIN Batch(d) :
            Batch(b)[j] = Batch(d)[k] => b = d /\ j = k
  BY BatchShape DEF IInv
<1>3. ASSUME NEW k \in DOMAIN Batch(b), NEW j \in Calls, WaitsFor(Batch(b)[k], j)
      PROVE  calls[j].stage = "done"
  <2>1. PICK e \in Batches : \E d \in scenario.batches[e].after :
            \E q \in DOMAIN Batch(e), l \in DOMAIN Batch(d) : Batch(b)[k] = Batch(e)[q] /\ j = Batch(d)[l]
    BY <1>3 DEF WaitsFor
  <2>2. e = b
    BY <1>2, <2>1
  <2>3. PICK d \in scenario.batches[b].after : \E l \in DOMAIN Batch(d) : j = Batch(d)[l]
    BY <2>1, <2>2
  <2>4. Replied(d)
    BY <1>1, <2>3
  <2> QED
    BY <2>3, <2>4 DEF Replied
<1>4. end \in Pieces /\ PieceFine(end)
  BY <1>1, <1>2, <1>3, StartAllFine
<1> HIDE DEF end
<1>5. end.calls \in [Calls -> CallState]
  BY <1>4 DEF Pieces
<1>6. Chains(now, height, mined, pool) /\ Caches(rpcCache, proxyToL2Cache)
  BY DEF IInv
<1> QED
  BY <1>1, <1>2, <1>4, <1>5, <1>6, Assemble DEF PieceFine

-----------------------------------------------------------------------------
(* The theorems. *)
LEMMA Inductive ==
  ASSUME IInv, [Next]_vars
  PROVE  IInv'
<1>1. ASSUME NEW i \in Calls, Proceed(i) PROVE IInv'
  BY <1>1, ServeKeeps, ReceiveParsedKeeps, RetryKeeps, AskAgainKeeps, ReceiveFailureKeeps,
     DecideKeeps, ReportKeeps DEF Proceed
<1>2. CASE Next
  BY <1>1, <1>2, TickKeeps, MineKeeps, HandleRequestKeeps, ExpireKeeps DEF Next
<1>3. CASE UNCHANGED vars
  <2>1. /\ scenario' = scenario /\ now' = now /\ height' = height /\ pool' = pool /\ mined' = mined
        /\ accepted' = accepted /\ rpcCache' = rpcCache /\ proxyToL2Cache' = proxyToL2Cache
        /\ pendingHints' = pendingHints /\ timers' = timers /\ calls' = calls
    BY <1>3 DEF vars, upstream, proxies
  <2> QED
    BY <2>1, Assemble DEF IInv
<1> QED
  BY <1>2, <1>3

LEMMA Invariant == Spec => []IInv
<1>1. IInv /\ [Next]_vars => IInv'
  BY Inductive
<1> QED
  BY <1>1, InitGood, PTL DEF Spec

(* BoundedStaleness: what a read is told is younger than a lifetime and a  *)
(* flight, for any lifetimes, any flight time and any number of clients    *)
(* whose responses come in any order.                                      *)
THEOREM StalenessBounded == Spec => []BoundedStaleness
<1>1. ASSUME IInv PROVE BoundedStaleness
  <2> SUFFICES ASSUME NEW i \in Done("read"), Ok(i), ~calls[i].failed, Call(i).key # Detection
               PROVE  calls[i].answer.at - calls[i].answer.readAt <= Bound(i)
    BY DEF BoundedStaleness, Bound
  <2>1. i \in Calls /\ Call(i).kind = "read" /\ calls[i].stage = "done"
    BY DEF Done
  <2>2. Timely(i, calls[i], now) /\ Typed(i, calls[i])
    BY <1>1, <2>1, Parts
  <2>3. calls[i].answer.at \in Nat /\ calls[i].answer.readAt \in Nat
    BY <2>1, <2>2 DEF Typed, Answers
  <2>4. calls[i].answer.at <= calls[i].answer.readAt + Bound(i)
    BY <2>1, <2>2 DEF Timely, Closed, Ok
  <2>5. Bound(i) \in Nat
    <3>1. TTL(Call(i).key) \in Nat /\ MaxFlight \in Nat
      BY <1>1, <2>1, CallShape, Lives DEF IInv
    <3> QED
      BY <3>1 DEF Bound
  <2> QED
    BY <2>3, <2>4, <2>5
<1>2. IInv => BoundedStaleness
  BY <1>1
<1> QED
  BY <1>2, Invariant, PTL

(* ReceiptsFound: whoever asks for a receipt that exists is never told     *)
(* that there is none.                                                     *)
THEOREM ReceiptsAreFound == Spec => []ReceiptsFound
<1>1. ASSUME IInv PROVE ReceiptsFound
  BY <1>1, Parts DEF ReceiptsFound, Done, Ok, Existing, Closed
<1>2. IInv => ReceiptsFound
  BY <1>1
<1> QED
  BY <1>2, Invariant, PTL

(* HintedGoThroughBuilder: what L1 has of the transactions to a proxy whose *)
(* hint was confirmed, some call sent that had not waited for the hint.     *)
THEOREM HintsGoThroughBuilder == Spec => []HintedGoThroughBuilder
<1>1. ASSUME IInv PROVE HintedGoThroughBuilder
  <2> SUFFICES ASSUME NEW tx \in pool, NEW hint \in Done("hint"), Call(hint).chain = "l1", Ok(hint)
               PROVE  \E i \in Of("l1", "send") :
                         /\ Call(i).key = tx
                         /\ ~(Call(i).about = Call(hint).about /\ WaitsFor(i, hint))
    BY DEF HintedGoThroughBuilder
  <2>1. hint \in Of("l1", "hint") /\ calls[hint].answer.kind = "result"
    BY DEF Done, Of, Ok
  <2>2. PICK i \in Of("l1", "send") : Call(i).key = tx /\ calls[i].hint = Null /\ calls[i].stage # "new"
    BY <1>1 DEF IInv, Origins
  <2>3. PastTheBuilder(calls)
    BY <1>1 DEF IInv
  <2> QED
    BY <2>1, <2>2, <2>3 DEF PastTheBuilder
<1>2. IInv => HintedGoThroughBuilder
  BY <1>1
<1> QED
  BY <1>2, Invariant, PTL

(* HintsKept: on L2 a hint goes with one transaction, of its sender, and a *)
(* sender's only hint does not get lost before it expires, whatever other  *)
(* timers fire and whatever batches run.                                   *)
THEOREM HintsAreKept == Spec => []HintsKept
<1>1. ASSUME IInv PROVE HintsKept
  <2>1. Taking(calls) /\ Keeping(calls, pendingHints, now)
    BY <1>1 DEF IInv, Books
  <2>2. UsedOnce
    BY <2>1 DEF UsedOnce, Taking
  <2>3. NotLost
    BY <2>1 DEF NotLost, Keeping
  <2> QED
    BY <2>2, <2>3 DEF HintsKept
<1>2. IInv => HintsKept
  BY <1>1
<1> QED
  BY <1>2, Invariant, PTL

(* HonestAnswers: for any number of attempts, a hash means that the        *)
(* transaction was taken by L1 or the builder, whatever was lost on the    *)
(* way, and an error to a first send that L1 itself was asked for, and     *)
(* refused for its rate limit alone, means that it was not.                *)
THEOREM AnswersAreHonest == Spec => []HonestAnswers
<1>1. ASSUME IInv PROVE HonestAnswers
  <2> SUFFICES ASSUME NEW i \in Done("send")
               PROVE  /\ Ok(i) => Taken(i)
                      /\ (Direct(i) /\ ~Ok(i) /\ ~calls[i].unsure /\ ~Repeated(i)) => ~Taken(i)
    BY DEF HonestAnswers
  <2>1. i \in Calls /\ Call(i).kind = "send" /\ calls[i].stage = "done"
    BY DEF Done
  <2>2. Ok(i) => Taken(i)
    BY <1>1, <2>1, Parts DEF Confirmed, Closed, Ok, Taken
  <2>3. ASSUME Direct(i), ~Ok(i), ~calls[i].unsure, ~Repeated(i), Taken(i) PROVE FALSE
    <3>1. ~Told(calls[i])
      BY <2>1, <2>3 DEF Told, Closed, Ok
    <3>2. Origins(calls, pool, accepted)
      BY <1>1 DEF IInv
    <3>3. CASE Call(i).key \in pool
      <4>1. PICK j \in Of("l1", "send") : Call(j).key = Call(i).key /\ Told(calls[j])
        BY <3>2, <3>3 DEF Origins
      <4>2. j = i
        BY <2>3, <4>1 DEF Repeated, Of
      <4> QED
        BY <3>1, <4>1, <4>2
    <3>4. CASE \E a \in accepted : a.call = i
      BY <2>3, <3>2, <3>4 DEF Origins, Direct
    <3> QED
      BY <2>3, <3>3, <3>4 DEF Taken
  <2> QED
    BY <2>2, <2>3
<1>2. IInv => HonestAnswers
  BY <1>1
<1> QED
  BY <1>2, Invariant, PTL
=============================================================================
