----------------------------- MODULE RpcProxies -----------------------------
(***************************************************************************)
(* The two JSON-RPC proxies wallets talk to.  The L1 proxy answers reads   *)
(* from a cache with a lifetime per method, retries what fails, falls back *)
(* on expired answers, and routes transactions to proxies it has a hint    *)
(* for through the builder.  The L2 proxy sends every transaction to the   *)
(* builder, with the hint its sender registered before.  Calls of several  *)
(* clients are under way at once; a batch is answered when all its calls   *)
(* are.                                                                    *)
(*                                                                         *)
(* Time is counted in ticks; lifetimes are some ticks long, the backoff    *)
(* between two attempts is shorter than one.  Parsing, CORS and /status    *)
(* are left out.                                                           *)
(***************************************************************************)
EXTENDS Integers, Sequences, FiniteSets

CONSTANTS
    Scenarios,   \* what clients do: calls, their batches and what a batch waits for;
                 \* bounds: ticks, and blocks per chain
    Null,        \* the null of JSON: no receipt yet, no hint, nothing cached
    Detection,   \* the magic address wallets ask for to detect a proxy
    TTL(_),      \* CACHEABLE_METHODS: ticks an answer may be reused for, 0: never
    HintLife,    \* ticks until a hint registered on L2 expires
    MaxRetries,  \* attempts after the first one
    MaxFlight,   \* environment: ticks a request may be on its way
    MaxCalls     \* bound: calls of a scenario, and its batches

ASSUME LivesAssumption == {HintLife, MaxFlight} \subseteq Nat \ {0} /\ MaxRetries \in Nat

(* A call is made once, in one batch.  The magic address is only read.     *)
ASSUME ScenarioShape ==
    /\ Null \notin Nat
    /\ \A s \in Scenarios :
        /\ DOMAIN s.calls \subseteq Nat
        /\ \A i \in DOMAIN s.calls :
            /\ s.calls[i].chain \in {"l1", "l2"} /\ s.calls[i].kind \in {"read", "send", "hint"}
            /\ s.calls[i].kind # "read" => s.calls[i].key \notin {Null, Detection}
            /\ TTL(s.calls[i].key) \in Nat
        /\ \A b \in DOMAIN s.batches :
            /\ s.batches[b].calls \in Seq(DOMAIN s.calls) /\ s.batches[b].after \subseteq DOMAIN s.batches
            /\ \A d \in DOMAIN s.batches :
                \A j \in DOMAIN s.batches[b].calls, k \in DOMAIN s.batches[d].calls :
                    s.batches[b].calls[j] = s.batches[d].calls[k] => b = d /\ j = k

VARIABLES
    scenario, now,
    height,       \* height[c]: blocks of chain c
    pool, mined,  \* transactions L1 has accepted, and those in a block
    accepted,     \* what the builder gave to L1 in a bundle that gets, or may get, executed:
                  \* a call and the hint that came with it
    rpcCache, proxyToL2Cache,
    pendingHints, \* pendingHints[sender]: call that registered the hint
    timers,       \* the expiry of every hint ever registered
    calls

upstream == <<height, pool, mined, accepted>>
proxies == <<rpcCache, proxyToL2Cache, pendingHints, timers>>
vars == <<scenario, now, upstream, proxies, calls>>

Calls == DOMAIN scenario.calls
Call(i) == scenario.calls[i]
Of(c, kind) == {i \in Calls : Call(i).chain = c /\ Call(i).kind = kind}
Keys == {Call(i).key : i \in Of("l1", "read")}
Senders == {Call(i).about : i \in Of("l2", "hint")} \cup {Call(i).about : i \in Of("l2", "send")}
Addresses == {Call(i).about : i \in Of("l1", "hint")} \cup {Call(i).about : i \in Of("l1", "send")}

(***************************************************************************)
(* Answers and the cache                                                   *)
(***************************************************************************)
Result(value, readAt) == [kind |-> "result", value |-> value, readAt |-> readAt, at |-> now]
Hash(i) == [kind |-> "result", value |-> Call(i).key, readAt |-> 0, at |-> 0]
Error == [kind |-> "error", value |-> Null, readAt |-> 0, at |-> 0]

Idle == [ stage |-> "new", attempt |-> 0, sentAt |-> 0, hint |-> Null, response |-> Null,
          answer |-> Null, failed |-> FALSE, unsure |-> FALSE, existed |-> FALSE ]

Answer(call, answer) ==
    [call EXCEPT !.stage = "done", !.answer = answer, !.response = Null, !.sentAt = 0]

SetCachedResult(k, response) ==
    IF TTL(k) = 0 THEN rpcCache
    ELSE [rpcCache EXCEPT ![k] =
             [value |-> response.value, readAt |-> response.readAt, expiresAt |-> now + TTL(k)]]

(* A cached null is not used, neither fresh nor stale. *)
Mutant_NullIsAnAnswer(k) == TTL(k) > 0 /\ rpcCache[k] # Null
Usable(k) == TTL(k) > 0 /\ rpcCache[k] # Null /\ rpcCache[k].value # Null

Mutant_LastTickToo(k) == Usable(k) /\ now <= rpcCache[k].expiresAt
Fresh(k) == Usable(k) /\ now < rpcCache[k].expiresAt

FromCache(k) == Result(rpcCache[k].value, rpcCache[k].readAt)

StaleOrError(i) ==
    IF Call(i).kind = "read" /\ Usable(Call(i).key) THEN FromCache(Call(i).key) ELSE Error

(***************************************************************************)
(* A batch starts: every call runs up to its first await, in order         *)
(***************************************************************************)
Current(c, k) == IF k = "height" THEN height[c] ELSE IF k \in mined THEN k ELSE Null

ForwardToRpc(call, i) ==
    LET k == Call(i).key
    IN IF Call(i).chain = "l1" /\ Call(i).kind = "read" /\ Fresh(k) THEN Answer(call, FromCache(k))
       ELSE [call EXCEPT !.stage = "asked", !.sentAt = now]

SubmitToBuilder(call, hint) == [call EXCEPT !.stage = "submitted", !.hint = hint]

(* Each step works on the calls, the pending hints and the timers.         *)
Put(s, i, call) == [s EXCEPT !.calls[i] = call]

Mutant_OneUse(i) ==
    IF \E j \in Calls : calls[j].hint = proxyToL2Cache[Call(i).about] THEN Null
    ELSE proxyToL2Cache[Call(i).about]
L2Target(i) == proxyToL2Cache[Call(i).about]

SendOnL1(s, i) ==
    Put(s, i, IF L2Target(i) = Null THEN ForwardToRpc(s.calls[i], i)
              ELSE SubmitToBuilder(s.calls[i], L2Target(i)))

SendOnL2(s, i) ==
    [ Put(s, i, SubmitToBuilder(s.calls[i], s.hints[Call(i).about]))
      EXCEPT !.hints[Call(i).about] = Null ]

Mutant_ExpiresEarly(s, i) ==
    [ Put(s, i, Answer(s.calls[i], Result("ok", now)))
      EXCEPT !.hints[Call(i).about] = i,
             !.timers = @ \cup {[sender |-> Call(i).about, due |-> now + HintLife - 1, of |-> i]} ]

HintOnL2(s, i) ==
    [ Put(s, i, Answer(s.calls[i], Result("ok", now)))
      EXCEPT !.hints[Call(i).about] = i,
             !.timers = @ \cup {[sender |-> Call(i).about, due |-> now + HintLife, of |-> i]} ]

HandleRpcRequest(s, i) ==
    LET c == Call(i).chain IN
    CASE Call(i).key = Detection -> Put(s, i, Answer(s.calls[i], Result(Detection, now)))
      [] Call(i).kind = "send" -> IF c = "l1" THEN SendOnL1(s, i) ELSE SendOnL2(s, i)
      [] Call(i).kind = "hint" /\ c = "l2" -> HintOnL2(s, i)
      [] Call(i).kind = "hint" /\ c = "l1" -> Put(s, i, ForwardToRpc(s.calls[i], i))
      [] OTHER -> Put(s, i, [ForwardToRpc(s.calls[i], i) EXCEPT !.existed = Current(c, Call(i).key) # Null])

(***************************************************************************)
(* Steps                                                                   *)
(***************************************************************************)
Init ==
    /\ scenario \in Scenarios
    /\ now = 0 /\ height = [c \in {"l1", "l2"} |-> 0]
    /\ pool = {} /\ mined = {} /\ accepted = {}
    /\ rpcCache = [k \in Keys |-> Null] /\ proxyToL2Cache = [a \in Addresses |-> Null]
    /\ pendingHints = [s \in Senders |-> Null] /\ timers = {}
    /\ calls = [i \in Calls |-> Idle]

Batches == DOMAIN scenario.batches
Batch(b) == scenario.batches[b].calls
Begun(b) == \A k \in DOMAIN Batch(b) : calls[Batch(b)[k]].stage # "new"
Replied(b) == \A k \in DOMAIN Batch(b) : calls[Batch(b)[k]].stage = "done"

Tick ==
    /\ now < scenario.ticks
    /\ \A i \in Of("l1", "read") \cup Of("l2", "read") :
          calls[i].stage \in {"asked", "served"} => now - calls[i].sentAt < MaxFlight
    /\ now' = now + 1
    /\ UNCHANGED <<scenario, upstream, proxies, calls>>

Mine(c) ==
    /\ height[c] < scenario.blocks[c]
    /\ height' = [height EXCEPT ![c] = @ + 1]
    /\ mined' = IF c = "l1" THEN pool ELSE mined
    /\ UNCHANGED <<scenario, now, pool, accepted, proxies, calls>>

StartAll(batch) ==
    LET s[k \in 0..Len(batch)] ==
            IF k = 0 THEN [calls |-> calls, hints |-> pendingHints, timers |-> timers]
            ELSE HandleRpcRequest(s[k - 1], batch[k])
    IN s[Len(batch)]

HandleRequest(b) ==
    /\ \A k \in DOMAIN Batch(b) : calls[Batch(b)[k]].stage = "new"
    /\ \A d \in scenario.batches[b].after : Replied(d)
    /\ LET end == StartAll(Batch(b))
       IN calls' = end.calls /\ pendingHints' = end.hints /\ timers' = end.timers
    /\ UNCHANGED <<scenario, now, upstream, rpcCache, proxyToL2Cache>>

(* L1 or an L2 fullnode answers: what it has, or a rate limit, or a page   *)
(* that is no JSON or a lost connection, the request heard or not.         *)
Good(i) ==
    CASE Call(i).kind = "read" -> Result(Current(Call(i).chain, Call(i).key), now)
      [] Call(i).kind = "hint" -> Hash(i)
      [] Call(i).kind = "send" /\ Call(i).key \notin pool -> Hash(i)
      [] OTHER -> Error

Sent(i, heard) == IF heard /\ Call(i).kind = "send" THEN {Call(i).key} ELSE {}

Serve(i) ==
    /\ calls[i].stage = "asked"
    /\ \/ /\ calls' = [calls EXCEPT ![i].stage = "served", ![i].response = Good(i)]
          /\ pool' = pool \cup Sent(i, TRUE)
       \/ \E kind \in {"limited", "html", "lost"}, heard \in BOOLEAN :
             /\ heard => kind # "limited"
             /\ calls' = [calls EXCEPT ![i].stage = "served", ![i].failed = TRUE,
                                       ![i].unsure = @ \/ (Call(i).kind = "send" /\ kind # "limited"),
                                       ![i].response = [Error EXCEPT !.kind = kind]]
             /\ pool' = pool \cup Sent(i, heard)
    /\ UNCHANGED <<scenario, now, height, mined, accepted, proxies>>

Parsed(i) == calls[i].response.kind \in {"result", "error"}

TriesAgain(i) ==
    /\ Call(i).kind # "hint" /\ Call(i).chain = "l1"
    /\ calls[i].response.kind \in {"limited", "lost"}
    /\ calls[i].attempt < MaxRetries

RegisterHint(i) == [proxyToL2Cache EXCEPT ![Call(i).about] = Call(i).key]

ReceiveParsed(i) ==
    /\ calls[i].stage = "served" /\ Parsed(i)
    /\ calls' = [calls EXCEPT ![i] = Answer(@, IF Call(i).kind = "read" THEN [@.response EXCEPT !.at = now] ELSE @.response)]
    /\ rpcCache' = IF Call(i).chain = "l1" /\ Call(i).kind = "read"
                   THEN SetCachedResult(Call(i).key, calls[i].response) ELSE rpcCache
    /\ proxyToL2Cache' = IF Call(i).kind = "hint" THEN RegisterHint(i) ELSE proxyToL2Cache
    /\ UNCHANGED <<scenario, now, upstream, pendingHints, timers>>

Retry(i) ==
    /\ calls[i].stage = "served" /\ ~Parsed(i) /\ TriesAgain(i)
    /\ calls' = [calls EXCEPT ![i].stage = "backoff", ![i].response = Null]
    /\ UNCHANGED <<scenario, now, upstream, proxies>>

AskAgain(i) ==
    /\ calls[i].stage = "backoff"
    /\ calls' = [calls EXCEPT ![i].stage = "asked", ![i].attempt = @ + 1, ![i].sentAt = now]
    /\ UNCHANGED <<scenario, now, upstream, proxies>>

Mutant_OnlyAfterRetries(i) == calls[i].attempt = MaxRetries
GivesUp(i) == ~TriesAgain(i)

ReceiveFailure(i) ==
    /\ calls[i].stage = "served" /\ ~Parsed(i) /\ GivesUp(i)
    /\ calls' = [calls EXCEPT ![i] =
          Answer(@, IF Call(i).chain = "l1" THEN StaleOrError(i) ELSE Error)]
    /\ UNCHANGED <<scenario, now, upstream, proxies>>

(* The builder executes the transaction or not, and its answer may get     *)
(* lost.  It answers an error also for a transaction whose bundle it has   *)
(* given up, which may be included and executed all the same.              *)
Decide(i) ==
    /\ calls[i].stage = "submitted"
    /\ \E takes \in BOOLEAN, kind \in {"success", "rejected", "lost"} :
          /\ kind = "success" => takes
          /\ accepted' = IF takes THEN accepted \cup {[call |-> i, hint |-> calls[i].hint]} ELSE accepted
          /\ calls' = [calls EXCEPT ![i].stage = "decided", ![i].failed = (kind = "lost"),
                                    ![i].response = [Error EXCEPT !.kind = kind]]
    /\ UNCHANGED <<scenario, now, height, pool, mined, proxies>>

Mutant_HashAnyway(i) ==
    IF calls[i].response.kind = "lost" THEN Error ELSE Hash(i)
BuilderResult(i) ==
    IF calls[i].response.kind = "success" THEN Hash(i) ELSE Error

Report(i) ==
    /\ calls[i].stage = "decided"
    /\ calls' = [calls EXCEPT ![i] = Answer(@, BuilderResult(i))]
    /\ UNCHANGED <<scenario, now, upstream, proxies>>

(* The timer of one hint deletes whatever its sender has registered. *)
Expire(t) ==
    /\ t \in timers /\ t.due <= now
    /\ timers' = timers \ {t}
    /\ pendingHints' = [pendingHints EXCEPT ![t.sender] = Null]
    /\ UNCHANGED <<scenario, now, upstream, rpcCache, proxyToL2Cache, calls>>

Proceed(i) ==
    Serve(i) \/ ReceiveParsed(i) \/ Retry(i) \/ AskAgain(i) \/ ReceiveFailure(i) \/ Decide(i) \/ Report(i)

Next ==
    \/ Tick
    \/ \E c \in {"l1", "l2"} : Mine(c)
    \/ \E b \in Batches : HandleRequest(b)
    \/ \E i \in Calls : Proceed(i)
    \/ \E t \in timers : Expire(t)

(* Every request is answered or fails, and the proxy handles what comes;   *)
(* no client has to call, no block has to be mined.                        *)
Spec == Init /\ [][Next]_vars
FairSpec == Spec /\ \A i \in 1..MaxCalls : WF_vars(i \in Calls /\ Proceed(i))

Done(kind) == {i \in Calls : Call(i).kind = kind /\ calls[i].stage = "done"}
Ok(i) == calls[i].answer.kind = "result"

(* A read whose requests did not fail tells how the chain was less than a  *)
(* lifetime and a flight ago, whoever filled the cache and in whatever     *)
(* order responses came (rpc-proxy.ts, getCachedResult).                   *)
BoundedStaleness ==
    \A i \in Done("read") :
        (Ok(i) /\ ~calls[i].failed /\ Call(i).key # Detection)
            => calls[i].answer.at - calls[i].answer.readAt
                  <= MaxFlight + (IF Call(i).chain = "l1" /\ TTL(Call(i).key) > 0
                                  THEN TTL(Call(i).key) - 1 ELSE 0)

(* Who asks for a receipt that exists is never told that there is none,    *)
(* although the null of an earlier poll is in the cache, even when the     *)
(* request fails: the answer is then an error.                             *)
ReceiptsFound ==
    \A i \in Done("read") : (calls[i].existed /\ Ok(i)) => calls[i].answer.value # Null

(* Once the hint for a proxy was confirmed, a transaction to the proxy does *)
(* not get to L1 past the builder, however often the proxy is called: what *)
(* L1 has was also sent by a call that goes elsewhere or did not wait for  *)
(* the hint.                                                               *)
WaitsFor(i, j) ==
    \E b \in Batches : \E d \in scenario.batches[b].after :
        \E k \in DOMAIN Batch(b), l \in DOMAIN Batch(d) : i = Batch(b)[k] /\ j = Batch(d)[l]

HintedGoThroughBuilder ==
    \A tx \in pool : \A hint \in Done("hint") :
        (Call(hint).chain = "l1" /\ Ok(hint)) =>
            \E i \in Of("l1", "send") :
                /\ Call(i).key = tx
                /\ ~(Call(i).about = Call(hint).about /\ WaitsFor(i, hint))

(* On L2 a hint goes with one transaction at most, one of its sender.      *)
UsedOnce ==
    \A i \in Of("l2", "send") : calls[i].hint # Null =>
        /\ Call(calls[i].hint).about = Call(i).about
        /\ \A j \in Of("l2", "send") \ {i} : calls[j].hint # calls[i].hint

(* A hint younger than its lifetime is there until a transaction takes it, *)
(* if it is the only one its sender registered (the timer of an older hint *)
(* deletes a newer one, l2-rpc-proxy.ts:247).                              *)
NotLost ==
    \A h \in Of("l2", "hint") :
        ( /\ calls[h].stage = "done" /\ now < calls[h].answer.at + HintLife
          /\ \A g \in Of("l2", "hint") \ {h} :
                Call(g).about = Call(h).about => calls[g].stage = "new" )
        => \/ pendingHints[Call(h).about] = h
           \/ \E i \in Of("l2", "send") : calls[i].hint = h

(* The bridge's hint meets the transaction it was sent for: no other one   *)
(* uses it up, and it does not get lost on the way (l2-rpc-proxy.ts).      *)
HintsKept == UsedOnce /\ NotLost

(* Who gets a hash can rely on it: the transaction was taken by L1 or by   *)
(* the builder, whatever was lost and repeated on the way.  An error to    *)
(* the first send of a transaction for L1 itself, which was asked and had  *)
(* nothing but rate limits to say, means that it was not taken.  (An error *)
(* from the builder does not: it may have given up a bundle that is        *)
(* executed later, builder.ts:766-786.)                                    *)
Direct(i) == Call(i).chain = "l1" /\ calls[i].hint = Null
Taken(i) == Call(i).key \in pool \/ \E a \in accepted : a.call = i
Repeated(i) == \E j \in Calls \ {i} : Call(j).kind = "send" /\ Call(j).key = Call(i).key
HonestAnswers ==
    \A i \in Done("send") :
        /\ Ok(i) => Taken(i)
        /\ (Direct(i) /\ ~Ok(i) /\ ~calls[i].unsure /\ ~Repeated(i)) => ~Taken(i)

(* Every batch is answered, whatever fails. *)
Answered == \A b \in 1..MaxCalls :
    (b \in Batches /\ Begun(b)) ~> (b \in Batches /\ Replied(b))

=============================================================================
