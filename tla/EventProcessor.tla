---------------------------- MODULE EventProcessor ----------------------------
(***************************************************************************)
(* A fullnode that follows L1 (event-processor.ts, fullnode.ts and the     *)
(* part of state-manager.ts they drive): it polls L1, replays the events   *)
(* of each new block on its own L2 chain, keeps block hashes and           *)
(* checkpoints, detects L1 reorgs and recovers from them, and persists     *)
(* where it is so that it can resume.                                      *)
(*                                                                         *)
(* L1 changes between any two of the node's reads.  The roots are          *)
(* abstracted to what they commit to: the sequence of L2 transactions.     *)
(*                                                                         *)
(* A definition named Mutant_X is X with a plausible mistake in it; no     *)
(* specification uses one.                                                 *)
(***************************************************************************)
EXTENDS L2Replay

CONSTANTS
    Payloads,           \* what L1 blocks may contain: sequences of events
    REORG_CHECK_DEPTH,  \* hashes compared per poll
    MAX_REORG_HISTORY,  \* hashes and checkpoints kept
    ReorgDepth,         \* bound: blocks a reorg removes
    Shrinks,            \* when L1 may lose height: "never", "idle" or "ever"
    Faults,             \* what may go wrong
    MaxBlocks,          \* bound: height of L1
    MaxReorgs,          \* bound: reorgs of L1
    MaxMishaps          \* bound: faults and stops of the node

ASSUME ProcessorConstants ==
    /\ \A payload \in Payloads : payload \in Seq([kind: Kinds, name: STRING])
    /\ REORG_CHECK_DEPTH \in Nat \ {0} /\ MAX_REORG_HISTORY \in Nat \ {0}
    /\ ReorgDepth \in Nat /\ MaxBlocks \in Nat
    /\ MaxReorgs \in Nat /\ MaxMishaps \in Nat
    /\ Shrinks \in {"never", "idle", "ever"}
    /\ Faults \subseteq {"gone", "read", "replay", "checkpoint", "unwind",
                   "stop", "crash"}

VARIABLES
    l1,           \* the canonical L1 chain
    reorgs,       \* L1 reorgs so far
    chain,        \* the node's L2 blocks (reth's database)
    disk,         \* sync-state.json: the empty sequence or one record
    pc,           \* what the node does next
    job,          \* the range and events it works on
    lastProcessedBlock,
    blockHashHistory,
    checkpoints,
    tracked,      \* the tracked state root
    mishaps       \* faults and stops so far

memory == <<lastProcessedBlock, blockHashHistory, checkpoints, tracked>>
vars == <<l1, reorgs, chain, disk, pc, job, memory, mishaps>>

-----------------------------------------------------------------------------
(* L1.  Every reorg starts a new generation of blocks; a block's           *)
(* generation stands for its hash, for no two blocks at one height share   *)
(* it.                                                                     *)

(* The root after an event: the owner may set it to one of nobody's making. *)
RootAfter(root, e) ==
    IF e.kind = "update" THEN Append(root, [kind |-> "update", name |-> e.name])
    ELSE root \o Transactions(e)

EventFrom(root, e) ==
    [kind |-> e.kind, name |-> e.name, currentState |-> root, newState |-> RootAfter(root, e)]

Emitted(root, payload) ==
    LET log[n \in 0..Len(payload)] ==
            IF n = 0 THEN <<>>
            ELSE Append(log[n - 1],
                        EventFrom(IF n = 1 THEN root ELSE log[n - 1][n - 1].newState, payload[n]))
    IN log[Len(payload)]

(* The events of the blocks of range, in order. *)
EventsOf(n) ==
    [i \in DOMAIN l1[n].events |-> [block |-> n, gen |-> l1[n].gen, event |-> l1[n].events[i]]]

Log(range) ==
    LET log[n \in 0..Len(l1)] ==
            IF n = 0 THEN <<>>
            ELSE log[n - 1] \o (IF n \in range THEN EventsOf(n) ELSE <<>>)
    IN log[Len(l1)]

L1RootOf(blocks) ==
    LET written == {n \in DOMAIN blocks : blocks[n].events # <<>>}
    IN IF written = {} THEN <<>>
       ELSE Last(blocks[CHOOSE n \in written : \A m \in written : m <= n].events).newState
L1Root == L1RootOf(l1)

(* What the L2 chain should contain. *)
Derived ==
    LET log == Log(1..Len(l1))
    IN FlattenSeq([i \in DOMAIN log |-> Transactions(log[i].event)])

(* An L2 transaction is signed for one nonce: it is on L1 once.            *)
Fresh(blocks, payload) ==
    \A n \in DOMAIN blocks : \A i \in DOMAIN blocks[n].events :
        \A e \in ToSet(payload) :
            e.kind \in Signed => blocks[n].events[i].name # e.name

WithBlock(blocks, gen, payload) ==
    Append(blocks, [gen |-> gen, events |-> Emitted(L1RootOf(blocks), payload)])

NewBlock(payload) ==
    /\ Len(l1) < MaxBlocks
    /\ Fresh(l1, payload)
    /\ l1' = WithBlock(l1, reorgs, payload)
    /\ UNCHANGED <<reorgs, chain, disk, pc, job, memory, mishaps>>

(* The last blocks give way to others. *)
Reorg(removed, payloads) ==
    /\ reorgs < MaxReorgs
    /\ removed <= Len(l1)
    /\ Len(l1) - removed + Len(payloads) <= MaxBlocks
    /\ Len(payloads) < removed =>
          Shrinks = "ever" \/ (Shrinks = "idle" /\ pc = "poll")
    /\ LET kept  == SubSeq(l1, 1, Len(l1) - removed)
           Chain[i \in 0..Len(payloads)] ==
              IF i = 0 THEN kept ELSE WithBlock(Chain[i - 1], reorgs + 1, payloads[i])
       IN /\ \A i \in DOMAIN payloads : Fresh(Chain[i - 1], payloads[i])
          /\ l1' = Chain[Len(payloads)]
    /\ reorgs' = reorgs + 1
    /\ UNCHANGED <<chain, disk, pc, job, memory, mishaps>>

-----------------------------------------------------------------------------
(* The node's L2 chain. *)
ActualStateRoot == FlattenSeq(chain)

(* syncrollups_isSynced: a chain that has another root is only logged.     *)
IsSynced == tracked = L1Root

-----------------------------------------------------------------------------
(* A range of L1 blocks, a position in it, and the events found in it. *)
Job(by, from, to) ==
    [by |-> by, from |-> from, to |-> to, at |-> from, queue |-> <<>>]
NoJob == Job("none", 0, 0)

(* recordBlockHashes starts at the blocks a reorg might reach. *)
FetchJob(by) ==
    LET first == lastProcessedBlock + 1
    IN [Job(by, first, Len(l1)) EXCEPT
           !.at = IF first < Len(l1) - 2 * MAX_REORG_HISTORY
                  THEN Len(l1) - 2 * MAX_REORG_HISTORY ELSE first]

ResetState == tracked' = <<>>
EmptyMemory ==
    /\ lastProcessedBlock' = 0
    /\ blockHashHistory' = <<>>
    /\ checkpoints' = <<>>
    /\ ResetState

Init ==
    /\ l1 = <<>> /\ reorgs = 0
    /\ chain = <<>> /\ disk = <<>>
    /\ pc = "down" /\ job = NoJob
    /\ lastProcessedBlock = 0 /\ blockHashHistory = <<>>
    /\ checkpoints = <<>> /\ tracked = <<>>
    /\ mishaps = 0

(* What is kept to notice reorgs and to recover from them. *)
ReorgData == [blockHashHistory |-> blockHashHistory, checkpoints |-> checkpoints]

SyncState(last) ==
    <<[lastProcessedBlock |-> last, stateRoot |-> tracked, reorgData |-> ReorgData]>>

SetResumeState(saved) ==
    /\ lastProcessedBlock' = saved.lastProcessedBlock
    /\ tracked' = saved.stateRoot
    /\ blockHashHistory' = saved.reorgData.blockHashHistory
    /\ checkpoints' = saved.reorgData.checkpoints

(* fullnode.ts start: the persisted state is used only if reth has exactly *)
(* the persisted root; otherwise everything is replayed on what reth has.  *)
Start ==
    /\ pc = "down"
    /\ IF disk # <<>> /\ ActualStateRoot = disk[1].stateRoot
       THEN SetResumeState(disk[1]) ELSE EmptyMemory
    /\ pc' = "start"
    /\ UNCHANGED <<l1, reorgs, chain, disk, job, mishaps>>

(* replayHistoricalEvents looks at no hashes first. *)
ReplayHistoricalEvents ==
    /\ pc = "start"
    /\ IF lastProcessedBlock < Len(l1)
       THEN /\ pc' = "hashes"
            /\ job' = FetchJob("start")
       ELSE pc' = "poll" /\ job' = NoJob
    /\ UNCHANGED <<l1, reorgs, chain, disk, memory, mishaps>>

(* What is in memory is lost; reth and the file stay. *)
Down ==
    /\ pc' = "down" /\ job' = NoJob
    /\ EmptyMemory
    /\ mishaps' = mishaps + 1
    /\ UNCHANGED <<l1, reorgs, chain, disk>>

Mishap(fault) == fault \in Faults /\ mishaps < MaxMishaps

-----------------------------------------------------------------------------
(* detectReorg *)

HashMatches(n) == n \in DOMAIN l1 /\ l1[n].gen = blockHashHistory[n]

(* At most REORG_CHECK_DEPTH heights, and no more than there are hashes. *)
BlocksToCheck ==
    {n \in DOMAIN blockHashHistory :
        /\ n <= lastProcessedBlock
        /\ n > lastProcessedBlock - REORG_CHECK_DEPTH
        /\ n > lastProcessedBlock - Cardinality(DOMAIN blockHashHistory)}

Oldest(heights) == CHOOSE n \in heights : \A m \in heights : n <= m
Newest(heights) == CHOOSE n \in heights : \A m \in heights : n >= m

(* A block that cannot be read is skipped. *)
DetectReorg ==
    /\ pc = "poll"
    /\ \E unread \in SUBSET BlocksToCheck :
          /\ unread # {} => Mishap("read")
          /\ mishaps' = IF unread = {} THEN mishaps ELSE mishaps + 1
          /\ LET bad == {n \in BlocksToCheck \ unread : ~HashMatches(n)}
             IN IF bad = {} THEN pc' = "tip" /\ job' = NoJob
                ELSE /\ pc' = "search"
                     /\ job' = Job("reorg", Oldest(DOMAIN blockHashHistory), Newest(bad))
    /\ UNCHANGED <<l1, reorgs, chain, disk, memory>>

(* One step of the binary search in job.from .. job.to. *)
FindForkPoint ==
    /\ pc = "search"
    /\ job.from < job.to
    /\ LET mid == (job.from + job.to) \div 2
       IN \/ /\ mid \in DOMAIN blockHashHistory /\ ~HashMatches(mid)
             /\ job' = [job EXCEPT !.to = mid]
             /\ UNCHANGED mishaps
          \/ /\ mid \in DOMAIN blockHashHistory => HashMatches(mid)
             /\ job' = [job EXCEPT !.from = mid + 1]
             /\ UNCHANGED mishaps
          \/ /\ Mishap("read")
             /\ job' = [job EXCEPT !.from = mid + 1]
             /\ mishaps' = mishaps + 1
    /\ UNCHANGED <<l1, reorgs, chain, disk, pc, memory>>

(* poll: where L1's tip is against the last block processed. *)
CheckTip ==
    /\ pc = "tip"
    /\ \/ /\ Len(l1) < lastProcessedBlock
          /\ pc' = "search"
          /\ job' = Job("reorg", Len(l1) + 1, Len(l1) + 1)
       \/ /\ Len(l1) > lastProcessedBlock
          /\ pc' = "hashes"
          /\ job' = FetchJob("poll")
       \/ /\ Len(l1) = lastProcessedBlock
          /\ pc' = "poll"
          /\ job' = NoJob
    /\ UNCHANGED <<l1, reorgs, chain, disk, memory, mishaps>>

(* An orderly stop is one of a node that is up to date, as far as L1 can   *)
(* tell; a crash may come at any time.                                     *)
UpToDate ==
    /\ pc = "poll"
    /\ lastProcessedBlock = Len(l1)
    /\ \A n \in BlocksToCheck : HashMatches(n)

(* All the node remembers of L1 is still so. *)
Undisturbed == \A n \in DOMAIN blockHashHistory : HashMatches(n)

Stop  == UpToDate /\ Undisturbed /\ Mishap("stop") /\ Down
Crash == pc # "down" /\ Mishap("crash") /\ Down

-----------------------------------------------------------------------------
(* handleReorg *)

FindCheckpointsBefore(n) ==
    LET kept[i \in 0..Len(checkpoints)] ==
            IF i = 0 THEN <<>>
            ELSE IF checkpoints[i].l1BlockNumber < n THEN Append(kept[i - 1], checkpoints[i])
            ELSE kept[i - 1]
    IN kept[Len(checkpoints)]

HashesBefore(n) == Restrict(blockHashHistory, {m \in DOMAIN blockHashHistory : m < n})

Mutant_KeepHashes(n) ==
    /\ blockHashHistory' = blockHashHistory
    /\ checkpoints' = FindCheckpointsBefore(n)

Mutant_KeepCheckpoints(n) ==
    /\ blockHashHistory' = HashesBefore(n)
    /\ checkpoints' = checkpoints

PruneFromBlock(n) ==
    /\ blockHashHistory' = HashesBefore(n)
    /\ checkpoints' = FindCheckpointsBefore(n)

Mutant_SkipBlock(cp) ==
    /\ chain' = SubSeq(chain, 1, cp.l2BlockNumber)
    /\ tracked' = cp.trackedStateRoot
    /\ PruneFromBlock(cp.l1BlockNumber)
    /\ lastProcessedBlock' = cp.l1BlockNumber

Mutant_KeepTracked(cp) ==
    /\ chain' = SubSeq(chain, 1, cp.l2BlockNumber)
    /\ PruneFromBlock(cp.l1BlockNumber)
    /\ lastProcessedBlock' = cp.l1BlockNumber - 1
    /\ UNCHANGED tracked

(* reth stage unwind keeps the blocks up to this one. *)
UnwindToBlock(n) == chain' = SubSeq(chain, 1, n)

RestoreState(cp) == tracked' = cp.trackedStateRoot

(* The last checkpoint before the fork says which L2 blocks to keep. *)
Unwind(cp) ==
    /\ UnwindToBlock(cp.l2BlockNumber)
    /\ RestoreState(cp)
    /\ PruneFromBlock(cp.l1BlockNumber)
    /\ lastProcessedBlock' = cp.l1BlockNumber - 1

ClearRethData == chain' = <<>>
Wipe == ClearRethData /\ EmptyMemory

HandleReorg ==
    /\ pc = "search"
    /\ job.from >= job.to
    /\ LET before == FindCheckpointsBefore(job.from)
       IN \/ before # <<>> /\ Unwind(Last(before)) /\ UNCHANGED mishaps
          \/ before # <<>> /\ Mishap("unwind") /\ Wipe /\ mishaps' = mishaps + 1
          \/ before = <<>> /\ Wipe /\ UNCHANGED mishaps
    /\ pc' = "recover"
    /\ job' = NoJob
    /\ UNCHANGED <<l1, reorgs, disk>>

(* The events since the checkpoint are processed again, and then, or at    *)
(* once if there are none, the state is persisted.                         *)
ReprocessFromCheckpoint ==
    /\ pc = "recover"
    /\ IF lastProcessedBlock < Len(l1)
       THEN /\ pc' = "hashes"
            /\ job' = FetchJob("reorg")
            /\ UNCHANGED disk
       ELSE /\ pc' = "poll"
            /\ job' = NoJob
            /\ disk' = SyncState(lastProcessedBlock)
    /\ UNCHANGED <<l1, reorgs, chain, memory, mishaps>>

-----------------------------------------------------------------------------
(* fetchAndProcessEvents *)

(* A read that throws ends the poll; at the start it ends the process. *)
FetchFails ==
    /\ pc \in {"start", "tip", "recover", "hashes", "query"}
    /\ Mishap("read")
    /\ IF pc = "start" \/ job.by = "start" THEN Down
       ELSE /\ pc' = "poll" /\ job' = NoJob
            /\ mishaps' = mishaps + 1
            /\ UNCHANGED <<l1, reorgs, chain, disk, memory>>

(* The MAX_REORG_HISTORY highest of them. *)
Recent(heights) ==
    {n \in heights : Cardinality({m \in heights : m > n}) < MAX_REORG_HISTORY}

(* recordBlockHashes reads one block at a time; a hash that is there stays *)
(* as it is, a block that is not there is passed over.                     *)
RecordBlockHash ==
    /\ pc = "hashes"
    /\ job.at <= job.to
    /\ blockHashHistory' =
          IF job.at \in DOMAIN l1 \ DOMAIN blockHashHistory
          THEN [n \in DOMAIN blockHashHistory \cup {job.at} |->
                   IF n = job.at THEN l1[n].gen ELSE blockHashHistory[n]]
          ELSE blockHashHistory
    /\ job' = [job EXCEPT !.at = @ + 1]
    /\ UNCHANGED <<l1, reorgs, chain, disk, pc, lastProcessedBlock, checkpoints,
                   tracked, mishaps>>

PruneBlockHashHistory ==
    /\ pc = "hashes"
    /\ job.at > job.to
    /\ blockHashHistory' = Restrict(blockHashHistory, Recent(DOMAIN blockHashHistory))
    /\ pc' = "query"
    /\ UNCHANGED <<l1, reorgs, chain, disk, job, lastProcessedBlock, checkpoints,
                   tracked, mishaps>>

QueryEvents ==
    /\ pc = "query"
    /\ pc' = "events"
    /\ job' = [job EXCEPT !.queue = Log(job.from..job.to), !.at = 0]
    /\ UNCHANGED <<l1, reorgs, chain, disk, memory, mishaps>>

Processing == pc = "events" /\ job.queue # <<>>
NextBlock  == job.queue[1].block

(* If reth does not answer, the checkpoint names its genesis block. *)
SaveCheckpoint ==
    /\ Processing
    /\ job.at # NextBlock
    /\ \E height \in {Len(chain), 0} :
          /\ height # Len(chain) => Mishap("checkpoint")
          /\ mishaps' = IF height = Len(chain) THEN mishaps ELSE mishaps + 1
          /\ LET cps == Append(checkpoints, [l1BlockNumber |-> NextBlock,
                                             l2BlockNumber |-> height,
                                             trackedStateRoot |-> tracked])
                 surplus == Len(cps) - MAX_REORG_HISTORY
             IN checkpoints' = IF surplus > 0 THEN SubSeq(cps, surplus + 1, Len(cps)) ELSE cps
    /\ job' = [job EXCEPT !.at = NextBlock]
    /\ UNCHANGED <<l1, reorgs, chain, disk, pc, lastProcessedBlock, blockHashHistory, tracked>>

(* The head of the queue and the executions of its block that follow it. *)
IsExecution(entry) == entry.event.kind # "update"
Group ==
    LET Ends(i) == \/ i = Len(job.queue)
                   \/ ~IsExecution(job.queue[i + 1])
                   \/ job.queue[i + 1].block # NextBlock
    IN IF ~IsExecution(job.queue[1]) THEN <<job.queue[1].event>>
       ELSE LET n == CHOOSE i \in DOMAIN job.queue :
                        Ends(i) /\ \A j \in 1..(i - 1) : ~Ends(j)
            IN [i \in 1..n |-> job.queue[i].event]

(* Two or more executions that change state are replayed as a batch, the   *)
(* accounting events of the group after it; else one event at a time.      *)
Batch == Picked(Group, {i \in DOMAIN Group : ChangesState(Group[i])})
IsBatch == IsExecution(job.queue[1]) /\ Len(Batch) > 1

(* Replaying needs the L1 transaction, which may be gone with its block,   *)
(* and an L2 transaction that was not executed before.  Whatever fails,    *)
(* the error is logged and the tracked root moves on.                      *)
Canonical(entry) == entry.block \in DOMAIN l1 /\ l1[entry.block].gen = entry.gen

Mine(blocks) ==
    \/ /\ Accepts(ActualStateRoot, FlattenSeq(blocks))
       /\ chain' = chain \o blocks
       /\ UNCHANGED mishaps
    \/ /\ blocks # <<>>
       /\ \/ ~Accepts(ActualStateRoot, FlattenSeq(blocks))
          \/ "gone" \in Faults /\ ~Canonical(job.queue[1])
       /\ UNCHANGED <<chain, mishaps>>
    \/ /\ blocks # <<>>
       /\ Mishap("replay")
       /\ mishaps' = mishaps + 1
       /\ UNCHANGED chain

UpdateState(e) == tracked' = e.newState

(* The accounting events are processed after the batch, so the last one of *)
(* the group, if it has one, sets the tracked root.                        *)
Accounting == {i \in DOMAIN Group : ~ChangesState(Group[i])}
LastUpdate == IF Accounting = {} THEN Last(Group) ELSE Group[Newest(Accounting)]

ProcessEvent ==
    /\ Processing /\ job.at = NextBlock
    /\ ~IsBatch
    /\ LET e == job.queue[1].event
       IN /\ Mine(IF IsExecution(job.queue[1]) THEN ReplayExecution(ActualStateRoot, e) ELSE <<>>)
          /\ UpdateState(e)
    /\ job' = [job EXCEPT !.queue = Tail(@)]
    /\ UNCHANGED <<l1, reorgs, disk, pc, lastProcessedBlock, blockHashHistory, checkpoints>>

ReplayBatchExecution ==
    /\ Processing /\ job.at = NextBlock
    /\ IsBatch
    /\ Mine(BatchBlocks(Batch))
    /\ UpdateState(LastUpdate)
    /\ job' = [job EXCEPT !.queue = SubSeq(@, Len(Group) + 1, Len(@))]
    /\ UNCHANGED <<l1, reorgs, disk, pc, lastProcessedBlock, blockHashHistory, checkpoints>>

FinishFetch ==
    /\ pc = "events" /\ job.queue = <<>>
    /\ lastProcessedBlock' = job.to
    /\ disk' = SyncState(job.to)
    /\ pc' = "poll"
    /\ job' = NoJob
    /\ UNCHANGED <<l1, reorgs, chain, blockHashHistory, checkpoints, tracked, mishaps>>

-----------------------------------------------------------------------------
L1 ==
    \/ \E payload \in Payloads : NewBlock(payload)
    \/ \E removed \in 1..ReorgDepth, n \in 0..ReorgDepth :
          \E payloads \in [1..n -> Payloads] : Reorg(removed, payloads)

Node ==
    \/ Start \/ ReplayHistoricalEvents
    \/ DetectReorg \/ FindForkPoint \/ CheckTip
    \/ HandleReorg \/ ReprocessFromCheckpoint
    \/ RecordBlockHash \/ PruneBlockHashHistory \/ QueryEvents
    \/ SaveCheckpoint \/ ProcessEvent \/ ReplayBatchExecution \/ FinishFetch

Next == L1 \/ Node \/ FetchFails \/ Stop \/ Crash

Spec == Init /\ [][Next]_vars

(* poll schedules itself again whatever happens, and whoever runs the node *)
(* starts it again.                                                        *)
FairSpec == Spec /\ WF_vars(Node)

-----------------------------------------------------------------------------
(* Properties. *)

Hash == 0..MaxReorgs
Root == Seq(Transaction)

TypeOK ==
    /\ \A n \in DOMAIN l1 : l1[n].gen \in 0..reorgs
    /\ chain \in Seq(Root)
    /\ pc \in {"down", "start", "poll", "tip", "search", "recover", "hashes", "query", "events"}
    /\ lastProcessedBlock \in Nat
    /\ \A n \in DOMAIN blockHashHistory : blockHashHistory[n] \in Hash /\ n > 0
    /\ Cardinality(DOMAIN blockHashHistory) <= MAX_REORG_HISTORY + MaxBlocks
    /\ Len(checkpoints) <= MAX_REORG_HISTORY
    /\ \A i \in DOMAIN checkpoints : checkpoints[i].l2BlockNumber \in 0..Len(chain)
    /\ tracked \in Root
    /\ Len(disk) <= 1

(* The L2 chain is a deterministic function of the L1 chain: whatever L1   *)
(* did between any two reads, a node that is up to date with a history in  *)
(* which every hash is canonical has replayed the canonical events, all of *)
(* them, once, in order, and tracks L1's root.                             *)
DerivedFromL1 ==
    UpToDate /\ Undisturbed => ActualStateRoot = Derived /\ IsSynced

(* The same while nothing has failed. *)
DerivedWithoutMishaps == mishaps = 0 => DerivedFromL1

(* A checkpoint that recovery may choose, one with no reorged block before *)
(* it, is a state the node was in: unwinding to its L2 block gives the     *)
(* root that is restored with it.                                          *)
CheckpointsRestorable ==
    \A i \in DOMAIN checkpoints :
        LET cp == checkpoints[i]
        IN (\A n \in DOMAIN blockHashHistory : n < cp.l1BlockNumber => HashMatches(n))
              => FlattenSeq(SubSeq(chain, 1, cp.l2BlockNumber)) = cp.trackedStateRoot

(* STATE_TRANSITION_SPEC.md, Rule 1: each L1 call has its L2 block.        *)
EveryCallReplayed ==
    UpToDate /\ Undisturbed => ToSet(Derived) \subseteq ToSet(ActualStateRoot)

(* replayExecution's comment: "The tracked state advances to match L1".    *)
(* Whatever fails, in L1, in reth or in the process, a node that is up to  *)
(* date tracks L1's root: its isSynced, on which the builder waits, comes  *)
(* back by itself, and it does so after every reorg.                       *)
TrackedMatchesL1 == UpToDate /\ Undisturbed => IsSynced

(* When L1 comes to rest the node arrives at its derivation and stays.     *)
Converges ==
    <>[](/\ lastProcessedBlock = Len(l1)
         /\ ActualStateRoot = Derived /\ IsSynced)
=============================================================================
