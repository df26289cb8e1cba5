# Verification of the Stratus shared mempool

TLA+ models of the shared-mempool replica in `src/`, checked with TLC on small
instances, and theorems about them that TLAPS proves for every value of the
constants.

## 1. The system

A replica (`src/replica/replica.go`) batches transactions into *microblocks*,
sends them to other replicas, and lets consensus order the microblocks' hashes
only. A microblock is *stable* when `Q` replicas acknowledged it. Committed
microblocks are numbered and executed, by everybody or by the group or sample
of replicas that has the text.

| Part | Source | Modules |
|---|---|---|
| AckMem, the mempool | `mempool/ackmem.go`, `blockchain/block.go` | `AckMemOps`, `AckMem`, `AckMemFill`, `MicroblockLife` (abstract) |
| Dissemination of microblocks | `replica/replica.go`, `node/node.go` | `Dissemination` |
| Transaction pool and observePool | `txpool/txpool.go`, `replica/replica.go` | `TxPool` |
| HotStuff | `hotstuff/hotstuff.go` | `HotStuffOps`, `HotStuff`, `Ledger` (abstract) |
| Forest and quorum | `blockchain/` | `Blockchain` |
| Pacemaker and leader election | `pacemaker/`, `election/` | `PacemakerOps` |
| Executor | `execute/execute.go` | `Executor` |
| Goroutines and channels of a replica | `replica/replica.go`, `node/node.go`, `pacemaker/` | `EventLoop` |
| Sockets and transports | `socket/socket.go`, `transport/transport.go` | `Socket` |
| Token bucket | `limiter/ratelimit.go` | `RateLimiter` |
| Benchmark client | `benchmark/` | `Benchmark` |
| Timestamp mempool, priority queue | `mempool/timemem.go`, `pq/pq.go` | `TimeMem`, `PriorityQueue`, `TxnBatch` |
| Measurement | `monitor/monitor.go` | `Monitor` |
| Groups, random choices | `group/group.go`, `utils/utils.go` | `Groups`, `Picks` |
| Merkle tree | `crypto/merkle/` | `Merkle` |

How they interact. `observePool` takes transactions from the pool and gives a
microblock to the mempool and to the broadcast; the handlers of messages give
microblocks, acks and Stable messages to the mempool; a leader takes stable
hashes from it for a proposal, and every replica removes the hashes of a
proposal; what HotStuff commits goes to the executor, whose results go to the
other executors. Four models are compositions of this kind: `Dissemination`
(replicas, each with the mempool of `AckMemOps`, and their messages), `HotStuff`
(replicas, each with forest, quorum and pacemaker, and their messages), `TxPool`
(two goroutines, mutex and channels) and `TimeMem` (mempool over the heap).

What is hard in this code: the order in which a microblock, its acks, its
Stable message and a proposal that contains it reach a replica; placeholders
(*fake* microblocks) that are built when a hash is known before its
transactions; goroutines that wait for each other over unbuffered channels;
certificates and timeouts that race for a view; state that is read, released
and used again. `PROJECT.json` lists these hazards with the line where each one
bites and the property that covers it.

## 2. Models

### AckMemOps, AckMem, AckMemFill

Every method of AckMem takes `am.mu` first and releases it last, so a method is
one step. The record's fields are the Go fields of the same name. A copy of a
microblock is `none`, `fake` or `real`; an entry of the stable queue says
whether the pointer in it is the fake one, since replacing the map's entry does
not change the queue. `GeneratePayload` sorts the queue by group when
`BroadcastByGroup` is set: `Arrangements` gives every result `sort.Slice` may
have (it is not a stable sort). `FetchMB` removes the first queue entry for
each hash; the model removes all, which is the same because a hash is queued at
most once (`StableOnce`, proved).

`FetchMB` gives a placeholder for a hash the mempool does not know, and does not
remember the hash: when the microblock arrives later it is queued like a new one.
`MicroblockLife` allows this, since the microblock is queued for the first time.

`AckMem` is the most general client: any method with any argument at any time,
which includes everything the goroutines of a replica may do. The one guard is
that of `processAcks`, which drops acks for stable microblocks. `AckMemFill`
adds the operations of the interface that build a `PendingBlock` from a
proposal, which the replica no longer calls.

### Dissemination

One replica is one mempool, the set `receivedMBs`, and the microblock that
`observePool` has stored and not yet broadcast. Handlers of a replica run one
at a time (`node.handle`), and `observePool`, `loadbalance` and the event loop
run beside them, which is what the interleaving of the actions gives. Messages
in flight are sets, because the configured delay, slow links and separate
connections permit every order; the transport neither loses nor duplicates
messages between live replicas. Consensus is abstracted to "any replica may
propose at any time", which contains every schedule of leaders.

`HandleMicroblock` and `HandleOwnMicroblock` are the two ends of one handler:
the ack is sent to somebody else, or processed locally at once. The handler
marks acks from outside the group, and then sends a fresh ack without the mark
(replica.go:291), so the mark only matters for the local case.

The two handlers for requests of missing microblocks are not actions: nothing
in the code sends such a request. In plain mode the executor does not; in group
mode it sends to an empty list; in sample mode it does so only for a fake
microblock that names the replica itself, and `NeverRequested` shows that there
is none. (`Executor` has the handlers all the same, since its texts may be late
for any reason.) The Byzantine strategies of the test harness are not modelled.

### TxPool

`AddTx` keeps `pool.mu` for its whole loop and sends to `FetchSignal` in it, so
each send is a step that may have to wait; `TxLen` and `FetchTx` are one step
each, possible when AddTx does not have the mutex. `observePool` has a step for
the signal, the length, the transactions, the microblock and the broadcast
token. Transactions are counted, not identified. Whether `GenerateMb` refuses
depends on the mempool's size and is left open. `MaxTx` bounds the calls of
AddTx; the proofs do not need it.

### HotStuff, HotStuffOps, Blockchain, PacemakerOps

The handlers of `hotstuff.go` are operators on the record of one replica;
`Blockchain` has the forest with its empty containers, pruning, and the votes;
`PacemakerOps` has the views, the timeout messages and the leaders. A block is
named by its view, which `OneBlockPerView` justifies. `HotStuff` runs N replicas:
one event at a time per replica, `ListenLocalEvent` beside it with the view it
read before, messages delivered at most once, in any order, perhaps never. A
vote or a TMO that has passed the test of `HandleVote` or `HandleTmo` while the view
changes is kept as such (`Waiting`), and holds up the messages behind it.
`proposedNo` is the replica's own counter of proposals. `ProcessLocalTmo` is one
step: it runs on the goroutine of `ListenLocalEvent` with no lock in common with the
event loop, so that in the code the two may interleave inside it, on the maps and
the chain of the replica too, which is a data race the model leaves out. A message that can have no effect any more leaves the network
(`CurrentVotes`, `CurrentTmos`, `CurrentProposals`), and so do entered views that a
replica does not lead: fewer states, the same behaviour. `ProcessBlock` is recursive, as the code is. Signature checks
succeed among correct replicas and have no counterpart.

### The other parts

* `Executor`: consensus commits one chain everywhere; the model has the
  numbering of microblocks, the pending queue, results, requests and replies,
  in the modes plain, group and sample. `CommitBlock` hands a batch of blocks over
  newest first, and replicas whose batches differ number the same microblock
  differently. `MaxBatch` is part of the setup of a behaviour: with batches of two
  the numbers do differ (`NumberedAlike` fails). What then holds is `CountedOnce`
  and the first clause of `ResultsBacked`; the second clause, that what a replica
  counts was executed by some replica, and `QuietMeansExecuted` are stated for
  replicas that number alike, and fail without it.
* `EventLoop`: the goroutines of a replica (`handle`, `txn`, `Start`,
  `ListenLocalEvent`, `ListenCommittedBlocks`, `HandleMB`) with the unbuffered `start`
  and `eventChan`, the buffered `newViewChan`, `committedBlocks` and channels of the
  executor, and the pacemaker's lock. An event enters any number of views, since a
  processed block is followed by its buffered QC and the buffered block on top of it,
  and a TMO brings a certificate and may complete another; each view may commit
  blocks. `committedBlocks` and `forkedBlocks` are one counter, and so are the
  executor's three channels. Sends to the network and to `selfMBChan` are taken not
  to wait.
* `Socket`: goroutines of a node that send over transports they dial on first
  use, with fault injection and its timers, or with the configured `Delay`, where a
  timer of its own sends each message. `Recv2` never runs (node.go:97 is a comment)
  and `Send2`, `Broadcast2` and `MulticastQuorum2` have no caller outside
  `socket.go`; the second network is modelled as the interface has it.
* `RateLimiter`: the token bucket in ticks, with callers of `Available` that
  read the clock before they take the lock.
* `Benchmark`: the loop of `Run` with its throttle. Line 68 of `benchmark.go`,
  which would start the workers, is a comment, so nobody receives the keys.
* `TimeMem` over `PriorityQueue`: the heap as an array with the moves of
  `container/heap`, which is external. `TxnBatch` is the batching by byte sizes
  that the `AddTxn` of every mempool has, AckMem's included. The replica does not
  create a `TimeMem` (replica.go:160 is a comment); its methods are called in any
  order. In a heap of at most four items, as here, an item that replaces a removed
  one never has to move up.
* `Monitor`: the calls `collectData` makes at every tick while the counters go
  on. `CollectePoolTxNum` appends to the list of received transactions
  (monitor.go:119), so the two lists may share an array, and the next entry of the
  one then overwrites the last entry of the other.
* `Groups`: the loops of `initGroup`, node by node. `Picks`: the draws of
  `RandomPick` and `GenerateUniqueRandomArray`, number by number, the panic of `Intn` for an empty
  range included.
* `Merkle`: tree and proofs over all lists of items; hashes are terms, so two are
  equal when they hash the same thing.

## 3. Runs

| Run | Instance | Shows |
|---|---|---|
| `ackmem` | 2 nodes, 2 hashes, Q = 3, BSize = 1, by group | index and threshold invariants, whole pending blocks, refinement of `MicroblockLife` |
| `ackmem_fake_replaced` | same without pending blocks | **violated**: the queue keeps a fake entry when the real microblock is there |
| `ackmem_find` | same | **violated**: `FindMicroblock` does not find stored microblocks |
| `dissemination_sample` | 4 replicas, 1 microblock, samples of 3, Q = 3 | safety of acks and Stable messages, and that every microblock settles |
| `dissemination_group` | 3 replicas, 2 microblocks, one sent from outside its group | `Availability` and `QAcks` (a Stable message names Q replicas) with groups, sorting and two senders |
| `dissemination_loadbalance` | 3 replicas, 1 microblock, 1 loaded replica | Stable messages name holders, every microblock settles |
| `dissemination_loadbalance_quorum` | same | **violated**: a microblock becomes stable with one replica's acks although Q = 2 |
| `txpool` | pool of 5, microblocks of 2, calls of 4, 12 transactions | no lost wakeup, no stale check, no vanished transaction, microblocks get built |
| `txpool_returns` | same | **violated**: AddTx and observePool can wait for each other for ever |
| `hotstuff` | 4 replicas, 4 views, 1 timeout | one proposal per view, certificates backed by votes and built once, commits as `Ledger` promises, and all of them made when no timer fires |
| `hotstuff_fork` | 4 replicas, 8 views, one schedule | **violated**: two correct replicas commit conflicting blocks |
| `parts` | eleven independent parts, bounds in `MCParts` | see below |

### parts

The parts of section 1 that share no state with each other are explored in one
run: the variable `part` says which one runs, and the others stay at one initial
state, so the states are the sum of the parts' states and not their product. The
bounds of each part are given where it is instantiated in `MCParts` (the two that
it extends have theirs in the cfg).

| Part | Instance | Properties |
|---|---|---|
| token bucket | capacity 3, quantum 2, interval 2, two callers of `Available`, time up to 4 | `RateBound`: by a tick no more tokens are used than the bucket got by then |
| benchmark | interval 2, credit 2, time 9, room for 5 keys | `ThrottleBound`: keys come no faster than the limiter allows, whenever calls come and sleeps end |
| executors | 3 replicas, overlapping groups, 2 or 3 blocks with a microblock committed twice, batches of 1 or 2, late texts, 3 modes | `CountedOnce`, `ResultsBacked`: who counts as having done a microblock has executed it or a later one, and nobody counts what no replica executed if the replicas number alike; `QuietMeansExecuted` |
| event loop | 2 messages of every kind, 3 views, a transaction or none, a timeout, buffers of 1 | `StuckCauses`: the replica gets stuck in three ways only |
| sockets | 2 goroutines, 1 peer with 2 ports, 3 messages, channels of 1, with 1 fault or with `Delay` | `OnceInOrder`, `QuietMeansArrived` |
| monitor | 2 ticks, 2 events | `RatesAddUp`: the rates appended at the ticks add up to the number collected |
| groups | up to 6 nodes in up to 4 groups | `DealtInTurn`: groups are dealt evenly, and a node agrees with the others about its own |
| picks | up to 5 replicas, every `LoadedIndex` and sample size | `PicksSucceed`: different, existing replicas, and a number left to draw unless there is nobody to pick |
| Merkle tree | up to 8 leaves of 2 kinds | `ProofsVerify`: the two computations of the root agree, and a proof fits its item and position only |
| timestamp mempool | 4 transactions around `msize`, 3 foreign microblocks, 3 timestamps | `BatchesFit`, `QueueConsistent`, `EarliestFirst` |
| timeouts | HotStuff with 4 replicas, 6 views, 4 timeouts, after two schedules | `OneProposalPerView`, `QCsDescend`: a block with a QC extends an earlier view |

`CountedOnce` is stated for the modes group and plain. In sample mode it does
not hold: `ExecuteThread` (execute.go:178) passes over placeholders that others
execute and then cuts as many entries off the front of the queue as it executed.

### Bounds

Q = 3 with two nodes makes the boundary of the threshold reachable both
by counted duplicates and by buffered acks. Two hashes with BSize = 1 give a
queue that is longer than a batch, in both orders of the sort. A sample of 3 of
4 replicas leaves one replica that only gets the Stable message, and Q = 3
needs every replica of the smallest sample; the other runs have Q = 2, where one
replica gets the microblock and is not needed for the quorum. Sample
mode with two microblocks is too large for TLC; microblocks interact only in a
mempool's queue, which the group run has with two.

A pool of 5 with microblocks of 2 holds transactions for two microblocks and one
more, so a lost wakeup would leave a microblock behind; calls of 4 overrun the
pool and the channel.

Four views are the least in which HotStuff commits: block 1 is committed with
the QC of view 3. One timeout at any moment is enough for every race of a
timeout with a certificate at one replica; a timeout certificate needs a super
majority of timeouts. The part *timeouts* has those: its two schedules
(`LateForOne`, `LateForTwo`) bring the leader of view 4 into its view by its own
timer and others past it by a timeout certificate, after which every step is
possible; it then proposes for view 4 when the views 5 or 6 are under way. The
fork needs eight views and ten timeouts, which is out of reach for a search:
`MCHotStuffSchedule` takes the steps of `Next` in a given order.

In `Executor` three replicas in pairs of two give every microblock a replica
that is not in its group, and every two consecutive groups differ. In `Socket`
two goroutines are enough for a race of two dials, and channels of 1 are full
after one message. In `EventLoop` three views are the least with which `AdvanceView`
waits for its own reader: one view is on the way to `Start`, one fills the channel. Eight leaves are the least number whose tree is full at three
levels; five to seven are the ones that are not.

### Deadlock, liveness and fairness

The runs of AckMem check for deadlock: some method can always be called. The others
stop at their bounds and do not; what must not be left hanging is stated as a
property instead.

* `Settles` (Dissemination): weak fairness of `Handle(n)`, since `node.handle`
  loops for ever over its message channel, and of `Broadcast(n)`, since a
  goroutine of `observePool` refills the broadcast tokens every three seconds.
  Nothing is assumed of building microblocks or of leaders. The fairness holds as
  long as the handlers return: `EventLoop` shows how `handle` may come to wait for
  ever, and `Settles` says nothing of such executions.
* `PoolDrains` and `AddTxReturns` (TxPool): a goroutine that can run does run,
  and one that waits for the mutex gets it in the end (strong fairness of
  `TxLen` and `FetchTx`): Go's mutex hands itself over to a goroutine that has
  waited for a millisecond. Nothing is assumed of the ticker.
* `QuietMeansCommitted`, `QuietMeansExecuted`, `QuietMeansArrived` and
  `StuckCauses` speak of the states in which nothing is left to do. In these
  models every step uses up a message, a bounded input or an entered view, so
  every execution gets to such a state if what can run does run, and the
  invariant says what has been achieved there. (In `EventLoop` an event may go on
  committing blocks; those of the code are finitely many.) `PicksSucceed` says of the loops of
  `Picks` that a number they accept always exists; that a random source yields
  it in the end is left to probability.

### Findings

The violated runs each have a finding in `PROJECT.json` with the line of code and
the sentence it disagrees with. The fork of `hotstuff_fork` comes from the early
return in `processCertificate` (hotstuff.go:236): a replica that a timeout has
moved past the view of a QC votes for a block without taking the lock the QC
brings, and later votes for a block on an older branch.

`TxPool` and `EventLoop` show goroutines that wait for each other. In the event
loop the three causes are: a vote, a TMO or a result that arrives before anything has
sent the start signal; two goroutines that find `isStarted` unset; `AdvanceView` with a
full `newViewChan` while its reader needs the pacemaker or the event loop. Each of
them does occur in the model.

## 4. Proofs

`AckMemLemmas` proves for each method that it preserves `Ok` (the type, the
agreement of the indexes, the exact counter, and fewer than Q acks for what is
pending) and only moves microblocks `Forward`. The list operations need that a
set of positions has an increasing enumeration, which is proved by a minimal
counterexample. From these, for any nodes, hashes, `Q > 1` and batch size:

* `AckMemProofs`: `TypeOK`, `StableOnce`, `StableCount`, `NoStuckPending`, and
  that AckMem implements `MicroblockLife`.
* `DisseminationProofs`, without load balancing, for every broadcast mode:
  `Availability` (a microblock that is stable anywhere is held by Q replicas),
  `CertificateSound`, `QAcks`, `NeverRequested`, `NoEarlyAck`, `TypeOK`.
* `TxPoolProofs`: `TypeOK`, `NoLostWakeup`, `CheckStillHolds` and
  `NothingVanishes`, for every size of the pool, of microblocks and of calls.
  `NoLostWakeup` needs the count behind it, `Announced`: the pool never holds
  more than `nums` transactions beyond the signals that were not acted on.
* `RateLimiterProofs`: `TypeOK` and `RateBound`, for every capacity, quantum, fill
  interval and set of callers. `RateBound` looks at what was handed out; the
  invariant adds what is left in the bucket (`Accounted`). It has a second case: a
  late `Available` moves `latestTick` back, which would let the same ticks be paid
  twice, were the bucket not full at that moment.
* `BenchmarkProofs`: `BenchTypeOK` and `ThrottleBound`, for every interval and
  credit. The invariant (`Scheduled`) ties the keys so far to `last + sleep`, the
  time at which the latest call was due: each call moves it by an interval at
  least, and to the present less the credit at least.
* `PicksProofs`: `PicksSucceed`, for every number of replicas, every `LoadedIndex` and
  every size of the sample. What is kept comes from the range drawn from, and the
  range has at least as many numbers as are wanted (`RangeIsEnough`); the rest is
  counting. The exception is part of the statement (`NobodyToPick`): with one
  replica, or with `LoadedIndex` of N - 1 or more, the range is empty and `Intn`
  panics, since `loadbalance` passes N - 1 for the number of replicas.

`Availability` is not inductive. What has to be added (`IInv`): an ack in
flight comes from a replica that holds the microblock and *is not counted yet*
(`Fresh`), so that counting it raises the number of distinct holders; the
counted replicas are holders, as many as the counter says (`Counts`); a sender
keeps what it built pending or stable until the acks are in (`OnlyMade`), which
needs that proposals contain stable microblocks only (`ProposalsStable`); and
the list in a Stable message, in flight or saved, has Q holders (`Sound`,
`Saved`). Every action changes one mempool, so lemma `Frame` carries all of
this over for the other replicas and the messages, and each action's lemma
argues about its own replica. TLC checked `IInv` as an invariant before.

Assumptions: nodes and hashes are finite sets, `Q > 1`, groups are sets of
nodes, the bucket's parameters and the limiter's interval are positive.
`~LoadBalance` is necessary: `dissemination_loadbalance_quorum` violates
`QAcks` with it.

The type invariants of AckMem, Dissemination, TxPool, RateLimiter and Benchmark, and
the exact counter of AckMem (`StableCount`), are proved and not repeated in a run.

Only model-checked: `Settles` and `PoolDrains` (liveness under fairness, out of
the prover's reach), everything about load balancing, HotStuff (its handlers
and its forest recurse over the chain, and what a recursion computes is not
provable here), and the parts other than the bucket, the benchmark and the
picks.

## 5. Not modelled

* `fasthostuff`, `tchs`, `lbft`, `streamlet`: `NewReplica` cannot select them
  (replica.go:190-197 are comments), and they no longer build with the present
  `blockchain` package, so there is no behaviour to be faithful to.
* The naive mempool, the key-value store, gossip: the lines that would create or
  start them are comments. The HTTP client and the servers' endpoints pass
  requests on.
* Byzantine strategies, which exist to measure, and signatures, which pass among
  correct replicas.
* UDP, `Close` and the counters of the sockets; key paths and proof operators of
  the Merkle package; the formatting of measurements.
* `GenerateMb` and `AddTxn` of AckMem as actions of `AckMem`: both end in
  `AddMicroblock`, which is one, and the batching is that of `TxnBatch`. The size
  limits of the mempool leave `GenerateMb` open in `TxPool`.
* With `Onlyworker`, a measuring mode that no configuration sets, `GeneratePayload`
  sleeps for ever with the mutex held (ackmem.go:348).
* Timestamps, delays, statistics and log lines are dropped everywhere except in
  the models that are about them. `AckInGroup` and `AckOutGroup` reach
  `Proposal.AckNode`, which nothing reads.
