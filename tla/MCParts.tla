------------------------------ MODULE MCParts ------------------------------
(***************************************************************************)
(* The parts of the system that share no state, for TLC: a behaviour is    *)
(* one of the part chosen at the start, and the other parts stay as they   *)
(* begin.  Every part has its own bounds, given where it is instantiated.  *)
(***************************************************************************)
EXTENDS RateLimiter, Benchmark, TLC

VARIABLES
  part,    \* the part that runs
  mode, late, chain, MaxBatch, frontier, committedBlocks, CommitedMb, ex, text, receivedMBs, net,
  MessageChan, TxChan, at, msg, isStarted, waiters, curView, newViewChan, mu, blocks,
  executor, expired,
  Delay, MaxFaults, job, nodes, conns, listening, panicked, fault, crash, timers, faults,
  delayed, recv, delivered, lost,
  counter, receiveNum, txLen, NumList, TPSList, TpsFromBeginList, DelayList, Time, ResultTime,
  ReceiveTxNumList, PoolTxNumList, todo, ticks, saved,
  nodeNum, groupNum, memberNum, myId, start_num, group, member, groupList, myGroup,
  pickFrom, LoadedIndex, threshold, call, picked, intnPanicked,
  items,
  txnList, currSize, mbpq, microblockMap, accepted, built, added, payload,
  hs, timer, fired, proposals, votes, tmos, proposedNo, proposed, rest

executorVars == <<mode, late, chain, MaxBatch, frontier, committedBlocks, CommitedMb, ex, text,
                  receivedMBs, net>>
loopVars == <<MessageChan, TxChan, at, msg, isStarted, waiters, curView, newViewChan, mu,
              blocks, executor, expired>>
socketVars == <<Delay, MaxFaults, job, nodes, conns, listening, panicked, fault, crash, timers,
                faults, delayed, recv, delivered, lost>>
monitorVars == <<counter, receiveNum, txLen, NumList, TPSList, TpsFromBeginList, DelayList, Time,
                 ResultTime, ReceiveTxNumList, PoolTxNumList, todo, ticks, saved>>
groupVars == <<nodeNum, groupNum, memberNum, myId, start_num, group, member, groupList, myGroup>>
pickVars == <<pickFrom, LoadedIndex, threshold, call, picked, intnPanicked>>
poolVars == <<txnList, currSize, mbpq, microblockMap, accepted, built, added, payload>>
timeoutVars == <<hs, timer, fired, proposals, votes, tmos, proposedNo, proposed, rest>>

\* Three replicas, microblocks of overlapping groups; the second block repeats a
\* microblock of the first.  Texts are in time, or late for two replicas; in sample
\* mode a late text is what the others are asked for.  Replicas that commit two
\* blocks at once number the microblocks differently from those that do not.
Blocks == << <<"a">>, <<"b", "a">>, <<"c">> >>
TwoBlocks == SubSeq(Blocks, 1, 2)
LateTexts == {<<"n2", "a">>, <<"n3", "b">>}
MCSetups == {
  <<"group", {}, Blocks, 1>>, <<"group", {}, TwoBlocks, 2>>, <<"group", LateTexts, TwoBlocks, 2>>,
  <<"plain", LateTexts, Blocks, 2>>, <<"sample", LateTexts, TwoBlocks, 1>> }
ThreeNodes == {"n1", "n2", "n3"}
Mbs == {"a", "b", "c"}
Samples == "a" :> {"n1", "n2"} @@ "b" :> {"n2", "n3"} @@ "c" :> {"n1", "n3"}
Executors == INSTANCE Executor WITH
  Node <- ThreeNodes, Mb <- Mbs, Member <- Samples, Q <- 2, Setups <- MCSetups

\* Two messages, one transaction and one timeout, and channels with room for one.
Loop == INSTANCE EventLoop WITH
  Capacity <- 1, BlockCapacity <- 1, ExCapacity <- 1, MaxMessages <- 2, MaxTxns <- 1,
  MaxViews <- 3, MaxTimeouts <- 1, pc <- at, fired <- expired

\* Two goroutines that send to a peer, channels with room for one message, one fault
\* or delays.
Sockets == INSTANCE Socket WITH
  Goroutines <- {"g1", "g2"}, Peers <- {"p"}, Nets <- {1, 2}, Self <- "self",
  NodeSets <- {{"p", "self"}}, ChanCap <- 1, MaxMessages <- 3, MaxTries <- 2,
  Setups <- {<<FALSE, 1>>, <<TRUE, 0>>}

\* Two ticks and two events of the rest of the replica at any moment.
Monitors == INSTANCE Monitor WITH
  Mbs <- {"mb"}, Durations <- {1}, MaxEvents <- 2, MaxTicks <- 2

\* Every configuration of up to six nodes and four groups.
GroupLists == INSTANCE Groups WITH
  MaxN <- 6, MaxGroups <- 4, N <- nodeNum, i <- group, j <- member

\* Every configuration of up to five replicas.
RandomPicks == INSTANCE Picks WITH
  MaxN <- 5, N <- pickFrom, panicked <- intnPanicked

\* Up to eight leaves, the least for a tree of three levels that is full.
Tree == INSTANCE Merkle WITH Item <- {"x", "y"}, MaxItems <- 8

\* Transactions below, at and above the size of a microblock, and microblocks of
\* other replicas with three timestamps.
TimedPool == INSTANCE TimeMem WITH
  SizeOf <- "a" :> 1 @@ "b" :> 3 @@ "c" :> 2 @@ "d" :> 5, msize <- 4, bsize <- 2, memsize <- 3,
  Others <- {<<"x">>, <<"y">>, <<"z">>}, Timestamps <- 1..3, MaxAdded <- 4,
  Proposals <- { << <<"x">> >>, << <<"y">>, <<"x">> >>, << <<"a", "b">>, <<"z">> >> }

\* Four replicas; the leader of view 4 falls behind those of the views 5 and 6, which
\* are entered by timeout certificates.
FourNodes == {"n1", "n2", "n3", "n4"}
Leaders == [v \in 1..8 |-> CASE v = 5 -> "n3" [] v = 6 -> "n2" [] OTHER -> "n4"]
Timeouts == INSTANCE MCHotStuffSchedule WITH
  n1 <- "n1", n2 <- "n2", n3 <- "n3", n4 <- "n4", Node <- FourNodes,
  LastNode <- "n4", Hashed <- Leaders, MaxView <- 6, MaxTimeouts <- 4

-----------------------------------------------------------------------------
Part == {"bucket", "benchmark", "executors", "loop", "socket", "monitor", "groups", "picks",
         "tree", "pool", "timeouts"}

PartsInit ==
  /\ part \in Part
  /\ Init
  /\ BenchInit /\ (part # "benchmark" => timed)
  /\ Executors!Init /\ (part # "executors" => mode = "plain")
  /\ Loop!Init /\ (part # "loop" => TxChan = 0)
  /\ Sockets!Init /\ (part # "socket" => ~Delay)
  /\ Monitors!Init
  /\ GroupLists!NewGroupManager
  /\ part # "groups" => <<nodeNum, groupNum, memberNum, myId>> = <<1, 1, 1, 1>>
  /\ RandomPicks!Init
  /\ part # "picks" => <<pickFrom, LoadedIndex, threshold, call>> = <<1, 0, 0, "sample">>
  /\ Tree!Init
  /\ TimedPool!Init
  /\ Timeouts!LateInit /\ (part # "timeouts" => rest = Timeouts!LateForOne)

\* All parts but p stay as they are.
Rest(p) ==
  /\ UNCHANGED part
  /\ IF p = "bucket" THEN TRUE ELSE UNCHANGED vars
  /\ IF p = "benchmark" THEN TRUE ELSE UNCHANGED benchVars
  /\ IF p = "executors" THEN TRUE ELSE UNCHANGED executorVars
  /\ IF p = "loop" THEN TRUE ELSE UNCHANGED loopVars
  /\ IF p = "socket" THEN TRUE ELSE UNCHANGED socketVars
  /\ IF p = "monitor" THEN TRUE ELSE UNCHANGED monitorVars
  /\ IF p = "groups" THEN TRUE ELSE UNCHANGED groupVars
  /\ IF p = "picks" THEN TRUE ELSE UNCHANGED pickVars
  /\ IF p = "tree" THEN TRUE ELSE UNCHANGED items
  /\ IF p = "pool" THEN TRUE ELSE UNCHANGED poolVars
  /\ IF p = "timeouts" THEN TRUE ELSE UNCHANGED timeoutVars

PartsNext ==
  \/ part = "bucket" /\ Next /\ Rest("bucket")
  \/ part = "benchmark" /\ BenchNext /\ Rest("benchmark")
  \/ part = "executors" /\ Executors!Next /\ Rest("executors")
  \/ part = "loop" /\ Loop!Next /\ Rest("loop")
  \/ part = "socket" /\ Sockets!Next /\ Rest("socket")
  \/ part = "monitor" /\ Monitors!Next /\ Rest("monitor")
  \/ part = "groups" /\ GroupLists!Next /\ Rest("groups")
  \/ part = "picks" /\ RandomPicks!Next /\ Rest("picks")
  \/ part = "tree" /\ Tree!Next /\ Rest("tree")
  \/ part = "pool" /\ TimedPool!Next /\ Rest("pool")
  \/ part = "timeouts" /\ Timeouts!LateNext /\ Rest("timeouts")

allVars ==
  <<part, vars, benchVars, executorVars, loopVars, socketVars, monitorVars,
    groupVars, pickVars, items, poolVars, timeoutVars>>

PartsSpec == PartsInit /\ [][PartsNext]_allVars

-----------------------------------------------------------------------------
(* What the part that runs promises.  RateBound is that of RateLimiter,    *)
(* ThrottleBound that of Benchmark.                                        *)

\* executedTxsTotal of execute.go counts every committed microblock once.
CountedOnce == part = "executors" => Executors!CountedOnce

\* Nobody counts a microblock that no replica has executed.
ResultsBacked == part = "executors" => Executors!ResultsBacked

\* With all texts in time a chain is executed to its end everywhere.
QuietMeansExecuted == part = "executors" => Executors!QuietMeansExecuted

\* The goroutines of a replica stop with messages left for three reasons only.
StuckCauses == part = "loop" => Loop!StuckCauses

\* No fault and no race of two dials duplicates a message or revives a lost one, and
\* over one connection the messages of a goroutine keep their order.
OnceInOrder == part = "socket" => Sockets!OnceInOrder

\* Without faults every message that was sent is received.
QuietMeansArrived == part = "socket" => Sockets!QuietMeansArrived

\* The rates that the monitor appends at a tick add up to the number collected.
RatesAddUp == part = "monitor" => Monitors!RatesAddUp

\* initGroup deals the nodes to the groups in turn, and a node takes itself to be in
\* a group when the others do.
DealtInTurn == part = "groups" => GroupLists!DealtInTurn

\* RandomPick, pickRandomNodes and the samples give different, existing replicas,
\* and their loops run out of numbers to draw only where there is nobody to pick.
PicksSucceed == part = "picks" => RandomPicks!PicksSucceed

\* The two computations of the root of crypto/merkle agree, and a proof verifies
\* against it for its own item and position only.
ProofsVerify == part = "tree" => Tree!ProofsVerify

\* AddTxn loses no transaction and builds no microblock above msize.
BatchesFit == part = "pool" => TimedPool!BatchesFit

\* The priority queue's indexes are right and what it holds can be found for others.
QueueConsistent == part = "pool" => TimedPool!QueueConsistent

\* GeneratePayload takes the earliest timestamps in order.
EarliestFirst == TimedPool!EarliestFirst

\* A leader proposes once for a view, also when timers, TCs and QCs race and it is
\* views behind.
OneProposalPerView == part = "timeouts" => Timeouts!OneBlockPerView

\* A block that has a QC extends an earlier view, whatever a leader that is behind
\* proposes and some replicas vote for.
QCsDescend == part = "timeouts" => Timeouts!QCsDescend
=============================================================================
