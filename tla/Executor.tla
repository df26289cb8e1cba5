------------------------------ MODULE Executor ------------------------------
(***************************************************************************)
(* The executors of the replicas (package execute): committed microblocks  *)
(* are numbered, queued and executed in turn, by all replicas ("plain"),   *)
(* by the group of the microblock ("group") or by the sample of replicas   *)
(* that holds its text ("sample"); the others take the result from Q of    *)
(* them.  HandleMB is one goroutine, and its three handlers hold e.lock.   *)
(*                                                                         *)
(* Consensus commits the same chain everywhere, in batches: CommitBlock    *)
(* returns the new blocks newest first.  processCommittedBlock and         *)
(* AddMbToExecute are joined by the channel MbReceive, and nothing another *)
(* replica sees happens between them, so they are one step.                *)
(***************************************************************************)
EXTENDS Integers, FiniteSets, FiniteSetsExt, SequencesExt

CONSTANTS
  Node,       \* the replicas
  Mb,         \* the microblocks
  Member,     \* Member[mb]: the group, or the sample, of mb
  Q,          \* config.Q
  Setups      \* the <<mode, late, chain, MaxBatch>> checked

VARIABLES
  mode,            \* BroadcastByGroup, BroadcastBySample or neither
  late,            \* the pairs <<n, mb>> of a member n that gets the text late
  chain,           \* the committed blocks, each the sequence of its microblocks
  MaxBatch,        \* bound: how many blocks are committed at once
  frontier,        \* frontier[n]: how many blocks consensus has committed
  committedBlocks, \* committedBlocks[n]: the channel of committed blocks
  CommitedMb,      \* CommitedMb[n]: the committed microblocks, in the order of their numbers
  ex,              \* ex[n]: the executor
  text,            \* text[n]: the microblocks that the mempool of n holds in full
  receivedMBs,     \* receivedMBs[n]: the microblocks HandleMicroblock has seen
  net              \* results, requests and replies in flight

setup == <<mode, late, chain, MaxBatch>>
vars == <<setup, frontier, committedBlocks, CommitedMb, ex, text, receivedMBs, net>>

Number == 1..Cardinality(Mb)

NewExecutor ==
  [mbs |-> <<>>,                      \* mbPending.mbs
   done |-> [i \in Number |-> {}],    \* mbPending.done
   total |-> [b \in Mb |-> 0],        \* executedTxsTotal, by microblock
   ran |-> {},                        \* history: what it executed itself
   out |-> {}]                        \* what the handler sends

Init ==
  /\ \E s \in Setups : mode = s[1] /\ late = s[2] /\ chain = s[3] /\ MaxBatch = s[4]
  /\ frontier = [n \in Node |-> 0]
  /\ committedBlocks = [n \in Node |-> <<>>]
  /\ CommitedMb = [n \in Node |-> <<>>]
  /\ ex = [n \in Node |-> NewExecutor]
  /\ text = [n \in Node |-> {b \in Mb : n \in Member[b] /\ <<n, b>> \notin late}]
  /\ receivedMBs = text
  /\ net = {}

-----------------------------------------------------------------------------
Count(x, bs) == [x EXCEPT !.total = [b \in Mb |-> IF b \in bs THEN @[b] + 1 ELSE @[b]]]

Execute(x, bs) == [Count(x, bs) EXCEPT !.ran = @ \cup bs]

\* updateState for the first k of the queue, which leave it.
updateState(x, k) ==
  [Count(x, {x.mbs[i].mb : i \in 1..k}) EXCEPT !.mbs = SubSeq(@, k + 1, Len(@))]

\* stateBroadcastByGroup and stateBroadcastBySample: who gets the result of the
\* i-th of the queue.
stateBroadcast(x, n, i) ==
  (IF i = Len(x.mbs) THEN Node ELSE x.mbs[i + 1].nodes \ x.mbs[i].nodes) \ {n}

generateExecuteResult(x, n, i) ==
  {[type |-> "result", to |-> m, from |-> n, No |-> x.mbs[i].No] : m \in stateBroadcast(x, n, i)}

\* The replica is stopped by the i-th of the queue: what it needs is missing, or
\* another group executes it.
Stops(x, n, i) ==
  LET e == x.mbs[i]
  IN  CASE mode = "group" -> n \notin e.nodes \/ e.fake
        [] mode = "sample" -> n \in e.nodes /\ e.fake
        [] OTHER -> e.fake

\* How many of the queue ExecuteThread looks at.
Reached(x, n) ==
  LET stops == {i \in DOMAIN x.mbs : Stops(x, n, i)}
  IN  IF stops = {} THEN Len(x.mbs) ELSE Min(stops) - 1

\* In sample mode the requests go to the replicas that hold the text; in group
\* mode the list of receivers is empty.
requests(x, n) ==
  LET k == Reached(x, n) + 1
  IN  IF mode # "sample" \/ k > Len(x.mbs) THEN {}
      ELSE {[type |-> "request", to |-> m, from |-> n, mb |-> x.mbs[k].mb]
              : m \in x.mbs[k].nodes \ {n}}

\* Mutant of ExecuteThread: what was executed stays in the queue.
ExecuteThreadKept(x, n) ==
  [Execute(x, {x.mbs[i].mb : i \in {j \in 1..Reached(x, n) : ~x.mbs[j].fake}})
     EXCEPT !.out = requests(x, n)]

\* Mutant of ExecuteThread: the results are sent to nobody.
ExecuteThreadSilent(x, n) ==
  LET run == {i \in 1..Reached(x, n) : ~x.mbs[i].fake}
  IN  [Execute(x, {x.mbs[i].mb : i \in run})
         EXCEPT !.mbs = SubSeq(@, Cardinality(run) + 1, Len(@))]

\* As many microblocks leave the queue as were executed.
ExecuteThread(x, n) ==
  LET run == {i \in 1..Reached(x, n) : ~x.mbs[i].fake}
  IN  [Execute(x, {x.mbs[i].mb : i \in run})
         EXCEPT !.mbs = SubSeq(@, Cardinality(run) + 1, Len(@)),
                !.out = requests(x, n) \cup
                        IF mode = "plain" THEN {}
                        ELSE UNION {generateExecuteResult(x, n, i) : i \in run}]

CheckResult(x, e) == e.No # 0 /\ Cardinality(x.done[e.No]) >= Q

AddMbToExecute(x, n, new) ==
  LET y == [x EXCEPT !.mbs = @ \o new]
      ready == {i \in DOMAIN y.mbs : CheckResult(y, y.mbs[i])}
  IN  ExecuteThread(IF mode = "group" /\ ready # {} THEN updateState(y, Max(ready)) ELSE y, n)

mbReady(x, n, No) ==
  LET at == {i \in DOMAIN x.mbs : x.mbs[i].No = No}
  IN  ExecuteThread(IF at # {} THEN updateState(x, Max(at)) ELSE x, n)

\* Mutant of HandleResult: a result also stands for the microblock after it.
HandleResultNext(x, n, r) ==
  LET y == [x EXCEPT !.done = [i \in Number |-> IF i <= r.No + 1 THEN @[i] \cup {r.from} ELSE @[i]]]
      high == {i \in 1..r.No : Cardinality(y.done[i]) >= Q}
  IN  IF high # {} THEN mbReady(y, n, Max(high)) ELSE y

\* A result stands for all the microblocks up to its number.
HandleResult(x, n, r) ==
  LET y == [x EXCEPT !.done = [i \in Number |-> IF i <= r.No THEN @[i] \cup {r.from} ELSE @[i]]]
      high == {i \in 1..r.No : Cardinality(y.done[i]) >= Q}
  IN  IF high # {} THEN mbReady(y, n, Max(high)) ELSE y

\* The entry of the queue is overwritten with the copy that came, its number
\* included.
HandleMiss(x, n, r) ==
  LET hit == {i \in DOMAIN x.mbs : x.mbs[i].mb = r.mb /\ x.mbs[i].fake}
      y == [x EXCEPT !.mbs = [i \in DOMAIN @ |->
              IF i \in hit THEN [@[i] EXCEPT !.No = r.No, !.nodes = r.nodes] ELSE @[i]]]
  IN  IF hit # {} THEN ExecuteThread(y, n) ELSE x

-----------------------------------------------------------------------------
\* Executor n goes to x, the messages ms are gone.
Run(n, x, ms) ==
  /\ ex' = [ex EXCEPT ![n] = [x EXCEPT !.out = {}]]
  /\ net' = (net \ ms) \cup x.out

\* processCertificate sends the blocks up to the k-th, newest first.  It may do
\* so before the last ones are processed, which makes no difference to anybody.
Commit(n, k) ==
  /\ k - frontier[n] \in 1..MaxBatch /\ k <= Len(chain) /\ committedBlocks[n] = <<>>
  /\ frontier' = [frontier EXCEPT ![n] = k]
  /\ committedBlocks' = [committedBlocks EXCEPT
       ![n] = @ \o Reverse([i \in 1..(k - frontier[n]) |-> chain[frontier[n] + i]])]
  /\ UNCHANGED <<setup, CommitedMb, ex, text, receivedMBs, net>>

\* The block was filled when its proposal arrived, perhaps before the text came.
Fakes(n, b) ==
  IF b \notin text[n] THEN {TRUE} ELSE IF <<n, b>> \in late THEN BOOLEAN ELSE {FALSE}

\* FetchMB does not know the sample of the placeholder it makes; a placeholder
\* that a Stable message made has it.
Lists(b, fake) == IF mode = "sample" /\ fake THEN {Member[b], {}} ELSE {Member[b]}

\* The i-th committed microblock as it may be in the queue.
Entries(n, b, i) ==
  UNION {{[mb |-> b, No |-> i, fake |-> f, nodes |-> l] : l \in Lists(b, f)} : f \in Fakes(n, b)}

processCommittedBlock(n) ==
  /\ committedBlocks[n] # <<>>
  /\ LET new == SelectSeq(Head(committedBlocks[n]), LAMBDA b : b \notin ToSet(CommitedMb[n]))
         E(i) == Entries(n, new[i], Len(CommitedMb[n]) + i)
     IN  \E deliver \in [DOMAIN new -> UNION {E(i) : i \in DOMAIN new}] :
           /\ \A i \in DOMAIN new : deliver[i] \in E(i)
           /\ Run(n, AddMbToExecute(ex[n], n, deliver), {})
           /\ CommitedMb' = [CommitedMb EXCEPT ![n] = @ \o new]
  /\ committedBlocks' = [committedBlocks EXCEPT ![n] = Tail(@)]
  /\ UNCHANGED <<setup, frontier, text, receivedMBs>>

\* Replica.handleResult and HandleMB.
ReceiveResult(r) ==
  /\ r.type = "result"
  /\ Run(r.to, HandleResult(ex[r.to], r.to, r), {r})
  /\ UNCHANGED <<setup, frontier, committedBlocks, CommitedMb, text, receivedMBs>>

\* The text of a microblock arrives after its proposal; the queue keeps the
\* placeholder.
HandleMicroblock(n, b) ==
  /\ <<n, b>> \in late /\ b \notin receivedMBs[n]
  /\ text' = [text EXCEPT ![n] = @ \cup {b}]
  /\ receivedMBs' = [receivedMBs EXCEPT ![n] = @ \cup {b}]
  /\ UNCHANGED <<setup, frontier, committedBlocks, CommitedMb, ex, net>>

\* FindMicroblock finds placeholders only: the reply is one, with the number it
\* has in the receiver's queue, or none.
HandleMissingStableMb(r) ==
  /\ r.type = "request"
  /\ IF r.mb \in text[r.to] THEN net' = net \ {r}
     ELSE \E No \in {0} \cup {i \in DOMAIN CommitedMb[r.to] : CommitedMb[r.to][i] = r.mb},
             nodes \in {{}, Member[r.mb]} :
            net' = (net \ {r}) \cup
              {[type |-> "reply", to |-> r.from, mb |-> r.mb, No |-> No, nodes |-> nodes]}
  /\ UNCHANGED <<setup, frontier, committedBlocks, CommitedMb, ex, text, receivedMBs>>

\* HandleMicroblock for a requested microblock, and HandleMB.
MissReceive(r) ==
  /\ r.type = "reply"
  /\ IF r.mb \in receivedMBs[r.to] THEN net' = net \ {r} /\ UNCHANGED <<ex, receivedMBs>>
     ELSE /\ receivedMBs' = [receivedMBs EXCEPT ![r.to] = @ \cup {r.mb}]
          /\ Run(r.to, HandleMiss(ex[r.to], r.to, r), {r})
  /\ UNCHANGED <<setup, frontier, committedBlocks, CommitedMb, text>>

Next ==
  \/ \E n \in Node : \/ \E k \in 1..Len(chain) : Commit(n, k)
                     \/ processCommittedBlock(n)
                     \/ \E b \in Mb : HandleMicroblock(n, b)
  \/ \E r \in net : ReceiveResult(r) \/ HandleMissingStableMb(r) \/ MissReceive(r)

Spec == Init /\ [][Next]_vars

-----------------------------------------------------------------------------
\* executedTxsTotal counts each committed transaction once: a microblock that a
\* replica has committed waits in its queue or has been counted, and not both,
\* whatever results and late texts do to the queue.  In sample mode it is not so:
\* ExecuteThread passes over placeholders and then takes as many entries off the
\* front as it executed, which are others.
CountedOnce ==
  mode # "sample" => \A n \in Node : \A b \in Mb :
    ex[n].total[b] + Cardinality({i \in DOMAIN ex[n].mbs : ex[n].mbs[i].mb = b})
      = IF b \in ToSet(CommitedMb[n]) THEN 1 ELSE 0

\* The replicas have numbered the microblocks alike, as far as they have come.  They
\* do not when they commit the same blocks in different batches.
NumberedAlike ==
  \A n, m \in Node :
    IsPrefix(CommitedMb[n], CommitedMb[m]) \/ IsPrefix(CommitedMb[m], CommitedMb[n])

\* Whoever counts as having done the i-th microblock has executed the one it calls
\* the i-th, or a later one.  What updateState takes over was executed: when a
\* replica counts a microblock that it did not execute, another replica has executed
\* that one, as long as both mean the same microblock by its number.
ResultsBacked ==
  \A n \in Node :
    /\ \A i \in Number : \A m \in ex[n].done[i] :
         \E j \in DOMAIN CommitedMb[m] : j >= i /\ CommitedMb[m][j] \in ex[m].ran
    /\ NumberedAlike =>
         \A b \in Mb : ex[n].total[b] > 0 /\ b \notin ex[n].ran =>
           \E m \in Node \ {n} : b \in ex[m].ran

\* Nothing is under way any more.
Quiet ==
  /\ net = {}
  /\ \A n \in Node : frontier[n] = Len(chain) /\ committedBlocks[n] = <<>>

\* In group mode, with all texts in time, every replica in the end has counted
\* every microblock of the chain, though the results are sent only to the replicas
\* that are thought to need them, provided the replicas number alike.  (Every step
\* uses up a block or a message.)
QuietMeansExecuted ==
  Quiet /\ mode = "group" /\ late = {} /\ NumberedAlike =>
    \A n \in Node : \A b \in UNION {ToSet(chain[i]) : i \in DOMAIN chain} : ex[n].total[b] > 0
=============================================================================
