----------------------------- MODULE EventLoop -----------------------------
(***************************************************************************)
(* The goroutines of one replica and the channels between them: handle     *)
(* and txn of the node, which call the message handlers, Start, which      *)
(* waits for the start signal and then processes events one by one,        *)
(* ListenLocalEvent, ListenCommittedBlocks and HandleMB of the executor.   *)
(* start and eventChan have no buffer, the other channels have one.        *)
(* AdvanceView sends to newViewChan while it holds the lock of the         *)
(* pacemaker.  The runtime serves the senders that wait on a channel in    *)
(* their order.                                                            *)
(*                                                                         *)
(* Messages are "block" (a proposal, which ends in an event), "mb" (a      *)
(* microblock, which may kick off the protocol), "vote" (a vote or a TMO)  *)
(* and "result".  The consensus part of an event enters any number of      *)
(* views, one for each certificate it processes and for a buffered block's *)
(* in turn, and each of them may commit blocks.                            *)
(***************************************************************************)
EXTENDS Integers, Sequences

CONSTANTS
  Capacity,      \* the buffer of newViewChan
  BlockCapacity, \* the buffers of committedBlocks and forkedBlocks
  ExCapacity,    \* the buffers of MbReceive, MissReceive and ReceiveResult
  MaxMessages,   \* bound: messages for the replica
  MaxTxns,       \* bound: client transactions for the replica
  MaxViews,      \* bound: views entered
  MaxTimeouts    \* bound: how often the timer fires

VARIABLES
  MessageChan,   \* the number of messages still to be handled
  TxChan,        \* the number of transactions still to be handled
  pc,            \* pc[g]: where goroutine g is
  msg,           \* the message that handle works on
  isStarted,
  waiters,       \* the goroutines that wait to send on eventChan, in their order
  curView, newViewChan,
  mu,            \* the goroutine that holds the lock of the pacemaker and waits, or None
  blocks,        \* the number of blocks in committedBlocks and forkedBlocks
  executor,      \* the number of items in the channels of the executor
  fired          \* how often the timer has fired

handlers == <<MessageChan, TxChan, msg, isStarted>>
pacemaker == <<curView, newViewChan, mu>>
vars == <<handlers, pc, waiters, pacemaker, blocks, executor, fired>>

Goroutine == {"handle", "txn", "start", "listen", "commit"}
None == "none"
Kind == {"block", "mb", "vote", "result"}

Init ==
  /\ MessageChan = MaxMessages /\ TxChan \in 0..MaxTxns
  /\ pc = [handle |-> "idle", txn |-> "idle", start |-> "wait", listen |-> "off",
           commit |-> "off"]
  /\ msg = "mb"
  /\ isStarted = FALSE
  /\ waiters = <<>>
  /\ curView = 0 /\ newViewChan = 0 /\ mu = None
  /\ blocks = 0 /\ executor = 0
  /\ fired = 0

-----------------------------------------------------------------------------
Goto(g, l) == pc' = [pc EXCEPT ![g] = l]

\* AdvanceView of goroutine g, at l afterwards: without room it waits, and
\* keeps the lock.
AdvanceView(g, l) ==
  \/ /\ mu = None /\ newViewChan < Capacity /\ curView < MaxViews
     /\ newViewChan' = newViewChan + 1 /\ curView' = curView + 1
     /\ Goto(g, l) /\ UNCHANGED mu
  \/ /\ mu = None /\ newViewChan >= Capacity /\ curView < MaxViews
     /\ mu' = g /\ curView' = curView + 1 /\ UNCHANGED <<pc, newViewChan>>
  \/ /\ mu = g /\ newViewChan < Capacity
     /\ newViewChan' = newViewChan + 1 /\ mu' = None
     /\ Goto(g, l) /\ UNCHANGED curView

\* A send to the executor.
ToExecutor == executor < ExCapacity /\ executor' = executor + 1

-----------------------------------------------------------------------------
\* handle and txn of the node take a message and call its handler.
Handle ==
  /\ pc["handle"] = "idle" /\ MessageChan > 0
  /\ MessageChan' = MessageChan - 1
  /\ msg' \in Kind
  /\ Goto("handle", IF msg' \in {"vote", "result"} THEN "event" ELSE "signal")
  /\ UNCHANGED <<TxChan, isStarted, waiters, pacemaker, blocks, executor, fired>>

handleTxn ==
  /\ pc["txn"] = "idle" /\ TxChan > 0
  /\ TxChan' = TxChan - 1
  /\ Goto("txn", "signal")
  /\ UNCHANGED <<MessageChan, msg, isStarted, waiters, pacemaker, blocks, executor, fired>>

\* What may follow the start signal in the handler of goroutine g.  A microblock that
\* is forwarded or was seen before ends there, one that was requested goes to the
\* executor.
AfterSignal(g) ==
  IF g = "txn" THEN {"kick"}
  ELSE IF msg = "block" THEN {"event"} ELSE {"kick", "miss", "idle"}

\* startSignal looks at isStarted, sets it, and sends.
startSignal(g) ==
  /\ pc[g] = "signal"
  /\ \E l \in IF isStarted THEN AfterSignal(g) ELSE {"store"} : Goto(g, l)
  /\ UNCHANGED <<handlers, waiters, pacemaker, blocks, executor, fired>>

StoreStarted(g) ==
  /\ pc[g] = "store"
  /\ isStarted' = TRUE
  /\ Goto(g, "send")
  /\ UNCHANGED <<MessageChan, TxChan, msg, waiters, pacemaker, blocks, executor, fired>>

\* Start takes the signal and starts ListenLocalEvent and ListenCommittedBlocks.
SendStart(g) ==
  /\ pc[g] = "send" /\ pc["start"] = "wait"
  /\ \E l \in AfterSignal(g) :
       pc' = [pc EXCEPT ![g] = l, !["start"] = "loop", !["listen"] = "select",
                        !["commit"] = "select"]
  /\ UNCHANGED <<handlers, waiters, pacemaker, blocks, executor, fired>>

\* HandleMicroblock for a requested microblock.
SendMiss ==
  /\ pc["handle"] = "miss" /\ ToExecutor
  /\ Goto("handle", "kick")
  /\ UNCHANGED <<handlers, waiters, pacemaker, blocks, fired>>

\* kickOff, on the leader of view 1; another replica does nothing.
kickOff(g) ==
  /\ pc[g] = "kick" /\ mu = None
  /\ \/ curView = 0 /\ Goto(g, "advance")
     \/ Goto(g, "idle")
  /\ UNCHANGED <<handlers, waiters, pacemaker, blocks, executor, fired>>

\* AdvanceView(0) of kickOff.
KickOffAdvance(g) ==
  /\ pc[g] = "advance"
  /\ \/ (curView = 0 \/ mu = g) /\ AdvanceView(g, "idle")
     \/ curView > 0 /\ mu = None /\ Goto(g, "idle") /\ UNCHANGED pacemaker
  /\ UNCHANGED <<handlers, waiters, blocks, executor, fired>>

\* The handler sends its event; a vote is compared with the current view first.
SendEvent ==
  /\ pc["handle"] = "event"
  /\ msg = "vote" => mu = None
  /\ \/ Goto("handle", "sending") /\ waiters' = Append(waiters, "handle")
     \/ msg = "vote" /\ Goto("handle", "idle") /\ UNCHANGED waiters
  /\ UNCHANGED <<handlers, pacemaker, blocks, executor, fired>>

-----------------------------------------------------------------------------
\* Start takes the next event.
ReceiveEvent ==
  /\ pc["start"] = "loop" /\ waiters # <<>>
  /\ pc' = IF Head(waiters) = "listen"
           THEN [pc EXCEPT !["start"] = "process", !["listen"] = "select"]
           ELSE [pc EXCEPT !["start"] = IF msg \in {"block", "result"} THEN msg ELSE "process",
                           !["handle"] = "idle"]
  /\ waiters' = Tail(waiters)
  /\ UNCHANGED <<handlers, pacemaker, blocks, executor, fired>>

\* processCertificate and processTC of goroutine g: the next view is entered, and
\* committed and forked blocks are sent, each when there is room.
ProcessCertificate(g) ==
  \/ pc[g] = "process" /\ AdvanceView(g, "commit") /\ UNCHANGED blocks
  \/ /\ pc[g] = "commit" /\ blocks < BlockCapacity
     /\ blocks' = blocks + 1 /\ UNCHANGED <<pc, pacemaker>>
  \/ pc[g] = "commit" /\ Goto(g, "process") /\ UNCHANGED <<pacemaker, blocks>>

\* Mutant of ProcessEvent: Start ends with an event that enters no view.
ProcessEventEnds ==
  /\ \/ ProcessCertificate("start") /\ UNCHANGED executor
     \/ /\ pc["start"] = "block" /\ mu = None /\ Goto("start", "process")
        /\ UNCHANGED <<pacemaker, blocks, executor>>
     \/ /\ pc["start"] = "process" /\ Goto("start", IF curView = 0 THEN "ended" ELSE "loop")
        /\ UNCHANGED <<pacemaker, blocks, executor>>
     \/ /\ pc["start"] = "result" /\ ToExecutor /\ Goto("start", "loop")
        /\ UNCHANGED <<pacemaker, blocks>>
  /\ UNCHANGED <<handlers, waiters, fired>>

\* Start processes the event: ProcessBlock asks for the current view first, and a
\* result goes to the executor.
ProcessEvent ==
  /\ \/ ProcessCertificate("start") /\ UNCHANGED executor
     \/ /\ pc["start"] = "block" /\ mu = None /\ Goto("start", "process")
        /\ UNCHANGED <<pacemaker, blocks, executor>>
     \/ /\ pc["start"] = "process" /\ Goto("start", "loop")
        /\ UNCHANGED <<pacemaker, blocks, executor>>
     \/ /\ pc["start"] = "result" /\ ToExecutor /\ Goto("start", "loop")
        /\ UNCHANGED <<pacemaker, blocks>>
  /\ UNCHANGED <<handlers, waiters, fired>>

\* ListenLocalEvent hands an entered view to Start.
EnteringViewEvent ==
  /\ pc["listen"] = "select" /\ newViewChan > 0
  /\ newViewChan' = newViewChan - 1
  /\ Goto("listen", "sending") /\ waiters' = Append(waiters, "listen")
  /\ UNCHANGED <<handlers, curView, mu, blocks, executor, fired>>

TimerFires ==
  /\ pc["listen"] = "select" /\ fired < MaxTimeouts
  /\ fired' = fired + 1
  /\ Goto("listen", "process")
  /\ UNCHANGED <<handlers, waiters, pacemaker, blocks, executor>>

\* ProcessLocalTmo: the view may have been left in the meantime.
ProcessLocalTmo ==
  /\ \/ ProcessCertificate("listen")
     \/ /\ pc["listen"] = "process" /\ mu = None
        /\ Goto("listen", "select") /\ UNCHANGED <<pacemaker, blocks>>
  /\ UNCHANGED <<handlers, waiters, executor, fired>>

\* ListenCommittedBlocks takes a committed or a forked block; processForkedBlock does
\* nothing.
ListenCommittedBlocks ==
  /\ pc["commit"] = "select" /\ blocks > 0
  /\ blocks' = blocks - 1
  /\ Goto("commit", "deliver") \/ UNCHANGED pc
  /\ UNCHANGED <<handlers, waiters, pacemaker, executor, fired>>

\* processCommittedBlock looks at the current view and sends to MbReceive.
processCommittedBlock ==
  /\ pc["commit"] = "deliver" /\ mu = None /\ ToExecutor
  /\ Goto("commit", "select")
  /\ UNCHANGED <<handlers, waiters, pacemaker, blocks, fired>>

\* HandleMB, which waits for nothing in the replica.
HandleMB ==
  /\ executor > 0
  /\ executor' = executor - 1
  /\ UNCHANGED <<handlers, pc, waiters, pacemaker, blocks, fired>>

Work ==
  \/ Handle \/ handleTxn \/ SendMiss \/ SendEvent \/ ReceiveEvent \/ ProcessEvent
  \/ EnteringViewEvent \/ ProcessLocalTmo
  \/ ListenCommittedBlocks \/ processCommittedBlock \/ HandleMB
  \/ \E g \in {"handle", "txn"} :
       startSignal(g) \/ StoreStarted(g) \/ SendStart(g) \/ kickOff(g) \/ KickOffAdvance(g)

Next == Work \/ TimerFires

Spec == Init /\ [][Next]_vars

-----------------------------------------------------------------------------
\* The replica gets stuck before its messages are handled in three ways only: a vote,
\* a TMO or a result came before the start signal and keeps handle from any message
\* that would send it, two goroutines found isStarted unset and the second waits for
\* Start to take another signal, or AdvanceView waits for room with the lock that
\* the others need.  Full channels of blocks and of the executor are no fourth.
StuckCauses ==
  ~(ENABLED Work) /\ ~(MessageChan = 0 /\ pc["handle"] = "idle") =>
    \/ pc["start"] = "wait" /\ pc["handle"] = "sending" /\ msg \in {"vote", "result"}
    \/ pc["start"] # "wait" /\ pc["handle"] = "send"
    \/ mu # None
=============================================================================
