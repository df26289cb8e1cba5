------------------------------ MODULE Monitor ------------------------------
(***************************************************************************)
(* The MonitorManager of monitor/monitor.go and the goroutine startMonitor *)
(* of replica/replica.go that feeds it: at every tick collectData makes    *)
(* fourteen calls, each with the lock mu, while the counters it reads go   *)
(* on and other goroutines record the delays of microblocks.               *)
(*                                                                         *)
(* Time is counted in intervals, so a rate is a difference of numbers and  *)
(* a rate from the beginning is a number over the intervals since.  A mean *)
(* is <<sum, number>>.                                                     *)
(***************************************************************************)
EXTENDS Integers, Sequences, SequencesExt

CONSTANTS
    Mbs,        \* microblocks
    Durations,  \* the delays that are recorded
    MaxEvents,  \* bound on what the rest of the replica does
    MaxTicks    \* Duration / Interval, the ticks of a run

Kinds == {"Stable", "Committed", "Executed"}

VARIABLES
    counter,     \* TotalStableMb, getTotalCommittedBlock, TotalNum
    receiveNum,  \* Pool.ReceiveNum
    txLen,       \* Pool.TxLen
    NumList, TPSList, TpsFromBeginList, DelayList, \* for each kind
    Time,        \* for each kind, the delay of each microblock recorded
    ResultTime,  \* for each microblock, the delays of its results
    ReceiveTxNumList, PoolTxNumList,
    todo,        \* the calls collectData has still to make
    ticks,       \* ticks so far
    saved        \* SaveResult was called

lists == <<NumList, TPSList, TpsFromBeginList, DelayList, ReceiveTxNumList, PoolTxNumList>>
times == <<Time, ResultTime>>
counters == <<counter, receiveNum, txLen>>
control == <<ticks, saved>>
vars == <<lists, times, counters, control, todo>>

Init ==
    /\ counter = [k \in Kinds |-> 0] /\ receiveNum = 0 /\ txLen = 0
    /\ NumList = [k \in Kinds |-> <<>>]
    /\ TPSList = [k \in Kinds |-> <<>>]
    /\ TpsFromBeginList = [k \in Kinds |-> <<>>]
    /\ DelayList = [k \in Kinds |-> <<>>]
    /\ Time = [k \in Kinds |-> <<>>]
    /\ ResultTime = <<>>
    /\ ReceiveTxNumList = <<>> /\ PoolTxNumList = <<>>
    /\ todo = <<>> /\ ticks = 0 /\ saved = FALSE

-----------------------------------------------------------------------------
(* The rest of the replica.                                                *)

SumOver(f, S) == FoldSet(LAMBDA x, sum : sum + f[x], 0, S)

\* What was counted, received and recorded so far.
Events ==
    SumOver(counter, Kinds) + receiveNum + Cardinality(DOMAIN ResultTime)
        + SumOver([k \in Kinds |-> Cardinality(DOMAIN Time[k])], Kinds)

Count(k) ==
    /\ Events < MaxEvents
    /\ counter' = [counter EXCEPT ![k] = @ + 1]
    /\ UNCHANGED <<receiveNum, txLen, lists, times, control, todo>>

\* A transaction arrives, or the pool hands one out.
Receive ==
    /\ Events < MaxEvents
    /\ receiveNum' = receiveNum + 1 /\ txLen' = txLen + 1
    /\ UNCHANGED <<counter, lists, times, control, todo>>

HandOut ==
    /\ txLen > 0
    /\ txLen' = txLen - 1
    /\ UNCHANGED <<counter, receiveNum, lists, times, control, todo>>

With(table, mb, d) ==
    [x \in DOMAIN table \cup {mb} |-> IF x = mb THEN d ELSE table[x]]

\* CollectStableTime, CollectCommitteddTime, CollectExecuteTime.
CollectTime(k, mbHash, duration) ==
    /\ Events < MaxEvents
    /\ Time' = [Time EXCEPT ![k] = With(@, mbHash, duration)]
    /\ UNCHANGED <<counters, lists, ResultTime, control, todo>>

\* Bounded to two results for a microblock.
CollectResultTime(mbHash, duration) ==
    LET list == IF mbHash \in DOMAIN ResultTime THEN ResultTime[mbHash] ELSE <<>>
    IN  /\ Events < MaxEvents /\ Len(list) < 2
        /\ ResultTime' = With(ResultTime, mbHash, Append(list, duration))
        /\ UNCHANGED <<counters, lists, Time, control, todo>>

-----------------------------------------------------------------------------
(* collectData.                                                            *)

Calls ==
    <<<<"Num", "Stable">>, <<"Num", "Committed">>, <<"Num", "Executed">>,
      <<"ReceiveTxNum", "">>, <<"PoolTxNum", "">>,
      <<"TPS", "Stable">>, <<"TPSFromBegin", "Stable">>, <<"Delay", "Stable">>,
      <<"TPS", "Committed">>, <<"TPSFromBegin", "Committed">>, <<"Delay", "Committed">>,
      <<"TPS", "Executed">>, <<"TPSFromBegin", "Executed">>, <<"Delay", "Executed">>>>

\* ticker.C, before endTime.
Tick ==
    /\ todo = <<>> /\ ticks < MaxTicks
    /\ todo' = Calls
    /\ ticks' = ticks + 1
    /\ UNCHANGED <<lists, times, counters, saved>>

CollectNum(k) ==
    /\ NumList' = [NumList EXCEPT ![k] = Append(@, counter[k])]
    /\ UNCHANGED <<TPSList, TpsFromBeginList, DelayList, ReceiveTxNumList, PoolTxNumList>>

\* When the array of ReceiveTxNumList has room, the last entry of PoolTxNumList is in
\* it, and is overwritten.
CollectReceiveTxNum ==
    /\ ReceiveTxNumList' = Append(ReceiveTxNumList, receiveNum)
    /\ \/ UNCHANGED PoolTxNumList
       \/ PoolTxNumList # <<>> /\ PoolTxNumList' = ReceiveTxNumList'
    /\ UNCHANGED <<NumList, TPSList, TpsFromBeginList, DelayList>>

\* The list it appends to is ReceiveTxNumList, whose array the result may share.
CollectePoolTxNum ==
    /\ PoolTxNumList' = Append(ReceiveTxNumList, txLen)
    /\ UNCHANGED <<NumList, TPSList, TpsFromBeginList, DelayList, ReceiveTxNumList>>

\* Mutant: the first interval is left out.
RatesFromSecond(num) ==
    [i \in 1..Len(num) |-> IF i = 1 THEN 0 ELSE num[i] - num[i - 1]]

Rates(num) == [i \in 1..Len(num) |-> IF i = 1 THEN num[i] ELSE num[i] - num[i - 1]]

\* One rate for every number collected so far, at every call.
CollectTPS(k) ==
    /\ TPSList' = [TPSList EXCEPT ![k] = @ \o Rates(NumList[k])]
    /\ UNCHANGED <<NumList, TpsFromBeginList, DelayList, ReceiveTxNumList, PoolTxNumList>>

FromBegin(num) == [i \in 1..Len(num) |-> <<num[i], i>>]

CollectTPSFromBegin(k) ==
    /\ TpsFromBeginList' = [TpsFromBeginList EXCEPT ![k] = @ \o FromBegin(NumList[k])]
    /\ UNCHANGED <<NumList, TPSList, DelayList, ReceiveTxNumList, PoolTxNumList>>

\* mean; "0" for an empty table.
mean(timeTable) == <<SumOver(timeTable, DOMAIN timeTable), Cardinality(DOMAIN timeTable)>>

CollectDelay(k) ==
    /\ DelayList' = [DelayList EXCEPT ![k] = Append(@, mean(Time[k]))]
    /\ UNCHANGED <<NumList, TPSList, TpsFromBeginList, ReceiveTxNumList, PoolTxNumList>>

collectData ==
    /\ todo # <<>>
    /\ LET call == Head(todo)
           k == call[2]
       IN  \/ call[1] = "Num" /\ CollectNum(k)
           \/ call[1] = "ReceiveTxNum" /\ CollectReceiveTxNum
           \/ call[1] = "PoolTxNum" /\ CollectePoolTxNum
           \/ call[1] = "TPS" /\ CollectTPS(k)
           \/ call[1] = "TPSFromBegin" /\ CollectTPSFromBegin(k)
           \/ call[1] = "Delay" /\ CollectDelay(k)
    /\ todo' = Tail(todo)
    /\ UNCHANGED <<times, counters, control>>

\* At the end of startMonitor.
SaveResult ==
    /\ todo = <<>> /\ ticks = MaxTicks /\ ~saved
    /\ saved' = TRUE
    /\ UNCHANGED <<lists, times, counters, ticks, todo>>

Next ==
    \/ \E k \in Kinds : Count(k)
    \/ Receive \/ HandOut
    \/ \E mb \in Mbs, d \in Durations :
          (\E k \in Kinds : CollectTime(k, mb, d)) \/ CollectResultTime(mb, d)
    \/ Tick \/ collectData \/ SaveResult

Spec == Init /\ [][Next]_vars

-----------------------------------------------------------------------------

LastOf(seq, n) == SubSeq(seq, Len(seq) - n + 1, Len(seq))

\* After a tick the rates appended by it add up to the number collected last, and
\* the last rate from the beginning is that number over the time since.
RatesAddUp ==
    todo = <<>> => \A k \in Kinds :
        /\ FoldSeq(LAMBDA x, sum : sum + x, 0, LastOf(TPSList[k], ticks))
              = IF ticks = 0 THEN 0 ELSE NumList[k][ticks]
        /\ ticks > 0 => Last(TpsFromBeginList[k]) = <<NumList[k][ticks], ticks>>

=============================================================================
