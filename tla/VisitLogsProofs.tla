---------------------------- MODULE VisitLogsProofs ----------------------------
(***************************************************************************)
(* Proofs about VisitLogs for every queue and batch size, every retention  *)
(* and any number of visits and days.                                      *)
(***************************************************************************)
EXTENDS VisitLogs, SequenceTheorems, TLAPS

(* The order InOrder promises, with the batch and the channel apart, and   *)
(* with what keeps it: ids are given out in order, and the next log gets a *)
(* larger number than all before it.                                       *)
Increasing(s) == \A i, j \in 1..Len(s) : i < j => s[i].n < s[j].n
NumbersUpTo(s, m) == \A i \in 1..Len(s) : s[i].n <= m
Before(s, t) == \A i \in 1..Len(s), j \in 1..Len(t) : s[i].n < t[j].n
TableBefore(s) == \A r \in table : \A i \in 1..Len(s) : r.n < s[i].n

OrderInv ==
  /\ RowsInOrder
  /\ \A r \in table : r.id <= lastRow /\ r.n <= visits
  /\ Increasing(batch) /\ Increasing(chan) /\ Before(batch, chan)
  /\ TableBefore(batch) /\ TableBefore(chan)
  /\ NumbersUpTo(batch, visits) /\ NumbersUpTo(chan, visits)

(* A full batch is being flushed, so there is room whenever the worker     *)
(* receives.                                                               *)
BatchRoom == flushing \/ Len(batch) < MaxBatchSize

Typed == TypeOK /\ BatchRoom

-----------------------------------------------------------------------------
CleanerState == [pc : {"rest", "days", "delete"}, threshold : Int,
                 told : SUBSET (Retentions \cup {DefaultDays})]

LEMMA RestingTyped == Resting \in CleanerState
  BY DEF Resting, CleanerState

LEMMA NoLogs == << >> \in Seq(Log) /\ Len(<< >>) = 0
  OBVIOUS

LEMMA InitTyped == Init => Typed
<1> SUFFICES ASSUME Init PROVE Typed
  OBVIOUS
<1>1. /\ chan \in Seq(Log) /\ Len(chan) = 0 /\ batch \in Seq(Log) /\ Len(batch) = 0
      /\ flushing \in BOOLEAN /\ cleaner \in CleanerState
  BY RestingTyped, NoLogs DEF Init
<1>2. visits = 0 /\ lastRow = 0 /\ now = 0 /\ table = {} /\ enabled = TRUE /\ retention \in Retentions
  BY DEF Init
<1>3. /\ visits \in 0..MaxVisits /\ now \in 0..MaxTime /\ lastRow \in Nat
      /\ table \subseteq Row /\ enabled \in BOOLEAN /\ retention \in Retentions
  BY <1>2, VisitLogsAssumption
<1>4. /\ Len(chan) <= QueueCap /\ Len(batch) <= MaxBatchSize /\ Len(batch) < MaxBatchSize
  BY <1>1, VisitLogsAssumption
<1>5. TypeOK
  BY <1>1, <1>3, <1>4 DEF TypeOK, CleanerState
<1>6. BatchRoom
  BY <1>4 DEF BatchRoom
<1> QED
  BY <1>5, <1>6 DEF Typed

LEMMA QueueLogTyped ==
  ASSUME Typed, NEW time \in 0..now, QueueLog(time)
  PROVE  Typed'
<1>1. /\ visits' \in 0..MaxVisits /\ [n |-> visits', time |-> time] \in Log
      /\ UNCHANGED <<batch, flushing, table, lastRow, enabled, retention, cleaner, now>>
  BY VisitLogsAssumption DEF Typed, TypeOK, QueueLog, Log, rows, settings
<1>2. chan' \in Seq(Log) /\ Len(chan') <= QueueCap
  BY <1>1, VisitLogsAssumption DEF Typed, TypeOK, QueueLog, HasRoom
<1> QED
  BY <1>1, <1>2 DEF Typed, TypeOK, BatchRoom

LEMMA WorkerTyped ==
  ASSUME Typed, Worker
  PROVE  Typed'
<1>0. /\ batch \in Seq(Log) /\ Len(batch) \in Nat /\ chan \in Seq(Log) /\ Len(chan) <= QueueCap
      /\ MaxBatchSize \in Nat \ {0} /\ QueueCap \in Nat /\ lastRow \in Nat /\ table \subseteq Row
  BY VisitLogsAssumption DEF Typed, TypeOK
<1>1. CASE Receive
  <2>0. chan # << >> /\ chan' = Tail(chan) /\ batch' = Append(batch, Head(chan))
        /\ flushing' = (Len(batch') >= MaxBatchSize) /\ ~ flushing
        /\ UNCHANGED <<visits, table, lastRow, enabled, retention, cleaner, now>>
    BY <1>1 DEF Receive, rows, settings
  <2>1. /\ Head(chan) \in Log /\ Tail(chan) \in Seq(Log) /\ Len(Tail(chan)) = Len(chan) - 1
        /\ Len(chan) \in Nat
    BY <1>0, <2>0
  <2>2. batch' \in Seq(Log) /\ Len(batch') = Len(batch) + 1
    BY <1>0, <2>0, <2>1
  <2>3. Len(batch) < MaxBatchSize
    BY <2>0 DEF Typed, BatchRoom
  <2>4. Len(batch') <= MaxBatchSize
    BY <1>0, <2>2, <2>3
  <2>5. flushing' \/ Len(batch') < MaxBatchSize
    <3>1. Len(batch') >= MaxBatchSize \/ Len(batch') < MaxBatchSize
      BY <1>0, <2>2
    <3> QED  BY <2>0, <3>1, Zenon
  <2>6. flushing' \in BOOLEAN
    BY <2>0
  <2>7. chan' \in Seq(Log) /\ Len(chan') <= QueueCap
    BY <1>0, <2>0, <2>1
  <2> QED  BY <2>0, <2>2, <2>4, <2>5, <2>6, <2>7 DEF Typed, TypeOK, BatchRoom
<1>2. CASE FlushTick
  BY <1>2 DEF FlushTick, Typed, TypeOK, BatchRoom, rows, settings
<1>3. CASE FlushCommit
  <2>1. \A i \in 1..Len(batch) :
          [id |-> lastRow + i, n |-> batch[i].n, time |-> batch[i].time] \in Row
    <3> SUFFICES ASSUME NEW i \in 1..Len(batch)
                 PROVE  [id |-> lastRow + i, n |-> batch[i].n, time |-> batch[i].time] \in Row
      OBVIOUS
    <3>1. batch[i] \in Log /\ lastRow + i \in Nat
      BY <1>0
    <3> QED  BY <3>1 DEF Log, Row
  <2>2. table' \subseteq Row /\ lastRow' \in Nat
    <3>1. /\ table' = table \cup {[id |-> lastRow + i, n |-> batch[i].n, time |-> batch[i].time] :
                                  i \in 1..Len(batch)}
          /\ lastRow' = lastRow + Len(batch)
      BY <1>3 DEF FlushCommit
    <3> QED  BY <1>0, <2>1, <3>1
  <2>3. batch' = << >> /\ flushing' = FALSE
        /\ UNCHANGED <<visits, chan, enabled, retention, cleaner, now>>
    BY <1>3 DEF FlushCommit, BatchAfter, settings
  <2>4. batch' \in Seq(Log) /\ Len(batch') = 0 /\ flushing' \in BOOLEAN
    BY <2>3, NoLogs
  <2>5. UNCHANGED <<visits, chan, enabled, retention, cleaner, now>>
    BY <2>3
  <2> QED  BY <1>0, <2>2, <2>4, <2>5 DEF Typed, TypeOK, BatchRoom
<1>4. CASE FlushFail
  <2>1. batch' = << >> /\ flushing' = FALSE
        /\ UNCHANGED <<visits, chan, table, lastRow, enabled, retention, cleaner, now>>
    BY <1>4 DEF FlushFail, BatchAfter, rows, settings
  <2>2. batch' \in Seq(Log) /\ Len(batch') = 0 /\ flushing' \in BOOLEAN
    BY <2>1, NoLogs
  <2>3. UNCHANGED <<visits, chan, table, lastRow, enabled, retention, cleaner, now>>
    BY <2>1
  <2> QED  BY <1>0, <2>2, <2>3 DEF Typed, TypeOK, BatchRoom
<1> QED
  BY <1>1, <1>2, <1>3, <1>4 DEF Worker

LEMMA CleanerTyped ==
  ASSUME Typed, Cleaner
  PROVE  Typed'
<1>1. /\ UNCHANGED <<visits, worker, settings, lastRow, now>>
      /\ table' \subseteq table
  BY DEF Cleaner, CleanupBegin, CleanupReadDays, CleanupDelete, CleanupFail, rows
<1>2. cleaner \in CleanerState /\ now \in Int /\ retention \in Retentions /\ enabled \in BOOLEAN
  BY DEF Typed, TypeOK, CleanerState
<1>3. Resting \in CleanerState
  BY RestingTyped
<1>4. cleaner' \in CleanerState
  <2>1. CASE CleanupBegin
    BY <1>2, <2>1 DEF CleanupBegin, CleanerState
  <2>2. CASE CleanupReadDays
    <3>1. PICK days \in {retention, DefaultDays} :
            cleaner' = IF Finite(days)
                       THEN [cleaner EXCEPT !.pc = "delete", !.threshold = Threshold(days),
                                            !.told = @ \cup {days}]
                       ELSE Resting
      BY <2>2 DEF CleanupReadDays
    <3>2. days \in Retentions \cup {DefaultDays} /\ Threshold(days) \in Int
      BY <1>2, VisitLogsAssumption DEF Threshold
    <3>3. [cleaner EXCEPT !.pc = "delete", !.threshold = Threshold(days),
                          !.told = @ \cup {days}] \in CleanerState
      BY <1>2, <3>2 DEF CleanerState
    <3> QED  BY <1>3, <3>1, <3>3
  <2>3. CASE CleanupDelete \/ CleanupFail
    BY <1>3, <2>3 DEF CleanupDelete, CleanupFail
  <2> QED  BY <2>1, <2>2, <2>3 DEF Cleaner
<1> QED
  BY <1>1, <1>4 DEF Typed, TypeOK, BatchRoom, CleanerState, worker, settings

LEMMA WorldTyped ==
  ASSUME Typed, Tick \/ Crash \/ UNCHANGED vars
                \/ \E on \in BOOLEAN, days \in Retentions : SetCleanup(on, days)
  PROVE  Typed'
<1>1. CASE Tick
  BY <1>1, VisitLogsAssumption DEF Tick, Typed, TypeOK, BatchRoom, worker, rows, settings
<1>2. CASE Crash
  <2>1. /\ chan' \in Seq(Log) /\ Len(chan') = 0 /\ batch' \in Seq(Log) /\ Len(batch') = 0
        /\ flushing' \in BOOLEAN /\ cleaner' \in CleanerState
    BY <1>2, RestingTyped, NoLogs DEF Crash
  <2>2. UNCHANGED <<visits, table, lastRow, enabled, retention, now>>
    BY <1>2 DEF Crash, rows, settings
  <2> QED  BY <2>1, <2>2, VisitLogsAssumption DEF Typed, TypeOK, BatchRoom, CleanerState
<1>3. CASE UNCHANGED vars
  BY <1>3 DEF vars, Typed, TypeOK, BatchRoom, worker, rows, settings
<1>4. ASSUME NEW on \in BOOLEAN, NEW days \in Retentions, SetCleanup(on, days) PROVE Typed'
  <2>1. cleaner' \in CleanerState
    BY <1>4 DEF SetCleanup, Typed, TypeOK, CleanerState
  <2> QED  BY <1>4, <2>1 DEF SetCleanup, Typed, TypeOK, BatchRoom, CleanerState, worker, rows
<1> QED
  BY <1>1, <1>2, <1>3, <1>4

LEMMA NextTyped == Typed /\ [Next]_vars => Typed'
  BY QueueLogTyped, WorkerTyped, CleanerTyped, WorldTyped DEF Next

LEMMA AlwaysTyped == Spec => []Typed
  BY InitTyped, NextTyped, PTL DEF Spec

(* TypeCorrect: every variable keeps its type; the channel and the batch   *)
(* never outgrow their sizes (TypeOK).                                     *)
THEOREM TypeCorrect == Spec => []TypeOK
<1>1. Typed => TypeOK
  BY DEF Typed
<1> QED
  BY <1>1, AlwaysTyped, PTL

-----------------------------------------------------------------------------
(* Order *)

LEMMA InitOrder == Init => OrderInv
<1> SUFFICES ASSUME Init PROVE OrderInv
  OBVIOUS
<1>1. Len(chan) = 0 /\ Len(batch) = 0 /\ table = {}
  BY NoLogs DEF Init
<1> QED
  BY <1>1 DEF OrderInv, RowsInOrder, Increasing, Before, TableBefore, NumbersUpTo

LEMMA LogNumber ==
  ASSUME NEW s \in Seq(Log), NEW i \in 1..Len(s)
  PROVE  s[i].n \in Nat
<1>1. s[i] \in Log
  OBVIOUS
<1> QED
  BY <1>1 DEF Log

LEMMA QueueLogOrder ==
  ASSUME Typed, OrderInv, NEW time \in 0..now, QueueLog(time)
  PROVE  OrderInv'
<1>0. /\ chan \in Seq(Log) /\ Len(chan) \in Nat /\ visits \in Nat /\ visits' = visits + 1
      /\ batch \in Seq(Log) /\ Len(batch) \in Nat /\ table \subseteq Row
      /\ UNCHANGED <<batch, table, lastRow>>
  BY VisitLogsAssumption DEF Typed, TypeOK, QueueLog, rows
<1>1. \A i \in 1..Len(chan) : chan[i].n \in Nat
  BY <1>0, LogNumber
<1>2. \A i \in 1..Len(batch) : batch[i].n \in Nat
  BY <1>0, LogNumber
<1>3. \A r \in table : r.n \in Nat /\ r.id \in Nat
  BY <1>0 DEF Row
<1>4. CASE chan' = chan
  BY <1>0, <1>1, <1>2, <1>3, <1>4
  DEF OrderInv, RowsInOrder, Increasing, Before, TableBefore, NumbersUpTo
<1>5. CASE chan' = Append(chan, [n |-> visits', time |-> time])
  <2>1. Len(chan') = Len(chan) + 1
    BY <1>0, <1>5
  <2>2. \A i \in 1..Len(chan) : chan'[i] = chan[i]
    BY <1>0, <1>5
  <2>3. chan'[Len(chan) + 1].n = visits + 1
    BY <1>0, <1>5
  <2>4. \A i \in 1..Len(chan') : i \in 1..Len(chan) \/ i = Len(chan) + 1
    BY <1>0, <2>1
  <2>5. NumbersUpTo(chan, visits) /\ NumbersUpTo(batch, visits) /\ Increasing(chan)
        /\ Before(batch, chan) /\ TableBefore(chan) /\ \A r \in table : r.n <= visits
    BY DEF OrderInv
  <2>5a. \A i \in 1..Len(chan) : chan'[i].n = chan[i].n /\ chan'[i].n < visits + 1
    BY <1>0, <1>1, <2>2, <2>5 DEF NumbersUpTo
  <2>6. Increasing(chan') /\ NumbersUpTo(chan', visits')
    <3>1. ASSUME NEW i \in 1..Len(chan'), NEW j \in 1..Len(chan'), i < j
          PROVE  chan'[i].n < chan'[j].n
      <4>1. i \in 1..Len(chan)
        BY <1>0, <2>1, <3>1
      <4>2. CASE j \in 1..Len(chan)
        BY <2>5, <2>5a, <3>1, <4>1, <4>2 DEF Increasing
      <4>3. CASE j = Len(chan) + 1
        BY <2>3, <2>5a, <4>1, <4>3
      <4> QED  BY <2>4, <4>2, <4>3
    <3>2. \A i \in 1..Len(chan') : chan'[i].n <= visits'
      BY <1>0, <1>1, <2>3, <2>4, <2>5a
    <3> QED  BY <3>1, <3>2 DEF Increasing, NumbersUpTo
  <2>7. Before(batch', chan') /\ NumbersUpTo(batch', visits')
    <3>1. \A i \in 1..Len(batch) : batch[i].n <= visits /\ batch[i].n < visits + 1
      BY <1>0, <1>2, <2>5 DEF NumbersUpTo
    <3>2. ASSUME NEW i \in 1..Len(batch), NEW j \in 1..Len(chan')
          PROVE  batch[i].n < chan'[j].n
      <4>1. CASE j \in 1..Len(chan)
        BY <2>5, <2>5a, <4>1 DEF Before
      <4>2. CASE j = Len(chan) + 1
        BY <2>3, <3>1, <4>2
      <4> QED  BY <2>4, <4>1, <4>2
    <3>3. \A i \in 1..Len(batch) : batch[i].n <= visits'
      BY <1>0, <1>2, <3>1
    <3> QED  BY <1>0, <3>2, <3>3 DEF Before, NumbersUpTo
  <2>8. TableBefore(chan)' /\ \A r \in table' : r.n <= visits'
    BY <1>0, <1>1, <1>3, <2>1, <2>2, <2>3, <2>4, <2>5 DEF TableBefore
  <2>9. RowsInOrder' /\ TableBefore(batch)' /\ Increasing(batch)'
        /\ \A r \in table' : r.id <= lastRow'
    BY <1>0 DEF OrderInv, RowsInOrder, TableBefore, Increasing
  <2> QED  BY <2>6, <2>7, <2>8, <2>9 DEF OrderInv, Increasing, NumbersUpTo, Before
<1> QED
  BY <1>4, <1>5 DEF QueueLog

LEMMA ReceiveOrder ==
  ASSUME Typed, OrderInv, Receive
  PROVE  OrderInv'
<1>0. /\ chan \in Seq(Log) /\ Len(chan) \in Nat /\ chan # << >>
      /\ batch \in Seq(Log) /\ Len(batch) \in Nat
      /\ chan' = Tail(chan) /\ batch' = Append(batch, Head(chan))
      /\ UNCHANGED <<visits, table, lastRow>>
  BY DEF Typed, TypeOK, Receive, rows
<1>1. Len(chan) > 0 /\ Len(chan') = Len(chan) - 1 /\ \A i \in 1..Len(chan') : chan'[i] = chan[i + 1]
  BY <1>0
<1>2. Len(batch') = Len(batch) + 1 /\ batch'[Len(batch) + 1] = chan[1]
      /\ \A i \in 1..Len(batch) : batch'[i] = batch[i]
  BY <1>0
<1>3. \A i \in 1..Len(batch') : i \in 1..Len(batch) \/ i = Len(batch) + 1
  BY <1>0, <1>2
<1>4. \A i \in 1..Len(chan') : i + 1 \in 1..Len(chan) /\ 1 < i + 1
  BY <1>0, <1>1
<1>5. 1 \in 1..Len(chan)
  BY <1>0, <1>1
<1>6. Increasing(batch) /\ Increasing(chan) /\ Before(batch, chan)
      /\ TableBefore(batch) /\ TableBefore(chan)
      /\ NumbersUpTo(batch, visits) /\ NumbersUpTo(chan, visits)
  BY DEF OrderInv
<1>7. Increasing(batch') /\ NumbersUpTo(batch', visits')
  BY <1>0, <1>2, <1>3, <1>5, <1>6 DEF Increasing, NumbersUpTo, Before
<1>8. Increasing(chan') /\ NumbersUpTo(chan', visits')
  BY <1>0, <1>1, <1>4, <1>6 DEF Increasing, NumbersUpTo
<1>9. Before(batch', chan')
  BY <1>0, <1>1, <1>2, <1>3, <1>4, <1>5, <1>6 DEF Before, Increasing
<1>10. TableBefore(batch)' /\ TableBefore(chan)'
  BY <1>0, <1>1, <1>2, <1>3, <1>4, <1>5, <1>6 DEF TableBefore
<1>11. RowsInOrder' /\ \A r \in table' : r.id <= lastRow' /\ r.n <= visits'
  BY <1>0 DEF OrderInv, RowsInOrder
<1> QED
  BY <1>7, <1>8, <1>9, <1>10, <1>11 DEF OrderInv, Increasing, NumbersUpTo, Before

LEMMA FlushCommitOrder ==
  ASSUME Typed, OrderInv, FlushCommit
  PROVE  OrderInv'
<1> DEFINE Written(i) == [id |-> lastRow + i, n |-> batch[i].n, time |-> batch[i].time]
<1>0. /\ chan \in Seq(Log) /\ Len(chan) \in Nat /\ batch \in Seq(Log) /\ Len(batch) \in Nat
      /\ table \subseteq Row /\ lastRow \in Nat
      /\ table' = table \cup {Written(i) : i \in 1..Len(batch)}
      /\ lastRow' = lastRow + Len(batch) /\ Len(batch') = 0
      /\ UNCHANGED <<visits, chan>>
  BY NoLogs DEF Typed, TypeOK, FlushCommit, BatchAfter
<1>1. \A i \in 1..Len(batch) : batch[i].n \in Nat
  BY <1>0, LogNumber
<1>2. \A r \in table : r.n \in Nat /\ r.id \in Nat
  BY <1>0 DEF Row
<1>3. /\ RowsInOrder /\ Increasing(batch) /\ Increasing(chan) /\ Before(batch, chan)
      /\ TableBefore(batch) /\ TableBefore(chan)
      /\ NumbersUpTo(batch, visits) /\ NumbersUpTo(chan, visits)
      /\ \A r \in table : r.id <= lastRow /\ r.n <= visits
  BY DEF OrderInv
<1>4. \A i \in 1..Len(batch) : Written(i).id = lastRow + i /\ Written(i).n = batch[i].n
  OBVIOUS
<1> HIDE DEF Written
<1>5. \A r \in table' : r \in table \/ \E i \in 1..Len(batch) : r = Written(i)
  BY <1>0
<1>6. \A r, s \in table' : (r.id <= s.id) <=> (r.n <= s.n)
  <2> SUFFICES ASSUME NEW r \in table', NEW s \in table' PROVE (r.id <= s.id) <=> (r.n <= s.n)
    OBVIOUS
  <2>1. CASE r \in table /\ s \in table
    BY <2>1, <1>3 DEF RowsInOrder
  <2>2. ASSUME r \in table, NEW j \in 1..Len(batch), s = Written(j)
        PROVE  (r.id <= s.id) <=> (r.n <= s.n)
    <3>1. r.n < batch[j].n
      BY <2>2, <1>3 DEF TableBefore
    <3> QED  BY <2>2, <3>1, <1>0, <1>1, <1>2, <1>3, <1>4
  <2>3. ASSUME NEW i \in 1..Len(batch), r = Written(i), s \in table
        PROVE  (r.id <= s.id) <=> (r.n <= s.n)
    <3>1. s.n < batch[i].n
      BY <2>3, <1>3 DEF TableBefore
    <3> QED  BY <2>3, <3>1, <1>0, <1>1, <1>2, <1>3, <1>4
  <2>4. ASSUME NEW i \in 1..Len(batch), r = Written(i), NEW j \in 1..Len(batch), s = Written(j)
        PROVE  (r.id <= s.id) <=> (r.n <= s.n)
    <3>1. (i < j => batch[i].n < batch[j].n) /\ (j < i => batch[j].n < batch[i].n)
      BY <1>3 DEF Increasing
    <3>2. r.id = lastRow + i /\ r.n = batch[i].n /\ s.id = lastRow + j /\ s.n = batch[j].n
      BY <2>4, <1>4
    <3>3. CASE i = j
      BY <3>2, <3>3, <1>0, <1>1
    <3>4. CASE i < j
      BY <3>1, <3>2, <3>4, <1>0, <1>1
    <3>5. CASE j < i
      BY <3>1, <3>2, <3>5, <1>0, <1>1
    <3> QED  BY <3>3, <3>4, <3>5, <1>0
  <2> QED  BY <1>5, <2>1, <2>2, <2>3, <2>4
<1>7. \A r \in table' : r.id <= lastRow' /\ r.n <= visits'
  BY <1>0, <1>1, <1>2, <1>3, <1>4, <1>5 DEF NumbersUpTo
<1>8. TableBefore(chan)'
  BY <1>0, <1>3, <1>4, <1>5 DEF TableBefore, Before
<1>9. Increasing(chan') /\ NumbersUpTo(chan', visits')
  BY <1>0, <1>3
<1>10. Increasing(batch') /\ NumbersUpTo(batch', visits') /\ Before(batch', chan') /\ TableBefore(batch)'
  BY <1>0 DEF Increasing, NumbersUpTo, Before, TableBefore
<1> QED
  BY <1>6, <1>7, <1>8, <1>9, <1>10 DEF OrderInv, RowsInOrder, Increasing, NumbersUpTo, Before

(* What empties the batch, empties the channel or thins the table keeps    *)
(* the order.                                                              *)
LEMMA LossKeepsOrder ==
  ASSUME Typed, OrderInv, table' \subseteq table, UNCHANGED <<visits, lastRow>>,
         chan' = chan \/ Len(chan') = 0,
         batch' = batch \/ Len(batch') = 0
  PROVE  OrderInv'
<1>1. /\ \A r \in table' : r.id <= lastRow' /\ r.n <= visits'
      /\ RowsInOrder'
  BY DEF OrderInv, RowsInOrder
<1>2. Increasing(chan)' /\ NumbersUpTo(chan, visits)' /\ TableBefore(chan)'
  <2>1. CASE chan' = chan
    BY <2>1 DEF OrderInv, Increasing, NumbersUpTo, TableBefore
  <2>2. CASE Len(chan') = 0
    BY <2>2 DEF Increasing, NumbersUpTo, TableBefore
  <2> QED  BY <2>1, <2>2
<1>3. Increasing(batch)' /\ NumbersUpTo(batch, visits)' /\ TableBefore(batch)'
  <2>1. CASE batch' = batch
    BY <2>1 DEF OrderInv, Increasing, NumbersUpTo, TableBefore
  <2>2. CASE Len(batch') = 0
    BY <2>2 DEF Increasing, NumbersUpTo, TableBefore
  <2> QED  BY <2>1, <2>2
<1>4. Before(batch, chan)'
  <2>1. CASE Len(chan') = 0 \/ Len(batch') = 0
    BY <2>1 DEF Before
  <2>2. CASE chan' = chan /\ batch' = batch
    BY <2>2 DEF OrderInv, Before
  <2> QED  BY <2>1, <2>2
<1> QED
  BY <1>1, <1>2, <1>3, <1>4 DEF OrderInv

LEMMA NextOrder == Typed /\ OrderInv /\ [Next]_vars => OrderInv'
<1> SUFFICES ASSUME Typed, OrderInv, [Next]_vars PROVE OrderInv'
  OBVIOUS
<1>1. ASSUME NEW time \in 0..now, QueueLog(time) PROVE OrderInv'
  BY <1>1, QueueLogOrder
<1>2. CASE Worker
  <2>1. CASE FlushFail
    BY <2>1, NoLogs, LossKeepsOrder DEF FlushFail, BatchAfter, rows
  <2>2. CASE FlushTick
    BY <2>2, LossKeepsOrder DEF FlushTick, rows
  <2> QED  BY <1>2, <2>1, <2>2, ReceiveOrder, FlushCommitOrder DEF Worker
<1>3. CASE Cleaner
  <2>1. UNCHANGED <<visits, chan, batch, lastRow>> /\ table' \subseteq table
    BY <1>3 DEF Cleaner, CleanupBegin, CleanupReadDays, CleanupDelete, CleanupFail, rows, worker
  <2> QED  BY <2>1, LossKeepsOrder
<1>4. CASE Crash
  BY <1>4, NoLogs, LossKeepsOrder DEF Crash, rows
<1>5. CASE Tick \/ UNCHANGED vars \/ \E on \in BOOLEAN, days \in Retentions : SetCleanup(on, days)
  <2>1. UNCHANGED <<visits, chan, batch, lastRow, table>>
    BY <1>5 DEF Tick, vars, SetCleanup, rows, worker
  <2> QED  BY <2>1, LossKeepsOrder
<1> QED
  BY <1>1, <1>2, <1>3, <1>4, <1>5 DEF Next

LEMMA OrderInvOrders == Typed /\ OrderInv => InOrder
<1> SUFFICES ASSUME Typed, OrderInv PROVE InOrder
  OBVIOUS
<1>0. chan \in Seq(Log) /\ Len(chan) \in Nat /\ batch \in Seq(Log) /\ Len(batch) \in Nat
  BY DEF Typed, TypeOK
<1>1. /\ Len(Pending) = Len(batch) + Len(chan)
      /\ \A i \in 1..Len(Pending) :
           Pending[i] = IF i <= Len(batch) THEN batch[i] ELSE chan[i - Len(batch)]
  BY <1>0 DEF Pending
<1> HIDE DEF Pending
<1>2. PendingInOrder
  <2> SUFFICES ASSUME NEW i \in 1..Len(Pending), NEW j \in 1..Len(Pending), i < j
               PROVE  Pending[i].n < Pending[j].n
    BY DEF PendingInOrder
  <2>1. CASE j <= Len(batch)
    BY <2>1, <1>0, <1>1 DEF OrderInv, Increasing
  <2>2. CASE i > Len(batch)
    <3>1. i - Len(batch) \in 1..Len(chan) /\ j - Len(batch) \in 1..Len(chan)
          /\ i - Len(batch) < j - Len(batch)
      BY <2>2, <1>0, <1>1
    <3>2. Pending[i] = chan[i - Len(batch)] /\ Pending[j] = chan[j - Len(batch)]
      BY <2>2, <1>0, <1>1
    <3> QED  BY <3>1, <3>2 DEF OrderInv, Increasing
  <2>3. CASE i <= Len(batch) /\ j > Len(batch)
    <3>1. i \in 1..Len(batch) /\ j - Len(batch) \in 1..Len(chan)
      BY <2>3, <1>0, <1>1
    <3>2. Pending[i] = batch[i] /\ Pending[j] = chan[j - Len(batch)]
      BY <2>3, <1>0, <1>1
    <3> QED  BY <3>1, <3>2 DEF OrderInv, Before
  <2> QED  BY <2>1, <2>2, <2>3, <1>0, <1>1
<1>3. RowsBeforePending
  <2> SUFFICES ASSUME NEW r \in table, NEW i \in 1..Len(Pending) PROVE r.n < Pending[i].n
    BY DEF RowsBeforePending, OrderInv
  <2>1. CASE i <= Len(batch)
    BY <2>1, <1>0, <1>1 DEF OrderInv, TableBefore
  <2>2. CASE i > Len(batch)
    <3>1. i - Len(batch) \in 1..Len(chan) /\ Pending[i] = chan[i - Len(batch)]
      BY <2>2, <1>0, <1>1
    <3> QED  BY <3>1 DEF OrderInv, TableBefore
  <2> QED  BY <2>1, <2>2, <1>0, <1>1
<1> QED
  BY <1>2, <1>3 DEF InOrder, OrderInv

(* LogsInOrder: drops, failed flushes, crashes and cleanups never make a   *)
(* visit be recorded twice or out of the order it was queued in (InOrder), *)
(* for every queue and batch size.                                         *)
THEOREM LogsInOrder == Spec => []InOrder
<1>1. Typed /\ OrderInv /\ [Next]_vars => (Typed /\ OrderInv)'
  BY NextTyped, NextOrder
<1> QED
  BY InitTyped, InitOrder, <1>1, OrderInvOrders, PTL DEF Spec

-----------------------------------------------------------------------------
(* Cleanup *)

(* A cleanup about to delete holds a threshold that a retention period     *)
(* told since it began still covers, however long ago it computed it.      *)
Covered(days) == days > 0 /\ cleaner.threshold <= now - days
ThresholdInv == cleaner.pc = "delete" => \E days \in cleaner.told : Covered(days)

LEMMA ThresholdStep == Typed /\ ThresholdInv /\ [Next]_vars => ThresholdInv'
<1> SUFFICES ASSUME Typed, ThresholdInv, [Next]_vars PROVE ThresholdInv'
  OBVIOUS
<1>0. /\ cleaner \in CleanerState /\ now \in Int
      /\ \A days \in cleaner.told \cup Retentions \cup {DefaultDays} : days \in Int
  BY VisitLogsAssumption DEF Typed, TypeOK, CleanerState
<1>1. CASE UNCHANGED <<cleaner, now>>
  BY <1>1 DEF ThresholdInv, Covered
<1>2. CASE CleanupReadDays
  <2>1. PICK days \in {retention, DefaultDays} :
          cleaner' = IF Finite(days)
                     THEN [cleaner EXCEPT !.pc = "delete", !.threshold = Threshold(days),
                                          !.told = @ \cup {days}]
                     ELSE Resting
    BY <1>2 DEF CleanupReadDays
  <2>2. CASE Finite(days)
    <3>1. cleaner'.threshold = now - days /\ cleaner'.told = cleaner.told \cup {days}
      BY <1>0, <2>1, <2>2 DEF CleanerState, Threshold
    <3>2. now' = now /\ days \in Int
      BY <1>0, <1>2, VisitLogsAssumption DEF CleanupReadDays, Typed, TypeOK
    <3>3. Covered(days)'
      BY <1>0, <2>2, <3>1, <3>2 DEF Covered, Finite
    <3> QED  BY <3>1, <3>3 DEF ThresholdInv
  <2>3. CASE ~ Finite(days)
    BY <2>1, <2>3 DEF ThresholdInv, Resting
  <2> QED  BY <2>2, <2>3
<1>3. CASE CleanupBegin
  BY <1>3 DEF CleanupBegin, ThresholdInv
<1>4. CASE CleanupDelete \/ CleanupFail \/ Crash
  BY <1>4 DEF CleanupDelete, CleanupFail, Crash, ThresholdInv, Resting
<1>5. CASE Tick
  BY <1>0, <1>5 DEF Tick, ThresholdInv, Covered, CleanerState
<1>6. ASSUME NEW on \in BOOLEAN, NEW days \in Retentions, SetCleanup(on, days)
      PROVE  ThresholdInv'
  <2>1. now' = now /\ cleaner'.pc = cleaner.pc /\ cleaner'.threshold = cleaner.threshold
        /\ cleaner.told \subseteq cleaner'.told
    BY <1>0, <1>6 DEF SetCleanup, CleanerState
  <2> QED  BY <2>1 DEF ThresholdInv, Covered
<1>7. ASSUME NEW time, QueueLog(time) PROVE ThresholdInv'
  BY <1>1, <1>7 DEF QueueLog
<1>8. CASE Worker
  BY <1>1, <1>8 DEF Worker, Receive, FlushTick, FlushCommit, FlushFail
<1> QED
  BY <1>1, <1>2, <1>3, <1>4, <1>5, <1>6, <1>7, <1>8 DEF Next, Cleaner, vars

(* RecentLogsSpared: a cleanup deletes only what is past a retention       *)
(* period that was in force since it began, or the default it fell back    *)
(* to (CleanupSparesRecent), whenever the settings change under it.        *)
THEOREM RecentLogsSpared == Spec => CleanupSparesRecent
<1> DEFINE Spares == \A r \in table \ table' :
                       \E days \in cleaner.told : days > 0 /\ r.time + days < now
<1>1. Init => ThresholdInv
  BY DEF Init, ThresholdInv, Resting
<1>2. ASSUME Typed, ThresholdInv, [Next]_vars PROVE [Spares]_vars
  <2>0. table \subseteq Row /\ cleaner \in CleanerState /\ now \in Int
        /\ \A days \in cleaner.told : days \in Int
    BY <1>2, VisitLogsAssumption DEF Typed, TypeOK, CleanerState
  <2>1. CASE CleanupDelete
    <3>1. PICK days \in cleaner.told : Covered(days)
      BY <1>2, <2>1 DEF CleanupDelete, ThresholdInv
    <3>2. \A r \in table \ table' : r.time < cleaner.threshold
      BY <2>0, <2>1 DEF CleanupDelete, Kept, Row, CleanerState
    <3> QED  BY <2>0, <3>1, <3>2 DEF Covered, Row, CleanerState
  <2>2. CASE table \subseteq table'
    BY <2>2
  <2>3. table \subseteq table' \/ CleanupDelete
    BY <1>2 DEF Next, QueueLog, Worker, Receive, FlushTick, FlushCommit, FlushFail, Cleaner,
       CleanupBegin, CleanupReadDays, CleanupFail, SetCleanup, Tick, Crash, vars, rows
  <2> QED  BY <2>1, <2>2, <2>3
<1> QED
  BY <1>1, <1>2, AlwaysTyped, ThresholdStep, PTL DEF Spec, CleanupSparesRecent
=============================================================================
