------------------------------- MODULE VisitLogs -------------------------------
(***************************************************************************)
(* The asynchronous visit log of internal/logs/logs.go.  Request handlers  *)
(* hand their logs to a bounded channel and never wait; one worker         *)
(* collects them into batches and writes each batch in a transaction; one  *)
(* cleaner deletes rows past the retention period.  A crash loses what is  *)
(* in memory.                                                              *)
(*                                                                         *)
(* Visits are numbered in the order of their QueueLog calls.  A log        *)
(* carries the time its visit began, which may be up to MaxLag before it   *)
(* is queued.  Time is counted in days.                                    *)
(***************************************************************************)
EXTENDS Integers, Sequences, FiniteSets

CONSTANTS QueueCap,    \* capacity of visitLogChan (10000 in the code)
          MaxBatchSize,\* maxBatchSize (100 in the code)
          Retentions,  \* values of log_retention_days that are in use
          DefaultDays, \* retention when the setting cannot be read (90)
          MaxLag,      \* longest time between a visit's start and its log
          MaxVisits,   \* bound: how many visits are logged
          MaxTime      \* bound: the last day

ASSUME VisitLogsAssumption ==
  /\ QueueCap \in Nat \ {0}
  /\ MaxBatchSize \in Nat \ {0}
  /\ Retentions \subseteq Nat
  /\ DefaultDays \in Nat \ {0}
  /\ MaxLag \in Nat /\ MaxVisits \in Nat /\ MaxTime \in Nat

VARIABLES visits,    \* number of QueueLog calls so far
          chan,      \* visitLogChan
          batch,     \* the worker's batch
          flushing,  \* the worker is inside flush
          table,     \* the rows of visit_logs
          lastRow,   \* the largest row id ever given out (AUTOINCREMENT)
          enabled,   \* log_cleanup_enabled
          retention, \* log_retention_days
          cleaner,   \* where the cleanup worker is
          now        \* the day

worker == <<chan, batch, flushing>>
settings == <<enabled, retention>>
rows == <<table, lastRow>>
vars == <<visits, worker, rows, settings, cleaner, now>>

Log == [n : Nat, time : Nat]
Row == [id : Nat, n : Nat, time : Nat]

(* told: history of a cleanup, the retention periods that were in force    *)
(* since it began (and the default, if it could not read the setting).     *)
Resting == [pc |-> "rest", threshold |-> 0, told |-> {}]

TypeOK ==
  /\ visits \in 0..MaxVisits
  /\ chan \in Seq(Log) /\ Len(chan) <= QueueCap
  /\ batch \in Seq(Log) /\ Len(batch) <= MaxBatchSize
  /\ flushing \in BOOLEAN
  /\ table \subseteq Row /\ lastRow \in Nat
  /\ enabled \in BOOLEAN /\ retention \in Retentions
  /\ cleaner \in [pc : {"rest", "days", "delete"}, threshold : Int,
                  told : SUBSET (Retentions \cup {DefaultDays})]
  /\ now \in 0..MaxTime

-----------------------------------------------------------------------------
(* Seeded faults: bugs this code might have had, one per property.  No     *)
(* definition of the model uses them.                                      *)

BatchKept(ok) == batch
RoomForOneMore(s) == Len(s) <= QueueCap
FlushOnlyFull(b) == Len(b) >= MaxBatchSize
ThresholdAhead(days) == now + days

-----------------------------------------------------------------------------
(* QueueLog *)

(* select with a default: the channel takes the log only if it has room *)
HasRoom(s) == Len(s) < QueueCap

QueueLog(time) ==
  /\ visits < MaxVisits
  /\ visits' = visits + 1
  /\ chan' = IF HasRoom(chan) THEN Append(chan, [n |-> visits', time |-> time]) ELSE chan
  /\ UNCHANGED <<batch, flushing, rows, settings, cleaner, now>>

-----------------------------------------------------------------------------
(* startLogWorker *)

Receive ==
  /\ ~ flushing
  /\ chan # << >>
  /\ chan' = Tail(chan)
  /\ batch' = Append(batch, Head(chan))
  /\ flushing' = (Len(batch') >= MaxBatchSize)
  /\ UNCHANGED <<visits, rows, settings, cleaner, now>>

(* flush at the ticker returns at once when the batch is empty. *)
WorthFlushing(b) == b # << >>

FlushTick ==
  /\ ~ flushing
  /\ WorthFlushing(batch)
  /\ flushing' = TRUE
  /\ UNCHANGED <<visits, chan, batch, rows, settings, cleaner, now>>

(* flush makes a new batch whether or not the transaction went through. *)
BatchAfter(ok) == << >>

FlushCommit ==
  /\ flushing
  /\ table' = table \cup {[id |-> lastRow + i, n |-> batch[i].n, time |-> batch[i].time] :
                            i \in 1..Len(batch)}
  /\ lastRow' = lastRow + Len(batch)
  /\ batch' = BatchAfter(TRUE)
  /\ flushing' = FALSE
  /\ UNCHANGED <<visits, chan, settings, cleaner, now>>

FlushFail ==
  /\ flushing
  /\ batch' = BatchAfter(FALSE)
  /\ flushing' = FALSE
  /\ UNCHANGED <<visits, chan, rows, settings, cleaner, now>>

-----------------------------------------------------------------------------
(* runCleanup: at startup and every twelve hours *)

(* FindGlobalSetting(log_cleanup_enabled).  Only a setting that was read   *)
(* and says no stops the cleanup: a failed read does not.                  *)
CleanupBegin ==
  /\ cleaner.pc = "rest"
  /\ \E failed \in BOOLEAN : enabled \/ failed
  /\ cleaner' = [pc |-> "days", threshold |-> 0, told |-> {retention}]
  /\ UNCHANGED <<visits, worker, rows, settings, now>>

(* AddDate(0, 0, -retentionDays) *)
Threshold(days) == now - days

Finite(days) == days > 0

(* FindGlobalSetting(log_retention_days), or the default if that fails;    *)
(* zero, which the settings handler does not accept, would keep all.       *)
CleanupReadDays ==
  /\ cleaner.pc = "days"
  /\ \E days \in {retention, DefaultDays} :
       cleaner' = IF Finite(days)
                  THEN [cleaner EXCEPT !.pc = "delete", !.threshold = Threshold(days),
                                       !.told = @ \cup {days}]
                  ELSE Resting
  /\ UNCHANGED <<visits, worker, rows, settings, now>>

Kept(row) == row.time >= cleaner.threshold

CleanupDelete ==
  /\ cleaner.pc = "delete"
  /\ table' = {row \in table : Kept(row)}
  /\ cleaner' = Resting
  /\ UNCHANGED <<visits, worker, lastRow, settings, now>>

CleanupFail ==
  /\ cleaner.pc = "delete"
  /\ cleaner' = Resting
  /\ UNCHANGED <<visits, worker, rows, settings, now>>

-----------------------------------------------------------------------------
(* The world around: the administrator, the calendar, a crash.             *)

SetCleanup(on, days) ==
  /\ enabled' = on
  /\ retention' = days
  /\ cleaner' = IF cleaner.pc = "rest" THEN cleaner
                ELSE [cleaner EXCEPT !.told = @ \cup {days}]
  /\ UNCHANGED <<visits, worker, rows, now>>

Tick ==
  /\ now < MaxTime
  /\ now' = now + 1
  /\ UNCHANGED <<visits, worker, rows, settings, cleaner>>

(* The process dies and is started again: Init makes an empty channel. *)
Crash ==
  /\ chan' = << >> /\ batch' = << >> /\ flushing' = FALSE
  /\ cleaner' = Resting
  /\ UNCHANGED <<visits, rows, settings, now>>

Init ==
  /\ visits = 0
  /\ chan = << >> /\ batch = << >> /\ flushing = FALSE
  /\ table = {} /\ lastRow = 0
  /\ enabled = TRUE /\ retention \in Retentions
  /\ cleaner = Resting
  /\ now = 0

Worker == Receive \/ FlushTick \/ FlushCommit \/ FlushFail

Cleaner == CleanupBegin \/ CleanupReadDays \/ CleanupDelete \/ CleanupFail

Next ==
  \/ \E time \in {t \in 0..now : now - t <= MaxLag} : QueueLog(time)
  \/ Worker
  \/ Cleaner
  \/ \E on \in BOOLEAN, days \in Retentions : SetCleanup(on, days)
  \/ Tick
  \/ Crash

Spec == Init /\ [][Next]_vars

(* The worker is a goroutine that never stops and its ticker never does;   *)
(* a transaction ends, one way or the other.                               *)
FairSpec == Spec /\ WF_vars(Worker)

-----------------------------------------------------------------------------
(* What is being written and what waits, oldest first. *)
Pending == batch \o chan

(* InOrder: however crashes, failed flushes, drops and cleanups fall, no   *)
(* visit is recorded twice, and the ids of the table follow the order in   *)
(* which the visits were queued (logs.go:34, 53-59, 64-74, 115).           *)
RowsInOrder == \A r, s \in table : (r.id <= s.id) <=> (r.n <= s.n)
PendingInOrder == \A i, j \in 1..Len(Pending) : i < j => Pending[i].n < Pending[j].n
RowsBeforePending ==
  \A r \in table : r.n <= visits /\ \A i \in 1..Len(Pending) : r.n < Pending[i].n
InOrder == RowsInOrder /\ PendingInOrder /\ RowsBeforePending

(* CleanupSparesRecent: a cleanup deletes no log that every retention      *)
(* period in force since it began would have kept (logs.go:94-115).        *)
CleanupSparesRecent ==
  [][\A r \in table \ table' :
       \E days \in cleaner.told : days > 0 /\ r.time + days < now]_vars

(* EventuallyWritten: a log the channel accepted does not stay in memory   *)
(* for ever: it is written or lost with its batch or in a crash, even if   *)
(* no other visit ever follows it (logs.go:41-77).                         *)
InMemory(n) == \E i \in 1..Len(Pending) : Pending[i].n = n
EventuallyWritten == \A n \in 1..MaxVisits : InMemory(n) ~> ~ InMemory(n)
=============================================================================
