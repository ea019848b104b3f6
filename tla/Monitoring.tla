------------------------------ MODULE Monitoring ------------------------------
(***************************************************************************)
(* src/monitoring.py: the log handler with its bounded queue and shipping  *)
(* thread, and the agentless metrics client with its buffer and flushing   *)
(* thread.  A record is the number of its emit; all counters are one.      *)
(* Datadog is external: a POST arrives or not, and nothing is repeated.    *)
(* Gauges (the last value wins), spans and the UDP client (which keeps no  *)
(* state) are left out.                                                    *)
(***************************************************************************)
EXTENDS Integers, SequencesExt

CONSTANTS
    QueueSize,    \* maxsize of the queue
    MaxBatch,     \* _MAX_BATCH
    MaxOps        \* bound: records and increments that are followed

ASSUME MonitoringAssumption ==
    QueueSize \in Nat \ {0} /\ MaxBatch \in Nat \ {0} /\ MaxOps \in Nat

VARIABLES
    api_key,     \* is DD_API_KEY set?
    alive,       \* the process runs
    emitted,     \* records emitted so far
    q,           \* the queue
    batch,       \* what the shipping thread has gathered
    posting,     \* is it in _post?
    intake,      \* what Datadog has received, in order
    dropped,     \* records the full queue refused
    unsent,      \* records that were not received, or went down with the process
    counted,     \* increments so far
    counters,    \* _counters
    flush,       \* where _flush stands; "locked" is its "with self._lock"
    series,      \* its copy of the counters
    received,    \* what Datadog has counted
    uncounted    \* counts that were not received, or went down with the process

logVars == <<emitted, q, batch, posting, intake, dropped, unsent>>
countVars == <<counted, counters, flush, series, received, uncounted>>
monVars == <<api_key, alive, logVars, countVars>>

Records == 1..MaxOps

Followed == emitted + counted < MaxOps

MonitoringTypeOK ==
    /\ api_key \in BOOLEAN /\ alive \in BOOLEAN /\ posting \in BOOLEAN
    /\ emitted \in 0..MaxOps
    /\ q \in Seq(Records) /\ Len(q) <= QueueSize
    /\ batch \in Seq(Records) /\ Len(batch) <= MaxBatch
    /\ intake \in Seq(Records)
    /\ dropped \subseteq Records /\ unsent \subseteq Records
    /\ flush \in {"sleep", "locked", "posting"}
    /\ {counted, counters, series, received, uncounted} \subseteq 0..MaxOps

MonitoringInit ==
    /\ api_key \in BOOLEAN /\ alive = TRUE
    /\ emitted = 0 /\ q = <<>> /\ batch = <<>> /\ posting = FALSE
    /\ intake = <<>> /\ dropped = {} /\ unsent = {}
    /\ counted = 0 /\ counters = 0 /\ flush = "sleep" /\ series = 0
    /\ received = 0 /\ uncounted = 0

-----------------------------------------------------------------------------
(* Logs.                                                                   *)

\* A faulty emit: a queue without maxsize.
EmitUnbounded ==
    /\ emitted' = emitted + 1
    /\ q' = Append(q, emitted + 1)
    /\ UNCHANGED <<dropped, batch, posting, intake, unsent>>

\* emit, on the thread that logs: put_nowait, or drop.
Emit ==
    /\ emitted' = emitted + 1
    /\ IF Len(q) < QueueSize
       THEN q' = Append(q, emitted + 1) /\ UNCHANGED dropped
       ELSE dropped' = dropped \cup {emitted + 1} /\ UNCHANGED q
    /\ UNCHANGED <<batch, posting, intake, unsent>>

\* Some thread logs; what it does besides does not wait for the handler.
Logs == IF Followed THEN Emit ELSE UNCHANGED logVars

\* A record of the main thread.
MainLogs == Followed /\ Emit /\ UNCHANGED countVars

Gather ==
    /\ ~posting /\ Len(batch) < MaxBatch /\ q # <<>>
    /\ batch' = Append(batch, Head(q)) /\ q' = Tail(q)
    /\ UNCHANGED <<emitted, posting, intake, dropped, unsent, countVars>>

\* A faulty Gathered: only a full batch goes out.
GatheredFull ==
    /\ ~posting /\ Len(batch) = MaxBatch
    /\ posting' = TRUE
    /\ UNCHANGED <<emitted, q, batch, intake, dropped, unsent, countVars>>

\* The batch is full, or get() found nothing until the deadline: after it, a
\* queue that is not empty is still read.
Gathered ==
    /\ ~posting /\ batch # <<>>
    /\ Len(batch) = MaxBatch \/ q = <<>>
    /\ posting' = TRUE
    /\ UNCHANGED <<emitted, q, batch, intake, dropped, unsent, countVars>>

\* A faulty PostLogs: the worker's list is not a new one in every round.
PostLogsKeepsBatch ==
    /\ posting /\ api_key
    /\ intake' = intake \o batch
    /\ posting' = FALSE
    /\ UNCHANGED <<emitted, q, batch, dropped, unsent, countVars>>

PostLogs ==
    /\ posting /\ api_key
    /\ intake' = intake \o batch
    /\ batch' = <<>> /\ posting' = FALSE
    /\ UNCHANGED <<emitted, q, dropped, unsent, countVars>>

\* A faulty PostLogsFails: the batch is put back, behind what came in since.
PostLogsRequeues ==
    /\ posting
    /\ Len(q) + Len(batch) <= QueueSize
    /\ q' = q \o batch
    /\ batch' = <<>> /\ posting' = FALSE
    /\ UNCHANGED <<emitted, intake, dropped, unsent, countVars>>

\* Without a key, or when the request fails, the batch is gone.
PostLogsFails ==
    /\ posting
    /\ unsent' = unsent \cup ToSet(batch)
    /\ batch' = <<>> /\ posting' = FALSE
    /\ UNCHANGED <<emitted, q, intake, dropped, countVars>>

-----------------------------------------------------------------------------
(* Metrics.                                                                *)

\* A faulty increment, without the lock.
IncrementUnlocked ==
    /\ Followed
    /\ counted' = counted + 1 /\ counters' = counters + 1
    /\ UNCHANGED <<logVars, flush, series, received, uncounted>>

\* increment, on the thread that counts; it waits for the lock.
Increment ==
    /\ Followed /\ flush # "locked"
    /\ counted' = counted + 1 /\ counters' = counters + 1
    /\ UNCHANGED <<logVars, flush, series, received, uncounted>>

\* _flush takes the lock and copies; with nothing to copy it sends nothing.
CopyCounters ==
    /\ flush = "sleep" /\ api_key /\ counters # 0
    /\ flush' = "locked" /\ series' = counters
    /\ UNCHANGED <<logVars, counted, counters, received, uncounted>>

ClearCounters ==
    /\ flush = "locked"
    /\ flush' = "posting" /\ counters' = 0
    /\ UNCHANGED <<logVars, counted, series, received, uncounted>>

PostSeries ==
    /\ flush = "posting"
    /\ flush' = "sleep" /\ series' = 0
    /\ received' = received + series
    /\ UNCHANGED <<logVars, counted, counters, uncounted>>

PostSeriesFails ==
    /\ flush = "posting"
    /\ flush' = "sleep" /\ series' = 0
    /\ uncounted' = uncounted + series
    /\ UNCHANGED <<logVars, counted, counters, received>>

-----------------------------------------------------------------------------

\* What a count is in, besides counters: the copy, once counters is cleared.
InFlight == IF flush = "posting" THEN series ELSE 0

InMemory == ToSet(q) \cup ToSet(batch)

\* The process ends, and its daemon threads with it.  A request on its way may
\* still arrive; nobody learns whether it did, and here it does not.
EndProcess ==
    /\ alive' = FALSE
    /\ unsent' = unsent \cup InMemory
    /\ q' = <<>> /\ batch' = <<>> /\ posting' = FALSE
    /\ uncounted' = uncounted + counters + InFlight
    /\ counters' = 0 /\ series' = 0 /\ flush' = "sleep"
    /\ UNCHANGED <<api_key, emitted, intake, dropped, counted, received>>

LogShipper == Gather \/ Gathered \/ PostLogs \/ PostLogsFails

MetricFlusher == CopyCounters \/ ClearCounters \/ PostSeries \/ PostSeriesFails

-----------------------------------------------------------------------------
(* Properties.                                                             *)

\* Every record is in one place: it is shipped once, or dropped because the queue was
\* full, or lost with its POST or its process, and never forgotten in between.
RecordsAccounted ==
    LET places == <<q, batch, intake>>
    IN  /\ Len(q) + Len(batch) + Len(intake) + Cardinality(dropped \cup unsent) = emitted
        /\ (UNION {ToSet(places[i]) : i \in 1..3}) \cup dropped \cup unsent = 1..emitted

\* Datadog gets the records in the order they were logged, whatever was dropped.
ShippedInOrder ==
    \A i, j \in DOMAIN intake : i < j => intake[i] < intake[j]

\* No count is lost or sent twice between the threads that count and the one that
\* flushes; only a failed POST or the end of the process loses some.
CountsAccounted == counted = counters + InFlight + received + uncounted

\* No record stays in the process for ever, not even the last ones before a silence.
RecordsLeave == \A r \in Records : r <= emitted ~> r \notin InMemory
===============================================================================
