------------------------------ MODULE CdcService ------------------------------
(***************************************************************************)
(* The CDC process: run() of src/main.py with the replication slot it      *)
(* polls (src/pg_replication.py) and the sink it hands changes to.  One    *)
(* thread does everything, so a call of the sink is a stretch of sink      *)
(* steps between the step of run() that makes it and the one that returns. *)
(*                                                                         *)
(* PostgreSQL is external: wal is what the publication lets through of its *)
(* log, in commit order, and slot is how much of it the slot has consumed. *)
(***************************************************************************)
EXTENDS SnowflakeSink

CONSTANTS
    Unmapped,      \* published tables that _TABLE_MAP does not name
    BackoffBase,   \* BACKOFF_BASE
    BackoffMax,    \* BACKOFF_MAX
    MaxTxSize,     \* bound: changes in one transaction
    MaxPgFaults,   \* bound: failures of the connection to PostgreSQL
    MaxEnds        \* bound: SIGTERMs and crashes

ASSUME ServiceAssumption ==
    /\ Unmapped \cap Table = {}
    /\ BackoffBase \in Nat /\ BackoffMax \in Nat
    /\ MaxTxSize \in Nat /\ MaxPgFaults \in Nat /\ MaxEnds \in Nat

VARIABLES
    wal,        \* the published changes, in commit order
    slot,       \* how many of them the replication slot has given out
    pc,         \* where run() stands
    attempt,    \* failed attempts to open the stream, in a row
    wait,       \* the back-off chosen, in half-seconds
    ready,      \* _state["ready"] of the health server
    shutdown,   \* _shutdown
    pgFaults,   \* failures of the connection to PostgreSQL so far
    ends        \* SIGTERMs and crashes so far

bounds == <<pgFaults, ends>>
vars == <<sinkVars, wal, slot, pc, attempt, wait, ready, shutdown, bounds>>

Change == [tx : 1..MaxTx, table : Table \cup Unmapped, op : {"u", "d"}, key : Key]

Pc == {"connect", "poll", "rows", "publish", "idleFlush", "drainFlush", "finalFlush",
       "unwind", "backoff", "stopped", "down"}

Streaming == pc \in {"poll", "rows", "publish", "idleFlush", "drainFlush"}

Mapped(i) == wal[i].table \in Table

EventAt(i) == [seq |-> i, tx |-> wal[i].tx, table |-> wal[i].table,
               op |-> wal[i].op, key |-> wal[i].key]

TypeOK ==
    /\ SinkTypeOK
    /\ wal \in Seq(Change) /\ Len(wal) <= MaxSeq
    /\ slot \in 0..Len(wal)
    /\ pc \in Pc
    /\ attempt \in 0..MaxPgFaults
    /\ wait \in 0..2 * BackoffMax
    /\ ready \in BOOLEAN /\ shutdown \in BOOLEAN
    /\ pgFaults \in 0..MaxPgFaults /\ ends \in 0..MaxEnds

Init ==
    /\ SinkInit
    /\ wal = <<>> /\ slot = 0
    /\ pc = "connect" /\ attempt = 0 /\ wait = 0
    /\ ready = FALSE /\ shutdown = FALSE
    /\ pgFaults = 0 /\ ends = 0

-----------------------------------------------------------------------------
(* The source.                                                             *)

\* A row is not deleted twice without having come back in between.
Valid(w) ==
    \A i, j \in DOMAIN w :
        (i < j /\ w[i].op = "d" /\ w[j].op = "d"
               /\ w[i].table = w[j].table /\ w[i].key = w[j].key)
        => \E m \in i..j : w[m].op = "u" /\ w[m].table = w[i].table /\ w[m].key = w[i].key

LastTx == IF wal = <<>> THEN 0 ELSE wal[Len(wal)].tx

Commit ==
    /\ LastTx < MaxTx
    /\ \E n \in 1..MaxTxSize :
          \E body \in [1..n -> {c \in Change : c.tx = LastTx + 1}] :
             /\ Len(wal) + n <= MaxSeq
             /\ Valid(wal \o body)
             /\ wal' = wal \o body
    /\ UNCHANGED <<sinkVars, slot, pc, attempt, wait, ready, shutdown, bounds>>

\* Decoding stops at the end of a transaction, so a poll returns whole ones.
TxEnds == {n \in DOMAIN wal : n = Len(wal) \/ wal[n].tx # wal[n + 1].tx}

Polled == {n \in TxEnds : n > slot}

-----------------------------------------------------------------------------
(* Opening the stream: the top of the outer loop and cdc_connection().     *)

PgFault == pgFaults < MaxPgFaults /\ pgFaults' = pgFaults + 1

\* Faulty variants of OpenStream: attempt is not reset, and "while True".
OpenStreamCounting ==
    /\ pc = "connect" /\ ~shutdown
    /\ attempt' = attempt + 1 /\ ready' = TRUE
    /\ pc' = "poll"
    /\ UNCHANGED <<sinkVars, wal, slot, wait, shutdown, bounds>>

OpenStreamForever ==
    /\ pc = "connect"
    /\ attempt' = 0 /\ ready' = TRUE
    /\ pc' = "poll"
    /\ UNCHANGED <<sinkVars, wal, slot, wait, shutdown, bounds>>

OpenStream ==
    /\ pc = "connect" /\ ~shutdown
    /\ attempt' = 0 /\ ready' = TRUE
    /\ pc' = "poll"
    /\ UNCHANGED <<sinkVars, wal, slot, wait, shutdown, bounds>>

OpenFails ==
    /\ pc = "connect" /\ ~shutdown
    /\ PgFault
    /\ attempt' = attempt + 1 /\ ready' = FALSE
    /\ pc' = "unwind"
    /\ UNCHANGED <<sinkVars, wal, slot, wait, shutdown, ends>>

-----------------------------------------------------------------------------
(* The inner loop.                                                         *)

PollEmpty ==
    /\ pc = "poll" /\ ~shutdown
    /\ slot = Len(wal)
    /\ Flush
    /\ pc' = "idleFlush"
    /\ UNCHANGED <<wal, slot, attempt, wait, ready, shutdown, bounds>>

\* poll_changes: the slot moves as the rows are handed over.
PollRows ==
    /\ pc = "poll" /\ ~shutdown
    /\ \E n \in Polled : slot' = n
    /\ pc' = "rows"
    /\ UNCHANGED <<sinkVars, wal, attempt, wait, ready, shutdown, bounds>>

PollFails ==
    /\ pc = "poll" /\ ~shutdown
    /\ PgFault
    /\ pc' = "unwind"
    /\ UNCHANGED <<sinkVars, wal, slot, attempt, wait, ready, shutdown, ends>>

\* The slot has moved and the connection breaks before the rows arrive.
PollReplyLost ==
    /\ pc = "poll" /\ ~shutdown
    /\ PgFault
    /\ \E n \in Polled : slot' = n /\ Skip(n)
    /\ pc' = "unwind"
    /\ UNCHANGED <<wal, attempt, wait, ready, shutdown, ends>>

\* The next row of the poll is an event of a mapped table: publish it.
PublishRow ==
    /\ pc = "rows" /\ ~shutdown
    /\ cursor < slot /\ Mapped(cursor + 1)
    /\ \E elapsed \in BOOLEAN : Publish(EventAt(cursor + 1), elapsed)
    /\ pc' = "publish"
    /\ UNCHANGED <<wal, slot, attempt, wait, ready, shutdown, bounds>>

SkipRow ==
    /\ pc = "rows" /\ ~shutdown
    /\ cursor < slot /\ ~Mapped(cursor + 1)
    /\ Skip(cursor + 1)
    /\ UNCHANGED <<wal, slot, pc, attempt, wait, ready, shutdown, bounds>>

\* The local list changes goes out of scope with the rows not reached yet.
ForgetRows == IF cursor < slot THEN Skip(slot) ELSE UNCHANGED sinkVars

\* The for loop ends: at its last row, or "if _shutdown: break" before it.
RowsDone ==
    /\ pc = "rows"
    /\ cursor = slot \/ shutdown
    /\ ForgetRows
    /\ pc' = "poll"
    /\ UNCHANGED <<wal, slot, attempt, wait, ready, shutdown, bounds>>

\* "while not _shutdown" ends: the last flush with the stream still open.
Drain ==
    /\ pc = "poll" /\ shutdown
    /\ Flush
    /\ pc' = "drainFlush"
    /\ UNCHANGED <<wal, slot, attempt, wait, ready, shutdown, bounds>>

\* A call of the sink returned; after drainFlush the connection is closed.
Returned ==
    /\ phase = "idle" /\ result = "ok"
    /\ \/ pc = "publish" /\ pc' = "rows"
       \/ pc = "idleFlush" /\ pc' = "poll"
       \/ pc = "drainFlush" /\ pc' = "connect"
    /\ UNCHANGED <<sinkVars, wal, slot, attempt, wait, ready, shutdown, bounds>>

\* Faulty variants of Raised: a new sink for every stream, and a failed batch
\* given up for the sake of the rows behind it.
RaisedFreshSink ==
    /\ phase = "idle" /\ result = "raised"
    /\ pc \in {"publish", "idleFlush", "drainFlush"}
    /\ Restart(slot)
    /\ pc' = "unwind"
    /\ UNCHANGED <<wal, slot, attempt, wait, ready, shutdown, bounds>>

RaisedKeepingRows ==
    /\ phase = "idle" /\ result = "raised"
    /\ pc \in {"publish", "idleFlush", "drainFlush"}
    /\ Restart(cursor)
    /\ pc' = "unwind"
    /\ UNCHANGED <<wal, slot, attempt, wait, ready, shutdown, bounds>>

\* It raised: the with block is left, and the rest of the poll goes with it.
Raised ==
    /\ phase = "idle" /\ result = "raised"
    /\ pc \in {"publish", "idleFlush", "drainFlush"}
    /\ ForgetRows
    /\ pc' = "unwind"
    /\ UNCHANGED <<wal, slot, attempt, wait, ready, shutdown, bounds>>

-----------------------------------------------------------------------------
(* Errors, the end of the process and the next one.                        *)

Least(a, b) == IF a <= b THEN a ELSE b

\* min(BACKOFF_BASE * 2 ** min(attempt - 1, 6), BACKOFF_MAX), in half-seconds:
\* attempt is 0 when the stream had been opened, and 2 ** -1 is a half.
Backoff(a) == Least(BackoffBase * 2 ^ Least(a, 7), 2 * BackoffMax)

\* A faulty handler, without its set_ready(False).
HandleErrorStillReady ==
    /\ pc = "unwind"
    /\ wait' = Backoff(attempt)
    /\ pc' = "backoff"
    /\ UNCHANGED <<sinkVars, wal, slot, attempt, ready, shutdown, bounds>>

\* "except Exception" of run().
HandleError ==
    /\ pc = "unwind"
    /\ ready' = FALSE
    /\ wait' = Backoff(attempt)
    /\ pc' = "backoff"
    /\ UNCHANGED <<sinkVars, wal, slot, attempt, shutdown, bounds>>

\* time.sleep returns; a signal handled meanwhile does not cut it short.
WakeUp ==
    /\ pc = "backoff"
    /\ wait' = 0
    /\ pc' = "connect"
    /\ UNCHANGED <<sinkVars, wal, slot, attempt, ready, shutdown, bounds>>

\* The flush after the outer loop.
FinalFlush ==
    /\ pc = "connect" /\ shutdown
    /\ Flush
    /\ pc' = "finalFlush"
    /\ UNCHANGED <<wal, slot, attempt, wait, ready, shutdown, bounds>>

\* run() returns, or the exception of its last flush ends the process.
Exit ==
    /\ pc = "finalFlush" /\ phase = "idle"
    /\ pc' = IF result = "ok" THEN "stopped" ELSE "down"
    /\ Restart(slot)
    /\ attempt' = 0 /\ wait' = 0 /\ ready' = FALSE /\ shutdown' = FALSE
    /\ UNCHANGED <<wal, slot, bounds>>

Running == pc \notin {"stopped", "down"}

End == Running /\ ends < MaxEnds /\ ends' = ends + 1

\* SIGKILL, out of memory, a lost node.
Crash ==
    /\ End
    /\ pc' = "down"
    /\ Restart(slot)
    /\ attempt' = 0 /\ wait' = 0 /\ ready' = FALSE /\ shutdown' = FALSE
    /\ UNCHANGED <<wal, slot, pgFaults>>

\* A faulty signal handler, which flushes there and then.
SigtermFlushing ==
    /\ End
    /\ ~shutdown
    /\ shutdown' = TRUE
    /\ IF buffer = <<>> THEN UNCHANGED <<phase, tries>> ELSE phase' = "attempt" /\ tries' = 1
    /\ UNCHANGED <<buffer, cursor, todo, table, dels, conn, result, confirmed, faults,
                   warehouse, wal, slot, pc, attempt, wait, ready, pgFaults>>

\* _handle_sigterm runs between two steps of the main thread.
Sigterm ==
    /\ End
    /\ ~shutdown
    /\ shutdown' = TRUE
    /\ UNCHANGED <<sinkVars, wal, slot, pc, attempt, wait, ready, pgFaults>>

\* The orchestrator starts the next process.
Start ==
    /\ pc \in {"stopped", "down"}
    /\ pc' = "connect"
    /\ UNCHANGED <<sinkVars, wal, slot, attempt, wait, ready, shutdown, bounds>>

-----------------------------------------------------------------------------

Loop ==
    \/ OpenStream \/ OpenFails
    \/ PollEmpty \/ PollRows \/ PollFails \/ PollReplyLost
    \/ PublishRow \/ SkipRow \/ RowsDone \/ Drain
    \/ Returned \/ Raised
    \/ HandleError \/ WakeUp \/ FinalFlush \/ Exit

\* The sink works on the call it was given, and run() waits for it.
Sink ==
    /\ Write \/ Failure
    /\ UNCHANGED <<wal, slot, pc, attempt, wait, ready, shutdown, bounds>>

Next == Commit \/ Loop \/ Sink \/ Crash \/ Sigterm \/ Start

Spec == Init /\ [][Next]_vars

\* The thread keeps running while the process lives, and a process that ended is
\* started again.  No transaction, signal, crash or dropped connection has to come.
Thread == Loop \/ (Sink /\ phase # "idle")

FairSpec == Spec /\ WF_vars(Thread) /\ WF_vars(Start)

-----------------------------------------------------------------------------
(* Properties.                                                             *)

Buffered(i) == \E e \in Batch : e.seq = i

\* Handed to the process, not in its memory any more, and without an audit row.
Lost == {i \in 1..cursor : Mapped(i) /\ ~Buffered(i) /\ copies[i] = 0}

\* A change is given up only where an exception leaves the with block, where the
\* process ends, or where SIGTERM breaks off a poll; never by a flush or a retry.
LossOnlyOnAbandon ==
    [][Lost' # Lost => pc' \in {"unwind", "down"} \/ shutdown]_vars

\* The buffer survives reconnects (main.py:53): what is in it leaves it only once
\* it is in the audit trail, or with the process.
BufferedUntilWritten ==
    [][\A i \in 1..MaxSeq :
          Buffered(i) /\ ~Buffered(i)' => copies[i] >= 1 \/ ~Running']_vars

\* A flush confirms a commit LSN: all earlier transactions are written or already lost.
ConfirmedBoundary ==
    \A i \in 1..Len(wal) :
        Mapped(i) /\ wal[i].tx < confirmed => copies[i] >= 1 \/ i \in Lost

\* /readyz answers 200 only with the replication stream open, or just closed.
ReadyMeansStreaming ==
    ready => Streaming \/ pc = "unwind" \/ shutdown

Delivered(i) == copies[i] >= 1

FateOf(i) ==
    IF i > slot THEN "source"
    ELSE IF ~Mapped(i) THEN "ignored"
    ELSE IF Delivered(i) THEN "recorded"
    ELSE IF i \in Lost THEN "lost" ELSE "held"

D == INSTANCE Delivery WITH committed <- Len(wal), fate <- [i \in 1..MaxSeq |-> FateOf(i)]

\* The service is the at-most-once queue of Delivery.
ImplementsDelivery == D!DSpec

\* The calls run() makes are calls the sink allows: in commit order, one at a time.
CallsSinkProperly == SinkSpec

\* Every published change is written in the end, or is lost for good.
EventuallySettled ==
    \A i \in 1..MaxSeq :
        (i <= Len(wal) /\ Mapped(i)) ~> (Delivered(i) \/ i \in Lost)

\* SIGTERM ends the process whatever it was doing.
ShutdownCompletes == shutdown ~> ~Running

\* main.py:11-12: "The replication slot preserves the LSN, so no events are lost
\* across reconnects (network blips, token expiry, restarts, etc.)".
NoEventLost == Lost = {}
==============================================================================
