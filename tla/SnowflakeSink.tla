---------------------------- MODULE SnowflakeSink ----------------------------
(***************************************************************************)
(* SnowflakeSink of src/snowflake_sink.py: the in-memory buffer and the    *)
(* flush that writes it, statement by statement and with retries, to the   *)
(* warehouse.  publish() and flush() are called by one thread; a call is   *)
(* over when phase is "idle" again, and result says how it ended.          *)
(*                                                                         *)
(* The flush works on a copy of the buffer (batch); nothing else runs on   *)
(* the CDC thread until the call returns, so buffer stands for both.       *)
(***************************************************************************)
EXTENDS Snowflake, Sequences, Functions

CONSTANTS
    BatchSize,   \* _BATCH_SIZE
    MaxRetries,  \* _MAX_RETRIES
    MaxFaults    \* bound: failures the environment may inject

ASSUME SinkAssumption ==
    /\ BatchSize \in Nat
    /\ MaxRetries \in Nat \ {0}
    /\ MaxFaults \in Nat

VARIABLES
    buffer,     \* _buffer, oldest change first
    cursor,     \* the caller's place in the stream: the last change it took up
    phase,      \* where the flush stands; "idle" outside of one
    tries,      \* attempt of _flush's for loop
    todo,       \* tables of by_table the attempt has not reached yet
    table,      \* the table being written
    dels,       \* deletes of that table still to be executed
    conn,       \* _conn: none, good, or bad (open for the client, dead in fact)
    result,     \* how the last call ended
    confirmed,  \* what the last successful flush returned, 0 before any
    faults      \* failures injected so far

sinkVars == <<buffer, cursor, phase, tries, todo, table, dels, conn, result,
              confirmed, faults, current, copies>>

Phase == {"idle", "attempt", "table", "merge", "delete", "history", "confirm"}

SinkTypeOK ==
    /\ buffer \in Seq(Event)
    /\ cursor \in 0..MaxSeq
    /\ phase \in Phase
    /\ tries \in 0..MaxRetries
    /\ todo \subseteq Table
    /\ table \in Table \cup {"none"}
    /\ dels \subseteq Event
    /\ conn \in {"none", "good", "bad"}
    /\ result \in {"ok", "raised"}
    /\ confirmed \in 0..MaxTx
    /\ faults \in 0..MaxFaults
    /\ current \in [Table -> [Key -> Cell]]
    /\ copies \in [Seqs -> Nat]

Batch == Range(buffer)
Upserts(t) == {e \in Batch : e.table = t /\ e.op = "u"}
Deletes(t) == {e \in Batch : e.table = t /\ e.op = "d"}
OfTable(t) == {e \in Batch : e.table = t}
TablesOf == {e.table : e \in Batch}

SinkInit ==
    /\ EmptyWarehouse
    /\ buffer = <<>> /\ cursor = 0
    /\ phase = "idle" /\ tries = 0
    /\ todo = {} /\ table = "none" /\ dels = {}
    /\ conn = "none" /\ result = "ok"
    /\ confirmed = 0 /\ faults = 0

-----------------------------------------------------------------------------
(* The calls.                                                              *)

\* A faulty publish, of a caller that is given the same changes again.
PublishAgain(e, elapsed) ==
    /\ phase = "idle"
    /\ cursor' = IF e.seq > cursor THEN e.seq ELSE cursor
    /\ buffer' = Append(buffer, e)
    /\ result' = "ok"
    /\ IF Len(buffer) + 1 >= BatchSize \/ elapsed
       THEN phase' = "attempt" /\ tries' = 1
       ELSE UNCHANGED <<phase, tries>>
    /\ UNCHANGED <<todo, table, dels, conn, confirmed, faults, warehouse>>

\* publish(event); elapsed is the clock's answer to "_FLUSH_INTERVAL has passed".
Publish(e, elapsed) ==
    /\ phase = "idle"
    /\ e.seq > cursor
    /\ cursor' = e.seq
    /\ buffer' = Append(buffer, e)
    /\ result' = "ok"
    /\ IF Len(buffer) + 1 >= BatchSize \/ elapsed
       THEN phase' = "attempt" /\ tries' = 1
       ELSE UNCHANGED <<phase, tries>>
    /\ UNCHANGED <<todo, table, dels, conn, confirmed, faults, warehouse>>

\* flush(): returns at once when the buffer is empty.
Flush ==
    /\ phase = "idle"
    /\ result' = "ok"
    /\ IF buffer = <<>> THEN UNCHANGED <<phase, tries>>
                        ELSE phase' = "attempt" /\ tries' = 1
    /\ UNCHANGED <<buffer, cursor, todo, table, dels, conn, confirmed, faults, warehouse>>

-----------------------------------------------------------------------------
(* One attempt of _write_batch.                                            *)

\* _get_conn() keeps an open connection, whether or not it still works.
Connect ==
    /\ phase = "attempt"
    /\ conn' = IF conn = "none" THEN "good" ELSE conn
    /\ todo' = TablesOf
    /\ phase' = "table"
    /\ UNCHANGED <<buffer, cursor, tries, table, dels, result, confirmed, faults, warehouse>>

AfterMerge(t) == IF Deletes(t) # {} THEN "delete" ELSE "history"

\* by_table keeps the order in which the batch first names each table.
FirstNamed(t) ==
    /\ t \in todo
    /\ \E i \in DOMAIN buffer :
          /\ buffer[i].table = t
          /\ \A j \in 1..i-1 : buffer[j].table \notin todo

NextTable ==
    /\ phase = "table"
    /\ \E t \in todo :
          /\ FirstNamed(t)
          /\ table' = t
          /\ todo' = todo \ {t}
          /\ dels' = Deletes(t)
          /\ phase' = IF Upserts(t) # {} THEN "merge" ELSE AfterMerge(t)
    /\ UNCHANGED <<buffer, cursor, tries, conn, result, confirmed, faults, warehouse>>

MergeCurrent ==
    /\ phase = "merge" /\ conn = "good"
    /\ Merge(table, Upserts(table))
    /\ phase' = AfterMerge(table)
    /\ UNCHANGED <<buffer, cursor, tries, todo, table, dels, conn, result, confirmed, faults>>

FirstDelete(e) == e \in dels /\ \A f \in dels : e.seq <= f.seq

DeleteCurrent ==
    /\ phase = "delete" /\ conn = "good"
    /\ \E e \in dels :
          /\ FirstDelete(e)
          /\ Delete(e)
          /\ dels' = dels \ {e}
          /\ phase' = IF dels = {e} THEN "history" ELSE "delete"
    /\ UNCHANGED <<buffer, cursor, tries, todo, table, conn, result, confirmed, faults>>

\* A faulty InsertHistory: _write_batch returns from within its loop.
InsertHistoryAndReturn ==
    /\ phase = "history" /\ conn = "good"
    /\ AppendHistory(OfTable(table))
    /\ phase' = "confirm"
    /\ UNCHANGED <<buffer, cursor, tries, todo, table, dels, conn, result, confirmed, faults>>

InsertHistory ==
    /\ phase = "history" /\ conn = "good"
    /\ AppendHistory(OfTable(table))
    /\ phase' = IF todo = {} THEN "confirm" ELSE "table"
    /\ UNCHANGED <<buffer, cursor, tries, todo, table, dels, conn, result, confirmed, faults>>

Latest(e) == \A f \in Batch : f.tx <= e.tx

Finish ==
    /\ phase' = "idle" /\ result' = "ok"
    /\ todo' = {} /\ table' = "none" /\ dels' = {} /\ tries' = 0
    /\ UNCHANGED <<cursor, conn, faults, warehouse>>

\* A faulty Confirm, without _buffer.clear().
ConfirmKeepingBuffer ==
    /\ phase = "confirm"
    /\ \E e \in Batch : Latest(e) /\ confirmed' = e.tx
    /\ UNCHANGED buffer
    /\ Finish

\* A faulty Confirm: it returns the LSN the next poll should start from.
ConfirmOnePast ==
    /\ phase = "confirm"
    /\ \E e \in Batch : Latest(e) /\ confirmed' = e.tx + 1
    /\ buffer' = <<>>
    /\ Finish

\* The end of _flush: the buffer is dropped and the highest commit LSN returned.
Confirm ==
    /\ phase = "confirm"
    /\ \E e \in Batch : Latest(e) /\ confirmed' = e.tx
    /\ buffer' = <<>>
    /\ Finish

-----------------------------------------------------------------------------
(* Failures.                                                               *)

\* Faulty variants of EndAttempt: one retry too many, the batch dropped with the
\* last failure, and no fresh connection for the next attempt.
EndAttemptOnceMore ==
    /\ IF tries <= MaxRetries
       THEN phase' = "attempt" /\ tries' = tries + 1 /\ conn' = "none" /\ UNCHANGED result
       ELSE phase' = "idle" /\ tries' = 0 /\ result' = "raised" /\ UNCHANGED conn
    /\ todo' = {} /\ table' = "none" /\ dels' = {}
    /\ UNCHANGED <<buffer, cursor, confirmed>>

EndAttemptDropping ==
    /\ IF tries < MaxRetries
       THEN /\ phase' = "attempt" /\ tries' = tries + 1 /\ conn' = "none"
            /\ UNCHANGED <<result, buffer>>
       ELSE /\ phase' = "idle" /\ tries' = 0 /\ result' = "raised" /\ buffer' = <<>>
            /\ UNCHANGED conn
    /\ todo' = {} /\ table' = "none" /\ dels' = {}
    /\ UNCHANGED <<cursor, confirmed>>

EndAttemptSameConn ==
    /\ IF tries < MaxRetries
       THEN phase' = "attempt" /\ tries' = tries + 1 /\ UNCHANGED result
       ELSE phase' = "idle" /\ tries' = 0 /\ result' = "raised"
    /\ todo' = {} /\ table' = "none" /\ dels' = {}
    /\ UNCHANGED <<buffer, cursor, confirmed, conn>>

\* The except branch of _flush.  The last failure leaves buffer and _conn as they are.
EndAttempt ==
    /\ IF tries < MaxRetries
       THEN /\ phase' = "attempt" /\ tries' = tries + 1
            /\ conn' = "none"
            /\ UNCHANGED result
       ELSE /\ phase' = "idle" /\ tries' = 0
            /\ result' = "raised"
            /\ UNCHANGED conn
    /\ todo' = {} /\ table' = "none" /\ dels' = {}
    /\ UNCHANGED <<buffer, cursor, confirmed>>

Fault == faults < MaxFaults /\ faults' = faults + 1

\* The credentials or the connection are refused.
ConnectFails ==
    /\ phase = "attempt" /\ conn = "none"
    /\ Fault
    /\ EndAttempt
    /\ UNCHANGED warehouse

AtStatement == phase \in {"merge", "delete", "history"}

\* The statement never takes effect; over a bad connection it cannot.
StatementFails ==
    /\ AtStatement
    /\ IF conn = "bad" THEN UNCHANGED faults ELSE Fault
    /\ EndAttempt
    /\ UNCHANGED warehouse

\* The statement takes effect and the client sees a timeout instead of the answer.
ReplyLost ==
    /\ AtStatement /\ conn = "good"
    /\ Fault
    /\ \/ phase = "merge" /\ Merge(table, Upserts(table))
       \/ phase = "delete" /\ \E e \in dels : FirstDelete(e) /\ Delete(e)
       \/ phase = "history" /\ AppendHistory(OfTable(table))
    /\ EndAttempt

\* An established connection stops working, unseen until a statement uses it.
ConnDrop ==
    /\ conn = "good"
    /\ Fault
    /\ conn' = "bad"
    /\ UNCHANGED <<buffer, cursor, phase, tries, todo, table, dels, result, confirmed, warehouse>>

\* The process dies, in a flush or outside of one, and a new one starts: all it
\* kept in memory is gone.  The changes up to n will not be handed to it again.
Restart(n) ==
    /\ n \in cursor..MaxSeq
    /\ cursor' = n
    /\ buffer' = <<>> /\ phase' = "idle" /\ tries' = 0
    /\ todo' = {} /\ table' = "none" /\ dels' = {}
    /\ conn' = "none" /\ result' = "ok" /\ confirmed' = 0
    /\ UNCHANGED <<faults, warehouse>>

\* The caller passes over changes without publishing them.
Skip(n) ==
    /\ phase = "idle"
    /\ n \in cursor+1..MaxSeq
    /\ cursor' = n
    /\ UNCHANGED <<buffer, phase, tries, todo, table, dels, conn, result, confirmed,
                   faults, warehouse>>

-----------------------------------------------------------------------------

Write == Connect \/ NextTable \/ MergeCurrent \/ DeleteCurrent \/ InsertHistory \/ Confirm

Failure == ConnectFails \/ StatementFails \/ ReplyLost \/ ConnDrop

\* What a caller may do: publish a stream in commit order, flush, pass over, die.
Caller ==
    \/ \E e \in Event, elapsed \in BOOLEAN :
          (\A f \in Batch : f.tx <= e.tx) /\ Publish(e, elapsed)
    \/ Flush
    \/ \E n \in Seqs : Skip(n)
    \/ \E n \in 0..MaxSeq : Restart(n)

SinkNext == Caller \/ Write \/ Failure

SinkSpec == SinkInit /\ [][SinkNext]_sinkVars

-----------------------------------------------------------------------------
(* Properties.                                                             *)

\* A cell holds what some buffered change of its row left.
Settled(e) ==
    \E f \in Batch : /\ f.table = e.table /\ f.key = e.key
                     /\ current[f.table][f.key] = Image(f)

\* When _flush is about to drop the buffer, every change in it has its audit
\* row and the current-state row it touches shows a change of this batch:
\* whatever failed on the way, no partial attempt passes for a full one.
BatchWritten ==
    phase = "confirm" =>
        \A e \in Batch : copies[e.seq] >= 1 /\ Settled(e)

\* A current-state row goes back to an older change only while the newer one
\* is still in the buffer, so that the flush under way (or its retry) decides
\* between the two; a row an earlier flush has finished with is never undone.
NoStaleOverwrite ==
    [][\A t \in Table, k \in Key :
          current'[t][k].ver < current[t][k].ver =>
              \E e \in Batch : e.seq = current[t][k].ver]_sinkVars

\* Audit rows are duplicated only by failures, and each failure costs at most
\* one more copy of a change: statements are not undone when a flush is retried.
DuplicatesNeedFailure ==
    \A s \in Seqs : copies[s] <= 1 + faults

\* _build_batch_merge_sql: "if the same PK appears multiple times in one batch
\* only the LAST occurrence is applied" (a batch without deletes of that row).
LastOccurrenceWins ==
    phase = "confirm" =>
        \A e \in Batch :
            (\A f \in Batch : f.table = e.table /\ f.key = e.key =>
                                  f.op = "u" /\ f.seq <= e.seq)
            => current[e.table][e.key] = Image(e)

\* README.md:16: a current-state table is "kept in sync via MERGE (upsert/delete)":
\* a row whose last change in the batch is its only upsert there ends up with it.
ReinsertSurvives ==
    phase = "confirm" =>
        \A e \in Batch :
            (/\ e.op = "u"
             /\ \A f \in Batch : f.table = e.table /\ f.key = e.key =>
                                  f = e \/ (f.op = "d" /\ f.seq < e.seq))
            => current[e.table][e.key] = Image(e)
==============================================================================
