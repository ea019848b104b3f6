--------------------------- MODULE CdcServiceProofs ---------------------------
(***************************************************************************)
(* Theorems of CdcService, for every log, fault and signal: its type       *)
(* invariant, that it calls the sink as the sink expects (which makes the  *)
(* theorems of SnowflakeSinkProofs hold of the running service), and what  *)
(* it may and may not lose.                                                *)
(***************************************************************************)
EXTENDS CdcService, SnowflakeSinkProofs

(* The inductive invariant, in named parts.                                *)

\* The log is in commit order and the slot stands within it.
SourceOK ==
    /\ wal \in Seq(Change) /\ Len(wal) <= MaxSeq
    /\ slot \in 0..Len(wal)
    /\ \A i, j \in 1..Len(wal) : i <= j => wal[i].tx <= wal[j].tx

\* The variables of run() itself; every failed attempt was paid for by a fault.
ControlOK ==
    /\ pc \in Pc
    /\ attempt \in Nat /\ attempt <= pgFaults
    /\ wait \in 0..2 * BackoffMax
    /\ ready \in BOOLEAN /\ shutdown \in BOOLEAN
    /\ pgFaults \in 0..MaxPgFaults /\ ends \in 0..MaxEnds
    /\ pc \in {"drainFlush", "finalFlush"} => shutdown
    /\ ReadyMeansStreaming

\* The sink is never ahead of the slot; outside of the for loop it is level with it.
InStep ==
    /\ cursor <= slot
    /\ pc \notin {"rows", "publish"} => cursor = slot

\* The buffer holds changes of the log as they are in the log.
HeldFromLog ==
    /\ \A e \in Batch : e = EventAt(e.seq)
    /\ confirmed <= LastTx

ServiceInv ==
    /\ SinkInv
    /\ SourceOK
    /\ ControlOK
    /\ InStep
    /\ HeldFromLog
    /\ ConfirmedBoundary

-----------------------------------------------------------------------------
(* The source.                                                             *)

\* The first transactions of the log stay as they are; what is appended is newer.
Extends ==
    /\ Len(wal) <= Len(wal')
    /\ \A i \in 1..Len(wal) : wal'[i] = wal[i]
    /\ \A i \in Len(wal)+1..Len(wal') : wal'[i].tx > LastTx
    /\ LastTx' \in Nat /\ LastTx <= LastTx'

\* A sequence followed by a tuple of n elements.
LEMMA Concatenated ==
    ASSUME NEW S, NEW a \in Seq(S), NEW n \in Nat, NEW b \in [1..n -> S]
    PROVE  /\ a \o b \in Seq(S)
           /\ Len(a \o b) = Len(a) + n
           /\ \A i \in 1..Len(a) : (a \o b)[i] = a[i]
           /\ \A i \in Len(a)+1..Len(a)+n : (a \o b)[i] = b[i - Len(a)]
<1>1. a \o b \in Seq(S) /\ Len(a \o b) = Len(a) + n
  OBVIOUS
<1>2. \A i \in 1..Len(a) : (a \o b)[i] = a[i]
  OBVIOUS
<1>3. \A i \in Len(a)+1..Len(a)+n : (a \o b)[i] = b[i - Len(a)]
  OBVIOUS
<1> QED
  BY <1>1, <1>2, <1>3

\* The newest transaction is at least as new as any change of the log.
LEMMA LastTxBound ==
    ASSUME SourceOK
    PROVE  LastTx \in 0..MaxTx /\ \A i \in 1..Len(wal) : wal[i].tx <= LastTx
<1>1. CASE wal = <<>>
  BY <1>1, WarehouseAssumption DEF LastTx
<1>2. CASE wal # <<>>
  <2>1. Len(wal) \in 1..Len(wal) /\ wal[Len(wal)] \in Change
    BY <1>2 DEF SourceOK
  <2>2. LastTx = wal[Len(wal)].tx /\ LastTx \in 1..MaxTx
    BY <1>2, <2>1 DEF LastTx, Change
  <2>3. \A i \in 1..Len(wal) : i <= Len(wal)
    BY DEF SourceOK
  <2> QED
    BY <2>1, <2>2, <2>3, WarehouseAssumption DEF SourceOK
<1> QED
  BY <1>1, <1>2

\* A commit appends one transaction, newer than all before it.
LEMMA CommitSource ==
    ASSUME SourceOK, Commit
    PROVE  SourceOK' /\ Extends
<1>1. LastTx \in Nat /\ \A i \in 1..Len(wal) : wal[i].tx <= LastTx
  BY LastTxBound, WarehouseAssumption
<1>0. PICK n \in 1..MaxTxSize :
          \E body \in [1..n -> {c \in Change : c.tx = LastTx + 1}] :
              Len(wal) + n <= MaxSeq /\ wal' = wal \o body
  BY DEF Commit
<1>2. PICK body \in [1..n -> {c \in Change : c.tx = LastTx + 1}] :
          Len(wal) + n <= MaxSeq /\ wal' = wal \o body
  BY <1>0
<1>3. /\ n \in Nat /\ n >= 1
      /\ body \in [1..n -> Change]
      /\ \A i \in 1..n : body[i].tx = LastTx + 1
  BY <1>2, ServiceAssumption
<1>4. wal \in Seq(Change) /\ Len(wal) \in Nat
  BY DEF SourceOK
<1>5. /\ wal' \in Seq(Change)
      /\ Len(wal') = Len(wal) + n
      /\ \A i \in 1..Len(wal) : wal'[i] = wal[i]
      /\ \A i \in Len(wal)+1..Len(wal)+n : wal'[i] = body[i - Len(wal)]
  BY <1>2, <1>3, <1>4, Concatenated
<1>6. \A i \in Len(wal)+1..Len(wal)+n : wal'[i].tx = LastTx + 1
  <2> TAKE i \in Len(wal)+1..Len(wal)+n
  <2>1. i - Len(wal) \in 1..n
    BY <1>3, <1>4
  <2> QED
    BY <1>3, <1>5, <2>1
<1>7. \A i \in 1..Len(wal') : i \in 1..Len(wal) \/ i \in Len(wal)+1..Len(wal)+n
  BY <1>3, <1>4, <1>5
<1>8. LastTx' = LastTx + 1
  <2>1. wal' # <<>> /\ Len(wal') \in Len(wal)+1..Len(wal)+n
    BY <1>3, <1>4, <1>5
  <2> QED
    BY <1>6, <2>1 DEF LastTx
<1>9. \A i, j \in 1..Len(wal') : i <= j => wal'[i].tx <= wal'[j].tx
  <2> SUFFICES ASSUME NEW i \in 1..Len(wal'), NEW j \in 1..Len(wal'), i <= j
               PROVE  wal'[i].tx <= wal'[j].tx
    OBVIOUS
  <2>1. CASE i \in 1..Len(wal) /\ j \in 1..Len(wal)
    BY <1>5, <2>1 DEF SourceOK
  <2>2. CASE i \in 1..Len(wal) /\ j \in Len(wal)+1..Len(wal)+n
    <3>1. wal[i] \in Change
      BY <1>4, <2>2
    <3>2. wal[i].tx \in Nat
      BY <3>1, WarehouseAssumption DEF Change
    <3> QED
      BY <1>1, <1>5, <1>6, <2>2, <3>2
  <2>3. CASE i \in Len(wal)+1..Len(wal)+n
    <3>1. j \in Len(wal)+1..Len(wal)+n
      BY <1>4, <1>7, <2>3
    <3> QED
      BY <1>1, <1>6, <2>3, <3>1
  <2> QED
    BY <1>7, <2>1, <2>2, <2>3
<1>10. slot' \in 0..Len(wal')
  BY <1>3, <1>4, <1>5 DEF SourceOK, Commit
<1>11. SourceOK'
  BY <1>2, <1>5, <1>9, <1>10 DEF SourceOK
<1>12. Extends
  BY <1>1, <1>3, <1>4, <1>5, <1>6, <1>8 DEF Extends
<1> QED
  BY <1>11, <1>12

\* The slot only moves forward, to the end of a transaction.
LEMMA PolledBound ==
    ASSUME SourceOK, NEW n \in Polled
    PROVE  n \in 1..Len(wal) /\ n > slot /\ n \in Seqs
BY WarehouseAssumption DEF SourceOK, Polled, TxEnds, Seqs

\* Every step leaves the source in order; only a commit adds to the log.
LEMMA SourceStep ==
    ASSUME SourceOK, [Next]_vars
    PROVE  SourceOK' /\ Extends /\ slot <= slot' /\ (Commit \/ wal' = wal)
<1>1. CASE Commit
  <2>1. slot' = slot /\ slot \in Nat
    BY <1>1 DEF SourceOK, Commit
  <2> QED
    BY <1>1, <2>1, CommitSource
<1>2. CASE wal' = wal /\ (slot' = slot \/ slot' \in Polled)
  <2>1. slot' \in 0..Len(wal) /\ slot <= slot'
    BY <1>2, PolledBound DEF SourceOK
  <2>2. LastTx' = LastTx /\ LastTx \in Nat
    BY <1>2, LastTxBound, WarehouseAssumption DEF LastTx
  <2> QED
    BY <1>2, <2>1, <2>2 DEF SourceOK, Extends
<1>3. Commit \/ (wal' = wal /\ (slot' = slot \/ slot' \in Polled))
  BY DEF Next, Loop, Sink, OpenStream, OpenFails, PollEmpty, PollRows, PollFails,
         PollReplyLost, PublishRow, SkipRow, RowsDone, Drain, Returned, Raised,
         HandleError, WakeUp, FinalFlush, Exit, Crash, Sigterm, Start, vars
<1> QED
  BY <1>1, <1>2, <1>3

-----------------------------------------------------------------------------
(* run() itself.                                                           *)

\* The back-off is never longer than BACKOFF_MAX.
LEMMA BackoffBound ==
    ASSUME NEW a \in Nat
    PROVE  Backoff(a) \in 0..2 * BackoffMax
<1> DEFINE exp == Least(a, 7)
<1>1. exp \in 0..7
  BY DEF Least
<1>2. 2 ^ exp \in Nat
  <2>1. exp = 0 \/ exp = 1 \/ exp = 2 \/ exp = 3 \/ exp = 4 \/ exp = 5 \/ exp = 6 \/ exp = 7
    BY <1>1
  <2>2. /\ 2 ^ 0 \in Nat /\ 2 ^ 1 \in Nat /\ 2 ^ 2 \in Nat /\ 2 ^ 3 \in Nat
        /\ 2 ^ 4 \in Nat /\ 2 ^ 5 \in Nat /\ 2 ^ 6 \in Nat /\ 2 ^ 7 \in Nat
    OBVIOUS
  <2> HIDE DEF exp
  <2> QED
    BY <2>1, <2>2
<1>3. ASSUME NEW x \in Nat, NEW y \in Nat
      PROVE  Least(x * y, 2 * BackoffMax) \in 0..2 * BackoffMax
  <2>1. x * y \in Nat /\ 2 * BackoffMax \in Nat
    BY ServiceAssumption
  <2> QED
    BY <2>1 DEF Least
<1> QED
  BY <1>2, <1>3, ServiceAssumption DEF Backoff

\* Every step keeps the variables of run() in order.
LEMMA ControlStep ==
    ASSUME ControlOK, [Next]_vars
    PROVE  ControlOK'
<1> USE ServiceAssumption DEF ControlOK, ReadyMeansStreaming, Streaming, Pc, bounds
<1>1. CASE Commit
  BY <1>1 DEF Commit
<1>2. CASE OpenStream
  BY <1>2 DEF OpenStream
<1>3. CASE OpenFails
  <2>1. /\ pgFaults' \in 0..MaxPgFaults
        /\ attempt' \in Nat /\ attempt' <= pgFaults'
    BY <1>3 DEF OpenFails, PgFault
  <2>2. pc' = "unwind" /\ ready' = FALSE /\ UNCHANGED <<wait, shutdown, ends>>
    BY <1>3 DEF OpenFails
  <2> QED
    BY <2>1, <2>2
<1>4. CASE PollEmpty \/ PollRows
  BY <1>4 DEF PollEmpty, PollRows
<1>5. CASE PollFails \/ PollReplyLost
  BY <1>5 DEF PollFails, PollReplyLost, PgFault
<1>6. CASE PublishRow \/ SkipRow \/ RowsDone
  BY <1>6 DEF PublishRow, SkipRow, RowsDone
<1>7. CASE Drain \/ FinalFlush
  BY <1>7 DEF Drain, FinalFlush
<1>8. CASE Returned
  BY <1>8 DEF Returned
<1>9. CASE Raised
  BY <1>9 DEF Raised
<1>10. CASE HandleError
  BY <1>10, BackoffBound DEF HandleError
<1>11. CASE WakeUp
  BY <1>11 DEF WakeUp
<1>12. CASE Exit \/ Crash
  <2>1. /\ ends' \in 0..MaxEnds /\ pgFaults' \in 0..MaxPgFaults
        /\ attempt' = 0 /\ attempt' \in Nat /\ attempt' <= pgFaults'
        /\ wait' \in 0..2 * BackoffMax
    BY <1>12 DEF Exit, Crash, End
  <2>2. pc' \in {"stopped", "down"}
    BY <1>12 DEF Exit, Crash
  <2>3. ready' = FALSE /\ shutdown' = FALSE
    BY <1>12 DEF Exit, Crash
  <2> QED
    BY <2>1, <2>2, <2>3
<1>13. CASE Sink
  BY <1>13 DEF Sink
<1>14. CASE Sigterm
  BY <1>14 DEF Sigterm, End
<1>15. CASE Start
  BY <1>15 DEF Start
<1>16. CASE UNCHANGED vars
  BY <1>16 DEF vars
<1> QED
  BY <1>1, <1>2, <1>3, <1>4, <1>5, <1>6, <1>7, <1>8, <1>9, <1>10, <1>11, <1>12, <1>13,
     <1>14, <1>15, <1>16 DEF Next, Loop

-----------------------------------------------------------------------------
(* What a step of the service is to the sink.                              *)

\* A flush begins, or nothing happens to the sink.
QuietStep ==
    /\ Flush \/ UNCHANGED sinkVars
    /\ slot' = slot \/ (wal' = wal /\ cursor = slot /\ slot' \in Polled)

PublishStep ==
    /\ cursor < slot /\ Mapped(cursor + 1)
    /\ \E elapsed \in BOOLEAN : Publish(EventAt(cursor + 1), elapsed)
    /\ UNCHANGED <<wal, slot>>

\* A row of a table that is not mapped is passed over.
SkipStep ==
    /\ cursor < slot /\ ~Mapped(cursor + 1)
    /\ Skip(cursor + 1)
    /\ UNCHANGED <<wal, slot>>

\* The rest of a poll is given up.
ForgetStep ==
    /\ cursor < slot' /\ Skip(slot')
    /\ UNCHANGED wal
    /\ slot' = slot \/ (cursor = slot /\ slot' \in Polled)
    /\ pc' = "unwind" \/ shutdown

\* The process ends.
RestartStep ==
    /\ Restart(slot)
    /\ UNCHANGED <<wal, slot>>
    /\ pc' \in {"stopped", "down"}
    /\ pc' = "down" \/ shutdown

WriteStep ==
    /\ Write \/ Failure
    /\ UNCHANGED <<wal, slot>>

\* Every step of the service is one of these.
LEMMA StepKinds ==
    ASSUME SourceOK, ControlOK, SinkTypeOK, InStep, [Next]_vars
    PROVE  QuietStep \/ PublishStep \/ SkipStep \/ ForgetStep \/ RestartStep \/ WriteStep
<1>0. cursor \in Nat /\ slot \in Nat
  BY WarehouseAssumption DEF SourceOK, SinkTypeOK
<1>1. CASE Commit \/ OpenStream \/ OpenFails \/ PollFails \/ Returned
  BY <1>1 DEF Commit, OpenStream, OpenFails, PollFails, Returned, QuietStep
<1>2. CASE PollEmpty \/ Drain \/ FinalFlush
  BY <1>2 DEF PollEmpty, Drain, FinalFlush, QuietStep
<1>3. CASE PollRows
  BY <1>3 DEF PollRows, InStep, QuietStep
<1>4. CASE PollReplyLost
  <2>1. PICK n \in Polled : slot' = n /\ Skip(n)
    BY <1>4 DEF PollReplyLost
  <2>2. cursor = slot /\ slot < n
    BY <1>4, <2>1, PolledBound DEF PollReplyLost, InStep
  <2> QED
    BY <1>4, <2>1, <2>2 DEF PollReplyLost, ForgetStep
<1>5. CASE PublishRow
  BY <1>5 DEF PublishRow, PublishStep
<1>6. CASE SkipRow
  BY <1>6 DEF SkipRow, SkipStep
<1>7. CASE RowsDone \/ Raised
  <2>1. slot' = slot /\ wal' = wal /\ ForgetRows
    BY <1>7 DEF RowsDone, Raised
  <2>2. CASE cursor < slot
    <3>1. pc' = "unwind" \/ shutdown
      BY <1>0, <1>7, <2>2 DEF RowsDone, Raised
    <3> QED
      BY <2>1, <2>2, <3>1 DEF ForgetRows, ForgetStep
  <2>3. CASE ~(cursor < slot)
    <3>1. UNCHANGED sinkVars
      BY <2>1, <2>3 DEF ForgetRows
    <3> QED
      BY <2>1, <3>1 DEF QuietStep
  <2> QED
    BY <2>2, <2>3
<1>8. CASE HandleError \/ WakeUp \/ Sigterm \/ Start
  BY <1>8 DEF HandleError, WakeUp, Sigterm, Start, QuietStep
<1>9. CASE Exit
  <2>1. shutdown
    BY <1>9 DEF Exit, ControlOK
  <2> QED
    BY <1>9, <2>1 DEF Exit, RestartStep
<1>10. CASE Crash
  BY <1>10 DEF Crash, RestartStep
<1>11. CASE Sink
  BY <1>11 DEF Sink, WriteStep
<1>12. CASE UNCHANGED vars
  BY <1>12 DEF vars, QuietStep
<1> QED
  BY <1>1, <1>2, <1>3, <1>4, <1>5, <1>6, <1>7, <1>8, <1>9, <1>10, <1>11, <1>12
     DEF Next, Loop

\* Every step leaves the sink in step with the slot.
LEMMA InStepStep ==
    ASSUME SourceOK, ControlOK, SinkTypeOK, InStep, [Next]_vars
    PROVE  InStep'
<1> USE DEF InStep
<1>0. cursor \in Nat /\ slot \in Nat
  BY WarehouseAssumption DEF SourceOK, SinkTypeOK
<1>1. CASE UNCHANGED <<cursor, slot>> /\ (pc' = pc \/ cursor = slot \/ pc' = "rows")
  BY <1>1
<1>2. CASE Commit \/ OpenStream \/ OpenFails \/ PollFails \/ HandleError \/ WakeUp
           \/ Sigterm \/ Start \/ UNCHANGED vars
  BY <1>2, <1>1 DEF Commit, OpenStream, OpenFails, PollFails, HandleError, WakeUp,
                    Sigterm, Start, vars, sinkVars
<1>3. CASE Returned
  BY <1>3, <1>1 DEF Returned, sinkVars
<1>4. CASE PollEmpty \/ Drain \/ FinalFlush
  BY <1>4, <1>1 DEF PollEmpty, Drain, FinalFlush, Flush
<1>5. CASE PollRows
  <2>1. PICK n \in Polled : slot' = n
    BY <1>5 DEF PollRows
  <2>2. n \in Nat /\ n > slot
    BY <2>1, PolledBound, WarehouseAssumption DEF Seqs
  <2>3. cursor' = cursor /\ pc' = "rows"
    BY <1>5 DEF PollRows, sinkVars
  <2> QED
    BY <1>0, <2>1, <2>2, <2>3
<1>6. CASE PollReplyLost
  BY <1>6, <1>0, PolledBound DEF PollReplyLost, Skip
<1>7. CASE PublishRow
  <2>1. cursor < slot /\ cursor' = cursor + 1 /\ slot' = slot /\ pc' = "publish"
    BY <1>7 DEF PublishRow, Publish, EventAt
  <2> QED
    BY <1>0, <2>1
<1>8. CASE SkipRow
  BY <1>8, <1>0 DEF SkipRow, Skip
<1>9. CASE RowsDone \/ Raised
  <2>1. slot' = slot /\ ForgetRows
    BY <1>9 DEF RowsDone, Raised
  <2>2. cursor' = slot
    BY <1>0, <2>1 DEF ForgetRows, Skip, sinkVars
  <2> QED
    BY <1>0, <2>1, <2>2
<1>10. CASE Exit \/ Crash
  BY <1>10, <1>0 DEF Exit, Crash, Restart
<1>11. CASE Sink
  <2>1. UNCHANGED <<slot, pc>>
    BY <1>11 DEF Sink
  <2>2. cursor' = cursor
    BY <1>11 DEF Sink, Write, Failure, Connect, NextTable, MergeCurrent, DeleteCurrent,
       InsertHistory, Confirm, Finish, ConnectFails, StatementFails, ReplyLost, ConnDrop,
       EndAttempt
  <2> QED
    BY <1>1, <2>1, <2>2
<1> QED
  BY <1>2, <1>3, <1>4, <1>5, <1>6, <1>7, <1>8, <1>9, <1>10, <1>11 DEF Next, Loop

-----------------------------------------------------------------------------
(* The sink is called as it expects to be.                                 *)

\* Every step of the service is a step the sink allows, or none of its own.
LEMMA SinkStep ==
    ASSUME ServiceInv, [Next]_vars
    PROVE  [SinkNext]_sinkVars
<1>1. SourceOK /\ SourceOK' /\ SinkTypeOK /\ SinkInv
  BY SourceStep DEF ServiceInv, SinkInv
<1>2. /\ cursor \in Nat /\ slot \in 0..MaxSeq /\ slot' \in 0..MaxSeq
      /\ MaxSeq \in Nat
      /\ Len(wal) \in Nat /\ Len(wal) <= MaxSeq /\ slot <= Len(wal)
  BY <1>1, WarehouseAssumption DEF SourceOK, SinkTypeOK
<1>3. CASE QuietStep
  BY <1>3 DEF QuietStep, SinkNext, Caller
<1>4. CASE PublishStep
  <2> DEFINE e == EventAt(cursor + 1)
  <2>1. cursor + 1 \in 1..Len(wal) /\ cursor + 1 \in Seqs
    BY <1>2, <1>4 DEF PublishStep, Seqs
  <2>2. wal[cursor + 1] \in Change
    BY <1>1, <2>1 DEF SourceOK
  <2>3. e \in Event
    BY <1>4, <2>1, <2>2 DEF PublishStep, Mapped, EventAt, Event, Change
  <2>4. \A f \in Batch : f.tx <= e.tx
    <3> SUFFICES ASSUME NEW f \in Batch PROVE f.tx <= e.tx
      OBVIOUS
    <3>1. f.seq \in Nat /\ f.seq >= 1 /\ f.seq <= cursor
      BY <1>1, BatchType, WarehouseAssumption DEF SinkInv, StreamOrder, Event, Seqs
    <3>2. f.seq \in 1..Len(wal) /\ f.seq <= cursor + 1
      BY <1>2, <2>1, <3>1
    <3>3. f.tx = wal[f.seq].tx
      BY DEF ServiceInv, HeldFromLog, EventAt
    <3> QED
      BY <1>1, <2>1, <3>2, <3>3 DEF SourceOK, EventAt
  <2>5. PICK elapsed \in BOOLEAN : Publish(e, elapsed)
    BY <1>4 DEF PublishStep
  <2> QED
    BY <2>3, <2>4, <2>5 DEF SinkNext, Caller
<1>5. CASE SkipStep
  <2>1. cursor + 1 \in Seqs /\ Skip(cursor + 1)
    BY <1>2, <1>5 DEF SkipStep, Seqs
  <2> QED
    BY <2>1 DEF SinkNext, Caller
<1>6. CASE ForgetStep
  <2>1. slot' \in Seqs /\ Skip(slot')
    BY <1>2, <1>6 DEF ForgetStep, Seqs
  <2> QED
    BY <2>1 DEF SinkNext, Caller
<1>7. CASE RestartStep
  BY <1>2, <1>7 DEF RestartStep, SinkNext, Caller
<1>8. CASE WriteStep
  BY <1>8 DEF WriteStep, SinkNext
<1>9. ControlOK /\ InStep
  BY DEF ServiceInv
<1> QED
  BY <1>1, <1>3, <1>4, <1>5, <1>6, <1>7, <1>8, <1>9, StepKinds

\* An audit row is added only for a change in the buffer, and never taken away.
LEMMA CopiesGrow ==
    ASSUME SinkInv, [SinkNext]_sinkVars
    PROVE  \A s \in Seqs :
              \/ copies'[s] = copies[s]
              \/ /\ copies'[s] = copies[s] + 1
                 /\ buffer' = buffer /\ \E e \in Batch : e.seq = s
<1>1. ASSUME AppendHistory(OfTable(table)), buffer' = buffer, NEW s \in Seqs
      PROVE  \/ copies'[s] = copies[s]
             \/ copies'[s] = copies[s] + 1 /\ \E e \in Batch : e.seq = s
  BY <1>1 DEF AppendHistory, OfTable
<1>2. CASE InsertHistory
  BY <1>1, <1>2 DEF InsertHistory
<1>3. CASE ReplyLost
  <2>1. copies' = copies \/ (AppendHistory(OfTable(table)) /\ buffer' = buffer)
    BY <1>3 DEF ReplyLost, Merge, Delete, EndAttempt
  <2> QED
    BY <1>1, <1>3, <2>1 DEF ReplyLost, EndAttempt
<1>4. copies' = copies \/ InsertHistory \/ ReplyLost
  BY DEF SinkNext, Caller, Write, Failure, Publish, Flush, Skip, Restart, Connect, NextTable,
         MergeCurrent, Merge, DeleteCurrent, Delete, Confirm, Finish, ConnectFails,
         StatementFails, ConnDrop, warehouse, sinkVars
<1> QED
  BY <1>2, <1>3, <1>4

\* The sink's own steps keep the buffer until it is written.
LEMMA WriteKeeps ==
    ASSUME SinkInv, WriteStep
    PROVE  /\ cursor' = cursor
           /\ \/ buffer' = buffer /\ confirmed' = confirmed
              \/ Confirm
<1>1. CASE Confirm
  BY <1>1 DEF Confirm, Finish
<1>2. CASE ~Confirm
  BY <1>2 DEF WriteStep, Write, Failure, Connect, NextTable, MergeCurrent, DeleteCurrent,
              InsertHistory, ConnectFails, StatementFails, ReplyLost, ConnDrop, EndAttempt
<1> QED
  BY <1>1, <1>2

-----------------------------------------------------------------------------
(* What is held, and what a flush confirmed.                               *)

\* The bounds that the arithmetic of the lemmas below needs.
LEMMA Places ==
    ASSUME ServiceInv
    PROVE  /\ SinkTypeOK /\ SinkInv /\ SourceOK /\ ControlOK /\ InStep
           /\ MaxSeq \in Nat /\ Len(wal) \in Nat /\ Len(wal) <= MaxSeq
           /\ cursor \in Nat /\ slot \in Nat /\ cursor <= slot /\ slot <= Len(wal)
           /\ confirmed \in Nat /\ LastTx \in Nat /\ confirmed <= LastTx
           /\ \A i \in 1..Len(wal) : wal[i].tx \in Nat /\ wal[i].tx <= LastTx
           /\ \A e \in Batch : /\ e.seq \in 1..Len(wal) /\ e.seq <= cursor
                               /\ e = EventAt(e.seq)
<1>1. SinkTypeOK /\ SinkInv /\ SourceOK /\ ControlOK /\ InStep /\ HeldFromLog
  BY DEF ServiceInv, SinkInv
<1>2. /\ MaxSeq \in Nat /\ Len(wal) \in Nat /\ Len(wal) <= MaxSeq
      /\ cursor \in Nat /\ slot \in Nat /\ cursor <= slot /\ slot <= Len(wal)
  BY <1>1, WarehouseAssumption DEF SinkTypeOK, SourceOK, InStep
<1>3. confirmed \in Nat /\ LastTx \in Nat /\ confirmed <= LastTx
  BY <1>1, LastTxBound, WarehouseAssumption DEF SinkTypeOK, HeldFromLog
<1>4. \A i \in 1..Len(wal) : wal[i].tx \in Nat /\ wal[i].tx <= LastTx
  <2> TAKE i \in 1..Len(wal)
  <2>1. wal[i] \in Change
    BY <1>1 DEF SourceOK
  <2> QED
    BY <1>1, <2>1, LastTxBound, WarehouseAssumption DEF Change
<1>5. \A e \in Batch : e.seq \in Nat /\ e.seq >= 1 /\ e.seq <= cursor /\ e = EventAt(e.seq)
  BY <1>1, BatchType, WarehouseAssumption DEF SinkInv, StreamOrder, Event, Seqs, HeldFromLog
<1>6. \A e \in Batch : e.seq \in 1..Len(wal)
  BY <1>2, <1>5
<1> QED
  BY <1>1, <1>2, <1>3, <1>4, <1>5, <1>6

\* The same bounds, after a step.
LEMMA PlacesNext ==
    ASSUME ServiceInv, [Next]_vars
    PROVE  /\ cursor' \in Nat /\ \A i \in Seqs : copies'[i] \in Nat
           /\ slot' \in Nat /\ slot <= slot' /\ slot' <= Len(wal') /\ cursor' <= slot'
           /\ Len(wal') \in Nat /\ Len(wal') <= MaxSeq /\ Len(wal) <= Len(wal')
           /\ \A i \in 1..Len(wal') : wal'[i].tx \in Nat
<1>1. SinkTypeOK'
  BY SinkStep, NextInv, Places DEF SinkInv
<1>2. cursor' \in Nat /\ \A i \in Seqs : copies'[i] \in Nat
  BY <1>1, WarehouseAssumption DEF SinkTypeOK
<1>3. SourceOK' /\ Extends /\ slot <= slot'
  BY SourceStep, Places
<1>4. wal' \in Seq(Change) /\ slot' \in 0..Len(wal') /\ Len(wal') <= MaxSeq
  BY <1>3 DEF SourceOK
<1>5. Len(wal) <= Len(wal')
  BY <1>3 DEF Extends
<1>6. cursor' <= slot'
  BY InStepStep, Places DEF InStep
<1>7. \A i \in 1..Len(wal') : wal'[i].tx \in Nat
  <2> TAKE i \in 1..Len(wal')
  <2>1. wal'[i] \in Change
    BY <1>4
  <2> QED
    BY <2>1, WarehouseAssumption DEF Change
<1> QED
  BY <1>2, <1>3, <1>4, <1>5, <1>6, <1>7

\* publish() adds the next change of the log to the buffer.
LEMMA PublishEffect ==
    ASSUME ServiceInv, PublishStep
    PROVE  /\ Batch' = Batch \cup {EventAt(cursor + 1)}
           /\ cursor' = cursor + 1
           /\ UNCHANGED <<confirmed, copies>>
<1> DEFINE e == EventAt(cursor + 1)
<1>1. cursor + 1 \in 1..Len(wal) /\ cursor + 1 \in Seqs
  BY Places DEF PublishStep, Seqs
<1>2. wal[cursor + 1] \in Change
  BY <1>1, Places DEF SourceOK
<1>3. e \in Event /\ e.seq = cursor + 1
  BY <1>1, <1>2 DEF PublishStep, Mapped, EventAt, Event, Change
<1>4. buffer' = Append(buffer, e) /\ cursor' = e.seq /\ UNCHANGED <<confirmed, copies>>
  BY DEF PublishStep, Publish, warehouse
<1>5. Batch' = Batch \cup {e}
  BY <1>3, <1>4, RangeAppend, Places DEF SinkTypeOK, Batch
<1> QED
  BY <1>3, <1>4, <1>5

\* What a step does to the buffer and to what the last flush returned.
LEMMA BufferStep ==
    ASSUME ServiceInv, [Next]_vars
    PROVE  \/ Batch' = Batch /\ confirmed' = confirmed /\ cursor <= cursor'
           \/ /\ PublishStep
              /\ Batch' = Batch \cup {EventAt(cursor + 1)} /\ cursor' = cursor + 1
              /\ UNCHANGED <<confirmed, copies>>
           \/ Confirm /\ WriteStep /\ Batch' = {} /\ UNCHANGED <<cursor, copies>>
           \/ RestartStep /\ Batch' = {} /\ confirmed' = 0 /\ cursor <= cursor'
                          /\ UNCHANGED copies
<1>1. cursor \in Nat /\ slot \in Nat /\ slot' \in Nat
  BY Places, PlacesNext
<1>2. CASE QuietStep
  <2>1. UNCHANGED <<buffer, confirmed, cursor>>
    BY <1>2 DEF QuietStep, Flush, sinkVars
  <2> QED
    BY <1>1, <2>1 DEF Batch
<1>3. CASE PublishStep
  BY <1>3, PublishEffect
<1>4. CASE SkipStep \/ ForgetStep
  BY <1>1, <1>4 DEF SkipStep, ForgetStep, Skip, Batch
<1>5. CASE RestartStep
  <2>1. buffer' = <<>> /\ cursor' = slot /\ confirmed' = 0 /\ copies' = copies
    BY <1>5 DEF RestartStep, Restart, warehouse
  <2> QED
    BY <1>5, <2>1, Places, RangeEmpty DEF Batch
<1>6. CASE WriteStep
  <2>1. CASE Confirm
    <3>1. buffer' = <<>> /\ UNCHANGED <<cursor, copies>>
      BY <2>1 DEF Confirm, Finish, warehouse
    <3> QED
      BY <1>6, <2>1, <3>1, RangeEmpty DEF Batch
  <2>2. CASE ~Confirm
    BY <1>1, <1>6, <2>2, WriteKeeps, Places DEF Batch
  <2> QED
    BY <2>1, <2>2
<1> QED
  BY <1>2, <1>3, <1>4, <1>5, <1>6, StepKinds, Places

\* Every step keeps the buffer in agreement with the log.
LEMMA HeldStep ==
    ASSUME ServiceInv, [Next]_vars
    PROVE  HeldFromLog'
<1> DEFINE Ev(w, i) == [seq |-> i, tx |-> w[i].tx, table |-> w[i].table,
                        op |-> w[i].op, key |-> w[i].key]
<1>1. \A i \in 1..Len(wal) : Ev(wal', i) = EventAt(i)
  BY SourceStep, Places DEF Extends, EventAt
<1>2. \A e \in Batch : e = Ev(wal', e.seq)
  BY <1>1, Places
<1>3. LastTx <= LastTx' /\ LastTx' \in Nat
  BY SourceStep, Places DEF Extends
<1>0. SUFFICES (\A e \in Batch' : e = Ev(wal', e.seq)) /\ confirmed' <= LastTx'
  BY DEF HeldFromLog, EventAt
<1> HIDE DEF Ev
<1>4. CASE Batch' = Batch /\ confirmed' = confirmed
  BY <1>2, <1>3, <1>4, Places
<1>5. CASE PublishStep /\ Batch' = Batch \cup {EventAt(cursor + 1)} /\ UNCHANGED confirmed
  <2>1. cursor + 1 \in 1..Len(wal)
    BY <1>5, Places DEF PublishStep
  <2>2. EventAt(cursor + 1).seq = cursor + 1
    BY DEF EventAt
  <2> QED
    BY <1>1, <1>2, <1>3, <1>5, <2>1, <2>2, Places
<1>6. CASE Confirm /\ WriteStep /\ Batch' = {}
  <2>1. PICK e \in Batch : confirmed' = e.tx
    BY <1>6 DEF Confirm
  <2>2. e.tx = wal[e.seq].tx
    BY Places DEF EventAt
  <2> QED
    BY <1>3, <1>6, <2>1, <2>2, Places
<1>7. CASE Batch' = {} /\ confirmed' = 0
  BY <1>3, <1>7
<1> QED
  BY <1>4, <1>5, <1>6, <1>7, BufferStep

\* Written, or handed out and no longer held.
SettledAt(i) == copies[i] >= 1 \/ (i <= cursor /\ ~Buffered(i))

\* Every step keeps what the last flush returned a boundary of what is settled.
LEMMA BoundaryStep ==
    ASSUME ServiceInv, [Next]_vars
    PROVE  ConfirmedBoundary'
<1>1. \A i \in Seqs : copies[i] \in Nat /\ copies'[i] \in Nat /\ copies'[i] >= copies[i]
  BY SinkStep, CopiesGrow, Places DEF SinkTypeOK
<1>2. \A i \in 1..Len(wal) : i \in Seqs
  BY Places DEF Seqs
<1>3. \A i \in 1..Len(wal) : Mapped(i) /\ wal[i].tx < confirmed => SettledAt(i)
  <2> SUFFICES ASSUME NEW i \in 1..Len(wal), Mapped(i), wal[i].tx < confirmed
               PROVE  SettledAt(i)
    OBVIOUS
  <2>1. copies[i] >= 1 \/ i \in Lost
    BY DEF ServiceInv, ConfirmedBoundary
  <2>2. i \in Lost => i <= cursor /\ ~Buffered(i)
    BY Places DEF Lost
  <2> QED
    BY <2>1, <2>2 DEF SettledAt
<1>4. SUFFICES ASSUME NEW i \in 1..Len(wal'), Mapped(i)', wal'[i].tx < confirmed'
               PROVE  SettledAt(i)'
  <2>1. \A i \in 1..Len(wal') : i \in Nat /\ i >= 1 /\ i \in Seqs
    BY PlacesNext, Places DEF Seqs
  <2>2. \A i \in 1..Len(wal') : copies'[i] \in Nat
    BY <1>1, <2>1
  <2>3. cursor' \in Nat
    BY PlacesNext
  <2>4. \A i \in 1..Len(wal') : SettledAt(i)' /\ Mapped(i)' => copies'[i] >= 1 \/ i \in Lost'
    BY <2>1, <2>2, <2>3 DEF SettledAt, Lost
  <2> QED
    BY <1>4, <2>4 DEF ConfirmedBoundary
<1>5. i \in 1..Len(wal) /\ Mapped(i) /\ wal'[i] = wal[i] /\ i \in Seqs
  <2>1. CASE i \in 1..Len(wal)
    BY <1>2, <1>4, <2>1, SourceStep, Places DEF Extends, Mapped
  <2>2. CASE i \notin 1..Len(wal)
    <3>1. Commit /\ i \in Len(wal)+1..Len(wal') /\ wal'[i].tx > LastTx
      <4>1. wal' # wal
        BY <1>4, <2>2
      <4>2. i \in Len(wal)+1..Len(wal')
        BY <1>4, <2>2, PlacesNext, Places
      <4>3. Commit /\ Extends
        BY <4>1, SourceStep, Places
      <4> QED
        BY <4>2, <4>3 DEF Extends
    <3>2. confirmed' = confirmed
      BY <3>1 DEF Commit, sinkVars
    <3> QED
      BY <1>4, <3>1, <3>2, PlacesNext, Places
  <2> QED
    BY <2>1, <2>2
<1>6. CASE Batch' = Batch /\ confirmed' = confirmed /\ cursor <= cursor'
  <2>1. SettledAt(i)
    BY <1>3, <1>4, <1>5, <1>6
  <2>2. Buffered(i)' <=> Buffered(i)
    BY <1>6 DEF Buffered
  <2>3. cursor' \in Nat /\ i \in Nat
    BY NextInv, SinkStep, Places, WarehouseAssumption DEF SinkInv, SinkTypeOK
  <2> QED
    BY <1>1, <1>5, <1>6, <2>1, <2>2, <2>3, Places DEF SettledAt
<1>7. CASE /\ PublishStep
           /\ Batch' = Batch \cup {EventAt(cursor + 1)} /\ cursor' = cursor + 1
           /\ UNCHANGED <<confirmed, copies>>
  <2>1. SettledAt(i)
    BY <1>3, <1>4, <1>5, <1>7
  <2>2. i <= cursor /\ ~Buffered(i) => ~Buffered(i)'
    <3>1. EventAt(cursor + 1).seq = cursor + 1
      BY DEF EventAt
    <3> QED
      BY <1>7, <3>1, Places DEF Buffered
  <2> QED
    BY <1>5, <1>7, <2>1, <2>2, Places DEF SettledAt
<1>8. CASE Confirm /\ WriteStep /\ Batch' = {} /\ UNCHANGED <<cursor, copies>>
  <2>1. PICK e \in Batch : confirmed' = e.tx
    BY <1>8 DEF Confirm
  <2>2. e.tx = wal[e.seq].tx /\ e.seq \in 1..Len(wal) /\ e.seq <= cursor
    BY Places DEF EventAt
  <2>3. \A j \in 1..Len(wal) : e.seq <= j => e.tx <= wal[j].tx
    BY <2>2, Places DEF SourceOK
  <2>4. wal[i].tx < e.tx /\ wal[i].tx \in Nat /\ e.tx \in Nat
    BY <1>4, <1>5, <2>1, <2>2, Places
  <2>5. ~(e.seq <= i)
    BY <1>5, <2>3, <2>4
  <2>6. i \in Nat /\ e.seq \in Nat
    BY <1>5, <2>2, Places
  <2>7. i <= e.seq
    BY <2>5, <2>6
  <2> QED
    BY <1>5, <1>8, <2>2, <2>6, <2>7, Places DEF SettledAt, Buffered
<1>9. CASE confirmed' = 0
  BY <1>4, <1>5, <1>9, Places
<1> QED
  BY <1>6, <1>7, <1>8, <1>9, BufferStep

-----------------------------------------------------------------------------
(* The invariant, and the theorems that follow from it at once.            *)

LEMMA ServiceInit == Init => ServiceInv
<1> SUFFICES ASSUME Init PROVE ServiceInv
  OBVIOUS
<1>1. SinkInv
  BY InitInv DEF Init
<1>2. SourceOK
  BY WarehouseAssumption DEF Init, SourceOK
<1>3. ControlOK
  <2>1. /\ attempt \in Nat /\ attempt <= pgFaults
        /\ wait \in 0..2 * BackoffMax
        /\ pgFaults \in 0..MaxPgFaults /\ ends \in 0..MaxEnds
    BY ServiceAssumption DEF Init
  <2>2. ready = FALSE /\ shutdown = FALSE /\ pc = "connect"
    BY DEF Init
  <2> QED
    BY <2>1, <2>2 DEF ControlOK, Pc, ReadyMeansStreaming
<1>4. InStep
  BY DEF Init, SinkInit, InStep
<1>5. HeldFromLog
  <2>1. Batch = {}
    BY RangeEmpty DEF Init, SinkInit, Batch
  <2> QED
    BY <2>1 DEF Init, SinkInit, HeldFromLog, LastTx
<1>6. ConfirmedBoundary
  BY DEF Init, ConfirmedBoundary
<1> QED
  BY <1>1, <1>2, <1>3, <1>4, <1>5, <1>6 DEF ServiceInv

\* The inductive invariant of the service holds in every reachable state.
THEOREM ServiceInvariant == Spec => []ServiceInv
<1>1. Init => ServiceInv
  BY ServiceInit
<1>2. ServiceInv /\ [Next]_vars => ServiceInv'
  <2> SUFFICES ASSUME ServiceInv, [Next]_vars PROVE ServiceInv'
    OBVIOUS
  <2>1. SinkInv'
    BY SinkStep, NextInv, Places
  <2>2. SourceOK' /\ ControlOK' /\ InStep'
    BY SourceStep, ControlStep, InStepStep, Places
  <2> QED
    BY <2>1, <2>2, HeldStep, BoundaryStep DEF ServiceInv
<1> QED
  BY <1>1, <1>2, PTL DEF Spec

\* Type correctness of the service, the sink and the warehouse.
THEOREM ServiceTypeCorrect == Spec => []TypeOK
<1>1. ServiceInv => TypeOK
  <2> SUFFICES ASSUME ServiceInv PROVE TypeOK
    OBVIOUS
  <2>1. attempt \in 0..MaxPgFaults
    BY ServiceAssumption DEF ServiceInv, ControlOK
  <2> QED
    BY <2>1 DEF ServiceInv, SinkInv, SourceOK, ControlOK, TypeOK
<1> QED
  BY <1>1, ServiceInvariant, PTL

\* run() uses the sink only as SinkSpec allows: what is proved of every use of the
\* sink is thereby proved of the sink in the running service.
THEOREM SinkUsedProperly == Spec => CallsSinkProperly
<1>1. Init => SinkInit
  BY DEF Init
<1>2. ServiceInv /\ [Next]_vars => [SinkNext]_sinkVars
  BY SinkStep
<1> QED
  BY <1>1, <1>2, ServiceInvariant, PTL DEF Spec, CallsSinkProperly, SinkSpec

\* /readyz reports ready only while the stream is open, just lost, or shutting down.
THEOREM ReadyIsHonest == Spec => []ReadyMeansStreaming
<1>1. ServiceInv => ReadyMeansStreaming
  BY DEF ServiceInv, ControlOK
<1> QED
  BY <1>1, ServiceInvariant, PTL

\* What a flush returns bounds the transactions that are settled, exclusively.
THEOREM ConfirmedIsBoundary == Spec => []ConfirmedBoundary
<1>1. ServiceInv => ConfirmedBoundary
  BY DEF ServiceInv
<1> QED
  BY <1>1, ServiceInvariant, PTL

-----------------------------------------------------------------------------
(* What may be lost, and when.                                             *)

\* What every kind of step says about one change that the slot has given out.
LEMMA SettledStep ==
    ASSUME ServiceInv, [Next]_vars, NEW i \in 1..Len(wal)
    PROVE  /\ Mapped(i)' <=> Mapped(i)
           /\ copies[i] \in Nat /\ copies'[i] \in Nat
           /\ i > cursor => copies[i] = 0
           /\ Buffered(i) => i <= cursor /\ Mapped(i)
<1>1. i \in Seqs
  BY Places DEF Seqs
<1>2. Mapped(i)' <=> Mapped(i)
  BY SourceStep, Places DEF Extends, Mapped
<1>3. copies[i] \in Nat /\ copies'[i] \in Nat /\ (i > cursor => copies[i] = 0)
  BY <1>1, SinkStep, NextInv, Places DEF SinkInv, SinkTypeOK, StreamOrder
<1>4. Buffered(i) => i <= cursor /\ Mapped(i)
  <2> SUFFICES ASSUME NEW e \in Batch, e.seq = i PROVE i <= cursor /\ Mapped(i)
    BY DEF Buffered
  <2>1. e.table \in Table /\ e.table = wal[i].table
    BY Places, BatchType DEF Event, EventAt
  <2> QED
    BY <2>1, Places DEF Mapped
<1> QED
  BY <1>2, <1>3, <1>4

\* A write step records buffered changes or drops a buffer that is recorded.
LEMMA WriteSettles ==
    ASSUME ServiceInv, [Next]_vars, WriteStep, NEW i \in 1..Len(wal)
    PROVE  \/ Buffered(i)' <=> Buffered(i)
           \/ Buffered(i) /\ copies[i] >= 1 /\ copies' = copies /\ ~Buffered(i)'
<1>1. CASE Confirm
  <2>1. \A e \in Batch : copies[e.seq] >= 1
    BY <1>1, Places DEF Confirm, SinkInv, Progress, Written, AtStatement, TablesOf
  <2>2. buffer' = <<>> /\ copies' = copies
    BY <1>1 DEF Confirm, Finish, warehouse
  <2> QED
    BY <2>1, <2>2, RangeEmpty DEF Buffered, Batch
<1>2. CASE ~Confirm
  BY <1>2, WriteKeeps, Places DEF Buffered, Batch
<1> QED
  BY <1>1, <1>2

\* No change is lost by any other step than the end of the process and the end of
\* a poll before its last row.
LEMMA NothingLost ==
    ASSUME ServiceInv, [Next]_vars, ~ForgetStep, ~RestartStep, NEW i \in 1..Len(wal)
    PROVE  i \in Lost' <=> i \in Lost
<1>1. /\ Mapped(i)' <=> Mapped(i)
      /\ copies[i] \in Nat /\ copies'[i] \in Nat
      /\ i > cursor => copies[i] = 0
      /\ Buffered(i) => i <= cursor /\ Mapped(i)
  BY SettledStep
<1>2. cursor \in Nat /\ cursor' \in Nat /\ i \in Nat /\ i >= 1 /\ i \in Seqs
  BY PlacesNext, Places DEF Seqs
<1>3. i \in Lost <=> i <= cursor /\ Mapped(i) /\ ~Buffered(i) /\ copies[i] = 0
  BY <1>2 DEF Lost
<1>4. i \in Lost' <=> i <= cursor' /\ Mapped(i)' /\ ~Buffered(i)' /\ copies'[i] = 0
  BY <1>2 DEF Lost
<1>5. CASE QuietStep
  <2>1. UNCHANGED <<cursor, copies>> /\ Batch' = Batch
    BY <1>5 DEF QuietStep, Flush, sinkVars, warehouse, Batch
  <2>2. Buffered(i)' <=> Buffered(i)
    BY <2>1 DEF Buffered
  <2> QED
    BY <1>1, <1>3, <1>4, <2>1, <2>2
<1>6. CASE PublishStep
  <2>1. EventAt(cursor + 1).seq = cursor + 1
    BY DEF EventAt
  <2>2. Buffered(i)' <=> Buffered(i) \/ i = cursor + 1
    BY <1>6, <2>1, PublishEffect DEF Buffered
  <2>3. cursor' = cursor + 1 /\ copies' = copies
    BY <1>6, PublishEffect
  <2> QED
    BY <1>1, <1>2, <1>3, <1>4, <2>2, <2>3
<1>7. CASE SkipStep
  <2>1. cursor' = cursor + 1 /\ copies' = copies /\ Batch' = Batch /\ ~Mapped(cursor + 1)
    BY <1>7 DEF SkipStep, Skip, warehouse, Batch
  <2>2. Buffered(i)' <=> Buffered(i)
    BY <2>1 DEF Buffered
  <2> QED
    BY <1>1, <1>2, <1>3, <1>4, <2>1, <2>2
<1>8. CASE WriteStep
  <2>1. cursor' = cursor
    BY <1>8, WriteKeeps, Places
  <2>2. \/ copies'[i] = copies[i]
        \/ copies'[i] = copies[i] + 1 /\ Buffered(i) /\ buffer' = buffer
    BY <1>2, SinkStep, CopiesGrow, Places DEF Buffered
  <2>3. \/ Buffered(i)' <=> Buffered(i)
        \/ Buffered(i) /\ copies[i] >= 1 /\ copies' = copies /\ ~Buffered(i)'
    BY <1>8, WriteSettles
  <2>4. buffer' = buffer => (Buffered(i)' <=> Buffered(i))
    BY DEF Buffered, Batch
  <2> QED
    BY <1>1, <1>2, <1>3, <1>4, <2>1, <2>2, <2>3, <2>4
<1> QED
  BY <1>5, <1>6, <1>7, <1>8, StepKinds, Places

\* A change is lost only by an exception, by the end of the process or by SIGTERM.
LEMMA LossStep ==
    ASSUME ServiceInv, [Next]_vars
    PROVE  Lost' # Lost => pc' \in {"unwind", "down"} \/ shutdown
<1> SUFFICES ASSUME ~(pc' \in {"unwind", "down"} \/ shutdown) PROVE Lost' = Lost
  OBVIOUS
<1>1. ~ForgetStep /\ ~RestartStep
  BY DEF ForgetStep, RestartStep
<1>2. \A i \in 1..Len(wal) : i \in Lost' <=> i \in Lost
  BY <1>1, NothingLost
<1>3. Lost \subseteq 1..Len(wal)
  BY Places DEF Lost
<1>4. Lost' \subseteq 1..Len(wal)
  <2>1. cursor' \in Nat /\ cursor' <= Len(wal)
    <3>1. CASE wal' = wal
      BY <3>1, PlacesNext, Places
    <3>2. CASE Commit
      BY <3>2, Places DEF Commit, sinkVars
    <3> QED
      BY <3>1, <3>2, SourceStep, Places
  <2> QED
    BY <2>1, Places DEF Lost
<1> QED
  BY <1>2, <1>3, <1>4

\* A change leaves the buffer only written, or with the process.
LEMMA BufferedStep ==
    ASSUME ServiceInv, [Next]_vars, NEW i \in Seqs, Buffered(i), ~Buffered(i)'
    PROVE  copies[i] >= 1 \/ ~Running'
<1>1. i \in 1..Len(wal)
  BY Places DEF Buffered
<1>2. CASE WriteStep
  BY <1>1, <1>2, WriteSettles
<1>3. CASE RestartStep
  BY <1>3 DEF RestartStep, Running
<1>4. CASE PublishStep
  BY <1>4, PublishEffect DEF Buffered
<1>5. CASE QuietStep \/ SkipStep \/ ForgetStep
  <2>1. buffer' = buffer
    BY <1>5 DEF QuietStep, SkipStep, ForgetStep, Flush, Skip, sinkVars
  <2> QED
    BY <2>1 DEF Buffered, Batch
<1> QED
  BY <1>2, <1>3, <1>4, <1>5, StepKinds, Places

\* The service never gives a change up in a flush, a retry or a successful loop.
THEOREM LossIsOnlyOnAbandon == Spec => LossOnlyOnAbandon
<1>1. ServiceInv /\ [Next]_vars
        => [Lost' # Lost => pc' \in {"unwind", "down"} \/ shutdown]_vars
  BY LossStep
<1> QED
  BY <1>1, ServiceInvariant, PTL DEF Spec, LossOnlyOnAbandon

\* The buffer survives every reconnect until it is in the audit trail.
THEOREM BufferSurvives == Spec => BufferedUntilWritten
<1> DEFINE Kept == \A i \in 1..MaxSeq :
                      Buffered(i) /\ ~Buffered(i)' => copies[i] >= 1 \/ ~Running'
<1>1. ServiceInv /\ [Next]_vars => [Kept]_vars
  BY BufferedStep DEF Seqs
<1> QED
  BY <1>1, ServiceInvariant, PTL DEF Spec, BufferedUntilWritten
==============================================================================
