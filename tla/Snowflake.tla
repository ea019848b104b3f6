------------------------------ MODULE Snowflake ------------------------------
(***************************************************************************)
(* The destination: what the three SQL statements the sink builds do to a  *)
(* current-state table and to its _HISTORY table.  The warehouse itself is *)
(* not in the repository; the statements are the ones of                   *)
(* _build_batch_merge_sql, _delete_current and _insert_history, each run   *)
(* in its own transaction (the sink opens none and never commits).         *)
(*                                                                         *)
(* A row is told apart only by the change that wrote it, so its columns    *)
(* are replaced by the position of that change in the replication stream.  *)
(***************************************************************************)
EXTENDS Integers

CONSTANTS
    Table,      \* the replicated tables, the keys of _TABLE_MAP
    Key,        \* primary-key values
    MaxSeq,     \* bound: changes the source makes
    MaxTx       \* bound: transactions it makes them in

ASSUME WarehouseAssumption ==
    /\ MaxSeq \in Nat
    /\ MaxTx \in Nat

VARIABLES
    current,    \* current[t][k]: the row of k in the current-state table of t
    copies      \* copies[s]: rows of the history tables that record change s

warehouse == <<current, copies>>

Seqs == 1..MaxSeq

\* ChangeEvent: seq is its position in the stream (lsn), tx its transaction
\* (commit_lsn).  op "u" stands for c and u, which no statement tells apart.
Event == [seq : Seqs, tx : 1..MaxTx, table : Table, op : {"u", "d"}, key : Key]

\* ver survives a DELETE so that the properties can tell which change came last.
Cell == [live : BOOLEAN, ver : 0..MaxSeq]

Absent == [live |-> FALSE, ver |-> 0]

Image(e) == [live |-> e.op # "d", ver |-> e.seq]

EmptyWarehouse ==
    /\ current = [t \in Table |-> [k \in Key |-> Absent]]
    /\ copies = [s \in Seqs |-> 0]

-----------------------------------------------------------------------------

\* QUALIFY ROW_NUMBER() OVER (PARTITION BY pk ORDER BY pk[0] DESC) = 1 : within a
\* partition every row ties on the order column, so any one of them may be kept.
Dedup(rows) ==
    {win \in [{e.key : e \in rows} -> rows] : \A k \in DOMAIN win : win[k].key = k}

\* MERGE: update the matched row, insert the unmatched one.
Merge(t, rows) ==
    /\ \E win \in Dedup(rows) :
          current' = [current EXCEPT ![t] =
                        [k \in Key |-> IF k \in DOMAIN win THEN Image(win[k])
                                                           ELSE current[t][k]]]
    /\ UNCHANGED copies

\* DELETE ... WHERE pk = the key of the before-image.
Delete(e) ==
    /\ current' = [current EXCEPT ![e.table] = [@ EXCEPT ![e.key] = Image(e)]]
    /\ UNCHANGED copies

\* INSERT INTO <t>_HISTORY: one audit row for every change of the batch.
AppendHistory(events) ==
    /\ copies' = [s \in Seqs |->
                    IF \E e \in events : e.seq = s THEN copies[s] + 1 ELSE copies[s]]
    /\ UNCHANGED current
==============================================================================
