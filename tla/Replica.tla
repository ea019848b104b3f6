-------------------------------- MODULE Replica --------------------------------
(***************************************************************************)
(* What arrives at the other end: the parser of module PgOutputParser, the *)
(* filter of run(), the buffer of src/snowflake_sink.py and its statements *)
(* with their columns, from a table of PostgreSQL to the current-state     *)
(* table of Snowflake.                                                     *)
(*                                                                         *)
(* A flush is one step here: it is accepted, or the warehouse rejects a    *)
(* statement for its columns, now and whenever it is repeated.  How else a *)
(* flush can fail and what its order over several tables does is the       *)
(* subject of SnowflakeSink.                                               *)
(***************************************************************************)
EXTENDS PgOutputParser, SequencesExt

CONSTANTS
    Mapped,      \* the relation, one in _TABLE_MAP
    SfName,      \* _pg_col_to_sf, for every name a column can have
    Columns,     \* the columns of its table in Snowflake
    BatchSize,   \* SF_BATCH_SIZE
    MaxChanges   \* bound: changes of the mapped relation

\* The relations of a layout name the key alike, and no made-up name is that of the key.
ASSUME ReplicaAssumption ==
    /\ Oid = {Mapped}
    /\ \A c, d \in DOMAIN SfName : SfName[c] = SfName[d] => c = d
    /\ \A cols, other \in Layout :
          /\ cols[1] = other[1] /\ SfName[cols[1]] \in Columns
          /\ \A i \in DOMAIN other :
                ColumnName(cols, i) \in DOMAIN SfName /\ (i # 1 => ColumnName(cols, i) # cols[1])
    /\ BatchSize \in Nat \ {0} /\ MaxChanges \in Nat

\* None is no row on either side.
ASSUME NoRowAssumption ==
    /\ \A cols \in Layout : None \notin [DOMAIN cols -> Value]
    /\ None \notin [Columns -> Value]

VARIABLES
    contents,   \* the rows of the mapped relation after the last change
    run,        \* where run() is: "reading" rows, "flushing", "failed"
    buffer,     \* _buffer
    current,    \* current[k]: the row with key k in the current-state table
    log,        \* every change of the mapped relation since the last flush
    changes,    \* how many there were in all
    wrong       \* keys whose row may differ between PostgreSQL and Snowflake

replicaVars == <<contents, run, buffer, current, log, changes, wrong>>
vars == <<parserVars, replicaVars>>

SfRow == [Columns -> Value]

\* What the log keeps of a change: the keys it was about, whether its message holds
\* every value of the row, the columns, and its place in the buffer or 0.
Entry(c, place) ==
    [op |-> c.op,
     from |-> IF c.old = None THEN None ELSE c.old[1],
     to |-> IF c.new = None THEN None ELSE c.new[1],
     whole |-> c.unchanged = {}, cols |-> layout[Mapped], place |-> place]

ReplicaTypeOK ==
    /\ \A r \in contents : DOMAIN r = DOMAIN layout[Mapped] /\ r[1] # None
    /\ \A r, s \in contents : r[1] = s[1] => r = s
    /\ run \in {"reading", "flushing", "failed"}
    /\ \A i \in DOMAIN buffer : buffer[i] \in Event /\ buffer[i].table = Mapped
    /\ \A i \in DOMAIN log : log[i].place \in 0..Len(buffer)
    /\ current \in [Val -> SfRow \cup {None}]
    /\ changes \in 0..MaxChanges /\ Len(log) <= changes
    /\ wrong \subseteq Val

Init ==
    /\ ParserInit
    /\ contents = {} /\ run = "reading" /\ buffer = <<>>
    /\ current = [k \in Val |-> None]
    /\ log = <<>> /\ changes = 0 /\ wrong = {}

-----------------------------------------------------------------------------
(* The table in PostgreSQL.                                                *)

\* A change of rows that are there, to a row whose key is free.
Apply(c) ==
    LET rest == contents \ {c.old} IN
    /\ changes < MaxChanges /\ changes' = changes + 1
    /\ c.op # "c" => c.old \in contents
    /\ c.op # "d" => \A r \in rest : r[1] # c.new[1]
    /\ contents' = rest \cup ({c.new} \ {None})

AnyChange ==
    LET Of(op, old, new) == [op : {op}, table : {Mapped}, old : old, new : new, unchanged : {{}}]
    IN  Of("c", {None}, RowsOf(Mapped)) \cup Of("u", contents, RowsOf(Mapped))
            \cup Of("d", contents, {None})

\* A row under new columns: one that was there keeps its value, one that was not has
\* the default, in the rows there are as well.
Reshape(row, old, new, default) ==
    [i \in DOMAIN new |->
        IF new[i] \in ToSet(old) THEN row[CHOOSE j \in DOMAIN old : old[j] = new[i]] ELSE default]

-----------------------------------------------------------------------------
(* _write_batch, for the one table.                                        *)

\* _row_to_sf
RowToSf(row) ==
    [s \in {SfName[c] : c \in DOMAIN row} |-> row[CHOOSE c \in DOMAIN row : SfName[c] = s]]

KeyColumn == SfName[layout[Mapped][1]]

Upserts == {i \in DOMAIN buffer : buffer[i].op # "d"}
Deletes == DOMAIN buffer \ Upserts

UpsertRow(i) == RowToSf(buffer[i].after)
DeletedRow(i) == RowToSf(buffer[i].before)

\* A faulty MergeColumns: the columns of the newest row.
MergeColumnsNewest ==
    UNION {DOMAIN UpsertRow(i) : i \in {j \in Upserts : \A other \in Upserts : other <= j}}

\* all_cols of _merge_current: the columns of the first row.
MergeColumns ==
    UNION {DOMAIN UpsertRow(i) : i \in {j \in Upserts : \A other \in Upserts : j <= other}}

\* A faulty Written: a row that is there is replaced, not updated.
WrittenAnew(row, k) ==
    [c \in MergeColumns |-> IF c \in DOMAIN row THEN row[c] ELSE None]

\* UPDATE SET of the matched row, INSERT of one that is not: row.get(c) for every
\* column of the batch; the other columns stay or are NULL.
Written(row, k) ==
    [c \in Columns |-> IF c \in MergeColumns \cap DOMAIN row THEN row[c]
                       ELSE IF c \in MergeColumns \/ current[k] = None THEN None
                       ELSE current[k][c]]

\* _merge_current, with any row of a key left by the dedup.
Merged ==
    LET keys == {UpsertRow(i)[KeyColumn] : i \in Upserts}
        winners == {w \in [keys -> Upserts] : \A k \in keys : UpsertRow(w[k])[KeyColumn] = k}
    IN  {[k \in Val |-> IF k \in keys THEN Written(UpsertRow(win[k]), k) ELSE current[k]] :
            win \in winners}

\* A faulty WithoutDeleted: the rows are taken out before the MERGE puts them back.
WithoutDeletedFirst(table) ==
    [k \in Val |-> IF \E i \in Deletes : DeletedRow(i)[KeyColumn] = k
                      /\ \A j \in Upserts : UpsertRow(j)[KeyColumn] # k
                   THEN None ELSE table[k]]

\* _delete_current, which comes after.
WithoutDeleted(table) ==
    [k \in Val |-> IF \E i \in Deletes : DeletedRow(i)[KeyColumn] = k THEN None ELSE table[k]]

\* all_cols of _insert_history: the columns of the first event, whatever its operation.
HistoryColumns == DOMAIN (IF 1 \in Upserts THEN UpsertRow(1) ELSE DeletedRow(1))

\* A column the warehouse does not have; or none to set, which leaves UPDATE SET with a
\* comma in front.
MergeRejected == ~(MergeColumns \subseteq Columns) \/ MergeColumns = {KeyColumn}
HistoryRejected == ~(HistoryColumns \subseteq Columns)
Rejected == buffer # <<>> /\ (MergeRejected \/ HistoryRejected)

-----------------------------------------------------------------------------
(* run()                                                                   *)

Touches(l, k) == k \in {l.from, l.to}
Touched(entries) == {k \in Val : \E i \in DOMAIN entries : Touches(entries[i], k)}

\* One change of the poll, parsed and published, when the batch may be full or late.
ReadRow ==
    /\ run = "reading" /\ Send /\ Apply(change')
    /\ buffer' = IF event' = None THEN buffer ELSE Append(buffer, event')
    /\ log' = Append(log, Entry(change', IF event' = None THEN 0 ELSE Len(buffer')))
    /\ \/ event' # None /\ run' = "flushing"
       \/ (event' = None \/ Len(buffer') < BatchSize) /\ UNCHANGED run
    /\ UNCHANGED <<current, wrong>>

\* The messages that change no row, and the next poll.
ReadOther ==
    /\ run = "reading"
    /\ Begin \/ Describe \/ SendOther \/ CommitTx \/ NextPoll
    /\ UNCHANGED replicaVars

\* A poll found nothing.
IdleFlush ==
    /\ run = "reading" /\ tx = 0 /\ buffer # <<>>
    /\ run' = "flushing"
    /\ UNCHANGED <<parserVars, contents, buffer, current, log, changes, wrong>>

\* The flush just done has left the row of k as it is in PostgreSQL: the last change
\* was in the batch, and it was a delete, or it wrote the row, with all its columns and
\* as the only change of that key.
Settled(k) ==
    LET about == {i \in DOMAIN log : Touches(log[i], k)}
        got == {i \in DOMAIN log : log[i].place # 0}
        upserts == {i \in got : log[i].op # "d"}
    IN  \E last \in about \cap got :
           /\ \A j \in about : j <= last
           /\ \/ log[last].op = "d"
              \/ /\ log[last].to = k /\ log[last].whole
                 /\ \A j \in (about \cap got) \ {last} : log[j].op # "d" /\ log[j].to # k
                 /\ \E first \in upserts :
                       /\ \A j \in upserts : first <= j
                       /\ {log[first].cols, log[last].cols} \cap Unreadable = {}
                       /\ ToSet(log[last].cols) \subseteq ToSet(log[first].cols)

FlushAccepted ==
    /\ run = "flushing" /\ ~Rejected
    /\ \E table \in Merged : current' = WithoutDeleted(table)
    /\ run' = "reading" /\ buffer' = <<>> /\ log' = <<>>
    /\ wrong' = (wrong \cup Touched(log)) \ {k \in Touched(log) : Settled(k)}
    /\ UNCHANGED <<parserVars, contents, changes>>

\* The exhausted flush, which raises out of publish: the buffer is kept.
FlushRejected ==
    /\ run = "flushing" /\ Rejected
    /\ IF MergeRejected THEN UNCHANGED current
       ELSE \E table \in Merged : current' = WithoutDeleted(table)
    /\ run' = "failed"
    /\ UNCHANGED <<parserVars, contents, buffer, log, changes, wrong>>

\* The connection to PostgreSQL breaks, which the next poll finds out.
Break ==
    /\ run = "reading" /\ tx = 0 /\ run' = "failed"
    /\ UNCHANGED <<parserVars, contents, buffer, current, log, changes, wrong>>

\* A change in the rest of the poll, or in the answer that did not arrive.
Miss ==
    /\ run = "failed"
    /\ \E c \in AnyChange : Apply(c) /\ log' = Append(log, Entry(c, 0))
    /\ UNCHANGED <<parserVars, run, buffer, current, wrong>>

Reopen ==
    /\ run = "failed" /\ run' = "reading"
    /\ Reconnect
    /\ UNCHANGED <<contents, buffer, current, log, changes, wrong>>

\* The process ends and is started again.
Restart ==
    /\ Reconnect
    /\ run' = "reading" /\ buffer' = <<>> /\ log' = <<>>
    /\ wrong' = wrong \cup Touched(log)
    /\ UNCHANGED <<contents, current, changes>>

\* A column is taken from the rows or added to them with a default, which is in no
\* message before the row changes.
Alter ==
    /\ run # "flushing" /\ AlterTable
    /\ \E default \in Value :
          contents' = {Reshape(r, layout[Mapped], layout'[Mapped], default) : r \in contents}
    /\ IF ToSet(layout'[Mapped]) \subseteq ToSet(layout[Mapped]) THEN UNCHANGED <<log, wrong>>
       ELSE /\ log' = [i \in DOMAIN log |-> [log[i] EXCEPT !.whole = FALSE]]
            /\ wrong' = wrong \cup {r[1] : r \in contents}
    /\ UNCHANGED <<run, buffer, current, changes>>

Next ==
    \/ ReadRow \/ ReadOther \/ IdleFlush
    \/ FlushAccepted \/ FlushRejected
    \/ Break \/ Miss \/ Reopen \/ Restart
    \/ Alter

Spec == Init /\ [][Next]_vars

-----------------------------------------------------------------------------
(* Properties.                                                             *)

\* The row of key k is the same on both sides, in the columns both have.
Mirrored(k) ==
    LET rows == {r \in contents : r[1] = k} IN
    IF current[k] = None THEN rows = {}
    ELSE \E r \in rows : \A i \in DOMAIN r :
            SfName[layout[Mapped][i]] \in Columns =>
                current[k][SfName[layout[Mapped][i]]] = r[i]

\* The current-state table is the table of PostgreSQL, row by row, except where one of
\* these has happened to the row since it was last written in full: a change of it was
\* lost (reconnect, restart, unreadable names), an UPDATE did not send a value again,
\* its key was changed, the batch held another change of its key or began with a row
\* of fewer columns, a column was added.
MirrorFaithful == \A k \in Val \ (wrong \cup Touched(log)) : Mirrored(k)

\* A batch the warehouse rejects for its columns is given up only with the process, and
\* then the rows it was about are wrong.  Until then it grows with every change and
\* is rejected again, whatever columns the table has by then.  If it is the MERGE that
\* is rejected, nothing reaches the table any more, the deletes behind it included.
PoisonStays ==
    [][/\ Rejected => Rejected' \/ Touched(log) \subseteq wrong'
       /\ MergeRejected => UNCHANGED current /\ (MergeRejected' \/ buffer' = <<>>)]_vars
===============================================================================
