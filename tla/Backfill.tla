------------------------------- MODULE Backfill -------------------------------
(***************************************************************************)
(* scripts/backfill.py: pages through the source tables in the order of    *)
(* their id, inserts each page into the current-state table batch by       *)
(* batch, and records how far it got in a checkpoint file from which the   *)
(* next run resumes.  The source changes meanwhile; every SELECT sees it   *)
(* as it is then (autocommit).                                             *)
(*                                                                         *)
(* A row is its primary key (id, tenant) and the change that wrote it.     *)
(***************************************************************************)
EXTENDS Integers, Sequences, FiniteSetsExt

CONSTANTS
    Tables,      \* _TABLES: the tables, in the order they are loaded
    Tenant,      \* second column of the primary key
    PageSize,    \* PAGE_SIZE
    InsertSize,  \* INSERT_BATCH
    MaxId,       \* bound: ids
    MaxChanges,  \* bound: changes of the source while the script is in use
    MaxCrashes   \* bound: runs of the script that do not end well

Tbl == {Tables[i] : i \in DOMAIN Tables}

ASSUME BackfillAssumption ==
    /\ Tables \in Seq(Tbl)
    /\ \A i, j \in DOMAIN Tables : Tables[i] = Tables[j] => i = j
    /\ IsFiniteSet(Tenant)
    /\ PageSize \in Nat \ {0} /\ InsertSize \in Nat \ {0}
    /\ MaxId \in Nat /\ MaxChanges \in Nat /\ MaxCrashes \in Nat

VARIABLES
    source,   \* source[t]: the rows of t in PostgreSQL
    clock,    \* changes of the source so far
    stable,   \* rows there since before the first run, <<table, key>>
    target,   \* target[t][k]: versions of the rows with key k in the warehouse
    file,     \* the checkpoint file
    cp,       \* the checkpoint in memory
    pc,       \* where the script stands, "off" when none runs
    at,       \* index of the table being loaded
    last,     \* last_id of _backfill_table
    page,     \* rows of the page that are not inserted yet
    crashes   \* runs that did not end well so far

sourceVars == <<source, clock, stable>>
backfillVars == <<sourceVars, target, file, cp, pc, at, last, page, crashes>>

PrimaryKey == [id : 1..MaxId, tenant : Tenant]
Row == [id : 1..MaxId, tenant : Tenant, ver : 0..MaxChanges]
KeyOf(r) == [id |-> r.id, tenant |-> r.tenant]
KeysOf(rows) == {KeyOf(r) : r \in rows}

Checkpoint == [last : [Tbl -> 0..MaxId], done : [Tbl -> BOOLEAN]]
Fresh == [last |-> [t \in Tbl |-> 0], done |-> [t \in Tbl |-> FALSE]]

BackfillTypeOK ==
    /\ source \in [Tbl -> SUBSET Row]
    /\ clock \in 0..MaxChanges
    /\ stable \subseteq Tbl \X PrimaryKey
    /\ target \in [Tbl -> [PrimaryKey -> Seq(0..MaxChanges)]]
    /\ file \in [state : {"none", "torn", "saved"}, cp : Checkpoint]
    /\ cp \in Checkpoint
    /\ pc \in {"off", "table", "truncate", "select", "insert", "save", "dump"}
    /\ at \in 1..Len(Tables) + 1
    /\ last \in 0..MaxId
    /\ page \subseteq Row
    /\ crashes \in 0..MaxCrashes

\* The source holds whatever it holds; the tables of the warehouse are new.
BackfillInit ==
    /\ \E keys \in [Tbl -> SUBSET PrimaryKey] :
          /\ source = [t \in Tbl |-> {[id |-> k.id, tenant |-> k.tenant, ver |-> 0] : k \in keys[t]}]
          /\ stable = {p \in Tbl \X PrimaryKey : p[2] \in keys[p[1]]}
    /\ clock = 0
    /\ target = [t \in Tbl |-> [k \in PrimaryKey |-> <<>>]]
    /\ file = [state |-> "none", cp |-> Fresh] /\ cp = Fresh
    /\ pc = "off" /\ at = 1 /\ last = 0 /\ page = {} /\ crashes = 0

-----------------------------------------------------------------------------
(* The source.                                                             *)

Without(t, k) == {r \in source[t] : KeyOf(r) # k}

\* INSERT or UPDATE of row k.
Upsert(t, k) ==
    /\ clock < MaxChanges /\ clock' = clock + 1
    /\ source' = [source EXCEPT ![t] =
                     Without(t, k) \cup {[id |-> k.id, tenant |-> k.tenant, ver |-> clock + 1]}]
    /\ UNCHANGED stable

Remove(t, k) ==
    /\ k \in KeysOf(source[t])
    /\ clock < MaxChanges /\ clock' = clock + 1
    /\ source' = [source EXCEPT ![t] = Without(t, k)]
    /\ stable' = stable \ {<<t, k>>}

-----------------------------------------------------------------------------
(* main(): the checkpoint and the loop over the tables.                    *)

\* A faulty Start: the checkpoint of the last run is not looked for.
StartOver ==
    /\ pc = "off" /\ file.state # "torn"
    /\ cp' = Fresh
    /\ pc' = "table" /\ at' = 1
    /\ UNCHANGED <<sourceVars, target, file, last, page, crashes>>

\* _load_checkpoint: a file that was cut short is not JSON, and the run ends there.
Start ==
    /\ pc = "off" /\ file.state # "torn"
    /\ cp' = IF file.state = "saved" THEN file.cp ELSE Fresh
    /\ pc' = "table" /\ at' = 1
    /\ UNCHANGED <<sourceVars, target, file, last, page, crashes>>

\* The operator removes a checkpoint file that cannot be read.
RemoveFile ==
    /\ pc = "off" /\ file.state = "torn"
    /\ file' = [state |-> "none", cp |-> Fresh]
    /\ UNCHANGED <<sourceVars, target, cp, pc, at, last, page, crashes>>

SkipDone ==
    /\ pc = "table" /\ at <= Len(Tables)
    /\ cp.done[Tables[at]]
    /\ at' = at + 1
    /\ UNCHANGED <<sourceVars, target, file, cp, pc, last, page, crashes>>

\* A faulty EnterTable: the table is truncated on a resume as well.
EnterTableAnew ==
    /\ pc = "table" /\ at <= Len(Tables)
    /\ ~cp.done[Tables[at]]
    /\ last' = cp.last[Tables[at]]
    /\ pc' = "truncate"
    /\ UNCHANGED <<sourceVars, target, file, cp, at, page, crashes>>

EnterTable ==
    /\ pc = "table" /\ at <= Len(Tables)
    /\ ~cp.done[Tables[at]]
    /\ last' = cp.last[Tables[at]]
    /\ pc' = IF last' = 0 THEN "truncate" ELSE "select"
    /\ UNCHANGED <<sourceVars, target, file, cp, at, page, crashes>>

Finished ==
    /\ pc = "table" /\ at > Len(Tables)
    /\ pc' = "off" /\ at' = 1 /\ last' = 0 /\ cp' = Fresh
    /\ UNCHANGED <<sourceVars, target, file, page, crashes>>

-----------------------------------------------------------------------------
(* _backfill_table.                                                        *)

\* The first n of rows by id; rows with the same id come in any order.
Lowest(n, rows) ==
    {s \in kSubset(IF n < Cardinality(rows) THEN n ELSE Cardinality(rows), rows) :
        \A r \in s, q \in rows \ s : r.id <= q.id}

Truncate ==
    /\ pc = "truncate"
    /\ target' = [target EXCEPT ![Tables[at]] = [k \in PrimaryKey |-> <<>>]]
    /\ pc' = "select"
    /\ UNCHANGED <<sourceVars, file, cp, at, last, page, crashes>>

Beyond == {r \in source[Tables[at]] : r.id > last}

\* A faulty SelectPage: WHERE id >= last_id.
SelectPageAgain ==
    /\ pc = "select"
    /\ {r \in source[Tables[at]] : r.id >= last} # {}
    /\ page' \in Lowest(PageSize, {r \in source[Tables[at]] : r.id >= last})
    /\ pc' = "insert"
    /\ UNCHANGED <<sourceVars, target, file, cp, at, last, crashes>>

SelectPage ==
    /\ pc = "select"
    /\ Beyond # {}
    /\ page' \in Lowest(PageSize, Beyond)
    /\ pc' = "insert"
    /\ UNCHANGED <<sourceVars, target, file, cp, at, last, crashes>>

\* INSERT of rows: the warehouse does not enforce its primary keys.
Inserted(t, rows) ==
    [k \in PrimaryKey |->
        IF k \in KeysOf(rows)
        THEN Append(target[t][k], (CHOOSE r \in rows : KeyOf(r) = k).ver) ELSE target[t][k]]

\* Faulty variants of InsertBatch: last_id counts rows, and the checkpoint is taken
\* before the page is complete.
InsertBatchCounting ==
    /\ pc = "insert"
    /\ \E batch \in Lowest(InsertSize, page) :
          /\ target' = [target EXCEPT ![Tables[at]] = Inserted(Tables[at], batch)]
          /\ page' = page \ batch
    /\ IF page' = {}
       THEN /\ last' = last + PageSize
            /\ cp' = [cp EXCEPT !.last[Tables[at]] = last']
            /\ pc' = "save"
       ELSE UNCHANGED <<last, cp, pc>>
    /\ UNCHANGED <<sourceVars, file, at, crashes>>

InsertBatchSavingEarly ==
    /\ pc = "insert"
    /\ \E batch \in Lowest(InsertSize, page) :
          /\ target' = [target EXCEPT ![Tables[at]] = Inserted(Tables[at], batch)]
          /\ page' = page \ batch
    /\ last' = Max({r.id : r \in page})
    /\ cp' = [cp EXCEPT !.last[Tables[at]] = last']
    /\ pc' = IF page' = {} THEN "save" ELSE "insert"
    /\ file' = [state |-> "saved", cp |-> cp']
    /\ UNCHANGED <<sourceVars, at, crashes>>

\* One statement; after the last of the page, last_id and the callback's cp follow.
InsertBatch ==
    /\ pc = "insert"
    /\ \E batch \in Lowest(InsertSize, page) :
          /\ target' = [target EXCEPT ![Tables[at]] = Inserted(Tables[at], batch)]
          /\ page' = page \ batch
    /\ IF page' = {}
       THEN /\ last' = Max({r.id : r \in page})
            /\ cp' = [cp EXCEPT !.last[Tables[at]] = last']
            /\ pc' = "save"
       ELSE UNCHANGED <<last, cp, pc>>
    /\ UNCHANGED <<sourceVars, file, at, crashes>>

\* A faulty TableDone: the table is not marked.
TableDoneUnmarked ==
    /\ pc = "select"
    /\ Beyond = {}
    /\ cp' = [cp EXCEPT !.last[Tables[at]] = last]
    /\ pc' = "save"
    /\ UNCHANGED <<sourceVars, target, file, at, last, page, crashes>>

\* No rows left: _backfill_table returns and main() marks the table done.
TableDone ==
    /\ pc = "select"
    /\ Beyond = {}
    /\ cp' = [last |-> [cp.last EXCEPT ![Tables[at]] = last],
              done |-> [cp.done EXCEPT ![Tables[at]] = TRUE]]
    /\ pc' = "save"
    /\ UNCHANGED <<sourceVars, target, file, at, last, page, crashes>>

\* _save_checkpoint: open(CHECKPOINT, "w") empties the file ...
SaveOpens ==
    /\ pc = "save"
    /\ file' = [state |-> "torn", cp |-> Fresh]
    /\ pc' = "dump"
    /\ UNCHANGED <<sourceVars, target, cp, at, last, page, crashes>>

\* ... and its contents are there when it is closed.
SaveDumps ==
    /\ pc = "dump"
    /\ file' = [state |-> "saved", cp |-> cp]
    /\ IF cp.done[Tables[at]] THEN pc' = "table" /\ at' = at + 1
                              ELSE pc' = "select" /\ UNCHANGED at
    /\ UNCHANGED <<sourceVars, target, cp, last, page, crashes>>

\* The script is killed, or a statement raises and nothing catches it.
Crash ==
    /\ pc # "off"
    /\ crashes < MaxCrashes /\ crashes' = crashes + 1
    /\ pc' = "off" /\ at' = 1 /\ last' = 0 /\ page' = {} /\ cp' = Fresh
    /\ UNCHANGED <<sourceVars, target, file>>

-----------------------------------------------------------------------------

Script ==
    \/ SkipDone \/ EnterTable \/ Finished
    \/ Truncate \/ SelectPage \/ InsertBatch \/ TableDone
    \/ SaveOpens \/ SaveDumps

Operator == Start \/ RemoveFile

-----------------------------------------------------------------------------
(* Properties.                                                             *)

Loaded(t, k) == target[t][k] # <<>>

\* What the checkpoint file says is loaded is loaded: rows that were there all along
\* and that the next run will not look at again are in the warehouse.
CheckpointHonest ==
    file.state = "saved" =>
        \A t \in Tbl, k \in PrimaryKey :
            <<t, k>> \in stable /\ (file.cp.done[t] \/ k.id <= file.cp.last[t]) => Loaded(t, k)

\* A row gets into the warehouse twice only through a run that did not end well, and
\* each of those costs at most one more copy.
CopiesNeedCrash ==
    \A t \in Tbl, k \in PrimaryKey : Len(target[t][k]) <= 1 + crashes

AllDone == file.state = "saved" /\ \A t \in Tbl : file.cp.done[t]

\* Run again often enough, the script gets through all tables and stays there.
BackfillEnds == <>[]AllDone
===============================================================================
