---------------------------- MODULE PgOutputParser ----------------------------
(***************************************************************************)
(* src/pgoutput_parser.py: the parser of one connection, which remembers   *)
(* the relations and the transaction that later messages refer to, against *)
(* a server that sends pgoutput messages (external; proto_version 1).      *)
(*                                                                         *)
(* Each step sends one message and parses it.  change is what the message  *)
(* is about, event what parse() returned for it.                           *)
(***************************************************************************)
EXTENDS Integers, Sequences, TLC

CONSTANTS
    Oid,         \* relations; each keeps its name
    Layout,      \* column lists a relation may have, the key first
    Unreadable,  \* those of them with a name that is not UTF-8
    Val,         \* column values
    None,        \* None and NULL
    MaxTx,       \* bound: transactions
    MaxAlters    \* bound: ALTER TABLEs

ASSUME ParserAssumption ==
    /\ Unreadable \subseteq Layout
    /\ \A cols \in Layout :
          /\ cols \in Seq(STRING) /\ cols # <<>>
          /\ \A i, j \in DOMAIN cols : cols[i] = cols[j] => i = j
    /\ MaxTx \in Nat /\ MaxAlters \in Nat

VARIABLES
    layout,     \* layout[o]: the columns of o
    identity,   \* identity[o]: its REPLICA IDENTITY
    sent,       \* relations the server has described since the poll began
    tx,         \* the transaction being sent, 0 between transactions
    begun,      \* transactions so far
    alters,     \* ALTER TABLEs so far
    relations,  \* _relations: the columns by OID
    commitLsn,  \* _current_commit_lsn
    tsMs,       \* _current_ts_ms
    event,      \* what parse() returned in the last step
    change      \* what that step was about, None for other messages

server == <<layout, identity, sent, tx, begun, alters>>
parser == <<relations, commitLsn, tsMs>>
parserVars == <<server, parser, event, change>>

\* The commit LSN and the timestamp of transaction t.
CommitOf(t) == t
TimeOf(t) == 10 * t

\* Column i of a relation, or the name made up where it has none.
ColumnName(cols, i) == IF i <= Len(cols) THEN cols[i] ELSE "col_" \o ToString(i - 1)

\* TupleData, the dicts made from it, ChangeEvent.
Value == Val \cup {None}
Cell == [kind : {"n", "u", "t"}, val : Value]
Tuples == UNION {[DOMAIN cols -> Cell] : cols \in Layout}
DictsOf(cols, other) == [{ColumnName(cols, i) : i \in DOMAIN other} -> Value]
Dicts == UNION {DictsOf(cols, other) : cols, other \in Layout}
Event == [op : {"c", "u", "d"}, table : Oid, before : Dicts \cup {None}, after : Dicts \cup {None},
          commit : 0..MaxTx, ts : 0..TimeOf(MaxTx)]

\* None is none of the values it stands beside.
ASSUME NoneAssumption ==
    /\ None \notin Val /\ None \notin Layout
    /\ None \notin Tuples /\ None \notin Dicts /\ None \notin Event

ParserTypeOK ==
    /\ layout \in [Oid -> Layout] /\ identity \in [Oid -> {"full", "default"}]
    /\ sent \subseteq Oid
    /\ begun \in 0..MaxTx /\ tx \in {0, begun} /\ alters \in 0..MaxAlters
    /\ relations \in [Oid -> Layout \cup {None}]
    /\ commitLsn \in 0..MaxTx /\ tsMs \in 0..TimeOf(MaxTx)
    /\ event \in Event \cup {None}
    /\ event # None => (event.op = "c" => event.before = None) /\ (event.op = "d" => event.after = None)

FreshParser == relations = [o \in Oid |-> None] /\ commitLsn = 0 /\ tsMs = 0

ParserInit ==
    /\ layout \in [Oid -> Layout] /\ identity \in [Oid -> {"full", "default"}]
    /\ sent = {} /\ tx = 0 /\ begun = 0 /\ alters = 0
    /\ FreshParser
    /\ event = None /\ change = None

-----------------------------------------------------------------------------
(* parse() and its handlers.                                               *)

NoEvent == event' = None

\* A faulty HandleBegin: a new transaction starts from nothing.
HandleBeginForgetting(m) ==
    /\ commitLsn' = m.commit /\ tsMs' = m.ts
    /\ relations' = [o \in Oid |-> None]
    /\ NoEvent

HandleBegin(m) ==
    /\ commitLsn' = m.commit /\ tsMs' = m.ts
    /\ NoEvent /\ UNCHANGED relations

\* A faulty HandleRelation: the first description of a relation stays.
HandleRelationOnce(m) ==
    /\ relations' = IF m.cols \in Unreadable \/ relations[m.oid] # None THEN relations
                    ELSE [relations EXCEPT ![m.oid] = m.cols]
    /\ NoEvent /\ UNCHANGED <<commitLsn, tsMs>>

\* A name that does not decode raises before _relations is set, and parse() goes on.
HandleRelation(m) ==
    /\ relations' = IF m.cols \in Unreadable THEN relations
                    ELSE [relations EXCEPT ![m.oid] = m.cols]
    /\ NoEvent /\ UNCHANGED <<commitLsn, tsMs>>

\* _read_tuple: NULL and an unchanged TOAST value both give None.
ReadTuple(tuple, cols) ==
    [c \in {ColumnName(cols, i) : i \in DOMAIN tuple} |->
        LET cell == tuple[CHOOSE i \in DOMAIN tuple : ColumnName(cols, i) = c]
        IN  IF cell.kind = "t" THEN cell.val ELSE None]

ReadOptional(tuple, cols) == IF tuple = None THEN None ELSE ReadTuple(tuple, cols)

\* _event, once the relation is known; before it is, the message is dropped.
Emit(op, m, old, new) ==
    /\ event' = IF relations[m.oid] = None THEN None
                ELSE [op |-> op, table |-> m.oid,
                      before |-> ReadOptional(old, relations[m.oid]),
                      after |-> ReadOptional(new, relations[m.oid]),
                      commit |-> commitLsn, ts |-> tsMs]
    /\ UNCHANGED parser

HandleInsert(m) == Emit("c", m, None, m.new)
HandleUpdate(m) == Emit("u", m, m.old, m.new)

\* A faulty HandleDelete: the old tuple is taken for the new one.
HandleDeleteAfter(m) == Emit("d", m, None, m.old)

HandleDelete(m) == Emit("d", m, m.old, None)

\* COMMIT, TRUNCATE and the rest.
Skip == NoEvent /\ UNCHANGED parser

-----------------------------------------------------------------------------
(* The server.                                                             *)

Begin ==
    /\ tx = 0 /\ begun < MaxTx
    /\ begun' = begun + 1 /\ tx' = begun + 1
    /\ HandleBegin([commit |-> CommitOf(begun + 1), ts |-> TimeOf(begun + 1)])
    /\ change' = None /\ UNCHANGED <<layout, identity, sent, alters>>

\* Before the first change of a relation in a poll or after an ALTER; also at other times.
Describe ==
    /\ tx # 0
    /\ \E o \in Oid :
          /\ sent' = sent \cup {o}
          /\ HandleRelation([oid |-> o, cols |-> layout[o]])
    /\ change' = None /\ UNCHANGED <<layout, identity, tx, begun, alters>>

\* Rows of o; the key is never NULL.
RowsOf(o) == {r \in [DOMAIN layout[o] -> Val \cup {None}] : r[1] # None}

\* TupleData: what is NULL is "n", what is not sent again is "u".
Tuple(row, unchanged) ==
    [i \in DOMAIN row |->
        [kind |-> IF row[i] = None THEN "n" ELSE IF i \in unchanged THEN "u" ELSE "t",
         val  |-> IF row[i] = None \/ i \in unchanged THEN None ELSE row[i]]]

KeyTuple(row) == Tuple([i \in DOMAIN row |-> IF i = 1 THEN row[1] ELSE None], {})

OldTuple(o, row) == IF identity[o] = "full" THEN Tuple(row, {}) ELSE KeyTuple(row)

\* Values stored out of line that an UPDATE may leave as they are.
Toastable(old, new) == {i \in DOMAIN old : i > 1 /\ old[i] = new[i] /\ old[i] # None}

SendInsert(o) ==
    \E new \in RowsOf(o) :
        /\ HandleInsert([oid |-> o, new |-> Tuple(new, {})])
        /\ change' = [op |-> "c", table |-> o, old |-> None, new |-> new, unchanged |-> {}]

SendUpdate(o) ==
    \E old, new \in RowsOf(o) : \E unchanged \in SUBSET Toastable(old, new) :
        /\ HandleUpdate([oid |-> o,
                         old |-> IF identity[o] = "full" \/ old[1] # new[1]
                                 THEN OldTuple(o, old) ELSE None,
                         new |-> Tuple(new, unchanged)])
        /\ change' = [op |-> "u", table |-> o, old |-> old, new |-> new, unchanged |-> unchanged]

SendDelete(o) ==
    \E old \in RowsOf(o) :
        /\ HandleDelete([oid |-> o, old |-> OldTuple(o, old)])
        /\ change' = [op |-> "d", table |-> o, old |-> old, new |-> None, unchanged |-> {}]

Send ==
    /\ tx # 0
    /\ \E o \in sent : SendInsert(o) \/ SendUpdate(o) \/ SendDelete(o)
    /\ UNCHANGED server

SendOther ==
    /\ tx # 0 /\ Skip
    /\ change' = None /\ UNCHANGED server

CommitTx ==
    /\ tx # 0 /\ tx' = 0 /\ Skip
    /\ change' = None /\ UNCHANGED <<layout, identity, sent, begun, alters>>

\* Every poll is a decoding session of its own: the server describes relations again.
NextPoll ==
    /\ tx = 0 /\ sent' = {} /\ Skip
    /\ change' = None /\ UNCHANGED <<layout, identity, tx, begun, alters>>

AlterTable ==
    /\ alters < MaxAlters /\ alters' = alters + 1
    /\ \E o \in Oid, cols \in Layout :
          /\ layout' = [layout EXCEPT ![o] = cols]
          /\ sent' = sent \ {o}
    /\ Skip
    /\ change' = None /\ UNCHANGED <<identity, tx, begun>>

\* run() opens the stream anew: a new parser, and the rest of the poll is gone.
Reconnect ==
    /\ relations' = [o \in Oid |-> None] /\ commitLsn' = 0 /\ tsMs' = 0
    /\ tx' = 0 /\ sent' = {}
    /\ event' = None /\ change' = None
    /\ UNCHANGED <<layout, identity, begun, alters>>

ParserNext ==
    \/ Begin \/ Describe \/ Send \/ SendOther \/ CommitTx
    \/ NextPoll \/ AlterTable \/ Reconnect

ParserSpec == ParserInit /\ [][ParserNext]_parserVars

-----------------------------------------------------------------------------
(* Properties.                                                             *)

\* A dict that has the columns of cols and agrees with row on those in exact; the
\* others may be missing their value, but show no other.
Agrees(dict, cols, row, exact) ==
    /\ DOMAIN dict = {cols[i] : i \in DOMAIN cols}
    /\ \A i \in DOMAIN cols : dict[cols[i]] = row[i] \/ (dict[cols[i]] = None /\ i \notin exact)

\* An event is the change it was made from: its table, its own transaction, the row
\* under the names its columns have now, with gaps only where the server sent none.
EventFaithful ==
    event # None /\ layout[change.table] \notin Unreadable =>
        LET cols == layout[change.table] IN
        /\ event.op = change.op /\ event.table = change.table
        /\ event.commit = CommitOf(tx) /\ event.ts = TimeOf(tx)
        /\ change.new # None =>
              Agrees(event.after, cols, change.new, DOMAIN cols \ change.unchanged)
        /\ event.before # None =>
              Agrees(event.before, cols, change.old,
                     IF identity[change.table] = "full" THEN DOMAIN cols ELSE {1})
        /\ change.op = "d" => event.before # None

\* parse() drops no change of a relation whose column names can be read, however many
\* polls, reconnects and ALTERs lie before it.
ChangesGetThrough ==
    change # None /\ layout[change.table] \notin Unreadable => event # None

\* postgres_setup.sql:26-27: with REPLICA IDENTITY FULL, "UPDATE and DELETE WAL records
\* always include all column values".
RowComplete ==
    event # None /\ change.new # None
        /\ layout[change.table] \notin Unreadable /\ identity[change.table] = "full" =>
            \A i \in DOMAIN change.new : event.after[layout[change.table][i]] = change.new[i]
===============================================================================
