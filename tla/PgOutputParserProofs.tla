------------------------- MODULE PgOutputParserProofs -------------------------
(***************************************************************************)
(* Theorems of PgOutputParser, for every set of relations, columns and     *)
(* values: what parse() returns is the change the server sent.             *)
(***************************************************************************)
EXTENDS PgOutputParser, TLAPS

(* The inductive invariant, in named parts.                                *)

\* A relation the server has described is known as it is now, if it can be read.
Described == \A o \in sent : layout[o] \notin Unreadable => relations[o] = layout[o]

\* Within a transaction the context is that of the transaction.
InContext == tx # 0 => commitLsn = CommitOf(tx) /\ tsMs = TimeOf(tx)

ParserInv ==
    /\ ParserTypeOK
    /\ Described
    /\ InContext
    /\ EventFaithful
    /\ ChangesGetThrough

-----------------------------------------------------------------------------
(* Tuples and dicts.                                                       *)

LEMMA LayoutFacts ==
    ASSUME NEW cols \in Layout
    PROVE  /\ cols \in Seq(STRING) /\ Len(cols) \in Nat /\ DOMAIN cols = 1..Len(cols) /\ 1 \in DOMAIN cols
           /\ \A i \in DOMAIN cols : ColumnName(cols, i) = cols[i]
           /\ \A i, j \in DOMAIN cols : cols[i] = cols[j] => i = j
<1>1. cols \in Seq(STRING) /\ cols # <<>> /\ \A i, j \in DOMAIN cols : cols[i] = cols[j] => i = j
  BY ParserAssumption
<1>2. Len(cols) \in Nat /\ DOMAIN cols = 1..Len(cols) /\ 1 \in DOMAIN cols
  BY <1>1
<1>3. \A i \in DOMAIN cols : ColumnName(cols, i) = cols[i]
  BY <1>2 DEF ColumnName
<1> QED
  BY <1>1, <1>2, <1>3

\* What the server sends for a row is a tuple, and its cells say what it left out.
LEMMA TupleForm ==
    ASSUME NEW cols \in Layout, NEW row \in [DOMAIN cols -> Value], NEW unchanged
    PROVE  /\ Tuple(row, unchanged) \in [DOMAIN cols -> Cell]
           /\ Tuple(row, unchanged) \in Tuples /\ Tuple(row, unchanged) # None
           /\ \A i \in DOMAIN cols :
                 LET cell == Tuple(row, unchanged)[i] IN
                 (IF cell.kind = "t" THEN cell.val ELSE None) = (IF i \in unchanged THEN None ELSE row[i])
<1>1. Tuple(row, unchanged) \in [DOMAIN cols -> Cell]
  BY DEF Tuple, Cell, Value
<1>2. Tuple(row, unchanged) \in Tuples
  BY <1>1 DEF Tuples
<1>3. Tuple(row, unchanged) # None
  BY <1>2, NoneAssumption
<1>4. ASSUME NEW i \in DOMAIN cols
      PROVE  LET cell == Tuple(row, unchanged)[i] IN
             (IF cell.kind = "t" THEN cell.val ELSE None) = (IF i \in unchanged THEN None ELSE row[i])
  BY <1>4 DEF Tuple
<1> QED
  BY <1>1, <1>2, <1>3, <1>4

\* Reading any tuple with the columns of any relation gives a dict.
LEMMA ReadTyped ==
    ASSUME NEW cols \in Layout, NEW tuple \in Tuples
    PROVE  ReadTuple(tuple, cols) \in Dicts /\ ReadTuple(tuple, cols) # None
<1>1. PICK other \in Layout : tuple \in [DOMAIN other -> Cell]
  BY DEF Tuples
<1> DEFINE S == {ColumnName(cols, i) : i \in DOMAIN other}
           At(c) == CHOOSE i \in DOMAIN tuple : ColumnName(cols, i) = c
<1>2. DOMAIN tuple = DOMAIN other
  BY <1>1
<1>3. ASSUME NEW c \in S PROVE tuple[At(c)] \in Cell
  BY <1>1, <1>2, <1>3
<1>4. ASSUME NEW c \in S
      PROVE  (IF tuple[At(c)].kind = "t" THEN tuple[At(c)].val ELSE None) \in Value
  <2> HIDE DEF At, S
  <2> QED BY <1>3, <1>4 DEF Cell, Value
<1>5. ReadTuple(tuple, cols) \in [S -> Value]
  BY <1>2, <1>4 DEF ReadTuple
<1>6. ReadTuple(tuple, cols) \in Dicts
  <2>1. ReadTuple(tuple, cols) \in DictsOf(cols, other)
    BY <1>5 DEF DictsOf
  <2> QED
    BY <2>1 DEF Dicts
<1> QED
  BY <1>6, NoneAssumption

\* Reading a row with its own columns gives the row, but for what was left out.
LEMMA ReadsRow ==
    ASSUME NEW cols \in Layout, NEW row \in [DOMAIN cols -> Value], NEW unchanged, NEW exact,
           exact \cap unchanged = {}
    PROVE  Agrees(ReadTuple(Tuple(row, unchanged), cols), cols, row, exact)
<1> DEFINE tuple == Tuple(row, unchanged)
           dict == ReadTuple(tuple, cols)
           At(c) == CHOOSE i \in DOMAIN tuple : ColumnName(cols, i) = c
<1>1. tuple \in [DOMAIN cols -> Cell] /\ DOMAIN tuple = DOMAIN cols
  BY TupleForm
<1>2. DOMAIN dict = {cols[i] : i \in DOMAIN cols}
  BY <1>1, LayoutFacts DEF ReadTuple
<1>3. ASSUME NEW i \in DOMAIN cols
      PROVE  dict[cols[i]] = IF i \in unchanged THEN None ELSE row[i]
  <2>1. At(cols[i]) = i
    BY <1>1, <1>3, LayoutFacts
  <2>2. cols[i] \in {ColumnName(cols, j) : j \in DOMAIN tuple}
    BY <1>1, <1>3, LayoutFacts
  <2>3. dict[cols[i]] = IF tuple[At(cols[i])].kind = "t" THEN tuple[At(cols[i])].val ELSE None
    BY <2>2 DEF ReadTuple
  <2>4. dict[cols[i]] = IF tuple[i].kind = "t" THEN tuple[i].val ELSE None
    BY <2>1, <2>3
  <2> QED
    BY <2>4, <1>3, TupleForm
<1> QED
  <2> HIDE DEF dict
  <2> SUFFICES Agrees(dict, cols, row, exact)
    BY DEF dict
  <2> QED
    BY <1>2, <1>3 DEF Agrees

-----------------------------------------------------------------------------
(* parse().                                                                *)

\* What _event returns where the relation is known, and that it has the right type.
LEMMA EmitGives ==
    ASSUME ParserTypeOK, NEW op \in {"c", "u", "d"}, NEW m, m.oid \in Oid,
           NEW old \in Tuples \cup {None}, NEW new \in Tuples \cup {None},
           op = "c" => old = None, op = "d" => new = None,
           Emit(op, m, old, new)
    PROVE  /\ event' \in Event \cup {None}
           /\ event' # None => (event'.op = "c" => event'.before = None) /\ (event'.op = "d" => event'.after = None)
           /\ relations[m.oid] # None =>
                 /\ event' # None
                 /\ event'.op = op /\ event'.table = m.oid
                 /\ event'.commit = commitLsn /\ event'.ts = tsMs
                 /\ event'.before = ReadOptional(old, relations[m.oid])
                 /\ event'.after = ReadOptional(new, relations[m.oid])
<1> DEFINE e == [op |-> op, table |-> m.oid,
                 before |-> ReadOptional(old, relations[m.oid]),
                 after |-> ReadOptional(new, relations[m.oid]),
                 commit |-> commitLsn, ts |-> tsMs]
<1>1. event' = IF relations[m.oid] = None THEN None ELSE e
  BY DEF Emit
<1>2. CASE relations[m.oid] = None
  BY <1>1, <1>2
<1>3. CASE relations[m.oid] # None
  <2>1. relations[m.oid] \in Layout
    BY <1>3 DEF ParserTypeOK
  <2>2. ReadOptional(old, relations[m.oid]) \in Dicts \cup {None}
    BY <2>1, ReadTyped DEF ReadOptional
  <2>3. ReadOptional(new, relations[m.oid]) \in Dicts \cup {None}
    BY <2>1, ReadTyped DEF ReadOptional
  <2>4. commitLsn \in 0..MaxTx /\ tsMs \in 0..TimeOf(MaxTx)
    BY DEF ParserTypeOK
  <2>5. e \in Event
    BY <2>2, <2>3, <2>4 DEF Event
  <2>6. event' = e /\ event' # None
    BY <1>1, <1>3, <2>5, NoneAssumption
  <2>7. (op = "c" => e.before = None) /\ (op = "d" => e.after = None)
    BY DEF ReadOptional
  <2> QED
    BY <2>5, <2>6, <2>7
<1> QED
  BY <1>2, <1>3

\* What the server sends for a change o is in force for: the context and, if it can be
\* read, the relation.
LEMMA Context ==
    ASSUME ParserInv, tx # 0, NEW o \in sent
    PROVE  /\ o \in Oid /\ layout[o] \in Layout /\ identity[o] \in {"full", "default"}
           /\ commitLsn = CommitOf(tx) /\ tsMs = TimeOf(tx)
           /\ layout[o] \notin Unreadable => relations[o] = layout[o] /\ relations[o] # None
BY NoneAssumption DEF ParserInv, ParserTypeOK, Described, InContext

LEMMA RowsFacts ==
    ASSUME ParserInv, tx # 0, NEW o \in sent, NEW row \in RowsOf(o)
    PROVE  row \in [DOMAIN layout[o] -> Value]
BY DEF RowsOf, Value

\* The old tuple a server sends for row, under either replica identity.
LEMMA OldTupleForm ==
    ASSUME ParserInv, tx # 0, NEW o \in sent, NEW row \in RowsOf(o)
    PROVE  /\ OldTuple(o, row) \in Tuples /\ OldTuple(o, row) # None
           /\ Agrees(ReadTuple(OldTuple(o, row), layout[o]), layout[o], row,
                     IF identity[o] = "full" THEN DOMAIN layout[o] ELSE {1})
<1> DEFINE cols == layout[o]
           keyed == [i \in DOMAIN row |-> IF i = 1 THEN row[1] ELSE None]
<1>1. cols \in Layout /\ row \in [DOMAIN cols -> Value] /\ identity[o] \in {"full", "default"}
  BY Context, RowsFacts
<1> HIDE DEF cols
<1>2. CASE identity[o] = "full"
  <2>1. OldTuple(o, row) = Tuple(row, {})
    BY <1>2 DEF OldTuple
  <2>2. Agrees(ReadTuple(Tuple(row, {}), cols), cols, row, DOMAIN cols)
    BY <1>1, ReadsRow
  <2> QED
    BY <1>1, <1>2, <2>1, <2>2, TupleForm DEF cols
<1>3. CASE identity[o] # "full"
  <2>1. OldTuple(o, row) = Tuple(keyed, {})
    BY <1>3 DEF OldTuple, KeyTuple
  <2>2. keyed \in [DOMAIN cols -> Value]
    BY <1>1, LayoutFacts DEF Value
  <2>3. keyed[1] = row[1] /\ \A i \in DOMAIN cols : keyed[i] = row[i] \/ (keyed[i] = None /\ i # 1)
    BY <1>1, LayoutFacts
  <2> HIDE DEF keyed
  <2>4. Agrees(ReadTuple(Tuple(keyed, {}), cols), cols, keyed, DOMAIN cols)
    BY <1>1, <2>2, ReadsRow
  <2>5. Agrees(ReadTuple(Tuple(keyed, {}), cols), cols, row, {1})
    BY <2>3, <2>4 DEF Agrees
  <2> QED
    BY <1>1, <1>3, <2>1, <2>2, <2>5, TupleForm DEF cols
<1> QED
  BY <1>2, <1>3

-----------------------------------------------------------------------------
(* The steps.                                                              *)

LEMMA SendPreserves ==
    ASSUME ParserInv, Send
    PROVE  ParserInv'
<1>1. tx # 0 /\ UNCHANGED server
  BY DEF Send
<1>2. PICK o \in sent : SendInsert(o) \/ SendUpdate(o) \/ SendDelete(o)
  BY DEF Send
<1> DEFINE cols == layout[o]
<1>3. /\ ParserTypeOK /\ o \in Oid /\ cols \in Layout
      /\ commitLsn = CommitOf(tx) /\ tsMs = TimeOf(tx)
      /\ cols \notin Unreadable => relations[o] = cols /\ relations[o] # None
  BY <1>1, Context DEF ParserInv
<1>4. UNCHANGED parser => (Described /\ InContext)'
  BY <1>1 DEF ParserInv, Described, InContext, server, parser
<1>5. ASSUME UNCHANGED parser, event' \in Event \cup {None},
             event' # None => (event'.op = "c" => event'.before = None) /\ (event'.op = "d" => event'.after = None)
      PROVE  ParserTypeOK'
  BY <1>1, <1>3, <1>5 DEF ParserTypeOK, server, parser
<1>6. CASE SendInsert(o)
  <2>1. PICK new \in RowsOf(o) :
            /\ HandleInsert([oid |-> o, new |-> Tuple(new, {})])
            /\ change' = [op |-> "c", table |-> o, old |-> None, new |-> new, unchanged |-> {}]
    BY <1>6 DEF SendInsert
  <2>2. new \in [DOMAIN cols -> Value]
    BY <1>1, RowsFacts
  <2>3. Tuple(new, {}) \in Tuples /\ Tuple(new, {}) # None
    BY <1>3, <2>2, TupleForm
  <2>4. Agrees(ReadTuple(Tuple(new, {}), cols), cols, new, DOMAIN cols)
    BY <1>3, <2>2, ReadsRow
  <2> DEFINE m == [oid |-> o, new |-> Tuple(new, {})]
  <2>5. Emit("c", m, None, Tuple(new, {})) /\ m.oid = o
    BY <2>1 DEF HandleInsert
  <2> HIDE DEF m, cols
  <2>6. /\ event' \in Event \cup {None}
        /\ event' # None => (event'.op = "c" => event'.before = None) /\ (event'.op = "d" => event'.after = None)
        /\ relations[o] # None =>
              /\ event' # None /\ event'.op = "c" /\ event'.table = o
              /\ event'.commit = commitLsn /\ event'.ts = tsMs
              /\ event'.before = None
              /\ event'.after = ReadTuple(Tuple(new, {}), relations[o])
    BY <1>3, <2>3, <2>5, EmitGives DEF ReadOptional
  <2>7. UNCHANGED parser
    BY <2>5 DEF Emit
  <2>8. EventFaithful'
    BY <1>1, <1>3, <2>1, <2>4, <2>6 DEF EventFaithful, server, cols
  <2>9. ChangesGetThrough'
    BY <1>1, <1>3, <2>1, <2>6 DEF ChangesGetThrough, server, cols
  <2> QED
    BY <1>4, <1>5, <2>6, <2>7, <2>8, <2>9 DEF ParserInv
<1>7. CASE SendUpdate(o)
  <2>0. PICK old \in RowsOf(o), new \in RowsOf(o) : \E unchanged \in SUBSET Toastable(old, new) :
            /\ HandleUpdate([oid |-> o,
                             old |-> IF identity[o] = "full" \/ old[1] # new[1]
                                     THEN OldTuple(o, old) ELSE None,
                             new |-> Tuple(new, unchanged)])
            /\ change' = [op |-> "u", table |-> o, old |-> old, new |-> new, unchanged |-> unchanged]
    BY <1>7 DEF SendUpdate
  <2>1. PICK unchanged \in SUBSET Toastable(old, new) :
            /\ HandleUpdate([oid |-> o,
                             old |-> IF identity[o] = "full" \/ old[1] # new[1]
                                     THEN OldTuple(o, old) ELSE None,
                             new |-> Tuple(new, unchanged)])
            /\ change' = [op |-> "u", table |-> o, old |-> old, new |-> new, unchanged |-> unchanged]
    BY <2>0
  <2> DEFINE oldTuple == IF identity[o] = "full" \/ old[1] # new[1] THEN OldTuple(o, old) ELSE None
             newTuple == Tuple(new, unchanged)
             m == [oid |-> o, old |-> oldTuple, new |-> newTuple]
             exact == IF identity[o] = "full" THEN DOMAIN cols ELSE {1}
  <2>2. new \in [DOMAIN cols -> Value] /\ unchanged \subseteq DOMAIN cols
    BY <1>1, RowsFacts DEF Toastable, RowsOf
  <2>3. newTuple \in Tuples /\ newTuple # None
    BY <1>3, <2>2, TupleForm
  <2>4. Agrees(ReadTuple(newTuple, cols), cols, new, DOMAIN cols \ unchanged)
    BY <1>3, <2>2, ReadsRow
  <2>5. /\ oldTuple \in Tuples \cup {None}
        /\ oldTuple # None => Agrees(ReadTuple(oldTuple, cols), cols, old, exact)
    BY <1>1, OldTupleForm
  <2>6. Emit("u", m, oldTuple, newTuple) /\ m.oid = o
    BY <2>1 DEF HandleUpdate
  <2> HIDE DEF m, cols, oldTuple, newTuple, exact
  <2>7. /\ event' \in Event \cup {None}
        /\ event' # None => (event'.op = "c" => event'.before = None) /\ (event'.op = "d" => event'.after = None)
        /\ relations[o] # None =>
              /\ event' # None /\ event'.op = "u" /\ event'.table = o
              /\ event'.commit = commitLsn /\ event'.ts = tsMs
              /\ event'.before = ReadOptional(oldTuple, relations[o])
              /\ event'.after = ReadTuple(newTuple, relations[o])
    BY <1>3, <2>3, <2>5, <2>6, EmitGives DEF ReadOptional
  <2>8. UNCHANGED parser
    BY <2>6 DEF Emit
  <2>9. EventFaithful'
    BY <1>1, <1>3, <2>1, <2>4, <2>5, <2>7 DEF EventFaithful, ReadOptional, server, cols, exact
  <2>10. ChangesGetThrough'
    BY <1>1, <1>3, <2>1, <2>7 DEF ChangesGetThrough, server, cols
  <2> QED
    BY <1>4, <1>5, <2>7, <2>8, <2>9, <2>10 DEF ParserInv
<1>8. CASE SendDelete(o)
  <2>1. PICK old \in RowsOf(o) :
            /\ HandleDelete([oid |-> o, old |-> OldTuple(o, old)])
            /\ change' = [op |-> "d", table |-> o, old |-> old, new |-> None, unchanged |-> {}]
    BY <1>8 DEF SendDelete
  <2> DEFINE oldTuple == OldTuple(o, old)
             m == [oid |-> o, old |-> oldTuple]
             exact == IF identity[o] = "full" THEN DOMAIN cols ELSE {1}
  <2>2. /\ oldTuple \in Tuples /\ oldTuple # None
        /\ Agrees(ReadTuple(oldTuple, cols), cols, old, exact)
    BY <1>1, OldTupleForm
  <2>3. ReadTuple(oldTuple, cols) # None
    BY <1>3, <2>2, ReadTyped
  <2>4. Emit("d", m, oldTuple, None) /\ m.oid = o
    BY <2>1 DEF HandleDelete
  <2> HIDE DEF m, cols, oldTuple, exact
  <2>5. /\ event' \in Event \cup {None}
        /\ event' # None => (event'.op = "c" => event'.before = None) /\ (event'.op = "d" => event'.after = None)
        /\ relations[o] # None =>
              /\ event' # None /\ event'.op = "d" /\ event'.table = o
              /\ event'.commit = commitLsn /\ event'.ts = tsMs
              /\ event'.before = ReadTuple(oldTuple, relations[o])
    BY <1>3, <2>2, <2>4, EmitGives DEF ReadOptional
  <2>6. UNCHANGED parser
    BY <2>4 DEF Emit
  <2>7. EventFaithful'
    BY <1>1, <1>3, <2>1, <2>2, <2>3, <2>5 DEF EventFaithful, server, cols, exact
  <2>8. ChangesGetThrough'
    BY <1>1, <1>3, <2>1, <2>5 DEF ChangesGetThrough, server, cols
  <2> QED
    BY <1>4, <1>5, <2>5, <2>6, <2>7, <2>8 DEF ParserInv
<1> QED
  BY <1>2, <1>6, <1>7, <1>8

\* A step that parses no change: only the types, the relations and the context matter.
LEMMA QuietStep ==
    ASSUME event' = None, change' = None, ParserTypeOK', Described', InContext'
    PROVE  ParserInv'
BY DEF ParserInv, EventFaithful, ChangesGetThrough

LEMMA StepPreserves ==
    ParserInv /\ [ParserNext]_parserVars => ParserInv'
<1> SUFFICES ASSUME ParserInv, [ParserNext]_parserVars PROVE ParserInv'
  OBVIOUS
<1> USE ParserAssumption
<1>1. ParserTypeOK /\ Described /\ InContext
  BY DEF ParserInv
<1>2. TimeOf(begun + 1) \in Nat /\ (begun < MaxTx => TimeOf(begun + 1) \in 0..TimeOf(MaxTx))
  BY <1>1 DEF TimeOf, ParserTypeOK
<1>3. CASE Begin
  <2>1. /\ begun < MaxTx /\ begun' = begun + 1 /\ tx' = begun + 1
        /\ commitLsn' = CommitOf(begun + 1) /\ tsMs' = TimeOf(begun + 1)
        /\ UNCHANGED <<layout, identity, sent, alters, relations>>
        /\ event' = None /\ change' = None
    BY <1>3 DEF Begin, HandleBegin, NoEvent
  <2>2. ParserTypeOK'
    BY <1>1, <1>2, <2>1 DEF ParserTypeOK, CommitOf
  <2>3. Described' /\ InContext'
    BY <1>1, <2>1 DEF Described, InContext
  <2> QED
    BY <2>1, <2>2, <2>3, QuietStep
<1>4. CASE Describe
  <2>1. PICK o \in Oid :
            /\ sent' = sent \cup {o}
            /\ relations' = IF layout[o] \in Unreadable THEN relations
                            ELSE [relations EXCEPT ![o] = layout[o]]
            /\ event' = None /\ UNCHANGED <<commitLsn, tsMs>>
    BY <1>4 DEF Describe, HandleRelation, NoEvent
  <2>2. change' = None /\ UNCHANGED <<layout, identity, tx, begun, alters>>
    BY <1>4 DEF Describe
  <2>3. ParserTypeOK'
    BY <1>1, <2>1, <2>2 DEF ParserTypeOK
  <2>4. Described'
    BY <1>1, <2>1, <2>2 DEF Described, ParserTypeOK
  <2>5. InContext'
    BY <1>1, <2>1, <2>2 DEF InContext
  <2> QED
    BY <2>1, <2>2, <2>3, <2>4, <2>5, QuietStep
<1>5. CASE Send
  BY <1>5, SendPreserves
<1>6. CASE SendOther \/ CommitTx \/ NextPoll
  <2>1. /\ event' = None /\ change' = None /\ sent' \subseteq sent /\ tx' \in {0, tx}
        /\ UNCHANGED <<layout, identity, begun, alters, relations, commitLsn, tsMs>>
    BY <1>6 DEF SendOther, CommitTx, NextPoll, Skip, NoEvent, server, parser
  <2>2. ParserTypeOK'
    BY <1>1, <2>1 DEF ParserTypeOK
  <2>3. Described' /\ InContext'
    BY <1>1, <2>1 DEF Described, InContext
  <2> QED
    BY <2>1, <2>2, <2>3, QuietStep
<1>7. CASE AlterTable
  <2>1. PICK o \in Oid, cols \in Layout :
            layout' = [layout EXCEPT ![o] = cols] /\ sent' = sent \ {o}
    BY <1>7 DEF AlterTable
  <2>2. /\ alters < MaxAlters /\ alters' = alters + 1
        /\ event' = None /\ change' = None
        /\ UNCHANGED <<identity, tx, begun, relations, commitLsn, tsMs>>
    BY <1>7 DEF AlterTable, Skip, NoEvent, parser
  <2>3. ParserTypeOK'
    BY <1>1, <2>1, <2>2 DEF ParserTypeOK
  <2>4. Described'
    BY <1>1, <2>1, <2>2 DEF Described, ParserTypeOK
  <2>5. InContext'
    BY <1>1, <2>2 DEF InContext
  <2> QED
    BY <2>2, <2>3, <2>4, <2>5, QuietStep
<1>8. CASE Reconnect
  <2>1. ParserTypeOK'
    BY <1>1, <1>8 DEF Reconnect, ParserTypeOK, TimeOf
  <2>2. event' = None /\ change' = None /\ Described' /\ InContext'
    BY <1>8 DEF Reconnect, Described, InContext
  <2> QED
    BY <2>1, <2>2, QuietStep
<1>9. CASE UNCHANGED parserVars
  BY <1>9 DEF parserVars, server, parser, ParserInv, ParserTypeOK, Described, InContext,
              EventFaithful, ChangesGetThrough
<1> QED
  BY <1>3, <1>4, <1>5, <1>6, <1>7, <1>8, <1>9 DEF ParserNext

-----------------------------------------------------------------------------
(* The theorems.                                                           *)

\* The inductive invariant: a described relation is known, the context is that of the
\* transaction, and what parse() returned is right.
THEOREM ParserInvariant == ParserSpec => []ParserInv
<1>1. ParserInit => ParserInv
  BY ParserAssumption DEF ParserInit, FreshParser, ParserInv, ParserTypeOK, Described, InContext,
                          EventFaithful, ChangesGetThrough, TimeOf
<1> QED
  BY <1>1, StepPreserves, PTL DEF ParserSpec

\* Type correctness; in particular every event is a ChangeEvent, an insert without a
\* before-image and a delete without an after-image.
THEOREM ParserTypeCorrect == ParserSpec => []ParserTypeOK
<1>1. ParserInv => ParserTypeOK
  BY DEF ParserInv
<1> QED
  BY <1>1, ParserInvariant, PTL

\* Every event is the change it was made from, for all layouts, values and replica
\* identities, over any number of polls, reconnects and ALTERs.
THEOREM EventsAreFaithful == ParserSpec => []EventFaithful
<1>1. ParserInv => EventFaithful
  BY DEF ParserInv
<1> QED
  BY <1>1, ParserInvariant, PTL

\* No change of a relation with readable column names is dropped by parse().
THEOREM NothingReadableIsDropped == ParserSpec => []ChangesGetThrough
<1>1. ParserInv => ChangesGetThrough
  BY DEF ParserInv
<1> QED
  BY <1>1, ParserInvariant, PTL
===============================================================================
