----------------------------- MODULE ReplicaProofs -----------------------------
(***************************************************************************)
(* Theorems of Replica, for every layout, value and bound: the parser in   *)
(* it is the one of PgOutputParser, a rejected batch stays rejected, and   *)
(* the current-state table is the table of PostgreSQL but for the rows     *)
(* the service itself has made wrong.                                      *)
(***************************************************************************)
EXTENDS Replica, PgOutputParserProofs

(* The inductive invariant, in named parts.                                *)

KeyName == layout[Mapped][1]

\* The rows of the table: a key occurs once.
RowsOK ==
    /\ contents \subseteq RowsOf(Mapped)
    /\ \A r, s \in contents : r[1] = s[1] => r = s

\* A buffered event has the image its operation needs, with a key.
Usable(e, key) ==
    /\ e \in Event /\ e.table = Mapped
    /\ e.op # "d" => e.after \in Dicts /\ key \in DOMAIN e.after
    /\ e.op = "d" => e.before \in Dicts /\ key \in DOMAIN e.before

Entries == [op : {"c", "u", "d"}, from : Value, to : Value, whole : BOOLEAN,
            cols : Layout, place : Nat]

\* A log entry names the row it was about by its keys.
Keyed(l) == IF l.op = "d" THEN l.from \in Val /\ l.to = None ELSE l.to \in Val

TypeInv ==
    /\ RowsOK
    /\ run \in {"reading", "flushing", "failed"}
    /\ run = "flushing" => buffer # <<>>
    /\ buffer \in Seq(Event) /\ \A p \in DOMAIN buffer : Usable(buffer[p], KeyName)
    /\ log \in Seq(Entries)
    /\ \A i \in DOMAIN log : Keyed(log[i]) /\ log[i].place <= Len(buffer)
    /\ current \in [Val -> SfRow \cup {None}]
    /\ changes \in 0..MaxChanges /\ Len(log) <= changes
    /\ wrong \subseteq Val

\* What the buffered event of entry l says of the row.
Matches(l, e, key) ==
    /\ e.op = l.op
    /\ e.op # "d" =>
          /\ e.after[key] = l.to
          /\ l.cols \notin Unreadable => DOMAIN e.after = ToSet(l.cols)
    /\ e.op = "d" => e.before[key] = l.from

\* The events are those of the entries but for what was lost, in the same order.
InOrder(entries, events, key) ==
    /\ \A i \in DOMAIN entries :
          entries[i].place # 0 => Matches(entries[i], events[entries[i].place], key)
    /\ \A p \in DOMAIN events : \E i \in DOMAIN entries : entries[i].place = p
    /\ \A i, j \in DOMAIN entries :
          i < j /\ entries[i].place # 0 /\ entries[j].place # 0 => entries[i].place < entries[j].place

BufferIsLog == InOrder(log, buffer, KeyName)

IsLast(entries, i, k) ==
    /\ i \in DOMAIN entries /\ Touches(entries[i], k)
    /\ \A j \in DOMAIN entries : Touches(entries[j], k) => j <= i

\* A dict of columns cols shows row r under these names.
Shows(dict, r, cols, names) ==
    \A n \in DOMAIN r : names[n] \in ToSet(cols) /\ dict[names[n]] = r[n]

\* Among the rows is what entry l made of the row of k, with event e if it has one.
Left(l, e, k, rows, names) ==
    IF l.to = k
    THEN \E r \in rows :
            /\ r[1] = k
            /\ l.place # 0 /\ l.whole /\ l.cols \notin Unreadable => Shows(e.after, r, l.cols, names)
    ELSE \A r \in rows : r[1] # k

\* The row of k is what the last change in flight made of it.
RowsFollow(entries, events, rows, names) ==
    \A k \in Val : \A i \in DOMAIN entries :
        IsLast(entries, i, k) => Left(entries[i], events[entries[i].place], k, rows, names)

LastIsRow == RowsFollow(log, buffer, contents, layout[Mapped])

ReplicaInv == TypeInv /\ BufferIsLog /\ LastIsRow /\ MirrorFaithful

-----------------------------------------------------------------------------
(* Names and rows.                                                         *)

LEMMA Names ==
    ASSUME ParserTypeOK
    PROVE  /\ Mapped \in Oid /\ layout[Mapped] \in Layout
           /\ 1 \in DOMAIN layout[Mapped]
           /\ KeyName \in DOMAIN SfName /\ KeyColumn = SfName[KeyName] /\ KeyColumn \in Columns
           /\ \A cols \in Layout : cols[1] = KeyName
<1>1. Mapped \in Oid /\ layout[Mapped] \in Layout
  BY ReplicaAssumption DEF ParserTypeOK
<1>2. 1 \in DOMAIN layout[Mapped] /\ ColumnName(layout[Mapped], 1) = KeyName
  BY <1>1, LayoutFacts DEF KeyName
<1>3. KeyName \in DOMAIN SfName
  BY <1>1, <1>2, ReplicaAssumption
<1>4. KeyColumn = SfName[KeyName] /\ KeyColumn \in Columns
  BY <1>1, ReplicaAssumption DEF KeyColumn, KeyName
<1>5. \A cols \in Layout : cols[1] = KeyName
  BY <1>1, ReplicaAssumption DEF KeyName
<1> QED
  BY <1>1, <1>2, <1>3, <1>4, <1>5

\* The key of the relation never changes its name.
LEMMA NamesStay ==
    ASSUME ParserTypeOK, ParserTypeOK'
    PROVE  KeyName' = KeyName /\ KeyColumn' = KeyColumn
<1>1. layout'[Mapped] \in Layout
  BY ReplicaAssumption DEF ParserTypeOK
<1> QED
  BY <1>1, Names DEF KeyName, KeyColumn

LEMMA DictFacts ==
    ASSUME NEW dict \in Dicts
    PROVE  DOMAIN dict \subseteq DOMAIN SfName /\ \A c \in DOMAIN dict : dict[c] \in Value
<1>1. PICK cols \in Layout, other \in Layout : dict \in DictsOf(cols, other)
  BY DEF Dicts
<1>2. dict \in [{ColumnName(cols, i) : i \in DOMAIN other} -> Value]
  BY <1>1 DEF DictsOf
<1> QED
  BY <1>2, ReplicaAssumption

\* _row_to_sf renames and keeps the values.
LEMMA Renames ==
    ASSUME NEW dict \in Dicts
    PROVE  /\ DOMAIN RowToSf(dict) = {SfName[c] : c \in DOMAIN dict}
           /\ \A c \in DOMAIN dict : RowToSf(dict)[SfName[c]] = dict[c]
           /\ \A s \in DOMAIN RowToSf(dict) : RowToSf(dict)[s] \in Value
<1>1. DOMAIN RowToSf(dict) = {SfName[c] : c \in DOMAIN dict}
  BY DEF RowToSf
<1>2. ASSUME NEW c \in DOMAIN dict PROVE RowToSf(dict)[SfName[c]] = dict[c]
  <2>1. (CHOOSE d \in DOMAIN dict : SfName[d] = SfName[c]) = c
    BY DictFacts, ReplicaAssumption
  <2> QED
    BY <2>1 DEF RowToSf
<1> QED
  BY <1>1, <1>2, DictFacts

\* The key of a buffered event, as the statements see it.
LEMMA KeyOfEvent ==
    ASSUME ParserTypeOK, TypeInv, NEW p \in DOMAIN buffer
    PROVE  /\ p \in Upserts => UpsertRow(p)[KeyColumn] = buffer[p].after[KeyName]
           /\ p \in Deletes => DeletedRow(p)[KeyColumn] = buffer[p].before[KeyName]
<1>1. Usable(buffer[p], KeyName)
  BY DEF TypeInv
<1>2. p \in Upserts => buffer[p].op # "d"
  BY DEF Upserts
<1>3. p \in Deletes => buffer[p].op = "d"
  BY DEF Upserts, Deletes
<1> QED
  BY <1>1, <1>2, <1>3, Names, Renames DEF Usable, UpsertRow, DeletedRow

-----------------------------------------------------------------------------
(* What a parsed change is.                                                *)

\* Whatever columns a tuple is read with, the key is under its name.
LEMMA ReadsKey ==
    ASSUME ParserTypeOK, NEW cols \in Layout, NEW other \in Layout,
           NEW tuple \in [DOMAIN other -> Cell], tuple[1].kind = "t"
    PROVE  /\ ReadTuple(tuple, cols) \in Dicts /\ KeyName \in DOMAIN ReadTuple(tuple, cols)
           /\ ReadTuple(tuple, cols)[KeyName] = tuple[1].val
<1> DEFINE At(c) == CHOOSE i \in DOMAIN tuple : ColumnName(cols, i) = c
<1>1. 1 \in DOMAIN tuple /\ DOMAIN tuple = DOMAIN other
  BY LayoutFacts
<1>2. ColumnName(cols, 1) = KeyName /\ cols[1] = KeyName
  BY LayoutFacts, Names
<1>3. \A i \in DOMAIN tuple : i # 1 => ColumnName(cols, i) # KeyName
  BY <1>1, <1>2, ReplicaAssumption
<1>4. At(KeyName) = 1
  BY <1>1, <1>2, <1>3
<1>5. KeyName \in {ColumnName(cols, i) : i \in DOMAIN tuple}
  BY <1>1, <1>2
<1> HIDE DEF KeyName
<1>6. ReadTuple(tuple, cols)[KeyName] =
        IF tuple[At(KeyName)].kind = "t" THEN tuple[At(KeyName)].val ELSE None
  BY <1>5 DEF ReadTuple
<1>7. ReadTuple(tuple, cols) \in Dicts
  BY ReadTyped DEF Tuples
<1> QED
  BY <1>4, <1>5, <1>6, <1>7 DEF ReadTuple

\* The key of a row in the tuples the server makes of it.
LEMMA TupleKey ==
    ASSUME NEW cols \in Layout, NEW row \in [DOMAIN cols -> Value], row[1] # None,
           NEW unchanged, 1 \notin unchanged
    PROVE  /\ Tuple(row, unchanged) \in [DOMAIN cols -> Cell]
           /\ Tuple(row, unchanged)[1].kind = "t" /\ Tuple(row, unchanged)[1].val = row[1]
<1>1. 1 \in DOMAIN cols
  BY LayoutFacts
<1> QED
  BY <1>1, TupleForm DEF Tuple

LEMMA OldTupleKey ==
    ASSUME ParserTypeOK, NEW row \in RowsOf(Mapped)
    PROVE  /\ OldTuple(Mapped, row) \in [DOMAIN layout[Mapped] -> Cell]
           /\ OldTuple(Mapped, row)[1].kind = "t" /\ OldTuple(Mapped, row)[1].val = row[1]
<1> DEFINE cols == layout[Mapped]
           keyed == [i \in DOMAIN row |-> IF i = 1 THEN row[1] ELSE None]
<1>1. cols \in Layout /\ row \in [DOMAIN cols -> Value] /\ row[1] # None /\ 1 \in DOMAIN cols
  BY Names DEF RowsOf, Value
<1>2. keyed \in [DOMAIN cols -> Value] /\ keyed[1] = row[1]
  BY <1>1 DEF Value
<1> HIDE DEF cols, keyed
<1>3. CASE identity[Mapped] = "full"
  BY <1>1, <1>3, TupleKey DEF OldTuple, cols
<1>4. CASE identity[Mapped] # "full"
  <2>1. OldTuple(Mapped, row) = Tuple(keyed, {})
    BY <1>4 DEF OldTuple, KeyTuple, keyed
  <2> QED
    BY <1>1, <1>2, <2>1, TupleKey DEF cols
<1> QED
  BY <1>3, <1>4

\* The changes that can be made of the relation.
ChangeForm(c) ==
    /\ c.op \in {"c", "u", "d"} /\ c.table = Mapped
    /\ IF c.op = "c" THEN c.old = None ELSE c.old \in RowsOf(Mapped)
    /\ IF c.op = "d" THEN c.new = None ELSE c.new \in RowsOf(Mapped)

\* A change that is sent, and what parse() returns for it: nothing, or an event of its
\* kind with its key.
LEMMA SendForm ==
    ASSUME ParserInv, Send
    PROVE  /\ ChangeForm(change') /\ UNCHANGED layout
           /\ event' # None =>
                 /\ event'.op = change'.op /\ event'.table = Mapped
                 /\ change'.op # "d" => event'.after \in Dicts /\ KeyName \in DOMAIN event'.after
                                        /\ event'.after[KeyName] = change'.new[1]
                 /\ change'.op = "d" => event'.before \in Dicts /\ KeyName \in DOMAIN event'.before
                                        /\ event'.before[KeyName] = change'.old[1]
<1>0. ParserTypeOK /\ UNCHANGED layout
  BY DEF ParserInv, Send, server
<1>1. SendInsert(Mapped) \/ SendUpdate(Mapped) \/ SendDelete(Mapped)
  BY <1>0, ReplicaAssumption DEF Send, ParserTypeOK
<1> DEFINE rel == relations[Mapped]
<1>2. layout[Mapped] \in Layout /\ rel \in Layout \cup {None} /\ Mapped \in Oid
  BY <1>0, Names DEF ParserTypeOK
<1>3. ASSUME NEW row \in RowsOf(Mapped)
      PROVE  row \in [DOMAIN layout[Mapped] -> Value] /\ row[1] # None
  BY DEF RowsOf, Value
<1>4. CASE SendInsert(Mapped)
  <2>1. PICK new \in RowsOf(Mapped) :
            /\ HandleInsert([oid |-> Mapped, new |-> Tuple(new, {})])
            /\ change' = [op |-> "c", table |-> Mapped, old |-> None, new |-> new, unchanged |-> {}]
    BY <1>4 DEF SendInsert
  <2>2. ChangeForm(change') /\ change'.new = new /\ change'.op = "c"
    BY <2>1 DEF ChangeForm
  <2>3. event' # None => /\ rel # None /\ event'.op = "c" /\ event'.table = Mapped
                         /\ event'.after = ReadOptional(Tuple(new, {}), rel)
    BY <2>1 DEF HandleInsert, Emit
  <2>4. /\ Tuple(new, {}) \in [DOMAIN layout[Mapped] -> Cell] /\ Tuple(new, {}) # None
        /\ Tuple(new, {})[1].kind = "t" /\ Tuple(new, {})[1].val = new[1]
    BY <1>2, <1>3, TupleKey, TupleForm
  <2> HIDE DEF rel
  <2>5. event' # None => event'.after = ReadTuple(Tuple(new, {}), rel) /\ rel \in Layout
    BY <1>2, <2>3, <2>4 DEF ReadOptional
  <2>6. event' # None => /\ event'.after \in Dicts /\ KeyName \in DOMAIN event'.after
                         /\ event'.after[KeyName] = new[1]
    BY <1>0, <1>2, <2>4, <2>5, ReadsKey
  <2> QED
    BY <1>0, <2>2, <2>3, <2>6
<1>5. CASE SendUpdate(Mapped)
  <2>1. PICK old \in RowsOf(Mapped), new \in RowsOf(Mapped) : \E unchanged \in SUBSET Toastable(old, new) :
            /\ HandleUpdate([oid |-> Mapped,
                             old |-> IF identity[Mapped] = "full" \/ old[1] # new[1]
                                     THEN OldTuple(Mapped, old) ELSE None,
                             new |-> Tuple(new, unchanged)])
            /\ change' = [op |-> "u", table |-> Mapped, old |-> old, new |-> new, unchanged |-> unchanged]
    BY <1>5 DEF SendUpdate
  <2>2. PICK unchanged \in SUBSET Toastable(old, new) :
            /\ HandleUpdate([oid |-> Mapped,
                             old |-> IF identity[Mapped] = "full" \/ old[1] # new[1]
                                     THEN OldTuple(Mapped, old) ELSE None,
                             new |-> Tuple(new, unchanged)])
            /\ change' = [op |-> "u", table |-> Mapped, old |-> old, new |-> new, unchanged |-> unchanged]
    BY <2>1
  <2>3. ChangeForm(change') /\ change'.new = new /\ change'.op = "u"
    BY <2>2 DEF ChangeForm
  <2>4. event' # None => /\ rel # None /\ event'.op = "u" /\ event'.table = Mapped
                         /\ event'.after = ReadOptional(Tuple(new, unchanged), rel)
    BY <2>2 DEF HandleUpdate, Emit
  <2>5. /\ Tuple(new, unchanged) \in [DOMAIN layout[Mapped] -> Cell] /\ Tuple(new, unchanged) # None
        /\ Tuple(new, unchanged)[1].kind = "t" /\ Tuple(new, unchanged)[1].val = new[1]
    <3>1. 1 \notin unchanged
      BY DEF Toastable
    <3> QED
      BY <1>2, <1>3, <3>1, TupleKey, TupleForm
  <2> HIDE DEF rel
  <2>6. event' # None => event'.after = ReadTuple(Tuple(new, unchanged), rel) /\ rel \in Layout
    BY <1>2, <2>4, <2>5 DEF ReadOptional
  <2>7. event' # None => /\ event'.after \in Dicts /\ KeyName \in DOMAIN event'.after
                         /\ event'.after[KeyName] = new[1]
    BY <1>0, <1>2, <2>5, <2>6, ReadsKey
  <2> QED
    BY <1>0, <2>3, <2>4, <2>7
<1>6. CASE SendDelete(Mapped)
  <2>1. PICK old \in RowsOf(Mapped) :
            /\ HandleDelete([oid |-> Mapped, old |-> OldTuple(Mapped, old)])
            /\ change' = [op |-> "d", table |-> Mapped, old |-> old, new |-> None, unchanged |-> {}]
    BY <1>6 DEF SendDelete
  <2>2. ChangeForm(change') /\ change'.old = old /\ change'.op = "d"
    BY <2>1 DEF ChangeForm
  <2>3. event' # None => /\ rel # None /\ event'.op = "d" /\ event'.table = Mapped
                         /\ event'.before = ReadOptional(OldTuple(Mapped, old), rel)
    BY <2>1 DEF HandleDelete, Emit
  <2>4. /\ OldTuple(Mapped, old) \in [DOMAIN layout[Mapped] -> Cell]
        /\ OldTuple(Mapped, old)[1].kind = "t" /\ OldTuple(Mapped, old)[1].val = old[1]
    BY <1>0, OldTupleKey
  <2>5. OldTuple(Mapped, old) # None
    BY <1>2, <2>4, NoneAssumption DEF Tuples
  <2> HIDE DEF rel
  <2>6. event' # None => event'.before = ReadTuple(OldTuple(Mapped, old), rel) /\ rel \in Layout
    BY <1>2, <2>3, <2>5 DEF ReadOptional
  <2>7. event' # None => /\ event'.before \in Dicts /\ KeyName \in DOMAIN event'.before
                         /\ event'.before[KeyName] = old[1]
    BY <1>0, <1>2, <2>4, <2>6, ReadsKey
  <2> QED
    BY <1>0, <2>2, <2>3, <2>7
<1> QED
  BY <1>1, <1>4, <1>5, <1>6

-----------------------------------------------------------------------------
(* What a flush does to the row of a key.                                  *)

LEMMA WrittenTyped ==
    ASSUME ParserTypeOK, TypeInv, NEW p \in Upserts, NEW k \in Val
    PROVE  Written(UpsertRow(p), k) \in SfRow
<1>1. p \in DOMAIN buffer /\ buffer[p].op # "d"
  BY DEF Upserts
<1>2. buffer[p].after \in Dicts
  BY <1>1 DEF TypeInv, Usable
<1>3. \A c \in DOMAIN UpsertRow(p) : UpsertRow(p)[c] \in Value
  BY <1>2, Renames DEF UpsertRow
<1>4. current[k] # None => \A c \in Columns : current[k][c] \in Value
  BY DEF TypeInv, SfRow
<1>5. None \in Value
  BY DEF Value
<1> QED
  BY <1>3, <1>4, <1>5 DEF Written, SfRow

LEMMA WriteGives ==
    ASSUME ParserTypeOK, TypeInv, NEW table \in Merged
    PROVE  /\ WithoutDeleted(table) \in [Val -> SfRow \cup {None}]
           /\ \A k \in Val :
                 IF \E p \in Deletes : DeletedRow(p)[KeyColumn] = k
                 THEN WithoutDeleted(table)[k] = None
                 ELSE /\ (\A p \in Upserts : UpsertRow(p)[KeyColumn] # k)
                              => WithoutDeleted(table)[k] = current[k]
                      /\ \A p \in Upserts :
                            UpsertRow(p)[KeyColumn] = k
                            /\ (\A q \in Upserts : UpsertRow(q)[KeyColumn] = k => q = p)
                              => WithoutDeleted(table)[k] = Written(UpsertRow(p), k)
<1> DEFINE keys == {UpsertRow(i)[KeyColumn] : i \in Upserts}
           winners == {w \in [keys -> Upserts] : \A k \in keys : UpsertRow(w[k])[KeyColumn] = k}
<1>1. PICK win \in winners :
          table = [k \in Val |-> IF k \in keys THEN Written(UpsertRow(win[k]), k) ELSE current[k]]
  BY DEF Merged
<1>2. \A k \in keys : win[k] \in Upserts /\ UpsertRow(win[k])[KeyColumn] = k
  BY <1>1
<1>3. \A k \in Val : (\A p \in Upserts : UpsertRow(p)[KeyColumn] # k) => k \notin keys
  OBVIOUS
<1>4. \A k \in Val : \A p \in Upserts : UpsertRow(p)[KeyColumn] = k => k \in keys
  OBVIOUS
<1> HIDE DEF keys, winners
<1>5. \A k \in Val : table[k] = IF k \in keys THEN Written(UpsertRow(win[k]), k) ELSE current[k]
  BY <1>1
<1>6. ASSUME NEW k \in Val PROVE table[k] \in SfRow \cup {None}
  BY <1>2, <1>5, WrittenTyped DEF TypeInv
<1>7. ASSUME NEW k \in Val PROVE WithoutDeleted(table)[k] =
          IF \E i \in Deletes : DeletedRow(i)[KeyColumn] = k THEN None ELSE table[k]
  BY DEF WithoutDeleted
<1>8. WithoutDeleted(table) \in [Val -> SfRow \cup {None}]
  BY <1>6 DEF WithoutDeleted
<1>9. ASSUME NEW k \in Val, NEW p \in Upserts, UpsertRow(p)[KeyColumn] = k,
             \A q \in Upserts : UpsertRow(q)[KeyColumn] = k => q = p
      PROVE  table[k] = Written(UpsertRow(p), k)
  <2>1. k \in keys
    BY <1>4, <1>9
  <2>2. win[k] = p
    BY <2>1, <1>2, <1>9
  <2> QED
    BY <2>1, <2>2, <1>5
<1> QED
  BY <1>3, <1>5, <1>7, <1>8, <1>9

\* A buffered event is an entry of the log about the same key.
LEMMA EventIsLogged ==
    ASSUME ParserTypeOK, TypeInv, BufferIsLog, NEW p \in DOMAIN buffer
    PROVE  \E i \in DOMAIN log :
              /\ log[i].place = p /\ log[i].place # 0
              /\ p \in Upserts => log[i].op # "d" /\ log[i].to = UpsertRow(p)[KeyColumn]
              /\ p \in Deletes => log[i].op = "d" /\ log[i].from = DeletedRow(p)[KeyColumn]
<1>1. PICK i \in DOMAIN log : log[i].place = p
  BY DEF BufferIsLog, InOrder
<1>2. p # 0
  BY DEF TypeInv
<1>3. Matches(log[i], buffer[p], KeyName)
  BY <1>1, <1>2 DEF BufferIsLog, InOrder
<1>4. (p \in Upserts <=> buffer[p].op # "d") /\ (p \in Deletes <=> buffer[p].op = "d")
  BY DEF Upserts, Deletes
<1> QED
  BY <1>1, <1>2, <1>3, <1>4, KeyOfEvent DEF Matches

\* A flush leaves the rows alone that no change in flight was about.
LEMMA OthersStay ==
    ASSUME ParserTypeOK, TypeInv, BufferIsLog, NEW table \in Merged,
           NEW k \in Val, k \notin Touched(log)
    PROVE  WithoutDeleted(table)[k] = current[k]
<1>1. \A i \in DOMAIN log : k # log[i].from /\ k # log[i].to
  BY DEF Touched, Touches
<1>2. \A p \in Upserts : p \in DOMAIN buffer
  BY DEF Upserts
<1>3. \A p \in Deletes : p \in DOMAIN buffer
  BY DEF Deletes
<1>4. \A p \in Upserts : UpsertRow(p)[KeyColumn] # k
  BY <1>1, <1>2, EventIsLogged
<1>5. \A p \in Deletes : DeletedRow(p)[KeyColumn] # k
  BY <1>1, <1>3, EventIsLogged
<1> QED
  BY <1>4, <1>5, WriteGives

\* The row of k in the table, as the cell shows it.
ShownBy(cell, k) ==
    IF cell = None THEN \A r \in contents : r[1] # k
    ELSE \E r \in contents :
            /\ r[1] = k
            /\ \A n \in DOMAIN r :
                  SfName[layout[Mapped][n]] \in Columns => cell[SfName[layout[Mapped][n]]] = r[n]

LEMMA MirroredForm ==
    ASSUME NEW k
    PROVE  Mirrored(k) <=> ShownBy(current[k], k)
<1> DEFINE rows == {r \in contents : r[1] = k}
<1>1. rows = {} <=> \A r \in contents : r[1] # k
  OBVIOUS
<1>2. ASSUME NEW cell
      PROVE  (\E r \in rows : \A n \in DOMAIN r :
                 SfName[layout[Mapped][n]] \in Columns => cell[SfName[layout[Mapped][n]]] = r[n])
             <=> \E r \in contents : r[1] = k /\ \A n \in DOMAIN r :
                 SfName[layout[Mapped][n]] \in Columns => cell[SfName[layout[Mapped][n]]] = r[n]
  OBVIOUS
<1> QED
  BY <1>1, <1>2 DEF Mirrored, ShownBy

\* The columns of the batch are those of the first upsert of the log.
LEMMA ColumnsOfBatch ==
    ASSUME ParserTypeOK, TypeInv, BufferIsLog,
           NEW first \in DOMAIN log, log[first].place # 0, log[first].op # "d",
           \A j \in DOMAIN log : log[j].place # 0 /\ log[j].op # "d" => first <= j
    PROVE  /\ log[first].place \in Upserts
           /\ MergeColumns = DOMAIN UpsertRow(log[first].place)
<1> DEFINE p == log[first].place
<1>0. p <= Len(buffer) /\ p \in Nat
  <2>1. log[first] \in Entries /\ p <= Len(buffer)
    BY DEF TypeInv
  <2> QED
    BY <2>1 DEF Entries
<1>1. p \in DOMAIN buffer
  BY <1>0 DEF TypeInv
<1>2. buffer[p].op # "d"
  BY DEF BufferIsLog, InOrder, Matches
<1>3. p \in Upserts
  BY <1>1, <1>2 DEF Upserts
<1>4. ASSUME NEW q \in Upserts PROVE p <= q
  <2>1. q \in DOMAIN buffer
    BY DEF Upserts
  <2>2. PICK j \in DOMAIN log : log[j].place = q /\ log[j].place # 0 /\ log[j].op # "d"
    BY <2>1, EventIsLogged
  <2>3. first <= j
    BY <2>2
  <2>4. first = j \/ first < j
    BY <2>3 DEF TypeInv
  <2>5. CASE first < j
    <3>1. log[first].place < log[j].place
      BY <2>2, <2>5 DEF BufferIsLog, InOrder
    <3>2. q \in Nat
      BY <2>1 DEF TypeInv
    <3> QED
      BY <3>1, <3>2, <2>2, <1>0
  <2> QED
    BY <2>2, <2>4, <2>5, <1>0
<1>5. Upserts \subseteq Int /\ p \in Int
  BY <1>0 DEF Upserts, TypeInv
<1> HIDE DEF p
<1>6. {j \in Upserts : \A other \in Upserts : j <= other} = {p}
  <2>1. ASSUME NEW j \in Upserts, \A other \in Upserts : j <= other PROVE j = p
    <3>1. j <= p /\ p <= j /\ j \in Int
      BY <1>3, <1>4, <1>5, <2>1
    <3> QED
      BY <3>1, <1>5
  <2> QED
    BY <1>3, <1>4, <2>1
<1>7. MergeColumns = UNION {DOMAIN UpsertRow(i) : i \in {p}}
  BY <1>6 DEF MergeColumns
<1> QED
  BY <1>3, <1>7 DEF p

\* The claim of Settled.
LEMMA SettledIsShown ==
    ASSUME ParserTypeOK, TypeInv, BufferIsLog, LastIsRow,
           NEW table \in Merged, NEW k \in Val, Settled(k)
    PROVE  ShownBy(WithoutDeleted(table)[k], k)
<1> DEFINE about == {i \in DOMAIN log : Touches(log[i], k)}
           got == {i \in DOMAIN log : log[i].place # 0}
           upserts == {i \in got : log[i].op # "d"}
           cell == WithoutDeleted(table)[k]
<1>1. PICK last \in about \cap got :
           /\ \A j \in about : j <= last
           /\ \/ log[last].op = "d"
              \/ /\ log[last].to = k /\ log[last].whole
                 /\ \A j \in (about \cap got) \ {last} : log[j].op # "d" /\ log[j].to # k
                 /\ \E first \in upserts :
                       /\ \A j \in upserts : first <= j
                       /\ {log[first].cols, log[last].cols} \cap Unreadable = {}
                       /\ ToSet(log[last].cols) \subseteq ToSet(log[first].cols)
  BY DEF Settled
<1> DEFINE p == log[last].place
<1>2. /\ last \in DOMAIN log /\ log[last] \in Entries /\ Keyed(log[last]) /\ p # 0
      /\ Touches(log[last], k)
  BY <1>1 DEF TypeInv
<1>3. IsLast(log, last, k)
  BY <1>1, <1>2 DEF IsLast
<1>4. p \in DOMAIN buffer /\ Matches(log[last], buffer[p], KeyName)
  BY <1>2 DEF TypeInv, Entries, BufferIsLog, InOrder
<1>5. None \notin Val
  BY NoneAssumption
<1>6. CASE log[last].op = "d"
  <2>1. log[last].from = k /\ log[last].to # k
    BY <1>2, <1>5, <1>6 DEF Keyed, Touches
  <2>2. p \in Deletes /\ DeletedRow(p)[KeyColumn] = k
    <3>1. p \in Deletes
      BY <1>4, <1>6 DEF Matches, Deletes, Upserts
    <3> QED
      BY <1>4, <1>6, <2>1, <3>1, KeyOfEvent DEF Matches
  <2>3. cell = None
    BY <2>2, WriteGives
  <2>4. \A r \in contents : r[1] # k
    BY <1>2, <1>3, <2>1 DEF LastIsRow, RowsFollow, Left
  <2> QED
    BY <2>3, <2>4 DEF ShownBy
<1>7. CASE log[last].op # "d"
  <2>1. /\ log[last].to = k /\ log[last].whole
        /\ \A j \in (about \cap got) \ {last} : log[j].op # "d" /\ log[j].to # k
    BY <1>1, <1>7
  <2>2. PICK first \in upserts :
            /\ \A j \in upserts : first <= j
            /\ {log[first].cols, log[last].cols} \cap Unreadable = {}
            /\ ToSet(log[last].cols) \subseteq ToSet(log[first].cols)
    BY <1>1, <1>7
  <2>3. p \in Upserts /\ UpsertRow(p)[KeyColumn] = k
    <3>1. p \in Upserts
      BY <1>4, <1>7 DEF Matches, Upserts
    <3> QED
      BY <1>4, <1>7, <2>1, <3>1, KeyOfEvent DEF Matches
  <2>4. ASSUME NEW q \in Deletes PROVE DeletedRow(q)[KeyColumn] # k
    <3>1. q \in DOMAIN buffer
      BY DEF Deletes
    <3>2. PICK j \in DOMAIN log : log[j].place # 0 /\ log[j].op = "d" /\ log[j].from = DeletedRow(q)[KeyColumn]
      BY <3>1, EventIsLogged
    <3>3. j \in got /\ j # last
      BY <3>2, <1>7
    <3>4. j \notin about
      BY <3>2, <3>3, <2>1
    <3> QED
      BY <3>2, <3>4 DEF Touches
  <2>5. ASSUME NEW q \in Upserts, UpsertRow(q)[KeyColumn] = k PROVE q = p
    <3>1. q \in DOMAIN buffer
      BY DEF Upserts
    <3>2. PICK j \in DOMAIN log : log[j].place = q /\ log[j].place # 0 /\ log[j].to = k
      BY <3>1, <2>5, EventIsLogged
    <3>3. j \in about \cap got
      BY <3>2 DEF Touches
    <3>4. j = last
      BY <3>2, <3>3, <2>1
    <3> QED
      BY <3>2, <3>4
  <2>6. cell = Written(UpsertRow(p), k)
    <3>1. ~\E q \in Deletes : DeletedRow(q)[KeyColumn] = k
      BY <2>4
    <3> QED
      BY <2>3, <2>5, <3>1, WriteGives
  <2>7. cell # None
    BY <2>3, <2>6, WrittenTyped, NoRowAssumption DEF SfRow
  <2>8. PICK r \in contents : r[1] = k /\ Shows(buffer[p].after, r, log[last].cols, layout[Mapped])
    BY <1>2, <1>3, <2>1, <2>2 DEF LastIsRow, RowsFollow, Left
  <2>9. buffer[p].after \in Dicts /\ DOMAIN buffer[p].after = ToSet(log[last].cols)
    BY <1>4, <1>7, <2>2 DEF Matches, TypeInv, Usable
  <2>10. MergeColumns = {SfName[c] : c \in ToSet(log[first].cols)}
    <3>1. first \in DOMAIN log /\ log[first].place # 0 /\ log[first].op # "d"
      BY <2>2
    <3>2. \A j \in DOMAIN log : log[j].place # 0 /\ log[j].op # "d" => first <= j
      BY <2>2
    <3> DEFINE f == log[first].place
    <3>3. f \in Upserts /\ MergeColumns = DOMAIN UpsertRow(f)
      BY <3>1, <3>2, ColumnsOfBatch
    <3>4. Matches(log[first], buffer[f], KeyName) /\ log[first].cols \notin Unreadable
      BY <3>1, <2>2 DEF BufferIsLog, InOrder
    <3>5. buffer[f].after \in Dicts
      BY <3>3 DEF TypeInv, Usable, Upserts
    <3>6. DOMAIN buffer[f].after = ToSet(log[first].cols)
      BY <3>1, <3>4 DEF Matches
    <3> QED
      BY <3>3, <3>5, <3>6, Renames DEF UpsertRow
  <2>11. ASSUME NEW n \in DOMAIN r, SfName[layout[Mapped][n]] \in Columns
         PROVE  cell[SfName[layout[Mapped][n]]] = r[n]
    <3> DEFINE c == layout[Mapped][n]
    <3>1. c \in DOMAIN buffer[p].after /\ buffer[p].after[c] = r[n]
      BY <2>8, <2>9 DEF Shows
    <3>2. SfName[c] \in DOMAIN UpsertRow(p) /\ UpsertRow(p)[SfName[c]] = r[n]
      BY <2>9, <3>1, Renames DEF UpsertRow
    <3>3. SfName[c] \in MergeColumns
      BY <2>2, <2>9, <2>10, <3>1
    <3> HIDE DEF c
    <3>4. Written(UpsertRow(p), k)[SfName[c]] = UpsertRow(p)[SfName[c]]
      BY <2>11, <3>2, <3>3 DEF Written, c
    <3> QED
      BY <2>6, <3>2, <3>4 DEF c
  <2> QED
    <3>1. \E row \in contents :
              /\ row[1] = k
              /\ \A n \in DOMAIN row :
                    SfName[layout[Mapped][n]] \in Columns =>
                        cell[SfName[layout[Mapped][n]]] = row[n]
      BY <2>8, <2>11
    <3> HIDE DEF cell
    <3>2. ShownBy(cell, k)
      BY <2>7, <3>1 DEF ShownBy
    <3> QED
      BY <3>2 DEF cell
<1> QED
  BY <1>6, <1>7

-----------------------------------------------------------------------------
(* The steps.                                                              *)

\* Whether a row is shown depends on the columns and the rows of its key alone.
LEMMA ShownStays ==
    ASSUME NEW k, UNCHANGED layout, current'[k] = current[k],
           \A r : r[1] = k => (r \in contents' <=> r \in contents),
           Mirrored(k)
    PROVE  Mirrored(k)'
<1>1. {r \in contents' : r[1] = k} = {r \in contents : r[1] = k}
  OBVIOUS
<1> QED
  BY <1>1 DEF Mirrored

\* What lies ahead of a new entry of the log and of a new event.
LEMMA Appended ==
    ASSUME NEW S, NEW s \in Seq(S), NEW e \in S
    PROVE  /\ Append(s, e) \in Seq(S) /\ Len(s) \in Nat /\ DOMAIN s = 1..Len(s)
           /\ Len(Append(s, e)) = Len(s) + 1 /\ DOMAIN Append(s, e) = 1..(Len(s) + 1)
           /\ \A i \in DOMAIN s : i \in DOMAIN Append(s, e) /\ Append(s, e)[i] = s[i]
           /\ Append(s, e)[Len(s) + 1] = e
OBVIOUS

\* The rows after a change: that of the new key is the new one, that of another old key
\* is gone, the others are as they were.
LEMMA RowsAfter ==
    ASSUME ParserTypeOK, TypeInv, NEW c, ChangeForm(c), Apply(c), UNCHANGED layout
    PROVE  /\ RowsOK' /\ changes' \in 0..MaxChanges /\ changes' = changes + 1
           /\ c.op # "d" => c.new \in contents'
           /\ c.op # "c" => \A r \in contents' : r[1] = c.old[1] => c.op # "d" /\ c.new[1] = c.old[1]
           /\ \A k : (c.op # "c" => c.old[1] # k) /\ (c.op # "d" => c.new[1] # k) =>
                  \A r : r[1] = k => (r \in contents' <=> r \in contents)
<1>1. \A r \in RowsOf(Mapped) : r # None
  BY Names, NoRowAssumption DEF RowsOf, Value
<1>2. contents' = (contents \ {c.old}) \cup ({c.new} \ {None})
  BY DEF Apply
<1>3. /\ c.op # "c" => c.old \in contents
      /\ c.op # "d" => \A r \in contents \ {c.old} : r[1] # c.new[1]
      /\ changes < MaxChanges /\ changes' = changes + 1
  BY DEF Apply
<1>4. /\ IF c.op = "c" THEN c.old = None ELSE c.old \in RowsOf(Mapped)
      /\ IF c.op = "d" THEN c.new = None ELSE c.new \in RowsOf(Mapped)
  BY DEF ChangeForm
<1>5. RowsOf(Mapped)' = RowsOf(Mapped)
  BY DEF RowsOf
<1>6. contents \subseteq RowsOf(Mapped) /\ \A r, s \in contents : r[1] = s[1] => r = s
  BY DEF TypeInv, RowsOK
<1>7. changes' \in 0..MaxChanges
  BY <1>3, ReplicaAssumption DEF TypeInv
<1>8. RowsOK'
  BY <1>1, <1>2, <1>3, <1>4, <1>5, <1>6 DEF RowsOK
<1>9. None \notin contents
  BY <1>1, <1>6
<1> QED
  BY <1>1, <1>2, <1>3, <1>4, <1>6, <1>7, <1>8, <1>9

LEMMA EntryForm ==
    ASSUME ParserTypeOK, NEW c, ChangeForm(c), NEW place \in Nat
    PROVE  /\ Entry(c, place) \in Entries /\ Keyed(Entry(c, place))
           /\ Entry(c, place).op = c.op /\ Entry(c, place).place = place
           /\ Entry(c, place).cols = layout[Mapped]
           /\ Entry(c, place).whole <=> c.unchanged = {}
           /\ Entry(c, place).from = IF c.op = "c" THEN None ELSE c.old[1]
           /\ Entry(c, place).to = IF c.op = "d" THEN None ELSE c.new[1]
<1>1. layout[Mapped] \in Layout /\ 1 \in DOMAIN layout[Mapped]
  BY Names
<1>2. \A r \in RowsOf(Mapped) : r # None /\ r[1] \in Val
  BY <1>1, NoRowAssumption DEF RowsOf, Value
<1>3. /\ IF c.op = "c" THEN c.old = None ELSE c.old \in RowsOf(Mapped)
      /\ IF c.op = "d" THEN c.new = None ELSE c.new \in RowsOf(Mapped)
      /\ c.op \in {"c", "u", "d"}
  BY DEF ChangeForm
<1>4. Entry(c, place).from = IF c.op = "c" THEN None ELSE c.old[1]
  BY <1>2, <1>3 DEF Entry
<1>5. Entry(c, place).to = IF c.op = "d" THEN None ELSE c.new[1]
  BY <1>2, <1>3 DEF Entry
<1>6. /\ Entry(c, place).op = c.op /\ Entry(c, place).place = place
      /\ Entry(c, place).cols = layout[Mapped]
      /\ Entry(c, place).whole <=> c.unchanged = {}
      /\ Entry(c, place).whole \in BOOLEAN
  BY DEF Entry
<1>7. Entry(c, place) = [op |-> Entry(c, place).op, from |-> Entry(c, place).from,
                         to |-> Entry(c, place).to, whole |-> Entry(c, place).whole,
                         cols |-> Entry(c, place).cols, place |-> Entry(c, place).place]
  BY DEF Entry
<1>8. Entry(c, place) \in Entries
  BY <1>1, <1>2, <1>3, <1>4, <1>5, <1>6, <1>7 DEF Entries, Value
<1> QED
  BY <1>2, <1>3, <1>4, <1>5, <1>6, <1>8 DEF Keyed

\* The events after one more entry: as they were, or with its own.
Grown(events, more, l, key) ==
    IF l.place = 0 THEN more = events
    ELSE \E e \in Event : more = Append(events, e) /\ l.place = Len(events) + 1 /\ Matches(l, e, key)

LEMMA GrownFacts ==
    ASSUME NEW events \in Seq(Event), NEW more, NEW l \in Entries, NEW key, Grown(events, more, l, key)
    PROVE  /\ more \in Seq(Event) /\ DOMAIN events = 1..Len(events) /\ DOMAIN more = 1..Len(more)
           /\ Len(events) \in Nat /\ Len(more) \in Nat /\ Len(events) <= Len(more)
           /\ \A p \in DOMAIN events : p \in DOMAIN more /\ more[p] = events[p]
           /\ \A p \in DOMAIN more : p \in DOMAIN events \/ (l.place # 0 /\ p = l.place)
           /\ l.place \in Nat /\ l.place <= Len(more)
           /\ l.place # 0 => l.place = Len(events) + 1 /\ Matches(l, more[l.place], key)
<1>1. l.place \in Nat
  BY DEF Entries
<1>2. CASE l.place = 0
  BY <1>1, <1>2 DEF Grown
<1>3. CASE l.place # 0
  <2>1. PICK e \in Event : more = Append(events, e) /\ l.place = Len(events) + 1 /\ Matches(l, e, key)
    BY <1>3 DEF Grown
  <2>2. /\ more \in Seq(Event) /\ Len(events) \in Nat /\ DOMAIN events = 1..Len(events)
        /\ Len(more) = Len(events) + 1 /\ DOMAIN more = 1..(Len(events) + 1)
        /\ \A p \in DOMAIN events : p \in DOMAIN more /\ more[p] = events[p]
        /\ more[Len(events) + 1] = e
    BY <2>1, Appended
  <2> QED
    BY <1>1, <1>3, <2>1, <2>2
<1> QED
  BY <1>2, <1>3

LEMMA GrowsInOrder ==
    ASSUME NEW entries \in Seq(Entries), NEW events \in Seq(Event), NEW key, NEW l \in Entries,
           InOrder(entries, events, key), NEW more, Grown(events, more, l, key),
           \A i \in DOMAIN entries : entries[i].place <= Len(events)
    PROVE  InOrder(Append(entries, l), more, key)
<1> DEFINE n == Len(entries) + 1
<1>1. /\ Append(entries, l) \in Seq(Entries) /\ Len(entries) \in Nat /\ DOMAIN entries = 1..Len(entries)
      /\ Len(Append(entries, l)) = n /\ DOMAIN Append(entries, l) = 1..n
      /\ \A i \in DOMAIN entries : i \in DOMAIN Append(entries, l) /\ Append(entries, l)[i] = entries[i]
      /\ Append(entries, l)[n] = l
  BY Appended
<1>2. PICK all : all = Append(entries, l)
  OBVIOUS
<1>3. \A i \in DOMAIN all : i = n \/ i \in DOMAIN entries
  BY <1>1, <1>2
<1>4. /\ DOMAIN events = 1..Len(events) /\ Len(events) \in Nat
      /\ \A p \in DOMAIN events : p \in DOMAIN more /\ more[p] = events[p]
      /\ \A p \in DOMAIN more : p \in DOMAIN events \/ (l.place # 0 /\ p = l.place)
      /\ l.place # 0 => l.place = Len(events) + 1 /\ Matches(l, more[l.place], key)
  BY GrownFacts
<1>5. ASSUME NEW i \in DOMAIN entries
      PROVE  entries[i].place \in Nat /\ entries[i].place <= Len(events)
  <2>1. entries[i] \in Entries
    OBVIOUS
  <2> QED
    BY <2>1 DEF Entries
<1>6. \A i \in DOMAIN entries : entries[i].place # 0 => entries[i].place \in DOMAIN events
  BY <1>4, <1>5
<1>7. ASSUME NEW i \in DOMAIN all, all[i].place # 0 PROVE Matches(all[i], more[all[i].place], key)
  <2>1. CASE i = n
    BY <1>1, <1>2, <1>4, <1>7, <2>1
  <2>2. CASE i \in DOMAIN entries
    BY <1>1, <1>2, <1>4, <1>6, <1>7, <2>2 DEF InOrder
  <2> QED
    BY <1>3, <2>1, <2>2
<1>8. ASSUME NEW p \in DOMAIN more PROVE \E i \in DOMAIN all : all[i].place = p
  <2>1. CASE p \in DOMAIN events
    <3>1. PICK i \in DOMAIN entries : entries[i].place = p
      BY <2>1 DEF InOrder
    <3> QED
      BY <3>1, <1>1, <1>2
  <2>2. CASE p = l.place
    <3>1. n \in DOMAIN all /\ all[n].place = p
      BY <2>2, <1>1, <1>2
    <3> QED
      BY <3>1
  <2> QED
    BY <2>1, <2>2, <1>4
<1>9. ASSUME NEW i \in DOMAIN all, NEW j \in DOMAIN all, i < j, all[i].place # 0, all[j].place # 0
      PROVE  all[i].place < all[j].place
  <2>1. i \in DOMAIN entries /\ all[i] = entries[i]
    BY <1>1, <1>2, <1>9
  <2>2. CASE j = n
    <3>1. all[j].place = Len(events) + 1
      BY <1>1, <1>2, <1>4, <1>9, <2>2
    <3> QED
      BY <1>4, <1>5, <2>1, <3>1
  <2>3. CASE j \in DOMAIN entries
    BY <1>1, <1>2, <1>9, <2>1, <2>3 DEF InOrder
  <2> QED
    BY <1>3, <2>2, <2>3
<1>10. InOrder(all, more, key)
  BY <1>7, <1>8, <1>9 DEF InOrder
<1> QED
  BY <1>2, <1>10

LEMMA GrowsWithRows ==
    ASSUME NEW entries \in Seq(Entries), NEW events \in Seq(Event), NEW key, NEW l \in Entries,
           NEW more, Grown(events, more, l, key), NEW rows, NEW after, NEW names,
           \A i \in DOMAIN entries : entries[i].place <= Len(events),
           RowsFollow(entries, events, rows, names),
           \A k \in Val : IF Touches(l, k) THEN Left(l, more[l.place], k, after, names)
                          ELSE \A r : r[1] = k => (r \in after <=> r \in rows)
    PROVE  RowsFollow(Append(entries, l), more, after, names)
<1> DEFINE n == Len(entries) + 1
<1>1. /\ Append(entries, l) \in Seq(Entries) /\ Len(entries) \in Nat /\ DOMAIN entries = 1..Len(entries)
      /\ Len(Append(entries, l)) = n /\ DOMAIN Append(entries, l) = 1..n
      /\ \A i \in DOMAIN entries : i \in DOMAIN Append(entries, l) /\ Append(entries, l)[i] = entries[i]
      /\ Append(entries, l)[n] = l
  BY Appended
<1>2. PICK all : all = Append(entries, l)
  OBVIOUS
<1>3. \A i \in DOMAIN entries : entries[i].place # 0 => more[entries[i].place] = events[entries[i].place]
  <2>1. ASSUME NEW i \in DOMAIN entries
        PROVE  entries[i].place \in Nat /\ entries[i].place <= Len(events)
    <3>1. entries[i] \in Entries
      OBVIOUS
    <3> QED
      BY <3>1 DEF Entries
  <2>2. /\ DOMAIN events = 1..Len(events) /\ Len(events) \in Nat
        /\ \A p \in DOMAIN events : more[p] = events[p]
    BY GrownFacts
  <2> QED
    BY <2>1, <2>2
<1>4. ASSUME NEW k \in Val, NEW i \in DOMAIN all, IsLast(all, i, k)
      PROVE  Left(all[i], more[all[i].place], k, after, names)
  <2>1. Touches(all[i], k) /\ \A j \in DOMAIN all : Touches(all[j], k) => j <= i
    BY <1>4 DEF IsLast
  <2>2. CASE Touches(l, k)
    <3>1. i = n /\ all[i] = l
      BY <1>1, <1>2, <2>1, <2>2
    <3> QED
      BY <2>2, <3>1
  <2>3. CASE ~Touches(l, k)
    <3>1. i \in DOMAIN entries /\ all[i] = entries[i]
      BY <1>1, <1>2, <2>1, <2>3
    <3>2. IsLast(entries, i, k)
      BY <1>1, <1>2, <2>1, <3>1 DEF IsLast
    <3>3. Left(entries[i], events[entries[i].place], k, rows, names)
      BY <3>1, <3>2 DEF RowsFollow
    <3>4. \A r : r[1] = k => (r \in after <=> r \in rows)
      BY <2>3
    <3> QED
      BY <1>3, <3>1, <3>3, <3>4 DEF Left
  <2> QED
    BY <2>2, <2>3
<1>5. RowsFollow(all, more, after, names)
  BY <1>4 DEF RowsFollow
<1> QED
  BY <1>2, <1>5

\* A change of the table, whose event is in the buffer if its entry has a place.
Recorded(c, place) ==
    /\ ChangeForm(c) /\ Apply(c) /\ place \in Nat
    /\ UNCHANGED <<layout, current, wrong>>
    /\ log' = Append(log, Entry(c, place))
    /\ Grown(buffer, buffer', Entry(c, place), KeyName)
    /\ run' \in {"reading", "flushing", "failed"} /\ (run' = "flushing" => buffer' # <<>>)
    /\ place # 0 =>
          /\ Usable(buffer'[place], KeyName)
          /\ c.op # "d" /\ c.unchanged = {} /\ layout[Mapped] \notin Unreadable =>
                Shows(buffer'[place].after, c.new, layout[Mapped], layout[Mapped])

\* A recorded change keeps the invariant.
LEMMA RecordedKeeps ==
    ASSUME ParserTypeOK, ParserTypeOK', ReplicaInv, NEW c, NEW place, Recorded(c, place)
    PROVE  ReplicaInv'
<1>1. /\ TypeInv /\ BufferIsLog /\ LastIsRow /\ MirrorFaithful
      /\ ChangeForm(c) /\ Apply(c) /\ place \in Nat /\ UNCHANGED <<layout, current, wrong>>
  BY DEF ReplicaInv, Recorded
<1>2. PICK l : l = Entry(c, place)
  OBVIOUS
<1>3. /\ l \in Entries /\ Keyed(l) /\ l.op = c.op /\ l.place = place
      /\ l.cols = layout[Mapped] /\ (l.whole <=> c.unchanged = {})
      /\ l.from = IF c.op = "c" THEN None ELSE c.old[1]
      /\ l.to = IF c.op = "d" THEN None ELSE c.new[1]
  BY <1>1, <1>2, EntryForm
<1>4. /\ log' = Append(log, l) /\ Grown(buffer, buffer', l, KeyName)
      /\ buffer \in Seq(Event) /\ log \in Seq(Entries)
      /\ \A i \in DOMAIN log : log[i].place <= Len(buffer)
  BY <1>1, <1>2 DEF Recorded, TypeInv
<1>5. /\ RowsOK' /\ changes' \in 0..MaxChanges /\ changes' = changes + 1
      /\ c.op # "d" => c.new \in contents'
      /\ c.op # "c" => \A r \in contents' : r[1] = c.old[1] => c.op # "d" /\ c.new[1] = c.old[1]
      /\ \A k : (c.op # "c" => c.old[1] # k) /\ (c.op # "d" => c.new[1] # k) =>
             \A r : r[1] = k => (r \in contents' <=> r \in contents)
  BY <1>1, RowsAfter
<1>6. \A k \in Val : Touches(l, k) <=> (c.op # "c" /\ c.old[1] = k) \/ (c.op # "d" /\ c.new[1] = k)
  BY <1>3, NoneAssumption DEF Touches
<1>7. KeyName' = KeyName
  BY NamesStay
<1>8. /\ buffer' \in Seq(Event) /\ DOMAIN buffer = 1..Len(buffer) /\ DOMAIN buffer' = 1..Len(buffer')
      /\ Len(buffer) \in Nat /\ Len(buffer') \in Nat /\ Len(buffer) <= Len(buffer')
      /\ \A p \in DOMAIN buffer : p \in DOMAIN buffer' /\ buffer'[p] = buffer[p]
      /\ \A p \in DOMAIN buffer' : p \in DOMAIN buffer \/ (l.place # 0 /\ p = l.place)
      /\ l.place \in Nat /\ l.place <= Len(buffer')
  BY <1>3, <1>4, GrownFacts
<1>9. /\ log' \in Seq(Entries) /\ Len(log) \in Nat /\ Len(log') = Len(log) + 1
      /\ \A i \in DOMAIN log' : log'[i] = l \/ (i \in DOMAIN log /\ log'[i] = log[i])
      /\ \A i \in DOMAIN log : i \in DOMAIN log' /\ log'[i] = log[i]
      /\ \E i \in DOMAIN log' : log'[i] = l
  <2>1. /\ Append(log, l) \in Seq(Entries) /\ Len(log) \in Nat /\ DOMAIN log = 1..Len(log)
        /\ Len(Append(log, l)) = Len(log) + 1 /\ DOMAIN Append(log, l) = 1..(Len(log) + 1)
        /\ \A i \in DOMAIN log : i \in DOMAIN Append(log, l) /\ Append(log, l)[i] = log[i]
        /\ Append(log, l)[Len(log) + 1] = l
    BY <1>3, <1>4, Appended
  <2>2. PICK all : all = Append(log, l)
    OBVIOUS
  <2>3. \A i \in DOMAIN all : all[i] = l \/ (i \in DOMAIN log /\ all[i] = log[i])
    BY <2>1, <2>2
  <2>4. Len(log) + 1 \in DOMAIN all /\ all[Len(log) + 1] = l
    BY <2>1, <2>2
  <2>5. log' = all
    BY <2>2, <1>4
  <2> QED
    BY <2>1, <2>2, <2>3, <2>4, <2>5
<1>10. TypeInv'
  <2>1. ASSUME NEW p \in DOMAIN buffer' PROVE Usable(buffer'[p], KeyName')
    <3>1. CASE p \in DOMAIN buffer
      BY <1>1, <1>7, <1>8, <3>1 DEF TypeInv
    <3>2. CASE l.place # 0 /\ p = l.place
      BY <1>3, <1>7, <3>2 DEF Recorded
    <3> QED
      BY <1>8, <3>1, <3>2
  <2>2. ASSUME NEW i \in DOMAIN log' PROVE Keyed(log'[i]) /\ log'[i].place <= Len(buffer')
    <3>1. CASE log'[i] = l
      BY <1>3, <1>8, <3>1
    <3>2. CASE i \in DOMAIN log /\ log'[i] = log[i]
      <4>1. Keyed(log[i]) /\ log[i].place <= Len(buffer)
        BY <1>1, <3>2 DEF TypeInv
      <4>2. log[i] \in Entries
        BY <1>4, <3>2
      <4>3. log[i].place \in Nat
        BY <4>2 DEF Entries
      <4> QED
        BY <1>8, <3>2, <4>1, <4>3
    <3> QED
      BY <1>9, <3>1, <3>2
  <2>3. current' \in [Val -> SfRow \cup {None}] /\ wrong' \subseteq Val
    BY <1>1 DEF TypeInv
  <2>4. Len(log') <= changes'
    BY <1>1, <1>5, <1>9 DEF TypeInv
  <2>5. run' \in {"reading", "flushing", "failed"} /\ (run' = "flushing" => buffer' # <<>>)
    BY DEF Recorded
  <2> QED
    BY <1>5, <1>8, <1>9, <2>1, <2>2, <2>3, <2>4, <2>5 DEF TypeInv
<1>11. BufferIsLog'
  <2>1. InOrder(log, buffer, KeyName)
    BY <1>1 DEF BufferIsLog
  <2>2. InOrder(Append(log, l), buffer', KeyName)
    BY <1>3, <1>4, <2>1, GrowsInOrder
  <2> QED
    BY <1>4, <1>7, <2>2 DEF BufferIsLog
<1>12. LastIsRow'
  <2>1. RowsFollow(log, buffer, contents, layout[Mapped])
    BY <1>1 DEF LastIsRow
  <2>2. ASSUME NEW k \in Val, Touches(l, k)
        PROVE  Left(l, buffer'[l.place], k, contents', layout[Mapped])
    <3>1. CASE l.to = k
      <4>1. c.op # "d" /\ c.new[1] = k /\ c.new \in contents'
        BY <1>3, <1>5, <3>1, NoneAssumption
      <4>2. l.place # 0 /\ l.whole /\ l.cols \notin Unreadable =>
                Shows(buffer'[l.place].after, c.new, l.cols, layout[Mapped])
        BY <1>3, <4>1 DEF Recorded
      <4> QED
        BY <3>1, <4>1, <4>2 DEF Left
    <3>2. CASE l.to # k
      <4>1. c.op # "c" /\ c.old[1] = k /\ (c.op # "d" => c.new[1] # k)
        BY <1>3, <1>6, <2>2, <3>2
      <4> QED
        BY <1>5, <3>2, <4>1 DEF Left
    <3> QED
      BY <3>1, <3>2
  <2>3. ASSUME NEW k \in Val, ~Touches(l, k)
        PROVE  \A r : r[1] = k => (r \in contents' <=> r \in contents)
    BY <1>5, <1>6, <2>3
  <2>4. RowsFollow(Append(log, l), buffer', contents', layout[Mapped])
    BY <1>3, <1>4, <2>1, <2>2, <2>3, GrowsWithRows
  <2> QED
    BY <1>1, <1>4, <2>4 DEF LastIsRow
<1>13. MirrorFaithful'
  <2>1. ASSUME NEW k \in Val, k \notin wrong', k \notin Touched(log') PROVE Mirrored(k)'
    <3>1. k \notin wrong /\ k \notin Touched(log) /\ ~Touches(l, k)
      BY <1>1, <1>9, <2>1 DEF Touched
    <3>2. Mirrored(k)
      BY <1>1, <3>1 DEF MirrorFaithful
    <3>3. \A r : r[1] = k => (r \in contents' <=> r \in contents)
      BY <1>5, <1>6, <3>1
    <3> QED
      BY <1>1, <3>2, <3>3, ShownStays
  <2>2. Touched(log)' = Touched(log')
    BY DEF Touched, Touches
  <2> QED
    BY <2>1, <2>2 DEF MirrorFaithful
<1> QED
  BY <1>10, <1>11, <1>12, <1>13 DEF ReplicaInv

LEMMA ReadRowKeeps ==
    ASSUME ParserInv, ParserInv', ReplicaInv, ReadRow
    PROVE  ReplicaInv'
<1>1. ParserTypeOK /\ ParserTypeOK' /\ EventFaithful'
  BY DEF ParserInv
<1>2. PICK c, e, place : c = change' /\ e = event' /\ place = IF e = None THEN 0 ELSE Len(buffer')
  OBVIOUS
<1>3. /\ Send /\ Apply(c) /\ UNCHANGED <<current, wrong>>
      /\ buffer' = IF e = None THEN buffer ELSE Append(buffer, e)
      /\ log' = Append(log, Entry(c, place))
      /\ run' \in {"reading", "flushing", "failed"} /\ (run' = "flushing" => run = "reading" /\ e # None)
  BY <1>2 DEF ReadRow
<1>4. /\ ChangeForm(c) /\ UNCHANGED layout
      /\ e # None =>
            /\ e.op = c.op /\ e.table = Mapped
            /\ c.op # "d" => e.after \in Dicts /\ KeyName \in DOMAIN e.after
                             /\ e.after[KeyName] = c.new[1]
            /\ c.op = "d" => e.before \in Dicts /\ KeyName \in DOMAIN e.before
                             /\ e.before[KeyName] = c.old[1]
  BY <1>2, <1>3, SendForm
<1>5. buffer \in Seq(Event) /\ (e # None => e \in Event)
  BY <1>1, <1>2 DEF ReplicaInv, TypeInv, ParserTypeOK
<1>6. /\ place \in Nat
      /\ e # None => /\ place = Len(buffer) + 1 /\ place # 0 /\ buffer'[place] = e
                     /\ buffer' = Append(buffer, e) /\ buffer' # <<>>
  <2>1. CASE e = None
    BY <1>2, <2>1
  <2>2. CASE e # None
    <3>1. PICK more : more = Append(buffer, e)
      OBVIOUS
    <3>2. Len(buffer) \in Nat /\ Len(more) = Len(buffer) + 1 /\ more[Len(buffer) + 1] = e
      BY <1>5, <2>2, <3>1, Appended
    <3>3. buffer' = more
      BY <1>3, <2>2, <3>1
    <3>4. more # <<>>
      BY <3>2
    <3> QED
      BY <1>2, <1>3, <2>2, <3>2, <3>3, <3>4
  <2> QED
    BY <2>1, <2>2
<1>7. /\ Entry(c, place).op = c.op /\ Entry(c, place).place = place
      /\ Entry(c, place).cols = layout[Mapped]
      /\ Entry(c, place).from = IF c.op = "c" THEN None ELSE c.old[1]
      /\ Entry(c, place).to = IF c.op = "d" THEN None ELSE c.new[1]
  BY <1>1, <1>4, <1>6, EntryForm
\* What EventFaithful says of an event with an after-image.
<1>8. ASSUME e # None, c.op # "d", layout[Mapped] \notin Unreadable
      PROVE  /\ DOMAIN e.after = ToSet(layout[Mapped])
             /\ c.unchanged = {} => Shows(e.after, c.new, layout[Mapped], layout[Mapped])
  <2> DEFINE cols == layout[Mapped]
  <2>1. cols \in Layout /\ DOMAIN cols = 1..Len(cols)
    BY <1>1, Names, LayoutFacts
  <2>2. c.table = Mapped /\ c.new \in RowsOf(Mapped)
    BY <1>4, <1>8 DEF ChangeForm
  <2>3. c.new # None /\ DOMAIN c.new = DOMAIN cols
    BY <2>1, <2>2, NoRowAssumption DEF RowsOf, Value
  <2>4. layout' = layout
    BY <1>4
  <2>5. Agrees(e.after, cols, c.new, DOMAIN cols \ c.unchanged)
    BY <1>1, <1>2, <1>8, <2>2, <2>3, <2>4 DEF EventFaithful
  <2>6. ToSet(cols) = {cols[n] : n \in DOMAIN cols}
    BY DEF ToSet
  <2> HIDE DEF cols
  <2>7. DOMAIN e.after = ToSet(cols)
    BY <2>5, <2>6 DEF Agrees
  <2>8. ASSUME c.unchanged = {} PROVE Shows(e.after, c.new, cols, cols)
    BY <2>3, <2>5, <2>6, <2>8 DEF Agrees, Shows
  <2> QED
    BY <2>7, <2>8 DEF cols
<1>9. e # None => Matches(Entry(c, place), e, KeyName) /\ Usable(e, KeyName)
  BY <1>4, <1>5, <1>7, <1>8 DEF Matches, Usable, ChangeForm
<1>10. Grown(buffer, buffer', Entry(c, place), KeyName)
  BY <1>2, <1>3, <1>5, <1>6, <1>7, <1>9 DEF Grown
<1>11. run' = "flushing" => buffer' # <<>>
  BY <1>3, <1>6
<1>12. place # 0 => e # None
  BY <1>2
<1>13. Recorded(c, place)
  BY <1>3, <1>4, <1>6, <1>8, <1>9, <1>10, <1>11, <1>12 DEF Recorded
<1> QED
  BY <1>1, <1>13, RecordedKeeps

LEMMA MissKeeps ==
    ASSUME ParserTypeOK, ParserTypeOK', ReplicaInv, Miss
    PROVE  ReplicaInv'
<1>1. PICK c \in AnyChange : Apply(c) /\ log' = Append(log, Entry(c, 0))
  BY DEF Miss
<1>2. UNCHANGED <<layout, run, buffer, current, wrong>> /\ run = "failed"
  BY DEF Miss, parserVars, server
<1>3. contents \subseteq RowsOf(Mapped)
  BY DEF ReplicaInv, TypeInv, RowsOK
<1>4. ChangeForm(c)
  BY <1>3 DEF AnyChange, ChangeForm
<1>5. Entry(c, 0).place = 0
  BY DEF Entry
<1>6. Grown(buffer, buffer', Entry(c, 0), KeyName)
  BY <1>2, <1>5 DEF Grown
<1>7. Recorded(c, 0)
  BY <1>1, <1>2, <1>4, <1>6 DEF Recorded
<1> QED
  BY <1>7, RecordedKeeps

\* A step that leaves the table and what is in flight as they are.
LEMMA QuietKeeps ==
    ASSUME ReplicaInv,
           UNCHANGED <<layout, contents, buffer, current, log, changes, wrong>>,
           run' \in {"reading", "flushing", "failed"}, run' = "flushing" => buffer # <<>>
    PROVE  ReplicaInv'
<1>1. TypeInv'
  BY DEF ReplicaInv, TypeInv, RowsOK, RowsOf, KeyName, Usable
<1>2. BufferIsLog' /\ LastIsRow'
  BY DEF ReplicaInv, BufferIsLog, LastIsRow, KeyName
<1>3. MirrorFaithful'
  BY DEF ReplicaInv, MirrorFaithful, Mirrored, Touched, Touches
<1> QED
  BY <1>1, <1>2, <1>3 DEF ReplicaInv

\* With nothing in flight, the table is all there is to say.
LEMMA EmptyKeeps ==
    ASSUME ReplicaInv, UNCHANGED <<layout, contents, changes>>, buffer' = <<>>, log' = <<>>,
           run' = "reading", wrong' \subseteq Val, current' \in [Val -> SfRow \cup {None}],
           \A k \in Val : k \notin wrong' => ShownBy(current'[k], k)
    PROVE  ReplicaInv'
<1>1. changes \in 0..MaxChanges /\ Len(log') = 0
  BY DEF ReplicaInv, TypeInv
<1>2. TypeInv'
  <2>1. RowsOK'
    BY DEF ReplicaInv, TypeInv, RowsOK, RowsOf
  <2> QED
    BY <1>1, <2>1 DEF TypeInv
<1>3. BufferIsLog' /\ LastIsRow'
  BY DEF BufferIsLog, InOrder, LastIsRow, RowsFollow
<1>4. ASSUME NEW k \in Val, k \notin wrong' PROVE Mirrored(k)'
  <2>1. PICK cell : cell = current'[k]
    OBVIOUS
  <2>2. ShownBy(cell, k)
    BY <1>4, <2>1
  <2>3. contents' = contents /\ layout' = layout
    OBVIOUS
  <2>4. CASE cell = None
    BY <2>1, <2>2, <2>3, <2>4 DEF Mirrored, ShownBy
  <2>5. CASE cell # None
    <3>1. PICK r \in contents :
              /\ r[1] = k
              /\ \A n \in DOMAIN r :
                    SfName[layout[Mapped][n]] \in Columns => cell[SfName[layout[Mapped][n]]] = r[n]
      BY <2>2, <2>5 DEF ShownBy
    <3> QED
      BY <2>1, <2>3, <2>5, <3>1 DEF Mirrored
  <2> QED
    BY <2>4, <2>5
<1>5. MirrorFaithful'
  BY <1>4 DEF MirrorFaithful
<1> QED
  BY <1>2, <1>3, <1>5 DEF ReplicaInv

LEMMA FlushAcceptedKeeps ==
    ASSUME ParserTypeOK, ReplicaInv, FlushAccepted
    PROVE  ReplicaInv'
<1>1. TypeInv /\ BufferIsLog /\ LastIsRow /\ MirrorFaithful
  BY DEF ReplicaInv
<1>2. PICK table \in Merged : current' = WithoutDeleted(table)
  BY DEF FlushAccepted
<1>3. /\ UNCHANGED <<layout, contents, changes>> /\ buffer' = <<>> /\ log' = <<>>
      /\ run' = "reading"
      /\ wrong' = (wrong \cup Touched(log)) \ {k \in Touched(log) : Settled(k)}
  BY DEF FlushAccepted, parserVars, server
<1>4. current' \in [Val -> SfRow \cup {None}]
  BY <1>1, <1>2, WriteGives
<1>5. wrong' \subseteq Val
  BY <1>1, <1>3 DEF TypeInv, Touched
<1>6. ASSUME NEW k \in Val, k \notin wrong' PROVE ShownBy(current'[k], k)
  <2>1. CASE k \in Touched(log)
    <3>1. Settled(k)
      BY <1>3, <1>6, <2>1
    <3> QED
      BY <1>1, <1>2, <3>1, SettledIsShown
  <2>2. CASE k \notin Touched(log)
    <3>1. current'[k] = current[k]
      BY <1>1, <1>2, <2>2, OthersStay
    <3>2. Mirrored(k)
      BY <1>1, <1>3, <1>6, <2>2 DEF MirrorFaithful
    <3> QED
      BY <3>1, <3>2, MirroredForm
  <2> QED
    BY <2>1, <2>2
<1> QED
  BY <1>3, <1>4, <1>5, <1>6, EmptyKeeps

LEMMA RestartKeeps ==
    ASSUME ReplicaInv, Restart
    PROVE  ReplicaInv'
<1>1. /\ UNCHANGED <<layout, contents, changes, current>> /\ buffer' = <<>> /\ log' = <<>>
      /\ run' = "reading" /\ wrong' = wrong \cup Touched(log)
  BY DEF Restart, Reconnect
<1>2. TypeInv /\ MirrorFaithful
  BY DEF ReplicaInv
<1>3. current' \in [Val -> SfRow \cup {None}] /\ wrong' \subseteq Val
  BY <1>1, <1>2 DEF TypeInv, Touched
<1>4. ASSUME NEW k \in Val, k \notin wrong' PROVE ShownBy(current'[k], k)
  <2>1. Mirrored(k)
    BY <1>1, <1>2, <1>4 DEF MirrorFaithful
  <2> QED
    BY <1>1, <2>1, MirroredForm
<1> QED
  BY <1>1, <1>3, <1>4, EmptyKeeps

\* A flush that is given up may have written the current-state table.
LEMMA FlushRejectedKeeps ==
    ASSUME ParserTypeOK, ReplicaInv, FlushRejected
    PROVE  ReplicaInv'
<1>1. TypeInv /\ BufferIsLog /\ LastIsRow /\ MirrorFaithful
  BY DEF ReplicaInv
<1>2. UNCHANGED <<layout, contents, buffer, log, changes, wrong>> /\ run' = "failed"
  BY DEF FlushRejected, parserVars, server
<1>3. /\ current' \in [Val -> SfRow \cup {None}]
      /\ \A k \in Val : k \notin Touched(log) => current'[k] = current[k]
  <2>1. CASE current' = current
    BY <1>1, <2>1 DEF TypeInv
  <2>2. CASE \E table \in Merged : current' = WithoutDeleted(table)
    <3>1. PICK table \in Merged : current' = WithoutDeleted(table)
      BY <2>2
    <3> QED
      BY <1>1, <3>1, WriteGives, OthersStay
  <2> QED
    BY <2>1, <2>2 DEF FlushRejected
<1>4. TypeInv'
  BY <1>1, <1>2, <1>3 DEF TypeInv, RowsOK, RowsOf, KeyName, Usable
<1>5. BufferIsLog' /\ LastIsRow'
  BY <1>1, <1>2 DEF BufferIsLog, LastIsRow, KeyName
<1>6. ASSUME NEW k \in Val, k \notin wrong', k \notin Touched(log) PROVE Mirrored(k)'
  <2>1. Mirrored(k)
    BY <1>1, <1>2, <1>6 DEF MirrorFaithful
  <2> QED
    BY <1>2, <1>3, <1>6, <2>1, ShownStays
<1>7. MirrorFaithful'
  BY <1>2, <1>6 DEF MirrorFaithful, Touched, Touches
<1> QED
  BY <1>4, <1>5, <1>7 DEF ReplicaInv

\* ALTER TABLE keeps the key of a row, and the values of the columns that stay.
LEMMA ReshapeKeeps ==
    ASSUME NEW old \in Layout, NEW new \in Layout, old[1] = new[1],
           NEW row \in [DOMAIN old -> Value], NEW default \in Value
    PROVE  /\ Reshape(row, old, new, default) \in [DOMAIN new -> Value]
           /\ Reshape(row, old, new, default)[1] = row[1]
           /\ \A n \in DOMAIN new : new[n] \in ToSet(old) =>
                  \E j \in DOMAIN old : /\ old[j] = new[n]
                                        /\ Reshape(row, old, new, default)[n] = row[j]
<1> DEFINE At(n) == CHOOSE j \in DOMAIN old : old[j] = new[n]
<1>1. ToSet(old) = {old[j] : j \in DOMAIN old}
  BY DEF ToSet
<1>2. \A n \in DOMAIN new : new[n] \in ToSet(old) => At(n) \in DOMAIN old /\ old[At(n)] = new[n]
  BY <1>1
<1>3. 1 \in DOMAIN old /\ 1 \in DOMAIN new /\ \A i, j \in DOMAIN old : old[i] = old[j] => i = j
  BY LayoutFacts
<1>4. new[1] \in ToSet(old)
  BY <1>1, <1>3
<1>5. At(1) = 1
  BY <1>2, <1>3, <1>4
<1>6. \A n \in DOMAIN new :
        Reshape(row, old, new, default)[n] = IF new[n] \in ToSet(old) THEN row[At(n)] ELSE default
  BY DEF Reshape
<1> HIDE DEF At
<1>7. \A n \in DOMAIN new : Reshape(row, old, new, default)[n] \in Value
  BY <1>2, <1>6
<1>8. Reshape(row, old, new, default) \in [DOMAIN new -> Value]
  BY <1>7 DEF Reshape
<1> QED
  BY <1>2, <1>3, <1>4, <1>5, <1>6, <1>8

\* The entries when no message holds every column any more.
Blurred(entries) == [i \in DOMAIN entries |-> [entries[i] EXCEPT !.whole = FALSE]]

LEMMA BlurFacts ==
    ASSUME NEW entries \in Seq(Entries), NEW blurred, blurred = Blurred(entries)
    PROVE  /\ blurred \in Seq(Entries) /\ DOMAIN blurred = DOMAIN entries /\ Len(blurred) = Len(entries)
           /\ \A i \in DOMAIN entries :
                  /\ blurred[i].op = entries[i].op /\ blurred[i].from = entries[i].from
                  /\ blurred[i].to = entries[i].to /\ blurred[i].place = entries[i].place
                  /\ blurred[i].cols = entries[i].cols /\ blurred[i].whole = FALSE
<1>1. DOMAIN entries = 1..Len(entries) /\ Len(entries) \in Nat
  OBVIOUS
<1>2. ASSUME NEW i \in DOMAIN entries
      PROVE  /\ blurred[i] \in Entries
             /\ blurred[i].op = entries[i].op /\ blurred[i].from = entries[i].from
             /\ blurred[i].to = entries[i].to /\ blurred[i].place = entries[i].place
             /\ blurred[i].cols = entries[i].cols /\ blurred[i].whole = FALSE
  <2>1. entries[i] \in Entries /\ blurred[i] = [entries[i] EXCEPT !.whole = FALSE]
    BY DEF Blurred
  <2> QED
    BY <2>1 DEF Entries
<1>3. blurred \in [1..Len(entries) -> Entries] /\ DOMAIN blurred = DOMAIN entries
  BY <1>1, <1>2 DEF Blurred
<1>4. blurred \in Seq(Entries)
  BY <1>1, <1>3
<1>5. Len(blurred) = Len(entries)
  BY <1>1, <1>3, <1>4
<1> QED
  BY <1>2, <1>3, <1>4, <1>5

LEMMA AlterKeeps ==
    ASSUME ParserTypeOK, ParserTypeOK', ReplicaInv, Alter
    PROVE  ReplicaInv'
<1>1. TypeInv /\ BufferIsLog /\ LastIsRow /\ MirrorFaithful
  BY DEF ReplicaInv
<1>2. PICK old, new : old = layout[Mapped] /\ new = layout'[Mapped]
  OBVIOUS
<1>3. old \in Layout /\ new \in Layout /\ old[1] = new[1] /\ KeyName' = KeyName
  BY <1>2, Names, NamesStay, ReplicaAssumption DEF ParserTypeOK
<1>4. PICK default \in Value : contents' = {Reshape(r, old, new, default) : r \in contents}
  BY <1>2 DEF Alter
<1>5. UNCHANGED <<run, buffer, current, changes>>
  BY DEF Alter
<1> DEFINE Fresh(r) == Reshape(r, old, new, default)
<1>6. ASSUME NEW r \in contents
      PROVE  /\ r \in [DOMAIN old -> Value] /\ r[1] # None
             /\ Fresh(r) \in [DOMAIN new -> Value] /\ Fresh(r)[1] = r[1]
             /\ \A n \in DOMAIN new : new[n] \in ToSet(old) =>
                    \E j \in DOMAIN old : old[j] = new[n] /\ Fresh(r)[n] = r[j]
  <2>1. r \in [DOMAIN old -> Value] /\ r[1] # None
    BY <1>1, <1>2 DEF TypeInv, RowsOK, RowsOf, Value
  <2> QED
    BY <1>3, <2>1, ReshapeKeeps
<1> HIDE DEF Fresh
<1>7. contents' = {Fresh(r) : r \in contents}
  BY <1>4 DEF Fresh
<1>8. RowsOK'
  <2>1. RowsOf(Mapped)' = {r \in [DOMAIN new -> Value] : r[1] # None}
    BY <1>2 DEF RowsOf, Value
  <2>2. contents' \subseteq RowsOf(Mapped)'
    BY <1>6, <1>7, <2>1
  <2>3. ASSUME NEW r \in contents, NEW q \in contents, Fresh(r)[1] = Fresh(q)[1]
        PROVE  Fresh(r) = Fresh(q)
    BY <1>1, <1>6, <2>3 DEF TypeInv, RowsOK
  <2> QED
    BY <1>7, <2>2, <2>3 DEF RowsOK
<1>9. /\ log \in Seq(Entries) /\ log' \in Seq(Entries) /\ DOMAIN log' = DOMAIN log /\ Len(log') = Len(log)
      /\ \A i \in DOMAIN log :
             /\ log'[i].op = log[i].op /\ log'[i].from = log[i].from /\ log'[i].to = log[i].to
             /\ log'[i].place = log[i].place /\ log'[i].cols = log[i].cols
  <2>1. log \in Seq(Entries)
    BY <1>1 DEF TypeInv
  <2>2. log' = log \/ log' = Blurred(log)
    BY DEF Alter, Blurred
  <2>3. PICK base, entries : base = log /\ entries = log'
    OBVIOUS
  <2>4. CASE entries = Blurred(base)
    <3>1. base \in Seq(Entries)
      BY <2>1, <2>3
    <3>2. /\ entries \in Seq(Entries) /\ DOMAIN entries = DOMAIN base /\ Len(entries) = Len(base)
          /\ \A i \in DOMAIN base :
                 /\ entries[i].op = base[i].op /\ entries[i].from = base[i].from
                 /\ entries[i].to = base[i].to /\ entries[i].place = base[i].place
                 /\ entries[i].cols = base[i].cols /\ entries[i].whole = FALSE
      BY <2>4, <3>1, BlurFacts
    <3> QED
      BY <2>3, <3>1, <3>2
  <2> QED
    BY <2>1, <2>2, <2>3, <2>4
<1>10. CASE ToSet(new) \subseteq ToSet(old)
  <2>1. log' = log /\ wrong' = wrong
    BY <1>2, <1>10 DEF Alter
  <2>2. \A n \in DOMAIN new : new[n] \in ToSet(old)
    BY <1>10 DEF ToSet
  <2>3. TypeInv'
    BY <1>1, <1>3, <1>5, <1>8, <2>1 DEF TypeInv
  <2>4. BufferIsLog'
    BY <1>1, <1>3, <1>5, <2>1 DEF BufferIsLog
  <2>5. RowsFollow(log, buffer, contents', new)
    <3>1. ASSUME NEW k \in Val, NEW i \in DOMAIN log, IsLast(log, i, k)
          PROVE  Left(log[i], buffer[log[i].place], k, contents', new)
      <4>1. Left(log[i], buffer[log[i].place], k, contents, old)
        BY <1>1, <1>2, <3>1 DEF LastIsRow, RowsFollow
      <4>2. CASE log[i].to = k
        <5>1. PICK r \in contents :
                  /\ r[1] = k
                  /\ log[i].place # 0 /\ log[i].whole /\ log[i].cols \notin Unreadable =>
                         Shows(buffer[log[i].place].after, r, log[i].cols, old)
          BY <4>1, <4>2 DEF Left
        <5>2. Fresh(r) \in contents' /\ Fresh(r)[1] = k
          BY <1>6, <1>7, <5>1
        <5>3. ASSUME Shows(buffer[log[i].place].after, r, log[i].cols, old)
              PROVE  Shows(buffer[log[i].place].after, Fresh(r), log[i].cols, new)
          <6>1. DOMAIN r = DOMAIN old /\ DOMAIN Fresh(r) = DOMAIN new
            BY <1>6
          <6>2. ASSUME NEW n \in DOMAIN new
                PROVE  /\ new[n] \in ToSet(log[i].cols)
                       /\ buffer[log[i].place].after[new[n]] = Fresh(r)[n]
            <7>1. PICK j \in DOMAIN old : old[j] = new[n] /\ Fresh(r)[n] = r[j]
              BY <1>6, <2>2
            <7> QED
              BY <5>3, <6>1, <7>1 DEF Shows
          <6> QED
            BY <6>1, <6>2 DEF Shows
        <5> QED
          BY <4>2, <5>1, <5>2, <5>3 DEF Left
      <4>3. CASE log[i].to # k
        BY <1>6, <1>7, <4>1, <4>3 DEF Left
      <4> QED
        BY <4>2, <4>3
    <3> QED
      BY <3>1 DEF RowsFollow
  <2>6. LastIsRow'
    BY <1>2, <1>5, <2>1, <2>5 DEF LastIsRow
  <2>7. ASSUME NEW k \in Val, k \notin wrong, k \notin Touched(log) PROVE Mirrored(k)'
    <3>1. ShownBy(current[k], k)
      BY <1>1, <2>7, MirroredForm DEF MirrorFaithful
    <3>2. CASE current[k] = None
      <4>1. {r \in contents' : r[1] = k} = {}
        BY <1>6, <1>7, <3>1, <3>2 DEF ShownBy
      <4> QED
        BY <1>5, <3>2, <4>1 DEF Mirrored
    <3>3. CASE current[k] # None
      <4>1. PICK r \in contents :
                /\ r[1] = k
                /\ \A n \in DOMAIN r : SfName[old[n]] \in Columns => current[k][SfName[old[n]]] = r[n]
        BY <1>2, <3>1, <3>3 DEF ShownBy
      <4>2. Fresh(r) \in contents' /\ Fresh(r)[1] = k
        BY <1>6, <1>7, <4>1
      <4>3. ASSUME NEW n \in DOMAIN Fresh(r), SfName[new[n]] \in Columns
            PROVE  current[k][SfName[new[n]]] = Fresh(r)[n]
        <5>1. n \in DOMAIN new /\ DOMAIN r = DOMAIN old
          BY <1>6
        <5>2. PICK j \in DOMAIN old : old[j] = new[n] /\ Fresh(r)[n] = r[j]
          BY <1>6, <2>2, <5>1
        <5> QED
          BY <4>1, <4>3, <5>1, <5>2
      <4>4. PICK row : row = Fresh(r)
        OBVIOUS
      <4>5. /\ row \in {x \in contents' : x[1] = k}
            /\ \A n \in DOMAIN row : SfName[new[n]] \in Columns => current[k][SfName[new[n]]] = row[n]
        BY <4>2, <4>3, <4>4
      <4> QED
        BY <1>2, <1>5, <3>3, <4>5 DEF Mirrored
    <3> QED
      BY <3>2, <3>3
  <2>8. MirrorFaithful'
    BY <2>1, <2>7 DEF MirrorFaithful, Touched, Touches
  <2> QED
    BY <2>3, <2>4, <2>6, <2>8 DEF ReplicaInv
<1>11. CASE ~(ToSet(new) \subseteq ToSet(old))
  <2>1. /\ log' = [i \in DOMAIN log |-> [log[i] EXCEPT !.whole = FALSE]]
        /\ wrong' = wrong \cup {r[1] : r \in contents}
    BY <1>2, <1>11 DEF Alter
  <2>2. \A i \in DOMAIN log : log'[i].whole = FALSE
    <3>1. ASSUME NEW i \in DOMAIN log PROVE log'[i].whole = FALSE
      <4>1. log[i] \in Entries /\ log'[i] = [log[i] EXCEPT !.whole = FALSE]
        BY <1>9, <2>1
      <4> QED
        BY <4>1 DEF Entries
    <3> QED
      BY <3>1
  <2>3. TypeInv'
    <3>1. wrong' \subseteq Val
      BY <1>1, <1>6, <2>1, Names DEF TypeInv, RowsOK, RowsOf
    <3>2. \A i \in DOMAIN log' : Keyed(log'[i]) /\ log'[i].place <= Len(buffer')
      BY <1>1, <1>5, <1>9 DEF TypeInv, Keyed
    <3>3. \A p \in DOMAIN buffer' : Usable(buffer'[p], KeyName')
      BY <1>1, <1>3, <1>5 DEF TypeInv
    <3> QED
      BY <1>1, <1>5, <1>8, <1>9, <3>1, <3>2, <3>3 DEF TypeInv
  <2>4. BufferIsLog'
    <3>1. InOrder(log, buffer, KeyName)
      BY <1>1 DEF BufferIsLog
    <3>2. InOrder(log', buffer, KeyName)
      BY <1>9, <3>1 DEF InOrder, Matches
    <3> QED
      BY <1>3, <1>5, <3>2 DEF BufferIsLog
  <2>5. RowsFollow(log', buffer, contents', new)
    <3>1. ASSUME NEW k \in Val, NEW i \in DOMAIN log', IsLast(log', i, k)
          PROVE  Left(log'[i], buffer[log'[i].place], k, contents', new)
      <4>1. IsLast(log, i, k)
        BY <1>9, <3>1 DEF IsLast, Touches
      <4>2. Left(log[i], buffer[log[i].place], k, contents, old)
        BY <1>1, <1>2, <1>9, <4>1 DEF LastIsRow, RowsFollow
      <4>3. IF log[i].to = k THEN \E r \in contents : r[1] = k ELSE \A r \in contents : r[1] # k
        BY <4>2 DEF Left
      <4>4. IF log[i].to = k THEN \E r \in contents' : r[1] = k ELSE \A r \in contents' : r[1] # k
        BY <1>6, <1>7, <4>3
      <4> QED
        BY <1>9, <2>2, <4>4 DEF Left
    <3> QED
      BY <3>1 DEF RowsFollow
  <2>6. LastIsRow'
    BY <1>2, <1>5, <2>5 DEF LastIsRow
  <2>7. ASSUME NEW k \in Val, k \notin wrong', k \notin Touched(log) PROVE Mirrored(k)'
    <3>1. ShownBy(current[k], k)
      BY <1>1, <2>1, <2>7, MirroredForm DEF MirrorFaithful
    <3>2. current[k] = None
      BY <2>1, <2>7, <3>1 DEF ShownBy
    <3>3. {r \in contents' : r[1] = k} = {}
      BY <1>6, <1>7, <2>1, <2>7
    <3> QED
      BY <1>5, <3>2, <3>3 DEF Mirrored
  <2>8. MirrorFaithful'
    <3>1. Touched(log') = Touched(log)
      BY <1>9 DEF Touched, Touches
    <3> QED
      BY <2>7, <3>1 DEF MirrorFaithful, Touched, Touches
  <2> QED
    BY <2>3, <2>4, <2>6, <2>8 DEF ReplicaInv
<1> QED
  BY <1>10, <1>11

LEMMA NextKeeps ==
    ASSUME ParserInv, ParserInv', ReplicaInv, [Next]_vars
    PROVE  ReplicaInv'
<1>1. ParserTypeOK /\ ParserTypeOK'
  BY DEF ParserInv
<1>2. CASE ReadRow
  BY <1>2, ReadRowKeeps
<1>3. CASE FlushAccepted
  BY <1>1, <1>3, FlushAcceptedKeeps
<1>4. CASE FlushRejected
  BY <1>1, <1>4, FlushRejectedKeeps
<1>5. CASE Miss
  BY <1>1, <1>5, MissKeeps
<1>6. CASE Restart
  BY <1>6, RestartKeeps
<1>7. CASE Alter
  BY <1>1, <1>7, AlterKeeps
<1>8. CASE ReadOther \/ Reopen
  <2>1. UNCHANGED <<layout, contents, buffer, current, log, changes, wrong>>
    BY <1>8 DEF ReadOther, Reopen, Begin, Describe, SendOther, CommitTx, NextPoll, Reconnect,
                replicaVars, server
  <2>2. run' = "reading"
    BY <1>8 DEF ReadOther, Reopen, replicaVars
  <2> QED
    BY <2>1, <2>2, QuietKeeps
<1>9. CASE IdleFlush \/ Break
  BY <1>9, QuietKeeps DEF IdleFlush, Break, parserVars, server
<1>10. CASE UNCHANGED vars
  <2>1. run' = run /\ UNCHANGED <<layout, contents, buffer, current, log, changes, wrong>>
    BY <1>10 DEF vars, parserVars, server, replicaVars
  <2>2. run \in {"reading", "flushing", "failed"} /\ (run = "flushing" => buffer # <<>>)
    BY DEF ReplicaInv, TypeInv
  <2> QED
    BY <2>1, <2>2, QuietKeeps
<1> QED
  BY <1>2, <1>3, <1>4, <1>5, <1>6, <1>7, <1>8, <1>9, <1>10 DEF Next

\* The parser's part of a step is a step of the parser.
LEMMA NextParses ==
    [Next]_vars => [ParserNext]_parserVars
<1> SUFFICES ASSUME [Next]_vars PROVE ParserNext \/ UNCHANGED parserVars
  OBVIOUS
<1>1. CASE ReadRow
  BY <1>1 DEF ReadRow, ParserNext
<1>2. CASE ReadOther
  BY <1>2 DEF ReadOther, ParserNext
<1>3. CASE Reopen \/ Restart
  BY <1>3 DEF Reopen, Restart, ParserNext
<1>4. CASE Alter
  BY <1>4 DEF Alter, ParserNext
<1>5. CASE IdleFlush \/ FlushAccepted \/ FlushRejected \/ Break \/ Miss
  BY <1>5 DEF IdleFlush, FlushAccepted, FlushRejected, Break, Miss
<1>6. CASE UNCHANGED vars
  BY <1>6 DEF vars
<1> QED
  BY <1>1, <1>2, <1>3, <1>4, <1>5, <1>6 DEF Next

LEMMA ReplicaStarts ==
    Init => ReplicaInv
<1> SUFFICES ASSUME Init PROVE ReplicaInv
  OBVIOUS
<1>1. contents = {} /\ buffer = <<>> /\ log = <<>> /\ current = [k \in Val |-> None]
  BY DEF Init
<1>2. TypeInv
  BY <1>1, ReplicaAssumption DEF Init, TypeInv, RowsOK
<1>3. BufferIsLog /\ LastIsRow
  BY <1>1 DEF BufferIsLog, InOrder, LastIsRow, RowsFollow
<1>4. MirrorFaithful
  BY <1>1 DEF MirrorFaithful, Mirrored
<1> QED
  BY <1>2, <1>3, <1>4 DEF ReplicaInv

-----------------------------------------------------------------------------
(* The theorems.                                                           *)

\* The parser between the stream and the buffer is the parser of PgOutputParser, whose
\* theorems therefore hold of the service.
THEOREM ParserInside == Spec => ParserSpec
<1>1. Init => ParserInit
  BY DEF Init
<1> QED
  BY <1>1, NextParses, PTL DEF Spec, ParserSpec

\* The inductive invariant: the buffer is what the log of changes says, and the row of a
\* key is what the last change in flight made of it.
THEOREM ReplicaInvariant == Spec => [](ParserInv /\ ReplicaInv)
<1>1. Spec => []ParserInv
  BY ParserInside, ParserInvariant, PTL
<1>2. ParserInv /\ ParserInv' /\ ReplicaInv /\ [Next]_vars => ReplicaInv'
  BY NextKeeps
<1> QED
  BY <1>1, <1>2, ReplicaStarts, PTL DEF Spec

\* Type correctness: every buffered event has a key and the image its statement reads,
\* and no key occurs twice in the table.
THEOREM ReplicaTypeCorrect == Spec => []ReplicaTypeOK
<1>1. ParserInv /\ ReplicaInv => ReplicaTypeOK
  <2> SUFFICES ASSUME ParserInv, TypeInv PROVE ReplicaTypeOK
    BY DEF ReplicaInv
  <2>1. \A r \in contents : DOMAIN r = DOMAIN layout[Mapped] /\ r[1] # None
    BY DEF TypeInv, RowsOK, RowsOf
  <2>2. ASSUME NEW i \in DOMAIN log PROVE log[i].place \in 0..Len(buffer)
    <3>1. log[i] \in Entries /\ log[i].place <= Len(buffer)
      BY DEF TypeInv
    <3>2. Len(buffer) \in Nat
      BY DEF TypeInv
    <3>3. log[i].place \in Nat
      BY <3>1 DEF Entries
    <3> QED
      BY <3>1, <3>2, <3>3
  <2> QED
    BY <2>1, <2>2 DEF TypeInv, RowsOK, Usable, ReplicaTypeOK
<1> QED
  BY <1>1, ReplicaInvariant, PTL

\* The current-state table is the table of PostgreSQL but for the rows whose changes
\* were lost or written short, whatever the layouts, the batch size and the ALTERs.
THEOREM MirrorIsFaithful == Spec => []MirrorFaithful
<1>1. ParserInv /\ ReplicaInv => MirrorFaithful
  BY DEF ReplicaInv
<1> QED
  BY <1>1, ReplicaInvariant, PTL

LEMMA MergeHasRows ==
    ASSUME buffer \in Seq(Event), MergeRejected
    PROVE  Upserts # {} /\ buffer # <<>>
<1>1. ASSUME Upserts = {} PROVE MergeColumns = {}
  BY <1>1 DEF MergeColumns
<1>2. Upserts # {}
  BY <1>1 DEF MergeRejected
<1>3. Upserts # {} => buffer # <<>>
  BY DEF Upserts
<1> QED
  BY <1>2, <1>3

\* The columns of a batch are settled by its first event and its first upsert, which a
\* growing batch keeps.
LEMMA BatchStays ==
    ASSUME ParserTypeOK, ParserTypeOK', TypeInv,
           buffer' = buffer \/ \E e \in Event : buffer' = Append(buffer, e)
    PROVE  /\ MergeRejected => MergeRejected' /\ buffer # <<>>
           /\ Rejected => Rejected'
<1> DEFINE First == {j \in Upserts : \A other \in Upserts : j <= other}
<1>1. PICK more : more = buffer'
  OBVIOUS
<1>2. /\ DOMAIN buffer = 1..Len(buffer) /\ Len(buffer) \in Nat /\ Len(buffer) <= Len(more)
      /\ Len(more) \in Nat /\ DOMAIN more = 1..Len(more)
      /\ \A p \in DOMAIN buffer : p \in DOMAIN more /\ more[p] = buffer[p]
  <2>1. buffer \in Seq(Event)
    BY DEF TypeInv
  <2>2. CASE more = buffer
    BY <2>1, <2>2
  <2>3. CASE \E e \in Event : more = Append(buffer, e)
    <3>1. PICK e \in Event : more = Append(buffer, e)
      BY <2>3
    <3>2. /\ Len(buffer) \in Nat /\ DOMAIN buffer = 1..Len(buffer)
          /\ Len(more) = Len(buffer) + 1 /\ DOMAIN more = 1..(Len(buffer) + 1)
          /\ \A p \in DOMAIN buffer : p \in DOMAIN more /\ more[p] = buffer[p]
      BY <2>1, <3>1, Appended
    <3> QED
      BY <3>2
  <2> QED
    BY <1>1, <2>2, <2>3
<1>3. KeyColumn' = KeyColumn
  BY NamesStay
<1>4. Upserts \subseteq DOMAIN buffer /\ Upserts' \subseteq DOMAIN more
  BY <1>1 DEF Upserts
<1>5. \A p \in DOMAIN buffer : p \in Upserts' <=> p \in Upserts
  BY <1>1, <1>2 DEF Upserts
<1>6. \A p \in DOMAIN buffer : UpsertRow(p)' = UpsertRow(p) /\ DeletedRow(p)' = DeletedRow(p)
  <2>1. ASSUME NEW p \in DOMAIN buffer PROVE buffer'[p] = buffer[p]
    BY <1>1, <1>2
  <2> QED
    BY <2>1 DEF UpsertRow, DeletedRow
<1>7. ASSUME Upserts # {} PROVE First' = First
  <2>1. PICK u \in Upserts : u \in DOMAIN buffer
    BY <1>4, <1>7
  <2>2. ASSUME NEW j \in DOMAIN more, j \notin DOMAIN buffer, NEW p \in DOMAIN buffer PROVE p < j
    BY <1>2, <2>2
  <2>3. ASSUME NEW j \in First' PROVE j \in First
    <3>1. j \in Upserts' /\ \A other \in Upserts' : j <= other
      BY <2>3
    <3>2. j \in DOMAIN more /\ j <= u
      BY <1>4, <1>5, <2>1, <3>1
    <3>3. j \in DOMAIN buffer
      BY <1>2, <2>1, <3>2
    <3> QED
      BY <1>4, <1>5, <3>1, <3>3
  <2>4. ASSUME NEW j \in First PROVE j \in First'
    <3>1. j \in Upserts' /\ j \in DOMAIN buffer
      BY <1>4, <1>5, <2>4
    <3>2. ASSUME NEW other \in Upserts' PROVE j <= other
      <4>1. CASE other \in DOMAIN buffer
        BY <1>5, <2>4, <4>1
      <4>2. CASE other \notin DOMAIN buffer
        BY <1>2, <1>4, <2>2, <3>1, <4>2
      <4> QED
        BY <4>1, <4>2
    <3> QED
      BY <3>1, <3>2
  <2> QED
    BY <2>3, <2>4
<1>8. MergeColumns = UNION {DOMAIN UpsertRow(i) : i \in First}
  BY DEF MergeColumns
<1>9. MergeColumns' = UNION {DOMAIN UpsertRow(i)' : i \in First'}
  BY DEF MergeColumns
<1>10. ASSUME Upserts # {} PROVE MergeColumns' = MergeColumns
  <2>1. First \subseteq DOMAIN buffer
    BY <1>4
  <2> HIDE DEF First
  <2> QED
    BY <1>6, <1>7, <1>8, <1>9, <1>10, <2>1
<1>11. MergeRejected => Upserts # {} /\ buffer # <<>>
  BY MergeHasRows DEF TypeInv
<1>12. MergeRejected => MergeRejected' /\ buffer # <<>>
  BY <1>3, <1>10, <1>11 DEF MergeRejected
<1>13. ASSUME buffer # <<>> PROVE HistoryColumns' = HistoryColumns
  <2>1. 1 \in DOMAIN buffer
    BY <1>2, <1>13 DEF TypeInv
  <2> QED
    BY <1>5, <1>6, <2>1 DEF HistoryColumns
<1>14. buffer # <<>> => buffer' # <<>>
  <2>1. buffer # <<>> => 1 \in DOMAIN more
    BY <1>2 DEF TypeInv
  <2>2. 1 \notin DOMAIN <<>>
    OBVIOUS
  <2> QED
    BY <1>1, <2>1, <2>2
<1> QED
  BY <1>12, <1>13, <1>14 DEF Rejected, HistoryRejected

\* A batch rejected for its columns is rejected for good, and ends with the process.
THEOREM PoisonIsPermanent == Spec => PoisonStays
<1> DEFINE Stays ==
        /\ Rejected => Rejected' \/ Touched(log) \subseteq wrong'
        /\ MergeRejected => UNCHANGED current /\ (MergeRejected' \/ buffer' = <<>>)
<1>1. ASSUME ParserInv, ParserInv', ReplicaInv, ReplicaInv', Next PROVE Stays
  <2>1. ParserTypeOK /\ ParserTypeOK' /\ TypeInv
    BY <1>1 DEF ParserInv, ReplicaInv
  <2>2. ASSUME buffer' = buffer \/ \E e \in Event : buffer' = Append(buffer, e),
               current' = current \/ ~MergeRejected
        PROVE  Stays
    BY <2>1, <2>2, BatchStays
  <2>3. CASE ReadRow
    <3>1. event' # None => event' \in Event
      BY <2>1 DEF ParserTypeOK
    <3> QED
      BY <2>2, <2>3, <3>1 DEF ReadRow
  <2>4. CASE FlushAccepted
    <3>1. MergeRejected => buffer # <<>>
      BY <2>1, MergeHasRows DEF TypeInv
    <3> QED
      BY <2>4, <3>1 DEF FlushAccepted, Rejected
  <2>5. CASE FlushRejected
    BY <2>2, <2>5 DEF FlushRejected
  <2>6. CASE Restart
    BY <2>6 DEF Restart
  <2>7. CASE ReadOther \/ IdleFlush \/ Break \/ Miss \/ Reopen \/ Alter
    BY <2>2, <2>7 DEF ReadOther, replicaVars, IdleFlush, Break, Miss, Reopen, Alter
  <2> QED
    BY <1>1, <2>3, <2>4, <2>5, <2>6, <2>7 DEF Next
<1>2. ParserInv /\ ParserInv' /\ ReplicaInv /\ ReplicaInv' /\ [Next]_vars => [Stays]_vars
  BY <1>1
<1> QED
  BY <1>2, ReplicaInvariant, PTL DEF Spec, PoisonStays

===============================================================================
