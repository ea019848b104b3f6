------------------------- MODULE SnowflakeSinkProofs -------------------------
(***************************************************************************)
(* Theorems of SnowflakeSink, for every set of tables and keys and every   *)
(* bound: its type invariant, and from one inductive invariant the three   *)
(* safety properties of a flush.                                           *)
(***************************************************************************)
EXTENDS SnowflakeSink, TLAPS

(* The inductive invariant, in named parts.                                *)

\* Tables the attempt under way has finished with.
Written ==
    CASE phase = "table" -> TablesOf \ todo
      [] AtStatement -> TablesOf \ (todo \cup {table})
      [] phase = "confirm" -> TablesOf
      [] OTHER -> {}

\* What todo, table and dels say at each phase.
FlushShape ==
    /\ phase # "idle" => buffer # <<>> /\ tries \in 1..MaxRetries
    /\ phase \in {"table", "merge", "delete", "history"} => todo \subseteq TablesOf
    /\ AtStatement => table \in TablesOf \ todo
    /\ phase = "merge" => dels = Deletes(table)
    /\ phase = "delete" => dels # {} /\ dels \subseteq Deletes(table)
    /\ phase = "history" => dels = {}
    /\ phase = "confirm" => todo = {}

\* Nothing is buffered or written ahead of the cursor, nothing is buffered twice.
StreamOrder ==
    /\ \A e \in Batch : e.seq <= cursor
    /\ \A e, f \in Batch : e.seq = f.seq => e = f
    /\ \A t \in Table, k \in Key : current[t][k].ver <= cursor
    /\ \A s \in Seqs : s > cursor => copies[s] = 0

\* What the attempt has done so far.
Progress ==
    /\ \A e \in Batch : e.table \in Written => copies[e.seq] >= 1 /\ Settled(e)
    /\ phase \in {"delete", "history"} =>
          /\ \A e \in Upserts(table) : Settled(e)
          /\ \A e \in Deletes(table) : e \notin dels => Settled(e)

\* A cell is older than any buffered change of its row, or shows a buffered one.
NothingNewer ==
    \A e \in Batch :
        \/ current[e.table][e.key].ver < e.seq
        \/ \E f \in Batch : f.seq = current[e.table][e.key].ver

\* Each extra copy of a buffered change was paid for by a failure.
CopiesPaid ==
    /\ \A s \in Seqs : copies[s] <= 1 + faults
    /\ \A e \in Batch : copies[e.seq] > faults => e.table \in Written /\ conn # "bad"

SinkInv ==
    /\ SinkTypeOK
    /\ FlushShape
    /\ StreamOrder
    /\ Progress
    /\ NothingNewer
    /\ CopiesPaid

-----------------------------------------------------------------------------
(* The buffer as a set.                                                    *)

\* The elements of a sequence of changes are changes.
LEMMA RangeType ==
    ASSUME NEW S, NEW s \in Seq(S)
    PROVE  Range(s) \subseteq S
BY DEF Range

\* Appending adds one element to the range.
LEMMA RangeAppend ==
    ASSUME NEW S, NEW s \in Seq(S), NEW x \in S
    PROVE  Range(Append(s, x)) = Range(s) \cup {x}
<1>1. DOMAIN Append(s, x) = 1..Len(s) + 1 /\ DOMAIN s = 1..Len(s)
  OBVIOUS
<1>2. \A i \in 1..Len(s) : Append(s, x)[i] = s[i]
  OBVIOUS
<1>3. Append(s, x)[Len(s) + 1] = x
  OBVIOUS
<1>4. \A i \in 1..Len(s) + 1 : i \in 1..Len(s) \/ i = Len(s) + 1
  OBVIOUS
<1>5. Len(s) + 1 \in 1..Len(s) + 1 /\ 1..Len(s) \subseteq 1..Len(s) + 1
  OBVIOUS
<1> QED
  BY <1>1, <1>2, <1>3, <1>4, <1>5 DEF Range

\* An empty buffer holds no change.
LEMMA RangeEmpty == Range(<<>>) = {}
BY DEF Range

\* The changes of a typed buffer, and the parts of it the statements work on.
LEMMA BatchType ==
    ASSUME SinkTypeOK
    PROVE  /\ Batch \subseteq Event
           /\ TablesOf \subseteq Table
           /\ \A t : Upserts(t) \subseteq Batch /\ Deletes(t) \subseteq Batch
           /\ \A t : OfTable(t) \subseteq Batch
<1>1. Batch \subseteq Event
  BY RangeType DEF SinkTypeOK, Batch
<1> QED
  BY <1>1 DEF TablesOf, Upserts, Deletes, OfTable, Event

-----------------------------------------------------------------------------
(* What the statements do to the warehouse.                                *)

\* Every cell one of rows is about shows one of them, every other cell is unchanged.
Touches(rows) ==
    \A t \in Table, k \in Key :
        \/ \E f \in rows : f.table = t /\ f.key = k /\ current'[t][k] = Image(f)
        \/ /\ current'[t][k] = current[t][k]
           /\ \A f \in rows : ~(f.table = t /\ f.key = k)

\* The image of a change is a cell.
LEMMA ImageType ==
    ASSUME NEW e \in Event
    PROVE  Image(e) \in Cell /\ Image(e).ver = e.seq
BY WarehouseAssumption DEF Image, Event, Cell, Seqs

\* The MERGE of the upserts of a table touches just their rows.
LEMMA MergeTouches ==
    ASSUME current \in [Table -> [Key -> Cell]],
           NEW t \in Table, NEW rows \in SUBSET Event,
           \A e \in rows : e.table = t,
           Merge(t, rows)
    PROVE  /\ current' \in [Table -> [Key -> Cell]]
           /\ Touches(rows)
           /\ copies' = copies
<1>1. PICK win \in Dedup(rows) :
          current' = [current EXCEPT ![t] =
                        [k \in Key |-> IF k \in DOMAIN win THEN Image(win[k])
                                                           ELSE current[t][k]]]
  BY DEF Merge
<1>2. /\ win \in [{e.key : e \in rows} -> rows]
      /\ \A k \in DOMAIN win : win[k].key = k
  BY DEF Dedup
<1>3. \A k \in {e.key : e \in rows} : win[k] \in rows /\ win[k].key = k
  BY <1>2
<1>4. \A k \in {e.key : e \in rows} : Image(win[k]) \in Cell
  BY <1>3, ImageType
<1>5. current' \in [Table -> [Key -> Cell]]
  BY <1>1, <1>2, <1>4
<1>6. ASSUME NEW u \in Table, NEW k \in Key
      PROVE  \/ \E f \in rows : f.table = u /\ f.key = k /\ current'[u][k] = Image(f)
             \/ /\ current'[u][k] = current[u][k]
                /\ \A f \in rows : ~(f.table = u /\ f.key = k)
  <2>1. CASE u # t
    BY <2>1, <1>1
  <2>2. CASE u = t /\ k \in {e.key : e \in rows}
    BY <2>2, <1>1, <1>2, <1>3
  <2>3. CASE u = t /\ k \notin {e.key : e \in rows}
    BY <2>3, <1>1, <1>2
  <2> QED
    BY <2>1, <2>2, <2>3
<1>7. copies' = copies
  BY DEF Merge
<1> QED
  BY <1>5, <1>6, <1>7 DEF Touches

\* A DELETE touches just its own row.
LEMMA DeleteTouches ==
    ASSUME current \in [Table -> [Key -> Cell]],
           NEW e \in Event,
           Delete(e)
    PROVE  /\ current' \in [Table -> [Key -> Cell]]
           /\ Touches({e})
           /\ copies' = copies
<1>1. Image(e) \in Cell /\ e.table \in Table /\ e.key \in Key
  BY ImageType DEF Event
<1>2. current' = [current EXCEPT ![e.table] = [current[e.table] EXCEPT ![e.key] = Image(e)]]
  BY DEF Delete
<1>3. copies' = copies
  BY DEF Delete
<1> QED
  BY <1>1, <1>2, <1>3 DEF Touches

\* The INSERT adds one audit row for each of its changes.
LEMMA AppendAdds ==
    ASSUME copies \in [Seqs -> Nat],
           NEW events \in SUBSET Event,
           AppendHistory(events)
    PROVE  /\ copies' \in [Seqs -> Nat]
           /\ current' = current
           /\ \A e \in events : copies'[e.seq] = copies[e.seq] + 1
           /\ \A s \in Seqs : \/ copies'[s] = copies[s]
                              \/ copies'[s] = copies[s] + 1 /\ \E e \in events : e.seq = s
BY DEF AppendHistory, Event

\* A statement that touches the rows of buffered changes settles those changes,
\* unsettles none, writes nothing newer than the buffer and undoes nothing older.
LEMMA TouchSettles ==
    ASSUME SinkTypeOK, StreamOrder, NothingNewer,
           NEW rows \in SUBSET Batch,
           Touches(rows),
           current' \in [Table -> [Key -> Cell]],
           UNCHANGED <<buffer, cursor>>
    PROVE  /\ \A e \in rows : Settled(e)'
           /\ \A e \in Batch : Settled(e) => Settled(e)'
           /\ \A t \in Table, k \in Key : current'[t][k].ver <= cursor'
           /\ NothingNewer'
           /\ \A t \in Table, k \in Key :
                 current'[t][k].ver < current[t][k].ver =>
                    \E e \in Batch : e.seq = current[t][k].ver
<1>1. Batch \subseteq Event /\ Batch' = Batch
  BY BatchType DEF Batch
<1>2. \A e \in Batch : /\ e.table \in Table /\ e.key \in Key /\ e.seq \in Nat
                       /\ Image(e).ver = e.seq
  BY <1>1, ImageType, WarehouseAssumption DEF Event, Seqs
<1>3. \A e \in rows : Settled(e)'
  BY <1>1, <1>2 DEF Touches, Settled
<1>4. \A e \in Batch : Settled(e) => Settled(e)'
  BY <1>1, <1>2 DEF Touches, Settled
<1>5. \A t \in Table, k \in Key : current'[t][k].ver <= cursor'
  BY <1>2 DEF Touches, StreamOrder
<1>6. NothingNewer'
  <2> SUFFICES ASSUME NEW e \in Batch
               PROVE  \/ current'[e.table][e.key].ver < e.seq
                      \/ \E f \in Batch : f.seq = current'[e.table][e.key].ver
    BY <1>1 DEF NothingNewer
  <2> QED
    BY <1>2 DEF Touches, NothingNewer
<1>7. ASSUME NEW t \in Table, NEW k \in Key,
             current'[t][k].ver < current[t][k].ver
      PROVE  \E e \in Batch : e.seq = current[t][k].ver
  <2>1. current[t][k].ver \in Nat
    BY WarehouseAssumption DEF SinkTypeOK, Cell
  <2>2. PICK f \in rows : f.table = t /\ f.key = k /\ current'[t][k] = Image(f)
    BY <1>7, <2>1 DEF Touches
  <2>3. ~(current[t][k].ver < f.seq)
    BY <1>2, <1>7, <2>1, <2>2
  <2> QED
    BY <2>2, <2>3 DEF NothingNewer
<1> QED
  BY <1>3, <1>4, <1>5, <1>6, <1>7

-----------------------------------------------------------------------------
(* The inductive invariant holds initially and every action preserves it.  *)

LEMMA InitInv == SinkInit => SinkInv
<1> SUFFICES ASSUME SinkInit PROVE SinkInv
  OBVIOUS
<1> USE DEF SinkInit
<1>1. Batch = {}
  BY RangeEmpty DEF Batch
<1>2. SinkTypeOK
  BY WarehouseAssumption, SinkAssumption
     DEF SinkTypeOK, EmptyWarehouse, Absent, Cell, Phase
<1>3. FlushShape
  BY DEF FlushShape, AtStatement
<1>4. StreamOrder
  BY <1>1, WarehouseAssumption DEF StreamOrder, EmptyWarehouse, Absent, Seqs
<1>5. Progress /\ NothingNewer
  BY <1>1 DEF Progress, NothingNewer
<1>6. CopiesPaid
  BY <1>1, WarehouseAssumption DEF CopiesPaid, EmptyWarehouse, Seqs
<1> QED
  BY <1>2, <1>3, <1>4, <1>5, <1>6 DEF SinkInv

LEMMA PublishInv ==
    ASSUME SinkInv, NEW e \in Event, NEW elapsed \in BOOLEAN, Publish(e, elapsed)
    PROVE  SinkInv'
<1> USE DEF Publish, warehouse
<1>1. SinkTypeOK /\ Batch \subseteq Event
  BY BatchType DEF SinkInv
<1>2. Batch' = Batch \cup {e}
  BY <1>1, RangeAppend DEF Batch, SinkTypeOK
<1>3. e.seq \in Nat /\ e.seq > cursor /\ cursor \in Nat /\ e.seq \in Seqs
      /\ e.table \in Table /\ e.key \in Key
  BY <1>1, WarehouseAssumption DEF Event, Seqs, SinkTypeOK
<1>4. \A f \in Batch : f.seq <= cursor /\ f.seq \in Nat
  BY <1>1, WarehouseAssumption DEF SinkInv, StreamOrder, Event, Seqs
<1>5. SinkTypeOK'
  BY <1>1, <1>3, WarehouseAssumption, SinkAssumption DEF SinkTypeOK, Phase, Seqs
<1>6. Append(buffer, e) # <<>>
  BY <1>1 DEF SinkTypeOK
<1>7. FlushShape'
  BY <1>1, <1>6, SinkAssumption DEF FlushShape, AtStatement, SinkTypeOK
<1>8. StreamOrder'
  <2>1. \A t \in Table, k \in Key : current[t][k].ver \in Nat /\ current[t][k].ver <= cursor
    BY <1>1, WarehouseAssumption DEF SinkInv, StreamOrder, SinkTypeOK, Cell
  <2>2. \A s \in Seqs : s \in Nat /\ (s > cursor => copies[s] = 0)
    BY WarehouseAssumption DEF SinkInv, StreamOrder, Seqs
  <2> QED
    BY <1>2, <1>3, <1>4, <2>1, <2>2 DEF SinkInv, StreamOrder
<1>9. Progress'
  BY DEF Progress, Written, AtStatement
<1>10. NothingNewer'
  <2>1. current[e.table][e.key].ver < e.seq
    BY <1>1, <1>3, WarehouseAssumption DEF SinkInv, StreamOrder, SinkTypeOK, Cell
  <2> QED
    BY <1>2, <2>1 DEF SinkInv, NothingNewer
<1>11. CopiesPaid'
  <2>1. copies[e.seq] = 0 /\ faults \in Nat
    BY <1>1, <1>3, SinkAssumption DEF SinkInv, StreamOrder, SinkTypeOK
  <2>2. \A f \in Batch : ~(copies[f.seq] > faults)
    BY DEF SinkInv, CopiesPaid, Written, AtStatement
  <2>3. \A f \in Batch' : ~(copies[f.seq] > faults)
    BY <1>2, <2>1, <2>2
  <2> QED
    BY <2>3 DEF SinkInv, CopiesPaid
<1> QED
  BY <1>5, <1>7, <1>8, <1>9, <1>10, <1>11 DEF SinkInv

LEMMA FlushInv == ASSUME SinkInv, Flush PROVE SinkInv'
<1> USE DEF Flush, warehouse
<1>1. Batch' = Batch
  BY DEF Batch
<1>2. SinkTypeOK'
  BY SinkAssumption DEF SinkInv, SinkTypeOK, Phase
<1>3. FlushShape'
  BY SinkAssumption DEF SinkInv, FlushShape, AtStatement
<1>4. StreamOrder' /\ NothingNewer'
  BY <1>1 DEF SinkInv, StreamOrder, NothingNewer
<1>5. Progress'
  BY DEF Progress, Written, AtStatement
<1>6. CopiesPaid'
  BY <1>1 DEF SinkInv, CopiesPaid, Written, AtStatement
<1> QED
  BY <1>2, <1>3, <1>4, <1>5, <1>6 DEF SinkInv

LEMMA ConnectInv == ASSUME SinkInv, Connect PROVE SinkInv'
<1> USE DEF Connect, warehouse
<1>1. Batch' = Batch /\ TablesOf' = TablesOf
  BY DEF Batch, TablesOf
<1>2. SinkTypeOK /\ TablesOf \subseteq Table
  BY BatchType DEF SinkInv
<1>3. SinkTypeOK'
  BY <1>2 DEF SinkTypeOK, Phase
<1>4. FlushShape'
  BY <1>1 DEF SinkInv, FlushShape, AtStatement
<1>5. StreamOrder' /\ NothingNewer'
  BY <1>1 DEF SinkInv, StreamOrder, NothingNewer
<1>6. Progress'
  BY <1>1 DEF Progress, Written, AtStatement
<1>7. CopiesPaid'
  BY <1>1 DEF SinkInv, CopiesPaid, Written, AtStatement
<1> QED
  BY <1>3, <1>4, <1>5, <1>6, <1>7 DEF SinkInv

LEMMA NextTableInv == ASSUME SinkInv, NextTable PROVE SinkInv'
<1> USE DEF NextTable, warehouse
<1>1. PICK t \in todo : /\ table' = t
                        /\ todo' = todo \ {t}
                        /\ dels' = Deletes(t)
                        /\ phase' = IF Upserts(t) # {} THEN "merge" ELSE AfterMerge(t)
  OBVIOUS
<1>2. Batch' = Batch /\ TablesOf' = TablesOf /\ \A u : /\ Deletes(u)' = Deletes(u)
                                                     /\ Upserts(u)' = Upserts(u)
  BY DEF Batch, TablesOf, Deletes, Upserts
<1>3. SinkTypeOK /\ todo \subseteq TablesOf /\ TablesOf \subseteq Table /\ Deletes(t) \subseteq Event
  BY BatchType DEF SinkInv, FlushShape
<1>4. /\ phase' \in {"merge", "delete", "history"}
      /\ phase' = "delete" => Deletes(t) # {}
      /\ phase' = "history" => Deletes(t) = {}
      /\ phase' \in {"delete", "history"} => Upserts(t) = {}
  BY <1>1 DEF AfterMerge
<1>5. SinkTypeOK'
  BY <1>1, <1>3, <1>4 DEF SinkTypeOK, Phase
<1>6. FlushShape'
  BY <1>1, <1>2, <1>3, <1>4 DEF SinkInv, FlushShape, AtStatement
<1>7. StreamOrder' /\ NothingNewer'
  BY <1>2 DEF SinkInv, StreamOrder, NothingNewer
<1>8. Written' = Written
  BY <1>1, <1>2, <1>4 DEF Written, AtStatement
<1>9. Progress'
  BY <1>1, <1>2, <1>4, <1>8 DEF SinkInv, Progress, Settled
<1>10. CopiesPaid'
  BY <1>2, <1>8 DEF SinkInv, CopiesPaid
<1> QED
  BY <1>5, <1>6, <1>7, <1>9, <1>10 DEF SinkInv

LEMMA MergeCurrentInv == ASSUME SinkInv, MergeCurrent PROVE SinkInv'
<1> USE DEF MergeCurrent
<1>1. Batch' = Batch /\ TablesOf' = TablesOf /\ \A u : /\ Deletes(u)' = Deletes(u)
                                                     /\ Upserts(u)' = Upserts(u)
  BY DEF Batch, TablesOf, Deletes, Upserts
<1>2. SinkTypeOK /\ table \in Table /\ Upserts(table) \subseteq Batch /\ Batch \subseteq Event
  BY BatchType DEF SinkInv, FlushShape, AtStatement
<1>3. \A e \in Upserts(table) : e.table = table
  BY DEF Upserts
<1>4. /\ current' \in [Table -> [Key -> Cell]]
      /\ Touches(Upserts(table))
      /\ copies' = copies
  BY <1>2, <1>3, MergeTouches DEF SinkTypeOK
<1>5. /\ \A e \in Upserts(table) : Settled(e)'
      /\ \A e \in Batch : Settled(e) => Settled(e)'
      /\ \A t \in Table, k \in Key : current'[t][k].ver <= cursor'
      /\ NothingNewer'
  BY <1>2, <1>4, TouchSettles DEF SinkInv
<1>6. /\ phase' \in {"delete", "history"}
      /\ phase' = "delete" => Deletes(table) # {}
      /\ phase' = "history" => Deletes(table) = {}
  BY DEF AfterMerge
<1>7. SinkTypeOK'
  BY <1>2, <1>4, <1>6 DEF SinkTypeOK, Phase
<1>8. FlushShape'
  BY <1>1, <1>6 DEF SinkInv, FlushShape, AtStatement
<1>9. StreamOrder'
  BY <1>1, <1>4, <1>5 DEF SinkInv, StreamOrder
<1>10. Written' = Written
  BY <1>1, <1>6 DEF Written, AtStatement
<1>11. Progress'
  <2>1. \A e \in Batch' : e.table \in Written' => copies'[e.seq] >= 1 /\ Settled(e)'
    BY <1>1, <1>4, <1>5, <1>10 DEF SinkInv, Progress
  <2>2. dels = Deletes(table)
    BY DEF SinkInv, FlushShape
  <2> QED
    BY <1>1, <1>5, <2>1, <2>2 DEF Progress
<1>12. CopiesPaid'
  BY <1>1, <1>4, <1>10 DEF SinkInv, CopiesPaid
<1> QED
  BY <1>5, <1>7, <1>8, <1>9, <1>11, <1>12 DEF SinkInv

LEMMA DeleteCurrentInv == ASSUME SinkInv, DeleteCurrent PROVE SinkInv'
<1> USE DEF DeleteCurrent
<1>1. PICK d \in dels : /\ Delete(d)
                       /\ dels' = dels \ {d}
                       /\ phase' = IF dels = {d} THEN "history" ELSE "delete"
  OBVIOUS
<1>2. Batch' = Batch /\ TablesOf' = TablesOf /\ \A u : /\ Deletes(u)' = Deletes(u)
                                                     /\ Upserts(u)' = Upserts(u)
  BY DEF Batch, TablesOf, Deletes, Upserts
<1>3. SinkTypeOK /\ dels \subseteq Deletes(table) /\ d \in Batch /\ Batch \subseteq Event
  BY <1>1, BatchType DEF SinkInv, FlushShape, Deletes
<1>4. /\ current' \in [Table -> [Key -> Cell]]
      /\ Touches({d})
      /\ copies' = copies
  BY <1>1, <1>3, DeleteTouches DEF SinkTypeOK
<1>5. /\ Settled(d)'
      /\ \A e \in Batch : Settled(e) => Settled(e)'
      /\ \A t \in Table, k \in Key : current'[t][k].ver <= cursor'
      /\ NothingNewer'
  <2>1. {d} \subseteq Batch
    BY <1>3
  <2> QED
    BY <1>3, <1>4, <2>1, TouchSettles DEF SinkInv
<1>6. SinkTypeOK'
  BY <1>1, <1>3, <1>4 DEF SinkTypeOK, Phase
<1>7. FlushShape'
  BY <1>1, <1>2, <1>3 DEF SinkInv, FlushShape, AtStatement
<1>8. StreamOrder'
  BY <1>2, <1>4, <1>5 DEF SinkInv, StreamOrder
<1>9. Written' = Written
  BY <1>1, <1>2 DEF Written, AtStatement
<1>10. Progress'
  <2>1. \A e \in Batch' : e.table \in Written' => copies'[e.seq] >= 1 /\ Settled(e)'
    BY <1>2, <1>4, <1>5, <1>9 DEF SinkInv, Progress
  <2>2. \A e \in Upserts(table) : Settled(e)'
    BY <1>5 DEF SinkInv, Progress, Upserts
  <2>3. \A e \in Deletes(table) : e \notin dels' => Settled(e)'
    BY <1>1, <1>5 DEF SinkInv, Progress, Deletes
  <2> QED
    BY <1>2, <2>1, <2>2, <2>3 DEF Progress
<1>11. CopiesPaid'
  BY <1>2, <1>4, <1>9 DEF SinkInv, CopiesPaid
<1> QED
  BY <1>5, <1>6, <1>7, <1>8, <1>10, <1>11 DEF SinkInv

\* The audit rows of the changes of a table that the attempt has not written yet:
\* none of them is ahead of what the failures paid for.
LEMMA AppendPaid ==
    ASSUME SinkInv, AtStatement, AppendHistory(OfTable(table))
    PROVE  /\ copies' \in [Seqs -> Nat]
           /\ current' = current
           /\ \A s \in Seqs : s > cursor => copies'[s] = 0
           /\ \A s \in Seqs : copies'[s] >= copies[s] /\ copies'[s] <= 1 + faults
           /\ \A e \in OfTable(table) : copies'[e.seq] >= 1
           /\ \A e \in Batch : e.table # table => copies'[e.seq] = copies[e.seq]
<1>1. SinkTypeOK /\ OfTable(table) \subseteq Batch /\ Batch \subseteq Event
  BY BatchType DEF SinkInv
<1>2. /\ copies' \in [Seqs -> Nat]
      /\ current' = current
      /\ \A e \in OfTable(table) : copies'[e.seq] = copies[e.seq] + 1
      /\ \A s \in Seqs :
            \/ copies'[s] = copies[s]
            \/ copies'[s] = copies[s] + 1 /\ \E e \in OfTable(table) : e.seq = s
  BY <1>1, AppendAdds DEF SinkTypeOK
<1>3. faults \in Nat /\ \A s \in Seqs : copies[s] \in Nat /\ copies[s] <= 1 + faults
  BY <1>1, SinkAssumption DEF SinkInv, CopiesPaid, SinkTypeOK
<1>4. \A e \in OfTable(table) : e.seq \in Seqs /\ e \in Batch /\ e.table = table /\ e.seq <= cursor
  BY <1>1 DEF OfTable, Event, SinkInv, StreamOrder
<1>5. \A e \in OfTable(table) : copies[e.seq] <= faults
  <2>1. table \notin Written
    BY DEF Written, AtStatement
  <2> QED
    BY <1>3, <1>4, <2>1 DEF SinkInv, CopiesPaid
<1>6. \A s \in Seqs : copies'[s] >= copies[s] /\ copies'[s] <= 1 + faults
  BY <1>2, <1>3, <1>5
<1>7. ASSUME NEW e \in Batch, e.table # table PROVE copies'[e.seq] = copies[e.seq]
  <2>1. \A f \in OfTable(table) : f.seq # e.seq
    BY <1>4, <1>7 DEF SinkInv, StreamOrder
  <2> QED
    BY <1>1, <1>2, <2>1 DEF Event
<1>8. \A s \in Seqs : s > cursor => copies'[s] = 0
  <2>1. cursor \in Nat /\ \A s \in Seqs : s \in Nat
    BY <1>1, WarehouseAssumption DEF SinkTypeOK, Seqs
  <2> QED
    BY <1>2, <1>4, <2>1 DEF SinkInv, StreamOrder
<1>9. \A e \in OfTable(table) : copies'[e.seq] >= 1
  BY <1>2, <1>3, <1>4
<1> QED
  BY <1>2, <1>6, <1>7, <1>8, <1>9

LEMMA InsertHistoryInv == ASSUME SinkInv, InsertHistory PROVE SinkInv'
<1> USE DEF InsertHistory
<1>1. Batch' = Batch /\ TablesOf' = TablesOf
  BY DEF Batch, TablesOf
<1>2. SinkTypeOK /\ AtStatement /\ table \in TablesOf \ todo
  BY DEF SinkInv, FlushShape, AtStatement
<1>3. /\ copies' \in [Seqs -> Nat]
      /\ current' = current
      /\ \A s \in Seqs : s > cursor => copies'[s] = 0
      /\ \A s \in Seqs : copies'[s] >= copies[s] /\ copies'[s] <= 1 + faults
      /\ \A e \in OfTable(table) : copies'[e.seq] >= 1
      /\ \A e \in Batch : e.table # table => copies'[e.seq] = copies[e.seq]
  BY <1>2, AppendPaid
<1>4. SinkTypeOK'
  BY <1>2, <1>3 DEF SinkTypeOK, Phase
<1>5. FlushShape'
  BY <1>1 DEF SinkInv, FlushShape, AtStatement
<1>6. StreamOrder' /\ NothingNewer'
  BY <1>1, <1>3 DEF SinkInv, StreamOrder, NothingNewer
<1>7. Written' = TablesOf \ todo /\ Written = TablesOf \ (todo \cup {table})
  BY <1>1, <1>2 DEF Written, AtStatement
<1>8. Progress'
  <2>1. ASSUME NEW e \in Batch, e.table \in Written'
        PROVE  copies'[e.seq] >= 1 /\ Settled(e)'
    <3>1. Settled(e)
      <4>1. CASE e.table = table
        <5>1. e \in Upserts(table) \/ e \in Deletes(table)
          BY <1>2, <4>1, BatchType DEF Upserts, Deletes, Event
        <5>2. dels = {}
          BY DEF SinkInv, FlushShape
        <5> QED
          BY <5>1, <5>2 DEF SinkInv, Progress
      <4>2. CASE e.table # table
        BY <1>7, <2>1, <4>2 DEF SinkInv, Progress
      <4> QED
        BY <4>1, <4>2
    <3>2. Settled(e)'
      BY <1>1, <1>3, <3>1 DEF Settled
    <3>3. copies'[e.seq] >= 1
      <4>1. CASE e.table = table
        BY <1>3, <4>1 DEF OfTable
      <4>2. CASE e.table # table
        BY <1>3, <1>7, <2>1, <4>2 DEF SinkInv, Progress
      <4> QED
        BY <4>1, <4>2
    <3> QED
      BY <3>2, <3>3
  <2> QED
    BY <1>1, <2>1 DEF Progress
<1>9. CopiesPaid'
  <2>1. ASSUME NEW e \in Batch, copies'[e.seq] > faults
        PROVE  e.table \in Written'
    BY <1>2, <1>3, <1>7, <2>1 DEF SinkInv, CopiesPaid
  <2> QED
    BY <1>1, <1>3, <2>1 DEF CopiesPaid
<1> QED
  BY <1>4, <1>5, <1>6, <1>8, <1>9 DEF SinkInv

LEMMA ConfirmInv == ASSUME SinkInv, Confirm PROVE SinkInv'
<1> USE DEF Confirm, Finish, warehouse
<1>1. SinkTypeOK /\ Batch \subseteq Event
  BY BatchType DEF SinkInv
<1>2. Batch' = {}
  BY RangeEmpty DEF Batch
<1>3. confirmed' \in 0..MaxTx
  BY <1>1, WarehouseAssumption DEF Event
<1>4. SinkTypeOK'
  BY <1>1, <1>3, SinkAssumption DEF SinkTypeOK, Phase
<1>5. FlushShape'
  BY DEF FlushShape, AtStatement
<1>6. StreamOrder' /\ NothingNewer' /\ Progress' /\ CopiesPaid'
  BY <1>2 DEF SinkInv, StreamOrder, NothingNewer, Progress, CopiesPaid
<1> QED
  BY <1>4, <1>5, <1>6 DEF SinkInv

\* A failed attempt leaves nothing half-remembered, and has paid for its copies.
LEMMA EndAttemptInv ==
    ASSUME SinkInv, phase # "idle", EndAttempt,
           current' \in [Table -> [Key -> Cell]],
           \A t \in Table, k \in Key : current'[t][k].ver <= cursor,
           NothingNewer',
           copies' \in [Seqs -> Nat],
           \A s \in Seqs : s > cursor => copies'[s] = 0,
           faults' \in 0..MaxFaults,
           \A s \in Seqs : copies'[s] <= 1 + faults',
           \A e \in Batch : copies'[e.seq] <= faults'
    PROVE  SinkInv'
<1> USE DEF EndAttempt
<1>1. Batch' = Batch /\ Batch \subseteq Event /\ SinkTypeOK
  BY BatchType DEF Batch, SinkInv
<1>2. /\ phase' \in {"idle", "attempt"}
      /\ tries' \in 0..MaxRetries
      /\ phase' # "idle" => tries' \in 1..MaxRetries
      /\ conn' \in {"none", "good", "bad"}
      /\ result' \in {"ok", "raised"}
  BY <1>1, SinkAssumption DEF SinkTypeOK
<1>3. SinkTypeOK'
  BY <1>1, <1>2 DEF SinkTypeOK, Phase
<1>4. FlushShape'
  BY <1>2 DEF SinkInv, FlushShape, AtStatement
<1>5. StreamOrder'
  BY <1>1 DEF SinkInv, StreamOrder
<1>6. Progress'
  BY <1>2 DEF Progress, Written, AtStatement
<1>7. CopiesPaid'
  <2>1. \A e \in Batch : copies'[e.seq] \in Nat /\ faults' \in Nat
    BY <1>1, SinkAssumption DEF Event
  <2>2. \A e \in Batch' : ~(copies'[e.seq] > faults')
    BY <1>1, <2>1
  <2> QED
    BY <2>2 DEF CopiesPaid
<1> QED
  BY <1>3, <1>4, <1>5, <1>6, <1>7 DEF SinkInv

\* What the failure lemmas need to know of the warehouse they start from.
LEMMA BeforeFailure ==
    ASSUME SinkInv
    PROVE  /\ current \in [Table -> [Key -> Cell]]
           /\ \A t \in Table, k \in Key : current[t][k].ver <= cursor
           /\ copies \in [Seqs -> Nat]
           /\ \A s \in Seqs : s > cursor => copies[s] = 0
           /\ faults \in Nat /\ MaxFaults \in Nat
           /\ \A s \in Seqs : copies[s] \in Nat /\ copies[s] <= 1 + faults
           /\ \A e \in Batch : e.seq \in Seqs
           /\ Written = {} \/ conn = "bad" => \A e \in Batch : copies[e.seq] <= faults
<1>1. SinkTypeOK /\ Batch \subseteq Event
  BY BatchType DEF SinkInv
<1>2. \A e \in Batch : e.seq \in Seqs
  BY <1>1 DEF Event
<1>3. faults \in Nat /\ MaxFaults \in Nat
  BY <1>1, SinkAssumption DEF SinkTypeOK
<1>4. \A s \in Seqs : copies[s] \in Nat /\ copies[s] <= 1 + faults
  BY <1>1 DEF SinkInv, CopiesPaid, SinkTypeOK
<1>5. ASSUME Written = {} \/ conn = "bad", NEW e \in Batch
      PROVE  copies[e.seq] <= faults
  BY <1>2, <1>3, <1>4, <1>5 DEF SinkInv, CopiesPaid
<1> QED
  BY <1>1, <1>2, <1>3, <1>4, <1>5 DEF SinkInv, SinkTypeOK, StreamOrder

LEMMA ConnectFailsInv == ASSUME SinkInv, ConnectFails PROVE SinkInv'
<1> USE DEF ConnectFails, Fault, warehouse
<1>1. Written = {}
  BY DEF Written, AtStatement
<1>2. Batch' = Batch
  BY DEF EndAttempt, Batch
<1>3. NothingNewer'
  BY <1>2 DEF SinkInv, NothingNewer
<1>4. faults' = faults + 1 /\ faults' \in 0..MaxFaults
  BY BeforeFailure
<1>5. /\ \A s \in Seqs : copies'[s] <= 1 + faults'
      /\ \A e \in Batch : copies'[e.seq] <= faults'
  BY <1>4, BeforeFailure
<1> QED
  BY <1>3, <1>4, <1>5, BeforeFailure, EndAttemptInv

LEMMA StatementFailsInv == ASSUME SinkInv, StatementFails PROVE SinkInv'
<1> USE DEF StatementFails, Fault, warehouse
<1>1. Batch' = Batch /\ phase # "idle"
  BY DEF EndAttempt, Batch, AtStatement
<1>2. NothingNewer'
  BY <1>1 DEF SinkInv, NothingNewer
<1>3. CASE conn = "bad"
  <2>1. faults' = faults /\ faults' \in 0..MaxFaults
    BY <1>3 DEF SinkInv, SinkTypeOK
  <2>2. /\ \A s \in Seqs : copies'[s] <= 1 + faults'
        /\ \A e \in Batch : copies'[e.seq] <= faults'
    BY <1>3, <2>1, BeforeFailure
  <2> QED
    BY <1>1, <1>2, <2>1, <2>2, BeforeFailure, EndAttemptInv
<1>4. CASE conn # "bad"
  <2>1. faults' = faults + 1 /\ faults' \in 0..MaxFaults
    BY <1>4, BeforeFailure
  <2>2. /\ \A s \in Seqs : copies'[s] <= 1 + faults'
        /\ \A e \in Batch : copies'[e.seq] <= faults'
    BY <2>1, BeforeFailure
  <2> QED
    BY <1>1, <1>2, <2>1, <2>2, BeforeFailure, EndAttemptInv
<1> QED
  BY <1>3, <1>4

\* A statement that took effect, whether its answer arrived or not: on the rows of
\* the batch, or in the audit trail.
LEMMA StatementEffect ==
    ASSUME SinkInv, UNCHANGED <<buffer, cursor>>,
           \/ phase = "merge" /\ Merge(table, Upserts(table))
           \/ phase = "delete" /\ \E e \in dels : Delete(e)
           \/ phase = "history" /\ AppendHistory(OfTable(table))
    PROVE  /\ current' \in [Table -> [Key -> Cell]]
           /\ \A t \in Table, k \in Key : current'[t][k].ver <= cursor
           /\ NothingNewer'
           /\ copies' \in [Seqs -> Nat]
           /\ \A s \in Seqs : s > cursor => copies'[s] = 0
           /\ \A s \in Seqs : copies'[s] <= 1 + faults
           /\ \A t \in Table, k \in Key :
                 current'[t][k].ver < current[t][k].ver =>
                    \E e \in Batch : e.seq = current[t][k].ver
<1>1. SinkTypeOK /\ Batch \subseteq Event /\ Batch' = Batch
  BY BatchType DEF SinkInv, Batch
<1>2. ASSUME NEW rows \in SUBSET Batch, Touches(rows), copies' = copies,
             current' \in [Table -> [Key -> Cell]]
      PROVE  /\ \A t \in Table, k \in Key : current'[t][k].ver <= cursor
             /\ NothingNewer'
             /\ \A t \in Table, k \in Key :
                   current'[t][k].ver < current[t][k].ver =>
                      \E e \in Batch : e.seq = current[t][k].ver
  BY <1>2, <1>1, TouchSettles DEF SinkInv
<1>3. CASE phase = "merge" /\ Merge(table, Upserts(table))
  <2>1. table \in Table /\ Upserts(table) \subseteq Batch
    BY <1>1, <1>3, BatchType DEF SinkInv, FlushShape, AtStatement
  <2>2. \A e \in Upserts(table) : e.table = table
    BY DEF Upserts
  <2>3. /\ current' \in [Table -> [Key -> Cell]]
        /\ Touches(Upserts(table))
        /\ copies' = copies
    BY <1>1, <1>3, <2>1, <2>2, MergeTouches DEF SinkTypeOK
  <2> QED
    BY <1>2, <2>1, <2>3, BeforeFailure
<1>4. CASE phase = "delete" /\ \E e \in dels : Delete(e)
  <2>1. PICK d \in dels : Delete(d)
    BY <1>4
  <2>2. d \in Batch /\ {d} \subseteq Batch
    BY <1>1, <1>4, <2>1 DEF SinkInv, FlushShape, Deletes
  <2>3. /\ current' \in [Table -> [Key -> Cell]]
        /\ Touches({d})
        /\ copies' = copies
    BY <1>1, <2>1, <2>2, DeleteTouches DEF SinkTypeOK
  <2> QED
    BY <1>2, <2>2, <2>3, BeforeFailure
<1>5. CASE phase = "history" /\ AppendHistory(OfTable(table))
  <2>1. /\ copies' \in [Seqs -> Nat]
        /\ current' = current
        /\ \A s \in Seqs : s > cursor => copies'[s] = 0
        /\ \A s \in Seqs : copies'[s] <= 1 + faults
    BY <1>5, AppendPaid DEF AtStatement
  <2>2. NothingNewer'
    BY <1>1, <2>1 DEF SinkInv, NothingNewer
  <2>3. \A t \in Table, k \in Key : current[t][k].ver \in Nat
    BY <1>1, WarehouseAssumption DEF SinkTypeOK, Cell
  <2> QED
    BY <2>1, <2>2, <2>3, BeforeFailure
<1> QED
  BY <1>3, <1>4, <1>5

LEMMA ReplyLostInv == ASSUME SinkInv, ReplyLost PROVE SinkInv'
<1> USE DEF ReplyLost, Fault
<1>1. /\ UNCHANGED <<buffer, cursor>>
      /\ phase # "idle"
      /\ \/ phase = "merge" /\ Merge(table, Upserts(table))
         \/ phase = "delete" /\ \E e \in dels : Delete(e)
         \/ phase = "history" /\ AppendHistory(OfTable(table))
  BY DEF EndAttempt, AtStatement
<1>2. /\ current' \in [Table -> [Key -> Cell]]
      /\ \A t \in Table, k \in Key : current'[t][k].ver <= cursor
      /\ NothingNewer'
      /\ copies' \in [Seqs -> Nat]
      /\ \A s \in Seqs : s > cursor => copies'[s] = 0
      /\ \A s \in Seqs : copies'[s] <= 1 + faults
  BY <1>1, StatementEffect
<1>3. faults' = faults + 1 /\ faults' \in 0..MaxFaults
  BY BeforeFailure
<1>4. /\ \A s \in Seqs : copies'[s] <= 1 + faults'
      /\ \A e \in Batch : copies'[e.seq] <= faults'
  BY <1>2, <1>3, BeforeFailure
<1> QED
  BY <1>1, <1>2, <1>3, <1>4, EndAttemptInv

LEMMA ConnDropInv == ASSUME SinkInv, ConnDrop PROVE SinkInv'
<1> USE DEF ConnDrop, Fault, warehouse
<1>1. Batch' = Batch /\ TablesOf' = TablesOf /\ \A u : /\ Deletes(u)' = Deletes(u)
                                                     /\ Upserts(u)' = Upserts(u)
  BY DEF Batch, TablesOf, Deletes, Upserts
<1>2. faults' = faults + 1 /\ faults' \in 0..MaxFaults
  BY BeforeFailure
<1>3. SinkTypeOK'
  BY <1>2 DEF SinkInv, SinkTypeOK
<1>4. FlushShape'
  BY <1>1 DEF SinkInv, FlushShape, AtStatement
<1>5. StreamOrder' /\ NothingNewer'
  BY <1>1 DEF SinkInv, StreamOrder, NothingNewer
<1>6. Progress'
  BY <1>1 DEF SinkInv, Progress, Written, AtStatement, Settled
<1>7. CopiesPaid'
  <2>1. \A s \in Seqs : copies'[s] <= 1 + faults'
    BY <1>2, BeforeFailure
  <2>2. \A e \in Batch' : ~(copies'[e.seq] > faults')
    BY <1>1, <1>2, BeforeFailure
  <2> QED
    BY <2>1, <2>2 DEF CopiesPaid
<1> QED
  BY <1>3, <1>4, <1>5, <1>6, <1>7 DEF SinkInv

LEMMA RestartInv == ASSUME SinkInv, NEW n \in 0..MaxSeq, Restart(n) PROVE SinkInv'
<1> USE DEF Restart, warehouse
<1>1. Batch' = {}
  BY RangeEmpty DEF Batch
<1>2. n \in Nat /\ cursor \in Nat /\ n >= cursor
  BY WarehouseAssumption DEF SinkInv, SinkTypeOK
<1>3. SinkTypeOK'
  BY WarehouseAssumption, SinkAssumption DEF SinkInv, SinkTypeOK, Phase
<1>4. FlushShape'
  BY DEF FlushShape, AtStatement
<1>5. StreamOrder'
  <2>1. \A t \in Table, k \in Key : current[t][k].ver \in Nat
    BY WarehouseAssumption DEF SinkInv, SinkTypeOK, Cell
  <2>2. \A s \in Seqs : s \in Nat
    BY WarehouseAssumption DEF Seqs
  <2> QED
    BY <1>1, <1>2, <2>1, <2>2 DEF SinkInv, StreamOrder
<1>6. Progress' /\ NothingNewer'
  BY <1>1 DEF Progress, NothingNewer
<1>7. CopiesPaid'
  BY <1>1 DEF SinkInv, CopiesPaid
<1> QED
  BY <1>3, <1>4, <1>5, <1>6, <1>7 DEF SinkInv

LEMMA SkipInv == ASSUME SinkInv, NEW n \in Seqs, Skip(n) PROVE SinkInv'
<1> USE DEF Skip, warehouse
<1>1. Batch' = Batch
  BY DEF Batch
<1>2. n \in 0..MaxSeq /\ n \in Nat /\ cursor \in Nat /\ n > cursor
  BY WarehouseAssumption DEF SinkInv, SinkTypeOK, Seqs
<1>3. SinkTypeOK'
  BY <1>2 DEF SinkInv, SinkTypeOK
<1>4. FlushShape'
  BY DEF SinkInv, FlushShape, AtStatement
<1>5. StreamOrder'
  <2>1. \A t \in Table, k \in Key : current[t][k].ver \in Nat
    BY WarehouseAssumption DEF SinkInv, SinkTypeOK, Cell
  <2>2. \A e \in Batch : e.seq \in Nat
    BY BatchType, WarehouseAssumption DEF SinkInv, Event, Seqs
  <2>3. \A s \in Seqs : s \in Nat
    BY WarehouseAssumption DEF Seqs
  <2>4. /\ \A e \in Batch : e.seq <= cursor /\ e.seq <= n
        /\ \A t \in Table, k \in Key : current[t][k].ver <= n
        /\ \A s \in Seqs : s > n => copies[s] = 0
    BY <1>2, <2>1, <2>2, <2>3 DEF SinkInv, StreamOrder
  <2>5. cursor' = n /\ UNCHANGED <<current, copies>>
    OBVIOUS
  <2> QED
    BY <1>1, <2>4, <2>5 DEF SinkInv, StreamOrder
<1>6. Progress'
  BY <1>1 DEF SinkInv, Progress, Written, AtStatement, Settled
<1>7. NothingNewer' /\ CopiesPaid'
  BY <1>1 DEF SinkInv, NothingNewer, CopiesPaid, Written, AtStatement
<1> QED
  BY <1>3, <1>4, <1>5, <1>6, <1>7 DEF SinkInv

LEMMA StutterInv == ASSUME SinkInv, UNCHANGED sinkVars PROVE SinkInv'
<1> USE DEF sinkVars
<1>1. Batch' = Batch /\ TablesOf' = TablesOf /\ \A u : /\ Deletes(u)' = Deletes(u)
                                                     /\ Upserts(u)' = Upserts(u)
  BY DEF Batch, TablesOf, Deletes, Upserts
<1>2. SinkTypeOK'
  BY DEF SinkInv, SinkTypeOK
<1>3. FlushShape'
  BY <1>1 DEF SinkInv, FlushShape, AtStatement
<1>4. StreamOrder' /\ NothingNewer'
  BY <1>1 DEF SinkInv, StreamOrder, NothingNewer
<1>5. Written' = Written
  BY <1>1 DEF Written, AtStatement
<1>6. Progress'
  BY <1>1, <1>5 DEF SinkInv, Progress, Settled
<1>7. CopiesPaid'
  BY <1>1, <1>5 DEF SinkInv, CopiesPaid
<1> QED
  BY <1>2, <1>3, <1>4, <1>6, <1>7 DEF SinkInv

\* Every step of the sink and of its callers preserves the invariant.
LEMMA NextInv == ASSUME SinkInv, [SinkNext]_sinkVars PROVE SinkInv'
<1>1. CASE Caller
  BY <1>1, PublishInv, FlushInv, SkipInv, RestartInv DEF Caller
<1>2. CASE Write
  BY <1>2, ConnectInv, NextTableInv, MergeCurrentInv, DeleteCurrentInv, InsertHistoryInv,
     ConfirmInv DEF Write
<1>3. CASE Failure
  BY <1>3, ConnectFailsInv, StatementFailsInv, ReplyLostInv, ConnDropInv DEF Failure
<1>4. CASE UNCHANGED sinkVars
  BY <1>4, StutterInv
<1> QED
  BY <1>1, <1>2, <1>3, <1>4 DEF SinkNext

\* The inductive invariant of the sink holds in every reachable state.
THEOREM SinkInvariant == SinkSpec => []SinkInv
<1>1. SinkInit => SinkInv
  BY InitInv
<1>2. SinkInv /\ [SinkNext]_sinkVars => SinkInv'
  BY NextInv
<1> QED
  BY <1>1, <1>2, PTL DEF SinkSpec

-----------------------------------------------------------------------------
(* The theorems.                                                           *)

\* Type correctness of the sink and of the warehouse it writes.
THEOREM SinkTypeCorrect == SinkSpec => []SinkTypeOK
<1>1. SinkInv => SinkTypeOK
  BY DEF SinkInv
<1> QED
  BY <1>1, SinkInvariant, PTL

\* _flush drops its buffer only when every change in it has its audit row and a
\* settled current-state row, however many attempts failed half-way.
THEOREM FlushIsComplete == SinkSpec => []BatchWritten
<1>1. SinkInv => BatchWritten
  <2> SUFFICES ASSUME SinkInv, phase = "confirm", NEW e \in Batch
               PROVE  copies[e.seq] >= 1 /\ Settled(e)
    BY DEF BatchWritten
  <2>1. e.table \in Written
    BY DEF Written, AtStatement, TablesOf
  <2> QED
    BY <2>1 DEF SinkInv, Progress
<1> QED
  BY <1>1, SinkInvariant, PTL

\* Retries write an audit row twice only when a failure made them.
THEOREM DuplicatesArePaid == SinkSpec => []DuplicatesNeedFailure
<1>1. SinkInv => DuplicatesNeedFailure
  BY DEF SinkInv, CopiesPaid, DuplicatesNeedFailure
<1> QED
  BY <1>1, SinkInvariant, PTL

\* No cell goes back in a step unless the change it showed is still buffered.
LEMMA StepNeverUndoes ==
    ASSUME SinkInv, [SinkNext]_sinkVars, NEW t \in Table, NEW k \in Key,
           current'[t][k].ver < current[t][k].ver
    PROVE  \E e \in Batch : e.seq = current[t][k].ver
<1>1. current[t][k].ver \in Nat
  BY WarehouseAssumption DEF SinkInv, SinkTypeOK, Cell
<1>2. CASE UNCHANGED current
  BY <1>1, <1>2
<1>3. CASE MergeCurrent
  <2>1. phase = "merge" /\ Merge(table, Upserts(table)) /\ UNCHANGED <<buffer, cursor>>
    BY <1>3 DEF MergeCurrent
  <2> QED
    BY <2>1, StatementEffect
<1>4. CASE DeleteCurrent
  <2>1. phase = "delete" /\ (\E e \in dels : Delete(e)) /\ UNCHANGED <<buffer, cursor>>
    BY <1>4 DEF DeleteCurrent
  <2> QED
    BY <2>1, StatementEffect
<1>5. CASE ReplyLost
  <2>1. /\ UNCHANGED <<buffer, cursor>>
        /\ \/ phase = "merge" /\ Merge(table, Upserts(table))
           \/ phase = "delete" /\ \E e \in dels : Delete(e)
           \/ phase = "history" /\ AppendHistory(OfTable(table))
    BY <1>5 DEF ReplyLost, EndAttempt
  <2> QED
    BY <2>1, StatementEffect
<1>6. \/ UNCHANGED current
      \/ MergeCurrent \/ DeleteCurrent \/ ReplyLost
  <2>1. CASE Caller
    BY <2>1 DEF Caller, Publish, Flush, Skip, Restart, warehouse
  <2>2. CASE Write
    BY <2>2 DEF Write, Connect, NextTable, InsertHistory, AppendHistory, Confirm, Finish, warehouse
  <2>3. CASE Failure
    BY <2>3 DEF Failure, ConnectFails, StatementFails, ConnDrop, warehouse
  <2>4. CASE UNCHANGED sinkVars
    BY <2>4 DEF sinkVars
  <2> QED
    BY <2>1, <2>2, <2>3, <2>4 DEF SinkNext
<1> QED
  BY <1>2, <1>3, <1>4, <1>5, <1>6

\* What an earlier flush finished with is never undone by a later one or by a retry.
THEOREM NothingIsUndone == SinkSpec => NoStaleOverwrite
<1> DEFINE Undo == \A t \in Table, k \in Key :
                      current'[t][k].ver < current[t][k].ver =>
                          \E e \in Batch : e.seq = current[t][k].ver
<1>1. SinkInv /\ [SinkNext]_sinkVars => [Undo]_sinkVars
  BY StepNeverUndoes
<1> QED
  BY <1>1, SinkInvariant, PTL DEF SinkSpec, NoStaleOverwrite
==============================================================================
