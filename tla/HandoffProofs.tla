----------------------------- MODULE HandoffProofs -----------------------------
(***************************************************************************)
(* Proofs about the initial load: backfill, stream and reconcile.          *)
(***************************************************************************)
EXTENDS Handoff, FiniteSetTheorems, WellFoundedInduction, TLAPS

InTable == pc \notin {"off", "table"}

(***************************************************************************)
(* Types, and what they rest on: the indices of the tables point at one    *)
(* while it is worked on, a page in work is not empty, what the slot holds *)
(* was captured, and what reconcile does is done beside a stream.          *)
(***************************************************************************)
ControlOK ==
    /\ InTable => at \in DOMAIN Tables
    /\ pc = "insert" => page # {}
    /\ pc # "insert" => page = {}
    /\ Len(pending) <= clock
    /\ rc = "merge" => rcAt \in DOMAIN Tables
    /\ rc # "todo" => streaming

(* A key has one row, in the source and in a page. *)
Keyed(rows) == \A r, s \in rows : KeyOf(r) = KeyOf(s) => r = s

RowsKeyed == Keyed(page) /\ \A t \in Tbl : Keyed(source[t])

(* The file and the checkpoint in memory; reconcile is run when all is loaded. *)
FileOK ==
    /\ InTable => ~ cp.done[Tables[at]] \/ pc \in {"save", "dump"}
    /\ InTable => cp.last[Tables[at]] = last
    /\ pc = "truncate" => last = 0
    /\ pc \in {"table", "truncate", "select", "insert"} /\ file.state = "saved" => file.cp = cp
    /\ pc = "save" /\ file.state = "saved" => ~ file.cp.done[Tables[at]]
    /\ pc = "dump" => file.state = "torn"
    /\ rc # "todo" => AllDone
    /\ pending # <<>> => streaming

(* What a run that resumes from checkpoint c will insert has not been inserted before,
   but for the runs that broke off behind it. *)
Ahead(c, t) ==
    ~ c.done[t] /\ c.last[t] > 0 =>
        \A k \in PrimaryKey : k.id > c.last[t] => Len(target[t][k]) <= crashes

(* The same of the table in work: of the page only what is left of it counts. *)
AheadInWork ==
    /\ pc = "insert" => \A r \in page : r.id > last
    /\ \A k \in PrimaryKey :
        /\ pc \in {"select", "save", "dump"} /\ ~ cp.done[Tables[at]] /\ k.id > last
              => Len(target[Tables[at]][k]) <= crashes
        /\ pc = "insert" /\ k.id > last
              /\ (k \in KeysOf(page) \/ \A r \in page : r.id < k.id)
              => Len(target[Tables[at]][k]) <= crashes

CopiesInv ==
    /\ CopiesNeedCrash
    /\ pc = "off" /\ file.state = "saved" => \A t \in Tbl : Ahead(file.cp, t)
    /\ pc # "off" => \A t \in Tbl : ~ (InTable /\ t = Tables[at]) => Ahead(cp, t)
    /\ AheadInWork

(* Of the keys K, no row shares its id with another row of its table (the pages are cut by
   the id alone). *)
IdsUnique(K) ==
    \A t \in Tbl : \A r, s \in source[t] : KeyOf(r) \in K /\ r.id = s.id => r = s

(* What checkpoint c says is loaded is loaded: of the keys K and the given rows, in the given
   warehouse. *)
HonestAt(K, c, rows, warehouse) ==
    \A t \in Tbl, k \in K :
        <<t, k>> \in rows /\ (c.done[t] \/ k.id <= c.last[t]) => warehouse[t][k] # <<>>

(* A page in work passes over no row; what the slot deletes was deleted. *)
HonestInv(K) ==
    /\ \A t \in Tbl, k \in PrimaryKey : <<t, k>> \in stable => k \in KeysOf(source[t])
    /\ file.state = "saved" => HonestAt(K, file.cp, stable, target)
    /\ pc # "off" => HonestAt(K, cp, stable, target)
    /\ pc = "insert" =>
          \A r \in page, k \in K :
              <<Tables[at], k>> \in stable /\ k.id <= r.id
                 => Loaded(Tables[at], k) \/ k \in KeysOf(page)
    /\ \A i \in DOMAIN pending :
          ~ pending[i].live => <<pending[i].table, pending[i].key>> \notin stable

About(c, t, k) == c.table = t /\ c.key = k
Awaited(t, k) == \E i \in DOMAIN pending : About(pending[i], t, k)

(* A row that did not change since the beginning: neither load nor stream nor reconcile
   has anything else under its key. *)
Untouched(t, r) ==
    /\ <<t, KeyOf(r)>> \in stable
    /\ \A i \in DOMAIN target[t][KeyOf(r)] : target[t][KeyOf(r)][i] = 0
    /\ pc = "insert" /\ t = Tables[at] => \A q \in page : KeyOf(q) = KeyOf(r) => q.ver = 0
    /\ ~ Awaited(t, KeyOf(r))
    /\ rc = "merge" /\ t = Tables[rcAt] => KeyOf(r) \notin KeysOf(result)

UntouchedInv == \A t \in Tbl : \A r \in source[t] : r.ver = 0 => Untouched(t, r)

(* The last change of a row that the slot holds is the row. *)
LastAbout(i, t, k) ==
    About(pending[i], t, k) /\ \A j \in DOMAIN pending : j > i => ~ About(pending[j], t, k)

LastIsRow ==
    \A t \in Tbl : \A r \in source[t] : \A i \in DOMAIN pending :
        LastAbout(i, t, KeyOf(r)) => pending[i].live /\ pending[i].ver = r.ver

(* Reconcile has still to read row r of table t, or to merge it. *)
ToDo(t, r) ==
    \/ rc = "todo"
    \/ rc = "read" /\ \E i \in DOMAIN Tables : i >= rcAt /\ t = Tables[i]
    \/ rc = "merge" /\ \E i \in DOMAIN Tables : i > rcAt /\ t = Tables[i]
    \/ rc = "merge" /\ t = Tables[rcAt] /\ r \in result

(* What reconcile has read is no newer than the source. *)
NoneNewer ==
    /\ \A t \in Tbl : \A r \in source[t] : r.ver <= clock
    /\ \A q \in result : q.ver <= clock
    /\ rc = "merge" =>
          \A r \in source[Tables[rcAt]], q \in result : KeyOf(q) = KeyOf(r) => q.ver <= r.ver

(* A row that changed: the slot holds it, or the stream overtook reconcile with it, or the
   warehouse shows it or reconcile brings it, and reconcile brings no older one. *)
ChangedInv ==
    /\ LastIsRow
    /\ rc = "merge" => Keyed(result)
    /\ \A t \in Tbl : \A r \in source[t] :
          ~ Awaited(t, KeyOf(r)) /\ <<t, KeyOf(r)>> \notin overtaken =>
              /\ r.ver > 0 => Shows(t, r) \/ ToDo(t, r)
              /\ rc = "merge" /\ t = Tables[rcAt]
                    => \A q \in result : KeyOf(q) = KeyOf(r) => q = r
-----------------------------------------------------------------------------
(* The operators of the scripts.                                           *)

LEMMA LargestOf ==
    ASSUME NEW S \in SUBSET (0..MaxId), S # {}
    PROVE  Max(S) \in S /\ \A x \in S : Max(S) >= x
<1> DEFINE up == [x \in S |-> {y \in S : y >= x}]
           T == {up[x] : x \in S}
           R == StrictSubsetOrdering(S)
<1>0. MaxId \in Nat /\ S \subseteq Int
      BY BackfillAssumption
<1>1. IsFiniteSet(S)
  <2>1. IsFiniteSet(0..MaxId)
        BY <1>0, FS_Interval
  <2>2. QED
        BY <2>1, FS_Subset
<1>2. IsWellFoundedOn(R, FiniteSubsetsOf(S))
      BY FS_StrictSubsetOrderingWellFounded
<1>3. up \in [S -> SUBSET S]
      OBVIOUS
<1>4. T \subseteq FiniteSubsetsOf(S) /\ T # {}
  <2>1. FiniteSubsetsOf(S) = SUBSET S
        BY <1>1, FS_FiniteSubsetsOfFinite
  <2> HIDE DEF up
  <2>2. \A x \in S : up[x] \in SUBSET S
        BY <1>3
  <2>3. T # {}
        BY DEF T
  <2>4. QED
        BY <2>1, <2>2, <2>3
<1> HIDE DEF T, R
<1>5. \E m \in T : \A y \in T : ~ (<<y, m>> \in R)
      BY <1>2, <1>4, WFMin
<1>6. PICK x \in S : \A y \in S : ~ (<<up[y], up[x]>> \in R)
      BY <1>5 DEF T
<1>7. ASSUME NEW y \in S, ~ (x >= y)
      PROVE  FALSE
  <2>0. x \in Int /\ \A z \in S : z \in Int
        BY <1>0
  <2>1. up[y] \subseteq up[x] /\ x \in up[x] /\ x \notin up[y]
    <3>1. up[y] = {z \in S : z >= y} /\ up[x] = {z \in S : z >= x}
          OBVIOUS
    <3> HIDE DEF up
    <3>2. \A z \in S : z >= y => z >= x
          BY <1>7, <2>0
    <3>3. x >= x
          BY <2>0
    <3>4. QED
          BY <1>7, <3>1, <3>2, <3>3
  <2> HIDE DEF up
  <2>2. <<up[y], up[x]>> \in R
        BY <1>3, <2>1 DEF R, StrictSubsetOrdering
  <2>3. QED
        BY <1>6, <2>2
<1>8. QED
      BY <1>7 DEF Max

LEMMA RowsFinite == IsFiniteSet(Row)
<1> USE BackfillAssumption
<1> DEFINE T == ((1..MaxId) \X Tenant) \X (0..MaxChanges)
           f == [r \in Row |-> << <<r.id, r.tenant>>, r.ver >>]
<1>1. IsFiniteSet(1..MaxId) /\ IsFiniteSet(0..MaxChanges)
      BY FS_Interval
<1>2. IsFiniteSet((1..MaxId) \X Tenant)
      BY <1>1, FS_Product
<1>3. IsFiniteSet(T)
      BY <1>1, <1>2, FS_Product
<1>4. f \in [Row -> T]
      BY DEF Row
<1>5. \A r, s \in Row : f[r] = f[s] => r = s
      BY DEF Row
<1>6. f \in Injection(Row, T)
      BY <1>4, <1>5 DEF Injection, IsInjective
<1>7. QED
      BY <1>3, <1>6, FS_Injection

LEMMA LowestOf ==
    ASSUME NEW rows \in SUBSET Row, rows # {}, NEW n \in Nat \ {0}, NEW s \in Lowest(n, rows)
    PROVE  /\ s \subseteq rows /\ s # {}
           /\ \A r \in s, q \in rows \ s : r.id <= q.id
<1>1. IsFiniteSet(rows)
      BY RowsFinite, FS_Subset
<1>2. Cardinality(rows) \in Nat \ {0}
      BY <1>1, FS_CardinalityType, FS_EmptySet
<1>3. s \in SUBSET rows /\ Cardinality(s) # 0
      BY <1>2 DEF Lowest, kSubset
<1>4. s # {}
      BY <1>3, FS_EmptySet
<1>5. QED
      BY <1>3, <1>4 DEF Lowest

Versions == Seq(0..MaxChanges)

LEMMA KeyType == \A r \in Row : KeyOf(r) \in PrimaryKey /\ KeyOf(r).id = r.id
BY DEF Row, PrimaryKey, KeyOf

LEMMA InsertedOf ==
    ASSUME NEW t \in Tbl, target[t] \in [PrimaryKey -> Versions], NEW rows \in SUBSET Row
    PROVE  /\ Inserted(t, rows) \in [PrimaryKey -> Versions]
           /\ \A k \in PrimaryKey :
                 Len(Inserted(t, rows)[k]) =
                    Len(target[t][k]) + IF k \in KeysOf(rows) THEN 1 ELSE 0
<1>1. ASSUME NEW k \in PrimaryKey, k \in KeysOf(rows)
      PROVE  (CHOOSE r \in rows : KeyOf(r) = k).ver \in 0..MaxChanges
  <2>1. \E r \in rows : KeyOf(r) = k
        BY <1>1 DEF KeysOf
  <2>2. (CHOOSE r \in rows : KeyOf(r) = k) \in rows
        BY <2>1
  <2>3. QED
        BY <2>2 DEF Row
<1>2. ASSUME NEW k \in PrimaryKey
      PROVE  /\ Inserted(t, rows)[k] \in Versions
             /\ Len(Inserted(t, rows)[k]) = Len(target[t][k]) + IF k \in KeysOf(rows) THEN 1 ELSE 0
  <2>1. target[t][k] \in Versions
        OBVIOUS
  <2>2. CASE k \in KeysOf(rows)
    <3> DEFINE v == (CHOOSE r \in rows : KeyOf(r) = k).ver
    <3>1. v \in 0..MaxChanges
          BY <1>1, <2>2
    <3>2. Inserted(t, rows)[k] = Append(target[t][k], v)
          BY <2>2 DEF Inserted
    <3> HIDE DEF v
    <3>3. QED
          BY <2>1, <2>2, <3>1, <3>2 DEF Versions
  <2>3. CASE k \notin KeysOf(rows)
        BY <2>1, <2>3 DEF Inserted, Versions
  <2>4. QED
        BY <2>2, <2>3
<1>3. Inserted(t, rows) = [k \in PrimaryKey |-> Inserted(t, rows)[k]]
      BY DEF Inserted
<1>4. QED
      BY <1>2, <1>3

LEMMA MergedOf ==
    ASSUME NEW vs \in Versions, NEW v \in 0..MaxChanges
    PROVE  /\ Merged(vs, v) \in Versions
           /\ Len(Merged(vs, v)) <= IF vs = <<>> THEN 1 ELSE Len(vs)
<1>1. CASE vs = <<>>
      BY <1>1 DEF Merged, Versions
<1>2. CASE vs # <<>>
  <2>1. DOMAIN vs = 1..Len(vs) /\ Len(vs) \in Nat
        BY DEF Versions
  <2>2. [i \in 1..Len(vs) |-> v] \in Versions /\ Len([i \in 1..Len(vs) |-> v]) = Len(vs)
        BY <2>1 DEF Versions
  <2>3. QED
        BY <1>2, <2>1, <2>2 DEF Merged
<1>3. QED
      BY <1>1, <1>2
-----------------------------------------------------------------------------
(* Types.                                                                  *)

TypeInv == HandoffTypeOK /\ ControlOK

LEMMA TypeInit == HandoffInit => TypeInv
<1> SUFFICES ASSUME HandoffInit PROVE TypeInv
    OBVIOUS
<1> USE BackfillAssumption DEF HandoffInit, BackfillInit
<1>1. PICK keys \in [Tbl -> SUBSET PrimaryKey] :
         /\ source = [t \in Tbl |-> {[id |-> k.id, tenant |-> k.tenant, ver |-> 0] : k \in keys[t]}]
         /\ stable = {p \in Tbl \X PrimaryKey : p[2] \in keys[p[1]]}
      OBVIOUS
<1>2. source \in [Tbl -> SUBSET Row]
      BY <1>1 DEF PrimaryKey, Row
<1>3. stable \subseteq Tbl \X PrimaryKey
      BY <1>1
<1>4. Fresh \in Checkpoint
      BY DEF Fresh, Checkpoint
<1>5. target \in [Tbl -> [PrimaryKey -> Seq(0..MaxChanges)]]
      OBVIOUS
<1>6. file \in [state : {"none", "torn", "saved"}, cp : Checkpoint] /\ cp \in Checkpoint
      BY <1>4
<1>7. Len(Tables) \in Nat
      OBVIOUS
<1>8. BackfillTypeOK
      BY <1>2, <1>3, <1>5, <1>6, <1>7 DEF BackfillTypeOK
<1>9. pending \in Seq(Change) /\ Len(pending) = 0
      OBVIOUS
<1>10. HandoffTypeOK
  <2>1. Len(pending) <= MaxChanges
        BY <1>9
  <2>2. streaming \in BOOLEAN /\ rc \in {"todo", "read", "merge", "done"} /\ result \subseteq Row
        OBVIOUS
  <2>3. rcAt \in 1..Len(Tables) + 1 /\ overtaken \subseteq Tbl \X PrimaryKey
    <3>1. rcAt = 1 /\ overtaken = {}
          OBVIOUS
    <3> HIDE DEF HandoffInit, BackfillInit
    <3>2. \A n \in Nat : 1 \in 1..n + 1
          OBVIOUS
    <3>3. QED
          BY <1>7, <3>1, <3>2
  <2>4. QED
        BY <1>8, <1>9, <2>1, <2>2, <2>3 DEF HandoffTypeOK
<1>11. ControlOK
      BY <1>9 DEF ControlOK, InTable
<1>12. QED
      BY <1>10, <1>11 DEF TypeInv

LEMMA TypeSource == TypeInv /\ CapturedChange => TypeInv'
<1> SUFFICES ASSUME TypeInv,
                    NEW t \in Tbl, NEW k \in PrimaryKey, NEW live \in BOOLEAN,
                    IF live THEN Upsert(t, k) ELSE Remove(t, k),
                    Captured([table |-> t, key |-> k, ver |-> clock + 1, live |-> live]),
                    UNCHANGED <<target, file, cp, pc, at, last, page, crashes, streaming, reconcileVars>>
             PROVE  TypeInv'
    BY DEF CapturedChange
<1> USE BackfillAssumption DEF TypeInv, HandoffTypeOK, BackfillTypeOK
<1>1. clock \in 0..MaxChanges /\ clock < MaxChanges /\ clock' = clock + 1
      BY DEF Upsert, Remove
<1>2. [id |-> k.id, tenant |-> k.tenant, ver |-> clock + 1] \in Row
      BY <1>1 DEF PrimaryKey, Row
<1>3. source' \in [Tbl -> SUBSET Row]
  <2>1. Without(t, k) \in SUBSET Row
        BY DEF Without
  <2>2. \E rows \in SUBSET Row : source' = [source EXCEPT ![t] = rows]
        BY <1>2, <2>1 DEF Upsert, Remove
  <2>3. QED
        BY <2>2
<1>4. stable' \subseteq Tbl \X PrimaryKey
      BY DEF Upsert, Remove
<1>5. BackfillTypeOK'
      BY <1>1, <1>3, <1>4
<1> DEFINE c == [table |-> t, key |-> k, ver |-> clock + 1, live |-> live]
<1>6. c \in Change
      BY <1>1 DEF Change
<1> HIDE DEF c
<1>7. pending' \in Seq(Change) /\ Len(pending') <= clock'
  <2>1. pending' = IF streaming THEN Append(pending, c) ELSE pending
        BY DEF Captured, c
  <2>2. Len(pending) \in Nat /\ Len(pending) <= clock
        BY DEF ControlOK
  <2>3. QED
        BY <1>1, <1>6, <2>1, <2>2
<1>8. Len(pending') <= MaxChanges
      BY <1>1, <1>7
<1>9. ControlOK'
      BY <1>7 DEF ControlOK, InTable, reconcileVars
<1>10. QED
      BY <1>5, <1>7, <1>8, <1>9 DEF reconcileVars

LEMMA TypeBackfill == TypeInv /\ BackfillStep => TypeInv'
<1> SUFFICES ASSUME TypeInv, Script \/ Operator \/ Crash,
                    UNCHANGED <<streaming, pending, reconcileVars>>
             PROVE  TypeInv'
    BY DEF BackfillStep
<1> USE BackfillAssumption DEF TypeInv, HandoffTypeOK, reconcileVars, sourceVars
<1>0. Fresh \in Checkpoint /\ Len(Tables) \in Nat /\ DOMAIN Tables = 1..Len(Tables)
      BY DEF Fresh, Checkpoint
<1>1. SUFFICES /\ BackfillTypeOK' /\ clock' = clock
               /\ (InTable => at \in DOMAIN Tables)'
               /\ (pc = "insert" => page # {})'
               /\ (pc # "insert" => page = {})'
      BY DEF ControlOK
<1> USE DEF BackfillTypeOK, ControlOK, InTable
<1>2. CASE Start
  <2>1. cp' \in Checkpoint
        BY <1>0, <1>2 DEF Start
  <2>2. QED
        BY <1>0, <1>2, <2>1 DEF Start
<1>3. CASE RemoveFile
      BY <1>0, <1>3 DEF RemoveFile
<1>4. CASE SkipDone
      BY <1>0, <1>4 DEF SkipDone
<1>5. CASE EnterTable
  <2>1. cp.last[Tables[at]] \in 0..MaxId /\ at \in DOMAIN Tables
        BY <1>0, <1>5 DEF EnterTable, Checkpoint, Tbl
  <2>2. QED
        BY <1>5, <2>1 DEF EnterTable
<1>6. CASE Finished
      BY <1>0, <1>6 DEF Finished
<1>7. CASE Truncate
  <2>1. target' \in [Tbl -> [PrimaryKey -> Seq(0..MaxChanges)]]
        BY <1>7 DEF Truncate
  <2>2. QED
        BY <1>0, <1>7, <2>1 DEF Truncate
<1>8. CASE SelectPage
  <2>1. Beyond \in SUBSET Row /\ Beyond # {}
        BY <1>8 DEF SelectPage, Beyond, Tbl
  <2>2. page' \subseteq Row /\ page' # {}
        BY <1>8, <2>1, LowestOf DEF SelectPage
  <2>3. QED
        BY <1>0, <1>8, <2>2 DEF SelectPage
<1>9. CASE InsertBatch
  <2>1. Tables[at] \in Tbl /\ page \subseteq Row /\ page # {}
        BY <1>9 DEF InsertBatch, Tbl
  <2>2. PICK batch \in Lowest(InsertSize, page) :
           /\ target' = [target EXCEPT ![Tables[at]] = Inserted(Tables[at], batch)]
           /\ page' = page \ batch
        BY <1>9 DEF InsertBatch
  <2>3. batch \in SUBSET Row
        BY <2>1, LowestOf
  <2>4. target' \in [Tbl -> [PrimaryKey -> Seq(0..MaxChanges)]]
        BY <2>1, <2>2, <2>3, InsertedOf DEF Versions
  <2>5. last' \in 0..MaxId /\ cp' \in Checkpoint
    <3>1. CASE page' = {}
      <4>1. {r.id : r \in page} \in SUBSET (0..MaxId) /\ {r.id : r \in page} # {}
        <5>1. \A r \in page : r.id \in 1..MaxId
              BY <2>1 DEF Row
        <5>2. \A n \in 1..MaxId : n \in 0..MaxId
              OBVIOUS
        <5>3. QED
              BY <2>1, <5>1, <5>2
      <4>2. last' \in 0..MaxId
        <5>1. last' = Max({r.id : r \in page})
              BY <1>9, <3>1 DEF InsertBatch
        <5>2. Max({r.id : r \in page}) \in 0..MaxId
              BY <4>1, LargestOf
        <5>3. QED
              BY <5>1, <5>2
      <4>3. cp' = [cp EXCEPT !.last[Tables[at]] = last']
            BY <1>9, <3>1 DEF InsertBatch
      <4>4. cp' \in Checkpoint
            BY <2>1, <4>2, <4>3 DEF Checkpoint
      <4>5. QED
            BY <4>2, <4>4
    <3>2. CASE page' # {}
          BY <1>9, <3>2 DEF InsertBatch
    <3>3. QED
          BY <3>1, <3>2
  <2>6. page' \subseteq Row /\ pc' = IF page' = {} THEN "save" ELSE "insert"
        BY <1>9, <2>1, <2>2 DEF InsertBatch
  <2>7. QED
        BY <1>9, <2>4, <2>5, <2>6 DEF InsertBatch
<1>10. CASE TableDone
  <2>1. cp' \in Checkpoint
        BY <1>10 DEF TableDone, Checkpoint
  <2>2. QED
        BY <1>10, <2>1 DEF TableDone
<1>11. CASE SaveOpens
      BY <1>0, <1>11 DEF SaveOpens
<1>12. CASE SaveDumps
      BY <1>0, <1>12 DEF SaveDumps
<1>13. CASE Crash
      BY <1>0, <1>13 DEF Crash
<1>14. QED
      BY <1>2, <1>3, <1>4, <1>5, <1>6, <1>7, <1>8, <1>9, <1>10, <1>11, <1>12, <1>13
      DEF Script, Operator

(* What the stream and reconcile write: one copy where there was none, and no further
   copy where there was. *)
Grown(k, vs, ws) == Len(ws[k]) <= IF vs[k] = <<>> THEN 1 ELSE Len(vs[k])

Rewritten ==
    /\ target' \in [Tbl -> [PrimaryKey -> Seq(0..MaxChanges)]]
    /\ \A t \in Tbl, k \in PrimaryKey : Grown(k, target[t], target'[t])

LEMMA StreamRewrites == TypeInv /\ StreamApplies => Rewritten
<1> SUFFICES ASSUME TypeInv, StreamApplies PROVE Rewritten
    OBVIOUS
<1> USE DEF TypeInv, HandoffTypeOK, BackfillTypeOK
<1> DEFINE c == Head(pending)
<1>0. c \in Change
      BY DEF StreamApplies
<1> HIDE DEF c
<1>1. c.table \in Tbl /\ c.key \in PrimaryKey /\ c.ver \in 0..MaxChanges
      BY <1>0 DEF Change
<1>2. target[c.table][c.key] \in Versions /\ <<>> \in Versions
      BY <1>1 DEF Versions
<1> DEFINE vs == IF c.live THEN Merged(target[c.table][c.key], c.ver) ELSE <<>>
<1>3. /\ vs \in Versions
      /\ Len(vs) <= IF target[c.table][c.key] = <<>> THEN 1 ELSE Len(target[c.table][c.key])
  <2>1. CASE c.live
        BY <1>1, <1>2, <2>1, MergedOf
  <2>2. CASE ~ c.live
    <3>1. Len(target[c.table][c.key]) \in Nat
          BY <1>2 DEF Versions
    <3>2. vs = <<>> /\ Len(vs) = 0
          BY <2>2
    <3>3. QED
          BY <1>2, <3>1, <3>2
  <2>3. QED
        BY <2>1, <2>2
<1>4. target' = [target EXCEPT ![c.table][c.key] = vs]
      BY <1>1 DEF StreamApplies, c
<1> HIDE DEF vs
<1>5. target' \in [Tbl -> [PrimaryKey -> Seq(0..MaxChanges)]]
      BY <1>1, <1>3, <1>4 DEF Versions
<1>6. ASSUME NEW t \in Tbl, NEW k \in PrimaryKey
      PROVE  Grown(k, target[t], target'[t])
  <2>1. Len(target[t][k]) \in Nat
        OBVIOUS
  <2>2. target'[t][k] = IF t = c.table /\ k = c.key THEN vs ELSE target[t][k]
        BY <1>1, <1>4
  <2>3. QED
        BY <1>3, <2>1, <2>2 DEF Grown
<1>7. QED
      BY <1>5, <1>6 DEF Rewritten

LEMMA ReconcileRewrites == TypeInv /\ MergeBatch => Rewritten /\ result' \subseteq result
<1> SUFFICES ASSUME TypeInv, MergeBatch PROVE Rewritten /\ result' \subseteq result
    OBVIOUS
<1> USE DEF TypeInv, HandoffTypeOK, BackfillTypeOK
<1>1. Tables[rcAt] \in Tbl /\ result \in SUBSET Row /\ result # {}
      BY DEF MergeBatch, Tbl, ControlOK
<1>2. PICK batch \in Lowest(InsertSize, result) :
         /\ target' = [target EXCEPT ![Tables[rcAt]] =
               [k \in PrimaryKey |->
                   IF k \in KeysOf(batch)
                   THEN Merged(@[k], (CHOOSE r \in batch : KeyOf(r) = k).ver) ELSE @[k]]]
         /\ result' = result \ batch
      BY DEF MergeBatch
<1>3. batch \in SUBSET Row
      BY <1>1, LowestOf, BackfillAssumption
<1> DEFINE old == target[Tables[rcAt]]
           new == [k \in PrimaryKey |->
                      IF k \in KeysOf(batch)
                      THEN Merged(old[k], (CHOOSE r \in batch : KeyOf(r) = k).ver) ELSE old[k]]
<1>4. ASSUME NEW k \in PrimaryKey PROVE new[k] \in Versions /\ Grown(k, old, new)
  <2>1. old[k] \in Versions /\ Len(old[k]) \in Nat
        BY <1>1 DEF Versions
  <2>2. CASE k \in KeysOf(batch)
    <3>1. (CHOOSE r \in batch : KeyOf(r) = k) \in batch
          BY <2>2 DEF KeysOf
    <3>2. (CHOOSE r \in batch : KeyOf(r) = k).ver \in 0..MaxChanges
          BY <1>3, <3>1 DEF Row
    <3>3. QED
          BY <2>1, <2>2, <3>2, MergedOf DEF Grown
  <2>3. CASE k \notin KeysOf(batch)
        BY <2>1, <2>3 DEF Grown
  <2>4. QED
        BY <2>2, <2>3
<1>5. target' = [target EXCEPT ![Tables[rcAt]] = new]
      BY <1>1, <1>2
<1>6. new \in [PrimaryKey -> Versions] /\ \A k \in PrimaryKey : Grown(k, old, new)
      BY <1>4
<1> HIDE DEF new
<1>7. target' \in [Tbl -> [PrimaryKey -> Seq(0..MaxChanges)]]
      BY <1>5, <1>6 DEF Versions
<1>8. ASSUME NEW t \in Tbl, NEW k \in PrimaryKey
      PROVE  Grown(k, target[t], target'[t])
  <2>1. Len(target[t][k]) \in Nat
        OBVIOUS
  <2>2. CASE t = Tables[rcAt]
        BY <1>1, <1>5, <1>6, <2>2
  <2>3. CASE t # Tables[rcAt]
        BY <1>1, <1>5, <2>1, <2>3 DEF Grown
  <2>4. QED
        BY <2>2, <2>3
<1>9. QED
      BY <1>2, <1>7, <1>8 DEF Rewritten

LEMMA TypeService == TypeInv /\ Service => TypeInv'
<1> SUFFICES ASSUME TypeInv, Service PROVE TypeInv'
    OBVIOUS
<1> USE BackfillAssumption DEF TypeInv, HandoffTypeOK, BackfillTypeOK, reconcileVars, sourceVars
<1>1. CASE CreateSlot
      BY <1>1 DEF CreateSlot, backfillVars, ControlOK, InTable
<1>2. CASE StreamApplies
  <2>1. /\ pending' \in Seq(Change)
        /\ Len(pending') = Len(pending) - 1 /\ Len(pending) \in Nat
    <3>1. pending # <<>> /\ pending' = Tail(pending)
          BY <1>2 DEF StreamApplies
    <3>2. QED
          BY <3>1
  <2>2. target' \in [Tbl -> [PrimaryKey -> Seq(0..MaxChanges)]]
        BY <1>2, StreamRewrites DEF Rewritten
  <2>3. overtaken' \subseteq Tbl \X PrimaryKey
    <3>1. Head(pending) \in Change
          BY <1>2 DEF StreamApplies
    <3>2. <<Head(pending).table, Head(pending).key>> \in Tbl \X PrimaryKey
          BY <3>1 DEF Change
    <3>3. overtaken' \subseteq overtaken \cup {<<Head(pending).table, Head(pending).key>>}
          BY <1>2 DEF StreamApplies
    <3>4. QED
          BY <3>2, <3>3
  <2>4. BackfillTypeOK'
        BY <1>2, <2>2 DEF StreamApplies
  <2>5. ControlOK'
        BY <1>2, <2>1 DEF StreamApplies, ControlOK, InTable
  <2>6. HandoffTypeOK'
    <3>1. UNCHANGED <<streaming, rc, rcAt, result>>
          BY <1>2 DEF StreamApplies
    <3> HIDE DEF BackfillTypeOK
    <3>2. QED
          BY <2>1, <2>3, <2>4, <3>1
  <2>7. QED
        BY <2>5, <2>6
<1>3. QED
      BY <1>1, <1>2 DEF Service

LEMMA TypeReconcile == TypeInv /\ (Reconcile \/ ReconcileCrash) => TypeInv'
<1> SUFFICES ASSUME TypeInv, Reconcile \/ ReconcileCrash PROVE TypeInv'
    OBVIOUS
<1> USE BackfillAssumption
    DEF TypeInv, HandoffTypeOK, BackfillTypeOK, ControlOK, InTable, backfillVars, sourceVars
<1>0. Len(Tables) \in Nat /\ DOMAIN Tables = 1..Len(Tables)
      OBVIOUS
<1>1. CASE StartReconcile
  <2>1. BackfillTypeOK' /\ UNCHANGED <<pc, at, page, clock>>
        BY <1>1 DEF StartReconcile
  <2>2. streaming /\ rc' = "read" /\ rcAt' = 1 /\ UNCHANGED <<streaming, pending, result, overtaken>>
        BY <1>1 DEF StartReconcile
  <2>3. rcAt' \in 1..Len(Tables) + 1
        BY <1>0, <2>2
  <2> HIDE DEF BackfillTypeOK
  <2>4. QED
        BY <2>1, <2>2, <2>3
<1>2. CASE ReadChanged
  <2>1. Tables[rcAt] \in Tbl
        BY <1>0, <1>2 DEF ReadChanged, Tbl
  <2>2. result' \subseteq Row
        BY <1>2, <2>1 DEF ReadChanged
  <2>3. overtaken' \subseteq Tbl \X PrimaryKey
        BY <1>2 DEF ReadChanged
  <2>4. BackfillTypeOK' /\ UNCHANGED <<pc, at, page, clock>>
        BY <1>2 DEF ReadChanged
  <2>5. rc = "read" /\ rc' = "merge" /\ rcAt \in DOMAIN Tables /\ UNCHANGED <<streaming, pending, rcAt>>
        BY <1>0, <1>2 DEF ReadChanged
  <2> HIDE DEF BackfillTypeOK
  <2>6. QED
        BY <2>2, <2>3, <2>4, <2>5
<1>3. CASE MergeBatch
  <2>1. target' \in [Tbl -> [PrimaryKey -> Seq(0..MaxChanges)]] /\ result' \subseteq result
        BY <1>3, ReconcileRewrites DEF Rewritten
  <2>2. QED
        BY <1>3, <2>1 DEF MergeBatch
<1>4. CASE TableReconciled
  <2>1. BackfillTypeOK' /\ UNCHANGED <<pc, at, page, clock>>
        BY <1>4 DEF TableReconciled
  <2>2. rc = "merge" /\ rc' = "read" /\ rcAt' = rcAt + 1 /\ UNCHANGED <<streaming, pending, result, overtaken>>
        BY <1>4 DEF TableReconciled
  <2>3. rcAt' \in 1..Len(Tables) + 1
        BY <1>0, <2>2
  <2> HIDE DEF BackfillTypeOK
  <2>4. QED
        BY <2>1, <2>2, <2>3
<1>5. CASE Reconciled
  <2>1. BackfillTypeOK' /\ UNCHANGED <<pc, at, page, clock>>
        BY <1>5 DEF Reconciled
  <2>2. rc = "read" /\ rc' = "done" /\ UNCHANGED <<streaming, pending, rcAt, result, overtaken>>
        BY <1>5 DEF Reconciled
  <2> HIDE DEF BackfillTypeOK
  <2>3. QED
        BY <2>1, <2>2
<1>6. CASE ReconcileCrash
  <2>1. BackfillTypeOK' /\ UNCHANGED <<pc, at, page, clock>>
    <3>1. crashes' \in 0..MaxCrashes
          BY <1>6 DEF ReconcileCrash
    <3>2. QED
          BY <1>6, <3>1 DEF ReconcileCrash
  <2>2. rc' = "todo" /\ result' = {} /\ UNCHANGED <<streaming, pending, rcAt, overtaken>>
        BY <1>6 DEF ReconcileCrash
  <2> HIDE DEF BackfillTypeOK
  <2>3. QED
        BY <2>1, <2>2
<1>7. QED
      BY <1>1, <1>2, <1>3, <1>4, <1>5, <1>6 DEF Reconcile

LEMMA TypeStutter == TypeInv /\ UNCHANGED handoffVars => TypeInv'
BY DEF TypeInv, HandoffTypeOK, BackfillTypeOK, ControlOK, InTable, handoffVars, backfillVars,
       sourceVars, reconcileVars

LEMMA TypeInvariant == HandoffSpec => []TypeInv
<1>1. TypeInv /\ [HandoffNext]_handoffVars => TypeInv'
      BY TypeSource, TypeBackfill, TypeService, TypeReconcile, TypeStutter DEF HandoffNext
<1>2. QED
      BY TypeInit, <1>1, PTL DEF HandoffSpec

(* The variables of the load, the stream and reconcile keep their types. *)
THEOREM HandoffTypeCorrect == HandoffSpec => []HandoffTypeOK
BY TypeInvariant, PTL DEF TypeInv
-----------------------------------------------------------------------------
(* A key has one row.                                                      *)

LEMMA KeyedInit == HandoffInit => RowsKeyed
<1> SUFFICES ASSUME HandoffInit PROVE RowsKeyed
    OBVIOUS
<1>1. PICK keys \in [Tbl -> SUBSET PrimaryKey] :
         source = [t \in Tbl |-> {[id |-> k.id, tenant |-> k.tenant, ver |-> 0] : k \in keys[t]}]
      BY DEF HandoffInit, BackfillInit
<1>2. ASSUME NEW t \in Tbl PROVE Keyed(source[t])
  <2>1. \A r \in source[t] : \E k \in keys[t] : r = [id |-> k.id, tenant |-> k.tenant, ver |-> 0]
        BY <1>1
  <2>2. QED
        BY <2>1 DEF Keyed, KeyOf
<1>3. page = {}
      BY DEF HandoffInit, BackfillInit
<1>4. QED
      BY <1>2, <1>3 DEF RowsKeyed, Keyed

(* Only the source changes its rows; a page is taken from the source and gets smaller. *)
LEMMA PageShrinks ==
    ASSUME TypeInv, HandoffNext, ~ CapturedChange
    PROVE  /\ source' = source
           /\ \/ page' \subseteq page
              \/ Tables[at] \in Tbl /\ page' \subseteq source[Tables[at]]
<1> USE DEF backfillVars, sourceVars
<1>1. CASE BackfillStep
  <2>1. CASE SelectPage
    <3>1. Tables[at] \in Tbl
          BY <2>1 DEF SelectPage, Tbl, TypeInv, ControlOK, InTable
    <3>2. Beyond \in SUBSET Row /\ Beyond # {} /\ Beyond \subseteq source[Tables[at]]
          BY <2>1, <3>1 DEF SelectPage, Beyond, TypeInv, HandoffTypeOK, BackfillTypeOK
    <3>3. page' \subseteq Beyond
          BY <2>1, <3>2, LowestOf, BackfillAssumption DEF SelectPage
    <3>4. QED
          BY <2>1, <3>1, <3>2, <3>3 DEF SelectPage
  <2>2. CASE InsertBatch
        BY <2>2 DEF InsertBatch
  <2>3. CASE Crash
        BY <2>3 DEF Crash
  <2>4. CASE Start \/ RemoveFile \/ SkipDone \/ EnterTable \/ Finished
        BY <2>4 DEF Start, RemoveFile, SkipDone, EnterTable, Finished
  <2>5. CASE Truncate \/ TableDone \/ SaveOpens \/ SaveDumps
        BY <2>5 DEF Truncate, TableDone, SaveOpens, SaveDumps
  <2>6. QED
        BY <1>1, <2>1, <2>2, <2>3, <2>4, <2>5 DEF BackfillStep, Script, Operator
<1>2. CASE Service
      BY <1>2 DEF Service, CreateSlot, StreamApplies
<1>3. CASE Reconcile \/ ReconcileCrash
      BY <1>3 DEF Reconcile, StartReconcile, ReadChanged, MergeBatch, TableReconciled, Reconciled,
                  ReconcileCrash
<1>4. QED
      BY <1>1, <1>2, <1>3 DEF HandoffNext

LEMMA KeyedStep == TypeInv /\ RowsKeyed /\ [HandoffNext]_handoffVars => RowsKeyed'
<1> SUFFICES ASSUME TypeInv, RowsKeyed, [HandoffNext]_handoffVars PROVE RowsKeyed'
    OBVIOUS
<1>1. CASE CapturedChange
  <2>1. PICK t \in Tbl, k \in PrimaryKey : Upsert(t, k) \/ Remove(t, k)
        BY <1>1 DEF CapturedChange
  <2>2. source \in [Tbl -> SUBSET Row]
        BY DEF TypeInv, HandoffTypeOK, BackfillTypeOK
  <2> DEFINE new == [id |-> k.id, tenant |-> k.tenant, ver |-> clock + 1]
  <2>3. \E rows : /\ source' = [source EXCEPT ![t] = rows]
                  /\ rows \subseteq Without(t, k) \cup {new}
        BY <2>1 DEF Upsert, Remove
  <2>4. Keyed(Without(t, k) \cup {new})
    <3>1. KeyOf(new) = k
          BY DEF PrimaryKey, KeyOf
    <3>2. \A r \in Without(t, k) : r \in source[t] /\ KeyOf(r) # k
          BY DEF Without
    <3>3. Keyed(source[t])
          BY DEF RowsKeyed
    <3> HIDE DEF new
    <3>4. QED
          BY <3>1, <3>2, <3>3 DEF Keyed
  <2>5. \A u \in Tbl : Keyed(source'[u])
        BY <2>2, <2>3, <2>4 DEF RowsKeyed, Keyed
  <2>6. page' = page
        BY <1>1 DEF CapturedChange
  <2>7. QED
        BY <2>5, <2>6 DEF RowsKeyed, Keyed
<1>2. CASE HandoffNext /\ ~ CapturedChange
      BY <1>2, PageShrinks DEF RowsKeyed, Keyed
<1>3. CASE UNCHANGED handoffVars
      BY <1>3 DEF RowsKeyed, Keyed, handoffVars, backfillVars, sourceVars
<1>4. QED
      BY <1>1, <1>2, <1>3
-----------------------------------------------------------------------------
(* The file, the checkpoint in memory, and when the service starts.        *)

LEMMA FileInit == HandoffInit => FileOK
BY DEF HandoffInit, BackfillInit, FileOK, InTable

(* No run is inside a table once all of them are done. *)
LEMMA DoneIsOut == TypeInv /\ FileOK /\ AllDone => ~ InTable
<1> SUFFICES ASSUME TypeInv, FileOK, AllDone, InTable PROVE FALSE
    OBVIOUS
<1>1. Tables[at] \in Tbl
      BY DEF TypeInv, ControlOK, Tbl
<1>2. file.state = "saved" /\ file.cp.done[Tables[at]]
      BY <1>1 DEF AllDone
<1>3. pc \in {"truncate", "select", "insert", "save", "dump"}
      BY DEF InTable, TypeInv, HandoffTypeOK, BackfillTypeOK
<1>4. QED
      BY <1>2, <1>3 DEF FileOK, InTable

LEMMA FileStep == TypeInv /\ FileOK /\ [HandoffNext]_handoffVars => FileOK'
<1> SUFFICES ASSUME TypeInv, FileOK, [HandoffNext]_handoffVars PROVE FileOK'
    OBVIOUS
<1> USE DEF FileOK, InTable, AllDone
<1>1. ASSUME UNCHANGED <<file, cp, pc, at, last>>, rc' # "todo" => AllDone,
             pending' # <<>> => streaming'
      PROVE  FileOK'
      BY <1>1
<1>2. CASE CapturedChange
      BY <1>1, <1>2 DEF CapturedChange, Captured, reconcileVars
<1>3. CASE Service
      BY <1>1, <1>3 DEF Service, CreateSlot, StreamApplies, backfillVars, reconcileVars
<1>4. CASE Reconcile \/ ReconcileCrash
      BY <1>1, <1>4 DEF Reconcile, StartReconcile, ReadChanged, MergeBatch, TableReconciled,
                        Reconciled, ReconcileCrash, backfillVars
<1>5. CASE BackfillStep
  <2>0. /\ UNCHANGED <<streaming, pending, rc>> /\ DOMAIN Tables = 1..Len(Tables) /\ Len(Tables) \in Nat
        /\ cp \in Checkpoint /\ at \in Nat /\ at >= 1
        BY <1>5, BackfillAssumption
        DEF BackfillStep, TypeInv, HandoffTypeOK, BackfillTypeOK, reconcileVars
  <2>1. CASE Start
        BY <2>0, <2>1 DEF Start
  <2>2. CASE RemoveFile
        BY <2>0, <2>2 DEF RemoveFile
  <2>3. CASE SkipDone
        BY <2>0, <2>3 DEF SkipDone
  <2>4. CASE EnterTable
    <3>1. at \in DOMAIN Tables /\ Tables[at] \in Tbl
          BY <2>0, <2>4 DEF EnterTable, Tbl
    <3>2. rc = "todo"
          BY <2>4, <3>1 DEF EnterTable
    <3>3. QED
          BY <2>0, <2>4, <3>2 DEF EnterTable
  <2>5. CASE Finished
        BY <2>0, <2>5 DEF Finished
  <2>6. CASE Truncate
        BY <2>0, <2>6 DEF Truncate
  <2>7. CASE SelectPage
        BY <2>0, <2>7 DEF SelectPage
  <2>8. CASE InsertBatch
    <3>1. at \in DOMAIN Tables /\ Tables[at] \in Tbl /\ ~ AllDone
          BY <2>0, <2>8, DoneIsOut DEF InsertBatch, Tbl, TypeInv, ControlOK
    <3>2. CASE page' = {}
      <4>1. cp' = [cp EXCEPT !.last[Tables[at]] = last'] /\ pc' = "save"
            BY <2>8, <3>2 DEF InsertBatch
      <4>2. cp'.last[Tables[at]] = last'
            BY <2>0, <3>1, <4>1 DEF Checkpoint
      <4>3. QED
            BY <2>0, <2>8, <3>1, <4>1, <4>2 DEF InsertBatch
    <3>3. CASE page' # {}
          BY <2>0, <2>8, <3>1, <3>3 DEF InsertBatch
    <3>4. QED
          BY <3>2, <3>3
  <2>9. CASE TableDone
    <3>1. at \in DOMAIN Tables /\ Tables[at] \in Tbl /\ ~ AllDone
          BY <2>0, <2>9, DoneIsOut DEF TableDone, Tbl, TypeInv, ControlOK
    <3>2. cp'.last[Tables[at]] = last
          BY <2>0, <2>9, <3>1 DEF TableDone, Checkpoint
    <3>3. QED
          BY <2>0, <2>9, <3>1, <3>2 DEF TableDone
  <2>10. CASE SaveOpens
        BY <2>0, <2>10, DoneIsOut DEF SaveOpens
  <2>11. CASE SaveDumps
        BY <2>0, <2>11 DEF SaveDumps
  <2>12. CASE Crash
        BY <2>0, <2>12 DEF Crash
  <2>13. QED
        BY <1>5, <2>1, <2>2, <2>3, <2>4, <2>5, <2>6, <2>7, <2>8, <2>9, <2>10, <2>11, <2>12
        DEF BackfillStep, Script, Operator
<1>6. CASE UNCHANGED handoffVars
      BY <1>1, <1>6 DEF handoffVars, backfillVars, reconcileVars
<1>7. QED
      BY <1>2, <1>3, <1>4, <1>5, <1>6 DEF HandoffNext

(* Once the load is through it stays so, and no further run of the backfill writes anything. *)
THEOREM LoadStaysDone == HandoffSpec => LoadIsFinal
<1>1. TypeInv /\ FileOK /\ AllDone => ~ InTable
      BY DoneIsOut
<1>2. AllDone /\ ~ InTable /\ BackfillStep => UNCHANGED <<file, target>>
      BY DEF AllDone, InTable, BackfillStep, Script, Operator, Start, RemoveFile, SkipDone,
             EnterTable, Finished, Truncate, SelectPage, InsertBatch, TableDone, SaveOpens,
             SaveDumps, Crash
<1>3. HandoffNext /\ ~ BackfillStep => UNCHANGED file
      BY DEF HandoffNext, CapturedChange, Service, CreateSlot, StreamApplies, Reconcile,
             StartReconcile, ReadChanged, MergeBatch, TableReconciled, Reconciled, ReconcileCrash,
             backfillVars
<1>4. TypeInv /\ FileOK /\ [HandoffNext]_handoffVars =>
         [AllDone => AllDone' /\ (BackfillStep => target' = target)]_handoffVars
      BY <1>1, <1>2, <1>3 DEF AllDone
<1>5. TypeInv /\ FileOK /\ [HandoffNext]_handoffVars => FileOK'
      BY FileStep
<1>6. QED
      BY TypeInvariant, FileInit, <1>4, <1>5, PTL DEF HandoffSpec, LoadIsFinal
-----------------------------------------------------------------------------
(* Copies.                                                                 *)

LEMMA Lengths ==
    TypeInv => crashes \in Nat /\ \A t \in Tbl, k \in PrimaryKey : Len(target[t][k]) \in Nat
BY BackfillAssumption DEF TypeInv, HandoffTypeOK, BackfillTypeOK

LEMMA CopiesInit == HandoffInit => CopiesInv
<1> SUFFICES ASSUME HandoffInit PROVE CopiesInv
    OBVIOUS
<1>1. /\ \A t \in Tbl, k \in PrimaryKey : target[t][k] = <<>>
      /\ crashes = 0 /\ pc = "off" /\ file.state = "none"
      BY DEF HandoffInit, BackfillInit
<1>2. CopiesNeedCrash
      BY <1>1 DEF CopiesNeedCrash
<1>3. QED
      BY <1>1, <1>2 DEF CopiesInv, AheadInWork

LEMMA CopiesFrame ==
    ASSUME TypeInv, TypeInv', CopiesInv,
           UNCHANGED <<target, file, cp, pc, at, last, page>>, crashes' >= crashes
    PROVE  CopiesInv'
<1>0. crashes' \in Nat
      BY BackfillAssumption DEF TypeInv, HandoffTypeOK, BackfillTypeOK
<1>1. crashes \in Nat /\ crashes' \in Nat /\ \A t \in Tbl, k \in PrimaryKey : Len(target[t][k]) \in Nat
      BY <1>0, Lengths
<1>2. CopiesNeedCrash'
      BY <1>1 DEF CopiesInv, CopiesNeedCrash
<1>3. ASSUME NEW c, NEW t \in Tbl, Ahead(c, t) PROVE Ahead(c, t)'
      BY <1>1, <1>3 DEF Ahead
<1>4. (pc = "off" /\ file.state = "saved" => \A t \in Tbl : Ahead(file.cp, t))'
      BY <1>3 DEF CopiesInv
<1>5. (pc # "off" => \A t \in Tbl : ~ (InTable /\ t = Tables[at]) => Ahead(cp, t))'
      BY <1>3 DEF CopiesInv, InTable
<1>6. AheadInWork'
  <2>1. CASE pc \in {"off", "table", "truncate"}
        BY <2>1 DEF AheadInWork
  <2>2. CASE pc \notin {"off", "table", "truncate"}
    <3>1. Tables[at] \in Tbl
          BY <2>2 DEF TypeInv, ControlOK, InTable, Tbl
    <3>2. QED
          BY <1>1, <3>1 DEF CopiesInv, AheadInWork
  <2>3. QED
        BY <2>1, <2>2
<1>7. QED
      BY <1>2, <1>4, <1>5, <1>6 DEF CopiesInv

(* What service and reconcile write when the load is through adds no copy. *)
LEMMA CopiesStreaming ==
    ASSUME TypeInv, FileOK, CopiesInv, AllDone, Rewritten,
           UNCHANGED <<file, cp, pc, at, last, page, crashes>>
    PROVE  CopiesInv'
<1>1. crashes \in Nat /\ \A t \in Tbl, k \in PrimaryKey : Len(target[t][k]) \in Nat
      BY Lengths
<1>2. CopiesNeedCrash'
  <2>1. ASSUME NEW t \in Tbl, NEW k \in PrimaryKey PROVE Len(target'[t][k]) <= 1 + crashes
    <3>1. Len(target[t][k]) <= 1 + crashes
          BY DEF CopiesInv, CopiesNeedCrash
    <3>2. Len(target'[t][k]) <= IF target[t][k] = <<>> THEN 1 ELSE Len(target[t][k])
          BY DEF Rewritten, Grown
    <3>3. target'[t][k] \in Seq(0..MaxChanges)
          BY DEF Rewritten
    <3>4. QED
          BY <1>1, <3>1, <3>2, <3>3
  <2>2. QED
        BY <2>1 DEF CopiesNeedCrash
<1>3. AllDone /\ pc \in {"off", "table"}
      BY DoneIsOut DEF InTable
<1>4. \A t \in Tbl : file.cp.done[t] /\ (pc = "table" => cp.done[t])
      BY <1>3 DEF FileOK, AllDone
<1>5. QED
      BY <1>2, <1>3, <1>4 DEF CopiesInv, AheadInWork, Ahead

(* A run that breaks off pays for the copies the next one may make. *)
LEMMA CopiesCrash ==
    ASSUME TypeInv, CopiesInv, Crash
    PROVE  CopiesInv'
<1>1. crashes \in Nat /\ \A t \in Tbl, k \in PrimaryKey : Len(target[t][k]) \in Nat
      BY Lengths
<1>2. pc' = "off" /\ crashes' = crashes + 1 /\ target' = target /\ file' = file
      BY DEF Crash
<1>3. \A t \in Tbl, k \in PrimaryKey : Len(target'[t][k]) <= crashes'
      BY <1>1, <1>2 DEF CopiesInv, CopiesNeedCrash
<1>4. CopiesNeedCrash'
      BY <1>1, <1>2 DEF CopiesInv, CopiesNeedCrash
<1>5. \A t \in Tbl : Ahead(file.cp, t)'
      BY <1>3 DEF Ahead
<1>6. QED
      BY <1>2, <1>4, <1>5 DEF CopiesInv, AheadInWork

(* The steps of a run that write nothing. *)
LEMMA CopiesControl ==
    ASSUME TypeInv, FileOK, CopiesInv,
           Start \/ RemoveFile \/ SkipDone \/ EnterTable \/ Finished \/ SelectPage
              \/ TableDone \/ SaveOpens \/ SaveDumps
    PROVE  CopiesInv'
<1>0. /\ cp \in Checkpoint /\ DOMAIN Tables = 1..Len(Tables) /\ Len(Tables) \in Nat
      /\ at \in Nat /\ at >= 1
      BY BackfillAssumption DEF TypeInv, HandoffTypeOK, BackfillTypeOK
<1>1. target' = target /\ crashes' = crashes
      BY DEF Start, RemoveFile, SkipDone, EnterTable, Finished, SelectPage, TableDone,
             SaveOpens, SaveDumps
<1>2. CopiesNeedCrash'
      BY <1>1 DEF CopiesInv, CopiesNeedCrash
<1>3. \A c, t : Ahead(c, t)' <=> Ahead(c, t)
      BY <1>1 DEF Ahead
<1>4. SUFFICES /\ pc' = "off" /\ file'.state = "saved" => \A t \in Tbl : Ahead(file'.cp, t)
               /\ pc' # "off" => \A t \in Tbl : ~ (InTable' /\ t = Tables[at']) => Ahead(cp', t)
               /\ AheadInWork'
  <2>1. \A t : (Ahead(cp, t))' <=> Ahead(cp', t)
        BY <1>1 DEF Ahead
  <2>2. \A t : (Ahead(file.cp, t))' <=> Ahead(file'.cp, t)
        BY <1>1 DEF Ahead
  <2>3. QED
        BY <1>2, <1>4, <2>1, <2>2 DEF CopiesInv
<1>5. CASE Start
  <2>1. pc' = "table" /\ cp' = IF file.state = "saved" THEN file.cp ELSE Fresh
        BY <1>5 DEF Start
  <2>2. \A t \in Tbl : Ahead(Fresh, t)
        BY DEF Ahead, Fresh
  <2>3. \A t \in Tbl : Ahead(cp', t)
        BY <1>5, <2>1, <2>2 DEF CopiesInv, Start
  <2>4. QED
        BY <2>1, <2>3 DEF AheadInWork
<1>6. CASE RemoveFile
      BY <1>6 DEF RemoveFile, AheadInWork
<1>7. CASE SkipDone
      BY <1>7 DEF SkipDone, CopiesInv, AheadInWork, InTable
<1>8. CASE EnterTable
  <2>1. Tables[at] \in Tbl /\ UNCHANGED <<cp, at, page>> /\ ~ cp.done[Tables[at]]
        BY <1>0, <1>8 DEF EnterTable, Tbl
  <2>2. /\ last' = cp.last[Tables[at]]
        /\ pc' = IF cp.last[Tables[at]] = 0 THEN "truncate" ELSE "select"
        BY <1>8 DEF EnterTable
  <2>3. \A t \in Tbl : Ahead(cp, t)
        BY <1>8 DEF EnterTable, CopiesInv, InTable
  <2>4. cp.last[Tables[at]] \in Nat
        BY <1>0, <2>1, BackfillAssumption DEF Checkpoint
  <2>5. pc' = "select" => \A k \in PrimaryKey : k.id > last' => Len(target[Tables[at]][k]) <= crashes
        BY <2>1, <2>2, <2>3, <2>4 DEF Ahead
  <2>6. AheadInWork'
        BY <1>1, <2>1, <2>2, <2>5 DEF AheadInWork
  <2>7. QED
        BY <2>1, <2>2, <2>3, <2>6
<1>9. CASE Finished
  <2>1. pc = "table" /\ pc' = "off" /\ file' = file
        BY <1>9 DEF Finished
  <2>2. file.state = "saved" => file.cp = cp
        BY <2>1 DEF FileOK
  <2>3. QED
        BY <2>1, <2>2 DEF CopiesInv, AheadInWork, InTable
<1>10. CASE SelectPage
  <2>1. Tables[at] \in Tbl
        BY <1>10 DEF SelectPage, TypeInv, ControlOK, InTable, Tbl
  <2>2. pc = "select" /\ pc' = "insert" /\ UNCHANGED <<cp, at, last>> /\ ~ cp.done[Tables[at]]
        BY <1>10 DEF SelectPage, FileOK, InTable
  <2>3. page' \subseteq Beyond
    <3>1. Beyond \in SUBSET Row /\ Beyond # {}
          BY <1>10, <2>1 DEF SelectPage, Beyond, TypeInv, HandoffTypeOK, BackfillTypeOK
    <3>2. QED
          BY <1>10, <3>1, LowestOf, BackfillAssumption DEF SelectPage
  <2>4. \A r \in page' : r.id > last
        BY <2>3 DEF Beyond
  <2>5. \A k \in PrimaryKey : k.id > last => Len(target[Tables[at]][k]) <= crashes
        BY <2>2 DEF CopiesInv, AheadInWork
  <2>6. AheadInWork'
        BY <1>1, <2>2, <2>4, <2>5 DEF AheadInWork
  <2>7. QED
        BY <2>2, <2>6 DEF CopiesInv, InTable
<1>11. CASE TableDone
  <2>1. Tables[at] \in Tbl
        BY <1>11 DEF TableDone, TypeInv, ControlOK, InTable, Tbl
  <2>2. pc = "select" /\ pc' = "save" /\ UNCHANGED <<at, last>>
        BY <1>11 DEF TableDone
  <2>3. /\ cp'.done[Tables[at]]
        /\ \A t \in Tbl : t # Tables[at] => cp'.last[t] = cp.last[t] /\ cp'.done[t] = cp.done[t]
        BY <1>0, <1>11, <2>1 DEF TableDone, Checkpoint
  <2>4. AheadInWork'
        BY <2>2, <2>3 DEF AheadInWork
  <2>5. QED
        BY <2>2, <2>3, <2>4 DEF CopiesInv, InTable, Ahead
<1>12. CASE SaveOpens
  <2>1. pc = "save" /\ pc' = "dump" /\ UNCHANGED <<cp, at, last>>
        BY <1>12 DEF SaveOpens
  <2>2. AheadInWork'
        BY <1>1, <2>1 DEF CopiesInv, AheadInWork
  <2>3. QED
        BY <2>1, <2>2 DEF CopiesInv, InTable
<1>13. CASE SaveDumps
  <2>1. Tables[at] \in Tbl
        BY <1>13 DEF SaveDumps, TypeInv, ControlOK, InTable, Tbl
  <2>2. pc = "dump" /\ UNCHANGED <<cp, last>>
        BY <1>13 DEF SaveDumps
  <2>3. CASE cp.done[Tables[at]]
    <3>1. pc' = "table"
          BY <1>13, <2>3 DEF SaveDumps
    <3>2. \A t \in Tbl : Ahead(cp, t)
          BY <2>2, <2>3 DEF CopiesInv, InTable, Ahead
    <3>3. QED
          BY <2>2, <3>1, <3>2 DEF AheadInWork
  <2>4. CASE ~ cp.done[Tables[at]]
    <3>1. pc' = "select" /\ at' = at
          BY <1>13, <2>4 DEF SaveDumps
    <3>2. AheadInWork'
          BY <1>1, <2>2, <3>1 DEF CopiesInv, AheadInWork
    <3>3. QED
          BY <2>2, <3>1, <3>2 DEF CopiesInv, InTable
  <2>5. QED
        BY <2>3, <2>4
<1>14. QED
      BY <1>5, <1>6, <1>7, <1>8, <1>9, <1>10, <1>11, <1>12, <1>13

LEMMA CopiesTruncate ==
    ASSUME TypeInv, CopiesInv, Truncate
    PROVE  CopiesInv'
<1>1. crashes \in Nat /\ \A t \in Tbl, k \in PrimaryKey : Len(target[t][k]) \in Nat
      BY Lengths
<1>2. Tables[at] \in Tbl
      BY DEF Truncate, TypeInv, ControlOK, InTable, Tbl
<1>3. pc = "truncate" /\ pc' = "select" /\ UNCHANGED <<cp, at, last, crashes>>
      BY DEF Truncate
<1>4. /\ \A k \in PrimaryKey : target'[Tables[at]][k] = <<>>
      /\ \A t \in Tbl : t # Tables[at] => target'[t] = target[t]
      BY <1>2 DEF Truncate, TypeInv, HandoffTypeOK, BackfillTypeOK
<1>5. CopiesNeedCrash'
  <2>1. ASSUME NEW t \in Tbl, NEW k \in PrimaryKey PROVE Len(target'[t][k]) <= 1 + crashes
        BY <1>1, <1>4 DEF CopiesInv, CopiesNeedCrash
  <2>2. QED
        BY <1>3, <2>1 DEF CopiesNeedCrash
<1>6. AheadInWork'
      BY <1>1, <1>3, <1>4 DEF AheadInWork
<1>7. (pc # "off" => \A t \in Tbl : ~ (InTable /\ t = Tables[at]) => Ahead(cp, t))'
      BY <1>3, <1>4 DEF CopiesInv, InTable, Ahead
<1>8. QED
      BY <1>3, <1>5, <1>6, <1>7 DEF CopiesInv

(* The rows of a batch were not there before, but for the runs that broke off, and the
   rest of the page lies behind them. *)
LEMMA CopiesInsert ==
    ASSUME TypeInv, RowsKeyed, CopiesInv, InsertBatch
    PROVE  CopiesInv'
<1>1. /\ crashes \in Nat /\ last \in Nat
      /\ \A t \in Tbl, k \in PrimaryKey : Len(target[t][k]) \in Nat
      /\ \A k \in PrimaryKey : k.id \in Nat
  <2>1. crashes \in Nat /\ \A t \in Tbl, k \in PrimaryKey : Len(target[t][k]) \in Nat
        BY Lengths
  <2>2. last \in 0..MaxId
        BY DEF TypeInv, HandoffTypeOK, BackfillTypeOK
  <2>3. last \in Nat
        BY <2>2, BackfillAssumption
  <2>4. \A k \in PrimaryKey : k.id \in Nat
        BY BackfillAssumption DEF PrimaryKey
  <2>5. QED
        BY <2>1, <2>3, <2>4
<1> DEFINE T == Tables[at]
<1>0. pc = "insert" /\ UNCHANGED <<at, crashes, file>>
      BY DEF InsertBatch
<1>2. T \in Tbl /\ page \in SUBSET Row /\ page # {} /\ pc = "insert" /\ UNCHANGED <<at, crashes, file>>
  <2>1. at \in DOMAIN Tables /\ page # {} /\ page \in SUBSET Row
        BY <1>0 DEF TypeInv, HandoffTypeOK, BackfillTypeOK, ControlOK, InTable
  <2>2. QED
        BY <1>0, <2>1 DEF Tbl
<1>3. PICK batch \in Lowest(InsertSize, page) :
         /\ target' = [target EXCEPT ![T] = Inserted(T, batch)]
         /\ page' = page \ batch
      BY DEF InsertBatch
<1>4. batch \subseteq page /\ batch # {} /\ \A r \in batch, q \in page \ batch : r.id <= q.id
      BY <1>2, LowestOf, BackfillAssumption
<1>5. /\ \A k \in PrimaryKey :
            /\ k \in KeysOf(batch) => Len(target'[T][k]) = Len(target[T][k]) + 1
            /\ k \notin KeysOf(batch) => Len(target'[T][k]) = Len(target[T][k])
      /\ \A t \in Tbl : t # T => target'[t] = target[t]
  <2>1. target \in [Tbl -> [PrimaryKey -> Versions]]
        BY DEF TypeInv, HandoffTypeOK, BackfillTypeOK, Versions
  <2> HIDE DEF T
  <2>2. target'[T] = Inserted(T, batch) /\ \A t \in Tbl : t # T => target'[t] = target[t]
        BY <1>2, <1>3, <2>1
  <2>3. target[T] \in [PrimaryKey -> Versions] /\ batch \in SUBSET Row
        BY <1>2, <1>4, <2>1
  <2>4. \A k \in PrimaryKey :
           Len(Inserted(T, batch)[k]) = Len(target[T][k]) + IF k \in KeysOf(batch) THEN 1 ELSE 0
        BY <1>2, <2>3, InsertedOf
  <2>5. \A k \in PrimaryKey : Len(target[T][k]) \in Nat
        BY <1>1, <1>2
  <2>6. ASSUME NEW k \in PrimaryKey
        PROVE  /\ k \in KeysOf(batch) => Len(target'[T][k]) = Len(target[T][k]) + 1
               /\ k \notin KeysOf(batch) => Len(target'[T][k]) = Len(target[T][k])
    <3>1. Len(target'[T][k]) = Len(target[T][k]) + IF k \in KeysOf(batch) THEN 1 ELSE 0
          BY <2>2, <2>4
    <3>2. Len(target[T][k]) \in Nat
          BY <2>5
    <3>3. CASE k \in KeysOf(batch)
          BY <3>1, <3>3
    <3>4. CASE k \notin KeysOf(batch)
      <4>1. \A n \in Nat : n + 0 = n
            OBVIOUS
      <4>2. QED
            BY <3>1, <3>2, <3>4, <4>1
    <3>5. QED
          BY <3>3, <3>4
  <2>7. QED
        BY <2>2, <2>6
<1>6. \A r \in page : KeyOf(r) \in PrimaryKey /\ KeyOf(r).id = r.id /\ r.id \in Nat /\ r.id > last
      BY <1>1, <1>2, KeyType DEF CopiesInv, AheadInWork
<1>7. \A k \in PrimaryKey :
         k.id > last /\ (k \in KeysOf(page) \/ \A r \in page : r.id < k.id)
            => Len(target[T][k]) <= crashes
      BY <1>2 DEF CopiesInv, AheadInWork
<1>8. \A k \in KeysOf(batch) : k \in PrimaryKey /\ k \in KeysOf(page) /\ k.id > last
      BY <1>4, <1>6 DEF KeysOf
<1> HIDE DEF T
<1>9. CopiesNeedCrash'
  <2>1. ASSUME NEW t \in Tbl, NEW k \in PrimaryKey PROVE Len(target'[t][k]) <= 1 + crashes
    <3>1. Len(target[t][k]) <= 1 + crashes
          BY DEF CopiesInv, CopiesNeedCrash
    <3>2. CASE t = T /\ k \in KeysOf(batch)
          BY <1>1, <1>2, <1>5, <1>7, <1>8, <3>2
    <3>3. CASE ~ (t = T /\ k \in KeysOf(batch))
          BY <1>1, <1>2, <1>5, <3>1, <3>3
    <3>4. QED
          BY <3>2, <3>3
  <2>2. QED
        BY <1>2, <2>1 DEF CopiesNeedCrash
<1>10. ASSUME NEW k \in PrimaryKey, \A r \in page : r.id < k.id
       PROVE  k.id > last /\ Len(target'[T][k]) <= crashes
  <2>1. k.id > last
        BY <1>1, <1>2, <1>6, <1>10
  <2>2. k \notin KeysOf(batch)
        BY <1>1, <1>4, <1>6, <1>10 DEF KeysOf
  <2>3. QED
        BY <1>1, <1>2, <1>5, <1>7, <1>10, <2>1, <2>2
<1>11. CASE page' # {}
  <2>1. UNCHANGED <<last, cp, pc>>
        BY <1>11 DEF InsertBatch
  <2>2. \A r \in page' : r.id > last
        BY <1>3, <1>6
  <2>3. ASSUME NEW k \in PrimaryKey, k \in KeysOf(page'), k.id > last
        PROVE  Len(target'[T][k]) <= crashes
    <3>1. k \in KeysOf(page)
          BY <1>3, <2>3 DEF KeysOf
    <3>2. k \notin KeysOf(batch)
          BY <1>3, <1>4, <2>3 DEF KeysOf, RowsKeyed, Keyed
    <3>3. QED
          BY <1>1, <1>2, <1>5, <1>7, <2>3, <3>1, <3>2
  <2>4. ASSUME NEW k \in PrimaryKey, \A r \in page' : r.id < k.id
        PROVE  Len(target'[T][k]) <= crashes
    <3>1. PICK q \in page' : TRUE
          BY <1>11
    <3>2. q \in page \ batch /\ q.id \in Nat /\ q.id < k.id /\ k.id \in Nat
          BY <1>1, <1>3, <1>6, <2>4, <3>1
    <3>3. ASSUME NEW r \in page PROVE r.id < k.id
      <4>1. r.id \in Nat
            BY <1>6
      <4>2. CASE r \in batch
            BY <1>4, <3>2, <4>1, <4>2
      <4>3. CASE r \notin batch
            BY <1>3, <2>4, <4>3
      <4>4. QED
            BY <4>2, <4>3
    <3>4. QED
          BY <1>10, <3>3
  <2>5. AheadInWork'
        BY <1>2, <2>1, <2>2, <2>3, <2>4 DEF AheadInWork, T
  <2>6. (pc # "off" => \A t \in Tbl : ~ (InTable /\ t = Tables[at]) => Ahead(cp, t))'
        BY <1>2, <1>5, <2>1 DEF CopiesInv, InTable, Ahead, T
  <2>7. QED
        BY <1>2, <1>9, <2>1, <2>5, <2>6 DEF CopiesInv
<1>12. CASE page' = {}
  <2>1. last' = Max({r.id : r \in page}) /\ cp' = [cp EXCEPT !.last[T] = last'] /\ pc' = "save"
        BY <1>12 DEF InsertBatch, T
  <2>2. \A r \in page : last' >= r.id
    <3>1. {r.id : r \in page} \in SUBSET (0..MaxId) /\ {r.id : r \in page} # {}
          BY <1>2, BackfillAssumption DEF Row
    <3>2. QED
          BY <2>1, <3>1, LargestOf
  <2>3. last' \in Nat
    <3>1. {r.id : r \in page} \in SUBSET (0..MaxId) /\ {r.id : r \in page} # {}
          BY <1>2, BackfillAssumption DEF Row
    <3>2. QED
          BY <2>1, <3>1, LargestOf
  <2>4. ASSUME NEW k \in PrimaryKey, k.id > last'
        PROVE  Len(target'[T][k]) <= crashes
    <3>1. \A r \in page : r.id < k.id
          BY <1>1, <1>6, <2>2, <2>3, <2>4
    <3>2. QED
          BY <1>10, <3>1
  <2>5. AheadInWork'
        BY <1>2, <2>1, <2>4 DEF AheadInWork, T
  <2>6. \A t \in Tbl : t # T => cp'.last[t] = cp.last[t] /\ cp'.done[t] = cp.done[t]
        BY <1>2, <2>1 DEF TypeInv, HandoffTypeOK, BackfillTypeOK, Checkpoint
  <2>7. (pc # "off" => \A t \in Tbl : ~ (InTable /\ t = Tables[at]) => Ahead(cp, t))'
        BY <1>2, <1>5, <2>1, <2>6 DEF CopiesInv, InTable, Ahead, T
  <2>8. QED
        BY <1>2, <1>9, <2>1, <2>5, <2>7 DEF CopiesInv
<1>13. QED
      BY <1>11, <1>12

LEMMA CopiesStep ==
    ASSUME TypeInv, TypeInv', RowsKeyed, FileOK, CopiesInv, [HandoffNext]_handoffVars
    PROVE  CopiesInv'
<1>0. crashes \in Nat /\ crashes + 1 >= crashes /\ crashes >= crashes
      BY Lengths
<1>1. CASE CapturedChange
      BY <1>0, <1>1, CopiesFrame DEF CapturedChange
<1>2. CASE BackfillStep
      BY <1>2, CopiesControl, CopiesTruncate, CopiesInsert, CopiesCrash
      DEF BackfillStep, Script, Operator
<1>3. CASE CreateSlot
      BY <1>0, <1>3, CopiesFrame DEF CreateSlot, backfillVars
<1>4. CASE StreamApplies
      BY <1>4, StreamRewrites, CopiesStreaming DEF StreamApplies
<1>5. CASE MergeBatch
  <2>1. AllDone
        BY <1>5 DEF MergeBatch, FileOK
  <2>2. QED
        BY <1>5, <2>1, ReconcileRewrites, CopiesStreaming DEF MergeBatch
<1>6. CASE StartReconcile \/ ReadChanged \/ TableReconciled \/ Reconciled
      BY <1>0, <1>6, CopiesFrame
      DEF StartReconcile, ReadChanged, TableReconciled, Reconciled, backfillVars
<1>7. CASE ReconcileCrash
      BY <1>0, <1>7, CopiesFrame DEF ReconcileCrash
<1>8. CASE UNCHANGED handoffVars
      BY <1>0, <1>8, CopiesFrame DEF handoffVars, backfillVars
<1>9. QED
      BY <1>1, <1>2, <1>3, <1>4, <1>5, <1>6, <1>7, <1>8 DEF HandoffNext, Service, Reconcile

(* However often the runs of the two scripts break off, and whatever the source, the
   stream and reconcile do meanwhile: a row is at most once more in the warehouse than
   runs broke off. *)
THEOREM CopiesArePaid == HandoffSpec => []CopiesNeedCrash
<1> DEFINE Inv == RowsKeyed /\ FileOK /\ CopiesInv
<1>1. HandoffInit => Inv
      BY KeyedInit, FileInit, CopiesInit
<1>2. TypeInv /\ TypeInv' /\ Inv /\ [HandoffNext]_handoffVars => Inv'
      BY KeyedStep, FileStep, CopiesStep
<1>3. Inv => CopiesNeedCrash
      BY DEF CopiesInv
<1>4. QED
      BY TypeInvariant, <1>1, <1>2, <1>3, PTL DEF HandoffSpec
-----------------------------------------------------------------------------
(* What the steps write, key by key.                                       *)

LEMMA AppendAt ==
    ASSUME NEW S, NEW q \in Seq(S), NEW c \in S
    PROVE  /\ Len(q) \in Nat /\ DOMAIN q = 1..Len(q) /\ DOMAIN Append(q, c) = 1..Len(q) + 1
           /\ \A i \in 1..Len(q) + 1 : Append(q, c)[i] = IF i = Len(q) + 1 THEN c ELSE q[i]
OBVIOUS

LEMMA TailAt ==
    ASSUME NEW S, NEW q \in Seq(S), q # <<>>
    PROVE  /\ Len(q) \in Nat \ {0} /\ DOMAIN q = 1..Len(q) /\ Head(q) = q[1]
           /\ DOMAIN Tail(q) = 1..Len(q) - 1
           /\ \A i \in 1..Len(q) - 1 : Tail(q)[i] = q[i + 1]
OBVIOUS

LEMMA MergedShows ==
    ASSUME NEW vs \in Versions, NEW v \in 0..MaxChanges
    PROVE  /\ Merged(vs, v) # <<>>
           /\ \A i \in DOMAIN Merged(vs, v) : Merged(vs, v)[i] = v
<1>1. CASE vs = <<>>
      BY <1>1 DEF Merged
<1>2. CASE vs # <<>>
  <2>1. 1 \in DOMAIN vs
        BY <1>2 DEF Versions
  <2>2. Merged(vs, v) = [i \in DOMAIN vs |-> v]
        BY <1>2 DEF Merged
  <2>3. DOMAIN Merged(vs, v) = DOMAIN vs
        BY <2>2
  <2>4. DOMAIN <<>> = {}
        OBVIOUS
  <2>5. QED
        BY <2>1, <2>2, <2>3, <2>4
<1>3. QED
      BY <1>1, <1>2

(* A batch of the backfill adds a copy of each of its rows. *)
LEMMA InsertAt ==
    ASSUME TypeInv, InsertBatch
    PROVE  /\ Tables[at] \in Tbl
           /\ \E batch \in SUBSET page :
                /\ page' = page \ batch
                /\ \A t \in Tbl, k \in PrimaryKey :
                     /\ t = Tables[at] /\ k \in KeysOf(batch) =>
                          \E q \in batch : KeyOf(q) = k /\ target'[t][k] = Append(target[t][k], q.ver)
                     /\ ~ (t = Tables[at] /\ k \in KeysOf(batch)) => target'[t][k] = target[t][k]
<1> DEFINE T == Tables[at]
<1>1. T \in Tbl /\ page \in SUBSET Row /\ page # {}
      BY DEF InsertBatch, TypeInv, HandoffTypeOK, BackfillTypeOK, ControlOK, InTable, Tbl
<1>2. PICK batch \in Lowest(InsertSize, page) :
         /\ target' = [target EXCEPT ![T] = Inserted(T, batch)]
         /\ page' = page \ batch
      BY DEF InsertBatch
<1>3. batch \in SUBSET page
      BY <1>1, LowestOf, BackfillAssumption
<1>4. target \in [Tbl -> [PrimaryKey -> Versions]]
      BY DEF TypeInv, HandoffTypeOK, BackfillTypeOK, Versions
<1> HIDE DEF T
<1>5. target'[T] = Inserted(T, batch) /\ \A t \in Tbl : t # T => target'[t] = target[t]
      BY <1>1, <1>2, <1>4
<1>6. ASSUME NEW k \in PrimaryKey, k \in KeysOf(batch)
      PROVE  \E q \in batch : KeyOf(q) = k /\ target'[T][k] = Append(target[T][k], q.ver)
  <2>1. \E r \in batch : KeyOf(r) = k
        BY <1>6 DEF KeysOf
  <2>2. (CHOOSE r \in batch : KeyOf(r) = k) \in batch /\ KeyOf(CHOOSE r \in batch : KeyOf(r) = k) = k
        BY <2>1
  <2>3. target'[T][k] = Append(target[T][k], (CHOOSE r \in batch : KeyOf(r) = k).ver)
        BY <1>5, <1>6 DEF Inserted
  <2>4. QED
        BY <2>2, <2>3
<1>7. ASSUME NEW k \in PrimaryKey, k \notin KeysOf(batch)
      PROVE  target'[T][k] = target[T][k]
      BY <1>5, <1>7 DEF Inserted
<1>8. \A t \in Tbl, k \in PrimaryKey :
         /\ t = T /\ k \in KeysOf(batch) =>
              \E q \in batch : KeyOf(q) = k /\ target'[t][k] = Append(target[t][k], q.ver)
         /\ ~ (t = T /\ k \in KeysOf(batch)) => target'[t][k] = target[t][k]
      BY <1>5, <1>6, <1>7
<1>9. page' = page \ batch
      BY <1>2
<1>10. QED
      BY <1>1, <1>3, <1>8, <1>9 DEF T

(* A change of the stream replaces what is under its key. *)
LEMMA StreamAt ==
    ASSUME TypeInv, StreamApplies
    PROVE  /\ pending \in Seq(Change) /\ pending # <<>> /\ pending' = Tail(pending)
           /\ Head(pending) \in Change
           /\ \A t \in Tbl, k \in PrimaryKey :
                /\ About(Head(pending), t, k) =>
                     target'[t][k] = IF Head(pending).live
                                     THEN Merged(target[t][k], Head(pending).ver) ELSE <<>>
                /\ ~ About(Head(pending), t, k) => target'[t][k] = target[t][k]
<1> DEFINE c == Head(pending)
<1>1. /\ pending \in Seq(Change) /\ pending # <<>> /\ pending' = Tail(pending)
      /\ target \in [Tbl -> [PrimaryKey -> Versions]]
      BY DEF StreamApplies, TypeInv, HandoffTypeOK, BackfillTypeOK, Versions
<1>2. c \in Change
      BY <1>1
<1>3. target' = [target EXCEPT ![c.table][c.key] =
                    IF c.live THEN Merged(target[c.table][c.key], c.ver) ELSE <<>>]
      BY <1>1, <1>2 DEF StreamApplies, Change
<1> HIDE DEF c
<1> DEFINE vs == IF c.live THEN Merged(target[c.table][c.key], c.ver) ELSE <<>>
<1>4. target' = [target EXCEPT ![c.table][c.key] = vs]
      BY <1>3
<1>5. c.table \in Tbl /\ c.key \in PrimaryKey
      BY <1>2 DEF Change
<1> HIDE DEF vs
<1>6. \A t \in Tbl, k \in PrimaryKey :
         target'[t][k] = IF t = c.table /\ k = c.key THEN vs ELSE target[t][k]
      BY <1>1, <1>4, <1>5
<1>7. QED
      BY <1>1, <1>2, <1>6 DEF About, vs, c

(* A batch of reconcile leaves, under the key of each of its rows, that of one of them. *)
LEMMA MergeAt ==
    ASSUME TypeInv, MergeBatch
    PROVE  /\ Tables[rcAt] \in Tbl
           /\ \E batch \in SUBSET result :
                /\ result' = result \ batch
                /\ \A t \in Tbl, k \in PrimaryKey :
                     /\ t = Tables[rcAt] /\ k \in KeysOf(batch) =>
                          \E q \in batch : KeyOf(q) = k /\ target'[t][k] = Merged(target[t][k], q.ver)
                     /\ ~ (t = Tables[rcAt] /\ k \in KeysOf(batch)) => target'[t][k] = target[t][k]
<1> DEFINE T == Tables[rcAt]
<1>1. T \in Tbl /\ result \in SUBSET Row /\ result # {}
      BY DEF MergeBatch, TypeInv, HandoffTypeOK, ControlOK, Tbl
<1>2. PICK batch \in Lowest(InsertSize, result) :
         /\ target' = [target EXCEPT ![T] =
               [k \in PrimaryKey |->
                   IF k \in KeysOf(batch)
                   THEN Merged(@[k], (CHOOSE r \in batch : KeyOf(r) = k).ver) ELSE @[k]]]
         /\ result' = result \ batch
      BY DEF MergeBatch
<1>3. batch \in SUBSET result
      BY <1>1, LowestOf, BackfillAssumption
<1>4. target \in [Tbl -> [PrimaryKey -> Versions]]
      BY DEF TypeInv, HandoffTypeOK, BackfillTypeOK, Versions
<1> HIDE DEF T
<1> DEFINE row(k) == CHOOSE r \in batch : KeyOf(r) = k
           new == [k \in PrimaryKey |->
                      IF k \in KeysOf(batch) THEN Merged(target[T][k], row(k).ver) ELSE target[T][k]]
<1>5. target' = [target EXCEPT ![T] = new]
      BY <1>1, <1>2, <1>4
<1>6. \A k \in PrimaryKey :
         new[k] = IF k \in KeysOf(batch) THEN Merged(target[T][k], row(k).ver) ELSE target[T][k]
      OBVIOUS
<1>7. \A k \in KeysOf(batch) : row(k) \in batch /\ KeyOf(row(k)) = k
      BY DEF KeysOf
<1> HIDE DEF new, row
<1>8. target'[T] = new /\ \A t \in Tbl : t # T => target'[t] = target[t]
      BY <1>1, <1>4, <1>5
<1>9. QED
      BY <1>1, <1>2, <1>3, <1>6, <1>7, <1>8 DEF T
-----------------------------------------------------------------------------
(* The checkpoint.                                                         *)

LEMMA HonestInit ==
    ASSUME NEW K \in SUBSET PrimaryKey, HandoffInit
    PROVE  HonestInv(K)
<1>1. PICK keys \in [Tbl -> SUBSET PrimaryKey] :
         /\ source = [t \in Tbl |-> {[id |-> k.id, tenant |-> k.tenant, ver |-> 0] : k \in keys[t]}]
         /\ stable = {p \in Tbl \X PrimaryKey : p[2] \in keys[p[1]]}
      BY DEF HandoffInit, BackfillInit
<1>2. ASSUME NEW t \in Tbl, NEW k \in PrimaryKey, <<t, k>> \in stable
      PROVE  k \in KeysOf(source[t])
  <2> DEFINE r == [id |-> k.id, tenant |-> k.tenant, ver |-> 0]
  <2>1. r \in source[t]
        BY <1>1, <1>2
  <2>2. KeyOf(r) = k
        BY DEF KeyOf, PrimaryKey
  <2>3. QED
        BY <2>1, <2>2 DEF KeysOf
<1>3. file.state = "none" /\ pc = "off" /\ pending = <<>>
      BY DEF HandoffInit, BackfillInit
<1>4. DOMAIN pending = {}
      BY <1>3
<1>5. QED
      BY <1>2, <1>3, <1>4 DEF HonestInv

(* A checkpoint stays honest while what it speaks of stays in the warehouse. *)
LEMMA HonestKept ==
    ASSUME NEW K \in SUBSET PrimaryKey, NEW c, NEW rows, NEW rest \in SUBSET rows, NEW old, NEW new,
           HonestAt(K, c, rows, old),
           \A t \in Tbl, k \in K :
              <<t, k>> \in rest /\ old[t][k] # <<>> => new[t][k] # <<>>
    PROVE  HonestAt(K, c, rest, new)
BY DEF HonestAt

LEMMA HonestSource ==
    ASSUME NEW K \in SUBSET PrimaryKey, TypeInv, HonestInv(K), CapturedChange
    PROVE  HonestInv(K)'
<1>1. PICK t \in Tbl, k \in PrimaryKey, live \in BOOLEAN :
         /\ IF live THEN Upsert(t, k) ELSE Remove(t, k)
         /\ Captured([table |-> t, key |-> k, ver |-> clock + 1, live |-> live])
      BY DEF CapturedChange
<1>2. UNCHANGED <<target, file, cp, pc, at, page, streaming>>
      BY DEF CapturedChange
<1>3. stable' \subseteq stable /\ (~ live => <<t, k>> \notin stable')
      BY <1>1 DEF Upsert, Remove
<1>4. source \in [Tbl -> SUBSET Row]
      BY DEF TypeInv, HandoffTypeOK, BackfillTypeOK
<1>5. ASSUME NEW u \in Tbl, NEW l \in PrimaryKey, <<u, l>> \in stable'
      PROVE  l \in KeysOf(source'[u])
  <2>1. PICK r \in source[u] : KeyOf(r) = l
        BY <1>3, <1>5 DEF HonestInv, KeysOf
  <2>2. CASE u = t /\ l = k
    <3> DEFINE new == [id |-> k.id, tenant |-> k.tenant, ver |-> clock + 1]
    <3>1. live
          BY <1>3, <1>5, <2>2
    <3>2. new \in source'[t]
          BY <1>1, <1>4, <3>1 DEF Upsert
    <3>3. KeyOf(new) = k
          BY DEF KeyOf, PrimaryKey
    <3>4. QED
          BY <2>2, <3>2, <3>3 DEF KeysOf
  <2>3. CASE ~ (u = t /\ l = k)
    <3>1. r \in source'[u]
          BY <1>1, <1>4, <2>1, <2>3 DEF Upsert, Remove, Without
    <3>2. QED
          BY <2>1, <3>1 DEF KeysOf
  <2>4. QED
        BY <2>2, <2>3
<1>6. /\ file'.state = "saved" => HonestAt(K, file'.cp, stable', target')
      /\ pc' # "off" => HonestAt(K, cp', stable', target')
      BY <1>2, <1>3, HonestKept DEF HonestInv
<1>7. pc' = "insert" =>
         \A r \in page', l \in K :
             <<Tables[at'], l>> \in stable' /\ l.id <= r.id
                => target'[Tables[at']][l] # <<>> \/ l \in KeysOf(page')
      BY <1>2, <1>3 DEF HonestInv, Loaded
<1>8. \A i \in DOMAIN pending' :
         ~ pending'[i].live => <<pending'[i].table, pending'[i].key>> \notin stable'
  <2> DEFINE c == [table |-> t, key |-> k, ver |-> clock + 1, live |-> live]
  <2>0. c \in Change /\ c.table = t /\ c.key = k /\ c.live = live
    <3>1. clock + 1 \in 0..MaxChanges
          BY <1>1, BackfillAssumption DEF TypeInv, HandoffTypeOK, BackfillTypeOK, Upsert, Remove
    <3>2. QED
          BY <3>1 DEF Change
  <2>1. pending' = IF streaming THEN Append(pending, c) ELSE pending
        BY <1>1 DEF Captured
  <2>2. pending \in Seq(Change)
        BY DEF TypeInv, HandoffTypeOK
  <2> HIDE DEF c
  <2>3. \A i \in DOMAIN pending' : (i \in DOMAIN pending /\ pending'[i] = pending[i]) \/ pending'[i] = c
        BY <2>0, <2>1, <2>2, AppendAt
  <2>4. QED
        BY <1>3, <2>0, <2>3 DEF HonestInv
<1>9. QED
      BY <1>5, <1>6, <1>7, <1>8 DEF HonestInv, Loaded

(* Steps that leave source, warehouse and slot alone. *)
LEMMA HonestControl ==
    ASSUME NEW K \in SUBSET PrimaryKey, TypeInv, FileOK, HonestInv(K), UNCHANGED <<sourceVars, target, pending>>,
           \/ UNCHANGED <<file, cp, pc, at, page>>
           \/ Start \/ RemoveFile \/ SkipDone \/ EnterTable \/ Finished \/ SaveOpens \/ SaveDumps
              \/ Crash
    PROVE  HonestInv(K)'
<1>1. SUFFICES /\ file'.state = "saved" => HonestAt(K, file'.cp, stable, target)
               /\ pc' # "off" => HonestAt(K, cp', stable, target)
               /\ pc' = "insert" => pc = "insert" /\ at' = at /\ page' = page
      BY DEF HonestInv, sourceVars, Loaded
<1>2. CASE UNCHANGED <<file, cp, pc, at, page>>
      BY <1>2 DEF HonestInv
<1>3. CASE Start
  <2>1. HonestAt(K, Fresh, stable, target)
        BY DEF HonestAt, Fresh, PrimaryKey
  <2>2. QED
        BY <1>3, <2>1 DEF Start, HonestInv
<1>4. CASE RemoveFile
      BY <1>4 DEF RemoveFile, HonestInv
<1>5. CASE SkipDone \/ EnterTable
      BY <1>5 DEF SkipDone, EnterTable, HonestInv
<1>6. CASE Finished \/ Crash
      BY <1>6 DEF Finished, Crash, HonestInv
<1>7. CASE SaveOpens \/ SaveDumps
      BY <1>7 DEF SaveOpens, SaveDumps, HonestInv
<1>8. QED
      BY <1>2, <1>3, <1>4, <1>5, <1>6, <1>7

(* What is truncated was not said to be loaded. *)
LEMMA HonestTruncate ==
    ASSUME NEW K \in SUBSET PrimaryKey, TypeInv, FileOK, HonestInv(K), Truncate, UNCHANGED pending
    PROVE  HonestInv(K)'
<1> DEFINE T == Tables[at]
<1>1. T \in Tbl
      BY DEF Truncate, TypeInv, ControlOK, InTable, Tbl
<1>2. /\ pc = "truncate" /\ pc' = "select" /\ UNCHANGED <<sourceVars, file, cp>>
      /\ \A t \in Tbl : t # T => target'[t] = target[t]
      BY <1>1 DEF Truncate, TypeInv, HandoffTypeOK, BackfillTypeOK
<1>3. ~ cp.done[T] /\ cp.last[T] = 0 /\ (file.state = "saved" => file.cp = cp)
      BY <1>2 DEF FileOK, InTable
<1>4. \A k \in PrimaryKey : ~ (k.id <= 0)
      BY BackfillAssumption DEF PrimaryKey
<1> HIDE DEF T
<1>5. HonestAt(K, cp, stable, target')
      BY <1>2, <1>3, <1>4 DEF HonestInv, HonestAt
<1>6. QED
      BY <1>2, <1>3, <1>5 DEF HonestInv, sourceVars

(* A page begins behind last_id and passes over no id. *)
LEMMA HonestSelect ==
    ASSUME NEW K \in SUBSET PrimaryKey, TypeInv, FileOK, IdsUnique(K), HonestInv(K), SelectPage, UNCHANGED pending
    PROVE  HonestInv(K)'
<1> DEFINE T == Tables[at]
<1>1. T \in Tbl
      BY DEF SelectPage, TypeInv, ControlOK, InTable, Tbl
<1>2. /\ pc = "select" /\ pc' = "insert" /\ UNCHANGED <<sourceVars, target, file, cp, at>>
      /\ page' \in Lowest(PageSize, Beyond) /\ Beyond # {}
      BY DEF SelectPage
<1>3. Beyond \in SUBSET Row /\ Beyond = {r \in source[T] : r.id > last}
      BY <1>1 DEF Beyond, TypeInv, HandoffTypeOK, BackfillTypeOK
<1>4. page' \subseteq Beyond /\ \A r \in page', q \in Beyond \ page' : r.id <= q.id
      BY <1>2, <1>3, LowestOf, BackfillAssumption
<1>5. ASSUME NEW r \in page', NEW k \in K, <<T, k>> \in stable, k.id <= r.id
      PROVE  target[T][k] # <<>> \/ k \in KeysOf(page')
  <2>1. PICK q \in source[T] : KeyOf(q) = k
        BY <1>1, <1>5 DEF HonestInv, KeysOf
  <2>2. q \in Row /\ r \in Row /\ r \in source[T]
        BY <1>1, <1>3, <1>4 DEF TypeInv, HandoffTypeOK, BackfillTypeOK
  <2>3. k.id = q.id /\ q.id \in Nat /\ r.id \in Nat /\ last \in Nat
    <3>1. k.id = q.id
          BY <2>1, <2>2, KeyType
    <3>2. q.id \in Nat /\ r.id \in Nat
          BY <2>2, BackfillAssumption DEF Row
    <3>3. last \in Nat
          BY BackfillAssumption DEF TypeInv, HandoffTypeOK, BackfillTypeOK
    <3>4. QED
          BY <3>1, <3>2, <3>3
  <2>4. CASE k.id <= last
    <3>1. cp.last[T] = last
          BY <1>2 DEF FileOK, InTable
    <3>2. QED
          BY <1>1, <1>2, <1>5, <2>4, <3>1 DEF HonestInv, HonestAt
  <2>5. CASE q \in page'
        BY <2>1, <2>5 DEF KeysOf
  <2>6. CASE q \notin page' /\ k.id > last
    <3>1. q \in Beyond \ page'
          BY <1>3, <2>1, <2>3, <2>6
    <3>2. r.id = q.id
          BY <1>4, <1>5, <2>3, <3>1
    <3>3. r = q
          BY <1>1, <1>5, <2>1, <2>2, <3>2 DEF IdsUnique
    <3>4. QED
          BY <2>6, <3>3
  <2>7. QED
        BY <2>3, <2>4, <2>5, <2>6
<1>6. QED
      BY <1>2, <1>5 DEF HonestInv, sourceVars, Loaded

(* Behind a page in work every row up to its last id is loaded. *)
LEMMA HonestInsert ==
    ASSUME NEW K \in SUBSET PrimaryKey, TypeInv, FileOK, HonestInv(K), InsertBatch, UNCHANGED pending
    PROVE  HonestInv(K)'
<1> DEFINE T == Tables[at]
<1>1. /\ T \in Tbl /\ page \in SUBSET Row /\ page # {} /\ pc = "insert"
      /\ UNCHANGED <<sourceVars, file, at>>
      BY DEF InsertBatch, TypeInv, HandoffTypeOK, BackfillTypeOK, ControlOK, InTable, Tbl
<1>2. PICK batch \in SUBSET page :
         /\ page' = page \ batch
         /\ \A t \in Tbl, k \in PrimaryKey :
              /\ t = T /\ k \in KeysOf(batch) =>
                   \E q \in batch : KeyOf(q) = k /\ target'[t][k] = Append(target[t][k], q.ver)
              /\ ~ (t = T /\ k \in KeysOf(batch)) => target'[t][k] = target[t][k]
      BY InsertAt
<1>3. /\ target \in [Tbl -> [PrimaryKey -> Versions]]
      /\ \A r \in page : r.ver \in 0..MaxChanges /\ r.id \in 0..MaxId
      BY <1>1, BackfillAssumption DEF TypeInv, HandoffTypeOK, BackfillTypeOK, Versions, Row
<1> HIDE DEF T
<1>4. ASSUME NEW vs \in Versions, NEW v \in 0..MaxChanges
      PROVE  Append(vs, v) # <<>>
      BY DEF Versions
<1>5. /\ \A k \in PrimaryKey : k \in KeysOf(batch) => target'[T][k] # <<>>
      /\ \A t \in Tbl, k \in PrimaryKey : target[t][k] # <<>> => target'[t][k] # <<>>
  <2>1. ASSUME NEW k \in PrimaryKey, k \in KeysOf(batch)
        PROVE  target'[T][k] # <<>>
    <3>1. PICK q \in batch : target'[T][k] = Append(target[T][k], q.ver)
          BY <1>1, <1>2, <2>1
    <3>2. target[T][k] \in Versions /\ q.ver \in 0..MaxChanges
          BY <1>1, <1>2, <1>3
    <3>3. QED
          BY <1>4, <3>1, <3>2
  <2>2. QED
        BY <1>2, <2>1
<1>6. HonestAt(K, cp, stable, target') /\ (file.state = "saved" => HonestAt(K, file.cp, stable, target'))
      BY <1>1, <1>5, HonestKept DEF HonestInv
<1>7. ASSUME NEW r \in page, NEW k \in K, <<T, k>> \in stable, k.id <= r.id
      PROVE  target'[T][k] # <<>> \/ k \in KeysOf(page')
  <2>1. target[T][k] # <<>> \/ k \in KeysOf(page)
        BY <1>1, <1>7 DEF HonestInv, Loaded, T
  <2>2. k \in KeysOf(page) => k \in KeysOf(batch) \/ k \in KeysOf(page')
        BY <1>2 DEF KeysOf
  <2>3. QED
        BY <1>1, <1>5, <2>1, <2>2
<1>8. CASE page' # {}
  <2>1. UNCHANGED <<cp, pc>>
        BY <1>8 DEF InsertBatch
  <2>2. \A r \in page', k \in K :
           <<T, k>> \in stable /\ k.id <= r.id => target'[T][k] # <<>> \/ k \in KeysOf(page')
        BY <1>2, <1>7
  <2>3. QED
        BY <1>1, <1>6, <2>1, <2>2 DEF HonestInv, sourceVars, Loaded, T
<1>9. CASE page' = {}
  <2>1. last' = Max({r.id : r \in page}) /\ cp' = [cp EXCEPT !.last[T] = last'] /\ pc' = "save"
        BY <1>9 DEF InsertBatch, T
  <2>2. PICK r \in page : last' = r.id
    <3>1. {r.id : r \in page} \in SUBSET (0..MaxId) /\ {r.id : r \in page} # {}
          BY <1>1, <1>3
    <3>2. QED
          BY <2>1, <3>1, LargestOf
  <2>3. KeysOf(page') = {}
        BY <1>9 DEF KeysOf
  <2>4. /\ cp'.last[T] = last' /\ cp'.done = cp.done
        /\ \A t \in Tbl : t # T => cp'.last[t] = cp.last[t]
        BY <1>1, <2>1 DEF TypeInv, HandoffTypeOK, BackfillTypeOK, Checkpoint
  <2>5. ~ cp.done[T]
        BY <1>1 DEF FileOK, InTable, T
  <2>6. HonestAt(K, cp', stable, target')
        BY <1>6, <1>7, <2>2, <2>3, <2>4, <2>5 DEF HonestAt
  <2>7. QED
        BY <1>1, <1>6, <2>1, <2>6 DEF HonestInv, sourceVars
<1>10. QED
      BY <1>8, <1>9

(* When nothing lies behind last_id, all that was there is loaded. *)
LEMMA HonestDone ==
    ASSUME NEW K \in SUBSET PrimaryKey, TypeInv, FileOK, HonestInv(K), TableDone, UNCHANGED pending
    PROVE  HonestInv(K)'
<1> DEFINE T == Tables[at]
<1>1. /\ T \in Tbl /\ pc = "select" /\ pc' = "save" /\ UNCHANGED <<sourceVars, target, file>>
      /\ Beyond = {} /\ cp.last[T] = last
      BY DEF TableDone, TypeInv, ControlOK, FileOK, InTable, Tbl
<1>2. /\ cp'.last = cp.last
      /\ \A t \in Tbl : t # T => cp'.done[t] = cp.done[t]
      BY <1>1 DEF TableDone, TypeInv, HandoffTypeOK, BackfillTypeOK, Checkpoint
<1> HIDE DEF T
<1>3. ASSUME NEW k \in PrimaryKey, <<T, k>> \in stable
      PROVE  k.id <= cp.last[T]
  <2>1. PICK q \in source[T] : KeyOf(q) = k
        BY <1>1, <1>3 DEF HonestInv, KeysOf
  <2>2. q \in Row /\ last \in Nat
        BY <1>1, BackfillAssumption DEF TypeInv, HandoffTypeOK, BackfillTypeOK
  <2>3. k.id = q.id /\ q.id \in Nat
        BY <2>1, <2>2, KeyType, BackfillAssumption DEF Row
  <2>4. ~ (q.id > last)
        BY <1>1 DEF Beyond, T
  <2>5. QED
        BY <1>1, <2>2, <2>3, <2>4
<1>4. HonestAt(K, cp', stable, target)
      BY <1>1, <1>2, <1>3 DEF HonestInv, HonestAt
<1>5. QED
      BY <1>1, <1>4 DEF HonestInv, sourceVars

(* The stream empties only what was deleted. *)
LEMMA HonestStream ==
    ASSUME NEW K \in SUBSET PrimaryKey, TypeInv, HonestInv(K), StreamApplies
    PROVE  HonestInv(K)'
<1>1. UNCHANGED <<sourceVars, file, cp, pc, at, page>>
      BY DEF StreamApplies
<1> DEFINE c == Head(pending)
<1>2. /\ pending \in Seq(Change) /\ pending # <<>> /\ pending' = Tail(pending) /\ c \in Change
      /\ \A t \in Tbl, k \in PrimaryKey :
           /\ About(c, t, k) =>
                target'[t][k] = IF c.live THEN Merged(target[t][k], c.ver) ELSE <<>>
           /\ ~ About(c, t, k) => target'[t][k] = target[t][k]
      BY StreamAt
<1>3. /\ c = pending[1] /\ 1 \in DOMAIN pending
      /\ \A i \in DOMAIN pending' : i + 1 \in DOMAIN pending /\ pending'[i] = pending[i + 1]
      BY <1>2, TailAt
<1> HIDE DEF c
<1>4. c.ver \in 0..MaxChanges /\ \A t \in Tbl, k \in PrimaryKey : target[t][k] \in Versions
      BY <1>2 DEF Change, Versions, TypeInv, HandoffTypeOK, BackfillTypeOK
<1>5. ASSUME NEW t \in Tbl, NEW k \in PrimaryKey, <<t, k>> \in stable, target[t][k] # <<>>
      PROVE  target'[t][k] # <<>>
  <2>1. CASE About(c, t, k)
    <3>1. c.live
          BY <1>3, <1>5, <2>1 DEF HonestInv, About
    <3>2. QED
          BY <1>2, <1>4, <2>1, <3>1, MergedShows
  <2>2. CASE ~ About(c, t, k)
        BY <1>2, <1>5, <2>2
  <2>3. QED
        BY <2>1, <2>2
<1>6. /\ file.state = "saved" => HonestAt(K, file.cp, stable, target')
      /\ pc # "off" => HonestAt(K, cp, stable, target')
      BY <1>5, HonestKept DEF HonestInv
<1>7. pc = "insert" =>
         \A r \in page, k \in K :
             <<Tables[at], k>> \in stable /\ k.id <= r.id
                => target'[Tables[at]][k] # <<>> \/ k \in KeysOf(page)
  <2>1. pc = "insert" => Tables[at] \in Tbl
        BY DEF TypeInv, ControlOK, InTable, Tbl
  <2>2. QED
        BY <1>5, <2>1 DEF HonestInv, Loaded
<1>8. \A i \in DOMAIN pending' :
         ~ pending'[i].live => <<pending'[i].table, pending'[i].key>> \notin stable
      BY <1>3 DEF HonestInv
<1>9. QED
      BY <1>1, <1>6, <1>7, <1>8 DEF HonestInv, sourceVars, Loaded

(* Reconcile empties nothing. *)
LEMMA HonestMerge ==
    ASSUME NEW K \in SUBSET PrimaryKey, TypeInv, HonestInv(K), MergeBatch
    PROVE  HonestInv(K)'
<1>1. UNCHANGED <<sourceVars, file, cp, pc, at, page, pending>>
      BY DEF MergeBatch
<1>2. PICK batch \in SUBSET result :
         \A t \in Tbl, k \in PrimaryKey :
            /\ t = Tables[rcAt] /\ k \in KeysOf(batch) =>
                 \E q \in batch : KeyOf(q) = k /\ target'[t][k] = Merged(target[t][k], q.ver)
            /\ ~ (t = Tables[rcAt] /\ k \in KeysOf(batch)) => target'[t][k] = target[t][k]
      BY MergeAt
<1>3. \A q \in result : q.ver \in 0..MaxChanges
      BY DEF TypeInv, HandoffTypeOK, Row
<1>4. \A t \in Tbl, k \in PrimaryKey : target[t][k] \in Versions
      BY DEF Versions, TypeInv, HandoffTypeOK, BackfillTypeOK
<1>5. ASSUME NEW t \in Tbl, NEW k \in PrimaryKey, target[t][k] # <<>>
      PROVE  target'[t][k] # <<>>
  <2>1. CASE t = Tables[rcAt] /\ k \in KeysOf(batch)
        BY <1>2, <1>3, <1>4, <2>1, MergedShows
  <2>2. CASE ~ (t = Tables[rcAt] /\ k \in KeysOf(batch))
        BY <1>2, <1>5, <2>2
  <2>3. QED
        BY <2>1, <2>2
<1>6. /\ file.state = "saved" => HonestAt(K, file.cp, stable, target')
      /\ pc # "off" => HonestAt(K, cp, stable, target')
      BY <1>5, HonestKept DEF HonestInv
<1>7. pc = "insert" => Tables[at] \in Tbl
      BY DEF TypeInv, ControlOK, InTable, Tbl
<1>8. QED
      BY <1>1, <1>5, <1>6, <1>7 DEF HonestInv, sourceVars, Loaded

LEMMA HonestStep ==
    ASSUME NEW K \in SUBSET PrimaryKey, TypeInv, FileOK, IdsUnique(K), HonestInv(K), [HandoffNext]_handoffVars
    PROVE  HonestInv(K)'
<1>1. CASE CapturedChange
      BY <1>1, HonestSource
<1>2. CASE BackfillStep
  <2>1. UNCHANGED pending
        BY <1>2 DEF BackfillStep
  <2>2. CASE Truncate \/ SelectPage \/ InsertBatch \/ TableDone
        BY <2>1, <2>2, HonestTruncate, HonestSelect, HonestInsert, HonestDone
  <2>3. CASE Start \/ RemoveFile \/ SkipDone \/ EnterTable \/ Finished \/ SaveOpens \/ SaveDumps
                \/ Crash
    <3>1. UNCHANGED <<sourceVars, target>>
          BY <2>3 DEF Start, RemoveFile, SkipDone, EnterTable, Finished, SaveOpens, SaveDumps, Crash
    <3>2. QED
          BY <2>1, <2>3, <3>1, HonestControl
  <2>4. QED
        BY <1>2, <2>2, <2>3 DEF BackfillStep, Script, Operator
<1>3. CASE StreamApplies \/ MergeBatch
      BY <1>3, HonestStream, HonestMerge
<1>4. CASE CreateSlot \/ StartReconcile \/ ReadChanged \/ TableReconciled \/ Reconciled
              \/ ReconcileCrash \/ UNCHANGED handoffVars
  <2>1. UNCHANGED <<sourceVars, target, pending, file, cp, pc, at, page>>
        BY <1>4 DEF CreateSlot, StartReconcile, ReadChanged, TableReconciled, Reconciled,
                    ReconcileCrash, backfillVars, handoffVars
  <2>2. QED
        BY <2>1, HonestControl
<1>5. QED
      BY <1>1, <1>2, <1>3, <1>4 DEF HandoffNext, Service, Reconcile
-----------------------------------------------------------------------------
(* The gap between load and slot.                                          *)

LEMMA GapInit == HandoffInit => UntouchedInv /\ ChangedInv
<1> SUFFICES ASSUME HandoffInit PROVE UntouchedInv /\ ChangedInv
    OBVIOUS
<1>1. PICK keys \in [Tbl -> SUBSET PrimaryKey] :
         /\ source = [t \in Tbl |-> {[id |-> k.id, tenant |-> k.tenant, ver |-> 0] : k \in keys[t]}]
         /\ stable = {p \in Tbl \X PrimaryKey : p[2] \in keys[p[1]]}
      BY DEF HandoffInit, BackfillInit
<1>2. /\ pc = "off" /\ rc = "todo" /\ pending = <<>>
      /\ \A t \in Tbl, k \in PrimaryKey : target[t][k] = <<>>
      BY DEF HandoffInit, BackfillInit
<1>3. DOMAIN pending = {} /\ DOMAIN <<>> = {}
      BY <1>2
<1>4. ASSUME NEW t \in Tbl, NEW r \in source[t] PROVE Untouched(t, r)
  <2>1. PICK k \in keys[t] : r = [id |-> k.id, tenant |-> k.tenant, ver |-> 0]
        BY <1>1
  <2>2. KeyOf(r) = k /\ k \in PrimaryKey
        BY <2>1 DEF KeyOf, PrimaryKey
  <2>3. <<t, k>> \in stable
        BY <1>1, <2>1, <2>2
  <2>4. QED
        BY <1>2, <1>3, <2>2, <2>3 DEF Untouched, Awaited
<1>5. QED
      BY <1>2, <1>3, <1>4 DEF UntouchedInv, ChangedInv, LastIsRow, ToDo

LEMMA NewerInit == HandoffInit => NoneNewer
<1> SUFFICES ASSUME HandoffInit PROVE NoneNewer
    OBVIOUS
<1>1. PICK keys \in [Tbl -> SUBSET PrimaryKey] :
         source = [t \in Tbl |-> {[id |-> k.id, tenant |-> k.tenant, ver |-> 0] : k \in keys[t]}]
      BY DEF HandoffInit, BackfillInit
<1>2. clock = 0 /\ result = {}
      BY DEF HandoffInit, BackfillInit
<1>3. QED
      BY <1>1, <1>2 DEF NoneNewer

(* A changed row is newer than all that was ever read. *)
LEMMA NewerStep == TypeInv /\ RowsKeyed /\ NoneNewer /\ [HandoffNext]_handoffVars => NoneNewer'
<1> SUFFICES ASSUME TypeInv, RowsKeyed, NoneNewer, [HandoffNext]_handoffVars PROVE NoneNewer'
    OBVIOUS
<1>0. /\ source \in [Tbl -> SUBSET Row] /\ clock \in Nat
      /\ rc = "merge" => Tables[rcAt] \in Tbl
      BY BackfillAssumption DEF TypeInv, HandoffTypeOK, BackfillTypeOK, ControlOK, Tbl
<1>1. ASSUME UNCHANGED <<source, clock>>, result' \subseteq result,
             rc' = "merge" => rc = "merge" /\ rcAt' = rcAt
      PROVE  NoneNewer'
      BY <1>1 DEF NoneNewer
<1>2. CASE CapturedChange
  <2>1. PICK t \in Tbl, k \in PrimaryKey : Upsert(t, k) \/ Remove(t, k)
        BY <1>2 DEF CapturedChange
  <2>2. clock' = clock + 1 /\ UNCHANGED <<rc, rcAt, result>>
        BY <1>2, <2>1 DEF CapturedChange, Upsert, Remove, reconcileVars
  <2>3. ASSUME NEW u \in Tbl, NEW r \in source'[u]
        PROVE  r \in source[u] \/ r.ver = clock + 1
        BY <1>0, <2>1, <2>3 DEF Upsert, Remove, Without
  <2>4. \A q \in result : q.ver \in Nat /\ q.ver <= clock
        BY DEF NoneNewer, TypeInv, HandoffTypeOK, Row
  <2>5. \A u \in Tbl : \A r \in source[u] : r.ver \in Nat /\ r.ver <= clock
        BY <1>0 DEF NoneNewer, Row
  <2>6. \A u \in Tbl : \A r \in source'[u] : r.ver <= clock'
        BY <1>0, <2>2, <2>3, <2>5
  <2>7. \A q \in result' : q.ver <= clock'
        BY <1>0, <2>2, <2>4
  <2>8. rc' = "merge" =>
           \A r \in source'[Tables[rcAt']], q \in result' : KeyOf(q) = KeyOf(r) => q.ver <= r.ver
        BY <1>0, <2>2, <2>3, <2>4 DEF NoneNewer
  <2>9. QED
        BY <2>6, <2>7, <2>8 DEF NoneNewer
<1>3. CASE ReadChanged
  <2>1. /\ UNCHANGED <<source, clock, rcAt>> /\ rcAt \in DOMAIN Tables /\ Tables[rcAt] \in Tbl
        /\ result' = {r \in source[Tables[rcAt]] : r.ver > 0}
        BY <1>3, BackfillAssumption
        DEF ReadChanged, backfillVars, sourceVars, TypeInv, HandoffTypeOK, Tbl
  <2>2. Keyed(source[Tables[rcAt]])
        BY <2>1 DEF RowsKeyed
  <2>3. \A q \in result' : q \in source[Tables[rcAt]] /\ q.ver \in Nat
        BY <1>0, <2>1 DEF Row
  <2>4. QED
        BY <2>1, <2>2, <2>3 DEF NoneNewer, Keyed
<1>4. CASE BackfillStep
  <2>1. UNCHANGED <<source, clock>>
        BY <1>4
        DEF BackfillStep, Script, Operator, Start, RemoveFile, SkipDone, EnterTable, Finished,
            Truncate, SelectPage, InsertBatch, TableDone, SaveOpens, SaveDumps, Crash, sourceVars
  <2>2. QED
        BY <1>1, <1>4, <2>1 DEF BackfillStep, reconcileVars
<1>5. CASE Service
      BY <1>1, <1>5 DEF Service, CreateSlot, StreamApplies, backfillVars, sourceVars, reconcileVars
<1>6. CASE MergeBatch
  <2>1. result' \subseteq result
        BY <1>6, ReconcileRewrites
  <2>2. QED
        BY <1>1, <1>6, <2>1 DEF MergeBatch, sourceVars
<1>7. CASE StartReconcile \/ TableReconciled \/ Reconciled \/ ReconcileCrash
      BY <1>1, <1>7 DEF StartReconcile, TableReconciled, Reconciled, ReconcileCrash,
                        backfillVars, sourceVars
<1>8. CASE UNCHANGED handoffVars
      BY <1>1, <1>8 DEF handoffVars, backfillVars, sourceVars, reconcileVars
<1>9. QED
      BY <1>2, <1>3, <1>4, <1>5, <1>6, <1>7, <1>8 DEF HandoffNext, Reconcile

(* A change of the source: the slot holds it, or there is no slot and reconcile is to come. *)
LEMMA GapSource ==
    ASSUME TypeInv, FileOK, UntouchedInv, ChangedInv, CapturedChange
    PROVE  UntouchedInv' /\ ChangedInv'
<1>1. PICK t \in Tbl, k \in PrimaryKey, live \in BOOLEAN :
         /\ IF live THEN Upsert(t, k) ELSE Remove(t, k)
         /\ Captured([table |-> t, key |-> k, ver |-> clock + 1, live |-> live])
      BY DEF CapturedChange
<1>2. UNCHANGED <<target, pc, at, page, streaming, rc, rcAt, result, overtaken>>
      BY DEF CapturedChange, reconcileVars
<1> DEFINE c == [table |-> t, key |-> k, ver |-> clock + 1, live |-> live]
           new == [id |-> k.id, tenant |-> k.tenant, ver |-> clock + 1]
<1>3. clock + 1 \in 0..MaxChanges /\ clock + 1 # 0
      BY <1>1, BackfillAssumption DEF TypeInv, HandoffTypeOK, BackfillTypeOK, Upsert, Remove
<1>4. /\ c \in Change /\ c.table = t /\ c.key = k /\ c.live = live /\ c.ver = clock + 1
      /\ new.ver = clock + 1
      BY <1>3 DEF Change
<1>5. source \in [Tbl -> SUBSET Row] /\ pending \in Seq(Change)
      BY DEF TypeInv, HandoffTypeOK, BackfillTypeOK
<1>6. ASSUME NEW u \in Tbl, NEW r \in source'[u]
      PROVE  \/ r \in source[u] /\ ~ (u = t /\ KeyOf(r) = k)
             \/ live /\ r.ver = clock + 1 /\ u = t /\ KeyOf(r) = k
  <2>1. KeyOf(new) = k
        BY DEF KeyOf, PrimaryKey
  <2> HIDE DEF new
  <2>2. CASE u # t
        BY <1>1, <1>5, <2>2 DEF Upsert, Remove
  <2>3. CASE u = t
    <3>1. source'[t] = IF live THEN Without(t, k) \cup {new} ELSE Without(t, k)
          BY <1>1, <1>5 DEF Upsert, Remove, new
    <3>2. QED
          BY <1>4, <2>1, <2>3, <3>1 DEF Without
  <2>4. QED
        BY <2>2, <2>3
<1>7. \A u, l : <<u, l>> \in stable /\ ~ (u = t /\ l = k) => <<u, l>> \in stable'
      BY <1>1 DEF Upsert, Remove
<1>8. pending' = IF streaming THEN Append(pending, c) ELSE pending
      BY <1>1 DEF Captured
<1> HIDE DEF c, new
<1>9. /\ Len(pending) \in Nat /\ DOMAIN pending = 1..Len(pending)
      /\ streaming => /\ DOMAIN pending' = 1..Len(pending) + 1
                      /\ pending'[Len(pending) + 1] = c
                      /\ \A i \in 1..Len(pending) : pending'[i] = pending[i]
      /\ ~ streaming => DOMAIN pending = {} /\ DOMAIN pending' = {} /\ rc = "todo"
  <2>1. ~ streaming => pending = <<>> /\ rc = "todo"
        BY DEF FileOK, TypeInv, ControlOK
  <2>2. QED
        BY <1>4, <1>5, <1>8, <2>1, AppendAt
<1>10. ASSUME NEW u \in Tbl, NEW l, ~ (u = t /\ l = k)
       PROVE  Awaited(u, l)' <=> Awaited(u, l)
  <2>1. ~ About(c, u, l)
        BY <1>4, <1>10 DEF About
  <2>2. CASE streaming
        BY <1>9, <2>1, <2>2 DEF Awaited, About
  <2>3. CASE ~ streaming
        BY <1>9, <2>3 DEF Awaited
  <2>4. QED
        BY <2>2, <2>3
<1>11. streaming => Awaited(t, k)'
  <2>1. About(c, t, k)
        BY <1>4 DEF About
  <2>2. QED
        BY <1>9, <2>1 DEF Awaited, About
<1>12. UntouchedInv'
  <2> SUFFICES ASSUME NEW u \in Tbl, NEW r \in source'[u], r.ver = 0
               PROVE  Untouched(u, r)'
      BY DEF UntouchedInv
  <2>1. r \in source[u] /\ ~ (u = t /\ KeyOf(r) = k)
        BY <1>3, <1>6
  <2>2. Untouched(u, r)
        BY <2>1 DEF UntouchedInv
  <2>3. <<u, KeyOf(r)>> \in stable'
        BY <1>7, <2>1, <2>2 DEF Untouched
  <2>4. ~ Awaited(u, KeyOf(r))'
        BY <1>10, <2>1, <2>2 DEF Untouched
  <2>5. QED
        BY <1>2, <2>2, <2>3, <2>4 DEF Untouched
<1>13. LastIsRow'
  <2> SUFFICES ASSUME NEW u \in Tbl, NEW r \in source'[u], NEW i \in DOMAIN pending',
                      LastAbout(i, u, KeyOf(r))'
               PROVE  pending'[i].live /\ pending'[i].ver = r.ver
      BY DEF LastIsRow
  <2>0. streaming
        BY <1>9
  <2>1. CASE i = Len(pending) + 1
    <3>1. u = t /\ KeyOf(r) = k
          BY <1>4, <1>9, <2>0, <2>1 DEF LastAbout, About
    <3>2. live /\ r.ver = clock + 1
          BY <1>6, <3>1
    <3>3. QED
          BY <1>4, <1>9, <2>0, <2>1, <3>2
  <2>2. CASE i # Len(pending) + 1
    <3>1. i \in 1..Len(pending) /\ Len(pending) + 1 > i /\ Len(pending) + 1 \in DOMAIN pending'
          BY <1>9, <2>0, <2>2
    <3>2. ~ About(c, u, KeyOf(r))
          BY <1>9, <2>0, <3>1 DEF LastAbout, About
    <3>3. r \in source[u]
          BY <1>4, <1>6, <3>2 DEF About
    <3>4. LastAbout(i, u, KeyOf(r))
          BY <1>9, <2>0, <3>1 DEF LastAbout, About
    <3>5. QED
          BY <1>9, <2>0, <3>1, <3>3, <3>4 DEF ChangedInv, LastIsRow
  <2>3. QED
        BY <2>1, <2>2
<1>14. ASSUME NEW u \in Tbl, NEW r \in source'[u], ~ Awaited(u, KeyOf(r))',
              <<u, KeyOf(r)>> \notin overtaken
       PROVE  /\ r.ver > 0 => Shows(u, r)' \/ ToDo(u, r)'
              /\ (rc = "merge" /\ u = Tables[rcAt])'
                    => \A q \in result' : KeyOf(q) = KeyOf(r) => q = r
  <2>1. CASE ~ streaming
        BY <1>2, <1>9, <2>1 DEF ToDo
  <2>2. CASE streaming
    <3>1. r \in source[u] /\ ~ (u = t /\ KeyOf(r) = k)
          BY <1>6, <1>11, <1>14, <2>2
    <3>2. ~ Awaited(u, KeyOf(r))
          BY <1>10, <1>14, <3>1
    <3>3. QED
          BY <1>2, <1>14, <3>1, <3>2 DEF ChangedInv, Shows, Loaded, ToDo
  <2>3. QED
        BY <2>1, <2>2
<1>15. (rc = "merge" => Keyed(result))'
      BY <1>2 DEF ChangedInv
<1>16. QED
      BY <1>2, <1>12, <1>13, <1>14, <1>15 DEF ChangedInv

(* The load writes what the source held when it looked, and nothing any more once reconcile
   is run. *)
LEMMA GapBackfill ==
    ASSUME TypeInv, RowsKeyed, FileOK, UntouchedInv, ChangedInv, BackfillStep
    PROVE  UntouchedInv' /\ ChangedInv'
<1>1. /\ UNCHANGED <<sourceVars, streaming, pending, rc, rcAt, result, overtaken>>
      /\ Script \/ Operator \/ Crash
  <2>1. UNCHANGED sourceVars
        BY DEF BackfillStep, Script, Operator, Start, RemoveFile, SkipDone, EnterTable, Finished,
               Truncate, SelectPage, InsertBatch, TableDone, SaveOpens, SaveDumps, Crash
  <2>2. QED
        BY <2>1 DEF BackfillStep, reconcileVars
<1>2. source' = source /\ stable' = stable
      BY <1>1 DEF sourceVars
<1>3. target' # target => InTable
      BY <1>1 DEF Script, Operator, Start, RemoveFile, SkipDone, EnterTable, Finished,
                  Truncate, SelectPage, InsertBatch, TableDone, SaveOpens, SaveDumps, Crash, InTable
<1>4. ChangedInv'
  <2>1. CASE rc # "todo"
    <3>1. target' = target
          BY <1>3, <2>1, DoneIsOut DEF FileOK
    <3>2. QED
          BY <1>1, <1>2, <3>1
          DEF ChangedInv, LastIsRow, LastAbout, Awaited, Shows, Loaded, ToDo
  <2>2. CASE rc = "todo"
        BY <1>1, <1>2, <2>2 DEF ChangedInv, LastIsRow, LastAbout, Awaited, ToDo
  <2>3. QED
        BY <2>1, <2>2
<1>5. ASSUME NEW t \in Tbl, NEW r \in source[t], Untouched(t, r), KeyOf(r) \in PrimaryKey,
             \A i \in DOMAIN target'[t][KeyOf(r)] : target'[t][KeyOf(r)][i] = 0,
             pc' = "insert" /\ t = Tables[at'] => \A q \in page' : KeyOf(q) = KeyOf(r) => q.ver = 0
      PROVE  Untouched(t, r)'
      BY <1>1, <1>2, <1>5 DEF Untouched, Awaited
<1>6. ASSUME NEW t \in Tbl, NEW r \in source[t], r.ver = 0
      PROVE  Untouched(t, r)'
  <2>1. Untouched(t, r)
        BY <1>6 DEF UntouchedInv
  <2>2. r \in Row /\ KeyOf(r) \in PrimaryKey
        BY KeyType DEF TypeInv, HandoffTypeOK, BackfillTypeOK
  <2>3. CASE Truncate
    <3>1. Tables[at] \in Tbl
          BY <2>3 DEF Truncate, TypeInv, ControlOK, InTable, Tbl
    <3>2. target'[t][KeyOf(r)] = IF t = Tables[at] THEN <<>> ELSE target[t][KeyOf(r)]
          BY <2>2, <2>3, <3>1 DEF Truncate, TypeInv, HandoffTypeOK, BackfillTypeOK
    <3>3. DOMAIN <<>> = {}
          OBVIOUS
    <3>4. \A i \in DOMAIN target'[t][KeyOf(r)] : target'[t][KeyOf(r)][i] = 0
          BY <2>1, <3>2, <3>3 DEF Untouched
    <3>5. pc' = "select"
          BY <2>3 DEF Truncate
    <3>6. QED
          BY <1>5, <2>1, <2>2, <3>4, <3>5
  <2>4. CASE SelectPage
    <3>1. target' = target /\ at' = at /\ HandoffNext
          BY <2>4 DEF SelectPage, HandoffNext
    <3>2. Beyond \in SUBSET Row /\ Beyond # {} /\ Beyond \subseteq source[Tables[at]]
          BY <2>4
          DEF SelectPage, Beyond, TypeInv, HandoffTypeOK, BackfillTypeOK, ControlOK, InTable, Tbl
    <3>3. page' \subseteq source[Tables[at]]
          BY <2>4, <3>2, LowestOf, BackfillAssumption DEF SelectPage
    <3>4. t = Tables[at] => \A q \in page' : KeyOf(q) = KeyOf(r) => q = r
          BY <3>3 DEF RowsKeyed, Keyed
    <3>5. QED
          BY <1>5, <1>6, <2>1, <2>2, <3>1, <3>4 DEF Untouched
  <2>5. CASE InsertBatch
    <3>1. at' = at /\ pc = "insert"
          BY <2>5 DEF InsertBatch
    <3>2. PICK batch \in SUBSET page :
             /\ page' = page \ batch
             /\ \A u \in Tbl, k \in PrimaryKey :
                  /\ u = Tables[at] /\ k \in KeysOf(batch) =>
                       \E q \in batch : KeyOf(q) = k /\ target'[u][k] = Append(target[u][k], q.ver)
                  /\ ~ (u = Tables[at] /\ k \in KeysOf(batch)) => target'[u][k] = target[u][k]
          BY <2>5, InsertAt
    <3>3. \A i \in DOMAIN target'[t][KeyOf(r)] : target'[t][KeyOf(r)][i] = 0
      <4>1. CASE t = Tables[at] /\ KeyOf(r) \in KeysOf(batch)
        <5>1. PICK q \in batch : /\ KeyOf(q) = KeyOf(r)
                                 /\ target'[t][KeyOf(r)] = Append(target[t][KeyOf(r)], q.ver)
              BY <2>2, <3>2, <4>1
        <5>2. q.ver = 0
              BY <2>1, <3>1, <4>1, <5>1 DEF Untouched
        <5>3. target[t][KeyOf(r)] \in Versions /\ 0 \in 0..MaxChanges
              BY <2>2, BackfillAssumption DEF Versions, TypeInv, HandoffTypeOK, BackfillTypeOK
        <5>4. \A vs \in Versions :
                 (\A i \in DOMAIN vs : vs[i] = 0) =>
                    \A i \in DOMAIN Append(vs, 0) : Append(vs, 0)[i] = 0
              BY <5>3, AppendAt DEF Versions
        <5>5. QED
              BY <2>1, <5>1, <5>2, <5>3, <5>4 DEF Untouched
      <4>2. CASE ~ (t = Tables[at] /\ KeyOf(r) \in KeysOf(batch))
            BY <2>1, <2>2, <3>2, <4>2 DEF Untouched
      <4>3. QED
            BY <4>1, <4>2
    <3>4. pc' = "insert" /\ t = Tables[at'] => \A q \in page' : KeyOf(q) = KeyOf(r) => q.ver = 0
          BY <2>1, <3>1, <3>2 DEF Untouched
    <3>5. QED
          BY <1>5, <2>1, <2>2, <3>3, <3>4
  <2>6. CASE ~ (Truncate \/ SelectPage \/ InsertBatch)
    <3>1. target' = target /\ pc' # "insert"
          BY <1>1, <2>6
          DEF Script, Operator, Start, RemoveFile, SkipDone, EnterTable, Finished,
              TableDone, SaveOpens, SaveDumps, Crash
    <3>2. QED
          BY <1>5, <2>1, <2>2, <3>1 DEF Untouched
  <2>7. QED
        BY <2>3, <2>4, <2>5, <2>6
<1>7. QED
      BY <1>2, <1>4, <1>6 DEF UntouchedInv

(* The last change of a row leaves the row. *)
LEMMA GapStream ==
    ASSUME TypeInv, NoneNewer, UntouchedInv, ChangedInv, StreamApplies
    PROVE  UntouchedInv' /\ ChangedInv'
<1> DEFINE c == Head(pending)
<1>1. /\ UNCHANGED <<sourceVars, pc, at, page, rc, rcAt, result>>
      /\ overtaken' = IF HoldsOlder(c) THEN overtaken \cup {<<c.table, c.key>>}
                                       ELSE overtaken \ {<<c.table, c.key>>}
      BY DEF StreamApplies
<1>2. /\ pending \in Seq(Change) /\ pending # <<>> /\ pending' = Tail(pending) /\ c \in Change
      /\ \A t \in Tbl, k \in PrimaryKey :
           /\ About(c, t, k) =>
                target'[t][k] = IF c.live THEN Merged(target[t][k], c.ver) ELSE <<>>
           /\ ~ About(c, t, k) => target'[t][k] = target[t][k]
      BY StreamAt
<1>3. /\ c = pending[1] /\ Len(pending) \in Nat \ {0}
      /\ DOMAIN pending = 1..Len(pending) /\ DOMAIN pending' = 1..Len(pending) - 1
      /\ \A i \in 1..Len(pending) - 1 : pending'[i] = pending[i + 1]
      BY <1>2, TailAt
<1> HIDE DEF c
<1>4. c.ver \in 0..MaxChanges /\ \A t \in Tbl, k \in PrimaryKey : target[t][k] \in Versions
      BY <1>2 DEF Change, Versions, TypeInv, HandoffTypeOK, BackfillTypeOK
<1>5. \A t \in Tbl : \A r \in source[t] : KeyOf(r) \in PrimaryKey
      BY KeyType DEF TypeInv, HandoffTypeOK, BackfillTypeOK
<1>6. ASSUME NEW t, NEW k
      PROVE  /\ Awaited(t, k)' => Awaited(t, k)
             /\ Awaited(t, k) /\ ~ Awaited(t, k)' => About(c, t, k) /\ LastAbout(1, t, k)
             /\ About(c, t, k) => Awaited(t, k)
  <2>1. \A i \in DOMAIN pending : i = 1 \/ (i - 1 \in DOMAIN pending' /\ pending'[i - 1] = pending[i])
        BY <1>3
  <2>2. \A i \in DOMAIN pending' : i + 1 \in DOMAIN pending /\ pending'[i] = pending[i + 1]
        BY <1>3
  <2>3. 1 \in DOMAIN pending /\ \A j \in DOMAIN pending : j > 1 => j # 1
        BY <1>3
  <2>4. QED
        BY <1>3, <2>1, <2>2, <2>3 DEF Awaited, LastAbout, About
<1>7. UntouchedInv'
  <2> SUFFICES ASSUME NEW t \in Tbl, NEW r \in source[t], r.ver = 0
               PROVE  Untouched(t, r)'
      BY <1>1 DEF UntouchedInv, sourceVars
  <2>1. Untouched(t, r)
        BY DEF UntouchedInv
  <2>2. ~ Awaited(t, KeyOf(r))' /\ ~ About(c, t, KeyOf(r))
        BY <1>6, <2>1 DEF Untouched
  <2>3. target'[t][KeyOf(r)] = target[t][KeyOf(r)]
        BY <1>2, <1>5, <2>2
  <2>4. QED
        BY <1>1, <2>1, <2>2, <2>3 DEF Untouched, sourceVars
<1>8. LastIsRow'
  <2> SUFFICES ASSUME NEW t \in Tbl, NEW r \in source[t], NEW i \in DOMAIN pending',
                      LastAbout(i, t, KeyOf(r))'
               PROVE  pending'[i].live /\ pending'[i].ver = r.ver
      BY <1>1 DEF LastIsRow, sourceVars
  <2>1. i + 1 \in DOMAIN pending /\ pending'[i] = pending[i + 1]
        BY <1>3
  <2>2. LastAbout(i + 1, t, KeyOf(r))
    <3>1. ASSUME NEW j \in DOMAIN pending, j > i + 1
          PROVE  ~ About(pending[j], t, KeyOf(r))
      <4>1. j - 1 \in DOMAIN pending' /\ j - 1 > i /\ pending'[j - 1] = pending[j]
            BY <1>3, <3>1
      <4>2. QED
            BY <4>1 DEF LastAbout, About
    <3>2. QED
          BY <2>1, <3>1 DEF LastAbout, About
  <2>3. QED
        BY <2>1, <2>2 DEF ChangedInv, LastIsRow
<1>9. ASSUME NEW t \in Tbl, NEW r \in source[t], ~ Awaited(t, KeyOf(r))',
             <<t, KeyOf(r)>> \notin overtaken'
      PROVE  /\ r.ver > 0 => Shows(t, r)' \/ ToDo(t, r)'
             /\ (rc = "merge" /\ t = Tables[rcAt])'
                   => \A q \in result' : KeyOf(q) = KeyOf(r) => q = r
  <2>1. CASE About(c, t, KeyOf(r))
    <3>1. LastAbout(1, t, KeyOf(r))
          BY <1>6, <1>9, <2>1
    <3>2. c.live /\ c.ver = r.ver
          BY <1>3, <3>1 DEF ChangedInv, LastIsRow
    <3>3. Shows(t, r)'
          BY <1>2, <1>4, <1>5, <2>1, <3>2, MergedShows DEF Shows, Loaded
    <3>4. ASSUME rc = "merge", t = Tables[rcAt], NEW q \in result, KeyOf(q) = KeyOf(r)
          PROVE  q = r
      <4>1. ~ (q.ver < r.ver)
            BY <1>1, <1>9, <2>1, <3>2, <3>4 DEF About, HoldsOlder
      <4>2. q.ver <= r.ver
            BY <3>4 DEF NoneNewer
      <4>3. q \in Row /\ r \in Row
            BY DEF TypeInv, HandoffTypeOK, BackfillTypeOK
      <4>4. q.ver = r.ver
            BY <4>1, <4>2, <4>3 DEF Row
      <4>5. QED
            BY <3>4, <4>3, <4>4 DEF KeyOf, Row
    <3>5. QED
          BY <1>1, <3>3, <3>4
  <2>2. CASE ~ About(c, t, KeyOf(r))
    <3>1. ~ Awaited(t, KeyOf(r)) /\ <<t, KeyOf(r)>> \notin overtaken
          BY <1>1, <1>6, <1>9, <2>2 DEF About
    <3>2. target'[t][KeyOf(r)] = target[t][KeyOf(r)]
          BY <1>2, <1>5, <2>2
    <3>3. QED
          BY <1>1, <3>1, <3>2 DEF ChangedInv, Shows, Loaded, ToDo
  <2>3. QED
        BY <2>1, <2>2
<1>10. (rc = "merge" => Keyed(result))'
      BY <1>1 DEF ChangedInv
<1>11. QED
      BY <1>1, <1>7, <1>8, <1>9, <1>10 DEF ChangedInv, sourceVars

(* Reconcile merges the rows it read, and while the stream overtakes none of them they are
   those of the source. *)
LEMMA GapMerge ==
    ASSUME TypeInv, UntouchedInv, ChangedInv, MergeBatch
    PROVE  UntouchedInv' /\ ChangedInv'
<1>1. UNCHANGED <<sourceVars, pc, at, page, pending, rc, rcAt, overtaken>> /\ rc = "merge"
      BY DEF MergeBatch
<1>2. PICK batch \in SUBSET result :
         /\ result' = result \ batch
         /\ \A t \in Tbl, k \in PrimaryKey :
              /\ t = Tables[rcAt] /\ k \in KeysOf(batch) =>
                   \E q \in batch : KeyOf(q) = k /\ target'[t][k] = Merged(target[t][k], q.ver)
              /\ ~ (t = Tables[rcAt] /\ k \in KeysOf(batch)) => target'[t][k] = target[t][k]
      BY MergeAt
<1>3. /\ \A q \in result : q.ver \in 0..MaxChanges
      /\ \A t \in Tbl, k \in PrimaryKey : target[t][k] \in Versions
      /\ \A t \in Tbl : \A r \in source[t] : KeyOf(r) \in PrimaryKey
      BY KeyType DEF Versions, TypeInv, HandoffTypeOK, BackfillTypeOK, Row
<1>4. ASSUME NEW t \in Tbl, NEW r \in source[t], r.ver = 0
      PROVE  Untouched(t, r)'
  <2>1. Untouched(t, r)
        BY <1>4 DEF UntouchedInv
  <2>2. target'[t][KeyOf(r)] = target[t][KeyOf(r)]
        BY <1>1, <1>2, <1>3, <2>1 DEF Untouched, KeysOf
  <2>3. QED
        BY <1>1, <1>2, <2>1, <2>2 DEF Untouched, Awaited, KeysOf, sourceVars
<1>5. ASSUME NEW t \in Tbl, NEW r \in source[t], ~ Awaited(t, KeyOf(r)),
             <<t, KeyOf(r)>> \notin overtaken
      PROVE  /\ r.ver > 0 => Shows(t, r)' \/ ToDo(t, r)'
             /\ t = Tables[rcAt] => \A q \in result' : KeyOf(q) = KeyOf(r) => q = r
  <2>1. t = Tables[rcAt] => \A q \in result : KeyOf(q) = KeyOf(r) => q = r
        BY <1>1, <1>5 DEF ChangedInv
  <2>2. CASE t = Tables[rcAt] /\ KeyOf(r) \in KeysOf(batch)
    <3>1. target'[t][KeyOf(r)] = Merged(target[t][KeyOf(r)], r.ver) /\ r \in result
          BY <1>2, <1>3, <2>1, <2>2
    <3>2. Shows(t, r)'
          BY <1>3, <3>1, MergedShows DEF Shows, Loaded
    <3>3. QED
          BY <1>2, <2>1, <3>2
  <2>3. CASE ~ (t = Tables[rcAt] /\ KeyOf(r) \in KeysOf(batch))
    <3>1. target'[t][KeyOf(r)] = target[t][KeyOf(r)]
          BY <1>2, <1>3, <2>3
    <3>2. r.ver > 0 => Shows(t, r) \/ ToDo(t, r)
          BY <1>5 DEF ChangedInv
    <3>3. Shows(t, r) => Shows(t, r)'
          BY <3>1 DEF Shows, Loaded
    <3>4. ToDo(t, r) => ToDo(t, r)'
          BY <1>1, <1>2, <2>3 DEF ToDo, KeysOf
    <3>5. QED
          BY <1>2, <2>1, <3>2, <3>3, <3>4
  <2>4. QED
        BY <2>2, <2>3
<1>6. LastIsRow'
      BY <1>1 DEF ChangedInv, LastIsRow, LastAbout, sourceVars
<1>7. Keyed(result')
      BY <1>1, <1>2 DEF ChangedInv, Keyed
<1>8. \A t, k : Awaited(t, k)' <=> Awaited(t, k)
      BY <1>1 DEF Awaited
<1>9. QED
      BY <1>1, <1>4, <1>5, <1>6, <1>7, <1>8 DEF UntouchedInv, ChangedInv, sourceVars

(* Reconcile reads the rows as they are. *)
LEMMA GapRead ==
    ASSUME TypeInv, RowsKeyed, UntouchedInv, ChangedInv, ReadChanged
    PROVE  UntouchedInv' /\ ChangedInv'
<1> DEFINE T == Tables[rcAt]
<1>1. /\ UNCHANGED <<source, stable, target, pc, at, page, pending, rcAt>>
      /\ rc = "read" /\ rc' = "merge" /\ rcAt \in DOMAIN Tables /\ T \in Tbl
      /\ result' = {r \in source[T] : r.ver > 0}
      /\ overtaken' = {p \in overtaken : p[1] # T}
      BY BackfillAssumption
      DEF ReadChanged, backfillVars, sourceVars, TypeInv, HandoffTypeOK, Tbl
<1>2. Keyed(source[T])
      BY <1>1 DEF RowsKeyed
<1> HIDE DEF T
<1>3. \A t, k : Awaited(t, k)' <=> Awaited(t, k)
      BY <1>1 DEF Awaited
<1>4. ASSUME NEW r \in source[T], NEW q \in result', KeyOf(q) = KeyOf(r)
      PROVE  q = r /\ r.ver > 0
      BY <1>1, <1>2, <1>4 DEF Keyed
<1>5. ASSUME NEW t \in Tbl, NEW r \in source[t], r.ver = 0
      PROVE  Untouched(t, r)'
  <2>1. Untouched(t, r)
        BY <1>5 DEF UntouchedInv
  <2>2. ~ (0 > 0)
        OBVIOUS
  <2>3. t = T => KeyOf(r) \notin KeysOf(result')
        BY <1>4, <1>5, <2>2 DEF KeysOf
  <2>4. QED
        BY <1>1, <1>3, <2>1, <2>3 DEF Untouched, T
<1>6. LastIsRow'
      BY <1>1 DEF ChangedInv, LastIsRow, LastAbout
<1>7. Keyed(result')
      BY <1>1, <1>2 DEF Keyed
<1>8. ASSUME NEW t \in Tbl, NEW r \in source[t], ~ Awaited(t, KeyOf(r)),
             <<t, KeyOf(r)>> \notin overtaken'
      PROVE  /\ r.ver > 0 => Shows(t, r)' \/ ToDo(t, r)'
             /\ t = T => \A q \in result' : KeyOf(q) = KeyOf(r) => q = r
  <2>1. CASE t = T
        BY <1>1, <1>4, <2>1 DEF ToDo, T
  <2>2. CASE t # T
    <3>1. <<t, KeyOf(r)>> \notin overtaken
          BY <1>1, <1>8, <2>2
    <3>2. r.ver > 0 => Shows(t, r) \/ ToDo(t, r)
          BY <1>8, <3>1 DEF ChangedInv
    <3>3. Shows(t, r) => Shows(t, r)'
          BY <1>1 DEF Shows, Loaded
    <3>4. ASSUME ToDo(t, r) PROVE ToDo(t, r)'
      <4>1. PICK i \in DOMAIN Tables : i >= rcAt /\ t = Tables[i]
            BY <1>1, <3>4 DEF ToDo
      <4>2. i \in Int /\ rcAt \in Int /\ i # rcAt
            BY <2>2, <4>1, BackfillAssumption DEF T, TypeInv, HandoffTypeOK
      <4>3. i > rcAt
            BY <4>1, <4>2
      <4>4. QED
            BY <1>1, <4>1, <4>3 DEF ToDo
    <3>5. QED
          BY <2>2, <3>2, <3>3, <3>4
  <2>3. QED
        BY <2>1, <2>2
<1>9. QED
      BY <1>1, <1>3, <1>5, <1>6, <1>7, <1>8 DEF UntouchedInv, ChangedInv, T

(* Between its batches reconcile only moves on: no row of a table is behind it unmerged. *)
LEMMA GapReconcile ==
    ASSUME TypeInv, UntouchedInv, ChangedInv,
           \/ StartReconcile \/ TableReconciled \/ Reconciled \/ ReconcileCrash
           \/ CreateSlot \/ UNCHANGED handoffVars
    PROVE  UntouchedInv' /\ ChangedInv'
<1>1. UNCHANGED <<source, stable, target, pc, at, page, pending, overtaken>>
      BY DEF StartReconcile, TableReconciled, Reconciled, ReconcileCrash, CreateSlot,
             handoffVars, backfillVars, reconcileVars, sourceVars
<1>2. \A t, k : Awaited(t, k)' <=> Awaited(t, k)
      BY <1>1 DEF Awaited
<1>3. \A t, r : Shows(t, r)' <=> Shows(t, r)
      BY <1>1 DEF Shows, Loaded
<1>4. LastIsRow'
      BY <1>1 DEF ChangedInv, LastIsRow, LastAbout
<1>5. SUFFICES /\ rc' = "merge" => rc = "merge" /\ rcAt' = rcAt /\ result' = result
               /\ \A t \in Tbl : \A r \in source[t] : ToDo(t, r) => ToDo(t, r)'
  <2>1. UntouchedInv'
    <3> SUFFICES ASSUME NEW t \in Tbl, NEW r \in source[t], r.ver = 0
                 PROVE  Untouched(t, r)'
        BY <1>1 DEF UntouchedInv
    <3>1. Untouched(t, r)
          BY DEF UntouchedInv
    <3>2. QED
          BY <1>1, <1>2, <1>5, <3>1 DEF Untouched
  <2>2. ASSUME NEW t \in Tbl, NEW r \in source[t], ~ Awaited(t, KeyOf(r)),
               <<t, KeyOf(r)>> \notin overtaken
        PROVE  /\ r.ver > 0 => Shows(t, r) \/ ToDo(t, r)'
               /\ rc' = "merge" /\ t = Tables[rcAt']
                    => \A q \in result' : KeyOf(q) = KeyOf(r) => q = r
        BY <1>5, <2>2 DEF ChangedInv
  <2>3. (rc = "merge" => Keyed(result))'
        BY <1>5 DEF ChangedInv
  <2>4. QED
        BY <1>1, <1>2, <1>3, <1>4, <2>1, <2>2, <2>3 DEF ChangedInv
<1>6. DOMAIN Tables = 1..Len(Tables) /\ Len(Tables) \in Nat /\ rcAt \in 1..Len(Tables) + 1
      BY BackfillAssumption DEF TypeInv, HandoffTypeOK
<1>7. CASE StartReconcile
  <2>1. rc' = "read" /\ rcAt' = 1
        BY <1>7 DEF StartReconcile
  <2>2. \A t \in Tbl : \E i \in DOMAIN Tables : i >= 1 /\ t = Tables[i]
        BY <1>6 DEF Tbl
  <2>3. QED
        BY <2>1, <2>2 DEF ToDo
<1>8. CASE TableReconciled
  <2>1. rc = "merge" /\ result = {} /\ rc' = "read" /\ rcAt' = rcAt + 1
        BY <1>8 DEF TableReconciled
  <2>2. \A i \in DOMAIN Tables : i > rcAt => i >= rcAt + 1
        BY <1>6
  <2>3. QED
        BY <2>1, <2>2 DEF ToDo
<1>9. CASE Reconciled
  <2>1. rc = "read" /\ rc' = "done" /\ \A i \in DOMAIN Tables : ~ (i >= rcAt)
        BY <1>6, <1>9 DEF Reconciled
  <2>2. QED
        BY <2>1 DEF ToDo
<1>10. CASE ReconcileCrash
      BY <1>10 DEF ReconcileCrash, ToDo
<1>11. CASE CreateSlot \/ UNCHANGED handoffVars
  <2>1. UNCHANGED <<rc, rcAt, result>>
        BY <1>11 DEF CreateSlot, handoffVars, reconcileVars
  <2>2. QED
        BY <2>1 DEF ToDo
<1>12. QED
      BY <1>7, <1>8, <1>9, <1>10, <1>11

LEMMA GapStep ==
    ASSUME TypeInv, RowsKeyed, FileOK, NoneNewer, UntouchedInv, ChangedInv,
           [HandoffNext]_handoffVars
    PROVE  UntouchedInv' /\ ChangedInv'
BY GapSource, GapBackfill, GapStream, GapMerge, GapRead, GapReconcile
DEF HandoffNext, Service, Reconcile

(* GapClosed, of the keys K. *)
GapClosedFor(K) ==
    rc = "done" /\ pending = <<>> =>
        \A t \in Tbl : \A r \in source[t] :
            KeyOf(r) \in K /\ <<t, KeyOf(r)>> \notin overtaken => Shows(t, r)

(* A row that nothing touched is shown since the load, one that changed since reconcile or
   the stream was there. *)
LEMMA GapIsClosed ==
    ASSUME NEW K \in SUBSET PrimaryKey, TypeInv, FileOK, HonestInv(K), UntouchedInv, ChangedInv
    PROVE  GapClosedFor(K)
<1> SUFFICES ASSUME rc = "done", pending = <<>>, NEW t \in Tbl, NEW r \in source[t],
                    KeyOf(r) \in K, <<t, KeyOf(r)>> \notin overtaken
             PROVE  Shows(t, r)
    BY DEF GapClosedFor
<1>1. DOMAIN pending = {}
      OBVIOUS
<1>2. ~ Awaited(t, KeyOf(r)) /\ ~ ToDo(t, r)
      BY <1>1 DEF Awaited, ToDo
<1>3. r \in Row
      BY DEF TypeInv, HandoffTypeOK, BackfillTypeOK
<1>4. CASE r.ver > 0
      BY <1>2, <1>4 DEF ChangedInv
<1>5. CASE r.ver = 0
  <2>1. Untouched(t, r)
        BY <1>5 DEF UntouchedInv
  <2>2. file.state = "saved" /\ file.cp.done[t]
        BY DEF TypeInv, ControlOK, FileOK, AllDone
  <2>3. target[t][KeyOf(r)] # <<>>
        BY <2>1, <2>2 DEF HonestInv, HonestAt, Untouched
  <2>4. QED
        BY <1>5, <2>1, <2>3 DEF Untouched, Shows, Loaded
<1>6. QED
      BY <1>3, <1>4, <1>5, BackfillAssumption DEF Row

LoadInv(K) ==
    RowsKeyed /\ FileOK /\ HonestInv(K) /\ NoneNewer /\ UntouchedInv /\ ChangedInv

LEMMA LoadInit ==
    ASSUME NEW K \in SUBSET PrimaryKey, HandoffInit
    PROVE  LoadInv(K)
BY KeyedInit, FileInit, HonestInit, NewerInit, GapInit DEF LoadInv

LEMMA LoadStep ==
    ASSUME NEW K \in SUBSET PrimaryKey, TypeInv, IdsUnique(K), LoadInv(K),
           [HandoffNext]_handoffVars
    PROVE  LoadInv(K)'
BY KeyedStep, FileStep, HonestStep, NewerStep, GapStep DEF LoadInv

(* As long as the id alone tells the rows of a table apart, what the checkpoint file says is
   loaded is loaded, wherever the runs broke off and whatever changed in the source meanwhile. *)
THEOREM CheckpointIsHonest == HandoffSpec /\ []IdsUnique(PrimaryKey) => []CheckpointHonest
<1>1. HandoffInit => LoadInv(PrimaryKey)
      BY LoadInit
<1>2. TypeInv /\ IdsUnique(PrimaryKey) /\ LoadInv(PrimaryKey) /\ [HandoffNext]_handoffVars => LoadInv(PrimaryKey)'
      BY LoadStep
<1>3. LoadInv(PrimaryKey) => CheckpointHonest
      BY DEF LoadInv, HonestInv, HonestAt, CheckpointHonest, Loaded
<1>4. QED
      BY TypeInvariant, <1>1, <1>2, <1>3, PTL DEF HandoffSpec

(* As long as the id alone tells the rows of a table apart, reconcile closes the gap: through
   every interleaving of source, load, stream and reconcile, crashes of both scripts included,
   of every row but those whose last change the stream wrote while reconcile held an older
   image. *)
THEOREM GapIsClosedByReconcile == HandoffSpec /\ []IdsUnique(PrimaryKey) => []GapClosed
<1>1. HandoffInit => LoadInv(PrimaryKey)
      BY LoadInit
<1>2. TypeInv /\ IdsUnique(PrimaryKey) /\ LoadInv(PrimaryKey) /\ [HandoffNext]_handoffVars => LoadInv(PrimaryKey)'
      BY LoadStep
<1>3. TypeInv /\ LoadInv(PrimaryKey) => GapClosed
  <2>1. TypeInv /\ LoadInv(PrimaryKey) => GapClosedFor(PrimaryKey)
        BY GapIsClosed DEF LoadInv
  <2>2. TypeInv /\ GapClosedFor(PrimaryKey) => GapClosed
        BY KeyType DEF GapClosedFor, GapClosed, TypeInv, HandoffTypeOK, BackfillTypeOK
  <2>3. QED
        BY <2>1, <2>2
<1>4. QED
      BY TypeInvariant, <1>1, <1>2, <1>3, PTL DEF HandoffSpec

(* With several tenants only rows are at risk that share their id with another row of their
   table at some time: of all others, whatever the ids of the rest, what the checkpoint file
   says is loaded is loaded, and the gap is closed. *)
THEOREM OnlySharedIdsAtRisk ==
    ASSUME NEW K \in SUBSET PrimaryKey
    PROVE  HandoffSpec /\ []IdsUnique(K) =>
               []((file.state = "saved" => HonestAt(K, file.cp, stable, target)) /\ GapClosedFor(K))
<1>1. HandoffInit => LoadInv(K)
      BY LoadInit
<1>2. TypeInv /\ IdsUnique(K) /\ LoadInv(K) /\ [HandoffNext]_handoffVars => LoadInv(K)'
      BY LoadStep
<1>3. TypeInv /\ LoadInv(K) => (file.state = "saved" => HonestAt(K, file.cp, stable, target)) /\ GapClosedFor(K)
      BY GapIsClosed DEF LoadInv, HonestInv
<1>4. QED
      BY TypeInvariant, <1>1, <1>2, <1>3, PTL DEF HandoffSpec

(* With one tenant the primary key is the id: nothing has to be presumed of the ids, and both
   hold of every run of the scripts. *)
THEOREM OneTenantIsSafe ==
    ASSUME \A a, b \in Tenant : a = b
    PROVE  HandoffSpec => [](CheckpointHonest /\ GapClosed)
<1>1. TypeInv /\ RowsKeyed => IdsUnique(PrimaryKey)
  <2> SUFFICES ASSUME TypeInv, RowsKeyed, NEW t \in Tbl, NEW r \in source[t], NEW s \in source[t],
                      r.id = s.id
               PROVE  r = s
      BY DEF IdsUnique
  <2>1. r \in Row /\ s \in Row
        BY DEF TypeInv, HandoffTypeOK, BackfillTypeOK
  <2>2. KeyOf(r) = KeyOf(s)
        BY <2>1 DEF KeyOf, Row
  <2>3. QED
        BY <2>2 DEF RowsKeyed, Keyed
<1>2. TypeInv /\ RowsKeyed /\ [HandoffNext]_handoffVars => RowsKeyed'
      BY KeyedStep
<1>3. HandoffSpec => []IdsUnique(PrimaryKey)
      BY TypeInvariant, KeyedInit, <1>1, <1>2, PTL DEF HandoffSpec
<1>4. QED
      BY <1>3, CheckpointIsHonest, GapIsClosedByReconcile, PTL
===============================================================================
