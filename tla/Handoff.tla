------------------------------- MODULE Handoff -------------------------------
(***************************************************************************)
(* From the backfill to the stream: the script of Backfill, then the CDC   *)
(* service, whose slot captures changes from its creation on, and          *)
(* scripts/reconcile.py, which merges the rows changed since the backfill  *)
(* began while the service is writing the same tables.                     *)
(*                                                                         *)
(* The service is taken here at its best: it writes every change of the    *)
(* slot, once and in order (what it really does is module CdcService).     *)
(***************************************************************************)
EXTENDS Backfill

VARIABLES
    streaming,   \* the replication slot exists
    pending,     \* changes the slot holds that are not in the warehouse yet
    rc,          \* where reconcile stands
    rcAt,        \* index of the table being reconciled
    result,      \* rows it has read and not merged yet
    overtaken    \* rows the stream wrote last while reconcile held an older image

reconcileVars == <<rc, rcAt, result, overtaken>>
handoffVars == <<backfillVars, streaming, pending, reconcileVars>>

\* A change as the stream delivers it: the row after it, or that it is gone.
Change == [table : Tbl, key : PrimaryKey, ver : 0..MaxChanges, live : BOOLEAN]

HandoffTypeOK ==
    /\ BackfillTypeOK
    /\ streaming \in BOOLEAN
    /\ pending \in Seq(Change) /\ Len(pending) <= MaxChanges
    /\ rc \in {"todo", "read", "merge", "done"}
    /\ rcAt \in 1..Len(Tables) + 1
    /\ result \subseteq Row
    /\ overtaken \subseteq Tbl \X PrimaryKey

HandoffInit ==
    /\ BackfillInit
    /\ streaming = FALSE /\ pending = <<>>
    /\ rc = "todo" /\ rcAt = 1 /\ result = {} /\ overtaken = {}

-----------------------------------------------------------------------------
(* The source and the stream.                                              *)

\* What is committed from the creation of the slot on is in the slot.
Captured(c) == pending' = IF streaming THEN Append(pending, c) ELSE pending

CapturedChange ==
    /\ \E t \in Tbl, k \in PrimaryKey :
          \/ Upsert(t, k) /\ Captured([table |-> t, key |-> k, ver |-> clock + 1, live |-> TRUE])
          \/ Remove(t, k) /\ Captured([table |-> t, key |-> k, ver |-> clock + 1, live |-> FALSE])
    /\ UNCHANGED <<target, file, cp, pc, at, last, page, crashes, streaming, reconcileVars>>

\* The slot is created by whoever is first: check_replication_setup.py, which the README
\* has run before the backfill, or the first start of the service after it.
CreateSlot ==
    /\ ~streaming
    /\ streaming' = TRUE
    /\ UNCHANGED <<backfillVars, pending, reconcileVars>>

\* A MERGE updates every row that matches and inserts one where none does.
Merged(versions, v) ==
    IF versions = <<>> THEN <<v>> ELSE [i \in DOMAIN versions |-> v]

\* Reconcile has read the row that c writes as it was before c, and has not merged it yet.
HoldsOlder(c) ==
    /\ rc = "merge" /\ c.table = Tables[rcAt]
    /\ \E r \in result : KeyOf(r) = c.key /\ r.ver < c.ver

\* The service is started when the load is through.
StreamApplies ==
    /\ AllDone /\ pending # <<>>
    /\ LET c == Head(pending) IN
       /\ target' = [target EXCEPT ![c.table][c.key] =
                        IF c.live THEN Merged(@, c.ver) ELSE <<>>]
       /\ overtaken' = IF HoldsOlder(c) THEN overtaken \cup {<<c.table, c.key>>}
                                        ELSE overtaken \ {<<c.table, c.key>>}
    /\ pending' = Tail(pending)
    /\ UNCHANGED <<sourceVars, file, cp, pc, at, last, page, crashes, streaming, rc, rcAt, result>>

-----------------------------------------------------------------------------
(* reconcile.py, with --since at the beginning of the backfill.            *)

StartReconcile ==
    /\ rc = "todo" /\ streaming /\ AllDone
    /\ rc' = "read" /\ rcAt' = 1
    /\ UNCHANGED <<backfillVars, streaming, pending, result, overtaken>>

\* A faulty ReadChanged: updated_at > since.
ReadChangedAfter ==
    /\ rc = "read" /\ rcAt <= Len(Tables)
    /\ result' = {r \in source[Tables[rcAt]] : r.ver > 1}
    /\ overtaken' = {p \in overtaken : p[1] # Tables[rcAt]}
    /\ rc' = "merge"
    /\ UNCHANGED <<backfillVars, streaming, pending, rcAt>>

\* SELECT ... WHERE updated_at >= since: the driver fetches the whole result at once.
ReadChanged ==
    /\ rc = "read" /\ rcAt <= Len(Tables)
    /\ result' = {r \in source[Tables[rcAt]] : r.ver > 0}
    /\ overtaken' = {p \in overtaken : p[1] # Tables[rcAt]}
    /\ rc' = "merge"
    /\ UNCHANGED <<backfillVars, streaming, pending, rcAt>>

\* One MERGE of _BATCH rows.
MergeBatch ==
    /\ rc = "merge" /\ result # {}
    /\ \E batch \in Lowest(InsertSize, result) :
          /\ target' = [target EXCEPT ![Tables[rcAt]] =
                [k \in PrimaryKey |->
                    IF k \in KeysOf(batch)
                    THEN Merged(@[k], (CHOOSE r \in batch : KeyOf(r) = k).ver) ELSE @[k]]]
          /\ result' = result \ batch
    /\ UNCHANGED <<sourceVars, file, cp, pc, at, last, page, crashes, streaming, pending,
                   rc, rcAt, overtaken>>

TableReconciled ==
    /\ rc = "merge" /\ result = {}
    /\ rc' = "read" /\ rcAt' = rcAt + 1
    /\ UNCHANGED <<backfillVars, streaming, pending, result, overtaken>>

Reconciled ==
    /\ rc = "read" /\ rcAt > Len(Tables)
    /\ rc' = "done"
    /\ UNCHANGED <<backfillVars, streaming, pending, rcAt, result, overtaken>>

\* It has no checkpoint: a run that fails is repeated from the start.
ReconcileCrash ==
    /\ rc \in {"read", "merge"}
    /\ crashes < MaxCrashes /\ crashes' = crashes + 1
    /\ rc' = "todo" /\ result' = {}
    /\ UNCHANGED <<sourceVars, target, file, cp, pc, at, last, page, streaming, pending, rcAt, overtaken>>

-----------------------------------------------------------------------------

BackfillStep ==
    /\ Script \/ Operator \/ Crash
    /\ UNCHANGED <<streaming, pending, reconcileVars>>

Service == CreateSlot \/ StreamApplies

Reconcile ==
    \/ StartReconcile \/ ReadChanged \/ MergeBatch
    \/ TableReconciled \/ Reconciled

HandoffNext ==
    CapturedChange \/ BackfillStep \/ Service \/ Reconcile \/ ReconcileCrash

HandoffSpec == HandoffInit /\ [][HandoffNext]_handoffVars

\* Scripts and service run on, and the operator runs the scripts until they are through
\* and starts the service.
HandoffFairSpec ==
    /\ HandoffSpec
    /\ WF_handoffVars(Script /\ UNCHANGED <<streaming, pending, reconcileVars>>)
    /\ WF_handoffVars(Operator /\ UNCHANGED <<streaming, pending, reconcileVars>>)
    /\ WF_handoffVars(CreateSlot) /\ WF_handoffVars(StreamApplies)
    /\ WF_handoffVars(Reconcile)

-----------------------------------------------------------------------------
(* Properties.                                                             *)

\* The warehouse shows row r of table t, and nothing else under its key.
Shows(t, r) ==
    /\ Loaded(t, KeyOf(r))
    /\ \A i \in DOMAIN target[t][KeyOf(r)] : target[t][KeyOf(r)][i] = r.ver

\* reconcile closes the gap between backfill and slot: once it is through and the
\* stream has caught up, the warehouse shows every row of the source as it is, but for
\* those whose last change the stream wrote while reconcile held an older image of them.
GapClosed ==
    rc = "done" /\ pending = <<>> =>
        \A t \in Tbl : \A r \in source[t] :
            <<t, KeyOf(r)>> \notin overtaken => Shows(t, r)

\* Once the load is through it stays so, and no further run of the backfill writes to the
\* warehouse, nor empties it under the service: it finds every table done in its file.
LoadIsFinal ==
    [][AllDone => AllDone' /\ (BackfillStep => target' = target)]_handoffVars

\* Every row that stays in the source gets into the warehouse in the end, however its
\* changes fall on backfill, gap, reconcile and stream.
EveryRowArrives ==
    \A t \in Tbl, k \in PrimaryKey :
        <>[](k \in KeysOf(source[t])) => <>[]Loaded(t, k)
===============================================================================
