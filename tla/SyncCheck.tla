------------------------------ MODULE SyncCheck ------------------------------
(***************************************************************************)
(* src/sync_check.py: the rows of every table are counted on both sides,   *)
(* one count after the other, while source and warehouse go on changing.   *)
(* It runs as a thread of the service, again and again, or as a command    *)
(* whose exit code is the verdict.  Credentials and the text of logs and   *)
(* events are left out.                                                    *)
(***************************************************************************)
EXTENDS Integers, Sequences

CONSTANTS
    Pairs,       \* _TABLE_PAIRS
    Threshold,   \* DRIFT_THRESHOLD
    StatError,   \* bound: how far n_live_tup is from the number of rows
    MaxRows,     \* bound: rows of a table
    Moving,      \* bound: the tables that change
    MaxFailures  \* bound: counts that fail

Tbl == {Pairs[i] : i \in DOMAIN Pairs}

ASSUME SyncAssumption ==
    /\ Pairs \in Seq(Tbl)
    /\ \A i, j \in DOMAIN Pairs : Pairs[i] = Pairs[j] => i = j
    /\ Moving \subseteq Tbl
    /\ Threshold \in Nat /\ StatError \in Nat /\ MaxRows \in Nat /\ MaxFailures \in Nat

VARIABLES
    mode,       \* "thread" or "command"
    rows,       \* rows of each table in PostgreSQL
    copy,       \* rows of each table in Snowflake
    step,       \* where run_sync_check stands
    at,         \* the pair it is at
    pg_count,   \* what _pg_count returned
    exact,      \* pg_count was the number of rows, and still is
    results,    \* the verdicts; "none" where results has no entry
    seen,       \* tables whose counts this check compared and found close
    exit,       \* exit code of the command, -1 before it ends
    failures    \* counts that have failed

dataVars == <<rows, copy>>
syncVars == <<mode, dataVars, step, at, pg_count, exact, results, seen, exit, failures>>

Verdict == {"none", "ok", "drift", "failed"}

SyncTypeOK ==
    /\ mode \in {"thread", "command"}
    /\ rows \in [Tbl -> 0..MaxRows] /\ copy \in [Tbl -> 0..MaxRows]
    /\ step \in {"sleep", "pg", "sf", "report", "over"}
    /\ at \in 1..Len(Pairs) + 1
    /\ step \in {"sf", "report"} => at <= Len(Pairs)
    /\ pg_count \in 0..MaxRows + StatError
    /\ exact \in BOOLEAN
    /\ results \in [Tbl -> Verdict]
    /\ seen \subseteq Tbl
    /\ exit \in {-1, 0, 1}
    /\ failures \in 0..MaxFailures

SyncInit ==
    /\ mode \in {"thread", "command"}
    /\ rows = [t \in Tbl |-> MaxRows] /\ copy = rows
    /\ step = "sleep" /\ at = 1 /\ pg_count = 0 /\ exact = FALSE
    /\ results = [t \in Tbl |-> "none"] /\ seen = {}
    /\ exit = -1 /\ failures = 0

Distance(m, n) == IF m >= n THEN m - n ELSE n - m

Gap(t) == Distance(rows[t], copy[t])

-----------------------------------------------------------------------------
(* The databases: a row more or a row less.                                *)

Beside(n) == {m \in {n - 1, n + 1} : m \in 0..MaxRows}

SourceMoves(t) ==
    /\ \E n \in Beside(rows[t]) : rows' = [rows EXCEPT ![t] = n]
    /\ exact' = (exact /\ ~(step = "sf" /\ t = Pairs[at]))
    /\ UNCHANGED <<mode, copy, step, at, pg_count, results, seen, exit, failures>>

WarehouseMoves(t) ==
    /\ \E n \in Beside(copy[t]) : copy' = [copy EXCEPT ![t] = n]
    /\ UNCHANGED <<mode, rows, step, at, pg_count, exact, results, seen, exit, failures>>

-----------------------------------------------------------------------------
(* run_sync_check, in a thread that sleeps in between or in a command.     *)

Begin ==
    /\ step = "sleep"
    /\ step' = "pg" /\ at' = 1
    /\ UNCHANGED <<mode, dataVars, pg_count, exact, results, seen, exit, failures>>

Counting == step = "pg" /\ at <= Len(Pairs)

NoResults == results' = [t \in Tbl |-> "none"] /\ seen' = {}

\* Every table starts with pg_count = sf_count = diff = 0.
Forget == pg_count' = 0 /\ exact' = FALSE

\* n_live_tup, which follows the number of rows at some distance and is 0 before
\* anything is counted and after a reset of the statistics.
Estimates(t) == {0} \cup {n \in 1..rows[t] + StatError : Distance(n, rows[t]) <= StatError}

\* _pg_count: the estimate, or COUNT where it is 0.
PgCount ==
    /\ Counting
    /\ \E approx \in Estimates(Pairs[at]) :
          pg_count' = IF approx > 0 THEN approx ELSE rows[Pairs[at]]
    /\ exact' = (pg_count' = rows[Pairs[at]])
    /\ step' = "sf"
    /\ UNCHANGED <<mode, dataVars, at, results, seen, exit, failures>>

\* Faulty: no abs().
SfCountSigned ==
    /\ step = "sf"
    /\ LET t == Pairs[at] IN
       /\ results' = [results EXCEPT ![t] = IF pg_count - copy[t] <= Threshold THEN "ok" ELSE "drift"]
       /\ seen' = IF Distance(pg_count, copy[t]) <= Threshold THEN seen \cup {t} ELSE seen
    /\ step' = "report" /\ Forget
    /\ UNCHANGED <<mode, dataVars, at, exit, failures>>

\* _sf_count, and the comparison.
SfCount ==
    /\ step = "sf"
    /\ LET t == Pairs[at]
           in_sync == Distance(pg_count, copy[t]) <= Threshold IN
       /\ results' = [results EXCEPT ![t] = IF in_sync THEN "ok" ELSE "drift"]
       /\ seen' = IF in_sync THEN seen \cup {t} ELSE seen
    /\ step' = "report" /\ Forget
    /\ UNCHANGED <<mode, dataVars, at, exit, failures>>

\* Faulty: the table is passed over.
CountFailsSkips ==
    /\ Counting \/ step = "sf"
    /\ failures < MaxFailures /\ failures' = failures + 1
    /\ step' = "pg" /\ at' = at + 1 /\ Forget
    /\ UNCHANGED <<mode, dataVars, results, seen, exit>>

\* Either count raises: the table is not in sync, and the next one is counted.
CountFails ==
    /\ Counting \/ step = "sf"
    /\ failures < MaxFailures /\ failures' = failures + 1
    /\ results' = [results EXCEPT ![Pairs[at]] = "failed"]
    /\ step' = "pg" /\ at' = at + 1 /\ Forget
    /\ UNCHANGED <<mode, dataVars, seen, exit>>

\* The metrics of the table are posted, and an event if it has drifted.
Report ==
    /\ step = "report"
    /\ step' = "pg" /\ at' = at + 1
    /\ UNCHANGED <<mode, dataVars, pg_count, exact, results, seen, exit, failures>>

AllOk == \A t \in Tbl : results[t] \in {"none", "ok"}

\* A faulty Finish: the thread ends with its first check.
FinishOnce ==
    /\ step = "pg" /\ at > Len(Pairs)
    /\ step' = "over"
    /\ exit' = IF AllOk THEN 0 ELSE 1
    /\ UNCHANGED <<mode, dataVars, at, pg_count, exact, results, seen, failures>>

Finish ==
    /\ step = "pg" /\ at > Len(Pairs)
    /\ IF mode = "thread"
       THEN step' = "sleep" /\ NoResults /\ UNCHANGED exit
       ELSE step' = "over" /\ exit' = (IF AllOk THEN 0 ELSE 1) /\ UNCHANGED <<results, seen>>
    /\ UNCHANGED <<mode, dataVars, at, pg_count, exact, failures>>

\* The thread goes down with the service.
Killed ==
    /\ mode = "thread"
    /\ step' = "over" /\ at' = 1 /\ Forget /\ NoResults
    /\ UNCHANGED <<mode, dataVars, exit, failures>>

Databases == \E t \in Moving : SourceMoves(t) \/ WarehouseMoves(t)

-----------------------------------------------------------------------------
(* Properties.                                                             *)

\* A table counted exactly, and with nothing committed between the two counts, gets the
\* verdict it deserves; any other verdict may be off by what moved and by the estimate.
VerdictJustified ==
    [][step = "sf" /\ step' = "report" /\ exact =>
          results'[Pairs[at]] = IF Gap(Pairs[at]) <= Threshold THEN "ok" ELSE "drift"]_syncVars

\* "Exits 0 if every table is in sync, 1 if any table has drifted or the check itself
\* failed" (sync_check.py:10-11): 0 means that every table was compared and found close.
GateHonest == exit = 0 => Tbl \subseteq seen

\* A drift that stays, and is more than the estimates can hide, is reported again and
\* again, whatever counts fail meanwhile and whatever goes on in the other tables.
DriftReported ==
    \A t \in Tbl :
        mode = "thread" /\ <>[](Gap(t) > Threshold + StatError) => []<>(results[t] = "drift")
===============================================================================
