# pg-snowflake-cdc: verification

TLA+ models of the change-data-capture service in `src/`, TLC runs that check them on small
instances, and TLAPS proofs of what matters for every instance. Paths below are relative to the
repository.

## 1. The system

One Python process polls a PostgreSQL logical replication slot over SQL, parses the `pgoutput`
messages and writes batches to Snowflake: per table a MERGE and DELETEs on a *current-state*
table, then an INSERT into an append-only *history* table.

| part | state it keeps | operations | what makes it correct |
|---|---|---|---|
| main loop `src/main.py` | `_shutdown`, `attempt`, `changes` (rows of a poll, a local), the one `_sink` | open stream, poll, publish rows, flush (idle, drain, final), handle error, back off, SIGTERM | no change dropped except where a failure forces it; the buffer survives reconnects; SIGTERM ends the process |
| slot and polling `src/pg_replication.py` | the slot, the publication and the server backends (in PostgreSQL) | `ensure_publication`, `cdc_connection` frees the slot and creates it, `poll_changes` consumes it; `advance_slot` is never called | what left the slot is accounted for; two instances never take the same change; one of them can always take over |
| sink `src/snowflake_sink.py` | `_buffer`, `_last_flush`, `_conn`, SQL caches | `publish`, `flush`, `_write_batch` with retries | a flush succeeds only when all of it is written; retries repeat, never undo |
| parser `src/pgoutput_parser.py` | relations by OID, current commit LSN and timestamp | one handler per message type | an event carries its own transaction and its own table's columns |
| health `src/health.py` | ready flag, last event, error | `set_ready`, `record_event`, HTTP GET | ready only with a stream |
| sync check `src/sync_check.py` | the verdicts of one check | count both sides, compare, alert, exit code | a verdict is what the counts justify; a drift that stays is reported; 0 means compared |
| monitoring `src/monitoring.py` | log queue and batch, counters | emit, worker, increment, flush | records leave once and in order; no count is lost between two threads |
| backfill `scripts/backfill.py` | checkpoint file | page, insert batches, save checkpoint, resume | every row once, also over a crash |
| reconcile `scripts/reconcile.py` | none | MERGE rows changed since a time | does not undo newer changes |

They meet in few places: the main loop calls the sink synchronously and learns its outcome only
from a return or an exception; the slot moves as part of the poll, before anything is written;
the sink and the scripts share the Snowflake tables and nothing else; two instances share the slot,
held only during a poll, and can terminate each other's backends; the signal handler sets a
flag between any two steps of the main thread; the health thread reads the ready flag; the sync check
runs in a daemon thread and logs through the handler whose daemon thread ships the records.

Hard behaviour, all of it consequences of two decisions: *the slot is consumed first*
(`pg_logical_slot_get_binary_changes`), so the process holds changes that exist nowhere else; and
*the statements of a flush are separate transactions*, so a flush fails in the middle and is
repeated as a whole. Crashes, signals, lost answers and dead connections are interesting between
any two steps of these. `PROJECT.json` lists every hazard at its line with the properties
that cover it, or why none does.

## 2. Modules

| module | what it is |
|---|---|
| `Snowflake` | the destination: the effect of the three SQL statements the sink builds |
| `SnowflakeSink` | the buffer and the flush, one action per statement, with every failure and retry |
| `Delivery` | the abstract promise: an at-most-once queue (see below) |
| `CdcService` | the main loop and the slot over `SnowflakeSink`; implements `Delivery` |
| `PgOutputParser` | the parser, its relation cache and transaction context, against a server |
| `Replica` | parser, buffer and statements together, column by column, from a table to its current-state table |
| `Backfill` | the backfill script with its checkpoint file |
| `Handoff` | backfill, then the service, with reconcile beside it |
| `SlotContention` | several instances on one slot: start-up, opening the stream, polling |
| `Monitoring` | the log handler and the HTTP metrics client with their threads |
| `SyncCheck` | the sync check, over two databases that move |
| `Observers` | the sync check logging through the handler, in the service or as a command |
| `SnowflakeSinkProofs` | theorems about the sink and their proofs |
| `CdcServiceProofs` | theorems about the service and their proofs |
| `DeliveryProofs` | that the service implements `Delivery` |
| `PgOutputParserProofs` | theorems about the parser and their proofs |
| `ReplicaProofs` | theorems about the table that arrives |
| `SlotContentionProofs` | theorems about several instances |
| `HandoffProofs` | theorems about the initial load |
| `ObserversProofs` | theorems about the observers |
| `MCSnowflakeSink`, `MCCdcService`, `MCPgOutputParser`, `MCReplica`, `MCHandoff`, `MCSlotContention`, `MCObservers` | constants for TLC |

**Data.** A change is its position `seq` in the stream, its transaction `tx`, a table, a key and an
operation (`u` for insert and update, which no statement tells apart, or `d`). A current-state row
is told apart only by the change that wrote it: `ver` (kept after a DELETE, so that a property can
say which change came last) and `live`. The history tables are the count `copies[s]` of audit rows
of change `s`. What the columns of a row hold is the subject of `Replica`; SQL text, logging and
metrics are left out.

**`SnowflakeSink`.** `phase` is the place in `_flush`/`_write_batch`: `attempt` (top of the retry
loop, `_get_conn`), `table` (the `by_table` loop), `merge`, `delete` (one DELETE per step),
`history`, `confirm` (after the loop). `Publish` and `Flush` are the calls; `Connect`, `NextTable`,
`MergeCurrent`, `DeleteCurrent`, `InsertHistory`, `Confirm` the steps. Failures: `ConnectFails`
(credentials or login), `StatementFails` (no effect), `ReplyLost` (the effect took place, the
client sees an error), `ConnDrop` (an established connection dies unseen; the next statement finds
out). `EndAttempt` is the `except` branch, including that the last failure keeps both the buffer
and the dead connection. `Restart` is the death of the process. `elapsed` in `Publish` is the
clock's answer to `_FLUSH_INTERVAL`; it may be either at any time. The dedup of the MERGE is
`Dedup`: its ORDER BY column is a primary-key column, so *any* row of a partition may win.

**`CdcService`.** `pc` is the place in `run()`. A call of the sink is a stretch of sink steps
(`Sink`) between the step that makes it (`PublishRow`, `PollEmpty`, `Drain`, `FinalFlush`) and the
one that returns (`Returned`, `Raised`, `Exit`). `wal` is what the publication lets through and
`slot` how much of it was consumed; `cursor` (a variable of the sink module) is how far the loop
has got in the rows it polled, so the rows in memory are those in `(cursor, slot]`. `RowsDone` is
the end of the `for` loop, also by `if _shutdown: break`, which forgets the rows not reached.
`PollReplyLost` moves the slot without handing over rows. `HandleError` is the `except Exception`
block, with the back-off counted in half-seconds because `2 ** -1` occurs when the stream had been
opened (`attempt` is 0). PostgreSQL is external: a poll returns whole transactions.

**`Delivery`.** A change is in the source, held by the process, recorded in the audit trail, lost,
or ignored (unmapped table). It leaves the source once and in order, recorded and lost are final,
and what is lost is always the newest part of what is held. Under the mapping `FateOf` the service
implements this queue in spite of every failure modelled: at most once from the slot, possibly
repeated in the warehouse, never reordered by loss.

**`PgOutputParser`.** Each step sends one pgoutput message and parses it: `Begin`, `Describe`
(RELATION), `Send` (INSERT, UPDATE, DELETE), `SendOther`, `CommitTx` call `HandleBegin`,
`HandleRelation`, `HandleInsert`/`Update`/`Delete` and `Skip`. The server is external: it describes a
relation before its first change in a poll and after an `AlterTable`, because every call of
`pg_logical_slot_get_binary_changes` is a decoding session of its own (`NextPoll`). `Reconnect` is
the new parser of `run()` and the loss of what it had not read. A tuple is a sequence of cells, `t`
(value), `n` (NULL) or `u` (unchanged TOAST value, not sent); rows are mapped to names by position,
also beyond the last known column (`ColumnName`). The old tuple depends on the REPLICA IDENTITY. A
relation with a name that is not UTF-8 raises in its handler and is skipped. `change` keeps what the
message was about, so that the properties can compare it with `event`. That the events of
`CdcService` (`EventAt`) carry their own transaction and table is what this module shows.

**`Replica`.** The parser above, the filter of `run()`, `_buffer` and the statements with their columns,
between the rows of a table (`contents`) and those of its current-state table (`current`). A flush is one
step here, accepted or rejected; how it fails otherwise is `SnowflakeSink`. One table is enough: relations
are told apart by their OID, which `EventsAreFaithful` proves, and the tables of a flush are the matter of
`SnowflakeSink`. What the code does to columns is all there: `MergeColumns` are those of the *first* upsert
of the batch, `HistoryColumns` those of its first event; `Written` sets them in the matched row, leaves the
others alone, and inserts NULL for what the batch does not name; `WithoutDeleted` deletes by the key of the
before-image, after the MERGE. The warehouse rejects a column it does not have, and also a batch of rows
that are nothing but the key, whose UPDATE SET begins with a comma (snowflake_sink.py:177-178). The MERGE
comes first, so a history statement that is rejected leaves the current-state table written. `ReadRow` is a
change parsed and published, with the flush it may cause; `Miss` a change that never reached the buffer,
because the connection broke or `publish` raised; `Restart` the end of the process. `Alter` drops columns and
adds columns with a default (a RENAME counts as both): PostgreSQL changes the rows there are without
sending a message. `log` and `wrong` are history: the changes since the last flush with their place in the
buffer, and the keys whose row may differ. `Settled` says when a flush has put a row right; each of its
conditions was tried without, and all but the one about unreadable names are needed for `MirrorFaithful`.

**`Backfill`.** `pc` is the place in `main()`/`_backfill_table`: `table`, `truncate`, `select`,
`insert` (one statement per step), `save` and `dump` (the file is emptied when it is opened and
filled when it is closed), `off` between runs. A row is its key and the number of the change that
wrote it; `target[t][k]` lists the copies of a row, since the warehouse enforces no key. `stable` is
history: what was in the source all along. Every SELECT sees the source as it is then. `RemoveFile`
is what an operator does about a checkpoint that cannot be loaded.

**`Handoff`.** The scripts and the service. `CreateSlot` may come at any time: the quick start of the
repository (README.md:101-108) runs `check_replication_setup.py`, which creates the slot, before the
backfill, and the service creates one that is missing at its first start. Changes from then on are in
`pending`. The service is started when the backfill is through and writes them one by one
(`StreamApplies`), with a slot that was there first also changes the backfill has already seen; a service
running beside a backfill, which truncates its tables, is in no document and not in the model.
`reconcile.py` runs beside the service with `--since` at the beginning of the backfill: `ReadChanged` fetches
the whole result, `MergeBatch` writes it piece by piece, a crash starts over. The service is taken at
its best here, each change once and in order; what it really does is `CdcService`. `overtaken`
is history: the rows whose last change the stream wrote while reconcile held an image of them older than
that change (`HoldsOlder`). Reconcile then puts the older image back, and `GapClosed` excepts these rows and
no others: a row reconcile read as the stream then writes it, or newer, is not in the set. A row leaves
it when the stream writes it again or reconcile reads its table again. `ver > 0` stands for
`updated_at >= since`, which presumes of the source that every update sets `updated_at`, and that no
transaction stamped before `since` commits after the page with its row was read: PostgreSQL promises neither.

**`SlotContention`.** `pc[i]` is the place of instance `i` between start-up (`down`: `EnsurePublication`
or `PublicationRefused`), the opening of the stream (`connect`, `release`, `terminate`, `ensure`,
`create`, `creating`) and the inner loop (`poll`, `polling`, `publish`, `flush`). Every statement is a step, so what
one instance read (`pid`, the slot is absent) may be stale when it acts on it. The server is external:
`active_pid` holds the slot while a backend decodes or creates it, a signalled backend (`doomed`) ends at
some time, also between two polls of its client, and one whose client has gone finishes its call first,
taking the changes with it (`Orphan`). A change older than the publication cannot be decoded
(`Undecodable`), then or later. `Decode` moves the slot and hands the batch to the connection in one step,
`Receive` is the return of `poll_changes`; a connection lost in between loses the batch. The rows of a poll are
published one at a time (`Publish`), each with the flush it may cause, and stay in `reply` until then: SIGTERM
leaves the loop over them between two rows, also before the first (main.py:127-129), so that `Stop` drops
what is not published and writes what is. Writes succeed here, and all changes are to one row: what a failing sink does is `CdcService`. `AdminPublishes` and
`Diagnose` are `sql/postgres_setup.sql` and `check_replication_setup.py`. That script calls itself
read-only (its line 5, "makes no changes") and creates the slot at line 68.

**`Monitoring`, `SyncCheck`, `Observers`.** A log record is the number of its `emit`, all counters are
one number. `Gather` and `Gathered` are the two exits of `_worker`'s inner loop; which of them the clock
allows is left open, except that a record in the queue is still taken after the deadline (the wait is at
least 0.05 s). `_flush` holds its lock in `locked`: `Increment` waits for it. `EndProcess` takes queue,
batch and counters with it, because all these threads are daemons. In `SyncCheck` the two counts are two
steps between which both databases may move; `Estimates` is what `n_live_tup` may say of a table. A check
runs in the thread of the service or as the command (`mode`). In `Observers` its error and warning lines
are records (`CheckLogs`), the main thread adds its own and counts, and the command ends with the check,
with whatever the shipping thread still holds.

The modules that hold faulty variants (named after what is wrong with them, each before the
definition it varies) use them only to show that a property can fail.

## 3. Runs

| run | instance | what it shows |
|---|---|---|
| `sink` | 2 tables, 2 keys (symmetric), 3 changes, batches of 3, 2 attempts, 2 faults | `BatchWritten`, `DuplicatesNeedFailure`, `NoStaleOverwrite`, `SinkTypeOK` for any caller that publishes in order |
| `service` | 1 mapped and 1 unmapped table, 3 changes in at most 2 transactions of at most 2, batches of 2, 2 attempts, 2 sink faults, 1 PostgreSQL fault, 1 SIGTERM or crash | where changes may be lost and where not, the buffer over reconnects, readiness, refinement of `Delivery`, proper use of the sink |
| `service_liveness` | the same with 2 changes, under `FairSpec` | every change is settled in the end; SIGTERM ends the process |
| `slot` | 2 instances, one of them retired, 5 backends, 2 changes, 1 fault | `NoDoubleProcessing`, `LossNamed`, `BackwardsNeedsTwo`, `StuckNeedsSkippedSetup`, and under `FairSpec` that the other instance takes over |
| `second_instance` | the same with 3 changes and no fault | *violated*: main.py:16-17 has a second instance wait; both hold changes and write them |
| `no_event_lost` | no faults, one crash or SIGTERM | *violated*: main.py:11-12 promises no loss over restarts |
| `last_occurrence` | no faults, 2 changes | *violated*: the older of two updates may be applied |
| `reinsert` | no faults, 2 changes | *violated*: delete then insert in one batch leaves the row deleted |
| `replica` | 1 relation with REPLICA IDENTITY FULL (as sql/postgres_setup.sql sets it), 4 column lists of which 1 unreadable and 1 nothing but the key, 2 values (symmetric), 3 changes in 2 transactions, 1 ALTER, batches of 2 | `EventFaithful`, `ChangesGetThrough` of the parser inside; `MirrorFaithful`: which rows can differ from PostgreSQL and which cannot; `PoisonStays`: a rejected batch blocks until the process ends |
| `row_complete` | 1 relation, 1 transaction | *violated*: REPLICA IDENTITY FULL does not keep an unchanged TOAST value from becoming NULL |
| `initial_load` | 1 table, ids to 3, pages of 2, inserts of 1, 2 changes, 2 crashes | `CheckpointHonest`, `CopiesNeedCrash`, `GapClosed`, that a finished load stays finished (`LoadIsFinal`), and that the backfill ends and every row arrives |
| `observers` | 2 tables of up to 2 rows of which 1 moves, threshold 0, estimates off by 1, 1 failing count, queue and batch of 2, 3 records and increments in all | verdicts, exit code, standing drift; records and counts accounted for, in order, and on their way in the end |

**Bounds.** `MaxSeq`, `MaxTx`, `MaxTxSize` bound the source, `MaxFaults`, `MaxPgFaults`, `MaxEnds`
the failures. Two faults are what it takes to exhaust two attempts, so an exhausted flush with its
kept buffer and stale connection, and a later flush of old and new changes together, all occur.
Three changes over two tables and two keys contain a batch with several rows, several operations on
one row, deletes in both tables, and a smaller batch with another after it (`elapsed`). Two keys are
enough for "another row"; a second table is what makes a flush stop between tables. In the service
the content of a batch does not matter (the sink run has it), so one table and one key do, and an
unmapped table makes polls that publish nothing. One end per behaviour already meets every step of
the loop. In `replica`, two transactions tell the current context from an old one, and one ALTER a
current relation from an old one; the column lists differ in length and in names at one position, and
one has a column the warehouse lacks. Three changes put two of one key into a batch, or one on each side
of the ALTER in one batch with a third behind it; two values are two keys and two contents of a column.
For the load, three ids with pages of two give a full page, a partly inserted one and a last short
one, and two changes are what it takes for the stream to overtake reconcile. Tables are loaded one
after the other with separate entries of the checkpoint, so the run has one. On the slot, five process
ids let each of two instances have a backend, an old one that still ends, and a number left over; two
changes are one to take and one to overtake it with; one fault is a crash, a broken connection, a dropped
slot or a refused publication, each of which is the beginning of what the properties are about. For the
observers, three records overfill a queue of two, or leave a part batch behind a full one; one moving
table beside one that stays tells a verdict from its neighbour's.

**Fairness.** `WF_vars(Thread)`: one thread runs the loop and the sink, and it runs while the
process lives; that a call ends in failure is a step of it too. `WF_vars(Start)`: the orchestrator
starts a process that ended. In `HandoffFairSpec` the scripts run on (`Script`, `Reconcile`), the
operator starts them again until they are through (`Operator`), the slot is created, by script or
service, and the service writes what it holds once it is started. In `SlotContention` every instance and every backend runs on;
`Stop` of the retired instance is strongly fair because the flag SIGTERM sets stays set until one of the
two loops looks at it. Without the stop there is no `Takeover`: with nobody retired (`Retiring = {}`) TLC
finds two instances that terminate each other's backends for ever. In `Observers` the check and the two
daemon threads run as long as the process does. Nothing else is fair: no transaction, signal, crash, or
dropped connection has to happen. Failures are bounded, which is what "once failures stop" means;
with `MaxRetries = 1` the reset of `_conn` is never reached and `EventuallySettled` would need a
restart.

## 4. Proofs

`SnowflakeSinkProofs` proves, for all tables, keys and bounds, from `WarehouseAssumption` and
`SinkAssumption` (`MaxRetries` at least 1, the rest naturals):

* `SinkTypeCorrect`: `SinkSpec => []SinkTypeOK`
* `FlushIsComplete`: `SinkSpec => []BatchWritten`
* `DuplicatesArePaid`: `SinkSpec => []DuplicatesNeedFailure`
* `NothingIsUndone`: `SinkSpec => NoStaleOverwrite`

None of them is inductive. `SinkInv` adds: what `todo`, `table` and `dels` say at each phase
(`FlushShape`); that the stream is ordered and nothing is written ahead of the cursor
(`StreamOrder`); that the tables the attempt has finished are recorded and settled, and of the
table being written the upserts and the deletes done so far (`Progress`); that a cell is older than
every buffered change of its row unless it shows a buffered one (`NothingNewer`); and that a
buffered change with more copies than failures was written in this very attempt over a live
connection (`CopiesPaid`). The last is the subtle one: an attempt over a dead connection fails
without a new failure, so it must not have written anything. `Touches` abstracts MERGE and DELETE
into one fact, that cells of the given changes show one of them and the others are unchanged;
`TouchSettles` draws every consequence from it. One lemma per action follows.

`CdcServiceProofs` proves, with `ServiceAssumption` besides:

* `ServiceTypeCorrect`: `Spec => []TypeOK`
* `SinkUsedProperly`: `Spec => CallsSinkProperly`, that is `Spec => SinkSpec`; with it the four
  theorems above hold of the sink inside the service
* `ConfirmedIsBoundary`: `Spec => []ConfirmedBoundary`
* `ReadyIsHonest`: `Spec => []ReadyMeansStreaming`
* `LossIsOnlyOnAbandon`: `Spec => LossOnlyOnAbandon`
* `BufferSurvives`: `Spec => BufferedUntilWritten`

`ServiceInv` is `SinkInv` with: the log in commit order and the slot inside it (`SourceOK`); the
variables of `run()`, with `attempt <= pgFaults` and SIGTERM behind every last flush (`ControlOK`);
the sink level with the slot except within the `for` loop, never ahead of it (`InStep`); the buffer
equal to the log where it holds something, and `confirmed` no newer than the log (`HeldFromLog`).
`InStep` and `HeldFromLog` are what make the service a proper caller: the next row is always newer
than anything published. `StepKinds` then sorts the steps of `Next` into six kinds by what they do
to the sink (nothing or the start of a flush, publish, skip a row, forget the rest of a poll, end
of the process, a step of the sink itself); everything after it is proved kind by kind.

`DeliveryProofs` proves `ServiceImplementsDelivery`: `Spec => ImplementsDelivery`. The fates of all
changes before and after a step follow from the slot, the cursor, the buffer and the audit counts
(`FateForm`); each kind of step is then one action of `Delivery` or a stutter. The end of a process
loses everything held, a broken-off poll everything behind the cursor; both are the newest part of
what is held, which is the one thing `Delivery` asks of a loss.

`PgOutputParserProofs` proves, from `ParserAssumption` (columns of a list are distinct) and
`NoneAssumption` (None is no row, tuple or event):

* `ParserTypeCorrect`: `ParserSpec => []ParserTypeOK`
* `EventsAreFaithful`: `ParserSpec => []EventFaithful`
* `NothingReadableIsDropped`: `ParserSpec => []ChangesGetThrough`

`ParserInv` adds what no single handler shows: a relation described in this poll is cached as it is
now (`Described`), and within a transaction the context is that of the transaction (`InContext`).
`ReadsRow` says that reading a tuple with its own columns gives back the row but for what was not
sent; the rest is one case per message.

`ReplicaProofs` proves, from the assumptions of the parser, `ReplicaAssumption` (all column lists name the
key alike; distinct names stay distinct in Snowflake) and `NoRowAssumption` (None is no row):

* `ParserInside`: `Spec => ParserSpec`; with it the three theorems above hold inside the service
* `ReplicaTypeCorrect`: `Spec => []ReplicaTypeOK`
* `MirrorIsFaithful`: `Spec => []MirrorFaithful`
* `PoisonIsPermanent`: `Spec => PoisonStays`

for every set of column lists and values, every replica identity, any number of changes and ALTERs. The
invariant has two parts besides the types. `BufferIsLog`: a buffered event is of the kind, the key and the
columns its entry in the log says, no event is without an entry, and they are in the same order; so the
first upsert of the buffer, which gives the batch its columns, is the first in the log. `LastIsRow`: the
last change in flight about a key left the row that is in PostgreSQL now, and if its message held every
value, its event shows that row in the columns of today. It survives an ALTER that drops columns; one that
adds any withdraws the claim. `SettledIsShown` puts them together: where `Settled` holds, the last event of
a key is the only upsert of that key in the batch and no delete follows, so whichever row the
dedup keeps, the MERGE writes this one in all its columns. `OthersStay` is the other half: a flush touches
only keys of the log. For `PoisonIsPermanent`, a batch that grows keeps its first event and its first upsert
(`BatchStays`), and an ALTER does not change what is buffered.

`SlotContentionProofs` proves, from `SlotAssumption`, for any set of instances:

* `SlotTypeCorrect`: `Spec => []SlotTypeOK`
* `ChangesTakenOnce`: `Spec => []NoDoubleProcessing`
* `SetupOrder`: `Spec => []StuckNeedsSkippedSetup`
* `LossesOfSharing`: `Spec => LossNamed`
* `OrderOfOneInstance`: `Spec => BackwardsNeedsTwo`

`ChannelInv` says who talks to which backend: one connection each (`OneClient`), the backend on the slot
serves an instance that waits for that very call or nobody (`HolderCalls`), and changes taken and not published
are under way to an instance still waiting, or rows of one in the loop over them (`ReplyWaits`). So what a call takes goes to one place; most steps leave the changes
where they are or drop some (`Settled`), a call takes changes nobody has had, a flush makes them audit rows.
`PublicationFirst` and `WriterAhead` carry two of the others: unless a step of the set-up was skipped, a slot that
can be read begins behind the publication; and an instance has nothing older in hand than what it wrote last,
which needs that its buffer is older than the rows it has still to publish (`InOrder`). `LossesOfSharing` names
the losses: with the process; by SIGTERM, of rows it was given and has not published; with the connection of
a waiting instance; in a poll of nobody; with a slot created anew. What was published and what was written
are not among them.

`HandoffProofs` proves, from `BackfillAssumption`, for any tables, tenants, ids, page sizes and crashes:

* `HandoffTypeCorrect`: `HandoffSpec => []HandoffTypeOK`
* `CopiesArePaid`: `HandoffSpec => []CopiesNeedCrash`
* `LoadStaysDone`: `HandoffSpec => LoadIsFinal`
* `CheckpointIsHonest`: `HandoffSpec /\ []IdsUnique(PrimaryKey) => []CheckpointHonest`
* `GapIsClosedByReconcile`: `HandoffSpec /\ []IdsUnique(PrimaryKey) => []GapClosed`
* `OnlySharedIdsAtRisk`: both for any set `K` of keys, from `[]IdsUnique(K)` alone
* `OneTenantIsSafe`: with one tenant, both with no hypothesis about ids

`IdsUnique(K)` says that no row with a key in `K` shares its id with another row of its table. It is
needed: backfill.py:195 cuts the pages by `id` alone while the key is tenant and id, so of two tenants' rows
with one id the second may fall behind a full page, and nobody reads it again. With two tenants TLC finds
`CheckpointHonest` violated. `OnlySharedIdsAtRisk` says how far this reaches (to these rows only), and
`OneTenantIsSafe` that the hypothesis is not vacuous.

`CopiesInv` says of a run that resumes from a checkpoint that what it will still insert was not inserted
before, except by runs that broke off before they saved; each crash adds at most one copy. `FileOK` ties
the file to the run: the checkpoint in memory is the saved one except between `save` and the end of `dump`,
and a table in work is not yet done, so that nobody is in a table once all are (`DoneIsOut`);
`LoadStaysDone` rests on it. `HonestInv` has the claim of the checkpoint
for the file *and* for the one in memory, because each is copied to the other, and of a page in work that
every stable row up to an id of the page is loaded or in the page: a page passes over nothing. The gap needs
both sides of a row. `UntouchedInv`: of a row that never changed, neither page nor slot nor reconcile has
anything else, so the load's image stands. `ChangedInv`: the last change of a row that the slot holds is the
row (`LastIsRow`); a changed row that the slot no longer holds, and that did not overtake reconcile, is shown
or is one reconcile has still to bring, and what reconcile holds of it is the row. The latter needs
`NoneNewer`: what reconcile has read is no newer than the source, so an image that is not older than the last
change of its row is the row.

`ObserversProofs` proves, from `MonitoringAssumption` and `SyncAssumption`:

* `ObserversTypeCorrect`: `Spec => []TypeOK`
* `NoRecordForgotten`: `Spec => []RecordsAccounted`
* `RecordsInOrder`: `Spec => []ShippedInOrder`
* `NoCountForgotten`: `Spec => []CountsAccounted`
* `ExitCodeIsHonest`: `Spec => []GateHonest`
* `VerdictsJustified`: `Spec => VerdictJustified`

for any queue and batch size, any tables and any interleaving of the check, the main thread and the two
daemons. `LogInv` puts the records in one increasing line, what arrived, the batch, the queue, and everything
else among the dropped and the unsent; accounting and order both follow by counting it. `CountInv` has what
makes copy and clear in `_flush` safe: while the lock is held the copy is what the counters are. `CheckInv`
says that a check has a verdict for every table it is through with, that each "ok" was seen to be one, and
that while `exact` holds the count taken is the number of rows there still.

Model-checked only: the liveness properties (`EventuallySettled`, `ShutdownCompletes`, `Takeover`,
`BackfillEnds`, `EveryRowArrives`, `RecordsLeave`, `StandingDriftReported`), which need fairness and ENABLED
and are out of the prover's reach; `LoadStaysDone` is the safety half of `BackfillEnds`. Every invariant and
every action property of a passing run is proved. None of the models recurses over data.

## 5. Not modelled, and the plan

Built in this order, all of it done.

1. `Snowflake`, `SnowflakeSink` and its proofs.
2. `Delivery`, `CdcService`, safety, liveness and findings.
3. `CdcServiceProofs`, `DeliveryProofs`: every safety property of the service.
4. `Backfill`, `Handoff`: initial load, gap, reconcile.
5. `PgOutputParser` and its proofs.
6. `SlotContention` and its proofs: several instances, against "a second instance will just sit retrying"
   (README.md) and main.py:16-17.
7. `Monitoring`, `SyncCheck`, `Observers`.
8. `HandoffProofs`: types and copies for all instances.
9. `Replica` and its proofs: the columns of a batch, rejected batches, ALTER TABLE, changes of a key.
10. `ObserversProofs`; the checkpoint, the gap and the finished load in `HandoffProofs`.

Open: which *stale* images `overtaken` rows may show (the model says that they may differ, not by how much),
and a refinement of the initial load from an abstract copy.

Where the documents say something else and no run repeats it: a flush returns the LSN of a transaction it
may have written half of (snowflake_sink.py:337-340), while its docstring (228-229) has the caller advance
the slot there and pg_replication.py:300-301 asks for changes that are written; nothing calls
`advance_slot`, and `ConfirmedBoundary` says
what the LSN does vouch for. backfill.py:182-183 calls duplicates impossible; `CopiesNeedCrash` says when
they are not. check_replication_setup.py:5 makes no changes, but line 68 creates the slot.

Left out for good: token and credential fetching, connection tests (sequential I/O); the HTTP handler of
`health.py`, which reads the flag and the error one after the other for a probe; gauges, the UDP statsd
client and tracing (no state between calls); the ALTER of an existing publication; truncated pgoutput
messages (a server does not cut what it returns as bytea). Not modelled inside what is: TRUNCATE of a
source table (the parser skips it, so the rows stay in the warehouse), column names that become the same in
`_pg_col_to_sf`, conversion of JSON values, a statement that lands *after* its client has given up and
written something newer, and an endless stream of unmapped changes, during which buffered changes are never
flushed.
