---------------------------- MODULE SlotContention ----------------------------
(***************************************************************************)
(* Several instances of the service on one replication slot, as in a       *)
(* rolling deploy: start-up and opening of the stream in src/main.py and   *)
(* src/pg_replication.py, every instance with its own server backend.  The *)
(* slot is held only while a backend runs pg_logical_slot_get_binary_-     *)
(* changes (or creates the slot), not between two polls.                   *)
(*                                                                         *)
(* All changes are to one row, so a change is known by its place in the    *)
(* log.  PostgreSQL and Snowflake are external.  How a sink that fails     *)
(* loses rows is the subject of CdcService; here writes succeed.           *)
(***************************************************************************)
EXTENDS Integers, FiniteSets

CONSTANTS
    Instance,    \* the instances of the service
    Retiring,    \* those the deploy stops for good
    Pid,         \* process ids of backends
    MaxWal,      \* bound: changes committed at the source
    MaxFaults    \* bound: crashes, broken connections and the like, in all

ASSUME SlotAssumption ==
    /\ Retiring \subseteq Instance
    /\ Pid \subseteq Nat \ {0}
    /\ MaxWal \in Nat /\ MaxFaults \in Nat

VARIABLES
    wal,         \* number of changes committed
    publication, \* length of the log when the publication was created
    slot,        \* "absent", "creating" or "ready"
    confirmed,   \* the changes up to here have left the slot
    active_pid,  \* the backend that holds the slot, 0 if none
    backends,    \* the backends alive
    doomed,      \* those signalled by pg_terminate_backend
    pc,          \* where each instance stands
    conn,        \* its connection, by the backend that serves it, 0 if none
    pid,         \* the backend it read as the holder of the slot
    reply,       \* changes a poll has taken for it and it has not published: on
                 \* their way to it, or rows of `changes` it has still to go through
    held,        \* the buffer of its sink
    history,     \* rows of the audit table, per change
    row,         \* the change the current-state row shows
    writer,      \* who wrote it
    skipped,     \* was ensure_publication refused, or the diagnostic script run?
    faults       \* faults so far

pgVars == <<wal, publication, slot, confirmed, active_pid, backends, doomed>>
sfVars == <<history, row, writer>>
bounds == <<skipped, faults>>
vars == <<pgVars, pc, conn, pid, reply, held, sfVars, bounds>>

Seqs == 1..MaxWal

NoPublication == MaxWal + 1

Pc == {"down", "connect", "release", "terminate", "ensure", "create", "creating",
       "poll", "polling", "publish", "flush", "stopped"}

ServerTypeOK ==
    /\ wal \in 0..MaxWal /\ publication \in 0..NoPublication
    /\ slot \in {"absent", "creating", "ready"}
    /\ confirmed \in 0..wal
    /\ active_pid \in Pid \cup {0}
    /\ backends \subseteq Pid /\ doomed \subseteq backends

InstanceTypeOK ==
    /\ pc \in [Instance -> Pc]
    /\ conn \in [Instance -> Pid \cup {0}]
    /\ pid \in [Instance -> Pid \cup {0}]
    /\ reply \in [Instance -> SUBSET Seqs] /\ held \in [Instance -> SUBSET Seqs]

OutcomeTypeOK ==
    /\ history \in [Seqs -> Nat] /\ row \in 0..MaxWal /\ writer \in SUBSET Instance
    /\ skipped \in BOOLEAN /\ faults \in 0..MaxFaults

SlotTypeOK == ServerTypeOK /\ InstanceTypeOK /\ OutcomeTypeOK

Init ==
    /\ wal = 0 /\ publication = NoPublication
    /\ slot = "absent" /\ confirmed = 0 /\ active_pid = 0
    /\ backends = {} /\ doomed = {}
    /\ pc = [i \in Instance |-> "down"]
    /\ conn = [i \in Instance |-> 0] /\ pid = [i \in Instance |-> 0]
    /\ reply = [i \in Instance |-> {}] /\ held = [i \in Instance |-> {}]
    /\ history = [c \in Seqs |-> 0] /\ row = 0 /\ writer = {}
    /\ skipped = FALSE /\ faults = 0

Fault == faults < MaxFaults /\ faults' = faults + 1

-----------------------------------------------------------------------------
(* PostgreSQL and its administrators.                                      *)

Commit ==
    /\ wal < MaxWal
    /\ wal' = wal + 1
    /\ UNCHANGED <<publication, slot, confirmed, active_pid, backends, doomed,
                   pc, conn, pid, reply, held, sfVars, bounds>>

CreatePublication ==
    IF publication = NoPublication THEN publication' = wal ELSE UNCHANGED publication

\* Step 5 of sql/postgres_setup.sql, at whatever time the administrator runs it.
AdminPublishes ==
    /\ publication = NoPublication
    /\ CreatePublication
    /\ UNCHANGED <<wal, slot, confirmed, active_pid, backends, doomed,
                   pc, conn, pid, reply, held, sfVars, bounds>>

\* A slot nobody holds is dropped (by hand, or for the log it retains).
DropSlot ==
    /\ slot = "ready" /\ active_pid = 0
    /\ Fault
    /\ slot' = "absent"
    /\ UNCHANGED <<wal, publication, confirmed, active_pid, backends, doomed,
                   pc, conn, pid, reply, held, sfVars, skipped>>

\* scripts/check_replication_setup.py creates the slot if it is not there.
Diagnose ==
    /\ Fault
    /\ slot = "absent"
    /\ slot' = "ready" /\ confirmed' = wal /\ skipped' = TRUE
    /\ UNCHANGED <<wal, publication, active_pid, backends, doomed,
                   pc, conn, pid, reply, held, sfVars>>

\* A signalled backend ends; a slot it was still creating goes with it.
BackendEnds(p) ==
    /\ p \in doomed
    /\ backends' = backends \ {p} /\ doomed' = doomed \ {p}
    /\ active_pid' = IF active_pid = p THEN 0 ELSE active_pid
    /\ slot' = IF active_pid = p /\ slot = "creating" THEN "absent" ELSE slot
    /\ UNCHANGED <<wal, publication, confirmed, pc, conn, pid, reply, held, sfVars, bounds>>

-----------------------------------------------------------------------------
(* An instance: start-up and cdc_connection().                             *)

Alive(i) == conn[i] \in backends

\* The connection is closed.  A backend in the middle of a call only notices
\* when the call is over.
Close(i) ==
    /\ conn' = [conn EXCEPT ![i] = 0]
    /\ backends' = backends \ ({conn[i]} \ {active_pid})
    /\ doomed' = doomed \ ({conn[i]} \ {active_pid})

\* Any error of the stream: the with block is left, and run() connects again
\* after its back-off.
Fail(i) ==
    /\ Close(i)
    /\ pc' = [pc EXCEPT ![i] = "connect"]
    /\ reply' = [reply EXCEPT ![i] = {}]
    /\ pid' = [pid EXCEPT ![i] = 0]

Goto(i, place) == pc' = [pc EXCEPT ![i] = place]

\* Faulty: the stream is opened without looking at the publication.
EnsurePublicationLater(i) ==
    /\ pc[i] = "down"
    /\ Goto(i, "connect")
    /\ UNCHANGED <<pgVars, conn, pid, reply, held, sfVars, bounds>>

\* The process starts.
EnsurePublication(i) ==
    /\ pc[i] = "down"
    /\ CreatePublication
    /\ Goto(i, "connect")
    /\ UNCHANGED <<wal, slot, confirmed, active_pid, backends, doomed,
                   conn, pid, reply, held, sfVars, bounds>>

\* "Could not verify/create publication - continuing with existing slot".
PublicationRefused(i) ==
    /\ pc[i] = "down"
    /\ publication = NoPublication
    /\ Fault /\ skipped' = TRUE
    /\ Goto(i, "connect")
    /\ UNCHANGED <<pgVars, conn, pid, reply, held, sfVars>>

\* A process id that nobody still refers to; which one does not matter.
FreshPid(p) ==
    LET free == {q \in Pid : q \notin backends /\ \A i \in Instance : q # conn[i] /\ q # pid[i]}
    IN  p \in free /\ \A q \in free : p <= q

Connect(i) ==
    /\ pc[i] = "connect"
    /\ \E p \in Pid :
          /\ FreshPid(p)
          /\ conn' = [conn EXCEPT ![i] = p]
          /\ backends' = backends \cup {p}
    /\ Goto(i, "release")
    /\ UNCHANGED <<wal, publication, slot, confirmed, active_pid, doomed,
                   pid, reply, held, sfVars, bounds>>

\* _release_stale_slot_backend: who holds the slot?
LookForHolder(i) ==
    /\ pc[i] = "release" /\ Alive(i)
    /\ pid' = [pid EXCEPT ![i] = active_pid]
    /\ Goto(i, IF active_pid = 0 THEN "ensure" ELSE "terminate")
    /\ UNCHANGED <<pgVars, conn, reply, held, sfVars, bounds>>

\* pg_terminate_backend: false if it is gone already, an error without the
\* privilege; the service goes on in either case.
TerminateHolder(i) ==
    /\ pc[i] = "terminate" /\ Alive(i)
    /\ \/ doomed' = doomed \cup ({pid[i]} \cap backends)
       \/ UNCHANGED doomed
    /\ pid' = [pid EXCEPT ![i] = 0]
    /\ Goto(i, "ensure")
    /\ UNCHANGED <<wal, publication, slot, confirmed, active_pid, backends,
                   conn, reply, held, sfVars, bounds>>

\* _ensure_slot_sql: is there a slot?
LookForSlot(i) ==
    /\ pc[i] = "ensure" /\ Alive(i)
    /\ Goto(i, IF slot = "absent" THEN "create" ELSE "poll")
    /\ UNCHANGED <<pgVars, conn, pid, reply, held, sfVars, bounds>>

\* Creating a slot holds it until its starting point is found.
CreateSlot(i) ==
    /\ pc[i] = "create" /\ Alive(i)
    /\ slot = "absent"
    /\ slot' = "creating" /\ active_pid' = conn[i]
    /\ Goto(i, "creating")
    /\ UNCHANGED <<wal, publication, confirmed, backends, doomed,
                   conn, pid, reply, held, sfVars, bounds>>

\* Another instance was faster: "already exists".
SlotExists(i) ==
    /\ pc[i] = "create" /\ Alive(i)
    /\ slot # "absent"
    /\ Fail(i)
    /\ UNCHANGED <<wal, publication, slot, confirmed, active_pid, held, sfVars, bounds>>

\* A backend whose client is gone ends with its call.
Orphan == \A i \in Instance : conn[i] # active_pid

EndIfOrphan ==
    IF Orphan THEN backends' = backends \ {active_pid} /\ doomed' = doomed \ {active_pid}
              ELSE UNCHANGED <<backends, doomed>>

SlotCreated ==
    /\ slot = "creating"
    /\ slot' = "ready" /\ confirmed' = wal /\ active_pid' = 0
    /\ pc' = [i \in Instance |-> IF conn[i] = active_pid THEN "poll" ELSE pc[i]]
    /\ EndIfOrphan
    /\ UNCHANGED <<wal, publication, conn, pid, reply, held, sfVars, bounds>>

-----------------------------------------------------------------------------
(* An instance: the inner loop.                                            *)

CallPoll(i) ==
    /\ pc[i] = "poll" /\ Alive(i)
    /\ slot = "ready" /\ active_pid = 0
    /\ active_pid' = conn[i]
    /\ Goto(i, "polling")
    /\ UNCHANGED <<wal, publication, slot, confirmed, backends, doomed,
                   conn, pid, reply, held, sfVars, bounds>>

\* Faulty: a busy slot ends the process.
PollRefusedFatal(i) ==
    /\ pc[i] = "poll" /\ Alive(i)
    /\ slot # "ready" \/ active_pid # 0
    /\ Close(i)
    /\ Goto(i, "stopped")
    /\ UNCHANGED <<wal, publication, slot, confirmed, active_pid, pid, reply, held, sfVars, bounds>>

\* "is active for PID", or the slot does not exist (any more, or yet).
PollRefused(i) ==
    /\ pc[i] = "poll" /\ Alive(i)
    /\ slot # "ready" \/ active_pid # 0
    /\ Fail(i)
    /\ UNCHANGED <<wal, publication, slot, confirmed, active_pid, held, sfVars, bounds>>

Polling == slot = "ready" /\ active_pid # 0

\* The output plugin looks the publication up as of the change it decodes: a
\* change older than the publication is an error, on this call and on each
\* later one.
Undecodable == confirmed < wal /\ confirmed < publication

DecodeFails ==
    /\ Polling /\ Undecodable
    /\ active_pid' = 0
    /\ LET caller == {i \in Instance : conn[i] = active_pid} IN
          /\ pc' = [i \in Instance |-> IF i \in caller THEN "connect" ELSE pc[i]]
          /\ conn' = [i \in Instance |-> IF i \in caller THEN 0 ELSE conn[i]]
    /\ backends' = backends \ {active_pid} /\ doomed' = doomed \ {active_pid}
    /\ UNCHANGED <<wal, publication, slot, confirmed, pid, reply, held, sfVars, bounds>>

\* Faulty: the batch is decoded, but the slot stays where it was (PEEK).
DecodePeek ==
    /\ Polling /\ ~Undecodable
    /\ \E n \in confirmed..wal :
          /\ n = confirmed => confirmed = wal
          /\ reply' = [i \in Instance |->
                          IF conn[i] = active_pid THEN confirmed + 1..n ELSE reply[i]]
    /\ active_pid' = 0
    /\ EndIfOrphan
    /\ UNCHANGED <<wal, publication, slot, confirmed, pc, conn, pid, held, sfVars, bounds>>

\* Faulty: the batch ends one change too late.
DecodeOneMore ==
    /\ Polling /\ ~Undecodable
    /\ \E n \in confirmed..wal :
          /\ confirmed' = n + 1
          /\ reply' = [i \in Instance |->
                          IF conn[i] = active_pid THEN confirmed + 1..n ELSE reply[i]]
    /\ active_pid' = 0
    /\ EndIfOrphan
    /\ UNCHANGED <<wal, publication, slot, pc, conn, pid, held, sfVars, bounds>>

\* The changes of the batch leave the slot for the backend's client, if any.
Decode ==
    /\ Polling /\ ~Undecodable
    /\ \E n \in confirmed..wal :
          /\ n = confirmed => confirmed = wal
          /\ confirmed' = n
          /\ reply' = [i \in Instance |->
                          IF conn[i] = active_pid THEN confirmed + 1..n ELSE reply[i]]
    /\ active_pid' = 0
    /\ EndIfOrphan
    /\ UNCHANGED <<wal, publication, slot, pc, conn, pid, held, sfVars, bounds>>

\* poll_changes returns; an empty poll is followed by a flush.
Receive(i) ==
    /\ pc[i] = "polling" /\ Alive(i) /\ active_pid # conn[i]
    /\ Goto(i, IF reply[i] = {} THEN "flush" ELSE "publish")
    /\ UNCHANGED <<pgVars, conn, pid, reply, held, sfVars, bounds>>

\* Where the loop stands with these rows of the poll left.
Onward(rows) == IF rows = {} THEN "poll" ELSE "publish"

\* The next row of the poll is published: into the buffer, and if that makes it
\* full, or old enough, on to a flush.
Publish(i) ==
    /\ pc[i] = "publish"
    /\ \E c \in reply[i] :
          /\ \A d \in reply[i] : c <= d
          /\ held' = [held EXCEPT ![i] = @ \cup {c}]
          /\ reply' = [reply EXCEPT ![i] = @ \ {c}]
    /\ \E next \in {Onward(reply'[i]), "flush"} : Goto(i, next)
    /\ UNCHANGED <<pgVars, conn, pid, sfVars, bounds>>

\* Faulty: the buffer is not emptied.
WriteKeeping(i) ==
    /\ UNCHANGED held
    /\ history' = [c \in Seqs |-> IF c \in held[i] THEN history[c] + 1 ELSE history[c]]
    /\ IF held[i] = {} THEN UNCHANGED <<row, writer>>
                       ELSE row' \in held[i] /\ writer' = {i}

\* What a flush writes: the audit rows of the batch, and one of its images.
WriteHeld(i) ==
    /\ held' = [held EXCEPT ![i] = {}]
    /\ history' = [c \in Seqs |-> IF c \in held[i] THEN history[c] + 1 ELSE history[c]]
    /\ IF held[i] = {} THEN UNCHANGED <<row, writer>>
                       ELSE row' \in held[i] /\ writer' = {i}

FlushHeld(i) ==
    /\ pc[i] = "flush"
    /\ WriteHeld(i)
    /\ Goto(i, Onward(reply[i]))
    /\ UNCHANGED <<pgVars, conn, pid, reply, bounds>>

-----------------------------------------------------------------------------
(* Errors and the end of an instance.                                      *)

\* Faulty: a new sink for every connection.
ConnectionLostFreshSink(i) ==
    /\ pc[i] \in {"release", "terminate", "ensure", "create", "creating", "poll", "polling"}
    /\ ~Alive(i)
    /\ Fail(i)
    /\ held' = [held EXCEPT ![i] = {}]
    /\ UNCHANGED <<wal, publication, slot, confirmed, active_pid, sfVars, bounds>>

\* The instance uses its connection and learns that its backend is gone.
ConnectionLost(i) ==
    /\ pc[i] \in {"release", "terminate", "ensure", "create", "creating", "poll", "polling"}
    /\ ~Alive(i)
    /\ Fail(i)
    /\ UNCHANGED <<wal, publication, slot, confirmed, active_pid, held, sfVars, bounds>>

\* The network breaks.
Break(i) ==
    /\ Fault
    /\ pc[i] \in {"connect", "release", "terminate", "ensure", "create", "creating",
                  "poll", "polling"}
    /\ Fail(i)
    /\ UNCHANGED <<wal, publication, slot, confirmed, active_pid, held, sfVars, skipped>>

\* SIGTERM, noticed by one of the loops.  The one over the rows of a poll is left
\* with what it has not published; then the last flush, and the end.
Stop(i) ==
    /\ i \in Retiring
    /\ pc[i] \in {"poll", "publish", "connect"}
    /\ Close(i)
    /\ reply' = [reply EXCEPT ![i] = {}]
    /\ WriteHeld(i)
    /\ Goto(i, "stopped")
    /\ UNCHANGED <<wal, publication, slot, confirmed, active_pid, pid, bounds>>

Crash(i) ==
    /\ Fault
    /\ pc[i] \notin {"down", "stopped"}
    /\ Close(i)
    /\ pid' = [pid EXCEPT ![i] = 0]
    /\ reply' = [reply EXCEPT ![i] = {}] /\ held' = [held EXCEPT ![i] = {}]
    /\ Goto(i, "down")
    /\ UNCHANGED <<wal, publication, slot, confirmed, active_pid, sfVars, skipped>>

-----------------------------------------------------------------------------

Server == SlotCreated \/ DecodeFails \/ Decode \/ \E p \in Pid : BackendEnds(p)

Step(i) ==
    \/ EnsurePublication(i) \/ PublicationRefused(i)
    \/ Connect(i) \/ LookForHolder(i) \/ TerminateHolder(i)
    \/ LookForSlot(i) \/ CreateSlot(i) \/ SlotExists(i)
    \/ CallPoll(i) \/ PollRefused(i) \/ Receive(i)
    \/ Publish(i) \/ FlushHeld(i) \/ ConnectionLost(i)

Next ==
    \/ Commit \/ AdminPublishes \/ DropSlot \/ Diagnose
    \/ Server
    \/ \E i \in Instance : Step(i) \/ Break(i) \/ Stop(i) \/ Crash(i)

Spec == Init /\ [][Next]_vars

\* Instances and backends run, signals arrive, and the orchestrator's SIGTERM
\* stays set until one of the loops looks at it.
Fairness ==
    /\ \A i \in Instance : WF_vars(Step(i))
    /\ \A i \in Retiring : SF_vars(Stop(i))
    /\ WF_vars(SlotCreated) /\ WF_vars(DecodeFails \/ Decode)
    /\ \A p \in Pid : WF_vars(BackendEnds(p))

FairSpec == Spec /\ Fairness

-----------------------------------------------------------------------------
(* Properties.                                                             *)

\* Where a change that has left the slot is on its way to the warehouse.
InHand(i) == reply[i] \cup held[i]

\* However instances kill, crash and overtake each other, a change is in one
\* place only: still in the slot, in the hands of one instance, or in one audit
\* row.  This is what README.md:173-175 promises of a second instance ("rather
\* than double-processing anything").
NoDoubleProcessing ==
    /\ \A c \in Seqs : history[c] <= 1
    /\ \A i \in Instance : \A c \in InHand(i) : history[c] = 0 /\ c <= confirmed
    /\ \A c \in Seqs : history[c] > 0 => c <= confirmed
    /\ \A i, j \in Instance : i # j => InHand(i) \cap InHand(j) = {}

\* The order of start-up in main.py, publication before slot, is what makes a
\* slot readable: one that can never be decoded comes only from a refused
\* ensure_publication or from the diagnostic script.
StuckNeedsSkippedSetup ==
    slot = "ready" /\ Undecodable => skipped

\* What has left the slot and is nowhere any more.
Lost == {c \in 1..confirmed : history[c] = 0 /\ \A i \in Instance : c \notin InHand(i)}

\* A change is lost only with the process that has it; by SIGTERM, when the
\* process was given it and has not published it (main.py:127-129); with the
\* connection its poll was to return on; in a poll nobody waits for; or by a slot
\* that is created anew behind it.  In particular the last flush of a stop saves
\* all that was published, and terminating the backend of another instance costs
\* that instance nothing it has received.
LossNamed ==
    [][\A c \in Lost' \ Lost :
          \/ \E i \in Instance : c \in InHand(i) /\ pc'[i] = "down"
          \/ \E i \in Instance : c \in reply[i] /\ pc[i] = "publish" /\ pc'[i] = "stopped"
          \/ \E i \in Instance : c \in reply[i] /\ pc[i] = "polling" /\ conn'[i] = 0
          \/ active_pid # 0 /\ slot = "ready" /\ Orphan
          \/ slot # "ready" /\ slot' = "ready"]_vars

\* The current-state row goes back to an older change only when another
\* instance was given the newer one: with one instance order is kept.
BackwardsNeedsTwo ==
    [][row' < row => writer' # writer]_vars

\* After the deploy has stopped the instances it retires, and when nothing
\* breaks any more, another one empties the slot and writes what it took, no
\* matter who held the slot or was being terminated: unless the oldest change
\* in the slot is older than the publication.
Takeover ==
    <>[](/\ slot = "ready"
         /\ \/ Undecodable
            \/ confirmed = wal /\ \A i \in Instance : InHand(i) = {})

\* src/main.py:16-17: "the replication slot can only be consumed by one
\* connection, so a second instance will just wait/retry".
SecondInstanceWaits ==
    \A i, j \in Instance : held[i] # {} /\ held[j] # {} => i = j

===============================================================================
