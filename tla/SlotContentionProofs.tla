------------------------- MODULE SlotContentionProofs -------------------------
(***************************************************************************)
(* Proofs about instances sharing a slot, for any number of instances,     *)
(* changes and faults.                                                     *)
(***************************************************************************)
EXTENDS SlotContention, TLAPS

(***************************************************************************)
(* Types, and with them: the holder of the slot is a backend that is       *)
(* alive, so its process id is not given to a new connection.              *)
(***************************************************************************)
TypeInv == SlotTypeOK /\ (active_pid # 0 => active_pid \in backends)

LEMMA TypeInit == Init => TypeInv
<1> USE SlotAssumption DEF Init, Pc, Seqs, NoPublication
<1>1. Init => ServerTypeOK /\ active_pid = 0
      BY DEF ServerTypeOK
<1>2. Init => InstanceTypeOK
      BY DEF InstanceTypeOK
<1>3. Init => OutcomeTypeOK
  <2>1. Init => history \in [Seqs -> Nat] /\ row \in 0..MaxWal
        OBVIOUS
  <2>2. Init => writer \in SUBSET Instance /\ faults \in 0..MaxFaults
        OBVIOUS
  <2>3. Init => skipped \in BOOLEAN
        OBVIOUS
  <2>4. QED
        BY <2>1, <2>2, <2>3 DEF OutcomeTypeOK
<1>4. QED
      BY <1>1, <1>2, <1>3 DEF TypeInv, SlotTypeOK

USE DEF Goto

LEMMA TypeServer == TypeInv /\ (Commit \/ AdminPublishes \/ DropSlot \/ Diagnose \/ Server) => TypeInv'
<1> USE SlotAssumption DEF TypeInv, SlotTypeOK, ServerTypeOK, InstanceTypeOK, OutcomeTypeOK, Pc, Seqs, NoPublication, pgVars, sfVars, bounds
<1> SUFFICES ASSUME TypeInv,
                    Commit \/ AdminPublishes \/ DropSlot \/ Diagnose \/ Server
             PROVE  TypeInv'
    OBVIOUS
<1>1. CASE Commit
      BY <1>1 DEF Commit
<1>2. CASE AdminPublishes
      BY <1>2 DEF AdminPublishes, CreatePublication
<1>3. CASE DropSlot
      BY <1>3 DEF DropSlot, Fault
<1>4. CASE Diagnose
      BY <1>4 DEF Diagnose, Fault
<1>5. CASE SlotCreated
  <2>1. ServerTypeOK' /\ (active_pid # 0 => active_pid \in backends)'
    <3>1. /\ wal' \in 0..MaxWal /\ publication' \in 0..NoPublication
          /\ slot' \in {"absent", "creating", "ready"}
          /\ confirmed' \in 0..wal' /\ active_pid' = 0
          BY <1>5 DEF SlotCreated
    <3>2. backends' \subseteq Pid /\ doomed' \subseteq backends'
          BY <1>5 DEF SlotCreated, EndIfOrphan
    <3>3. QED
          BY <3>1, <3>2
  <2>2. InstanceTypeOK'
        BY <1>5 DEF SlotCreated
  <2>3. OutcomeTypeOK'
        BY <1>5 DEF SlotCreated
  <2>4. QED
        BY <2>1, <2>2, <2>3
<1>6. CASE DecodeFails
      BY <1>6 DEF DecodeFails
<1>7. CASE Decode
  <2>1. PICK n \in confirmed..wal :
               /\ confirmed' = n
               /\ reply' = [i \in Instance |->
                               IF conn[i] = active_pid THEN confirmed + 1..n ELSE reply[i]]
        BY <1>7 DEF Decode
  <2>2. confirmed + 1..n \subseteq 1..MaxWal /\ n \in 0..wal
        OBVIOUS
  <2>3. reply' \in [Instance -> SUBSET Seqs]
        BY <2>1, <2>2
  <2>4. QED
        BY <1>7, <2>1, <2>2, <2>3 DEF Decode, EndIfOrphan
<1>8. CASE \E p \in Pid : BackendEnds(p)
      BY <1>8 DEF BackendEnds
<1>9. QED
      BY <1>1, <1>2, <1>3, <1>4, <1>5, <1>6, <1>7, <1>8 DEF Server

LEMMA TypeStep == ASSUME TypeInv, NEW i \in Instance, Step(i) PROVE TypeInv'
<1> USE SlotAssumption DEF TypeInv, SlotTypeOK, ServerTypeOK, InstanceTypeOK, OutcomeTypeOK, Pc, Seqs, NoPublication, pgVars, sfVars, bounds
<1>1. CASE EnsurePublication(i)
      BY <1>1 DEF EnsurePublication, CreatePublication
<1>2. CASE PublicationRefused(i)
      BY <1>2 DEF PublicationRefused, Fault
<1>3. CASE Connect(i)
      BY <1>3 DEF Connect
<1>4. CASE LookForHolder(i)
      BY <1>4 DEF LookForHolder
<1>5. CASE TerminateHolder(i)
      BY <1>5 DEF TerminateHolder
<1>6. CASE LookForSlot(i)
      BY <1>6 DEF LookForSlot
<1>7. CASE CreateSlot(i)
      BY <1>7 DEF CreateSlot, Alive
<1>8. CASE SlotExists(i)
      BY <1>8 DEF SlotExists, Fail, Close
<1>9. CASE CallPoll(i)
      BY <1>9 DEF CallPoll, Alive
<1>10. CASE PollRefused(i)
      BY <1>10 DEF PollRefused, Fail, Close
<1>11. CASE Receive(i)
      BY <1>11 DEF Receive
<1>12. CASE FlushHeld(i)
  <2>1. held' \in [Instance -> SUBSET Seqs] /\ history' \in [Seqs -> Nat]
        BY <1>12 DEF FlushHeld, WriteHeld
  <2>2. row' \in 0..MaxWal /\ writer' \in SUBSET Instance
        BY <1>12 DEF FlushHeld, WriteHeld
  <2>3. pc' \in [Instance -> Pc]
        BY <1>12 DEF FlushHeld, Onward
  <2>4. UNCHANGED <<pgVars, conn, pid, reply, bounds>>
        BY <1>12 DEF FlushHeld
  <2>5. QED
        BY <2>1, <2>2, <2>3, <2>4
<1>13. CASE ConnectionLost(i)
      BY <1>13 DEF ConnectionLost, Fail, Close
<1>14. CASE Publish(i)
  <2>1. held' \in [Instance -> SUBSET Seqs] /\ reply' \in [Instance -> SUBSET Seqs]
        BY <1>14 DEF Publish
  <2>2. pc' \in [Instance -> Pc]
        BY <1>14 DEF Publish, Onward
  <2>3. UNCHANGED <<pgVars, conn, pid, sfVars, bounds>>
        BY <1>14 DEF Publish
  <2>4. QED
        BY <2>1, <2>2, <2>3
<1>15. QED
      BY <1>1, <1>2, <1>3, <1>4, <1>5, <1>6, <1>7, <1>8, <1>9, <1>10, <1>11, <1>12, <1>13, <1>14
      DEF Step

LEMMA TypeNext == TypeInv /\ [Next]_vars => TypeInv'
<1> SUFFICES ASSUME TypeInv, [Next]_vars PROVE TypeInv'
    OBVIOUS
<1> USE SlotAssumption DEF TypeInv, SlotTypeOK, ServerTypeOK, InstanceTypeOK, OutcomeTypeOK, Pc, Seqs, NoPublication, pgVars, sfVars, bounds
<1>1. CASE Commit \/ AdminPublishes \/ DropSlot \/ Diagnose \/ Server
      BY <1>1, TypeServer
<1>2. ASSUME NEW i \in Instance, Step(i) PROVE TypeInv'
      BY <1>2, TypeStep
<1>3. ASSUME NEW i \in Instance, Break(i) PROVE TypeInv'
  <2>1. ServerTypeOK' /\ (active_pid # 0 => active_pid \in backends)'
        BY <1>3 DEF Break, Fail, Close
  <2>2. InstanceTypeOK'
        BY <1>3 DEF Break, Fail, Close
  <2>3. OutcomeTypeOK'
        BY <1>3 DEF Break, Fault
  <2>4. QED
        BY <2>1, <2>2, <2>3
<1>4. ASSUME NEW i \in Instance, Stop(i) PROVE TypeInv'
  <2>1. ServerTypeOK' /\ (active_pid # 0 => active_pid \in backends)'
        BY <1>4 DEF Stop, Close
  <2>2. InstanceTypeOK'
        BY <1>4 DEF Stop, WriteHeld, Close
  <2>3. OutcomeTypeOK'
        BY <1>4 DEF Stop, WriteHeld
  <2>4. QED
        BY <2>1, <2>2, <2>3
<1>5. ASSUME NEW i \in Instance, Crash(i) PROVE TypeInv'
  <2>1. ServerTypeOK' /\ (active_pid # 0 => active_pid \in backends)'
        BY <1>5 DEF Crash, Close
  <2>2. InstanceTypeOK'
        BY <1>5 DEF Crash, Close
  <2>3. OutcomeTypeOK'
        BY <1>5 DEF Crash, Fault
  <2>4. QED
        BY <2>1, <2>2, <2>3
<1>6. CASE UNCHANGED vars
      BY <1>6 DEF vars
<1>7. QED
      BY <1>1, <1>2, <1>3, <1>4, <1>5, <1>6 DEF Next

\* Type correctness of the shared slot and of every instance on it.
THEOREM SlotTypeCorrect == Spec => []SlotTypeOK
<1>1. Spec => []TypeInv
      BY TypeInit, TypeNext, PTL DEF Spec
<1>2. TypeInv => SlotTypeOK
      BY DEF TypeInv
<1>3. QED
      BY <1>1, <1>2, PTL

(***************************************************************************)
(* Who talks to which backend.  A backend serves one connection; the one   *)
(* on the slot serves an instance that waits for the end of that call, or  *)
(* nobody; and changes that are taken and not published are under way to   *)
(* an instance still waiting, or the rows of one in the loop over them.    *)
(***************************************************************************)
OneClient == \A i, j \in Instance : i # j /\ conn[i] = conn[j] => conn[i] = 0

HolderCalls ==
    /\ slot = "absent" => active_pid = 0
    /\ slot = "creating" => active_pid # 0
    /\ \A i \in Instance :
          active_pid # 0 /\ conn[i] = active_pid =>
             pc[i] = IF slot = "creating" THEN "creating" ELSE "polling"

ReplyWaits ==
    \A i \in Instance :
       /\ reply[i] # {} => \/ pc[i] \in {"publish", "flush"}
                           \/ pc[i] = "polling" /\ conn[i] # 0 /\ conn[i] # active_pid
       /\ pc[i] = "publish" => reply[i] # {}

ChannelInv == OneClient /\ HolderCalls /\ ReplyWaits

LEMMA ChannelInit == Init => ChannelInv
  BY DEF Init, ChannelInv, OneClient, HolderCalls, ReplyWaits

LEMMA ChannelServer ==
    TypeInv /\ ChannelInv /\ (Commit \/ AdminPublishes \/ DropSlot \/ Diagnose \/ Server)
       => ChannelInv'
<1> USE SlotAssumption
    DEF TypeInv, SlotTypeOK, ServerTypeOK, InstanceTypeOK, ChannelInv, OneClient, HolderCalls,
        ReplyWaits
<1> SUFFICES ASSUME TypeInv, ChannelInv,
                    Commit \/ AdminPublishes \/ DropSlot \/ Diagnose \/ Server
             PROVE  ChannelInv'
    OBVIOUS
<1>1. CASE Commit
      BY <1>1 DEF Commit
<1>2. CASE AdminPublishes
      BY <1>2 DEF AdminPublishes
<1>3. CASE DropSlot
      BY <1>3 DEF DropSlot
<1>4. CASE Diagnose
      BY <1>4 DEF Diagnose
<1>5. CASE SlotCreated
  <2>1. \A i \in Instance : conn[i] = active_pid => pc[i] = "creating" /\ reply[i] = {}
        BY <1>5 DEF SlotCreated
  <2>2. /\ slot' = "ready" /\ active_pid' = 0 /\ UNCHANGED <<conn, reply>>
        /\ pc' = [i \in Instance |-> IF conn[i] = active_pid THEN "poll" ELSE pc[i]]
        BY <1>5 DEF SlotCreated
  <2>3. ReplyWaits'
        BY <2>1, <2>2
  <2>4. QED
        BY <2>2, <2>3
<1>6. CASE DecodeFails
      BY <1>6 DEF DecodeFails, Polling
<1>7. CASE Decode
      BY <1>7 DEF Decode, Polling
<1>8. CASE \E p \in Pid : BackendEnds(p)
      BY <1>8 DEF BackendEnds
<1>9. QED
      BY <1>1, <1>2, <1>3, <1>4, <1>5, <1>6, <1>7, <1>8 DEF Server

LEMMA ChannelStep ==
    ASSUME TypeInv, ChannelInv, NEW i \in Instance, Step(i) \/ Break(i) \/ Stop(i) \/ Crash(i)
    PROVE  ChannelInv'
<1> USE SlotAssumption
    DEF TypeInv, SlotTypeOK, ServerTypeOK, InstanceTypeOK, ChannelInv, OneClient, HolderCalls,
        ReplyWaits, pgVars, Pc
<1>1. CASE EnsurePublication(i)
      BY <1>1 DEF EnsurePublication
<1>2. CASE PublicationRefused(i)
      BY <1>2 DEF PublicationRefused
<1>3. CASE Connect(i)
      BY <1>3 DEF Connect, FreshPid
<1>4. CASE LookForHolder(i)
      BY <1>4 DEF LookForHolder
<1>5. CASE TerminateHolder(i)
      BY <1>5 DEF TerminateHolder
<1>6. CASE LookForSlot(i)
      BY <1>6 DEF LookForSlot
<1>7. CASE CreateSlot(i)
      BY <1>7 DEF CreateSlot, Alive
<1>8. CASE SlotExists(i)
      BY <1>8 DEF SlotExists, Fail, Close
<1>9. CASE CallPoll(i)
      BY <1>9 DEF CallPoll, Alive
<1>10. CASE PollRefused(i)
      BY <1>10 DEF PollRefused, Fail, Close
<1>11. CASE Receive(i)
      BY <1>11 DEF Receive
<1>12. CASE FlushHeld(i)
      BY <1>12 DEF FlushHeld, Onward
<1>13. CASE ConnectionLost(i)
      BY <1>13 DEF ConnectionLost, Fail, Close
<1>14. CASE Break(i)
      BY <1>14 DEF Break, Fail, Close
<1>15. CASE Stop(i)
      BY <1>15 DEF Stop, Close
<1>16. CASE Crash(i)
      BY <1>16 DEF Crash, Close
<1>17. CASE Publish(i)
  <2>1. pc[i] = "publish" /\ UNCHANGED <<slot, active_pid, conn>>
        BY <1>17 DEF Publish
  <2>2. /\ \A j \in Instance : j # i => pc'[j] = pc[j] /\ reply'[j] = reply[j]
        /\ pc'[i] \in {Onward(reply'[i]), "flush"}
        BY <1>17 DEF Publish
  <2>3. pc'[i] = "flush" \/ (reply'[i] = {} /\ pc'[i] = "poll") \/ (reply'[i] # {} /\ pc'[i] = "publish")
        BY <2>2 DEF Onward
  <2>4. QED
        BY <2>1, <2>2, <2>3
<1>18. QED
      BY <1>1, <1>2, <1>3, <1>4, <1>5, <1>6, <1>7, <1>8, <1>9, <1>10, <1>11, <1>12, <1>13,
         <1>14, <1>15, <1>16, <1>17
      DEF Step

LEMMA ChannelNext == TypeInv /\ ChannelInv /\ [Next]_vars => ChannelInv'
<1>1. TypeInv /\ ChannelInv /\ UNCHANGED vars => ChannelInv'
      BY DEF vars, pgVars, ChannelInv, OneClient, HolderCalls, ReplyWaits
<1>2. QED
      BY <1>1, ChannelServer, ChannelStep DEF Next

(***************************************************************************)
(* One place for every change.  Most steps leave the changes where they    *)
(* are or drop some (Settled); a call of the slot takes changes nobody has *)
(* had (Decode), and a flush moves a buffer into the audit table.          *)
(***************************************************************************)
Settled ==
    /\ history' = history /\ confirmed' \in Nat /\ confirmed <= confirmed'
    /\ \A i \in Instance : InHand(i)' \subseteq InHand(i)

LEMMA SettledKeeps ==
    ASSUME TypeInv, NoDoubleProcessing, Settled PROVE NoDoubleProcessing'
<1> USE DEF TypeInv, SlotTypeOK, ServerTypeOK, InstanceTypeOK, NoDoubleProcessing, Settled, InHand
<1>1. \A c \in Seqs : history'[c] <= 1
      OBVIOUS
<1>2. \A i \in Instance : \A c \in InHand(i)' : history'[c] = 0 /\ c <= confirmed'
      BY DEF Seqs
<1>3. \A c \in Seqs : history'[c] > 0 => c <= confirmed'
      BY DEF Seqs
<1>4. \A i, j \in Instance : i # j => InHand(i)' \cap InHand(j)' = {}
      OBVIOUS
<1>5. QED
      BY <1>1, <1>2, <1>3, <1>4

LEMMA SettledServer ==
    ASSUME TypeInv,
           Commit \/ AdminPublishes \/ DropSlot \/ Diagnose \/ SlotCreated \/ DecodeFails
              \/ \E p \in Pid : BackendEnds(p)
    PROVE  Settled
  BY DEF TypeInv, SlotTypeOK, ServerTypeOK, InstanceTypeOK, Settled, InHand, sfVars,
         Commit, AdminPublishes, DropSlot, Diagnose, SlotCreated, DecodeFails, BackendEnds

LEMMA SettledStep ==
    ASSUME TypeInv, NEW i \in Instance,
           Step(i) \/ Break(i) \/ Crash(i), ~FlushHeld(i)
    PROVE  Settled
<1> USE DEF TypeInv, SlotTypeOK, ServerTypeOK, InstanceTypeOK, Settled, InHand, sfVars, pgVars
<1>1. CASE SlotExists(i) \/ PollRefused(i) \/ ConnectionLost(i) \/ Break(i)
      BY <1>1 DEF SlotExists, PollRefused, ConnectionLost, Break, Fail
<1>2. CASE Crash(i)
      BY <1>2 DEF Crash
<1>3. CASE EnsurePublication(i) \/ PublicationRefused(i) \/ Connect(i) \/ LookForHolder(i)
      BY <1>3 DEF EnsurePublication, PublicationRefused, Connect, LookForHolder
<1>4. CASE TerminateHolder(i) \/ LookForSlot(i) \/ CreateSlot(i) \/ CallPoll(i)
      BY <1>4 DEF TerminateHolder, LookForSlot, CreateSlot, CallPoll
<1>5. CASE Receive(i) \/ Publish(i)
      BY <1>5 DEF Receive, Publish
<1>6. QED
      BY <1>1, <1>2, <1>3, <1>4, <1>5 DEF Step

(* What is published is older than what is not. *)
InOrder == \A i \in Instance : \A c \in held[i], d \in reply[i] : c < d

LEMMA OrderNext ==
    ASSUME TypeInv, NoDoubleProcessing, InOrder, [Next]_vars PROVE InOrder'
<1> USE DEF TypeInv, SlotTypeOK, ServerTypeOK, InstanceTypeOK, InOrder
<1>1. ASSUME \A i \in Instance : held'[i] \subseteq held[i] /\ reply'[i] \subseteq reply[i]
      PROVE  InOrder'
      BY <1>1
<1>2. CASE Decode
  <2>1. PICK n \in confirmed..wal :
               reply' = [i \in Instance |->
                            IF conn[i] = active_pid THEN confirmed + 1..n ELSE reply[i]]
        BY <1>2 DEF Decode
  <2>2. held' = held
        BY <1>2 DEF Decode
  <2>3. \A i \in Instance : \A c \in held[i] : c \in Nat /\ c <= confirmed
        BY DEF NoDoubleProcessing, InHand, Seqs
  <2>4. QED
        BY <2>1, <2>2, <2>3
<1>3. CASE Commit \/ AdminPublishes \/ DropSlot \/ Diagnose \/ SlotCreated \/ DecodeFails
              \/ \E p \in Pid : BackendEnds(p)
      BY <1>1, <1>3 DEF Commit, AdminPublishes, DropSlot, Diagnose, SlotCreated, DecodeFails,
                        BackendEnds
<1>4. ASSUME NEW i \in Instance, Publish(i) PROVE InOrder'
  <2>1. PICK c \in reply[i] :
               /\ \A d \in reply[i] : c <= d
               /\ held' = [held EXCEPT ![i] = @ \cup {c}]
               /\ reply' = [reply EXCEPT ![i] = @ \ {c}]
        BY <1>4 DEF Publish
  <2>2. \A d \in reply'[i] : d \in reply[i] /\ c < d
        BY <2>1 DEF Seqs
  <2>3. \A b \in held'[i] : b = c \/ b \in held[i]
        BY <2>1
  <2>4. \A j \in Instance : j # i => held'[j] = held[j] /\ reply'[j] = reply[j]
        BY <2>1
  <2>5. QED
        BY <2>2, <2>3, <2>4
<1>5. ASSUME NEW i \in Instance, Step(i) \/ Break(i) \/ Stop(i) \/ Crash(i), ~Publish(i)
      PROVE  InOrder'
  <2>1. CASE SlotExists(i) \/ PollRefused(i) \/ ConnectionLost(i) \/ Break(i)
        BY <1>1, <2>1 DEF SlotExists, PollRefused, ConnectionLost, Break, Fail
  <2>2. CASE Crash(i) \/ Stop(i) \/ FlushHeld(i)
        BY <1>1, <2>2 DEF Crash, Stop, FlushHeld, WriteHeld
  <2>3. CASE EnsurePublication(i) \/ PublicationRefused(i) \/ Connect(i) \/ LookForHolder(i)
             \/ TerminateHolder(i) \/ LookForSlot(i) \/ CreateSlot(i) \/ CallPoll(i) \/ Receive(i)
        BY <1>1, <2>3 DEF EnsurePublication, PublicationRefused, Connect, LookForHolder,
                          TerminateHolder, LookForSlot, CreateSlot, CallPoll, Receive
  <2>4. QED
        BY <1>5, <2>1, <2>2, <2>3 DEF Step
<1>6. CASE UNCHANGED vars
      BY <1>1, <1>6 DEF vars
<1>7. QED
      BY <1>2, <1>3, <1>4, <1>5, <1>6 DEF Next, Server

\* A batch is taken by the one client of the backend, and by nobody before.
LEMMA DecodeOnce ==
    ASSUME TypeInv, ChannelInv, NoDoubleProcessing, Decode PROVE NoDoubleProcessing'
<1> USE DEF TypeInv, SlotTypeOK, ServerTypeOK, InstanceTypeOK, InHand
<1>1. PICK n \in confirmed..wal :
             /\ confirmed' = n
             /\ reply' = [i \in Instance |->
                             IF conn[i] = active_pid THEN confirmed + 1..n ELSE reply[i]]
      BY DEF Decode
<1>2. history' = history /\ held' = held /\ active_pid # 0
      BY DEF Decode, sfVars, Polling
<1>3. \A i \in Instance : \A c \in InHand(i)' :
         \/ c \in InHand(i)
         \/ c \in confirmed + 1..n /\ conn[i] = active_pid
      BY <1>1, <1>2
<1>4. \A c \in Seqs : history'[c] <= 1 /\ (history'[c] > 0 => c <= confirmed')
      BY <1>1, <1>2 DEF NoDoubleProcessing, Seqs
<1>5. \A i \in Instance : \A c \in InHand(i)' : history'[c] = 0 /\ c <= confirmed'
  <2> TAKE i \in Instance
  <2> TAKE c \in InHand(i)'
  <2>1. CASE c \in InHand(i)
        BY <2>1, <1>1, <1>2 DEF NoDoubleProcessing, Seqs
  <2>2. CASE c \in confirmed + 1..n
    <3>1. c \in Seqs /\ c > confirmed /\ c <= n
          BY <2>2, SlotAssumption DEF Seqs
    <3>2. history[c] \in Nat /\ ~(history[c] > 0)
      <4>1. c \in Seqs /\ ~(c <= confirmed)
            BY <3>1 DEF Seqs
      <4>2. QED
            BY <4>1 DEF NoDoubleProcessing, OutcomeTypeOK
    <3>3. QED
          BY <3>1, <3>2, <1>1, <1>2
  <2>3. QED
        BY <1>3, <2>1, <2>2
<1>6. \A i, j \in Instance : i # j => InHand(i)' \cap InHand(j)' = {}
  <2> SUFFICES ASSUME NEW i \in Instance, NEW j \in Instance, i # j,
                      NEW c \in InHand(i)', c \in InHand(j)'
               PROVE  FALSE
      OBVIOUS
  <2>1. \A m \in Instance : c \in InHand(m) => c \in Nat /\ c <= confirmed
        BY DEF NoDoubleProcessing, Seqs
  <2>2. c \in confirmed + 1..n => \A m \in Instance : c \notin InHand(m)
        BY <2>1
  <2>3. CASE c \in confirmed + 1..n
        BY <2>3, <2>2, <1>3, <1>2 DEF ChannelInv, OneClient
  <2>4. CASE c \notin confirmed + 1..n
        BY <2>4, <1>3 DEF NoDoubleProcessing
  <2>5. QED
        BY <2>3, <2>4
<1>7. QED
      BY <1>4, <1>5, <1>6 DEF NoDoubleProcessing

LEMMA WriteOnce ==
    ASSUME TypeInv, NoDoubleProcessing, InOrder, NEW i \in Instance, WriteHeld(i),
           \A j \in Instance : reply'[j] \subseteq reply[j], confirmed' = confirmed
    PROVE  NoDoubleProcessing'
<1> USE DEF TypeInv, SlotTypeOK, ServerTypeOK, InstanceTypeOK, OutcomeTypeOK, InHand, WriteHeld
<1>1. \A c \in InHand(i)' : c \in reply[i] /\ c \in InHand(i) /\ c \notin held[i]
      BY DEF InOrder, Seqs
<1>2. \A j \in Instance : j # i => InHand(j)' \subseteq InHand(j)
      OBVIOUS
<1>3. \A c \in Seqs : history'[c] = IF c \in held[i] THEN history[c] + 1 ELSE history[c]
      OBVIOUS
<1>4. \A c \in Seqs : c \in held[i] => history[c] = 0 /\ c <= confirmed
      BY DEF NoDoubleProcessing
<1>5. \A c \in Seqs : history'[c] <= 1 /\ (history'[c] > 0 => c <= confirmed')
      BY <1>3, <1>4 DEF NoDoubleProcessing
<1>6. ASSUME NEW j \in Instance, NEW c \in InHand(j)'
      PROVE  history'[c] = 0 /\ c <= confirmed'
  <2>1. c \in InHand(j) /\ c \in Seqs
        BY <1>1, <1>2
  <2>2. c \notin held[i]
        BY <1>1, <2>1 DEF NoDoubleProcessing
  <2>3. QED
        BY <2>1, <2>2, <1>3 DEF NoDoubleProcessing
<1>7. \A j, k \in Instance : j # k => InHand(j)' \cap InHand(k)' = {}
      BY <1>1, <1>2 DEF NoDoubleProcessing
<1>8. QED
      BY <1>5, <1>6, <1>7 DEF NoDoubleProcessing

LEMMA SharingNext ==
    TypeInv /\ ChannelInv /\ NoDoubleProcessing /\ InOrder /\ [Next]_vars => NoDoubleProcessing'
<1> SUFFICES ASSUME TypeInv, ChannelInv, NoDoubleProcessing, InOrder, [Next]_vars
             PROVE  NoDoubleProcessing'
    OBVIOUS
<1>1. CASE Decode
      BY <1>1, DecodeOnce
<1>2. CASE Commit \/ AdminPublishes \/ DropSlot \/ Diagnose \/ SlotCreated \/ DecodeFails
              \/ \E p \in Pid : BackendEnds(p)
      BY <1>2, SettledServer, SettledKeeps
<1>3. ASSUME NEW i \in Instance, Step(i) \/ Break(i) \/ Crash(i) PROVE NoDoubleProcessing'
  <2>1. CASE FlushHeld(i)
        BY <2>1, WriteOnce DEF FlushHeld, pgVars
  <2>2. CASE ~FlushHeld(i)
        BY <2>2, <1>3, SettledStep, SettledKeeps
  <2>3. QED
        BY <2>1, <2>2
<1>4. ASSUME NEW i \in Instance, Stop(i) PROVE NoDoubleProcessing'
  <2>1. \A j \in Instance : reply'[j] \subseteq reply[j]
        BY <1>4 DEF Stop, TypeInv, SlotTypeOK, InstanceTypeOK
  <2>2. QED
        BY <2>1, <1>4, WriteOnce DEF Stop
<1>5. CASE UNCHANGED vars
  <2>1. history' = history /\ confirmed' = confirmed /\ \A i \in Instance : InHand(i)' = InHand(i)
        BY <1>5 DEF vars, sfVars, pgVars, InHand
  <2>2. QED
        BY <2>1 DEF NoDoubleProcessing
<1>6. QED
      BY <1>1, <1>2, <1>3, <1>4, <1>5 DEF Next, Server

SharingInv == TypeInv /\ ChannelInv /\ NoDoubleProcessing /\ InOrder

LEMMA SharingCorrect == Spec => []SharingInv
<1>1. Init => SharingInv
  <2>1. Init => NoDoubleProcessing /\ InOrder
        BY DEF Init, NoDoubleProcessing, InHand, InOrder
  <2>2. QED
        BY <2>1, TypeInit, ChannelInit DEF SharingInv
<1>2. SharingInv /\ [Next]_vars => SharingInv'
      BY TypeNext, ChannelNext, SharingNext, OrderNext DEF SharingInv
<1>3. QED
      BY <1>1, <1>2, PTL DEF Spec

\* However many instances share the slot, and whoever terminates whose backend,
\* a change is taken by one of them and becomes one audit row at most.
THEOREM ChangesTakenOnce == Spec => []NoDoubleProcessing
<1>1. SharingInv => NoDoubleProcessing
      BY DEF SharingInv
<1>2. QED
      BY <1>1, SharingCorrect, PTL

(***************************************************************************)
(* Start-up order.  Unless a step of the set-up was skipped, an instance   *)
(* that has started knows the publication to exist, and so does a slot.    *)
(***************************************************************************)
Published == publication # NoPublication

PublicationFirst ==
    ~skipped =>
       /\ Published => publication <= wal
       /\ \A i \in Instance : pc[i] # "down" => Published
       /\ slot # "absent" => Published
       /\ slot = "ready" => publication <= confirmed

LEMMA PublicationServer ==
    ASSUME TypeInv, PublicationFirst,
           Commit \/ AdminPublishes \/ DropSlot \/ Diagnose \/ Server
    PROVE  PublicationFirst'
<1> USE SlotAssumption
    DEF TypeInv, SlotTypeOK, ServerTypeOK, InstanceTypeOK, PublicationFirst, Published,
        NoPublication, bounds, Pc
<1>1. CASE Commit
      BY <1>1 DEF Commit
<1>2. CASE AdminPublishes
      BY <1>2 DEF AdminPublishes, CreatePublication
<1>3. CASE DropSlot
      BY <1>3 DEF DropSlot
<1>4. CASE Diagnose
      BY <1>4 DEF Diagnose
<1>5. CASE SlotCreated
  <2>1. \A i \in Instance : pc'[i] # "down" => pc[i] # "down" \/ conn[i] = active_pid
        BY <1>5 DEF SlotCreated
  <2>2. slot # "absent" /\ slot' = "ready" /\ confirmed' = wal /\ wal' = wal
        /\ publication' = publication /\ skipped' = skipped
        BY <1>5 DEF SlotCreated
  <2>3. QED
        BY <2>1, <2>2
<1>6. CASE DecodeFails
  <2>1. slot = "ready" /\ UNCHANGED <<publication, wal, slot, confirmed, skipped>>
        BY <1>6 DEF DecodeFails, Polling
  <2>2. QED
        BY <2>1
<1>7. CASE Decode
  <2>1. PICK n \in confirmed..wal : confirmed' = n
        BY <1>7 DEF Decode
  <2>2. UNCHANGED <<publication, wal, slot, pc, skipped>>
        BY <1>7 DEF Decode
  <2>3. QED
        BY <2>1, <2>2
<1>8. CASE \E p \in Pid : BackendEnds(p)
      BY <1>8 DEF BackendEnds
<1>9. QED
      BY <1>1, <1>2, <1>3, <1>4, <1>5, <1>6, <1>7, <1>8 DEF Server

LEMMA PublicationStep ==
    ASSUME TypeInv, PublicationFirst, NEW i \in Instance,
           Step(i) \/ Break(i) \/ Stop(i) \/ Crash(i)
    PROVE  PublicationFirst'
<1> USE SlotAssumption
    DEF TypeInv, SlotTypeOK, ServerTypeOK, InstanceTypeOK, PublicationFirst, Published,
        NoPublication, bounds, pgVars
<1>1. CASE EnsurePublication(i)
      BY <1>1 DEF EnsurePublication, CreatePublication
<1>2. CASE PublicationRefused(i)
      BY <1>2 DEF PublicationRefused
<1>3. CASE CreateSlot(i)
      BY <1>3 DEF CreateSlot
<1>4. CASE SlotExists(i) \/ PollRefused(i) \/ ConnectionLost(i) \/ Break(i)
  <2>1. pc[i] # "down" /\ pc' = [pc EXCEPT ![i] = "connect"]
        BY <1>4 DEF SlotExists, PollRefused, ConnectionLost, Break, Fail
  <2>2. UNCHANGED <<publication, wal, slot, confirmed, skipped>>
        BY <1>4 DEF SlotExists, PollRefused, ConnectionLost, Break
  <2>3. QED
        BY <2>1, <2>2
<1>5. CASE Connect(i) \/ LookForHolder(i) \/ TerminateHolder(i) \/ LookForSlot(i) \/ CallPoll(i)
  <2>1. pc[i] # "down" /\ \A j \in Instance : j # i => pc'[j] = pc[j]
        BY <1>5 DEF Connect, LookForHolder, TerminateHolder, LookForSlot, CallPoll
  <2>2. UNCHANGED <<publication, wal, slot, confirmed, skipped>>
        BY <1>5 DEF Connect, LookForHolder, TerminateHolder, LookForSlot, CallPoll
  <2>3. QED
        BY <2>1, <2>2
<1>6. CASE Receive(i) \/ Publish(i) \/ FlushHeld(i) \/ Stop(i) \/ Crash(i)
  <2>1. pc[i] # "down" /\ \A j \in Instance : j # i => pc'[j] = pc[j]
        BY <1>6 DEF Receive, Publish, FlushHeld, Stop, Crash
  <2>2. UNCHANGED <<publication, wal, slot, confirmed, skipped>>
        BY <1>6 DEF Receive, Publish, FlushHeld, Stop, Crash
  <2>3. QED
        BY <2>1, <2>2
<1>7. QED
      BY <1>1, <1>2, <1>3, <1>4, <1>5, <1>6 DEF Step

\* An unreadable slot has a refused ensure_publication or a diagnostic run
\* behind it, whatever else happened to any number of instances.
THEOREM SetupOrder == Spec => []StuckNeedsSkippedSetup
<1> DEFINE SetupInv == TypeInv /\ PublicationFirst
<1>1. Init => SetupInv
      BY TypeInit DEF Init, PublicationFirst, Published
<1>2. SetupInv /\ [Next]_vars => SetupInv'
  <2>1. PublicationFirst /\ UNCHANGED vars => PublicationFirst'
        BY DEF vars, pgVars, bounds, PublicationFirst, Published
  <2>2. QED
        BY <2>1, TypeNext, PublicationServer, PublicationStep DEF Next
<1>3. SetupInv => StuckNeedsSkippedSetup
      BY SlotAssumption DEF StuckNeedsSkippedSetup, Undecodable, PublicationFirst, Published,
            TypeInv, SlotTypeOK, ServerTypeOK, NoPublication
<1>4. QED
      BY <1>1, <1>2, <1>3, PTL DEF Spec

(***************************************************************************)
(* Who wrote the row.  An instance has nothing older in hand than what it  *)
(* wrote last, since it takes changes in the order of the log.             *)
(***************************************************************************)
WriterAhead ==
    /\ row <= confirmed
    /\ writer = {} => row = 0
    /\ writer # {} => \E i \in Instance : writer = {i} /\ \A c \in InHand(i) : row < c

LEMMA WriterStep ==
    ASSUME SharingInv, WriterAhead, [Next]_vars
    PROVE  WriterAhead' /\ (row' < row => writer' # writer)
<1> USE DEF SharingInv, TypeInv, SlotTypeOK, ServerTypeOK, InstanceTypeOK, OutcomeTypeOK
<1>1. ASSUME NEW i \in Instance, WriteHeld(i), \A j \in Instance : reply'[j] \subseteq reply[j],
             confirmed' = confirmed
      PROVE  WriterAhead' /\ (row' < row => writer' # writer)
  <2>1. CASE held[i] = {}
    <3>1. row' = row /\ writer' = writer /\ held' = held
          BY <1>1, <2>1 DEF WriteHeld
    <3>2. QED
          BY <3>1, <1>1 DEF WriterAhead, InHand
  <2>2. CASE held[i] # {}
    <3>1. /\ row' \in held[i] /\ writer' = {i}
          /\ \A c \in InHand(i)' : c \in reply[i] /\ row' < c
          BY <1>1, <2>2 DEF WriteHeld, InHand, InOrder
    <3>2. row' <= confirmed
          BY <3>1 DEF NoDoubleProcessing, InHand
    <3>3. writer = {i} => row < row'
          BY <3>1 DEF WriterAhead, InHand
    <3>4. WriterAhead'
          BY <3>1, <3>2, <1>1 DEF WriterAhead
    <3>5. row' \in Nat /\ row \in Nat
          BY <3>1 DEF Seqs
    <3>6. QED
          BY <3>1, <3>3, <3>4, <3>5
  <2>3. QED
        BY <2>1, <2>2
<1>2. ASSUME UNCHANGED <<row, writer>>, confirmed' \in Nat, confirmed <= confirmed',
             \A i \in Instance : \A c \in InHand(i)' : c \in InHand(i) \/ c > confirmed
      PROVE  WriterAhead' /\ (row' < row => writer' # writer)
  <2>1. \A i \in Instance : \A c \in InHand(i)' : c \in Nat
        BY TypeNext DEF InHand, Seqs
  <2>2. QED
        BY <1>2, <2>1 DEF WriterAhead
<1>3. CASE Decode
  <2>1. PICK n \in confirmed..wal :
               /\ confirmed' = n
               /\ reply' = [i \in Instance |->
                               IF conn[i] = active_pid THEN confirmed + 1..n ELSE reply[i]]
        BY <1>3 DEF Decode
  <2>2. UNCHANGED <<row, writer, held>>
        BY <1>3 DEF Decode, sfVars
  <2>3. \A i \in Instance : \A c \in InHand(i)' : c \in InHand(i) \/ c > confirmed
        BY <2>1, <2>2 DEF InHand
  <2>4. QED
        BY <2>1, <2>2, <2>3, <1>2
<1>4. ASSUME Settled, UNCHANGED <<row, writer>>
      PROVE  WriterAhead' /\ (row' < row => writer' # writer)
      BY <1>4, <1>2 DEF Settled
<1>5. CASE Commit \/ AdminPublishes \/ DropSlot \/ Diagnose \/ SlotCreated \/ DecodeFails
              \/ \E p \in Pid : BackendEnds(p)
  <2>1. UNCHANGED <<row, writer>>
        BY <1>5 DEF Commit, AdminPublishes, DropSlot, Diagnose, SlotCreated, DecodeFails,
                    BackendEnds, sfVars
  <2>2. QED
        BY <1>5, <2>1, <1>4, SettledServer
<1>6. ASSUME NEW i \in Instance, Step(i) \/ Break(i) \/ Crash(i)
      PROVE  WriterAhead' /\ (row' < row => writer' # writer)
  <2>1. CASE FlushHeld(i)
        BY <2>1, <1>1 DEF FlushHeld, pgVars
  <2>2. CASE ~FlushHeld(i)
    <3>1. UNCHANGED <<row, writer>>
          BY <2>2, <1>6
          DEF Step, EnsurePublication, PublicationRefused, Connect, LookForHolder,
              TerminateHolder, LookForSlot, CreateSlot, SlotExists, CallPoll, PollRefused,
              Receive, Publish, ConnectionLost, Break, Crash, sfVars
    <3>2. QED
          BY <3>1, <2>2, <1>6, <1>4, SettledStep
  <2>3. QED
        BY <2>1, <2>2
<1>7. ASSUME NEW i \in Instance, Stop(i)
      PROVE  WriterAhead' /\ (row' < row => writer' # writer)
  <2>1. \A j \in Instance : reply'[j] \subseteq reply[j]
        BY <1>7 DEF Stop
  <2>2. QED
        BY <2>1, <1>7, <1>1 DEF Stop
<1>8. CASE UNCHANGED vars
      BY <1>8, <1>2 DEF vars, sfVars, pgVars, InHand
<1>9. QED
      BY <1>3, <1>5, <1>6, <1>7, <1>8 DEF Next, Server

\* The current-state row goes back to an older change only by the hand of an
\* instance other than the one that wrote the newer.
THEOREM OrderOfOneInstance == Spec => BackwardsNeedsTwo
<1>1. Init => WriterAhead
      BY DEF Init, WriterAhead
<1>2. SharingInv /\ WriterAhead /\ [Next]_vars =>
         WriterAhead' /\ [row' < row => writer' # writer]_vars
      BY WriterStep
<1>3. QED
      BY <1>1, <1>2, SharingCorrect, PTL DEF Spec, BackwardsNeedsTwo

(***************************************************************************)
(* Losses.  A change is new among the lost only if a hand let go of it, or *)
(* the slot moved over it.                                                 *)
(***************************************************************************)
LossStep ==
    \A c \in Lost' \ Lost :
       \/ \E i \in Instance : c \in InHand(i) /\ pc'[i] = "down"
       \/ \E i \in Instance : c \in reply[i] /\ pc[i] = "publish" /\ pc'[i] = "stopped"
       \/ \E i \in Instance : c \in reply[i] /\ pc[i] = "polling" /\ conn'[i] = 0
       \/ active_pid # 0 /\ slot = "ready" /\ Orphan
       \/ slot # "ready" /\ slot' = "ready"

LEMMA NoHandLetsGo ==
    ASSUME TypeInv, UNCHANGED <<confirmed, history>>,
           \A i \in Instance : InHand(i) \subseteq InHand(i)'
    PROVE  LossStep
<1>1. Lost' \subseteq Lost
      BY DEF Lost, TypeInv, SlotTypeOK, ServerTypeOK
<1>2. QED
      BY <1>1 DEF LossStep

\* What a flush takes out of a buffer is in the audit table.
LEMMA LossWriting ==
    ASSUME TypeInv, NoDoubleProcessing, NEW i \in Instance, WriteHeld(i), confirmed' = confirmed,
           \A j \in Instance : j # i => reply'[j] = reply[j],
           NEW c \in Lost', c \notin Lost
    PROVE  c \in reply[i] /\ c \notin reply'[i]
<1> USE SlotAssumption DEF TypeInv, SlotTypeOK, ServerTypeOK, InstanceTypeOK, OutcomeTypeOK
<1>1. c \in 1..confirmed /\ c \in Seqs
      BY DEF Lost, Seqs
<1>2. c \notin held[i]
  <2>1. c \in held[i] => history[c] = 0 /\ history'[c] = history[c] + 1
        BY <1>1 DEF WriteHeld, NoDoubleProcessing, InHand
  <2>2. history'[c] = 0
        BY DEF Lost
  <2>3. QED
        BY <2>1, <2>2
<1>3. history[c] = 0
      BY <1>1, <1>2 DEF Lost, WriteHeld
<1>4. PICK j \in Instance : c \in InHand(j)
      BY <1>1, <1>3 DEF Lost
<1>5. c \notin InHand(j)' /\ c \notin InHand(i)'
      BY DEF Lost
<1>6. j = i
      BY <1>4, <1>5 DEF InHand, WriteHeld
<1>7. QED
      BY <1>2, <1>4, <1>5, <1>6 DEF InHand

LEMMA LossNext == ASSUME SharingInv, [Next]_vars PROVE LossStep
<1> USE DEF SharingInv, TypeInv, SlotTypeOK, ServerTypeOK, InstanceTypeOK
<1>1. CASE Decode
  <2>1. PICK n \in confirmed..wal :
               /\ confirmed' = n
               /\ reply' = [i \in Instance |->
                               IF conn[i] = active_pid THEN confirmed + 1..n ELSE reply[i]]
        BY <1>1 DEF Decode
  <2>2. UNCHANGED <<history, held>> /\ active_pid # 0 /\ slot = "ready"
        BY <1>1 DEF Decode, sfVars, Polling
  <2>3. \A i \in Instance : InHand(i) \subseteq InHand(i)'
        BY <2>1, <2>2 DEF InHand, ChannelInv, ReplyWaits, HolderCalls
  <2>4. ASSUME NEW c \in Lost', c \notin Lost, ~Orphan PROVE FALSE
    <3>1. c \in confirmed + 1..n
          BY <2>1, <2>2, <2>3, <2>4 DEF Lost
    <3>2. PICK i \in Instance : conn[i] = active_pid
          BY <2>4 DEF Orphan
    <3>3. c \in InHand(i)'
          BY <3>1, <3>2, <2>1 DEF InHand
    <3>4. QED
          BY <3>3 DEF Lost
  <2>5. QED
        BY <2>2, <2>4 DEF LossStep
<1>2. CASE SlotCreated \/ Diagnose
      BY <1>2 DEF SlotCreated, Diagnose, LossStep
<1>3. CASE Commit \/ AdminPublishes \/ DropSlot \/ DecodeFails \/ \E p \in Pid : BackendEnds(p)
  <2>1. UNCHANGED <<confirmed, history, reply, held>>
        BY <1>3 DEF Commit, AdminPublishes, DropSlot, DecodeFails, BackendEnds, sfVars
  <2>2. QED
        BY <2>1, NoHandLetsGo DEF InHand
<1>4. ASSUME NEW i \in Instance, Step(i) \/ Break(i) \/ Stop(i) \/ Crash(i) PROVE LossStep
  <2>1. CASE SlotExists(i) \/ PollRefused(i) \/ ConnectionLost(i) \/ Break(i)
    <3>1. UNCHANGED <<confirmed, history, held>>
          BY <2>1 DEF SlotExists, PollRefused, ConnectionLost, Break, sfVars
    <3>2. reply' = [reply EXCEPT ![i] = {}] /\ conn' = [conn EXCEPT ![i] = 0]
          BY <2>1 DEF SlotExists, PollRefused, ConnectionLost, Break, Fail, Close
    <3>3. ASSUME NEW c \in Lost', c \notin Lost
          PROVE  c \in reply[i] /\ pc[i] = "polling" /\ conn'[i] = 0
      <4>1. \E j \in Instance : c \in InHand(j) /\ c \notin InHand(j)'
            BY <3>1, <3>3 DEF Lost
      <4>2. c \in reply[i]
            BY <4>1, <3>1, <3>2 DEF InHand
      <4>3. pc[i] \notin {"publish", "flush"}
            BY <2>1 DEF SlotExists, PollRefused, ConnectionLost, Break
      <4>4. QED
            BY <4>2, <4>3, <3>2 DEF ChannelInv, ReplyWaits
    <3>4. QED
          BY <3>3 DEF LossStep
  <2>2. CASE Crash(i)
    <3>1. UNCHANGED <<confirmed, history>>
          BY <2>2 DEF Crash, sfVars
    <3>2. /\ reply' = [reply EXCEPT ![i] = {}] /\ conn' = [conn EXCEPT ![i] = 0]
          /\ held' = [held EXCEPT ![i] = {}] /\ pc' = [pc EXCEPT ![i] = "down"]
          BY <2>2 DEF Crash, Close
    <3>3. ASSUME NEW c \in Lost', c \notin Lost
          PROVE  c \in InHand(i) /\ pc'[i] = "down"
      <4>1. \E j \in Instance : c \in InHand(j) /\ c \notin InHand(j)'
            BY <3>1, <3>3 DEF Lost
      <4>2. c \in InHand(i)
            BY <4>1, <3>2 DEF InHand
      <4>3. QED
            BY <4>2, <3>2
    <3>4. QED
          BY <3>3 DEF LossStep
  <2>3. CASE FlushHeld(i)
        BY <2>3, LossWriting DEF FlushHeld, pgVars, LossStep
  <2>4. CASE Stop(i)
    <3>1. /\ WriteHeld(i) /\ confirmed' = confirmed /\ pc'[i] = "stopped"
          /\ reply' = [reply EXCEPT ![i] = {}] /\ pc[i] \in {"poll", "publish", "connect"}
          BY <2>4 DEF Stop
    <3>2. ASSUME NEW c \in Lost', c \notin Lost PROVE c \in reply[i] /\ pc[i] = "publish"
      <4>1. c \in reply[i]
            BY <3>1, <3>2, LossWriting
      <4>2. QED
            BY <3>1, <4>1 DEF ChannelInv, ReplyWaits
    <3>3. QED
          BY <3>1, <3>2 DEF LossStep
  <2>5. CASE Receive(i) \/ Publish(i)
    <3>1. \A j \in Instance : InHand(j)' = InHand(j)
          BY <2>5 DEF Receive, Publish, InHand
    <3>2. UNCHANGED <<confirmed, history>>
          BY <2>5 DEF Receive, Publish, sfVars, pgVars
    <3>3. QED
          BY <3>1, <3>2, NoHandLetsGo
  <2>6. CASE EnsurePublication(i) \/ PublicationRefused(i) \/ Connect(i) \/ LookForHolder(i)
             \/ TerminateHolder(i) \/ LookForSlot(i) \/ CreateSlot(i) \/ CallPoll(i)
    <3>1. UNCHANGED <<confirmed, history, reply, held>>
          BY <2>6 DEF EnsurePublication, PublicationRefused, Connect, LookForHolder,
                      TerminateHolder, LookForSlot, CreateSlot, CallPoll, sfVars, pgVars
    <3>2. QED
          BY <3>1, NoHandLetsGo DEF InHand
  <2>7. QED
        BY <1>4, <2>1, <2>2, <2>3, <2>4, <2>5, <2>6 DEF Step
<1>5. CASE UNCHANGED vars
      BY <1>5, NoHandLetsGo DEF vars, sfVars, pgVars, InHand
<1>6. QED
      BY <1>1, <1>2, <1>3, <1>4, <1>5 DEF Next, Server

\* Whoever takes over from whom, a change that has left the slot is lost only with
\* a process, with the answer of a call, with a slot created anew, or as a row that
\* a stopped process was given and had not published: a take-over loses no change
\* an instance has received, and a stop none that it has published.
THEOREM LossesOfSharing == Spec => LossNamed
<1>1. SharingInv /\ [Next]_vars => [LossStep]_vars
      BY LossNext
<1>2. QED
      BY <1>1, SharingCorrect, PTL DEF Spec, LossNamed, LossStep

===============================================================================
