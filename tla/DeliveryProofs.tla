---------------------------- MODULE DeliveryProofs ----------------------------
(***************************************************************************)
(* The service implements Delivery: under the refinement mapping of        *)
(* CdcService, which reads the fate of a change off the slot, the buffer   *)
(* and the audit trail, every step is a step of Delivery or a stutter.     *)
(***************************************************************************)
EXTENDS CdcServiceProofs

Fates == [i \in 1..MaxSeq |-> FateOf(i)]

\* The fate of a change the slot has given out, in terms of the sink.
LEMMA FateForm ==
    ASSUME ServiceInv, NEW i \in Seqs
    PROVE  FateOf(i) = IF i > slot THEN "source"
                       ELSE IF ~Mapped(i) THEN "ignored"
                       ELSE IF copies[i] >= 1 THEN "recorded"
                       ELSE IF i <= cursor /\ ~Buffered(i) THEN "lost" ELSE "held"
<1>1. i \in Nat /\ i >= 1 /\ cursor \in Nat /\ copies[i] \in Nat
  BY Places DEF Seqs, SinkTypeOK
<1> QED
  BY <1>1 DEF FateOf, Delivered, Lost

\* The same, after a step.
LEMMA FateFormNext ==
    ASSUME ServiceInv, [Next]_vars, NEW i \in Seqs
    PROVE  FateOf(i)' = IF i > slot' THEN "source"
                        ELSE IF ~Mapped(i)' THEN "ignored"
                        ELSE IF copies'[i] >= 1 THEN "recorded"
                        ELSE IF i <= cursor' /\ ~Buffered(i)' THEN "lost" ELSE "held"
<1>1. i \in Nat /\ i >= 1 /\ cursor' \in Nat /\ copies'[i] \in Nat
  BY PlacesNext, WarehouseAssumption DEF Seqs
<1> QED
  BY <1>1 DEF FateOf, Delivered, Lost

\* A step that changes no fate and no length of the log is a stutter of Delivery.
LEMMA SameFates ==
    ASSUME \A i \in Seqs : FateOf(i)' = FateOf(i)
    PROVE  Fates' = Fates
BY DEF Fates, Seqs

\* The fate of changes that a step of the service does not touch.
LEMMA FateKept ==
    ASSUME ServiceInv, [Next]_vars, ~ForgetStep, ~RestartStep, NEW i \in Seqs,
           i <= slot \/ slot' = slot, copies'[i] = copies[i]
    PROVE  FateOf(i)' = FateOf(i)
<1>1. i \in Nat /\ slot \in Nat /\ slot' \in Nat /\ slot <= slot'
  BY PlacesNext, Places DEF Seqs
<1>2. CASE i > slot
  BY <1>1, <1>2, FateForm, FateFormNext
<1>3. CASE i <= slot
  <2>1. i \in 1..Len(wal)
    BY <1>1, <1>3, Places DEF Seqs
  <2>2. i \in Lost' <=> i \in Lost
    BY <2>1, NothingLost
  <2>3. Mapped(i)' <=> Mapped(i)
    BY <2>1, SettledStep
  <2> QED
    BY <1>1, <1>3, <2>2, <2>3 DEF FateOf, Delivered
<1> QED
  BY <1>1, <1>2, <1>3

\* Only a quiet step extends the log, and not while a poll moves the slot.
LEMMA QuietDelivers ==
    ASSUME ServiceInv, [Next]_vars, QuietStep, ~ForgetStep, ~RestartStep
    PROVE  [D!DNext]_<<Len(wal), Fates>>
<1>1. /\ UNCHANGED <<cursor, copies>> /\ Batch' = Batch
  BY DEF QuietStep, Flush, sinkVars, warehouse, Batch
<1>2. Len(wal') \in Nat /\ Len(wal') <= MaxSeq /\ Len(wal) <= Len(wal')
  BY PlacesNext
<1>3. CASE slot' = slot
  <2>1. Fates' = Fates
    BY <1>1, <1>3, FateKept, SameFates
  <2>2. CASE Len(wal') = Len(wal)
    BY <2>1, <2>2
  <2>3. CASE Len(wal') # Len(wal)
    <3>1. Len(wal)' \in Len(wal)+1..MaxSeq
      BY <1>2, <2>3, Places
    <3> QED
      BY <2>1, <3>1 DEF D!DNext, D!DCommit, Fates
  <2> QED
    BY <2>2, <2>3
<1>4. CASE wal' = wal /\ cursor = slot /\ slot' \in Polled
  <2>1. slot' \in 1..Len(wal) /\ slot' > slot /\ slot' \in Seqs
    BY <1>4, PolledBound, Places
  <2>2. \A i \in Seqs : FateOf(i)' \in IF FateOf(i) = "source" /\ i <= slot'
                                       THEN {"held", "ignored"} ELSE {FateOf(i)}
    <3> TAKE i \in Seqs
    <3>1. i \in Nat /\ slot \in Nat /\ slot' \in Nat
      BY <2>1, Places DEF Seqs
    <3>2. CASE i <= slot
      <4>1. FateOf(i)' = FateOf(i)
        BY <1>1, <3>2, FateKept
      <4>2. FateOf(i) # "source"
        BY <3>1, <3>2, FateForm
      <4> QED
        BY <4>1, <4>2
    <3>3. CASE i > slot /\ i <= slot'
      <4>1. i \in 1..Len(wal) /\ ~(i <= cursor) /\ copies'[i] = 0
        BY <1>1, <1>4, <2>1, <3>1, <3>3, SettledStep, Places DEF Seqs
      <4>2. FateOf(i)' \in {"held", "ignored"}
        BY <1>1, <3>1, <3>3, <4>1, FateFormNext
      <4> QED
        BY <3>1, <3>3, <4>2, FateForm
    <3>4. CASE i > slot'
      <4>1. FateOf(i)' = "source" /\ FateOf(i) = "source"
        BY <2>1, <3>1, <3>4, FateForm, FateFormNext
      <4> QED
        BY <3>1, <3>4, <4>1
    <3> QED
      BY <3>1, <3>2, <3>3, <3>4
  <2>3. FateOf(slot') = "source"
    BY <2>1, FateForm, Places
  <2>4. D!Take(slot')
    BY <2>1, <2>2, <2>3 DEF D!Take, D!At, Seqs
  <2> QED
    BY <1>4, <2>1, <2>4 DEF D!DNext
<1> QED
  BY <1>3, <1>4 DEF QuietStep

\* The sink writes down some of what is held, or forgets only what is recorded.
LEMMA WriteDelivers ==
    ASSUME ServiceInv, [Next]_vars, WriteStep, ~ForgetStep, ~RestartStep
    PROVE  wal' = wal /\ (Fates' = Fates \/ D!DNext)
<1>1. wal' = wal /\ slot' = slot
  BY DEF WriteStep
<1> DEFINE S == {i \in Seqs : copies'[i] # copies[i] /\ FateOf(i) # "recorded"}
<1>2. \A i \in Seqs : i \in S => FateOf(i) = "held" /\ FateOf(i)' = "recorded"
  <2> SUFFICES ASSUME NEW i \in Seqs, i \in S
               PROVE  FateOf(i) = "held" /\ FateOf(i)' = "recorded"
    OBVIOUS
  <2>1. copies'[i] = copies[i] + 1 /\ Buffered(i)
    BY SinkStep, CopiesGrow, Places DEF Buffered
  <2>2. i \in 1..Len(wal)
    BY <2>1, Places DEF Buffered
  <2>3. /\ Mapped(i) /\ Mapped(i)' /\ i <= cursor
        /\ copies[i] \in Nat
    BY <2>1, <2>2, SettledStep
  <2>4. i \in Nat /\ ~(i > slot)
    BY <2>2, <2>3, Places
  <2>5. FateOf(i) = "held"
    BY <2>1, <2>3, <2>4, FateForm
  <2>6. FateOf(i)' = "recorded"
    BY <1>1, <2>1, <2>3, <2>4, FateFormNext
  <2> QED
    BY <2>5, <2>6
<1>3. \A i \in Seqs : i \notin S => FateOf(i)' = FateOf(i)
  <2> SUFFICES ASSUME NEW i \in Seqs, i \notin S PROVE FateOf(i)' = FateOf(i)
    OBVIOUS
  <2>1. CASE copies'[i] = copies[i]
    BY <1>1, <2>1, FateKept
  <2>2. CASE copies'[i] # copies[i]
    <3>1. FateOf(i) = "recorded" /\ copies'[i] = copies[i] + 1 /\ copies[i] \in Nat
      BY <2>2, SinkStep, CopiesGrow, Places DEF SinkTypeOK
    <3>2. copies[i] >= 1 /\ ~(i > slot) /\ Mapped(i)
      BY <3>1, FateForm
    <3>3. i \in 1..Len(wal)
      BY <3>2, Places DEF Seqs
    <3> QED
      BY <1>1, <3>1, <3>2, <3>3, SettledStep, FateFormNext
  <2> QED
    BY <2>1, <2>2
<1>4. CASE S = {}
  BY <1>1, <1>3, <1>4, SameFates
<1>5. CASE S # {}
  <2>1. S \in SUBSET D!At("held")
    BY <1>2 DEF D!At, Seqs
  <2>2. D!Record(S)
    BY <1>2, <1>3 DEF D!Record, Seqs
  <2> QED
    BY <1>1, <1>5, <2>1, <2>2 DEF D!DNext
<1> QED
  BY <1>1, <1>4, <1>5

\* What is given up is the newest part of what is held.
LEMMA Losing ==
    ASSUME NEW S \in SUBSET Seqs,
           \A i \in Seqs : i \in S => FateOf(i) = "held" /\ FateOf(i)' = "lost",
           \A i \in Seqs : i \notin S => FateOf(i)' = FateOf(i),
           \A i \in S, j \in Seqs : FateOf(j) = "held" /\ i <= j => j \in S,
           wal' = wal
    PROVE  [D!DNext]_<<Len(wal), Fates>>
<1>1. CASE S = {}
  BY <1>1, SameFates
<1>2. CASE S # {}
  <2>1. S \in SUBSET D!At("held")
    BY DEF D!At, Seqs
  <2>2. D!NewestOf(S, D!At("held"))
    BY DEF D!NewestOf, D!At, Seqs
  <2>3. D!Lose(S)
    BY <2>2 DEF D!Lose, Seqs
  <2> QED
    BY <1>2, <2>1, <2>3 DEF D!DNext
<1> QED
  BY <1>1, <1>2

\* The rest of a poll is given up: rows that were never buffered.
LEMMA ForgetDelivers ==
    ASSUME ServiceInv, [Next]_vars, ForgetStep
    PROVE  [D!DNext]_<<Len(wal), Fates>>
<1>1. /\ wal' = wal /\ cursor' = slot' /\ copies' = copies /\ Batch' = Batch
      /\ slot' \in Nat /\ slot <= slot' /\ slot' <= Len(wal) /\ cursor < slot'
  BY PlacesNext DEF ForgetStep, Skip, warehouse, Batch
<1>2. \A i \in Seqs : Buffered(i)' <=> Buffered(i)
  BY <1>1 DEF Buffered
<1>3. \A i \in Seqs : i <= cursor \/ i > slot' => FateOf(i)' = FateOf(i)
  <2> SUFFICES ASSUME NEW i \in Seqs, i <= cursor \/ i > slot'
               PROVE  FateOf(i)' = FateOf(i)
    OBVIOUS
  <2>1. i \in Nat /\ i >= 1 /\ cursor <= slot /\ cursor \in Nat /\ slot \in Nat
    BY Places DEF Seqs
  <2>2. CASE i > slot'
    BY <1>1, <2>1, <2>2, FateForm, FateFormNext
  <2>3. CASE i <= cursor
    <3>1. i \in 1..Len(wal) /\ i <= cursor' /\ ~(i > slot) /\ ~(i > slot')
      BY <1>1, <2>1, <2>3, Places
    <3> QED
      BY <1>1, <1>2, <2>3, <3>1, SettledStep, FateForm, FateFormNext
  <2> QED
    BY <2>2, <2>3
<1>4. \A i \in Seqs : i > cursor /\ i <= slot' =>
         /\ FateOf(i)' = IF Mapped(i) THEN "lost" ELSE "ignored"
         /\ FateOf(i) = IF i > slot THEN "source" ELSE IF Mapped(i) THEN "held" ELSE "ignored"
  <2> SUFFICES ASSUME NEW i \in Seqs, i > cursor, i <= slot'
               PROVE  /\ FateOf(i)' = IF Mapped(i) THEN "lost" ELSE "ignored"
                      /\ FateOf(i) = IF i > slot THEN "source"
                                     ELSE IF Mapped(i) THEN "held" ELSE "ignored"
    OBVIOUS
  <2>1. i \in Nat /\ i >= 1 /\ cursor \in Nat /\ slot \in Nat /\ i \in 1..Len(wal)
    BY <1>1, Places DEF Seqs
  <2>2. copies[i] = 0 /\ ~Buffered(i) /\ (Mapped(i)' <=> Mapped(i)) /\ ~(i <= cursor)
    BY <2>1, SettledStep
  <2>3. i <= cursor' /\ ~(i > slot') /\ copies'[i] = 0 /\ ~Buffered(i)'
    BY <1>1, <1>2, <2>1, <2>2
  <2>4. FateOf(i)' = IF Mapped(i) THEN "lost" ELSE "ignored"
    BY <2>2, <2>3, FateFormNext
  <2>5. FateOf(i) = IF i > slot THEN "source" ELSE IF Mapped(i) THEN "held" ELSE "ignored"
    BY <2>2, FateForm
  <2> QED
    BY <2>4, <2>5
<1>5. CASE slot' = slot
  <2> DEFINE S == {i \in Seqs : i > cursor /\ i <= slot /\ Mapped(i)}
  <2>1. \A i \in Seqs : i \in Nat /\ cursor \in Nat /\ slot \in Nat
    BY Places DEF Seqs
  <2>2. \A i \in Seqs : i \in S => FateOf(i) = "held" /\ FateOf(i)' = "lost"
    BY <1>4, <1>5, <2>1
  <2>3. \A i \in Seqs : i \notin S => FateOf(i)' = FateOf(i)
    BY <1>3, <1>4, <1>5, <2>1
  <2>4. \A i \in S, j \in Seqs : FateOf(j) = "held" /\ i <= j => j \in S
    <3> SUFFICES ASSUME NEW i \in S, NEW j \in Seqs, FateOf(j) = "held", i <= j
                 PROVE  j \in S
      OBVIOUS
    <3>1. j > cursor
      BY <2>1
    <3>2. ~(j > slot) /\ Mapped(j)
      BY FateForm
    <3> QED
      BY <2>1, <3>1, <3>2
  <2> HIDE DEF S
  <2>5. S \in SUBSET Seqs
    BY DEF S
  <2> QED
    BY <1>1, <2>2, <2>3, <2>4, <2>5, Losing
<1>6. CASE cursor = slot /\ slot' \in Polled
  <2>1. slot' \in 1..Len(wal) /\ slot' > slot /\ slot' \in Seqs
    BY <1>6, PolledBound, Places
  <2>2. \A i \in Seqs : FateOf(i)' \in IF FateOf(i) = "source" /\ i <= slot'
                                       THEN {"lost", "ignored"} ELSE {FateOf(i)}
    <3> TAKE i \in Seqs
    <3>1. i \in Nat /\ slot \in Nat /\ slot' \in Nat
      BY <2>1, Places DEF Seqs
    <3>2. CASE i <= slot
      <4>1. FateOf(i)' = FateOf(i)
        BY <1>3, <1>6, <3>2
      <4>2. FateOf(i) # "source"
        BY <3>1, <3>2, FateForm
      <4> QED
        BY <4>1, <4>2
    <3>3. CASE i > slot /\ i <= slot'
      BY <1>4, <1>6, <3>3
    <3>4. CASE i > slot'
      <4>1. FateOf(i)' = FateOf(i)
        BY <1>3, <3>4
      <4> QED
        BY <3>1, <3>4, <4>1
    <3> QED
      BY <3>1, <3>2, <3>3, <3>4
  <2>3. FateOf(slot') = "source"
    BY <2>1, FateForm, Places
  <2>4. D!TakeAndLose(slot')
    BY <2>1, <2>2, <2>3 DEF D!TakeAndLose, D!At, Seqs
  <2> QED
    BY <1>1, <2>1, <2>4 DEF D!DNext
<1> QED
  BY <1>5, <1>6 DEF ForgetStep

\* The end of the process takes everything that is held with it.
LEMMA RestartDelivers ==
    ASSUME ServiceInv, [Next]_vars, RestartStep
    PROVE  [D!DNext]_<<Len(wal), Fates>>
<1>1. /\ wal' = wal /\ slot' = slot /\ cursor' = slot /\ copies' = copies
      /\ \A i \in Seqs : ~Buffered(i)'
  <2>1. buffer' = <<>>
    BY DEF RestartStep, Restart
  <2> QED
    BY <2>1, RangeEmpty DEF RestartStep, Restart, warehouse, Buffered, Batch
<1> DEFINE S == {i \in Seqs : FateOf(i) = "held"}
<1>2. \A i \in Seqs : FateOf(i)' = IF FateOf(i) = "held" THEN "lost" ELSE FateOf(i)
  <2> TAKE i \in Seqs
  <2>1. i \in Nat /\ i >= 1 /\ slot \in Nat
    BY Places DEF Seqs
  <2>2. CASE i > slot
    BY <1>1, <2>2, FateForm, FateFormNext
  <2>3. CASE i <= slot
    <3>1. i \in 1..Len(wal) /\ ~(i > slot)
      BY <2>1, <2>3, Places
    <3> QED
      BY <1>1, <2>3, <3>1, SettledStep, FateForm, FateFormNext
  <2> QED
    BY <2>1, <2>2, <2>3
<1>3. /\ \A i \in Seqs : i \in S => FateOf(i) = "held" /\ FateOf(i)' = "lost"
      /\ \A i \in Seqs : i \notin S => FateOf(i)' = FateOf(i)
      /\ \A i \in S, j \in Seqs : FateOf(j) = "held" /\ i <= j => j \in S
      /\ S \in SUBSET Seqs
  BY <1>2
<1> HIDE DEF S
<1> QED
  BY <1>1, <1>3, Losing

\* Every step of the service is a step of Delivery, or a stutter.
LEMMA StepDelivers ==
    ASSUME ServiceInv, [Next]_vars
    PROVE  [D!DNext]_<<Len(wal), Fates>>
<1>1. CASE ForgetStep
  BY <1>1, ForgetDelivers
<1>2. CASE RestartStep
  BY <1>2, RestartDelivers
<1>3. CASE ~ForgetStep /\ ~RestartStep
  <2>1. CASE QuietStep
    BY <1>3, <2>1, QuietDelivers
  <2>2. CASE WriteStep
    BY <1>3, <2>2, WriteDelivers
  <2>3. CASE PublishStep \/ SkipStep
    <3>1. wal' = wal /\ slot' = slot /\ copies' = copies
      BY <2>3, PublishEffect DEF PublishStep, SkipStep, Skip, warehouse
    <3>2. Fates' = Fates
      BY <1>3, <3>1, FateKept, SameFates
    <3> QED
      BY <3>1, <3>2
  <2> QED
    BY <1>3, <2>1, <2>2, <2>3, StepKinds, Places
<1> QED
  BY <1>1, <1>2, <1>3

\* The service is an at-most-once queue: each change leaves the slot once, is held,
\* and is then recorded or lost for good, the newest first.
THEOREM ServiceImplementsDelivery == Spec => ImplementsDelivery
<1>1. Init => D!DInit
  <2> SUFFICES ASSUME Init PROVE D!DInit
    OBVIOUS
  <2>1. Len(wal) = 0
    BY DEF Init
  <2>2. \A i \in Seqs : FateOf(i) = "source"
    BY DEF Init, Seqs, FateOf
  <2> QED
    BY <2>1, <2>2 DEF D!DInit, Seqs
<1>2. ServiceInv /\ [Next]_vars => [D!DNext]_<<Len(wal), Fates>>
  BY StepDelivers
<1> QED
  BY <1>1, <1>2, ServiceInvariant, PTL DEF Spec, ImplementsDelivery, D!DSpec, Fates
===============================================================================
