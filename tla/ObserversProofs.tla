--------------------------- MODULE ObserversProofs ---------------------------
(***************************************************************************)
(* Proofs about the observers: the log shipper, the counters and the sync  *)
(* check.                                                                  *)
(***************************************************************************)
EXTENDS Observers, FiniteSetTheorems, TLAPS

Increasing(s) == \A i, j \in DOMAIN s : i < j => s[i] < s[j]

Below(A, B) == \A a \in A, b \in B : a < b

(* The records in the process and those that arrived lie in one line: what arrived, the
   batch, the queue.  The others are dropped or unsent. *)
LogInv ==
    /\ Increasing(intake) /\ Increasing(batch) /\ Increasing(q)
    /\ Below(ToSet(intake), ToSet(batch)) /\ Below(ToSet(batch), ToSet(q))
    /\ Below(ToSet(intake), ToSet(q))
    /\ (ToSet(intake) \cup ToSet(batch) \cup ToSet(q)) \cap (dropped \cup unsent) = {}
    /\ ToSet(intake) \cup ToSet(batch) \cup ToSet(q) \cup dropped \cup unsent = 1..emitted

(* While _flush holds the lock nobody counts. *)
CountInv ==
    /\ CountsAccounted
    /\ flush = "sleep" => series = 0
    /\ flush = "locked" => series = counters
    /\ emitted + counted <= MaxOps

(* A check has a verdict for every table it is through with, and each "ok" was seen. *)
Through(i) == i < at \/ (i = at /\ step = "report")

CheckInv ==
    /\ exit # -1 => mode = "command" /\ step = "over"
    /\ exact => step = "sf" /\ pg_count = rows[Pairs[at]]
    /\ step \in {"pg", "sf", "report"} =>
          \A i \in DOMAIN Pairs : Through(i) => results[Pairs[i]] # "none"
    /\ \A t \in Tbl : results[t] = "ok" => t \in seen
    /\ GateHonest

ObserversInv == TypeOK /\ LogInv /\ CountInv /\ CheckInv
-----------------------------------------------------------------------------
(* Sequences of records.                                                   *)

LEMMA AppendOf ==
    ASSUME NEW s \in Seq(Records), NEW r \in Records
    PROVE  /\ Append(s, r) \in Seq(Records) /\ Len(Append(s, r)) = Len(s) + 1
           /\ ToSet(Append(s, r)) = ToSet(s) \cup {r}
           /\ Increasing(s) /\ Below(ToSet(s), {r}) => Increasing(Append(s, r))
<1>1. /\ Append(s, r) \in Seq(Records) /\ Len(s) \in Nat
      /\ Len(Append(s, r)) = Len(s) + 1
      /\ DOMAIN s = 1..Len(s) /\ DOMAIN Append(s, r) = 1..(Len(s) + 1)
      /\ Append(s, r)[Len(s) + 1] = r
      /\ \A i \in 1..Len(s) : Append(s, r)[i] = s[i]
      OBVIOUS
<1> DEFINE new == Append(s, r)
<1> HIDE DEF new
<1>2. \A i \in DOMAIN new : i \in DOMAIN s \/ i = Len(s) + 1
      BY <1>1 DEF new
<1>3. ToSet(new) = ToSet(s) \cup {r}
  <2>1. ToSet(new) \subseteq ToSet(s) \cup {r}
        BY <1>1, <1>2 DEF ToSet, new
  <2>2. \A i \in DOMAIN s : i \in DOMAIN new /\ new[i] = s[i]
        BY <1>1 DEF new
  <2>3. Len(s) + 1 \in DOMAIN new /\ new[Len(s) + 1] = r
        BY <1>1 DEF new
  <2>4. QED
        BY <2>1, <2>2, <2>3 DEF ToSet
<1>4. ASSUME Increasing(s), Below(ToSet(s), {r}) PROVE Increasing(new)
  <2>1. ASSUME NEW i \in DOMAIN new, NEW j \in DOMAIN new, i < j PROVE new[i] < new[j]
    <3>1. i \in DOMAIN s
          BY <1>1, <1>2, <2>1 DEF new
    <3>2. CASE j \in DOMAIN s
          BY <1>1, <1>4, <2>1, <3>1, <3>2 DEF Increasing, new
    <3>3. CASE j = Len(s) + 1
          BY <1>1, <1>4, <3>1, <3>3 DEF Below, ToSet, new
    <3>4. QED
          BY <1>2, <2>1, <3>2, <3>3
  <2>2. QED
        BY <2>1 DEF Increasing
<1>5. QED
      BY <1>1, <1>3, <1>4 DEF new

LEMMA TailOf ==
    ASSUME NEW s \in Seq(Records), s # <<>>
    PROVE  /\ Head(s) \in Records /\ Tail(s) \in Seq(Records)
           /\ Len(s) \in Nat \ {0} /\ Len(Tail(s)) = Len(s) - 1
           /\ ToSet(s) = {Head(s)} \cup ToSet(Tail(s))
           /\ Increasing(s) => Increasing(Tail(s)) /\ Below({Head(s)}, ToSet(Tail(s)))
<1>1. /\ Head(s) \in Records /\ Tail(s) \in Seq(Records) /\ Len(s) \in Nat \ {0}
      /\ Len(Tail(s)) = Len(s) - 1 /\ Head(s) = s[1]
      /\ DOMAIN s = 1..Len(s) /\ DOMAIN Tail(s) = 1..(Len(s) - 1)
      /\ \A i \in 1..(Len(s) - 1) : Tail(s)[i] = s[i + 1]
      OBVIOUS
<1> DEFINE rest == Tail(s)
<1> HIDE DEF rest
<1>2. \A i \in DOMAIN rest : i + 1 \in DOMAIN s /\ rest[i] = s[i + 1] /\ i \in Nat /\ i >= 1
      BY <1>1 DEF rest
<1>3. \A i \in DOMAIN s : i = 1 \/ (i - 1 \in DOMAIN rest /\ rest[i - 1] = s[i])
      BY <1>1 DEF rest
<1>4. ToSet(s) = {Head(s)} \cup ToSet(rest)
  <2>1. 1 \in DOMAIN s /\ Head(s) = s[1]
        BY <1>1
  <2>2. ToSet(s) \subseteq {Head(s)} \cup ToSet(rest)
        BY <1>3, <2>1 DEF ToSet
  <2>3. ToSet(rest) \subseteq ToSet(s)
        BY <1>2 DEF ToSet
  <2>4. QED
        BY <2>1, <2>2, <2>3 DEF ToSet
<1>5. ASSUME Increasing(s) PROVE Increasing(rest) /\ Below({Head(s)}, ToSet(rest))
  <2>1. Increasing(rest)
        BY <1>2, <1>5 DEF Increasing
  <2>2. \A i \in DOMAIN rest : s[1] < rest[i]
        BY <1>1, <1>2, <1>5 DEF Increasing
  <2>3. QED
        BY <1>1, <2>1, <2>2 DEF Below, ToSet
<1>6. QED
      BY <1>1, <1>4, <1>5 DEF rest

LEMMA JoinOf ==
    ASSUME NEW s \in Seq(Records), NEW u \in Seq(Records)
    PROVE  /\ s \o u \in Seq(Records)
           /\ ToSet(s \o u) = ToSet(s) \cup ToSet(u)
           /\ Increasing(s) /\ Increasing(u) /\ Below(ToSet(s), ToSet(u)) => Increasing(s \o u)
<1>1. /\ s \o u \in Seq(Records) /\ Len(s) \in Nat /\ Len(u) \in Nat
      /\ DOMAIN s = 1..Len(s) /\ DOMAIN u = 1..Len(u) /\ DOMAIN (s \o u) = 1..(Len(s) + Len(u))
      /\ \A i \in 1..(Len(s) + Len(u)) :
            (s \o u)[i] = IF i <= Len(s) THEN s[i] ELSE u[i - Len(s)]
      OBVIOUS
<1> DEFINE all == s \o u
<1> HIDE DEF all
<1>2. \A i \in DOMAIN all :
         \/ i \in DOMAIN s /\ all[i] = s[i]
         \/ i - Len(s) \in DOMAIN u /\ all[i] = u[i - Len(s)]
      BY <1>1 DEF all
<1>3. /\ \A i \in DOMAIN s : i \in DOMAIN all /\ all[i] = s[i]
      /\ \A i \in DOMAIN u : i + Len(s) \in DOMAIN all /\ all[i + Len(s)] = u[i]
      BY <1>1 DEF all
<1>4. ToSet(all) = ToSet(s) \cup ToSet(u)
  <2>1. ToSet(all) \subseteq ToSet(s) \cup ToSet(u)
        BY <1>2 DEF ToSet
  <2>2. ToSet(s) \subseteq ToSet(all)
        BY <1>3 DEF ToSet
  <2>3. ToSet(u) \subseteq ToSet(all)
        BY <1>3 DEF ToSet
  <2>4. QED
        BY <2>1, <2>2, <2>3
<1>5. ASSUME Increasing(s), Increasing(u), Below(ToSet(s), ToSet(u)) PROVE Increasing(all)
  <2>0. \A i \in DOMAIN s, j \in DOMAIN u : s[i] < u[j]
        BY <1>5 DEF Below, ToSet
  <2>1. ASSUME NEW i \in DOMAIN all, NEW j \in DOMAIN all, i < j PROVE all[i] < all[j]
    <3>0. i \in 1..(Len(s) + Len(u)) /\ j \in 1..(Len(s) + Len(u))
          BY <1>1, <2>1 DEF all
    <3>1. CASE j <= Len(s)
          BY <1>1, <1>5, <2>1, <3>0, <3>1 DEF Increasing, all
    <3>2. CASE i <= Len(s) /\ ~ (j <= Len(s))
      <4>1. i \in DOMAIN s /\ j - Len(s) \in DOMAIN u
            BY <1>1, <3>0, <3>2
      <4>2. all[i] = s[i] /\ all[j] = u[j - Len(s)]
            BY <1>1, <3>0, <3>2 DEF all
      <4>3. QED
            BY <2>0, <4>1, <4>2
    <3>3. CASE ~ (i <= Len(s))
      <4>1. i - Len(s) \in DOMAIN u /\ j - Len(s) \in DOMAIN u /\ i - Len(s) < j - Len(s)
            BY <1>1, <2>1, <3>0, <3>3
      <4>2. all[i] = u[i - Len(s)] /\ all[j] = u[j - Len(s)]
            BY <1>1, <2>1, <3>0, <3>3 DEF all
      <4>3. QED
            BY <1>5, <4>1, <4>2 DEF Increasing
    <3>4. QED
          BY <1>1, <2>1, <3>0, <3>1, <3>2, <3>3
  <2>2. QED
        BY <2>1 DEF Increasing
<1>6. QED
      BY <1>1, <1>4, <1>5 DEF all

(* A sequence in which no record occurs twice has as many of them as its length. *)
LEMMA CountOf ==
    ASSUME NEW s \in Seq(Records), Increasing(s)
    PROVE  IsFiniteSet(ToSet(s)) /\ Cardinality(ToSet(s)) = Len(s)
<1>1. Len(s) \in Nat /\ DOMAIN s = 1..Len(s) /\ s \in [1..Len(s) -> Records]
      OBVIOUS
<1>2. \A i \in 1..Len(s) : s[i] \in ToSet(s)
      BY <1>1 DEF ToSet
<1>3. \A r \in ToSet(s) : \E i \in 1..Len(s) : s[i] = r
      BY <1>1 DEF ToSet
<1>4. \A i, j \in 1..Len(s) : s[i] = s[j] => i = j
  <2>1. SUFFICES ASSUME NEW i \in 1..Len(s), NEW j \in 1..Len(s), s[i] = s[j], i # j PROVE FALSE
        OBVIOUS
  <2>2. s[i] \in Int /\ s[j] \in Int /\ i \in Int /\ j \in Int
        BY <1>1, MonitoringAssumption DEF Records
  <2>3. s[i] < s[j] \/ s[j] < s[i]
        BY <1>1, <2>1, <2>2 DEF Increasing
  <2>4. QED
        BY <2>1, <2>2, <2>3
<1>5. s \in Bijection(1..Len(s), ToSet(s))
  <2>1. s \in [1..Len(s) -> ToSet(s)]
        BY <1>1, <1>2
  <2>2. s \in Injection(1..Len(s), ToSet(s))
        BY <1>4, <2>1 DEF Injection, IsInjective
  <2>3. s \in Surjection(1..Len(s), ToSet(s))
        BY <1>3, <2>1 DEF Surjection
  <2>4. QED
        BY <2>2, <2>3 DEF Bijection
<1>6. ExistsBijection(1..Len(s), ToSet(s))
      BY <1>5 DEF ExistsBijection
<1>7. QED
      BY <1>1, <1>6, FS_CountingElements, FS_NatBijection
-----------------------------------------------------------------------------
(* The records.                                                            *)

LogTypes ==
    /\ posting \in BOOLEAN
    /\ emitted \in 0..MaxOps
    /\ q \in Seq(Records) /\ Len(q) <= QueueSize
    /\ batch \in Seq(Records) /\ Len(batch) <= MaxBatch
    /\ intake \in Seq(Records)
    /\ dropped \subseteq Records /\ unsent \subseteq Records

Logged == LogTypes /\ LogInv

LEMMA NothingIn ==
    \A s : s = <<>> =>
        /\ s \in Seq(Records) /\ Len(s) = 0
        /\ ToSet(s) = {} /\ Increasing(s)
<1> SUFFICES ASSUME NEW s, s = <<>>
             PROVE  /\ s \in Seq(Records) /\ Len(s) = 0
                    /\ ToSet(s) = {} /\ Increasing(s)
    OBVIOUS
<1>1. s \in Seq(Records) /\ Len(s) = 0
      OBVIOUS
<1>2. DOMAIN s = {}
      BY <1>1
<1>3. \A r : r \notin ToSet(s)
      BY <1>2 DEF ToSet
<1>4. Increasing(s)
      BY <1>2 DEF Increasing
<1>5. QED
      BY <1>1, <1>3, <1>4

LEMMA RecordsNat ==
    /\ \A r \in Records : r \in Nat
    /\ \A s \in Seq(Records) : ToSet(s) \subseteq Records
<1>1. \A s \in Seq(Records) : ToSet(s) \subseteq Records
      BY DEF ToSet
<1>2. \A r \in Records : r \in Nat
      BY MonitoringAssumption DEF Records
<1>3. QED
      BY <1>1, <1>2

LEMMA LoggedInit == MonitoringInit => Logged
<1> SUFFICES ASSUME MonitoringInit PROVE Logged
    OBVIOUS
<1>1. /\ q = <<>> /\ batch = <<>> /\ intake = <<>> /\ emitted = 0
      /\ dropped = {} /\ unsent = {} /\ posting = FALSE
      BY DEF MonitoringInit
<1>2. /\ q \in Seq(Records) /\ Len(q) = 0 /\ ToSet(q) = {} /\ Increasing(q)
      /\ batch \in Seq(Records) /\ Len(batch) = 0 /\ ToSet(batch) = {} /\ Increasing(batch)
      /\ intake \in Seq(Records) /\ ToSet(intake) = {} /\ Increasing(intake)
      BY <1>1, NothingIn
<1>3. LogTypes
  <2>1. posting \in BOOLEAN
        BY <1>1
  <2>2. Len(q) <= QueueSize /\ Len(batch) <= MaxBatch /\ emitted \in 0..MaxOps
        BY <1>1, <1>2, MonitoringAssumption
  <2>3. QED
        BY <1>1, <1>2, <2>1, <2>2 DEF LogTypes
<1>4. LogInv
      BY <1>1, <1>2 DEF LogInv, Below
<1>5. QED
      BY <1>3, <1>4 DEF Logged

(* A new record is newer than every other, and goes to one place. *)
LEMMA LoggedEmit ==
    ASSUME Logged, emitted < MaxOps, Emit
    PROVE  Logged'
<1> DEFINE r == emitted + 1
<1>0. emitted \in Nat /\ r \in Records /\ r \notin 1..emitted /\ 1..r = 1..emitted \cup {r} /\ emitted' = r
      BY MonitoringAssumption DEF Logged, LogTypes, Records, Emit
<1>1. UNCHANGED <<batch, intake, posting, unsent>>
      BY DEF Emit
<1>2. /\ Below(ToSet(intake), {r}) /\ Below(ToSet(batch), {r}) /\ Below(ToSet(q), {r})
      /\ r \notin ToSet(intake) \cup ToSet(batch) \cup ToSet(q) \cup dropped \cup unsent
  <2>1. \A x \in 1..emitted : x < r
        BY <1>0
  <2>2. QED
        BY <1>0, <2>1 DEF Logged, LogInv, Below
<1> HIDE DEF r
<1>3. CASE Len(q) < QueueSize
  <2>1. q' = Append(q, r) /\ dropped' = dropped
        BY <1>3 DEF Emit, r
  <2>2. /\ q' \in Seq(Records) /\ Len(q') = Len(q) + 1 /\ ToSet(q') = ToSet(q) \cup {r}
        /\ Increasing(q')
        BY <1>0, <1>2, <2>1, AppendOf DEF Logged, LogTypes, LogInv
  <2>3. Len(q') <= QueueSize
        BY <1>3, <2>2, MonitoringAssumption DEF Logged, LogTypes
  <2>4. LogTypes'
        BY <1>0, <1>1, <2>1, <2>2, <2>3 DEF Logged, LogTypes, Records
  <2>5. LogInv'
        BY <1>0, <1>1, <1>2, <2>1, <2>2 DEF Logged, LogInv, Below
  <2>6. QED
        BY <2>4, <2>5 DEF Logged
<1>4. CASE ~ (Len(q) < QueueSize)
  <2>1. q' = q /\ dropped' = dropped \cup {r}
        BY <1>4 DEF Emit, r
  <2>2. LogTypes'
        BY <1>0, <1>1, <2>1 DEF Logged, LogTypes, Records
  <2>3. LogInv'
        BY <1>0, <1>1, <1>2, <2>1 DEF Logged, LogInv
  <2>4. QED
        BY <2>2, <2>3 DEF Logged
<1>5. QED
      BY <1>3, <1>4

LEMMA LoggedFrame == Logged /\ UNCHANGED logVars => Logged'
BY DEF Logged, LogTypes, LogInv, logVars

(* The head of the queue is the newest of the batch and the oldest of the queue. *)
LEMMA LoggedGather ==
    ASSUME Logged, Gather
    PROVE  Logged'
<1> DEFINE r == Head(q)
<1>1. /\ q \in Seq(Records) /\ q # <<>> /\ batch \in Seq(Records) /\ Increasing(q) /\ Increasing(batch)
      /\ Len(batch) < MaxBatch
      BY DEF Logged, LogTypes, LogInv, Gather
<1>2. q' = Tail(q) /\ batch' = Append(batch, r) /\ UNCHANGED <<emitted, posting, intake, dropped, unsent>>
      BY DEF Gather
<1>3. /\ r \in Records /\ q' \in Seq(Records) /\ Len(q) \in Nat \ {0} /\ Len(q') = Len(q) - 1
      /\ ToSet(q) = {r} \cup ToSet(q') /\ Increasing(q') /\ Below({r}, ToSet(q'))
      BY <1>1, <1>2, TailOf
<1> HIDE DEF r
<1>4. Below(ToSet(batch), {r}) /\ Below(ToSet(intake), {r})
      BY <1>3 DEF Logged, LogInv, Below
<1>5. /\ batch' \in Seq(Records) /\ Len(batch') = Len(batch) + 1
      /\ ToSet(batch') = ToSet(batch) \cup {r} /\ Increasing(batch')
      BY <1>1, <1>2, <1>3, <1>4, AppendOf
<1>6. LogTypes'
  <2>1. Len(batch') <= MaxBatch /\ Len(q') <= QueueSize
        BY <1>1, <1>3, <1>5, MonitoringAssumption DEF Logged, LogTypes
  <2>2. QED
        BY <1>2, <1>3, <1>5, <2>1 DEF Logged, LogTypes
<1>7. /\ Below(ToSet(intake), ToSet(batch')) /\ Below(ToSet(batch'), ToSet(q'))
      /\ Below(ToSet(intake), ToSet(q'))
      BY <1>3, <1>4, <1>5 DEF Logged, LogInv, Below
<1>8. ToSet(batch') \cup ToSet(q') = ToSet(batch) \cup ToSet(q)
      BY <1>3, <1>5
<1>9. LogInv'
  <2>1. ToSet(intake) \cup ToSet(batch') \cup ToSet(q') = ToSet(intake) \cup ToSet(batch) \cup ToSet(q)
        BY <1>8
  <2>2. QED
        BY <1>2, <1>3, <1>5, <1>7, <2>1 DEF Logged, LogInv
<1>10. QED
      BY <1>6, <1>9 DEF Logged

LEMMA LoggedGathered == Logged /\ Gathered => Logged'
BY DEF Logged, LogTypes, LogInv, Gathered

LEMMA LoggedPost ==
    ASSUME Logged, PostLogs \/ PostLogsFails
    PROVE  Logged'
<1>1. q' = q /\ batch' = <<>> /\ posting' = FALSE /\ UNCHANGED <<emitted, dropped>>
      BY DEF PostLogs, PostLogsFails
<1>2. /\ intake \in Seq(Records) /\ batch \in Seq(Records)
      /\ ToSet(batch) \subseteq Records
      BY RecordsNat DEF Logged, LogTypes
<1>3. /\ ToSet(batch') = {} /\ Increasing(batch')
      /\ batch' \in Seq(Records) /\ Len(batch') = 0
      BY <1>1, NothingIn
<1>4. posting' \in BOOLEAN /\ Len(batch') <= MaxBatch
  <2>1. posting' \in BOOLEAN
        BY <1>1
  <2>2. Len(batch') <= MaxBatch
        BY <1>3, MonitoringAssumption
  <2>3. QED
        BY <2>1, <2>2
<1>5. CASE PostLogs
  <2>1. intake' = intake \o batch /\ unsent' = unsent
        BY <1>5 DEF PostLogs
  <2>2. /\ intake' \in Seq(Records) /\ ToSet(intake') = ToSet(intake) \cup ToSet(batch)
        /\ Increasing(intake')
        BY <1>2, <2>1, JoinOf DEF Logged, LogInv
  <2>3. LogTypes'
        BY <1>1, <1>3, <1>4, <2>1, <2>2 DEF Logged, LogTypes
  <2>4. LogInv'
        BY <1>1, <1>2, <1>3, <2>1, <2>2 DEF Logged, LogInv, Below
  <2>5. QED
        BY <2>3, <2>4 DEF Logged
<1>6. CASE PostLogsFails
  <2>1. intake' = intake /\ unsent' = unsent \cup ToSet(batch)
        BY <1>6 DEF PostLogsFails
  <2>2. LogTypes'
        BY <1>1, <1>2, <1>3, <1>4, <2>1 DEF Logged, LogTypes
  <2>3. /\ ToSet(batch) \cap ToSet(intake) = {} /\ ToSet(batch) \cap ToSet(q) = {}
    <3>1. \A x \in Records : ~ (x < x)
          BY MonitoringAssumption DEF Records
    <3>2. QED
          BY <1>2, <3>1 DEF Logged, LogInv, Below
  <2>4. LogInv'
        BY <1>1, <1>2, <1>3, <2>1, <2>3 DEF Logged, LogInv, Below
  <2>5. QED
        BY <2>2, <2>4 DEF Logged
<1>7. QED
      BY <1>5, <1>6

LEMMA LoggedEnd ==
    ASSUME Logged, EndProcess
    PROVE  Logged'
<1>1. /\ q' = <<>> /\ batch' = <<>> /\ posting' = FALSE /\ UNCHANGED <<emitted, intake, dropped>>
      /\ unsent' = unsent \cup ToSet(q) \cup ToSet(batch)
      BY DEF EndProcess, InMemory
<1>2. ToSet(q) \subseteq Records /\ ToSet(batch) \subseteq Records
      BY RecordsNat DEF Logged, LogTypes
<1>3. /\ ToSet(q') = {} /\ ToSet(batch') = {} /\ Increasing(q') /\ Increasing(batch')
      /\ q' \in Seq(Records) /\ batch' \in Seq(Records) /\ Len(q') = 0 /\ Len(batch') = 0
      BY <1>1, NothingIn
<1>4. posting' \in BOOLEAN /\ Len(batch') <= MaxBatch /\ Len(q') <= QueueSize
  <2>1. posting' \in BOOLEAN
        BY <1>1
  <2>2. Len(batch') <= MaxBatch /\ Len(q') <= QueueSize
        BY <1>3, MonitoringAssumption
  <2>3. QED
        BY <2>1, <2>2
<1>5. LogTypes'
      BY <1>1, <1>2, <1>3, <1>4 DEF Logged, LogTypes
<1>6. /\ ToSet(batch) \cap ToSet(intake) = {} /\ ToSet(q) \cap ToSet(intake) = {}
  <2>1. \A x \in Records : ~ (x < x)
        BY MonitoringAssumption DEF Records
  <2>2. QED
        BY <1>2, <2>1 DEF Logged, LogInv, Below
<1>7. LogInv'
      BY <1>1, <1>2, <1>6, <1>3 DEF Logged, LogInv, Below
<1>8. QED
      BY <1>5, <1>7 DEF Logged

(* From one line without repetition the counts follow. *)
LEMMA LoggedCounts == Logged => RecordsAccounted /\ ShippedInOrder
<1> SUFFICES ASSUME Logged PROVE RecordsAccounted /\ ShippedInOrder
    OBVIOUS
<1> DEFINE I == ToSet(intake)  B == ToSet(batch)  Q == ToSet(q)  L == dropped \cup unsent
<1>1. /\ IsFiniteSet(I) /\ Cardinality(I) = Len(intake)
      /\ IsFiniteSet(B) /\ Cardinality(B) = Len(batch)
      /\ IsFiniteSet(Q) /\ Cardinality(Q) = Len(q)
      BY CountOf DEF Logged, LogTypes, LogInv
<1>2. I \subseteq Records /\ B \subseteq Records /\ Q \subseteq Records
      BY RecordsNat DEF Logged, LogTypes
<1>3. I \cap B = {} /\ I \cap Q = {} /\ B \cap Q = {}
  <2>1. \A x \in Records : ~ (x < x)
        BY MonitoringAssumption DEF Records
  <2>2. QED
        BY <1>2, <2>1 DEF Logged, LogInv, Below
<1>4. (I \cup B \cup Q) \cap L = {} /\ (I \cup B \cup Q) \cup L = 1..emitted
      BY DEF Logged, LogInv
<1>5. IsFiniteSet(1..emitted) /\ Cardinality(1..emitted) = emitted
  <2>1. emitted \in Nat
        BY MonitoringAssumption DEF Logged, LogTypes
  <2>2. QED
        BY <2>1, FS_Interval
<1>6. IsFiniteSet(L) /\ Cardinality(L) \in Nat
      BY <1>4, <1>5, FS_Subset, FS_CardinalityType
<1> HIDE DEF I, B, Q, L
<1>7. IsFiniteSet(I \cup B) /\ Cardinality(I \cup B) = Len(intake) + Len(batch)
  <2>1. Cardinality(I \cap B) = 0
        BY <1>3, FS_EmptySet
  <2>2. Len(intake) \in Nat /\ Len(batch) \in Nat
        BY DEF Logged, LogTypes
  <2>3. Cardinality(I \cup B) = Cardinality(I) + Cardinality(B) - Cardinality(I \cap B)
        BY <1>1, FS_Union
  <2>4. IsFiniteSet(I \cup B)
        BY <1>1, FS_Union
  <2>5. QED
        BY <1>1, <2>1, <2>2, <2>3, <2>4
<1>8. IsFiniteSet(I \cup B \cup Q) /\ Cardinality(I \cup B \cup Q) = Len(intake) + Len(batch) + Len(q)
  <2>1. Cardinality((I \cup B) \cap Q) = 0
        BY <1>3, FS_EmptySet
  <2>2. Len(intake) \in Nat /\ Len(batch) \in Nat /\ Len(q) \in Nat
        BY DEF Logged, LogTypes
  <2>3. Cardinality((I \cup B) \cup Q)
          = Cardinality(I \cup B) + Cardinality(Q) - Cardinality((I \cup B) \cap Q)
        BY <1>1, <1>7, FS_Union
  <2>4. IsFiniteSet(I \cup B \cup Q)
        BY <1>1, <1>7, FS_Union
  <2>5. QED
        BY <1>1, <1>7, <2>1, <2>2, <2>3, <2>4
<1>9. emitted = Len(intake) + Len(batch) + Len(q) + Cardinality(L)
  <2>1. Cardinality((I \cup B \cup Q) \cap L) = 0
        BY <1>4, FS_EmptySet
  <2>2. Len(intake) \in Nat /\ Len(batch) \in Nat /\ Len(q) \in Nat
        BY DEF Logged, LogTypes
  <2>3. Cardinality((I \cup B \cup Q) \cup L)
          = Cardinality(I \cup B \cup Q) + Cardinality(L) - Cardinality((I \cup B \cup Q) \cap L)
        BY <1>6, <1>8, FS_Union
  <2>4. emitted = Cardinality(I \cup B \cup Q) + Cardinality(L) - 0
        BY <1>4, <1>5, <2>1, <2>3
  <2> HIDE <2>3
  <2>5. QED
        BY <1>6, <1>8, <2>2, <2>4
<1>10. Len(q) + Len(batch) + Len(intake) + Cardinality(dropped \cup unsent) = emitted
  <2>1. Len(intake) \in Nat /\ Len(batch) \in Nat /\ Len(q) \in Nat
        BY DEF Logged, LogTypes
  <2>2. QED
        BY <1>6, <1>9, <2>1 DEF L
<1>11. UNION {ToSet((<<q, batch, intake>>)[i]) : i \in 1..3} = Q \cup B \cup I
  <2> DEFINE places == <<q, batch, intake>>
  <2>1. places[1] = q /\ places[2] = batch /\ places[3] = intake
        OBVIOUS
  <2> HIDE DEF places
  <2>2. 1..3 = {1, 2, 3}
        OBVIOUS
  <2>3. {ToSet(places[i]) : i \in {1, 2, 3}} = {ToSet(places[1]), ToSet(places[2]), ToSet(places[3])}
        OBVIOUS
  <2>4. QED
        BY <2>1, <2>2, <2>3 DEF Q, B, I, places
<1>12. RecordsAccounted
  <2>1. (UNION {ToSet((<<q, batch, intake>>)[i]) : i \in 1..3}) \cup dropped \cup unsent = 1..emitted
        BY <1>4, <1>11 DEF L
  <2>2. QED
        BY <1>10, <2>1 DEF RecordsAccounted
<1>13. ShippedInOrder
      BY DEF Logged, LogInv, Increasing, ShippedInOrder
<1>14. QED
      BY <1>12, <1>13
-----------------------------------------------------------------------------
(* The counts.                                                             *)

CountTypes ==
    /\ flush \in {"sleep", "locked", "posting"}
    /\ {counted, counters, series, received, uncounted} \subseteq 0..MaxOps

Counted == CountTypes /\ CountInv

NatCounts ==
    /\ emitted \in Nat /\ counted \in Nat /\ counters \in Nat /\ series \in Nat
    /\ received \in Nat /\ uncounted \in Nat
    /\ flush \in {"sleep", "locked", "posting"}

LEMMA CountNat == emitted \in Nat /\ Counted => NatCounts
BY MonitoringAssumption DEF Counted, CountTypes, NatCounts

(* Each part of the counts is at most their sum, which is bounded. *)
LEMMA CountsBounded == NatCounts /\ CountInv => Counted
<1> SUFFICES ASSUME NatCounts, CountInv PROVE CountTypes
    BY DEF Counted
<1> USE DEF NatCounts
<1>1. counted <= MaxOps
      BY MonitoringAssumption DEF CountInv
<1>2. counters <= counted /\ received <= counted /\ uncounted <= counted /\ series <= counted
      BY DEF CountInv, CountsAccounted, InFlight
<1>3. QED
      BY <1>1, <1>2, MonitoringAssumption DEF CountTypes

LEMMA CountedInit == MonitoringInit => Counted
<1> SUFFICES ASSUME MonitoringInit PROVE NatCounts /\ CountInv
    BY CountsBounded
<1>1. /\ emitted = 0 /\ counted = 0 /\ counters = 0 /\ series = 0 /\ received = 0
      /\ uncounted = 0 /\ flush = "sleep"
      BY DEF MonitoringInit
<1>2. QED
      BY <1>1, MonitoringAssumption DEF NatCounts, CountInv, CountsAccounted, InFlight

LEMMA CountedFrame ==
    ASSUME emitted \in Nat, Counted, UNCHANGED countVars,
           emitted' = emitted \/ (Followed /\ emitted' = emitted + 1)
    PROVE  Counted'
<1>1. NatCounts
      BY CountNat
<1>2. NatCounts' /\ CountInv'
      BY <1>1, MonitoringAssumption
      DEF Counted, countVars, NatCounts, CountInv, CountsAccounted, InFlight, Followed
<1>3. (NatCounts /\ CountInv => Counted)'
      BY CountsBounded, PTL
<1>4. QED
      BY <1>2, <1>3

LEMMA CountedStep ==
    ASSUME emitted \in Nat, Counted, Increment \/ MetricFlusher \/ EndProcess
    PROVE  Counted'
<1>1. NatCounts /\ CountInv
      BY CountNat DEF Counted
<1>2. emitted' = emitted
      BY DEF Increment, MetricFlusher, CopyCounters, ClearCounters, PostSeries, PostSeriesFails,
             EndProcess, logVars
<1>3. SUFFICES NatCounts' /\ CountInv'
  <2>1. (NatCounts /\ CountInv => Counted)'
        BY CountsBounded, PTL
  <2>2. QED
        BY <1>3, <2>1
<1> USE DEF NatCounts, CountInv, CountsAccounted, InFlight
<1>4. CASE Increment
      BY <1>1, <1>2, <1>4, MonitoringAssumption DEF Increment, Followed
<1>5. CASE CopyCounters
      BY <1>1, <1>2, <1>5 DEF CopyCounters
<1>6. CASE ClearCounters
      BY <1>1, <1>2, <1>6 DEF ClearCounters
<1>7. CASE PostSeries
      BY <1>1, <1>2, <1>7 DEF PostSeries
<1>8. CASE PostSeriesFails
      BY <1>1, <1>2, <1>8 DEF PostSeriesFails
<1>9. CASE EndProcess
  <2>1. InFlight \in Nat
        BY <1>1
  <2>2. /\ counted' = counted /\ received' = received /\ counters' = 0 /\ series' = 0
        /\ flush' = "sleep" /\ uncounted' = uncounted + counters + InFlight
        BY <1>9 DEF EndProcess
  <2>3. QED
        BY <1>1, <1>2, <2>1, <2>2
<1>10. QED
      BY <1>4, <1>5, <1>6, <1>7, <1>8, <1>9 DEF MetricFlusher
-----------------------------------------------------------------------------
(* The check.                                                              *)

Checked == SyncTypeOK /\ CheckInv

LEMMA PairsOK ==
    /\ Len(Pairs) \in Nat /\ DOMAIN Pairs = 1..Len(Pairs)
    /\ \A i \in 1..Len(Pairs) : Pairs[i] \in Tbl
    /\ \A t \in Tbl : \E i \in 1..Len(Pairs) : Pairs[i] = t
BY SyncAssumption DEF Tbl

LEMMA CheckedInit == SyncInit => Checked
<1> SUFFICES ASSUME SyncInit PROVE Checked
    OBVIOUS
<1> USE PairsOK, SyncAssumption DEF SyncInit
<1>1. SyncTypeOK
  <2>1. exact \in BOOLEAN
        OBVIOUS
  <2>2. at \in 1..Len(Pairs) + 1 /\ exit \in {-1, 0, 1} /\ pg_count \in 0..MaxRows + StatError
        OBVIOUS
  <2>3. rows \in [Tbl -> 0..MaxRows] /\ copy \in [Tbl -> 0..MaxRows]
        OBVIOUS
  <2>4. QED
        BY <2>1, <2>2, <2>3 DEF SyncTypeOK, Verdict
<1>2. CheckInv
      BY DEF CheckInv, GateHonest
<1>3. QED
      BY <1>1, <1>2 DEF Checked

LEMMA CheckedFrame == Checked /\ UNCHANGED syncVars => Checked'
BY DEF Checked, SyncTypeOK, CheckInv, GateHonest, Through, syncVars, dataVars

LEMMA CheckedDatabases ==
    ASSUME Checked, Databases
    PROVE  Checked'
<1>1. PICK t \in Moving : SourceMoves(t) \/ WarehouseMoves(t)
      BY DEF Databases
<1>2. t \in Tbl /\ \A n : Beside(n) \subseteq 0..MaxRows
      BY SyncAssumption DEF Beside
<1>3. UNCHANGED <<mode, step, at, pg_count, results, seen, exit, failures>>
      BY <1>1 DEF SourceMoves, WarehouseMoves
<1>4. rows' \in [Tbl -> 0..MaxRows] /\ copy' \in [Tbl -> 0..MaxRows] /\ exact' \in BOOLEAN
      BY <1>1, <1>2 DEF SourceMoves, WarehouseMoves, Checked, SyncTypeOK
<1>5. exact' => exact /\ (step = "sf" => rows'[Pairs[at]] = rows[Pairs[at]])
  <2>1. CASE WarehouseMoves(t)
        BY <2>1 DEF WarehouseMoves
  <2>2. CASE SourceMoves(t)
    <3>1. PICK n \in Beside(rows[t]) : rows' = [rows EXCEPT ![t] = n]
          BY <2>2 DEF SourceMoves
    <3>2. exact' => exact /\ ~ (step = "sf" /\ t = Pairs[at])
          BY <2>2 DEF SourceMoves
    <3>3. \A u \in Tbl : u # t => rows'[u] = rows[u]
          BY <3>1 DEF Checked, SyncTypeOK
    <3>4. step = "sf" => Pairs[at] \in Tbl
          BY PairsOK DEF Checked, SyncTypeOK
    <3>5. QED
          BY <3>2, <3>3, <3>4
  <2>3. QED
        BY <1>1, <2>1, <2>2
<1>6. SyncTypeOK'
      BY <1>3, <1>4 DEF Checked, SyncTypeOK
<1>7. CheckInv'
      BY <1>3, <1>5 DEF Checked, CheckInv, GateHonest, Through
<1>8. QED
      BY <1>6, <1>7 DEF Checked

LEMMA EstimateOK ==
    ASSUME NEW t \in Tbl, rows \in [Tbl -> 0..MaxRows], NEW n \in Estimates(t)
    PROVE  n \in 0..MaxRows + StatError
BY SyncAssumption DEF Estimates

(* The steps of a check. *)
LEMMA CheckedBegin ==
    ASSUME Checked, Begin \/ Report
    PROVE  Checked'
<1>1. UNCHANGED <<mode, dataVars, pg_count, exact, results, seen, exit, failures>> /\ step' = "pg"
      BY DEF Begin, Report
<1>2. SyncTypeOK'
      BY <1>1, PairsOK DEF Checked, SyncTypeOK, Begin, Report, dataVars
<1>3. \A i \in DOMAIN Pairs : Through(i)' => results[Pairs[i]] # "none"
  <2>1. CASE Begin
        BY <2>1, PairsOK DEF Begin, Through
  <2>2. CASE Report
        BY <2>2, PairsOK DEF Report, Through, Checked, CheckInv, SyncTypeOK
  <2>3. QED
        BY <2>1, <2>2
<1>4. exit' = -1 /\ ~ exact'
      BY <1>1 DEF Begin, Report, Checked, CheckInv
<1>5. CheckInv'
      BY <1>1, <1>3, <1>4 DEF Checked, CheckInv, GateHonest
<1>6. QED
      BY <1>2, <1>5 DEF Checked

LEMMA CheckedPgCount ==
    ASSUME Checked, PgCount
    PROVE  Checked'
<1> DEFINE t == Pairs[at]
<1>1. /\ step = "pg" /\ step' = "sf" /\ at \in 1..Len(Pairs) /\ t \in Tbl
      /\ UNCHANGED <<mode, dataVars, at, results, seen, exit, failures>>
      BY PairsOK DEF PgCount, Counting, Checked, SyncTypeOK
<1>2. exact' = (pg_count' = rows[t])
      BY DEF PgCount
<1>3. pg_count' \in 0..MaxRows + StatError
  <2>1. PICK n \in Estimates(t) : pg_count' = IF n > 0 THEN n ELSE rows[t]
        BY DEF PgCount
  <2>2. rows[t] \in 0..MaxRows + StatError
        BY <1>1, SyncAssumption DEF Checked, SyncTypeOK
  <2>3. n \in 0..MaxRows + StatError
        BY <1>1, EstimateOK DEF Checked, SyncTypeOK
  <2>4. QED
        BY <2>1, <2>2, <2>3
<1>4. SyncTypeOK'
      BY <1>1, <1>2, <1>3 DEF Checked, SyncTypeOK, dataVars
<1>5. CheckInv'
      BY <1>1, <1>2 DEF Checked, CheckInv, GateHonest, Through, dataVars
<1>6. QED
      BY <1>4, <1>5 DEF Checked

LEMMA CheckedVerdict ==
    ASSUME Checked, SfCount \/ CountFails
    PROVE  Checked'
<1> DEFINE t == Pairs[at]
<1>1. /\ at \in 1..Len(Pairs) /\ t \in Tbl /\ step \in {"pg", "sf"} /\ exit = -1
      BY PairsOK DEF SfCount, CountFails, Counting, Checked, SyncTypeOK, CheckInv
<1>2. /\ UNCHANGED <<mode, dataVars, exit>> /\ pg_count' = 0 /\ exact' = FALSE
      /\ \E v \in {"ok", "drift", "failed"} :
            /\ results' = [results EXCEPT ![t] = v]
            /\ seen' = IF v = "ok" THEN seen \cup {t} ELSE seen
      BY DEF SfCount, CountFails, Forget
<1>3. PICK v \in {"ok", "drift", "failed"} :
         /\ results' = [results EXCEPT ![t] = v]
         /\ seen' = IF v = "ok" THEN seen \cup {t} ELSE seen
      BY <1>2
<1>4. \/ step' = "report" /\ at' = at /\ failures' = failures
      \/ step' = "pg" /\ at' = at + 1 /\ failures < MaxFailures /\ failures' = failures + 1
      BY DEF SfCount, CountFails
<1> HIDE DEF t
<1>5. SyncTypeOK'
  <2>1. results' \in [Tbl -> Verdict] /\ seen' \subseteq Tbl
        BY <1>1, <1>3 DEF Checked, SyncTypeOK, Verdict
  <2>2. step' \in {"pg", "report"}
        BY <1>4
  <2>6. /\ at' \in 1..Len(Pairs) + 1 /\ failures' \in 0..MaxFailures
        /\ step' = "report" => at' <= Len(Pairs)
    <3>1. /\ at \in 1..Len(Pairs) + 1 /\ at <= Len(Pairs) /\ at + 1 \in 1..Len(Pairs) + 1
          /\ failures \in 0..MaxFailures /\ (failures < MaxFailures => failures + 1 \in 0..MaxFailures)
          BY <1>1, PairsOK, SyncAssumption DEF Checked, SyncTypeOK
    <3>2. QED
          BY <1>4, <3>1
  <2>3. pg_count' \in 0..MaxRows + StatError
        BY <1>2, SyncAssumption
  <2>4. exact' \in BOOLEAN
        BY <1>2
  <2>5. QED
        BY <1>2, <2>1, <2>2, <2>3, <2>4, <2>6 DEF Checked, SyncTypeOK, dataVars
<1>6. \A u \in Tbl : results'[u] = IF u = t THEN v ELSE results[u]
      BY <1>1, <1>3 DEF Checked, SyncTypeOK
<1>7. \A i \in DOMAIN Pairs : Through(i)' => results'[Pairs[i]] # "none"
  <2>1. ASSUME NEW i \in 1..Len(Pairs), Through(i)' PROVE Pairs[i] = t \/ Through(i)
        BY <1>1, <1>4, <2>1 DEF Through, t
  <2>2. QED
        BY <1>1, <1>6, <2>1, PairsOK DEF Checked, CheckInv
<1>8. \A u \in Tbl : results'[u] = "ok" => u \in seen'
      BY <1>1, <1>3, <1>6 DEF Checked, CheckInv
<1>9. exit' = -1 /\ ~ exact'
      BY <1>1, <1>2
<1>10. QED
      BY <1>5, <1>7, <1>8, <1>9 DEF Checked, CheckInv, GateHonest

(* A command ends its check with a verdict for every table; 0 means all are "ok". *)
LEMMA CheckedFinish ==
    ASSUME Checked, Finish
    PROVE  Checked'
<1>1. /\ step = "pg" /\ at > Len(Pairs) /\ exit = -1 /\ ~ exact
      /\ UNCHANGED <<mode, dataVars, at, pg_count, exact, failures>>
      BY DEF Finish, Checked, CheckInv
<1>2. CASE mode = "thread"
  <2>1. /\ step' = "sleep" /\ exit' = exit /\ seen' = {}
        /\ results' = [u \in Tbl |-> "none"]
        BY <1>2 DEF Finish, NoResults
  <2>2. SyncTypeOK'
        BY <1>1, <2>1 DEF Checked, SyncTypeOK, Verdict, dataVars
  <2>3. CheckInv'
        BY <1>1, <2>1 DEF CheckInv, GateHonest
  <2>4. QED
        BY <2>2, <2>3 DEF Checked
<1>3. CASE mode # "thread"
  <2>1. /\ step' = "over" /\ exit' = (IF AllOk THEN 0 ELSE 1) /\ UNCHANGED <<results, seen>>
        /\ mode = "command"
        BY <1>3 DEF Finish, Checked, SyncTypeOK
  <2>2. SyncTypeOK'
        BY <1>1, <2>1 DEF Checked, SyncTypeOK, dataVars
  <2>3. AllOk => Tbl \subseteq seen
    <3>1. \A i \in 1..Len(Pairs) : Through(i)
          BY <1>1, PairsOK DEF Through, Checked, SyncTypeOK
    <3>2. \A u \in Tbl : results[u] # "none"
          BY <1>1, <3>1, PairsOK DEF Checked, CheckInv
    <3>3. QED
          BY <3>2 DEF AllOk, Checked, CheckInv
  <2>4. CheckInv'
        BY <1>1, <2>1, <2>3 DEF Checked, CheckInv, GateHonest
  <2>5. QED
        BY <2>2, <2>4 DEF Checked
<1>4. QED
      BY <1>2, <1>3

LEMMA CheckedKilled ==
    ASSUME Checked, Killed
    PROVE  Checked'
<1>1. /\ mode = "thread" /\ mode' = mode /\ step' = "over" /\ at' = 1 /\ pg_count' = 0 /\ exact' = FALSE
      /\ results' = [u \in Tbl |-> "none"] /\ seen' = {} /\ UNCHANGED <<dataVars, exit, failures>>
      BY DEF Killed, Forget, NoResults
<1>2. exit' = -1
      BY <1>1 DEF Checked, CheckInv
<1>3. SyncTypeOK'
  <2>1. exact' \in BOOLEAN
        BY <1>1
  <2>2. at' \in 1..Len(Pairs) + 1 /\ pg_count' \in 0..MaxRows + StatError
        BY <1>1, PairsOK, SyncAssumption
  <2>3. QED
        BY <1>1, <2>1, <2>2 DEF Checked, SyncTypeOK, Verdict, dataVars
<1>4. CheckInv'
      BY <1>1, <1>2 DEF CheckInv, GateHonest
<1>5. QED
      BY <1>3, <1>4 DEF Checked

(* An exact count is the number of rows, so the verdict compares the two tables. *)
LEMMA VerdictExact ==
    ASSUME Checked, CheckLogs \/ Databases \/ Killed \/ UNCHANGED syncVars,
           step = "sf", step' = "report", exact
    PROVE  results'[Pairs[at]] = IF Gap(Pairs[at]) <= Threshold THEN "ok" ELSE "drift"
<1>1. SfCount
      BY DEF CheckLogs, Databases, SourceMoves, WarehouseMoves, Killed, syncVars,
             Begin, PgCount, CountFails, Report, Finish
<1>2. pg_count = rows[Pairs[at]] /\ Pairs[at] \in Tbl /\ results \in [Tbl -> Verdict]
      BY PairsOK DEF Checked, CheckInv, SyncTypeOK
<1>3. QED
      BY <1>1, <1>2 DEF SfCount, Gap
-----------------------------------------------------------------------------
(* Together.                                                               *)

LEMMA TypeParts ==
    TypeOK <=> /\ api_key \in BOOLEAN /\ alive \in BOOLEAN
               /\ LogTypes /\ CountTypes /\ SyncTypeOK
BY DEF TypeOK, MonitoringTypeOK, LogTypes, CountTypes

LEMMA InvParts ==
    ObserversInv <=> /\ api_key \in BOOLEAN /\ alive \in BOOLEAN
                     /\ Logged /\ Counted /\ Checked
BY TypeParts DEF ObserversInv, Logged, Counted, Checked


LEMMA LoggedLogs ==
    ASSUME Logged, Counted, Logs \/ MainLogs \/ UNCHANGED logVars
    PROVE  /\ Logged'
           /\ emitted' = emitted \/ (Followed /\ emitted' = emitted + 1)
<1>1. CASE UNCHANGED logVars
      BY <1>1, LoggedFrame DEF logVars
<1>2. CASE Followed /\ Emit
  <2>1. emitted < MaxOps
        BY <1>2, CountNat, MonitoringAssumption DEF Followed, NatCounts, Logged, LogTypes
  <2>2. QED
        BY <1>2, <2>1, LoggedEmit DEF Emit
<1>3. QED
      BY <1>1, <1>2 DEF Logs, MainLogs

LEMMA ObserversStep == ObserversInv /\ [Next]_observerVars => ObserversInv'
<1> SUFFICES ASSUME ObserversInv, [Next]_observerVars PROVE ObserversInv'
    OBVIOUS
<1>1. /\ api_key \in BOOLEAN /\ alive \in BOOLEAN /\ Logged /\ Counted /\ Checked
      /\ emitted \in Nat
      BY InvParts, MonitoringAssumption DEF Logged, LogTypes
<1>2. SUFFICES api_key' \in BOOLEAN /\ alive' \in BOOLEAN /\ Logged' /\ Counted' /\ Checked'
  <2>1. (api_key \in BOOLEAN /\ alive \in BOOLEAN /\ Logged /\ Counted /\ Checked => ObserversInv)'
        BY InvParts, PTL
  <2>2. QED
        BY <1>2, <2>1
<1>3. CASE CheckStep
  <2>1. CheckLogs /\ UNCHANGED <<api_key, alive, countVars>>
        BY <1>3 DEF CheckStep
  <2>2. Logs \/ UNCHANGED logVars
        BY <2>1 DEF CheckLogs
  <2>3. Logged' /\ Counted'
        BY <1>1, <2>1, <2>2, LoggedLogs, CountedFrame
  <2>4. Checked'
        BY <1>1, <2>1, CheckedBegin, CheckedPgCount, CheckedVerdict, CheckedFinish DEF CheckLogs
  <2>5. QED
        BY <1>1, <2>1, <2>3, <2>4
<1>4. CASE DatabasesMove
  <2>1. Databases /\ UNCHANGED <<api_key, alive, logVars, countVars>>
        BY <1>4 DEF DatabasesMove, monVars
  <2>2. emitted' = emitted
        BY <2>1 DEF logVars
  <2>3. QED
        BY <1>1, <2>1, <2>2, LoggedFrame, CountedFrame, CheckedDatabases
<1>5. CASE MainThread
  <2>1. (MainLogs \/ Increment) /\ UNCHANGED <<api_key, alive, syncVars>>
        BY <1>5 DEF MainThread
  <2>2. CASE MainLogs
    <3>1. UNCHANGED countVars
          BY <2>2 DEF MainLogs
    <3>2. QED
          BY <1>1, <2>1, <2>2, <3>1, LoggedLogs, CountedFrame, CheckedFrame
  <2>3. CASE Increment
    <3>1. UNCHANGED logVars
          BY <2>3 DEF Increment
    <3>2. QED
          BY <1>1, <2>1, <2>3, <3>1, LoggedFrame, CountedStep, CheckedFrame
  <2>4. QED
        BY <2>1, <2>2, <2>3
<1>6. CASE Shipping
  <2>1. LogShipper /\ UNCHANGED <<api_key, alive, syncVars>>
        BY <1>6 DEF Shipping
  <2>2. Logged'
        BY <1>1, <2>1, LoggedGather, LoggedGathered, LoggedPost DEF LogShipper
  <2>3. emitted' = emitted /\ UNCHANGED countVars
        BY <2>1 DEF LogShipper, Gather, Gathered, PostLogs, PostLogsFails
  <2>4. QED
        BY <1>1, <2>1, <2>2, <2>3, CountedFrame, CheckedFrame
<1>7. CASE Flushing
  <2>1. MetricFlusher /\ UNCHANGED <<api_key, alive, syncVars>>
        BY <1>7 DEF Flushing
  <2>2. UNCHANGED logVars
        BY <2>1 DEF MetricFlusher, CopyCounters, ClearCounters, PostSeries, PostSeriesFails
  <2>3. QED
        BY <1>1, <2>1, <2>2, LoggedFrame, CountedStep, CheckedFrame
<1>8. CASE ProcessEnds
  <2>1. EndProcess /\ (Killed \/ UNCHANGED syncVars)
        BY <1>8 DEF ProcessEnds
  <2>2. api_key' \in BOOLEAN /\ alive' \in BOOLEAN
        BY <1>1, <2>1 DEF EndProcess
  <2>3. QED
        BY <1>1, <2>1, <2>2, LoggedEnd, CountedStep, CheckedKilled, CheckedFrame
<1>9. CASE UNCHANGED observerVars
  <2>1. UNCHANGED <<api_key, alive, logVars, countVars, syncVars>>
        BY <1>9 DEF observerVars, monVars
  <2>2. emitted' = emitted
        BY <2>1 DEF logVars
  <2>3. QED
        BY <1>1, <2>1, <2>2, LoggedFrame, CountedFrame, CheckedFrame
<1>10. QED
      BY <1>3, <1>4, <1>5, <1>6, <1>7, <1>8, <1>9 DEF Next

LEMMA ObserversInvariant == Spec => []ObserversInv
<1>1. Init => ObserversInv
  <2>1. Init => api_key \in BOOLEAN /\ alive \in BOOLEAN
        BY DEF Init, MonitoringInit
  <2>2. QED
        BY <2>1, LoggedInit, CountedInit, CheckedInit, InvParts DEF Init
<1>2. QED
      BY <1>1, ObserversStep, PTL DEF Spec

(* The variables of handler, metrics client and check keep their types; neither the queue
   nor the batch of the shipping thread grows beyond its size. *)
THEOREM ObserversTypeCorrect == Spec => []TypeOK
BY ObserversInvariant, PTL DEF ObserversInv

(* Every record logged is in the queue, in the batch, at Datadog, dropped by a full queue
   or lost with its POST or its process, and in one of these only, whatever the threads
   do between two steps of each other and whenever the process ends. *)
THEOREM NoRecordForgotten == Spec => []RecordsAccounted
BY ObserversInvariant, InvParts, LoggedCounts, PTL

(* Datadog gets the records in the order in which they were logged. *)
THEOREM RecordsInOrder == Spec => []ShippedInOrder
BY ObserversInvariant, InvParts, LoggedCounts, PTL

(* What was counted is in the counters, in the flusher's copy, at Datadog or lost with a
   POST or the process: no count goes missing while _flush copies and clears. *)
THEOREM NoCountForgotten == Spec => []CountsAccounted
BY ObserversInvariant, PTL DEF ObserversInv, CountInv

(* A command that exits with 0 has compared every table and found it close. *)
THEOREM ExitCodeIsHonest == Spec => []GateHonest
BY ObserversInvariant, PTL DEF ObserversInv, CheckInv

(* A table that was counted exactly, and did not change between its counts, gets the
   verdict that its two tables deserve, whatever the databases and the other threads do. *)
THEOREM VerdictsJustified == Spec => VerdictJustified
<1>1. ObserversInv /\ [Next]_observerVars =>
        [step = "sf" /\ step' = "report" /\ exact =>
            results'[Pairs[at]] = IF Gap(Pairs[at]) <= Threshold THEN "ok" ELSE "drift"]_syncVars
  <2> SUFFICES ASSUME ObserversInv, [Next]_observerVars, step = "sf", step' = "report", exact
               PROVE  results'[Pairs[at]] = IF Gap(Pairs[at]) <= Threshold THEN "ok" ELSE "drift"
      OBVIOUS
  <2>1. Checked
        BY InvParts
  <2>2. CheckLogs \/ Databases \/ Killed \/ UNCHANGED syncVars
        BY DEF Next, CheckStep, DatabasesMove, MainThread, Shipping, Flushing, ProcessEnds,
               observerVars
  <2>3. QED
        BY <2>1, <2>2, VerdictExact
<1>2. QED
      BY <1>1, ObserversInvariant, PTL DEF Spec, VerdictJustified
===============================================================================
