------------------------------ MODULE Delivery -------------------------------
(***************************************************************************)
(* What the CDC service promises about the changes of the source, whatever *)
(* fails: a change leaves the replication slot once, in commit order, and  *)
(* is then held in memory until it is recorded in the warehouse or lost;   *)
(* both are final.  What is lost is always the newest part of what is      *)
(* held, so an older change is never given up while a newer one is kept.   *)
(*                                                                         *)
(* The abstract queue is at-most-once on purpose: the slot is consumed by  *)
(* pg_logical_slot_get_binary_changes before anything is written.          *)
(***************************************************************************)
EXTENDS Integers

CONSTANT MaxSeq     \* bound: changes the source makes

VARIABLES
    committed,  \* changes in the WAL of the source
    fate        \* fate[i]: where change i is

Fate == {"source", "held", "recorded", "lost", "ignored"}

DInit ==
    /\ committed = 0
    /\ fate = [i \in 1..MaxSeq |-> "source"]

At(f) == {i \in 1..MaxSeq : fate[i] = f}

DCommit ==
    /\ committed' \in committed+1..MaxSeq
    /\ UNCHANGED fate

\* The next changes leave the slot; those of unmapped tables are of no interest.
Take(n) ==
    /\ At("source") \cap 1..n # {}
    /\ \A i \in 1..MaxSeq :
          fate'[i] \in IF fate[i] = "source" /\ i <= n THEN {"held", "ignored"} ELSE {fate[i]}

\* Newest first: whatever is given up takes everything newer that is held with it.
NewestOf(S, pool) == \A i \in S, j \in pool : i <= j => j \in S

Lose(S) ==
    /\ NewestOf(S, At("held"))
    /\ fate' = [i \in 1..MaxSeq |-> IF i \in S THEN "lost" ELSE fate[i]]

\* The answer of the poll that took them never arrives.
TakeAndLose(n) ==
    /\ At("source") \cap 1..n # {}
    /\ \A i \in 1..MaxSeq :
          fate'[i] \in IF fate[i] = "source" /\ i <= n THEN {"lost", "ignored"} ELSE {fate[i]}

Record(S) == fate' = [i \in 1..MaxSeq |-> IF i \in S THEN "recorded" ELSE fate[i]]

DNext ==
    \/ DCommit
    \/ /\ UNCHANGED committed
       /\ \/ \E n \in 1..committed : Take(n) \/ TakeAndLose(n)
          \/ \E S \in SUBSET At("held") : S # {} /\ (Record(S) \/ Lose(S))

DSpec == DInit /\ [][DNext]_<<committed, fate>>
==============================================================================
