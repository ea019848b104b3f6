------------------------------- MODULE MCReplica -------------------------------
(* Replica for TLC.                                                        *)
EXTENDS Replica

CONSTANTS customers, v1, v2

Named == <<"id", "name">>
Planned == <<"id", "plan">>
Bare == <<"id">>
Odd == <<"id", "latin1">>
Layouts == {Named, Planned, Bare, Odd}
OddOnly == {Odd}

SfNames == [id |-> "ID", name |-> "NAME", plan |-> "PLAN", col_1 |-> "COL_1", latin1 |-> "LATIN1"]

\* sql/postgres_setup.sql sets REPLICA IDENTITY FULL.  The relation starts with columns
\* the warehouse takes or with the key alone, which it rejects; the ALTER leads to any.
SetupInit ==
    /\ Init
    /\ layout \in [Oid -> {Named, Bare}] /\ identity = [o \in Oid |-> "full"]

SetupSpec == SetupInit /\ [][Next]_vars

Symmetry == Permutations({v1, v2})
================================================================================
