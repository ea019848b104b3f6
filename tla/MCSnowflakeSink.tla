--------------------------- MODULE MCSnowflakeSink ---------------------------
(* SnowflakeSink on its own, for TLC: every caller the sink may have.      *)
EXTENDS SnowflakeSink, TLC

CONSTANTS customers, devices, k1, k2

Symmetry == Permutations({customers, devices}) \cup Permutations({k1, k2})
==============================================================================
