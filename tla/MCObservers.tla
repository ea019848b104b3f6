----------------------------- MODULE MCObservers -----------------------------
(* The observers for TLC.                                                  *)
EXTENDS Observers, TLC

CONSTANTS customers, devices

TwoTables == <<customers, devices>>
===============================================================================
