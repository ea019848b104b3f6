------------------------------ MODULE MCHandoff ------------------------------
(* Backfill, service and reconcile for TLC.                                *)
EXTENDS Handoff, TLC

CONSTANTS customers, acme

OneTable == <<customers>>
===============================================================================
