--------------------------- MODULE MCSlotContention ---------------------------
(* Two instances of the service in a rolling deploy, for TLC.              *)
EXTENDS SlotContention, TLC

CONSTANTS old, new
===============================================================================
