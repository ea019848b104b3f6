---------------------------- MODULE MCCdcService ----------------------------
(* CdcService for TLC.                                                     *)
EXTENDS CdcService, TLC

CONSTANTS customers, audit, k1
==============================================================================
