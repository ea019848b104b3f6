------------------------------ MODULE Observers ------------------------------
(***************************************************************************)
(* The threads beside the main loop that watch and report: the sync check  *)
(* logs through the handler of the process it runs in.  In the service     *)
(* that process goes on until it is stopped; as a command it ends with the *)
(* check, and what the shipping thread still holds goes with it.           *)
(***************************************************************************)
EXTENDS Monitoring, SyncCheck

observerVars == <<monVars, syncVars>>

Init == MonitoringInit /\ SyncInit

\* Records of the check: a count failed, a table has drifted, a POST to Datadog failed.
CheckLogs ==
    \/ CountFails /\ Logs
    \/ /\ Report
       /\ \/ Logs
          \/ results[Pairs[at]] # "drift" /\ UNCHANGED logVars
    \/ Begin /\ UNCHANGED logVars
    \/ PgCount /\ UNCHANGED logVars
    \/ SfCount /\ UNCHANGED logVars
    \/ Finish /\ UNCHANGED logVars

CheckStep ==
    /\ alive
    /\ CheckLogs
    /\ UNCHANGED <<api_key, alive, countVars>>

DatabasesMove == alive /\ Databases /\ UNCHANGED monVars

\* The service logs and counts; in the command nothing else runs.
MainThread ==
    /\ alive /\ mode = "thread"
    /\ MainLogs \/ Increment
    /\ UNCHANGED <<api_key, alive, syncVars>>

Shipping == alive /\ LogShipper /\ UNCHANGED <<api_key, alive, syncVars>>

Flushing == alive /\ MetricFlusher /\ UNCHANGED <<api_key, alive, syncVars>>

\* The service is stopped or dies at any time, the command when it is through.
ProcessEnds ==
    /\ alive
    /\ EndProcess
    /\ \/ Killed
       \/ mode = "command" /\ step = "over" /\ UNCHANGED syncVars

Next == CheckStep \/ DatabasesMove \/ MainThread \/ Shipping \/ Flushing \/ ProcessEnds

Spec == Init /\ [][Next]_observerVars

\* The daemon threads run as long as the process does.
FairSpec ==
    /\ Spec
    /\ WF_observerVars(CheckStep) /\ WF_observerVars(Shipping) /\ WF_observerVars(Flushing)

-----------------------------------------------------------------------------
(* Properties.                                                             *)

TypeOK == MonitoringTypeOK /\ SyncTypeOK

\* DriftReported in a service that is not stopped.
StandingDriftReported == [](alive) => DriftReported
===============================================================================
