------------------------------ MODULE Operations ------------------------------
(***************************************************************************)
(* The scheduler's process: the pipeline and the heartbeat log errors, each *)
(* on its own thread, and every record goes through the handlers of        *)
(* Alerts. A job goes on only when its logging call returns.               *)
(***************************************************************************)
EXTENDS Heartbeat, Alerts

CONSTANTS
  Missed(_),     \* the message about a missed slot
  StageFailed,   \* the message of a failed stage
  MaxErrors,     \* bound: stages that fail
  MaxRestarts    \* bound: restarts

ASSUME OperationsAssumption ==
  /\ {"heartbeat", "pipeline"} \subseteq Threads
  /\ \A s \in Slots : Missed(s) \in Messages
  /\ StageFailed \in Messages
  /\ MaxErrors \in Nat /\ MaxRestarts \in Nat

VARIABLES
  failing,   \* the slot whose pipeline run has failed and is logging it, or 0
  errors,    \* stages that failed so far
  restarts   \* restarts so far

vars == <<heartbeatVars, alertVars, failing, errors, restarts>>
quiet == <<alertVars, errors, restarts>>

Init == HeartbeatInit /\ AlertsInit /\ failing = 0 /\ errors = 0 /\ restarts = 0

(* A stage raises: _run_stage logs it and run_full_pipeline goes on to     *)
(* record the run once the call has returned.                              *)
StageRaises(s) ==
  /\ s \in running /\ failing = 0 /\ errors < MaxErrors
  /\ LogError("pipeline", StageFailed)
  /\ failing' = s
  /\ errors' = errors + 1
  /\ UNCHANGED <<heartbeatVars, restarts>>

PipelineFails(s) ==
  /\ failing = s /\ Quiet("pipeline")
  /\ \E recorded \in BOOLEAN : PipelineEnds(s, "FAILED", recorded)
  /\ failing' = 0
  /\ UNCHANGED quiet

PipelineSucceeds(s) ==
  /\ failing # s
  /\ \E recorded \in BOOLEAN : PipelineEnds(s, "SUCCESS", recorded)
  /\ UNCHANGED <<failing, quiet>>

HeartbeatStep ==
  \/ HeartbeatRead /\ UNCHANGED <<failing, quiet>>
  \/ \E s \in Slots :
       /\ HeartbeatReports(s)
       /\ LogError("heartbeat", Missed(s))
       /\ UNCHANGED <<failing, errors, restarts>>
  \/ Quiet("heartbeat") /\ HeartbeatRecords /\ UNCHANGED <<failing, quiet>>

Restart ==
  /\ restarts < MaxRestarts
  /\ HeartbeatRestart /\ AlertsRestart
  /\ failing' = 0
  /\ restarts' = restarts + 1
  /\ UNCHANGED errors

PipelineStep(s) ==
  \/ PipelineStarts(s) /\ UNCHANGED <<failing, quiet>>
  \/ StageRaises(s) \/ PipelineFails(s) \/ PipelineSucceeds(s)

Passing == Tick /\ UNCHANGED <<failing, quiet>>

Handling(t) == HandlerStep(t) /\ UNCHANGED <<heartbeatVars, failing, errors, restarts>>

Next ==
  \/ \E s \in Slots : PipelineStep(s)
  \/ HeartbeatStep
  \/ Cleanup /\ UNCHANGED <<failing, quiet>>
  \/ Passing
  \/ \E t \in Threads : Handling(t)
  \/ TimeStep /\ UNCHANGED <<heartbeatVars, failing, errors, restarts>>
  \/ Restart

Spec == Init /\ [][Next]_vars

(* The clock goes on, the heartbeat is scheduled every hour, and a thread  *)
(* in a handler goes on: SMTP and the database answer or time out. A lock  *)
(* that is released again and again is given to a thread that waits.       *)
Fairness ==
  /\ WF_vars(Passing)
  /\ WF_vars(HeartbeatStep)
  /\ \A t \in Threads : SF_vars(Handling(t))

FairSpec == Spec /\ Fairness

-----------------------------------------------------------------------------
(* Properties.                                                             *)

(* Jobs, records and counters stay within what the code can produce.       *)
TypeOK ==
  /\ HeartbeatTypeOK /\ AlertsTypeOK
  /\ failing \in {0} \cup running
  /\ errors \in 0..MaxErrors /\ restarts \in 0..MaxRestarts

(* Every logging call returns, so no job or request hangs in it, whatever  *)
(* the mail server and the database do and whoever logs at the same time.  *)
LoggingReturns == \A t \in Threads : ~Quiet(t) ~> Quiet(t)

(* The last slot, if the scheduler missed it, is mailed to the admin: no   *)
(* state of the handlers or of the heartbeat keeps the alert from being    *)
(* tried.                                                                  *)
MissedSlotMailed ==
  (now > Time(MaxSlots) /\ fate[MaxSlots] = "none" /\ MaxSlots \notin reported)
    ~> mailed[Missed(MaxSlots)] > 0
=============================================================================
