------------------------------- MODULE Heartbeat -------------------------------
(***************************************************************************)
(* The batch pipeline as the job_runs table shows it, the hourly heartbeat *)
(* that looks there for a run of the last scheduled slot, and the cleanup  *)
(* that prunes the table. A run is recorded when it ends, with the time it *)
(* began.                                                                  *)
(*                                                                         *)
(* Slot s is due at time 2s; the odd times in between are when its grace   *)
(* of half an hour is over.                                                *)
(*                                                                         *)
(* Each definition named ...Bug is the one after it with a mistake; no     *)
(* specification uses it.                                                  *)
(***************************************************************************)
EXTENDS Naturals, FiniteSets

CONSTANTS
  MaxSlots,   \* bound: scheduled slots
  Retention   \* JOB_RUNS_RETENTION, in the same units

(* A run is kept at least until the next slot's grace is over.             *)
ASSUME HeartbeatAssumption == MaxSlots \in Nat \ {0} /\ Retention \in Nat /\ Retention >= 3

VARIABLES
  now,       \* the clock
  running,   \* slots whose pipeline run is going on
  runs,      \* job_runs of the pipeline: when each began and how it ended
  hb,        \* the heartbeat: "idle", or the slot it must report or record
  reported,  \* _reported: missed slots already logged, in memory
  reports,   \* history: how often each slot was logged since the last restart
  fate       \* history: what became of the run of each slot

heartbeatVars == <<now, running, runs, hb, reported, reports, fate>>

Slots == 1..MaxSlots
Time(s) == 2 * s
Grace == 1
JobRuns == [began : {Time(s) : s \in Slots}, status : {"SUCCESS", "FAILED"}]
Idle == [step |-> "idle"]
At(step, s) == [step |-> step, slot |-> s]

HeartbeatInit ==
  /\ now = 0
  /\ running = {} /\ runs = {}
  /\ hb = Idle
  /\ reported = {}
  /\ reports = [s \in Slots |-> 0]
  /\ fate = [s \in Slots |-> "none"]

(* Mon-Fri slots until now whose grace is over; the last of them.          *)
LastDueBug == {s \in Slots : Time(s) + Grace <= now
                           /\ \A u \in Slots : Time(u) + Grace <= now => s <= u}
LastDue == {s \in Slots : Time(s) + Grace <= now
                        /\ \A u \in Slots : Time(u) + Grace <= now => u <= s}

-----------------------------------------------------------------------------
(* The pipeline.                                                           *)

(* APScheduler starts a job at its time or drops it as a misfire.          *)
PipelineStarts(s) ==
  /\ now = Time(s) /\ fate[s] = "none"
  /\ running' = running \cup {s}
  /\ fate' = [fate EXCEPT ![s] = "running"]
  /\ UNCHANGED <<now, runs, hb, reported, reports>>

(* run_full_pipeline ends and records itself; recording is best effort.    *)
PipelineEnds(s, status, recorded) ==
  /\ s \in running
  /\ running' = running \ {s}
  /\ runs' = IF recorded THEN runs \cup {[began |-> Time(s), status |-> status]} ELSE runs
  /\ fate' = [fate EXCEPT ![s] = IF recorded THEN "recorded" ELSE "lost"]
  /\ UNCHANGED <<now, hb, reported, reports>>

-----------------------------------------------------------------------------
(* run_heartbeat reads the oldest run that began at the slot or later ...  *)
Found(s) == {r \in runs : r.began >= Time(s)}

HeartbeatReadBug ==
  /\ hb = Idle
  /\ \E s \in LastDue :
       hb' = IF {r \in runs : r.began = Time(s) /\ r.status = "SUCCESS"} # {}
             THEN At("record", s) ELSE At("report", s)
  /\ UNCHANGED <<now, running, runs, reported, reports, fate>>
HeartbeatRead ==
  /\ hb = Idle
  /\ \E s \in LastDue :
       hb' = IF Found(s) # {} THEN At("record", s)
             ELSE IF s \in reported THEN At("record", s)
             ELSE At("report", s)
  /\ UNCHANGED <<now, running, runs, reported, reports, fate>>

(* ... logs a slot without one, once, as CRITICAL ...                      *)
HeartbeatReportsBug(s) ==
  /\ hb = At("report", s)
  /\ reports' = [reports EXCEPT ![s] = @ + 1]
  /\ hb' = At("record", s)
  /\ UNCHANGED <<now, running, runs, reported, fate>>
HeartbeatReports(s) ==
  /\ hb = At("report", s)
  /\ reported' = reported \cup {s}
  /\ reports' = [reports EXCEPT ![s] = @ + 1]
  /\ hb' = At("record", s)
  /\ UNCHANGED <<now, running, runs, fate>>

(* ... and records its own run, which nothing here reads.                  *)
HeartbeatRecords ==
  /\ hb.step = "record"
  /\ hb' = Idle
  /\ UNCHANGED <<now, running, runs, reported, reports, fate>>

(* _prune_job_runs.                                                        *)
Cleanup ==
  /\ \E r \in runs : r.began + Retention < now
  /\ runs' = {r \in runs : r.began + Retention >= now}
  /\ UNCHANGED <<now, running, hb, reported, reports, fate>>

(* The clock may pass a slot nobody started: a suspended scheduler.        *)
Tick ==
  /\ now < Time(MaxSlots) + 2
  /\ now' = now + 1
  /\ UNCHANGED <<running, runs, hb, reported, reports, fate>>

(* A restart kills the runs going on and forgets _reported.                *)
HeartbeatRestart ==
  /\ running' = {}
  /\ hb' = Idle
  /\ reported' = {}
  /\ reports' = [s \in Slots |-> 0]
  /\ fate' = [s \in Slots |-> IF s \in running THEN "killed" ELSE fate[s]]
  /\ UNCHANGED <<now, runs>>

-----------------------------------------------------------------------------
(* Properties.                                                             *)

HeartbeatTypeOK ==
  /\ now \in 0..(Time(MaxSlots) + 2)
  /\ running \subseteq Slots /\ reported \subseteq Slots
  /\ runs \subseteq JobRuns
  /\ hb = Idle \/ (hb.step \in {"report", "record"} /\ hb.slot \in Slots)

(* A missed slot is logged once in the life of a process, not every hour   *)
(* (run_heartbeat, _reported).                                             *)
ReportedOnce == \A s \in Slots : reports[s] <= 1

(* The heartbeat decides to report a slot only when no run of it has been  *)
(* recorded: it did not start, or is still going after half an hour, or a  *)
(* restart killed it, or its record was lost. A run that was recorded,     *)
(* failed or not, is never taken for a missed one, whatever the cleanup    *)
(* has pruned (run_heartbeat, _prune_job_runs).                            *)
AlarmHasCause ==
  [][\A s \in Slots :
       (hb = Idle /\ hb' = At("report", s)) => fate[s] # "recorded"]_heartbeatVars
=============================================================================
