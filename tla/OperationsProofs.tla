--------------------------- MODULE OperationsProofs ---------------------------
(***************************************************************************)
(* Theorems about Operations, for all slots, threads, handlers, messages   *)
(* and bounds: one alert per message and window, one report per slot and   *)
(* process, no alarm about a slot whose run was recorded, and the types.   *)
(***************************************************************************)
EXTENDS Operations, NumberFacts, TLAPS

(* A message that is not remembered was not mailed in this window.         *)
AlertInv ==
  /\ mailed \in [Messages -> {0, 1}]
  /\ \A m \in Messages : m \notin recent => mailed[m] = 0

(* A slot not in _reported was not logged by this process, and one that is *)
(* about to be logged is not in it.                                        *)
ReportInv ==
  /\ reports \in [Slots -> {0, 1}]
  /\ \A s \in Slots : s \notin reported => reports[s] = 0
  /\ \A s \in Slots : hb = At("report", s) => s \notin reported

(* The row of a recorded run is there, or older than the retention.        *)
FateInv ==
  /\ now \in Nat
  /\ fate \in [Slots -> {"none", "running", "recorded", "lost", "killed"}]
  /\ \A s \in Slots : fate[s] = "recorded" =>
       (\E r \in runs : r.began = Time(s)) \/ Time(s) + Retention < now

-----------------------------------------------------------------------------
(* Every step leaves the mailing handler's memory alone, or adds the       *)
(* message it begins to mail, or lets a window end, or is a restart.       *)

LEMMA AlertInit == AlertsInit => AlertInv
  BY DEF AlertsInit, AlertInv

LEMMA AlertBegins ==
  ASSUME AlertInv, NEW t \in Threads, MailBegins(t)
  PROVE  AlertInv'
<1>1. mailed' = [mailed EXCEPT ![Top(t).msg] = @ + 1] /\ recent' = recent \cup {Top(t).msg}
      /\ Top(t).msg \notin recent
  BY DEF MailBegins
<1>2. ASSUME NEW m \in Messages
      PROVE  mailed'[m] \in {0, 1} /\ (m \notin recent' => mailed'[m] = 0)
  <2>1. CASE m = Top(t).msg
    BY <1>1, <2>1 DEF AlertInv
  <2>2. CASE m # Top(t).msg
    BY <1>1, <2>2 DEF AlertInv
  <2>3. QED BY <2>1, <2>2
<1>3. mailed' \in [Messages -> {0, 1}]
  BY <1>1, <1>2 DEF AlertInv
<1>4. QED BY <1>2, <1>3 DEF AlertInv

LEMMA AlertStep ==
  ASSUME AlertInv, [Next]_vars
  PROVE  AlertInv'
<1>1. ASSUME UNCHANGED <<recent, mailed>> PROVE AlertInv'
  BY <1>1 DEF AlertInv
<1>2. CASE \E s \in Slots : PipelineStep(s)
  BY <1>1, <1>2 DEF PipelineStep, PipelineStarts, StageRaises, LogError, PipelineFails,
     PipelineSucceeds, quiet, alertVars
<1>3. CASE HeartbeatStep
  BY <1>1, <1>3 DEF HeartbeatStep, LogError, quiet, alertVars
<1>4. CASE Cleanup /\ UNCHANGED <<failing, quiet>>
  BY <1>1, <1>4 DEF quiet, alertVars
<1>5. CASE Passing
  BY <1>1, <1>5 DEF Passing, quiet, alertVars
<1>6. ASSUME NEW t \in Threads, Handling(t) PROVE AlertInv'
  <2>1. CASE MailBegins(t)
    BY <2>1, AlertBegins
  <2>2. CASE MailSkips(t) \/ MailSent(t) \/ MailFails(t)
    BY <1>1, <2>2 DEF MailSkips, MailSent, MailFails
  <2>3. ASSUME NEW s \in Stores,
               StoreSkips(t, s) \/ StoreBegins(t, s) \/ StoreWrites(t, s) \/ StoreFails(t, s)
        PROVE  AlertInv'
    BY <1>1, <2>3 DEF StoreSkips, StoreBegins, StoreWrites, StoreFails
  <2>4. QED BY <1>6, <2>1, <2>2, <2>3 DEF Handling, HandlerStep
<1>7. CASE TimeStep /\ UNCHANGED <<heartbeatVars, failing, errors, restarts>>
  <2>1. ASSUME NEW s \in Stores, CooldownOver(s) PROVE AlertInv'
    BY <1>1, <2>1 DEF CooldownOver
  <2>2. ASSUME NEW m \in Messages, WindowOver(m) PROVE AlertInv'
    BY <2>2 DEF WindowOver, AlertInv
  <2>3. QED BY <1>7, <2>1, <2>2 DEF TimeStep
<1>8. CASE Restart
  BY <1>8 DEF Restart, AlertsRestart, AlertInv
<1>9. CASE UNCHANGED vars
  BY <1>1, <1>9 DEF vars, alertVars
<1>10. QED BY <1>2, <1>3, <1>4, <1>5, <1>6, <1>7, <1>8, <1>9 DEF Next

(* No more than one email per fingerprint and window, whichever threads    *)
(* log the message and whether its alert leaves or not (EmailAlertHandler).*)
THEOREM AlertedOnce == Spec => []OneAlertPerWindow
<1>1. Init => AlertInv
  BY AlertInit DEF Init
<1>2. AlertInv /\ [Next]_vars => AlertInv'
  BY AlertStep
<1>3. AlertInv => OneAlertPerWindow
  BY DEF AlertInv, OneAlertPerWindow
<1>4. QED BY <1>1, <1>2, <1>3, PTL DEF Spec

-----------------------------------------------------------------------------
(* The steps of the heartbeat and the pipeline, as the next lemmas need    *)
(* them: every step of the composition is one of these for Heartbeat.      *)
HeartbeatMoves ==
  \/ \E s \in Slots : PipelineStarts(s)
  \/ \E s \in Slots, status \in {"FAILED", "SUCCESS"}, recorded \in BOOLEAN :
       PipelineEnds(s, status, recorded)
  \/ HeartbeatRead
  \/ \E s \in Slots : HeartbeatReports(s)
  \/ HeartbeatRecords \/ Cleanup \/ Tick \/ HeartbeatRestart
  \/ UNCHANGED heartbeatVars

LEMMA StepsOfHeartbeat ==
  ASSUME [Next]_vars PROVE HeartbeatMoves
<1>1. ASSUME NEW s \in Slots, PipelineStep(s) PROVE HeartbeatMoves
  BY <1>1 DEF PipelineStep, StageRaises, PipelineFails, PipelineSucceeds, HeartbeatMoves
<1>2. CASE HeartbeatStep
  BY <1>2 DEF HeartbeatStep, HeartbeatMoves
<1>3. CASE Cleanup /\ UNCHANGED <<failing, quiet>>
  BY <1>3 DEF HeartbeatMoves
<1>4. CASE Passing
  BY <1>4 DEF Passing, HeartbeatMoves
<1>5. ASSUME NEW t \in Threads, Handling(t) PROVE HeartbeatMoves
  BY <1>5 DEF Handling, HeartbeatMoves
<1>6. CASE TimeStep /\ UNCHANGED <<heartbeatVars, failing, errors, restarts>>
  BY <1>6 DEF HeartbeatMoves
<1>7. CASE Restart
  BY <1>7 DEF Restart, HeartbeatMoves
<1>8. CASE UNCHANGED vars
  BY <1>8 DEF vars, HeartbeatMoves
<1>9. QED BY <1>1, <1>2, <1>3, <1>4, <1>5, <1>6, <1>7, <1>8 DEF Next

LEMMA ReportStep ==
  ASSUME ReportInv, HeartbeatMoves
  PROVE  ReportInv'
<1>1. ASSUME UNCHANGED <<hb, reported, reports>> PROVE ReportInv'
  BY <1>1 DEF ReportInv
<1>2. ASSUME NEW s \in Slots, PipelineStarts(s) PROVE ReportInv'
  BY <1>1, <1>2 DEF PipelineStarts
<1>3. ASSUME NEW s \in Slots, NEW status, NEW recorded, PipelineEnds(s, status, recorded)
      PROVE  ReportInv'
  BY <1>1, <1>3 DEF PipelineEnds
<1>4. CASE HeartbeatRead
  <2>1. UNCHANGED <<reported, reports>>
    BY <1>4 DEF HeartbeatRead
  <2>2. ASSUME NEW s \in Slots, hb' = At("report", s) PROVE s \notin reported
    BY <1>4, <2>2 DEF HeartbeatRead, At, LastDue
  <2>3. QED BY <2>1, <2>2 DEF ReportInv
<1>5. ASSUME NEW s \in Slots, HeartbeatReports(s) PROVE ReportInv'
  <2>1. s \notin reported /\ reports[s] = 0
    BY <1>5 DEF HeartbeatReports, ReportInv
  <2>2. /\ reported' = reported \cup {s}
        /\ reports' = [reports EXCEPT ![s] = 1]
    BY <1>5, <2>1 DEF HeartbeatReports
  <2>3. \A u \in Slots : hb' # At("report", u)
    BY <1>5 DEF HeartbeatReports, At
  <2>4. QED BY <2>2, <2>3 DEF ReportInv
<1>6. CASE HeartbeatRecords
  <2>1. \A u \in Slots : hb' # At("report", u)
    BY <1>6 DEF HeartbeatRecords, At, Idle
  <2>2. QED BY <1>6, <2>1 DEF HeartbeatRecords, ReportInv
<1>7. CASE Cleanup \/ Tick
  BY <1>1, <1>7 DEF Cleanup, Tick
<1>8. CASE HeartbeatRestart
  <2>1. \A u \in Slots : hb' # At("report", u)
    BY <1>8 DEF HeartbeatRestart, At, Idle
  <2>2. QED BY <1>8, <2>1 DEF HeartbeatRestart, ReportInv
<1>9. CASE UNCHANGED heartbeatVars
  BY <1>1, <1>9 DEF heartbeatVars
<1>10. QED BY <1>2, <1>3, <1>4, <1>5, <1>6, <1>7, <1>8, <1>9 DEF HeartbeatMoves

(* A missed slot is logged once in the life of a process, however often    *)
(* the heartbeat looks (run_heartbeat, _reported).                         *)
THEOREM SlotReportedOnce == Spec => []ReportedOnce
<1>1. Init => ReportInv
  BY DEF Init, HeartbeatInit, ReportInv, Idle, At
<1>2. ReportInv /\ [Next]_vars => ReportInv'
  BY StepsOfHeartbeat, ReportStep
<1>3. ReportInv => ReportedOnce
  BY DEF ReportInv, ReportedOnce
<1>4. QED BY <1>1, <1>2, <1>3, PTL DEF Spec

-----------------------------------------------------------------------------
(* The cleanup keeps the row of the last due slot.                         *)

LEMMA FateStep ==
  ASSUME FateInv, HeartbeatMoves
  PROVE  FateInv'
<1>1. ASSUME UNCHANGED <<now, runs, fate>> PROVE FateInv'
  BY <1>1 DEF FateInv
<1>2. ASSUME NEW s \in Slots, PipelineStarts(s) PROVE FateInv'
  BY <1>2 DEF PipelineStarts, FateInv
<1>3. ASSUME NEW s \in Slots, NEW status, NEW recorded, PipelineEnds(s, status, recorded)
      PROVE  FateInv'
  <2>1. /\ now' = now
        /\ fate' = [fate EXCEPT ![s] = IF recorded THEN "recorded" ELSE "lost"]
        /\ runs \subseteq runs'
    BY <1>3 DEF PipelineEnds
  <2>2. ASSUME recorded PROVE \E r \in runs' : r.began = Time(s)
    <3>1. [began |-> Time(s), status |-> status] \in runs'
      BY <1>3, <2>2 DEF PipelineEnds
    <3>2. QED BY <3>1
  <2>3. QED BY <2>1, <2>2 DEF FateInv
<1>4. CASE HeartbeatRead \/ HeartbeatRecords \/ \E s \in Slots : HeartbeatReports(s)
  BY <1>1, <1>4 DEF HeartbeatRead, HeartbeatRecords, HeartbeatReports
<1>5. CASE Cleanup
  <2>1. now' = now /\ fate' = fate /\ runs' = {r \in runs : r.began + Retention >= now}
    BY <1>5 DEF Cleanup
  <2>2. ASSUME NEW s \in Slots, NEW r \in runs, r.began = Time(s)
        PROVE  r \in runs' \/ Time(s) + Retention < now
    BY <2>1, <2>2, HeartbeatAssumption DEF FateInv, Time, Slots
  <2>3. QED BY <2>1, <2>2 DEF FateInv
<1>6. CASE Tick
  <2>1. now \in Nat /\ now' = now + 1 /\ runs' = runs /\ fate' = fate
    BY <1>6 DEF Tick, FateInv
  <2>2. ASSUME NEW s \in Slots, Time(s) + Retention < now PROVE Time(s) + Retention < now'
    BY <2>1, <2>2, HeartbeatAssumption DEF Time, Slots
  <2>3. QED BY <2>1, <2>2 DEF FateInv
<1>7. CASE HeartbeatRestart
  BY <1>7 DEF HeartbeatRestart, FateInv
<1>8. CASE UNCHANGED heartbeatVars
  BY <1>1, <1>8 DEF heartbeatVars
<1>9. QED BY <1>2, <1>3, <1>4, <1>5, <1>6, <1>7, <1>8 DEF HeartbeatMoves

(* The clock ends one unit after the last slot's grace.                    *)
ClockInv == now \in Nat /\ now <= Time(MaxSlots) + 2

LEMMA ClockStep ==
  ASSUME ClockInv, HeartbeatMoves
  PROVE  ClockInv'
<1>1. now' = now \/ (now < Time(MaxSlots) + 2 /\ now' = now + 1)
  BY DEF HeartbeatMoves, PipelineStarts, PipelineEnds, HeartbeatRead, HeartbeatReports,
     HeartbeatRecords, Cleanup, Tick, HeartbeatRestart, heartbeatVars
<1>2. QED BY <1>1, HeartbeatAssumption DEF ClockInv, Time

(* The last due slot is not older than the retention.                      *)
LEMMA LastDueKept ==
  ASSUME ClockInv, NEW s \in LastDue
  PROVE  ~(Time(s) + Retention < now)
<1>1. s \in Slots /\ s \in Nat /\ s <= MaxSlots /\ MaxSlots \in Nat /\ Retention \in Nat /\ Retention >= 3
  BY HeartbeatAssumption DEF LastDue, Slots
<1>2. CASE s = MaxSlots
  BY <1>1, <1>2 DEF ClockInv, Time
<1>3. CASE s # MaxSlots
  <2>1. s + 1 \in Slots
    BY <1>1, <1>3 DEF Slots
  <2>2. ~(Time(s + 1) + Grace <= now)
    BY <1>1, <2>1 DEF LastDue
  <2>3. QED BY <1>1, <2>2 DEF ClockInv, Time, Grace
<1>4. QED BY <1>2, <1>3

(* The heartbeat never takes a run that was recorded for a missed one,     *)
(* whatever the cleanup has pruned (run_heartbeat, _prune_job_runs).       *)
THEOREM AlarmsJustified == Spec => AlarmHasCause
<1>1. Init => FateInv /\ ClockInv
  BY HeartbeatAssumption DEF Init, HeartbeatInit, FateInv, ClockInv, Time
<1>2. FateInv /\ ClockInv /\ [Next]_vars => FateInv' /\ ClockInv'
  BY StepsOfHeartbeat, FateStep, ClockStep
<1>3. ASSUME FateInv, ClockInv, [Next]_vars
      PROVE  [\A s \in Slots :
                (hb = Idle /\ hb' = At("report", s)) => fate[s] # "recorded"]_heartbeatVars
  <2>1. SUFFICES ASSUME NEW s \in Slots, hb = Idle, hb' = At("report", s)
                 PROVE  fate[s] # "recorded"
    OBVIOUS
  <2>2. hb' # hb /\ hb'.step = "report" /\ hb'.slot = s
    BY <2>1 DEF Idle, At
  <2>3. HeartbeatRead
    BY <1>3, <2>1, <2>2, StepsOfHeartbeat
       DEF HeartbeatMoves, PipelineStarts, PipelineEnds, HeartbeatReports, HeartbeatRecords,
           Cleanup, Tick, HeartbeatRestart, heartbeatVars, Idle, At
  <2>4. s \in LastDue /\ Found(s) = {}
    BY <2>2, <2>3 DEF HeartbeatRead, At
  <2>5. ~(Time(s) + Retention < now)
    BY <1>3, <2>4, LastDueKept
  <2>6. ASSUME NEW r \in runs, r.began = Time(s) PROVE FALSE
    BY <2>4, <2>6, HeartbeatAssumption DEF Found, Time, Slots
  <2>7. QED BY <1>3, <2>5, <2>6 DEF FateInv
<1>4. QED BY <1>1, <1>2, <1>3, PTL DEF Spec, AlarmHasCause

-----------------------------------------------------------------------------
(* Types, with the shapes of the functions and of the stacks.              *)
JobsType ==
  /\ running \subseteq Slots /\ reported \subseteq Slots
  /\ runs \subseteq JobRuns
  /\ hb = Idle \/ (hb.step \in {"report", "record"} /\ hb.slot \in Slots)

StackType == stack \in [Threads -> Seq(Records)]

StoresType ==
  /\ recent \subseteq Messages
  /\ off \subseteq Stores
  /\ failures \in [Stores -> 0..(MaxFailures - 1)]

CountsType ==
  /\ failing \in {0} \cup running
  /\ errors \in 0..MaxErrors /\ restarts \in 0..MaxRestarts

TypeInv == ClockInv /\ JobsType /\ StackType /\ StoresType /\ CountsType

LEMMA JobsStep ==
  ASSUME JobsType, HeartbeatMoves
  PROVE  JobsType'
<1>1. ASSUME UNCHANGED <<running, runs, hb, reported>> PROVE JobsType'
  BY <1>1 DEF JobsType
<1>2. ASSUME NEW s \in Slots, PipelineStarts(s) PROVE JobsType'
  BY <1>2 DEF PipelineStarts, JobsType
<1>3. ASSUME NEW s \in Slots, NEW status \in {"FAILED", "SUCCESS"}, NEW recorded \in BOOLEAN,
             PipelineEnds(s, status, recorded)
      PROVE  JobsType'
  <2>1. [began |-> Time(s), status |-> status] \in JobRuns
    BY DEF JobRuns
  <2>2. runs' \subseteq runs \cup {[began |-> Time(s), status |-> status]}
    BY <1>3 DEF PipelineEnds
  <2>3. running' \subseteq running /\ hb' = hb /\ reported' = reported
    BY <1>3 DEF PipelineEnds
  <2>4. QED BY <2>1, <2>2, <2>3 DEF JobsType
<1>4. CASE HeartbeatRead
  <2>1. PICK s \in Slots : hb' \in {At("record", s), At("report", s)}
    BY <1>4 DEF HeartbeatRead, LastDue
  <2>2. hb'.step \in {"report", "record"} /\ hb'.slot \in Slots
    BY <2>1 DEF At
  <2>3. QED BY <1>4, <2>2 DEF HeartbeatRead, JobsType
<1>5. ASSUME NEW s \in Slots, HeartbeatReports(s) PROVE JobsType'
  <2>1. hb'.step = "record" /\ hb'.slot = s
    BY <1>5 DEF HeartbeatReports, At
  <2>2. QED BY <1>5, <2>1 DEF HeartbeatReports, JobsType
<1>6. CASE HeartbeatRecords
  BY <1>6 DEF HeartbeatRecords, JobsType
<1>7. CASE Cleanup
  BY <1>7 DEF Cleanup, JobsType
<1>8. CASE Tick
  BY <1>1, <1>8 DEF Tick
<1>9. CASE HeartbeatRestart
  BY <1>9 DEF HeartbeatRestart, JobsType
<1>10. CASE UNCHANGED heartbeatVars
  BY <1>1, <1>10 DEF heartbeatVars
<1>11. QED BY <1>2, <1>3, <1>4, <1>5, <1>6, <1>7, <1>8, <1>9, <1>10 DEF HeartbeatMoves

-----------------------------------------------------------------------------
(* The stacks: what a handler's step makes of one.                         *)

LEMMA HandlersExist == Len(Handlers) \in Nat \ {0}
<1>1. Handlers \in Seq(STRING) /\ \E i \in DOMAIN Handlers : Handlers[i] = "email"
  BY AlertsAssumption DEF Range
<1>2. Len(Handlers) \in Nat /\ DOMAIN Handlers = 1..Len(Handlers)
  BY <1>1
<1>3. QED BY <1>1, <1>2

LEMMA PushedType ==
  ASSUME NEW q \in Seq(Records), NEW m \in Messages
  PROVE  Pushed(q, m) \in Seq(Records)
<1>1. [msg |-> m, at |-> 1, inside |-> FALSE] \in Records
  BY HandlersExist DEF Records
<1>2. QED BY <1>1 DEF Pushed

LEMMA PassedType ==
  ASSUME NEW r \in Records, r.at < Len(Handlers)
  PROVE  Passed(r) \in Records
<1>1. r.at + 1 \in 1..Len(Handlers)
  BY HandlersExist DEF Records
<1>2. QED BY <1>1 DEF Passed, Records

LEMMA LeftType ==
  ASSUME NEW q \in Seq(Records)
  PROVE  Left(q) \in Seq(Records)
<1> DEFINE goesOn == {i \in DOMAIN q : q[i].at < Len(Handlers)}
           n == Max(goesOn)
<1>1. Left(q) = IF goesOn = {} THEN <<>> ELSE [SubSeq(q, 1, n) EXCEPT ![n] = Passed(@)]
  BY DEF Left
<1>2. CASE goesOn = {}
  BY <1>1, <1>2
<1>3. ASSUME goesOn # {} PROVE Left(q) \in Seq(Records)
  <2>1. Len(q) \in Nat /\ goesOn \in SUBSET (0..Len(q))
    OBVIOUS
  <2>2. n \in goesOn
    BY <1>3, <2>1, MaxFact
  <2>3. n \in 1..Len(q) /\ q[n] \in Records /\ q[n].at < Len(Handlers)
    BY <2>2
  <2> HIDE DEF goesOn, n
  <2>4. /\ SubSeq(q, 1, n) \in Seq(Records) /\ Len(SubSeq(q, 1, n)) = n
        /\ SubSeq(q, 1, n)[n] = q[n]
    BY <2>3
  <2>5. Passed(q[n]) \in Records
    BY <2>3, PassedType
  <2>6. [SubSeq(q, 1, n) EXCEPT ![n] = Passed(q[n])] \in Seq(Records)
    BY <2>3, <2>4, <2>5
  <2>7. QED BY <1>1, <1>3, <2>4, <2>6
<1>4. QED BY <1>2, <1>3

LEMMA TopType ==
  ASSUME StackType, NEW t \in Threads, ~Quiet(t)
  PROVE  /\ stack[t] \in Seq(Records) /\ Len(stack[t]) \in 1..Len(stack[t])
         /\ Top(t) \in Records
BY DEF StackType, Quiet, Top

(* Where a thread's stack comes from, whatever it does in a handler.       *)
StackMoves(t) ==
  \/ GoesIn(t) /\ ~Quiet(t)
  \/ Leaves(t)
  \/ \E m \in Messages : stack' = [stack EXCEPT ![t] = Pushed(@, m)]

LEMMA StackMoved ==
  ASSUME StackType, NEW t \in Threads, StackMoves(t)
  PROVE  StackType'
<1>1. ASSUME NEW q \in Seq(Records), stack' = [stack EXCEPT ![t] = q] PROVE StackType'
  BY <1>1 DEF StackType
<1>2. stack[t] \in Seq(Records)
  BY DEF StackType
<1>3. CASE GoesIn(t) /\ ~Quiet(t)
  <2> DEFINE n == Len(stack[t])
             q == [stack[t] EXCEPT ![n] = [stack[t][n] EXCEPT !.inside = TRUE]]
  <2>1. n \in 1..Len(stack[t]) /\ stack[t][n] \in Records
    BY <1>3, TopType DEF Top
  <2>2. [stack[t][n] EXCEPT !.inside = TRUE] \in Records
    BY <2>1 DEF Records
  <2>3. q \in Seq(Records)
    BY <1>2, <2>1, <2>2
  <2>4. stack' = [stack EXCEPT ![t] = q]
    BY <1>3 DEF GoesIn, StackType
  <2> HIDE DEF q
  <2>5. QED BY <1>1, <2>3, <2>4
<1>4. CASE Leaves(t)
  <2>1. stack' = [stack EXCEPT ![t] = Left(stack[t])]
    BY <1>4 DEF Leaves
  <2>2. QED BY <1>1, <1>2, <2>1, LeftType
<1>5. ASSUME NEW m \in Messages, stack' = [stack EXCEPT ![t] = Pushed(@, m)]
      PROVE  StackType'
  <2>1. stack' = [stack EXCEPT ![t] = Pushed(stack[t], m)]
    BY <1>5
  <2>2. QED BY <1>1, <1>2, <2>1, PushedType
<1>6. QED BY <1>3, <1>4, <1>5 DEF StackMoves

LEMMA Logs ==
  ASSUME StackType, NEW t \in Threads, NEW m \in Messages, LogError(t, m)
  PROVE  StackType'
<1>1. stack' = [stack EXCEPT ![t] = Pushed(@, m)]
  BY DEF LogError, Quiet
<1>2. QED BY <1>1, StackMoved DEF StackMoves

LEMMA HandlerMoves ==
  ASSUME StackType, StoresType, NEW t \in Threads, HandlerStep(t)
  PROVE  StackMoves(t) /\ StoresType'
<1>1. ASSUME UNCHANGED <<recent, failures, off>> PROVE StoresType'
  BY <1>1 DEF StoresType
<1>2. CASE MailSkips(t) \/ MailSent(t)
  BY <1>1, <1>2 DEF MailSkips, MailSent, StackMoves
<1>3. CASE MailBegins(t)
  <2>1. ~Quiet(t) /\ GoesIn(t) /\ Top(t).msg \in Messages
    BY <1>3, TopType DEF MailBegins, Arrives, Records
  <2>2. StoresType'
    BY <1>3, <2>1 DEF MailBegins, StoresType
  <2>3. QED BY <2>1, <2>2 DEF StackMoves
<1>4. CASE MailFails(t)
  <2>1. Refusal(Top(t).msg) \in Messages
    BY <1>4, TopType, AlertsAssumption DEF MailFails, Mailing, Records
  <2>2. QED BY <1>1, <1>4, <2>1 DEF MailFails, StackMoves
<1>5. ASSUME NEW s \in Stores, StoreSkips(t, s) \/ StoreBegins(t, s)
      PROVE  StackMoves(t) /\ StoresType'
  BY <1>1, <1>5 DEF StoreSkips, StoreBegins, Arrives, StackMoves
<1>6. ASSUME NEW s \in Stores, StoreWrites(t, s)
      PROVE  StackMoves(t) /\ StoresType'
  BY <1>6, AlertsAssumption DEF StoreWrites, StackMoves, StoresType
<1>7. ASSUME NEW s \in Stores, StoreFails(t, s)
      PROVE  StackMoves(t) /\ StoresType'
  <2>1. StackMoves(t)
    BY <1>7, AlertsAssumption DEF StoreFails, LeavesOrComplains, StackMoves
  <2>2. recent' = recent /\ off' \subseteq off \cup {s}
    BY <1>7 DEF StoreFails
  <2>3. failures[s] \in 0..(MaxFailures - 1) /\ MaxFailures \in Nat \ {0}
    BY AlertsAssumption DEF StoresType
  <2>4. (IF failures[s] + 1 >= MaxFailures THEN 0 ELSE failures[s] + 1) \in 0..(MaxFailures - 1)
    BY <2>3
  <2>5. failures' = [failures EXCEPT ![s] =
                       IF failures[s] + 1 >= MaxFailures THEN 0 ELSE failures[s] + 1]
    BY <1>7 DEF StoreFails
  <2>6. QED BY <2>1, <2>2, <2>4, <2>5 DEF StoresType
<1>8. QED BY <1>2, <1>3, <1>4, <1>5, <1>6, <1>7 DEF HandlerStep

-----------------------------------------------------------------------------
LEMMA TypeInit == Init => TypeInv
<1> SUFFICES ASSUME Init PROVE TypeInv
  OBVIOUS
<1>1. ClockInv /\ JobsType
  BY HeartbeatAssumption DEF Init, HeartbeatInit, ClockInv, Time, JobsType, Idle
<1>2. StackType
  BY DEF Init, AlertsInit, StackType
<1>3. StoresType
  BY AlertsAssumption DEF Init, AlertsInit, StoresType
<1>4. CountsType
  BY OperationsAssumption DEF Init, CountsType
<1>5. QED BY <1>1, <1>2, <1>3, <1>4 DEF TypeInv

LEMMA AlertsTypeStep ==
  ASSUME StackType, StoresType, [Next]_vars
  PROVE  StackType' /\ StoresType'
<1>1. ASSUME UNCHANGED <<stack, recent, failures, off>> PROVE StackType' /\ StoresType'
  BY <1>1 DEF StackType, StoresType
<1>2. ASSUME UNCHANGED <<recent, failures, off>> PROVE StoresType'
  BY <1>2 DEF StoresType
<1>3. ASSUME NEW s \in Slots, PipelineStep(s) PROVE StackType' /\ StoresType'
  <2>1. CASE StageRaises(s)
    <3>1. StackType'
      BY <2>1, Logs, OperationsAssumption DEF StageRaises
    <3>2. QED BY <1>2, <2>1, <3>1 DEF StageRaises, LogError
  <2>2. CASE ~StageRaises(s)
    BY <1>1, <1>3, <2>2 DEF PipelineStep, PipelineFails, PipelineSucceeds, quiet, alertVars
  <2>3. QED BY <2>1, <2>2
<1>4. CASE HeartbeatStep
  <2>1. ASSUME NEW s \in Slots, LogError("heartbeat", Missed(s))
        PROVE  StackType' /\ StoresType'
    <3>1. StackType'
      BY <2>1, Logs, OperationsAssumption
    <3>2. QED BY <1>2, <2>1, <3>1 DEF LogError
  <2>2. CASE UNCHANGED quiet
    BY <1>1, <2>2 DEF quiet, alertVars
  <2>3. QED BY <1>4, <2>1, <2>2 DEF HeartbeatStep
<1>5. CASE Cleanup /\ UNCHANGED <<failing, quiet>>
  BY <1>1, <1>5 DEF quiet, alertVars
<1>6. CASE Passing
  BY <1>1, <1>6 DEF Passing, quiet, alertVars
<1>7. ASSUME NEW t \in Threads, Handling(t) PROVE StackType' /\ StoresType'
  BY <1>7, HandlerMoves, StackMoved DEF Handling
<1>8. CASE TimeStep
  <2>1. ASSUME NEW s \in Stores, CooldownOver(s) PROVE StackType' /\ StoresType'
    BY <2>1 DEF CooldownOver, StackType, StoresType
  <2>2. ASSUME NEW m \in Messages, WindowOver(m) PROVE StackType' /\ StoresType'
    BY <2>2 DEF WindowOver, StackType, StoresType
  <2>3. QED BY <1>8, <2>1, <2>2 DEF TimeStep
<1>9. CASE Restart
  BY <1>9, AlertsAssumption DEF Restart, AlertsRestart, StackType, StoresType
<1>10. CASE UNCHANGED vars
  BY <1>1, <1>10 DEF vars, alertVars
<1>11. QED BY <1>3, <1>4, <1>5, <1>6, <1>7, <1>8, <1>9, <1>10 DEF Next

LEMMA CountsStep ==
  ASSUME JobsType, CountsType, [Next]_vars
  PROVE  CountsType'
<1>1. ASSUME UNCHANGED <<running, failing, errors, restarts>> PROVE CountsType'
  BY <1>1 DEF CountsType
<1>2. ASSUME NEW s \in Slots, PipelineStep(s) PROVE CountsType'
  <2>1. CASE PipelineStarts(s) /\ UNCHANGED <<failing, quiet>>
    BY <2>1 DEF PipelineStarts, quiet, CountsType
  <2>2. CASE StageRaises(s)
    <3>1. /\ running' = running /\ restarts' = restarts
          /\ failing' = s /\ s \in running
      BY <2>2 DEF StageRaises, heartbeatVars
    <3>2. errors' = errors + 1 /\ errors < MaxErrors
      BY <2>2 DEF StageRaises
    <3>3. QED BY <3>1, <3>2, OperationsAssumption DEF CountsType
  <2>3. CASE PipelineFails(s)
    BY <2>3 DEF PipelineFails, quiet, CountsType
  <2>4. CASE PipelineSucceeds(s)
    BY <2>4 DEF PipelineSucceeds, PipelineEnds, quiet, CountsType
  <2>5. QED BY <1>2, <2>1, <2>2, <2>3, <2>4 DEF PipelineStep
<1>3. CASE HeartbeatStep
  BY <1>1, <1>3 DEF HeartbeatStep, HeartbeatRead, HeartbeatReports, HeartbeatRecords, quiet
<1>4. CASE Cleanup /\ UNCHANGED <<failing, quiet>>
  BY <1>1, <1>4 DEF Cleanup, quiet
<1>5. CASE Passing
  BY <1>1, <1>5 DEF Passing, Tick, quiet
<1>6. ASSUME NEW t \in Threads, Handling(t) PROVE CountsType'
  BY <1>1, <1>6 DEF Handling, heartbeatVars
<1>7. CASE TimeStep /\ UNCHANGED <<heartbeatVars, failing, errors, restarts>>
  BY <1>1, <1>7 DEF heartbeatVars
<1>8. CASE Restart
  BY <1>8, OperationsAssumption DEF Restart, CountsType
<1>9. CASE UNCHANGED vars
  BY <1>1, <1>9 DEF vars, heartbeatVars
<1>10. QED BY <1>2, <1>3, <1>4, <1>5, <1>6, <1>7, <1>8, <1>9 DEF Next

LEMMA TypeImplied == TypeInv => TypeOK
<1> SUFFICES ASSUME TypeInv PROVE TypeOK
  OBVIOUS
<1>1. HeartbeatTypeOK
  BY HeartbeatAssumption DEF TypeInv, ClockInv, JobsType, HeartbeatTypeOK, Time
<1>2. ASSUME NEW t \in Threads, NEW i \in DOMAIN stack[t] PROVE stack[t][i] \in Records
  <2>1. stack[t] \in Seq(Records)
    BY DEF TypeInv, StackType
  <2>2. QED BY <1>2, <2>1
<1>3. AlertsTypeOK
  BY <1>2 DEF TypeInv, StoresType, AlertsTypeOK
<1>4. QED BY <1>1, <1>3 DEF TypeInv, CountsType, TypeOK

(* Jobs, records of the logging stacks and counters stay within what the   *)
(* scheduler, the handlers and the pipeline produce: a run that logs its   *)
(* failure is still going on, and a record is only ever at one of the      *)
(* installed handlers (install_handlers, run_full_pipeline).               *)
THEOREM TypeCorrect == Spec => []TypeOK
<1>1. TypeInv /\ [Next]_vars => TypeInv'
  BY StepsOfHeartbeat, ClockStep, JobsStep, AlertsTypeStep, CountsStep DEF TypeInv
<1>2. QED BY <1>1, TypeInit, TypeImplied, PTL DEF Spec
=============================================================================
