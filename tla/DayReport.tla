------------------------------ MODULE DayReport ------------------------------
(***************************************************************************)
(* What the admin is told of one trading day, beside what happened: the    *)
(* scheduled jobs and the rows they leave in job_runs, the recap of each   *)
(* family, and the reports of services/diagnostics.py that read all of it  *)
(* back, at any moment of the day. AlertRows is the other half of it.      *)
(*                                                                         *)
(* Each definition named ...Bug is the one after it with a mistake; no     *)
(* specification uses it.                                                  *)
(***************************************************************************)
EXTENDS Integers, Sequences, FiniteSets, SequencesExt

CONSTANTS
  Schedule,    \* expected_jobs: the day's slots in order, [job, due], in half hours
  Recap,       \* audit name of the recap job, whose slot is the last one
  Families,
  DayEnd,      \* bound: the last half hour looked at
  MaxTrouble,  \* bound: restarts, exceptions and rows that cannot be written
  MaxChanges   \* bound: changes of a family's settings

Slots == DOMAIN Schedule
RecapSlot == Len(Schedule)

ASSUME DayReportAssumption ==
  /\ DayEnd \in Nat
  /\ Schedule \in Seq([job : STRING, due : 1..DayEnd]) /\ Schedule # <<>>
  /\ \A i \in Slots : Schedule[i].job = Recap <=> i = RecapSlot
  /\ \A i, k \in Slots : i < k => Schedule[i].due < Schedule[k].due
  /\ MaxTrouble \in Nat /\ MaxChanges \in Nat

(* What keeps a family from getting its recap.                             *)
Gates == {"opted_out", "recap_off", "email_unconfirmed", "no_watchlist"}

VARIABLES
  hour,      \* half hours since the day began
  up,        \* the process runs
  slot,      \* what became of each slot: "ahead", "running" or "over"
  runs,      \* rows of job_runs, [job, start, ok]
  gates,     \* the gates each family has closed
  step,      \* of the recap run: "none", "read", "send", "starters", "end"
  todo,      \* the families it has still to send to
  recapSends,      \* recap_sends
  outcome,   \* delivery_outcomes of the recap, "none" if there is no row
  trouble,   \* restarts, exceptions and failed writes so far
  changes,   \* changes of settings so far
  awake,     \* history: the last half hour the process ran in
  owed,      \* history: the families the recap run read as due one
  moved,     \* history: families that changed a setting after the run had read
  unlucky    \* history: families whose row the recap run could not write

dayVars == <<hour, up, slot, runs, gates, step, todo, recapSends, outcome,
             trouble, changes, awake, owed, moved, unlucky>>
clockVars == <<hour, up, slot, runs, awake>>
recapVars == <<step, todo, recapSends, outcome, owed, unlucky>>
familyVars == <<gates, changes, moved>>

DayInit ==
  /\ hour = 0 /\ up = TRUE
  /\ slot = [i \in Slots |-> "ahead"]
  /\ runs = {}
  /\ gates \in [Families -> SUBSET Gates]
  /\ step = "none" /\ todo = {} /\ recapSends = {}
  /\ outcome = [f \in Families |-> "none"]
  /\ trouble = 0 /\ changes = 0
  /\ awake = 0 /\ owed = {} /\ moved = {} /\ unlucky = {}

Trouble == trouble < MaxTrouble /\ trouble' = trouble + 1

-----------------------------------------------------------------------------
(* The scheduler.                                                          *)

SlotBegins(i) ==
  /\ up /\ slot[i] = "ahead" /\ Schedule[i].due = hour
  /\ slot' = [slot EXCEPT ![i] = "running"]
  /\ step' = IF i = RecapSlot THEN "read" ELSE step
  /\ UNCHANGED <<hour, up, runs, awake, todo, recapSends, outcome, owed, unlucky,
                 trouble, familyVars>>

(* record_job_run, best effort, when the run is over.                      *)
Ends(i, row) ==
  /\ slot[i] = "running"
  /\ slot' = [slot EXCEPT ![i] = "over"]
  /\ runs' = runs \cup row
  /\ UNCHANGED <<hour, up, awake>>

Recorded(i, ok) == {[job |-> Schedule[i].job, start |-> Schedule[i].due, ok |-> ok]}

PipelineEnds(i) ==
  /\ i # RecapSlot
  /\ \/ \E ok \in BOOLEAN : Ends(i, Recorded(i, ok)) /\ UNCHANGED trouble
     \/ Ends(i, {}) /\ Trouble
  /\ UNCHANGED <<recapVars, familyVars>>

Restart ==
  /\ up /\ Trouble
  /\ up' = FALSE
  /\ slot' = [i \in Slots |-> IF slot[i] = "running" THEN "over" ELSE slot[i]]
  /\ step' = "none" /\ todo' = {}
  /\ UNCHANGED <<hour, runs, awake, recapSends, outcome, owed, unlucky, familyVars>>

ProcessStarts ==
  /\ ~up
  /\ up' = TRUE /\ awake' = hour
  /\ UNCHANGED <<hour, slot, runs, trouble, recapVars, familyVars>>

(* A slot nobody was there to begin is gone.                               *)
HourPasses ==
  /\ hour < DayEnd
  /\ \A i \in Slots : up /\ Schedule[i].due = hour => slot[i] # "ahead"
  /\ hour' = hour + 1
  /\ awake' = IF up THEN hour + 1 ELSE awake
  /\ slot' = [i \in Slots |-> IF slot[i] = "ahead" /\ Schedule[i].due = hour
                              THEN "over" ELSE slot[i]]
  /\ UNCHANGED <<up, runs, trouble, recapVars, familyVars>>

-----------------------------------------------------------------------------
(* run_watchlist_recap.                                                    *)

Due == {f \in Families : gates[f] = {} /\ f \notin recapSends}
StarterDue == {f \in Families : gates[f] = {"no_watchlist"} /\ f \notin recapSends}

(* A weekday without closes: the run ends without a row. Else the families *)
(* none of whose stocks has a price are recorded and dropped.              *)
RecapReads ==
  /\ step = "read"
  /\ \/ /\ Ends(RecapSlot, {})
        /\ step' = "none"
        /\ UNCHANGED <<todo, outcome, owed>>
     \/ /\ \E priced \in SUBSET Due :
             /\ outcome' = [f \in Families |->
                              IF f \in Due \ priced THEN "no_prices" ELSE outcome[f]]
             /\ todo' = priced
        /\ owed' = Due
        /\ step' = "send"
        /\ UNCHANGED clockVars
  /\ UNCHANGED <<recapSends, unlucky, trouble, familyVars>>

Sends(f) ==
  /\ step \in {"send", "starters"} /\ f \in todo
  /\ todo' = todo \ {f}
  /\ UNCHANGED <<step, owed, clockVars, familyVars>>

(* The email has left, or the mail server refused it, which send_email     *)
(* keeps to itself; its rows are committed; a starter recap leaves no      *)
(* outcome.                                                                *)
RecapSent(f) ==
  /\ Sends(f)
  /\ recapSends' = recapSends \cup {f}
  /\ outcome' = IF step = "send" THEN [outcome EXCEPT ![f] = "ready"] ELSE outcome
  /\ UNCHANGED <<unlucky, trouble>>

(* It raised, before or after the email left: send_failed is recorded,     *)
(* unless that fails too, or another run's row was there first.            *)
RecapFails(f) ==
  /\ Sends(f)
  /\ \/ outcome' = [outcome EXCEPT ![f] = "send_failed"] /\ UNCHANGED unlucky
     \/ UNCHANGED outcome /\ unlucky' = unlucky \cup {f}
  /\ Trouble
  /\ UNCHANGED recapSends

StartersRead ==
  /\ step = "send" /\ todo = {}
  /\ step' = "starters"
  /\ todo' = StarterDue
  /\ owed' = owed \cup StarterDue
  /\ UNCHANGED <<recapSends, outcome, unlucky, trouble, clockVars, familyVars>>

RecapEnds ==
  /\ step = "starters" /\ todo = {}
  /\ step' = "none"
  /\ \/ Ends(RecapSlot, Recorded(RecapSlot, TRUE)) /\ UNCHANGED trouble
     \/ Ends(RecapSlot, {}) /\ Trouble
  /\ UNCHANGED <<todo, recapSends, outcome, owed, unlucky, familyVars>>

(* Anything outside the sending of one email raises: no row is written.    *)
RecapRaises ==
  /\ step # "none" /\ Trouble
  /\ step' = "none" /\ todo' = {}
  /\ Ends(RecapSlot, {})
  /\ UNCHANGED <<recapSends, outcome, owed, unlucky, familyVars>>

-----------------------------------------------------------------------------
ChangesSettings(f) ==
  /\ changes < MaxChanges /\ changes' = changes + 1
  /\ \E g \in Gates :
       gates' = [gates EXCEPT ![f] = IF g \in @ THEN @ \ {g} ELSE @ \cup {g}]
  /\ moved' = IF slot[RecapSlot] = "ahead" \/ step = "read" THEN moved ELSE moved \cup {f}
  /\ UNCHANGED <<trouble, clockVars, recapVars>>

RecapStep ==
  \/ RecapReads \/ StartersRead \/ RecapEnds \/ RecapRaises
  \/ \E f \in Families : RecapSent(f) \/ RecapFails(f)

DayNext ==
  \/ \E i \in Slots : SlotBegins(i) \/ PipelineEnds(i)
  \/ Restart \/ ProcessStarts \/ HourPasses
  \/ RecapStep
  \/ \E f \in Families : ChangesSettings(f)

DaySpec == DayInit /\ [][DayNext]_dayVars

-----------------------------------------------------------------------------
(* jobs_report: each slot in turn claims the nearest run of its job that   *)
(* no earlier slot has claimed.                                            *)
Away(i, r) == IF r.start < Schedule[i].due THEN Schedule[i].due - r.start
              ELSE r.start - Schedule[i].due

Nearest(i, free) ==
  CHOOSE r \in free : \A q \in free :
    Away(i, r) < Away(i, q) \/ (Away(i, r) = Away(i, q) /\ r.start <= q.start)

FreeBug(i, claimed) == {r \in runs : r.job = Schedule[i].job}
Free(i, claimed) == {r \in runs : r.job = Schedule[i].job} \ claimed

Claim[i \in Slots] ==
  LET free == Free(i, UNION {Claim[k] : k \in 1..(i - 1)})
  IN  IF free = {} THEN {} ELSE {Nearest(i, free)}

(* findings about jobs, without what get_watch holds back because its slot *)
(* has not come yet.                                                       *)
NotDueYet == {i \in Slots : Claim[i] = {} /\ Schedule[i].due > hour}
JobMissing == {i \in Slots : Claim[i] = {}} \ NotDueYet
JobFailed == {i \in Slots : \E r \in Claim[i] : ~r.ok}
JobDrift == {i \in Slots : \E r \in Claim[i] : r.ok /\ Away(i, r) >= 1}

(* _job_missing_evidence: the likeliest cause of a missing slot, from what *)
(* ran around it.                                                          *)
AliveAfter(i) == \E r \in runs : r.start > Schedule[i].due
EarlierRan(i) == \E k \in 1..(i - 1) : Claim[k] # {}

FirstCause(i) ==
  CASE runs # {} /\ AliveAfter(i) -> "job specific"
    [] runs # {} /\ ~AliveAfter(i) /\ EarlierRan(i) -> "died midway"
    [] OTHER -> "asleep"

(* collect_summary and health: the digest counts the rows of the batch     *)
(* instead, whichever slot they are of. Errors in the logs are left out.   *)
Batch == {i \in Slots : i # RecapSlot}
BatchRuns == {r \in runs : r.job # Recap}
Expected == {i \in Batch : Schedule[i].due <= hour}

Health ==
  CASE Expected # {} /\ ~\E r \in BatchRuns : r.ok -> "UNHEALTHY"
    [] (Expected = {} \/ \E r \in BatchRuns : r.ok) /\ \E r \in BatchRuns : ~r.ok -> "DEGRADED"
    [] OTHER -> "HEALTHY"

-----------------------------------------------------------------------------
(* delivery_report.                                                        *)

RecapRun == {r \in runs : r.job = Recap}

(* A recorded outcome of a family without a recap, whichever it is.        *)
RecordedMissBug(f) == outcome[f] = "send_failed"
RecordedMiss(f) == outcome[f] # "none"

MissReason(f) ==
  CASE RecordedMiss(f) -> outcome[f]
    [] ~RecordedMiss(f) /\ "opted_out" \in gates[f] -> "opted_out"
    [] ~RecordedMiss(f) /\ "opted_out" \notin gates[f] /\ "recap_off" \in gates[f]
         -> "recap_off"
    [] ~RecordedMiss(f) /\ gates[f] \cap {"opted_out", "recap_off"} = {} ->
         IF "email_unconfirmed" \in gates[f] THEN "email_unconfirmed"
         ELSE IF "no_watchlist" \in gates[f] THEN "no_watchlist"
         ELSE IF RecapRun = {} THEN "recap_job_missing" ELSE "unexplained"

(* findings about the recaps: the misses somebody must do something about. *)
(* REASONS calls the others no fault, but for an unconfirmed address.      *)
Faults == {"email_unconfirmed", "no_prices", "send_failed", "recap_job_missing", "unexplained"}

RecapFindings ==
  {reason \in Faults : \E f \in Families \ recapSends : MissReason(f) = reason}

-----------------------------------------------------------------------------
(* Properties.                                                             *)

DayTypeOK ==
  /\ hour \in 0..DayEnd /\ awake \in 0..hour /\ slot \in [Slots -> {"ahead", "running", "over"}]
  /\ gates \in [Families -> SUBSET Gates]
  /\ step \in {"none", "read", "send", "starters"}
  /\ todo \subseteq Families /\ recapSends \subseteq Families
  /\ outcome \in [Families -> {"none", "ready", "no_prices", "send_failed"}]
  /\ \A r \in runs : r.start <= hour

(* Three slots record themselves under one name. At every moment the       *)
(* number of slots of a job that are reported missing is the number of its *)
(* slots that came and left no row, each row counts for one slot, and when *)
(* none is missing none is said to have run off its time. Which slot is    *)
(* missing, and the drift of the others, is not said rightly: a slot       *)
(* without a run claims the next one's (jobs_report, get_watch). Of a slot *)
(* missed because the process was gone, and that did not come back, the    *)
(* job is not the first to be blamed (_job_missing_evidence); of one that  *)
(* came back the same day it may be. The digest agrees: no batch run that  *)
(* the findings call failed or that alone was due and missed leaves the    *)
(* day HEALTHY, though a slot missed beside another may (health).          *)
MissedSlotsCounted ==
  \A job \in {Schedule[i].job : i \in Slots} :
    LET came == {i \in Slots : Schedule[i].job = job /\ Schedule[i].due <= hour}
        rows == {r \in runs : r.job = job}
        missing == {i \in JobMissing : Schedule[i].job = job}
    IN  /\ Cardinality(missing) = Cardinality(came) - Cardinality(rows)
        /\ Cardinality({i \in JobFailed : Schedule[i].job = job})
             = Cardinality({r \in rows : ~r.ok})
        /\ missing = {} => {i \in JobDrift : Schedule[i].job = job} = {}
        /\ \A i \in missing :
             awake < Schedule[i].due => FirstCause(i) \in {"asleep", "died midway"}
        /\ JobFailed \cap Batch # {} => Health # "HEALTHY"
        /\ Health = "UNHEALTHY" <=> Expected # {} /\ Expected \subseteq JobMissing \cup JobFailed

(* After the recap job, a family that was due a recap and has none is      *)
(* shown the reason the job recorded, or that the job left no row of its   *)
(* run; nobody is told to investigate unless a row could not be written    *)
(* or the family changed its settings since; and it raises a finding       *)
(* (delivery_report, run_watchlist_recap, findings). A family without      *)
(* stocks is the exception: its watchlist is said to be empty, which is no *)
(* fault, though the starter recap was due.                                *)
MissExplained ==
  slot[RecapSlot] = "over" =>
    \A f \in Families \ (recapSends \cup moved) :
      /\ MissReason(f) = "unexplained" => f \in unlucky
      /\ f \in owed => MissReason(f) \in {"no_prices", "send_failed", "recap_job_missing",
                                          "unexplained", "no_watchlist"}
      /\ f \in owed /\ MissReason(f) = "recap_job_missing" => RecapRun = {}
      /\ f \in owed /\ gates[f] = {} => MissReason(f) \in RecapFindings
      /\ outcome[f] # "none" => f \in owed
=============================================================================
