----------------------------- MODULE RangeAlerts -----------------------------
(***************************************************************************)
(* The intraday runs over one stock (jobs/intraday.py): the move against   *)
(* the previous close, the families whose band it leaves, the alerts, and  *)
(* the rows of notification_logs that keep the next runs quiet for         *)
(* DEDUP_WINDOW. The families are chosen before the run waits for stories, *)
(* the alerts leave after it, and the rows come with the one commit at the *)
(* end. The scheduler never starts a run while another is going. After the *)
(* close the recap tells the families with a wide band about the alerts    *)
(* that did not go off (jobs/recap.py).                                    *)
(*                                                                         *)
(* Each definition named ...Bug is the one after it with a mistake; no     *)
(* specification uses it.                                                  *)
(***************************************************************************)
EXTENDS Integers, FiniteSets

CONSTANTS
  Watchers,     \* families with a band for the stock
  PctLow, PctHigh,  \* the band of each
  Moves,        \* moves in percent against the previous close
  CloseAges,    \* days since the newest stored close; NoClose: there is none
  PREV_CLOSE_MAX_AGE_DAYS,
  OpenAt, CloseAt,  \* intraday_market_open, intraday_market_close
  LongestRun,   \* bound: how long a run lasts, waiting for stories (which the
                \* code bounds), fetching and mailing (which it does not)
  DEDUP_WINDOW,
  SuggestedBand, \* default_rule_band_pct
  RecapAt,      \* when the recap starts
  LastMinute    \* bound: how long the clock runs

NoClose == 0

ASSUME RangeAlertsAssumption ==
  /\ PctLow \in [Watchers -> Int] /\ PctHigh \in [Watchers -> Int]
  /\ Moves \subseteq Int /\ CloseAges \subseteq Nat
  /\ {PREV_CLOSE_MAX_AGE_DAYS, OpenAt, CloseAt, RecapAt, LastMinute} \subseteq Nat
  /\ SuggestedBand \in Nat /\ RecapAt > CloseAt + LongestRun
  /\ LongestRun \in Nat /\ DEDUP_WINDOW \in Nat \ {0}

VARIABLES
  minute,    \* the clock
  capture,   \* the run that is going
  notified,  \* notification_logs: when the rows of each family were written
  raised,    \* history: the query of _already_fired_recently found two rows
  alertsOf,  \* history: the alerts of each family: `came` if the mail did,
             \* `kept` once their rows are
  lastRun,   \* history: the last run that came to its end, and who was outside
  quiet      \* history: when each family was told that its alert did not go off

rangeVars == <<minute, capture, notified, raised, alertsOf, lastRun, quiet>>

NotRunning == [step |-> "none"]
Alert(at, kept, came) == [at |-> at, kept |-> kept, came |-> came]

RangeInit ==
  /\ minute = 0 /\ capture = NotRunning
  /\ notified = [f \in Watchers |-> {}]
  /\ alertsOf = [f \in Watchers |-> {}]
  /\ raised = FALSE
  /\ lastRun = [at |-> 0, outside |-> {}]
  /\ quiet = [f \in Watchers |-> 0]

(* is_market_hours_now, on a weekday.                                      *)
MarketHours == minute \in OpenAt..CloseAt

(* _previous_day_close: a stored close of any age is not good enough.      *)
HasBaseline(age, providerAnswers) ==
  (age # NoClose /\ age <= PREV_CLOSE_MAX_AGE_DAYS) \/ providerAnswers

OutsideBand(f, pct) == pct < PctLow[f] \/ pct > PctHigh[f]

(* _already_fired_recently.                                                *)
RecentRows(f) == {t \in notified[f] : t >= minute - DEDUP_WINDOW}

-----------------------------------------------------------------------------
(* A price and a baseline: _detect_range_alerts picks the families that    *)
(* are confirmed, subscribed and have the rule enabled, and are outside.   *)
(* Without either the run does nothing for the stock.                      *)
CaptureRange ==
  /\ capture = NotRunning /\ MarketHours
  /\ \E pct \in Moves, reachable \in SUBSET Watchers, age \in CloseAges, answers \in BOOLEAN :
       LET outside == {f \in reachable : OutsideBand(f, pct)}
       IN  /\ HasBaseline(age, answers)
           /\ IF \E f \in outside : Cardinality(RecentRows(f)) > 1
              THEN /\ raised' = TRUE
                   /\ UNCHANGED capture
              ELSE /\ capture' = [step |-> "sends", at |-> minute, outside |-> outside,
                                  due |-> {f \in outside : RecentRows(f) = {}}, written |-> {}]
                   /\ UNCHANGED raised
  /\ UNCHANGED <<minute, notified, alertsOf, lastRun, quiet>>

(* _send_one_alert, after the wait of _stories_for. A mail server that     *)
(* refuses the mail or cannot be reached is logged by send_email and not   *)
(* raised: the row is written as for a mail that came. What send_email     *)
(* raises all the same leaves no row, and the next run tries again.        *)
SendRangeAlert(f) ==
  /\ capture.step = "sends" /\ f \in capture.due
  /\ \/ \E came \in BOOLEAN :
          /\ alertsOf' = [alertsOf EXCEPT ![f] = @ \union {Alert(minute, FALSE, came)}]
          /\ capture' = [capture EXCEPT !.due = @ \ {f},
                                        !.written = @ \union {<<f, minute, came>>}]
     \/ /\ capture' = [capture EXCEPT !.due = @ \ {f}, !.outside = @ \ {f}]
        /\ UNCHANGED alertsOf
  /\ UNCHANGED <<minute, notified, raised, lastRun, quiet>>

(* db.commit() writes the rows, which only now get their sent_at.          *)
RowsOf(f) == {m \in capture.written : m[1] = f}
Known(f) == alertsOf[f] \union {Alert(m[2], TRUE, m[3]) : m \in RowsOf(f)}

RowsWritten(stamp) ==
  /\ capture.step = "sends" /\ capture.due = {}
  /\ notified' = [f \in Watchers |->
       IF RowsOf(f) = {} THEN notified[f] ELSE notified[f] \union {stamp}]
  /\ alertsOf' = [f \in Watchers |-> Known(f)]
  /\ lastRun' = [at |-> capture.at, outside |-> capture.outside]
  /\ capture' = NotRunning
  /\ UNCHANGED <<minute, raised, quiet>>

CommitRangeBug == RowsWritten(capture.at)
CommitRange == RowsWritten(minute)

(* The commit fails, something before it raises, or the process restarts.  *)
CaptureLost ==
  /\ capture # NotRunning
  /\ capture' = NotRunning
  /\ UNCHANGED <<minute, notified, raised, alertsOf, lastRun, quiet>>

(* _quiet_rules: a band wider than the one suggested, a move inside it and *)
(* no alert about the stock today, to the recap's knowledge.               *)
AlertedToday(f) == notified[f] # {}
QuietRule(f, pct) ==
  /\ ~AlertedToday(f) /\ ~OutsideBand(f, pct)
  /\ PctLow[f] < -SuggestedBand \/ PctHigh[f] > SuggestedBand

RecapTells ==
  /\ minute >= RecapAt
  /\ \E pct \in Moves, f \in Watchers :
       /\ quiet[f] = 0 /\ QuietRule(f, pct)
       /\ quiet' = [quiet EXCEPT ![f] = minute]
  /\ UNCHANGED <<minute, capture, notified, raised, alertsOf, lastRun>>

(* The wait for stories is bounded (_stories_for), fetching and mailing    *)
(* are not: that a run ends within LongestRun is assumed.                  *)
MinutePasses ==
  /\ minute < LastMinute /\ minute' = minute + 1
  /\ capture # NotRunning => minute < capture.at + LongestRun
  /\ UNCHANGED <<capture, notified, raised, alertsOf, lastRun, quiet>>

RangeNext ==
  \/ CaptureRange \/ CommitRange \/ CaptureLost \/ RecapTells \/ MinutePasses
  \/ \E f \in Watchers : SendRangeAlert(f)

RangeSpec == RangeInit /\ [][RangeNext]_rangeVars

-----------------------------------------------------------------------------
(* Properties.                                                             *)

RangeTypeOK ==
  /\ minute \in 0..LastMinute
  /\ capture.step \in {"none", "sends"}
  /\ \A f \in Watchers : \A m \in alertsOf[f] : m.at \in 0..minute

(* A family is not alerted about the same stock twice within DEDUP_WINDOW, *)
(* however long the first alert waited for its story and however often its *)
(* run was lost before, unless its row was lost too; a family that was     *)
(* outside its band in a run that came to its end was told then or within  *)
(* the window, or its mail was refused then and the row keeps the family   *)
(* quiet, for no longer than the window: nothing retries a refused mail    *)
(* before; the query that finds the earlier row never finds two, which     *)
(* would end every run for hours; and the recap says that an alert did not *)
(* go off only if none was sent, or its row was lost                       *)
(* (_already_fired_recently, send_email, _quiet_rules).                    *)
AlertsSpaced ==
  /\ \A f \in Watchers : \A m, n \in alertsOf[f] :
       m.kept /\ n.at > m.at => n.at - m.at > DEDUP_WINDOW
  /\ \A f \in lastRun.outside : \E m \in alertsOf[f] :
       (m.came \/ m.kept) /\ m.at >= lastRun.at - DEDUP_WINDOW - LongestRun
  /\ ~raised
  /\ \A f \in Watchers : quiet[f] # 0 => \A m \in alertsOf[f] : m.kept => m.at > quiet[f]
=============================================================================
