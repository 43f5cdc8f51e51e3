------------------------------ MODULE AlertRows ------------------------------
(***************************************************************************)
(* The alert rows of the day report: one per notification_logs row, with   *)
(* the delivery_outcomes row of the same family and stock that stands at   *)
(* its place in the order sent. Two jobs write alerts, and only one of     *)
(* them writes outcomes.                                                   *)
(***************************************************************************)
EXTENDS Naturals, Sequences

CONSTANTS
  AlertPairs,  \* families with a stock of theirs
  MaxAlerts    \* bound: alerts and failed alerts of a pair on one day

ASSUME AlertRowsAssumption == MaxAlerts \in Nat

VARIABLES
  logs,     \* notification_logs of each pair; history: the reason it was sent with
  queue,    \* its delivery_outcomes of channel "alert"
  story     \* status of the story row about the stock, or "no row"

alertVars == <<logs, queue, story>>

StoryStatuses == {"pending", "ready", "no_clear_cause", "failed", "no row"}
AlertReasons == {"ready", "below_bar"}

AlertInit ==
  /\ logs = [p \in AlertPairs |-> <<>>]
  /\ queue = [p \in AlertPairs |-> <<>>]
  /\ story \in [AlertPairs -> StoryStatuses]

(* _send_one_alert: both rows in the commit of the intraday run.           *)
IntradayAlert(p) ==
  /\ Len(logs[p]) < MaxAlerts /\ Len(queue[p]) < MaxAlerts
  /\ \E reason \in AlertReasons :
       /\ logs' = [logs EXCEPT ![p] = Append(@, reason)]
       /\ queue' = [queue EXCEPT ![p] = Append(@, reason)]
  /\ UNCHANGED story

(* The sending raises: an outcome and no notification_logs row.            *)
IntradayAlertFails(p) ==
  /\ Len(queue[p]) < MaxAlerts
  /\ queue' = [queue EXCEPT ![p] = Append(@, "send_failed")]
  /\ UNCHANGED <<logs, story>>

(* run_notify: a new high or low, and no outcome.                          *)
BatchAlert(p) ==
  /\ Len(logs[p]) < MaxAlerts
  /\ logs' = [logs EXCEPT ![p] = Append(@, "not recorded")]
  /\ UNCHANGED <<queue, story>>

AlertNext ==
  \E p \in AlertPairs : IntradayAlert(p) \/ IntradayAlertFails(p) \/ BatchAlert(p)

AlertSpec == AlertInit /\ [][AlertNext]_alertVars

-----------------------------------------------------------------------------
(* _LEGACY_STATUS_REASON, for a row without an outcome.                    *)
FromStatus(status) ==
  CASE status = "pending" -> "still_generating"
    [] status = "failed" -> "generation_failed"
    [] status \in {"ready", "no_clear_cause"} -> status
    [] status = "no row" -> "below_bar"

(* take(): the n-th alert of a pair takes its n-th outcome.                *)
AlertRow(p, n) ==
  IF n <= Len(queue[p]) THEN [reason |-> queue[p][n], inferred |-> FALSE]
  ELSE [reason |-> FromStatus(story[p]), inferred |-> TRUE]

-----------------------------------------------------------------------------
(* Properties.                                                             *)

AlertTypeOK ==
  /\ \A p \in AlertPairs : Len(logs[p]) <= MaxAlerts /\ Len(queue[p]) <= MaxAlerts
  /\ story \in [AlertPairs -> StoryStatuses]

(* delivery_report: recorded outcomes are "queued per (user, ticker) in    *)
(* send order so repeated alerts on the same stock line up with the right  *)
(* one".                                                                   *)
AlertsLineUp ==
  \A p \in AlertPairs : \A n \in DOMAIN logs[p] :
    ~AlertRow(p, n).inferred => AlertRow(p, n).reason = logs[p][n]
=============================================================================
