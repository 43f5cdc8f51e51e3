------------------------------- MODULE Triage -------------------------------
(***************************************************************************)
(* What the admin has decided about each finding (services/triage.py): the *)
(* rows of finding_states, written by everybody who looks at the findings  *)
(* of the day (GET /admin/watch and the daily digest) and by the admin's   *)
(* decisions. Every writer reads the rows and writes them back later, a    *)
(* column only if it changed it, so that writers of one row may cross.     *)
(*                                                                         *)
(* Each definition named ...Bug is the one after it with a mistake; no     *)
(* specification uses it.                                                  *)
(***************************************************************************)
EXTENDS Naturals, FiniteSets

CONSTANTS
  Findings,      \* fingerprints
  Requests,      \* requests and jobs at work at a time
  SnoozeDays,    \* how long an acknowledgement may last
  LastDay,       \* bound: the last day looked at
  MaxDecisions   \* bound: decisions of the admin

ASSUME TriageAssumption ==
  /\ SnoozeDays \subseteq Nat \ {0}
  /\ LastDay \in Nat \ {0} /\ MaxDecisions \in Nat

(* The states an admin may set; "new" is a finding only seen so far.       *)
STATES == {"ack", "working", "backlog", "resolved"}
StaysVisible == {"new", "working"}
Never == 0
NoRow == [state |-> "none"]
Idle == [step |-> "idle"]

VARIABLES
  day,        \* the Eastern calendar day
  row,        \* finding_states
  req,        \* what each request has read and means to write
  decisions,  \* decisions so far
  seenOn,     \* history: the days each finding was recorded on
  decided,    \* history: the last decision about each finding
  behind,     \* history: findings written by somebody still on an earlier day
  overlapped  \* history: findings with two decisions that overlapped

triageVars == <<day, row, req, decisions, seenOn, decided, behind, overlapped>>
triageHistory == <<seenOn, decided, behind, overlapped>>

TriageInit ==
  /\ day = 1 /\ decisions = 0
  /\ row = [f \in Findings |-> NoRow]
  /\ req = [r \in Requests |-> Idle]
  /\ seenOn = [f \in Findings |-> {}]
  /\ decided = [f \in Findings |-> [state |-> "new", on |-> Never, days |-> 0]]
  /\ behind = {} /\ overlapped = {}

NewRow(state, today) ==
  [state |-> state, until |-> Never, resolved |-> Never,
   first |-> today, last |-> today, seen |-> 1]

-----------------------------------------------------------------------------
(* observe: one row per finding, at most one day more for each day.        *)

SightedBug(old, today) ==
  IF old = NoRow THEN NewRow("new", today)
  ELSE [old EXCEPT !.seen = @ + 1,
                   !.last = IF today > @ THEN today ELSE @,
                   !.first = IF today < @ THEN today ELSE @]

Sighted(old, today) ==
  CASE old = NoRow -> NewRow("new", today)
    [] old # NoRow /\ old.last = today -> old
    [] OTHER -> [old EXCEPT !.seen = @ + 1,
                            !.last = IF today > @ THEN today ELSE @,
                            !.first = IF today < @ THEN today ELSE @]

(* set_state: what the admin's decision makes of a row.                    *)
Decided(old, decision, today) ==
  [(IF old = NoRow THEN NewRow(decision.state, today) ELSE old)
     EXCEPT !.state = decision.state,
            !.until = IF decision.state = "ack" THEN today + decision.days ELSE Never,
            !.resolved = IF decision.state = "resolved" THEN today ELSE Never]

(* The commit of a row read as old and changed to new, which is now        *)
(* current: the columns that were changed.                                 *)
Written(old, new, current) ==
  IF old = NoRow THEN new
  ELSE [c \in DOMAIN new |-> IF new[c] = old[c] THEN current[c] ELSE new[c]]

-----------------------------------------------------------------------------
(* The dashboard and the digest: the day is taken before the report is     *)
(* computed, the rows are read after it.                                   *)

ReportBegins(r) ==
  /\ req[r] = Idle
  /\ req' = [req EXCEPT ![r] = [step |-> "report", today |-> day]]
  /\ UNCHANGED <<day, row, decisions, triageHistory>>

RowsRead(r) ==
  /\ req[r].step = "report"
  /\ \E found \in (SUBSET Findings) \ {{}} :
       req' = [req EXCEPT ![r] = [step |-> "observe", today |-> req[r].today,
                                  rows |-> [f \in found |-> row[f]]]]
  /\ UNCHANGED <<day, row, decisions, triageHistory>>

(* fingerprint is unique: a row that was not there and now is makes the    *)
(* whole commit fail.                                                      *)
Collides(rows) == \E f \in DOMAIN rows : rows[f] = NoRow /\ row[f] # NoRow

ObserveCommits(r) ==
  /\ req[r].step = "observe"
  /\ LET rows == req[r].rows
         today == req[r].today
     IN IF Collides(rows) THEN UNCHANGED <<row, triageHistory>>
        ELSE /\ row' = [f \in Findings |->
                          IF f \in DOMAIN rows
                          THEN Written(rows[f], Sighted(rows[f], today), row[f])
                          ELSE row[f]]
             /\ seenOn' = [f \in Findings |->
                             IF f \in DOMAIN rows THEN seenOn[f] \union {today} ELSE seenOn[f]]
             /\ behind' = IF today < day THEN behind \union DOMAIN rows ELSE behind
             /\ UNCHANGED <<decided, overlapped>>
  /\ req' = [req EXCEPT ![r] = Idle]
  /\ UNCHANGED <<day, decisions>>

-----------------------------------------------------------------------------
(* POST /admin/findings/{fingerprint}/state.                               *)

Decisions ==
  [state : {"ack"}, days : SnoozeDays] \union [state : STATES \ {"ack"}, days : {0}]

DecisionReads(r) ==
  /\ req[r] = Idle
  /\ decisions < MaxDecisions /\ decisions' = decisions + 1
  /\ \E f \in Findings, d \in Decisions :
       req' = [req EXCEPT ![r] = [step |-> "decide", today |-> day, decision |-> d,
                                  rows |-> [x \in {f} |-> row[x]]]]
  /\ UNCHANGED <<day, row, triageHistory>>

DecisionCommits(r) ==
  /\ req[r].step = "decide"
  /\ LET rows == req[r].rows
         today == req[r].today
         f == CHOOSE x \in DOMAIN rows : TRUE
         d == req[r].decision
     IN IF Collides(rows) THEN UNCHANGED <<row, triageHistory>>
        ELSE /\ row' = [row EXCEPT ![f] = Written(rows[f], Decided(rows[f], d, today), @)]
             /\ seenOn' = IF rows[f] = NoRow THEN [seenOn EXCEPT ![f] = {today}] ELSE seenOn
             /\ decided' = [decided EXCEPT ![f] = [state |-> d.state, on |-> today, days |-> d.days]]
             /\ overlapped' = IF \E o \in Requests \ {r} :
                                req[o].step = "decide" /\ f \in DOMAIN req[o].rows
                           THEN overlapped \union {f} ELSE overlapped
             /\ UNCHANGED behind
  /\ req' = [req EXCEPT ![r] = Idle]
  /\ UNCHANGED <<day, decisions>>

Midnight ==
  /\ day < LastDay /\ day' = day + 1
  /\ UNCHANGED <<row, req, decisions, triageHistory>>

TriageNext ==
  \/ Midnight
  \/ \E r \in Requests :
       \/ ReportBegins(r) \/ RowsRead(r) \/ ObserveCommits(r)
       \/ DecisionReads(r) \/ DecisionCommits(r)

TriageSpec == TriageInit /\ [][TriageNext]_triageVars

-----------------------------------------------------------------------------
(* effective: what a stored instruction means today. Nothing sweeps the    *)
(* rows, an instruction ends by being read.                                *)

EffectiveBug(old, today) ==
  CASE old.state = "resolved" /\ old.resolved # Never /\ old.last > old.resolved -> "new"
    [] old.state = "ack" /\ old.until < today -> "new"
    [] OTHER -> old.state

Effective(old, today) ==
  CASE old.state = "resolved" /\ old.resolved # Never /\ old.last > old.resolved -> "new"
    [] old.state = "ack" /\ old.until <= today -> "new"
    [] OTHER -> old.state

(* annotate: does the finding leave the urgent lane?                       *)
Hidden(f) == row[f] # NoRow /\ Effective(row[f], day) \notin StaysVisible

-----------------------------------------------------------------------------
(* Properties.                                                             *)

TriageTypeOK ==
  /\ day \in 1..LastDay /\ decisions \in 0..MaxDecisions
  /\ \A f \in Findings : row[f] = NoRow \/
       /\ row[f].state \in STATES \union {"new"}
       /\ row[f].until \in Nat /\ row[f].resolved \in 0..day
       /\ row[f].first \in 1..day /\ row[f].last \in row[f].first..day
       /\ row[f].seen \in Nat
  /\ \A r \in Requests : req[r].step \in {"idle", "report", "observe", "decide"}

(* A finding is out of the urgent lane exactly while the last decision     *)
(* about it says so: an acknowledgement until its days are over, a         *)
(* resolution until the finding is seen on a later day, the to-do list     *)
(* until another decision. Observations crossing a decision change nothing *)
(* of that (effective, set_state, observe). Left out are a finding two     *)
(* decisions about which overlapped and one written by somebody whose day  *)
(* had ended: there a resolved finding can stay silent although it was     *)
(* seen again.                                                             *)
SilenceEnds ==
  \A f \in Findings \ (behind \union overlapped) :
    Hidden(f) <=>
      \/ decided[f].state = "ack" /\ day < decided[f].on + decided[f].days
      \/ decided[f].state = "resolved" /\ \A d \in seenOn[f] : d <= decided[f].on
      \/ decided[f].state = "backlog"

(* days_seen counts days, not looks at the dashboard: however many readers *)
(* of one day cross, each day on which the finding was recorded counts     *)
(* once (observe). A reader still on an earlier day may count its day      *)
(* again.                                                                  *)
SeenOncePerDay ==
  \A f \in Findings \ behind :
    row[f] # NoRow => row[f].seen = Cardinality(seenOn[f])
=============================================================================
