------------------------------ MODULE Pipeline ------------------------------
(***************************************************************************)
(* The batch pipeline (ingest, compute, notify) beside what users do: they  *)
(* add and remove stocks and rules, and every added stock is ingested at    *)
(* once in the background.  jobs/scheduler.py, ingest.py, compute.py,       *)
(* notify.py, on_demand.py; api/watchlist_routes.py, api/rules_routes.py.   *)
(*                                                                         *)
(* Everybody replaces rows by DELETE and INSERT under a unique key.  Under   *)
(* READ COMMITTED a transaction waits for a row another one is replacing;   *)
(* when that one commits, the row it had read is gone (deleting it again    *)
(* does nothing) and its INSERT violates the key.  So a transaction may     *)
(* clash if a row it read was replaced by a commit before it wrote: "stale".*)
(***************************************************************************)
EXTENDS Naturals, FiniteSets

CONSTANTS Users,
          Tickers,
          MaxRequests,    \* bound: requests that add or remove something
          MaxFaults       \* bound: restarts and raised exceptions

Pairs == Users \X Tickers

ASSUME PipelineAssumption ==
    /\ MaxRequests \in Nat
    /\ MaxFaults \in Nat

VARIABLES
    watch,      \* watchlist_items
    rule,       \* enabled notification_rules for highs and lows
    snap,       \* price_snapshots (and the newest daily_closes): one per ticker
    trend,      \* trend_analyses: one per (user, ticker)
    recent,     \* committed notification_logs inside DEDUP_WINDOW
    mails,      \* alerts sent per pair inside DEDUP_WINDOW
    batch,      \* the pipeline run and its open transaction
    task,       \* the background ingest of each pair
    requests,
    faults

vars == <<watch, rule, snap, trend, recent, mails, batch, task, requests, faults>>

-----------------------------------------------------------------------------
\* What a price says: is it an extreme of one of the windows, or not?
Quotes == {"calm", "extreme"}

NoRow == "none"

Rows == Quotes \cup {NoRow}

Stages == {"idle", "ingest", "replace", "compute", "select", "delete", "insert",
           "notify", "rules", "send"}

BatchState ==
    [stage : Stages,
     todo  : SUBSET Tickers,        \* tickers still to ingest
     now   : SUBSET Tickers,        \* the ticker being ingested
     stale : BOOLEAN,               \* ... and its row was replaced meanwhile
     new   : [Tickers -> Rows],     \* the snapshots this run wrote
     seen  : [Tickers -> Rows],     \* the snapshots read by compute or notify
     rows  : SUBSET Pairs,          \* the trend rows compute read, still there
     due   : SUBSET Pairs,          \* alerts still to look at
     sent  : SUBSET Pairs,          \* uncommitted notification_logs
     kept  : SUBSET Pairs]          \* pairs watched since the run began

Nothing == [t \in Tickers |-> NoRow]

IdleBatch ==
    [stage |-> "idle", todo |-> {}, now |-> {}, stale |-> FALSE, new |-> Nothing,
     seen |-> Nothing, rows |-> {}, due |-> {}, sent |-> {}, kept |-> {}]

TaskState == [step : {"off", "start", "fetch", "replace", "trend"},
              quote : Rows,
              stale : BOOLEAN]

NoTask == [step |-> "off", quote |-> NoRow, stale |-> FALSE]

Init ==
    /\ watch = {}
    /\ rule = {}
    /\ snap = Nothing
    /\ trend = [p \in Pairs |-> NoRow]
    /\ recent = {}
    /\ mails = [p \in Pairs |-> 0]
    /\ batch = IdleBatch
    /\ task = [p \in Pairs |-> NoTask]
    /\ requests = 0
    /\ faults = 0

\* Rows replaced in a transaction that is still open.
BatchHolds(t) == batch.stage \in {"ingest", "replace"} /\ batch.new[t] # NoRow

TaskHolds(p) == task[p].step = "trend"

ComputeHolds(p) == batch.stage = "insert" /\ p \in batch.rows

\* A commit replaced the snapshots of T: whoever read one of them is stale.
StaleTasks(T) ==
    [p \in Pairs |-> IF task[p].step = "replace" /\ p[2] \in T
                     THEN [task[p] EXCEPT !.stale = TRUE]
                     ELSE task[p]]

-----------------------------------------------------------------------------
(* Each definition named ...Bug is the one after it with a mistake; no       *)
(* specification uses it.                                                   *)

(* Requests.  Each is one short transaction.                                *)

\* The default rule add_watch may add is for price changes, not for notify.  (One
\* background ingest per pair at a time is a bound.)
AddWatch(p) ==
    /\ requests < MaxRequests
    /\ p \notin watch
    /\ task[p].step = "off"
    /\ watch' = watch \cup {p}
    /\ task' = [task EXCEPT ![p].step = "start"]
    /\ requests' = requests + 1
    /\ UNCHANGED <<rule, snap, trend, recent, mails, batch, faults>>

\* The stock's rules go with it; its trend row stays until the next compute.
RemoveWatch(p) ==
    /\ requests < MaxRequests
    /\ p \in watch
    /\ watch' = watch \ {p}
    /\ rule' = rule \ {p}
    /\ batch' = [batch EXCEPT !.kept = @ \ {p}]
    /\ requests' = requests + 1
    /\ UNCHANGED <<snap, trend, recent, mails, task, faults>>

\* Adding or enabling, deleting or disabling; neither asks whether the stock is
\* watched.
UpsertRule(p) ==
    /\ requests < MaxRequests
    /\ p \notin rule
    /\ rule' = rule \cup {p}
    /\ requests' = requests + 1
    /\ UNCHANGED <<watch, snap, trend, recent, mails, batch, task, faults>>

DeleteRule(p) ==
    /\ requests < MaxRequests
    /\ p \in rule
    /\ rule' = rule \ {p}
    /\ requests' = requests + 1
    /\ UNCHANGED <<watch, snap, trend, recent, mails, batch, task, faults>>

-----------------------------------------------------------------------------
(* ingest_ticker_for_user.                                                  *)

TaskEnds(p) == task' = [task EXCEPT ![p] = NoTask]

TaskCheck(p) ==
    /\ task[p].step = "start"
    /\ IF p \in watch
       THEN task' = [task EXCEPT ![p].step = "fetch"]
       ELSE TaskEnds(p)
    /\ UNCHANGED <<watch, rule, snap, trend, recent, mails, batch, requests, faults>>

\* Fetch a year of closes (or get no data), then read what is stored.
TaskFetch(p) ==
    /\ task[p].step = "fetch"
    /\ \/ TaskEnds(p)
       \/ \E q \in Quotes :
             task' = [task EXCEPT ![p] =
                         [step |-> "replace", quote |-> q, stale |-> FALSE]]
    /\ UNCHANGED <<watch, rule, snap, trend, recent, mails, batch, requests, faults>>

\* Replace the closes and the snapshot, or wait for who is replacing them; then
\* read the trend row.  What another commit replaced meanwhile makes an INSERT
\* fail, unless all that was left to write was an UPDATE of the newest close.
TaskReplace(p) ==
    /\ task[p].step = "replace"
    /\ ~BatchHolds(p[2])
    /\ \A o \in Pairs : o[2] = p[2] => ~TaskHolds(o)
    /\ \/ task[p].stale /\ TaskEnds(p)
       \/ task' = [task EXCEPT ![p].step = "trend", ![p].stale = FALSE]
    /\ UNCHANGED <<watch, rule, snap, trend, recent, mails, batch, requests, faults>>

\* Replace the user's trend row and commit.
TaskCommit(p) ==
    /\ task[p].step = "trend"
    /\ ~ComputeHolds(p)
    /\ ~task[p].stale
    /\ snap' = [snap EXCEPT ![p[2]] = task[p].quote]
    /\ trend' = [trend EXCEPT ![p] = task[p].quote]
    /\ task' = [StaleTasks({p[2]}) EXCEPT ![p] = NoTask]
    /\ batch' = [batch EXCEPT !.rows = @ \ {p},
                              !.stale = @ \/ p[2] \in batch.now]
    /\ UNCHANGED <<watch, rule, recent, mails, requests, faults>>

\* compute committed this trend row first: rolled back, nothing is stored.
TaskClash(p) ==
    /\ task[p].step = "trend"
    /\ ~ComputeHolds(p)
    /\ task[p].stale
    /\ TaskEnds(p)
    /\ UNCHANGED <<watch, rule, snap, trend, recent, mails, batch, requests, faults>>

-----------------------------------------------------------------------------
(* run_full_pipeline: a stage that raises ends the run.                     *)

StartPipeline ==
    /\ batch.stage = "idle"
    /\ batch' = [IdleBatch EXCEPT !.stage = "ingest",
                                  !.todo = {p[2] : p \in watch},
                                  !.kept = watch]
    /\ UNCHANGED <<watch, rule, snap, trend, recent, mails, task, requests, faults>>

\* run_ingest is one transaction over all tickers.  Fetch one (or get no data)
\* and read what is stored.
IngestRead(t) ==
    /\ batch.stage = "ingest"
    /\ t \in batch.todo
    /\ \/ batch' = [batch EXCEPT !.todo = @ \ {t}]
       \/ batch' = [batch EXCEPT !.todo = @ \ {t},
                                 !.stage = "replace",
                                 !.now = {t},
                                 !.stale = FALSE]
    /\ UNCHANGED <<watch, rule, snap, trend, recent, mails, task, requests, faults>>

IngestReplace(t) ==
    /\ batch.stage = "replace"
    /\ t \in batch.now
    /\ \A p \in Pairs : p[2] = t => ~TaskHolds(p)
    /\ \E q \in Quotes :
          batch' = [batch EXCEPT !.stage = "ingest",
                                 !.now = {},
                                 !.stale = FALSE,
                                 !.new = [batch.new EXCEPT ![t] = q]]
    /\ UNCHANGED <<watch, rule, snap, trend, recent, mails, task, requests, faults>>

\* The failed flush leaves the session unusable: every later ticker and the
\* commit raise too, and the prices of the whole batch are rolled back.
IngestClash ==
    /\ batch.stage = "replace"
    /\ batch.stale
    /\ \A p \in Pairs : p[2] \in batch.now => ~TaskHolds(p)
    /\ batch' = IdleBatch
    /\ UNCHANGED <<watch, rule, snap, trend, recent, mails, task, requests, faults>>

IngestCommit ==
    LET written == {t \in Tickers : batch.new[t] # NoRow} IN
    /\ batch.stage = "ingest"
    /\ batch.todo = {}
    /\ snap' = [t \in Tickers |-> IF t \in written THEN batch.new[t] ELSE snap[t]]
    /\ task' = StaleTasks(written)
    /\ batch' = [batch EXCEPT !.stage = "compute"]
    /\ UNCHANGED <<watch, rule, trend, recent, mails, requests, faults>>

\* run_compute is one transaction: read the snapshots, read all trend rows,
\* delete them, insert one for every watched stock with a snapshot.
ComputeRead ==
    /\ batch.stage = "compute"
    /\ batch' = [batch EXCEPT !.stage = "select", !.seen = snap]
    /\ UNCHANGED <<watch, rule, snap, trend, recent, mails, task, requests, faults>>

\* Only the rows of watched stocks are replaced.
WatchedRowsBug ==
    /\ batch.stage = "select"
    /\ batch' = [batch EXCEPT !.stage = "delete",
                              !.rows = {p \in watch : trend[p] # NoRow}]
    /\ UNCHANGED <<watch, rule, snap, trend, recent, mails, task, requests, faults>>

ComputeSelect ==
    /\ batch.stage = "select"
    /\ batch' = [batch EXCEPT !.stage = "delete",
                              !.rows = {p \in Pairs : trend[p] # NoRow}]
    /\ UNCHANGED <<watch, rule, snap, trend, recent, mails, task, requests, faults>>

ComputeDelete ==
    /\ batch.stage = "delete"
    /\ batch' = [batch EXCEPT !.stage = "insert"]
    /\ UNCHANGED <<watch, rule, snap, trend, recent, mails, task, requests, faults>>

\* Only what this run ingested is computed.
FreshlyComputedBug == {p \in watch : batch.new[p[2]] # NoRow}

\* Only rows that were there are computed again.
RecomputedBug == {p \in watch \cap batch.rows : batch.seen[p[2]] # NoRow}

Computed == {p \in watch : batch.seen[p[2]] # NoRow}

\* A row it did not delete is in the way.
InTheWay(p) == trend[p] # NoRow /\ p \notin batch.rows

ComputeCommit ==
    /\ batch.stage = "insert"
    /\ \A p \in Computed : ~InTheWay(p)
    /\ trend' = [p \in Pairs |-> IF p \in Computed THEN batch.seen[p[2]]
                                 ELSE IF p \in batch.rows THEN NoRow
                                 ELSE trend[p]]
    /\ task' = [p \in Pairs |-> IF p \in Computed /\ TaskHolds(p)
                                THEN [task[p] EXCEPT !.stale = TRUE]
                                ELSE task[p]]
    /\ batch' = [batch EXCEPT !.stage = "notify", !.rows = {}]
    /\ UNCHANGED <<watch, rule, snap, recent, mails, requests, faults>>

ComputeClash ==
    /\ batch.stage = "insert"
    /\ \E p \in Computed : InTheWay(p)
    /\ batch' = IdleBatch
    /\ UNCHANGED <<watch, rule, snap, trend, recent, mails, task, requests, faults>>

\* run_notify reads everything before its loop.
NotifyRead ==
    /\ batch.stage = "notify"
    /\ batch' = [batch EXCEPT !.stage = "rules", !.seen = snap]
    /\ UNCHANGED <<watch, rule, snap, trend, recent, mails, task, requests, faults>>

\* Rules that fire, of whichever users are confirmed and not unsubscribed.
NotifyRules ==
    /\ batch.stage = "rules"
    /\ \E D \in SUBSET {p \in rule : trend[p] = "extreme" /\ batch.seen[p[2]] # NoRow} :
          batch' = [batch EXCEPT !.stage = "send", !.due = D]
    /\ UNCHANGED <<watch, rule, snap, trend, recent, mails, task, requests, faults>>

\* One alert, unless the log has it already.
SendAlert(p) ==
    /\ batch.stage = "send"
    /\ p \in batch.due
    /\ IF p \in recent
       THEN /\ batch' = [batch EXCEPT !.due = @ \ {p}]
            /\ UNCHANGED mails
       ELSE /\ batch' = [batch EXCEPT !.due = @ \ {p}, !.sent = @ \cup {p}]
            /\ mails' = [mails EXCEPT ![p] = @ + 1]
    /\ UNCHANGED <<watch, rule, snap, trend, recent, task, requests, faults>>

\* The log rows are not committed with the last alert.
UnloggedBug ==
    /\ batch.stage = "send"
    /\ batch.due = {}
    /\ batch' = IdleBatch
    /\ UNCHANGED <<watch, rule, snap, trend, recent, mails, task, requests, faults>>

\* The run ends without closing its session.
UnclosedBug ==
    /\ batch.stage = "send"
    /\ batch.due = {}
    /\ recent' = recent \cup batch.sent
    /\ batch' = [batch EXCEPT !.stage = "idle"]
    /\ UNCHANGED <<watch, rule, snap, trend, mails, task, requests, faults>>

NotifyCommit ==
    /\ batch.stage = "send"
    /\ batch.due = {}
    /\ recent' = recent \cup batch.sent
    /\ batch' = IdleBatch
    /\ UNCHANGED <<watch, rule, snap, trend, mails, task, requests, faults>>

\* Three hours after an alert.
WindowOver(p) ==
    /\ mails[p] > 0
    /\ p \notin batch.sent
    /\ recent' = recent \ {p}
    /\ mails' = [mails EXCEPT ![p] = 0]
    /\ UNCHANGED <<watch, rule, snap, trend, batch, task, requests, faults>>

-----------------------------------------------------------------------------
(* Exceptions and restarts: open transactions are rolled back.              *)

BatchRaises ==
    /\ faults < MaxFaults
    /\ batch.stage # "idle"
    /\ batch' = IdleBatch
    /\ faults' = faults + 1
    /\ UNCHANGED <<watch, rule, snap, trend, recent, mails, task, requests>>

TaskRaises(p) ==
    /\ faults < MaxFaults
    /\ task[p].step # "off"
    /\ TaskEnds(p)
    /\ faults' = faults + 1
    /\ UNCHANGED <<watch, rule, snap, trend, recent, mails, batch, requests>>

Restart ==
    /\ faults < MaxFaults
    /\ batch' = IdleBatch
    /\ task' = [p \in Pairs |-> NoTask]
    /\ faults' = faults + 1
    /\ UNCHANGED <<watch, rule, snap, trend, recent, mails, requests>>

-----------------------------------------------------------------------------
Request(p) ==
    \/ AddWatch(p)
    \/ RemoveWatch(p)
    \/ UpsertRule(p)
    \/ DeleteRule(p)

TaskStep(p) ==
    \/ TaskCheck(p)
    \/ TaskFetch(p)
    \/ TaskReplace(p)
    \/ TaskCommit(p)
    \/ TaskClash(p)

IngestStep ==
    \/ \E t \in Tickers : IngestRead(t) \/ IngestReplace(t)
    \/ IngestClash
    \/ IngestCommit

ComputeStep ==
    \/ ComputeRead
    \/ ComputeSelect
    \/ ComputeDelete
    \/ ComputeCommit
    \/ ComputeClash

NotifyStep ==
    \/ NotifyRead
    \/ NotifyRules
    \/ \E p \in Pairs : SendAlert(p)
    \/ NotifyCommit

BatchStep == StartPipeline \/ IngestStep \/ ComputeStep \/ NotifyStep

FaultStep == BatchRaises \/ Restart \/ \E p \in Pairs : TaskRaises(p)

Next ==
    \/ \E p \in Pairs : Request(p) \/ TaskStep(p) \/ WindowOver(p)
    \/ BatchStep
    \/ FaultStep

Spec == Init /\ [][Next]_vars

\* The scheduler starts the next slot, and what runs goes on: fetches and SMTP
\* calls time out.
FairSpec == Spec /\ WF_vars(BatchStep) /\ \A p \in Pairs : WF_vars(TaskStep(p))

-----------------------------------------------------------------------------
(* Properties.                                                              *)

\* What a stage leaves in the run's locals and its open transaction.
StageOK ==
    /\ batch.stage = "idle" => batch = IdleBatch
    /\ batch.now # {} => batch.stage = "replace"
    /\ batch.sent # {} => batch.stage = "send"

TypeOK ==
    /\ watch \subseteq Pairs
    /\ rule \subseteq Pairs
    /\ snap \in [Tickers -> Rows]
    /\ trend \in [Pairs -> Rows]
    /\ recent \subseteq Pairs
    /\ mails \in [Pairs -> Nat]
    /\ batch \in BatchState
    /\ task \in [Pairs -> TaskState]
    /\ requests \in Nat
    /\ faults \in Nat
    /\ StageOK

\* notify: "Each send is logged to NotificationLog so we don't double-send within
\* the dedup window".  It holds as long as nothing raises and nothing restarts.
NoDoubleSend == faults = 0 => \A p \in Pairs : mails[p] <= 1

\* ... which covers the "same batch run + retries", the comment says: also the
\* run after one that did not get to its commit.
NoDoubleSendAcrossRetries == \A p \in Pairs : mails[p] <= 1

\* A run that reaches notify has computed a trend for everyone who has watched a
\* stock since the run began, if the run ingested it; whatever background
\* ingests, removals and additions happen meanwhile.
ComputedForAll ==
    batch.stage \in {"notify", "rules", "send"} =>
        \A p \in batch.kept : batch.new[p[2]] # NoRow => trend[p] # NoRow

\* Only an exception or a restart ends a run before notify has committed: a
\* background ingest, "safe to call repeatedly", does not.
OnDemandHarmless ==
    [][batch.stage # "idle" /\ batch'.stage = "idle"
         => batch.stage = "send" \/ faults' # faults]_vars

\* A watched stock with a price is shown with its trend in the end, though its
\* background ingest may lose every race: the next batch computes it.
AddedStockShown ==
    \A p \in Pairs :
        p \in watch /\ snap[p[2]] # NoRow ~> trend[p] # NoRow \/ p \notin watch

\* A stock that was removed is not shown forever, though its background ingest may
\* store a trend after the removal: the next batch deletes it.
RemovedStockForgotten ==
    \A p \in Pairs : p \notin watch /\ trend[p] # NoRow ~> trend[p] = NoRow \/ p \in watch
=============================================================================
