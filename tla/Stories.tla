------------------------------ MODULE Stories ------------------------------
(***************************************************************************)
(* The "why it moved" stories of one trading day: how two jobs share them,  *)
(* how pool threads write them, and how families who were told "we're       *)
(* still looking" get their answer.  services/articles/service.py, with     *)
(* the parts of jobs/intraday.py and jobs/recap.py that call it.            *)
(*                                                                         *)
(* The database (story, row, logged) outlives a restart; the jobs' local    *)
(* variables and sessions (run), the thread pool (worker) and the progress  *)
(* through a send loop (pass) do not.  A step is what happens between two   *)
(* points at which another thread can see or change the shared state: a     *)
(* commit, a fresh read after a commit, or an email leaving.                *)
(***************************************************************************)
EXTENDS Integers, FiniteSets

CONSTANTS Stories,      \* one per (ticker, direction) of the day: the unique key
          Users,
          Big,          \* stories whose move is at least AI_ARTICLE_ALWAYS_PCT
          Cap,          \* AI_ARTICLE_MAX_PER_DAY
          SlowTick,     \* may the last intraday run still be going at recap time?
          MaxFaults     \* bound: restarts and raised exceptions in a behaviour

Jobs == {"intraday", "recap"}

\* A send loop runs in a job or in the pool thread of a story.
Actors == Jobs \cup Stories

Pairs == Stories \X Users

ASSUME StoriesAssumption ==
    /\ Stories \cap Jobs = {}
    /\ IsFiniteSet(Stories)
    /\ Big \subseteq Stories
    /\ Cap \in Nat
    /\ SlowTick \in BOOLEAN
    /\ MaxFaults \in Nat

VARIABLES
    story,        \* StockArticle.status, "absent" before there is a row
    old,          \* pending rows older than the give-up time
    worker,       \* the pool thread of each story
    generations,  \* how often each story was handed to the pool
    row,          \* ArticleFollowup.status per (article, user): uq_followup_article_user
    logged,       \* committed NotificationLog (intraday) and RecapSend (recap) rows
    promised,     \* families that got an email saying "we're still looking"
    mailed,       \* follow-up emails sent per (story, family)
    run,          \* the local state of each job
    pass,         \* the local state of each send loop
    recapRan,     \* the recap's one cron slot of the day is used up
    faults

vars == <<story, old, worker, generations, row, logged, promised, mailed, run,
          pass, recapRan, faults>>

-----------------------------------------------------------------------------
\* "ready" has a story to send; "empty" is no_clear_cause or failed.
Finished == {"ready", "empty"}

StoryStatus == {"absent", "pending"} \cup Finished

Phases == {"idle", "sweep", "giveup", "resend", "detect", "plan", "insert",
           "submit", "wait", "send", "check", "commit", "post"}

RunState ==
    [pc      : Phases,
     stuck   : SUBSET Stories,  \* rows the sweep found pending and too old
     tellq   : SUBSET Stories,  \* stories still to go through a send loop
     todo    : SUBSET Pairs,    \* emails still to send
     cand    : SUBSET Stories,  \* candidates not yet planned
     plan    : SUBSET Stories,  \* StoryPlan.stories
     pending : SUBSET Stories,  \* read as pending when the wait ended
     current : SUBSET Stories,  \* the row being inserted
     batch   : SUBSET Pairs,    \* uncommitted NotificationLog / RecapSend
     drafts  : SUBSET Pairs,    \* uncommitted ArticleFollowup rows
     count   : Nat,             \* created_today
     nextDay : BOOLEAN,         \* a run of the next trading day
     paused  : BOOLEAN]

IdleRun ==
    [pc |-> "idle", stuck |-> {}, tellq |-> {}, todo |-> {}, cand |-> {},
     plan |-> {}, pending |-> {}, current |-> {}, batch |-> {}, drafts |-> {},
     count |-> 0, nextDay |-> FALSE,
     paused |-> FALSE]

PassState ==
    [left    : SUBSET Pairs,    \* follow-ups selected and not yet handled
     usable  : BOOLEAN,         \* the story can be rendered
     mailing : SUBSET Pairs]    \* claimed, its email not sent yet

NoPass == [left |-> {}, usable |-> FALSE, mailing |-> {}]

Created == {s \in Stories : story[s] # "absent"}

WaitingFor(s) == {p \in Pairs : p[1] = s /\ row[p] = "waiting"}

PassOver(a) == pass[a].left = {} /\ pass[a].mailing = {}

\* articles.service._is_running: a future that is not done yet.
IsRunning(s) == worker[s] # "off"

Init ==
    /\ story = [s \in Stories |-> "absent"]
    /\ old = {}
    /\ worker = [s \in Stories |-> "off"]
    /\ generations = [s \in Stories |-> 0]
    /\ row = [p \in Pairs |-> "none"]
    /\ logged = [j \in Jobs |-> {}]
    /\ promised = {}
    /\ mailed = [p \in Pairs |-> 0]
    /\ run = [j \in Jobs |-> IdleRun]
    /\ pass = [a \in Actors |-> NoPass]
    /\ recapRan = FALSE
    /\ faults = 0

-----------------------------------------------------------------------------
(* Each definition named ...Bug is the definition after it with a mistake    *)
(* that is easy to make in that code; no specification uses it.  It shows   *)
(* that a property would notice.                                            *)

(* send_waiting_followups: one pass over the follow-ups of one story.       *)

\* A pending story ends the pass at once.
BeginPass(a, s) ==
    pass' = [pass EXCEPT ![a] =
                [left    |-> IF story[s] \in Finished THEN WaitingFor(s) ELSE {},
                 usable  |-> story[s] = "ready",
                 mailing |-> {}]]

\* The abandoning update forgets to look for "waiting".
AbandonBug(a, p) ==
    /\ p \in pass[a].left
    /\ pass[a].mailing = {}
    /\ row' = [row EXCEPT ![p] = "abandoned"]
    /\ pass' = [pass EXCEPT ![a].left = @ \ {p}]
    /\ UNCHANGED <<story, old, worker, generations, logged, promised, mailed, run,
                   recapRan, faults>>

\* Nothing to show, or the family unsubscribed or has no confirmed address.
Abandon(a, p) ==
    /\ p \in pass[a].left
    /\ pass[a].mailing = {}
    /\ row' = [row EXCEPT ![p] = IF @ = "waiting" THEN "abandoned" ELSE @]
    /\ pass' = [pass EXCEPT ![a].left = @ \ {p}]
    /\ UNCHANGED <<story, old, worker, generations, logged, promised, mailed, run,
                   recapRan, faults>>

\* The claim forgets that somebody else may have made it.
ClaimBug(a, p) ==
    /\ p \in pass[a].left
    /\ pass[a].mailing = {}
    /\ pass[a].usable
    /\ row' = [row EXCEPT ![p] = "sent"]
    /\ pass' = [pass EXCEPT ![a] =
                    [@ EXCEPT !.left = pass[a].left \ {p},
                              !.mailing = {p}]]
    /\ UNCHANGED <<story, old, worker, generations, logged, promised, mailed, run,
                   recapRan, faults>>

\* _claim: whoever moves the row out of "waiting" sends the email.
Claim(a, p) ==
    /\ p \in pass[a].left
    /\ pass[a].mailing = {}
    /\ pass[a].usable
    /\ row' = [row EXCEPT ![p] = IF @ = "waiting" THEN "sent" ELSE @]
    /\ pass' = [pass EXCEPT ![a] =
                    [@ EXCEPT !.left = pass[a].left \ {p},
                              !.mailing = IF row[p] = "waiting" THEN {p} ELSE {}]]
    /\ UNCHANGED <<story, old, worker, generations, logged, promised, mailed, run,
                   recapRan, faults>>

MailFollowup(a, p) ==
    /\ p \in pass[a].mailing
    /\ mailed' = [mailed EXCEPT ![p] = @ + 1]
    /\ pass' = [pass EXCEPT ![a].mailing = {}]
    /\ UNCHANGED <<story, old, worker, generations, row, logged, promised, run,
                   recapRan, faults>>

-----------------------------------------------------------------------------
(* The pool thread of a story: _generate_and_store.                         *)

StoreStory(s) ==
    /\ worker[s] = "generating"
    /\ \E result \in Finished : story' = [story EXCEPT ![s] = result]
    /\ worker' = [worker EXCEPT ![s] = "stored"]
    /\ old' = old \ {s}
    /\ UNCHANGED <<generations, row, logged, promised, mailed, run, pass,
                   recapRan, faults>>

WorkerTell(s) ==
    /\ worker[s] = "stored"
    /\ worker' = [worker EXCEPT ![s] = "telling"]
    /\ BeginPass(s, s)
    /\ UNCHANGED <<story, old, generations, row, logged, promised, mailed, run,
                   recapRan, faults>>

\* The future is done and _forget drops it.
WorkerDone(s) ==
    /\ worker[s] = "telling"
    /\ PassOver(s)
    /\ worker' = [worker EXCEPT ![s] = "off"]
    /\ UNCHANGED <<story, old, generations, row, logged, promised, mailed, run,
                   pass, recapRan, faults>>

-----------------------------------------------------------------------------
(* A job starts.  Each has one instance at a time (max_instances=1).  The   *)
(* recap has one slot a day, after the close: no intraday run starts        *)
(* between it and the next morning, but a slow last run may still be going. *)
(* The next morning's runs sweep what this day left; this day's stories are *)
(* no candidates for them.                                                  *)

StartIntraday ==
    /\ \A j \in Jobs : run[j].pc = "idle"
    /\ run' = [run EXCEPT !["intraday"] =
                    [@ EXCEPT !.pc = "sweep",
                              !.nextDay = recapRan]]
    /\ UNCHANGED <<story, old, worker, generations, row, logged, promised, mailed,
                   pass, recapRan, faults>>

StartRecap ==
    /\ ~recapRan
    /\ SlowTick \/ run["intraday"].pc = "idle"
    /\ recapRan' = TRUE
    /\ run' = [run EXCEPT !["recap"].pc = "detect"]
    /\ UNCHANGED <<story, old, worker, generations, row, logged, promised, mailed,
                   pass, faults>>

-----------------------------------------------------------------------------
(* sweep, at the start of every intraday run.                               *)

\* The sweep takes every pending row for one that is still being written.
SweepReadBug ==
    /\ run["intraday"].pc = "sweep"
    /\ run' = [run EXCEPT !["intraday"].pc = "giveup"]
    /\ UNCHANGED <<story, old, worker, generations, row, logged, promised, mailed,
                   pass, recapRan, faults>>

SweepRead ==
    /\ run["intraday"].pc = "sweep"
    /\ run' = [run EXCEPT !["intraday"] =
                    [@ EXCEPT !.pc = "giveup",
                              !.stuck = {s \in old : story[s] = "pending"}]]
    /\ UNCHANGED <<story, old, worker, generations, row, logged, promised, mailed,
                   pass, recapRan, faults>>

\* The rows in hand were read before; the update names the row, not its status.
SweepGiveUp ==
    /\ run["intraday"].pc = "giveup"
    /\ LET lost == {s \in run["intraday"].stuck : ~IsRunning(s)} IN
          /\ story' = [s \in Stories |-> IF s \in lost THEN "empty" ELSE story[s]]
          /\ old' = old \ lost
    /\ run' = [run EXCEPT !["intraday"] =
                    [@ EXCEPT !.pc = "resend",
                              !.stuck = {},
                              !.tellq = {s \in Stories : WaitingFor(s) # {}}]]
    /\ UNCHANGED <<worker, generations, row, logged, promised, mailed, pass,
                   recapRan, faults>>

\* The loop over stories with waiting follow-ups: the sweep's ("resend") and
\* the one after a job has committed its emails ("post").
JobTell(j, s) ==
    /\ run[j].pc \in {"resend", "post"}
    /\ s \in run[j].tellq
    /\ PassOver(j)
    /\ run' = [run EXCEPT ![j].tellq = @ \ {s}]
    /\ BeginPass(j, s)
    /\ UNCHANGED <<story, old, worker, generations, row, logged, promised, mailed,
                   recapRan, faults>>

JobTold(j) ==
    /\ run[j].pc \in {"resend", "post"}
    /\ run[j].tellq = {}
    /\ PassOver(j)
    /\ run' = [run EXCEPT ![j] = IF @.pc = "resend"
                                 THEN [@ EXCEPT !.pc = "detect"]
                                 ELSE IdleRun]
    /\ UNCHANGED <<story, old, worker, generations, row, logged, promised, mailed,
                   pass, recapRan, faults>>

-----------------------------------------------------------------------------
(* Detection and planning.                                                  *)

\* An intraday run may email a family about several stocks, and again about the
\* same one when DEDUP_WINDOW, three hours, is over.  By then the story has an
\* outcome (calls to the AI time out and the sweep gives up much earlier), or
\* there was none, for the cap or a pause.  A recap is one email a family and
\* day, about its biggest mover.
Batch(j) ==
    {B \in SUBSET Pairs :
        /\ j = "intraday" =>
              /\ \A p \in B \cap logged[j] : story[p[1]] # "pending"
              /\ run[j].nextDay => B = {}
        /\ j = "recap" =>
              /\ \A p, q \in B : p[2] = q[2] => p = q
              /\ \A p \in B, q \in logged[j] : p[2] # q[2]}

\* The candidate counts itself out.
DetectBug(j) ==
    /\ run[j].pc = "detect"
    /\ \E B \in Batch(j), paused \in BOOLEAN :
          run' = [run EXCEPT ![j] =
                    IF B = {} THEN IdleRun
                    ELSE [IdleRun EXCEPT !.pc = "plan",
                                         !.todo = B,
                                         !.cand = {p[1] : p \in B},
                                         !.count = Cardinality(Created) - 1,
                                         !.paused = paused]]
    /\ UNCHANGED <<story, old, worker, generations, row, logged, promised, mailed,
                   pass, recapRan, faults>>

\* The rules that fired, then the head of ensure_articles: the pause check
\* and the count of the day's rows, both read once.
Detect(j) ==
    /\ run[j].pc = "detect"
    /\ \E B \in Batch(j), paused \in BOOLEAN :
          run' = [run EXCEPT ![j] =
                    IF B = {} THEN IdleRun
                    ELSE [IdleRun EXCEPT !.pc = "plan",
                                         !.todo = B,
                                         !.cand = {p[1] : p \in B},
                                         !.count = Cardinality(Created),
                                         !.paused = paused]]
    /\ UNCHANGED <<story, old, worker, generations, row, logged, promised, mailed,
                   pass, recapRan, faults>>

\* The cap is reached one story late.
LimitBug(s) == IF s \in Big THEN 2 * Cap ELSE Cap + 1

Limit(s) == IF s \in Big THEN 2 * Cap ELSE Cap

\* Candidates are taken biggest move first.
NextCandidate(j, s) ==
    /\ s \in run[j].cand
    /\ s \notin Big => run[j].cand \cap Big = {}

PlanExisting(j, s) ==
    /\ run[j].pc = "plan"
    /\ NextCandidate(j, s)
    /\ story[s] # "absent"
    /\ run' = [run EXCEPT ![j] =
                    [@ EXCEPT !.cand = run[j].cand \ {s},
                              !.plan = run[j].plan \cup {s}]]
    /\ UNCHANGED <<story, old, worker, generations, row, logged, promised, mailed,
                   pass, recapRan, faults>>

PlanNew(j, s) ==
    /\ run[j].pc = "plan"
    /\ NextCandidate(j, s)
    /\ story[s] = "absent"
    /\ run' = [run EXCEPT ![j] =
                IF @.paused \/ @.count >= Limit(s)
                THEN [@ EXCEPT !.cand = run[j].cand \ {s}]
                ELSE [@ EXCEPT !.cand = run[j].cand \ {s},
                               !.pc = "insert",
                               !.current = {s}]]
    /\ UNCHANGED <<story, old, worker, generations, row, logged, promised, mailed,
                   pass, recapRan, faults>>

\* The run that lost the race goes on as if it had created the row.
InsertStoryBug(j, s) ==
    /\ run[j].pc = "insert"
    /\ s \in run[j].current
    /\ story' = [story EXCEPT ![s] = IF @ = "absent" THEN "pending" ELSE @]
    /\ run' = [run EXCEPT ![j] =
                    [@ EXCEPT !.pc = "submit",
                              !.count = run[j].count + 1]]
    /\ UNCHANGED <<old, worker, generations, row, logged, promised, mailed, pass,
                   recapRan, faults>>

\* Only one INSERT of the unique key commits; the other run reads that row back.
InsertStory(j, s) ==
    /\ run[j].pc = "insert"
    /\ s \in run[j].current
    /\ \/ /\ story[s] = "absent"
          /\ story' = [story EXCEPT ![s] = "pending"]
          /\ run' = [run EXCEPT ![j] =
                          [@ EXCEPT !.pc = "submit",
                                    !.count = run[j].count + 1]]
       \/ /\ story[s] # "absent"
          /\ run' = [run EXCEPT ![j] =
                          [@ EXCEPT !.pc = "plan",
                                    !.current = {},
                                    !.plan = run[j].plan \cup {s}]]
          /\ UNCHANGED story
    /\ UNCHANGED <<old, worker, generations, row, logged, promised, mailed, pass,
                   recapRan, faults>>

Submit(j, s) ==
    /\ run[j].pc = "submit"
    /\ s \in run[j].current
    /\ worker' = [worker EXCEPT ![s] = "generating"]
    /\ generations' = [generations EXCEPT ![s] = @ + 1]
    /\ run' = [run EXCEPT ![j] =
                    [@ EXCEPT !.pc = "plan",
                              !.current = {},
                              !.plan = run[j].plan \cup {s}]]
    /\ UNCHANGED <<story, old, row, logged, promised, mailed, pass, recapRan, faults>>

Planned(j) ==
    /\ run[j].pc = "plan"
    /\ run[j].cand = {}
    /\ run' = [run EXCEPT ![j].pc = "wait"]
    /\ UNCHANGED <<story, old, worker, generations, row, logged, promised, mailed,
                   pass, recapRan, faults>>

\* wait_for ends when the stories are done or its time is up, then reloads them.
WaitOver(j) ==
    /\ run[j].pc = "wait"
    /\ run' = [run EXCEPT ![j] =
                    [@ EXCEPT !.pc = "send",
                              !.pending = {s \in run[j].plan : story[s] = "pending"}]]
    /\ UNCHANGED <<story, old, worker, generations, row, logged, promised, mailed,
                   pass, recapRan, faults>>

-----------------------------------------------------------------------------
(* The intraday job sends every alert, then commits once.                   *)

SendAlert(p) ==
    LET promise == IF p[1] \in run["intraday"].pending THEN {p} ELSE {} IN
    /\ run["intraday"].pc = "send"
    /\ p \in run["intraday"].todo
    /\ promised' = promised \cup promise
    /\ run' = [run EXCEPT !["intraday"] =
                    [@ EXCEPT !.todo = run["intraday"].todo \ {p},
                              !.batch = run["intraday"].batch \cup {p},
                              !.drafts = run["intraday"].drafts \cup promise]]
    /\ UNCHANGED <<story, old, worker, generations, row, logged, mailed, pass,
                   recapRan, faults>>

Clash(j) == \E p \in run[j].drafts : row[p] # "none"

\* The job is done when its emails are committed.
CommitAlertsBug ==
    /\ run["intraday"].pc = "send"
    /\ run["intraday"].todo = {}
    /\ row' = [p \in Pairs |-> IF p \in run["intraday"].drafts
                               THEN "waiting" ELSE row[p]]
    /\ logged' = [logged EXCEPT !["intraday"] = @ \cup run["intraday"].batch]
    /\ run' = [run EXCEPT !["intraday"] = IdleRun]
    /\ UNCHANGED <<story, old, worker, generations, promised, mailed, pass,
                   recapRan, faults>>

\* A row that already exists fails the whole commit, and with it the run.
CommitAlerts ==
    /\ run["intraday"].pc = "send"
    /\ run["intraday"].todo = {}
    /\ \/ /\ ~Clash("intraday")
          /\ row' = [p \in Pairs |-> IF p \in run["intraday"].drafts
                                     THEN "waiting" ELSE row[p]]
          /\ logged' = [logged EXCEPT !["intraday"] = @ \cup run["intraday"].batch]
          /\ run' = [run EXCEPT !["intraday"] =
                       [IdleRun EXCEPT !.pc = "post", !.tellq = run["intraday"].plan]]
       \/ /\ Clash("intraday")
          /\ run' = [run EXCEPT !["intraday"] = IdleRun]
          /\ UNCHANGED <<row, logged>>
    /\ UNCHANGED <<story, old, worker, generations, promised, mailed, pass,
                   recapRan, faults>>

-----------------------------------------------------------------------------
(* The recap emails, checks and commits one family at a time.  The first    *)
(* email says of a story what the wait found; the commit after it expires   *)
(* the stories the session holds, so each later one reads the status again. *)

PendingFor(p) ==
    /\ p[1] \in run["recap"].plan
    /\ p[1] \in run["recap"].pending \/ story[p[1]] = "pending"

SendRecap(p) ==
    LET promise == IF PendingFor(p) THEN {p} ELSE {} IN
    /\ run["recap"].pc = "send"
    /\ p \in run["recap"].todo
    /\ promised' = promised \cup promise
    /\ run' = [run EXCEPT !["recap"] =
                    [@ EXCEPT !.todo = run["recap"].todo \ {p},
                              !.batch = {p},
                              !.drafts = promise,
                              !.pc = "check"]]
    /\ UNCHANGED <<story, old, worker, generations, row, logged, mailed, pass,
                   recapRan, faults>>

\* The query for an earlier follow-up asks for the family, not for the story.
CheckRecapBug ==
    /\ run["recap"].pc = "check"
    /\ run' = [run EXCEPT !["recap"] =
                    [@ EXCEPT !.pc = "commit",
                              !.drafts = {p \in run["recap"].drafts :
                                  \A q \in Pairs : q[2] = p[2] => row[q] = "none"}]]
    /\ UNCHANGED <<story, old, worker, generations, row, logged, promised, mailed,
                   pass, recapRan, faults>>

\* An alert today may already be waiting for this story.
CheckRecap ==
    /\ run["recap"].pc = "check"
    /\ run' = [run EXCEPT !["recap"] =
                    [@ EXCEPT !.drafts = {p \in run["recap"].drafts : row[p] = "none"},
                              !.pc = "commit"]]
    /\ UNCHANGED <<story, old, worker, generations, row, logged, promised, mailed,
                   pass, recapRan, faults>>

\* A duplicate rolls this family's rows back; the recap goes on.
CommitRecap ==
    /\ run["recap"].pc = "commit"
    /\ \/ /\ ~Clash("recap")
          /\ row' = [p \in Pairs |-> IF p \in run["recap"].drafts
                                     THEN "waiting" ELSE row[p]]
          /\ logged' = [logged EXCEPT !["recap"] = @ \cup run["recap"].batch]
       \/ Clash("recap") /\ UNCHANGED <<row, logged>>
    /\ run' = [run EXCEPT !["recap"] =
                    [@ EXCEPT !.pc = "send",
                              !.batch = {},
                              !.pending = {},
                              !.drafts = {}]]
    /\ UNCHANGED <<story, old, worker, generations, promised, mailed, pass,
                   recapRan, faults>>

RecapSent ==
    /\ run["recap"].pc = "send"
    /\ run["recap"].todo = {}
    /\ run' = [run EXCEPT !["recap"] =
                 [IdleRun EXCEPT !.pc = "post", !.tellq = run["recap"].plan]]
    /\ UNCHANGED <<story, old, worker, generations, row, logged, promised, mailed,
                   pass, recapRan, faults>>

-----------------------------------------------------------------------------
(* What goes wrong: exceptions, restarts, time passing.                     *)

\* The story step raised: rolled back, and the emails go out without stories.
StoriesUnavailable(j) ==
    /\ faults < MaxFaults
    /\ run[j].pc \in {"plan", "insert", "submit", "wait"}
    /\ run' = [run EXCEPT ![j] =
                    [@ EXCEPT !.pc = "send",
                              !.plan = {},
                              !.cand = {},
                              !.current = {},
                              !.pending = {}]]
    /\ faults' = faults + 1
    /\ UNCHANGED <<story, old, worker, generations, row, logged, promised, mailed,
                   pass, recapRan>>

\* Any other exception ends the run and its session is thrown away; the sweep
\* catches its own, and a recap email's only costs that family its rows.
RunRaises(j) ==
    /\ faults < MaxFaults
    /\ run[j].pc \in {"sweep", "giveup", "resend", "detect", "send", "check",
                      "commit", "post"}
    /\ run' = [run EXCEPT ![j] =
                 IF @.pc \in {"sweep", "giveup", "resend"}
                 THEN [IdleRun EXCEPT !.pc = "detect", !.nextDay = run[j].nextDay]
                 ELSE IF @.pc \in {"check", "commit"}
                 THEN [@ EXCEPT !.pc = "send", !.batch = {}, !.pending = {}, !.drafts = {}]
                 ELSE IdleRun]
    /\ pass' = [pass EXCEPT ![j] = NoPass]
    /\ faults' = faults + 1
    /\ UNCHANGED <<story, old, worker, generations, row, logged, promised, mailed,
                   recapRan>>

\* "Storing story failed": the row stays as it was committed last.
WorkerRaises(s) ==
    /\ faults < MaxFaults
    /\ worker[s] # "off"
    /\ worker' = [worker EXCEPT ![s] = "off"]
    /\ pass' = [pass EXCEPT ![s] = NoPass]
    /\ faults' = faults + 1
    /\ UNCHANGED <<story, old, generations, row, logged, promised, mailed, run,
                   recapRan>>

Restart ==
    /\ faults < MaxFaults
    /\ worker' = [s \in Stories |-> "off"]
    /\ run' = [j \in Jobs |-> IdleRun]
    /\ pass' = [a \in Actors |-> NoPass]
    /\ faults' = faults + 1
    /\ UNCHANGED <<story, old, generations, row, logged, promised, mailed, recapRan>>

\* AI_ARTICLE_FOLLOWUP_GIVE_UP_MINUTES pass for a pending story.
GrowOld(s) ==
    /\ story[s] = "pending"
    /\ s \notin old
    /\ old' = old \cup {s}
    /\ UNCHANGED <<story, worker, generations, row, logged, promised, mailed, run,
                   pass, recapRan, faults>>

-----------------------------------------------------------------------------
PassStep(a) == \E p \in Pairs : Abandon(a, p) \/ Claim(a, p) \/ MailFollowup(a, p)

WorkerStep(s) ==
    \/ StoreStory(s)
    \/ WorkerTell(s)
    \/ WorkerDone(s)

PlanStep(j) ==
    \/ Detect(j)
    \/ \E s \in Stories : PlanExisting(j, s) \/ PlanNew(j, s)
    \/ \E s \in Stories : InsertStory(j, s) \/ Submit(j, s)
    \/ Planned(j)
    \/ WaitOver(j)

TellStep(j) == JobTold(j) \/ \E s \in Stories : JobTell(j, s)

IntradayStep ==
    \/ SweepRead
    \/ SweepGiveUp
    \/ \E p \in Pairs : SendAlert(p)
    \/ CommitAlerts

RecapStep ==
    \/ \E p \in Pairs : SendRecap(p)
    \/ CheckRecap
    \/ CommitRecap
    \/ RecapSent

FaultStep ==
    \/ \E j \in Jobs : StoriesUnavailable(j) \/ RunRaises(j)
    \/ \E s \in Stories : WorkerRaises(s)
    \/ Restart

Next ==
    \/ StartIntraday
    \/ StartRecap
    \/ \E a \in Actors : PassStep(a)
    \/ \E s \in Stories : WorkerStep(s) \/ GrowOld(s)
    \/ \E j \in Jobs : PlanStep(j) \/ TellStep(j)
    \/ IntradayStep
    \/ RecapStep
    \/ FaultStep

\* Everything in progress goes on: calls to the AI and to SMTP time out, the
\* waits are bounded, the scheduler keeps starting the intraday job, time passes.
Fairness ==
    /\ WF_vars(StartIntraday)
    /\ \A a \in Actors : WF_vars(PassStep(a))
    /\ \A s \in Stories : WF_vars(WorkerStep(s)) /\ WF_vars(GrowOld(s))
    /\ \A j \in Jobs : WF_vars(PlanStep(j)) /\ WF_vars(TellStep(j))
    /\ WF_vars(IntradayStep)
    /\ WF_vars(RecapStep)

Spec == Init /\ [][Next]_vars

FairSpec == Spec /\ Fairness

-----------------------------------------------------------------------------
(* Properties.                                                              *)

TypeOK ==
    /\ story \in [Stories -> StoryStatus]
    /\ old \subseteq Stories
    /\ worker \in [Stories -> {"off", "generating", "stored", "telling"}]
    /\ generations \in [Stories -> Nat]
    /\ row \in [Pairs -> {"none", "waiting", "sent", "abandoned"}]
    /\ logged \in [Jobs -> SUBSET Pairs]
    /\ promised \subseteq Pairs
    /\ mailed \in [Pairs -> Nat]
    /\ run \in [Jobs -> RunState]
    /\ pass \in [Actors -> PassState]
    /\ recapRan \in BOOLEAN
    /\ faults \in Nat

\* However many threads go over the same follow-up at the same time (the
\* story's own thread, an intraday run's sweep, both jobs' last step), the
\* family gets at most one email for it: _claim's "nothing is ever sent twice".
AtMostOneFollowup == \A p \in Pairs : mailed[p] <= 1

\* The hand-over between a job and a story's thread loses nobody: when the
\* process is quiet and nothing has failed, no family is left waiting for a
\* story.  The job commits the debt and then looks at the story; the thread
\* commits the story and then looks at the debts.
Quiet == /\ \A j \in Jobs : run[j].pc = "idle"
         /\ \A s \in Stories : worker[s] = "off"

NobodyLeftWaiting ==
    faults = 0 /\ Quiet => \A p \in Pairs : row[p] # "waiting"

\* A story is shared by every family and paid for once, whichever jobs ask for
\* it at the same time: StockArticle's "each story is generated once".
GeneratedOnce == \A s \in Stories : generations[s] <= 1

\* AI_ARTICLE_MAX_PER_DAY: an ordinary story is begun only below the cap, a
\* big one below twice the cap, counting every story of the day whoever asked
\* for it (.env.example: "up to twice the cap").
CapRespected ==
    [][\A s \in Stories : story[s] = "absent" /\ story'[s] # "absent"
          => Cardinality(Created) < IF s \in Big THEN 2 * Cap ELSE Cap]_vars

\* kid_block: "the email promised a follow-up, so the caller must record one".
\* A family told "we're still looking" has a follow-up row, or its job still
\* holds one to commit.
PromiseRecorded ==
    faults = 0 => \A p \in promised :
        row[p] # "none" \/ \E j \in Jobs : p \in run[j].drafts

\* Once a story has an outcome, the outcome stays.
OutcomeFinal ==
    [][\A s \in Stories : story[s] \in Finished => story'[s] = story[s]]_story

\* The follow-up table keeps the contract: mapped state of one debt.
DebtOf(p) ==
    CASE row[p] = "none"      -> "none"
      [] row[p] = "waiting"   -> "owed"
      [] row[p] = "abandoned" -> "dropped"
      [] row[p] = "sent" /\ mailed[p] > 0 -> "told"
      [] row[p] = "sent" /\ mailed[p] = 0 ->
            IF \E a \in Actors : p \in pass[a].mailing THEN "taken" ELSE "lost"

Contract == INSTANCE FollowupContract
              WITH Debts <- Pairs, debt <- [p \in Pairs |-> DebtOf(p)]

\* Stories implements the contract.
KeepsContract == Contract!ContractSpec

\* ... and under the schedulers' fairness every debt is settled.
SettlesDebts == Contract!EveryDebtSettled
=============================================================================
