# A TLA+ model of Little Money Monkey

Little Money Monkey (this repository) watches stocks for families, emails them
when a price moves, and explains the move in a story for children. This
directory holds TLA+ models of its core logic, TLC configurations that check
them on small instances, and TLAPS proofs of what matters most for every
instance. `PROJECT.json` maps every definition to the lines it models.

    tlc -workers 2 -config Stories_day.cfg MCStories.tla      # check
    tlapm StoriesProofs.tla                                   # prove

| modules | model |
|---|---|
| `Stories`, `FollowupContract`, `MCStories`, `StoriesProofs` | the stories of a day, their follow-ups, the two jobs that send them |
| `Pipeline`, `MCPipeline`, `PipelineProofs` | the batch run, background ingests, watchlist requests |
| `Accounts`, `MCAccounts`, `AccountsProofs` | sign-in links, send limits, alert addresses, opt-outs, and the job that reads them |
| `Heartbeat`, `Alerts`, composed in `Operations`; `MCOperations`, `OperationsProofs` | missed slots, error records on their way through the log handlers |
| `Providers`, `StoryWriting` with `StoryEmails`, `RateLimit`, `DayReport`, `AlertRows`, `Triage`, `MoneyIdeas`, `Prices`, `RangeAlerts`, put side by side in `Parts`; `MCParts` | the small parts, each a state machine of its own |
| `AiStoryProofs` (providers, stories, their emails), `PriceProofs` (rate limit, prices, range alerts), `PartsProofs` (the rest and all together) | proofs about the small parts |
| `NumberFacts` | least and greatest elements, counting, induction over sets of numbers, for the other proofs |

`Stories` and `Pipeline` share no state but `notification_logs`, whose event
types they divide between them; `Accounts` meets both only in the addresses it
gives them, which they leave free.

## 1. The system

One Python process: a FastAPI app whose synchronous endpoints run in a thread
pool, an APScheduler `BackgroundScheduler` that runs the jobs in threads, and a
pool of threads that write stories. They share one database (SQLite in
development, Postgres at READ COMMITTED in production); every job and request
has a SQLAlchemy session of its own with `autoflush=False`, whose objects are
read again after a commit. A restart loses threads, sessions and in-memory
tables, and keeps the database. Emails go out through `send_email`, which logs
and swallows SMTP errors: no sender learns that its mail was refused.

| component | state | operations | talks to | hard | correct when |
|---|---|---|---|---|---|
| Stories and follow-ups (`services/articles/service.py`) | `stock_articles`, `article_followups`, `_futures` | `ensure_articles`, `_generate_and_store`, `wait_for`, `send_waiting_followups`, `sweep` | both jobs, pool threads, providers | jobs and threads race on the same rows; restarts | each story written once, each promise kept once, cap respected |
| Intraday job (`jobs/intraday.py`) | `intraday_prices`, `notification_logs` | capture, detect, stories, send, one commit | stories | everything is emailed before the one commit | no email without its rows, alerts spaced |
| Recap job (`jobs/recap.py`) | `recap_sends`, `money_idea_sends`, `delivery_outcomes` | one email and commit per family | stories, money ideas | one family failing, day boundary | one recap a family and day, every miss explained |
| Batch pipeline (`scheduler`, `ingest`, `compute`, `notify`) | `daily_closes`, `price_snapshots`, `trend_analyses`, `job_runs` | three stages in order, each its own session | on-demand ingest, watchlist requests | stage failing half-way, concurrent on-demand ingest | no email twice, trends match the watchlist |
| On-demand ingest (`jobs/on_demand.py`) | the same tables, one ticker | after a stock is added | pipeline | runs beside `compute` | never breaks the batch |
| Watchlist and rules API | `watchlist_items`, `notification_rules` | add, remove, upsert rule | on-demand ingest | removal during ingest | removed stocks never alert |
| Heartbeat and job audit | `job_runs`, `_reported` | hourly check of the last slot | pipeline, log handlers | slow or killed runs, restarts, pruning | alerts exactly when a slot was missed |
| Admin alerts and stored logs (`services/alerts.py`, `log_handler.py`) | `_dedup_state`, breaker counters | log handlers, events | everything that logs | re-entrancy, locks, concurrent errors | never raises, never hangs, one email a window |
| Sign-in (`services/auth.py`, `send_limits.py`) | `login_tokens`, `sessions` | request, verify, resolve, revoke | email | crossing requests | links work once, waits hold and end |
| Addresses and opt-outs (`confirm_email.py`, `email_prefs.py`) | `users`, `confirmation_tokens`, `email_opt_outs` | change, confirm, unsubscribe | every sender | change while a job is sending | nothing to unconfirmed addresses |
| Story providers (`service.py`, `health.py`) | `_paused_until`, `_alerted_at` | failover, pause, key check, mails about problems | story threads | late answers, crossing mails | a pause holds; the last mail is true but where mails cross, are refused or outlive the process |
| Story writing (`articles/pipeline.py`, `validate.py`) | one story, its attempts and reasons | research, write, review, rewrite | providers | deadline, partial failure | only reviewed versions leave, the reason is the true one |
| Stock data (`stock_data.py`) | `_call_times` | rate limit, parse | provider | threads sharing a window | above the limit only by threads held up at the lock |
| Prices and trends (`price_history.py`, `trend.py`) | `daily_closes`, `price_snapshots` | upsert, windows, flags, prune | pipeline, recap | corrections, late bars, boundaries | a new low is one |
| Day report (`diagnostics.py`, `daily_summary.py`) | none: reads `job_runs`, `recap_sends`, `delivery_outcomes` | match runs to slots, explain misses | dashboard, digest | drift, restarts, lost rows | every missed slot shown, every miss has its cause |
| Triage (`triage.py`) | `finding_states` | observe, set state, annotate | dashboard, digest | readers and decisions crossing, midnight | silence ends, days counted once |
| Money ideas (`money_ideas.py`) | `money_idea_sends` | choose the next idea | recap | order, lost rows | ideas take turns |
| Retention, schema, settings, seeding, data lens, retrieval, feedback, front end | their tables | mostly read-only or one statement | | | |

`PROJECT.json` lists every component with its sources, and under `hazards`
each place in the code that is hard to test.

## 2. What is modelled

### Stories (`Stories.tla`)

The stories of one trading day: `StockArticle`, `ArticleFollowup`, the thread
pool, and the parts of the intraday job and the recap that use them.

| variable | code |
|---|---|
| `story` | `StockArticle.status`; "empty" stands for `no_clear_cause` and `failed` |
| `old` | pending rows with `created_at` before the sweep's cutoff |
| `worker` | the future of each story: generating, stored, telling, or none |
| `generations` | how often `_submit` got the story (history) |
| `row` | `ArticleFollowup.status`, one per (article, user) |
| `logged` | committed `NotificationLog` and `RecapSend` rows of the day |
| `promised`, `mailed` | emails that left: "still looking" notes and follow-ups (history) |
| `run` | the locals and the open session of each job |
| `pass` | one loop of `send_waiting_followups`, in a job or a pool thread |
| `recapRan`, `faults` | the recap's slot of the day; the bound on faults |

A step lasts from one commit, fresh read or email to the next, so any two
threads may interleave wherever the database or the outside world can see it.
The jobs walk through `sweep`, `giveup`, `resend` (the sweep), `detect`, `plan`,
`insert`, `submit`, `wait` (`ensure_articles` and `wait_for`), `send`, `check`,
`commit` and `post` (the loop after the commit). The intraday job sends all its
emails and commits once; the recap commits per family and looks for an earlier
follow-up first. Faults are exceptions at each place, with the `except` and
`rollback` that catch them, and restarts.

Abstractions. A story is a (ticker, direction) of the day. Which rules fire, who
is confirmed, whether providers are paused, and what the AI returns are free
choices, so every combination is covered. A follow-up may be abandoned at any
time, because a family can unsubscribe at any time. Email layout and delivery diagnostics are left
out. An intraday alert about the same stock may be repeated unless its story is
pending: the code allows it after three hours (`DEDUP_WINDOW`), and by then
a pending story has timed out or been given up (20 minutes), while one that the
cap or a pause prevented may still be absent. The recap's first email uses the
status its wait returned, later ones read it again, because the commit of the
one before expires the rows (`PendingFor`). `GrowOld` says only
that time passes. `SlowTick` says whether the last intraday run of the day can
still be going when the recap starts at 16:30.

### FollowupContract (`FollowupContract.tla`)

What the follow-up table promises, in five moves on one debt: owed, taken,
told, dropped, lost. `Stories` implements it under the mapping `DebtOf`
(`KeepsContract`): "taken" is a claimed row whose email is about to leave, and
"lost" one whose thread died between the two.

### Runs of Stories

| run | instance | shows |
|---|---|---|
| `stories_day` | 2 stories (1 big), 1 family, cap 1, 1 fault, no overlap | `TypeOK`, `NobodyLeftWaiting`, `PromiseRecorded`, `CapRespected` |
| `stories_races` | 1 story, 1 family, 1 fault, overlap, fairness | `AtMostOneFollowup`, `GeneratedOnce`, `KeepsContract`, `SettlesDebts` |
| `stories_clash` | 1 story, 2 families, overlap, no fault | `PromiseRecorded` fails |
| `stories_outcome` | 1 story, 1 family, no fault | `OutcomeFinal` fails |

Bounds. The races are over one story's row and its follow-ups, so one story and
one family with every actor (intraday, recap, pool thread) reach all of them; the cap
needs two stories, one of each size, and cap 1 puts both limits (1 and 2) within
reach; the lost commit needs two families. One fault is enough for every
single crash or exception at every point. No bound is put on the number of
intraday runs.

Fairness (`FairSpec`). Weak fairness of each actor's steps: AI and SMTP calls
have timeouts and `wait_for` has one, the scheduler starts the intraday job
again on every tick of the trading days, and time passes. No fairness on the faults or on
`StartRecap`. The weak fairness of `PassStep` covers abandoning and claiming
together, because the code decides between them. `SettlesDebts` relies on the
sweep: without it a restart leaves debts waiting.

### What the runs of Stories found

* `stories_clash`. The intraday job adds follow-up rows for all its emails and
  commits them once (`intraday.py:527`). If a slow last run is still at it while
  the recap commits a row for one of the same families, the unique key fails
  the whole commit: no family of that run has its follow-up (or its log) row,
  although all were told "we're still looking". The recap checks first; the
  intraday job does not.
* `stories_outcome`. `sweep` reads the pending rows, then asks `_is_running`,
  and its update names the row by key only. A story finished in between is
  overwritten as failed.
* `CapRespected` is checked with `SlowTick = FALSE`. With two jobs planning at
  the same time `created_today` is stale and the cap can be passed by what the
  other job creates.

### Proofs about Stories (`StoriesProofs.tla`)

For all constants that satisfy `StoriesAssumption`:

| theorem | property | argument |
|---|---|---|
| `TypeCorrect` | `TypeOK` | inductive as it stands |
| `FollowupsNeverRepeat` | `AtMostOneFollowup` | `ClaimInv`: a follow-up was mailed at most once, and not at all while somebody holds it; a held one is "sent"; it has one holder |
| `StoriesGeneratedOnce` | `GeneratedOnce` | `GenInv`: an absent story was not begun; a job about to submit has just created its row; only one job is |
| `NobodyWaits` | `NobodyLeftWaiting` | `HandOverInv`: without faults each waiting row is in the hands of a loop that will reach it, or its story is still pending and in the hands of a job or a thread |
| `CapNeverPassed`, if `~SlowTick` | `CapRespected` | `OneAtATime`, and `CapInv`: the number of stories a job read when it began to plan is still the day's number, because nobody else creates or removes one |
| `PromisesRecorded`, if `~SlowTick` | `PromiseRecorded` | `PromiseInv`: without faults a promise has its row or its draft, and no row a job is about to commit is there already |
| `ContractKept` | `KeepsContract` | `ClaimInv` and `GenInv`; each action moves debts as `FollowupContract` allows or leaves them alone |

None of these properties is inductive: `mailed <= 1` says nothing about
a second holder that is about to mail, `generations <= 1` nothing about two
jobs at `submit`, "nobody is waiting when the process is quiet" nothing
about who is going to look while it is not, and a promise whose row is still to
be committed needs to know that the commit will not fail. The intraday job does
not look for a row before it adds one: that none is there follows from its
promising only stories that are still pending, and from the log that keeps a
family from hearing of a pending story twice (`RowsLogged`, `TodoNew`).

The hypothesis `~SlowTick` of two theorems is the code's normal day: the last
intraday run, at 16:00 or before, is over when the recap starts at 16:30. It
cannot be dropped. Nothing in the code enforces it, and without it `stories_clash`
finds `PromiseRecorded` violated; `CapRespected` falls with the stale count. The
other theorems hold with and without it. `SettlesDebts` is liveness and stays with
TLC.

### Pipeline (`Pipeline.tla`)

The batch run (`run_full_pipeline`: ingest, compute, notify), the background
ingest of every added stock (`ingest_ticker_for_user`), and the requests that
change watchlists and rules.

| variable | code |
|---|---|
| `watch`, `rule` | `watchlist_items`; enabled `notification_rules` for highs and lows |
| `snap` | `price_snapshots` with the newest `daily_closes`: "none", "calm" or "extreme" |
| `trend` | `trend_analyses`, one per (user, ticker) |
| `recent` | committed `notification_logs` inside `DEDUP_WINDOW` |
| `mails` | alerts that left inside the window (history) |
| `batch` | the run's stage, locals and open transaction; `new` holds the snapshots it wrote, `sent` its uncommitted log rows, `kept` the pairs watched since it began (history) |
| `task` | the background ingest of each pair: `start`, `fetch`, `replace`, `trend` |
| `requests`, `faults` | the bounds |

A step is one statement or group of statements between which no other
transaction can change the outcome. Each table is rewritten by a SELECT, a
DELETE of what was found and an INSERT under a unique key. At READ COMMITTED
the DELETE waits for a row another transaction holds; after that one commits it
deletes nothing (SQLAlchemy only warns) and the INSERT violates the key. The
model keeps who holds which rows (`BatchHolds`, `TaskHolds`, `ComputeHolds`) and
whether a row read was replaced since (`stale`, `rows`). After a failed flush
the batch's session refuses everything until a rollback, which `run_ingest`
does not do, so `IngestClash` ends the run. A stale transaction need not clash:
when it only updates the newest close it waits there, and reads the snapshot
afterwards.

Abstractions. Prices are extreme or not; which rules fire, who is confirmed and
which fetch yields data are free choices. Two slots do not run at the same time
(they are at least 2 h 55 min apart). One background ingest per pair at a time.
Rules for price changes belong to the intraday job. `NotifyRules` reads trends
and rules in one step.

| run | instance | shows |
|---|---|---|
| `pipeline_batch` | 2 families, 1 stock, 2 requests, 1 fault, fairness | `TypeOK`, `NoDoubleSend`, `ComputedForAll`, `AddedStockShown`, `RemovedStockForgotten` |
| `pipeline_resend` | 1 family, 1 stock, 2 requests, 1 fault | `NoDoubleSendAcrossRetries` fails |
| `pipeline_clash` | 2 families, 1 stock, 2 requests, no fault | `OnDemandHarmless` fails |

Bounds. Rows of different stocks are replaced independently, so one stock has
all the clashes; two families give two background ingests of one stock beside
the batch. Two requests let a family add a stock and set a rule or remove it
again, or two families race; the three invariants are proved for any number. One fault is one exception or restart at
every point. Batch runs are not bounded. Several tickers only make
`IngestClash` lose more.

Fairness. Weak fairness of `BatchStep` (the scheduler starts the next slot;
fetches and SMTP time out) and of each background ingest. None of requests,
faults or `WindowOver`. Requests end, so a stock that is added and removed
forever is not covered by the two liveness properties.

Found:

* `pipeline_resend`. All log rows of a notify run are committed once, after its
  last email, so an exception or a restart makes the next run inside the window
  repeat every alert already sent. `NoDoubleSend` says it takes a fault.
* `pipeline_clash`. A family that adds a stock at the wrong moment ends the
  batch run: no prices, no trends and no alerts for anybody until the next slot.

Proofs (`PipelineProofs.tla`), for all families, stocks and bounds:

| theorem | property | argument |
|---|---|---|
| `TypeCorrect` | `TypeOK` | inductive with `StageOK`: what each stage leaves in the locals |
| `NoAlertTwice` | `NoDoubleSend` | `Logged`: without faults an alert of the window is in the log or in the open transaction, and what was sent is not due again |
| `EveryoneComputed` | `ComputedForAll` | `Priced`: a pair of `kept` is still watched, a background ingest about to write holds a price, and what ingest wrote has a price when compute reads |

`mails <= 1` alone allows an alert sent and not logged while it is due again;
`ComputedForAll` alone says nothing before compute has run. Left to TLC:
`AddedStockShown` and `RemovedStockForgotten`, which are liveness.

### Accounts (`Accounts.tla`)

Signing in by link, the limit on emails to one address, the address alerts go
to, opt-outs, and a job that reads the accounts, may wait, and sends.

| variable | code |
|---|---|
| `user` | `users`: `notify_email` and `email_confirmed_at`, by login address |
| `link`, `click` | `login_tokens`, `confirmation_tokens`: when issued, whether used |
| `optOut` | `email_opt_outs` |
| `req` | the rows an open request has loaded |
| `job` | what an alert job has read of the account it is about to mail |
| `clicked` | addresses a family proved to be its own (history) |
| `blind`, `missed` | commits that a writer of a row, or a token's request, had not seen (history) |

A request is two steps, what it reads and what it commits; any requests and the
job may cross. `Written` is SQLAlchemy's UPDATE: only the columns the request
changed from what it loaded. So a confirmation that crosses a change of address
can leave the new address confirmed by the old click, which `ConfirmedByClick`
allows by its `blind` clause and by nothing else.

The send limit (`send_limits.py`) is a question to the set of the tokens of one
address: its newest send is less than the cool-down ago (`TooSoon`), or the
window holds a burst (`TooMany`). `RetryAfter` is what the refused family is
told, `WaitUntil` when it may come back. `Sends` are only the tokens of the
window, as the code's query reads them, so a cool-down beyond the window would
have no effect; `AccountsAssumption` asks for `Cooldown <= Window` (30 seconds
and 10 minutes in `settings.py`, which does not check it).

`accounts_mail` (one account, one address that joins, a third address; two
requests open at a time; a clock that goes on once): `TypeOK`, `ConfirmedByClick`,
`OneSessionPerLink`, `Paced`, `WaitsEnd`, `AddressTaken`, `AlertsAsChosen`. Two
requests are every pair of requests that cross, and the job beside them. Three
addresses let an account move to a free address, to one that belongs to another
account, and let another account appear on it meanwhile. Two confirmation links
are a change of mind. One move of the clock is the difference between two
emails inside the cool-down and two a cool-down apart; the longer waits, and the
cap on a burst, are exercised by `WaitsEnd`, which computes with later times. The
end of a link's life is a guard of the model that this run does not reach. All
seven properties are proved for any number of links and moves of the clock.

Known to the model and kept as a note: the intraday job reads the addresses,
waits for a story, and then mails the address of the account as it is by then,
which the family may have changed and not yet confirmed (README.md:49-52 of the
repository says alerts wait for the confirmation; `intraday.py:279`,
`confirm_email.py:94`). `AlertsAsChosen` allows it as a change after the read.

Who may take an address is asked where an alert address changes, and nowhere
else: `verify_magic_link` creates an account without it (`auth.py:120-124`). So a
family that signs up at an address another account had confirmed before gets
its alerts there too, with nothing crossing. Both have shown that the mailbox is
theirs; `AddressTaken` states this as its second exception, beside a confirmation
that had missed a commit.

Left out: how sessions end, roles, the per-IP limiter, signatures of links.

Proofs (`AccountsProofs.tla`), for all addresses, requests, delays and bounds,
from `AccountsAssumption`:

| theorem | property | argument |
|---|---|---|
| `TypeCorrect` | `TypeOK` | `TypeInv`: accounts and tokens are never deleted, so what an open request is about is still there when it commits |
| `ConfirmedOnlyByClick` | `ConfirmedByClick` | `ClickInv`: a request about an account holds its row as it is, or has missed a commit of it |
| `LinkOpensOneSession` | `OneSessionPerLink` | `LinkInv`: nobody is opening a session with an unused link, one request is with a used one until its session is counted, and whoever still holds it as unused has missed its use |
| `EmailsPaced` | `Paced` | `PaceInv`: no token is of the future, and an open request that may send still may, or has missed the commit of another token |
| `WaitingHelps` | `WaitsEnd` | the cool-down is over after the first wait, the burst thins out with the second, and both stay so (`AfterSoon`, `AfterMany`, `CalmLater`) |
| `NoAddressTaken` | `AddressTaken` | `KnowsInv`: whoever else had the address when a confirming request read the accounts has it still, or the request has missed the commit; a sign-up only ever starts alerts at its own address |
| `AlertsGoAsChosen` | `AlertsAsChosen` | `JobKnows`: the account and the opt-out are as the job read them, or it has missed the commit |

None of the properties is inductive: each is about rows, and breaks by what a
request or the job has read of them before. The last four share two lemmas
about every step: it announces each row it changes (`Announced`), and an open
request notes each announcement about its rows (`Committing`). So what somebody
knows of a row either holds or is marked as missed. `WaitsEnd` is a state
property that computes with later times; its proof is about sets of times and
holds for any number of tokens, also for more than crossing requests can leave.

### Operations (`Heartbeat.tla`, `Alerts.tla`, `Operations.tla`)

`Heartbeat` is `job_runs` as the hourly check sees it: slots that are started,
slow, killed, failed or recorded, the cleanup that prunes the rows, and the set
`_reported` that a restart forgets. `Alerts` is an ERROR record on its way
through the root logger's handlers: `stack` holds the records a thread is in the
middle of, because `send_email` logs its refusal on the same thread inside the
handler that was mailing. `logging.Handler.handle` holds the handler's
re-entrant lock meanwhile. `Operations` composes the two: a stage that raises
and a missed slot are logged by their own threads, and a job goes on only when
its logging call has returned. A restart clears all that is in memory.

| run | instance | shows |
|---|---|---|
| `operations_hours` | 2 slots, 2 threads, the mailing handler and one store, 1 failed stage, 1 restart, fairness | `TypeOK`, `OneAlertPerWindow`, `ReportedOnce`, `AlarmHasCause`, `LoggingReturns`, `MissedSlotMailed` |
| `operations_deadlock` | the same, no restart, and writes whose failure the connection pool logs | `NoHandlerCycle` fails |

Bounds. Two slots are one that can be missed while the next is due, with the
cleanup's shortest legal retention in between. One store stands for the two:
each is a handler with a lock and a breaker, and the one before the mailing
handler behaves like the one after it. Two threads are the pipeline and the
heartbeat, which log at the same time. Refusals of different alerts read alike
after two, because each quotes a subject cut at 80 characters.

Fairness. The clock goes on; the heartbeat is scheduled every hour; a thread in a
handler goes on, because SMTP has a timeout of ten seconds and a database
write answers or fails; and strong fairness for the handing over of a lock.

Found (`operations_deadlock`). `alerts.py` promises that alert delivery never
goes back through the logging system. `send_email` does log, so a thread inside
the mailing handler takes the other handlers' locks; and a store whose write
fails can make SQLAlchemy's pool log an error inside the store's handler, which
takes the mailing handler's lock. Two threads can do that in opposite order and
wait for each other for ever.

"Never started" in the heartbeat's message also covers a run that is still going
after half an hour, was killed by a restart or lost its row; `AlarmHasCause`
says which. `scheduler.py:251` speaks of "no successful pipeline in the last ~26
hours", which is not what `heartbeat.py` asks.

Proofs (`OperationsProofs.tla`), for all slots, threads, handlers, messages and
bounds, with or without pool errors:

| theorem | property | argument |
|---|---|---|
| `AlertedOnce` | `OneAlertPerWindow` | `AlertInv`: a message that is not remembered has not been mailed in this window |
| `SlotReportedOnce` | `ReportedOnce` | `ReportInv`: a slot not in `_reported` has not been logged, and one about to be logged is not in it |
| `AlarmsJustified` | `AlarmHasCause` | `FateInv`: the row of a recorded run is there or older than the retention, which the last due slot never is |
| `TypeCorrect` | `TypeOK` | `TypeInv`, one conjunct for the clock, the jobs, the records on the threads' stacks, the stores and the counts |

`AlertsAssumption` takes the handlers as a sequence of names. `LoggingReturns`
and `MissedSlotMailed` are liveness and stay with TLC.

### The small parts (`Parts.tla`)

Nine state machines that share no state. A behaviour of `Parts` is one of them,
chosen at its start; `parts_all` checks them all with every invariant. Their
bounded counters run out, so the runs do not look for deadlocks.

**`Providers`**: which AI provider is asked. A refused key or quota pauses a
provider for half an hour; story threads and the key check (at start-up and with
each daily summary, `ChecksAgain`) change the tables under `_lock` and send
their mails after it. The job asks `stories_paused` when it plans a story, its
thread looks at each provider later. A mail may be refused (`MailRefused`), which
nobody notices, and a restart empties the tables. `PauseEndsLate`: only a
call that began before the pause ends it early. `LastMailTrue`: the admin's last
mail about a service says what the process remembers, with three exceptions, kept
in `doubtful` until the next mail: two mails left at once, the last one was
refused, or it told of a problem to a process that is gone. The last two are a
divergence from what the mail itself promises (`service.py:247`: an email when
the service works again), listed as a finding. In the run one story thread and
the key check compete for two providers and one news service, and each of the
three exceptions occurs; the theorems hold for any number of threads. `Reminded`
bounds whose six hours may pass. One pass of the key check runs at a time: the
report of missing keys in `ensure_articles` is such a pass that finds only those.
Left out: `startup_check`'s own mail about changed settings.

**`StoryWriting`**: `run_pipeline`, from research to the last review, under
the deadline of the email that waits. All attempts share one `diag`.
`OnlyReviewedSent`: every version sent passed its checks and the review of the
same attempt. `ReasonTrue`: the recorded reason is what ended the last attempt.
For a story sent at a later attempt the reason of a *missing age* may come from
an earlier one, which the property leaves out and says so. Two age groups, two facts, one of
them flawed, three attempts, calls that take 0 to 2 with a deadline at 5. The
number of attempts is recorded after the loop, so an attempt that raised is not
counted.

**`StoryEmails`** (on `StoryWriting`): what an email shows and what is counted,
at any moment of the story. `EmailsCounted`: each email is counted once, as what
the family saw, and a miss raises a finding. A row whose content can no longer
be read is left out. `no_prev_close` cannot be recorded: the intraday run drops
such a stock before any alert.

**`RateLimit`**: two callers, two slots per window of 3, patience 4, a thread
held up by at most 1. `NeverAbovePerMin`: of three slots in a row, taken at the
times they are really given, the last comes at least `Minute - Lag` after the
first. The booked time is read before the lock, so a full minute may hold more
than the provider allows, by threads held up there.

**`DayReport`**: a day of slots, runs and recaps, and what `diagnostics.py`
makes of the rows. Two slots of one job and the recap, one family, two troubles
(restarts, exceptions, rows refused), one change of settings.
`MissedSlotsCounted`: the right *number* of slots is reported missing. Which of
them, and the drift of the others, may be wrong: a slot without a run claims the
next one's, unlike the comments in `diagnostics.py:420-425`.
`MissExplained`: every family that was due a recap and has none is given a cause
on record, or the loss of a row. A run still going is reported as never
having run; a recap that raised or met a holiday leaves no `JobRun`; a mail the server
refuses counts as sent; `health` may say HEALTHY with one missed slot beside a
successful run.

**`AlertRows`**: one family's alerts of a day on one stock. `parts_alerts`
(`AlertsLineUp` fails): two jobs write alerts, only one writes outcomes, and the
report pairs them by position; the row of one alert shows another's reason.

**`Triage`**: `finding_states` written by two requests at a time over three
days: readers, the digest, decisions, midnight between their steps.
`SilenceEnds`: a finding is hidden exactly as long as the last decision says.
`SeenOncePerDay`: `days_seen` counts days. Both leave out a finding written by
somebody whose day was over (`behind`), who may pull the dates back and count a
day again, and `SilenceEnds` one with two overlapping decisions (`overlapped`),
which may leave "resolved" without a date: these two orders do go wrong, and the
properties say that no other does.

**`MoneyIdeas`**: five ideas, two of them tagged, for the code's twenty; the
window of the two oldest for the code's five; two basics for four; fourteen
days, almost three rounds. `IdeasTakeTurns`: basics first, no early repeat, and
every idea has its turn again, with one email refused or one row lost. An idea
is passed over only by tagged ones that fit the day, each at most
`OldestWindow - 1` times more than once, so before its next turn fewer emails come
than there are ideas and (`OldestWindow - 1`) for each tagged idea. The
assumption that the untagged ideas are at least `OldestWindow` holds in the code
(15 of 20, and 5).

**`Prices`**: one stock over five days with a window of one, a fetch of two
and a retention of three days; the provider may be late, move a price and
correct a past one. `LowIsGenuine`: a trend's new low (high) and the recap's
record are strictly beyond every close of the window as last fetched. A price
that equals the lowest close is no new low: `_strictly_below` (`trend.py:39`)
says so, while the repository's `README.md:65-68` describes the rules as firing
when today's price equals the rolling low; a finding says so. It assumes
`Retention >= History + Span`, as the default of 3650 days gives; the comments
of `models.py:422` and `cleanup.py:6` still speak of 365.

**`RangeAlerts`**: the intraday runs over one stock and one family: market
hours, a previous close of at most four days, the band, the rows stamped when the
run commits, runs that are lost, and the recap's note on rules that stayed
quiet. An alert comes (`came`), is refused by the mail server, which
`send_email` only logs, so its row is written all the same, or raises, which leaves
no row and lets the next run try again; `delivery.py:484-487` describes neither of
the last two rightly, and a finding says so. `AlertsSpaced`: no second alert within
`DEDUP_WINDOW` unless its row was lost; whoever was outside in a completed run
was told then or within the window, or has the row of a refused mail, which
keeps the family quiet for no longer; the query for an earlier row never finds two,
and the recap does not say that an alert which was logged did not go off.
`LongestRun` bounds a run: its wait for stories is bounded in the code, its fetches
and mails are not, so this is an assumption. Families are
independent of each other inside a run, so one is enough; moves are -2, 0
and 2 around a band of one, closes of age 0, 4 and 5. It relies on
`max_instances=1`: two overlapping processes could write two rows, and
`scalar_one_or_none` would then raise for hours. An alert whose row was lost is
said not to have gone off. The baseline may be up to four days old and is still
called yesterday's (`intraday.py:131-139`).

### Proofs about the small parts

For all constants that satisfy each part's assumption:

| theorem | property | inductive invariant |
|---|---|---|
| `AdminToldTheTruth` | `LastMailTrue` | `MailInv`: for a service that is not `doubtful`, one mail at most is on its way, it says what the tables say, and without one the last mail does |
| `OnlyOlderCallsEndPause` | `PauseEndsLate` | `CallersLate`: whoever still calls a paused provider began before the pause |
| `FamiliesGetReviewed`, `ReasonIsWhatHappened` | `OnlyReviewedSent`, `ReasonTrue` | `StageInv`: at each stage, what this attempt has found, written and refused; `FirstInv`: what the first attempt cannot have left behind |
| `EmailsCountedAsSeen` | `EmailsCounted` | the same; then by cases of the row's status |
| `NoMinuteTooFull` | `NeverAbovePerMin` | `SlotInv`: the calls kept are the newest slots given, each booked at most `Lag` before; a dropped one is a window old |
| `LowsAreGenuine` | `LowIsGenuine` | `ClosesHeard`: the table is what the provider last said, but for days too old for any window; `SnapOK`, `TrendOK`: snapshot and trend follow from the closes they were made of |
| `AlertsAreSpaced` | `AlertsSpaced` | `RowsInv`: rows are more than the window apart, each has its alert at most a run's length before, and each alert kept has its row; `RunInv`: whom the open run alerts has no row of late, and who was outside waits, has a row to come or was told |
| `DaysCountOnce`, `SilenceHasAnEnd` | `SeenOncePerDay`, `SilenceEnds` | `FindingInv`: what each open request has read of a finding is the row as it is, or it is known to cross another request |
| `MissesAreExplained` | `MissExplained` | `RecapInv`: whom the recap run has passed is settled, by a row, a cause or a refused write |
| `ReportsCountMisses` | `MissedSlotsCounted` | `RunsInv`: each slot due has at most one run, none earlier than the slot; then a matching argument |
| `EveryIdeaHasItsTurn` | `IdeasTakeTurns` | `WaitInv`: while an idea waits, an untagged one comes once at most, and a tagged one each time with fewer ideas ahead of the waiting one |
| `PartsTypeCorrect` | `PartsTypeOK` | the parts' own type theorems |
| `PartsKeepTheirPromises` | all of the above | `PartsAreParts`: a behaviour of `Parts` is one of each part |

None of the properties is inductive. `MissedSlotsCounted` needs an argument
beyond an invariant: in the order of the day, the report gives each slot the
nearest run of its job that is still free. The proof shows that no slot still to
come is given one (`NobodyAhead`) and that no run is left over
(`EveryRunClaimed`). So as many slots go without a run as there are slots
without a run of their own, although they may be others.

Assumptions and where they come from. The age groups and the chain of
providers are not empty; the services, the news service and the key check have
names of their own (`Providers`). A limit of zero turns the limiter off, so
`PerMin` is positive. The schedule of a day is in the order of its hours and
ends with the recap. `Retention >= History + Span` holds with the default of
3650 days and a year each (`Prices`). The recap comes later after the close than
a run lasts: half an hour against two minutes of waiting, and what fetching and mailing add (`RangeAlerts`). Other
settings could break the last two, and nothing in the code would notice.

Found while proving. The bound of `NobodySkipped` used to be the number of
ideas and of tagged ideas. TLC agreed, because with a window of two that is the
bound above; the proof did not go through for wider ones. With the code's window of
five, five tagged ideas and twenty in all, a family can read up to 39 emails
before an idea comes again. `EmailsPaced` and `WaitingHelps` needed the cool-down to be
within the window, or the tokens read would not show it.

## 3. Plan

Done: the modules above, in this order: `Stories` with `FollowupContract`,
`Pipeline`, `Accounts`, `Operations`, the parts of `Parts`; and a theorem for
every invariant and every action property of the runs.

Next:

1. An abstract send limit that `Accounts` implements, as `FollowupContract` is
   for `Stories`; one for the alerts of `Pipeline`, which its log and its open
   transaction implement.
2. The strengthened invariants of the smaller parts, where a shorter argument
   is to be had.

Not planned: proofs of the five liveness properties (`SettlesDebts`,
`AddedStockShown`, `RemovedStockForgotten`, `LoggingReturns`,
`MissedSlotMailed`), which need fairness and `ENABLED`, beyond this prover.

## 4. Not modelled

* Data lens, query library, retrieval of lesson sources: read-only questions to
  the database and the file system, without state of their own.
* Front end, email layout, prompts: presentation. What a child may read is
  decided by the checks of `StoryWriting`; which words they look for is data.
* The texts and sums of the day report: counts of prices, errors, storage.
* Start-up, settings, schema, seeding: one pass each, before anything runs.
  What can go wrong between start and the first job is in `Providers`
  (`check_keys`) and in the restarts of the other modules.
* Feedback and story preferences: one row written per request, read as a free
  choice of ages where stories are sent.
* Liveness and fairness are modelled, and checked on the instances above, but
  not proved. The runs that find a violation are about those instances too.
