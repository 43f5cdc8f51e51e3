-------------------------------- MODULE Alerts --------------------------------
(***************************************************************************)
(* What happens to an ERROR record: every thread that logs one takes it    *)
(* through the root logger's handlers in order: the one that stores it in  *)
(* log_entries, the one that emails the admin, the one that stores it in   *)
(* info_logs. logging.Handler.handle holds the handler's own re-entrant    *)
(* lock meanwhile, so threads queue. The mailer's own failure is logged    *)
(* too, on the same thread, inside the handler that was mailing.           *)
(*                                                                         *)
(* Each definition named ...Bug is the one after it with a mistake; no     *)
(* specification uses it.                                                  *)
(***************************************************************************)
EXTENDS Naturals, Sequences, FiniteSets, FiniteSetsExt, Functions

CONSTANTS
  Threads,      \* threads that log
  Handlers,     \* the root logger's: log_entries, email, info_logs
  Messages,     \* messages, one fingerprint each
  Refusal(_),   \* what send_email logs when it cannot send the alert about a message
  PoolErrors,   \* what sqlalchemy's loggers may say of a write that fails
  MaxFailures   \* _MAX_CONSEC_FAILURES

ASSUME AlertsAssumption ==
  /\ Handlers \in Seq(STRING)
  /\ \A m \in Messages : Refusal(m) \in Messages
  /\ PoolErrors \subseteq Messages
  /\ MaxFailures \in Nat \ {0}
  /\ "email" \in Range(Handlers)

VARIABLES
  stack,     \* the records each thread is handling, the innermost last
  recent,    \* _dedup_state: messages mailed inside the window
  failures,  \* DBLogHandler and InfoLogHandler: failed writes in a row
  off,       \* the stores that are disabled for a minute
  mailed     \* history: alerts tried per message inside the window

alertVars == <<stack, recent, failures, off, mailed>>

Stores == Range(Handlers) \ {"email"}

(* A record on its way: `at` counts the handlers, `inside` that the one at *)
(* `at` works on it and its lock is held.                                  *)
Records == [msg : Messages, at : 1..Len(Handlers), inside : BOOLEAN]

AlertsInit ==
  /\ stack = [t \in Threads |-> <<>>]
  /\ recent = {}
  /\ failures = [s \in Stores |-> 0]
  /\ off = {}
  /\ mailed = [m \in Messages |-> 0]

Quiet(t) == stack[t] = <<>>
Top(t) == stack[t][Len(stack[t])]
Handler(t) == Handlers[Top(t).at]
Holds(t, h) ==
  \E i \in DOMAIN stack[t] : stack[t][i].inside /\ Handlers[stack[t][i].at] = h
FreeBug(t, h) == \A u \in Threads : ~Holds(u, h)
Free(t, h) == \A u \in Threads \ {t} : ~Holds(u, h)

(* The innermost record leaves its handler for the next one; after the     *)
(* last the call returns, and with it the handler that made it.            *)
Passed(r) == [r EXCEPT !.at = @ + 1, !.inside = FALSE]
Left(q) ==
  LET goesOn == {i \in DOMAIN q : q[i].at < Len(Handlers)}
      n == Max(goesOn)
  IN  IF goesOn = {} THEN <<>> ELSE [SubSeq(q, 1, n) EXCEPT ![n] = Passed(@)]
Pushed(q, m) == Append(q, [msg |-> m, at |-> 1, inside |-> FALSE])

-----------------------------------------------------------------------------
(* log.error, log.exception, log.critical of a thread that logs nothing.   *)
LogError(t, m) ==
  /\ Quiet(t)
  /\ stack' = [stack EXCEPT ![t] = Pushed(<<>>, m)]
  /\ UNCHANGED <<recent, failures, off, mailed>>

Arrives(t, h) ==
  /\ ~Quiet(t) /\ Handler(t) = h /\ ~Top(t).inside
  /\ Free(t, h)

GoesIn(t) == stack' = [stack EXCEPT ![t][Len(stack[t])].inside = TRUE]
Leaves(t) == stack' = [stack EXCEPT ![t] = Left(@)]

(* A write that fails may make the connection pool log an error, on the    *)
(* same thread and before the handler is left.                             *)
LeavesOrComplains(t) ==
  \/ Leaves(t)
  \/ \E m \in PoolErrors : stack' = [stack EXCEPT ![t] = Pushed(@, m)]

(* DBLogHandler.emit, InfoLogHandler.emit: nothing while disabled and of   *)
(* what sqlalchemy logs; else one write, whose outcome is counted.         *)
StoreSkips(t, s) ==
  /\ Arrives(t, s)
  /\ s \in off \/ Top(t).msg \in PoolErrors
  /\ Leaves(t)
  /\ UNCHANGED <<recent, failures, off, mailed>>

StoreBegins(t, s) ==
  /\ Arrives(t, s)
  /\ s \notin off /\ Top(t).msg \notin PoolErrors
  /\ GoesIn(t)
  /\ UNCHANGED <<recent, failures, off, mailed>>

Writing(t, s) == ~Quiet(t) /\ Handler(t) = s /\ Top(t).inside

StoreWrites(t, s) ==
  /\ Writing(t, s)
  /\ failures' = [failures EXCEPT ![s] = 0]
  /\ Leaves(t)
  /\ UNCHANGED <<recent, off, mailed>>

StoreFailsBug(t, s) ==
  /\ Writing(t, s)
  /\ failures' = [failures EXCEPT ![s] = @ + 1]
  /\ off' = IF failures[s] + 1 >= MaxFailures THEN off \cup {s} ELSE off
  /\ Leaves(t)
  /\ UNCHANGED <<recent, mailed>>
StoreFails(t, s) ==
  LET trips == failures[s] + 1 >= MaxFailures
  IN  /\ Writing(t, s)
      /\ failures' = [failures EXCEPT ![s] = IF trips THEN 0 ELSE @ + 1]
      /\ off' = IF trips THEN off \cup {s} ELSE off
      /\ LeavesOrComplains(t)
      /\ UNCHANGED <<recent, mailed>>

CooldownOver(s) ==
  /\ s \in off
  /\ off' = off \ {s}
  /\ UNCHANGED <<stack, recent, failures, mailed>>

-----------------------------------------------------------------------------
(* EmailAlertHandler.emit: one alert per message and window. The message   *)
(* is remembered before the alert is tried.                                *)
MailSkips(t) ==
  /\ Arrives(t, "email") /\ Top(t).msg \in recent
  /\ Leaves(t)
  /\ UNCHANGED <<recent, failures, off, mailed>>

MailBeginsBug(t) ==
  /\ Arrives(t, "email") /\ Top(t).msg \notin recent
  /\ mailed' = [mailed EXCEPT ![Top(t).msg] = @ + 1]
  /\ GoesIn(t)
  /\ UNCHANGED <<recent, failures, off>>
MailBegins(t) ==
  /\ Arrives(t, "email") /\ Top(t).msg \notin recent
  /\ recent' = recent \cup {Top(t).msg}
  /\ mailed' = [mailed EXCEPT ![Top(t).msg] = @ + 1]
  /\ GoesIn(t)
  /\ UNCHANGED <<failures, off>>

Mailing(t) == ~Quiet(t) /\ Handler(t) = "email" /\ Top(t).inside

MailSent(t) ==
  /\ Mailing(t)
  /\ Leaves(t)
  /\ UNCHANGED <<recent, failures, off, mailed>>

(* send_email logs the failure, which starts over with a new record.       *)
MailFails(t) ==
  /\ Mailing(t)
  /\ stack' = [stack EXCEPT ![t] = Pushed(@, Refusal(Top(t).msg))]
  /\ UNCHANGED <<recent, failures, off, mailed>>

(* The window is over for a message whose alert is not being tried any     *)
(* more: a refusal takes seconds, the window fifteen minutes.              *)
WindowOver(m) ==
  /\ m \in recent
  /\ \A t \in Threads, i \in 1..Cardinality(Messages) :
       i \in DOMAIN stack[t] /\ stack[t][i].msg = m =>
         ~(stack[t][i].inside /\ Handlers[stack[t][i].at] = "email")
  /\ recent' = recent \ {m}
  /\ mailed' = [mailed EXCEPT ![m] = 0]
  /\ UNCHANGED <<stack, failures, off>>

(* A restart forgets all of it.                                            *)
AlertsRestart ==
  /\ stack' = [t \in Threads |-> <<>>]
  /\ recent' = {} /\ off' = {}
  /\ failures' = [s \in Stores |-> 0]
  /\ mailed' = [m \in Messages |-> 0]

HandlerStep(t) ==
  \/ \E s \in Stores :
       StoreSkips(t, s) \/ StoreBegins(t, s) \/ StoreWrites(t, s) \/ StoreFails(t, s)
  \/ MailSkips(t) \/ MailBegins(t) \/ MailSent(t) \/ MailFails(t)

TimeStep ==
  \/ \E s \in Stores : CooldownOver(s)
  \/ \E m \in Messages : WindowOver(m)

-----------------------------------------------------------------------------
(* Properties.                                                             *)

AlertsTypeOK ==
  /\ \A t \in Threads : \A i \in DOMAIN stack[t] : stack[t][i] \in Records
  /\ recent \subseteq Messages
  /\ off \subseteq Stores
  /\ \A s \in Stores : failures[s] \in 0..(MaxFailures - 1)

(* "No more than one email per fingerprint per window": whichever threads  *)
(* log the message, however often, also while its alert fails to leave and *)
(* logs another (_recently_alerted under _dedup_lock).                     *)
OneAlertPerWindow == \A m \in Messages : mailed[m] <= 1

\* "Alert delivery must NEVER raise. If SMTP is the failure mode, alerting
\* on it would recurse forever. Every public function here ... writes
\* diagnostics to stderr, never back through the logging system": so nobody
\* waits in logging, with the mailing handler's lock, for a thread that
\* waits for that lock.
NoHandlerCycle ==
  ~ \E t, u \in Threads :
      /\ t # u /\ ~Quiet(t) /\ ~Quiet(u)
      /\ ~Top(t).inside /\ Holds(u, Handler(t))
      /\ ~Top(u).inside /\ Holds(t, Handler(u))
=============================================================================
