------------------------------ MODULE Providers ------------------------------
(***************************************************************************)
(* Which AI provider writes the stories: the main one, then the backup. A  *)
(* provider that refuses a key or a quota is paused for half an hour; the  *)
(* admin is told of every problem and of its end. Story threads and the    *)
(* start-up check of the keys share the tables, each change under _lock;   *)
(* the mail about it leaves after the lock is released, and nobody looks   *)
(* whether it arrives. A restart of the process forgets the tables.        *)
(*                                                                         *)
(* Each definition named ...Bug is the one after it with a mistake; no     *)
(* specification uses it.                                                  *)
(***************************************************************************)
EXTENDS Naturals, Sequences, Functions, FiniteSetsExt

CONSTANTS
  Writers,    \* story threads
  Chain,      \* provider_chain: main provider, then the backup
  News,       \* "finnhub", which researches for the providers in NewsFor
  NewsFor,    \* providers whose news source is News
  Keyed,      \* services whose key is set
  Reminded    \* bound: services whose alert may grow old

Providers == Range(Chain)
Services == Providers \cup {News}

ASSUME ProvidersAssumption ==
  /\ Chain \in Seq(Providers) /\ Chain # <<>>
  /\ NewsFor \subseteq Providers
  /\ Keyed \subseteq Services /\ Reminded \subseteq Services
  /\ News \notin Providers /\ "nothing" \notin Services  \* no service of that name
  /\ "key check" \notin Writers

VARIABLES
  paused,    \* _paused_until in the future
  alerted,   \* _alerted_at: "no", "recent" or "old" (six hours and more)
  at,        \* what each thread does
  mail,      \* the mail each thread is about to send, after the lock
  told,      \* history: services whose last mail to arrive told of a problem
  doubtful,  \* history: services about which the last mails left two at once,
             \* were refused, or told of a problem in a process that is gone
  late       \* history: threads whose call began before the pause of its provider

providerVars == <<paused, alerted, at, mail, told, doubtful, late>>

ProviderThreads == Writers \cup {"key check"}
NoMail == [about |-> "nothing"]
Mail(s, what) == [about |-> s, what |-> what]
InUse == IF NewsFor = {} THEN Chain ELSE Append(Chain, News)

AtRest == [step |-> "idle"]
AtPlace(step, i) == [step |-> step, i |-> i]

NothingKnown == [s \in Services |-> "no"]
StartPlaces == [t \in ProviderThreads |-> IF t \in Writers THEN AtRest ELSE AtPlace("check", 1)]

ProvidersInit ==
  /\ paused = {}
  /\ alerted = NothingKnown
  /\ at = StartPlaces
  /\ mail = [t \in ProviderThreads |-> NoMail]
  /\ told = {} /\ doubtful = {}
  /\ late = {}

Usable == {p \in Providers : p \in Keyed /\ p \notin paused}

(* stories_paused: nobody can write, or the news they need is missing.     *)
StoriesPaused ==
  \/ Usable = {}
  \/ Usable \cap NewsFor # {} /\ (News \notin Keyed \/ News \in paused)

Ready(t, step) == mail[t] = NoMail /\ at[t].step = step
Calling(t, p) == at[t].step = "call" /\ Chain[at[t].i] = p

(* A thread that has changed the tables about s under the lock goes on to  *)
(* send m.                                                                 *)
GoesOnToMail(t, s, m) ==
  LET others == \E u \in ProviderThreads \ {t} : mail[u].about = s
  IN  /\ mail' = [mail EXCEPT ![t] = m]
      /\ doubtful' = IF m = NoMail THEN doubtful
                     ELSE IF others THEN doubtful \cup {s} ELSE doubtful \ {s}

(* report_key_problem: one mail per service and six hours.                 *)
Report(t, s, pause) ==
  /\ paused' = IF pause THEN paused \cup {s} ELSE paused
  /\ alerted' = [alerted EXCEPT ![s] = "recent"]
  /\ GoesOnToMail(t, s, IF alerted[s] = "recent" THEN NoMail ELSE Mail(s, "problem"))
  /\ late' = (late \ {t}) \cup
             {u \in Writers \ {t} : pause /\ at[u].step = "call" /\ Chain[at[u].i] = s}

(* _service_works: any earlier problem with it is fixed.                   *)
ServiceWorksBug(t, s) ==
  /\ paused' = paused \ {s}
  /\ UNCHANGED alerted
  /\ GoesOnToMail(t, s, IF alerted[s] # "no" THEN Mail(s, "works") ELSE NoMail)
  /\ late' = late \ {t}
ServiceWorks(t, s) ==
  /\ paused' = paused \ {s}
  /\ alerted' = [alerted EXCEPT ![s] = "no"]
  /\ GoesOnToMail(t, s, IF alerted[s] # "no" THEN Mail(s, "works") ELSE NoMail)
  /\ late' = late \ {t}

NothingToTell(t) ==
  /\ late' = late \ {t}
  /\ UNCHANGED <<paused, alerted, mail, doubtful>>

Goes(t, place) == at' = [at EXCEPT ![t] = place]

-----------------------------------------------------------------------------
(* _generate_with_ai.                                                      *)

(* The first provider from the i-th on that can be asked: one without a    *)
(* key or paused is skipped, and after the last one the story has failed.  *)
NextPlaceBug(i) ==
  LET keyed == {j \in i..Len(Chain) : Chain[j] \in Keyed}
  IN  IF keyed = {} THEN AtRest ELSE AtPlace("call", Min(keyed))
NextPlace(i) ==
  LET usable == {j \in i..Len(Chain) : Chain[j] \in Usable}
  IN  IF usable = {} THEN AtRest ELSE AtPlace("call", Min(usable))

(* The job asks stories_paused when it plans the story; the story's thread *)
(* looks at each provider later.                                           *)
StoryBegins(t) ==
  /\ Ready(t, "idle") /\ ~StoriesPaused
  /\ Goes(t, AtPlace("pick", 1))
  /\ UNCHANGED <<paused, alerted, mail, told, doubtful, late>>

(* The main provider, or the backup once the mail about the main one left. *)
AsksProvider(t) ==
  /\ Ready(t, "pick")
  /\ Goes(t, NextPlace(at[t].i))
  /\ UNCHANGED <<paused, alerted, mail, told, doubtful, late>>

(* The provider is the problem: its key or quota, or an outage.            *)
ProviderFails(t) ==
  /\ Ready(t, "call")
  /\ \E pause \in BOOLEAN : Report(t, Chain[at[t].i], pause)
  /\ Goes(t, IF at[t].i = Len(Chain) THEN AtRest ELSE AtPlace("pick", at[t].i + 1))
  /\ UNCHANGED told

(* A story, or one rejected on content, which nobody retries: the provider *)
(* works if it was asked at all; the news may be the problem.              *)
ProviderAnswers(t) ==
  /\ Ready(t, "call")
  /\ \/ Chain[at[t].i] \in NewsFor /\ Report(t, News, TRUE)
     \/ ServiceWorks(t, Chain[at[t].i])
     \/ NothingToTell(t)
  /\ Goes(t, AtRest)
  /\ UNCHANGED told

(* notify_admin, after the lock: the mail arrives, or the mail server      *)
(* refuses it, which _send_alert_email swallows.                           *)
MailArrives(t) ==
  LET s == mail[t].about
  IN  /\ told' = IF mail[t].what = "problem" THEN told \cup {s} ELSE told \ {s}
      /\ UNCHANGED doubtful
MailRefused(t) ==
  /\ doubtful' = doubtful \cup {mail[t].about}
  /\ UNCHANGED told

MailLeaves(t) ==
  /\ mail[t] # NoMail
  /\ MailArrives(t) \/ MailRefused(t)
  /\ mail' = [mail EXCEPT ![t] = NoMail]
  /\ UNCHANGED <<paused, alerted, at, late>>

-----------------------------------------------------------------------------
(* check_keys, one service after the other: a key that is not set, one     *)
(* that is refused, one that works, or a check that cannot connect. It     *)
(* runs at start-up and with each daily summary; the jobs' own report of   *)
(* missing keys (ensure_articles) is a pass that finds only those. One     *)
(* such pass at a time is modelled.                                        *)
CheckKey ==
  LET t == "key check"
      s == InUse[at[t].i]
  IN  /\ Ready(t, "check")
      /\ \/ Report(t, s, TRUE)
         \/ s \in Keyed /\ (ServiceWorks(t, s) \/ NothingToTell(t))
      /\ Goes(t, IF at[t].i = Len(InUse) THEN AtRest ELSE AtPlace("check", at[t].i + 1))
      /\ UNCHANGED told

ChecksAgain ==
  /\ Ready("key check", "idle")
  /\ Goes("key check", AtPlace("check", 1))
  /\ UNCHANGED <<paused, alerted, mail, told, doubtful, late>>

PauseOver(s) ==
  /\ s \in paused
  /\ paused' = paused \ {s}
  /\ UNCHANGED <<alerted, at, mail, told, doubtful, late>>

ReminderDue(s) ==
  /\ s \in Reminded /\ alerted[s] = "recent"
  /\ alerted' = [alerted EXCEPT ![s] = "old"]
  /\ UNCHANGED <<paused, at, mail, told, doubtful, late>>

(* A new process starts with empty tables and checks the keys. What the    *)
(* last one told the admin of, it does not know.                           *)
ProcessRestarts ==
  /\ paused' = {}
  /\ alerted' = NothingKnown
  /\ at' = StartPlaces
  /\ mail' = [t \in ProviderThreads |-> NoMail]
  /\ doubtful' = told
  /\ late' = {}
  /\ UNCHANGED told

ProvidersNext ==
  \/ \E t \in Writers : StoryBegins(t) \/ AsksProvider(t) \/ ProviderFails(t) \/ ProviderAnswers(t)
  \/ \E t \in ProviderThreads : MailLeaves(t)
  \/ CheckKey \/ ChecksAgain \/ ProcessRestarts
  \/ \E s \in Services : PauseOver(s) \/ ReminderDue(s)

ProvidersSpec == ProvidersInit /\ [][ProvidersNext]_providerVars

-----------------------------------------------------------------------------
(* Properties.                                                             *)

ProvidersTypeOK ==
  /\ paused \subseteq Services /\ told \subseteq Services
  /\ doubtful \subseteq Services /\ late \subseteq Writers
  /\ alerted \in [Services -> {"no", "recent", "old"}]

(* A pause is ended before its time by a story only if the story's call to *)
(* that provider had begun before the pause: its success is older than the *)
(* refusal it makes the process forget. A story begun during the pause     *)
(* never calls the provider (_is_paused in _generate_with_ai, and          *)
(* _service_works, which does not ask when the answer was asked for).      *)
PauseEndsLate ==
  [][\A p \in Providers, t \in Writers :
       (p \in paused /\ p \notin paused' /\ Calling(t, p) /\ at'[t] # at[t])
         => t \in late]_providerVars

(* The last mail the admin got about a service says what the process       *)
(* believes: a problem while one is remembered, none after the service has *)
(* answered. It can say otherwise in three ways, each until the next mail  *)
(* about the service arrives: two were in flight at once and arrived in    *)
(* the other order; the mail server refused the last one, and as           *)
(* _alerted_at was set before, a problem is not told again for six hours;  *)
(* or the problem was told by a process that is gone (report_key_problem,  *)
(* _service_works, _send_alert_email).                                     *)
LastMailTrue ==
  \A s \in Services :
    (s \notin doubtful /\ \A t \in ProviderThreads : mail[t].about # s)
      => (s \in told <=> alerted[s] # "no")
=============================================================================
