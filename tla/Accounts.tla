------------------------------ MODULE Accounts ------------------------------
(***************************************************************************)
(* Signing in, the address alerts go to, and the alert job that reads it.  *)
(*                                                                         *)
(* A web request runs in its own transaction: it reads rows, decides, and  *)
(* commits. Requests of one family, requests of several families and the   *)
(* alert job overlap freely, so every request is a step that reads and a   *)
(* step that commits. An account is named by its login address, which is   *)
(* unique and never changes.                                               *)
(*                                                                         *)
(* SQLAlchemy writes only the columns a request changed from the values it *)
(* loaded: `Written` is the row after such an UPDATE.                      *)
(*                                                                         *)
(* Each definition named ...Bug is the one after it with a mistake; no     *)
(* specification uses it.                                                  *)
(***************************************************************************)
EXTENDS Naturals, Sequences, FiniteSets

CONSTANTS
  Addresses,  \* email addresses
  Known,      \* the login addresses that have an account at the start
  Joining,    \* bound: the addresses that ask for sign-in links
  Watched,    \* bound: whose alerts and opt-outs are followed
  Requests,   \* web requests that can be open at the same time
  Cooldown,   \* EMAIL_RESEND_COOLDOWN_SECONDS
  Window,     \* EMAIL_BURST_WINDOW_MINUTES
  Limit,      \* EMAIL_BURST_LIMIT
  LinkLife,   \* MAGIC_LINK_TTL_MINUTES
  ClickLife,  \* EMAIL_CONFIRM_TTL_MINUTES
  MaxTime,    \* bound: the clock stops here
  MaxLinks,   \* bound: sign-in links
  MaxClicks   \* bound: confirmation links

ASSUME AccountsAssumption ==
  /\ Known \subseteq Addresses /\ "none" \notin Addresses
  /\ Joining \subseteq Addresses /\ Watched \subseteq Addresses
  /\ Cooldown \in Nat \ {0} /\ Window \in Nat \ {0} /\ Limit \in Nat \ {0}
  /\ Cooldown <= Window   \* 30 seconds and 10 minutes: settings.py
  /\ LinkLife \in Nat \ {0} /\ ClickLife \in Nat \ {0}
  /\ MaxTime \in Nat /\ MaxLinks \in Nat /\ MaxClicks \in Nat

VARIABLES
  now,      \* the clock, in units of the shortest delay
  user,     \* users: the alert address of each account and whether it is confirmed
  link,     \* login_tokens, oldest first
  click,    \* confirmation_tokens, oldest first
  optOut,   \* email_opt_outs
  req,      \* what each open request has read
  job,      \* what the alert job has read
  clicked,  \* history: addresses a family proved to be its own
  blind     \* history: accounts whose commits the last writer of a row had not seen

vars == <<now, user, link, click, optOut, req, job, clicked, blind>>

NoAccount == [notify |-> "none", confirmed |-> FALSE]
Users == [notify : Addresses, confirmed : BOOLEAN]
Exists(a) == user[a] # NoAccount

(* A commit, as far as others can miss it: a table and whose row.          *)
Commits == {"users", "links", "clicks", "optouts"} \X Addresses

(* Tokens are never deleted; `missed` (history) is what their request had  *)
(* not seen when it committed.                                             *)
Links  == [email : Addresses, at : 0..MaxTime, used : BOOLEAN,
           opened : Nat, missed : SUBSET Commits]
Clicks == [account : Addresses, to : Addresses, at : 0..MaxTime,
           used : BOOLEAN, missed : SUBSET Commits]

(* An open request: `of` is the account or address it is about, `seen` the *)
(* row it loaded, `arg` its input, `missed` what was committed since.      *)
Kinds == {"link", "verify", "open", "change", "confirm"}
Idle == [kind |-> "idle"]
Open(k, a, x, missed) ==
  [kind |-> k, of |-> a, arg |-> x, seen |-> user[a], missed |-> missed]

NoJob == [of |-> "nobody"]

Init ==
  /\ now = 0
  /\ user = [a \in Addresses |->
               IF a \in Known THEN [notify |-> a, confirmed |-> TRUE] ELSE NoAccount]
  /\ link = <<>> /\ click = <<>>
  /\ optOut = {}
  /\ req = [r \in Requests |-> Idle]
  /\ job = NoJob
  /\ clicked = {<<a, a>> : a \in Known}
  /\ blind = [a \in Addresses |-> {}]

-----------------------------------------------------------------------------
(* The send limit: a wait after each email, and a cap on a burst. `sent`   *)
(* gives the times at which the tokens of an address or account were sent; *)
(* only those inside the window are read, newest first.                    *)

Sends(tokens, owner, a) ==
  [i \in {j \in DOMAIN tokens : tokens[j][owner] = a} |-> tokens[i].at]
LinkTimes(a) == Sends(link, "email", a)
ClickTimes(a) == Sends(click, "account", a)

Recent(sent, t) == {i \in DOMAIN sent : sent[i] + Window >= t}
Newest(sent, t, k) ==
  CHOOSE s \in {sent[i] : i \in Recent(sent, t)} :
    /\ Cardinality({i \in Recent(sent, t) : sent[i] > s}) < k
    /\ Cardinality({i \in Recent(sent, t) : sent[i] >= s}) >= k

TooSoon(sent, t) == Recent(sent, t) # {} /\ t < Newest(sent, t, 1) + Cooldown
TooMany(sent, t) == Cardinality(Recent(sent, t)) >= Limit

RefusedBug(sent, t) == TooMany(sent, t)
Refused(sent, t) == TooSoon(sent, t) \/ TooMany(sent, t)

(* Until when a refused caller is to wait, and for how long at least: one  *)
(* second.                                                                 *)
WaitUntil(sent, t) ==
  IF TooSoon(sent, t)
  THEN Newest(sent, t, 1) + Cooldown
  ELSE Newest(sent, t, Limit) + Window

RetryAfterBug(sent, t) == Cooldown
RetryAfter(sent, t) ==
  IF WaitUntil(sent, t) > t THEN WaitUntil(sent, t) - t ELSE 1

-----------------------------------------------------------------------------
(* A commit of request r, which goes on as `next`: whoever has read the    *)
(* committed rows before has missed it.                                    *)
Concern(q) ==
  CASE q.kind \in {"link", "verify"} -> {<<"links", q.of>>}
    [] q.kind = "open"    -> {}
    [] q.kind = "change"  -> {<<"clicks", q.of>>} \cup ({"users"} \X Addresses)
    [] q.kind = "confirm" -> {"users"} \X Addresses
JobMisses(commits) ==
  IF job = NoJob THEN NoJob
  ELSE [job EXCEPT !.missed = @ \cup (commits \cap ({"users", "optouts"} \X {job.of}))]

CommitAs(r, next, commits) ==
  /\ req' = [s \in Requests |->
       IF s = r THEN next
       ELSE IF req[s] = Idle THEN Idle
       ELSE [req[s] EXCEPT !.missed = @ \cup (commits \cap Concern(req[s]))]]
  /\ job' = JobMisses(commits)
Commit(r, commits) == CommitAs(r, Idle, commits)

Ends(r) == req' = [req EXCEPT ![r] = Idle]

(* The row of account a after an UPDATE that loaded `seen` and assigned    *)
(* n and c: only a column whose value changed is written.                  *)
WrittenBug(a, seen, n, c) ==
  [notify |-> IF n # seen.notify THEN n ELSE NoAccount.notify, confirmed |-> c]
Written(a, seen, n, c) ==
  [notify    |-> IF n # seen.notify THEN n ELSE user[a].notify,
   confirmed |-> IF c # seen.confirmed THEN c ELSE user[a].confirmed]

(* Another account signs in with n, or gets alerts at it.                  *)
UsedByAnotherBug(a, n) == \E b \in Addresses \ {a} : Exists(b) /\ b = n
UsedByAnother(a, n) ==
  \E b \in Addresses \ {a} :
    /\ Exists(b)
    /\ b = n \/ (user[b].notify = n /\ user[b].confirmed)

-----------------------------------------------------------------------------
(* Sign-in.                                                                *)

(* request_magic_link reads the earlier sends of the address ...           *)
LinkRead(r, a) ==
  /\ req[r] = Idle /\ Len(link) < MaxLinks
  /\ ~Refused(LinkTimes(a), now)
  /\ req' = [req EXCEPT ![r] = Open("link", a, a, {})]
  /\ UNCHANGED <<now, user, link, click, optOut, job, clicked, blind>>

(* ... and commits a token; the email leaves afterwards.                   *)
LinkCommit(r) ==
  /\ req[r].kind = "link" /\ Len(link) < MaxLinks
  /\ link' = Append(link, [email |-> req[r].of, at |-> now, used |-> FALSE,
                           opened |-> 0, missed |-> req[r].missed])
  /\ Commit(r, {<<"links", req[r].of>>})
  /\ UNCHANGED <<now, user, click, optOut, clicked, blind>>

(* verify_magic_link reads the token and the account of its address ...    *)
VerifyReadBug(r, i) ==
  /\ req[r] = Idle
  /\ now <= link[i].at + LinkLife
  /\ req' = [req EXCEPT ![r] = Open("verify", link[i].email, i, {})]
  /\ UNCHANGED <<now, user, link, click, optOut, job, clicked, blind>>
VerifyRead(r, i) ==
  /\ req[r] = Idle
  /\ ~link[i].used /\ now <= link[i].at + LinkLife
  /\ req' = [req EXCEPT ![r] = Open("verify", link[i].email, i, {})]
  /\ UNCHANGED <<now, user, link, click, optOut, job, clicked, blind>>

(* ... consumes it and creates the account if it had found none; when      *)
(* another request created it meanwhile, the unique address refuses it.    *)
VerifyCommit(r) ==
  LET a == req[r].of
      i == req[r].arg
      new == req[r].seen = NoAccount
  IN  /\ req[r].kind = "verify"
      /\ new => ~Exists(a)
      /\ link' = [link EXCEPT ![i].used = TRUE, ![i].missed = @ \cup req[r].missed]
      /\ user' = IF new THEN [user EXCEPT ![a] = [notify |-> a, confirmed |-> TRUE]]
                        ELSE user
      /\ blind' = IF new THEN [blind EXCEPT ![a] = req[r].missed] ELSE blind
      /\ clicked' = clicked \cup {<<a, a>>}
      /\ CommitAs(r, Open("open", a, i, {}), {<<"links", a>>} \cup
                  (IF new THEN {<<"users", a>>} ELSE {}))
      /\ UNCHANGED <<now, click, optOut>>

VerifyRefused(r) ==
  /\ req[r].kind = "verify" /\ req[r].seen = NoAccount /\ Exists(req[r].of)
  /\ Ends(r)
  /\ UNCHANGED <<now, user, link, click, optOut, job, clicked, blind>>

(* issue_session is a commit of its own.                                   *)
OpenSession(r) ==
  /\ req[r].kind = "open"
  /\ link' = [link EXCEPT ![req[r].arg].opened = @ + 1]
  /\ Ends(r)
  /\ UNCHANGED <<now, user, click, optOut, job, clicked, blind>>

-----------------------------------------------------------------------------
(* The address alerts go to.                                               *)

(* request_notify_email_change checks the address and the send limit ...   *)
ChangeRead(r, a, n) ==
  /\ req[r] = Idle /\ Exists(a) /\ Len(click) < MaxClicks
  /\ ~(user[a].notify = n /\ user[a].confirmed)
  /\ ~UsedByAnother(a, n)
  /\ ~Refused(ClickTimes(a), now)
  /\ req' = [req EXCEPT ![r] = Open("change", a, n, {})]
  /\ UNCHANGED <<now, user, link, click, optOut, job, clicked, blind>>

(* ... and commits the new address as unconfirmed, with a token.           *)
ChangeCommitBug(r) ==
  LET a == req[r].of
      n == req[r].arg
  IN  /\ req[r].kind = "change" /\ Len(click) < MaxClicks
      /\ user' = [user EXCEPT ![a].notify = n]
      /\ click' = Append(click, [account |-> a, to |-> n, at |-> now, used |-> FALSE,
                                 missed |-> req[r].missed])
      /\ blind' = [blind EXCEPT ![a] = req[r].missed]
      /\ Commit(r, {<<"users", a>>, <<"clicks", a>>})
      /\ UNCHANGED <<now, link, optOut, clicked>>
ChangeCommit(r) ==
  LET a == req[r].of
      n == req[r].arg
  IN  /\ req[r].kind = "change" /\ Len(click) < MaxClicks
      /\ user' = [user EXCEPT ![a] = Written(a, req[r].seen, n, FALSE)]
      /\ click' = Append(click, [account |-> a, to |-> n, at |-> now, used |-> FALSE,
                                 missed |-> req[r].missed])
      /\ blind' = [blind EXCEPT ![a] = req[r].missed]
      /\ Commit(r, {<<"users", a>>, <<"clicks", a>>})
      /\ UNCHANGED <<now, link, optOut, clicked>>

(* confirm_notify_email reads the token, the account and the others ...    *)
ConfirmReadBug(r, i) ==
  /\ req[r] = Idle
  /\ ~click[i].used /\ now <= click[i].at + ClickLife
  /\ req' = [req EXCEPT ![r] = Open("confirm", click[i].account, i, {})]
  /\ UNCHANGED <<now, user, link, click, optOut, job, clicked, blind>>
ConfirmRead(r, i) ==
  /\ req[r] = Idle
  /\ ~click[i].used /\ now <= click[i].at + ClickLife
  /\ ~UsedByAnother(click[i].account, click[i].to)
  /\ req' = [req EXCEPT ![r] = Open("confirm", click[i].account, i, {})]
  /\ UNCHANGED <<now, user, link, click, optOut, job, clicked, blind>>

(* ... and commits the token's address as confirmed.                       *)
ConfirmCommitBug(r) ==
  LET a == req[r].of
      i == req[r].arg
  IN  /\ req[r].kind = "confirm"
      /\ user' = [user EXCEPT ![a].confirmed = TRUE]
      /\ click' = [click EXCEPT ![i].used = TRUE]
      /\ clicked' = clicked \cup {<<a, click[i].to>>}
      /\ blind' = [blind EXCEPT ![a] = req[r].missed]
      /\ Commit(r, {<<"users", a>>, <<"clicks", a>>})
      /\ UNCHANGED <<now, link, optOut>>
ConfirmCommit(r) ==
  LET a == req[r].of
      i == req[r].arg
  IN  /\ req[r].kind = "confirm"
      /\ user' = [user EXCEPT ![a] = Written(a, req[r].seen, click[i].to, TRUE)]
      /\ click' = [click EXCEPT ![i].used = TRUE]
      /\ clicked' = clicked \cup {<<a, click[i].to>>}
      /\ blind' = [blind EXCEPT ![a] = req[r].missed]
      /\ Commit(r, {<<"users", a>>, <<"clicks", a>>})
      /\ UNCHANGED <<now, link, optOut>>

-----------------------------------------------------------------------------
(* Alerts on and off, from Settings, an email footer or the unsubscribe    *)
(* link: "on" deletes the row, "off" inserts it. Requests that overlap     *)
(* leave the table as one after the other would (a second insert fails).   *)

SetAlertsEnabled(a, enabled) ==
  /\ Exists(a)
  /\ optOut' = IF enabled THEN optOut \ {a} ELSE optOut \cup {a}
  /\ job' = JobMisses({<<"optouts", a>>})
  /\ UNCHANGED <<now, user, link, click, req, clicked, blind>>

-----------------------------------------------------------------------------
(* The alert job, for one of the families it mails. It chooses whom to     *)
(* mail from one read of the accounts and the opt-outs, may wait two       *)
(* minutes for stories, and mails then. The wait commits, so the accounts  *)
(* it holds are loaded again when used.                                    *)

JobReadBug(a) ==
  /\ job = NoJob
  /\ Exists(a) /\ a \notin optOut
  /\ job' = [of |-> a, to |-> user[a].notify, waited |-> FALSE, missed |-> {}]
  /\ UNCHANGED <<now, user, link, click, optOut, req, clicked, blind>>
JobRead(a) ==
  /\ job = NoJob
  /\ Exists(a) /\ user[a].confirmed /\ a \notin optOut
  /\ job' = [of |-> a, to |-> user[a].notify, waited |-> FALSE, missed |-> {}]
  /\ UNCHANGED <<now, user, link, click, optOut, req, clicked, blind>>

JobWait ==
  /\ job # NoJob /\ ~job.waited
  /\ job' = [job EXCEPT !.waited = TRUE]
  /\ UNCHANGED <<now, user, link, click, optOut, req, clicked, blind>>

(* Where the alert goes.                                                   *)
SentTo == IF job.waited THEN user[job.of].notify ELSE job.to

JobMail ==
  /\ job # NoJob
  /\ job' = NoJob
  /\ UNCHANGED <<now, user, link, click, optOut, req, clicked, blind>>

-----------------------------------------------------------------------------
Tick ==
  /\ now < MaxTime
  /\ now' = now + 1
  /\ UNCHANGED <<user, link, click, optOut, req, job, clicked, blind>>

(* A restart drops the open requests and the job; rows stay.               *)
Restart ==
  /\ req' = [r \in Requests |-> Idle]
  /\ job' = NoJob
  /\ UNCHANGED <<now, user, link, click, optOut, clicked, blind>>

SignIn(r) ==
  \/ \E a \in Joining : LinkRead(r, a)
  \/ LinkCommit(r)
  \/ \E i \in DOMAIN link : VerifyRead(r, i)
  \/ VerifyCommit(r) \/ VerifyRefused(r) \/ OpenSession(r)

ChangeAddress(r) ==
  \/ \E a, n \in Addresses : ChangeRead(r, a, n)
  \/ ChangeCommit(r)
  \/ \E i \in DOMAIN click : ConfirmRead(r, i)
  \/ ConfirmCommit(r)

JobStep == (\E a \in Watched : JobRead(a)) \/ JobWait \/ JobMail

Next ==
  \/ \E r \in Requests : SignIn(r) \/ ChangeAddress(r)
  \/ \E a \in Watched, enabled \in BOOLEAN : SetAlertsEnabled(a, enabled)
  \/ JobStep \/ Tick \/ Restart

Spec == Init /\ [][Next]_vars

-----------------------------------------------------------------------------
(* Properties.                                                             *)

(* Every row, token, request and job has the fields the code gives it.     *)
TypeOK ==
  /\ now \in 0..MaxTime
  /\ \A a \in Addresses : user[a] \in Users \cup {NoAccount}
  /\ \A i \in DOMAIN link : link[i] \in Links
  /\ \A i \in DOMAIN click : click[i] \in Clicks
  /\ optOut \subseteq Addresses
  /\ \A r \in Requests : req[r] # Idle => req[r].kind \in Kinds
  /\ job # NoJob => job.of \in Addresses /\ job.to \in Addresses
  /\ clicked \subseteq Addresses \X Addresses

(* An address counts as confirmed only if the family clicked the link sent *)
(* to it or signed in with it: confirm_notify_email and                    *)
(* request_notify_email_change never leave it confirmed otherwise, unless  *)
(* the last of them had not seen an earlier one of the same account.       *)
ConfirmedByClick ==
  \A a \in Addresses :
    user[a].confirmed =>
      \/ <<a, user[a].notify>> \in clicked
      \/ <<"users", a>> \in blind[a]

(* A family's alerts start going to an address that another account signs  *)
(* in with, or gets alerts at, in two ways only.  The confirmation had     *)
(* missed a commit of one of the two accounts (_used_by_another_account,   *)
(* confirm_notify_email).  Or the family just signed up at an address the  *)
(* other had confirmed before: verify_magic_link creates the account and   *)
(* never asks who gets alerts there.                                       *)
AlertsAt(a, n) == user[a].confirmed /\ user[a].notify = n
AddressTaken ==
  [][\A a, n \in Addresses :
       (~AlertsAt(a, n) /\ AlertsAt(a, n)') =>
         \A b \in Addresses \ {a} :
           ((Exists(b) /\ b = n) \/ AlertsAt(b, n)) =>
             \/ {<<"users", a>>, <<"users", b>>} \cap blind'[a] # {}
             \/ ~Exists(a) /\ a = n /\ AlertsAt(b, n)]_vars

(* An alert goes to an address its family confirmed, and not to a family   *)
(* that turned alerts off, unless the family changed its mind after the    *)
(* job read the accounts (_detect_range_alerts, run_notify), or its        *)
(* requests had crossed as above.                                          *)
AlertsAsChosen ==
  [][JobMail =>
       /\ \/ <<job.of, SentTo>> \in clicked
          \/ <<"users", job.of>> \in (job.missed \cup blind[job.of])
       /\ job.of \in optOut => <<"optouts", job.of>> \in job.missed]_vars

(* A link opens one session, unless it was submitted again while the first *)
(* submission was still being answered (verify_magic_link).                *)
OneSessionPerLink ==
  \A i \in DOMAIN link :
    link[i].opened > 1 => <<"links", link[i].email>> \in link[i].missed

(* Emails to one address, or confirmations of one account, keep the wait   *)
(* between them and the cap on a burst; one that does not had not seen     *)
(* another that was being asked for at the same time (enforce_send_limit). *)
PacedTokens(tokens, owner, table) ==
  \A i \in DOMAIN tokens :
    <<table, tokens[i][owner]>> \notin tokens[i].missed =>
      LET before == {j \in 1..(i - 1) : tokens[j][owner] = tokens[i][owner]}
      IN  /\ \A j \in before : tokens[j].at + Cooldown <= tokens[i].at
          /\ Cardinality({j \in before : tokens[j].at + Window >= tokens[i].at}) < Limit
Paced ==
  /\ PacedTokens(link, "email", "links")
  /\ PacedTokens(click, "account", "clicks")

(* Whoever waits as told gets the email at the latest after the third      *)
(* wait: the cool-down first, then the oldest email of a full burst, then  *)
(* the second in which that email just leaves the window. No wait is ever  *)
(* longer than the window (settings.py: under ten minutes).                *)
WaitEnds(sent) ==
  LET w1 == RetryAfter(sent, now)
      t1 == now + w1
      w2 == RetryAfter(sent, t1)
      t2 == t1 + w2
      w3 == RetryAfter(sent, t2)
  IN  Refused(sent, now) =>
        /\ w1 <= Window
        /\ \/ ~Refused(sent, t1)
           \/ w2 <= Window /\ (~Refused(sent, t2) \/ ~Refused(sent, t2 + w3))
WaitsEnd == \A a \in Addresses : WaitEnds(LinkTimes(a)) /\ WaitEnds(ClickTimes(a))
=============================================================================
