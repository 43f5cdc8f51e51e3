---------------------------- MODULE AccountsProofs ----------------------------
(***************************************************************************)
(* Theorems about Accounts, for all addresses, requests and bounds: types, *)
(* an address counts as confirmed only after its click, a link opens one   *)
(* session, the send limit is kept and waiting as told helps, nobody takes *)
(* another's address, and alerts go where the family chose.                *)
(***************************************************************************)
EXTENDS Accounts, SequenceTheorems, NumberFacts, TLAPS

Rows == Users \cup {NoAccount}
Reqs == [kind : Kinds, of : Addresses, arg : Addresses \cup Nat,
         seen : Rows, missed : SUBSET Commits]
Jobs == [of : Addresses, to : Addresses, waited : BOOLEAN, missed : SUBSET Commits]

Changing == {"change", "confirm"}
Using == {"verify", "open"}

(* An open request is about an account or a token that is there.           *)
ReqOK(q, users, links, clicks) ==
  /\ q \in Reqs
  /\ q.kind \in Changing => users[q.of] # NoAccount
  /\ q.kind = "change" => q.arg \in Addresses
  /\ q.kind = "confirm" => q.arg \in DOMAIN clicks /\ clicks[q.arg].account = q.of
  /\ q.kind \in Using => q.arg \in DOMAIN links /\ links[q.arg].email = q.of

TablesInv ==
  /\ now \in 0..MaxTime
  /\ user \in [Addresses -> Rows]
  /\ blind \in [Addresses -> SUBSET Commits]
  /\ link \in Seq(Links) /\ click \in Seq(Clicks)
  /\ \A i \in DOMAIN click : Exists(click[i].account)
  /\ optOut \subseteq Addresses
  /\ clicked \subseteq Addresses \X Addresses

ReqInv ==
  /\ DOMAIN req = Requests
  /\ \A r \in Requests : req[r] = Idle \/ ReqOK(req[r], user, link, click)

JobInv == job = NoJob \/ job \in Jobs

TypeInv == TablesInv /\ ReqInv /\ JobInv

(* Rows and tokens stay; accounts and tokens are never deleted.            *)
Grown ==
  /\ \A a \in Addresses : Exists(a) => Exists(a)'
  /\ DOMAIN click \subseteq DOMAIN click'
  /\ \A i \in DOMAIN click : click'[i].account = click[i].account
  /\ DOMAIN link \subseteq DOMAIN link'
  /\ \A i \in DOMAIN link : link'[i].email = link[i].email

-----------------------------------------------------------------------------
(* Requests.                                                               *)

LEMMA ReqFields ==
  ASSUME NEW q \in Reqs
  PROVE  /\ q # Idle /\ q.kind \in Kinds /\ q.of \in Addresses
         /\ q.seen \in Rows /\ q.missed \in SUBSET Commits
  BY DEF Reqs, Idle, Kinds

LEMMA ReqKept ==
  ASSUME NEW q, ReqOK(q, user, link, click), Grown
  PROVE  ReqOK(q, user', link', click')
<1>1. q.of \in Addresses
  BY DEF ReqOK, Reqs
<1>2. QED BY <1>1 DEF ReqOK, Grown, Exists

LEMMA ReqMisses ==
  ASSUME NEW q, ReqOK(q, user, link, click), NEW m \in SUBSET Commits
  PROVE  /\ ReqOK([q EXCEPT !.missed = m], user, link, click)
         /\ [q EXCEPT !.missed = m].kind = q.kind /\ [q EXCEPT !.missed = m].of = q.of
         /\ [q EXCEPT !.missed = m].arg = q.arg /\ [q EXCEPT !.missed = m].seen = q.seen
         /\ [q EXCEPT !.missed = m].missed = m
<1> DEFINE p == [q EXCEPT !.missed = m]
<1>1. q \in Reqs
  BY DEF ReqOK
<1>2. p \in Reqs /\ p.kind = q.kind /\ p.of = q.of /\ p.arg = q.arg /\ p.seen = q.seen /\ p.missed = m
  BY <1>1 DEF Reqs
<1> HIDE DEF p
<1>3. ReqOK(p, user, link, click)
  BY <1>2 DEF ReqOK
<1>4. QED BY <1>2, <1>3 DEF p

LEMMA ReqOpened ==
  ASSUME TablesInv, NEW k \in Kinds, NEW a \in Addresses, NEW x \in Addresses \cup Nat
  PROVE  /\ Open(k, a, x, {}) \in Reqs
         /\ Open(k, a, x, {}).kind = k /\ Open(k, a, x, {}).of = a
         /\ Open(k, a, x, {}).arg = x /\ Open(k, a, x, {}).seen = user[a]
         /\ Open(k, a, x, {}).missed = {}
  BY DEF Open, Reqs, TablesInv

(* One request changes, and what all of them refer to is still there.      *)
LEMMA ReqStep ==
  ASSUME ReqInv, Grown, NEW r \in Requests, NEW q, q = Idle \/ ReqOK(q, user', link', click'),
         req' = [req EXCEPT ![r] = q]
  PROVE  ReqInv'
<1>1. DOMAIN req' = Requests
  BY DEF ReqInv
<1>2. ASSUME NEW s \in Requests PROVE req'[s] = Idle \/ ReqOK(req'[s], user', link', click')
  <2>1. CASE s = r
    BY <2>1 DEF ReqInv
  <2>2. CASE s # r
    <3>1. req'[s] = req[s]
      BY <2>2 DEF ReqInv
    <3>2. QED BY <3>1, ReqKept DEF ReqInv
  <2>3. QED BY <2>1, <2>2
<1>3. QED BY <1>1, <1>2 DEF ReqInv

(* What a commit makes of the requests of others.                          *)
LEMMA CommitSeen ==
  ASSUME ReqInv, NEW r \in Requests, NEW next, NEW commits \in SUBSET Commits,
         CommitAs(r, next, commits), NEW s \in Requests, s # r, req[s] # Idle
  PROVE  /\ ReqOK(req'[s], user, link, click)
         /\ req'[s].kind = req[s].kind /\ req'[s].of = req[s].of
         /\ req'[s].arg = req[s].arg /\ req'[s].seen = req[s].seen
         /\ req'[s].missed = req[s].missed \cup (commits \cap Concern(req[s]))
<1> DEFINE m == req[s].missed \cup (commits \cap Concern(req[s]))
<1>1. ReqOK(req[s], user, link, click)
  BY DEF ReqInv
<1>2. m \in SUBSET Commits
  BY <1>1, ReqFields DEF ReqOK
<1>3. req'[s] = [req[s] EXCEPT !.missed = m]
  BY DEF CommitAs
<1> HIDE DEF m
<1>4. QED BY <1>1, <1>2, <1>3, ReqMisses DEF m

LEMMA CommitStep ==
  ASSUME ReqInv, JobInv, Grown, NEW r \in Requests, NEW next, next = Idle \/ ReqOK(next, user', link', click'),
         NEW commits \in SUBSET Commits, CommitAs(r, next, commits)
  PROVE  ReqInv' /\ JobInv'
<1>1. DOMAIN req' = Requests /\ req'[r] = next
  BY DEF CommitAs
<1>2. ASSUME NEW s \in Requests PROVE req'[s] = Idle \/ ReqOK(req'[s], user', link', click')
  <2>1. CASE s = r
    BY <1>1, <2>1
  <2>2. CASE s # r /\ req[s] = Idle
    BY <2>2 DEF CommitAs
  <2>3. CASE s # r /\ req[s] # Idle
    <3>1. ReqOK(req'[s], user, link, click)
      BY <2>3, CommitSeen
    <3>2. QED BY <3>1, ReqKept
  <2>4. QED BY <2>1, <2>2, <2>3
<1>3. JobInv'
  BY DEF CommitAs, JobMisses, JobInv, Jobs, NoJob
<1>4. QED BY <1>1, <1>2, <1>3 DEF ReqInv

(* Steps that touch no table.                                              *)
LEMMA TablesKept ==
  ASSUME TablesInv, user' = user, blind' = blind, link' = link, click' = click,
         clicked' = clicked, optOut' \subseteq Addresses, now' \in 0..MaxTime
  PROVE  TablesInv' /\ Grown
  BY DEF TablesInv, Grown, Exists

LEMMA ReadStep ==
  ASSUME TypeInv, NEW r \in Requests, NEW k \in Kinds, NEW a \in Addresses,
         NEW x \in Addresses \cup Nat, req' = [req EXCEPT ![r] = Open(k, a, x, {})],
         UNCHANGED <<now, user, link, click, optOut, job, clicked, blind>>,
         k \in Changing => Exists(a),
         k = "change" => x \in Addresses,
         k = "confirm" => x \in DOMAIN click /\ click[x].account = a,
         k \in Using => x \in DOMAIN link /\ link[x].email = a
  PROVE  TypeInv'
<1>1. ReqOK(Open(k, a, x, {}), user', link', click')
  BY ReqOpened DEF ReqOK, TypeInv, Exists
<1>2. TablesInv' /\ Grown
  BY TablesKept DEF TypeInv, TablesInv
<1>3. ReqInv'
  BY <1>1, <1>2, ReqStep DEF TypeInv
<1>4. JobInv'
  BY DEF TypeInv, JobInv
<1>5. QED BY <1>2, <1>3, <1>4 DEF TypeInv

LEMMA EndStep ==
  ASSUME TypeInv, NEW r \in Requests, Ends(r),
         UNCHANGED <<now, user, link, click, optOut, job, clicked, blind>>
  PROVE  TypeInv'
<1>1. TablesInv' /\ Grown
  BY TablesKept DEF TypeInv, TablesInv
<1>2. ReqInv'
  BY <1>1, ReqStep DEF TypeInv, Ends
<1>3. JobInv'
  BY DEF TypeInv, JobInv
<1>4. QED BY <1>1, <1>2, <1>3 DEF TypeInv

LEMMA TokenFields ==
  ASSUME TablesInv
  PROVE  /\ \A i \in DOMAIN link : i \in Nat /\ link[i] \in Links
         /\ \A i \in DOMAIN click : i \in Nat /\ click[i] \in Clicks
  BY ElementOfSeq DEF TablesInv

-----------------------------------------------------------------------------
(* The commits.                                                            *)

LEMMA RowTyped ==
  ASSUME TablesInv, NEW a \in Addresses, Exists(a), NEW seen \in Rows,
         NEW n \in Addresses, NEW c \in BOOLEAN
  PROVE  Written(a, seen, n, c) \in Users
<1>1. user[a] \in Users
  BY DEF TablesInv, Rows, Exists
<1>2. user[a].notify \in Addresses /\ user[a].confirmed \in BOOLEAN
  BY <1>1 DEF Users
<1>3. (IF n # seen.notify THEN n ELSE user[a].notify) \in Addresses
  BY <1>2
<1>4. (IF c # seen.confirmed THEN c ELSE user[a].confirmed) \in BOOLEAN
  BY <1>2
<1>5. QED BY <1>3, <1>4 DEF Written, Users

LEMMA UsersGrow ==
  ASSUME TablesInv, NEW a \in Addresses, NEW row \in Users, user' = [user EXCEPT ![a] = row]
  PROVE  /\ user' \in [Addresses -> Rows]
         /\ \A b \in Addresses : Exists(b) => Exists(b)'
         /\ user'[a] # NoAccount
<1>1. row # NoAccount
  BY AccountsAssumption DEF Users, NoAccount
<1>2. QED BY <1>1 DEF TablesInv, Rows, Exists

LEMMA LinkCommitTyped ==
  ASSUME TypeInv, NEW r \in Requests, LinkCommit(r)
  PROVE  TypeInv'
<1> DEFINE e == [email |-> req[r].of, at |-> now, used |-> FALSE,
                 opened |-> 0, missed |-> req[r].missed]
<1>1. req[r] \in Reqs
  BY DEF LinkCommit, TypeInv, ReqInv, ReqOK, Idle
<1>2. e \in Links /\ link' = Append(link, e)
  BY <1>1, ReqFields DEF LinkCommit, Links, TypeInv, TablesInv
<1> HIDE DEF e
<1>3. /\ link' \in Seq(Links)
      /\ DOMAIN link \subseteq DOMAIN link'
      /\ \A i \in DOMAIN link : link'[i] = link[i]
  BY <1>2, AppendProperties DEF TypeInv, TablesInv
<1>4. UNCHANGED <<now, user, click, optOut, clicked, blind>>
  BY DEF LinkCommit
<1>5. TablesInv' /\ Grown
  BY <1>3, <1>4 DEF TypeInv, TablesInv, Grown, Exists
<1>6. {<<"links", req[r].of>>} \in SUBSET Commits
  BY <1>1, ReqFields DEF Commits
<1>7. CommitAs(r, Idle, {<<"links", req[r].of>>})
  BY DEF LinkCommit, Commit
<1>8. ReqInv' /\ JobInv'
  BY <1>5, <1>6, <1>7, CommitStep DEF TypeInv
<1>9. QED BY <1>5, <1>8 DEF TypeInv

(* A change of one token that leaves its owner.                            *)
LEMMA LinkChanged ==
  ASSUME TablesInv, NEW i \in DOMAIN link, NEW e \in Links, e.email = link[i].email,
         link' = [link EXCEPT ![i] = e]
  PROVE  /\ link' \in Seq(Links)
         /\ DOMAIN link' = DOMAIN link
         /\ \A j \in DOMAIN link : link'[j].email = link[j].email
<1>1. link' \in Seq(Links)
  BY ExceptSeq DEF TablesInv
<1>2. QED BY <1>1 DEF TablesInv

LEMMA ClickChanged ==
  ASSUME TablesInv, NEW i \in DOMAIN click, NEW e \in Clicks, e.account = click[i].account,
         click' = [click EXCEPT ![i] = e]
  PROVE  /\ click' \in Seq(Clicks)
         /\ DOMAIN click' = DOMAIN click
         /\ \A j \in DOMAIN click : click'[j].account = click[j].account
<1>1. click' \in Seq(Clicks)
  BY ExceptSeq DEF TablesInv
<1>2. QED BY <1>1 DEF TablesInv

LEMMA OpenSessionTyped ==
  ASSUME TypeInv, NEW r \in Requests, OpenSession(r)
  PROVE  TypeInv'
<1> DEFINE i == req[r].arg
           e == [link[i] EXCEPT !.opened = link[i].opened + 1]
<1>1. i \in DOMAIN link
  BY DEF OpenSession, TypeInv, ReqInv, ReqOK, Idle, Using
<1>2. link[i] \in Links
  BY <1>1, TokenFields DEF TypeInv
<1>3. e \in Links /\ e.email = link[i].email
  BY <1>2 DEF Links
<1>4. link' = [link EXCEPT ![i] = e]
  BY <1>1 DEF OpenSession
<1> HIDE DEF e
<1>5. TablesInv' /\ Grown
  BY <1>1, <1>3, <1>4, LinkChanged DEF OpenSession, TypeInv, TablesInv, Grown, Exists
<1>6. ReqInv'
  BY <1>5, ReqStep DEF OpenSession, Ends, TypeInv
<1>7. JobInv'
  BY DEF OpenSession, TypeInv, JobInv
<1>8. QED BY <1>5, <1>6, <1>7 DEF TypeInv

LEMMA VerifyCommitTyped ==
  ASSUME TypeInv, NEW r \in Requests, VerifyCommit(r)
  PROVE  TypeInv'
<1> DEFINE a == req[r].of
           i == req[r].arg
           m == req[r].missed
           e == [link[i] EXCEPT !.used = TRUE, !.missed = link[i].missed \cup m]
           q == Open("open", a, i, {})
           commits == {<<"links", a>>} \cup
                      (IF req[r].seen = NoAccount THEN {<<"users", a>>} ELSE {})
<1>1. ReqOK(req[r], user, link, click) /\ req[r].kind = "verify"
  BY DEF VerifyCommit, TypeInv, ReqInv, Idle
<1>2. a \in Addresses /\ m \in SUBSET Commits /\ i \in DOMAIN link /\ link[i].email = a
  BY <1>1, ReqFields DEF ReqOK, Using
<1>3. link[i] \in Links /\ i \in Nat
  BY <1>2, TokenFields DEF TypeInv
<1>4. e \in Links /\ e.email = link[i].email
  BY <1>2, <1>3 DEF Links
<1>5. link' = [link EXCEPT ![i] = e]
  BY <1>2, <1>3 DEF VerifyCommit, TypeInv, TablesInv, Links
<1> HIDE DEF e
<1>6. /\ link' \in Seq(Links) /\ DOMAIN link' = DOMAIN link
      /\ \A j \in DOMAIN link : link'[j].email = link[j].email
  BY <1>2, <1>4, <1>5, LinkChanged DEF TypeInv
<1>7. /\ user' \in [Addresses -> Rows]
      /\ \A b \in Addresses : Exists(b) => Exists(b)'
  <2>1. CASE req[r].seen = NoAccount
    <3>1. user' = [user EXCEPT ![a] = [notify |-> a, confirmed |-> TRUE]]
      BY <2>1 DEF VerifyCommit
    <3>2. [notify |-> a, confirmed |-> TRUE] \in Users
      BY <1>2 DEF Users
    <3>3. QED BY <1>2, <3>1, <3>2, UsersGrow DEF TypeInv
  <2>2. CASE req[r].seen # NoAccount
    BY <2>2 DEF VerifyCommit, TypeInv, TablesInv, Exists
  <2>3. QED BY <2>1, <2>2
<1>8. /\ blind' \in [Addresses -> SUBSET Commits]
      /\ clicked' \subseteq Addresses \X Addresses
      /\ UNCHANGED <<now, click, optOut>>
  BY <1>2 DEF VerifyCommit, TypeInv, TablesInv
<1>9. TablesInv' /\ Grown
  <2>1. Grown
    BY <1>6, <1>7, <1>8 DEF Grown
  <2>2. \A j \in DOMAIN click : user'[click[j].account] # NoAccount
    <3>1. \A j \in DOMAIN click : click[j].account \in Addresses /\ Exists(click[j].account)
      BY TokenFields DEF TypeInv, TablesInv, Clicks
    <3>2. QED BY <1>7, <3>1 DEF Exists
  <2>3. QED BY <1>6, <1>7, <1>8, <2>1, <2>2 DEF TypeInv, TablesInv, Exists
<1>10. ReqOK(q, user', link', click')
  <2>1. /\ q \in Reqs /\ q.kind = "open" /\ q.of = a /\ q.arg = i
    BY <1>2, <1>3, ReqOpened DEF TypeInv, Kinds
  <2> HIDE DEF q
  <2>2. QED BY <1>2, <1>6, <2>1 DEF ReqOK, Changing, Using
<1>11. commits \in SUBSET Commits
  BY <1>2 DEF Commits
<1>12. CommitAs(r, q, commits)
  BY DEF VerifyCommit
<1>13. ReqInv' /\ JobInv'
  BY <1>9, <1>10, <1>11, <1>12, CommitStep DEF TypeInv
<1>14. QED BY <1>9, <1>13 DEF TypeInv

LEMMA ChangeCommitTyped ==
  ASSUME TypeInv, NEW r \in Requests, ChangeCommit(r)
  PROVE  TypeInv'
<1> DEFINE a == req[r].of
           n == req[r].arg
           m == req[r].missed
           row == Written(a, req[r].seen, n, FALSE)
           e == [account |-> a, to |-> n, at |-> now, used |-> FALSE, missed |-> m]
           commits == {<<"users", a>>, <<"clicks", a>>}
<1>1. ReqOK(req[r], user, link, click) /\ req[r].kind = "change"
  BY DEF ChangeCommit, TypeInv, ReqInv, Idle
<1>2. /\ a \in Addresses /\ m \in SUBSET Commits /\ n \in Addresses
      /\ req[r].seen \in Rows /\ Exists(a)
  BY <1>1, ReqFields DEF ReqOK, Changing, Exists
<1>3. row \in Users
  BY <1>2, RowTyped DEF TypeInv
<1>4. user' = [user EXCEPT ![a] = row]
  BY DEF ChangeCommit
<1>5. e \in Clicks /\ click' = Append(click, e)
  BY <1>2 DEF ChangeCommit, Clicks, TypeInv, TablesInv
<1>6. e.account = a
  OBVIOUS
<1> HIDE DEF row, e
<1>7. /\ user' \in [Addresses -> Rows]
      /\ \A b \in Addresses : Exists(b) => Exists(b)'
      /\ user'[a] # NoAccount
  BY <1>2, <1>3, <1>4, UsersGrow DEF TypeInv
<1>8. /\ click' \in Seq(Clicks) /\ DOMAIN click \subseteq DOMAIN click'
      /\ \A i \in DOMAIN click : click'[i] = click[i]
      /\ \A i \in DOMAIN click' : i \in DOMAIN click \/ click'[i] = e
  BY <1>5, AppendProperties DEF TypeInv, TablesInv
<1>9. \A i \in DOMAIN click' : user'[click'[i].account] # NoAccount
  <2>1. \A i \in DOMAIN click : click[i].account \in Addresses /\ Exists(click[i].account)
    BY TokenFields DEF TypeInv, TablesInv, Clicks
  <2>2. QED BY <1>6, <1>7, <1>8, <2>1 DEF Exists
<1>10. /\ blind' \in [Addresses -> SUBSET Commits]
       /\ UNCHANGED <<now, link, optOut, clicked>>
  BY <1>2 DEF ChangeCommit, TypeInv, TablesInv
<1>11. TablesInv' /\ Grown
  BY <1>7, <1>8, <1>9, <1>10 DEF TypeInv, TablesInv, Grown, Exists
<1>12. commits \in SUBSET Commits
  BY <1>2 DEF Commits
<1>13. CommitAs(r, Idle, commits)
  BY DEF ChangeCommit, Commit
<1>14. ReqInv' /\ JobInv'
  BY <1>11, <1>12, <1>13, CommitStep DEF TypeInv
<1>15. QED BY <1>11, <1>14 DEF TypeInv

LEMMA ConfirmCommitTyped ==
  ASSUME TypeInv, NEW r \in Requests, ConfirmCommit(r)
  PROVE  TypeInv'
<1> DEFINE a == req[r].of
           i == req[r].arg
           m == req[r].missed
           row == Written(a, req[r].seen, click[i].to, TRUE)
           e == [click[i] EXCEPT !.used = TRUE]
           commits == {<<"users", a>>, <<"clicks", a>>}
<1>1. ReqOK(req[r], user, link, click) /\ req[r].kind = "confirm"
  BY DEF ConfirmCommit, TypeInv, ReqInv, Idle
<1>2. /\ a \in Addresses /\ m \in SUBSET Commits
      /\ i \in DOMAIN click /\ click[i].account = a
      /\ req[r].seen \in Rows /\ Exists(a)
  BY <1>1, ReqFields DEF ReqOK, Changing, Exists
<1>3. click[i] \in Clicks
  BY <1>2, TokenFields DEF TypeInv
<1>4. click[i].to \in Addresses
  BY <1>3 DEF Clicks
<1>5. row \in Users
  BY <1>2, <1>4, RowTyped DEF TypeInv
<1>6. user' = [user EXCEPT ![a] = row]
  BY DEF ConfirmCommit
<1>7. e \in Clicks /\ e.account = click[i].account
  BY <1>3 DEF Clicks
<1>8. click' = [click EXCEPT ![i] = e]
  BY DEF ConfirmCommit
<1> HIDE DEF row, e
<1>9. /\ user' \in [Addresses -> Rows]
      /\ \A b \in Addresses : Exists(b) => Exists(b)'
  BY <1>2, <1>5, <1>6, UsersGrow DEF TypeInv
<1>10. /\ click' \in Seq(Clicks) /\ DOMAIN click' = DOMAIN click
       /\ \A j \in DOMAIN click : click'[j].account = click[j].account
  BY <1>2, <1>7, <1>8, ClickChanged DEF TypeInv
<1>11. \A j \in DOMAIN click' : user'[click'[j].account] # NoAccount
  <2>1. \A j \in DOMAIN click : click[j].account \in Addresses /\ Exists(click[j].account)
    BY TokenFields DEF TypeInv, TablesInv, Clicks
  <2>2. QED BY <1>9, <1>10, <2>1 DEF Exists
<1>12. /\ blind' \in [Addresses -> SUBSET Commits]
       /\ clicked' \subseteq Addresses \X Addresses
       /\ UNCHANGED <<now, link, optOut>>
  BY <1>2, <1>4 DEF ConfirmCommit, TypeInv, TablesInv
<1>13. TablesInv' /\ Grown
  BY <1>9, <1>10, <1>11, <1>12 DEF TypeInv, TablesInv, Grown, Exists
<1>14. commits \in SUBSET Commits
  BY <1>2 DEF Commits
<1>15. CommitAs(r, Idle, commits)
  BY DEF ConfirmCommit, Commit
<1>16. ReqInv' /\ JobInv'
  BY <1>13, <1>14, <1>15, CommitStep DEF TypeInv
<1>17. QED BY <1>13, <1>16 DEF TypeInv

-----------------------------------------------------------------------------
(* The other steps, and the theorem.                                       *)

LEMMA ReadsTyped ==
  ASSUME TypeInv, NEW r \in Requests
  PROVE  /\ \A a \in Addresses : LinkRead(r, a) => TypeInv'
         /\ \A i \in DOMAIN link : VerifyRead(r, i) => TypeInv'
         /\ \A a, n \in Addresses : ChangeRead(r, a, n) => TypeInv'
         /\ \A i \in DOMAIN click : ConfirmRead(r, i) => TypeInv'
<1>1. ASSUME NEW a \in Addresses, LinkRead(r, a) PROVE TypeInv'
  BY <1>1, ReadStep DEF LinkRead, Kinds, Changing, Using
<1>2. ASSUME NEW i \in DOMAIN link, VerifyRead(r, i) PROVE TypeInv'
  <2>1. i \in Nat /\ link[i].email \in Addresses
    BY TokenFields DEF TypeInv, Links
  <2>2. QED BY <1>2, <2>1, ReadStep DEF VerifyRead, Kinds, Changing, Using
<1>3. ASSUME NEW a \in Addresses, NEW n \in Addresses, ChangeRead(r, a, n) PROVE TypeInv'
  BY <1>3, ReadStep DEF ChangeRead, Kinds, Changing, Using
<1>4. ASSUME NEW i \in DOMAIN click, ConfirmRead(r, i) PROVE TypeInv'
  <2>1. i \in Nat /\ click[i].account \in Addresses /\ Exists(click[i].account)
    BY TokenFields DEF TypeInv, TablesInv, Clicks
  <2>2. QED BY <1>4, <2>1, ReadStep DEF ConfirmRead, Kinds, Changing, Using
<1>5. QED BY <1>1, <1>2, <1>3, <1>4

LEMMA JobTyped ==
  ASSUME TypeInv,
         \/ \E a \in Watched, enabled \in BOOLEAN : SetAlertsEnabled(a, enabled)
         \/ JobStep
  PROVE  TypeInv'
<1>1. \A a \in Watched : a \in Addresses
  BY AccountsAssumption
<1>2. /\ UNCHANGED <<now, user, link, click, req, clicked, blind>>
      /\ optOut' \subseteq Addresses
  BY <1>1 DEF SetAlertsEnabled, JobStep, JobRead, JobWait, JobMail, TypeInv, TablesInv
<1>3. TablesInv' /\ Grown
  BY <1>2, TablesKept DEF TypeInv, TablesInv
<1>4. ReqInv'
  BY <1>2, <1>3 DEF TypeInv, ReqInv
<1>5. ASSUME NEW a \in Watched, NEW enabled \in BOOLEAN, SetAlertsEnabled(a, enabled) PROVE JobInv'
  BY <1>5, <1>1 DEF SetAlertsEnabled, JobMisses, TypeInv, JobInv, Jobs, NoJob, Commits
<1>6. ASSUME NEW a \in Watched, JobRead(a) PROVE JobInv'
  <2>1. user[a].notify \in Addresses
    BY <1>1, <1>6 DEF JobRead, TypeInv, TablesInv, Rows, Users, Exists
  <2>2. QED BY <1>1, <1>6, <2>1 DEF JobRead, JobInv, Jobs
<1>7. ASSUME JobWait PROVE JobInv'
  BY <1>7 DEF JobWait, TypeInv, JobInv, Jobs
<1>8. ASSUME JobMail PROVE JobInv'
  BY <1>8 DEF JobMail, JobInv
<1>9. JobInv'
  BY <1>5, <1>6, <1>7, <1>8 DEF JobStep
<1>10. QED BY <1>3, <1>4, <1>9 DEF TypeInv

LEMMA TypeStep ==
  ASSUME TypeInv, [Next]_vars
  PROVE  TypeInv'
<1>1. ASSUME NEW r \in Requests, SignIn(r) PROVE TypeInv'
  <2>1. CASE \E a \in Joining : LinkRead(r, a)
    BY <2>1, ReadsTyped, AccountsAssumption
  <2>2. CASE \E i \in DOMAIN link : VerifyRead(r, i)
    BY <2>2, ReadsTyped
  <2>3. CASE VerifyRefused(r)
    BY <2>3, EndStep DEF VerifyRefused
  <2>4. QED BY <1>1, <2>1, <2>2, <2>3, LinkCommitTyped, VerifyCommitTyped, OpenSessionTyped DEF SignIn
<1>2. ASSUME NEW r \in Requests, ChangeAddress(r) PROVE TypeInv'
  BY <1>2, ReadsTyped, ChangeCommitTyped, ConfirmCommitTyped DEF ChangeAddress
<1>3. CASE (\E a \in Watched, enabled \in BOOLEAN : SetAlertsEnabled(a, enabled)) \/ JobStep
  BY <1>3, JobTyped
<1>4. CASE Tick \/ Restart \/ UNCHANGED vars
  <2>1. TablesInv' /\ Grown
    <3>1. UNCHANGED <<user, link, click, optOut, clicked, blind>>
      BY <1>4 DEF Tick, Restart, vars
    <3>2. now' \in 0..MaxTime
      BY <1>4, AccountsAssumption DEF Tick, Restart, vars, TypeInv, TablesInv
    <3>3. QED BY <3>1, <3>2, TablesKept DEF TypeInv, TablesInv
  <2>2. ReqInv' /\ JobInv'
    <3>1. CASE Restart
      BY <3>1 DEF Restart, ReqInv, JobInv
    <3>2. CASE Tick \/ UNCHANGED vars
      BY <2>1, <3>2 DEF Tick, vars, TypeInv, ReqInv, JobInv, ReqOK
    <3>3. QED BY <1>4, <3>1, <3>2
  <2>3. QED BY <2>1, <2>2 DEF TypeInv
<1>5. QED BY <1>1, <1>2, <1>3, <1>4 DEF Next

LEMMA TypeAtStart == Init => TypeInv
<1> SUFFICES ASSUME Init PROVE TypeInv
  OBVIOUS
<1>1. user \in [Addresses -> Rows]
  BY DEF Init, Rows, Users
<1>2. link \in Seq(Links) /\ click \in Seq(Clicks) /\ DOMAIN click = {}
  BY DEF Init
<1>3. now \in 0..MaxTime
  BY AccountsAssumption DEF Init
<1>4. clicked \subseteq Addresses \X Addresses /\ optOut \subseteq Addresses
  BY AccountsAssumption DEF Init
<1>5. TablesInv
  BY <1>1, <1>2, <1>3, <1>4 DEF Init, TablesInv
<1>6. QED BY <1>5 DEF Init, TypeInv, ReqInv, JobInv

LEMMA TypeAlways == Spec => []TypeInv
BY TypeAtStart, TypeStep, PTL DEF Spec

(* Every row, token, request and job has the fields the code gives it.     *)
THEOREM TypeCorrect == Spec => []TypeOK
<1>1. TypeInv => TypeOK
  <2> SUFFICES ASSUME TypeInv PROVE TypeOK
    OBVIOUS
  <2>1. \A a \in Addresses : user[a] \in Users \cup {NoAccount}
    BY DEF TypeInv, TablesInv, Rows
  <2>2. \A r \in Requests : req[r] # Idle => req[r].kind \in Kinds
    BY ReqFields DEF TypeInv, ReqInv, ReqOK
  <2>3. job # NoJob => job.of \in Addresses /\ job.to \in Addresses
    BY DEF TypeInv, JobInv, Jobs
  <2>4. QED BY <2>1, <2>2, <2>3, TokenFields DEF TypeInv, TablesInv, TypeOK
<1>2. QED BY <1>1, TypeAlways, PTL

-----------------------------------------------------------------------------
(* An address counts as confirmed only after its click. A request about an *)
(* account knows its row as it is, or has missed a commit of it.           *)

Fresh(q, users) ==
  q.kind \in Changing => <<"users", q.of>> \in q.missed \/ q.seen = users[q.of]

FreshInv == \A r \in Requests : req[r] = Idle \/ Fresh(req[r], user)

ClickInv == FreshInv /\ ConfirmedByClick

(* A commit that changes only the accounts whose commit it announces.      *)
LEMMA FreshCommit ==
  ASSUME TypeInv, FreshInv, NEW r \in Requests, NEW next, NEW commits \in SUBSET Commits,
         CommitAs(r, next, commits), next = Idle \/ Fresh(next, user'),
         \A a \in Addresses : <<"users", a>> \in commits \/ user'[a] = user[a]
  PROVE  FreshInv'
<1>1. ASSUME NEW s \in Requests PROVE req'[s] = Idle \/ Fresh(req'[s], user')
  <2>1. CASE s = r
    BY <2>1 DEF CommitAs
  <2>2. CASE s # r /\ req[s] = Idle
    BY <2>2 DEF CommitAs
  <2>3. CASE s # r /\ req[s] # Idle
    <3>1. /\ req'[s].kind = req[s].kind /\ req'[s].of = req[s].of
          /\ req'[s].seen = req[s].seen
          /\ req'[s].missed = req[s].missed \cup (commits \cap Concern(req[s]))
      BY <2>3, CommitSeen DEF TypeInv
    <3>2. req[s].of \in Addresses
      BY <2>3, ReqFields DEF TypeInv, ReqInv, ReqOK
    <3>3. req[s].kind \in Changing => <<"users", req[s].of>> \in Concern(req[s])
      BY <3>2 DEF Concern, Changing
    <3>4. QED BY <2>3, <3>1, <3>2, <3>3 DEF FreshInv, Fresh
  <2>4. QED BY <2>1, <2>2, <2>3
<1>2. QED BY <1>1 DEF FreshInv

(* Steps that write no account: one request may change.                    *)
LEMMA ClickKept ==
  ASSUME TypeInv, ClickInv, user' = user, clicked \subseteq clicked', blind' = blind, FreshInv'
  PROVE  ClickInv'
  BY DEF ClickInv, ConfirmedByClick

LEMMA FreshRead ==
  ASSUME TypeInv, FreshInv, NEW r \in Requests, NEW k \in Kinds, NEW a \in Addresses,
         NEW x \in Addresses \cup Nat, user' = user,
         req' = [req EXCEPT ![r] = Open(k, a, x, {})]
  PROVE  FreshInv'
<1>1. Open(k, a, x, {}).seen = user[a] /\ Open(k, a, x, {}).of = a
  BY ReqOpened DEF TypeInv
<1> DEFINE q == Open(k, a, x, {})
<1> HIDE DEF q
<1>2. \A s \in Requests : req'[s] = IF s = r THEN q ELSE req[s]
  BY DEF TypeInv, ReqInv, q
<1>3. Fresh(q, user')
  BY <1>1 DEF Fresh, q
<1>4. QED BY <1>2, <1>3 DEF FreshInv

LEMMA FreshEnds ==
  ASSUME TypeInv, FreshInv, NEW r \in Requests, user' = user, Ends(r)
  PROVE  FreshInv'
  BY DEF TypeInv, ReqInv, FreshInv, Ends

LEMMA VerifyCommitClicked ==
  ASSUME TypeInv, ClickInv, NEW r \in Requests, VerifyCommit(r)
  PROVE  ClickInv'
<1> DEFINE a == req[r].of
           new == req[r].seen = NoAccount
           q == Open("open", a, req[r].arg, {})
           commits == {<<"links", a>>} \cup (IF new THEN {<<"users", a>>} ELSE {})
<1>1. ReqOK(req[r], user, link, click) /\ req[r].kind = "verify"
  BY DEF VerifyCommit, TypeInv, ReqInv, Idle
<1>2. a \in Addresses /\ commits \in SUBSET Commits
  BY <1>1, ReqFields DEF ReqOK, Commits
<1>3. \A b \in Addresses : <<"users", b>> \in commits \/ user'[b] = user[b]
  BY <1>2 DEF VerifyCommit, TypeInv, TablesInv
<1>4. q.kind = "open"
  BY DEF Open
<1>5. CommitAs(r, q, commits)
  BY DEF VerifyCommit
<1> HIDE DEF q, commits
<1>6. Fresh(q, user')
  BY <1>4 DEF Fresh, Changing
<1>7. FreshInv'
  BY <1>2, <1>3, <1>5, <1>6, FreshCommit DEF ClickInv
<1>8. clicked' = clicked \cup {<<a, a>>}
  BY DEF VerifyCommit
<1>9. CASE ~new
  BY <1>7, <1>8, <1>9, ClickKept DEF VerifyCommit
<1>10. CASE new
  <2>1. /\ user' = [user EXCEPT ![a] = [notify |-> a, confirmed |-> TRUE]]
        /\ \A b \in Addresses : b # a => blind'[b] = blind[b]
    BY <1>2, <1>10 DEF VerifyCommit, TypeInv, TablesInv
  <2>2. user'[a].notify = a /\ \A b \in Addresses : b # a => user'[b] = user[b]
    BY <1>2, <2>1 DEF TypeInv, TablesInv
  <2>3. ConfirmedByClick'
    BY <1>8, <2>1, <2>2 DEF ClickInv, ConfirmedByClick
  <2>4. QED BY <1>7, <2>3 DEF ClickInv
<1>11. QED BY <1>9, <1>10

LEMMA ChangeCommitClicked ==
  ASSUME TypeInv, ClickInv, NEW r \in Requests, ChangeCommit(r)
  PROVE  ClickInv'
<1> DEFINE a == req[r].of
           n == req[r].arg
           commits == {<<"users", a>>, <<"clicks", a>>}
<1>1. ReqOK(req[r], user, link, click) /\ req[r].kind = "change"
  BY DEF ChangeCommit, TypeInv, ReqInv, Idle
<1>2. a \in Addresses /\ commits \in SUBSET Commits /\ Exists(a) /\ req[r] # Idle
  BY <1>1, ReqFields DEF ReqOK, Commits, Changing, Exists
<1>3. /\ user' = [user EXCEPT ![a] = Written(a, req[r].seen, n, FALSE)]
      /\ blind' = [blind EXCEPT ![a] = req[r].missed]
      /\ clicked' = clicked /\ CommitAs(r, Idle, commits)
  BY DEF ChangeCommit, Commit
<1>4. \A b \in Addresses : b # a => user'[b] = user[b] /\ blind'[b] = blind[b]
  BY <1>3 DEF TypeInv, TablesInv
<1>5. user'[a] = Written(a, req[r].seen, n, FALSE) /\ blind'[a] = req[r].missed
  BY <1>2, <1>3 DEF TypeInv, TablesInv
<1>6. FreshInv'
  BY <1>2, <1>3, <1>4, FreshCommit DEF ClickInv
<1>7. <<"users", a>> \in blind'[a] \/ ~user'[a].confirmed
  <2>1. <<"users", a>> \in req[r].missed \/ req[r].seen = user[a]
    BY <1>1, <1>2 DEF ClickInv, FreshInv, Fresh, Changing
  <2>2. CASE req[r].seen = user[a]
    <3>1. user'[a] = Written(a, user[a], n, FALSE)
      BY <1>5, <2>2
    <3>2. user[a].confirmed \in BOOLEAN
      BY <1>2 DEF TypeInv, TablesInv, Rows, Users, Exists
    <3>3. user'[a].confirmed = IF FALSE # user[a].confirmed THEN FALSE ELSE user[a].confirmed
      BY <3>1 DEF Written
    <3>4. QED BY <3>2, <3>3
  <2>3. QED BY <1>5, <2>1, <2>2
<1>8. ConfirmedByClick'
  <2> SUFFICES ASSUME NEW b \in Addresses, user'[b].confirmed
               PROVE  <<b, user'[b].notify>> \in clicked' \/ <<"users", b>> \in blind'[b]
    BY DEF ConfirmedByClick
  <2>1. CASE b = a
    BY <1>7, <2>1
  <2>2. CASE b # a
    BY <1>3, <1>4, <2>2 DEF ClickInv, ConfirmedByClick
  <2>3. QED BY <2>1, <2>2
<1>9. QED BY <1>6, <1>8 DEF ClickInv

LEMMA ConfirmCommitClicked ==
  ASSUME TypeInv, ClickInv, NEW r \in Requests, ConfirmCommit(r)
  PROVE  ClickInv'
<1> DEFINE a == req[r].of
           n == click[req[r].arg].to
           commits == {<<"users", a>>, <<"clicks", a>>}
<1>1. ReqOK(req[r], user, link, click) /\ req[r].kind = "confirm"
  BY DEF ConfirmCommit, TypeInv, ReqInv, Idle
<1>2. a \in Addresses /\ commits \in SUBSET Commits /\ Exists(a) /\ req[r] # Idle
  BY <1>1, ReqFields DEF ReqOK, Commits, Changing, Exists
<1>3. /\ user' = [user EXCEPT ![a] = Written(a, req[r].seen, n, TRUE)]
      /\ blind' = [blind EXCEPT ![a] = req[r].missed]
      /\ clicked' = clicked \cup {<<a, n>>} /\ CommitAs(r, Idle, commits)
  BY DEF ConfirmCommit, Commit
<1>4. \A b \in Addresses : b # a => user'[b] = user[b] /\ blind'[b] = blind[b]
  BY <1>3 DEF TypeInv, TablesInv
<1>5. user'[a] = Written(a, req[r].seen, n, TRUE) /\ blind'[a] = req[r].missed
  BY <1>2, <1>3 DEF TypeInv, TablesInv
<1>6. FreshInv'
  BY <1>2, <1>3, <1>4, FreshCommit DEF ClickInv
<1>7. <<"users", a>> \in blind'[a] \/ <<a, user'[a].notify>> \in clicked'
  <2>1. <<"users", a>> \in req[r].missed \/ req[r].seen = user[a]
    BY <1>1, <1>2 DEF ClickInv, FreshInv, Fresh, Changing
  <2>2. CASE req[r].seen = user[a]
    <3>1. user'[a] = Written(a, user[a], n, TRUE)
      BY <1>5, <2>2
    <3>2. user'[a].notify = n
      BY <3>1 DEF Written
    <3>3. <<a, n>> \in clicked'
      BY <1>3
    <3>4. QED BY <3>2, <3>3
  <2>3. QED BY <1>5, <2>1, <2>2
<1>8. ConfirmedByClick'
  <2> SUFFICES ASSUME NEW b \in Addresses, user'[b].confirmed
               PROVE  <<b, user'[b].notify>> \in clicked' \/ <<"users", b>> \in blind'[b]
    BY DEF ConfirmedByClick
  <2>1. CASE b = a
    BY <1>7, <2>1
  <2>2. CASE b # a
    BY <1>3, <1>4, <2>2 DEF ClickInv, ConfirmedByClick
  <2>3. QED BY <2>1, <2>2
<1>9. QED BY <1>6, <1>8 DEF ClickInv

LEMMA ClickStep ==
  ASSUME TypeInv, ClickInv, [Next]_vars
  PROVE  ClickInv'
<1> USE DEF ClickInv
<1>1. ASSUME NEW r \in Requests, SignIn(r) PROVE ClickInv'
  <2>1. ASSUME NEW a \in Addresses, LinkRead(r, a) PROVE ClickInv'
    BY <2>1, FreshRead, ClickKept DEF LinkRead, Kinds
  <2>2. CASE LinkCommit(r)
    <3>1. req[r].of \in Addresses
      BY <2>2, ReqFields DEF LinkCommit, TypeInv, ReqInv, ReqOK, Idle
    <3>2. {<<"links", req[r].of>>} \in SUBSET Commits
      BY <3>1 DEF Commits
    <3>3. FreshInv'
      BY <2>2, <3>2, FreshCommit DEF LinkCommit, Commit
    <3>4. QED BY <2>2, <3>3, ClickKept DEF LinkCommit
  <2>3. ASSUME NEW i \in DOMAIN link, VerifyRead(r, i) PROVE ClickInv'
    <3>1. i \in Nat /\ link[i].email \in Addresses
      BY TokenFields DEF TypeInv, Links
    <3>2. QED BY <2>3, <3>1, FreshRead, ClickKept DEF VerifyRead, Kinds
  <2>4. CASE VerifyRefused(r) \/ OpenSession(r)
    BY <2>4, FreshEnds, ClickKept DEF VerifyRefused, OpenSession
  <2>5. QED BY <1>1, <2>1, <2>2, <2>3, <2>4, VerifyCommitClicked, AccountsAssumption DEF SignIn
<1>2. ASSUME NEW r \in Requests, ChangeAddress(r) PROVE ClickInv'
  <2>1. ASSUME NEW a \in Addresses, NEW n \in Addresses, ChangeRead(r, a, n) PROVE ClickInv'
    BY <2>1, FreshRead, ClickKept DEF ChangeRead, Kinds
  <2>2. ASSUME NEW i \in DOMAIN click, ConfirmRead(r, i) PROVE ClickInv'
    <3>1. i \in Nat /\ click[i].account \in Addresses
      BY TokenFields DEF TypeInv, Clicks
    <3>2. QED BY <2>2, <3>1, FreshRead, ClickKept DEF ConfirmRead, Kinds
  <2>3. QED BY <1>2, <2>1, <2>2, ChangeCommitClicked, ConfirmCommitClicked DEF ChangeAddress
<1>3. ASSUME UNCHANGED <<user, clicked, blind, req>> PROVE ClickInv'
  BY <1>3 DEF FreshInv, ConfirmedByClick
<1>4. CASE \E a \in Watched, enabled \in BOOLEAN : SetAlertsEnabled(a, enabled)
  BY <1>3, <1>4 DEF SetAlertsEnabled
<1>5. CASE JobStep \/ Tick \/ UNCHANGED vars
  BY <1>3, <1>5 DEF JobStep, JobRead, JobWait, JobMail, Tick, vars
<1>6. CASE Restart
  <2>1. FreshInv'
    BY <1>6 DEF Restart, FreshInv
  <2>2. QED BY <1>6, <2>1, ClickKept DEF Restart
<1>7. QED BY <1>1, <1>2, <1>4, <1>5, <1>6 DEF Next

LEMMA ClickAtStart == Init => ClickInv
<1> SUFFICES ASSUME Init PROVE ClickInv
  OBVIOUS
<1>1. FreshInv
  BY DEF Init, FreshInv
<1>2. ConfirmedByClick
  BY DEF Init, ConfirmedByClick, NoAccount
<1>3. QED BY <1>1, <1>2 DEF ClickInv

(* An address counts as confirmed only if the family clicked the link sent *)
(* to it or signed in with it, whichever requests cross and whatever is    *)
(* restarted, unless the last writer of the account had missed an earlier  *)
(* commit of it (confirm_notify_email, request_notify_email_change).       *)
THEOREM ConfirmedOnlyByClick == Spec => []ConfirmedByClick
<1>1. Init => ClickInv
  BY ClickAtStart
<1>2. TypeInv /\ ClickInv /\ [Next]_vars => ClickInv'
  BY ClickStep
<1>3. ClickInv => ConfirmedByClick
  BY DEF ClickInv
<1>4. QED BY <1>1, <1>2, <1>3, TypeAlways, PTL DEF Spec

-----------------------------------------------------------------------------
(* A link opens one session. Of a link whose requests have missed no       *)
(* commit: while it is unused nobody is opening a session with it, and     *)
(* once it is used only one request is, before the session is counted;     *)
(* whoever has still read it as unused has missed the commit.              *)

Opening(r, i) == req[r].kind = "open" /\ req[r].arg = i
Unseen(i) == <<"links", link[i].email>>

UsedInv(i) ==
  /\ link[i].used = FALSE =>
       link[i].opened = 0 /\ \A r \in Requests : ~Opening(r, i)
  /\ link[i].used = TRUE => \A r \in Requests :
       req[r].kind = "verify" /\ req[r].arg = i => Unseen(i) \in req[r].missed
  /\ link[i].opened \in {0, 1}
  /\ link[i].opened = 1 => \A r \in Requests : ~Opening(r, i)
  /\ \A r, s \in Requests : Opening(r, i) /\ Opening(s, i) => r = s

LinkSafe(i) == Unseen(i) \in link[i].missed \/ UsedInv(i)
LinkInv == \A i \in DOMAIN link : LinkSafe(i)

(* A step that leaves link i alone and starts no session with it: a        *)
(* request ends, goes on as it was or misses more, turns to another link,  *)
(* or reads this one unused.                                               *)
LEMMA LinkKept ==
  ASSUME NEW i, LinkSafe(i), link'[i] = link[i],
         \A s \in Requests :
           \/ req'[s].kind \notin Using
           \/ req'[s].arg # i
           \/ req'[s].kind = "verify" /\ link[i].used = FALSE
           \/ /\ req'[s].kind = req[s].kind /\ req'[s].arg = req[s].arg
              /\ req[s].missed \subseteq req'[s].missed
  PROVE  LinkSafe(i)'
<1> SUFFICES ASSUME UsedInv(i) PROVE UsedInv(i)'
  BY DEF LinkSafe, Unseen
<1>1. \A s \in Requests : Opening(s, i)' => Opening(s, i)
  BY DEF Opening, Using
<1>2. link[i].used = TRUE => \A s \in Requests :
        req'[s].kind = "verify" /\ req'[s].arg = i => Unseen(i) \in req'[s].missed
  BY DEF UsedInv, Using
<1>3. QED BY <1>1, <1>2 DEF UsedInv, Unseen

LEMMA LinksKept ==
  ASSUME LinkInv, link' = link,
         \A s \in Requests :
           \/ req'[s].kind \notin Using
           \/ req'[s].kind = "verify" /\ link[req'[s].arg].used = FALSE
           \/ /\ req'[s].kind = req[s].kind /\ req'[s].arg = req[s].arg
              /\ req[s].missed \subseteq req'[s].missed
  PROVE  LinkInv'
<1> SUFFICES ASSUME NEW i \in DOMAIN link PROVE LinkSafe(i)'
  BY DEF LinkInv
<1>1. QED BY LinkKept DEF LinkInv

(* The requests of others after a commit.                                  *)
LEMMA OthersKept ==
  ASSUME TypeInv, NEW r \in Requests, NEW next, NEW commits \in SUBSET Commits,
         CommitAs(r, next, commits), NEW s \in Requests, s # r
  PROVE  /\ req'[s].kind = req[s].kind
         /\ req[s].kind \in Using =>
              /\ req'[s].arg = req[s].arg /\ req[s].missed \subseteq req'[s].missed
              /\ req[s].kind = "verify" =>
                   commits \cap {<<"links", req[s].of>>} \subseteq req'[s].missed
<1>1. CASE req[s] = Idle
  BY <1>1 DEF CommitAs, Idle, Using
<1>2. CASE req[s] # Idle
  <2>1. /\ req'[s].kind = req[s].kind /\ req'[s].arg = req[s].arg
        /\ req'[s].missed = req[s].missed \cup (commits \cap Concern(req[s]))
    BY <1>2, CommitSeen DEF TypeInv
  <2>2. req[s].kind = "verify" => Concern(req[s]) = {<<"links", req[s].of>>}
    BY DEF Concern
  <2>3. QED BY <2>1, <2>2
<1>3. QED BY <1>1, <1>2

LEMMA LinkCommitOpens ==
  ASSUME TypeInv, LinkInv, NEW r \in Requests, LinkCommit(r)
  PROVE  LinkInv'
<1> DEFINE e == [email |-> req[r].of, at |-> now, used |-> FALSE,
                 opened |-> 0, missed |-> req[r].missed]
           commits == {<<"links", req[r].of>>}
<1>1. req[r] \in Reqs
  BY DEF LinkCommit, TypeInv, ReqInv, ReqOK, Idle
<1>2. e \in Links /\ link' = Append(link, e) /\ e.used = FALSE /\ e.opened = 0
  BY <1>1, ReqFields DEF LinkCommit, Links, TypeInv, TablesInv
<1>3. commits \in SUBSET Commits /\ CommitAs(r, Idle, commits)
  BY <1>1, ReqFields DEF Commits, LinkCommit, Commit
<1> HIDE DEF e, commits
<1>4. /\ \A i \in DOMAIN link : link'[i] = link[i]
      /\ \A i \in DOMAIN link' : i \in DOMAIN link \/ link'[i] = e
  BY <1>2, AppendProperties DEF TypeInv, TablesInv
<1>5. req'[r] = Idle
  BY <1>3 DEF CommitAs
<1> SUFFICES ASSUME NEW i \in DOMAIN link' PROVE LinkSafe(i)'
  BY DEF LinkInv
<1>6. CASE i \in DOMAIN link
  <2>1. \A s \in Requests :
          \/ req'[s].kind \notin Using
          \/ req'[s].kind = req[s].kind /\ req'[s].arg = req[s].arg
             /\ req[s].missed \subseteq req'[s].missed
    BY <1>3, <1>5, OthersKept DEF Using, Idle
  <2>2. QED BY <1>4, <1>6, <2>1, LinkKept DEF LinkInv
<1>7. CASE i \notin DOMAIN link
  <2>1. ASSUME NEW s \in Requests, req'[s].kind \in Using PROVE req'[s].arg # i
    <3>1. s # r
      BY <1>5, <2>1 DEF Idle, Using
    <3>2. req[s].kind \in Using /\ req'[s].arg = req[s].arg
      BY <1>3, <2>1, <3>1, OthersKept
    <3>3. req[s].arg \in DOMAIN link
      BY <3>2 DEF TypeInv, ReqInv, ReqOK, Idle, Using
    <3>4. QED BY <1>7, <3>2, <3>3
  <2>2. \A s \in Requests : ~Opening(s, i)'
    BY <2>1 DEF Opening, Using
  <2>3. link'[i] = e
    BY <1>4, <1>7
  <2>4. QED BY <1>2, <2>2, <2>3 DEF LinkSafe, UsedInv
<1>8. QED BY <1>6, <1>7

LEMMA VerifyCommitOpens ==
  ASSUME TypeInv, LinkInv, NEW r \in Requests, VerifyCommit(r),
         NEW i, i = req[r].arg
  PROVE  LinkInv'
<1> DEFINE a == req[r].of
           m == req[r].missed
           q == Open("open", a, i, {})
           commits == {<<"links", a>>} \cup
                      (IF req[r].seen = NoAccount THEN {<<"users", a>>} ELSE {})
<1>1. ReqOK(req[r], user, link, click) /\ req[r].kind = "verify"
  BY DEF VerifyCommit, TypeInv, ReqInv, Idle
<1>2. a \in Addresses /\ i \in DOMAIN link /\ link[i].email = a /\ link[i] \in Links
  BY <1>1, ReqFields, TokenFields DEF ReqOK, Using, TypeInv
<1>3. commits \in SUBSET Commits /\ <<"links", a>> \in commits
  BY <1>2 DEF Commits
<1>4. CommitAs(r, q, commits)
  BY DEF VerifyCommit
<1>5. q.kind = "open" /\ q.arg = i
  BY DEF Open
<1>6. link' = [link EXCEPT ![i].used = TRUE, ![i].missed = link[i].missed \cup m]
  BY <1>2 DEF VerifyCommit, TypeInv, TablesInv
<1>7. /\ DOMAIN link' = DOMAIN link
      /\ \A j \in DOMAIN link : j # i => link'[j] = link[j]
      /\ link'[i].email = a /\ link'[i].used = TRUE
      /\ link'[i].opened = link[i].opened /\ link'[i].missed = link[i].missed \cup m
  BY <1>2, <1>6 DEF Links, TypeInv, TablesInv
<1> HIDE DEF q, commits
<1>8. req'[r] = q
  BY <1>4 DEF CommitAs
<1>9. ASSUME NEW j \in DOMAIN link, j # i PROVE LinkSafe(j)'
  <2>1. \A s \in Requests :
          \/ req'[s].kind \notin Using
          \/ req'[s].arg # j
          \/ req'[s].kind = req[s].kind /\ req'[s].arg = req[s].arg
             /\ req[s].missed \subseteq req'[s].missed
    BY <1>3, <1>4, <1>5, <1>8, <1>9, OthersKept
  <2>2. QED BY <1>7, <1>9, <2>1, LinkKept DEF LinkInv
<1>10. ASSUME Unseen(i) \in link[i].missed \cup m PROVE LinkSafe(i)'
  BY <1>2, <1>7, <1>10 DEF LinkSafe, Unseen
<1>11. ASSUME Unseen(i) \notin link[i].missed \cup m PROVE LinkSafe(i)'
  <2>1. UsedInv(i)
    BY <1>2, <1>11 DEF LinkInv, LinkSafe
  <2>2. link[i].used = FALSE
    <3>1. link[i].used \in BOOLEAN
      BY <1>2 DEF Links
    <3>2. link[i].used # TRUE
      BY <1>1, <1>11, <2>1 DEF UsedInv
    <3>3. QED BY <3>1, <3>2
  <2>3. link'[i].opened = 0 /\ \A s \in Requests : ~Opening(s, i)
    BY <1>7, <2>1, <2>2 DEF UsedInv
  <2>4. ASSUME NEW s \in Requests, s # r PROVE ~Opening(s, i)'
    <3>1. req'[s].kind = "open" => req[s].kind = "open" /\ req'[s].arg = req[s].arg
      BY <1>3, <1>4, <2>4, OthersKept DEF Using
    <3>2. QED BY <2>3, <3>1 DEF Opening
  <2>5. ASSUME NEW s \in Requests, req'[s].kind = "verify", req'[s].arg = i
        PROVE  Unseen(i)' \in req'[s].missed
    <3>1. s # r
      BY <1>5, <1>8, <2>5
    <3>2. /\ req[s].kind = "verify" /\ req[s].arg = i
          /\ commits \cap {<<"links", req[s].of>>} \subseteq req'[s].missed
      BY <1>3, <1>4, <2>5, <3>1, OthersKept DEF Using
    <3>3. link[i].email = req[s].of
      BY <3>2 DEF TypeInv, ReqInv, ReqOK, Idle, Using
    <3>4. QED BY <1>2, <1>3, <1>7, <3>2, <3>3 DEF Unseen
  <2>6. UsedInv(i)'
    BY <1>7, <2>3, <2>4, <2>5 DEF UsedInv
  <2>7. QED BY <2>6 DEF LinkSafe
<1>12. QED BY <1>7, <1>9, <1>10, <1>11 DEF LinkInv

LEMMA OpenSessionOnce ==
  ASSUME TypeInv, LinkInv, NEW r \in Requests, OpenSession(r),
         NEW i, i = req[r].arg
  PROVE  LinkInv'
<1>1. i \in DOMAIN link /\ Opening(r, i)
  BY DEF OpenSession, TypeInv, ReqInv, ReqOK, Idle, Using, Opening
<1>2. link[i] \in Links
  BY <1>1, TokenFields DEF TypeInv
<1>3. /\ DOMAIN link' = DOMAIN link
      /\ \A j \in DOMAIN link : j # i => link'[j] = link[j]
      /\ link'[i].email = link[i].email /\ link'[i].used = link[i].used
      /\ link'[i].opened = link[i].opened + 1 /\ link'[i].missed = link[i].missed
  BY <1>1, <1>2 DEF OpenSession, Links, TypeInv, TablesInv
<1>4. \A s \in Requests : req'[s] = IF s = r THEN Idle ELSE req[s]
  BY DEF OpenSession, Ends, TypeInv, ReqInv
<1>5. ASSUME NEW j \in DOMAIN link, j # i PROVE LinkSafe(j)'
  <2>1. \A s \in Requests : req'[s].kind \notin Using \/ req'[s] = req[s]
    BY <1>4 DEF Idle, Using
  <2>2. QED BY <1>3, <1>5, <2>1, LinkKept DEF LinkInv
<1>6. ASSUME UsedInv(i) PROVE UsedInv(i)'
  <2>1. link[i].used # FALSE /\ link[i].opened = 0
    BY <1>1, <1>6 DEF UsedInv
  <2>2. \A s \in Requests : ~Opening(s, i)'
    BY <1>1, <1>4, <1>6 DEF UsedInv, Opening, Idle
  <2>3. \A s \in Requests : req'[s].kind = "verify" => req'[s] = req[s]
    BY <1>4 DEF Idle
  <2>4. link'[i].opened = 1
    BY <1>3, <2>1
  <2>5. QED BY <1>3, <1>6, <2>1, <2>2, <2>3, <2>4 DEF UsedInv, Unseen
<1>7. LinkSafe(i)'
  BY <1>1, <1>3, <1>6 DEF LinkInv, LinkSafe, Unseen
<1>8. QED BY <1>3, <1>5, <1>7 DEF LinkInv

LEMMA LinkStep ==
  ASSUME TypeInv, LinkInv, [Next]_vars
  PROVE  LinkInv'
<1>1. ASSUME NEW r \in Requests, NEW q, link' = link, req' = [req EXCEPT ![r] = q],
             \/ q.kind \in (Kinds \ Using) \cup {"idle"}
             \/ q.kind = "verify" /\ link[q.arg].used = FALSE
      PROVE  LinkInv'
  <2>1. \A s \in Requests : req'[s] = IF s = r THEN q ELSE req[s]
    BY <1>1 DEF TypeInv, ReqInv
  <2>2. "idle" \notin Using
    BY DEF Using
  <2>3. QED BY <1>1, <2>1, <2>2, LinksKept
<1>2. ASSUME UNCHANGED <<link, req>> PROVE LinkInv'
  BY <1>2, LinksKept
<1>3. ASSUME NEW r \in Requests, SignIn(r) PROVE LinkInv'
  <2>1. ASSUME NEW a \in Joining, LinkRead(r, a) PROVE LinkInv'
    BY <1>1, <2>1 DEF LinkRead, Open, Kinds, Using
  <2>2. ASSUME NEW i \in DOMAIN link, VerifyRead(r, i) PROVE LinkInv'
    <3>1. link[i].used \in BOOLEAN
      BY TokenFields DEF TypeInv, Links
    <3>2. link[i].used = FALSE
      BY <2>2, <3>1 DEF VerifyRead
    <3>3. QED BY <1>1, <2>2, <3>2 DEF VerifyRead, Open
  <2>3. CASE VerifyRefused(r)
    BY <1>1, <2>3 DEF VerifyRefused, Ends, Idle
  <2>4. QED BY <1>3, <2>1, <2>2, <2>3, LinkCommitOpens, VerifyCommitOpens, OpenSessionOnce DEF SignIn
<1>4. ASSUME NEW r \in Requests, ChangeAddress(r) PROVE LinkInv'
  <2>1. ASSUME NEW a \in Addresses, NEW n \in Addresses, ChangeRead(r, a, n) PROVE LinkInv'
    BY <1>1, <2>1 DEF ChangeRead, Open, Kinds, Using
  <2>2. ASSUME NEW i \in DOMAIN click, ConfirmRead(r, i) PROVE LinkInv'
    BY <1>1, <2>2 DEF ConfirmRead, Open, Kinds, Using
  <2>3. CASE ChangeCommit(r) \/ ConfirmCommit(r)
    <3>1. req[r] \in Reqs
      <4>1. req[r].kind # "idle"
        BY <2>3 DEF ChangeCommit, ConfirmCommit
      <4>2. QED BY <4>1 DEF TypeInv, ReqInv, ReqOK, Idle
    <3>2. {<<"users", req[r].of>>, <<"clicks", req[r].of>>} \in SUBSET Commits
      BY <3>1, ReqFields DEF Commits
    <3>3. CommitAs(r, Idle, {<<"users", req[r].of>>, <<"clicks", req[r].of>>}) /\ link' = link
      BY <2>3 DEF ChangeCommit, ConfirmCommit, Commit
    <3>4. req'[r] = Idle
      BY <3>3 DEF CommitAs
    <3>5. \A s \in Requests :
            \/ req'[s].kind \notin Using
            \/ req'[s].kind = req[s].kind /\ req'[s].arg = req[s].arg
               /\ req[s].missed \subseteq req'[s].missed
      BY <3>2, <3>3, <3>4, OthersKept DEF Using, Idle
    <3>6. QED BY <3>3, <3>5, LinksKept
  <2>4. QED BY <1>4, <2>1, <2>2, <2>3 DEF ChangeAddress
<1>5. CASE \E a \in Watched, enabled \in BOOLEAN : SetAlertsEnabled(a, enabled)
  BY <1>2, <1>5 DEF SetAlertsEnabled
<1>6. CASE JobStep \/ Tick \/ UNCHANGED vars
  BY <1>2, <1>6 DEF JobStep, JobRead, JobWait, JobMail, Tick, vars
<1>7. CASE Restart
  BY <1>7, LinksKept DEF Restart, Idle, Using
<1>8. QED BY <1>3, <1>4, <1>5, <1>6, <1>7 DEF Next

(* A link opens one session, however its submissions cross and whatever    *)
(* restarts between its use and its session, unless it was submitted again *)
(* while the first submission was being answered (verify_magic_link).      *)
THEOREM LinkOpensOneSession == Spec => []OneSessionPerLink
<1>1. Init => LinkInv
  BY DEF Init, LinkInv
<1>2. TypeInv /\ LinkInv /\ [Next]_vars => LinkInv'
  BY LinkStep
<1>3. LinkInv => OneSessionPerLink
  BY DEF LinkInv, LinkSafe, UsedInv, Unseen, OneSessionPerLink
<1>4. QED BY <1>1, <1>2, <1>3, TypeAlways, PTL DEF Spec

-----------------------------------------------------------------------------
(* The send limit. `sent` gives the times of finitely many emails, none of *)
(* them later than t.                                                      *)
SentBy(sent, t) ==
  /\ IsFiniteSet(DOMAIN sent)
  /\ \A i \in DOMAIN sent : sent[i] \in Nat /\ sent[i] <= t

LEMMA RecentFinite ==
  ASSUME NEW sent, NEW b \in Nat, SentBy(sent, b), NEW t \in Nat
  PROVE  /\ Recent(sent, t) \subseteq DOMAIN sent
         /\ IsFiniteSet(Recent(sent, t)) /\ Cardinality(Recent(sent, t)) \in Nat
<1>1. Recent(sent, t) \subseteq DOMAIN sent
  BY DEF Recent
<1>2. IsFiniteSet(Recent(sent, t))
  BY <1>1, FS_Subset DEF SentBy
<1>3. QED BY <1>1, <1>2, FS_CardinalityType

(* As time goes on, emails leave the window and none comes back.           *)
LEMMA RecentShrinks ==
  ASSUME NEW sent, NEW b \in Nat, SentBy(sent, b), NEW t \in Nat, NEW u \in Nat, t <= u
  PROVE  /\ Recent(sent, u) \subseteq Recent(sent, t)
         /\ Cardinality(Recent(sent, u)) <= Cardinality(Recent(sent, t))
<1>1. Window \in Nat
  BY AccountsAssumption
<1>2. Recent(sent, u) \subseteq Recent(sent, t)
  BY <1>1 DEF Recent, SentBy
<1>3. QED BY <1>2, RecentFinite, FS_Subset

(* The k-th newest of the emails in the window is there, with fewer than k *)
(* after it and at least k not before it.                                  *)
IsNewest(sent, t, k, s) ==
  /\ Cardinality({i \in Recent(sent, t) : sent[i] > s}) < k
  /\ Cardinality({i \in Recent(sent, t) : sent[i] >= s}) >= k

LEMMA NewestThere ==
  ASSUME NEW sent, NEW b \in Nat, SentBy(sent, b), NEW t \in Nat,
         NEW k \in Nat \ {0}, Cardinality(Recent(sent, t)) >= k
  PROVE  /\ \E i \in Recent(sent, t) : Newest(sent, t, k) = sent[i]
         /\ IsNewest(sent, t, k, Newest(sent, t, k))
<1> DEFINE R == Recent(sent, t)
           T == {sent[i] : i \in R}
           U == {s \in T : Cardinality({i \in R : sent[i] >= s}) >= k}
<1>1. R \subseteq DOMAIN sent /\ IsFiniteSet(R) /\ Cardinality(R) \in Nat
  BY RecentFinite
<1> HIDE DEF R
<1>2. T \in SUBSET (0..b)
  BY <1>1 DEF SentBy
<1>3. R # {}
  BY FS_EmptySet DEF R
<1>4. PICK m \in T : \A s \in T : m <= s
  <2>1. T \in SUBSET Nat /\ T # {}
    BY <1>2, <1>3
  <2> HIDE DEF T
  <2>2. QED BY <2>1, LeastNumber
<1>5. m \in U
  <2>1. {i \in R : sent[i] >= m} = R
    BY <1>1, <1>2, <1>4 DEF SentBy
  <2>2. QED BY <1>4, <2>1 DEF R
<1>6. U \in SUBSET (0..b) /\ U # {}
  BY <1>2, <1>5
<1> DEFINE x == Max(U)
<1>7. x \in U /\ \A s \in U : s <= x
  <2> HIDE DEF U
  <2>1. QED BY <1>6, MaxFact
<1> HIDE DEF x
<1> DEFINE G == {i \in R : sent[i] > x}
<1>8. Cardinality(G) < k
  <2> SUFFICES ASSUME ~(Cardinality(G) < k) PROVE FALSE
    OBVIOUS
  <2>1. G \subseteq R /\ IsFiniteSet(G) /\ Cardinality(G) \in Nat
    <3>1. G \subseteq R
      OBVIOUS
    <3> HIDE DEF G
    <3>2. QED BY <1>1, <3>1, FS_Subset, FS_CardinalityType
  <2>2. G # {}
    <3> HIDE DEF G
    <3>1. QED BY <2>1, FS_EmptySet
  <2> DEFINE H == {sent[i] : i \in G}
  <2>3. H \in SUBSET Nat /\ H # {} /\ H \subseteq T
    BY <2>1, <2>2, <1>1 DEF SentBy
  <2>4. PICK h \in H : \A s \in H : h <= s
    <3> HIDE DEF H
    <3>1. QED BY <2>3, LeastNumber
  <2>5. h > x /\ h \in Nat /\ x \in Nat
    BY <1>6, <1>7, <2>3, <2>4
  <2>6. {i \in R : sent[i] >= h} = G
    <3>1. ASSUME NEW i \in R, sent[i] >= h PROVE i \in G
      BY <1>1, <2>5, <3>1 DEF SentBy
    <3>2. ASSUME NEW i \in G PROVE i \in R /\ sent[i] >= h
      BY <1>1, <2>1, <2>3, <2>4 DEF SentBy
    <3> HIDE DEF G
    <3>3. QED BY <2>1, <3>1, <3>2
  <2>7. h \in U
    <3>1. h \in T
      BY <2>3, <2>4
    <3>2. Cardinality({i \in R : sent[i] >= h}) >= k
      BY <2>1, <2>6
    <3>3. QED BY <3>1, <3>2
  <2>8. QED BY <1>7, <2>5, <2>7
<1>9. x \in T /\ IsNewest(sent, t, k, x)
  BY <1>7, <1>8 DEF IsNewest, R
<1>10. \E s \in T : IsNewest(sent, t, k, s)
  BY <1>9
<1>11. Newest(sent, t, k) = CHOOSE s \in T : IsNewest(sent, t, k, s)
  BY DEF Newest, IsNewest, R
<1>12. Newest(sent, t, k) \in T /\ IsNewest(sent, t, k, Newest(sent, t, k))
  <2> HIDE DEF T
  <2>1. QED BY <1>10, <1>11
<1>13. QED BY <1>12 DEF R

(* The cool-down looks at the newest email, and so at all of them.         *)
LEMMA SoonFact ==
  ASSUME NEW sent, NEW b \in Nat, SentBy(sent, b), NEW t \in Nat
  PROVE  TooSoon(sent, t) <=> \E i \in Recent(sent, t) : t < sent[i] + Cooldown
<1>1. CASE Recent(sent, t) = {}
  BY <1>1 DEF TooSoon
<1>2. ASSUME Recent(sent, t) # {}
      PROVE  TooSoon(sent, t) <=> \E i \in Recent(sent, t) : t < sent[i] + Cooldown
  <2> DEFINE R == Recent(sent, t)
             n == Newest(sent, t, 1)
  <2>1. R \subseteq DOMAIN sent /\ IsFiniteSet(R) /\ Cardinality(R) \in Nat
    BY RecentFinite
  <2>2. Cardinality(R) >= 1
    BY <1>2, <2>1, FS_EmptySet
  <2>3. (\E i \in R : n = sent[i]) /\ IsNewest(sent, t, 1, n)
    BY <2>2, NewestThere
  <2>4. {i \in R : sent[i] > n} = {}
    <3> DEFINE G == {i \in R : sent[i] > n}
    <3>1. G \subseteq R /\ Cardinality(G) < 1
      BY <2>3 DEF IsNewest
    <3> HIDE DEF G
    <3>2. IsFiniteSet(G) /\ Cardinality(G) \in Nat
      BY <2>1, <3>1, FS_Subset, FS_CardinalityType
    <3>3. QED BY <3>1, <3>2, FS_EmptySet DEF G
  <2> HIDE DEF R, n
  <2>5. \A i \in R : sent[i] \in Nat
    BY <2>1 DEF SentBy
  <2>6. n \in Nat /\ \A i \in R : sent[i] <= n
    BY <2>3, <2>4, <2>5
  <2>7. TooSoon(sent, t) <=> t < n + Cooldown
    BY <1>2 DEF TooSoon, n
  <2>8. Cooldown \in Nat
    BY AccountsAssumption
  <2>9. (\E i \in R : t < sent[i] + Cooldown) <=> t < n + Cooldown
    BY <2>3, <2>5, <2>6, <2>8
  <2>10. QED BY <2>7, <2>9 DEF R
<1>3. QED BY <1>1, <1>2

(* Nothing sent meanwhile, the cool-down stays over.                       *)
LEMMA SoonOver ==
  ASSUME NEW sent, NEW b \in Nat, SentBy(sent, b), NEW t \in Nat, NEW u \in Nat, t <= u,
         ~TooSoon(sent, t)
  PROVE  ~TooSoon(sent, u)
<1>1. \A i \in Recent(sent, u) : i \in Recent(sent, t) /\ sent[i] \in Nat
  BY RecentShrinks, RecentFinite DEF SentBy
<1>2. \A i \in Recent(sent, t) : ~(t < sent[i] + Cooldown)
  BY SoonFact
<1>3. Cooldown \in Nat
  BY AccountsAssumption
<1>4. \A i \in Recent(sent, u) : ~(u < sent[i] + Cooldown)
  BY <1>1, <1>2, <1>3
<1>5. QED BY <1>4, SoonFact

(* Who was refused for the cool-down and waits as told is past it.         *)
LEMMA AfterSoon ==
  ASSUME NEW sent, NEW t \in Nat, SentBy(sent, t), TooSoon(sent, t)
  PROVE  /\ RetryAfter(sent, t) \in 1..Cooldown
         /\ ~TooSoon(sent, t + RetryAfter(sent, t))
<1> DEFINE n == Newest(sent, t, 1)
<1>1. Cooldown \in Nat \ {0} /\ Window \in Nat
  BY AccountsAssumption
<1>2. Recent(sent, t) # {} /\ t < n + Cooldown
  BY DEF TooSoon
<1>3. Cardinality(Recent(sent, t)) >= 1
  BY <1>2, RecentFinite, FS_EmptySet
<1>4. (\E i \in Recent(sent, t) : n = sent[i]) /\ IsNewest(sent, t, 1, n)
  BY <1>3, NewestThere
<1>5. n \in Nat /\ n <= t
  BY <1>4, RecentFinite DEF SentBy
<1>6. WaitUntil(sent, t) = n + Cooldown
  BY DEF WaitUntil
<1> HIDE DEF n
<1>7. RetryAfter(sent, t) = n + Cooldown - t
  BY <1>1, <1>2, <1>5, <1>6 DEF RetryAfter
<1>8. RetryAfter(sent, t) \in 1..Cooldown /\ t + RetryAfter(sent, t) = n + Cooldown
  BY <1>1, <1>2, <1>5, <1>7
<1>9. {i \in Recent(sent, t) : sent[i] > n} = {}
  <2> DEFINE G == {i \in Recent(sent, t) : sent[i] > n}
  <2>1. G \subseteq Recent(sent, t) /\ Cardinality(G) < 1
    BY <1>4 DEF IsNewest
  <2> HIDE DEF G
  <2>2. IsFiniteSet(G) /\ Cardinality(G) \in Nat
    BY <2>1, RecentFinite, FS_Subset, FS_CardinalityType
  <2>3. QED BY <2>1, <2>2, FS_EmptySet DEF G
<1>10. n + Cooldown \in Nat /\ t <= n + Cooldown
  BY <1>1, <1>2, <1>5
<1>11. \A i \in Recent(sent, n + Cooldown) :
         i \in Recent(sent, t) /\ sent[i] \in Nat
  BY <1>10, RecentShrinks, RecentFinite DEF SentBy
<1>12. \A i \in Recent(sent, n + Cooldown) : ~(n + Cooldown < sent[i] + Cooldown)
  BY <1>1, <1>5, <1>9, <1>11
<1>13. QED BY <1>8, <1>10, <1>12, SoonFact

(* Of a burst that is full, the time from which it is not.                 *)
LEMMA BurstOver ==
  ASSUME NEW sent, NEW b \in Nat, SentBy(sent, b), NEW t \in Nat, NEW k \in Nat,
         IsNewest(sent, t, Limit, k), NEW u \in Nat, t <= u, k + Window < u
  PROVE  ~TooMany(sent, u)
<1> DEFINE G == {i \in Recent(sent, t) : sent[i] > k}
<1>1. Window \in Nat /\ Limit \in Nat
  BY AccountsAssumption
<1>2. Recent(sent, u) \subseteq G
  <2>1. \A i \in Recent(sent, u) : i \in Recent(sent, t) /\ sent[i] \in Nat /\ sent[i] + Window >= u
    BY RecentShrinks, RecentFinite DEF SentBy, Recent
  <2>2. QED BY <1>1, <2>1
<1>3. G \subseteq Recent(sent, t) /\ Cardinality(G) < Limit
  BY DEF IsNewest
<1> HIDE DEF G
<1>4. IsFiniteSet(G) /\ Cardinality(G) \in Nat
  BY <1>3, RecentFinite, FS_Subset, FS_CardinalityType
<1>5. Cardinality(Recent(sent, u)) <= Cardinality(G) /\ Cardinality(Recent(sent, u)) \in Nat
  BY <1>2, <1>4, FS_Subset, RecentFinite
<1>6. QED BY <1>1, <1>3, <1>4, <1>5 DEF TooMany

(* Who was refused for a full burst and waits as told is let through then, *)
(* or is told to wait the second in which the oldest of it just leaves.    *)
LEMMA AfterMany ==
  ASSUME NEW sent, NEW b \in Nat, SentBy(sent, b), NEW t \in Nat, b <= t,
         ~TooSoon(sent, t), TooMany(sent, t), NEW w, w = RetryAfter(sent, t)
  PROVE  /\ w \in 1..Window
         /\ \/ ~Refused(sent, t + w)
            \/ RetryAfter(sent, t + w) = 1 /\ ~Refused(sent, t + w + 1)
<1> DEFINE k == Newest(sent, t, Limit)
<1>1. Window \in Nat \ {0} /\ Limit \in Nat \ {0}
  BY AccountsAssumption
<1>2. (\E i \in Recent(sent, t) : k = sent[i]) /\ IsNewest(sent, t, Limit, k)
  BY <1>1, NewestThere DEF TooMany
<1>3. k \in Nat /\ k <= t /\ k + Window >= t
  <2>1. PICK i \in Recent(sent, t) : k = sent[i]
    BY <1>2
  <2>2. i \in DOMAIN sent /\ sent[i] + Window >= t
    BY DEF Recent
  <2>3. sent[i] \in Nat /\ sent[i] <= b
    BY <2>2 DEF SentBy
  <2> HIDE DEF k
  <2>4. QED BY <2>1, <2>2, <2>3
<1>4. WaitUntil(sent, t) = k + Window
  BY DEF WaitUntil
<1> HIDE DEF k
<1>5. w = (IF k + Window > t THEN k + Window - t ELSE 1)
  BY <1>1, <1>3, <1>4 DEF RetryAfter
<1>6. w \in 1..Window
  BY <1>1, <1>3, <1>5
<1>7. ASSUME NEW u \in Nat, t <= u, k + Window < u PROVE ~Refused(sent, u)
  <2>1. ~TooMany(sent, u)
    BY <1>2, <1>3, <1>7, BurstOver
  <2>2. ~TooSoon(sent, u)
    BY <1>7, SoonOver
  <2>3. QED BY <2>1, <2>2 DEF Refused
<1>8. CASE k + Window = t
  <2>1. t + w \in Nat /\ t <= t + w /\ k + Window < t + w
    BY <1>1, <1>3, <1>5, <1>8
  <2>2. QED BY <1>6, <1>7, <2>1
<1>9. CASE k + Window > t
  <2> DEFINE u == t + w
  <2>1. u \in Nat /\ t <= u /\ u = k + Window
    BY <1>1, <1>3, <1>5, <1>9
  <2> HIDE DEF u
  <2>2. ~TooSoon(sent, u)
    BY <2>1, SoonOver
  <2>3. ASSUME TooMany(sent, u) PROVE RetryAfter(sent, u) = 1
    <3> DEFINE j == Newest(sent, u, Limit)
    <3>1. (\E i \in Recent(sent, u) : j = sent[i]) /\ IsNewest(sent, u, Limit, j)
      BY <1>1, <2>1, <2>3, NewestThere DEF TooMany
    <3>2. j \in Nat
      BY <3>1, <2>1, RecentFinite DEF SentBy
    <3>3. WaitUntil(sent, u) = j + Window
      BY <2>2 DEF WaitUntil
    <3> HIDE DEF j
    <3>4. RetryAfter(sent, u) = (IF j + Window > u THEN j + Window - u ELSE 1)
      BY <1>1, <2>1, <3>2, <3>3 DEF RetryAfter
    <3>5. ~(j > k)
      <4> SUFFICES ASSUME j > k PROVE FALSE
        OBVIOUS
      <4> DEFINE A == {i \in Recent(sent, u) : sent[i] >= j}
                 B == {i \in Recent(sent, t) : sent[i] > k}
      <4>1. A \subseteq B
        <5>1. \A i \in Recent(sent, u) : i \in Recent(sent, t) /\ sent[i] \in Nat
          BY <2>1, RecentShrinks, RecentFinite DEF SentBy
        <5>2. QED BY <1>3, <3>2, <5>1
      <4>2. Cardinality(A) >= Limit /\ Cardinality(B) < Limit /\ B \subseteq Recent(sent, t)
        BY <1>2, <3>1 DEF IsNewest
      <4> HIDE DEF A, B
      <4>3. IsFiniteSet(B) /\ Cardinality(B) \in Nat
        BY <4>2, RecentFinite, FS_Subset, FS_CardinalityType
      <4>4. Cardinality(A) <= Cardinality(B) /\ Cardinality(A) \in Nat
        BY <4>1, <4>3, FS_Subset, FS_CardinalityType
      <4>5. QED BY <1>1, <4>2, <4>3, <4>4
    <3>6. QED BY <1>1, <1>3, <2>1, <3>2, <3>4, <3>5
  <2>4. ~Refused(sent, u + 1)
    BY <1>1, <1>3, <1>7, <2>1
  <2>5. ~Refused(sent, u) \/ (RetryAfter(sent, u) = 1 /\ ~Refused(sent, u + 1))
    BY <2>2, <2>3, <2>4 DEF Refused
  <2>6. QED BY <1>6, <2>5 DEF u
<1>10. QED BY <1>1, <1>3, <1>8, <1>9

(* All of it: at most three waits, none longer than the window.            *)
LEMMA WaitsAreFew ==
  ASSUME now \in Nat, NEW sent, SentBy(sent, now)
  PROVE  WaitEnds(sent)
<1> DEFINE w1 == RetryAfter(sent, now)
           t1 == now + w1
           w2 == RetryAfter(sent, t1)
           t2 == t1 + w2
           w3 == RetryAfter(sent, t2)
<1>1. Cooldown \in Nat \ {0} /\ Window \in Nat \ {0} /\ Cooldown <= Window
  BY AccountsAssumption
<1>2. SUFFICES ASSUME Refused(sent, now)
               PROVE  /\ w1 <= Window
                      /\ \/ ~Refused(sent, t1)
                         \/ w2 <= Window /\ (~Refused(sent, t2) \/ ~Refused(sent, t2 + w3))
  BY DEF WaitEnds
<1>3. CASE TooSoon(sent, now)
  <2>1. w1 \in 1..Cooldown /\ ~TooSoon(sent, t1)
    BY <1>3, AfterSoon
  <2> HIDE DEF w1
  <2>2. w1 <= Window /\ t1 \in Nat /\ now <= t1
    BY <1>1, <2>1
  <2> HIDE DEF t1
  <2>3. CASE ~TooMany(sent, t1)
    BY <2>1, <2>2, <2>3 DEF Refused
  <2>4. CASE TooMany(sent, t1)
    <3>1. /\ w2 \in 1..Window
          /\ \/ ~Refused(sent, t2)
             \/ w3 = 1 /\ ~Refused(sent, t2 + 1)
      BY <2>1, <2>2, <2>4, AfterMany
    <3> HIDE DEF w2, t2, w3
    <3>2. QED BY <2>2, <3>1
  <2>5. QED BY <2>3, <2>4
<1>4. CASE ~TooSoon(sent, now)
  <2>1. TooMany(sent, now)
    BY <1>2, <1>4 DEF Refused
  <2>2. /\ w1 \in 1..Window
        /\ \/ ~Refused(sent, t1)
           \/ w2 = 1 /\ ~Refused(sent, t1 + 1)
    BY <1>4, <2>1, AfterMany
  <2> HIDE DEF w1, t1, w2
  <2>3. QED BY <1>1, <2>2
<1>5. QED BY <1>3, <1>4

(* What a request that may send again knows: every earlier email is past   *)
(* its cool-down, and the burst is not full.                               *)
Calm(sent, t) ==
  /\ \A i \in DOMAIN sent : sent[i] + Cooldown <= t
  /\ Cardinality(Recent(sent, t)) < Limit

LEMMA NotRefused ==
  ASSUME NEW sent, NEW t \in Nat, SentBy(sent, t), ~Refused(sent, t)
  PROVE  Calm(sent, t)
<1>1. Cooldown \in Nat /\ Window \in Nat /\ Cooldown <= Window /\ Limit \in Nat
  BY AccountsAssumption
<1>2. \A i \in Recent(sent, t) : ~(t < sent[i] + Cooldown)
  BY SoonFact DEF Refused
<1>3. ASSUME NEW i \in DOMAIN sent PROVE sent[i] + Cooldown <= t
  <2>1. sent[i] \in Nat
    BY DEF SentBy
  <2>2. CASE i \in Recent(sent, t)
    BY <1>1, <1>2, <2>1, <2>2
  <2>3. CASE i \notin Recent(sent, t)
    <3>1. ~(sent[i] + Window >= t)
      BY <2>3 DEF Recent
    <3>2. QED BY <1>1, <2>1, <3>1
  <2>4. QED BY <2>2, <2>3
<1>4. Cardinality(Recent(sent, t)) < Limit
  BY <1>1, RecentFinite DEF Refused, TooMany
<1>5. QED BY <1>3, <1>4 DEF Calm

LEMMA CalmLater ==
  ASSUME NEW sent, NEW b \in Nat, SentBy(sent, b), NEW t \in Nat, NEW u \in Nat, t <= u,
         Calm(sent, t)
  PROVE  Calm(sent, u)
<1>1. Cooldown \in Nat /\ Limit \in Nat
  BY AccountsAssumption
<1>2. \A i \in DOMAIN sent : sent[i] + Cooldown <= u
  BY <1>1 DEF Calm, SentBy
<1>3. Cardinality(Recent(sent, u)) < Limit
  BY <1>1, RecentShrinks, RecentFinite DEF Calm
<1>4. QED BY <1>2, <1>3 DEF Calm

-----------------------------------------------------------------------------
(* What a commit may change without a word: nothing of the account and of  *)
(* the tokens of anybody whose commit it does not announce.                *)
SameTokens(old, new, owner) ==
  /\ DOMAIN new = DOMAIN old
  /\ \A i \in DOMAIN old :
       /\ new[i][owner] = old[i][owner] /\ new[i].at = old[i].at
       /\ old[i].missed \subseteq new[i].missed

(* Tokens stay; a new one is sent at t.                                    *)
TokensGrow(old, new, owner, t) ==
  /\ DOMAIN old \subseteq DOMAIN new
  /\ \A i \in DOMAIN old :
       /\ new[i][owner] = old[i][owner] /\ new[i].at = old[i].at
       /\ old[i].missed \subseteq new[i].missed
  /\ \A i \in DOMAIN new \ DOMAIN old : i = Len(old) + 1 /\ new[i].at = t

Announced(commits) ==
  /\ commits \in SUBSET Commits
  /\ now \in Nat /\ now' \in Nat /\ now <= now'
  /\ \A a \in Addresses :
       /\ <<"users", a>> \in commits \/ user'[a] = user[a]
       /\ <<"links", a>> \in commits \/ LinkTimes(a)' = LinkTimes(a)
       /\ <<"clicks", a>> \in commits \/ ClickTimes(a)' = ClickTimes(a)
       /\ <<"optouts", a>> \in commits \/ (a \in optOut' <=> a \in optOut)
  /\ TokensGrow(link, link', "email", now) /\ TokensGrow(click, click', "account", now)
  /\ \A i \in DOMAIN click : i \in DOMAIN click' /\ click'[i].to = click[i].to

LEMMA SendsSame ==
  ASSUME NEW old, NEW new, NEW owner, SameTokens(old, new, owner), NEW a
  PROVE  Sends(new, owner, a) = Sends(old, owner, a)
<1>1. {j \in DOMAIN new : new[j][owner] = a} = {j \in DOMAIN old : old[j][owner] = a}
  BY DEF SameTokens
<1>2. \A i \in {j \in DOMAIN old : old[j][owner] = a} : new[i].at = old[i].at
  BY DEF SameTokens
<1>3. QED BY <1>1, <1>2 DEF Sends

(* A new token is one more email of its owner and of nobody else.          *)
LEMMA SendsAppended ==
  ASSUME NEW S, NEW old \in Seq(S), NEW e, NEW owner, NEW a, e[owner] # a
  PROVE  Sends(Append(old, e), owner, a) = Sends(old, owner, a)
<1> DEFINE new == Append(old, e)
<1>1. Len(old) \in Nat /\ DOMAIN old = 1..Len(old) /\ DOMAIN new = 1..(Len(old) + 1)
  OBVIOUS
<1>2. \A j \in 1..Len(old) : new[j] = old[j]
  OBVIOUS
<1>3. new[Len(old) + 1] = e
  BY <1>1
<1> HIDE DEF new
<1>4. {j \in DOMAIN new : new[j][owner] = a} = {j \in DOMAIN old : old[j][owner] = a}
  BY <1>1, <1>2, <1>3
<1>5. \A i \in {j \in DOMAIN old : old[j][owner] = a} : new[i].at = old[i].at
  BY <1>1, <1>2
<1>6. Sends(new, owner, a) = Sends(old, owner, a)
  BY <1>4, <1>5 DEF Sends
<1>7. QED BY <1>6 DEF new

LEMMA TokensAppended ==
  ASSUME NEW S, NEW old \in Seq(S), NEW e, NEW owner, NEW t, e.at = t
  PROVE  TokensGrow(old, Append(old, e), owner, t)
<1> DEFINE new == Append(old, e)
<1>1. Len(old) \in Nat /\ DOMAIN old = 1..Len(old) /\ DOMAIN new = 1..(Len(old) + 1)
  OBVIOUS
<1>2. \A j \in 1..Len(old) : new[j] = old[j]
  OBVIOUS
<1>3. new[Len(old) + 1] = e
  BY <1>1
<1> HIDE DEF new
<1>4. QED BY <1>1, <1>2, <1>3 DEF TokensGrow, new

LEMMA TokensKept ==
  ASSUME NEW old, NEW new, NEW owner, NEW t, SameTokens(old, new, owner) \/ new = old
  PROVE  TokensGrow(old, new, owner, t)
  BY DEF SameTokens, TokensGrow

LEMMA TimeGoesOn ==
  ASSUME TypeInv, [Next]_vars
  PROVE  now \in Nat /\ now' \in Nat /\ now <= now'
<1>1. now \in Nat
  BY DEF TypeInv, TablesInv
<1>2. now' = now \/ now' = now + 1
  BY DEF Next, SignIn, ChangeAddress, JobStep, LinkRead, LinkCommit, VerifyRead, VerifyCommit,
     VerifyRefused, OpenSession, ChangeRead, ChangeCommit, ConfirmRead, ConfirmCommit,
     SetAlertsEnabled, JobRead, JobWait, JobMail, Tick, Restart, vars
<1>3. QED BY <1>1, <1>2

(* The steps that commit, with what they announce.                         *)
Committing(r, next, commits) ==
  /\ req[r] # Idle
  /\ CommitAs(r, next, commits) /\ Announced(commits)
  /\ next = Idle \/ next.kind = "open"

LEMMA LinkCommitTells ==
  ASSUME TypeInv, NEW r \in Requests, LinkCommit(r)
  PROVE  Committing(r, Idle, {<<"links", req[r].of>>})
<1> DEFINE a == req[r].of
           e == [email |-> a, at |-> now, used |-> FALSE, opened |-> 0, missed |-> req[r].missed]
<1>1. req[r] # Idle /\ a \in Addresses
  BY ReqFields DEF LinkCommit, TypeInv, ReqInv, ReqOK, Idle
<1>2. /\ link' = Append(link, e) /\ UNCHANGED <<now, user, click, optOut>>
      /\ CommitAs(r, Idle, {<<"links", a>>})
  BY DEF LinkCommit, Commit
<1>3. {<<"links", a>>} \in SUBSET Commits
  BY <1>1 DEF Commits
<1>4. ASSUME NEW b \in Addresses, b # a PROVE LinkTimes(b)' = LinkTimes(b)
  <2>1. link \in Seq(Links) /\ e["email"] # b
    BY <1>4 DEF TypeInv, TablesInv
  <2> HIDE DEF e
  <2>2. Sends(Append(link, e), "email", b) = Sends(link, "email", b)
    BY <2>1, SendsAppended
  <2>3. QED BY <1>2, <2>2 DEF LinkTimes
<1>5. \A b \in Addresses : ClickTimes(b)' = ClickTimes(b)
  BY <1>2 DEF ClickTimes
<1>6. now \in Nat
  BY DEF TypeInv, TablesInv
<1>7. TokensGrow(link, link', "email", now)
  <2>1. e.at = now /\ link \in Seq(Links)
    BY DEF TypeInv, TablesInv
  <2> HIDE DEF e
  <2>2. QED BY <1>2, <2>1, TokensAppended
<1>8. TokensGrow(click, click', "account", now)
  BY <1>2, TokensKept
<1>9. Announced({<<"links", a>>})
  BY <1>2, <1>3, <1>4, <1>5, <1>6, <1>7, <1>8 DEF Announced
<1>10. QED BY <1>1, <1>2, <1>9 DEF Committing

LEMMA VerifyCommitTells ==
  ASSUME TypeInv, NEW r \in Requests, VerifyCommit(r)
  PROVE  \E commits :
           Committing(r, Open("open", req[r].of, req[r].arg, {}), commits)
<1> DEFINE a == req[r].of
           i == req[r].arg
           m == req[r].missed
           e == [link[i] EXCEPT !.used = TRUE, !.missed = link[i].missed \cup m]
           q == Open("open", a, i, {})
           commits == {<<"links", a>>} \cup
                      (IF req[r].seen = NoAccount THEN {<<"users", a>>} ELSE {})
<1>1. ReqOK(req[r], user, link, click) /\ req[r].kind = "verify" /\ req[r] # Idle
  BY DEF VerifyCommit, TypeInv, ReqInv, Idle
<1>2. a \in Addresses /\ m \in SUBSET Commits /\ i \in DOMAIN link /\ link[i].email = a
  BY <1>1, ReqFields DEF ReqOK, Using
<1>3. link[i] \in Links /\ i \in Nat /\ link \in Seq(Links)
  BY <1>2, TokenFields DEF TypeInv, TablesInv
<1>4. e.email = link[i].email /\ e.at = link[i].at /\ link[i].missed \subseteq e.missed
  BY <1>3 DEF Links
<1>5. link' = [link EXCEPT ![i] = e]
  BY <1>2, <1>3 DEF VerifyCommit, Links
<1> HIDE DEF e
<1>6. SameTokens(link, link', "email")
  BY <1>2, <1>3, <1>4, <1>5 DEF SameTokens
<1>7. \A b \in Addresses : LinkTimes(b)' = LinkTimes(b) /\ ClickTimes(b)' = ClickTimes(b)
  BY <1>6, SendsSame DEF LinkTimes, ClickTimes, VerifyCommit
<1>8. \A b \in Addresses : <<"users", b>> \in commits \/ user'[b] = user[b]
  BY <1>2 DEF VerifyCommit, TypeInv, TablesInv
<1>9. commits \in SUBSET Commits
  BY <1>2 DEF Commits
<1>10. CommitAs(r, q, commits) /\ UNCHANGED <<now, click, optOut>>
  BY DEF VerifyCommit
<1>11. now \in Nat
  BY DEF TypeInv, TablesInv
<1>12. q.kind = "open"
  BY DEF Open
<1> HIDE DEF q, commits
<1>13. TokensGrow(link, link', "email", now) /\ TokensGrow(click, click', "account", now)
  BY <1>6, <1>10, TokensKept
<1>14. Announced(commits)
  BY <1>7, <1>8, <1>9, <1>10, <1>11, <1>13 DEF Announced
<1>15. Committing(r, q, commits)
  BY <1>1, <1>10, <1>12, <1>14 DEF Committing
<1>16. QED BY <1>15 DEF q

LEMMA ChangeCommitTells ==
  ASSUME TypeInv, NEW r \in Requests, ChangeCommit(r)
  PROVE  Committing(r, Idle, {<<"users", req[r].of>>, <<"clicks", req[r].of>>})
<1> DEFINE a == req[r].of
           e == [account |-> a, to |-> req[r].arg, at |-> now, used |-> FALSE,
                 missed |-> req[r].missed]
           commits == {<<"users", a>>, <<"clicks", a>>}
<1>1. req[r] # Idle /\ a \in Addresses
  BY ReqFields DEF ChangeCommit, TypeInv, ReqInv, ReqOK, Idle
<1>2. /\ click' = Append(click, e) /\ UNCHANGED <<now, link, optOut>>
      /\ CommitAs(r, Idle, commits)
  BY DEF ChangeCommit, Commit
<1>3. commits \in SUBSET Commits
  BY <1>1 DEF Commits
<1>4. ASSUME NEW b \in Addresses, b # a PROVE ClickTimes(b)' = ClickTimes(b)
  <2>1. click \in Seq(Clicks) /\ e["account"] # b
    BY <1>4 DEF TypeInv, TablesInv
  <2> HIDE DEF e
  <2>2. Sends(Append(click, e), "account", b) = Sends(click, "account", b)
    BY <2>1, SendsAppended
  <2>3. QED BY <1>2, <2>2 DEF ClickTimes
<1>5. \A b \in Addresses : LinkTimes(b)' = LinkTimes(b)
  BY <1>2 DEF LinkTimes
<1>6. \A b \in Addresses : <<"users", b>> \in commits \/ user'[b] = user[b]
  BY <1>1 DEF ChangeCommit, TypeInv, TablesInv
<1>7. \A i \in DOMAIN click : i \in DOMAIN click' /\ click'[i].to = click[i].to
  <2> HIDE DEF e
  <2>1. QED BY <1>2 DEF TypeInv, TablesInv
<1>8. now \in Nat
  BY DEF TypeInv, TablesInv
<1>9. TokensGrow(click, click', "account", now)
  <2>1. e.at = now /\ click \in Seq(Clicks)
    BY DEF TypeInv, TablesInv
  <2> HIDE DEF e
  <2>2. QED BY <1>2, <2>1, TokensAppended
<1>10. TokensGrow(link, link', "email", now)
  BY <1>2, TokensKept
<1>11. Announced(commits)
  <2>1. \A b \in Addresses : <<"clicks", b>> \in commits \/ ClickTimes(b)' = ClickTimes(b)
    BY <1>4
  <2> HIDE DEF commits
  <2>2. QED BY <1>2, <1>3, <2>1, <1>5, <1>6, <1>7, <1>8, <1>9, <1>10 DEF Announced
<1>12. QED BY <1>1, <1>2, <1>11 DEF Committing

LEMMA ConfirmCommitTells ==
  ASSUME TypeInv, NEW r \in Requests, ConfirmCommit(r)
  PROVE  Committing(r, Idle, {<<"users", req[r].of>>, <<"clicks", req[r].of>>})
<1> DEFINE a == req[r].of
           i == req[r].arg
           e == [click[i] EXCEPT !.used = TRUE]
           commits == {<<"users", a>>, <<"clicks", a>>}
<1>1. ReqOK(req[r], user, link, click) /\ req[r].kind = "confirm" /\ req[r] # Idle
  BY DEF ConfirmCommit, TypeInv, ReqInv, Idle
<1>2. a \in Addresses /\ i \in DOMAIN click
  BY <1>1, ReqFields DEF ReqOK
<1>3. click[i] \in Clicks /\ i \in Nat /\ click \in Seq(Clicks)
  BY <1>2, TokenFields DEF TypeInv, TablesInv
<1>4. e.account = click[i].account /\ e.at = click[i].at /\ e.to = click[i].to
      /\ e.missed = click[i].missed
  BY <1>3 DEF Clicks
<1>5. click' = [click EXCEPT ![i] = e]
  BY <1>2, <1>3 DEF ConfirmCommit
<1> HIDE DEF e
<1>6. SameTokens(click, click', "account")
      /\ \A j \in DOMAIN click : j \in DOMAIN click' /\ click'[j].to = click[j].to
  BY <1>2, <1>3, <1>4, <1>5 DEF SameTokens
<1>7. \A b \in Addresses : LinkTimes(b)' = LinkTimes(b) /\ ClickTimes(b)' = ClickTimes(b)
  BY <1>6, SendsSame DEF LinkTimes, ClickTimes, ConfirmCommit
<1>8. \A b \in Addresses : <<"users", b>> \in commits \/ user'[b] = user[b]
  BY <1>2 DEF ConfirmCommit, TypeInv, TablesInv
<1>9. commits \in SUBSET Commits
  BY <1>2 DEF Commits
<1>10. CommitAs(r, Idle, commits) /\ UNCHANGED <<now, link, optOut>>
  BY DEF ConfirmCommit, Commit
<1>11. now \in Nat
  BY DEF TypeInv, TablesInv
<1> HIDE DEF commits
<1>12. TokensGrow(link, link', "email", now) /\ TokensGrow(click, click', "account", now)
  BY <1>6, <1>10, TokensKept
<1>13. Announced(commits)
  BY <1>6, <1>7, <1>8, <1>9, <1>10, <1>11, <1>12 DEF Announced
<1>14. QED BY <1>1, <1>10, <1>13 DEF Committing, commits

(* The steps that announce nothing: they change no row another reads.      *)
LEMMA OpenSessionTells ==
  ASSUME TypeInv, NEW r \in Requests, OpenSession(r)
  PROVE  Announced({}) /\ Ends(r) /\ job' = job
<1> DEFINE i == req[r].arg
           e == [link[i] EXCEPT !.opened = link[i].opened + 1]
<1>1. i \in DOMAIN link /\ link \in Seq(Links)
  BY DEF OpenSession, TypeInv, TablesInv, ReqInv, ReqOK, Idle, Using
<1>2. link[i] \in Links
  BY <1>1, TokenFields DEF TypeInv
<1>3. e.email = link[i].email /\ e.at = link[i].at /\ e.missed = link[i].missed
  BY <1>2 DEF Links
<1>4. link' = [link EXCEPT ![i] = e]
  BY <1>1 DEF OpenSession
<1> HIDE DEF e
<1>5. SameTokens(link, link', "email")
  BY <1>1, <1>3, <1>4 DEF SameTokens
<1>6. \A b \in Addresses : LinkTimes(b)' = LinkTimes(b) /\ ClickTimes(b)' = ClickTimes(b)
  BY <1>5, SendsSame DEF LinkTimes, ClickTimes, OpenSession
<1>7. now \in Nat
  BY DEF TypeInv, TablesInv
<1>8. TokensGrow(link, link', "email", now) /\ TokensGrow(click, click', "account", now)
  BY <1>5, TokensKept DEF OpenSession
<1>9. QED BY <1>6, <1>7, <1>8 DEF OpenSession, Announced

LEMMA QuietTells ==
  ASSUME TypeInv, [Next]_vars, UNCHANGED <<user, link, click, optOut>>
  PROVE  Announced({})
  BY TimeGoesOn, TokensKept DEF Announced, LinkTimes, ClickTimes

-----------------------------------------------------------------------------
(* What an open request knows still holds, or it has missed the commit     *)
(* that ended it: that the send limit lets the email through, and that     *)
(* nobody else has the address.                                            *)

Holder(row, b, n) == (row # NoAccount /\ b = n) \/ (row.confirmed /\ row.notify = n)

Knows(q, t, users, links, clicks) ==
  /\ q.kind = "link" =>
       <<"links", q.of>> \in q.missed \/ Calm(Sends(links, "email", q.of), t)
  /\ q.kind = "change" =>
       <<"clicks", q.of>> \in q.missed \/ Calm(Sends(clicks, "account", q.of), t)
  /\ q.kind = "confirm" => \A b \in Addresses \ {q.of} :
       <<"users", b>> \in q.missed \/ ~Holder(users[b], b, clicks[q.arg].to)

KnowsInv == \A r \in Requests : req[r] = Idle \/ Knows(req[r], now, user, link, click)

SentInv ==
  /\ \A i \in DOMAIN link : link[i].at <= now
  /\ \A i \in DOMAIN click : click[i].at <= now

LEMMA SendsOf ==
  ASSUME TypeInv, SentInv, NEW a
  PROVE  SentBy(LinkTimes(a), now) /\ SentBy(ClickTimes(a), now)
<1>1. now \in Nat
  BY DEF TypeInv, TablesInv
<1>2. /\ \A i \in DOMAIN link : link[i].at \in Nat /\ link[i].at <= now
      /\ \A i \in DOMAIN click : click[i].at \in Nat /\ click[i].at <= now
  BY TokenFields DEF TypeInv, SentInv, Links, Clicks
<1>3. IsFiniteSet(DOMAIN link) /\ IsFiniteSet(DOMAIN click)
  <2>1. /\ Len(link) \in Nat /\ DOMAIN link = 1..Len(link)
        /\ Len(click) \in Nat /\ DOMAIN click = 1..Len(click)
    BY DEF TypeInv, TablesInv
  <2>2. QED BY <2>1, FS_Interval
<1>4. IsFiniteSet({j \in DOMAIN link : link[j].email = a})
  BY <1>3, FS_Subset
<1>5. IsFiniteSet({j \in DOMAIN click : click[j].account = a})
  BY <1>3, FS_Subset
<1>6. SentBy(LinkTimes(a), now)
  BY <1>2, <1>4 DEF SentBy, LinkTimes, Sends
<1>7. SentBy(ClickTimes(a), now)
  BY <1>2, <1>5 DEF SentBy, ClickTimes, Sends
<1>8. QED BY <1>6, <1>7

LEMMA KnowsStays ==
  ASSUME TypeInv, SentInv, NEW commits, Announced(commits),
         NEW q, ReqOK(q, user, link, click), Knows(q, now, user, link, click),
         NEW p, p.kind = q.kind, p.of = q.of, p.arg = q.arg,
         q.missed \cup (commits \cap Concern(q)) \subseteq p.missed
  PROVE  Knows(p, now', user', link', click')
<1>1. q.of \in Addresses /\ now \in Nat /\ now' \in Nat /\ now <= now'
  BY ReqFields DEF ReqOK, Announced
<1>2. ASSUME q.kind = "link"
      PROVE  <<"links", q.of>> \in p.missed \/ Calm(Sends(link', "email", q.of), now')
  <2>1. Concern(q) = {<<"links", q.of>>}
    BY <1>2 DEF Concern
  <2>2. CASE <<"links", q.of>> \in q.missed \cup commits
    BY <2>1, <2>2
  <2>3. CASE <<"links", q.of>> \notin q.missed \cup commits
    <3>1. Calm(LinkTimes(q.of), now)
      BY <1>2, <2>3 DEF Knows, LinkTimes
    <3>2. Calm(LinkTimes(q.of), now')
      BY <1>1, <3>1, SendsOf, CalmLater
    <3>3. LinkTimes(q.of)' = LinkTimes(q.of)
      BY <1>1, <2>3 DEF Announced
    <3>4. Sends(link', "email", q.of) = LinkTimes(q.of)
      BY <3>3 DEF LinkTimes
    <3>5. QED BY <3>2, <3>4
  <2>4. QED BY <2>2, <2>3
<1>3. ASSUME q.kind = "change"
      PROVE  <<"clicks", q.of>> \in p.missed \/ Calm(Sends(click', "account", q.of), now')
  <2>1. <<"clicks", q.of>> \in Concern(q)
    BY <1>3 DEF Concern
  <2>2. CASE <<"clicks", q.of>> \in q.missed \cup commits
    BY <2>1, <2>2
  <2>3. CASE <<"clicks", q.of>> \notin q.missed \cup commits
    <3>1. Calm(ClickTimes(q.of), now)
      BY <1>3, <2>3 DEF Knows, ClickTimes
    <3>2. Calm(ClickTimes(q.of), now')
      BY <1>1, <3>1, SendsOf, CalmLater
    <3>3. ClickTimes(q.of)' = ClickTimes(q.of)
      BY <1>1, <2>3 DEF Announced
    <3>4. Sends(click', "account", q.of) = ClickTimes(q.of)
      BY <3>3 DEF ClickTimes
    <3>5. QED BY <3>2, <3>4
  <2>4. QED BY <2>2, <2>3
<1>4. ASSUME q.kind = "confirm", NEW b \in Addresses \ {q.of}
      PROVE  <<"users", b>> \in p.missed \/ ~Holder(user'[b], b, click'[p.arg].to)
  <2>1. <<"users", b>> \in Concern(q)
    BY <1>4 DEF Concern
  <2>2. CASE <<"users", b>> \in q.missed \cup commits
    BY <2>1, <2>2
  <2>3. CASE <<"users", b>> \notin q.missed \cup commits
    <3>1. ~Holder(user[b], b, click[q.arg].to)
      BY <1>4, <2>3 DEF Knows
    <3>2. user'[b] = user[b]
      BY <2>3 DEF Announced
    <3>3. click'[p.arg].to = click[q.arg].to
      BY <1>4 DEF Announced, ReqOK
    <3>4. QED BY <3>1, <3>2, <3>3
  <2>4. QED BY <2>2, <2>3
<1>5. QED BY <1>2, <1>3, <1>4 DEF Knows

LEMMA KnowsCommit ==
  ASSUME TypeInv, SentInv, KnowsInv, NEW r \in Requests, NEW next, NEW commits,
         Committing(r, next, commits)
  PROVE  KnowsInv'
<1>1. CommitAs(r, next, commits) /\ Announced(commits) /\ commits \in SUBSET Commits
  BY DEF Committing, Announced
<1>2. ASSUME NEW s \in Requests
      PROVE  req'[s] = Idle \/ Knows(req'[s], now', user', link', click')
  <2>1. CASE s = r
    <3>1. req'[s] = next
      BY <1>1, <2>1 DEF CommitAs
    <3>2. CASE next.kind = "open"
      BY <3>1, <3>2 DEF Knows
    <3>3. QED BY <3>1, <3>2 DEF Committing
  <2>2. CASE s # r /\ req[s] = Idle
    BY <1>1, <2>2 DEF CommitAs
  <2>3. CASE s # r /\ req[s] # Idle
    <3>1. /\ req'[s].kind = req[s].kind /\ req'[s].of = req[s].of /\ req'[s].arg = req[s].arg
          /\ req'[s].missed = req[s].missed \cup (commits \cap Concern(req[s]))
      BY <1>1, <2>3, CommitSeen DEF TypeInv
    <3>2. ReqOK(req[s], user, link, click) /\ Knows(req[s], now, user, link, click)
      BY <2>3 DEF TypeInv, ReqInv, KnowsInv
    <3>3. QED BY <1>1, <3>1, <3>2, KnowsStays
  <2>4. QED BY <2>1, <2>2, <2>3
<1>3. QED BY <1>2 DEF KnowsInv

(* Requests that go on, end, or begin with what they have just read.       *)
LEMMA KnowsOthers ==
  ASSUME TypeInv, SentInv, KnowsInv, Announced({}),
         \A s \in Requests : \/ req'[s] \in {req[s], Idle}
                             \/ Knows(req'[s], now', user', link', click')
  PROVE  KnowsInv'
<1>1. ASSUME NEW s \in Requests, req'[s] = req[s], req[s] # Idle
      PROVE  Knows(req'[s], now', user', link', click')
  <2>1. ReqOK(req[s], user, link, click) /\ Knows(req[s], now, user, link, click)
    BY <1>1 DEF TypeInv, ReqInv, KnowsInv
  <2>2. QED BY <1>1, <2>1, KnowsStays
<1>2. ASSUME NEW s \in Requests
      PROVE  req'[s] = Idle \/ Knows(req'[s], now', user', link', click')
  BY <1>1
<1>3. QED BY <1>2 DEF KnowsInv

LEMMA KnowsRead ==
  ASSUME TypeInv, SentInv, KnowsInv, [Next]_vars, NEW r \in Requests, NEW q,
         req' = [req EXCEPT ![r] = q], UNCHANGED <<now, user, link, click, optOut>>,
         Knows(q, now, user, link, click)
  PROVE  KnowsInv'
<1>1. Announced({})
  BY QuietTells
<1>2. \A s \in Requests : req'[s] = IF s = r THEN q ELSE req[s]
  BY DEF TypeInv, ReqInv
<1>3. QED BY <1>1, <1>2, KnowsOthers

LEMMA OpenedAs ==
  ASSUME NEW k, NEW a, NEW x
  PROVE  Open(k, a, x, {}).kind = k /\ Open(k, a, x, {}).of = a /\ Open(k, a, x, {}).arg = x
  BY DEF Open

LEMMA ReadsKnow ==
  ASSUME TypeInv, SentInv, KnowsInv, [Next]_vars, NEW r \in Requests
  PROVE  /\ \A a \in Addresses : LinkRead(r, a) => KnowsInv'
         /\ \A i \in DOMAIN link : VerifyRead(r, i) => KnowsInv'
         /\ \A a, n \in Addresses : ChangeRead(r, a, n) => KnowsInv'
         /\ \A i \in DOMAIN click : ConfirmRead(r, i) => KnowsInv'
<1>1. now \in Nat
  BY DEF TypeInv, TablesInv
<1>2. ASSUME NEW a \in Addresses, LinkRead(r, a) PROVE KnowsInv'
  <2> DEFINE q == Open("link", a, a, {})
  <2>1. q.kind = "link" /\ q.of = a
    BY OpenedAs
  <2>2. req' = [req EXCEPT ![r] = q] /\ UNCHANGED <<now, user, link, click, optOut>>
    BY <1>2 DEF LinkRead
  <2> HIDE DEF q
  <2>3. Calm(LinkTimes(a), now)
    BY <1>1, <1>2, SendsOf, NotRefused DEF LinkRead
  <2>4. Knows(q, now, user, link, click)
    BY <2>1, <2>3 DEF Knows, LinkTimes
  <2>5. QED BY <2>2, <2>4, KnowsRead
<1>3. ASSUME NEW i \in DOMAIN link, VerifyRead(r, i) PROVE KnowsInv'
  <2> DEFINE q == Open("verify", link[i].email, i, {})
  <2>1. q.kind = "verify"
    BY OpenedAs
  <2>2. req' = [req EXCEPT ![r] = q] /\ UNCHANGED <<now, user, link, click, optOut>>
    BY <1>3 DEF VerifyRead
  <2> HIDE DEF q
  <2>3. Knows(q, now, user, link, click)
    BY <2>1 DEF Knows
  <2>4. QED BY <2>2, <2>3, KnowsRead
<1>4. ASSUME NEW a \in Addresses, NEW n \in Addresses, ChangeRead(r, a, n) PROVE KnowsInv'
  <2> DEFINE q == Open("change", a, n, {})
  <2>1. q.kind = "change" /\ q.of = a
    BY OpenedAs
  <2>2. req' = [req EXCEPT ![r] = q] /\ UNCHANGED <<now, user, link, click, optOut>>
    BY <1>4 DEF ChangeRead
  <2> HIDE DEF q
  <2>3. Calm(ClickTimes(a), now)
    BY <1>1, <1>4, SendsOf, NotRefused DEF ChangeRead
  <2>4. Knows(q, now, user, link, click)
    BY <2>1, <2>3 DEF Knows, ClickTimes
  <2>5. QED BY <2>2, <2>4, KnowsRead
<1>5. ASSUME NEW i \in DOMAIN click, ConfirmRead(r, i) PROVE KnowsInv'
  <2> DEFINE q == Open("confirm", click[i].account, i, {})
  <2>1. q.kind = "confirm" /\ q.of = click[i].account /\ q.arg = i
    BY OpenedAs
  <2>2. req' = [req EXCEPT ![r] = q] /\ UNCHANGED <<now, user, link, click, optOut>>
    BY <1>5 DEF ConfirmRead
  <2> HIDE DEF q
  <2>3. ASSUME NEW b \in Addresses \ {click[i].account}
        PROVE  ~Holder(user[b], b, click[i].to)
    <3>1. ~(Exists(b) /\ (b = click[i].to \/ (user[b].notify = click[i].to /\ user[b].confirmed)))
      BY <1>5 DEF ConfirmRead, UsedByAnother
    <3>2. user[b].confirmed => Exists(b)
      BY DEF Exists, NoAccount
    <3>3. QED BY <3>1, <3>2 DEF Holder, Exists
  <2>4. Knows(q, now, user, link, click)
    BY <2>1, <2>3 DEF Knows
  <2>5. QED BY <2>2, <2>4, KnowsRead
<1>6. QED BY <1>2, <1>3, <1>4, <1>5

(* Every step is a commit that announces what it changes, a read, or       *)
(* announces nothing.                                                      *)
LEMMA KnowsStep ==
  ASSUME TypeInv, SentInv, KnowsInv, [Next]_vars
  PROVE  KnowsInv'
<1>1. ASSUME NEW r \in Requests, SignIn(r) PROVE KnowsInv'
  <2>1. CASE \E a \in Joining : LinkRead(r, a)
    BY <2>1, ReadsKnow, AccountsAssumption
  <2>2. CASE \E i \in DOMAIN link : VerifyRead(r, i)
    BY <2>2, ReadsKnow
  <2>3. CASE LinkCommit(r)
    BY <2>3, LinkCommitTells, KnowsCommit
  <2>4. CASE VerifyCommit(r)
    BY <2>4, VerifyCommitTells, KnowsCommit
  <2>5. CASE VerifyRefused(r)
    <3>1. Announced({}) /\ \A s \in Requests : req'[s] \in {req[s], Idle}
      BY <2>5, QuietTells DEF VerifyRefused, Ends, TypeInv, ReqInv
    <3>2. QED BY <3>1, KnowsOthers
  <2>6. CASE OpenSession(r)
    <3>1. Announced({}) /\ \A s \in Requests : req'[s] \in {req[s], Idle}
      BY <2>6, OpenSessionTells DEF Ends, TypeInv, ReqInv
    <3>2. QED BY <3>1, KnowsOthers
  <2>7. QED BY <1>1, <2>1, <2>2, <2>3, <2>4, <2>5, <2>6 DEF SignIn
<1>2. ASSUME NEW r \in Requests, ChangeAddress(r) PROVE KnowsInv'
  BY <1>2, ReadsKnow, ChangeCommitTells, ConfirmCommitTells, KnowsCommit DEF ChangeAddress
<1>3. CASE \E a \in Watched, enabled \in BOOLEAN : SetAlertsEnabled(a, enabled)
  <2>1. UNCHANGED <<now, user, link, click, req>>
    BY <1>3 DEF SetAlertsEnabled
  <2>2. QED BY <2>1 DEF KnowsInv
<1>4. CASE JobStep \/ UNCHANGED vars
  <2>1. UNCHANGED <<now, user, link, click, req>>
    BY <1>4 DEF JobStep, JobRead, JobWait, JobMail, vars
  <2>2. QED BY <2>1 DEF KnowsInv
<1>5. CASE Tick
  <2>1. Announced({}) /\ req' = req
    BY <1>5, QuietTells DEF Tick
  <2>2. QED BY <2>1, KnowsOthers
<1>6. CASE Restart
  BY <1>6 DEF Restart, KnowsInv
<1>7. QED BY <1>1, <1>2, <1>3, <1>4, <1>5, <1>6 DEF Next

-----------------------------------------------------------------------------
(* Every token was sent in time.                                           *)

Before(tokens, i, owner) == {j \in 1..(i - 1) : tokens[j][owner] = tokens[i][owner]}
PacedAt(tokens, i, owner, table) ==
  <<table, tokens[i][owner]>> \notin tokens[i].missed =>
    /\ \A j \in Before(tokens, i, owner) : tokens[j].at + Cooldown <= tokens[i].at
    /\ Cardinality({j \in Before(tokens, i, owner) : tokens[j].at + Window >= tokens[i].at}) < Limit

LEMMA PacedGrows ==
  ASSUME NEW S, NEW old \in Seq(S), NEW new, NEW owner, NEW table, NEW t,
         TokensGrow(old, new, owner, t), PacedTokens(old, owner, table),
         \A i \in DOMAIN new \ DOMAIN old : PacedAt(new, i, owner, table)
  PROVE  PacedTokens(new, owner, table)
<1>1. ASSUME NEW i \in DOMAIN old PROVE PacedAt(new, i, owner, table)
  <2> DEFINE before == {j \in 1..(i - 1) : old[j][owner] = old[i][owner]}
             after == {j \in 1..(i - 1) : new[j][owner] = new[i][owner]}
  <2>1. \A j \in 1..(i - 1) : j \in DOMAIN old
    OBVIOUS
  <2>2. /\ \A j \in 1..(i - 1) : new[j][owner] = old[j][owner] /\ new[j].at = old[j].at
        /\ new[i][owner] = old[i][owner] /\ new[i].at = old[i].at
        /\ old[i].missed \subseteq new[i].missed
    BY <2>1 DEF TokensGrow
  <2>3. after = before
    BY <2>2
  <2>4. <<table, new[i][owner]>> \notin new[i].missed =>
          /\ \A j \in before : old[j].at + Cooldown <= old[i].at
          /\ Cardinality({j \in before : old[j].at + Window >= old[i].at}) < Limit
    BY <2>2 DEF PacedTokens
  <2>5. {j \in before : old[j].at + Window >= old[i].at}
          = {j \in after : new[j].at + Window >= new[i].at}
    BY <2>2, <2>3
  <2>6. <<table, new[i][owner]>> \notin new[i].missed =>
          /\ \A j \in after : new[j].at + Cooldown <= new[i].at
          /\ Cardinality({j \in after : new[j].at + Window >= new[i].at}) < Limit
    BY <2>2, <2>3, <2>4, <2>5
  <2>7. QED BY <2>6 DEF PacedAt, Before
<1>2. \A i \in DOMAIN new : PacedAt(new, i, owner, table)
  BY <1>1
<1>3. QED BY <1>2 DEF PacedTokens, PacedAt, Before

(* A token committed by a request that knew the send limit as it was.      *)
LEMMA PacedNew ==
  ASSUME NEW S, NEW old \in Seq(S), NEW e, NEW new, new = Append(old, e),
         NEW owner, NEW table,
         <<table, e[owner]>> \in e.missed \/ Calm(Sends(old, owner, e[owner]), e.at)
  PROVE  \A i \in DOMAIN new \ DOMAIN old : PacedAt(new, i, owner, table)
<1> DEFINE n == Len(old)
<1>1. /\ n \in Nat /\ DOMAIN old = 1..n /\ DOMAIN new = 1..(n + 1)
      /\ \A j \in 1..n : new[j] = old[j]
      /\ new[n + 1] = e
  OBVIOUS
<1> HIDE DEF n
<1>2. SUFFICES ASSUME <<table, e[owner]>> \notin e.missed
               PROVE  PacedAt(new, n + 1, owner, table)
  <2>1. \A i \in DOMAIN new \ DOMAIN old : i = n + 1
    BY <1>1
  <2>2. <<table, e[owner]>> \in e.missed => PacedAt(new, n + 1, owner, table)
    BY <1>1 DEF PacedAt
  <2>3. QED BY <2>1, <2>2
<1> DEFINE sent == Sends(old, owner, e[owner])
           before == Before(new, n + 1, owner)
<1>3. n + 1 - 1 = n
  BY <1>1
<1>4. DOMAIN sent = before
  BY <1>1, <1>3 DEF Sends, Before
<1>5. \A j \in before : sent[j] = new[j].at
  BY <1>1, <1>3 DEF Sends, Before
<1>6. new[n + 1].at = e.at /\ new[n + 1][owner] = e[owner] /\ new[n + 1].missed = e.missed
  BY <1>1
<1> HIDE DEF sent, before
<1>7. Calm(sent, e.at)
  BY <1>2 DEF sent
<1>8. \A j \in before : new[j].at + Cooldown <= new[n + 1].at
  BY <1>4, <1>5, <1>6, <1>7 DEF Calm
<1>9. Recent(sent, e.at) = {j \in before : new[j].at + Window >= new[n + 1].at}
  BY <1>4, <1>5, <1>6 DEF Recent
<1>10. Cardinality({j \in before : new[j].at + Window >= new[n + 1].at}) < Limit
  BY <1>7, <1>9 DEF Calm
<1>11. QED BY <1>8, <1>10 DEF PacedAt, before

PaceInv == SentInv /\ KnowsInv /\ Paced

LEMMA SentGrows ==
  ASSUME TypeInv, SentInv, now' \in Nat, now <= now',
         TokensGrow(link, link', "email", now), TokensGrow(click, click', "account", now)
  PROVE  SentInv'
<1>1. now \in Nat
  BY DEF TypeInv, TablesInv
<1>2. \A i \in DOMAIN link' : link'[i].at <= now'
  <2>1. \A i \in DOMAIN link : link[i].at \in Nat /\ link[i].at <= now /\ link'[i].at = link[i].at
    BY TokenFields DEF TypeInv, SentInv, TokensGrow, Links
  <2>2. \A i \in DOMAIN link' \ DOMAIN link : link'[i].at = now
    BY DEF TokensGrow
  <2>3. QED BY <1>1, <2>1, <2>2
<1>3. \A i \in DOMAIN click' : click'[i].at <= now'
  <2>1. \A i \in DOMAIN click : click[i].at \in Nat /\ click[i].at <= now /\ click'[i].at = click[i].at
    BY TokenFields DEF TypeInv, SentInv, TokensGrow, Clicks
  <2>2. \A i \in DOMAIN click' \ DOMAIN click : click'[i].at = now
    BY DEF TokensGrow
  <2>3. QED BY <1>1, <2>1, <2>2
<1>4. QED BY <1>2, <1>3 DEF SentInv

(* Steps that send nothing.                                                *)
LEMMA PaceKept ==
  ASSUME TypeInv, SentInv, Paced, now' \in Nat, now <= now',
         TokensGrow(link, link', "email", now), TokensGrow(click, click', "account", now),
         DOMAIN link' = DOMAIN link, DOMAIN click' = DOMAIN click
  PROVE  SentInv' /\ Paced'
<1>1. link \in Seq(Links) /\ click \in Seq(Clicks)
  BY DEF TypeInv, TablesInv
<1>2. PacedTokens(link', "email", "links")
  BY <1>1, PacedGrows DEF Paced
<1>3. PacedTokens(click', "account", "clicks")
  BY <1>1, PacedGrows DEF Paced
<1>4. QED BY <1>2, <1>3, SentGrows DEF Paced

LEMMA PaceLinkCommit ==
  ASSUME TypeInv, PaceInv, NEW r \in Requests, LinkCommit(r)
  PROVE  SentInv' /\ Paced'
<1> DEFINE a == req[r].of
           e == [email |-> a, at |-> now, used |-> FALSE, opened |-> 0, missed |-> req[r].missed]
<1>1. link' = Append(link, e) /\ link \in Seq(Links) /\ click \in Seq(Clicks) /\ click' = click
  BY DEF LinkCommit, TypeInv, TablesInv
<1>2. Announced({<<"links", a>>})
  BY LinkCommitTells DEF Committing
<1>3. e["email"] = a /\ e.at = now /\ e.missed = req[r].missed
  OBVIOUS
<1>4. <<"links", a>> \in req[r].missed \/ Calm(Sends(link, "email", a), now)
  <2>1. Knows(req[r], now, user, link, click) /\ req[r].kind = "link"
    BY DEF LinkCommit, PaceInv, KnowsInv, Idle
  <2>2. QED BY <2>1 DEF Knows
<1> HIDE DEF e
<1>5. \A i \in DOMAIN link' \ DOMAIN link : PacedAt(link', i, "email", "links")
  BY <1>1, <1>3, <1>4, PacedNew
<1>6. PacedTokens(link', "email", "links")
  BY <1>1, <1>2, <1>5, PacedGrows DEF PaceInv, Paced, Announced
<1>7. PacedTokens(click', "account", "clicks")
  BY <1>1 DEF PaceInv, Paced
<1>8. SentInv'
  BY <1>2, SentGrows DEF PaceInv, Announced
<1>9. QED BY <1>6, <1>7, <1>8 DEF Paced

LEMMA PaceChangeCommit ==
  ASSUME TypeInv, PaceInv, NEW r \in Requests, ChangeCommit(r)
  PROVE  SentInv' /\ Paced'
<1> DEFINE a == req[r].of
           e == [account |-> a, to |-> req[r].arg, at |-> now, used |-> FALSE,
                 missed |-> req[r].missed]
<1>1. click' = Append(click, e) /\ link \in Seq(Links) /\ click \in Seq(Clicks) /\ link' = link
  BY DEF ChangeCommit, TypeInv, TablesInv
<1>2. Announced({<<"users", a>>, <<"clicks", a>>})
  BY ChangeCommitTells DEF Committing
<1>3. e["account"] = a /\ e.at = now /\ e.missed = req[r].missed
  OBVIOUS
<1>4. <<"clicks", a>> \in req[r].missed \/ Calm(Sends(click, "account", a), now)
  <2>1. Knows(req[r], now, user, link, click) /\ req[r].kind = "change"
    BY DEF ChangeCommit, PaceInv, KnowsInv, Idle
  <2>2. QED BY <2>1 DEF Knows
<1> HIDE DEF e
<1>5. \A i \in DOMAIN click' \ DOMAIN click : PacedAt(click', i, "account", "clicks")
  BY <1>1, <1>3, <1>4, PacedNew
<1>6. PacedTokens(click', "account", "clicks")
  BY <1>1, <1>2, <1>5, PacedGrows DEF PaceInv, Paced, Announced
<1>7. PacedTokens(link', "email", "links")
  BY <1>1 DEF PaceInv, Paced
<1>8. SentInv'
  BY <1>2, SentGrows DEF PaceInv, Announced
<1>9. QED BY <1>6, <1>7, <1>8 DEF Paced

LEMMA PaceStep ==
  ASSUME TypeInv, PaceInv, [Next]_vars
  PROVE  PaceInv'
<1>1. KnowsInv'
  BY KnowsStep DEF PaceInv
<1>2. ASSUME NEW commits, Announced(commits), DOMAIN link' = DOMAIN link, DOMAIN click' = DOMAIN click
      PROVE  SentInv' /\ Paced'
  BY <1>2, PaceKept DEF Announced, PaceInv
<1>3. ASSUME UNCHANGED <<link, click>> PROVE SentInv' /\ Paced'
  BY <1>3, TimeGoesOn, TokensKept, PaceKept DEF PaceInv
<1>4. ASSUME NEW r \in Requests, SignIn(r) PROVE SentInv' /\ Paced'
  <2>1. CASE (\E a \in Joining : LinkRead(r, a)) \/ (\E i \in DOMAIN link : VerifyRead(r, i))
             \/ VerifyRefused(r)
    BY <1>3, <2>1 DEF LinkRead, VerifyRead, VerifyRefused
  <2>2. CASE VerifyCommit(r) \/ OpenSession(r)
    <3>1. DOMAIN link' = DOMAIN link /\ click' = click
      BY <2>2 DEF VerifyCommit, OpenSession
    <3>2. \E commits : Announced(commits)
      BY <2>2, VerifyCommitTells, OpenSessionTells DEF Committing
    <3>3. QED BY <1>2, <3>1, <3>2
  <2>3. QED BY <1>4, <2>1, <2>2, PaceLinkCommit DEF SignIn
<1>5. ASSUME NEW r \in Requests, ChangeAddress(r) PROVE SentInv' /\ Paced'
  <2>1. CASE (\E a, n \in Addresses : ChangeRead(r, a, n))
             \/ (\E i \in DOMAIN click : ConfirmRead(r, i))
    BY <1>3, <2>1 DEF ChangeRead, ConfirmRead
  <2>2. CASE ConfirmCommit(r)
    <3>1. DOMAIN click' = DOMAIN click /\ link' = link
      BY <2>2 DEF ConfirmCommit
    <3>2. \E commits : Announced(commits)
      BY <2>2, ConfirmCommitTells DEF Committing
    <3>3. QED BY <1>2, <3>1, <3>2
  <2>3. QED BY <1>5, <2>1, <2>2, PaceChangeCommit DEF ChangeAddress
<1>6. CASE \/ \E a \in Watched, enabled \in BOOLEAN : SetAlertsEnabled(a, enabled)
           \/ JobStep \/ Tick \/ Restart \/ UNCHANGED vars
  <2>1. UNCHANGED <<link, click>>
    BY <1>6 DEF SetAlertsEnabled, JobStep, JobRead, JobWait, JobMail, Tick, Restart, vars
  <2>2. QED BY <1>1, <1>3, <2>1 DEF PaceInv
<1>7. QED BY <1>1, <1>4, <1>5, <1>6 DEF Next, PaceInv

LEMMA PaceAtStart == Init => PaceInv
<1> SUFFICES ASSUME Init PROVE PaceInv
  OBVIOUS
<1>1. link = <<>> /\ click = <<>> /\ \A r \in Requests : req[r] = Idle
  BY DEF Init
<1>2. \A i \in DOMAIN <<>> : FALSE
  OBVIOUS
<1>3. SentInv /\ KnowsInv
  BY <1>1, <1>2 DEF SentInv, KnowsInv
<1>4. Paced
  BY <1>1, <1>2 DEF Paced, PacedTokens
<1>5. QED BY <1>3, <1>4 DEF PaceInv

LEMMA PaceAlways == Spec => [](TypeInv /\ PaceInv)
BY TypeAlways, PaceAtStart, PaceStep, PTL DEF Spec

(* Emails to one address, or confirmations of one account, keep the wait   *)
(* between them and the cap on a burst, whichever requests cross, unless   *)
(* the one that does not had missed another's commit (enforce_send_limit   *)
(* in request_magic_link and request_notify_email_change).                 *)
THEOREM EmailsPaced == Spec => []Paced
BY PaceAlways, PTL DEF PaceInv

(* Whoever waits as told gets the email after three waits at most, none    *)
(* longer than the window, whatever the limits and however full the burst  *)
(* (enforce_send_limit's retry_after_seconds).                             *)
THEOREM WaitingHelps == Spec => []WaitsEnd
<1>1. TypeInv /\ PaceInv => WaitsEnd
  <2> SUFFICES ASSUME TypeInv, PaceInv, NEW a \in Addresses
               PROVE  WaitEnds(LinkTimes(a)) /\ WaitEnds(ClickTimes(a))
    BY DEF WaitsEnd
  <2>1. now \in Nat /\ SentBy(LinkTimes(a), now) /\ SentBy(ClickTimes(a), now)
    BY SendsOf DEF TypeInv, TablesInv, PaceInv
  <2>2. QED BY <2>1, WaitsAreFew
<1>2. QED BY <1>1, PaceAlways, PTL

-----------------------------------------------------------------------------
(* Whose address it is.                                                    *)

(* The account whose row a step changes, and what its request had missed.  *)
LEMMA TakenChange ==
  ASSUME TypeInv, ClickInv, NEW r \in Requests, ChangeCommit(r),
         NEW a \in Addresses, NEW n \in Addresses, ~AlertsAt(a, n), AlertsAt(a, n)'
  PROVE  <<"users", a>> \in blind'[a]
<1> DEFINE x == req[r].arg
<1>1. ReqOK(req[r], user, link, click) /\ req[r].kind = "change" /\ req[r] # Idle
  BY DEF ChangeCommit, TypeInv, ReqInv, Idle
<1>2. /\ user' = [user EXCEPT ![req[r].of] = Written(req[r].of, req[r].seen, x, FALSE)]
      /\ blind' = [blind EXCEPT ![req[r].of] = req[r].missed]
      /\ req[r].of \in Addresses
  BY <1>1, ReqFields DEF ChangeCommit, ReqOK
<1>3. a = req[r].of
  BY <1>2 DEF TypeInv, TablesInv, AlertsAt
<1>4. user'[a] = Written(a, req[r].seen, x, FALSE) /\ blind'[a] = req[r].missed
  BY <1>2, <1>3 DEF TypeInv, TablesInv
<1>5. <<"users", a>> \in req[r].missed \/ req[r].seen = user[a]
  BY <1>1, <1>3 DEF ClickInv, FreshInv, Fresh, Changing
<1>6. user[a].confirmed \in BOOLEAN
  BY <1>1, <1>3 DEF ReqOK, Changing, TypeInv, TablesInv, Rows, Users
<1>7. ASSUME req[r].seen = user[a] PROVE FALSE
  <2>1. user'[a].confirmed = IF FALSE # user[a].confirmed THEN FALSE ELSE user[a].confirmed
    BY <1>4, <1>7 DEF Written
  <2>2. QED BY <1>6, <2>1 DEF AlertsAt
<1>8. QED BY <1>4, <1>5, <1>7

LEMMA TakenConfirm ==
  ASSUME TypeInv, ClickInv, KnowsInv, NEW r \in Requests, ConfirmCommit(r),
         NEW a \in Addresses, NEW n \in Addresses, ~AlertsAt(a, n), AlertsAt(a, n)',
         NEW b \in Addresses \ {a}, (Exists(b) /\ b = n) \/ AlertsAt(b, n)
  PROVE  {<<"users", a>>, <<"users", b>>} \cap blind'[a] # {}
<1> DEFINE to == click[req[r].arg].to
<1>1. ReqOK(req[r], user, link, click) /\ req[r].kind = "confirm" /\ req[r] # Idle
  BY DEF ConfirmCommit, TypeInv, ReqInv, Idle
<1>2. /\ user' = [user EXCEPT ![req[r].of] = Written(req[r].of, req[r].seen, to, TRUE)]
      /\ blind' = [blind EXCEPT ![req[r].of] = req[r].missed]
      /\ req[r].of \in Addresses
  BY <1>1, ReqFields DEF ConfirmCommit, ReqOK
<1>3. a = req[r].of
  BY <1>2 DEF TypeInv, TablesInv, AlertsAt
<1>4. user'[a] = Written(a, req[r].seen, to, TRUE) /\ blind'[a] = req[r].missed
  BY <1>2, <1>3 DEF TypeInv, TablesInv
<1>5. <<"users", a>> \in req[r].missed \/ req[r].seen = user[a]
  BY <1>1, <1>3 DEF ClickInv, FreshInv, Fresh, Changing
<1>6. ASSUME req[r].seen = user[a] PROVE <<"users", b>> \in req[r].missed
  <2>1. user'[a].notify = to
    BY <1>4, <1>6 DEF Written
  <2>2. n = to
    BY <2>1 DEF AlertsAt
  <2>3. Holder(user[b], b, to)
    BY <2>2 DEF Holder, Exists, AlertsAt
  <2>4. Knows(req[r], now, user, link, click)
    BY <1>1 DEF KnowsInv
  <2>5. <<"users", b>> \in req[r].missed \/ ~Holder(user[b], b, to)
    BY <1>1, <1>3, <2>4 DEF Knows
  <2>6. QED BY <2>3, <2>5
<1>7. QED BY <1>4, <1>5, <1>6

LEMMA TakenStep ==
  ASSUME TypeInv, ClickInv, KnowsInv, [Next]_vars,
         NEW a \in Addresses, NEW n \in Addresses, ~AlertsAt(a, n), AlertsAt(a, n)',
         NEW b \in Addresses \ {a}, (Exists(b) /\ b = n) \/ AlertsAt(b, n)
  PROVE  \/ {<<"users", a>>, <<"users", b>>} \cap blind'[a] # {}
         \/ ~Exists(a) /\ a = n /\ AlertsAt(b, n)
<1>1. user'[a] # user[a]
  BY DEF AlertsAt
<1>2. ASSUME NEW r \in Requests, VerifyCommit(r)
      PROVE  ~Exists(a) /\ a = n /\ AlertsAt(b, n)
  <2>1. req[r].of \in Addresses
    BY <1>2, ReqFields DEF VerifyCommit, TypeInv, ReqInv, ReqOK, Idle
  <2>2. user' = user \/ (user' = [user EXCEPT ![req[r].of] = [notify |-> req[r].of, confirmed |-> TRUE]]
                         /\ ~Exists(req[r].of))
    BY <1>2 DEF VerifyCommit
  <2>3. a = req[r].of /\ user'[a].notify = a /\ ~Exists(a)
    BY <1>1, <2>1, <2>2 DEF TypeInv, TablesInv
  <2>4. a = n /\ b # n
    BY <2>3 DEF AlertsAt
  <2>5. QED BY <2>3, <2>4
<1>3. \E r \in Requests : ChangeCommit(r) \/ ConfirmCommit(r) \/ VerifyCommit(r)
  BY <1>1 DEF Next, SignIn, ChangeAddress, JobStep, LinkRead, LinkCommit, VerifyRead,
     VerifyRefused, OpenSession, ChangeRead, ConfirmRead, SetAlertsEnabled, JobRead, JobWait,
     JobMail, Tick, Restart, vars
<1>4. QED BY <1>2, <1>3, TakenChange, TakenConfirm

(* A family's alerts start going to an address that another account signs  *)
(* in with or gets alerts at only if the confirmation had missed a commit  *)
(* of one of the two, or the family signs up there after the other account *)
(* confirmed the address (_used_by_another_account, verify_magic_link).    *)
THEOREM NoAddressTaken == Spec => AddressTaken
<1>1. Init => ClickInv
  BY ClickAtStart
<1>2. TypeInv /\ ClickInv /\ [Next]_vars => ClickInv'
  BY ClickStep
<1>3. TypeInv /\ ClickInv /\ PaceInv /\ [Next]_vars =>
        [\A a, n \in Addresses :
           (~AlertsAt(a, n) /\ AlertsAt(a, n)') =>
             \A b \in Addresses \ {a} :
               ((Exists(b) /\ b = n) \/ AlertsAt(b, n)) =>
                 \/ {<<"users", a>>, <<"users", b>>} \cap blind'[a] # {}
                 \/ ~Exists(a) /\ a = n /\ AlertsAt(b, n)]_vars
  BY TakenStep DEF PaceInv
<1>4. QED BY <1>1, <1>2, <1>3, PaceAlways, PTL DEF Spec, AddressTaken

-----------------------------------------------------------------------------
(* Where alerts go. What the job knows of the family it mails still holds, *)
(* or it has missed the commit that ended it.                              *)
JobKnows ==
  job # NoJob =>
    /\ \/ <<"users", job.of>> \in job.missed
       \/ user[job.of].confirmed /\ user[job.of].notify = job.to
    /\ job.of \in optOut => <<"optouts", job.of>> \in job.missed

LEMMA JobCommit ==
  ASSUME TypeInv, JobKnows, NEW commits, Announced(commits), job' = JobMisses(commits)
  PROVE  JobKnows'
<1>1. CASE job = NoJob
  BY <1>1 DEF JobMisses, JobKnows
<1>2. ASSUME job # NoJob PROVE JobKnows'
  <2> DEFINE m == job.missed \cup (commits \cap ({"users", "optouts"} \X {job.of}))
  <2>1. job \in Jobs /\ job.of \in Addresses
    BY <1>2 DEF TypeInv, JobInv, Jobs
  <2>2. job' = [job EXCEPT !.missed = m]
    BY <1>2 DEF JobMisses
  <2>3. job'.of = job.of /\ job'.to = job.to /\ job'.missed = m
    BY <2>1, <2>2 DEF Jobs
  <2>4. <<"users", job.of>> \in commits => <<"users", job.of>> \in m
    OBVIOUS
  <2>5. <<"optouts", job.of>> \in commits => <<"optouts", job.of>> \in m
    OBVIOUS
  <2>6. job.missed \subseteq m
    OBVIOUS
  <2> HIDE DEF m
  <2>7. /\ <<"users", job.of>> \in commits \/ user'[job.of] = user[job.of]
        /\ <<"optouts", job.of>> \in commits \/ (job.of \in optOut' <=> job.of \in optOut)
    BY <2>1 DEF Announced
  <2>8. QED BY <1>2, <2>3, <2>4, <2>5, <2>6, <2>7 DEF JobKnows
<1>3. QED BY <1>1, <1>2

LEMMA JobStepKnows ==
  ASSUME TypeInv, JobKnows, [Next]_vars
  PROVE  JobKnows'
<1>1. ASSUME UNCHANGED <<user, optOut, job>> PROVE JobKnows'
  BY <1>1 DEF JobKnows
<1>2. ASSUME NEW r \in Requests, NEW next, NEW commits, Committing(r, next, commits)
      PROVE  JobKnows'
  BY <1>2, JobCommit DEF Committing, CommitAs
<1>3. ASSUME NEW r \in Requests, SignIn(r) PROVE JobKnows'
  <2>1. CASE LinkCommit(r) \/ VerifyCommit(r)
    BY <1>2, <2>1, LinkCommitTells, VerifyCommitTells
  <2>2. CASE ~(LinkCommit(r) \/ VerifyCommit(r))
    BY <1>1, <1>3, <2>2 DEF SignIn, LinkRead, VerifyRead, VerifyRefused, OpenSession
  <2>3. QED BY <2>1, <2>2
<1>4. ASSUME NEW r \in Requests, ChangeAddress(r) PROVE JobKnows'
  <2>1. CASE ChangeCommit(r) \/ ConfirmCommit(r)
    BY <1>2, <2>1, ChangeCommitTells, ConfirmCommitTells
  <2>2. CASE ~(ChangeCommit(r) \/ ConfirmCommit(r))
    BY <1>1, <1>4, <2>2 DEF ChangeAddress, ChangeRead, ConfirmRead
  <2>3. QED BY <2>1, <2>2
<1>5. ASSUME NEW a \in Watched, NEW enabled \in BOOLEAN, SetAlertsEnabled(a, enabled)
      PROVE  JobKnows'
  <2>1. a \in Addresses /\ now \in Nat
    BY AccountsAssumption DEF TypeInv, TablesInv
  <2>2. /\ UNCHANGED <<now, user, link, click>>
        /\ job' = JobMisses({<<"optouts", a>>})
        /\ \A b \in Addresses : b # a => (b \in optOut' <=> b \in optOut)
    BY <1>5 DEF SetAlertsEnabled
  <2>3. {<<"optouts", a>>} \in SUBSET Commits
    BY <2>1 DEF Commits
  <2>4. Announced({<<"optouts", a>>})
    BY <2>1, <2>2, <2>3, TokensKept DEF Announced, LinkTimes, ClickTimes
  <2>5. QED BY <2>2, <2>4, JobCommit
<1>6. CASE JobStep
  <2>1. ASSUME NEW a \in Watched, JobRead(a) PROVE JobKnows'
    BY <2>1 DEF JobRead, JobKnows
  <2>2. CASE JobWait
    <3>1. job \in Jobs
      BY <2>2 DEF JobWait, TypeInv, JobInv
    <3>2. job'.of = job.of /\ job'.to = job.to /\ job'.missed = job.missed
      BY <2>2, <3>1 DEF JobWait, Jobs
    <3>3. QED BY <2>2, <3>2 DEF JobWait, JobKnows
  <2>3. CASE JobMail
    BY <2>3 DEF JobMail, JobKnows
  <2>4. QED BY <1>6, <2>1, <2>2, <2>3 DEF JobStep
<1>7. CASE Tick \/ UNCHANGED vars
  BY <1>1, <1>7 DEF Tick, vars
<1>8. CASE Restart
  BY <1>8 DEF Restart, JobKnows
<1>9. QED BY <1>3, <1>4, <1>5, <1>6, <1>7, <1>8 DEF Next

(* An alert goes to an address its family confirmed, and not to a family   *)
(* that turned alerts off, unless the family changed its mind after the    *)
(* job read the accounts or its own requests had crossed                   *)
(* (_detect_range_alerts, _send_one_alert, run_notify).                    *)
THEOREM AlertsGoAsChosen == Spec => AlertsAsChosen
<1>1. Init => ClickInv
  BY ClickAtStart
<1>2. TypeInv /\ ClickInv /\ [Next]_vars => ClickInv'
  BY ClickStep
<1>3. Init => JobKnows
  BY DEF Init, JobKnows
<1>4. TypeInv /\ JobKnows /\ [Next]_vars => JobKnows'
  BY JobStepKnows
<1>5. ASSUME TypeInv, ClickInv, JobKnows, [Next]_vars
      PROVE  [JobMail =>
                /\ \/ <<job.of, SentTo>> \in clicked
                   \/ <<"users", job.of>> \in (job.missed \cup blind[job.of])
                /\ job.of \in optOut => <<"optouts", job.of>> \in job.missed]_vars
  <2>1. ASSUME JobMail
        PROVE  /\ \/ <<job.of, SentTo>> \in clicked
                  \/ <<"users", job.of>> \in (job.missed \cup blind[job.of])
               /\ job.of \in optOut => <<"optouts", job.of>> \in job.missed
    <3>1. job # NoJob /\ job.of \in Addresses
      BY <1>5, <2>1 DEF JobMail, TypeInv, JobInv, Jobs
    <3>2. <<"users", job.of>> \notin job.missed =>
            user[job.of].confirmed /\ SentTo = user[job.of].notify
      BY <1>5, <3>1 DEF JobKnows, SentTo
    <3>3. QED BY <1>5, <3>1, <3>2 DEF JobKnows, ClickInv, ConfirmedByClick
  <2>2. QED BY <2>1
<1>6. QED BY <1>1, <1>2, <1>3, <1>4, <1>5, TypeAlways, PTL DEF Spec, AlertsAsChosen
=============================================================================
