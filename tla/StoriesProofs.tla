--------------------------- MODULE StoriesProofs ---------------------------
(***************************************************************************)
(* Proofs about Stories for any number of stories and families.            *)
(***************************************************************************)
EXTENDS Stories, FiniteSetTheorems, TLAPS

LEMMA IdleRunType == IdleRun \in RunState
BY DEF IdleRun, RunState, Phases

LEMMA NoPassType == NoPass \in PassState
BY DEF NoPass, PassState

\* The count of the day's stories is a number.
LEMMA CreatedCount == Cardinality(Created) \in Nat
<1>1. IsFiniteSet(Created)
  BY StoriesAssumption, FS_Subset DEF Created
<1>. QED  BY <1>1, FS_CardinalityType

LEMMA BeginPassType ==
  ASSUME TypeOK, NEW a \in Actors, NEW s \in Stories, BeginPass(a, s)
  PROVE  pass' \in [Actors -> PassState]
<1>1. [left    |-> IF story[s] \in Finished THEN WaitingFor(s) ELSE {},
       usable  |-> story[s] = "ready",
       mailing |-> {}] \in PassState
  BY DEF PassState, WaitingFor
<1>. QED  BY <1>1 DEF BeginPass, TypeOK

LEMMA JobNames == "intraday" \in Jobs /\ "recap" \in Jobs
BY DEF Jobs

LEMMA RunType == ASSUME TypeOK, NEW j \in Jobs PROVE run[j] \in RunState
BY DEF TypeOK

LEMMA RunAt ==
  ASSUME TypeOK, NEW j \in Jobs, NEW r, run' = [run EXCEPT ![j] = r]
  PROVE  run'[j] = r /\ \A k \in Jobs : k # j => run'[k] = run[k]
BY DEF TypeOK

LEMMA PassType == ASSUME TypeOK, NEW a \in Actors PROVE pass[a] \in PassState
BY DEF TypeOK

-----------------------------------------------------------------------------
(* Every variable keeps its type.                                           *)

THEOREM TypeCorrect == Spec => []TypeOK
<1>1. Init => TypeOK
  <2> SUFFICES ASSUME Init PROVE TypeOK
    OBVIOUS
  <2>1. run \in [Jobs -> RunState] /\ pass \in [Actors -> PassState]
    BY IdleRunType, NoPassType DEF Init
  <2>2. story \in [Stories -> StoryStatus]
    BY DEF Init, StoryStatus
  <2>3. logged \in [Jobs -> SUBSET Pairs]
    BY DEF Init
  <2>4. generations \in [Stories -> Nat] /\ mailed \in [Pairs -> Nat] /\ faults \in Nat
    BY DEF Init
  <2>. QED  BY <2>1, <2>2, <2>3, <2>4 DEF Init, TypeOK
<1>2. TypeOK /\ [Next]_vars => TypeOK'
  <2> SUFFICES ASSUME TypeOK, [Next]_vars PROVE TypeOK'
    OBVIOUS
  <2>1. ASSUME NEW a \in Actors, NEW p \in Pairs, Abandon(a, p) PROVE TypeOK'
    <3>1. [pass[a] EXCEPT !.left = pass[a].left \ {p}] \in PassState
      BY PassType DEF PassState
    <3>. QED  BY <2>1, <3>1 DEF Abandon, TypeOK
  <2>2. ASSUME NEW a \in Actors, NEW p \in Pairs, Claim(a, p) PROVE TypeOK'
    <3>1. [pass[a] EXCEPT !.left = pass[a].left \ {p},
                          !.mailing = IF row[p] = "waiting" THEN {p} ELSE {}]
            \in PassState
      BY PassType DEF PassState
    <3>. QED  BY <2>2, <3>1 DEF Claim, TypeOK
  <2>3. ASSUME NEW a \in Actors, NEW p \in Pairs, MailFollowup(a, p) PROVE TypeOK'
    <3>1. [pass[a] EXCEPT !.mailing = {}] \in PassState
      BY PassType DEF PassState
    <3>. QED  BY <2>3, <3>1 DEF MailFollowup, TypeOK
  <2>4. ASSUME NEW s \in Stories, WorkerStep(s) PROVE TypeOK'
    <3>1. CASE StoreStory(s)
      BY <3>1 DEF StoreStory, StoryStatus, TypeOK
    <3>2. CASE WorkerTell(s)
      <4>1. pass' \in [Actors -> PassState]
        BY <3>2, BeginPassType DEF WorkerTell, Actors
      <4>. QED  BY <3>2, <4>1 DEF WorkerTell, TypeOK
    <3>3. CASE WorkerDone(s)
      BY <3>3 DEF WorkerDone, TypeOK
    <3>. QED  BY <2>4, <3>1, <3>2, <3>3 DEF WorkerStep
  <2>5. CASE StartIntraday
    <3>1. [run["intraday"] EXCEPT !.pc = "sweep", !.nextDay = recapRan] \in RunState
      <4>1. recapRan \in BOOLEAN
        BY DEF TypeOK
      <4>. QED  BY ZenonT(30), <4>1, RunType, JobNames DEF RunState, Phases
    <3>. QED  BY <2>5, <3>1, JobNames DEF StartIntraday, TypeOK
  <2>6. CASE StartRecap
    <3>1. [run["recap"] EXCEPT !.pc = "detect"] \in RunState
      BY RunType, JobNames DEF RunState, Phases
    <3>. QED  BY <2>6, <3>1, JobNames DEF StartRecap, TypeOK
  <2>7. CASE IntradayStep
    <3>1. CASE SweepRead
      <4>1. [run["intraday"] EXCEPT !.pc = "giveup",
                 !.stuck = {s \in old : story[s] = "pending"}] \in RunState
        <5>1. {s \in old : story[s] = "pending"} \subseteq Stories
          BY DEF TypeOK
        <5>. QED  BY ZenonT(30), <5>1, RunType, JobNames DEF RunState, Phases
      <4>. QED  BY <3>1, <4>1, JobNames DEF SweepRead, TypeOK
    <3>2. CASE SweepGiveUp
      <4>1. [run["intraday"] EXCEPT !.pc = "resend", !.stuck = {},
                 !.tellq = {s \in Stories : WaitingFor(s) # {}}] \in RunState
        BY ZenonT(30), RunType, JobNames DEF RunState, Phases
      <4>2. story' \in [Stories -> StoryStatus] /\ old' \subseteq Stories
        BY <3>2 DEF SweepGiveUp, StoryStatus, Finished, TypeOK
      <4>. QED  BY <3>2, <4>1, <4>2, JobNames DEF SweepGiveUp, TypeOK
    <3>3. ASSUME NEW p \in Pairs, SendAlert(p) PROVE TypeOK'
      <4>1. ASSUME NEW D \in SUBSET {p}
            PROVE  [run["intraday"] EXCEPT
                      !.todo = run["intraday"].todo \ {p},
                      !.batch = run["intraday"].batch \cup {p},
                      !.drafts = run["intraday"].drafts \cup D] \in RunState
        BY RunType, JobNames DEF RunState
      <4>. QED  BY <3>3, <4>1, JobNames DEF SendAlert, TypeOK
    <3>4. CASE CommitAlerts
      <4>1. [IdleRun EXCEPT !.pc = "post", !.tellq = run["intraday"].plan] \in RunState
        BY IdleRunType, RunType, JobNames DEF RunState, Phases
      <4>2. run' \in [Jobs -> RunState]
        BY <3>4, <4>1, IdleRunType, JobNames DEF CommitAlerts, TypeOK
      <4>3. run["intraday"].batch \subseteq Pairs
        BY RunType, JobNames DEF RunState
      <4>4. row' \in [Pairs -> {"none", "waiting", "sent", "abandoned"}]
        BY <3>4 DEF CommitAlerts, TypeOK
      <4>5. logged' \in [Jobs -> SUBSET Pairs]
        BY <3>4, <4>3, JobNames DEF CommitAlerts, TypeOK
      <4>. QED  BY <3>4, <4>2, <4>4, <4>5 DEF CommitAlerts, TypeOK
    <3>. QED  BY <2>7, <3>1, <3>2, <3>3, <3>4 DEF IntradayStep
  <2>8. ASSUME NEW j \in Jobs, TellStep(j) PROVE TypeOK'
    <3>1. ASSUME NEW s \in Stories, JobTell(j, s) PROVE TypeOK'
      <4>1. [run[j] EXCEPT !.tellq = run[j].tellq \ {s}] \in RunState
        BY RunType DEF RunState
      <4>2. pass' \in [Actors -> PassState]
        BY <3>1, BeginPassType DEF JobTell, Actors
      <4>. QED  BY <3>1, <4>1, <4>2 DEF JobTell, TypeOK
    <3>2. CASE JobTold(j)
      <4>1. [run[j] EXCEPT !.pc = "detect"] \in RunState
        BY RunType DEF RunState, Phases
      <4>. QED  BY <3>2, <4>1, IdleRunType DEF JobTold, TypeOK
    <3>. QED  BY <2>8, <3>1, <3>2 DEF TellStep
  <2>9. ASSUME NEW j \in Jobs, PlanStep(j) PROVE TypeOK'
    <3>1. CASE Detect(j)
      <4>1. ASSUME NEW B \in Batch(j), NEW paused \in BOOLEAN
            PROVE  [IdleRun EXCEPT !.pc = "plan", !.todo = B,
                       !.cand = {p[1] : p \in B}, !.count = Cardinality(Created),
                       !.paused = paused] \in RunState
        <5>1. B \subseteq Pairs
          BY DEF Batch
        <5>2. {p[1] : p \in B} \subseteq Stories
          BY <5>1 DEF Pairs
        <5>. QED  BY <5>1, <5>2, IdleRunType, CreatedCount DEF RunState, Phases
      <4>2. PICK r \in RunState : run' = [run EXCEPT ![j] = r]
        BY <3>1, <4>1, IdleRunType DEF Detect
      <4>. QED  BY <3>1, <4>2 DEF Detect, TypeOK
    <3>2. ASSUME NEW s \in Stories, PlanExisting(j, s) PROVE TypeOK'
      <4>1. [run[j] EXCEPT !.cand = run[j].cand \ {s},
                           !.plan = run[j].plan \cup {s}] \in RunState
        BY RunType DEF RunState
      <4>. QED  BY <3>2, <4>1 DEF PlanExisting, TypeOK
    <3>3. ASSUME NEW s \in Stories, PlanNew(j, s) PROVE TypeOK'
      <4>1. [run[j] EXCEPT !.cand = run[j].cand \ {s}] \in RunState
        BY RunType DEF RunState
      <4>2. [run[j] EXCEPT !.cand = run[j].cand \ {s}, !.pc = "insert",
                           !.current = {s}] \in RunState
        BY ZenonT(30), RunType DEF RunState, Phases
      <4>. QED  BY <3>3, <4>1, <4>2 DEF PlanNew, TypeOK
    <3>4. ASSUME NEW s \in Stories, InsertStory(j, s) PROVE TypeOK'
      <4>1. [run[j] EXCEPT !.pc = "submit", !.count = run[j].count + 1] \in RunState
        <5>1. run[j].count \in Nat
          BY RunType DEF RunState
        <5>2. run[j].count + 1 \in Nat
          BY <5>1
        <5>. QED  BY ZenonT(30), <5>2, RunType DEF RunState, Phases
      <4>2. [run[j] EXCEPT !.pc = "plan", !.current = {},
                           !.plan = run[j].plan \cup {s}] \in RunState
        BY ZenonT(30), RunType DEF RunState, Phases
      <4>3. story' \in [Stories -> StoryStatus]
        BY <3>4 DEF InsertStory, StoryStatus, TypeOK
      <4>. QED  BY <3>4, <4>1, <4>2, <4>3 DEF InsertStory, TypeOK
    <3>5. ASSUME NEW s \in Stories, Submit(j, s) PROVE TypeOK'
      <4>1. [run[j] EXCEPT !.pc = "plan", !.current = {},
                           !.plan = run[j].plan \cup {s}] \in RunState
        BY ZenonT(30), RunType DEF RunState, Phases
      <4>. QED  BY <3>5, <4>1 DEF Submit, TypeOK
    <3>6. CASE Planned(j)
      <4>1. [run[j] EXCEPT !.pc = "wait"] \in RunState
        BY RunType DEF RunState, Phases
      <4>. QED  BY <3>6, <4>1 DEF Planned, TypeOK
    <3>7. CASE WaitOver(j)
      <4>1. [run[j] EXCEPT !.pc = "send",
                 !.pending = {s \in run[j].plan : story[s] = "pending"}] \in RunState
        BY ZenonT(30), RunType DEF RunState, Phases
      <4>. QED  BY <3>7, <4>1 DEF WaitOver, TypeOK
    <3>. QED  BY <2>9, <3>1, <3>2, <3>3, <3>4, <3>5, <3>6, <3>7 DEF PlanStep
  <2>10. CASE RecapStep
    <3>1. ASSUME NEW p \in Pairs, SendRecap(p) PROVE TypeOK'
      <4>1. ASSUME NEW D \in SUBSET {p}
            PROVE  [run["recap"] EXCEPT
                      !.todo = run["recap"].todo \ {p}, !.batch = {p},
                      !.drafts = D, !.pc = "check"] \in RunState
        BY ZenonT(30), RunType, JobNames DEF RunState, Phases
      <4>. QED  BY <3>1, <4>1, JobNames DEF SendRecap, TypeOK
    <3>2. CASE CheckRecap
      <4>1. [run["recap"] EXCEPT
                !.drafts = {p \in run["recap"].drafts : row[p] = "none"},
                !.pc = "commit"] \in RunState
        BY ZenonT(30), RunType, JobNames DEF RunState, Phases
      <4>. QED  BY <3>2, <4>1, JobNames DEF CheckRecap, TypeOK
    <3>3. CASE CommitRecap
      <4>1. [run["recap"] EXCEPT !.pc = "send", !.batch = {}, !.pending = {},
                                 !.drafts = {}] \in RunState
        BY ZenonT(30), RunType, JobNames DEF RunState, Phases
      <4>2. run' \in [Jobs -> RunState]
        BY <3>3, <4>1, JobNames DEF CommitRecap, TypeOK
      <4>3. run["recap"].batch \subseteq Pairs
        BY RunType, JobNames DEF RunState
      <4>4. row' \in [Pairs -> {"none", "waiting", "sent", "abandoned"}]
        BY <3>3 DEF CommitRecap, TypeOK
      <4>5. logged' \in [Jobs -> SUBSET Pairs]
        BY <3>3, <4>3, JobNames DEF CommitRecap, TypeOK
      <4>. QED  BY <3>3, <4>2, <4>4, <4>5 DEF CommitRecap, TypeOK
    <3>4. CASE RecapSent
      <4>1. [IdleRun EXCEPT !.pc = "post", !.tellq = run["recap"].plan] \in RunState
        BY IdleRunType, RunType, JobNames DEF RunState, Phases
      <4>. QED  BY <3>4, <4>1, JobNames DEF RecapSent, TypeOK
    <3>. QED  BY <2>10, <3>1, <3>2, <3>3, <3>4 DEF RecapStep
  <2>11. CASE FaultStep
    <3>1. ASSUME NEW j \in Jobs, StoriesUnavailable(j) PROVE TypeOK'
      <4>1. [run[j] EXCEPT !.pc = "send", !.plan = {}, !.cand = {}, !.current = {},
                           !.pending = {}] \in RunState
        BY ZenonT(30), RunType DEF RunState, Phases
      <4>. QED  BY <3>1, <4>1 DEF StoriesUnavailable, TypeOK
    <3>2. ASSUME NEW j \in Jobs, RunRaises(j) PROVE TypeOK'
      <4>1. [IdleRun EXCEPT !.pc = "detect", !.nextDay = run[j].nextDay] \in RunState
        BY IdleRunType, RunType DEF RunState, Phases
      <4>2. [run[j] EXCEPT !.pc = "send", !.batch = {}, !.pending = {}, !.drafts = {}]
              \in RunState
        BY ZenonT(30), RunType DEF RunState, Phases
      <4>3. run' \in [Jobs -> RunState]
        BY <3>2, <4>1, <4>2, IdleRunType DEF RunRaises, TypeOK
      <4>4. pass' \in [Actors -> PassState]
        BY <3>2, NoPassType DEF RunRaises, TypeOK
      <4>. QED  BY <3>2, <4>3, <4>4 DEF RunRaises, TypeOK
    <3>3. ASSUME NEW s \in Stories, WorkerRaises(s) PROVE TypeOK'
      <4>1. pass' \in [Actors -> PassState]
        BY <3>3, NoPassType DEF WorkerRaises, TypeOK
      <4>2. faults' \in Nat
        BY <3>3 DEF WorkerRaises, TypeOK
      <4>. QED  BY <3>3, <4>1, <4>2 DEF WorkerRaises, TypeOK
    <3>4. CASE Restart
      <4>1. faults' \in Nat
        BY <3>4 DEF Restart, TypeOK
      <4>2. run' \in [Jobs -> RunState] /\ pass' \in [Actors -> PassState]
        BY <3>4, IdleRunType, NoPassType DEF Restart
      <4>. QED  BY <3>4, <4>1, <4>2 DEF Restart, TypeOK
    <3>. QED  BY <2>11, <3>1, <3>2, <3>3, <3>4 DEF FaultStep
  <2>12. ASSUME NEW s \in Stories, GrowOld(s) PROVE TypeOK'
    BY <2>12 DEF GrowOld, TypeOK
  <2>13. CASE UNCHANGED vars
    BY <2>13 DEF vars, TypeOK
  <2>. QED
    BY <2>1, <2>2, <2>3, <2>4, <2>5, <2>6, <2>7, <2>8, <2>9, <2>10, <2>11,
       <2>12, <2>13 DEF Next, PassStep
<1>. QED  BY <1>1, <1>2, PTL DEF Spec

-----------------------------------------------------------------------------
(* A follow-up is emailed at most once.  What makes it so: the one who moves *)
(* a row out of "waiting" is the only one to hold it, and a row that was    *)
(* emailed never waits again.                                               *)

OnceMailed == \A p \in Pairs : mailed[p] <= 1 /\ (mailed[p] # 0 => row[p] = "sent")

HeldIsSent == \A a \in Actors, p \in Pairs :
                p \in pass[a].mailing => row[p] = "sent" /\ mailed[p] = 0

OneHolder == \A a, b \in Actors, p \in Pairs :
               p \in pass[a].mailing /\ p \in pass[b].mailing => a = b

OneInHand == \A a \in Actors : \A p, q \in pass[a].mailing : p = q

ClaimInv == OnceMailed /\ HeldIsSent /\ OneHolder /\ OneInHand

\* A step that sends nothing, claims nothing and keeps every sent row "sent".
LEMMA ClaimKept ==
  ASSUME TypeOK, TypeOK', ClaimInv, mailed' = mailed,
         \A a \in Actors : pass'[a].mailing \subseteq pass[a].mailing,
         \A p \in Pairs : row[p] = "sent" => row'[p] = "sent"
  PROVE  ClaimInv'
BY DEF ClaimInv, OnceMailed, HeldIsSent, OneHolder, OneInHand

LEMMA BeginPassClaims ==
  ASSUME TypeOK, NEW b \in Actors, NEW s \in Stories, BeginPass(b, s)
  PROVE  \A a \in Actors : pass'[a].mailing \subseteq pass[a].mailing
BY DEF BeginPass, TypeOK

LEMMA ClaimStep == TypeOK /\ TypeOK' /\ ClaimInv /\ [Next]_vars => ClaimInv'
<1> SUFFICES ASSUME TypeOK, TypeOK', ClaimInv, [Next]_vars PROVE ClaimInv'
  OBVIOUS
<1>1. ASSUME NEW a \in Actors, NEW p \in Pairs, Abandon(a, p) PROVE ClaimInv'
  <2>1. \A b \in Actors : pass'[b].mailing = pass[b].mailing
    BY <1>1, PassType DEF Abandon, PassState, TypeOK
  <2>2. \A q \in Pairs : row[q] = "sent" => row'[q] = "sent"
    BY <1>1 DEF Abandon, TypeOK
  <2>. QED  BY <1>1, <2>1, <2>2, ClaimKept DEF Abandon
<1>2. ASSUME NEW a \in Actors, NEW p \in Pairs, Claim(a, p) PROVE ClaimInv'
  <2>1. CASE row[p] = "waiting"
    <3>1. \A b \in Actors : pass'[b].mailing = IF b = a THEN {p} ELSE pass[b].mailing
      BY <1>2, <2>1, PassType DEF Claim, PassState, TypeOK
    <3>2. \A q \in Pairs : row'[q] = IF q = p THEN "sent" ELSE row[q]
      BY <1>2, <2>1 DEF Claim, TypeOK
    <3>3. mailed' = mailed
      BY <1>2 DEF Claim
    <3>4. mailed[p] = 0 /\ \A b \in Actors : p \notin pass[b].mailing
      BY <2>1 DEF ClaimInv, OnceMailed, HeldIsSent
    <3>. QED  BY <3>1, <3>2, <3>3, <3>4 DEF ClaimInv, OnceMailed, HeldIsSent, OneHolder, OneInHand
  <2>2. CASE row[p] # "waiting"
    <3>1. \A b \in Actors : pass'[b].mailing \subseteq pass[b].mailing
      BY <1>2, <2>2, PassType DEF Claim, PassState, TypeOK
    <3>2. row' = row
      BY <1>2, <2>2 DEF Claim, TypeOK
    <3>. QED  BY <1>2, <3>1, <3>2, ClaimKept DEF Claim
  <2>. QED  BY <2>1, <2>2
<1>3. ASSUME NEW a \in Actors, NEW p \in Pairs, MailFollowup(a, p) PROVE ClaimInv'
  <2>1. \A b \in Actors : pass'[b].mailing = IF b = a THEN {} ELSE pass[b].mailing
    BY <1>3, PassType DEF MailFollowup, PassState, TypeOK
  <2>2. \A q \in Pairs : mailed'[q] = IF q = p THEN mailed[p] + 1 ELSE mailed[q]
    BY <1>3 DEF MailFollowup, TypeOK
  <2>3. row' = row
    BY <1>3 DEF MailFollowup
  <2>4. /\ row[p] = "sent" /\ mailed[p] = 0
        /\ \A b \in Actors : b # a => p \notin pass[b].mailing
    BY <1>3 DEF MailFollowup, ClaimInv, HeldIsSent, OneHolder
  <2>. QED  BY <2>1, <2>2, <2>3, <2>4 DEF ClaimInv, OnceMailed, HeldIsSent, OneHolder, OneInHand
<1>4. ASSUME NEW s \in Stories, WorkerStep(s) PROVE ClaimInv'
  <2>1. CASE StoreStory(s)
    BY <2>1, ClaimKept DEF StoreStory
  <2>2. CASE WorkerTell(s)
    <3>1. \A a \in Actors : pass'[a].mailing \subseteq pass[a].mailing
      BY <2>2, BeginPassClaims DEF WorkerTell, Actors
    <3>. QED  BY <2>2, <3>1, ClaimKept DEF WorkerTell
  <2>3. CASE WorkerDone(s)
    BY <2>3, ClaimKept DEF WorkerDone
  <2>. QED  BY <1>4, <2>1, <2>2, <2>3 DEF WorkerStep
<1>5. ASSUME NEW j \in Jobs, TellStep(j) PROVE ClaimInv'
  <2>1. ASSUME NEW s \in Stories, JobTell(j, s) PROVE ClaimInv'
    <3>1. \A a \in Actors : pass'[a].mailing \subseteq pass[a].mailing
      BY <2>1, BeginPassClaims DEF JobTell, Actors
    <3>. QED  BY <2>1, <3>1, ClaimKept DEF JobTell
  <2>2. CASE JobTold(j)
    BY <2>2, ClaimKept DEF JobTold
  <2>. QED  BY <1>5, <2>1, <2>2 DEF TellStep
<1>6. CASE IntradayStep
  <2>1. UNCHANGED <<mailed, pass>>
    BY <1>6 DEF IntradayStep, SweepRead, SweepGiveUp, SendAlert, CommitAlerts
  <2>2. \A p \in Pairs : row[p] = "sent" => row'[p] = "sent"
    <3>1. CASE CommitAlerts
      BY <3>1 DEF CommitAlerts, Clash, TypeOK
    <3>2. CASE ~CommitAlerts
      BY <1>6, <3>2 DEF IntradayStep, SweepRead, SweepGiveUp, SendAlert
    <3>. QED  BY <3>1, <3>2
  <2>. QED  BY <2>1, <2>2, ClaimKept
<1>7. CASE RecapStep
  <2>1. UNCHANGED <<mailed, pass>>
    BY <1>7 DEF RecapStep, SendRecap, CheckRecap, CommitRecap, RecapSent
  <2>2. \A p \in Pairs : row[p] = "sent" => row'[p] = "sent"
    <3>1. CASE CommitRecap
      BY <3>1 DEF CommitRecap, Clash, TypeOK
    <3>2. CASE ~CommitRecap
      BY <1>7, <3>2 DEF RecapStep, SendRecap, CheckRecap, RecapSent
    <3>. QED  BY <3>1, <3>2
  <2>. QED  BY <2>1, <2>2, ClaimKept
<1>8. ASSUME NEW j \in Jobs, PlanStep(j) PROVE ClaimInv'
  <2>1. UNCHANGED <<row, mailed, pass>>
    BY <1>8 DEF PlanStep, Detect, PlanExisting, PlanNew, InsertStory, Submit, Planned,
                WaitOver
  <2>. QED  BY <2>1, ClaimKept
<1>9. CASE StartIntraday \/ StartRecap
  BY <1>9, ClaimKept DEF StartIntraday, StartRecap
<1>10. CASE FaultStep
  <2>1. UNCHANGED <<row, mailed>>
    BY <1>10 DEF FaultStep, StoriesUnavailable, RunRaises, WorkerRaises, Restart
  <2>2. \A a \in Actors : pass'[a] \in {pass[a], NoPass}
    <3>1. ASSUME NEW j \in Jobs, StoriesUnavailable(j) \/ RunRaises(j)
          PROVE  \A a \in Actors : pass'[a] \in {pass[a], NoPass}
      BY <3>1 DEF StoriesUnavailable, RunRaises, TypeOK
    <3>2. ASSUME NEW s \in Stories, WorkerRaises(s)
          PROVE  \A a \in Actors : pass'[a] \in {pass[a], NoPass}
      BY <3>2 DEF WorkerRaises, TypeOK
    <3>3. CASE Restart
      BY <3>3 DEF Restart
    <3>. QED  BY <1>10, <3>1, <3>2, <3>3 DEF FaultStep
  <2>3. \A a \in Actors : pass'[a].mailing \subseteq pass[a].mailing
    BY <2>2 DEF NoPass
  <2>. QED  BY <2>1, <2>3, ClaimKept
<1>11. ASSUME NEW s \in Stories, GrowOld(s) PROVE ClaimInv'
  BY <1>11, ClaimKept DEF GrowOld
<1>12. CASE UNCHANGED vars
  BY <1>12, ClaimKept DEF vars
<1>. QED
  BY <1>1, <1>2, <1>3, <1>4, <1>5, <1>6, <1>7, <1>8, <1>9, <1>10, <1>11, <1>12
     DEF Next, PassStep

\* Whatever the threads do, no family gets a follow-up twice.
THEOREM FollowupsNeverRepeat == Spec => []AtMostOneFollowup
<1>1. Init => ClaimInv
  BY DEF Init, ClaimInv, OnceMailed, HeldIsSent, OneHolder, OneInHand, NoPass
<1>2. ClaimInv => AtMostOneFollowup
  BY DEF ClaimInv, OnceMailed, AtMostOneFollowup
<1>. QED  BY <1>1, <1>2, TypeCorrect, ClaimStep, PTL DEF Spec

-----------------------------------------------------------------------------
(* A story is generated once.  What makes it so: only the job whose INSERT   *)
(* of the row committed hands the story to the pool, and it does so once.    *)

Submitting(j, s) == run[j].pc = "submit" /\ s \in run[j].current

NotBegun == \A s \in Stories :
              generations[s] <= 1 /\ (story[s] = "absent" => generations[s] = 0)

SubmitsOwn == \A j \in Jobs, s \in Stories :
                Submitting(j, s) => story[s] # "absent" /\ generations[s] = 0

OneSubmitter == \A j, k \in Jobs, s \in Stories :
                  Submitting(j, s) /\ Submitting(k, s) => j = k

OneCurrent == \A j \in Jobs : run[j].pc \in {"insert", "submit"} =>
                \A s, t \in run[j].current : s = t

GenInv == NotBegun /\ SubmitsOwn /\ OneSubmitter /\ OneCurrent

\* A job that is not between the insert and the submit of a row.
NotInserting(k) == run'[k] = run[k] \/ run'[k].pc \notin {"insert", "submit"}

\* A step that begins no story and removes none.
LEMMA GenKept ==
  ASSUME TypeOK, GenInv, generations' = generations,
         \A s \in Stories : story[s] # "absent" => story'[s] # "absent",
         \A k \in Jobs : NotInserting(k)
  PROVE  GenInv'
BY DEF GenInv, NotBegun, SubmitsOwn, OneSubmitter, OneCurrent, Submitting, NotInserting

LEMMA GenStep == TypeOK /\ GenInv /\ [Next]_vars => GenInv'
<1> SUFFICES ASSUME TypeOK, GenInv, [Next]_vars PROVE GenInv'
  OBVIOUS
<1>1. ASSUME NEW j \in Jobs, PlanStep(j) PROVE GenInv'
  <2>1. ASSUME NEW s \in Stories, PlanNew(j, s) PROVE GenInv'
    <3>1. \A k \in Jobs : k # j => run'[k] = run[k]
      BY <2>1 DEF PlanNew, TypeOK
    <3>2. run'[j].pc \in {"plan", "insert"}
          /\ (run'[j].pc = "insert" => run'[j].current = {s})
      BY <2>1, RunType DEF PlanNew, RunState, TypeOK
    <3>3. UNCHANGED <<story, generations>>
      BY <2>1 DEF PlanNew
    <3>. QED
      BY <3>1, <3>2, <3>3
         DEF GenInv, NotBegun, SubmitsOwn, OneSubmitter, OneCurrent, Submitting
  <2>2. ASSUME NEW s \in Stories, InsertStory(j, s) PROVE GenInv'
    <3>1. \A k \in Jobs : k # j => run'[k] = run[k]
      BY <2>2 DEF InsertStory, TypeOK
    <3>2. CASE story[s] = "absent"
      <4>1. run'[j].pc = "submit" /\ run'[j].current = run[j].current
        <5>1. run' = [run EXCEPT ![j] =
                        [run[j] EXCEPT !.pc = "submit", !.count = run[j].count + 1]]
          BY <2>2, <3>2 DEF InsertStory
        <5>2. run'[j] = [run[j] EXCEPT !.pc = "submit", !.count = run[j].count + 1]
          BY <5>1, RunAt
        <5>. QED  BY <5>2, RunType DEF RunState
      <4>2. run[j].pc = "insert" /\ s \in run[j].current
        BY <2>2 DEF InsertStory
      <4>3. story' = [story EXCEPT ![s] = "pending"] /\ generations' = generations
        BY <2>2, <3>2 DEF InsertStory
      <4>4. \A t \in Stories : story'[t] = IF t = s THEN "pending" ELSE story[t]
        <5>1. story \in [Stories -> StoryStatus]
          BY DEF TypeOK
        <5>. QED  BY <4>3, <5>1
      <4>5. \A t \in run[j].current : t = s
        BY <4>2 DEF GenInv, OneCurrent
      <4>. QED
        BY <3>1, <3>2, <4>1, <4>3, <4>4, <4>5
           DEF GenInv, NotBegun, SubmitsOwn, OneSubmitter, OneCurrent, Submitting
    <3>3. CASE story[s] # "absent"
      <4>1. run'[j].pc = "plan" /\ UNCHANGED <<story, generations>>
        <5>1. run' = [run EXCEPT ![j] =
                        [run[j] EXCEPT !.pc = "plan", !.current = {},
                                       !.plan = run[j].plan \cup {s}]]
          BY <2>2, <3>3 DEF InsertStory
        <5>2. run'[j] = [run[j] EXCEPT !.pc = "plan", !.current = {},
                                       !.plan = run[j].plan \cup {s}]
          BY <5>1, RunAt
        <5>3. UNCHANGED <<story, generations>>
          BY <2>2, <3>3 DEF InsertStory
        <5>. QED  BY <5>2, <5>3, RunType DEF RunState
      <4>. QED  BY <3>1, <4>1, GenKept DEF NotInserting
    <3>. QED  BY <3>2, <3>3
  <2>3. ASSUME NEW s \in Stories, Submit(j, s) PROVE GenInv'
    <3>1. \A k \in Jobs : k # j => run'[k] = run[k]
      BY <2>3 DEF Submit, TypeOK
    <3>2. run'[j].pc = "plan"
      BY <2>3, RunType DEF Submit, RunState, TypeOK
    <3>3. Submitting(j, s) /\ story' = story
      BY <2>3 DEF Submit, Submitting
    <3>4. \A t \in Stories : generations'[t] = IF t = s THEN generations[s] + 1
                                                   ELSE generations[t]
      BY <2>3 DEF Submit, TypeOK
    <3>5. story[s] # "absent" /\ generations[s] = 0
          /\ \A k \in Jobs : k # j => ~Submitting(k, s)
      BY <3>3 DEF GenInv, SubmitsOwn, OneSubmitter
    <3>. QED
      BY <3>1, <3>2, <3>3, <3>4, <3>5
         DEF GenInv, NotBegun, SubmitsOwn, OneSubmitter, OneCurrent, Submitting
  <2>4. CASE Detect(j) \/ Planned(j) \/ WaitOver(j)
             \/ \E s \in Stories : PlanExisting(j, s)
    <3>1. UNCHANGED <<story, generations>>
      BY <2>4 DEF Detect, Planned, WaitOver, PlanExisting
    <3>2. \A k \in Jobs : NotInserting(k)
      <4>1. CASE Detect(j)
        BY <4>1, RunType DEF Detect, IdleRun, NotInserting, TypeOK
      <4>2. CASE Planned(j)
        BY <4>2, RunType DEF Planned, RunState, NotInserting, TypeOK
      <4>3. CASE WaitOver(j)
        BY <4>3, RunType DEF WaitOver, RunState, NotInserting, TypeOK
      <4>4. ASSUME NEW s \in Stories, PlanExisting(j, s)
            PROVE  \A k \in Jobs : NotInserting(k)
        BY <4>4, RunType DEF PlanExisting, RunState, NotInserting, TypeOK
      <4>. QED  BY <2>4, <4>1, <4>2, <4>3, <4>4
    <3>. QED  BY <3>1, <3>2, GenKept
  <2>. QED  BY <1>1, <2>1, <2>2, <2>3, <2>4 DEF PlanStep
<1>2. ASSUME NEW a \in Actors, PassStep(a) PROVE GenInv'
  <2>1. UNCHANGED <<story, generations, run>>
    BY <1>2 DEF PassStep, Abandon, Claim, MailFollowup
  <2>. QED  BY <2>1, GenKept DEF NotInserting
<1>3. ASSUME NEW s \in Stories, WorkerStep(s) \/ GrowOld(s) PROVE GenInv'
  <2>1. UNCHANGED <<generations, run>>
    BY <1>3 DEF WorkerStep, StoreStory, WorkerTell, WorkerDone, GrowOld
  <2>2. \A t \in Stories : story[t] # "absent" => story'[t] # "absent"
    BY <1>3 DEF WorkerStep, StoreStory, WorkerTell, WorkerDone, GrowOld, Finished, TypeOK
  <2>. QED  BY <2>1, <2>2, GenKept DEF NotInserting
<1>4. ASSUME NEW j \in Jobs, TellStep(j) PROVE GenInv'
  <2>1. UNCHANGED <<story, generations>>
    BY <1>4 DEF TellStep, JobTold, JobTell
  <2>2. \A k \in Jobs : NotInserting(k)
    <3>1. CASE JobTold(j)
      BY <3>1, RunType DEF JobTold, IdleRun, RunState, NotInserting, TypeOK
    <3>2. ASSUME NEW s \in Stories, JobTell(j, s)
          PROVE  \A k \in Jobs : NotInserting(k)
      BY <3>2, RunType DEF JobTell, RunState, NotInserting, TypeOK
    <3>. QED  BY <1>4, <3>1, <3>2 DEF TellStep
  <2>. QED  BY <2>1, <2>2, GenKept
<1>5. CASE IntradayStep
  <2>1. generations' = generations
    BY <1>5 DEF IntradayStep, SweepRead, SweepGiveUp, SendAlert, CommitAlerts
  <2>2. \A s \in Stories : story[s] # "absent" => story'[s] # "absent"
    BY <1>5 DEF IntradayStep, SweepRead, SweepGiveUp, SendAlert, CommitAlerts
  <2>3. \A k \in Jobs : NotInserting(k)
    <3>1. CASE SweepRead
      BY <3>1, RunType, JobNames DEF SweepRead, RunState, NotInserting, TypeOK
    <3>2. CASE SweepGiveUp
      BY <3>2, RunType, JobNames DEF SweepGiveUp, RunState, NotInserting, TypeOK
    <3>3. ASSUME NEW p \in Pairs, SendAlert(p) PROVE \A k \in Jobs : NotInserting(k)
      BY <3>3, RunType, JobNames DEF SendAlert, RunState, NotInserting, TypeOK
    <3>4. CASE CommitAlerts
      <4>1. CASE run' = [run EXCEPT !["intraday"] =
                   [IdleRun EXCEPT !.pc = "post", !.tellq = run["intraday"].plan]]
        BY <4>1, RunAt, JobNames DEF IdleRun, NotInserting
      <4>2. CASE run' = [run EXCEPT !["intraday"] = IdleRun]
        BY <4>2, RunAt, JobNames DEF IdleRun, NotInserting
      <4>. QED  BY <3>4, <4>1, <4>2 DEF CommitAlerts
    <3>. QED  BY <1>5, <3>1, <3>2, <3>3, <3>4 DEF IntradayStep
  <2>. QED  BY <2>1, <2>2, <2>3, GenKept
<1>6. CASE RecapStep
  <2>1. UNCHANGED <<story, generations>>
    BY <1>6 DEF RecapStep, SendRecap, CheckRecap, CommitRecap, RecapSent
  <2>2. \A k \in Jobs : NotInserting(k)
    <3>1. ASSUME NEW p \in Pairs, SendRecap(p) PROVE \A k \in Jobs : NotInserting(k)
      BY <3>1, RunType, JobNames DEF SendRecap, RunState, NotInserting, TypeOK
    <3>2. CASE CheckRecap
      BY <3>2, RunType, JobNames DEF CheckRecap, RunState, NotInserting, TypeOK
    <3>3. CASE CommitRecap
      BY <3>3, RunType, JobNames DEF CommitRecap, RunState, NotInserting, TypeOK
    <3>4. CASE RecapSent
      BY <3>4, RunType, JobNames DEF RecapSent, IdleRun, NotInserting, TypeOK
    <3>. QED  BY <1>6, <3>1, <3>2, <3>3, <3>4 DEF RecapStep
  <2>. QED  BY <2>1, <2>2, GenKept
<1>7. CASE StartIntraday \/ StartRecap
  <2>1. UNCHANGED <<story, generations>>
    BY <1>7 DEF StartIntraday, StartRecap
  <2>2. \A k \in Jobs : NotInserting(k)
    <3>1. CASE StartIntraday
      BY <3>1, RunType, JobNames DEF StartIntraday, RunState, NotInserting, TypeOK
    <3>2. CASE StartRecap
      BY <3>2, RunType, JobNames DEF StartRecap, RunState, NotInserting, TypeOK
    <3>. QED  BY <1>7, <3>1, <3>2
  <2>. QED  BY <2>1, <2>2, GenKept
<1>8. CASE FaultStep
  <2>1. UNCHANGED <<story, generations>>
    BY <1>8 DEF FaultStep, StoriesUnavailable, RunRaises, WorkerRaises, Restart
  <2>2. \A k \in Jobs : NotInserting(k)
    <3>1. ASSUME NEW j \in Jobs, StoriesUnavailable(j)
          PROVE  \A k \in Jobs : NotInserting(k)
      BY <3>1, RunType DEF StoriesUnavailable, RunState, NotInserting, TypeOK
    <3>2. ASSUME NEW j \in Jobs, RunRaises(j) PROVE \A k \in Jobs : NotInserting(k)
      BY <3>2, RunType DEF RunRaises, IdleRun, RunState, NotInserting, TypeOK
    <3>3. ASSUME NEW s \in Stories, WorkerRaises(s)
          PROVE  \A k \in Jobs : NotInserting(k)
      BY <3>3 DEF WorkerRaises, NotInserting
    <3>4. CASE Restart
      BY <3>4 DEF Restart, IdleRun, NotInserting
    <3>. QED  BY <1>8, <3>1, <3>2, <3>3, <3>4 DEF FaultStep
  <2>. QED  BY <2>1, <2>2, GenKept
<1>9. CASE UNCHANGED vars
  BY <1>9, GenKept DEF vars, NotInserting
<1>. QED
  BY <1>1, <1>2, <1>3, <1>4, <1>5, <1>6, <1>7, <1>8, <1>9 DEF Next

\* Whichever jobs want a story at the same time, it is paid for once.
THEOREM StoriesGeneratedOnce == Spec => []GeneratedOnce
<1>1. Init => GenInv
  BY DEF Init, GenInv, NotBegun, SubmitsOwn, OneSubmitter, OneCurrent, Submitting, IdleRun
<1>2. GenInv => GeneratedOnce
  BY DEF GenInv, NotBegun, GeneratedOnce
<1>. QED  BY <1>1, <1>2, TypeCorrect, GenStep, PTL DEF Spec

-----------------------------------------------------------------------------
(* Nobody is left waiting.  What makes it so: a follow-up that waits for a   *)
(* story is always in somebody's hands, until the last of them has gone     *)
(* through it: the thread that has still to store or to tell, a send loop   *)
(* that selected it, or a job that will look at the story after its commit. *)

\* Job j will still look at story s.
Covers(j, s) ==
    \/ run[j].pc = "post" /\ s \in run[j].tellq
    \/ j = "recap" /\ run[j].pc \in {"send", "check", "commit"} /\ s \in run[j].plan
    \/ Submitting(j, s)

Covered(p) ==
    \/ worker[p[1]] \in {"generating", "stored"}
    \/ \E a \in Actors : p \in pass[a].left
    \/ \E j \in Jobs : Covers(j, p[1])

WaitersCovered == \A p \in Pairs :
                    row[p] = "waiting" => Covered(p) /\ story[p[1]] # "absent"

PendingIsInHand == \A s \in Stories : story[s] = "pending" =>
                     worker[s] = "generating" \/ \E j \in Jobs : Submitting(j, s)

ThreadOK(s) ==
    /\ worker[s] \in {"stored", "telling"} => story[s] \in Finished
    /\ worker[s] # "telling" => pass[s].left = {}
    /\ generations[s] = 0 => worker[s] = "off"

JobOK(j) ==
    /\ run[j].pc \notin {"resend", "post"} => pass[j].left = {}
    /\ run[j].plan \subseteq Created
    /\ run[j].pending \subseteq run[j].plan
    /\ \A p \in run[j].drafts : p[1] \in run[j].plan
    /\ j = "recap" /\ ~recapRan => run[j].pc = "idle"

HandOver ==
    /\ WaitersCovered
    /\ PendingIsInHand
    /\ \A s \in Stories : ThreadOK(s)
    /\ \A j \in Jobs : JobOK(j)

HandOverInv == faults = 0 => HandOver

\* A step of one job that lets go of no story.
LEMMA JobMoves ==
  ASSUME HandOver, NEW j \in Jobs,
         UNCHANGED <<story, worker, generations, row, pass>>,
         recapRan' = recapRan \/ j = "recap",
         \A k \in Jobs : k # j => run'[k] = run[k],
         \A s \in Stories : Covers(j, s) => Covers(j, s)',
         \A s \in Stories : Submitting(j, s) => Submitting(j, s)',
         JobOK(j)'
  PROVE  HandOver'
<1>1. WaitersCovered'
  BY DEF HandOver, WaitersCovered, Covered, Covers, Submitting, Pairs
<1>2. PendingIsInHand'
  BY DEF HandOver, PendingIsInHand, Submitting
<1>3. \A s \in Stories : ThreadOK(s)'
  BY DEF HandOver, ThreadOK
<1>4. \A k \in Jobs : JobOK(k)'
  BY DEF HandOver, JobOK, Created
<1>. QED  BY <1>1, <1>2, <1>3, <1>4 DEF HandOver

\* ... in particular one that holds on to nothing before or after.
LEMMA JobIsFree ==
  ASSUME TypeOK, HandOver, NEW j \in Jobs,
         UNCHANGED <<story, worker, generations, row, pass>>,
         recapRan' = recapRan \/ j = "recap",
         NEW r, run' = [run EXCEPT ![j] = r],
         run[j].pc \in {"idle", "sweep", "giveup", "detect", "plan", "insert", "wait"},
         r.pc \notin {"resend", "post", "idle"} \/ r = IdleRun,
         r.plan \subseteq Created,
         r.pending \subseteq r.plan,
         r.drafts = {} \/ (r.drafts = run[j].drafts /\ run[j].plan \subseteq r.plan),
         j = "recap" /\ ~recapRan' => r.pc = "idle"
  PROVE  HandOver'
<1>1. run'[j] = r /\ \A k \in Jobs : k # j => run'[k] = run[k]
  BY RunAt
<1>2. \A s \in Stories : ~Covers(j, s) /\ ~Submitting(j, s)
  BY DEF Covers, Submitting
<1>3. JobOK(j)'
  BY <1>1 DEF HandOver, JobOK, Created, IdleRun
<1>. QED  BY <1>1, <1>2, <1>3, JobMoves

\* The steps of a job up to the moment it has something to send.
LEMMA PlanningHandOver ==
  ASSUME TypeOK, HandOver, NEW j \in Jobs
  PROVE  /\ Detect(j) => HandOver'
         /\ Planned(j) => HandOver'
         /\ WaitOver(j) => HandOver'
         /\ \A s \in Stories : PlanExisting(j, s) => HandOver'
         /\ \A s \in Stories : PlanNew(j, s) => HandOver'
<1>1. ASSUME Detect(j) PROVE HandOver'
  <2>1. PICK B \in Batch(j), paused \in BOOLEAN :
          run' = [run EXCEPT ![j] =
                    IF B = {} THEN IdleRun
                    ELSE [IdleRun EXCEPT !.pc = "plan", !.todo = B,
                                         !.cand = {p[1] : p \in B},
                                         !.count = Cardinality(Created),
                                         !.paused = paused]]
    BY <1>1 DEF Detect
  <2>. DEFINE r == IF B = {} THEN IdleRun
                   ELSE [IdleRun EXCEPT !.pc = "plan", !.todo = B,
                                        !.cand = {p[1] : p \in B},
                                        !.count = Cardinality(Created),
                                        !.paused = paused]
  <2>2. /\ r.pc = "plan" \/ r = IdleRun
        /\ r.plan = {} /\ r.pending = {} /\ r.drafts = {}
    BY DEF IdleRun
  <2>3. run' = [run EXCEPT ![j] = r]
    BY <2>1
  <2>4. run[j].pc = "detect" /\ UNCHANGED <<story, worker, generations, row, pass, recapRan>>
    BY <1>1 DEF Detect
  <2>5. j = "recap" => recapRan
    BY <2>4 DEF HandOver, JobOK
  <2>. HIDE DEF r
  <2>. QED  BY <2>2, <2>3, <2>4, <2>5, JobIsFree
<1>2. ASSUME Planned(j) PROVE HandOver'
  <2>. DEFINE r == [run[j] EXCEPT !.pc = "wait"]
  <2>1. /\ r.pc = "wait" /\ r.plan = run[j].plan /\ r.pending = run[j].pending
        /\ r.drafts = run[j].drafts
    BY RunType DEF RunState
  <2>2. /\ run' = [run EXCEPT ![j] = r] /\ run[j].pc = "plan"
        /\ UNCHANGED <<story, worker, generations, row, pass, recapRan>>
    BY <1>2 DEF Planned
  <2>3. JobOK(j)
    BY DEF HandOver
  <2>. HIDE DEF r
  <2>. QED  BY <2>1, <2>2, <2>3, JobIsFree DEF JobOK
<1>3. ASSUME WaitOver(j) PROVE HandOver'
  <2>. DEFINE r == [run[j] EXCEPT !.pc = "send",
                       !.pending = {s \in run[j].plan : story[s] = "pending"}]
  <2>1. /\ r.pc = "send" /\ r.plan = run[j].plan /\ r.pending \subseteq run[j].plan
        /\ r.drafts = run[j].drafts
    BY RunType DEF RunState
  <2>2. /\ run' = [run EXCEPT ![j] = r] /\ run[j].pc = "wait"
        /\ UNCHANGED <<story, worker, generations, row, pass, recapRan>>
    BY <1>3 DEF WaitOver
  <2>3. JobOK(j)
    BY DEF HandOver
  <2>. HIDE DEF r
  <2>. QED  BY <2>1, <2>2, <2>3, JobIsFree DEF JobOK
<1>4. ASSUME NEW s \in Stories, PlanExisting(j, s) PROVE HandOver'
  <2>. DEFINE r == [run[j] EXCEPT !.cand = run[j].cand \ {s},
                                  !.plan = run[j].plan \cup {s}]
  <2>1. /\ r.pc = run[j].pc /\ r.plan = run[j].plan \cup {s}
        /\ r.pending = run[j].pending /\ r.drafts = run[j].drafts
    BY RunType DEF RunState
  <2>2. /\ run' = [run EXCEPT ![j] = r] /\ run[j].pc = "plan" /\ s \in Created
        /\ UNCHANGED <<story, worker, generations, row, pass, recapRan>>
    BY <1>4 DEF PlanExisting, Created
  <2>3. JobOK(j)
    BY DEF HandOver
  <2>. HIDE DEF r
  <2>. QED  BY <2>1, <2>2, <2>3, JobIsFree DEF JobOK
<1>5. ASSUME NEW s \in Stories, PlanNew(j, s) PROVE HandOver'
  <2>. DEFINE r == IF run[j].paused \/ run[j].count >= Limit(s)
                   THEN [run[j] EXCEPT !.cand = run[j].cand \ {s}]
                   ELSE [run[j] EXCEPT !.cand = run[j].cand \ {s}, !.pc = "insert",
                                       !.current = {s}]
  <2>1. /\ r.pc \in {run[j].pc, "insert"} /\ r.plan = run[j].plan
        /\ r.pending = run[j].pending /\ r.drafts = run[j].drafts
    BY RunType DEF RunState
  <2>2. /\ run' = [run EXCEPT ![j] = r] /\ run[j].pc = "plan"
        /\ UNCHANGED <<story, worker, generations, row, pass, recapRan>>
    BY <1>5 DEF PlanNew
  <2>3. JobOK(j)
    BY DEF HandOver
  <2>. HIDE DEF r
  <2>. QED  BY <2>1, <2>2, <2>3, JobIsFree DEF JobOK
<1>. QED  BY <1>1, <1>2, <1>3, <1>4, <1>5

\* A story's row is created and handed to the pool.
LEMMA BeginningHandOver ==
  ASSUME TypeOK, GenInv, HandOver, NEW j \in Jobs, NEW s \in Stories
  PROVE  /\ InsertStory(j, s) => HandOver'
         /\ Submit(j, s) => HandOver'
<1>j. JobOK(j)
  BY DEF HandOver
<1>1. ASSUME InsertStory(j, s), story[s] # "absent" PROVE HandOver'
  <2>. DEFINE r == [run[j] EXCEPT !.pc = "plan", !.current = {},
                                  !.plan = run[j].plan \cup {s}]
  <2>1. /\ r.pc = "plan" /\ r.plan = run[j].plan \cup {s}
        /\ r.pending = run[j].pending /\ r.drafts = run[j].drafts
    BY RunType DEF RunState
  <2>2. /\ run' = [run EXCEPT ![j] = r] /\ run[j].pc = "insert" /\ s \in Created
        /\ UNCHANGED <<story, worker, generations, row, pass, recapRan>>
    BY <1>1 DEF InsertStory, Created
  <2>. HIDE DEF r
  <2>. QED  BY <2>1, <2>2, <1>j, JobIsFree DEF JobOK
<1>2. ASSUME InsertStory(j, s), story[s] = "absent" PROVE HandOver'
  <2>. DEFINE r == [run[j] EXCEPT !.pc = "submit", !.count = run[j].count + 1]
  <2>1. /\ r.pc = "submit" /\ r.plan = run[j].plan /\ r.current = run[j].current
        /\ r.pending = run[j].pending /\ r.drafts = run[j].drafts
    BY RunType DEF RunState
  <2>2. /\ run' = [run EXCEPT ![j] = r] /\ run[j].pc = "insert" /\ s \in run[j].current
        /\ story' = [story EXCEPT ![s] = "pending"]
        /\ UNCHANGED <<worker, generations, row, pass, recapRan>>
    BY <1>2 DEF InsertStory
  <2>3. run'[j] = r /\ \A k \in Jobs : k # j => run'[k] = run[k]
    BY <2>2, RunAt
  <2>. HIDE DEF r
  <2>4. \A t \in Stories : story'[t] = IF t = s THEN "pending" ELSE story[t]
    <3>1. story \in [Stories -> StoryStatus]
      BY DEF TypeOK
    <3>. QED  BY <3>1, <2>2
  <2>5. \A k \in Jobs, t \in Stories : /\ Covers(k, t) => Covers(k, t)'
                                       /\ Submitting(k, t) => Submitting(k, t)'
    BY <2>2, <2>3 DEF Covers, Submitting
  <2>6. WaitersCovered'
    BY <2>2, <2>4, <2>5 DEF HandOver, WaitersCovered, Covered, Pairs
  <2>7. PendingIsInHand'
    BY <2>1, <2>2, <2>3, <2>4, <2>5 DEF HandOver, PendingIsInHand, Submitting
  <2>8. \A t \in Stories : ThreadOK(t)'
    BY <1>2, <2>2, <2>4 DEF HandOver, ThreadOK, GenInv, NotBegun, Finished
  <2>9. \A k \in Jobs : JobOK(k)'
    <3>1. Created \subseteq Created'
      BY <2>4 DEF Created
    <3>. QED  BY <1>j, <2>1, <2>2, <2>3, <3>1 DEF HandOver, JobOK
  <2>. QED  BY <2>6, <2>7, <2>8, <2>9 DEF HandOver
<1>3. ASSUME Submit(j, s) PROVE HandOver'
  <2>. DEFINE r == [run[j] EXCEPT !.pc = "plan", !.current = {},
                                  !.plan = run[j].plan \cup {s}]
  <2>1. /\ r.pc = "plan" /\ r.plan = run[j].plan \cup {s}
        /\ r.pending = run[j].pending /\ r.drafts = run[j].drafts
    BY RunType DEF RunState
  <2>2. /\ run' = [run EXCEPT ![j] = r] /\ Submitting(j, s)
        /\ worker' = [worker EXCEPT ![s] = "generating"]
        /\ generations' = [generations EXCEPT ![s] = @ + 1]
        /\ UNCHANGED <<story, row, pass, recapRan>>
    BY <1>3 DEF Submit, Submitting
  <2>3. run'[j] = r /\ \A k \in Jobs : k # j => run'[k] = run[k]
    BY <2>2, RunAt
  <2>. HIDE DEF r
  <2>4. \A t \in Stories : worker'[t] = IF t = s THEN "generating" ELSE worker[t]
    BY <2>2 DEF TypeOK
  <2>5. \A t \in Stories : t # s => generations'[t] = generations[t]
    BY <2>2 DEF TypeOK
  <2>6. generations'[s] # 0 /\ worker[s] = "off" /\ s \in Created
    BY <2>2 DEF GenInv, SubmitsOwn, HandOver, ThreadOK, Created, TypeOK
  <2>7. \A t \in Stories : t # s =>
          \A k \in Jobs : /\ Covers(k, t) => Covers(k, t)'
                          /\ Submitting(k, t) => Submitting(k, t)'
    BY <2>2, <2>3 DEF Covers, Submitting, GenInv, OneCurrent
  <2>8. WaitersCovered'
    BY <2>2, <2>4, <2>7 DEF HandOver, WaitersCovered, Covered, Pairs
  <2>9. PendingIsInHand'
    BY <2>2, <2>4, <2>7 DEF HandOver, PendingIsInHand
  <2>10. \A t \in Stories : ThreadOK(t)'
    BY <2>2, <2>4, <2>5, <2>6 DEF HandOver, ThreadOK
  <2>11. \A k \in Jobs : JobOK(k)'
    <3>1. Created' = Created
      BY <2>2 DEF Created
    <3>2. run[j].pc = "submit"
      BY <2>2 DEF Submitting
    <3>. QED  BY <1>j, <2>1, <2>2, <2>3, <2>6, <3>1, <3>2 DEF HandOver, JobOK
  <2>. QED  BY <2>8, <2>9, <2>10, <2>11 DEF HandOver
<1>. QED  BY <1>1, <1>2, <1>3

\* The thread of a story.
LEMMA ThreadHandOver ==
  ASSUME TypeOK, TypeOK', HandOver, NEW s \in Stories
  PROVE  /\ WorkerStep(s) => HandOver'
         /\ GrowOld(s) => HandOver'
<1>j. \A k \in Jobs, t \in Stories : k # t
  BY StoriesAssumption
<1>1. ASSUME StoreStory(s) PROVE HandOver'
  <2>1. /\ worker[s] = "generating"
        /\ UNCHANGED <<generations, row, run, pass, recapRan>>
    BY <1>1 DEF StoreStory
  <2>2. /\ story'[s] \in Finished
        /\ \A t \in Stories : t # s => story'[t] = story[t]
    BY <1>1 DEF StoreStory, TypeOK
  <2>3. \A t \in Stories : worker'[t] = IF t = s THEN "stored" ELSE worker[t]
    BY <1>1 DEF StoreStory, TypeOK
  <2>4. \A k \in Jobs, t \in Stories : /\ Covers(k, t)' <=> Covers(k, t)
                                       /\ Submitting(k, t)' <=> Submitting(k, t)
    BY <2>1 DEF Covers, Submitting
  <2>5. WaitersCovered'
    BY <2>1, <2>2, <2>3, <2>4 DEF HandOver, WaitersCovered, Covered, Pairs, Finished
  <2>6. PendingIsInHand'
    BY <2>1, <2>2, <2>3, <2>4 DEF HandOver, PendingIsInHand, Finished
  <2>7. \A t \in Stories : ThreadOK(t)'
    BY <2>1, <2>2, <2>3 DEF HandOver, ThreadOK
  <2>8. \A k \in Jobs : JobOK(k)'
    <3>1. Created \subseteq Created'
      BY <2>2 DEF Created, Finished
    <3>. QED  BY <2>1, <3>1 DEF HandOver, JobOK
  <2>. QED  BY <2>5, <2>6, <2>7, <2>8 DEF HandOver
<1>2. ASSUME WorkerTell(s) PROVE HandOver'
  <2>1. /\ worker[s] = "stored" /\ BeginPass(s, s) /\ story[s] \in Finished
        /\ pass[s].left = {}
        /\ UNCHANGED <<story, generations, row, run, recapRan>>
    BY <1>2 DEF WorkerTell, HandOver, ThreadOK
  <2>2. \A t \in Stories : worker'[t] = IF t = s THEN "telling" ELSE worker[t]
    BY <1>2 DEF WorkerTell, TypeOK
  <2>3. /\ pass'[s].left = WaitingFor(s)
        /\ \A a \in Actors : a # s => pass'[a] = pass[a]
    BY <2>1 DEF BeginPass, Actors, TypeOK
  <2>4. \A k \in Jobs, t \in Stories : /\ Covers(k, t)' <=> Covers(k, t)
                                       /\ Submitting(k, t)' <=> Submitting(k, t)
    BY <2>1 DEF Covers, Submitting
  <2>5. WaitersCovered'
    <3>1. s \in Actors
      BY DEF Actors
    <3>. QED
      BY <2>1, <2>2, <2>3, <2>4, <3>1
         DEF HandOver, WaitersCovered, Covered, WaitingFor, Pairs
  <2>6. PendingIsInHand'
    BY <2>1, <2>2, <2>4 DEF HandOver, PendingIsInHand
  <2>7. \A t \in Stories : ThreadOK(t)'
    BY <2>1, <2>2, <2>3 DEF HandOver, ThreadOK, Actors
  <2>8. \A k \in Jobs : JobOK(k)'
    BY <2>1, <2>3, <1>j DEF HandOver, JobOK, Created, Actors
  <2>. QED  BY <2>5, <2>6, <2>7, <2>8 DEF HandOver
<1>3. ASSUME WorkerDone(s) PROVE HandOver'
  <2>1. /\ worker[s] = "telling" /\ pass[s].left = {}
        /\ UNCHANGED <<story, generations, row, run, pass, recapRan>>
    BY <1>3 DEF WorkerDone, PassOver
  <2>2. \A t \in Stories : worker'[t] = IF t = s THEN "off" ELSE worker[t]
    BY <1>3 DEF WorkerDone, TypeOK
  <2>3. \A k \in Jobs, t \in Stories : /\ Covers(k, t)' <=> Covers(k, t)
                                       /\ Submitting(k, t)' <=> Submitting(k, t)
    BY <2>1 DEF Covers, Submitting
  <2>4. WaitersCovered'
    BY <2>1, <2>2, <2>3 DEF HandOver, WaitersCovered, Covered, Pairs
  <2>5. PendingIsInHand'
    BY <2>1, <2>2, <2>3 DEF HandOver, PendingIsInHand
  <2>6. \A t \in Stories : ThreadOK(t)'
    BY <2>1, <2>2 DEF HandOver, ThreadOK
  <2>7. \A k \in Jobs : JobOK(k)'
    BY <2>1 DEF HandOver, JobOK, Created
  <2>. QED  BY <2>4, <2>5, <2>6, <2>7 DEF HandOver
<1>4. ASSUME GrowOld(s) PROVE HandOver'
  <2>1. UNCHANGED <<story, worker, generations, row, run, pass, recapRan>>
    BY <1>4 DEF GrowOld
  <2>. QED
    BY <2>1 DEF HandOver, WaitersCovered, Covered, Covers, PendingIsInHand, ThreadOK, JobOK,
                Submitting, Created
<1>. QED  BY <1>1, <1>2, <1>3, <1>4 DEF WorkerStep

\* A send loop, whoever runs it.
LEMMA PassHandOver ==
  ASSUME TypeOK, TypeOK', HandOver, NEW a \in Actors, PassStep(a)
  PROVE  HandOver'
<1>1. UNCHANGED <<story, worker, generations, run, recapRan>>
  BY DEF PassStep, Abandon, Claim, MailFollowup
<1>. DEFINE Shrinks(b) == /\ pass'[b].left \subseteq pass[b].left
                          /\ \A q \in pass[b].left :
                               row'[q] = "waiting" => q \in pass'[b].left
<1>2. \A b \in Actors : Shrinks(b)
  <2>1. ASSUME NEW p \in Pairs, Abandon(a, p) PROVE \A b \in Actors : Shrinks(b)
    <3>1. /\ pass'[a].left = pass[a].left \ {p}
          /\ \A b \in Actors : b # a => pass'[b] = pass[b]
      BY <2>1, PassType DEF Abandon, PassState, TypeOK
    <3>2. row'[p] # "waiting"
      BY <2>1 DEF Abandon, TypeOK
    <3>. QED  BY <3>1, <3>2
  <2>2. ASSUME NEW p \in Pairs, Claim(a, p) PROVE \A b \in Actors : Shrinks(b)
    <3>1. /\ pass'[a].left = pass[a].left \ {p}
          /\ \A b \in Actors : b # a => pass'[b] = pass[b]
      BY <2>2, PassType DEF Claim, PassState, TypeOK
    <3>2. row'[p] # "waiting"
      BY <2>2 DEF Claim, TypeOK
    <3>. QED  BY <3>1, <3>2
  <2>3. ASSUME NEW p \in Pairs, MailFollowup(a, p) PROVE \A b \in Actors : Shrinks(b)
    BY <2>3, PassType DEF MailFollowup, PassState, TypeOK
  <2>. QED  BY <2>1, <2>2, <2>3 DEF PassStep
<1>3. \A q \in Pairs : row'[q] = "waiting" => row[q] = "waiting"
  BY DEF PassStep, Abandon, Claim, MailFollowup, TypeOK
<1>4. \A k \in Jobs, t \in Stories : /\ Covers(k, t)' <=> Covers(k, t)
                                     /\ Submitting(k, t)' <=> Submitting(k, t)
  BY <1>1 DEF Covers, Submitting
<1>5. WaitersCovered'
  BY <1>1, <1>2, <1>3, <1>4 DEF HandOver, WaitersCovered, Covered, Pairs
<1>6. PendingIsInHand'
  BY <1>1, <1>4 DEF HandOver, PendingIsInHand
<1>7. \A t \in Stories : ThreadOK(t)'
  BY <1>1, <1>2 DEF HandOver, ThreadOK, Actors
<1>8. \A k \in Jobs : JobOK(k)'
  BY <1>1, <1>2 DEF HandOver, JobOK, Created, Actors
<1>. QED  BY <1>5, <1>6, <1>7, <1>8 DEF HandOver

\* The loop over the stories with waiting follow-ups.
LEMMA TellHandOver ==
  ASSUME TypeOK, TypeOK', HandOver, NEW j \in Jobs, TellStep(j)
  PROVE  HandOver'
<1>j. \A k \in Jobs, t \in Stories : k # t
  BY StoriesAssumption
<1>1. ASSUME NEW s \in Stories, JobTell(j, s) PROVE HandOver'
  <2>1. /\ run' = [run EXCEPT ![j].tellq = @ \ {s}]
        /\ run[j].pc \in {"resend", "post"}
        /\ pass[j].left = {} /\ BeginPass(j, s)
        /\ UNCHANGED <<story, worker, generations, row, recapRan>>
    BY <1>1 DEF JobTell, PassOver
  <2>2. /\ run'[j] = [run[j] EXCEPT !.tellq = run[j].tellq \ {s}]
        /\ \A k \in Jobs : k # j => run'[k] = run[k]
    BY <2>1 DEF TypeOK
  <2>3. /\ run'[j].tellq = run[j].tellq \ {s}
        /\ run'[j].pc = run[j].pc /\ run'[j].plan = run[j].plan
        /\ run'[j].pending = run[j].pending /\ run'[j].drafts = run[j].drafts
        /\ run'[j].current = run[j].current
    BY <2>2, RunType DEF RunState
  <2>4. /\ pass'[j].left = IF story[s] \in Finished THEN WaitingFor(s) ELSE {}
        /\ \A a \in Actors : a # j => pass'[a] = pass[a]
    BY <2>1 DEF BeginPass, Actors, TypeOK
  <2>5. \A k \in Jobs, t \in Stories :
          /\ t # s => (Covers(k, t) => Covers(k, t)')
          /\ Submitting(k, t) => Submitting(k, t)'
    BY <2>2, <2>3 DEF Covers, Submitting
  <2>6. WaitersCovered'
    <3> SUFFICES ASSUME NEW p \in Pairs, row[p] = "waiting"
                 PROVE  Covered(p)' /\ story[p[1]] # "absent"
      BY <2>1 DEF WaitersCovered
    <3>1. Covered(p) /\ story[p[1]] # "absent" /\ p[1] \in Stories
      BY DEF HandOver, WaitersCovered, Pairs
    <3>2. CASE p[1] # s
      <4>1. \A a \in Actors : pass[a].left \subseteq pass'[a].left
        BY <2>1, <2>4
      <4>2. \A k \in Jobs : Covers(k, p[1]) => Covers(k, p[1])'
        BY <2>5, <3>1, <3>2
      <4>3. worker' = worker
        BY <2>1
      <4>. QED  BY <3>1, <4>1, <4>2, <4>3 DEF Covered
    <3>3. CASE p[1] = s /\ story[s] \in Finished
      <4>1. p \in pass'[j].left
        BY <2>4, <3>3 DEF WaitingFor
      <4>. QED  BY <3>1, <4>1 DEF Covered, Actors
    <3>4. CASE p[1] = s /\ story[s] \notin Finished
      <4>1. story[s] = "pending"
        BY <3>1, <3>4 DEF TypeOK, StoryStatus
      <4>2. worker[s] = "generating" \/ \E k \in Jobs : Submitting(k, s)
        BY <4>1 DEF HandOver, PendingIsInHand
      <4>3. worker'[s] = "generating" \/ \E k \in Jobs : Covers(k, s)'
        BY <2>1, <2>5, <4>2 DEF Covers
      <4>. QED  BY <3>1, <3>4, <4>3 DEF Covered
    <3>. QED  BY <3>2, <3>3, <3>4
  <2>7. PendingIsInHand'
    BY <2>1, <2>5 DEF HandOver, PendingIsInHand
  <2>8. \A t \in Stories : ThreadOK(t)'
    BY <2>1, <2>4, <1>j DEF HandOver, ThreadOK, Actors
  <2>9. \A k \in Jobs : JobOK(k)'
    BY <2>1, <2>2, <2>3, <2>4 DEF HandOver, JobOK, Created, Actors
  <2>. QED  BY <2>6, <2>7, <2>8, <2>9 DEF HandOver
<1>2. ASSUME JobTold(j) PROVE HandOver'
  <2>. DEFINE r == IF run[j].pc = "resend" THEN [run[j] EXCEPT !.pc = "detect"]
                                           ELSE IdleRun
  <2>1. /\ run' = [run EXCEPT ![j] = r]
        /\ run[j].pc \in {"resend", "post"} /\ run[j].tellq = {}
        /\ pass[j].left = {}
        /\ UNCHANGED <<story, worker, generations, row, pass, recapRan>>
    BY <1>2 DEF JobTold, PassOver
  <2>2. /\ r.pc \notin {"resend", "post"} /\ r.plan \subseteq Created
        /\ r.pending \subseteq r.plan /\ \A p \in r.drafts : p[1] \in r.plan
        /\ run[j].pc = "post" => r.pc = "idle"
    BY RunType DEF RunState, IdleRun, HandOver, JobOK
  <2>3. run'[j] = r /\ \A k \in Jobs : k # j => run'[k] = run[k]
    BY <2>1, RunAt
  <2>. HIDE DEF r
  <2>4. \A s \in Stories : ~Covers(j, s) /\ ~Submitting(j, s)
    BY <2>1 DEF Covers, Submitting
  <2>5. JobOK(j)'
    BY <2>1, <2>2, <2>3 DEF HandOver, JobOK, Created
  <2>. QED  BY <2>1, <2>3, <2>4, <2>5, JobMoves
<1>. QED  BY <1>1, <1>2 DEF TellStep

\* The intraday job's own steps.
LEMMA IntradayHandOver ==
  ASSUME TypeOK, HandOver, IntradayStep \/ StartIntraday
  PROVE  HandOver'
<1>. DEFINE j == "intraday"
<1>j. j \in Jobs /\ j # "recap" /\ JobOK(j) /\ run[j] \in RunState
  BY JobNames, RunType DEF HandOver
<1>. HIDE DEF j
<1>1. CASE StartIntraday
  <2>. DEFINE r == [run[j] EXCEPT !.pc = "sweep", !.nextDay = recapRan]
  <2>1. /\ r.pc = "sweep" /\ r.plan = run[j].plan /\ r.pending = run[j].pending
        /\ r.drafts = run[j].drafts
    BY <1>j DEF RunState
  <2>2. /\ run' = [run EXCEPT ![j] = r] /\ run[j].pc = "idle"
        /\ UNCHANGED <<story, worker, generations, row, pass, recapRan>>
    BY <1>1, <1>j DEF StartIntraday, j
  <2>. HIDE DEF r
  <2>. QED  BY <2>1, <2>2, <1>j, JobIsFree DEF JobOK
<1>2. CASE SweepRead
  <2>. DEFINE r == [run[j] EXCEPT !.pc = "giveup",
                                  !.stuck = {s \in old : story[s] = "pending"}]
  <2>1. /\ r.pc = "giveup" /\ r.plan = run[j].plan /\ r.pending = run[j].pending
        /\ r.drafts = run[j].drafts
    BY <1>j DEF RunState
  <2>2. /\ run' = [run EXCEPT ![j] = r] /\ run[j].pc = "sweep"
        /\ UNCHANGED <<story, worker, generations, row, pass, recapRan>>
    BY <1>2 DEF SweepRead, j
  <2>. HIDE DEF r
  <2>. QED  BY <2>1, <2>2, <1>j, JobIsFree DEF JobOK
<1>3. CASE SweepGiveUp
  <2>. DEFINE r == [run[j] EXCEPT !.pc = "resend", !.stuck = {},
                                  !.tellq = {s \in Stories : WaitingFor(s) # {}}]
  <2>1. /\ r.pc = "resend" /\ r.plan = run[j].plan /\ r.pending = run[j].pending
        /\ r.drafts = run[j].drafts
    BY <1>j DEF RunState
  <2>2. /\ run' = [run EXCEPT ![j] = r] /\ run[j].pc = "giveup"
        /\ UNCHANGED <<worker, generations, row, pass, recapRan>>
    BY <1>3 DEF SweepGiveUp, j
  <2>3. \A s \in Stories : story'[s] \in {story[s], "empty"}
    BY <1>3 DEF SweepGiveUp
  <2>4. run'[j] = r /\ \A k \in Jobs : k # j => run'[k] = run[k]
    BY <2>2, <1>j, RunAt
  <2>. HIDE DEF r
  <2>5. \A k \in Jobs, s \in Stories : /\ Covers(k, s) => Covers(k, s)'
                                       /\ Submitting(k, s) => Submitting(k, s)'
    BY <1>j, <2>2, <2>4 DEF Covers, Submitting
  <2>6. WaitersCovered'
    BY <2>2, <2>3, <2>5 DEF HandOver, WaitersCovered, Covered, Pairs
  <2>7. PendingIsInHand'
    BY <2>2, <2>3, <2>5 DEF HandOver, PendingIsInHand
  <2>8. \A s \in Stories : ThreadOK(s)'
    BY <2>2, <2>3 DEF HandOver, ThreadOK, Finished
  <2>9. \A k \in Jobs : JobOK(k)'
    <3>1. Created \subseteq Created'
      BY <2>3 DEF Created
    <3>. QED  BY <1>j, <2>1, <2>2, <2>4, <3>1 DEF HandOver, JobOK
  <2>. QED  BY <2>6, <2>7, <2>8, <2>9 DEF HandOver
<1>4. ASSUME NEW p \in Pairs, SendAlert(p) PROVE HandOver'
  <2>. DEFINE D == IF p[1] \in run[j].pending THEN {p} ELSE {}
  <2>. DEFINE r == [run[j] EXCEPT !.todo = run[j].todo \ {p},
                                  !.batch = run[j].batch \cup {p},
                                  !.drafts = run[j].drafts \cup D]
  <2>1. /\ r.pc = run[j].pc /\ r.plan = run[j].plan /\ r.pending = run[j].pending
        /\ r.drafts = run[j].drafts \cup D
    BY <1>j DEF RunState
  <2>2. /\ run' = [run EXCEPT ![j] = r] /\ run[j].pc = "send"
        /\ UNCHANGED <<story, worker, generations, row, pass, recapRan>>
    BY <1>4 DEF SendAlert, j
  <2>3. run'[j] = r /\ \A k \in Jobs : k # j => run'[k] = run[k]
    BY <2>2, <1>j, RunAt
  <2>. HIDE DEF r
  <2>4. \A s \in Stories : ~Covers(j, s) /\ ~Submitting(j, s)
    BY <1>j, <2>2 DEF Covers, Submitting
  <2>5. JobOK(j)'
    BY <1>j, <2>1, <2>2, <2>3 DEF JobOK, Created
  <2>. QED  BY <1>j, <2>2, <2>3, <2>4, <2>5, JobMoves
<1>5. CASE CommitAlerts /\ Clash(j)
  <2>1. /\ run' = [run EXCEPT ![j] = IdleRun] /\ run[j].pc = "send"
        /\ UNCHANGED <<story, worker, generations, row, pass, recapRan>>
    BY <1>5 DEF CommitAlerts, j
  <2>2. run'[j] = IdleRun /\ \A k \in Jobs : k # j => run'[k] = run[k]
    BY <2>1, <1>j, RunAt
  <2>3. \A s \in Stories : ~Covers(j, s) /\ ~Submitting(j, s)
    BY <1>j, <2>1 DEF Covers, Submitting
  <2>4. JobOK(j)'
    BY <1>j, <2>1, <2>2 DEF JobOK, Created, IdleRun
  <2>. QED  BY <1>j, <2>1, <2>2, <2>3, <2>4, JobMoves
<1>6. CASE CommitAlerts /\ ~Clash(j)
  <2>. DEFINE r == [IdleRun EXCEPT !.pc = "post", !.tellq = run[j].plan]
  <2>1. /\ r.pc = "post" /\ r.tellq = run[j].plan
        /\ r.plan = {} /\ r.pending = {} /\ r.drafts = {}
    BY DEF IdleRun
  <2>2. /\ run' = [run EXCEPT ![j] = r] /\ run[j].pc = "send"
        /\ row' = [p \in Pairs |-> IF p \in run[j].drafts THEN "waiting" ELSE row[p]]
        /\ UNCHANGED <<story, worker, generations, pass, recapRan>>
    BY <1>6 DEF CommitAlerts, j
  <2>3. run'[j] = r /\ \A k \in Jobs : k # j => run'[k] = run[k]
    BY <2>2, <1>j, RunAt
  <2>. HIDE DEF r
  <2>4. \A k \in Jobs, s \in Stories : /\ Covers(k, s) => Covers(k, s)'
                                       /\ Submitting(k, s) => Submitting(k, s)'
    BY <1>j, <2>2, <2>3 DEF Covers, Submitting
  <2>5. WaitersCovered'
    <3>1. ASSUME NEW p \in Pairs, p \in run[j].drafts
          PROVE  Covers(j, p[1])' /\ story[p[1]] # "absent"
      BY <1>j, <2>1, <2>3, <3>1 DEF JobOK, Covers, Created
    <3>2. ASSUME NEW p \in Pairs, row[p] = "waiting"
          PROVE  Covered(p)' /\ story[p[1]] # "absent"
      BY <2>2, <2>4, <3>2 DEF HandOver, WaitersCovered, Covered, Pairs
    <3>. QED  BY <1>j, <2>2, <3>1, <3>2 DEF WaitersCovered, Covered
  <2>6. PendingIsInHand'
    BY <2>2, <2>4 DEF HandOver, PendingIsInHand
  <2>7. \A s \in Stories : ThreadOK(s)'
    BY <2>2 DEF HandOver, ThreadOK
  <2>8. \A k \in Jobs : JobOK(k)'
    BY <1>j, <2>1, <2>2, <2>3 DEF HandOver, JobOK, Created
  <2>. QED  BY <2>5, <2>6, <2>7, <2>8 DEF HandOver
<1>. QED  BY <1>1, <1>2, <1>3, <1>4, <1>5, <1>6 DEF IntradayStep

\* The recap's own steps.
LEMMA RecapHandOver ==
  ASSUME TypeOK, HandOver, RecapStep \/ StartRecap
  PROVE  HandOver'
<1>. DEFINE j == "recap"
<1>j. j \in Jobs /\ j = "recap" /\ JobOK(j) /\ run[j] \in RunState
  BY JobNames, RunType DEF HandOver
<1>. HIDE DEF j
<1>1. CASE StartRecap
  <2>. DEFINE r == [run[j] EXCEPT !.pc = "detect"]
  <2>1. /\ r.pc = "detect" /\ r.plan = run[j].plan /\ r.pending = run[j].pending
        /\ r.drafts = run[j].drafts
    BY <1>j DEF RunState
  <2>2. /\ run' = [run EXCEPT ![j] = r] /\ ~recapRan /\ recapRan'
        /\ UNCHANGED <<story, worker, generations, row, pass>>
    BY <1>1 DEF StartRecap, j
  <2>3. run[j].pc = "idle"
    BY <1>j, <2>2 DEF JobOK
  <2>. HIDE DEF r
  <2>. QED  BY <2>1, <2>2, <2>3, <1>j, JobIsFree DEF JobOK
<1>2. ASSUME NEW p \in Pairs, SendRecap(p) PROVE HandOver'
  <2>. DEFINE D == IF PendingFor(p) THEN {p} ELSE {}
  <2>. DEFINE r == [run[j] EXCEPT !.todo = run[j].todo \ {p}, !.batch = {p},
                                  !.drafts = D, !.pc = "check"]
  <2>1. /\ r.pc = "check" /\ r.plan = run[j].plan /\ r.pending = run[j].pending
        /\ \A q \in r.drafts : q[1] \in r.plan
    BY <1>j DEF RunState, PendingFor, j
  <2>2. /\ run' = [run EXCEPT ![j] = r] /\ run[j].pc = "send"
        /\ UNCHANGED <<story, worker, generations, row, pass, recapRan>>
    BY <1>2 DEF SendRecap, j
  <2>. HIDE DEF r
  <2>3. run'[j] = r /\ \A k \in Jobs : k # j => run'[k] = run[k]
    BY <2>2, <1>j, RunAt
  <2>4. \A s \in Stories : /\ Covers(j, s) => Covers(j, s)'
                           /\ Submitting(j, s) => Submitting(j, s)'
    BY <1>j, <2>1, <2>2, <2>3 DEF Covers, Submitting
  <2>5. JobOK(j)'
    BY <1>j, <2>1, <2>2, <2>3 DEF JobOK, Created
  <2>. QED  BY <1>j, <2>2, <2>3, <2>4, <2>5, JobMoves
<1>3. CASE CheckRecap
  <2>. DEFINE r == [run[j] EXCEPT !.drafts = {p \in run[j].drafts : row[p] = "none"},
                                  !.pc = "commit"]
  <2>1. /\ r.pc = "commit" /\ r.plan = run[j].plan /\ r.pending = run[j].pending
        /\ r.drafts \subseteq run[j].drafts
    BY <1>j DEF RunState
  <2>2. /\ run' = [run EXCEPT ![j] = r] /\ run[j].pc = "check"
        /\ UNCHANGED <<story, worker, generations, row, pass, recapRan>>
    BY <1>3 DEF CheckRecap, j
  <2>3. run'[j] = r /\ \A k \in Jobs : k # j => run'[k] = run[k]
    BY <2>2, <1>j, RunAt
  <2>. HIDE DEF r
  <2>4. \A s \in Stories : /\ Covers(j, s) => Covers(j, s)'
                           /\ Submitting(j, s) => Submitting(j, s)'
    BY <1>j, <2>1, <2>2, <2>3 DEF Covers, Submitting
  <2>5. JobOK(j)'
    BY <1>j, <2>1, <2>2, <2>3 DEF JobOK, Created
  <2>. QED  BY <1>j, <2>2, <2>3, <2>4, <2>5, JobMoves
<1>4. CASE CommitRecap
  <2>. DEFINE r == [run[j] EXCEPT !.pc = "send", !.batch = {}, !.pending = {},
                                  !.drafts = {}]
  <2>1. r.pc = "send" /\ r.plan = run[j].plan /\ r.pending = {} /\ r.drafts = {}
    BY <1>j DEF RunState
  <2>2. /\ run' = [run EXCEPT ![j] = r] /\ run[j].pc = "commit"
        /\ UNCHANGED <<story, worker, generations, pass, recapRan>>
    BY <1>4 DEF CommitRecap, j
  <2>3. run'[j] = r /\ \A k \in Jobs : k # j => run'[k] = run[k]
    BY <2>2, <1>j, RunAt
  <2>. HIDE DEF r
  <2>4. \A k \in Jobs, s \in Stories : /\ Covers(k, s) => Covers(k, s)'
                                       /\ Submitting(k, s) => Submitting(k, s)'
    BY <1>j, <2>1, <2>2, <2>3 DEF Covers, Submitting
  <2>5. \A p \in Pairs : row'[p] = "waiting" => row[p] = "waiting" \/ p \in run[j].drafts
    BY <1>4 DEF CommitRecap, j
  <2>6. WaitersCovered'
    <3>1. ASSUME NEW p \in Pairs, p \in run[j].drafts
          PROVE  Covers(j, p[1])' /\ story[p[1]] # "absent"
      BY <1>j, <2>1, <2>3, <3>1 DEF JobOK, Covers, Created
    <3>2. ASSUME NEW p \in Pairs, row[p] = "waiting"
          PROVE  Covered(p)' /\ story[p[1]] # "absent"
      BY <2>2, <2>4, <3>2 DEF HandOver, WaitersCovered, Covered, Pairs
    <3>. QED  BY <1>j, <2>2, <2>5, <3>1, <3>2 DEF WaitersCovered, Covered
  <2>7. PendingIsInHand'
    BY <2>2, <2>4 DEF HandOver, PendingIsInHand
  <2>8. \A s \in Stories : ThreadOK(s)'
    BY <2>2 DEF HandOver, ThreadOK
  <2>9. \A k \in Jobs : JobOK(k)'
    BY <1>j, <2>1, <2>2, <2>3 DEF HandOver, JobOK, Created
  <2>. QED  BY <2>6, <2>7, <2>8, <2>9 DEF HandOver
<1>5. CASE RecapSent
  <2>. DEFINE r == [IdleRun EXCEPT !.pc = "post", !.tellq = run[j].plan]
  <2>1. /\ r.pc = "post" /\ r.tellq = run[j].plan
        /\ r.plan = {} /\ r.pending = {} /\ r.drafts = {}
    BY DEF IdleRun
  <2>2. /\ run' = [run EXCEPT ![j] = r] /\ run[j].pc = "send"
        /\ UNCHANGED <<story, worker, generations, row, pass, recapRan>>
    BY <1>5 DEF RecapSent, j
  <2>3. run'[j] = r /\ \A k \in Jobs : k # j => run'[k] = run[k]
    BY <2>2, <1>j, RunAt
  <2>. HIDE DEF r
  <2>4. \A s \in Stories : /\ Covers(j, s) => Covers(j, s)'
                           /\ Submitting(j, s) => Submitting(j, s)'
    BY <1>j, <2>1, <2>2, <2>3 DEF Covers, Submitting
  <2>5. JobOK(j)'
    BY <1>j, <2>1, <2>2, <2>3 DEF JobOK, Created
  <2>. QED  BY <1>j, <2>2, <2>3, <2>4, <2>5, JobMoves
<1>. QED  BY <1>1, <1>2, <1>3, <1>4, <1>5 DEF RecapStep

\* A behaviour without faults so far takes no step that is one.
LEMMA FaultFree ==
  ASSUME TypeOK, [Next]_vars, faults' = 0
  PROVE  faults = 0 /\ ~FaultStep
<1>1. ~FaultStep
  <2>1. FaultStep => faults' = faults + 1
    BY DEF FaultStep, StoriesUnavailable, RunRaises, WorkerRaises, Restart
  <2>2. faults \in Nat
    BY DEF TypeOK
  <2>. QED  BY <2>1, <2>2
<1>2. faults = 0
  <2>1. ASSUME NEW a \in Actors, PassStep(a) PROVE faults' = faults
    BY <2>1 DEF PassStep, Abandon, Claim, MailFollowup
  <2>2. ASSUME NEW s \in Stories, WorkerStep(s) \/ GrowOld(s) PROVE faults' = faults
    BY <2>2 DEF WorkerStep, StoreStory, WorkerTell, WorkerDone, GrowOld
  <2>3. ASSUME NEW j \in Jobs, PlanStep(j) PROVE faults' = faults
    BY <2>3 DEF PlanStep, Detect, PlanExisting, PlanNew, InsertStory, Submit, Planned,
                WaitOver
  <2>4. ASSUME NEW j \in Jobs, TellStep(j) PROVE faults' = faults
    BY <2>4 DEF TellStep, JobTell, JobTold
  <2>5. IntradayStep => faults' = faults
    BY DEF IntradayStep, SweepRead, SweepGiveUp, SendAlert, CommitAlerts
  <2>6. RecapStep => faults' = faults
    BY DEF RecapStep, SendRecap, CheckRecap, CommitRecap, RecapSent
  <2>7. StartIntraday \/ StartRecap \/ UNCHANGED vars => faults' = faults
    BY DEF StartIntraday, StartRecap, vars
  <2>. QED  BY <1>1, <2>1, <2>2, <2>3, <2>4, <2>5, <2>6, <2>7 DEF Next
<1>. QED  BY <1>1, <1>2

LEMMA HandOverStep ==
  TypeOK /\ TypeOK' /\ GenInv /\ HandOverInv /\ [Next]_vars => HandOverInv'
<1> SUFFICES ASSUME TypeOK, TypeOK', GenInv, HandOverInv, [Next]_vars, faults' = 0
             PROVE  HandOver'
  BY DEF HandOverInv
<1>1. ~FaultStep /\ faults = 0
  BY FaultFree
<1>3. HandOver
  BY <1>1 DEF HandOverInv
<1>4. ASSUME NEW j \in Jobs, PlanStep(j) PROVE HandOver'
  BY <1>3, <1>4, PlanningHandOver, BeginningHandOver DEF PlanStep
<1>5. CASE UNCHANGED vars
  BY <1>3, <1>5 DEF vars, HandOver, WaitersCovered, Covered, Covers, PendingIsInHand,
                    ThreadOK, JobOK, Submitting, Created
<1>. QED
  BY <1>1, <1>3, <1>4, <1>5, PassHandOver, ThreadHandOver, TellHandOver, IntradayHandOver,
     RecapHandOver DEF Next

\* In a quiet process in which nothing has failed, no family waits for a story.
THEOREM NobodyWaits == Spec => []NobodyLeftWaiting
<1>1. Init => GenInv
  BY DEF Init, GenInv, NotBegun, SubmitsOwn, OneSubmitter, OneCurrent, Submitting, IdleRun
<1>2. Init => HandOverInv
  BY DEF Init, HandOverInv, HandOver, WaitersCovered, PendingIsInHand, ThreadOK, JobOK,
         IdleRun, NoPass, Actors
<1>3. TypeOK /\ HandOverInv => NobodyLeftWaiting
  BY DEF NobodyLeftWaiting, Quiet, HandOverInv, HandOver, WaitersCovered, Covered, Covers,
         ThreadOK, JobOK, Submitting, Actors, Pairs, TypeOK
<1>. QED  BY <1>1, <1>2, <1>3, TypeCorrect, GenStep, HandOverStep, PTL DEF Spec

-----------------------------------------------------------------------------
(* The limit on the stories of a day.  What makes it hold while one job is   *)
(* at work at a time: the count it read when it began to plan is still the   *)
(* number of the day's stories, because nobody else creates or removes one.  *)

OneAtATime == \A j, k \in Jobs : run[j].pc # "idle" /\ run[k].pc # "idle" => j = k

Counted == \A j \in Jobs : run[j].pc \in {"plan", "insert", "submit"} =>
             run[j].count = Cardinality(Created)

BelowLimit == \A j \in Jobs : run[j].pc = "insert" =>
                \A s \in run[j].current : run[j].count < Limit(s)

StuckHasRow == \A j \in Jobs : \A s \in run[j].stuck : story[s] # "absent"

\* A story that was never begun has no thread; a thread holds follow-ups only
\* while it tells the families.
ThreadRests == \A s \in Stories : /\ generations[s] = 0 => worker[s] = "off"
                                  /\ worker[s] # "telling" => PassOver(s)

CapInv == Counted /\ BelowLimit /\ StuckHasRow

\* What a step does to the state of a job that does not start.
LEMMA IdleStaysIdle ==
  ASSUME TypeOK, [Next]_vars, NEW j \in Jobs, run[j].pc = "idle",
         ~StartIntraday, ~StartRecap
  PROVE  run'[j].pc = "idle"
<1>1. ASSUME NEW a \in Actors, PassStep(a) PROVE run' = run
  BY <1>1 DEF PassStep, Abandon, Claim, MailFollowup
<1>2. ASSUME NEW s \in Stories, WorkerStep(s) \/ GrowOld(s) PROVE run' = run
  BY <1>2 DEF WorkerStep, StoreStory, WorkerTell, WorkerDone, GrowOld
<1>3. ASSUME NEW k \in Jobs, PlanStep(k) PROVE run[k].pc # "idle" /\ (k # j => run'[j] = run[j])
  BY <1>3 DEF PlanStep, Detect, PlanExisting, PlanNew, InsertStory, Submit, Planned,
              WaitOver, TypeOK
<1>4. ASSUME NEW k \in Jobs, TellStep(k) PROVE run[k].pc # "idle" /\ (k # j => run'[j] = run[j])
  BY <1>4 DEF TellStep, JobTell, JobTold, TypeOK
<1>5. IntradayStep => /\ run["intraday"].pc # "idle"
                      /\ j # "intraday" => run'[j] = run[j]
  BY DEF IntradayStep, SweepRead, SweepGiveUp, SendAlert, CommitAlerts, TypeOK
<1>6. RecapStep => /\ run["recap"].pc # "idle"
                   /\ j # "recap" => run'[j] = run[j]
  BY DEF RecapStep, SendRecap, CheckRecap, CommitRecap, RecapSent, TypeOK
<1>7. CASE FaultStep
  <2>1. ASSUME NEW k \in Jobs, StoriesUnavailable(k) \/ RunRaises(k)
        PROVE  run[k].pc # "idle" /\ (k # j => run'[j] = run[j])
    BY <2>1 DEF StoriesUnavailable, RunRaises, TypeOK
  <2>2. ASSUME NEW s \in Stories, WorkerRaises(s) PROVE run' = run
    BY <2>2 DEF WorkerRaises
  <2>3. CASE Restart
    BY <2>3 DEF Restart, IdleRun
  <2>. QED  BY <1>7, <2>1, <2>2, <2>3 DEF FaultStep
<1>. QED
  BY <1>1, <1>2, <1>3, <1>4, <1>5, <1>6, <1>7 DEF Next, vars

\* Without slow runs an intraday run is over when the recap starts, and it
\* starts only when the recap is over.
LEMMA OneAtATimeStep ==
  ASSUME ~SlowTick, TypeOK, OneAtATime, [Next]_vars
  PROVE  OneAtATime'
<1>1. CASE StartIntraday
  BY <1>1 DEF StartIntraday, OneAtATime, TypeOK
<1>2. CASE StartRecap
  BY <1>2 DEF StartRecap, OneAtATime, Jobs, TypeOK
<1>3. CASE ~StartIntraday /\ ~StartRecap
  BY <1>3, IdleStaysIdle DEF OneAtATime
<1>. QED  BY <1>1, <1>2, <1>3

LEMMA ThreadRestsStep ==
  ASSUME TypeOK, GenInv, ThreadRests, [Next]_vars
  PROVE  ThreadRests'
<1>j. \A k \in Jobs, t \in Stories : k # t
  BY StoriesAssumption
<1>1. ASSUME NEW a \in Actors, PassStep(a) PROVE ThreadRests'
  <2>1. UNCHANGED <<generations, worker>>
    BY <1>1 DEF PassStep, Abandon, Claim, MailFollowup
  <2>2. ~PassOver(a) /\ \A b \in Actors : b # a => pass'[b] = pass[b]
    BY <1>1 DEF PassStep, Abandon, Claim, MailFollowup, PassOver, TypeOK
  <2>. QED  BY <2>1, <2>2 DEF ThreadRests, PassOver, Actors
<1>2. ASSUME NEW s \in Stories, WorkerStep(s) PROVE ThreadRests'
  <2>1. CASE StoreStory(s) \/ WorkerDone(s)
    <3>1. /\ UNCHANGED <<generations, pass>>
          /\ worker[s] \in {"generating", "telling"} /\ (worker[s] = "telling" => PassOver(s))
      BY <2>1 DEF StoreStory, WorkerDone
    <3>2. \A t \in Stories : t # s => worker'[t] = worker[t]
      BY <2>1 DEF StoreStory, WorkerDone, TypeOK
    <3>. QED  BY <3>1, <3>2 DEF ThreadRests, PassOver
  <2>2. CASE WorkerTell(s)
    <3>1. worker[s] = "stored" /\ generations' = generations /\ BeginPass(s, s)
      BY <2>2 DEF WorkerTell
    <3>2. \A t \in Stories : worker'[t] = IF t = s THEN "telling" ELSE worker[t]
      BY <2>2 DEF WorkerTell, TypeOK
    <3>3. \A t \in Stories : t # s => pass'[t] = pass[t]
      BY <3>1 DEF BeginPass, Actors, TypeOK
    <3>. QED  BY <3>1, <3>2, <3>3 DEF ThreadRests, PassOver
  <2>. QED  BY <1>2, <2>1, <2>2 DEF WorkerStep
<1>3. ASSUME NEW j \in Jobs, TellStep(j) PROVE ThreadRests'
  <2>1. UNCHANGED <<generations, worker>>
    BY <1>3 DEF TellStep, JobTell, JobTold
  <2>2. \A s \in Stories : pass'[s] = pass[s]
    BY <1>3, <1>j DEF TellStep, JobTell, JobTold, BeginPass, Actors, TypeOK
  <2>. QED  BY <2>1, <2>2 DEF ThreadRests, PassOver
<1>4. ASSUME NEW j \in Jobs, NEW s \in Stories, Submit(j, s) PROVE ThreadRests'
  <2>1. Submitting(j, s) /\ pass' = pass
    BY <1>4 DEF Submit, Submitting
  <2>2. generations[s] = 0 /\ PassOver(s)
    BY <2>1 DEF GenInv, SubmitsOwn, ThreadRests
  <2>3. \A t \in Stories : /\ t # s => worker'[t] = worker[t] /\ generations'[t] = generations[t]
                           /\ generations'[s] = generations[s] + 1
    BY <1>4 DEF Submit, TypeOK
  <2>. QED  BY <2>1, <2>2, <2>3 DEF ThreadRests, PassOver
<1>5. ASSUME NEW j \in Jobs, PlanStep(j), ~\E s \in Stories : Submit(j, s) PROVE ThreadRests'
  <2>1. UNCHANGED <<generations, worker, pass>>
    BY <1>5 DEF PlanStep, Detect, PlanExisting, PlanNew, InsertStory, Planned, WaitOver
  <2>. QED  BY <2>1 DEF ThreadRests, PassOver
<1>6. CASE StartIntraday \/ StartRecap \/ IntradayStep \/ RecapStep \/ UNCHANGED vars
           \/ \E s \in Stories : GrowOld(s)
  <2>1. UNCHANGED <<generations, worker, pass>>
    BY <1>6 DEF StartIntraday, StartRecap, IntradayStep, SweepRead, SweepGiveUp, SendAlert,
       CommitAlerts, RecapStep, SendRecap, CheckRecap, CommitRecap, RecapSent, GrowOld, vars
  <2>. QED  BY <2>1 DEF ThreadRests, PassOver
<1>7. CASE FaultStep
  <2>1. /\ generations' = generations
        /\ \A s \in Stories : worker'[s] \in {worker[s], "off"}
        /\ \A s \in Stories : pass'[s] = NoPass \/ (pass'[s] = pass[s] /\ worker'[s] = worker[s])
    <3>1. ASSUME NEW k \in Jobs, StoriesUnavailable(k) \/ RunRaises(k)
          PROVE  UNCHANGED <<generations, worker>> /\ \A s \in Stories : pass'[s] = pass[s]
      BY <3>1, <1>j DEF StoriesUnavailable, RunRaises, Actors, TypeOK
    <3>2. ASSUME NEW s \in Stories, WorkerRaises(s)
          PROVE  /\ generations' = generations
                 /\ \A t \in Stories : worker'[t] = IF t = s THEN "off" ELSE worker[t]
                 /\ \A t \in Stories : pass'[t] = IF t = s THEN NoPass ELSE pass[t]
      BY <3>2 DEF WorkerRaises, Actors, TypeOK
    <3>3. CASE Restart
      BY <3>3 DEF Restart, Actors
    <3>. QED  BY <1>7, <3>1, <3>2, <3>3 DEF FaultStep
  <2>. QED  BY <2>1 DEF ThreadRests, PassOver, NoPass
<1>. QED  BY <1>1, <1>2, <1>3, <1>4, <1>5, <1>6, <1>7 DEF Next

Planning == {"plan", "insert", "submit"}

\* A job that begins no planning and counts nothing.
CountsNothing(k) ==
    \/ run'[k] = run[k]
    \/ run'[k].pc \notin Planning /\ run'[k].stuck \subseteq Created

\* A step that neither adds a story to the day nor moves a job that plans.
LEMMA CapKept ==
  ASSUME CapInv, \A s \in Stories : story'[s] = "absent" <=> story[s] = "absent",
         TypeOK, \A k \in Jobs : CountsNothing(k)
  PROVE  CapInv' /\ Created' = Created
<1>1. Created' = Created
  BY DEF Created
<1>2. Counted' /\ BelowLimit'
  BY <1>1 DEF CapInv, Counted, BelowLimit, CountsNothing, Planning, Limit
<1>3. \A j \in Jobs : run[j].stuck \subseteq Stories
  BY RunType DEF RunState
<1>4. StuckHasRow'
  BY <1>3 DEF CapInv, StuckHasRow, CountsNothing, Created
<1>. QED  BY <1>1, <1>2, <1>4 DEF CapInv

LEMMA CapPlanning ==
  ASSUME TypeOK, GenInv, OneAtATime, CapInv, NEW j \in Jobs, PlanStep(j)
  PROVE  CapInv'
<1>o. \A k \in Jobs : k # j => run[k].pc = "idle"
  <2>1. run[j].pc # "idle"
    BY DEF PlanStep, Detect, PlanExisting, PlanNew, InsertStory, Submit, Planned, WaitOver
  <2>. QED  BY <2>1 DEF OneAtATime
<1>s. run[j] \in RunState /\ \A s \in run[j].stuck : story[s] # "absent"
  BY RunType DEF CapInv, StuckHasRow
\* A step after which the count is still right.
<1>k. ASSUME NEW r, run' = [run EXCEPT ![j] = r],
             r.pc \in Planning => r.count = Cardinality(Created'),
             r.pc = "insert" => \A s \in r.current : r.count < Limit(s),
             r.stuck \in {{}, run[j].stuck},
             \A s \in Stories : story[s] # "absent" => story'[s] # "absent"
      PROVE  CapInv'
  <2>1. run'[j] = r /\ \A k \in Jobs : k # j => run'[k] = run[k]
    BY <1>k, RunAt
  <2>2. Counted' /\ BelowLimit'
    BY <1>k, <1>o, <2>1 DEF Counted, BelowLimit, Planning, Limit
  <2>3. \A k \in Jobs : run[k].stuck \subseteq Stories
    BY RunType DEF RunState
  <2>4. StuckHasRow'
    BY <1>k, <1>s, <2>1, <2>3 DEF CapInv, StuckHasRow
  <2>. QED  BY <2>2, <2>4 DEF CapInv
<1>1. CASE Detect(j)
  <2>1. PICK B \in Batch(j), paused \in BOOLEAN :
          run' = [run EXCEPT ![j] =
                    IF B = {} THEN IdleRun
                    ELSE [IdleRun EXCEPT !.pc = "plan", !.todo = B,
                                         !.cand = {p[1] : p \in B},
                                         !.count = Cardinality(Created),
                                         !.paused = paused]]
    BY <1>1 DEF Detect
  <2>. DEFINE r == IF B = {} THEN IdleRun
                   ELSE [IdleRun EXCEPT !.pc = "plan", !.todo = B,
                                        !.cand = {p[1] : p \in B},
                                        !.count = Cardinality(Created),
                                        !.paused = paused]
  <2>2. /\ r.pc \in {"plan", "idle"} /\ r.stuck = {}
        /\ r.pc = "plan" => r.count = Cardinality(Created)
    BY DEF IdleRun
  <2>3. run' = [run EXCEPT ![j] = r] /\ story' = story /\ Created' = Created
    BY <1>1, <2>1 DEF Detect, Created
  <2>. HIDE DEF r
  <2>. QED  BY <2>2, <2>3, <1>k DEF Planning
<1>2. ASSUME NEW s \in Stories, PlanExisting(j, s) PROVE CapInv'
  <2>. DEFINE r == [run[j] EXCEPT !.cand = run[j].cand \ {s},
                                  !.plan = run[j].plan \cup {s}]
  <2>1. r.pc = run[j].pc /\ r.count = run[j].count /\ r.stuck = run[j].stuck
    BY <1>s DEF RunState
  <2>2. /\ run' = [run EXCEPT ![j] = r] /\ run[j].pc = "plan"
        /\ story' = story /\ Created' = Created
    BY <1>2 DEF PlanExisting, Created
  <2>. HIDE DEF r
  <2>. QED  BY <2>1, <2>2, <1>k DEF CapInv, Counted
<1>3. ASSUME NEW s \in Stories, PlanNew(j, s) PROVE CapInv'
  <2>. DEFINE r == IF run[j].paused \/ run[j].count >= Limit(s)
                   THEN [run[j] EXCEPT !.cand = run[j].cand \ {s}]
                   ELSE [run[j] EXCEPT !.cand = run[j].cand \ {s}, !.pc = "insert",
                                       !.current = {s}]
  <2>1. /\ r.count = run[j].count /\ r.stuck = run[j].stuck
        /\ r.pc = run[j].pc \/ (r.current = {s} /\ ~(run[j].count >= Limit(s)))
    BY <1>s DEF RunState
  <2>2. /\ run' = [run EXCEPT ![j] = r] /\ run[j].pc = "plan"
        /\ story' = story /\ Created' = Created
    BY <1>3 DEF PlanNew, Created
  <2>3. run[j].count \in Nat /\ Limit(s) \in Nat
    BY <1>s, StoriesAssumption DEF RunState, Limit
  <2>4. run[j].count = Cardinality(Created)
    BY <2>2 DEF CapInv, Counted
  <2>5. r.pc = "insert" => \A t \in r.current : r.count < Limit(t)
    BY <2>1, <2>2, <2>3
  <2>. HIDE DEF r
  <2>. QED  BY <2>1, <2>2, <2>4, <2>5, <1>k
<1>4. ASSUME NEW s \in Stories, InsertStory(j, s), story[s] = "absent" PROVE CapInv'
  <2>. DEFINE r == [run[j] EXCEPT !.pc = "submit", !.count = run[j].count + 1]
  <2>1. r.pc = "submit" /\ r.count = run[j].count + 1 /\ r.stuck = run[j].stuck
    BY <1>s DEF RunState
  <2>2. /\ run' = [run EXCEPT ![j] = r] /\ run[j].pc = "insert"
        /\ story' = [story EXCEPT ![s] = "pending"]
    BY <1>4 DEF InsertStory
  <2>. HIDE DEF r
  <2>3. \A t \in Stories : story'[t] = IF t = s THEN "pending" ELSE story[t]
    <3>1. story \in [Stories -> StoryStatus]
      BY DEF TypeOK
    <3>. QED  BY <3>1, <2>2
  <2>4. Created' = Created \cup {s} /\ s \notin Created /\ IsFiniteSet(Created)
    <3>1. IsFiniteSet(Created)
      BY StoriesAssumption, FS_Subset DEF Created
    <3>. QED  BY <1>4, <2>3, <3>1 DEF Created
  <2>5. Cardinality(Created') = Cardinality(Created) + 1
    BY <2>4, FS_AddElement
  <2>6. run[j].count = Cardinality(Created)
    BY <2>2 DEF CapInv, Counted
  <2>7. r.count = Cardinality(Created') /\ r.pc # "insert"
    BY <2>1, <2>5, <2>6
  <2>8. \A t \in Stories : story[t] # "absent" => story'[t] # "absent"
    BY <2>3
  <2>. QED  BY <2>1, <2>2, <2>7, <2>8, <1>k
<1>5. ASSUME NEW s \in Stories, InsertStory(j, s), story[s] # "absent" PROVE CapInv'
  <2>. DEFINE r == [run[j] EXCEPT !.pc = "plan", !.current = {},
                                  !.plan = run[j].plan \cup {s}]
  <2>1. r.pc = "plan" /\ r.count = run[j].count /\ r.stuck = run[j].stuck
    BY <1>s DEF RunState
  <2>2. /\ run' = [run EXCEPT ![j] = r] /\ run[j].pc = "insert"
        /\ story' = story /\ Created' = Created
    BY <1>5 DEF InsertStory, Created
  <2>. HIDE DEF r
  <2>. QED  BY <2>1, <2>2, <1>k DEF CapInv, Counted
<1>6. ASSUME NEW s \in Stories, Submit(j, s) PROVE CapInv'
  <2>. DEFINE r == [run[j] EXCEPT !.pc = "plan", !.current = {},
                                  !.plan = run[j].plan \cup {s}]
  <2>1. r.pc = "plan" /\ r.count = run[j].count /\ r.stuck = run[j].stuck
    BY <1>s DEF RunState
  <2>2. /\ run' = [run EXCEPT ![j] = r] /\ run[j].pc = "submit"
        /\ story' = story /\ Created' = Created
    BY <1>6 DEF Submit, Created
  <2>. HIDE DEF r
  <2>. QED  BY <2>1, <2>2, <1>k DEF CapInv, Counted
<1>7. CASE Planned(j)
  <2>. DEFINE r == [run[j] EXCEPT !.pc = "wait"]
  <2>1. r.pc = "wait" /\ r.stuck = run[j].stuck
    BY <1>s DEF RunState
  <2>2. run' = [run EXCEPT ![j] = r] /\ story' = story
    BY <1>7 DEF Planned
  <2>. HIDE DEF r
  <2>. QED  BY <2>1, <2>2, <1>k DEF Planning
<1>8. CASE WaitOver(j)
  <2>. DEFINE r == [run[j] EXCEPT !.pc = "send",
                       !.pending = {s \in run[j].plan : story[s] = "pending"}]
  <2>1. r.pc = "send" /\ r.stuck = run[j].stuck
    BY <1>s DEF RunState
  <2>2. run' = [run EXCEPT ![j] = r] /\ story' = story
    BY <1>8 DEF WaitOver
  <2>. HIDE DEF r
  <2>. QED  BY <2>1, <2>2, <1>k DEF Planning
<1>. QED  BY <1>1, <1>2, <1>3, <1>4, <1>5, <1>6, <1>7, <1>8 DEF PlanStep

LEMMA CapStep ==
  ASSUME TypeOK, GenInv, ThreadRests, OneAtATime, CapInv, [Next]_vars
  PROVE  CapInv'
<1>s. \A k \in Jobs : run[k].stuck \subseteq Created
  BY RunType DEF CapInv, StuckHasRow, RunState, Created
<1>1. ASSUME NEW a \in Actors, PassStep(a) PROVE CapInv'
  <2>1. UNCHANGED <<story, run>>
    BY <1>1 DEF PassStep, Abandon, Claim, MailFollowup
  <2>. QED  BY <2>1, CapKept DEF CountsNothing
<1>2. ASSUME NEW s \in Stories, WorkerStep(s) \/ GrowOld(s) PROVE CapInv'
  <2>1. run' = run
    BY <1>2 DEF WorkerStep, StoreStory, WorkerTell, WorkerDone, GrowOld
  <2>2. CASE StoreStory(s)
    <3>1. worker[s] = "generating" /\ generations[s] # 0
      BY <2>2 DEF StoreStory, ThreadRests
    <3>2. story[s] # "absent"
      BY <3>1 DEF GenInv, NotBegun
    <3>3. /\ story'[s] # "absent"
          /\ \A t \in Stories : t # s => story'[t] = story[t]
      BY <2>2 DEF StoreStory, Finished, TypeOK
    <3>. QED  BY <2>1, <3>2, <3>3, CapKept DEF CountsNothing
  <2>3. CASE ~StoreStory(s)
    <3>1. story' = story
      BY <1>2, <2>3 DEF WorkerStep, WorkerTell, WorkerDone, GrowOld
    <3>. QED  BY <2>1, <3>1, CapKept DEF CountsNothing
  <2>. QED  BY <2>2, <2>3
<1>3. ASSUME NEW j \in Jobs, PlanStep(j) PROVE CapInv'
  BY <1>3, CapPlanning
<1>4. ASSUME NEW j \in Jobs, TellStep(j) PROVE CapInv'
  <2>1. story' = story
    BY <1>4 DEF TellStep, JobTold, JobTell
  <2>2. \A k \in Jobs : CountsNothing(k)
    <3>1. CASE JobTold(j)
      BY <3>1, <1>s, RunType DEF JobTold, IdleRun, RunState, CountsNothing, Planning, TypeOK
    <3>2. ASSUME NEW s \in Stories, JobTell(j, s)
          PROVE  \A k \in Jobs : CountsNothing(k)
      BY <3>2, <1>s, RunType DEF JobTell, RunState, CountsNothing, Planning, TypeOK
    <3>. QED  BY <1>4, <3>1, <3>2 DEF TellStep
  <2>. QED  BY <2>1, <2>2, CapKept
<1>5. CASE IntradayStep
  <2>1. CASE SweepRead
    <3>1. story' = story
      BY <2>1 DEF SweepRead
    <3>2. {s \in old : story[s] = "pending"} \subseteq Created
      BY DEF Created, TypeOK
    <3>3. \A k \in Jobs : CountsNothing(k)
      BY <2>1, <3>2, RunType, JobNames
         DEF SweepRead, RunState, CountsNothing, Planning, TypeOK
    <3>. QED  BY <3>1, <3>3, CapKept
  <2>2. CASE SweepGiveUp
    <3>1. \A s \in Stories : story'[s] = "absent" <=> story[s] = "absent"
      <4>1. \A s \in run["intraday"].stuck : story[s] # "absent"
        BY JobNames DEF CapInv, StuckHasRow
      <4>. QED  BY <2>2, <4>1 DEF SweepGiveUp
    <3>2. \A k \in Jobs : CountsNothing(k)
      BY <2>2, <1>s, RunType, JobNames
         DEF SweepGiveUp, RunState, CountsNothing, Planning, TypeOK
    <3>. QED  BY <3>1, <3>2, CapKept
  <2>3. ASSUME NEW p \in Pairs, SendAlert(p) PROVE CapInv'
    <3>1. story' = story
      BY <2>3 DEF SendAlert
    <3>2. \A k \in Jobs : CountsNothing(k)
      BY <2>3, <1>s, RunType, JobNames DEF SendAlert, RunState, CountsNothing, Planning, TypeOK
    <3>. QED  BY <3>1, <3>2, CapKept
  <2>4. CASE CommitAlerts
    <3>1. story' = story
      BY <2>4 DEF CommitAlerts
    <3>2. \A k \in Jobs : CountsNothing(k)
      <4>1. CASE run' = [run EXCEPT !["intraday"] =
                   [IdleRun EXCEPT !.pc = "post", !.tellq = run["intraday"].plan]]
        BY <4>1, RunAt, JobNames DEF IdleRun, CountsNothing, Planning
      <4>2. CASE run' = [run EXCEPT !["intraday"] = IdleRun]
        BY <4>2, RunAt, JobNames DEF IdleRun, CountsNothing, Planning
      <4>. QED  BY <2>4, <4>1, <4>2 DEF CommitAlerts
    <3>. QED  BY <3>1, <3>2, CapKept
  <2>. QED  BY <1>5, <2>1, <2>2, <2>3, <2>4 DEF IntradayStep
<1>6. CASE RecapStep
  <2>1. story' = story
    BY <1>6 DEF RecapStep, SendRecap, CheckRecap, CommitRecap, RecapSent
  <2>2. \A k \in Jobs : CountsNothing(k)
    <3>1. ASSUME NEW p \in Pairs, SendRecap(p) PROVE \A k \in Jobs : CountsNothing(k)
      BY <3>1, <1>s, RunType, JobNames DEF SendRecap, RunState, CountsNothing, Planning, TypeOK
    <3>2. CASE CheckRecap
      BY <3>2, <1>s, RunType, JobNames DEF CheckRecap, RunState, CountsNothing, Planning, TypeOK
    <3>3. CASE CommitRecap
      BY <3>3, <1>s, RunType, JobNames DEF CommitRecap, RunState, CountsNothing, Planning, TypeOK
    <3>4. CASE RecapSent
      BY <3>4, RunType, JobNames DEF RecapSent, IdleRun, CountsNothing, Planning, TypeOK
    <3>. QED  BY <1>6, <3>1, <3>2, <3>3, <3>4 DEF RecapStep
  <2>. QED  BY <2>1, <2>2, CapKept
<1>7. CASE StartIntraday \/ StartRecap
  <2>1. story' = story
    BY <1>7 DEF StartIntraday, StartRecap
  <2>2. \A k \in Jobs : CountsNothing(k)
    <3>1. CASE StartIntraday
      BY <3>1, <1>s, RunType, JobNames
         DEF StartIntraday, RunState, CountsNothing, Planning, TypeOK
    <3>2. CASE StartRecap
      BY <3>2, <1>s, RunType, JobNames DEF StartRecap, RunState, CountsNothing, Planning, TypeOK
    <3>. QED  BY <1>7, <3>1, <3>2
  <2>. QED  BY <2>1, <2>2, CapKept
<1>8. CASE FaultStep
  <2>1. story' = story
    BY <1>8 DEF FaultStep, StoriesUnavailable, RunRaises, WorkerRaises, Restart
  <2>2. \A k \in Jobs : CountsNothing(k)
    <3>1. ASSUME NEW j \in Jobs, StoriesUnavailable(j)
          PROVE  \A k \in Jobs : CountsNothing(k)
      BY <3>1, <1>s, RunType DEF StoriesUnavailable, RunState, CountsNothing, Planning, TypeOK
    <3>2. ASSUME NEW j \in Jobs, RunRaises(j) PROVE \A k \in Jobs : CountsNothing(k)
      <4>. DEFINE r == IF run[j].pc \in {"sweep", "giveup", "resend"}
                       THEN [IdleRun EXCEPT !.pc = "detect", !.nextDay = run[j].nextDay]
                       ELSE IF run[j].pc \in {"check", "commit"}
                       THEN [run[j] EXCEPT !.pc = "send", !.batch = {}, !.pending = {},
                                           !.drafts = {}]
                       ELSE IdleRun
      <4>1. r.pc \notin Planning /\ r.stuck \subseteq Created
        BY <1>s, RunType DEF IdleRun, RunState, Planning
      <4>2. run' = [run EXCEPT ![j] = r]
        BY <3>2 DEF RunRaises
      <4>. HIDE DEF r
      <4>. QED  BY <4>1, <4>2, RunAt DEF CountsNothing
    <3>3. ASSUME NEW s \in Stories, WorkerRaises(s)
          PROVE  \A k \in Jobs : CountsNothing(k)
      BY <3>3 DEF WorkerRaises, CountsNothing
    <3>4. CASE Restart
      BY <3>4 DEF Restart, IdleRun, CountsNothing, Planning
    <3>. QED  BY <1>8, <3>1, <3>2, <3>3, <3>4 DEF FaultStep
  <2>. QED  BY <2>1, <2>2, CapKept
<1>9. CASE UNCHANGED vars
  BY <1>9, CapKept DEF vars, CountsNothing
<1>. QED
  BY <1>1, <1>2, <1>3, <1>4, <1>5, <1>6, <1>7, <1>8, <1>9 DEF Next

\* The steps that create a story do it below its limit.
LEMMA CapHeld ==
  ASSUME TypeOK, GenInv, ThreadRests, CapInv, [Next]_vars,
         NEW s \in Stories, story[s] = "absent", story'[s] # "absent"
  PROVE  Cardinality(Created) < IF s \in Big THEN 2 * Cap ELSE Cap
<1>1. PICK j \in Jobs, t \in Stories : InsertStory(j, t)
  <2>1. ASSUME NEW t \in Stories, WorkerStep(t) PROVE FALSE
    <3>1. StoreStory(t) /\ t = s
      BY <2>1 DEF WorkerStep, StoreStory, WorkerTell, WorkerDone, TypeOK
    <3>2. worker[s] # "off"
      BY <3>1 DEF StoreStory
    <3>. QED  BY <3>2 DEF ThreadRests, GenInv, NotBegun
  <2>2. ~SweepGiveUp
    <3>1. s \notin run["intraday"].stuck
      BY JobNames DEF CapInv, StuckHasRow
    <3>. QED  BY <3>1 DEF SweepGiveUp
  <2>3. story' # story
    OBVIOUS
  <2>4. ASSUME NEW a \in Actors, PassStep(a) PROVE FALSE
    BY <2>3, <2>4 DEF PassStep, Abandon, Claim, MailFollowup
  <2>5. ASSUME NEW j \in Jobs, TellStep(j) PROVE FALSE
    BY <2>3, <2>5 DEF TellStep, JobTell, JobTold
  <2>6. ASSUME NEW j \in Jobs, PlanStep(j), ~\E t \in Stories : InsertStory(j, t) PROVE FALSE
    BY <2>3, <2>6 DEF PlanStep, Detect, PlanExisting, PlanNew, Submit, Planned, WaitOver
  <2>7. ~StartIntraday /\ ~StartRecap /\ ~IntradayStep /\ ~RecapStep
    BY <2>2, <2>3 DEF StartIntraday, StartRecap, IntradayStep, SweepRead, SendAlert, CommitAlerts,
          RecapStep, SendRecap, CheckRecap, CommitRecap, RecapSent
  <2>8. ~FaultStep /\ \A t \in Stories : ~GrowOld(t)
    BY <2>3 DEF FaultStep, StoriesUnavailable, RunRaises, WorkerRaises, Restart, GrowOld
  <2>. QED  BY <2>1, <2>3, <2>4, <2>5, <2>6, <2>7, <2>8 DEF Next, vars
<1>2. t = s /\ run[j].pc = "insert" /\ s \in run[j].current
  BY <1>1 DEF InsertStory, TypeOK
<1>3. run[j].count = Cardinality(Created) /\ run[j].count < Limit(s)
  BY <1>2 DEF CapInv, Counted, BelowLimit
<1>. QED  BY <1>3 DEF Limit

\* While no intraday run lasts into the recap, an ordinary story is begun only
\* below AI_ARTICLE_MAX_PER_DAY and a big one below twice that, whichever job
\* asks for it and whatever fails or restarts.
THEOREM CapNeverPassed == ASSUME ~SlowTick PROVE Spec => CapRespected
<1>1. Init => GenInv /\ ThreadRests /\ OneAtATime /\ CapInv
  BY DEF Init, GenInv, NotBegun, SubmitsOwn, OneSubmitter, OneCurrent, Submitting, IdleRun,
         ThreadRests, PassOver, NoPass, Actors, OneAtATime, CapInv, Counted, BelowLimit,
         StuckHasRow
<1>2. /\ TypeOK /\ GenInv /\ ThreadRests /\ OneAtATime /\ CapInv
      /\ [Next]_vars
      => GenInv' /\ ThreadRests' /\ OneAtATime' /\ CapInv'
  BY GenStep, ThreadRestsStep, OneAtATimeStep, CapStep
<1>3. TypeOK /\ GenInv /\ ThreadRests /\ CapInv /\ [Next]_vars =>
        [\A s \in Stories : story[s] = "absent" /\ story'[s] # "absent"
           => Cardinality(Created) < IF s \in Big THEN 2 * Cap ELSE Cap]_vars
  BY CapHeld
<1>. QED  BY <1>1, <1>2, <1>3, TypeCorrect, PTL DEF Spec, CapRespected

-----------------------------------------------------------------------------
(* A promise is recorded.  What makes it so while one job is at work at a    *)
(* time: an intraday run promises only stories that were pending when it    *)
(* stopped waiting, and a family that was told of a move hears of it again  *)
(* only when its story is finished or was never begun, and then there is no *)
(* row for it; so no row an intraday run commits can be there already.  The *)
(* recap looks first.                                                       *)

Fired == {"plan", "insert", "submit", "wait", "send"}

\* After the recap's slot an intraday run is one of the next day, which sends
\* nothing about this day's stories.
DayOver ==
    /\ run["intraday"].pc \in Fired \cup {"post"} => ~recapRan
    /\ run["intraday"].pc # "idle" /\ recapRan => run["intraday"].nextDay
    /\ run["recap"].pc # "idle" => recapRan

TodoNew ==
    /\ run["intraday"].pc \in Fired => \A p \in run["intraday"].todo :
         p \in logged["intraday"] => story[p[1]] \in Finished \/ row[p] = "none"
    /\ run["intraday"].pc = "send" => \A p \in run["intraday"].todo :
         p[1] \in run["intraday"].pending => row[p] = "none"

RowHasStory == \A p \in Pairs : row[p] # "none" => story[p[1]] # "absent"

RowsLogged == \A p \in Pairs : ~recapRan /\ row[p] # "none" => p \in logged["intraday"]

DraftsNew ==
    /\ \A p \in run["intraday"].drafts : row[p] = "none" /\ p \in run["intraday"].batch
    /\ run["intraday"].drafts # {} => run["intraday"].pc = "send"
    /\ run["recap"].drafts # {} => run["recap"].pc \in {"check", "commit"}
    /\ run["recap"].pc = "commit" => \A p \in run["recap"].drafts : row[p] = "none"

Recorded == \A p \in promised : row[p] # "none" \/ \E j \in Jobs : p \in run[j].drafts

Promises == DayOver /\ TodoNew /\ RowHasStory /\ RowsLogged /\ DraftsNew /\ Recorded

PromiseInv == faults = 0 => Promises

\* A story begun stays so, a finished one too; no row appears or disappears.
StoriesGoOn == \A s \in Stories : /\ story[s] \in Finished => story'[s] \in Finished
                                  /\ story[s] # "absent" => story'[s] # "absent"
RowsStay == \A p \in Pairs : row'[p] = "none" <=> row[p] = "none"

LEMMA PromisesKept ==
  ASSUME TypeOK, Promises, StoriesGoOn, RowsStay,
         UNCHANGED <<logged, promised, run, recapRan>>
  PROVE  Promises'
<1>1. \A j \in Jobs : /\ run[j].todo \subseteq Pairs
                      /\ run[j].drafts \subseteq Pairs
  BY RunType DEF RunState
<1>2. DayOver' /\ RowsLogged'
  BY DEF Promises, DayOver, RowsLogged, RowsStay
<1>3. TodoNew' /\ RowHasStory'
  BY <1>1, JobNames DEF Promises, TodoNew, RowHasStory, StoriesGoOn, RowsStay, Pairs
<1>4. DraftsNew'
  BY <1>1, JobNames DEF Promises, DraftsNew, RowsStay
<1>5. Recorded'
  BY DEF Promises, Recorded, RowsStay, TypeOK
<1>. QED  BY <1>2, <1>3, <1>4, <1>5 DEF Promises

\* What the other conditions say of an intraday run in local state r.
Fits(r) ==
    /\ r.pc \in Fired \cup {"post"} => ~recapRan
    /\ r.pc # "idle" /\ recapRan => r.nextDay
    /\ r.pc \in Fired => \A p \in r.todo :
         p \in Pairs /\ (p \in logged["intraday"] => story[p[1]] \in Finished \/ row[p] = "none")
    /\ r.pc = "send" => \A p \in r.todo : p[1] \in r.pending => row[p] = "none"

\* A step of a job that holds no follow-up to commit.
LEMMA PromisesMove ==
  ASSUME TypeOK, Promises, StoriesGoOn, NEW j \in Jobs, NEW r,
         run' = [run EXCEPT ![j] = r], run[j].drafts = {}, r.drafts = {},
         UNCHANGED <<row, logged, promised, recapRan>>,
         j = "recap" => run[j].pc # "idle",
         j = "intraday" => Fits(r)
  PROVE  Promises'
<1>1. run'[j] = r /\ \A k \in Jobs : k # j => run'[k] = run[k]
  BY RunAt
<1>2. \A k \in Jobs : /\ run[k].todo \subseteq Pairs
                      /\ run[k].drafts \subseteq Pairs
  BY RunType DEF RunState
<1>3. "recap" \in Jobs /\ "intraday" \in Jobs /\ j \in {"recap", "intraday"}
  BY DEF Jobs
<1>4. DayOver'
  BY <1>1, <1>3 DEF Promises, DayOver, Fits
<1>5. TodoNew'
  <2>1. CASE j = "intraday"
    BY <1>1, <2>1 DEF TodoNew, StoriesGoOn, Pairs, Fits
  <2>2. CASE j = "recap"
    BY <1>1, <1>2, <1>3, <2>2 DEF Promises, TodoNew, StoriesGoOn, Pairs
  <2>. QED  BY <1>3, <2>1, <2>2
<1>6. RowsLogged' /\ RowHasStory'
  BY DEF Promises, RowsLogged, RowHasStory, StoriesGoOn, Pairs
<1>7. DraftsNew'
  BY <1>1, <1>3 DEF Promises, DraftsNew
<1>8. Recorded'
  BY <1>1 DEF Promises, Recorded
<1>. QED  BY <1>4, <1>5, <1>6, <1>7, <1>8 DEF Promises

LEMMA PlanningPromises ==
  ASSUME TypeOK, Promises, NEW j \in Jobs, PlanStep(j) \/ TellStep(j)
  PROVE  Promises'
<1>r. run[j] \in RunState
  BY RunType
<1>d. run[j].pc \notin {"send", "check", "commit"} => run[j].drafts = {}
  BY DEF Promises, DraftsNew, Jobs
<1>i. j = "intraday" =>
        /\ run[j].pc \in Fired => \A p \in run[j].todo :
             p \in Pairs /\ (p \in logged[j] => story[p[1]] \in Finished \/ row[p] = "none")
        /\ run[j].pc \in Fired \cup {"post"} => ~recapRan
        /\ run[j].pc # "idle" /\ recapRan => run[j].nextDay
  BY <1>r DEF Promises, TodoNew, DayOver, RunState
\* A step that leaves the emails to send as they are.
<1>k. ASSUME NEW r, run' = [run EXCEPT ![j] = r],
             run[j].pc \in {"plan", "insert", "submit"},
             r.pc \in {"plan", "insert", "submit", "wait"},
             r.drafts = run[j].drafts, r.todo = run[j].todo, r.nextDay = run[j].nextDay,
             StoriesGoOn, UNCHANGED <<row, logged, promised, recapRan>>
      PROVE  Promises'
  <2>1. run[j].drafts = {} /\ r.drafts = {} /\ run[j].pc # "idle"
    BY <1>k, <1>d
  <2>2. j = "intraday" => Fits(r)
    BY <1>k, <1>i DEF Fired, Fits
  <2>. QED  BY <1>k, <2>1, <2>2, PromisesMove
<1>1. CASE Detect(j)
  <2>1. PICK B \in Batch(j), paused \in BOOLEAN :
          run' = [run EXCEPT ![j] =
                    IF B = {} THEN IdleRun
                    ELSE [IdleRun EXCEPT !.pc = "plan", !.todo = B,
                                         !.cand = {p[1] : p \in B},
                                         !.count = Cardinality(Created),
                                         !.paused = paused]]
    BY <1>1 DEF Detect
  <2>. DEFINE r == IF B = {} THEN IdleRun
                   ELSE [IdleRun EXCEPT !.pc = "plan", !.todo = B,
                                        !.cand = {p[1] : p \in B},
                                        !.count = Cardinality(Created),
                                        !.paused = paused]
  <2>2. /\ r.drafts = {}
        /\ \/ r.pc = "idle" /\ B = {}
           \/ r.pc = "plan" /\ r.todo = B /\ B # {}
    BY DEF IdleRun
  <2>3. /\ run' = [run EXCEPT ![j] = r] /\ run[j].pc = "detect"
        /\ UNCHANGED <<story, row, logged, promised, recapRan>>
    BY <1>1, <2>1 DEF Detect
  <2>. HIDE DEF r
  <2>4. j = "intraday" =>
          /\ B # {} => ~recapRan
          /\ \A p \in B : /\ p \in Pairs
                          /\ p \in logged["intraday"] =>
                               story[p[1]] \in Finished \/ row[p] = "none"
    <3>1. j = "intraday" => /\ B \subseteq Pairs /\ (B # {} => ~recapRan)
                            /\ \A p \in B : p \in logged[j] => story[p[1]] # "pending"
      BY <1>i, <2>3 DEF Batch
    <3>2. \A p \in Pairs : story[p[1]] = "absent" => row[p] = "none"
      BY DEF Promises, RowHasStory
    <3>3. \A p \in Pairs : story[p[1]] \in {"absent", "pending"} \cup Finished
      BY DEF TypeOK, StoryStatus, Finished, Pairs
    <3>. QED  BY <3>1, <3>2, <3>3
  <2>5. StoriesGoOn /\ run[j].drafts = {}
    BY <1>d, <2>3 DEF StoriesGoOn
  <2>6. j = "intraday" => Fits(r)
    <3>1. CASE r.pc = "idle"
      BY <3>1 DEF Fired, Fits
    <3>2. CASE r.pc = "plan" /\ r.todo = B /\ B # {}
      BY <2>4, <3>2 DEF Fired, Fits
    <3>. QED  BY <2>2, <3>1, <3>2
  <2>. QED  BY <2>2, <2>3, <2>5, <2>6, PromisesMove
<1>2. ASSUME NEW s \in Stories, PlanExisting(j, s) PROVE Promises'
  <2>. DEFINE r == [run[j] EXCEPT !.cand = run[j].cand \ {s},
                                  !.plan = run[j].plan \cup {s}]
  <2>1. /\ r.pc = run[j].pc /\ r.drafts = run[j].drafts /\ r.todo = run[j].todo
        /\ r.nextDay = run[j].nextDay
    BY <1>r DEF RunState
  <2>2. /\ run' = [run EXCEPT ![j] = r] /\ run[j].pc = "plan"
        /\ StoriesGoOn /\ UNCHANGED <<row, logged, promised, recapRan>>
    BY <1>2 DEF PlanExisting, StoriesGoOn
  <2>. HIDE DEF r
  <2>. QED  BY <2>1, <2>2, <1>k
<1>3. ASSUME NEW s \in Stories, PlanNew(j, s) PROVE Promises'
  <2>. DEFINE r == IF run[j].paused \/ run[j].count >= Limit(s)
                   THEN [run[j] EXCEPT !.cand = run[j].cand \ {s}]
                   ELSE [run[j] EXCEPT !.cand = run[j].cand \ {s}, !.pc = "insert",
                                       !.current = {s}]
  <2>1. /\ r.pc \in {run[j].pc, "insert"} /\ r.drafts = run[j].drafts
        /\ r.todo = run[j].todo /\ r.nextDay = run[j].nextDay
    BY <1>r DEF RunState
  <2>2. /\ run' = [run EXCEPT ![j] = r] /\ run[j].pc = "plan"
        /\ StoriesGoOn /\ UNCHANGED <<row, logged, promised, recapRan>>
    BY <1>3 DEF PlanNew, StoriesGoOn
  <2>. HIDE DEF r
  <2>. QED  BY <2>1, <2>2, <1>k
<1>4. ASSUME NEW s \in Stories, InsertStory(j, s) PROVE Promises'
  <2>. DEFINE r == IF story[s] = "absent"
                   THEN [run[j] EXCEPT !.pc = "submit", !.count = run[j].count + 1]
                   ELSE [run[j] EXCEPT !.pc = "plan", !.current = {},
                                       !.plan = run[j].plan \cup {s}]
  <2>1. /\ r.pc \in {"plan", "submit"} /\ r.drafts = run[j].drafts
        /\ r.todo = run[j].todo /\ r.nextDay = run[j].nextDay
    BY <1>r DEF RunState
  <2>2. /\ run' = [run EXCEPT ![j] = r] /\ run[j].pc = "insert"
        /\ UNCHANGED <<row, logged, promised, recapRan>>
    BY <1>4 DEF InsertStory
  <2>3. StoriesGoOn
    BY <1>4 DEF InsertStory, StoriesGoOn, Finished, TypeOK
  <2>. HIDE DEF r
  <2>. QED  BY <2>1, <2>2, <2>3, <1>k
<1>5. ASSUME NEW s \in Stories, Submit(j, s) PROVE Promises'
  <2>. DEFINE r == [run[j] EXCEPT !.pc = "plan", !.current = {},
                                  !.plan = run[j].plan \cup {s}]
  <2>1. /\ r.pc = "plan" /\ r.drafts = run[j].drafts /\ r.todo = run[j].todo
        /\ r.nextDay = run[j].nextDay
    BY <1>r DEF RunState
  <2>2. /\ run' = [run EXCEPT ![j] = r] /\ run[j].pc = "submit"
        /\ StoriesGoOn /\ UNCHANGED <<row, logged, promised, recapRan>>
    BY <1>5 DEF Submit, StoriesGoOn
  <2>. HIDE DEF r
  <2>. QED  BY <2>1, <2>2, <1>k
<1>6. CASE Planned(j)
  <2>. DEFINE r == [run[j] EXCEPT !.pc = "wait"]
  <2>1. /\ r.pc = "wait" /\ r.drafts = run[j].drafts /\ r.todo = run[j].todo
        /\ r.nextDay = run[j].nextDay
    BY <1>r DEF RunState
  <2>2. /\ run' = [run EXCEPT ![j] = r] /\ run[j].pc = "plan"
        /\ StoriesGoOn /\ UNCHANGED <<row, logged, promised, recapRan>>
    BY <1>6 DEF Planned, StoriesGoOn
  <2>. HIDE DEF r
  <2>. QED  BY <2>1, <2>2, <1>k
<1>7. CASE WaitOver(j)
  <2>. DEFINE r == [run[j] EXCEPT !.pc = "send",
                       !.pending = {s \in run[j].plan : story[s] = "pending"}]
  <2>1. /\ r.pc = "send" /\ r.drafts = run[j].drafts /\ r.todo = run[j].todo
        /\ r.nextDay = run[j].nextDay
        /\ r.pending = {s \in run[j].plan : story[s] = "pending"}
    BY <1>r DEF RunState
  <2>2. /\ run' = [run EXCEPT ![j] = r] /\ run[j].pc = "wait"
        /\ StoriesGoOn /\ UNCHANGED <<row, logged, promised, recapRan>>
    BY <1>7 DEF WaitOver, StoriesGoOn
  <2>. HIDE DEF r
  <2>3. j = "intraday" => \A p \in r.todo : p[1] \in r.pending => row[p] = "none"
    <3>1. \A p \in r.todo : p[1] \in r.pending => story[p[1]] \notin Finished
      BY <2>1 DEF Finished
    <3>. QED  BY <1>i, <2>1, <2>2, <3>1 DEF Promises, RowsLogged, Fired
  <2>4. run[j].drafts = {} /\ run[j].pc # "idle"
    BY <1>d, <2>2
  <2>5. j = "intraday" => Fits(r)
    BY <1>i, <2>1, <2>2, <2>3 DEF Fired, Fits
  <2>. QED  BY <2>1, <2>2, <2>4, <2>5, PromisesMove
<1>8. ASSUME NEW s \in Stories, JobTell(j, s) PROVE Promises'
  <2>. DEFINE r == [run[j] EXCEPT !.tellq = run[j].tellq \ {s}]
  <2>1. /\ r.pc = run[j].pc /\ r.drafts = run[j].drafts /\ r.nextDay = run[j].nextDay
    BY <1>r DEF RunState
  <2>2. /\ run' = [run EXCEPT ![j] = r] /\ run[j].pc \in {"resend", "post"}
        /\ StoriesGoOn /\ UNCHANGED <<row, logged, promised, recapRan>>
    BY <1>8 DEF JobTell, StoriesGoOn
  <2>. HIDE DEF r
  <2>4. run[j].drafts = {} /\ run[j].pc # "idle"
    BY <1>d, <2>2
  <2>5. j = "intraday" => Fits(r)
    BY <1>i, <2>1, <2>2 DEF Fired, Fits
  <2>. QED  BY <2>1, <2>2, <2>4, <2>5, PromisesMove
<1>9. CASE JobTold(j)
  <2>. DEFINE r == IF run[j].pc = "resend" THEN [run[j] EXCEPT !.pc = "detect"]
                                           ELSE IdleRun
  <2>1. /\ r.pc = "idle" \/ (r.pc = "detect" /\ r.nextDay = run[j].nextDay)
        /\ run[j].drafts = {} => r.drafts = {}
    BY <1>r DEF RunState, IdleRun
  <2>2. /\ run' = [run EXCEPT ![j] = r] /\ run[j].pc \in {"resend", "post"}
        /\ StoriesGoOn /\ UNCHANGED <<row, logged, promised, recapRan>>
    BY <1>9 DEF JobTold, StoriesGoOn
  <2>. HIDE DEF r
  <2>4. run[j].drafts = {} /\ run[j].pc # "idle"
    BY <1>d, <2>2
  <2>5. j = "intraday" => Fits(r)
    BY <1>i, <2>1, <2>4 DEF Fired, Fits
  <2>. QED  BY <2>1, <2>2, <2>4, <2>5, PromisesMove
<1>. QED
  BY <1>1, <1>2, <1>3, <1>4, <1>5, <1>6, <1>7, <1>8, <1>9 DEF PlanStep, TellStep

LEMMA IntradayPromises ==
  ASSUME TypeOK, OneAtATime, HandOver, Promises, IntradayStep \/ StartIntraday
  PROVE  Promises'
<1>. DEFINE j == "intraday"
<1>j. j \in Jobs /\ j = "intraday" /\ "recap" \in Jobs /\ run[j] \in RunState
  BY JobNames, RunType
<1>d. run[j].pc # "send" => run[j].drafts = {}
  BY <1>j DEF Promises, DraftsNew
<1>i. Fits(run[j])
  BY <1>j DEF Promises, TodoNew, DayOver, RunState, Fits
<1>. HIDE DEF j
<1>1. CASE StartIntraday
  <2>. DEFINE r == [run[j] EXCEPT !.pc = "sweep", !.nextDay = recapRan]
  <2>1. r.pc = "sweep" /\ r.drafts = run[j].drafts /\ (r.nextDay <=> recapRan)
    BY <1>j DEF RunState
  <2>2. /\ run' = [run EXCEPT ![j] = r] /\ run[j].pc = "idle"
        /\ StoriesGoOn /\ UNCHANGED <<row, logged, promised, recapRan>>
    BY <1>1, <1>j DEF StartIntraday, StoriesGoOn
  <2>. HIDE DEF r
  <2>3. Fits(r)
    BY <2>1 DEF Fits, Fired
  <2>. QED  BY <2>1, <2>2, <2>3, <1>d, <1>j, PromisesMove
<1>2. CASE SweepRead
  <2>. DEFINE r == [run[j] EXCEPT !.pc = "giveup",
                                  !.stuck = {s \in old : story[s] = "pending"}]
  <2>1. r.pc = "giveup" /\ r.drafts = run[j].drafts /\ r.nextDay = run[j].nextDay
    BY <1>j DEF RunState
  <2>2. /\ run' = [run EXCEPT ![j] = r] /\ run[j].pc = "sweep"
        /\ StoriesGoOn /\ UNCHANGED <<row, logged, promised, recapRan>>
    BY <1>2, <1>j DEF SweepRead, StoriesGoOn
  <2>. HIDE DEF r
  <2>3. Fits(r)
    BY <1>i, <2>1, <2>2 DEF Fits, Fired
  <2>. QED  BY <2>1, <2>2, <2>3, <1>d, <1>j, PromisesMove
<1>3. CASE SweepGiveUp
  <2>. DEFINE r == [run[j] EXCEPT !.pc = "resend", !.stuck = {},
                                  !.tellq = {s \in Stories : WaitingFor(s) # {}}]
  <2>1. r.pc = "resend" /\ r.drafts = run[j].drafts /\ r.nextDay = run[j].nextDay
    BY <1>j DEF RunState
  <2>2. /\ run' = [run EXCEPT ![j] = r] /\ run[j].pc = "giveup"
        /\ UNCHANGED <<row, logged, promised, recapRan>>
    BY <1>3, <1>j DEF SweepGiveUp
  <2>3. StoriesGoOn
    BY <1>3 DEF SweepGiveUp, StoriesGoOn, Finished
  <2>. HIDE DEF r
  <2>4. Fits(r)
    BY <1>i, <2>1, <2>2 DEF Fits, Fired
  <2>. QED  BY <2>1, <2>2, <2>3, <2>4, <1>d, <1>j, PromisesMove
<1>o. run[j].pc # "idle" => run["recap"].pc = "idle"
  BY <1>j DEF OneAtATime
<1>4. ASSUME NEW p \in Pairs, SendAlert(p) PROVE Promises'
  <2>. DEFINE D == IF p[1] \in run[j].pending THEN {p} ELSE {}
  <2>. DEFINE r == [run[j] EXCEPT !.todo = run[j].todo \ {p},
                                  !.batch = run[j].batch \cup {p},
                                  !.drafts = run[j].drafts \cup D]
  <2>1. /\ r.pc = run[j].pc /\ r.nextDay = run[j].nextDay /\ r.pending = run[j].pending
        /\ r.todo = run[j].todo \ {p} /\ r.batch = run[j].batch \cup {p}
        /\ r.drafts = run[j].drafts \cup D
    BY <1>j DEF RunState
  <2>2. /\ run' = [run EXCEPT ![j] = r] /\ run[j].pc = "send" /\ p \in run[j].todo
        /\ promised' = promised \cup D
        /\ UNCHANGED <<story, row, logged, recapRan>>
    BY <1>4, <1>j DEF SendAlert
  <2>. HIDE DEF r
  <2>3. run'[j] = r /\ run'["recap"] = run["recap"]
    BY <2>2, <1>j, RunAt
  <2>4. D \subseteq {p} /\ (D # {} => row[p] = "none")
    <3>1. CASE p[1] \in run[j].pending
      <4>. QED  BY <1>i, <2>2, <3>1 DEF Fits
    <3>2. CASE p[1] \notin run[j].pending
      BY <3>2
    <3>. QED  BY <3>1, <3>2
  <2>. HIDE DEF D
  <2>5. DayOver' /\ RowsLogged' /\ RowHasStory'
    BY <1>j, <2>1, <2>2, <2>3 DEF Promises, DayOver, RowsLogged, RowHasStory
  <2>6. TodoNew'
    BY <1>j, <1>i, <2>1, <2>2, <2>3 DEF TodoNew, Fits
  <2>7. DraftsNew'
    BY <1>j, <2>1, <2>2, <2>3, <2>4 DEF Promises, DraftsNew
  <2>8. Recorded'
    <3>1. ASSUME NEW q \in promised', q \in D PROVE q \in run'["intraday"].drafts
      BY <1>j, <2>1, <2>3, <3>1
    <3>2. ASSUME NEW q \in promised', q \notin D
          PROVE  row'[q] # "none" \/ \E k \in Jobs : q \in run'[k].drafts
      <4>1. row[q] # "none" \/ \E k \in Jobs : q \in run[k].drafts
        BY <2>2, <3>2 DEF Promises, Recorded
      <4>2. \A k \in Jobs : run[k].drafts \subseteq run'[k].drafts
        BY <1>j, <2>1, <2>3 DEF Jobs
      <4>. QED  BY <4>1, <4>2, <2>2
    <3>. QED  BY <1>j, <3>1, <3>2 DEF Recorded
  <2>. QED  BY <2>5, <2>6, <2>7, <2>8 DEF Promises
<1>5. CASE CommitAlerts
  <2>. DEFINE r == [IdleRun EXCEPT !.pc = "post", !.tellq = run[j].plan]
  <2>1. r.pc = "post" /\ r.drafts = {}
    BY DEF IdleRun
  <2>2. ~Clash("intraday")
    BY DEF Promises, DraftsNew, Clash
  <2>3. /\ run' = [run EXCEPT ![j] = r] /\ run[j].pc = "send"
        /\ row' = [p \in Pairs |-> IF p \in run[j].drafts THEN "waiting" ELSE row[p]]
        /\ logged' = [logged EXCEPT ![j] = @ \cup run[j].batch]
        /\ UNCHANGED <<story, promised, recapRan>>
    BY <1>5, <1>j, <2>2 DEF CommitAlerts
  <2>4. run'[j] = r /\ run'["recap"] = run["recap"]
    BY <2>3, <1>j, RunAt
  <2>5. logged'["intraday"] = logged["intraday"] \cup run[j].batch
    BY <1>j, <2>3 DEF TypeOK
  <2>6. \A p \in run[j].drafts : p \in run[j].batch
    BY <1>j DEF Promises, DraftsNew
  <2>7. run["recap"].pc = "idle" /\ run["recap"].drafts = {}
    BY <1>o, <2>3 DEF Promises, DraftsNew
  <2>. HIDE DEF r
  <2>8. DayOver'
    BY <1>j, <1>i, <2>1, <2>3, <2>4 DEF Promises, DayOver, Fits, Fired
  <2>9. RowsLogged' /\ RowHasStory'
    <3>1. \A p \in run[j].drafts : p[1] \in Created
      BY <1>j DEF HandOver, JobOK
    <3>. QED  BY <2>3, <2>5, <2>6, <3>1 DEF Promises, RowsLogged, RowHasStory, Created
  <2>10. TodoNew' /\ DraftsNew'
    BY <1>j, <2>1, <2>4, <2>7 DEF TodoNew, DraftsNew, Fired
  <2>11. Recorded'
    <3>1. \A q \in promised : row[q] # "none" \/ q \in run[j].drafts
      BY <1>j, <2>7 DEF Promises, Recorded, Jobs
    <3>. QED  BY <2>3, <3>1 DEF Recorded, TypeOK
  <2>. QED  BY <2>8, <2>9, <2>10, <2>11 DEF Promises
<1>. QED  BY <1>1, <1>2, <1>3, <1>4, <1>5 DEF IntradayStep

LEMMA RecapPromises ==
  ASSUME TypeOK, OneAtATime, ~SlowTick, HandOver, Promises, RecapStep \/ StartRecap
  PROVE  Promises'
<1>. DEFINE j == "recap"
<1>j. /\ j \in Jobs /\ j = "recap" /\ "intraday" \in Jobs /\ j # "intraday"
      /\ run[j] \in RunState
  BY JobNames, RunType
<1>. HIDE DEF j
<1>o. run["intraday"].pc = "idle" /\ run["intraday"].drafts = {}
  <2>1. RecapStep => run[j].pc # "idle"
    BY <1>j DEF RecapStep, SendRecap, CheckRecap, CommitRecap, RecapSent
  <2>2. run["intraday"].pc = "idle"
    BY <1>j, <2>1 DEF StartRecap, OneAtATime
  <2>. QED  BY <2>2 DEF Promises, DraftsNew
\* What is left to show of a step of the recap.
<1>k. ASSUME NEW r, run' = [run EXCEPT ![j] = r], recapRan',
             r.drafts # {} => r.pc \in {"check", "commit"},
             (r.pc = "commit" => \A p \in r.drafts : row'[p] = "none"),
             RowHasStory',
             \A p \in promised' : row'[p] # "none" \/ p \in r.drafts
      PROVE  Promises'
  <2>1. run'[j] = r /\ run'["intraday"] = run["intraday"]
    BY ZenonT(30), <1>j, <1>k, RunAt
  <2>2. DayOver' /\ RowsLogged' /\ TodoNew'
    BY <1>o, <1>k, <2>1 DEF DayOver, RowsLogged, TodoNew, Fired
  <2>3. DraftsNew'
    BY <1>o, <1>j, <1>k, <2>1 DEF DraftsNew
  <2>4. Recorded'
    BY <1>j, <1>k, <2>1 DEF Recorded
  <2>. QED  BY <1>k, <2>2, <2>3, <2>4 DEF Promises
<1>h. /\ story' = story
      /\ row' = row => RowHasStory'
  BY DEF RecapStep, SendRecap, CheckRecap, CommitRecap, RecapSent, StartRecap,
         Promises, RowHasStory
<1>p. \A p \in promised : row[p] # "none" \/ p \in run[j].drafts
  BY <1>o, <1>j DEF Promises, Recorded, Jobs
<1>d. /\ run[j].drafts # {} => run[j].pc \in {"check", "commit"}
      /\ run[j].pc = "commit" => \A p \in run[j].drafts : row[p] = "none"
      /\ run[j].pc # "idle" => recapRan
  BY <1>j DEF Promises, DraftsNew, DayOver
<1>1. CASE StartRecap
  <2>. DEFINE r == [run[j] EXCEPT !.pc = "detect"]
  <2>1. r.pc = "detect" /\ r.drafts = run[j].drafts
    BY <1>j DEF RunState
  <2>2. /\ run' = [run EXCEPT ![j] = r] /\ recapRan' /\ ~recapRan
        /\ UNCHANGED <<row, promised>>
    BY <1>1, <1>j DEF StartRecap
  <2>3. r.drafts = {}
    BY <1>d, <2>1, <2>2
  <2>. HIDE DEF r
  <2>. QED  BY <1>h, <1>k, <1>p, <2>1, <2>2, <2>3
<1>2. ASSUME NEW p \in Pairs, SendRecap(p) PROVE Promises'
  <2>. DEFINE D == IF PendingFor(p) THEN {p} ELSE {}
  <2>. DEFINE r == [run[j] EXCEPT !.todo = run[j].todo \ {p}, !.batch = {p},
                                  !.drafts = D, !.pc = "check"]
  <2>1. r.pc = "check" /\ r.drafts = D
    BY <1>j DEF RunState
  <2>2. /\ run' = [run EXCEPT ![j] = r] /\ run[j].pc = "send"
        /\ promised' = promised \cup D /\ UNCHANGED <<row, recapRan>>
    BY <1>2, <1>j DEF SendRecap
  <2>3. run[j].drafts = {} /\ recapRan'
    BY <1>d, <2>2
  <2>. HIDE DEF r, D
  <2>. QED  BY <1>h, <1>k, <1>p, <2>1, <2>2, <2>3
<1>3. CASE CheckRecap
  <2>. DEFINE r == [run[j] EXCEPT !.drafts = {p \in run[j].drafts : row[p] = "none"},
                                  !.pc = "commit"]
  <2>1. r.pc = "commit" /\ r.drafts = {p \in run[j].drafts : row[p] = "none"}
    BY <1>j DEF RunState
  <2>2. /\ run' = [run EXCEPT ![j] = r] /\ run[j].pc = "check"
        /\ UNCHANGED <<row, promised, recapRan>>
    BY <1>3, <1>j DEF CheckRecap
  <2>. HIDE DEF r
  <2>. QED  BY <1>d, <1>h, <1>k, <1>p, <2>1, <2>2
<1>4. CASE CommitRecap
  <2>. DEFINE r == [run[j] EXCEPT !.pc = "send", !.batch = {}, !.pending = {},
                                  !.drafts = {}]
  <2>1. r.pc = "send" /\ r.drafts = {}
    BY <1>j DEF RunState
  <2>2. ~Clash("recap")
    BY <1>4 DEF Promises, DraftsNew, Clash, CommitRecap
  <2>3. /\ run' = [run EXCEPT ![j] = r] /\ run[j].pc = "commit"
        /\ row' = [p \in Pairs |-> IF p \in run[j].drafts THEN "waiting" ELSE row[p]]
        /\ UNCHANGED <<promised, recapRan>>
    BY <1>4, <1>j, <2>2 DEF CommitRecap
  <2>4. \A p \in promised : row'[p] # "none"
    BY <1>p, <2>3 DEF TypeOK
  <2>5. RowHasStory'
    <3>1. \A p \in run[j].drafts : p[1] \in Created
      BY <1>j DEF HandOver, JobOK
    <3>. QED  BY <1>h, <2>3, <3>1 DEF Promises, RowHasStory, Created
  <2>. HIDE DEF r
  <2>. QED  BY <1>d, <1>k, <2>1, <2>3, <2>4, <2>5
<1>5. CASE RecapSent
  <2>. DEFINE r == [IdleRun EXCEPT !.pc = "post", !.tellq = run[j].plan]
  <2>1. r.pc = "post" /\ r.drafts = {}
    BY DEF IdleRun
  <2>2. /\ run' = [run EXCEPT ![j] = r] /\ run[j].pc = "send"
        /\ UNCHANGED <<row, promised, recapRan>>
    BY <1>5, <1>j DEF RecapSent
  <2>3. run[j].drafts = {} /\ recapRan'
    BY <1>d, <2>2
  <2>. HIDE DEF r
  <2>. QED  BY <1>h, <1>k, <1>p, <2>1, <2>2, <2>3
<1>. QED  BY <1>1, <1>2, <1>3, <1>4, <1>5 DEF RecapStep

LEMMA PromiseStep ==
  ASSUME ~SlowTick, TypeOK, OneAtATime, HandOverInv, PromiseInv, [Next]_vars
  PROVE  PromiseInv'
<1> SUFFICES ASSUME faults' = 0 PROVE Promises'
  BY DEF PromiseInv
<1>1. Promises /\ HandOver /\ ~FaultStep
  BY FaultFree DEF PromiseInv, HandOverInv
<1>2. ASSUME NEW a \in Actors, PassStep(a) PROVE Promises'
  <2>1. UNCHANGED <<story, logged, promised, run, recapRan>>
    BY <1>2 DEF PassStep, Abandon, Claim, MailFollowup
  <2>2. RowsStay
    BY <1>2 DEF PassStep, Abandon, Claim, MailFollowup, RowsStay, TypeOK
  <2>. QED  BY <1>1, <2>1, <2>2, PromisesKept DEF StoriesGoOn
<1>3. ASSUME NEW s \in Stories, WorkerStep(s) \/ GrowOld(s) PROVE Promises'
  <2>1. UNCHANGED <<row, logged, promised, run, recapRan>>
    BY <1>3 DEF WorkerStep, StoreStory, WorkerTell, WorkerDone, GrowOld
  <2>2. StoriesGoOn
    BY <1>3 DEF WorkerStep, StoreStory, WorkerTell, WorkerDone, GrowOld, StoriesGoOn,
           Finished, TypeOK
  <2>. QED  BY <1>1, <2>1, <2>2, PromisesKept DEF RowsStay
<1>4. CASE UNCHANGED vars
  BY <1>1, <1>4, PromisesKept DEF vars, StoriesGoOn, RowsStay
<1>. QED
  BY <1>1, <1>2, <1>3, <1>4, PlanningPromises, IntradayPromises, RecapPromises DEF Next

\* While no intraday run lasts into the recap, and nothing fails, every family
\* told "we're still looking" has its follow-up recorded, or the job that told
\* it holds one to commit.
THEOREM PromisesRecorded == ASSUME ~SlowTick PROVE Spec => []PromiseRecorded
<1>1. Init => OneAtATime /\ GenInv
  BY DEF Init, OneAtATime, GenInv, NotBegun, SubmitsOwn, OneSubmitter, OneCurrent, Submitting,
         IdleRun
<1>2. Init => HandOverInv
  BY DEF Init, HandOverInv, HandOver, WaitersCovered, PendingIsInHand, ThreadOK, JobOK,
         IdleRun, NoPass, Actors
<1>3. Init => PromiseInv
  BY DEF Init, PromiseInv, Promises, DayOver, TodoNew, RowHasStory, RowsLogged, DraftsNew,
         Recorded, IdleRun, Jobs, Fired
<1>4. TypeOK /\ TypeOK' /\ OneAtATime /\ GenInv /\ HandOverInv /\ PromiseInv /\ [Next]_vars
        => OneAtATime' /\ GenInv' /\ HandOverInv' /\ PromiseInv'
  BY OneAtATimeStep, GenStep, HandOverStep, PromiseStep
<1>5. PromiseInv => PromiseRecorded
  BY DEF PromiseInv, Promises, Recorded, PromiseRecorded
<1>. QED  BY <1>1, <1>2, <1>3, <1>4, <1>5, TypeCorrect, PTL DEF Spec

-----------------------------------------------------------------------------
(* Stories implements the contract of the follow-up table: every step moves  *)
(* the debts as the contract allows, or leaves them as they are.            *)

Held(p) == \E a \in Actors : p \in pass[a].mailing

\* A row has one of four states.
LEMMA RowStates == ASSUME TypeOK, NEW p \in Pairs
                   PROVE  row[p] \in {"none", "waiting", "sent", "abandoned"}
BY DEF TypeOK

\* The mapping, case by case.
LEMMA DebtValue ==
  ASSUME NEW p \in Pairs
  PROVE  /\ row[p] = "none" => DebtOf(p) = "none"
         /\ row[p] = "waiting" => DebtOf(p) = "owed"
         /\ row[p] = "abandoned" => DebtOf(p) = "dropped"
         /\ row[p] = "sent" /\ mailed[p] > 0 => DebtOf(p) = "told"
         /\ row[p] = "sent" /\ mailed[p] = 0 /\ Held(p) => DebtOf(p) = "taken"
         /\ row[p] = "sent" /\ mailed[p] = 0 /\ ~Held(p) => DebtOf(p) = "lost"
BY DEF DebtOf, Held

Debt == [p \in Pairs |-> DebtOf(p)]

\* Debts of D go from x to y; the others stay.
LEMMA ContractMove ==
  ASSUME NEW D \in SUBSET Pairs, NEW x, NEW y,
         \A p \in D : DebtOf(p) = x /\ DebtOf(p)' = y,
         \A p \in Pairs : p \notin D => DebtOf(p)' = DebtOf(p)
  PROVE  Contract!Move(D, x, y)
<1>1. \A p \in D : [q \in Pairs |-> DebtOf(q)][p] = x
  OBVIOUS
<1>2. [p \in Pairs |-> DebtOf(p)]' =
        [p \in Pairs |-> IF p \in D THEN y ELSE [q \in Pairs |-> DebtOf(q)][p]]
  OBVIOUS
<1>. QED  BY <1>1, <1>2 DEF Contract!Move

\* A step that leaves rows, emails sent and emails held as they are.
LEMMA DebtsStay ==
  ASSUME \A p \in Pairs : /\ row'[p] = row[p] /\ mailed'[p] = mailed[p]
                          /\ Held(p)' <=> Held(p)
  PROVE  UNCHANGED [p \in Pairs |-> DebtOf(p)]
<1>1. ASSUME NEW p \in Pairs PROVE DebtOf(p)' = DebtOf(p)
  BY DEF DebtOf, Held
<1>. QED  BY <1>1

Kept == Contract!ContractNext \/ UNCHANGED [p \in Pairs |-> DebtOf(p)]

\* A commit of follow-up rows is a move to "owed".
LEMMA CommitOwes ==
  ASSUME TypeOK, NEW D \in SUBSET Pairs, \A p \in D : row[p] = "none",
         row' = [p \in Pairs |-> IF p \in D THEN "waiting" ELSE row[p]],
         UNCHANGED <<mailed, pass>>
  PROVE  Kept
<1>1. \A p \in D : DebtOf(p) = "none" /\ DebtOf(p)' = "owed"
  <2>1. ASSUME NEW p \in D PROVE DebtOf(p) = "none" /\ DebtOf(p)' = "owed"
    BY DEF DebtOf
  <2>. QED  BY <2>1
<1>2. \A p \in Pairs : p \notin D => DebtOf(p)' = DebtOf(p)
  <2>1. ASSUME NEW p \in Pairs, p \notin D PROVE DebtOf(p)' = DebtOf(p)
    <3>1. row'[p] = row[p]
      BY <2>1
    <3>. QED  BY <3>1 DEF DebtOf
  <2>. QED  BY <2>1
<1>3. Contract!Owe(D)
  BY <1>1, <1>2, ContractMove DEF Contract!Owe
<1>. QED  BY <1>3 DEF Kept, Contract!ContractNext

\* Threads that die take what they hold with them.
LEMMA DeathLoses ==
  ASSUME TypeOK, ClaimInv, UNCHANGED <<row, mailed>>,
         \A a \in Actors : pass'[a].mailing \in {pass[a].mailing, {}}
  PROVE  Kept
<1>. DEFINE D == {p \in Pairs : Held(p) /\ ~Held(p)'}
<1>1. ASSUME NEW p \in D PROVE DebtOf(p) = "taken" /\ DebtOf(p)' = "lost"
  <2>1. row[p] = "sent" /\ mailed[p] = 0
    BY DEF Held, ClaimInv, HeldIsSent
  <2>. QED  BY <2>1 DEF Held, DebtOf
<1>2. ASSUME NEW p \in Pairs, p \notin D PROVE DebtOf(p)' = DebtOf(p)
  <2>1. Held(p)' => Held(p)
    BY DEF Held
  <2>2. Held(p)' <=> Held(p)
    BY <1>2, <2>1
  <2>. QED  BY <2>2 DEF DebtOf, Held
<1>. HIDE DEF D
<1>3. D \in SUBSET Pairs
  BY DEF D
<1>4. Contract!Lose(D)
  BY <1>1, <1>2, <1>3, ContractMove DEF Contract!Lose
<1>. QED  BY <1>3, <1>4 DEF Kept, Contract!ContractNext

\* A send loop abandons, claims and emails.
LEMMA PassKeeps ==
  ASSUME TypeOK, ClaimInv, ClaimInv', NEW a \in Actors, PassStep(a)
  PROVE  Kept
<1>1. PICK p \in Pairs : Abandon(a, p) \/ Claim(a, p) \/ MailFollowup(a, p)
  BY DEF PassStep
<1>2. CASE Abandon(a, p)
  <2>1. /\ mailed' = mailed
        /\ \A b \in Actors : pass'[b].mailing = pass[b].mailing
        /\ \A q \in Pairs : row'[q] = IF q = p /\ row[p] = "waiting" THEN "abandoned" ELSE row[q]
    BY <1>2, PassType DEF Abandon, PassState, TypeOK
  <2>2. \A q \in Pairs : Held(q)' <=> Held(q)
    BY <2>1 DEF Held
  <2>3. CASE row[p] = "waiting"
    <3>1. DebtOf(p) = "owed" /\ DebtOf(p)' = "dropped"
      BY <2>1, <2>3 DEF DebtOf
    <3>2. ASSUME NEW q \in Pairs, q \notin {p} PROVE DebtOf(q)' = DebtOf(q)
      BY <2>1, <2>2, <3>2 DEF DebtOf, Held
    <3>3. Contract!Drop(p)
      BY <3>1, <3>2, ContractMove DEF Contract!Drop
    <3>. QED  BY <3>3 DEF Kept, Contract!ContractNext
  <2>4. CASE row[p] # "waiting"
    BY <2>1, <2>2, <2>4, DebtsStay DEF Kept
  <2>. QED  BY <2>3, <2>4
<1>3. CASE Claim(a, p)
  <2>1. mailed' = mailed /\ pass[a].mailing = {}
    BY <1>3 DEF Claim
  <2>2. CASE row[p] = "waiting"
    <3>1. /\ \A b \in Actors : pass'[b].mailing = IF b = a THEN {p} ELSE pass[b].mailing
          /\ \A q \in Pairs : row'[q] = IF q = p THEN "sent" ELSE row[q]
      BY <1>3, <2>2, PassType DEF Claim, PassState, TypeOK
    <3>2. DebtOf(p) = "owed" /\ DebtOf(p)' = "taken"
      <4>1. mailed[p] = 0
        BY <2>2 DEF ClaimInv, OnceMailed
      <4>2. row'[p] = "sent" /\ mailed'[p] = 0 /\ p \in pass'[a].mailing
        BY <2>1, <3>1, <4>1
      <4>. QED  BY <2>2, <4>2 DEF DebtOf
    <3>3. ASSUME NEW q \in Pairs, q \notin {p} PROVE DebtOf(q)' = DebtOf(q)
      <4>1. Held(q)' <=> Held(q)
        BY <2>1, <3>1, <3>3 DEF Held
      <4>2. row'[q] = row[q] /\ mailed'[q] = mailed[q]
        BY <2>1, <3>1, <3>3
      <4>. QED  BY <4>1, <4>2 DEF DebtOf, Held
    <3>4. Contract!Take(p)
      BY <3>2, <3>3, ContractMove DEF Contract!Take
    <3>. QED  BY <3>4 DEF Kept, Contract!ContractNext
  <2>3. CASE row[p] # "waiting"
    <3>1. \A b \in Actors : pass'[b].mailing = pass[b].mailing
      BY <1>3, <2>1, <2>3, PassType DEF Claim, PassState, TypeOK
    <3>2. row' = row
      BY <1>3, <2>3 DEF Claim, TypeOK
    <3>. QED  BY <2>1, <3>1, <3>2, DebtsStay DEF Kept, Held
  <2>. QED  BY <2>2, <2>3
<1>4. CASE MailFollowup(a, p)
  <2>1. /\ row' = row /\ p \in pass[a].mailing
        /\ \A b \in Actors : pass'[b].mailing = IF b = a THEN {} ELSE pass[b].mailing
        /\ \A q \in Pairs : mailed'[q] = IF q = p THEN mailed[p] + 1 ELSE mailed[q]
    BY <1>4, PassType DEF MailFollowup, PassState, TypeOK
  <2>2. row[p] = "sent" /\ mailed[p] = 0 /\ mailed'[p] = 1
    BY <2>1 DEF ClaimInv, HeldIsSent
  <2>3. DebtOf(p) = "taken" /\ DebtOf(p)' = "told"
    BY <2>1, <2>2 DEF DebtOf
  <2>4. pass[a].mailing \subseteq {p}
    BY <2>1 DEF ClaimInv, OneInHand
  <2>5. ASSUME NEW q \in Pairs, q \notin {p} PROVE DebtOf(q)' = DebtOf(q)
    <3>1. Held(q)' <=> Held(q)
      BY <2>1, <2>4, <2>5 DEF Held
    <3>2. row'[q] = row[q] /\ mailed'[q] = mailed[q]
      BY <2>1, <2>5
    <3>. QED  BY <3>1, <3>2 DEF DebtOf, Held
  <2>6. Contract!Tell(p)
    BY <2>3, <2>5, ContractMove DEF Contract!Tell
  <2>. QED  BY <2>6 DEF Kept, Contract!ContractNext
<1>. QED  BY <1>1, <1>2, <1>3, <1>4

LEMMA ContractStep ==
  ASSUME TypeOK, TypeOK', GenInv, ThreadRests, ClaimInv, ClaimInv', [Next]_vars
  PROVE  Kept
<1>j. \A k \in Jobs, t \in Stories : k # t
  BY StoriesAssumption
\* A step that touches no row, no email and no send loop.
<1>k. ASSUME UNCHANGED <<row, mailed, pass>> PROVE Kept
  BY <1>k, DebtsStay DEF Kept, Held
<1>1. ASSUME NEW a \in Actors, PassStep(a) PROVE Kept
  BY <1>1, PassKeeps
\* A send loop begins when the one before it is over.
<1>b. ASSUME NEW a \in Actors, NEW s \in Stories, BeginPass(a, s), PassOver(a),
             UNCHANGED <<row, mailed>>
      PROVE  Kept
  <2>1. \A b \in Actors : pass'[b].mailing = pass[b].mailing
    BY <1>b DEF BeginPass, PassOver, TypeOK
  <2>. QED  BY <1>b, <2>1, DebtsStay DEF Kept, Held
<1>2. ASSUME NEW s \in Stories, WorkerStep(s) \/ GrowOld(s) PROVE Kept
  <2>1. CASE WorkerTell(s)
    <3>1. PassOver(s) /\ s \in Actors
      BY <2>1 DEF WorkerTell, ThreadRests, Actors
    <3>. QED  BY <2>1, <3>1, <1>b DEF WorkerTell
  <2>. QED  BY <1>2, <1>k, <2>1 DEF WorkerStep, StoreStory, WorkerDone, GrowOld
<1>3. ASSUME NEW j \in Jobs, TellStep(j) PROVE Kept
  <2>1. ASSUME NEW s \in Stories, JobTell(j, s) PROVE Kept
    BY <2>1, <1>b DEF JobTell, Actors
  <2>2. CASE JobTold(j)
    BY <2>2, <1>k DEF JobTold
  <2>. QED  BY <1>3, <2>1, <2>2 DEF TellStep
<1>4. ASSUME NEW j \in Jobs, PlanStep(j) PROVE Kept
  BY <1>4, <1>k DEF PlanStep, Detect, PlanExisting, PlanNew, InsertStory, Submit, Planned,
                    WaitOver
<1>5. CASE IntradayStep
  <2>1. CASE CommitAlerts /\ ~Clash("intraday")
    <3>. DEFINE D == run["intraday"].drafts
    <3>1. D \in SUBSET Pairs /\ \A p \in D : row[p] = "none"
      BY <2>1, RunType, JobNames DEF RunState, Clash
    <3>2. /\ row' = [p \in Pairs |-> IF p \in D THEN "waiting" ELSE row[p]]
          /\ UNCHANGED <<mailed, pass>>
      BY <2>1 DEF CommitAlerts
    <3>. HIDE DEF D
    <3>. QED  BY <3>1, <3>2, CommitOwes
  <2>. QED  BY <1>5, <1>k, <2>1 DEF IntradayStep, SweepRead, SweepGiveUp, SendAlert, CommitAlerts
<1>6. CASE RecapStep
  <2>1. CASE CommitRecap /\ ~Clash("recap")
    <3>. DEFINE D == run["recap"].drafts
    <3>1. D \in SUBSET Pairs /\ \A p \in D : row[p] = "none"
      BY <2>1, RunType, JobNames DEF RunState, Clash
    <3>2. /\ row' = [p \in Pairs |-> IF p \in D THEN "waiting" ELSE row[p]]
          /\ UNCHANGED <<mailed, pass>>
      BY <2>1 DEF CommitRecap
    <3>. HIDE DEF D
    <3>. QED  BY <3>1, <3>2, CommitOwes
  <2>. QED
    BY <1>6, <1>k, <2>1 DEF RecapStep, SendRecap, CheckRecap, CommitRecap, RecapSent
<1>7. CASE StartIntraday \/ StartRecap \/ UNCHANGED vars
  BY <1>7, <1>k DEF StartIntraday, StartRecap, vars
<1>8. CASE FaultStep
  <2>1. UNCHANGED <<row, mailed>>
    BY <1>8 DEF FaultStep, StoriesUnavailable, RunRaises, WorkerRaises, Restart
  <2>2. \A a \in Actors : pass'[a] \in {pass[a], NoPass}
    <3>1. ASSUME NEW j \in Jobs, StoriesUnavailable(j) \/ RunRaises(j)
          PROVE  \A a \in Actors : pass'[a] \in {pass[a], NoPass}
      BY <3>1 DEF StoriesUnavailable, RunRaises, TypeOK
    <3>2. ASSUME NEW s \in Stories, WorkerRaises(s)
          PROVE  \A a \in Actors : pass'[a] \in {pass[a], NoPass}
      BY <3>2 DEF WorkerRaises, TypeOK
    <3>3. CASE Restart
      BY <3>3 DEF Restart
    <3>. QED  BY <1>8, <3>1, <3>2, <3>3 DEF FaultStep
  <2>3. \A a \in Actors : pass'[a].mailing \in {pass[a].mailing, {}}
    BY <2>2 DEF NoPass
  <2>. QED  BY <2>1, <2>3, DeathLoses
<1>. QED  BY <1>1, <1>2, <1>3, <1>4, <1>5, <1>6, <1>7, <1>8 DEF Next

\* The follow-up table keeps its contract, whatever the threads do and whatever
\* fails: a debt is recorded once, taken over by one thread, told at most once,
\* lost only with the thread that had taken it over, and never reopened.
THEOREM ContractKept == Spec => KeepsContract
<1>1. Init => GenInv /\ ThreadRests /\ ClaimInv
  BY DEF Init, GenInv, NotBegun, SubmitsOwn, OneSubmitter, OneCurrent, Submitting, IdleRun,
         ThreadRests, PassOver, NoPass, Actors, ClaimInv, OnceMailed, HeldIsSent, OneHolder,
         OneInHand
<1>2. Init => Contract!ContractInit
  <2> SUFFICES ASSUME Init PROVE [p \in Pairs |-> DebtOf(p)] = [p \in Pairs |-> "none"]
    BY DEF Contract!ContractInit
  <2>1. ASSUME NEW p \in Pairs PROVE DebtOf(p) = "none"
    BY DEF Init, DebtOf
  <2>. QED  BY <2>1
<1>3. /\ TypeOK /\ TypeOK' /\ GenInv /\ ThreadRests /\ ClaimInv
      /\ [Next]_vars
      => GenInv' /\ ThreadRests' /\ ClaimInv'
  BY GenStep, ThreadRestsStep, ClaimStep
<1>4. /\ TypeOK /\ TypeOK' /\ GenInv /\ ThreadRests /\ ClaimInv /\ ClaimInv'
      /\ [Next]_vars
      => [Contract!ContractNext]_[p \in Pairs |-> DebtOf(p)]
  BY ContractStep DEF Kept
<1>. QED
  BY <1>1, <1>2, <1>3, <1>4, TypeCorrect, PTL DEF Spec, KeepsContract, Contract!ContractSpec
=============================================================================
