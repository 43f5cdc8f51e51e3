--------------------------- MODULE PipelineProofs ---------------------------
(***************************************************************************)
(* Proofs about Pipeline for any sets of users and tickers.                 *)
(***************************************************************************)
EXTENDS Pipeline, TLAPS

LEMMA IdleBatchType == IdleBatch \in BatchState
BY DEF IdleBatch, BatchState, Stages, Nothing, Rows

LEMMA NoTaskType == NoTask \in TaskState
BY DEF NoTask, TaskState, Rows

LEMMA PairTicker == \A p \in Pairs : p[2] \in Tickers
BY DEF Pairs

LEMMA BatchType == ASSUME TypeOK PROVE batch \in BatchState /\ StageOK
BY DEF TypeOK

LEMMA TaskType == ASSUME TypeOK, NEW p \in Pairs PROVE task[p] \in TaskState
BY DEF TypeOK

\* An ended task and a stale one are tasks.
LEMMA TaskEndsType ==
  ASSUME TypeOK, NEW p \in Pairs, TaskEnds(p)
  PROVE  task' \in [Pairs -> TaskState]
BY NoTaskType DEF TaskEnds, TypeOK

LEMMA StaleType ==
  ASSUME TypeOK, NEW p \in Pairs
  PROVE  [task[p] EXCEPT !.stale = TRUE] \in TaskState
BY TaskType DEF TaskState

LEMMA StaleTasksType ==
  ASSUME TypeOK, NEW T
  PROVE  StaleTasks(T) \in [Pairs -> TaskState]
BY StaleType, TaskType DEF StaleTasks

\* Ending the run restores what StageOK asks for.
LEMMA IdleStageOK == ASSUME batch' = IdleBatch PROVE batch' \in BatchState /\ StageOK'
<1>1. IdleBatch.now = {} /\ IdleBatch.sent = {}
  BY DEF IdleBatch
<1>. QED  BY <1>1, IdleBatchType DEF StageOK

-----------------------------------------------------------------------------
\* Every variable keeps its type; a stage leaves nothing of another one behind
\* in the locals and the open transaction of the run.
THEOREM TypeCorrect == Spec => []TypeOK
<1>1. Init => TypeOK
  <2> SUFFICES ASSUME Init PROVE TypeOK
    OBVIOUS
  <2>1. batch \in BatchState /\ StageOK
    <3>1. batch = IdleBatch /\ IdleBatch.now = {} /\ IdleBatch.sent = {}
      BY DEF Init, IdleBatch
    <3>. QED  BY <3>1, IdleBatchType DEF StageOK
  <2>2. task \in [Pairs -> TaskState]
    BY NoTaskType DEF Init
  <2>3. snap \in [Tickers -> Rows] /\ trend \in [Pairs -> Rows]
    BY DEF Init, Nothing, Rows
  <2>. QED  BY <2>1, <2>2, <2>3 DEF Init, TypeOK
<1>2. TypeOK /\ [Next]_vars => TypeOK'
  <2> SUFFICES ASSUME TypeOK, [Next]_vars PROVE TypeOK'
    OBVIOUS
  <2>1. ASSUME NEW p \in Pairs, Request(p) PROVE TypeOK'
    <3>1. CASE AddWatch(p)
      <4>1. [task[p] EXCEPT !.step = "start"] \in TaskState
        BY TaskType DEF TaskState
      <4>2. task' \in [Pairs -> TaskState]
        BY <3>1, <4>1 DEF AddWatch, TypeOK
      <4>. QED  BY <3>1, <4>2 DEF AddWatch, TypeOK, StageOK
    <3>2. CASE RemoveWatch(p)
      <4>1. batch' \in BatchState /\ StageOK'
        <5>1. batch' = [batch EXCEPT !.kept = batch.kept \ {p}]
          BY <3>2 DEF RemoveWatch
        <5>2. batch' \in BatchState
          BY <5>1, BatchType DEF BatchState
        <5>3. /\ batch'.stage = batch.stage
              /\ batch'.now = batch.now
              /\ batch'.sent = batch.sent
          BY <5>1, BatchType DEF BatchState
        <5>4. batch = IdleBatch => batch' = batch
          <6>1. IdleBatch.kept = {}
            BY DEF IdleBatch
          <6>2. ASSUME batch = IdleBatch PROVE batch' = [IdleBatch EXCEPT !.kept = {}]
            BY <5>1, <6>1, <6>2
          <6>. QED  BY <6>2 DEF IdleBatch
        <5>. QED  BY <5>2, <5>3, <5>4, BatchType DEF StageOK
      <4>. QED  BY <3>2, <4>1 DEF RemoveWatch, TypeOK
    <3>3. CASE UpsertRule(p)
      BY <3>3 DEF UpsertRule, TypeOK, StageOK
    <3>4. CASE DeleteRule(p)
      BY <3>4 DEF DeleteRule, TypeOK, StageOK
    <3>. QED  BY <2>1, <3>1, <3>2, <3>3, <3>4 DEF Request
  <2>2. ASSUME NEW p \in Pairs, TaskStep(p) PROVE TypeOK'
    <3>1. CASE TaskCheck(p)
      <4>1. [task[p] EXCEPT !.step = "fetch"] \in TaskState
        BY TaskType DEF TaskState
      <4>2. task' \in [Pairs -> TaskState]
        BY <3>1, <4>1, TaskEndsType DEF TaskCheck, TypeOK
      <4>. QED  BY <3>1, <4>2 DEF TaskCheck, TypeOK, StageOK
    <3>2. CASE TaskFetch(p)
      <4>1. \A q \in Quotes : [step |-> "replace", quote |-> q, stale |-> FALSE] \in TaskState
        BY DEF TaskState, Rows
      <4>2. task' \in [Pairs -> TaskState]
        BY <3>2, <4>1, TaskEndsType DEF TaskFetch, TypeOK
      <4>. QED  BY <3>2, <4>2 DEF TaskFetch, TypeOK, StageOK
    <3>3. CASE TaskReplace(p)
      <4>1. [task[p] EXCEPT !.step = "trend", !.stale = FALSE] \in TaskState
        BY TaskType DEF TaskState
      <4>2. task' \in [Pairs -> TaskState]
        BY <3>3, <4>1, TaskEndsType DEF TaskReplace, TypeOK
      <4>. QED  BY <3>3, <4>2 DEF TaskReplace, TypeOK, StageOK
    <3>4. CASE TaskCommit(p)
      <4>1. task[p].quote \in Rows
        BY TaskType DEF TaskState
      <4>2. snap' \in [Tickers -> Rows] /\ trend' \in [Pairs -> Rows]
        BY <3>4, <4>1 DEF TaskCommit, TypeOK
      <4>3. task' \in [Pairs -> TaskState]
        BY <3>4, StaleTasksType, NoTaskType DEF TaskCommit
      <4>4. batch' \in BatchState /\ StageOK'
        <5>1. batch' = [batch EXCEPT !.rows = batch.rows \ {p},
                                     !.stale = batch.stale \/ p[2] \in batch.now]
          BY <3>4 DEF TaskCommit
        <5>2. (batch.stale \/ p[2] \in batch.now) \in BOOLEAN
          OBVIOUS
        <5>3. batch' \in BatchState
          BY <5>1, <5>2, BatchType DEF BatchState
        <5>4. /\ batch'.stage = batch.stage
              /\ batch'.now = batch.now
              /\ batch'.sent = batch.sent
          BY <5>1, BatchType DEF BatchState
        <5>5. batch = IdleBatch => batch' = batch
          <6>1. IdleBatch.rows = {} /\ IdleBatch.now = {} /\ IdleBatch.stale = FALSE
            BY DEF IdleBatch
          <6>2. ASSUME batch = IdleBatch
                PROVE  batch' = [IdleBatch EXCEPT !.rows = {}, !.stale = FALSE]
            BY <5>1, <6>1, <6>2
          <6>. QED  BY <6>2 DEF IdleBatch
        <5>. QED  BY <5>3, <5>4, <5>5, BatchType DEF StageOK
      <4>. QED  BY <3>4, <4>2, <4>3, <4>4 DEF TaskCommit, TypeOK
    <3>5. CASE TaskClash(p)
      BY <3>5, TaskEndsType DEF TaskClash, TypeOK, StageOK
    <3>. QED  BY <2>2, <3>1, <3>2, <3>3, <3>4, <3>5 DEF TaskStep
  <2>3. ASSUME NEW p \in Pairs, WindowOver(p) PROVE TypeOK'
    BY <2>3 DEF WindowOver, TypeOK, StageOK
  <2>4. CASE BatchStep
    <3>1. batch' \in BatchState /\ StageOK'
      <4>1. CASE StartPipeline
        <5>1. batch' = [IdleBatch EXCEPT !.stage = "ingest",
                                         !.todo = {p[2] : p \in watch}, !.kept = watch]
          BY <4>1 DEF StartPipeline
        <5>2. {p[2] : p \in watch} \subseteq Tickers /\ watch \subseteq Pairs
          BY PairTicker DEF TypeOK
        <5>3. batch' \in BatchState
          BY <5>1, <5>2, IdleBatchType DEF BatchState, Stages
        <5>4. batch'.stage = "ingest" /\ batch'.now = {} /\ batch'.sent = {}
          BY <5>1 DEF IdleBatch
        <5>. QED  BY <5>3, <5>4 DEF StageOK
      <4>2. ASSUME NEW t \in Tickers, IngestRead(t) PROVE batch' \in BatchState /\ StageOK'
        <5>1. CASE batch' = [batch EXCEPT !.todo = batch.todo \ {t}]
          BY <4>2, <5>1, BatchType DEF IngestRead, BatchState, Stages, StageOK
        <5>2. CASE batch' = [batch EXCEPT !.todo = batch.todo \ {t}, !.stage = "replace",
                                          !.now = {t}, !.stale = FALSE]
          <6>1. batch' \in BatchState
            BY <5>2, BatchType DEF BatchState, Stages
          <6>2. /\ batch'.stage = "replace"
                /\ batch'.sent = {}
            BY <4>2, <5>2, BatchType DEF IngestRead, BatchState, StageOK
          <6>. QED  BY <6>1, <6>2 DEF StageOK
        <5>. QED  BY <4>2, <5>1, <5>2 DEF IngestRead
      <4>3. ASSUME NEW t \in Tickers, IngestReplace(t) PROVE batch' \in BatchState /\ StageOK'
        <5>1. PICK q \in Quotes : batch' = [batch EXCEPT !.stage = "ingest", !.now = {},
                                                 !.stale = FALSE,
                                                 !.new = [batch.new EXCEPT ![t] = q]]
          BY <4>3 DEF IngestReplace
        <5>2. [batch.new EXCEPT ![t] = q] \in [Tickers -> Rows]
          BY BatchType DEF BatchState, Rows
        <5>. QED  BY <4>3, <5>1, <5>2, BatchType DEF IngestReplace, BatchState, Stages, StageOK
      <4>4. CASE IngestClash \/ ComputeClash \/ NotifyCommit
        BY <4>4, IdleStageOK DEF IngestClash, ComputeClash, NotifyCommit
      <4>5. CASE IngestCommit
        BY <4>5, BatchType DEF IngestCommit, BatchState, Stages, StageOK
      <4>6. CASE ComputeRead \/ NotifyRead
        <5>1. snap \in [Tickers -> Rows]
          BY DEF TypeOK
        <5>. QED  BY <4>6, <5>1, BatchType DEF ComputeRead, NotifyRead, BatchState, Stages, StageOK
      <4>7. CASE ComputeSelect \/ ComputeDelete \/ ComputeCommit
        BY <4>7, BatchType DEF ComputeSelect, ComputeDelete, ComputeCommit, BatchState, Stages, StageOK
      <4>8. CASE NotifyRules
        <5>1. PICK D \in SUBSET rule : batch' = [batch EXCEPT !.stage = "send", !.due = D]
          BY <4>8 DEF NotifyRules
        <5>2. D \subseteq Pairs
          BY DEF TypeOK
        <5>. QED  BY <4>8, <5>1, <5>2, BatchType DEF NotifyRules, BatchState, Stages, StageOK
      <4>9. ASSUME NEW p \in Pairs, SendAlert(p) PROVE batch' \in BatchState /\ StageOK'
        <5>1. \/ batch' = [batch EXCEPT !.due = batch.due \ {p}]
              \/ batch' = [batch EXCEPT !.due = batch.due \ {p}, !.sent = batch.sent \cup {p}]
          BY <4>9 DEF SendAlert
        <5>2. batch' \in BatchState
          <6>1. batch.due \ {p} \in SUBSET Pairs /\ batch.sent \cup {p} \in SUBSET Pairs
            BY BatchType DEF BatchState
          <6>2. CASE batch' = [batch EXCEPT !.due = batch.due \ {p}]
            BY <6>1, <6>2, BatchType DEF BatchState
          <6>3. CASE batch' = [batch EXCEPT !.due = batch.due \ {p},
                                            !.sent = batch.sent \cup {p}]
            BY <6>1, <6>3, BatchType DEF BatchState
          <6>. QED  BY <5>1, <6>2, <6>3
        <5>3. batch'.stage = batch.stage /\ batch'.now = batch.now
          BY <5>1, BatchType DEF BatchState
        <5>4. batch.stage = "send" /\ batch.now = {}
          BY <4>9, BatchType DEF SendAlert, StageOK
        <5>. QED  BY <5>2, <5>3, <5>4 DEF StageOK
      <4>. QED  BY <2>4, <4>1, <4>2, <4>3, <4>4, <4>5, <4>6, <4>7, <4>8, <4>9
                DEF BatchStep, IngestStep, ComputeStep, NotifyStep
    <3>2. snap' \in [Tickers -> Rows]
      <4>1. CASE IngestCommit
        BY <4>1, BatchType DEF IngestCommit, BatchState, TypeOK
      <4>2. CASE ~IngestCommit
        BY <2>4, <4>2 DEF BatchStep, IngestStep, ComputeStep, NotifyStep, StartPipeline,
           IngestRead, IngestReplace, IngestClash, ComputeRead, ComputeSelect, ComputeDelete,
           ComputeCommit, ComputeClash, NotifyRead, NotifyRules, SendAlert, NotifyCommit, TypeOK
      <4>. QED  BY <4>1, <4>2
    <3>3. trend' \in [Pairs -> Rows]
      <4>1. CASE ComputeCommit
        BY <4>1, BatchType, PairTicker DEF ComputeCommit, Computed, BatchState, Rows, TypeOK
      <4>2. CASE ~ComputeCommit
        BY <2>4, <4>2 DEF BatchStep, IngestStep, ComputeStep, NotifyStep, StartPipeline,
           IngestRead, IngestReplace, IngestClash, IngestCommit, ComputeRead, ComputeSelect,
           ComputeDelete, ComputeClash, NotifyRead, NotifyRules, SendAlert, NotifyCommit, TypeOK
      <4>. QED  BY <4>1, <4>2
    <3>4. task' \in [Pairs -> TaskState]
      <4>1. CASE IngestCommit
        BY <4>1, StaleTasksType DEF IngestCommit
      <4>2. CASE ComputeCommit
        BY <4>2, StaleType, TaskType DEF ComputeCommit
      <4>3. CASE ~IngestCommit /\ ~ComputeCommit
        BY <2>4, <4>3 DEF BatchStep, IngestStep, ComputeStep, NotifyStep, StartPipeline,
           IngestRead, IngestReplace, IngestClash, ComputeRead, ComputeSelect,
           ComputeDelete, ComputeClash, NotifyRead, NotifyRules, SendAlert, NotifyCommit, TypeOK
      <4>. QED  BY <4>1, <4>2, <4>3
    <3>5. recent' \subseteq Pairs /\ mails' \in [Pairs -> Nat]
      <4>1. batch.sent \subseteq Pairs
        BY BatchType DEF BatchState
      <4>2. \A p \in Pairs : mails[p] + 1 \in Nat
        BY DEF TypeOK
      <4>. QED
        BY <2>4, <4>1, <4>2 DEF BatchStep, IngestStep, ComputeStep, NotifyStep, StartPipeline,
           IngestRead, IngestReplace, IngestClash, IngestCommit, ComputeRead, ComputeSelect,
           ComputeDelete, ComputeCommit, ComputeClash, NotifyRead, NotifyRules, SendAlert,
           NotifyCommit, TypeOK
    <3>6. UNCHANGED <<watch, rule, requests, faults>>
      BY <2>4 DEF BatchStep, IngestStep, ComputeStep, NotifyStep, StartPipeline,
         IngestRead, IngestReplace, IngestClash, IngestCommit, ComputeRead, ComputeSelect,
         ComputeDelete, ComputeCommit, ComputeClash, NotifyRead, NotifyRules, SendAlert,
         NotifyCommit
    <3>. QED  BY <3>1, <3>2, <3>3, <3>4, <3>5, <3>6 DEF TypeOK
  <2>5. CASE FaultStep
    <3>1. CASE BatchRaises
      BY <3>1, IdleStageOK DEF BatchRaises, TypeOK
    <3>2. CASE Restart
      <4>1. task' \in [Pairs -> TaskState]
        BY <3>2, NoTaskType DEF Restart
      <4>. QED  BY <3>2, <4>1, IdleStageOK DEF Restart, TypeOK
    <3>3. ASSUME NEW p \in Pairs, TaskRaises(p) PROVE TypeOK'
      BY <3>3, TaskEndsType DEF TaskRaises, TypeOK, StageOK
    <3>. QED  BY <2>5, <3>1, <3>2, <3>3 DEF FaultStep
  <2>6. CASE UNCHANGED vars
    BY <2>6 DEF vars, TypeOK, StageOK
  <2>. QED  BY <2>1, <2>2, <2>3, <2>4, <2>5, <2>6 DEF Next
<1>. QED  BY <1>1, <1>2, PTL DEF Spec

-----------------------------------------------------------------------------
(* No alert twice, if nothing raises and nothing restarts: an alert of the   *)
(* window is in the log, or in the open transaction that will log it.        *)

Logged ==
    faults = 0 =>
        /\ \A p \in Pairs : mails[p] <= 1
        /\ \A p \in Pairs : mails[p] = 1 => p \in recent \/ p \in batch.sent
        /\ \A p \in batch.sent : p \notin batch.due

LEMMA LoggedInit == Init => Logged
BY DEF Init, Logged, IdleBatch

LEMMA LoggedNext == TypeOK /\ Logged /\ [Next]_vars => Logged'
<1> SUFFICES ASSUME TypeOK, Logged, [Next]_vars, faults' = 0 PROVE Logged'
  BY DEF Logged
<1>1. faults = 0
  <2>1. faults' = faults \/ faults' = faults + 1
    BY DEF Next, vars, Request, AddWatch, RemoveWatch, UpsertRule, DeleteRule, TaskStep,
       TaskCheck, TaskFetch, TaskReplace, TaskCommit, TaskClash, WindowOver, BatchStep,
       IngestStep, ComputeStep, NotifyStep, StartPipeline, IngestRead, IngestReplace,
       IngestClash, IngestCommit, ComputeRead, ComputeSelect, ComputeDelete, ComputeCommit,
       ComputeClash, NotifyRead, NotifyRules, SendAlert, NotifyCommit, FaultStep,
       BatchRaises, TaskRaises, Restart
  <2>2. faults \in Nat
    BY DEF TypeOK
  <2>. QED  BY <2>1, <2>2
<1>2. /\ \A p \in Pairs : mails[p] <= 1
      /\ \A p \in Pairs : mails[p] = 1 => p \in recent \/ p \in batch.sent
      /\ \A p \in batch.sent : p \notin batch.due
  BY <1>1 DEF Logged
<1>t. \A p \in Pairs : mails[p] \in Nat
  BY DEF TypeOK
<1>3. ASSUME mails' = mails, recent' = recent,
             batch'.sent = batch.sent \/ (batch.stage # "send" /\ batch'.sent = {}),
             batch'.sent # {} => batch'.due \subseteq batch.due
      PROVE  Logged'
  <2>1. batch.stage # "send" => batch.sent = {}
    BY BatchType DEF StageOK
  <2>2. CASE batch'.sent = batch.sent
    BY <1>2, <1>3, <2>2 DEF Logged
  <2>3. CASE batch.sent = {} /\ batch'.sent = {}
    BY <1>2, <1>3, <2>3 DEF Logged
  <2>. QED  BY <1>3, <2>1, <2>2, <2>3
<1>4. ASSUME batch' = batch, mails' = mails, recent' = recent PROVE Logged'
  BY <1>3, <1>4
<1>5. ASSUME NEW p \in Pairs, Request(p) \/ TaskStep(p) PROVE Logged'
  <2>1. mails' = mails /\ recent' = recent
    BY <1>5 DEF Request, AddWatch, RemoveWatch, UpsertRule, DeleteRule, TaskStep, TaskCheck,
       TaskFetch, TaskReplace, TaskCommit, TaskClash
  <2>2. batch'.sent = batch.sent /\ batch'.due = batch.due
    BY <1>5, BatchType DEF Request, AddWatch, RemoveWatch, UpsertRule, DeleteRule, TaskStep,
       TaskCheck, TaskFetch, TaskReplace, TaskCommit, TaskClash, BatchState
  <2>. QED  BY <1>3, <2>1, <2>2
<1>6. ASSUME NEW p \in Pairs, WindowOver(p) PROVE Logged'
  <2>1. /\ batch' = batch
        /\ p \notin batch.sent
        /\ recent' = recent \ {p}
        /\ mails' = [mails EXCEPT ![p] = 0]
    BY <1>6 DEF WindowOver
  <2>2. ASSUME NEW o \in Pairs PROVE mails'[o] = IF o = p THEN 0 ELSE mails[o]
    BY <2>1, <2>2 DEF TypeOK
  <2>. QED  BY <1>2, <2>1, <2>2 DEF Logged
<1>7. CASE BatchStep
  <2>1. CASE StartPipeline
    <3>1. batch'.sent = {} /\ batch.stage = "idle"
      BY <2>1 DEF StartPipeline, IdleBatch
    <3>. QED  BY <1>3, <2>1, <3>1 DEF StartPipeline
  <2>2. CASE IngestStep \/ ComputeStep \/ NotifyRead
    <3>1. batch.stage # "send" /\ mails' = mails /\ recent' = recent
      BY <2>2 DEF IngestStep, ComputeStep, NotifyRead, IngestRead, IngestReplace, IngestClash,
         IngestCommit, ComputeRead, ComputeSelect, ComputeDelete, ComputeCommit, ComputeClash
    <3>2. \/ batch' = IdleBatch
          \/ batch'.sent = batch.sent /\ batch'.due = batch.due
      BY <2>2, BatchType DEF IngestStep, ComputeStep, NotifyRead, IngestRead, IngestReplace,
         IngestClash, IngestCommit, ComputeRead, ComputeSelect, ComputeDelete, ComputeCommit,
         ComputeClash, BatchState
    <3>3. IdleBatch.sent = {}
      BY DEF IdleBatch
    <3>. QED  BY <1>3, <3>1, <3>2, <3>3
  <2>3. CASE NotifyRules
    <3>1. batch.stage = "rules" /\ mails' = mails /\ recent' = recent
      BY <2>3 DEF NotifyRules
    <3>2. batch'.sent = batch.sent
      BY <2>3, BatchType DEF NotifyRules, BatchState
    <3>3. batch.sent = {}
      BY <3>1, BatchType DEF StageOK
    <3>. QED  BY <1>3, <3>1, <3>2, <3>3
  <2>4. ASSUME NEW p \in Pairs, SendAlert(p) PROVE Logged'
    <3>1. CASE p \in recent
      <4>1. batch'.sent = batch.sent /\ batch'.due = batch.due \ {p}
        BY <2>4, <3>1, BatchType DEF SendAlert, BatchState
      <4>. QED  BY <1>3, <2>4, <3>1, <4>1 DEF SendAlert
    <3>2. CASE p \notin recent
      <4>1. /\ batch'.sent = batch.sent \cup {p}
            /\ batch'.due = batch.due \ {p}
        BY <2>4, <3>2, BatchType DEF SendAlert, BatchState
      <4>2. recent' = recent /\ mails' = [mails EXCEPT ![p] = mails[p] + 1]
        BY <2>4, <3>2 DEF SendAlert
      <4>3. \A o \in Pairs : mails'[o] = IF o = p THEN mails[p] + 1 ELSE mails[o]
        BY <4>2 DEF TypeOK
      <4>4. mails[p] = 0
        <5>1. p \in batch.due
          BY <2>4 DEF SendAlert
        <5>2. mails[p] # 1
          BY <1>2, <3>2, <5>1
        <5>3. mails[p] \in Nat /\ mails[p] <= 1
          BY <1>2, <1>t
        <5>. QED  BY <5>2, <5>3
      <4>. QED  BY <1>2, <4>1, <4>2, <4>3, <4>4 DEF Logged
    <3>. QED  BY <3>1, <3>2
  <2>5. CASE NotifyCommit
    <3>1. /\ batch'.sent = {}
          /\ recent' = recent \cup batch.sent
          /\ mails' = mails
      BY <2>5 DEF NotifyCommit, IdleBatch
    <3>. QED  BY <1>2, <3>1 DEF Logged
  <2>. QED  BY <1>7, <2>1, <2>2, <2>3, <2>4, <2>5 DEF BatchStep, NotifyStep
<1>8. CASE FaultStep
  <2>1. faults' = faults + 1
    BY <1>8 DEF FaultStep, BatchRaises, TaskRaises, Restart
  <2>. QED  BY <1>1, <2>1
<1>9. CASE UNCHANGED vars
  BY <1>4, <1>9 DEF vars
<1>. QED  BY <1>5, <1>6, <1>7, <1>8, <1>9 DEF Next

\* The pipeline sends no alert twice inside its window, whatever users and
\* background ingests do, as long as nothing raises and nothing restarts.
THEOREM NoAlertTwice == Spec => []NoDoubleSend
<1>1. TypeOK /\ Logged /\ [Next]_vars => Logged'
  BY LoggedNext
<1>2. Logged => NoDoubleSend
  BY DEF Logged, NoDoubleSend
<1>. QED  BY LoggedInit, TypeCorrect, <1>1, <1>2, PTL DEF Spec

-----------------------------------------------------------------------------
(* Everyone watching an ingested stock has a trend when notify runs: prices   *)
(* are never taken away, so compute sees what ingest committed, and a commit  *)
(* in between only replaces a trend row by another one.                       *)

Priced ==
    /\ batch.kept \subseteq watch
    /\ \A p \in Pairs : task[p].step \in {"replace", "trend"} => task[p].quote \in Quotes
    /\ batch.stage \in {"compute", "select", "delete", "insert"} =>
          \A t \in Tickers : batch.new[t] # NoRow => snap[t] # NoRow
    /\ batch.stage \in {"select", "delete", "insert"} =>
          \A t \in Tickers : batch.new[t] # NoRow => batch.seen[t] # NoRow
    /\ ComputedForAll

LEMMA PricedInit == Init => Priced
BY DEF Init, Priced, ComputedForAll, IdleBatch, NoTask

LEMMA NoRowIsNoQuote == \A q \in Quotes : q # NoRow
BY DEF Quotes, NoRow

\* Whatever ends the run keeps Priced, if it leaves the tables alone.
LEMMA PricedEnds ==
  ASSUME TypeOK, Priced, batch' = IdleBatch, task' = task
  PROVE  Priced'
<1>1. batch'.kept = {} /\ batch'.stage = "idle"
  BY DEF IdleBatch
<1>2. \A p \in Pairs : task'[p].step \in {"replace", "trend"} => task'[p].quote \in Quotes
  BY DEF Priced
<1>3. ComputedForAll'
  BY <1>1 DEF ComputedForAll
<1>. QED  BY <1>1, <1>2, <1>3 DEF Priced

\* A step that leaves the tables and the tasks alone, and of the run only moves
\* what Priced does not look at.
LEMMA PricedKept ==
  ASSUME TypeOK, Priced,
         watch' = watch, snap' = snap, trend' = trend, task' = task,
         batch'.kept = batch.kept, batch'.new = batch.new,
         \/ batch'.stage = batch.stage /\ batch'.seen = batch.seen
         \/ batch'.stage \in {"idle", "ingest", "replace"}
         \/ batch.stage = "select" /\ batch'.stage = "delete" /\ batch'.seen = batch.seen
         \/ batch.stage = "delete" /\ batch'.stage = "insert" /\ batch'.seen = batch.seen
         \/ /\ batch.stage \in {"notify", "rules", "send"}
            /\ batch'.stage \in {"notify", "rules", "send"}
  PROVE  Priced'
<1>1. batch'.kept \subseteq watch'
  BY DEF Priced
<1>2. \A p \in Pairs : task'[p].step \in {"replace", "trend"} => task'[p].quote \in Quotes
  BY DEF Priced
<1>3. batch'.stage \in {"compute", "select", "delete", "insert"} =>
        \A t \in Tickers : batch'.new[t] # NoRow => snap'[t] # NoRow
  BY DEF Priced
<1>4. batch'.stage \in {"select", "delete", "insert"} =>
        \A t \in Tickers : batch'.new[t] # NoRow => batch'.seen[t] # NoRow
  BY DEF Priced
<1>5. ComputedForAll'
  BY DEF Priced, ComputedForAll
<1>. QED  BY <1>1, <1>2, <1>3, <1>4, <1>5 DEF Priced

\* A step of the background ingest before its commit.
LEMMA PricedTask ==
  ASSUME TypeOK, Priced, NEW p \in Pairs, NEW s \in TaskState,
         s.step \in {"replace", "trend"} => s.quote \in Quotes,
         task' = [task EXCEPT ![p] = s],
         watch' = watch, snap' = snap, trend' = trend, batch' = batch
  PROVE  Priced'
<1>1. \A o \in Pairs : task'[o] = IF o = p THEN s ELSE task[o]
  BY DEF TypeOK
<1>2. \A o \in Pairs : task'[o].step \in {"replace", "trend"} => task'[o].quote \in Quotes
  BY <1>1 DEF Priced
<1>3. ComputedForAll'
  BY DEF Priced, ComputedForAll
<1>. QED  BY <1>2, <1>3 DEF Priced

LEMMA PricedNext == TypeOK /\ Priced /\ [Next]_vars => Priced'
<1> SUFFICES ASSUME TypeOK, Priced, [Next]_vars PROVE Priced'
  OBVIOUS
<1>1. ASSUME NEW p \in Pairs, Request(p) PROVE Priced'
  <2>1. CASE AddWatch(p)
    <3>1. [task[p] EXCEPT !.step = "start"].step = "start"
      BY TaskType DEF TaskState
    <3>2. \A o \in Pairs : task'[o].step \in {"replace", "trend"} => task'[o].quote \in Quotes
      BY <2>1, <3>1 DEF AddWatch, TypeOK, Priced
    <3>3. batch' = batch /\ trend' = trend /\ snap' = snap /\ watch \subseteq watch'
      BY <2>1 DEF AddWatch
    <3>4. ComputedForAll'
      BY <3>3 DEF Priced, ComputedForAll
    <3>. QED  BY <3>2, <3>3, <3>4 DEF Priced
  <2>2. CASE RemoveWatch(p)
    <3>1. /\ batch'.kept = batch.kept \ {p}
          /\ batch'.stage = batch.stage
          /\ batch'.new = batch.new
          /\ batch'.seen = batch.seen
      BY <2>2, BatchType DEF RemoveWatch, BatchState
    <3>2. watch' = watch \ {p} /\ trend' = trend /\ snap' = snap /\ task' = task
      BY <2>2 DEF RemoveWatch
    <3>3. ComputedForAll'
      BY <3>1, <3>2 DEF Priced, ComputedForAll
    <3>. QED  BY <3>1, <3>2, <3>3 DEF Priced
  <2>3. CASE UpsertRule(p) \/ DeleteRule(p)
    BY <2>3, PricedKept DEF UpsertRule, DeleteRule
  <2>. QED  BY <1>1, <2>1, <2>2, <2>3 DEF Request
<1>2. ASSUME NEW p \in Pairs, TaskEnds(p), watch' = watch, snap' = snap, trend' = trend,
             batch' = batch
      PROVE  Priced'
  <2>1. NoTask.step = "off"
    BY DEF NoTask
  <2>. QED  BY <1>2, <2>1, NoTaskType, PricedTask DEF TaskEnds
<1>3. ASSUME NEW p \in Pairs, TaskStep(p) PROVE Priced'
  <2>1. CASE TaskCheck(p)
    <3>1. CASE TaskEnds(p)
      BY <1>2, <2>1, <3>1 DEF TaskCheck
    <3>2. CASE task' = [task EXCEPT ![p] = [task[p] EXCEPT !.step = "fetch"]]
      <4>1. /\ [task[p] EXCEPT !.step = "fetch"] \in TaskState
            /\ [task[p] EXCEPT !.step = "fetch"].step = "fetch"
        BY TaskType DEF TaskState
      <4>. QED  BY <2>1, <3>2, <4>1, PricedTask DEF TaskCheck
    <3>. QED  BY <2>1, <3>1, <3>2 DEF TaskCheck
  <2>2. CASE TaskFetch(p)
    <3>1. CASE TaskEnds(p)
      BY <1>2, <2>2, <3>1 DEF TaskFetch
    <3>2. ASSUME NEW q \in Quotes,
                 task' = [task EXCEPT ![p] = [step |-> "replace", quote |-> q, stale |-> FALSE]]
          PROVE  Priced'
      <4>1. [step |-> "replace", quote |-> q, stale |-> FALSE] \in TaskState
        BY DEF TaskState, Rows
      <4>. QED  BY <2>2, <3>2, <4>1, PricedTask DEF TaskFetch
    <3>. QED  BY <2>2, <3>1, <3>2 DEF TaskFetch
  <2>3. CASE TaskReplace(p)
    <3>1. CASE TaskEnds(p)
      BY <1>2, <2>3, <3>1 DEF TaskReplace
    <3>2. CASE task' = [task EXCEPT ![p] = [task[p] EXCEPT !.step = "trend", !.stale = FALSE]]
      <4>1. /\ [task[p] EXCEPT !.step = "trend", !.stale = FALSE] \in TaskState
            /\ [task[p] EXCEPT !.step = "trend", !.stale = FALSE].quote = task[p].quote
        BY TaskType DEF TaskState
      <4>2. task[p].quote \in Quotes
        BY <2>3 DEF TaskReplace, Priced
      <4>. QED  BY <2>3, <3>2, <4>1, <4>2, PricedTask DEF TaskReplace
    <3>. QED  BY <2>3, <3>1, <3>2 DEF TaskReplace
  <2>4. CASE TaskCommit(p)
    <3>1. task[p].quote \in Quotes /\ task[p].quote # NoRow
      BY <2>4, NoRowIsNoQuote DEF TaskCommit, Priced
    <3>2. /\ \A t \in Tickers : snap[t] # NoRow => snap'[t] # NoRow
          /\ \A o \in Pairs : trend[o] # NoRow => trend'[o] # NoRow
      BY <2>4, <3>1 DEF TaskCommit, TypeOK
    <3>3. /\ batch'.kept = batch.kept
          /\ batch'.stage = batch.stage
          /\ batch'.new = batch.new
          /\ batch'.seen = batch.seen
      BY <2>4, BatchType DEF TaskCommit, BatchState
    <3>4. \A o \in Pairs : task'[o].step \in {"replace", "trend"} => task'[o].quote \in Quotes
      <4>1. ASSUME NEW o \in Pairs
            PROVE  \/ task'[o] = NoTask
                   \/ task'[o] = task[o]
                   \/ task'[o] = [task[o] EXCEPT !.stale = TRUE]
        BY <2>4 DEF TaskCommit, StaleTasks
      <4>2. ASSUME NEW o \in Pairs
            PROVE  /\ [task[o] EXCEPT !.stale = TRUE].step = task[o].step
                   /\ [task[o] EXCEPT !.stale = TRUE].quote = task[o].quote
        BY TaskType DEF TaskState
      <4>3. NoTask.step = "off"
        BY DEF NoTask
      <4>. QED  BY <4>1, <4>2, <4>3 DEF Priced
    <3>5. watch' = watch
      BY <2>4 DEF TaskCommit
    <3>6. ComputedForAll'
      <4>. SUFFICES ASSUME batch.stage \in {"notify", "rules", "send"},
                           NEW o \in batch.kept, batch.new[o[2]] # NoRow
                    PROVE  trend'[o] # NoRow
        BY <3>3 DEF ComputedForAll
      <4>1. o \in Pairs
        BY BatchType DEF BatchState
      <4>. QED  BY <3>2, <4>1 DEF Priced, ComputedForAll
    <3>. QED  BY <3>2, <3>3, <3>4, <3>5, <3>6 DEF Priced
  <2>5. CASE TaskClash(p)
    BY <1>2, <2>5 DEF TaskClash
  <2>. QED  BY <1>3, <2>1, <2>2, <2>3, <2>4, <2>5 DEF TaskStep
<1>4. CASE \E p \in Pairs : WindowOver(p)
  BY <1>4, PricedKept DEF WindowOver
<1>5. CASE BatchStep
  <2>1. CASE StartPipeline
    <3>1. /\ batch' = [IdleBatch EXCEPT !.stage = "ingest",
                                        !.todo = {p[2] : p \in watch}, !.kept = watch]
          /\ watch' = watch /\ task' = task
      BY <2>1 DEF StartPipeline
    <3>2. batch'.stage = "ingest" /\ batch'.kept = watch
      BY <3>1 DEF IdleBatch
    <3>3. ComputedForAll'
      BY <3>2 DEF ComputedForAll
    <3>. QED  BY <3>1, <3>2, <3>3 DEF Priced
  <2>2. ASSUME NEW t \in Tickers, IngestRead(t) \/ IngestReplace(t) PROVE Priced'
    <3>1. /\ batch'.stage \in {"ingest", "replace"}
          /\ batch'.kept = batch.kept
      BY <2>2, BatchType DEF IngestRead, IngestReplace, BatchState
    <3>2. watch' = watch /\ task' = task
      BY <2>2 DEF IngestRead, IngestReplace
    <3>3. ComputedForAll'
      BY <3>1 DEF ComputedForAll
    <3>. QED  BY <3>1, <3>2, <3>3 DEF Priced
  <2>3. CASE IngestClash \/ ComputeClash \/ NotifyCommit
    BY <2>3, PricedEnds DEF IngestClash, ComputeClash, NotifyCommit
  <2>4. CASE IngestCommit
    <3>1. /\ batch'.kept = batch.kept
          /\ batch'.stage = "compute"
          /\ batch'.new = batch.new
      BY <2>4, BatchType DEF IngestCommit, BatchState
    <3>2. \A t \in Tickers : batch.new[t] # NoRow => snap'[t] # NoRow
      BY <2>4 DEF IngestCommit
    <3>3. \A o \in Pairs : /\ task'[o].step = task[o].step
                           /\ task'[o].quote = task[o].quote
      <4>1. ASSUME NEW o \in Pairs
            PROVE  task'[o] = task[o] \/ task'[o] = [task[o] EXCEPT !.stale = TRUE]
        BY <2>4 DEF IngestCommit, StaleTasks
      <4>. QED  BY <4>1, TaskType DEF TaskState
    <3>4. watch' = watch
      BY <2>4 DEF IngestCommit
    <3>5. ComputedForAll'
      BY <3>1 DEF ComputedForAll
    <3>. QED  BY <3>1, <3>2, <3>3, <3>4, <3>5 DEF Priced
  <2>5. CASE ComputeRead
    <3>1. /\ batch.stage = "compute"
          /\ batch'.kept = batch.kept
          /\ batch'.stage = "select"
          /\ batch'.new = batch.new
          /\ batch'.seen = snap
      BY <2>5, BatchType DEF ComputeRead, BatchState
    <3>2. watch' = watch /\ snap' = snap /\ task' = task
      BY <2>5 DEF ComputeRead
    <3>3. ComputedForAll'
      BY <3>1 DEF ComputedForAll
    <3>. QED  BY <3>1, <3>2, <3>3 DEF Priced
  <2>6. CASE ComputeSelect \/ ComputeDelete
    <3>1. /\ batch'.kept = batch.kept
          /\ batch'.new = batch.new
          /\ batch'.seen = batch.seen
          /\ \/ batch.stage = "select" /\ batch'.stage = "delete"
             \/ batch.stage = "delete" /\ batch'.stage = "insert"
      BY <2>6, BatchType DEF ComputeSelect, ComputeDelete, BatchState
    <3>. QED  BY <2>6, <3>1, PricedKept DEF ComputeSelect, ComputeDelete
  <2>7. CASE ComputeCommit
    <3>1. /\ batch.stage = "insert"
          /\ batch'.kept = batch.kept
          /\ batch'.stage = "notify"
          /\ batch'.new = batch.new
      BY <2>7, BatchType DEF ComputeCommit, BatchState
    <3>2. \A o \in Pairs : /\ task'[o].step = task[o].step
                           /\ task'[o].quote = task[o].quote
      <4>1. ASSUME NEW o \in Pairs
            PROVE  task'[o] = task[o] \/ task'[o] = [task[o] EXCEPT !.stale = TRUE]
        BY <2>7 DEF ComputeCommit
      <4>. QED  BY <4>1, TaskType DEF TaskState
    <3>3. ComputedForAll'
      <4>. SUFFICES ASSUME NEW o \in batch.kept, batch.new[o[2]] # NoRow
                    PROVE  trend'[o] # NoRow
        BY <3>1 DEF ComputedForAll
      <4>1. o \in Pairs /\ o[2] \in Tickers /\ o \in watch
        BY BatchType, PairTicker DEF BatchState, Priced
      <4>2. o \in Computed
        BY <3>1, <4>1 DEF Priced, Computed
      <4>. QED  BY <2>7, <4>1, <4>2 DEF ComputeCommit, Computed
    <3>4. watch' = watch
      BY <2>7 DEF ComputeCommit
    <3>. QED  BY <3>1, <3>2, <3>3, <3>4 DEF Priced
  <2>8. CASE NotifyRead \/ NotifyRules \/ \E p \in Pairs : SendAlert(p)
    <3>1. /\ batch'.kept = batch.kept
          /\ batch'.new = batch.new
          /\ batch.stage \in {"notify", "rules", "send"}
          /\ batch'.stage \in {"notify", "rules", "send"}
      BY <2>8, BatchType DEF NotifyRead, NotifyRules, SendAlert, BatchState
    <3>. QED  BY <2>8, <3>1, PricedKept DEF NotifyRead, NotifyRules, SendAlert
  <2>. QED  BY <1>5, <2>1, <2>2, <2>3, <2>4, <2>5, <2>6, <2>7, <2>8
            DEF BatchStep, IngestStep, ComputeStep, NotifyStep
<1>6. CASE FaultStep
  <2>1. CASE BatchRaises
    BY <2>1, PricedEnds DEF BatchRaises
  <2>2. CASE Restart
    <3>1. batch'.kept = {} /\ batch'.stage = "idle"
      BY <2>2 DEF Restart, IdleBatch
    <3>2. \A p \in Pairs : task'[p].step = "off"
      BY <2>2 DEF Restart, NoTask
    <3>3. ComputedForAll'
      BY <3>1 DEF ComputedForAll
    <3>. QED  BY <3>1, <3>2, <3>3 DEF Priced
  <2>3. ASSUME NEW p \in Pairs, TaskRaises(p) PROVE Priced'
    BY <1>2, <2>3 DEF TaskRaises
  <2>. QED  BY <1>6, <2>1, <2>2, <2>3 DEF FaultStep
<1>7. CASE UNCHANGED vars
  BY <1>7, PricedKept DEF vars
<1>. QED  BY <1>1, <1>3, <1>4, <1>5, <1>6, <1>7 DEF Next

\* When notify runs, everyone who has watched an ingested stock since the run
\* began has a trend, whatever background ingests, requests, exceptions and
\* restarts come in between.
THEOREM EveryoneComputed == Spec => []ComputedForAll
<1>1. TypeOK /\ Priced /\ [Next]_vars => Priced'
  BY PricedNext
<1>2. Priced => ComputedForAll
  BY DEF Priced
<1>. QED  BY PricedInit, TypeCorrect, <1>1, <1>2, PTL DEF Spec
=============================================================================
