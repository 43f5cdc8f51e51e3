----------------------------- MODULE StoryWriting -----------------------------
(***************************************************************************)
(* run_pipeline: how one story comes about. Research finds facts, code     *)
(* checks them, the writer writes a version per age group, code checks the *)
(* language of each, and a reviewer that is another AI call approves what  *)
(* is left. A rejected attempt is written again while the email that waits *)
(* for the story can still wait. What the email and the dashboard say of   *)
(* the outcome is read from `diag`, which all attempts share.              *)
(*                                                                         *)
(* Each definition named ...Bug is the one after it with a mistake; no     *)
(* specification uses it.                                                  *)
(***************************************************************************)
EXTENDS Naturals, Sequences, FiniteSets, FiniteSetsExt, SequencesExt

CONSTANTS
  AgeGroups,     \* AGE_GROUPS, youngest first
  Facts,         \* what research can report
  Flawed,        \* facts that break a rule of validate_facts
  WriteSetting,  \* AI_ARTICLE_MAX_WRITE_ATTEMPTS, any integer
  Deadline,      \* until when the email waits
  MaxCall        \* bound: how long one AI call takes

Ages == Range(AgeGroups)

ASSUME StoryWritingAssumption ==
  /\ AgeGroups \in Seq(Ages) /\ AgeGroups # <<>>
  /\ Flawed \subseteq Facts
  /\ WriteSetting \in Nat
  /\ Deadline \in Nat /\ MaxCall \in Nat

VARIABLES
  status,     \* researching, writing, reviewing; then ready, no_clear_cause or failed
  clock,      \* time since the story was asked for
  attempt,    \* number of the attempt, 0 before the first
  began,      \* when it began
  draft,      \* the versions of this attempt that passed the language check
  diag,       \* what the pipeline records for whoever asks why
  sent,       \* the versions of the finished story
  happened,   \* history: what became of each age group in this attempt
  verdict,    \* history: the age groups the reviewer approved in this attempt
  ending      \* history: what ended the last attempt

storyVars == <<status, clock, attempt, began, draft, diag, sent,
               happened, verdict, ending>>

Statuses == {"researching", "writing", "reviewing", "ready", "no_clear_cause", "failed"}
Running == {"researching", "writing", "reviewing"}
Rejections == {"language_check_shared", "language_check_all_versions",
               "reviewer_grown_up_summary", "reviewer_all_versions"}
NoDiag == [cause |-> FALSE, found |-> {}, kept |-> {}, written |-> {},
           unfit |-> {}, refused |-> {}, rejectedBy |-> "nobody"]

StoryInit ==
  /\ status = "researching"
  /\ clock = 0 /\ attempt = 0 /\ began = 0
  /\ draft = {} /\ sent = {}
  /\ diag = NoDiag
  /\ happened = [g \in Ages |-> "not written"]
  /\ verdict = {}
  /\ ending = "nothing"

Takes(d) == clock' = clock + d

(* MAX_WRITE_ATTEMPTS; 0 must not mean "never write a story".              *)
AttemptsAllowed == Min({4, Max({1, WriteSetting})})

(* validate_facts.                                                         *)
Kept(found) == found \ Flawed

(* No provider has a key or all are paused.                                *)
NoProvider ==
  /\ status = "researching" /\ clock = 0
  /\ status' = "failed"
  /\ ending' = "no provider"
  /\ UNCHANGED <<clock, attempt, began, draft, diag, sent, happened, verdict>>

Research ==
  /\ status = "researching"
  /\ \E d \in 0..MaxCall, cause \in BOOLEAN, found \in SUBSET Facts :
       /\ Takes(d)
       /\ diag' = [diag EXCEPT !.cause = cause, !.found = found, !.kept = Kept(found)]
       /\ IF cause /\ Kept(found) # {}
          THEN /\ status' = "writing" /\ attempt' = 1 /\ began' = clock + d
               /\ UNCHANGED ending
          ELSE /\ status' = "no_clear_cause"
               /\ ending' = IF cause /\ found # {} THEN "facts dropped" ELSE "no cause"
               /\ UNCHANGED <<attempt, began>>
  /\ UNCHANGED <<draft, sent, happened, verdict>>

(* An attempt that took `spent` is rejected: another one, if it is allowed *)
(* and would end before the deadline were it a fifth slower; or the end.   *)
InTime(now, spent) == 5 * now + 6 * spent <= 5 * Deadline

EndsRejected(by, diagNow) ==
  /\ status' = "failed"
  /\ diag' = [diagNow EXCEPT !.rejectedBy = by]
  /\ UNCHANGED <<attempt, began>>

WritesAgain(now, diagNow) ==
  /\ status' = "writing"
  /\ attempt' = attempt + 1 /\ began' = now
  /\ diag' = diagNow

AttemptRejectedBug(by, now, diagNow) ==
  /\ ending' = by
  /\ draft' = {}
  /\ IF InTime(now, now - began)
     THEN WritesAgain(now, diagNow)
     ELSE EndsRejected(by, diagNow)
  /\ UNCHANGED sent
AttemptRejected(by, now, diagNow) ==
  /\ ending' = by
  /\ draft' = {}
  /\ IF attempt < AttemptsAllowed /\ InTime(now, now - began)
     THEN WritesAgain(now, diagNow)
     ELSE EndsRejected(by, diagNow)
  /\ UNCHANGED sent

(* The writer, then safety layer 1: something all versions share sinks the *)
(* attempt; a version that fails its age's check is dropped. The groups it *)
(* dropped are recorded only if there are any.                             *)
Write ==
  /\ status = "writing"
  /\ \E d \in 0..MaxCall, shared \in BOOLEAN, fate \in [Ages -> {"not written", "clean", "unfit"}] :
       LET written == {g \in Ages : fate[g] # "not written"}
           unfit == {g \in Ages : fate[g] = "unfit"}
           clean == written \ unfit
           diagNow == [diag EXCEPT !.written = written,
                                   !.unfit = IF unfit = {} THEN @ ELSE unfit]
       IN  /\ Takes(d)
           /\ happened' = fate /\ verdict' = {}
           /\ IF shared \/ written = {}
              THEN AttemptRejected("language_check_shared", clock + d, diag)
              ELSE IF clean = {}
              THEN AttemptRejected("language_check_all_versions", clock + d, diagNow)
              ELSE /\ status' = "reviewing"
                   /\ draft' = clean /\ diag' = diagNow
                   /\ UNCHANGED <<attempt, began, sent, ending>>

(* Safety layer 2: one reviewer, one verdict per attempt.                  *)
ReviewBug ==
  /\ status = "reviewing"
  /\ \E d \in 0..MaxCall, grownUpOk \in BOOLEAN, approved \in SUBSET Ages :
       LET refused == draft \ approved
           diagNow == [diag EXCEPT !.refused = IF refused = {} THEN @ ELSE refused]
       IN  /\ Takes(d)
           /\ verdict' = IF grownUpOk THEN approved ELSE {}
           /\ happened' = [g \in Ages |-> IF grownUpOk /\ g \in refused THEN "refused" ELSE happened[g]]
           /\ IF draft \cap approved = {}
              THEN AttemptRejected("reviewer_all_versions", clock + d, diagNow)
              ELSE /\ status' = "ready"
                   /\ sent' = draft \cap approved /\ diag' = diagNow /\ ending' = "ready"
                   /\ UNCHANGED <<attempt, began, draft>>
Review ==
  /\ status = "reviewing"
  /\ \E d \in 0..MaxCall, grownUpOk \in BOOLEAN, approved \in SUBSET Ages :
       LET refused == draft \ approved
           diagNow == [diag EXCEPT !.refused = IF refused = {} THEN @ ELSE refused]
       IN  /\ Takes(d)
           /\ verdict' = IF grownUpOk THEN approved ELSE {}
           /\ happened' = [g \in Ages |-> IF grownUpOk /\ g \in refused THEN "refused" ELSE happened[g]]
           /\ IF ~grownUpOk
              THEN AttemptRejected("reviewer_grown_up_summary", clock + d, diag)
              ELSE IF draft \cap approved = {}
              THEN AttemptRejected("reviewer_all_versions", clock + d, diagNow)
              ELSE /\ status' = "ready"
                   /\ sent' = draft \cap approved /\ diag' = diagNow /\ ending' = "ready"
                   /\ UNCHANGED <<attempt, began, draft>>

(* Any call may raise: the story has failed, whatever was written.         *)
Raises ==
  /\ status \in Running
  /\ \E d \in 0..MaxCall : Takes(d)
  /\ status' = "failed"
  /\ diag' = [diag EXCEPT !.rejectedBy = "exception"]
  /\ ending' = "exception"
  /\ UNCHANGED <<attempt, began, draft, sent, happened, verdict>>

StoryNext == NoProvider \/ Research \/ Write \/ Review \/ Raises

StorySpec == StoryInit /\ [][StoryNext]_storyVars

-----------------------------------------------------------------------------
(* What is said of it.                                                     *)

(* _empty_story_outcome and _failed_story_outcome.                         *)
EmptyReason ==
  IF diag.cause /\ diag.found # {} /\ diag.kept = {}
  THEN "facts_all_dropped" ELSE "research_found_nothing"

FailedReasonBug ==
  IF diag.unfit # {} THEN "rejected_by_language_check"
  ELSE IF diag.rejectedBy \in Rejections THEN "rejected_by_reviewer"
  ELSE "generation_failed"
FailedReason ==
  CASE diag.rejectedBy \in {"language_check_shared", "language_check_all_versions"}
         -> "rejected_by_language_check"
    [] diag.rejectedBy \in {"reviewer_grown_up_summary", "reviewer_all_versions"}
         -> "rejected_by_reviewer"
    [] OTHER -> "generation_failed"

(* _story_outcome, for a family that chose `ages`, on a day that is or is  *)
(* not a market day.                                                       *)
Reason(ages, marketDay) ==
  CASE status = "ready" /\ ages \cap sent # {} -> "ready"
    [] status = "ready" /\ ages \cap sent = {} -> "age_substituted"
    [] status \in Running -> "still_generating"
    [] status \in {"no_clear_cause", "failed"} /\ marketDay -> "market_day"
    [] status = "no_clear_cause" /\ ~marketDay -> EmptyReason
    [] status = "failed" /\ ~marketDay -> FailedReason

(* _story_why: what the stories card says of it.                           *)
StoryWhy ==
  CASE status \in Running -> "still being written"
    [] status = "ready" -> IF attempt > 1 THEN "written again" ELSE "written"
    [] status \notin Running \cup {"ready"} /\ diag = NoDiag -> "not recorded"
    [] status = "failed" /\ diag # NoDiag -> diag.rejectedBy
    [] status = "no_clear_cause" /\ diag # NoDiag ->
         IF diag.found # {} /\ diag.kept = {} THEN "facts dropped" ELSE "no cause"

(* The age groups are in order, youngest first.                            *)
Position(g) == CHOOSE i \in DOMAIN AgeGroups : AgeGroups[i] = g
Distance(g, h) ==
  IF Position(g) < Position(h) THEN Position(h) - Position(g) ELSE Position(g) - Position(h)
First(ages) == CHOOSE g \in ages : \A h \in ages : Position(g) <= Position(h)

(* _why_ages_missing: of the first chosen group a layer dropped.           *)
WhyMissing(ages) ==
  LET dropped == ages \cap (diag.unfit \cup diag.refused)
  IN  IF dropped = {}
      THEN IF ages \cap diag.written = {} THEN "not written" ELSE "unknown"
      ELSE IF First(dropped) \in diag.unfit THEN "unfit" ELSE "refused"

(* versions_for: the chosen groups, else the closest to the first of them. *)
VersionsFor(ages) ==
  IF ages \cap sent # {} THEN ages \cap sent
  ELSE {CHOOSE g \in sent : \A h \in sent : Distance(g, First(ages)) <= Distance(h, First(ages))}

-----------------------------------------------------------------------------
(* Properties.                                                             *)

StoryTypeOK ==
  /\ status \in Statuses
  /\ attempt \in 0..AttemptsAllowed
  /\ began <= clock
  /\ sent \subseteq Ages /\ draft \subseteq Ages
  /\ diag.kept \subseteq diag.found /\ diag.rejectedBy \in Rejections \cup {"exception", "nobody"}

(* Whatever was rejected on the way, every version that reaches a family   *)
(* passed its age's language check and was approved, with its grown-up     *)
(* summary, by the review of that same attempt; a family always gets one,  *)
(* of its own ages if there is any (run_pipeline, versions_for).           *)
OnlyReviewedSent ==
  status = "ready" =>
    /\ sent # {}
    /\ \A g \in sent : happened[g] = "clean" /\ g \in verdict
    /\ \A ages \in (SUBSET Ages) \ {{}} : VersionsFor(ages) \subseteq sent /\ VersionsFor(ages) # {}

(* The reason recorded for a family is what ended the last attempt, though *)
(* all attempts write to one record; and the reason why its age group is   *)
(* missing is what happened to it in the attempt that was sent. Of a story *)
(* sent at the second attempt or later this may be false: the record still *)
(* holds what an earlier attempt dropped. The stories card names the same  *)
(* cause, except for dropped facts of a research that named no cause       *)
(* (_story_outcome, _why_ages_missing, _story_why).                        *)
ReasonTrue ==
  /\ status \in {"no_clear_cause", "failed"} =>
       Reason(Ages, FALSE) =
         CASE ending = "facts dropped" -> "facts_all_dropped"
           [] ending = "no cause" -> "research_found_nothing"
           [] ending \in {"language_check_shared", "language_check_all_versions"}
                -> "rejected_by_language_check"
           [] ending \in {"reviewer_grown_up_summary", "reviewer_all_versions"}
                -> "rejected_by_reviewer"
           [] OTHER -> "generation_failed"
  /\ (status = "ready" /\ attempt = 1) =>
       \A ages \in (SUBSET Ages) \ {{}} :
         ages \cap sent = {} =>
           IF WhyMissing(ages) = "not written"
           THEN \A g \in ages : happened[g] = "not written"
           ELSE \E g \in ages : happened[g] = WhyMissing(ages)
  /\ status \in {"no_clear_cause", "failed"} /\ diag # NoDiag /\ ending # "no cause" =>
       StoryWhy = IF ending = "no provider" THEN "nobody" ELSE ending
=============================================================================
