----------------------------- MODULE StoryEmails -----------------------------
(***************************************************************************)
(* The children's part of an alert or a recap, what is recorded of it, and *)
(* how the day's report counts it. An email shows the story, a fixed note, *)
(* a promise or nothing (kid_block); another function decides which reason *)
(* is recorded (_story_outcome); the report counts by reason and by state  *)
(* (_story_delivery). The story is the one of StoryWriting, at any moment  *)
(* of its making. A finished story always renders here: a row whose        *)
(* content can no longer be read is left out.                              *)
(*                                                                         *)
(* Each definition named ...Bug is the one after it with a mistake; no     *)
(* specification uses it.                                                  *)
(***************************************************************************)
EXTENDS StoryWriting

(* REASONS, the catalogue of why an email carried what it did: the system  *)
(* worked, the story did not come to be, nobody asked for it.              *)
WorkedReasons == {"ready", "age_substituted", "below_bar", "market_day",
                  "still_generating", "followup_sent"}
LostReasons == {"research_found_nothing", "facts_all_dropped", "rejected_by_language_check",
                "rejected_by_reviewer", "no_clear_cause", "generation_failed"}
SkipReasons == {"ai_disabled", "provider_paused", "cap_reached", "no_prev_close",
                "generation_error", "content_unreadable"}

STORY_REASONS == {"ready", "age_substituted", "followup_sent"}

(* explain(reason).ok: a reason the catalogue does not know is a miss.     *)
Ok(reason) == reason \in WorkedReasons

-----------------------------------------------------------------------------
(* An email about one stock: whether AI stories are switched on, whether   *)
(* the move clears the story bar, what the job's story step came to, and   *)
(* the age groups the family chose, at least one.                          *)
StorySteps == {"story", "provider_paused", "cap_reached", "generation_error"}
AgeChoices == (SUBSET Ages) \ {{}}
Emails == [aiOn : BOOLEAN, big : BOOLEAN, marketDay : BOOLEAN, step : StorySteps, ages : AgeChoices]

(* _stories_for and _stories: the story of a stock, or why it has none. A  *)
(* stock under the bar has neither.                                        *)
HasStory(e) == e.aiOn /\ e.big /\ e.step = "story"

SkippedBecause(e) ==
  CASE ~e.aiOn -> "ai_disabled"
    [] e.aiOn /\ e.big -> e.step
    [] e.aiOn /\ ~e.big -> "below_bar"

(* _story_outcome: is there a view of the story, and what is recorded?     *)
HasView == status = "ready"

StateOf(reason) ==
  CASE reason \in STORY_REASONS -> "story"
    [] reason = "still_generating" -> "pending_followup"
    [] reason = "market_day" -> "market_day_note"
    [] reason = "below_bar" -> "small_move_note"
    [] reason \in LostReasons \cup SkipReasons -> "none"

Block(shown, reason) == [shown |-> shown, reason |-> reason, state |-> StateOf(reason)]

StoryBlock(e) ==
  LET reason == Reason(e.ages, e.marketDay)
  IN  CASE HasView -> Block("story", reason)
        [] ~HasView /\ StateOf(reason) = "market_day_note" -> Block("fixed note", reason)
        [] ~HasView /\ StateOf(reason) = "pending_followup" -> Block("promise", reason)
        [] OTHER -> Block("nothing", reason)

(* kid_block, as the two jobs call it: the small-move note comes before    *)
(* the story.                                                              *)
KidBlockBug(e) ==
  CASE ~e.big -> Block("fixed note", SkippedBecause(e))
    [] e.big /\ HasStory(e) -> StoryBlock(e)
    [] OTHER -> Block("nothing", SkippedBecause(e))
KidBlock(e) ==
  CASE e.aiOn /\ ~e.big -> Block("fixed note", "below_bar")
    [] HasStory(e) -> StoryBlock(e)
    [] OTHER -> Block("nothing", SkippedBecause(e))

-----------------------------------------------------------------------------
(* _story_delivery: the four counts an email can be in.                    *)
CountedAs(row) ==
  UNION { IF row.reason \in STORY_REASONS THEN {"story"} ELSE {},
          IF row.state \in {"small_move_note", "market_day_note"} THEN {"fixed note"} ELSE {},
          IF row.state = "pending_followup" THEN {"promise"} ELSE {},
          IF Ok(row.reason) THEN {} ELSE {"nothing"} }

(* findings about the stories of a day with this story and this email.     *)
StoryFindings(row) ==
  UNION { IF status = "failed" THEN {"stories_failed"} ELSE {},
          IF status = "no_clear_cause" THEN {"mostly_no_cause"} ELSE {},
          IF Ok(row.reason) THEN {} ELSE {"stories_not_delivered"} }

(* stories_report: what the card says of writing again. The number of      *)
(* attempts is recorded after the last of them, so not if one raised.      *)
WriteAttempts ==
  IF status \in Running \/ ending = "exception" \/ attempt = 0 THEN 1 ELSE attempt

Retries ==
  [retried |-> WriteAttempts > 1,
   saved |-> WriteAttempts > 1 /\ status = "ready",
   lost |-> WriteAttempts > 1 /\ status = "failed",
   skipped |-> status = "failed" /\ ending \in Rejections /\ attempt < AttemptsAllowed]

-----------------------------------------------------------------------------
(* Whatever the story has come to when an email leaves, the email is       *)
(* counted once, and as what the family saw in it: an email with nothing   *)
(* for the children is a miss with a finding, and no other is              *)
(* (kid_block, _story_outcome, _story_delivery, findings). Of the stories  *)
(* that were written again each is counted as saved or as lost, and one    *)
(* that went out was not given up for want of time; a story whose attempt  *)
(* raised is not counted (stories_report).                                 *)
EmailsCounted ==
  attempt > 0 \/ status \notin Running =>
    /\ \A e \in Emails :
         LET row == KidBlock(e)
         IN  /\ CountedAs(row) = {row.shown}
             /\ row.shown = "nothing" <=> "stories_not_delivered" \in StoryFindings(row)
    /\ status \notin Running /\ ending # "exception" =>
         /\ Retries.retried <=> attempt > 1
         /\ Retries.retried <=> (Retries.saved \/ Retries.lost)
         /\ Retries.skipped => ~Retries.saved
=============================================================================
