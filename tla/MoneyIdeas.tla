----------------------------- MODULE MoneyIdeas -----------------------------
(***************************************************************************)
(* The money idea in each recap (services/money_ideas.py): which one a     *)
(* family gets next, from the rows of the ones it got. The rows are        *)
(* written after the email has left: a restart between the two forgets the *)
(* idea, and an email the mail server refuses counts as sent.              *)
(*                                                                         *)
(* Each definition named ...Bug is the one after it with a mistake; no     *)
(* specification uses it.                                                  *)
(***************************************************************************)
EXTENDS Naturals, Sequences, FiniteSets, FiniteSetsExt

CONSTANTS
  Curriculum,    \* the tag of each idea, in order, "no tag" if it has none
  FOUNDATION,    \* ideas sent in order before the day is looked at
  OldestWindow,  \* oldest ideas among which a fitting one is preferred
  DayTags,       \* the sets of tags a day may have
  MaxTradingDay, \* bound: trading days
  MaxLost        \* bound: emails refused and rows lost

Ideas == DOMAIN Curriculum
Tagged == {i \in Ideas : Curriculum[i] # "no tag"}

(* CURRICULUM has 20 ideas, 5 of them with a tag, and looks at the 5 oldest. *)
ASSUME MoneyIdeasAssumption ==
  /\ Curriculum \in Seq(STRING)
  /\ FOUNDATION \in 0..Cardinality(Ideas)
  /\ OldestWindow \in 1..Cardinality(Ideas \ Tagged)
  /\ \A tags \in DayTags : "no tag" \notin tags
  /\ MaxTradingDay \in Nat \ {0} /\ MaxLost \in Nat

VARIABLES
  tradingDay,  \* trading days so far
  sends,       \* money_idea_sends: [idea, day]
  mails,       \* history: the ideas the family read in its email
  lost         \* emails refused and rows lost so far

ideaVars == <<tradingDay, sends, mails, lost>>

IdeaInit == tradingDay = 1 /\ sends = {} /\ mails = {} /\ lost = 0

-----------------------------------------------------------------------------
(* next_idea.                                                              *)

SentIdeas == {s.idea : s \in sends}
LastSent(i) == Max({s.day : s \in {x \in sends : x.idea = i}})
Fitting(S, tags) == {i \in S : Curriculum[i] \in tags}

(* The oldest ones, by the day they were last sent.                        *)
Oldest == {i \in Ideas : Cardinality({j \in Ideas : LastSent(j) < LastSent(i)}) < OldestWindow}

OldestFirst(S) == CHOOSE i \in S : \A j \in S : LastSent(i) <= LastSent(j)

NextIdeaBug(tags) ==
  LET unsent == Ideas \ SentIdeas
      fitting == Fitting(IF unsent # {} THEN unsent ELSE Ideas, tags)
  IN CASE unsent # {} /\ Cardinality(SentIdeas) >= FOUNDATION /\ fitting # {} -> Min(fitting)
       [] unsent # {} /\ ~(Cardinality(SentIdeas) >= FOUNDATION /\ fitting # {}) -> Min(unsent)
       [] unsent = {} /\ fitting # {} -> OldestFirst(fitting)
       [] OTHER -> OldestFirst(Ideas)

NextIdea(tags) ==
  LET unsent == Ideas \ SentIdeas
      fitting == Fitting(IF unsent # {} THEN unsent ELSE Oldest, tags)
  IN CASE unsent # {} /\ Cardinality(SentIdeas) >= FOUNDATION /\ fitting # {} -> Min(fitting)
       [] unsent # {} /\ ~(Cardinality(SentIdeas) >= FOUNDATION /\ fitting # {}) -> Min(unsent)
       [] unsent = {} /\ fitting # {} -> OldestFirst(fitting)
       [] OTHER -> OldestFirst(Ideas)

(* _send_recap and _send_starter_recap: the email, then its row.           *)
RecapWithIdea ==
  /\ tradingDay < MaxTradingDay /\ tradingDay' = tradingDay + 1
  /\ \E tags \in DayTags :
       LET entry == [idea |-> NextIdea(tags), day |-> tradingDay]
       IN \/ sends' = sends \union {entry} /\ mails' = mails \union {entry} /\ UNCHANGED lost
          \/ /\ lost < MaxLost /\ lost' = lost + 1
             /\ \/ sends' = sends \union {entry} /\ UNCHANGED mails  \* refused
                \/ mails' = mails \union {entry} /\ UNCHANGED sends  \* forgotten

IdeaSpec == IdeaInit /\ [][RecapWithIdea]_ideaVars

-----------------------------------------------------------------------------
(* Properties.                                                             *)

IdeaTypeOK ==
  /\ tradingDay \in 1..MaxTradingDay /\ lost \in 0..MaxLost
  /\ sends \union mails \subseteq [idea : Ideas, day : 1..MaxTradingDay]

Between(d, e) == {s.idea : s \in {x \in sends : d < x.day /\ x.day < e}}

(* The basics come first and in order, and no idea comes twice while       *)
(* another has not been sent.                                              *)
FirstRound ==
  \A s \in sends :
    LET before == {x.idea : x \in {y \in sends : y.day < s.day}}
    IN /\ Cardinality(before) < FOUNDATION => s.idea = Cardinality(before) + 1
       /\ s.idea \in before => before = Ideas

(* An idea the family has read is not in its email again before all ideas  *)
(* but the five oldest have been sent in between, however the days fall,   *)
(* unless the row of its last sending was lost.                            *)
NoEarlyRepeat ==
  \A m \in mails, n \in mails :
    m.idea = n.idea /\ m.day < n.day /\ m \in sends =>
      Cardinality(Between(m.day, n.day)) >= Cardinality(Ideas) - OldestWindow

(* However often other ideas fit the day better, every idea has its turn   *)
(* again. While one waits every other comes once, and an idea with a tag   *)
(* comes again as long as it is among the oldest beside the waiting one:   *)
(* at most once for each place there.                                      *)
NobodySkipped ==
  SentIdeas = Ideas =>
    \A i \in Ideas :
      Cardinality({s \in sends : s.day > LastSent(i)}) <
        Cardinality(Ideas) + (OldestWindow - 1) * Cardinality(Tagged)

(* The three together: next_idea gives every idea its turn.                *)
IdeasTakeTurns == FirstRound /\ NoEarlyRepeat /\ NobodySkipped
=============================================================================
