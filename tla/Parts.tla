-------------------------------- MODULE Parts --------------------------------
(***************************************************************************)
(* The small parts of the system, which share no state: a behaviour is one *)
(* of the part chosen at its start, and the others rest.                   *)
(***************************************************************************)
EXTENDS Providers, StoryEmails, RateLimit, DayReport, AlertRows, Triage,
        MoneyIdeas, Prices, RangeAlerts

CONSTANT Chosen  \* the parts a behaviour may be of

VARIABLE part

partsVars == <<part, providerVars, storyVars, rateVars, dayVars, alertVars,
               triageVars, ideaVars, priceVars, rangeVars>>

(* Where a part can begin in several ways, a resting one begins in one.    *)
PartsInit ==
  /\ part \in Chosen
  /\ ProvidersInit /\ StoryInit /\ RateInit /\ TriageInit /\ IdeaInit
  /\ RangeInit
  /\ DayInit /\ (part # "day" => \A f \in Families : gates[f] = {})
  /\ AlertInit /\ (part # "alerts" => \A p \in AlertPairs : story[p] = "no row")
  /\ PriceInit /\ (part # "prices" => book[1] = NoPrice)

PartsNext ==
  /\ UNCHANGED part
  /\ \/ part = "providers" /\ ProvidersNext
     \/ part # "providers" /\ UNCHANGED providerVars
  /\ \/ part = "writing" /\ StoryNext
     \/ part # "writing" /\ UNCHANGED storyVars
  /\ \/ part = "rate" /\ RateNext
     \/ part # "rate" /\ UNCHANGED rateVars
  /\ \/ part = "day" /\ DayNext
     \/ part # "day" /\ UNCHANGED dayVars
  /\ \/ part = "alerts" /\ AlertNext
     \/ part # "alerts" /\ UNCHANGED alertVars
  /\ \/ part = "triage" /\ TriageNext
     \/ part # "triage" /\ UNCHANGED triageVars
  /\ \/ part = "ideas" /\ RecapWithIdea
     \/ part # "ideas" /\ UNCHANGED ideaVars
  /\ \/ part = "prices" /\ PriceNext
     \/ part # "prices" /\ UNCHANGED priceVars
  /\ \/ part = "intraday" /\ RangeNext
     \/ part # "intraday" /\ UNCHANGED rangeVars

PartsSpec == PartsInit /\ [][PartsNext]_partsVars

-----------------------------------------------------------------------------
(* The types of all of them.                                               *)
PartsTypeOK ==
  /\ ProvidersTypeOK /\ StoryTypeOK /\ RateTypeOK /\ DayTypeOK /\ AlertTypeOK
  /\ TriageTypeOK /\ IdeaTypeOK /\ PriceTypeOK /\ RangeTypeOK
=============================================================================
