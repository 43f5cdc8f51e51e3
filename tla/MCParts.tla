------------------------------ MODULE MCParts ------------------------------
(* Constants of the runs Parts_*.cfg.                                      *)
EXTENDS Parts, TLC

CONSTANTS t1, w1, w2, f1, d1, p1

Two == {w1, w2}  \* callers or requests of one part
MainAndBackup == <<"gemini", "anthropic">>
MainOnly == {"gemini"}
AllServices == {"gemini", "anthropic", "finnhub"}

YoungAndOld == <<"young", "old">>
OneBadFact == {"sound", "unseen"}

DaySlots == <<[job |-> "pipeline", due |-> 1], [job |-> "pipeline", due |-> 3],
              [job |-> "watchlist_recap", due |-> 4]>>

FiveIdeas == <<"no tag", "no tag", "small_day", "no tag", "big_move">>
KindsOfDays == {{}, {"small_day"}, {"big_move"}}

FiveDays == 1..5

MovesAndRests == {-2, 0, 2}
OneDown == (f1 :> -1)
OneUp == (f1 :> 1)

EveryPart == {"providers", "writing", "rate", "day", "alerts", "triage", "ideas", "prices",
              "intraday"}

Alike == Permutations(Two)
=============================================================================
