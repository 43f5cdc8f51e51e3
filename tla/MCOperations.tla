---------------------------- MODULE MCOperations ----------------------------
(* Model values and sets for checking Operations with TLC. *)
EXTENDS Operations

TwoThreads == {"heartbeat", "pipeline"}

(* The store before the mailing handler is the one after it once more.     *)
OneStore == <<"email", "info_logs">>

(* Every refusal reads the same after a few: it quotes the subject of the  *)
(* alert, which is cut at 80 characters.                                   *)
MissedMessage(s) == IF s = 1 THEN "missed slot 1" ELSE "missed slot 2"
Stage == "stage failed"
Refused(m) == "refused"
None == {}
Pool == {"pool error"}
FewMessages == {MissedMessage(1), MissedMessage(2), Stage, Refused(Stage)}
PoolMessages == FewMessages \cup Pool
=============================================================================
