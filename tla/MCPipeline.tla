----------------------------- MODULE MCPipeline -----------------------------
(***************************************************************************)
(* Instances of Pipeline for TLC.  Users and tickers are interchangeable.   *)
(***************************************************************************)
EXTENDS Pipeline, TLC

CONSTANTS u1, u2, t1, t2

OneUser == {u1}
TwoUsers == {u1, u2}
OneTicker == {t1}
TwoTickers == {t1, t2}

Symmetry == Permutations(TwoUsers) \cup Permutations(TwoTickers)

=============================================================================
