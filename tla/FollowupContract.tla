-------------------------- MODULE FollowupContract --------------------------
(***************************************************************************)
(* What the follow-up table promises, whoever works on it: a family that    *)
(* was told "we're still looking" is owed one answer.  Somebody takes the   *)
(* debt over, once; from then on it is either told, or lost with whoever    *)
(* had taken it over.  A debt can also be dropped (no story, or nobody to   *)
(* deliver to).  Nothing is ever told twice, and no settled debt reopens.   *)
(***************************************************************************)
EXTENDS Naturals

CONSTANT Debts          \* one per (story, family)

VARIABLE debt

DebtStates == {"none", "owed", "taken", "told", "dropped", "lost"}

Settled == {"told", "dropped", "lost"}

ContractTypeOK == debt \in [Debts -> DebtStates]

ContractInit == debt = [d \in Debts |-> "none"]

\* Move every debt of D from state x to state y, in one step.
Move(D, x, y) ==
    /\ \A d \in D : debt[d] = x
    /\ debt' = [d \in Debts |-> IF d \in D THEN y ELSE debt[d]]

\* One commit may record several debts; one crash may lose several.
Owe(D)   == Move(D, "none", "owed")
Lose(D)  == Move(D, "taken", "lost")
Take(d)  == Move({d}, "owed", "taken")
Tell(d)  == Move({d}, "taken", "told")
Drop(d)  == Move({d}, "owed", "dropped")

ContractNext ==
    \/ \E D \in SUBSET Debts : Owe(D) \/ Lose(D)
    \/ \E d \in Debts : Take(d) \/ Tell(d) \/ Drop(d)

ContractSpec == ContractInit /\ [][ContractNext]_debt

\* Every debt is settled in the end.
EveryDebtSettled == \A d \in Debts : debt[d] = "owed" ~> debt[d] \in Settled
=============================================================================
