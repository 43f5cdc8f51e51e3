------------------------------ MODULE RateLimit ------------------------------
(***************************************************************************)
(* The client side limit of the price providers: at most PerMin requests   *)
(* in any minute. A caller reads the clock, takes _rate_lock, drops the    *)
(* calls that left the window, and takes a slot, gives up or sleeps a      *)
(* little and tries again. All times are in the same units.                *)
(*                                                                         *)
(* Each definition named ...Bug is the one after it with a mistake; no     *)
(* specification uses it.                                                  *)
(***************************************************************************)
EXTENDS Integers, Sequences, FiniteSets, FiniteSetsExt

CONSTANTS
  Callers,   \* threads of the jobs and requests
  PerMin,    \* FINNHUB_MAX_PER_MIN, TWELVEDATA_MAX_PER_MIN
  Minute,    \* 60 s
  MaxWait,   \* _MAX_RATE_WAIT, 75 s
  Nap,       \* the longest sleep between two tries, 5 s
  Lag,       \* how long a thread may be held up before its next step
  Horizon    \* bound: how long the clock runs

ASSUME RateLimitAssumption ==
  /\ PerMin \in Nat \ {0}   \* 0 turns the limit off
  /\ Minute \in Nat \ {0} /\ MaxWait \in Nat /\ Nap \in Nat \ {0}
  /\ Lag \in Nat /\ Horizon \in Nat

VARIABLES
  monotonic,    \* time.monotonic()
  calls,    \* _call_times of one provider, as appended
  caller,   \* what each caller does
  grants    \* history: when the newest PerMin + 1 slots were really given

rateVars == <<monotonic, calls, caller, grants>>

NotCalling == [step |-> "none"]

(* `from` is when the caller may take its next step.                       *)
RateInit ==
  /\ monotonic = 0
  /\ calls = <<>> /\ grants = <<>>
  /\ caller = [c \in Callers |-> NotCalling]

AsksForSlot(c) ==
  /\ caller[c].step = "none"
  /\ caller' = [caller EXCEPT ![c] =
       [step |-> "asks", from |-> monotonic, deadline |-> monotonic + MaxWait]]
  /\ UNCHANGED <<monotonic, calls, grants>>

(* now = time.monotonic(), before the lock.                                *)
ReadsClock(c) ==
  /\ caller[c].step = "asks" /\ caller[c].from <= monotonic
  /\ caller' = [caller EXCEPT ![c] =
       [step |-> "locks", from |-> monotonic, now |-> monotonic, deadline |-> @.deadline]]
  /\ UNCHANGED <<monotonic, calls, grants>>

(* The calls on the left that left the window are dropped.                 *)
InWindow(now) ==
  LET n == Max({0} \cup {i \in DOMAIN calls : \A j \in 1..i : now - calls[j] >= Minute})
  IN  SubSeq(calls, n + 1, Len(calls))

Answered(c) == caller' = [caller EXCEPT ![c] = NotCalling]
Lesser(a, b) == IF a < b THEN a ELSE b

Sleeps(c, wait) ==
  caller' = [caller EXCEPT ![c] =
    [step |-> "asks", from |-> monotonic + Lesser(wait, Nap), deadline |-> @.deadline]]

HasSlotBug(kept) == Len(kept) <= PerMin
HasSlot(kept) == Len(kept) < PerMin

GivesUp(now, wait, deadline) == now + wait > deadline

Newest(q) == SubSeq(q, Max({1, Len(q) - PerMin}), Len(q))

TriesForSlot(c) ==
  LET now == caller[c].now
      kept == InWindow(now)
      wait == Minute - (now - kept[1])
  IN  /\ caller[c].step = "locks"
      /\ IF HasSlot(kept)
         THEN /\ calls' = Append(kept, now)
              /\ grants' = Newest(Append(grants, monotonic))
              /\ Answered(c)
         ELSE /\ calls' = kept
              /\ IF GivesUp(now, wait, caller[c].deadline)
                 THEN Answered(c) ELSE Sleeps(c, wait)
              /\ UNCHANGED grants
      /\ UNCHANGED monotonic

(* Time passes, but no thread is held up for longer than Lag.              *)
ClockTicks ==
  /\ monotonic < Horizon
  /\ \A c \in Callers : caller[c] # NotCalling => monotonic < caller[c].from + Lag
  /\ monotonic' = monotonic + 1
  /\ UNCHANGED <<calls, caller, grants>>

RateNext ==
  \/ \E c \in Callers : AsksForSlot(c) \/ ReadsClock(c) \/ TriesForSlot(c)
  \/ ClockTicks

RateSpec == RateInit /\ [][RateNext]_rateVars

-----------------------------------------------------------------------------
(* Properties.                                                             *)

RateTypeOK ==
  /\ monotonic \in 0..Horizon
  /\ \A i \in DOMAIN calls : calls[i] \in 0..monotonic
  /\ \A c \in Callers : caller[c].step \in {"none", "asks", "locks"}

(* Of any PerMin + 1 requests in a row, whichever callers compete, the     *)
(* last is given its slot at least a window after the first, less Lag: a   *)
(* slot is booked at a time read before the lock was free, so a window may *)
(* see more than PerMin requests, but only by threads held up there, and   *)
(* by no more than they were held up (_rate_limit).                        *)
NeverAbovePerMin ==
  Len(grants) > PerMin =>
    grants[Len(grants)] - grants[1] >= Minute - Lag
=============================================================================
