---------------------------- MODULE PriceProofs ----------------------------
(***************************************************************************)
(* Theorems about RateLimit, for all callers, limits and delays, and about *)
(* what is made of the prices: Prices, for all windows and corrections,    *)
(* and RangeAlerts, for all bands, moves and delays.                       *)
(***************************************************************************)
EXTENDS RateLimit, Prices, RangeAlerts, NumberFacts, SequenceTheorems

(* Each caller takes its next step at most Lag after it may.               *)
Asking  == [step : {"asks"}, from : Nat, deadline : Nat]
Locking == [step : {"locks"}, from : Nat, now : Nat, deadline : Nat]

CallerOK(q, t) ==
  \/ q = NotCalling
  \/ q \in Asking /\ t <= q.from + Lag
  \/ q \in Locking /\ q.now <= t /\ t <= q.now + Lag /\ q.from = q.now

RateTypeInv ==
  /\ monotonic \in 0..Horizon
  /\ calls \in Seq(Nat) /\ grants \in Seq(Nat)
  /\ \A i \in 1..Len(calls) : calls[i] <= monotonic
  /\ DOMAIN caller = Callers
  /\ \A c \in Callers : CallerOK(caller[c], monotonic)

(* The calls kept are the newest slots given, each booked at most Lag      *)
(* before it was given; whoever was dropped was a window old by then.      *)
Older == Len(grants) - Len(calls)

SlotInv ==
  /\ Len(calls) <= PerMin /\ Len(calls) <= Len(grants) /\ Len(grants) <= PerMin + 1
  /\ \A j \in 1..Len(calls) : grants[Older + j] <= calls[j] + Lag
  /\ \A j \in 1..Older : grants[j] + Minute <= monotonic + Lag

RateInv == RateTypeInv /\ SlotInv /\ NeverAbovePerMin

(* Only calls at least a window old are dropped, and all that are older    *)
(* than the oldest one kept.                                               *)
LEMMA WindowFact ==
  ASSUME calls \in Seq(Nat), NEW now \in Nat
  PROVE  \E d \in 0..Len(calls) :
           /\ InWindow(now) = SubSeq(calls, d + 1, Len(calls))
           /\ \A j \in 1..d : now - calls[j] >= Minute
           /\ d < Len(calls) => now - calls[d + 1] < Minute
<1> DEFINE Old == {i \in DOMAIN calls : \A j \in 1..i : now - calls[j] >= Minute}
           d == Max({0} \cup Old)
<1>1. Len(calls) \in Nat /\ DOMAIN calls = 1..Len(calls)
  BY LenProperties
<1>2. {0} \cup Old \in SUBSET (0..Len(calls))
  BY <1>1
<1>3. d \in {0} \cup Old /\ \A y \in {0} \cup Old : y <= d
  <2> HIDE DEF Old
  <2>1. QED BY <1>1, <1>2, MaxFact
<1>4. InWindow(now) = SubSeq(calls, d + 1, Len(calls))
  BY DEF InWindow
<1> HIDE DEF d
<1>5. d \in 0..Len(calls)
  BY <1>2, <1>3
<1>6. \A j \in 1..d : now - calls[j] >= Minute
  BY <1>3
<1>7. ASSUME d < Len(calls), now - calls[d + 1] >= Minute PROVE FALSE
  <2>1. d + 1 \in DOMAIN calls
    BY <1>1, <1>5, <1>7
  <2>2. \A j \in 1..(d + 1) : j \in 1..d \/ j = d + 1
    BY <1>5
  <2>3. d + 1 \in Old
    BY <1>6, <1>7, <2>1, <2>2
  <2>4. QED BY <1>3, <1>5, <2>3
<1>8. calls[d + 1] \in Nat \/ ~(d < Len(calls))
  BY <1>1, <1>5, ElementOfSeq
<1>9. d < Len(calls) => now - calls[d + 1] < Minute
  BY <1>7, <1>8, RateLimitAssumption
<1>10. QED BY <1>4, <1>5, <1>6, <1>9

(* The newest PerMin + 1 elements.                                         *)
LEMMA NewestFact ==
  ASSUME NEW q \in Seq(Nat), NEW n \in Nat, n = Len(q), n >= 1,
         NEW s \in 1..n, s = (IF n <= PerMin THEN 1 ELSE n - PerMin)
  PROVE  /\ Newest(q) \in Seq(Nat)
         /\ Len(Newest(q)) = n - s + 1
         /\ \A i \in 1..(n - s + 1) : Newest(q)[i] = q[s + i - 1]
<1>1. Max({1, n - PerMin}) = s
  BY MaxOfTwo, RateLimitAssumption
<1>2. Newest(q) = SubSeq(q, s, n)
  BY <1>1 DEF Newest
<1>3. \A i \in s..n : q[i] \in Nat
  BY ElementOfSeq
<1>4. QED BY <1>2, <1>3, SubSeqProperties, SMTT(30)

(* The arithmetic of the places: of n slots and one more, those from s on  *)
(* are kept.                                                               *)
LEMMA KeptPlaces ==
  ASSUME NEW P \in Nat \ {0}, NEW n \in Nat,
         NEW s \in Nat, s = (IF n + 1 <= P THEN 1 ELSE n + 1 - P)
  PROVE  /\ s \in 1..(n + 1)
         /\ (n + 1) - s + 1 = n + 2 - s
         /\ n + 2 - s \in 1..(P + 1)
         /\ n + 2 - s = n + 1 \/ n + 2 - s = P + 1
         /\ \A i \in 1..(n + 2 - s) :
              /\ s + i - 1 \in 1..(n + 1)
              /\ s + i - 1 = n + 1 \/ s + i - 1 \in 1..n
OBVIOUS

FirstOf(n) == IF n + 1 <= PerMin THEN 1 ELSE n + 1 - PerMin

(* q is g and then t, from place s of g on.                                *)
Rest(q, g, t, n, s) ==
  /\ q \in Seq(Nat) /\ Len(q) = n + 2 - s
  /\ \A i \in 1..(n + 2 - s) : q[i] = IF s + i - 1 = n + 1 THEN t ELSE g[s + i - 1]

LEMMA NewestAfterAppend ==
  ASSUME NEW g \in Seq(Nat), NEW t \in Nat, NEW n \in Nat, NEW s \in Nat,
         n = Len(g), s = FirstOf(n)
  PROVE  Rest(Newest(Append(g, t)), g, t, n, s)
<1> DEFINE q == Append(g, t)
<1>1. /\ s \in 1..(n + 1) /\ (n + 1) - s + 1 = n + 2 - s
      /\ \A i \in 1..(n + 2 - s) : s + i - 1 = n + 1 \/ s + i - 1 \in 1..n
  BY KeptPlaces, RateLimitAssumption DEF FirstOf
<1>2. /\ q \in Seq(Nat) /\ Len(q) = n + 1 /\ q[n + 1] = t
      /\ \A i \in 1..n : q[i] = g[i]
  BY AppendProperties
<1> HIDE DEF q
<1>3. /\ Newest(q) \in Seq(Nat)
      /\ Len(Newest(q)) = (n + 1) - s + 1
      /\ \A i \in 1..((n + 1) - s + 1) : Newest(q)[i] = q[s + i - 1]
  <2>1. PICK m \in Nat : m = n + 1
    OBVIOUS
  <2>2. m = Len(q) /\ m >= 1 /\ s \in 1..m
    BY <1>1, <1>2, <2>1
  <2>3. s = (IF m <= PerMin THEN 1 ELSE m - PerMin)
    <3>1. CASE n + 1 <= PerMin
      BY <2>1, <3>1 DEF FirstOf
    <3>2. CASE ~(n + 1 <= PerMin)
      BY <2>1, <3>2, RateLimitAssumption DEF FirstOf
    <3>3. QED BY <3>1, <3>2
  <2>4. /\ Newest(q) \in Seq(Nat)
        /\ Len(Newest(q)) = m - s + 1
        /\ \A i \in 1..(m - s + 1) : Newest(q)[i] = q[s + i - 1]
    BY <1>2, <2>2, <2>3, NewestFact
  <2>5. QED BY <2>1, <2>4
<1>4. ASSUME NEW i \in 1..(n + 2 - s)
      PROVE  Newest(q)[i] = IF s + i - 1 = n + 1 THEN t ELSE g[s + i - 1]
  <2>1. Newest(q)[i] = q[s + i - 1]
    BY <1>1, <1>3
  <2>2. CASE s + i - 1 = n + 1
    BY <1>2, <2>1, <2>2
  <2>3. CASE s + i - 1 # n + 1
    BY <1>1, <1>2, <2>1, <2>3
  <2>4. QED BY <2>2, <2>3
<1>5. QED BY <1>1, <1>3, <1>4 DEF q, Rest

(* What a caller that gets the lock finds: d calls are dropped.            *)
LEMMA KeptFact ==
  ASSUME RateInv, NEW c \in Callers, caller[c].step = "locks",
         NEW now, now = caller[c].now
  PROVE  /\ now \in Nat /\ now <= monotonic /\ monotonic <= now + Lag
         /\ \E d \in 0..Len(calls) :
              /\ InWindow(now) \in Seq(Nat)
              /\ Len(InWindow(now)) = Len(calls) - d
              /\ \A i \in 1..(Len(calls) - d) : InWindow(now)[i] = calls[d + i]
              /\ \A j \in 1..d : grants[Older + j] + Minute <= monotonic + Lag
              /\ d < Len(calls) => now - InWindow(now)[1] < Minute
<1>1. now \in Nat /\ now <= monotonic /\ monotonic <= now + Lag
  BY DEF RateInv, RateTypeInv, CallerOK, Locking, Asking, NotCalling
<1>2. calls \in Seq(Nat) /\ Len(calls) \in Nat /\ monotonic \in Nat
  BY LenProperties DEF RateInv, RateTypeInv
<1>3. PICK d \in 0..Len(calls) :
           /\ InWindow(now) = SubSeq(calls, d + 1, Len(calls))
           /\ \A j \in 1..d : now - calls[j] >= Minute
           /\ d < Len(calls) => now - calls[d + 1] < Minute
  BY <1>1, <1>2, WindowFact
<1>4. \A i \in (d + 1)..Len(calls) : calls[i] \in Nat
  BY <1>2, <1>3, ElementOfSeq
<1>5. /\ InWindow(now) \in Seq(Nat)
      /\ Len(InWindow(now)) = Len(calls) - d
      /\ \A i \in 1..(Len(calls) - d) : InWindow(now)[i] = calls[d + i]
  BY <1>2, <1>3, <1>4, SubSeqProperties
<1>6. ASSUME NEW j \in 1..d PROVE grants[Older + j] + Minute <= monotonic + Lag
  <2>1. j \in 1..Len(calls) /\ calls[j] \in Nat
    BY <1>2, ElementOfSeq
  <2>2. grants[Older + j] <= calls[j] + Lag /\ now - calls[j] >= Minute
    BY <1>3, <2>1 DEF RateInv, SlotInv
  <2>3. grants[Older + j] \in Nat
    <3>1. grants \in Seq(Nat) /\ Len(grants) \in Nat /\ Len(calls) <= Len(grants)
      BY LenProperties DEF RateInv, RateTypeInv, SlotInv
    <3>2. Older + j \in 1..Len(grants)
      BY <1>2, <2>1, <3>1 DEF Older
    <3>3. QED BY <3>1, <3>2, ElementOfSeq
  <2>4. now \in Nat /\ monotonic \in Nat /\ now <= monotonic /\ Lag \in Nat /\ Minute \in Nat
    BY <1>1, <1>2, RateLimitAssumption
  <2>5. QED BY <2>1, <2>2, <2>3, <2>4, SMTT(30)
<1>7. d < Len(calls) => now - InWindow(now)[1] < Minute
  BY <1>2, <1>3, <1>5
<1>8. QED BY <1>1, <1>5, <1>6, <1>7

(* The places again: d of L calls are dropped and one is added, and of the *)
(* G slots given and the new one those from s on are kept.                 *)
LEMMA SlotPlaces ==
  ASSUME NEW P \in Nat \ {0}, NEW L \in Nat, NEW G \in Nat, NEW K \in Nat,
         NEW d \in Nat, K = L - d, K < P, L <= G, G <= P + 1,
         NEW s \in Nat, s = (IF G + 1 <= P THEN 1 ELSE G + 1 - P),
         NEW N \in Nat, N = G + 2 - s
  PROVE  /\ K + 1 <= P /\ N <= P + 1 /\ K + 1 <= N
         /\ \A j \in 1..(K + 1) :
              /\ (N - (K + 1)) + j \in 1..N
              /\ s + ((N - (K + 1)) + j) - 1 = (G - L) + (d + j)
              /\ (G - L) + (d + j) = G + 1 <=> j = K + 1
              /\ j # K + 1 => j \in 1..K /\ d + j \in 1..L
         /\ \A j \in 1..(N - (K + 1)) :
              /\ j \in 1..N /\ s + j - 1 # G + 1
              /\ \/ s + j - 1 \in 1..(G - L)
                 \/ \E k \in 1..d : s + j - 1 = (G - L) + k
         /\ N > P => 1 \in 1..(N - (K + 1)) /\ 1 \in 1..N /\ N \in 1..N /\ s + N - 1 = G + 1
<1>1. K + 1 <= P /\ N <= P + 1 /\ K + 1 <= N
  OBVIOUS
<1>2. ASSUME NEW j \in 1..(K + 1)
      PROVE  /\ (N - (K + 1)) + j \in 1..N
             /\ s + ((N - (K + 1)) + j) - 1 = (G - L) + (d + j)
             /\ (G - L) + (d + j) = G + 1 <=> j = K + 1
             /\ j # K + 1 => j \in 1..K /\ d + j \in 1..L
  BY <1>1
<1>3. ASSUME NEW j \in 1..(N - (K + 1))
      PROVE  /\ j \in 1..N /\ s + j - 1 # G + 1
             /\ \/ s + j - 1 \in 1..(G - L)
                \/ \E k \in 1..d : s + j - 1 = (G - L) + k
  <2>1. j \in 1..N /\ s + j - 1 \in 1..((G - L) + d) /\ s + j - 1 # G + 1
    BY <1>1
  <2>2. CASE s + j - 1 > G - L
    <3>1. (s + j - 1) - (G - L) \in 1..d
      BY <2>1, <2>2
    <3>2. s + j - 1 = (G - L) + ((s + j - 1) - (G - L))
      OBVIOUS
    <3>3. QED BY <2>1, <3>1, <3>2
  <2>3. QED BY <2>1, <2>2
<1>4. N > P => 1 \in 1..(N - (K + 1)) /\ 1 \in 1..N /\ N \in 1..N /\ s + N - 1 = G + 1
  BY <1>1
<1>5. QED BY <1>1, <1>2, <1>3, <1>4

(* A slot is given: the newest slots still cover the calls kept, and with  *)
(* PerMin + 1 of them the first is a window old.                           *)
LEMMA GrantKeepsSlots ==
  ASSUME RateInv, NEW c \in Callers, TriesForSlot(c), HasSlot(InWindow(caller[c].now))
  PROVE  /\ calls' \in Seq(Nat) /\ grants' \in Seq(Nat)
         /\ \A i \in 1..Len(calls') : calls'[i] <= monotonic
         /\ SlotInv' /\ NeverAbovePerMin'
<1> PICK now : now = caller[c].now
  OBVIOUS
<1> PICK kept : kept = InWindow(now)
  OBVIOUS
<1>1. /\ calls' = Append(kept, now) /\ grants' = Newest(Append(grants, monotonic))
      /\ monotonic' = monotonic /\ caller[c].step = "locks" /\ Len(kept) < PerMin
  BY DEF TriesForSlot, HasSlot
<1>2. PICK L \in Nat, G \in Nat : L = Len(calls) /\ G = Len(grants)
  BY LenProperties DEF RateInv, RateTypeInv
<1>3. /\ monotonic \in Nat /\ grants \in Seq(Nat)
      /\ L <= PerMin /\ L <= G /\ G <= PerMin + 1
      /\ \A i \in 1..L : calls[i] <= monotonic
      /\ \A j \in 1..L : grants[(G - L) + j] <= calls[j] + Lag
      /\ \A j \in 1..(G - L) : grants[j] + Minute <= monotonic + Lag
  BY <1>2 DEF RateInv, RateTypeInv, SlotInv, Older
<1>4. /\ now \in Nat /\ now <= monotonic /\ monotonic <= now + Lag
      /\ \E d \in 0..Len(calls) :
           /\ kept \in Seq(Nat)
           /\ Len(kept) = Len(calls) - d
           /\ \A i \in 1..(Len(calls) - d) : kept[i] = calls[d + i]
           /\ \A j \in 1..d : grants[Older + j] + Minute <= monotonic + Lag
           /\ d < Len(calls) => now - kept[1] < Minute
  BY <1>1, KeptFact
<1>5. PICK d \in 0..L :
           /\ kept \in Seq(Nat)
           /\ Len(kept) = L - d
           /\ \A i \in 1..(L - d) : kept[i] = calls[d + i]
           /\ \A j \in 1..d : grants[(G - L) + j] + Minute <= monotonic + Lag
  BY <1>2, <1>4 DEF Older
<1>6. PICK K \in Nat : K = L - d /\ K = Len(kept)
  BY <1>5
<1>7. /\ calls' \in Seq(Nat) /\ Len(calls') = K + 1 /\ calls'[K + 1] = now
      /\ \A i \in 1..K : calls'[i] = kept[i]
  <2>1. kept \in Seq(Nat) /\ now \in Nat
    BY <1>4, <1>5
  <2>2. /\ Append(kept, now) \in Seq(Nat) /\ Len(Append(kept, now)) = Len(kept) + 1
        /\ \A i \in 1..Len(kept) : Append(kept, now)[i] = kept[i]
        /\ Append(kept, now)[Len(kept) + 1] = now
    BY <2>1, AppendProperties
  <2>3. QED BY <1>1, <1>6, <2>2
<1>8. \A i \in 1..K : calls'[i] = calls[d + i]
  BY <1>5, <1>6, <1>7
<1>9. PICK s \in Nat : s = FirstOf(G) /\ s = (IF G + 1 <= PerMin THEN 1 ELSE G + 1 - PerMin)
  <2>1. CASE G + 1 <= PerMin
    BY <2>1 DEF FirstOf
  <2>2. CASE ~(G + 1 <= PerMin)
    <3>1. G + 1 - PerMin \in Nat
      BY <2>2, RateLimitAssumption
    <3>2. QED BY <2>2, <3>1 DEF FirstOf
  <2>3. QED BY <2>1, <2>2
<1>10. PICK N \in Nat : N = G + 2 - s
  <2>1. G + 2 - s \in Nat
    BY <1>9, RateLimitAssumption
  <2>2. QED BY <2>1
<1>11. /\ grants' \in Seq(Nat) /\ Len(grants') = N
       /\ \A i \in 1..N : grants'[i] = IF s + i - 1 = G + 1 THEN monotonic
                                                         ELSE grants[s + i - 1]
  <2>1. /\ grants \in Seq(Nat) /\ monotonic \in Nat /\ G \in Nat /\ G = Len(grants)
        /\ s \in Nat /\ s = FirstOf(G)
    BY <1>2, <1>3, <1>9
  <2>2. Rest(Newest(Append(grants, monotonic)), grants, monotonic, G, s)
    BY <2>1, NewestAfterAppend
  <2>3. QED BY <1>1, <1>10, <2>2 DEF Rest
<1>12. /\ K + 1 <= PerMin /\ N <= PerMin + 1 /\ K + 1 <= N
       /\ \A j \in 1..(K + 1) :
            /\ (N - (K + 1)) + j \in 1..N
            /\ s + ((N - (K + 1)) + j) - 1 = (G - L) + (d + j)
            /\ (G - L) + (d + j) = G + 1 <=> j = K + 1
            /\ j # K + 1 => j \in 1..K /\ d + j \in 1..L
       /\ \A j \in 1..(N - (K + 1)) :
            /\ j \in 1..N /\ s + j - 1 # G + 1
            /\ \/ s + j - 1 \in 1..(G - L)
               \/ \E k \in 1..d : s + j - 1 = (G - L) + k
       /\ N > PerMin => 1 \in 1..(N - (K + 1)) /\ 1 \in 1..N /\ N \in 1..N /\ s + N - 1 = G + 1
  <2>1. K < PerMin /\ d \in Nat
    BY <1>1, <1>6
  <2>2. QED BY <1>3, <1>6, <1>9, <1>10, <2>1, SlotPlaces, RateLimitAssumption
<1>13. ASSUME NEW i \in 1..(K + 1) PROVE calls'[i] <= monotonic
  BY <1>3, <1>4, <1>7, <1>8, <1>12
<1>14. ASSUME NEW j \in 1..(K + 1)
       PROVE  grants'[(N - (K + 1)) + j] <= calls'[j] + Lag
  <2>1. grants'[(N - (K + 1)) + j] =
           IF j = K + 1 THEN monotonic ELSE grants[(G - L) + (d + j)]
    <3>1. PICK i \in 1..N : i = (N - (K + 1)) + j
      BY <1>12
    <3>2. s + i - 1 = (G - L) + (d + j) /\ ((G - L) + (d + j) = G + 1 <=> j = K + 1)
      BY <1>12, <3>1
    <3>3. QED BY <1>11, <3>1, <3>2
  <2>2. CASE j = K + 1
    BY <1>4, <1>7, <2>1, <2>2
  <2>3. CASE j # K + 1
    BY <1>3, <1>8, <1>12, <2>1, <2>3
  <2>4. QED BY <2>2, <2>3
<1>15. ASSUME NEW j \in 1..(N - (K + 1))
       PROVE  grants'[j] + Minute <= monotonic + Lag
  <2>1. grants'[j] = grants[s + j - 1]
    BY <1>11, <1>12
  <2>2. CASE s + j - 1 \in 1..(G - L)
    BY <1>3, <2>1, <2>2
  <2>3. CASE \E k \in 1..d : s + j - 1 = (G - L) + k
    BY <1>5, <2>1, <2>3
  <2>4. QED BY <1>12, <2>2, <2>3
<1>16. SlotInv'
  <2>1. \A j \in 1..Len(calls') : grants'[(N - Len(calls')) + j] <= calls'[j] + Lag
    BY <1>7, <1>14
  <2>2. \A j \in 1..(N - Len(calls')) : grants'[j] + Minute <= monotonic' + Lag
    BY <1>1, <1>7, <1>15
  <2>3. QED BY <1>7, <1>11, <1>12, <2>1, <2>2 DEF SlotInv, Older
<1>17. NeverAbovePerMin'
  <2> SUFFICES ASSUME N > PerMin PROVE grants'[N] - grants'[1] >= Minute - Lag
    BY <1>11 DEF NeverAbovePerMin
  <2>1. grants'[1] + Minute <= monotonic + Lag
    BY <1>12, <1>15
  <2>2. grants'[N] = monotonic
    BY <1>11, <1>12
  <2>3. grants'[1] \in Nat
    BY <1>11, <1>12, ElementOfSeq
  <2>4. QED BY <1>3, <2>1, <2>2, <2>3, RateLimitAssumption
<1>18. QED BY <1>7, <1>11, <1>13, <1>16, <1>17

(* No slot: only calls that left the window are dropped.                   *)
LEMMA RefusalKeepsSlots ==
  ASSUME RateInv, NEW c \in Callers, TriesForSlot(c), ~HasSlot(InWindow(caller[c].now))
  PROVE  /\ calls' \in Seq(Nat) /\ grants' = grants
         /\ \A i \in 1..Len(calls') : calls'[i] <= monotonic
         /\ SlotInv' /\ NeverAbovePerMin'
         /\ Minute - (caller[c].now - InWindow(caller[c].now)[1]) \in Nat
<1> DEFINE now == caller[c].now
           kept == InWindow(now)
           L == Len(calls)
           G == Len(grants)
           K == Len(kept)
<1>1. /\ calls' = kept /\ grants' = grants /\ monotonic' = monotonic
      /\ caller[c].step = "locks" /\ ~(K < PerMin)
  BY DEF TriesForSlot, HasSlot
<1>2. /\ now \in Nat /\ now <= monotonic /\ monotonic <= now + Lag
      /\ \E d \in 0..L :
           /\ kept \in Seq(Nat)
           /\ K = L - d
           /\ \A i \in 1..(L - d) : kept[i] = calls[d + i]
           /\ \A j \in 1..d : grants[Older + j] + Minute <= monotonic + Lag
           /\ d < L => now - kept[1] < Minute
  <2> HIDE DEF now
  <2>1. QED BY <1>1, KeptFact DEF now
<1>3. /\ L \in Nat /\ G \in Nat /\ monotonic \in Nat
      /\ calls \in Seq(Nat) /\ grants \in Seq(Nat)
      /\ L <= PerMin /\ L <= G /\ G <= PerMin + 1
      /\ \A i \in 1..L : calls[i] <= monotonic
      /\ \A j \in 1..L : grants[(G - L) + j] <= calls[j] + Lag
      /\ \A j \in 1..(G - L) : grants[j] + Minute <= monotonic + Lag
  BY LenProperties DEF RateInv, RateTypeInv, SlotInv, Older
<1> HIDE DEF now, kept
<1>4. PICK d \in 0..L :
           /\ kept \in Seq(Nat)
           /\ K = L - d
           /\ \A i \in 1..(L - d) : kept[i] = calls[d + i]
           /\ \A j \in 1..d : grants[(G - L) + j] + Minute <= monotonic + Lag
           /\ d < L => now - kept[1] < Minute
  BY <1>2 DEF Older
<1>5. d = 0 /\ L = K /\ L > 0
  BY <1>1, <1>3, <1>4, RateLimitAssumption
<1>6. kept[1] \in Nat
  BY <1>4, <1>5, <1>3, ElementOfSeq
<1>7. Minute - (now - kept[1]) \in Nat
  BY <1>2, <1>4, <1>5, <1>6, RateLimitAssumption
<1>8. \A i \in 1..K : kept[i] = calls[i]
  BY <1>4, <1>5, <1>3
<1>9. SlotInv' /\ NeverAbovePerMin'
  <2>1. NeverAbovePerMin'
    BY <1>1 DEF RateInv, NeverAbovePerMin
  <2>2. SlotInv'
    BY <1>1, <1>3, <1>5, <1>8 DEF SlotInv, Older
  <2>3. QED BY <2>1, <2>2
<1>10. \A i \in 1..Len(calls') : calls'[i] <= monotonic
  BY <1>1, <1>3, <1>5, <1>8
<1>11. QED BY <1>1, <1>4, <1>7, <1>9, <1>10 DEF now, kept

LEMMA RateStep == RateInv /\ [RateNext]_rateVars => RateInv'
<1> SUFFICES ASSUME RateInv, [RateNext]_rateVars PROVE RateInv'
  OBVIOUS
<1> USE RateLimitAssumption
<1>1. monotonic \in Nat /\ Horizon \in Nat
  BY DEF RateInv, RateTypeInv
<1>2. ASSUME UNCHANGED rateVars PROVE RateInv'
  BY <1>2 DEF rateVars, RateInv, RateTypeInv, SlotInv, Older, NeverAbovePerMin
<1>3. ASSUME NEW c \in Callers, AsksForSlot(c) PROVE RateInv'
  <2>1. SlotInv' /\ NeverAbovePerMin'
    BY <1>3 DEF AsksForSlot, RateInv, SlotInv, Older, NeverAbovePerMin
  <2>2. RateTypeInv'
    BY <1>1, <1>3 DEF AsksForSlot, RateInv, RateTypeInv, CallerOK, Asking, Locking
  <2>3. QED BY <2>1, <2>2 DEF RateInv
<1>4. ASSUME NEW c \in Callers, ReadsClock(c) PROVE RateInv'
  <2>1. SlotInv' /\ NeverAbovePerMin'
    BY <1>4 DEF ReadsClock, RateInv, SlotInv, Older, NeverAbovePerMin
  <2>2. caller[c] \in Asking
    BY <1>4 DEF ReadsClock, RateInv, RateTypeInv, CallerOK, Asking, Locking, NotCalling
  <2>3. RateTypeInv'
    BY <1>1, <1>4, <2>2 DEF ReadsClock, RateInv, RateTypeInv, CallerOK, Asking, Locking
  <2>4. QED BY <2>1, <2>3 DEF RateInv
<1>5. ASSUME NEW c \in Callers, TriesForSlot(c) PROVE RateInv'
  <2>1. /\ calls' \in Seq(Nat) /\ grants' \in Seq(Nat)
        /\ \A i \in 1..Len(calls') : calls'[i] <= monotonic
        /\ SlotInv' /\ NeverAbovePerMin'
    <3>1. CASE HasSlot(InWindow(caller[c].now))
      BY <1>5, <3>1, GrantKeepsSlots
    <3>2. CASE ~HasSlot(InWindow(caller[c].now))
      BY <1>5, <3>2, RefusalKeepsSlots DEF RateInv, RateTypeInv
    <3>3. QED BY <3>1, <3>2
  <2>2. monotonic' = monotonic
    BY <1>5 DEF TriesForSlot
  <2>3. caller[c] \in Locking
    BY <1>5 DEF TriesForSlot, RateInv, RateTypeInv, CallerOK, Asking, NotCalling
  <2>4. /\ DOMAIN caller' = Callers
        /\ \A e \in Callers : CallerOK(caller'[e], monotonic)
    <3>1. CASE Answered(c)
      BY <3>1 DEF Answered, RateInv, RateTypeInv, CallerOK
    <3>2. CASE ~Answered(c)
      <4>1. ~HasSlot(InWindow(caller[c].now))
        BY <1>5, <3>2 DEF TriesForSlot
      <4> DEFINE wait == Minute - (caller[c].now - InWindow(caller[c].now)[1])
      <4>2. wait \in Nat
        BY <1>5, <4>1, RefusalKeepsSlots
      <4>3. Sleeps(c, wait)
        BY <1>5, <3>2, <4>1 DEF TriesForSlot
      <4> HIDE DEF wait
      <4>4. Lesser(wait, Nap) \in Nat
        BY <4>2 DEF Lesser
      <4> DEFINE q == [step |-> "asks", from |-> monotonic + Lesser(wait, Nap),
                       deadline |-> caller[c].deadline]
      <4>5. caller' = [caller EXCEPT ![c] = q]
        BY <4>3 DEF Sleeps
      <4>6. CallerOK(q, monotonic)
        BY <1>1, <2>3, <4>4 DEF CallerOK, Asking, Locking
      <4> HIDE DEF q
      <4>7. QED BY <4>5, <4>6 DEF RateInv, RateTypeInv
    <3>3. QED BY <3>1, <3>2
  <2>5. RateTypeInv'
    BY <2>1, <2>2, <2>4 DEF RateInv, RateTypeInv
  <2>6. QED BY <2>1, <2>5 DEF RateInv
<1>6. ASSUME ClockTicks PROVE RateInv'
  <2>1. monotonic' = monotonic + 1 /\ monotonic < Horizon
        /\ UNCHANGED <<calls, caller, grants>>
    BY <1>6 DEF ClockTicks
  <2>2. NeverAbovePerMin'
    BY <2>1 DEF RateInv, NeverAbovePerMin
  <2>3. SlotInv'
    <3>1. Len(calls) \in Nat /\ Len(grants) \in Nat
      BY LenProperties DEF RateInv, RateTypeInv
    <3>2. \A j \in 1..Older : grants[j] \in Nat
      BY <3>1, ElementOfSeq DEF RateInv, RateTypeInv, SlotInv, Older
    <3>3. \A j \in 1..Older : grants[j] + Minute <= (monotonic + 1) + Lag
      BY <1>1, <3>2 DEF RateInv, SlotInv
    <3>4. QED BY <2>1, <3>3 DEF RateInv, SlotInv, Older
  <2>4. ASSUME NEW c \in Callers PROVE CallerOK(caller[c], monotonic + 1)
    <3>1. CallerOK(caller[c], monotonic)
      BY DEF RateInv, RateTypeInv
    <3>2. caller[c] # NotCalling => monotonic < caller[c].from + Lag
      BY <1>6 DEF ClockTicks
    <3>3. QED BY <1>1, <3>1, <3>2 DEF CallerOK, Asking, Locking
  <2>5. \A i \in 1..Len(calls) : calls[i] <= monotonic + 1
    <3>1. \A i \in 1..Len(calls) : calls[i] \in Nat
      BY ElementOfSeq DEF RateInv, RateTypeInv
    <3>2. QED BY <1>1, <3>1 DEF RateInv, RateTypeInv
  <2>6. RateTypeInv'
    BY <1>1, <2>1, <2>4, <2>5 DEF RateInv, RateTypeInv
  <2>7. QED BY <2>2, <2>3, <2>6 DEF RateInv
<1>7. QED BY <1>2, <1>3, <1>4, <1>5, <1>6 DEF RateNext

LEMMA RateStart == RateInit => RateInv
<1> SUFFICES ASSUME RateInit PROVE RateInv
  OBVIOUS
<1>1. Len(calls) = 0 /\ Len(grants) = 0 /\ calls \in Seq(Nat) /\ grants \in Seq(Nat)
  BY EmptySeq DEF RateInit
<1>2. RateTypeInv
  BY <1>1, RateLimitAssumption DEF RateInit, RateTypeInv, CallerOK
<1>3. SlotInv /\ NeverAbovePerMin
  BY <1>1, RateLimitAssumption DEF SlotInv, Older, NeverAbovePerMin
<1>4. QED BY <1>2, <1>3 DEF RateInv

LEMMA RateAlways == RateSpec => []RateInv
BY RateStart, RateStep, PTL DEF RateSpec

(* The clock, the calls booked and the steps of the callers stay what      *)
(* _rate_limit makes of them.                                              *)
THEOREM RateTypeCorrect == RateSpec => []RateTypeOK
<1>1. RateInv => RateTypeOK
  BY LenProperties, ElementOfSeq
     DEF RateInv, RateTypeInv, RateTypeOK, CallerOK, Asking, Locking, NotCalling
<1>2. QED BY <1>1, RateAlways, PTL

(* Whichever callers compete for the lock: of PerMin + 1 requests in a row *)
(* the last is sent at least Minute - Lag after the first, where Lag       *)
(* bounds how long a slot is booked after its clock was read. A whole      *)
(* minute may thus see more than PerMin (_rate_limit).                     *)
THEOREM NoMinuteTooFull == RateSpec => []NeverAbovePerMin
<1>1. RateInv => NeverAbovePerMin
  BY DEF RateInv
<1>2. QED BY <1>1, RateAlways, PTL

-----------------------------------------------------------------------------
(* Prices.                                                                 *)

Tables == [Days -> Amounts \cup {NoPrice}]
PricesIn(table, latest) == {table[d] : d \in WindowOf(table, latest)}

(* What a snapshot says is so of the closes it was derived with.           *)
SnapOK(s, today) ==
  /\ s.from \in Tables /\ s.asOf \in 1..today /\ s.price \in Nat
  /\ LET window == PricesIn(s.from, s.asOf)
     IN /\ s.low = (IF window = {} THEN NoPrice ELSE Min(window))
        /\ s.high = (IF window = {} THEN NoPrice ELSE Max(window))

TrendOK(r, today) ==
  /\ r.asOf \in 1..today
  /\ r.low \in BOOLEAN /\ r.high \in BOOLEAN
  /\ LET window == PricesIn(r.from, r.asOf)
     IN /\ r.low <=> window # {} /\ \A p \in window : r.price < p
        /\ r.high <=> window # {} /\ \A p \in window : r.price > p

(* The closes kept are what the provider last said; only those too old for *)
(* any window have been dropped.                                           *)
ClosesHeard ==
  /\ \A d \in Days : d > date => closes[d] = NoPrice
  /\ \A d \in Days : d >= date - Retention => closes[d] = heard[d]

PriceTypeInv ==
  /\ date \in Days /\ moves \in 0..MaxMoves
  /\ book \in Tables /\ closes \in Tables /\ heard \in Tables

PriceInv ==
  /\ PriceTypeInv /\ ClosesHeard
  /\ snap = Nothing \/ SnapOK(snap, date)
  /\ trendRow = NoTrend \/ TrendOK(trendRow, date)

LEMMA DaysFact ==
  \E n \in Nat \ {0} : Days = 1..n /\ 1 \in Days
<1>1. Cardinality(Days) \in Nat \ {0} /\ Days = 1..Cardinality(Days)
  BY PricesAssumption
<1>2. 1 \in 1..Cardinality(Days)
  BY <1>1
<1>3. QED BY <1>1, <1>2

LEMMA PriceTypes == Amounts \cup {NoPrice} \subseteq Nat
BY PricesAssumption DEF NoPrice

(* Of finitely many prices none is above all bounds.                       *)
LEMMA PricesBounded ==
  ASSUME NEW table \in Tables
  PROVE  \E b \in Nat : \A d \in Days : table[d] <= b
<1>1. PICK n \in Nat \ {0} : Days = 1..n
  BY DaysFact
<1> DEFINE S == {k \in Nat : \E b \in Nat : \A d \in Days : d <= k => table[d] <= b}
<1>2. \A d \in Days : table[d] \in Nat
  BY PriceTypes DEF Tables
<1>3. 0 \in S
  BY <1>1
<1>4. \A k \in Nat : k \in S => k + 1 \in S
  <2> SUFFICES ASSUME NEW k \in Nat, k \in S PROVE k + 1 \in S
    OBVIOUS
  <2>1. PICK b \in Nat : \A d \in Days : d <= k => table[d] <= b
    OBVIOUS
  <2>2. CASE k + 1 \in Days
    <3>1. PICK c \in Nat : c = (IF table[k + 1] <= b THEN b ELSE table[k + 1])
      BY <1>2, <2>2
    <3>2. \A d \in Days : d <= k + 1 => table[d] <= c
      BY <1>1, <1>2, <2>1, <2>2, <3>1
    <3>3. QED BY <3>2
  <2>3. CASE k + 1 \notin Days
    <3>1. \A d \in Days : d <= k + 1 => table[d] <= b
      BY <1>1, <2>1, <2>3
    <3>2. QED BY <3>1
  <2>4. QED BY <2>2, <2>3
<1> HIDE DEF S
<1>5. \A k \in Nat : k \in S
  BY <1>3, <1>4, SetInduction
<1>6. n \in S
  BY <1>1, <1>5
<1>7. QED BY <1>1, <1>6 DEF S

(* The least and the greatest price of a window.                           *)
LEMMA Extremes ==
  ASSUME NEW table \in Tables, NEW latest \in Nat, PricesIn(table, latest) # {}
  PROVE  /\ PricesIn(table, latest) \subseteq Nat \ {0}
         /\ Min(PricesIn(table, latest)) \in PricesIn(table, latest)
         /\ \A p \in PricesIn(table, latest) : Min(PricesIn(table, latest)) <= p
         /\ Max(PricesIn(table, latest)) \in PricesIn(table, latest)
         /\ \A p \in PricesIn(table, latest) : Max(PricesIn(table, latest)) >= p
<1>1. PICK b \in Nat : \A d \in Days : table[d] <= b
  BY PricesBounded
<1>2. PricesIn(table, latest) \subseteq Nat \ {0}
  BY PriceTypes DEF PricesIn, WindowOf, Tables, NoPrice
<1>3. \A p \in PricesIn(table, latest) : p <= b
  BY <1>1 DEF PricesIn, WindowOf
<1>4. PricesIn(table, latest) \in SUBSET (0..b)
  BY <1>2, <1>3
<1>5. /\ Min(PricesIn(table, latest)) \in PricesIn(table, latest)
      /\ \A p \in PricesIn(table, latest) : Min(PricesIn(table, latest)) <= p
  BY <1>2, MinFact
<1>6. /\ Max(PricesIn(table, latest)) \in PricesIn(table, latest)
      /\ \A p \in PricesIn(table, latest) : p <= Max(PricesIn(table, latest))
  BY <1>4, MaxFact
<1>7. \A p \in PricesIn(table, latest) : Max(PricesIn(table, latest)) >= p
  BY <1>2, <1>6
<1>8. QED BY <1>2, <1>5, <1>6, <1>7

(* table is what is kept on a day of what was heard.                       *)
KeptOf(table, told, today) ==
  /\ table \in Tables /\ told \in Tables /\ today \in Days
  /\ \A d \in Days : d > today => table[d] = NoPrice
  /\ \A d \in Days : d >= today - Retention => table[d] = told[d]

LEMMA LatestFact ==
  ASSUME NEW table, NEW told, NEW today, KeptOf(table, told, today), KeptDays(table) # {}
  PROVE  /\ Max(KeptDays(table)) \in KeptDays(table)
         /\ Max(KeptDays(table)) \in 1..today
         /\ \A d \in KeptDays(table) : d <= Max(KeptDays(table))
<1>1. PICK n \in Nat \ {0} : Days = 1..n
  BY DaysFact
<1>2. today \in Nat /\ KeptDays(table) \in SUBSET (0..today) /\ 0 \notin KeptDays(table)
  BY <1>1 DEF KeptDays, KeptOf
<1>3. /\ Max(KeptDays(table)) \in KeptDays(table)
      /\ \A d \in KeptDays(table) : d <= Max(KeptDays(table))
  BY <1>2, MaxFact
<1>4. QED BY <1>2, <1>3

(* The window of a recent price lost nothing to the cleanup.               *)
LEMMA WindowKept ==
  ASSUME NEW table, NEW told, NEW today, KeptOf(table, told, today),
         NEW latest \in 1..today, latest >= today - History
  PROVE  PricesIn(table, latest) = PricesIn(told, latest)
<1>1. today \in Nat /\ Days \subseteq Nat
  BY DaysFact DEF KeptOf
<1>2. \A d \in Days : d >= latest - Span => table[d] = told[d]
  BY <1>1, PricesAssumption DEF KeptOf
<1>3. WindowOf(table, latest) = WindowOf(told, latest)
  BY <1>2 DEF WindowOf
<1>4. \A d \in WindowOf(told, latest) : table[d] = told[d]
  BY <1>2 DEF WindowOf
<1>5. QED BY <1>3, <1>4 DEF PricesIn

LEMMA DerivedOK ==
  ASSUME NEW table, NEW today, KeptOf(table, heard', today), KeptDays(table) # {},
         Max(KeptDays(table)) >= today - History
  PROVE  SnapOK(Derived(table), today)
<1> DEFINE latest == Max(KeptDays(table))
           w == PricesIn(table, latest)
<1>1. latest \in KeptDays(table) /\ latest \in 1..today
  BY LatestFact
<1>2. PricesIn(heard', latest) = w
  BY <1>1, WindowKept
<1>3. table[latest] \in Nat
  BY <1>1, PriceTypes DEF KeptDays, KeptOf, Tables
<1>4. /\ Figures(table).low = (IF w = {} THEN NoPrice ELSE Min(w))
      /\ Figures(table).high = (IF w = {} THEN NoPrice ELSE Max(w))
      /\ Figures(table).asOf = latest /\ Figures(table).price = table[latest]
  BY DEF Figures, PricesIn
<1> HIDE DEF w, latest
<1> DEFINE s == Derived(table)
<1>5. /\ s.price = Figures(table).price /\ s.low = Figures(table).low
      /\ s.high = Figures(table).high /\ s.asOf = Figures(table).asOf /\ s.from = heard'
  BY DEF Derived
<1> HIDE DEF s
<1>6. heard' \in Tables
  BY DEF KeptOf
<1>7. SnapOK(s, today)
  BY <1>1, <1>2, <1>3, <1>4, <1>5, <1>6 DEF SnapOK
<1>8. QED BY <1>7 DEF s

(* Being below (above) the least (greatest) is being below (above) all.    *)
LEMMA Beyond ==
  ASSUME NEW w \in SUBSET (Nat \ {0}), NEW price \in Nat, NEW low, NEW high,
         low = (IF w = {} THEN 0 ELSE Min(w)), high = (IF w = {} THEN 0 ELSE Max(w)),
         w # {} => /\ Min(w) \in w /\ \A p \in w : Min(w) <= p
                   /\ Max(w) \in w /\ \A p \in w : Max(w) >= p
  PROVE  /\ (low # 0 /\ price < low) <=> (w # {} /\ \A p \in w : price < p)
         /\ (high # 0 /\ price > high) <=> (w # {} /\ \A p \in w : price > p)
<1>1. CASE w = {}
  BY <1>1
<1>2. CASE w # {}
  <2>1. /\ low \in w /\ \A p \in w : p \in Nat /\ low <= p
        /\ high \in w /\ \A p \in w : high >= p
    BY <1>2
  <2>2. low \in Nat /\ low # 0 /\ high \in Nat /\ high # 0
    BY <2>1
  <2>3. (low # 0 /\ price < low) => \A p \in w : price < p
    BY <2>1, <2>2
  <2>4. (high # 0 /\ price > high) => \A p \in w : price > p
    BY <2>1, <2>2
  <2>5. QED BY <1>2, <2>1, <2>2, <2>3, <2>4
<1>3. QED BY <1>1, <1>2

LEMMA TrendOfOK ==
  ASSUME NEW s, NEW today \in Nat, SnapOK(s, today)
  PROVE  TrendOK(TrendOf(s), today)
<1> DEFINE w == PricesIn(s.from, s.asOf)
           r == TrendOf(s)
<1>1. /\ r.price = s.price /\ r.from = s.from /\ r.asOf = s.asOf
      /\ r.low = (s.low # NoPrice /\ s.price < s.low)
      /\ r.high = (s.high # NoPrice /\ s.price > s.high)
  BY DEF TrendOf
<1>2. /\ s.from \in Tables /\ s.asOf \in 1..today /\ s.price \in Nat
      /\ s.low = (IF w = {} THEN NoPrice ELSE Min(w))
      /\ s.high = (IF w = {} THEN NoPrice ELSE Max(w))
  BY DEF SnapOK
<1>3. w # {} => /\ w \subseteq Nat \ {0}
                /\ Min(w) \in w /\ \A p \in w : Min(w) <= p
                /\ Max(w) \in w /\ \A p \in w : Max(w) >= p
  BY <1>2, Extremes
<1> HIDE DEF w, r
<1>4. w \in SUBSET (Nat \ {0})
  BY <1>3
<1>5. /\ (s.low # 0 /\ s.price < s.low) <=> (w # {} /\ \A p \in w : s.price < p)
      /\ (s.high # 0 /\ s.price > s.high) <=> (w # {} /\ \A p \in w : s.price > p)
  <2>1. /\ s.price \in Nat /\ s.low = (IF w = {} THEN 0 ELSE Min(w))
        /\ s.high = (IF w = {} THEN 0 ELSE Max(w))
    BY <1>2 DEF NoPrice
  <2>2. QED BY <1>3, <1>4, <2>1, Beyond
<1>6. r.low \in BOOLEAN /\ r.high \in BOOLEAN
  BY <1>1
<1>7. w = PricesIn(r.from, r.asOf) /\ r.asOf \in 1..today
  BY <1>1, <1>2 DEF w
<1>8. TrendOK(r, today)
  BY <1>1, <1>5, <1>6, <1>7 DEF TrendOK, NoPrice
<1>9. QED BY <1>8 DEF r

(* A fetch that brings something brings a recent close, and leaves the     *)
(* closes as they were heard.                                              *)
LEMMA IngestKeeps ==
  ASSUME PriceTypeInv, ClosesHeard, snap = Nothing \/ SnapOK(snap, date), Ingests,
         date' = date
  PROVE  /\ closes' \in Tables /\ heard' \in Tables
         /\ \A d \in Days : d > date => closes'[d] = NoPrice
         /\ \A d \in Days : d >= date - Retention => closes'[d] = heard'[d]
         /\ snap' = Nothing \/ SnapOK(snap', date)
         /\ Bars # {} => SnapOK(snap', date)
<1>1. PICK n \in Nat \ {0} : Days = 1..n
  BY DaysFact
<1>2. CASE Bars = {}
  BY <1>2 DEF Ingests, PriceTypeInv, ClosesHeard
<1>3. CASE Bars # {}
  <2>1. /\ closes' = Upserted /\ snap' = Derived(Upserted)
        /\ heard' = [d \in Days |-> IF d \in Bars THEN book[d] ELSE heard[d]]
    BY <1>3 DEF Ingests
  <2>2. Upserted \in Tables /\ heard' \in Tables
    BY <2>1 DEF Upserted, Tables, PriceTypeInv
  <2>3. KeptOf(Upserted, heard', date)
    BY <1>1, <2>1, <2>2 DEF KeptOf, Upserted, Bars, ClosesHeard, PriceTypeInv
  <2>4. PICK d \in Bars : TRUE
    BY <1>3
  <2>5. /\ d \in Days /\ d >= date - History /\ d \in 1..date
        /\ d \in KeptDays(Upserted)
    BY <1>1, <2>4 DEF Bars, KeptDays, Upserted, PriceTypeInv
  <2>6. /\ Max(KeptDays(Upserted)) \in 1..date /\ d <= Max(KeptDays(Upserted))
    BY <2>3, <2>5, LatestFact
  <2>7. Max(KeptDays(Upserted)) >= date - History
    BY <1>1, <2>5, <2>6, PricesAssumption DEF PriceTypeInv
  <2>8. SnapOK(Derived(Upserted), date)
    BY <2>3, <2>5, <2>7, DerivedOK
  <2>9. QED BY <2>1, <2>2, <2>3, <2>8 DEF KeptOf
<1>4. QED BY <1>2, <1>3

LEMMA PriceStep == PriceInv /\ [PriceNext]_priceVars => PriceInv'
<1> SUFFICES ASSUME PriceInv, [PriceNext]_priceVars PROVE PriceInv'
  OBVIOUS
<1>1. PICK n \in Nat \ {0} : Days = 1..n
  BY DaysFact
<1>2. /\ PriceTypeInv /\ ClosesHeard
      /\ snap = Nothing \/ SnapOK(snap, date)
      /\ trendRow = NoTrend \/ TrendOK(trendRow, date)
  BY DEF PriceInv
<1>3. \A s, t : (t \in Nat /\ date \in Nat /\ date <= t) =>
        /\ SnapOK(s, date) => SnapOK(s, t)
        /\ TrendOK(s, date) => TrendOK(s, t)
  BY DEF SnapOK, TrendOK
<1>4. CASE NewDay
  <2>1. date' = date + 1 /\ date' \in Days /\ UNCHANGED <<closes, snap, trendRow, moves, heard>>
    BY <1>4 DEF NewDay
  <2>2. book' \in Tables
    BY <1>2, <1>4 DEF NewDay, PriceTypeInv, Tables
  <2>3. date \in Nat /\ date' \in Nat /\ date <= date'
    BY <1>1, <1>2, <2>1 DEF PriceTypeInv
  <2>4. PriceTypeInv'
    BY <1>2, <2>1, <2>2 DEF PriceTypeInv
  <2>5. ClosesHeard'
    BY <1>1, <1>2, <2>1, PricesAssumption DEF PriceTypeInv, ClosesHeard
  <2>6. (snap = Nothing \/ SnapOK(snap, date'))  /\ (trendRow = NoTrend \/ TrendOK(trendRow, date'))
    BY <1>2, <1>3, <2>3
  <2>7. QED BY <2>1, <2>4, <2>5, <2>6 DEF PriceInv
<1>5. CASE PriceMoves
  <2>1. moves' \in 0..MaxMoves
    BY <1>2, <1>5, PricesAssumption DEF PriceMoves, PriceTypeInv
  <2>2. book' \in Tables
    BY <1>2, <1>5 DEF PriceMoves, PriceTypeInv, Tables
  <2>3. UNCHANGED <<date, closes, snap, trendRow, heard>>
    BY <1>5 DEF PriceMoves
  <2>4. QED BY <1>2, <2>1, <2>2, <2>3 DEF PriceInv, PriceTypeInv, ClosesHeard
<1>6. ASSUME Ingests, UNCHANGED <<date, book, moves>>,
             trendRow' = trendRow \/ (Bars # {} /\ trendRow' = TrendOf(snap'))
      PROVE  PriceInv'
  <2>1. /\ closes' \in Tables /\ heard' \in Tables
        /\ \A d \in Days : d > date => closes'[d] = NoPrice
        /\ \A d \in Days : d >= date - Retention => closes'[d] = heard'[d]
        /\ snap' = Nothing \/ SnapOK(snap', date)
        /\ Bars # {} => SnapOK(snap', date)
    BY <1>2, <1>6, IngestKeeps
  <2>2. date \in Nat
    BY <1>1, <1>2 DEF PriceTypeInv
  <2>3. trendRow' = NoTrend \/ TrendOK(trendRow', date)
    BY <1>2, <1>6, <2>1, <2>2, TrendOfOK
  <2>4. PriceTypeInv' /\ ClosesHeard'
    BY <1>2, <1>6, <2>1 DEF PriceTypeInv, ClosesHeard
  <2>5. QED BY <1>6, <2>1, <2>3, <2>4 DEF PriceInv
<1>7. CASE IngestStage
  BY <1>6, <1>7 DEF IngestStage
<1>8. CASE ComputeStage
  <2>1. /\ UNCHANGED <<date, book, closes, snap, moves, heard>>
        /\ snap # Nothing /\ trendRow' = TrendOf(snap)
    BY <1>8 DEF ComputeStage
  <2>2. date \in Nat
    BY <1>1, <1>2 DEF PriceTypeInv
  <2>3. TrendOK(trendRow', date)
    BY <1>2, <2>1, <2>2, TrendOfOK
  <2>4. QED BY <1>2, <2>1, <2>3 DEF PriceInv, PriceTypeInv, ClosesHeard
<1>9. CASE StockAdded
  BY <1>6, <1>9 DEF StockAdded
<1>10. CASE SignInBackfill
  BY <1>6, <1>10 DEF SignInBackfill
<1>11. CASE CleanupPrices
  <2>1. /\ UNCHANGED <<date, book, snap, trendRow, moves, heard>>
        /\ closes' = [d \in Days |-> IF d < date - Retention THEN NoPrice ELSE closes[d]]
    BY <1>11 DEF CleanupPrices
  <2>2. closes' \in Tables
    BY <1>2, <2>1 DEF PriceTypeInv, Tables
  <2>3. ClosesHeard'
    BY <1>1, <1>2, <2>1, PricesAssumption DEF PriceTypeInv, ClosesHeard
  <2>4. QED BY <1>2, <2>1, <2>2, <2>3 DEF PriceInv, PriceTypeInv
<1>12. CASE UNCHANGED priceVars
  BY <1>2, <1>12 DEF PriceInv, PriceTypeInv, ClosesHeard, priceVars
<1>13. QED BY <1>4, <1>5, <1>7, <1>8, <1>9, <1>10, <1>11, <1>12 DEF PriceNext

LEMMA PriceStart == PriceInit => PriceInv
<1> SUFFICES ASSUME PriceInit PROVE PriceInv
  OBVIOUS
<1>1. 1 \in Days
  BY DaysFact
<1>2. PriceTypeInv
  BY <1>1, PricesAssumption DEF PriceInit, PriceTypeInv, Tables
<1>3. ClosesHeard
  BY DEF PriceInit, ClosesHeard
<1>4. QED BY <1>2, <1>3 DEF PriceInit, PriceInv

LEMMA PriceAlways == PriceSpec => []PriceInv
BY PriceStart, PriceStep, PTL DEF PriceSpec

(* The prices kept and said are prices, and no trend is of a day to come.  *)
THEOREM PriceTypeCorrect == PriceSpec => []PriceTypeOK
<1>1. PriceInv => PriceTypeOK
  BY DEF PriceInv, PriceTypeInv, PriceTypeOK, TrendOK, Tables
<1>2. QED BY <1>1, PriceAlways, PTL

(* The recap's figures of the day are of the closes the provider last gave.*)
LEMMA RecordIsGenuine ==
  ASSUME PriceInv, KeptDays(closes) # {}, HasMove(Figures(closes))
  PROVE  /\ Record(Figures(closes)) = "new low" =>
              \A p \in PricesIn(heard, date) : heard[date] < p
         /\ Record(Figures(closes)) = "new high" =>
              \A p \in PricesIn(heard, date) : heard[date] > p
<1> DEFINE w == PricesIn(closes, date)
           s == Figures(closes)
<1>1. date \in Nat /\ date \in Days /\ date \in 1..date
  BY DaysFact DEF PriceInv, PriceTypeInv
<1>2. KeptOf(closes, heard, date)
  BY <1>1 DEF PriceInv, PriceTypeInv, ClosesHeard, KeptOf
<1>3. Max(KeptDays(closes)) = date
  BY DEF HasMove, Figures
<1>4. PricesIn(heard, date) = w
  BY <1>1, <1>2, PricesAssumption, WindowKept
<1>5. heard[date] = closes[date] /\ closes[date] \in Nat
  BY <1>1, <1>2, PriceTypes, PricesAssumption DEF KeptOf, Tables
<1>6. /\ s.low = (IF w = {} THEN NoPrice ELSE Min(w))
      /\ s.high = (IF w = {} THEN NoPrice ELSE Max(w)) /\ s.price = closes[date]
  BY <1>3 DEF Figures, PricesIn
<1>7. w # {} => /\ w \subseteq Nat \ {0}
                /\ Min(w) \in w /\ \A p \in w : Min(w) <= p
                /\ Max(w) \in w /\ \A p \in w : Max(w) >= p
  BY <1>1, <1>2, Extremes DEF KeptOf
<1> HIDE DEF w, s
<1>8. /\ Record(s) = "new low" => (s.low # NoPrice /\ s.price < s.low)
      /\ Record(s) = "new high" => (s.high # NoPrice /\ s.price > s.high)
  BY DEF Record
<1>9. w \in SUBSET (Nat \ {0})
  BY <1>7
<1>10. /\ (s.low # 0 /\ s.price < s.low) <=> (w # {} /\ \A p \in w : s.price < p)
       /\ (s.high # 0 /\ s.price > s.high) <=> (w # {} /\ \A p \in w : s.price > p)
  <2>1. /\ s.price \in Nat /\ s.low = (IF w = {} THEN 0 ELSE Min(w))
        /\ s.high = (IF w = {} THEN 0 ELSE Max(w))
    BY <1>5, <1>6 DEF NoPrice
  <2>2. QED BY <1>7, <1>9, <2>1, Beyond, SMTT(30)
<1>11. QED BY <1>4, <1>5, <1>6, <1>8, <1>10 DEF s, NoPrice

(* Whatever the provider corrects, delivers late or leaves out, and        *)
(* whenever the batch, a family or the backfill fetches between cleanups,  *)
(* a trend calls a price a new low or high exactly if it is strictly       *)
(* beyond the window as last fetched, and the recap makes no record up     *)
(* (derive_snapshot_for_ticker, compute_trend, _record).                   *)
THEOREM LowsAreGenuine == PriceSpec => []LowIsGenuine
<1>1. ASSUME PriceInv PROVE LowIsGenuine
  <2>1. trendRow # NoTrend => TrendOK(trendRow, date)
    BY <1>1 DEF PriceInv
  <2>2. (KeptDays(closes) # {} /\ HasMove(Figures(closes))) =>
           /\ Record(Figures(closes)) = "new low" =>
                \A p \in PricesIn(heard, date) : heard[date] < p
           /\ Record(Figures(closes)) = "new high" =>
                \A p \in PricesIn(heard, date) : heard[date] > p
    BY <1>1, RecordIsGenuine
  <2>3. QED BY <2>1, <2>2 DEF LowIsGenuine, TrendOK, PricesIn
<1>2. QED BY <1>1, PriceAlways, PTL

-----------------------------------------------------------------------------
(* RangeAlerts.                                                            *)

Sending == [step : {"sends"}, at : Nat, outside : SUBSET Watchers,
            due : SUBSET Watchers, written : SUBSET (Watchers \X Nat \X BOOLEAN)]
Alerts  == [at : Nat, kept : BOOLEAN, came : BOOLEAN]

RangeTypeInv ==
  /\ minute \in 0..LastMinute
  /\ capture = NotRunning \/ capture \in Sending
  /\ notified \in [Watchers -> SUBSET Nat]
  /\ alertsOf \in [Watchers -> SUBSET Alerts]
  /\ raised = FALSE
  /\ lastRun \in [at : Nat, outside : SUBSET Watchers]
  /\ quiet \in [Watchers -> Nat]
  /\ \A f \in Watchers : \A m \in alertsOf[f] : m.at <= minute

(* The rows of a family and the alerts they stand for. A run that comes to *)
(* its end writes its rows at most LongestRun after its alerts. The recap  *)
(* says that nothing went off only when no run can write a row any more.   *)
RowsInv(f) ==
  /\ \A t \in notified[f] : t <= minute
  /\ \A t \in notified[f] : \E m \in alertsOf[f] : m.kept /\ m.at >= t - LongestRun
  /\ \A t, u \in notified[f] : u > t => u - t > DEDUP_WINDOW
  /\ \A m \in alertsOf[f] : m.kept => \E t \in notified[f] : m.at <= t
  /\ \A m, n \in alertsOf[f] : m.kept /\ n.at > m.at => n.at - m.at > DEDUP_WINDOW
  /\ quiet[f] # 0 => minute >= RecapAt /\ notified[f] = {}

(* When the run at minute a began, the family had not been alerted lately. *)
NotLately(f, a) == \A t \in notified[f] : t < a - DEDUP_WINDOW

(* The run that is going: whom it will alert, whom it has alerted, and     *)
(* whom it had no need to.                                                 *)
DueInv(f) ==
  f \in capture.due =>
    /\ NotLately(f, capture.at) /\ RowsOf(f) = {}
    /\ \A n \in alertsOf[f] : n.at <= capture.at

WrittenInv ==
  \A w \in capture.written :
    /\ NotLately(w[1], capture.at)
    /\ w[2] >= capture.at /\ w[2] <= minute
    /\ \A n \in alertsOf[w[1]] : n.at <= w[2]
    /\ \E n \in alertsOf[w[1]] : n.at = w[2]

(* The family was told of its stock then, or its refused mail has its row. *)
Lately(f, a) ==
  \E m \in alertsOf[f] : (m.came \/ m.kept) /\ m.at >= a - DEDUP_WINDOW - LongestRun

(* Who was outside: it waits for its alert, has had it, or had one before. *)
ToldOrWritten(f) == f \in capture.due \/ RowsOf(f) # {} \/ Lately(f, capture.at)

RunInv ==
  capture # NotRunning =>
    /\ capture.at <= minute /\ minute <= capture.at + LongestRun /\ capture.at <= CloseAt
    /\ \A f \in Watchers : DueInv(f)
    /\ WrittenInv
    /\ \A f \in capture.outside : ToldOrWritten(f)

RangeInv ==
  /\ RangeTypeInv
  /\ \A f \in Watchers : RowsInv(f)
  /\ RunInv
  /\ \A f \in lastRun.outside : Lately(f, lastRun.at)

LEMMA RangeNumbers ==
  /\ LastMinute \in Nat /\ LongestRun \in Nat /\ DEDUP_WINDOW \in Nat /\ DEDUP_WINDOW >= 1
  /\ CloseAt \in Nat /\ OpenAt \in Nat /\ RecapAt \in Nat /\ RecapAt > CloseAt + LongestRun
BY RangeAlertsAssumption

(* Two rows of the window would be too close to each other.                *)
LEMMA NeverTwoRows ==
  ASSUME NEW f \in Watchers, RangeTypeInv, RowsInv(f)
  PROVE  ~(Cardinality(RecentRows(f)) > 1)
<1>1. RecentRows(f) \subseteq Nat /\ RecentRows(f) \subseteq notified[f] /\ minute \in Nat
  BY RangeNumbers DEF RecentRows, RangeTypeInv
<1>2. \A t, u \in RecentRows(f) : t = u
  <2> SUFFICES ASSUME NEW t \in RecentRows(f), NEW u \in RecentRows(f), u > t PROVE FALSE
    BY <1>1
  <2>1. u - t > DEDUP_WINDOW /\ u <= minute /\ t >= minute - DEDUP_WINDOW
    BY <1>1 DEF RowsInv, RecentRows
  <2>2. QED BY <1>1, <2>1, RangeNumbers
<1>3. CASE RecentRows(f) = {}
  BY <1>3, FS_EmptySet
<1>4. CASE RecentRows(f) # {}
  <2>1. PICK t : t \in RecentRows(f)
    BY <1>4
  <2>2. RecentRows(f) = {t}
    BY <1>2, <2>1
  <2>3. QED BY <2>2, FS_Singleton
<1>5. QED BY <1>3, <1>4

LEMMA CaptureKeeps == RangeInv /\ CaptureRange => RangeInv'
<1> SUFFICES ASSUME RangeInv, CaptureRange PROVE RangeInv'
  OBVIOUS
<1>1. /\ capture = NotRunning /\ minute <= CloseAt /\ minute \in Nat
      /\ UNCHANGED <<minute, notified, alertsOf, lastRun, quiet>>
  BY RangeNumbers DEF CaptureRange, MarketHours, RangeInv, RangeTypeInv
<1>2. PICK outside \in SUBSET Watchers :
         IF \E f \in outside : Cardinality(RecentRows(f)) > 1
         THEN raised' = TRUE /\ UNCHANGED capture
         ELSE /\ capture' = [step |-> "sends", at |-> minute, outside |-> outside,
                             due |-> {f \in outside : RecentRows(f) = {}}, written |-> {}]
              /\ UNCHANGED raised
  <2>1. PICK pct \in Moves, reachable \in SUBSET Watchers :
         LET outside == {f \in reachable : OutsideBand(f, pct)}
         IN  IF \E f \in outside : Cardinality(RecentRows(f)) > 1
             THEN raised' = TRUE /\ UNCHANGED capture
             ELSE /\ capture' = [step |-> "sends", at |-> minute, outside |-> outside,
                                 due |-> {f \in outside : RecentRows(f) = {}}, written |-> {}]
                  /\ UNCHANGED raised
    BY DEF CaptureRange
  <2>2. {f \in reachable : OutsideBand(f, pct)} \in SUBSET Watchers
    OBVIOUS
  <2>3. QED BY <2>1, <2>2
<1>3. \A f \in outside : ~(Cardinality(RecentRows(f)) > 1)
  BY NeverTwoRows DEF RangeInv
<1>4. /\ capture' = [step |-> "sends", at |-> minute, outside |-> outside,
                     due |-> {f \in outside : RecentRows(f) = {}}, written |-> {}]
      /\ UNCHANGED raised
  BY <1>2, <1>3
<1>5. /\ capture' \in Sending /\ capture'.at = minute /\ capture'.outside = outside
      /\ capture'.due = {f \in outside : RecentRows(f) = {}} /\ capture'.written = {}
  BY <1>1, <1>4 DEF Sending
<1>6. RangeTypeInv'
  BY <1>1, <1>4, <1>5 DEF RangeInv, RangeTypeInv
<1>7. \A f \in Watchers : RowsInv(f)'
  BY <1>1 DEF RangeInv, RowsInv
<1>8. \A f \in Watchers : DueInv(f)'
  <2> SUFFICES ASSUME NEW f \in Watchers, f \in capture'.due PROVE DueInv(f)'
    BY DEF DueInv
  <2>1. RecentRows(f) = {} /\ notified[f] \subseteq Nat
    BY <1>5 DEF RangeInv, RangeTypeInv
  <2>2. NotLately(f, minute)
    BY <1>1, <2>1, RangeNumbers DEF NotLately, RecentRows
  <2>3. RowsOf(f)' = {}
    BY <1>5 DEF RowsOf
  <2>4. \A n \in alertsOf'[f] : n.at <= capture'.at
    BY <1>1, <1>5 DEF RangeInv, RangeTypeInv
  <2>5. NotLately(f, capture.at)'
    BY <1>1, <1>5, <2>2 DEF NotLately
  <2>6. QED BY <2>3, <2>4, <2>5 DEF DueInv
<1>9. WrittenInv'
  BY <1>5 DEF WrittenInv
<1>10. ASSUME NEW f \in capture'.outside, f \notin capture'.due PROVE Lately(f, capture.at)'
  <2>1. f \in Watchers /\ RecentRows(f) # {} /\ notified[f] \subseteq Nat
    BY <1>5, <1>10 DEF RangeInv, RangeTypeInv
  <2>2. PICK t \in notified[f] : t \in Nat /\ t >= minute - DEDUP_WINDOW
    BY <2>1 DEF RecentRows
  <2>3. PICK m \in alertsOf[f] : m.kept /\ m.at >= t - LongestRun
    BY <2>1, <2>2 DEF RangeInv, RowsInv
  <2>4. m.at \in Nat
    BY <2>1, <2>3 DEF RangeInv, RangeTypeInv, Alerts
  <2>5. m.at >= minute - DEDUP_WINDOW - LongestRun
    BY <1>1, <2>2, <2>3, <2>4, RangeNumbers
  <2>6. QED BY <1>1, <1>5, <2>3, <2>5 DEF Lately
<1>11. RunInv'
  BY <1>1, <1>5, <1>8, <1>9, <1>10, RangeNumbers DEF RunInv, ToldOrWritten
<1>12. \A f \in lastRun'.outside : Lately(f, lastRun.at)'
  BY <1>1 DEF RangeInv, Lately
<1>13. QED BY <1>6, <1>7, <1>11, <1>12 DEF RangeInv

(* What a run knows of other families does not change when it alerts one.  *)
LEMMA SendKeeps ==
  ASSUME RangeInv, NEW f \in Watchers, SendRangeAlert(f)
  PROVE  RangeInv'
<1>1. /\ capture \in Sending /\ capture # NotRunning /\ f \in capture.due
      /\ minute \in Nat /\ minute <= LastMinute
      /\ UNCHANGED <<minute, notified, raised, lastRun, quiet>>
  <2>1. /\ capture.step = "sends" /\ f \in capture.due
        /\ UNCHANGED <<minute, notified, raised, lastRun, quiet>>
    BY DEF SendRangeAlert
  <2>2. capture # NotRunning
    BY <2>1 DEF NotRunning
  <2>3. QED BY <2>1, <2>2, RangeNumbers DEF RangeInv, RangeTypeInv
<1>2. /\ capture.at \in Nat /\ capture.at <= minute /\ minute <= capture.at + LongestRun
      /\ capture.at <= CloseAt /\ WrittenInv /\ \A g \in Watchers : DueInv(g)
      /\ \A g \in capture.outside : ToldOrWritten(g)
  BY <1>1 DEF RangeInv, RunInv, Sending
<1>3. /\ NotLately(f, capture.at) /\ RowsOf(f) = {}
      /\ \A n \in alertsOf[f] : n.at <= capture.at
  BY <1>1, <1>2 DEF DueInv
<1>4. ASSUME NEW came \in BOOLEAN,
             alertsOf' = [alertsOf EXCEPT ![f] = @ \union {Alert(minute, FALSE, came)}],
             capture' = [capture EXCEPT !.due = @ \ {f},
                                        !.written = @ \union {<<f, minute, came>>}]
      PROVE  RangeInv'
  <2> DEFINE mail == Alert(minute, FALSE, came)
             row  == <<f, minute, came>>
  <2>1. /\ capture' \in Sending /\ capture'.at = capture.at
        /\ capture'.outside = capture.outside /\ capture'.due = capture.due \ {f}
        /\ capture'.written = capture.written \union {row}
    <3>1. /\ capture.due \ {f} \in SUBSET Watchers
          /\ capture.written \union {row} \in SUBSET (Watchers \X Nat \X BOOLEAN)
      BY <1>1 DEF Sending
    <3>2. capture' = [capture EXCEPT !.due = @ \ {f}, !.written = @ \union {row}]
      BY <1>4
    <3> HIDE DEF row
    <3>3. QED BY <1>1, <3>1, <3>2 DEF Sending
  <2>2. /\ mail \in Alerts /\ mail.at = minute /\ mail.kept = FALSE
        /\ row[1] = f /\ row[2] = minute
    BY <1>1 DEF Alert, Alerts
  <2>3. /\ \A g \in Watchers : alertsOf'[g] = IF g = f THEN alertsOf[f] \union {mail} ELSE alertsOf[g]
        /\ alertsOf' \in [Watchers -> SUBSET Alerts]
    BY <1>4, <2>2 DEF RangeInv, RangeTypeInv
  <2> HIDE DEF mail, row
  <2>4. RangeTypeInv'
    BY <1>1, <2>1, <2>2, <2>3 DEF RangeInv, RangeTypeInv
  <2>5. ASSUME NEW g \in Watchers PROVE RowsInv(g)'
    <3>1. CASE g # f
      BY <1>1, <2>3, <3>1 DEF RangeInv, RowsInv
    <3>2. CASE g = f
      <4>1. RowsInv(f) /\ notified[f] \subseteq Nat /\ alertsOf[f] \subseteq Alerts
        BY DEF RangeInv, RangeTypeInv
      <4>2. \A t \in notified'[f] : t <= minute' /\ \E m \in alertsOf'[f] : m.kept /\ m.at >= t - LongestRun
        BY <1>1, <2>3, <4>1 DEF RowsInv
      <4>3. \A t, u \in notified'[f] : u > t => u - t > DEDUP_WINDOW
        BY <1>1, <4>1 DEF RowsInv
      <4>4. \A m \in alertsOf'[f] : m.kept => \E t \in notified'[f] : m.at <= t
        BY <1>1, <2>2, <2>3, <4>1 DEF RowsInv
      <4>5. ASSUME NEW m \in alertsOf'[f], NEW n \in alertsOf'[f], m.kept, n.at > m.at
            PROVE  n.at - m.at > DEDUP_WINDOW
        <5>1. m \in alertsOf[f]
          BY <2>2, <2>3, <4>5
        <5>2. CASE n \in alertsOf[f]
          BY <4>1, <4>5, <5>1, <5>2 DEF RowsInv
        <5>3. CASE n = mail
          <6>1. PICK t \in notified[f] : m.at <= t
            BY <4>1, <4>5, <5>1 DEF RowsInv
          <6>2. t < capture.at - DEDUP_WINDOW /\ t \in Nat /\ m.at \in Nat /\ n.at = minute
            BY <1>3, <2>2, <4>1, <5>1, <5>3, <6>1 DEF NotLately, Alerts
          <6>3. QED BY <1>1, <1>2, <6>1, <6>2, RangeNumbers
        <5>4. QED BY <2>3, <5>2, <5>3
      <4>6. quiet'[f] # 0 => (minute' >= RecapAt /\ notified'[f] = {})
        BY <1>1, <4>1 DEF RowsInv
      <4>7. QED BY <3>2, <4>2, <4>3, <4>4, <4>5, <4>6 DEF RowsInv
    <3>3. QED BY <3>1, <3>2
  <2>6. ASSUME NEW g \in capture'.due, g \in Watchers PROVE DueInv(g)'
    <3>1. g # f /\ g \in capture.due
      BY <2>1, <2>6
    <3>2. NotLately(g, capture.at) /\ RowsOf(g) = {} /\ \A n \in alertsOf[g] : n.at <= capture.at
      BY <1>2, <2>6, <3>1 DEF DueInv
    <3>3. RowsOf(g)' = {}
      BY <2>1, <2>2, <3>1, <3>2 DEF RowsOf
    <3>4. NotLately(g, capture.at)'
      BY <1>1, <2>1, <3>2 DEF NotLately
    <3>5. \A n \in alertsOf'[g] : n.at <= capture'.at
      BY <2>1, <2>3, <2>6, <3>1, <3>2
    <3>6. QED BY <3>3, <3>4, <3>5 DEF DueInv
  <2>7. \A g \in Watchers : DueInv(g)'
    BY <2>6 DEF DueInv
  <2>8. WrittenInv'
    <3>1. SUFFICES ASSUME NEW w \in capture'.written
                   PROVE  /\ NotLately(w[1], capture.at)'
                          /\ w[2] >= capture'.at /\ w[2] <= minute'
                          /\ \A n \in alertsOf'[w[1]] : n.at <= w[2]
                          /\ \E n \in alertsOf'[w[1]] : n.at = w[2]
      BY DEF WrittenInv
    <3>2. CASE w = row
      <4>1. w[1] = f /\ w[2] = minute
        BY <2>2, <3>2
      <4>2. NotLately(f, capture.at)'
        BY <1>1, <1>3, <2>1 DEF NotLately
      <4>3. \A n \in alertsOf'[f] : n.at <= minute
        BY <1>1, <2>2, <2>3 DEF RangeInv, RangeTypeInv
      <4>4. \E n \in alertsOf'[f] : n.at = minute
        BY <2>2, <2>3
      <4>5. QED BY <1>1, <1>2, <2>1, <4>1, <4>2, <4>3, <4>4
    <3>3. CASE w \in capture.written
      <4>1. w[1] \in Watchers
        BY <1>1, <3>3 DEF Sending
      <4>2. w[1] # f
        BY <1>3, <3>3, <4>1 DEF RowsOf
      <4>3. alertsOf'[w[1]] = alertsOf[w[1]]
        BY <2>3, <4>1, <4>2
      <4>4. /\ NotLately(w[1], capture.at) /\ w[2] >= capture.at /\ w[2] <= minute
            /\ \A n \in alertsOf[w[1]] : n.at <= w[2]
            /\ \E n \in alertsOf[w[1]] : n.at = w[2]
        BY <1>2, <3>3 DEF WrittenInv
      <4>5. NotLately(w[1], capture.at)'
        BY <1>1, <2>1, <4>4 DEF NotLately
      <4>6. QED BY <1>1, <2>1, <4>3, <4>4, <4>5
    <3>4. QED BY <2>1, <3>2, <3>3
  <2>9. ASSUME NEW g \in capture'.outside PROVE ToldOrWritten(g)'
    <3>1. CASE g = f
      <4>1. row \in RowsOf(f)'
        BY <2>1, <2>2 DEF RowsOf
      <4>2. QED BY <3>1, <4>1 DEF ToldOrWritten
    <3>2. CASE g # f
      <4>1. g \in Watchers /\ ToldOrWritten(g)
        BY <1>1, <1>2, <2>1, <2>9, <3>2 DEF Sending
      <4>2. alertsOf'[g] = alertsOf[g] /\ RowsOf(g) \subseteq RowsOf(g)'
        BY <2>1, <2>3, <3>2, <4>1 DEF RowsOf
      <4>3. QED BY <2>1, <3>2, <4>1, <4>2 DEF ToldOrWritten, Lately
    <3>3. QED BY <3>1, <3>2
  <2>10. RunInv'
    BY <1>1, <1>2, <2>1, <2>7, <2>8, <2>9 DEF RunInv
  <2>11. \A g \in lastRun'.outside : Lately(g, lastRun.at)'
    <3>1. \A g \in lastRun.outside : g \in Watchers /\ Lately(g, lastRun.at)
      BY DEF RangeInv, RangeTypeInv
    <3>2. QED BY <1>1, <2>3, <3>1 DEF Lately
  <2>12. QED BY <2>4, <2>5, <2>10, <2>11 DEF RangeInv
<1>5. CASE /\ capture' = [capture EXCEPT !.due = @ \ {f}, !.outside = @ \ {f}]
           /\ UNCHANGED alertsOf
  <2>1. /\ capture' \in Sending /\ capture'.at = capture.at
        /\ capture'.outside = capture.outside \ {f} /\ capture'.due = capture.due \ {f}
        /\ capture'.written = capture.written
    BY <1>1, <1>5 DEF Sending
  <2>2. RangeTypeInv'
    BY <1>1, <1>5, <2>1 DEF RangeInv, RangeTypeInv
  <2>3. \A g \in Watchers : RowsInv(g)'
    BY <1>1, <1>5 DEF RangeInv, RowsInv
  <2>4. \A g \in Watchers : DueInv(g)'
    BY <1>1, <1>2, <1>5, <2>1 DEF DueInv, NotLately, RowsOf
  <2>5. WrittenInv'
    BY <1>1, <1>2, <1>5, <2>1 DEF WrittenInv, NotLately
  <2>6. \A g \in capture'.outside : ToldOrWritten(g)'
    BY <1>2, <1>5, <2>1 DEF ToldOrWritten, RowsOf, Lately
  <2>7. RunInv'
    BY <1>1, <1>2, <2>1, <2>4, <2>5, <2>6 DEF RunInv
  <2>8. \A g \in lastRun'.outside : Lately(g, lastRun.at)'
    BY <1>1, <1>5 DEF RangeInv, Lately
  <2>9. QED BY <2>2, <2>3, <2>7, <2>8 DEF RangeInv
<1>6. QED BY <1>4, <1>5 DEF SendRangeAlert

(* The commit gives each family its row, and keeps its alerts.             *)
LEMMA CommitKeeps == RangeInv /\ CommitRange => RangeInv'
<1> SUFFICES ASSUME RangeInv, CommitRange PROVE RangeInv'
  OBVIOUS
<1>1. /\ capture \in Sending /\ capture # NotRunning /\ capture.due = {}
      /\ minute \in Nat /\ minute <= LastMinute /\ capture' = NotRunning
      /\ UNCHANGED <<minute, raised, quiet>>
      /\ lastRun' = [at |-> capture.at, outside |-> capture.outside]
  BY RangeNumbers DEF CommitRange, RowsWritten, RangeInv, RangeTypeInv, NotRunning
<1>2. /\ capture.at \in Nat /\ capture.at <= minute /\ minute <= capture.at + LongestRun
      /\ capture.at <= CloseAt /\ WrittenInv
      /\ \A g \in capture.outside : RowsOf(g) # {} \/ Lately(g, capture.at)
  BY <1>1 DEF RangeInv, RunInv, Sending, ToldOrWritten
<1>3. \A g \in Watchers :
        /\ alertsOf'[g] = Known(g)
        /\ notified'[g] = IF RowsOf(g) = {} THEN notified[g] ELSE notified[g] \union {minute}
  BY DEF CommitRange, RowsWritten
<1>4. \A g \in Watchers : Known(g) \subseteq Alerts
  <2> SUFFICES ASSUME NEW g \in Watchers, NEW m \in Known(g)
               PROVE  m \in Alerts
    OBVIOUS
  <2>1. CASE m \in alertsOf[g]
    BY <2>1 DEF RangeInv, RangeTypeInv
  <2>2. CASE m \notin alertsOf[g]
    <3>1. PICK w \in RowsOf(g) : m = Alert(w[2], TRUE, w[3])
      BY <2>2 DEF Known
    <3>2. w[2] \in Nat /\ w[3] \in BOOLEAN
      BY <1>1, <3>1 DEF RowsOf, Sending
    <3>3. QED BY <3>1, <3>2 DEF Alert, Alerts
  <2>3. QED BY <2>1, <2>2
<1>5. ASSUME NEW g \in Watchers, NEW m \in Known(g), m \notin alertsOf[g]
      PROVE  /\ RowsOf(g) # {} /\ NotLately(g, capture.at)
             /\ m.kept = TRUE /\ m.at \in Nat /\ m.at >= capture.at /\ m.at <= minute
             /\ \A n \in alertsOf[g] : n.at <= m.at
             /\ \E n \in alertsOf[g] : n.at = m.at
  <2>1. PICK w \in RowsOf(g) : m = Alert(w[2], TRUE, w[3])
    BY <1>5 DEF Known
  <2>2. w \in capture.written /\ w[1] = g /\ w[2] \in Nat
    BY <1>1, <2>1 DEF RowsOf, Sending
  <2>3. QED BY <1>2, <2>1, <2>2 DEF WrittenInv, Alert
<1>6. \A g \in Watchers : alertsOf[g] \subseteq Known(g)
  BY DEF Known
<1>7. \A g \in Watchers : RowsOf(g) # {} =>
        /\ NotLately(g, capture.at)
        /\ \E m \in Known(g) : m.kept = TRUE /\ m.at >= capture.at
  <2> SUFFICES ASSUME NEW g \in Watchers, NEW w \in RowsOf(g)
               PROVE  /\ NotLately(g, capture.at)
                      /\ \E m \in Known(g) : m.kept = TRUE /\ m.at >= capture.at
    OBVIOUS
  <2>1. w \in capture.written /\ w[1] = g
    BY DEF RowsOf
  <2>2. Alert(w[2], TRUE, w[3]) \in Known(g)
    BY DEF Known
  <2>3. QED BY <1>2, <2>1, <2>2 DEF WrittenInv, Alert
<1>8. RangeTypeInv'
  <2>1. notified' \in [Watchers -> SUBSET Nat]
    BY <1>1 DEF CommitRange, RowsWritten, RangeInv, RangeTypeInv
  <2>2. alertsOf' \in [Watchers -> SUBSET Alerts]
    BY <1>4 DEF CommitRange, RowsWritten
  <2>3. lastRun' \in [at : Nat, outside : SUBSET Watchers]
    BY <1>1 DEF Sending
  <2>4. \A g \in Watchers : \A m \in alertsOf'[g] : m.at <= minute
    BY <1>3, <1>5 DEF RangeInv, RangeTypeInv
  <2>5. QED BY <1>1, <2>1, <2>2, <2>3, <2>4 DEF RangeInv, RangeTypeInv
<1>9. ASSUME NEW g \in Watchers PROVE RowsInv(g)'
  <2>1. /\ RowsInv(g) /\ notified[g] \subseteq Nat
        /\ alertsOf[g] \subseteq Alerts
        /\ Known(g) \subseteq Alerts
        /\ quiet[g] \in Nat
    BY <1>4 DEF RangeInv, RangeTypeInv
  <2>2. alertsOf'[g] = Known(g) /\ alertsOf[g] \subseteq Known(g)
    BY <1>3, <1>6
  <2>3. \A t \in notified'[g] : t \in notified[g] \/ (t = minute /\ RowsOf(g) # {})
    BY <1>3
  <2>4. \A t \in notified'[g] : t <= minute
    BY <1>1, <2>1, <2>3 DEF RowsInv
  <2>5. ASSUME NEW t \in notified'[g] PROVE \E m \in Known(g) : m.kept /\ m.at >= t - LongestRun
    <3>1. CASE t \in notified[g]
      BY <2>1, <2>2, <3>1 DEF RowsInv
    <3>2. CASE t = minute /\ RowsOf(g) # {}
      <4>1. PICK m \in Known(g) : m.kept = TRUE /\ m.at >= capture.at
        BY <1>7, <3>2
      <4>2. m.at \in Nat
        BY <2>1 DEF Alerts
      <4>3. m.at >= t - LongestRun
        BY <1>1, <1>2, <3>2, <4>1, <4>2, RangeNumbers
      <4>4. QED BY <4>1, <4>3
    <3>3. QED BY <2>3, <3>1, <3>2
  <2>6. ASSUME NEW t \in notified'[g], NEW u \in notified'[g], u > t
        PROVE  u - t > DEDUP_WINDOW
    <3>1. CASE u \in notified[g]
      <4>1. t \in notified[g]
        BY <1>1, <2>1, <2>3, <2>6, <3>1 DEF RowsInv
      <4>2. QED BY <2>1, <2>6, <3>1, <4>1 DEF RowsInv
    <3>2. CASE u = minute /\ RowsOf(g) # {}
      <4>1. t \in notified[g]
        BY <1>1, <2>3, <2>6, <3>2
      <4>2. t \in Nat /\ t < capture.at - DEDUP_WINDOW
        BY <1>7, <2>1, <3>2, <4>1 DEF NotLately
      <4>3. QED BY <1>1, <1>2, <3>2, <4>2, RangeNumbers
    <3>3. QED BY <2>3, <3>1, <3>2
  <2>7. ASSUME NEW m \in Known(g), m.kept PROVE \E t \in notified'[g] : m.at <= t
    <3>1. CASE m \in alertsOf[g]
      BY <1>3, <2>1, <2>7, <3>1 DEF RowsInv
    <3>2. CASE m \notin alertsOf[g]
      <4>1. RowsOf(g) # {} /\ m.at <= minute
        BY <1>5, <3>2
      <4>2. minute \in notified'[g]
        BY <1>3, <4>1
      <4>3. QED BY <4>1, <4>2
    <3>3. QED BY <3>1, <3>2
  <2>8. ASSUME NEW m \in Known(g), NEW n \in Known(g), m.kept, n.at > m.at
        PROVE  n.at - m.at > DEDUP_WINDOW
    <3>1. PICK p \in alertsOf[g] : p.at = n.at
      BY <1>5
    <3>2. m.at \in Nat /\ n.at \in Nat /\ p.at \in Nat
      BY <2>1, <3>1 DEF Alerts
    <3>3. CASE m \in alertsOf[g]
      BY <2>1, <2>8, <3>1, <3>3 DEF RowsInv
    <3>4. CASE m \notin alertsOf[g]
      <4>1. p.at <= m.at
        BY <1>5, <3>1, <3>4
      <4>2. QED BY <2>8, <3>1, <3>2, <4>1
    <3>5. QED BY <3>3, <3>4
  <2>9. quiet'[g] # 0 => (minute' >= RecapAt /\ notified'[g] = {})
    <3>1. quiet[g] # 0 => minute >= RecapAt
      BY <2>1 DEF RowsInv
    <3>2. ~(minute >= RecapAt)
      BY <1>1, <1>2, RangeNumbers
    <3>3. QED BY <1>1, <3>1, <3>2
  <2>10. QED BY <1>1, <2>2, <2>4, <2>5, <2>6, <2>7, <2>8, <2>9 DEF RowsInv
<1>10. \A g \in lastRun'.outside : Lately(g, lastRun.at)'
  <2>1. lastRun'.at = capture.at /\ lastRun'.outside = capture.outside
    BY <1>1
  <2>2. ASSUME NEW g \in capture.outside PROVE Lately(g, lastRun.at)'
    <3>1. g \in Watchers
      BY <1>1 DEF Sending
    <3>2. alertsOf'[g] = Known(g) /\ alertsOf[g] \subseteq Known(g)
      BY <1>3, <1>6, <3>1
    <3>3. CASE Lately(g, capture.at)
      BY <2>1, <3>2, <3>3 DEF Lately
    <3>4. CASE RowsOf(g) # {}
      <4>1. PICK m \in Known(g) : m.kept = TRUE /\ m.at >= capture.at
        BY <1>7, <3>1, <3>4
      <4>2. m.at \in Nat
        BY <1>4, <3>1 DEF Alerts
      <4>3. m.at >= capture.at - DEDUP_WINDOW - LongestRun
        BY <1>2, <4>1, <4>2, RangeNumbers
      <4>4. QED BY <2>1, <3>2, <4>1, <4>3 DEF Lately
    <3>5. QED BY <1>2, <3>3, <3>4
  <2>3. QED BY <2>1, <2>2
<1>11. RunInv'
  BY <1>1 DEF RunInv
<1>12. QED BY <1>8, <1>9, <1>10, <1>11 DEF RangeInv

LEMMA RangeStep == RangeInv /\ [RangeNext]_rangeVars => RangeInv'
<1> SUFFICES ASSUME RangeInv, [RangeNext]_rangeVars PROVE RangeInv'
  OBVIOUS
<1>1. CASE CaptureRange
  BY <1>1, CaptureKeeps
<1>2. CASE CommitRange
  BY <1>2, CommitKeeps
<1>3. CASE \E f \in Watchers : SendRangeAlert(f)
  BY <1>3, SendKeeps
<1>4. CASE CaptureLost
  <2>1. capture' = NotRunning /\ UNCHANGED <<minute, notified, raised, alertsOf, lastRun, quiet>>
    BY <1>4 DEF CaptureLost
  <2>2. RangeTypeInv'
    BY <2>1 DEF RangeInv, RangeTypeInv
  <2>3. (\A f \in Watchers : RowsInv(f)') /\ RunInv'
    BY <2>1 DEF RangeInv, RowsInv, RunInv
  <2>4. \A g \in lastRun'.outside : Lately(g, lastRun.at)'
    BY <2>1 DEF RangeInv, Lately
  <2>5. QED BY <2>2, <2>3, <2>4 DEF RangeInv
<1>5. CASE RecapTells
  <2>1. /\ minute >= RecapAt
        /\ UNCHANGED <<minute, capture, notified, raised, alertsOf, lastRun>>
    BY <1>5 DEF RecapTells
  <2>2. PICK f \in Watchers : ~AlertedToday(f) /\ quiet' = [quiet EXCEPT ![f] = minute]
    BY <1>5 DEF RecapTells, QuietRule
  <2>3. minute \in Nat /\ quiet \in [Watchers -> Nat]
    BY RangeNumbers DEF RangeInv, RangeTypeInv
  <2>4. RangeTypeInv'
    BY <2>1, <2>2, <2>3 DEF RangeInv, RangeTypeInv
  <2>5. \A g \in Watchers : quiet'[g] # 0 => notified[g] = {}
    BY <2>2, <2>3 DEF AlertedToday, RangeInv, RowsInv
  <2>6. \A g \in Watchers : RowsInv(g)'
    BY <2>1, <2>5 DEF RangeInv, RowsInv
  <2>7. RunInv'
    BY <2>1 DEF RangeInv, RunInv, DueInv, WrittenInv, NotLately, RowsOf, Lately, ToldOrWritten
  <2>8. \A g \in lastRun'.outside : Lately(g, lastRun.at)'
    BY <2>1 DEF RangeInv, Lately
  <2>9. QED BY <2>4, <2>6, <2>7, <2>8 DEF RangeInv
<1>6. CASE MinutePasses
  <2>1. /\ minute < LastMinute /\ minute' = minute + 1
        /\ capture # NotRunning => minute < capture.at + LongestRun
        /\ UNCHANGED <<capture, notified, raised, alertsOf, lastRun, quiet>>
    BY <1>6 DEF MinutePasses
  <2>2. minute \in Nat /\ minute' \in 0..LastMinute /\ minute' >= minute
    BY <2>1, RangeNumbers DEF RangeInv, RangeTypeInv
  <2>3. RangeTypeInv'
    <3>1. \A f \in Watchers : \A m \in alertsOf[f] : m.at \in Nat /\ m.at <= minute
      BY DEF RangeInv, RangeTypeInv, Alerts
    <3>2. \A f \in Watchers : \A m \in alertsOf[f] : m.at <= minute + 1
      BY <2>2, <3>1
    <3>3. QED BY <2>1, <2>2, <3>2 DEF RangeInv, RangeTypeInv
  <2>4. \A g \in Watchers : RowsInv(g)'
    <3> SUFFICES ASSUME NEW g \in Watchers PROVE RowsInv(g)'
      OBVIOUS
    <3>1. RowsInv(g) /\ notified[g] \subseteq Nat
      BY DEF RangeInv, RangeTypeInv
    <3>2. \A t \in notified[g] : t <= minute + 1
      BY <2>2, <3>1 DEF RowsInv
    <3>3. quiet[g] # 0 => (minute + 1 >= RecapAt /\ notified[g] = {})
      BY <2>2, <3>1, RangeNumbers DEF RowsInv
    <3>4. QED BY <2>1, <3>1, <3>2, <3>3 DEF RowsInv
  <2>5. RunInv'
    <3> SUFFICES ASSUME capture' # NotRunning
                 PROVE  /\ capture'.at <= minute' /\ minute' <= capture'.at + LongestRun
                        /\ capture'.at <= CloseAt
                        /\ \A f \in Watchers : DueInv(f)'
                        /\ WrittenInv'
                        /\ \A f \in capture'.outside : ToldOrWritten(f)'
      BY DEF RunInv
    <3>1. /\ capture \in Sending /\ capture.at \in Nat /\ capture.at <= minute
          /\ capture.at <= CloseAt
          /\ WrittenInv /\ \A f \in Watchers : DueInv(f)
          /\ \A f \in capture.outside : ToldOrWritten(f)
      BY <2>1 DEF RangeInv, RangeTypeInv, RunInv, Sending
    <3>2. capture'.at <= minute' /\ minute' <= capture'.at + LongestRun
      BY <2>1, <2>2, <3>1, RangeNumbers
    <3>3. \A f \in Watchers : DueInv(f)'
      BY <2>1, <3>1 DEF DueInv, NotLately, RowsOf
    <3>4. \A w \in capture.written : w[2] \in Nat
      BY <3>1 DEF Sending
    <3>5. \A w \in capture.written : w[2] <= minute'
      BY <2>2, <3>1, <3>4 DEF WrittenInv
    <3>6. WrittenInv'
      BY <2>1, <3>1, <3>5 DEF WrittenInv, NotLately
    <3>7. \A f \in capture'.outside : ToldOrWritten(f)'
      BY <2>1, <3>1 DEF ToldOrWritten, RowsOf, Lately
    <3>8. QED BY <2>1, <3>1, <3>2, <3>3, <3>6, <3>7
  <2>6. \A g \in lastRun'.outside : Lately(g, lastRun.at)'
    BY <2>1 DEF RangeInv, Lately
  <2>7. QED BY <2>3, <2>4, <2>5, <2>6 DEF RangeInv
<1>7. CASE UNCHANGED rangeVars
  <2>1. RangeTypeInv' /\ (\A f \in Watchers : RowsInv(f)')
    BY <1>7 DEF rangeVars, RangeInv, RangeTypeInv, RowsInv
  <2>2. RunInv'
    BY <1>7 DEF rangeVars, RangeInv, RunInv, DueInv, WrittenInv, NotLately, RowsOf, Lately, ToldOrWritten
  <2>3. \A g \in lastRun'.outside : Lately(g, lastRun.at)'
    BY <1>7 DEF rangeVars, RangeInv, Lately
  <2>4. QED BY <2>1, <2>2, <2>3 DEF RangeInv
<1>8. QED BY <1>1, <1>2, <1>3, <1>4, <1>5, <1>6, <1>7 DEF RangeNext

LEMMA RangeStart == RangeInit => RangeInv
<1> SUFFICES ASSUME RangeInit PROVE RangeInv
  OBVIOUS
<1>1. RangeTypeInv
  BY RangeNumbers DEF RangeInit, RangeTypeInv
<1>2. \A f \in Watchers : RowsInv(f)
  BY DEF RangeInit, RowsInv
<1>3. RunInv /\ \A f \in lastRun.outside : Lately(f, lastRun.at)
  BY DEF RangeInit, RunInv
<1>4. QED BY <1>1, <1>2, <1>3 DEF RangeInv

LEMMA RangeAlways == RangeSpec => []RangeInv
BY RangeStart, RangeStep, PTL DEF RangeSpec

(* A run is waiting for stories or none is, and alerts are of the past.    *)
THEOREM RangeTypeCorrect == RangeSpec => []RangeTypeOK
<1>1. RangeInv => RangeTypeOK
  BY RangeNumbers DEF RangeInv, RangeTypeInv, RangeTypeOK, Sending, NotRunning, Alerts
<1>2. QED BY <1>1, RangeAlways, PTL

(* However the moves fall, however long the stories take and whichever     *)
(* runs are lost before their commit, no family hears about a stock twice  *)
(* within the window unless its row was lost; one that was outside its     *)
(* band in a completed run was told then or lately, or the mail server     *)
(* refused its mail and the row of it holds; the query for the earlier row *)
(* never finds two; and the recap denies no alert it could have known of   *)
(* (_already_fired_recently, _send_one_alert, send_email, _quiet_rules).   *)
THEOREM AlertsAreSpaced == RangeSpec => []AlertsSpaced
<1>1. ASSUME RangeInv PROVE AlertsSpaced
  <2>1. \A f \in Watchers : RowsInv(f)
    BY <1>1 DEF RangeInv
  <2>2. \A f \in Watchers : \A m, n \in alertsOf[f] :
          m.kept /\ n.at > m.at => n.at - m.at > DEDUP_WINDOW
    BY <2>1 DEF RowsInv
  <2>3. \A f \in lastRun.outside : \E m \in alertsOf[f] :
          (m.came \/ m.kept) /\ m.at >= lastRun.at - DEDUP_WINDOW - LongestRun
    BY <1>1 DEF RangeInv, Lately
  <2>4. ~raised
    BY <1>1 DEF RangeInv, RangeTypeInv
  <2>5. \A f \in Watchers : quiet[f] # 0 => \A m \in alertsOf[f] : m.kept => m.at > quiet[f]
    BY <2>1 DEF RowsInv
  <2>6. QED BY <2>2, <2>3, <2>4, <2>5 DEF AlertsSpaced
<1>2. QED BY <1>1, RangeAlways, PTL
=============================================================================
