----------------------------- MODULE PartsProofs -----------------------------
(***************************************************************************)
(* Theorems about Triage, DayReport and MoneyIdeas, and what the theorems  *)
(* about the single parts say of all of them together.                     *)
(***************************************************************************)
EXTENDS Parts, PriceProofs, AiStoryProofs

(* A row as it may be on day t.                                            *)
RowAt(t) == [state : STATES \cup {"new"}, until : Nat, resolved : 0..t,
             first : 1..t, last : 1..t, seen : Nat]

LEMMA RowIsThere == \A t : NoRow \notin RowAt(t)
<1> SUFFICES ASSUME NEW t, NoRow \in RowAt(t) PROVE FALSE
  OBVIOUS
<1>1. NoRow.state \in STATES \cup {"new"}
  BY DEF RowAt
<1>2. QED BY <1>1 DEF NoRow, STATES

(* A new row.                                                              *)
LEMMA NewRowFields ==
  ASSUME NEW t \in Nat, NEW today \in 1..t, NEW s \in STATES \cup {"new"}
  PROVE  /\ NewRow(s, today) \in RowAt(t)
         /\ NewRow(s, today).state = s /\ NewRow(s, today).until = Never
         /\ NewRow(s, today).resolved = Never /\ NewRow(s, today).first = today
         /\ NewRow(s, today).last = today /\ NewRow(s, today).seen = 1
BY DEF NewRow, RowAt, Never

(* What an observer read on its day makes of the row as it is now.         *)
SightedRow(v, old, cur, today) ==
  /\ v.state = cur.state /\ v.until = cur.until /\ v.resolved = cur.resolved
  /\ v.seen = IF old.last = today THEN cur.seen ELSE old.seen + 1
  /\ v.last = IF today > old.last THEN today ELSE cur.last
  /\ v.first = IF old.last # today /\ today < old.first THEN today ELSE cur.first

LEMMA SightWritten ==
  ASSUME NEW t \in Nat, NEW today \in 1..t, NEW old \in RowAt(t), NEW cur \in RowAt(t)
  PROVE  /\ Written(old, Sighted(old, today), cur) \in RowAt(t)
         /\ SightedRow(Written(old, Sighted(old, today), cur), old, cur, today)
<1> DEFINE new == Sighted(old, today)
           v == Written(old, new, cur)
           Columns == {"state", "until", "resolved", "first", "last", "seen"}
<1>1. old # NoRow
  BY RowIsThere
<1>2. /\ new \in RowAt(t) /\ new.state = old.state /\ new.until = old.until
      /\ new.resolved = old.resolved
      /\ new.seen = (IF old.last = today THEN old.seen ELSE old.seen + 1)
      /\ new.last = (IF today > old.last THEN today ELSE old.last)
      /\ new.first = (IF old.last # today /\ today < old.first THEN today ELSE old.first)
  <2>1. CASE old.last = today
    BY <1>1, <2>1 DEF Sighted, RowAt
  <2>2. CASE old.last # today
    <3> DEFINE seen == old.seen + 1
               last == IF today > old.last THEN today ELSE old.last
               first == IF today < old.first THEN today ELSE old.first
    <3>1. new = [old EXCEPT !.seen = seen, !.last = last, !.first = first]
      BY <1>1, <2>2 DEF Sighted
    <3>2. seen \in Nat /\ last \in 1..t /\ first \in 1..t
      BY DEF RowAt
    <3> HIDE DEF seen, last, first, new
    <3>3. /\ new \in RowAt(t) /\ new.state = old.state /\ new.until = old.until
          /\ new.resolved = old.resolved /\ new.seen = seen /\ new.last = last /\ new.first = first
      BY <3>1, <3>2 DEF RowAt
    <3>4. QED BY <2>2, <3>3 DEF seen, last, first
  <2>3. QED BY <2>1, <2>2
<1>3. DOMAIN new = Columns
  BY <1>2 DEF RowAt
<1>4. v = [c \in Columns |-> IF new[c] = old[c] THEN cur[c] ELSE new[c]]
  BY <1>1, <1>3 DEF Written
<1> HIDE DEF new, v
<1>5. /\ v.state = (IF new.state = old.state THEN cur.state ELSE new.state)
      /\ v.until = (IF new.until = old.until THEN cur.until ELSE new.until)
      /\ v.resolved = (IF new.resolved = old.resolved THEN cur.resolved ELSE new.resolved)
      /\ v.seen = (IF new.seen = old.seen THEN cur.seen ELSE new.seen)
      /\ v.last = (IF new.last = old.last THEN cur.last ELSE new.last)
      /\ v.first = (IF new.first = old.first THEN cur.first ELSE new.first)
  BY <1>4
<1>6. /\ old.seen \in Nat /\ old.last \in 1..t /\ old.first \in 1..t /\ today \in 1..t
      /\ cur.seen \in Nat /\ cur.last \in 1..t /\ cur.first \in 1..t
  BY DEF RowAt
<1>7. SightedRow(v, old, cur, today)
  BY <1>2, <1>5, <1>6 DEF SightedRow
<1>8. /\ cur.state \in STATES \cup {"new"} /\ cur.until \in Nat /\ cur.resolved \in 0..t
      /\ new.first \in 1..t /\ new.last \in 1..t /\ new.seen \in Nat
  BY <1>2 DEF RowAt
<1>9. v \in RowAt(t)
  BY <1>2, <1>4, <1>5, <1>6, <1>8 DEF RowAt
<1>10. QED BY <1>7, <1>9 DEF new, v

(* A row says what the last decision was.                                  *)
AsDecided(v, d) ==
  /\ v.state = d.state
  /\ v.until = (IF d.state = "ack" THEN d.on + d.days ELSE Never)
  /\ v.resolved = (IF d.state = "resolved" THEN d.on ELSE Never)

LEMMA DecisionFields ==
  ASSUME NEW d \in Decisions
  PROVE  d.state \in STATES \cup {"new"} /\ d.state # "new" /\ d.days \in Nat
<1>1. CASE d \in [state : {"ack"}, days : SnoozeDays]
  <2>1. d.state = "ack" /\ d.days \in SnoozeDays
    BY <1>1
  <2>2. QED BY <2>1, TriageAssumption DEF STATES
<1>2. CASE d \in [state : STATES \ {"ack"}, days : {0}]
  <2>1. d.state \in STATES /\ d.days = 0
    BY <1>2
  <2>2. QED BY <2>1 DEF STATES
<1>3. QED BY <1>1, <1>2 DEF Decisions

LEMMA DecideFields ==
  ASSUME NEW t \in Nat, NEW today \in 1..t, NEW old \in RowAt(t) \cup {NoRow}, NEW d \in Decisions
  PROVE  /\ Decided(old, d, today) \in RowAt(t)
         /\ AsDecided(Decided(old, d, today), [state |-> d.state, on |-> today, days |-> d.days])
         /\ old = NoRow => /\ Decided(old, d, today).seen = 1
                           /\ Decided(old, d, today).last = today
                           /\ Decided(old, d, today).first = today
         /\ old # NoRow => /\ Decided(old, d, today).seen = old.seen
                           /\ Decided(old, d, today).last = old.last
                           /\ Decided(old, d, today).first = old.first
<1>1. PICK b \in RowAt(t) :
         /\ b = (IF old = NoRow THEN NewRow(d.state, today) ELSE old)
         /\ old = NoRow => b.seen = 1 /\ b.last = today /\ b.first = today
  <2>1. d.state \in STATES \cup {"new"}
    BY DecisionFields
  <2>2. QED BY <2>1, NewRowFields
<1> DEFINE until == IF d.state = "ack" THEN today + d.days ELSE Never
           resolved == IF d.state = "resolved" THEN today ELSE Never
           w == Decided(old, d, today)
<1>2. d.state \in STATES \cup {"new"} /\ until \in Nat /\ resolved \in 0..t
  <2>1. d.state \in STATES \cup {"new"} /\ d.days \in Nat
    BY DecisionFields
  <2>2. today + d.days \in Nat /\ 0 \in 0..t /\ today \in 0..t
    BY <2>1
  <2>3. QED BY <2>1, <2>2 DEF Never
<1>3. w = [b EXCEPT !.state = d.state, !.until = until, !.resolved = resolved]
  BY <1>1 DEF Decided
<1>4. AsDecided(w, [state |-> d.state, on |-> today, days |-> d.days]) <=>
        (w.state = d.state /\ w.until = until /\ w.resolved = resolved)
  BY DEF AsDecided
<1> HIDE DEF until, resolved, w
<1>5. /\ w \in RowAt(t) /\ w.state = d.state /\ w.until = until /\ w.resolved = resolved
      /\ w.seen = b.seen /\ w.last = b.last /\ w.first = b.first
  BY <1>2, <1>3 DEF RowAt
<1>6. QED BY <1>1, <1>4, <1>5 DEF w

DecidedRow(v, old, cur, d, today) ==
  /\ v.seen = cur.seen /\ v.last = cur.last /\ v.first = cur.first
  /\ \A p : AsDecided(old, p) /\ AsDecided(cur, p) =>
       AsDecided(v, [state |-> d.state, on |-> today, days |-> d.days])

LEMMA DecideWritten ==
  ASSUME NEW t \in Nat, NEW today \in 1..t, NEW old \in RowAt(t), NEW cur \in RowAt(t),
         NEW d \in Decisions
  PROVE  /\ Written(old, Decided(old, d, today), cur) \in RowAt(t)
         /\ DecidedRow(Written(old, Decided(old, d, today), cur), old, cur, d, today)
<1> DEFINE new == Decided(old, d, today)
           v == Written(old, new, cur)
           p1 == [state |-> d.state, on |-> today, days |-> d.days]
           Columns == {"state", "until", "resolved", "first", "last", "seen"}
<1>1. old # NoRow
  BY RowIsThere
<1>2. /\ new \in RowAt(t) /\ AsDecided(new, p1)
      /\ new.seen = old.seen /\ new.last = old.last /\ new.first = old.first
  BY <1>1, DecideFields
<1>3. DOMAIN new = Columns
  BY <1>2 DEF RowAt
<1>4. v = [c \in Columns |-> IF new[c] = old[c] THEN cur[c] ELSE new[c]]
  BY <1>1, <1>3 DEF Written
<1> HIDE DEF new, v, p1
<1>5. /\ v.state = (IF new.state = old.state THEN cur.state ELSE new.state)
      /\ v.until = (IF new.until = old.until THEN cur.until ELSE new.until)
      /\ v.resolved = (IF new.resolved = old.resolved THEN cur.resolved ELSE new.resolved)
      /\ v.seen = (IF new.seen = old.seen THEN cur.seen ELSE new.seen)
      /\ v.last = (IF new.last = old.last THEN cur.last ELSE new.last)
      /\ v.first = (IF new.first = old.first THEN cur.first ELSE new.first)
  BY <1>4
<1>6. /\ cur.state \in STATES \cup {"new"} /\ cur.until \in Nat /\ cur.resolved \in 0..t
      /\ cur.first \in 1..t /\ cur.last \in 1..t /\ cur.seen \in Nat
      /\ new.state \in STATES \cup {"new"} /\ new.until \in Nat /\ new.resolved \in 0..t
  BY <1>2 DEF RowAt
<1>7. v \in RowAt(t)
  BY <1>2, <1>4, <1>5, <1>6 DEF RowAt
<1>8. ASSUME NEW p, AsDecided(old, p), AsDecided(cur, p) PROVE AsDecided(v, p1)
  <2>1. cur.state = old.state /\ cur.until = old.until /\ cur.resolved = old.resolved
    BY <1>8 DEF AsDecided
  <2>2. v.state = new.state /\ v.until = new.until /\ v.resolved = new.resolved
    BY <1>5, <2>1
  <2>3. QED BY <1>2, <2>2 DEF AsDecided
<1>9. v.seen = cur.seen /\ v.last = cur.last /\ v.first = cur.first
  BY <1>2, <1>5
<1>10. DecidedRow(v, old, cur, d, today)
  BY <1>8, <1>9 DEF DecidedRow, p1
<1>11. QED BY <1>7, <1>10 DEF new, v

(* What a request holds of a finding.                                      *)
Has(q, f) == q.step \in {"observe", "decide"} /\ f \in DOMAIN q.rows
HasRow(q, f) == Has(q, f) /\ q.rows[f] # NoRow

Undecided == [state |-> "new", on |-> Never, days |-> 0]

ReqOK(q, t) ==
  /\ q.step \in {"idle", "report", "observe", "decide"}
  /\ q.step # "idle" => q.today \in 1..t
  /\ \A f : Has(q, f) => f \in Findings /\ q.rows[f] \in RowAt(t) \cup {NoRow}
  /\ q.step = "decide" => q.decision \in Decisions /\ \E f \in Findings : DOMAIN q.rows = {f}

TriageTypeInv ==
  /\ day \in 1..LastDay /\ decisions \in 0..MaxDecisions
  /\ row \in [Findings -> RowAt(day) \cup {NoRow}]
  /\ DOMAIN req = Requests /\ \A r \in Requests : ReqOK(req[r], day)
  /\ seenOn \in [Findings -> SUBSET (1..day)]
  /\ decided \in [Findings -> [state : STATES \cup {"new"}, on : 0..day, days : Nat]]
  /\ \A f \in Findings : decided[f].state = "new" \/ decided[f].on # Never
  /\ behind \in SUBSET Findings /\ overlapped \in SUBSET Findings

(* A finding without a row is one nobody has seen or decided about.        *)
NoRowInv(f) ==
  row[f] = NoRow =>
    /\ seenOn[f] = {} /\ decided[f] = Undecided
    /\ \A r \in Requests : Has(req[r], f) => req[r].rows[f] = NoRow

(* Everybody knows the day the row was made, or an earlier one as the      *)
(* first and a later one as the last.                                      *)
Around(v, b) == v.first <= b /\ b <= v.last
BornInv(f) ==
  row[f] # NoRow =>
    \E b \in 1..day :
      /\ Around(row[f], b)
      /\ \A r \in Requests : HasRow(req[r], f) => Around(req[r].rows[f], b)

(* Who looks at today's findings has read the row before or after today    *)
(* was counted, and nothing but today has been counted since.              *)
ReadToday(old, f) ==
  IF old.last = day THEN day \in seenOn[f] ELSE old.seen = Cardinality(seenOn[f] \ {day})

CountInv(f) ==
  f \notin behind /\ row[f] # NoRow =>
    /\ row[f].seen = Cardinality(seenOn[f])
    /\ row[f].last \in seenOn[f] /\ \A d \in seenOn[f] : d <= row[f].last
    /\ \A r \in Requests :
         req[r].step = "observe" /\ HasRow(req[r], f) /\ req[r].today = day =>
           ReadToday(req[r].rows[f], f)

(* While no two decisions overlap, the row and the decision under way have *)
(* both seen the last one.                                                 *)
SaysInv(f) ==
  f \notin overlapped /\ row[f] # NoRow =>
    /\ AsDecided(row[f], decided[f])
    /\ \A r \in Requests :
         req[r].step = "decide" /\ HasRow(req[r], f) => AsDecided(req[r].rows[f], decided[f])

FindingInv(f) == NoRowInv(f) /\ BornInv(f) /\ CountInv(f) /\ SaysInv(f)

TriageInv == TriageTypeInv /\ \A f \in Findings : FindingInv(f)

LEMMA TriageNumbers ==
  ASSUME TriageTypeInv
  PROVE  /\ LastDay \in Nat /\ day \in Nat /\ day >= 1 /\ day \in 1..day
         /\ \A f \in Findings : seenOn[f] \subseteq 1..day /\ IsFiniteSet(seenOn[f])
<1>1. LastDay \in Nat /\ day \in Nat /\ day >= 1 /\ day \in 1..day
  BY TriageAssumption DEF TriageTypeInv
<1>2. IsFiniteSet(1..day)
  BY <1>1, FS_Interval
<1>3. \A f \in Findings : seenOn[f] \subseteq 1..day
  BY DEF TriageTypeInv
<1>4. \A f \in Findings : IsFiniteSet(seenOn[f])
  BY <1>2, <1>3, FS_Subset
<1>5. QED BY <1>1, <1>3, <1>4

(* A finding nobody writes: requests may read its row or end.              *)
LEMMA UntouchedKeeps ==
  ASSUME TriageTypeInv, NEW f \in Findings, FindingInv(f), day' = day,
         row'[f] = row[f], seenOn'[f] = seenOn[f], decided'[f] = decided[f],
         behind \subseteq behind', overlapped \subseteq overlapped',
         \A o \in Requests : req'[o] = req[o] \/ (Has(req'[o], f) => req'[o].rows[f] = row[f])
  PROVE  FindingInv(f)'
<1>1. NoRowInv(f)'
  BY DEF FindingInv, NoRowInv, Has
<1>2. BornInv(f)'
  BY DEF FindingInv, BornInv, HasRow
<1>3. CountInv(f)'
  <2> SUFFICES ASSUME f \notin behind, row[f] # NoRow
               PROVE  /\ row[f].seen = Cardinality(seenOn[f])
                      /\ row[f].last \in seenOn[f] /\ \A d \in seenOn[f] : d <= row[f].last
                      /\ \A o \in Requests :
                           (req[o].step = "observe" /\ HasRow(req[o], f) /\ req[o].today = day =>
                              ReadToday(req[o].rows[f], f))'
    BY DEF CountInv
  <2>1. /\ row[f].seen = Cardinality(seenOn[f])
        /\ row[f].last \in seenOn[f] /\ \A d \in seenOn[f] : d <= row[f].last
        /\ \A o \in Requests :
             req[o].step = "observe" /\ HasRow(req[o], f) /\ req[o].today = day =>
               ReadToday(req[o].rows[f], f)
    BY DEF FindingInv, CountInv
  <2>2. seenOn[f] \subseteq 1..day /\ day \in Nat
    BY TriageNumbers
  <2>3. ReadToday(row[f], f)
    <3>1. CASE row[f].last = day
      BY <2>1, <3>1 DEF ReadToday
    <3>2. CASE row[f].last # day
      <4>1. day \notin seenOn[f]
        BY <2>1, <2>2, <3>2
      <4>2. seenOn[f] \ {day} = seenOn[f]
        BY <4>1
      <4>3. QED BY <2>1, <3>2, <4>2 DEF ReadToday
    <3>3. QED BY <3>1, <3>2
  <2>4. ASSUME NEW o \in Requests, (req[o].step = "observe" /\ HasRow(req[o], f) /\ req[o].today = day)'
        PROVE  ReadToday(req[o].rows[f], f)'
    <3>1. CASE req'[o] = req[o]
      <4>1. ReadToday(req[o].rows[f], f)
        BY <2>1, <2>4, <3>1 DEF HasRow, Has
      <4>2. QED BY <3>1, <4>1 DEF ReadToday
    <3>2. CASE req'[o].rows[f] = row[f]
      BY <2>3, <3>2 DEF ReadToday
    <3>3. QED BY <2>4, <3>1, <3>2 DEF HasRow, Has
  <2>5. QED BY <2>1, <2>4
<1>4. SaysInv(f)'
  BY DEF FindingInv, SaysInv, HasRow
<1>5. QED BY <1>1, <1>2, <1>3, <1>4 DEF FindingInv

(* A row that is made now: by whoever made it, nobody has read it yet.     *)
LEMMA MadeKeeps ==
  ASSUME TriageTypeInv, NEW f \in Findings, FindingInv(f), NEW r \in Requests,
         row[f] = NoRow, day' = day, NEW today \in 1..day,
         row'[f] # NoRow, row'[f].first = today, row'[f].last = today, row'[f].seen = 1,
         AsDecided(row'[f], decided'[f]), seenOn'[f] = {today},
         req'[r] = Idle, \A o \in Requests \ {r} : req'[o] = req[o]
  PROVE  FindingInv(f)'
<1>1. \A o \in Requests : ~HasRow(req'[o], f)
  BY DEF FindingInv, NoRowInv, HasRow, Has, Idle
<1>2. NoRowInv(f)'
  BY DEF NoRowInv
<1>3. today \in Nat
  BY TriageNumbers
<1>4. BornInv(f)'
  BY <1>1, <1>3 DEF BornInv, Around
<1>5. Cardinality({today}) = 1
  BY FS_Singleton
<1>6. CountInv(f)'
  BY <1>1, <1>3, <1>5 DEF CountInv
<1>7. SaysInv(f)'
  BY <1>1 DEF SaysInv
<1>8. QED BY <1>2, <1>4, <1>6, <1>7 DEF FindingInv

(* An observer counts its day: once more if nobody has counted it since    *)
(* the row was read, and else what somebody else has made of it.           *)
LEMMA ObserveKeeps ==
  ASSUME TriageTypeInv, NEW f \in Findings, FindingInv(f), NEW r \in Requests,
         req[r].step = "observe", Has(req[r], f),
         NEW old, old = req[r].rows[f], NEW today, today = req[r].today,
         old = NoRow => row[f] = NoRow,
         day' = day, row'[f] = Written(old, Sighted(old, today), row[f]),
         seenOn'[f] = seenOn[f] \union {today}, decided'[f] = decided[f],
         overlapped' = overlapped, behind \subseteq behind',
         today < day => f \in behind',
         req'[r] = Idle, \A o \in Requests \ {r} : req'[o] = req[o]
  PROVE  FindingInv(f)'
<1>1. day \in Nat /\ today \in 1..day /\ today \in Nat /\ old \in RowAt(day) \cup {NoRow}
  BY TriageNumbers DEF TriageTypeInv, ReqOK
<1>2. CASE old = NoRow
  <2>1. row'[f] = NewRow("new", today) /\ row[f] = NoRow
    BY <1>2 DEF Written, Sighted
  <2>2. seenOn[f] = {} /\ decided[f] = Undecided
    BY <2>1 DEF FindingInv, NoRowInv
  <2>3. seenOn'[f] = {today} /\ decided'[f] = Undecided
    BY <2>2
  <2>4. /\ row'[f] \in RowAt(day) /\ row'[f].state = "new" /\ row'[f].until = Never
        /\ row'[f].resolved = Never /\ row'[f].first = today
        /\ row'[f].last = today /\ row'[f].seen = 1
    BY <1>1, <2>1, NewRowFields
  <2>5. row'[f] # NoRow /\ AsDecided(row'[f], decided'[f])
    BY <2>3, <2>4, RowIsThere DEF AsDecided, Undecided
  <2>6. QED BY <1>1, <2>1, <2>3, <2>4, <2>5, MadeKeeps
<1>3. CASE old # NoRow
  <2> DEFINE cur == row[f]
             v == Written(old, Sighted(old, today), cur)
  <2>1. old \in RowAt(day) /\ cur \in RowAt(day) /\ cur # NoRow
    BY <1>1, <1>3 DEF TriageTypeInv, FindingInv, NoRowInv, HasRow
  <2>2. v \in RowAt(day) /\ SightedRow(v, old, cur, today) /\ v # NoRow /\ row'[f] = v
    BY <1>1, <2>1, SightWritten, RowIsThere
  <2> HIDE DEF v
  <2>3. /\ old.last \in 1..day /\ old.first \in 1..day /\ old.seen \in Nat
        /\ cur.last \in 1..day /\ cur.first \in 1..day /\ cur.seen \in Nat
        /\ v.last \in 1..day /\ v.first \in 1..day /\ v.seen \in Nat
    BY <2>1, <2>2 DEF RowAt
  <2>4. NoRowInv(f)'
    BY <2>2 DEF NoRowInv
  <2>5. BornInv(f)'
    <3>1. PICK b \in 1..day :
            /\ Around(cur, b)
            /\ \A o \in Requests : HasRow(req[o], f) => Around(req[o].rows[f], b)
      BY <2>1 DEF FindingInv, BornInv
    <3>2. Around(old, b) /\ b \in Nat
      BY <1>1, <1>3, <3>1 DEF HasRow
    <3>3. Around(v, b)
      BY <1>1, <2>2, <2>3, <3>1, <3>2 DEF Around, SightedRow
    <3>4. \A o \in Requests : HasRow(req'[o], f) => Around(req'[o].rows[f], b)
      BY <3>1 DEF HasRow, Has, Idle
    <3>5. QED BY <2>2, <3>3, <3>4 DEF BornInv
  <2>6. CountInv(f)'
    <3> SUFFICES ASSUME f \notin behind'
                 PROVE  /\ v.seen = Cardinality(seenOn'[f])
                        /\ v.last \in seenOn'[f] /\ \A d \in seenOn'[f] : d <= v.last
                        /\ \A o \in Requests :
                             (req[o].step = "observe" /\ HasRow(req[o], f) /\ req[o].today = day =>
                                ReadToday(req[o].rows[f], f))'
      BY <2>2 DEF CountInv
    <3>1. f \notin behind /\ today = day
      BY <1>1
    <3>2. /\ cur.seen = Cardinality(seenOn[f])
          /\ cur.last \in seenOn[f] /\ \A d \in seenOn[f] : d <= cur.last
          /\ \A o \in Requests :
               req[o].step = "observe" /\ HasRow(req[o], f) /\ req[o].today = day =>
                 ReadToday(req[o].rows[f], f)
      BY <2>1, <3>1 DEF FindingInv, CountInv
    <3>3. ReadToday(old, f)
      BY <1>3, <3>1, <3>2 DEF HasRow
    <3>4. seenOn[f] \subseteq 1..day /\ IsFiniteSet(seenOn[f])
      BY TriageNumbers
    <3>5. CASE old.last = day
      <4>1. day \in seenOn[f] /\ seenOn'[f] = seenOn[f]
        BY <3>1, <3>3, <3>5 DEF ReadToday
      <4>2. v.seen = cur.seen /\ v.last = cur.last
        BY <1>1, <2>2, <3>1, <3>5 DEF SightedRow
      <4>3. ASSUME NEW o \in Requests,
                   (req[o].step = "observe" /\ HasRow(req[o], f) /\ req[o].today = day)'
            PROVE  ReadToday(req[o].rows[f], f)'
        <5>1. req'[o] = req[o]
          BY <4>3 DEF HasRow, Has, Idle
        <5>2. ReadToday(req[o].rows[f], f)
          BY <3>2, <4>3, <5>1 DEF HasRow, Has
        <5>3. QED BY <4>1, <5>1, <5>2 DEF ReadToday
      <4>4. QED BY <3>2, <4>1, <4>2, <4>3
    <3>6. CASE old.last # day
      <4>1. old.seen = Cardinality(seenOn[f] \ {day})
        BY <3>3, <3>6 DEF ReadToday
      <4>2. v.seen = old.seen + 1 /\ v.last = day
        BY <1>1, <2>2, <2>3, <3>1, <3>6 DEF SightedRow
      <4>3. seenOn'[f] = (seenOn[f] \ {day}) \cup {day} /\ seenOn'[f] \ {day} = seenOn[f] \ {day}
        BY <3>1
      <4>4. IsFiniteSet(seenOn[f] \ {day})
        BY <3>4, FS_Subset
      <4>5. Cardinality((seenOn[f] \ {day}) \cup {day}) = Cardinality(seenOn[f] \ {day}) + 1
        BY <4>4, FS_AddElement
      <4>6. \A d \in seenOn'[f] : d <= day
        BY <1>1, <3>4, <4>3
      <4>7. ASSUME NEW o \in Requests,
                   (req[o].step = "observe" /\ HasRow(req[o], f) /\ req[o].today = day)'
            PROVE  ReadToday(req[o].rows[f], f)'
        <5>1. req'[o] = req[o]
          BY <4>7 DEF HasRow, Has, Idle
        <5>2. ReadToday(req[o].rows[f], f)
          BY <3>2, <4>7, <5>1 DEF HasRow, Has
        <5>3. QED BY <4>3, <5>1, <5>2 DEF ReadToday
      <4>8. QED BY <4>1, <4>2, <4>3, <4>5, <4>6, <4>7
    <3>7. QED BY <3>5, <3>6
  <2>7. SaysInv(f)'
    <3> SUFFICES ASSUME f \notin overlapped
                 PROVE  /\ AsDecided(v, decided[f])
                        /\ \A o \in Requests :
                             (req[o].step = "decide" /\ HasRow(req[o], f) =>
                                AsDecided(req[o].rows[f], decided[f]))'
      BY <2>2 DEF SaysInv
    <3>1. /\ AsDecided(cur, decided[f])
          /\ \A o \in Requests :
               req[o].step = "decide" /\ HasRow(req[o], f) => AsDecided(req[o].rows[f], decided[f])
      BY <2>1 DEF FindingInv, SaysInv
    <3>2. AsDecided(v, decided[f])
      BY <2>2, <3>1 DEF AsDecided, SightedRow
    <3>3. QED BY <3>1, <3>2 DEF HasRow, Has, Idle
  <2>8. QED BY <2>4, <2>5, <2>6, <2>7 DEF FindingInv
<1>4. QED BY <1>2, <1>3

LEMMA DecideKeeps ==
  ASSUME TriageTypeInv, NEW f \in Findings, FindingInv(f), NEW r \in Requests,
         req[r].step = "decide", Has(req[r], f),
         NEW old, old = req[r].rows[f], NEW today, today = req[r].today,
         NEW d \in Decisions, old = NoRow => row[f] = NoRow,
         day' = day, row'[f] = Written(old, Decided(old, d, today), row[f]),
         seenOn'[f] = (IF old = NoRow THEN {today} ELSE seenOn[f]),
         decided'[f] = [state |-> d.state, on |-> today, days |-> d.days],
         behind' = behind, overlapped \subseteq overlapped',
         (\E o \in Requests \ {r} : req[o].step = "decide" /\ Has(req[o], f)) => f \in overlapped',
         req'[r] = Idle, \A o \in Requests \ {r} : req'[o] = req[o]
  PROVE  FindingInv(f)'
<1>1. day \in Nat /\ today \in 1..day /\ today \in Nat /\ old \in RowAt(day) \cup {NoRow}
  BY TriageNumbers DEF TriageTypeInv, ReqOK
<1>2. CASE old = NoRow
  <2>1. row'[f] = Decided(old, d, today) /\ row[f] = NoRow /\ seenOn'[f] = {today}
    BY <1>2 DEF Written
  <2>2. /\ row'[f] \in RowAt(day) /\ AsDecided(row'[f], decided'[f])
        /\ row'[f].first = today /\ row'[f].last = today /\ row'[f].seen = 1
    BY <1>1, <1>2, <2>1, DecideFields
  <2>3. row'[f] # NoRow
    BY <2>2, RowIsThere
  <2>4. QED BY <1>1, <2>1, <2>2, <2>3, MadeKeeps
<1>3. CASE old # NoRow
  <2> DEFINE cur == row[f]
             v == Written(old, Decided(old, d, today), cur)
             p1 == [state |-> d.state, on |-> today, days |-> d.days]
  <2>1. old \in RowAt(day) /\ cur \in RowAt(day) /\ cur # NoRow
    BY <1>1, <1>3 DEF TriageTypeInv, FindingInv, NoRowInv, HasRow
  <2>2. /\ v \in RowAt(day) /\ v # NoRow /\ row'[f] = v
        /\ v.seen = cur.seen /\ v.last = cur.last /\ v.first = cur.first
        /\ \A p : AsDecided(old, p) /\ AsDecided(cur, p) => AsDecided(v, p1)
    <3>1. v \in RowAt(day) /\ DecidedRow(v, old, cur, d, today)
      BY <1>1, <2>1, DecideWritten
    <3> HIDE DEF v
    <3>2. row'[f] = v
      BY DEF v
    <3>3. QED BY <3>1, <3>2, RowIsThere DEF DecidedRow
  <2> HIDE DEF v, p1
  <2>3. decided'[f] = p1 /\ seenOn'[f] = seenOn[f]
    BY <1>3 DEF p1
  <2>4. NoRowInv(f)'
    BY <2>2 DEF NoRowInv
  <2>5. BornInv(f)'
    <3>1. PICK b \in 1..day :
            /\ Around(cur, b)
            /\ \A o \in Requests : HasRow(req[o], f) => Around(req[o].rows[f], b)
      BY <2>1 DEF FindingInv, BornInv
    <3>2. Around(v, b)
      BY <2>2, <3>1 DEF Around
    <3>3. \A o \in Requests : HasRow(req'[o], f) => Around(req'[o].rows[f], b)
      BY <3>1 DEF HasRow, Has, Idle
    <3>4. QED BY <2>2, <3>2, <3>3 DEF BornInv
  <2>6. CountInv(f)'
    <3> SUFFICES ASSUME f \notin behind
                 PROVE  /\ v.seen = Cardinality(seenOn[f])
                        /\ v.last \in seenOn[f] /\ \A e \in seenOn[f] : e <= v.last
                        /\ \A o \in Requests :
                             (req[o].step = "observe" /\ HasRow(req[o], f) /\ req[o].today = day =>
                                ReadToday(req[o].rows[f], f))'
      BY <2>2, <2>3 DEF CountInv
    <3>1. /\ cur.seen = Cardinality(seenOn[f])
          /\ cur.last \in seenOn[f] /\ \A e \in seenOn[f] : e <= cur.last
          /\ \A o \in Requests :
               req[o].step = "observe" /\ HasRow(req[o], f) /\ req[o].today = day =>
                 ReadToday(req[o].rows[f], f)
      BY <2>1 DEF FindingInv, CountInv
    <3>2. ASSUME NEW o \in Requests,
                 (req[o].step = "observe" /\ HasRow(req[o], f) /\ req[o].today = day)'
          PROVE  ReadToday(req[o].rows[f], f)'
      <4>1. req'[o] = req[o]
        BY <3>2 DEF HasRow, Has, Idle
      <4>2. ReadToday(req[o].rows[f], f)
        BY <3>1, <3>2, <4>1 DEF HasRow, Has
      <4>3. QED BY <2>3, <4>1, <4>2 DEF ReadToday
    <3>3. QED BY <2>2, <3>1, <3>2
  <2>7. SaysInv(f)'
    <3> SUFFICES ASSUME f \notin overlapped'
                 PROVE  /\ AsDecided(v, p1)
                        /\ \A o \in Requests :
                             (req[o].step = "decide" /\ HasRow(req[o], f) =>
                                AsDecided(req[o].rows[f], decided[f]))'
      BY <2>2, <2>3 DEF SaysInv
    <3>1. /\ AsDecided(cur, decided[f])
          /\ \A o \in Requests :
               req[o].step = "decide" /\ HasRow(req[o], f) => AsDecided(req[o].rows[f], decided[f])
      BY <2>1 DEF FindingInv, SaysInv
    <3>2. AsDecided(old, decided[f])
      BY <1>3, <3>1 DEF HasRow
    <3>3. AsDecided(v, p1)
      BY <2>2, <3>1, <3>2
    <3>4. \A o \in Requests : ~(req'[o].step = "decide" /\ HasRow(req'[o], f))
      BY DEF HasRow, Has, Idle
    <3>5. QED BY <3>3, <3>4 DEF HasRow, Has
  <2>8. QED BY <2>4, <2>5, <2>6, <2>7 DEF FindingInv
<1>4. QED BY <1>2, <1>3

(* A step that only changes what one request holds.                        *)
LEMMA RequestKeeps ==
  ASSUME TriageInv, NEW r \in Requests, NEW q,
         req' = [req EXCEPT ![r] = q], decisions' \in 0..MaxDecisions,
         UNCHANGED <<day, row, triageHistory>>,
         ReqOK(q, day), \A f \in Findings : Has(q, f) => q.rows[f] = row[f]
  PROVE  TriageInv'
<1>1. TriageTypeInv /\ \A f \in Findings : FindingInv(f)
  BY DEF TriageInv
<1>2. /\ req'[r] = q /\ DOMAIN req' = Requests
      /\ \A o \in Requests \ {r} : req'[o] = req[o]
      /\ day' = day /\ row' = row /\ seenOn' = seenOn /\ decided' = decided
      /\ behind' = behind /\ overlapped' = overlapped
  BY <1>1 DEF TriageTypeInv, triageHistory
<1>3. TriageTypeInv'
  BY <1>1, <1>2 DEF TriageTypeInv
<1>4. ASSUME NEW f \in Findings PROVE FindingInv(f)'
  <2>1. \A o \in Requests : req'[o] = req[o] \/ (Has(req'[o], f) => req'[o].rows[f] = row[f])
    BY <1>2
  <2>2. QED BY <1>1, <1>2, <2>1, UntouchedKeeps
<1>5. QED BY <1>3, <1>4 DEF TriageInv

LEMMA TriageReportKeeps ==
  ASSUME TriageInv, NEW r \in Requests, ReportBegins(r)
  PROVE  TriageInv'
<1> DEFINE q == [step |-> "report", today |-> day]
<1>1. TriageTypeInv /\ day \in 1..day
  BY TriageNumbers DEF TriageInv
<1>2. ReqOK(q, day) /\ \A f \in Findings : ~Has(q, f)
  BY <1>1 DEF ReqOK, Has
<1>3. req' = [req EXCEPT ![r] = q] /\ UNCHANGED <<day, row, decisions, triageHistory>>
  BY DEF ReportBegins
<1>4. decisions' \in 0..MaxDecisions
  BY <1>1, <1>3 DEF TriageTypeInv
<1> HIDE DEF q
<1>5. QED BY <1>2, <1>3, <1>4, RequestKeeps

LEMMA ReadingKeeps ==
  ASSUME TriageInv, NEW r \in Requests, RowsRead(r)
  PROVE  TriageInv'
<1>1. TriageTypeInv /\ \A f \in Findings : row[f] \in RowAt(day) \cup {NoRow}
  BY DEF TriageInv, TriageTypeInv
<1>2. PICK found \in SUBSET Findings :
         req' = [req EXCEPT ![r] = [step |-> "observe", today |-> req[r].today,
                                    rows |-> [f \in found |-> row[f]]]]
  BY DEF RowsRead
<1> DEFINE q == [step |-> "observe", today |-> req[r].today, rows |-> [f \in found |-> row[f]]]
<1>3. req[r].today \in 1..day
  BY <1>1 DEF RowsRead, TriageTypeInv, ReqOK
<1>4. \A f : Has(q, f) => f \in Findings /\ q.rows[f] = row[f]
  BY DEF Has
<1>5. ReqOK(q, day)
  BY <1>1, <1>3, <1>4 DEF ReqOK
<1>6. UNCHANGED <<day, row, decisions, triageHistory>> /\ decisions' \in 0..MaxDecisions
  BY <1>1 DEF RowsRead, TriageTypeInv
<1> HIDE DEF q
<1>7. req' = [req EXCEPT ![r] = q]
  BY <1>2 DEF q
<1>8. QED BY <1>4, <1>5, <1>6, <1>7, RequestKeeps

LEMMA DecidingKeeps ==
  ASSUME TriageInv, NEW r \in Requests, DecisionReads(r)
  PROVE  TriageInv'
<1>1. /\ TriageTypeInv /\ \A f \in Findings : row[f] \in RowAt(day) \cup {NoRow}
      /\ day \in 1..day
  BY TriageNumbers DEF TriageInv, TriageTypeInv
<1>2. PICK f \in Findings, d \in Decisions :
         req' = [req EXCEPT ![r] = [step |-> "decide", today |-> day, decision |-> d,
                                    rows |-> [x \in {f} |-> row[x]]]]
  BY DEF DecisionReads
<1> DEFINE q == [step |-> "decide", today |-> day, decision |-> d,
                 rows |-> [x \in {f} |-> row[x]]]
<1>3. \A g : Has(q, g) => g \in Findings /\ q.rows[g] = row[g]
  BY DEF Has
<1>4. ReqOK(q, day)
  BY <1>1, <1>3 DEF ReqOK
<1>5. UNCHANGED <<day, row, triageHistory>> /\ decisions' \in 0..MaxDecisions
  BY <1>1, TriageAssumption DEF DecisionReads, TriageTypeInv
<1> HIDE DEF q
<1>6. req' = [req EXCEPT ![r] = q]
  BY <1>2 DEF q
<1>7. QED BY <1>3, <1>4, <1>5, <1>6, RequestKeeps

(* A request that gives up, or whose commit fails.                         *)
LEMMA GivesUpKeeps ==
  ASSUME TriageInv, NEW r \in Requests, req' = [req EXCEPT ![r] = Idle],
         UNCHANGED <<day, row, decisions, triageHistory>>
  PROVE  TriageInv'
<1>1. ReqOK(Idle, day) /\ \A f \in Findings : ~Has(Idle, f)
  BY DEF ReqOK, Has, Idle
<1>2. decisions' \in 0..MaxDecisions
  BY DEF TriageInv, TriageTypeInv
<1>3. QED BY <1>1, <1>2, RequestKeeps

LEMMA ObservationKeeps ==
  ASSUME TriageInv, NEW r \in Requests, ObserveCommits(r)
  PROVE  TriageInv'
<1> DEFINE rows == req[r].rows
           today == req[r].today
<1>1. /\ TriageTypeInv /\ \A f \in Findings : FindingInv(f)
      /\ req[r].step = "observe" /\ day \in Nat /\ today \in 1..day /\ today \in Nat
  BY TriageNumbers DEF TriageInv, ObserveCommits, TriageTypeInv, ReqOK
<1>2. req' = [req EXCEPT ![r] = Idle] /\ UNCHANGED <<day, decisions>>
  BY DEF ObserveCommits
<1>3. CASE Collides(rows)
  BY <1>2, <1>3, GivesUpKeeps DEF ObserveCommits
<1>4. CASE ~Collides(rows)
  <2>1. /\ row' = [f \in Findings |->
                     IF f \in DOMAIN rows THEN Written(rows[f], Sighted(rows[f], today), row[f])
                     ELSE row[f]]
        /\ seenOn' = [f \in Findings |->
                        IF f \in DOMAIN rows THEN seenOn[f] \union {today} ELSE seenOn[f]]
        /\ behind' = IF today < day THEN behind \union DOMAIN rows ELSE behind
        /\ UNCHANGED <<decided, overlapped>>
    BY <1>4 DEF ObserveCommits
  <2>2. /\ req'[r] = Idle /\ DOMAIN req' = Requests
        /\ \A o \in Requests \ {r} : req'[o] = req[o]
    BY <1>1, <1>2 DEF TriageTypeInv
  <2>3. \A f \in DOMAIN rows : /\ Has(req[r], f) /\ f \in Findings
                               /\ rows[f] \in RowAt(day) \cup {NoRow}
                               /\ rows[f] = NoRow => row[f] = NoRow
    BY <1>1, <1>4 DEF Has, TriageTypeInv, ReqOK, Collides
  <2> HIDE DEF rows, today
  <2>4. ASSUME NEW f \in DOMAIN rows PROVE row'[f] \in RowAt(day)
    <3>1. /\ row'[f] = Written(rows[f], Sighted(rows[f], today), row[f])
          /\ row[f] \in RowAt(day) \cup {NoRow}
      BY <1>1, <2>1, <2>3 DEF TriageTypeInv
    <3>2. CASE rows[f] = NoRow
      <4>1. row'[f] = NewRow("new", today)
        BY <3>1, <3>2 DEF Written, Sighted
      <4>2. QED BY <1>1, <4>1, NewRowFields
    <3>3. CASE rows[f] # NoRow
      <4>1. row[f] # NoRow
        BY <1>1, <2>3, <3>3 DEF FindingInv, NoRowInv, rows
      <4>2. QED BY <1>1, <2>3, <3>1, <3>3, <4>1, SightWritten
    <3>4. QED BY <3>2, <3>3
  <2>5. TriageTypeInv'
    <3>1. row' \in [Findings -> RowAt(day) \cup {NoRow}]
      BY <1>1, <2>1, <2>4 DEF TriageTypeInv
    <3>2. \A o \in Requests : ReqOK(req'[o], day)
      BY <1>1, <2>2 DEF TriageTypeInv, ReqOK, Has, Idle
    <3>3. seenOn' \in [Findings -> SUBSET (1..day)]
      BY <1>1, <2>1 DEF TriageTypeInv
    <3>4. behind' \in SUBSET Findings
      BY <1>1, <2>1, <2>3 DEF TriageTypeInv
    <3>5. QED BY <1>1, <1>2, <2>1, <2>2, <3>1, <3>2, <3>3, <3>4 DEF TriageTypeInv
  <2>6. ASSUME NEW f \in Findings PROVE FindingInv(f)'
    <3>1. CASE f \in DOMAIN rows
      <4>1. /\ row'[f] = Written(rows[f], Sighted(rows[f], today), row[f])
            /\ seenOn'[f] = seenOn[f] \union {today} /\ decided'[f] = decided[f]
            /\ overlapped' = overlapped /\ behind \subseteq behind'
            /\ today < day => f \in behind'
        BY <2>1, <3>1
      <4>2. /\ rows[f] = req[r].rows[f] /\ today = req[r].today
        BY DEF rows, today
      <4>3. Has(req[r], f)
        BY <2>3, <3>1
      <4>4. rows[f] = NoRow => row[f] = NoRow
        BY <2>3, <3>1
      <4>5. QED BY <1>1, <1>2, <2>2, <4>1, <4>2, <4>3, <4>4, ObserveKeeps
    <3>2. CASE f \notin DOMAIN rows
      <4>1. /\ row'[f] = row[f] /\ seenOn'[f] = seenOn[f] /\ decided'[f] = decided[f]
            /\ behind \subseteq behind' /\ overlapped \subseteq overlapped'
        BY <2>1, <3>2
      <4>2. \A o \in Requests : req'[o] = req[o] \/ (Has(req'[o], f) => req'[o].rows[f] = row[f])
        BY <2>2 DEF Has, Idle
      <4>3. QED BY <1>1, <1>2, <4>1, <4>2, UntouchedKeeps
    <3>3. QED BY <3>1, <3>2
  <2>7. QED BY <2>5, <2>6 DEF TriageInv
<1>5. QED BY <1>3, <1>4

LEMMA DecisionKeeps ==
  ASSUME TriageInv, NEW r \in Requests, DecisionCommits(r)
  PROVE  TriageInv'
<1> DEFINE rows == req[r].rows
           today == req[r].today
           d == req[r].decision
<1>1. /\ TriageTypeInv /\ \A f \in Findings : FindingInv(f)
      /\ req[r].step = "decide" /\ day \in Nat /\ today \in 1..day /\ today \in Nat
      /\ d \in Decisions
  BY TriageNumbers DEF TriageInv, DecisionCommits, TriageTypeInv, ReqOK
<1>2. PICK f \in Findings : DOMAIN rows = {f}
  BY <1>1 DEF TriageTypeInv, ReqOK
<1>3. (CHOOSE x \in DOMAIN rows : TRUE) = f
  BY <1>2
<1>4. req' = [req EXCEPT ![r] = Idle] /\ UNCHANGED <<day, decisions>>
  BY DEF DecisionCommits
<1>5. CASE Collides(rows)
  BY <1>4, <1>5, GivesUpKeeps DEF DecisionCommits
<1>6. CASE ~Collides(rows)
  <2>1. /\ row' = [row EXCEPT ![f] = Written(rows[f], Decided(rows[f], d, today), @)]
        /\ seenOn' = IF rows[f] = NoRow THEN [seenOn EXCEPT ![f] = {today}] ELSE seenOn
        /\ decided' = [decided EXCEPT ![f] = [state |-> d.state, on |-> today, days |-> d.days]]
        /\ overlapped' = IF \E o \in Requests \ {r} :
                                req[o].step = "decide" /\ f \in DOMAIN req[o].rows
                           THEN overlapped \union {f} ELSE overlapped
        /\ behind' = behind
    BY <1>3, <1>6 DEF DecisionCommits
  <2>2. /\ req'[r] = Idle /\ DOMAIN req' = Requests
        /\ \A o \in Requests \ {r} : req'[o] = req[o]
    BY <1>1, <1>4 DEF TriageTypeInv
  <2>3. /\ Has(req[r], f) /\ rows[f] \in RowAt(day) \cup {NoRow}
        /\ row[f] \in RowAt(day) \cup {NoRow}
    BY <1>1, <1>2 DEF Has, TriageTypeInv, ReqOK
  <2>4. rows[f] = NoRow => row[f] = NoRow
    BY <1>2, <1>6 DEF Collides
  <2> DEFINE p1 == [state |-> d.state, on |-> today, days |-> d.days]
             v == Written(rows[f], Decided(rows[f], d, today), row[f])
  <2>5. d.state \in STATES \cup {"new"} /\ d.days \in Nat /\ d.state # "new"
    BY <1>1, DecisionFields
  <2>6. /\ p1 \in [state : STATES \cup {"new"}, on : 0..day, days : Nat]
        /\ p1.state = d.state /\ p1.on = today /\ p1.on # Never
    BY <1>1, <2>5 DEF Never
  <2>7. v \in RowAt(day)
    <3>1. CASE rows[f] = NoRow
      <4>1. v = Decided(rows[f], d, today)
        BY <3>1 DEF Written
      <4> HIDE DEF v, d, today, rows
      <4>2. Decided(rows[f], d, today) \in RowAt(day)
        BY <1>1, <2>3, DecideFields
      <4>3. QED BY <4>1, <4>2
    <3>2. CASE rows[f] # NoRow
      <4>1. row[f] # NoRow
        BY <1>1, <2>3, <3>2 DEF FindingInv, NoRowInv
      <4>2. QED BY <1>1, <2>3, <3>2, <4>1, DecideWritten
    <3>3. QED BY <3>1, <3>2
  <2> HIDE DEF p1, v, d, today, rows
  <2>8. /\ row' = [row EXCEPT ![f] = v] /\ decided' = [decided EXCEPT ![f] = p1]
    BY <2>1 DEF p1, v
  <2>9. TriageTypeInv'
    <3>1. row' \in [Findings -> RowAt(day) \cup {NoRow}]
      BY <1>1, <2>7, <2>8 DEF TriageTypeInv
    <3>2. \A o \in Requests : ReqOK(req'[o], day)
      BY <1>1, <2>2 DEF TriageTypeInv, ReqOK, Has, Idle
    <3>3. seenOn' \in [Findings -> SUBSET (1..day)]
      BY <1>1, <2>1 DEF TriageTypeInv
    <3>4. overlapped' \in SUBSET Findings
      BY <1>1, <2>1 DEF TriageTypeInv
    <3>5. decided' \in [Findings -> [state : STATES \cup {"new"}, on : 0..day, days : Nat]]
      BY <1>1, <2>6, <2>8 DEF TriageTypeInv
    <3>6. \A g \in Findings : decided'[g].state = "new" \/ decided'[g].on # Never
      BY <1>1, <2>6, <2>8 DEF TriageTypeInv
    <3>7. QED BY <1>1, <1>4, <2>1, <2>2, <3>1, <3>2, <3>3, <3>4, <3>5, <3>6 DEF TriageTypeInv
  <2>10. ASSUME NEW g \in Findings PROVE FindingInv(g)'
    <3>1. CASE g = f
      <4>1. /\ row'[f] = v /\ decided'[f] = p1
            /\ seenOn'[f] = IF rows[f] = NoRow THEN {today} ELSE seenOn[f]
            /\ behind' = behind /\ overlapped \subseteq overlapped'
        BY <1>1, <2>1, <2>8 DEF TriageTypeInv
      <4>2. (\E o \in Requests \ {r} : req[o].step = "decide" /\ Has(req[o], f)) => f \in overlapped'
        BY <2>1 DEF Has
      <4>3. rows[f] = req[r].rows[f] /\ today = req[r].today /\ day' = day
        BY <1>4 DEF rows, today
      <4>4. /\ row'[f] = Written(rows[f], Decided(rows[f], d, today), row[f])
            /\ decided'[f] = [state |-> d.state, on |-> today, days |-> d.days]
        BY <4>1 DEF v, p1
      <4>5. FindingInv(f)'
        BY <1>1, <2>2, <2>3, <2>4, <4>1, <4>2, <4>3, <4>4, DecideKeeps
      <4>6. QED BY <3>1, <4>5
    <3>2. CASE g # f
      <4>1. /\ row'[g] = row[g] /\ seenOn'[g] = seenOn[g] /\ decided'[g] = decided[g]
            /\ behind \subseteq behind' /\ overlapped \subseteq overlapped'
        BY <1>1, <2>1, <2>8, <3>2 DEF TriageTypeInv
      <4>2. \A o \in Requests : req'[o] = req[o] \/ (Has(req'[o], g) => req'[o].rows[g] = row[g])
        BY <2>2 DEF Has, Idle
      <4>3. QED BY <1>1, <1>4, <4>1, <4>2, UntouchedKeeps
    <3>3. QED BY <3>1, <3>2
  <2>11. QED BY <2>9, <2>10 DEF TriageInv
<1>7. QED BY <1>5, <1>6

(* A new day: nobody has read a row on it, and all that was of the day     *)
(* before is of a day before this one.                                     *)
LEMMA MidnightKeeps == TriageInv /\ Midnight => TriageInv'
<1> SUFFICES ASSUME TriageInv, Midnight PROVE TriageInv'
  OBVIOUS
<1>1. /\ TriageTypeInv /\ day < LastDay /\ day' = day + 1 /\ day \in Nat /\ LastDay \in Nat
      /\ row' = row /\ req' = req /\ decisions' = decisions /\ seenOn' = seenOn
      /\ decided' = decided /\ behind' = behind /\ overlapped' = overlapped
  BY TriageNumbers DEF TriageInv, Midnight, triageHistory
<1>2. 1..day \subseteq 1..(day + 1) /\ 0..day \subseteq 0..(day + 1)
  BY <1>1
<1>3. RowAt(day) \subseteq RowAt(day + 1)
  BY <1>2 DEF RowAt
<1>4. ASSUME NEW q, ReqOK(q, day) PROVE ReqOK(q, day + 1)
  BY <1>2, <1>3, <1>4 DEF ReqOK
<1>5. TriageTypeInv'
  <2>1. day' \in 1..LastDay
    BY <1>1
  <2>2. row' \in [Findings -> RowAt(day') \cup {NoRow}]
    BY <1>1, <1>3 DEF TriageTypeInv
  <2>3. \A r \in Requests : ReqOK(req'[r], day')
    BY <1>1, <1>4 DEF TriageTypeInv
  <2>4. seenOn' \in [Findings -> SUBSET (1..day')]
    BY <1>1, <1>2 DEF TriageTypeInv
  <2>5. decided' \in [Findings -> [state : STATES \cup {"new"}, on : 0..day', days : Nat]]
    <3>1. [state : STATES \cup {"new"}, on : 0..day, days : Nat]
            \subseteq [state : STATES \cup {"new"}, on : 0..(day + 1), days : Nat]
      BY <1>2
    <3>2. QED BY <1>1, <3>1 DEF TriageTypeInv
  <2>6. QED BY <1>1, <2>1, <2>2, <2>3, <2>4, <2>5 DEF TriageTypeInv
<1>6. ASSUME NEW f \in Findings PROVE FindingInv(f)'
  <2>1. FindingInv(f)
    BY DEF TriageInv
  <2>2. NoRowInv(f)'
    BY <1>1, <2>1 DEF FindingInv, NoRowInv
  <2>3. BornInv(f)'
    BY <1>1, <1>2, <2>1 DEF FindingInv, BornInv
  <2>4. \A r \in Requests : ~((req[r].step = "observe" /\ req[r].today = day)')
    BY <1>1 DEF TriageTypeInv, ReqOK
  <2>5. CountInv(f)'
    BY <1>1, <2>1, <2>4 DEF FindingInv, CountInv
  <2>6. SaysInv(f)'
    BY <1>1, <2>1 DEF FindingInv, SaysInv
  <2>7. QED BY <2>2, <2>3, <2>5, <2>6 DEF FindingInv
<1>7. QED BY <1>5, <1>6 DEF TriageInv

LEMMA TriageStep == TriageInv /\ [TriageNext]_triageVars => TriageInv'
<1> SUFFICES ASSUME TriageInv, [TriageNext]_triageVars PROVE TriageInv'
  OBVIOUS
<1>1. CASE Midnight
  BY <1>1, MidnightKeeps
<1>2. ASSUME NEW r \in Requests, ReportBegins(r) PROVE TriageInv'
  BY <1>2, TriageReportKeeps
<1>3. ASSUME NEW r \in Requests, RowsRead(r) PROVE TriageInv'
  BY <1>3, ReadingKeeps
<1>4. ASSUME NEW r \in Requests, ObserveCommits(r) PROVE TriageInv'
  BY <1>4, ObservationKeeps
<1>5. ASSUME NEW r \in Requests, DecisionReads(r) PROVE TriageInv'
  BY <1>5, DecidingKeeps
<1>6. ASSUME NEW r \in Requests, DecisionCommits(r) PROVE TriageInv'
  BY <1>6, DecisionKeeps
<1>7. CASE UNCHANGED triageVars
  <2>1. TriageTypeInv'
    BY <1>7 DEF triageVars, TriageInv, TriageTypeInv
  <2>2. ASSUME NEW f \in Findings PROVE FindingInv(f)'
    <3>1. FindingInv(f) /\ TriageTypeInv
      BY DEF TriageInv
    <3>2. QED BY <1>7, <3>1, UntouchedKeeps DEF triageVars
  <2>3. QED BY <2>1, <2>2 DEF TriageInv
<1>8. QED BY <1>1, <1>2, <1>3, <1>4, <1>5, <1>6, <1>7 DEF TriageNext

LEMMA TriageStart == TriageInit => TriageInv
<1> SUFFICES ASSUME TriageInit PROVE TriageInv
  OBVIOUS
<1>1. \A r \in Requests : ReqOK(req[r], day) /\ \A f : ~Has(req[r], f)
  BY DEF TriageInit, ReqOK, Has, Idle
<1>2. TriageTypeInv
  <2>1. Undecided \in [state : STATES \cup {"new"}, on : 0..1, days : Nat]
    BY DEF Undecided, Never
  <2>2. decided = [f \in Findings |-> Undecided] /\ day = 1
    BY DEF TriageInit, Undecided
  <2>3. decided \in [Findings -> [state : STATES \cup {"new"}, on : 0..day, days : Nat]]
    BY <2>1, <2>2
  <2>4. \A f \in Findings : decided[f].state = "new"
    BY <2>2 DEF Undecided
  <2>5. 1 \in 1..LastDay
    BY TriageAssumption DEF TriageInit
  <2>6. QED BY <1>1, <2>3, <2>4, <2>5, TriageAssumption DEF TriageInit, TriageTypeInv
<1>3. \A f \in Findings : FindingInv(f)
  BY <1>1 DEF TriageInit, FindingInv, NoRowInv, BornInv, CountInv, SaysInv, Undecided
<1>4. QED BY <1>2, <1>3 DEF TriageInv

LEMMA TriageAlways == TriageSpec => []TriageInv
BY TriageStart, TriageStep, PTL DEF TriageSpec

(* The columns of a row are what the code may write into them, and of no   *)
(* day to come: the first day a finding was seen is not after the last,    *)
(* however the requests that write the two cross.                          *)
THEOREM TriageTypeCorrect == TriageSpec => []TriageTypeOK
<1>1. ASSUME TriageInv PROVE TriageTypeOK
  <2>1. TriageTypeInv
    BY <1>1 DEF TriageInv
  <2>2. ASSUME NEW f \in Findings, row[f] # NoRow
        PROVE  /\ row[f].state \in STATES \union {"new"}
               /\ row[f].until \in Nat /\ row[f].resolved \in 0..day
               /\ row[f].first \in 1..day /\ row[f].last \in row[f].first..day
               /\ row[f].seen \in Nat
    <3>1. row[f] \in RowAt(day)
      BY <2>1, <2>2 DEF TriageTypeInv
    <3>2. /\ row[f].state \in STATES \union {"new"}
          /\ row[f].until \in Nat /\ row[f].resolved \in 0..day
          /\ row[f].first \in 1..day /\ row[f].last \in 1..day /\ row[f].seen \in Nat
      BY <3>1 DEF RowAt
    <3>3. PICK b \in 1..day : row[f].first <= b /\ b <= row[f].last
      BY <1>1, <2>2 DEF TriageInv, FindingInv, BornInv, Around
    <3>4. day \in Nat
      BY <2>1, TriageNumbers
    <3>5. row[f].last \in row[f].first..day
      BY <3>2, <3>3, <3>4
    <3>6. QED BY <3>2, <3>5
  <2>3. \A r \in Requests : req[r].step \in {"idle", "report", "observe", "decide"}
    BY <2>1 DEF TriageTypeInv, ReqOK
  <2>4. QED BY <2>1, <2>2, <2>3 DEF TriageTypeInv, TriageTypeOK
<1>2. QED BY <1>1, TriageAlways, PTL

(* However many readers of one day cross, each day on which a finding was  *)
(* recorded counts once, unless a reader still on an earlier day wrote it, *)
(* who may count that day again (observe).                                 *)
THEOREM DaysCountOnce == TriageSpec => []SeenOncePerDay
<1>1. TriageInv => SeenOncePerDay
  BY DEF TriageInv, FindingInv, CountInv, SeenOncePerDay
<1>2. QED BY <1>1, TriageAlways, PTL

(* A finding leaves the urgent lane exactly for as long as the last        *)
(* decision about it says: whatever observations cross with it, no         *)
(* acknowledgement outlives its days and no finding resolved and seen      *)
(* again stays silent; but for findings two decisions about which          *)
(* overlapped or which somebody of an earlier day wrote (effective,        *)
(* set_state, observe).                                                    *)
THEOREM SilenceHasAnEnd == TriageSpec => []SilenceEnds
<1>1. ASSUME TriageInv PROVE SilenceEnds
  <2> SUFFICES ASSUME NEW f \in Findings, f \notin behind, f \notin overlapped
               PROVE  Hidden(f) <=>
                        \/ decided[f].state = "ack" /\ day < decided[f].on + decided[f].days
                        \/ decided[f].state = "resolved" /\ \A d \in seenOn[f] : d <= decided[f].on
                        \/ decided[f].state = "backlog"
    BY DEF SilenceEnds
  <2>1. /\ TriageTypeInv /\ FindingInv(f) /\ day \in Nat
        /\ row[f] \in RowAt(day) \cup {NoRow}
        /\ decided[f] \in [state : STATES \cup {"new"}, on : 0..day, days : Nat]
        /\ decided[f].state = "new" \/ decided[f].on # Never
        /\ seenOn[f] \subseteq 1..day
    BY <1>1, TriageNumbers DEF TriageInv, TriageTypeInv
  <2>2. CASE row[f] = NoRow
    BY <2>1, <2>2 DEF FindingInv, NoRowInv, Undecided, Hidden
  <2>3. CASE row[f] # NoRow
    <3> DEFINE v == row[f]
               d == decided[f]
    <3>1. /\ AsDecided(v, d) /\ v.last \in seenOn[f] /\ \A e \in seenOn[f] : e <= v.last
      BY <2>1, <2>3 DEF FindingInv, SaysInv, CountInv
    <3>2. /\ v.state \in STATES \cup {"new"} /\ v.last \in 1..day
          /\ d.on \in 0..day /\ d.days \in Nat
          /\ d.state = "new" \/ d.on # 0
      BY <2>1, <2>3 DEF RowAt, Never
    <3>3. Hidden(f) <=> Effective(v, day) \notin {"new", "working"}
      BY <2>3 DEF Hidden, StaysVisible
    <3>4. /\ v.state = d.state
          /\ v.until = (IF d.state = "ack" THEN d.on + d.days ELSE 0)
          /\ v.resolved = (IF d.state = "resolved" THEN d.on ELSE 0)
      BY <3>1 DEF AsDecided, Never
    <3>5. Effective(v, day) =
            IF d.state = "resolved" /\ v.last > d.on THEN "new"
            ELSE IF d.state = "ack" /\ d.on + d.days <= day THEN "new" ELSE d.state
      <4>1. CASE d.state = "resolved"
        BY <3>2, <3>4, <4>1 DEF Effective, Never
      <4>2. CASE d.state = "ack"
        BY <3>4, <4>2 DEF Effective, Never
      <4>3. CASE d.state \notin {"resolved", "ack"}
        BY <3>4, <4>3 DEF Effective, Never
      <4>4. QED BY <4>1, <4>2, <4>3
    <3>6. v.last > d.on <=> ~\A e \in seenOn[f] : e <= d.on
      BY <2>1, <3>1, <3>2
    <3> HIDE DEF v, d
    <3>7. d.on + d.days <= day <=> ~(day < d.on + d.days)
      BY <2>1, <3>2
    <3>8. d.state \in {"ack", "working", "backlog", "resolved", "new"}
      BY <3>2, <3>4 DEF STATES
    <3>9. QED BY <3>3, <3>5, <3>6, <3>7, <3>8 DEF d
  <2>4. QED BY <2>2, <2>3
<1>2. QED BY <1>1, TriageAlways, PTL

-----------------------------------------------------------------------------
(* DayReport.                                                              *)

DueOf(i) == Schedule[i].due

DayTypeInv ==
  /\ hour \in 0..DayEnd /\ awake \in 0..hour /\ up \in BOOLEAN /\ (up => awake = hour)
  /\ slot \in [Slots -> {"ahead", "running", "over"}]
  /\ gates \in [Families -> SUBSET Gates]
  /\ step \in {"none", "read", "send", "starters"}
  /\ {todo, recapSends, owed, moved, unlucky} \subseteq SUBSET Families
  /\ outcome \in [Families -> {"none", "ready", "no_prices", "send_failed"}]

(* A row is of one slot that is over, and the process ran when it began;   *)
(* no slot leaves two.                                                     *)
RowOf(r, i) ==
  /\ slot[i] = "over" /\ r.start = DueOf(i) /\ r.job = Schedule[i].job
  /\ r.start <= awake /\ r.ok \in BOOLEAN

RunsInv ==
  /\ IsFiniteSet(runs)
  /\ \A r \in runs : \E i \in Slots : RowOf(r, i)
  /\ \A r, q \in runs : r.start = q.start => r = q
  /\ \A i \in Slots : slot[i] = "running" => DueOf(i) <= awake

(* What the recap run has done for a family with no gate closed.           *)
Settled(f) == f \in recapSends \/ outcome[f] # "none" \/ f \in unlucky

RecapInv ==
  /\ step # "none" <=> slot[RecapSlot] = "running"
  /\ slot[RecapSlot] = "ahead" \/ step = "read" =>
       owed = {} /\ \A f \in Families : outcome[f] = "none"
  /\ todo \subseteq owed /\ (step \in {"none", "read"} => todo = {})
  /\ \A f \in Families : outcome[f] # "none" => f \in owed
  /\ \A f \in Families : outcome[f] = "ready" => f \in recapSends
  /\ \A f \in owed \ moved : gates[f] \in {{}, {"no_watchlist"}}
  /\ step \in {"send", "starters"} \/ RecapRun # {} =>
       \A f \in Families \ moved :
         gates[f] = {} => Settled(f) \/ (step = "send" /\ f \in todo)

DayInv == DayTypeInv /\ RunsInv /\ RecapInv

LEMMA SlotFacts ==
  /\ RecapSlot \in Slots /\ RecapSlot \in Nat /\ Slots = 1..RecapSlot
  /\ \A i \in Slots : DueOf(i) \in Nat /\ DueOf(i) \in 1..DayEnd
  /\ \A i \in Slots : Schedule[i].job = Recap <=> i = RecapSlot
  /\ \A i, k \in Slots : i < k => DueOf(i) < DueOf(k)
  /\ \A i, k \in Slots : DueOf(i) = DueOf(k) => i = k
<1>1. Slots = 1..RecapSlot /\ RecapSlot \in Nat /\ RecapSlot # 0
  BY DayReportAssumption, LenProperties, EmptySeq DEF Slots, RecapSlot
<1>2. \A i \in Slots : Schedule[i] \in [job : STRING, due : 1..DayEnd]
  <2> DEFINE Entry == [job : STRING, due : 1..DayEnd]
  <2>1. Schedule \in Seq(Entry)
    BY DayReportAssumption
  <2> HIDE DEF Entry
  <2>2. \A i \in 1..Len(Schedule) : Schedule[i] \in Entry
    BY <2>1, ElementOfSeq
  <2>3. QED BY <1>1, <2>2 DEF RecapSlot, Entry
<1>3. \A i \in Slots : DueOf(i) \in Nat /\ DueOf(i) \in 1..DayEnd
  BY <1>2, DayReportAssumption DEF DueOf
<1>4. \A i, k \in Slots : i < k => DueOf(i) < DueOf(k)
  BY DayReportAssumption DEF DueOf
<1>5. \A i, k \in Slots : DueOf(i) = DueOf(k) => i = k
  BY <1>1, <1>3, <1>4
<1>6. QED BY <1>1, <1>3, <1>4, <1>5, DayReportAssumption

(* The rows stay as they were.                                             *)
LEMMA SlotsMoveKeepsRuns ==
  ASSUME DayTypeInv, DayTypeInv', RunsInv, runs' = runs, awake' >= awake,
         \A i \in Slots : slot[i] = "over" => slot'[i] = "over",
         \A i \in Slots : slot'[i] = "running" => DueOf(i) <= awake'
  PROVE  RunsInv'
<1>1. awake \in Nat /\ awake' \in Nat
  BY DayReportAssumption DEF DayTypeInv
<1>2. ASSUME NEW r \in runs PROVE \E i \in Slots : RowOf(r, i)'
  <2>1. PICK i \in Slots : RowOf(r, i)
    BY <1>2 DEF RunsInv
  <2>2. r.start <= awake'
    BY <1>1, <2>1, SlotFacts DEF RowOf
  <2>3. QED BY <2>1, <2>2 DEF RowOf
<1>3. QED BY <1>2 DEF RunsInv, DueOf

(* A slot that ends leaves one row or none.                                *)
LEMMA EndsKeepsRuns ==
  ASSUME DayTypeInv, DayTypeInv', RunsInv, NEW i \in Slots, NEW row1, Ends(i, row1),
         row1 = {} \/ \E ok \in BOOLEAN : row1 = Recorded(i, ok)
  PROVE  RunsInv'
<1>1. /\ slot[i] = "running" /\ slot' = [slot EXCEPT ![i] = "over"]
      /\ runs' = runs \cup row1 /\ awake' = awake /\ hour' = hour
      /\ slot \in [Slots -> {"ahead", "running", "over"}]
  BY DEF Ends, DayTypeInv
<1>2. /\ \A k \in Slots : slot[k] = "over" => slot'[k] = "over"
      /\ \A k \in Slots : slot'[k] = "running" => slot[k] = "running"
      /\ slot'[i] = "over"
  BY <1>1
<1>3. \A r \in runs : \E k \in Slots : k # i /\ RowOf(r, k)
  BY <1>1 DEF RunsInv, RowOf
<1>4. \A r \in runs : \E k \in Slots : RowOf(r, k)'
  BY <1>1, <1>2, <1>3 DEF RowOf, DueOf
<1>5. \A r \in runs : r.start # DueOf(i)
  BY <1>3, SlotFacts DEF RowOf
<1>6. \A k \in Slots : slot'[k] = "running" => DueOf(k) <= awake'
  BY <1>1, <1>2 DEF RunsInv
<1>7. CASE row1 = {}
  BY <1>1, <1>4, <1>6, <1>7 DEF RunsInv, DueOf
<1>8. CASE \E ok \in BOOLEAN : row1 = Recorded(i, ok)
  <2>1. PICK ok \in BOOLEAN : row1 = Recorded(i, ok)
    BY <1>8
  <2> DEFINE r1 == [job |-> Schedule[i].job, start |-> DueOf(i), ok |-> ok]
  <2>2. runs' = runs \cup {r1}
    BY <1>1, <2>1 DEF Recorded, DueOf
  <2>3. r1.start = DueOf(i) /\ r1.job = Schedule[i].job /\ r1.ok \in BOOLEAN
    OBVIOUS
  <2> HIDE DEF r1
  <2>4. IsFiniteSet(runs')
    BY <2>2, FS_AddElement DEF RunsInv
  <2>5. RowOf(r1, i)'
    BY <1>1, <1>2, <2>3 DEF RunsInv, RowOf, DueOf
  <2>6. \A r, q \in runs' : r.start = q.start => r = q
    BY <1>5, <2>2, <2>3 DEF RunsInv
  <2>7. \A r \in runs' : \E k \in Slots : RowOf(r, k)'
    BY <1>4, <2>2, <2>5
  <2>8. QED BY <1>6, <2>4, <2>6, <2>7 DEF RunsInv, DueOf
<1>9. QED BY <1>7, <1>8

(* Who does not touch the recap or the families.                           *)
LEMMA OthersKeepRecap ==
  ASSUME RecapInv, slot'[RecapSlot] = "running" <=> slot[RecapSlot] = "running",
         slot'[RecapSlot] = "ahead" => slot[RecapSlot] = "ahead",
         RecapRun' = RecapRun, UNCHANGED <<recapVars, familyVars>>
  PROVE  RecapInv'
BY DEF RecapInv, Settled, recapVars, familyVars

LEMMA RunsOfOthers ==
  ASSUME NEW i \in Slots, i # RecapSlot, NEW row1, runs' = runs \cup row1,
         row1 = {} \/ \E ok \in BOOLEAN : row1 = Recorded(i, ok)
  PROVE  RecapRun' = RecapRun
<1>1. \A r \in row1 : r.job # Recap
  BY SlotFacts DEF Recorded
<1>2. QED BY <1>1 DEF RecapRun

LEMMA NoRecapRunYet ==
  ASSUME DayTypeInv, RunsInv, slot[RecapSlot] # "over" PROVE RecapRun = {}
BY SlotFacts DEF RunsInv, RowOf, RecapRun

LEMMA ClockKeeps ==
  ASSUME DayInv, Restart \/ ProcessStarts \/ HourPasses
  PROVE  DayInv'
<1>1. /\ DayTypeInv /\ RunsInv /\ RecapInv /\ hour \in Nat /\ awake \in Nat /\ awake <= hour
      /\ slot \in [Slots -> {"ahead", "running", "over"}] /\ RecapSlot \in Slots
  BY SlotFacts, DayReportAssumption DEF DayInv, DayTypeInv
<1>2. CASE Restart
  <2>1. /\ up' = FALSE /\ step' = "none" /\ todo' = {}
        /\ slot' = [k \in Slots |-> IF slot[k] = "running" THEN "over" ELSE slot[k]]
        /\ UNCHANGED <<hour, runs, awake, recapSends, outcome, owed, unlucky, familyVars>>
    BY <1>2 DEF Restart
  <2>2. \A k \in Slots : slot'[k] # "running" /\ (slot[k] = "over" => slot'[k] = "over")
    BY <2>1
  <2>3. DayTypeInv'
    BY <1>1, <2>1 DEF DayTypeInv, familyVars
  <2>4. RunsInv'
    BY <1>1, <2>1, <2>2, <2>3, SlotsMoveKeepsRuns
  <2>5. /\ slot'[RecapSlot] # "running"
        /\ slot'[RecapSlot] = "ahead" => slot[RecapSlot] = "ahead"
    BY <1>1, <2>1
  <2>6. RecapRun' = RecapRun
    BY <2>1 DEF RecapRun
  <2>7. RecapRun # {} => step = "none"
    BY <1>1, NoRecapRunYet DEF RecapInv
  <2>8. RecapInv'
    BY <1>1, <2>1, <2>5, <2>6, <2>7 DEF RecapInv, Settled, familyVars
  <2>9. QED BY <2>3, <2>4, <2>8 DEF DayInv
<1>3. CASE ProcessStarts
  <2>1. /\ up' = TRUE /\ awake' = hour
        /\ UNCHANGED <<hour, slot, runs, trouble, recapVars, familyVars>>
    BY <1>3 DEF ProcessStarts
  <2>2. DayTypeInv'
    BY <1>1, <2>1 DEF DayTypeInv, recapVars, familyVars
  <2>3. \A k \in Slots : slot'[k] = "running" => DueOf(k) <= awake'
    BY <1>1, <2>1, SlotFacts DEF RunsInv
  <2>4. RunsInv'
    BY <1>1, <2>1, <2>2, <2>3, SlotsMoveKeepsRuns
  <2>5. RecapRun' = RecapRun
    BY <2>1 DEF RecapRun
  <2>6. RecapInv'
    BY <1>1, <2>1, <2>5, OthersKeepRecap
  <2>7. QED BY <2>2, <2>4, <2>6 DEF DayInv
<1>4. CASE HourPasses
  <2>1. /\ hour < DayEnd /\ hour' = hour + 1 /\ awake' = (IF up THEN hour + 1 ELSE awake)
        /\ slot' = [k \in Slots |-> IF slot[k] = "ahead" /\ Schedule[k].due = hour
                                    THEN "over" ELSE slot[k]]
        /\ UNCHANGED <<up, runs, trouble, recapVars, familyVars>>
    BY <1>4 DEF HourPasses
  <2>2. DayTypeInv'
    <3>1. slot' \in [Slots -> {"ahead", "running", "over"}]
      BY <1>1, <2>1
    <3>2. hour' \in 0..DayEnd /\ awake' \in 0..hour' /\ (up => awake' = hour')
      BY <1>1, <2>1, DayReportAssumption
    <3>3. QED BY <1>1, <2>1, <3>1, <3>2 DEF DayTypeInv, recapVars, familyVars
  <2>3. awake' >= awake /\ awake' \in Nat
    BY <1>1, <2>1
  <2>4. \A k \in Slots : /\ slot'[k] = "running" => slot[k] = "running"
                         /\ slot[k] = "over" => slot'[k] = "over"
                         /\ slot'[k] = "ahead" => slot[k] = "ahead"
                         /\ slot[k] = "running" => slot'[k] = "running"
    BY <2>1
  <2>5. \A k \in Slots : slot'[k] = "running" => DueOf(k) <= awake'
    BY <1>1, <2>3, <2>4, SlotFacts DEF RunsInv
  <2>6. RunsInv'
    BY <1>1, <2>1, <2>2, <2>3, <2>4, <2>5, SlotsMoveKeepsRuns
  <2>7. RecapRun' = RecapRun
    BY <2>1 DEF RecapRun
  <2>8. RecapInv'
    BY <1>1, <2>1, <2>4, <2>7, OthersKeepRecap
  <2>9. QED BY <2>2, <2>6, <2>8 DEF DayInv
<1>5. QED BY <1>2, <1>3, <1>4

LEMMA BeginsKeeps ==
  ASSUME DayInv, NEW i \in Slots, SlotBegins(i)
  PROVE  DayInv'
<1>1. /\ DayTypeInv /\ RunsInv /\ RecapInv /\ hour \in Nat
      /\ slot \in [Slots -> {"ahead", "running", "over"}] /\ RecapSlot \in Slots
      /\ awake \in Nat
  BY SlotFacts, DayReportAssumption DEF DayInv, DayTypeInv
<1>2. /\ up /\ slot[i] = "ahead" /\ DueOf(i) = hour
      /\ slot' = [slot EXCEPT ![i] = "running"]
      /\ step' = IF i = RecapSlot THEN "read" ELSE step
      /\ UNCHANGED <<hour, up, runs, awake, todo, recapSends, outcome, owed, unlucky,
                     trouble, familyVars>>
  BY DEF SlotBegins, DueOf
<1>3. DayTypeInv'
  BY <1>1, <1>2 DEF DayTypeInv, familyVars
<1>4. \A k \in Slots : /\ slot[k] = "over" => slot'[k] = "over"
                       /\ slot'[k] = "running" => slot[k] = "running" \/ k = i
  BY <1>1, <1>2
<1>5. awake = hour
  BY <1>1, <1>2 DEF DayTypeInv
<1>6. \A k \in Slots : slot'[k] = "running" => DueOf(k) <= awake'
  BY <1>1, <1>2, <1>4, <1>5 DEF RunsInv
<1>7. RunsInv'
  BY <1>1, <1>2, <1>3, <1>4, <1>6, SlotsMoveKeepsRuns
<1>8. RecapRun' = RecapRun
  BY <1>2 DEF RecapRun
<1>9. CASE i = RecapSlot
  <2>1. RecapRun' = {} /\ step = "none"
    BY <1>1, <1>2, <1>8, <1>9, NoRecapRunYet DEF RecapInv
  <2>2. slot'[RecapSlot] = "running" /\ step' = "read"
    BY <1>1, <1>2, <1>9
  <2>3. RecapInv'
    BY <1>1, <1>2, <1>9, <2>1, <2>2 DEF RecapInv, familyVars
  <2>4. QED BY <1>3, <1>7, <2>3 DEF DayInv
<1>10. CASE i # RecapSlot
  <2>1. slot'[RecapSlot] = slot[RecapSlot] /\ step' = step
    BY <1>1, <1>2, <1>10
  <2>2. RecapInv'
    BY <1>1, <1>2, <1>8, <2>1, OthersKeepRecap DEF recapVars
  <2>3. QED BY <1>3, <1>7, <2>2 DEF DayInv
<1>11. QED BY <1>9, <1>10

LEMMA PipelineKeeps ==
  ASSUME DayInv, NEW i \in Slots, PipelineEnds(i)
  PROVE  DayInv'
<1>1. /\ DayTypeInv /\ RunsInv /\ RecapInv
      /\ slot \in [Slots -> {"ahead", "running", "over"}] /\ RecapSlot \in Slots
  BY SlotFacts DEF DayInv, DayTypeInv
<1>2. PICK row1 : /\ Ends(i, row1) /\ UNCHANGED <<recapVars, familyVars>> /\ i # RecapSlot
                  /\ row1 = {} \/ \E ok \in BOOLEAN : row1 = Recorded(i, ok)
  BY DEF PipelineEnds
<1>3. /\ slot' = [slot EXCEPT ![i] = "over"] /\ runs' = runs \cup row1
      /\ UNCHANGED <<hour, up, awake>>
  BY <1>2 DEF Ends
<1>4. DayTypeInv'
  BY <1>1, <1>2, <1>3 DEF DayTypeInv, recapVars, familyVars
<1>5. RunsInv'
  BY <1>1, <1>2, <1>4, EndsKeepsRuns
<1>6. RecapRun' = RecapRun
  BY <1>2, <1>3, RunsOfOthers
<1>7. slot'[RecapSlot] = slot[RecapSlot]
  BY <1>1, <1>2, <1>3
<1>8. RecapInv'
  BY <1>1, <1>2, <1>6, <1>7, OthersKeepRecap
<1>9. QED BY <1>4, <1>5, <1>8 DEF DayInv

(* The recap run is over, with a row or without.                           *)
LEMMA RecapOver ==
  ASSUME DayInv, NEW row1, Ends(RecapSlot, row1),
         row1 = {} \/ (row1 = Recorded(RecapSlot, TRUE) /\ step = "starters" /\ todo = {}),
         step' = "none", todo' = {},
         UNCHANGED <<recapSends, outcome, owed, unlucky, familyVars>>
  PROVE  DayInv'
<1>1. /\ DayTypeInv /\ RunsInv /\ RecapInv
      /\ slot \in [Slots -> {"ahead", "running", "over"}] /\ RecapSlot \in Slots
  BY SlotFacts DEF DayInv, DayTypeInv
<1>2. /\ slot[RecapSlot] = "running" /\ slot' = [slot EXCEPT ![RecapSlot] = "over"]
      /\ runs' = runs \cup row1 /\ UNCHANGED <<hour, up, awake>>
  BY DEF Ends
<1>3. DayTypeInv'
  BY <1>1, <1>2 DEF DayTypeInv, familyVars
<1>4. RunsInv'
  BY <1>1, <1>3, EndsKeepsRuns
<1>5. slot'[RecapSlot] = "over"
  BY <1>1, <1>2
<1>6. RecapRun = {}
  BY <1>1, <1>2, NoRecapRunYet
<1>7. row1 = {} => RecapRun' = {}
  BY <1>2, <1>6 DEF RecapRun
<1>8. RecapRun' # {} =>
        \A f \in Families \ moved : gates[f] = {} => Settled(f)
  BY <1>1, <1>7 DEF RecapInv
<1>9. RecapInv'
  BY <1>1, <1>5, <1>8 DEF RecapInv, Settled, familyVars
<1>10. QED BY <1>3, <1>4, <1>9 DEF DayInv

LEMMA RecapReadsKeeps == DayInv /\ RecapReads => DayInv'
<1> SUFFICES ASSUME DayInv, RecapReads PROVE DayInv'
  OBVIOUS
<1>1. /\ DayTypeInv /\ RunsInv /\ RecapInv /\ RecapSlot \in Slots /\ step = "read"
      /\ UNCHANGED <<recapSends, unlucky, trouble, familyVars>>
  BY SlotFacts DEF DayInv, RecapReads
<1>2. CASE Ends(RecapSlot, {}) /\ step' = "none" /\ UNCHANGED <<todo, outcome, owed>>
  BY <1>1, <1>2, RecapOver DEF RecapInv
<1>3. CASE /\ \E priced \in SUBSET Due :
                /\ outcome' = [f \in Families |->
                                 IF f \in Due \ priced THEN "no_prices" ELSE outcome[f]]
                /\ todo' = priced
           /\ owed' = Due /\ step' = "send" /\ UNCHANGED clockVars
  <2>1. PICK priced \in SUBSET Due :
          /\ outcome' = [f \in Families |->
                           IF f \in Due \ priced THEN "no_prices" ELSE outcome[f]]
          /\ todo' = priced
    BY <1>3
  <2>2. /\ owed' = Due /\ step' = "send" /\ UNCHANGED clockVars /\ Due \subseteq Families
    BY <1>3 DEF Due
  <2>3. DayTypeInv'
    <3>1. outcome' \in [Families -> {"none", "ready", "no_prices", "send_failed"}]
      BY <1>1, <2>1 DEF DayTypeInv
    <3>2. todo' \in SUBSET Families
      BY <2>1, <2>2
    <3>3. QED BY <1>1, <2>2, <3>1, <3>2 DEF DayTypeInv, clockVars, familyVars
  <2>4. RunsInv'
    <3>1. awake' >= awake
      BY <1>1, <2>2, DayReportAssumption DEF DayTypeInv, clockVars
    <3>2. QED BY <1>1, <2>2, <2>3, <3>1, SlotsMoveKeepsRuns DEF RunsInv, clockVars
  <2>5. /\ slot'[RecapSlot] = "running" /\ owed = {}
        /\ \A f \in Families : outcome[f] = "none"
    BY <1>1, <2>2 DEF RecapInv, clockVars
  <2>6. \A f \in Families :
          /\ outcome'[f] # "none" => f \in Due
          /\ outcome'[f] # "ready"
          /\ f \in Due => f \in todo' \/ outcome'[f] # "none"
    BY <2>1, <2>5
  <2>7. \A f \in Due : gates[f] = {}
    BY DEF Due
  <2>8. \A f \in Families : gates[f] = {} => f \in Due \/ f \in recapSends
    BY DEF Due
  <2>9. RecapInv'
    BY <1>1, <2>1, <2>2, <2>5, <2>6, <2>7, <2>8 DEF RecapInv, Settled, familyVars
  <2>10. QED BY <2>3, <2>4, <2>9 DEF DayInv
<1>4. QED BY <1>2, <1>3 DEF RecapReads

LEMMA SendsKeeps ==
  ASSUME DayInv, NEW f \in Families, RecapSent(f) \/ RecapFails(f)
  PROVE  DayInv'
<1>1. /\ DayTypeInv /\ RunsInv /\ RecapInv /\ RecapSlot \in Slots
      /\ step \in {"send", "starters"} /\ f \in todo /\ todo' = todo \ {f}
      /\ UNCHANGED <<step, owed, clockVars, familyVars>>
  BY SlotFacts DEF DayInv, RecapSent, RecapFails, Sends
<1>2. \/ /\ recapSends' = recapSends \cup {f} /\ unlucky' = unlucky
         /\ outcome' = [outcome EXCEPT ![f] = "ready"] \/ outcome' = outcome
      \/ /\ recapSends' = recapSends /\ unlucky' = unlucky
         /\ outcome' = [outcome EXCEPT ![f] = "send_failed"]
      \/ /\ recapSends' = recapSends /\ unlucky' = unlucky \cup {f} /\ outcome' = outcome
  BY DEF RecapSent, RecapFails
<1>3. /\ recapSends \subseteq recapSends' /\ unlucky \subseteq unlucky'
      /\ recapSends' \subseteq Families /\ unlucky' \subseteq Families
      /\ outcome' \in [Families -> {"none", "ready", "no_prices", "send_failed"}]
      /\ \A g \in Families : outcome'[g] = outcome[g] \/ (g = f /\ outcome'[g] # "none")
      /\ outcome'[f] = "ready" => f \in recapSends' \/ outcome[f] = "ready"
      /\ f \in recapSends' \/ outcome'[f] # "none" \/ f \in unlucky'
  BY <1>1, <1>2 DEF DayTypeInv
<1>4. DayTypeInv'
  BY <1>1, <1>3 DEF DayTypeInv, clockVars, familyVars
<1>5. RunsInv'
  <2>1. awake' >= awake
    BY <1>1, DayReportAssumption DEF DayTypeInv, clockVars
  <2>2. QED BY <1>1, <1>4, <2>1, SlotsMoveKeepsRuns DEF RunsInv, clockVars
<1>6. f \in owed
  BY <1>1 DEF RecapInv
<1>7. RecapInv'
  <2>1. /\ step' = step /\ slot' = slot /\ owed' = owed /\ gates' = gates /\ moved' = moved
        /\ RecapRun' = RecapRun
    BY <1>1 DEF clockVars, familyVars, RecapRun
  <2>2. \A g \in Families : outcome'[g] # "none" => g \in owed
    BY <1>1, <1>3, <1>6 DEF RecapInv
  <2>3. \A g \in Families : outcome'[g] = "ready" => g \in recapSends'
    BY <1>1, <1>3 DEF RecapInv
  <2>4. \A g \in Families \ moved :
          gates[g] = {} => Settled(g)' \/ (step = "send" /\ g \in todo')
    <3> SUFFICES ASSUME NEW g \in Families \ moved, gates[g] = {}
                 PROVE  Settled(g)' \/ (step = "send" /\ g \in todo')
      OBVIOUS
    <3>1. Settled(g) \/ (step = "send" /\ g \in todo)
      BY <1>1 DEF RecapInv
    <3>2. CASE g = f
      BY <1>3, <3>2 DEF Settled
    <3>3. CASE g # f
      BY <1>1, <1>3, <3>1, <3>3 DEF Settled
    <3>4. QED BY <3>2, <3>3
  <2>5. step # "read" /\ slot[RecapSlot] = "running"
    BY <1>1 DEF RecapInv
  <2>6. QED BY <1>1, <2>1, <2>2, <2>3, <2>4, <2>5 DEF RecapInv
<1>8. QED BY <1>4, <1>5, <1>7 DEF DayInv

LEMMA StartersKeeps == DayInv /\ StartersRead => DayInv'
<1> SUFFICES ASSUME DayInv, StartersRead PROVE DayInv'
  OBVIOUS
<1>1. /\ DayTypeInv /\ RunsInv /\ RecapInv /\ RecapSlot \in Slots
      /\ step = "send" /\ todo = {} /\ step' = "starters" /\ todo' = StarterDue
      /\ owed' = owed \cup StarterDue /\ StarterDue \subseteq Families
      /\ UNCHANGED <<recapSends, outcome, unlucky, trouble, clockVars, familyVars>>
  BY SlotFacts DEF DayInv, StartersRead, StarterDue
<1>2. DayTypeInv'
  BY <1>1 DEF DayTypeInv, clockVars, familyVars
<1>3. RunsInv'
  <2>1. awake' >= awake
    BY <1>1, DayReportAssumption DEF DayTypeInv, clockVars
  <2>2. QED BY <1>1, <1>2, <2>1, SlotsMoveKeepsRuns DEF RunsInv, clockVars
<1>4. \A f \in StarterDue : gates[f] = {"no_watchlist"}
  BY DEF StarterDue
<1>5. slot[RecapSlot] = "running" /\ RecapRun' = RecapRun
  BY <1>1 DEF RecapInv, clockVars, RecapRun
<1>6. RecapInv'
  BY <1>1, <1>4, <1>5 DEF RecapInv, Settled, clockVars, familyVars
<1>7. QED BY <1>2, <1>3, <1>6 DEF DayInv

LEMMA SettingsKeep ==
  ASSUME DayInv, NEW f \in Families, ChangesSettings(f)
  PROVE  DayInv'
<1>1. /\ DayTypeInv /\ RunsInv /\ RecapInv /\ RecapSlot \in Slots
      /\ UNCHANGED <<trouble, clockVars, recapVars>>
      /\ moved' = IF slot[RecapSlot] = "ahead" \/ step = "read" THEN moved ELSE moved \cup {f}
  BY SlotFacts DEF DayInv, ChangesSettings
<1>2. gates' \in [Families -> SUBSET Gates] /\ \A g \in Families \ {f} : gates'[g] = gates[g]
  BY <1>1 DEF ChangesSettings, DayTypeInv
<1>3. DayTypeInv'
  BY <1>1, <1>2 DEF DayTypeInv, clockVars, recapVars
<1>4. RunsInv'
  <2>1. awake' >= awake
    BY <1>1, DayReportAssumption DEF DayTypeInv, clockVars
  <2>2. QED BY <1>1, <1>3, <2>1, SlotsMoveKeepsRuns DEF RunsInv, clockVars
<1>5. CASE slot[RecapSlot] = "ahead" \/ step = "read"
  <2>1. slot[RecapSlot] # "over" /\ step \notin {"send", "starters"}
    BY <1>1, <1>5 DEF RecapInv
  <2>2. RecapRun = {} /\ RecapRun' = RecapRun
    BY <1>1, <2>1, NoRecapRunYet DEF clockVars, RecapRun
  <2>3. RecapInv'
    BY <1>1, <1>5, <2>1, <2>2 DEF RecapInv, clockVars, recapVars
  <2>4. QED BY <1>3, <1>4, <2>3 DEF DayInv
<1>6. CASE ~(slot[RecapSlot] = "ahead" \/ step = "read")
  <2>1. moved' = moved \cup {f} /\ \A g \in Families \ moved' : gates'[g] = gates[g]
    BY <1>1, <1>2, <1>6
  <2>2. RecapRun' = RecapRun /\ owed \subseteq Families
    BY <1>1 DEF clockVars, RecapRun, DayTypeInv
  <2>3. RecapInv'
    BY <1>1, <1>6, <2>1, <2>2 DEF RecapInv, Settled, clockVars, recapVars
  <2>4. QED BY <1>3, <1>4, <2>3 DEF DayInv
<1>7. QED BY <1>5, <1>6

LEMMA DayStep == DayInv /\ [DayNext]_dayVars => DayInv'
<1> SUFFICES ASSUME DayInv, [DayNext]_dayVars PROVE DayInv'
  OBVIOUS
<1>1. ASSUME NEW i \in Slots, SlotBegins(i) \/ PipelineEnds(i) PROVE DayInv'
  BY <1>1, BeginsKeeps, PipelineKeeps
<1>2. CASE Restart \/ ProcessStarts \/ HourPasses
  BY <1>2, ClockKeeps
<1>3. CASE RecapStep
  <2>1. CASE RecapReads
    BY <2>1, RecapReadsKeeps
  <2>2. CASE StartersRead
    BY <2>2, StartersKeeps
  <2>3. CASE RecapEnds
    <3>1. PICK row1 : Ends(RecapSlot, row1) /\ (row1 = {} \/ row1 = Recorded(RecapSlot, TRUE))
      BY <2>3 DEF RecapEnds
    <3>2. /\ step = "starters" /\ todo = {} /\ step' = "none" /\ todo' = {}
          /\ UNCHANGED <<recapSends, outcome, owed, unlucky, familyVars>>
      BY <2>3 DEF RecapEnds
    <3>3. QED BY <3>1, <3>2, RecapOver
  <2>4. CASE RecapRaises
    <3>1. /\ Ends(RecapSlot, {}) /\ step' = "none" /\ todo' = {}
          /\ UNCHANGED <<recapSends, outcome, owed, unlucky, familyVars>>
      BY <2>4 DEF RecapRaises
    <3>2. QED BY <3>1, RecapOver
  <2>5. CASE \E f \in Families : RecapSent(f) \/ RecapFails(f)
    BY <2>5, SendsKeeps
  <2>6. QED BY <1>3, <2>1, <2>2, <2>3, <2>4, <2>5 DEF RecapStep
<1>4. ASSUME NEW f \in Families, ChangesSettings(f) PROVE DayInv'
  BY <1>4, SettingsKeep
<1>5. CASE UNCHANGED dayVars
  <2>1. DayTypeInv' /\ RunsInv'
    BY <1>5 DEF dayVars, DayInv, DayTypeInv, RunsInv, RowOf, DueOf
  <2>2. RecapInv'
    BY <1>5 DEF dayVars, DayInv, RecapInv, Settled, RecapRun
  <2>3. QED BY <2>1, <2>2 DEF DayInv
<1>6. QED BY <1>1, <1>2, <1>3, <1>4, <1>5 DEF DayNext

LEMMA DayStart == DayInit => DayInv
<1> SUFFICES ASSUME DayInit PROVE DayInv
  OBVIOUS
<1>1. DayTypeInv
  BY DayReportAssumption DEF DayInit, DayTypeInv
<1>2. RunsInv
  BY FS_EmptySet DEF DayInit, RunsInv
<1>3. RecapRun = {} /\ slot[RecapSlot] = "ahead"
  BY SlotFacts DEF DayInit, RecapRun
<1>4. RecapInv
  BY <1>3 DEF DayInit, RecapInv
<1>5. QED BY <1>1, <1>2, <1>4 DEF DayInv

LEMMA DayAlways == DaySpec => []DayInv
BY DayStart, DayStep, PTL DEF DaySpec

(* The slots, the rows and the recap run keep within what they can be, and *)
(* no row is of an hour to come.                                           *)
THEOREM DayTypeCorrect == DaySpec => []DayTypeOK
<1>1. ASSUME DayInv PROVE DayTypeOK
  <2>1. \A r \in runs : r.start <= hour
    BY <1>1, SlotFacts, DayReportAssumption DEF DayInv, DayTypeInv, RunsInv, RowOf
  <2>2. QED BY <1>1, <2>1 DEF DayInv, DayTypeInv, DayTypeOK
<1>2. QED BY <1>1, DayAlways, PTL

(* Wherever the recap run stops, and whatever cannot be written, a family  *)
(* that was due a recap and has none is shown why, and only a family whose *)
(* row was lost is left to be investigated (delivery_report,               *)
(* run_watchlist_recap).                                                   *)
THEOREM MissesAreExplained == DaySpec => []MissExplained
<1>1. ASSUME DayInv PROVE MissExplained
  <2> SUFFICES ASSUME slot[RecapSlot] = "over",
                      NEW f \in Families, f \notin recapSends, f \notin moved
               PROVE  /\ MissReason(f) = "unexplained" => f \in unlucky
                      /\ f \in owed => MissReason(f) \in {"no_prices", "send_failed",
                                   "recap_job_missing", "unexplained", "no_watchlist"}
                      /\ f \in owed /\ MissReason(f) = "recap_job_missing" => RecapRun = {}
                      /\ f \in owed /\ gates[f] = {} => MissReason(f) \in RecapFindings
                      /\ outcome[f] # "none" => f \in owed
    BY DEF MissExplained
  <2>1. /\ DayTypeInv /\ RecapInv /\ step = "none"
        /\ outcome[f] \in {"none", "no_prices", "send_failed"}
        /\ gates[f] \in SUBSET Gates
        /\ f \in owed => gates[f] \in {{}, {"no_watchlist"}}
        /\ outcome[f] # "none" => f \in owed
        /\ RecapRun # {} /\ gates[f] = {} => Settled(f)
    BY <1>1 DEF DayInv, DayTypeInv, RecapInv
  <2>2. CASE outcome[f] # "none"
    <3>1. MissReason(f) = outcome[f]
      BY <2>2 DEF MissReason, RecordedMiss
    <3>2. QED BY <2>1, <2>2, <3>1 DEF RecapFindings, Faults
  <2>3. CASE outcome[f] = "none" /\ gates[f] = {}
    <3>1. MissReason(f) = IF RecapRun = {} THEN "recap_job_missing" ELSE "unexplained"
      BY <2>3 DEF MissReason, RecordedMiss
    <3>2. MissReason(f) \in RecapFindings
      BY <3>1 DEF RecapFindings, Faults
    <3>3. QED BY <2>1, <2>3, <3>1, <3>2 DEF Settled
  <2>4. CASE outcome[f] = "none" /\ gates[f] # {}
    <3>1. MissReason(f) \in Gates
      BY <2>1, <2>4 DEF MissReason, RecordedMiss, Gates
    <3>2. f \in owed => MissReason(f) = "no_watchlist"
      BY <2>1, <2>4 DEF MissReason, RecordedMiss
    <3>3. QED BY <2>1, <2>4, <3>1, <3>2 DEF Gates
  <2>5. QED BY <2>2, <2>3, <2>4
<1>2. QED BY <1>1, DayAlways, PTL

(* What slot i claims once the slots before it have claimed.               *)
ClaimedBy(f, i) ==
  LET free == Free(i, UNION {f[k] : k \in 1..(i - 1)})
  IN  IF free = {} THEN {} ELSE {Nearest(i, free)}

(* There is a nearest run.                                                 *)
LEMMA NearestFact ==
  ASSUME RunsInv, NEW i \in Slots, NEW free \in SUBSET runs, free # {}
  PROVE  /\ Nearest(i, free) \in free
         /\ \A q \in free : Away(i, Nearest(i, free)) <= Away(i, q)
<1>1. \A r \in free : Away(i, r) \in Nat /\ r.start \in Nat
  BY SlotFacts DEF RunsInv, RowOf, Away, DueOf
<1> DEFINE D == {Away(i, r) : r \in free}
<1>2. D \in SUBSET Nat /\ D # {}
  BY <1>1
<1>3. PICK d \in D : \A e \in D : d <= e
  <2> HIDE DEF D
  <2>1. QED BY <1>2, LeastNumber
<1> DEFINE E == {r.start : r \in {q \in free : Away(i, q) = d}}
<1>4. E \in SUBSET Nat /\ E # {}
  BY <1>1, <1>3
<1>5. PICK e \in E : \A x \in E : e <= x
  <2> HIDE DEF E
  <2>1. QED BY <1>4, LeastNumber
<1>6. PICK r \in free : Away(i, r) = d /\ r.start = e
  BY <1>5
<1>7. ASSUME NEW q \in free
      PROVE  Away(i, r) < Away(i, q) \/ (Away(i, r) = Away(i, q) /\ r.start <= q.start)
  <2>1. Away(i, r) <= Away(i, q) /\ Away(i, q) \in Nat /\ Away(i, r) \in Nat
    BY <1>1, <1>3, <1>6
  <2>2. Away(i, q) = Away(i, r) => r.start <= q.start
    BY <1>5, <1>6
  <2>3. QED BY <2>1, <2>2
<1>8. /\ Nearest(i, free) \in free
      /\ \A q \in free : \/ Away(i, Nearest(i, free)) < Away(i, q)
                         \/ /\ Away(i, Nearest(i, free)) = Away(i, q)
                            /\ Nearest(i, free).start <= q.start
  BY <1>6, <1>7 DEF Nearest
<1>9. QED BY <1>1, <1>8

LEMMA ClaimedIsRuns ==
  ASSUME RunsInv, NEW i \in Slots, NEW f
  PROVE  ClaimedBy(f, i) \in SUBSET runs
<1> DEFINE free == Free(i, UNION {f[k] : k \in 1..(i - 1)})
<1>1. free \in SUBSET runs
  BY DEF Free
<1>2. free # {} => Nearest(i, free) \in free
  <2> HIDE DEF free
  <2>1. QED BY <1>1, NearestFact
<1>3. ClaimedBy(f, i) = IF free = {} THEN {} ELSE {Nearest(i, free)}
  BY DEF ClaimedBy
<1> HIDE DEF free
<1>4. QED BY <1>1, <1>2, <1>3

(* The recursion of Claim has a solution.                                  *)
LEMMA ClaimEquation ==
  ASSUME RunsInv
  PROVE  \A i \in Slots : Claim[i] = ClaimedBy(Claim, i)
<1> DEFINE Solves(f, n) == /\ f \in [1..n -> SUBSET runs]
                           /\ \A i \in 1..n : f[i] = ClaimedBy(f, i)
           S == {n \in Nat : n <= RecapSlot => \E f : Solves(f, n)}
<1>1. 0 \in S
  <2>1. Solves([i \in 1..0 |-> {}], 0)
    OBVIOUS
  <2> HIDE DEF Solves
  <2>2. QED BY <2>1
<1>2. ASSUME NEW n \in Nat, n \in S PROVE n + 1 \in S
  <2> SUFFICES ASSUME n + 1 <= RecapSlot PROVE \E g : Solves(g, n + 1)
    BY DEF S
  <2>1. PICK f : Solves(f, n)
    <3>1. n <= RecapSlot
      BY SlotFacts
    <3> HIDE DEF Solves
    <3>2. QED BY <1>2, <3>1
  <2> DEFINE g == [k \in 1..(n + 1) |-> IF k <= n THEN f[k] ELSE ClaimedBy(f, n + 1)]
  <2>2. n + 1 \in Slots
    BY SlotFacts
  <2>3. g \in [1..(n + 1) -> SUBSET runs]
    <3>1. ClaimedBy(f, n + 1) \in SUBSET runs
      BY <2>2, ClaimedIsRuns
    <3>2. \A k \in 1..(n + 1) : k <= n => f[k] \in SUBSET runs
      BY <2>1
    <3>3. QED BY <3>1, <3>2
  <2>4. ASSUME NEW i \in 1..(n + 1) PROVE g[i] = ClaimedBy(g, i)
    <3>1. \A k \in 1..(i - 1) : g[k] = f[k]
      OBVIOUS
    <3>2. {g[k] : k \in 1..(i - 1)} = {f[k] : k \in 1..(i - 1)}
      <4> HIDE DEF g
      <4>1. QED BY <3>1
    <3>3. ClaimedBy(g, i) = ClaimedBy(f, i)
      <4> HIDE DEF g
      <4>1. QED BY <3>2, Zenon DEF ClaimedBy
    <3>4. g[i] = ClaimedBy(f, i)
      <4>1. CASE i <= n
        BY <2>1, <4>1
      <4>2. CASE ~(i <= n)
        <5>1. i = n + 1
          BY <4>2
        <5>2. QED BY <4>2, <5>1
      <4>3. QED BY <4>1, <4>2
    <3>5. QED BY <3>3, <3>4
  <2> HIDE DEF g
  <2>5. Solves(g, n + 1)
    BY <2>3, <2>4
  <2>6. QED BY <2>5
<1>3. PICK f : Solves(f, RecapSlot)
  <2>1. \A n \in Nat : n \in S
    <3> HIDE DEF S
    <3>1. QED BY <1>1, <1>2, SetInduction
  <2> HIDE DEF Solves
  <2>2. QED BY <2>1, SlotFacts
<1>4. f = [i \in Slots |-> ClaimedBy(f, i)]
  BY <1>3, SlotFacts
<1>5. Claim = CHOOSE h : h = [i \in Slots |-> ClaimedBy(h, i)]
  BY Zenon DEF Claim, ClaimedBy
<1>6. Claim = [i \in Slots |-> ClaimedBy(Claim, i)]
  BY <1>4, <1>5, Zenon
<1>7. QED BY <1>6, Zenon

(* A slot claims a run of its job that no slot before it has claimed, the  *)
(* nearest one, and nothing only if there is none.                         *)
LEMMA ClaimFact ==
  ASSUME RunsInv, NEW i \in Slots
  PROVE  /\ Claim[i] = {} \/ \E r \in runs : Claim[i] = {r}
         /\ \A r \in Claim[i] : /\ r \in runs /\ r.job = Schedule[i].job
                                /\ \A k \in 1..(i - 1) : r \notin Claim[k]
         /\ \A q \in runs : q.job = Schedule[i].job /\ (\A k \in 1..(i - 1) : q \notin Claim[k]) =>
              /\ Claim[i] # {}
              /\ \A r \in Claim[i] : Away(i, r) <= Away(i, q)
<1> DEFINE free == Free(i, UNION {Claim[k] : k \in 1..(i - 1)})
<1>1. Claim[i] = IF free = {} THEN {} ELSE {Nearest(i, free)}
  BY ClaimEquation DEF ClaimedBy
<1>2. \A q : q \in free <=> /\ q \in runs /\ q.job = Schedule[i].job
                            /\ \A k \in 1..(i - 1) : q \notin Claim[k]
  BY Zenon DEF Free
<1>3. free \in SUBSET runs
  BY <1>2
<1> HIDE DEF free
<1>4. free # {} => /\ Nearest(i, free) \in free
                   /\ \A q \in free : Away(i, Nearest(i, free)) <= Away(i, q)
  BY <1>3, NearestFact
<1>5. CASE free = {}
  <2>1. Claim[i] = {}
    BY <1>1, <1>5
  <2>2. QED BY <1>2, <1>5, <2>1
<1>6. CASE free # {}
  <2>1. Claim[i] = {Nearest(i, free)} /\ Nearest(i, free) \in free
    BY <1>1, <1>4, <1>6
  <2>2. QED BY <1>2, <1>3, <1>4, <1>6, <2>1
<1>7. QED BY <1>5, <1>6

(* No run is claimed twice.                                                *)
LEMMA ClaimedOnce ==
  ASSUME RunsInv, NEW i \in Slots, NEW k \in Slots, NEW r, r \in Claim[i], r \in Claim[k]
  PROVE  i = k
<1>1. i \in Nat /\ k \in Nat /\ i >= 1 /\ k >= 1
  BY SlotFacts
<1>2. CASE k < i
  <2>1. k \in 1..(i - 1)
    BY <1>1, <1>2
  <2>2. QED BY <2>1, ClaimFact
<1>3. CASE i < k
  <2>1. i \in 1..(k - 1)
    BY <1>1, <1>3
  <2>2. QED BY <2>1, ClaimFact
<1>4. QED BY <1>1, <1>2, <1>3

SlotsCome(job) == {i \in Slots : Schedule[i].job = job /\ Schedule[i].due <= hour}
RunsOf(job) == {r \in runs : r.job = job}
OwnSlot(r) == CHOOSE i \in Slots : RowOf(r, i)

(* Each run is of a slot of its job that has come, and of no other run's.  *)
LEMMA OwnSlots ==
  ASSUME DayInv, NEW job
  PROVE  /\ \A r \in RunsOf(job) : OwnSlot(r) \in SlotsCome(job) /\ r.start = DueOf(OwnSlot(r))
         /\ \A r, q \in RunsOf(job) : OwnSlot(r) = OwnSlot(q) => r = q
<1>1. RunsInv /\ hour \in Nat /\ awake \in Nat /\ awake <= hour
  BY DayReportAssumption DEF DayInv, DayTypeInv
<1>2. \A r \in RunsOf(job) : OwnSlot(r) \in Slots /\ RowOf(r, OwnSlot(r))
  BY <1>1 DEF RunsInv, RunsOf, OwnSlot
<1>3. \A r \in RunsOf(job) : OwnSlot(r) \in SlotsCome(job) /\ r.start = DueOf(OwnSlot(r))
  BY <1>1, <1>2, SlotFacts DEF RowOf, SlotsCome, RunsOf, DueOf
<1>4. QED BY <1>1, <1>2, <1>3 DEF RunsInv, RunsOf, RowOf

LEMMA ComeFinite == ASSUME NEW job PROVE IsFiniteSet(SlotsCome(job))
<1>1. SlotsCome(job) \subseteq 1..RecapSlot /\ RecapSlot \in Nat
  BY SlotFacts DEF SlotsCome
<1>2. IsFiniteSet(1..RecapSlot)
  BY <1>1, FS_Interval
<1>3. QED BY <1>1, <1>2, FS_Subset

(* Every run is claimed, by a slot that has come: were one left over, each *)
(* of these slots would have claimed another one, and there are no more of *)
(* them than runs.                                                         *)
LEMMA EveryRunClaimed ==
  ASSUME DayInv, NEW job, NEW r \in RunsOf(job)
  PROVE  \E i \in SlotsCome(job) : r \in Claim[i]
<1> SUFFICES ASSUME \A i \in SlotsCome(job) : r \notin Claim[i] PROVE FALSE
  OBVIOUS
<1>1. RunsInv
  BY DEF DayInv
<1> DEFINE came == SlotsCome(job)
           rows == RunsOf(job)
<1>2. \A i \in came : i \in Slots /\ Schedule[i].job = job /\ i \in Nat
  BY SlotFacts DEF SlotsCome
<1>3. \A i \in came : Claim[i] # {}
  <2> SUFFICES ASSUME NEW i \in came PROVE Claim[i] # {}
    OBVIOUS
  <2>1. ASSUME NEW k \in 1..(i - 1) PROVE r \notin Claim[k]
    <3>1. k \in Slots /\ k < i /\ i \in Slots /\ Schedule[i].job = job
      BY <1>2, SlotFacts
    <3>2. CASE Schedule[k].job = job
      <4>1. Schedule[k].due <= hour
        <5>1. DueOf(k) < DueOf(i) /\ DueOf(i) <= hour /\ DueOf(k) \in Nat /\ DueOf(i) \in Nat
          BY <3>1, SlotFacts DEF SlotsCome, DueOf
        <5>2. hour \in Nat
          BY DayReportAssumption DEF DayInv, DayTypeInv
        <5>3. QED BY <5>1, <5>2 DEF DueOf
      <4>2. QED BY <3>1, <3>2, <4>1 DEF SlotsCome
    <3>3. CASE Schedule[k].job # job
      BY <1>1, <3>1, <3>3, ClaimFact DEF RunsOf
    <3>4. QED BY <3>2, <3>3
  <2>2. r \in runs /\ r.job = Schedule[i].job
    BY <1>2 DEF RunsOf
  <2>3. QED BY <1>1, <1>2, <2>1, <2>2, ClaimFact
<1> DEFINE pick == [i \in came |-> CHOOSE q : q \in Claim[i]]
           own == [q \in rows |-> OwnSlot(q)]
<1>4. \A i \in came : pick[i] \in Claim[i]
  BY <1>3
<1>5. pick \in Injection(came, rows \ {r})
  <2>1. \A i \in came : pick[i] \in rows \ {r}
    BY <1>1, <1>2, <1>4, ClaimFact DEF RunsOf
  <2>2. \A i, k \in came : pick[i] = pick[k] => i = k
    BY <1>1, <1>2, <1>4, ClaimedOnce
  <2>3. pick \in [came -> rows \ {r}]
    BY <2>1
  <2> HIDE DEF pick
  <2>4. QED BY <2>2, <2>3 DEF Injection, IsInjective
<1>6. own \in Injection(rows, came)
  <2>1. own \in [rows -> came] /\ \A q, p \in rows : own[q] = own[p] => q = p
    BY OwnSlots
  <2> HIDE DEF own
  <2>2. QED BY <2>1 DEF Injection, IsInjective
<1>7. IsFiniteSet(came)
  BY ComeFinite
<1> HIDE DEF came, rows, pick, own
<1>8. IsFiniteSet(rows) /\ Cardinality(rows) <= Cardinality(came)
  BY <1>6, <1>7, FS_Injection
<1>9. IsFiniteSet(rows \ {r}) /\ Cardinality(rows \ {r}) = Cardinality(rows) - 1
  BY <1>8, FS_RemoveElement DEF rows
<1>10. Cardinality(came) <= Cardinality(rows \ {r})
  BY <1>5, <1>9, FS_Injection
<1>11. Cardinality(came) \in Nat /\ Cardinality(rows) \in Nat
  BY <1>7, <1>8, FS_CardinalityType
<1>12. QED BY <1>8, <1>9, <1>10, <1>11

(* As many slots claim runs of a kind as there are runs of the kind.       *)
LEMMA ClaimersCounted ==
  ASSUME DayInv, NEW job, NEW Q \in SUBSET RunsOf(job)
  PROVE  /\ IsFiniteSet(Q)
         /\ Cardinality({i \in SlotsCome(job) : \E r \in Claim[i] : r \in Q}) = Cardinality(Q)
<1> DEFINE C == {i \in SlotsCome(job) : \E r \in Claim[i] : r \in Q}
           by == [r \in Q |-> CHOOSE i \in SlotsCome(job) : r \in Claim[i]]
<1>1. RunsInv
  BY DEF DayInv
<1>2. \A r \in Q : by[r] \in SlotsCome(job) /\ r \in Claim[by[r]]
  BY EveryRunClaimed
<1>3. by \in [Q -> C]
  <2>1. \A r \in Q : by[r] \in C
    BY <1>2
  <2>2. QED BY <2>1
<1>4. \A i \in C : i \in Slots
  BY DEF SlotsCome
<1>5. \A r, q \in Q : by[r] = by[q] => r = q
  <2> SUFFICES ASSUME NEW r \in Q, NEW q \in Q, by[r] = by[q] PROVE r = q
    OBVIOUS
  <2>1. r \in Claim[by[r]] /\ q \in Claim[by[r]] /\ by[r] \in Slots
    BY <1>2, <1>3, <1>4
  <2> HIDE DEF by
  <2>2. Claim[by[r]] = {} \/ \E z \in runs : Claim[by[r]] = {z}
    BY <1>1, <2>1, ClaimFact
  <2>3. QED BY <2>1, <2>2
<1>6. \A i \in C : \E r \in Q : by[r] = i
  <2> SUFFICES ASSUME NEW i \in C PROVE \E r \in Q : by[r] = i
    OBVIOUS
  <2>1. PICK r \in Claim[i] : r \in Q
    OBVIOUS
  <2>2. by[r] \in Slots /\ r \in Claim[by[r]] /\ i \in Slots
    BY <1>2, <1>3, <1>4, <2>1
  <2> HIDE DEF by
  <2>3. by[r] = i
    BY <1>1, <2>1, <2>2, ClaimedOnce
  <2>4. QED BY <2>1, <2>3
<1> HIDE DEF by
<1>7. by \in Bijection(Q, C)
  BY <1>3, <1>5, <1>6 DEF Bijection, Injection, IsInjective, Surjection
<1>8. IsFiniteSet(Q)
  <2>1. RunsOf(job) \subseteq runs /\ IsFiniteSet(runs)
    BY <1>1 DEF RunsOf, RunsInv
  <2>2. Q \subseteq runs
    BY <2>1
  <2>3. QED BY <2>1, <2>2, FS_Subset
<1> HIDE DEF C
<1>9. Cardinality(C) = Cardinality(Q)
  BY <1>7, <1>8, FS_Bijection DEF ExistsBijection
<1>10. QED BY <1>8, <1>9 DEF C

(* A slot that has not come claims nothing.                                *)
LEMMA NobodyAhead ==
  ASSUME DayInv, NEW i \in Slots, Claim[i] # {}
  PROVE  i \in SlotsCome(Schedule[i].job)
<1>1. RunsInv
  BY DEF DayInv
<1>2. PICK r \in Claim[i] : r \in RunsOf(Schedule[i].job)
  BY <1>1, ClaimFact DEF RunsOf
<1>3. PICK k \in SlotsCome(Schedule[i].job) : r \in Claim[k]
  BY <1>2, EveryRunClaimed
<1>4. k \in Slots
  BY DEF SlotsCome
<1>5. QED BY <1>1, <1>2, <1>3, <1>4, ClaimedOnce

(* When no slot of a job that came is without a run, each has claimed its  *)
(* own.                                                                    *)
LEMMA NoneDrifts ==
  ASSUME DayInv, NEW job, \A i \in SlotsCome(job) : Claim[i] # {}
  PROVE  \A i \in SlotsCome(job) : \A r \in Claim[i] : Away(i, r) = 0
<1> DEFINE came == SlotsCome(job)
           rows == RunsOf(job)
           own == [q \in rows |-> OwnSlot(q)]
<1>1. RunsInv /\ IsFiniteSet(came) /\ \A i \in came : i \in Slots /\ i \in Nat
  <2>1. \A i \in came : i \in Slots /\ i \in Nat
    BY SlotFacts DEF SlotsCome
  <2>2. QED BY <2>1, ComeFinite DEF DayInv
<1>2. Cardinality(came) = Cardinality(rows)
  <2>1. Cardinality({i \in came : \E r \in Claim[i] : r \in rows}) = Cardinality(rows)
    BY ClaimersCounted
  <2>2. \A i \in came : \E r \in Claim[i] : r \in rows
    BY <1>1, ClaimFact DEF RunsOf, SlotsCome
  <2>3. {i \in came : \E r \in Claim[i] : r \in rows} = came
    <3> HIDE DEF came
    <3>1. QED BY <2>2
  <2>4. QED BY <2>1, <2>3
<1>3. \A i \in came : \E r \in rows : r.start = DueOf(i)
  <2>1. own \in [rows -> came] /\ \A q, p \in rows : own[q] = own[p] => q = p
    BY OwnSlots
  <2>2. \A q \in rows : q.start = DueOf(own[q])
    BY OwnSlots
  <2> HIDE DEF own
  <2>3. own \in Injection(rows, came)
    BY <2>1 DEF Injection, IsInjective
  <2> HIDE DEF came, rows
  <2>4. own \in Surjection(rows, came)
    BY <1>1, <1>2, <2>3, FS_Injection
  <2>5. QED BY <2>2, <2>4 DEF Surjection
<1>4. \A i \in came : \A r \in Claim[i] : Away(i, r) \in Nat
  BY <1>1, ClaimFact, SlotFacts DEF RunsInv, RowOf, Away, DueOf
<1> SUFFICES ASSUME {i \in came : \E r \in Claim[i] : Away(i, r) # 0} # {} PROVE FALSE
  OBVIOUS
<1> DEFINE Bad == {i \in came : \E r \in Claim[i] : Away(i, r) # 0}
<1>5. PICK i \in Bad : \A k \in Bad : i <= k
  <2>1. Bad \in SUBSET Nat
    BY <1>1
  <2> HIDE DEF Bad
  <2>2. Bad # {}
    BY DEF Bad
  <2>3. QED BY <2>1, <2>2, LeastNumber
<1>6. PICK own1 \in rows : own1.start = DueOf(i)
  BY <1>3
<1>7. own1 \in runs /\ own1.job = Schedule[i].job /\ Away(i, own1) = 0 /\ i \in Slots /\ i \in came
  <2>1. i \in came /\ i \in Slots
    BY <1>1
  <2>2. own1 \in runs /\ own1.job = Schedule[i].job
    BY <2>1 DEF RunsOf, SlotsCome
  <2>3. Away(i, own1) = 0
    BY <1>6, <2>1, SlotFacts DEF Away, DueOf
  <2>4. QED BY <2>1, <2>2, <2>3
<1>8. ASSUME NEW k \in 1..(i - 1), own1 \in Claim[k] PROVE FALSE
  <2>1. k \in Slots /\ k < i /\ k \in Nat
    BY <1>1, <1>7, SlotFacts
  <2>2. own1.job = Schedule[k].job
    BY <1>1, <1>8, <2>1, ClaimFact
  <2>3. k \in came
    <3>1. DueOf(k) < DueOf(i) /\ DueOf(i) <= hour /\ DueOf(k) \in Nat /\ DueOf(i) \in Nat
      BY <1>7, <2>1, SlotFacts DEF SlotsCome, DueOf
    <3>2. hour \in Nat
      BY DayReportAssumption DEF DayInv, DayTypeInv
    <3>3. Schedule[k].due <= hour
      BY <3>1, <3>2 DEF DueOf
    <3>4. Schedule[i].job = job
      BY <1>7 DEF SlotsCome
    <3>5. QED BY <1>7, <2>1, <2>2, <3>3, <3>4 DEF SlotsCome
  <2>4. k \notin Bad
    <3> HIDE DEF Bad
    <3>1. i \in Nat
      BY <1>1, <1>7, Zenon
    <3>2. ~(i <= k)
      BY <2>1, <3>1
    <3>3. QED BY <1>5, <3>2
  <2>5. Away(k, own1) = 0
    BY <1>8, <2>3, <2>4
  <2>6. own1.start = DueOf(k) /\ own1.start \in Nat
    BY <1>6, <1>7, <2>1, <2>5, SlotFacts DEF Away, DueOf
  <2>7. i = k
    BY <1>6, <1>7, <2>1, <2>6, SlotFacts
  <2>8. QED BY <1>1, <1>7, <2>1, <2>7
<1>9. PICK r \in Claim[i] : Away(i, r) # 0
  BY <1>5
<1>10. Away(i, r) <= Away(i, own1)
  BY <1>1, <1>7, <1>8, <1>9, ClaimFact
<1>11. Away(i, r) \in Nat
  BY <1>4, <1>7, <1>9
<1>12. QED BY <1>7, <1>9, <1>10, <1>11

LEMMA MissedCounted ==
  ASSUME DayInv, NEW job,
         NEW missing, missing = {i \in JobMissing : Schedule[i].job = job}
  PROVE  /\ Cardinality(missing) = Cardinality(SlotsCome(job)) - Cardinality(RunsOf(job))
         /\ Cardinality({i \in JobFailed : Schedule[i].job = job})
              = Cardinality({r \in RunsOf(job) : ~r.ok})
         /\ missing = {} => {i \in JobDrift : Schedule[i].job = job} = {}
<1> DEFINE came == SlotsCome(job)
           C == {i \in came : \E r \in Claim[i] : r \in RunsOf(job)}
           F == {i \in came : \E r \in Claim[i] : r \in {q \in RunsOf(job) : ~q.ok}}
<1>1. RunsInv
  BY DEF DayInv
<1>2. \A i \in came : i \in Slots /\ Schedule[i].job = job
  BY DEF SlotsCome
<1>3. \A i \in came : i \in C <=> Claim[i] # {}
  BY <1>1, <1>2, ClaimFact DEF RunsOf
<1>4. missing = came \ C
  <2>1. \A i \in Slots : Schedule[i].due > hour <=> ~(Schedule[i].due <= hour)
    <3>1. \A i \in Slots : Schedule[i].due \in Nat
      BY SlotFacts DEF DueOf
    <3>2. hour \in Nat
      BY DayReportAssumption DEF DayInv, DayTypeInv
    <3>3. QED BY <3>1, <3>2
  <2>2. missing = {i \in came : Claim[i] = {}}
    BY <2>1 DEF JobMissing, NotDueYet, SlotsCome
  <2> HIDE DEF C, came
  <2>3. C \subseteq came
    BY DEF C
  <2>4. QED BY <1>3, <2>2, <2>3
<1>5. Cardinality(missing) = Cardinality(came) - Cardinality(RunsOf(job))
  <2>1. Cardinality(C) = Cardinality(RunsOf(job))
    BY ClaimersCounted
  <2>2. IsFiniteSet(came) /\ C \subseteq came
    BY ComeFinite
  <2> HIDE DEF C, came
  <2>3. Cardinality(came \ C) = Cardinality(came) - Cardinality(came \cap C)
    BY <2>2, FS_Difference
  <2>4. came \cap C = C
    BY <2>2
  <2>5. QED BY <1>4, <2>1, <2>3, <2>4
<1>6. {i \in JobFailed : Schedule[i].job = job} = F
  <2>1. ASSUME NEW i \in JobFailed, Schedule[i].job = job PROVE i \in F
    <3>1. i \in Slots /\ Claim[i] # {}
      BY DEF JobFailed
    <3>2. i \in came
      BY <2>1, <3>1, NobodyAhead
    <3>3. PICK r \in Claim[i] : ~r.ok
      BY DEF JobFailed
    <3>4. r \in RunsOf(job)
      BY <1>1, <2>1, <3>1, <3>3, ClaimFact DEF RunsOf
    <3>5. QED BY <3>2, <3>3, <3>4
  <2>2. ASSUME NEW i \in F PROVE i \in JobFailed /\ Schedule[i].job = job
    BY <1>2 DEF JobFailed
  <2> HIDE DEF F
  <2>3. \A i \in F : i \in JobFailed /\ Schedule[i].job = job
    BY <2>2
  <2>4. \A i \in JobFailed : Schedule[i].job = job => i \in F
    BY <2>1
  <2>5. QED BY <2>3, <2>4
<1>7. Cardinality(F) = Cardinality({r \in RunsOf(job) : ~r.ok})
  BY ClaimersCounted
<1>8. ASSUME missing = {} PROVE {i \in JobDrift : Schedule[i].job = job} = {}
  <2>1. \A i \in came : Claim[i] # {}
    <3> HIDE DEF C, came
    <3>1. QED BY <1>3, <1>4, <1>8
  <2>2. \A i \in came : \A r \in Claim[i] : Away(i, r) = 0
    BY <2>1, NoneDrifts
  <2> SUFFICES ASSUME NEW i \in JobDrift, Schedule[i].job = job PROVE FALSE
    OBVIOUS
  <2>3. i \in Slots /\ \E r \in Claim[i] : Away(i, r) >= 1
    BY DEF JobDrift
  <2>4. i \in came
    BY <2>3, NobodyAhead
  <2>5. QED BY <2>2, <2>3, <2>4
<1>9. QED BY <1>5, <1>6, <1>7, <1>8

(* The digest against the findings.                                        *)
LEMMA HealthAgrees ==
  ASSUME DayInv
  PROVE  /\ JobFailed \cap Batch # {} => Health # "HEALTHY"
         /\ Health = "UNHEALTHY" <=> Expected # {} /\ Expected \subseteq JobMissing \cup JobFailed
<1>1. RunsInv
  BY DEF DayInv
<1>2. \A i \in Slots : i \in Batch <=> Schedule[i].job # Recap
  BY SlotFacts DEF Batch
<1>3. \A i \in Slots : \A r \in Claim[i] : r \in runs /\ r.job = Schedule[i].job
  BY <1>1, ClaimFact
<1>4. Health = "UNHEALTHY" <=> Expected # {} /\ ~\E r \in BatchRuns : r.ok
  BY DEF Health
<1>5. \A i \in Batch : \A r \in Claim[i] : r \in BatchRuns
  BY <1>2, <1>3 DEF BatchRuns, Batch
<1>6. ASSUME JobFailed \cap Batch # {} PROVE Health # "HEALTHY"
  <2>1. \E r \in BatchRuns : ~r.ok
    BY <1>5, <1>6 DEF JobFailed
  <2>2. QED BY <2>1 DEF Health
<1>7. ASSUME ~\E r \in BatchRuns : r.ok, NEW i \in Expected
      PROVE  i \in JobMissing \cup JobFailed
  <2>1. i \in Batch /\ i \in Slots /\ Schedule[i].due <= hour
    BY DEF Expected, Batch
  <2>2. CASE Claim[i] = {}
    <3>1. ~(Schedule[i].due > hour)
      <4>1. Schedule[i].due \in Nat /\ hour \in Nat
        BY <2>1, SlotFacts, DayReportAssumption DEF DueOf, DayInv, DayTypeInv
      <4>2. QED BY <2>1, <4>1
    <3>2. QED BY <2>1, <2>2, <3>1 DEF JobMissing, NotDueYet
  <2>3. CASE Claim[i] # {}
    <3>1. PICK r : r \in Claim[i]
      BY <2>3
    <3>2. ~r.ok
      BY <1>5, <1>7, <2>1, <3>1
    <3>3. QED BY <2>1, <3>1, <3>2 DEF JobFailed
  <2>4. QED BY <2>2, <2>3
<1>8. ASSUME NEW r \in BatchRuns, r.ok PROVE ~(Expected \subseteq JobMissing \cup JobFailed)
  <2>1. r \in runs /\ r.job # Recap /\ r \in RunsOf(r.job)
    BY DEF BatchRuns, RunsOf
  <2>2. PICK i \in SlotsCome(r.job) : r \in Claim[i]
    BY <2>1, EveryRunClaimed
  <2>3. i \in Slots /\ i \in Expected
    BY <1>2, <2>1, <2>2 DEF SlotsCome, Expected
  <2>4. i \notin JobMissing
    BY <2>2 DEF JobMissing
  <2>5. i \notin JobFailed
    <3>1. \E z \in runs : Claim[i] = {z}
      BY <1>1, <2>2, <2>3, ClaimFact
    <3>2. Claim[i] = {r}
      BY <2>2, <3>1
    <3>3. QED BY <1>8, <3>2 DEF JobFailed
  <2>6. QED BY <2>3, <2>4, <2>5
<1>9. QED BY <1>4, <1>6, <1>7, <1>8

(* Whatever ran, raised or was cut short, the report counts the missed     *)
(* slots of a job and its failed runs rightly, though it may name the      *)
(* wrong slot (jobs_report, findings, health).                             *)
THEOREM ReportsCountMisses == DaySpec => []MissedSlotsCounted
<1>1. ASSUME DayInv PROVE MissedSlotsCounted
  <2> SUFFICES ASSUME NEW job,
                      NEW missing, missing = {i \in JobMissing : Schedule[i].job = job}
               PROVE  /\ Cardinality(missing) =
                           Cardinality({i \in Slots : Schedule[i].job = job /\ Schedule[i].due <= hour})
                             - Cardinality({r \in runs : r.job = job})
                      /\ Cardinality({i \in JobFailed : Schedule[i].job = job})
                           = Cardinality({r \in {q \in runs : q.job = job} : ~r.ok})
                      /\ missing = {} => {i \in JobDrift : Schedule[i].job = job} = {}
                      /\ \A i \in missing :
                           awake < Schedule[i].due => FirstCause(i) \in {"asleep", "died midway"}
                      /\ JobFailed \cap Batch # {} => Health # "HEALTHY"
                      /\ Health = "UNHEALTHY" <=> Expected # {} /\ Expected \subseteq JobMissing \cup JobFailed
    BY Zenon DEF MissedSlotsCounted
  <2>1. ASSUME NEW i \in missing, awake < Schedule[i].due
        PROVE  FirstCause(i) \in {"asleep", "died midway"}
    <3>1. ~AliveAfter(i)
      <4> SUFFICES ASSUME NEW r \in runs, r.start > Schedule[i].due PROVE FALSE
        BY DEF AliveAfter
      <4>1. r.start <= awake /\ r.start \in Nat /\ awake \in Nat
        BY <1>1, SlotFacts, DayReportAssumption DEF DayInv, DayTypeInv, RunsInv, RowOf
      <4>2. Schedule[i].due \in Nat
        BY SlotFacts DEF JobMissing, DueOf
      <4>3. QED BY <2>1, <4>1, <4>2
    <3>2. QED BY <3>1 DEF FirstCause
  <2>2. /\ Cardinality(missing) = Cardinality(SlotsCome(job)) - Cardinality(RunsOf(job))
        /\ Cardinality({i \in JobFailed : Schedule[i].job = job})
             = Cardinality({r \in RunsOf(job) : ~r.ok})
        /\ missing = {} => {i \in JobDrift : Schedule[i].job = job} = {}
    BY <1>1, MissedCounted
  <2>3. /\ JobFailed \cap Batch # {} => Health # "HEALTHY"
        /\ Health = "UNHEALTHY" <=> Expected # {} /\ Expected \subseteq JobMissing \cup JobFailed
    BY <1>1, HealthAgrees
  <2>4. QED BY <2>1, <2>2, <2>3 DEF SlotsCome, RunsOf
<1>2. QED BY <1>1, DayAlways, PTL

-----------------------------------------------------------------------------
(* MoneyIdeas.                                                             *)

(* The sends of idea j after the last one of idea i, and the ideas that    *)
(* had not come since i when j came last.                                  *)
Since(i, j) == {s \in sends : s.idea = j /\ s.day > LastSent(i)}
AheadThen(i, j) ==
  {k \in Ideas \ {i} : \A s \in sends : s.idea = k => s.day <= LastSent(i) \/ s.day > LastSent(j)}

IdeaTypeInv ==
  /\ tradingDay \in 1..MaxTradingDay /\ lost \in 0..MaxLost
  /\ sends \subseteq [idea : Ideas, day : 1..(tradingDay - 1)]
  /\ mails \subseteq [idea : Ideas, day : 1..(tradingDay - 1)]
  /\ IsFiniteSet(sends)
  /\ \A s, x \in sends : s.day = x.day => s = x

BasicsInv ==
  Cardinality(SentIdeas) <= FOUNDATION => SentIdeas = 1..Cardinality(SentIdeas)

(* While i waits, an idea without a tag comes once at most, and one that   *)
(* comes again does so each time with fewer ideas ahead of i.              *)
WaitInv(i, j) ==
  /\ j \notin Tagged => Cardinality(Since(i, j)) <= 1
  /\ Cardinality(Since(i, j)) >= 2 =>
       Cardinality(AheadThen(i, j)) + Cardinality(Since(i, j)) <= OldestWindow

IdeaInv ==
  /\ IdeaTypeInv /\ BasicsInv /\ FirstRound /\ NoEarlyRepeat
  /\ \A i \in SentIdeas, j \in Ideas : WaitInv(i, j)

LEMMA IdeasFact ==
  /\ Ideas = 1..Cardinality(Ideas) /\ IsFiniteSet(Ideas) /\ Cardinality(Ideas) \in Nat \ {0}
  /\ IsFiniteSet(Ideas \ Tagged) /\ Cardinality(Ideas \ Tagged) \in Nat
  /\ Cardinality(Ideas \ Tagged) <= Cardinality(Ideas)
  /\ OldestWindow \in Nat \ {0} /\ OldestWindow <= Cardinality(Ideas \ Tagged)
  /\ FOUNDATION \in Nat /\ FOUNDATION <= Cardinality(Ideas)
  /\ Tagged \subseteq Ideas /\ IsFiniteSet(Tagged) /\ Cardinality(Tagged) \in Nat
<1>1. PICK n \in Nat : Ideas = 1..n
  <2>1. Curriculum \in Seq(STRING)
    BY MoneyIdeasAssumption
  <2>2. Len(Curriculum) \in Nat /\ DOMAIN Curriculum = 1..Len(Curriculum)
    BY <2>1
  <2>3. QED BY <2>2 DEF Ideas
<1>2. IsFiniteSet(Ideas) /\ Cardinality(Ideas) = n
  BY <1>1, FS_Interval
<1>3. /\ IsFiniteSet(Ideas \ Tagged) /\ Cardinality(Ideas \ Tagged) \in Nat
      /\ Cardinality(Ideas \ Tagged) <= Cardinality(Ideas)
  BY <1>2, FS_Subset, FS_CardinalityType
<1>4. OldestWindow \in 1..Cardinality(Ideas \ Tagged) /\ FOUNDATION \in 0..Cardinality(Ideas)
  BY MoneyIdeasAssumption
<1>5. Tagged \subseteq Ideas /\ IsFiniteSet(Tagged) /\ Cardinality(Tagged) \in Nat
  BY <1>2, FS_Subset, FS_CardinalityType DEF Tagged
<1>6. QED BY <1>1, <1>2, <1>3, <1>4, <1>5

(* What LastSent says of an idea that has been sent.                       *)
LEMMA LastSentFact ==
  ASSUME IdeaTypeInv, NEW i \in SentIdeas
  PROVE  /\ i \in Ideas /\ LastSent(i) \in 1..(tradingDay - 1)
         /\ \A s \in sends : s.idea = i => s.day <= LastSent(i)
         /\ \E s \in sends : s.idea = i /\ s.day = LastSent(i)
<1> DEFINE D == {s.day : s \in {x \in sends : x.idea = i}}
           b == tradingDay - 1
<1>1. b \in Nat /\ D \in SUBSET (0..b) /\ i \in Ideas /\ \A d \in D : d \in 1..b
  BY DEF IdeaTypeInv, SentIdeas
<1>2. D # {}
  BY DEF SentIdeas
<1> HIDE DEF D
<1>3. Max(D) \in D /\ \A d \in D : d <= Max(D)
  BY <1>1, <1>2, MaxFact
<1>4. LastSent(i) = Max(D)
  BY DEF LastSent, D
<1>5. QED BY <1>1, <1>3, <1>4 DEF D

LEMMA OldestFact ==
  ASSUME IdeaTypeInv, NEW S \in SUBSET SentIdeas, S # {}
  PROVE  OldestFirst(S) \in S /\ \A j \in S : LastSent(OldestFirst(S)) <= LastSent(j)
<1> DEFINE D == {LastSent(i) : i \in S}
<1>1. \A i \in S : LastSent(i) \in Nat
  BY LastSentFact
<1>2. D \in SUBSET Nat /\ D # {}
  BY <1>1
<1>3. PICK d \in D : \A e \in D : d <= e
  <2> HIDE DEF D
  <2>1. QED BY <1>2, LeastNumber
<1>4. \E i \in S : \A j \in S : LastSent(i) <= LastSent(j)
  BY <1>3
<1>5. QED BY <1>4 DEF OldestFirst

(* Two ideas were never sent last on the same day.                         *)
LEMMA LastDiffers ==
  ASSUME IdeaTypeInv, NEW i \in SentIdeas, NEW j \in SentIdeas, LastSent(i) = LastSent(j)
  PROVE  i = j
<1>1. /\ \E s \in sends : s.idea = i /\ s.day = LastSent(i)
      /\ \E s \in sends : s.idea = j /\ s.day = LastSent(j)
  BY LastSentFact
<1>2. QED BY <1>1 DEF IdeaTypeInv

OlderThan(x) == {k \in Ideas : LastSent(k) < LastSent(x)}

(* next_idea: a new idea while there is one; then the oldest, or one with  *)
(* a tag among the oldest.                                                 *)
LEMMA NextIdeaFact ==
  ASSUME IdeaInv, NEW tags \in DayTags, NEW x, x = NextIdea(tags)
  PROVE  /\ x \in Ideas
         /\ x \notin SentIdeas /\ Cardinality(SentIdeas) < FOUNDATION =>
              x = Cardinality(SentIdeas) + 1
         /\ x \in SentIdeas => /\ SentIdeas = Ideas
                               /\ Cardinality(OlderThan(x)) < OldestWindow
                               /\ x \in Tagged \/ OlderThan(x) = {}
<1> DEFINE unsent == Ideas \ SentIdeas
           fitting == Fitting(IF unsent # {} THEN unsent ELSE Oldest, tags)
           c == Cardinality(SentIdeas)
<1>1. /\ IdeaTypeInv /\ SentIdeas \subseteq Ideas /\ c \in Nat /\ IsFiniteSet(SentIdeas)
  <2>1. IdeaTypeInv /\ SentIdeas \subseteq Ideas
    BY DEF IdeaInv, IdeaTypeInv, SentIdeas
  <2>2. IsFiniteSet(SentIdeas) /\ c \in Nat
    BY <2>1, IdeasFact, FS_Subset, FS_CardinalityType
  <2>3. QED BY <2>1, <2>2
<1>2. Ideas \subseteq Nat
  BY IdeasFact
<1>3. CASE unsent # {}
  <2>1. fitting \subseteq unsent /\ unsent \in SUBSET Nat /\ fitting \in SUBSET Nat
    BY <1>2, <1>3 DEF Fitting
  <2>2. x = IF c >= FOUNDATION /\ fitting # {} THEN Min(fitting) ELSE Min(unsent)
    BY <1>3 DEF NextIdea
  <2>3. Min(unsent) \in unsent /\ \A y \in unsent : Min(unsent) <= y
    <3> HIDE DEF unsent
    <3>1. QED BY <2>1, <1>3, MinFact
  <2>4. fitting # {} => Min(fitting) \in fitting
    <3> HIDE DEF fitting
    <3>1. QED BY <2>1, MinFact
  <2>5. x \in unsent
    <3> HIDE DEF fitting, unsent, c
    <3>1. QED BY <2>1, <2>2, <2>3, <2>4
  <2>6. ASSUME c < FOUNDATION PROVE x = c + 1
    <3>1. FOUNDATION \in Nat /\ FOUNDATION <= Cardinality(Ideas)
      BY IdeasFact
    <3>2. x = Min(unsent)
      <4> HIDE DEF fitting, unsent, c
      <4>1. QED BY <1>1, <2>2, <2>6, <3>1
    <3>3. SentIdeas = 1..c
      BY <1>1, <2>6, <3>1 DEF IdeaInv, BasicsInv
    <3>4. Cardinality(Ideas) \in Nat /\ Ideas = 1..Cardinality(Ideas)
      BY IdeasFact
    <3>5. PICK n \in Nat : n = Cardinality(Ideas) /\ Ideas = 1..n
      BY <3>4
    <3>6. PICK k \in Nat : k = c /\ SentIdeas = 1..k /\ k < n
      BY <1>1, <2>6, <3>1, <3>3, <3>5
    <3>7. k + 1 \in unsent /\ \A y \in unsent : k + 1 <= y
      <4>1. k + 1 \in 1..n /\ k + 1 \notin 1..k /\ \A y \in 1..n : y \in 1..k \/ k + 1 <= y
        BY <3>6
      <4>2. QED BY <3>5, <3>6, <4>1
    <3>8. x = k + 1
      <4> HIDE DEF unsent
      <4>1. x \in unsent /\ x <= k + 1 /\ k + 1 <= x
        BY <2>3, <3>2, <3>7
      <4>2. x \in Nat
        BY <4>1, <2>1
      <4>3. QED BY <4>1, <4>2
    <3>9. QED BY <3>6, <3>8
  <2>7. QED BY <2>5, <2>6
<1>4. CASE unsent = {}
  <2>1. SentIdeas = Ideas /\ Ideas # {}
    <3>1. \A i \in Ideas : i \in SentIdeas
      BY <1>4
    <3>2. 1 \in Ideas
      BY IdeasFact
    <3>3. QED BY <1>1, <3>1, <3>2
  <2>2. fitting \subseteq Oldest \cap Tagged /\ Oldest \subseteq Ideas /\ Tagged \subseteq Ideas
    BY <1>4, MoneyIdeasAssumption DEF Fitting, Oldest, Tagged
  <2>3. CASE fitting # {}
    <3>1. x = OldestFirst(fitting)
      BY <1>4, <2>3 DEF NextIdea
    <3>2. x \in fitting
      <4> HIDE DEF fitting
      <4>1. QED BY <1>1, <2>1, <2>2, <2>3, <3>1, OldestFact
    <3>3. x \in Tagged /\ x \in Oldest
      BY <2>2, <3>2
    <3>4. QED BY <2>1, <2>2, <3>3 DEF Oldest, OlderThan
  <2>4. CASE fitting = {}
    <3>1. x = OldestFirst(Ideas)
      BY <1>4, <2>4 DEF NextIdea
    <3>2. x \in Ideas /\ \A j \in Ideas : LastSent(x) <= LastSent(j)
      BY <1>1, <2>1, <3>1, OldestFact
    <3>3. \A j \in Ideas : LastSent(j) \in Nat
      BY <1>1, <2>1, LastSentFact
    <3>4. OlderThan(x) = {}
      BY <3>2, <3>3 DEF OlderThan
    <3>5. QED BY <2>1, <3>2, <3>4, FS_EmptySet, IdeasFact
  <2>5. QED BY <2>3, <2>4
<1>5. QED BY <1>3, <1>4

Entry(x) == [idea |-> x, day |-> tradingDay]

(* A new row: the idea is the newest, and nothing else has changed.        *)
LEMMA SendFacts ==
  ASSUME IdeaTypeInv, NEW x \in Ideas, sends' = sends \union {Entry(x)}
  PROVE  /\ SentIdeas' = SentIdeas \union {x}
         /\ \A i \in SentIdeas : i # x => LastSent(i)' = LastSent(i)
         /\ LastSent(x)' = tradingDay
<1>1. Entry(x).idea = x /\ Entry(x).day = tradingDay /\ tradingDay \in Nat
  BY DEF Entry, IdeaTypeInv
<1>2. SentIdeas' = SentIdeas \union {x}
  BY <1>1 DEF SentIdeas
<1>3. ASSUME NEW i \in SentIdeas, i # x PROVE LastSent(i)' = LastSent(i)
  <2>1. {s \in sends' : s.idea = i} = {s \in sends : s.idea = i}
    BY <1>1, <1>3
  <2>2. QED BY <2>1 DEF LastSent
<1>4. LastSent(x)' = tradingDay
  <2> DEFINE D == {s.day : s \in {y \in sends' : y.idea = x}}
  <2>1. PICK t \in Nat : t = tradingDay
    BY <1>1
  <2>2. t \in D /\ D \in SUBSET (0..t)
    BY <1>1, <2>1 DEF IdeaTypeInv
  <2>3. LastSent(x)' = Max(D)
    BY DEF LastSent
  <2> HIDE DEF D
  <2>4. Max(D) \in D /\ \A d \in D : d <= Max(D)
    BY <2>2, MaxFact
  <2>5. Max(D) \in 0..t /\ t <= Max(D)
    BY <2>2, <2>4
  <2>6. QED BY <2>1, <2>3, <2>5
<1>5. QED BY <1>2, <1>3, <1>4

(* An idea that came since another came last, and comes again.             *)
LEMMA ComesAgain ==
  ASSUME IdeaInv, NEW x \in SentIdeas, NEW i \in SentIdeas, i # x, SentIdeas = Ideas,
         Cardinality(OlderThan(x)) < OldestWindow, x \in Tagged \/ OlderThan(x) = {},
         Since(i, x) # {},
         NEW A, A = {k \in Ideas \ {i} : \A s \in sends : s.idea = k => s.day <= LastSent(i)}
  PROVE  /\ x \in Tagged
         /\ Cardinality(A) + 2 <= OldestWindow
         /\ Cardinality(Since(i, x)) >= 2 => Cardinality(A) + 1 <= Cardinality(AheadThen(i, x))
<1>1. IdeaTypeInv
  BY DEF IdeaInv
<1>2. LastSent(i) < LastSent(x) /\ LastSent(i) \in Nat /\ LastSent(x) \in Nat
  <2>1. LastSent(i) \in Nat /\ LastSent(x) \in Nat
    BY <1>1, LastSentFact
  <2>2. PICK s \in sends : s.idea = x /\ s.day > LastSent(i)
    BY DEF Since
  <2>3. s.day \in Nat /\ s.day <= LastSent(x)
    BY <1>1, <2>2, LastSentFact DEF IdeaTypeInv
  <2>4. QED BY <2>1, <2>2, <2>3
<1>3. i \in OlderThan(x) /\ x \in Tagged
  BY <1>2 DEF OlderThan
<1>4. \A k \in Ideas : LastSent(k) \in Nat
  BY <1>1, LastSentFact
<1>5. A \subseteq OlderThan(x) \ {i}
  <2> SUFFICES ASSUME NEW k \in A PROVE LastSent(k) < LastSent(x)
    BY DEF OlderThan
  <2>1. PICK s \in sends : s.idea = k /\ s.day = LastSent(k)
    BY <1>1, LastSentFact
  <2>2. LastSent(k) <= LastSent(i)
    BY <2>1
  <2>3. QED BY <1>2, <1>4, <2>2
<1>6. /\ IsFiniteSet(OlderThan(x)) /\ Cardinality(OlderThan(x)) \in Nat
      /\ IsFiniteSet(A) /\ Cardinality(A) \in Nat
  BY IdeasFact, FS_Subset, FS_CardinalityType DEF OlderThan
<1>7. Cardinality(A) + 2 <= OldestWindow
  <2>1. Cardinality(A \cup {i}) = Cardinality(A) + 1
    BY <1>5, <1>6, FS_AddElement
  <2>2. Cardinality(A \cup {i}) <= Cardinality(OlderThan(x))
    BY <1>3, <1>5, <1>6, FS_Subset
  <2>3. QED BY <1>6, <2>1, <2>2, IdeasFact
<1>8. ASSUME Cardinality(Since(i, x)) >= 2
      PROVE  Cardinality(A) + 1 <= Cardinality(AheadThen(i, x))
  <2>1. PICK u \in Ideas \ Tagged : u \notin OlderThan(x)
    <3>1. ~(Ideas \ Tagged \subseteq OlderThan(x))
      <4>1. ASSUME (Ideas \ Tagged) \subseteq OlderThan(x) PROVE FALSE
        <5>1. Cardinality(Ideas \ Tagged) <= Cardinality(OlderThan(x))
          BY <1>6, <4>1, FS_Subset
        <5>2. QED BY <1>6, <5>1, IdeasFact
      <4>2. QED BY <4>1
    <3>2. QED BY <3>1
  <2>2. u # x /\ u # i /\ LastSent(x) < LastSent(u)
    <3>1. u # x /\ u # i /\ LastSent(u) >= LastSent(x)
      BY <1>3, <1>4, <2>1 DEF OlderThan
    <3>2. LastSent(u) # LastSent(x)
      BY <1>1, <2>1, <3>1, LastDiffers
    <3>3. QED BY <1>4, <2>1, <3>1, <3>2
  <2>3. Cardinality(Since(i, u)) <= 1
    BY <2>1 DEF IdeaInv, WaitInv
  <2>4. PICK z \in sends : z.idea = u /\ z.day = LastSent(u)
    BY <1>1, <2>1, LastSentFact
  <2>5. z \in Since(i, u)
    BY <1>2, <1>4, <2>1, <2>2, <2>4 DEF Since
  <2>6. \A s \in Since(i, u) : s = z
    <3> SUFFICES ASSUME NEW s \in Since(i, u), s # z PROVE FALSE
      OBVIOUS
    <3>1. Since(i, u) \subseteq sends /\ IsFiniteSet(sends)
      BY <1>1 DEF Since, IdeaTypeInv
    <3>2. IsFiniteSet(Since(i, u)) /\ Cardinality(Since(i, u)) \in Nat
      BY <3>1, FS_Subset, FS_CardinalityType
    <3>3. Cardinality({s, z}) = 2
      <4>1. IsFiniteSet({z}) /\ Cardinality({z}) = 1
        BY FS_Singleton
      <4>2. s \notin {z} /\ {z} \cup {s} = {s, z}
        OBVIOUS
      <4>3. Cardinality({z} \cup {s}) = Cardinality({z}) + 1
        BY <4>1, <4>2, FS_AddElement
      <4>4. QED BY <4>1, <4>2, <4>3
    <3>4. Cardinality({s, z}) <= Cardinality(Since(i, u))
      BY <2>5, <3>2, FS_Subset
    <3>5. QED BY <2>3, <3>2, <3>3, <3>4
  <2>7. u \in AheadThen(i, x)
    <3> SUFFICES ASSUME NEW s \in sends, s.idea = u, ~(s.day <= LastSent(i))
                 PROVE  s.day > LastSent(x)
      BY <2>1, <2>2 DEF AheadThen
    <3>1. s.day \in Nat
      BY <1>1 DEF IdeaTypeInv
    <3>2. s = z
      BY <1>2, <2>6, <3>1 DEF Since
    <3>3. QED BY <1>2, <1>4, <2>1, <2>2, <2>4, <3>1, <3>2
  <2>8. u \notin A
    BY <1>2, <1>4, <2>1, <2>2, <2>4
  <2>9. A \subseteq AheadThen(i, x)
    BY DEF AheadThen
  <2>10. IsFiniteSet(AheadThen(i, x)) /\ Cardinality(AheadThen(i, x)) \in Nat
    BY IdeasFact, FS_Subset, FS_CardinalityType DEF AheadThen
  <2>11. Cardinality(A \cup {u}) = Cardinality(A) + 1
    BY <1>6, <2>8, FS_AddElement
  <2>12. Cardinality(A \cup {u}) <= Cardinality(AheadThen(i, x))
    BY <2>7, <2>9, <2>10, FS_Subset
  <2>13. QED BY <2>11, <2>12
<1>9. QED BY <1>3, <1>7, <1>8

LEMMA WaitStep ==
  ASSUME IdeaInv, NEW tags \in DayTags, NEW x, x = NextIdea(tags),
         sends' = sends \union {Entry(x)},
         NEW i \in SentIdeas', NEW j \in Ideas
  PROVE  WaitInv(i, j)'
<1>1. /\ IdeaTypeInv /\ x \in Ideas
      /\ x \in SentIdeas => /\ SentIdeas = Ideas
                            /\ Cardinality(OlderThan(x)) < OldestWindow
                            /\ x \in Tagged \/ OlderThan(x) = {}
  BY NextIdeaFact DEF IdeaInv
<1>2. /\ SentIdeas' = SentIdeas \union {x}
      /\ \A k \in SentIdeas : k # x => LastSent(k)' = LastSent(k)
      /\ LastSent(x)' = tradingDay
  BY <1>1, SendFacts
<1>3. /\ Entry(x).idea = x /\ Entry(x).day = tradingDay /\ tradingDay \in Nat
      /\ \A s \in sends : s.day \in Nat /\ s.day < tradingDay
  BY <1>1 DEF Entry, IdeaTypeInv
<1>4. \A k \in SentIdeas : LastSent(k) \in Nat /\ LastSent(k) < tradingDay
  <2>1. \A k \in SentIdeas : LastSent(k) \in 1..(tradingDay - 1)
    BY <1>1, LastSentFact
  <2>2. QED BY <1>3, <2>1
<1>5. CASE i = x
  <2>1. Since(i, j)' = {}
    <3>1. \A s \in sends' : ~(s.day > LastSent(i)')
      BY <1>2, <1>3, <1>5
    <3>2. QED BY <3>1 DEF Since
  <2>2. QED BY <2>1, FS_EmptySet DEF WaitInv
<1>6. CASE i # x /\ j # x
  <2>1. i \in SentIdeas /\ LastSent(i)' = LastSent(i) /\ WaitInv(i, j)
    BY <1>2, <1>6 DEF IdeaInv
  <2>2. Since(i, j)' = Since(i, j)
    BY <1>3, <1>6, <2>1 DEF Since
  <2>3. CASE j \in SentIdeas
    <3>1. LastSent(j)' = LastSent(j)
      BY <1>2, <1>6, <2>3
    <3>2. AheadThen(i, j)' = AheadThen(i, j)
      <4>1. Entry(x).day > LastSent(j)
        BY <1>3, <1>4, <2>3
      <4>2. QED BY <2>1, <3>1, <4>1 DEF AheadThen
    <3>3. QED BY <2>1, <2>2, <3>2 DEF WaitInv
  <2>4. CASE j \notin SentIdeas
    <3>1. Since(i, j) = {}
      BY <2>4 DEF Since, SentIdeas
    <3>2. QED BY <2>2, <3>1, FS_EmptySet DEF WaitInv
  <2>5. QED BY <2>3, <2>4
<1>7. CASE i # x /\ j = x
  <2>1. i \in SentIdeas /\ LastSent(i)' = LastSent(i) /\ WaitInv(i, x)
    BY <1>1, <1>2, <1>7 DEF IdeaInv
  <2>2. Since(i, x)' = Since(i, x) \cup {Entry(x)} /\ Entry(x) \notin Since(i, x)
    BY <1>3, <1>4, <2>1 DEF Since
  <2>3. IsFiniteSet(Since(i, x)) /\ Cardinality(Since(i, x)) \in Nat
    <3>1. Since(i, x) \subseteq sends /\ IsFiniteSet(sends)
      BY <1>1 DEF Since, IdeaTypeInv
    <3>2. QED BY <3>1, FS_Subset, FS_CardinalityType
  <2>4. Cardinality(Since(i, x)') = Cardinality(Since(i, x)) + 1
    BY <2>2, <2>3, FS_AddElement
  <2>5. CASE Since(i, x) = {}
    BY <2>3, <2>4, <2>5, <1>7, FS_EmptySet DEF WaitInv
  <2>6. CASE Since(i, x) # {}
    <3> DEFINE A == {k \in Ideas \ {i} : \A s \in sends : s.idea = k => s.day <= LastSent(i)}
    <3>1. x \in SentIdeas
      BY <2>6 DEF Since, SentIdeas
    <3>2. /\ x \in Tagged
          /\ Cardinality(A) + 2 <= OldestWindow
          /\ Cardinality(Since(i, x)) >= 2 => Cardinality(A) + 1 <= Cardinality(AheadThen(i, x))
      BY <1>1, <1>7, <2>1, <2>6, <3>1, ComesAgain
    <3>3. AheadThen(i, x)' \subseteq A
      <4> SUFFICES ASSUME NEW k \in AheadThen(i, x)', NEW s \in sends, s.idea = k
                   PROVE  s.day <= LastSent(i)
        BY DEF AheadThen
      <4>1. s.day <= LastSent(i)' \/ s.day > LastSent(x)'
        BY DEF AheadThen
      <4>2. QED BY <1>2, <1>3, <2>1, <4>1
    <3>4. IsFiniteSet(A) /\ Cardinality(A) \in Nat
      BY IdeasFact, FS_Subset, FS_CardinalityType
    <3>5. Cardinality(AheadThen(i, x)') <= Cardinality(A) /\ Cardinality(AheadThen(i, x)') \in Nat
      <4> HIDE DEF A
      <4>1. QED BY <3>3, <3>4, FS_Subset, FS_CardinalityType
    <3>6. Cardinality(Since(i, x)) >= 1
      <4>1. Cardinality(Since(i, x)) # 0
        BY <2>3, <2>6, FS_EmptySet
      <4>2. QED BY <2>3, <4>1
    <3>7. /\ Cardinality(AheadThen(i, x)) \in Nat /\ OldestWindow \in Nat
          /\ Cardinality(Since(i, x)) >= 2 =>
               Cardinality(AheadThen(i, x)) + Cardinality(Since(i, x)) <= OldestWindow
      <4>1. Cardinality(AheadThen(i, x)) \in Nat
        BY IdeasFact, FS_Subset, FS_CardinalityType DEF AheadThen
      <4>2. QED BY <2>1, <4>1, IdeasFact DEF WaitInv
    <3> HIDE DEF A
    <3>8. Cardinality(AheadThen(i, x)') + Cardinality(Since(i, x)') <= OldestWindow
      BY <2>3, <2>4, <3>2, <3>4, <3>5, <3>6, <3>7
    <3>9. QED BY <1>7, <3>2, <3>8 DEF WaitInv
  <2>7. QED BY <2>5, <2>6
<1>8. QED BY <1>5, <1>6, <1>7

LEMMA BasicsStep ==
  ASSUME IdeaInv, NEW tags \in DayTags, NEW x, x = NextIdea(tags),
         sends' = sends \union {Entry(x)}
  PROVE  BasicsInv' /\ FirstRound'
<1> DEFINE c == Cardinality(SentIdeas)
<1>1. /\ IdeaTypeInv /\ x \in Ideas /\ BasicsInv /\ FirstRound
      /\ x \notin SentIdeas /\ c < FOUNDATION => x = c + 1
      /\ x \in SentIdeas => SentIdeas = Ideas
  BY NextIdeaFact DEF IdeaInv
<1>2. SentIdeas' = SentIdeas \union {x}
  BY <1>1, SendFacts
<1>3. SentIdeas \subseteq Ideas /\ IsFiniteSet(SentIdeas) /\ c \in Nat
  <2>1. SentIdeas \subseteq Ideas
    BY <1>1 DEF SentIdeas, IdeaTypeInv
  <2>2. QED BY <2>1, IdeasFact, FS_Subset, FS_CardinalityType
<1>4. /\ Entry(x).idea = x /\ Entry(x).day = tradingDay /\ tradingDay \in Nat
      /\ \A s \in sends : s.day \in Nat /\ s.day < tradingDay
  BY <1>1 DEF Entry, IdeaTypeInv
<1>5. Cardinality(SentIdeas') = IF x \in SentIdeas THEN c ELSE c + 1
  BY <1>2, <1>3, FS_AddElement
<1>6. c < FOUNDATION => x = c + 1 /\ SentIdeas = 1..c /\ x \notin SentIdeas
  <2> SUFFICES ASSUME c < FOUNDATION PROVE x = c + 1 /\ SentIdeas = 1..c /\ x \notin SentIdeas
    OBVIOUS
  <2>1. SentIdeas = 1..c
    BY <1>1, <1>3, IdeasFact DEF BasicsInv
  <2>2. x \notin SentIdeas
    <3> SUFFICES ASSUME x \in SentIdeas PROVE FALSE
      OBVIOUS
    <3>1. c = Cardinality(Ideas)
      BY <1>1
    <3>2. QED BY <1>3, <3>1, IdeasFact
  <2>3. QED BY <1>1, <2>1, <2>2
<1>7. BasicsInv'
  <2> SUFFICES ASSUME Cardinality(SentIdeas') <= FOUNDATION
               PROVE  SentIdeas' = 1..Cardinality(SentIdeas')
    BY DEF BasicsInv
  <2>1. CASE x \in SentIdeas
    BY <1>1, <1>2, <1>3, <1>5, <2>1, IdeasFact
  <2>2. CASE x \notin SentIdeas
    <3>1. c < FOUNDATION
      BY <1>3, <1>5, <2>2, IdeasFact
    <3>2. PICK k \in Nat : k = c
      BY <1>3
    <3>3. SentIdeas' = (1..k) \union {k + 1} /\ Cardinality(SentIdeas') = k + 1
      BY <1>2, <1>5, <1>6, <2>2, <3>1, <3>2
    <3>4. (1..k) \union {k + 1} = 1..(k + 1)
      OBVIOUS
    <3>5. QED BY <3>3, <3>4
  <2>3. QED BY <2>1, <2>2
<1>8. FirstRound'
  <2> SUFFICES ASSUME NEW s \in sends',
                      NEW b, b = {y.idea : y \in {z \in sends' : z.day < s.day}}
               PROVE  /\ Cardinality(b) < FOUNDATION => s.idea = Cardinality(b) + 1
                      /\ s.idea \in b => b = Ideas
    BY DEF FirstRound, Ideas
  <2>1. CASE s \in sends
    <3>1. b = {y.idea : y \in {z \in sends : z.day < s.day}}
      BY <1>4, <2>1
    <3>2. QED BY <1>1, <2>1, <3>1 DEF FirstRound
  <2>2. CASE s = Entry(x)
    <3>1. b = SentIdeas
      <4>1. {z \in sends' : z.day < tradingDay} = sends
        BY <1>4
      <4>2. QED BY <1>4, <2>2, <4>1 DEF SentIdeas
    <3>2. QED BY <1>1, <1>4, <1>6, <2>2, <3>1
  <2>3. QED BY <2>1, <2>2
<1>9. QED BY <1>7, <1>8

LEMMA RepeatStep ==
  ASSUME IdeaInv, NEW tags \in DayTags, NEW x, x = NextIdea(tags),
         sends' \in {sends, sends \union {Entry(x)}},
         mails' \in {mails, mails \union {Entry(x)}}
  PROVE  NoEarlyRepeat'
<1>1. /\ IdeaTypeInv /\ x \in Ideas /\ NoEarlyRepeat
      /\ x \in SentIdeas => SentIdeas = Ideas /\ Cardinality(OlderThan(x)) < OldestWindow
  BY NextIdeaFact DEF IdeaInv
<1>2. /\ Entry(x).idea = x /\ Entry(x).day = tradingDay /\ tradingDay \in Nat
      /\ \A s \in sends \union mails : s.day \in Nat /\ s.day < tradingDay
  BY <1>1 DEF Entry, IdeaTypeInv
<1> SUFFICES ASSUME NEW m \in mails', NEW n \in mails', m.idea = n.idea, m.day < n.day,
                    m \in sends'
             PROVE  Cardinality(Between(m.day, n.day)') >= Cardinality(Ideas) - OldestWindow
  BY DEF NoEarlyRepeat, Between, Ideas
<1>3. n = Entry(x) \/ n \in mails
  OBVIOUS
<1>4. n.day <= tradingDay /\ n.day \in Nat
  BY <1>2, <1>3
<1>5. m # Entry(x)
  BY <1>2, <1>4
<1>6. m \in sends /\ m \in mails
  BY <1>5
<1>7. CASE n \in mails
  <2>1. {s \in sends' : m.day < s.day /\ s.day < n.day} = {s \in sends : m.day < s.day /\ s.day < n.day}
    BY <1>2, <1>7
  <2>2. Between(m.day, n.day)' = Between(m.day, n.day)
    BY <2>1 DEF Between
  <2>3. QED BY <1>1, <1>6, <1>7, <2>2 DEF NoEarlyRepeat
<1>8. CASE n = Entry(x)
  <2> DEFINE B == {s.idea : s \in {z \in sends : m.day < z.day}}
  <2>1. n.day = tradingDay /\ m.idea = x /\ x \in SentIdeas
    BY <1>2, <1>6, <1>8 DEF SentIdeas
  <2>2. {s \in sends' : m.day < s.day /\ s.day < n.day} = {z \in sends : m.day < z.day}
    BY <1>2, <2>1
  <2>3. Between(m.day, n.day)' = B
    BY <2>2 DEF Between
  <2>4. B \subseteq Ideas
    BY <1>1 DEF IdeaTypeInv
  <2>5. Ideas \subseteq (B \union OlderThan(x)) \union {x}
    <3> SUFFICES ASSUME NEW k \in Ideas, k # x, k \notin OlderThan(x) PROVE k \in B
      OBVIOUS
    <3>1. k \in SentIdeas /\ LastSent(k) \in Nat /\ LastSent(x) \in Nat /\ m.day <= LastSent(x)
      BY <1>1, <1>6, <2>1, LastSentFact
    <3>2. LastSent(k) # LastSent(x)
      BY <1>1, <2>1, <3>1, LastDiffers
    <3>3. LastSent(k) > LastSent(x)
      BY <3>1, <3>2 DEF OlderThan
    <3>4. PICK s \in sends : s.idea = k /\ s.day = LastSent(k)
      BY <1>1, <3>1, LastSentFact
    <3>5. m.day < s.day
      BY <1>2, <1>6, <3>1, <3>3, <3>4
    <3>6. QED BY <3>4, <3>5
  <2> HIDE DEF B
  <2>6. /\ IsFiniteSet(B) /\ Cardinality(B) \in Nat
        /\ IsFiniteSet(OlderThan(x)) /\ Cardinality(OlderThan(x)) \in Nat
    <3>1. OlderThan(x) \subseteq Ideas
      BY DEF OlderThan
    <3>2. QED BY <2>4, <3>1, IdeasFact, FS_Subset, FS_CardinalityType
  <2>7. /\ IsFiniteSet(B \union OlderThan(x))
        /\ Cardinality(B \union OlderThan(x)) \in Nat
        /\ Cardinality(B \union OlderThan(x)) <= Cardinality(B) + Cardinality(OlderThan(x))
    <3>1. /\ IsFiniteSet(B \union OlderThan(x))
          /\ Cardinality(B \union OlderThan(x)) =
               Cardinality(B) + Cardinality(OlderThan(x)) - Cardinality(B \cap OlderThan(x))
      BY <2>6, FS_Union
    <3>2. Cardinality(B \cap OlderThan(x)) \in Nat
      BY <2>6, FS_Subset, FS_CardinalityType
    <3>3. Cardinality(B \union OlderThan(x)) \in Nat
      BY <3>1, FS_CardinalityType
    <3>4. QED BY <2>6, <3>1, <3>2, <3>3
  <2> DEFINE U == B \union OlderThan(x)
             V == U \union {x}
  <2>8. /\ IsFiniteSet(V) /\ Cardinality(V) \in Nat
        /\ Cardinality(V) <= Cardinality(U) + 1
    <3>1. IsFiniteSet(U) /\ Cardinality(U) \in Nat
      BY <2>7
    <3> HIDE DEF U
    <3>2. IsFiniteSet(V) /\ Cardinality(V) = IF x \in U THEN Cardinality(U) ELSE Cardinality(U) + 1
      BY <3>1, FS_AddElement
    <3>3. QED BY <3>1, <3>2
  <2>9. Cardinality(Ideas) <= Cardinality(V)
    <3>1. Ideas \subseteq V
      BY <2>5
    <3> HIDE DEF V
    <3>2. QED BY <2>8, <3>1, FS_Subset
  <2>10. Cardinality(OlderThan(x)) < OldestWindow
    BY <1>1, <2>1
  <2>11. Cardinality(B) >= Cardinality(Ideas) - OldestWindow
    <3> HIDE DEF V
    <3>1. QED BY <2>6, <2>7, <2>8, <2>9, <2>10, IdeasFact
  <2>12. QED BY <2>3, <2>11
<1>9. QED BY <1>3, <1>7, <1>8

LEMMA IdeaLimits == MaxTradingDay \in Nat \ {0} /\ MaxLost \in Nat
BY MoneyIdeasAssumption, Zenon

LEMMA IdeaStep == IdeaInv /\ [RecapWithIdea]_ideaVars => IdeaInv'
<1> SUFFICES ASSUME IdeaInv, [RecapWithIdea]_ideaVars PROVE IdeaInv'
  OBVIOUS
<1>1. CASE UNCHANGED ideaVars
  <2>1. IdeaTypeInv' /\ SentIdeas' = SentIdeas
    BY <1>1 DEF ideaVars, IdeaInv, IdeaTypeInv, SentIdeas
  <2>2. /\ \A i : LastSent(i)' = LastSent(i)
        /\ \A i, j : Since(i, j)' = Since(i, j) /\ AheadThen(i, j)' = AheadThen(i, j)
    BY <1>1 DEF ideaVars, LastSent, Since, AheadThen
  <2>3. BasicsInv' /\ \A i \in SentIdeas', j \in Ideas : WaitInv(i, j)'
    BY <2>1, <2>2 DEF IdeaInv, BasicsInv, WaitInv
  <2>4. FirstRound' /\ NoEarlyRepeat'
    BY <1>1 DEF ideaVars, IdeaInv, FirstRound, NoEarlyRepeat, Between
  <2>5. QED BY <2>1, <2>3, <2>4 DEF IdeaInv, Ideas
<1>2. CASE RecapWithIdea
  <2>1. PICK tags \in DayTags, x \in {NextIdea(t) : t \in DayTags} :
          /\ x = NextIdea(tags)
          /\ \/ sends' = sends \union {Entry(x)} /\ mails' = mails \union {Entry(x)} /\ lost' = lost
             \/ /\ lost < MaxLost /\ lost' = lost + 1
                /\ \/ sends' = sends \union {Entry(x)} /\ mails' = mails
                   \/ mails' = mails \union {Entry(x)} /\ sends' = sends
    BY <1>2 DEF RecapWithIdea, Entry
  <2>2. tradingDay < MaxTradingDay /\ tradingDay' = tradingDay + 1
    BY <1>2 DEF RecapWithIdea
  <2>3. IdeaTypeInv /\ x \in Ideas
    BY <2>1, NextIdeaFact DEF IdeaInv
  <2>4. PICK t \in Nat, b \in Nat :
          t = tradingDay /\ t > 0 /\ b = MaxTradingDay /\ t < b /\ tradingDay' = t + 1
    <3>1. tradingDay \in Nat /\ tradingDay > 0 /\ MaxTradingDay \in Nat
      BY <2>3, IdeaLimits DEF IdeaTypeInv
    <3>2. QED BY <2>2, <3>1
  <2>5. IdeaTypeInv'
    <3>1. Entry(x) \in [idea : Ideas, day : 1..(tradingDay' - 1)] /\ Entry(x).day = tradingDay
      BY <2>2, <2>3 DEF Entry, IdeaTypeInv
    <3>2. /\ sends \subseteq [idea : Ideas, day : 1..(tradingDay' - 1)]
          /\ mails \subseteq [idea : Ideas, day : 1..(tradingDay' - 1)]
          /\ \A s \in sends : s.day < tradingDay
      <4>1. 1..(t - 1) \subseteq 1..(t + 1 - 1) /\ \A d \in 1..(t - 1) : d < t
        OBVIOUS
      <4>2. QED BY <2>3, <2>4, <4>1 DEF IdeaTypeInv
    <3>7. tradingDay' \in 1..MaxTradingDay
      <4>1. t + 1 \in 1..b
        BY <2>4
      <4>2. QED BY <2>4, <4>1
    <3>8. lost' \in 0..MaxLost
      BY <2>1, <2>3, IdeaLimits DEF IdeaTypeInv
    <3>3. IsFiniteSet(sends \union {Entry(x)}) /\ IsFiniteSet(sends)
      BY <2>3, FS_AddElement DEF IdeaTypeInv
    <3>4. sends' \in {sends, sends \union {Entry(x)}} /\ mails' \in {mails, mails \union {Entry(x)}}
      BY <2>1
    <3>5. \A s, z \in sends' : s.day = z.day => s = z
      BY <2>3, <3>1, <3>2, <3>4 DEF IdeaTypeInv
    <3>6. QED BY <3>1, <3>2, <3>3, <3>4, <3>5, <3>7, <3>8 DEF IdeaTypeInv, Ideas
  <2>6. NoEarlyRepeat'
    <3>1. sends' \in {sends, sends \union {Entry(x)}} /\ mails' \in {mails, mails \union {Entry(x)}}
      BY <2>1
    <3>2. QED BY <2>1, <3>1, RepeatStep
  <2>7. CASE sends' = sends \union {Entry(x)}
    <3>1. BasicsInv' /\ FirstRound'
      BY <2>1, <2>7, BasicsStep
    <3>2. \A i \in SentIdeas', j \in Ideas : WaitInv(i, j)'
      BY <2>1, <2>7, WaitStep
    <3>3. QED BY <2>5, <2>6, <3>1, <3>2 DEF IdeaInv, Ideas
  <2>8. CASE sends' = sends
    <3>1. SentIdeas' = SentIdeas
      BY <2>8 DEF SentIdeas
    <3>2. /\ \A i : LastSent(i)' = LastSent(i)
          /\ \A i, j : Since(i, j)' = Since(i, j) /\ AheadThen(i, j)' = AheadThen(i, j)
      BY <2>8 DEF LastSent, Since, AheadThen
    <3>3. BasicsInv' /\ \A i \in SentIdeas', j \in Ideas : WaitInv(i, j)'
      BY <3>1, <3>2 DEF IdeaInv, BasicsInv, WaitInv
    <3>4. FirstRound'
      BY <2>8 DEF IdeaInv, FirstRound
    <3>5. QED BY <2>5, <2>6, <3>3, <3>4 DEF IdeaInv, Ideas
  <2>9. QED BY <2>1, <2>7, <2>8
<1>3. QED BY <1>1, <1>2

LEMMA IdeaStart == IdeaInit => IdeaInv
<1> SUFFICES ASSUME IdeaInit PROVE IdeaInv
  OBVIOUS
<1>1. IdeaTypeInv
  <2>1. 1 \in 1..MaxTradingDay /\ 0 \in 0..MaxLost
    BY IdeaLimits
  <2>2. QED BY <2>1, FS_EmptySet DEF IdeaInit, IdeaTypeInv
<1>2. SentIdeas = {} /\ Cardinality(SentIdeas) = 0 /\ SentIdeas = 1..0
  BY FS_EmptySet DEF IdeaInit, SentIdeas
<1>3. BasicsInv
  BY <1>2 DEF BasicsInv
<1>4. FirstRound /\ NoEarlyRepeat
  BY DEF IdeaInit, FirstRound, NoEarlyRepeat
<1>5. QED BY <1>1, <1>2, <1>3, <1>4 DEF IdeaInv

LEMMA IdeaAlways == IdeaSpec => []IdeaInv
BY IdeaStart, IdeaStep, PTL DEF IdeaSpec

(* The days, the rows and the emails keep within what they can be.         *)
THEOREM IdeaTypeCorrect == IdeaSpec => []IdeaTypeOK
<1>1. ASSUME IdeaInv PROVE IdeaTypeOK
  <2>1. 1..(tradingDay - 1) \subseteq 1..MaxTradingDay
    <3>1. MaxTradingDay \in Nat /\ tradingDay \in 1..MaxTradingDay
      BY <1>1, IdeaLimits DEF IdeaInv, IdeaTypeInv
    <3>2. QED BY <3>1
  <2>2. QED BY <1>1, <2>1 DEF IdeaInv, IdeaTypeInv, IdeaTypeOK
<1>2. QED BY <1>1, IdeaAlways, PTL

(* The emails since idea i came last, of the first n ideas.                *)
SinceUpTo(i, n) == {s \in sends : s.day > LastSent(i) /\ s.idea \in 1..n}

LEMMA EmailsSince ==
  ASSUME IdeaInv, NEW i \in SentIdeas, SentIdeas = Ideas, NEW K, K = OldestWindow - 1
  PROVE  \A n \in Nat : n <= Cardinality(Ideas) =>
           /\ IsFiniteSet(SinceUpTo(i, n)) /\ IsFiniteSet(Tagged \cap 1..n)
           /\ Cardinality(SinceUpTo(i, n)) <=
                (IF i <= n THEN n - 1 ELSE n) + K * Cardinality(Tagged \cap 1..n)
<1> DEFINE Good(n) == /\ IsFiniteSet(SinceUpTo(i, n)) /\ IsFiniteSet(Tagged \cap 1..n)
                      /\ Cardinality(SinceUpTo(i, n)) <=
                           (IF i <= n THEN n - 1 ELSE n) + K * Cardinality(Tagged \cap 1..n)
           S == {n \in Nat : n <= Cardinality(Ideas) => Good(n)}
<1>1. IdeaTypeInv /\ K \in Nat /\ i \in Nat \ {0} /\ Ideas = 1..Cardinality(Ideas) /\ Cardinality(Ideas) \in Nat
  BY IdeasFact DEF IdeaInv
<1>2. 0 \in S
  <2>1. SinceUpTo(i, 0) = {} /\ Tagged \cap 1..0 = {}
    <3>1. 1..0 = {}
      OBVIOUS
    <3>2. QED BY <3>1 DEF SinceUpTo
  <2>2. Cardinality(SinceUpTo(i, 0)) = 0 /\ Cardinality(Tagged \cap 1..0) = 0
    BY <2>1, FS_EmptySet
  <2>3. IsFiniteSet(SinceUpTo(i, 0)) /\ IsFiniteSet(Tagged \cap 1..0)
    BY <2>1, FS_EmptySet
  <2>4. Good(0)
    BY <1>1, <2>2, <2>3
  <2> HIDE DEF Good
  <2>5. QED BY <2>4
<1>3. ASSUME NEW n \in Nat, n \in S PROVE n + 1 \in S
  <2> SUFFICES ASSUME n + 1 <= Cardinality(Ideas) PROVE Good(n + 1)
    BY DEF S
  <2> DEFINE j == n + 1
             T0 == SinceUpTo(i, n)
             G0 == Tagged \cap 1..n
  <2>1. j \in Ideas /\ j \in Nat /\ n <= Cardinality(Ideas)
    BY <1>1
  <2>2. Good(n)
    BY <1>3, <2>1, <1>1
  <2>3. SinceUpTo(i, j) = T0 \union Since(i, j) /\ T0 \cap Since(i, j) = {}
    <3>1. \A k : k \in 1..j <=> k \in 1..n \/ k = j
      OBVIOUS
    <3>2. j \notin 1..n
      OBVIOUS
    <3> HIDE DEF j
    <3>3. QED BY <3>1, <3>2 DEF SinceUpTo, Since
  <2>4. IsFiniteSet(Since(i, j)) /\ Cardinality(Since(i, j)) \in Nat
    <3>1. Since(i, j) \subseteq sends /\ IsFiniteSet(sends)
      BY <1>1 DEF Since, IdeaTypeInv
    <3> HIDE DEF j
    <3>2. QED BY <3>1, FS_Subset, FS_CardinalityType
  <2>5. IsFiniteSet(T0) /\ Cardinality(T0) \in Nat /\ IsFiniteSet(G0) /\ Cardinality(G0) \in Nat
    BY <2>2, FS_CardinalityType
  <2>6. /\ IsFiniteSet(SinceUpTo(i, j))
        /\ Cardinality(SinceUpTo(i, j)) = Cardinality(T0) + Cardinality(Since(i, j))
    <3> HIDE DEF j, T0
    <3>1. /\ IsFiniteSet(T0 \union Since(i, j))
          /\ Cardinality(T0 \union Since(i, j)) =
               Cardinality(T0) + Cardinality(Since(i, j)) - Cardinality(T0 \cap Since(i, j))
      BY <2>4, <2>5, FS_Union
    <3>2. Cardinality(T0 \cap Since(i, j)) = 0
      BY <2>3, FS_EmptySet
    <3>3. QED BY <2>3, <2>4, <2>5, <3>1, <3>2
  <2>7. /\ IsFiniteSet(Tagged \cap 1..j)
        /\ Cardinality(Tagged \cap 1..j) = IF j \in Tagged THEN Cardinality(G0) + 1 ELSE Cardinality(G0)
    <3>1. 1..j = (1..n) \union {j} /\ j \notin 1..n
      OBVIOUS
    <3> HIDE DEF j
    <3>2. Tagged \cap 1..j = IF j \in Tagged THEN G0 \union {j} ELSE G0
      BY <3>1
    <3>3. j \notin G0
      BY <3>1
    <3> HIDE DEF G0
    <3>4. IsFiniteSet(G0 \union {j}) /\ Cardinality(G0 \union {j}) = Cardinality(G0) + 1
      BY <2>5, <3>3, FS_AddElement
    <3>5. QED BY <2>5, <3>2, <3>4
  <2>8. /\ i = j => Cardinality(Since(i, j)) = 0
        /\ j \notin Tagged => Cardinality(Since(i, j)) <= 1
        /\ j \in Tagged => Cardinality(Since(i, j)) <= 1 + K
    <3>1. WaitInv(i, j)
      BY <2>1 DEF IdeaInv
    <3>2. Cardinality(AheadThen(i, j)) \in Nat
      BY IdeasFact, FS_Subset, FS_CardinalityType DEF AheadThen
    <3>3. i = j => Since(i, j) = {}
      <4> SUFFICES ASSUME i = j, NEW s \in Since(i, j) PROVE FALSE
        OBVIOUS
      <4>1. s \in sends /\ s.idea = i /\ s.day > LastSent(i)
        BY DEF Since
      <4>2. s.day <= LastSent(i) /\ LastSent(i) \in Nat /\ s.day \in Nat
        BY <1>1, <4>1, LastSentFact DEF IdeaTypeInv
      <4>3. QED BY <4>1, <4>2
    <3>4. OldestWindow \in Nat \ {0}
      BY IdeasFact
    <3> HIDE DEF j
    <3>5. j \in Tagged => Cardinality(Since(i, j)) <= 1 + K
      BY <2>4, <3>1, <3>2, <3>4 DEF WaitInv
    <3>6. QED BY <3>1, <3>3, <3>5, FS_EmptySet DEF WaitInv
  <2>9. PICK a \in Nat, c \in Nat, g \in Nat :
          /\ a = Cardinality(T0) /\ c = Cardinality(Since(i, j)) /\ g = Cardinality(G0)
    BY <2>4, <2>5
  <2>10. a <= (IF i <= n THEN n - 1 ELSE n) + K * g
    BY <2>2, <2>9
  <2>11. K * (g + 1) = K * g + K /\ K * g \in Nat
    BY <1>1
  <2>12. PICK w \in Nat : w = K * g
    BY <2>11
  <2>13. K * (IF j \in Tagged THEN g + 1 ELSE g) = IF j \in Tagged THEN w + K ELSE w
    BY <2>11, <2>12
  <2>14. a + c <= (IF i <= j THEN j - 1 ELSE j) + (IF j \in Tagged THEN w + K ELSE w)
    <3>1. /\ i = j => c = 0
          /\ j \notin Tagged => c <= 1
          /\ j \in Tagged => c <= 1 + K
      BY <2>8, <2>9
    <3>2. a <= (IF i <= n THEN n - 1 ELSE n) + w
      BY <2>10, <2>12
    <3>3. CASE j \in Tagged
      BY <1>1, <3>1, <3>2, <3>3
    <3>4. CASE j \notin Tagged
      BY <1>1, <3>1, <3>2, <3>4
    <3>5. QED BY <3>3, <3>4
  <2>15. Cardinality(SinceUpTo(i, j)) <=
           (IF i <= j THEN j - 1 ELSE j) + K * Cardinality(Tagged \cap 1..j)
    <3> HIDE DEF j, T0, G0
    <3>1. Cardinality(Tagged \cap 1..j) = IF j \in Tagged THEN g + 1 ELSE g
      BY <2>7, <2>9
    <3>2. Cardinality(SinceUpTo(i, j)) = a + c
      BY <2>6, <2>9
    <3>3. QED BY <2>13, <2>14, <3>1, <3>2
  <2>16. QED BY <2>6, <2>7, <2>15
<1>4. \A n \in Nat : n \in S
  <2> HIDE DEF S
  <2>1. QED BY <1>2, <1>3, SetInduction
<1>5. QED BY <1>4

(* However the days fall and whatever row is lost, next_idea sends the     *)
(* basics in order, none again too early, and none is left out for long.   *)
THEOREM EveryIdeaHasItsTurn == IdeaSpec => []IdeasTakeTurns
<1>1. ASSUME IdeaInv PROVE NobodySkipped
  <2> SUFFICES ASSUME SentIdeas = Ideas, NEW i \in Ideas
               PROVE  Cardinality({s \in sends : s.day > LastSent(i)}) <
                        Cardinality(Ideas) + (OldestWindow - 1) * Cardinality(Tagged)
    BY DEF NobodySkipped
  <2>1. PICK n \in Nat, K \in Nat, g \in Nat :
          /\ n = Cardinality(Ideas) /\ Ideas = 1..n /\ K = OldestWindow - 1
          /\ g = Cardinality(Tagged) /\ Tagged \subseteq 1..n
    <3>1. /\ Cardinality(Ideas) \in Nat /\ Ideas = 1..Cardinality(Ideas)
          /\ OldestWindow - 1 \in Nat /\ Cardinality(Tagged) \in Nat /\ Tagged \subseteq Ideas
      BY IdeasFact
    <3>2. QED BY <3>1
  <2>2. Cardinality(SinceUpTo(i, n)) <=
          (IF i <= n THEN n - 1 ELSE n) + K * Cardinality(Tagged \cap 1..n)
    <3>1. i \in SentIdeas
      OBVIOUS
    <3>2. \A k \in Nat : k <= Cardinality(Ideas) =>
            /\ IsFiniteSet(SinceUpTo(i, k)) /\ IsFiniteSet(Tagged \cap 1..k)
            /\ Cardinality(SinceUpTo(i, k)) <=
                 (IF i <= k THEN k - 1 ELSE k) + K * Cardinality(Tagged \cap 1..k)
      BY <1>1, <2>1, <3>1, EmailsSince
    <3>3. n <= Cardinality(Ideas)
      BY <2>1
    <3>4. QED BY <3>2, <3>3
  <2>3. Tagged \cap 1..n = Tagged
    <3>1. Tagged \subseteq 1..n
      BY <2>1
    <3>2. QED BY <3>1, Zenon
  <2>4. SinceUpTo(i, n) = {s \in sends : s.day > LastSent(i)}
    BY <1>1, <2>1 DEF SinceUpTo, IdeaInv, IdeaTypeInv
  <2>5. i \in Nat /\ i <= n /\ K * g \in Nat
    <3>1. i \in 1..n
      BY <2>1, Zenon
    <3>2. K * g \in Nat
      BY SMT
    <3>3. QED BY <3>1, <3>2
  <2>6. PICK w \in Nat : w = K * g
    BY <2>5
  <2>7. SinceUpTo(i, n) \subseteq sends /\ IsFiniteSet(sends)
    BY <1>1 DEF SinceUpTo, IdeaInv, IdeaTypeInv
  <2>8. Cardinality(SinceUpTo(i, n)) \in Nat
    BY <2>7, FS_Subset, FS_CardinalityType
  <2>9. Cardinality(SinceUpTo(i, n)) < n + w
    <3>1. PICK z \in Nat : z = Cardinality(SinceUpTo(i, n))
      BY <2>8
    <3>2. z <= n - 1 + w
      BY <2>1, <2>2, <2>3, <2>5, <2>6, <3>1
    <3>3. QED BY <3>1, <3>2
  <2>10. QED BY <2>1, <2>4, <2>6, <2>9
<1>2. ASSUME IdeaInv PROVE IdeasTakeTurns
  BY <1>1, <1>2 DEF IdeaInv, IdeasTakeTurns
<1>3. QED BY <1>2, IdeaAlways, PTL

-----------------------------------------------------------------------------
(* AlertRows.                                                              *)

AlertRowsInv ==
  /\ logs \in [AlertPairs -> Seq(AlertReasons \cup {"not recorded"})]
  /\ queue \in [AlertPairs -> Seq(AlertReasons \cup {"send_failed"})]
  /\ \A p \in AlertPairs : Len(logs[p]) <= MaxAlerts /\ Len(queue[p]) <= MaxAlerts
  /\ story \in [AlertPairs -> StoryStatuses]

(* One more row of a pair that has not reached the bound.                  *)
LEMMA OneMore ==
  ASSUME NEW P, NEW R, NEW rows \in [P -> Seq(R)], NEW new, NEW p \in P, NEW r \in R,
         MaxAlerts \in Nat, Len(rows[p]) < MaxAlerts,
         \A q \in P : Len(rows[q]) <= MaxAlerts,
         new = [rows EXCEPT ![p] = Append(rows[p], r)]
  PROVE  new \in [P -> Seq(R)] /\ \A q \in P : Len(new[q]) <= MaxAlerts
<1>1. Append(rows[p], r) \in Seq(R) /\ Len(Append(rows[p], r)) = Len(rows[p]) + 1
  BY AppendProperties
<1>2. Len(rows[p]) \in Nat
  BY LenProperties
<1>3. Len(rows[p]) + 1 <= MaxAlerts
  BY <1>2
<1>4. new \in [P -> Seq(R)]
  BY <1>1
<1>5. ASSUME NEW q \in P PROVE Len(new[q]) <= MaxAlerts
  BY <1>1, <1>3
<1>6. QED BY <1>4, <1>5

LEMMA AlertRowsStep == AlertRowsInv /\ [AlertNext]_alertVars => AlertRowsInv'
<1> SUFFICES ASSUME AlertRowsInv, [AlertNext]_alertVars PROVE AlertRowsInv'
  OBVIOUS
<1>1. MaxAlerts \in Nat
  BY AlertRowsAssumption
<1>2. CASE UNCHANGED alertVars
  BY <1>2 DEF alertVars, AlertRowsInv
<1>3. ASSUME NEW p \in AlertPairs,
             IntradayAlert(p) \/ IntradayAlertFails(p) \/ BatchAlert(p)
      PROVE  AlertRowsInv'
  <2>1. \/ logs' = logs
        \/ /\ Len(logs[p]) < MaxAlerts
           /\ \E r \in AlertReasons \cup {"not recorded"} :
                logs' = [logs EXCEPT ![p] = Append(logs[p], r)]
    BY <1>3 DEF IntradayAlert, IntradayAlertFails, BatchAlert
  <2>2. \/ queue' = queue
        \/ /\ Len(queue[p]) < MaxAlerts
           /\ \E r \in AlertReasons \cup {"send_failed"} :
                queue' = [queue EXCEPT ![p] = Append(queue[p], r)]
    BY <1>3 DEF IntradayAlert, IntradayAlertFails, BatchAlert
  <2>3. story' = story
    BY <1>3 DEF IntradayAlert, IntradayAlertFails, BatchAlert
  <2>4. /\ logs' \in [AlertPairs -> Seq(AlertReasons \cup {"not recorded"})]
        /\ \A q \in AlertPairs : Len(logs'[q]) <= MaxAlerts
    <3> DEFINE R == AlertReasons \cup {"not recorded"}
    <3>1. logs \in [AlertPairs -> Seq(R)] /\ \A q \in AlertPairs : Len(logs[q]) <= MaxAlerts
      BY DEF AlertRowsInv
    <3>2. CASE logs' = logs
      BY <3>1, <3>2
    <3>3. CASE logs' # logs
      <4>1. PICK r \in R : logs' = [logs EXCEPT ![p] = Append(logs[p], r)]
        BY <2>1, <3>3
      <4>2. Len(logs[p]) < MaxAlerts
        BY <2>1, <3>3
      <4> HIDE DEF R
      <4>3. logs' \in [AlertPairs -> Seq(R)] /\ \A q \in AlertPairs : Len(logs'[q]) <= MaxAlerts
        BY <1>1, <3>1, <4>1, <4>2, OneMore
      <4>4. QED BY <4>3 DEF R
    <3>4. QED BY <3>2, <3>3
  <2>5. /\ queue' \in [AlertPairs -> Seq(AlertReasons \cup {"send_failed"})]
        /\ \A q \in AlertPairs : Len(queue'[q]) <= MaxAlerts
    <3> DEFINE R == AlertReasons \cup {"send_failed"}
    <3>1. queue \in [AlertPairs -> Seq(R)] /\ \A q \in AlertPairs : Len(queue[q]) <= MaxAlerts
      BY DEF AlertRowsInv
    <3>2. CASE queue' = queue
      BY <3>1, <3>2
    <3>3. CASE queue' # queue
      <4>1. PICK r \in R : queue' = [queue EXCEPT ![p] = Append(queue[p], r)]
        BY <2>2, <3>3
      <4>2. Len(queue[p]) < MaxAlerts
        BY <2>2, <3>3
      <4> HIDE DEF R
      <4>3. queue' \in [AlertPairs -> Seq(R)] /\ \A q \in AlertPairs : Len(queue'[q]) <= MaxAlerts
        BY <1>1, <3>1, <4>1, <4>2, OneMore
      <4>4. QED BY <4>3 DEF R
    <3>4. QED BY <3>2, <3>3
  <2>6. QED BY <2>3, <2>4, <2>5 DEF AlertRowsInv
<1>4. QED BY <1>2, <1>3 DEF AlertNext

(* No pair has more rows than the bound says.                              *)
THEOREM AlertTypeCorrect == AlertSpec => []AlertTypeOK
<1>1. AlertInit => AlertRowsInv
  <2>1. \A R : <<>> \in Seq(R) /\ Len(<<>>) = 0
    BY EmptySeq
  <2>2. QED BY <2>1, AlertRowsAssumption DEF AlertInit, AlertRowsInv
<1>2. AlertRowsInv => AlertTypeOK
  BY DEF AlertRowsInv, AlertTypeOK
<1>3. QED BY <1>1, <1>2, AlertRowsStep, PTL DEF AlertSpec

-----------------------------------------------------------------------------
(* Side by side. Each part takes its own steps or rests, so that what is   *)
(* proved of it alone holds of it among the others.                        *)

LEMMA PartsAreParts ==
  PartsSpec => /\ ProvidersSpec /\ StorySpec /\ RateSpec /\ DaySpec /\ AlertSpec
               /\ TriageSpec /\ IdeaSpec /\ PriceSpec /\ RangeSpec
<1>1. PartsInit => /\ ProvidersInit /\ StoryInit /\ RateInit /\ DayInit /\ AlertInit
                   /\ TriageInit /\ IdeaInit /\ PriceInit /\ RangeInit
  BY DEF PartsInit
<1>2. ASSUME [PartsNext]_partsVars
      PROVE  /\ [ProvidersNext]_providerVars /\ [StoryNext]_storyVars /\ [RateNext]_rateVars
             /\ [DayNext]_dayVars /\ [AlertNext]_alertVars /\ [TriageNext]_triageVars
             /\ [RecapWithIdea]_ideaVars /\ [PriceNext]_priceVars /\ [RangeNext]_rangeVars
  BY <1>2 DEF PartsNext, partsVars
<1>3. QED BY <1>1, <1>2, PTL DEF PartsSpec, ProvidersSpec, StorySpec, RateSpec, DaySpec,
            AlertSpec, TriageSpec, IdeaSpec, PriceSpec, RangeSpec

(* All the small parts keep to their types.                                *)
THEOREM PartsTypeCorrect == PartsSpec => []PartsTypeOK
<1>1. PartsSpec => /\ []ProvidersTypeOK /\ []StoryTypeOK /\ []RateTypeOK /\ []DayTypeOK
                   /\ []AlertTypeOK /\ []TriageTypeOK /\ []IdeaTypeOK /\ []PriceTypeOK
                   /\ []RangeTypeOK
  BY PartsAreParts, ProvidersTypeCorrect, StoryTypeCorrect, RateTypeCorrect, DayTypeCorrect,
     AlertTypeCorrect, TriageTypeCorrect, IdeaTypeCorrect, PriceTypeCorrect, RangeTypeCorrect, PTL
<1>2. ProvidersTypeOK /\ StoryTypeOK /\ RateTypeOK /\ DayTypeOK /\ AlertTypeOK /\ TriageTypeOK
        /\ IdeaTypeOK /\ PriceTypeOK /\ RangeTypeOK => PartsTypeOK
  BY DEF PartsTypeOK
<1>3. QED BY <1>1, <1>2, PTL

(* What is proved of the parts one by one, with the exceptions that each   *)
(* property states, holds of them together.                                *)
THEOREM PartsKeepTheirPromises ==
  PartsSpec => /\ []LastMailTrue /\ PauseEndsLate
               /\ []OnlyReviewedSent /\ []ReasonTrue /\ []EmailsCounted
               /\ []NeverAbovePerMin /\ []MissExplained /\ []MissedSlotsCounted
               /\ []SilenceEnds /\ []SeenOncePerDay
               /\ []IdeasTakeTurns /\ []LowIsGenuine /\ []AlertsSpaced
BY PartsAreParts, AdminToldTheTruth, OnlyOlderCallsEndPause, FamiliesGetReviewed,
   ReasonIsWhatHappened, EmailsCountedAsSeen, NoMinuteTooFull, MissesAreExplained, ReportsCountMisses,
   SilenceHasAnEnd, DaysCountOnce, EveryIdeaHasItsTurn, LowsAreGenuine, AlertsAreSpaced, PTL
=============================================================================
