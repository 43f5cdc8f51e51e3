--------------------------- MODULE AiStoryProofs ---------------------------
(***************************************************************************)
(* Theorems about Providers and StoryEmails (with StoryWriting in it), for *)
(* all threads, chains of providers, age groups and facts.                 *)
(***************************************************************************)
EXTENDS Providers, StoryEmails, NumberFacts, SequenceTheorems

(***************************************************************************)
(* Providers.                                                              *)
(***************************************************************************)
WriterPlaces == {AtRest} \cup [step : {"call", "pick"}, i : 1..Len(Chain)]
CheckPlaces  == {AtRest} \cup [step : {"check"}, i : 1..Len(InUse)]
Mails        == [about : Services, what : {"problem", "works"}]
Remembered   == {"no", "recent", "old"}

ProvidersTypeInv ==
  /\ paused \subseteq Services /\ told \subseteq Services
  /\ doubtful \subseteq Services /\ late \subseteq Writers
  /\ alerted \in [Services -> Remembered]
  /\ mail \in [ProviderThreads -> {NoMail} \cup Mails]
  /\ DOMAIN at = ProviderThreads
  /\ \A t \in Writers : at[t] \in WriterPlaces
  /\ at["key check"] \in CheckPlaces

(* What is told and what is about to be told agree with what is remembered *)
(* about a service, if its mails left one at a time; for what was told,    *)
(* if the last mail arrived and is of this process.                        *)
OneMail(s) ==
  \A t, u \in ProviderThreads : mail[t].about = s /\ mail[u].about = s => t = u
MailSays(s) ==
  \A t \in ProviderThreads :
    mail[t].about = s => (mail[t].what = "problem" <=> alerted[s] # "no")
Told(s) ==
  (\A t \in ProviderThreads : mail[t].about # s) => (s \in told <=> alerted[s] # "no")

MailInv == \A s \in Services : s \notin doubtful => OneMail(s) /\ MailSays(s) /\ Told(s)

(* Who is calling a provider that is paused began before the pause.        *)
CallersLate == \A t \in Writers : \A p \in paused : Calling(t, p) => t \in late

ProvidersInv == ProvidersTypeInv /\ MailInv /\ CallersLate

LEMMA ChainFact ==
  /\ Len(Chain) \in Nat /\ Len(Chain) >= 1
  /\ \A i \in 1..Len(Chain) : Chain[i] \in Providers
  /\ Len(InUse) \in Nat /\ Len(InUse) >= 1
  /\ \A i \in 1..Len(InUse) : InUse[i] \in Services
<1>1. /\ Len(Chain) \in Nat /\ Len(Chain) >= 1
      /\ \A i \in 1..Len(Chain) : Chain[i] \in Providers
  <2>1. Chain \in Seq(Providers) /\ Chain # <<>>
    BY ProvidersAssumption
  <2>2. Len(Chain) \in Nat \ {0}
    BY <2>1, EmptySeq
  <2>3. \A i \in 1..Len(Chain) : Chain[i] \in Providers
    BY <2>1, ElementOfSeq
  <2>4. QED BY <2>2, <2>3
<1>2. CASE NewsFor = {}
  BY <1>1, <1>2 DEF InUse, Services
<1>3. CASE NewsFor # {}
  <2>1. InUse = Append(Chain, News)
    BY <1>3 DEF InUse
  <2>2. Chain \in Seq(Services) /\ News \in Services
    BY ProvidersAssumption, SeqMonotonic DEF Services
  <2>3. InUse \in Seq(Services) /\ Len(InUse) = Len(Chain) + 1
    BY <2>1, <2>2, AppendProperties
  <2>4. QED BY <1>1, <2>3, ElementOfSeq
<1>4. QED BY <1>2, <1>3

(* The next place is a call of a provider that is not paused, or none.     *)
LEMMA NextPlaceFact ==
  ASSUME NEW i \in 1..Len(Chain)
  PROVE  /\ NextPlace(i) \in WriterPlaces
         /\ NextPlace(i).step = "call" => Chain[NextPlace(i).i] \notin paused
<1> DEFINE usable == {j \in i..Len(Chain) : Chain[j] \in Usable}
<1>1. CASE usable = {}
  BY <1>1 DEF NextPlace, WriterPlaces, AtRest
<1>2. CASE usable # {}
  <2>1. usable \in SUBSET Nat
    BY ChainFact
  <2>2. Min(usable) \in usable
    BY <1>2, <2>1, MinFact
  <2>3. NextPlace(i) = [step |-> "call", i |-> Min(usable)]
    BY <1>2 DEF NextPlace, AtPlace
  <2> HIDE DEF usable
  <2>4. PICK m : m = Min(usable)
    OBVIOUS
  <2>5. m \in 1..Len(Chain) /\ Chain[m] \notin paused
    BY <2>2, <2>4, ChainFact DEF usable, Usable
  <2>6. QED BY <2>3, <2>4, <2>5 DEF WriterPlaces
<1>3. QED BY <1>1, <1>2

(* What the tables hold, apart from where the threads are.                 *)
TablesOK ==
  /\ paused \subseteq Services /\ doubtful \subseteq Services /\ late \subseteq Writers
  /\ alerted \in [Services -> Remembered]
  /\ mail \in [ProviderThreads -> {NoMail} \cup Mails]

(* A mail that goes out with a change of the tables agrees with it; no     *)
(* mail goes out if what is remembered stays as it was.                    *)
LEMMA MailAgrees ==
  ASSUME ProvidersTypeInv, MailInv, NEW t \in ProviderThreads, mail[t] = NoMail,
         NEW s \in Services, NEW m \in {NoMail} \cup Mails, GoesOnToMail(t, s, m),
         UNCHANGED told, NEW v \in Remembered, alerted' = [alerted EXCEPT ![s] = v],
         m = NoMail => (v # "no" <=> alerted[s] # "no"),
         m # NoMail => m.about = s /\ (m.what = "problem" <=> v # "no")
  PROVE  /\ MailInv' /\ alerted' \in [Services -> Remembered]
         /\ doubtful' \subseteq Services /\ mail' \in [ProviderThreads -> {NoMail} \cup Mails]
<1>1. /\ mail \in [ProviderThreads -> {NoMail} \cup Mails]
      /\ alerted \in [Services -> Remembered] /\ doubtful \subseteq Services
  BY DEF ProvidersTypeInv
<1>2. mail' = [mail EXCEPT ![t] = m]
  BY DEF GoesOnToMail
<1>3. /\ alerted' \in [Services -> Remembered]
      /\ doubtful' \subseteq Services /\ mail' \in [ProviderThreads -> {NoMail} \cup Mails]
  BY <1>1, <1>2 DEF GoesOnToMail
<1>4. \A r \in Services : r # NoMail.about
  BY ProvidersAssumption DEF NoMail
<1>5. ASSUME NEW r \in Services, r \notin doubtful'
      PROVE  OneMail(r)' /\ MailSays(r)' /\ Told(r)'
  <2>1. CASE r # s
    <3>1. r \notin doubtful /\ alerted'[r] = alerted[r]
      BY <1>1, <1>5, <2>1 DEF GoesOnToMail
    <3>2. m.about # r
      BY <1>4, <2>1
    <3>3. \A u \in ProviderThreads :
            mail'[u].about = r <=> mail[u].about = r
      BY <1>1, <1>2, <1>4, <3>2
    <3>4. \A u \in ProviderThreads : mail[u].about = r => mail'[u] = mail[u]
      BY <1>1, <1>2, <1>4
    <3>5. QED BY <3>1, <3>3, <3>4 DEF MailInv, OneMail, MailSays, Told
  <2>2. CASE r = s /\ m = NoMail
    <3>1. mail' = mail /\ r \notin doubtful /\ alerted'[r] = v
      BY <1>1, <1>2, <1>5, <2>2 DEF GoesOnToMail
    <3>2. QED BY <2>2, <3>1 DEF MailInv, OneMail, MailSays, Told
  <2>3. CASE r = s /\ m # NoMail
    <3>1. \A u \in ProviderThreads \ {t} : mail[u].about # s
      BY <1>1, <1>5, <2>3 DEF GoesOnToMail
    <3>2. \A u \in ProviderThreads : mail'[u].about = s <=> u = t
      BY <1>1, <1>2, <2>3, <3>1
    <3>3. alerted'[s] = v /\ mail'[t] = m
      BY <1>1, <1>2
    <3>4. QED BY <2>3, <3>2, <3>3 DEF OneMail, MailSays, Told
  <2>4. QED BY <2>1, <2>2, <2>3
<1>6. QED BY <1>3, <1>5 DEF MailInv

(* Who is about to leave its call when it reports on s keeps CallersLate.  *)
LEMMA ReportKeeps ==
  ASSUME ProvidersInv, NEW t \in ProviderThreads, mail[t] = NoMail,
         NEW s \in Services, NEW pause \in BOOLEAN, Report(t, s, pause), UNCHANGED told,
         NEW place, at' = [at EXCEPT ![t] = place], place.step # "call"
  PROVE  MailInv' /\ CallersLate' /\ TablesOK'
<1> DEFINE m == IF alerted[s] = "recent" THEN NoMail ELSE Mail(s, "problem")
<1>1. m \in {NoMail} \cup Mails
  BY DEF Mails, Mail
<1>2. MailInv' /\ alerted' \in [Services -> Remembered]
      /\ doubtful' \subseteq Services /\ mail' \in [ProviderThreads -> {NoMail} \cup Mails]
  <2>1. /\ GoesOnToMail(t, s, m) /\ alerted' = [alerted EXCEPT ![s] = "recent"]
    BY DEF Report
  <2>2. m = NoMail => ("recent" # "no" <=> alerted[s] # "no")
    BY ProvidersAssumption DEF Mail, NoMail
  <2>3. m # NoMail => m.about = s /\ (m.what = "problem" <=> "recent" # "no")
    BY DEF Mail
  <2>4. "recent" \in Remembered
    BY DEF Remembered
  <2> HIDE DEF m
  <2>5. QED BY <1>1, <2>1, <2>2, <2>3, <2>4, MailAgrees DEF ProvidersInv
<1>3. paused' \subseteq Services /\ late' \subseteq Writers
  BY DEF Report, ProvidersInv, ProvidersTypeInv
<1>4. ASSUME NEW u \in Writers, NEW p \in paused', Calling(u, p)' PROVE u \in late'
  <2>1. u # t /\ at'[u] = at[u]
    BY <1>4 DEF ProvidersInv, ProvidersTypeInv, Calling, ProviderThreads
  <2>2. Calling(u, p)
    BY <1>4, <2>1 DEF Calling
  <2>3. CASE p \in paused
    BY <2>1, <2>2, <2>3 DEF ProvidersInv, CallersLate, Report
  <2>4. CASE p \notin paused
    <3>1. pause /\ p = s
      BY <2>4 DEF Report
    <3>2. QED BY <2>1, <2>2, <3>1 DEF Report, Calling
  <2>5. QED BY <2>3, <2>4
<1>5. QED BY <1>2, <1>3, <1>4 DEF CallersLate, TablesOK

LEMMA WorksKeeps ==
  ASSUME ProvidersInv, NEW t \in ProviderThreads, mail[t] = NoMail,
         NEW s \in Services, ServiceWorks(t, s), UNCHANGED told,
         NEW place, at' = [at EXCEPT ![t] = place], place.step # "call"
  PROVE  MailInv' /\ CallersLate' /\ TablesOK'
<1> DEFINE m == IF alerted[s] # "no" THEN Mail(s, "works") ELSE NoMail
<1>1. m \in {NoMail} \cup Mails
  BY DEF Mails, Mail
<1>2. MailInv' /\ alerted' \in [Services -> Remembered]
      /\ doubtful' \subseteq Services /\ mail' \in [ProviderThreads -> {NoMail} \cup Mails]
  <2>1. /\ GoesOnToMail(t, s, m) /\ alerted' = [alerted EXCEPT ![s] = "no"]
    BY DEF ServiceWorks
  <2>2. m = NoMail => ("no" # "no" <=> alerted[s] # "no")
    BY ProvidersAssumption DEF Mail, NoMail
  <2>3. m # NoMail => m.about = s /\ (m.what = "problem" <=> "no" # "no")
    BY DEF Mail
  <2>4. "no" \in Remembered
    BY DEF Remembered
  <2> HIDE DEF m
  <2>5. QED BY <1>1, <2>1, <2>2, <2>3, <2>4, MailAgrees DEF ProvidersInv
<1>3. paused' \subseteq Services /\ late' \subseteq Writers
  BY DEF ServiceWorks, ProvidersInv, ProvidersTypeInv
<1>4. ASSUME NEW u \in Writers, NEW p \in paused', Calling(u, p)' PROVE u \in late'
  <2>1. u # t /\ at'[u] = at[u]
    BY <1>4 DEF ProvidersInv, ProvidersTypeInv, Calling, ProviderThreads
  <2>2. Calling(u, p) /\ p \in paused
    BY <1>4, <2>1 DEF Calling, ServiceWorks
  <2>3. QED BY <2>1, <2>2 DEF ProvidersInv, CallersLate, ServiceWorks
<1>5. QED BY <1>2, <1>3, <1>4 DEF CallersLate, TablesOK

(* A step that leaves the tables as they are, or only calls its thread     *)
(* late no more.                                                           *)
LEMMA RestKeeps ==
  ASSUME ProvidersInv, NEW t \in ProviderThreads, late' \in {late, late \ {t}},
         UNCHANGED <<paused, alerted, mail, told, doubtful>>,
         NEW place, at' = [at EXCEPT ![t] = place], place.step # "call"
  PROVE  MailInv' /\ CallersLate' /\ TablesOK'
<1>1. MailInv'
  BY DEF ProvidersInv, MailInv, OneMail, MailSays, Told
<1>2. TablesOK'
  BY DEF ProvidersInv, ProvidersTypeInv, TablesOK
<1>3. ASSUME NEW u \in Writers, NEW p \in paused', Calling(u, p)' PROVE u \in late'
  <2>1. u # t /\ at'[u] = at[u]
    BY <1>3 DEF ProvidersInv, ProvidersTypeInv, Calling, ProviderThreads
  <2>2. Calling(u, p) /\ p \in paused
    BY <1>3, <2>1 DEF Calling
  <2>3. QED BY <2>1, <2>2 DEF ProvidersInv, CallersLate
<1>4. QED BY <1>1, <1>2, <1>3 DEF CallersLate

(* A writer that asks for a provider calls one that is not paused.         *)
LEMMA AskKeeps ==
  ASSUME ProvidersInv, NEW t \in Writers, NEW i \in 1..Len(Chain), Goes(t, NextPlace(i)),
         UNCHANGED <<paused, alerted, mail, told, doubtful, late>>
  PROVE  ProvidersInv'
<1>1. /\ NextPlace(i) \in WriterPlaces
      /\ NextPlace(i).step = "call" => Chain[NextPlace(i).i] \notin paused
  BY NextPlaceFact
<1>2. at' = [at EXCEPT ![t] = NextPlace(i)] /\ t # "key check" /\ t \in ProviderThreads
  BY ProvidersAssumption DEF Goes, ProviderThreads
<1>3. MailInv'
  BY DEF ProvidersInv, MailInv, OneMail, MailSays, Told
<1>4. CallersLate'
  BY <1>1, <1>2 DEF ProvidersInv, CallersLate, Calling, ProvidersTypeInv, ProviderThreads
<1>5. ProvidersTypeInv'
  <2>1. DOMAIN at' = ProviderThreads /\ at'["key check"] = at["key check"]
    BY <1>2 DEF ProvidersInv, ProvidersTypeInv, ProviderThreads
  <2>2. \A u \in Writers : at'[u] \in WriterPlaces
    BY <1>1, <1>2 DEF ProvidersInv, ProvidersTypeInv, ProviderThreads
  <2>3. QED BY <2>1, <2>2 DEF ProvidersInv, ProvidersTypeInv
<1>6. QED BY <1>3, <1>4, <1>5 DEF ProvidersInv

(* The types once more, for a thread that goes to another place.           *)
LEMMA WriterGoes ==
  ASSUME ProvidersInv, TablesOK', UNCHANGED told, NEW t \in Writers,
         NEW place \in WriterPlaces, at' = [at EXCEPT ![t] = place]
  PROVE  ProvidersTypeInv'
<1>1. t # "key check" /\ t \in ProviderThreads
  BY ProvidersAssumption DEF ProviderThreads
<1>2. DOMAIN at' = ProviderThreads /\ at'["key check"] = at["key check"]
  BY <1>1 DEF ProvidersInv, ProvidersTypeInv, ProviderThreads
<1>3. \A u \in Writers : at'[u] \in WriterPlaces
  BY <1>1 DEF ProvidersInv, ProvidersTypeInv, ProviderThreads
<1>4. QED BY <1>2, <1>3 DEF ProvidersInv, ProvidersTypeInv, TablesOK

LEMMA CheckGoes ==
  ASSUME ProvidersInv, TablesOK', UNCHANGED told,
         NEW place \in CheckPlaces, at' = [at EXCEPT !["key check"] = place]
  PROVE  ProvidersTypeInv'
<1>1. "key check" \notin Writers /\ "key check" \in ProviderThreads
  BY ProvidersAssumption DEF ProviderThreads
<1>2. DOMAIN at' = ProviderThreads /\ at'["key check"] = place
  BY <1>1 DEF ProvidersInv, ProvidersTypeInv
<1>3. \A u \in Writers : at'[u] \in WriterPlaces
  BY <1>1 DEF ProvidersInv, ProvidersTypeInv, ProviderThreads
<1>4. QED BY <1>2, <1>3 DEF ProvidersInv, ProvidersTypeInv, TablesOK

(* Where a writer that fails or has its answer goes, and the key check.    *)
LEMMA PlaceFact ==
  ASSUME ProvidersTypeInv
  PROVE  /\ \A t \in Writers : at[t].step = "call" \/ at[t].step = "pick" =>
              /\ at[t].i \in 1..Len(Chain) /\ Chain[at[t].i] \in Services
              /\ at[t].i # Len(Chain) => AtPlace("pick", at[t].i + 1) \in WriterPlaces
         /\ at["key check"].step = "check" =>
              /\ InUse[at["key check"].i] \in Services
              /\ at["key check"].i # Len(InUse) =>
                   AtPlace("check", at["key check"].i + 1) \in CheckPlaces
         /\ AtRest \in WriterPlaces /\ AtRest \in CheckPlaces /\ AtRest.step = "idle"
<1>1. ASSUME NEW t \in Writers, at[t].step = "call" \/ at[t].step = "pick"
      PROVE  /\ at[t].i \in 1..Len(Chain) /\ Chain[at[t].i] \in Services
             /\ at[t].i # Len(Chain) => AtPlace("pick", at[t].i + 1) \in WriterPlaces
  <2>1. at[t].i \in 1..Len(Chain)
    <3>1. AtRest.step = "idle" /\ at[t] \in WriterPlaces
      BY DEF ProvidersTypeInv, AtRest
    <3>2. at[t] \in [step : {"call", "pick"}, i : 1..Len(Chain)]
      BY <1>1, <3>1 DEF WriterPlaces
    <3>3. QED BY <3>2
  <2>2. PICK k \in 1..Len(Chain) : k = at[t].i
    BY <2>1
  <2>3. k # Len(Chain) => k + 1 \in 1..Len(Chain)
    BY ChainFact
  <2>4. QED BY <2>2, <2>3, ChainFact DEF AtPlace, WriterPlaces, Services
<1>2. ASSUME at["key check"].step = "check"
      PROVE  /\ InUse[at["key check"].i] \in Services
             /\ at["key check"].i # Len(InUse) =>
                  AtPlace("check", at["key check"].i + 1) \in CheckPlaces
  <2>1. at["key check"].i \in 1..Len(InUse)
    <3>1. AtRest.step = "idle" /\ at["key check"] \in CheckPlaces
      BY DEF ProvidersTypeInv, AtRest
    <3>2. at["key check"] \in [step : {"check"}, i : 1..Len(InUse)]
      BY <1>2, <3>1 DEF CheckPlaces
    <3>3. QED BY <3>2
  <2>2. PICK k \in 1..Len(InUse) : k = at["key check"].i
    BY <2>1
  <2>3. k # Len(InUse) => k + 1 \in 1..Len(InUse)
    BY ChainFact
  <2>4. QED BY <2>2, <2>3, ChainFact DEF AtPlace, CheckPlaces
<1>3. QED BY <1>1, <1>2 DEF AtRest, WriterPlaces, CheckPlaces

LEMMA ProvidersStep == ProvidersInv /\ [ProvidersNext]_providerVars => ProvidersInv'
<1> SUFFICES ASSUME ProvidersInv, [ProvidersNext]_providerVars PROVE ProvidersInv'
  OBVIOUS
<1>1. ASSUME UNCHANGED providerVars PROVE ProvidersInv'
  BY <1>1 DEF providerVars, ProvidersInv, ProvidersTypeInv, MailInv, OneMail, MailSays, Told,
              CallersLate, Calling
<1>2. ASSUME NEW t \in Writers, StoryBegins(t) PROVE ProvidersInv'
  <2>1. AtPlace("pick", 1) \in WriterPlaces /\ AtPlace("pick", 1).step # "call"
    BY ChainFact DEF AtPlace, WriterPlaces
  <2>2. at' = [at EXCEPT ![t] = AtPlace("pick", 1)] /\ t \in ProviderThreads
    BY <1>2 DEF StoryBegins, Goes, ProviderThreads
  <2>3. /\ UNCHANGED <<paused, alerted, mail, told, doubtful, late>>
        /\ UNCHANGED told
    BY <1>2 DEF StoryBegins
  <2>4. MailInv' /\ CallersLate' /\ TablesOK'
    BY <2>1, <2>2, <2>3, RestKeeps
  <2>5. QED BY <2>1, <2>2, <2>3, <2>4, WriterGoes DEF ProvidersInv
<1>3. ASSUME NEW t \in Writers, AsksProvider(t) PROVE ProvidersInv'
  <2>1. at[t].i \in 1..Len(Chain)
    BY <1>3, PlaceFact DEF AsksProvider, Ready, ProvidersInv
  <2>2. QED BY <1>3, <2>1, AskKeeps DEF AsksProvider
<1>4. ASSUME NEW t \in Writers, ProviderFails(t) PROVE ProvidersInv'
  <2> DEFINE place == IF at[t].i = Len(Chain) THEN AtRest ELSE AtPlace("pick", at[t].i + 1)
  <2>1. /\ t \in ProviderThreads /\ mail[t] = NoMail /\ UNCHANGED told
        /\ at[t].step = "call" /\ at' = [at EXCEPT ![t] = place]
    BY <1>4 DEF ProviderFails, Ready, Goes, ProviderThreads
  <2>2. place \in WriterPlaces /\ place.step # "call" /\ Chain[at[t].i] \in Services
    BY <2>1, PlaceFact DEF ProvidersInv, AtPlace
  <2>3. PICK pause \in BOOLEAN : Report(t, Chain[at[t].i], pause)
    BY <1>4 DEF ProviderFails
  <2> HIDE DEF place
  <2>4. MailInv' /\ CallersLate' /\ TablesOK'
    BY <2>1, <2>2, <2>3, ReportKeeps
  <2>5. QED BY <2>1, <2>2, <2>4, WriterGoes DEF ProvidersInv
<1>5. ASSUME NEW t \in Writers, ProviderAnswers(t) PROVE ProvidersInv'
  <2>1. /\ t \in ProviderThreads /\ mail[t] = NoMail /\ UNCHANGED told
        /\ at[t].step = "call" /\ at' = [at EXCEPT ![t] = AtRest]
    BY <1>5 DEF ProviderAnswers, Ready, Goes, ProviderThreads
  <2>2. /\ AtRest \in WriterPlaces /\ AtRest.step # "call"
        /\ Chain[at[t].i] \in Services /\ News \in Services
    BY <2>1, PlaceFact DEF ProvidersInv, Services
  <2>3. MailInv' /\ CallersLate' /\ TablesOK'
    <3>1. CASE Report(t, News, TRUE)
      BY <2>1, <2>2, <3>1, ReportKeeps
    <3>2. CASE ServiceWorks(t, Chain[at[t].i])
      BY <2>1, <2>2, <3>2, WorksKeeps
    <3>3. CASE NothingToTell(t)
      BY <2>1, <2>2, <3>3, RestKeeps DEF NothingToTell
    <3>4. QED BY <1>5, <3>1, <3>2, <3>3 DEF ProviderAnswers
  <2>4. QED BY <2>1, <2>2, <2>3, WriterGoes DEF ProvidersInv
<1>6. ASSUME NEW t \in ProviderThreads, MailLeaves(t) PROVE ProvidersInv'
  <2> DEFINE s == mail[t].about
  <2>1. /\ mail' = [mail EXCEPT ![t] = NoMail] /\ mail[t] # NoMail
        /\ UNCHANGED <<paused, alerted, at, late>>
    BY <1>6 DEF MailLeaves
  <2>2. /\ mail \in [ProviderThreads -> {NoMail} \cup Mails] /\ mail[t] \in Mails
        /\ s \in Services
    BY <2>1 DEF ProvidersInv, ProvidersTypeInv, Mails
  <2>3. \A r \in Services : r # NoMail.about
    BY ProvidersAssumption DEF NoMail
  <2>4. mail' \in [ProviderThreads -> {NoMail} \cup Mails]
    BY <2>1, <2>2
  <2>5. \/ /\ told' = IF mail[t].what = "problem" THEN told \cup {s} ELSE told \ {s}
           /\ doubtful' = doubtful
        \/ told' = told /\ doubtful' = doubtful \cup {s}
    BY <1>6 DEF MailLeaves, MailArrives, MailRefused
  <2> HIDE DEF s
  <2>6. ProvidersTypeInv'
    BY <2>1, <2>2, <2>4, <2>5 DEF ProvidersInv, ProvidersTypeInv
  <2>7. CallersLate'
    BY <2>1 DEF ProvidersInv, CallersLate, Calling
  <2>8. ASSUME NEW r \in Services, r \notin doubtful' PROVE OneMail(r)' /\ MailSays(r)' /\ Told(r)'
    <3>1. /\ mail'[t].about # r
          /\ \A u \in ProviderThreads \ {t} : mail'[u] = mail[u]
      BY <2>1, <2>2, <2>3
    <3>2. OneMail(r) /\ MailSays(r) /\ Told(r)
      BY <2>5, <2>8 DEF ProvidersInv, MailInv
    <3>3. OneMail(r)' /\ MailSays(r)'
      BY <2>1, <3>1, <3>2 DEF OneMail, MailSays
    <3>4. CASE s = r
      <4>1. mail[t].what = "problem" <=> alerted[r] # "no"
        BY <3>2, <3>4 DEF MailSays, s
      <4>2. r \in told' <=> alerted'[r] # "no"
        BY <2>1, <2>5, <2>8, <3>4, <4>1
      <4>3. QED BY <3>3, <4>2 DEF Told
    <3>5. CASE s # r
      <4>1. r \in told' <=> r \in told
        BY <2>5, <3>5
      <4>2. (\A u \in ProviderThreads : mail'[u].about # r)
              => \A u \in ProviderThreads : mail[u].about # r
        BY <3>1, <3>5 DEF s
      <4>3. QED BY <2>1, <3>2, <3>3, <4>1, <4>2 DEF Told
    <3>6. QED BY <3>4, <3>5
  <2>9. MailInv'
    BY <2>1, <2>8 DEF MailInv
  <2>10. QED BY <2>6, <2>7, <2>9 DEF ProvidersInv
<1>7. ASSUME CheckKey PROVE ProvidersInv'
  <2> DEFINE k == at["key check"].i
             place == IF k = Len(InUse) THEN AtRest ELSE AtPlace("check", k + 1)
  <2>1. /\ "key check" \in ProviderThreads /\ mail["key check"] = NoMail /\ UNCHANGED told
        /\ at["key check"].step = "check" /\ at' = [at EXCEPT !["key check"] = place]
    BY <1>7 DEF CheckKey, Ready, Goes, ProviderThreads
  <2>2. place \in CheckPlaces /\ place.step # "call" /\ InUse[k] \in Services
    BY <2>1, PlaceFact DEF ProvidersInv, AtPlace
  <2>3. \/ Report("key check", InUse[k], TRUE)
        \/ ServiceWorks("key check", InUse[k])
        \/ NothingToTell("key check")
    BY <1>7 DEF CheckKey
  <2> HIDE DEF place, k
  <2>4. MailInv' /\ CallersLate' /\ TablesOK'
    BY <2>1, <2>2, <2>3, ReportKeeps, WorksKeeps, RestKeeps DEF NothingToTell
  <2>5. QED BY <2>1, <2>2, <2>4, CheckGoes DEF ProvidersInv
<1>8. ASSUME NEW s \in Services, PauseOver(s) PROVE ProvidersInv'
  BY <1>8 DEF PauseOver, ProvidersInv, ProvidersTypeInv, MailInv, OneMail, MailSays, Told,
              CallersLate, Calling
<1>9. ASSUME NEW s \in Services, ReminderDue(s) PROVE ProvidersInv'
  <2>1. alerted' \in [Services -> Remembered]
    BY <1>9 DEF ReminderDue, ProvidersInv, ProvidersTypeInv, Remembered
  <2>2. \A r \in Services : alerted'[r] # "no" <=> alerted[r] # "no"
    BY <1>9 DEF ReminderDue, ProvidersInv, ProvidersTypeInv
  <2>3. UNCHANGED <<paused, at, mail, told, doubtful, late>>
    BY <1>9 DEF ReminderDue
  <2>4. MailInv'
    BY <2>2, <2>3 DEF ProvidersInv, MailInv, OneMail, MailSays, Told
  <2>5. QED BY <2>1, <2>3, <2>4 DEF ProvidersInv, ProvidersTypeInv, CallersLate, Calling
<1>10. ASSUME ChecksAgain PROVE ProvidersInv'
  <2>1. AtPlace("check", 1) \in CheckPlaces /\ AtPlace("check", 1).step # "call"
    BY ChainFact DEF AtPlace, CheckPlaces
  <2>2. /\ at' = [at EXCEPT !["key check"] = AtPlace("check", 1)]
        /\ "key check" \in ProviderThreads
    BY <1>10 DEF ChecksAgain, Goes, ProviderThreads
  <2>3. /\ UNCHANGED <<paused, alerted, mail, told, doubtful, late>>
        /\ UNCHANGED told
    BY <1>10 DEF ChecksAgain
  <2>4. MailInv' /\ CallersLate' /\ TablesOK'
    BY <2>1, <2>2, <2>3, RestKeeps
  <2>5. QED BY <2>1, <2>2, <2>3, <2>4, CheckGoes DEF ProvidersInv
<1>11. ASSUME ProcessRestarts PROVE ProvidersInv'
  <2>1. /\ paused' = {} /\ late' = {} /\ doubtful' = told /\ told' = told
        /\ alerted' = [s \in Services |-> "no"]
        /\ \A t \in ProviderThreads : mail'[t] = NoMail
        /\ mail' \in [ProviderThreads -> {NoMail} \cup Mails]
    BY <1>11 DEF ProcessRestarts, NothingKnown
  <2>2. \A s \in Services : s # NoMail.about
    BY ProvidersAssumption DEF NoMail
  <2>3. AtPlace("check", 1) \in CheckPlaces
    BY ChainFact DEF AtPlace, CheckPlaces
  <2>4. at' = StartPlaces
    BY <1>11 DEF ProcessRestarts
  <2>5. ProvidersTypeInv'
    BY <2>1, <2>3, <2>4, ProvidersAssumption
       DEF StartPlaces, ProviderThreads, WriterPlaces, Remembered, ProvidersInv, ProvidersTypeInv
  <2>6. MailInv'
    BY <2>1, <2>2 DEF MailInv, OneMail, MailSays, Told
  <2>7. CallersLate'
    BY <2>1 DEF CallersLate
  <2>8. QED BY <2>5, <2>6, <2>7 DEF ProvidersInv
<1>12. QED
  BY <1>1, <1>2, <1>3, <1>4, <1>5, <1>6, <1>7, <1>8, <1>9, <1>10, <1>11 DEF ProvidersNext

LEMMA ProvidersStart == ProvidersInit => ProvidersInv
<1> SUFFICES ASSUME ProvidersInit PROVE ProvidersInv
  OBVIOUS
<1>1. \A r \in Services : r # NoMail.about
  BY ProvidersAssumption DEF NoMail
<1>2. AtPlace("check", 1) \in CheckPlaces
  BY ChainFact DEF AtPlace, CheckPlaces
<1>3. ProvidersTypeInv
  BY <1>2, ProvidersAssumption
     DEF ProvidersInit, NothingKnown, StartPlaces, ProvidersTypeInv, ProviderThreads,
         WriterPlaces, Remembered
<1>4. MailInv
  BY <1>1 DEF ProvidersInit, NothingKnown, MailInv, OneMail, MailSays, Told
<1>5. CallersLate
  BY DEF ProvidersInit, CallersLate
<1>6. QED BY <1>3, <1>4, <1>5 DEF ProvidersInv

LEMMA ProvidersAlways == ProvidersSpec => []ProvidersInv
BY ProvidersStart, ProvidersStep, PTL DEF ProvidersSpec

(* The tables of paused and reported services stay what report_key_problem *)
(* and _service_works make of them.                                        *)
THEOREM ProvidersTypeCorrect == ProvidersSpec => []ProvidersTypeOK
<1>1. ProvidersInv => ProvidersTypeOK
  BY DEF ProvidersInv, ProvidersTypeInv, ProvidersTypeOK, Remembered
<1>2. QED BY <1>1, ProvidersAlways, PTL

(* Whichever threads cross, the last mail the admin got about a service    *)
(* says what the process believes, once no mail about it is on its way,    *)
(* unless two of them overtook each other, the mail server refused the     *)
(* last one, or it told of a problem before a restart                      *)
(* (report_key_problem, _service_works, _send_alert_email).                *)
THEOREM AdminToldTheTruth == ProvidersSpec => []LastMailTrue
<1>1. ProvidersInv => LastMailTrue
  BY DEF ProvidersInv, MailInv, Told, LastMailTrue
<1>2. QED BY <1>1, ProvidersAlways, PTL

(* Only a call that began before the pause can end it: a story begun       *)
(* during the pause does not call the provider (_is_paused,                *)
(* _service_works).                                                        *)
THEOREM OnlyOlderCallsEndPause == ProvidersSpec => PauseEndsLate
<1> DEFINE Late == \A p \in Providers, t \in Writers :
                     (p \in paused /\ p \notin paused' /\ Calling(t, p) /\ at'[t] # at[t])
                       => t \in late
<1>1. ProvidersInv => Late
  BY DEF ProvidersInv, CallersLate
<1>2. QED BY <1>1, ProvidersAlways, PTL DEF PauseEndsLate

(***************************************************************************)
(* StoryWriting and StoryEmails.                                           *)
(***************************************************************************)
Fates == {"not written", "clean", "unfit", "refused"}
Enders == Rejections \cup {"exception"}
Diags == [cause : BOOLEAN, found : SUBSET Facts, kept : SUBSET Facts, written : SUBSET Ages,
          unfit : SUBSET Ages, refused : SUBSET Ages, rejectedBy : Enders \cup {"nobody"}]

StoryTypeInv ==
  /\ status \in Statuses /\ clock \in Nat /\ began \in Nat /\ began <= clock
  /\ attempt \in 0..AttemptsAllowed
  /\ draft \subseteq Ages /\ sent \subseteq Ages /\ verdict \subseteq Ages
  /\ happened \in [Ages -> Fates]
  /\ diag \in Diags /\ diag.kept \subseteq diag.found

(* The groups something happened to in this attempt.                       *)
Those(fate) == {g \in Ages : happened[g] = fate}

(* What each stage knows: what is sent is what was clean and approved, and *)
(* a story that ended has its last attempt on record.                      *)
StageInv ==
  /\ status = "researching" => attempt = 0 /\ diag = NoDiag
  /\ status \in {"writing", "reviewing"} => attempt >= 1
  /\ status = "reviewing" => draft = Those("clean") /\ Those("refused") = {}
  /\ status = "ready" => sent # {} /\ sent = Those("clean") /\ sent \subseteq verdict
  /\ status = "no_clear_cause" =>
       /\ attempt = 0
       /\ \/ ending = "facts dropped" /\ diag.cause /\ diag.found # {} /\ diag.kept = {}
          \/ ending = "no cause" /\ ~(diag.cause /\ diag.found # {})
  /\ status = "failed" =>
       \/ ending = "no provider" /\ diag = NoDiag
       \/ ending = diag.rejectedBy /\ ending \in Enders

(* Nothing of an earlier attempt is on record in the first one.            *)
FirstInv ==
  attempt = 1 =>
    /\ status = "writing" => diag.unfit = {} /\ diag.refused = {}
    /\ status \in {"reviewing", "ready"} =>
         /\ diag.unfit = Those("unfit") /\ diag.refused = Those("refused")
         /\ diag.written = {g \in Ages : happened[g] # "not written"}

StoryInv == StoryTypeInv /\ StageInv /\ FirstInv

LEMMA AttemptsFact == AttemptsAllowed \in Nat /\ AttemptsAllowed >= 1
<1>1. Max({1, WriteSetting}) \in Nat /\ Max({1, WriteSetting}) >= 1
  BY MaxOfTwo, StoryWritingAssumption
<1>2. PICK x \in Nat : x = Max({1, WriteSetting}) /\ x >= 1
  BY <1>1
<1>3. {4, x} \in SUBSET Nat /\ {4, x} # {}
  OBVIOUS
<1>4. Min({4, x}) \in {4, x}
  BY <1>3, MinFact
<1>5. QED BY <1>2, <1>4 DEF AttemptsAllowed

(* A call of at most MaxCall.                                              *)
LEMMA Later ==
  ASSUME NEW now \in Nat, NEW before \in Nat, before <= now, NEW dur \in 0..MaxCall
  PROVE  now + dur \in Nat /\ before <= now + dur
BY StoryWritingAssumption

(* A rejected attempt: the next one begins, or the story has failed.       *)
LEMMA RejectionKeeps ==
  ASSUME StoryInv, NEW now \in Nat, began <= now, clock' = now, attempt >= 1,
         NEW d \in Diags, d.kept \subseteq d.found, NEW by \in Rejections,
         AttemptRejected(by, now, d), happened' \in [Ages -> Fates], verdict' \subseteq Ages
  PROVE  StoryInv'
<1>1. draft' = {} /\ sent' = sent /\ ending' = by
  BY DEF AttemptRejected
<1>2. CASE attempt < AttemptsAllowed /\ InTime(now, now - began)
  <2>1. WritesAgain(now, d)
    BY <1>2 DEF AttemptRejected
  <2>2. /\ status' = "writing" /\ attempt' = attempt + 1 /\ began' = now /\ diag' = d
    BY <2>1 DEF WritesAgain
  <2>3. attempt' \in 0..AttemptsAllowed /\ attempt' >= 1 /\ attempt' # 1
    BY <1>2, <2>2, AttemptsFact DEF StoryInv, StoryTypeInv
  <2>4. StoryTypeInv'
    BY <1>1, <2>2, <2>3 DEF StoryInv, StoryTypeInv, Statuses, AttemptsAllowed
  <2>5. StageInv' /\ FirstInv'
    BY <2>2, <2>3 DEF StageInv, FirstInv
  <2>6. QED BY <2>4, <2>5 DEF StoryInv
<1>3. CASE ~(attempt < AttemptsAllowed /\ InTime(now, now - began))
  <2>1. EndsRejected(by, d)
    BY <1>3 DEF AttemptRejected
  <2>2. /\ status' = "failed" /\ attempt' = attempt /\ began' = began
        /\ diag' = [d EXCEPT !.rejectedBy = by]
    BY <2>1 DEF EndsRejected
  <2>3. by \in Enders
    BY DEF Enders
  <2>4. /\ diag' \in Diags /\ diag'.kept \subseteq diag'.found /\ diag'.rejectedBy = by
    BY <2>2, <2>3 DEF Diags
  <2>5. StoryTypeInv'
    BY <1>1, <2>2, <2>4 DEF StoryInv, StoryTypeInv, Statuses, AttemptsAllowed
  <2>6. StageInv'
    BY <1>1, <2>2, <2>3, <2>4 DEF StageInv
  <2>7. FirstInv'
    BY <2>2 DEF FirstInv
  <2>8. QED BY <2>5, <2>6, <2>7 DEF StoryInv
<1>4. QED BY <1>2, <1>3

LEMMA WriteKeeps == StoryInv /\ Write => StoryInv'
<1> SUFFICES ASSUME StoryInv, Write PROVE StoryInv'
  OBVIOUS
<1>1. /\ status = "writing" /\ attempt >= 1 /\ clock \in Nat /\ began <= clock
      /\ began \in Nat /\ diag \in Diags /\ diag.kept \subseteq diag.found /\ MaxCall \in Nat
  BY StoryWritingAssumption DEF Write, StoryInv, StageInv, StoryTypeInv
<1>2. PICK dur \in 0..MaxCall, shared \in BOOLEAN, fate \in [Ages -> {"not written", "clean", "unfit"}] :
        LET written == {g \in Ages : fate[g] # "not written"}
            unfit == {g \in Ages : fate[g] = "unfit"}
            clean == written \ unfit
            diagNow == [diag EXCEPT !.written = written,
                                    !.unfit = IF unfit = {} THEN @ ELSE unfit]
        IN  /\ Takes(dur)
            /\ happened' = fate /\ verdict' = {}
            /\ IF shared \/ written = {}
               THEN AttemptRejected("language_check_shared", clock + dur, diag)
               ELSE IF clean = {}
               THEN AttemptRejected("language_check_all_versions", clock + dur, diagNow)
               ELSE /\ status' = "reviewing"
                    /\ draft' = clean /\ diag' = diagNow
                    /\ UNCHANGED <<attempt, began, sent, ending>>
  BY DEF Write
<1> DEFINE written == {g \in Ages : fate[g] # "not written"}
           unfit == {g \in Ages : fate[g] = "unfit"}
           clean == written \ unfit
           diagNow == [diag EXCEPT !.written = written,
                                   !.unfit = IF unfit = {} THEN @ ELSE unfit]
<1>3. /\ happened' = fate /\ happened' \in [Ages -> Fates] /\ verdict' \subseteq Ages
      /\ clock + dur \in Nat /\ began <= clock + dur /\ clock' = clock + dur
  <2>1. happened' = fate /\ verdict' = {} /\ clock' = clock + dur
    BY <1>2 DEF Takes
  <2>2. happened' \in [Ages -> Fates]
    BY <2>1 DEF Fates
  <2>3. clock + dur \in Nat /\ began <= clock + dur
    BY <1>1, Later
  <2>4. QED BY <2>1, <2>2, <2>3
<1>4. /\ diagNow \in Diags /\ diagNow.kept = diag.kept /\ diagNow.found = diag.found
      /\ diagNow.written = written /\ diagNow.refused = diag.refused
      /\ diagNow.unfit = IF unfit = {} THEN diag.unfit ELSE unfit
  BY <1>1 DEF Diags
<1>5. \/ AttemptRejected("language_check_shared", clock + dur, diag)
      \/ AttemptRejected("language_check_all_versions", clock + dur, diagNow)
      \/ /\ status' = "reviewing"
         /\ draft' = clean /\ diag' = diagNow
         /\ UNCHANGED <<attempt, began, sent, ending>>
  BY <1>2
<1> HIDE DEF diagNow
<1>6. "language_check_shared" \in Rejections /\ "language_check_all_versions" \in Rejections
  BY DEF Rejections
<1>7. CASE AttemptRejected("language_check_shared", clock + dur, diag)
  BY <1>1, <1>3, <1>6, <1>7, RejectionKeeps
<1>8. CASE AttemptRejected("language_check_all_versions", clock + dur, diagNow)
  BY <1>1, <1>3, <1>4, <1>6, <1>8, RejectionKeeps
<1>9. CASE /\ status' = "reviewing"
           /\ draft' = clean /\ diag' = diagNow
           /\ UNCHANGED <<attempt, began, sent, ending>>
  <2>1. StoryTypeInv'
    BY <1>1, <1>3, <1>4, <1>9 DEF StoryInv, StoryTypeInv, Statuses, AttemptsAllowed
  <2>2. clean = {g \in Ages : fate[g] = "clean"}
    BY <1>2
  <2>3. StageInv'
    <3>1. {g \in Ages : fate[g] = "refused"} = {}
      BY <1>2
    <3>2. QED BY <1>1, <1>3, <1>9, <2>2, <3>1 DEF StageInv, Those
  <2>4. FirstInv'
    <3> SUFFICES ASSUME attempt = 1
                 PROVE  /\ diag'.unfit = unfit /\ diag'.written = written
                        /\ diag'.refused = {} /\ {} = {g \in Ages : fate[g] = "refused"}
      BY <1>3, <1>9 DEF FirstInv, Those
    <3>1. diag.unfit = {} /\ diag.refused = {}
      BY <1>1 DEF StoryInv, FirstInv
    <3>2. QED BY <1>2, <1>4, <1>9, <3>1
  <2>5. QED BY <2>1, <2>3, <2>4 DEF StoryInv
<1>10. QED BY <1>5, <1>7, <1>8, <1>9

LEMMA ReviewKeeps == StoryInv /\ Review => StoryInv'
<1> SUFFICES ASSUME StoryInv, Review PROVE StoryInv'
  OBVIOUS
<1>1. /\ status = "reviewing" /\ attempt >= 1 /\ clock \in Nat /\ began <= clock
      /\ began \in Nat /\ diag \in Diags /\ diag.kept \subseteq diag.found /\ MaxCall \in Nat
      /\ draft = Those("clean") /\ happened \in [Ages -> Fates] /\ draft \subseteq Ages
  BY StoryWritingAssumption DEF Review, StoryInv, StageInv, StoryTypeInv
<1>2. PICK dur \in 0..MaxCall, grownUpOk \in BOOLEAN, approved \in SUBSET Ages :
        LET refused == draft \ approved
            diagNow == [diag EXCEPT !.refused = IF refused = {} THEN @ ELSE refused]
        IN  /\ Takes(dur)
            /\ verdict' = IF grownUpOk THEN approved ELSE {}
            /\ happened' = [g \in Ages |-> IF grownUpOk /\ g \in refused THEN "refused" ELSE happened[g]]
            /\ IF ~grownUpOk
               THEN AttemptRejected("reviewer_grown_up_summary", clock + dur, diag)
               ELSE IF draft \cap approved = {}
               THEN AttemptRejected("reviewer_all_versions", clock + dur, diagNow)
               ELSE /\ status' = "ready"
                    /\ sent' = draft \cap approved /\ diag' = diagNow /\ ending' = "ready"
                    /\ UNCHANGED <<attempt, began, draft>>
  BY DEF Review
<1> DEFINE refused == draft \ approved
           diagNow == [diag EXCEPT !.refused = IF refused = {} THEN @ ELSE refused]
<1>3. /\ happened' \in [Ages -> Fates] /\ verdict' \subseteq Ages
      /\ clock + dur \in Nat /\ began <= clock + dur /\ clock' = clock + dur
  <2>1. /\ happened' = [g \in Ages |-> IF grownUpOk /\ g \in refused THEN "refused" ELSE happened[g]]
        /\ verdict' = (IF grownUpOk THEN approved ELSE {}) /\ clock' = clock + dur
    BY <1>2 DEF Takes
  <2>2. happened' \in [Ages -> Fates]
    BY <1>1, <2>1 DEF Fates
  <2>3. clock + dur \in Nat /\ began <= clock + dur
    BY <1>1, Later
  <2>4. QED BY <2>1, <2>2, <2>3
<1>4. /\ diagNow \in Diags /\ diagNow.kept = diag.kept /\ diagNow.found = diag.found
      /\ diagNow.written = diag.written /\ diagNow.unfit = diag.unfit
      /\ diagNow.refused = IF refused = {} THEN diag.refused ELSE refused
  BY <1>1 DEF Diags
<1>5. \/ AttemptRejected("reviewer_grown_up_summary", clock + dur, diag)
      \/ AttemptRejected("reviewer_all_versions", clock + dur, diagNow)
      \/ /\ grownUpOk /\ draft \cap approved # {} /\ status' = "ready"
         /\ sent' = draft \cap approved /\ diag' = diagNow /\ ending' = "ready"
         /\ UNCHANGED <<attempt, began, draft>>
  BY <1>2
<1> HIDE DEF diagNow
<1>6. "reviewer_grown_up_summary" \in Rejections /\ "reviewer_all_versions" \in Rejections
  BY DEF Rejections
<1>7. CASE AttemptRejected("reviewer_grown_up_summary", clock + dur, diag)
  BY <1>1, <1>3, <1>6, <1>7, RejectionKeeps
<1>8. CASE AttemptRejected("reviewer_all_versions", clock + dur, diagNow)
  BY <1>1, <1>3, <1>4, <1>6, <1>8, RejectionKeeps
<1>9. CASE /\ grownUpOk /\ draft \cap approved # {} /\ status' = "ready"
           /\ sent' = draft \cap approved /\ diag' = diagNow /\ ending' = "ready"
           /\ UNCHANGED <<attempt, began, draft>>
  <2>1. StoryTypeInv'
    BY <1>1, <1>3, <1>4, <1>9 DEF StoryInv, StoryTypeInv, Statuses, AttemptsAllowed
  <2>2. verdict' = approved
        /\ happened' = [g \in Ages |-> IF g \in refused THEN "refused" ELSE happened[g]]
    BY <1>2, <1>9
  <2>3. sent' = {g \in Ages : happened'[g] = "clean"}
    BY <1>1, <1>9, <2>2 DEF Those
  <2>4. StageInv'
    BY <1>9, <2>2, <2>3 DEF StageInv, Those
  <2>5. FirstInv'
    <3> SUFFICES ASSUME attempt = 1
                 PROVE  /\ diag'.unfit = {g \in Ages : happened'[g] = "unfit"}
                        /\ diag'.refused = {g \in Ages : happened'[g] = "refused"}
                        /\ diag'.written = {g \in Ages : happened'[g] # "not written"}
      BY <1>9 DEF FirstInv, Those
    <3>1. /\ diag.unfit = Those("unfit") /\ diag.refused = Those("refused")
          /\ diag.written = {g \in Ages : happened[g] # "not written"}
      BY <1>1 DEF StoryInv, FirstInv
    <3>2. \A g \in Ages : g \in refused => happened[g] = "clean" /\ happened'[g] = "refused"
      BY <1>1, <2>2 DEF Those
    <3>3. \A g \in Ages : g \notin refused => happened'[g] = happened[g]
      BY <2>2
    <3>4. diag'.unfit = {g \in Ages : happened'[g] = "unfit"}
      <4>1. \A g \in Ages : happened[g] = "unfit" <=> happened'[g] = "unfit"
        BY <3>2, <3>3
      <4>2. diag'.unfit = {g \in Ages : happened[g] = "unfit"}
        BY <1>4, <1>9, <3>1 DEF Those
      <4>3. QED BY <4>1, <4>2
    <3>5. diag'.written = {g \in Ages : happened'[g] # "not written"}
      <4>1. \A g \in Ages : happened[g] = "not written" <=> happened'[g] = "not written"
        BY <3>2, <3>3
      <4>2. diag'.written = {g \in Ages : happened[g] # "not written"}
        BY <1>4, <1>9, <3>1
      <4>3. QED BY <4>1, <4>2
    <3>6. diag'.refused = {g \in Ages : happened'[g] = "refused"}
      <4>1. Those("refused") = {}
        BY <1>1 DEF StoryInv, StageInv
      <4>2. diag'.refused = refused
        BY <1>4, <1>9, <3>1, <4>1
      <4>3. \A g \in Ages : happened'[g] = "refused" <=> g \in refused
        BY <3>2, <3>3, <4>1 DEF Those
      <4>4. refused \subseteq Ages
        BY <1>1
      <4> HIDE DEF refused
      <4>5. QED BY <4>2, <4>3, <4>4
    <3>7. QED BY <3>4, <3>5, <3>6
  <2>6. QED BY <2>1, <2>4, <2>5 DEF StoryInv
<1>10. QED BY <1>5, <1>7, <1>8, <1>9

LEMMA StoryStep == StoryInv /\ [StoryNext]_storyVars => StoryInv'
<1> SUFFICES ASSUME StoryInv, [StoryNext]_storyVars PROVE StoryInv'
  OBVIOUS
<1>1. /\ clock \in Nat /\ began \in Nat /\ began <= clock /\ diag \in Diags /\ MaxCall \in Nat
      /\ attempt \in 0..AttemptsAllowed
  BY StoryWritingAssumption DEF StoryInv, StoryTypeInv
<1>2. ASSUME UNCHANGED storyVars PROVE StoryInv'
  BY <1>2 DEF storyVars, StoryInv, StoryTypeInv, StageInv, FirstInv, Those, AttemptsAllowed
<1>3. ASSUME NoProvider PROVE StoryInv'
  <2>1. StoryTypeInv'
    BY <1>3 DEF NoProvider, StoryInv, StoryTypeInv, Statuses, AttemptsAllowed
  <2>2. StageInv' /\ FirstInv'
    BY <1>3 DEF NoProvider, StoryInv, StageInv, FirstInv
  <2>3. QED BY <2>1, <2>2 DEF StoryInv
<1>4. ASSUME Research PROVE StoryInv'
  <2>1. PICK dur \in 0..MaxCall, cause \in BOOLEAN, found \in SUBSET Facts :
       /\ Takes(dur)
       /\ diag' = [diag EXCEPT !.cause = cause, !.found = found, !.kept = Kept(found)]
       /\ IF cause /\ Kept(found) # {}
          THEN /\ status' = "writing" /\ attempt' = 1 /\ began' = clock + dur
               /\ UNCHANGED ending
          ELSE /\ status' = "no_clear_cause"
               /\ ending' = IF cause /\ found # {} THEN "facts dropped" ELSE "no cause"
               /\ UNCHANGED <<attempt, began>>
    BY <1>4 DEF Research
  <2>2. /\ diag' \in Diags /\ diag'.cause = cause /\ diag'.found = found
        /\ diag'.kept = Kept(found) /\ diag'.unfit = diag.unfit /\ diag'.refused = diag.refused
        /\ Kept(found) \subseteq found
    <3>1. Kept(found) \subseteq found /\ Kept(found) \in SUBSET Facts
      BY DEF Kept
    <3>2. QED BY <1>1, <2>1, <3>1 DEF Diags
  <2>3. /\ clock' = clock + dur /\ clock + dur \in Nat /\ began <= clock + dur
        /\ UNCHANGED <<draft, sent, happened, verdict>>
        /\ attempt = 0 /\ diag = NoDiag
    <3>1. clock' = clock + dur /\ clock + dur \in Nat /\ began <= clock + dur
      <4>1. clock + dur \in Nat /\ began <= clock + dur
        BY <1>1, Later
      <4>2. QED BY <2>1, <4>1 DEF Takes
    <3>2. UNCHANGED <<draft, sent, happened, verdict>> /\ attempt = 0 /\ diag = NoDiag
      BY <1>4 DEF Research, StoryInv, StageInv
    <3>3. QED BY <3>1, <3>2
  <2>4. CASE cause /\ Kept(found) # {}
    <3>1. status' = "writing" /\ attempt' = 1 /\ began' = clock + dur
      BY <2>1, <2>4
    <3>2. StoryTypeInv'
      BY <2>2, <2>3, <3>1, AttemptsFact DEF StoryInv, StoryTypeInv, Statuses, AttemptsAllowed
    <3>3. StageInv'
      BY <3>1 DEF StageInv
    <3>4. FirstInv'
      BY <2>2, <2>3, <3>1 DEF FirstInv, NoDiag
    <3>5. QED BY <3>2, <3>3, <3>4 DEF StoryInv
  <2>5. CASE ~(cause /\ Kept(found) # {})
    <3>1. /\ status' = "no_clear_cause" /\ UNCHANGED <<attempt, began>>
          /\ ending' = IF cause /\ found # {} THEN "facts dropped" ELSE "no cause"
      BY <2>1, <2>5
    <3>2. StoryTypeInv'
      BY <2>2, <2>3, <3>1 DEF StoryInv, StoryTypeInv, Statuses, AttemptsAllowed
    <3>3. StageInv'
      BY <2>2, <2>3, <2>5, <3>1 DEF StageInv
    <3>4. FirstInv'
      BY <2>3, <3>1 DEF FirstInv
    <3>5. QED BY <3>2, <3>3, <3>4 DEF StoryInv
  <2>6. QED BY <2>4, <2>5
<1>5. ASSUME Raises PROVE StoryInv'
  <2>1. PICK dur \in 0..MaxCall : Takes(dur)
    BY <1>5 DEF Raises
  <2>2. clock' \in Nat /\ began <= clock'
    BY <1>1, <2>1 DEF Takes
  <2>3. /\ status' = "failed" /\ ending' = "exception"
        /\ diag' = [diag EXCEPT !.rejectedBy = "exception"]
        /\ UNCHANGED <<attempt, began, draft, sent, happened, verdict>>
    BY <1>5 DEF Raises
  <2>4. /\ diag' \in Diags /\ diag'.rejectedBy = "exception"
        /\ diag'.kept = diag.kept /\ diag'.found = diag.found
    BY <1>1, <2>3 DEF Diags, Enders
  <2>5. StoryTypeInv'
    BY <2>2, <2>3, <2>4 DEF StoryInv, StoryTypeInv, Statuses, AttemptsAllowed
  <2>6. StageInv' /\ FirstInv'
    BY <2>3, <2>4 DEF StageInv, FirstInv, Enders
  <2>7. QED BY <2>5, <2>6 DEF StoryInv
<1>6. QED BY <1>2, <1>3, <1>4, <1>5, WriteKeeps, ReviewKeeps DEF StoryNext

LEMMA StoryStart == StoryInit => StoryInv
<1> SUFFICES ASSUME StoryInit PROVE StoryInv
  OBVIOUS
<1>1. NoDiag \in Diags /\ NoDiag.kept = {} /\ NoDiag.found = {}
  BY DEF NoDiag, Diags
<1>2. StoryTypeInv
  <2>1. 0 \in 0..AttemptsAllowed
    BY AttemptsFact
  <2>2. happened \in [Ages -> Fates]
    BY DEF StoryInit, Fates
  <2>3. status \in Statuses /\ clock = 0 /\ began = 0 /\ attempt = 0
    BY DEF StoryInit, Statuses
  <2>4. draft = {} /\ sent = {} /\ verdict = {} /\ diag = NoDiag
    BY DEF StoryInit
  <2>5. QED BY <1>1, <2>1, <2>2, <2>3, <2>4 DEF StoryTypeInv
<1>3. StageInv /\ FirstInv
  BY DEF StoryInit, StageInv, FirstInv
<1>4. QED BY <1>2, <1>3 DEF StoryInv

LEMMA StoryAlways == StorySpec => []StoryInv
BY StoryStart, StoryStep, PTL DEF StorySpec

(* The places of the age groups, and the one that comes first of some.     *)
LEMMA PositionFact ==
  ASSUME NEW g \in Ages
  PROVE  Position(g) \in Nat /\ AgeGroups[Position(g)] = g
<1>1. DOMAIN AgeGroups \subseteq Nat
  BY StoryWritingAssumption, LenProperties
<1>2. \E i \in DOMAIN AgeGroups : AgeGroups[i] = g
  BY DEF Ages, Range
<1>3. Position(g) \in DOMAIN AgeGroups /\ AgeGroups[Position(g)] = g
  BY <1>2 DEF Position
<1>4. QED BY <1>1, <1>3

LEMMA FirstFact ==
  ASSUME NEW ages \in SUBSET Ages, ages # {}
  PROVE  First(ages) \in ages
<1> DEFINE places == {Position(g) : g \in ages}
<1>1. places \in SUBSET Nat /\ places # {}
  BY PositionFact
<1>2. PICK x \in places : \A y \in places : x <= y
  BY <1>1, LeastNumber
<1>3. \E g \in ages : \A h \in ages : Position(g) <= Position(h)
  BY <1>2
<1>4. QED BY <1>3 DEF First

(* A family gets one of the versions sent, whichever ages it chose.        *)
LEMMA VersionsFact ==
  ASSUME NEW ages \in SUBSET Ages, ages # {}, sent \subseteq Ages, sent # {}
  PROVE  VersionsFor(ages) \subseteq sent /\ VersionsFor(ages) # {}
<1>1. CASE ages \cap sent # {}
  BY <1>1 DEF VersionsFor
<1>2. CASE ages \cap sent = {}
  <2> PICK f \in Ages : f = First(ages)
    BY FirstFact
  <2>1. \A g \in Ages : Distance(g, f) \in Nat
    <3> SUFFICES ASSUME NEW g \in Ages PROVE Distance(g, f) \in Nat
      OBVIOUS
    <3>1. PICK x \in Nat, y \in Nat : x = Position(g) /\ y = Position(f)
      BY PositionFact
    <3>2. Distance(g, f) = IF x < y THEN y - x ELSE x - y
      BY <3>1 DEF Distance
    <3>3. QED BY <3>2
  <2> DEFINE ways == {Distance(g, f) : g \in sent}
  <2>2. ways \in SUBSET Nat /\ ways # {}
    BY <2>1
  <2>3. PICK x \in ways : \A y \in ways : x <= y
    BY <2>2, LeastNumber
  <2>4. \E g \in sent : \A h \in sent : Distance(g, f) <= Distance(h, f)
    BY <2>3
  <2>5. (CHOOSE g \in sent : \A h \in sent : Distance(g, f) <= Distance(h, f)) \in sent
    BY <2>4
  <2>6. VersionsFor(ages) =
          {CHOOSE g \in sent : \A h \in sent : Distance(g, f) <= Distance(h, f)}
    BY <1>2 DEF VersionsFor
  <2>7. QED BY <2>5, <2>6
<1>3. QED BY <1>1, <1>2

THEOREM StoryTypeCorrect == StorySpec => []StoryTypeOK
<1>1. StoryInv => StoryTypeOK
  BY DEF StoryInv, StoryTypeInv, StoryTypeOK, Diags, Enders
<1>2. QED BY <1>1, StoryAlways, PTL

(* Every version that reaches a family passed the check of its age and was *)
(* approved in the attempt that was sent, and there always is one for it   *)
(* (run_pipeline, versions_for).                                           *)
THEOREM FamiliesGetReviewed == StorySpec => []OnlyReviewedSent
<1>1. StoryInv => OnlyReviewedSent
  <2> SUFFICES ASSUME StoryInv, status = "ready"
               PROVE  /\ sent # {}
                      /\ \A g \in sent : happened[g] = "clean" /\ g \in verdict
                      /\ \A ages \in (SUBSET Ages) \ {{}} :
                           VersionsFor(ages) \subseteq sent /\ VersionsFor(ages) # {}
    BY DEF OnlyReviewedSent
  <2>1. sent # {} /\ sent = Those("clean") /\ sent \subseteq verdict /\ sent \subseteq Ages
    BY DEF StoryInv, StageInv, StoryTypeInv
  <2>2. \A g \in sent : happened[g] = "clean" /\ g \in verdict
    BY <2>1 DEF Those
  <2>3. \A ages \in (SUBSET Ages) \ {{}} :
          VersionsFor(ages) \subseteq sent /\ VersionsFor(ages) # {}
    <3> SUFFICES ASSUME NEW ages \in (SUBSET Ages) \ {{}}
                 PROVE  VersionsFor(ages) \subseteq sent /\ VersionsFor(ages) # {}
      OBVIOUS
    <3>1. ages \in SUBSET Ages /\ ages # {}
      OBVIOUS
    <3>2. QED BY <2>1, <3>1, VersionsFact, Zenon
  <2>4. QED BY <2>1, <2>2, <2>3
<1>2. QED BY <1>1, StoryAlways, PTL

(* Which layer is blamed for a missing age group, at the first attempt.    *)
LEMMA MissingFact ==
  ASSUME StoryInv, status = "ready", attempt = 1,
         NEW ages \in SUBSET Ages, ages # {}, ages \cap sent = {}
  PROVE  IF WhyMissing(ages) = "not written"
         THEN \A g \in ages : happened[g] = "not written"
         ELSE \E g \in ages : happened[g] = WhyMissing(ages)
<1> DEFINE dropped == ages \cap (diag.unfit \cup diag.refused)
<1>1. /\ diag.unfit = Those("unfit") /\ diag.refused = Those("refused")
      /\ diag.written = {g \in Ages : happened[g] # "not written"}
      /\ sent = Those("clean") /\ happened \in [Ages -> Fates]
  BY DEF StoryInv, FirstInv, StageInv, StoryTypeInv
<1>2. CASE dropped = {}
  <2>1. \A g \in ages : happened[g] = "not written"
    BY <1>1, <1>2 DEF Those, Fates
  <2>2. ages \cap diag.written = {}
    BY <1>1, <2>1
  <2>3. WhyMissing(ages) = "not written"
    BY <1>2, <2>2 DEF WhyMissing
  <2>4. QED BY <2>1, <2>3
<1>3. CASE dropped # {}
  <2>1. PICK f \in dropped : f = First(dropped)
    BY <1>3, FirstFact
  <2>2. WhyMissing(ages) = IF f \in diag.unfit THEN "unfit" ELSE "refused"
    BY <1>3, <2>1 DEF WhyMissing
  <2>3. f \in ages /\ happened[f] = IF f \in diag.unfit THEN "unfit" ELSE "refused"
    BY <1>1, <2>1 DEF Those
  <2>4. QED BY <2>2, <2>3
<1>4. QED BY <1>2, <1>3

(* The reason that is recorded is what ended the last attempt, although    *)
(* all attempts write to one record, and at the first attempt a missing    *)
(* age group is explained by what happened to it (_story_outcome,          *)
(* _why_ages_missing, _story_why).                                         *)
THEOREM ReasonIsWhatHappened == StorySpec => []ReasonTrue
<1>1. StoryInv => ReasonTrue
  <2> SUFFICES ASSUME StoryInv PROVE ReasonTrue
    OBVIOUS
  <2> DEFINE Blamed ==
         CASE ending = "facts dropped" -> "facts_all_dropped"
           [] ending = "no cause" -> "research_found_nothing"
           [] ending \in {"language_check_shared", "language_check_all_versions"}
                -> "rejected_by_language_check"
           [] ending \in {"reviewer_grown_up_summary", "reviewer_all_versions"}
                -> "rejected_by_reviewer"
           [] OTHER -> "generation_failed"
  <2>1. diag \in Diags /\ diag.cause \in BOOLEAN
    BY DEF StoryInv, StoryTypeInv, Diags
  <2>2. ASSUME status = "no_clear_cause"
        PROVE  /\ Reason(Ages, FALSE) = Blamed
               /\ diag # NoDiag /\ ending # "no cause" => StoryWhy = ending /\ ending # "no provider"
    <3>1. Reason(Ages, FALSE) = EmptyReason
      BY <2>2 DEF Reason, Running
    <3>2. \/ ending = "facts dropped" /\ diag.cause /\ diag.found # {} /\ diag.kept = {}
          \/ ending = "no cause" /\ ~(diag.cause /\ diag.found # {})
      BY <2>2 DEF StoryInv, StageInv
    <3>3. Reason(Ages, FALSE) = Blamed
      BY <3>1, <3>2 DEF EmptyReason
    <3>4. ASSUME diag # NoDiag, ending # "no cause" PROVE StoryWhy = ending /\ ending # "no provider"
      BY <2>2, <3>2, <3>4 DEF StoryWhy, Running
    <3>5. QED BY <3>3, <3>4
  <2>3. ASSUME status = "failed"
        PROVE  /\ Reason(Ages, FALSE) = Blamed
               /\ diag # NoDiag => StoryWhy = ending /\ ending # "no provider"
    <3>1. Reason(Ages, FALSE) = FailedReason
      BY <2>3 DEF Reason, Running
    <3>2. \/ ending = "no provider" /\ diag = NoDiag
          \/ ending = diag.rejectedBy /\ ending \in Enders
      BY <2>3 DEF StoryInv, StageInv
    <3>3. Reason(Ages, FALSE) = Blamed
      <4>1. CASE ending = "no provider" /\ diag = NoDiag
        <5>1. diag.rejectedBy = "nobody"
          BY <4>1 DEF NoDiag
        <5>2. QED BY <3>1, <4>1, <5>1 DEF FailedReason
      <4>2. CASE ending = diag.rejectedBy /\ ending \in Enders
        BY <3>1, <4>2 DEF FailedReason, Enders, Rejections
      <4>3. QED BY <3>2, <4>1, <4>2
    <3>4. ASSUME diag # NoDiag PROVE StoryWhy = ending /\ ending # "no provider"
      <4>1. ending = diag.rejectedBy /\ ending \in Enders
        BY <3>2, <3>4
      <4>2. StoryWhy = diag.rejectedBy
        BY <2>3, <3>4 DEF StoryWhy, Running
      <4>3. QED BY <4>1, <4>2 DEF Enders, Rejections
    <3>5. QED BY <3>3, <3>4
  <2>4. (status = "ready" /\ attempt = 1) =>
          \A ages \in (SUBSET Ages) \ {{}} :
            ages \cap sent = {} =>
              IF WhyMissing(ages) = "not written"
              THEN \A g \in ages : happened[g] = "not written"
              ELSE \E g \in ages : happened[g] = WhyMissing(ages)
    <3> SUFFICES ASSUME status = "ready", attempt = 1,
                        NEW ages \in (SUBSET Ages) \ {{}}, ages \cap sent = {}
                 PROVE  IF WhyMissing(ages) = "not written"
                        THEN \A g \in ages : happened[g] = "not written"
                        ELSE \E g \in ages : happened[g] = WhyMissing(ages)
      OBVIOUS
    <3>1. ages \in SUBSET Ages /\ ages # {}
      OBVIOUS
    <3>2. QED BY <3>1, MissingFact, Zenon
  <2> HIDE DEF Blamed
  <2>5. status \in {"no_clear_cause", "failed"} => Reason(Ages, FALSE) = Blamed
    BY <2>2, <2>3
  <2>6. status \in {"no_clear_cause", "failed"} /\ diag # NoDiag /\ ending # "no cause" =>
          StoryWhy = IF ending = "no provider" THEN "nobody" ELSE ending
    BY <2>2, <2>3
  <2>7. QED BY <2>4, <2>5, <2>6 DEF ReasonTrue, Blamed
<1>2. QED BY <1>1, StoryAlways, PTL

(* An email is counted once, and as what the family saw.                   *)
CountedOnce(r) ==
  /\ CountedAs(r) = {r.shown}
  /\ r.shown = "nothing" <=> "stories_not_delivered" \in StoryFindings(r)

LEMMA BlockCounted ==
  ASSUME NEW shown, NEW reason,
         \/ shown = "story" /\ reason \in {"ready", "age_substituted"}
         \/ shown = "promise" /\ reason = "still_generating"
         \/ shown = "fixed note" /\ reason \in {"market_day", "below_bar"}
         \/ shown = "nothing" /\ reason \in LostReasons \cup SkipReasons
  PROVE  CountedOnce(Block(shown, reason))
<1> DEFINE r == Block(shown, reason)
<1>1. r.shown = shown /\ r.reason = reason /\ r.state = StateOf(reason)
  BY DEF Block
<1> HIDE DEF r
<1>2. "stories_not_delivered" \in StoryFindings(r) <=> ~Ok(reason)
  <2>1. "stories_not_delivered" \notin IF status = "failed" THEN {"stories_failed"} ELSE {}
    OBVIOUS
  <2>2. "stories_not_delivered" \notin IF status = "no_clear_cause" THEN {"mostly_no_cause"} ELSE {}
    OBVIOUS
  <2>3. "stories_not_delivered" \in (IF Ok(reason) THEN {} ELSE {"stories_not_delivered"}) <=> ~Ok(reason)
    OBVIOUS
  <2>4. QED BY <1>1, <2>1, <2>2, <2>3 DEF StoryFindings
<1>3. CASE shown = "story" /\ reason \in {"ready", "age_substituted"}
  <2>1. StateOf(reason) = "story" /\ Ok(reason) /\ reason \in STORY_REASONS
    BY <1>3 DEF StateOf, Ok, STORY_REASONS, WorkedReasons, LostReasons, SkipReasons
  <2>2. CountedAs(r) = {"story"}
    BY <1>1, <2>1 DEF CountedAs
  <2>3. QED BY <1>1, <1>2, <1>3, <2>1, <2>2 DEF CountedOnce, r
<1>4. CASE shown = "promise" /\ reason = "still_generating"
  <2>1. StateOf(reason) = "pending_followup" /\ Ok(reason) /\ reason \notin STORY_REASONS
    BY <1>4 DEF StateOf, Ok, STORY_REASONS, WorkedReasons, LostReasons, SkipReasons
  <2>2. CountedAs(r) = {"promise"}
    BY <1>1, <2>1 DEF CountedAs
  <2>3. QED BY <1>1, <1>2, <1>4, <2>1, <2>2 DEF CountedOnce, r
<1>5. CASE shown = "fixed note" /\ reason \in {"market_day", "below_bar"}
  <2>1. /\ StateOf(reason) \in {"small_move_note", "market_day_note"} /\ Ok(reason)
        /\ reason \notin STORY_REASONS
    BY <1>5 DEF StateOf, Ok, STORY_REASONS, WorkedReasons, LostReasons, SkipReasons
  <2>2. CountedAs(r) = {"fixed note"}
    BY <1>1, <2>1 DEF CountedAs
  <2>3. QED BY <1>1, <1>2, <1>5, <2>1, <2>2 DEF CountedOnce, r
<1>6. CASE shown = "nothing" /\ reason \in LostReasons \cup SkipReasons
  <2>1. StateOf(reason) = "none" /\ ~Ok(reason) /\ reason \notin STORY_REASONS
    BY <1>6 DEF StateOf, Ok, STORY_REASONS, WorkedReasons, LostReasons, SkipReasons
  <2>2. CountedAs(r) = {"nothing"}
    BY <1>1, <2>1 DEF CountedAs
  <2>3. QED BY <1>1, <1>2, <1>6, <2>1, <2>2 DEF CountedOnce, r
<1>7. QED BY <1>3, <1>4, <1>5, <1>6 DEF r

LEMMA StoryBlockCounted ==
  ASSUME StoryInv, NEW e \in Emails
  PROVE  CountedOnce(StoryBlock(e))
<1> DEFINE reason == Reason(e.ages, e.marketDay)
<1>1. e.marketDay \in BOOLEAN /\ status \in Statuses
  BY DEF Emails, StoryInv, StoryTypeInv
<1>2. CASE status = "ready"
  <2>1. reason \in {"ready", "age_substituted"}
    BY <1>2 DEF Reason, Running
  <2>2. StoryBlock(e) = Block("story", reason)
    BY <1>2 DEF StoryBlock, HasView
  <2>3. QED BY <2>1, <2>2, BlockCounted
<1>3. CASE status \in Running
  <2>1. reason = "still_generating"
    BY <1>3 DEF Reason, Running
  <2>2. StateOf(reason) = "pending_followup"
    BY <2>1 DEF StateOf, STORY_REASONS, LostReasons, SkipReasons
  <2>3. StoryBlock(e) = Block("promise", reason)
    BY <1>3, <2>2 DEF StoryBlock, HasView, Running
  <2>4. QED BY <2>1, <2>3, BlockCounted
<1>4. CASE status \in {"no_clear_cause", "failed"} /\ e.marketDay
  <2>1. reason = "market_day"
    BY <1>4 DEF Reason, Running
  <2>2. StateOf(reason) = "market_day_note"
    BY <2>1 DEF StateOf, STORY_REASONS, LostReasons, SkipReasons
  <2>3. StoryBlock(e) = Block("fixed note", reason)
    BY <1>4, <2>2 DEF StoryBlock, HasView
  <2>4. QED BY <2>1, <2>3, BlockCounted
<1>5. CASE status \in {"no_clear_cause", "failed"} /\ ~e.marketDay
  <2>1. reason = IF status = "failed" THEN FailedReason ELSE EmptyReason
    BY <1>5 DEF Reason, Running
  <2>2. reason \in LostReasons
    BY <2>1 DEF FailedReason, EmptyReason, LostReasons
  <2>3. StateOf(reason) = "none"
    BY <2>2 DEF StateOf, LostReasons, STORY_REASONS
  <2>4. StoryBlock(e) = Block("nothing", reason)
    BY <1>5, <2>3 DEF StoryBlock, HasView
  <2>5. QED BY <2>2, <2>4, BlockCounted
<1>6. status \in {"ready"} \cup Running \cup {"no_clear_cause", "failed"}
  BY <1>1 DEF Statuses, Running
<1>7. QED BY <1>1, <1>2, <1>3, <1>4, <1>5, <1>6

(* Whatever has become of the story when an email leaves, the day's report *)
(* counts the email once, and as what the family saw in it; and a story    *)
(* written again is counted as saved or as lost (kid_block,                *)
(* _story_delivery, stories_report).                                       *)
THEOREM EmailsCountedAsSeen == StorySpec => []EmailsCounted
<1>1. ASSUME StoryInv, NEW e \in Emails PROVE CountedOnce(KidBlock(e))
  <2>1. /\ e.aiOn \in BOOLEAN /\ e.big \in BOOLEAN
        /\ e.step \in {"story", "provider_paused", "cap_reached", "generation_error"}
    BY DEF Emails, StorySteps
  <2>2. CASE e.aiOn /\ ~e.big
    <3>1. KidBlock(e) = Block("fixed note", "below_bar")
      BY <2>2 DEF KidBlock, HasStory
    <3>2. QED BY <3>1, BlockCounted
  <2>3. CASE HasStory(e)
    <3>1. KidBlock(e) = StoryBlock(e)
      BY <2>3 DEF KidBlock, HasStory
    <3>2. QED BY <1>1, <3>1, StoryBlockCounted
  <2>4. CASE ~(e.aiOn /\ ~e.big) /\ ~HasStory(e)
    <3>1. KidBlock(e) = Block("nothing", SkippedBecause(e))
      BY <2>4 DEF KidBlock
    <3>2. SkippedBecause(e) \in SkipReasons
      BY <2>1, <2>4 DEF SkippedBecause, HasStory, SkipReasons
    <3>3. QED BY <3>1, <3>2, BlockCounted
  <2>5. QED BY <2>2, <2>3, <2>4
<1>2. ASSUME StoryInv, status \notin Running, ending # "exception"
      PROVE  /\ Retries.retried <=> attempt > 1
             /\ Retries.retried <=> (Retries.saved \/ Retries.lost)
             /\ Retries.skipped => ~Retries.saved
  <2>1. status \in {"ready", "no_clear_cause", "failed"} /\ attempt \in Nat
    BY <1>2, AttemptsFact DEF StoryInv, StoryTypeInv, Statuses, Running
  <2>2. status = "no_clear_cause" => attempt = 0
    BY <1>2 DEF StoryInv, StageInv
  <2>3. WriteAttempts > 1 <=> attempt > 1
    BY <1>2, <2>1 DEF WriteAttempts
  <2>4. /\ Retries.retried = (WriteAttempts > 1)
        /\ Retries.saved = (WriteAttempts > 1 /\ status = "ready")
        /\ Retries.lost = (WriteAttempts > 1 /\ status = "failed")
        /\ Retries.skipped => status = "failed"
    BY DEF Retries
  <2>5. Retries.retried <=> attempt > 1
    BY <2>3, <2>4
  <2>6. attempt > 1 => status \in {"ready", "failed"}
    BY <2>1, <2>2
  <2>7. Retries.retried <=> (Retries.saved \/ Retries.lost)
    BY <2>3, <2>4, <2>6
  <2>8. Retries.skipped => ~Retries.saved
    BY <2>4
  <2>9. QED BY <2>5, <2>7, <2>8
<1>3. StoryInv => EmailsCounted
  BY <1>1, <1>2 DEF EmailsCounted, CountedOnce
<1>4. QED BY <1>3, StoryAlways, PTL
=============================================================================
