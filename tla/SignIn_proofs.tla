--------------------------- MODULE SignIn_proofs ---------------------------
(***************************************************************************)
(* What holds at the door for any number of tabs, any lives of tokens and  *)
(* however much happens: the types, the token that serves until it is      *)
(* nearly spent, the key set that is never older than a minute.            *)
(***************************************************************************)
EXTENDS SignIn, TLAPS

(* All of the worker's record, which TypeOK tells in part; a key is counted*)
(* for each rotation.                                                      *)
WorkerType ==
    [at : {"idle", "asking", "looking", "judging", "served"}, kid : 0 .. signing,
     life : Int, ttl : Ttls \cup {0}, use : Nat, late : Nat, took : Nat, had : SUBSET (1 .. signing)]
Counted == worker \in WorkerType /\ signing <= events + 1

(* The clock the worker keeps against the token's own. A token that is on  *)
(* its way has lost no more of its life than the call took; one that is    *)
(* still in use outlives its use by the lead, but for what it lost on its  *)
(* way; and the call that carries it began while it was in use.            *)
Asking == worker.at = "asking" =>
    worker.kid # 0 /\ worker.ttl \in Ttls /\ worker.life + worker.took >= worker.ttl
InUse == worker.use > 0 =>
    worker.kid # 0 /\ worker.life + worker.late >= worker.use + Lead(worker.ttl)
OnTheWay == worker.at \in {"looking", "judging"} =>
    worker.kid # 0 /\ worker.life + worker.late + worker.took > Lead(worker.ttl)

SpentInTime == Asking /\ InUse /\ OnTheWay
IInv == TypeOK /\ Counted /\ SpentInTime

-----------------------------------------------------------------------------
(* A lead leaves something of every life.                                  *)
LEMMA LeadIsShorter ==
    ASSUME NEW ttl \in Ttls
    PROVE  Lead(ttl) \in Nat /\ Lead(ttl) < ttl
<1>1. ttl \in Nat /\ ttl >= 2
    BY SignInAssumption
<1> QED BY <1>1 DEF Lead, RefreshLead, Minute

LEMMA LeadIsANumber ==
    ASSUME NEW ttl \in Ttls \cup {0}
    PROVE  Lead(ttl) \in Nat
<1>1. CASE ttl \in Ttls
    BY <1>1, LeadIsShorter
<1>2. CASE ttl = 0
    BY <1>2 DEF Lead, RefreshLead, Minute
<1> QED BY <1>1, <1>2

(* TypeOK, by who owns what it is about.                                   *)
TabType ==
    [at : {"out", "provider", "callback", "exchange", "looking", "judging", "answered", "refused",
           "in"},
     kid : 0 .. signing, had : SUBSET (1 .. signing)]
BrowserOK == cookie \in Tabs \cup {None} /\ tab \in [Tabs -> TabType]
SessionOK == session \in BOOLEAN
ProviderOK == signing \in 1 .. MaxEvents + 1 /\ published \subseteq 1 .. signing /\ signing \in published
KeysOK == keys \subseteq 1 .. signing /\ age \in 0 .. MinRefetch
EventsOK == events \in 0 .. MaxEvents

LEMMA Types ==
    worker \in WorkerType => (TypeOK <=> BrowserOK /\ SessionOK /\ ProviderOK /\ KeysOK /\ EventsOK)
BY DEF TypeOK, WorkerType, BrowserOK, SessionOK, TabType, ProviderOK, KeysOK, EventsOK

LEMMA InitIInv == Init => IInv
<1> SUFFICES ASSUME Init PROVE IInv
    OBVIOUS
<1>1. worker = NoToken /\ signing = 1 /\ events = 0
    BY DEF Init
<1>2. Counted /\ SpentInTime
    BY <1>1, SignInAssumption
       DEF NoToken, Counted, WorkerType, SpentInTime, Asking, InUse, OnTheWay
<1>3. Out \in TabType
    BY <1>1 DEF TabType, Out
<1>4. BrowserOK
    BY <1>3 DEF Init, BrowserOK
<1>5. SessionOK
    BY Zenon DEF Init, SessionOK
<1>6. ProviderOK /\ KeysOK /\ EventsOK
    BY <1>1, SignInAssumption DEF Init, ProviderOK, KeysOK, EventsOK, MinRefetch, Minute
<1> QED BY <1>2, <1>4, <1>5, <1>6, Types DEF IInv, Counted

-----------------------------------------------------------------------------
(* What a verification does to the keys, whoever's token it is.            *)
LEMMA KeysStay ==
    ASSUME KeysOK, ProviderOK, signing' = signing,
           UNCHANGED keyVars \/ Fetch
    PROVE  KeysOK'
<1>1. CASE UNCHANGED keyVars
    BY <1>1 DEF KeysOK, keyVars
<1>2. CASE Fetch
    BY <1>2, SignInAssumption DEF Fetch, KeysOK, ProviderOK, MinRefetch, Minute
<1> QED BY <1>1, <1>2

LEMMA Looked ==
    ASSUME KeysOK, ProviderOK, signing' = signing, NEW held, Look(held)
    PROVE  KeysOK' /\ held \in SUBSET (1 .. signing) /\ events' = events
<1>1. events' = events /\ (UNCHANGED keyVars \/ Fetch)
    BY Zenon DEF Look
<1>2. held \in {keys, published}
    BY DEF Look
<1> QED BY <1>1, <1>2, KeysStay DEF KeysOK, ProviderOK

LEMMA Judged ==
    ASSUME KeysOK, ProviderOK, signing' = signing, NEW kid, NEW life, NEW had, NEW ok,
           Judge(kid, life, had, ok)
    PROVE  KeysOK' /\ events' = events
<1>1. events' = events /\ (UNCHANGED keyVars \/ Fetch)
    BY Zenon DEF Judge
<1> QED BY <1>1, KeysStay

LEMMA CountedOn ==
    ASSUME NEW s \in Nat, NEW e \in Nat, NEW f \in {e, e + 1}, s <= e + 1
    PROVE  s <= f + 1
<1>1. CASE f = e
    BY <1>1
<1>2. CASE f = e + 1
    BY <1>2
<1> QED BY <1>1, <1>2

(* A step that leaves the worker and the provider alone leaves the clocks  *)
(* as they were.                                                           *)
LEMMA ByTheBrowser ==
    ASSUME IInv, UNCHANGED <<worker, providerVars>>, BrowserOK', SessionOK', KeysOK',
           events' \in {events, events + 1}, EventsOK'
    PROVE  IInv'
<1>1. Counted'
    <2>1. worker' = worker /\ signing' = signing /\ events \in 0 .. MaxEvents
        BY DEF providerVars, IInv, TypeOK
    <2>2. signing \in Nat /\ signing <= events + 1
        <3>1. signing \in 1 .. MaxEvents + 1 /\ signing <= events + 1
            BY Zenon DEF IInv, TypeOK, Counted
        <3> QED BY <3>1, SignInAssumption
    <2>3. worker' \in WorkerType'
        BY <2>1 DEF IInv, Counted, WorkerType
    <2>4. signing' <= events' + 1
        <3>1. events \in Nat
            BY <2>1, SignInAssumption
        <3> QED BY <2>1, <2>2, <3>1, CountedOn
    <2> QED BY <2>3, <2>4 DEF Counted
<1>2. SpentInTime'
    BY DEF IInv, SpentInTime, Asking, InUse, OnTheWay
<1>3. ProviderOK'
    BY Types DEF IInv, Counted, ProviderOK, providerVars
<1>4. worker' \in WorkerType'
    BY <1>1 DEF Counted
<1>5. TypeOK'
    BY <1>3, <1>4 DEF TypeOK, WorkerType, BrowserOK, SessionOK, TabType, ProviderOK, KeysOK, EventsOK
<1> QED BY <1>1, <1>2, <1>5 DEF IInv

LEMMA TabGoes ==
    ASSUME BrowserOK, NEW t \in Tabs, signing' = signing, cookie' \in {cookie, None, t},
           NEW new \in TabType, tab' = [tab EXCEPT ![t] = new]
    PROVE  BrowserOK'
BY DEF BrowserOK, TabType

LEMMA TabSteps ==
    ASSUME IInv, NEW t \in Tabs, TabStep(t)
    PROVE  IInv'
<1>1. BrowserOK /\ SessionOK /\ ProviderOK /\ KeysOK /\ EventsOK
    BY Types DEF IInv, Counted
<1>2. tab[t] \in TabType /\ signing \in Nat
    BY <1>1 DEF BrowserOK, ProviderOK
<1>3. UNCHANGED <<worker, providerVars>>
    BY DEF TabStep, Enter, Login, SignsInThere, Callback, Exchange, CheckIdToken, Respond
<1>4. signing' = signing
    BY <1>3 DEF providerVars
<1>5. BrowserOK'
    <2> SUFFICES \E new \in TabType : tab' = [tab EXCEPT ![t] = new] /\ cookie' \in {cookie, None, t}
        BY <1>1, <1>4, TabGoes
    <2> DEFINE at(where) == [tab[t] EXCEPT !.at = where]
    <2>1. \A where \in {"provider", "callback", "exchange", "looking", "refused", "in", "out"} :
            at(where) \in TabType
        BY <1>2 DEF TabType
    <2>2. CASE Enter(t)
        BY <2>1, <2>2 DEF Enter, Go
    <2>3. CASE Login(t)
        BY <2>1, <2>3 DEF Login, Go
    <2>4. CASE SignsInThere(t)
        BY <2>1, <2>4 DEF SignsInThere, Go
    <2>5. CASE Callback(t)
        BY <2>1, <2>5 DEF Callback, Go
    <2>6. CASE Exchange(t)
        <3>1. signing \in 0 .. signing
            BY <1>2
        <3>2. [tab[t] EXCEPT !.at = "looking", !.kid = signing] \in TabType
            BY <1>2, <3>1 DEF TabType
        <3> QED BY <2>6, <3>2 DEF Exchange
    <2>7. CASE CheckIdToken(t)
        <3>1. \A had \in SUBSET (1 .. signing) :
                [tab[t] EXCEPT !.at = "judging", !.had = had] \in TabType
            BY <1>2 DEF TabType
        <3>2. \A ok \in BOOLEAN :
                [Out EXCEPT !.at = IF ok THEN "answered" ELSE "refused"] \in TabType
            BY <1>2 DEF TabType, Out
        <3>3. CASE tab[t].at = "looking"
            <4>1. PICK held : Look(held) /\ tab' = [tab EXCEPT ![t].at = "judging", ![t].had = held]
                BY <2>7, <3>3 DEF CheckIdToken
            <4>2. held \in SUBSET (1 .. signing) /\ cookie' = cookie
                BY <1>1, <1>4, <2>7, <4>1, Looked DEF CheckIdToken
            <4>3. [tab[t] EXCEPT !.at = "judging", !.had = held] \in TabType
                BY <3>1, <4>2
            <4> QED BY <4>1, <4>2, <4>3
        <3>4. CASE tab[t].at = "judging"
            BY <2>7, <3>2, <3>4 DEF CheckIdToken
        <3> QED BY <2>7, <3>3, <3>4 DEF CheckIdToken
    <2>8. CASE Respond(t)
        BY <2>1, <2>8 DEF Respond, Go
    <2> QED BY <2>2, <2>3, <2>4, <2>5, <2>6, <2>7, <2>8 DEF TabStep
<1>6. SessionOK'
    <2>1. CASE Respond(t)
        <3>1. session' = (session \/ tab[t].at = "answered")
            BY <2>1 DEF Respond
        <3> QED BY <1>1, <3>1, Zenon DEF SessionOK
    <2>2. CASE ~Respond(t)
        <3>1. session' = session
            BY <2>2 DEF TabStep, Enter, Login, SignsInThere, Callback, Exchange, CheckIdToken
        <3> QED BY <1>1, <3>1 DEF SessionOK
    <2> QED BY <2>1, <2>2
<1>7. KeysOK' /\ EventsOK' /\ events' \in {events, events + 1}
    <2>1. CASE CheckIdToken(t)
        <3>1. KeysOK' /\ events' = events
            BY <2>1, <1>1, <1>4, Looked, Judged DEF CheckIdToken
        <3> QED BY <1>1, <3>1 DEF EventsOK
    <2>2. CASE ~CheckIdToken(t)
        <3>1. UNCHANGED keyVars /\ (events' = events \/ Happens)
            BY <2>2 DEF TabStep, Enter, Login, SignsInThere, Callback, Exchange, Respond
        <3> QED BY <1>1, <1>4, <3>1, SignInAssumption, KeysStay DEF Happens, EventsOK
    <2> QED BY <2>1, <2>2
<1> QED BY <1>3, <1>5, <1>6, <1>7, ByTheBrowser

-----------------------------------------------------------------------------
(* A step of the worker, or of the time.                                   *)
LEMMA ByTheWorker ==
    ASSUME IInv, UNCHANGED <<browserVars, providerVars>>, KeysOK', EventsOK',
           events' \in {events, events + 1}, worker' \in WorkerType, SpentInTime'
    PROVE  IInv'
<1>1. BrowserOK /\ SessionOK /\ ProviderOK /\ EventsOK
    BY Types DEF IInv, Counted
<1>2. signing' = signing /\ published' = published /\ cookie' = cookie /\ session' = session
      /\ tab' = tab
    BY DEF browserVars, providerVars
<1>3. worker' \in WorkerType'
    BY <1>2 DEF WorkerType
<1>4. Counted'
    <2>1. signing \in Nat /\ events \in Nat
        BY <1>1, SignInAssumption DEF ProviderOK, EventsOK
    <2>2. signing <= events + 1
        BY Zenon DEF IInv, Counted
    <2>3. signing' <= events' + 1
        BY <1>2, <2>1, <2>2, CountedOn
    <2> QED BY <1>3, <2>3 DEF Counted
<1>5. BrowserOK' /\ SessionOK' /\ ProviderOK'
    BY <1>1, <1>2 DEF BrowserOK, SessionOK, ProviderOK, TabType
<1>6. TypeOK'
    BY <1>3, <1>5
       DEF TypeOK, WorkerType, BrowserOK, SessionOK, TabType, ProviderOK, KeysOK, EventsOK
<1> QED BY <1>4, <1>6 DEF IInv

(* What SpentInTime says of a worker, by its fields.                       *)
LEMMA WorkerFields ==
    ASSUME IInv
    PROVE  /\ worker \in WorkerType /\ signing \in Nat \ {0} /\ events \in Nat
           /\ worker.life \in Int /\ worker.use \in Nat /\ worker.late \in Nat
           /\ worker.took \in Nat /\ worker.kid \in 0 .. signing
           /\ worker.ttl \in Ttls \cup {0} /\ Lead(worker.ttl) \in Nat
<1>1. worker \in WorkerType /\ signing \in Nat \ {0} /\ events \in Nat
    BY Types, SignInAssumption DEF IInv, Counted, ProviderOK, EventsOK
<1>2. worker.ttl \in Ttls \cup {0}
    BY <1>1 DEF WorkerType
<1> QED BY <1>1, <1>2, LeadIsANumber DEF WorkerType

LEMMA TakeKeeps ==
    ASSUME IInv, Take
    PROVE  worker' \in WorkerType /\ SpentInTime'
<1>1. worker \in WorkerType /\ worker' = [worker EXCEPT !.at = "looking"] /\ Usable(worker)
    BY WorkerFields DEF Take
<1>2. worker' \in WorkerType
    BY <1>1 DEF WorkerType
<1>3. /\ worker'.at = "looking" /\ worker'.kid = worker.kid /\ worker'.life = worker.life
      /\ worker'.ttl = worker.ttl /\ worker'.use = worker.use /\ worker'.late = worker.late
      /\ worker'.took = worker.took
    BY <1>1 DEF WorkerType
<1>4. InUse /\ worker.use > 0
    BY <1>1 DEF IInv, SpentInTime, Usable
<1> QED BY <1>2, <1>3, <1>4, WorkerFields DEF SpentInTime, Asking, InUse, OnTheWay

LEMMA AskTokenKeeps ==
    ASSUME IInv, AskToken
    PROVE  worker' \in WorkerType /\ SpentInTime'
<1>1. PICK ttl \in Ttls :
        worker' = [NoToken EXCEPT !.at = "asking", !.kid = signing, !.ttl = ttl, !.life = ttl]
    BY DEF AskToken
<1>2. ttl \in Int /\ signing \in 0 .. signing /\ signing # 0
    BY WorkerFields, SignInAssumption
<1>3. worker' \in WorkerType
    BY <1>1, <1>2 DEF NoToken, WorkerType
<1> QED BY <1>1, <1>2, <1>3 DEF NoToken, SpentInTime, Asking, InUse, OnTheWay

LEMMA TokenArrivesKeeps ==
    ASSUME IInv, TokenArrives
    PROVE  worker' \in WorkerType /\ SpentInTime'
<1> DEFINE use == worker.ttl - Lead(worker.ttl)
<1>1. /\ worker \in WorkerType /\ worker.at = "asking"
      /\ worker' = [worker EXCEPT !.at = "looking", !.use = use, !.late = worker.took, !.took = 0]
    BY WorkerFields DEF TokenArrives
<1>2. worker.kid # 0 /\ worker.ttl \in Ttls /\ worker.life + worker.took >= worker.ttl
    BY <1>1 DEF IInv, SpentInTime, Asking
<1>3. use \in Nat /\ Lead(worker.ttl) < worker.ttl /\ worker.ttl \in Nat
    <2>1. worker.ttl \in Nat
        BY <1>2, SignInAssumption
    <2>2. Lead(worker.ttl) \in Nat /\ Lead(worker.ttl) < worker.ttl
        BY <1>2, LeadIsShorter
    <2> QED BY <2>1, <2>2
<1> HIDE DEF use
<1>4. worker' \in WorkerType
    BY <1>1, <1>3 DEF WorkerType
<1>5. /\ worker'.at = "looking" /\ worker'.kid = worker.kid /\ worker'.life = worker.life
      /\ worker'.ttl = worker.ttl /\ worker'.use = use /\ worker'.late = worker.took
      /\ worker'.took = 0
    BY <1>1 DEF WorkerType
<1>6. use + Lead(worker.ttl) = worker.ttl
    BY <1>3, LeadIsShorter, <1>2 DEF use
<1> QED BY <1>2, <1>3, <1>4, <1>5, <1>6, WorkerFields DEF SpentInTime, Asking, InUse, OnTheWay

(* A worker that is turned away, or served, keeps its token.               *)
LEMMA SettledKeeps ==
    ASSUME IInv, NEW at \in {"idle", "served"}, NEW took \in Nat, NEW had \in SUBSET (1 .. signing),
           worker' = [worker EXCEPT !.at = at, !.took = took, !.had = had]
    PROVE  worker' \in WorkerType /\ SpentInTime'
<1>1. worker' \in WorkerType
    BY WorkerFields DEF WorkerType
<1>2. /\ worker'.at = at /\ worker'.kid = worker.kid /\ worker'.life = worker.life
      /\ worker'.ttl = worker.ttl /\ worker'.use = worker.use /\ worker'.late = worker.late
    BY WorkerFields DEF WorkerType
<1> QED BY <1>1, <1>2 DEF IInv, SpentInTime, Asking, InUse, OnTheWay

LEMMA KnockKeeps ==
    ASSUME IInv, Knock
    PROVE  worker' \in WorkerType /\ SpentInTime' /\ KeysOK' /\ events' = events
<1>1. ProviderOK /\ KeysOK /\ signing' = signing
    BY Types DEF IInv, Counted, Knock, providerVars
<1>2. CASE worker.at = "looking"
    <2>1. PICK held : Look(held) /\ worker' = [worker EXCEPT !.at = "judging", !.had = held]
        BY <1>2 DEF Knock
    <2>2. KeysOK' /\ held \in SUBSET (1 .. signing) /\ events' = events
        BY <1>1, <2>1, Looked
    <2>3. worker' \in WorkerType
        BY <2>1, <2>2, WorkerFields DEF WorkerType
    <2>4. /\ worker'.at = "judging" /\ worker'.kid = worker.kid /\ worker'.life = worker.life
          /\ worker'.ttl = worker.ttl /\ worker'.use = worker.use /\ worker'.late = worker.late
          /\ worker'.took = worker.took
        BY <2>1, WorkerFields DEF WorkerType
    <2> QED BY <1>2, <2>2, <2>3, <2>4 DEF IInv, SpentInTime, Asking, InUse, OnTheWay
<1>3. CASE worker.at = "judging"
    <2>1. PICK ok \in BOOLEAN :
            /\ Judge(worker.kid, worker.life, worker.had, ok)
            /\ worker' = [worker EXCEPT !.at = IF ok THEN "served" ELSE "idle", !.took = 0, !.had = {}]
        BY <1>3 DEF Knock
    <2>2. KeysOK' /\ events' = events
        BY <1>1, <2>1, Judged
    <2>3. \E at \in {"idle", "served"} : worker' = [worker EXCEPT !.at = at, !.took = 0, !.had = {}]
        BY <2>1
    <2> QED BY <2>2, <2>3, SettledKeeps
<1> QED BY <1>2, <1>3 DEF Knock

LEMMA WorkerSteps ==
    ASSUME IInv, WorkerStep
    PROVE  IInv'
<1>1. KeysOK /\ EventsOK /\ ProviderOK
    BY Types DEF IInv, Counted
<1>2. CASE Knock
    <2>1. EventsOK'
        BY <1>1, <1>2, KnockKeeps DEF EventsOK
    <2> QED BY <1>2, <2>1, KnockKeeps, ByTheWorker DEF Knock
<1>3. CASE GoOn
    <2>1. worker' = [worker EXCEPT !.at = "idle", !.took = worker.took, !.had = worker.had]
        BY <1>3, WorkerFields DEF GoOn, WorkerType
    <2>2. worker.took \in Nat /\ worker.had \in SUBSET (1 .. signing)
        BY WorkerFields DEF WorkerType
    <2>3. worker' \in WorkerType /\ SpentInTime'
        BY <2>1, <2>2, SettledKeeps
    <2>4. KeysOK' /\ EventsOK' /\ events' = events
        BY <1>1, <1>3, KeysStay DEF GoOn, providerVars, EventsOK
    <2> QED BY <1>3, <2>3, <2>4, ByTheWorker DEF GoOn
<1>4. CASE Take \/ AskToken \/ TokenArrives
    <2>1. UNCHANGED <<browserVars, providerVars, keyVars, events>>
        BY <1>4 DEF Take, AskToken, TokenArrives
    <2>2. worker' \in WorkerType /\ SpentInTime'
        BY <1>4, TakeKeeps, AskTokenKeeps, TokenArrivesKeeps
    <2>3. KeysOK' /\ EventsOK' /\ events' = events
        BY <1>1, <2>1, KeysStay DEF providerVars, EventsOK
    <2> QED BY <2>1, <2>2, <2>3, ByTheWorker
<1> QED BY <1>2, <1>3, <1>4 DEF WorkerStep

(* A tick takes no more than one from every clock, and adds one to         *)
(* a call that is under way.                                               *)
LEMMA TickKeeps ==
    ASSUME IInv, Tick
    PROVE  IInv'
<1>1. KeysOK /\ EventsOK /\ ProviderOK
    BY Types DEF IInv, Counted
<1> DEFINE life == IF worker.kid = 0 THEN 0 ELSE AtLeast(worker.life - 1, -Skew - 1)
           use == AtLeast(worker.use - 1, 0)
           took == IF Calling THEN worker.took + 1 ELSE worker.took
<1>2. worker \in WorkerType /\ worker' = [worker EXCEPT !.life = life, !.use = use, !.took = took]
    BY WorkerFields DEF Tick
<1>3. life \in Int /\ (worker.kid # 0 => life >= worker.life - 1)
    BY WorkerFields DEF AtLeast, Skew, Minute
<1>4. use \in Nat /\ (use > 0 => use = worker.use - 1)
    BY WorkerFields DEF AtLeast
<1>5. took \in Nat /\ (Calling => took = worker.took + 1)
    BY WorkerFields
<1> HIDE DEF life, use, took
<1>6. worker' \in WorkerType
    BY <1>2, <1>3, <1>4, <1>5 DEF WorkerType
<1>7. /\ worker'.at = worker.at /\ worker'.kid = worker.kid /\ worker'.ttl = worker.ttl
      /\ worker'.late = worker.late /\ worker'.life = life /\ worker'.use = use
      /\ worker'.took = took
    BY <1>2 DEF WorkerType
<1>8. SpentInTime'
    <2>1. Asking'
        <3> SUFFICES ASSUME worker'.at = "asking"
                     PROVE  worker'.kid # 0 /\ worker'.ttl \in Ttls
                            /\ worker'.life + worker'.took >= worker'.ttl
            BY DEF Asking
        <3>1. worker.kid # 0 /\ worker.ttl \in Ttls /\ worker.life + worker.took >= worker.ttl
            BY <1>7 DEF IInv, SpentInTime, Asking
        <3>2. worker.ttl \in Nat
            BY <3>1, SignInAssumption
        <3>3. took = worker.took + 1
            BY <1>5, <1>7 DEF Calling
        <3> QED BY <1>3, <1>7, <3>1, <3>2, <3>3, WorkerFields
    <2>2. InUse'
        BY <1>3, <1>4, <1>7, WorkerFields DEF IInv, SpentInTime, InUse
    <2>3. OnTheWay'
        BY <1>3, <1>5, <1>7, WorkerFields DEF IInv, SpentInTime, OnTheWay, Calling
    <2> QED BY <2>1, <2>2, <2>3 DEF SpentInTime
<1>9. KeysOK'
    BY <1>1 DEF Tick, KeysOK, AtMost, MinRefetch, Minute, providerVars
<1>10. EventsOK' /\ events' \in {events, events + 1}
    BY <1>1, SignInAssumption DEF Tick, Happens, EventsOK
<1> QED BY <1>6, <1>8, <1>9, <1>10, ByTheWorker DEF Tick

-----------------------------------------------------------------------------
(* What happens outside, each counted as an event.                         *)
LEMMA HappensCounted ==
    ASSUME EventsOK, Happens
    PROVE  EventsOK' /\ events' = events + 1
BY SignInAssumption DEF Happens, EventsOK

LEMMA BrowserEvents ==
    ASSUME IInv, (\E t \in Tabs : SignInFails(t)) \/ CookieExpires \/ SessionEnds
    PROVE  IInv'
<1>1. BrowserOK /\ SessionOK /\ ProviderOK /\ KeysOK /\ EventsOK /\ signing \in Nat
    BY Types, WorkerFields DEF IInv, Counted
<1>2. UNCHANGED <<worker, providerVars, keyVars>> /\ Happens
    BY DEF SignInFails, CookieExpires, SessionEnds
<1>3. signing' = signing /\ EventsOK' /\ events' = events + 1 /\ KeysOK'
    BY <1>1, <1>2, HappensCounted, KeysStay DEF providerVars
<1>4. Out \in TabType /\ [Out EXCEPT !.at = "refused"] \in TabType
    BY <1>1 DEF TabType, Out
<1>5. BrowserOK'
    <2>1. ASSUME NEW t \in Tabs, SignInFails(t) PROVE BrowserOK'
        BY <1>1, <1>3, <1>4, <2>1, TabGoes DEF SignInFails
    <2>2. CASE CookieExpires
        BY <1>1, <1>3, <2>2 DEF CookieExpires, BrowserOK, TabType
    <2>3. CASE SessionEnds
        <3>1. tab' \in [Tabs -> TabType] /\ cookie' \in Tabs \cup {None}
            BY <1>1, <1>4, <2>3 DEF SessionEnds, BrowserOK
        <3>2. TabType' = TabType
            BY <1>3 DEF TabType
        <3> QED BY <3>1, <3>2 DEF BrowserOK
    <2> QED BY <2>1, <2>2, <2>3
<1>6. SessionOK'
    <2>1. session' = session \/ session' = FALSE
        BY DEF SignInFails, CookieExpires, SessionEnds
    <2> QED BY <1>1, <2>1 DEF SessionOK
<1> QED BY <1>2, <1>3, <1>5, <1>6, ByTheBrowser

LEMMA CallFailsKeeps ==
    ASSUME IInv, CallFails
    PROVE  IInv'
<1>1. EventsOK' /\ events' = events + 1 /\ KeysOK'
    <2>1. KeysOK /\ ProviderOK /\ EventsOK
        BY Types DEF IInv, Counted
    <2> QED BY <2>1, HappensCounted, KeysStay DEF CallFails, providerVars
<1>2. worker' \in WorkerType /\ SpentInTime'
    <2>1. CASE worker.at = "asking"
        <3>1. worker' = NoToken
            BY <2>1 DEF CallFails
        <3> QED BY <3>1, WorkerFields
                DEF NoToken, WorkerType, SpentInTime, Asking, InUse, OnTheWay
    <2>2. CASE worker.at # "asking"
        <3>1. worker' = [worker EXCEPT !.at = "idle", !.took = 0, !.had = {}]
            BY <2>2 DEF CallFails, Refuse
        <3> QED BY <3>1, SettledKeeps
    <2> QED BY <2>1, <2>2
<1> QED BY <1>1, <1>2, ByTheWorker DEF CallFails

(* A key more is a key that all that was typed before does not name.       *)
LEMMA RotateKeeps ==
    ASSUME IInv, Rotate
    PROVE  IInv'
<1>1. /\ BrowserOK /\ SessionOK /\ ProviderOK /\ KeysOK /\ EventsOK
      /\ signing \in Nat \ {0} /\ events \in Nat
    BY Types, WorkerFields DEF IInv, Counted
<1>2. /\ UNCHANGED <<worker, keys, age, cookie, session, tab>> /\ signing' = signing + 1
      /\ Happens /\ published' \in {{signing + 1}, published \cup {signing + 1}}
    BY DEF Rotate, browserVars, keyVars
<1>3. EventsOK' /\ events' = events + 1
    BY <1>1, <1>2, HappensCounted
<1>4. 1 .. signing \subseteq 1 .. signing' /\ 0 .. signing \subseteq 0 .. signing'
    BY <1>1, <1>2
<1>5. signing' <= events' + 1
    <2>1. signing <= events + 1
        BY Zenon DEF IInv, Counted
    <2> QED BY <1>1, <1>2, <1>3, <2>1
<1>6. worker' \in WorkerType'
    BY <1>2, <1>4, WorkerFields DEF WorkerType
<1>7. BrowserOK'
    <2>1. TabType \subseteq TabType'
        BY <1>4 DEF TabType
    <2> QED BY <1>1, <1>2, <2>1 DEF BrowserOK
<1>8. SessionOK'
    BY <1>1, <1>2 DEF SessionOK
<1>9. KeysOK'
    BY <1>1, <1>2, <1>4 DEF KeysOK
<1>10. ProviderOK'
    <2>1. published \subseteq 1 .. signing'
        BY <1>1, <1>4 DEF ProviderOK
    <2>2. signing' \in 1 .. signing' /\ signing' = signing + 1
        BY <1>1, <1>2
    <2>3. signing' \in 1 .. MaxEvents + 1
        BY <1>1, <1>2, <1>3, <1>5, SignInAssumption DEF EventsOK
    <2> QED BY <1>2, <2>1, <2>2, <2>3 DEF ProviderOK
<1>11. SpentInTime'
    BY <1>2 DEF IInv, SpentInTime, Asking, InUse, OnTheWay
<1>12. TypeOK'
    BY <1>3, <1>6, <1>7, <1>8, <1>9, <1>10
       DEF TypeOK, WorkerType, BrowserOK, SessionOK, TabType, ProviderOK, KeysOK, EventsOK
<1> QED BY <1>5, <1>6, <1>11, <1>12 DEF IInv, Counted

LEMMA RestartKeeps ==
    ASSUME IInv, Restart
    PROVE  IInv'
<1>1. /\ BrowserOK /\ SessionOK /\ ProviderOK /\ KeysOK /\ EventsOK
      /\ signing \in Nat \ {0} /\ events \in Nat
    BY Types, WorkerFields DEF IInv, Counted
<1>2. /\ UNCHANGED <<cookie, session, signing, published>> /\ Happens
      /\ keys' = {} /\ age' = MinRefetch
      /\ tab' = [t \in Tabs |-> IF tab[t].at \in {"provider", "callback", "in"}
                               THEN tab[t] ELSE Out]
    BY DEF Restart, providerVars
<1>3. EventsOK' /\ events' = events + 1
    BY <1>1, <1>2, HappensCounted
<1>4. KeysOK'
    BY <1>2 DEF KeysOK, MinRefetch, Minute
<1>5. worker' \in WorkerType /\ SpentInTime'
    <2>1. CASE worker.at \in {"looking", "judging"}
        <3>1. worker' = [worker EXCEPT !.at = "idle", !.took = 0, !.had = {}]
            BY <2>1 DEF Restart, Refuse
        <3> QED BY <3>1, SettledKeeps
    <2>2. CASE worker.at \notin {"looking", "judging"}
        <3>1. worker' = worker
            BY <2>2 DEF Restart
        <3> QED BY <3>1, WorkerFields DEF IInv, SpentInTime, Asking, InUse, OnTheWay
    <2> QED BY <2>1, <2>2
<1>6. worker' \in WorkerType' /\ TabType' = TabType
    BY <1>2, <1>5 DEF WorkerType, TabType
<1>7. BrowserOK'
    <2>1. Out \in TabType
        BY <1>1 DEF TabType, Out
    <2> QED BY <1>1, <1>2, <1>6, <2>1 DEF BrowserOK
<1>8. SessionOK' /\ ProviderOK'
    BY <1>1, <1>2 DEF SessionOK, ProviderOK
<1>9. signing' <= events' + 1
    <2>1. signing <= events + 1
        BY Zenon DEF IInv, Counted
    <2> QED BY <1>1, <1>2, <1>3, <2>1
<1>10. TypeOK'
    BY <1>3, <1>4, <1>6, <1>7, <1>8
       DEF TypeOK, WorkerType, BrowserOK, SessionOK, TabType, ProviderOK, KeysOK, EventsOK
<1> QED BY <1>5, <1>6, <1>9, <1>10 DEF IInv, Counted

(* Every step keeps the invariant.                                         *)
LEMMA NextIInv == IInv /\ [Next]_vars => IInv'
<1> SUFFICES ASSUME IInv, [Next]_vars PROVE IInv'
    OBVIOUS
<1>1. CASE UNCHANGED vars
    <2>1. /\ worker' = worker /\ signing' = signing /\ events' = events
          /\ UNCHANGED <<worker, providerVars>>
        BY <1>1 DEF vars, providerVars
    <2>2. BrowserOK' /\ SessionOK' /\ KeysOK' /\ EventsOK'
        BY <1>1, Types DEF vars, browserVars, providerVars, keyVars, IInv, Counted, BrowserOK,
              TabType, SessionOK, KeysOK, EventsOK
    <2> QED BY <2>1, <2>2, ByTheBrowser
<1>2. CASE Next
    BY <1>2, TabSteps, WorkerSteps, TickKeeps, BrowserEvents, CallFailsKeeps, RotateKeeps,
       RestartKeeps DEF Next, Outside
<1> QED BY <1>1, <1>2

-----------------------------------------------------------------------------
(* The types, for every number of tabs and events (auth.go, bearer.go).    *)
THEOREM TypeCorrect == Spec => []TypeOK
<1>1. Init => IInv
    BY InitIInv
<1>2. IInv /\ [Next]_vars => IInv'
    BY NextIInv
<1>3. IInv => TypeOK
    BY Zenon DEF IInv
<1> QED BY <1>1, <1>2, <1>3, PTL DEF Spec

(* Whatever lives the tokens are given, one is sent after its end only     *)
(* when the calls that brought it and carry it took longer than the lead   *)
(* (bearer.go, Token).                                                     *)
THEOREM NoTokenExpiresInFlight == Spec => []OnlySlowCallsExpire
<1>1. Init => IInv
    BY InitIInv
<1>2. IInv /\ [Next]_vars => IInv'
    BY NextIInv
<1>3. IInv => OnlySlowCallsExpire
    BY WorkerFields DEF IInv, SpentInTime, OnTheWay, OnlySlowCallsExpire
<1> QED BY <1>1, <1>2, <1>3, PTL DEF Spec

(* A worker that is turned away with a good token was turned away in the   *)
(* minute after the keys were fetched: the step is a Judge that found the  *)
(* key id unknown and might not ask again (auth.go, jwks and verifyToken). *)
LEMMA TurnedAway ==
    ASSUME IInv, Next, worker.at = "judging", worker'.at = "idle", events' = events,
           worker.kid \in published, worker.life >= -Skew
    PROVE  age < MinRefetch
<1>1. worker \in WorkerType /\ events \in Nat
    BY WorkerFields
<1>2. KeysOK
    BY Types DEF IInv, Counted
<1>3. ~Happens
    BY <1>1 DEF Happens
<1>4. ~Outside
    BY <1>3 DEF Outside, SignInFails, CookieExpires, SessionEnds, CallFails, Rotate, Restart
<1>5. ~Tick
    <2>1. Tick => worker'.at = worker.at
        BY <1>1 DEF Tick, WorkerType
    <2> QED BY <2>1
<1>6. ~(\E t \in Tabs : TabStep(t))
    <2>1. ASSUME NEW t \in Tabs, TabStep(t) PROVE worker' = worker
        BY <2>1 DEF TabStep, Enter, Login, SignsInThere, Callback, Exchange, CheckIdToken, Respond
    <2> QED BY <2>1
<1>7. Knock
    BY <1>4, <1>5, <1>6 DEF Next, WorkerStep, Take, AskToken, TokenArrives, GoOn
<1>8. PICK ok \in BOOLEAN :
        /\ Judge(worker.kid, worker.life, worker.had, ok)
        /\ worker' = [worker EXCEPT !.at = IF ok THEN "served" ELSE "idle", !.took = 0, !.had = {}]
    BY <1>7 DEF Knock
<1>9. ~ok
    BY <1>1, <1>8 DEF WorkerType
<1>10. ~MayRefetch
    BY <1>8, <1>9 DEF Judge, Verified
<1> QED BY <1>2, <1>10 DEF MayRefetch, KeysOK, MinRefetch, Minute

(* A good token the gate turns away was judged by keys that were fetched   *)
(* less than a minute ago, unless a call to the provider failed (auth.go,  *)
(* verifyToken and jwks).                                                  *)
THEOREM KeysAreAskedAgain == Spec => KeysFollowRotation
<1>1. Init => IInv
    BY InitIInv
<1>2. IInv /\ [Next]_vars => IInv'
    BY NextIInv
<1> DEFINE Step ==
        worker.at = "judging" /\ worker'.at = "idle" /\ events' = events
        /\ worker.kid \in published /\ worker.life >= -Skew
        => age < MinRefetch
<1>3. IInv /\ [Next]_vars => [Step]_vars
    BY TurnedAway
<1>4. Spec => [][Step]_vars
    BY <1>1, <1>2, <1>3, PTL DEF Spec
<1> QED BY <1>4 DEF KeysFollowRotation
=============================================================================
