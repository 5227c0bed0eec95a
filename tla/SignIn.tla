------------------------------- MODULE SignIn -------------------------------
(***************************************************************************)
(* The household's door: a browser that signs in through the identity      *)
(* provider, a worker that carries a token of its own, and the gate that   *)
(* knows them by the provider's keys (cmd/server/auth.go, internal/auth,   *)
(* internal/bearer).                                                       *)
(*                                                                         *)
(* The provider rotates its keys, calls fail, the server restarts and two  *)
(* tabs of one browser share its cookies. Time goes by in thirds of a      *)
(* minute; windows of minutes and days (a login's cookie, a session) end   *)
(* when an event says so.                                                  *)
(***************************************************************************)
EXTENDS Integers, FiniteSets

CONSTANTS
    Tabs,           \* of the browser
    Main,           \* the tab in which a person starts again after a refusal
    Ttls,           \* the lives a worker's token may be given
    MaxEvents,
    None

ASSUME SignInAssumption ==
    /\ Main \in Tabs /\ IsFiniteSet(Tabs) /\ MaxEvents \in Nat
    /\ Ttls \subseteq Nat \ {0, 1}

VARIABLES
    cookie,     \* the browser's flickr_auth: the tab whose login it is of, or None
    session,    \* does the browser hold a flickr_session that is good
    tab,        \* tab -> where its login is
    signing,    \* the provider's newest key
    published,  \* the keys its JWKS names
    keys, age,  \* the keys the server holds; thirds of a minute since it fetched them
    worker,     \* a transcriber or converter and its token
    events

browserVars == <<cookie, session, tab>>
providerVars == <<signing, published>>
keyVars == <<keys, age>>
vars == <<browserVars, providerVars, keyVars, worker, events>>

Minute == 3
Skew == Minute          \* how far an expiry is believed to be out
MinRefetch == Minute    \* jwksMinRefetch
RefreshLead == Minute

AtMost(n, m) == IF n <= m THEN n ELSE m
AtLeast(n, m) == IF n >= m THEN n ELSE m

Out == [at |-> "out", kid |-> 0, had |-> {}]
NoToken == [at |-> "idle", kid |-> 0, life |-> 0, ttl |-> 0, use |-> 0, late |-> 0, took |-> 0,
            had |-> {}]

Init ==
    /\ cookie = None /\ session = FALSE /\ tab = [t \in Tabs |-> Out]
    /\ signing = 1 /\ published = {1}
    /\ keys = {} /\ age = MinRefetch
    /\ worker = NoToken /\ events = 0

Happens == events < MaxEvents /\ events' = events + 1

-----------------------------------------------------------------------------
(* The gate. The doors themselves, the health check, the device door and   *)
(* the shell stand outside it.                                             *)
gatedPath_All(p) == p # "shell"     \* a mutation: a locked room with the key inside
gatedPath(p) == p \in {"api", "streams", "share"}
Refused(p) == ~session /\ gatedPath(p)

-----------------------------------------------------------------------------
(* verifyToken, of a token by its key id: what is held, fetched when there *)
(* is nothing; again, when the id is unknown and a minute has gone by. The *)
(* lock is held for each of the two fetches and not between them.          *)
MayRefetch_First == keys = {}   \* a mutation: an unknown key id is not asked about
MayRefetch == keys = {} \/ age >= MinRefetch
Fetch == keys' = published /\ age' = 0

Look(held) ==
    \/ keys # {} /\ held = keys /\ UNCHANGED <<keyVars, events>>
    \/ keys = {} /\ held = published /\ Fetch /\ UNCHANGED events

Verified(kid, life, held) == kid \in held /\ life >= -Skew

Judge(kid, life, had, ok) ==
    \/ kid \in had /\ ok = Verified(kid, life, had) /\ UNCHANGED <<keyVars, events>>
    \/ /\ kid \notin had /\ ~MayRefetch
       /\ ok = Verified(kid, life, keys) /\ UNCHANGED <<keyVars, events>>
    \/ /\ kid \notin had /\ MayRefetch
       /\ ok = Verified(kid, life, published) /\ Fetch /\ UNCHANGED events

-----------------------------------------------------------------------------
(* The browser. A page is refused and follows the remedy; a tab that reads *)
(* it with the session is in.                                              *)
Go(t, at) == tab' = [tab EXCEPT ![t].at = at]

Enter(t) ==
    /\ tab[t].at = "out" /\ ~Refused("api")
    /\ Go(t, "in")
    /\ UNCHANGED <<cookie, session, providerVars, keyVars, worker, events>>

(* handleLogin: the cookie is the newest login's.                          *)
Login(t) ==
    /\ tab[t].at = "out" /\ Refused("api") /\ ~Refused("auth")
    /\ IF t = Main THEN UNCHANGED events ELSE Happens
    /\ cookie' = t
    /\ Go(t, "provider")
    /\ UNCHANGED <<session, providerVars, keyVars, worker>>

SignsInThere(t) ==
    /\ tab[t].at = "provider"
    /\ Go(t, "callback")
    /\ UNCHANGED <<cookie, session, providerVars, keyVars, worker, events>>

(* handleCallback: the state must be the cookie's.                         *)
Callback(t) ==
    /\ tab[t].at = "callback"
    /\ Go(t, IF cookie = t THEN "exchange" ELSE "refused")
    /\ UNCHANGED <<cookie, session, providerVars, keyVars, worker, events>>

Exchange(t) ==
    /\ tab[t].at = "exchange"
    /\ tab' = [tab EXCEPT ![t].at = "looking", ![t].kid = signing]
    /\ UNCHANGED <<cookie, session, providerVars, keyVars, worker, events>>

CheckIdToken(t) ==
    /\ \/ /\ tab[t].at = "looking"
          /\ \E held \in {keys, published} :
                Look(held) /\ tab' = [tab EXCEPT ![t].at = "judging", ![t].had = held]
       \/ /\ tab[t].at = "judging"
          /\ \E ok \in BOOLEAN :
                /\ Judge(tab[t].kid, 0, tab[t].had, ok)
                /\ tab' = [tab EXCEPT ![t] = [Out EXCEPT !.at = IF ok THEN "answered" ELSE "refused"]]
    /\ UNCHANGED <<cookie, session, providerVars, worker>>

(* Both answers clear the cookie, whichever login it is of by now.         *)
Respond(t) ==
    /\ tab[t].at \in {"answered", "refused"}
    /\ cookie' = None
    /\ session' = (session \/ tab[t].at = "answered")
    /\ Go(t, IF tab[t].at = "answered" THEN "in" ELSE "out")
    /\ UNCHANGED <<providerVars, keyVars, worker, events>>

SignInFails(t) ==
    /\ Happens /\ tab[t].at \in {"callback", "exchange", "looking", "judging"}
    /\ tab' = [tab EXCEPT ![t] = [Out EXCEPT !.at = "refused"]]
    /\ UNCHANGED <<cookie, session, providerVars, keyVars, worker>>

CookieExpires ==
    /\ Happens /\ cookie # None
    /\ cookie' = None
    /\ UNCHANGED <<session, tab, providerVars, keyVars, worker>>

(* A month is over, or handleLogout, in any tab.                           *)
SessionEnds ==
    /\ Happens /\ session
    /\ session' = FALSE /\ cookie' \in {cookie, None}
    /\ tab' = [t \in Tabs |-> IF tab[t].at = "in" THEN Out ELSE tab[t]]
    /\ UNCHANGED <<providerVars, keyVars, worker>>

-----------------------------------------------------------------------------
(* The worker. The token it holds serves until a minute, or half its life, *)
(* before its end, counted from the moment it arrived; a refusal does not  *)
(* make it ask for another.                                                *)
Lead_AMinute(ttl) == RefreshLead    \* a mutation: as much of a short life as of a long one
Lead(ttl) == IF ttl <= RefreshLead THEN ttl \div 2 ELSE RefreshLead

Usable_Held(w) == w.kid # 0     \* a mutation: a token is never thrown away
Usable(w) == w.kid # 0 /\ w.use > 0

Take ==
    /\ worker.at = "idle" /\ Usable(worker)
    /\ worker' = [worker EXCEPT !.at = "looking"]
    /\ UNCHANGED <<browserVars, providerVars, keyVars, events>>

AskToken ==
    /\ worker.at = "idle" /\ ~Usable(worker)
    /\ \E ttl \in Ttls :
          worker' = [NoToken EXCEPT !.at = "asking", !.kid = signing, !.ttl = ttl, !.life = ttl]
    /\ UNCHANGED <<browserVars, providerVars, keyVars, events>>

TokenArrives_ToTheEnd ==    \* a mutation: it serves until it expires
    /\ worker.at = "asking"
    /\ worker' = [worker EXCEPT !.at = "looking", !.use = worker.ttl, !.late = worker.took, !.took = 0]
    /\ UNCHANGED <<browserVars, providerVars, keyVars, events>>

TokenArrives ==
    /\ worker.at = "asking"
    /\ worker' = [worker EXCEPT !.at = "looking", !.use = worker.ttl - Lead(worker.ttl),
                                !.late = worker.took, !.took = 0]
    /\ UNCHANGED <<browserVars, providerVars, keyVars, events>>

(* viewerOf, of the request it sends.                                      *)
Knock ==
    /\ \/ /\ worker.at = "looking"
          /\ \E held \in {keys, published} :
                Look(held) /\ worker' = [worker EXCEPT !.at = "judging", !.had = held]
       \/ /\ worker.at = "judging"
          /\ \E ok \in BOOLEAN :
                /\ Judge(worker.kid, worker.life, worker.had, ok)
                /\ worker' = [worker EXCEPT !.at = IF ok THEN "served" ELSE "idle", !.took = 0, !.had = {}]
    /\ UNCHANGED <<browserVars, providerVars>>

(* It asks for its next file.                                              *)
GoOn ==
    /\ worker.at = "served"
    /\ worker' = [worker EXCEPT !.at = "idle"]
    /\ UNCHANGED <<browserVars, providerVars, keyVars, events>>

Refuse(w) == [w EXCEPT !.at = "idle", !.took = 0, !.had = {}]

CallFails ==
    /\ Happens /\ worker.at \in {"asking", "looking", "judging"}
    /\ worker' = IF worker.at = "asking" THEN NoToken ELSE Refuse(worker)
    /\ UNCHANGED <<browserVars, providerVars, keyVars>>

-----------------------------------------------------------------------------
Rotate ==
    /\ Happens
    /\ signing' = signing + 1 /\ published' \in {{signing + 1}, published \cup {signing + 1}}
    /\ UNCHANGED <<browserVars, keyVars, worker>>

(* The server's memory is the keys; a login's cookie is the browser's.     *)
Restart ==
    /\ Happens
    /\ keys' = {} /\ age' = MinRefetch
    /\ tab' = [t \in Tabs |-> IF tab[t].at \in {"provider", "callback", "in"} THEN tab[t] ELSE Out]
    /\ worker' = IF worker.at \in {"looking", "judging"}
                 THEN Refuse(worker) ELSE worker
    /\ UNCHANGED <<cookie, session, providerVars>>

(* Time goes by. That a call takes longer than a third of a minute is an   *)
(* event.                                                                  *)
Calling == worker.at \in {"asking", "looking", "judging"}

Tick ==
    /\ IF Calling /\ worker.took > 0 THEN Happens ELSE UNCHANGED events
    /\ age' = AtMost(age + 1, MinRefetch)
    /\ worker' = [worker EXCEPT !.life = IF worker.kid = 0 THEN 0 ELSE AtLeast(@ - 1, -Skew - 1),
                                !.use = AtLeast(@ - 1, 0),
                                !.took = IF Calling THEN @ + 1 ELSE @]
    /\ UNCHANGED <<browserVars, providerVars, keys>>

-----------------------------------------------------------------------------
TabStep(t) ==
    \/ Enter(t) \/ Login(t) \/ SignsInThere(t) \/ Callback(t)
    \/ Exchange(t) \/ CheckIdToken(t) \/ Respond(t)
WorkerStep == Take \/ AskToken \/ TokenArrives \/ Knock \/ GoOn
Outside ==
    \/ \E t \in Tabs : SignInFails(t)
    \/ CookieExpires \/ SessionEnds \/ CallFails \/ Rotate \/ Restart

Next == (\E t \in Tabs : TabStep(t)) \/ WorkerStep \/ Tick \/ Outside

Spec == Init /\ [][Next]_vars

(* A person starts again in one tab, a worker asks again for ever, every   *)
(* handler that has begun ends, and time goes by.                          *)
FairSpec ==
    /\ Spec /\ WF_vars(Tick) /\ WF_vars(WorkerStep)
    /\ \A t \in Tabs : WF_vars(TabStep(t))

-----------------------------------------------------------------------------
TypeOK ==
    /\ cookie \in Tabs \cup {None} /\ session \in BOOLEAN
    /\ tab \in [Tabs -> [at : {"out", "provider", "callback", "exchange", "looking", "judging",
                               "answered", "refused", "in"},
                         kid : 0 .. signing, had : SUBSET (1 .. signing)]]
    /\ signing \in 1 .. MaxEvents + 1 /\ published \subseteq 1 .. signing /\ signing \in published
    /\ keys \subseteq 1 .. signing /\ age \in 0 .. MinRefetch /\ events \in 0 .. MaxEvents
    /\ worker.at \in {"idle", "asking", "looking", "judging", "served"}
    /\ worker.kid \in 0 .. signing /\ worker.use \in Nat /\ worker.ttl \in Ttls \cup {0}

(* A token is sent after its end only when the calls that brought it and   *)
(* carry it took longer than the minute, or the half of a short life, that *)
(* the worker leaves for them (bearer.go, Token: a token that expires in   *)
(* flight fails an hour of transcription at the last step).                *)
OnlySlowCallsExpire ==
    worker.at \in {"looking", "judging"} /\ worker.life < 0
    => worker.late + worker.took > Lead(worker.ttl)

(* A good token is turned away only for the minute after the keys were     *)
(* fetched, or by a call to the provider that failed (auth.go, verifyToken *)
(* and jwks).                                                              *)
KeysFollowRotation ==
    [][worker.at = "judging" /\ worker'.at = "idle" /\ events' = events
       /\ worker.kid \in published /\ worker.life >= -Skew
       => age < MinRefetch]_vars

(* Whoever keeps trying gets in and stays in, after refusals, restarts,    *)
(* rotations, cookies that ran out and a second tab's logins.              *)
HouseholdGetsIn == <>[](session /\ tab[Main].at = "in")
WorkerIsServed == []<>(worker.at = "served")
=============================================================================
