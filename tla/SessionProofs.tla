---------------------------- MODULE SessionProofs ----------------------------
(* Proofs about Session: its type invariant, and that however requests are     *)
(* refused, answered, lost and repeated, one refresh is under way at a time    *)
(* (OneRefresh), a signed-out tab stays signed out (SignedOutStays), and an    *)
(* OAuth state is exchanged once (CallbackOnce).                               *)
EXTENDS Session, FiniteSetTheorems, TLAPS

(* ---- the inductive invariant ---- *)
\* The flow carries a user wherever a handler takes one out of it.
Carried == {r \in Requests :
    /\ r.rpc \in {"create", "signin", "sso"} => r.for \in Users
    /\ r.rpc = "me" /\ r.pc = "served" => r.ans \in Users \cup Errors}

TypeInv == TypeOK /\ req \in [Slots -> Carried]

\* The manager knows the one refresh that is under way.
RefreshInv ==
    \A i \in Refreshes : /\ refresh[i].pc # "idle" <=> manager = i
                         /\ refresh[i].pc = "idle" => refresh[i].tok = None

\* The stored state and those not issued yet have not been exchanged.
OAuthInv ==
    /\ oauth.id <= oauth.last
    /\ \A n \in 1..MaxStates : /\ exchanged[n] <= 1
                               /\ n = oauth.id \/ oauth.last < n => exchanged[n] = 0

\* After a confirmed sign-out no token is left anywhere in the flow, nor the means to get one.
SignedOutFlow(r) ==
    \/ r.pc = "idle"
    \/ r.rpc = "me" /\ r.tok = None /\ (r.pc = "served" => r.ans \in Errors)

GoneInv ==
    gone => /\ cookie = None /\ mem = None /\ stored = None /\ auth.user = None
            /\ \A i \in Refreshes : refresh[i].tok = None
            /\ SignedOutFlow(req["flow"])

\* The tokens, answers and settings of a tab are those of the user it shows, or, while a sign-in is
\* initialised, of the one user it is for; before the first render there is nothing but that.
Initializing(r) == r.pc # "idle" /\ r.rpc \in {"me", "settings"}
Joining(r)      == r.pc # "idle" /\ r.rpc \in {"me", "settings", "signin", "create", "sso"}
Own(x)          == x \in Users => x = auth.user
InFlow          == {mem, stored, req["flow"].tok} \cap Users

OwnUser  == auth.settings = auth.user /\ cache \subseteq {auth.user}
OwnStart == ~auth.init =>
                /\ auth.user = None
                /\ \A q \in Background : req[q] = Idle
                /\ req["flow"].pc # "idle" => Initializing(req["flow"])
                /\ \A i \in Refreshes :
                     refresh[i].pc # "idle" => req["flow"].pc = "waiting" /\ req["flow"].on = i
OwnToken == auth.init =>
                /\ Joining(req["flow"]) => path \in AuthPages
                /\ ~Initializing(req["flow"]) => Own(mem) /\ Own(stored)
OwnAsked(q) ==  /\ Own(req[q].tok) /\ (req[q].ans \notin Errors => Own(req[q].ans))
                /\ req[q].rpc = "settings" => auth.user # None /\ req[q].for = auth.user
OwnFlow  == LET r == req["flow"] IN
                Initializing(r) =>
                    /\ auth.user = None
                    /\ \A x, y \in InFlow : x = y
                    /\ r.pc = "served" /\ r.ans \notin Errors =>
                           InFlow \subseteq {r.ans} /\ (r.rpc = "settings" => r.ans = r.for)
OwnTab   == OwnUser /\ OwnStart /\ OwnToken /\ (\A q \in Background : OwnAsked(q)) /\ OwnFlow

OwnInv == leaving = None /\ ~mixed => OwnTab

(* ---- what the operators of the interceptor and of a page load return ---- *)
USE SessionAssumption

LEMMA IdleCarried == Idle \in Carried
    BY DEF Idle, Carried, Requests, Tokens, Rpcs, Refreshes

LEMMA RestoredType == TokenType => /\ \A m \in Tokens : Restored(m) \in Tokens /\ Kept(m) \in Tokens
    BY DEF TokenType, Restored, Kept, Tokens

LEMMA RequestCarried ==
    ASSUME TokenType, NEW rpc \in Rpcs, NEW for \in Users \cup {None}, NEW form \in BOOLEAN,
           NEW m \in Tokens, rpc \in {"create", "signin", "sso"} => for \in Users
    PROVE  Request(rpc, for, form, m) \in Carried
    <1>1. Restored(m) \in Tokens
        BY RestoredType
    <1>2. Idle \in Requests
        BY IdleCarried DEF Carried
    <1> HIDE DEF Idle
    <1>3. Request(rpc, for, form, m) \in Requests
        BY <1>1, <1>2 DEF Request, Requests
    <1>4. /\ Request(rpc, for, form, m).rpc = rpc /\ Request(rpc, for, form, m).for = for
          /\ Request(rpc, for, form, m).pc = "sent"
        BY <1>2 DEF Request, Requests
    <1> QED BY <1>3, <1>4 DEF Carried

LEMMA CallType ==
    ASSUME TypeInv, NEW s \in Slots, NEW rpc \in Rpcs, NEW for \in Users \cup {None},
           NEW form \in BOOLEAN, rpc \in {"create", "signin", "sso"} => for \in Users,
           Call(s, rpc, for, form)
    PROVE  req' \in [Slots -> Carried] /\ TokenType'
    <1>1. TokenType /\ mem \in Tokens /\ req \in [Slots -> Carried]
        BY DEF TypeInv, TypeOK, TokenType
    <1>2. Request(rpc, for, form, mem) \in Carried
        BY <1>1, RequestCarried
    <1> QED BY <1>1, <1>2, RestoredType DEF Call, TokenType

LEMMA AnsweredType ==
    ASSUME TypeInv, NEW s \in Slots, NEW a \in Users \cup {None, Anon} \cup Errors,
           req[s].rpc = "me" => a \in Users \cup Errors, Answered(s, a)
    PROVE  req' \in [Slots -> Carried]
    <1>1. req \in [Slots -> Carried]
        BY DEF TypeInv
    <1>2. [req[s] EXCEPT !.pc = "served", !.ans = a] \in Carried
        BY ZenonT(90), <1>1 DEF Carried, Requests
    <1>3. req' = [req EXCEPT ![s] = [req[s] EXCEPT !.pc = "served", !.ans = a]]
        BY <1>1 DEF Answered
    <1> QED BY <1>1, <1>2, <1>3

LEMMA RedirectType == ASSUME TypeInv, NEW s PROVE AfterRetry(s) \in Paths \cup {None}
    <1>1. leaving \in Paths \cup {None}
        BY DEF TypeInv, TypeOK, PageType
    <1>2. Redirect \in Paths \cup {None}
        BY <1>1 DEF Redirect, Target, Paths, Public, AuthPages
    <1> QED BY <1>1, <1>2 DEF AfterRetry

LEMMA BootType ==
    ASSUME TypeInv, NEW p \in Paths, Boot(p)
    PROVE  /\ req' \in [Slots -> Carried]
           /\ TokenType' /\ RefreshType' /\ AuthType' /\ ServerType' /\ PageType'
           /\ oauth' = oauth /\ exchanged' = exchanged
    <1>1. ServerType /\ TokenType /\ PageType
        BY DEF TypeInv, TypeOK
    <1>2. TokenType' /\ RefreshType' /\ AuthType' /\ ServerType'
        BY <1>1, RestoredType DEF Boot, TokenType, RefreshType, AuthType, ServerType, Nobody, Tokens, server
    <1>3. PageType'
        BY <1>1 DEF Boot, PageType, counts
    <1>4. Request("me", None, FALSE, None) \in Carried
        BY <1>1, RequestCarried DEF Rpcs, Tokens
    <1> QED BY <1>2, <1>3, <1>4, IdleCarried DEF Boot

(* ---- the type invariant ---- *)
\* Whatever a step leaves alone keeps its type.
LEMMA UnchangedTypes ==
    TypeInv => /\ UNCHANGED server => ServerType'
               /\ UNCHANGED token => TokenType'
               /\ UNCHANGED <<refresh, manager>> => RefreshType'
               /\ UNCHANGED <<auth, cache>> => AuthType'
               /\ UNCHANGED <<oauth, param, exchanged>> => OAuthType'
               /\ UNCHANGED <<path, leaving, due, inst, owner, cbError, mixed, gone, nfault,
                  nexpiry>>
                     => PageType'
               /\ UNCHANGED req => req' \in [Slots -> Carried]
    <1> SUFFICES ASSUME TypeInv
                 PROVE  /\ UNCHANGED server => ServerType'
                        /\ UNCHANGED token => TokenType'
                        /\ UNCHANGED <<refresh, manager>> => RefreshType'
                        /\ UNCHANGED <<auth, cache>> => AuthType'
                        /\ UNCHANGED <<oauth, param, exchanged>> => OAuthType'
                        /\ UNCHANGED <<path, leaving, due, inst, owner, cbError, mixed, gone,
                           nfault,
                                       nexpiry>> => PageType'
                        /\ UNCHANGED req => req' \in [Slots -> Carried]
        OBVIOUS
    <1>1. UNCHANGED server => ServerType'
        BY DEF TypeInv, TypeOK, ServerType, server
    <1>2. UNCHANGED token => TokenType'
        BY DEF TypeInv, TypeOK, TokenType, token
    <1>3. UNCHANGED <<refresh, manager>> => RefreshType'
        BY DEF TypeInv, TypeOK, RefreshType
    <1>4. UNCHANGED <<auth, cache>> => AuthType'
        BY DEF TypeInv, TypeOK, AuthType
    <1>5. UNCHANGED <<oauth, param, exchanged>> => OAuthType'
        BY DEF TypeInv, TypeOK, OAuthType
    <1>6. UNCHANGED <<path, leaving, due, inst, owner, cbError, mixed, gone, nfault, nexpiry>>
              => PageType'
        BY DEF TypeInv, TypeOK, PageType
    <1>7. UNCHANGED req => req' \in [Slots -> Carried]
        BY DEF TypeInv
    <1> QED BY <1>1, <1>2, <1>3, <1>4, <1>5, <1>6, <1>7

LEMMA CarriedType == Carried \subseteq Requests
    BY DEF Carried

LEMMA Bounds == MaxFaults \in Nat /\ MaxExpiries \in Nat /\ MaxStates \in Nat
    OBVIOUS

LEMMA ReplacedCarried ==
    ASSUME NEW r \in Carried
    PROVE  /\ [r EXCEPT !.drop = TRUE] \in Carried
           /\ [r EXCEPT !.pc = "served", !.ans = "error", !.retried = TRUE] \in Carried
           /\ \A t \in Tokens :
                [r EXCEPT !.pc = "sent", !.tok = t, !.retried = TRUE, !.ans = None] \in Carried
    <1>1. r \in Requests
        BY DEF Carried
    <1>2. [r EXCEPT !.drop = TRUE] \in Carried
        <2>1. [r EXCEPT !.drop = TRUE] \in Requests
            BY <1>1 DEF Requests
        <2> QED BY <2>1, <1>1 DEF Carried, Requests
    <1>3. [r EXCEPT !.pc = "served", !.ans = "error", !.retried = TRUE] \in Carried
        <2>1. [r EXCEPT !.pc = "served", !.ans = "error", !.retried = TRUE] \in Requests
            BY <1>1 DEF Requests, Errors
        <2> QED BY <2>1, <1>1 DEF Carried, Requests, Errors
    <1>4. ASSUME NEW t \in Tokens
          PROVE  [r EXCEPT !.pc = "sent", !.tok = t, !.retried = TRUE, !.ans = None] \in Carried
        <2>1. [r EXCEPT !.pc = "sent", !.tok = t, !.retried = TRUE, !.ans = None] \in Requests
            BY <1>1 DEF Requests
        <2> QED BY <2>1, <1>1 DEF Carried, Requests
    <1> QED BY <1>2, <1>3, <1>4

LEMMA InSlots == "flow" \in Slots /\ Background \subseteq Slots
    BY DEF Slots

LEMMA UsedUpType ==
    ASSUME TypeInv
    PROVE  [oauth EXCEPT !.id = 0, !.aged = FALSE] \in [id : 0..MaxStates, aged : BOOLEAN,
                                                       last : 0..MaxStates]
    <1>1. 0 \in 0..MaxStates
        BY Bounds
    <1> QED BY <1>1 DEF TypeInv, TypeOK, OAuthType

LEMMA GoToType ==
    ASSUME TypeInv, NEW p \in Paths, NEW next, GoTo(p, next)
    PROVE  /\ path' \in Paths /\ param' \in 0..MaxStates /\ cbError' \in BOOLEAN
           /\ due' \subseteq next
    <1>1. param \in 0..MaxStates /\ cbError \in BOOLEAN /\ 0 \in 0..MaxStates
        BY Bounds DEF TypeInv, TypeOK, OAuthType, PageType
    <1> QED BY <1>1 DEF GoTo

LEMMA InitializedType ==
    ASSUME TypeInv, NEW user \in Users \cup {None}, NEW form \in BOOLEAN, Initialized(user, form)
    PROVE  /\ AuthType'
           /\ path' \in Paths /\ param' \in 0..MaxStates /\ cbError' \in BOOLEAN
           /\ due' \subseteq {"app", "layout", "callback"}
           /\ UNCHANGED <<inst, owner, oauth>>
    <1>1. path \in Paths /\ due \subseteq {"app", "layout", "callback"} /\ cache \subseteq Users
        BY DEF TypeInv, TypeOK, PageType, AuthType
    <1>2. AuthType'
        BY <1>1 DEF Initialized, AuthType
    <1>3. "root" \in Paths
        BY DEF Paths, Private
    <1> DEFINE next == due \cup IF form \/ path \notin AuthPages THEN {"app", "layout"} ELSE {"app"}
    <1>4. PICK p \in Paths : GoTo(p, next)
        BY <1>1, <1>3 DEF Initialized
    <1>5. next \subseteq {"app", "layout", "callback"}
        BY <1>1
    <1>6. /\ path' \in Paths /\ param' \in 0..MaxStates /\ cbError' \in BOOLEAN
          /\ due' \subseteq next
        <2> HIDE DEF next
        <2> QED BY <1>4, GoToType
    <1> QED BY <1>2, <1>5, <1>6 DEF Initialized

LEMMA TypeInit == Init => TypeInv
    <1> SUFFICES ASSUME Init PROVE TypeInv
        OBVIOUS
    <1>1. ServerType /\ TokenType /\ RefreshType /\ AuthType
        BY DEF Init, ServerType, TokenType, RefreshType, AuthType, Tokens, Nobody
    <1>2. OAuthType
        <2>1. 0 \in 0..MaxStates
            BY Bounds
        <2> QED BY <2>1 DEF Init, OAuthType
    <1>3. PageType
        <2>1. nfault \in 0..MaxFaults /\ nexpiry \in 0..MaxExpiries
            BY Bounds DEF Init
        <2>2. path \in Paths /\ due \subseteq {"app", "layout", "callback"}
            BY DEF Init, Paths, Private
        <2> QED BY <2>1, <2>2 DEF Init, PageType
    <1>4. [Idle EXCEPT !.pc = "sent", !.rpc = "me"] \in Carried
        BY DEF Idle, Carried, Requests, Rpcs, Tokens
    <1>5. req \in [Slots -> Carried]
        BY <1>4, IdleCarried DEF Init
    <1> QED BY <1>1, <1>2, <1>3, <1>5, CarriedType DEF TypeInv, TypeOK

LEMMA TypeStep == TypeInv /\ [Next]_vars => TypeInv'
    <1> SUFFICES ASSUME TypeInv, [Next]_vars
                 PROVE  /\ ServerType' /\ TokenType' /\ RefreshType' /\ AuthType' /\ OAuthType'
                        /\ PageType' /\ req' \in [Slots -> Carried]
        BY CarriedType DEF TypeInv, TypeOK
    <1> DEFINE Goal == /\ ServerType' /\ TokenType' /\ RefreshType' /\ AuthType' /\ OAuthType'
                       /\ PageType' /\ req' \in [Slots -> Carried]
    <1> USE UnchangedTypes, InSlots, Bounds DEF page, counts, ghosts
    <1>t. /\ ServerType /\ TokenType /\ RefreshType /\ AuthType /\ OAuthType /\ PageType
          /\ req \in [Slots -> Carried]
        BY DEF TypeInv, TypeOK
    <1>1. ASSUME NEW s \in Slots, Serve(s) PROVE Goal
        <2>1. Answer(req[s]) \in Users \cup {None, Anon} \cup Errors /\ (req[s].rpc = "me" =>
           Answer(req[s]) \in Users \cup Errors)
            BY <1>t DEF Answer, Identity, Carried, Requests, Tokens, Errors
        <2>2. req' \in [Slots -> Carried]
            BY <1>1, <2>1, AnsweredType DEF Serve
        <2> QED BY <1>1, <2>1, <2>2 DEF Serve
    <1>2. ASSUME NEW s \in Slots, Unauthenticated(s) PROVE Goal
        <2>1. PICK i \in Refreshes : req' = [req EXCEPT ![s].pc = "waiting", ![s].on = i]
            BY <1>2 DEF Unauthenticated
        <2>2. [req[s] EXCEPT !.pc = "waiting", !.on = i] \in Carried
            BY ZenonT(90), <1>t DEF Carried, Requests
        <2>3. req' = [req EXCEPT ![s] = [req[s] EXCEPT !.pc = "waiting", !.on = i]]
            BY <1>t, <2>1
        <2>4. req' \in [Slots -> Carried]
            BY <1>t, <2>2, <2>3
        <2>5. RefreshType'
            BY <1>2, <1>t DEF Unauthenticated, RefreshType, Refreshes
        <2> QED BY <1>2, <2>1, <2>2, <2>3, <2>4, <2>5 DEF Unauthenticated
    <1>3. ASSUME ServeCreate PROVE Goal
        <2>1. req["flow"].for \in Users
            BY <1>3, <1>t DEF ServeCreate, Carried
        <2>2. req' \in [Slots -> Carried]
            BY <1>3, <2>1, AnsweredType DEF ServeCreate, Errors
        <2>3. ServerType'
            BY <1>3, <1>t, <2>1 DEF ServeCreate, ServerType
        <2> QED BY <1>3, <2>1, <2>2, <2>3 DEF ServeCreate
    <1>4. ASSUME ServeSignIn PROVE Goal
        <2>1. req["flow"].for \in Users
            BY <1>4, <1>t DEF ServeSignIn, Carried
        <2>2. req' \in [Slots -> Carried]
            BY <1>4, <2>1, AnsweredType DEF ServeSignIn, Errors
        <2>3. ServerType'
            BY <1>4, <1>t, <2>1 DEF ServeSignIn, ServerType
        <2> QED BY <1>4, <2>1, <2>2, <2>3 DEF ServeSignIn
    <1>5. ASSUME ServeSignOut PROVE Goal
        <2>1. Identity(req["flow"].tok) # Anon => req["flow"].tok \in Users
            BY <1>t DEF Identity
        <2>2. req' \in [Slots -> Carried]
            BY <1>5, <2>1, AnsweredType DEF ServeSignOut, Errors
        <2>3. ServerType'
            BY <1>5, <1>t DEF ServeSignOut, ServerType
        <2> QED BY <1>5, <2>1, <2>2, <2>3 DEF ServeSignOut
    <1>6. ASSUME NEW i \in Refreshes, ServeRefresh(i) PROVE Goal
        <2>1. RefreshType'
            BY <1>6, <1>t DEF ServeRefresh, RefreshType, ServerType, Tokens
        <2> QED BY <1>6, <2>1 DEF ServeRefresh
    <1>7. ASSUME NEW i \in Refreshes, RefreshSettled(i) PROVE Goal
        <2>1. refresh[i].tok \in Tokens
            BY <1>t DEF RefreshType
        <2>2. TokenType'
            BY <1>7, <2>1 DEF RefreshSettled, SetAccessToken, TokenType, Tokens, token
        <2>3. RefreshType'
            BY <1>7, <1>t DEF RefreshSettled, RefreshType, Tokens
        <2>4. req' \in [Slots -> Carried]
            BY <1>7, <1>t, <2>1, ReplacedCarried DEF RefreshSettled
        <2>5. PageType'
            BY <1>7, <1>t DEF RefreshSettled, PageType
        <2> QED BY <1>7, <2>1, <2>2, <2>3, <2>4, <2>5 DEF RefreshSettled
    <1>8. ASSUME InitializeUser PROVE Goal
        <2>1. ~Failed("flow") => req["flow"].ans \in Users
            BY <1>8, <1>t DEF InitializeUser, Delivered, Failed, Carried
        <2>2. req["flow"].form \in BOOLEAN
            BY <1>t DEF Carried, Requests
        <2>3. req' \in [Slots -> Carried] /\ TokenType'
            BY <1>8, <1>t, <2>1, <2>2, CallType, IdleCarried DEF InitializeUser, ClearAccessToken,
               TokenType, Tokens, Rpcs
        <2>4. leaving' \in Paths \cup {None}
            BY <1>8, RedirectType DEF InitializeUser
        <2>5. CASE Failed("flow")
            <3>1. Initialized(None, req["flow"].form)
                BY <1>8, <2>5 DEF InitializeUser
            <3>2. AuthType' /\ OAuthType' /\ PageType'
                BY <1>8, <1>t, <2>2, <2>4, <3>1, InitializedType
                   DEF InitializeUser, OAuthType, PageType
            <3> QED BY <1>8, <2>3, <3>2 DEF InitializeUser
        <2>6. CASE ~Failed("flow")
            <3>1. PageType'
                BY <1>8, <1>t, <2>4, <2>6 DEF InitializeUser, PageType
            <3> QED BY <1>8, <2>3, <2>6, <3>1 DEF InitializeUser
        <2> QED BY <2>5, <2>6
    <1>9. ASSUME InitializeSettings PROVE Goal
        <2>1. req["flow"].for \in Users \cup {None} /\ req["flow"].form \in BOOLEAN
            BY <1>t DEF Carried, Requests
        <2>2. req' \in [Slots -> Carried] /\ TokenType'
            BY <1>9, <1>t, IdleCarried DEF InitializeSettings, ClearAccessToken, TokenType,
               Tokens, token
        <2>3. leaving' \in Paths \cup {None}
            BY <1>9, RedirectType DEF InitializeSettings
        <2>4. PICK u \in Users \cup {None} : Initialized(u, req["flow"].form)
            BY <1>9, <2>1 DEF InitializeSettings
        <2>5. AuthType'
            BY <2>1, <2>4, InitializedType
        <2>6. OAuthType'
            BY <1>9, <1>t, <2>1, <2>4, InitializedType DEF InitializeSettings, OAuthType
        <2>7. PageType'
            BY <1>9, <1>t, <2>1, <2>3, <2>4, InitializedType DEF InitializeSettings, PageType
        <2> QED BY <1>9, <2>1, <2>2, <2>3, <2>4, <2>5, <2>6, <2>7 DEF InitializeSettings
    <1>10. ASSUME SignedOut PROVE Goal
        <2>1. req' \in [Slots -> Carried]
            BY <1>10, <1>t, ReplacedCarried, IdleCarried DEF SignedOut
        <2>2. TokenType' /\ AuthType'
            BY <1>10, <1>t DEF SignedOut, ClearAccessToken, TokenType, AuthType, Tokens, Nobody
        <2>3. PageType'
            BY <1>10, <1>t DEF SignedOut, Rendered, PageType, Paths, Public, AuthPages
        <2> QED BY <1>10, <2>1, <2>2, <2>3 DEF SignedOut
    <1>11. ASSUME Created PROVE Goal
        <2>1. req["flow"].for \in Users
            BY <1>11, <1>t DEF Created, Carried
        <2>2. req' \in [Slots -> Carried] /\ TokenType'
            BY <1>11, <1>t, <2>1, CallType, IdleCarried DEF Created, Rpcs
        <2>3. leaving' \in Paths \cup {None}
            BY <1>11, RedirectType DEF Created
        <2>4. PageType'
            BY <1>11, <1>t, <2>3 DEF Created, PageType
        <2> QED BY <1>11, <2>1, <2>2, <2>3, <2>4 DEF Created
    <1>12. ASSUME SignedIn PROVE Goal
        <2>1. req["flow"].for \in Users
            BY <1>12, <1>t DEF SignedIn, Carried
        <2>2. [Idle EXCEPT !.pc = "sent", !.rpc = "me", !.form = TRUE, !.tok = req["flow"].for]
           \in Carried
            BY <2>1 DEF Idle, Carried, Requests, Rpcs, Tokens, Errors
        <2>3. req' \in [Slots -> Carried]
            BY <1>12, <1>t, <2>2, IdleCarried DEF SignedIn
        <2>4. TokenType'
            BY <1>12, <1>t, <2>1 DEF SignedIn, SetAccessToken, TokenType, Tokens, token
        <2>5. leaving' \in Paths \cup {None}
            BY <1>12, RedirectType DEF SignedIn
        <2>6. due' \subseteq {"app", "layout", "callback"}
            BY <1>12, <1>t DEF SignedIn, Rendered, PageType
        <2>7. Failed("flow") \in BOOLEAN /\ cbError \in BOOLEAN
            BY <1>t DEF Failed, PageType
        <2>8. cbError' \in BOOLEAN
            BY <1>12, <2>7 DEF SignedIn
        <2>9. mixed' \in BOOLEAN
            BY <1>12, <1>t DEF SignedIn, PageType
        <2>10. PageType'
            BY <1>12, <1>t, <2>5, <2>6, <2>8, <2>9 DEF SignedIn, PageType
        <2> QED BY <1>12, <2>1, <2>2, <2>3, <2>4, <2>5, <2>6, <2>7, <2>8, <2>9, <2>10 DEF SignedIn
    <1>13. ASSUME NEW q \in Background, Queried(q) PROVE Goal
        <2>1. req' \in [Slots -> Carried]
            BY <1>13, <1>t, IdleCarried DEF Queried
        <2>2. AuthType'
            BY <1>13, <1>t DEF Queried, AuthType
        <2>3. leaving' \in Paths \cup {None}
            BY <1>13, RedirectType DEF Queried
        <2>4. PageType'
            BY <1>13, <1>t, <2>3 DEF Queried, PageType
        <2> QED BY <1>13, <2>1, <2>2, <2>3, <2>4 DEF Queried
    <1>14. ASSUME NEW q \in Background, Refetched(q) PROVE Goal
        <2>1. req' \in [Slots -> Carried]
            BY <1>14, <1>t, IdleCarried DEF Refetched
        <2>2. req[q].for \in Users \cup {None}
            BY <1>t DEF Carried, Requests
        <2>3. AuthType'
            BY <1>14, <1>t, <2>2 DEF Refetched, AuthType
        <2>4. leaving' \in Paths \cup {None}
            BY <1>14, RedirectType DEF Refetched
        <2>5. PageType'
            BY <1>14, <1>t, <2>4 DEF Refetched, Rendered, PageType
        <2> QED BY <1>14, <2>1, <2>2, <2>3, <2>4, <2>5 DEF Refetched
    <1>15. ASSUME AppEffect PROVE Goal
        <2>1. PICK p \in Paths : GoTo(p, due \ {"app"})
            BY <1>15, <1>t DEF AppEffect, PageType, Paths, Public, AuthPages
        <2>2. OAuthType'
            BY <1>15, <1>t, <2>1, GoToType, UsedUpType DEF AppEffect, CleanUp, OAuthType
        <2>4. /\ path' \in Paths /\ param' \in 0..MaxStates /\ cbError' \in BOOLEAN
              /\ due' \subseteq due \ {"app"}
            BY <2>1, GoToType
        <2>3. PageType'
            BY <1>15, <1>t, <2>4 DEF AppEffect, PageType
        <2> QED BY <1>15, <2>1, <2>2, <2>3 DEF AppEffect
    <1>16. ASSUME LayoutEffect PROVE Goal
        <2>1. PageType'
            BY <1>16, <1>t DEF LayoutEffect, Redirect, Target, PageType, Paths, Public, AuthPages
        <2> QED BY <1>16, <2>1 DEF LayoutEffect
    <1>17. ASSUME SignInEffect PROVE Goal
        <2>1. PageType'
            BY <1>17, <1>t DEF SignInEffect, PageType, Paths, Private
        <2> QED BY <1>17, <2>1 DEF SignInEffect
    <1>18. ASSUME NEW u \in Users, CallbackEffect(u) PROVE Goal
        <2>1. req' \in [Slots -> Carried] /\ TokenType'
            BY <1>18, <1>t, CallType DEF CallbackEffect, Rpcs
        <2>2. oauth' \in [id : 0..MaxStates, aged : BOOLEAN, last : 0..MaxStates]
            BY <1>18, <1>t, UsedUpType DEF CallbackEffect, OAuthType
        <2>3. Valid => param \in 1..MaxStates
            BY <1>t DEF Valid, OAuthType
        <2>4. exchanged \in [1..MaxStates -> 0..2]
            BY <1>t DEF OAuthType
        <2>5. Valid => (IF exchanged[param] = 2 THEN 2 ELSE exchanged[param] + 1) \in 0..2
            BY <2>3, <2>4
        <2>6. exchanged' \in [1..MaxStates -> 0..2]
            BY <1>18, <2>3, <2>4, <2>5 DEF CallbackEffect
        <2>7. OAuthType'
            BY <1>18, <1>t, <2>2, <2>6 DEF CallbackEffect, OAuthType
        <2>8. PageType'
            BY <1>18, <1>t DEF CallbackEffect, PageType
        <2> QED BY <1>18, <2>1, <2>2, <2>3, <2>4, <2>5, <2>6, <2>7, <2>8 DEF CallbackEffect
    <1>19. ASSUME InstanceLoaded PROVE Goal
        <2>1. PageType'
            BY <1>19, <1>t DEF InstanceLoaded, PageType
        <2> QED BY <1>19, <2>1 DEF InstanceLoaded
    <1>20. ASSUME Load PROVE Goal
        <2>1. leaving \in Paths
            BY <1>20, <1>t DEF Load, PageType
        <2>2. Boot(leaving)
            BY <1>20 DEF Load
        <2>3. OAuthType'
            BY <1>20, <1>t, <2>1, <2>2, BootType DEF Load, OAuthType
        <2> QED BY <2>1, <2>2, <2>3, BootType
    <1>21. ASSUME NEW s \in Slots, Lose(s) PROVE Goal
        <2>1. req' \in [Slots -> Carried]
            BY <1>21, AnsweredType DEF Lose, Errors
        <2>2. PageType'
            BY <1>21, <1>t DEF Lose, PageType
        <2> QED BY <1>21, <2>1, <2>2 DEF Lose
    <1>22. ASSUME Expire PROVE Goal
        <2>1. \A t \in Tokens : Expired(t) \in Tokens
            BY DEF Expired, Tokens
        <2>2. \A s \in Slots : [req[s] EXCEPT !.tok = Expired(@)] \in Carried
            BY <1>t, <2>1 DEF Carried, Requests
        <2>3. req' \in [Slots -> Carried]
            BY <1>22, <2>2 DEF Expire
        <2>4. RefreshType' /\ TokenType'
            BY <1>22, <1>t, <2>1 DEF Expire, RefreshType, TokenType
        <2>5. PageType'
            BY <1>22, <1>t DEF Expire, PageType
        <2> QED BY <1>22, <2>1, <2>2, <2>3, <2>4, <2>5 DEF Expire
    <1>23. ASSUME AgeOAuth PROVE Goal
        <2>1. OAuthType'
            BY <1>23, <1>t DEF AgeOAuth, OAuthType
        <2> QED BY <1>23, <2>1 DEF AgeOAuth
    <1>24. ASSUME InstanceFailed PROVE Goal
        <2>1. PageType'
            BY <1>24, <1>t DEF InstanceFailed, PageType
        <2> QED BY <1>24, <2>1 DEF InstanceFailed
    <1>25. ASSUME OtherSignOut PROVE Goal
        <2>1. ServerType'
            BY <1>25, <1>t DEF OtherSignOut, ServerType
        <2>2. PageType'
            BY <1>25, <1>t DEF OtherSignOut, PageType
        <2> QED BY <1>25, <2>1, <2>2 DEF OtherSignOut
    <1>26. ASSUME NEW u \in Users, OtherSignIn(u) PROVE Goal
        <2>1. ServerType'
            BY <1>26, <1>t DEF OtherSignIn, ServerType
        <2>2. nfault' \in 0..MaxFaults
            BY <1>26, <1>t DEF OtherSignIn, PageType
        <2>3. PageType'
            BY <1>26, <1>t, <2>2 DEF OtherSignIn, PageType
        <2> QED BY <1>26, <2>1, <2>2, <2>3 DEF OtherSignIn
    <1>27. ASSUME NEW u \in Users, SubmitSignIn(u) PROVE Goal
        <2>1. req' \in [Slots -> Carried] /\ TokenType'
            BY <1>27, CallType DEF SubmitSignIn, Rpcs
        <2>2. PageType'
            BY <1>27, <1>t DEF SubmitSignIn, PageType
        <2> QED BY <1>27, <2>1, <2>2 DEF SubmitSignIn
    <1>28. ASSUME NEW u \in Users, SubmitSignUp(u) PROVE Goal
        <2>1. req' \in [Slots -> Carried] /\ TokenType'
            BY <1>28, CallType DEF SubmitSignUp, Rpcs
        <2>2. PageType'
            BY <1>28, <1>t DEF SubmitSignUp, PageType
        <2> QED BY <1>28, <2>1, <2>2 DEF SubmitSignUp
    <1>29. ASSUME SignOut PROVE Goal
        <2>1. auth.user \in Users
            BY <1>29, <1>t DEF SignOut, AuthType
        <2>2. req' \in [Slots -> Carried] /\ TokenType'
            BY <1>29, <2>1, CallType DEF SignOut, Rpcs
        <2> QED BY <1>29, <2>1, <2>2 DEF SignOut
    <1>30. ASSUME StartOAuth PROVE Goal
        <2>1. OAuthType'
            BY <1>30, <1>t DEF StartOAuth, StoreOAuthState, OAuthType
        <2>2. PageType'
            BY <1>30, <1>t DEF StartOAuth, PageType, Paths
        <2> QED BY <1>30, <2>1, <2>2 DEF StartOAuth
    <1>31. ASSUME NEW n \in 0..MaxStates, ReturnFromIdp(n) PROVE Goal
        <2>1. "callback" \in Paths
            BY DEF Paths, Public, AuthPages
        <2>2. Boot("callback")
            BY <1>31 DEF ReturnFromIdp
        <2>3. OAuthType'
            BY <1>31, <1>t, <2>1, <2>2, BootType DEF ReturnFromIdp, OAuthType
        <2> QED BY <2>1, <2>2, <2>3, BootType
    <1>32. ASSUME NEW q \in Background, Refetch(q) PROVE Goal
        <2>1. auth.user \in Users
            BY <1>32, <1>t DEF Refetch, AuthType
        <2>2. req' \in [Slots -> Carried] /\ TokenType'
            BY <1>32, <2>1, CallType DEF Refetch, Rpcs
        <2> QED BY <1>32, <2>1, <2>2 DEF Refetch
    <1>33. ASSUME NEW q \in Background, NEW rpc \in {"public", "query"}, Query(q, rpc) PROVE Goal
        <2>1. req' \in [Slots -> Carried] /\ TokenType'
            BY <1>33, CallType DEF Query, Rpcs
        <2> QED BY <1>33, <2>1 DEF Query
    <1>34. ASSUME Reload PROVE Goal
        <2>1. path \in Paths
            BY <1>34, <1>t DEF PageType
        <2>2. Boot(path)
            BY <1>34 DEF Reload
        <2>3. OAuthType'
            BY <1>34, <1>t, <2>1, <2>2, BootType DEF Reload, OAuthType
        <2> QED BY <2>1, <2>2, <2>3, BootType
    <1>35. ASSUME NEW p \in Paths, Navigate(p) PROVE Goal
        <2> DEFINE next == due \cup Mounts(path, p)
        <2>3. next \subseteq {"app", "layout", "callback"}
            BY <1>t DEF Mounts, PageType
        <2>4. /\ path' \in Paths /\ param' \in 0..MaxStates /\ cbError' \in BOOLEAN
              /\ due' \subseteq next
            <3>1. GoTo(p, next)
                BY <1>35 DEF Navigate
            <3> HIDE DEF next
            <3> QED BY <3>1, GoToType
        <2>1. OAuthType'
            BY <1>35, <1>t, <2>4 DEF Navigate, OAuthType
        <2>2. PageType'
            BY <1>35, <1>t, <2>3, <2>4 DEF Navigate, PageType
        <2> QED BY <1>35, <2>1, <2>2 DEF Navigate
    <1>37. ASSUME NEW i \in Refreshes, LoseRefresh(i) PROVE Goal
        <2>1. RefreshType'
            BY <1>37, <1>t DEF LoseRefresh, RefreshType, Tokens
        <2>2. PageType'
            BY <1>37, <1>t DEF LoseRefresh, PageType
        <2> QED BY <1>37, <2>1, <2>2 DEF LoseRefresh
    <1>36. ASSUME UNCHANGED vars PROVE Goal
        BY <1>36 DEF vars
    <1> QED BY <1>1, <1>2, <1>3, <1>4, <1>5, <1>6, <1>7, <1>8, <1>9, <1>10, <1>11, <1>12, <1>13,
       <1>14, <1>15, <1>16, <1>17, <1>18, <1>19, <1>20, <1>21, <1>22, <1>23, <1>24, <1>25, <1>26,
          <1>27, <1>28, <1>29, <1>30, <1>31, <1>32, <1>33, <1>34, <1>35, <1>36, <1>37
        DEF Next, Progress, Environment

\* What every reachable state of a tab's session looks like.
THEOREM Typed == Spec => []TypeOK
    <1>1. TypeInv => TypeOK
        BY DEF TypeInv
    <1> QED BY TypeInit, TypeStep, <1>1, PTL DEF Spec

(* ---- one refresh at a time ---- *)
LEMMA RefreshStep == TypeInv /\ RefreshInv /\ [Next]_vars => RefreshInv'
    <1> SUFFICES ASSUME TypeInv, RefreshInv, [Next]_vars PROVE RefreshInv'
        OBVIOUS
    <1>t. /\ refresh \in [Refreshes -> [pc : {"idle", "sent", "served"}, tok : Tokens]]
          /\ 0 \notin Refreshes
        BY DEF TypeInv, TypeOK, RefreshType, Refreshes
    <1>1. CASE UNCHANGED <<refresh, manager>>
        BY <1>1 DEF RefreshInv
    <1>2. ASSUME NEW i \in Refreshes, ServeRefresh(i) PROVE RefreshInv'
        BY <1>2, <1>t DEF ServeRefresh, RefreshInv
    <1>3. ASSUME NEW s \in Slots, Unauthenticated(s) PROVE RefreshInv'
        BY <1>3, <1>t DEF Unauthenticated, Join, RefreshInv
    <1>4. ASSUME NEW i \in Refreshes, RefreshSettled(i) PROVE RefreshInv'
        BY <1>4, <1>t DEF RefreshSettled, RefreshInv
    <1>5. CASE Expire
        BY <1>5, <1>t DEF Expire, Expired, RefreshInv
    <1>6. ASSUME NEW p, Boot(p) PROVE RefreshInv'
        BY <1>6, <1>t DEF Boot, RefreshInv
    <1>7. ASSUME NEW i \in Refreshes, LoseRefresh(i) PROVE RefreshInv'
        BY <1>7, <1>t DEF LoseRefresh, RefreshInv
    <1> QED
        BY <1>1, <1>2, <1>3, <1>4, <1>5, <1>6, <1>7
        DEF Next, Progress, Environment, vars, Serve, ServeCreate, ServeSignIn, ServeSignOut,
            InitializeUser, InitializeSettings, SignedOut, Created, SignedIn, Queried, Refetched,
            AppEffect, LayoutEffect, SignInEffect, CallbackEffect, InstanceLoaded, Load, Lose,
            AgeOAuth, InstanceFailed, OtherSignOut, OtherSignIn, SubmitSignIn, SubmitSignUp, SignOut,
            StartOAuth, ReturnFromIdp, Refetch, Query, Reload, Navigate

\* However many requests are refused at once, one refresh is under way at a time.
THEOREM RefreshedOnce == Spec => []OneRefresh
    <1>1. Init => RefreshInv
        BY DEF Init, RefreshInv, Refreshes
    <1>2. ASSUME RefreshInv PROVE OneRefresh
        <2> DEFINE Live == {i \in Refreshes : refresh[i].pc # "idle"}
        <2>1. Live \subseteq {manager}
            BY <1>2 DEF RefreshInv
        <2>2. Live = {} \/ Live = {manager}
            BY <2>1
        <2>3. Cardinality({}) = 0 /\ Cardinality({manager}) = 1
            BY FS_EmptySet, FS_Singleton
        <2>4. Cardinality(Live) <= 1
            <3> HIDE DEF Live
            <3>1. CASE Live = {}
                BY <2>3, <3>1
            <3>2. CASE Live = {manager}
                BY <2>3, <3>2
            <3> QED BY <2>2, <3>1, <3>2
        <2> QED BY <2>4 DEF OneRefresh
    <1> QED BY TypeInit, TypeStep, RefreshStep, <1>1, <1>2, PTL DEF Spec

(* ---- an OAuth state is exchanged once ---- *)
LEMMA OAuthStep == TypeInv /\ OAuthInv /\ [Next]_vars => OAuthInv'
    <1> SUFFICES ASSUME TypeInv, OAuthInv, [Next]_vars PROVE OAuthInv'
        OBVIOUS
    <1>t. /\ oauth \in [id : 0..MaxStates, aged : BOOLEAN, last : 0..MaxStates]
          /\ exchanged \in [1..MaxStates -> 0..2] /\ param \in 0..MaxStates
        BY DEF TypeInv, TypeOK, OAuthType
    <1>1. CASE UNCHANGED <<oauth, exchanged>>
        BY <1>1 DEF OAuthInv
    <1>2. CASE StartOAuth
        <2>1. oauth'.id = oauth.last + 1 /\ oauth'.last = oauth.last + 1 /\ exchanged' = exchanged
            BY <1>2 DEF StartOAuth, StoreOAuthState, ghosts
        <2> QED BY <1>t, <2>1, Bounds DEF OAuthInv
    <1>3. CASE AgeOAuth
        BY <1>3, <1>t DEF AgeOAuth, OAuthInv, ghosts
    <1>4. CASE AppEffect
        <2>1. oauth'.id \in {0, oauth.id} /\ oauth'.last = oauth.last /\ exchanged' = exchanged
            BY <1>4, <1>t DEF AppEffect, CleanUp, ghosts
        <2> QED BY <1>t, <2>1, Bounds DEF OAuthInv
    <1>5. ASSUME NEW u \in Users, CallbackEffect(u) PROVE OAuthInv'
        <2>1. oauth'.id \in {0, oauth.id} /\ oauth'.last = oauth.last /\ (Valid => oauth'.id = 0)
            BY <1>5, <1>t DEF CallbackEffect, Valid
        <2>2. CASE ~Valid
            BY <1>5, <1>t, <2>1, <2>2, Bounds DEF CallbackEffect, OAuthInv
        <2>3. CASE Valid
            <3>1. param \in 1..MaxStates /\ param = oauth.id
                BY <1>t, <2>3 DEF Valid
            <3>2. exchanged[param] = 0 /\ param <= oauth.last
                BY <3>1 DEF OAuthInv
            <3>3. exchanged' = [exchanged EXCEPT ![param] = 1]
                BY <1>5, <2>3, <3>2 DEF CallbackEffect
            <3>4. oauth'.id = 0
                BY <2>1, <2>3
            <3> QED BY <1>t, <2>1, <3>1, <3>2, <3>3, <3>4, Bounds DEF OAuthInv
        <2> QED BY <2>2, <2>3
    <1>6. ASSUME NEW p, Boot(p) PROVE OAuthInv'
        BY <1>6, <1>1 DEF Boot
    <1> QED
        BY <1>1, <1>2, <1>3, <1>4, <1>5, <1>6
        DEF Next, Progress, Environment, vars, page, ghosts, Serve, ServeCreate, ServeSignIn,
            ServeSignOut, ServeRefresh, RefreshSettled, Unauthenticated, InitializeUser,
            InitializeSettings, Initialized, SignedOut, Created, SignedIn, Queried, Refetched,
            LayoutEffect, SignInEffect, InstanceLoaded, Load, Lose, LoseRefresh, Expire, InstanceFailed,
            OtherSignOut, OtherSignIn, SubmitSignIn, SubmitSignUp, SignOut, ReturnFromIdp, Refetch,
            Query, Reload, Navigate

\* An OAuth state is exchanged for a session at most once, although the effect of the callback
\* page runs at every render and its address may be loaded again.
THEOREM ExchangedOnce == Spec => []CallbackOnce
    <1>1. Init => OAuthInv
        BY Bounds DEF Init, OAuthInv
    <1>2. OAuthInv => CallbackOnce
        BY DEF OAuthInv, CallbackOnce
    <1> QED BY TypeInit, TypeStep, OAuthStep, <1>1, <1>2, PTL DEF Spec

(* ---- a signed-out tab stays signed out ---- *)
\* What a step does to a tab nobody is signed in at.
SignedOutTab ==
    /\ cookie = None /\ mem = None /\ stored = None /\ auth.user = None
    /\ \A i \in Refreshes : refresh[i].tok = None
    /\ SignedOutFlow(req["flow"])

LEMMA NoTokenRestored == mem = None /\ stored = None => /\ Restored(mem) = None /\ Kept(mem) = None
                                                        /\ Restored(None) = None /\ Kept(None) = None
    BY DEF Restored, Kept

\* A request beside the flow takes no token along and leaves the flow alone.
LEMMA SignedOutCall ==
    ASSUME TypeInv, SignedOutTab, NEW q \in Background, NEW rpc, NEW for, NEW form,
           Call(q, rpc, for, form),
           UNCHANGED <<cookie, auth, refresh>>
    PROVE  SignedOutTab'
    BY NoTokenRestored DEF Call, SignedOutTab, TypeInv, Slots

\* A page load asks who is signed in, without a token.
LEMMA SignedOutBoot == ASSUME SignedOutTab, NEW p, Boot(p) PROVE SignedOutTab'
    <1>1. mem' = None /\ stored' = None
        BY NoTokenRestored DEF Boot, SignedOutTab
    <1>2. Request("me", None, FALSE, None).tok = None /\ Request("me", None, FALSE, None).rpc = "me"
          /\ Request("me", None, FALSE, None).pc = "sent"
        BY NoTokenRestored DEF SignedOutTab, Request, Idle
    <1>3. req'["flow"] \in {Idle, Request("me", None, FALSE, None)}
        BY InSlots DEF Boot
    <1>4. Idle.pc = "idle"
        BY DEF Idle
    <1>5. SignedOutFlow(req'["flow"])
        BY <1>2, <1>3, <1>4 DEF SignedOutFlow
    <1> QED BY <1>1, <1>5 DEF Boot, SignedOutTab, Nobody, server

LEMMA GoneStep == TypeInv /\ RefreshInv /\ GoneInv /\ [Next]_vars => GoneInv'
    <1> SUFFICES ASSUME TypeInv, RefreshInv, GoneInv, [Next]_vars PROVE GoneInv'
        OBVIOUS
    <1> USE InSlots
    <1>t. /\ req \in [Slots -> Carried] /\ \A s \in Slots : req[s] \in Requests
          /\ refresh \in [Refreshes -> [pc : {"idle", "sent", "served"}, tok : Tokens]]
        BY CarriedType DEF TypeInv, TypeOK, RefreshType
    <1>g. GoneInv <=> (gone => SignedOutTab)
        BY DEF GoneInv, SignedOutTab
    <1>h. (gone' => SignedOutTab') => GoneInv'
        BY DEF GoneInv, SignedOutTab
    <1>i. None \notin Users /\ None # Dead
        OBVIOUS
    <1>1. CASE gone' = FALSE
        BY <1>1, <1>h
    <1>2. CASE SignedOut
        <2>1. gone' => cookie' = None /\ manager = 0
            BY <1>2 DEF SignedOut, server
        <2>2. mem' = None /\ stored' = None /\ auth'.user = None /\ refresh' = refresh
            BY <1>2 DEF SignedOut, ClearAccessToken, Nobody
        <2>3. manager = 0 => \A i \in Refreshes : refresh[i].tok = None
            BY DEF RefreshInv, Refreshes
        <2>4. req'["flow"] = Idle
            BY <1>2 DEF SignedOut
        <2>5. SignedOutFlow(req'["flow"])
            BY <2>4 DEF SignedOutFlow, Idle
        <2> QED BY <1>h, <2>1, <2>2, <2>3, <2>5 DEF SignedOutTab
    <1>u. SignedOut \/ gone' = FALSE \/ gone' = gone
        BY DEF Next, Progress, Environment, vars, ghosts, Boot, Serve, ServeCreate, ServeSignIn,
               ServeSignOut, ServeRefresh, RefreshSettled, Unauthenticated, InitializeUser,
               InitializeSettings, Created, SignedIn, Queried, Refetched, AppEffect, LayoutEffect,
               SignInEffect, CallbackEffect, InstanceLoaded, Load, Lose, LoseRefresh, Expire, AgeOAuth,
               InstanceFailed, OtherSignOut, OtherSignIn, SubmitSignIn, SubmitSignUp, SignOut,
               StartOAuth, ReturnFromIdp, Refetch, Query, Reload, Navigate
    <1> SUFFICES ASSUME gone, gone', SignedOutTab, ~SignedOut PROVE SignedOutTab'
        BY <1>1, <1>2, <1>g, <1>h, <1>u
    <1>f. /\ cookie = None /\ mem = None /\ stored = None /\ auth.user = None
          /\ \A i \in Refreshes : refresh[i].tok = None
          /\ SignedOutFlow(req["flow"])
        BY DEF SignedOutTab
    <1>3. CASE UNCHANGED <<server, token, req, refresh, auth>>
        BY <1>3 DEF SignedOutTab, server, token
    <1>4. ASSUME NEW s \in Slots, Serve(s) PROVE SignedOutTab'
        <2>1. s = "flow" => req[s].rpc = "me" /\ Answer(req[s]) = "unauth"
            BY <1>4, <1>f, <1>i DEF Serve, SignedOutFlow, Answer, Identity
        <2>2. SignedOutFlow(req'["flow"])
            BY <1>4, <1>f, <1>t, <2>1 DEF Serve, Answered, SignedOutFlow, Errors, Requests
        <2> QED BY <1>4, <1>f, <2>2 DEF Serve, SignedOutTab, server, token
    <1>5. ~ServeCreate /\ ~ServeSignIn /\ ~ServeSignOut /\ ~InitializeSettings /\ ~Created /\ ~SignedIn
        BY <1>f DEF SignedOutFlow, ServeCreate, ServeSignIn, ServeSignOut, InitializeSettings, Created,
                    SignedIn, Delivered
    <1>6. ASSUME NEW i \in Refreshes, ServeRefresh(i) PROVE SignedOutTab'
        BY <1>6, <1>f, <1>t DEF ServeRefresh, SignedOutTab, server, token
    <1>7. ASSUME NEW s \in Slots, Lose(s) PROVE SignedOutTab'
        <2>1. SignedOutFlow(req'["flow"])
            BY <1>7, <1>f, <1>t DEF Lose, Answered, SignedOutFlow, Errors, Requests
        <2> QED BY <1>7, <1>f, <2>1 DEF Lose, SignedOutTab, server, token
    <1>8. ~Expire /\ ~OtherSignOut /\ ~SignOut /\ \A q \in Background : ~Refetch(q)
        BY <1>f, <1>i DEF Expire, OtherSignOut, SignOut, Refetch
    <1>9. ASSUME NEW s \in Slots, Unauthenticated(s) PROVE SignedOutTab'
        <2>1. SignedOutFlow(req'["flow"])
            BY <1>9, <1>f, <1>t DEF Unauthenticated, SignedOutFlow, Requests
        <2>2. \A i \in Refreshes : refresh'[i].tok = None
            BY <1>9, <1>f, <1>t DEF Unauthenticated
        <2> QED BY <1>9, <1>f, <2>1, <2>2 DEF Unauthenticated, SignedOutTab, server, token
    <1>10. ASSUME NEW i \in Refreshes, RefreshSettled(i) PROVE SignedOutTab'
        <2>1. refresh[i].tok = None
            BY <1>f
        <2>2. SignedOutFlow(req'["flow"])
            BY ZenonT(90), <1>10, <1>f, <1>t, <2>1 DEF RefreshSettled, SignedOutFlow, Errors, Requests
        <2>3. \A j \in Refreshes : refresh'[j].tok = None
            BY <1>10, <1>f, <1>t DEF RefreshSettled
        <2> QED BY <1>10, <1>f, <2>1, <2>2, <2>3 DEF RefreshSettled, SignedOutTab, server, token
    <1>11. CASE InitializeUser
        <2>1. Failed("flow")
            BY <1>11, <1>f DEF InitializeUser, Delivered, SignedOutFlow, Failed
        <2>2. req'["flow"] = Idle /\ mem' = None /\ stored' = None /\ auth'.user = None
            BY <1>11, <1>t, <2>1 DEF InitializeUser, ClearAccessToken, Initialized
        <2>3. SignedOutFlow(req'["flow"])
            BY <2>2 DEF SignedOutFlow, Idle
        <2> QED BY <1>11, <1>f, <2>2, <2>3 DEF InitializeUser, SignedOutTab, server
    <1>12. ASSUME NEW q \in Background, Queried(q) \/ Refetched(q) PROVE SignedOutTab'
        <2>1. req'["flow"] = req["flow"]
            BY <1>12, <1>t DEF Queried, Refetched
        <2>2. auth'.user = auth.user
            BY <1>12 DEF Queried, Refetched, TypeInv, TypeOK, AuthType
        <2> QED BY <1>12, <1>f, <2>1, <2>2 DEF Queried, Refetched, SignedOutTab, server, token
    <1>13. ASSUME NEW q \in Background, NEW rpc \in {"public", "query"}, Query(q, rpc)
           PROVE  SignedOutTab'
        BY <1>13, SignedOutCall DEF Query, server
    <1>14. ASSUME NEW u \in Users, CallbackEffect(u) PROVE SignedOutTab'
        BY <1>14, <1>3 DEF CallbackEffect, server, token
    <1>15. ASSUME NEW p, Boot(p) PROVE SignedOutTab'
        BY <1>15, SignedOutBoot
    <1>17. ASSUME NEW i \in Refreshes, LoseRefresh(i) PROVE SignedOutTab'
        BY <1>17, <1>f, <1>t DEF LoseRefresh, SignedOutTab, server, token
    <1>16. \A u \in Users : ~OtherSignIn(u) /\ ~SubmitSignIn(u) /\ ~SubmitSignUp(u)
        BY DEF OtherSignIn, SubmitSignIn, SubmitSignUp
    <1> QED
        BY <1>3, <1>4, <1>5, <1>6, <1>7, <1>8, <1>9, <1>10, <1>11, <1>12, <1>13, <1>14, <1>15, <1>16, <1>17
        DEF Next, Progress, Environment, vars, AppEffect, LayoutEffect, SignInEffect, InstanceLoaded,
            Load, AgeOAuth, InstanceFailed, StartOAuth, ReturnFromIdp, Reload, Navigate

\* After a sign-out the server has confirmed, the tab has no token and no user until somebody
\* signs in again.
THEOREM StaysSignedOut == Spec => []SignedOutStays
    <1>1. Init => RefreshInv /\ GoneInv
        <2>1. Init => RefreshInv
            BY DEF Init, RefreshInv, Refreshes
        <2>2. Init => GoneInv
            BY DEF Init, GoneInv
        <2> QED BY <2>1, <2>2
    <1>2. GoneInv => SignedOutStays
        BY DEF GoneInv, SignedOutStays
    <1> QED BY TypeInit, TypeStep, RefreshStep, GoneStep, <1>1, <1>2, PTL DEF Spec

(* ---- nobody sees another's data ---- *)
LEMMA NobodysToken == None \notin Users /\ Dead \notin Users /\ Anon \notin Users
    OBVIOUS

LEMMA RestoredToken == /\ Restored(mem) \in {mem, stored} /\ Kept(mem) \in {stored, None}
                       /\ Restored(None) \in {stored, None} /\ Kept(None) \in {stored, None}
    BY DEF Restored, Kept

\* A step that leaves requests, tokens and the user alone, and a page of the sign-in a page of it.
LEMMA OwnFrame ==
    ASSUME OwnTab, UNCHANGED <<mem, stored, req, refresh, auth, cache>>,
           path \in AuthPages /\ req["flow"].pc # "idle" => path' \in AuthPages
    PROVE  OwnTab'
    <1>1. OwnUser' /\ OwnStart' /\ OwnFlow' /\ \A q \in Background : OwnAsked(q)'
        BY DEF OwnTab, OwnUser, OwnStart, OwnFlow, OwnAsked, Own, InFlow, Initializing
    <1>2. OwnToken'
        BY DEF OwnTab, OwnToken, Own, Joining, Initializing
    <1> QED BY <1>1, <1>2 DEF OwnTab

\* A request beside the flow takes the user's token along.
LEMMA OwnCall ==
    ASSUME TypeInv, OwnTab, auth.init, NEW q \in Background, NEW rpc, NEW for, NEW form,
           Call(q, rpc, for, form), UNCHANGED <<refresh, auth, cache, path>>, path \notin AuthPages,
           rpc = "settings" => auth.user # None /\ for = auth.user
    PROVE  OwnTab'
    <1> USE InSlots, NobodysToken
    <1>1. req'["flow"] = req["flow"] /\ \A p \in Background : p # q => req'[p] = req[p]
        BY DEF Call, TypeInv
    <1>2. req'[q] = Request(rpc, for, form, mem)
        BY DEF Call, TypeInv
    <1>3. req'[q].tok = Restored(mem) /\ req'[q].ans = None /\ req'[q].rpc = rpc /\ req'[q].for = for
        BY <1>2 DEF Request, Idle
    <1>4. ~Joining(req["flow"]) /\ ~Initializing(req["flow"]) /\ Own(mem) /\ Own(stored)
        BY DEF OwnTab, OwnToken, Joining, Initializing
    <1>5. mem' \in {mem, stored} /\ stored' \in {stored, None} /\ req'[q].tok \in {mem, stored}
        BY <1>3, RestoredToken DEF Call
    <1>6. OwnUser' /\ OwnStart'
        BY DEF OwnTab, OwnUser, OwnStart
    <1>7. OwnToken' /\ OwnFlow'
        BY <1>1, <1>4, <1>5 DEF OwnToken, OwnFlow, Own, Joining, Initializing
    <1>8. \A p \in Background : OwnAsked(p)'
        BY <1>1, <1>3, <1>4, <1>5 DEF OwnTab, OwnAsked, Own
    <1> QED BY <1>6, <1>7, <1>8 DEF OwnTab

\* A request of the sign-in, sign-up or sign-out pages.
LEMMA OwnFlowCall ==
    ASSUME TypeInv, OwnTab, auth.init, NEW rpc, NEW for, NEW form, rpc \notin {"me", "settings"},
           ~Initializing(req["flow"]), Call("flow", rpc, for, form), UNCHANGED <<refresh, auth, cache, path>>,
           path \in AuthPages \/ rpc = "out"
    PROVE  OwnTab'
    <1> USE InSlots, NobodysToken
    <1>1. req'["flow"].rpc = rpc
        BY DEF Call, TypeInv, Request, Idle
    <1>2. \A q \in Background : req'[q] = req[q]
        BY DEF Call, TypeInv
    <1>3. Own(mem) /\ Own(stored) /\ mem' \in {mem, stored} /\ stored' \in {stored, None}
        BY RestoredToken DEF Call, OwnTab, OwnToken
    <1>4. OwnUser' /\ OwnStart' /\ OwnFlow'
        BY <1>1 DEF OwnTab, OwnUser, OwnStart, OwnFlow, Initializing
    <1>5. OwnToken'
        BY <1>1, <1>3 DEF OwnToken, Joining, Own
    <1>6. \A q \in Background : OwnAsked(q)'
        BY <1>2 DEF OwnTab, OwnAsked, Own
    <1> QED BY <1>4, <1>5, <1>6 DEF OwnTab

\* An answer: the user's, or, to initialize, that of the tokens in the flow.
LEMMA OwnAnswered ==
    ASSUME TypeInv, OwnTab, NEW s \in Slots, NEW a, Answered(s, a), req[s].pc \in {"sent", "served"},
           UNCHANGED <<mem, stored, refresh, auth, cache, path>>,
           s \in Background /\ a \notin Errors => Own(a),
           s = "flow" /\ Initializing(req[s]) /\ a \notin Errors =>
               InFlow \subseteq {a} /\ (req[s].rpc = "settings" => a = req[s].for)
    PROVE  OwnTab'
    <1> USE InSlots
    <1>1. req[s] \in Requests /\ req' = [req EXCEPT ![s] = [req[s] EXCEPT !.pc = "served", !.ans = a]]
        BY DEF Answered, TypeInv, Carried
    <1>2. \A p \in Slots : p # s => req'[p] = req[p]
        BY <1>1 DEF TypeInv
    <1>3. /\ req'[s].pc = "served" /\ req'[s].ans = a /\ req'[s].tok = req[s].tok
          /\ req'[s].rpc = req[s].rpc /\ req'[s].for = req[s].for
        <2>1. req'[s] = [req[s] EXCEPT !.pc = "served", !.ans = a]
            BY <1>1 DEF TypeInv
        <2>2. req[s] \in Requests
            BY <1>1
        <2> QED BY <2>1, <2>2 DEF Requests
    <1>4. OwnUser'
        BY DEF OwnTab, OwnUser
    <1>5. OwnStart'
        <2> SUFFICES ASSUME ~auth.init PROVE OwnStart'
            BY DEF OwnStart
        <2>1. s = "flow"
            BY DEF OwnTab, OwnStart, Slots, Idle
        <2> QED BY <1>2, <1>3, <2>1 DEF OwnTab, OwnStart, Initializing, Slots, TypeInv
    <1>6. OwnToken'
        <2>1. Joining(req["flow"])' => Joining(req["flow"])
            BY <1>2, <1>3 DEF Joining
        <2>2. ~Initializing(req["flow"])' => ~Initializing(req["flow"])
            BY <1>2, <1>3 DEF Initializing
        <2> QED BY <2>1, <2>2 DEF OwnTab, OwnToken, Own
    <1>7. \A q \in Background : OwnAsked(q)'
        BY <1>2, <1>3 DEF OwnTab, OwnAsked, Own
    <1>8. OwnFlow'
        <2>1. InFlow' = InFlow
            BY <1>2, <1>3 DEF InFlow
        <2>2. CASE s = "flow"
            BY <1>3, <2>1, <2>2 DEF OwnTab, OwnFlow, Initializing
        <2>3. CASE s # "flow"
            BY <1>2, <2>1, <2>3 DEF OwnTab, OwnFlow, Initializing
        <2> QED BY <2>2, <2>3
    <1> QED BY <1>4, <1>5, <1>6, <1>7, <1>8 DEF OwnTab

\* A page load forgets everything but the stored token.
LEMMA OwnBoot == ASSUME TypeInv, NEW p, Boot(p) PROVE OwnTab'
    <1> USE InSlots, NobodysToken
    <1>1. auth' = Nobody(FALSE) /\ cache' = {} /\ \A i \in Refreshes : refresh'[i].pc = "idle"
        BY DEF Boot
    <1>2. \A q \in Background : req'[q] = Idle
        BY DEF Boot
    <1>3. OwnUser'
        BY <1>1 DEF OwnUser, Nobody
    <1>4. \A q \in Background : OwnAsked(q)'
        BY <1>2 DEF OwnAsked, Own, Idle
    <1>5. ~auth'.init /\ auth'.user = None
        BY <1>1 DEF Nobody
    <1>6. CASE p = "idp"
        <2>1. req'["flow"] = Idle
            BY <1>6 DEF Boot
        <2>2. req'["flow"].pc = "idle"
            BY <2>1 DEF Idle
        <2> QED BY <1>1, <1>2, <1>3, <1>4, <1>5, <2>2 DEF OwnTab, OwnStart, OwnToken, OwnFlow, Initializing
    <1>7. CASE p # "idp"
        <2>1. req'["flow"] = Request("me", None, FALSE, None) /\ mem' = Restored(None) /\ stored' = Kept(None)
            BY <1>7 DEF Boot
        <2>2. req'["flow"].pc = "sent" /\ req'["flow"].rpc = "me" /\ req'["flow"].tok = Restored(None)
            BY <2>1 DEF Request, Idle
        <2>3. \A x, y \in InFlow' : x = y
            BY <2>1, <2>2, RestoredToken DEF InFlow
        <2>4. OwnStart' /\ OwnToken' /\ OwnFlow'
            BY <1>1, <1>2, <1>5, <2>2, <2>3 DEF OwnStart, OwnToken, OwnFlow, Initializing
        <2> QED BY <1>3, <1>4, <2>4 DEF OwnTab
    <1> QED BY <1>6, <1>7

LEMMA OwnExpire == ASSUME TypeInv, OwnTab, Expire PROVE OwnTab'
    <1> USE InSlots, NobodysToken
    <1>1. \A s \in Slots : /\ req'[s].pc = req[s].pc /\ req'[s].rpc = req[s].rpc /\ req'[s].for = req[s].for
                           /\ req'[s].ans = req[s].ans /\ req'[s].on = req[s].on
                           /\ req'[s].tok = Expired(req[s].tok)
        <2> SUFFICES ASSUME NEW s \in Slots
                     PROVE  /\ req'[s].pc = req[s].pc /\ req'[s].rpc = req[s].rpc /\ req'[s].for = req[s].for
                            /\ req'[s].ans = req[s].ans /\ req'[s].on = req[s].on
                            /\ req'[s].tok = Expired(req[s].tok)
            OBVIOUS
        <2>1. req'[s] = [req[s] EXCEPT !.tok = Expired(req[s].tok)] /\ req[s] \in Requests
            BY DEF Expire, TypeInv, Carried
        <2> QED BY <2>1 DEF Requests
    <1>2. \A t : Expired(t) \notin Users
        BY DEF Expired
    <1>3. UNCHANGED <<auth, cache, path>> /\ mem' \notin Users /\ stored' \notin Users
        BY <1>2 DEF Expire, page
    <1>4. \A i \in Refreshes : refresh'[i].pc = refresh[i].pc
        BY DEF Expire, TypeInv, TypeOK, RefreshType
    <1>5. OwnUser' /\ InFlow' = {}
        BY <1>1, <1>2, <1>3 DEF OwnTab, OwnUser, InFlow
    <1>6. OwnStart'
        <2>1. \A q \in Background : req[q] = Idle => req'[q] = Idle
            BY DEF Expire, Expired, Idle
        <2> QED BY <1>1, <1>3, <1>4, <2>1 DEF OwnTab, OwnStart, Initializing
    <1>7. OwnToken'
        BY <1>1, <1>3 DEF OwnTab, OwnToken, Own, Joining, Initializing
    <1>8. \A q \in Background : OwnAsked(q)'
        BY <1>1, <1>2, <1>3 DEF OwnTab, OwnAsked, Own
    <1>9. OwnFlow'
        BY <1>1, <1>3, <1>5 DEF OwnTab, OwnFlow, Initializing
    <1> QED BY <1>5, <1>6, <1>7, <1>8, <1>9 DEF OwnTab

LEMMA OwnRefused == ASSUME TypeInv, OwnTab, NEW s \in Slots, Unauthenticated(s) PROVE OwnTab'
    <1> USE InSlots
    <1>1. PICK i \in Refreshes :
              /\ req' = [req EXCEPT ![s] = [req[s] EXCEPT !.pc = "waiting", !.on = i]]
              /\ refresh' = IF refresh[i].pc # "idle" THEN refresh ELSE [refresh EXCEPT ![i].pc = "sent"]
        BY DEF Unauthenticated, TypeInv
    <1>2. \A p \in Slots : p # s => req'[p] = req[p]
        BY <1>1 DEF TypeInv
    <1>3. /\ req'[s].pc = "waiting" /\ req'[s].on = i /\ req'[s].tok = req[s].tok
          /\ req'[s].rpc = req[s].rpc /\ req'[s].for = req[s].for /\ req'[s].ans = req[s].ans
        <2>1. req'[s] = [req[s] EXCEPT !.pc = "waiting", !.on = i] /\ req[s] \in Requests
            BY <1>1 DEF TypeInv, Carried
        <2> QED BY <2>1 DEF Requests
    <1>4. \A j \in Refreshes : j # i => refresh'[j] = refresh[j]
        BY <1>1 DEF TypeInv, TypeOK, RefreshType
    <1>5. req[s].pc = "served" /\ UNCHANGED <<mem, stored, auth, cache, path>>
        BY DEF Unauthenticated, token, page
    <1>6. OwnUser'
        BY <1>5 DEF OwnTab, OwnUser
    <1>7. OwnStart'
        <2> SUFFICES ASSUME ~auth.init PROVE OwnStart'
            BY <1>5 DEF OwnStart
        <2>1. s = "flow"
            BY <1>5 DEF OwnTab, OwnStart, Slots, Idle
        <2>2. \A j \in Refreshes : refresh[j].pc = "idle"
            BY <1>5, <2>1 DEF OwnTab, OwnStart
        <2>3. \A q \in Background : req'[q] = req[q]
            BY <1>2, <2>1
        <2> QED BY <1>3, <1>4, <1>5, <2>1, <2>2, <2>3 DEF OwnTab, OwnStart, Initializing
    <1>8. OwnToken'
        <2>1. (Joining(req["flow"])' => Joining(req["flow"])) /\ (Initializing(req["flow"]) => Initializing(req["flow"])')
            BY <1>2, <1>3, <1>5 DEF Joining, Initializing
        <2> QED BY <1>5, <2>1 DEF OwnTab, OwnToken, Own
    <1>9. \A q \in Background : OwnAsked(q)'
        BY <1>2, <1>3, <1>5 DEF OwnTab, OwnAsked, Own
    <1>10. OwnFlow'
        <2>1. InFlow' = InFlow
            BY <1>2, <1>3, <1>5 DEF InFlow
        <2>2. CASE s = "flow"
            BY <1>3, <1>5, <2>1, <2>2 DEF OwnTab, OwnFlow, Initializing
        <2>3. CASE s # "flow"
            BY <1>2, <1>5, <2>1, <2>3 DEF OwnTab, OwnFlow, Initializing
        <2> QED BY <2>2, <2>3
    <1> QED BY <1>6, <1>7, <1>8, <1>9, <1>10 DEF OwnTab

LEMMA OwnRefreshed ==
    ASSUME TypeInv, OwnTab, NEW i \in Refreshes, RefreshSettled(i), ~mixed'
    PROVE  OwnTab'
    <1> USE InSlots, NobodysToken
    <1> DEFINE t == refresh[i].tok
               W(s) == req[s].pc = "waiting" /\ req[s].on = i
    <1>1. \A s \in Slots : ~W(s) => req'[s] = req[s]
        BY DEF RefreshSettled
    <1>2. ASSUME NEW s \in Slots, W(s)
          PROVE  /\ req'[s].rpc = req[s].rpc /\ req'[s].for = req[s].for
                 /\ t # None => req'[s].pc = "sent" /\ req'[s].tok = t /\ req'[s].ans = None
                 /\ t = None => req'[s].pc = "served" /\ req'[s].tok = req[s].tok /\ req'[s].ans = "error"
        <2>1. req'[s] = IF t # None
                        THEN [req[s] EXCEPT !.pc = "sent", !.tok = t, !.retried = TRUE, !.ans = None]
                        ELSE [req[s] EXCEPT !.pc = "served", !.ans = "error", !.retried = TRUE]
            BY <1>2 DEF RefreshSettled
        <2>2. req[s] \in Requests
            BY DEF TypeInv, Carried
        <2> HIDE DEF t
        <2> QED BY <2>1, <2>2 DEF Requests
    <1>3. (auth.init /\ t # None => t = auth.user) /\ refresh[i].pc = "served"
        BY DEF RefreshSettled
    <1>4. UNCHANGED <<auth, cache, path>> /\ refresh'[i].pc = "idle"
          /\ \A j \in Refreshes : j # i => refresh'[j] = refresh[j]
        BY DEF RefreshSettled, page, TypeInv, TypeOK, RefreshType
    <1>5. IF t # None THEN mem' = t /\ stored' = t ELSE mem' = mem /\ stored' = stored
        BY DEF RefreshSettled, SetAccessToken, token
    <1> HIDE DEF t
    <1>6. ~auth.init => W("flow")
        BY <1>3 DEF OwnTab, OwnStart
    <1>7. auth.init /\ t # None => ~Initializing(req["flow"])
        BY <1>3 DEF OwnTab, OwnFlow
    <1>8. (Initializing(req["flow"])' <=> Initializing(req["flow"])) /\ (Joining(req["flow"])' => Joining(req["flow"]))
        BY <1>1, <1>2 DEF Initializing, Joining
    <1>9. OwnUser'
        BY <1>4 DEF OwnTab, OwnUser
    <1>10. OwnStart'
        <2> SUFFICES ASSUME ~auth.init PROVE OwnStart'
            BY <1>4 DEF OwnStart
        <2>1. W("flow")
            BY <1>6
        <2>2. \A q \in Background : req'[q] = req[q]
            BY <1>1 DEF OwnTab, OwnStart, Idle
        <2>3. \A j \in Refreshes : refresh'[j].pc = "idle"
            BY <1>4, <2>1 DEF OwnTab, OwnStart
        <2>4. Initializing(req["flow"])'
            BY <1>8, <2>1 DEF OwnTab, OwnStart
        <2> QED BY <1>4, <2>2, <2>3, <2>4 DEF OwnTab, OwnStart
    <1>11. OwnToken'
        BY <1>3, <1>4, <1>5, <1>8 DEF OwnTab, OwnToken, Own
    <1>12. ASSUME NEW q \in Background PROVE OwnAsked(q)'
        <2>1. W(q) => auth.init
            BY DEF OwnTab, OwnStart, Idle
        <2>2. "error" \in Errors
            BY DEF Errors
        <2>3. CASE W(q)
            BY <1>2, <1>3, <1>4, <2>1, <2>2, <2>3 DEF OwnTab, OwnAsked, Own
        <2>4. CASE ~W(q)
            BY <1>1, <1>4, <2>4 DEF OwnTab, OwnAsked, Own
        <2> QED BY <2>3, <2>4
    <1>13. OwnFlow'
        <2>1. CASE ~Initializing(req["flow"])
            BY <1>8, <2>1 DEF OwnFlow
        <2>2. CASE Initializing(req["flow"]) /\ t # None
            <3>1. W("flow")
                BY <1>6, <1>7, <2>2
            <3>2. req'["flow"].pc = "sent" /\ req'["flow"].tok = t
                BY <1>2, <2>2, <3>1
            <3>3. \A x, y \in InFlow' : x = y
                BY <1>5, <2>2, <3>2 DEF InFlow
            <3> QED BY <1>4, <2>2, <3>2, <3>3 DEF OwnTab, OwnFlow
        <2>3. CASE Initializing(req["flow"]) /\ t = None
            <3>1. InFlow' = InFlow
                BY <1>1, <1>2, <1>5, <2>3 DEF InFlow
            <3>2. W("flow") => req'["flow"].ans \in Errors
                BY <1>2, <2>3 DEF Errors
            <3> QED BY <1>1, <1>4, <2>3, <3>1, <3>2 DEF OwnTab, OwnFlow
        <2> QED BY <2>1, <2>2, <2>3
    <1> QED BY <1>9, <1>10, <1>11, <1>12, <1>13 DEF OwnTab

\* The tab gets a user, whose settings it has, or nobody.
LEMMA OwnInitialized ==
    ASSUME TypeInv, OwnTab, Initializing(req["flow"]), NEW u, NEW form, Initialized(u, form),
           req' = [req EXCEPT !["flow"] = Idle],
           mem' \in Users => mem' = u, stored' \in Users => stored' = u
    PROVE  OwnTab'
    <1> USE InSlots, NobodysToken
    <1>1. auth.user = None /\ cache = {}
        BY DEF OwnTab, OwnFlow, OwnUser, TypeInv, TypeOK, AuthType
    <1>2. auth' = [user |-> u, settings |-> u, init |-> TRUE] /\ cache' \subseteq {u}
        BY <1>1 DEF Initialized
    <1>3. req'["flow"].pc = "idle" /\ \A q \in Background : req'[q] = req[q]
        BY DEF TypeInv, Idle
    <1>4. OwnUser' /\ OwnStart'
        BY <1>2 DEF OwnUser, OwnStart
    <1>5. OwnToken' /\ OwnFlow'
        BY <1>2, <1>3 DEF OwnToken, OwnFlow, Joining, Initializing, Own
    <1>6. \A q \in Background : OwnAsked(q)'
        BY <1>1, <1>3 DEF OwnTab, OwnAsked, Own
    <1> QED BY <1>4, <1>5, <1>6 DEF OwnTab

LEMMA OwnStep == TypeInv /\ OwnInv /\ [Next]_vars => OwnInv'
    <1> SUFFICES ASSUME TypeInv, OwnInv, [Next]_vars, leaving' = None, ~mixed' PROVE OwnTab'
        BY DEF OwnInv
    <1> USE InSlots, NobodysToken DEF page, token
    <1>t. /\ req \in [Slots -> Carried] /\ \A s \in Slots : req[s] \in Requests
          /\ auth.user \in Users \cup {None} /\ auth.init \in BOOLEAN
        BY CarriedType DEF TypeInv, TypeOK, AuthType
    <1>1. ASSUME NEW p, Boot(p) PROVE OwnTab'
        BY <1>1, OwnBoot
    <1>2. (\E p : Boot(p)) \/ (leaving = None /\ ~mixed)
        <2>1. \A s : AfterRetry(s) \in {leaving, "auth", "explore"}
            BY DEF AfterRetry, Redirect, Target
        <2> QED BY <2>1 DEF Next, Progress, Environment, vars, ghosts, Serve, ServeCreate, ServeSignIn,
               ServeSignOut, ServeRefresh, RefreshSettled, Unauthenticated, InitializeUser,
               InitializeSettings, SignedOut, Created, SignedIn, Queried, Refetched, AppEffect, LayoutEffect,
               SignInEffect, CallbackEffect, InstanceLoaded, Load, Lose, LoseRefresh, Expire, AgeOAuth,
               InstanceFailed, OtherSignOut, OtherSignIn, SubmitSignIn, SubmitSignUp, SignOut,
               StartOAuth, ReturnFromIdp, Refetch, Query, Reload, Navigate, Redirect, Target
    <1> SUFFICES ASSUME OwnTab PROVE OwnTab'
        BY <1>1, <1>2 DEF OwnInv
    <1>3. CASE UNCHANGED vars
        BY <1>3, OwnFrame DEF vars
    <1>4. ASSUME NEW s \in Slots, Serve(s) PROVE OwnTab'
        <2>1. Answer(req[s]) \notin Errors => Answer(req[s]) \in {req[s].tok, Anon}
            BY DEF Answer, Identity, Errors
        <2>2. s \in Background /\ Answer(req[s]) \notin Errors => Own(Answer(req[s]))
            BY <2>1 DEF OwnTab, OwnAsked, Own
        <2>3. s = "flow" /\ Initializing(req[s]) /\ Answer(req[s]) \notin Errors =>
                  /\ Answer(req[s]) = req[s].tok /\ req[s].tok \in Users
                  /\ req[s].rpc = "settings" => Answer(req[s]) = req[s].for
            BY DEF Answer, Identity, Errors, Initializing
        <2>4. s = "flow" /\ Initializing(req[s]) /\ Answer(req[s]) \notin Errors =>
                  InFlow \subseteq {Answer(req[s])}
            BY <2>3 DEF OwnTab, OwnFlow, InFlow
        <2> QED BY <1>4, <2>2, <2>3, <2>4, OwnAnswered DEF Serve
    <1>5. ASSUME ServeCreate \/ ServeSignIn \/ ServeSignOut PROVE OwnTab'
        <2>1. PICK a : Answered("flow", a)
            BY <1>5 DEF ServeCreate, ServeSignIn, ServeSignOut
        <2>2. ~Initializing(req["flow"]) /\ req["flow"].pc = "sent" /\ "flow" \notin Background
            BY <1>5 DEF ServeCreate, ServeSignIn, ServeSignOut, Initializing
        <2> QED BY <1>5, <2>1, <2>2, OwnAnswered DEF ServeCreate, ServeSignIn, ServeSignOut
    <1>6. ASSUME NEW i \in Refreshes, ServeRefresh(i) PROVE OwnTab'
        <2>1. \A j \in Refreshes : refresh'[j].pc # "idle" => refresh[j].pc # "idle"
            BY <1>6 DEF ServeRefresh, TypeInv, TypeOK, RefreshType
        <2>2. UNCHANGED <<mem, stored, req, auth, cache, path>>
            BY <1>6 DEF ServeRefresh
        <2>3. OwnStart'
            BY <2>1, <2>2 DEF OwnTab, OwnStart, Initializing
        <2> QED BY <2>2, <2>3 DEF OwnTab, OwnUser, OwnToken, OwnFlow, OwnAsked, Own, InFlow, Initializing, Joining
    <1>7. ASSUME NEW s \in Slots, Lose(s) PROVE OwnTab'
        BY <1>7, OwnAnswered DEF Lose, Errors
    <1>8. CASE Expire
        BY <1>8, OwnExpire
    <1>9. ASSUME NEW s \in Slots, Unauthenticated(s) PROVE OwnTab'
        BY <1>9, OwnRefused
    <1>10. ASSUME NEW i \in Refreshes, RefreshSettled(i) PROVE OwnTab'
        BY <1>10, OwnRefreshed
    <1>11. CASE InitializeUser
        <2>1. Initializing(req["flow"]) /\ req["flow"].pc = "served" /\ req["flow"].rpc = "me"
            BY <1>11 DEF InitializeUser, Delivered, Initializing
        <2>2. CASE Failed("flow")
            <3>1. Initialized(None, req["flow"].form) /\ mem' = None /\ stored' = None
                  /\ req' = [req EXCEPT !["flow"] = Idle]
                BY <1>11, <2>2 DEF InitializeUser, ClearAccessToken
            <3> QED BY <2>1, <3>1, OwnInitialized
        <2>3. CASE ~Failed("flow")
            <3> DEFINE u == req["flow"].ans
            <3>1. InFlow \subseteq {u}
                BY <2>1, <2>3 DEF OwnTab, OwnFlow, Failed
            <3>2. Call("flow", "settings", u, req["flow"].form) /\ UNCHANGED <<refresh, auth, cache, path>>
                BY <1>11, <2>3 DEF InitializeUser
            <3>3. req'["flow"].pc = "sent" /\ req'["flow"].rpc = "settings" /\ req'["flow"].tok = Restored(mem)
                BY <1>t, <3>2 DEF Call, Request, Idle
            <3>4. \A q \in Background : req'[q] = req[q]
                BY <1>t, <3>2 DEF Call
            <3>5. \A x, y \in InFlow' : x = y
                BY <3>1, <3>2, <3>3, RestoredToken DEF InFlow, Call
            <3>6. Initializing(req["flow"])'
                BY <3>3 DEF Initializing
            <3>7. OwnUser' /\ OwnFlow'
                BY <2>1, <3>2, <3>3, <3>5, <3>6 DEF OwnTab, OwnUser, OwnFlow
            <3>8. OwnStart'
                BY <2>1, <3>2, <3>4, <3>6 DEF OwnTab, OwnStart
            <3>9. OwnToken'
                BY <2>1, <3>2, <3>6 DEF OwnTab, OwnToken, Joining, Initializing
            <3>10. \A q \in Background : OwnAsked(q)'
                BY <3>2, <3>4 DEF OwnTab, OwnAsked, Own
            <3> QED BY <3>7, <3>8, <3>9, <3>10 DEF OwnTab
        <2> QED BY <2>2, <2>3
    <1>12. CASE InitializeSettings
        <2>1. Initializing(req["flow"]) /\ req["flow"].pc = "served" /\ req["flow"].rpc = "settings"
            BY <1>12 DEF InitializeSettings, Delivered, Initializing
        <2>2. CASE Failed("flow")
            <3>1. Initialized(None, req["flow"].form) /\ mem' = None /\ stored' = None
                  /\ req' = [req EXCEPT !["flow"] = Idle]
                BY <1>12, <2>2 DEF InitializeSettings, ClearAccessToken
            <3> QED BY <2>1, <3>1, OwnInitialized
        <2>3. CASE ~Failed("flow")
            <3>1. Initialized(req["flow"].for, req["flow"].form) /\ mem' = mem /\ stored' = stored
                  /\ req' = [req EXCEPT !["flow"] = Idle]
                BY <1>12, <2>3 DEF InitializeSettings
            <3>2. InFlow \subseteq {req["flow"].for}
                BY <2>1, <2>3 DEF OwnTab, OwnFlow, Failed
            <3> QED BY <2>1, <3>1, <3>2, OwnInitialized DEF InFlow
        <2> QED BY <2>2, <2>3
    <1>13. ASSUME NEW q \in Background, Refetched(q) PROVE OwnTab'
        <2>1. req[q].rpc = "settings" /\ req[q].pc = "served" /\ UNCHANGED <<mem, stored, refresh, cache, path>>
            BY <1>13 DEF Refetched, Delivered
        <2>2. req'["flow"] = req["flow"] /\ req'[q] = Idle /\ \A p \in Background : p # q => req'[p] = req[p]
            BY <1>13, <1>t DEF Refetched
        <2>3. req[q].for = auth.user
            BY <2>1 DEF OwnTab, OwnAsked
        <2>4. auth'.user = auth.user /\ auth'.init = auth.init /\ auth'.settings = auth.user
            BY <1>13, <2>3 DEF Refetched, OwnTab, OwnUser, TypeInv, TypeOK, AuthType
        <2>5. auth.init
            BY <2>1 DEF OwnTab, OwnStart, Idle
        <2>6. OwnUser' /\ OwnStart'
            BY <2>1, <2>4, <2>5 DEF OwnTab, OwnUser, OwnStart
        <2>7. OwnToken' /\ OwnFlow'
            BY <2>1, <2>2, <2>4 DEF OwnTab, OwnToken, OwnFlow, InFlow, Own, Initializing, Joining
        <2>8. \A p \in Background : OwnAsked(p)'
            BY <2>2, <2>4 DEF OwnTab, OwnAsked, Own, Idle
        <2> QED BY <2>6, <2>7, <2>8 DEF OwnTab
    <1>14. ASSUME NEW q \in Background, Queried(q) PROVE OwnTab'
        <2>1. req[q].pc = "served" /\ UNCHANGED <<mem, stored, refresh, auth, path>>
            BY <1>14 DEF Queried, Delivered
        <2>2. req'["flow"] = req["flow"] /\ req'[q] = Idle /\ \A p \in Background : p # q => req'[p] = req[p]
            BY <1>14, <1>t DEF Queried
        <2>3. cache' \subseteq {auth.user}
            BY <1>14 DEF Queried, Failed, OwnTab, OwnUser, OwnAsked, Own
        <2>4. auth.init
            BY <2>1 DEF OwnTab, OwnStart, Idle
        <2>5. OwnUser' /\ OwnStart'
            BY <2>1, <2>3, <2>4 DEF OwnTab, OwnUser, OwnStart
        <2>6. OwnToken' /\ OwnFlow'
            BY <2>1, <2>2 DEF OwnTab, OwnToken, OwnFlow, InFlow, Own, Initializing, Joining
        <2>7. \A p \in Background : OwnAsked(p)'
            BY <2>1, <2>2 DEF OwnTab, OwnAsked, Own, Idle
        <2> QED BY <2>5, <2>6, <2>7 DEF OwnTab
    <1>15. ~SignedOut /\ ~SignInEffect /\ ~StartOAuth
        BY SessionAssumption DEF SignedOut, SignInEffect, StartOAuth
    <1>16. ASSUME req["flow"].pc = "served", ~Initializing(req["flow"]),
                  req' = [req EXCEPT !["flow"] = Idle], UNCHANGED <<mem, stored, refresh, auth, cache, path>>
           PROVE  OwnTab'
        <2>1. req'["flow"].pc = "idle" /\ \A q \in Background : req'[q] = req[q]
            BY <1>16, <1>t DEF Idle
        <2>2. auth.init
            BY <1>16 DEF OwnTab, OwnStart
        <2>3. OwnUser' /\ OwnStart'
            BY <1>16, <2>2 DEF OwnTab, OwnUser, OwnStart
        <2>4. OwnToken' /\ OwnFlow'
            BY <1>16, <2>1, <2>2 DEF OwnTab, OwnToken, OwnFlow, Joining, Initializing, Own
        <2>5. \A q \in Background : OwnAsked(q)'
            BY <1>16, <2>1 DEF OwnTab, OwnAsked, Own
        <2> QED BY <2>3, <2>4, <2>5 DEF OwnTab
    <1>17. CASE Created
        <2>1. req["flow"].pc = "served" /\ ~Initializing(req["flow"]) /\ Joining(req["flow"])
            BY <1>17 DEF Created, Delivered, Initializing, Joining
        <2>2. CASE Failed("flow")
            BY <1>16, <1>17, <2>1, <2>2 DEF Created
        <2>3. CASE ~Failed("flow")
            <3>1. auth.init /\ path \in AuthPages
                BY <2>1 DEF OwnTab, OwnStart, OwnToken
            <3> QED BY <1>17, <2>1, <2>3, <3>1, OwnFlowCall DEF Created
        <2> QED BY <2>2, <2>3
    <1>18. CASE SignedIn
        <2>1. req["flow"].pc = "served" /\ ~Initializing(req["flow"]) /\ Joining(req["flow"])
            BY <1>18 DEF SignedIn, Delivered, Initializing, Joining
        <2>2. UNCHANGED <<refresh, auth, cache, path>>
            BY <1>18 DEF SignedIn
        <2>3. CASE Failed("flow")
            BY <1>16, <1>18, <2>1, <2>3 DEF SignedIn
        <2>4. CASE ~Failed("flow")
            <3> DEFINE u == req["flow"].for
                       r == [Idle EXCEPT !.pc = "sent", !.rpc = "me", !.form = TRUE, !.tok = u]
            <3>1. mem' = u /\ stored' = u /\ req' = [req EXCEPT !["flow"] = r] /\ auth.user = None
                BY <1>18, <2>4 DEF SignedIn, SetAccessToken
            <3>2. req'["flow"] = r /\ \A q \in Background : req'[q] = req[q]
                BY <1>t, <3>1
            <3>3. req'["flow"].pc = "sent" /\ req'["flow"].rpc = "me" /\ req'["flow"].tok = u
                BY <3>2 DEF Idle
            <3> HIDE DEF u, r
            <3>4. auth.init /\ path \in AuthPages
                BY <2>1 DEF OwnTab, OwnStart, OwnToken
            <3>5. OwnUser' /\ OwnStart'
                BY <2>2, <3>4 DEF OwnTab, OwnUser, OwnStart
            <3>6. OwnToken' /\ OwnFlow'
                BY <2>2, <3>1, <3>3, <3>4 DEF OwnToken, OwnFlow, InFlow, Initializing
            <3>7. \A q \in Background : OwnAsked(q)'
                BY <2>2, <3>2 DEF OwnTab, OwnAsked, Own
            <3> QED BY <3>5, <3>6, <3>7 DEF OwnTab
        <2> QED BY <2>3, <2>4
    <1>r. Ready => auth.init
        BY DEF Ready, Running
    <1>19. ASSUME NEW q \in Background, Refetch(q) \/ \E rpc \in {"public", "query"} : Query(q, rpc) PROVE OwnTab'
        BY <1>19, <1>r, OwnCall DEF Refetch, Query
    <1>20. ASSUME SignOut \/ \E u \in Users : SubmitSignIn(u) \/ SubmitSignUp(u) PROVE OwnTab'
        <2>1. auth.init /\ ~Initializing(req["flow"])
            BY <1>20, <1>r DEF SignOut, SubmitSignIn, SubmitSignUp, Initializing
        <2>2. PICK rpc \in {"out", "signin", "create"}, u \in Users \cup {None}, form \in BOOLEAN : Call("flow", rpc, u, form)
            BY <1>20, <1>t DEF SignOut, SubmitSignIn, SubmitSignUp
        <2>3. UNCHANGED <<refresh, auth, cache, path>> /\ (path \in AuthPages \/ SignOut)
            BY <1>20 DEF SignOut, SubmitSignIn, SubmitSignUp, AuthPages
        <2>4. SignOut => Call("flow", "out", auth.user, FALSE)
            BY DEF SignOut
        <2> QED BY <2>1, <2>2, <2>3, <2>4, OwnFlowCall
    <1>21. ASSUME NEW u \in Users, CallbackEffect(u) PROVE OwnTab'
        <2>1. auth.init /\ path \in AuthPages /\ UNCHANGED <<refresh, auth, cache, path>>
            BY <1>21 DEF CallbackEffect, Running, AuthPages
        <2>2. CASE Valid /\ req["flow"].pc = "idle"
            <3>1. Call("flow", "sso", u, TRUE) /\ ~Initializing(req["flow"])
                BY <1>21, <2>2 DEF CallbackEffect, Initializing
            <3> QED BY <2>1, <3>1, OwnFlowCall
        <2>3. CASE ~(Valid /\ req["flow"].pc = "idle")
            <3>1. UNCHANGED <<req, mem, stored>>
                BY <1>21, <2>3 DEF CallbackEffect
            <3> QED BY <2>1, <3>1, OwnFrame
        <2> QED BY <2>2, <2>3
    <1>22. CASE AppEffect \/ LayoutEffect \/ InstanceLoaded \/ AgeOAuth \/ InstanceFailed \/ OtherSignOut
        BY <1>22, OwnFrame DEF AppEffect, LayoutEffect, InstanceLoaded, AgeOAuth, InstanceFailed, OtherSignOut,
                               GoTo, AuthPages
    <1>23. ASSUME NEW u \in Users, OtherSignIn(u) PROVE OwnTab'
        BY <1>23, OwnFrame DEF OtherSignIn
    <1>24. ASSUME NEW p \in Paths, Navigate(p) PROVE OwnTab'
        BY <1>24, OwnFrame DEF Navigate
    <1>26. ASSUME NEW i \in Refreshes, LoseRefresh(i) PROVE OwnTab'
        <2>1. \A j \in Refreshes : refresh'[j].pc # "idle" => refresh[j].pc # "idle"
            BY <1>26 DEF LoseRefresh, TypeInv, TypeOK, RefreshType
        <2>2. UNCHANGED <<mem, stored, req, auth, cache, path>>
            BY <1>26 DEF LoseRefresh
        <2>3. OwnStart'
            BY <2>1, <2>2 DEF OwnTab, OwnStart, Initializing
        <2> QED BY <2>2, <2>3 DEF OwnTab, OwnUser, OwnToken, OwnFlow, OwnAsked, Own, InFlow, Initializing, Joining
    <1>25. CASE Load \/ Reload \/ \E n \in 0..MaxStates : ReturnFromIdp(n)
        BY <1>1, <1>25 DEF Load, Reload, ReturnFromIdp
    <1> QED
        BY <1>3, <1>4, <1>5, <1>6, <1>7, <1>8, <1>9, <1>10, <1>11, <1>12, <1>13, <1>14, <1>15, <1>17, <1>18,
           <1>19, <1>20, <1>21, <1>22, <1>23, <1>24, <1>25, <1>26
        DEF Next, Progress, Environment

\* The tab shows nobody another user's settings or data (AuthContext, React Query), whatever
\* answers come late, as long as every sign-in and refresh since the page load was for the user it shows.
THEOREM ShowsOwnData == Spec => []OwnData
    <1>1. Init => OwnInv
        <2> SUFFICES ASSUME Init PROVE OwnTab
            BY DEF OwnInv
        <2>1. auth.user = None /\ auth.settings = None /\ ~auth.init /\ cache = {}
            BY DEF Init, Nobody
        <2>2. req["flow"] = [Idle EXCEPT !.pc = "sent", !.rpc = "me"] /\ \A q \in Background : req[q] = Idle
            BY InSlots DEF Init
        <2>3. req["flow"].pc = "sent" /\ req["flow"].rpc = "me" /\ req["flow"].tok = None
            BY <2>2 DEF Idle
        <2>4. InFlow = {}
            BY <2>3, NobodysToken DEF InFlow, Init
        <2>5. OwnUser /\ OwnToken /\ OwnFlow
            BY <2>1, <2>3, <2>4 DEF OwnUser, OwnToken, OwnFlow
        <2>6. OwnStart
            BY <2>1, <2>2, <2>3 DEF OwnStart, Initializing, Init
        <2>7. \A q \in Background : OwnAsked(q)
            BY <2>2, NobodysToken DEF OwnAsked, Own, Idle
        <2> QED BY <2>5, <2>6, <2>7 DEF OwnTab
    <1>2. OwnInv => OwnData
        BY DEF OwnInv, OwnTab, OwnUser, OwnData
    <1> QED BY TypeInit, TypeStep, OwnStep, <1>1, <1>2, PTL DEF Spec
===============================================================================
