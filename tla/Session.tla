------------------------------- MODULE Session -------------------------------
(* The signed-in session of one browser tab of the web client: the access     *)
(* token of auth-state.ts, the interceptor of connect.ts that refreshes it,    *)
(* AuthContext (initialize, logout, refetchSettings), the sign-in, sign-up     *)
(* and OAuth callback pages, the redirects, and the page loads that forget     *)
(* the memory of the tab.  A tab runs one callback at a time; what interleaves *)
(* is the answers of the server, the events of the user, the expiry of tokens  *)
(* and the other tabs of the browser, which share the refresh cookie.          *)
EXTENDS Naturals, Sequences, FiniteSets

CONSTANTS Users,        \* accounts
          Founders,     \* the accounts that exist when the tab is opened
          None,         \* no user
          Anon,         \* the identity of a request without a valid token
          Background,   \* requests beside the sign-in and sign-out flow: queries, refetchSettings
          NoPublic,     \* disallowPublicVisibility of the instance
          Dead,         \* an expired access token
          MaxFaults,    \* lost requests and answers, sign-ins and sign-outs in other tabs
          MaxExpiries,  \* times at which the access tokens handed out expire
          MaxStates     \* OAuth states issued

ASSUME SessionAssumption ==
    /\ Founders \subseteq Users /\ "flow" \notin Background
    /\ Users \cap {None, Anon, Dead} = {} /\ None # Anon /\ None # Dead /\ Anon # Dead
    /\ None \notin {"root", "explore", "auth", "signup", "callback", "idp"}
    /\ {MaxFaults, MaxExpiries, MaxStates} \subseteq Nat

VARIABLES
    accounts, cookie,                            \* the server; whose live session the cookie holds
    mem, stored,                                 \* the access token: in memory, in sessionStorage
    req, refresh, manager,                       \* requests, refreshes, the refresh in progress
    auth, cache,                                 \* AuthState; whose data React Query holds
    path, leaving, due,                          \* the page, a page load under way, effects to run
    inst, owner,                                 \* InstanceContext: loaded, profile.owner
    oauth, param, cbError,                       \* the stored OAuth state, the one in the URL
    nfault, nexpiry, exchanged, mixed, gone      \* bounds and history

server == <<accounts, cookie>>
token  == <<mem, stored>>
page   == <<path, leaving, due, inst, owner, oauth, param, cbError>>
counts == <<nfault, nexpiry>>
ghosts == <<exchanged, mixed, gone>>
vars   == <<server, token, req, refresh, manager, auth, cache, page, counts, ghosts>>

Slots      == {"flow"} \cup Background
Refreshes  == 1..2
AuthPages  == {"auth", "signup", "callback"}
Private    == {"root"}                       \* PRIVATE_ROUTES
Public     == AuthPages \cup {"explore"}     \* PUBLIC_ROUTES
Paths      == Public \cup Private \cup {"idp"}
Idle       == [pc |-> "idle", rpc |-> "none", tok |-> None, for |-> None, form |-> FALSE,
               drop |-> FALSE, retried |-> FALSE, on |-> 0, ans |-> None]
Nobody(ready) == [user |-> None, settings |-> None, init |-> ready]
Tokens     == Users \cup {None, Dead}      \* an access token names its user until it expires
Errors     == {"unauth", "error"}

Rpcs       == {"none", "me", "settings", "out", "signin", "create", "sso", "public", "query"}
Requests   == [pc : {"idle", "sent", "served", "waiting"}, rpc : Rpcs, tok : Tokens,
               for : Users \cup {None}, form : BOOLEAN, drop : BOOLEAN, retried : BOOLEAN,
               on : Refreshes \cup {0}, ans : Users \cup {None, Anon} \cup Errors]

ServerType  == accounts \subseteq Users /\ cookie \in Users \cup {None}
TokenType   == mem \in Tokens /\ stored \in Tokens
RefreshType == /\ refresh \in [Refreshes -> [pc : {"idle", "sent", "served"}, tok : Tokens]]
               /\ manager \in Refreshes \cup {0}
AuthType    == /\ auth \in [user : Users \cup {None}, settings : Users \cup {None}, init : BOOLEAN]
               /\ cache \subseteq Users
OAuthType   == /\ oauth \in [id : 0..MaxStates, aged : BOOLEAN, last : 0..MaxStates]
               /\ param \in 0..MaxStates
               /\ exchanged \in [1..MaxStates -> 0..2]
PageType    == /\ path \in Paths /\ leaving \in Paths \cup {None}
               /\ due \subseteq {"app", "layout", "callback"}
               /\ inst \in {"loading", "ready", "failed"} /\ owner \in BOOLEAN
               /\ cbError \in BOOLEAN /\ mixed \in BOOLEAN /\ gone \in BOOLEAN
               /\ nfault \in 0..MaxFaults /\ nexpiry \in 0..MaxExpiries

TypeOK ==
    /\ ServerType /\ TokenType /\ RefreshType /\ AuthType /\ OAuthType /\ PageType
    /\ req \in [Slots -> Requests]

(* ---- auth-state.ts ---- *)
\* getAccessToken: the token in memory, expired or not, or a live one restored from the storage.
Restored(m) == IF m = None /\ stored # Dead THEN stored ELSE m
Kept(m)     == IF m = None /\ stored = Dead THEN None ELSE stored

\* Mutant: only the memory is cleared.
ClearAccessTokenInMemory == mem' = None /\ UNCHANGED stored

SetAccessToken(t)  == mem' = t /\ stored' = t
ClearAccessToken   == mem' = None /\ stored' = None

Request(rpc, for, form, m) ==
    [Idle EXCEPT !.pc = "sent", !.rpc = rpc, !.for = for, !.form = form, !.tok = Restored(m)]

\* A call through the interceptor: the token as it is now goes into the header.
Call(s, rpc, for, form) ==
    /\ req' = [req EXCEPT ![s] = Request(rpc, for, form, mem)]
    /\ mem' = Restored(mem) /\ stored' = Kept(mem)

(* ---- the server ---- *)
Identity(t)    == IF t \in Users THEN t ELSE Anon
Answered(s, a) == req' = [req EXCEPT ![s].pc = "served", ![s].ans = a]

\* What the server answers to a read: a method of PublicMethods serves anybody, the lists of
\* settings and shortcuts only their user, the others whoever is signed in.
Answer(r) == LET who == Identity(r.tok) IN
    IF r.rpc = "public" THEN who
    ELSE IF who = Anon THEN "unauth"
    ELSE IF r.rpc = "settings" /\ who # r.for THEN "error" ELSE who

Serve(s) ==
    /\ req[s].pc = "sent" /\ req[s].rpc \in {"public", "query", "me", "settings"}
    /\ Answered(s, Answer(req[s]))
    /\ UNCHANGED <<server, token, refresh, manager, auth, cache, page, counts, ghosts>>

\* SignUp's CreateUser, a public method.
ServeCreate ==
    LET r == req["flow"] IN
    /\ r.pc = "sent" /\ r.rpc = "create"
    /\ accounts' = accounts \cup {r.for}
    /\ Answered("flow", IF r.for \in accounts THEN "error" ELSE r.for)
    /\ UNCHANGED <<cookie, token, refresh, manager, auth, cache, page,
                   counts, ghosts>>

\* A sign-in opens a refresh session, puts it into the cookie and answers with an access token.
ServeSignIn ==
    LET r == req["flow"] IN
    /\ r.pc = "sent" /\ r.rpc \in {"signin", "sso"}
    /\ cookie' = r.for
    /\ Answered("flow", r.for)
    /\ UNCHANGED <<accounts, token, refresh, manager, auth, cache, page, counts, ghosts>>

\* SignOut is a protected method; it revokes the session of the cookie and clears the cookie.
ServeSignOut ==
    LET r == req["flow"] IN
    /\ r.pc = "sent" /\ r.rpc = "out"
    /\ cookie' = IF Identity(r.tok) = Anon THEN cookie ELSE None
    /\ Answered("flow", IF Identity(r.tok) = Anon THEN "unauth" ELSE r.tok)
    /\ UNCHANGED <<accounts, token, refresh, manager, auth, cache, page, counts, ghosts>>

\* RefreshToken: the session of the cookie gets a new access token.
ServeRefresh(i) ==
    /\ refresh[i].pc = "sent"
    /\ refresh' = [refresh EXCEPT ![i] = [pc |-> "served", tok |-> cookie]]
    /\ UNCHANGED <<server, token, req, manager, auth, cache, page, counts, ghosts>>

\* A request or its answer is lost, or the server fails.
Lose(s) ==
    /\ req[s].pc \in {"sent", "served"} /\ req[s].ans # "error" /\ nfault < MaxFaults
    /\ nfault' = nfault + 1
    /\ Answered(s, "error")
    /\ UNCHANGED <<nexpiry, server, token, refresh, manager, auth, cache, page, ghosts>>

\* A refresh is lost, or fails although the session of the cookie lives.
LoseRefresh(i) ==
    /\ nfault < MaxFaults
    /\ refresh[i].pc = "sent" \/ (refresh[i].pc = "served" /\ refresh[i].tok # None)
    /\ nfault' = nfault + 1
    /\ refresh' = [refresh EXCEPT ![i] = [pc |-> "served", tok |-> None]]
    /\ UNCHANGED <<nexpiry, server, token, req, manager, auth, cache, page, ghosts>>

\* Fifteen minutes pass: the access tokens handed out so far expire.
Expired(t) == IF t = None THEN None ELSE Dead

Expire ==
    /\ mem \in Users \/ stored \in Users
    /\ nexpiry < MaxExpiries
    /\ nexpiry' = nexpiry + 1
    /\ mem' = Expired(mem) /\ stored' = Expired(stored)
    /\ req' = [s \in Slots |-> [req[s] EXCEPT !.tok = Expired(@)]]
    /\ refresh' = [i \in Refreshes |-> [refresh[i] EXCEPT !.tok = Expired(@)]]
    /\ UNCHANGED <<nfault, server, manager, auth, cache, page, ghosts>>

\* Another tab of the browser signs in as u, or signs out (or the session is revoked).
OtherSignIn(u) ==
    /\ nfault < MaxFaults /\ u \in accounts
    /\ nfault' = nfault + 1
    /\ cookie' = u
    /\ gone' = FALSE
    /\ UNCHANGED <<nexpiry, accounts, token, req, refresh, manager, auth, cache, page, exchanged,
                   mixed>>

OtherSignOut ==
    /\ nfault < MaxFaults /\ cookie # None
    /\ nfault' = nfault + 1
    /\ cookie' = None
    /\ UNCHANGED <<nexpiry, accounts, token, req, refresh, manager, auth, cache, page, ghosts>>

(* ---- connect.ts: the interceptor ---- *)
\* tokenRefreshManager.refresh: the refresh in progress, or a new one.
\* Mutant: every refused request starts one of its own.
JoinNew(new) == new
Join(new)    == IF manager # 0 THEN manager ELSE new

Unauthenticated(s) ==
    /\ req[s].pc = "served" /\ req[s].ans = "unauth" /\ ~req[s].retried
    /\ \E i \in {r \in Refreshes : r = manager \/ refresh[r].pc = "idle"} :
         /\ i = Join(i)
         /\ req' = [req EXCEPT ![s].pc = "waiting", ![s].on = i]
         /\ manager' = i
         /\ refresh' = IF refresh[i].pc # "idle" THEN refresh
                       ELSE [refresh EXCEPT ![i].pc = "sent"]
    /\ UNCHANGED <<server, token, auth, cache, page, counts, ghosts>>

\* The refresh settles: its requests are sent again with the token there is, once, or fail.
RefreshSettled(i) ==
    LET t == refresh[i].tok
        waiting == {s \in Slots : req[s].pc = "waiting" /\ req[s].on = i}
    IN
    /\ refresh[i].pc = "served"
    /\ IF t # None THEN SetAccessToken(t) ELSE UNCHANGED token
    /\ req' = [s \in Slots |->
                 IF s \notin waiting THEN req[s]
                 ELSE IF t # None THEN [req[s] EXCEPT !.pc = "sent", !.tok = t, !.retried = TRUE, !.ans = None]
                 ELSE [req[s] EXCEPT !.pc = "served", !.ans = "error", !.retried = TRUE]]
    /\ refresh' = [refresh EXCEPT ![i] = [pc |-> "idle", tok |-> None]]
    /\ manager' = IF manager = i THEN 0 ELSE manager
    /\ mixed' = (mixed \/ (t # None /\ auth.init /\ t # auth.user))
    /\ UNCHANGED <<server, auth, cache, page, counts, exchanged, gone>>

\* React runs the effects of a render before the page handles anything else.  The effect of a
\* callback page with an error never comes to rest: it sets a new state object, which renders the
\* page, whose navigateTo is then another function.  Each of its runs is a task of its own, and
\* what else happens takes its turn in between.
Running == auth.init /\ inst # "loading" /\ path # "idp"
Pending == IF cbError THEN due \ {"callback"} ELSE due
Settled == Running => Pending = {}

Delivered(s) == req[s].pc = "served" /\ (req[s].ans # "unauth" \/ req[s].retried) /\ Settled
Failed(s)    == req[s].ans \in Errors

\* redirectOnAuthFailure, with the instance config as far as it is loaded.
Disallowed == inst = "ready" /\ NoPublic
Target     == IF Disallowed THEN "auth" ELSE "explore"
\* Mutant: the public routes are not looked at.
RedirectAlways == IF ~(Disallowed \/ path \in Private) THEN leaving ELSE Target
Redirect   == IF path \in Public \/ ~(Disallowed \/ path \in Private) THEN leaving ELSE Target

\* What a delivered answer does to the page before its caller goes on.
AfterRetry(s) == IF Failed(s) /\ req[s].retried THEN Redirect ELSE leaving

(* ---- AuthContext.initialize ---- *)
Rendered(effects) == due' = due \cup effects

\* The page in the address bar becomes p and the effects next are to run; the callback page takes its
\* parameter, its message and its effect along.
GoTo(p, next) ==
    /\ path' = p
    /\ IF p = path
       THEN due' = next /\ UNCHANGED <<param, cbError>>
       ELSE due' = next \ {"callback"} /\ param' = 0 /\ cbError' = FALSE

\* The outcome of initialize: the user and its settings, or nobody; a form then navigates to "/".
Initialized(user, form) ==
    /\ auth' = [user |-> user, settings |-> user, init |-> TRUE]
    /\ cache' = IF user = None THEN cache ELSE cache \cup {user}
    /\ GoTo(IF form THEN "root" ELSE path,
            due \cup IF form \/ path \notin AuthPages THEN {"app", "layout"} ELSE {"app"})
    /\ UNCHANGED <<inst, owner, oauth>>

\* getCurrentUser is answered: the settings of the user are asked for, or the token is dropped.
InitializeUser ==
    LET r == req["flow"] IN
    /\ Delivered("flow") /\ r.rpc = "me"
    /\ leaving' = AfterRetry("flow")
    /\ IF Failed("flow")
       THEN /\ ClearAccessToken
            /\ req' = [req EXCEPT !["flow"] = Idle]
            /\ Initialized(None, r.form)
       ELSE /\ Call("flow", "settings", r.ans, r.form)
            /\ UNCHANGED <<auth, cache, path, due, inst, owner, oauth, param, cbError>>
    /\ UNCHANGED <<server, refresh, manager, counts, ghosts>>

InitializeSettings ==
    LET r == req["flow"] IN
    /\ Delivered("flow") /\ r.rpc = "settings"
    /\ leaving' = AfterRetry("flow")
    /\ req' = [req EXCEPT !["flow"] = Idle]
    /\ IF Failed("flow") THEN ClearAccessToken ELSE UNCHANGED token
    /\ Initialized(IF Failed("flow") THEN None ELSE r.for, r.form)
    /\ UNCHANGED <<server, refresh, manager, counts, ghosts>>

(* ---- AuthContext.refetchSettings and logout, UserMenu.handleSignOut ---- *)
Ready == Running /\ leaving = None /\ Pending = {}

\* refetchSettings, after a setting of the current user was changed.
Refetch(q) ==
    /\ Ready /\ path \notin AuthPages /\ auth.user # None /\ req[q].pc = "idle"
    /\ Call(q, "settings", auth.user, FALSE)
    /\ UNCHANGED <<server, refresh, manager, auth, cache, page, counts, ghosts>>

\* Its answer is merged into whatever the state is by then; a failure is dropped.
Refetched(q) ==
    /\ Delivered(q) /\ req[q].rpc = "settings"
    /\ leaving' = AfterRetry(q)
    /\ req' = [req EXCEPT ![q] = Idle]
    /\ auth' = IF Failed(q) THEN auth ELSE [auth EXCEPT !.settings = req[q].for]
    /\ IF Failed(q) THEN UNCHANGED due ELSE Rendered({"app"})
    /\ UNCHANGED <<server, token, refresh, manager, cache, path, inst, owner, oauth, param,
                   cbError, counts, ghosts>>

SignOut ==
    /\ Ready /\ path \notin AuthPages /\ auth.user # None /\ req["flow"].pc = "idle"
    /\ Call("flow", "out", auth.user, FALSE)
    /\ UNCHANGED <<server, refresh, manager, auth, cache, page, counts, ghosts>>

\* Mutant: the application navigates to the sign-in page without a page load.
SignedOutWithin ==
    /\ Delivered("flow") /\ req["flow"].rpc = "out"
    /\ ClearAccessToken
    /\ auth' = Nobody(TRUE)
    /\ cache' = {}
    /\ req' = [s \in Slots |-> IF s = "flow" THEN Idle
                               ELSE IF req[s].pc # "idle"
                                    THEN [req[s] EXCEPT !.drop = TRUE] ELSE req[s]]
    /\ GoTo("auth", due \cup {"app", "layout"}) /\ UNCHANGED leaving
    /\ gone' = (~Failed("flow") /\ manager = 0 /\ cookie = None)
    /\ UNCHANGED <<server, refresh, manager, inst, owner, oauth, counts,
                   exchanged, mixed>>

\* The finally block, whatever the answer: token, state and React Query's data are dropped, the
\* queries in flight no longer have where to put their answer, and the page is replaced.
SignedOut ==
    /\ Delivered("flow") /\ req["flow"].rpc = "out"
    /\ ClearAccessToken
    /\ auth' = Nobody(TRUE)
    /\ cache' = {}
    /\ req' = [s \in Slots |-> IF s = "flow" THEN Idle
                               ELSE IF req[s].pc # "idle"
                                    THEN [req[s] EXCEPT !.drop = TRUE] ELSE req[s]]
    /\ leaving' = "auth"
    /\ Rendered({"app", "layout"})
    /\ gone' = (~Failed("flow") /\ manager = 0 /\ cookie = None)
    /\ UNCHANGED <<server, refresh, manager, path, inst, owner, oauth, param, cbError, counts,
                   exchanged, mixed>>

(* ---- PasswordSignInForm, SignUp, SignIn, AuthCallback ---- *)
\* The button of the sign-in form; loading disables it while the flow runs.
SubmitSignIn(u) ==
    /\ Ready /\ path = "auth" /\ auth.user = None /\ u \in accounts /\ req["flow"].pc = "idle"
    /\ Call("flow", "signin", u, TRUE)
    /\ gone' = FALSE
    /\ UNCHANGED <<server, refresh, manager, auth, cache, page, counts, exchanged, mixed>>

\* The sign-up page does not look at the current user: a signed-in tab may come back to it.
SubmitSignUp(u) ==
    /\ Ready /\ path = "signup" /\ req["flow"].pc = "idle"
    /\ Call("flow", "create", u, TRUE)
    /\ gone' = FALSE
    /\ UNCHANGED <<server, refresh, manager, auth, cache, page, counts, exchanged, mixed>>

Created ==
    /\ Delivered("flow") /\ req["flow"].rpc = "create"
    /\ leaving' = AfterRetry("flow")
    /\ IF Failed("flow")
       THEN req' = [req EXCEPT !["flow"] = Idle] /\ UNCHANGED token
       ELSE Call("flow", "signin", req["flow"].for, TRUE)
    /\ UNCHANGED <<server, refresh, manager, auth, cache, path, due, inst, owner, oauth, param,
                   cbError, counts, ghosts>>

\* The answer of a sign-in: the token is stored and the session initialised with it.
SignedIn ==
    LET r == req["flow"] IN
    /\ Delivered("flow") /\ r.rpc \in {"signin", "sso"}
    /\ leaving' = AfterRetry("flow")
    /\ IF Failed("flow")
       THEN req' = [req EXCEPT !["flow"] = Idle] /\ UNCHANGED <<token, mixed>>
       ELSE /\ SetAccessToken(r.for)
            /\ req' = [req EXCEPT !["flow"] = [Idle EXCEPT !.pc = "sent", !.rpc = "me",
                                                 !.form = TRUE, !.tok = r.for]]
            /\ mixed' = (mixed \/ auth.user # None)
    /\ IF r.rpc = "sso" /\ path = "callback"
       THEN cbError' = Failed("flow") /\ Rendered({"callback"})
       ELSE UNCHANGED <<cbError, due>>
    /\ UNCHANGED <<server, refresh, manager, auth, cache, path, inst, owner, oauth, param, counts,
                   exchanged, gone>>

\* storeOAuthState: a new state takes the place of the stored one.
StoreOAuthState ==
    /\ oauth.last < MaxStates
    /\ oauth' = [id |-> oauth.last + 1, aged |-> FALSE, last |-> oauth.last + 1]

\* handleSignInWithIdentityProvider, up to the page load of the identity provider.
StartOAuth ==
    /\ Ready /\ path = "auth" /\ auth.user = None /\ req["flow"].pc = "idle"
    /\ StoreOAuthState
    /\ leaving' = "idp"
    /\ UNCHANGED <<server, token, req, refresh, manager, auth, cache, path, due, inst, owner,
                   param, cbError, counts, ghosts>>

\* Ten minutes pass at the identity provider.
AgeOAuth ==
    /\ path = "idp" /\ oauth.id # 0 /\ ~oauth.aged
    /\ oauth' = [oauth EXCEPT !.aged = TRUE]
    /\ UNCHANGED <<server, token, req, refresh, manager, auth, cache, path, leaving, due, inst,
                   owner, param, cbError, counts, ghosts>>

\* validateOAuthState: whatever it finds, the stored state is used up.
Valid == oauth.id # 0 /\ ~oauth.aged /\ oauth.id = param

\* Mutant: a valid state is not removed from the storage.
CallbackEffectTwice(u) ==
    /\ Running /\ path = "callback" /\ "callback" \in due /\ u \in accounts
    /\ IF Valid
       THEN /\ IF req["flow"].pc = "idle" THEN Call("flow", "sso", u, TRUE) ELSE UNCHANGED <<req, token>>
            /\ exchanged' = [exchanged EXCEPT ![param] = IF @ = 2 THEN 2 ELSE @ + 1]
            /\ gone' = FALSE
            /\ due' = due \ {"callback"}
            /\ UNCHANGED <<cbError, oauth>>
       ELSE /\ cbError' = TRUE
            /\ oauth' = IF param = 0 THEN oauth ELSE [oauth EXCEPT !.id = 0, !.aged = FALSE]
            /\ UNCHANGED <<req, token, exchanged, gone, due>>
    /\ UNCHANGED <<server, refresh, manager, auth, cache, path, leaving, inst, owner, param,
                   counts, mixed>>

\* The effect of the callback page, run at the mount and at every render after it, because the
\* navigateTo it depends on is a new function each time.  A provider that answers with an error
\* sends no state, and the stored one stays.  An error is a new state object each time: the page
\* renders and the effect is to run again.
CallbackEffect(u) ==
    /\ Running /\ path = "callback" /\ "callback" \in due /\ u \in accounts
    /\ oauth' = IF param = 0 THEN oauth ELSE [oauth EXCEPT !.id = 0, !.aged = FALSE]
    /\ IF Valid
       THEN /\ IF req["flow"].pc = "idle" THEN Call("flow", "sso", u, TRUE) ELSE UNCHANGED <<req, token>>
            /\ exchanged' = [exchanged EXCEPT ![param] = IF @ = 2 THEN 2 ELSE @ + 1]
            /\ gone' = FALSE
            /\ due' = due \ {"callback"}
            /\ UNCHANGED cbError
       ELSE /\ cbError' = TRUE
            /\ UNCHANGED <<req, token, exchanged, gone, due>>
    /\ UNCHANGED <<server, refresh, manager, auth, cache, path, leaving, inst, owner, param,
                   counts, mixed>>

(* ---- React Query ---- *)
\* A page other than the authentication pages asks for data, with a public or a protected method.
Query(q, rpc) ==
    /\ Ready /\ path \notin AuthPages /\ req[q].pc = "idle" /\ rpc \in {"public", "query"}
    /\ Call(q, rpc, None, FALSE)
    /\ UNCHANGED <<server, refresh, manager, auth, cache, page, counts, ghosts>>

Queried(q) ==
    /\ Delivered(q) /\ req[q].rpc \in {"public", "query"}
    /\ leaving' = AfterRetry(q)
    /\ req' = [req EXCEPT ![q] = Idle]
    /\ cache' = IF Failed(q) \/ req[q].drop THEN cache ELSE cache \cup ({req[q].ans} \cap Users)
    /\ UNCHANGED <<server, token, refresh, manager, auth, path, due, inst, owner, oauth, param,
                   cbError, counts, ghosts>>

(* ---- pages ---- *)
\* A navigation within the application, from one page to another.
Mounts(from, to) ==
    (IF to = "callback" THEN {"callback"} ELSE {}) \cup
    (IF from \in AuthPages /\ to \notin AuthPages THEN {"layout"} ELSE {})

Navigate(to) ==
    /\ Ready /\ req["flow"].pc = "idle" /\ to \in {"root", "explore", "auth", "signup"} /\ to # path
    /\ GoTo(to, due \cup Mounts(path, to))
    /\ UNCHANGED <<server, token, req, refresh, manager, auth, cache, leaving, inst, owner, oauth,
                   counts, ghosts>>

\* cleanupExpiredOAuthState
CleanUp == oauth' = IF oauth.aged THEN [oauth EXCEPT !.id = 0, !.aged = FALSE] ELSE oauth

\* The effects of App, after those of the components in it: an old OAuth state is removed, and
\* without a known owner every render leads to the sign-up page.  The profile is the one of the
\* page load.
AppEffect ==
    /\ Running /\ Pending = {"app"}
    /\ GoTo(IF owner THEN path ELSE "signup", due \ {"app"})
    /\ CleanUp
    /\ UNCHANGED <<server, token, req, refresh, manager, auth, cache, leaving, inst, owner,
                   counts, ghosts>>

\* The effect of RootLayout.
LayoutEffect ==
    /\ Running /\ "layout" \in due
    /\ due' = due \ {"layout"}
    /\ leaving' = IF auth.user = None /\ Disallowed /\ path \notin AuthPages THEN Redirect ELSE leaving
    /\ UNCHANGED <<server, token, req, refresh, manager, auth, cache, path, inst, owner, oauth,
                   param, cbError, counts, ghosts>>

\* The effect of the sign-in page: a signed-in user is sent to "/" by a page load.
SignInEffect ==
    /\ Ready /\ path = "auth" /\ auth.user # None
    /\ leaving' = "root"
    /\ UNCHANGED <<server, token, req, refresh, manager, auth, cache, path, due, inst, owner,
                   oauth, param, cbError, counts, ghosts>>

\* InstanceContext.initialize, beside the one of AuthContext.
InstanceLoaded ==
    /\ inst = "loading"
    /\ inst' = "ready"
    /\ owner' = (accounts # {})
    /\ UNCHANGED <<server, token, req, refresh, manager, auth, cache, path, leaving, due, oauth,
                   param, cbError, counts, ghosts>>

InstanceFailed ==
    /\ inst = "loading" /\ nfault < MaxFaults
    /\ nfault' = nfault + 1
    /\ inst' = "failed"
    /\ UNCHANGED <<nexpiry, server, token, req, refresh, manager, auth, cache, path, leaving, due,
                   owner, oauth, param, cbError, ghosts>>

\* A page load: the memory of the tab is new and AppInitializer starts both initialisations.
\* At the identity provider nothing of the client runs.
Boot(p) ==
    /\ path' = p
    /\ leaving' = None
    /\ auth' = Nobody(FALSE) /\ cache' = {}
    /\ due' = {"app"} \cup (IF p \in AuthPages THEN {} ELSE {"layout"})
                      \cup (IF p = "callback" THEN {"callback"} ELSE {})
    /\ inst' = "loading" /\ owner' = FALSE /\ cbError' = FALSE
    /\ refresh' = [i \in Refreshes |-> [pc |-> "idle", tok |-> None]] /\ manager' = 0
    /\ mixed' = FALSE
    /\ IF p = "idp"
       THEN req' = [s \in Slots |-> Idle] /\ mem' = None /\ UNCHANGED stored
       ELSE /\ req' = [s \in Slots |-> IF s = "flow" THEN Request("me", None, FALSE, None) ELSE Idle]
            /\ mem' = Restored(None) /\ stored' = Kept(None)
    /\ UNCHANGED <<server, oauth, counts, exchanged, gone>>

Load ==
    /\ leaving # None
    /\ Boot(leaving)
    /\ param' = 0

\* The user reloads the page.
Reload ==
    /\ Ready
    /\ Boot(path)
    /\ UNCHANGED param

\* The identity provider sends the browser back, with one of the states it was given or with an
\* error (0).
ReturnFromIdp(n) ==
    /\ path = "idp" /\ n <= oauth.last
    /\ Boot("callback")
    /\ param' = n

Init ==
    /\ accounts = Founders /\ cookie = None /\ mem = None /\ stored = None
    /\ path = "root" /\ leaving = None /\ due = {"app", "layout"}
    /\ auth = Nobody(FALSE) /\ cache = {}
    /\ inst = "loading" /\ owner = FALSE
    /\ refresh = [i \in Refreshes |-> [pc |-> "idle", tok |-> None]] /\ manager = 0
    /\ req = [s \in Slots |-> IF s = "flow" THEN [Idle EXCEPT !.pc = "sent", !.rpc = "me"] ELSE Idle]
    /\ oauth = [id |-> 0, aged |-> FALSE, last |-> 0] /\ param = 0 /\ cbError = FALSE
    /\ nfault = 0 /\ nexpiry = 0
    /\ exchanged = [n \in 1..MaxStates |-> 0] /\ mixed = FALSE /\ gone = FALSE

\* What the server and the browser do by themselves, sooner or later.
Progress ==
    \/ \E s \in Slots : Serve(s) \/ Unauthenticated(s)
    \/ ServeCreate \/ ServeSignIn \/ ServeSignOut
    \/ \E i \in Refreshes : ServeRefresh(i) \/ RefreshSettled(i)
    \/ InitializeUser \/ InitializeSettings \/ SignedOut \/ Created \/ SignedIn
    \/ \E q \in Background : Queried(q) \/ Refetched(q)
    \/ AppEffect \/ LayoutEffect \/ SignInEffect \/ \E u \in Users : CallbackEffect(u)
    \/ InstanceLoaded \/ Load

\* What users, time, other tabs and the network may do.
Environment ==
    \/ \E s \in Slots : Lose(s)
    \/ \E i \in Refreshes : LoseRefresh(i)
    \/ Expire \/ AgeOAuth \/ InstanceFailed \/ OtherSignOut
    \/ \E u \in Users : OtherSignIn(u) \/ SubmitSignIn(u) \/ SubmitSignUp(u)
    \/ SignOut
    \/ StartOAuth \/ \E n \in 0..MaxStates : ReturnFromIdp(n)
    \/ \E q \in Background : Refetch(q) \/ \E rpc \in {"public", "query"} : Query(q, rpc)
    \/ Reload \/ \E p \in Paths : Navigate(p)

Next == Progress \/ Environment

Spec     == Init /\ [][Next]_vars
FairSpec == Spec /\ WF_vars(Progress)

(* ---- properties ---- *)
\* connect.ts, tokenRefreshManager: however many requests are refused at once, one refresh is
\* under way at a time.
OneRefresh == Cardinality({i \in Refreshes : refresh[i].pc # "idle"}) <= 1

\* AuthContext, React Query: the tab shows nobody another user's data.  The settings and shortcuts on
\* display are those of the user on display, although refetchSettings merges an answer that may
\* arrive after the user has changed; what is cached was answered to that user or to nobody in
\* particular, although queries may be answered after a sign-out.  (As long as every sign-in and
\* refresh since the page load was for the user the tab shows.)
OwnData ==
    (leaving = None /\ ~mixed) =>
        /\ auth.user # None => auth.settings = auth.user
        /\ req["flow"].pc = "idle" => cache \subseteq {auth.user}

\* UserMenu.handleSignOut: after a sign-out the server has confirmed, with no refresh under way,
\* the tab has no token and no user until somebody signs in again, whatever is still in flight
\* and however often the page is loaded.
SignedOutStays == gone => mem = None /\ stored = None /\ auth.user = None

\* oauth.ts, validateOAuthState: a state is exchanged for a session at most once, although the
\* effect of the callback page runs at every render and its address may be loaded again.
CallbackOnce == \A n \in 1..MaxStates : exchanged[n] <= 1

\* main.tsx, AppInitializer: every page load ends with a page that stays on display and answers its
\* user, whatever is refused, lost or redirected on the way: no redirect of an authentication
\* failure leads back to itself, and no effect waits for itself.  (A callback page with an error is
\* such a page although its effect runs without end: it keeps the processor busy, shows its message
\* and can be left.)
EventuallyReady == (path # "idp") ~> (Ready \/ path = "idp")
=============================================================================
