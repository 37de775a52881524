------------------------------- MODULE Session -------------------------------
(***************************************************************************)
(* One signed-in user in the browser: the tabs of the application, the     *)
(* token pair they share through localStorage, the interceptor that        *)
(* exchanges the refresh token when a request is refused, the login form,  *)
(* the sign-out, and the routes of the server that issue and consume       *)
(* refresh tokens (api/client.ts, context/auth.tsx, LoginPage.tsx,         *)
(* ProtectedRoute.tsx, routers/auth.py, security.py).                      *)
(*                                                                         *)
(* A token pair is a number: access and refresh token of the pair n are    *)
(* both n, 0 stands for an absent token.  A promise is represented by the  *)
(* request that started it: the requests that await it hold its name.      *)
(***************************************************************************)
EXTENDS Naturals, FiniteSets

CONSTANTS
    Tabs,        \* the browser tabs
    Queries,     \* Queries[t]: requests the pages of a tab have under way at once
    NeedsCode,   \* the user has an authenticator app: a sign-in needs a code
    MaxPairs,    \* bound on the token pairs the server issues
    MaxMoves     \* bound on the sign-outs, revocations and reloads

ASSUME SessionAssumption ==
    /\ MaxPairs \in Nat \ {0} /\ MaxMoves \in Nat
    /\ NeedsCode \in BOOLEAN
    /\ DOMAIN Queries = Tabs
    /\ \A t \in Tabs : {"me", "none"} \cap Queries[t] = {}

Slots == (UNION {Queries[t] : t \in Tabs}) \cup {"me"}      \* "me" is the GET /auth/me of loadMe
Pairs == 1 .. MaxPairs

VARIABLES
    live,      \* refresh tokens that are neither revoked nor expired
    fresh,     \* access tokens that have not expired
    issued,    \* number of pairs issued
    access,    \* localStorage: the access token
    refresh,   \* localStorage: the refresh token
    auth,      \* auth[t]: the AuthState of the tab
    form,      \* form[t]: the login form
    req,       \* req[t][s]: the request in a slot
    inflight,  \* inflight[t]: the request whose refresh promise is kept
    call,      \* call[t][s]: POST /auth/refresh started by request s
    goodbyes,  \* POST /auth/logout under way: the tokens they present
    calm,      \* nobody signed out, nothing timed out, no token was exchanged twice or left unused
    moves      \* sign-outs, revocations and reloads so far

serverVars  == <<live, fresh, issued>>
storageVars == <<access, refresh>>
tabVars     == <<auth, form>>
netVars     == <<req, inflight, call>>
sessionVars == <<serverVars, storageVars, tabVars, netVars, goodbyes, calm, moves>>

NoReq  == [pc |-> "idle", tok |-> 0, retried |-> FALSE, on |-> "none"]
NoCall == [pc |-> "none", tok |-> 0, new |-> 0]

SessionTypeOK ==
    /\ live \subseteq Pairs /\ fresh \subseteq Pairs /\ issued \in 0 .. MaxPairs
    /\ access \in 0 .. MaxPairs /\ refresh \in 0 .. MaxPairs
    /\ auth \in [Tabs -> [user : BOOLEAN, loading : BOOLEAN]]
    /\ form \in [Tabs -> {"credentials", "posted", "mfa", "verifying", "loading"}]
    /\ req \in [Tabs -> [Slots -> [pc : {"idle", "sent", "waiting"}, tok : 0 .. MaxPairs,
                                   retried : BOOLEAN, on : Slots \cup {"none"}]]]
    /\ inflight \in [Tabs -> Slots \cup {"none"}]
    /\ call \in [Tabs -> [Slots -> [pc : {"none", "asked", "found", "answered", "refused"},
                                    tok : 0 .. MaxPairs, new : 0 .. MaxPairs]]]
    /\ \A t \in Tabs, s \in Slots : call[t][s].pc # "none" => call[t][s].tok # 0
    /\ goodbyes \subseteq Pairs
    /\ calm \in BOOLEAN
    /\ moves \in 0 .. MaxMoves

\* A page load: the provider starts in the state loading, asks for /auth/me
\* when a token is stored and arms the safety timer.
LoadingAnyway(token) == [user |-> FALSE, loading |-> TRUE]
Loaded(token) == [user |-> FALSE, loading |-> token # 0]
Mounted(token) == [s \in Slots |-> IF s = "me" /\ token # 0
                                   THEN [NoReq EXCEPT !.pc = "sent", !.tok = token]
                                   ELSE NoReq]

SessionInit ==
    /\ live = {} /\ fresh = {} /\ issued = 0
    /\ access = 0 /\ refresh = 0
    /\ auth = [t \in Tabs |-> Loaded(0)]
    /\ form = [t \in Tabs |-> "credentials"]
    /\ req = [t \in Tabs |-> Mounted(0)]
    /\ inflight = [t \in Tabs |-> "none"]
    /\ call = [t \in Tabs |-> [s \in Slots |-> NoCall]]
    /\ goodbyes = {}
    /\ calm = TRUE
    /\ moves = 0

-----------------------------------------------------------------------------
(* Routing: ProtectedRoute sends a tab without a user to the login page,   *)
(* the login page sends a tab with a user back, and neither shows anything *)
(* while the user is loading.                                              *)

AtLogin(t) == ~auth[t].loading /\ ~auth[t].user
InApp(t) == auth[t].user

\* The safety timer ends a loading screen.  It is armed once for a page load
\* and leaves every other state alone: the screen shows only once as well.
SafetyTimer(t) ==
    /\ auth[t].loading
    /\ auth' = [auth EXCEPT ![t] = [user |-> FALSE, loading |-> FALSE]]
    /\ UNCHANGED <<serverVars, storageVars, form, netVars, goodbyes, calm, moves>>

-----------------------------------------------------------------------------
(* The login form.                                                         *)

Issue == /\ issued < MaxPairs
         /\ issued' = issued + 1
         /\ live' = live \cup {issued + 1}
         /\ fresh' = fresh \cup {issued + 1}

SubmitCredentials(t) ==
    /\ AtLogin(t) /\ form[t] = "credentials"
    /\ form' = [form EXCEPT ![t] = "posted"]
    /\ UNCHANGED <<serverVars, storageVars, auth, netVars, goodbyes, calm, moves>>

SubmitCode(t) ==
    /\ AtLogin(t) /\ form[t] = "mfa"
    /\ form' = [form EXCEPT ![t] = "verifying"]
    /\ UNCHANGED <<serverVars, storageVars, auth, netVars, goodbyes, calm, moves>>

BackToCredentials(t) ==
    /\ AtLogin(t) /\ form[t] = "mfa"
    /\ form' = [form EXCEPT ![t] = "credentials"]
    /\ UNCHANGED <<serverVars, storageVars, auth, netVars, goodbyes, calm, moves>>

\* The pair is stored and loadMe asks for the user; the form navigates to
\* the application when that request has settled.
LoginAccepted(t) ==
    /\ form[t] = (IF NeedsCode THEN "verifying" ELSE "posted") /\ req[t]["me"].pc = "idle"
    /\ Issue
    /\ access' = issued + 1 /\ refresh' = issued + 1
    /\ form' = [form EXCEPT ![t] = "loading"]
    /\ req' = [req EXCEPT ![t]["me"] = [NoReq EXCEPT !.pc = "sent", !.tok = issued + 1]]
    /\ UNCHANGED <<auth, inflight, call, goodbyes, calm, moves>>

\* The answer asks for a code, or the form shows an error: a wrong password,
\* a wrong code, no answer.  The link back works while a code is verified.
LoginRefused(t) ==
    /\ form[t] \in {"posted", "verifying"}
    /\ \E next \in (IF form[t] = "verifying" \/ NeedsCode THEN {"mfa"} ELSE {}) \cup {"credentials"} :
           form' = [form EXCEPT ![t] = next]
    /\ UNCHANGED <<serverVars, storageVars, auth, netVars, goodbyes, calm, moves>>

-----------------------------------------------------------------------------
(* Requests.  The request interceptor adds the stored access token.        *)

Send(t, s) ==
    /\ InApp(t) /\ req[t][s].pc = "idle"
    /\ req' = [req EXCEPT ![t][s] = [NoReq EXCEPT !.pc = "sent", !.tok = access]]
    /\ UNCHANGED <<serverVars, storageVars, tabVars, inflight, call, goodbyes, calm, moves>>

\* ProfileCard and the MFA dialogs ask for the user again.
Refetch(t) ==
    /\ InApp(t) /\ req[t]["me"].pc = "idle"
    /\ req' = [req EXCEPT ![t]["me"] = [NoReq EXCEPT !.pc = "sent", !.tok = access]]
    /\ UNCHANGED <<serverVars, storageVars, tabVars, inflight, call, goodbyes, calm, moves>>

\* What the end of requests ss of tab t, good or bad, does to the tab: only
\* loadMe writes the AuthState, and the login form waits for it.
Settle(t, ss, good) ==
    IF "me" \in ss
    THEN /\ auth' = [auth EXCEPT ![t] = [user |-> good, loading |-> FALSE]]
         /\ form' = [form EXCEPT ![t] = IF @ = "loading" THEN "credentials" ELSE @]
    ELSE UNCHANGED <<auth, form>>

Answered(t, s) ==
    /\ req[t][s].pc = "sent" /\ req[t][s].tok \in fresh
    /\ req' = [req EXCEPT ![t][s] = NoReq]
    /\ Settle(t, {s}, TRUE)
    /\ UNCHANGED <<serverVars, storageVars, inflight, call, goodbyes, calm, moves>>

\* No answer within the 15 s of axios, or an answer the interceptor passes
\* on: an error other than 401, or a 401 to a request it has retried.
Failed(t, s) ==
    /\ req[t][s].pc = "sent"
    /\ \/ req[t][s].tok \in fresh /\ calm' = FALSE
       \/ req[t][s].tok \notin fresh /\ req[t][s].retried /\ UNCHANGED calm
    /\ req' = [req EXCEPT ![t][s] = NoReq]
    /\ Settle(t, {s}, FALSE)
    /\ UNCHANGED <<serverVars, storageVars, inflight, call, goodbyes, moves>>

Refused(t, s) == req[t][s].pc = "sent" /\ req[t][s].tok \notin fresh /\ ~req[t][s].retried

\* Another tab is exchanging the same refresh token.
Collides(t) == \E u \in Tabs \ {t} : \E s \in Slots :
                   call[u][s].pc # "none" /\ call[u][s].tok = refresh

\* The refresh promise a request refused in tab t awaits: the one that is
\* kept, or a new one started by the request itself.
PromiseOfItsOwn(t, s) == s
Promise(t, s) == IF inflight[t] = "none" THEN s ELSE inflight[t]

TokenOrPromise(t) == refresh # 0 \/ inflight[t] # "none"

\* First 401: the request awaits the promise kept by the tab, or starts one.
\* The refresh token is read from localStorage when the promise is started.
AwaitRefresh(t, s) ==
    /\ Refused(t, s) /\ TokenOrPromise(t)
    /\ req' = [req EXCEPT ![t][s] = [@ EXCEPT !.pc = "waiting", !.retried = TRUE,
                                              !.on = Promise(t, s)]]
    /\ IF Promise(t, s) = s
       THEN /\ inflight' = [inflight EXCEPT ![t] = s]
            /\ call' = [call EXCEPT ![t][s] = [pc |-> "asked", tok |-> refresh, new |-> 0]]
            /\ calm' = (calm /\ ~Collides(t))
       ELSE UNCHANGED <<inflight, call, calm>>
    /\ UNCHANGED <<serverVars, storageVars, tabVars, goodbyes, moves>>

\* First 401 without a refresh token: refreshAccessToken returns null at
\* once, the interceptor clears the pair and rejects.
GiveUpWithoutToken(t, s) ==
    /\ Refused(t, s) /\ ~TokenOrPromise(t)
    /\ access' = 0 /\ refresh' = 0
    /\ req' = [req EXCEPT ![t][s] = NoReq]
    /\ Settle(t, {s}, FALSE)
    /\ UNCHANGED <<serverVars, inflight, call, goodbyes, calm, moves>>

-----------------------------------------------------------------------------
(* The exchange of the refresh token.  The route reads the unrevoked rows, *)
(* then revokes the one it found and issues a pair in one commit.          *)

RefreshRead(t, s) ==
    /\ call[t][s].pc = "asked"
    /\ call' = [call EXCEPT ![t][s].pc = IF call[t][s].tok \in live THEN "found" ELSE "refused"]
    /\ UNCHANGED <<serverVars, storageVars, tabVars, req, inflight, goodbyes, calm, moves>>

RefreshCommit(t, s) ==
    /\ call[t][s].pc = "found" /\ issued < MaxPairs
    /\ issued' = issued + 1
    /\ live' = (live \ {call[t][s].tok}) \cup {issued + 1}
    /\ fresh' = fresh \cup {issued + 1}
    /\ call' = [call EXCEPT ![t][s].pc = "answered", ![t][s].new = issued + 1]
    /\ UNCHANGED <<storageVars, tabVars, req, inflight, goodbyes, calm, moves>>

\* The requests that await the promise of s.
FirstWaiterOnly(t, s) == {w \in {s} : req[t][w].pc = "waiting" /\ req[t][w].on = s}
Waiters(t, s) == {w \in Slots : req[t][w].pc = "waiting" /\ req[t][w].on = s}

\* The answer arrives: the pair is stored, the promise forgotten, every
\* request that awaited it is sent again.  All of it is one macrotask.
RefreshStored(t, s) ==
    /\ call[t][s].pc = "answered"
    /\ access' = call[t][s].new /\ refresh' = call[t][s].new
    /\ req' = [req EXCEPT ![t] = [w \in Slots |->
                 IF w \in Waiters(t, s)
                 THEN [@[w] EXCEPT !.pc = "sent", !.tok = call[t][s].new, !.on = "none"]
                 ELSE @[w]]]
    /\ inflight' = [inflight EXCEPT ![t] = "none"]
    /\ call' = [call EXCEPT ![t][s] = NoCall]
    /\ UNCHANGED <<serverVars, tabVars, goodbyes, calm, moves>>

\* An exchange nobody waits for any more consumes its token, or does not; the
\* pair it issues is known to nobody.
Abandoned(cs) == {c.tok : c \in {d \in cs : d.pc \in {"asked", "found"}}}

\* The exchange is refused, or does not answer in 10 s (the server may have
\* consumed the token all the same): the pair is cleared, whichever pair is
\* stored by then, and every request that awaited the promise is rejected.
RefreshLost(t, s) ==
    /\ call[t][s].pc # "none"
    /\ calm' = (calm /\ call[t][s].pc = "refused")
    /\ live' \in {live, live \ Abandoned({call[t][s]})}
    /\ access' = 0 /\ refresh' = 0
    /\ req' = [req EXCEPT ![t] = [w \in Slots |-> IF w \in Waiters(t, s) THEN NoReq ELSE @[w]]]
    /\ Settle(t, Waiters(t, s), FALSE)
    /\ inflight' = [inflight EXCEPT ![t] = "none"]
    /\ call' = [call EXCEPT ![t][s] = NoCall]
    /\ UNCHANGED <<fresh, issued, goodbyes, moves>>

-----------------------------------------------------------------------------
(* Signing out, revocation, expiry, reload.                                *)

Move == moves < MaxMoves /\ moves' = moves + 1

Logout(t) ==
    /\ Move
    /\ InApp(t)
    /\ goodbyes' = goodbyes \cup ({refresh} \ {0})
    /\ access' = 0 /\ refresh' = 0
    /\ auth' = [auth EXCEPT ![t] = [user |-> FALSE, loading |-> FALSE]]
    /\ calm' = FALSE
    /\ UNCHANGED <<serverVars, form, netVars>>

\* The logout request reaches the server, or does not (best effort).
GoodbyeHandled(n) ==
    /\ n \in goodbyes
    /\ goodbyes' = goodbyes \ {n}
    /\ live' \in {live, live \ {n}}
    /\ UNCHANGED <<fresh, issued, storageVars, tabVars, netVars, calm, moves>>

\* A change of password revokes every refresh token of the user, the one of the
\* tab that asked included.
ChangePassword(t) ==
    /\ Move
    /\ InApp(t) /\ access \in fresh
    /\ live' = {}
    /\ calm' = FALSE
    /\ UNCHANGED <<fresh, issued, storageVars, tabVars, netVars, goodbyes>>

\* "Sign out everywhere": the tokens are revoked, or the request fails; the tab
\* signs out either way.
SignOutEverywhere(t) ==
    /\ Move
    /\ InApp(t)
    /\ live' \in {live, {}}
    /\ goodbyes' = goodbyes \cup ({refresh} \ {0})
    /\ access' = 0 /\ refresh' = 0
    /\ auth' = [auth EXCEPT ![t] = [user |-> FALSE, loading |-> FALSE]]
    /\ calm' = FALSE
    /\ UNCHANGED <<fresh, issued, form, netVars>>

\* A reset of the password from the link of a mail, in whatever browser.
PasswordReset ==
    /\ Move
    /\ live # {}
    /\ live' = {}
    /\ calm' = FALSE
    /\ UNCHANGED <<fresh, issued, storageVars, tabVars, netVars, goodbyes>>

\* An accepted invitation stores its pair and reloads the tab.
InviteAccepted(t) ==
    /\ Move
    /\ AtLogin(t)
    /\ Issue
    /\ access' = issued + 1 /\ refresh' = issued + 1
    /\ auth' = [auth EXCEPT ![t] = Loaded(issued + 1)]
    /\ form' = [form EXCEPT ![t] = "credentials"]
    /\ req' = [req EXCEPT ![t] = Mounted(issued + 1)]
    /\ inflight' = [inflight EXCEPT ![t] = "none"]
    /\ call' = [call EXCEPT ![t] = [s \in Slots |-> NoCall]]
    /\ UNCHANGED <<goodbyes, calm>>

AccessExpires(n) ==
    /\ n \in fresh
    /\ fresh' = fresh \ {n}
    /\ UNCHANGED <<live, issued, storageVars, tabVars, netVars, goodbyes, calm, moves>>

\* A refresh token expires 30 days after it was issued, an access token after 30
\* minutes; an exchange starts both anew.  A token the browser still holds by then
\* was not exchanged for all that time; it is refused when it is presented.
HeldByBrowser(n) == n = refresh \/ \E t \in Tabs, s \in Slots :
                                      call[t][s].pc # "none" /\ n \in {call[t][s].tok, call[t][s].new}
RefreshExpires(n) ==
    /\ n \in live \ fresh
    /\ live' = live \ {n}
    /\ calm' = (calm /\ ~HeldByBrowser(n))
    /\ UNCHANGED <<fresh, issued, storageVars, tabVars, netVars, goodbyes, moves>>

\* A reload mounts the provider again; what the tab was waiting for is
\* dropped, an exchange the server has begun included.
Reload(t) ==
    /\ Move
    /\ auth' = [auth EXCEPT ![t] = Loaded(access)]
    /\ form' = [form EXCEPT ![t] = "credentials"]
    /\ req' = [req EXCEPT ![t] = Mounted(access)]
    /\ inflight' = [inflight EXCEPT ![t] = "none"]
    /\ calm' = (calm /\ \A s \in Slots : call[t][s].pc = "none")
    /\ live' \in {live, live \ Abandoned({call[t][s] : s \in Slots})}
    /\ call' = [call EXCEPT ![t] = [s \in Slots |-> NoCall]]
    /\ UNCHANGED <<fresh, issued, storageVars, goodbyes>>

-----------------------------------------------------------------------------
TabStep(t) ==
    \/ SafetyTimer(t)
    \/ SubmitCredentials(t) \/ SubmitCode(t) \/ BackToCredentials(t) \/ LoginAccepted(t) \/ LoginRefused(t)
    \/ Refetch(t) \/ Logout(t) \/ ChangePassword(t)
    \/ SignOutEverywhere(t) \/ InviteAccepted(t) \/ Reload(t)

RequestStep(t, s) ==
    \/ Answered(t, s) \/ Failed(t, s)
    \/ AwaitRefresh(t, s) \/ GiveUpWithoutToken(t, s)
    \/ RefreshRead(t, s) \/ RefreshCommit(t, s)
    \/ RefreshStored(t, s) \/ RefreshLost(t, s)

SessionNext ==
    \/ \E t \in Tabs : TabStep(t) \/ (\E s \in Queries[t] : Send(t, s)) \/ (\E s \in Slots : RequestStep(t, s))
    \/ PasswordReset
    \/ \E n \in Pairs : GoodbyeHandled(n) \/ AccessExpires(n) \/ RefreshExpires(n)

SessionSpec == SessionInit /\ [][SessionNext]_sessionVars

-----------------------------------------------------------------------------
(* Properties.                                                             *)

\* Coalescing (the comment above inflightRefresh): however many requests of a
\* tab are refused at once, at most one exchange of the tab is under way, and a
\* request that was refused waits for one that is still under way: none is left
\* on a promise whose end has already been delivered.
RefreshIsShared ==
    \A t \in Tabs :
        /\ Cardinality({s \in Slots : call[t][s].pc # "none"}) <= 1
        /\ \A s \in Slots : req[t][s].pc = "waiting" => call[t][req[t][s].on].pc # "none"

\* A browser that is used stays signed in, though access tokens expire all the time and
\* every exchange revokes the token it was made with: as long as nobody signs out, no
\* request times out, no two tabs exchange the same token at once, and the stored refresh
\* token is not left unused for its 30 days, that token is live, or an exchange has
\* brought a live one for it.
TimeKeepsSession ==
    calm /\ issued > 0 =>
        /\ refresh # 0
        /\ \/ refresh \in live
           \/ \E t \in Tabs, s \in Slots :
                call[t][s].pc = "answered" /\ call[t][s].tok = refresh /\ call[t][s].new \in live

\* A tab on the loading screen waits for its /auth/me: the end of that request,
\* whatever it is, ends the loading screen (the comment in client.ts about a
\* permanent stuck-loading screen).
LoadingIsAwaited ==
    \A t \in Tabs : auth[t].loading => req[t]["me"].pc # "idle"
=============================================================================
