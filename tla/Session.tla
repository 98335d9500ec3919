-------------------------------- MODULE Session --------------------------------
(***************************************************************************)
(* Signing in and out of the front end: the provider of the user, the      *)
(* token it keeps in three places, the routes that let a visitor in or     *)
(* send him to sign in, the pages Steam and Discord come back to, and the  *)
(* requests of the pages, which may find their token refused.              *)
(***************************************************************************)
EXTENDS Fetching

CONSTANTS MaxSignIns,  \* bound: tokens the server issues
          MaxVisits    \* bound: requests after which the visitor does no more

VARIABLES auth,    \* the provider: token, user, loading
          stored,  \* localStorage's auth_token
          client,  \* the API client's authToken
          route,   \* path; the page that asked to sign in; what a callback page was told
          form,    \* the page's own state: error, step, loading
          behind,  \* an onboarding page is in the browser's history
          wanted,  \* the page the visitor wants; nothing in the code reads it
          server   \* tokens valid, tokens issued, whether the user has a sharecode
sessionExtras == <<auth, stored, client, route, form, behind, wanted, server>>
sessionVars == <<fetchVars, sessionExtras>>

Protected == {"matches", "grenades", "settings"}
Public == {"login", "register"}
Routes == Protected \cup Public \cup {"steam-callback", "discord-callback", "onboarding"}
ASSUME NothingAssumption == Nothing \notin Routes

SignedOut(t) == [token |-> t, user |-> Nothing, loading |-> FALSE]
Place(p) == [path |-> p, from |-> Nothing, outcome |-> Nothing]
FreshForm == [error |-> FALSE, step |-> "sharecode", loading |-> FALSE]

\* A wrong Guarded: the page asked for is forgotten.
GuardedForgetting(r, a) ==
    IF ~a.loading /\ r.path \in Protected /\ a.user = Nothing THEN Place("login")
    ELSE IF ~a.loading /\ r.path \in Public /\ a.user # Nothing THEN Place("matches") ELSE r
\* ProtectedRoute and PublicRoute: nothing of the page while loading.
Guarded(r, a) ==
    IF ~a.loading /\ r.path \in Protected /\ a.user = Nothing
    THEN [Place("login") EXCEPT !.from = r.path]
    ELSE IF ~a.loading /\ r.path \in Public /\ a.user # Nothing
    THEN Place(IF r.from = Nothing THEN "matches" ELSE r.from) ELSE r
\* The effect of the onboarding page.
Onboarded(r, a) == IF r.path # "onboarding" THEN r
                   ELSE IF a.user = Nothing THEN Place("login")
                   ELSE IF server.sharecode THEN Place("matches") ELSE r
\* The routes there are; any other path leads to the matches.
Known(r) == IF r.path \in Routes THEN r ELSE Place("matches")
Routed(r, a) == Guarded(Onboarded(Known(r), a), a)

\* The provider has state a and the router is sent to r; the page's own state
\* is lost when it is unmounted, by its route or while loading.
Become(a, r) == /\ auth' = a /\ route' = Routed(r, a)
                /\ form' = IF route'.path = route.path /\ a.loading = auth.loading THEN form ELSE FreshForm
Asked(slot, key) == [slot |-> slot, key |-> key, n |-> asked + 1]
Send(others, c) == calls' = others \cup {c} /\ asked' = asked + 1
\* createHeaders: the token a request carries.
Header == IF client # Nothing THEN client ELSE stored

\* fetchUser, of the effect on token t.
UserCall(t) == Asked("user", [token |-> t, valid |-> server.valid])
\* The application is loaded at a page: the provider starts with the stored token
\* and asks for its user; what was under way is gone.  A callback page has
\* stored the token it was told before the provider asks.
Load(r, told) ==
    /\ auth' = SignedOut(stored) /\ route' = Routed(r, SignedOut(stored)) /\ form' = FreshForm
    /\ client' = stored
    /\ stored' = IF told = Nothing THEN stored ELSE told
    /\ behind' = (behind \/ r.path = "onboarding")
    /\ IF stored = Nothing THEN calls' = {} /\ asked' = asked ELSE Send({}, UserCall(stored))

Unasked == UNCHANGED <<page, view, sent, landed>>
Signing == page = "session"
MayVisit == asked < MaxVisits
\* The page in front of the visitor is one of these.
Open(paths) == Signing /\ route.path \in paths /\ ~auth.loading

SessionInit ==
    /\ page = "session" /\ view = <<>> /\ sent = <<>> /\ landed = <<>>
    /\ stored \in {Nothing, 1} /\ client = stored
    /\ \E sharecode \in BOOLEAN :
         server = [valid |-> {1}, issued |-> 1, sharecode |-> sharecode]
    /\ auth = SignedOut(stored) /\ form = FreshForm /\ behind = FALSE
    /\ wanted \in Protected /\ route = Routed(Place(wanted), auth)
    /\ asked = 1
    /\ calls = IF stored = Nothing THEN {}
               ELSE {[slot |-> "user", key |-> [token |-> stored, valid |-> {1}], n |-> 1]}

-----------------------------------------------------------------------------
(* Going from page to page.                                                *)

LoadApp(p) == /\ Signing /\ MayVisit /\ Load(Place(p), Nothing)
              /\ wanted' = IF p \in Protected THEN p ELSE "matches"
              /\ UNCHANGED server /\ Unasked
FollowLink(p) == /\ Open(Protected) /\ p # route.path
                 /\ Become(auth, Place(p)) /\ wanted' = p
                 /\ UNCHANGED <<calls, asked, stored, client, behind, server>> /\ Unasked
\* "Sign up" and "Sign in": the page asked for is forgotten.
SwitchForm == /\ Open(Public)
              /\ Become(auth, Place(IF route.path = "login" THEN "register" ELSE "login"))
              /\ wanted' = "matches"
              /\ UNCHANGED <<calls, asked, stored, client, behind, server>> /\ Unasked
\* The browser's Back, to the onboarding page that sent the visitor on.
GoBack == /\ Open(Protected) /\ behind
          /\ Become(auth, Place("onboarding")) /\ wanted' = "matches"
          /\ UNCHANGED <<calls, asked, stored, client, behind, server>> /\ Unasked

-----------------------------------------------------------------------------
(* Signing in.                                                             *)

\* login, register and linkAccount, while whose request is under way the
\* provider is loading.
Begin(slot) == /\ MayVisit /\ Become([auth EXCEPT !.loading = TRUE], route)
               /\ Send(calls, Asked(slot, Header))
               /\ UNCHANGED <<stored, client, behind, wanted, server>> /\ Unasked
HandleLogin == Open({"login"}) /\ Begin("login")
HandleRegister(confirmed) ==
    /\ Open({"register"})
    /\ IF confirmed THEN Begin("register")
       ELSE /\ form' = [form EXCEPT !.error = TRUE]
            /\ UNCHANGED <<calls, asked, auth, stored, client, route, behind, wanted, server>> /\ Unasked

\* A wrong SignedIn: the client is not told the token.
SignedInStoring(c) == LET t == server.issued + 1 IN
    /\ server.issued < MaxSignIns
    /\ server' = [server EXCEPT !.issued = t, !.valid = @ \cup {t}]
    /\ stored' = t /\ client' = client
    /\ Become([token |-> t, user |-> "user", loading |-> FALSE], route)
    /\ Send(calls \ {c}, Asked("user", [token |-> t, valid |-> server'.valid]))
    /\ UNCHANGED <<behind, wanted>> /\ Unasked
\* Token and user are set, and the effect on the token asks for the user again.
SignedIn(c) == LET t == server.issued + 1 IN
    /\ server.issued < MaxSignIns
    /\ server' = [server EXCEPT !.issued = t, !.valid = @ \cup {t}]
    /\ stored' = t /\ client' = t
    /\ Become([token |-> t, user |-> "user", loading |-> FALSE], route)
    /\ Send(calls \ {c}, Asked("user", [token |-> t, valid |-> server'.valid]))
    /\ UNCHANGED <<behind, wanted>> /\ Unasked
\* A wrong SignInFailed: no finally.
SignInFailedLoading(c) ==
    /\ calls' = calls \ {c} /\ Become(auth, route)
    /\ UNCHANGED <<asked, stored, client, behind, wanted, server>> /\ Unasked
\* The error is thrown on to a page that is no longer mounted.
SignInFailed(c) ==
    /\ calls' = calls \ {c} /\ Become([auth EXCEPT !.loading = FALSE], route)
    /\ UNCHANGED <<asked, stored, client, behind, wanted, server>> /\ Unasked

\* fetchUser: the user as the server has him, whoever is signed in by now.
UserGot(c) ==
    /\ c.key.token \in c.key.valid \cup server.valid
    /\ calls' = calls \ {c} /\ Become([auth EXCEPT !.user = "user"], route)
    /\ UNCHANGED <<asked, stored, client, behind, wanted, server>> /\ Unasked
\* Any error signs out; a refusal (401) clears the client's token too.
UserLost(c) == \E refused \in {FALSE, c.key.token \notin server.valid} :
    /\ calls' = calls \ {c}
    /\ stored' = Nothing /\ client' = IF refused THEN Nothing ELSE client
    /\ Become([SignedOut(Nothing) EXCEPT !.loading = auth.loading], route)
    /\ UNCHANGED <<asked, behind, wanted, server>> /\ Unasked

\* Steam sends the visitor back with a token, or an error.
LoginWithSteam == \E told \in {Nothing, server.issued + 1} :
    /\ Open(Public) /\ MayVisit /\ server.issued < MaxSignIns
    /\ Load([Place("steam-callback") EXCEPT !.outcome = IF told = Nothing THEN "error" ELSE "token"], told)
    /\ server' = IF told = Nothing THEN server
                 ELSE [server EXCEPT !.issued = told, !.valid = @ \cup {told}]
    /\ wanted' = "matches" /\ Unasked

-----------------------------------------------------------------------------
(* Linking an account, and the callback pages.                             *)

LinkAccount(site) == Open({"settings"}) /\ Begin(site)
LinkGot(c) == \E outcome \in {"linked", "error"} :
    /\ c.key \in server.valid
    /\ Load([Place(c.slot) EXCEPT !.outcome = outcome], Nothing)
    /\ wanted' = "matches" /\ UNCHANGED server /\ Unasked
LinkFailed(c) == SignInFailed(c)

\* The timer of a callback page.
CallbackTimer ==
    /\ Signing /\ route.path \in {"steam-callback", "discord-callback"}
    /\ \/ route.outcome = "token" /\ Load(Place("onboarding"), Nothing)
       \/ /\ route.outcome = "linked"
          /\ Become(auth, Place(IF route.path = "steam-callback" THEN "matches" ELSE "account-settings"))
          /\ UNCHANGED <<calls, asked, stored, client, behind>>
       \/ /\ route.outcome = "error" /\ Become(auth, Place("login"))
          /\ UNCHANGED <<calls, asked, stored, client, behind>>
    /\ UNCHANGED <<wanted, server>> /\ Unasked

-----------------------------------------------------------------------------
(* The onboarding page, which only Back leads to.                          *)

OnForm(f) == /\ form' = f /\ Unasked
             /\ UNCHANGED <<auth, stored, client, route, behind, wanted, server>>
SubmitSharecode(valid) ==
    /\ Open({"onboarding"}) /\ form.step = "sharecode" /\ ~form.loading /\ MayVisit
    /\ IF valid THEN Send(calls, Asked("sharecode", Header)) ELSE UNCHANGED <<calls, asked>>
    /\ OnForm([form EXCEPT !.error = ~valid, !.loading = valid])
\* The server wants an authentication code with it (StoreSteamSharecodeRequest).
SharecodeRefused(c) == /\ calls' = calls \ {c} /\ UNCHANGED asked
                       /\ OnForm(IF route.path = "onboarding"
                                 THEN [form EXCEPT !.error = TRUE, !.loading = FALSE] ELSE form)
HandleSkip == /\ Open({"onboarding"}) /\ form.step = "sharecode" /\ ~form.loading
              /\ OnForm([form EXCEPT !.step = "complete"]) /\ UNCHANGED <<calls, asked>>
HandleComplete == /\ Open({"onboarding"}) /\ form.step = "complete"
                  /\ Become(auth, Place("matches"))
                  /\ UNCHANGED <<calls, asked, stored, client, behind, wanted, server>> /\ Unasked

-----------------------------------------------------------------------------
(* Requests of the pages, and signing out.                                 *)

\* A page of the matches asks the client itself, the grenades ask through useApi.
PageAsks == /\ Open({"matches", "grenades"}) /\ MayVisit
            /\ Send(calls, Asked("page", [token |-> Header, lib |-> route.path = "grenades", by |-> auth.token]))
            /\ UNCHANGED sessionExtras /\ Unasked
PageAnswered(c) == /\ calls' = calls \ {c} /\ UNCHANGED <<asked, sessionExtras>> /\ Unasked

\* logout, of the provider rendered with token t; its request carries header.
StartLogout(t, header, others) ==
    IF t = Nothing
    THEN /\ Become([token |-> Nothing, user |-> Nothing, loading |-> FALSE], route)
         /\ calls' = others /\ asked' = asked
    ELSE Become([auth EXCEPT !.loading = TRUE], route) /\ Send(others, Asked("logout", header))
Logout == /\ Open(Protected) /\ MayVisit /\ StartLogout(auth.token, Header, calls)
          /\ stored' = IF auth.token = Nothing THEN Nothing ELSE stored
          /\ UNCHANGED <<client, behind, wanted, server>> /\ Unasked
\* Answered or failed, the local state is cleared, but for the client's token
\* unless it was refused.
LoggedOut(c) == \E handled \in BOOLEAN :
    /\ calls' = calls \ {c} /\ stored' = Nothing
    /\ server' = IF handled THEN [server EXCEPT !.valid = @ \ {c.key}] ELSE server
    /\ client' = IF handled /\ c.key \notin server.valid THEN Nothing ELSE client
    /\ Become(SignedOut(Nothing), route)
    /\ UNCHANGED <<asked, behind, wanted>> /\ Unasked

\* A 401: the tokens are cleared, and useApi logs out.
PageRefused(c) ==
    /\ c.key.token \notin server.valid
    /\ stored' = Nothing /\ client' = Nothing
    /\ IF c.key.lib THEN StartLogout(c.key.by, Nothing, calls \ {c})
       ELSE calls' = calls \ {c} /\ UNCHANGED <<asked, auth, route, form>>
    /\ UNCHANGED <<behind, wanted, server>> /\ Unasked

-----------------------------------------------------------------------------
SessionAnswer(c) ==
    \/ c.slot \in Public /\ (SignedIn(c) \/ SignInFailed(c))
    \/ c.slot = "user" /\ (UserGot(c) \/ UserLost(c))
    \/ c.slot \in {"steam-callback", "discord-callback"} /\ (LinkGot(c) \/ LinkFailed(c))
    \/ c.slot = "sharecode" /\ SharecodeRefused(c)
    \/ c.slot = "page" /\ (PageAnswered(c) \/ PageRefused(c))
    \/ c.slot = "logout" /\ LoggedOut(c)
SessionAnswers == Signing /\ \E c \in calls : SessionAnswer(c)

SessionNext ==
    \/ \E p \in Routes \ {"steam-callback", "discord-callback"} : LoadApp(p)
    \/ \E p \in Protected : FollowLink(p)
    \/ SwitchForm
    \/ GoBack
    \/ HandleLogin
    \/ \E confirmed \in BOOLEAN : HandleRegister(confirmed)
    \/ LoginWithSteam
    \/ \E site \in {"steam-callback", "discord-callback"} : LinkAccount(site)
    \/ CallbackTimer
    \/ \E valid \in BOOLEAN : SubmitSharecode(valid)
    \/ HandleSkip
    \/ HandleComplete
    \/ PageAsks
    \/ Logout
    \/ SessionAnswers

\* Every request is answered or times out after ten seconds.
SessionFairness == WF_sessionVars(SessionAnswers)
SessionSpec == SessionInit /\ [][SessionNext]_sessionVars /\ SessionFairness
-----------------------------------------------------------------------------
(* What must be true of signing in.                                        *)

\* Whoever had to sign in first, or to wait for the user, gets the page he
\* opened, whatever pages and reloads are between.
ReturnsToPage == Signing /\ auth.user # Nothing /\ ~auth.loading /\ route.path \in Protected
                   => route.path = wanted

\* logout leaves its token in the client; no request of the next one signed in
\* carries it.
OnlyCurrentToken == Signing /\ auth.user # Nothing /\ auth.token # Nothing
                      => Header \in {auth.token, Nothing}

\* The pages come back from every sign in, sign out and link.
AuthLoadingEnds == auth.loading ~> ~auth.loading

\* "Clear local state regardless of API call success" (use-auth.tsx:156): with no
\* token there is no user.  An answer to fetchUser that comes later brings him back.
LogoutClears == auth.token = Nothing => auth.user = Nothing

\* "Clear invalid token" (api.ts:200), not the one of a later sign in.
ClearsInvalidTokenOnly ==
    [][\A c \in calls : c.slot = "page" /\ c \notin calls' /\ stored # Nothing /\ stored' = Nothing
         => stored \notin server.valid]_sessionVars

\* "Login failed" is shown (login.tsx:46).
LoginFailureShown ==
    [][\A c \in calls : c.slot = "login" /\ SignInFailed(c) /\ route'.path = "login"
                        => form'.error]_sessionVars

\* "Redirecting to setup..." (steam-callback.tsx:113).
SetupFollowsSteam ==
    [][CallbackTimer /\ route.outcome = "token" /\ ~server.sharecode
         => route'.path = "onboarding"]_sessionVars

\* "Redirect to account settings after a short delay" (discord-callback.tsx:65).
DiscordLinkOpensSettings ==
    [][CallbackTimer /\ route.path = "discord-callback" /\ route.outcome = "linked"
       /\ auth.user # Nothing => route'.path = "settings"]_sessionVars
=============================================================================
