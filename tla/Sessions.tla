------------------------------ MODULE Sessions ------------------------------
(***************************************************************************)
(* Who is signed in: the tabs of one browser, which share the token in     *)
(* localStorage and nothing else, and the server's check of the token on   *)
(* every request.  stores/authStore.ts (login, restoreSession, logout),    *)
(* services/api/real_client.ts (every request reads the token anew; a 401  *)
(* clears it), app-providers.tsx, protected-route.tsx and login-page.tsx;  *)
(* auth_routes.py (login, me) and auth.py (current_user).                  *)
(*                                                                         *)
(* A token stands for the account it was issued to: setSession() and       *)
(* clearSession() write the token and the cached user together, and the    *)
(* key the store itself writes is the same one.                            *)
(*                                                                         *)
(* Its names differ from those of UserManagement, so that AccountsProofs   *)
(* can speak of both.                                                      *)
(***************************************************************************)
EXTENDS FiniteSets

CONSTANTS
    Users,              \* the accounts
    Tabs                \* of one browser

Nil == "none"

ASSUME SessionConstants == Nil \notin Users

\* login() or restoreSession() under way.  post: the credentials are at the
\* server; issued: the token is on its way back; me: GET /auth/me is at the
\* server; known: the profile is on its way back; refused: a 401 is.
Call == [kind : {"login"}, who : Users, step : {"post", "issued", "me", "known", "refused"}]
        \cup [kind : {"restore"}, who : Users, step : {"me", "known", "refused"}]
NoCall == [kind |-> Nil]

\* A request of a page, with the token storage had when it was sent.
Request == [as : Users \cup {Nil}, step : {"sent", "ok", "refused"}]
NoRequest == [as |-> Nil, step |-> Nil]

VARIABLES
    active,             \* accounts that are not deactivated
    stored,             \* localStorage: whose token
    route,              \* of the tab: "login", or "app" for the pages behind ProtectedRoute
    user,               \* of the tab's auth store
    call,
    request,
    data,               \* the account whose answers are in the tab's other stores
    touched             \* history: another tab wrote storage since this tab last read or wrote it

memory == <<user, call, request, data>>
sessionVars == <<active, stored, route, memory, touched>>

SessionInit ==
    /\ active = [u \in Users |-> TRUE]
    /\ stored = Nil
    /\ route = [t \in Tabs |-> "login"]
    /\ user = [t \in Tabs |-> Nil]
    /\ call = [t \in Tabs |-> NoCall]
    /\ request = [t \in Tabs |-> NoRequest]
    /\ data = [t \in Tabs |-> Nil]
    /\ touched = [t \in Tabs |-> FALSE]

-----------------------------------------------------------------------------
Restoring(t) == call[t].kind = "restore"

\* setSession() and clearSession() by tab t.
Write(t, u) ==
    /\ stored' = u
    /\ touched' = [s \in Tabs |-> s # t]

\* A page load: memory is empty; without a token there is nothing to restore and
\* ProtectedRoute turns to the login page.
Boot(t, path, token) ==
    /\ user' = [user EXCEPT ![t] = Nil]
    /\ call' = [call EXCEPT ![t] =
           IF token = Nil THEN NoCall ELSE [kind |-> "restore", who |-> token, step |-> "me"]]
    /\ request' = [request EXCEPT ![t] = NoRequest]
    /\ data' = [data EXCEPT ![t] = Nil]
    /\ route' = [route EXCEPT ![t] = IF token = Nil THEN "login" ELSE path]

\* An address is opened, or the page reloaded.
Open(t, path) ==
    /\ Boot(t, path, stored)
    /\ touched' = [touched EXCEPT ![t] = FALSE]
    /\ UNCHANGED <<active, stored>>

\* Faulty variant: the stores are reset by hand, which misses some.
SignedOut_NoReload(t) ==
    /\ Write(t, Nil)
    /\ route' = [route EXCEPT ![t] = "login"]
    /\ call' = [call EXCEPT ![t] = NoCall]
    /\ user' = [user EXCEPT ![t] = Nil]
    /\ UNCHANGED <<request, data>>

\* logout() and the 401 of real_client: clear storage, then load /login anew.
SignedOut(t) ==
    /\ Write(t, Nil)
    /\ Boot(t, "login", Nil)

\* "Sign out" in the shell or on the profile page.
Logout(t) ==
    /\ route[t] = "app" /\ ~Restoring(t)
    /\ SignedOut(t)
    /\ UNCHANGED active

-----------------------------------------------------------------------------
(* Sign-in.                                                                *)

\* The button is disabled while a sign-in is under way.
Submit(t, u) ==
    /\ route[t] = "login" /\ call[t] = NoCall
    /\ call' = [call EXCEPT ![t] = [kind |-> "login", who |-> u, step |-> "post"]]
    /\ UNCHANGED <<active, stored, route, user, request, data, touched>>

\* POST /auth/login: the account must be active and the password right.
login(t) ==
    /\ call[t].kind = "login" /\ call[t].step = "post"
    /\ \E step \in {"issued", "refused"} :
          /\ step = "issued" => active[call[t].who]
          /\ call' = [call EXCEPT ![t].step = step]
    /\ UNCHANGED <<active, stored, route, user, request, data, touched>>

\* The token is stored before the profile is asked for, and stays if that fails.
TokenArrives(t) ==
    /\ call[t].kind = "login" /\ call[t].step = "issued"
    /\ Write(t, call[t].who)
    /\ call' = [call EXCEPT ![t].step = "me"]
    /\ UNCHANGED <<active, route, user, request, data>>

\* GET /auth/me, of either kind.
me(t) ==
    /\ call[t] # NoCall /\ call[t].step = "me"
    /\ call' = [call EXCEPT ![t].step = IF active[call[t].who] THEN "known" ELSE "refused"]
    /\ UNCHANGED <<active, stored, route, user, request, data, touched>>

\* Signed in: on to the page that asked for it.
LoginSucceeds(t) ==
    /\ call[t].kind = "login" /\ call[t].step = "known"
    /\ user' = [user EXCEPT ![t] = call[t].who]
    /\ route' = [route EXCEPT ![t] = "app"]
    /\ call' = [call EXCEPT ![t] = NoCall]
    /\ UNCHANGED <<active, stored, request, data, touched>>

\* A refusal, or a request that did not complete, at any step: the form shows an error.
LoginFails(t) ==
    /\ call[t].kind = "login"
    /\ call' = [call EXCEPT ![t] = NoCall]
    /\ UNCHANGED <<active, stored, route, user, request, data, touched>>

-----------------------------------------------------------------------------
(* restoreSession(), behind "Authenticating...".                           *)

\* The token of the time of the page load is written back, whatever other tabs
\* have stored or cleared since.
RestoreSucceeds(t) ==
    /\ Restoring(t) /\ call[t].step = "known"
    /\ Write(t, call[t].who)
    /\ user' = [user EXCEPT ![t] = call[t].who]
    /\ call' = [call EXCEPT ![t] = NoCall]
    /\ UNCHANGED <<active, route, request, data>>

RestoreRefused(t) ==
    /\ Restoring(t) /\ call[t].step = "refused"
    /\ SignedOut(t)
    /\ UNCHANGED active

\* Faulty variant: every failure ends the session.
RestoreLost_Logout(t) ==
    /\ Restoring(t)
    /\ SignedOut(t)
    /\ UNCHANGED active

\* The request did not complete: the cached user, if storage still has one.
RestoreLost(t) ==
    /\ Restoring(t)
    /\ IF stored = Nil
       THEN SignedOut(t)
       ELSE /\ user' = [user EXCEPT ![t] = stored]
            /\ call' = [call EXCEPT ![t] = NoCall]
            /\ touched' = [touched EXCEPT ![t] = FALSE]
            /\ UNCHANGED <<stored, route, request, data>>
    /\ UNCHANGED active

-----------------------------------------------------------------------------
(* The requests of the pages.                                              *)

send(t) ==
    /\ route[t] = "app" /\ ~Restoring(t)
    /\ request[t] = NoRequest
    /\ request' = [request EXCEPT ![t] = [as |-> stored, step |-> "sent"]]
    /\ UNCHANGED <<active, stored, route, user, call, data, touched>>

\* current_user(): a token, of an account that is active now.
current_user(t) ==
    /\ request[t].step = "sent"
    /\ LET as == request[t].as
           served == as # Nil /\ active[as]
       IN request' = [request EXCEPT ![t].step = IF served THEN "ok" ELSE "refused"]
    /\ UNCHANGED <<active, stored, route, user, call, data, touched>>

DataArrives(t) ==
    /\ request[t].step = "ok"
    /\ data' = [data EXCEPT ![t] = request[t].as]
    /\ request' = [request EXCEPT ![t] = NoRequest]
    /\ UNCHANGED <<active, stored, route, user, call, touched>>

\* Faulty variant: the session is cleared and the page left as it is.
RefusalArrives_NoRedirect(t) ==
    /\ request[t].step = "refused"
    /\ IF request[t].as = Nil THEN UNCHANGED <<stored, touched>> ELSE Write(t, Nil)
    /\ request' = [request EXCEPT ![t] = NoRequest]
    /\ UNCHANGED <<active, route, user, call, data>>

\* A 401 ends the session of storage, which need not be the one it refuses; one
\* to a request without a token only shows an error.
RefusalArrives(t) ==
    /\ request[t].step = "refused"
    /\ IF request[t].as = Nil
       THEN /\ request' = [request EXCEPT ![t] = NoRequest]
            /\ UNCHANGED <<stored, touched, route, user, call, data>>
       ELSE SignedOut(t)
    /\ UNCHANGED active

RequestLost(t) ==
    /\ request[t] # NoRequest
    /\ request' = [request EXCEPT ![t] = NoRequest]
    /\ UNCHANGED <<active, stored, route, user, call, data, touched>>

\* An administrator, from a browser of his own.
SetActive(u) ==
    /\ active' = [active EXCEPT ![u] = ~@]
    /\ UNCHANGED <<stored, route, memory, touched>>

SessionNext ==
    \/ \E t \in Tabs, path \in {"login", "app"} : Open(t, path)
    \/ \E t \in Tabs : Logout(t)
    \/ \E t \in Tabs, u \in Users : Submit(t, u)
    \/ \E t \in Tabs : login(t)
    \/ \E t \in Tabs : TokenArrives(t)
    \/ \E t \in Tabs : me(t)
    \/ \E t \in Tabs : LoginSucceeds(t)
    \/ \E t \in Tabs : LoginFails(t)
    \/ \E t \in Tabs : RestoreSucceeds(t)
    \/ \E t \in Tabs : RestoreRefused(t)
    \/ \E t \in Tabs : RestoreLost(t)
    \/ \E t \in Tabs : send(t)
    \/ \E t \in Tabs : current_user(t)
    \/ \E t \in Tabs : DataArrives(t)
    \/ \E t \in Tabs : RefusalArrives(t)
    \/ \E t \in Tabs : RequestLost(t)
    \/ \E u \in Users : SetActive(u)

SessionSpec == SessionInit /\ [][SessionNext]_sessionVars

-----------------------------------------------------------------------------
(* Type invariant.                                                         *)
SessionTypeOK ==
    /\ active \in [Users -> BOOLEAN]
    /\ stored \in Users \cup {Nil}
    /\ route \in [Tabs -> {"login", "app"}]
    /\ user \in [Tabs -> Users \cup {Nil}]
    /\ call \in [Tabs -> Call \cup {NoCall}]
    /\ request \in [Tabs -> Request \cup {NoRequest}]
    /\ data \in [Tabs -> Users \cup {Nil}]
    /\ touched \in [Tabs -> BOOLEAN]

\* A page acts for the account it shows: the token its requests carry is the one
\* of the user on the screen, through sign-in, reload, refusal and lost answers.
\* Excepted are tabs whose storage another tab has written (real_client.ts:25
\* reads the token anew for each request, authStore.ts keeps the user).
IdentityIsTheTokens ==
    \A t \in Tabs : route[t] = "app" /\ ~Restoring(t) /\ ~touched[t] => stored = user[t]

\* DEF-061, for every store: what a tab has in memory was answered to the account
\* the tab is signed in with (authStore.ts:150), with the same exception.
DataIsOfTheUser ==
    \A t \in Tabs : data[t] # Nil /\ ~touched[t] => data[t] = user[t]

\* ProtectedRoute: no page without an account, whichever way the session ended.
PagesAreGuarded ==
    \A t \in Tabs : route[t] = "app" /\ ~Restoring(t) => user[t] # Nil

\* "Only the server saying 'not authenticated' ends the session" (authStore.ts:112):
\* storage is emptied by the user or by a 401 that came in, never by a request
\* that merely failed.
OnlyTheServerEndsASession ==
    [][stored # Nil /\ stored' = Nil =>
          \E t \in Tabs : \/ Logout(t)
                          \/ RestoreRefused(t)
                          \/ request[t].step = "refused" /\ RefusalArrives(t)]_sessionVars

=============================================================================
