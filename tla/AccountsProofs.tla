---------------------------- MODULE AccountsProofs ----------------------------
(***************************************************************************)
(* Proofs about Sessions, for any number of tabs and accounts, and about   *)
(* UserManagement, for any accounts, roles and number of requests under    *)
(* way.                                                                    *)
(*                                                                         *)
(* Sessions: tabs share storage only, so the invariant is one predicate of *)
(* one tab: a step of another tab either leaves storage alone or marks     *)
(* this tab as touched.                                                    *)
(*                                                                         *)
(* UserManagement: types, what a busy dialog or row waits for, that        *)
(* administrators who deactivate one another, one at a time, cannot lock   *)
(* everybody out, and that the table catches up with what was done.        *)
(***************************************************************************)
EXTENDS Sessions, UserManagement, TLAPS

-----------------------------------------------------------------------------
(* Sessions: one tab, and the others.                                        *)

\* One tab: st is storage; rt, u, c, r, d and to are the tab's route, user, call,
\* request, data and touched.
Sound(st, rt, u, c, r, d, to) ==
    /\ c.kind = "login" => rt = "login"
    /\ rt = "login" \/ c.kind = "restore" => r = NoRequest /\ d = Nil
    /\ rt = "app" /\ c.kind # "restore" => u # Nil
    /\ ~to => /\ rt = "app" /\ c.kind # "restore" => st = u
              /\ c.kind = "login" /\ c.step \in {"me", "known"} => st = c.who
              /\ r # NoRequest => r.as = u
              /\ d # Nil => d = u

SoundTab(t) == Sound(stored, route[t], user[t], call[t], request[t], data[t], touched[t])

TabsSound == SessionTypeOK /\ \A t \in Tabs : SoundTab(t)

\* What tab t has to itself.
Own(t) == <<route[t], user[t], call[t], request[t], data[t]>>

LEMMA NilIsNothing == /\ NoCall \notin Call /\ NoRequest \notin Request
                       /\ NoCall.kind = Nil /\ Nil \notin {"login", "restore", "app"}
  BY SessionConstants DEF NoCall, NoRequest, Call, Request, Nil

LEMMA InitSound == SessionInit => TabsSound
  <1> SUFFICES ASSUME SessionInit PROVE TabsSound
    OBVIOUS
  <1>1. SessionTypeOK
    BY DEF SessionInit, SessionTypeOK
  <1>2. ASSUME NEW t \in Tabs PROVE SoundTab(t)
    BY NilIsNothing DEF SessionInit, SoundTab, Sound
  <1> QED
    BY <1>1, <1>2 DEF TabsSound

\* A tab that does not take the step: storage is as it was, or the tab is touched.
LEMMA OtherTab ==
  ASSUME TabsSound, NEW s \in Tabs, Own(s)' = Own(s),
         (stored' = stored /\ touched'[s] = touched[s]) \/ touched'[s] = TRUE
  PROVE  SoundTab(s)'
  BY DEF TabsSound, SoundTab, Sound, Own

\* A step of tab t keeps the invariant if the other tabs are left alone or
\* touched, and t itself is sound.
LEMMA StepOfTab ==
  ASSUME TabsSound, SessionTypeOK', NEW t \in Tabs, SoundTab(t)',
         \A s \in Tabs \ {t} :
             /\ Own(s)' = Own(s)
             /\ (stored' = stored /\ touched'[s] = touched[s]) \/ touched'[s] = TRUE
  PROVE  TabsSound'
  <1>1. ASSUME NEW s \in Tabs PROVE SoundTab(s)'
    BY <1>1, OtherTab
  <1> QED
    BY <1>1 DEF TabsSound

-----------------------------------------------------------------------------
(* Page loads and sign-out.                                                *)

LEMMA BootTyped ==
  ASSUME TabsSound, NEW t \in Tabs, NEW path \in {"login", "app"},
         NEW token \in Users \cup {Nil}, Boot(t, path, token)
  PROVE  /\ user' \in [Tabs -> Users \cup {Nil}]
         /\ call' \in [Tabs -> Call \cup {NoCall}]
         /\ request' \in [Tabs -> Request \cup {NoRequest}]
         /\ data' \in [Tabs -> Users \cup {Nil}]
         /\ route' \in [Tabs -> {"login", "app"}]
         /\ \A s \in Tabs \ {t} : Own(s)' = Own(s)
         /\ user'[t] = Nil /\ request'[t] = NoRequest /\ data'[t] = Nil
         /\ token = Nil => call'[t] = NoCall /\ route'[t] = "login"
         /\ token # Nil => call'[t].kind = "restore"
  <1> DEFINE c == IF token = Nil THEN NoCall ELSE [kind |-> "restore", who |-> token, step |-> "me"]
  <1>1. c \in Call \cup {NoCall} /\ (token = Nil => c = NoCall) /\ (token # Nil => c.kind = "restore")
    BY DEF Call
  <1>2. call' = [call EXCEPT ![t] = c]
    BY DEF Boot
  <1> HIDE DEF c
  <1> QED
    BY <1>1, <1>2 DEF Boot, TabsSound, SessionTypeOK, Own

LEMMA OpenStep ==
  ASSUME TabsSound, NEW t \in Tabs, NEW path \in {"login", "app"}, Open(t, path)
  PROVE  TabsSound'
  <1>1. stored \in Users \cup {Nil} /\ Boot(t, path, stored)
    BY DEF Open, TabsSound, SessionTypeOK
  <1>2. touched' = [touched EXCEPT ![t] = FALSE] /\ UNCHANGED <<active, stored>>
    BY DEF Open
  <1>3. SessionTypeOK'
    BY <1>1, <1>2, BootTyped DEF TabsSound, SessionTypeOK
  <1>4. SoundTab(t)'
    BY <1>1, <1>2, BootTyped, NilIsNothing DEF SoundTab, Sound, Nil
  <1>5. \A s \in Tabs \ {t} : Own(s)' = Own(s) /\ stored' = stored /\ touched'[s] = touched[s]
    BY <1>1, <1>2, BootTyped DEF TabsSound, SessionTypeOK
  <1> QED
    BY <1>3, <1>4, <1>5, StepOfTab

LEMMA SignedOutStep ==
  ASSUME TabsSound, NEW t \in Tabs, SignedOut(t), UNCHANGED active
  PROVE  TabsSound'
  <1>1. Boot(t, "login", Nil) /\ stored' = Nil /\ touched' = [s \in Tabs |-> s # t]
    BY DEF SignedOut, Write
  <1>2. SessionTypeOK'
    BY <1>1, BootTyped DEF TabsSound, SessionTypeOK
  <1>3. SoundTab(t)'
    BY <1>1, BootTyped, NilIsNothing DEF SoundTab, Sound, Nil
  <1>4. \A s \in Tabs \ {t} : Own(s)' = Own(s) /\ touched'[s] = TRUE
    BY <1>1, BootTyped
  <1> QED
    BY <1>2, <1>3, <1>4, StepOfTab

-----------------------------------------------------------------------------
(* Sign-in and restore.                                                    *)

LEMMA SignInStep ==
  ASSUME TabsSound, NEW t \in Tabs, NEW u \in Users, Submit(t, u)
  PROVE  TabsSound'
  <1> DEFINE c == [kind |-> "login", who |-> u, step |-> "post"]
  <1>1. /\ call' = [call EXCEPT ![t] = c]
        /\ UNCHANGED <<active, stored, route, user, request, data, touched>>
        /\ route[t] = "login"
    BY DEF Submit
  <1>2. c \in Call /\ c.kind = "login" /\ c.step = "post"
    BY DEF Call
  <1> HIDE DEF c
  <1>3. SessionTypeOK'
    BY <1>1, <1>2 DEF TabsSound, SessionTypeOK
  <1>4. call'[t] = c /\ \A s \in Tabs \ {t} : call'[s] = call[s]
    BY <1>1 DEF TabsSound, SessionTypeOK
  <1>5. SoundTab(t)'
    BY <1>1, <1>2, <1>4 DEF TabsSound, SoundTab, Sound
  <1> QED
    BY <1>1, <1>3, <1>4, <1>5, StepOfTab DEF Own

\* A call goes one step further and nothing else happens.
LEMMA CallMoves ==
  ASSUME TabsSound, NEW t \in Tabs, call[t] # NoCall,
         NEW step, step \in {"issued", "known", "refused"},
         step = "issued" => call[t].kind = "login",
         step = "known" => call[t].step = "me",
         call' = [call EXCEPT ![t].step = step],
         UNCHANGED <<active, stored, route, user, request, data, touched>>
  PROVE  TabsSound'
  <1> DEFINE c == [call[t] EXCEPT !.step = step]
  <1>1. call[t] \in Call
    BY DEF TabsSound, SessionTypeOK
  <1>2. c \in Call /\ c.kind = call[t].kind /\ c.who = call[t].who /\ c.step = step
    BY <1>1 DEF Call
  <1>3. call' = [call EXCEPT ![t] = c]
    BY DEF TabsSound, SessionTypeOK
  <1> HIDE DEF c
  <1>4. SessionTypeOK'
    BY <1>2, <1>3 DEF TabsSound, SessionTypeOK
  <1>5. call'[t] = c /\ \A s \in Tabs \ {t} : call'[s] = call[s]
    BY <1>3 DEF TabsSound, SessionTypeOK
  <1>6. SoundTab(t)'
    BY <1>2, <1>5 DEF TabsSound, SoundTab, Sound
  <1> QED
    BY <1>4, <1>5, <1>6, StepOfTab DEF Own

LEMMA TokenStep ==
  ASSUME TabsSound, NEW t \in Tabs, TokenArrives(t)
  PROVE  TabsSound'
  <1> DEFINE c == [call[t] EXCEPT !.step = "me"]
  <1>1. /\ call[t].kind = "login"
        /\ stored' = call[t].who /\ touched' = [s \in Tabs |-> s # t]
        /\ call' = [call EXCEPT ![t].step = "me"]
        /\ UNCHANGED <<active, route, user, request, data>>
    BY DEF TokenArrives, Write
  <1>2. call[t] \in Call
    BY <1>1, NilIsNothing DEF TabsSound, SessionTypeOK
  <1>3. c \in Call /\ c.kind = "login" /\ c.who = call[t].who /\ c.who \in Users
    BY <1>1, <1>2 DEF Call
  <1>4. call' = [call EXCEPT ![t] = c]
    BY <1>1 DEF TabsSound, SessionTypeOK
  <1> HIDE DEF c
  <1>5. SessionTypeOK'
    BY <1>1, <1>3, <1>4 DEF TabsSound, SessionTypeOK
  <1>6. call'[t] = c /\ \A s \in Tabs \ {t} : call'[s] = call[s]
    BY <1>4 DEF TabsSound, SessionTypeOK
  <1>7. route[t] = "login" /\ request[t] = NoRequest /\ data[t] = Nil
    BY <1>1 DEF TabsSound, SoundTab, Sound
  <1>8. SoundTab(t)'
    BY <1>1, <1>3, <1>6, <1>7 DEF SoundTab, Sound
  <1> QED
    BY <1>1, <1>5, <1>6, <1>8, StepOfTab DEF Own

\* login() or restoreSession() is over, and the tab has user u.
LEMMA CallEnds ==
  ASSUME TabsSound, NEW t \in Tabs, NEW u \in Users \cup {Nil},
         call' = [call EXCEPT ![t] = NoCall], user' = [user EXCEPT ![t] = u],
         UNCHANGED <<active, request, data>>,
         NEW path \in {"login", "app"}, route' = [route EXCEPT ![t] = path],
         stored' \in Users \cup {Nil},
         touched' \in [Tabs -> BOOLEAN],
         \A s \in Tabs \ {t} : (stored' = stored /\ touched'[s] = touched[s]) \/ touched'[s] = TRUE,
         request[t] = NoRequest /\ data[t] = Nil,
         path = "app" => u # Nil /\ (~touched'[t] => stored' = u)
  PROVE  TabsSound'
  <1>1. SessionTypeOK'
    BY DEF TabsSound, SessionTypeOK
  <1>2. call'[t] = NoCall /\ user'[t] = u /\ route'[t] = path
    BY DEF TabsSound, SessionTypeOK
  <1>3. SoundTab(t)'
    BY <1>2, NilIsNothing DEF SoundTab, Sound
  <1>4. \A s \in Tabs \ {t} : Own(s)' = Own(s)
    BY DEF Own, TabsSound, SessionTypeOK
  <1> QED
    BY <1>1, <1>3, <1>4, StepOfTab

LEMMA LoginEnds ==
  ASSUME TabsSound, NEW t \in Tabs, LoginSucceeds(t) \/ LoginFails(t)
  PROVE  TabsSound'
  <1>1. call[t].kind = "login" /\ call[t] \in Call /\ call[t].who \in Users
    <2>1. call[t].kind = "login"
      BY DEF LoginSucceeds, LoginFails
    <2> QED
      BY <2>1, NilIsNothing DEF TabsSound, SessionTypeOK, Call
  <1>2. /\ route[t] = "login" /\ request[t] = NoRequest /\ data[t] = Nil
        /\ ~touched[t] /\ call[t].step = "known" => stored = call[t].who
    BY <1>1 DEF TabsSound, SoundTab, Sound
  <1>3. CASE LoginSucceeds(t)
    <2>1. call[t].who # Nil
      BY <1>1, SessionConstants
    <2> QED
      BY <1>1, <1>2, <1>3, <2>1, CallEnds DEF LoginSucceeds, TabsSound, SessionTypeOK
  <1>4. CASE LoginFails(t)
    <2>1. user' = [user EXCEPT ![t] = user[t]] /\ route' = [route EXCEPT ![t] = "login"]
      BY <1>2, <1>4 DEF LoginFails, TabsSound, SessionTypeOK
    <2>2. user[t] \in Users \cup {Nil}
      BY DEF TabsSound, SessionTypeOK
    <2> QED
      BY <1>2, <1>4, <2>1, <2>2, CallEnds DEF LoginFails, TabsSound, SessionTypeOK
  <1> QED
    BY <1>3, <1>4

LEMMA RestoreEnds ==
  ASSUME TabsSound, NEW t \in Tabs, RestoreSucceeds(t) \/ (RestoreLost(t) /\ stored # Nil)
  PROVE  TabsSound'
  <1>1. call[t].kind = "restore" /\ call[t].who \in Users
    <2>1. call[t].kind = "restore"
      BY DEF RestoreSucceeds, RestoreLost, Restoring
    <2> QED
      BY <2>1, NilIsNothing DEF TabsSound, SessionTypeOK, Call
  <1>2. request[t] = NoRequest /\ data[t] = Nil
    BY <1>1 DEF TabsSound, SoundTab, Sound
  <1>3. route[t] \in {"login", "app"} /\ route = [route EXCEPT ![t] = route[t]]
    BY DEF TabsSound, SessionTypeOK
  <1>4. CASE RestoreSucceeds(t)
    <2>1. stored' = call[t].who /\ touched' = [s \in Tabs |-> s # t]
      BY <1>4 DEF RestoreSucceeds, Write
    <2>2. call[t].who # Nil
      BY <1>1, SessionConstants
    <2>3. \A s \in Tabs \ {t} : touched'[s] = TRUE
      BY <2>1
    <2>4. touched' \in [Tabs -> BOOLEAN]
      BY <2>1
    <2> QED
      BY <1>1, <1>2, <1>3, <1>4, <2>1, <2>2, <2>3, <2>4, CallEnds DEF RestoreSucceeds
  <1>5. CASE RestoreLost(t) /\ stored # Nil
    <2>1. /\ user' = [user EXCEPT ![t] = stored] /\ call' = [call EXCEPT ![t] = NoCall]
          /\ touched' = [touched EXCEPT ![t] = FALSE]
          /\ UNCHANGED <<active, stored, route, request, data>>
      BY <1>5 DEF RestoreLost
    <2>2. touched' \in [Tabs -> BOOLEAN] /\ \A s \in Tabs \ {t} : touched'[s] = touched[s]
      BY <2>1 DEF TabsSound, SessionTypeOK
    <2>3. stored \in Users \cup {Nil}
      BY DEF TabsSound, SessionTypeOK
    <2> QED
      BY <1>2, <1>3, <1>5, <2>1, <2>2, <2>3, CallEnds
  <1> QED
    BY <1>4, <1>5

-----------------------------------------------------------------------------
(* The requests of the pages.                                              *)

\* Only the request of a tab behind ProtectedRoute changes.
LEMMA RequestMoves ==
  ASSUME TabsSound, NEW t \in Tabs, NEW r \in Request \cup {NoRequest},
         request' = [request EXCEPT ![t] = r],
         UNCHANGED <<active, stored, route, user, call, data, touched>>,
         route[t] = "app" /\ ~Restoring(t),
         ~touched[t] /\ r # NoRequest => r.as = user[t]
  PROVE  TabsSound'
  <1>1. SessionTypeOK'
    BY DEF TabsSound, SessionTypeOK
  <1>2. request'[t] = r /\ \A s \in Tabs \ {t} : request'[s] = request[s]
    BY DEF TabsSound, SessionTypeOK
  <1>3. SoundTab(t)'
    BY <1>2 DEF TabsSound, SoundTab, Sound, Restoring
  <1> QED
    BY <1>1, <1>2, <1>3, StepOfTab DEF Own

\* A tab with a request is behind ProtectedRoute.
LEMMA RequestNeedsAPage ==
  ASSUME TabsSound, NEW t \in Tabs, request[t] # NoRequest
  PROVE  /\ request[t] \in Request
         /\ route[t] = "app" /\ ~Restoring(t)
         /\ ~touched[t] => request[t].as = user[t]
  BY DEF TabsSound, SessionTypeOK, SoundTab, Sound, Restoring

LEMMA SendStep ==
  ASSUME TabsSound, NEW t \in Tabs, send(t)
  PROVE  TabsSound'
  <1> DEFINE r == [as |-> stored, step |-> "sent"]
  <1>1. r \in Request /\ r.as = stored
    BY DEF Request, TabsSound, SessionTypeOK
  <1>2. ~touched[t] => stored = user[t]
    BY DEF send, TabsSound, SoundTab, Sound, Restoring
  <1>3. request' = [request EXCEPT ![t] = r]
    BY DEF send
  <1> HIDE DEF r
  <1> QED
    BY <1>1, <1>2, <1>3, RequestMoves DEF send

LEMMA CurrentUserStep ==
  ASSUME TabsSound, NEW t \in Tabs, current_user(t)
  PROVE  TabsSound'
  <1>1. request[t] # NoRequest
    BY DEF current_user, NoRequest, Nil
  <1>2. PICK step \in {"ok", "refused"} : request' = [request EXCEPT ![t].step = step]
    BY DEF current_user
  <1> DEFINE r == [request[t] EXCEPT !.step = step]
  <1>3. r \in Request /\ r.as = request[t].as
    BY <1>1, RequestNeedsAPage DEF Request
  <1>4. request' = [request EXCEPT ![t] = r]
    BY <1>2 DEF TabsSound, SessionTypeOK
  <1> HIDE DEF r
  <1>5. route[t] = "app" /\ ~Restoring(t) /\ (~touched[t] => r.as = user[t])
    BY <1>1, <1>3, RequestNeedsAPage
  <1>6. UNCHANGED <<active, stored, route, user, call, data, touched>>
    BY DEF current_user
  <1> QED
    BY <1>3, <1>4, <1>5, <1>6, RequestMoves

LEMMA RequestIsOver ==
  ASSUME TabsSound, NEW t \in Tabs, request[t] # NoRequest,
         request' = [request EXCEPT ![t] = NoRequest],
         UNCHANGED <<active, stored, route, user, call, data, touched>>
  PROVE  TabsSound'
  BY RequestNeedsAPage, RequestMoves

LEMMA DataStep ==
  ASSUME TabsSound, NEW t \in Tabs, DataArrives(t)
  PROVE  TabsSound'
  <1>1. request[t] # NoRequest
    BY DEF DataArrives, NoRequest, Nil
  <1>2. request[t].as \in Users \cup {Nil}
    BY <1>1, RequestNeedsAPage DEF Request
  <1>3. /\ data' = [data EXCEPT ![t] = request[t].as]
        /\ request' = [request EXCEPT ![t] = NoRequest]
        /\ UNCHANGED <<active, stored, route, user, call, touched>>
    BY DEF DataArrives
  <1>4. SessionTypeOK'
    BY <1>2, <1>3 DEF TabsSound, SessionTypeOK
  <1>5. data'[t] = request[t].as /\ request'[t] = NoRequest
    BY <1>3 DEF TabsSound, SessionTypeOK
  <1>6. SoundTab(t)'
    BY <1>1, <1>3, <1>5, RequestNeedsAPage DEF TabsSound, SoundTab, Sound, Restoring
  <1>7. \A s \in Tabs \ {t} : Own(s)' = Own(s) /\ stored' = stored /\ touched'[s] = touched[s]
    BY <1>3 DEF Own, TabsSound, SessionTypeOK
  <1> QED
    BY <1>4, <1>6, <1>7, StepOfTab

LEMMA RefusalStep ==
  ASSUME TabsSound, NEW t \in Tabs, RefusalArrives(t)
  PROVE  TabsSound'
  <1>1. request[t] # NoRequest
    BY DEF RefusalArrives, NoRequest, Nil
  <1>2. CASE request[t].as = Nil
    BY <1>1, <1>2, RequestIsOver DEF RefusalArrives
  <1>3. CASE request[t].as # Nil
    BY <1>3, SignedOutStep DEF RefusalArrives
  <1> QED
    BY <1>2, <1>3

\* login() and me() of the server.
LEMMA ServerStep ==
  ASSUME TabsSound, NEW t \in Tabs, login(t) \/ me(t)
  PROVE  TabsSound'
  <1>1. CASE login(t)
    <2>1. PICK step \in {"issued", "refused"} : call' = [call EXCEPT ![t].step = step]
      BY <1>1 DEF login
    <2>2. call[t].kind = "login" /\ call[t] # NoCall
      BY <1>1, NilIsNothing DEF login
    <2> QED
      BY <1>1, <2>1, <2>2, CallMoves DEF login
  <1>2. CASE me(t)
    <2>1. PICK step \in {"known", "refused"} : call' = [call EXCEPT ![t].step = step]
      BY <1>2 DEF me
    <2> QED
      BY <1>2, <2>1, CallMoves DEF me
  <1> QED
    BY <1>1, <1>2

-----------------------------------------------------------------------------
LEMMA StepSound == TabsSound /\ [SessionNext]_sessionVars => TabsSound'
  <1> SUFFICES ASSUME TabsSound, [SessionNext]_sessionVars PROVE TabsSound'
    OBVIOUS
  <1>1. CASE UNCHANGED sessionVars
    BY <1>1 DEF TabsSound, SessionTypeOK, SoundTab, sessionVars, memory
  <1>2. CASE \E t \in Tabs, path \in {"login", "app"} : Open(t, path)
    BY <1>2, OpenStep
  <1>3. CASE \E t \in Tabs : Logout(t) \/ RestoreRefused(t) \/ (RestoreLost(t) /\ stored = Nil)
    BY <1>3, SignedOutStep DEF Logout, RestoreRefused, RestoreLost
  <1>4. CASE \E t \in Tabs, u \in Users : Submit(t, u)
    BY <1>4, SignInStep
  <1>5. CASE \E t \in Tabs : login(t) \/ me(t)
    BY <1>5, ServerStep
  <1>6. CASE \E t \in Tabs : TokenArrives(t)
    BY <1>6, TokenStep
  <1>7. CASE \E t \in Tabs : LoginSucceeds(t) \/ LoginFails(t)
    BY <1>7, LoginEnds
  <1>8. CASE \E t \in Tabs : RestoreSucceeds(t) \/ (RestoreLost(t) /\ stored # Nil)
    BY <1>8, RestoreEnds
  <1>9. CASE \E t \in Tabs : send(t)
    BY <1>9, SendStep
  <1>10. CASE \E t \in Tabs : current_user(t)
    BY <1>10, CurrentUserStep
  <1>11. CASE \E t \in Tabs : DataArrives(t)
    BY <1>11, DataStep
  <1>12. CASE \E t \in Tabs : RefusalArrives(t)
    BY <1>12, RefusalStep
  <1>13. CASE \E t \in Tabs : RequestLost(t)
    BY <1>13, RequestIsOver DEF RequestLost
  <1>14. CASE \E u \in Users : SetActive(u)
    <2>1. active' \in [Users -> BOOLEAN] /\ UNCHANGED <<stored, route, memory, touched>>
      BY <1>14 DEF SetActive, TabsSound, SessionTypeOK
    <2> QED
      BY <2>1 DEF TabsSound, SessionTypeOK, SoundTab, memory
  <1> QED
    BY <1>1, <1>2, <1>3, <1>4, <1>5, <1>6, <1>7, <1>8, <1>9, <1>10, <1>11, <1>12, <1>13, <1>14
    DEF SessionNext

\* Types, the calls under way and what a page holds for its token hold
\* together in every reachable state: the inductive invariant.
THEOREM TabsAlwaysSound == SessionSpec => []TabsSound
  BY InitSound, StepSound, PTL DEF SessionSpec

\* Types of storage, tabs and requests, for all constants.
THEOREM SessionsTypeCorrect == SessionSpec => []SessionTypeOK
  <1>1. TabsSound => SessionTypeOK
    BY DEF TabsSound
  <1> QED
    BY <1>1, TabsAlwaysSound, PTL

\* A page acts for the account it shows (real_client.ts:25, authStore.ts).
THEOREM PageActsForItsUser == SessionSpec => []IdentityIsTheTokens
  <1>1. TabsSound => IdentityIsTheTokens
    BY DEF TabsSound, SoundTab, Sound, IdentityIsTheTokens, Restoring
  <1> QED
    BY <1>1, TabsAlwaysSound, PTL

\* No tab holds what was answered to another account (DEF-061, authStore.ts:150).
THEOREM TabHoldsItsUsersData == SessionSpec => []DataIsOfTheUser
  <1>1. TabsSound => DataIsOfTheUser
    BY DEF TabsSound, SoundTab, Sound, DataIsOfTheUser
  <1> QED
    BY <1>1, TabsAlwaysSound, PTL

\* No page behind ProtectedRoute without an account.
THEOREM PagesStayGuarded == SessionSpec => []PagesAreGuarded
  <1>1. TabsSound => PagesAreGuarded
    BY DEF TabsSound, SoundTab, Sound, PagesAreGuarded, Restoring
  <1> QED
    BY <1>1, TabsAlwaysSound, PTL

\* Storage is emptied only by the user or by a 401 (authStore.ts:112).
LEMMA StepEndsNoSession ==
  ASSUME SessionTypeOK, [SessionNext]_sessionVars, stored # Nil, stored' = Nil
  PROVE  \E t \in Tabs : \/ Logout(t)
                         \/ RestoreRefused(t)
                         \/ request[t].step = "refused" /\ RefusalArrives(t)
  <1>1. ASSUME NEW t \in Tabs, TokenArrives(t) \/ RestoreSucceeds(t) PROVE FALSE
    <2>1. call[t].kind \in {"login", "restore"} /\ stored' = call[t].who
      BY <1>1 DEF TokenArrives, RestoreSucceeds, Restoring, Write
    <2>2. call[t].who \in Users
      BY <2>1, NilIsNothing DEF SessionTypeOK, Call
    <2> QED
      BY <2>1, <2>2, SessionConstants
  <1>2. ASSUME NEW t \in Tabs, NEW path \in {"login", "app"}, Open(t, path) PROVE FALSE
    BY <1>2 DEF Open
  <1>3. ASSUME NEW t \in Tabs, login(t) \/ me(t) \/ LoginSucceeds(t) \/ LoginFails(t) PROVE FALSE
    BY <1>3 DEF login, me, LoginSucceeds, LoginFails
  <1>4. ASSUME NEW t \in Tabs, send(t) \/ current_user(t) \/ DataArrives(t) \/ RequestLost(t)
        PROVE FALSE
    BY <1>4 DEF send, current_user, DataArrives, RequestLost
  <1>5. ASSUME NEW t \in Tabs, RestoreLost(t) PROVE FALSE
    BY <1>5 DEF RestoreLost
  <1>6. ASSUME NEW t \in Tabs, NEW u \in Users, Submit(t, u) \/ SetActive(u) PROVE FALSE
    BY <1>6 DEF Submit, SetActive
  <1>7. ASSUME NEW u \in Users, SetActive(u) PROVE FALSE
    BY <1>7 DEF SetActive
  <1>8. ASSUME NEW t \in Tabs, RefusalArrives(t) PROVE request[t].step = "refused"
    BY <1>8 DEF RefusalArrives
  <1>9. ~UNCHANGED sessionVars
    BY DEF sessionVars
  <1> QED
    BY <1>1, <1>2, <1>3, <1>4, <1>5, <1>6, <1>7, <1>8, <1>9 DEF SessionNext

\* Only the server's refusal of a token or the user ends a session: a lost answer
\* never does (authStore.ts:111-129).
THEOREM OnlyRefusalsEndSessions == SessionSpec => OnlyTheServerEndsASession
  <1>1. SessionTypeOK /\ [SessionNext]_sessionVars =>
          [stored # Nil /\ stored' = Nil =>
              \E t \in Tabs : \/ Logout(t)
                              \/ RestoreRefused(t)
                              \/ request[t].step = "refused" /\ RefusalArrives(t)]_sessionVars
    BY StepEndsNoSession
  <1> QED
    BY <1>1, SessionsTypeCorrect, PTL DEF SessionSpec, OnlyTheServerEndsASession

-----------------------------------------------------------------------------
(* UserManagement: the administrators, the dialog and the rows.              *)

\* IsAdmin, given the accounts.
AdminIn(a, u) == a[u].active /\ a[u].role = Admin

\* A change that writes a role has one.
RolesGiven == \A i \in Slots : changes[i].kind \in {"create", "edit"} => changes[i].role \in Roles

\* One change waits for the open dialog, and it is the one the dialog is about.
DialogWaits ==
    \A i \in Slots : changes[i].owner = "dialog" =>
        /\ dialog.busy /\ dialog.kind = changes[i].kind
        /\ \A j \in Slots : changes[j].owner = "dialog" => j = i

\* Past its check a deactivation is of another account than the administrator's
\* own, and, but for a race or a demotion, that administrator is one still.
DeactivationsAreSafe ==
    raced \/ demoted \/
    \A i \in Slots : Handling(i, "deactivate") =>
        /\ IsAdmin(changes[i].by) /\ changes[i].by # changes[i].target
        /\ \A j \in Slots : Handling(j, "deactivate") => j = i

Consistent ==
    /\ TypeOK
    /\ RolesGiven
    /\ DialogWaits
    /\ BusyIsWaiting
    /\ DeactivationsAreSafe
    /\ SomebodyAdministers

Waiting == DialogWaits /\ BusyIsWaiting
Safe == DeactivationsAreSafe /\ SomebodyAdministers

LEMMA NoChangeIsNone ==
    /\ NoChange \notin Change /\ NoChange.kind = "none" /\ NoChange.owner = "none" /\ NoChange.step = "none"
    /\ NoDialog.kind = "none" /\ NoDialog.busy = FALSE /\ NoLoad.step = "none" /\ None = "none"
  BY DEF NoChange, Change, None, NoDialog, NoLoad

LEMMA InitConsistent == Init => Consistent
  <1> SUFFICES ASSUME Init PROVE Consistent
    OBVIOUS
  <1>1. accounts \in Accounts /\ Me \in Staff /\ IsAdmin(Me)
    BY AccountConstants DEF Init, IsAdmin
  <1>2. TypeOK
    BY <1>1 DEF Init, TypeOK
  <1>3. RolesGiven /\ DialogWaits /\ BusyIsWaiting /\ DeactivationsAreSafe
    BY NoChangeIsNone DEF Init, RolesGiven, DialogWaits, BusyIsWaiting, DeactivationsAreSafe, Handling
  <1> QED
    BY <1>1, <1>2, <1>3 DEF Consistent, SomebodyAdministers

-----------------------------------------------------------------------------
(* Facts the steps share.                                                  *)

\* A change fades: it is as it was, or gone, or nobody waits for it any more.
Fades(i) == \/ changes'[i] = changes[i]
            \/ changes'[i] = NoChange
            \/ changes[i] \in Change /\ changes'[i] = [changes[i] EXCEPT !.owner = None]

LEMMA FadingKeeps ==
  ASSUME Consistent, \A i \in Slots : Fades(i)
  PROVE  /\ \A i \in Slots : changes'[i] \in Change \cup {NoChange}
         /\ RolesGiven'
         /\ UNCHANGED <<accounts, raced, demoted>> => Safe'
  <1>1. \A i \in Slots : changes[i] \in Change \cup {NoChange}
    BY DEF Consistent, TypeOK
  <1>2. \A i \in Slots : \/ changes'[i] = changes[i]
                         \/ changes'[i] = NoChange
                         \/ /\ changes'[i] \in Change
                            /\ changes'[i].kind = changes[i].kind /\ changes'[i].by = changes[i].by
                            /\ changes'[i].target = changes[i].target /\ changes'[i].role = changes[i].role
                            /\ changes'[i].step = changes[i].step
    <2> SUFFICES ASSUME NEW i \in Slots, changes[i] \in Change,
                        changes'[i] = [changes[i] EXCEPT !.owner = None]
                 PROVE  /\ changes'[i] \in Change
                        /\ changes'[i].kind = changes[i].kind /\ changes'[i].by = changes[i].by
                        /\ changes'[i].target = changes[i].target /\ changes'[i].role = changes[i].role
                        /\ changes'[i].step = changes[i].step
      BY DEF Fades
    <2> QED
      BY DEF Change
  <1>3. \A i \in Slots : changes'[i] \in Change \cup {NoChange}
    BY <1>1, <1>2
  <1>4. RolesGiven'
    BY <1>2, NoChangeIsNone DEF Consistent, RolesGiven
  <1>5. ASSUME UNCHANGED <<accounts, raced, demoted>> PROVE Safe'
    <2>1. \A i \in Slots : Handling(i, "deactivate")' =>
             /\ Handling(i, "deactivate")
             /\ changes'[i].by = changes[i].by /\ changes'[i].target = changes[i].target
      BY <1>2, NoChangeIsNone DEF Handling
    <2>2. \A u : IsAdmin(u)' <=> IsAdmin(u)
      BY <1>5 DEF IsAdmin
    <2>3. DeactivationsAreSafe'
      BY <1>5, <2>1, <2>2 DEF Consistent, DeactivationsAreSafe
    <2>4. SomebodyAdministers'
      BY <1>5, <2>2 DEF Consistent, SomebodyAdministers
    <2> QED
      BY <2>3, <2>4 DEF Safe
  <1> QED
    BY <1>3, <1>4, <1>5

\* Nothing but the requests of the page changes: what waits, waits as before.
LEMMA ChangesStay ==
  ASSUME Consistent, UNCHANGED changes
  PROVE  /\ RolesGiven'
         /\ UNCHANGED <<accounts, raced, demoted>> => Safe'
         /\ UNCHANGED <<dialog, busyId>> => Waiting'
  BY DEF Consistent, RolesGiven, Safe, DeactivationsAreSafe, SomebodyAdministers, Handling, IsAdmin,
         Waiting, DialogWaits, BusyIsWaiting

-----------------------------------------------------------------------------
(* The page.                                                               *)

LEMMA LoadStep ==
  ASSUME Consistent, NEW i \in Loads, OpenUsers(i) \/ Refresh(i) \/ list_users(i)
                                         \/ RowsArrive(i) \/ LoadFails(i)
  PROVE  Consistent'
  <1> USE DEF content, history
  <1>1. UNCHANGED <<sent, accounts, busyId, dialog, changes, raced, demoted>>
    BY DEF OpenUsers, Refresh, list_users, RowsArrive, LoadFails
  <1>2. page' \in {"login", "home", "users"} /\ error' \in BOOLEAN /\ others' \in BOOLEAN
        /\ overlapped' \in BOOLEAN
    BY DEF OpenUsers, Refresh, list_users, RowsArrive, LoadFails, load, Consistent, TypeOK
  <1>3. loads' \in [Loads -> Load \cup {NoLoad}] /\ table' \in Accounts \cup {NoTable}
    <2>1. accounts \in Accounts /\ table \in Accounts \cup {NoTable} /\ loads \in [Loads -> Load \cup {NoLoad}]
      BY DEF Consistent, TypeOK
    <2>2. [step |-> "sent"] \in Load /\ [step |-> "failed"] \in Load /\ [step |-> "refused"] \in Load
          /\ [step |-> "ok", rows |-> accounts] \in Load
      BY <2>1 DEF Load
    <2>3. CASE OpenUsers(i) \/ Refresh(i)
      BY <2>1, <2>2, <2>3 DEF OpenUsers, Refresh, load
    <2>4. CASE list_users(i)
      BY <2>1, <2>2, <2>4 DEF list_users
    <2>5. CASE RowsArrive(i)
      <3>1. loads[i] \in Load /\ loads[i].step = "ok"
        BY <2>1, <2>5, NoChangeIsNone DEF RowsArrive
      <3>2. loads[i].rows \in Accounts
        BY <3>1 DEF Load
      <3> QED
        BY <2>1, <2>5, <3>2 DEF RowsArrive
    <2>6. CASE LoadFails(i)
      BY <2>1, <2>6 DEF LoadFails
    <2> QED
      BY <2>3, <2>4, <2>5, <2>6
  <1>4. TypeOK'
    BY <1>1, <1>2, <1>3 DEF Consistent, TypeOK
  <1> QED
    BY <1>1, <1>4, ChangesStay DEF Consistent, Safe, Waiting

LEMMA UnmountStep ==
  ASSUME Consistent, Unmounted, page' \in {"login", "home"}, UNCHANGED <<sent, accounts, history>>
  PROVE  Consistent'
  <1> USE DEF history
  <1>1. \A i \in Slots : changes[i] \in Change \cup {NoChange}
    BY DEF Consistent, TypeOK
  <1>2. [NoChange EXCEPT !.owner = None] = NoChange
    BY DEF NoChange
  <1>3. \A i \in Slots : Fades(i)
    BY <1>1, <1>2 DEF Unmounted, Fades
  <1>4. \A i \in Slots : changes'[i].owner = "none"
    <2> SUFFICES ASSUME NEW i \in Slots PROVE changes'[i].owner = "none"
      OBVIOUS
    <2>1. changes'[i] = NoChange \/ changes'[i] = [changes[i] EXCEPT !.owner = None]
      BY DEF Unmounted
    <2> QED
      BY <1>1, <1>2, <2>1, NoChangeIsNone DEF Change
  <1>5. changes' = [i \in Slots |-> changes'[i]]
    BY DEF Unmounted
  <1>6. changes' \in [Slots -> Change \cup {NoChange}]
    BY <1>3, <1>5, FadingKeeps
  <1>7. TypeOK'
    BY <1>6 DEF Unmounted, Consistent, TypeOK
  <1>8. Waiting'
    BY <1>4, NoChangeIsNone DEF Waiting, DialogWaits, BusyIsWaiting, Unmounted
  <1> QED
    BY <1>3, <1>7, <1>8, FadingKeeps DEF Consistent, Safe, Waiting

\* A dialog opens, is filled in, or is closed: none of it while it is saving.
LEMMA DialogStep ==
  ASSUME Consistent,
         \/ OpenCreate
         \/ \E u \in Staff : OpenEdit(u) \/ OpenReset(u)
         \/ \E r \in Roles : ChooseRole(r)
         \/ CloseDialog
  PROVE  Consistent'
  <1> USE DEF history
  <1>1. /\ UNCHANGED <<sent, accounts, page, table, error, busyId, loads, changes, history>>
        /\ ~dialog.busy
    BY NoChangeIsNone DEF OpenCreate, OpenEdit, OpenReset, ChooseRole, CloseDialog, Listed
  <1>2. dialog' \in Dialog \cup {NoDialog} /\ ~dialog'.busy
    <2>1. CASE OpenCreate
      BY <2>1 DEF OpenCreate, Dialog
    <2>2. ASSUME NEW u \in Staff, OpenEdit(u) PROVE dialog' \in Dialog \cup {NoDialog} /\ ~dialog'.busy
      <3>1. table \in Accounts \cup {NoTable} /\ u \in DOMAIN table /\ table[u] # Absent
        BY <2>2 DEF OpenEdit, Listed, Consistent, TypeOK
      <3>2. table # NoTable
        BY <3>1 DEF NoTable
      <3>3. table[u] \in Account
        BY <3>1, <3>2 DEF Accounts
      <3>4. table[u].role \in Roles
        BY <3>3 DEF Account
      <3> QED
        BY <2>2, <3>4 DEF OpenEdit, Dialog
    <2>3. ASSUME NEW u \in Staff, OpenReset(u) PROVE dialog' \in Dialog \cup {NoDialog} /\ ~dialog'.busy
      BY <2>3 DEF OpenReset, Dialog
    <2>4. ASSUME NEW r \in Roles, ChooseRole(r) PROVE dialog' \in Dialog \cup {NoDialog} /\ ~dialog'.busy
      <3>1. dialog \in Dialog /\ dialog.kind = "edit" /\ ~dialog.busy
        BY <2>4, NoChangeIsNone DEF ChooseRole, Consistent, TypeOK
      <3> QED
        BY <2>4, <3>1 DEF ChooseRole, Dialog
    <2>5. CASE CloseDialog
      BY <2>5, NoChangeIsNone DEF CloseDialog
    <2> QED
      BY <2>1, <2>2, <2>3, <2>4, <2>5
  <1>3. TypeOK'
    BY <1>1, <1>2 DEF Consistent, TypeOK
  <1>4. Waiting'
    BY <1>1, <1>2 DEF Consistent, Waiting, DialogWaits, BusyIsWaiting
  <1> QED
    BY <1>1, <1>3, <1>4, ChangesStay DEF Consistent, Safe, Waiting

-----------------------------------------------------------------------------
(* Requests.                                                               *)

LEMMA SendTyped ==
  ASSUME Consistent, NEW i \in Slots, NEW u \in Staff, NEW t \in Staff, NEW r \in Roles \cup {None},
         NEW kind \in {"create", "edit", "deactivate", "reactivate", "reset"},
         NEW owner \in {"row", "dialog", None},
         kind \in {"create", "edit"} => r \in Roles,
         Send(i, kind, u, t, r, owner), UNCHANGED <<accounts, raced, demoted>>
  PROVE  /\ changes' \in [Slots -> Change \cup {NoChange}] /\ sent' \in Nat
         /\ RolesGiven' /\ Safe'
         /\ changes'[i].owner = owner /\ changes'[i].kind = kind
         /\ changes[i] = NoChange
         /\ \A j \in Slots \ {i} : changes'[j] = changes[j]
  <1> DEFINE c == [kind |-> kind, by |-> u, target |-> t, role |-> r, owner |-> owner, step |-> "sent"]
  <1>1. c \in Change /\ c.owner = owner /\ c.kind = kind /\ c.role = r /\ c.step = "sent"
    BY DEF Change
  <1>2. changes' = [changes EXCEPT ![i] = c] /\ changes[i] = NoChange /\ sent' = sent + 1
    BY DEF Send
  <1> HIDE DEF c
  <1>3. changes'[i] = c /\ \A j \in Slots \ {i} : changes'[j] = changes[j]
    BY <1>2 DEF Consistent, TypeOK
  <1>4. RolesGiven'
    BY <1>1, <1>3 DEF Consistent, RolesGiven
  <1>5. Safe'
    BY <1>1, <1>3
    DEF Consistent, Safe, DeactivationsAreSafe, SomebodyAdministers, Handling, IsAdmin
  <1> QED
    BY <1>1, <1>2, <1>3, <1>4, <1>5 DEF Consistent, TypeOK

LEMMA ToggleStep ==
  ASSUME Consistent, NEW u \in Staff, NEW i \in Slots, toggleActive(u, i)
  PROVE  Consistent'
  <1> USE DEF history
  <1>1. /\ busyId' = u /\ UNCHANGED <<accounts, page, table, error, dialog, loads, history>>
        /\ \/ Send(i, "deactivate", Me, u, None, "row")
           \/ Send(i, "reactivate", Me, u, None, "row")
    BY DEF toggleActive
  <1>2. /\ changes' \in [Slots -> Change \cup {NoChange}] /\ sent' \in Nat
        /\ RolesGiven' /\ Safe'
        /\ changes'[i].owner = "row"
        /\ changes[i] = NoChange
        /\ \A j \in Slots \ {i} : changes'[j] = changes[j]
    BY <1>1, SendTyped, AccountConstants
  <1>3. TypeOK'
    BY <1>1, <1>2 DEF Consistent, TypeOK
  <1>4. Waiting'
    BY <1>1, <1>2, NoChangeIsNone DEF Consistent, Waiting, DialogWaits, BusyIsWaiting
  <1> QED
    BY <1>2, <1>3, <1>4 DEF Consistent, Safe, Waiting

LEMMA SubmitStep ==
  ASSUME Consistent, NEW i \in Slots,
         \/ \E u \in Staff, r \in Roles : SubmitCreate(i, u, r)
         \/ SubmitEdit(i)
         \/ SubmitReset(i)
  PROVE  Consistent'
  <1> USE DEF history
  <1>1. /\ ~dialog.busy /\ dialog \in Dialog
        /\ dialog' = [dialog EXCEPT !.busy = TRUE]
        /\ UNCHANGED <<accounts, page, table, error, busyId, loads, history>>
    BY NoChangeIsNone DEF SubmitCreate, SubmitEdit, SubmitReset, Consistent, TypeOK
  <1>2. dialog' \in Dialog /\ dialog'.busy /\ dialog'.kind = dialog.kind
    BY <1>1 DEF Dialog
  <1>3. /\ changes' \in [Slots -> Change \cup {NoChange}] /\ sent' \in Nat
        /\ RolesGiven' /\ Safe'
        /\ changes'[i].owner = "dialog" /\ changes'[i].kind = dialog.kind
        /\ changes[i] = NoChange
        /\ \A j \in Slots \ {i} : changes'[j] = changes[j]
    <2>1. CASE \E u \in Staff, r \in Roles : SubmitCreate(i, u, r)
      <3>1. PICK u \in Staff, r \in Roles : SubmitCreate(i, u, r)
        BY <2>1
      <3>2. Send(i, "create", Me, u, r, "dialog") /\ dialog.kind = "create"
        BY <3>1 DEF SubmitCreate
      <3> QED
        BY <1>1, <3>2, SendTyped, AccountConstants
    <2>2. CASE SubmitEdit(i)
      <3>1. Send(i, "edit", Me, dialog.target, dialog.role, "dialog") /\ dialog.kind = "edit"
        BY <2>2 DEF SubmitEdit
      <3>2. dialog.target \in Staff /\ dialog.role \in Roles
        BY <1>1, <3>1 DEF Dialog
      <3> QED
        BY <1>1, <3>1, <3>2, SendTyped, AccountConstants
    <2>3. CASE SubmitReset(i)
      <3>1. Send(i, "reset", Me, dialog.target, None, "dialog") /\ dialog.kind = "reset"
        BY <2>3 DEF SubmitReset
      <3>2. dialog.target \in Staff
        BY <1>1, <3>1 DEF Dialog
      <3> QED
        BY <1>1, <3>1, <3>2, SendTyped, AccountConstants
    <2> QED
      BY <2>1, <2>2, <2>3
  <1>4. TypeOK'
    BY <1>1, <1>2, <1>3 DEF Consistent, TypeOK
  <1>5. \A j \in Slots : changes[j].owner # "dialog"
    BY <1>1 DEF Consistent, DialogWaits
  <1>6. DialogWaits'
    BY <1>2, <1>3, <1>5 DEF DialogWaits
  <1>7. BusyIsWaiting'
    BY <1>1, <1>3, NoChangeIsNone DEF Consistent, BusyIsWaiting
  <1> QED
    BY <1>3, <1>4, <1>6, <1>7 DEF Consistent, Safe

LEMMA OthersStep ==
  ASSUME Consistent, NEW i \in Slots, NEW kind \in {"create", "edit", "deactivate", "reactivate"},
         NEW u \in Staff, NEW t \in Staff, NEW r \in Roles \cup {None}, OthersSend(i, kind, u, t, r)
  PROVE  Consistent'
  <1> USE DEF history, content
  <1>1. /\ Send(i, kind, u, t, r, None) /\ (kind \in {"create", "edit"} => r \in Roles)
        /\ UNCHANGED <<accounts, page, content, loads, history>>
    BY DEF OthersSend
  <1>2. /\ changes' \in [Slots -> Change \cup {NoChange}] /\ sent' \in Nat
        /\ RolesGiven' /\ Safe'
        /\ changes'[i].owner = None
        /\ changes[i] = NoChange
        /\ \A j \in Slots \ {i} : changes'[j] = changes[j]
    BY <1>1, SendTyped
  <1>3. TypeOK'
    BY <1>1, <1>2 DEF Consistent, TypeOK
  <1>4. Waiting'
    BY <1>1, <1>2, NoChangeIsNone DEF Consistent, Waiting, DialogWaits, BusyIsWaiting
  <1> QED
    BY <1>2, <1>3, <1>4 DEF Consistent, Safe, Waiting

-----------------------------------------------------------------------------
(* The server.                                                             *)

\* The answer to change i, or nothing if nobody waits: other changes stay.
LEMMA AnsweredFacts ==
  ASSUME Consistent, NEW i \in Slots, NEW step \in {"done", "failed", "refused"},
         changes[i] # NoChange, Answered(i, step)
  PROVE  /\ changes' \in [Slots -> Change \cup {NoChange}]
         /\ \A j \in Slots \ {i} : changes'[j] = changes[j]
         /\ ~ Handling(i, "deactivate")'
         /\ changes'[i].owner = changes[i].owner
         /\ changes'[i].owner # "none" => changes'[i].kind = changes[i].kind
         /\ RolesGiven' /\ (UNCHANGED <<dialog, busyId>> => Waiting')
  <1> DEFINE c == [changes[i] EXCEPT !.step = step]
  <1>1. changes[i] \in Change
    BY DEF Consistent, TypeOK
  <1>2. /\ c \in Change /\ c.owner = changes[i].owner /\ c.kind = changes[i].kind
        /\ c.role = changes[i].role /\ c.step = step
    BY <1>1 DEF Change
  <1>3. changes' = [changes EXCEPT ![i] = IF changes[i].owner = None THEN NoChange ELSE c]
    BY DEF Answered, Consistent, TypeOK
  <1> HIDE DEF c
  <1>4. changes'[i] = (IF changes[i].owner = None THEN NoChange ELSE c)
        /\ \A j \in Slots \ {i} : changes'[j] = changes[j]
    BY <1>3 DEF Consistent, TypeOK
  <1>5. changes' \in [Slots -> Change \cup {NoChange}]
    BY <1>2, <1>3 DEF Consistent, TypeOK
  <1>6. ~ Handling(i, "deactivate")'
    BY <1>2, <1>4, NoChangeIsNone DEF Handling
  <1>7. changes'[i].owner = changes[i].owner
        /\ (changes'[i].owner # "none" => changes'[i].kind = changes[i].kind)
    BY <1>2, <1>4, NoChangeIsNone
  <1>8. RolesGiven'
    BY <1>2, <1>4, NoChangeIsNone DEF Consistent, RolesGiven
  <1>9. ASSUME UNCHANGED <<dialog, busyId>> PROVE Waiting'
    <2>1. \A j \in Slots : changes'[j].owner = changes[j].owner
      BY <1>4, <1>7
    <2>2. \A j \in Slots : changes'[j].owner = "dialog" => changes'[j].kind = changes[j].kind
      BY <1>4, <1>7
    <2> QED
      BY <1>9, <2>1, <2>2 DEF Consistent, Waiting, DialogWaits, BusyIsWaiting
  <1> QED
    BY <1>4, <1>5, <1>6, <1>7, <1>8, <1>9

LEMMA CheckStep ==
  ASSUME Consistent, NEW i \in Slots, require_roles(i)
  PROVE  Consistent'
  <1> USE DEF history, content
  <1> DEFINE c == changes[i]
             passed == accounts[c.by].active /\ Permitted(c)
  <1>1. /\ UNCHANGED <<sent, accounts, page, content, loads, others, overlapped, demoted>>
        /\ raced' = (raced \/ (passed /\ c.kind = "deactivate" /\ \E j \in Slots : Handling(j, "deactivate")))
        /\ c # NoChange
    BY NoChangeIsNone DEF require_roles
  <1>2. c \in Change
    BY <1>1 DEF Consistent, TypeOK
  <1>3. CASE ~passed
    <2>1. Answered(i, "failed") \/ Answered(i, "refused")
      BY <1>3 DEF require_roles
    <2>2. /\ changes' \in [Slots -> Change \cup {NoChange}]
          /\ \A j \in Slots \ {i} : changes'[j] = changes[j]
          /\ ~ Handling(i, "deactivate")'
          /\ RolesGiven' /\ Waiting'
      BY <1>1, <2>1, AnsweredFacts
    <2>3. raced' = raced
      BY <1>1, <1>3 DEF Consistent, TypeOK
    <2>4. \A j \in Slots : Handling(j, "deactivate")' => Handling(j, "deactivate") /\ changes'[j] = changes[j]
      BY <2>2 DEF Handling
    <2>5. Safe'
      BY <1>1, <2>3, <2>4 DEF Consistent, Safe, DeactivationsAreSafe, SomebodyAdministers, IsAdmin
    <2>6. TypeOK'
      BY <1>1, <2>2, <2>3 DEF Consistent, TypeOK
    <2> QED
      BY <2>2, <2>5, <2>6 DEF Consistent, Safe, Waiting
  <1>4. CASE passed
    <2> DEFINE d == [changes[i] EXCEPT !.step = "allowed"]
    <2>1. /\ d \in Change /\ d.owner = c.owner /\ d.kind = c.kind /\ d.role = c.role
          /\ d.by = c.by /\ d.target = c.target
      BY <1>2 DEF Change
    <2>2. changes' = [changes EXCEPT ![i] = d]
      BY <1>4 DEF require_roles, Consistent, TypeOK
    <2> HIDE DEF d
    <2>3. changes'[i] = d /\ \A j \in Slots \ {i} : changes'[j] = changes[j]
      BY <2>2 DEF Consistent, TypeOK
    <2>4. \A j \in Slots : changes'[j].owner = changes[j].owner /\ changes'[j].kind = changes[j].kind
                           /\ changes'[j].role = changes[j].role
      BY <2>1, <2>3
    <2>5. RolesGiven' /\ Waiting'
      BY <1>1, <2>4 DEF Consistent, RolesGiven, Waiting, DialogWaits, BusyIsWaiting
    <2>6. IsAdmin(c.by) /\ (c.kind = "deactivate" => c.by # c.target)
      BY <1>4 DEF Permitted, IsAdmin
    <2>7. DeactivationsAreSafe'
      <3> SUFFICES ASSUME ~raced', ~demoted',
                          NEW j \in Slots, Handling(j, "deactivate")'
                   PROVE  /\ IsAdmin(changes'[j].by) /\ changes'[j].by # changes'[j].target
                          /\ \A k \in Slots : Handling(k, "deactivate")' => k = j
        BY <1>1 DEF DeactivationsAreSafe, IsAdmin
      <3>1. ~raced /\ ~demoted /\ (c.kind = "deactivate" => \A k \in Slots : ~Handling(k, "deactivate"))
        BY <1>1, <1>4
      <3>2. \A k \in Slots \ {i} : Handling(k, "deactivate")' <=> Handling(k, "deactivate")
        BY <2>3 DEF Handling
      <3>3. Handling(i, "deactivate")' => c.kind = "deactivate"
        BY <2>1, <2>3 DEF Handling
      <3>4. CASE j = i
        BY <2>1, <2>3, <2>6, <3>1, <3>2, <3>3, <3>4
      <3>5. CASE j # i
        BY <2>3, <3>1, <3>2, <3>3, <3>5 DEF Consistent, DeactivationsAreSafe
      <3> QED
        BY <3>4, <3>5
    <2>8. SomebodyAdministers'
      BY <1>1, <1>4 DEF Consistent, SomebodyAdministers, IsAdmin
    <2>9. TypeOK'
      <3>1. raced' \in BOOLEAN
        BY <1>1
      <3> QED
        BY <1>1, <2>1, <2>2, <3>1 DEF Consistent, TypeOK
    <2> QED
      BY <2>5, <2>7, <2>8, <2>9 DEF Consistent, Waiting
  <1> QED
    BY <1>3, <1>4

\* A handler that is done, or refuses: what it may do to the accounts.
LEMMA HandledStep ==
  ASSUME Consistent, NEW i \in Slots, changes[i] # NoChange,
         NEW step \in {"done", "failed"}, Answered(i, step),
         UNCHANGED <<sent, page, content, loads, overlapped, raced>>,
         others' \in BOOLEAN, demoted' \in BOOLEAN, demoted => demoted',
         accounts' \in Accounts,
         \A u \in Staff : ~demoted' /\ AdminIn(accounts, u) =>
             \/ AdminIn(accounts', u)
             \/ Handling(i, "deactivate") /\ u = changes[i].target
  PROVE  Consistent'
  <1> USE DEF content
  <1>1. /\ changes' \in [Slots -> Change \cup {NoChange}]
        /\ \A j \in Slots \ {i} : changes'[j] = changes[j]
        /\ ~ Handling(i, "deactivate")'
        /\ RolesGiven' /\ Waiting'
    BY AnsweredFacts
  <1>2. TypeOK'
    BY <1>1 DEF Consistent, TypeOK
  <1>3. \A j \in Slots : Handling(j, "deactivate")' =>
           j # i /\ Handling(j, "deactivate") /\ changes'[j] = changes[j]
    BY <1>1 DEF Handling
  <1>4. \A j \in Slots : Handling(j, "deactivate") => changes[j].by \in Staff
    BY NoChangeIsNone DEF Handling, Consistent, TypeOK, Change
  <1>5. raced \/ demoted \/
        \A j \in Slots : Handling(j, "deactivate") =>
            /\ AdminIn(accounts, changes[j].by) /\ changes[j].by # changes[j].target
            /\ \A k \in Slots : Handling(k, "deactivate") => k = j
    BY DEF Consistent, DeactivationsAreSafe, IsAdmin, AdminIn
  <1>6. \/ raced \/ demoted'
        \/ \A j \in Slots : Handling(j, "deactivate")' =>
            /\ AdminIn(accounts', changes'[j].by) /\ changes'[j].by # changes'[j].target
            /\ \A k \in Slots : Handling(k, "deactivate")' => k = j
    BY <1>3, <1>4, <1>5
  <1>7. DeactivationsAreSafe'
    BY <1>6 DEF DeactivationsAreSafe, IsAdmin, AdminIn
  <1>8. SomebodyAdministers'
    <2>1. raced \/ demoted' \/ \E u \in Staff : AdminIn(accounts', u)
      <3>1. raced \/ demoted \/ \E u \in Staff : AdminIn(accounts, u)
        BY DEF Consistent, SomebodyAdministers, IsAdmin, AdminIn
      <3>2. CASE Handling(i, "deactivate")
        BY <1>4, <1>5, <3>2
      <3>3. CASE ~ Handling(i, "deactivate")
        BY <3>1, <3>3
      <3> QED
        BY <3>2, <3>3
    <2> QED
      BY <2>1 DEF SomebodyAdministers, IsAdmin, AdminIn
  <1> QED
    BY <1>1, <1>2, <1>7, <1>8 DEF Consistent, Waiting

LEMMA HandlerSteps ==
  ASSUME Consistent, NEW i \in Slots,
         \/ create_user(i) \/ update_user(i) \/ deactivate_user(i) \/ reactivate_user(i)
         \/ reset_password(i) \/ Rejected(i)
  PROVE  Consistent'
  <1> USE DEF content, history
  <1> DEFINE c == changes[i]
             a == accounts[c.target]
  <1>1. c # NoChange /\ c \in Change /\ c.target \in Staff
    BY NoChangeIsNone DEF create_user, update_user, deactivate_user, reactivate_user, reset_password,
                         Rejected, Handling, Consistent, TypeOK, Change
  <1>2. accounts \in Accounts /\ a \in Account \cup {Absent}
    BY <1>1 DEF Consistent, TypeOK, Accounts
  <1>3. ASSUME Done(i) PROVE Answered(i, "done") /\ others' \in BOOLEAN
    BY <1>3 DEF Done, Consistent, TypeOK
  <1>4. CASE create_user(i)
    <2> DEFINE b == [role |-> c.role, active |-> TRUE]
    <2>1. b \in Account
      BY <1>4 DEF create_user, Handling, Consistent, RolesGiven, Account
    <2>2. accounts' = [accounts EXCEPT ![c.target] = b] /\ a = Absent
      BY <1>4 DEF create_user, Known
    <2> HIDE DEF b
    <2>3. accounts' \in Accounts
      BY <1>2, <2>1, <2>2 DEF Accounts
    <2>4. \A u \in Staff : AdminIn(accounts, u) => AdminIn(accounts', u)
      BY <1>1, <1>2, <2>2 DEF AdminIn, Absent, Accounts
    <2> QED
      BY <1>1, <1>3, <1>4, <2>3, <2>4, HandledStep DEF create_user, Consistent, TypeOK
  <1>5. CASE update_user(i)
    <2> DEFINE b == [a EXCEPT !.role = c.role]
    <2>1. a \in Account
      BY <1>2, <1>5 DEF update_user, Known
    <2>2. c.role \in Roles
      BY <1>5 DEF update_user, Handling, Consistent, RolesGiven
    <2>3. b \in Account /\ b.active = a.active /\ b.role = c.role
      BY <2>1, <2>2 DEF Account
    <2>4. accounts' = [accounts EXCEPT ![c.target] = b]
      BY <1>2, <1>5 DEF update_user, Accounts
    <2>5. demoted' = (demoted \/ (a.role = Admin /\ c.role # Admin))
      BY <1>5 DEF update_user
    <2> HIDE DEF b
    <2>6. accounts' \in Accounts
      BY <1>2, <2>3, <2>4 DEF Accounts
    <2>7. \A u \in Staff : ~demoted' /\ AdminIn(accounts, u) => AdminIn(accounts', u)
      BY <1>1, <1>2, <2>3, <2>4, <2>5 DEF AdminIn, Accounts
    <2>8. demoted' \in BOOLEAN /\ (demoted => demoted')
      BY <2>5
    <2> QED
      BY <1>1, <1>3, <1>5, <2>6, <2>7, <2>8, HandledStep DEF update_user
  <1>6. CASE deactivate_user(i)
    <2> DEFINE b == [a EXCEPT !.active = FALSE]
    <2>1. a \in Account
      BY <1>2, <1>6 DEF deactivate_user, Known
    <2>2. b \in Account
      BY <2>1 DEF Account
    <2>3. accounts' = [accounts EXCEPT ![c.target] = b]
      BY <1>2, <1>6 DEF deactivate_user, Accounts
    <2> HIDE DEF b
    <2>4. accounts' \in Accounts
      BY <1>2, <2>2, <2>3 DEF Accounts
    <2>5. \A u \in Staff : AdminIn(accounts, u) => AdminIn(accounts', u) \/ u = c.target
      BY <1>1, <1>2, <2>3 DEF AdminIn, Accounts
    <2> QED
      BY <1>1, <1>3, <1>6, <2>4, <2>5, HandledStep DEF deactivate_user, Consistent, TypeOK
  <1>7. CASE reactivate_user(i)
    <2> DEFINE b == [a EXCEPT !.active = TRUE]
    <2>1. a \in Account
      BY <1>2, <1>7 DEF reactivate_user, Known
    <2>2. b \in Account /\ b.active /\ b.role = a.role
      BY <2>1 DEF Account
    <2>3. accounts' = [accounts EXCEPT ![c.target] = b]
      BY <1>2, <1>7 DEF reactivate_user, Accounts
    <2> HIDE DEF b
    <2>4. accounts' \in Accounts
      BY <1>2, <2>2, <2>3 DEF Accounts
    <2>5. \A u \in Staff : AdminIn(accounts, u) => AdminIn(accounts', u)
      BY <1>1, <1>2, <2>2, <2>3 DEF AdminIn, Accounts
    <2> QED
      BY <1>1, <1>3, <1>7, <2>4, <2>5, HandledStep DEF reactivate_user, Consistent, TypeOK
  <1>8. CASE reset_password(i)
    BY <1>1, <1>2, <1>3, <1>8, HandledStep DEF reset_password, Consistent, TypeOK
  <1>9. CASE Rejected(i)
    BY <1>1, <1>2, <1>9, HandledStep DEF Rejected, Consistent, TypeOK
  <1> QED
    BY <1>4, <1>5, <1>6, <1>7, <1>8, <1>9

-----------------------------------------------------------------------------
(* The answers.                                                            *)

\* What waited in change i waits no longer; c: what is left of the change.
LEMMA AnswerTyped ==
  ASSUME Consistent, NEW i \in Slots, NEW c,
         c = NoChange \/ (changes[i] \in Change /\ c = [changes[i] EXCEPT !.owner = None]),
         changes' = [changes EXCEPT ![i] = c]
  PROVE  /\ changes' \in [Slots -> Change \cup {NoChange}]
         /\ RolesGiven' /\ (UNCHANGED <<accounts, raced, demoted>> => Safe')
         /\ changes'[i].owner = "none"
         /\ \A j \in Slots \ {i} : changes'[j] = changes[j]
  <1>1. changes'[i] = c /\ \A j \in Slots \ {i} : changes'[j] = changes[j]
    BY DEF Consistent, TypeOK
  <1>2. \A j \in Slots : Fades(j)
    BY <1>1 DEF Fades
  <1>3. c.owner = "none"
    BY NoChangeIsNone DEF Change
  <1>4. c \in Change \cup {NoChange}
    BY DEF Change
  <1>5. changes' \in [Slots -> Change \cup {NoChange}]
    BY <1>4 DEF Consistent, TypeOK
  <1> QED
    BY <1>1, <1>2, <1>3, <1>5, FadingKeeps

LEMMA RowAnswered ==
  ASSUME Consistent, NEW i \in Slots, changes[i].owner = "row", NEW c,
         c = NoChange \/ (changes[i] \in Change /\ c = [changes[i] EXCEPT !.owner = None]),
         changes' = [changes EXCEPT ![i] = c],
         busyId' = None, UNCHANGED <<sent, accounts, page, table, dialog, raced, demoted>>,
         error' \in BOOLEAN, loads' \in [Loads -> Load \cup {NoLoad}],
         others' \in BOOLEAN, overlapped' \in BOOLEAN
  PROVE  Consistent'
  <1>1. /\ changes' \in [Slots -> Change \cup {NoChange}]
        /\ RolesGiven' /\ Safe'
        /\ changes'[i].owner = "none"
        /\ \A j \in Slots \ {i} : changes'[j] = changes[j]
    BY AnswerTyped
  <1>2. TypeOK'
    BY <1>1 DEF Consistent, TypeOK
  <1>3. \A j \in Slots : changes'[j].owner = "dialog" <=> changes[j].owner = "dialog"
    BY <1>1
  <1>4. DialogWaits'
    BY <1>1, <1>3 DEF Consistent, DialogWaits
  <1>5. BusyIsWaiting'
    BY <1>3 DEF Consistent, BusyIsWaiting
  <1> QED
    BY <1>1, <1>2, <1>4, <1>5 DEF Consistent, Safe

LEMMA DialogAnswered ==
  ASSUME Consistent, NEW i \in Slots, changes[i].owner = "dialog", NEW c,
         c = NoChange \/ (changes[i] \in Change /\ c = [changes[i] EXCEPT !.owner = None]),
         changes' = [changes EXCEPT ![i] = c],
         UNCHANGED <<sent, accounts, page, table, busyId, raced, demoted>>,
         dialog' \in Dialog \cup {NoDialog}, ~dialog'.busy,
         error' \in BOOLEAN, loads' \in [Loads -> Load \cup {NoLoad}],
         others' \in BOOLEAN, overlapped' \in BOOLEAN
  PROVE  Consistent'
  <1>1. /\ changes' \in [Slots -> Change \cup {NoChange}]
        /\ RolesGiven' /\ Safe'
        /\ changes'[i].owner = "none"
        /\ \A j \in Slots \ {i} : changes'[j] = changes[j]
    BY AnswerTyped
  <1>2. TypeOK'
    BY <1>1 DEF Consistent, TypeOK
  <1>3. \A j \in Slots : changes'[j].owner # "dialog"
    BY <1>1 DEF Consistent, DialogWaits
  <1>4. \A j \in Slots : changes'[j].owner = "row" <=> changes[j].owner = "row"
    BY <1>1
  <1>5. DialogWaits' /\ BusyIsWaiting'
    BY <1>3, <1>4 DEF Consistent, DialogWaits, BusyIsWaiting
  <1> QED
    BY <1>1, <1>2, <1>5 DEF Consistent, Safe

LEMMA LoadTyped ==
  ASSUME Consistent, NEW j \in Loads, load(j)
  PROVE  loads' \in [Loads -> Load \cup {NoLoad}] /\ error' \in BOOLEAN /\ overlapped' \in BOOLEAN
  <1>1. [step |-> "sent"] \in Load
    BY DEF Load
  <1>2. loads' \in [Loads -> Load \cup {NoLoad}]
    BY <1>1 DEF load, Consistent, TypeOK
  <1>3. overlapped' \in BOOLEAN
    BY DEF load
  <1> QED
    BY <1>2, <1>3 DEF load

\* The dialog a change waits for, no longer saving.
LEMMA DialogReleased ==
  ASSUME Consistent, NEW i \in Slots, changes[i].owner = "dialog"
  PROVE  /\ [dialog EXCEPT !.busy = FALSE] \in Dialog
         /\ ~ [dialog EXCEPT !.busy = FALSE].busy
         /\ changes[i].kind = "reset" => /\ [dialog EXCEPT !.done = TRUE, !.busy = FALSE] \in Dialog
                                         /\ ~ [dialog EXCEPT !.done = TRUE, !.busy = FALSE].busy
  <1>1. dialog.busy /\ dialog.kind = changes[i].kind
    BY DEF Consistent, DialogWaits
  <1>2. dialog \in Dialog
    BY <1>1, NoChangeIsNone DEF Consistent, TypeOK
  <1> QED
    BY <1>1, <1>2 DEF Dialog

LEMMA AnswerSteps ==
  ASSUME Consistent, NEW i \in Slots,
         \/ \E j \in Loads : ToggleDone(i, j) \/ DialogDone(i, j)
         \/ ToggleFails(i) \/ ResetDone(i) \/ DialogFails(i) \/ AnswerLost(i)
  PROVE  Consistent'
  <1> USE DEF history
  <1>1. /\ loads \in [Loads -> Load \cup {NoLoad}] /\ error \in BOOLEAN
        /\ others \in BOOLEAN /\ overlapped \in BOOLEAN
    BY DEF Consistent, TypeOK
  <1>2. ASSUME NEW j \in Loads, ToggleDone(i, j) PROVE Consistent'
    BY <1>1, <1>2, LoadTyped, RowAnswered DEF ToggleDone, Waits
  <1>3. CASE ToggleFails(i)
    BY <1>1, <1>3, RowAnswered DEF ToggleFails, Waits
  <1>4. ASSUME NEW j \in Loads, DialogDone(i, j) PROVE Consistent'
    <2>1. dialog' = NoDialog /\ ~NoDialog.busy /\ changes[i].owner = "dialog"
      BY <1>4, NoChangeIsNone DEF DialogDone, Waits
    <2> QED
      BY <1>1, <1>4, <2>1, LoadTyped, DialogAnswered DEF DialogDone
  <1>5. CASE ResetDone(i)
    BY <1>1, <1>5, DialogReleased, DialogAnswered DEF ResetDone, Waits
  <1>6. CASE DialogFails(i)
    BY <1>1, <1>6, DialogReleased, DialogAnswered DEF DialogFails, Waits
  <1>7. CASE AnswerLost(i)
    <2> DEFINE c == IF Over(changes[i]) THEN NoChange ELSE [changes[i] EXCEPT !.owner = None]
    <2>1. changes[i] \in Change
      BY <1>7, NoChangeIsNone DEF AnswerLost, Consistent, TypeOK
    <2>2. c = NoChange \/ (changes[i] \in Change /\ c = [changes[i] EXCEPT !.owner = None])
      BY <2>1
    <2>3. changes' = [changes EXCEPT ![i] = c] /\ others' \in BOOLEAN
          /\ UNCHANGED <<sent, accounts, page, table, loads, overlapped, raced, demoted>>
      BY <1>7 DEF AnswerLost, Consistent, TypeOK
    <2> HIDE DEF c
    <2>4. CASE changes[i].owner = "row"
      BY <1>1, <1>7, <2>2, <2>3, <2>4, RowAnswered DEF AnswerLost
    <2>5. CASE changes[i].owner = "dialog"
      <3>1. dialog' = [dialog EXCEPT !.busy = FALSE] /\ UNCHANGED <<error, busyId>>
        BY <1>7, <2>5 DEF AnswerLost
      <3>2. dialog' \in Dialog \cup {NoDialog} /\ ~dialog'.busy
        BY <2>5, <3>1, DialogReleased
      <3> QED
        BY <1>1, <2>2, <2>3, <2>5, <3>1, <3>2, DialogAnswered
    <2> QED
      BY <1>7, <2>4, <2>5 DEF AnswerLost
  <1> QED
    BY <1>2, <1>3, <1>4, <1>5, <1>6, <1>7

-----------------------------------------------------------------------------
LEMMA StepConsistent == Consistent /\ [Next]_vars => Consistent'
  <1> SUFFICES ASSUME Consistent, [Next]_vars PROVE Consistent'
    OBVIOUS
  <1>1. CASE UNCHANGED vars
    <2>1. UNCHANGED <<accounts, page, content, loads, changes, sent, history>>
      BY <1>1 DEF vars
    <2>2. TypeOK'
      BY <2>1 DEF Consistent, TypeOK, content, history
    <2> QED
      BY <2>1, <2>2, ChangesStay DEF Consistent, Safe, Waiting, content, history
  <1>2. CASE \E i \in Loads : OpenUsers(i) \/ Refresh(i) \/ list_users(i) \/ RowsArrive(i) \/ LoadFails(i)
    BY <1>2, LoadStep
  <1>3. CASE \/ LeaveUsers
             \/ SignOut
             \/ \E i \in Loads : LoadRefused(i)
             \/ \E i \in Slots : ChangeRefused(i)
    BY <1>3, UnmountStep DEF LeaveUsers, SignOut, LoadRefused, ChangeRefused, Unauthorized
  <1>4. CASE \/ OpenCreate
             \/ \E u \in Staff : OpenEdit(u) \/ OpenReset(u)
             \/ \E r \in Roles : ChooseRole(r)
             \/ CloseDialog
    BY <1>4, DialogStep
  <1>5. CASE \E u \in Staff, i \in Slots : toggleActive(u, i)
    BY <1>5, ToggleStep
  <1>6. CASE \E i \in Slots : \/ \E u \in Staff, r \in Roles : SubmitCreate(i, u, r)
                            \/ SubmitEdit(i)
                            \/ SubmitReset(i)
    BY <1>6, SubmitStep
  <1>7. CASE \E i \in Slots, kind \in {"create", "edit", "deactivate", "reactivate"},
               u \in Staff, target \in Staff, r \in Roles \cup {None} : OthersSend(i, kind, u, target, r)
    BY <1>7, OthersStep
  <1>8. CASE \E i \in Slots : require_roles(i)
    BY <1>8, CheckStep
  <1>9. CASE \E i \in Slots : \/ create_user(i) \/ update_user(i) \/ deactivate_user(i)
                            \/ reactivate_user(i) \/ reset_password(i) \/ Rejected(i)
    BY <1>9, HandlerSteps
  <1>10. CASE \E i \in Slots : \/ \E j \in Loads : ToggleDone(i, j) \/ DialogDone(i, j)
                             \/ ToggleFails(i) \/ ResetDone(i) \/ DialogFails(i) \/ AnswerLost(i)
    BY <1>10, AnswerSteps
  <1> QED
    BY <1>1, <1>2, <1>3, <1>4, <1>5, <1>6, <1>7, <1>8, <1>9, <1>10 DEF Next

\* Types, the dialog, the changes under way and the administrators hold
\* together in every reachable state: the inductive invariant.
THEOREM AlwaysConsistent == Spec => []Consistent
  BY InitConsistent, StepConsistent, PTL DEF Spec

\* Types of the accounts, the page and the requests, for all constants.
THEOREM AccountsTypeCorrect == Spec => []TypeOK
  <1>1. Consistent => TypeOK
    BY DEF Consistent
  <1> QED
    BY <1>1, AlwaysConsistent, PTL

\* Administrators who deactivate accounts, one past the check at a time, cannot
\* lock everybody out (auth_routes.py:94-105).
THEOREM AccountsStayAdministered == Spec => []SomebodyAdministers
  <1>1. Consistent => SomebodyAdministers
    BY DEF Consistent
  <1> QED
    BY <1>1, AlwaysConsistent, PTL

\* No dialog and no row of the page is busy for ever with nothing under way.
THEOREM NothingIsStuck == Spec => []BusyIsWaiting
  <1>1. Consistent => BusyIsWaiting
    BY DEF Consistent
  <1> QED
    BY <1>1, AlwaysConsistent, PTL

-----------------------------------------------------------------------------
(* The table.  What the page has no load under way for, it shows; what was    *)
(* committed since, it will load when the answer comes in.                    *)

\* A page that is not mounted has nothing and waits for nothing.
Closed ==
    page # "users" =>
        /\ table = NoTable /\ dialog = NoDialog
        /\ \A i \in Loads : loads[i] = NoLoad
        /\ \A i \in Slots : changes[i].owner = None

\* A change that was committed and whose answer will load the table.
Reported(i) ==
    /\ changes[i].owner \in {"row", "dialog"}
    /\ changes[i].step = "done" /\ changes[i].kind # "reset"

LoadComes == \E i \in Slots : Reported(i)

OneLoad == \A i, j \in Loads : loads[i] # NoLoad /\ loads[j] # NoLoad => i = j
RowsAreCurrent == \A i \in Loads : loads[i].step = "ok" => loads[i].rows = accounts
TableIsCurrent == table \in {NoTable, accounts} \/ error \/ \E i \in Loads : loads[i] # NoLoad

UpToDate ==
    \/ page # "users" \/ others \/ overlapped
    \/ OneLoad /\ (LoadComes \/ (RowsAreCurrent /\ TableIsCurrent))

Tabled == TypeOK /\ Closed /\ UpToDate

\* Nothing but changes moves on, and no report of one is lost.
LEMMA ReportsStay ==
  ASSUME Tabled, UNCHANGED <<accounts, page, table, loads, overlapped>>,
         error => error', others => others',
         \A i \in Slots : Reported(i) => Reported(i)' \/ others'
  PROVE  UpToDate'
  BY DEF Tabled, UpToDate, OneLoad, LoadComes, RowsAreCurrent, TableIsCurrent

\* A load that is asked for sees everything committed before.
LEMMA LoadCatchesUp ==
  ASSUME Tabled, NEW i \in Loads, load(i), UNCHANGED <<page, table>>, others => others'
  PROVE  UpToDate'
  <1>1. CASE \E j \in Loads : loads[j] # NoLoad
    BY <1>1 DEF load, UpToDate
  <1>2. CASE \A j \in Loads : loads[j] = NoLoad
    <2>1. \A j \in Loads : loads'[j] = IF j = i THEN [step |-> "sent"] ELSE NoLoad
      BY <1>2 DEF load, Tabled, TypeOK
    <2>2. loads'[i] # NoLoad /\ \A j \in Loads : loads'[j].step # "ok"
      BY <2>1, NoChangeIsNone
    <2> QED
      BY <2>1, <2>2 DEF UpToDate, OneLoad, RowsAreCurrent, TableIsCurrent
  <1> QED
    BY <1>1, <1>2

LEMMA LoadTabled ==
  ASSUME Tabled, NEW i \in Loads, OpenUsers(i) \/ Refresh(i) \/ list_users(i)
                                       \/ RowsArrive(i) \/ LoadFails(i)
  PROVE  Closed' /\ UpToDate'
  <1> USE DEF content, history
  <1>1. CASE OpenUsers(i)
    <2>1. \A j \in Loads : loads'[j] = IF j = i THEN [step |-> "sent"] ELSE NoLoad
      BY <1>1 DEF OpenUsers, Tabled, TypeOK, Closed
    <2>2. \A j \in Loads : loads'[j].step # "ok"
      BY <2>1, NoChangeIsNone
    <2>3. page' = "users" /\ table' = NoTable
      BY <1>1 DEF OpenUsers, Tabled, Closed
    <2> QED
      BY <2>1, <2>2, <2>3 DEF Closed, UpToDate, OneLoad, RowsAreCurrent, TableIsCurrent
  <1>2. CASE Refresh(i)
    BY <1>2, LoadCatchesUp DEF Refresh, Closed
  <1>3. CASE list_users(i)
    <2>1. /\ loads[i] # NoLoad /\ page = "users" /\ UNCHANGED <<accounts, page, content, changes, history>>
      BY <1>3, NoChangeIsNone DEF list_users, Tabled, Closed
    <2>2. \A j \in Loads \ {i} : loads'[j] = loads[j]
      BY <1>3 DEF list_users, Tabled, TypeOK
    <2>3. loads'[i] # NoLoad /\ (loads'[i].step = "ok" => loads'[i].rows = accounts)
      BY <1>3, NoChangeIsNone DEF list_users, Tabled, TypeOK
    <2> QED
      BY <2>1, <2>2, <2>3
      DEF Tabled, Closed, UpToDate, OneLoad, LoadComes, Reported, RowsAreCurrent, TableIsCurrent
  <1>4. CASE RowsArrive(i) \/ LoadFails(i)
    <2>1. /\ loads[i] # NoLoad /\ page = "users" /\ UNCHANGED <<accounts, page, changes, others, overlapped>>
          /\ \/ table' = loads[i].rows /\ loads[i].step = "ok"
             \/ error'
      BY <1>4, NoChangeIsNone DEF RowsArrive, LoadFails, Tabled, Closed
    <2>2. \A j \in Loads : loads'[j] = IF j = i THEN NoLoad ELSE loads[j]
      BY <1>4 DEF RowsArrive, LoadFails, Tabled, TypeOK
    <2>3. OneLoad => OneLoad'
      BY <2>2 DEF OneLoad
    <2>4. RowsAreCurrent => RowsAreCurrent'
      BY <2>1, <2>2, NoChangeIsNone DEF RowsAreCurrent
    <2>5. RowsAreCurrent => TableIsCurrent'
      BY <2>1 DEF RowsAreCurrent, TableIsCurrent
    <2> QED
      BY <2>1, <2>3, <2>4, <2>5 DEF Tabled, Closed, UpToDate, LoadComes, Reported
  <1> QED
    BY <1>1, <1>2, <1>3, <1>4

LEMMA UnmountTabled ==
  ASSUME Tabled, Unmounted, page' # "users"
  PROVE  Closed' /\ UpToDate'
  <1>1. \A i \in Slots : [changes[i] EXCEPT !.owner = None].owner = None
    <2> SUFFICES ASSUME NEW i \in Slots PROVE [changes[i] EXCEPT !.owner = None].owner = None
      OBVIOUS
    <2>1. changes[i] \in Change \/ changes[i] = NoChange
      BY DEF Tabled, TypeOK
    <2> QED
      BY <2>1 DEF Change, NoChange
  <1> QED
    BY <1>1, NoChangeIsNone DEF Unmounted, Closed, UpToDate

LEMMA SendTabled ==
  ASSUME Tabled, NEW i \in Slots, NEW kind, NEW u, NEW t, NEW r, NEW owner,
         Send(i, kind, u, t, r, owner), page # "users" => dialog' = dialog /\ owner = None,
         UNCHANGED <<accounts, page, table, error, loads, others, overlapped>>
  PROVE  Closed' /\ UpToDate'
  <1> DEFINE c == [kind |-> kind, by |-> u, target |-> t, role |-> r, owner |-> owner, step |-> "sent"]
  <1>1. changes[i] = NoChange /\ changes' = [changes EXCEPT ![i] = c] /\ c.owner = owner
    BY DEF Send
  <1> HIDE DEF c
  <1>2. \A j \in Slots : changes'[j] = IF j = i THEN c ELSE changes[j]
    BY <1>1 DEF Tabled, TypeOK
  <1>3. Closed'
    BY <1>1, <1>2 DEF Tabled, Closed
  <1>4. \A j \in Slots : Reported(j) => Reported(j)'
    BY <1>1, <1>2, NoChangeIsNone DEF Reported
  <1> QED
    BY <1>3, <1>4, ReportsStay

\* The user's clicks: all on the page.
LEMMA ClickTabled ==
  ASSUME Tabled,
         \/ OpenCreate \/ CloseDialog
         \/ \E u \in Staff : OpenEdit(u) \/ OpenReset(u)
         \/ \E r \in Roles : ChooseRole(r)
  PROVE  Closed' /\ UpToDate'
  <1> USE DEF history
  <1>1. /\ page = "users"
        /\ UNCHANGED <<accounts, page, table, error, loads, changes, history>>
    BY NoChangeIsNone DEF OpenCreate, CloseDialog, OpenEdit, OpenReset, ChooseRole, Listed, Tabled, Closed
  <1> QED
    BY <1>1, ReportsStay DEF Closed, Reported

LEMMA RequestTabled ==
  ASSUME Tabled, NEW i \in Slots,
         \/ \E u \in Staff : toggleActive(u, i)
         \/ \E u \in Staff, r \in Roles : SubmitCreate(i, u, r)
         \/ SubmitEdit(i) \/ SubmitReset(i)
         \/ \E kind \in {"create", "edit", "deactivate", "reactivate"},
               u \in Staff, target \in Staff, r \in Roles \cup {None} : OthersSend(i, kind, u, target, r)
  PROVE  Closed' /\ UpToDate'
  <1> USE DEF content, history
  <1>1. ASSUME NEW u \in Staff, toggleActive(u, i) PROVE Closed' /\ UpToDate'
    BY <1>1, SendTabled DEF toggleActive, Listed
  <1>2. CASE (\E u \in Staff, r \in Roles : SubmitCreate(i, u, r)) \/ SubmitEdit(i) \/ SubmitReset(i)
    <2>1. page = "users" /\ UNCHANGED <<accounts, page, table, error, loads, history>>
      BY <1>2, NoChangeIsNone DEF SubmitCreate, SubmitEdit, SubmitReset, Tabled, Closed
    <2>2. \E kind, u, t, r : Send(i, kind, u, t, r, "dialog")
      BY <1>2 DEF SubmitCreate, SubmitEdit, SubmitReset
    <2> QED
      BY <2>1, <2>2, SendTabled
  <1>3. ASSUME NEW kind \in {"create", "edit", "deactivate", "reactivate"},
               NEW u \in Staff, NEW t \in Staff, NEW r \in Roles \cup {None}, OthersSend(i, kind, u, t, r)
        PROVE  Closed' /\ UpToDate'
    BY <1>3, SendTabled DEF OthersSend
  <1> QED
    BY <1>1, <1>2, <1>3

\* What the answer to change i leaves of it.
LEMMA AnsweredTabled ==
  ASSUME Tabled, NEW i \in Slots, NEW step, changes[i] # NoChange, Answered(i, step)
  PROVE  /\ \A j \in Slots \ {i} : changes'[j] = changes[j]
         /\ changes'[i].owner = changes[i].owner
         /\ changes[i].owner # None => changes'[i].step = step /\ changes'[i].kind = changes[i].kind
         /\ UNCHANGED <<page, table, dialog, loads>> => Closed'
  <1> DEFINE c == [changes[i] EXCEPT !.step = step]
  <1>1. changes[i] \in Change
    BY DEF Tabled, TypeOK
  <1>2. c.owner = changes[i].owner /\ c.step = step /\ c.kind = changes[i].kind
    BY <1>1 DEF Change
  <1>3. changes' = [changes EXCEPT ![i] = IF changes[i].owner = None THEN NoChange ELSE c]
    BY DEF Answered, Tabled, TypeOK
  <1> HIDE DEF c
  <1>4. \A j \in Slots : changes'[j] = IF j # i THEN changes[j]
                                       ELSE IF changes[i].owner = None THEN NoChange ELSE c
    BY <1>3 DEF Tabled, TypeOK
  <1>5. \A j \in Slots : changes'[j].owner = changes[j].owner
    BY <1>2, <1>4, NoChangeIsNone
  <1> QED
    BY <1>2, <1>4, <1>5 DEF Tabled, Closed

LEMMA CheckTabled ==
  ASSUME Tabled, NEW i \in Slots, require_roles(i)
  PROVE  Closed' /\ UpToDate'
  <1> USE DEF content
  <1>1. /\ UNCHANGED <<accounts, page, content, loads, others, overlapped>>
        /\ changes[i].step = "sent" /\ changes[i] # NoChange
        /\ \/ changes' = [changes EXCEPT ![i].step = "allowed"]
           \/ Answered(i, "failed") \/ Answered(i, "refused")
    BY NoChangeIsNone DEF require_roles
  <1>2. Closed' /\ \A j \in Slots \ {i} : changes'[j] = changes[j]
    <2>1. CASE changes' = [changes EXCEPT ![i].step = "allowed"]
      <3>1. \A j \in Slots \ {i} : changes'[j] = changes[j]
        BY <2>1 DEF Tabled, TypeOK
      <3>2. changes[i] \in Change
        BY <1>1 DEF Tabled, TypeOK
      <3>3. changes'[i].owner = changes[i].owner
        BY <2>1, <3>2 DEF Tabled, TypeOK, Change
      <3> QED
        BY <1>1, <3>1, <3>3 DEF Tabled, Closed
    <2>2. CASE Answered(i, "failed") \/ Answered(i, "refused")
      BY <1>1, <2>2, AnsweredTabled
    <2> QED
      BY <1>1, <2>1, <2>2
  <1>3. \A j \in Slots : Reported(j) => Reported(j)'
    BY <1>1, <1>2 DEF Reported
  <1> QED
    BY <1>1, <1>2, <1>3, ReportsStay

\* What a route commits is reported to the page, or counted among the others.
LEMMA RouteTabled ==
  ASSUME Tabled, NEW i \in Slots,
         \/ create_user(i) \/ update_user(i) \/ deactivate_user(i) \/ reactivate_user(i)
         \/ reset_password(i) \/ Rejected(i)
  PROVE  Closed' /\ UpToDate'
  <1> USE DEF content, history
  <1>1. /\ UNCHANGED <<page, content, loads, overlapped>> /\ (others => others')
        /\ changes[i].step = "allowed" /\ changes[i] # NoChange
    <2>1. changes[i].step = "allowed"
      BY DEF create_user, update_user, deactivate_user, reactivate_user, reset_password, Rejected, Handling
    <2>2. UNCHANGED <<page, content, loads, overlapped>>
      BY DEF create_user, update_user, deactivate_user, reactivate_user, reset_password, Rejected
    <2>3. Done(i) \/ others' = others
      BY DEF create_user, update_user, deactivate_user, reactivate_user, reset_password, Rejected
    <2>4. others => others'
      BY <2>3 DEF Done
    <2> QED
      BY <2>1, <2>2, <2>4, NoChangeIsNone
  <1>2. changes[i].owner \in {"row", "dialog", "none"}
    BY <1>1, NoChangeIsNone DEF Tabled, TypeOK, Change
  <1>3. \A j \in Slots : Reported(j) => j # i
    BY <1>1 DEF Reported
  <1>4. CASE reset_password(i) \/ Rejected(i)
    <2>1. UNCHANGED accounts /\ (Answered(i, "done") \/ Answered(i, "failed"))
      BY <1>4 DEF reset_password, Rejected, Done
    <2>2. Closed' /\ \A j \in Slots \ {i} : changes'[j] = changes[j]
      BY <1>1, <2>1, AnsweredTabled
    <2>3. \A j \in Slots : Reported(j) => Reported(j)'
      BY <1>3, <2>2 DEF Reported
    <2> QED
      BY <1>1, <2>1, <2>2, <2>3, ReportsStay
  <1>5. CASE create_user(i) \/ update_user(i) \/ deactivate_user(i) \/ reactivate_user(i)
    <2>1. Done(i) /\ changes[i].kind # "reset"
      BY <1>5 DEF create_user, update_user, deactivate_user, reactivate_user, Handling
    <2>2. /\ Closed' /\ changes'[i].owner = changes[i].owner
          /\ changes[i].owner # None => changes'[i].step = "done" /\ changes'[i].kind = changes[i].kind
      BY <1>1, <2>1, AnsweredTabled DEF Done
    <2>3. others' \/ Reported(i)'
      BY <1>2, <2>1, <2>2, NoChangeIsNone DEF Done, Reported
    <2> QED
      BY <1>1, <2>2, <2>3 DEF Tabled, UpToDate, OneLoad, LoadComes
  <1> QED
    BY <1>4, <1>5

LEMMA AnswerTabled ==
  ASSUME Tabled, NEW i \in Slots,
         \/ \E j \in Loads : ToggleDone(i, j) \/ DialogDone(i, j)
         \/ ToggleFails(i) \/ ResetDone(i) \/ DialogFails(i) \/ AnswerLost(i)
  PROVE  Closed' /\ UpToDate'
  <1> USE DEF history
  <1>1. page = "users" /\ UNCHANGED <<page, accounts, table>> /\ (others => others')
    <2>1. changes[i].owner \in {"row", "dialog"}
      BY DEF ToggleDone, DialogDone, ToggleFails, ResetDone, DialogFails, AnswerLost, Waits
    <2>2. UNCHANGED <<page, accounts, table>>
      BY DEF ToggleDone, DialogDone, ToggleFails, ResetDone, DialogFails, AnswerLost
    <2>3. others' = others \/ others' = (others \/ changes[i].step = "done")
      BY DEF ToggleDone, DialogDone, ToggleFails, ResetDone, DialogFails, AnswerLost
    <2>4. page = "users"
      BY <2>1, NoChangeIsNone DEF Tabled, Closed
    <2>5. others => others'
      BY <2>3, Zenon
    <2> QED
      BY <2>2, <2>4, <2>5
  <1>2. Closed'
    BY <1>1 DEF Closed
  <1>3. CASE \E j \in Loads : ToggleDone(i, j) \/ DialogDone(i, j)
    BY <1>1, <1>2, <1>3, LoadCatchesUp DEF ToggleDone, DialogDone
  <1>4. CASE ToggleFails(i) \/ ResetDone(i) \/ DialogFails(i) \/ AnswerLost(i)
    <2>1. \A j \in Slots \ {i} : changes'[j] = changes[j]
      <3>1. \E c : changes' = [changes EXCEPT ![i] = c]
        <4>1. CASE AnswerLost(i)
          BY <4>1 DEF AnswerLost
        <4>2. CASE ToggleFails(i) \/ ResetDone(i) \/ DialogFails(i)
          BY <4>2 DEF ToggleFails, ResetDone, DialogFails
        <4> QED
          BY <1>4, <4>1, <4>2
      <3> QED
        BY <3>1 DEF Tabled, TypeOK
    <2>2. Reported(i) => others'
      BY <1>4 DEF ToggleFails, ResetDone, DialogFails, AnswerLost, Waits, Reported
    <2>3. UNCHANGED <<loads, overlapped>> /\ (error => error')
      BY <1>4 DEF ToggleFails, ResetDone, DialogFails, AnswerLost
    <2> QED
      BY <1>1, <1>2, <2>1, <2>2, <2>3, ReportsStay DEF Reported
  <1> QED
    BY <1>3, <1>4

LEMMA StepTabled == Tabled /\ TypeOK' /\ [Next]_vars => Tabled'
  <1> SUFFICES ASSUME Tabled, [Next]_vars PROVE Closed' /\ UpToDate'
    BY DEF Tabled
  <1>1. CASE UNCHANGED vars
    BY <1>1, ReportsStay DEF Tabled, Closed, Reported, vars, content, history
  <1>2. CASE \E i \in Loads : OpenUsers(i) \/ Refresh(i) \/ list_users(i) \/ RowsArrive(i) \/ LoadFails(i)
    BY <1>2, LoadTabled
  <1>3. CASE \/ LeaveUsers
             \/ SignOut
             \/ \E i \in Loads : LoadRefused(i)
             \/ \E i \in Slots : ChangeRefused(i)
    BY <1>3, UnmountTabled DEF LeaveUsers, SignOut, LoadRefused, ChangeRefused, Unauthorized
  <1>4. CASE \/ OpenCreate \/ CloseDialog
             \/ \E u \in Staff : OpenEdit(u) \/ OpenReset(u)
             \/ \E r \in Roles : ChooseRole(r)
    BY <1>4, ClickTabled
  <1>5. CASE \E i \in Slots :
               \/ \E u \in Staff : toggleActive(u, i)
               \/ \E u \in Staff, r \in Roles : SubmitCreate(i, u, r)
               \/ SubmitEdit(i) \/ SubmitReset(i)
               \/ \E kind \in {"create", "edit", "deactivate", "reactivate"},
                     u \in Staff, target \in Staff, r \in Roles \cup {None} : OthersSend(i, kind, u, target, r)
    BY <1>5, RequestTabled
  <1>6. CASE \E i \in Slots : require_roles(i)
    BY <1>6, CheckTabled
  <1>7. CASE \E i \in Slots : \/ create_user(i) \/ update_user(i) \/ deactivate_user(i)
                            \/ reactivate_user(i) \/ reset_password(i) \/ Rejected(i)
    BY <1>7, RouteTabled
  <1>8. CASE \E i \in Slots : \/ \E j \in Loads : ToggleDone(i, j) \/ DialogDone(i, j)
                            \/ ToggleFails(i) \/ ResetDone(i) \/ DialogFails(i) \/ AnswerLost(i)
    BY <1>8, AnswerTabled
  <1> QED
    BY <1>1, <1>2, <1>3, <1>4, <1>5, <1>6, <1>7, <1>8 DEF Next

\* Once everything is answered the table shows every change the administrator made,
\* whatever was refused, lost or left in between (user-management-page.tsx:206).
THEOREM TableCatchesUp == Spec => []TableShowsWhatWasDone
  <1>1. Init => Tabled
    BY InitConsistent, NoChangeIsNone DEF Consistent, Init, Tabled, Closed, UpToDate
  <1>2. Tabled => TableShowsWhatWasDone
    <2> SUFFICES ASSUME Tabled, page = "users", table # NoTable, ~error, ~others, ~overlapped,
                        \A i \in Loads : loads[i] = NoLoad,
                        \A i \in Slots : changes[i].owner \notin {"row", "dialog"}
                 PROVE  table = accounts
      BY DEF TableShowsWhatWasDone
    <2> QED
      BY DEF Tabled, UpToDate, LoadComes, Reported, TableIsCurrent
  <1> QED
    BY <1>1, <1>2, StepTabled, AccountsTypeCorrect, PTL DEF Spec
=============================================================================
