--------------------------- MODULE UserManagement ---------------------------
(***************************************************************************)
(* The accounts: features/admin/user-management-page.tsx with its table    *)
(* and three dialogs, as one administrator uses it, services/api/          *)
(* usersApi.ts, lib/permissions.ts, and the routes of auth_routes.py that  *)
(* read and write the accounts, which other administrators call as well.   *)
(*                                                                         *)
(* The server checks who asks first and commits later; two requests may    *)
(* both be between the two.  Names, jurisdictions and passwords are left   *)
(* out: a role is what an edit changes.                                    *)
(***************************************************************************)
EXTENDS Integers, FiniteSets

CONSTANTS
    Staff,              \* who has an account or may get one
    Me,                 \* whose browser the page is in
    Roles, Admin,
    Readers,            \* roles that may list the accounts
    Slots,              \* bound: changes under way, of everybody
    Loads,              \* bound: loads of the table under way
    MaxChanges          \* bound: changes asked for

None == "none"

ASSUME AccountConstants ==
    /\ Me \in Staff /\ None \notin Staff
    /\ Admin \in Readers /\ Readers \subseteq Roles
    /\ MaxChanges \in Nat

Account == [role : Roles, active : BOOLEAN]
Absent == [role |-> None, active |-> FALSE]
Accounts == [Staff -> Account \cup {Absent}]
NoTable == [u \in {} |-> Absent]

Dialog == [kind : {"create"}, busy : BOOLEAN]
          \cup [kind : {"edit"}, target : Staff, role : Roles, busy : BOOLEAN]
          \cup [kind : {"reset"}, target : Staff, done : BOOLEAN, busy : BOOLEAN]
NoDialog == [kind |-> None, busy |-> FALSE]

\* owner: what waits for the answer, a row's button, a dialog, or nothing here.
Change == [kind : {"create", "edit", "deactivate", "reactivate", "reset"}, by : Staff, target : Staff,
           role : Roles \cup {None}, owner : {"row", "dialog", None},
           step : {"sent", "allowed", "done", "failed", "refused"}]
NoChange == [kind |-> None, owner |-> None, step |-> None]

Load == [step : {"sent", "failed", "refused"}] \cup [step : {"ok"}, rows : Accounts]
NoLoad == [step |-> None]

VARIABLES
    accounts,                                   \* the server's table
    page,                                       \* route
    table, error, busyId, dialog,               \* state of UserManagementContent
    loads, changes,
    sent,               \* changes asked for so far
    others,             \* history: since the page opened, a change was committed that it was not told of
    overlapped,         \* history: since the page opened, two loads of the table were under way
    raced, demoted      \* history: two deactivations were past their check; an administrator's role was changed

content == <<table, error, busyId, dialog>>
history == <<others, overlapped, raced, demoted>>
vars == <<accounts, page, content, loads, changes, sent, history>>

Init ==
    /\ accounts \in {a \in Accounts : a[Me] = [role |-> Admin, active |-> TRUE]}
    /\ page = "home"
    /\ table = NoTable /\ error = FALSE /\ busyId = None /\ dialog = NoDialog
    /\ loads = [i \in Loads |-> NoLoad]
    /\ changes = [i \in Slots |-> NoChange] /\ sent = 0
    /\ others = FALSE /\ overlapped = FALSE /\ raced = FALSE /\ demoted = FALSE

-----------------------------------------------------------------------------
(* The page and its table.                                                 *)

IsAdmin(u) == accounts[u].active /\ accounts[u].role = Admin

\* The server handled it, one way or the other.
Over(c) == c.step \in {"done", "failed", "refused"}

Unmounted ==
    /\ table' = NoTable /\ error' = FALSE /\ busyId' = None /\ dialog' = NoDialog
    /\ loads' = [i \in Loads |-> NoLoad]
    /\ changes' = [i \in Slots |-> IF Over(changes[i]) THEN NoChange ELSE [changes[i] EXCEPT !.owner = None]]

\* A 401 to any request of the tab: the sign-in page is loaded (module Sessions).
Unauthorized ==
    /\ page' = "login"
    /\ Unmounted
    /\ UNCHANGED <<sent, accounts, history>>

\* load(), as the last call of a handler; i: a free place.
load(i) ==
    /\ loads[i] = NoLoad
    /\ loads' = [loads EXCEPT ![i] = [step |-> "sent"]]
    /\ error' = FALSE
    /\ overlapped' = (overlapped \/ \E j \in Loads : loads[j] # NoLoad)

\* /admin/users: the role of the auth store decides, the administrator's at sign-in.
OpenUsers(i) ==
    /\ page = "home"
    /\ page' = "users"
    /\ loads[i] = NoLoad
    /\ loads' = [loads EXCEPT ![i] = [step |-> "sent"]]
    /\ others' = FALSE /\ overlapped' = FALSE
    /\ UNCHANGED <<sent, accounts, content, changes, raced, demoted>>

\* A 401 to another request of the tab, "Sign out", or a page load.
SignOut == page # "login" /\ Unauthorized

\* The content unmounts; its answers find nobody.
LeaveUsers ==
    /\ page = "users"
    /\ page' = "home"
    /\ Unmounted
    /\ UNCHANGED <<sent, accounts, history>>

Refresh(i) ==
    /\ page = "users" /\ dialog = NoDialog
    /\ load(i)
    /\ UNCHANGED <<sent, accounts, page, table, busyId, dialog, changes, others, raced, demoted>>

list_users(i) ==
    /\ loads[i].step = "sent"
    /\ loads' = [loads EXCEPT ![i] =
           IF ~accounts[Me].active THEN [step |-> "refused"]
           ELSE IF accounts[Me].role \notin Readers THEN [step |-> "failed"]
           ELSE [step |-> "ok", rows |-> accounts]]
    /\ UNCHANGED <<sent, accounts, page, content, changes, history>>

\* setUsers of whichever load answers.
RowsArrive(i) ==
    /\ loads[i].step = "ok"
    /\ table' = loads[i].rows
    /\ loads' = [loads EXCEPT ![i] = NoLoad]
    /\ UNCHANGED <<sent, accounts, page, error, busyId, dialog, changes, history>>

\* A 403, or a request that did not complete.
LoadFails(i) ==
    /\ loads[i] # NoLoad
    /\ error' = TRUE
    /\ loads' = [loads EXCEPT ![i] = NoLoad]
    /\ UNCHANGED <<sent, accounts, page, table, busyId, dialog, changes, history>>

LoadRefused(i) == loads[i].step = "refused" /\ Unauthorized

-----------------------------------------------------------------------------
(* What the administrator does.                                            *)

Listed(u) == page = "users" /\ dialog = NoDialog /\ u \in DOMAIN table /\ table[u] # Absent

\* A request in place i.
Send(i, kind, u, target, r, owner) ==
    /\ changes[i] = NoChange
    /\ sent < MaxChanges
    /\ sent' = sent + 1
    /\ changes' = [changes EXCEPT ![i] = [kind |-> kind, by |-> u, target |-> target, role |-> r,
                                          owner |-> owner, step |-> "sent"]]

\* The button of a row, which says what the row shows; not for the own active account.
toggleActive(u, i) ==
    /\ Listed(u) /\ busyId # u
    /\ ~(table[u].active /\ u = Me)
    /\ busyId' = u
    /\ Send(i, IF table[u].active THEN "deactivate" ELSE "reactivate", Me, u, None, "row")
    /\ UNCHANGED <<accounts, page, table, error, dialog, loads, history>>

OpenCreate ==
    /\ page = "users" /\ dialog = NoDialog
    /\ dialog' = [kind |-> "create", busy |-> FALSE]
    /\ UNCHANGED <<sent, accounts, page, table, error, busyId, loads, changes, history>>

\* The form starts with what the row shows.
OpenEdit(u) ==
    /\ Listed(u)
    /\ dialog' = [kind |-> "edit", target |-> u, role |-> table[u].role, busy |-> FALSE]
    /\ UNCHANGED <<sent, accounts, page, table, error, busyId, loads, changes, history>>

ChooseRole(r) ==
    /\ dialog.kind = "edit" /\ ~dialog.busy
    /\ dialog' = [dialog EXCEPT !.role = r]
    /\ UNCHANGED <<sent, accounts, page, table, error, busyId, loads, changes, history>>

OpenReset(u) ==
    /\ Listed(u)
    /\ dialog' = [kind |-> "reset", target |-> u, done |-> FALSE, busy |-> FALSE]
    /\ UNCHANGED <<sent, accounts, page, table, error, busyId, loads, changes, history>>

\* "Cancel", "Done", Escape: not while the request is under way.
CloseDialog ==
    /\ dialog # NoDialog /\ ~dialog.busy
    /\ dialog' = NoDialog
    /\ UNCHANGED <<sent, accounts, page, table, error, busyId, loads, changes, history>>

SubmitCreate(i, u, r) ==
    /\ dialog.kind = "create" /\ ~dialog.busy
    /\ dialog' = [dialog EXCEPT !.busy = TRUE]
    /\ Send(i, "create", Me, u, r, "dialog")
    /\ UNCHANGED <<accounts, page, table, error, busyId, loads, history>>

\* All fields are sent, the ones that were left alone too.
SubmitEdit(i) ==
    /\ dialog.kind = "edit" /\ ~dialog.busy
    /\ dialog' = [dialog EXCEPT !.busy = TRUE]
    /\ Send(i, "edit", Me, dialog.target, dialog.role, "dialog")
    /\ UNCHANGED <<accounts, page, table, error, busyId, loads, history>>

SubmitReset(i) ==
    /\ dialog.kind = "reset" /\ ~dialog.busy /\ ~dialog.done
    /\ dialog' = [dialog EXCEPT !.busy = TRUE]
    /\ Send(i, "reset", Me, dialog.target, None, "dialog")
    /\ UNCHANGED <<accounts, page, table, error, busyId, loads, history>>

\* Another administrator; by the time it is handled the sender may be none any more.
OthersSend(i, kind, u, target, r) ==
    /\ u # Me /\ IsAdmin(u)
    /\ r = None <=> kind \notin {"create", "edit"}
    /\ Send(i, kind, u, target, r, None)
    /\ UNCHANGED <<accounts, page, content, loads, history>>

-----------------------------------------------------------------------------
(* The routes.                                                             *)

\* The answer, or nothing if nobody waits for it.
Answered(i, step) ==
    changes' = [changes EXCEPT ![i] = IF @.owner = None THEN NoChange ELSE [@ EXCEPT !.step = step]]

\* Faulty variant: an administrator may deactivate the own account.
Permitted_OwnToo(c) == accounts[c.by].role = Admin

\* require_roles("ADMIN"), and the first lines of deactivate_user.
Permitted(c) == accounts[c.by].role = Admin /\ ~(c.kind = "deactivate" /\ c.target = c.by)

\* A handler past its check.
Handling(i, kind) == changes[i].kind = kind /\ changes[i].step = "allowed"

require_roles(i) ==
    /\ changes[i].step = "sent"
    /\ LET c == changes[i]
           passed == accounts[c.by].active /\ Permitted(c)
       IN /\ IF passed THEN changes' = [changes EXCEPT ![i].step = "allowed"]
             ELSE Answered(i, IF accounts[c.by].active THEN "failed" ELSE "refused")
          /\ raced' = (raced \/ (passed /\ c.kind = "deactivate" /\ \E j \in Slots : Handling(j, "deactivate")))
    /\ UNCHANGED <<sent, accounts, page, content, loads, others, overlapped, demoted>>

Known(i) == accounts[changes[i].target] # Absent

Done(i) ==
    /\ Answered(i, "done")
    /\ others' = (others \/ changes[i].owner = None)

\* 409: the name is taken.
create_user(i) ==
    /\ Handling(i, "create") /\ ~Known(i)
    /\ accounts' = [accounts EXCEPT ![changes[i].target] = [role |-> changes[i].role, active |-> TRUE]]
    /\ Done(i)
    /\ UNCHANGED <<sent, page, content, loads, overlapped, raced, demoted>>

\* The own account's role included.
update_user(i) ==
    /\ Handling(i, "edit") /\ Known(i)
    /\ LET c == changes[i]
       IN /\ accounts' = [accounts EXCEPT ![c.target].role = c.role]
          /\ demoted' = (demoted \/ (accounts[c.target].role = Admin /\ c.role # Admin))
    /\ Done(i)
    /\ UNCHANGED <<sent, page, content, loads, overlapped, raced>>

deactivate_user(i) ==
    /\ Handling(i, "deactivate") /\ Known(i)
    /\ accounts' = [accounts EXCEPT ![changes[i].target].active = FALSE]
    /\ Done(i)
    /\ UNCHANGED <<sent, page, content, loads, overlapped, raced, demoted>>

reactivate_user(i) ==
    /\ Handling(i, "reactivate") /\ Known(i)
    /\ accounts' = [accounts EXCEPT ![changes[i].target].active = TRUE]
    /\ Done(i)
    /\ UNCHANGED <<sent, page, content, loads, overlapped, raced, demoted>>

\* Of the next sign-in; tokens issued before stay valid.
reset_password(i) ==
    /\ Handling(i, "reset") /\ Known(i)
    /\ Done(i)
    /\ UNCHANGED <<sent, accounts, page, content, loads, overlapped, raced, demoted>>

\* 409 and 404.
Rejected(i) ==
    /\ changes[i].step = "allowed"
    /\ (changes[i].kind = "create") = Known(i)
    /\ Answered(i, "failed")
    /\ UNCHANGED <<sent, accounts, page, content, loads, history>>

-----------------------------------------------------------------------------
(* The answers, in this page.                                              *)

Waits(i, owner, steps) == changes[i].owner = owner /\ changes[i].step \in steps

\* Faulty variant: the table is left as it was.
ToggleDone_NoLoad(i, j) ==
    /\ Waits(i, "row", {"done"})
    /\ busyId' = None
    /\ changes' = [changes EXCEPT ![i] = NoChange]
    /\ UNCHANGED <<sent, accounts, page, table, error, dialog, loads, history>>

ToggleDone(i, j) ==
    /\ Waits(i, "row", {"done"})
    /\ load(j)
    /\ busyId' = None
    /\ changes' = [changes EXCEPT ![i] = NoChange]
    /\ UNCHANGED <<sent, accounts, page, table, dialog, others, raced, demoted>>

ToggleFails(i) ==
    /\ Waits(i, "row", {"failed"})
    /\ error' = TRUE /\ busyId' = None
    /\ changes' = [changes EXCEPT ![i] = NoChange]
    /\ UNCHANGED <<sent, accounts, page, table, dialog, loads, history>>

\* onCreated, onSaved: the table is loaded, the dialog closes.
DialogDone(i, j) ==
    /\ Waits(i, "dialog", {"done"}) /\ changes[i].kind # "reset"
    /\ load(j)
    /\ dialog' = NoDialog
    /\ changes' = [changes EXCEPT ![i] = NoChange]
    /\ UNCHANGED <<sent, accounts, page, table, busyId, others, raced, demoted>>

\* "Password updated."
ResetDone(i) ==
    /\ Waits(i, "dialog", {"done"}) /\ changes[i].kind = "reset"
    /\ dialog' = [dialog EXCEPT !.done = TRUE, !.busy = FALSE]
    /\ changes' = [changes EXCEPT ![i] = NoChange]
    /\ UNCHANGED <<sent, accounts, page, table, error, busyId, loads, history>>

\* The dialog stays, with the reason.
DialogFails(i) ==
    /\ Waits(i, "dialog", {"failed"})
    /\ dialog' = [dialog EXCEPT !.busy = FALSE]
    /\ changes' = [changes EXCEPT ![i] = NoChange]
    /\ UNCHANGED <<sent, accounts, page, table, error, busyId, loads, history>>

\* The connection fails; the server may have the request, or have handled it.
AnswerLost(i) ==
    /\ changes[i].owner \in {"row", "dialog"}
    /\ IF changes[i].owner = "row"
       THEN error' = TRUE /\ busyId' = None /\ UNCHANGED dialog
       ELSE dialog' = [dialog EXCEPT !.busy = FALSE] /\ UNCHANGED <<error, busyId>>
    /\ changes' = [changes EXCEPT ![i] = IF Over(@) THEN NoChange ELSE [@ EXCEPT !.owner = None]]
    /\ others' = (others \/ changes[i].step = "done")
    /\ UNCHANGED <<sent, accounts, page, table, loads, overlapped, raced, demoted>>

ChangeRefused(i) == changes[i].step = "refused" /\ Unauthorized

Next ==
    \/ \E i \in Loads : OpenUsers(i)
    \/ LeaveUsers
    \/ SignOut
    \/ \E i \in Loads : Refresh(i)
    \/ \E i \in Loads : list_users(i)
    \/ \E i \in Loads : RowsArrive(i)
    \/ \E i \in Loads : LoadFails(i)
    \/ \E i \in Loads : LoadRefused(i)
    \/ \E u \in Staff, i \in Slots : toggleActive(u, i)
    \/ OpenCreate
    \/ \E u \in Staff : OpenEdit(u)
    \/ \E r \in Roles : ChooseRole(r)
    \/ \E u \in Staff : OpenReset(u)
    \/ CloseDialog
    \/ \E i \in Slots, u \in Staff, r \in Roles : SubmitCreate(i, u, r)
    \/ \E i \in Slots : SubmitEdit(i)
    \/ \E i \in Slots : SubmitReset(i)
    \/ \E i \in Slots, kind \in {"create", "edit", "deactivate", "reactivate"},
          u \in Staff, target \in Staff, r \in Roles \cup {None} : OthersSend(i, kind, u, target, r)
    \/ \E i \in Slots : require_roles(i)
    \/ \E i \in Slots : create_user(i)
    \/ \E i \in Slots : update_user(i)
    \/ \E i \in Slots : deactivate_user(i)
    \/ \E i \in Slots : reactivate_user(i)
    \/ \E i \in Slots : reset_password(i)
    \/ \E i \in Slots : Rejected(i)
    \/ \E i \in Slots, j \in Loads : ToggleDone(i, j)
    \/ \E i \in Slots : ToggleFails(i)
    \/ \E i \in Slots, j \in Loads : DialogDone(i, j)
    \/ \E i \in Slots : ResetDone(i)
    \/ \E i \in Slots : DialogFails(i)
    \/ \E i \in Slots : AnswerLost(i)
    \/ \E i \in Slots : ChangeRefused(i)

Spec == Init /\ [][Next]_vars

-----------------------------------------------------------------------------
(* Type invariant.                                                         *)
TypeOK ==
    /\ accounts \in Accounts
    /\ page \in {"login", "home", "users"}
    /\ table \in Accounts \cup {NoTable}
    /\ error \in BOOLEAN
    /\ busyId \in Staff \cup {None}
    /\ dialog \in Dialog \cup {NoDialog}
    /\ loads \in [Loads -> Load \cup {NoLoad}]
    /\ changes \in [Slots -> Change \cup {NoChange}]
    /\ sent \in Nat
    /\ others \in BOOLEAN /\ overlapped \in BOOLEAN
    /\ raced \in BOOLEAN /\ demoted \in BOOLEAN

\* "Prevents an admin from locking themselves out; the only way back in would be
\* direct DB access" (auth_routes.py:97): somebody can administer the accounts,
\* as long as no administrator's role was changed and no two deactivations were
\* past their checks at once, which the code does not guard against.
SomebodyAdministers ==
    \/ raced \/ demoted
    \/ \E u \in Staff : IsAdmin(u)

\* Once its requests are answered the table shows what the administrator did: each
\* change that succeeds is followed by a load that sees it.  Excepted are changes
\* the page was not told of, and loads that overtook one another.
TableShowsWhatWasDone ==
    \/ page # "users" \/ table = NoTable \/ error
    \/ \E i \in Loads : loads[i] # NoLoad
    \/ \E i \in Slots : changes[i].owner \in {"row", "dialog"}
    \/ others \/ overlapped
    \/ table = accounts

\* A dialog that is saving, and a button that is disabled for its row, wait for a
\* request of their own: neither is stuck.
BusyIsWaiting ==
    /\ dialog.busy => \E i \in Slots : changes[i].owner = "dialog"
    /\ busyId # None => \E i \in Slots : changes[i].owner = "row"
=============================================================================
