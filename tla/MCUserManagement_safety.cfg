\* The administrator of the page and one more account; two changes and two loads under way.
SPECIFICATION Spec
CONSTANTS
    Staff = {"me", "other"}
    Me = "me"
    Roles = {"ADMIN", "ANALYST"}
    Admin = "ADMIN"
    Readers = {"ADMIN"}
    Slots = {s1, s2}
    Loads = {l1, l2}
    MaxChanges = 2
SYMMETRY Symmetry
\* A tab that is signed out stays so, and the administrators can lock themselves out.
CHECK_DEADLOCK FALSE
INVARIANTS SomebodyAdministers TableShowsWhatWasDone
