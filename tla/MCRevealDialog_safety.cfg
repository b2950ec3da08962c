\* Two entities, two users, answers that come after their dialog was closed and opened again,
\* and another tab that signs out and in.
SPECIFICATION Spec
CONSTANTS
    p = p
    q = q
    first = first
    second = second
    Entities = {p, q}
    Cases = {"A"}
    Users = {"reviewer", "analyst"}
    ClaimedIn <- MCClaimedIn
    Authorized <- MCAuthorized
    Officers = {"reviewer"}
    Slots = {first, second}
    MaxTimers = 1
SYMMETRY Alike
INVARIANTS PlaintextWasAudited PlaintextIsOfTheSession ReasonIsForTheEntity DialogShowsItsTarget
