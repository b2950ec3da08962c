\* Two tabs of one browser, two accounts.
SPECIFICATION SessionSpec
CONSTANTS
    Users = {u1, u2}
    Tabs = {t1, t2}
INVARIANTS IdentityIsTheTokens DataIsOfTheUser
PROPERTIES OnlyTheServerEndsASession
