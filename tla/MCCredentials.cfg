\* One account, a user or an operator.  Two handlers overlap in every order; the
\* tokens allow a login, its refresh and one more, and the passwords two
\* changes after the first.
CONSTANTS
    Accounts = {a1}
    Tokens = {t1, t2, t3}
    Links = {l1}
    Requests = {r1, r2}
    NoAccount = NoAccount
    NoToken = NoToken
    NoLink = NoLink
    MaxPasswords = 3
SYMMETRY Symmetry
\* Once the account is deleted and its sessions have expired nothing is left.
CHECK_DEADLOCK FALSE
SPECIFICATION Spec
INVARIANTS
    OldSessionsEnd
    DeletedStaysLocked
    LinkWorksOnce
PROPERTY
    NoResurrection
