\* Every case of both clients, two calls of the mutation, one account that logs
\* out and in again once, one restart. OwnDataOnly is proved for any accounts.
CONSTANTS
    Users = {alice}
    Calls = {c1, c2}
    Cases <- ClientCases
    MaxLogouts = 1
    MaxRestarts = 1
    None = None
    alice = alice  c1 = c1  c2 = c2
SPECIFICATION Spec
\* A user who stays logged out may never come back.
CHECK_DEADLOCK FALSE

INVARIANT StaleIsFlagged
INVARIANT OwnDataOnly
PROPERTY ShownIsRefreshed
