\* One request or task at a time, the whole life of two exchanges with
\* counter-offers.
CONSTANTS
    u1 = u1  u2 = u2
    a1 = a1  a2 = a2  b1 = b1
    x1 = x1  x2 = x2
    Users <- TwoUsers
    Books <- ThreeBooks
    Shelf <- ThreeBookShelf
    Exchanges = {x1, x2}
    Workers = {w1}
    MaxCounters = 1
    SwapTypes = {FALSE}
    Serial = TRUE
    Crashes = FALSE
    None = None
SPECIFICATION Spec
SYMMETRY Symmetry
INVARIANT TypeOK
INVARIANT LockedBooksAccountedFor
INVARIANT HeldBooksLocked
INVARIANT ApprovedByOther
INVARIANT BlockedPairsApart
INVARIANT ReturnedByBoth
INVARIANT SwapCountBounded
PROPERTY LifecycleSpec
