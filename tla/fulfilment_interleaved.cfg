\* Two workers and the tasks overlap on one exchange; processes may die.
CONSTANTS
    u1 = u1  u2 = u2
    a1 = a1  b1 = b1
    w1 = w1  w2 = w2
    Users <- TwoUsers
    Books <- TwoBooks
    Shelf <- TwoBookShelf
    Exchanges = {x1}
    Workers = {w1, w2}
    MaxCounters = 0
    SwapTypes = {TRUE, FALSE}
    Serial = FALSE
    Crashes = TRUE
    None = None
SPECIFICATION FulfilmentSpec
CHECK_DEADLOCK FALSE
SYMMETRY Symmetry
INVARIANT ActiveNeedsBothConditions
INVARIANT SwappedNeedsBothConfirmations
PROPERTY ConfirmationsKept
PROPERTY OwnershipMovesBySwap
INVARIANT FulfilmentOffered
