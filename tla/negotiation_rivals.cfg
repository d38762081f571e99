\* Two workers and the expiry task overlap on two rival requests; no
\* counter-offers; processes may die.
CONSTANTS
    u1 = u1  u2 = u2
    a1 = a1  a2 = a2  b1 = b1
    w1 = w1  w2 = w2
    x1 = x1  x2 = x2
    Users <- TwoUsers
    Books <- ThreeBooks
    Shelf <- ThreeBookShelf
    Exchanges = {x1, x2}
    Workers = {w1, w2}
    MaxCounters = 0
    SwapTypes = {FALSE}
    Serial = FALSE
    Crashes = TRUE
    None = None
SPECIFICATION NegotiationSpec
SYMMETRY Symmetry
INVARIANT OnePendingRequest
