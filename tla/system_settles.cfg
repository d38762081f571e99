\* A worker and the tasks overlap on the whole life of one exchange; nothing
\* crashes.
CONSTANTS
    u1 = u1  u2 = u2
    a1 = a1  a2 = a2  b1 = b1
    x1 = x1  x2 = x2
    Users <- TwoUsers
    Books <- TwoBooks
    Shelf <- TwoBookShelf
    Exchanges = {x1}
    Workers = {w1}
    MaxCounters = 0
    SwapTypes = {TRUE}
    Serial = FALSE
    Crashes = FALSE
    None = None
SPECIFICATION FairSpec
PROPERTY RequestsSettle
PROPERTY ConditionsSettle
PROPERTY SwapsSettle
