\* Two connections of one party under a limit of one, and a request of the other; one
\* slot may be lost.
CONSTANTS
    c1 = c1  c2 = c2
    Conns <- TwoConns
    Requests = {post}
    MAX_WS_CONNECTIONS_PER_USER = 1
    MaxLeaks = 1
    None = None
SPECIFICATION Spec
SYMMETRY Symmetry

INVARIANT CounterMatches
INVARIANT MessagesStop
