\* Two queued mutations, two outages, so two drains may overlap; the app is
\* killed once.
CONSTANTS
    alice = alice  bob = bob
    m1 = m1  m2 = m2  d1 = d1  d2 = d2
    Users = {alice}
    Mutations <- TwoMutations
    Drains <- TwoDrains
    Screens = {}
    Me = me
    MaxGen = 1
    MaxRetries429 = 1
    MaxRetries = 2
    MaxOutages = 3
    MaxKills = 1
    None = None
SPECIFICATION Spec
SYMMETRY Symmetry
\* The bounds MaxGen and MaxOutages run out.
CHECK_DEADLOCK FALSE

INVARIANT NothingVanishes
INVARIANT FailuresBounded
