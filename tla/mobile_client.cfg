\* Two accounts on one device; a screen, getMe and a drain call at once; the
\* app is killed once.
CONSTANTS
    alice = alice  bob = bob
    m1 = m1  m2 = m2  d1 = d1  d2 = d2
    Users <- TwoUsers
    Mutations = {m1}
    Drains = {d1}
    Screens = {screen}
    Me = me
    MaxGen = 3
    MaxRetries429 = 0
    MaxRetries = 2
    MaxOutages = 1
    MaxKills = 1
    None = None
SPECIFICATION Spec
SYMMETRY Symmetry
\* The bounds MaxGen and MaxOutages run out.
CHECK_DEADLOCK FALSE

INVARIANT RefreshPresentedOnce
INVARIANT OneAccountAtATime
INVARIANT ActsForItsUser
