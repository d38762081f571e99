\* Two accounts in one browser: a tab, and what the browser's other tabs do to the cookie
\* and the flag. The page may be loaded again once, the server issues three tokens.
CONSTANTS
    Users = {alice, bob}
    Tabs = {t1}
    MaxGen = 3
    MaxLoads = 1
    None = None
    alice = alice  bob = bob  t1 = t1
SPECIFICATION Spec

INVARIANT SignedInAsShown
INVARIANT HearsOwnNotices
PROPERTY LoadingEnds
