\* Three calls of any methods, two keys, comments of two accounts.
SPECIFICATION Spec
CONSTANTS
    None = None
    c1 = c1
    c2 = c2
    c3 = c3
    acme = acme
    beta = beta
    k1 = k1
    k2 = k2
    claim1 = claim1
    claim2 = claim2
    x1 = x1
    x2 = x2
    x3 = x3
    stale = stale
    fresh = fresh
    Calls = {c1, c2, c3}
    Accounts = {acme, beta}
    Keys = {k1, k2}
    Claims = {claim1, claim2}
    Comments = {x1, x2, x3}
    Contents = {stale, fresh}
    AccountOf <- TwoAccounts
    Work <- AllWork
    Histories <- Earlier
SYMMETRY Symmetry
INVARIANTS
    TypeOK
    BeginNeverCollides
    VersionTellsContent
    NoStandstill
    OnlyWaitsStop
PROPERTIES
    ImplementsAtomicStore
