\* An account on the native gateway with two parents, one on a gateway without
\* idempotency, and one key that both use.
SPECIFICATION StoreSpec
CONSTANTS
    None = None
    r1 = r1
    r2 = r2
    r3 = r3
    k1 = k1
    hello = hello
    bye = bye
    p1 = p1
    p2 = p2
    p3 = p3
    post1 = post1
    post2 = post2
    post3 = post3
    acme = acme
    beta = beta
    gamma = gamma
    Requests = {r1, r2, r3}
    Keys = {k1}
    Contents = {hello}
    Parents = {p1, p2, p3}
    Posts = {post1, post2}
    Accounts = {acme, beta}
    PostOf <- ThreeParentsPost
    AccountOf <- TwoAccounts
    Publication <- NativeAndNone
    ProviderFailures = {"PLATFORM_TIMEOUT", "PLATFORM_RESOURCE_NOT_FOUND"}
    Spellings = {"canonical"}
    Edits = FALSE
SYMMETRY Symmetry
\* heard is a history: no guard and no invariant reads it.
VIEW vars
INVARIANTS
    TypeOK
    ConflictOnlyOnReuse
    CreatedOnce
    PublishedOwnsItsRow
    PublishedOnOwnAccount
    AnsweredSuccessIsPublished
    CallersKeepToTheContract
PROPERTIES
    ImplementsLedger
    AwaitsAreCalls
