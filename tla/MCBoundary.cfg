\* Every typed failure, edits, a gateway that cannot publish, a platform without
\* one, and the responses a client gets.  The system stops when all are served.
SPECIFICATION HttpSpec
CHECK_DEADLOCK FALSE
CONSTANTS
    None = None
    r1 = r1
    r2 = r2
    r3 = r3
    k1 = k1
    hello = hello
    bye = bye
    p1 = p1
    p2 = p2
    p3 = p3
    post1 = post1
    post2 = post2
    post3 = post3
    acme = acme
    beta = beta
    gamma = gamma
    Requests = {r1, r2}
    Keys = {k1}
    Contents = {hello, bye}
    Parents = {p1, p2, p3}
    Posts = {post1, post2, post3}
    Accounts = {acme, beta, gamma}
    PostOf <- ThreePosts
    AccountOf <- ThreeAccounts
    Publication <- NativeAndUnpublishable
    ProviderFailures = {"PLATFORM_RATE_LIMITED", "PLATFORM_TIMEOUT", "PLATFORM_UNAVAILABLE", "PLATFORM_AUTHENTICATION_FAILED", "PLATFORM_PERMISSION_DENIED", "PLATFORM_RESOURCE_NOT_FOUND", "PLATFORM_VALIDATION_FAILED", "PLATFORM_OPERATION_UNSUPPORTED", "PLATFORM_CURSOR_INVALID"}
    Spellings = {"canonical"}
    Edits = TRUE
SYMMETRY Symmetry
INVARIANTS
    HttpTypeOK
    SchemaConstraints
    DoubtIsTold
