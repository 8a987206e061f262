\* violated: an identical retry of a published operation is called a conflict.
SPECIFICATION Spec
CONSTANTS
    None = None
    r1 = r1
    r2 = r2
    r3 = r3
    k1 = k1
    hello = hello
    bye = bye
    p1 = p1
    p2 = p2
    p3 = p3
    post1 = post1
    post2 = post2
    post3 = post3
    acme = acme
    beta = beta
    gamma = gamma
    Requests = {r1, r2}
    Keys = {k1}
    Contents = {hello, bye}
    Parents = {p1}
    Posts = {post1}
    Accounts = {acme}
    PostOf <- OneParentPost
    AccountOf <- OneAccount
    Publication <- AcmeNative
    ProviderFailures = {}
    Spellings = {"canonical"}
    Edits = TRUE
INVARIANTS
    PublishedIsReplayed
