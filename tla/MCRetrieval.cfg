\* Two walks, one publication and two changes at the provider.
SPECIFICATION Spec
CONSTANTS
    None = None
    ForeignCursor = ForeignCursor
    w1 = w1
    w2 = w2
    r1 = r1
    a = a
    b = b
    c = c
    d = d
    e = e
    f = f
    g = g
    demoPost = demoPost
    limitedPost = limitedPost
    otherPost = otherPost
    noPost = noPost
    repliesToA = repliesToA
    repliesToG = repliesToG
    Walks = {w1, w2}
    Publications = {r1}
    Comments = {a, b, c, d, e, f, g}
    Threads = {demoPost, limitedPost, otherPost, noPost, repliesToA, repliesToG}
    PlatformOf <- ThePlatforms
    ParentOf <- TheParents
    Seeds <- TheSeeds
    ReplyOf <- TheReplies
    Capabilities <- TheCapabilities
    ProviderFailures <- Failures
    EarlierRows <- Earlier
    Changing = {a}
    MaxChanges = 2
CHECK_DEADLOCK FALSE
SYMMETRY Symmetry
\* without histories of requests that are over, which nothing reads
VIEW View
INVARIANTS
    TypeOK
    WalkIsComplete
    QuietWalkConverges
PROPERTIES
    NothingTakenBack
