\* Fair instances of a branch's, a current and an older, edited image, on histories of
\* every shape; each may fail, die or lose its session anywhere.
SPECIFICATION FairSpec
CONSTANTS
    None = None
    Unverified = Unverified
    m1 = m1
    m2 = m2
    m3 = m3
    original = original
    edited = edited
    Names = {1, 2, 3}
    Versions = {original, edited}
    Runners = {m1, m2, m3}
    Directory <- ThreeImages
    Histories <- AnyHistory
INVARIANTS
    TypeOK
    AppliedInOrder
    HistoryIsTrue
    NoRivalRunner
    SuccessMeansCurrent
PROPERTIES
    EveryRunEnds
    UnverifiableIsLeftAlone
    NeverBehindHistory
