SPECIFICATION FairSpec
CONSTANTS
    Hashes = {h1, h2, h3}
    Passing = {h1, h2}
    NoHash = NoHash
    CacheCapacity = 2
    Ttl = 2
    HashBuffer = 1
    OutputBuffer = 1
    MaxDoublings = 2
    MaxDelay = 3
INVARIANT TypeOK
PROPERTIES
    NoReadmission
    StreamResumes
    MissedIsRetried
