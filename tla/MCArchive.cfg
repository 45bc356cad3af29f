CONSTANTS
    r1 = r1
    r2 = r2
    r3 = r3
    Requests <- MCRequestPair
    MaxDamage = 2
    PublishIds <- MCPublishIds

SPECIFICATION FairSpec
INVARIANT TypeOK
PROPERTY CacheRepaired
