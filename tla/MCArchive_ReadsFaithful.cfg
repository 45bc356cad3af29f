CONSTANTS
    r1 = r1
    r2 = r2
    r3 = r3
    Requests <- MCRequests
    MaxDamage = 2
    PublishIds <- MCPublishIds

SYMMETRY RequestSymmetry
SPECIFICATION Spec

INVARIANT ReadsFaithful
