CONSTANTS
    Reqs = {r1, r2, r3}
    Uuids = {u1, u2}
    MaxSeq = 2

SPECIFICATION Spec
\* Requests are never reused, so once every request is answered only the
\* other process taking and releasing the lock remains.
PROPERTY WellFormedDeliveriesStored
