SPECIFICATION FairSpec
CONSTANTS
    Calls = {c1, c2, c3}
    Roots = {r1}
    UserRow = UserRow
    Nobody = Nobody
INVARIANTS
    TypeOK
    RotationAtomic
    SuccessorsOverlap
    FailedRotationKeepsToken
PROPERTY
    CallsEnd
CHECK_DEADLOCK FALSE
