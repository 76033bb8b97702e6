SPECIFICATION Spec
CONSTANTS
    Runs = {r1, r2}
    Platforms = {"instagram", "tiktok", "x"}
    ThreadLength = 2
    MaxRetries = 1
SYMMETRY RunSymmetry
INVARIANTS
    TypeOK
    PublishedWhenApproved
    SettledIsFinal
    PublishedIsWhole
    RowRefreshable
    DisconnectIsFinal
CHECK_DEADLOCK FALSE
