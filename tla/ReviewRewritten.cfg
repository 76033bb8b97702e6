SPECIFICATION Spec
CONSTANTS
    Requests = {r1, r2}
    Users = {owner, guest}
    Owner = owner
    Plans = {k1, k2}
    Slots = {s1}
    MaxRetries = 0
    RowShapes = {"worker"}
    NoRequest = NoRequest
PROPERTY
    NoWriteAfterDecision
CHECK_DEADLOCK FALSE
