SPECIFICATION FairSpec
CONSTANTS
    Requests = {}
    Users = {owner, guest}
    Owner = owner
    Plans = {k1, k2}
    Slots = {s1}
    MaxRetries = 2
    RowShapes = {"worker"}
    NoRequest = NoRequest
PROPERTY
    GenerationEnds
CHECK_DEADLOCK FALSE
