SPECIFICATION Spec
SYMMETRY Interchangeable
CONSTANTS
    Requests = {r1, r2}
    Users = {owner, guest}
    Owner = owner
    Plans = {k1, k2}
    Slots = {s1, s2}
    MaxRetries = 0
    RowShapes = {"worker", "dataclass"}
    NoRequest = NoRequest
INVARIANTS
    TypeOK
    OnlyOwnerSchedules
    ScheduledHasTask
    PlanMatchesDecision
    SinglePlan
    NeverApprovedRow
    DeployedNothingScheduled
PROPERTY
    ImplementsHumanGate
CHECK_DEADLOCK FALSE
