SPECIFICATION Spec
CONSTANTS
    Posts = {p1}
    MaxDeliveries = 2
    MaxRetries = 1
    MaxLosses = 1
    RowStatuses = {{"approved", "scheduled"}, {"scheduled"}}
PROPERTY
    StatusRecorded
CHECK_DEADLOCK FALSE
