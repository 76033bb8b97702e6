SPECIFICATION FairSpec
CONSTANTS
    Posts = {p1}
    MaxDeliveries = 2
    MaxRetries = 1
    MaxLosses = 1
    RowStatuses = {{"approved", "scheduled"}, {"scheduled"}}
INVARIANTS
    TypeOK
    FreshApproval
    BoundedPublications
    AnalyticsFollowPosts
PROPERTY
    DeliveriesEnd
CHECK_DEADLOCK FALSE
