SPECIFICATION FairSpec
CONSTANTS
    Calls = {c1, c2, c3}
    NumEmails = 2
    Tokens = {t1}
    Drivers = {TRUE, FALSE}
    Nobody = Nobody
INVARIANTS
    TypeOK
    WithdrawalHeeded
    SentWasMailed
    OneUnsubscribePerDeadlock
PROPERTY
    CallsEnd
CHECK_DEADLOCK FALSE
