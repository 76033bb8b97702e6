SPECIFICATION Spec
CONSTANTS
    Calls = {c1, c2}
    NumEmails = 1
    Tokens = {t1}
    Drivers = {TRUE, FALSE}
    Nobody = Nobody
INVARIANT
    TokenSingleUse
CHECK_DEADLOCK FALSE
