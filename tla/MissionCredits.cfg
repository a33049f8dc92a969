\* A balance of three, missions of one and three credits, a top-up of two.
SPECIFICATION FairSpec
CHECK_DEADLOCK FALSE
CONSTANTS
    api = api
    served = served
    license = license
    mcu = mcu
    Api = {api}
    Served = {served}
    Caller = {c1, c2}
    GrantKey = {license}
    ChargeKey = {mcu}
    Price <- MCPrice
    Opening = 3
    Nobody = nobody
    MaxCalls = 3
    MaxFaults = 2
INVARIANTS
    TypeOK
    OpenIsPaid
    FailureIsPaidBack
PROPERTIES
    ImplementsLedger
    MissionSettles
