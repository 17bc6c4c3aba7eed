SPECIFICATION FairSpec
CONSTANTS
    u1 = u1  u2 = u2
    Users = {u1, u2}
    N = 2
    JobLen = 2
    MaxKills = 1
INVARIANTS OneOwner LineIntact
PROPERTIES ImplementsFairService PrinterReturns
CHECK_DEADLOCK FALSE
