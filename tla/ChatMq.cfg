SPECIFICATION FairSpec
CONSTANTS
    c1 = c1  c2 = c2  c3 = c3
    Clients = {c1, c2, c3}
    QLen = 2
    MaxMsgs = 2
    MaxKills = 1
    MaxRestarts = 1
INVARIANTS DeliveredExactly SameOrder
PROPERTY ServerReturns
CHECK_DEADLOCK FALSE
