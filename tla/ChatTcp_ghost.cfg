SPECIFICATION Spec
CONSTANTS
    alice = alice  bob = bob  carol = carol
    Clients = {alice, bob}
    Slots = 2
    MaxCmds = 2
    MaxVanish = 0
    Coalesce = FALSE
INVARIANT RemovedIsUnlisted
CHECK_DEADLOCK FALSE
