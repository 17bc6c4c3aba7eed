SPECIFICATION FairSpec
CONSTANTS
    alice = alice  bob = bob  carol = carol
    Clients = {alice, bob}
    Slots = 2
    MaxCmds = 2
    MaxVanish = 1
    Coalesce = TRUE
INVARIANT ListedAreServed
PROPERTY StopUnlists
CHECK_DEADLOCK FALSE
