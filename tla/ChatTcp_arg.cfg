SPECIFICATION Spec
CONSTANTS
    alice = alice  bob = bob  carol = carol
    Clients = {alice, bob}
    Slots = 2
    MaxCmds = 1
    MaxVanish = 0
    Coalesce = FALSE
INVARIANT OneHandlerEach
CHECK_DEADLOCK FALSE
