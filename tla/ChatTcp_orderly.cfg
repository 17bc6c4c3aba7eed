SPECIFICATION Spec
CONSTANTS
    alice = alice  bob = bob  carol = carol
    Clients = {alice, bob, carol}
    Slots = 2
    MaxCmds = 1
    MaxVanish = 0
    Coalesce = TRUE
SYMMETRY Symmetry
INVARIANTS RegistryFaithful ListedOnce DeliveredRight
CHECK_DEADLOCK FALSE
