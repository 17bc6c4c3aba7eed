SPECIFICATION Spec
CONSTANTS
    alice = alice  bob = bob  carol = carol
    Clients = {alice, bob, carol}
    Slots = 2
    Lines <- ChatLines
    MaxEvents = 2
SYMMETRY Symmetry
INVARIANTS RegistryFaithful ListedByLast SentRight UpUnlessUnparsed
PROPERTY ImplementsRegistry
CHECK_DEADLOCK FALSE
