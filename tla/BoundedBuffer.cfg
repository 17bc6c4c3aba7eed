SPECIFICATION FairSpec
CONSTANTS
    p1 = p1  p2 = p2  c1 = c1  c2 = c2
    Producers = {p1, p2}
    Consumers = {c1, c2}
    BufferSize = 3
    MaxItems = 3
INVARIANTS SlotsAccounted CursorsAgree
PROPERTIES ImplementsFairFifo Termination
