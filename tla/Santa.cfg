SPECIFICATION FairSpec
CONSTANTS
    R = 4
    Cycles = 3
    Prompt = TRUE
    MaxSpurious = 1
INVARIANTS AllBackUnlessSpurious GatesHeld CountMatches
PROPERTY Termination
