SPECIFICATION FairSpec
CONSTANTS
    Width = 3
    Height = 3
    N = 2
    First <- Patterns
    Prompt = TRUE
INVARIANTS NoClash ThreadsAgree
PROPERTIES EveryThreadWorks ImplementsGenerations
