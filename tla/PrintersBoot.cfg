SPECIFICATION BootSpec
CONSTANTS
    u1 = u1  u2 = u2  u3 = u3
    Users = {u1, u2, u3}
    N = 1
    JobLen = 2
    MaxKills = 1
    MaxStarts = 2
SYMMETRY Symmetry
INVARIANTS BootTypeOK OwnedUnlessOvertaken
CHECK_DEADLOCK FALSE
