SPECIFICATION MCSpec
CONSTANTS
    c1 = c1  c2 = c2  c3 = c3  c4 = c4
    Children = {c1, c2, c3, c4}
    s1 = s1  s2 = s2  s3 = s3
    Senders = {s1, s2, s3}
    m1 = m1  m2 = m2  m3 = m3
    Managers = {m1, m2, m3}
    MaxKilled = 2
    BUFFER_SIZE = 3
    MaxLength = 8
    Span = 10
    MaxWidth = 4
    MaxProcesses = 4
    Half = 128
    MaxArgument = 15
    MaxIters = {0, 1, 2, 3, 30}
    MaxSteps = 60
INVARIANTS TypesOK RequestsAccounted ParentKnows SumRight ResultsDealt CopyBackwards LateCount
PROPERTIES SignalsHeard CallersReturn
CHECK_DEADLOCK FALSE
