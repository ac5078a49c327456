SPECIFICATION Spec
CONSTANTS
    Workers = 1
    Writers = {w1}
    Closers = {c1}
    MaxStarts = 2
INVARIANT RestartSurvives
