SPECIFICATION Spec
CONSTANTS
    Letters = {"a", "b"}
    MaxLen = 4
    Arity = 2
INVARIANTS
    MatchIsDenotation
    BuildMakesKey
\* an input has Arity paths: nothing is drawn after the last one
CHECK_DEADLOCK FALSE
