SPECIFICATION Spec
CONSTANTS
    Checks = {c1, c2, c3}
    Errors = {e1, e2}
    Nil = Nil
INVARIANT ReadyInvariant
INVARIANT ReadyIffAllUp
INVARIANT NoGoroutineLeft
PROPERTY Answers
