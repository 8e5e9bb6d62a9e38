\* The breaker's announced transitions, with two concurrent callers.
CONSTANTS
    Callers = {c1, c2}
    Threshold = 2
    Cooldown = 1
    MaxCalls = 3
SPECIFICATION Spec
PROPERTY LegalTransitions
