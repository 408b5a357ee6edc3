CONSTANTS
    Attempt = {a1, a2}
    None = None
    MaxSessions = 2
    MaxGen = 2
    MaxTree = 1
    MaxFaults = 1
SPECIFICATION Spec
INVARIANTS
    CompletionIsOfItsGeneration
\* The last session may be closed, or its user may never answer.
CHECK_DEADLOCK FALSE
