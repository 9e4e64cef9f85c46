SPECIFICATION Spec
CONSTANTS
    Steps = {s1, s2}
    MaxAttempts = 2
    MaxRequests = 3
    NotFoundIsFinal = TRUE
SYMMETRY StepSymmetry
INVARIANTS
    OneLiveEffect
    SettledStepsAreTrue
    SubmissionsWithinBudget
PROPERTIES
    SubmitOnlyWhileRunning
CHECK_DEADLOCK FALSE
