SPECIFICATION Spec
CONSTANTS
    MaxAttempts = 3
    MaxChanges = 1
INVARIANTS
    DryRunOnlyPrepares
    AtMostOnce
    SuccessMeansDone
    KeepsExisting
