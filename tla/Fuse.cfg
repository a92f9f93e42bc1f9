CONSTANTS
    Handles = {h1, h2}
    Paths = {a, b}
    Budgets <- FuseBudgets
SPECIFICATION Spec
SYMMETRY Symmetry
INVARIANTS
    OverwriteOnlyInWindow
    DrainedMeansStored
CHECK_DEADLOCK FALSE
