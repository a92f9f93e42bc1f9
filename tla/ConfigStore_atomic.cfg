CONSTANTS
    Commands = {1, 2}
    Profiles = {"default", "work"}
SPECIFICATION Spec
INVARIANT StoredTogether
CHECK_DEADLOCK FALSE
