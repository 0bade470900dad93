SPECIFICATION Spec
CONSTANTS
    here = here there = there
    Instances = {here, there}
    Switchers = {here}
    x1 = x1
    d1 = d1
    Items = {x1, d1}
    Decisions = {d1}
    Ends = {"archived"}
    MaxFailures = 1
    MaxResets = 1
    HalfSwitches = FALSE
CHECK_DEADLOCK FALSE
INVARIANTS ResetIsSafe MigrationLosesNothing IndexIsOfDatabase
