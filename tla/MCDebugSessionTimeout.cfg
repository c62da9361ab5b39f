SPECIFICATION Spec
CONSTANTS
    Tasks = {a}
    Calls = {"halt", "reset_run"}
    Configs <- DefaultConfig
    MaxCalls = 3
    NoTask = NoTask
INVARIANTS TimeoutIsHonest
CHECK_DEADLOCK FALSE
