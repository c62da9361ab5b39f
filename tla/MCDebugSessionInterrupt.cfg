SPECIFICATION Spec
CONSTANTS
    Tasks = {a}
    Calls = {"resume"}
    Configs <- DefaultConfig
    MaxCalls = 2
    NoTask = NoTask
PROPERTIES InterruptFailureIsUnknown
CHECK_DEADLOCK FALSE
