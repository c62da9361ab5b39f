SPECIFICATION PromptSpec
CONSTANTS
    Tasks = {a}
    Calls = {"resume"}
    Configs <- DefaultConfig
    MaxCalls = 2
    NoTask = NoTask
PROPERTIES ResumeIsBounded
CHECK_DEADLOCK FALSE
