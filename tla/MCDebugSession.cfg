SPECIFICATION FairSpec
CONSTANTS
    Tasks = {a, b}
    Calls = {"halt", "resume", "resume_unattended", "step_instruction",
             "reset_halt", "reset_run", "compare_write", "debug_snapshot",
             "disconnect_target"}
    Configs <- EveryConfig
    MaxCalls = 3
    NoTask = NoTask
INVARIANTS TypeOK HaltedIsHonest OperationIsUndisturbed
PROPERTIES ContractSpec ExchangeSpec StopsAreShownInOrder EveryOperationEnds
CHECK_DEADLOCK FALSE
