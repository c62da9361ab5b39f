SPECIFICATION Spec
CONSTANTS
    Missing = Missing
    Requests <- ServiceRequests
    Snapshots <- CoreSnapshots
    MaxFaultBits = 3
    MaxTyped = 5
    Heads <- MCHeads
    Texts <- MCTexts
    Names <- MCNames
    MaxEntries = 3
    MaxLevels = 4
    Servers = {p1, p2}
    Events = {e1, e2, e3, e4}
    MaxTorn = 2
    Targets = {board, emulator}
    Owners = {alice, bob}
    LockIds = {l1, l2, l3}
    TTLs = {0, 1, 2}
    LastSecond = 4
    NoLock = NoLock
INVARIANTS AllowedByTheRules RegistryMatchesEngine FaultIsNamed
           OnlyImpreciseIsMisread ReadsTheGrammar RenderedIsRead
           TornLosesOnlyTheEnd IntactLogReadsBack CrashCostsOneEvent
           OneLiveOwner LiveLeaseIsListed
PROPERTY AuthorityIsMonotone
CHECK_DEADLOCK FALSE
