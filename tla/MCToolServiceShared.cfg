SPECIFICATION Spec
CONSTANTS
    Callers = {c1, c2, c3}
    s1 = s1
    SessionIds = {s1}
    Requests <- SharedRequests
    Configs <- SharedConfigs
    MaxSessions = 2
    MaxToolCalls = 2
    MaxSessionOps = 2
    NoSession = NoSession
    NoToken = NoToken
    NoRequest = NoRequest
    NoRecord = NoRecord
    Tokens = {t1}
    Operations <- DebugOperation
    Fingerprints <- MCFingerprints
    TTL = 1
    MaxClock = 0
SYMMETRY Symmetric
INVARIANTS TypeOK SlotAccounting UnregisteredIsDown
PROPERTIES DisconnectedIsFinal SessionsMoveLegally
