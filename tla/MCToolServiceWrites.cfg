SPECIFICATION Spec
CONSTANTS
    Callers = {c1}
    s1 = s1
    SessionIds = {s1}
    Requests <- WriteRequests
    Configs <- AuditedConfigs
    MaxSessions = 1
    MaxToolCalls = 2
    MaxSessionOps = 1
    NoSession = NoSession
    NoToken = NoToken
    NoRequest = NoRequest
    NoRecord = NoRecord
    Tokens = {t1}
    Operations <- DebugOperation
    Fingerprints <- MCFingerprints
    TTL = 1
    MaxClock = 0
INVARIANTS WritesStayInRange
