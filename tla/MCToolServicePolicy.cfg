SPECIFICATION Spec
CONSTANTS
    Callers = {c1, c2}
    s1 = s1
    SessionIds = {s1, s2, s3}
    Requests <- PolicyRequests
    Configs <- PolicyConfigs
    MaxSessions = 1
    MaxToolCalls = 1
    MaxSessionOps = 1
    NoSession = NoSession
    NoToken = NoToken
    NoRequest = NoRequest
    NoRecord = NoRecord
    Tokens = {t1, t2}
    Operations <- DebugOperation
    Fingerprints <- MCFingerprints
    TTL = 1
    MaxClock = 0
SYMMETRY Symmetric
INVARIANTS ReadonlyIsInert InFlightKeepsRules RefusalIsNeeded SessionOvershoot
