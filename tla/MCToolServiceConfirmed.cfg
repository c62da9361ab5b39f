SPECIFICATION Spec
CONSTANTS
    Callers = {c1, c2}
    s1 = s1
    SessionIds = {s1}
    Requests <- ConfirmedRequests
    Configs <- ConfirmedConfigs
    MaxSessions = 1
    MaxToolCalls = 2
    MaxSessionOps = 1
    NoSession = NoSession
    NoToken = NoToken
    NoRequest = NoRequest
    NoRecord = NoRecord
    Tokens = {t1, t2, t3}
    Operations <- DebugOperation
    Fingerprints <- MCFingerprints
    TTL = 1
    MaxClock = 2
SYMMETRY Symmetric
INVARIANTS ExclusiveUse InFlightIsAuthorized SingleUse TriedIsGone UsedAsIssued
PROPERTIES StoreSpec
