---------------------------- MODULE ToolService ----------------------------
(***************************************************************************)
(* The tool service of mcp_server/service.py with the session manager, the *)
(* resource limits, the policy engine and the confirmation store it calls. *)
(*                                                                         *)
(* The server is one asyncio event loop.  A tool call is a task, and what  *)
(* it does between two awaits that suspend is one step here.  The locks of *)
(* the service are never held across a suspension, so policy evaluation,   *)
(* session lookup and slot reservation are one step; so are the release of *)
(* the slot and the audit record when the awaited session call ends.       *)
(*                                                                         *)
(* Requests are [op, session, body]: body tells apart "small" requests,    *)
(* small ones for an address "outside" every writable region, "large" ones *)
(* (over a configured byte limit), "malformed" ones (hex data or an SVD    *)
(* file that does not parse, a connect without endpoint) and "invalid"     *)
(* ones (rejected by the request schema before the service).  No region    *)
(* can be configured: "outside" is any address somebody would not want     *)
(* written, and the code treats it like every other.                       *)
(***************************************************************************)
EXTENDS SafetyPolicy, SessionContract, ConfirmationStore, FiniteSets

CONSTANTS
    Callers,        \* tasks that may run tool calls at the same time
    SessionIds,     \* bound: the sessions that can ever be created
    Requests,       \* the requests clients send
    Configs,        \* the configurations the server may be started with
    MaxSessions,    \* ResourceLimits.max_sessions
    MaxToolCalls,   \* ResourceLimits.max_concurrent_tool_calls
    MaxSessionOps,  \* ResourceLimits.max_session_operations
    NoSession, NoToken, NoRequest

ASSUME LimitsAssumption ==
    /\ IsFiniteSet(Callers)
    /\ IsFiniteSet(SessionIds)
    /\ MaxSessions \in Nat \ {0}
    /\ MaxToolCalls \in Nat \ {0}
    /\ MaxSessionOps \in Nat \ {0}

VARIABLES
    config,       \* permission mode, target class, switches; never changes
    sessions,     \* SessionManager._sessions: the registered session ids
    state,        \* session id -> state of its DebugSession
    gdb,          \* session id -> its GDB process: none, alive or closed
    pc,           \* caller -> idle, spawning, attaching or running
    req,          \* caller -> the request it is serving
    sid,          \* caller -> the session it works on
    grant,        \* caller -> history: the token its call was confirmed with
    activeCalls,  \* _active_tool_calls
    activeOps,    \* _active_session_operations (0 where absent)
    snapshots,    \* the sessions _snapshots holds a snapshot of
    reply         \* the last answer given, and whether it was audited

callVars == <<pc, req, sid, grant>>
slotVars == <<activeCalls, activeOps>>
sessionVars == <<sessions, state, gdb>>
vars == <<config, sessions, state, gdb, pc, req, sid, grant, activeCalls,
          activeOps, snapshots, reply, storeVars>>

SNAPSHOT_TOOLS == {"analyze_fault", "compare_snapshots",
                   "explain_current_state", "suggest_next_debug_steps"}

Config ==
    [mode : PermissionLevel, class : TargetClass, writes : BOOLEAN,
     allowlist : SUBSET DebugOperation, factory : BOOLEAN,
     audit : {"off", "reliable", "failing"}]

Body == {"small", "outside", "large", "malformed", "invalid"}

Request ==
    [op : DebugOperation, session : SessionIds \cup {NoSession}, body : Body]

(* fingerprint_request: the whole request body. *)
fingerprint(r) == [session |-> r.session, body |-> r.body]

ASSUME InputsAssumption ==
    /\ Configs \subseteq Config
    /\ Requests \subseteq Request
    /\ DebugOperation \subseteq Operations
    /\ \A r \in Requests : fingerprint(r) \in Fingerprints
    /\ NoSession \notin SessionIds
    /\ NoToken \notin Tokens
    /\ NoRequest \notin Requests

Init ==
    /\ config \in Configs
    /\ sessions = {}
    /\ state = [s \in SessionIds |-> "disconnected"]
    /\ gdb = [s \in SessionIds |-> "none"]
    /\ pc = [c \in Callers |-> "idle"]
    /\ req = [c \in Callers |-> NoRequest]
    /\ sid = [c \in Callers |-> NoSession]
    /\ grant = [c \in Callers |-> NoToken]
    /\ activeCalls = 0
    /\ activeOps = [s \in SessionIds |-> 0]
    /\ snapshots = {}
    /\ reply = [op |-> "none", code |-> "none", confirmed |-> FALSE,
                audited |-> FALSE]
    /\ StoreInit

-----------------------------------------------------------------------------
(***************************************************************************)
(* Answering a call: _success, _failure and _exception_failure all append  *)
(* an audit event first, and an append that raises takes the answer away.  *)
(***************************************************************************)
AuditResults ==
    CASE config.audit = "off" -> {"unaudited"}
      [] config.audit = "reliable" -> {"audited"}
      [] config.audit = "failing" -> {"audited", "raised"}

Answer(op, code, confirmed) ==
    \E a \in AuditResults :
        reply' = [op |-> op, code |-> IF a = "raised" THEN "raised" ELSE code,
                  confirmed |-> confirmed, audited |-> a = "audited"]

(* An exception that no envelope converts, or a cancelled call. *)
AnswerUnaudited(op, code) ==
    reply' = [op |-> op, code |-> code, confirmed |-> FALSE, audited |-> FALSE]

(* The task ends. *)
Return(c) ==
    /\ pc' = [pc EXCEPT ![c] = "idle"]
    /\ req' = [req EXCEPT ![c] = NoRequest]
    /\ sid' = [sid EXCEPT ![c] = NoSession]
    /\ grant' = [grant EXCEPT ![c] = NoToken]

-----------------------------------------------------------------------------
(***************************************************************************)
(* The synchronous prefix of a call.                                       *)
(***************************************************************************)

Presents(r, t) ==
    t \in Tokens \cup {NoToken} /\ (r.op \in READ_ONLY_OPERATIONS => t = NoToken)

(* The exceptions that escape before any envelope exists: a request the    *)
(* schema rejects, an SVD file that inspect_peripheral cannot load.        *)
EscapesEnvelope(r) ==
    \/ r.body = "invalid"
    \/ r.op = "inspect_peripheral" /\ r.body = "malformed"

(* Slip: opening sessions is not limited. *)
EarlyErrorNoLimit(r) ==
    IF r.op = "connect_target" /\ ~config.factory
    THEN "SESSION_FACTORY_UNAVAILABLE" ELSE "none"

(* The checks a tool makes before it asks the policy. *)
EarlyError(r) ==
    CASE r.op = "connect_target" /\ Cardinality(sessions) >= MaxSessions ->
            "RESOURCE_LIMIT_EXCEEDED"
      [] r.op = "connect_target" /\ Cardinality(sessions) < MaxSessions
                                 /\ ~config.factory ->
            "SESSION_FACTORY_UNAVAILABLE"
      [] r.op = "write_memory" /\ r.body = "malformed" -> "VALIDATION_FAILED"
      [] r.op \in {"read_memory", "write_memory", "debug_snapshot"}
            /\ r.body = "large" -> "RESOURCE_LIMIT_EXCEEDED"
      [] OTHER -> "none"

Admitted(c, r, t) ==
    /\ pc[c] = "idle"
    /\ Presents(r, t)
    /\ r.op \notin SNAPSHOT_TOOLS
    /\ ~EscapesEnvelope(r)

Judged(c, r, t) == Admitted(c, r, t) /\ EarlyError(r) = "none"

TokenFails(r, t) == t # NoToken /\ ~Matches(t, r.op, fingerprint(r))

(* Slip: a verified token stands for full control. *)
TokenIsFullControl(r, t) ==
    Evaluate([mode |-> IF t = NoToken THEN config.mode ELSE FULL_CONTROL,
              op |-> r.op, class |-> config.class,
              production |-> FALSE, writes |-> config.writes,
              confirmed |-> t # NoToken, allowlist |-> config.allowlist])

(* _evaluate, once the token (if any) has been verified. *)
Decision(r, t) ==
    Evaluate([mode |-> config.mode, op |-> r.op, class |-> config.class,
              production |-> FALSE, writes |-> config.writes,
              confirmed |-> t # NoToken, allowlist |-> config.allowlist])

(* Slip: the service verifies the token and leaves it usable. *)
ConsumeKeepsRecord(r, t) ==
    IF t = NoToken
    THEN UNCHANGED storeVars
    ELSE /\ NoteVerify(t, r.op, fingerprint(r))
         /\ UNCHANGED <<records, now, issuedAs>>

Consume(r, t) ==
    IF t = NoToken THEN UNCHANGED storeVars ELSE Verify(t, r.op, fingerprint(r))

Refused(c) == UNCHANGED <<config, sessionVars, callVars, slotVars, snapshots>>

RejectInvalid(c, r, t) ==
    /\ pc[c] = "idle" /\ EscapesEnvelope(r)
    /\ AnswerUnaudited(r.op, "raised")
    /\ Refused(c) /\ UNCHANGED storeVars

RejectEarly(c, r, t) ==
    /\ Admitted(c, r, t) /\ EarlyError(r) # "none"
    /\ Answer(r.op, EarlyError(r), FALSE)
    /\ Refused(c) /\ UNCHANGED storeVars

RejectToken(c, r, t) ==
    /\ Judged(c, r, t) /\ TokenFails(r, t)
    /\ Consume(r, t)
    /\ Answer(r.op, "INVALID_CONFIRMATION_TOKEN", FALSE)
    /\ Refused(c)

DenyPermission(c, r, t) ==
    /\ Judged(c, r, t) /\ ~TokenFails(r, t) /\ Decision(r, t) = DENY
    /\ Consume(r, t)
    /\ Answer(r.op, "PERMISSION_DENIED", t # NoToken)
    /\ Refused(c)

(* _policy_failure issues a token for exactly this request. *)
AskConfirmation(c, r, t) ==
    /\ Judged(c, r, t) /\ ~TokenFails(r, t)
    /\ Decision(r, t) = REQUIRE_CONFIRMATION
    /\ \E new \in Tokens :
          IF t = NoToken
          THEN Issue(new, r.op, fingerprint(r))
          ELSE VerifyThenIssue(t, new, r.op, fingerprint(r))
    /\ Answer(r.op, "CONFIRMATION_REQUIRED", t # NoToken)
    /\ Refused(c)

Allowed(c, r, t) ==
    Judged(c, r, t) /\ ~TokenFails(r, t) /\ Decision(r, t) = ALLOW

RejectLookup(c, r, t) ==
    /\ Allowed(c, r, t)
    /\ r.op # "connect_target" /\ r.session \notin sessions
    /\ Consume(r, t)
    /\ Answer(r.op, "SESSION_NOT_FOUND", t # NoToken)
    /\ Refused(c)

-----------------------------------------------------------------------------
(***************************************************************************)
(* Slots: _try_reserve_operation and _release_operation.                   *)
(***************************************************************************)

(* Slip: off by one against the per-session limit. *)
HasSlotOffByOne(s) == activeCalls < MaxToolCalls /\ activeOps[s] =< MaxSessionOps

HasSlot(s) == activeCalls < MaxToolCalls /\ activeOps[s] < MaxSessionOps

Reserve(s) ==
    /\ activeCalls' = activeCalls + 1
    /\ activeOps' = [activeOps EXCEPT ![s] = @ + 1]

(* Slip: the session's entry is popped even when other calls hold it. *)
ReleasePops(s) ==
    /\ activeCalls' = IF activeCalls > 0 THEN activeCalls - 1 ELSE 0
    /\ activeOps' = [activeOps EXCEPT ![s] = 0]

Release(s) ==
    /\ activeCalls' = IF activeCalls > 0 THEN activeCalls - 1 ELSE 0
    /\ activeOps' = [activeOps EXCEPT ![s] = IF @ =< 1 THEN 0 ELSE @ - 1]

(* A token that was accepted is used up even when the call finds no slot. *)
RejectBusy(c, r, t) ==
    /\ Allowed(c, r, t)
    /\ r.op # "connect_target" /\ r.session \in sessions
    /\ ~HasSlot(r.session)
    /\ Consume(r, t)
    /\ Answer(r.op, "RESOURCE_LIMIT_EXCEEDED", t # NoToken)
    /\ Refused(c)

(* The call gets its slots and awaits the session. *)
Begin(c, r, t) ==
    /\ Allowed(c, r, t)
    /\ r.op # "connect_target" /\ r.session \in sessions
    /\ HasSlot(r.session)
    /\ Consume(r, t)
    /\ Reserve(r.session)
    /\ pc' = [pc EXCEPT ![c] = "running"]
    /\ req' = [req EXCEPT ![c] = r]
    /\ sid' = [sid EXCEPT ![c] = r.session]
    /\ grant' = [grant EXCEPT ![c] = t]
    /\ UNCHANGED <<config, sessionVars, snapshots, reply>>

(* step_instruction awaits the session once per instruction; every *)
(* iteration but the last leaves the call running.                 *)
StepOnce(c) ==
    /\ pc[c] = "running" /\ req[c].op = "step_instruction"
    /\ gdb[sid[c]] = "alive"
    /\ can_transition(state[sid[c]], "halted")
    /\ state' = [state EXCEPT ![sid[c]] = "halted"]
    /\ UNCHANGED <<config, sessions, gdb, callVars, slotVars, snapshots, reply,
                   storeVars>>

(* _disconnect: remove only after session.disconnect returned. *)
RemoveSession(c, ok) ==
    sessions' = IF req[c].op = "disconnect_target" /\ ok
                THEN sessions \ {sid[c]} ELSE sessions

(* The awaited session call returns or raises.  Removing a session that a  *)
(* concurrent disconnect already removed raises too.                       *)
Finish(c) ==
    /\ pc[c] = "running"
    /\ \E o \in OpOutcomes(req[c].op, state[sid[c]], gdb[sid[c]] = "alive") :
          LET s == sid[c]
              op == req[c].op
              ok == o.ok /\ (op = "disconnect_target" => s \in sessions)
          IN  /\ state' = [state EXCEPT ![s] = o.state]
              /\ RemoveSession(c, ok)
              /\ gdb' = IF op = "disconnect_target"
                        THEN [gdb EXCEPT ![s] = "closed"] ELSE gdb
              /\ snapshots' = IF op = "debug_snapshot" /\ ok
                              THEN snapshots \cup {s} ELSE snapshots
              /\ Release(s)
              /\ Answer(op, IF ok THEN "ok" ELSE "TOOL_EXECUTION_FAILED",
                        grant[c] # NoToken)
    /\ Return(c)
    /\ UNCHANGED <<config, storeVars>>

(* The client cancels the call: the finally clauses run and nothing else. *)
CancelRun(c) ==
    /\ pc[c] = "running"
    /\ \E st \in CancelStates(req[c].op, state[sid[c]]) :
          state' = [state EXCEPT ![sid[c]] = st]
    /\ gdb' = IF req[c].op = "disconnect_target"
              THEN [gdb EXCEPT ![sid[c]] = "closed"] ELSE gdb
    /\ Release(sid[c])
    /\ AnswerUnaudited(req[c].op, "cancelled")
    /\ Return(c)
    /\ UNCHANGED <<config, sessions, snapshots, storeVars>>

-----------------------------------------------------------------------------
(***************************************************************************)
(* connect_target: it takes no slot, and awaits twice.                     *)
(***************************************************************************)
BeginConnect(c, r, t) ==
    /\ Allowed(c, r, t) /\ r.op = "connect_target"
    /\ Consume(r, t)
    /\ pc' = [pc EXCEPT ![c] = "spawning"]
    /\ req' = [req EXCEPT ![c] = r]
    /\ grant' = [grant EXCEPT ![c] = t]
    /\ UNCHANGED <<config, sessionVars, sid, slotVars, snapshots, reply>>

(* Slip: the session is registered before it is attached. *)
SpawnDoneRegisters(c, s) ==
    /\ pc[c] = "spawning" /\ gdb[s] = "none"
    /\ gdb' = [gdb EXCEPT ![s] = "alive"]
    /\ sessions' = sessions \cup {s}
    /\ pc' = [pc EXCEPT ![c] = "attaching"]
    /\ sid' = [sid EXCEPT ![c] = s]
    /\ state' = [state EXCEPT ![s] = "connecting"]
    /\ UNCHANGED <<config, req, grant, slotVars, snapshots, reply, storeVars>>

(* GDB is up; session.connect raises at once when there is no endpoint, *)
(* else the session is CONNECTING and awaits -target-select.            *)
SpawnDone(c, s) ==
    /\ pc[c] = "spawning" /\ gdb[s] = "none"
    /\ gdb' = [gdb EXCEPT ![s] = "alive"]
    /\ IF req[c].body = "malformed"
       THEN /\ Answer("connect_target", "TOOL_EXECUTION_FAILED",
                      grant[c] # NoToken)
            /\ Return(c)
            /\ UNCHANGED state
       ELSE /\ pc' = [pc EXCEPT ![c] = "attaching"]
            /\ sid' = [sid EXCEPT ![c] = s]
            /\ state' = [state EXCEPT ![s] = "connecting"]
            /\ UNCHANGED <<req, grant, reply>>
    /\ UNCHANGED <<config, sessions, slotVars, snapshots, storeVars>>

(* create_subprocess_exec raises, or -target-select fails, times out or *)
(* finds that GDB has died; nothing closes a GDB that is still there.   *)
ConnectFails(c) ==
    /\ pc[c] \in {"spawning", "attaching"}
    /\ \/ UNCHANGED gdb
       \/ pc[c] = "attaching" /\ gdb' = [gdb EXCEPT ![sid[c]] = "closed"]
    /\ Answer("connect_target", "TOOL_EXECUTION_FAILED", grant[c] # NoToken)
    /\ Return(c)
    /\ UNCHANGED <<config, sessions, state, slotVars, snapshots, storeVars>>

(* Every backend reports UNKNOWN.  _success runs inside the try block: an  *)
(* audit append that raises is answered, and audited, a second time.       *)
Attached(c) ==
    /\ pc[c] = "attaching"
    /\ state' = [state EXCEPT ![sid[c]] = "unknown"]
    /\ sessions' = sessions \cup {sid[c]}
    /\ \/ reply' = [op |-> "connect_target", code |-> "ok",
                    confirmed |-> grant[c] # NoToken,
                    audited |-> config.audit # "off"]
       \/ /\ "raised" \in AuditResults
          /\ Answer("connect_target", "TOOL_EXECUTION_FAILED",
                    grant[c] # NoToken)
    /\ Return(c)
    /\ UNCHANGED <<config, gdb, slotVars, snapshots, storeVars>>

(* Cancelled while GDB is being spawned (asyncio then kills the child) or *)
(* while -target-select is awaited.                                       *)
CancelConnect(c) ==
    /\ pc[c] \in {"spawning", "attaching"}
    /\ AnswerUnaudited("connect_target", "cancelled")
    /\ Return(c)
    /\ UNCHANGED <<config, sessionVars, slotVars, snapshots, storeVars>>

(* The tools that only read captured snapshots ask no policy and take no *)
(* slot; r.session stands for the snapshot id in the request.            *)
SnapshotQuery(c, r) ==
    /\ pc[c] = "idle" /\ r.op \in SNAPSHOT_TOOLS /\ ~EscapesEnvelope(r)
    /\ \E other \in IF r.op = "compare_snapshots" THEN SessionIds ELSE {r.session} :
          Answer(r.op,
                 CASE r.op = "analyze_fault" /\ r.session = NoSession ->
                         "SNAPSHOT_REQUIRED"
                   [] {r.session, other} \subseteq snapshots -> "ok"
                   [] OTHER -> "SNAPSHOT_NOT_FOUND",
                 FALSE)
    /\ Refused(c) /\ UNCHANGED storeVars

(* The GDB process of a session dies on its own; nothing in the server *)
(* notices before the next MI command.                                 *)
GdbDies(s) ==
    /\ s \in sessions /\ gdb[s] = "alive"
    /\ gdb' = [gdb EXCEPT ![s] = "closed"]
    /\ UNCHANGED <<config, sessions, state, callVars, slotVars, snapshots,
                   reply, storeVars>>

TimePasses ==
    /\ Tick
    /\ UNCHANGED <<config, sessionVars, callVars, slotVars, snapshots, reply>>

Invoke(c, r, t) ==
    \/ RejectInvalid(c, r, t)
    \/ RejectEarly(c, r, t)
    \/ RejectToken(c, r, t)
    \/ DenyPermission(c, r, t)
    \/ AskConfirmation(c, r, t)
    \/ RejectLookup(c, r, t)
    \/ RejectBusy(c, r, t)
    \/ Begin(c, r, t)
    \/ BeginConnect(c, r, t)

Next ==
    \/ \E c \in Callers, r \in Requests :
          \/ \E t \in Tokens \cup {NoToken} : Invoke(c, r, t)
          \/ SnapshotQuery(c, r)
    \/ \E c \in Callers :
          \/ StepOnce(c) \/ Finish(c) \/ CancelRun(c)
          \/ \E s \in SessionIds : SpawnDone(c, s)
          \/ ConnectFails(c) \/ Attached(c) \/ CancelConnect(c)
    \/ \E s \in SessionIds : GdbDies(s)
    \/ TimePasses

Spec == Init /\ [][Next]_vars

-----------------------------------------------------------------------------
Running == {c \in Callers : pc[c] = "running"}
RunningOn(s) == {c \in Running : sid[c] = s}
Connecting == {c \in Callers : pc[c] \in {"spawning", "attaching"}}

(* The values the service's variables range over. *)
TypeOK ==
    /\ config \in Configs
    /\ sessions \subseteq SessionIds
    /\ state \in [SessionIds -> TargetState]
    /\ gdb \in [SessionIds -> {"none", "alive", "closed"}]
    /\ pc \in [Callers -> {"idle", "spawning", "attaching", "running"}]
    /\ req \in [Callers -> Requests \cup {NoRequest}]
    /\ sid \in [Callers -> SessionIds \cup {NoSession}]
    /\ grant \in [Callers -> Tokens \cup {NoToken}]
    /\ activeCalls \in Nat
    /\ activeOps \in [SessionIds -> Nat]
    /\ snapshots \subseteq SessionIds
    /\ reply.confirmed \in BOOLEAN /\ reply.audited \in BOOLEAN
    /\ StoreTypeOK

(* service.py:779-804: however calls return, raise or are cancelled, the   *)
(* two counters the limits are checked against count exactly the calls     *)
(* that are running: no slot leaks and none is given back twice.           *)
SlotAccounting ==
    /\ activeCalls = Cardinality(Running)
    /\ \A s \in SessionIds : activeOps[s] = Cardinality(RunningOn(s))

(* safety-model.md "active operations per session: 1": with the default    *)
(* limit a session is never taken away, and no second operation enters it, *)
(* while a call is working on it.                                          *)
ExclusiveUse ==
    MaxSessionOps = 1 =>
        \A c \in Running :
            /\ sid[c] \in sessions
            /\ \A d \in Running : sid[d] = sid[c] => d = c

(* No call is in flight that the policy, with the token the call itself    *)
(* presented, did not allow; and no two calls live on the same token.      *)
InFlightIsAuthorized ==
    \A c \in Running \cup Connecting :
        /\ Decision(req[c], grant[c]) = ALLOW
        /\ grant[c] # NoToken =>
              /\ issuedAs[grant[c]].operation = req[c].op
              /\ issuedAs[grant[c]].fingerprint = fingerprint(req[c])
              /\ \A d \in Running \cup Connecting :
                    grant[d] = grant[c] => d = c

(* The token of the call was issued for this very operation and request,   *)
(* and has been accepted, once.                                            *)
WasConfirmed(c) ==
    /\ grant[c] \in Tokens /\ uses[grant[c]] = 1
    /\ issuedAs[grant[c]].operation = req[c].op
    /\ issuedAs[grant[c]].fingerprint = fingerprint(req[c])

(* The request the documented rules are asked about, for this server.      *)
Asked(op, confirmed) ==
    [mode |-> config.mode, op |-> op, class |-> config.class,
     production |-> FALSE, writes |-> config.writes,
     confirmed |-> confirmed, allowlist |-> config.allowlist]

(* safety-model.md:90, :109-112: reads, writes and snapshots have a        *)
(* maximum length.                                                         *)
WithinLength(r) ==
    r.op \in {"read_memory", "write_memory", "debug_snapshot"} =>
        r.body # "large"

(* safety-model.md:20-43, :67, :84-90, :109-112, :122-124 and              *)
(* mcp-client-setup.md:51: whatever a call in flight does keeps the rules  *)
(* for its mode, target, opt-ins and length, where confirmed means that a  *)
(* token issued for this very call was accepted for it (service.py:806-835 *)
(* joins the configuration, the store and the engine).  Rules for the      *)
(* address are not among them: see WritesStayInRange.                      *)
InFlightKeepsRules ==
    \A c \in Running \cup Connecting :
        RequestRules(Asked(req[c].op, WasConfirmed(c))) /\ WithinLength(req[c])

(* service.py:837-871: a call that is asked to confirm is not permitted as *)
(* it came.  One that is denied, or asked again although its token was     *)
(* good and is now used up, is one that no token would make permissible:   *)
(* a client that confirms what it is asked to is never sent round and      *)
(* round where the rules would let it through.  Exempt are the engine's    *)
(* two guards of production hardware, which refuse what no document does.  *)
RefusalIsNeeded ==
    /\ reply.code = "CONFIRMATION_REQUIRED" =>
          \/ ~RequestRules(Asked(reply.op, reply.confirmed))
          \/ ProductionGuard(Asked(reply.op, reply.confirmed))
    /\ reply.code = "PERMISSION_DENIED" =>
          \/ ~RequestRules(Asked(reply.op, TRUE))
          \/ ProductionGuard(Asked(reply.op, TRUE))

(* safety-model.md:68 "Reject writes outside configured writable memory    *)
(* ranges.": no such write is ever in flight.                              *)
WritesStayInRange ==
    \A c \in Running : req[c].op = "write_memory" => req[c].body # "outside"

(* A session outside the manager's table is down: no call that was still   *)
(* running when the session was disconnected and removed brings it back to *)
(* an attached state, where nobody could reach it any more.                *)
UnregisteredIsDown ==
    \A s \in SessionIds \ sessions : state[s] \in {"disconnected", "connecting"}

(* A disconnected session stays disconnected.                              *)
DisconnectedIsFinal ==
    [][\A s \in SessionIds :
          gdb[s] = "closed" /\ state[s] = "disconnected" =>
              state'[s] = "disconnected"]_vars

(* state.py:25-63, service.py:115-190: however calls overlap, a session    *)
(* moves along the transitions of its state machine only, and is connected *)
(* once in its life.  In particular the call that attaches it finds it     *)
(* "connecting" when GDB answers: its own transition cannot raise.         *)
SessionsMoveLegally ==
    [][\A s \in SessionIds :
          /\ can_transition(state[s], state'[s])
          /\ state'[s] = "connecting" =>
                state[s] = "connecting" \/ gdb[s] = "none"]_vars

(* What the session limit does bound, calls overlapping as they may: the   *)
(* check is made before two awaits, so every call in flight can add one.   *)
SessionOvershoot ==
    Cardinality(sessions) + Cardinality(Connecting)
        < MaxSessions + Cardinality(Callers)

(* safety-model.md:20: a readonly server never starts a GDB process and so *)
(* never touches a target, whatever tokens it has handed out.              *)
ReadonlyIsInert ==
    config.mode = READONLY => \A s \in SessionIds : gdb[s] = "none"

(* architecture.md:116 "A debug session owns one GDB process": every GDB   *)
(* process belongs to a session that is registered or being connected.     *)
EveryGdbIsOwned ==
    \A s \in SessionIds : gdb[s] = "alive" =>
        s \in sessions \/ \E c \in Connecting : sid[c] = s

(* mvp-plan.md:63 "Every tool call emits an audit record."                 *)
EveryCallIsAudited == reply.code # "none" => reply.audited
=============================================================================
