--------------------------- MODULE MCToolService ---------------------------
(* Instances of the tool service: the requests clients send and the        *)
(* configurations the server is started with.                              *)
EXTENDS ToolService, TLC

CONSTANT s1

(* Tokens and callers are interchangeable; every property is safety. *)
Symmetric == Permutations(Tokens) \cup Permutations(Callers)

MCFingerprints == [session : SessionIds \cup {NoSession}, body : Body]

Req(op, s, body) == [op |-> op, session |-> s, body |-> body]

Conf(mode, class, audit) ==
    [mode |-> mode, class |-> class, writes |-> TRUE, allowlist |-> {},
     factory |-> TRUE, audit |-> audit]

Connect == Req("connect_target", NoSession, "small")
BadConnect == Req("connect_target", NoSession, "malformed")
Disconnect(s) == Req("disconnect_target", s, "small")

(* Two clients that must confirm what they do to the same session. *)
ConfirmedRequests ==
    {Connect, Disconnect(s1), Req("halt", s1, "small")}
ConfirmedConfigs == {Conf(CONFIRM_REQUIRED, "development-hardware", "reliable")}

(* Three clients in full control of a session they share: every operation  *)
(* that changes a session's state, one that does not, and an audit log     *)
(* whose appends may raise.                                                *)
SharedRequests ==
    {Connect, BadConnect}
    \cup {Req(op, s, "small") : s \in SessionIds,
             op \in {"disconnect_target", "halt", "resume", "step_instruction",
                     "reset_target", "debug_snapshot", "compare_snapshots"}}
SharedConfigs == {Conf(FULL_CONTROL, "emulator", "failing")}

(* Clients that do nothing but connect and disconnect. *)
ConnectRequests == {Connect} \cup {Disconnect(s) : s \in SessionIds}

AuditedConfigs == {Conf(FULL_CONTROL, "emulator", "reliable")}

(* One client that attaches and writes to any address, with full control. *)
WriteRequests ==
    {Connect, Req("write_memory", s1, "small"), Req("write_memory", s1, "outside")}

(* Clients against every kind of server: what is refused, and why. *)
PolicyRequests ==
    {Connect, Disconnect(s1), Req("set_breakpoint", s1, "small"),
     Req("debug_snapshot", s1, "large"), Req("analyze_fault", NoSession, "small"),
     Req("inspect_peripheral", s1, "malformed")}
    \cup {Req("write_memory", s1, b) : b \in {"small", "large", "malformed"}}
PolicyConfigs ==
    {[mode |-> m, class |-> k, writes |-> w,
      allowlist |-> {"connect_target", "write_memory", "disconnect_target"},
      factory |-> f, audit |-> "off"] :
        m \in PermissionLevel, k \in {"emulator", "production-hardware"},
        w \in BOOLEAN, f \in BOOLEAN}
=============================================================================
