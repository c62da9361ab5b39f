---------------------------- MODULE SafetyPolicy ----------------------------
(***************************************************************************)
(* The policy engine of safety/policy.py: a pure function from a           *)
(* PolicyRequest to a decision.  Reasons, risks and warnings are wording;  *)
(* the decision's kind is what callers branch on (confirmation_required    *)
(* is true exactly when the kind is REQUIRE_CONFIRMATION).                 *)
(***************************************************************************)

READONLY == "readonly"
CONFIRM_REQUIRED == "confirm-required"
FULL_CONTROL == "full-control"
PermissionLevel == {READONLY, CONFIRM_REQUIRED, FULL_CONTROL}

ALLOW == "allow"
DENY == "deny"
REQUIRE_CONFIRMATION == "require-confirmation"
PolicyDecisionKind == {ALLOW, DENY, REQUIRE_CONFIRMATION}

TargetClass == {"emulator", "development-hardware", "lab-hardware",
                "production-hardware", "unknown"}

READ_ONLY_OPERATIONS ==
    {"read_registers", "read_memory", "analyze_fault", "compare_snapshots",
     "debug_snapshot", "explain_current_state", "inspect_peripheral",
     "suggest_next_debug_steps"}

TARGET_CHANGING_OPERATIONS ==
    {"connect_target", "disconnect_target", "halt", "resume",
     "step_instruction", "reset_target", "set_breakpoint", "clear_breakpoint"}

DebugOperation ==
    READ_ONLY_OPERATIONS \cup TARGET_CHANGING_OPERATIONS \cup {"write_memory"}

HARDWARE_INTERLOCK_CLASSES == {"lab-hardware", "production-hardware"}

PRODUCTION_CONFIRMATION_OPERATIONS ==
    {"disconnect_target", "halt", "resume", "step_instruction",
     "reset_target", "write_memory"}

(* confirmed: the request carries a confirmation token that was verified. *)
PolicyRequest ==
    [mode : PermissionLevel, op : DebugOperation, class : TargetClass,
     production : BOOLEAN, writes : BOOLEAN, confirmed : BOOLEAN,
     allowlist : SUBSET DebugOperation]

-----------------------------------------------------------------------------
(* Slip: only production hardware is interlocked. *)
InterlockSkipsLab(q) ==
    q.class = "production-hardware" /\ q.op \notin q.allowlist

(* Slip: only lab hardware is interlocked. *)
InterlockSkipsProduction(q) ==
    q.class = "lab-hardware" /\ q.op \notin q.allowlist

(* _evaluate_hardware_interlock *)
Interlocked(q) ==
    q.class \in HARDWARE_INTERLOCK_CLASSES /\ q.op \notin q.allowlist

IsProduction(q) == q.production \/ q.class = "production-hardware"

(* Slip: confirm-required asks whether or not it has been confirmed. *)
EvaluateAsksAgain(q) ==
    IF Interlocked(q)
    THEN DENY
    ELSE IF \/ IsProduction(q) /\ q.mode # FULL_CONTROL
            \/ /\ IsProduction(q) /\ ~q.confirmed
               /\ q.op \in PRODUCTION_CONFIRMATION_OPERATIONS
            \/ q.mode # FULL_CONTROL
         THEN REQUIRE_CONFIRMATION
         ELSE ALLOW

(* _evaluate_target_changing_operation: the early returns, in order. *)
EvaluateTargetChanging(q) ==
    IF Interlocked(q)
    THEN DENY
    ELSE IF \/ IsProduction(q) /\ q.mode # FULL_CONTROL
            \/ /\ IsProduction(q) /\ ~q.confirmed
               /\ q.op \in PRODUCTION_CONFIRMATION_OPERATIONS
            \/ q.mode = READONLY
            \/ q.mode = CONFIRM_REQUIRED /\ ~q.confirmed
         THEN REQUIRE_CONFIRMATION
         ELSE ALLOW

(* _evaluate_memory_write: the early returns, in order. *)
EvaluateMemoryWrite(q) ==
    IF Interlocked(q) \/ ~q.writes
    THEN DENY
    ELSE IF q.mode # FULL_CONTROL
         THEN REQUIRE_CONFIRMATION
         ELSE IF q.class = "production-hardware"
              THEN DENY
              ELSE IF q.confirmed THEN ALLOW ELSE REQUIRE_CONFIRMATION

(* Slip: full control is the mode that confirms everything, reads too. *)
FullControlConfirmsReads(q) ==
    IF q.op \in READ_ONLY_OPERATIONS /\ q.mode = FULL_CONTROL
    THEN REQUIRE_CONFIRMATION
    ELSE IF q.op = "write_memory"
         THEN EvaluateMemoryWrite(q)
         ELSE IF q.op \in READ_ONLY_OPERATIONS
              THEN ALLOW
              ELSE EvaluateTargetChanging(q)

Evaluate(q) ==
    IF q.op = "write_memory"
    THEN EvaluateMemoryWrite(q)
    ELSE IF q.op \in READ_ONLY_OPERATIONS
         THEN ALLOW
         ELSE IF q.op \in TARGET_CHANGING_OPERATIONS
              THEN EvaluateTargetChanging(q)
              ELSE DENY

-----------------------------------------------------------------------------
(* Slip: the registry advertises reset as harmless. *)
ResetIsReadonly(op) ==
    CASE op \in TARGET_CHANGING_OPERATIONS \ {"reset_target"} -> CONFIRM_REQUIRED
      [] op = "write_memory" -> FULL_CONTROL
      [] OTHER -> READONLY

(* The mode the tool registry (mcp_server/tools.py) advertises for a tool. *)
ToolPermission(op) ==
    CASE op \in {"connect_target", "disconnect_target", "halt", "resume",
                 "step_instruction", "reset_target", "set_breakpoint",
                 "clear_breakpoint"} -> CONFIRM_REQUIRED
      [] op = "write_memory" -> FULL_CONTROL
      [] op \in {"read_registers", "read_memory", "debug_snapshot",
                 "analyze_fault", "compare_snapshots", "explain_current_state",
                 "inspect_peripheral", "suggest_next_debug_steps"} -> READONLY

(* The modes in which a tool advertised for mode m may be used. *)
AtLeast(m) ==
    CASE m = READONLY -> PermissionLevel
      [] m = CONFIRM_REQUIRED -> {CONFIRM_REQUIRED, FULL_CONTROL}
      [] m = FULL_CONTROL -> {FULL_CONTROL}

-----------------------------------------------------------------------------
(***************************************************************************)
(* What the documents say of a change, as far as it can be judged from a   *)
(* PolicyRequest.  Such a request has no address and no length:            *)
(* safety-model.md:68 and :88-90 are judged in ToolService.                *)
(***************************************************************************)
Changes(q) == q.op \notin READ_ONLY_OPERATIONS

RequestRules(q) ==
    Changes(q) =>
        \* safety-model.md:20-29: readonly changes nothing
        /\ q.mode # READONLY
        \* safety-model.md:34: confirm-required wants a token; by :43 it may
        \* reset non-production targets
        /\ q.mode = CONFIRM_REQUIRED =>
              /\ q.confirmed
              /\ q.op = "reset_target" => q.class # "production-hardware"
        \* safety-model.md:67, :122: lab and production want a local opt-in
        /\ q.class \in {"lab-hardware", "production-hardware"} =>
              q.op \in q.allowlist
        \* safety-model.md:124: a fresh token for high-risk control.  The
        \* document does not enumerate it; taken to be all but attaching and
        \* breakpoints, as in the table of policy.py:98
        /\ q.class = "production-hardware" =>
              q.confirmed \/ q.op \in {"connect_target", "set_breakpoint",
                                       "clear_breakpoint"}
        \* safety-model.md:84-87, :111: writes are off unless enabled, and want
        \* full-control; mcp-client-setup.md:51: and confirmation
        /\ q.op = "write_memory" =>
              q.writes /\ q.mode = FULL_CONTROL /\ q.confirmed

(* What the engine refuses beyond the documents: without full-control      *)
(* nothing of production hardware is changed (policy.py:193), and writing  *)
(* its memory, blocked "by default" in security-threat-model.md:37, stays  *)
(* blocked with the opt-in of safety-model.md:67 (policy.py:272).          *)
ProductionGuard(q) ==
    /\ Changes(q) /\ q.class = "production-hardware"
    /\ q.mode # FULL_CONTROL \/ q.op = "write_memory"
=============================================================================
