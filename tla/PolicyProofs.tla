---------------------------- MODULE PolicyProofs ----------------------------
(***************************************************************************)
(* The policy engine for every request the service can build: the cascade  *)
(* of policy.py against the documented rules, and against the table of the *)
(* tool registry.                                                          *)
(***************************************************************************)
EXTENDS SafetyPolicy, TLAPS

LEMMA ModesDiffer ==
    /\ READONLY # CONFIRM_REQUIRED
    /\ READONLY # FULL_CONTROL
    /\ CONFIRM_REQUIRED # FULL_CONTROL
    /\ ALLOW # DENY /\ ALLOW # REQUIRE_CONFIRMATION
  BY DEF READONLY, CONFIRM_REQUIRED, FULL_CONTROL, ALLOW, DENY,
         REQUIRE_CONFIRMATION

(* The requests _evaluate can build: it never sets production_target. *)
Buildable == {r \in PolicyRequest : ~r.production}

(* What the documents allow and the two production guards leave.           *)
Grantable(q) == RequestRules(q) /\ ~ProductionGuard(q)

(* For every request that does not set production_target, the cascade of   *)
(* early returns allows exactly what the documented rules allow, but for   *)
(* what its two guards of production hardware refuse (policy.py:163-314).  *)
THEOREM EngineFollowsRules ==
    \A q \in Buildable :
        Evaluate(q) = ALLOW <=> RequestRules(q) /\ ~ProductionGuard(q)
  <1> SUFFICES ASSUME NEW q \in Buildable
               PROVE  Evaluate(q) = ALLOW <=> Grantable(q)
    BY DEF Grantable
  <1>1. /\ q.op \in DebugOperation /\ q.class \in TargetClass
        /\ q.mode \in PermissionLevel /\ ~q.production
    BY DEF Buildable, PolicyRequest
  <1>2. CASE q.op = "write_memory"
    BY <1>1, <1>2, ModesDiffer
       DEF Evaluate, EvaluateMemoryWrite, Interlocked, Grantable,
           RequestRules, ProductionGuard, Changes,
           HARDWARE_INTERLOCK_CLASSES, READ_ONLY_OPERATIONS, PermissionLevel
  <1>3. CASE q.op \in READ_ONLY_OPERATIONS
    BY <1>1, <1>3, ModesDiffer
       DEF Evaluate, Grantable, RequestRules, ProductionGuard, Changes,
           READ_ONLY_OPERATIONS
  <1>4. CASE q.op \in TARGET_CHANGING_OPERATIONS
    <2>1. q.op \notin READ_ONLY_OPERATIONS /\ q.op # "write_memory"
      BY <1>4 DEF READ_ONLY_OPERATIONS, TARGET_CHANGING_OPERATIONS
    <2>2. Evaluate(q) = EvaluateTargetChanging(q)
      BY <1>4, <2>1 DEF Evaluate
    <2>3. q.op \in PRODUCTION_CONFIRMATION_OPERATIONS
             <=> q.op \notin {"connect_target", "set_breakpoint",
                              "clear_breakpoint"}
      BY <1>4 DEF PRODUCTION_CONFIRMATION_OPERATIONS, TARGET_CHANGING_OPERATIONS
    <2> QED
      BY <1>1, <2>1, <2>2, <2>3, ModesDiffer
         DEF EvaluateTargetChanging, Interlocked, IsProduction, Grantable,
             RequestRules, ProductionGuard, Changes,
             HARDWARE_INTERLOCK_CLASSES, PermissionLevel
  <1> QED
    BY <1>1, <1>2, <1>3, <1>4 DEF DebugOperation

(* The two hand-kept tables agree: the mode the tool registry advertises   *)
(* is the weakest one in which the engine allows the confirmed operation   *)
(* (tools.py:38-160, policy.py:65-107).                                    *)
THEOREM RegistryAgrees ==
    \A q \in Buildable :
        q.confirmed /\ q.writes /\ q.class = "emulator"
        => (Evaluate(q) = ALLOW <=> q.mode \in AtLeast(ToolPermission(q.op)))
  <1> SUFFICES ASSUME NEW q \in Buildable,
                      q.confirmed, q.writes, q.class = "emulator"
               PROVE  Evaluate(q) = ALLOW
                          <=> q.mode \in AtLeast(ToolPermission(q.op))
    OBVIOUS
  <1>1. q.op \in DebugOperation /\ q.mode \in PermissionLevel
    BY DEF Buildable, PolicyRequest
  <1>2. Evaluate(q) = ALLOW <=> Grantable(q)
    BY EngineFollowsRules DEF Grantable
  <1>3. CASE q.op = "write_memory"
    <2>1. ToolPermission(q.op) = FULL_CONTROL
      BY <1>3 DEF ToolPermission
    <2>2. AtLeast(FULL_CONTROL) = {FULL_CONTROL}
      BY ModesDiffer DEF AtLeast
    <2> QED
      BY <1>2, <1>3, <2>1, <2>2, ModesDiffer
         DEF Grantable, RequestRules, ProductionGuard, Changes,
             READ_ONLY_OPERATIONS
  <1>4. CASE q.op \in READ_ONLY_OPERATIONS
    <2>1. ToolPermission(q.op) = READONLY
      BY <1>4 DEF ToolPermission, READ_ONLY_OPERATIONS
    <2>2. AtLeast(READONLY) = PermissionLevel
      BY ModesDiffer DEF AtLeast
    <2> QED
      BY <1>1, <1>2, <1>4, <2>1, <2>2
         DEF Grantable, RequestRules, ProductionGuard, Changes
  <1>5. CASE q.op \in TARGET_CHANGING_OPERATIONS
    <2>1. ToolPermission(q.op) = CONFIRM_REQUIRED
      BY <1>5 DEF ToolPermission, TARGET_CHANGING_OPERATIONS
    <2>2. AtLeast(CONFIRM_REQUIRED) = {CONFIRM_REQUIRED, FULL_CONTROL}
      BY ModesDiffer DEF AtLeast
    <2>3. q.op \notin READ_ONLY_OPERATIONS /\ q.op # "write_memory"
      BY <1>5 DEF READ_ONLY_OPERATIONS, TARGET_CHANGING_OPERATIONS
    <2> QED
      BY <1>1, <1>2, <2>1, <2>2, <2>3, ModesDiffer
         DEF Grantable, RequestRules, ProductionGuard, Changes, PermissionLevel
  <1> QED
    BY <1>1, <1>3, <1>4, <1>5 DEF DebugOperation

(* Giving a request more authority keeps what is granted. *)
LEMMA MoreAuthority ==
    ASSUME NEW q \in Buildable, NEW r \in Buildable,
           r.op = q.op, r.class = q.class,
           r.mode \in AtLeast(q.mode),
           q.confirmed => r.confirmed, q.writes => r.writes,
           q.allowlist \subseteq r.allowlist,
           Grantable(q)
    PROVE  Grantable(r)
  <1>1. q.mode \in PermissionLevel /\ r.mode \in PermissionLevel
    BY DEF Buildable, PolicyRequest
  <1>2. Changes(r) => q.mode # READONLY
    BY DEF Grantable, RequestRules, ProductionGuard, Changes
  <1>3. q.mode = CONFIRM_REQUIRED => r.mode \in {CONFIRM_REQUIRED, FULL_CONTROL}
    BY ModesDiffer DEF AtLeast
  <1>4. q.mode = FULL_CONTROL => r.mode = FULL_CONTROL
    BY ModesDiffer DEF AtLeast
  <1> QED
    BY <1>1, <1>2, <1>3, <1>4, ModesDiffer
       DEF Grantable, RequestRules, ProductionGuard, Changes, PermissionLevel

(* What is denied without a confirmation is not granted with one.          *)
LEMMA DenialIsFinal ==
    ASSUME NEW q \in Buildable, NEW r \in Buildable, Evaluate(q) = DENY,
           r.op = q.op, r.class = q.class, r.mode = q.mode,
           r.writes = q.writes, r.allowlist = q.allowlist
    PROVE  ~Grantable(r)
  <1>1. q.op \in DebugOperation
    BY DEF Buildable, PolicyRequest
  <1>2. Interlocked(r) <=> Interlocked(q)
    BY DEF Interlocked
  <1>3. Evaluate(r) # ALLOW
    <2>1. CASE q.op = "write_memory"
      BY <1>2, <2>1, ModesDiffer DEF Evaluate, EvaluateMemoryWrite,
         DENY, REQUIRE_CONFIRMATION
    <2>2. CASE q.op \in READ_ONLY_OPERATIONS
      BY <2>2, ModesDiffer DEF Evaluate, READ_ONLY_OPERATIONS
    <2>3. CASE q.op \in TARGET_CHANGING_OPERATIONS
      BY <1>2, <2>3, ModesDiffer DEF Evaluate, EvaluateTargetChanging,
         READ_ONLY_OPERATIONS, TARGET_CHANGING_OPERATIONS, DENY,
         REQUIRE_CONFIRMATION
    <2> QED
      BY <1>1, <2>1, <2>2, <2>3 DEF DebugOperation
  <1> QED
    BY <1>3, EngineFollowsRules DEF Grantable
=============================================================================
