-------------------------- MODULE SessionContract --------------------------
(***************************************************************************)
(* What a DebugSession promises to the tool service: the state machine of  *)
(* debug/state.py and, for every operation of debug/session.py, the        *)
(* outcomes (returned or raised, and the session state left behind) that   *)
(* one awaited call can have.  What GDB answers is unknown here, so an     *)
(* operation has every outcome some answer leads to.                       *)
(***************************************************************************)

TargetState ==
    {"disconnected", "connecting", "halted", "running", "unknown", "degraded"}

(* Slip: a session may be revived from "disconnected" by a late stop. *)
ReviveTransitions ==
    [s \in TargetState |-> TargetState \ {"connecting"}]

LEGAL_TRANSITIONS ==
    [s \in TargetState |->
        CASE s = "disconnected" -> {"connecting"}
          [] s = "connecting" ->
                {"halted", "running", "unknown", "degraded", "disconnected"}
          [] s = "halted" -> {"running", "unknown", "degraded", "disconnected"}
          [] s = "running" -> {"halted", "unknown", "degraded", "disconnected"}
          [] s = "unknown" -> {"connecting", "halted", "running", "degraded",
                               "disconnected"}
          [] s = "degraded" -> {"connecting", "unknown", "disconnected"}]

can_transition(from, to) == to = from \/ to \in LEGAL_TRANSITIONS[from]

(* An outcome: did the call return, and the state it leaves. *)
Outcome == [ok : BOOLEAN, state : TargetState]

Returns(s) == [ok |-> TRUE, state |-> s]
Raises(s) == [ok |-> FALSE, state |-> s]

(* transition(to) after the MI command succeeded: an illegal transition *)
(* raises StateTransitionError and moves nothing.                       *)
Moved(from, to) ==
    IF can_transition(from, to) THEN Returns(to) ELSE Raises(from)

-----------------------------------------------------------------------------
(* halt, and one iteration of step_instruction's loop: an MI command, *)
(* then HALTED.                                                       *)
HaltOutcomes(s) == {Moved(s, "halted"), Raises(s)}

(* Slip: an interrupted run is reported as a state of its own. *)
ResumeInventsState(s) == {Raises(s), Returns("interrupted")}

(* resume: -exec-continue, then RUNNING.  On a timeout either a nested halt *)
(* (whose failure, StateTransitionError included, means DEGRADED, where     *)
(* safety-model.md:103 wants UNKNOWN) or UNKNOWN; these last two            *)
(* transitions can be illegal themselves.                                   *)
ResumeOutcomes(s) ==
    {Raises(s), Moved(s, "running"), Moved(s, "degraded"), Moved(s, "unknown")}
    \cup {o \in {Moved(s, "halted")} : o.ok}

(* reset_target: a backend without a reset path sends nothing to GDB. *)
ResetOutcomes(s) == {Moved(s, "halted"), Moved(s, "running"), Raises(s)}

(* disconnect: -gdb-exit may fail, the finally clause closes the transport *)
(* and moves to DISCONNECTED, which every state may do.                    *)
DisconnectOutcomes(s) == {Returns("disconnected"), Raises("disconnected")}

(* The operations that only read, write memory or edit breakpoints. *)
NeutralOutcomes(s) == {Returns(s), Raises(s)}

(* With GDB gone when the call ends every further MI command raises, a      *)
(* broken pipe or end of file.  What a failing command does not end: resume *)
(* after a timeout, a snapshot's symbol context, a disconnect whose         *)
(* -gdb-exit was answered, a reset without a reset path.                    *)
DeadOutcomes(op, s) ==
    CASE op = "reset_target" -> ResetOutcomes(s)
      [] op = "disconnect_target" -> DisconnectOutcomes(s)
      [] op = "resume" -> {Raises(s), Moved(s, "degraded"), Moved(s, "unknown")}
      [] op = "debug_snapshot" -> NeutralOutcomes(s)
      [] OTHER -> {Raises(s)}

OpOutcomes(op, s, alive) ==
    IF ~alive
    THEN DeadOutcomes(op, s)
    ELSE CASE op \in {"halt", "step_instruction"} -> HaltOutcomes(s)
           [] op = "resume" -> ResumeOutcomes(s)
           [] op = "reset_target" -> ResetOutcomes(s)
           [] op = "disconnect_target" -> DisconnectOutcomes(s)
           [] OTHER -> NeutralOutcomes(s)

(* The states a cancelled operation can leave.  CancelledError is not an    *)
(* Exception: only disconnect's finally clause still runs, and it is itself *)
(* interrupted when the cancellation arrives while it awaits close().       *)
CancelStates(op, s) ==
    IF op = "disconnect_target" THEN {s, "disconnected"} ELSE {s}
=============================================================================
