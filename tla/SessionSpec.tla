----------------------------- MODULE SessionSpec -----------------------------
(***************************************************************************)
(* The promise of a DebugSession as a specification of its own: calls of   *)
(* several tasks are open at the same time, and each of them ends, at one  *)
(* instant, with an outcome SessionContract allows in the state found at   *)
(* that instant.  The tool service builds on nothing else.                *)
(***************************************************************************)
EXTENDS SessionContract

CONSTANT Callers

VARIABLES
    state,   \* the state the session reports
    alive,   \* GDB still runs, or has printed records nobody has read
    call,    \* caller -> the operation it awaits, or "none"
    answer   \* caller -> how its last call ended

(* The tools that await one call of the session (connect apart). *)
SessionOperation ==
    {"halt", "resume", "step_instruction", "reset_target", "read_registers",
     "read_memory", "write_memory", "set_breakpoint", "clear_breakpoint",
     "debug_snapshot", "disconnect_target"}

Verdict == {"none", "returned", "raised", "cancelled"}

Init ==
    /\ state = "disconnected"
    /\ alive = TRUE
    /\ call = [c \in Callers |-> "none"]
    /\ answer = [c \in Callers |-> "none"]

(* At any moment GDB may be gone for good. *)
MayDie == alive' \in {alive, FALSE}

Ends(c, verdict, s) ==
    /\ state' = s
    /\ call' = [call EXCEPT ![c] = "none"]
    /\ answer' = [answer EXCEPT ![c] = verdict]
    /\ MayDie

(* connect: CONNECTING while the attach is awaited; every backend then *)
(* reports UNKNOWN.                                                    *)
Connect(c) ==
    /\ call[c] = "none" /\ can_transition(state, "connecting")
    /\ state' = "connecting"
    /\ call' = [call EXCEPT ![c] = "connect_target"]
    /\ UNCHANGED answer /\ MayDie

Call(c, op) ==
    /\ call[c] = "none"
    /\ call' = [call EXCEPT ![c] = op]
    /\ UNCHANGED <<state, answer>> /\ MayDie

OutcomesOf(op) ==
    IF op = "connect_target"
    THEN {Raises(state)} \cup (IF alive THEN {Moved(state, "unknown")} ELSE {})
    ELSE OpOutcomes(op, state, alive)

Finish(c) ==
    /\ call[c] # "none"
    /\ \E o \in OutcomesOf(call[c]) :
          Ends(c, IF o.ok THEN "returned" ELSE "raised", o.state)

(* All instructions of a step_instruction but the last. *)
StepOnce(c) ==
    /\ call[c] = "step_instruction" /\ alive
    /\ can_transition(state, "halted") /\ state' = "halted"
    /\ UNCHANGED <<call, answer>> /\ MayDie

Cancel(c) ==
    /\ call[c] # "none"
    /\ \E s \in CancelStates(call[c], state) : Ends(c, "cancelled", s)

(* A reset on a backend without a reset path never suspends. *)
ResetAtOnce(c) ==
    /\ call[c] = "none"
    /\ \E o \in ResetOutcomes(state) :
          Ends(c, IF o.ok THEN "returned" ELSE "raised", o.state)

Dies == alive /\ alive' = FALSE /\ UNCHANGED <<state, call, answer>>

Next ==
    \/ \E c \in Callers :
          \/ Connect(c) \/ Finish(c) \/ StepOnce(c) \/ Cancel(c)
          \/ ResetAtOnce(c)
          \/ \E op \in SessionOperation : Call(c, op)
    \/ Dies

Spec == Init /\ [][Next]_<<state, alive, call, answer>>
=============================================================================
