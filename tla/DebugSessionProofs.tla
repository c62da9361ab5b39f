------------------------- MODULE DebugSessionProofs -------------------------
(***************************************************************************)
(* The debug session for any tasks, operations and number of calls: its    *)
(* types, that stops are shown in order, and that it implements the        *)
(* contract the tool service is modelled with.                             *)
(***************************************************************************)
EXTENDS DebugSession, SequenceTheorems, TLAPS

-----------------------------------------------------------------------------
(***************************************************************************)
(* The inductive invariant.                                                *)
(***************************************************************************)
Command ==
    [cmd : {"target-select", "interrupt", "continue", "step", "reset-halt",
            "reset-run", "read", "break", "write", "frame", "disassemble", "exit"},
     owner : Tasks \cup {NoTask}]
Record == [owner : Tasks \cup {NoTask}, ok : BOOLEAN, frame : Nat]

SessionInv ==
    /\ state \in TargetState /\ registered \in BOOLEAN /\ calls \in Nat
    /\ lost \subseteq {"unsent", "timeout", "garbage", "cancelled"}
    /\ gdb \in {"alive", "dead"}
    /\ target \in {"halted", "running", "stepping", "stopping"}

(* A task that is not idle has an operation and is at a step of it; only a *)
(* disconnect closes.                                                      *)
TaskInv ==
    /\ op \in [Tasks -> Operation \cup {"none"}]
    /\ at \in [Tasks -> Nat]
    /\ phase \in [Tasks -> {"idle", "waiting", "reading"} \cup Closing]
    /\ answer \in [Tasks -> {"none", "returned", "raised", "cancelled"}]
    /\ window \in [Tasks -> {"none", "open", "torn"}]
    /\ \A t \in Tasks :
          /\ op[t] = "none" <=> phase[t] = "idle"
          /\ op[t] = "none" => at[t] = 1
          /\ op[t] # "none" => at[t] \in DOMAIN Script[op[t]]
          /\ phase[t] \in Closing => op[t] = "disconnect_target"

(* Until the first call nothing has happened. *)
StartInv ==
    calls = 0 => state = "disconnected" /\ \A t \in Tasks : op[t] = "none"

(* A task is in the line while it is in execute, and once; only the first   *)
(* one reads.                                                               *)
LineInv ==
    /\ line \in Seq(Tasks)
    /\ \A i, j \in DOMAIN line : line[i] = line[j] => i = j
    /\ \A i \in DOMAIN line : phase[line[i]] \in {"waiting", "reading"}
    /\ \A t \in Tasks :
          /\ phase[t] = "reading" => line # <<>> /\ line[1] = t
          /\ phase[t] = "waiting" => \E i \in DOMAIN line : line[i] = t

(* The stops in the pipe are in order, and none is older than the one that *)
(* was shown last or than the one a reading task has seen first.           *)
StopInv ==
    /\ stops \in Nat /\ shown \in 0..stops
    /\ frame \in [Tasks -> 0..stops]
    /\ stdin \in Seq(Command) /\ stdout \in Seq(Record)
    /\ \A i \in DOMAIN stdout :
          /\ stdout[i].frame \in 0..stops
          /\ stdout[i].frame # 0 =>
                /\ shown <= stdout[i].frame
                /\ \A j \in DOMAIN stdout :
                      i <= j /\ stdout[j].frame # 0 =>
                          stdout[i].frame <= stdout[j].frame
                /\ \A t \in Tasks :
                      phase[t] = "reading" => frame[t] <= stdout[i].frame
    /\ \A t \in Tasks :
          phase[t] = "reading" /\ frame[t] # 0 => shown <= frame[t]

Inv == SessionInv /\ TaskInv /\ StartInv /\ LineInv /\ StopInv

-----------------------------------------------------------------------------
(***************************************************************************)
(* The scripts, and a task's place in the line.                            *)
(***************************************************************************)

LEMMA Scripts ==
    ASSUME NEW o \in Operation, NEW i \in DOMAIN Script[o]
    PROVE  /\ i \in Nat /\ i >= 1 /\ i <= Len(Script[o]) /\ Len(Script[o]) \in Nat
           /\ \A j \in Nat : j >= 1 /\ j <= Len(Script[o]) => j \in DOMAIN Script[o]
           /\ \/ o = "connect_target" /\ Len(Script[o]) = 1 /\ Script[o][i] = "target-select"
              \/ o = "halt" /\ Len(Script[o]) = 1 /\ Script[o][i] = "interrupt"
              \/ o = "resume" /\ Len(Script[o]) = 2 /\ i = 1 /\ Script[o][i] = "continue"
              \/ o = "resume" /\ Len(Script[o]) = 2 /\ i = 2 /\ Script[o][i] = "interrupt"
              \/ o = "resume_unattended" /\ Len(Script[o]) = 1 /\ Script[o][i] = "continue"
              \/ o = "step_instruction" /\ Len(Script[o]) = 2 /\ Script[o][i] = "step"
              \/ o = "reset_halt" /\ Len(Script[o]) = 1 /\ Script[o][i] = "reset-halt"
              \/ o = "reset_run" /\ Len(Script[o]) = 1 /\ Script[o][i] = "reset-run"
              \/ /\ o \in {"read_memory", "set_breakpoint", "write_memory"}
                 /\ Len(Script[o]) = 1 /\ Script[o][i] \in {"read", "break", "write"}
              \/ /\ o = "compare_write" /\ Len(Script[o]) = 2
                 /\ Script[o][i] \in {"read", "write"}
              \/ /\ o = "debug_snapshot" /\ Len(Script[o]) = 4
                 /\ Script[o][i] \in {"read", "frame", "disassemble"}
              \/ o = "disconnect_target" /\ Len(Script[o]) = 1 /\ Script[o][i] = "exit"
  <1>1. /\ Operation = {"connect_target", "halt", "resume", "resume_unattended",
                        "step_instruction", "reset_halt", "reset_run",
                        "read_memory", "set_breakpoint", "write_memory",
                        "compare_write", "debug_snapshot", "disconnect_target"}
        /\ Script["connect_target"] = <<"target-select">>
        /\ Script["halt"] = <<"interrupt">>
        /\ Script["resume"] = <<"continue", "interrupt">>
        /\ Script["resume_unattended"] = <<"continue">>
        /\ Script["step_instruction"] = <<"step", "step">>
        /\ Script["reset_halt"] = <<"reset-halt">>
        /\ Script["reset_run"] = <<"reset-run">>
        /\ Script["read_memory"] = <<"read">>
        /\ Script["set_breakpoint"] = <<"break">>
        /\ Script["write_memory"] = <<"write">>
        /\ Script["compare_write"] = <<"read", "write">>
        /\ Script["debug_snapshot"] = <<"read", "read", "frame", "disassemble">>
        /\ Script["disconnect_target"] = <<"exit">>
    BY DEF Operation, Script, SnapshotScript
  <1>2. CASE o = "connect_target"
    <2>1. Script[o] = <<"target-select">>
      BY <1>1, <1>2
    <2>2. Len(Script[o]) = 1 /\ DOMAIN Script[o] = 1..1
      BY <2>1
    <2> QED
      BY <1>2, <2>1, <2>2
  <1>3. CASE o = "halt"
    <2>1. Script[o] = <<"interrupt">>
      BY <1>1, <1>3
    <2>2. Len(Script[o]) = 1 /\ DOMAIN Script[o] = 1..1
      BY <2>1
    <2> QED
      BY <1>3, <2>1, <2>2
  <1>4. CASE o = "resume"
    <2>1. Script[o] = <<"continue", "interrupt">>
      BY <1>1, <1>4
    <2>2. Len(Script[o]) = 2 /\ DOMAIN Script[o] = 1..2
      BY <2>1
    <2> QED
      BY <1>4, <2>1, <2>2
  <1>5. CASE o = "resume_unattended"
    <2>1. Script[o] = <<"continue">>
      BY <1>1, <1>5
    <2>2. Len(Script[o]) = 1 /\ DOMAIN Script[o] = 1..1
      BY <2>1
    <2> QED
      BY <1>5, <2>1, <2>2
  <1>6. CASE o = "step_instruction"
    <2>1. Script[o] = <<"step", "step">>
      BY <1>1, <1>6
    <2>2. Len(Script[o]) = 2 /\ DOMAIN Script[o] = 1..2
      BY <2>1
    <2> QED
      BY <1>6, <2>1, <2>2
  <1>7. CASE o = "reset_halt"
    <2>1. Script[o] = <<"reset-halt">>
      BY <1>1, <1>7
    <2>2. Len(Script[o]) = 1 /\ DOMAIN Script[o] = 1..1
      BY <2>1
    <2> QED
      BY <1>7, <2>1, <2>2
  <1>8. CASE o = "reset_run"
    <2>1. Script[o] = <<"reset-run">>
      BY <1>1, <1>8
    <2>2. Len(Script[o]) = 1 /\ DOMAIN Script[o] = 1..1
      BY <2>1
    <2> QED
      BY <1>8, <2>1, <2>2
  <1>9. CASE o = "read_memory"
    <2>1. Script[o] = <<"read">>
      BY <1>1, <1>9
    <2>2. Len(Script[o]) = 1 /\ DOMAIN Script[o] = 1..1
      BY <2>1
    <2> QED
      BY <1>9, <2>1, <2>2
  <1>10. CASE o = "set_breakpoint"
    <2>1. Script[o] = <<"break">>
      BY <1>1, <1>10
    <2>2. Len(Script[o]) = 1 /\ DOMAIN Script[o] = 1..1
      BY <2>1
    <2> QED
      BY <1>10, <2>1, <2>2
  <1>11. CASE o = "write_memory"
    <2>1. Script[o] = <<"write">>
      BY <1>1, <1>11
    <2>2. Len(Script[o]) = 1 /\ DOMAIN Script[o] = 1..1
      BY <2>1
    <2> QED
      BY <1>11, <2>1, <2>2
  <1>12. CASE o = "compare_write"
    <2>1. Script[o] = <<"read", "write">>
      BY <1>1, <1>12
    <2>2. Len(Script[o]) = 2 /\ DOMAIN Script[o] = 1..2
      BY <2>1
    <2> QED
      BY <1>12, <2>1, <2>2
  <1>13. CASE o = "debug_snapshot"
    <2>1. Script[o] = <<"read", "read", "frame", "disassemble">>
      BY <1>1, <1>13
    <2>2. Len(Script[o]) = 4 /\ DOMAIN Script[o] = 1..4
      BY <2>1
    <2> QED
      BY <1>13, <2>1, <2>2
  <1>14. CASE o = "disconnect_target"
    <2>1. Script[o] = <<"exit">>
      BY <1>1, <1>14
    <2>2. Len(Script[o]) = 1 /\ DOMAIN Script[o] = 1..1
      BY <2>1
    <2> QED
      BY <1>14, <2>1, <2>2
  <1> QED
    BY <1>1, <1>2, <1>3, <1>4, <1>5, <1>6, <1>7, <1>8, <1>9, <1>10, <1>11, <1>12, <1>13, <1>14 DEF Operation

LEMMA ScriptStarts ==
    ASSUME NEW o \in Operation
    PROVE  1 \in DOMAIN Script[o]
  <1>1. /\ Operation = {"connect_target", "halt", "resume", "resume_unattended",
                        "step_instruction", "reset_halt", "reset_run",
                        "read_memory", "set_breakpoint", "write_memory",
                        "compare_write", "debug_snapshot", "disconnect_target"}
        /\ Script["connect_target"] = <<"target-select">>
        /\ Script["halt"] = <<"interrupt">>
        /\ Script["resume"] = <<"continue", "interrupt">>
        /\ Script["resume_unattended"] = <<"continue">>
        /\ Script["step_instruction"] = <<"step", "step">>
        /\ Script["reset_halt"] = <<"reset-halt">>
        /\ Script["reset_run"] = <<"reset-run">>
        /\ Script["read_memory"] = <<"read">>
        /\ Script["set_breakpoint"] = <<"break">>
        /\ Script["write_memory"] = <<"write">>
        /\ Script["compare_write"] = <<"read", "write">>
        /\ Script["debug_snapshot"] = <<"read", "read", "frame", "disassemble">>
        /\ Script["disconnect_target"] = <<"exit">>
    BY DEF Operation, Script, SnapshotScript
  <1>2. /\ 1 \in DOMAIN Script["connect_target"]
        /\ 1 \in DOMAIN Script["halt"]
        /\ 1 \in DOMAIN Script["resume"]
        /\ 1 \in DOMAIN Script["resume_unattended"]
        /\ 1 \in DOMAIN Script["step_instruction"]
        /\ 1 \in DOMAIN Script["reset_halt"]
        /\ 1 \in DOMAIN Script["reset_run"]
        /\ 1 \in DOMAIN Script["read_memory"]
        /\ 1 \in DOMAIN Script["set_breakpoint"]
        /\ 1 \in DOMAIN Script["write_memory"]
        /\ 1 \in DOMAIN Script["compare_write"]
        /\ 1 \in DOMAIN Script["debug_snapshot"]
        /\ 1 \in DOMAIN Script["disconnect_target"]
    BY <1>1
  <1> QED
    BY <1>1, <1>2

LEMMA WithoutPlace ==
    ASSUME line \in Seq(Tasks), NEW t,
           \A i, j \in DOMAIN line : line[i] = line[j] => i = j
    PROVE  /\ Without(t) \in Seq(Tasks)
           /\ \A i \in DOMAIN Without(t) :
                 /\ Without(t)[i] # t
                 /\ \E j \in DOMAIN line : Without(t)[i] = line[j]
           /\ \A i, j \in DOMAIN Without(t) : Without(t)[i] = Without(t)[j] => i = j
           /\ line # <<>> /\ line[1] # t => Without(t) # <<>> /\ Without(t)[1] = line[1]
           /\ \A j \in DOMAIN line :
                 line[j] # t => \E i \in DOMAIN Without(t) : Without(t)[i] = line[j]
  <1>1. CASE ~ \E i \in DOMAIN line : line[i] = t
    <2>1. Without(t) = line
      BY <1>1 DEF Without
    <2> QED
      BY <1>1, <2>1
  <1>2. CASE \E i \in DOMAIN line : line[i] = t
    <2> DEFINE p == CHOOSE i \in DOMAIN line : line[i] = t
               w == Without(t)
    <2>1. p \in DOMAIN line /\ line[p] = t
      BY <1>2
    <2>2. w = [i \in 1..Len(line) - 1 |-> line[IF i < p THEN i ELSE i + 1]]
      BY <1>2 DEF Without
    <2>3. p \in 1..Len(line) /\ Len(line) \in Nat /\ DOMAIN line = 1..Len(line)
      BY <2>1
    <2> HIDE DEF p, w
    <2>4. /\ Len(line) - 1 \in Nat
          /\ \A i \in 1..Len(line) - 1 :
                /\ (IF i < p THEN i ELSE i + 1) \in DOMAIN line
                /\ line[IF i < p THEN i ELSE i + 1] \in Tasks
      BY <2>3
    <2>5. w \in Seq(Tasks) /\ Len(w) = Len(line) - 1 /\ DOMAIN w = 1..Len(line) - 1
      BY <2>2, <2>4
    <2>6. \A i \in 1..Len(line) - 1 : w[i] = IF i < p THEN line[i] ELSE line[i + 1]
      BY <2>2
    <2>7. \A i \in DOMAIN w : w[i] # t /\ \E j \in DOMAIN line : w[i] = line[j]
      BY <2>1, <2>3, <2>5, <2>6
    <2>8. ASSUME NEW i \in DOMAIN w, NEW j \in DOMAIN w, w[i] = w[j]
          PROVE  i = j
      <3> DEFINE from(k) == IF k < p THEN k ELSE k + 1
      <3>1. \A k \in 1..Len(line) - 1 : from(k) \in DOMAIN line /\ w[k] = line[from(k)]
        BY <2>3, <2>5, <2>6
      <3>2. from(i) = from(j)
        BY <2>5, <2>6, <2>8, <3>1
      <3> QED
        BY <2>3, <2>5, <2>6, <3>2
    <2>9. line # <<>> /\ line[1] # t => w # <<>> /\ w[1] = line[1]
      BY <2>1, <2>3, <2>5, <2>6
    <2>10. ASSUME NEW j \in DOMAIN line, line[j] # t
           PROVE  \E i \in DOMAIN w : w[i] = line[j]
      <3>1. CASE j < p
        <4>1. j \in DOMAIN w /\ w[j] = line[j]
          BY <2>3, <2>5, <2>6, <3>1
        <4> QED
          BY <4>1
      <3>2. CASE j > p
        <4>1. j - 1 \in DOMAIN w /\ w[j - 1] = line[j]
          BY <2>3, <2>5, <2>6, <3>2
        <4> QED
          BY <4>1
      <3> QED
        BY <2>1, <2>3, <2>10, <3>1, <3>2
    <2> QED
      BY <2>5, <2>7, <2>8, <2>9, <2>10 DEF w
  <1> QED
    BY <1>1, <1>2

-----------------------------------------------------------------------------
(***************************************************************************)
(* What the contract allows.                                               *)
(***************************************************************************)
Alive == gdb = "alive" \/ stdout # <<>>

Calling == [t \in Tasks |-> IF op[t] = "none" THEN "none" ELSE Tool(op[t])]

LEMMA SameMoves ==
    /\ \A s, u : Contract!can_transition(s, u) <=> can_transition(s, u)
    /\ \A s, u : Contract!Moved(s, u) = Moved(s, u)
    /\ \A s : Contract!Returns(s) = Returns(s) /\ Contract!Raises(s) = Raises(s)
  <1>1. Contract!LEGAL_TRANSITIONS = LEGAL_TRANSITIONS
    BY Zenon DEF Contract!LEGAL_TRANSITIONS, LEGAL_TRANSITIONS,
                 Contract!TargetState, TargetState
  <1>2. \A s, u : Contract!can_transition(s, u) <=> can_transition(s, u)
    BY <1>1 DEF Contract!can_transition, can_transition
  <1>3. \A s : Contract!Returns(s) = Returns(s) /\ Contract!Raises(s) = Raises(s)
    BY DEF Contract!Returns, Returns, Contract!Raises, Raises
  <1>4. \A s, u : Contract!Moved(s, u) = Moved(s, u)
    BY <1>2, <1>3 DEF Contract!Moved, Moved
  <1> QED
    BY <1>2, <1>3, <1>4

LEMMA Moves ==
    /\ \A s, u : Moved(s, u) = IF can_transition(s, u) THEN Returns(u) ELSE Raises(s)
    /\ \A s : /\ Returns(s).ok = TRUE /\ Returns(s).state = s
             /\ Raises(s).ok = FALSE /\ Raises(s).state = s
    /\ \A s \in TargetState : can_transition(s, s) /\ can_transition(s, "disconnected")
  <1>1. \A s, u : Moved(s, u) = IF can_transition(s, u) THEN Returns(u) ELSE Raises(s)
    BY DEF Moved
  <1>2. \A s : /\ Returns(s).ok = TRUE /\ Returns(s).state = s
             /\ Raises(s).ok = FALSE /\ Raises(s).state = s
    BY DEF Returns, Raises
  <1>3. \A s \in TargetState : can_transition(s, s) /\ can_transition(s, "disconnected")
    BY DEF can_transition, LEGAL_TRANSITIONS, TargetState
  <1> QED
    BY <1>1, <1>2, <1>3

LEMMA Outcomes ==
    ASSUME NEW o \in Operation
    PROVE  /\ o # "disconnect_target" => Raises(state) \in Contract!OutcomesOf(Tool(o))
           /\ o = "disconnect_target" =>
                 /\ Returns("disconnected") \in Contract!OutcomesOf(Tool(o))
                 /\ Raises("disconnected") \in Contract!OutcomesOf(Tool(o))
           /\ o \in {"resume", "resume_unattended"} =>
                 /\ Moved(state, "degraded") \in Contract!OutcomesOf(Tool(o))
                 /\ Moved(state, "unknown") \in Contract!OutcomesOf(Tool(o))
           /\ o = "debug_snapshot" => Returns(state) \in Contract!OutcomesOf(Tool(o))
           /\ Alive =>
                 /\ o = "connect_target" =>
                       Moved(state, "unknown") \in Contract!OutcomesOf(Tool(o))
                 /\ o \in {"halt", "step_instruction", "reset_halt"} =>
                       Moved(state, "halted") \in Contract!OutcomesOf(Tool(o))
                 /\ o \in {"resume", "resume_unattended", "reset_run"} =>
                       Moved(state, "running") \in Contract!OutcomesOf(Tool(o))
                 /\ o = "resume" /\ Moved(state, "halted").ok =>
                       Moved(state, "halted") \in Contract!OutcomesOf(Tool(o))
                 /\ o \in {"read_memory", "set_breakpoint", "write_memory",
                           "compare_write"} =>
                       Returns(state) \in Contract!OutcomesOf(Tool(o))
  <1>1. CASE o \in {"connect_target"}
    BY <1>1, SameMoves DEF Tool, Alive, Contract!OutcomesOf
  <1>2. CASE o \in {"halt", "step_instruction"}
    BY <1>2, SameMoves DEF Tool, Alive, Contract!OutcomesOf,
       Contract!OpOutcomes,
       Contract!DeadOutcomes,
       Contract!HaltOutcomes
  <1>3. CASE o \in {"resume", "resume_unattended"}
    BY <1>3, SameMoves DEF Tool, Alive, Contract!OutcomesOf,
       Contract!OpOutcomes,
       Contract!DeadOutcomes,
       Contract!ResumeOutcomes
  <1>4. CASE o \in {"reset_halt", "reset_run"}
    BY <1>4, SameMoves DEF Tool, Alive, Contract!OutcomesOf,
       Contract!OpOutcomes,
       Contract!DeadOutcomes,
       Contract!ResetOutcomes
  <1>5. CASE o \in {"read_memory", "set_breakpoint", "write_memory", "compare_write", "debug_snapshot"}
    BY <1>5, SameMoves DEF Tool, Alive, Contract!OutcomesOf,
       Contract!OpOutcomes,
       Contract!DeadOutcomes,
       Contract!NeutralOutcomes
  <1>6. CASE o \in {"disconnect_target"}
    BY <1>6, SameMoves DEF Tool, Alive, Contract!OutcomesOf,
       Contract!OpOutcomes,
       Contract!DeadOutcomes,
       Contract!DisconnectOutcomes
  <1> QED
    BY <1>1, <1>2, <1>3, <1>4, <1>5, <1>6 DEF Operation, Script

LEMMA OutcomeStates ==
    ASSUME state \in TargetState, NEW o \in Operation,
           NEW r \in Contract!OutcomesOf(Tool(o))
    PROVE  r.state \in TargetState
  <1>1. \A u : Moved(state, u).state \in {state, u}
    BY Moves
  <1>2. \A s : Returns(s).state = s /\ Raises(s).state = s
    BY Moves
  <1>3. \/ \E u \in TargetState : r = Moved(state, u)
        \/ \E s \in TargetState : r = Raises(s) \/ r = Returns(s)
    BY SameMoves
       DEF TargetState, Contract!OutcomesOf, Contract!OpOutcomes, Contract!DeadOutcomes,
           Contract!HaltOutcomes, Contract!ResumeOutcomes, Contract!ResetOutcomes,
           Contract!DisconnectOutcomes, Contract!NeutralOutcomes
  <1> QED
    BY <1>1, <1>2, <1>3

-----------------------------------------------------------------------------
(***************************************************************************)
(* When a command has ended, an operation goes on with its next command,   *)
(* closes the session, or ends with an outcome of the contract.            *)
(***************************************************************************)
Verdict(r) == IF r.ok THEN "returned" ELSE "raised"

Advances(t) ==
    /\ at[t] < Len(Script[op[t]]) /\ GoOn(t)
    /\ \/ state' = state
       \/ /\ op[t] = "step_instruction" /\ Alive
          /\ can_transition(state, "halted") /\ state' = "halted"

Closes(t) ==
    /\ op[t] = "disconnect_target" /\ state' = state
    /\ \E how \in Closing : Close(t, how)

Concludes(t) ==
    \E r \in Contract!OutcomesOf(Tool(op[t])) :
        state' = r.state /\ End(t, Verdict(r))

Result(t) == Advances(t) \/ Closes(t) \/ Concludes(t)

LEMMA SettleConcludes ==
    ASSUME NEW t, NEW s, Moved(state, s) \in Contract!OutcomesOf(Tool(op[t])),
           Settle(t, s)
    PROVE  Concludes(t)
  <1>1. state' = Moved(state, s).state /\ End(t, Verdict(Moved(state, s)))
    BY DEF Settle, Verdict
  <1> QED
    BY <1>1 DEF Concludes

LEMMA EndConcludes ==
    ASSUME NEW t, UNCHANGED state
    PROVE  /\ Returns(state) \in Contract!OutcomesOf(Tool(op[t])) /\ End(t, "returned")
                 => Concludes(t)
           /\ Raises(state) \in Contract!OutcomesOf(Tool(op[t])) /\ End(t, "raised")
                 => Concludes(t)
  <1>1. /\ Verdict(Returns(state)) = "returned" /\ Returns(state).state = state
        /\ Verdict(Raises(state)) = "raised" /\ Raises(state).state = state
    BY Moves DEF Verdict
  <1> QED
    BY <1>1 DEF Concludes

LEMMA RaisedResult ==
    ASSUME NEW t, op[t] \in Operation, at[t] \in DOMAIN Script[op[t]],
           NEW why, Raised(t, why)
    PROVE  Result(t)
  <1>1. \/ op[t] = "resume" /\ at[t] = 1 /\ GoOn(t) /\ UNCHANGED state
        \/ op[t] = "resume_unattended" /\ Settle(t, "unknown")
        \/ op[t] = "resume" /\ at[t] = 2 /\ Settle(t, "degraded")
        \/ Current(t) \in {"frame", "disassemble"} /\ Proceed(t) /\ UNCHANGED state
        \/ Current(t) = "exit" /\ Close(t, "closing-failed") /\ UNCHANGED state
        \/ Current(t) # "exit" /\ End(t, "raised") /\ UNCHANGED state
    BY Zenon DEF Raised, UnattendedTimedOut, ExitFailed
  <1>2. CASE op[t] = "resume" /\ at[t] = 1 /\ GoOn(t) /\ UNCHANGED state
    BY <1>2, Scripts DEF Result, Advances
  <1>3. CASE op[t] = "resume_unattended" /\ Settle(t, "unknown")
    BY <1>3, Outcomes, SettleConcludes DEF Result
  <1>4. CASE op[t] = "resume" /\ at[t] = 2 /\ Settle(t, "degraded")
    BY <1>4, Outcomes, SettleConcludes DEF Result
  <1>5. CASE Current(t) \in {"frame", "disassemble"} /\ Proceed(t) /\ UNCHANGED state
    <2>1. op[t] = "debug_snapshot"
      BY <1>5, Scripts DEF Current
    <2>2. Returns(state) \in Contract!OutcomesOf(Tool(op[t]))
      BY <2>1, Outcomes
    <2>3. (at[t] < Len(Script[op[t]]) /\ GoOn(t)) \/ End(t, "returned")
      BY <1>5, Zenon DEF Proceed
    <2> QED
      BY <1>5, <2>2, <2>3, EndConcludes DEF Result, Advances
  <1>6. CASE Current(t) = "exit" /\ Close(t, "closing-failed") /\ UNCHANGED state
    BY <1>6, Scripts DEF Current, Result, Closes, Closing
  <1>7. CASE Current(t) # "exit" /\ End(t, "raised") /\ UNCHANGED state
    <2>1. op[t] # "disconnect_target"
      BY <1>7, Scripts DEF Current
    <2> QED
      BY <1>7, <2>1, Outcomes, EndConcludes DEF Result
  <1> QED
    BY <1>1, <1>2, <1>3, <1>4, <1>5, <1>6, <1>7

LEMMA SuccessOf ==
    ASSUME NEW t, op[t] \in Operation, at[t] \in DOMAIN Script[op[t]]
    PROVE  \/ op[t] = "connect_target" /\ Success(t) = Moved(state, "unknown")
           \/ op[t] \in {"halt", "reset_halt"} /\ Success(t) = Moved(state, "halted")
           \/ op[t] = "step_instruction" /\ Success(t) = Moved(state, "halted")
           \/ op[t] = "resume" /\ Success(t) = Moved(state, "running")
           \/ op[t] = "resume" /\ Success(t) = Moved(state, "halted")
           \/ /\ op[t] \in {"resume_unattended", "reset_run"}
              /\ Success(t) = Moved(state, "running")
           \/ /\ op[t] \in {"read_memory", "set_breakpoint", "write_memory",
                            "compare_write", "debug_snapshot"}
              /\ Success(t) = Returns(state)
           \/ /\ op[t] = "disconnect_target" /\ Current(t) = "exit"
              /\ Success(t) = Returns(state)
  <1> DEFINE cmd == Current(t)
  <1>1. Success(t) =
          IF cmd \in {"target-select", "interrupt", "continue", "step", "reset-halt",
                      "reset-run"}
          THEN Moved(state, Successor[cmd]) ELSE Returns(state)
    BY DEF Success, Successor
  <1>2. /\ Successor["target-select"] = "unknown"
        /\ Successor["continue"] = "running" /\ Successor["reset-run"] = "running"
        /\ Successor["interrupt"] = "halted" /\ Successor["step"] = "halted"
        /\ Successor["reset-halt"] = "halted"
    BY DEF Successor
  <1>3. cmd = Script[op[t]][at[t]]
    BY DEF Current
  <1> QED
    BY <1>1, <1>2, <1>3, Scripts DEF Current

LEMMA AnsweredResult ==
    ASSUME NEW t, op[t] \in Operation, at[t] \in DOMAIN Script[op[t]], Alive,
           NEW ok, Answered(t, ok)
    PROVE  Result(t)
  <1>1. CASE ~ (ok /\ Success(t).ok)
    <2>1. Raised(t, "error")
      BY <1>1, Zenon DEF Answered
    <2> QED
      BY <2>1, RaisedResult
  <1>2. CASE ok /\ Success(t).ok
    <2>1. state' = Success(t).state
      BY <1>2, Zenon DEF Answered
    <2>2. \/ op[t] = "compare_write" /\ End(t, "raised")
          \/ Current(t) = "exit" /\ Close(t, "closing")
          \/ Current(t) # "exit" /\ End(t, "returned")
          \/ op[t] # "resume" /\ at[t] < Len(Script[op[t]]) /\ GoOn(t)
      BY <1>2, Zenon DEF Answered, Mismatch, Proceed
    <2>3. CASE op[t] = "compare_write" /\ End(t, "raised")
      <3>1. UNCHANGED state /\ Raises(state) \in Contract!OutcomesOf(Tool(op[t]))
        BY <2>1, <2>3, SuccessOf, Moves, Outcomes
      <3> QED
        BY <2>3, <3>1, EndConcludes DEF Result
    <2>4. CASE Current(t) = "exit" /\ Close(t, "closing")
      <3>1. op[t] = "disconnect_target"
        BY <2>4, Scripts DEF Current
      <3>2. state' = state
        BY <2>1, <3>1, SuccessOf, Moves
      <3> QED
        BY <2>4, <3>1, <3>2 DEF Result, Closes, Closing
    <2>5. CASE Current(t) # "exit" /\ End(t, "returned")
      <3>1. Success(t) \in Contract!OutcomesOf(Tool(op[t]))
        BY <1>2, <2>5, SuccessOf, Outcomes
      <3>2. Verdict(Success(t)) = "returned"
        BY <1>2 DEF Verdict
      <3> QED
        BY <2>1, <2>5, <3>1, <3>2 DEF Result, Concludes
    <2>6. CASE op[t] # "resume" /\ at[t] < Len(Script[op[t]]) /\ GoOn(t)
      <3>1. op[t] \in {"step_instruction", "compare_write", "debug_snapshot"}
        BY <2>6, Scripts
      <3>2. CASE op[t] = "step_instruction"
        <4>1. Success(t) = Moved(state, "halted")
          BY <3>2, SuccessOf
        <4>2. can_transition(state, "halted") /\ state' = "halted"
          BY <1>2, <2>1, <4>1, Moves
        <4> QED
          BY <2>6, <3>2, <4>2 DEF Result, Advances
      <3>3. CASE op[t] \in {"compare_write", "debug_snapshot"}
        <4>1. state' = state
          BY <2>1, <3>3, SuccessOf, Moves
        <4> QED
          BY <2>6, <4>1 DEF Result, Advances
      <3> QED
        BY <3>1, <3>2, <3>3
    <2> QED
      BY <2>2, <2>3, <2>4, <2>5, <2>6
  <1> QED
    BY <1>1, <1>2

-----------------------------------------------------------------------------
(***************************************************************************)
(* What an operation that goes on, closes or ends does to the tasks and to *)
(* the line.                                                               *)
(***************************************************************************)
MovesOn(t) == at[t] < Len(Script[op[t]]) /\ GoOn(t)

MovesToClose(t) == op[t] = "disconnect_target" /\ \E how \in Closing : Close(t, how)

MovesOut(t) == \E v \in {"returned", "raised", "cancelled"} : End(t, v)

Moving(t) == MovesOn(t) \/ MovesToClose(t) \/ MovesOut(t)

LEMMA ResultMoves ==
    ASSUME NEW t, Result(t)
    PROVE  Moving(t)
  <1>1. \A r : Verdict(r) \in {"returned", "raised", "cancelled"}
    BY DEF Verdict
  <1> QED
    BY <1>1 DEF Result, Advances, Closes, Concludes, Moving, MovesOn, MovesToClose, MovesOut

LEMMA OneTask ==
    ASSUME TaskInv, NEW t \in Tasks,
           op' \in [Tasks -> Operation \cup {"none"}],
           at' \in [Tasks -> Nat],
           phase' \in [Tasks -> {"idle", "waiting", "reading"} \cup Closing],
           answer' \in [Tasks -> {"none", "returned", "raised", "cancelled"}],
           window' \in [Tasks -> {"none", "open", "torn"}],
           \A u \in Tasks :
              u # t => op'[u] = op[u] /\ at'[u] = at[u] /\ phase'[u] = phase[u],
           op'[t] = "none" <=> phase'[t] = "idle",
           op'[t] = "none" => at'[t] = 1,
           op'[t] # "none" => at'[t] \in DOMAIN Script[op'[t]],
           phase'[t] \in Closing => op'[t] = "disconnect_target"
    PROVE  TaskInv'
  <1>1. \A u \in Tasks : u # t =>
              /\ op'[u] = "none" <=> phase'[u] = "idle"
              /\ op'[u] = "none" => at'[u] = 1
              /\ op'[u] # "none" => at'[u] \in DOMAIN Script[op'[u]]
              /\ phase'[u] \in Closing => op'[u] = "disconnect_target"
    BY DEF TaskInv
  <1> QED
    BY <1>1 DEF TaskInv

LEMMA MovingTasks ==
    ASSUME TaskInv, NEW t \in Tasks, op[t] # "none", Moving(t)
    PROVE  /\ TaskInv'
           /\ registered \in BOOLEAN => registered' \in BOOLEAN
           /\ \A u \in Tasks : phase'[u] = "reading" => u # t /\ phase[u] = "reading"
           /\ \A u \in Tasks : u # t => phase'[u] = phase[u]
  <1>1. op[t] \in Operation /\ at[t] \in DOMAIN Script[op[t]]
    BY DEF TaskInv
  <1>2. CASE MovesOn(t)
    <2>1. at[t] + 1 \in DOMAIN Script[op[t]] /\ at[t] + 1 \in Nat
      BY <1>1, <1>2, Scripts DEF MovesOn
    <2>2. /\ op' = op /\ answer' = answer /\ window' = window
          /\ registered' = registered
          /\ at' = [at EXCEPT ![t] = at[t] + 1]
          /\ phase' = [phase EXCEPT ![t] = "waiting"]
      BY <1>2 DEF MovesOn, GoOn
    <2>3. /\ at' \in [Tasks -> Nat]
          /\ phase' \in [Tasks -> {"idle", "waiting", "reading"} \cup Closing]
          /\ \A u \in Tasks : u # t => phase'[u] = phase[u] /\ at'[u] = at[u]
          /\ phase'[t] = "waiting" /\ at'[t] = at[t] + 1
      BY <2>1, <2>2 DEF TaskInv
    <2>4. TaskInv'
      BY <1>1, <2>1, <2>2, <2>3, OneTask DEF TaskInv, Closing
    <2> QED
      BY <2>2, <2>3, <2>4
  <1>3. CASE MovesToClose(t)
    <2>1. /\ UNCHANGED <<op, at, answer, registered, window>>
          /\ op[t] = "disconnect_target"
      BY <1>3 DEF MovesToClose, Close
    <2>2. PICK how \in Closing : phase' = [phase EXCEPT ![t] = how]
      BY <1>3 DEF MovesToClose, Close
    <2>3. /\ phase' \in [Tasks -> {"idle", "waiting", "reading"} \cup Closing]
          /\ \A u \in Tasks : u # t => phase'[u] = phase[u]
          /\ phase'[t] \in Closing
      BY <2>2 DEF TaskInv
    <2>4. phase'[t] # "idle" /\ phase'[t] # "reading"
      BY <2>3 DEF Closing
    <2>5. TaskInv'
      BY <1>1, <2>1, <2>3, <2>4, OneTask DEF TaskInv
    <2> QED
      BY <2>1, <2>3, <2>4, <2>5
  <1>4. CASE MovesOut(t)
    <2>1. PICK v \in {"returned", "raised", "cancelled"} : End(t, v)
      BY <1>4 DEF MovesOut
    <2>2. /\ op' = [op EXCEPT ![t] = "none"]
          /\ at' = [at EXCEPT ![t] = 1]
          /\ phase' = [phase EXCEPT ![t] = "idle"]
          /\ window' = [window EXCEPT ![t] = "none"]
          /\ answer' = [answer EXCEPT ![t] = v]
          /\ registered' \in {registered, TRUE, FALSE}
      BY <2>1 DEF End
    <2>3. /\ op' \in [Tasks -> Operation \cup {"none"}]
          /\ at' \in [Tasks -> Nat]
          /\ phase' \in [Tasks -> {"idle", "waiting", "reading"} \cup Closing]
          /\ answer' \in [Tasks -> {"none", "returned", "raised", "cancelled"}]
          /\ window' \in [Tasks -> {"none", "open", "torn"}]
          /\ op'[t] = "none" /\ at'[t] = 1 /\ phase'[t] = "idle"
          /\ \A u \in Tasks :
                u # t => op'[u] = op[u] /\ at'[u] = at[u] /\ phase'[u] = phase[u]
      BY <2>1, <2>2 DEF TaskInv
    <2>4. TaskInv'
      BY <2>3, OneTask DEF Closing
    <2> QED
      BY <2>2, <2>3, <2>4
  <1> QED
    BY <1>2, <1>3, <1>4 DEF Moving

LEMMA MovingLine ==
    ASSUME TaskInv, LineInv, NEW t \in Tasks, op[t] # "none", Moving(t)
    PROVE  LineInv'
  <1> DEFINE w == Without(t)
  <1>1. /\ w \in Seq(Tasks)
        /\ \A i \in DOMAIN w : w[i] # t /\ \E j \in DOMAIN line : w[i] = line[j]
        /\ \A i, j \in DOMAIN w : w[i] = w[j] => i = j
        /\ line # <<>> /\ line[1] # t => w # <<>> /\ w[1] = line[1]
        /\ \A j \in DOMAIN line :
              line[j] # t => \E i \in DOMAIN w : w[i] = line[j]
    BY WithoutPlace DEF LineInv
  <1>2. /\ \A u \in Tasks : phase'[u] = "reading" => u # t /\ phase[u] = "reading"
        /\ \A u \in Tasks : u # t => phase'[u] = phase[u]
    BY MovingTasks
  <1>3. \A i \in DOMAIN w : phase'[w[i]] \in {"waiting", "reading"} /\ w[i] \in Tasks
    BY <1>1, <1>2 DEF LineInv
  <1>4. \A u \in Tasks : phase'[u] = "reading" => w # <<>> /\ w[1] = u
    BY <1>1, <1>2 DEF LineInv
  <1>5. \A u \in Tasks : phase'[u] = "waiting" /\ u # t =>
           \E i \in DOMAIN w : w[i] = u
    <2> SUFFICES ASSUME NEW u \in Tasks, phase'[u] = "waiting", u # t
                 PROVE  \E i \in DOMAIN w : w[i] = u
      OBVIOUS
    <2>1. phase[u] = "waiting"
      BY <1>2
    <2>2. PICK j \in DOMAIN line : line[j] = u
      BY <2>1 DEF LineInv
    <2> QED
      BY <1>1, <2>2
  <1> HIDE DEF w
  <1>6. CASE line' = w /\ phase'[t] # "waiting"
    BY <1>1, <1>3, <1>4, <1>6, <1>5 DEF LineInv
  <1>7. CASE line' = Append(w, t) /\ phase'[t] = "waiting"
    <2>1. /\ line' \in Seq(Tasks) /\ Len(line') = Len(w) + 1
          /\ Len(w) \in Nat /\ DOMAIN w = 1..Len(w) /\ DOMAIN line' = 1..Len(w) + 1
          /\ \A i \in 1..Len(w) : line'[i] = w[i]
          /\ line'[Len(w) + 1] = t
      BY <1>1, <1>7
    <2>2. \A i, j \in DOMAIN line' : line'[i] = line'[j] => i = j
      BY <1>1, <2>1
    <2>3. \A i \in DOMAIN line' : phase'[line'[i]] \in {"waiting", "reading"}
      BY <1>3, <1>7, <2>1
    <2>4. \A u \in Tasks : phase'[u] = "reading" => line' # <<>> /\ line'[1] = u
      BY <1>1, <1>4, <2>1
    <2>5. \A u \in Tasks : phase'[u] = "waiting" => \E i \in DOMAIN line' : line'[i] = u
      <3> SUFFICES ASSUME NEW u \in Tasks, phase'[u] = "waiting"
                   PROVE  \E i \in DOMAIN line' : line'[i] = u
        OBVIOUS
      <3>1. CASE u = t
        BY <2>1, <3>1
      <3>2. CASE u # t
        <4>1. PICK i \in DOMAIN w : w[i] = u
          BY <1>5, <3>2
        <4>2. i \in DOMAIN line' /\ line'[i] = u
          BY <2>1, <4>1
        <4> QED
          BY <4>2
      <3> QED
        BY <3>1, <3>2
    <2> QED
      BY <2>1, <2>2, <2>3, <2>4, <2>5 DEF LineInv
  <1>8. \/ line' = w /\ phase'[t] # "waiting"
        \/ line' = Append(w, t) /\ phase'[t] = "waiting"
    BY DEF w, Moving, MovesOn, MovesToClose, MovesOut, GoOn, Close, End, TaskInv,
           Closing
  <1> QED
    BY <1>6, <1>7, <1>8

LEMMA StartsTasks ==
    ASSUME TaskInv, LineInv, NEW t \in Tasks, NEW o \in Operation, Starts(t, o)
    PROVE  TaskInv' /\ LineInv'
  <1>1. 1 \in DOMAIN Script[o]
    BY ScriptStarts
  <1>2. op[t] = "none" /\ at[t] = 1 /\ phase[t] = "idle"
    BY DEF Starts, TaskInv
  <1>3. TaskInv'
    <2>1. /\ op' = [op EXCEPT ![t] = o] /\ phase' = [phase EXCEPT ![t] = "waiting"]
          /\ UNCHANGED <<at, answer, window>>
      BY DEF Starts
    <2>2. /\ op' \in [Tasks -> Operation \cup {"none"}]
          /\ phase' \in [Tasks -> {"idle", "waiting", "reading"} \cup Closing]
          /\ op'[t] = o /\ at'[t] = 1 /\ phase'[t] = "waiting" /\ o # "none"
          /\ \A u \in Tasks :
                u # t => op'[u] = op[u] /\ at'[u] = at[u] /\ phase'[u] = phase[u]
      BY <1>2, <2>1 DEF TaskInv, Operation, Script
    <2> QED
      BY <1>1, <2>1, <2>2, OneTask DEF TaskInv, Closing
  <1>4. /\ line' \in Seq(Tasks) /\ Len(line) \in Nat
        /\ DOMAIN line = 1..Len(line) /\ DOMAIN line' = 1..Len(line) + 1
        /\ \A i \in 1..Len(line) : line'[i] = line[i]
        /\ line'[Len(line) + 1] = t
    BY DEF Starts, LineInv
  <1>5. /\ \A u \in Tasks : u # t => phase'[u] = phase[u]
        /\ phase'[t] = "waiting"
    BY DEF Starts, TaskInv
  <1>6. \A i \in DOMAIN line : line[i] # t /\ line[i] \in Tasks
    BY <1>2 DEF LineInv
  <1>7. \A i, j \in DOMAIN line' : line'[i] = line'[j] => i = j
    BY <1>4, <1>6 DEF LineInv
  <1>8. \A i \in DOMAIN line' : phase'[line'[i]] \in {"waiting", "reading"}
    BY <1>4, <1>5, <1>6 DEF LineInv
  <1>9. \A u \in Tasks : phase'[u] = "reading" => line' # <<>> /\ line'[1] = u
    BY <1>4, <1>5 DEF LineInv
  <1>10. \A u \in Tasks : phase'[u] = "waiting" => \E i \in DOMAIN line' : line'[i] = u
    <2> SUFFICES ASSUME NEW u \in Tasks, phase'[u] = "waiting"
                 PROVE  \E i \in DOMAIN line' : line'[i] = u
      OBVIOUS
    <2>1. CASE u = t
      BY <1>4, <2>1
    <2>2. CASE u # t
      <3>1. PICK i \in DOMAIN line : line[i] = u
        BY <1>5, <2>2 DEF LineInv
      <3> QED
        BY <1>4, <3>1
    <2> QED
      BY <2>1, <2>2
  <1> QED
    BY <1>3, <1>4, <1>7, <1>8, <1>9, <1>10 DEF LineInv

-----------------------------------------------------------------------------
(***************************************************************************)
(* The order of the stops in the pipe.                                     *)
(***************************************************************************)

LEMMA StopsUntouched ==
    ASSUME StopInv, UNCHANGED <<stops, shown, frame, stdin, stdout>>,
           \A u \in Tasks : phase'[u] = "reading" => phase[u] = "reading"
    PROVE  StopInv'
  BY DEF StopInv

LEMMA PipeOrphaned ==
    ASSUME NEW t, NEW S, NEW pipe \in Seq(S),
           \A r \in S : [r EXCEPT !.owner = NoTask] \in S
    PROVE  /\ Orphaned(pipe, t) \in Seq(S)
           /\ DOMAIN Orphaned(pipe, t) = DOMAIN pipe
           /\ \A i \in DOMAIN pipe :
                 \/ Orphaned(pipe, t)[i] = pipe[i]
                 \/ Orphaned(pipe, t)[i] = [pipe[i] EXCEPT !.owner = NoTask]
  <1>1. /\ Len(pipe) \in Nat /\ DOMAIN pipe = 1..Len(pipe)
        /\ \A i \in 1..Len(pipe) : pipe[i] \in S
    OBVIOUS
  <1>2. Orphaned(pipe, t) =
          [i \in 1..Len(pipe) |->
              IF pipe[i].owner = t THEN [pipe[i] EXCEPT !.owner = NoTask] ELSE pipe[i]]
    BY <1>1 DEF Orphaned
  <1>3. \A i \in 1..Len(pipe) :
          (IF pipe[i].owner = t THEN [pipe[i] EXCEPT !.owner = NoTask] ELSE pipe[i]) \in S
    BY <1>1
  <1> QED
    BY <1>1, <1>2, <1>3

LEMMA StopsOrphaned ==
    ASSUME StopInv, NEW t, UNCHANGED <<stops, shown, frame>>,
           stdin' = Orphaned(stdin, t), stdout' = Orphaned(stdout, t),
           \A u \in Tasks : phase'[u] = "reading" => phase[u] = "reading"
    PROVE  StopInv' /\ (stdout = <<>> <=> stdout' = <<>>)
  <1>1. /\ \A c \in Command : [c EXCEPT !.owner = NoTask] \in Command
        /\ \A r \in Record : [r EXCEPT !.owner = NoTask] \in Record
    BY DEF Command, Record
  <1>2. stdin' \in Seq(Command)
    BY <1>1, PipeOrphaned DEF StopInv
  <1>3. /\ stdout' \in Seq(Record) /\ DOMAIN stdout' = DOMAIN stdout
        /\ \A i \in DOMAIN stdout :
              stdout'[i] = stdout[i] \/ stdout'[i] = [stdout[i] EXCEPT !.owner = NoTask]
    <2>1. stdout \in Seq(Record)
      BY DEF StopInv
    <2> QED
      BY <1>1, <2>1, PipeOrphaned
  <1>4. \A i \in DOMAIN stdout : stdout[i] \in Record
    BY DEF StopInv
  <1>5. \A i \in DOMAIN stdout : stdout'[i].frame = stdout[i].frame
    BY <1>3, <1>4 DEF Record
  <1>6. stdout = <<>> <=> stdout' = <<>>
    BY <1>3 DEF StopInv
  <1>7. \A i \in DOMAIN stdout' :
          /\ stdout'[i].frame \in 0..stops'
          /\ stdout'[i].frame # 0 =>
                /\ shown' <= stdout'[i].frame
                /\ \A j \in DOMAIN stdout' :
                      i <= j /\ stdout'[j].frame # 0 =>
                          stdout'[i].frame <= stdout'[j].frame
                /\ \A u \in Tasks :
                      phase'[u] = "reading" => frame'[u] <= stdout'[i].frame
    BY <1>3, <1>5, SMTT(30) DEF StopInv
  <1> QED
    BY <1>2, <1>3, <1>6, <1>7 DEF StopInv

LEMMA StopsPrinted ==
    ASSUME StopInv, stdin' \in Seq(Command), UNCHANGED <<shown, frame, phase>>,
           NEW u \in Tasks \cup {NoTask}, NEW ok \in BOOLEAN,
           stops' \in Nat, stops <= stops', NEW n \in {0, stops'},
           Printed(u, ok, n)
    PROVE  StopInv' /\ stdout' # <<>>
  <1> DEFINE r == [owner |-> u, ok |-> ok, frame |-> n]
  <1>1. r \in Record /\ r.frame = n /\ n \in 0..stops'
    BY DEF Record
  <1>2. /\ Len(stdout) \in Nat /\ DOMAIN stdout = 1..Len(stdout)
        /\ stops \in Nat /\ shown \in 0..stops /\ frame \in [Tasks -> 0..stops]
        /\ stdout \in Seq(Record)
    BY DEF StopInv
  <1>3. stdout' = Append(stdout, r)
    BY DEF Printed
  <1> HIDE DEF r
  <1>4. /\ stdout' \in Seq(Record) /\ DOMAIN stdout' = 1..Len(stdout) + 1
        /\ \A i \in 1..Len(stdout) : stdout'[i] = stdout[i]
        /\ stdout'[Len(stdout) + 1] = r /\ stdout' # <<>>
    BY <1>1, <1>2, <1>3
  <1>5. shown' \in 0..stops' /\ frame' \in [Tasks -> 0..stops']
    <2>1. \A x \in 0..stops : x \in 0..stops'
      BY <1>2
    <2> QED
      BY <1>2, <2>1
  <1>6. \A i \in DOMAIN stdout : stdout[i].frame \in 0..stops
    BY DEF StopInv
  <1>7. ASSUME NEW i \in DOMAIN stdout'
        PROVE  /\ stdout'[i].frame \in 0..stops'
               /\ stdout'[i].frame # 0 =>
                     /\ shown' <= stdout'[i].frame
                     /\ \A j \in DOMAIN stdout' :
                           i <= j /\ stdout'[j].frame # 0 =>
                               stdout'[i].frame <= stdout'[j].frame
                     /\ \A t \in Tasks :
                           phase'[t] = "reading" => frame'[t] <= stdout'[i].frame
    <2>1. CASE i = Len(stdout) + 1
      <3>1. stdout'[i].frame = n
        BY <1>1, <1>4, <2>1
      <3>2. \A j \in DOMAIN stdout' : i <= j => j = i
        BY <1>2, <1>4, <2>1
      <3>3. \A t \in Tasks : frame'[t] \in 0..stops
        BY <1>2
      <3> QED
        BY <1>1, <1>2, <3>1, <3>2, <3>3
    <2>2. CASE i \in 1..Len(stdout)
      <3>1. stdout'[i] = stdout[i] /\ i \in DOMAIN stdout
        BY <1>2, <1>4, <2>2
      <3>2. \A j \in DOMAIN stdout' :
              stdout'[j] = r \/ (j \in DOMAIN stdout /\ stdout'[j] = stdout[j])
        BY <1>2, <1>4
      <3>3. stdout[i].frame \in 0..stops
        BY <1>6, <3>1
      <3>4. \A j \in DOMAIN stdout' :
                i <= j /\ stdout'[j].frame # 0 /\ stdout[i].frame # 0 =>
                    stdout[i].frame <= stdout'[j].frame
        BY <1>1, <1>2, <3>1, <3>2, <3>3 DEF StopInv
      <3> QED
        BY <1>2, <3>1, <3>3, <3>4 DEF StopInv
    <2> QED
      BY <1>2, <1>4, <2>1, <2>2
  <1> QED
    BY <1>4, <1>5, <1>7 DEF StopInv

LEMMA StopsRead ==
    ASSUME StopInv, stdout # <<>>, stdout' = Tail(stdout), UNCHANGED <<stops, stdin>>,
           shown' \in 0..stops, frame' \in [Tasks -> 0..stops],
           \A i \in DOMAIN stdout :
              stdout[i].frame # 0 /\ i # 1 =>
                 /\ shown' <= stdout[i].frame
                 /\ \A t \in Tasks : phase'[t] = "reading" => frame'[t] <= stdout[i].frame,
           \A t \in Tasks : phase'[t] = "reading" /\ frame'[t] # 0 => shown' <= frame'[t]
    PROVE  StopInv'
  <1>1. /\ Len(stdout) \in Nat /\ DOMAIN stdout = 1..Len(stdout) /\ Len(stdout) # 0
        /\ stdout' \in Seq(Record) /\ DOMAIN stdout' = 1..Len(stdout) - 1
        /\ \A i \in DOMAIN stdout' : /\ stdout'[i] = stdout[i + 1]
                                     /\ i + 1 \in DOMAIN stdout /\ i + 1 # 1
    BY DEF StopInv
  <1>2. \A i, j \in DOMAIN stdout' : i <= j => i + 1 <= j + 1
    BY <1>1
  <1> QED
    BY <1>1, <1>2 DEF StopInv

-----------------------------------------------------------------------------
(***************************************************************************)
(* Steps of the contract.                                                  *)
(***************************************************************************)
Simulated == Contract!Next \/ UNCHANGED <<state, Alive, Calling, answer>>

(* GDB does not come back, and nobody reads what it never printed. *)
NoRevival == Alive' => Alive

LEMMA MayDie ==
    ASSUME NoRevival
    PROVE  Contract!MayDie
  <1>1. CASE Alive
    <2>1. (gdb = "alive" \/ stdout # <<>>) = TRUE
      BY <1>1 DEF Alive
    <2>2. (gdb = "alive" \/ stdout # <<>>)' \in {TRUE, FALSE}
      OBVIOUS
    <2> QED
      BY <2>1, <2>2, Zenon DEF Contract!MayDie
  <1>2. CASE ~Alive
    <2>1. (gdb = "alive" \/ stdout # <<>>)' = FALSE
      BY <1>2 DEF NoRevival, Alive
    <2> QED
      BY <2>1, Zenon DEF Contract!MayDie
  <1> QED
    BY <1>1, <1>2

LEMMA CallsOf ==
    ASSUME TaskInv, NEW t \in Tasks
    PROVE  /\ op' = [op EXCEPT ![t] = "none"] =>
                 Calling' = [Calling EXCEPT ![t] = "none"]
           /\ \A o \in Operation :
                 op' = [op EXCEPT ![t] = o] =>
                     Calling' = [Calling EXCEPT ![t] = Tool(o)]
           /\ op[t] = "none" => Calling[t] = "none"
           /\ op[t] # "none" => Calling[t] = Tool(op[t]) /\ Tool(op[t]) # "none"
           /\ op' = op => Calling' = Calling
  <1>1. \A o \in Operation : o # "none" /\ Tool(o) # "none"
    BY DEF Operation, Script, Tool
  <1>2. op[t] \in Operation \cup {"none"}
    BY DEF TaskInv
  <1>3. ASSUME op' = [op EXCEPT ![t] = "none"]
        PROVE  Calling' = [Calling EXCEPT ![t] = "none"]
    BY <1>3 DEF TaskInv, Calling
  <1>4. ASSUME NEW o \in Operation, op' = [op EXCEPT ![t] = o]
        PROVE  Calling' = [Calling EXCEPT ![t] = Tool(o)]
    BY <1>1, <1>4 DEF TaskInv, Calling
  <1> QED
    BY <1>1, <1>2, <1>3, <1>4 DEF Calling

LEMMA StutterStep ==
    ASSUME UNCHANGED <<state, op, answer>>, NoRevival
    PROVE  Simulated
  <1>1. Calling' = Calling
    BY DEF Calling
  <1>2. CASE Alive /\ ~Alive'
    <2>1. Contract!Dies
      BY <1>1, <1>2 DEF Alive, Calling, Contract!Dies
    <2> QED
      BY <2>1 DEF Simulated, Contract!Next
  <1>3. CASE ~ (Alive /\ ~Alive')
    <2>1. Alive' = Alive
      BY <1>3 DEF NoRevival, Alive
    <2> QED
      BY <1>1, <2>1 DEF Simulated
  <1> QED
    BY <1>2, <1>3

LEMMA EndsStep ==
    ASSUME TaskInv, NEW t \in Tasks, NEW v, End(t, v), NoRevival,
           NEW s, state' = s
    PROVE  Contract!Ends(t, v, s)
  <1>1. Calling' = [Calling EXCEPT ![t] = "none"]
    BY CallsOf DEF End
  <1>2. answer' = [answer EXCEPT ![t] = v]
    BY DEF End
  <1> QED
    BY <1>1, <1>2, MayDie DEF Calling, Contract!Ends

LEMMA FinishStep ==
    ASSUME TaskInv, NEW t \in Tasks, op[t] # "none", Concludes(t), NoRevival
    PROVE  Simulated
  <1>1. PICK r \in Contract!OutcomesOf(Tool(op[t])) :
            state' = r.state /\ End(t, Verdict(r))
    BY DEF Concludes
  <1>2. Contract!Ends(t, Verdict(r), r.state)
    BY <1>1, EndsStep
  <1>3. Calling[t] = Tool(op[t]) /\ Calling[t] # "none"
    BY CallsOf
  <1>4. Contract!Finish(t)
    BY <1>1, <1>2, <1>3 DEF Calling, Verdict, Contract!Finish
  <1> QED
    BY <1>4 DEF Simulated, Contract!Next

LEMMA ResultStep ==
    ASSUME TaskInv, NEW t \in Tasks, op[t] # "none", Result(t), NoRevival
    PROVE  Simulated
  <1>1. CASE Concludes(t)
    BY <1>1, FinishStep
  <1>2. CASE Closes(t)
    BY <1>2, StutterStep DEF Closes, Close
  <1>3. CASE Advances(t)
    <2>1. UNCHANGED <<op, answer>>
      BY <1>3 DEF Advances, GoOn
    <2>2. CASE state' = state
      BY <2>1, <2>2, StutterStep
    <2>3. CASE /\ op[t] = "step_instruction" /\ Alive
               /\ can_transition(state, "halted") /\ state' = "halted"
      <3>1. Calling' = Calling /\ Calling[t] = "step_instruction"
        BY <2>1, <2>3, CallsOf DEF Tool
      <3>2. Contract!can_transition(state, "halted")
        BY <2>3, SameMoves
      <3>3. Contract!StepOnce(t)
        BY <2>1, <2>3, <3>1, <3>2, MayDie DEF Alive, Calling, Contract!StepOnce
      <3> QED
        BY <3>3 DEF Simulated, Contract!Next
    <2> QED
      BY <1>3, <2>2, <2>3 DEF Advances
  <1> QED
    BY <1>1, <1>2, <1>3 DEF Result

LEMMA CancelStep ==
    ASSUME TaskInv, NEW t \in Tasks, op[t] # "none", End(t, "cancelled"), NoRevival,
           \/ state' = state
           \/ op[t] = "disconnect_target" /\ state' = "disconnected"
    PROVE  Simulated
  <1>1. Calling[t] = Tool(op[t]) /\ Calling[t] # "none"
    BY CallsOf
  <1>2. PICK s : state' = s /\ s \in Contract!CancelStates(Calling[t], state)
    BY <1>1 DEF Tool, Contract!CancelStates
  <1>3. Contract!Ends(t, "cancelled", s)
    BY <1>2, EndsStep
  <1>4. Contract!Cancel(t)
    BY <1>1, <1>2, <1>3 DEF Calling, Contract!Cancel
  <1> QED
    BY <1>4 DEF Simulated, Contract!Next

-----------------------------------------------------------------------------
(***************************************************************************)
(* Every action preserves the invariant, shows no older stop and is a step *)
(* of the contract.                                                        *)
(***************************************************************************)
Good == Inv' /\ shown' >= shown /\ Simulated

LEMMA ShownAgain ==
    ASSUME StopInv, shown' = shown
    PROVE  shown' >= shown
  BY DEF StopInv

LEMMA StartsQuietly ==
    ASSUME Inv, NEW t \in Tasks, NEW o \in Operation, Starts(t, o)
    PROVE  /\ TaskInv' /\ StartInv' /\ LineInv' /\ StopInv' /\ shown' >= shown
           /\ Calling[t] = "none" /\ Calling' = [Calling EXCEPT ![t] = Tool(o)]
           /\ NoRevival /\ answer' = answer
           /\ state' \in TargetState => SessionInv'
  <1>1. TaskInv' /\ LineInv'
    BY StartsTasks DEF Inv
  <1>2. calls' \in Nat /\ calls' # 0
    BY DEF Starts, Inv, SessionInv
  <1>3. StopInv'
    <2>1. \A u \in Tasks : phase'[u] = "reading" => phase[u] = "reading"
      BY DEF Starts, Inv, TaskInv
    <2> QED
      BY <2>1, StopsUntouched DEF Starts, targetVars, Inv
  <1>4. shown' >= shown
    BY ShownAgain DEF Starts, Inv
  <1>5. Calling[t] = "none" /\ Calling' = [Calling EXCEPT ![t] = Tool(o)]
    BY CallsOf DEF Starts, Inv
  <1>6. NoRevival /\ answer' = answer
    BY DEF Starts, targetVars, NoRevival, Alive
  <1>7. state' \in TargetState => SessionInv'
    BY <1>2 DEF Starts, targetVars, Inv, SessionInv
  <1> QED
    BY <1>1, <1>2, <1>3, <1>4, <1>5, <1>6, <1>7 DEF StartInv

LEMMA ConnectGood ==
    ASSUME Inv, NEW t \in Tasks, Connect(t)
    PROVE  Good
  <1>1. "connect_target" \in Operation /\ Tool("connect_target") = "connect_target"
    BY DEF Operation, Script, Tool
  <1>2. Starts(t, "connect_target") /\ state' = "connecting" /\ state = "disconnected"
    BY DEF Connect, Inv, StartInv
  <1>3. /\ TaskInv' /\ StartInv' /\ LineInv' /\ StopInv' /\ shown' >= shown
        /\ Calling[t] = "none" /\ Calling' = [Calling EXCEPT ![t] = "connect_target"]
        /\ NoRevival /\ answer' = answer
        /\ state' \in TargetState => SessionInv'
    BY <1>1, <1>2, StartsQuietly
  <1>4. state' \in TargetState
    BY <1>2 DEF TargetState
  <1>5. Contract!can_transition(state, "connecting")
    <2>1. can_transition(state, "connecting")
      BY <1>2 DEF can_transition, LEGAL_TRANSITIONS, TargetState
    <2> QED
      BY <2>1, SameMoves
  <1>6. Contract!Connect(t)
    BY <1>2, <1>3, <1>5, MayDie DEF Calling, Contract!Connect
  <1> QED
    BY <1>3, <1>4, <1>6 DEF Good, Inv, Simulated, Contract!Next

LEMMA BeginGood ==
    ASSUME Inv, NEW t \in Tasks, NEW o \in Calls, Begin(t, o)
    PROVE  Good
  <1>1. o \in Operation /\ Tool(o) \in Contract!SessionOperation
    <2>1. o \in Operation \ {"connect_target"}
      BY SessionAssumption DEF SessionAssumption
    <2> QED
      BY <2>1 DEF Operation, Script, Tool, Contract!SessionOperation
  <1>2. Starts(t, o) /\ state' = state
    BY DEF Begin
  <1>3. /\ TaskInv' /\ StartInv' /\ LineInv' /\ StopInv' /\ shown' >= shown
        /\ Calling[t] = "none" /\ Calling' = [Calling EXCEPT ![t] = Tool(o)]
        /\ NoRevival /\ answer' = answer
        /\ state' \in TargetState => SessionInv'
    BY <1>1, <1>2, StartsQuietly
  <1>4. SessionInv'
    BY <1>2, <1>3 DEF Inv, SessionInv
  <1>5. Contract!Call(t, Tool(o))
    BY <1>2, <1>3, MayDie DEF Calling, Contract!Call
  <1> QED
    BY <1>1, <1>3, <1>4, <1>5 DEF Good, Inv, Simulated, Contract!Next

LEMMA ResetAtOnceGood ==
    ASSUME Inv, NEW t \in Tasks, NEW o \in Calls, ResetAtOnce(t, o)
    PROVE  Good
  <1>1. PICK r : /\ r \in {Moved(state, "halted"), Moved(state, "running")}
                 /\ state' = r.state
                 /\ answer' = [answer EXCEPT ![t] = Verdict(r)]
    <2> DEFINE m == Moved(state, IF o = "reset_halt" THEN "halted" ELSE "running")
    <2>1. state' = m.state /\ answer' = [answer EXCEPT ![t] = Verdict(m)]
      BY DEF ResetAtOnce, Verdict
    <2>2. m \in {Moved(state, "halted"), Moved(state, "running")}
      OBVIOUS
    <2> QED
      BY <2>1, <2>2
  <1>2. /\ UNCHANGED <<op, at, phase, line, window, registered>>
        /\ UNCHANGED <<targetVars, shown, frame, stdin, stdout>>
        /\ op[t] = "none"
        /\ calls' = calls + 1 /\ lost' = lost \cup {"unsent"}
        /\ r.state \in TargetState /\ Verdict(r) \in {"returned", "raised"}
    BY <1>1, Moves DEF ResetAtOnce, Inv, SessionInv, TargetState, Verdict
  <1>3. r \in Contract!ResetOutcomes(state)
    BY <1>1, SameMoves DEF Contract!ResetOutcomes
  <1>4. SessionInv' /\ StartInv'
    BY <1>1, <1>2 DEF Inv, SessionInv, StartInv, targetVars
  <1>5. TaskInv' /\ LineInv'
    BY <1>1, <1>2 DEF Inv, TaskInv, LineInv
  <1>6. StopInv' /\ shown' >= shown
    BY <1>2, StopsUntouched, ShownAgain DEF Inv, targetVars
  <1>7. Contract!Ends(t, Verdict(r), r.state)
    <2>1. Calling[t] = "none" /\ Calling' = Calling /\ Calling' = [Calling EXCEPT ![t] = "none"]
      BY <1>2, CallsOf DEF Inv, Calling
    <2>2. Contract!MayDie
      BY <1>2, MayDie DEF NoRevival, Alive, targetVars
    <2> QED
      BY <1>1, <2>1, <2>2 DEF Calling, Contract!Ends
  <1>8. Contract!ResetAtOnce(t)
    <2>1. Calling[t] = "none"
      BY <1>2, CallsOf DEF Inv
    <2> QED
      BY <1>3, <1>7, <2>1 DEF Calling, Verdict, Contract!ResetAtOnce
  <1> QED
    BY <1>4, <1>5, <1>6, <1>8 DEF Good, Inv, Simulated, Contract!Next

LEMMA SendGood ==
    ASSUME Inv, NEW t \in Tasks, Send(t)
    PROVE  Good
  <1>1. /\ UNCHANGED <<registered, calls, state, op, at, answer, line, stdout>>
        /\ UNCHANGED <<targetVars, shown, window, lost>>
        /\ phase[t] = "waiting" /\ line # <<>> /\ line[1] = t
        /\ phase' = [phase EXCEPT ![t] = "reading"]
        /\ frame' = [frame EXCEPT ![t] = 0]
        /\ stdin' = Append(stdin, [cmd |-> Current(t), owner |-> t])
    BY DEF Send, HasLock, NoFrames, Inv, LineInv
  <1>2. op[t] \in Operation /\ at[t] \in DOMAIN Script[op[t]]
    BY <1>1 DEF Inv, TaskInv
  <1>3. /\ phase' \in [Tasks -> {"idle", "waiting", "reading"} \cup Closing]
        /\ phase'[t] = "reading"
        /\ \A u \in Tasks : u # t => phase'[u] = phase[u]
    BY <1>1 DEF Inv, TaskInv
  <1>4. TaskInv'
    BY <1>1, <1>2, <1>3, OneTask DEF Inv, TaskInv, Closing
  <1>5. \A u \in Tasks : phase'[u] = "reading" => u = t
    BY <1>1, <1>3 DEF Inv, LineInv
  <1>6. LineInv'
    BY <1>1, <1>3, <1>5 DEF Inv, LineInv
  <1>7. stdin' \in Seq(Command)
    <2>1. [cmd |-> Current(t), owner |-> t] \in Command
      BY <1>2, Scripts DEF Current, Command
    <2> QED
      BY <1>1, <2>1 DEF Inv, StopInv
  <1>8. frame' \in [Tasks -> 0..stops] /\ frame'[t] = 0
    BY <1>1 DEF Inv, StopInv
  <1>9. StopInv'
    <2>1. \A i \in DOMAIN stdout' :
            /\ stdout'[i].frame \in 0..stops'
            /\ stdout'[i].frame # 0 =>
                  /\ shown' <= stdout'[i].frame
                  /\ \A j \in DOMAIN stdout' :
                        i <= j /\ stdout'[j].frame # 0 =>
                            stdout'[i].frame <= stdout'[j].frame
                  /\ \A u \in Tasks :
                        phase'[u] = "reading" => frame'[u] <= stdout'[i].frame
      BY <1>1, <1>5, <1>8 DEF Inv, StopInv, targetVars
    <2>2. \A u \in Tasks : phase'[u] = "reading" /\ frame'[u] # 0 => shown' <= frame'[u]
      BY <1>5, <1>8
    <2> QED
      BY <1>1, <1>7, <1>8, <2>1, <2>2 DEF Inv, StopInv, targetVars
  <1>10. SessionInv' /\ StartInv' /\ shown' >= shown
    BY <1>1, ShownAgain DEF Inv, SessionInv, StartInv, targetVars
  <1>11. Simulated
    BY <1>1, StutterStep DEF NoRevival, Alive, targetVars
  <1> QED
    BY <1>4, <1>6, <1>9, <1>10, <1>11 DEF Good, Inv

(* What a moving task leaves of the invariant. *)
LEMMA MovingInv ==
    ASSUME Inv, NEW t \in Tasks, op[t] # "none", Moving(t), calls' = calls
    PROVE  /\ TaskInv' /\ LineInv' /\ StartInv'
           /\ registered' \in BOOLEAN
           /\ \A u \in Tasks : phase'[u] = "reading" => u # t /\ phase[u] = "reading"
  <1>1. TaskInv' /\ LineInv'
    BY MovingTasks, MovingLine DEF Inv
  <1>2. calls # 0
    BY DEF Inv, StartInv
  <1> QED
    BY <1>1, <1>2, MovingTasks DEF Inv, StartInv, SessionInv

LEMMA ResultState ==
    ASSUME state \in TargetState, NEW t, op[t] \in Operation, Result(t)
    PROVE  state' \in TargetState
  BY OutcomeStates DEF Result, Advances, Closes, Concludes, TargetState

LEMMA ReadLineGood ==
    ASSUME Inv, NEW t \in Tasks, ReadLine(t)
    PROVE  Good
  <1> DEFINE r == Head(stdout)
  <1>1. /\ phase[t] = "reading" /\ stdout # <<>> /\ stdout' = Tail(stdout)
        /\ UNCHANGED <<config, calls, stdin, targetVars, lost>>
        /\ \/ Answered(t, r.ok) /\ shown' = Shown(t, r.ok) /\ UNCHANGED frame
           \/ Collect(t, r)
    BY DEF ReadLine
  <1>2. op[t] \in Operation /\ at[t] \in DOMAIN Script[op[t]] /\ op[t] # "none"
    BY <1>1 DEF Inv, TaskInv, Operation, Script
  <1>3. Alive /\ NoRevival
    BY <1>1 DEF Alive, NoRevival
  <1>4. /\ r = stdout[1] /\ 1 \in DOMAIN stdout /\ r.frame \in 0..stops
        /\ frame[t] \in 0..stops /\ shown \in 0..stops /\ stops \in Nat
        /\ frame \in [Tasks -> 0..stops]
        /\ \A i \in DOMAIN stdout :
              stdout[i].frame # 0 =>
                 shown <= stdout[i].frame /\ frame[t] <= stdout[i].frame
        /\ r.frame # 0 => shown <= r.frame
        /\ \A i \in DOMAIN stdout :
              1 <= i /\ r.frame # 0 /\ stdout[i].frame # 0 => r.frame <= stdout[i].frame
        /\ DOMAIN stdout = 1..Len(stdout) /\ Len(stdout) \in Nat
        /\ frame[t] # 0 => shown <= frame[t]
    BY <1>1 DEF Inv, StopInv
  <1>5. \A u \in Tasks : phase[u] = "reading" => u = t
    BY <1>1 DEF Inv, LineInv
  <1> HIDE DEF r
  <1>6. CASE Answered(t, r.ok) /\ shown' = Shown(t, r.ok) /\ UNCHANGED frame
    <2>1. Result(t)
      BY <1>2, <1>3, <1>6, AnsweredResult
    <2>2. /\ TaskInv' /\ LineInv' /\ StartInv' /\ registered' \in BOOLEAN
          /\ \A u \in Tasks : phase'[u] = "reading" => u # t /\ phase[u] = "reading"
      BY <1>1, <1>2, <2>1, ResultMoves, MovingInv
    <2>3. SessionInv'
      BY <1>1, <1>2, <2>1, <2>2, ResultState DEF Inv, SessionInv, targetVars
    <2>4. \A u \in Tasks : phase'[u] # "reading"
      BY <1>5, <2>2
    <2>5. shown' = shown \/ (frame[t] # 0 /\ shown' = frame[t])
      BY <1>6 DEF Shown
    <2>6. StopInv' /\ shown' >= shown
      <3>1. shown' \in 0..stops /\ shown' >= shown /\ frame' \in [Tasks -> 0..stops]
        BY <1>4, <1>6, <2>5
      <3>2. \A i \in DOMAIN stdout : stdout[i].frame # 0 => shown' <= stdout[i].frame
        BY <1>4, <2>5
      <3> QED
        BY <1>1, <2>4, <3>1, <3>2, StopsRead DEF Inv, targetVars
    <2>7. Simulated
      BY <1>2, <1>3, <2>1, ResultStep DEF Inv
    <2> QED
      BY <2>2, <2>3, <2>6, <2>7 DEF Good, Inv
  <1>7. CASE Collect(t, r)
    <2>1. /\ UNCHANGED <<op, at, phase, answer, line, registered, state, window, shown>>
          /\ frame' = [frame EXCEPT ![t] = IF frame[t] = 0 THEN r.frame ELSE frame[t]]
      BY <1>7 DEF Collect
    <2>2. SessionInv' /\ TaskInv' /\ StartInv' /\ LineInv'
      BY <1>1, <2>1 DEF Inv, SessionInv, TaskInv, StartInv, LineInv, targetVars
    <2>3. /\ frame' \in [Tasks -> 0..stops]
          /\ frame'[t] = IF frame[t] = 0 THEN r.frame ELSE frame[t]
      BY <1>4, <2>1
    <2>4. \A i \in DOMAIN stdout :
             stdout[i].frame # 0 /\ i # 1 =>
                shown' <= stdout[i].frame /\ frame'[t] <= stdout[i].frame
      BY <1>4, <2>1, <2>3
    <2>5. frame'[t] # 0 => shown' <= frame'[t]
      BY <1>4, <2>1, <2>3
    <2>6. StopInv' /\ shown' >= shown
      BY <1>1, <1>4, <1>5, <2>1, <2>3, <2>4, <2>5, StopsRead DEF Inv, targetVars
    <2>7. Simulated
      BY <1>3, <2>1, StutterStep
    <2> QED
      BY <2>2, <2>6, <2>7 DEF Good, Inv
  <1> QED
    BY <1>1, <1>6, <1>7

LEMMA FailsGood ==
    ASSUME Inv, NEW t \in Tasks, NEW why \in {"timeout", "closed", "garbage"},
           Fails(t, why)
    PROVE  Good
  <1>1. /\ phase[t] \in {"waiting", "reading"} /\ Raised(t, why)
        /\ stdin' = Orphaned(stdin, t) /\ stdout' = Orphaned(stdout, t)
        /\ UNCHANGED <<calls, frame, targetVars, shown>>
        /\ lost' \in {lost} \cup {lost \cup {why}}
        /\ why = "closed" => lost' = lost
    BY DEF Fails, GivenUp
  <1>2. op[t] \in Operation /\ at[t] \in DOMAIN Script[op[t]] /\ op[t] # "none"
    BY <1>1 DEF Inv, TaskInv, Operation, Script
  <1>3. Result(t)
    BY <1>1, <1>2, RaisedResult
  <1>4. /\ TaskInv' /\ LineInv' /\ StartInv' /\ registered' \in BOOLEAN
        /\ \A u \in Tasks : phase'[u] = "reading" => u # t /\ phase[u] = "reading"
    BY <1>1, <1>2, <1>3, ResultMoves, MovingInv
  <1>5. SessionInv'
    BY <1>1, <1>2, <1>3, <1>4, ResultState DEF Inv, SessionInv, targetVars
  <1>6. StopInv' /\ (stdout = <<>> <=> stdout' = <<>>) /\ shown' >= shown
    BY <1>1, <1>4, StopsOrphaned, ShownAgain DEF Inv, targetVars
  <1>7. NoRevival
    BY <1>1, <1>6 DEF NoRevival, Alive, targetVars
  <1>8. Simulated
    BY <1>2, <1>3, <1>7, ResultStep DEF Inv
  <1> QED
    BY <1>4, <1>5, <1>6, <1>8 DEF Good, Inv

LEMMA CancelGood ==
    ASSUME Inv, NEW t \in Tasks, Cancel(t)
    PROVE  Good
  <1>1. /\ phase[t] \in {"waiting", "reading"}
        /\ stdin' = Orphaned(stdin, t) /\ stdout' = Orphaned(stdout, t)
        /\ UNCHANGED <<calls, state, frame, targetVars, shown>>
        /\ lost' \in {lost} \cup {lost \cup {"cancelled"}}
        /\ \/ op[t] = "disconnect_target" /\ Close(t, "closing-cancelled")
           \/ End(t, "cancelled")
    BY DEF Cancel, GivenUp
  <1>2. op[t] \in Operation /\ op[t] # "none"
    BY <1>1 DEF Inv, TaskInv, Operation, Script
  <1>3. Moving(t)
    BY <1>1 DEF Moving, MovesToClose, MovesOut, Closing
  <1>4. /\ TaskInv' /\ LineInv' /\ StartInv' /\ registered' \in BOOLEAN
        /\ \A u \in Tasks : phase'[u] = "reading" => u # t /\ phase[u] = "reading"
    BY <1>1, <1>2, <1>3, MovingInv
  <1>5. SessionInv'
    BY <1>1, <1>4 DEF Inv, SessionInv, targetVars
  <1>6. StopInv' /\ (stdout = <<>> <=> stdout' = <<>>) /\ shown' >= shown
    BY <1>1, <1>4, StopsOrphaned, ShownAgain DEF Inv, targetVars
  <1>7. NoRevival
    BY <1>1, <1>6 DEF NoRevival, Alive, targetVars
  <1>8. CASE op[t] = "disconnect_target" /\ Close(t, "closing-cancelled")
    BY <1>1, <1>4, <1>5, <1>6, <1>7, <1>8, StutterStep DEF Close, Good, Inv
  <1>9. CASE End(t, "cancelled")
    BY <1>1, <1>2, <1>4, <1>5, <1>6, <1>7, <1>9, CancelStep DEF Good, Inv
  <1> QED
    BY <1>1, <1>8, <1>9

LEMMA LastCloses ==
    ASSUME Inv, NEW t \in Tasks, phase[t] \in Closing,
           NEW v \in {"returned", "raised", "cancelled"}, End(t, v), gdb' = "dead",
           state' \in {state, "disconnected"},
           UNCHANGED <<config, calls, frame, stdin, stdout, target, stops, shown, lost>>
    PROVE  /\ Inv' /\ shown' >= shown /\ NoRevival
           /\ op[t] = "disconnect_target" /\ op[t] \in Operation /\ op[t] # "none"
  <1>1. op[t] = "disconnect_target" /\ op[t] \in Operation /\ op[t] # "none"
    BY DEF Inv, TaskInv, Operation, Script
  <1>2. Moving(t)
    BY DEF Moving, MovesOut
  <1>3. /\ TaskInv' /\ LineInv' /\ StartInv' /\ registered' \in BOOLEAN
        /\ \A u \in Tasks : phase'[u] = "reading" => u # t /\ phase[u] = "reading"
    BY <1>1, <1>2, MovingInv
  <1>4. SessionInv'
    BY <1>3 DEF Inv, SessionInv, TargetState
  <1>5. StopInv' /\ shown' >= shown
    BY <1>3, StopsUntouched, ShownAgain DEF Inv
  <1>6. NoRevival
    BY DEF NoRevival, Alive
  <1> QED
    BY <1>1, <1>3, <1>4, <1>5, <1>6 DEF Inv

LEMMA ClosedGood ==
    ASSUME Inv, NEW t \in Tasks, Closed(t)
    PROVE  Good
  <1>1. /\ phase[t] \in Closing /\ gdb' = "dead" /\ state' = "disconnected"
        /\ UNCHANGED <<config, calls, frame, stdin, stdout, target, stops, shown, lost>>
        /\ \E v \in {"returned", "raised", "cancelled"} : End(t, v)
    BY DEF Closed, Closing
  <1>2. PICK v \in {"returned", "raised", "cancelled"} : End(t, v)
    BY <1>1
  <1>3. /\ Inv' /\ shown' >= shown /\ NoRevival
        /\ op[t] = "disconnect_target" /\ op[t] \in Operation /\ op[t] # "none"
    BY <1>1, <1>2, LastCloses
  <1>4. CASE v = "cancelled"
    BY <1>1, <1>2, <1>3, <1>4, CancelStep DEF Good, Inv
  <1>5. CASE v \in {"returned", "raised"}
    <2>1. PICK r \in {Returns("disconnected"), Raises("disconnected")} :
              Verdict(r) = v /\ r.state = "disconnected"
      BY <1>5, Moves DEF Verdict
    <2>2. Concludes(t)
      BY <1>1, <1>2, <1>3, <2>1, Outcomes DEF Concludes
    <2> QED
      BY <1>3, <2>2, FinishStep DEF Good, Inv
  <1> QED
    BY <1>4, <1>5

LEMMA CancelClosingGood ==
    ASSUME Inv, NEW t \in Tasks, CancelClosing(t)
    PROVE  Good
  <1>1. /\ phase[t] \in Closing /\ gdb' = "dead" /\ state' = state
        /\ UNCHANGED <<config, calls, frame, stdin, stdout, target, stops, shown, lost>>
        /\ End(t, "cancelled")
    BY DEF CancelClosing
  <1>2. /\ Inv' /\ shown' >= shown /\ NoRevival
        /\ op[t] = "disconnect_target" /\ op[t] \in Operation /\ op[t] # "none"
    BY <1>1, LastCloses
  <1> QED
    BY <1>1, <1>2, CancelStep DEF Good, Inv

-----------------------------------------------------------------------------
(***************************************************************************)
(* GDB and the target.                                                     *)
(***************************************************************************)

LEMMA ExternalGood ==
    ASSUME Inv, UNCHANGED <<calls, taskVars, shown, lost>>,
           window' \in [Tasks -> {"none", "open", "torn"}],
           gdb' \in {"alive", "dead"},
           target' \in {"halted", "running", "stepping", "stopping"},
           StopInv', NoRevival
    PROVE  Good
  <1>1. SessionInv' /\ StartInv' /\ LineInv'
    BY DEF Inv, SessionInv, StartInv, LineInv, taskVars
  <1>2. TaskInv'
    BY DEF Inv, TaskInv, taskVars
  <1>3. Simulated
    BY StutterStep DEF taskVars
  <1>4. shown' >= shown
    BY ShownAgain DEF Inv
  <1> QED
    BY <1>1, <1>2, <1>3, <1>4 DEF Good, Inv

LEMMA TakenUp ==
    ASSUME Inv, stdin # <<>>, stdin' = Tail(stdin)
    PROVE  /\ stdin' \in Seq(Command)
           /\ Head(stdin).owner \in Tasks \cup {NoTask}
  <1>1. stdin' \in Seq(Command) /\ Head(stdin) \in Command
    BY DEF Inv, StopInv
  <1> QED
    BY <1>1 DEF Command

LEMMA GdbRefusesGood ==
    ASSUME Inv, GdbRefuses
    PROVE  Good
  <1>1. /\ UNCHANGED <<calls, taskVars, shown, lost, window, gdb, target, stops>>
        /\ UNCHANGED <<frame, phase>> /\ gdb = "alive"
        /\ stdin # <<>> /\ stdin' = Tail(stdin)
        /\ Printed(Head(stdin).owner, FALSE, 0)
    BY DEF GdbRefuses, taskVars, targetVars
  <1>2. /\ stops' \in Nat /\ stops <= stops' /\ 0 \in {0, stops'}
        /\ Head(stdin).owner \in Tasks \cup {NoTask} /\ stdin' \in Seq(Command)
    BY <1>1, TakenUp DEF Inv, StopInv
  <1>3. StopInv'
    BY <1>1, <1>2, StopsPrinted DEF Inv
  <1>4. NoRevival
    BY <1>1 DEF NoRevival, Alive
  <1> QED
    BY <1>1, <1>3, <1>4, ExternalGood DEF Inv, SessionInv, TaskInv

LEMMA GdbExecutesGood ==
    ASSUME Inv, GdbExecutes
    PROVE  Good
  <1> DEFINE c == Head(stdin)
             n == IF c.cmd = "frame" THEN stops ELSE 0
  <1>1. /\ UNCHANGED <<calls, taskVars, shown, lost, stops>>
        /\ UNCHANGED <<frame, phase>> /\ gdb = "alive"
        /\ stdin # <<>> /\ stdin' = Tail(stdin)
        /\ Printed(c.owner, TRUE, n)
        /\ target' = Effect(c.cmd) /\ window' = Observed(c)
        /\ gdb' \in {gdb, "dead"}
    BY DEF GdbExecutes, taskVars
  <1>2. n \in {0, stops'} /\ stops' \in Nat /\ stops <= stops'
    BY <1>1 DEF Inv, StopInv
  <1>3. c.owner \in Tasks \cup {NoTask} /\ stdin' \in Seq(Command)
    BY <1>1, TakenUp
  <1> HIDE DEF c, n
  <1>4. StopInv'
    BY <1>1, <1>2, <1>3, StopsPrinted DEF Inv
  <1>5. target' \in {"halted", "running", "stepping", "stopping"}
    BY <1>1 DEF Effect, Inv, SessionInv
  <1>6. window' \in [Tasks -> {"none", "open", "torn"}]
    BY <1>1 DEF Observed, Inv, TaskInv
  <1>7. NoRevival /\ gdb' \in {"alive", "dead"}
    BY <1>1 DEF NoRevival, Alive
  <1> QED
    BY <1>1, <1>4, <1>5, <1>6, <1>7, ExternalGood

LEMMA HaltsGood ==
    ASSUME Inv, Halts
    PROVE  Good
  <1>1. /\ UNCHANGED <<calls, taskVars, shown, lost, window, stdin, gdb>>
        /\ UNCHANGED <<frame, phase>> /\ gdb = "alive"
        /\ target' = "halted" /\ stops' = stops + 1
        /\ Printed(NoTask, TRUE, stops + 1)
    BY DEF Halts, taskVars
  <1>2. stops \in Nat /\ stdin' \in Seq(Command)
    BY <1>1 DEF Inv, StopInv
  <1>3. stops' \in Nat /\ stops <= stops' /\ stops + 1 \in {0, stops'}
    BY <1>1, <1>2
  <1>4. StopInv'
    BY <1>1, <1>2, <1>3, StopsPrinted DEF Inv
  <1>5. NoRevival
    BY <1>1 DEF NoRevival, Alive
  <1> QED
    BY <1>1, <1>4, <1>5, ExternalGood DEF Inv, SessionInv, TaskInv

LEMMA GdbDiesGood ==
    ASSUME Inv, GdbDies
    PROVE  Good
  <1>1. /\ UNCHANGED <<calls, taskVars, shown, lost, window, target>>
        /\ UNCHANGED <<stdin, stdout, stops, frame, phase>> /\ gdb' = "dead"
    BY DEF GdbDies, taskVars
  <1>2. StopInv'
    BY <1>1, StopsUntouched DEF Inv
  <1>3. NoRevival
    BY <1>1 DEF NoRevival, Alive
  <1> QED
    BY <1>1, <1>2, <1>3, ExternalGood DEF Inv, SessionInv, TaskInv

-----------------------------------------------------------------------------
(***************************************************************************)
(* The theorems.                                                           *)
(***************************************************************************)

LEMMA InitInv ==
    ASSUME Init
    PROVE  Inv
  <1>1. SessionInv /\ StartInv
    BY DEF Init, SessionInv, StartInv, TargetState
  <1>2. LineInv
    <2>1. line = <<>> /\ \A t \in Tasks : phase[t] = "idle"
      BY DEF Init
    <2> QED
      BY <2>1 DEF LineInv
  <1>3. TaskInv
    BY DEF Init, TaskInv, Closing
  <1>4. StopInv
    BY DEF Init, StopInv
  <1> QED
    BY <1>1, <1>2, <1>3, <1>4 DEF Inv

LEMMA StutterGood ==
    ASSUME Inv, UNCHANGED vars
    PROVE  Good
  <1>1. StopInv'
    BY StopsUntouched DEF vars, Inv
  <1>2. NoRevival
    BY DEF NoRevival, Alive, vars
  <1> QED
    BY <1>1, <1>2, ExternalGood DEF vars, taskVars, Inv, SessionInv, TaskInv

LEMMA EveryStep ==
    ASSUME Inv, [Next]_vars
    PROVE  Good
  <1>1. ASSUME NEW t \in Tasks, Connect(t)
        PROVE  Good
    BY <1>1, ConnectGood
  <1>2. ASSUME NEW t \in Tasks, NEW o \in Calls, Begin(t, o) \/ ResetAtOnce(t, o)
        PROVE  Good
    BY <1>2, BeginGood, ResetAtOnceGood
  <1>3. ASSUME NEW t \in Tasks, TaskStep(t) \/ Fails(t, "garbage")
        PROVE  Good
    <2>1. CASE Send(t)
      BY <2>1, SendGood
    <2>2. CASE ReadLine(t)
      BY <2>2, ReadLineGood
    <2>3. CASE Closed(t)
      BY <2>3, ClosedGood
    <2>4. CASE Fails(t, "timeout") \/ Fails(t, "closed") \/ Fails(t, "garbage")
      BY <2>4, FailsGood
    <2> QED
      BY <1>3, <2>1, <2>2, <2>3, <2>4 DEF TaskStep
  <1>4. ASSUME NEW t \in Tasks, Cancel(t) \/ CancelClosing(t)
        PROVE  Good
    BY <1>4, CancelGood, CancelClosingGood
  <1>5. ASSUME GdbRefuses \/ GdbExecutes \/ TargetStops \/ HitsBreakpoint \/ GdbDies
        PROVE  Good
    BY <1>5, GdbRefusesGood, GdbExecutesGood, HaltsGood, GdbDiesGood
       DEF TargetStops, HitsBreakpoint
  <1>6. CASE UNCHANGED vars
    BY <1>6, StutterGood
  <1> QED
    BY <1>1, <1>2, <1>3, <1>4, <1>5, <1>6 DEF Next

(* The invariant holds in every reachable state of the session.            *)
THEOREM SessionInvariant == Spec => []Inv
  <1>1. Inv /\ [Next]_vars => Inv'
    BY EveryStep DEF Good
  <1> QED
    BY InitInv, <1>1, PTL DEF Spec

(* debug/session.py: the session's variables keep their ranges; in         *)
(* particular an operation is never past the end of its script.            *)
THEOREM SessionTypeCorrect == Spec => []TypeOK
  <1>1. Inv => TypeOK
    BY DEF Inv, SessionInv, TaskInv, LineInv, StopInv, TypeOK, Busy
  <1> QED
    BY SessionInvariant, <1>1, PTL

(* session.py:94: the stops halt and step_instruction return are never     *)
(* older than one already returned, for any number of tasks, operations    *)
(* and timeouts.                                                           *)
THEOREM StopsInOrder == Spec => StopsAreShownInOrder
  <1>1. Inv /\ [Next]_vars => [shown' >= shown]_shown
    BY EveryStep DEF Good
  <1> QED
    BY SessionInvariant, <1>1, PTL DEF Spec, StopsAreShownInOrder

(* debug/session.py implements SessionSpec: an operation, however its      *)
(* commands are interleaved, time out, fail or are cancelled, ends with an *)
(* outcome the contract of SessionContract allows.                         *)
THEOREM ImplementsContract == Spec => ContractSpec
  <1>1. Init => Contract!Init
    BY DEF Init, Contract!Init
  <1>2. Inv /\ [Next]_vars =>
          [Contract!Next]_<<state, Alive, Calling, answer>>
    BY EveryStep DEF Good, Simulated
  <1> QED
    BY SessionInvariant, <1>1, <1>2, PTL
       DEF Spec, ContractSpec, Contract!Spec, Alive, Calling

-----------------------------------------------------------------------------
(***************************************************************************)
(* The session keeps to the exchange of MIController.                      *)
(***************************************************************************)
Owners == Tasks \cup {NoTask}
SeenRecord == [owner : Owners, parses : BOOLEAN]
Exchanged == Exchanging!Next \/ UNCHANGED <<line, Phase, Written, Records, gdb>>

(* The pipes as the callers of execute see them, entry by entry. *)
LEMMA SeenPipes ==
    ASSUME StopInv
    PROVE  /\ Written \in Seq(Owners) /\ Len(Written) = Len(stdin)
           /\ \A i \in 1..Len(stdin) : Written[i] = stdin[i].owner
           /\ Records \in Seq(SeenRecord) /\ Len(Records) = Len(stdout)
           /\ \A i \in 1..Len(stdout) :
                 Records[i] = [owner |-> stdout[i].owner, parses |-> TRUE]
           /\ Len(stdin) \in Nat /\ Len(stdout) \in Nat
  <1>1. /\ Len(stdin) \in Nat /\ \A i \in 1..Len(stdin) : stdin[i] \in Command
        /\ Len(stdout) \in Nat /\ \A i \in 1..Len(stdout) : stdout[i] \in Record
    BY DEF StopInv
  <1>2. Written \in [1..Len(stdin) -> Owners]
    BY <1>1 DEF Written, Command, Owners
  <1>3. Records \in [1..Len(stdout) -> SeenRecord]
    BY <1>1 DEF Records, Record, SeenRecord, Owners
  <1>4. Written \in Seq(Owners) /\ Len(Written) = Len(stdin)
    BY <1>1, <1>2
  <1>5. Records \in Seq(SeenRecord) /\ Len(Records) = Len(stdout)
    BY <1>1, <1>3
  <1> QED
    BY <1>1, <1>4, <1>5 DEF Written, Records

(* What an operation does next, its call of execute has ended. *)
LEMMA MovingEnds ==
    ASSUME TaskInv, LineInv, NEW t \in Tasks,
           phase[t] \in {"waiting", "reading"}, Moving(t)
    PROVE  Exchanging!Ends(t) /\ Phase[t] = phase[t]
  <1>1. \E i \in DOMAIN line : line[i] = t
    BY DEF LineInv
  <1>2. PICK i \in 1..Len(line) :
           line[i] = t /\ Without(t) = Exchanging!OutOfLine(i)
    <2> DEFINE p == CHOOSE i \in DOMAIN line : line[i] = t
    <2>1. p \in DOMAIN line /\ line[p] = t
      BY <1>1
    <2>2. DOMAIN line = 1..Len(line)
      BY DEF LineInv
    <2>3. Without(t) = [i \in 1..Len(line) - 1 |-> line[IF i < p THEN i ELSE i + 1]]
      BY <1>1 DEF Without
    <2> HIDE DEF p
    <2>4. Without(t) = Exchanging!OutOfLine(p)
      BY <2>3 DEF Exchanging!OutOfLine
    <2> QED
      BY <2>1, <2>2, <2>4
  <1>3. \/ line' = Append(Without(t), t) /\ phase' = [phase EXCEPT ![t] = "waiting"]
        \/ /\ line' = Without(t)
           /\ \/ phase' = [phase EXCEPT ![t] = "idle"]
              \/ \E how \in Closing : phase' = [phase EXCEPT ![t] = how]
    BY DEF Moving, MovesOn, MovesToClose, MovesOut, GoOn, Close, End
  <1>4. \/ line' = Append(Without(t), t) /\ Phase' = [Phase EXCEPT ![t] = "waiting"]
        \/ line' = Without(t) /\ Phase' = [Phase EXCEPT ![t] = "idle"]
    BY <1>3, ZenonT(40) DEF Phase, TaskInv, Closing
  <1>5. Phase[t] = phase[t]
    BY DEF Phase, Closing
  <1> QED
    BY <1>2, <1>4, <1>5 DEF Exchanging!Ends

LEMMA StartsIsCall ==
    ASSUME Inv, NEW t \in Tasks, NEW o, Starts(t, o)
    PROVE  Exchanging!Call(t)
  <1>1. /\ phase[t] = "idle" /\ phase' = [phase EXCEPT ![t] = "waiting"]
        /\ line' = Append(line, t) /\ UNCHANGED <<stdin, stdout, gdb>>
    BY DEF Starts, targetVars, Inv, TaskInv
  <1>2. Phase[t] = "idle" /\ Phase' = [Phase EXCEPT ![t] = "waiting"]
    BY <1>1 DEF Phase, Inv, TaskInv, Closing
  <1>3. Written' = Written /\ Records' = Records
    BY <1>1 DEF Written, Records
  <1> QED
    BY <1>1, <1>2, <1>3 DEF Exchanging!Call

LEMMA SendIsSeen ==
    ASSUME Inv, NEW t \in Tasks, Send(t)
    PROVE  Exchanging!Send(t)
  <1> DEFINE N == Len(stdin)
             c == [cmd |-> Current(t), owner |-> t]
  <1>1. /\ phase[t] = "waiting" /\ phase' = [phase EXCEPT ![t] = "reading"]
        /\ line # <<>> /\ Head(line) = t /\ stdin' = Append(stdin, c)
        /\ UNCHANGED <<line, stdout, gdb>>
    BY DEF Send, HasLock, targetVars
  <1>2. Phase[t] = "waiting" /\ Phase' = [Phase EXCEPT ![t] = "reading"]
    BY <1>1 DEF Phase, Inv, TaskInv, Closing
  <1>3. /\ Written \in Seq(Owners) /\ Len(Written) = N /\ N \in Nat
        /\ \A i \in 1..N : Written[i] = stdin[i].owner
    BY SeenPipes DEF Inv
  <1>4. /\ Len(stdin') = N + 1 /\ stdin'[N + 1] = c
        /\ \A i \in 1..N : stdin'[i] = stdin[i]
    BY <1>1 DEF Inv, StopInv
  <1>5. Written' = Append(Written, t)
    <2>1. Written' = [i \in 1..(N + 1) |-> stdin'[i].owner]
      BY <1>4 DEF Written
    <2>2. /\ Append(Written, t) \in Seq(Owners) /\ Len(Append(Written, t)) = N + 1
          /\ Append(Written, t)[N + 1] = t
          /\ \A i \in 1..N : Append(Written, t)[i] = Written[i]
      BY <1>3, AppendProperties DEF Owners
    <2>3. Append(Written, t) \in [1..(N + 1) -> Owners]
      BY <2>2, LenProperties
    <2>4. \A i \in 1..(N + 1) : i \in 1..N \/ i = N + 1
      BY <1>3
    <2>5. \A i \in 1..(N + 1) : Append(Written, t)[i] = stdin'[i].owner
      BY <1>3, <1>4, <2>2, <2>4
    <2> QED
      BY <2>1, <2>3, <2>5
  <1>6. Records' = Records
    BY <1>1 DEF Records
  <1> QED
    BY <1>1, <1>2, <1>5, <1>6 DEF Exchanging!Send

LEMMA ReadLineIsSeen ==
    ASSUME Inv, NEW t \in Tasks, ReadLine(t)
    PROVE  Exchanging!Answered(t) \/ Exchanging!Collect(t)
  <1> DEFINE r == Head(stdout)
             N == Len(stdout)
  <1>1. /\ phase[t] = "reading" /\ stdout # <<>> /\ stdout' = Tail(stdout)
        /\ UNCHANGED <<stdin, gdb>>
        /\ \/ r.owner = t /\ Answered(t, r.ok)
           \/ r.owner # t /\ Collect(t, r)
    BY DEF ReadLine, targetVars
  <1>2. op[t] \in Operation /\ at[t] \in DOMAIN Script[op[t]] /\ op[t] # "none"
    BY <1>1 DEF Inv, TaskInv, Operation, Script
  <1>3. /\ Records \in Seq(SeenRecord) /\ Len(Records) = N /\ N \in Nat
        /\ \A i \in 1..N : Records[i] = [owner |-> stdout[i].owner, parses |-> TRUE]
    BY SeenPipes DEF Inv
  <1>4. /\ r = stdout[1] /\ 1 \in 1..N /\ Len(stdout') = N - 1
        /\ \A i \in 1..(N - 1) : stdout'[i] = stdout[i + 1]
    BY <1>1 DEF Inv, StopInv
  <1>5. /\ Records # <<>> /\ Head(Records) = [owner |-> r.owner, parses |-> TRUE]
    <2>1. Records # <<>> /\ Head(Records) = Records[1]
      BY <1>3, <1>4
    <2> QED
      BY <1>3, <1>4, <2>1
  <1>6. Records' = Tail(Records)
    <2>1. Records' = [i \in 1..(N - 1) |->
                        [owner |-> stdout[i + 1].owner, parses |-> TRUE]]
      BY <1>4 DEF Records
    <2>2. /\ Tail(Records) \in Seq(SeenRecord) /\ Len(Tail(Records)) = N - 1
          /\ \A i \in 1..(N - 1) : Tail(Records)[i] = Records[i + 1]
      BY <1>3, <1>5, HeadTailProperties
    <2>3. Tail(Records) \in [1..(N - 1) -> SeenRecord]
      BY <2>2, LenProperties
    <2>4. \A i \in 1..(N - 1) :
             Tail(Records)[i] = [owner |-> stdout[i + 1].owner, parses |-> TRUE]
      BY <1>3, <2>2
    <2> QED
      BY <2>1, <2>3, <2>4
  <1>7. Written' = Written
    BY <1>1 DEF Written
  <1> HIDE DEF r, N
  <1>8. CASE r.owner = t /\ Answered(t, r.ok)
    <2>1. Moving(t)
      BY <1>1, <1>2, <1>8, AnsweredResult, ResultMoves DEF Alive
    <2>2. Exchanging!Ends(t) /\ Phase[t] = "reading"
      BY <1>1, <2>1, MovingEnds DEF Inv
    <2> QED
      BY <1>1, <1>5, <1>6, <1>7, <1>8, <2>2 DEF Exchanging!Answered
  <1>9. CASE r.owner # t /\ Collect(t, r)
    <2>1. line' = line /\ Phase' = Phase
      BY <1>9 DEF Collect, Phase
    <2>2. Phase[t] = "reading"
      BY <1>1 DEF Phase, Closing
    <2> QED
      BY <1>1, <1>5, <1>6, <1>7, <1>9, <2>1, <2>2 DEF Exchanging!Collect
  <1> QED
    BY <1>1, <1>8, <1>9

(* A command that fails, or is cancelled, leaves nothing of the task's own *)
(* in the pipes.                                                           *)
LEMMA OrphaningGivesUp ==
    ASSUME Inv, NEW t \in Tasks, phase[t] \in {"waiting", "reading"}, Moving(t),
           stdin' = Orphaned(stdin, t), stdout' = Orphaned(stdout, t), gdb' = gdb
    PROVE  Exchanging!GivesUp(t)
  <1>1. Exchanging!Ends(t) /\ Phase[t] # "idle"
    BY MovingEnds DEF Inv
  <1>2. /\ Len(stdin) \in Nat /\ DOMAIN stdin = 1..Len(stdin)
        /\ \A i \in 1..Len(stdin) : stdin[i] \in Command
        /\ Len(stdout) \in Nat /\ DOMAIN stdout = 1..Len(stdout)
        /\ \A i \in 1..Len(stdout) : stdout[i] \in Record
    BY DEF Inv, StopInv
  <1>3. /\ Len(stdin') = Len(stdin)
        /\ \A i \in 1..Len(stdin) :
              stdin'[i].owner = Exchanging!Disowned(stdin[i].owner, t)
    BY <1>2 DEF Orphaned, Exchanging!Disowned, Command
  <1>4. /\ Len(stdout') = Len(stdout)
        /\ \A i \in 1..Len(stdout) :
              stdout'[i].owner = Exchanging!Disowned(stdout[i].owner, t)
    BY <1>2 DEF Orphaned, Exchanging!Disowned, Record
  <1>5. Written' = [i \in 1..Len(Written) |-> Exchanging!Disowned(Written[i], t)]
    <2>1. Len(Written) = Len(stdin) /\ \A i \in 1..Len(stdin) : Written[i] = stdin[i].owner
      BY SeenPipes DEF Inv
    <2>2. Written' = [i \in 1..Len(stdin) |-> Exchanging!Disowned(stdin[i].owner, t)]
      BY <1>3 DEF Written
    <2> QED
      BY <2>1, <2>2
  <1>6. Records' = Exchanging!Orphaned(Records, t)
    <2>1. /\ Len(Records) = Len(stdout)
          /\ \A i \in 1..Len(stdout) :
                Records[i].owner = stdout[i].owner /\ Records[i].parses = TRUE
      BY SeenPipes DEF Inv, Records
    <2>2. Records' = [i \in 1..Len(stdout) |->
                        [owner |-> Exchanging!Disowned(stdout[i].owner, t),
                         parses |-> TRUE]]
      BY <1>4 DEF Records
    <2> QED
      BY <2>1, <2>2 DEF Exchanging!Orphaned, Exchanging!Record
  <1> QED
    BY <1>1, <1>5, <1>6 DEF Exchanging!GivesUp

LEMMA FailsIsGivingUp ==
    ASSUME Inv, NEW t \in Tasks, NEW why, Fails(t, why)
    PROVE  Exchanging!GivesUp(t)
  <1>1. /\ phase[t] \in {"waiting", "reading"} /\ Raised(t, why)
        /\ stdin' = Orphaned(stdin, t) /\ stdout' = Orphaned(stdout, t)
        /\ gdb' = gdb
    BY DEF Fails, targetVars
  <1>2. op[t] \in Operation /\ at[t] \in DOMAIN Script[op[t]]
    BY <1>1 DEF Inv, TaskInv, Operation, Script
  <1>3. Moving(t)
    BY <1>1, <1>2, RaisedResult, ResultMoves
  <1> QED
    BY <1>1, <1>3, OrphaningGivesUp

LEMMA CancelIsGivingUp ==
    ASSUME Inv, NEW t \in Tasks, Cancel(t)
    PROVE  Exchanging!GivesUp(t)
  <1>1. /\ phase[t] \in {"waiting", "reading"}
        /\ stdin' = Orphaned(stdin, t) /\ stdout' = Orphaned(stdout, t)
        /\ gdb' = gdb
        /\ \/ op[t] = "disconnect_target" /\ Close(t, "closing-cancelled")
           \/ End(t, "cancelled")
    BY DEF Cancel, targetVars
  <1>2. Moving(t)
    BY <1>1 DEF Moving, MovesToClose, MovesOut, Closing
  <1> QED
    BY <1>1, <1>2, OrphaningGivesUp

(* A session that closes has left execute before: GDB is gone with it. *)
LEMMA ClosingIsSeen ==
    ASSUME Inv, NEW t \in Tasks, Closed(t) \/ CancelClosing(t)
    PROVE  Exchanging!Dies
  <1>1. /\ phase[t] \in Closing /\ gdb' = "dead" /\ UNCHANGED <<stdin, stdout>>
        /\ phase' = [phase EXCEPT ![t] = "idle"] /\ line' = Without(t)
    BY DEF Closed, CancelClosing, End
  <1>2. ~ \E i \in DOMAIN line : line[i] = t
    BY <1>1 DEF Inv, LineInv, Closing
  <1>3. line' = line
    BY <1>1, <1>2 DEF Without
  <1>4. Phase' = Phase
    BY <1>1 DEF Phase, Inv, TaskInv, Closing
  <1>5. Written' = Written /\ Records' = Records
    BY <1>1 DEF Written, Records
  <1> QED
    BY <1>1, <1>3, <1>4, <1>5 DEF Exchanging!Dies

(* Whatever is printed comes last. *)
LEMMA PrintedIsSeen ==
    ASSUME Inv, NEW u \in Owners, NEW ok \in BOOLEAN, NEW n \in Nat, Printed(u, ok, n)
    PROVE  Records' = Append(Records, Exchanging!Record(u, TRUE))
  <1> DEFINE N == Len(stdout)
             r == [owner |-> u, ok |-> ok, frame |-> n]
             e == [owner |-> u, parses |-> TRUE]
  <1>1. stdout' = Append(stdout, r) /\ stdout \in Seq(Record) /\ r \in Record
    BY DEF Printed, Inv, StopInv, Record, Owners
  <1>2. /\ Len(stdout') = N + 1 /\ stdout'[N + 1] = r
        /\ \A i \in 1..N : stdout'[i] = stdout[i]
    BY <1>1, AppendProperties
  <1>3. /\ Records \in Seq(SeenRecord) /\ Len(Records) = N /\ N \in Nat
        /\ \A i \in 1..N : Records[i] = [owner |-> stdout[i].owner, parses |-> TRUE]
    BY SeenPipes DEF Inv
  <1>4. Records' = [i \in 1..(N + 1) |-> [owner |-> stdout'[i].owner, parses |-> TRUE]]
    BY <1>2 DEF Records
  <1>5. e \in SeenRecord /\ r.owner = u /\ Exchanging!Record(u, TRUE) = e
    BY DEF SeenRecord, Exchanging!Record
  <1> HIDE DEF r
  <1>6. /\ Append(Records, e) \in Seq(SeenRecord)
        /\ Len(Append(Records, e)) = N + 1 /\ Append(Records, e)[N + 1] = e
        /\ \A i \in 1..N : Append(Records, e)[i] = Records[i]
    BY <1>3, <1>5, AppendProperties
  <1>7. Append(Records, e) \in [1..(N + 1) -> SeenRecord]
    BY <1>6, LenProperties
  <1>8. \A i \in 1..(N + 1) : i \in 1..N \/ i = N + 1
    BY <1>3
  <1>9. \A i \in 1..(N + 1) :
           Append(Records, e)[i] = [owner |-> stdout'[i].owner, parses |-> TRUE]
    BY <1>2, <1>3, <1>5, <1>6, <1>8
  <1> QED
    BY <1>4, <1>5, <1>7, <1>9

LEMMA TakesUpIsAnswering ==
    ASSUME Inv, GdbRefuses \/ GdbExecutes
    PROVE  Exchanging!Answers
  <1> DEFINE M == Len(stdin)
  <1>1. /\ gdb = "alive" /\ stdin # <<>> /\ stdin' = Tail(stdin)
        /\ UNCHANGED <<line, phase>>
        /\ \E ok \in BOOLEAN, n \in {0, stops} : Printed(Head(stdin).owner, ok, n)
    BY DEF GdbRefuses, GdbExecutes, taskVars
  <1>2. /\ Written \in Seq(Owners) /\ Len(Written) = M /\ M \in Nat
        /\ \A i \in 1..M : Written[i] = stdin[i].owner
    BY SeenPipes DEF Inv
  <1>3. /\ Head(stdin) = stdin[1] /\ 1 \in 1..M /\ Len(stdin') = M - 1
        /\ \A i \in 1..(M - 1) : stdin'[i] = stdin[i + 1]
    BY <1>1 DEF Inv, StopInv
  <1>4. Written # <<>> /\ Head(Written) = Head(stdin).owner /\ Head(Written) \in Owners
    BY <1>2, <1>3
  <1>5. Written' = Tail(Written)
    <2>1. Written' = [i \in 1..(M - 1) |-> stdin[i + 1].owner]
      BY <1>3 DEF Written
    <2>2. /\ Tail(Written) \in Seq(Owners) /\ Len(Tail(Written)) = M - 1
          /\ \A i \in 1..(M - 1) : Tail(Written)[i] = Written[i + 1]
      BY <1>2, <1>4, HeadTailProperties
    <2>3. Tail(Written) \in [1..(M - 1) -> Owners]
      BY <2>2, LenProperties
    <2>4. \A i \in 1..(M - 1) : Tail(Written)[i] = stdin[i + 1].owner
      BY <1>2, <2>2
    <2> QED
      BY <2>1, <2>3, <2>4
  <1>6. Records' = Append(Records, Exchanging!Record(Head(Written), TRUE))
    BY <1>1, <1>4, PrintedIsSeen DEF Inv, StopInv
  <1>7. Phase' = Phase
    BY <1>1 DEF Phase
  <1> QED
    BY <1>1, <1>4, <1>5, <1>6, <1>7 DEF Exchanging!Answers

LEMMA HaltsIsSeen ==
    ASSUME Inv, Halts
    PROVE  Exchanging!Prints
  <1>1. /\ gdb = "alive" /\ gdb' = gdb /\ UNCHANGED <<line, phase, stdin>>
        /\ Printed(NoTask, TRUE, stops + 1)
    BY DEF Halts, taskVars
  <1>2. stops + 1 \in Nat /\ NoTask \in Owners
    BY DEF Inv, StopInv, Owners
  <1>3. Records' = Append(Records, Exchanging!Record(NoTask, TRUE))
    BY <1>1, <1>2, PrintedIsSeen
  <1>4. Phase' = Phase /\ Written' = Written
    BY <1>1 DEF Phase, Written
  <1> QED
    BY <1>1, <1>3, <1>4 DEF Exchanging!Prints

LEMMA ExchangeStep ==
    ASSUME Inv, [Next]_vars
    PROVE  Exchanged
  <1>1. ASSUME NEW t \in Tasks, NEW o, Starts(t, o)
        PROVE  Exchanged
    BY <1>1, StartsIsCall DEF Exchanged, Exchanging!Next
  <1>2. ASSUME NEW t \in Tasks, NEW o, ResetAtOnce(t, o)
        PROVE  Exchanged
    BY <1>2 DEF ResetAtOnce, targetVars, Exchanged, Phase, Written, Records
  <1>3. ASSUME NEW t \in Tasks, Send(t) \/ ReadLine(t)
        PROVE  Exchanged
    BY <1>3, SendIsSeen, ReadLineIsSeen DEF Exchanged, Exchanging!Next
  <1>4. ASSUME NEW t \in Tasks, NEW why, Fails(t, why)
        PROVE  Exchanged
    BY <1>4, FailsIsGivingUp DEF Exchanged, Exchanging!Next
  <1>5. ASSUME NEW t \in Tasks, Cancel(t)
        PROVE  Exchanged
    BY <1>5, CancelIsGivingUp DEF Exchanged, Exchanging!Next
  <1>6. ASSUME NEW t \in Tasks, Closed(t) \/ CancelClosing(t)
        PROVE  Exchanged
    BY <1>6, ClosingIsSeen DEF Exchanged, Exchanging!Next
  <1>7. CASE GdbRefuses \/ GdbExecutes
    BY <1>7, TakesUpIsAnswering DEF Exchanged, Exchanging!Next
  <1>8. CASE TargetStops \/ HitsBreakpoint
    BY <1>8, HaltsIsSeen DEF TargetStops, HitsBreakpoint, Exchanged, Exchanging!Next
  <1>9. CASE GdbDies
    <2>1. Exchanging!Dies
      BY <1>9 DEF GdbDies, taskVars, Phase, Written, Records, Exchanging!Dies
    <2> QED
      BY <2>1 DEF Exchanged, Exchanging!Next
  <1>10. CASE UNCHANGED vars
    BY <1>10 DEF vars, Exchanged, Phase, Written, Records
  <1> QED
    BY <1>1, <1>2, <1>3, <1>4, <1>5, <1>6, <1>7, <1>8, <1>9, <1>10
       DEF Next, Connect, Begin, TaskStep

(* session.py with controller.py:63-75: for any tasks, scripts and number  *)
(* of calls, what the session does with execute keeps to the exchange that *)
(* MIControllerProofs shows the controller implements: no operation goes   *)
(* on with another command's answer, and the line is served in order.      *)
THEOREM KeepsToExchange == Spec => ExchangeSpec
  <1>1. Init => Exchanging!Init
    BY DEF Init, Exchanging!Init, Phase, Written, Records, Closing
  <1>2. Inv /\ [Next]_vars =>
          [Exchanging!Next]_<<line, Phase, Written, Records, gdb = "alive">>
    BY ExchangeStep DEF Exchanged
  <1> QED
    BY SessionInvariant, <1>1, <1>2, PTL DEF Spec, ExchangeSpec, Exchanging!Spec

=============================================================================
