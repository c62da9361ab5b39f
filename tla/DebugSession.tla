---------------------------- MODULE DebugSession ----------------------------
(***************************************************************************)
(* debug/session.py with the snapshot capture, the backend adapters and    *)
(* the command builders it uses, down to the MI commands on the wire: what *)
(* each operation sends, in which order, and what it makes of every way a  *)
(* command can end.  The tool service is reduced to its slots.             *)
(*                                                                         *)
(* Tokens are abstracted by what MIController proves of them: an answer    *)
(* belongs to the task that still awaits it or to nobody.  So are the      *)
(* queue limit and the wait for room in the pipe.                          *)
(*                                                                         *)
(* GDB and the target are external: commands are taken up in order, may be *)
(* refused, and a stop is reported some time after the answer to the       *)
(* command that leads to it.  A target the code lost track of may run      *)
(* while the session reports it halted: that is what the properties judge. *)
(***************************************************************************)
EXTENDS SessionContract, Integers, Sequences, FiniteSets

CONSTANTS
    Tasks,      \* the tool calls that may be open at the same time
    Calls,      \* the operations clients ask for
    Configs,    \* max_session_operations, and a backend with a reset path or not
    MaxCalls,   \* bound: operations ever begun, connect included
    NoTask

(* SnapshotService.capture: two reads stand for those of the registers, of *)
(* the fault registers and of the stack; then symbol_context.              *)
SnapshotScript == <<"read", "read", "frame", "disassemble">>

(* The commands of every operation.  resume's interrupt follows only a      *)
(* timeout; two instructions stand for any count.                           *)
Script ==
    [connect_target    |-> <<"target-select">>,
     halt              |-> <<"interrupt">>,
     resume            |-> <<"continue", "interrupt">>,
     resume_unattended |-> <<"continue">>,
     step_instruction  |-> <<"step", "step">>,
     reset_halt        |-> <<"reset-halt">>,
     reset_run         |-> <<"reset-run">>,
     read_memory       |-> <<"read">>,
     set_breakpoint    |-> <<"break">>,
     write_memory      |-> <<"write">>,
     compare_write     |-> <<"read", "write">>,
     debug_snapshot    |-> SnapshotScript,
     disconnect_target |-> <<"exit">>]

Operation == DOMAIN Script

ASSUME SessionAssumption ==
    /\ IsFiniteSet(Tasks) /\ NoTask \notin Tasks
    /\ Calls \subseteq Operation \ {"connect_target"}
    /\ Configs \subseteq [limit : Nat \ {0}, resets : BOOLEAN]
    /\ MaxCalls \in Nat

(* The operation of the service a script belongs to: resume_unattended is *)
(* a resume without auto_interrupt.                                       *)
Tool(o) ==
    CASE o = "resume_unattended" -> "resume"
      [] o \in {"reset_halt", "reset_run"} -> "reset_target"
      [] o = "compare_write" -> "write_memory"
      [] OTHER -> o

VARIABLES
    config,      \* one of Configs; never changes
    registered,  \* the session is in the service's table
    calls,       \* operations begun so far
    state,       \* the session's state
    op, at,      \* task -> its operation (or "none"), and the step it is at
    phase,       \* task -> idle, waiting (lock), reading or closing
    frame,       \* task -> first stop reported to the command it reads for
    answer,      \* task -> how its last operation ended
    line,        \* the tasks in execute: the first one has the lock
    stdin,       \* commands GDB has not taken up
    stdout,      \* records nobody has read
    gdb,         \* alive or dead
    target,      \* halted (as by the attach), running, stepping or stopping
    stops,       \* history: stops so far
    shown,       \* history: the last stop halt or step_instruction returned
    window,      \* task -> history: was its halted target changed under it
    lost         \* history: how commands that start the target were given up

taskVars == <<op, at, phase, frame, answer, line, registered, state>>
targetVars == <<gdb, target, stops>>
vars == <<config, registered, calls, state, op, at, phase, frame, answer, line,
          stdin, stdout, gdb, target, stops, shown, window, lost>>

Closing == {"closing", "closing-failed", "closing-cancelled"}

Init ==
    /\ config \in Configs
    /\ registered = FALSE
    /\ calls = 0
    /\ state = "disconnected"
    /\ op = [t \in Tasks |-> "none"]
    /\ at = [t \in Tasks |-> 1]
    /\ phase = [t \in Tasks |-> "idle"]
    /\ frame = [t \in Tasks |-> 0]
    /\ answer = [t \in Tasks |-> "none"]
    /\ line = <<>> /\ stdin = <<>> /\ stdout = <<>>
    /\ gdb = "alive"
    /\ target = "halted"
    /\ stops = 0 /\ shown = 0
    /\ window = [t \in Tasks |-> "none"]
    /\ lost = {}

Current(t) == Script[op[t]][at[t]]
Busy == {t \in Tasks : op[t] # "none"}

(* Slip: what was sent for a task answers whatever it sends next. *)
NeverOrphaned(pipe, t) == pipe

(* Slip: a waiter that is cancelled keeps its place in the line. *)
WithoutHolder(t) ==
    IF phase[t] = "waiting" THEN line ELSE SelectSeq(line, LAMBDA u : u # t)

(* t gives up its place in the line, if it has one; the others move up. *)
Without(t) ==
    IF \E i \in DOMAIN line : line[i] = t
    THEN LET place == CHOOSE i \in DOMAIN line : line[i] = t
         IN  [i \in 1..Len(line) - 1 |->
                 line[IF i < place THEN i ELSE i + 1]]
    ELSE line

(* What is still in the pipes for a command that nobody awaits any more. *)
Orphaned(pipe, t) ==
    [i \in DOMAIN pipe |->
        IF pipe[i].owner = t THEN [pipe[i] EXCEPT !.owner = NoTask] ELSE pipe[i]]

-----------------------------------------------------------------------------
(***************************************************************************)
(* Operations begin.                                                       *)
(***************************************************************************)

(* Slip: off by one against the per-session limit. *)
FreeSlotOffByOne == Cardinality(Busy) =< config.limit

FreeSlot == Cardinality(Busy) < config.limit

Starts(t, o) ==
    /\ calls < MaxCalls /\ calls' = calls + 1
    /\ op[t] = "none"
    /\ op' = [op EXCEPT ![t] = o]
    /\ phase' = [phase EXCEPT ![t] = "waiting"]
    /\ line' = Append(line, t)
    /\ UNCHANGED <<config, registered, at, frame, answer, stdin, stdout,
                   targetVars, shown, window, lost>>

Connect(t) ==
    /\ calls = 0
    /\ state' = "connecting"
    /\ Starts(t, "connect_target")

Begin(t, o) ==
    /\ registered /\ FreeSlot
    /\ Tool(o) = "reset_target" => config.resets
    /\ Starts(t, o)
    /\ UNCHANGED state

(* A backend without a reset path: the state moves, GDB is told nothing. *)
ResetAtOnce(t, o) ==
    /\ registered /\ FreeSlot
    /\ Tool(o) = "reset_target" /\ ~config.resets
    /\ calls < MaxCalls /\ calls' = calls + 1
    /\ op[t] = "none"
    /\ LET m == Moved(state, IF o = "reset_halt" THEN "halted" ELSE "running")
       IN  /\ state' = m.state
           /\ answer' = [answer EXCEPT ![t] = IF m.ok THEN "returned" ELSE "raised"]
    /\ lost' = lost \cup {"unsent"}
    /\ UNCHANGED <<config, registered, op, at, phase, frame, line, stdin, stdout,
                   targetVars, shown, window>>

-----------------------------------------------------------------------------
(***************************************************************************)
(* How an operation goes on when a command has ended.                      *)
(***************************************************************************)

(* The lock is given up and awaited again for the next command. *)
GoOn(t) ==
    /\ at' = [at EXCEPT ![t] = @ + 1]
    /\ phase' = [phase EXCEPT ![t] = "waiting"]
    /\ line' = Append(Without(t), t)
    /\ UNCHANGED <<op, answer, registered, window>>

(* A connect that returned registers the session, a disconnect removes it. *)
End(t, verdict) ==
    /\ registered' = CASE verdict # "returned" -> registered
                       [] op[t] = "connect_target" -> TRUE
                       [] op[t] = "disconnect_target" -> FALSE
                       [] OTHER -> registered
    /\ answer' = [answer EXCEPT ![t] = verdict]
    /\ op' = [op EXCEPT ![t] = "none"]
    /\ at' = [at EXCEPT ![t] = 1]
    /\ phase' = [phase EXCEPT ![t] = "idle"]
    /\ line' = Without(t)
    /\ window' = [window EXCEPT ![t] = "none"]

(* disconnect's finally clause: close() terminates GDB and waits for it. *)
Close(t, how) ==
    /\ phase' = [phase EXCEPT ![t] = how]
    /\ line' = Without(t)
    /\ UNCHANGED <<op, at, answer, registered, window>>

(* Slip: one command too many. *)
ProceedTooFar(t) ==
    IF at[t] =< Len(Script[op[t]]) THEN GoOn(t) ELSE End(t, "returned")

Proceed(t) ==
    IF at[t] < Len(Script[op[t]]) THEN GoOn(t) ELSE End(t, "returned")

Settle(t, s) ==
    LET m == Moved(state, s)
    IN  state' = m.state /\ End(t, IF m.ok THEN "returned" ELSE "raised")

(* Slip: a resume that timed out returns the state it found. *)
UnattendedKeepsState(t) == Settle(t, state)

(* resume without auto_interrupt, timed out. *)
UnattendedTimedOut(t) == Settle(t, "unknown")

(* Slip: a failing -gdb-exit skips the finally clause. *)
ExitFailsAtOnce(t) == End(t, "raised")

ExitFailed(t) == Close(t, "closing-failed")

(* The command raised an Exception.  resume handles timeouts, and its     *)
(* nested halt every failure; symbol_context goes on without the part it  *)
(* could not read.                                                        *)
Raised(t, why) ==
    CASE op[t] = "resume" /\ at[t] = 1 /\ why = "timeout" ->
            GoOn(t) /\ UNCHANGED state
      [] op[t] = "resume_unattended" /\ why = "timeout" -> UnattendedTimedOut(t)
      [] op[t] = "resume" /\ at[t] = 2 -> Settle(t, "degraded")
      [] Current(t) \in {"frame", "disassemble"} -> Proceed(t) /\ UNCHANGED state
      [] Current(t) = "exit" -> ExitFailed(t) /\ UNCHANGED state
      [] OTHER -> End(t, "raised") /\ UNCHANGED state

(* The state a command's success moves the session to. *)
Successor ==
    [cmd \in {"target-select", "interrupt", "continue", "step", "reset-halt",
              "reset-run"} |->
        CASE cmd = "target-select" -> "unknown"
          [] cmd \in {"continue", "reset-run"} -> "running"
          [] OTHER -> "halted"]

Success(t) ==
    IF Current(t) \in DOMAIN Successor
    THEN Moved(state, Successor[Current(t)]) ELSE Returns(state)

(* The memory is not what compare-before-write expected. *)
Mismatch(t) == op[t] = "compare_write" /\ at[t] = 1 /\ End(t, "raised")

Answered(t, ok) ==
    IF ok /\ Success(t).ok
    THEN /\ state' = Success(t).state
         /\ \/ Mismatch(t)
            \/ IF Current(t) = "exit" THEN Close(t, "closing")
               ELSE IF op[t] = "resume" THEN End(t, "returned")
               ELSE Proceed(t)
    ELSE Raised(t, "error")

(* halt, and the last instruction of a step, return the first frame among *)
(* the records their command collected.                                   *)
Shown(t, ok) ==
    IF /\ ok /\ Success(t).ok /\ frame[t] # 0
       /\ op[t] = "halt" \/ (op[t] = "step_instruction" /\ at[t] = 2)
    THEN frame[t] ELSE shown

(* The target may be started by a command whose answer nobody waits for. *)
GivenUp(t, why) ==
    IF \/ phase[t] = "reading" /\ Current(t) = "reset-run"
       \/ phase[t] = "reading" /\ Current(t) = "continue" /\ why # "timeout"
       \/ op[t] = "resume" /\ at[t] = 2 /\ why = "cancelled"
    THEN lost \cup {why} ELSE lost

-----------------------------------------------------------------------------
(***************************************************************************)
(* MIController.execute as an operation sees it.                           *)
(***************************************************************************)
HasLock(t) == line # <<>> /\ Head(line) = t

(* Slip: the records collected for a command are kept for the next. *)
AllFrames(t) == frame

(* Records are collected per command. *)
NoFrames(t) == [frame EXCEPT ![t] = 0]

Send(t) ==
    /\ phase[t] = "waiting" /\ HasLock(t)
    /\ stdin' = Append(stdin, [cmd |-> Current(t), owner |-> t])
    /\ phase' = [phase EXCEPT ![t] = "reading"]
    /\ frame' = NoFrames(t)
    /\ UNCHANGED <<config, registered, calls, state, op, at, answer, line, stdout,
                   targetVars, shown, window, lost>>

(* A record that does not answer the command is collected. *)
Collect(t, r) ==
    /\ frame' = [frame EXCEPT ![t] = IF @ = 0 THEN r.frame ELSE @]
    /\ UNCHANGED <<op, at, phase, answer, line, registered, state, window, shown>>

ReadLine(t) ==
    /\ phase[t] = "reading" /\ stdout # <<>>
    /\ stdout' = Tail(stdout)
    /\ LET r == Head(stdout)
       IN  IF r.owner = t
           THEN Answered(t, r.ok) /\ shown' = Shown(t, r.ok) /\ UNCHANGED frame
           ELSE Collect(t, r)
    /\ UNCHANGED <<config, calls, stdin, targetVars, lost>>

(* execute raises: the command timed out, GDB printed a line that does not *)
(* parse, or it is gone and all it printed has been read.                  *)
Fails(t, why) ==
    /\ \/ why = "timeout" /\ phase[t] = "reading"
       \/ why = "garbage" /\ phase[t] = "reading" /\ gdb = "alive"
       \/ /\ why = "closed" /\ gdb = "dead"
          /\ \/ phase[t] = "reading" /\ stdout = <<>>
             \/ phase[t] = "waiting" /\ HasLock(t)
    /\ Raised(t, why)
    /\ stdin' = Orphaned(stdin, t) /\ stdout' = Orphaned(stdout, t)
    /\ lost' = IF why = "closed" THEN lost ELSE GivenUp(t, why)
    /\ UNCHANGED <<config, calls, frame, targetVars, shown>>

(* The client cancels the call while it waits for the lock or reads; a *)
(* disconnect that has sent its command still runs its finally clause. *)
Cancel(t) ==
    /\ phase[t] \in {"waiting", "reading"}
    /\ IF op[t] = "disconnect_target"
       THEN Close(t, "closing-cancelled") ELSE End(t, "cancelled")
    /\ stdin' = Orphaned(stdin, t) /\ stdout' = Orphaned(stdout, t)
    /\ lost' = GivenUp(t, "cancelled")
    /\ UNCHANGED <<config, calls, state, frame, targetVars, shown>>

Closed(t) ==
    /\ phase[t] \in Closing
    /\ gdb' = "dead"
    /\ state' = "disconnected"
    /\ End(t, CASE phase[t] = "closing" -> "returned"
                [] phase[t] = "closing-failed" -> "raised"
                [] phase[t] = "closing-cancelled" -> "cancelled")
    /\ UNCHANGED <<config, calls, frame, stdin, stdout, target, stops, shown, lost>>

(* Cancelled, maybe again, while it awaits the end of GDB, which has been *)
(* told to go.                                                            *)
CancelClosing(t) ==
    /\ phase[t] \in Closing
    /\ gdb' = "dead"
    /\ End(t, "cancelled")
    /\ UNCHANGED <<config, calls, state, frame, stdin, stdout, target, stops, shown, lost>>

-----------------------------------------------------------------------------
(***************************************************************************)
(* GDB and the target.                                                     *)
(***************************************************************************)
Printed(owner, ok, n) ==
    stdout' = Append(stdout, [owner |-> owner, ok |-> ok, frame |-> n])

GdbRefuses ==
    /\ gdb = "alive" /\ stdin # <<>>
    /\ stdin' = Tail(stdin)
    /\ Printed(Head(stdin).owner, FALSE, 0)
    /\ UNCHANGED <<config, calls, taskVars, targetVars, shown, window, lost>>

NeedsHalt == {"continue", "step", "frame"}

Effect(cmd) ==
    CASE cmd = "target-select" -> "halted"
      [] cmd \in {"continue", "reset-run"} -> "running"
      [] cmd = "step" -> "stepping"
      [] cmd = "reset-halt" -> "stopping"
      [] cmd = "interrupt" /\ target # "halted" -> "stopping"
      [] OTHER -> target

(* A halted target is under observation from the first read of an          *)
(* operation on, until another operation's command changes it.             *)
Observed(c) ==
    [t \in Tasks |->
        IF t = c.owner
        THEN IF c.cmd = "read" /\ target = "halted" /\ window[t] = "none"
             THEN "open" ELSE window[t]
        ELSE IF /\ window[t] = "open"
                /\ c.cmd = "write" \/ Effect(c.cmd) # target
             THEN "torn" ELSE window[t]]

GdbExecutes ==
    /\ gdb = "alive" /\ stdin # <<>>
    /\ LET c == Head(stdin)
       IN  /\ c.cmd \in NeedsHalt => target = "halted"
           /\ Printed(c.owner, TRUE, IF c.cmd = "frame" THEN stops ELSE 0)
           /\ target' = Effect(c.cmd)
           /\ gdb' = IF c.cmd = "exit" THEN "dead" ELSE gdb
           /\ window' = Observed(c)
    /\ stdin' = Tail(stdin)
    /\ UNCHANGED <<config, calls, taskVars, stops, shown, lost>>

Halts ==
    /\ gdb = "alive"
    /\ target' = "halted"
    /\ stops' = stops + 1
    /\ Printed(NoTask, TRUE, stops + 1)
    /\ UNCHANGED <<config, calls, taskVars, stdin, gdb, shown, window, lost>>

TargetStops == target \in {"stepping", "stopping"} /\ Halts

HitsBreakpoint == target = "running" /\ Halts

GdbDies ==
    /\ gdb = "alive" /\ gdb' = "dead"
    /\ UNCHANGED <<config, calls, taskVars, stdin, stdout, target, stops, shown,
                   window, lost>>

TaskStep(t) ==
    \/ Send(t) \/ ReadLine(t) \/ Closed(t)
    \/ Fails(t, "timeout") \/ Fails(t, "closed")

Next ==
    \/ \E t \in Tasks :
          \/ Connect(t)
          \/ \E o \in Calls : Begin(t, o) \/ ResetAtOnce(t, o)
          \/ TaskStep(t) \/ Fails(t, "garbage")
          \/ Cancel(t) \/ CancelClosing(t)
    \/ GdbRefuses \/ GdbExecutes
    \/ TargetStops \/ HitsBreakpoint
    \/ GdbDies

Spec == Init /\ [][Next]_vars

(* Timers fire and the event loop runs every task that can run. *)
FairSpec == Spec /\ \A t \in Tasks : WF_vars(TaskStep(t))

(* And a well-behaved GDB: it takes up its commands, and a target that was *)
(* told to stop, or to step, stops.                                        *)
PromptSpec ==
    FairSpec /\ WF_vars(GdbRefuses \/ GdbExecutes) /\ WF_vars(TargetStops)

-----------------------------------------------------------------------------
(* The values the session's variables range over. *)
TypeOK ==
    /\ state \in TargetState /\ registered \in BOOLEAN
    /\ op \in [Tasks -> Operation \cup {"none"}]
    /\ \A t \in Busy : at[t] \in DOMAIN Script[op[t]]
    /\ phase \in [Tasks -> {"idle", "waiting", "reading"} \cup Closing]
    /\ frame \in [Tasks -> 0..stops] /\ shown \in 0..stops
    /\ answer \in [Tasks -> {"none", "returned", "raised", "cancelled"}]
    /\ line \in Seq(Tasks)
    /\ gdb \in {"alive", "dead"}
    /\ target \in {"halted", "running", "stepping", "stopping"}
    /\ window \in [Tasks -> {"none", "open", "torn"}]
    /\ lost \subseteq {"unsent", "timeout", "garbage", "cancelled"}

(* The session implements its contract: whatever interleaving of commands, *)
(* timeouts and failures an operation goes through, it ends with one of    *)
(* the outcomes the tool service was modelled with.  The contract is the   *)
(* code's and not the documents': it lets a failed interrupt end degraded  *)
(* (see InterruptFailureIsUnknown) and a reset without a reset path move   *)
(* the state, and says nothing of the service's table of sessions.         *)
Contract ==
    INSTANCE SessionSpec WITH
        Callers <- Tasks,
        alive <- gdb = "alive" \/ stdout # <<>>,
        call <- [t \in Tasks |-> IF op[t] = "none" THEN "none" ELSE Tool(op[t])]
ContractSpec == Contract!Spec

(* What the callers of execute see of the session: a disconnect that       *)
(* closes is done with execute, and every record in the pipe parses.       *)
Phase == [t \in Tasks |-> IF phase[t] \in Closing THEN "idle" ELSE phase[t]]
Written == [i \in 1..Len(stdin) |-> stdin[i].owner]

Records ==
    [i \in 1..Len(stdout) |-> [owner |-> stdout[i].owner, parses |-> TRUE]]

Exchanging ==
    INSTANCE Exchange WITH
        Callers <- Tasks, phase <- Phase, stdin <- Written, stdout <- Records,
        alive <- gdb = "alive"

(* controller.py:63-75, as session.py uses it: the commands of the session *)
(* keep to the exchange MIController implements.  Calls are served in      *)
(* order, one command at a time, an answer ends only the call it belongs   *)
(* to, and what was given up is nobody's, although an operation is cut     *)
(* into commands, closes, and is cancelled at any point.                   *)
ExchangeSpec == Exchanging!Spec

Honest ==
    (state = "halted" /\ \A t \in Busy : op[t] \notin {"resume", "resume_unattended",
                                                    "reset_run"})
        => target # "running"

(* session.py:97: unless a command that starts the target was given up in  *)
(* a way the code does not handle (a cancelled call, a line that does not  *)
(* parse, a reset that timed out or was never sent), a session that says   *)
(* "halted" has a target that is not running: in particular a resume that  *)
(* timed out never ends in that belief, however late GDB takes it up.      *)
(* Exempt is the time a resume or a reset to run is open: it starts the    *)
(* target before the session knows.  A target that steps, or has been told *)
(* to stop and has not yet, counts as not running: it stops by itself.     *)
HaltedIsHonest == lost = {} => Honest

(* mvp-plan.md:64 "Timeouts do not leave the session in a falsely          *)
(* confident state."                                                       *)
TimeoutIsHonest == lost \subseteq {"timeout"} => Honest

(* safety-model.md "active operations per session: 1": with that limit     *)
(* nothing changes a halted target between the reads of one snapshot, or   *)
(* between the compare and the write of a compare-before-write, not even   *)
(* commands of earlier operations that timed out.                          *)
OperationIsUndisturbed ==
    config.limit = 1 => \A t \in Tasks : window[t] # "torn"

(* session.py:94: halt and step_instruction never present an older stop    *)
(* than one already presented, although stops of earlier commands are      *)
(* still in the pipe.                                                      *)
StopsAreShownInOrder == [][shown' >= shown]_shown

(* Every operation ends, whatever GDB does (short of filling its pipe):    *)
(* each command it sends times out at the latest, and the lock moves on.   *)
EveryOperationEnds == \A t \in Tasks : op[t] # "none" ~> op[t] = "none"

(* safety-model.md:63 "Bound all resume/continue operations with a timeout *)
(* or explicit stop policy.": a target that resume has started, with       *)
(* auto_interrupt, stops again, unless GDB is gone, the call was given up  *)
(* or the session says that it lost the target.                            *)
ResumeIsBounded ==
    registered /\ target = "running" ~>
        \/ target # "running" \/ state = "degraded"
        \/ gdb = "dead" \/ lost # {}

(* safety-model.md:102 "If interrupt fails, the session state must become  *)
(* `unknown`.": a resume that timed out and has sent its interrupt, and    *)
(* ends neither halted nor cancelled.                                      *)
InterruptFailureIsUnknown ==
    [][\A t \in Tasks :
          /\ op[t] = "resume" /\ at[t] = 2 /\ op'[t] = "none"
          /\ answer'[t] # "cancelled" /\ state' # "halted"
          => state' = "unknown"]_vars
=============================================================================
