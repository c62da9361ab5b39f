------------------------------- MODULE Exchange -------------------------------
(***************************************************************************)
(* What MIController.execute promises to the tasks that call it, without   *)
(* tokens: the callers are served in the order of their calls, one command *)
(* at a time; a caller takes up GDB's answer to its own command and no     *)
(* other; the answer to a command that was given up, whenever GDB prints   *)
(* it, is nobody's, and the next caller reads past it.                     *)
(*                                                                         *)
(* Of a command the pipes show whom it belongs to, of a record this and    *)
(* whether it parses.  A caller may call again at the instant its call     *)
(* ends: an operation of several commands.                                 *)
(***************************************************************************)
EXTENDS Naturals, Sequences

CONSTANTS Callers, NoTask

VARIABLES
    line,     \* the callers in execute, in the order of their calls
    phase,    \* caller -> idle, waiting or reading
    stdin,    \* whose commands GDB has not taken up, in their order
    stdout,   \* the records nobody has read
    alive     \* GDB runs

Init ==
    /\ line = <<>>
    /\ phase = [c \in Callers |-> "idle"]
    /\ stdin = <<>> /\ stdout = <<>>
    /\ alive = TRUE

(* A record: the caller whose command it answers, or NoTask. *)
Record(owner, parses) == [owner |-> owner, parses |-> parses]

Call(c) ==
    /\ phase[c] = "idle"
    /\ phase' = [phase EXCEPT ![c] = "waiting"]
    /\ line' = Append(line, c)
    /\ UNCHANGED <<stdin, stdout, alive>>

(* Only the first in line writes its command. *)
Send(c) ==
    /\ phase[c] = "waiting" /\ line # <<>> /\ Head(line) = c
    /\ phase' = [phase EXCEPT ![c] = "reading"]
    /\ stdin' = Append(stdin, c)
    /\ UNCHANGED <<line, stdout, alive>>

(* A record that does not belong to the caller does not end its call. *)
Collect(c) ==
    /\ phase[c] = "reading" /\ stdout # <<>>
    /\ Head(stdout).owner # c /\ Head(stdout).parses
    /\ stdout' = Tail(stdout)
    /\ UNCHANGED <<line, phase, stdin, alive>>

(* The line when its i-th caller has left and those behind it moved up. *)
OutOfLine(i) ==
    [j \in 1..(Len(line) - 1) |-> line[IF j < i THEN j ELSE j + 1]]

(* c's call ends; c may call again at once. *)
Ends(c) ==
    \E i \in 1..Len(line) :
        /\ line[i] = c
        /\ \/ /\ phase' = [phase EXCEPT ![c] = "idle"]
              /\ line' = OutOfLine(i)
           \/ /\ phase' = [phase EXCEPT ![c] = "waiting"]
              /\ line' = Append(OutOfLine(i), c)

(* The caller reads the answer to its command. *)
Answered(c) ==
    /\ phase[c] = "reading" /\ stdout # <<>> /\ Head(stdout).owner = c
    /\ stdout' = Tail(stdout)
    /\ Ends(c)
    /\ UNCHANGED <<stdin, alive>>

Disowned(owner, c) == IF owner = c THEN NoTask ELSE owner

Orphaned(pipe, c) ==
    [i \in 1..Len(pipe) |-> Record(Disowned(pipe[i].owner, c), pipe[i].parses)]

(* A timeout, a line that does not parse, the end of GDB or a cancelled    *)
(* call: nobody awaits the answer any more.                                *)
GivesUp(c) ==
    /\ phase[c] # "idle"
    /\ Ends(c)
    /\ stdin' = [i \in 1..Len(stdin) |-> Disowned(stdin[i], c)]
    /\ \/ stdout' = Orphaned(stdout, c)
       \/ /\ phase[c] = "reading" /\ stdout # <<>> /\ ~Head(stdout).parses
          /\ stdout' = Orphaned(Tail(stdout), c)
    /\ UNCHANGED alive

(* GDB answers its commands in order, and may be gone with the answer. *)
Answers ==
    /\ alive /\ stdin # <<>>
    /\ stdout' = Append(stdout, Record(Head(stdin), TRUE))
    /\ stdin' = Tail(stdin)
    /\ alive' \in BOOLEAN
    /\ UNCHANGED <<line, phase>>

(* A record or a line that answers nothing. *)
Prints ==
    /\ alive
    /\ \E parses \in BOOLEAN : stdout' = Append(stdout, Record(NoTask, parses))
    /\ UNCHANGED <<line, phase, stdin, alive>>

(* GDB exits or is terminated; what it printed can still be read. *)
Dies ==
    /\ alive' = FALSE
    /\ UNCHANGED <<line, phase, stdin, stdout>>

Next ==
    \/ \E c \in Callers :
          Call(c) \/ Send(c) \/ Collect(c) \/ Answered(c) \/ GivesUp(c)
    \/ Answers \/ Prints \/ Dies

Spec == Init /\ [][Next]_<<line, phase, stdin, stdout, alive>>
=============================================================================
