------------------------------ MODULE MCParts ------------------------------
(***************************************************************************)
(* The parts of the server that share no state with any other: the pure    *)
(* decisions and the GDB/MI parser over bounded inputs, which grow (a line *)
(* by one character, a record as GDB prints it), the audit log and the lab *)
(* inventory.  A behaviour is one of a single part, chosen at the start.   *)
(***************************************************************************)
EXTENDS Decisions, MIGrammar, MIPrinter, AuditLog, LabInventory

CONSTANTS MaxTyped

(* Every PolicyRequest the service can build. *)
ServiceRequests ==
    {r \in [mode : PermissionLevel, op : DebugOperation, class : TargetClass,
            production : {FALSE}, writes : BOOLEAN, confirmed : BOOLEAN,
            allowlist : {{}} \cup {{o} : o \in DebugOperation}] :
        r.allowlist \subseteq {r.op}}

(* A core that has recorded no fault yet, as a fault handler, a thread or  *)
(* nobody finds its LR and xPSR.                                           *)
CoreSnapshots ==
    {s \in [cfsr : {{}, Missing}, hfsr : SUBSET {1, 30, 31} \cup {Missing},
            lr : {Missing, {0, 3} \cup 5..31}, xpsr : {Missing, {0, 1}},
            addresses : SUBSET {"mmfar", "bfar"}, symbol : {FALSE},
            stack : {0, FrameBytes - 1, FrameBytes}] :
        (s.lr = Missing <=> s.xpsr = Missing) /\ (s.stack > 0 => s.lr # Missing)}

-----------------------------------------------------------------------------
(* Lines, typed from the beginning or inside a result or a stream. *)
Alphabet == {"n", "1", "=", ",", "\"", "\\", "{", "}", "[", "]"}
TypedLines ==
    {[typed |-> 0, line |-> l] :
        l \in {<<>>, <<"^", "n">>, <<"1", "*", "n", ",", "n", "=">>, <<"~">>}}

Type ==
    /\ Is("line") /\ input.of.typed < MaxTyped
    /\ \E c \in Alphabet :
          Become("line", [typed |-> input.of.typed + 1,
                          line |-> Append(input.of.line, c)])

-----------------------------------------------------------------------------
(* Records, as GDB prints them. *)
MCHeads == {[token |-> <<"1", "0">>, marker |-> "^", class |-> <<"n">>],
            [token |-> <<>>, marker |-> "=", class |-> <<"n", "-", "1">>]}
MCTexts == {<<>>, <<"\"", ",", "}", "\\">>, <<"n", "\n", "=", "]">>}
MCNames == {<<"a">>, <<"b", "-", "1">>}

-----------------------------------------------------------------------------
(* A part that is not the one chosen stays as it begins. *)
NoRecordPrinted == head = <<>> /\ levels = <<>> /\ printed = 0
NoLog == LogInit /\ writer = "sqlite" /\ large = {}
NoLab == LabInit /\ targets = Targets

Init ==
    \/ /\ \/ DecisionInit
          \/ \E l \in TypedLines : input = [kind |-> "line", of |-> l]
       /\ NoRecordPrinted /\ NoLog /\ NoLab
    \/ input = [kind |-> "record"] /\ PrinterInit /\ NoLog /\ NoLab
    \/ input = [kind |-> "log"] /\ NoRecordPrinted /\ LogInit /\ NoLab
    \/ input = [kind |-> "lab"] /\ NoRecordPrinted /\ NoLog /\ LabInit

Next ==
    \/ (DecisionNext \/ Type) /\ UNCHANGED <<printerVars, logVars, labVars>>
    \/ Is("record") /\ PrinterNext /\ UNCHANGED <<input, logVars, labVars>>
    \/ Is("log") /\ LogNext /\ UNCHANGED <<input, printerVars, labVars>>
    \/ Is("lab") /\ LabNext /\ UNCHANGED <<input, printerVars, logVars>>

Spec == Init /\ [][Next]_<<input, printerVars, logVars, labVars>>

-----------------------------------------------------------------------------
(* The parser accepts the lines of the grammar and raises on all others:   *)
(* nothing trails a record, every quote and bracket is closed              *)
(* (parser.py:26-240).                                                     *)
ReadsTheGrammar ==
    Is("line") =>
        (Parse(input.of.line) # ParseError <=> IsRecord(input.of.line))
=============================================================================
