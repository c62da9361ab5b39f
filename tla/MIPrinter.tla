------------------------------ MODULE MIPrinter ------------------------------
(***************************************************************************)
(* What mi/parser.py is fed by: GDB's MI output, external to this project. *)
(* GDB prints the results of a record one after the other; a tuple or a    *)
(* list is opened, filled like the record itself and closed.  Beside the   *)
(* text of every entry stands the MIValue a client should be handed for    *)
(* it.  When only the record itself is open GDB may end the line.          *)
(***************************************************************************)
EXTENDS MIParser

CONSTANTS
    Heads,       \* the token, marker and class a record begins with
    Texts,       \* the strings GDB prints
    Names,       \* the names of results
    MaxEntries,  \* bound: the entries of a record, nested ones included
    MaxLevels    \* bound: the record and the tuples and lists open in it

IsText(t) == t \in Seq(Characters(t)) /\ EndOfLine \notin Characters(t)
IsName(n) ==
    n \in Seq(IdentifierPart) /\ n # <<>> /\ n[1] \in IdentifierStart

ASSUME PrinterAssumption ==
    /\ \A h \in Heads : /\ h.token \in Seq(Digits)
                        /\ h.marker \in DOMAIN RecordKind
                        /\ IsName(h.class)
    /\ \A t \in Texts : IsText(t)
    /\ \A n \in Names : IsName(n)
    /\ MaxEntries \in Nat /\ MaxLevels \in Nat

VARIABLES
    head,     \* how the record begins
    levels,   \* the record and what is open in it, the innermost last
    printed   \* bound: the entries begun so far

printerVars == <<head, levels, printed>>

-----------------------------------------------------------------------------
(* A string.  The characters GDB escapes that matter here. *)
EscapeOf ==
    [c \in {"\n", "\r", "\t", Quote, Backslash} |->
        CASE c = "\n" -> "n"
          [] c = "\r" -> "r"
          [] c = "\t" -> "t"
          [] OTHER -> c]

PrintedChar(c) == IF c \in DOMAIN EscapeOf THEN <<Backslash, EscapeOf[c]>> ELSE <<c>>

(* What the parts from each one on make together. *)
TogetherFrom(parts, w, n) ==
    IF n > Len(parts) THEN <<>> ELSE parts[n] \o w[n + 1]
Together(parts) ==
    LET w[n \in 1..Len(parts) + 1] == TogetherFrom(parts, w, n) IN w

PrintedChars(t) == [i \in DOMAIN t |-> PrintedChar(t[i])]
Enclosed(open, text, close) == <<open>> \o text \o <<close>>
RenderConst(t) == Enclosed(Quote, Together(PrintedChars(t))[1], Quote)

-----------------------------------------------------------------------------
(* An entry of a list need not have a key. *)
Keyless == <<>>
Keyed(e) == IF e.key = Keyless THEN e.text ELSE e.key \o <<"=">> \o e.text

(* The entries, separated by commas. *)
Parts(es) ==
    [i \in DOMAIN es |->
        IF i = Len(es) THEN Keyed(es[i]) ELSE Keyed(es[i]) \o <<Comma>>]
Joined(es) == Together(Parts(es))[1]

(* The last of the entries with equal keys counts. *)
LastOf(es, k) ==
    CHOOSE i \in DOMAIN es :
        es[i].key = k /\ \A j \in DOMAIN es : j > i => es[j].key # k
DictOf(es) ==
    [k \in {es[i].key : i \in DOMAIN es} |-> es[LastOf(es, k)].value]

Item(e) == IF e.key = Keyless THEN e.value ELSE Dict([k \in {e.key} |-> e.value])
ItemsOf(es) == [i \in DOMAIN es |-> Item(es[i])]

(* A tuple or a list that is closed, as an entry of the level around it. *)
Closing(level) ==
    IF level.kind = "tuple"
    THEN [key |-> level.key, value |-> Dict(DictOf(level.entries)),
          text |-> Enclosed(OpenTuple, Joined(level.entries), CloseTuple)]
    ELSE [key |-> level.key, value |-> List(ItemsOf(level.entries)),
          text |-> Enclosed(OpenList, Joined(level.entries), CloseList)]

Level(kind, key) == [kind |-> kind, key |-> key, entries |-> <<>>]
Innermost == levels[Len(levels)]
Filled(level, e) == [level EXCEPT !.entries = Append(level.entries, e)]

(* The keys the next entry may have. *)
NextKeys == IF Innermost.kind = "list" THEN Names \cup {Keyless} ELSE Names

-----------------------------------------------------------------------------
PrinterInit ==
    /\ head \in Heads
    /\ levels = <<Level("record", Keyless)>>
    /\ printed = 0

(* ui_out: a field with a string *)
PrintConst(key, t) ==
    /\ levels # <<>> /\ key \in NextKeys /\ printed < MaxEntries
    /\ levels' = [levels EXCEPT ![Len(levels)] =
                     Filled(Innermost, [key |-> key, value |-> Text(t),
                                        text |-> RenderConst(t)])]
    /\ printed' = printed + 1
    /\ UNCHANGED head

(* ui_out: a tuple or a list begins *)
Open(kind, key) ==
    /\ levels # <<>> /\ key \in NextKeys
    /\ printed < MaxEntries /\ Len(levels) < MaxLevels
    /\ levels' = Append(levels, Level(kind, key))
    /\ printed' = printed + 1
    /\ UNCHANGED head

(* ui_out: the innermost one ends *)
Close ==
    /\ Len(levels) > 1
    /\ LET outer == Len(levels) - 1
       IN levels' = [SubSeq(levels, 1, outer) EXCEPT ![outer] =
                        Filled(levels[outer], Closing(Innermost))]
    /\ UNCHANGED <<head, printed>>

PrinterNext ==
    \/ \E key \in Names \cup {Keyless}, t \in Texts : PrintConst(key, t)
    \/ \E key \in Names \cup {Keyless}, kind \in {"tuple", "list"} : Open(kind, key)
    \/ Close

PrinterSpec == PrinterInit /\ [][PrinterNext]_printerVars

-----------------------------------------------------------------------------
Results == levels[1].entries
Beginning == head.token \o <<head.marker>> \o head.class
RecordLine ==
    IF Results = <<>> THEN Beginning ELSE Beginning \o <<Comma>> \o Joined(Results)

(* The record of the first n results. *)
RecordOf(n) ==
    [kind |-> RecordKind[head.marker], token |-> TokenOf(head.token),
     class |-> head.class, results |-> DictOf(SubSeq(Results, 1, n))]

(* What GDB prints is read back as what it means, however values are       *)
(* nested, escaped or keyed alike (parser.py:97-215).                      *)
RenderedIsRead == Len(levels) = 1 => Parse(RecordLine) = RecordOf(Len(Results))

(* A line torn by the end of GDB (readline returns what there is) is       *)
(* refused, or loses whole results from its end: none is cut short         *)
(* (controller.py:179, parser.py:97-106, 171-186).  A class cut short is   *)
(* not noticed.                                                            *)
TornLosesOnlyTheEnd ==
    Len(levels) = 1 =>
        \A n \in Len(Beginning)..Len(RecordLine) - 1 :
            LET torn == Parse(SubSeq(RecordLine, 1, n))
            IN \/ torn = ParseError
               \/ \E m \in 0..Len(Results) - 1 : torn = RecordOf(m)
=============================================================================
