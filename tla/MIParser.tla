------------------------------ MODULE MIParser ------------------------------
(***************************************************************************)
(* mi/parser.py: the recursive descent from one line of GDB/MI output to a *)
(* record.  A line is a sequence of characters and self.position an        *)
(* argument; only ASCII letters and digits are identifier characters.  A   *)
(* rule returns the value it read and the position after it.  Position     *)
(* Nowhere is what the code leaves by raising MIParseError; no character   *)
(* is there, so a rule that goes on from it fails too.                     *)
(*                                                                         *)
(* Every rule reads on from a later position than its own, so the rules    *)
(* are functions of the position, defined from the end of the line.        *)
(***************************************************************************)
EXTENDS Naturals, Sequences

Digits == {"0", "1", "2", "3", "4", "5", "6", "7", "8", "9"}
Letters == {"a", "b", "c", "d", "e", "f", "g", "h", "i", "j", "k", "l", "m",
            "n", "o", "p", "q", "r", "s", "t", "u", "v", "w", "x", "y", "z",
            "A", "B", "C", "D", "E", "F", "G", "H", "I", "J", "K", "L", "M",
            "N", "O", "P", "Q", "R", "S", "T", "U", "V", "W", "X", "Y", "Z"}
IdentifierStart == Letters \cup {"_"}
IdentifierPart == IdentifierStart \cup Digits \cup {"-"}

(* MIValue: text, a dict or a list. *)
Text(t) == [text |-> t]
Dict(d) == [dict |-> d]
List(s) == [list |-> s]
NoEntries == [k \in {} |-> Text(k)]

Nowhere == 0
Read(v, p) == [value |-> v, at |-> p]
Error == Read(<<>>, Nowhere)
ParseError == [kind |-> "error"]

Quote == "\""
Backslash == "\\"
Comma == ","
OpenTuple == "{"
CloseTuple == "}"
OpenList == "["
CloseList == "]"

(* _peek *)
EndOfLine == ""
Peek(l, p) == IF p \in DOMAIN l THEN l[p] ELSE EndOfLine

(* The first position from p on whose character is not in the class. *)
Past(l, p, class) ==
    CHOOSE q \in p..Len(l) + 1 :
        Peek(l, q) \notin class /\ \A r \in p..q - 1 : Peek(l, r) \in class

Identifier(l, p) ==
    IF Peek(l, p) \in IdentifierStart
    THEN LET q == Past(l, p, IdentifierPart) IN Read(SubSeq(l, p, q - 1), q)
    ELSE Error

-----------------------------------------------------------------------------
(* _parse_escape *)
Unescape(c) ==
    CASE c = "n" -> "\n"
      [] c = "r" -> "\r"
      [] c = "t" -> "\t"
      [] OTHER -> c

(* A character, and what is read behind it. *)
Before(c, rest) == Read(<<c>> \o rest.value, rest.at)

(* Slip: a string may end with the line. *)
QuotedToTheEnd(l, q, p) ==
    CASE Peek(l, p) = EndOfLine -> Read(<<>>, p)
      [] Peek(l, p) = Quote -> Read(<<>>, p + 1)
      [] Peek(l, p) = Backslash -> Before(Unescape(Peek(l, p + 1)), q[p + 2])
      [] OTHER -> Before(l[p], q[p + 1])

(* One turn of _parse_c_string's loop, q being what the next turns read. *)
QuotedFrom(l, q, p) ==
    CASE Peek(l, p) = EndOfLine -> Error
      [] Peek(l, p) = Quote -> Read(<<>>, p + 1)
      [] Peek(l, p) = Backslash -> Before(Unescape(Peek(l, p + 1)), q[p + 2])
      [] OTHER -> Before(l[p], q[p + 1])

(* What is read from each position of a string after its opening quote. *)
Quoted(l) == LET q[p \in 1..Len(l) + 2] == QuotedFrom(l, q, p) IN q

AsText(r) == Read(Text(r.value), r.at)

(* _parse_c_string *)
CString(l, p) ==
    IF Peek(l, p) = Quote THEN AsText(Quoted(l)[p + 1]) ELSE Error

-----------------------------------------------------------------------------
Characters(l) == {l[i] : i \in DOMAIN l}
TextUpTo(l, p, q) == IF q = p THEN Error ELSE Read(Text(SubSeq(l, p, q - 1)), q)

(* Slip: a bare value ends only at a comma or with the line. *)
BareToTheComma(l, p) == TextUpTo(l, p, Past(l, p, Characters(l) \ {Comma}))

(* _parse_bare_value *)
BareValue(l, p) ==
    TextUpTo(l, p, Past(l, p, Characters(l) \ {Comma, CloseList, CloseTuple}))

(* _next_value_is_result *)
NextValueIsResult(l, p) ==
    /\ Peek(l, p) \in IdentifierStart
    /\ Peek(l, Past(l, p, IdentifierPart)) = "="

(***************************************************************************)
(* The rules that nest.  q is what they read from the later positions.     *)
(***************************************************************************)

(* _parse_result, as a dict of one entry *)
Entry(key, value) == Read([k \in {key} |-> value.value], value.at)

AfterKey(l, q, key) ==
    IF Peek(l, key.at) = "="
    THEN Entry(key.value, q[<<"value", key.at + 1>>]) ELSE Error

ResultFrom(l, q, p) == AfterKey(l, q, Identifier(l, p))

(* Slip: of two results with the same key the first one stays. *)
FirstWins(entry, later) ==
    [k \in DOMAIN entry \cup DOMAIN later |->
        IF k \in DOMAIN entry THEN entry[k] ELSE later[k]]

(* results[key] = value: a later result with the same key replaces it. *)
Assigned(entry, later) ==
    [k \in DOMAIN entry \cup DOMAIN later |->
        IF k \in DOMAIN later THEN later[k] ELSE entry[k]]

Joining(r, more) == Read(Assigned(r.value, more.value), more.at)

(* _parse_result_list; rule is the list's own, stop what ends it. *)
AfterResult(l, q, r, rule) ==
    IF Peek(l, r.at) = Comma THEN Joining(r, q[<<rule, r.at + 1>>]) ELSE r

ResultsFrom(l, q, p, rule, stop) ==
    IF Peek(l, p) \in stop \cup {EndOfLine} THEN Read(NoEntries, p)
    ELSE AfterResult(l, q, ResultFrom(l, q, p), rule)

(* _expect, after the entries of a tuple or a list *)
Closed(l, bracket, body) ==
    IF Peek(l, body.at) = bracket THEN Read(body.value, body.at + 1) ELSE Error

AsDict(r) == Read(Dict(r.value), r.at)
AsList(r) == Read(List(r.value), r.at)

(* _parse_value, _parse_tuple, _parse_list *)
ValueFrom(l, q, p) ==
    CASE Peek(l, p) = Quote -> CString(l, p)
      [] Peek(l, p) = OpenTuple -> AsDict(Closed(l, CloseTuple, q[<<"fields", p + 1>>]))
      [] Peek(l, p) = OpenList -> AsList(Closed(l, CloseList, q[<<"items", p + 1>>]))
      [] OTHER -> BareValue(l, p)

ItemFrom(l, q, p) ==
    IF NextValueIsResult(l, p) THEN AsDict(ResultFrom(l, q, p))
    ELSE ValueFrom(l, q, p)

AfterItem(l, q, v) ==
    IF Peek(l, v.at) = Comma THEN Before(v.value, q[<<"items", v.at + 1>>])
    ELSE Read(<<v.value>>, v.at)

(* the loop of _parse_list *)
ItemsFrom(l, q, p) ==
    IF Peek(l, p) \in {CloseList, EndOfLine} THEN Read(<<>>, p)
    ELSE AfterItem(l, q, ItemFrom(l, q, p))

(* A value, the results of a tuple, the items of a list, the results of a  *)
(* record.                                                                 *)
Rules == {"value", "fields", "items", "results"}

RuleFrom(l, q, rule, p) ==
    CASE rule = "value" -> ValueFrom(l, q, p)
      [] rule = "fields" -> ResultsFrom(l, q, p, rule, {CloseTuple})
      [] rule = "items" -> ItemsFrom(l, q, p)
      [] rule = "results" -> ResultsFrom(l, q, p, rule, {})

(* What each rule reads from each position. *)
Nested(l) ==
    LET q[at \in Rules \X (1..Len(l) + 1)] == RuleFrom(l, q, at[1], at[2]) IN q

-----------------------------------------------------------------------------
(* MIRecordKind, by the marker that announces it *)
RecordKind ==
    [m \in {"^", "*", "+", "="} |->
        CASE m = "^" -> "result"
          [] m = "*" -> "exec-async"
          [] m = "+" -> "status-async"
          [] m = "=" -> "notify-async"]
StreamKind ==
    [m \in {"~", "@", "&"} |->
        CASE m = "~" -> "console-stream"
          [] m = "@" -> "target-stream"
          [] m = "&" -> "log-stream"]

Prompt == <<"(", "g", "d", "b", ")">>
PromptClass == <<"p", "r", "o", "m", "p", "t">>

(* int() of some digits *)
Numerals == <<"0", "1", "2", "3", "4", "5", "6", "7", "8", "9">>
Number(digits) ==
    LET n[i \in 0..Len(digits)] ==
            IF i = 0 THEN 0
            ELSE 10 * n[i - 1]
                 + (CHOOSE d \in 0..9 : Numerals[d + 1] = digits[i])
    IN n[Len(digits)]

(* _parse_token: the number before the marker, or None. *)
TokenOf(digits) == IF digits = <<>> THEN <<>> ELSE <<Number(digits)>>
Mark(l) == Past(l, 1, Digits)
Token(l) == TokenOf(SubSeq(l, 1, Mark(l) - 1))

(* _parse_result_or_async *)
ResultOrAsync(l) ==
    LET class == Identifier(l, Mark(l) + 1)
        results == IF Peek(l, class.at) = Comma
                   THEN Nested(l)[<<"results", class.at + 1>>]
                   ELSE Read(NoEntries, class.at)
    IN IF results.at = Len(l) + 1
       THEN [kind |-> RecordKind[l[Mark(l)]], token |-> Token(l),
             class |-> class.value, results |-> results.value]
       ELSE ParseError

(* _parse_stream *)
Stream(l) ==
    LET text == CString(l, Mark(l) + 1)
    IN IF text.at = Len(l) + 1
       THEN [kind |-> StreamKind[l[Mark(l)]], token |-> Token(l),
             text |-> text.value]
       ELSE ParseError

(* parse_mi_record *)
Parse(l) ==
    CASE l = Prompt -> [kind |-> "prompt", token |-> <<>>,
                        class |-> PromptClass, results |-> NoEntries]
      [] l # Prompt /\ Peek(l, Mark(l)) \in DOMAIN RecordKind -> ResultOrAsync(l)
      [] l # Prompt /\ Peek(l, Mark(l)) \in DOMAIN StreamKind -> Stream(l)
      [] OTHER -> ParseError
=============================================================================
