------------------------------ MODULE AuditLog ------------------------------
(***************************************************************************)
(* The audit writers of audit/logger.py.  The JSONL writer opens its file  *)
(* for appending, writes the event and a newline into the file object's    *)
(* buffer and closes it: a small event reaches the file in one piece, one  *)
(* larger than the buffer in two, and only the last piece ends the line.   *)
(* The SQLite writer inserts a row in a transaction.                       *)
(*                                                                         *)
(* append is synchronous, so one server never interleaves its own appends; *)
(* but several servers may be started with the same path, and a server may *)
(* be killed between two pieces and started again.                         *)
(***************************************************************************)
EXTENDS Naturals, Sequences, FiniteSets

CONSTANTS
    Servers,   \* the server processes with the same audit_log_path
    Events,    \* bound: the events ever appended
    MaxTorn    \* bound: appends cut by a crash

ASSUME AuditAssumption == MaxTorn \in Nat

VARIABLES
    writer,      \* jsonl or sqlite
    large,       \* the events larger than the file buffer
    file,        \* the pieces that reached the file (or the rows)
    writing,     \* server -> the pieces of its event still in the buffer
    done,        \* history: the events whose append has returned
    torn,        \* history: appends cut between two pieces
    overlapped   \* history: a piece was written inside another's event

logVars == <<writer, large, file, writing, done, torn, overlapped>>

LogInit ==
    /\ writer \in {"jsonl", "sqlite"}
    /\ large \in SUBSET Events
    /\ file = <<>>
    /\ writing = [p \in Servers |-> <<>>]
    /\ done = <<>>
    /\ torn = 0
    /\ overlapped = FALSE

Piece(e, part) == [event |-> e, part |-> part]

(* What the operating system is given to append, in order. *)
Pieces(e) ==
    IF writer = "jsonl" /\ e \in large
    THEN <<Piece(e, "head"), Piece(e, "tail")>>
    ELSE <<Piece(e, "whole")>>

Appended == {file[i].event : i \in DOMAIN file}

(* The file holds the beginning of p's event and not its end. *)
MidAppend(p) == writing[p] # <<>> /\ Head(writing[p]).part = "tail"

(* append builds its text and buffers it. *)
BeginAppend(p, e) ==
    /\ writing[p] = <<>>
    /\ e \notin Appended
    /\ \A q \in Servers : writing[q] # <<>> => Head(writing[q]).event # e
    /\ writing' = [writing EXCEPT ![p] = Pieces(e)]
    /\ UNCHANGED <<writer, large, file, done, torn, overlapped>>

(* Slip: the file is opened with "w". *)
Truncating(piece) == IF piece.part = "tail" THEN Append(file, piece) ELSE <<piece>>

Written(piece) == Append(file, piece)

(* A full buffer, the close of the file or the commit writes a piece out; *)
(* append returns after the last one.                                     *)
WriteOut(p) ==
    /\ writing[p] # <<>>
    /\ file' = Written(Head(writing[p]))
    /\ writing' = [writing EXCEPT ![p] = Tail(@)]
    /\ done' = IF Len(writing[p]) = 1
               THEN Append(done, Head(writing[p]).event) ELSE done
    /\ overlapped' = (overlapped \/ \E q \in Servers \ {p} : MidAppend(q))
    /\ UNCHANGED <<writer, large, torn>>

(* The process dies; what is still buffered is lost. *)
Crash(p) ==
    /\ writing[p] # <<>>
    /\ MidAppend(p) => torn < MaxTorn
    /\ torn' = IF MidAppend(p) THEN torn + 1 ELSE torn
    /\ writing' = [writing EXCEPT ![p] = <<>>]
    /\ UNCHANGED <<writer, large, file, done, overlapped>>

LogNext ==
    \E p \in Servers :
        \/ \E e \in Events : BeginAppend(p, e)
        \/ WriteOut(p)
        \/ Crash(p)

LogSpec == LogInit /\ [][LogNext]_logVars

-----------------------------------------------------------------------------
(***************************************************************************)
(* read_events: split at the newlines, parse every line, raise on the      *)
(* first that is not the text of exactly one event.                        *)
(***************************************************************************)

(* Slip: no newline after an event that filled the buffer. *)
EndsWholeLine(piece) == piece.part = "whole"

EndsLine(piece) == piece.part # "head"

LineStarts(i) == i = 1 \/ EndsLine(file[i - 1])

(* Piece i ends a line that parses. *)
Parses(i) ==
    /\ EndsLine(file[i])
    /\ \/ file[i].part = "whole" /\ LineStarts(i)
       \/ /\ file[i].part = "tail" /\ i > 1
          /\ file[i - 1] = Piece(file[i].event, "head")
          /\ LineStarts(i - 1)

ReadRaises ==
    \/ \E i \in DOMAIN file : EndsLine(file[i]) /\ ~Parses(i)
    \/ file # <<>> /\ ~EndsLine(file[Len(file)])

(* The pieces among the first i that end a line; the one that ends line n. *)
Lines(i) == {j \in 1..i : EndsLine(file[j])}

LineEnd(n) == CHOOSE i \in Lines(Len(file)) : Cardinality(Lines(i)) = n

ReadEvents ==
    [n \in 1..Cardinality(Lines(Len(file))) |-> file[LineEnd(n)].event]

Readable == {file[i].event : i \in {j \in DOMAIN file : Parses(j)}}

-----------------------------------------------------------------------------
FilePiece == [event : Events, part : {"whole", "head", "tail"}]

(* The values the log's variables range over. *)
LogTypeOK ==
    /\ writer \in {"jsonl", "sqlite"} /\ large \subseteq Events
    /\ file \in Seq(FilePiece)
    /\ writing \in [Servers -> Seq(FilePiece)]
    /\ done \in Seq(Events)
    /\ torn \in 0..MaxTorn /\ overlapped \in BOOLEAN

(* logger.py:56 and 63: with no append cut and none overlapping another's, *)
(* read_events returns exactly the events whose append has returned, in    *)
(* that order.                                                             *)
IntactLogReadsBack ==
    torn = 0 /\ ~overlapped /\ (\A p \in Servers : ~MidAppend(p)) =>
        ~ReadRaises /\ ReadEvents = done

(* logger.py:58: a crash in the middle of an append costs, besides the     *)
(* event itself, at most the one appended next, which is joined to the     *)
(* torn line; no other event that was reported as audited is damaged, and  *)
(* with SQLite none.                                                       *)
CrashCostsOneEvent ==
    ~overlapped =>
        Cardinality({done[i] : i \in DOMAIN done} \ Readable)
            =< IF writer = "sqlite" THEN 0 ELSE torn
=============================================================================
