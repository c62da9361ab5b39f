----------------------------- MODULE MIGrammar -----------------------------
(***************************************************************************)
(* The lines mi/parser.py's subset of GDB/MI consists of, said by how a    *)
(* line splits rather than by how it is scanned.                           *)
(***************************************************************************)
EXTENDS MIParser

From(s, i) == SubSeq(s, i, Len(s))

IsIdentifier(s) ==
    /\ s # <<>> /\ s[1] \in IdentifierStart
    /\ \A i \in DOMAIN s : s[i] \in IdentifierPart

(* An odd number of backslashes stands right before position i. *)
IsEscaped(s, i) ==
    \E n \in 1..i - 1 :
        /\ n % 2 = 1
        /\ \A j \in i - n..i - 1 : s[j] = "\\"
        /\ i - n > 1 => s[i - n - 1] # "\\"

(* A quote, then characters of which no quote is unescaped, then a quote. *)
IsCString(s) ==
    /\ Len(s) >= 2 /\ s[1] = "\"" /\ s[Len(s)] = "\""
    /\ \A i \in 2..Len(s) : s[i] = "\"" => (i < Len(s) <=> IsEscaped(s, i))

IsBare(s) ==
    /\ s # <<>> /\ s[1] \notin {"\"", "{", "["}
    /\ \A i \in DOMAIN s : s[i] \notin {",", "]", "}"}

RECURSIVE IsValue(_), AreResults(_), AreItems(_)
IsResult(s) ==
    \E i \in DOMAIN s :
        /\ IsIdentifier(SubSeq(s, 1, i - 1)) /\ s[i] = "="
        /\ IsValue(From(s, i + 1))

LooksLikeResult(s) ==
    \E i \in DOMAIN s : IsIdentifier(SubSeq(s, 1, i - 1)) /\ s[i] = "="

(* Nothing, or one and, after a comma, the others: a last comma may stay. *)
AreResults(s) ==
    s = <<>> \/ \E i \in DOMAIN s :
                    /\ IsResult(SubSeq(s, 1, i))
                    /\ i = Len(s) \/ (s[i + 1] = "," /\ AreResults(From(s, i + 2)))
AreItems(s) ==
    s = <<>> \/ \E i \in DOMAIN s :
                    /\ LET item == SubSeq(s, 1, i)
                       IN IF LooksLikeResult(item)
                          THEN IsResult(item) ELSE IsValue(item)
                    /\ i = Len(s) \/ (s[i + 1] = "," /\ AreItems(From(s, i + 2)))

Between(s, open, close) ==
    Len(s) >= 2 /\ s[1] = open /\ s[Len(s)] = close
Inside(s) == SubSeq(s, 2, Len(s) - 1)

IsValue(s) ==
    \/ IsCString(s)
    \/ IsBare(s)
    \/ Between(s, "{", "}") /\ AreResults(Inside(s))
    \/ Between(s, "[", "]") /\ AreItems(Inside(s))

(* token? marker class ("," results)?, or token? marker string *)
IsRecord(s) ==
    \/ s = Prompt
    \/ \E m \in DOMAIN s :
          /\ \A i \in 1..m - 1 : s[i] \in Digits
          /\ \/ s[m] \in DOMAIN StreamKind /\ IsCString(From(s, m + 1))
             \/ /\ s[m] \in DOMAIN RecordKind
                /\ \/ IsIdentifier(From(s, m + 1))
                   \/ \E i \in m + 1..Len(s) :
                         /\ s[i] = "," /\ IsIdentifier(SubSeq(s, m + 1, i - 1))
                         /\ AreResults(From(s, i + 1))
=============================================================================
