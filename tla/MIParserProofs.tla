--------------------------- MODULE MIParserProofs ---------------------------
(***************************************************************************)
(* What GDB prints, mi/parser.py reads back: every record, for all strings *)
(* and names and however deep it nests.  The parser's rules are recursive  *)
(* functions of the position and the text of a record is put together by   *)
(* one, so the lemmas first say that these functions have a value at every *)
(* position, then what they read of a text that stands in the line (At) or *)
(* is cut short by its end (Cut), by induction along the text.  The        *)
(* invariant of the printer is that every entry printed is Readable; that  *)
(* a tuple or a list of such entries is Readable too is the step.          *)
(***************************************************************************)
EXTENDS MIPrinter, SequenceTheorems, WellFoundedInduction, TLAPS

(* What lines are made of. *)
Syntax ==
    IdentifierPart
    \cup {Quote, Backslash, Comma, "=", OpenTuple, CloseTuple, OpenList,
          CloseList, "(", ")"}
    \cup {"^", "*", "+", "~", "@", "&"}
Character == Syntax \cup UNION {Characters(t) : t \in Texts}
Line == Seq(Character)

-----------------------------------------------------------------------------
(* A set of naturals that holds 0 and every successor of its elements is   *)
(* all of Nat: induction, for a set rather than for an operator.           *)
LEMMA Induction ==
    ASSUME NEW S, S \subseteq Nat, 0 \in S, \A n \in S : n + 1 \in S
    PROVE  \A n \in Nat : n \in S
  <1> DEFINE R == OpToRel(<, Nat)
             T == Nat \ S
  <1>1. IsWellFoundedOn(R, Nat)
    BY NatLessThanWellFounded
  <1>2. ASSUME T # {} PROVE FALSE
    <2>1. T \subseteq Nat
      OBVIOUS
    <2> HIDE DEF R, T
    <2>2. PICK n \in T : \A m \in T : ~(<<m, n>> \in R)
      BY <1>1, <1>2, <2>1, WFMin
    <2> USE DEF R, T
    <2>3. n \in Nat \ {0} /\ n - 1 \in Nat
      OBVIOUS
    <2>4. n - 1 \in T
      BY <2>3
    <2>5. <<n - 1, n>> \in R
      BY <2>3 DEF OpToRel
    <2> QED
      BY <2>2, <2>4, <2>5
  <1> QED
    BY <1>2

(* Counting down from m: what holds beyond m and before every position     *)
(* where it holds, holds from 1 on.                                        *)
LEMMA Downward ==
    ASSUME NEW m \in Nat, NEW S, m \in S,
           \A n \in 1..m - 1 : n + 1 \in S => n \in S
    PROVE  \A n \in 1..m : n \in S
  <1> DEFINE T == {n \in Nat : n < m => m - n \in S}
  <1>1. 0 \in T
    OBVIOUS
  <1>2. ASSUME NEW n \in T PROVE n + 1 \in T
    <2>1. n \in Nat
      OBVIOUS
    <2> SUFFICES ASSUME n + 1 < m PROVE m - (n + 1) \in S
      BY <2>1
    <2>2. m - n \in S
      BY <2>1
    <2>3. m - (n + 1) \in 1..m - 1 /\ m - (n + 1) + 1 = m - n
      BY <2>1
    <2> QED
      BY <2>2, <2>3
  <1>3. T \subseteq Nat
    OBVIOUS
  <1> HIDE DEF T
  <1>4. \A n \in Nat : n \in T
    BY <1>1, <1>2, <1>3, Induction
  <1>5. ASSUME NEW n \in 1..m PROVE n \in S
    <2>1. m - n \in T /\ m - n < m /\ m - (m - n) = n
      BY <1>4
    <2> QED
      BY <2>1 DEF T
  <1> QED
    BY <1>5

(* A set of naturals has a least element. *)
LEMMA Least ==
    ASSUME NEW S, S \subseteq Nat, S # {}
    PROVE  \E n \in S : \A m \in S : n <= m
  <1> DEFINE R == OpToRel(<, Nat)
  <1>1. IsWellFoundedOn(R, Nat)
    BY NatLessThanWellFounded
  <1> HIDE DEF R
  <1>2. PICK n \in S : \A m \in S : ~(<<m, n>> \in R)
    BY <1>1, WFMin
  <1>3. \A m \in S : ~(m < n)
    BY <1>2 DEF R, OpToRel
  <1> QED
    BY <1>3

-----------------------------------------------------------------------------
(* The characters of the syntax are told apart from "no character". *)
LEMMA SyntaxIs == EndOfLine \notin Syntax
  BY Zenon DEF EndOfLine, Syntax, IdentifierPart, IdentifierStart, Letters, Digits,
               Quote, Backslash, Comma, OpenTuple, CloseTuple, OpenList, CloseList

(* The characters the rules look for are told apart. *)
LEMMA Distinct ==
    /\ Quote \notin {Backslash, Comma, OpenTuple, CloseTuple, OpenList, CloseList}
    /\ Comma \notin {OpenTuple, CloseTuple, OpenList, CloseList}
    /\ CloseTuple \notin {OpenTuple, OpenList, CloseList}
    /\ OpenTuple # OpenList /\ CloseList \notin {OpenList, OpenTuple}
    /\ EndOfLine \notin {Quote, Backslash, Comma, "=", OpenTuple, CloseTuple,
                         OpenList, CloseList}
    /\ "=" \notin {Comma, CloseTuple, CloseList}
  BY Zenon DEF EndOfLine, Quote, Backslash, Comma, OpenTuple, CloseTuple,
               OpenList, CloseList

(* The punctuation of a line belongs to no identifier. *)
LEMMA NoIdentifier ==
    /\ EndOfLine \notin IdentifierPart
    /\ \A c \in {Quote, Comma, "=", OpenTuple, CloseTuple, OpenList, CloseList} :
          c \notin IdentifierPart
    /\ IdentifierStart \subseteq IdentifierPart
  <1> DEFINE Free(c) == c \notin IdentifierPart
  <1>1. Free(EndOfLine) /\ Free(Quote)
    BY Zenon DEF EndOfLine, Quote, IdentifierPart, IdentifierStart, Letters, Digits
  <1>2. Free(Comma) /\ Free("=")
    BY Zenon DEF Comma, IdentifierPart, IdentifierStart, Letters, Digits
  <1>3. Free(OpenTuple) /\ Free(CloseTuple)
    BY Zenon DEF OpenTuple, CloseTuple, IdentifierPart, IdentifierStart, Letters,
                 Digits
  <1>4. Free(OpenList) /\ Free(CloseList)
    BY Zenon DEF OpenList, CloseList, IdentifierPart, IdentifierStart, Letters,
                 Digits
  <1>5. IdentifierStart \subseteq IdentifierPart
    BY Zenon DEF IdentifierPart
  <1> QED
    BY <1>1, <1>2, <1>3, <1>4, <1>5, Zenon

(* No line holds the empty string that stands for its end. *)
LEMMA CharacterIs == EndOfLine \notin Character /\ Syntax \subseteq Character
  <1>1. \A t \in Texts : EndOfLine \notin Characters(t)
    BY PrinterAssumption DEF IsText
  <1> QED
    BY <1>1, SyntaxIs DEF Character

(* _peek (parser.py:222-228). *)
LEMMA LineIs ==
    ASSUME NEW l \in Line
    PROVE  /\ Len(l) \in Nat /\ DOMAIN l = 1..Len(l)
           /\ \A p \in 1..Len(l) :
                 Peek(l, p) = l[p] /\ l[p] \in Character /\ l[p] # EndOfLine
           /\ \A p : p \notin 1..Len(l) => Peek(l, p) = EndOfLine
  <1>1. l \in Seq(Character)
    BY DEF Line
  <1>2. Len(l) \in Nat /\ DOMAIN l = 1..Len(l)
    BY <1>1
  <1>3. \A p \in 1..Len(l) : l[p] \in Character
    BY <1>1
  <1>4. \A p \in 1..Len(l) : Peek(l, p) = l[p]
    BY <1>2 DEF Peek
  <1>5. \A p : p \notin 1..Len(l) => Peek(l, p) = EndOfLine
    BY <1>2 DEF Peek
  <1> QED
    BY <1>2, <1>3, <1>4, <1>5, CharacterIs

(* Past finds the first position whose character is not of the class, *)
LEMMA PastIs ==
    ASSUME NEW l \in Line, NEW p \in 1..Len(l) + 1, NEW class, EndOfLine \notin class
    PROVE  /\ Past(l, p, class) \in p..Len(l) + 1
           /\ Peek(l, Past(l, p, class)) \notin class
           /\ \A r \in p..Past(l, p, class) - 1 : Peek(l, r) \in class
  <1> DEFINE S == {q \in p..Len(l) + 1 : Peek(l, q) \notin class}
  <1>0. Len(l) \in Nat /\ Peek(l, Len(l) + 1) = EndOfLine
    <2>1. Len(l) \in Nat
      BY LineIs
    <2>2. Len(l) + 1 \notin 1..Len(l)
      BY <2>1
    <2> QED
      BY <2>1, <2>2, LineIs
  <1>1. Len(l) + 1 \in S
    BY <1>0
  <1>2. S \subseteq Nat
    BY <1>0
  <1> HIDE DEF S
  <1>3. PICK q \in S : \A m \in S : q <= m
    BY <1>1, <1>2, Least
  <1>4. /\ q \in p..Len(l) + 1
        /\ Peek(l, q) \notin class
        /\ \A r \in p..q - 1 : Peek(l, r) \in class
    BY <1>0, <1>3 DEF S
  <1>5. \E r \in p..Len(l) + 1 :
           Peek(l, r) \notin class /\ \A i \in p..r - 1 : Peek(l, i) \in class
    BY <1>4
  <1> QED
    BY <1>5, Zenon DEF Past

(* and is that position. *)
LEMMA PastIsThere ==
    ASSUME NEW l \in Line, NEW p \in 1..Len(l) + 1, NEW class, EndOfLine \notin class,
           NEW q \in p..Len(l) + 1, Peek(l, q) \notin class,
           \A r \in p..q - 1 : Peek(l, r) \in class
    PROVE  Past(l, p, class) = q
  <1> DEFINE x == Past(l, p, class)
  <1>1. /\ x \in p..Len(l) + 1
        /\ Peek(l, x) \notin class
        /\ \A r \in p..x - 1 : Peek(l, r) \in class
    BY PastIs
  <1> HIDE DEF x
  <1>2. Len(l) \in Nat
    BY LineIs
  <1>3. ~(x < q)
    <2>1. x < q => x \in p..q - 1
      BY <1>1, <1>2
    <2> QED
      BY <1>1, <2>1
  <1>4. ~(q < x)
    <2>1. q < x => q \in p..x - 1
      BY <1>1, <1>2
    <2> QED
      BY <1>1, <2>1
  <1> QED
    BY <1>1, <1>2, <1>3, <1>4 DEF x

-----------------------------------------------------------------------------
(* The text s stands in the line from position p on. *)
At(l, p, s) ==
    p + Len(s) - 1 <= Len(l) /\ \A i \in 1..Len(s) : l[p + i - 1] = s[i]

(* The line ends before all of s stands there. *)
Cut(l, p, s) ==
    /\ Len(l) + 1 - p < Len(s)
    /\ \A i \in 1..Len(l) + 1 - p : l[p + i - 1] = s[i]

(* Of two strings that stand one behind the other, each stands in its       *)
(* place.                                                                   *)
LEMMA AtBoth ==
    ASSUME NEW l \in Line, NEW p \in 1..Len(l) + 1,
           NEW S, NEW a \in Seq(S), NEW b \in Seq(S), At(l, p, a \o b)
    PROVE  /\ At(l, p, a)
           /\ p + Len(a) \in 1..Len(l) + 1
           /\ At(l, p + Len(a), b)
  <1>1. Len(l) \in Nat /\ Len(a) \in Nat /\ Len(b) \in Nat
    BY LineIs
  <1>2. /\ Len(a \o b) = Len(a) + Len(b)
        /\ \A i \in 1..Len(a) + Len(b) :
              (a \o b)[i] = IF i <= Len(a) THEN a[i] ELSE b[i - Len(a)]
    BY ConcatProperties
  <1>3. /\ p + Len(a) + Len(b) - 1 <= Len(l)
        /\ \A i \in 1..Len(a) + Len(b) : l[p + i - 1] = (a \o b)[i]
    BY <1>1, <1>2 DEF At
  <1>4. At(l, p, a)
    BY <1>1, <1>2, <1>3 DEF At
  <1>5. ASSUME NEW i \in 1..Len(b) PROVE l[p + Len(a) + i - 1] = b[i]
    <2>1. Len(a) + i \in 1..Len(a) + Len(b)
      BY <1>1
    <2>2. ~(Len(a) + i <= Len(a)) /\ Len(a) + i - Len(a) = i
      BY <1>1
    <2>3. (a \o b)[Len(a) + i] = b[i]
      BY <1>2, <2>1, <2>2
    <2>4. p + (Len(a) + i) - 1 = p + Len(a) + i - 1
      BY <1>1
    <2> QED
      BY <1>3, <2>1, <2>3, <2>4
  <1> QED
    BY <1>1, <1>3, <1>4, <1>5 DEF At

(* Of two strings cut short, it is the first or the second that is. *)
LEMMA CutInOne ==
    ASSUME NEW l \in Line, NEW p \in 1..Len(l) + 1,
           NEW S, NEW a \in Seq(S), NEW b \in Seq(S), Cut(l, p, a \o b)
    PROVE  \/ Cut(l, p, a)
           \/ /\ At(l, p, a)
              /\ p + Len(a) \in 1..Len(l) + 1
              /\ Cut(l, p + Len(a), b)
  <1>1. Len(l) \in Nat /\ Len(a) \in Nat /\ Len(b) \in Nat
    BY LineIs
  <1>2. /\ Len(a \o b) = Len(a) + Len(b)
        /\ \A i \in 1..Len(a) + Len(b) :
              (a \o b)[i] = IF i <= Len(a) THEN a[i] ELSE b[i - Len(a)]
    BY ConcatProperties
  <1> DEFINE k == Len(l) + 1 - p
  <1>3. k \in Nat /\ k < Len(a) + Len(b)
    BY <1>1, <1>2 DEF Cut
  <1>4. \A i \in 1..k : l[p + i - 1] = (a \o b)[i]
    BY DEF Cut
  <1>5. CASE k < Len(a)
    <2>1. \A i \in 1..k : (a \o b)[i] = a[i]
      BY <1>1, <1>2, <1>3, <1>5
    <2> QED
      BY <1>4, <1>5, <2>1 DEF Cut
  <1>6. CASE ~(k < Len(a))
    <2>1. p + Len(a) \in 1..Len(l) + 1 /\ p + Len(a) - 1 <= Len(l)
      BY <1>1, <1>6
    <2>2. \A i \in 1..Len(a) : (a \o b)[i] = a[i] /\ i \in 1..k
      BY <1>1, <1>2, <1>3, <1>6
    <2>3. At(l, p, a)
      BY <1>4, <2>1, <2>2 DEF At
    <2>4. ASSUME NEW i \in 1..Len(l) + 1 - (p + Len(a))
          PROVE  l[p + Len(a) + i - 1] = b[i]
      <3>1. /\ Len(a) + i \in 1..k /\ Len(a) + i \in 1..Len(a) + Len(b)
            /\ ~(Len(a) + i <= Len(a)) /\ Len(a) + i - Len(a) = i
            /\ p + (Len(a) + i) - 1 = p + Len(a) + i - 1
        BY <1>1, <1>3
      <3>2. (a \o b)[Len(a) + i] = b[i]
        BY <1>2, <3>1
      <3> QED
        BY <1>4, <3>1, <3>2
    <2>5. Len(l) + 1 - (p + Len(a)) < Len(b)
      BY <1>1, <1>3
    <2> QED
      BY <2>1, <2>3, <2>4, <2>5 DEF Cut
  <1> QED
    BY <1>5, <1>6

(* A single character that stands in a line. *)
LEMMA AtOne ==
    ASSUME NEW l \in Line, NEW p \in 1..Len(l) + 1, NEW c, At(l, p, <<c>>)
    PROVE  /\ p \in 1..Len(l) /\ p + 1 \in 1..Len(l) + 1
           /\ l[p] = c /\ Peek(l, p) = c
  <1>1. Len(l) \in Nat /\ Len(<<c>>) = 1 /\ <<c>>[1] = c
    BY LineIs
  <1>2. p \in 1..Len(l) /\ l[p] = c
    BY <1>1 DEF At
  <1> QED
    BY <1>1, <1>2, LineIs

(* A single character is cut short only at the end of the line. *)
LEMMA CutOne ==
    ASSUME NEW l \in Line, NEW p \in 1..Len(l) + 1, NEW c, Cut(l, p, <<c>>)
    PROVE  p = Len(l) + 1 /\ Peek(l, p) = EndOfLine
  <1>1. Len(l) \in Nat /\ Len(<<c>>) = 1
    BY LineIs
  <1>2. p = Len(l) + 1
    BY <1>1 DEF Cut
  <1>3. p \notin 1..Len(l)
    BY <1>1, <1>2
  <1> QED
    BY <1>2, <1>3, LineIs

-----------------------------------------------------------------------------
(* Strings. *)

(* One turn of the loop of _parse_c_string (parser.py:171-186). *)
LEMMA QuotedTurns ==
    ASSUME NEW l, NEW q, NEW p
    PROVE  /\ Peek(l, p) = EndOfLine => QuotedFrom(l, q, p) = Error
           /\ Peek(l, p) = Quote => QuotedFrom(l, q, p) = Read(<<>>, p + 1)
           /\ Peek(l, p) = Backslash =>
                 QuotedFrom(l, q, p) =
                    Before(Unescape(Peek(l, p + 1)), q[p + 2])
           /\ Peek(l, p) \notin {EndOfLine, Quote, Backslash} =>
                 QuotedFrom(l, q, p) = Before(l[p], q[p + 1])
  BY Distinct, Zenon DEF QuotedFrom

(* A turn of the loop looks only at what the next two positions read. *)
LEMMA QuotedLooksAhead ==
    ASSUME NEW l, NEW p, NEW f, NEW g,
           p \in DOMAIN l => f[p + 1] = g[p + 1] /\ f[p + 2] = g[p + 2]
    PROVE  QuotedFrom(l, f, p) = QuotedFrom(l, g, p)
  <1>1. CASE p \in DOMAIN l
    BY <1>1, Zenon DEF QuotedFrom
  <1>2. CASE p \notin DOMAIN l
    <2>1. Peek(l, p) = EndOfLine
      BY <1>2 DEF Peek
    <2> QED
      BY <2>1, QuotedTurns
  <1> QED
    BY <1>1, <1>2

(* The loop ends: it reads every position in turn. *)
LEMMA QuotedIsRead ==
    ASSUME NEW S, NEW l \in Seq(S)
    PROVE  Quoted(l) = [p \in 1..Len(l) + 2 |-> QuotedFrom(l, Quoted(l), p)]
  <1> DEFINE m == Len(l) + 2
             Reads(f, n) == f = [p \in m - n..m |-> QuotedFrom(l, f, p)]
             T == {n \in Nat : n < m => \E f : Reads(f, n)}
  <1>1. Len(l) \in Nat /\ DOMAIN l = 1..Len(l)
    OBVIOUS
  <1>2. 0 \in T
    <2> DEFINE f == [p \in m - 0..m |-> Error]
    <2>1. \A p \in m - 0..m : p \notin DOMAIN l
      BY <1>1
    <2>2. \A p \in m - 0..m : QuotedFrom(l, f, p) = Error
      <3>1. \A p \in m - 0..m : Peek(l, p) = EndOfLine
        BY <2>1 DEF Peek
      <3> QED
        BY <3>1, QuotedTurns
    <2>3. Reads(f, 0)
      BY <2>2
    <2> QED
      BY <2>3
  <1>3. ASSUME NEW n \in T PROVE n + 1 \in T
    <2>1. n \in Nat
      OBVIOUS
    <2> SUFFICES ASSUME n + 1 < m PROVE \E g : Reads(g, n + 1)
      BY <2>1
    <2>2. PICK f : Reads(f, n)
      BY <1>1, <2>1
    <2> DEFINE k == m - (n + 1)
               g == [p \in k..m |-> IF p = k THEN QuotedFrom(l, f, k) ELSE f[p]]
    <2>3. ASSUME NEW p \in k..m
          PROVE  QuotedFrom(l, f, p) = QuotedFrom(l, g, p)
      <3>1. p \in DOMAIN l => f[p + 1] = g[p + 1] /\ f[p + 2] = g[p + 2]
        BY <1>1, <2>1
      <3> HIDE DEF g
      <3> QED
        BY <3>1, QuotedLooksAhead
    <2>4. \A p \in k + 1..m : f[p] = QuotedFrom(l, f, p)
      <3>1. k + 1 = m - n
        BY <1>1, <2>1
      <3> QED
        BY <2>2, <3>1, Zenon
    <2>5. g = [p \in k..m |-> QuotedFrom(l, g, p)]
      <3>1. \A p \in k..m : g[p] = QuotedFrom(l, f, p)
        BY <1>1, <2>1, <2>4
      <3> QED
        BY <2>3, <3>1
    <2> QED
      BY <2>5
  <1>4. m - 1 \in T
    <2> HIDE DEF T
    <2>1. T \subseteq Nat
      BY DEF T
    <2>2. m - 1 \in Nat
      BY <1>1
    <2> QED
      BY <1>2, <1>3, <2>1, <2>2, Induction
  <1>5. \E f : f = [p \in 1..m |-> QuotedFrom(l, f, p)]
    <2>1. PICK f : Reads(f, m - 1)
      BY <1>1, <1>4
    <2>2. m - (m - 1) = 1
      BY <1>1
    <2> QED
      BY <2>1, <2>2, Zenon
  <1> QED
    BY <1>5, Zenon DEF Quoted

(* The turns of the loop over a string, one for each kind of character. *)
LEMMA QuotedAt ==
    ASSUME NEW l \in Line, NEW p \in 1..Len(l) + 2
    PROVE  LET q == Quoted(l)
           IN  /\ Peek(l, p) = EndOfLine => q[p] = Error
               /\ Peek(l, p) = Quote => q[p] = Read(<<>>, p + 1)
               /\ Peek(l, p) = Backslash =>
                     q[p] = Before(Unescape(Peek(l, p + 1)), q[p + 2])
               /\ Peek(l, p) \notin {EndOfLine, Quote, Backslash} =>
                     q[p] = Before(l[p], q[p + 1])
  <1>1. Quoted(l) = [r \in 1..Len(l) + 2 |-> QuotedFrom(l, Quoted(l), r)]
    BY QuotedIsRead DEF Line
  <1> DEFINE q == Quoted(l)
  <1> HIDE DEF q
  <1>2. q[p] = QuotedFrom(l, q, p)
    BY <1>1 DEF q
  <1>3. /\ Peek(l, p) = EndOfLine => q[p] = Error
        /\ Peek(l, p) = Quote => q[p] = Read(<<>>, p + 1)
        /\ Peek(l, p) = Backslash =>
              q[p] = Before(Unescape(Peek(l, p + 1)), q[p + 2])
        /\ Peek(l, p) \notin {EndOfLine, Quote, Backslash} =>
              q[p] = Before(l[p], q[p + 1])
    BY <1>2, QuotedTurns
  <1> QED
    BY <1>3 DEF q

(* What the parts of a reading are. *)
LEMMA ReadIs ==
    /\ \A v, p : Read(v, p).value = v /\ Read(v, p).at = p
    /\ Error.value = <<>> /\ Error.at = Nowhere
    /\ \A c, r : Before(c, r).value = <<c>> \o r.value /\ Before(c, r).at = r.at
  BY DEF Read, Error, Before

(* The same, for a reading that has a name. *)
LEMMA ReadOf ==
    ASSUME NEW r, NEW v, NEW p, r = Read(v, p)
    PROVE  r.value = v /\ r.at = p
  BY DEF Read

(* A string is never read to a position before its own. *)
LEMMA QuotedAdvances ==
    ASSUME NEW l \in Line
    PROVE  \A p \in 1..Len(l) + 2 :
              Quoted(l)[p].at = Nowhere \/ Quoted(l)[p].at \in p + 1..Len(l) + 1
  <1> DEFINE q == Quoted(l)
             Ahead(p) == q[p].at = Nowhere \/ q[p].at \in p + 1..Len(l) + 1
             m == Len(l) + 2
             S == {p \in 1..m : \A r \in p..m : Ahead(r)}
  <1>1. Len(l) \in Nat
    BY LineIs
  <1>2. Ahead(m)
    <2>1. m \notin 1..Len(l) /\ m \in 1..Len(l) + 2
      BY <1>1
    <2>2. q[m] = Error
      BY <2>1, QuotedAt, LineIs
    <2> QED
      BY <2>2 DEF Error, Read
  <1>3. ASSUME NEW p \in 1..m - 1, \A r \in p + 1..m : Ahead(r) PROVE Ahead(p)
    <2>1. p \in 1..Len(l) + 2 /\ p + 1 \in p + 1..m
      BY <1>1
    <2>2. CASE Peek(l, p) = EndOfLine
      <3>1. q[p] = Error
        BY <2>1, <2>2, QuotedAt
      <3> QED
        BY <3>1, ReadIs
    <2>3. CASE Peek(l, p) # EndOfLine
      <3>1. p \in 1..Len(l)
        BY <2>1, <2>3, LineIs
      <3>2. CASE Peek(l, p) = Quote
        <4>1. q[p] = Read(<<>>, p + 1)
          BY <2>1, <3>2, QuotedAt
        <4> QED
          BY <1>1, <3>1, <4>1 DEF Read
      <3>3. CASE Peek(l, p) = Backslash
        <4>1. q[p].at = q[p + 2].at
          <5>1. q[p] = Before(Unescape(Peek(l, p + 1)), q[p + 2])
            BY <2>1, <3>3, QuotedAt
          <5> QED
            BY <5>1, ReadIs
        <4>2. p + 2 \in p + 1..m
          BY <1>1, <3>1
        <4> HIDE DEF q
        <4> QED
          BY <1>1, <1>3, <3>1, <4>1, <4>2
      <3>4. CASE Peek(l, p) \notin {EndOfLine, Quote, Backslash}
        <4>1. q[p].at = q[p + 1].at
          <5>1. q[p] = Before(l[p], q[p + 1])
            BY <2>1, <3>4, QuotedAt
          <5> QED
            BY <5>1, ReadIs
        <4> HIDE DEF q
        <4> QED
          BY <1>1, <1>3, <2>1, <3>1, <4>1
      <3> QED
        BY <2>3, <3>2, <3>3, <3>4
    <2> QED
      BY <2>2, <2>3
  <1> HIDE DEF Ahead
  <1>4. m \in S
    BY <1>1, <1>2
  <1>5. ASSUME NEW n \in 1..m - 1, n + 1 \in S PROVE n \in S
    <2>1. \A r \in n + 1..m : Ahead(r)
      BY <1>5
    <2>2. Ahead(n)
      BY <1>3, <2>1
    <2>3. \A r \in n..m : r = n \/ r \in n + 1..m
      BY <1>1
    <2> QED
      BY <1>1, <2>1, <2>2, <2>3
  <1>6. \A n \in 1..m : n \in S
    <2> HIDE DEF S
    <2>1. m \in Nat
      BY <1>1
    <2> QED
      BY <1>4, <1>5, <2>1, Downward
  <1> QED
    BY <1>1, <1>6 DEF Ahead

(* The characters GDB escapes are unescaped to themselves                  *)
(* (parser.py:188-206).                                                    *)
LEMMA Escapes ==
    \A c \in DOMAIN EscapeOf :
        EscapeOf[c] \in Syntax /\ Unescape(EscapeOf[c]) = c
  <1>0. \A c \in {Quote, Backslash} : c \notin {"\n", "\r", "\t", "n", "r", "t"}
    BY Zenon DEF Quote, Backslash
  <1>1. \A c \in DOMAIN EscapeOf : Unescape(EscapeOf[c]) = c
    BY <1>0 DEF EscapeOf, Unescape
  <1>2. \A c \in DOMAIN EscapeOf : EscapeOf[c] \in {"n", "r", "t", Quote, Backslash}
    BY <1>0 DEF EscapeOf
  <1> QED
    BY <1>1, <1>2
       DEF Syntax, IdentifierPart, IdentifierStart, Letters

(* A character is printed as itself or behind a backslash. *)
LEMMA PrintedCharIs ==
    ASSUME NEW c \in Character
    PROVE  /\ PrintedChar(c) \in Line
           /\ \/ /\ c \in DOMAIN EscapeOf
                 /\ PrintedChar(c) = <<Backslash, EscapeOf[c]>>
              \/ /\ c \notin {EndOfLine, Quote, Backslash}
                 /\ PrintedChar(c) = <<c>>
  <1>1. CASE c \in DOMAIN EscapeOf
    <2>1. Backslash \in Character /\ EscapeOf[c] \in Character
      BY <1>1, Escapes, CharacterIs DEF Syntax
    <2>2. <<Backslash, EscapeOf[c]>> \in Line
      BY <2>1 DEF Line
    <2> QED
      BY <1>1, <2>2 DEF PrintedChar
  <1>2. CASE c \notin DOMAIN EscapeOf
    <2>1. c \notin {Quote, Backslash}
      BY <1>2 DEF EscapeOf
    <2>2. c # EndOfLine
      BY CharacterIs
    <2>3. <<c>> \in Line
      BY DEF Line
    <2>4. PrintedChar(c) = <<c>>
      BY <1>2 DEF PrintedChar
    <2> QED
      BY <2>1, <2>2, <2>3, <2>4
  <1> QED
    BY <1>1, <1>2

-----------------------------------------------------------------------------
(* What GDB prints is made of parts.                                       *)

(* The recursive function that puts parts together has a value everywhere. *)
LEMMA TogetherIsThere ==
    ASSUME NEW S, NEW parts \in Seq(S)
    PROVE  Together(parts) =
              [n \in 1..Len(parts) + 1 |->
                  TogetherFrom(parts, Together(parts), n)]
  <1> DEFINE m == Len(parts) + 1
             Makes(f, k) ==
                f = [n \in m - k..m |-> TogetherFrom(parts, f, n)]
             T == {k \in Nat : k < m => \E f : Makes(f, k)}
  <1>1. Len(parts) \in Nat
    OBVIOUS
  <1>2. 0 \in T
    <2> DEFINE f == [n \in m - 0..m |-> <<>>]
    <2>1. \A n \in m - 0..m : n > Len(parts)
      BY <1>1
    <2>2. \A n \in m - 0..m : TogetherFrom(parts, f, n) = <<>>
      BY <2>1 DEF TogetherFrom
    <2>3. Makes(f, 0)
      BY <2>2
    <2> QED
      BY <2>3
  <1>3. ASSUME NEW k \in T PROVE k + 1 \in T
    <2>1. k \in Nat
      OBVIOUS
    <2> SUFFICES ASSUME k + 1 < m PROVE \E g : Makes(g, k + 1)
      BY <2>1
    <2>2. PICK f : Makes(f, k)
      BY <1>1, <2>1
    <2> DEFINE i == m - (k + 1)
               g == [n \in i..m |->
                        IF n = i THEN TogetherFrom(parts, f, i) ELSE f[n]]
    <2>3. ASSUME NEW n \in i..m
          PROVE  TogetherFrom(parts, f, n) = TogetherFrom(parts, g, n)
      <3>1. n <= Len(parts) => f[n + 1] = g[n + 1]
        BY <1>1, <2>1
      <3>2. n \in Nat
        BY <1>1, <2>1
      <3> HIDE DEF g
      <3> QED
        BY <1>1, <3>1, <3>2 DEF TogetherFrom
    <2>4. \A n \in i + 1..m : f[n] = TogetherFrom(parts, f, n)
      <3>1. i + 1 = m - k
        BY <1>1, <2>1
      <3> QED
        BY <2>2, <3>1, Zenon
    <2>5. g = [n \in i..m |-> TogetherFrom(parts, g, n)]
      <3>1. ASSUME NEW n \in i..m PROVE g[n] = TogetherFrom(parts, f, n)
        <4>1. CASE n = i
          BY <4>1, Zenon
        <4>2. CASE n # i
          <5>1. n \in i + 1..m
            BY <1>1, <2>1, <4>2
          <5>2. g[n] = f[n]
            BY <4>2, Zenon
          <5> QED
            BY <2>4, <5>1, <5>2, Zenon
        <4> QED
          BY <4>1, <4>2
      <3> QED
        BY <2>3, <3>1
    <2> QED
      BY <2>5
  <1>4. m - 1 \in T
    <2> HIDE DEF T
    <2>1. T \subseteq Nat
      BY DEF T
    <2>2. m - 1 \in Nat
      BY <1>1
    <2> QED
      BY <1>2, <1>3, <2>1, <2>2, Induction
  <1>5. \E f : f = [n \in 1..m |-> TogetherFrom(parts, f, n)]
    <2>1. PICK f : Makes(f, m - 1)
      BY <1>1, <1>4
    <2>2. m - (m - 1) = 1
      BY <1>1
    <2> QED
      BY <2>1, <2>2, Zenon
  <1> QED
    BY <1>5, Zenon DEF Together

(* It puts each part before what follows. *)
LEMMA TogetherIs ==
    ASSUME NEW parts \in Seq(Line)
    PROVE  LET w == Together(parts)
           IN  /\ w[Len(parts) + 1] = <<>>
               /\ \A n \in 1..Len(parts) : w[n] = parts[n] \o w[n + 1]
               /\ \A n \in 1..Len(parts) + 1 : w[n] \in Line
  <1> DEFINE w == Together(parts)
             m == Len(parts) + 1
  <1>0. Len(parts) \in Nat /\ \A n \in 1..Len(parts) : parts[n] \in Line
    OBVIOUS
  <1>1. w = [n \in 1..m |-> TogetherFrom(parts, w, n)]
    BY TogetherIsThere
  <1> HIDE DEF w
  <1>2. w[m] = <<>>
    BY <1>0, <1>1 DEF TogetherFrom
  <1>3. ASSUME NEW n \in 1..Len(parts) PROVE w[n] = parts[n] \o w[n + 1]
    <2>1. n \in 1..m /\ ~(n > Len(parts))
      BY <1>0
    <2>2. w[n] = TogetherFrom(parts, w, n)
      BY <1>1, <2>1
    <2> QED
      BY <2>1, <2>2 DEF TogetherFrom
  <1> DEFINE S == {n \in 1..m : w[n] \in Line}
  <1>4. m \in S
    <2>1. <<>> \in Line
      BY DEF Line
    <2> QED
      BY <1>0, <1>2, <2>1
  <1>5. ASSUME NEW n \in 1..m - 1, n + 1 \in S PROVE n \in S
    <2>1. n \in 1..Len(parts) /\ n \in 1..m
      BY <1>0
    <2>2. w[n] = parts[n] \o w[n + 1] /\ parts[n] \in Line /\ w[n + 1] \in Line
      BY <1>0, <1>3, <1>5, <2>1
    <2> HIDE DEF m
    <2>3. w[n] \in Line
      BY <2>2, ConcatProperties DEF Line
    <2> QED
      BY <2>1, <2>3
  <1>6. \A n \in 1..m : n \in S
    <2> HIDE DEF S
    <2>1. m \in Nat
      BY <1>0
    <2> QED
      BY <1>4, <1>5, <2>1, Downward
  <1> QED
    BY <1>2, <1>3, <1>6 DEF w

-----------------------------------------------------------------------------
(* What GDB prints for a string is read back, and a torn string is not     *)
(* taken for a string (parser.py:171-206).                                 *)

(* A printed character is read back, and reading goes on behind it; *)
LEMMA CharIsRead ==
    ASSUME NEW l \in Line, NEW p \in 1..Len(l) + 1, NEW c \in Character,
           At(l, p, PrintedChar(c))
    PROVE  Quoted(l)[p] = Before(c, Quoted(l)[p + Len(PrintedChar(c))])
  <1>1. Len(l) \in Nat /\ p \in 1..Len(l) + 2
    BY LineIs
  <1>2. CASE c \in DOMAIN EscapeOf /\ PrintedChar(c) = <<Backslash, EscapeOf[c]>>
    <2> DEFINE e == EscapeOf[c]
    <2>1. e \in Character /\ Backslash \in Character /\ Unescape(e) = c
      BY <1>2, Escapes, CharacterIs DEF Syntax
    <2> HIDE DEF e
    <2>2. /\ <<Backslash>> \in Seq(Character) /\ <<e>> \in Seq(Character)
          /\ PrintedChar(c) = <<Backslash>> \o <<e>>
          /\ Len(<<Backslash>>) = 1 /\ Len(PrintedChar(c)) = 2
      BY <1>2, <2>1 DEF e
    <2>3. At(l, p, <<Backslash>>) /\ p + 1 \in 1..Len(l) + 1 /\ At(l, p + 1, <<e>>)
      BY <2>2, AtBoth
    <2>4. Peek(l, p) = Backslash /\ Peek(l, p + 1) = e
      BY <2>3, AtOne
    <2>5. Quoted(l)[p] = Before(Unescape(Peek(l, p + 1)), Quoted(l)[p + 2])
      BY <1>1, <2>4, QuotedAt
    <2> QED
      BY <2>1, <2>2, <2>4, <2>5
  <1>3. CASE c \notin {EndOfLine, Quote, Backslash} /\ PrintedChar(c) = <<c>>
    <2>1. l[p] = c /\ Peek(l, p) = c /\ Len(PrintedChar(c)) = 1
      BY <1>3, AtOne
    <2>2. Quoted(l)[p] = Before(l[p], Quoted(l)[p + 1])
      BY <1>1, <1>3, <2>1, QuotedAt
    <2> QED
      BY <2>1, <2>2
  <1> QED
    BY <1>2, <1>3, PrintedCharIs

(* cut short it makes the string unreadable. *)
LEMMA CharIsTorn ==
    ASSUME NEW l \in Line, NEW p \in 1..Len(l) + 1, NEW c \in Character,
           Cut(l, p, PrintedChar(c))
    PROVE  Quoted(l)[p].at = Nowhere
  <1>1. Len(l) \in Nat /\ p \in 1..Len(l) + 2
    BY LineIs
  <1>2. ASSUME p = Len(l) + 1, Peek(l, p) = EndOfLine
        PROVE  Quoted(l)[p].at = Nowhere
    <2>1. Quoted(l)[p] = Error
      BY <1>1, <1>2, QuotedAt
    <2> QED
      BY <2>1, ReadIs
  <1>3. CASE c \in DOMAIN EscapeOf /\ PrintedChar(c) = <<Backslash, EscapeOf[c]>>
    <2> DEFINE e == EscapeOf[c]
    <2>1. e \in Character /\ Backslash \in Character
      BY <1>3, Escapes, CharacterIs DEF Syntax
    <2> HIDE DEF e
    <2>2. /\ <<Backslash>> \in Seq(Character) /\ <<e>> \in Seq(Character)
          /\ PrintedChar(c) = <<Backslash>> \o <<e>> /\ Len(<<Backslash>>) = 1
      BY <1>3, <2>1 DEF e
    <2>3. CASE Cut(l, p, <<Backslash>>)
      BY <1>2, <2>3, CutOne
    <2>4. CASE /\ At(l, p, <<Backslash>>) /\ p + 1 \in 1..Len(l) + 1
               /\ Cut(l, p + 1, <<e>>)
      <3>1. Peek(l, p) = Backslash /\ p + 1 = Len(l) + 1
        BY <2>4, AtOne, CutOne
      <3>2. p + 2 \in 1..Len(l) + 2 /\ p + 2 \notin 1..Len(l)
        BY <1>1, <3>1
      <3>3. Quoted(l)[p + 2] = Error
        BY <3>2, QuotedAt, LineIs
      <3>4. Quoted(l)[p] = Before(Unescape(Peek(l, p + 1)), Quoted(l)[p + 2])
        BY <1>1, <3>1, QuotedAt
      <3> QED
        BY <3>3, <3>4, ReadIs
    <2> QED
      BY <2>2, <2>3, <2>4, CutInOne
  <1>4. CASE PrintedChar(c) = <<c>>
    BY <1>2, <1>4, CutOne
  <1> QED
    BY <1>3, <1>4, PrintedCharIs

(* A character is a line of its own. *)
LEMMA OneIsALine == \A c \in Character : <<c>> \in Line /\ Len(<<c>>) = 1
  BY DEF Line

(* Lines put one behind the other are a line, as long as both. *)
LEMMA LinesJoin ==
    ASSUME NEW a \in Line, NEW b \in Line
    PROVE  a \o b \in Line /\ Len(a \o b) = Len(a) + Len(b)
  BY ConcatProperties DEF Line

(* It begins with the character the first of them is. *)
LEMMA FirstStays ==
    ASSUME NEW a \in Line, NEW b \in Line, Len(a) = 1
    PROVE  /\ a \o b \in Line /\ a \o b # <<>>
           /\ Len(a \o b) = Len(a) + Len(b) /\ (a \o b)[1] = a[1]
  <1> DEFINE c == a \o b
             k == Len(a)
             n == Len(b)
  <1>1. c \in Line /\ Len(c) = k + n
    BY LinesJoin
  <1>2. k \in Nat /\ n \in Nat
    BY LineIs
  <1>3. k = 1
    OBVIOUS
  <1>4. \A i \in 1..k + n : c[i] = IF i <= k THEN a[i] ELSE b[i - k]
    BY ConcatProperties DEF Line
  <1> HIDE DEF c, k, n
  <1>5. 1 \in 1..k + n /\ 1 <= k /\ k + n # 0
    BY <1>2, <1>3
  <1>6. c[1] = a[1] /\ c # <<>>
    BY <1>1, <1>4, <1>5
  <1> QED
    BY <1>1, <1>6 DEF c, k, n

(* In which order they are put together does not matter. *)
LEMMA LinesAssociate ==
    ASSUME NEW a \in Line, NEW b \in Line, NEW c \in Line
    PROVE  (a \o b) \o c = a \o (b \o c)
  BY ConcatAssociative DEF Line

(* The printed characters of a text, one by one. *)
LEMMA CharsAre ==
    ASSUME NEW t \in Line
    PROVE  /\ Len(t) \in Nat
           /\ PrintedChars(t) \in Seq(Line) /\ Len(PrintedChars(t)) = Len(t)
           /\ \A n \in 1..Len(t) :
                 t[n] \in Character /\ PrintedChars(t)[n] = PrintedChar(t[n])
           /\ <<Quote>> \in Line
           /\ RenderConst(t) \in Line
  <1>1. DOMAIN t = 1..Len(t) /\ Len(t) \in Nat
    BY LineIs
  <1>2. \A n \in 1..Len(t) : t[n] \in Character
    BY LineIs
  <1>3. \A n \in 1..Len(t) : PrintedChar(t[n]) \in Line
    BY <1>2, PrintedCharIs
  <1>4. PrintedChars(t) \in [1..Len(t) -> Line]
    BY <1>1, <1>3 DEF PrintedChars
  <1>5. PrintedChars(t) \in Seq(Line) /\ Len(PrintedChars(t)) = Len(t)
    BY <1>1, <1>4
  <1>6. Quote \in Character
    BY CharacterIs DEF Syntax
  <1>7. <<Quote>> \in Line
    BY <1>6, OneIsALine
  <1>8. Together(PrintedChars(t))[1] \in Line
    <2>1. 1 \in 1..Len(PrintedChars(t)) + 1
      BY <1>1, <1>5
    <2> QED
      BY <1>5, <2>1, TogetherIs
  <1>9. <<Quote>> \o Together(PrintedChars(t))[1] \in Line
    BY <1>7, <1>8, LinesJoin
  <1>10. RenderConst(t) \in Line
    BY <1>7, <1>9, LinesJoin DEF RenderConst, Enclosed
  <1> QED
    BY <1>1, <1>2, <1>5, <1>7, <1>10 DEF PrintedChars

(* What stands behind the n-th character of a printed string. *)
LEMMA Unfolded ==
    ASSUME NEW t \in Line, NEW n \in 1..Len(t)
    PROVE  LET w == Together(PrintedChars(t))
           IN  /\ w[n] \in Line /\ w[n + 1] \in Line
               /\ PrintedChar(t[n]) \in Line
               /\ w[n + 1] \o <<Quote>> \in Line
               /\ w[n] \o <<Quote>> = PrintedChar(t[n]) \o (w[n + 1] \o <<Quote>>)
               /\ Len(w[n]) = Len(PrintedChar(t[n])) + Len(w[n + 1])
  <1> DEFINE w == Together(PrintedChars(t))
             a == PrintedChar(t[n])
             z == <<Quote>>
  <1>0. Len(t) \in Nat
    BY LineIs
  <1>1. n \in 1..Len(t) + 1 /\ n + 1 \in 1..Len(t) + 1
    BY <1>0
  <1>2. w[n] = a \o w[n + 1] /\ w[n] \in Line /\ w[n + 1] \in Line
    BY <1>1, CharsAre, TogetherIs
  <1>3. a \in Line /\ z \in Line
    BY CharsAre, PrintedCharIs
  <1> HIDE DEF w, a, z
  <1>4. w[n + 1] \o z \in Line /\ Len(w[n]) = Len(a) + Len(w[n + 1])
    BY <1>2, <1>3, LinesJoin
  <1>5. w[n] \o z = a \o (w[n + 1] \o z)
    <2>1. (a \o w[n + 1]) \o z = a \o (w[n + 1] \o z)
      BY <1>2, <1>3, LinesAssociate
    <2> QED
      BY <1>2, <2>1, Zenon
  <1> QED
    BY <1>2, <1>3, <1>4, <1>5, Zenon DEF w, a, z

(* From each character on, the rest of a printed string is read back; *)
LEMMA StringIsRead ==
    ASSUME NEW l \in Line, NEW t \in Line, NEW n \in 1..Len(t) + 1,
           NEW p \in 1..Len(l) + 1,
           At(l, p, Together(PrintedChars(t))[n] \o <<Quote>>)
    PROVE  Quoted(l)[p] =
              Read(SubSeq(t, n, Len(t)),
                   p + Len(Together(PrintedChars(t))[n]) + 1)
  <1> DEFINE w == Together(PrintedChars(t))
             z == <<Quote>>
             m == Len(t) + 1
             Reads(i) ==
                \A r \in 1..Len(l) + 1 :
                    At(l, r, w[i] \o z) =>
                        Quoted(l)[r] = Read(SubSeq(t, i, Len(t)), r + Len(w[i]) + 1)
             S == {i \in 1..m : Reads(i)}
  <1>1. Len(t) \in Nat /\ Len(l) \in Nat /\ m \in Nat
    BY LineIs
  <1>2. Reads(m)
    <2>1. w[m] = <<>> /\ z \in Line
      BY CharsAre, TogetherIs
    <2>2. w[m] \o z = z /\ Len(w[m]) = 0
      BY <2>1, ConcatEmptySeq DEF Line
    <2>3. SubSeq(t, m, Len(t)) = <<>>
      BY <1>1, SubSeqEmpty
    <2> SUFFICES ASSUME NEW r \in 1..Len(l) + 1, At(l, r, z)
                 PROVE  Quoted(l)[r] = Read(<<>>, r + 0 + 1)
      BY <2>2, <2>3
    <2>4. Peek(l, r) = Quote
      BY AtOne
    <2>5. r \in 1..Len(l) + 2 /\ r + 0 + 1 = r + 1
      BY <1>1
    <2> QED
      BY <2>4, <2>5, QuotedAt
  <1>3. ASSUME NEW i \in 1..Len(t), Reads(i + 1) PROVE Reads(i)
    <2> SUFFICES ASSUME NEW r \in 1..Len(l) + 1, At(l, r, w[i] \o z)
                 PROVE  Quoted(l)[r] = Read(SubSeq(t, i, Len(t)), r + Len(w[i]) + 1)
      OBVIOUS
    <2> DEFINE a == PrintedChar(t[i])
               u == w[i]
               v == w[i + 1]
               rest == SubSeq(t, i + 1, Len(t))
    <2>1. /\ v \in Line /\ a \in Line /\ v \o z \in Line
          /\ u \o z = a \o (v \o z)
          /\ Len(u) = Len(a) + Len(v)
      BY Unfolded
    <2>2. t[i] \in Character
      BY CharsAre
    <2>3. At(l, r, a) /\ r + Len(a) \in 1..Len(l) + 1 /\ At(l, r + Len(a), v \o z)
      <3>1. At(l, r, a \o (v \o z))
        BY <2>1
      <3> HIDE DEF a, v, z
      <3> QED
        BY <2>1, <3>1, AtBoth DEF Line
    <2>4. Quoted(l)[r] = Before(t[i], Quoted(l)[r + Len(a)])
      BY <2>2, <2>3, CharIsRead
    <2>5. Quoted(l)[r + Len(a)] = Read(rest, r + Len(a) + Len(v) + 1)
      BY <1>3, <2>3
    <2>6. SubSeq(t, i, Len(t)) = <<t[i]>> \o rest
      <3>1. i \in 1..Len(t) /\ Len(t) \in i..Len(t)
        BY <1>1
      <3> QED
        BY <3>1, SubSeqRecursiveFirst DEF Line
    <2>7. r + Len(a) + Len(v) + 1 = r + Len(u) + 1
      <3>1. Len(a) \in Nat /\ Len(v) \in Nat /\ r \in Nat
        BY <1>1, <2>1, LineIs
      <3> HIDE DEF a, u, v
      <3> QED
        BY <2>1, <3>1
    <2> HIDE DEF a, u, v, rest
    <2>8. Quoted(l)[r] = Read(<<t[i]>> \o rest, r + Len(a) + Len(v) + 1)
      BY <2>4, <2>5 DEF Before, Read
    <2>9. Quoted(l)[r] = Read(SubSeq(t, i, Len(t)), r + Len(u) + 1)
      BY <2>6, <2>7, <2>8
    <2> QED
      BY <2>9 DEF u
  <1> HIDE DEF Reads
  <1>4. m \in S
    BY <1>1, <1>2
  <1>5. ASSUME NEW i \in 1..m - 1, i + 1 \in S PROVE i \in S
    <2>1. i \in 1..Len(t) /\ i \in 1..m
      BY <1>1
    <2> QED
      BY <1>3, <1>5, <2>1
  <1>6. \A i \in 1..m : i \in S
    <2> HIDE DEF S, m
    <2> QED
      BY <1>1, <1>4, <1>5, Downward
  <1>7. Reads(n)
    BY <1>6
  <1> QED
    BY <1>7 DEF Reads

(* cut short it is unreadable. *)
LEMMA StringIsTorn ==
    ASSUME NEW l \in Line, NEW t \in Line, NEW n \in 1..Len(t) + 1,
           NEW p \in 1..Len(l) + 1,
           Cut(l, p, Together(PrintedChars(t))[n] \o <<Quote>>)
    PROVE  Quoted(l)[p].at = Nowhere
  <1> DEFINE w == Together(PrintedChars(t))
             z == <<Quote>>
             m == Len(t) + 1
             Fails(i) ==
                \A r \in 1..Len(l) + 1 :
                    Cut(l, r, w[i] \o z) => Quoted(l)[r].at = Nowhere
             S == {i \in 1..m : Fails(i)}
  <1>1. Len(t) \in Nat /\ Len(l) \in Nat /\ m \in Nat
    BY LineIs
  <1>2. Fails(m)
    <2>1. w[m] = <<>> /\ z \in Line
      BY CharsAre, TogetherIs
    <2>2. w[m] \o z = z
      BY <2>1, ConcatEmptySeq DEF Line
    <2> SUFFICES ASSUME NEW r \in 1..Len(l) + 1, Cut(l, r, z)
                 PROVE  Quoted(l)[r].at = Nowhere
      BY <2>2
    <2>4. Peek(l, r) = EndOfLine
      BY CutOne
    <2>5. r \in 1..Len(l) + 2
      BY <1>1
    <2>6. Quoted(l)[r] = Error
      BY <2>4, <2>5, QuotedAt
    <2> QED
      BY <2>6, ReadIs
  <1>3. ASSUME NEW i \in 1..Len(t), Fails(i + 1) PROVE Fails(i)
    <2> SUFFICES ASSUME NEW r \in 1..Len(l) + 1, Cut(l, r, w[i] \o z)
                 PROVE  Quoted(l)[r].at = Nowhere
      OBVIOUS
    <2> DEFINE a == PrintedChar(t[i])
               b == w[i + 1] \o z
    <2>1. a \in Line /\ b \in Line /\ w[i] \o z = a \o b
      BY Unfolded
    <2>2. t[i] \in Character
      BY CharsAre
    <2>3. \/ Cut(l, r, a)
          \/ /\ At(l, r, a) /\ r + Len(a) \in 1..Len(l) + 1
             /\ Cut(l, r + Len(a), b)
      <3> HIDE DEF a, b
      <3> QED
        BY <2>1, CutInOne DEF Line
    <2>4. CASE Cut(l, r, a)
      BY <2>2, <2>4, CharIsTorn
    <2>5. CASE /\ At(l, r, a) /\ r + Len(a) \in 1..Len(l) + 1
               /\ Cut(l, r + Len(a), b)
      <3>1. Quoted(l)[r] = Before(t[i], Quoted(l)[r + Len(a)])
        BY <2>2, <2>5, CharIsRead
      <3>2. Quoted(l)[r + Len(a)].at = Nowhere
        BY <1>3, <2>5
      <3> QED
        BY <3>1, <3>2, ReadIs
    <2> QED
      BY <2>3, <2>4, <2>5
  <1> HIDE DEF Fails
  <1>4. m \in S
    BY <1>1, <1>2
  <1>5. ASSUME NEW i \in 1..m - 1, i + 1 \in S PROVE i \in S
    <2>1. i \in 1..Len(t) /\ i \in 1..m
      BY <1>1
    <2> QED
      BY <1>3, <1>5, <2>1
  <1>6. \A i \in 1..m : i \in S
    <2> HIDE DEF S, m
    <2> QED
      BY <1>1, <1>4, <1>5, Downward
  <1>7. Fails(n)
    BY <1>6
  <1> QED
    BY <1>7 DEF Fails

(* A printed string is a quote, its characters and a quote. *)
LEMMA ConstUnfolded ==
    ASSUME NEW t \in Line
    PROVE  LET w == Together(PrintedChars(t))[1]
           IN  /\ w \in Line /\ <<Quote>> \in Line /\ w \o <<Quote>> \in Line
               /\ RenderConst(t) = <<Quote>> \o (w \o <<Quote>>)
               /\ Len(RenderConst(t)) = Len(w) + 2
  <1> DEFINE w == Together(PrintedChars(t))[1]
             z == <<Quote>>
  <1>1. z \in Line /\ Len(z) = 1
    BY CharsAre
  <1>2. w \in Line
    <2>1. 1 \in 1..Len(PrintedChars(t)) + 1
      BY CharsAre
    <2> QED
      BY <2>1, CharsAre, TogetherIs
  <1>3. RenderConst(t) = (z \o w) \o z
    BY Zenon DEF RenderConst, Enclosed
  <1> HIDE DEF w, z
  <1>4. w \o z \in Line /\ Len(w \o z) = Len(w) + Len(z)
    BY <1>1, <1>2, LinesJoin
  <1>5. (z \o w) \o z = z \o (w \o z)
    BY <1>1, <1>2, LinesAssociate
  <1>6. Len(z \o (w \o z)) = Len(z) + Len(w \o z)
    BY <1>1, <1>4, LinesJoin
  <1>7. RenderConst(t) = z \o (w \o z)
    BY <1>3, <1>5
  <1>8. Len(w) \in Nat
    BY <1>2, LineIs
  <1>9. Len(RenderConst(t)) = Len(w) + 2
    BY <1>1, <1>4, <1>6, <1>7, <1>8
  <1> QED
    BY <1>1, <1>2, <1>4, <1>7, <1>9 DEF w, z

(* parser.py:171-186 *)
LEMMA ConstIsRead ==
    ASSUME NEW l \in Line, NEW t \in Line, NEW p \in 1..Len(l) + 1,
           At(l, p, RenderConst(t))
    PROVE  CString(l, p) = Read(Text(t), p + Len(RenderConst(t)))
  <1> DEFINE w == Together(PrintedChars(t))[1]
             z == <<Quote>>
  <1>1. /\ w \in Line /\ z \in Line /\ w \o z \in Line
        /\ RenderConst(t) = z \o (w \o z)
        /\ Len(RenderConst(t)) = Len(w) + 2
    BY ConstUnfolded
  <1>2. At(l, p, z) /\ p + Len(z) \in 1..Len(l) + 1
        /\ At(l, p + Len(z), w \o z)
    <2>1. At(l, p, z \o (w \o z))
      BY <1>1
    <2> HIDE DEF w, z
    <2> QED
      BY <1>1, <2>1, AtBoth DEF Line
  <1>3. Len(z) = 1 /\ Peek(l, p) = Quote
    BY <1>2, AtOne
  <1>4. Len(t) \in Nat /\ 1 \in 1..Len(t) + 1 /\ Len(l) \in Nat /\ p \in Nat
    BY LineIs
  <1>5. Quoted(l)[p + 1] = Read(SubSeq(t, 1, Len(t)), p + 1 + Len(w) + 1)
    BY <1>2, <1>3, <1>4, StringIsRead
  <1>6. SubSeq(t, 1, Len(t)) = t
    BY SubSeqFull DEF Line
  <1>7. p + 1 + Len(w) + 1 = p + Len(RenderConst(t))
    <2>1. Len(w) \in Nat
      BY <1>1, LineIs
    <2> HIDE DEF w
    <2> QED
      BY <1>1, <1>4, <2>1
  <1>8. CString(l, p) = AsText(Quoted(l)[p + 1])
    BY <1>3 DEF CString
  <1>9. Quoted(l)[p + 1] = Read(t, p + Len(RenderConst(t)))
    BY <1>5, <1>6, <1>7, Zenon
  <1>10. AsText(Quoted(l)[p + 1]) = Read(Text(t), p + Len(RenderConst(t)))
    BY <1>9, ReadIs, ZenonT(40) DEF AsText
  <1> QED
    BY <1>8, <1>10, Zenon

(* _parse_c_string refuses a printed string that is cut short. *)
LEMMA ConstIsTorn ==
    ASSUME NEW l \in Line, NEW t \in Line, NEW p \in 1..Len(l) + 1,
           Cut(l, p, RenderConst(t))
    PROVE  CString(l, p).at = Nowhere
  <1> DEFINE w == Together(PrintedChars(t))[1]
             z == <<Quote>>
  <1>1. /\ w \in Line /\ z \in Line /\ w \o z \in Line
        /\ RenderConst(t) = z \o (w \o z)
    BY ConstUnfolded
  <1>2. \/ Cut(l, p, z)
        \/ /\ At(l, p, z) /\ p + Len(z) \in 1..Len(l) + 1
           /\ Cut(l, p + Len(z), w \o z)
    <2>1. Cut(l, p, z \o (w \o z))
      BY <1>1
    <2> HIDE DEF w, z
    <2> QED
      BY <1>1, <2>1, CutInOne DEF Line
  <1>3. CASE Cut(l, p, z)
    <2>1. Peek(l, p) # Quote
      BY <1>3, CutOne, Distinct
    <2>2. CString(l, p) = Error
      BY <2>1 DEF CString
    <2> QED
      BY <2>2, ReadIs
  <1>4. CASE /\ At(l, p, z) /\ p + Len(z) \in 1..Len(l) + 1
             /\ Cut(l, p + Len(z), w \o z)
    <2>1. Len(z) = 1 /\ Peek(l, p) = Quote
      BY <1>4, AtOne
    <2>2. 1 \in 1..Len(t) + 1
      BY LineIs
    <2>3. Quoted(l)[p + 1].at = Nowhere
      BY <1>4, <2>1, <2>2, StringIsTorn
    <2>4. CString(l, p) = AsText(Quoted(l)[p + 1])
      BY <2>1 DEF CString
    <2> QED
      BY <2>3, <2>4 DEF AsText, Read
  <1> QED
    BY <1>2, <1>3, <1>4

-----------------------------------------------------------------------------
(* The rules that nest: each looks only at what the rules read from later  *)
(* positions, and none goes back, so the descent ends (parser.py:97-160).  *)

(* r was read from p on or later. *)
Ahead(l, r, p) == r.at = Nowhere \/ r.at \in p..Len(l) + 1

(* f and g read the same from every position after p. *)
Agree(l, p, f, g) ==
    \A rule \in Rules, n \in p + 1..Len(l) + 1 :
        f[<<rule, n>>] = g[<<rule, n>>] /\ Ahead(l, f[<<rule, n>>], n)

(* Where a character is, the line has a position. *)
LEMMA PeekIs ==
    ASSUME NEW l \in Line, NEW p, Peek(l, p) # EndOfLine
    PROVE  p \in 1..Len(l)
  BY LineIs

(* _parse_identifier does not go back or beyond the end of the line, *)
LEMMA IdentifierAdvances ==
    ASSUME NEW l \in Line, NEW p \in 1..Len(l) + 1
    PROVE  Ahead(l, Identifier(l, p), p)
  <1>1. CASE Peek(l, p) \in IdentifierStart
    <2> DEFINE q == Past(l, p, IdentifierPart)
    <2>1. q \in p..Len(l) + 1
      BY PastIs, NoIdentifier
    <2>2. Identifier(l, p) = Read(SubSeq(l, p, q - 1), q)
      BY <1>1 DEF Identifier
    <2> HIDE DEF q
    <2> QED
      BY <2>1, <2>2, ReadIs DEF Ahead
  <1>2. CASE Peek(l, p) \notin IdentifierStart
    <2>1. Identifier(l, p) = Error
      BY <1>2 DEF Identifier
    <2> QED
      BY <2>1, ReadIs DEF Ahead
  <1> QED
    BY <1>1, <1>2

(* nor does _parse_c_string, *)
LEMMA CStringAdvances ==
    ASSUME NEW l \in Line, NEW p \in 1..Len(l) + 1
    PROVE  Ahead(l, CString(l, p), p)
  <1>1. Len(l) \in Nat /\ p + 1 \in 1..Len(l) + 2
    BY LineIs
  <1>2. CASE Peek(l, p) = Quote
    <2>1. CString(l, p).at = Quoted(l)[p + 1].at
      BY <1>2 DEF CString, AsText, Read
    <2>2. \/ Quoted(l)[p + 1].at = Nowhere
          \/ Quoted(l)[p + 1].at \in p + 1 + 1..Len(l) + 1
      BY <1>1, QuotedAdvances
    <2>3. \A x : x \in p + 1 + 1..Len(l) + 1 => x \in p..Len(l) + 1
      BY <1>1
    <2> QED
      BY <2>1, <2>2, <2>3 DEF Ahead
  <1>3. CASE Peek(l, p) # Quote
    <2>1. CString(l, p) = Error
      BY <1>3 DEF CString
    <2> QED
      BY <2>1, ReadIs DEF Ahead
  <1> QED
    BY <1>2, <1>3

(* nor _parse_bare_value. *)
LEMMA BareAdvances ==
    ASSUME NEW l \in Line, NEW p \in 1..Len(l) + 1
    PROVE  Ahead(l, BareValue(l, p), p)
  <1> DEFINE class == Characters(l) \ {Comma, CloseList, CloseTuple}
             q == Past(l, p, class)
  <1>1. EndOfLine \notin class
    BY LineIs DEF Characters
  <1>2. q \in p..Len(l) + 1
    <2> HIDE DEF class
    <2> QED
      BY <1>1, PastIs
  <1>3. BareValue(l, p) = TextUpTo(l, p, q)
    BY DEF BareValue
  <1> HIDE DEF q
  <1> QED
    BY <1>2, <1>3, ReadIs DEF Ahead, TextUpTo

(* Where a rule has stopped before a character, another may go on. *)
LEMMA AheadOfMore ==
    ASSUME NEW l \in Line, NEW p \in 1..Len(l) + 1, NEW r,
           Ahead(l, r, p), Peek(l, r.at) # EndOfLine
    PROVE  r.at \in p..Len(l) /\ r.at + 1 \in p + 1..Len(l) + 1
  <1>1. r.at \in 1..Len(l) /\ Len(l) \in Nat
    BY PeekIs, LineIs
  <1>2. r.at \in p..Len(l) + 1
    BY <1>1 DEF Ahead, Nowhere
  <1> QED
    BY <1>1, <1>2

(* _parse_result depends on the later positions only and does not go back, *)
LEMMA ResultAdvances ==
    ASSUME NEW l \in Line, NEW p \in 1..Len(l) + 1, NEW f, NEW g, Agree(l, p, f, g)
    PROVE  /\ ResultFrom(l, f, p) = ResultFrom(l, g, p)
           /\ Ahead(l, ResultFrom(l, f, p), p)
  <1> DEFINE key == Identifier(l, p)
  <1>1. Ahead(l, key, p) /\ Len(l) \in Nat
    BY IdentifierAdvances, LineIs
  <1>2. /\ ResultFrom(l, f, p) = AfterKey(l, f, key)
        /\ ResultFrom(l, g, p) = AfterKey(l, g, key)
    BY DEF ResultFrom
  <1> HIDE DEF key
  <1>3. CASE Peek(l, key.at) = "="
    <2>1. key.at + 1 \in p + 1..Len(l) + 1
      BY <1>1, <1>3, AheadOfMore, Distinct
    <2> DEFINE at == <<"value", key.at + 1>>
    <2>2. f[at] = g[at] /\ Ahead(l, f[at], key.at + 1)
      BY <2>1 DEF Agree, Rules
    <2> HIDE DEF at
    <2>3. AfterKey(l, f, key) = Entry(key.value, f[at])
      BY <1>3 DEF AfterKey, at
    <2>4. AfterKey(l, g, key) = Entry(key.value, g[at])
      BY <1>3 DEF AfterKey, at
    <2>5. Entry(key.value, f[at]).at = f[at].at
      BY DEF Entry, Read
    <2>6. \A x : x \in key.at + 1..Len(l) + 1 => x \in p..Len(l) + 1
      BY <1>1, <2>1
    <2>7. Ahead(l, AfterKey(l, f, key), p)
      BY <2>2, <2>3, <2>5, <2>6 DEF Ahead
    <2>8. Entry(key.value, f[at]) = Entry(key.value, g[at])
      BY <2>2
    <2> QED
      BY <1>2, <2>3, <2>4, <2>7, <2>8
  <1>4. CASE Peek(l, key.at) # "="
    <2>1. AfterKey(l, f, key) = Error /\ AfterKey(l, g, key) = Error
      BY <1>4 DEF AfterKey
    <2> QED
      BY <1>2, <2>1, ReadIs DEF Ahead
  <1> QED
    BY <1>3, <1>4

(* nor does _parse_result_list, *)
LEMMA ResultsAdvance ==
    ASSUME NEW l \in Line, NEW p \in 1..Len(l) + 1, NEW f, NEW g, Agree(l, p, f, g),
           NEW rule \in Rules, NEW stop
    PROVE  /\ ResultsFrom(l, f, p, rule, stop) = ResultsFrom(l, g, p, rule, stop)
           /\ Ahead(l, ResultsFrom(l, f, p, rule, stop), p)
  <1> DEFINE r == ResultFrom(l, f, p)
  <1>1. r = ResultFrom(l, g, p) /\ Ahead(l, r, p) /\ Len(l) \in Nat
    BY ResultAdvances, LineIs
  <1> HIDE DEF r
  <1>2. CASE Peek(l, p) \in stop \cup {EndOfLine}
    <2>1. /\ ResultsFrom(l, f, p, rule, stop) = Read(NoEntries, p)
          /\ ResultsFrom(l, g, p, rule, stop) = Read(NoEntries, p)
      BY <1>2 DEF ResultsFrom
    <2>2. p \in p..Len(l) + 1
      BY <1>1
    <2> QED
      BY <2>1, <2>2, ReadIs DEF Ahead
  <1>3. CASE Peek(l, p) \notin stop \cup {EndOfLine}
    <2>1. /\ ResultsFrom(l, f, p, rule, stop) = AfterResult(l, f, r, rule)
          /\ ResultsFrom(l, g, p, rule, stop) = AfterResult(l, g, r, rule)
      BY <1>1, <1>3 DEF ResultsFrom, r
    <2>2. CASE Peek(l, r.at) = Comma
      <3> DEFINE at == <<rule, r.at + 1>>
      <3>1. r.at + 1 \in p + 1..Len(l) + 1
        BY <1>1, <2>2, AheadOfMore, Distinct
      <3>2. f[at] = g[at] /\ Ahead(l, f[at], r.at + 1)
        BY <3>1 DEF Agree
      <3> HIDE DEF at
      <3>3. /\ AfterResult(l, f, r, rule) = Joining(r, f[at])
            /\ AfterResult(l, g, r, rule) = Joining(r, g[at])
        BY <2>2 DEF AfterResult, at
      <3>4. Joining(r, f[at]).at = f[at].at
        BY DEF Joining, Read
      <3>5. \A x : x \in r.at + 1..Len(l) + 1 => x \in p..Len(l) + 1
        BY <1>1, <3>1
      <3>6. Ahead(l, Joining(r, f[at]), p)
        BY <3>2, <3>4, <3>5 DEF Ahead
      <3>7. Joining(r, f[at]) = Joining(r, g[at])
        BY <3>2
      <3> QED
        BY <2>1, <3>3, <3>6, <3>7
    <2>3. CASE Peek(l, r.at) # Comma
      BY <1>1, <2>1, <2>3 DEF AfterResult
    <2> QED
      BY <2>2, <2>3
  <1> QED
    BY <1>2, <1>3

(* nor _expect, *)
LEMMA ClosedAdvances ==
    ASSUME NEW l \in Line, NEW p \in 1..Len(l) + 1, NEW body,
           Ahead(l, body, p + 1), NEW bracket, bracket # EndOfLine
    PROVE  Ahead(l, Closed(l, bracket, body), p)
  <1>1. CASE Peek(l, body.at) = bracket
    <2>1. Ahead(l, body, p)
      <3>1. \A x : x \in p + 1..Len(l) + 1 => x \in p..Len(l) + 1
        BY LineIs
      <3> QED
        BY <3>1 DEF Ahead
    <2>2. body.at + 1 \in p + 1..Len(l) + 1
      BY <1>1, <2>1, AheadOfMore
    <2>3. body.at + 1 \in p..Len(l) + 1
      BY <2>2
    <2>4. Closed(l, bracket, body) = Read(body.value, body.at + 1)
      BY <1>1 DEF Closed
    <2> QED
      BY <2>3, <2>4, ReadIs DEF Ahead
  <1>2. CASE Peek(l, body.at) # bracket
    <2>1. Closed(l, bracket, body) = Error
      BY <1>2 DEF Closed
    <2> QED
      BY <2>1, ReadIs DEF Ahead
  <1> QED
    BY <1>1, <1>2

(* What _parse_value does with each first character. *)
LEMMA ValueTurns ==
    ASSUME NEW l, NEW q, NEW p
    PROVE  /\ Peek(l, p) = Quote => ValueFrom(l, q, p) = CString(l, p)
           /\ Peek(l, p) = OpenTuple =>
                 ValueFrom(l, q, p) =
                    AsDict(Closed(l, CloseTuple, q[<<"fields", p + 1>>]))
           /\ Peek(l, p) = OpenList =>
                 ValueFrom(l, q, p) =
                    AsList(Closed(l, CloseList, q[<<"items", p + 1>>]))
           /\ Peek(l, p) \notin {Quote, OpenTuple, OpenList} =>
                 ValueFrom(l, q, p) = BareValue(l, p)
  BY Distinct, Zenon DEF ValueFrom

(* _parse_value depends on the later positions only and does not go back, *)
LEMMA ValueAdvances ==
    ASSUME NEW l \in Line, NEW p \in 1..Len(l) + 1, NEW f, NEW g, Agree(l, p, f, g)
    PROVE  /\ ValueFrom(l, f, p) = ValueFrom(l, g, p)
           /\ Ahead(l, ValueFrom(l, f, p), p)
  <1>1. /\ Ahead(l, CString(l, p), p) /\ Ahead(l, BareValue(l, p), p)
        /\ Len(l) \in Nat
    BY CStringAdvances, BareAdvances, LineIs
  <1>2. CASE Peek(l, p) = Quote
    <2>1. /\ ValueFrom(l, f, p) = CString(l, p)
          /\ ValueFrom(l, g, p) = CString(l, p)
      BY <1>2, ValueTurns
    <2> QED
      BY <1>1, <2>1
  <1>3. CASE Peek(l, p) = OpenTuple
    <2> DEFINE at == <<"fields", p + 1>>
    <2>1. p + 1 \in p + 1..Len(l) + 1
      BY <1>1, <1>3, PeekIs, Distinct
    <2>2. f[at] = g[at] /\ Ahead(l, f[at], p + 1)
      BY <2>1 DEF Agree, Rules
    <2> HIDE DEF at
    <2>3. /\ ValueFrom(l, f, p) = AsDict(Closed(l, CloseTuple, f[at]))
          /\ ValueFrom(l, g, p) = AsDict(Closed(l, CloseTuple, g[at]))
      BY <1>3, ValueTurns DEF at
    <2>4. Ahead(l, Closed(l, CloseTuple, f[at]), p)
      BY <2>2, ClosedAdvances, Distinct
    <2>5. Ahead(l, AsDict(Closed(l, CloseTuple, f[at])), p)
      BY <2>4, ReadIs DEF Ahead, AsDict
    <2> QED
      BY <2>2, <2>3, <2>5
  <1>4. CASE Peek(l, p) = OpenList
    <2> DEFINE at == <<"items", p + 1>>
    <2>1. p + 1 \in p + 1..Len(l) + 1
      BY <1>1, <1>4, PeekIs, Distinct
    <2>2. f[at] = g[at] /\ Ahead(l, f[at], p + 1)
      BY <2>1 DEF Agree, Rules
    <2> HIDE DEF at
    <2>3. /\ ValueFrom(l, f, p) = AsList(Closed(l, CloseList, f[at]))
          /\ ValueFrom(l, g, p) = AsList(Closed(l, CloseList, g[at]))
      BY <1>4, ValueTurns DEF at
    <2>4. Ahead(l, Closed(l, CloseList, f[at]), p)
      BY <2>2, ClosedAdvances, Distinct
    <2>5. Ahead(l, AsList(Closed(l, CloseList, f[at])), p)
      BY <2>4, ReadIs DEF Ahead, AsList
    <2> QED
      BY <2>2, <2>3, <2>5
  <1>5. CASE Peek(l, p) \notin {Quote, OpenTuple, OpenList}
    <2>1. /\ ValueFrom(l, f, p) = BareValue(l, p)
          /\ ValueFrom(l, g, p) = BareValue(l, p)
      BY <1>5, ValueTurns
    <2> QED
      BY <1>1, <2>1
  <1> QED
    BY <1>2, <1>3, <1>4, <1>5

(* nor does the reading of one item of a list, *)
LEMMA ItemAdvances ==
    ASSUME NEW l \in Line, NEW p \in 1..Len(l) + 1, NEW f, NEW g, Agree(l, p, f, g)
    PROVE  /\ ItemFrom(l, f, p) = ItemFrom(l, g, p)
           /\ Ahead(l, ItemFrom(l, f, p), p)
  <1>1. CASE NextValueIsResult(l, p)
    <2>1. /\ ItemFrom(l, f, p) = AsDict(ResultFrom(l, f, p))
          /\ ItemFrom(l, g, p) = AsDict(ResultFrom(l, g, p))
      BY <1>1 DEF ItemFrom
    <2>2. /\ ResultFrom(l, f, p) = ResultFrom(l, g, p)
          /\ Ahead(l, ResultFrom(l, f, p), p)
      BY ResultAdvances
    <2> QED
      BY <2>1, <2>2, ReadIs DEF Ahead, AsDict
  <1>2. CASE ~NextValueIsResult(l, p)
    <2>1. /\ ItemFrom(l, f, p) = ValueFrom(l, f, p)
          /\ ItemFrom(l, g, p) = ValueFrom(l, g, p)
      BY <1>2 DEF ItemFrom
    <2> QED
      BY <2>1, ValueAdvances
  <1> QED
    BY <1>1, <1>2

(* nor that of all its items. *)
LEMMA ItemsAdvance ==
    ASSUME NEW l \in Line, NEW p \in 1..Len(l) + 1, NEW f, NEW g, Agree(l, p, f, g)
    PROVE  /\ ItemsFrom(l, f, p) = ItemsFrom(l, g, p)
           /\ Ahead(l, ItemsFrom(l, f, p), p)
  <1> DEFINE v == ItemFrom(l, f, p)
  <1>1. v = ItemFrom(l, g, p) /\ Ahead(l, v, p) /\ Len(l) \in Nat
    BY ItemAdvances, LineIs
  <1> HIDE DEF v
  <1>2. CASE Peek(l, p) \in {CloseList, EndOfLine}
    <2>1. /\ ItemsFrom(l, f, p) = Read(<<>>, p)
          /\ ItemsFrom(l, g, p) = Read(<<>>, p)
      BY <1>2 DEF ItemsFrom
    <2>2. p \in p..Len(l) + 1
      BY <1>1
    <2> QED
      BY <2>1, <2>2, ReadIs DEF Ahead
  <1>3. CASE Peek(l, p) \notin {CloseList, EndOfLine}
    <2>1. /\ ItemsFrom(l, f, p) = AfterItem(l, f, v)
          /\ ItemsFrom(l, g, p) = AfterItem(l, g, v)
      BY <1>1, <1>3 DEF ItemsFrom, v
    <2>2. CASE Peek(l, v.at) = Comma
      <3> DEFINE at == <<"items", v.at + 1>>
      <3>1. v.at + 1 \in p + 1..Len(l) + 1
        BY <1>1, <2>2, AheadOfMore, Distinct
      <3>2. f[at] = g[at] /\ Ahead(l, f[at], v.at + 1)
        BY <3>1 DEF Agree, Rules
      <3> HIDE DEF at
      <3>3. /\ AfterItem(l, f, v) = Before(v.value, f[at])
            /\ AfterItem(l, g, v) = Before(v.value, g[at])
        BY <2>2 DEF AfterItem, at
      <3>4. Before(v.value, f[at]).at = f[at].at
        BY ReadIs, Zenon
      <3>5. \A x : x \in v.at + 1..Len(l) + 1 => x \in p..Len(l) + 1
        BY <1>1, <3>1
      <3>6. Ahead(l, Before(v.value, f[at]), p)
        BY <3>2, <3>4, <3>5 DEF Ahead
      <3> QED
        BY <2>1, <3>2, <3>3, <3>6
    <2>3. CASE Peek(l, v.at) # Comma
      <3>1. /\ AfterItem(l, f, v) = Read(<<v.value>>, v.at)
            /\ AfterItem(l, g, v) = Read(<<v.value>>, v.at)
        BY <2>3 DEF AfterItem
      <3> QED
        BY <1>1, <2>1, <3>1, ReadIs DEF Ahead
    <2> QED
      BY <2>2, <2>3
  <1> QED
    BY <1>2, <1>3

(* Which rule is which. *)
LEMMA RuleTurns ==
    ASSUME NEW l, NEW q, NEW p
    PROVE  /\ RuleFrom(l, q, "value", p) = ValueFrom(l, q, p)
           /\ RuleFrom(l, q, "fields", p) =
                 ResultsFrom(l, q, p, "fields", {CloseTuple})
           /\ RuleFrom(l, q, "items", p) = ItemsFrom(l, q, p)
           /\ RuleFrom(l, q, "results", p) = ResultsFrom(l, q, p, "results", {})
  BY DEF RuleFrom

(* So it is with every rule. *)
LEMMA RuleAdvances ==
    ASSUME NEW l \in Line, NEW p \in 1..Len(l) + 1, NEW f, NEW g, Agree(l, p, f, g),
           NEW rule \in Rules
    PROVE  /\ RuleFrom(l, f, rule, p) = RuleFrom(l, g, rule, p)
           /\ Ahead(l, RuleFrom(l, f, rule, p), p)
  <1>1. CASE rule = "value"
    BY <1>1, RuleTurns, ValueAdvances
  <1>2. CASE rule = "items"
    BY <1>2, RuleTurns, ItemsAdvance
  <1>3. CASE rule = "fields"
    BY <1>3, RuleTurns, ResultsAdvance
  <1>4. CASE rule = "results"
    BY <1>4, RuleTurns, ResultsAdvance
  <1> QED
    BY <1>1, <1>2, <1>3, <1>4 DEF Rules

(* The descent ends: every rule reads from every position. *)
LEMMA NestedIsThere ==
    ASSUME NEW l \in Line
    PROVE  /\ Nested(l) = [at \in Rules \X (1..Len(l) + 1) |->
                              RuleFrom(l, Nested(l), at[1], at[2])]
  <1> DEFINE m == Len(l) + 1
             Reads(f, n) ==
                /\ f = [at \in Rules \X (m + 1 - n..m) |->
                           RuleFrom(l, f, at[1], at[2])]
                /\ \A rule \in Rules, i \in m + 1 - n..m :
                      Ahead(l, f[<<rule, i>>], i)
             T == {n \in Nat : n <= m => \E f : Reads(f, n)}
  <1>1. Len(l) \in Nat
    BY LineIs
  <1>2. 0 \in T
    <2> DEFINE f == [at \in Rules \X (m + 1 - 0..m) |-> Error]
    <2>1. m + 1 - 0..m = {}
      BY <1>1
    <2>2. Reads(f, 0)
      BY <2>1
    <2> QED
      BY <2>2
  <1>3. ASSUME NEW n \in T PROVE n + 1 \in T
    <2>1. n \in Nat
      OBVIOUS
    <2> HIDE DEF Reads
    <2> SUFFICES ASSUME n + 1 <= m PROVE \E g : Reads(g, n + 1)
      BY <2>1
    <2>2. PICK f : Reads(f, n)
      BY <1>1, <2>1
    <2> USE DEF Reads
    <2> DEFINE k == m - n
               g == [at \in Rules \X (k..m) |->
                        IF at[2] = k THEN RuleFrom(l, f, at[1], k) ELSE f[at]]
    <2>3. k \in 1..m /\ m + 1 - n = k + 1 /\ m + 1 - (n + 1) = k
      BY <1>1, <2>1
    <2> HIDE DEF k
    <2>4. /\ f = [at \in Rules \X (k + 1..m) |-> RuleFrom(l, f, at[1], at[2])]
          /\ \A rule \in Rules, i \in k + 1..m : Ahead(l, f[<<rule, i>>], i)
      BY <2>2, <2>3, Zenon
    <2>5. \A rule \in Rules, i \in k + 1..m : g[<<rule, i>>] = f[<<rule, i>>]
      <3>1. \A i \in k + 1..m : i \in k..m /\ i # k
        BY <1>1, <2>3
      <3> QED
        BY <3>1
    <2>6. \A rule \in Rules : g[<<rule, k>>] = RuleFrom(l, f, rule, k)
      <3>1. k \in k..m
        BY <1>1, <2>3
      <3> QED
        BY <3>1
    <2>7. \A rule \in Rules, i \in k + 1..m :
             f[<<rule, i>>] = RuleFrom(l, f, rule, i)
      BY <2>4
    <2>8. \A i \in k..m : Agree(l, i, f, g)
      <3>1. \A i \in k..m : \A j \in i + 1..m : j \in k + 1..m
        BY <1>1, <2>3
      <3> HIDE DEF g
      <3> QED
        BY <2>4, <2>5, <3>1 DEF Agree
    <2>9. ASSUME NEW rule \in Rules, NEW i \in k..m
          PROVE  /\ g[<<rule, i>>] = RuleFrom(l, g, rule, i)
                 /\ Ahead(l, g[<<rule, i>>], i)
      <3>1. i \in 1..Len(l) + 1
        BY <1>1, <2>3
      <3> HIDE DEF g
      <3>2. /\ RuleFrom(l, f, rule, i) = RuleFrom(l, g, rule, i)
            /\ Ahead(l, RuleFrom(l, f, rule, i), i)
        BY <2>8, <3>1, RuleAdvances
      <3>3. g[<<rule, i>>] = RuleFrom(l, f, rule, i)
        <4>1. i = k \/ i \in k + 1..m
          BY <1>1, <2>3
        <4> QED
          BY <2>5, <2>6, <2>7, <4>1
      <3> QED
        BY <3>2, <3>3
    <2>10. g = [at \in Rules \X (k..m) |-> RuleFrom(l, g, at[1], at[2])]
      <3> DEFINE h == [at \in Rules \X (k..m) |-> RuleFrom(l, g, at[1], at[2])]
      <3>1. ASSUME NEW at \in Rules \X (k..m) PROVE g[at] = h[at]
        <4>1. PICK rule \in Rules, i \in k..m : at = <<rule, i>>
          OBVIOUS
        <4> HIDE DEF g
        <4>2. g[<<rule, i>>] = RuleFrom(l, g, rule, i)
          BY <2>9
        <4> QED
          BY <4>1, <4>2
      <3> QED
        BY <3>1
    <2> HIDE DEF g
    <2>11. Reads(g, n + 1)
      BY <2>3, <2>9, <2>10
    <2> QED
      BY <2>11
  <1>4. m \in T
    <2> HIDE DEF T
    <2>1. T \subseteq Nat
      BY DEF T
    <2>2. m \in Nat
      BY <1>1
    <2> QED
      BY <1>2, <1>3, <2>1, <2>2, Induction
  <1>5. \E f : f = [at \in Rules \X (1..m) |-> RuleFrom(l, f, at[1], at[2])]
    <2> HIDE DEF Reads
    <2>1. PICK f : Reads(f, m)
      BY <1>1, <1>4
    <2> USE DEF Reads
    <2>2. m + 1 - m = 1
      BY <1>1
    <2> QED
      BY <2>1, <2>2, Zenon
  <1> QED
    BY <1>5, Zenon DEF Nested

(* What each rule reads at a position, in terms of what the rules read      *)
(* later.                                                                   *)
LEMMA NestedAt ==
    ASSUME NEW l \in Line, NEW p \in 1..Len(l) + 1
    PROVE  LET q == Nested(l)
           IN  /\ q[<<"value", p>>] = ValueFrom(l, q, p)
               /\ q[<<"fields", p>>] =
                     ResultsFrom(l, q, p, "fields", {CloseTuple})
               /\ q[<<"items", p>>] = ItemsFrom(l, q, p)
               /\ q[<<"results", p>>] = ResultsFrom(l, q, p, "results", {})
  <1> DEFINE q == Nested(l)
  <1>1. q = [at \in Rules \X (1..Len(l) + 1) |-> RuleFrom(l, q, at[1], at[2])]
    BY NestedIsThere
  <1> HIDE DEF q
  <1>2. \A rule \in Rules : q[<<rule, p>>] = RuleFrom(l, q, rule, p)
    BY <1>1
  <1>3. \A rule \in {"value", "fields", "items", "results"} :
           q[<<rule, p>>] = RuleFrom(l, q, rule, p)
    BY <1>2 DEF Rules
  <1> QED
    BY <1>3, RuleTurns DEF q

(* A value that begins with a quote is a string. *)
LEMMA QuoteTurns ==
    ASSUME NEW l \in Line, NEW p \in 1..Len(l) + 1, Peek(l, p) = Quote
    PROVE  Nested(l)[<<"value", p>>] = CString(l, p)
  <1> DEFINE q == Nested(l)
  <1>1. q[<<"value", p>>] = ValueFrom(l, q, p)
    BY NestedAt
  <1> HIDE DEF q
  <1>2. ValueFrom(l, q, p) = CString(l, p)
    BY ValueTurns, Zenon
  <1> QED
    BY <1>1, <1>2 DEF q

-----------------------------------------------------------------------------
(* Names (parser.py:164-169, 236-240). *)

(* A name is a line of identifier characters, and not the absence of a      *)
(* name.                                                                    *)
LEMMA NamesAre ==
    ASSUME NEW n, IsName(n)
    PROVE  /\ n \in Line /\ Len(n) \in Nat \ {0} /\ n # Keyless
           /\ \A i \in 1..Len(n) : n[i] \in IdentifierPart
           /\ n[1] \in IdentifierStart
  <1>1. n \in Seq(IdentifierPart) /\ n # <<>> /\ n[1] \in IdentifierStart
    BY DEF IsName
  <1>2. \A i \in 1..Len(n) : n[i] \in IdentifierPart
    BY <1>1
  <1>3. IdentifierPart \subseteq Character
    BY CharacterIs DEF Syntax
  <1>4. n \in Line
    BY <1>1, <1>3 DEF Line
  <1>5. Len(n) \in Nat \ {0}
    BY <1>1
  <1> QED
    BY <1>1, <1>2, <1>4, <1>5 DEF Keyless

(* A name that another character follows is read as an identifier. *)
LEMMA NameIsRead ==
    ASSUME NEW l \in Line, NEW p \in 1..Len(l) + 1, NEW n, IsName(n), At(l, p, n),
           Peek(l, p + Len(n)) \notin IdentifierPart
    PROVE  /\ Identifier(l, p) = Read(n, p + Len(n))
           /\ Past(l, p, IdentifierPart) = p + Len(n)
           /\ Peek(l, p) \in IdentifierStart
  <1>1. /\ Len(n) \in Nat \ {0} /\ Len(l) \in Nat /\ n \in Line
        /\ \A i \in 1..Len(n) : n[i] \in IdentifierPart
        /\ n[1] \in IdentifierStart
    BY NamesAre, LineIs
  <1>2. /\ p + Len(n) - 1 <= Len(l)
        /\ \A i \in 1..Len(n) : l[p + i - 1] = n[i]
    BY DEF At
  <1> DEFINE q == p + Len(n)
  <1>3. q \in p..Len(l) + 1
    BY <1>1, <1>2
  <1>4. \A r \in p..q - 1 : Peek(l, r) \in IdentifierPart
    <2> SUFFICES ASSUME NEW r \in p..q - 1 PROVE Peek(l, r) \in IdentifierPart
      OBVIOUS
    <2>1. r - p + 1 \in 1..Len(n) /\ p + (r - p + 1) - 1 = r /\ r \in 1..Len(l)
      BY <1>1, <1>2
    <2>2. l[r] = n[r - p + 1]
      BY <1>2, <2>1
    <2> QED
      BY <1>1, <2>1, <2>2, LineIs
  <1>5. Past(l, p, IdentifierPart) = q
    BY <1>3, <1>4, PastIsThere, NoIdentifier
  <1>6. Peek(l, p) \in IdentifierStart
    <2>1. 1 \in 1..Len(n) /\ p + 1 - 1 = p /\ p \in 1..Len(l)
      BY <1>1, <1>2
    <2>2. l[p] = n[1]
      BY <1>2, <2>1
    <2> QED
      BY <1>1, <2>1, <2>2, LineIs
  <1>7. SubSeq(l, p, q - 1) = n
    <2>1. l \in Seq(Character) /\ n \in Seq(Character)
      BY <1>1 DEF Line
    <2>2. p \in 1..Len(l) /\ q - 1 \in p..Len(l)
      BY <1>1, <1>2
    <2>3. /\ Len(SubSeq(l, p, q - 1)) = Len(n)
          /\ SubSeq(l, p, q - 1) \in Seq(Character)
          /\ \A i \in 1..Len(n) : SubSeq(l, p, q - 1)[i] = l[p + i - 1]
      BY <1>1, <2>1, <2>2, SubSeqProperties
    <2> HIDE DEF q
    <2> DEFINE s == SubSeq(l, p, q - 1)
    <2>4. \A i \in 1..Len(n) : s[i] = n[i]
      BY <1>2, <2>3
    <2> HIDE DEF s
    <2>5. s \in Seq(Character) /\ Len(s) = Len(n)
      BY <2>3 DEF s
    <2>6. s = n
      BY <2>1, <2>4, <2>5, SeqEqual
    <2> QED
      BY <2>6 DEF s
  <1> QED
    BY <1>5, <1>6, <1>7, Zenon DEF Identifier

(* "name=" *)
LEMMA KeyIsRead ==
    ASSUME NEW l \in Line, NEW p \in 1..Len(l) + 1, NEW n, IsName(n),
           At(l, p, n), At(l, p + Len(n), <<"=">>),
           p + Len(n) \in 1..Len(l) + 1
    PROVE  /\ Identifier(l, p) = Read(n, p + Len(n))
           /\ Peek(l, p + Len(n)) = "="
           /\ p + Len(n) + 1 \in 1..Len(l) + 1
           /\ NextValueIsResult(l, p)
  <1>1. Peek(l, p + Len(n)) = "=" /\ p + Len(n) + 1 \in 1..Len(l) + 1
    BY AtOne
  <1>2. Peek(l, p + Len(n)) \notin IdentifierPart
    BY <1>1, NoIdentifier
  <1>3. /\ Identifier(l, p) = Read(n, p + Len(n))
        /\ Past(l, p, IdentifierPart) = p + Len(n)
        /\ Peek(l, p) \in IdentifierStart
    BY <1>2, NameIsRead
  <1> QED
    BY <1>1, <1>3 DEF NextValueIsResult

(* A name cut short is read to the end of the line. *)
LEMMA KeyIsTorn ==
    ASSUME NEW l \in Line, NEW p \in 1..Len(l), NEW n, IsName(n),
           Cut(l, p, n \o <<"=">>)
    PROVE  /\ Identifier(l, p).at = Len(l) + 1
           /\ Past(l, p, IdentifierPart) = Len(l) + 1
           /\ Peek(l, Len(l) + 1) = EndOfLine
           /\ ~NextValueIsResult(l, p)
           /\ Peek(l, p) \in IdentifierStart
           /\ \A r \in p..Len(l) : Peek(l, r) \in IdentifierPart
  <1>1. /\ Len(n) \in Nat \ {0} /\ Len(l) \in Nat /\ n \in Line
        /\ \A i \in 1..Len(n) : n[i] \in IdentifierPart
        /\ n[1] \in IdentifierStart
    BY NamesAre, LineIs
  <1>2. p \in 1..Len(l) + 1
    BY <1>1
  <1>3. /\ Len(l) + 1 - p <= Len(n)
        /\ \A i \in 1..Len(l) + 1 - p : l[p + i - 1] = n[i]
    <2>1. "=" \in Character
      BY CharacterIs DEF Syntax
    <2>2. <<"=">> \in Line /\ Len(<<"=">>) = 1
      BY <2>1, OneIsALine
    <2> DEFINE z == <<"=">>
    <2> HIDE DEF z
    <2>3. /\ Len(n \o z) = Len(n) + 1
          /\ \A i \in 1..Len(n) : (n \o z)[i] = n[i]
      BY <1>1, <2>2, ConcatProperties DEF Line, z
    <2>4. Cut(l, p, n \o z)
      BY DEF z
    <2> QED
      BY <1>1, <2>3, <2>4 DEF Cut
  <1>4. ASSUME NEW r \in p..Len(l) PROVE Peek(l, r) \in IdentifierPart
    <2>1. /\ r - p + 1 \in 1..Len(n) /\ r - p + 1 \in 1..Len(l) + 1 - p
          /\ p + (r - p + 1) - 1 = r /\ r \in 1..Len(l)
      BY <1>1, <1>3
    <2>2. l[r] = n[r - p + 1]
      BY <1>3, <2>1
    <2> QED
      BY <1>1, <2>1, <2>2, LineIs
  <1>5. Peek(l, p) \in IdentifierStart
    <2>1. 1 \in 1..Len(l) + 1 - p /\ p + 1 - 1 = p
      BY <1>1
    <2>2. l[p] = n[1]
      BY <1>3, <2>1
    <2> QED
      BY <1>1, <2>2, LineIs
  <1> DEFINE q == Len(l) + 1
  <1>6. Peek(l, q) = EndOfLine
    <2>1. q \notin 1..Len(l)
      BY <1>1
    <2> QED
      BY <2>1, LineIs
  <1>7. Past(l, p, IdentifierPart) = q
    <2>1. q \in p..Len(l) + 1 /\ \A r \in p..q - 1 : r \in p..Len(l)
      BY <1>1
    <2> QED
      BY <1>2, <1>4, <1>6, <2>1, PastIsThere, NoIdentifier
  <1>8. Identifier(l, p).at = q
    <2>1. Identifier(l, p) = Read(SubSeq(l, p, q - 1), q)
      BY <1>5, <1>7 DEF Identifier
    <2> QED
      BY <2>1, ReadIs
  <1>9. ~NextValueIsResult(l, p)
    BY <1>6, <1>7, Distinct DEF NextValueIsResult
  <1> QED
    BY <1>4, <1>5, <1>6, <1>7, <1>8, <1>9

-----------------------------------------------------------------------------
(* The entries of a record, a tuple or a list. *)

(* Wherever the text stands the parser reads the value, and where the line *)
(* ends within the text it reads nothing.                                  *)
Readable(text, value) ==
    /\ text \in Line /\ text # <<>>
    /\ text[1] \in {Quote, OpenTuple, OpenList}
    /\ \A l \in Line : \A p \in 1..Len(l) + 1 :
          /\ At(l, p, text) =>
                Nested(l)[<<"value", p>>] = Read(value, p + Len(text))
          /\ Cut(l, p, text) => Nested(l)[<<"value", p>>].at = Nowhere

ReadableEntry(e) ==
    Readable(e.text, e.value) /\ (e.key = Keyless \/ IsName(e.key))

(* What stands in a line, even in part, shows its first character. *)
LEMMA BeginsAlike ==
    ASSUME NEW l \in Line, NEW p \in 1..Len(l) + 1, NEW s \in Line, s # <<>>,
           At(l, p, s) \/ (Cut(l, p, s) /\ p # Len(l) + 1)
    PROVE  p \in 1..Len(l) /\ Peek(l, p) = s[1]
  <1>1. Len(l) \in Nat /\ Len(s) \in Nat \ {0}
    BY DEF Line
  <1>2. p + 1 - 1 = p
    BY <1>1
  <1>3. CASE At(l, p, s)
    <2>1. 1 \in 1..Len(s) /\ p \in 1..Len(l)
      BY <1>1, <1>3 DEF At
    <2>2. l[p] = s[1]
      BY <1>2, <1>3, <2>1 DEF At
    <2> QED
      BY <2>1, <2>2, LineIs
  <1>4. CASE Cut(l, p, s) /\ p # Len(l) + 1
    <2>1. 1 \in 1..Len(l) + 1 - p /\ p \in 1..Len(l)
      BY <1>1, <1>4
    <2>2. l[p] = s[1]
      BY <1>2, <1>4, <2>1 DEF Cut
    <2> QED
      BY <2>1, <2>2, LineIs
  <1> QED
    BY <1>3, <1>4

(* An entry's text begins with its name and "=", if it has one. *)
LEMMA KeyedIs ==
    ASSUME NEW e, ReadableEntry(e)
    PROVE  /\ Keyed(e) \in Line /\ Keyed(e) # <<>>
           /\ Keyed(e)[1] \in IdentifierStart \cup {Quote, OpenTuple, OpenList}
           /\ e.text \in Line /\ Len(e.text) \in Nat
           /\ e.key = Keyless => Keyed(e) = e.text
           /\ e.key # Keyless =>
                 /\ e.key \in Line /\ Len(e.key) \in Nat
                 /\ <<"=">> \in Line /\ Len(<<"=">>) = 1
                 /\ e.key \o <<"=">> \in Line
                 /\ Len(e.key \o <<"=">>) = Len(e.key) + 1
                 /\ Keyed(e) = (e.key \o <<"=">>) \o e.text
                 /\ Len(Keyed(e)) = Len(e.key) + 1 + Len(e.text)
  <1>1. /\ e.text \in Line /\ e.text # <<>> /\ Len(e.text) \in Nat
        /\ e.text[1] \in {Quote, OpenTuple, OpenList}
    BY DEF ReadableEntry, Readable, Line
  <1>2. CASE e.key = Keyless
    BY <1>1, <1>2 DEF Keyed
  <1>3. CASE e.key # Keyless
    <2>1. /\ e.key \in Line /\ Len(e.key) \in Nat \ {0}
          /\ e.key[1] \in IdentifierStart
      BY <1>3, NamesAre DEF ReadableEntry
    <2>2. "=" \in Character
      BY CharacterIs DEF Syntax
    <2>3. <<"=">> \in Line /\ Len(<<"=">>) = 1
      BY <2>2, OneIsALine
    <2>4. Keyed(e) = (e.key \o <<"=">>) \o e.text
      BY <1>3, Zenon DEF Keyed
    <2> DEFINE z == <<"=">>
               a == e.key \o z
    <2> HIDE DEF z
    <2>5. a \in Line /\ Len(a) = Len(e.key) + 1 /\ a[1] = e.key[1]
      <3>1. z \in Line /\ Len(z) = 1
        BY <2>3 DEF z
      <3> QED
        BY <2>1, <3>1, LinesJoin, ConcatProperties, SMTT(30) DEF Line
    <2> HIDE DEF a
    <2>6. /\ a \o e.text \in Line
          /\ Len(a \o e.text) = Len(a) + Len(e.text)
          /\ (a \o e.text)[1] = e.key[1]
      <3>1. a \o e.text \in Line /\ Len(a \o e.text) = Len(a) + Len(e.text)
        BY <1>1, <2>5, LinesJoin
      <3>2. 1 <= Len(a) /\ 1 \in 1..Len(a) + Len(e.text)
        <4> DEFINE k == Len(e.key)
                   n == Len(e.text)
                   j == Len(a)
        <4>1. k \in Nat \ {0} /\ n \in Nat /\ j = k + 1
          BY <1>1, <2>1, <2>5, Zenon
        <4> HIDE DEF k, n, j
        <4>2. 1 <= j /\ 1 \in 1..j + n
          BY <4>1
        <4> QED
          BY <4>2 DEF j, n
      <3>3. (a \o e.text)[1] = a[1]
        BY <1>1, <2>5, <3>2, ConcatProperties DEF Line
      <3> QED
        BY <2>5, <3>1, <3>3
    <2>7. Keyed(e) = a \o e.text
      BY <2>4 DEF a, z
    <2>8. Keyed(e) # <<>>
      BY <1>1, <2>1, <2>5, <2>6, <2>7
    <2> QED
      BY <1>1, <1>3, <2>1, <2>3, <2>4, <2>5, <2>6, <2>7, <2>8 DEF a, z
  <1> QED
    BY <1>2, <1>3

(* _parse_result reads an entry with a name back, *)
LEMMA ResultIsRead ==
    ASSUME NEW l \in Line, NEW p \in 1..Len(l) + 1, NEW e, ReadableEntry(e),
           e.key # Keyless, At(l, p, Keyed(e))
    PROVE  /\ ResultFrom(l, Nested(l), p) =
                 Read([k \in {e.key} |-> e.value], p + Len(Keyed(e)))
           /\ NextValueIsResult(l, p)
           /\ p + Len(Keyed(e)) \in 1..Len(l) + 1
  <1> DEFINE z == <<"=">>
             q == Nested(l)
  <1> HIDE DEF z, q
  <1>1. /\ e.key \in Line /\ Len(e.key) \in Nat /\ z \in Line /\ Len(z) = 1
        /\ e.key \o z \in Line /\ Len(e.key \o z) = Len(e.key) + 1
        /\ Keyed(e) = (e.key \o z) \o e.text /\ e.text \in Line
        /\ Len(Keyed(e)) = Len(e.key) + 1 + Len(e.text)
        /\ Len(e.text) \in Nat /\ IsName(e.key) /\ Len(l) \in Nat
    BY KeyedIs, LineIs DEF ReadableEntry, z
  <1> DEFINE a == e.key \o z
  <1>2. /\ At(l, p, a) /\ p + Len(a) \in 1..Len(l) + 1
        /\ At(l, p + Len(a), e.text)
    <2>1. At(l, p, a \o e.text)
      BY <1>1
    <2> HIDE DEF a
    <2> QED
      BY <1>1, <2>1, AtBoth DEF Line, a
  <1>3. /\ At(l, p, e.key) /\ p + Len(e.key) \in 1..Len(l) + 1
        /\ At(l, p + Len(e.key), z)
    BY <1>1, <1>2, AtBoth DEF Line
  <1>4. /\ Identifier(l, p) = Read(e.key, p + Len(e.key))
        /\ Peek(l, p + Len(e.key)) = "="
        /\ NextValueIsResult(l, p)
    BY <1>1, <1>3, KeyIsRead DEF z
  <1> DEFINE r == p + Len(e.key) + 1
  <1>5. r \in 1..Len(l) + 1 /\ At(l, r, e.text) /\ r = p + Len(a)
    <2>1. r = p + Len(a)
      BY <1>1
    <2> QED
      BY <1>2, <2>1
  <1>6. q[<<"value", r>>] = Read(e.value, r + Len(e.text))
    <2> HIDE DEF r
    <2> QED
      BY <1>5 DEF q, ReadableEntry, Readable
  <1>7. ResultFrom(l, q, p) = Entry(e.key, q[<<"value", r>>])
    <2>1. Identifier(l, p).at = p + Len(e.key) /\ Identifier(l, p).value = e.key
      BY <1>4, ReadOf
    <2> QED
      BY <1>4, <2>1, Zenon DEF ResultFrom, AfterKey
  <1>8. Entry(e.key, q[<<"value", r>>]) =
           Read([k \in {e.key} |-> e.value], r + Len(e.text))
    <2> DEFINE v == q[<<"value", r>>]
    <2>1. v.value = e.value /\ v.at = r + Len(e.text)
      <3>1. v = Read(e.value, r + Len(e.text))
        BY <1>6
      <3> HIDE DEF v, r
      <3> QED
        BY <3>1, ReadOf, Zenon
    <2> HIDE DEF v
    <2> QED
      BY <2>1, Zenon DEF Entry, v
  <1>9. r + Len(e.text) = p + Len(Keyed(e))
    <2> DEFINE k == Len(e.key)
               n == Len(e.text)
    <2>1. k \in Nat /\ n \in Nat /\ Len(Keyed(e)) = k + 1 + n
      BY <1>1
    <2> HIDE DEF k, n
    <2>2. p + k + 1 + n = p + (k + 1 + n)
      BY <1>1, <2>1
    <2> QED
      BY <2>1, <2>2, Zenon DEF k, n
  <1>10. r + Len(e.text) \in 1..Len(l) + 1
    <2> DEFINE n == Len(e.text)
    <2>1. r + n - 1 <= Len(l) /\ n \in Nat /\ r \in 1..Len(l) + 1
      BY <1>1, <1>5, Zenon DEF At
    <2> HIDE DEF r, n
    <2>2. r + n \in 1..Len(l) + 1
      BY <1>1, <2>1
    <2> QED
      BY <2>2 DEF n
  <1> QED
    BY <1>4, <1>7, <1>8, <1>9, <1>10, Zenon DEF q

(* and refuses it cut short. *)
LEMMA ResultIsTorn ==
    ASSUME NEW l \in Line, NEW p \in 1..Len(l), NEW e, ReadableEntry(e),
           e.key # Keyless, Cut(l, p, Keyed(e))
    PROVE  ResultFrom(l, Nested(l), p).at = Nowhere
  <1> DEFINE z == <<"=">>
             q == Nested(l)
             a == e.key \o z
  <1> HIDE DEF z, q
  <1>1. /\ e.key \in Line /\ Len(e.key) \in Nat /\ z \in Line /\ Len(z) = 1
        /\ a \in Line /\ Len(a) = Len(e.key) + 1
        /\ Keyed(e) = a \o e.text /\ e.text \in Line
        /\ Len(e.text) \in Nat /\ IsName(e.key) /\ Len(l) \in Nat
    BY KeyedIs, LineIs DEF ReadableEntry, z
  <1>2. p \in 1..Len(l) + 1
    BY <1>1
  <1>3. \/ Cut(l, p, a)
        \/ /\ At(l, p, a) /\ p + Len(a) \in 1..Len(l) + 1
           /\ Cut(l, p + Len(a), e.text)
    <2>1. Cut(l, p, a \o e.text)
      BY <1>1
    <2> HIDE DEF a
    <2> QED
      BY <1>1, <1>2, <2>1, CutInOne DEF Line
  <1>4. CASE Cut(l, p, a)
    <2>1. Identifier(l, p).at = Len(l) + 1 /\ Peek(l, Len(l) + 1) = EndOfLine
      BY <1>1, <1>4, KeyIsTorn DEF z
    <2>2. ResultFrom(l, q, p) = Error
      BY <2>1, Distinct DEF ResultFrom, AfterKey
    <2> QED
      BY <2>2, ReadIs DEF q
  <1>5. CASE /\ At(l, p, a) /\ p + Len(a) \in 1..Len(l) + 1
             /\ Cut(l, p + Len(a), e.text)
    <2>1. /\ At(l, p, e.key) /\ p + Len(e.key) \in 1..Len(l) + 1
          /\ At(l, p + Len(e.key), z)
      BY <1>1, <1>2, <1>5, AtBoth DEF Line
    <2>2. /\ Identifier(l, p) = Read(e.key, p + Len(e.key))
          /\ Peek(l, p + Len(e.key)) = "="
      BY <1>1, <1>2, <2>1, KeyIsRead DEF z
    <2> DEFINE r == p + Len(e.key) + 1
    <2>3. r = p + Len(a)
      BY <1>1
    <2>4. r \in 1..Len(l) + 1 /\ Cut(l, r, e.text)
      BY <1>5, <2>3
    <2>5. q[<<"value", r>>].at = Nowhere
      <3> HIDE DEF r
      <3> QED
        BY <2>4 DEF q, ReadableEntry, Readable
    <2>6. ResultFrom(l, q, p) = Entry(e.key, q[<<"value", r>>])
      <3>1. Identifier(l, p).at = p + Len(e.key) /\ Identifier(l, p).value = e.key
        BY <2>2, ReadOf
      <3> QED
        BY <2>2, <3>1, Zenon DEF ResultFrom, AfterKey
    <2>7. Entry(e.key, q[<<"value", r>>]).at = Nowhere
      BY <2>5, ReadIs, Zenon DEF Entry
    <2> QED
      BY <2>6, <2>7 DEF q
  <1> QED
    BY <1>3, <1>4, <1>5

(* A name cut short in a list is a bare value to the end of the line, *)
LEMMA BareIsTorn ==
    ASSUME NEW l \in Line, NEW p \in 1..Len(l),
           \A r \in p..Len(l) : Peek(l, r) \in IdentifierPart
    PROVE  BareValue(l, p).at = Len(l) + 1
  <1> DEFINE class == Characters(l) \ {Comma, CloseList, CloseTuple}
             q == Len(l) + 1
  <1>1. /\ Len(l) \in Nat /\ EndOfLine \notin class /\ p \in 1..Len(l) + 1
        /\ q \in p..Len(l) + 1 /\ p # q /\ q \notin 1..Len(l)
    BY LineIs DEF Characters
  <1>2. Peek(l, q) \notin class
    BY <1>1, LineIs
  <1>3. ASSUME NEW r \in p..q - 1 PROVE Peek(l, r) \in class
    <2>1. r \in p..Len(l) /\ r \in 1..Len(l)
      BY <1>1
    <2>2. Peek(l, r) \in IdentifierPart /\ Peek(l, r) \in Characters(l)
      BY <2>1, LineIs DEF Characters
    <2>3. Peek(l, r) \notin {Comma, CloseList, CloseTuple}
      BY <2>2, NoIdentifier
    <2> QED
      BY <2>2, <2>3
  <1> HIDE DEF class
  <1>4. Past(l, p, class) = q
    BY <1>1, <1>2, <1>3, PastIsThere
  <1>5. BareValue(l, p) = TextUpTo(l, p, q)
    BY <1>4 DEF BareValue, class
  <1> HIDE DEF q
  <1>6. TextUpTo(l, p, q).at = q
    BY <1>1, ReadIs, Zenon DEF TextUpTo
  <1> QED
    BY <1>5, <1>6 DEF q

(* An item is read back with its name or without, *)
LEMMA ItemIsRead ==
    ASSUME NEW l \in Line, NEW p \in 1..Len(l) + 1, NEW e, ReadableEntry(e),
           At(l, p, Keyed(e))
    PROVE  ItemFrom(l, Nested(l), p) = Read(Item(e), p + Len(Keyed(e)))
  <1> DEFINE q == Nested(l)
             n == p + Len(Keyed(e))
  <1>1. CASE e.key = Keyless
    <2>1. Keyed(e) = e.text /\ Keyed(e) \in Line /\ Keyed(e) # <<>>
      BY <1>1, KeyedIs
    <2>2. e.text[1] \in {Quote, OpenTuple, OpenList}
      BY DEF ReadableEntry, Readable
    <2>3. Peek(l, p) \in {Quote, OpenTuple, OpenList}
      BY <2>1, <2>2, BeginsAlike
    <2>4. ~NextValueIsResult(l, p)
      BY <2>3, NoIdentifier DEF NextValueIsResult
    <2>5. q[<<"value", p>>] = Read(e.value, n)
      BY <2>1 DEF ReadableEntry, Readable
    <2>6. q[<<"value", p>>] = ValueFrom(l, q, p)
      BY NestedAt
    <2>7. ItemFrom(l, q, p) = ValueFrom(l, q, p)
      BY <2>4, Zenon DEF ItemFrom
    <2>8. Item(e) = e.value
      BY <1>1 DEF Item
    <2> QED
      BY <2>5, <2>6, <2>7, <2>8
  <1>2. CASE e.key # Keyless
    <2>1. /\ ResultFrom(l, q, p) = Read([k \in {e.key} |-> e.value], n)
          /\ NextValueIsResult(l, p)
      BY <1>2, ResultIsRead
    <2> HIDE DEF q, n
    <2>2. ItemFrom(l, q, p) = AsDict(ResultFrom(l, q, p))
      BY <2>1, Zenon DEF ItemFrom
    <2> DEFINE r == ResultFrom(l, q, p)
    <2>3. r.value = [k \in {e.key} |-> e.value] /\ r.at = n
      BY <2>1, ReadOf
    <2> HIDE DEF r
    <2>4. AsDict(r) = Read(Dict([k \in {e.key} |-> e.value]), n)
      BY <2>3, Zenon DEF AsDict
    <2>5. Item(e) = Dict([k \in {e.key} |-> e.value])
      BY <1>2, Zenon DEF Item
    <2> QED
      BY <2>2, <2>4, <2>5, Zenon DEF q, n, r
  <1> QED
    BY <1>1, <1>2

(* and cut short it is refused or ends the line, so that its list is not    *)
(* closed.                                                                  *)
LEMMA ItemIsTorn ==
    ASSUME NEW l \in Line, NEW p \in 1..Len(l), NEW e, ReadableEntry(e),
           Cut(l, p, Keyed(e))
    PROVE  ItemFrom(l, Nested(l), p).at \in {Nowhere, Len(l) + 1}
  <1> DEFINE q == Nested(l)
  <1>0. p \in 1..Len(l) + 1 /\ p # Len(l) + 1
    BY LineIs
  <1>1. CASE e.key = Keyless
    <2>1. Keyed(e) = e.text /\ Keyed(e) \in Line /\ Keyed(e) # <<>>
      BY <1>1, KeyedIs
    <2>2. e.text[1] \in {Quote, OpenTuple, OpenList}
      BY DEF ReadableEntry, Readable
    <2>3. Peek(l, p) \in {Quote, OpenTuple, OpenList}
      BY <1>0, <2>1, <2>2, BeginsAlike
    <2>4. ~NextValueIsResult(l, p)
      BY <2>3, NoIdentifier DEF NextValueIsResult
    <2>5. q[<<"value", p>>].at = Nowhere
      BY <1>0, <2>1 DEF ReadableEntry, Readable
    <2>6. q[<<"value", p>>] = ValueFrom(l, q, p)
      BY <1>0, NestedAt
    <2>7. ItemFrom(l, q, p) = ValueFrom(l, q, p)
      BY <2>4, Zenon DEF ItemFrom
    <2> QED
      BY <2>5, <2>6, <2>7
  <1>2. CASE e.key # Keyless /\ NextValueIsResult(l, p)
    <2>1. ResultFrom(l, q, p).at = Nowhere
      BY <1>2, ResultIsTorn
    <2>2. ItemFrom(l, q, p) = AsDict(ResultFrom(l, q, p))
      BY <1>2, Zenon DEF ItemFrom
    <2>3. AsDict(ResultFrom(l, q, p)).at = ResultFrom(l, q, p).at
      BY ReadIs, Zenon DEF AsDict
    <2> QED
      BY <2>1, <2>2, <2>3
  <1>3. CASE e.key # Keyless /\ ~NextValueIsResult(l, p)
    <2> DEFINE z == <<"=">>
               a == e.key \o z
    <2> HIDE DEF z
    <2>1. /\ e.key \in Line /\ z \in Line /\ a \in Line /\ e.text \in Line
          /\ Keyed(e) = a \o e.text /\ IsName(e.key)
      BY <1>3, KeyedIs DEF ReadableEntry, z
    <2>2. Cut(l, p, a) \/ At(l, p, a)
      <3>1. Cut(l, p, a \o e.text)
        BY <2>1
      <3> HIDE DEF a
      <3> QED
        BY <1>0, <2>1, <3>1, CutInOne DEF Line
    <2>3. ~At(l, p, a)
      <3>1. SUFFICES ASSUME At(l, p, a) PROVE FALSE
        OBVIOUS
      <3>2. /\ At(l, p, e.key) /\ p + Len(e.key) \in 1..Len(l) + 1
            /\ At(l, p + Len(e.key), z)
        BY <1>0, <2>1, <3>1, AtBoth DEF Line
      <3>3. NextValueIsResult(l, p)
        BY <1>0, <2>1, <3>2, KeyIsRead DEF z
      <3> QED
        BY <1>3, <3>3
    <2>4. /\ Peek(l, p) \in IdentifierStart
          /\ \A r \in p..Len(l) : Peek(l, r) \in IdentifierPart
      BY <2>1, <2>2, <2>3, KeyIsTorn DEF z
    <2>5. ItemFrom(l, q, p) = ValueFrom(l, q, p)
      BY <1>3, Zenon DEF ItemFrom
    <2>6. ValueFrom(l, q, p) = BareValue(l, p)
      <3>1. Peek(l, p) \notin {Quote, OpenTuple, OpenList}
        BY <2>4, NoIdentifier
      <3> QED
        BY <3>1, ValueTurns
    <2>7. BareValue(l, p).at = Len(l) + 1
      BY <2>4, BareIsTorn
    <2> QED
      BY <2>5, <2>6, <2>7
  <1> QED
    BY <1>1, <1>2, <1>3

-----------------------------------------------------------------------------
(* A dict of results: the last of the entries with equal keys counts       *)
(* (parser.py:97-106).                                                     *)

(* A sequence, over whatever set. *)
IsSeq(s) == s \in Seq({s[i] : i \in DOMAIN s})

(* The last of the entries n to m with key k, and the dict of the entries  *)
(* n to m.                                                                 *)
LastIn(es, n, m, k) ==
    CHOOSE i \in n..m : es[i].key = k /\ \A j \in i + 1..m : es[j].key # k
Between(es, n, m) ==
    [k \in {es[i].key : i \in n..m} |-> es[LastIn(es, n, m, k)].value]

(* The dict of one entry. *)
Single(e) == [k \in {e.key} |-> e.value]

(* Of the entries n to m with a key there is a last one, *)
LEMMA LastInIs ==
    ASSUME NEW es, NEW n \in Nat, NEW m \in Nat, NEW k,
           k \in {es[i].key : i \in n..m}
    PROVE  LET i == LastIn(es, n, m, k)
           IN  i \in n..m /\ es[i].key = k /\ \A j \in i + 1..m : es[j].key # k
  <1> DEFINE S == {d \in Nat : m - d \in n..m /\ es[m - d].key = k}
  <1>1. S # {}
    <2>1. PICK i \in n..m : es[i].key = k
      OBVIOUS
    <2>2. m - i \in Nat /\ m - (m - i) = i
      BY <2>1
    <2> QED
      BY <2>1, <2>2
  <1>2. PICK d \in S : \A x \in S : d <= x
    <2> HIDE DEF S
    <2>1. S \subseteq Nat
      BY DEF S
    <2> QED
      BY <1>1, <2>1, Least
  <1>3. m - d \in n..m /\ es[m - d].key = k /\ d \in Nat
    BY <1>2
  <1>4. ASSUME NEW j \in m - d + 1..m PROVE es[j].key # k
    <2>1. m - j \in Nat /\ m - (m - j) = j /\ j \in n..m /\ m - j < d
      BY <1>3
    <2>2. m - j \notin S
      BY <1>2, <1>3, <2>1
    <2> QED
      BY <2>1, <2>2
  <1>5. \E i \in n..m : es[i].key = k /\ \A j \in i + 1..m : es[j].key # k
    BY <1>3, <1>4
  <1> QED
    BY <1>5, Zenon DEF LastIn

(* and only one. *)
LEMMA LastIsOne ==
    ASSUME NEW es, NEW n \in Nat, NEW m \in Nat, NEW k, NEW i \in n..m,
           es[i].key = k, \A j \in i + 1..m : es[j].key # k
    PROVE  LastIn(es, n, m, k) = i
  <1> DEFINE x == LastIn(es, n, m, k)
  <1>1. x \in n..m /\ es[x].key = k /\ \A j \in x + 1..m : es[j].key # k
    BY LastInIs
  <1> HIDE DEF x
  <1>2. ~(x < i)
    <2>1. x < i => i \in x + 1..m
      BY <1>1
    <2> QED
      BY <1>1, <2>1
  <1>3. ~(i < x)
    <2>1. i < x => x \in i + 1..m
      BY <1>1
    <2> QED
      BY <1>1, <2>1
  <1> QED
    BY <1>1, <1>2, <1>3 DEF x

(* No entries make the empty dict, *)
LEMMA BetweenNone ==
    ASSUME NEW es, NEW n \in Nat, NEW m \in Nat, m < n
    PROVE  Between(es, n, m) = NoEntries
  <1>1. n..m = {}
    OBVIOUS
  <1>2. {es[i].key : i \in n..m} = {}
    BY <1>1
  <1> QED
    BY <1>2 DEF Between, NoEntries

(* one a dict of one key, *)
LEMMA BetweenOne ==
    ASSUME NEW es, NEW n \in Nat
    PROVE  Between(es, n, n) = Single(es[n])
  <1>1. n..n = {n}
    OBVIOUS
  <1>2. {es[i].key : i \in n..n} = {es[n].key}
    BY <1>1
  <1>3. LastIn(es, n, n, es[n].key) = n
    BY <1>1, <1>2, LastInIs
  <1> QED
    BY <1>2, <1>3, Zenon DEF Between, Single

(* and an entry before others is overwritten by those with its key. *)
LEMMA BetweenMore ==
    ASSUME NEW es, NEW n \in Nat, NEW m \in Nat, n <= m
    PROVE  Between(es, n, m) =
              Assigned(Single(es[n]), Between(es, n + 1, m))
  <1> DEFINE K == {es[i].key : i \in n + 1..m}
             a == [k \in {es[n].key} |-> es[n].value]
             b == Between(es, n + 1, m)
  <1>1. n..m = {n} \cup (n + 1..m)
    OBVIOUS
  <1>2. {es[i].key : i \in n..m} = {es[n].key} \cup K
    BY <1>1
  <1>3. b = [k \in K |-> es[LastIn(es, n + 1, m, k)].value]
    BY DEF Between
  <1>4. Assigned(a, b) =
           [k \in {es[n].key} \cup K |-> IF k \in K THEN b[k] ELSE a[k]]
    <2>1. DOMAIN a = {es[n].key} /\ DOMAIN b = K
      BY <1>3, Zenon
    <2> HIDE DEF a, b, K
    <2> QED
      BY <2>1, Zenon DEF Assigned
  <1>5. ASSUME NEW k \in K
        PROVE  es[LastIn(es, n, m, k)].value = b[k]
    <2> DEFINE i == LastIn(es, n + 1, m, k)
    <2>1. i \in n + 1..m /\ es[i].key = k /\ \A j \in i + 1..m : es[j].key # k
      BY LastInIs
    <2> HIDE DEF i
    <2>2. i \in n..m
      BY <1>1, <2>1
    <2>3. LastIn(es, n, m, k) = i
      BY <2>1, <2>2, LastIsOne
    <2> QED
      BY <1>3, <2>3 DEF i
  <1>6. ASSUME NEW k \in {es[n].key}, k \notin K
        PROVE  es[LastIn(es, n, m, k)].value = a[k]
    <2>1. \A j \in n + 1..m : es[j].key # k
      BY <1>6
    <2>2. n \in n..m
      OBVIOUS
    <2>3. LastIn(es, n, m, k) = n
      BY <2>1, <2>2, LastIsOne
    <2> QED
      BY <2>3
  <1>7. \A k \in {es[n].key} \cup K :
           es[LastIn(es, n, m, k)].value = IF k \in K THEN b[k] ELSE a[k]
    <2> HIDE DEF a, b, K
    <2> QED
      BY <1>5, <1>6
  <1> HIDE DEF a, b, K
  <1>8. Between(es, n, m) =
           [k \in {es[n].key} \cup K |-> IF k \in K THEN b[k] ELSE a[k]]
    BY <1>2, <1>7, Zenon DEF Between
  <1> QED
    BY <1>4, <1>8 DEF a, b, Single

(* The dict of the first m entries, by position. *)
LEMMA DictIs ==
    ASSUME NEW es, IsSeq(es), NEW m \in 0..Len(es)
    PROVE  DictOf(SubSeq(es, 1, m)) = Between(es, 1, m)
  <1> DEFINE S == {es[i] : i \in DOMAIN es}
             s == SubSeq(es, 1, m)
             K == {es[i].key : i \in 1..m}
  <1>1. /\ es \in Seq(S) /\ Len(es) \in Nat /\ m \in Nat
        /\ \A i \in 1..m : i \in 1..Len(es)
    BY DEF IsSeq
  <1>2. DOMAIN s = 1..m /\ \A i \in 1..m : s[i] = es[i]
    <2> HIDE DEF S
    <2> QED
      BY <1>1
  <1> HIDE DEF s, S
  <1>3. {s[i].key : i \in DOMAIN s} = K
    BY <1>2
  <1>4. ASSUME NEW k \in K
        PROVE  s[LastOf(s, k)].value = es[LastIn(es, 1, m, k)].value
    <2> DEFINE i == LastIn(es, 1, m, k)
               x == LastOf(s, k)
    <2>1. i \in 1..m /\ es[i].key = k /\ \A j \in i + 1..m : es[j].key # k
      BY <1>1, LastInIs
    <2> HIDE DEF i
    <2>2. s[i].key = k /\ \A j \in DOMAIN s : j > i => s[j].key # k
      <3>1. \A j \in 1..m : j > i => j \in i + 1..m
        BY <1>1, <2>1
      <3> QED
        BY <1>2, <2>1, <3>1
    <2>3. x \in DOMAIN s /\ s[x].key = k /\ \A j \in DOMAIN s : j > x => s[j].key # k
      <3>1. i \in DOMAIN s
        BY <1>2, <2>1
      <3> QED
        BY <2>2, <3>1, Zenon DEF LastOf
    <2> HIDE DEF x
    <2>4. x \in 1..m /\ es[x].key = k
      BY <1>2, <2>3
    <2>5. \A j \in x + 1..m : es[j].key # k
      <3>1. \A j \in x + 1..m : j \in 1..m /\ j > x
        BY <1>1, <2>4
      <3> QED
        BY <1>2, <2>3, <3>1
    <2>6. i = x
      BY <1>1, <2>4, <2>5, LastIsOne DEF i
    <2> QED
      BY <1>2, <2>4, <2>6 DEF i, x
  <1> HIDE DEF K
  <1>5. DictOf(s) = [k \in K |-> s[LastOf(s, k)].value]
    BY <1>3, Zenon DEF DictOf
  <1>6. Between(es, 1, m) = [k \in K |-> es[LastIn(es, 1, m, k)].value]
    BY Zenon DEF Between, K
  <1> QED
    BY <1>4, <1>5, <1>6, Zenon DEF s

-----------------------------------------------------------------------------
(* The entries of a level are read back from each of them on, and where    *)
(* the line is torn the whole entries before are (parser.py:97-150).       *)

Entries(es) == IsSeq(es) /\ \A i \in DOMAIN es : ReadableEntry(es[i])

Separator == <<Comma>>

(* The entries of a level are a sequence of readable ones. *)
LEMMA EntriesAre ==
    ASSUME NEW es, Entries(es)
    PROVE  /\ Len(es) \in Nat /\ DOMAIN es = 1..Len(es)
           /\ \A n \in 1..Len(es) : ReadableEntry(es[n]) /\ Keyed(es[n]) \in Line
           /\ Separator \in Line
  <1>1. es \in Seq({es[i] : i \in DOMAIN es})
    BY DEF Entries, IsSeq
  <1>2. Len(es) \in Nat /\ DOMAIN es = 1..Len(es)
    BY <1>1
  <1>3. \A n \in 1..Len(es) : ReadableEntry(es[n])
    BY <1>2 DEF Entries
  <1>4. Comma \in Character
    BY CharacterIs DEF Syntax
  <1> QED
    BY <1>2, <1>3, <1>4, KeyedIs, OneIsALine DEF Separator

(* What stands behind the n-th entry. *)
LEMMA PartsAre ==
    ASSUME NEW es, Entries(es)
    PROVE  LET w == Together(Parts(es))
           IN  /\ w[Len(es) + 1] = <<>>
               /\ \A n \in 1..Len(es) + 1 : w[n] \in Line
               /\ Len(es) \in 1..Len(es) => w[Len(es)] = Keyed(es[Len(es)])
               /\ \A n \in 1..Len(es) - 1 :
                     w[n] = Keyed(es[n]) \o (Separator \o w[n + 1])
  <1> DEFINE w == Together(Parts(es))
             z == <<Comma>>
             m == Len(es)
             ps == Parts(es)
  <1>1. /\ m \in Nat /\ DOMAIN es = 1..m /\ z \in Line
        /\ \A n \in 1..m : Keyed(es[n]) \in Line
    BY EntriesAre DEF Separator
  <1>2. ps = [n \in 1..m |-> IF n = m THEN Keyed(es[n]) ELSE Keyed(es[n]) \o z]
    BY <1>1, Zenon DEF Parts
  <1> HIDE DEF z
  <1>3. \A n \in 1..m : ps[n] \in Line
    <2>1. \A n \in 1..m : Keyed(es[n]) \o z \in Line
      BY <1>1, LinesJoin
    <2> HIDE DEF m, ps
    <2> QED
      BY <1>1, <1>2, <2>1
  <1>4. ps \in Seq(Line) /\ Len(ps) = m
    <2> HIDE DEF m, ps
    <2>1. ps \in [1..m -> Line]
      BY <1>2, <1>3
    <2> QED
      BY <1>1, <2>1
  <1>5. /\ w[m + 1] = <<>>
        /\ \A n \in 1..m : w[n] = ps[n] \o w[n + 1]
        /\ \A n \in 1..m + 1 : w[n] \in Line
    BY <1>4, TogetherIs
  <1> HIDE DEF ps, w
  <1>6. ASSUME m \in 1..m PROVE w[m] = Keyed(es[m])
    <2> HIDE DEF m
    <2>1. w[m] = Keyed(es[m]) \o <<>> /\ Keyed(es[m]) \in Line
      BY <1>1, <1>2, <1>5, <1>6
    <2> QED
      BY <2>1, ConcatEmptySeq DEF Line
  <1>7. ASSUME NEW n \in 1..m - 1
        PROVE  w[n] = Keyed(es[n]) \o (z \o w[n + 1])
    <2> HIDE DEF m
    <2>1. n \in 1..m /\ n # m /\ n + 1 \in 1..m + 1
      BY <1>1
    <2>2. w[n] = ps[n] \o w[n + 1] /\ w[n + 1] \in Line /\ Keyed(es[n]) \in Line
      BY <1>1, <1>5, <2>1
    <2>3. ps[n] = Keyed(es[n]) \o z
      BY <1>2, <2>1
    <2>4. (Keyed(es[n]) \o z) \o w[n + 1] = Keyed(es[n]) \o (z \o w[n + 1])
      BY <1>1, <2>2, LinesAssociate
    <2> QED
      BY <2>2, <2>3, <2>4, Zenon
  <1> QED
    BY <1>5, <1>6, <1>7 DEF w, z, Separator

(* An entry, the comma behind it and the rest. *)
LEMMA EntryAndRest ==
    ASSUME NEW l \in Line, NEW p \in 1..Len(l) + 1, NEW a \in Line, NEW b \in Line,
           Separator \in Line
    PROVE  /\ At(l, p, a \o (Separator \o b)) =>
                 /\ At(l, p, a) /\ p + Len(a) \in 1..Len(l) + 1
                 /\ Peek(l, p + Len(a)) = Comma
                 /\ p + Len(a) + 1 \in 1..Len(l) + 1
                 /\ At(l, p + Len(a) + 1, b)
                 /\ p + Len(a) + 1 + Len(b) = p + Len(a \o (Separator \o b))
           /\ Cut(l, p, a \o (Separator \o b)) =>
                 \/ Cut(l, p, a)
                 \/ /\ At(l, p, a) /\ p + Len(a) = Len(l) + 1
                    /\ Peek(l, p + Len(a)) = EndOfLine
                 \/ /\ At(l, p, a) /\ p + Len(a) \in 1..Len(l) + 1
                    /\ Peek(l, p + Len(a)) = Comma
                    /\ p + Len(a) + 1 \in 1..Len(l) + 1
                    /\ Cut(l, p + Len(a) + 1, b)
  <1> DEFINE z == <<Comma>>
  <1>1. Len(z) = 1 /\ z \in Line
    BY DEF Separator
  <1> HIDE DEF z
  <1> DEFINE c == z \o b
             k == Len(a)
             j == Len(b)
  <1>2. c \in Line /\ Len(c) = 1 + j /\ Len(a \o c) = k + Len(c)
    BY <1>1, LinesJoin
  <1>3. k \in Nat /\ j \in Nat /\ Len(l) \in Nat
    BY LineIs
  <1> HIDE DEF c
  <1>4. ASSUME At(l, p, a \o c)
        PROVE  /\ At(l, p, a) /\ p + k \in 1..Len(l) + 1
               /\ Peek(l, p + k) = Comma
               /\ p + k + 1 \in 1..Len(l) + 1
               /\ At(l, p + k + 1, b)
               /\ p + k + 1 + j = p + Len(a \o c)
    <2>1. At(l, p, a) /\ p + k \in 1..Len(l) + 1 /\ At(l, p + k, c)
      BY <1>2, <1>4, AtBoth DEF Line
    <2>2. At(l, p + k, z) /\ At(l, p + k + 1, b)
      BY <1>1, <2>1, AtBoth DEF Line, c
    <2>3. Peek(l, p + k) = Comma /\ p + k + 1 \in 1..Len(l) + 1
      BY <2>1, <2>2, AtOne DEF z
    <2> HIDE DEF k, j
    <2>4. p + k + 1 + j = p + (k + (1 + j))
      BY <1>3
    <2> QED
      BY <1>2, <2>1, <2>2, <2>3, <2>4 DEF k, j
  <1>5. ASSUME Cut(l, p, a \o c)
        PROVE  \/ Cut(l, p, a)
               \/ /\ At(l, p, a) /\ p + k = Len(l) + 1
                  /\ Peek(l, p + k) = EndOfLine
               \/ /\ At(l, p, a) /\ p + k \in 1..Len(l) + 1
                  /\ Peek(l, p + k) = Comma
                  /\ p + k + 1 \in 1..Len(l) + 1
                  /\ Cut(l, p + k + 1, b)
    <2>1. \/ Cut(l, p, a)
          \/ At(l, p, a) /\ p + k \in 1..Len(l) + 1 /\ Cut(l, p + k, c)
      BY <1>2, <1>5, CutInOne DEF Line
    <2>2. ASSUME At(l, p, a), p + k \in 1..Len(l) + 1, Cut(l, p + k, c)
          PROVE  \/ p + k = Len(l) + 1 /\ Peek(l, p + k) = EndOfLine
                 \/ /\ Peek(l, p + k) = Comma
                    /\ p + k + 1 \in 1..Len(l) + 1
                    /\ Cut(l, p + k + 1, b)
      <3>1. \/ Cut(l, p + k, z)
            \/ At(l, p + k, z) /\ Cut(l, p + k + 1, b)
        BY <1>1, <2>2, CutInOne DEF Line, c
      <3>2. CASE Cut(l, p + k, z)
        BY <2>2, <3>2, CutOne DEF z
      <3>3. CASE At(l, p + k, z) /\ Cut(l, p + k + 1, b)
        BY <2>2, <3>3, AtOne DEF z
      <3> QED
        BY <3>1, <3>2, <3>3
    <2> QED
      BY <2>1, <2>2
  <1> QED
    BY <1>4, <1>5 DEF c, z, Separator

(* An entry a, a comma and the others b, as u stands from p on. *)
EntryAt(l, p, a, b, u) ==
    /\ At(l, p, a) /\ p + Len(a) \in 1..Len(l) + 1
    /\ Peek(l, p + Len(a)) = Comma
    /\ p + Len(a) + 1 \in 1..Len(l) + 1
    /\ At(l, p + Len(a) + 1, b)
    /\ p + Len(a) + 1 + Len(b) = p + Len(u)

(* The same, for an entry that stands there whole, by name. *)
LEMMA EntryThenRest ==
    ASSUME NEW l \in Line, NEW p \in 1..Len(l) + 1, NEW a \in Line, NEW b \in Line,
           Separator \in Line, At(l, p, a \o (Separator \o b))
    PROVE  EntryAt(l, p, a, b, a \o (Separator \o b))
  BY EntryAndRest, ZenonT(40) DEF EntryAt

(* The rules that read results, and what ends them. *)
ResultRules == {"fields", "results"}
EndOf(rule) == IF rule = "fields" THEN CloseTuple ELSE EndOfLine

(* What _parse_result_list does at its end and before a result. *)
LEMMA ResultsTurn ==
    ASSUME NEW l \in Line, NEW p \in 1..Len(l) + 1, NEW rule \in ResultRules
    PROVE  LET q == Nested(l)
           IN  /\ Peek(l, p) \in {EndOf(rule), EndOfLine} =>
                     q[<<rule, p>>] = Read(NoEntries, p)
               /\ Peek(l, p) \notin {CloseTuple, EndOfLine} =>
                     q[<<rule, p>>] = AfterResult(l, q, ResultFrom(l, q, p), rule)
               /\ EndOf(rule) # Comma
  <1> DEFINE q == Nested(l)
  <1>1. CASE rule = "fields"
    <2>1. q[<<"fields", p>>] = ResultsFrom(l, q, p, "fields", {CloseTuple})
      BY NestedAt
    <2>2. EndOf("fields") = CloseTuple
      BY DEF EndOf
    <2> HIDE DEF q
    <2>3. /\ Peek(l, p) \in {CloseTuple, EndOfLine} =>
                q[<<"fields", p>>] = Read(NoEntries, p)
          /\ Peek(l, p) \notin {CloseTuple, EndOfLine} =>
                q[<<"fields", p>>] = AfterResult(l, q, ResultFrom(l, q, p), "fields")
      BY <2>1 DEF ResultsFrom
    <2> QED
      BY <1>1, <2>2, <2>3, Distinct DEF q
  <1>2. CASE rule = "results"
    <2>1. q[<<"results", p>>] = ResultsFrom(l, q, p, "results", {})
      BY NestedAt
    <2>2. EndOf("results") = EndOfLine
      BY DEF EndOf
    <2> HIDE DEF q
    <2>3. /\ Peek(l, p) = EndOfLine => q[<<"results", p>>] = Read(NoEntries, p)
          /\ Peek(l, p) # EndOfLine =>
                q[<<"results", p>>] = AfterResult(l, q, ResultFrom(l, q, p), "results")
      BY <2>1 DEF ResultsFrom
    <2> QED
      BY <1>2, <2>2, <2>3, Distinct DEF q
  <1> QED
    BY <1>1, <1>2 DEF ResultRules

(* An entry begins with none of the characters that end a list of them. *)
LEMMA EntryBegins ==
    ASSUME NEW l \in Line, NEW p \in 1..Len(l) + 1, NEW e, ReadableEntry(e),
           At(l, p, Keyed(e)) \/ (Cut(l, p, Keyed(e)) /\ p # Len(l) + 1)
    PROVE  /\ p \in 1..Len(l)
           /\ Peek(l, p) \notin {CloseTuple, CloseList, Comma, EndOfLine}
  <1>1. /\ Keyed(e) \in Line /\ Keyed(e) # <<>>
        /\ Keyed(e)[1] \in IdentifierStart \cup {Quote, OpenTuple, OpenList}
    BY KeyedIs
  <1>2. p \in 1..Len(l) /\ Peek(l, p) = Keyed(e)[1]
    BY <1>1, BeginsAlike
  <1>3. \A c \in IdentifierStart \cup {Quote, OpenTuple, OpenList} :
           c \notin {CloseTuple, CloseList, Comma, EndOfLine}
    BY NoIdentifier, Distinct
  <1> QED
    BY <1>1, <1>2, <1>3

(* One result of a list of results is read, and then the others; *)
LEMMA FieldIsRead ==
    ASSUME NEW l \in Line, NEW p \in 1..Len(l) + 1, NEW rule \in ResultRules,
           NEW e, ReadableEntry(e), e.key # Keyless, At(l, p, Keyed(e))
    PROVE  LET q == Nested(l)
               d == [k \in {e.key} |-> e.value]
               n == p + Len(Keyed(e))
           IN  /\ n \in 1..Len(l) + 1
               /\ Peek(l, n) # Comma => q[<<rule, p>>] = Read(d, n)
               /\ Peek(l, n) = Comma =>
                     q[<<rule, p>>] =
                        Read(Assigned(d, q[<<rule, n + 1>>].value),
                             q[<<rule, n + 1>>].at)
  <1> DEFINE q == Nested(l)
             d == [k \in {e.key} |-> e.value]
             n == p + Len(Keyed(e))
             r == ResultFrom(l, q, p)
  <1>1. r = Read(d, n) /\ n \in 1..Len(l) + 1
    BY ResultIsRead
  <1>2. q[<<rule, p>>] = AfterResult(l, q, r, rule)
    BY EntryBegins, ResultsTurn
  <1> HIDE DEF q, d, n, r
  <1>3. r.value = d /\ r.at = n
    BY <1>1, ReadOf
  <1>4. Peek(l, n) # Comma => AfterResult(l, q, r, rule) = r
    BY <1>3, Zenon DEF AfterResult
  <1>5. Peek(l, n) = Comma =>
           AfterResult(l, q, r, rule) =
              Read(Assigned(d, q[<<rule, n + 1>>].value), q[<<rule, n + 1>>].at)
    BY <1>3, Zenon DEF AfterResult, Joining
  <1> QED
    BY <1>1, <1>2, <1>4, <1>5, Zenon DEF q, d, n

(* the last one ends them, *)
LEMMA FieldIsLast ==
    ASSUME NEW l \in Line, NEW p \in 1..Len(l) + 1, NEW rule \in ResultRules,
           NEW e, ReadableEntry(e), e.key # Keyless, NEW a, a = Keyed(e),
           At(l, p, a), Peek(l, p + Len(a)) # Comma
    PROVE  Nested(l)[<<rule, p>>] =
              Read(Single(e), p + Len(a))
  BY FieldIsRead DEF Single

(* and one before a comma does not. *)
LEMMA FieldGoesOn ==
    ASSUME NEW l \in Line, NEW p \in 1..Len(l) + 1, NEW rule \in ResultRules,
           NEW e, ReadableEntry(e), e.key # Keyless, NEW a, a = Keyed(e),
           At(l, p, a), Peek(l, p + Len(a)) = Comma, NEW s, s = p + Len(a) + 1
    PROVE  LET q == Nested(l)
           IN  q[<<rule, p>>] =
                  Read(Assigned(Single(e), q[<<rule, s>>].value),
                       q[<<rule, s>>].at)
  BY FieldIsRead DEF Single

(* A result cut short makes its list unreadable. *)
LEMMA FieldIsTorn ==
    ASSUME NEW l \in Line, NEW p \in 1..Len(l), NEW rule \in ResultRules,
           NEW e, ReadableEntry(e), e.key # Keyless, Cut(l, p, Keyed(e))
    PROVE  Nested(l)[<<rule, p>>].at = Nowhere
  <1> DEFINE q == Nested(l)
             r == ResultFrom(l, q, p)
  <1>1. r.at = Nowhere
    BY ResultIsTorn
  <1>2. q[<<rule, p>>] = AfterResult(l, q, r, rule)
    <2>1. p \in 1..Len(l) + 1 /\ p # Len(l) + 1
      BY LineIs
    <2> QED
      BY <2>1, EntryBegins, ResultsTurn
  <1> HIDE DEF q, r
  <1>3. Peek(l, Nowhere) # Comma
    <2>1. Nowhere \notin 1..Len(l)
      BY DEF Nowhere
    <2> QED
      BY <2>1, LineIs, Distinct
  <1>4. AfterResult(l, q, r, rule) = r
    BY <1>1, <1>3 DEF AfterResult
  <1> QED
    BY <1>1, <1>2, <1>4 DEF q

(* From each entry on, the rest of a list of results is read back; *)
LEMMA FieldsAreRead ==
    ASSUME NEW l \in Line, NEW rule \in ResultRules, NEW es, Entries(es),
           \A i \in DOMAIN es : es[i].key # Keyless,
           NEW n \in 1..Len(es) + 1, NEW p \in 1..Len(l) + 1,
           At(l, p, Together(Parts(es))[n]),
           Peek(l, p + Len(Together(Parts(es))[n])) \in {EndOf(rule), EndOfLine}
    PROVE  Nested(l)[<<rule, p>>] =
              Read(Between(es, n, Len(es)), p + Len(Together(Parts(es))[n]))
  <1> DEFINE w == Together(Parts(es))
             q == Nested(l)
             m == Len(es)
             Reads(i) ==
                \A r \in 1..Len(l) + 1 :
                    At(l, r, w[i]) /\ Peek(l, r + Len(w[i])) \in {EndOf(rule), EndOfLine} =>
                        q[<<rule, r>>] = Read(Between(es, i, m), r + Len(w[i]))
             S == {i \in 1..m + 1 : Reads(i)}
  <1>1. /\ m \in Nat /\ Len(l) \in Nat /\ Separator \in Line
        /\ \A i \in 1..m :
              ReadableEntry(es[i]) /\ Keyed(es[i]) \in Line /\ es[i].key # Keyless
    BY EntriesAre, LineIs
  <1>2. Reads(m + 1)
    <2>1. w[m + 1] = <<>> /\ Len(<<>>) = 0
      BY PartsAre
    <2>2. Between(es, m + 1, m) = NoEntries
      BY <1>1, BetweenNone
    <2> SUFFICES ASSUME NEW r \in 1..Len(l) + 1, Peek(l, r) \in {EndOf(rule), EndOfLine}
                 PROVE  q[<<rule, r>>] = Read(NoEntries, r)
      <3>1. \A r \in 1..Len(l) + 1 : r + 0 = r
        BY <1>1
      <3> QED
        BY <2>1, <2>2, <3>1
    <2> QED
      BY ResultsTurn
  <1>3. ASSUME NEW i \in 1..m, i + 1 \in S PROVE Reads(i)
    <2> SUFFICES ASSUME NEW r \in 1..Len(l) + 1, At(l, r, w[i]),
                        Peek(l, r + Len(w[i])) \in {EndOf(rule), EndOfLine}
                 PROVE  q[<<rule, r>>] = Read(Between(es, i, m), r + Len(w[i]))
      OBVIOUS
    <2> DEFINE a == Keyed(es[i])
               d == Single(es[i])
    <2>1. ReadableEntry(es[i]) /\ a \in Line /\ es[i].key # Keyless
      BY <1>1
    <2> HIDE DEF w
    <2>2. CASE i = m
      <3>1. w[i] = a
        BY <2>2, PartsAre DEF w
      <3>2. Peek(l, r + Len(a)) # Comma
        BY <3>1, ResultsTurn, Distinct
      <3>3. q[<<rule, r>>] = Read(d, r + Len(a))
        <4>1. At(l, r, a)
          BY <3>1
        <4> QED
          BY <2>1, <3>2, <4>1, FieldIsLast
      <3>4. Between(es, i, i) = d
        <4>1. i \in Nat
          BY <1>1
        <4> QED
          BY <4>1, BetweenOne
      <3> QED
        BY <2>2, <3>1, <3>3, <3>4
    <2>3. CASE i # m
      <3> DEFINE b == w[i + 1]
                 s == r + Len(a) + 1
      <3>1. i \in 1..m - 1 /\ i + 1 \in 1..m + 1 /\ i \in Nat /\ i <= m
        BY <1>1, <2>3
      <3>2. w[i] = a \o (Separator \o b) /\ b \in Line
        BY <3>1, PartsAre DEF w
      <3> HIDE DEF a, b
      <3>3. /\ At(l, r, a) /\ r + Len(a) \in 1..Len(l) + 1
            /\ Peek(l, r + Len(a)) = Comma
            /\ s \in 1..Len(l) + 1 /\ At(l, s, b)
            /\ s + Len(b) = r + Len(w[i])
        <4>1. At(l, r, a \o (Separator \o b))
          BY <3>2
        <4>2. EntryAt(l, r, a, b, a \o (Separator \o b))
          BY <1>1, <2>1, <3>2, <4>1, EntryThenRest, Zenon
        <4> QED
          BY <3>2, <4>2, Zenon DEF EntryAt
      <3>4. q[<<rule, s>>] = Read(Between(es, i + 1, m), s + Len(b))
        <4>1. Reads(i + 1)
          BY <1>3
        <4> HIDE DEF s
        <4> QED
          BY <3>3, <4>1 DEF b
      <3>5. q[<<rule, r>>] =
               Read(Assigned(d, q[<<rule, s>>].value), q[<<rule, s>>].at)
        BY <2>1, <3>3, FieldGoesOn DEF a
      <3>6. Between(es, i, m) = Assigned(d, Between(es, i + 1, m))
        BY <1>1, <3>1, BetweenMore
      <3> HIDE DEF s, d
      <3>7. q[<<rule, s>>].value = Between(es, i + 1, m) /\ q[<<rule, s>>].at = s + Len(b)
        BY <3>4, ReadOf
      <3> QED
        BY <3>3, <3>5, <3>6, <3>7, Zenon
    <2> QED
      BY <2>2, <2>3
  <1> HIDE DEF Reads
  <1>4. m + 1 \in S
    BY <1>1, <1>2
  <1>5. ASSUME NEW i \in 1..m + 1 - 1, i + 1 \in S PROVE i \in S
    <2>1. i \in 1..m /\ i \in 1..m + 1
      BY <1>1
    <2> QED
      BY <1>3, <1>5, <2>1
  <1>6. \A i \in 1..m + 1 : i \in S
    <2> DEFINE j == m + 1
    <2>1. j \in Nat /\ j \in S /\ \A i \in 1..j - 1 : i + 1 \in S => i \in S
      BY <1>1, <1>4, <1>5
    <2> HIDE DEF S, j
    <2>2. \A i \in 1..j : i \in S
      BY <2>1, Downward
    <2> QED
      BY <2>2 DEF j
  <1>7. Reads(n)
    BY <1>6
  <1> QED
    BY <1>7 DEF Reads

(* cut short it is unreadable or loses whole results from its end. *)
LEMMA FieldsAreTorn ==
    ASSUME NEW l \in Line, NEW rule \in ResultRules, NEW es, Entries(es),
           \A i \in DOMAIN es : es[i].key # Keyless,
           NEW n \in 1..Len(es) + 1, NEW p \in 1..Len(l) + 1,
           Cut(l, p, Together(Parts(es))[n])
    PROVE  LET r == Nested(l)[<<rule, p>>]
           IN  \/ r.at = Nowhere
               \/ \E m \in n - 1..Len(es) - 1 :
                     r = Read(Between(es, n, m), Len(l) + 1)
  <1> DEFINE w == Together(Parts(es))
             q == Nested(l)
             N == Len(es)
             Lost(i, r) ==
                \/ q[<<rule, r>>].at = Nowhere
                \/ \E m \in i - 1..N - 1 :
                      q[<<rule, r>>] = Read(Between(es, i, m), Len(l) + 1)
             Torn(i) == \A r \in 1..Len(l) + 1 : Cut(l, r, w[i]) => Lost(i, r)
             S == {i \in 1..N + 1 : Torn(i)}
  <1>1. /\ N \in Nat /\ Len(l) \in Nat /\ Separator \in Line
        /\ \A i \in 1..N :
              ReadableEntry(es[i]) /\ Keyed(es[i]) \in Line /\ es[i].key # Keyless
    BY EntriesAre, LineIs
  <1>2. Torn(N + 1)
    <2>1. w[N + 1] = <<>> /\ Len(<<>>) = 0
      BY PartsAre
    <2>2. \A r \in 1..Len(l) + 1 : ~Cut(l, r, <<>>)
      BY <1>1, <2>1 DEF Cut
    <2> QED
      BY <2>1, <2>2
  <1>3. ASSUME NEW i \in 1..N, i + 1 \in S PROVE Torn(i)
    <2> SUFFICES ASSUME NEW r \in 1..Len(l) + 1, Cut(l, r, w[i])
                 PROVE  Lost(i, r)
      OBVIOUS
    <2> DEFINE a == Keyed(es[i])
               d == Single(es[i])
               b == w[i + 1]
               s == r + Len(a) + 1
    <2>1. ReadableEntry(es[i]) /\ a \in Line /\ es[i].key # Keyless /\ i \in Nat
      BY <1>1
    <2> HIDE DEF w
    <2>2. CASE r = Len(l) + 1
      <3>1. Peek(l, r) = EndOfLine
        <4>1. r \notin 1..Len(l)
          BY <1>1, <2>2
        <4> QED
          BY <4>1, LineIs
      <3>2. q[<<rule, r>>] = Read(NoEntries, r)
        BY <3>1, ResultsTurn
      <3>3. i - 1 \in i - 1..N - 1 /\ i - 1 \in Nat /\ i - 1 < i
        BY <1>1
      <3>4. Between(es, i, i - 1) = NoEntries
        BY <2>1, <3>3, BetweenNone
      <3> HIDE DEF q
      <3>5. q[<<rule, r>>] = Read(Between(es, i, i - 1), Len(l) + 1)
        BY <2>2, <3>2, <3>4
      <3> QED
        BY <3>3, <3>5
    <2>3. ASSUME r # Len(l) + 1, Cut(l, r, a) PROVE Lost(i, r)
      <3>1. r \in 1..Len(l)
        BY <1>1, <2>3
      <3>2. q[<<rule, r>>].at = Nowhere
        BY <2>1, <2>3, <3>1, FieldIsTorn
      <3> QED
        BY <3>2
    <2>4. CASE r # Len(l) + 1 /\ i = N
      <3>1. w[i] = a
        BY <2>4, PartsAre DEF w
      <3> QED
        BY <2>3, <2>4, <3>1
    <2>5. CASE r # Len(l) + 1 /\ i # N
      <3>1. i \in 1..N - 1 /\ i + 1 \in 1..N + 1 /\ i <= N
        BY <1>1, <2>5
      <3>2. w[i] = a \o (Separator \o b) /\ b \in Line
        BY <3>1, PartsAre DEF w
      <3> HIDE DEF a, b
      <3>3. \/ Cut(l, r, a)
            \/ /\ At(l, r, a) /\ r + Len(a) = Len(l) + 1
               /\ Peek(l, r + Len(a)) = EndOfLine
            \/ /\ At(l, r, a) /\ r + Len(a) \in 1..Len(l) + 1
               /\ Peek(l, r + Len(a)) = Comma
               /\ s \in 1..Len(l) + 1 /\ Cut(l, s, b)
        <4>1. Cut(l, r, a \o (Separator \o b))
          BY <3>2
        <4> QED
          BY <1>1, <2>1, <3>2, <4>1, EntryAndRest, Zenon
      <3>4. CASE Cut(l, r, a)
        BY <2>3, <2>5, <3>4
      <3>5. CASE /\ At(l, r, a) /\ r + Len(a) = Len(l) + 1
                 /\ Peek(l, r + Len(a)) = EndOfLine
        <4>1. Peek(l, r + Len(a)) # Comma
          BY <3>5, Distinct
        <4>2. q[<<rule, r>>] = Read(d, r + Len(a))
          BY <2>1, <3>5, <4>1, FieldIsLast DEF a
        <4>3. Between(es, i, i) = d
          BY <2>1, BetweenOne
        <4>4. i \in i - 1..N - 1
          BY <1>1, <3>1
        <4> HIDE DEF q, d
        <4>5. q[<<rule, r>>] = Read(Between(es, i, i), Len(l) + 1)
          BY <3>5, <4>2, <4>3
        <4> QED
          BY <4>4, <4>5
      <3>6. CASE /\ At(l, r, a) /\ r + Len(a) \in 1..Len(l) + 1
                 /\ Peek(l, r + Len(a)) = Comma
                 /\ s \in 1..Len(l) + 1 /\ Cut(l, s, b)
        <4>1. q[<<rule, r>>] =
                 Read(Assigned(d, q[<<rule, s>>].value), q[<<rule, s>>].at)
          <5>1. a = Keyed(es[i]) /\ s = r + Len(a) + 1
            BY DEF a
          <5>2. At(l, r, a) /\ Peek(l, r + Len(a)) = Comma
            BY <3>6
          <5>3. es[i].key # Keyless /\ r \in 1..Len(l) + 1 /\ rule \in ResultRules
            BY <2>1
          <5> HIDE DEF s
          <5> QED
            BY <2>1, <5>1, <5>2, <5>3, FieldGoesOn, SMTT(30)
        <4>2. \/ q[<<rule, s>>].at = Nowhere
              \/ \E m \in i..N - 1 :
                    q[<<rule, s>>] = Read(Between(es, i + 1, m), Len(l) + 1)
          <5>1. Torn(i + 1)
            BY <1>3
          <5>2. i + 1 - 1 = i
            BY <2>1
          <5> HIDE DEF s
          <5>3. Lost(i + 1, s)
            BY <3>6, <5>1 DEF b
          <5> QED
            BY <5>2, <5>3
        <4> HIDE DEF s, d
        <4>3. CASE q[<<rule, s>>].at = Nowhere
          <5>1. q[<<rule, r>>].at = Nowhere
            BY <4>1, <4>3, ReadOf
          <5> QED
            BY <5>1
        <4>4. CASE \E m \in i..N - 1 :
                      q[<<rule, s>>] = Read(Between(es, i + 1, m), Len(l) + 1)
          <5>1. PICK m \in i..N - 1 :
                   q[<<rule, s>>] = Read(Between(es, i + 1, m), Len(l) + 1)
            BY <4>4
          <5>2. /\ q[<<rule, s>>].value = Between(es, i + 1, m)
                /\ q[<<rule, s>>].at = Len(l) + 1
            BY <5>1, ReadOf
          <5>3. m \in Nat /\ i <= m /\ m \in i - 1..N - 1
            BY <1>1, <2>1
          <5>4. Between(es, i, m) = Assigned(d, Between(es, i + 1, m))
            BY <2>1, <5>3, BetweenMore DEF d
          <5>5. q[<<rule, r>>] = Read(Between(es, i, m), Len(l) + 1)
            BY <4>1, <5>2, <5>4, Zenon
          <5> QED
            BY <5>3, <5>5
        <4> QED
          BY <4>2, <4>3, <4>4
      <3> QED
        BY <3>3, <3>4, <3>5, <3>6
    <2> QED
      BY <2>2, <2>4, <2>5
  <1> HIDE DEF Torn
  <1>4. N + 1 \in S
    BY <1>1, <1>2
  <1>5. ASSUME NEW i \in 1..N + 1 - 1, i + 1 \in S PROVE i \in S
    <2>1. i \in 1..N /\ i \in 1..N + 1
      BY <1>1
    <2> QED
      BY <1>3, <1>5, <2>1
  <1>6. \A i \in 1..N + 1 : i \in S
    <2> DEFINE j == N + 1
    <2>1. j \in Nat /\ j \in S /\ \A i \in 1..j - 1 : i + 1 \in S => i \in S
      BY <1>1, <1>4, <1>5
    <2> HIDE DEF S, j
    <2>2. \A i \in 1..j : i \in S
      BY <2>1, Downward
    <2> QED
      BY <2>2 DEF j
  <1>7. Torn(n)
    BY <1>6
  <1> QED
    BY <1>7 DEF Torn

(* What _parse_list does at its end and before an item. *)
LEMMA ItemsTurn ==
    ASSUME NEW l \in Line, NEW p \in 1..Len(l) + 1
    PROVE  LET q == Nested(l)
           IN  /\ Peek(l, p) \in {CloseList, EndOfLine} =>
                     q[<<"items", p>>] = Read(<<>>, p)
               /\ Peek(l, p) \notin {CloseList, EndOfLine} =>
                     q[<<"items", p>>] = AfterItem(l, q, ItemFrom(l, q, p))
  <1> DEFINE q == Nested(l)
  <1>1. q[<<"items", p>>] = ItemsFrom(l, q, p)
    BY NestedAt
  <1> HIDE DEF q
  <1>2. /\ Peek(l, p) \in {CloseList, EndOfLine} =>
              q[<<"items", p>>] = Read(<<>>, p)
        /\ Peek(l, p) \notin {CloseList, EndOfLine} =>
              q[<<"items", p>>] = AfterItem(l, q, ItemFrom(l, q, p))
    BY <1>1 DEF ItemsFrom
  <1> QED
    BY <1>2 DEF q

(* One item of a list is read, and then the others; *)
LEMMA OneItemIsRead ==
    ASSUME NEW l \in Line, NEW p \in 1..Len(l) + 1,
           NEW e, ReadableEntry(e), At(l, p, Keyed(e))
    PROVE  LET q == Nested(l)
               n == p + Len(Keyed(e))
           IN  /\ Peek(l, n) # Comma => q[<<"items", p>>] = Read(<<Item(e)>>, n)
               /\ Peek(l, n) = Comma =>
                     q[<<"items", p>>] =
                        Read(<<Item(e)>> \o q[<<"items", n + 1>>].value,
                             q[<<"items", n + 1>>].at)
  <1> DEFINE q == Nested(l)
             n == p + Len(Keyed(e))
             v == ItemFrom(l, q, p)
  <1>1. v = Read(Item(e), n)
    BY ItemIsRead
  <1>2. q[<<"items", p>>] = AfterItem(l, q, v)
    BY EntryBegins, ItemsTurn
  <1> HIDE DEF q, n, v
  <1>3. v.value = Item(e) /\ v.at = n
    BY <1>1, ReadOf
  <1>4. Peek(l, n) # Comma => AfterItem(l, q, v) = Read(<<Item(e)>>, n)
    BY <1>3, Zenon DEF AfterItem
  <1>5. Peek(l, n) = Comma =>
           AfterItem(l, q, v) =
              Read(<<Item(e)>> \o q[<<"items", n + 1>>].value,
                   q[<<"items", n + 1>>].at)
    BY <1>3, Zenon DEF AfterItem, Before
  <1> QED
    BY <1>2, <1>4, <1>5, Zenon DEF q, n

(* The same, for the last item, by name; *)
LEMMA LastItemIsRead ==
    ASSUME NEW l \in Line, NEW p \in 1..Len(l) + 1, NEW e, ReadableEntry(e),
           NEW a, a = Keyed(e), At(l, p, a), Peek(l, p + Len(a)) # Comma
    PROVE  Nested(l)[<<"items", p>>] = Read(<<Item(e)>>, p + Len(a))
  <1>1. At(l, p, Keyed(e)) /\ Peek(l, p + Len(Keyed(e))) # Comma
    OBVIOUS
  <1>2. Nested(l)[<<"items", p>>] = Read(<<Item(e)>>, p + Len(Keyed(e)))
    BY <1>1, OneItemIsRead
  <1> QED
    BY <1>2

(* cut short it leaves the list without its bracket. *)
LEMMA OneItemIsTorn ==
    ASSUME NEW l \in Line, NEW p \in 1..Len(l),
           NEW e, ReadableEntry(e), Cut(l, p, Keyed(e))
    PROVE  Nested(l)[<<"items", p>>].at \in {Nowhere, Len(l) + 1}
  <1> DEFINE q == Nested(l)
             v == ItemFrom(l, q, p)
  <1>1. v.at \in {Nowhere, Len(l) + 1}
    BY ItemIsTorn
  <1>2. q[<<"items", p>>] = AfterItem(l, q, v)
    <2>1. p \in 1..Len(l) + 1 /\ p # Len(l) + 1
      BY LineIs
    <2> QED
      BY <2>1, EntryBegins, ItemsTurn
  <1> HIDE DEF q, v
  <1>3. Peek(l, v.at) # Comma
    <2>1. Nowhere \notin 1..Len(l) /\ Len(l) + 1 \notin 1..Len(l)
      BY LineIs DEF Nowhere
    <2> QED
      BY <1>1, <2>1, LineIs, Distinct
  <1>4. AfterItem(l, q, v).at = v.at
    BY <1>3, ReadIs DEF AfterItem
  <1> QED
    BY <1>1, <1>2, <1>4 DEF q

(* From each item on, the rest of a list is read back; *)
LEMMA ItemsAreRead ==
    ASSUME NEW l \in Line, NEW es, Entries(es),
           NEW n \in 1..Len(es) + 1, NEW p \in 1..Len(l) + 1,
           At(l, p, Together(Parts(es))[n]),
           Peek(l, p + Len(Together(Parts(es))[n])) \in {CloseList, EndOfLine}
    PROVE  Nested(l)[<<"items", p>>] =
              Read(SubSeq(ItemsOf(es), n, Len(es)),
                   p + Len(Together(Parts(es))[n]))
  <1> DEFINE w == Together(Parts(es))
             q == Nested(l)
             m == Len(es)
             its == ItemsOf(es)
             Reads(i) ==
                \A r \in 1..Len(l) + 1 :
                    At(l, r, w[i]) /\ Peek(l, r + Len(w[i])) \in {CloseList, EndOfLine} =>
                        q[<<"items", r>>] = Read(SubSeq(its, i, m), r + Len(w[i]))
             S == {i \in 1..m + 1 : Reads(i)}
             V == {Item(es[i]) : i \in 1..m}
  <1>1. /\ m \in Nat /\ Len(l) \in Nat /\ Separator \in Line /\ DOMAIN es = 1..m
        /\ \A i \in 1..m : ReadableEntry(es[i]) /\ Keyed(es[i]) \in Line
    BY EntriesAre, LineIs
  <1>2. its \in Seq(V) /\ Len(its) = m /\ \A i \in 1..m : its[i] = Item(es[i])
    <2>1. its = [i \in 1..m |-> Item(es[i])]
      BY <1>1, Zenon DEF ItemsOf
    <2> HIDE DEF its, m
    <2>2. its \in [1..m -> V]
      BY <2>1
    <2> HIDE DEF V
    <2> QED
      BY <1>1, <2>1, <2>2
  <1> HIDE DEF its
  <1>3. Reads(m + 1)
    <2>1. w[m + 1] = <<>> /\ Len(<<>>) = 0
      BY PartsAre
    <2>2. SubSeq(its, m + 1, m) = <<>>
      BY <1>1, SubSeqEmpty
    <2> SUFFICES ASSUME NEW r \in 1..Len(l) + 1, Peek(l, r) \in {CloseList, EndOfLine}
                 PROVE  q[<<"items", r>>] = Read(<<>>, r)
      <3>1. \A r \in 1..Len(l) + 1 : r + 0 = r
        BY <1>1
      <3> QED
        BY <2>1, <2>2, <3>1
    <2> QED
      BY ItemsTurn
  <1>4. ASSUME NEW i \in 1..m, i + 1 \in S PROVE Reads(i)
    <2> SUFFICES ASSUME NEW r \in 1..Len(l) + 1, At(l, r, w[i]),
                        Peek(l, r + Len(w[i])) \in {CloseList, EndOfLine}
                 PROVE  q[<<"items", r>>] = Read(SubSeq(its, i, m), r + Len(w[i]))
      OBVIOUS
    <2> DEFINE a == Keyed(es[i])
               d == Item(es[i])
               rest == SubSeq(its, i + 1, m)
    <2>1. ReadableEntry(es[i]) /\ a \in Line /\ its[i] = d
      BY <1>1, <1>2
    <2>2. SubSeq(its, i, m) = <<d>> \o rest
      <3>1. i \in 1..Len(its) /\ m \in i..Len(its)
        BY <1>1, <1>2
      <3> HIDE DEF V, m
      <3> QED
        BY <1>2, <2>1, <3>1, SubSeqRecursiveFirst
    <2> HIDE DEF w
    <2>3. CASE i = m
      <3>1. w[i] = a
        BY <2>3, PartsAre DEF w
      <3>2. Peek(l, r + Len(a)) # Comma
        BY <3>1, Distinct
      <3>3. q[<<"items", r>>] = Read(<<d>>, r + Len(a))
        <4>1. At(l, r, a)
          BY <3>1
        <4> QED
          BY <2>1, <3>2, <4>1, LastItemIsRead
      <3>4. SubSeq(its, i, m) = <<d>>
        <4>1. rest = <<>>
          BY <1>1, <2>3, SubSeqEmpty
        <4> HIDE DEF d, rest
        <4>2. <<d>> \o <<>> = <<d>>
          OBVIOUS
        <4> QED
          BY <2>2, <4>1, <4>2
      <3> QED
        BY <3>1, <3>3, <3>4
    <2>4. CASE i # m
      <3> DEFINE b == w[i + 1]
                 s == r + Len(a) + 1
      <3>1. i \in 1..m - 1 /\ i + 1 \in 1..m + 1
        <4>1. m \in Nat /\ i \in 1..m
          BY <1>1
        <4> HIDE DEF m
        <4> QED
          BY <2>4, <4>1
      <3>2. w[i] = a \o (Separator \o b) /\ b \in Line
        BY <3>1, PartsAre DEF w
      <3> HIDE DEF a, b
      <3>3. /\ At(l, r, a) /\ r + Len(a) \in 1..Len(l) + 1
            /\ Peek(l, r + Len(a)) = Comma
            /\ s \in 1..Len(l) + 1 /\ At(l, s, b)
            /\ s + Len(b) = r + Len(w[i])
        <4>1. At(l, r, a \o (Separator \o b))
          BY <3>2
        <4>2. EntryAt(l, r, a, b, a \o (Separator \o b))
          BY <1>1, <2>1, <3>2, <4>1, EntryThenRest, Zenon
        <4> QED
          BY <3>2, <4>2, Zenon DEF EntryAt
      <3>4. q[<<"items", s>>] = Read(rest, s + Len(b))
        <4>1. Reads(i + 1)
          BY <1>4
        <4> HIDE DEF s
        <4> QED
          BY <3>3, <4>1 DEF b
      <3>5. q[<<"items", r>>] =
               Read(<<d>> \o q[<<"items", s>>].value, q[<<"items", s>>].at)
        <4>1. At(l, r, Keyed(es[i])) /\ Peek(l, r + Len(Keyed(es[i]))) = Comma
          BY <3>3 DEF a
        <4>2. s = r + Len(Keyed(es[i])) + 1
          BY DEF a
        <4> HIDE DEF s
        <4>3. q[<<"items", r>>] =
                 Read(<<d>> \o q[<<"items", r + Len(Keyed(es[i])) + 1>>].value,
                      q[<<"items", r + Len(Keyed(es[i])) + 1>>].at)
          BY <2>1, <4>1, OneItemIsRead
        <4> QED
          BY <4>2, <4>3, Zenon
      <3> HIDE DEF s, d, rest
      <3>6. q[<<"items", s>>].value = rest /\ q[<<"items", s>>].at = s + Len(b)
        BY <3>4, ReadOf
      <3> QED
        BY <2>2, <3>3, <3>5, <3>6, Zenon
    <2> QED
      BY <2>3, <2>4
  <1> HIDE DEF Reads
  <1>5. m + 1 \in S
    BY <1>1, <1>3
  <1>6. ASSUME NEW i \in 1..m + 1 - 1, i + 1 \in S PROVE i \in S
    <2>1. i \in 1..m /\ i \in 1..m + 1
      BY <1>1
    <2> QED
      BY <1>4, <1>6, <2>1
  <1>7. \A i \in 1..m + 1 : i \in S
    <2> DEFINE j == m + 1
    <2>1. j \in Nat /\ j \in S /\ \A i \in 1..j - 1 : i + 1 \in S => i \in S
      BY <1>1, <1>5, <1>6
    <2> HIDE DEF S, j
    <2>2. \A i \in 1..j : i \in S
      BY <2>1, Downward
    <2> QED
      BY <2>2 DEF j
  <1>8. Reads(n)
    BY <1>7
  <1> QED
    BY <1>8 DEF Reads, its

(* cut short it is left without its bracket. *)
LEMMA ItemsAreTorn ==
    ASSUME NEW l \in Line, NEW es, Entries(es),
           NEW n \in 1..Len(es) + 1, NEW p \in 1..Len(l) + 1,
           Cut(l, p, Together(Parts(es))[n])
    PROVE  Nested(l)[<<"items", p>>].at \in {Nowhere, Len(l) + 1}
  <1> DEFINE w == Together(Parts(es))
             q == Nested(l)
             N == Len(es)
             Lost(r) == q[<<"items", r>>].at \in {Nowhere, Len(l) + 1}
             Torn(i) == \A r \in 1..Len(l) + 1 : Cut(l, r, w[i]) => Lost(r)
             S == {i \in 1..N + 1 : Torn(i)}
  <1>1. /\ N \in Nat /\ Len(l) \in Nat /\ Separator \in Line
        /\ \A i \in 1..N : ReadableEntry(es[i]) /\ Keyed(es[i]) \in Line
    BY EntriesAre, LineIs
  <1>2. Torn(N + 1)
    <2>1. w[N + 1] = <<>> /\ Len(<<>>) = 0
      BY PartsAre
    <2>2. \A r \in 1..Len(l) + 1 : ~Cut(l, r, <<>>)
      BY <1>1, <2>1 DEF Cut
    <2> QED
      BY <2>1, <2>2
  <1>3. ASSUME NEW i \in 1..N, i + 1 \in S PROVE Torn(i)
    <2> SUFFICES ASSUME NEW r \in 1..Len(l) + 1, Cut(l, r, w[i])
                 PROVE  Lost(r)
      OBVIOUS
    <2> DEFINE a == Keyed(es[i])
               b == w[i + 1]
               s == r + Len(a) + 1
    <2>1. ReadableEntry(es[i]) /\ a \in Line /\ i \in Nat
      BY <1>1
    <2> HIDE DEF w
    <2>2. CASE r = Len(l) + 1
      <3>1. Peek(l, r) = EndOfLine
        <4>1. r \notin 1..Len(l)
          BY <1>1, <2>2
        <4> QED
          BY <4>1, LineIs
      <3>2. q[<<"items", r>>] = Read(<<>>, r)
        BY <3>1, ItemsTurn
      <3> HIDE DEF q
      <3>3. q[<<"items", r>>].at = r
        BY <3>2, ReadOf
      <3> QED
        BY <2>2, <3>3
    <2>3. ASSUME r # Len(l) + 1, Cut(l, r, a) PROVE Lost(r)
      <3>1. r \in 1..Len(l)
        BY <1>1, <2>3
      <3> QED
        BY <2>1, <2>3, <3>1, OneItemIsTorn
    <2>4. CASE r # Len(l) + 1 /\ i = N
      <3>1. w[i] = a
        BY <2>4, PartsAre DEF w
      <3> QED
        BY <2>3, <2>4, <3>1
    <2>5. CASE r # Len(l) + 1 /\ i # N
      <3>1. i \in 1..N - 1 /\ i + 1 \in 1..N + 1
        BY <1>1, <2>5
      <3>2. w[i] = a \o (Separator \o b) /\ b \in Line
        BY <3>1, PartsAre DEF w
      <3> HIDE DEF a, b
      <3>3. \/ Cut(l, r, a)
            \/ /\ At(l, r, a) /\ r + Len(a) = Len(l) + 1
               /\ Peek(l, r + Len(a)) = EndOfLine
            \/ /\ At(l, r, a) /\ r + Len(a) \in 1..Len(l) + 1
               /\ Peek(l, r + Len(a)) = Comma
               /\ s \in 1..Len(l) + 1 /\ Cut(l, s, b)
        <4>1. Cut(l, r, a \o (Separator \o b))
          BY <3>2
        <4> QED
          BY <1>1, <2>1, <3>2, <4>1, EntryAndRest, Zenon
      <3>4. CASE Cut(l, r, a)
        BY <2>3, <2>5, <3>4
      <3>5. CASE /\ At(l, r, a) /\ r + Len(a) = Len(l) + 1
                 /\ Peek(l, r + Len(a)) = EndOfLine
        <4>1. Peek(l, r + Len(a)) # Comma
          BY <3>5, Distinct
        <4>2. q[<<"items", r>>] = Read(<<Item(es[i])>>, r + Len(a))
          BY <2>1, <3>5, <4>1, LastItemIsRead DEF a
        <4> HIDE DEF q
        <4>3. q[<<"items", r>>].at = r + Len(a)
          BY <4>2, ReadOf
        <4> QED
          BY <3>5, <4>3
      <3>6. CASE /\ At(l, r, a) /\ r + Len(a) \in 1..Len(l) + 1
                 /\ Peek(l, r + Len(a)) = Comma
                 /\ s \in 1..Len(l) + 1 /\ Cut(l, s, b)
        <4>1. q[<<"items", r>>] =
                 Read(<<Item(es[i])>> \o q[<<"items", s>>].value, q[<<"items", s>>].at)
          <5>1. At(l, r, Keyed(es[i])) /\ Peek(l, r + Len(Keyed(es[i]))) = Comma
            BY <3>6 DEF a
          <5>2. s = r + Len(Keyed(es[i])) + 1
            BY DEF a
          <5> HIDE DEF s
          <5>3. q[<<"items", r>>] =
                   Read(<<Item(es[i])>> \o q[<<"items", r + Len(Keyed(es[i])) + 1>>].value,
                        q[<<"items", r + Len(Keyed(es[i])) + 1>>].at)
            BY <2>1, <5>1, OneItemIsRead
          <5> QED
            BY <5>2, <5>3, Zenon
        <4>2. Lost(s)
          <5>1. Torn(i + 1)
            BY <1>3
          <5> HIDE DEF s
          <5> QED
            BY <3>6, <5>1 DEF b
        <4> HIDE DEF s, q
        <4>3. q[<<"items", r>>].at = q[<<"items", s>>].at
          BY <4>1, ReadOf
        <4> QED
          BY <4>2, <4>3
      <3> QED
        BY <3>3, <3>4, <3>5, <3>6
    <2> QED
      BY <2>2, <2>4, <2>5
  <1> HIDE DEF Torn
  <1>4. N + 1 \in S
    BY <1>1, <1>2
  <1>5. ASSUME NEW i \in 1..N + 1 - 1, i + 1 \in S PROVE i \in S
    <2>1. i \in 1..N /\ i \in 1..N + 1
      BY <1>1
    <2> QED
      BY <1>3, <1>5, <2>1
  <1>6. \A i \in 1..N + 1 : i \in S
    <2> DEFINE j == N + 1
    <2>1. j \in Nat /\ j \in S /\ \A i \in 1..j - 1 : i + 1 \in S => i \in S
      BY <1>1, <1>4, <1>5
    <2> HIDE DEF S, j
    <2>2. \A i \in 1..j : i \in S
      BY <2>1, Downward
    <2> QED
      BY <2>2 DEF j
  <1>7. Torn(n)
    BY <1>6
  <1> QED
    BY <1>7 DEF Torn

-----------------------------------------------------------------------------
(* Strings, tuples and lists are readable (parser.py:113-150, 171-186).    *)

(* No value begins at the end of the line. *)
LEMMA ValueAtEnd ==
    ASSUME NEW l \in Line, NEW p, p = Len(l) + 1
    PROVE  Nested(l)[<<"value", p>>].at = Nowhere
  <1> DEFINE class == Characters(l) \ {Comma, CloseList, CloseTuple}
             q == Nested(l)
  <1>1. p \in 1..Len(l) + 1 /\ p \notin 1..Len(l) /\ Len(l) \in Nat
    BY LineIs
  <1>2. Peek(l, p) = EndOfLine /\ EndOfLine \notin class
    BY <1>1, LineIs DEF Characters
  <1>3. q[<<"value", p>>] = BareValue(l, p)
    <2>1. q[<<"value", p>>] = ValueFrom(l, q, p)
      BY <1>1, NestedAt
    <2>2. Peek(l, p) \notin {Quote, OpenTuple, OpenList}
      BY <1>2, Distinct
    <2> QED
      BY <2>1, <2>2, ValueTurns
  <1> HIDE DEF class
  <1>4. Past(l, p, class) \in p..Len(l) + 1
    BY <1>1, <1>2, PastIs
  <1>5. Past(l, p, class) = p
    BY <1>1, <1>4
  <1>6. BareValue(l, p) = Error
    BY <1>5 DEF BareValue, TextUpTo, class
  <1> QED
    BY <1>3, <1>6, ReadIs

(* A string is readable. *)
LEMMA ConstIsReadable ==
    ASSUME NEW t \in Line
    PROVE  Readable(RenderConst(t), Text(t))
  <1> DEFINE u == RenderConst(t)
  <1>1. u \in Line /\ u # <<>> /\ u[1] = Quote
    <2> DEFINE w == Together(PrintedChars(t))[1]
               z == <<Quote>>
    <2>1. w \o z \in Line /\ z \in Line /\ u = z \o (w \o z) /\ z[1] = Quote /\ Len(z) = 1
      BY ConstUnfolded
    <2> DEFINE v == w \o z
    <2> HIDE DEF v, z, u
    <2>2. v \in Line /\ u = z \o v
      BY <2>1 DEF v
    <2>4. u \in Line /\ u # <<>> /\ u[1] = z[1]
      <3>1. z \o v \in Line /\ z \o v # <<>> /\ (z \o v)[1] = z[1]
        BY <2>1, <2>2, FirstStays
      <3> QED
        BY <2>2, <3>1
    <2> QED
      BY <2>1, <2>4
  <1>2. ASSUME NEW l \in Line, NEW p \in 1..Len(l) + 1, At(l, p, u)
        PROVE  Nested(l)[<<"value", p>>] = Read(Text(t), p + Len(u))
    <2>1. Peek(l, p) = Quote
      BY <1>1, <1>2, BeginsAlike
    <2>2. Nested(l)[<<"value", p>>] = CString(l, p)
      BY <2>1, QuoteTurns
    <2> QED
      BY <1>2, <2>2, ConstIsRead
  <1>3. ASSUME NEW l \in Line, NEW p \in 1..Len(l) + 1, Cut(l, p, u)
        PROVE  Nested(l)[<<"value", p>>].at = Nowhere
    <2>1. CASE p = Len(l) + 1
      BY <2>1, ValueAtEnd
    <2>2. CASE p # Len(l) + 1
      <3>1. Peek(l, p) = Quote
        BY <1>1, <1>3, <2>2, BeginsAlike
      <3>2. Nested(l)[<<"value", p>>] = CString(l, p)
        BY <3>1, QuoteTurns
      <3> QED
        BY <1>3, <3>2, ConstIsTorn
    <2> QED
      BY <2>1, <2>2
  <1> HIDE DEF u
  <1>4. Readable(u, Text(t))
    BY <1>1, <1>2, <1>3 DEF Readable
  <1> QED
    BY <1>4 DEF u

(* A text between two brackets. *)
LEMMA EnclosedIs ==
    ASSUME NEW o \in Character, NEW c \in Character, NEW w \in Line
    PROVE  LET u == Enclosed(o, w, c)
           IN  /\ u \in Line /\ u # <<>> /\ u[1] = o /\ Len(u) = Len(w) + 2
               /\ <<o>> \in Line /\ <<c>> \in Line /\ w \o <<c>> \in Line
               /\ u = <<o>> \o (w \o <<c>>)
  <1> DEFINE a == <<o>>
             z == <<c>>
             u == a \o w \o z
             v == w \o z
  <1>1. a \in Line /\ Len(a) = 1 /\ z \in Line /\ Len(z) = 1 /\ a[1] = o
    BY OneIsALine
  <1> HIDE DEF a, z
  <1>2. u = a \o v /\ v \in Line /\ Len(v) = Len(w) + 1
    <2>1. (a \o w) \o z = a \o (w \o z)
      BY <1>1, LinesAssociate
    <2>2. w \o z \in Line /\ Len(w \o z) = Len(w) + Len(z)
      BY <1>1, LinesJoin, Zenon
    <2> QED
      BY <1>1, <2>1, <2>2
  <1> HIDE DEF u, v
  <1>3. Len(w) \in Nat
    BY LineIs
  <1>4. u \in Line /\ u # <<>> /\ Len(u) = Len(a) + Len(v) /\ u[1] = a[1]
    <2>1. /\ a \o v \in Line /\ a \o v # <<>> /\ (a \o v)[1] = a[1]
          /\ Len(a \o v) = Len(a) + Len(v)
      BY <1>1, <1>2, FirstStays
    <2> QED
      BY <1>2, <2>1
  <1>5. u # <<>> /\ Len(u) = Len(w) + 2
    BY <1>1, <1>2, <1>3, <1>4
  <1> QED
    BY <1>1, <1>2, <1>4, <1>5 DEF a, z, u, v, Enclosed

(* What stands where w does between brackets, and where it is cut short. *)
EnclosedAt(l, p, o, w, c) ==
    /\ Peek(l, p) = o /\ p + 1 \in 1..Len(l) + 1
    /\ At(l, p + 1, w) /\ Peek(l, p + 1 + Len(w)) = c
    /\ p + 1 + Len(w) + 1 = p + Len(Enclosed(o, w, c))

NotClosed(l, p, o, w) ==
    \/ p = Len(l) + 1
    \/ /\ Peek(l, p) = o /\ p + 1 \in 1..Len(l) + 1
       /\ \/ Cut(l, p + 1, w)
          \/ At(l, p + 1, w) /\ Peek(l, p + 1 + Len(w)) = EndOfLine

(* What brackets enclose stands between them; *)
LEMMA EnclosedIsThere ==
    ASSUME NEW o \in Character, NEW c \in Character, NEW w \in Line,
           NEW l \in Line, NEW p \in 1..Len(l) + 1, At(l, p, Enclosed(o, w, c))
    PROVE  EnclosedAt(l, p, o, w, c)
  <1> DEFINE a == <<o>>
             z == <<c>>
             u == Enclosed(o, w, c)
             v == w \o z
  <1>1. /\ a \in Line /\ Len(a) = 1 /\ z \in Line /\ v \in Line
        /\ u = a \o v /\ Len(u) = Len(w) + 2
    BY EnclosedIs
  <1>2. Len(w) \in Nat /\ p \in Nat
    BY LineIs
  <1>3. At(l, p, a \o v)
    BY <1>1
  <1> HIDE DEF a, z, u, v
  <1>4. At(l, p, a) /\ p + 1 \in 1..Len(l) + 1 /\ At(l, p + 1, v)
    BY <1>1, <1>3, AtBoth DEF Line
  <1>5. /\ At(l, p + 1, w) /\ p + 1 + Len(w) \in 1..Len(l) + 1
        /\ At(l, p + 1 + Len(w), z)
    BY <1>1, <1>4, AtBoth DEF Line, v
  <1>6. Peek(l, p) = o
    BY <1>4, AtOne DEF a
  <1>7. Peek(l, p + 1 + Len(w)) = c
    BY <1>5, AtOne DEF z
  <1>8. p + 1 + Len(w) + 1 = p + Len(u)
    <2> DEFINE k == Len(w)
    <2>1. k \in Nat /\ Len(u) = k + 2
      BY <1>1, <1>2
    <2> HIDE DEF k
    <2> QED
      BY <1>2, <2>1 DEF k
  <1> QED
    BY <1>4, <1>5, <1>6, <1>7, <1>8 DEF u, a, z, EnclosedAt

(* cut short it misses its closing bracket or is cut short itself. *)
LEMMA EnclosedIsTorn ==
    ASSUME NEW o \in Character, NEW c \in Character, NEW w \in Line,
           NEW l \in Line, NEW p \in 1..Len(l) + 1, Cut(l, p, Enclosed(o, w, c))
    PROVE  NotClosed(l, p, o, w)
  <1> DEFINE a == <<o>>
             z == <<c>>
             v == w \o z
  <1>1. a \in Line /\ Len(a) = 1 /\ z \in Line /\ v \in Line
    BY EnclosedIs, OneIsALine
  <1>2. Cut(l, p, a \o v)
    BY EnclosedIs
  <1> HIDE DEF a, z, v
  <1>3. \/ Cut(l, p, a)
        \/ At(l, p, a) /\ p + 1 \in 1..Len(l) + 1 /\ Cut(l, p + 1, v)
    BY <1>1, <1>2, CutInOne DEF Line
  <1>4. CASE Cut(l, p, a)
    BY <1>4, CutOne DEF a, NotClosed
  <1>5. CASE At(l, p, a) /\ p + 1 \in 1..Len(l) + 1 /\ Cut(l, p + 1, v)
    <2>1. Peek(l, p) = o
      BY <1>5, AtOne DEF a
    <2>2. \/ Cut(l, p + 1, w)
          \/ /\ At(l, p + 1, w) /\ p + 1 + Len(w) \in 1..Len(l) + 1
             /\ Cut(l, p + 1 + Len(w), z)
      BY <1>1, <1>5, CutInOne DEF Line, v
    <2>3. ASSUME p + 1 + Len(w) \in 1..Len(l) + 1, Cut(l, p + 1 + Len(w), z)
          PROVE  Peek(l, p + 1 + Len(w)) = EndOfLine
      BY <2>3, CutOne DEF z
    <2> QED
      BY <1>5, <2>1, <2>2, <2>3 DEF NotClosed
  <1> QED
    BY <1>3, <1>4, <1>5

(* The text and the dict of all the entries. *)
LEMMA JoinedIs ==
    ASSUME NEW es, Entries(es)
    PROVE  /\ Joined(es) \in Line /\ Joined(es) = Together(Parts(es))[1]
           /\ 1 \in 1..Len(es) + 1 /\ Len(es) \in 0..Len(es)
           /\ DictOf(SubSeq(es, 1, Len(es))) = Between(es, 1, Len(es))
           /\ SubSeq(es, 1, Len(es)) = es
           /\ SubSeq(ItemsOf(es), 1, Len(es)) = ItemsOf(es)
  <1> DEFINE S == {es[i] : i \in DOMAIN es}
             V == {Item(es[i]) : i \in 1..Len(es)}
  <1>1. es \in Seq(S) /\ Len(es) \in Nat /\ IsSeq(es)
    BY DEF Entries, IsSeq
  <1>2. 1 \in 1..Len(es) + 1 /\ Len(es) \in 0..Len(es)
    BY <1>1
  <1>3. Joined(es) = Together(Parts(es))[1]
    BY Zenon DEF Joined
  <1>4. Together(Parts(es))[1] \in Line
    BY <1>2, PartsAre
  <1>5. SubSeq(es, 1, Len(es)) = es
    <2> HIDE DEF S
    <2> QED
      BY <1>1, SubSeqFull
  <1>6. ItemsOf(es) \in Seq(V) /\ Len(ItemsOf(es)) = Len(es)
    <2>1. ItemsOf(es) = [i \in 1..Len(es) |-> Item(es[i])]
      BY EntriesAre, Zenon DEF ItemsOf
    <2>2. ItemsOf(es) \in [1..Len(es) -> V]
      BY <2>1
    <2> HIDE DEF V
    <2> QED
      BY <1>1, <2>1, <2>2
  <1>7. SubSeq(ItemsOf(es), 1, Len(es)) = ItemsOf(es)
    <2> HIDE DEF V
    <2> QED
      BY <1>6, SubSeqFull
  <1>8. DictOf(SubSeq(es, 1, Len(es))) = Between(es, 1, Len(es))
    BY <1>1, <1>2, DictIs
  <1> QED
    BY <1>2, <1>3, <1>4, <1>5, <1>7, <1>8

(* Brackets are characters of a line. *)
LEMMA BracketsAre ==
    /\ OpenTuple \in Character /\ CloseTuple \in Character
    /\ OpenList \in Character /\ CloseList \in Character
  BY CharacterIs DEF Syntax

(* A tuple of readable entries is readable, *)
LEMMA TupleIsReadable ==
    ASSUME NEW es, Entries(es), \A i \in DOMAIN es : es[i].key # Keyless
    PROVE  Readable(Enclosed(OpenTuple, Joined(es), CloseTuple), Dict(DictOf(es)))
  <1> DEFINE w == Joined(es)
             d == DictOf(es)
             u == Enclosed(OpenTuple, w, CloseTuple)
  <1>1. /\ w \in Line /\ w = Together(Parts(es))[1] /\ 1 \in 1..Len(es) + 1
        /\ Between(es, 1, Len(es)) = d
    BY JoinedIs
  <1>2. u \in Line /\ u # <<>> /\ u[1] = OpenTuple
    <2>1. w \in Line /\ OpenTuple \in Character /\ CloseTuple \in Character
      BY <1>1, BracketsAre
    <2> HIDE DEF w
    <2> QED
      BY <2>1, EnclosedIs, Zenon
  <1>3. "fields" \in ResultRules /\ EndOf("fields") = CloseTuple
    BY DEF ResultRules, EndOf
  <1> HIDE DEF w, d
  <1>4. ASSUME NEW l \in Line, NEW p \in 1..Len(l) + 1, Peek(l, p) = OpenTuple
        PROVE  Nested(l)[<<"value", p>>] =
                  AsDict(Closed(l, CloseTuple, Nested(l)[<<"fields", p + 1>>]))
    <2> DEFINE q == Nested(l)
    <2>1. q[<<"value", p>>] = ValueFrom(l, q, p)
      BY NestedAt
    <2> HIDE DEF q
    <2>2. Nested(l)[<<"value", p>>] = ValueFrom(l, Nested(l), p)
      BY <2>1 DEF q
    <2> QED
      BY <1>4, <2>2, ValueTurns
  <1>5. ASSUME NEW l \in Line, NEW r \in 1..Len(l) + 1, At(l, r, w),
               Peek(l, r + Len(w)) \in {CloseTuple, EndOfLine}
        PROVE  /\ Nested(l)[<<"fields", r>>].value = d
               /\ Nested(l)[<<"fields", r>>].at = r + Len(w)
    <2>1. Nested(l)[<<"fields", r>>] = Read(d, r + Len(w))
      BY <1>1, <1>3, <1>5, FieldsAreRead
    <2> QED
      BY <2>1, ReadOf
  <1>6. ASSUME NEW l \in Line, NEW p \in 1..Len(l) + 1, At(l, p, u)
        PROVE  Nested(l)[<<"value", p>>] = Read(Dict(d), p + Len(u))
    <2>1. /\ Peek(l, p) = OpenTuple /\ p + 1 \in 1..Len(l) + 1
          /\ At(l, p + 1, w) /\ Peek(l, p + 1 + Len(w)) = CloseTuple
          /\ p + 1 + Len(w) + 1 = p + Len(u)
      <3>1. EnclosedAt(l, p, OpenTuple, w, CloseTuple)
        BY <1>1, <1>6, BracketsAre, EnclosedIsThere
      <3> QED
        BY <3>1 DEF EnclosedAt
    <2> DEFINE body == Nested(l)[<<"fields", p + 1>>]
    <2>2. body.value = d /\ body.at = p + 1 + Len(w)
      BY <1>5, <2>1
    <2>3. Nested(l)[<<"value", p>>] = AsDict(Closed(l, CloseTuple, body))
      BY <1>4, <2>1
    <2> HIDE DEF body, u
    <2>4. Closed(l, CloseTuple, body) = Read(d, p + Len(u))
      BY <2>1, <2>2, Zenon DEF Closed
    <2>5. /\ Closed(l, CloseTuple, body).value = d
          /\ Closed(l, CloseTuple, body).at = p + Len(u)
      BY <2>4, ReadOf
    <2> QED
      BY <2>3, <2>5, Zenon DEF AsDict
  <1>7. ASSUME NEW l \in Line, NEW p \in 1..Len(l) + 1, Cut(l, p, u)
        PROVE  Nested(l)[<<"value", p>>].at = Nowhere
    <2>1. \/ p = Len(l) + 1
          \/ /\ Peek(l, p) = OpenTuple /\ p + 1 \in 1..Len(l) + 1
             /\ \/ Cut(l, p + 1, w)
                \/ At(l, p + 1, w) /\ Peek(l, p + 1 + Len(w)) = EndOfLine
      <3>1. NotClosed(l, p, OpenTuple, w)
        BY <1>1, <1>7, BracketsAre, EnclosedIsTorn
      <3> QED
        BY <3>1 DEF NotClosed
    <2>2. CASE p = Len(l) + 1
      BY <2>2, ValueAtEnd
    <2>3. CASE /\ Peek(l, p) = OpenTuple /\ p + 1 \in 1..Len(l) + 1
               /\ \/ Cut(l, p + 1, w)
                  \/ At(l, p + 1, w) /\ Peek(l, p + 1 + Len(w)) = EndOfLine
      <3> DEFINE body == Nested(l)[<<"fields", p + 1>>]
      <3>1. Nested(l)[<<"value", p>>] = AsDict(Closed(l, CloseTuple, body))
        BY <1>4, <2>3
      <3>2. Peek(l, body.at) = EndOfLine
        <4>1. CASE At(l, p + 1, w) /\ Peek(l, p + 1 + Len(w)) = EndOfLine
          <5>1. body.at = p + 1 + Len(w)
            BY <1>5, <2>3, <4>1
          <5> QED
            BY <4>1, <5>1
        <4>2. CASE Cut(l, p + 1, w)
          <5>1. \/ body.at = Nowhere
                \/ \E m \in 1 - 1..Len(es) - 1 :
                      body = Read(Between(es, 1, m), Len(l) + 1)
            BY <1>1, <1>3, <2>3, <4>2, FieldsAreTorn
          <5> HIDE DEF body
          <5>2. body.at \in {Nowhere, Len(l) + 1}
            BY <5>1, ReadOf
          <5>3. Nowhere \notin 1..Len(l) /\ Len(l) + 1 \notin 1..Len(l)
            BY LineIs DEF Nowhere
          <5> QED
            BY <5>2, <5>3, LineIs
        <4> QED
          BY <2>3, <4>1, <4>2
      <3> HIDE DEF body
      <3>3. Closed(l, CloseTuple, body) = Error
        BY <3>2, Distinct DEF Closed
      <3>4. AsDict(Error).at = Nowhere
        BY DEF AsDict, Error, Read
      <3> QED
        BY <3>1, <3>3, <3>4
    <2> QED
      BY <2>1, <2>2, <2>3
  <1> HIDE DEF u
  <1>8. Readable(u, Dict(d))
    BY <1>2, <1>6, <1>7 DEF Readable
  <1> QED
    BY <1>8 DEF u, w, d

(* and so is a list. *)
LEMMA ListIsReadable ==
    ASSUME NEW es, Entries(es)
    PROVE  Readable(Enclosed(OpenList, Joined(es), CloseList), List(ItemsOf(es)))
  <1> DEFINE w == Joined(es)
             d == ItemsOf(es)
             u == Enclosed(OpenList, w, CloseList)
  <1>1. /\ w \in Line /\ w = Together(Parts(es))[1] /\ 1 \in 1..Len(es) + 1
        /\ SubSeq(d, 1, Len(es)) = d
    BY JoinedIs
  <1>2. u \in Line /\ u # <<>> /\ u[1] = OpenList
    BY <1>1, BracketsAre, EnclosedIs
  <1> HIDE DEF w
  <1>4. ASSUME NEW l \in Line, NEW p \in 1..Len(l) + 1, Peek(l, p) = OpenList
        PROVE  Nested(l)[<<"value", p>>] =
                  AsList(Closed(l, CloseList, Nested(l)[<<"items", p + 1>>]))
    <2> DEFINE q == Nested(l)
    <2>1. q[<<"value", p>>] = ValueFrom(l, q, p)
      BY NestedAt
    <2> HIDE DEF q
    <2>2. Nested(l)[<<"value", p>>] = ValueFrom(l, Nested(l), p)
      BY <2>1 DEF q
    <2> QED
      BY <1>4, <2>2, ValueTurns
  <1>5. ASSUME NEW l \in Line, NEW r \in 1..Len(l) + 1, At(l, r, w),
               Peek(l, r + Len(w)) \in {CloseList, EndOfLine}
        PROVE  /\ Nested(l)[<<"items", r>>].value = d
               /\ Nested(l)[<<"items", r>>].at = r + Len(w)
    <2>1. Nested(l)[<<"items", r>>] = Read(d, r + Len(w))
      <3>1. Nested(l)[<<"items", r>>] = Read(SubSeq(d, 1, Len(es)), r + Len(w))
        BY <1>1, <1>5, ItemsAreRead
      <3> QED
        BY <1>1, <3>1, Zenon
    <2> HIDE DEF d
    <2> QED
      BY <2>1, ReadOf
  <1> HIDE DEF d
  <1>6. ASSUME NEW l \in Line, NEW p \in 1..Len(l) + 1, At(l, p, u)
        PROVE  Nested(l)[<<"value", p>>] = Read(List(d), p + Len(u))
    <2>1. /\ Peek(l, p) = OpenList /\ p + 1 \in 1..Len(l) + 1
          /\ At(l, p + 1, w) /\ Peek(l, p + 1 + Len(w)) = CloseList
          /\ p + 1 + Len(w) + 1 = p + Len(u)
      <3>1. EnclosedAt(l, p, OpenList, w, CloseList)
        BY <1>1, <1>6, BracketsAre, EnclosedIsThere
      <3> QED
        BY <3>1 DEF EnclosedAt
    <2> DEFINE body == Nested(l)[<<"items", p + 1>>]
    <2>2. body.value = d /\ body.at = p + 1 + Len(w)
      BY <1>5, <2>1
    <2>3. Nested(l)[<<"value", p>>] = AsList(Closed(l, CloseList, body))
      BY <1>4, <2>1
    <2> HIDE DEF body, u
    <2>4. Closed(l, CloseList, body) = Read(d, p + Len(u))
      BY <2>1, <2>2, Zenon DEF Closed
    <2>5. /\ Closed(l, CloseList, body).value = d
          /\ Closed(l, CloseList, body).at = p + Len(u)
      BY <2>4, ReadOf
    <2> QED
      BY <2>3, <2>5, Zenon DEF AsList
  <1>7. ASSUME NEW l \in Line, NEW p \in 1..Len(l) + 1, Cut(l, p, u)
        PROVE  Nested(l)[<<"value", p>>].at = Nowhere
    <2>1. \/ p = Len(l) + 1
          \/ /\ Peek(l, p) = OpenList /\ p + 1 \in 1..Len(l) + 1
             /\ \/ Cut(l, p + 1, w)
                \/ At(l, p + 1, w) /\ Peek(l, p + 1 + Len(w)) = EndOfLine
      <3>1. NotClosed(l, p, OpenList, w)
        BY <1>1, <1>7, BracketsAre, EnclosedIsTorn
      <3> QED
        BY <3>1 DEF NotClosed
    <2>2. CASE p = Len(l) + 1
      BY <2>2, ValueAtEnd
    <2>3. CASE /\ Peek(l, p) = OpenList /\ p + 1 \in 1..Len(l) + 1
               /\ \/ Cut(l, p + 1, w)
                  \/ At(l, p + 1, w) /\ Peek(l, p + 1 + Len(w)) = EndOfLine
      <3> DEFINE body == Nested(l)[<<"items", p + 1>>]
      <3>1. Nested(l)[<<"value", p>>] = AsList(Closed(l, CloseList, body))
        BY <1>4, <2>3
      <3>2. Peek(l, body.at) = EndOfLine
        <4>1. CASE At(l, p + 1, w) /\ Peek(l, p + 1 + Len(w)) = EndOfLine
          <5>1. body.at = p + 1 + Len(w)
            BY <1>5, <2>3, <4>1
          <5> QED
            BY <4>1, <5>1
        <4>2. CASE Cut(l, p + 1, w)
          <5>1. body.at \in {Nowhere, Len(l) + 1}
            BY <1>1, <2>3, <4>2, ItemsAreTorn
          <5> HIDE DEF body
          <5>3. Nowhere \notin 1..Len(l) /\ Len(l) + 1 \notin 1..Len(l)
            BY LineIs DEF Nowhere
          <5> QED
            BY <5>1, <5>3, LineIs
        <4> QED
          BY <2>3, <4>1, <4>2
      <3> HIDE DEF body
      <3>3. Closed(l, CloseList, body) = Error
        BY <3>2, Distinct DEF Closed
      <3>4. AsList(Error).at = Nowhere
        BY DEF AsList, Error, Read
      <3> QED
        BY <3>1, <3>3, <3>4
    <2> QED
      BY <2>1, <2>2, <2>3
  <1> HIDE DEF u
  <1>8. Readable(u, List(d))
    BY <1>2, <1>6, <1>7 DEF Readable
  <1> QED
    BY <1>8 DEF u, w, d

-----------------------------------------------------------------------------
(* The token, the marker and the class (parser.py:41-89). *)

IsHead(h) ==
    h.token \in Seq(Digits) /\ h.marker \in DOMAIN RecordKind /\ IsName(h.class)
BeginningOf(h) == h.token \o <<h.marker>> \o h.class

(* A marker is no digit and announces one kind of record. *)
LEMMA MarkersAre ==
    /\ DOMAIN RecordKind = {"^", "*", "+", "="}
    /\ DOMAIN StreamKind = {"~", "@", "&"}
    /\ \A c \in DOMAIN RecordKind :
          c \in Character /\ c \notin Digits /\ c \notin DOMAIN StreamKind /\ c # "("
    /\ \A c \in Digits : c \in Character /\ c # "("
    /\ EndOfLine \notin Digits
  <1>1. DOMAIN RecordKind = {"^", "*", "+", "="} /\ DOMAIN StreamKind = {"~", "@", "&"}
    BY DEF RecordKind, StreamKind
  <1>2. \A c \in {"^", "*", "+", "="} :
           c \notin Digits /\ c \notin {"~", "@", "&"} /\ c # "("
    BY DEF Digits
  <1>3. \A c \in {"^", "*", "+", "="} : c \in Character
    BY CharacterIs DEF Syntax
  <1>4. \A c \in Digits : c \in IdentifierPart
    BY Zenon DEF IdentifierPart
  <1>5. \A c \in Digits : c # "("
    BY DEF Digits
  <1>6. \A c \in IdentifierPart : c \in Character
    BY CharacterIs DEF Syntax
  <1> QED
    BY <1>1, <1>2, <1>3, <1>4, <1>5, <1>6, NoIdentifier

(* What stands in a line is that part of it. *)
LEMMA AtIsSubSeq ==
    ASSUME NEW l \in Line, NEW p \in 1..Len(l) + 1, NEW s \in Line, At(l, p, s)
    PROVE  SubSeq(l, p, p + Len(s) - 1) = s
  <1> DEFINE k == Len(s)
             q == p + k - 1
             u == SubSeq(l, p, q)
  <1>1. /\ k \in Nat /\ Len(l) \in Nat /\ q <= Len(l)
        /\ \A i \in 1..k : l[p + i - 1] = s[i]
    BY LineIs DEF At
  <1>2. CASE k = 0
    <2>1. u = <<>>
      <3>1. q < p
        BY <1>1, <1>2
      <3>2. p \in Int /\ q \in Int
        BY <1>1
      <3> HIDE DEF q
      <3> QED
        BY <3>1, <3>2, SubSeqEmpty
    <2>2. s = <<>>
      BY <1>2 DEF Line
    <2> QED
      BY <2>1, <2>2
  <1>3. CASE k # 0
    <2>1. p \in 1..Len(l) /\ q \in p..Len(l) /\ q - p + 1 = k
      BY <1>1, <1>3
    <2> HIDE DEF q
    <2>2. /\ u \in Seq(Character) /\ Len(u) = q - p + 1
          /\ \A i \in 1..q - p + 1 : u[i] = l[p + i - 1]
      BY <2>1, SubSeqProperties DEF Line
    <2> HIDE DEF u, k
    <2>3. \A i \in 1..k : u[i] = s[i]
      BY <1>1, <2>1, <2>2
    <2>4. u = s
      BY <2>1, <2>2, <2>3, SeqEqual DEF Line, k
    <2> QED
      BY <2>4 DEF u, k, q
  <1> QED
    BY <1>2, <1>3

(* The token, the marker and the class make a line. *)
LEMMA BeginningIs ==
    ASSUME NEW h, IsHead(h)
    PROVE  /\ h.token \in Line /\ <<h.marker>> \in Line /\ h.class \in Line
           /\ h.token \o <<h.marker>> \in Line
           /\ Len(h.token \o <<h.marker>>) = Len(h.token) + 1
           /\ BeginningOf(h) \in Line
           /\ Len(BeginningOf(h)) = Len(h.token) + 1 + Len(h.class)
           /\ Len(h.token) \in Nat /\ Len(h.class) \in Nat
           /\ \A i \in 1..Len(h.token) : h.token[i] \in Digits
  <1>1. h.token \in Seq(Digits) /\ h.marker \in DOMAIN RecordKind /\ IsName(h.class)
    BY DEF IsHead
  <1>2. h.token \in Line
    BY <1>1, MarkersAre DEF Line
  <1>3. <<h.marker>> \in Line /\ Len(<<h.marker>>) = 1
    BY <1>1, MarkersAre, OneIsALine
  <1>4. h.class \in Line
    BY <1>1, NamesAre
  <1> DEFINE t == h.token
             z == <<h.marker>>
             c == h.class
             a == t \o z
  <1>5. BeginningOf(h) = a \o c
    BY Zenon DEF BeginningOf
  <1>6. Len(t) \in Nat /\ \A i \in 1..Len(t) : t[i] \in Digits
    BY <1>1
  <1> HIDE DEF z
  <1>7. a \in Line /\ Len(a) = Len(t) + Len(z) /\ Len(z) = 1 /\ z \in Line
    BY <1>2, <1>3, LinesJoin DEF z
  <1> HIDE DEF a
  <1>8. a \o c \in Line /\ Len(a \o c) = Len(a) + Len(c) /\ Len(c) \in Nat
    BY <1>4, <1>7, LinesJoin, LineIs
  <1> HIDE DEF t, c
  <1>9. Len(BeginningOf(h)) = Len(t) + 1 + Len(c) /\ Len(a) = Len(t) + 1
    BY <1>5, <1>7, <1>8
  <1> QED
    BY <1>2, <1>3, <1>4, <1>5, <1>6, <1>7, <1>8, <1>9 DEF a, z, t, c

(* A line that begins like a record is parsed as one. *)
LEMMA BeginningIsRead ==
    ASSUME NEW l \in Line, NEW h, IsHead(h), At(l, 1, BeginningOf(h)),
           Peek(l, 1 + Len(BeginningOf(h))) \notin IdentifierPart
    PROVE  /\ Parse(l) = ResultOrAsync(l)
           /\ Mark(l) = 1 + Len(h.token) /\ Token(l) = TokenOf(h.token)
           /\ l[Mark(l)] = h.marker
           /\ Identifier(l, Mark(l) + 1) =
                 Read(h.class, 1 + Len(BeginningOf(h)))
  <1> DEFINE t == h.token
             z == <<h.marker>>
             c == h.class
             a == t \o z
             b == BeginningOf(h)
             m == 1 + Len(t)
  <1>1. /\ t \in Line /\ z \in Line /\ c \in Line /\ a \in Line
        /\ Len(a) = Len(t) + 1 /\ b \in Line /\ Len(b) = Len(t) + 1 + Len(c)
        /\ Len(t) \in Nat /\ Len(c) \in Nat
        /\ \A i \in 1..Len(t) : t[i] \in Digits
    BY BeginningIs
  <1>2. h.marker \in DOMAIN RecordKind /\ IsName(c)
    BY DEF IsHead
  <1>3. Len(l) \in Nat /\ 1 \in 1..Len(l) + 1
    BY LineIs
  <1>4. b = a \o c
    BY Zenon DEF BeginningOf
  <1>5. At(l, 1, a) /\ 1 + Len(a) \in 1..Len(l) + 1 /\ At(l, 1 + Len(a), c)
    <2> HIDE DEF a, c
    <2>1. At(l, 1, a \o c)
      BY <1>4
    <2> QED
      BY <1>1, <1>3, <2>1, AtBoth DEF Line
  <1>6. At(l, 1, t) /\ m \in 1..Len(l) + 1 /\ At(l, m, z)
    <2> HIDE DEF t, z
    <2> QED
      BY <1>1, <1>3, <1>5, AtBoth DEF Line
  <1>7. Peek(l, m) = h.marker /\ l[m] = h.marker
    BY <1>6, AtOne
  <1>8. \A r \in 1..m - 1 : Peek(l, r) \in Digits
    <2> HIDE DEF t
    <2>1. \A r \in 1..Len(t) : 1 + r - 1 = r /\ r \in 1..Len(l)
      BY <1>1, <1>3, <1>6
    <2>2. \A r \in 1..Len(t) : l[r] = t[r]
      BY <1>6, <2>1 DEF At
    <2>3. \A r \in 1..Len(t) : Peek(l, r) \in Digits
      BY <1>1, <2>1, <2>2, LineIs
    <2>4. m - 1 = Len(t)
      BY <1>1
    <2> QED
      BY <2>3, <2>4
  <1>9. Mark(l) = m
    <2>1. m \in 1..Len(l) + 1 /\ Peek(l, m) \notin Digits /\ EndOfLine \notin Digits
      BY <1>2, <1>6, <1>7, MarkersAre
    <2> HIDE DEF m
    <2>2. Past(l, 1, Digits) = m
      BY <1>3, <1>8, <2>1, PastIsThere
    <2> QED
      BY <2>2 DEF Mark
  <1>10. Token(l) = TokenOf(t)
    <2>1. SubSeq(l, 1, 1 + Len(t) - 1) = t
      BY <1>1, <1>3, <1>6, AtIsSubSeq
    <2>2. Mark(l) - 1 = 1 + Len(t) - 1
      BY <1>9
    <2> QED
      BY <2>1, <2>2, Zenon DEF Token
  <1>11. Identifier(l, m + 1) = Read(c, 1 + Len(b))
    <2>1. m + 1 = 1 + Len(a)
      BY <1>1
    <2>2. m + 1 + Len(c) = 1 + Len(b)
      <3> DEFINE j == Len(t)
                 k == Len(c)
      <3>1. j \in Nat /\ k \in Nat /\ Len(b) = j + 1 + k
        BY <1>1
      <3> HIDE DEF j, k, b
      <3>2. 1 + j + 1 + k = 1 + (j + 1 + k)
        BY <3>1
      <3> QED
        BY <3>1, <3>2 DEF j, k
    <2> DEFINE r == m + 1
    <2>3. r \in 1..Len(l) + 1 /\ At(l, r, c) /\ r + Len(c) = 1 + Len(b)
      BY <1>5, <2>1, <2>2
    <2> HIDE DEF r, c, b
    <2>4. Peek(l, r + Len(c)) \notin IdentifierPart
      BY <2>3 DEF b
    <2>5. Identifier(l, r) = Read(c, r + Len(c))
      BY <1>2, <2>3, <2>4, NameIsRead
    <2> QED
      BY <2>3, <2>5 DEF r
  <1>12. l # Prompt
    <2>1. l[1] # "("
      <3>1. CASE m = 1
        BY <1>2, <1>7, <3>1, MarkersAre
      <3>2. CASE m # 1
        <4>1. 1 \in 1..m - 1 /\ 1 \in 1..Len(l)
          BY <1>1, <1>3, <1>6, <3>2
        <4>2. Peek(l, 1) \in Digits /\ Peek(l, 1) = l[1]
          BY <1>8, <4>1, LineIs
        <4> QED
          BY <4>2, MarkersAre
      <3> QED
        BY <3>1, <3>2
    <2>2. Prompt[1] = "("
      BY DEF Prompt
    <2> QED
      BY <2>1, <2>2
  <1>13. Parse(l) = ResultOrAsync(l)
    <2>1. /\ Peek(l, Mark(l)) \in DOMAIN RecordKind
          /\ Peek(l, Mark(l)) \notin DOMAIN StreamKind
      BY <1>2, <1>7, <1>9, MarkersAre
    <2> QED
      BY <1>12, <2>1, Zenon DEF Parse
  <1> QED
    BY <1>7, <1>9, <1>10, <1>11, <1>13

-----------------------------------------------------------------------------
(* A record is read back whole, and a torn one as far as its whole results *)
(* go (parser.py:26-106).                                                  *)

LineOf(h, es) ==
    IF es = <<>> THEN BeginningOf(h)
    ELSE BeginningOf(h) \o Separator \o Joined(es)
RecordFor(h, es, n) ==
    [kind |-> RecordKind[h.marker], token |-> TokenOf(h.token),
     class |-> h.class, results |-> DictOf(SubSeq(es, 1, n))]

(* What the rest of the line, from p on, is taken for. *)
RestOf(l, p, results) ==
    \/ /\ Peek(l, p) = EndOfLine /\ p = Len(l) + 1
       /\ results = Read(NoEntries, Len(l) + 1)
    \/ Peek(l, p) = Comma /\ results = Nested(l)[<<"results", p + 1>>]

(* What is read behind the class decides what the record is. *)
LEMMA RestIsRead ==
    ASSUME NEW l \in Line, NEW h, IsHead(h), At(l, 1, BeginningOf(h)),
           NEW p, p = 1 + Len(BeginningOf(h)), p \in 1..Len(l) + 1,
           NEW results, RestOf(l, p, results)
    PROVE  /\ results.at # Len(l) + 1 => Parse(l) = ParseError
           /\ \A es, n :
                 results = Read(DictOf(SubSeq(es, 1, n)), Len(l) + 1) =>
                    Parse(l) = RecordFor(h, es, n)
  <1> DEFINE class == Identifier(l, Mark(l) + 1)
             r == IF Peek(l, class.at) = Comma
                  THEN Nested(l)[<<"results", class.at + 1>>]
                  ELSE Read(NoEntries, class.at)
             record == [kind |-> RecordKind[l[Mark(l)]], token |-> Token(l),
                        class |-> class.value, results |-> r.value]
  <1>1. Peek(l, p) \notin IdentifierPart
    BY NoIdentifier DEF RestOf
  <1>2. /\ Parse(l) = ResultOrAsync(l)
        /\ Token(l) = TokenOf(h.token) /\ l[Mark(l)] = h.marker
        /\ class = Read(h.class, p)
    BY <1>1, BeginningIsRead
  <1>3. ResultOrAsync(l) = IF r.at = Len(l) + 1 THEN record ELSE ParseError
    BY Zenon DEF ResultOrAsync
  <1> HIDE DEF class
  <1>4. class.value = h.class /\ class.at = p
    BY <1>2, ReadOf
  <1>5. r = results
    <2>1. CASE Peek(l, p) = Comma /\ results = Nested(l)[<<"results", p + 1>>]
      BY <1>4, <2>1, Zenon
    <2>2. CASE /\ Peek(l, p) = EndOfLine /\ p = Len(l) + 1
               /\ results = Read(NoEntries, Len(l) + 1)
      <3>1. Peek(l, class.at) # Comma
        BY <1>4, <2>2, Distinct
      <3> QED
        BY <1>4, <2>2, <3>1, Zenon
    <2> QED
      BY <2>1, <2>2 DEF RestOf
  <1> HIDE DEF r
  <1>6. ASSUME results.at # Len(l) + 1 PROVE Parse(l) = ParseError
    BY <1>2, <1>3, <1>5, <1>6, Zenon
  <1>7. ASSUME NEW es, NEW n, results = Read(DictOf(SubSeq(es, 1, n)), Len(l) + 1)
        PROVE  Parse(l) = RecordFor(h, es, n)
    <2> DEFINE d == DictOf(SubSeq(es, 1, n))
    <2>1. r.value = d /\ r.at = Len(l) + 1
      BY <1>5, <1>7, ReadOf
    <2> HIDE DEF d
    <2>2. record = [kind |-> RecordKind[h.marker], token |-> TokenOf(h.token),
                    class |-> h.class, results |-> d]
      BY <1>2, <1>4, <2>1, Zenon
    <2> QED
      BY <1>2, <1>3, <2>1, <2>2, Zenon DEF RecordFor, d
  <1> QED
    BY <1>6, <1>7

(* The same, for a rest that is read to the end. *)
LEMMA RestIsWhole ==
    ASSUME NEW l \in Line, NEW h, IsHead(h), At(l, 1, BeginningOf(h)),
           NEW p, p = 1 + Len(BeginningOf(h)), p \in 1..Len(l) + 1,
           NEW results, RestOf(l, p, results), NEW es, NEW n,
           results = Read(DictOf(SubSeq(es, 1, n)), Len(l) + 1)
    PROVE  Parse(l) = RecordFor(h, es, n)
  BY RestIsRead, Zenon

(* A record with results is its beginning, a comma and the results. *)
LEMMA LineOfIs ==
    ASSUME NEW h, IsHead(h), NEW es, Entries(es), es # <<>>
    PROVE  /\ Separator \in Line /\ Len(Separator) = 1
           /\ BeginningOf(h) \in Line /\ Joined(es) \in Line
           /\ Separator \o Joined(es) \in Line
           /\ LineOf(h, es) = BeginningOf(h) \o (Separator \o Joined(es))
           /\ LineOf(h, es) \in Line
  <1> DEFINE b == BeginningOf(h)
             w == Joined(es)
  <1>1. b \in Line /\ w \in Line /\ Separator \in Line
    BY BeginningIs, JoinedIs, EntriesAre
  <1>2. LineOf(h, es) = b \o Separator \o w
    BY Zenon DEF LineOf
  <1>3. Len(Separator) = 1
    BY DEF Separator
  <1> HIDE DEF b, w
  <1>4. Separator \o w \in Line
    BY <1>1, LinesJoin
  <1>5. (b \o Separator) \o w = b \o (Separator \o w)
    BY <1>1, LinesAssociate
  <1>6. b \o (Separator \o w) \in Line
    BY <1>1, <1>4, LinesJoin
  <1>7. LineOf(h, es) = b \o (Separator \o w)
    BY <1>2, <1>5, Zenon
  <1> QED
    BY <1>1, <1>3, <1>4, <1>6, <1>7 DEF b, w

(* A line stands in itself. *)
LEMMA LineIsThere ==
    ASSUME NEW l \in Line
    PROVE  At(l, 1, l) /\ 1 \in 1..Len(l) + 1
  <1>1. Len(l) \in Nat
    BY LineIs
  <1>2. \A i \in 1..Len(l) : 1 + i - 1 = i
    BY <1>1
  <1> QED
    BY <1>1, <1>2 DEF At

(* The dict of no entries. *)
LEMMA NoneIsNothing ==
    ASSUME NEW es, IsSeq(es)
    PROVE  NoEntries = DictOf(SubSeq(es, 1, 0)) /\ 0 \in 0..Len(es)
  <1>1. Len(es) \in Nat
    BY DEF IsSeq
  <1>2. 0 \in 0..Len(es)
    BY <1>1
  <1>3. DictOf(SubSeq(es, 1, 0)) = Between(es, 1, 0)
    BY <1>2, DictIs
  <1>4. Between(es, 1, 0) = NoEntries
    BY BetweenNone
  <1> QED
    BY <1>2, <1>3, <1>4

(* The results of a record are read back; *)
LEMMA ResultsAreRead ==
    ASSUME NEW l \in Line, NEW es, Entries(es),
           \A i \in DOMAIN es : es[i].key # Keyless,
           NEW p \in 1..Len(l) + 1, At(l, p, Joined(es)),
           Peek(l, p + Len(Joined(es))) = EndOfLine
    PROVE  Nested(l)[<<"results", p>>] =
              Read(DictOf(SubSeq(es, 1, Len(es))), p + Len(Joined(es)))
  <1>1. "results" \in ResultRules
    BY DEF ResultRules
  <1>2. Joined(es) = Together(Parts(es))[1] /\ 1 \in 1..Len(es) + 1
    BY JoinedIs
  <1>3. /\ At(l, p, Together(Parts(es))[1])
        /\ Peek(l, p + Len(Together(Parts(es))[1])) \in {EndOf("results"), EndOfLine}
    BY <1>2
  <1>4. Nested(l)[<<"results", p>>] =
           Read(Between(es, 1, Len(es)), p + Len(Together(Parts(es))[1]))
    BY <1>1, <1>2, <1>3, FieldsAreRead, ZenonT(40)
  <1>5. DictOf(SubSeq(es, 1, Len(es))) = Between(es, 1, Len(es))
    BY JoinedIs
  <1> QED
    BY <1>2, <1>4, <1>5, Zenon

(* and so is the record. *)
LEMMA RecordIsRead ==
    ASSUME NEW h, IsHead(h), NEW es, Entries(es),
           \A i \in DOMAIN es : es[i].key # Keyless
    PROVE  Parse(LineOf(h, es)) = RecordFor(h, es, Len(es))
  <1> DEFINE b == BeginningOf(h)
             w == Joined(es)
             l == LineOf(h, es)
             p == 1 + Len(b)
  <1>1. b \in Line /\ Len(b) \in Nat
    BY BeginningIs, LineIs
  <1>2. CASE es = <<>>
    <2>1. l = b
      BY <1>2 DEF LineOf
    <2>2. At(l, 1, b) /\ p = Len(l) + 1 /\ p \in 1..Len(l) + 1 /\ l \in Line
      BY <1>1, <2>1, LineIsThere
    <2> HIDE DEF l, b
    <2>3. Peek(l, p) = EndOfLine
      <3>1. p \notin 1..Len(l)
        BY <1>1, <2>2
      <3> QED
        BY <2>2, <3>1, LineIs
    <2>4. Read(NoEntries, Len(l) + 1) = Read(DictOf(SubSeq(es, 1, 0)), Len(l) + 1)
      BY NoneIsNothing DEF Entries
    <2>5. Parse(l) = RecordFor(h, es, 0)
      <3> DEFINE r == Read(NoEntries, Len(l) + 1)
      <3>1. /\ Peek(l, p) = EndOfLine /\ p = Len(l) + 1
            /\ r = Read(NoEntries, Len(l) + 1)
        BY <2>2, <2>3
      <3>2. r = Read(DictOf(SubSeq(es, 1, 0)), Len(l) + 1)
        BY <2>4
      <3> HIDE DEF r
      <3> QED
        BY <2>2, <3>1, <3>2, RestIsWhole DEF b, RestOf
    <2>6. Len(es) = 0
      BY <1>2
    <2> QED
      BY <2>5, <2>6 DEF l
  <1>3. CASE es # <<>>
    <2>1. /\ Separator \in Line /\ Len(Separator) = 1 /\ w \in Line
          /\ Separator \o w \in Line /\ l \in Line
          /\ l = b \o (Separator \o w)
      BY <1>3, LineOfIs
    <2> HIDE DEF l, b, w
    <2>2. Len(l) \in Nat /\ 1 \in 1..Len(l) + 1 /\ At(l, 1, b \o (Separator \o w))
      BY <2>1, LineIs, LineIsThere
    <2>3. At(l, 1, b) /\ p \in 1..Len(l) + 1 /\ At(l, p, Separator \o w)
      BY <1>1, <2>1, <2>2, AtBoth DEF Line
    <2>4. At(l, p, Separator) /\ p + 1 \in 1..Len(l) + 1 /\ At(l, p + 1, w)
      BY <2>1, <2>3, AtBoth DEF Line
    <2>5. Peek(l, p) = Comma
      BY <2>1, <2>3, <2>4, AtOne DEF Separator
    <2>6. p + 1 + Len(w) = Len(l) + 1
      <3> DEFINE j == Len(b)
                 k == Len(w)
      <3>1. Len(l) = j + Len(Separator \o w) /\ Len(Separator \o w) = 1 + k
        <4> DEFINE v == Separator \o w
        <4>1. v \in Line /\ l = b \o v
          BY <2>1
        <4>2. Len(v) = 1 + k
          <5>1. Len(Separator \o w) = Len(Separator) + Len(w)
            BY <2>1, LinesJoin, Zenon
          <5> QED
            BY <2>1, <5>1
        <4> HIDE DEF v
        <4>3. Len(b \o v) = j + Len(v)
          BY <1>1, <4>1, LinesJoin
        <4> QED
          BY <4>1, <4>2, <4>3 DEF v
      <3>2. j \in Nat /\ k \in Nat
        BY <1>1, <2>1, LineIs
      <3> HIDE DEF j, k
      <3>3. Len(l) = j + (1 + k)
        BY <3>1
      <3>4. 1 + j + 1 + k = j + (1 + k) + 1
        BY <3>2
      <3> QED
        BY <3>3, <3>4, Zenon DEF j, k
    <2> DEFINE r == Nested(l)[<<"results", p + 1>>]
    <2>8. r = Read(DictOf(SubSeq(es, 1, Len(es))), Len(l) + 1)
      <3>1. Len(l) + 1 \notin 1..Len(l)
        BY <2>2
      <3>2. Peek(l, p + 1 + Len(w)) = EndOfLine
        BY <2>1, <2>6, <3>1, LineIs
      <3> DEFINE s == p + 1
      <3>3. s \in 1..Len(l) + 1 /\ At(l, s, w) /\ Peek(l, s + Len(w)) = EndOfLine
        BY <2>4, <3>2
      <3> HIDE DEF s
      <3>4. Nested(l)[<<"results", s>>] =
               Read(DictOf(SubSeq(es, 1, Len(es))), s + Len(w))
        BY <2>1, <3>3, ResultsAreRead, Zenon DEF w
      <3> QED
        BY <2>6, <3>4 DEF s
    <2>9. Parse(l) = RecordFor(h, es, Len(es))
      <3>1. RestOf(l, p, r)
        BY <2>5, Zenon DEF RestOf
      <3> HIDE DEF r
      <3>2. At(l, 1, BeginningOf(h)) /\ p = 1 + Len(BeginningOf(h))
        BY <2>3, Zenon DEF b
      <3>3. l \in Line /\ p \in 1..Len(l) + 1
        BY <2>1, <2>3
      <3>4. r = Read(DictOf(SubSeq(es, 1, Len(es))), Len(l) + 1)
        BY <2>8, Zenon DEF r
      <3> DEFINE n == Len(es)
      <3> HIDE DEF p, n
      <3> QED
        BY <3>1, <3>2, <3>3, <3>4, RestIsWhole, Zenon DEF n
    <2> QED
      BY <2>9 DEF l
  <1> QED
    BY <1>2, <1>3

(* Results cut short are unreadable, or whole ones are lost from the end. *)
LEMMA ResultsAreTorn ==
    ASSUME NEW l \in Line, NEW es, Entries(es),
           \A i \in DOMAIN es : es[i].key # Keyless,
           NEW p \in 1..Len(l) + 1, Cut(l, p, Joined(es))
    PROVE  LET r == Nested(l)[<<"results", p>>]
           IN  \/ r.at = Nowhere
               \/ \E m \in 0..Len(es) - 1 :
                     r = Read(DictOf(SubSeq(es, 1, m)), Len(l) + 1)
  <1> DEFINE r == Nested(l)[<<"results", p>>]
  <1>1. "results" \in ResultRules
    BY DEF ResultRules
  <1>2. Joined(es) = Together(Parts(es))[1] /\ 1 \in 1..Len(es) + 1
    BY JoinedIs
  <1>3. Cut(l, p, Together(Parts(es))[1])
    BY <1>2
  <1>4. \/ r.at = Nowhere
        \/ \E m \in 1 - 1..Len(es) - 1 : r = Read(Between(es, 1, m), Len(l) + 1)
    BY <1>1, <1>2, <1>3, FieldsAreTorn, Zenon
  <1>5. 1 - 1 = 0
    OBVIOUS
  <1> HIDE DEF r
  <1>6. CASE r.at # Nowhere
    <2>1. PICK m \in 0..Len(es) - 1 : r = Read(Between(es, 1, m), Len(l) + 1)
      BY <1>4, <1>5, <1>6, Zenon
    <2>2. Len(es) \in Nat
      BY EntriesAre
    <2>3. m \in 0..Len(es)
      BY <2>2
    <2>4. IsSeq(es)
      BY DEF Entries
    <2>5. DictOf(SubSeq(es, 1, m)) = Between(es, 1, m)
      BY <2>3, <2>4, DictIs
    <2>6. r = Read(DictOf(SubSeq(es, 1, m)), Len(l) + 1)
      BY <2>1, <2>5, Zenon
    <2> QED
      BY <2>6, Zenon DEF r
  <1> QED
    BY <1>6, Zenon DEF r

(* A line is cut short by each of its beginnings. *)
LEMMA PrefixIsCut ==
    ASSUME NEW u \in Line, NEW n \in 0..Len(u) - 1
    PROVE  LET l == SubSeq(u, 1, n)
           IN  l \in Line /\ Len(l) = n /\ 1 \in 1..Len(l) + 1 /\ Cut(l, 1, u)
  <1> DEFINE l == SubSeq(u, 1, n)
             k == Len(u)
  <1>1. k \in Nat /\ n \in Nat /\ n < k
    BY LineIs
  <1>2. u \in Seq(Character) /\ n \in 1 - 1..Len(u) /\ 1 \in 1..Len(u) + 1
    BY <1>1 DEF Line
  <1>3. l \in Line /\ Len(l) = n /\ \A i \in 1..n : l[i] = u[i]
    BY <1>1, <1>2 DEF Line
  <1> HIDE DEF l
  <1>4. 1 \in 1..Len(l) + 1 /\ Len(l) + 1 - 1 < Len(u)
    BY <1>1, <1>3
  <1>5. \A i \in 1..Len(l) + 1 - 1 : l[1 + i - 1] = u[i]
    BY <1>1, <1>3
  <1> QED
    BY <1>3, <1>4, <1>5 DEF Cut, l

(* A line that goes on to be cut loses whole results or is refused. *)
LEMMA RecordIsTorn ==
    ASSUME NEW h, IsHead(h), NEW es, Entries(es),
           \A i \in DOMAIN es : es[i].key # Keyless,
           NEW n \in Len(BeginningOf(h))..Len(LineOf(h, es)) - 1
    PROVE  LET torn == Parse(SubSeq(LineOf(h, es), 1, n))
           IN  torn = ParseError \/ \E m \in 0..Len(es) - 1 : torn = RecordFor(h, es, m)
  <1> DEFINE b == BeginningOf(h)
             w == Joined(es)
             u == LineOf(h, es)
             l == SubSeq(u, 1, n)
             p == 1 + Len(b)
  <1>1. b \in Line /\ Len(b) \in Nat
    BY BeginningIs, LineIs
  <1>2. es # <<>>
    <2>1. CASE es = <<>>
      <3>1. u = b
        BY <2>1 DEF LineOf
      <3> QED
        BY <1>1, <3>1
    <2> QED
      BY <2>1
  <1>3. /\ Separator \in Line /\ Len(Separator) = 1 /\ w \in Line
        /\ Separator \o w \in Line /\ u \in Line
        /\ u = b \o (Separator \o w)
    BY <1>2, LineOfIs
  <1>4. Len(es) \in Nat \ {0}
    BY <1>2, EntriesAre DEF Entries, IsSeq
  <1> HIDE DEF b, w, u
  <1>5. n \in 0..Len(u) - 1 /\ n >= Len(b)
    <2>1. Len(u) \in Nat
      BY <1>3, LineIs
    <2>2. n \in Len(b)..Len(u) - 1
      BY Zenon DEF b, u
    <2> QED
      BY <1>1, <2>1, <2>2
  <1>6. l \in Line /\ Len(l) = n /\ 1 \in 1..Len(l) + 1 /\ Cut(l, 1, u)
    BY <1>3, <1>5, PrefixIsCut
  <1> HIDE DEF l
  <1>7. Len(l) \in Nat /\ Cut(l, 1, b \o (Separator \o w))
    BY <1>3, <1>6, LineIs
  <1>8. ~Cut(l, 1, b)
    BY <1>1, <1>5, <1>6 DEF Cut
  <1>9. /\ At(l, 1, b) /\ p \in 1..Len(l) + 1 /\ Cut(l, p, Separator \o w)
    BY <1>1, <1>3, <1>6, <1>7, <1>8, CutInOne DEF Line
  <1>10. \/ Cut(l, p, Separator)
         \/ /\ At(l, p, Separator) /\ p + 1 \in 1..Len(l) + 1
            /\ Cut(l, p + 1, w)
    BY <1>3, <1>6, <1>9, CutInOne DEF Line
  <1>11. At(l, 1, BeginningOf(h)) /\ p = 1 + Len(BeginningOf(h))
    BY <1>9, Zenon DEF b
  <1>12. CASE Cut(l, p, Separator)
    <2>1. p = Len(l) + 1 /\ Peek(l, p) = EndOfLine
      BY <1>6, <1>9, <1>12, CutOne DEF Separator
    <2> DEFINE r == Read(NoEntries, Len(l) + 1)
    <2>2. RestOf(l, p, r)
      BY <2>1, Zenon DEF RestOf
    <2>3. r = Read(DictOf(SubSeq(es, 1, 0)), Len(l) + 1)
      BY NoneIsNothing DEF Entries
    <2> HIDE DEF r, p
    <2>4. Parse(l) = RecordFor(h, es, 0)
      BY <1>6, <1>9, <1>11, <2>2, <2>3, RestIsWhole, Zenon
    <2>5. 0 \in 0..Len(es) - 1
      BY <1>4
    <2> QED
      BY <2>4, <2>5, Zenon DEF l, u
  <1>13. CASE At(l, p, Separator) /\ p + 1 \in 1..Len(l) + 1 /\ Cut(l, p + 1, w)
    <2> DEFINE s == p + 1
               r == Nested(l)[<<"results", s>>]
    <2>1. Peek(l, p) = Comma
      BY <1>6, <1>9, <1>13, AtOne DEF Separator
    <2>2. RestOf(l, p, r)
      BY <2>1, Zenon DEF RestOf
    <2>3. s \in 1..Len(l) + 1 /\ Cut(l, s, Joined(es))
      BY <1>13, Zenon DEF w
    <2> HIDE DEF s
    <2>4. \/ r.at = Nowhere
          \/ \E m \in 0..Len(es) - 1 :
                r = Read(DictOf(SubSeq(es, 1, m)), Len(l) + 1)
      BY <1>6, <2>3, ResultsAreTorn, Zenon
    <2> HIDE DEF r, p
    <2>5. CASE r.at = Nowhere
      <3>1. r.at # Len(l) + 1
        BY <1>7, <2>5 DEF Nowhere
      <3>2. Parse(l) = ParseError
        BY <1>6, <1>9, <1>11, <2>2, <3>1, RestIsRead, Zenon
      <3> QED
        BY <3>2, Zenon DEF l, u
    <2>6. CASE \E m \in 0..Len(es) - 1 :
                  r = Read(DictOf(SubSeq(es, 1, m)), Len(l) + 1)
      <3>1. PICK m \in 0..Len(es) - 1 :
                  r = Read(DictOf(SubSeq(es, 1, m)), Len(l) + 1)
        BY <2>6, Zenon
      <3>2. Parse(l) = RecordFor(h, es, m)
        BY <1>6, <1>9, <1>11, <2>2, <3>1, RestIsWhole, Zenon
      <3> QED
        BY <3>2, Zenon DEF l, u
    <2> QED
      BY <2>4, <2>5, <2>6, Zenon
  <1> QED
    BY <1>10, <1>12, <1>13, Zenon

-----------------------------------------------------------------------------
(***************************************************************************)
(* GDB's printer as a state machine: what is open is made of entries that  *)
(* are read back, so the record is when it ends.                           *)
(***************************************************************************)
(* The names an entry may have. *)
KeysOf(kind) == IF kind = "list" THEN Names \cup {Keyless} ELSE Names

(* A record, tuple or list, its entries so far readable. *)
IsLevel(v) ==
    /\ v.kind \in {"record", "tuple", "list"}
    /\ v = [kind |-> v.kind, key |-> v.key, entries |-> v.entries]
    /\ Entries(v.entries)
    /\ \A i \in DOMAIN v.entries : v.entries[i].key \in KeysOf(v.kind)

(* What is open in the record is a tuple or a list, with a key as its      *)
(* surroundings ask for.                                                   *)
Nesting(ls) ==
    /\ IsSeq(ls) /\ Len(ls) \in Nat \ {0}
    /\ ls[1].kind = "record"
    /\ \A i \in 1..Len(ls) : IsLevel(ls[i])
    /\ \A i \in 2..Len(ls) :
          ls[i].kind \in {"tuple", "list"} /\ ls[i].key \in KeysOf(ls[i - 1].kind)

LevelsInv == head \in Heads /\ Nesting(levels)

(* What PrinterAssumption says of GDB's strings, heads and names. *)
LEMMA TextsAre ==
    /\ \A t \in Texts : t \in Line
    /\ \A h \in Heads : IsHead(h)
    /\ \A k \in Names : IsName(k) /\ k # Keyless
  <1>1. \A t \in Texts : t \in Line
    <2> SUFFICES ASSUME NEW t \in Texts PROVE t \in Line
      OBVIOUS
    <2>1. t \in Seq(Characters(t))
      BY PrinterAssumption, Zenon DEF IsText
    <2>2. Characters(t) \subseteq Character
      BY Zenon DEF Character
    <2> HIDE DEF Characters
    <2> QED
      BY <2>1, <2>2 DEF Line
  <1>2. \A h \in Heads : IsHead(h)
    BY PrinterAssumption, Zenon DEF IsHead
  <1>3. \A k \in Names : IsName(k)
    BY PrinterAssumption, Zenon
  <1> QED
    BY <1>1, <1>2, <1>3, NamesAre, Zenon

(* Only in a list may an entry have no name. *)
LEMMA KeysAre ==
    ASSUME NEW v, IsLevel(v)
    PROVE  /\ \A k \in KeysOf(v.kind) : k = Keyless \/ IsName(k)
           /\ v.kind # "list" =>
                 \A i \in DOMAIN v.entries : v.entries[i].key # Keyless
  <1>1. \A k \in KeysOf(v.kind) : k = Keyless \/ IsName(k)
    BY TextsAre, Zenon DEF KeysOf
  <1>2. v.kind # "list" => \A i \in DOMAIN v.entries : v.entries[i].key # Keyless
    BY TextsAre, Zenon DEF KeysOf, IsLevel
  <1> QED
    BY <1>1, <1>2

(* A sequence over any set is a sequence. *)
LEMMA IsSeqOf ==
    ASSUME NEW T, NEW s \in Seq(T)
    PROVE  IsSeq(s) /\ Len(s) \in Nat /\ DOMAIN s = 1..Len(s)
  <1> DEFINE R == {s[i] : i \in DOMAIN s}
  <1>1. DOMAIN s = 1..Len(s) /\ Len(s) \in Nat
    OBVIOUS
  <1>2. s = [i \in 1..Len(s) |-> s[i]] /\ \A i \in 1..Len(s) : s[i] \in R
    BY <1>1
  <1> HIDE DEF R
  <1>3. s \in [1..Len(s) -> R]
    BY <1>2
  <1>4. s \in Seq(R)
    BY <1>1, <1>3, SeqDef
  <1> QED
    BY <1>1, <1>4 DEF R, IsSeq

(* The entries with one more. *)
LEMMA OneMore ==
    ASSUME NEW es, IsSeq(es), NEW e
    PROVE  /\ IsSeq(Append(es, e)) /\ Len(Append(es, e)) = Len(es) + 1
           /\ Len(es) \in Nat /\ DOMAIN Append(es, e) = 1..Len(es) + 1
           /\ \A i \in 1..Len(es) : Append(es, e)[i] = es[i]
           /\ Append(es, e)[Len(es) + 1] = e
  <1> DEFINE T == {es[i] : i \in DOMAIN es} \cup {e}
  <1>1. es \in Seq({es[i] : i \in DOMAIN es})
    BY DEF IsSeq
  <1>2. {es[i] : i \in DOMAIN es} \subseteq T /\ e \in T
    OBVIOUS
  <1> HIDE DEF T
  <1>3. es \in Seq(T)
    BY <1>1, <1>2
  <1>4. /\ Append(es, e) \in Seq(T) /\ Len(Append(es, e)) = Len(es) + 1
        /\ Len(es) \in Nat
        /\ \A i \in 1..Len(es) : Append(es, e)[i] = es[i]
        /\ Append(es, e)[Len(es) + 1] = e
    BY <1>2, <1>3
  <1> HIDE DEF T
  <1>5. /\ IsSeq(Append(es, e))
        /\ DOMAIN Append(es, e) = 1..Len(Append(es, e))
    BY <1>4, IsSeqOf
  <1> QED
    BY <1>4, <1>5

(* A level that gets a readable entry remains one. *)
LEMMA FilledIs ==
    ASSUME NEW v, IsLevel(v), NEW e, ReadableEntry(e), e.key \in KeysOf(v.kind)
    PROVE  /\ IsLevel(Filled(v, e))
           /\ Filled(v, e).kind = v.kind /\ Filled(v, e).key = v.key
  <1> DEFINE es == Append(v.entries, e)
             f == Filled(v, e)
  <1>1. f = [kind |-> v.kind, key |-> v.key, entries |-> es]
    BY DEF Filled, IsLevel
  <1>2. /\ Entries(v.entries) /\ v.kind \in {"record", "tuple", "list"}
        /\ \A i \in DOMAIN v.entries : v.entries[i].key \in KeysOf(v.kind)
    BY DEF IsLevel
  <1>3. /\ IsSeq(es) /\ Len(v.entries) \in Nat
        /\ DOMAIN es = 1..Len(v.entries) + 1
        /\ \A i \in 1..Len(v.entries) : es[i] = v.entries[i]
        /\ es[Len(v.entries) + 1] = e
    BY <1>2, OneMore DEF Entries
  <1> HIDE DEF es, f
  <1>4. f.kind = v.kind /\ f.key = v.key /\ f.entries = es
    BY <1>1
  <1>5. \A i \in DOMAIN es : ReadableEntry(es[i]) /\ es[i].key \in KeysOf(v.kind)
    <2> SUFFICES ASSUME NEW i \in DOMAIN es
                 PROVE  ReadableEntry(es[i]) /\ es[i].key \in KeysOf(v.kind)
      OBVIOUS
    <2>1. i \in 1..Len(v.entries) \/ i = Len(v.entries) + 1
      BY <1>3
    <2>2. CASE i \in 1..Len(v.entries)
      <3>1. es[i] = v.entries[i] /\ i \in DOMAIN v.entries
        BY <1>2, <1>3, <2>2, EntriesAre
      <3> QED
        BY <1>2, <3>1 DEF Entries
    <2>3. CASE i = Len(v.entries) + 1
      BY <1>3, <2>3
    <2> QED
      BY <2>1, <2>2, <2>3
  <1>6. f = [kind |-> f.kind, key |-> f.key, entries |-> f.entries]
    BY <1>1, <1>4
  <1>7. Entries(es)
    BY <1>3, <1>5, Zenon DEF Entries
  <1>8. IsLevel(f)
    BY <1>2, <1>4, <1>5, <1>6, <1>7, Zenon DEF IsLevel
  <1> QED
    BY <1>4, <1>8, Zenon DEF f

(* A level closed is a readable entry of the one around it. *)
LEMMA ClosingIs ==
    ASSUME NEW v, IsLevel(v), v.kind \in {"tuple", "list"},
           NEW kind, v.key \in KeysOf(kind)
    PROVE  ReadableEntry(Closing(v)) /\ Closing(v).key = v.key
  <1>1. Entries(v.entries)
    BY DEF IsLevel
  <1>2. v.key = Keyless \/ IsName(v.key)
    BY TextsAre, Zenon DEF KeysOf
  <1>3. CASE v.kind = "tuple"
    <2> DEFINE text == Enclosed(OpenTuple, Joined(v.entries), CloseTuple)
               value == Dict(DictOf(v.entries))
    <2>1. \A i \in DOMAIN v.entries : v.entries[i].key # Keyless
      BY <1>3, KeysAre
    <2>2. Readable(text, value)
      BY <1>1, <2>1, TupleIsReadable
    <2>3. Closing(v) = [key |-> v.key, value |-> value, text |-> text]
      BY <1>3, Zenon DEF Closing
    <2> HIDE DEF text, value
    <2>4. /\ Closing(v).key = v.key /\ Closing(v).value = value
          /\ Closing(v).text = text
      BY <2>3
    <2> QED
      BY <1>2, <2>2, <2>4, Zenon DEF ReadableEntry
  <1>4. CASE v.kind = "list"
    <2> DEFINE text == Enclosed(OpenList, Joined(v.entries), CloseList)
               value == List(ItemsOf(v.entries))
    <2>2. Readable(text, value)
      BY <1>1, ListIsReadable
    <2>1. v.kind # "tuple"
      BY <1>4
    <2>3. Closing(v) = [key |-> v.key, value |-> value, text |-> text]
      BY <2>1, Zenon DEF Closing
    <2> HIDE DEF text, value
    <2>4. /\ Closing(v).key = v.key /\ Closing(v).value = value
          /\ Closing(v).text = text
      BY <2>3
    <2> QED
      BY <1>2, <2>2, <2>4, Zenon DEF ReadableEntry
  <1> QED
    BY <1>3, <1>4

(* So is a string with a name, or without one in a list. *)
LEMMA ConstIs ==
    ASSUME NEW t \in Texts, NEW kind, NEW k \in KeysOf(kind)
    PROVE  LET e == [key |-> k, value |-> Text(t), text |-> RenderConst(t)]
           IN  ReadableEntry(e) /\ e.key = k
  <1> DEFINE text == RenderConst(t)
             value == Text(t)
             e == [key |-> k, value |-> value, text |-> text]
  <1>1. Readable(text, value)
    BY TextsAre, ConstIsReadable
  <1>2. k = Keyless \/ IsName(k)
    BY TextsAre, Zenon DEF KeysOf
  <1> HIDE DEF text, value
  <1>3. e.key = k /\ e.value = value /\ e.text = text
    OBVIOUS
  <1> HIDE DEF e
  <1>4. ReadableEntry(e) /\ e.key = k
    BY <1>1, <1>2, <1>3, Zenon DEF ReadableEntry
  <1> QED
    BY <1>4, Zenon DEF e, text, value

(* A sequence with another last element. *)
WithLast(s, x) == [s EXCEPT ![Len(s)] = x]

(* The others remain as they are when the last of a sequence changes. *)
LEMMA LastChanged ==
    ASSUME NEW s, IsSeq(s), Len(s) \in Nat \ {0}, NEW x,
           NEW s2, s2 = WithLast(s, x)
    PROVE  /\ IsSeq(s2) /\ Len(s2) = Len(s) /\ s2[Len(s)] = x
           /\ \A i \in 1..Len(s) - 1 : s2[i] = s[i]
  <1> DEFINE T == {s[i] : i \in DOMAIN s} \cup {x}
  <1>1. s \in Seq({s[i] : i \in DOMAIN s})
    BY DEF IsSeq
  <1>2. {s[i] : i \in DOMAIN s} \subseteq T /\ x \in T
    OBVIOUS
  <1> HIDE DEF T
  <1>3. s \in Seq(T) /\ DOMAIN s = 1..Len(s)
    BY <1>1, <1>2
  <1>4. /\ s2 \in Seq(T) /\ Len(s2) = Len(s) /\ s2[Len(s)] = x
        /\ \A i \in 1..Len(s) - 1 : s2[i] = s[i]
    BY <1>2, <1>3 DEF WithLast
  <1> QED
    BY <1>4, IsSeqOf

(* The others remain when it is dropped. *)
LEMMA AllButLast ==
    ASSUME NEW s, IsSeq(s), Len(s) \in Nat, NEW m \in 1..Len(s) - 1
    PROVE  LET r == SubSeq(s, 1, m)
           IN  IsSeq(r) /\ Len(r) = m /\ \A i \in 1..m : r[i] = s[i]
  <1> DEFINE T == {s[i] : i \in DOMAIN s}
             r == SubSeq(s, 1, m)
  <1>1. s \in Seq(T)
    BY DEF IsSeq
  <1> HIDE DEF T
  <1>2. r \in Seq(T) /\ Len(r) = m /\ \A i \in 1..m : r[i] = s[i]
    BY <1>1
  <1> HIDE DEF r
  <1>3. IsSeq(r)
    BY <1>2, IsSeqOf
  <1> QED
    BY <1>2, <1>3 DEF r

(* A level that has just begun. *)
LEMMA LevelIs ==
    ASSUME NEW kind \in {"record", "tuple", "list"}, NEW key
    PROVE  LET v == Level(kind, key)
           IN  IsLevel(v) /\ v.kind = kind /\ v.key = key
  <1> DEFINE v == Level(kind, key)
             none == v.entries
  <1>1. /\ v.kind = kind /\ v.key = key /\ v.entries = <<>>
        /\ v = [kind |-> v.kind, key |-> v.key, entries |-> v.entries]
    BY DEF Level
  <1> HIDE DEF v
  <1>2. none \in Seq({}) /\ \A i \in DOMAIN none : FALSE
    BY <1>1
  <1> HIDE DEF none
  <1>3. IsSeq(none)
    BY <1>2, IsSeqOf
  <1>4. Entries(none)
    BY <1>2, <1>3, Zenon DEF Entries
  <1>5. IsLevel(v)
    BY <1>1, <1>2, <1>4 DEF IsLevel, none
  <1> QED
    BY <1>1, <1>5, Zenon DEF v

(* The innermost level filled, one more opened in it, or it left. *)
LEMMA NestingFilled ==
    ASSUME NEW ls, Nesting(ls), NEW v, IsLevel(v),
           v.kind = ls[Len(ls)].kind, v.key = ls[Len(ls)].key,
           NEW new, new = WithLast(ls, v)
    PROVE  Nesting(new)
  <1> DEFINE n == Len(ls)
  <1>1. /\ IsSeq(ls) /\ n \in Nat \ {0} /\ ls[1].kind = "record"
        /\ \A i \in 1..n : IsLevel(ls[i])
        /\ \A i \in 2..n :
              ls[i].kind \in {"tuple", "list"} /\ ls[i].key \in KeysOf(ls[i - 1].kind)
    BY Zenon DEF Nesting
  <1>2. /\ IsSeq(new) /\ Len(new) = n /\ new[n] = v
        /\ \A i \in 1..n - 1 : new[i] = ls[i]
    <2>1. IsSeq(ls) /\ Len(ls) \in Nat \ {0}
      BY <1>1
    <2> QED
      BY <2>1, LastChanged
  <1> HIDE DEF n
  <1>3. \A i \in 1..n : /\ IsLevel(new[i]) /\ new[i].kind = ls[i].kind
                        /\ new[i].key = ls[i].key
    <2> SUFFICES ASSUME NEW i \in 1..n
                 PROVE  /\ IsLevel(new[i]) /\ new[i].kind = ls[i].kind
                        /\ new[i].key = ls[i].key
      OBVIOUS
    <2>1. i \in 1..n - 1 \/ i = n
      BY <1>1
    <2>2. CASE i = n
      BY <1>2, <2>2 DEF n
    <2>3. CASE i \in 1..n - 1
      BY <1>1, <1>2, <2>3
    <2> QED
      BY <2>1, <2>2, <2>3
  <1>4. new[1].kind = "record"
    <2>1. 1 \in 1..n
      BY <1>1
    <2> QED
      BY <1>1, <1>3, <2>1
  <1>5. \A i \in 2..n : /\ new[i].kind \in {"tuple", "list"}
                        /\ new[i].key \in KeysOf(new[i - 1].kind)
    <2> SUFFICES ASSUME NEW i \in 2..n
                 PROVE  /\ new[i].kind \in {"tuple", "list"}
                        /\ new[i].key \in KeysOf(new[i - 1].kind)
      OBVIOUS
    <2>1. i \in 1..n /\ i - 1 \in 1..n
      BY <1>1
    <2>2. /\ ls[i].kind \in {"tuple", "list"} /\ ls[i].key \in KeysOf(ls[i - 1].kind)
      BY <1>1
    <2> DEFINE j == i - 1
    <2>3. new[j].kind = ls[j].kind /\ ls[i].key \in KeysOf(ls[j].kind)
      BY <1>3, <2>1, <2>2
    <2> HIDE DEF j
    <2>4. new[i].kind = ls[i].kind /\ new[i].key = ls[i].key
      BY <1>3, <2>1
    <2>5. new[i].key \in KeysOf(new[j].kind)
      BY <2>3, <2>4
    <2> QED
      BY <2>2, <2>4, <2>5 DEF j
  <1> QED
    BY <1>1, <1>2, <1>3, <1>4, <1>5 DEF Nesting

(* A tuple or a list begins in the innermost level. *)
LEMMA NestingOpened ==
    ASSUME NEW ls, Nesting(ls), NEW kind \in {"tuple", "list"},
           NEW key, key \in KeysOf(ls[Len(ls)].kind),
           NEW new, new = Append(ls, Level(kind, key))
    PROVE  Nesting(new)
  <1> DEFINE n == Len(ls)
             v == Level(kind, key)
  <1>1. /\ IsSeq(ls) /\ n \in Nat \ {0} /\ ls[1].kind = "record"
        /\ \A i \in 1..n : IsLevel(ls[i])
        /\ \A i \in 2..n :
              ls[i].kind \in {"tuple", "list"} /\ ls[i].key \in KeysOf(ls[i - 1].kind)
    BY Zenon DEF Nesting
  <1>2. v.kind = kind /\ v.key = key
    BY LevelIs
  <1>4. IsLevel(v)
    BY LevelIs
  <1> HIDE DEF v
  <1>5. /\ IsSeq(new) /\ Len(new) = n + 1 /\ new[n + 1] = v
        /\ \A i \in 1..n : new[i] = ls[i]
    BY <1>1, OneMore DEF v
  <1>6. key \in KeysOf(ls[n].kind)
    OBVIOUS
  <1> HIDE DEF n
  <1>7. \A i \in 1..n + 1 : IsLevel(new[i])
    <2> SUFFICES ASSUME NEW i \in 1..n + 1 PROVE IsLevel(new[i])
      OBVIOUS
    <2>1. i \in 1..n \/ i = n + 1
      BY <1>1
    <2> QED
      BY <1>1, <1>4, <1>5, <2>1
  <1>8. new[1].kind = "record"
    <2>1. 1 \in 1..n
      BY <1>1
    <2> QED
      BY <1>1, <1>5, <2>1
  <1>9. \A i \in 2..n + 1 : /\ new[i].kind \in {"tuple", "list"}
                            /\ new[i].key \in KeysOf(new[i - 1].kind)
    <2> SUFFICES ASSUME NEW i \in 2..n + 1
                 PROVE  /\ new[i].kind \in {"tuple", "list"}
                        /\ new[i].key \in KeysOf(new[i - 1].kind)
      OBVIOUS
    <2> DEFINE j == i - 1
    <2>1. i \in 2..n \/ (i = n + 1 /\ j = n)
      BY <1>1
    <2>2. new[j] = ls[j]
      <3>1. j \in 1..n
        BY <1>1
      <3> QED
        BY <1>5, <3>1
    <2>3. CASE i \in 2..n
      <3>1. i \in 1..n
        BY <1>1, <2>3
      <3>2. new[i] = ls[i]
        BY <1>5, <3>1
      <3> QED
        BY <1>1, <2>2, <2>3, <3>2
    <2> HIDE DEF j
    <2>4. CASE i = n + 1 /\ j = n
      <3>1. new[i] = v /\ new[j].kind = ls[n].kind
        BY <1>5, <2>2, <2>4
      <3> QED
        BY <1>2, <1>6, <3>1 DEF j
    <2> QED
      BY <2>1, <2>3, <2>4
  <1>10. n + 1 \in Nat \ {0}
    BY <1>1
  <1> QED
    BY <1>5, <1>7, <1>8, <1>9, <1>10 DEF Nesting

(* The levels around the innermost one. *)
LEMMA NestingLeft ==
    ASSUME NEW ls, Nesting(ls), NEW m, m = Len(ls) - 1, Len(ls) > 1
    PROVE  LET new == SubSeq(ls, 1, m)
           IN  Nesting(new) /\ Len(new) = m /\ new[m] = ls[m] /\ m \in 1..Len(ls) - 1
  <1> DEFINE n == Len(ls)
             new == SubSeq(ls, 1, m)
  <1>1. /\ IsSeq(ls) /\ n \in Nat \ {0} /\ ls[1].kind = "record"
        /\ \A i \in 1..n : IsLevel(ls[i])
        /\ \A i \in 2..n :
              ls[i].kind \in {"tuple", "list"} /\ ls[i].key \in KeysOf(ls[i - 1].kind)
    BY Zenon DEF Nesting
  <1>2. m \in 1..n - 1
    BY <1>1
  <1>3. IsSeq(new) /\ Len(new) = m /\ \A i \in 1..m : new[i] = ls[i]
    BY <1>1, <1>2, AllButLast
  <1> HIDE DEF n, new
  <1>4. m \in Nat \ {0} /\ 1 \in 1..m /\ m \in 1..m
    BY <1>1, <1>2
  <1>5. \A i \in 1..m : i \in 1..n /\ IsLevel(new[i])
    BY <1>1, <1>2, <1>3
  <1>6. \A i \in 2..m : /\ new[i].kind \in {"tuple", "list"}
                        /\ new[i].key \in KeysOf(new[i - 1].kind)
    <2> SUFFICES ASSUME NEW i \in 2..m
                 PROVE  /\ new[i].kind \in {"tuple", "list"}
                        /\ new[i].key \in KeysOf(new[i - 1].kind)
      OBVIOUS
    <2>1. i \in 1..m /\ i - 1 \in 1..m /\ i \in 2..n
      BY <1>1, <1>2
    <2>2. new[i] = ls[i] /\ new[i - 1] = ls[i - 1]
      BY <1>3, <2>1
    <2> QED
      BY <1>1, <2>1, <2>2
  <1>7. new[1].kind = "record" /\ new[m] = ls[m]
    BY <1>1, <1>3, <1>4
  <1>8. Nesting(new)
    BY <1>3, <1>4, <1>5, <1>6, <1>7 DEF Nesting
  <1> QED
    BY <1>2, <1>3, <1>7, <1>8 DEF n, new

(* The steps of the printer. *)
LEMMA PrinterKeepsLevels == LevelsInv /\ [PrinterNext]_printerVars => LevelsInv'
  <1> SUFFICES ASSUME LevelsInv, [PrinterNext]_printerVars PROVE LevelsInv'
    OBVIOUS
  <1> DEFINE n == Len(levels)
             inner == levels[n]
  <1>1. /\ head \in Heads /\ Nesting(levels) /\ IsSeq(levels) /\ n \in Nat \ {0}
        /\ \A i \in 1..n : IsLevel(levels[i])
        /\ \A i \in 2..n :
              /\ levels[i].kind \in {"tuple", "list"}
              /\ levels[i].key \in KeysOf(levels[i - 1].kind)
    BY Zenon DEF LevelsInv, Nesting
  <1>2. IsLevel(inner) /\ Innermost = inner /\ NextKeys = KeysOf(inner.kind)
    <2>1. n \in 1..n
      BY <1>1
    <2> QED
      BY <1>1, <2>1 DEF Innermost, NextKeys, KeysOf
  <1>3. ASSUME NEW key \in Names \cup {Keyless}, NEW t \in Texts, PrintConst(key, t)
        PROVE  LevelsInv'
    <2> DEFINE e == [key |-> key, value |-> Text(t), text |-> RenderConst(t)]
    <2>1. /\ key \in KeysOf(inner.kind) /\ head' = head
          /\ levels' = [levels EXCEPT ![n] = Filled(inner, e)]
      BY <1>2, <1>3, Zenon DEF PrintConst
    <2>2. ReadableEntry(e) /\ e.key = key
      BY <2>1, ConstIs
    <2> HIDE DEF e
    <2>3. levels' = WithLast(levels, Filled(inner, e))
      BY <2>1, Zenon DEF WithLast
    <2> HIDE DEF inner
    <2>4. /\ IsLevel(Filled(inner, e)) /\ Filled(inner, e).kind = inner.kind
          /\ Filled(inner, e).key = inner.key
      BY <1>2, <2>1, <2>2, FilledIs
    <2>5. Nesting(levels')
      BY <1>1, <2>3, <2>4, NestingFilled, Zenon DEF inner
    <2> QED
      BY <1>1, <2>1, <2>5 DEF LevelsInv
  <1>4. ASSUME NEW key \in Names \cup {Keyless}, NEW kind \in {"tuple", "list"},
               Open(kind, key)
        PROVE  LevelsInv'
    <2>1. /\ key \in KeysOf(inner.kind) /\ head' = head
          /\ levels' = Append(levels, Level(kind, key))
      BY <1>2, <1>4, Zenon DEF Open
    <2>2. Nesting(levels')
      BY <1>1, <2>1, NestingOpened
    <2> QED
      BY <1>1, <2>1, <2>2 DEF LevelsInv
  <1>5. CASE Close
    <2> DEFINE m == n - 1
               rest == SubSeq(levels, 1, m)
               outer == levels[m]
               e == Closing(inner)
    <2>1. /\ n > 1 /\ head' = head
          /\ levels' = [rest EXCEPT ![m] = Filled(outer, e)]
      BY <1>2, <1>5, Zenon DEF Close
    <2>2. m \in 1..n /\ n \in 2..n
      BY <1>1, <2>1
    <2>3. /\ inner.kind \in {"tuple", "list"} /\ inner.key \in KeysOf(outer.kind)
          /\ IsLevel(outer)
      BY <1>1, <2>2
    <2>4. /\ Nesting(rest) /\ Len(rest) = m /\ rest[m] = outer
      BY <1>1, <2>1, NestingLeft
    <2> HIDE DEF rest, outer, inner, m
    <2>5. ReadableEntry(e) /\ e.key = inner.key
      BY <1>2, <2>3, ClosingIs
    <2> HIDE DEF e
    <2>6. /\ IsLevel(Filled(outer, e)) /\ Filled(outer, e).kind = outer.kind
          /\ Filled(outer, e).key = outer.key
      BY <2>3, <2>5, FilledIs
    <2>7. levels' = WithLast(rest, Filled(outer, e))
      BY <2>1, <2>4 DEF WithLast
    <2>8. Nesting(levels')
      <3> DEFINE v == Filled(outer, e)
      <3>1. v.kind = rest[Len(rest)].kind /\ v.key = rest[Len(rest)].key
        BY <2>4, <2>6
      <3>2. IsLevel(v) /\ levels' = WithLast(rest, v)
        BY <2>6, <2>7
      <3> HIDE DEF v
      <3> QED
        BY <2>4, <3>1, <3>2, NestingFilled, Zenon
    <2> QED
      BY <1>1, <2>1, <2>8 DEF LevelsInv
  <1>6. CASE UNCHANGED printerVars
    BY <1>6, Zenon DEF LevelsInv, printerVars
  <1> QED
    BY <1>3, <1>4, <1>5, <1>6, Zenon DEF PrinterNext

(* What LevelsInv says of the record when nothing is open in it. *)
LEMMA RecordIs ==
    ASSUME LevelsInv
    PROVE  /\ IsHead(head) /\ Entries(Results)
           /\ \A i \in DOMAIN Results : Results[i].key # Keyless
           /\ Beginning = BeginningOf(head) /\ RecordLine = LineOf(head, Results)
           /\ \A n : RecordOf(n) = RecordFor(head, Results, n)
  <1>1. head \in Heads /\ levels[1].kind = "record" /\ IsLevel(levels[1])
    <2>1. 1 \in 1..Len(levels)
      BY DEF LevelsInv, Nesting
    <2> QED
      BY <2>1 DEF LevelsInv, Nesting
  <1>2. IsHead(head)
    BY <1>1, TextsAre
  <1>3. Entries(Results)
    BY <1>1 DEF IsLevel, Results
  <1>4. levels[1].kind # "list"
    BY <1>1
  <1>5. \A i \in DOMAIN Results : Results[i].key # Keyless
    BY <1>1, <1>4, KeysAre, Zenon DEF Results
  <1>6. Beginning = BeginningOf(head)
    BY Zenon DEF Beginning, BeginningOf
  <1>7. RecordLine = LineOf(head, Results)
    BY <1>6, Zenon DEF RecordLine, LineOf, Separator
  <1>8. \A n : RecordOf(n) = RecordFor(head, Results, n)
    BY Zenon DEF RecordOf, RecordFor
  <1> QED
    BY <1>2, <1>3, <1>5, <1>6, <1>7, <1>8, Zenon

(* The entries of whatever GDB has open are read back.                     *)
THEOREM LevelsAreReadable == PrinterSpec => []LevelsInv
  <1>1. PrinterInit => LevelsInv
    <2> SUFFICES ASSUME PrinterInit PROVE LevelsInv
      OBVIOUS
    <2> DEFINE v == Level("record", Keyless)
    <2>1. head \in Heads /\ levels = <<v>>
      BY DEF PrinterInit
    <2>2. v.kind = "record" /\ IsLevel(v)
      BY LevelIs
    <2> HIDE DEF v
    <2>5. /\ levels \in Seq({v}) /\ Len(levels) = 1 /\ levels[1] = v
      BY <2>1
    <2>6. IsSeq(levels)
      BY <2>5, IsSeqOf
    <2>7. /\ \A i \in 1..Len(levels) : IsLevel(levels[i])
          /\ 2..Len(levels) = {} /\ Len(levels) \in Nat \ {0}
      BY <2>2, <2>5
    <2> QED
      BY <2>1, <2>2, <2>5, <2>6, <2>7 DEF LevelsInv, Nesting
  <1> QED
    BY <1>1, PrinterKeepsLevels, PTL DEF PrinterSpec

(* parser.py:15-95, 97-215: a record that GDB has printed is read back as  *)
(* what it says, whatever strings it holds, however deep its tuples and    *)
(* lists are nested and whether or not keys occur more than once.          *)
THEOREM RenderedIsReadBack == PrinterSpec => []RenderedIsRead
  <1>1. LevelsInv => RenderedIsRead
    <2> SUFFICES ASSUME LevelsInv PROVE Parse(RecordLine) = RecordOf(Len(Results))
      BY DEF RenderedIsRead
    <2> QED
      BY RecordIs, RecordIsRead, Zenon
  <1> QED
    BY <1>1, LevelsAreReadable, PTL

(* controller.py:179, parser.py:97-106, 171-186: a record torn behind its  *)
(* class is refused, or taken for the record of its first results: no      *)
(* value that was cut short is ever handed on.                             *)
THEOREM TornIsNoticed == PrinterSpec => []TornLosesOnlyTheEnd
  <1>1. LevelsInv => TornLosesOnlyTheEnd
    <2> SUFFICES ASSUME LevelsInv,
                        NEW n \in Len(Beginning)..Len(RecordLine) - 1
                 PROVE  LET torn == Parse(SubSeq(RecordLine, 1, n))
                        IN \/ torn = ParseError
                           \/ \E m \in 0..Len(Results) - 1 : torn = RecordOf(m)
      BY Zenon DEF TornLosesOnlyTheEnd
    <2>1. n \in Len(BeginningOf(head))..Len(LineOf(head, Results)) - 1
      BY RecordIs, Zenon
    <2> QED
      BY <2>1, RecordIs, RecordIsTorn, Zenon
  <1> QED
    BY <1>1, LevelsAreReadable, PTL

-----------------------------------------------------------------------------
(***************************************************************************)
(* Stream records: a marker and a string.                                  *)
(***************************************************************************)
StreamLine(m, t) == <<m>> \o RenderConst(t)

(* The marker of a stream is no digit and announces no other record. *)
LEMMA StreamMarkersAre ==
    \A m \in DOMAIN StreamKind :
        m \in Character /\ m \notin Digits /\ m \notin DOMAIN RecordKind /\ m # "("
  <1>1. \A c \in {"~", "@", "&"} :
           c \notin Digits /\ c \notin {"^", "*", "+", "="} /\ c # "("
    BY DEF Digits
  <1>2. \A c \in {"~", "@", "&"} : c \in Character
    BY CharacterIs DEF Syntax
  <1> QED
    BY <1>1, <1>2, MarkersAre

(* A line that begins with the marker of a stream is read as one. *)
LEMMA StreamBegins ==
    ASSUME NEW m \in DOMAIN StreamKind, NEW l \in Line, At(l, 1, <<m>>)
    PROVE  /\ 2 \in 1..Len(l) + 1
           /\ LET text == CString(l, 2)
              IN  Parse(l) = IF text.at = Len(l) + 1
                             THEN [kind |-> StreamKind[m], token |-> <<>>,
                                   text |-> text.value]
                             ELSE ParseError
  <1>1. Len(l) \in Nat /\ 1 \in 1..Len(l) + 1 /\ 2 = 1 + 1
    BY LineIs
  <1>2. 1 \in 1..Len(l) /\ 2 \in 1..Len(l) + 1 /\ l[1] = m /\ Peek(l, 1) = m
    BY <1>1, AtOne
  <1>3. /\ Peek(l, 1) \notin Digits /\ EndOfLine \notin Digits
        /\ 1 \in 1..Len(l) + 1 /\ \A r \in 1..1 - 1 : Peek(l, r) \in Digits
    BY <1>1, <1>2, MarkersAre, StreamMarkersAre
  <1>4. Mark(l) = 1
    BY <1>3, PastIsThere DEF Mark
  <1>5. Token(l) = <<>>
    <2>1. SubSeq(l, 1, 0) = <<>>
      BY <1>1 DEF Line
    <2> QED
      BY <1>4, <2>1 DEF Token, TokenOf
  <1>6. l # Prompt
    <2>1. Prompt[1] = "("
      BY DEF Prompt
    <2> QED
      BY <1>2, <2>1, StreamMarkersAre
  <1>7. Parse(l) = Stream(l)
    <2>1. /\ Peek(l, Mark(l)) \notin DOMAIN RecordKind
          /\ Peek(l, Mark(l)) \in DOMAIN StreamKind
      BY <1>2, <1>4, StreamMarkersAre
    <2> QED
      BY <1>6, <2>1, Zenon DEF Parse
  <1>8. Mark(l) + 1 = 2 /\ l[Mark(l)] = m
    BY <1>2, <1>4
  <1> QED
    BY <1>2, <1>5, <1>7, <1>8, Zenon DEF Stream

(* A marker and a printed string make a line. *)
LEMMA StreamLineIs ==
    ASSUME NEW m \in DOMAIN StreamKind, NEW t \in Texts
    PROVE  /\ <<m>> \in Line /\ Len(<<m>>) = 1 /\ RenderConst(t) \in Line /\ t \in Line
           /\ StreamLine(m, t) \in Line
           /\ Len(StreamLine(m, t)) = 1 + Len(RenderConst(t))
           /\ Len(RenderConst(t)) \in Nat
  <1>1. <<m>> \in Line /\ Len(<<m>>) = 1
    BY StreamMarkersAre, OneIsALine
  <1>2. t \in Line /\ RenderConst(t) \in Line
    BY TextsAre, CharsAre
  <1>3. Len(RenderConst(t)) \in Nat
    BY <1>2, LineIs
  <1> QED
    BY <1>1, <1>2, <1>3, LinesJoin DEF StreamLine

(* parser.py:91-95, 171-206: what GDB prints to a stream is read back      *)
(* whatever characters it holds.                                           *)
THEOREM StreamIsReadBack ==
    ASSUME NEW m \in DOMAIN StreamKind, NEW t \in Texts
    PROVE  Parse(StreamLine(m, t)) =
              [kind |-> StreamKind[m], token |-> <<>>, text |-> Text(t)]
  <1> DEFINE l == StreamLine(m, t)
             z == <<m>>
             c == RenderConst(t)
  <1>1. /\ z \in Line /\ Len(z) = 1 /\ c \in Line /\ t \in Line /\ l \in Line
        /\ Len(l) = 1 + Len(c) /\ Len(c) \in Nat /\ l = z \o c
    BY StreamLineIs DEF StreamLine
  <1>2. At(l, 1, z \o c) /\ 1 \in 1..Len(l) + 1
    BY <1>1, LineIsThere
  <1> HIDE DEF l, z, c
  <1>3. At(l, 1, z) /\ 1 + Len(z) \in 1..Len(l) + 1 /\ At(l, 1 + Len(z), c)
    BY <1>1, <1>2, AtBoth DEF Line
  <1>4. 1 + Len(z) = 2 /\ 2 + Len(c) = Len(l) + 1
    BY <1>1
  <1>5. CString(l, 2) = Read(Text(t), 2 + Len(c))
    BY <1>1, <1>3, <1>4, ConstIsRead DEF c
  <1> DEFINE text == CString(l, 2)
  <1>6. text.at = Len(l) + 1 /\ text.value = Text(t)
    BY <1>4, <1>5, ReadIs
  <1> HIDE DEF text
  <1>7. Parse(l) = IF text.at = Len(l) + 1
                   THEN [kind |-> StreamKind[m], token |-> <<>>, text |-> text.value]
                   ELSE ParseError
    BY <1>1, <1>3, StreamBegins, Zenon DEF text, z
  <1> QED
    BY <1>6, <1>7 DEF l

(* parser.py:171-186: a stream record torn anywhere is refused. *)
THEOREM TornStreamIsRefused ==
    ASSUME NEW m \in DOMAIN StreamKind, NEW t \in Texts,
           NEW n \in 1..Len(StreamLine(m, t)) - 1
    PROVE  Parse(SubSeq(StreamLine(m, t), 1, n)) = ParseError
  <1> DEFINE u == StreamLine(m, t)
             l == SubSeq(u, 1, n)
             z == <<m>>
             c == RenderConst(t)
  <1>1. /\ z \in Line /\ Len(z) = 1 /\ c \in Line /\ t \in Line /\ u \in Line
        /\ Len(u) = 1 + Len(c) /\ Len(c) \in Nat /\ u = z \o c
    BY StreamLineIs DEF StreamLine
  <1>2. n \in 0..Len(u) - 1 /\ n > 0
    BY <1>1
  <1>3. l \in Line /\ Len(l) = n /\ 1 \in 1..Len(l) + 1 /\ Cut(l, 1, u)
    BY <1>1, <1>2, PrefixIsCut
  <1> HIDE DEF l, u, z, c
  <1>4. Len(l) \in Nat /\ Cut(l, 1, z \o c) /\ ~Cut(l, 1, z)
    BY <1>1, <1>2, <1>3, LineIs DEF Cut
  <1>5. At(l, 1, z) /\ 1 + Len(z) \in 1..Len(l) + 1 /\ Cut(l, 1 + Len(z), c)
    BY <1>1, <1>3, <1>4, CutInOne DEF Line
  <1>6. 1 + Len(z) = 2
    BY <1>1
  <1> DEFINE text == CString(l, 2)
  <1>7. text.at = Nowhere
    BY <1>1, <1>3, <1>5, <1>6, ConstIsTorn DEF c
  <1> HIDE DEF text
  <1>8. text.at # Len(l) + 1
    BY <1>4, <1>7 DEF Nowhere
  <1>9. Parse(l) = IF text.at = Len(l) + 1
                   THEN [kind |-> StreamKind[m], token |-> <<>>, text |-> text.value]
                   ELSE ParseError
    BY <1>3, <1>5, StreamBegins, Zenon DEF text, z
  <1> QED
    BY <1>8, <1>9, Zenon DEF l, u

=============================================================================
