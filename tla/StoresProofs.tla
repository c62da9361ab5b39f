---------------------------- MODULE StoresProofs ----------------------------
(***************************************************************************)
(* The two stores.  The lease properties of the lab inventory hold for any *)
(* targets, owners, ttls and lock ids: a live lease stays listed because   *)
(* the two steps that change a table entry look at what is in it, Acquire  *)
(* replacing only an expired lease and Release deleting by lock id.        *)
(*                                                                         *)
(* The audit log's hold for any servers and events.  Two facts carry them: *)
(* append returns exactly when it has written the piece that ends a line,  *)
(* so the lines are the returned events in order; and as long as no append *)
(* writes inside another's, a line is damaged only by an orphan, the first *)
(* piece of an event whose writer died, on the line before its second      *)
(* piece, so that every orphan damages one line and was paid for by one    *)
(* crash.                                                                  *)
(***************************************************************************)
EXTENDS AuditLog, LabInventory, FiniteSetTheorems, TLAPS

-----------------------------------------------------------------------------
(* The lab inventory. *)

LEMMA TypeInit == LabInit => LabTypeOK
  BY InventoryAssumption DEF LabInit, LabTypeOK, Granted, TargetLock

LEMMA TypeStep == LabTypeOK /\ [LabNext]_labVars => LabTypeOK'
  <1> SUFFICES ASSUME LabTypeOK, [LabNext]_labVars PROVE LabTypeOK'
    OBVIOUS
  <1> USE DEF LabTypeOK, Granted
  <1>1. ASSUME NEW t \in Targets, Add(t) PROVE LabTypeOK'
    BY <1>1 DEF Add
  <1>2. ASSUME NEW t \in Targets, NEW owner \in Owners, NEW ttl \in TTLs,
               Acquire(t, owner, ttl)
        PROVE  LabTypeOK'
    <2>1. PICK l \in LockIds \ DOMAIN lease :
             /\ locks' = [locks EXCEPT ![t] = l]
             /\ lease' = [k \in DOMAIN lease \cup {l} |->
                   IF k = l THEN [target |-> t, owner |-> owner,
                                  expires_at |-> Deadline(ttl)]
                   ELSE lease[k]]
      BY <1>2 DEF Acquire
    <2>2. [target |-> t, owner |-> owner, expires_at |-> Deadline(ttl)]
             \in TargetLock
      BY InventoryAssumption DEF Deadline, TargetLock
    <2>3. /\ DOMAIN lease' = DOMAIN lease \cup {l}
          /\ lease' \in [DOMAIN lease' -> TargetLock]
          /\ lease'[l].target = t
          /\ \A k \in DOMAIN lease : lease'[k] = lease[k]
      BY <2>1, <2>2
    <2>4. \A u \in Targets : locks'[u] # NoLock =>
             locks'[u] \in DOMAIN lease' /\ lease'[locks'[u]].target = u
      BY <2>1, <2>3
    <2> QED
      BY <1>2, <2>1, <2>3, <2>4 DEF Acquire
  <1>3. ASSUME NEW l \in LockIds, Release(l) PROVE LabTypeOK'
    BY <1>3 DEF Release, Deleted
  <1>4. CASE LabTick
    BY <1>4 DEF LabTick
  <1>5. CASE UNCHANGED labVars
    BY <1>5 DEF labVars
  <1> QED
    BY <1>1, <1>2, <1>3, <1>4, <1>5 DEF LabNext

(* The state of the inventory is well-typed for any instance of it         *)
(* (lab/inventory.py:24-82).                                               *)
THEOREM InventoryTypeCorrect == LabSpec => []LabTypeOK
  BY TypeInit, TypeStep, PTL DEF LabSpec

LEMMA ListedInit == LabInit => LiveLeaseIsListed
  BY DEF LabInit, LiveLeaseIsListed, Live, Granted

LEMMA ListedStep ==
    LabTypeOK /\ LabTypeOK' /\ LiveLeaseIsListed /\ [LabNext]_labVars
        => LiveLeaseIsListed'
  <1> SUFFICES ASSUME LabTypeOK, LabTypeOK', LiveLeaseIsListed, [LabNext]_labVars,
                      NEW m \in Live'
               PROVE  locks'[lease'[m].target] = m
    BY DEF LiveLeaseIsListed
  <1> USE DEF LabTypeOK, LiveLeaseIsListed, Live, Granted, expired
  <1>1. ASSUME NEW t \in Targets, Add(t) PROVE locks'[lease'[m].target] = m
    BY <1>1 DEF Add
  <1>2. ASSUME NEW t \in Targets, NEW owner \in Owners, NEW ttl \in TTLs,
               Acquire(t, owner, ttl)
        PROVE  locks'[lease'[m].target] = m
    <2>1. PICK l \in LockIds \ DOMAIN lease :
             /\ locks' = [locks EXCEPT ![t] = l]
             /\ lease' = [k \in DOMAIN lease \cup {l} |->
                   IF k = l THEN [target |-> t, owner |-> owner,
                                  expires_at |-> Deadline(ttl)]
                   ELSE lease[k]]
      BY <1>2 DEF Acquire
    <2>2. CASE m = l
      BY <2>1, <2>2
    <2>3. CASE m # l
      <3>1. m \in Live /\ lease'[m] = lease[m]
        BY <1>2, <2>1, <2>3 DEF Acquire
      <3>2. lease[m].target # t
        BY <1>2, <3>1 DEF Acquire, Free
      <3> QED
        BY <2>1, <3>1, <3>2 DEF TargetLock
    <2> QED
      BY <2>2, <2>3
  <1>3. ASSUME NEW l \in LockIds, Release(l)
        PROVE  locks'[lease'[m].target] = m
    <2>1. m # l /\ m \in Live /\ lease'[m] = lease[m]
      BY <1>3 DEF Release
    <2> QED
      BY <1>3, <2>1 DEF Release, Deleted, TargetLock
  <1>4. CASE LabTick
    <2>1. lease[m].expires_at \in Int
      BY <1>4 DEF LabTick, TargetLock
    <2>2. m \in Live
      BY <1>4, <2>1 DEF LabTick
    <2> QED
      BY <1>4, <2>2 DEF LabTick
  <1>5. CASE UNCHANGED labVars
    BY <1>5 DEF labVars
  <1> QED
    BY <1>1, <1>2, <1>3, <1>4, <1>5 DEF LabNext

(* While a lease runs, the table names it for its target: no acquire of    *)
(* another owner and no late release can end it (inventory.py:56-80).      *)
THEOREM LeaseIsKept == LabSpec => []LiveLeaseIsListed
  BY ListedInit, ListedStep, InventoryTypeCorrect, PTL DEF LabSpec

(* So two leases that both run are never on the same target                *)
(* (inventory.py:56).                                                      *)
THEOREM LeasesExclude == LabSpec => []OneLiveOwner
  <1>1. LiveLeaseIsListed => OneLiveOwner
    BY DEF LiveLeaseIsListed, OneLiveOwner
  <1> QED
    BY <1>1, LeaseIsKept, PTL
-----------------------------------------------------------------------------
(* The audit log: what is buffered and what a write adds to the file. *)

Begun(e) ==
    {<<Piece(e, "whole")>>, <<Piece(e, "tail")>>,
     <<Piece(e, "head"), Piece(e, "tail")>>}

BuffersOK ==
    /\ \A p \in Servers : writing[p] # <<>> => \E e \in Events : writing[p] \in Begun(e)
    /\ writer = "sqlite" =>
          /\ \A p \in Servers : ~MidAppend(p)
          /\ \A p \in Servers : writing[p] # <<>> => Len(writing[p]) = 1
          /\ \A i \in DOMAIN file : file[i].part = "whole"

(* The three pieces a write may put at the end of the file. *)
WritesPiece(p, e, part) ==
    /\ file' = Append(file, Piece(e, part))
    /\ writing[p] # <<>> /\ Head(writing[p]) = Piece(e, part)
    /\ \/ /\ part = "head" /\ done' = done
          /\ writing' = [writing EXCEPT ![p] = <<Piece(e, "tail")>>]
       \/ /\ part # "head" /\ done' = Append(done, e)
          /\ writing' = [writing EXCEPT ![p] = <<>>]

LEMMA PieceType ==
    ASSUME NEW e \in Events, NEW part \in {"whole", "head", "tail"}
    PROVE  /\ Piece(e, part) \in FilePiece
           /\ Piece(e, part).event = e /\ Piece(e, part).part = part
  BY DEF Piece, FilePiece

LEMMA Writes ==
    ASSUME LogTypeOK, BuffersOK, NEW p \in Servers, WriteOut(p)
    PROVE  \E e \in Events, part \in {"whole", "head", "tail"} :
              WritesPiece(p, e, part) /\ (writer = "sqlite" => part = "whole")
  <1>1. PICK e \in Events : writing[p] \in Begun(e)
    BY DEF WriteOut, BuffersOK
  <1>5. writing[p] = <<Piece(e, "head"), Piece(e, "tail")>> => writer # "sqlite"
    <2> SUFFICES ASSUME writing[p] = <<Piece(e, "head"), Piece(e, "tail")>>
                 PROVE  writer # "sqlite"
      OBVIOUS
    <2>1. writing[p] # <<>> /\ Len(writing[p]) = 2
      OBVIOUS
    <2> QED
      BY <2>1 DEF BuffersOK
  <1> USE PieceType DEF WriteOut, Written, WritesPiece, BuffersOK, MidAppend
  <1>2. CASE writing[p] = <<Piece(e, "whole")>>
    <2>1. /\ Head(writing[p]) = Piece(e, "whole") /\ Tail(writing[p]) = <<>>
          /\ Len(writing[p]) = 1
      BY <1>2
    <2>2. WritesPiece(p, e, "whole")
      BY <2>1
    <2> QED
      BY <2>2
  <1>3. CASE writing[p] = <<Piece(e, "tail")>>
    <2>1. /\ Head(writing[p]) = Piece(e, "tail") /\ Tail(writing[p]) = <<>>
          /\ Len(writing[p]) = 1
      BY <1>3
    <2>2. WritesPiece(p, e, "tail")
      BY <2>1
    <2>3. writer # "sqlite"
      BY <2>1
    <2> QED
      BY <2>2, <2>3
  <1>4. CASE writing[p] = <<Piece(e, "head"), Piece(e, "tail")>>
    <2>1. /\ Head(writing[p]) = Piece(e, "head")
          /\ Tail(writing[p]) = <<Piece(e, "tail")>>
          /\ Len(writing[p]) = 2 /\ writing[p] # <<>>
      BY <1>4
    <2>2. done' = done /\ file' = Append(file, Piece(e, "head"))
      BY <2>1
    <2>3. writing' = [writing EXCEPT ![p] = <<Piece(e, "tail")>>]
      BY <2>1
    <2>4. WritesPiece(p, e, "head")
      BY <2>1, <2>2, <2>3
    <2> QED
      BY <1>4, <1>5, <2>4
  <1> QED
    BY <1>1, <1>2, <1>3, <1>4 DEF Begun

LEMMA LogInitOK == LogInit => LogTypeOK /\ BuffersOK
  <1> SUFFICES ASSUME LogInit PROVE LogTypeOK /\ BuffersOK
    OBVIOUS
  <1>1. file = <<>> /\ done = <<>> /\ writing = [p \in Servers |-> <<>>]
    BY DEF LogInit
  <1>2. LogTypeOK
    <2>1. <<>> \in Seq(FilePiece) /\ <<>> \in Seq(Events)
      OBVIOUS
    <2>2. 0 \in 0..MaxTorn
      BY AuditAssumption
    <2>3. writing \in [Servers -> Seq(FilePiece)]
      BY <1>1, <2>1
    <2> QED
      BY <1>1, <2>1, <2>2, <2>3 DEF LogInit, LogTypeOK
  <1>3. BuffersOK
    BY <1>1 DEF BuffersOK, MidAppend
  <1> QED
    BY <1>2, <1>3

LEMMA LogStepOK ==
    LogTypeOK /\ BuffersOK /\ [LogNext]_logVars => LogTypeOK' /\ BuffersOK'
  <1> SUFFICES ASSUME LogTypeOK, BuffersOK, [LogNext]_logVars
               PROVE  LogTypeOK' /\ BuffersOK'
    OBVIOUS
  <1>1. ASSUME NEW p \in Servers, NEW e \in Events, BeginAppend(p, e)
        PROVE  LogTypeOK' /\ BuffersOK'
    <2>1. /\ Pieces(e) \in Begun(e) /\ Pieces(e) \in Seq(FilePiece)
          /\ Head(Pieces(e)).part # "tail"
          /\ writer = "sqlite" => Len(Pieces(e)) = 1
      BY PieceType DEF Pieces, Begun
    <2>2. LogTypeOK'
      BY <1>1, <2>1 DEF BeginAppend, LogTypeOK
    <2>3. BuffersOK'
      BY <1>1, <2>1 DEF BeginAppend, LogTypeOK, BuffersOK, MidAppend, Begun, Piece
    <2> QED
      BY <2>2, <2>3
  <1>2. ASSUME NEW p \in Servers, WriteOut(p) PROVE LogTypeOK' /\ BuffersOK'
    <2>1. PICK e \in Events, part \in {"whole", "head", "tail"} :
             WritesPiece(p, e, part) /\ (writer = "sqlite" => part = "whole")
      BY <1>2, Writes
    <2>2. LogTypeOK'
      <3>1. Piece(e, part) \in FilePiece /\ Piece(e, "tail") \in FilePiece
        BY PieceType
      <3>2. /\ file' = Append(file, Piece(e, part))
            /\ done' = done \/ done' = Append(done, e)
            /\ \/ writing' = [writing EXCEPT ![p] = <<Piece(e, "tail")>>]
               \/ writing' = [writing EXCEPT ![p] = <<>>]
        BY <2>1 DEF WritesPiece
      <3>3. file' \in Seq(FilePiece)
        BY <3>1, <3>2 DEF LogTypeOK
      <3>4. done' \in Seq(Events)
        <4>1. done \in Seq(Events) /\ Append(done, e) \in Seq(Events)
          BY DEF LogTypeOK
        <4> QED
          BY <3>2, <4>1
      <3>5. writing' \in [Servers -> Seq(FilePiece)]
        <4>1. <<Piece(e, "tail")>> \in Seq(FilePiece) /\ <<>> \in Seq(FilePiece)
          BY <3>1
        <4>2. writing \in [Servers -> Seq(FilePiece)]
          BY DEF LogTypeOK
        <4> QED
          BY <3>2, <4>1, <4>2
      <3> QED
        BY <1>2, <3>3, <3>4, <3>5 DEF WriteOut, LogTypeOK
    <2>3. BuffersOK'
      <3>1. \A q \in Servers : writing'[q] # <<>> =>
               \E f \in Events : writing'[q] \in Begun(f)
        BY <2>1 DEF WritesPiece, BuffersOK, LogTypeOK, Begun
      <3>2. ASSUME writer' = "sqlite"
            PROVE  /\ \A q \in Servers : ~MidAppend(q)'
                   /\ \A q \in Servers : writing'[q] # <<>> => Len(writing'[q]) = 1
                   /\ \A i \in DOMAIN file' : file'[i].part = "whole"
        <4>1. writer = "sqlite" /\ part = "whole"
          BY <1>2, <2>1, <3>2 DEF WriteOut
        <4>2. writing' = [writing EXCEPT ![p] = <<>>]
          BY <2>1, <4>1 DEF WritesPiece
        <4>3. \A i \in DOMAIN file' : file'[i].part = "whole"
          BY <2>1, <4>1, PieceType DEF WritesPiece, BuffersOK, LogTypeOK
        <4> QED
          BY <4>1, <4>2, <4>3 DEF BuffersOK, LogTypeOK, MidAppend
      <3> QED
        BY <3>1, <3>2 DEF BuffersOK
    <2> QED
      BY <2>2, <2>3
  <1>3. ASSUME NEW p \in Servers, Crash(p) PROVE LogTypeOK' /\ BuffersOK'
    <2>1. LogTypeOK'
      BY <1>3, AuditAssumption DEF Crash, LogTypeOK
    <2>2. BuffersOK'
      BY <1>3 DEF Crash, LogTypeOK, BuffersOK, MidAppend
    <2> QED
      BY <2>1, <2>2
  <1>4. CASE UNCHANGED logVars
    BY <1>4 DEF logVars, LogTypeOK, BuffersOK, MidAppend
  <1> QED
    BY <1>1, <1>2, <1>3, <1>4 DEF LogNext

(* The pieces in the file and in the buffers, the returned events and the  *)
(* counters keep their types for any servers and events (logger.py:47-100).*)
THEOREM LogTypeCorrect == LogSpec => []LogTypeOK
  BY LogInitOK, LogStepOK, PTL DEF LogSpec

-----------------------------------------------------------------------------
(* The lines of the file are the events whose append has returned. *)

LinesAreDone ==
    /\ Cardinality(Lines(Len(file))) = Len(done)
    /\ \A n \in 1..Len(done) : \E i \in Lines(Len(file)) :
          Cardinality(Lines(i)) = n /\ file[i].event = done[n]

LEMMA LinesFinite ==
    ASSUME NEW i \in Nat
    PROVE  IsFiniteSet(Lines(i)) /\ Cardinality(Lines(i)) \in Nat
  <1>1. IsFiniteSet(1..i)
    BY FS_Interval
  <1>2. Lines(i) \in SUBSET (1..i)
    BY DEF Lines
  <1> QED
    BY <1>1, <1>2, FS_Subset, FS_CardinalityType

LEMMA LinesGrow ==
    ASSUME NEW i \in Nat, NEW j \in Nat, j \in Lines(j), i < j
    PROVE  Cardinality(Lines(i)) < Cardinality(Lines(j))
  <1>1. j \notin Lines(i) /\ Lines(i) \cup {j} \in SUBSET Lines(j)
    BY DEF Lines
  <1>2. Cardinality(Lines(i) \cup {j}) = Cardinality(Lines(i)) + 1
    BY <1>1, LinesFinite, FS_AddElement
  <1>3. Cardinality(Lines(i) \cup {j}) =< Cardinality(Lines(j))
    BY <1>1, LinesFinite, FS_Subset
  <1>4. Cardinality(Lines(i)) \in Nat /\ Cardinality(Lines(j)) \in Nat
    BY LinesFinite
  <1> QED
    BY <1>2, <1>3, <1>4

LEMMA LineEndsOnce ==
    ASSUME NEW k \in Nat, NEW i \in Lines(k), NEW j \in Lines(k),
           Cardinality(Lines(i)) = Cardinality(Lines(j))
    PROVE  i = j
  <1>1. i \in Nat /\ j \in Nat /\ i \in Lines(i) /\ j \in Lines(j)
    BY DEF Lines
  <1>2. Cardinality(Lines(i)) \in Nat
    BY <1>1, LinesFinite
  <1>3. ~(i < j) /\ ~(j < i)
    BY <1>1, <1>2, LinesGrow
  <1> QED
    BY <1>1, <1>3

LEMMA AppendedLine ==
    ASSUME LogTypeOK, NEW x, file' = Append(file, x)
    PROVE  /\ Len(file') = Len(file) + 1 /\ file'[Len(file) + 1] = x
           /\ \A i \in 1..Len(file) : file'[i] = file[i]
           /\ \A i \in 0..Len(file) : Lines(i)' = Lines(i)
           /\ Lines(Len(file))' = IF EndsLine(x)
                                  THEN Lines(Len(file)) \cup {Len(file) + 1}
                                  ELSE Lines(Len(file))
  <1>1. Len(file) \in Nat /\ file \in Seq(FilePiece)
    BY DEF LogTypeOK
  <1>2. /\ Len(file') = Len(file) + 1 /\ file'[Len(file) + 1] = x
        /\ \A i \in 1..Len(file) : file'[i] = file[i]
    BY <1>1
  <1>3. \A i \in 0..Len(file) : Lines(i)' = Lines(i)
    <2> SUFFICES ASSUME NEW i \in 0..Len(file) PROVE Lines(i)' = Lines(i)
      OBVIOUS
    <2>1. \A j \in 1..i : file'[j] = file[j]
      BY <1>1, <1>2
    <2> QED
      BY <2>1 DEF Lines, EndsLine
  <1>4. ASSUME NEW j
        PROVE  j \in Lines(Len(file))' <=>
                  j \in Lines(Len(file)) \/ (j = Len(file) + 1 /\ EndsLine(x))
    <2>1. j \in Lines(Len(file))' <=>
             j \in 1..(Len(file) + 1) /\ EndsLine(file'[j])
      BY <1>2 DEF Lines, EndsLine
    <2>2. CASE j = Len(file) + 1
      BY <1>1, <1>2, <2>1, <2>2 DEF Lines
    <2>3. CASE j # Len(file) + 1
      <3>1. j \in 1..(Len(file) + 1) <=> j \in 1..Len(file)
        BY <1>1, <2>3
      <3>2. j \in 1..Len(file) => file'[j] = file[j]
        BY <1>2
      <3> QED
        BY <2>1, <2>3, <3>1, <3>2 DEF Lines
    <2> QED
      BY <2>2, <2>3
  <1>5. CASE EndsLine(x)
    <2>1. Lines(Len(file))' = Lines(Len(file)) \cup {Len(file) + 1}
      BY <1>4, <1>5
    <2> QED
      BY <1>2, <1>3, <1>5, <2>1
  <1>6. CASE ~EndsLine(x)
    <2>1. Lines(Len(file))' = Lines(Len(file))
      BY <1>4, <1>6
    <2> QED
      BY <1>2, <1>3, <1>6, <2>1
  <1> QED
    BY <1>5, <1>6

LEMMA LinesInit == LogInit => LinesAreDone
  <1> SUFFICES ASSUME LogInit PROVE LinesAreDone
    OBVIOUS
  <1>1. Len(file) = 0 /\ Len(done) = 0
    BY DEF LogInit
  <1>2. Lines(Len(file)) = {}
    BY <1>1 DEF Lines
  <1> QED
    BY <1>1, <1>2, FS_EmptySet DEF LinesAreDone

LEMMA LinesStep ==
    LogTypeOK /\ BuffersOK /\ LinesAreDone /\ [LogNext]_logVars => LinesAreDone'
  <1> SUFFICES ASSUME LogTypeOK, BuffersOK, LinesAreDone, [LogNext]_logVars
               PROVE  LinesAreDone'
    OBVIOUS
  <1>1. CASE file' = file /\ done' = done
    BY <1>1 DEF LinesAreDone, Lines
  <1>2. ASSUME NEW p \in Servers, WriteOut(p) PROVE LinesAreDone'
    <2>1. PICK e \in Events, part \in {"whole", "head", "tail"} :
             WritesPiece(p, e, part) /\ (writer = "sqlite" => part = "whole")
      BY <1>2, Writes
    <2> DEFINE N == Len(file)
               x == Piece(e, part)
    <2>2. file' = Append(file, x) /\ N \in Nat /\ Len(done) \in Nat
      BY <2>1 DEF WritesPiece, LogTypeOK
    <2>3. /\ Len(file') = N + 1 /\ file'[N + 1] = x
          /\ \A i \in 1..N : file'[i] = file[i]
          /\ \A i \in 0..N : Lines(i)' = Lines(i)
          /\ Lines(Len(file))' = IF EndsLine(x) THEN Lines(N) \cup {N + 1} ELSE Lines(N)
      BY <2>2, AppendedLine
    <2>4. \A i \in Lines(N) : i \in 1..N
      BY DEF Lines
    <2>5. CASE part = "head"
      <3>1. ~EndsLine(x) /\ done' = done
        BY <2>1, <2>5, PieceType DEF WritesPiece, EndsLine
      <3>2. Lines(Len(file))' = Lines(N)
        BY <2>3, <3>1
      <3>3. \A i \in Lines(N) : Lines(i)' = Lines(i) /\ file'[i] = file[i]
        BY <2>2, <2>3, <2>4
      <3> QED
        BY <2>3, <3>1, <3>2, <3>3 DEF LinesAreDone
    <2>6. CASE part # "head"
      <3>1. EndsLine(x) /\ done' = Append(done, e) /\ x.event = e
        BY <2>1, <2>6, PieceType DEF WritesPiece, EndsLine
      <3>2. Lines(Len(file))' = Lines(N) \cup {N + 1} /\ N + 1 \notin Lines(N)
        BY <2>2, <2>3, <2>4, <3>1
      <3>3. Cardinality(Lines(Len(file))') = Len(done) + 1
        <4>1. IsFiniteSet(Lines(N)) /\ Cardinality(Lines(N)) = Len(done)
          BY <2>2, LinesFinite DEF LinesAreDone
        <4>2. Cardinality(Lines(N) \cup {N + 1}) = Len(done) + 1
          BY <3>2, <4>1, FS_AddElement
        <4> QED
          BY <3>2, <4>2
      <3>4. /\ Len(done') = Len(done) + 1 /\ done'[Len(done) + 1] = e
            /\ \A n \in 1..Len(done) : done'[n] = done[n]
        BY <2>2, <3>1 DEF LogTypeOK
      <3>5. ASSUME NEW n \in 1..Len(done)
            PROVE  \E i \in Lines(Len(file))' :
                      Cardinality(Lines(i)') = n /\ file'[i].event = done'[n]
        <4>1. PICK i \in Lines(N) : Cardinality(Lines(i)) = n /\ file[i].event = done[n]
          BY DEF LinesAreDone
        <4>2. i \in Lines(Len(file))' /\ Lines(i)' = Lines(i) /\ file'[i] = file[i]
          BY <2>2, <2>3, <2>4, <3>2
        <4> QED
          BY <3>4, <4>1, <4>2
      <3>6. ASSUME NEW n \in 1..Len(done'), n \notin 1..Len(done)
            PROVE  \E i \in Lines(Len(file))' :
                      Cardinality(Lines(i)') = n /\ file'[i].event = done'[n]
        <4>1. n = Len(done) + 1
          BY <2>2, <3>4, <3>6
        <4> QED
          BY <2>3, <3>1, <3>2, <3>3, <3>4, <4>1
      <3> QED
        BY <2>3, <3>3, <3>4, <3>5, <3>6 DEF LinesAreDone
    <2> QED
      BY <2>5, <2>6
  <1>3. (file' = file /\ done' = done) \/ \E p \in Servers : WriteOut(p)
    BY DEF LogNext, BeginAppend, Crash, logVars
  <1> QED
    BY <1>1, <1>2, <1>3

LEMMA ReadsDone ==
    ASSUME LogTypeOK, LinesAreDone
    PROVE  ReadEvents = done
  <1> DEFINE N == Len(file)
  <1>1. N \in Nat /\ done \in Seq(Events) /\ Len(done) \in Nat
    BY DEF LogTypeOK
  <1>2. ASSUME NEW n \in 1..Len(done) PROVE file[LineEnd(n)].event = done[n]
    <2>1. PICK i \in Lines(N) : Cardinality(Lines(i)) = n /\ file[i].event = done[n]
      BY DEF LinesAreDone
    <2>2. LineEnd(n) \in Lines(N) /\ Cardinality(Lines(LineEnd(n))) = n
      BY <2>1 DEF LineEnd
    <2>3. LineEnd(n) = i
      BY <1>1, <2>1, <2>2, LineEndsOnce
    <2> QED
      BY <2>1, <2>3
  <1>3. ReadEvents = [n \in 1..Len(done) |-> file[LineEnd(n)].event]
    BY DEF ReadEvents, LinesAreDone
  <1>4. done = [n \in 1..Len(done) |-> done[n]]
    BY <1>1
  <1> QED
    BY <1>2, <1>3, <1>4

-----------------------------------------------------------------------------
(* As long as no append has written inside another's, a line is damaged by *)
(* an orphan before it, and every orphan cost a crash.                     *)

Orphans ==
    {i \in 1..Len(file) :
        /\ file[i].part = "head"
        /\ i < Len(file) => file[i + 1] # Piece(file[i].event, "tail")
        /\ i = Len(file) => \A p \in Servers : ~MidAppend(p)}

HeadIsLast ==
    \A p \in Servers : MidAppend(p) =>
        /\ Len(file) > 0
        /\ file[Len(file)] = Piece(Head(writing[p]).event, "head")
        /\ \A q \in Servers : MidAppend(q) => p = q

TailsFollow ==
    \A i \in 1..Len(file) : file[i].part = "tail" =>
        i > 1 /\ file[i - 1] = Piece(file[i].event, "head")

Paid == Cardinality(Orphans) =< torn

Tidy == ~overlapped => HeadIsLast /\ TailsFollow /\ Paid

LEMMA OrphansFinite ==
    ASSUME LogTypeOK
    PROVE  IsFiniteSet(Orphans) /\ Cardinality(Orphans) \in Nat
  <1>1. Len(file) \in Nat
    BY DEF LogTypeOK
  <1>2. IsFiniteSet(1..Len(file)) /\ Orphans \in SUBSET (1..Len(file))
    BY <1>1, FS_Interval DEF Orphans
  <1> QED
    BY <1>2, FS_Subset, FS_CardinalityType

LEMMA TidyInit == LogInit => Tidy
  <1> SUFFICES ASSUME LogInit PROVE Tidy
    OBVIOUS
  <1>1. Len(file) = 0 /\ torn = 0 /\ \A p \in Servers : ~MidAppend(p)
    BY DEF LogInit, MidAppend
  <1>2. Orphans = {}
    BY <1>1 DEF Orphans
  <1> QED
    BY <1>1, <1>2, FS_EmptySet DEF Tidy, HeadIsLast, TailsFollow, Paid

(* Who is in the middle of an append after p has written or died. *)
LEMMA StillMid ==
    ASSUME LogTypeOK, NEW p \in Servers, NEW w,
           writing' = [writing EXCEPT ![p] = w]
    PROVE  \A q \in Servers :
              /\ writing'[q] = IF q = p THEN w ELSE writing[q]
              /\ MidAppend(q)' <=> IF q = p THEN w # <<>> /\ Head(w).part = "tail"
                                   ELSE MidAppend(q)
  BY DEF LogTypeOK, MidAppend

LEMMA TidyStep ==
    LogTypeOK /\ BuffersOK /\ Tidy /\ [LogNext]_logVars => Tidy'
  <1> SUFFICES ASSUME LogTypeOK, BuffersOK, Tidy, [LogNext]_logVars, ~overlapped'
               PROVE  HeadIsLast' /\ TailsFollow' /\ Paid'
    BY DEF Tidy
  <1>0. ~overlapped /\ HeadIsLast /\ TailsFollow /\ Paid /\ Len(file) \in Nat
    BY DEF LogNext, BeginAppend, WriteOut, Crash, logVars, Tidy, LogTypeOK
  <1>1. ASSUME file' = file, torn' = torn,
               \A q \in Servers : MidAppend(q)' <=> MidAppend(q),
               \A q \in Servers : MidAppend(q) => writing'[q] = writing[q]
        PROVE  HeadIsLast' /\ TailsFollow' /\ Paid'
    <2>1. Orphans' = Orphans
      BY <1>1 DEF Orphans
    <2> QED
      BY <1>0, <1>1, <2>1 DEF HeadIsLast, TailsFollow, Paid
  <1>2. ASSUME NEW p \in Servers, NEW e \in Events, BeginAppend(p, e)
        PROVE  HeadIsLast' /\ TailsFollow' /\ Paid'
    <2>1. Head(Pieces(e)).part # "tail"
      BY PieceType DEF Pieces
    <2>2. /\ ~MidAppend(p)
          /\ \E w : w = Pieces(e) /\ writing' = [writing EXCEPT ![p] = w]
      BY <1>2 DEF BeginAppend, MidAppend
    <2>3. \A q \in Servers : /\ MidAppend(q)' <=> MidAppend(q)
                             /\ MidAppend(q) => writing'[q] = writing[q]
      BY <2>1, <2>2, StillMid
    <2> QED
      BY <1>1, <1>2, <2>3 DEF BeginAppend
  <1>3. ASSUME NEW p \in Servers, WriteOut(p)
        PROVE  HeadIsLast' /\ TailsFollow' /\ Paid'
    <2>1. PICK e \in Events, part \in {"whole", "head", "tail"} :
             WritesPiece(p, e, part) /\ (writer = "sqlite" => part = "whole")
      BY <1>3, Writes
    <2>2. /\ \A q \in Servers \ {p} : ~MidAppend(q)
          /\ torn' = torn
      BY <1>3 DEF WriteOut
    <2>3. PICK N \in Nat, x \in FilePiece :
             /\ N = Len(file) /\ x = Piece(e, part) /\ file' = Append(file, x)
             /\ x.event = e /\ x.part = part /\ (MidAppend(p) <=> part = "tail")
      BY <1>0, <2>1, PieceType DEF WritesPiece, MidAppend
    <2>4. /\ Len(file') = N + 1 /\ file'[N + 1] = x
          /\ \A i \in 1..N : file'[i] = file[i]
      BY <2>3 DEF LogTypeOK
    <2>5. PICK w : /\ writing' = [writing EXCEPT ![p] = w]
                   /\ w = IF part = "head" THEN <<Piece(e, "tail")>> ELSE <<>>
      BY <2>1 DEF WritesPiece
    <2>6. \A q \in Servers : MidAppend(q)' <=> q = p /\ part = "head"
      <3>1. (w # <<>> /\ Head(w).part = "tail") <=> part = "head"
        BY <2>5, PieceType
      <3> QED
        BY <2>2, <2>5, <3>1, StillMid
    <2>7. part = "tail" => N > 0 /\ file[N] = Piece(e, "head")
      BY <1>0, <2>1, <2>3, PieceType DEF HeadIsLast, WritesPiece
    <2>8. HeadIsLast'
      <3>1. ASSUME part = "head" PROVE Head(writing'[p]).event = e
        <4>1. writing'[p] = w /\ w = <<Piece(e, "tail")>>
          BY <2>5, <3>1 DEF LogTypeOK
        <4> QED
          BY <4>1, PieceType
      <3> QED
        BY <2>3, <2>4, <2>6, <3>1 DEF HeadIsLast
    <2>9. TailsFollow'
      <3> SUFFICES ASSUME NEW i \in 1..(N + 1), file'[i].part = "tail"
                   PROVE  i > 1 /\ file'[i - 1] = Piece(file'[i].event, "head")
        BY <2>4 DEF TailsFollow
      <3>1. CASE i = N + 1
        BY <2>3, <2>4, <2>7, <3>1
      <3>2. CASE i # N + 1
        <4>1. i \in 1..N /\ file[i].part = "tail" /\ file'[i] = file[i]
          BY <2>4, <3>2
        <4>2. i > 1 /\ file[i - 1] = Piece(file[i].event, "head")
          BY <1>0, <2>3, <4>1 DEF TailsFollow
        <4> QED
          BY <2>4, <4>1, <4>2
      <3> QED
        BY <3>1, <3>2
    <2>10. ASSUME NEW i \in 1..N PROVE i \in Orphans' <=> i \in Orphans
      <3>1. i \in Orphans' <=> /\ file[i].part = "head"
                              /\ file'[i + 1] # Piece(file[i].event, "tail")
        BY <2>4 DEF Orphans
      <3>2. CASE i < N
        <4>1. file'[i + 1] = file[i + 1]
          BY <2>4, <3>2
        <4> QED
          BY <2>3, <3>1, <3>2, <4>1 DEF Orphans
      <3>3. CASE i = N /\ part = "tail"
        <4>1. file[N] = Piece(e, "head") /\ file'[N + 1] = Piece(file[N].event, "tail")
          BY <2>3, <2>4, <2>7, <3>3, PieceType
        <4> QED
          BY <2>3, <3>1, <3>3, <4>1 DEF Orphans
      <3>4. CASE i = N /\ part # "tail"
        <4>1. file'[i + 1] # Piece(file[i].event, "tail")
          BY <2>3, <2>4, <3>4 DEF Piece
        <4>2. \A q \in Servers : ~MidAppend(q)
          BY <2>2, <2>3, <3>4
        <4> QED
          BY <2>3, <3>1, <3>4, <4>1, <4>2 DEF Orphans
      <3> QED
        BY <3>2, <3>3, <3>4
    <2>11. N + 1 \notin Orphans'
      BY <2>3, <2>4, <2>6 DEF Orphans
    <2>12. Orphans' = Orphans
      <3>1. Orphans \subseteq 1..N /\ Orphans' \subseteq 1..(N + 1)
        BY <2>3, <2>4 DEF Orphans
      <3>2. \A i \in 1..(N + 1) : i \in 1..N \/ i = N + 1
        BY <2>3
      <3>3. N + 1 \notin Orphans
        BY <2>3 DEF Orphans
      <3> QED
        BY <2>10, <2>11, <3>1, <3>2, <3>3
    <2> QED
      BY <1>0, <2>2, <2>8, <2>9, <2>12 DEF Paid
  <1>4. ASSUME NEW p \in Servers, Crash(p), ~MidAppend(p)
        PROVE  HeadIsLast' /\ TailsFollow' /\ Paid'
    <2>1. writing' = [writing EXCEPT ![p] = <<>>]
      BY <1>4 DEF Crash
    <2>2. \A q \in Servers : /\ MidAppend(q)' <=> MidAppend(q)
                             /\ MidAppend(q) => writing'[q] = writing[q]
      BY <1>4, <2>1, StillMid
    <2> QED
      BY <1>1, <1>4, <2>2 DEF Crash
  <1>5. ASSUME NEW p \in Servers, Crash(p), MidAppend(p)
        PROVE  HeadIsLast' /\ TailsFollow' /\ Paid'
    <2>1. /\ writing' = [writing EXCEPT ![p] = <<>>]
          /\ file' = file /\ torn' = torn + 1 /\ torn \in Nat
      BY <1>5 DEF Crash, LogTypeOK
    <2>2. \A q \in Servers : ~MidAppend(q)'
      BY <1>0, <1>5, <2>1, StillMid DEF HeadIsLast
    <2>3. Orphans' \subseteq Orphans \cup {Len(file)}
      BY <2>1, <2>2 DEF Orphans
    <2>4. /\ Cardinality(Orphans') =< Cardinality(Orphans) + 1
          /\ Cardinality(Orphans') \in Nat
      <3>1. IsFiniteSet(Orphans) /\ Cardinality(Orphans) \in Nat
        BY OrphansFinite
      <3>2. /\ IsFiniteSet(Orphans \cup {Len(file)})
            /\ Cardinality(Orphans \cup {Len(file)})
                  \in {Cardinality(Orphans), Cardinality(Orphans) + 1}
        BY <3>1, FS_AddElement
      <3>3. /\ Cardinality(Orphans') =< Cardinality(Orphans \cup {Len(file)})
            /\ IsFiniteSet(Orphans')
        BY <2>3, <3>2, FS_Subset
      <3>4. Cardinality(Orphans') \in Nat
        BY <3>3, FS_CardinalityType
      <3> QED
        BY <3>1, <3>2, <3>3, <3>4
    <2>5. Paid'
      BY <1>0, <2>1, <2>4, OrphansFinite DEF Paid
    <2> QED
      BY <1>0, <2>1, <2>2, <2>5 DEF HeadIsLast, TailsFollow
  <1>6. CASE UNCHANGED logVars
    BY <1>1, <1>6 DEF logVars, MidAppend
  <1> QED
    BY <1>2, <1>3, <1>4, <1>5, <1>6 DEF LogNext

(* An event whose line does not parse was appended just behind an orphan. *)
LEMMA DamagedByOrphan ==
    ASSUME LogTypeOK, TailsFollow,
           NEW i \in 1..Len(file), EndsLine(file[i]), ~Parses(i)
    PROVE  \E j \in Orphans : j < Len(file) /\ file[j + 1].event = file[i].event
  <1>1. Len(file) \in Nat /\ file[i].part \in {"whole", "tail"}
    <2>1. Len(file) \in Nat /\ file[i] \in FilePiece
      BY DEF LogTypeOK
    <2> QED
      BY <2>1 DEF FilePiece, EndsLine
  <1>2. CASE file[i].part = "whole"
    <2>1. i > 1 /\ file[i - 1].part = "head"
      BY <1>1, <1>2 DEF Parses, LineStarts, EndsLine
    <2>2. i - 1 \in Orphans
      BY <1>1, <1>2, <2>1 DEF Orphans, Piece
    <2> QED
      BY <1>1, <2>1, <2>2
  <1>3. CASE file[i].part = "tail"
    <2>1. i > 1 /\ file[i - 1] = Piece(file[i].event, "head")
      BY <1>3 DEF TailsFollow
    <2>2. i - 1 > 1 /\ file[i - 2].part = "head"
      BY <1>1, <1>3, <2>1 DEF Parses, LineStarts, EndsLine
    <2>3. i - 2 \in Orphans
      BY <1>1, <2>1, <2>2 DEF Orphans, Piece
    <2>4. file[(i - 2) + 1].event = file[i].event
      BY <1>1, <2>1 DEF Piece
    <2> QED
      BY <1>1, <2>2, <2>3, <2>4
  <1> QED
    BY <1>1, <1>2, <1>3

LogInv == LogTypeOK /\ BuffersOK /\ LinesAreDone /\ Tidy

LEMMA LogInvariant == LogSpec => []LogInv
  <1>1. LogInit => LogInv
    BY LogInitOK, LinesInit, TidyInit DEF LogInv
  <1>2. LogInv /\ [LogNext]_logVars => LogInv'
    BY LogStepOK, LinesStep, TidyStep DEF LogInv
  <1> QED
    BY <1>1, <1>2, PTL DEF LogSpec

(* While no append has been cut and none has written inside another's,     *)
(* read_events raises nothing and returns exactly the events whose append  *)
(* has returned, in that order (logger.py:56-73).                          *)
THEOREM IntactLog == LogSpec => []IntactLogReadsBack
  <1>1. LogInv => IntactLogReadsBack
    <2> SUFFICES ASSUME LogInv, torn = 0, ~overlapped,
                        \A p \in Servers : ~MidAppend(p)
                 PROVE  ~ReadRaises /\ ReadEvents = done
      BY DEF IntactLogReadsBack
    <2>1. TailsFollow /\ Paid /\ LogTypeOK /\ LinesAreDone
      BY DEF LogInv, Tidy
    <2>2. Orphans = {}
      <3>1. IsFiniteSet(Orphans) /\ Cardinality(Orphans) = 0
        BY <2>1, OrphansFinite DEF Paid
      <3> QED
        BY <3>1, FS_EmptySet
    <2>3. Len(file) \in Nat /\ DOMAIN file = 1..Len(file) /\ (file # <<>> => Len(file) > 0)
      BY <2>1 DEF LogTypeOK
    <2>4. \A i \in DOMAIN file : EndsLine(file[i]) => Parses(i)
      BY <2>1, <2>2, <2>3, DamagedByOrphan
    <2>5. file # <<>> => EndsLine(file[Len(file)])
      BY <2>2, <2>3 DEF Orphans, EndsLine
    <2> QED
      BY <2>1, <2>4, <2>5, ReadsDone DEF ReadRaises
  <1> QED
    BY <1>1, LogInvariant, PTL

(* Every crash in the middle of an append damages at most one event that   *)
(* was reported as audited, the one appended next; and with SQLite none is *)
(* ever damaged (logger.py:56-59 and 87-100).                              *)
THEOREM CrashCost == LogSpec => []CrashCostsOneEvent
  <1>1. LogInv => CrashCostsOneEvent
    <2> SUFFICES ASSUME LogInv, ~overlapped
                 PROVE  Cardinality({done[i] : i \in DOMAIN done} \ Readable)
                           =< IF writer = "sqlite" THEN 0 ELSE torn
      BY DEF CrashCostsOneEvent
    <2> DEFINE Damaged == {done[i] : i \in DOMAIN done} \ Readable
               Joined == {j \in Orphans : j < Len(file)}
               following == [j \in Joined |-> file[j + 1].event]
               Followers == {following[j] : j \in Joined}
    <2>1. TailsFollow /\ Paid /\ LogTypeOK /\ BuffersOK /\ LinesAreDone
      BY DEF LogInv, Tidy
    <2>2. /\ Len(file) \in Nat /\ DOMAIN file = 1..Len(file)
          /\ Len(done) \in Nat /\ DOMAIN done = 1..Len(done) /\ torn \in Nat
      BY <2>1 DEF LogTypeOK
    <2>3. Damaged \subseteq Followers
      <3> SUFFICES ASSUME NEW n \in 1..Len(done), done[n] \notin Readable
                   PROVE  done[n] \in Followers
        BY <2>2
      <3>1. PICK i \in Lines(Len(file)) : file[i].event = done[n]
        BY <2>1 DEF LinesAreDone
      <3>2. i \in 1..Len(file) /\ EndsLine(file[i])
        BY DEF Lines
      <3>3. ~Parses(i)
        BY <2>2, <3>1, <3>2 DEF Readable
      <3>4. PICK j \in Orphans : j < Len(file) /\ file[j + 1].event = file[i].event
        BY <2>1, <3>2, <3>3, DamagedByOrphan
      <3> QED
        BY <3>1, <3>4
    <2>4. IsFiniteSet(Joined) /\ Cardinality(Joined) =< Cardinality(Orphans)
      BY <2>1, OrphansFinite, FS_Subset
    <2>5. IsFiniteSet(Followers) /\ Cardinality(Followers) =< Cardinality(Joined)
      <3>1. following \in Surjection(Joined, Followers)
        BY DEF Surjection
      <3> QED
        BY <2>4, <3>1, FS_Surjection
    <2>6. IsFiniteSet(Damaged) /\ Cardinality(Damaged) =< Cardinality(Followers)
      BY <2>3, <2>5, FS_Subset
    <2>7. /\ Cardinality(Damaged) \in Nat /\ Cardinality(Followers) \in Nat
          /\ Cardinality(Joined) \in Nat /\ Cardinality(Orphans) \in Nat
      BY <2>1, <2>4, <2>5, <2>6, OrphansFinite, FS_CardinalityType
    <2>8. Cardinality(Damaged) =< torn
      BY <2>1, <2>2, <2>4, <2>5, <2>6, <2>7 DEF Paid
    <2>9. CASE writer = "sqlite"
      <3>1. Orphans = {}
        BY <2>1, <2>2, <2>9 DEF BuffersOK, Orphans
      <3>2. Damaged = {}
        BY <2>3, <3>1
      <3> QED
        BY <2>9, <3>2, FS_EmptySet
    <2> QED
      BY <2>8, <2>9
  <1> QED
    BY <1>1, LogInvariant, PTL
=============================================================================
