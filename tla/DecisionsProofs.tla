-------------------------- MODULE DecisionsProofs --------------------------
(***************************************************************************)
(* The policy engine and the fault analyzer for every input: every request *)
(* the service can build and every value of the fault status registers,    *)
(* where TLC looks at allowlists of one operation and at a few bits.       *)
(***************************************************************************)
EXTENDS Decisions, PolicyProofs

-----------------------------------------------------------------------------
(* The fault analyzer.  Each status register decodes to the named bits of  *)
(* its part of CFSR.                                                       *)

LEMMA UsageNames ==
    ASSUME NEW r \in Register
    PROVE  BitNames(UsageBits(r), USAGE_FAULT_BITS) = SetIn(r, 16..31)
  <1>1. OrZero(r) \subseteq Bits
    BY DEF Register, OrZero
  <1>2. \A b \in 0..15 : b \in UsageBits(r) <=> b + 16 \in OrZero(r)
    BY <1>1 DEF UsageBits, LowBits, ShiftRight, Bits
  <1>3. /\ DOMAIN USAGE_FAULT_BITS = {0, 1, 2, 3, 8, 9}
        /\ USAGE_FAULT_BITS[0] = "UNDEFINSTR"
        /\ USAGE_FAULT_BITS[1] = "INVSTATE"
        /\ USAGE_FAULT_BITS[2] = "INVPC"
        /\ USAGE_FAULT_BITS[3] = "NOCP"
        /\ USAGE_FAULT_BITS[8] = "UNALIGNED"
        /\ USAGE_FAULT_BITS[9] = "DIVBYZERO"
    BY DEF USAGE_FAULT_BITS
  <1>4. \A n : n \in BitNames(UsageBits(r), USAGE_FAULT_BITS) <=>
            \/ n = "UNDEFINSTR" /\ 16 \in OrZero(r)
            \/ n = "INVSTATE" /\ 17 \in OrZero(r)
            \/ n = "INVPC" /\ 18 \in OrZero(r)
            \/ n = "NOCP" /\ 19 \in OrZero(r)
            \/ n = "UNALIGNED" /\ 24 \in OrZero(r)
            \/ n = "DIVBYZERO" /\ 25 \in OrZero(r)
    BY <1>2, <1>3 DEF BitNames
  <1>5. \A n : n \in SetIn(r, 16..31) <=>
            \/ n = "UNDEFINSTR" /\ 16 \in OrZero(r)
            \/ n = "INVSTATE" /\ 17 \in OrZero(r)
            \/ n = "INVPC" /\ 18 \in OrZero(r)
            \/ n = "NOCP" /\ 19 \in OrZero(r)
            \/ n = "UNALIGNED" /\ 24 \in OrZero(r)
            \/ n = "DIVBYZERO" /\ 25 \in OrZero(r)
    BY <1>1 DEF SetIn, CFSR, Bits
  <1> QED
    BY <1>4, <1>5

LEMMA BusNames ==
    ASSUME NEW r \in Register
    PROVE  BitNames(BusBits(r), BUS_FAULT_BITS) = SetIn(r, 8..15)
  <1>1. OrZero(r) \subseteq Bits
    BY DEF Register, OrZero
  <1>2. \A b \in 0..7 : b \in BusBits(r) <=> b + 8 \in OrZero(r)
    BY <1>1 DEF BusBits, LowBits, ShiftRight, Bits
  <1>3. /\ DOMAIN BUS_FAULT_BITS = {0, 1, 2, 3, 4, 5, 7}
        /\ BUS_FAULT_BITS[0] = "IBUSERR"
        /\ BUS_FAULT_BITS[1] = "PRECISERR"
        /\ BUS_FAULT_BITS[2] = "IMPRECISERR"
        /\ BUS_FAULT_BITS[3] = "UNSTKERR"
        /\ BUS_FAULT_BITS[4] = "STKERR"
        /\ BUS_FAULT_BITS[5] = "LSPERR"
        /\ BUS_FAULT_BITS[7] = "BFARVALID"
    BY DEF BUS_FAULT_BITS
  <1>4. \A n : n \in BitNames(BusBits(r), BUS_FAULT_BITS) <=>
            \/ n = "IBUSERR" /\ 8 \in OrZero(r)
            \/ n = "PRECISERR" /\ 9 \in OrZero(r)
            \/ n = "IMPRECISERR" /\ 10 \in OrZero(r)
            \/ n = "UNSTKERR" /\ 11 \in OrZero(r)
            \/ n = "STKERR" /\ 12 \in OrZero(r)
            \/ n = "LSPERR" /\ 13 \in OrZero(r)
            \/ n = "BFARVALID" /\ 15 \in OrZero(r)
    BY <1>2, <1>3 DEF BitNames
  <1>5. \A n : n \in SetIn(r, 8..15) <=>
            \/ n = "IBUSERR" /\ 8 \in OrZero(r)
            \/ n = "PRECISERR" /\ 9 \in OrZero(r)
            \/ n = "IMPRECISERR" /\ 10 \in OrZero(r)
            \/ n = "UNSTKERR" /\ 11 \in OrZero(r)
            \/ n = "STKERR" /\ 12 \in OrZero(r)
            \/ n = "LSPERR" /\ 13 \in OrZero(r)
            \/ n = "BFARVALID" /\ 15 \in OrZero(r)
    BY <1>1 DEF SetIn, CFSR, Bits
  <1> QED
    BY <1>4, <1>5

LEMMA MemNames ==
    ASSUME NEW r \in Register
    PROVE  BitNames(MemBits(r), MEMMANAGE_FAULT_BITS) = SetIn(r, 0..7)
  <1>1. OrZero(r) \subseteq Bits
    BY DEF Register, OrZero
  <1>2. \A b \in 0..7 : b \in MemBits(r) <=> b + 0 \in OrZero(r)
    BY <1>1 DEF MemBits, LowBits, ShiftRight, Bits
  <1>3. /\ DOMAIN MEMMANAGE_FAULT_BITS = {0, 1, 3, 4, 5, 7}
        /\ MEMMANAGE_FAULT_BITS[0] = "IACCVIOL"
        /\ MEMMANAGE_FAULT_BITS[1] = "DACCVIOL"
        /\ MEMMANAGE_FAULT_BITS[3] = "MUNSTKERR"
        /\ MEMMANAGE_FAULT_BITS[4] = "MSTKERR"
        /\ MEMMANAGE_FAULT_BITS[5] = "MLSPERR"
        /\ MEMMANAGE_FAULT_BITS[7] = "MMARVALID"
    BY DEF MEMMANAGE_FAULT_BITS
  <1>4. \A n : n \in BitNames(MemBits(r), MEMMANAGE_FAULT_BITS) <=>
            \/ n = "IACCVIOL" /\ 0 \in OrZero(r)
            \/ n = "DACCVIOL" /\ 1 \in OrZero(r)
            \/ n = "MUNSTKERR" /\ 3 \in OrZero(r)
            \/ n = "MSTKERR" /\ 4 \in OrZero(r)
            \/ n = "MLSPERR" /\ 5 \in OrZero(r)
            \/ n = "MMARVALID" /\ 7 \in OrZero(r)
    BY <1>2, <1>3 DEF BitNames
  <1>5. \A n : n \in SetIn(r, 0..7) <=>
            \/ n = "IACCVIOL" /\ 0 \in OrZero(r)
            \/ n = "DACCVIOL" /\ 1 \in OrZero(r)
            \/ n = "MUNSTKERR" /\ 3 \in OrZero(r)
            \/ n = "MSTKERR" /\ 4 \in OrZero(r)
            \/ n = "MLSPERR" /\ 5 \in OrZero(r)
            \/ n = "MMARVALID" /\ 7 \in OrZero(r)
    BY <1>1 DEF SetIn, CFSR, Bits
  <1> QED
    BY <1>4, <1>5

LEMMA Parts ==
    ASSUME NEW r \in Register
    PROVE  /\ SetIn(r, 8..31) = SetIn(r, 8..15) \cup SetIn(r, 16..31)
           /\ SetIn(r, Bits) =
                 SetIn(r, 0..7) \cup SetIn(r, 8..15) \cup SetIn(r, 16..31)
           /\ "mmfar" \notin SetIn(r, Bits) /\ "bfar" \notin SetIn(r, Bits)
  <1>1. /\ 8..31 = 8..15 \cup 16..31
        /\ Bits = 0..7 \cup 8..15 \cup 16..31
    BY DEF Bits
  <1>2. "mmfar" \notin DOMAIN CFSR /\ "bfar" \notin DOMAIN CFSR
    BY DEF CFSR
  <1> QED
    BY <1>1, <1>2 DEF SetIn

LEMMA Classified ==
    ASSUME NEW s \in Snapshot
    PROVE  LET f == Classify(s.cfsr, s.hfsr)
               Usage == SetIn(s.cfsr, 16..31)
               Bus == SetIn(s.cfsr, 8..15)
               Mem == SetIn(s.cfsr, 0..7)
           IN  \/ f.kind = "UsageFault" /\ f.names = Usage
               \/ f.kind = "BusFault" /\ f.names = Bus /\ Usage = {}
               \/ /\ f.kind = "MemManageFault" /\ f.names = Mem /\ Mem # {}
                  /\ Usage \cup Bus = {}
               \/ /\ f.kind = "HardFault" /\ Usage \cup Bus \cup Mem = {}
                  /\ \/ f.names = {"FORCED"} /\ 30 \in OrZero(s.hfsr)
                     \/ f.names = {"VECTTBL"} /\ 1 \in OrZero(s.hfsr)
               \/ /\ f.kind = "none" /\ Usage \cup Bus \cup Mem = {}
                  /\ f.names = {}
                  /\ 30 \notin OrZero(s.hfsr) /\ 1 \notin OrZero(s.hfsr)
  <1>1. s.cfsr \in Register
    BY DEF Snapshot
  <1> DEFINE usage == BitNames(UsageBits(s.cfsr), USAGE_FAULT_BITS)
             bus == BitNames(BusBits(s.cfsr), BUS_FAULT_BITS)
             mem == BitNames(MemBits(s.cfsr), MEMMANAGE_FAULT_BITS)
  <1>2. /\ usage = SetIn(s.cfsr, 16..31)
        /\ bus = SetIn(s.cfsr, 8..15)
        /\ mem = SetIn(s.cfsr, 0..7)
    BY <1>1, UsageNames, BusNames, MemNames
  <1> HIDE DEF usage, bus, mem
  <1>3. Classify(s.cfsr, s.hfsr) =
            CASE usage # {} -> [kind |-> "UsageFault", names |-> usage]
              [] usage = {} /\ bus # {} -> [kind |-> "BusFault", names |-> bus]
              [] usage \cup bus = {} /\ mem # {} ->
                    [kind |-> "MemManageFault", names |-> mem]
              [] usage \cup bus \cup mem = {} /\ 30 \in OrZero(s.hfsr) ->
                    [kind |-> "HardFault", names |-> {"FORCED"}]
              [] usage \cup bus \cup mem = {} /\ 30 \notin OrZero(s.hfsr)
                    /\ 1 \in OrZero(s.hfsr) ->
                    [kind |-> "HardFault", names |-> {"VECTTBL"}]
              [] OTHER -> [kind |-> "none", names |-> {}]
    BY DEF Classify, usage, bus, mem
  <1>4. CASE usage # {}
    <2>1. Classify(s.cfsr, s.hfsr) = [kind |-> "UsageFault", names |-> usage]
      BY <1>3, <1>4
    <2> QED
      BY <1>2, <2>1
  <1>5. CASE usage = {} /\ bus # {}
    <2>1. Classify(s.cfsr, s.hfsr) = [kind |-> "BusFault", names |-> bus]
      BY <1>3, <1>5
    <2> QED
      BY <1>2, <1>5, <2>1
  <1>6. CASE usage \cup bus = {} /\ mem # {}
    <2>1. usage = {} /\ bus = {}
      BY <1>6
    <2>2. Classify(s.cfsr, s.hfsr) = [kind |-> "MemManageFault", names |-> mem]
      BY <1>3, <1>6, <2>1
    <2> QED
      BY <1>2, <1>6, <2>2
  <1>7. CASE usage \cup bus \cup mem = {}
    <2>1. usage = {} /\ bus = {} /\ mem = {}
      BY <1>7
    <2>2. CASE 30 \in OrZero(s.hfsr)
      <3>1. Classify(s.cfsr, s.hfsr) = [kind |-> "HardFault", names |-> {"FORCED"}]
        BY <1>3, <1>7, <2>1, <2>2
      <3> QED
        BY <1>2, <1>7, <2>2, <3>1
    <2>3. CASE 30 \notin OrZero(s.hfsr) /\ 1 \in OrZero(s.hfsr)
      <3>1. Classify(s.cfsr, s.hfsr) = [kind |-> "HardFault", names |-> {"VECTTBL"}]
        BY <1>3, <1>7, <2>1, <2>3
      <3> QED
        BY <1>2, <1>7, <2>3, <3>1
    <2>4. CASE 30 \notin OrZero(s.hfsr) /\ 1 \notin OrZero(s.hfsr)
      <3>1. Classify(s.cfsr, s.hfsr) = [kind |-> "none", names |-> {}]
        BY <1>3, <1>7, <2>1, <2>4
      <3> QED
        BY <1>2, <1>7, <2>4, <3>1
    <2> QED
      BY <2>2, <2>3, <2>4
  <1> QED
    BY <1>4, <1>5, <1>6, <1>7

(* For every value of the fault registers: the analyzer reports the named  *)
(* bits of one status register at the architecture's positions, of the     *)
(* gravest one that has any, and trusts an address only under its own      *)
(* valid bit (fault_analyzer.py:149-210).                                  *)
THEOREM EveryFaultIsNamed == \A s \in Snapshot : NamesTheFault(s)
  <1> SUFFICES ASSUME NEW s \in Snapshot PROVE NamesTheFault(s)
    OBVIOUS
  <1> DEFINE f == Classify(s.cfsr, s.hfsr)
  <1>1. s.cfsr \in Register /\ s.addresses \subseteq {"mmfar", "bfar"}
    BY DEF Snapshot
  <1>2. /\ Analyze(s).fault_type = f
        /\ Analyze(s).evidence = Evidence(s)
    BY DEF Analyze
  <1>3. /\ FaultBits("UsageFault") = 16..31
        /\ FaultBits("BusFault") = 8..15
        /\ FaultBits("MemManageFault") = 0..7
    BY DEF FaultBits
  <1>4. /\ HFSR.VECTTBL = 1 /\ HFSR.FORCED = 30
        /\ DOMAIN HFSR = {"VECTTBL", "FORCED"}
    BY DEF HFSR
  <1>5. f.names \subseteq SetIn(s.cfsr, Bits) \cup {"FORCED", "VECTTBL"}
    BY <1>1, Classified, Parts
  <1>6. "mmfar" \notin f.names /\ "bfar" \notin f.names
    BY <1>1, <1>5, Parts
  <1>7. /\ "mmfar" \in Evidence(s) <=> "mmfar" \in ValidAddresses(s)
        /\ "bfar" \in Evidence(s) <=> "bfar" \in ValidAddresses(s)
    BY <1>6 DEF Evidence
  <1>8. /\ "mmfar" \in ValidAddresses(s) <=>
              "mmfar" \in s.addresses /\ 7 \in OrZero(s.cfsr)
        /\ "bfar" \in ValidAddresses(s) <=>
              "bfar" \in s.addresses /\ 15 \in OrZero(s.cfsr)
    BY DEF ValidAddresses, MemBits, BusBits, LowBits, ShiftRight, Bits
  <1>9. CFSR.MMARVALID = 7 /\ CFSR.BFARVALID = 15
    BY DEF CFSR
  <1> HIDE DEF f
  <1>10. \/ f.kind = "UsageFault" /\ f.names = SetIn(s.cfsr, 16..31)
         \/ /\ f.kind = "BusFault" /\ f.names = SetIn(s.cfsr, 8..15)
            /\ SetIn(s.cfsr, 16..31) = {}
         \/ /\ f.kind = "MemManageFault" /\ f.names = SetIn(s.cfsr, 0..7)
            /\ SetIn(s.cfsr, 8..31) = {}
         \/ /\ f.kind = "HardFault" /\ SetIn(s.cfsr, Bits) = {}
            /\ \A n \in f.names : HFSR[n] \in OrZero(s.hfsr)
         \/ /\ f.kind = "none" /\ SetIn(s.cfsr, Bits) = {}
            /\ \A n \in DOMAIN HFSR : HFSR[n] \notin OrZero(s.hfsr)
    BY <1>1, <1>4, Classified, Parts, SMTT(30) DEF f
  <1> QED
    BY <1>2, <1>3, <1>7, <1>8, <1>9, <1>10 DEF NamesTheFault

(* Names of a part of a register are set bits of the register.             *)
LEMMA NamesAreBits ==
    ASSUME NEW r \in Register, NEW bits
    PROVE  \A n \in SetIn(r, bits) : CFSR[n] \in OrZero(r)
  BY DEF SetIn

(* For every value of the fault registers: a hypothesis without evidence   *)
(* comes from reading IMPRECISERR as PRECISERR, and from nothing else      *)
(* (fault_analyzer.py:82-92).                                              *)
THEOREM UnfoundedOnlyIfImprecise ==
    \A s \in Snapshot :
        \/ DiagnosisHasEvidence(s)
        \/ /\ CFSR.IMPRECISERR \in OrZero(s.cfsr)
           /\ CFSR.PRECISERR \notin OrZero(s.cfsr)
  <1> SUFFICES ASSUME NEW s \in Snapshot,
                      CFSR.IMPRECISERR \in OrZero(s.cfsr) =>
                          CFSR.PRECISERR \in OrZero(s.cfsr)
               PROVE  DiagnosisHasEvidence(s)
    OBVIOUS
  <1> DEFINE f == Classify(s.cfsr, s.hfsr)
  <1>1. s.cfsr \in Register
    BY DEF Snapshot
  <1>2. Analyze(s).hypotheses = Hypotheses(f)
    BY DEF Analyze
  <1>3. /\ "INVSTATE" \in f.names => CFSR.INVSTATE \in OrZero(s.cfsr)
        /\ "PRECISERR" \in f.names => CFSR.PRECISERR \in OrZero(s.cfsr)
        /\ "IMPRECISERR" \in f.names => CFSR.PRECISERR \in OrZero(s.cfsr)
    <2>1. \A n \in f.names : n \in {"FORCED", "VECTTBL"}
                                \/ CFSR[n] \in OrZero(s.cfsr)
      BY <1>1, Classified, NamesAreBits
    <2> HIDE DEF f
    <2> QED
      BY <2>1
  <1>4. /\ f.kind = "MemManageFault" => SetIn(s.cfsr, 0..7) # {}
        /\ f.kind = "HardFault" => OrZero(s.hfsr) # {}
    BY Classified
  <1>5. "MemManage" \notin f.names /\ "HardFault" \notin f.names
    <2>1. f.names \subseteq DOMAIN CFSR \cup {"FORCED", "VECTTBL"}
      BY <1>1, Classified DEF SetIn
    <2>2. /\ "MemManage" \notin DOMAIN CFSR \cup {"FORCED", "VECTTBL"}
          /\ "HardFault" \notin DOMAIN CFSR \cup {"FORCED", "VECTTBL"}
      BY DEF CFSR
    <2> QED
      BY <2>1, <2>2
  <1> HIDE DEF f
  <1>6. ASSUME NEW h \in Hypotheses(f)
        PROVE  \/ /\ h \in {"invalid-branch", "corrupt-pointer"}
                  /\ CFSR.INVSTATE \in OrZero(s.cfsr)
               \/ /\ h = "precise-bus-fault"
                  /\ CFSR.PRECISERR \in OrZero(s.cfsr)
               \/ h = "protected-memory" /\ SetIn(s.cfsr, 0..7) # {}
               \/ h = "escalated" /\ OrZero(s.hfsr) # {}
    <2>1. /\ Mentions(f, "INVSTATE") <=> "INVSTATE" \in f.names
          /\ Mentions(f, "PRECISERR") <=>
                "PRECISERR" \in f.names \/ "IMPRECISERR" \in f.names
      BY DEF Mentions
    <2>2. CASE Mentions(f, "INVSTATE")
      BY <1>3, <1>6, <2>1, <2>2 DEF Hypotheses, Mentions
    <2>3. CASE ~Mentions(f, "INVSTATE") /\ Mentions(f, "PRECISERR")
      BY <1>3, <1>6, <2>1, <2>3 DEF Hypotheses
    <2>4. CASE ~Mentions(f, "INVSTATE") /\ ~Mentions(f, "PRECISERR")
      <3>1. /\ Mentions(f, "MemManage") => f.kind = "MemManageFault"
            /\ Mentions(f, "HardFault") => f.kind = "HardFault"
        BY <1>5 DEF Mentions
      <3> QED
        BY <1>4, <1>6, <2>4, <3>1 DEF Hypotheses
    <2> QED
      BY <2>2, <2>3, <2>4
  <1> QED
    BY <1>2, <1>6 DEF DiagnosisHasEvidence

-----------------------------------------------------------------------------
(* The same of the inputs of a run, whatever requests and snapshots it is  *)
(* given: the input stays one that is covered by the theorems above.       *)

InputOK ==
    \/ \E r \in Buildable : input = [kind |-> "request", of |-> r]
    \/ \E s \in Snapshot : input = [kind |-> "snapshot", of |-> s]

LEMMA InputInit == DecisionInit => InputOK
  BY DecisionsAssumption DEF DecisionInit, InputOK, Buildable

LEMMA RequestSteps ==
    ASSUME InputOK, RaiseMode \/ Confirm \/ Allowlist \/ EnableWrites
    PROVE  \E q, r \in Buildable :
              /\ input = [kind |-> "request", of |-> q]
              /\ input' = [kind |-> "request", of |-> r]
              /\ r.op = q.op /\ r.class = q.class
              /\ r.mode \in AtLeast(q.mode)
              /\ q.confirmed => r.confirmed
              /\ q.writes => r.writes
              /\ q.allowlist \subseteq r.allowlist
  <1>1. PICK q \in Buildable : input = [kind |-> "request", of |-> q]
    BY DEF InputOK, RaiseMode, Confirm, Allowlist, EnableWrites, Is
  <1>2. q.mode \in PermissionLevel /\ q.op \in DebugOperation
    BY DEF Buildable, PolicyRequest
  <1>3. q.mode \in AtLeast(q.mode)
    BY <1>2, ModesDiffer DEF AtLeast, PermissionLevel
  <1> DEFINE Suitable(r) ==
        /\ r \in Buildable
        /\ input' = [kind |-> "request", of |-> r]
        /\ r.op = q.op /\ r.class = q.class
        /\ r.mode \in AtLeast(q.mode)
        /\ q.confirmed => r.confirmed
        /\ q.writes => r.writes
        /\ q.allowlist \subseteq r.allowlist
  <1>4. ASSUME RaiseMode PROVE \E r : Suitable(r)
    <2>1. CASE q.mode = READONLY /\ Become("request", [q EXCEPT !.mode = CONFIRM_REQUIRED])
      <3>1. Suitable([q EXCEPT !.mode = CONFIRM_REQUIRED])
        BY <2>1, ModesDiffer DEF Become, Buildable, PolicyRequest, PermissionLevel, AtLeast
      <3> QED
        BY <3>1
    <2>2. CASE /\ q.mode = CONFIRM_REQUIRED
               /\ Become("request", [q EXCEPT !.mode = FULL_CONTROL])
      <3>1. Suitable([q EXCEPT !.mode = FULL_CONTROL])
        BY <2>2, ModesDiffer DEF Become, Buildable, PolicyRequest, PermissionLevel, AtLeast
      <3> QED
        BY <3>1
    <2> QED
      BY <1>1, <1>4, <2>1, <2>2 DEF RaiseMode
  <1>5. ASSUME Confirm PROVE \E r : Suitable(r)
    <2>1. Suitable([q EXCEPT !.confirmed = TRUE])
      BY <1>1, <1>3, <1>5 DEF Confirm, Become, Buildable, PolicyRequest
    <2> QED
      BY <2>1
  <1>6. ASSUME Allowlist PROVE \E r : Suitable(r)
    <2>1. Suitable([q EXCEPT !.allowlist = q.allowlist \cup {q.op}])
      BY <1>1, <1>2, <1>3, <1>6 DEF Allowlist, Become, Buildable, PolicyRequest
    <2> QED
      BY <2>1
  <1>7. ASSUME EnableWrites PROVE \E r : Suitable(r)
    <2>1. Suitable([q EXCEPT !.writes = TRUE])
      BY <1>1, <1>3, <1>7 DEF EnableWrites, Become, Buildable, PolicyRequest
    <2> QED
      BY <2>1
  <1>8. PICK r : Suitable(r)
    BY <1>4, <1>5, <1>6, <1>7
  <1> QED
    BY <1>1, <1>8

LEMMA InputStep == InputOK /\ [DecisionNext]_input => InputOK'
  <1> SUFFICES ASSUME InputOK, [DecisionNext]_input PROVE InputOK'
    OBVIOUS
  <1>1. CASE RaiseMode \/ Confirm \/ Allowlist \/ EnableWrites
    BY <1>1, RequestSteps DEF InputOK
  <1>2. CASE SetBit
    <2>1. PICK s \in Snapshot : input = [kind |-> "snapshot", of |-> s]
      BY <1>2 DEF InputOK, SetBit, Is
    <2>2. PICK b \in 0..25 :
             /\ s.cfsr # Missing
             /\ input' = [kind |-> "snapshot",
                          of |-> [s EXCEPT !.cfsr = s.cfsr \cup {b}]]
      BY <1>2, <2>1 DEF SetBit, Become
    <2>3. s.cfsr \cup {b} \in SUBSET Bits
      BY <2>2 DEF Snapshot, Register, Bits
    <2>4. [s EXCEPT !.cfsr = s.cfsr \cup {b}] \in Snapshot
      BY <2>3 DEF Snapshot, Register
    <2> QED
      BY <2>2, <2>4 DEF InputOK
  <1>3. CASE UNCHANGED input
    BY <1>3 DEF InputOK
  <1> QED
    BY <1>1, <1>2, <1>3 DEF DecisionNext

LEMMA InputsOK == DecisionSpec => []InputOK
  BY InputInit, InputStep, PTL DEF DecisionSpec

(* The engine allows exactly what the documented rules of a request allow, *)
(* but for what its two guards of production hardware refuse               *)
(* (policy.py:163-314).                                                    *)
THEOREM AllowedFollowsRules == DecisionSpec => []AllowedByTheRules
  <1>1. InputOK => AllowedByTheRules
    BY EngineFollowsRules DEF InputOK, AllowedByTheRules, Is
  <1> QED
    BY <1>1, InputsOK, PTL

(* The registry and the engine agree (tools.py:38-160, policy.py:65-107).  *)
THEOREM RegistryIsTrue == DecisionSpec => []RegistryMatchesEngine
  <1>1. InputOK => RegistryMatchesEngine
    BY RegistryAgrees DEF InputOK, RegistryMatchesEngine, Is
  <1> QED
    BY <1>1, InputsOK, PTL

(* Every fault is named by its bits (fault_analyzer.py:149-210). *)
THEOREM FaultsAreNamed == DecisionSpec => []FaultIsNamed
  <1>1. InputOK => FaultIsNamed
    BY EveryFaultIsNamed DEF InputOK, FaultIsNamed, Is
  <1> QED
    BY <1>1, InputsOK, PTL

(* But for IMPRECISERR no hypothesis lacks its evidence                    *)
(* (fault_analyzer.py:82-92).                                              *)
THEOREM HypothesesAreFounded == DecisionSpec => []OnlyImpreciseIsMisread
  <1>1. InputOK => OnlyImpreciseIsMisread
    BY UnfoundedOnlyIfImprecise DEF InputOK, OnlyImpreciseIsMisread, Is
  <1> QED
    BY <1>1, InputsOK, PTL

(* More authority never takes an allowed operation away                    *)
(* (policy.py:187-298).                                                    *)
THEOREM AuthorityOnlyAdds == DecisionSpec => AuthorityIsMonotone
  <1>1. InputOK /\ [DecisionNext]_input =>
           [Is("request") /\ Evaluate(input.of) = ALLOW
              => Evaluate(input'.of) = ALLOW]_input
    <2> SUFFICES ASSUME InputOK, DecisionNext, Is("request"),
                        Evaluate(input.of) = ALLOW
                 PROVE  Evaluate(input'.of) = ALLOW
      OBVIOUS
    <2>1. RaiseMode \/ Confirm \/ Allowlist \/ EnableWrites
      BY DEF DecisionNext, SetBit, Is
    <2>2. PICK q, r \in Buildable :
             /\ input = [kind |-> "request", of |-> q]
             /\ input' = [kind |-> "request", of |-> r]
             /\ r.op = q.op /\ r.class = q.class
             /\ r.mode \in AtLeast(q.mode)
             /\ q.confirmed => r.confirmed
             /\ q.writes => r.writes
             /\ q.allowlist \subseteq r.allowlist
      BY <2>1, RequestSteps
    <2>3. Grantable(q)
      BY <2>2, EngineFollowsRules DEF Grantable
    <2>4. Grantable(r)
      BY <2>2, <2>3, MoreAuthority
    <2> QED
      BY <2>2, <2>4, EngineFollowsRules DEF Grantable
  <1> QED
    BY <1>1, InputsOK, PTL DEF DecisionSpec, AuthorityIsMonotone
=============================================================================
