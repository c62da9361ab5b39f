--------------------------- MODULE FaultAnalyzer ---------------------------
(***************************************************************************)
(* analyzers/cortexm/fault_analyzer.py: what the registers of a snapshot   *)
(* are taken to say.  A 32-bit register is the set of its bits that are 1, *)
(* or Missing: not in the snapshot, or not a number.  Of the fault address *)
(* registers only their presence counts.  Wording, raw values and the      *)
(* order of the lists are left out.                                        *)
(***************************************************************************)
EXTENDS Integers

CONSTANT Missing

Bits == 0..31
Register == {Missing} \cup SUBSET Bits

Snapshot ==
    [cfsr : Register, hfsr : Register, lr : Register, xpsr : Register,
     addresses : SUBSET {"mmfar", "bfar"}, symbol : BOOLEAN, stack : Nat]

OrZero(v) == IF v = Missing THEN {} ELSE v                \* v or 0
LowBits(v, n) == {b \in v : b < n}                        \* v & (2^n - 1)
ShiftRight(v, n) == {b \in Bits : b + n \in v}            \* v >> n

USAGE_FAULT_BITS ==
    [b \in {0, 1, 2, 3, 8, 9} |->
        CASE b = 0 -> "UNDEFINSTR" [] b = 1 -> "INVSTATE" [] b = 2 -> "INVPC"
          [] b = 3 -> "NOCP" [] b = 8 -> "UNALIGNED" [] b = 9 -> "DIVBYZERO"]
BUS_FAULT_BITS ==
    [b \in {0, 1, 2, 3, 4, 5, 7} |->
        CASE b = 0 -> "IBUSERR" [] b = 1 -> "PRECISERR" [] b = 2 -> "IMPRECISERR"
          [] b = 3 -> "UNSTKERR" [] b = 4 -> "STKERR" [] b = 5 -> "LSPERR"
          [] b = 7 -> "BFARVALID"]
MEMMANAGE_FAULT_BITS ==
    [b \in {0, 1, 3, 4, 5, 7} |->
        CASE b = 0 -> "IACCVIOL" [] b = 1 -> "DACCVIOL" [] b = 3 -> "MUNSTKERR"
          [] b = 4 -> "MSTKERR" [] b = 5 -> "MLSPERR" [] b = 7 -> "MMARVALID"]

(* The three status registers that CFSR joins. *)
MemBits(cfsr) == LowBits(OrZero(cfsr), 8)
BusBits(cfsr) == LowBits(ShiftRight(OrZero(cfsr), 8), 8)

(* Slip: the upper half is not shifted all the way down. *)
UsageBitsShort(cfsr) == LowBits(ShiftRight(OrZero(cfsr), 15), 16)

UsageBits(cfsr) == LowBits(ShiftRight(OrZero(cfsr), 16), 16)

(* _decode_bit_names *)
BitNames(value, names) == {names[b] : b \in value \cap DOMAIN names}

(* _classify_fault: the first register with a named bit is the fault. *)
Classify(cfsr, hfsr) ==
    LET usage == BitNames(UsageBits(cfsr), USAGE_FAULT_BITS)
        bus == BitNames(BusBits(cfsr), BUS_FAULT_BITS)
        mem == BitNames(MemBits(cfsr), MEMMANAGE_FAULT_BITS)
        Fault(kind, names) == [kind |-> kind, names |-> names]
    IN CASE usage # {} -> Fault("UsageFault", usage)
         [] usage = {} /\ bus # {} -> Fault("BusFault", bus)
         [] usage \cup bus = {} /\ mem # {} -> Fault("MemManageFault", mem)
         [] usage \cup bus \cup mem = {} /\ 30 \in OrZero(hfsr) ->
               Fault("HardFault", {"FORCED"})
         [] usage \cup bus \cup mem = {} /\ 30 \notin OrZero(hfsr)
               /\ 1 \in OrZero(hfsr) -> Fault("HardFault", {"VECTTBL"})
         [] OTHER -> Fault("none", {})

(* _add_fault_address_evidence: the address registers that are trusted. *)
ValidAddresses(s) ==
    {a \in s.addresses :
        \/ a = "mmfar" /\ 7 \in MemBits(s.cfsr)
        \/ a = "bfar" /\ 7 \in BusBits(s.cfsr)}

(* _is_exc_return, _decode_exc_return *)
IsExcReturn(v) == v # Missing /\ 24..31 \subseteq v
ExcReturn(v) ==
    [stack_pointer |-> IF 2 \in v THEN "psp" ELSE "msp",
     return_mode |-> IF 3 \in v THEN "thread" ELSE "handler",
     frame_type |-> IF 4 \in v THEN "basic" ELSE "extended"]

(* Slip: every kind of fault has the word in its name. *)
MentionsAnyFault(fault, word) ==
    \/ word \in fault.names
    \/ word = "PRECISERR" /\ "IMPRECISERR" \in fault.names
    \/ word = "MemManage" /\ fault.kind = "MemManageFault"
    \/ word = "HardFault" /\ fault.kind # "none"

(* Python's "word in fault_type" finds a word inside a longer one. *)
Mentions(fault, word) ==
    \/ word \in fault.names
    \/ word = "PRECISERR" /\ "IMPRECISERR" \in fault.names
    \/ word = "MemManage" /\ fault.kind = "MemManageFault"
    \/ word = "HardFault" /\ fault.kind = "HardFault"

Hypotheses(fault) ==
    IF Mentions(fault, "INVSTATE")
    THEN {"invalid-branch", "corrupt-pointer"}
    ELSE IF Mentions(fault, "PRECISERR")
         THEN {"precise-bus-fault"}
         ELSE IF Mentions(fault, "MemManage")
              THEN {"protected-memory"}
              ELSE IF Mentions(fault, "HardFault") THEN {"escalated"} ELSE {}

(* _decode_stacked_frame needs the eight words an exception pushes. *)
FrameBytes == 32

Evidence(s) ==
    LET fault == Classify(s.cfsr, s.hfsr)
        If(condition, item) == IF condition THEN {item} ELSE {}
    IN fault.names
       \cup ValidAddresses(s)
       \cup If(IsExcReturn(s.lr), "exc-return")
       \cup If(s.xpsr # Missing, "active-exception")
       \cup If(s.xpsr # Missing /\ 24 \notin OrZero(s.xpsr), "thumb-clear")
       \cup If(s.symbol, "symbol")
       \cup If(s.stack >= FrameBytes, "stacked-frame")
       \cup If(s.stack \in 1..FrameBytes - 1, "incomplete-stack")

(* CortexMFaultAnalyzer.analyze; confidence in hundredths *)
Analyze(s) ==
    [fault_type |-> Classify(s.cfsr, s.hfsr),
     confidence |-> IF OrZero(s.cfsr) \cup OrZero(s.hfsr) # {} THEN 90 ELSE 35,
     evidence |-> Evidence(s),
     hypotheses |-> Hypotheses(Classify(s.cfsr, s.hfsr)),
     actions |-> {"inspect-lr"}
                 \cup IF s.symbol THEN {} ELSE {"resolve-pc", "disassemble-pc"},
     active_exception |-> IF s.xpsr = Missing
                          THEN Missing ELSE LowBits(s.xpsr, 9),
     exc_return |-> IF IsExcReturn(s.lr) THEN ExcReturn(s.lr) ELSE Missing]

-----------------------------------------------------------------------------
(***************************************************************************)
(* The Armv7-M architecture as a reference: the bits of CFSR by their      *)
(* position in the whole register, and what the analyzer may conclude.     *)
(***************************************************************************)
CFSR ==
    [IACCVIOL |-> 0, DACCVIOL |-> 1, MUNSTKERR |-> 3, MSTKERR |-> 4,
     MLSPERR |-> 5, MMARVALID |-> 7,
     IBUSERR |-> 8, PRECISERR |-> 9, IMPRECISERR |-> 10, UNSTKERR |-> 11,
     STKERR |-> 12, LSPERR |-> 13, BFARVALID |-> 15,
     UNDEFINSTR |-> 16, INVSTATE |-> 17, INVPC |-> 18, NOCP |-> 19,
     UNALIGNED |-> 24, DIVBYZERO |-> 25]
HFSR == [VECTTBL |-> 1, FORCED |-> 30]
FaultBits(kind) ==
    CASE kind = "MemManageFault" -> 0..7
      [] kind = "BusFault" -> 8..15
      [] kind = "UsageFault" -> 16..31

SetIn(reg, bits) == {n \in DOMAIN CFSR : CFSR[n] \in OrZero(reg) \cap bits}

(* The analyzer reports every named bit of one status register and no      *)
(* other, looks at a register only when the graver ones say nothing, and   *)
(* trusts a fault address only under its own valid bit                     *)
(* (fault_analyzer.py:149-210: three shifts and masks, three tables and a  *)
(* cascade of early returns).                                              *)
NamesTheFault(s) ==
    LET fault == Analyze(s).fault_type
        Trusted(a, n) == a \in Analyze(s).evidence <=>
                             a \in s.addresses /\ CFSR[n] \in OrZero(s.cfsr)
    IN /\ CASE fault.kind \in {"MemManageFault", "BusFault", "UsageFault"} ->
                 /\ fault.names = SetIn(s.cfsr, FaultBits(fault.kind))
                 /\ fault.kind = "BusFault" =>
                       SetIn(s.cfsr, FaultBits("UsageFault")) = {}
                 /\ fault.kind = "MemManageFault" => SetIn(s.cfsr, 8..31) = {}
            [] fault.kind = "HardFault" ->
                 /\ SetIn(s.cfsr, Bits) = {}
                 /\ \A n \in fault.names : HFSR[n] \in OrZero(s.hfsr)
            [] fault.kind = "none" ->
                 /\ SetIn(s.cfsr, Bits) = {}
                 /\ \A n \in DOMAIN HFSR : HFSR[n] \notin OrZero(s.hfsr)
       /\ Trusted("mmfar", "MMARVALID") /\ Trusted("bfar", "BFARVALID")

(* A hypothesis is offered only when a bit that is evidence of it is set   *)
(* (docs/cortex-m-fault-analysis.md:101, "Do not produce a single-cause    *)
(* diagnosis without evidence."; fault_analyzer.py:82-92).                 *)
DiagnosisHasEvidence(s) ==
    \A h \in Analyze(s).hypotheses :
        CASE h \in {"invalid-branch", "corrupt-pointer"} ->
                CFSR.INVSTATE \in OrZero(s.cfsr)
          [] h = "precise-bus-fault" -> CFSR.PRECISERR \in OrZero(s.cfsr)
          [] h = "protected-memory" -> SetIn(s.cfsr, 0..7) # {}
          [] h = "escalated" -> OrZero(s.hfsr) # {}
=============================================================================
