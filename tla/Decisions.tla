----------------------------- MODULE Decisions -----------------------------
(***************************************************************************)
(* The server's two pure decisions and the inputs they are asked about:    *)
(* the policy engine and the fault analyzer.  An input changes by the      *)
(* steps that could change the decision: a request is given more           *)
(* authority, a fault status register records one more fault.              *)
(***************************************************************************)
EXTENDS SafetyPolicy, FaultAnalyzer, FiniteSets

CONSTANTS
    Requests,      \* the requests that are judged
    Snapshots,     \* the snapshots that are analyzed, before a fault
    MaxFaultBits   \* bound: fault bits set one after the other

(* The service never sets production_target. *)
ASSUME DecisionsAssumption ==
    /\ Requests \subseteq {r \in PolicyRequest : ~r.production}
    /\ Snapshots \subseteq Snapshot
    /\ MaxFaultBits \in Nat

VARIABLE input
Is(kind) == input.kind = kind
Become(kind, of) == input' = [kind |-> kind, of |-> of]

(* An operator or a client adds authority to a request. *)
RaiseMode ==
    /\ Is("request")
    /\ \/ /\ input.of.mode = READONLY
          /\ Become("request", [input.of EXCEPT !.mode = CONFIRM_REQUIRED])
       \/ /\ input.of.mode = CONFIRM_REQUIRED
          /\ Become("request", [input.of EXCEPT !.mode = FULL_CONTROL])

Confirm ==
    /\ Is("request") /\ ~input.of.confirmed
    /\ Become("request", [input.of EXCEPT !.confirmed = TRUE])

Allowlist ==
    /\ Is("request") /\ input.of.op \notin input.of.allowlist
    /\ Become("request", [input.of EXCEPT !.allowlist =
                             input.of.allowlist \cup {input.of.op}])

EnableWrites ==
    /\ Is("request") /\ ~input.of.writes
    /\ Become("request", [input.of EXCEPT !.writes = TRUE])

(* The core sets a bit of CFSR. *)
SetBit ==
    /\ Is("snapshot") /\ input.of.cfsr # Missing
    /\ Cardinality(input.of.cfsr) < MaxFaultBits
    /\ \E b \in 0..25 \ input.of.cfsr :
          Become("snapshot", [input.of EXCEPT !.cfsr = input.of.cfsr \cup {b}])

DecisionInit ==
    \/ \E r \in Requests : input = [kind |-> "request", of |-> r]
    \/ \E s \in Snapshots : input = [kind |-> "snapshot", of |-> s]

DecisionNext ==
    RaiseMode \/ Confirm \/ Allowlist \/ EnableWrites \/ SetBit

DecisionSpec == DecisionInit /\ [][DecisionNext]_input

-----------------------------------------------------------------------------
(* The engine allows nothing a documented rule forbids, and refuses        *)
(* nothing they allow but what its two guards of production hardware,      *)
(* which no document asks for, refuse (policy.py:163-314).                 *)
AllowedByTheRules ==
    Is("request") =>
        (Evaluate(input.of) = ALLOW
         <=> RequestRules(input.of) /\ ~ProductionGuard(input.of))

(* More authority never turns an allowed request into a refused one        *)
(* (policy.py:187-298).                                                    *)
AuthorityIsMonotone ==
    [][Is("request") /\ Evaluate(input.of) = ALLOW
       => Evaluate(input'.of) = ALLOW]_input

(* What the registry advertises is what the engine asks for: a confirmed   *)
(* request against an emulator is allowed in exactly the advertised mode   *)
(* and the stronger ones (tools.py:38-160 and policy.py:65-107 are two     *)
(* tables kept by hand).                                                   *)
RegistryMatchesEngine ==
    Is("request") /\ input.of.confirmed /\ input.of.writes
      /\ input.of.class = "emulator"
    => (Evaluate(input.of) = ALLOW
        <=> input.of.mode \in AtLeast(ToolPermission(input.of.op)))

(* NamesTheFault for every snapshot (fault_analyzer.py:149-210). *)
FaultIsNamed == Is("snapshot") => NamesTheFault(input.of)

(* cortex-m-fault-analysis.md:101 "Do not produce a single-cause diagnosis *)
(* without evidence.", and how far from it the analyzer is: every          *)
(* hypothesis offered has its evidence, unless IMPRECISERR is set and is   *)
(* read as PRECISERR, the end of its name (fault_analyzer.py:82-92).       *)
OnlyImpreciseIsMisread ==
    Is("snapshot") =>
        \/ DiagnosisHasEvidence(input.of)
        \/ /\ CFSR.IMPRECISERR \in OrZero(input.of.cfsr)
           /\ CFSR.PRECISERR \notin OrZero(input.of.cfsr)
=============================================================================
