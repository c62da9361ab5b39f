------------------------- MODULE ToolServiceProofs -------------------------
(***************************************************************************)
(* The tool service for any number of callers, sessions and tokens, any    *)
(* requests, configurations and limits: it uses the confirmation store     *)
(* only through the store's own operations, its slot counters are exact,   *)
(* with one operation per session a call has its session to itself, and    *)
(* what is in flight is authorized and safe.                               *)
(***************************************************************************)
EXTENDS ToolService, PolicyProofs, FiniteSetTheorems

(***************************************************************************)
(* The one-time guarantees of the confirmation store, for any number of    *)
(* tokens, operations and request bodies, any lifetime and any clock.      *)
(***************************************************************************)
(* What each token is, at any time, in terms of its history: a token in    *)
(* the store has never been presented and is as it was issued; one that    *)
(* was accepted has been presented, once, and for what it was issued for.  *)
TokenInv(t) ==
    /\ records[t] # NoRecord => /\ records[t] = issuedAs[t]
                                /\ t \notin tried
    /\ t \notin tried => uses[t] = 0
    /\ t \in tried => /\ issuedAs[t] # NoRecord
                      /\ uses[t] =< 1
    /\ uses[t] > 0 => /\ lastUse[t].operation = issuedAs[t].operation
                      /\ lastUse[t].fingerprint = issuedAs[t].fingerprint
                      /\ lastUse[t].at =< issuedAs[t].expires_at

StoreInv == StoreTypeOK /\ \A t \in Tokens : TokenInv(t)

(* The record issue builds is a confirmation record. *)
LEMMA RecordType ==
    ASSUME now \in Nat, NEW op \in Operations, NEW fp \in Fingerprints
    PROVE  Record(op, fp) \in ConfirmationRecord
  BY TTLAssumption DEF Record, ConfirmationRecord

(* The checks of verify succeed only for a record that is in the store,    *)
(* matches the call and has not expired.                                   *)
LEMMA MatchedRecord ==
    ASSUME StoreTypeOK, NEW tok \in Tokens, NEW op, NEW fp,
           Matches(tok, op, fp)
    PROVE  /\ records[tok] # NoRecord
           /\ records[tok].operation = op
           /\ records[tok].fingerprint = fp
           /\ now =< records[tok].expires_at
  <1>1. records[tok] \in ConfirmationRecord
    BY DEF Matches, StoreTypeOK
  <1>2. records[tok].expires_at \in Nat /\ now \in Nat
    BY <1>1 DEF ConfirmationRecord, StoreTypeOK
  <1> QED
    BY <1>2 DEF Matches

(* The store starts empty, so no token has a history. *)
LEMMA StoreInitInv == StoreInit => StoreInv
  <1> SUFFICES ASSUME StoreInit PROVE StoreInv
    OBVIOUS
  <1>1. StoreTypeOK
    BY DEF StoreInit, StoreTypeOK
  <1>2. ASSUME NEW t \in Tokens PROVE TokenInv(t)
    BY DEF StoreInit, TokenInv
  <1> QED
    BY <1>1, <1>2 DEF StoreInv

(* issue gives a token that has no history its first record. *)
LEMMA IssueInv ==
    ASSUME StoreInv, NEW tok \in Tokens, NEW op \in Operations,
           NEW fp \in Fingerprints, Issue(tok, op, fp)
    PROVE  StoreInv'
  <1>1. Record(op, fp) \in ConfirmationRecord
    BY RecordType DEF StoreInv, StoreTypeOK
  <1>2. StoreTypeOK'
    BY <1>1 DEF StoreInv, StoreTypeOK, Issue
  <1>3. ASSUME NEW t \in Tokens PROVE TokenInv(t)'
    <2>1. CASE t = tok
      <3>1. t \notin tried /\ uses[t] = 0
        BY <2>1 DEF StoreInv, TokenInv, Issue
      <3>2. records'[t] = issuedAs'[t]
        BY <2>1 DEF Issue, StoreInv, StoreTypeOK
      <3> QED
        BY <3>1, <3>2 DEF TokenInv, Issue
    <2>2. CASE t # tok
      <3>1. records'[t] = records[t] /\ issuedAs'[t] = issuedAs[t]
        BY <2>2 DEF Issue, StoreInv, StoreTypeOK
      <3> QED
        BY <3>1 DEF TokenInv, Issue, StoreInv
    <2> QED
      BY <2>1, <2>2
  <1> QED
    BY <1>2, <1>3 DEF StoreInv

(* What a verify call does to the history keeps its type. *)
LEMMA NoteVerifyType ==
    ASSUME StoreTypeOK, NEW tok \in Tokens, NEW op \in Operations,
           NEW fp \in Fingerprints, NoteVerify(tok, op, fp)
    PROVE  /\ uses' \in [Tokens -> Nat]
           /\ lastUse' \in [Tokens -> Use \cup {NoRecord}]
           /\ tried' \subseteq Tokens
  <1>1. [operation |-> op, fingerprint |-> fp, at |-> now] \in Use
    BY DEF Use, StoreTypeOK
  <1> QED
    BY <1>1 DEF NoteVerify, StoreTypeOK

(* verify, accepting or not, leaves the presented token out of the store    *)
(* and, when it accepts, notes a first use that agrees with the issue.      *)
LEMMA VerifiedToken ==
    ASSUME StoreInv, NEW tok \in Tokens, NEW op \in Operations,
           NEW fp \in Fingerprints, NoteVerify(tok, op, fp),
           records'[tok] = NoRecord, issuedAs'[tok] = issuedAs[tok]
    PROVE  TokenInv(tok)'
  <1> USE DEF StoreInv
  <1>1. uses[tok] \in Nat /\ TokenInv(tok)
    BY DEF StoreTypeOK
  <1>2. CASE Matches(tok, op, fp)
    <2>1. /\ records[tok] = issuedAs[tok] /\ issuedAs[tok] # NoRecord
          /\ tok \notin tried /\ uses[tok] = 0
          /\ issuedAs[tok].operation = op
          /\ issuedAs[tok].fingerprint = fp
          /\ now =< issuedAs[tok].expires_at
      BY <1>1, <1>2, MatchedRecord DEF TokenInv
    <2>2. /\ uses'[tok] = 1
          /\ lastUse'[tok] = [operation |-> op, fingerprint |-> fp, at |-> now]
          /\ tok \in tried'
      BY <1>2, <2>1 DEF NoteVerify, StoreTypeOK
    <2> QED
      BY <2>1, <2>2 DEF TokenInv
  <1>3. CASE ~Matches(tok, op, fp)
    <2>1. uses'[tok] = uses[tok] /\ lastUse'[tok] = lastUse[tok]
      BY <1>3 DEF NoteVerify, StoreTypeOK
    <2>2. tok \in tried' <=> issuedAs[tok] # NoRecord
      BY <1>1 DEF NoteVerify, TokenInv
    <2> QED
      BY <1>1, <2>1, <2>2 DEF TokenInv, StoreTypeOK
  <1> QED
    BY <1>2, <1>3

(* A token that is neither presented nor issued in a step keeps its part.  *)
LEMMA OtherToken ==
    ASSUME StoreInv, NEW tok \in Tokens, NEW op, NEW fp,
           NEW t \in Tokens, t # tok, NoteVerify(tok, op, fp),
           records'[t] = records[t], issuedAs'[t] = issuedAs[t]
    PROVE  TokenInv(t)'
  <1>1. /\ uses'[t] = uses[t] /\ lastUse'[t] = lastUse[t]
        /\ t \in tried' <=> t \in tried
    BY DEF NoteVerify, StoreInv, StoreTypeOK
  <1> QED
    BY <1>1 DEF TokenInv, StoreInv

(* verify alone. *)
LEMMA VerifyInv ==
    ASSUME StoreInv, NEW tok \in Tokens, NEW op \in Operations,
           NEW fp \in Fingerprints, Verify(tok, op, fp)
    PROVE  StoreInv'
  <1>1. NoteVerify(tok, op, fp) /\ now' = now /\ issuedAs' = issuedAs
        /\ records' = [records EXCEPT ![tok] = NoRecord]
    BY DEF Verify, Popped
  <1>2. StoreTypeOK'
    BY <1>1, NoteVerifyType DEF StoreInv, StoreTypeOK
  <1>3. ASSUME NEW t \in Tokens PROVE TokenInv(t)'
    <2>1. CASE t = tok
      BY <1>1, <2>1, VerifiedToken DEF StoreInv, StoreTypeOK
    <2>2. CASE t # tok
      BY <1>1, <2>2, OtherToken DEF StoreInv, StoreTypeOK
    <2> QED
      BY <2>1, <2>2
  <1> QED
    BY <1>2, <1>3 DEF StoreInv

(* verify and issue in one step of the event loop. *)
LEMMA VerifyThenIssueInv ==
    ASSUME StoreInv, NEW tok \in Tokens, NEW new \in Tokens,
           NEW op \in Operations, NEW fp \in Fingerprints,
           VerifyThenIssue(tok, new, op, fp)
    PROVE  StoreInv'
  <1>1. NoteVerify(tok, op, fp) /\ now' = now
        /\ records' = [[records EXCEPT ![tok] = NoRecord]
                          EXCEPT ![new] = Record(op, fp)]
        /\ issuedAs' = [issuedAs EXCEPT ![new] = Record(op, fp)]
    BY DEF VerifyThenIssue, Popped
  <1>2. Record(op, fp) \in ConfirmationRecord
    BY RecordType DEF StoreInv, StoreTypeOK
  <1>3. StoreTypeOK'
    BY <1>1, <1>2, NoteVerifyType DEF StoreInv, StoreTypeOK
  <1>4. new # tok
    BY MatchedRecord DEF VerifyThenIssue, StoreInv, TokenInv
  <1>5. ASSUME NEW t \in Tokens PROVE TokenInv(t)'
    <2>1. CASE t = tok
      BY <1>1, <1>4, <2>1, VerifiedToken DEF StoreInv, StoreTypeOK
    <2>2. CASE t = new
      <3>1. t \notin tried /\ uses[t] = 0
        BY <2>2 DEF StoreInv, TokenInv, VerifyThenIssue
      <3>2. t \notin tried' /\ uses'[t] = 0
        BY <1>1, <1>4, <2>2, <3>1 DEF NoteVerify, StoreInv, StoreTypeOK
      <3>3. records'[t] = issuedAs'[t]
        BY <1>1, <2>2 DEF StoreInv, StoreTypeOK
      <3> QED
        BY <3>2, <3>3 DEF TokenInv
    <2>3. CASE t # tok /\ t # new
      <3>1. records'[t] = records[t] /\ issuedAs'[t] = issuedAs[t]
        BY <1>1, <2>3 DEF StoreInv, StoreTypeOK
      <3> QED
        BY <1>1, <2>3, <3>1, OtherToken
    <2> QED
      BY <2>1, <2>2, <2>3
  <1> QED
    BY <1>3, <1>5 DEF StoreInv

(* Every step of the store preserves the invariant. *)
LEMMA StoreStepInv == StoreInv /\ [StoreNext]_storeVars => StoreInv'
  <1> SUFFICES ASSUME StoreInv, [StoreNext]_storeVars PROVE StoreInv'
    OBVIOUS
  <1>1. ASSUME NEW tok \in Tokens, NEW op \in Operations,
               NEW fp \in Fingerprints, Issue(tok, op, fp)
        PROVE  StoreInv'
    BY <1>1, IssueInv
  <1>2. ASSUME NEW tok \in Tokens, NEW op \in Operations,
               NEW fp \in Fingerprints, Verify(tok, op, fp)
        PROVE  StoreInv'
    BY <1>2, VerifyInv
  <1>3. ASSUME NEW tok \in Tokens, NEW op \in Operations,
               NEW fp \in Fingerprints, NEW new \in Tokens,
               VerifyThenIssue(tok, new, op, fp)
        PROVE  StoreInv'
    BY <1>3, VerifyThenIssueInv
  <1>4. CASE Tick
    BY <1>4 DEF Tick, StoreInv, StoreTypeOK, TokenInv
  <1>5. CASE UNCHANGED storeVars
    BY <1>5 DEF storeVars, StoreInv, StoreTypeOK, TokenInv
  <1> QED
    BY <1>1, <1>2, <1>3, <1>4, <1>5 DEF StoreNext

(* The invariant holds in every state of the store. *)
THEOREM StoreInvariance == StoreSpec => []StoreInv
  BY StoreInitInv, StoreStepInv, PTL DEF StoreSpec

(* confirmation.py:30-60: the store's variables keep their types.          *)
THEOREM StoreTypeCorrect == StoreSpec => []StoreTypeOK
  <1>1. StoreInv => StoreTypeOK
    BY DEF StoreInv
  <1> QED
    BY <1>1, StoreInvariance, PTL

(* confirmation.py:31: no token ever authorizes two calls.                 *)
THEOREM StoreSingleUse == StoreSpec => []SingleUse
  <1>1. StoreInv => SingleUse
    <2>1. ASSUME StoreInv, NEW t \in Tokens PROVE uses[t] =< 1
      <3>1. CASE t \in tried
        BY <2>1, <3>1 DEF StoreInv, TokenInv
      <3>2. CASE t \notin tried
        <4>1. uses[t] = 0
          BY <2>1, <3>2 DEF StoreInv, TokenInv
        <4> QED
          BY <4>1
      <3> QED
        BY <3>1, <3>2
    <2> QED
      BY <2>1 DEF SingleUse
  <1> QED
    BY <1>1, StoreInvariance, PTL

(* confirmation.py:52: a token that was presented once is gone for good.   *)
THEOREM StoreTriedIsGone == StoreSpec => []TriedIsGone
  <1>1. StoreInv => TriedIsGone
    BY DEF StoreInv, StoreTypeOK, TokenInv, TriedIsGone
  <1> QED
    BY <1>1, StoreInvariance, PTL

(* confirmation.py:55-60: a token is accepted only for what it was issued  *)
(* for and before it expires.                                              *)
THEOREM StoreUsedAsIssued == StoreSpec => []UsedAsIssued
  <1>1. StoreInv => UsedAsIssued
    BY DEF StoreInv, TokenInv, UsedAsIssued
  <1> QED
    BY <1>1, StoreInvariance, PTL

-----------------------------------------------------------------------------
(***************************************************************************)
(* The service around the store.                                           *)
(***************************************************************************)

(* A call that works on a session works on one that exists, for a request  *)
(* a client sent.                                                          *)
CallInv ==
    \A c \in Callers :
        /\ pc[c] \in {"running", "attaching"} => sid[c] \in SessionIds
        /\ pc[c] = "running" => req[c] \in Requests

SlotInv == TypeOK /\ CallInv /\ SlotAccounting /\ ExclusiveUse

ServiceInv == SlotInv /\ StoreInv

-----------------------------------------------------------------------------
(***************************************************************************)
(* The service refines the confirmation store.                             *)
(***************************************************************************)

(* Requests name operations and bodies the store knows.                    *)
LEMMA RequestParts ==
    ASSUME NEW r \in Requests
    PROVE  r.op \in Operations /\ fingerprint(r) \in Fingerprints
  BY InputsAssumption DEF Request

(* Consuming the token of a request is a verify of the store, or nothing.  *)
LEMMA ConsumeIsStoreStep ==
    ASSUME NEW r \in Requests, NEW t \in Tokens \cup {NoToken}, Consume(r, t)
    PROVE  [StoreNext]_storeVars
  <1>1. CASE t = NoToken
    BY <1>1 DEF Consume
  <1>2. CASE t # NoToken
    <2>1. t \in Tokens /\ Verify(t, r.op, fingerprint(r))
      BY <1>2 DEF Consume
    <2> QED
      BY <2>1, RequestParts DEF StoreNext
  <1> QED
    BY <1>1, <1>2

(* Asking for confirmation issues a token, after the verify of the one     *)
(* that came with the call.                                                *)
LEMMA AskIsStoreStep ==
    ASSUME NEW c \in Callers, NEW r \in Requests,
           NEW t \in Tokens \cup {NoToken}, AskConfirmation(c, r, t)
    PROVE  [StoreNext]_storeVars
  <1>1. PICK new \in Tokens :
           IF t = NoToken
           THEN Issue(new, r.op, fingerprint(r))
           ELSE VerifyThenIssue(t, new, r.op, fingerprint(r))
    BY DEF AskConfirmation
  <1>2. CASE t = NoToken
    BY <1>1, <1>2, RequestParts DEF StoreNext
  <1>3. CASE t # NoToken
    <2>1. t \in Tokens /\ VerifyThenIssue(t, new, r.op, fingerprint(r))
      BY <1>1, <1>3
    <2> QED
      BY <2>1, RequestParts DEF StoreNext
  <1> QED
    BY <1>2, <1>3

(* Every step of the service is a step of the store or leaves it alone.    *)
LEMMA StepIsStoreStep == [Next]_vars => [StoreNext]_storeVars
  <1> SUFFICES ASSUME [Next]_vars PROVE [StoreNext]_storeVars
    OBVIOUS
  <1>1. ASSUME NEW c \in Callers, NEW r \in Requests,
               NEW t \in Tokens \cup {NoToken}, Invoke(c, r, t)
        PROVE  [StoreNext]_storeVars
    <2>1. CASE RejectInvalid(c, r, t) \/ RejectEarly(c, r, t)
      BY <2>1 DEF RejectInvalid, RejectEarly
    <2>2. CASE AskConfirmation(c, r, t)
      BY <2>2, AskIsStoreStep
    <2>3. CASE \/ RejectToken(c, r, t) \/ DenyPermission(c, r, t)
               \/ RejectLookup(c, r, t) \/ RejectBusy(c, r, t)
               \/ Begin(c, r, t) \/ BeginConnect(c, r, t)
      <3>1. Consume(r, t)
        BY <2>3 DEF RejectToken, DenyPermission, RejectLookup, RejectBusy,
                    Begin, BeginConnect
      <3> QED
        BY <3>1, ConsumeIsStoreStep
    <2> QED
      BY <1>1, <2>1, <2>2, <2>3 DEF Invoke
  <1>2. ASSUME NEW c \in Callers, NEW r \in Requests, SnapshotQuery(c, r)
        PROVE  [StoreNext]_storeVars
    BY <1>2 DEF SnapshotQuery
  <1>3. ASSUME NEW c \in Callers,
               \/ StepOnce(c) \/ Finish(c) \/ CancelRun(c)
               \/ ConnectFails(c) \/ Attached(c) \/ CancelConnect(c)
        PROVE  [StoreNext]_storeVars
    BY <1>3 DEF StepOnce, Finish, CancelRun, ConnectFails, Attached,
                CancelConnect
  <1>4. ASSUME NEW c \in Callers, NEW s \in SessionIds, SpawnDone(c, s)
        PROVE  [StoreNext]_storeVars
    BY <1>4 DEF SpawnDone
  <1>5. ASSUME NEW s \in SessionIds, GdbDies(s)
        PROVE  [StoreNext]_storeVars
    BY <1>5 DEF GdbDies
  <1>6. CASE TimePasses
    BY <1>6 DEF TimePasses, StoreNext
  <1>7. CASE UNCHANGED vars
    BY <1>7 DEF vars
  <1> QED
    BY <1>1, <1>2, <1>3, <1>4, <1>5, <1>6, <1>7 DEF Next

(* service.py:806-870 touches the confirmation store only by issue and     *)
(* verify: the service implements the store's specification.               *)
THEOREM ServiceUsesStore == Spec => StoreSpec
  <1>1. Init => StoreInit
    BY DEF Init
  <1> QED
    BY <1>1, StepIsStoreStep, PTL DEF Spec, StoreSpec

(* So no token authorizes two tool calls, whatever the callers do.         *)
THEOREM ServiceSingleUse == Spec => []SingleUse
  BY ServiceUsesStore, StoreSingleUse, PTL

-----------------------------------------------------------------------------
(***************************************************************************)
(* Which calls are running, before and after a step.                       *)
(***************************************************************************)

(* The sets that are counted are finite. *)
LEMMA RunningFinite ==
    /\ IsFiniteSet(Running) /\ Cardinality(Running) \in Nat
    /\ \A s : IsFiniteSet(RunningOn(s)) /\ Cardinality(RunningOn(s)) \in Nat
  <1>1. Running \in SUBSET Callers /\ \A s : RunningOn(s) \in SUBSET Callers
    BY DEF Running, RunningOn
  <1>2. IsFiniteSet(Callers)
    BY LimitsAssumption
  <1>3. IsFiniteSet(Running) /\ \A s : IsFiniteSet(RunningOn(s))
    BY <1>1, <1>2, FS_Subset
  <1> QED
    BY <1>3, FS_CardinalityType

(* A call that begins joins the running ones, on its own session only. *)
LEMMA BeginSets ==
    ASSUME TypeOK, NEW c \in Callers, NEW s \in SessionIds, pc[c] = "idle",
           pc' = [pc EXCEPT ![c] = "running"], sid' = [sid EXCEPT ![c] = s]
    PROVE  /\ c \notin Running /\ Running' = Running \cup {c}
           /\ c \notin RunningOn(s) /\ RunningOn(s)' = RunningOn(s) \cup {c}
           /\ \A x \in SessionIds \ {s} : RunningOn(x)' = RunningOn(x)
  BY DEF TypeOK, Running, RunningOn

(* A call that ends leaves them. *)
LEMMA EndSets ==
    ASSUME TypeOK, NEW c \in Callers, NEW s \in SessionIds, sid[c] = s,
           pc[c] = "running", pc' = [pc EXCEPT ![c] = "idle"],
           sid' = [sid EXCEPT ![c] = NoSession]
    PROVE  /\ c \in Running /\ Running' = Running \ {c}
           /\ c \in RunningOn(s)
           /\ RunningOn(s)' = RunningOn(s) \ {c}
           /\ \A x \in SessionIds \ {s} : RunningOn(x)' = RunningOn(x)
  <1>1. c \in Running /\ c \in RunningOn(s) /\ Running' = Running \ {c}
    BY DEF TypeOK, Running, RunningOn
  <1>2. \A d \in Running \ {c} : sid'[d] = sid[d]
    BY DEF TypeOK, Running
  <1>3. ASSUME NEW x PROVE RunningOn(x)' = RunningOn(x) \ {c}
    <2>1. ASSUME NEW d PROVE d \in RunningOn(x)' <=> d \in RunningOn(x) \ {c}
      <3>1. d \in RunningOn(x)' <=> d \in Running' /\ sid'[d] = x
        BY DEF RunningOn
      <3>2. d \in RunningOn(x) <=> d \in Running /\ sid[d] = x
        BY DEF RunningOn
      <3> QED
        BY <1>1, <1>2, <3>1, <3>2
    <2> QED
      BY <2>1
  <1>4. \A x \in SessionIds \ {s} : c \notin RunningOn(x)
    BY DEF RunningOn
  <1> QED
    BY <1>1, <1>3, <1>4

(* A call that connects is not among them. *)
LEMMA ConnectSets ==
    ASSUME TypeOK, NEW c \in Callers, pc[c] # "running", NEW p, NEW x,
           p # "running", pc' = [pc EXCEPT ![c] = p],
           sid' = [sid EXCEPT ![c] = x]
    PROVE  /\ Running' = Running
           /\ \A s : RunningOn(s)' = RunningOn(s)
           /\ \A d \in Running : sid'[d] = sid[d]
  <1>1. Running' = Running /\ c \notin Running
    BY DEF TypeOK, Running
  <1>2. \A d \in Running : sid'[d] = sid[d]
    BY <1>1 DEF TypeOK, Running
  <1> QED
    BY <1>1, <1>2 DEF RunningOn

-----------------------------------------------------------------------------
(* Answers have their type. *)
LEMMA AnswerType ==
    ASSUME NEW op, NEW code, NEW b \in BOOLEAN,
           Answer(op, code, b) \/ AnswerUnaudited(op, code)
    PROVE  reply'.confirmed \in BOOLEAN /\ reply'.audited \in BOOLEAN
  <1>1. CASE AnswerUnaudited(op, code)
    BY <1>1 DEF AnswerUnaudited
  <1>2. CASE Answer(op, code, b)
    <2>1. PICK a \in AuditResults :
             /\ reply'.confirmed = b
             /\ reply'.audited = (a = "audited")
      BY <1>2 DEF Answer
    <2>2. (a = "audited") \in BOOLEAN
      OBVIOUS
    <2> QED
      BY <2>1, <2>2, Zenon
  <1> QED
    BY <1>1, <1>2

(* An operation leaves its session in one of the six states. *)
LEMMA MovedType ==
    ASSUME NEW s \in TargetState, NEW x \in TargetState
    PROVE  Moved(s, x).state \in TargetState
  BY DEF Moved, Returns, Raises

(* So does every outcome of every operation.                               *)
LEMMA OutcomeType ==
    ASSUME NEW op, NEW s \in TargetState, NEW alive \in BOOLEAN,
           NEW o \in OpOutcomes(op, s, alive)
    PROVE  o.state \in TargetState
  <1>1. /\ Moved(s, "halted").state \in TargetState
        /\ Moved(s, "running").state \in TargetState
        /\ Moved(s, "degraded").state \in TargetState
        /\ Moved(s, "unknown").state \in TargetState
    BY MovedType DEF TargetState
  <1>2. \A x \in TargetState : /\ Returns(x).state \in TargetState
                               /\ Raises(x).state \in TargetState
    BY DEF Returns, Raises
  <1>3. "disconnected" \in TargetState
    BY DEF TargetState
  <1>4. o \in {Moved(s, "halted"), Moved(s, "running"), Moved(s, "degraded"),
              Moved(s, "unknown"), Returns(s), Raises(s),
              Returns("disconnected"), Raises("disconnected")}
    BY DEF OpOutcomes, DeadOutcomes, HaltOutcomes, ResumeOutcomes,
           ResetOutcomes, DisconnectOutcomes, NeutralOutcomes
  <1> QED
    BY <1>1, <1>2, <1>3, <1>4

-----------------------------------------------------------------------------
(***************************************************************************)
(* The slots and the sessions, action by action.                           *)
(***************************************************************************)

(* Calls that are refused, snapshot queries and the passing of time touch  *)
(* nothing but the answer and the store.                                   *)
LEMMA QuietInv ==
    ASSUME SlotInv, StoreTypeOK',
           UNCHANGED <<config, sessionVars, callVars, slotVars, snapshots>>,
           reply'.confirmed \in BOOLEAN, reply'.audited \in BOOLEAN
    PROVE  SlotInv'
  <1> USE DEF SlotInv, sessionVars, callVars, slotVars
  <1>1. TypeOK'
    BY DEF TypeOK
  <1>2. CallInv'
    BY DEF CallInv
  <1>3. Running' = Running /\ \A s : RunningOn(s)' = RunningOn(s)
    BY DEF Running, RunningOn
  <1>4. SlotAccounting'
    BY <1>3 DEF SlotAccounting
  <1>5. ExclusiveUse'
    BY <1>3 DEF ExclusiveUse
  <1> QED
    BY <1>1, <1>2, <1>4, <1>5

(* _try_reserve_operation counts the call that begins, and lets nobody in  *)
(* where the only slot of a session is taken.                              *)
LEMMA BeginInv ==
    ASSUME SlotInv, StoreTypeOK', NEW c \in Callers, NEW r \in Requests,
           NEW t \in Tokens \cup {NoToken}, Begin(c, r, t)
    PROVE  SlotInv'
  <1> USE DEF SlotInv
  <1> DEFINE s == r.session
  <1>1. /\ pc[c] = "idle" /\ s \in sessions /\ s \in SessionIds
        /\ HasSlot(s) /\ Reserve(s)
        /\ pc' = [pc EXCEPT ![c] = "running"]
        /\ req' = [req EXCEPT ![c] = r]
        /\ sid' = [sid EXCEPT ![c] = s]
        /\ grant' = [grant EXCEPT ![c] = t]
        /\ UNCHANGED <<config, sessions, state, gdb, snapshots, reply>>
    BY DEF Begin, Allowed, Judged, Admitted, TypeOK, sessionVars
  <1> HIDE DEF s
  <1>2. TypeOK'
    BY <1>1 DEF TypeOK, Reserve
  <1>3. CallInv'
    BY <1>1 DEF CallInv, TypeOK
  <1>4. /\ c \notin Running /\ Running' = Running \cup {c}
        /\ c \notin RunningOn(s) /\ RunningOn(s)' = RunningOn(s) \cup {c}
        /\ \A x \in SessionIds \ {s} : RunningOn(x)' = RunningOn(x)
    <2>1. TypeOK
      OBVIOUS
    <2>2. s' = s
      BY DEF s
    <2> QED
      BY <1>1, <2>1, <2>2, BeginSets
  <1>5. SlotAccounting'
    <2>1. /\ Cardinality(Running') = Cardinality(Running) + 1
          /\ Cardinality(RunningOn(s)') = Cardinality(RunningOn(s)) + 1
      BY <1>4, RunningFinite, FS_AddElement, ZenonT(40)
    <2>2. /\ activeCalls' = activeCalls + 1
          /\ activeOps'[s] = activeOps[s] + 1
          /\ \A x \in SessionIds \ {s} : activeOps'[x] = activeOps[x]
      BY <1>1 DEF Reserve, TypeOK
    <2> QED
      BY <1>1, <1>4, <2>1, <2>2 DEF SlotAccounting
  <1>6. ExclusiveUse'
    <2> SUFFICES ASSUME MaxSessionOps = 1, NEW d \in Running'
                 PROVE  /\ sid'[d] \in sessions
                        /\ \A e \in Running' : sid'[e] = sid'[d] => e = d
      BY <1>1 DEF ExclusiveUse
    <2>1. Cardinality(RunningOn(s)) = 0
      BY <1>1, RunningFinite DEF HasSlot, SlotAccounting, TypeOK
    <2>2. \A e \in Running : sid[e] # s
      BY <2>1, RunningFinite, FS_EmptySet DEF RunningOn
    <2>3. sid'[c] = s /\ \A e \in Running : sid'[e] = sid[e]
      BY <1>1, <1>4 DEF TypeOK, Running
    <2> QED
      BY <1>1, <1>4, <2>2, <2>3 DEF ExclusiveUse
  <1> QED
    BY <1>2, <1>3, <1>5, <1>6

(* _release_operation, however the call ends; only the call itself may     *)
(* take its session away.                                                  *)
LEMMA EndSlots ==
    ASSUME SlotInv, NEW c \in Callers, pc[c] = "running",
           Release(sid[c]), Return(c),
           sessions' = sessions \/ sessions' = sessions \ {sid[c]}
    PROVE  SlotAccounting' /\ ExclusiveUse'
  <1> USE DEF SlotInv
  <1>1. PICK s \in SessionIds : s = sid[c]
    BY DEF CallInv
  <1>2. /\ pc' = [pc EXCEPT ![c] = "idle"]
        /\ sid' = [sid EXCEPT ![c] = NoSession]
    BY DEF Return
  <1>3. /\ c \in Running /\ Running' = Running \ {c}
        /\ c \in RunningOn(s) /\ RunningOn(s)' = RunningOn(s) \ {c}
        /\ \A x \in SessionIds \ {s} : RunningOn(x)' = RunningOn(x)
    BY <1>1, <1>2, EndSets
  <1>4. SlotAccounting'
    <2>1. /\ Cardinality(Running') = Cardinality(Running) - 1
          /\ Cardinality(RunningOn(s)') = Cardinality(RunningOn(s)) - 1
          /\ Cardinality(Running') \in Nat
          /\ Cardinality(RunningOn(s)') \in Nat
      <3>1. /\ Cardinality(Running') = Cardinality(Running) - 1
            /\ Cardinality(RunningOn(s)') = Cardinality(RunningOn(s)) - 1
        BY <1>3, RunningFinite, FS_RemoveElement
      <3>2. IsFiniteSet(Running') /\ IsFiniteSet(RunningOn(s)')
        BY <1>3, RunningFinite, FS_RemoveElement
      <3> QED
        BY <3>1, <3>2, FS_CardinalityType
    <2>2. /\ activeCalls = Cardinality(Running)
          /\ activeOps[s] = Cardinality(RunningOn(s))
      BY DEF SlotAccounting
    <2>3. activeCalls' = Cardinality(Running')
      BY <1>1, <2>1, <2>2, RunningFinite DEF Release, TypeOK
    <2>4. activeOps'[s] = Cardinality(RunningOn(s)')
      BY <1>1, <2>1, <2>2, RunningFinite DEF Release, TypeOK
    <2>5. \A x \in SessionIds \ {s} : activeOps'[x] = activeOps[x]
      BY <1>1 DEF Release, TypeOK
    <2> QED
      BY <1>3, <2>3, <2>4, <2>5 DEF SlotAccounting
  <1>5. ExclusiveUse'
    <2>1. \A d \in Running' : d \in Running /\ d # c /\ sid'[d] = sid[d]
      BY <1>2, <1>3 DEF TypeOK, Running
    <2> QED
      BY <1>1, <1>3, <2>1 DEF ExclusiveUse
  <1> QED
    BY <1>4, <1>5

(* What the end of a call does to its own variables. *)
LEMMA ReturnType ==
    ASSUME TypeOK, CallInv, NEW c \in Callers, Return(c)
    PROVE  /\ pc' \in [Callers -> {"idle", "spawning", "attaching", "running"}]
           /\ req' \in [Callers -> Requests \cup {NoRequest}]
           /\ sid' \in [Callers -> SessionIds \cup {NoSession}]
           /\ grant' \in [Callers -> Tokens \cup {NoToken}]
           /\ CallInv'
  <1>1. pc'[c] = "idle"
    BY DEF Return, TypeOK
  <1>2. \A d \in Callers \ {c} :
           pc'[d] = pc[d] /\ sid'[d] = sid[d] /\ req'[d] = req[d]
    BY DEF Return, TypeOK
  <1>3. CallInv'
    BY <1>1, <1>2 DEF CallInv
  <1> QED
    BY <1>3 DEF Return, TypeOK

(* The awaited session call returns or raises. *)
LEMMA FinishInv ==
    ASSUME SlotInv, StoreTypeOK', NEW c \in Callers, Finish(c)
    PROVE  SlotInv'
  <1> USE DEF SlotInv
  <1>1. PICK s \in SessionIds : s = sid[c]
    BY DEF CallInv, Finish
  <1>2. PICK o \in OpOutcomes(req[c].op, state[s], gdb[s] = "alive"),
             ok \in BOOLEAN :
          /\ state' = [state EXCEPT ![s] = o.state]
          /\ RemoveSession(c, ok)
          /\ gdb' = IF req[c].op = "disconnect_target"
                    THEN [gdb EXCEPT ![s] = "closed"] ELSE gdb
          /\ snapshots' = IF req[c].op = "debug_snapshot" /\ ok
                          THEN snapshots \cup {s} ELSE snapshots
          /\ Release(s)
          /\ Answer(req[c].op, IF ok THEN "ok" ELSE "TOOL_EXECUTION_FAILED",
                    grant[c] # NoToken)
    BY <1>1, Zenon DEF Finish
  <1>3. pc[c] = "running" /\ Return(c) /\ config' = config
    BY DEF Finish
  <1>4. sessions' = sessions \/ sessions' = sessions \ {sid[c]}
    BY <1>2 DEF RemoveSession
  <1>5. SlotAccounting' /\ ExclusiveUse'
    BY <1>1, <1>2, <1>3, <1>4, EndSlots
  <1>6. reply'.confirmed \in BOOLEAN /\ reply'.audited \in BOOLEAN
    BY <1>2, AnswerType
  <1>7. state' \in [SessionIds -> TargetState]
    <2>1. o.state \in TargetState
      BY <1>2, OutcomeType DEF TypeOK
    <2> QED
      BY <1>2, <2>1 DEF TypeOK
  <1>8. /\ activeCalls' \in Nat /\ activeOps' \in [SessionIds -> Nat]
    BY <1>2 DEF Release, TypeOK
  <1>9. TypeOK' /\ CallInv'
    BY <1>2, <1>3, <1>4, <1>6, <1>7, <1>8, ReturnType DEF TypeOK
  <1> QED
    BY <1>5, <1>9

(* The finally clauses of a cancelled call. *)
LEMMA CancelRunInv ==
    ASSUME SlotInv, StoreTypeOK', NEW c \in Callers, CancelRun(c)
    PROVE  SlotInv'
  <1> USE DEF SlotInv
  <1>1. PICK s \in SessionIds : s = sid[c]
    BY DEF CallInv, CancelRun
  <1>2. SlotAccounting' /\ ExclusiveUse'
    BY EndSlots DEF CancelRun
  <1>3. reply'.confirmed \in BOOLEAN /\ reply'.audited \in BOOLEAN
    BY AnswerType DEF CancelRun
  <1>4. state' \in [SessionIds -> TargetState]
    BY <1>1 DEF CancelRun, CancelStates, TypeOK, TargetState
  <1>5. gdb' \in [SessionIds -> {"none", "alive", "closed"}]
    BY <1>1 DEF CancelRun, TypeOK
  <1>6. /\ activeCalls' \in Nat /\ activeOps' \in [SessionIds -> Nat]
    BY <1>1 DEF CancelRun, Release, TypeOK
  <1>7. TypeOK' /\ CallInv'
    BY <1>3, <1>4, <1>5, <1>6, ReturnType DEF CancelRun, TypeOK
  <1> QED
    BY <1>2, <1>7

(* Connecting takes no slot and removes no session. *)
LEMMA ConnectSlots ==
    ASSUME SlotInv, NEW c \in Callers, pc[c] # "running",
           NEW p, p # "running", pc' = [pc EXCEPT ![c] = p],
           NEW x, sid' = [sid EXCEPT ![c] = x],
           UNCHANGED slotVars, sessions \subseteq sessions'
    PROVE  SlotAccounting' /\ ExclusiveUse'
  <1>1. /\ Running' = Running
        /\ \A s : RunningOn(s)' = RunningOn(s)
        /\ \A d \in Running : sid'[d] = sid[d]
    BY ConnectSets DEF SlotInv
  <1>2. SlotAccounting'
    BY <1>1 DEF SlotInv, SlotAccounting, slotVars
  <1>3. ExclusiveUse'
    BY <1>1 DEF SlotInv, ExclusiveUse
  <1> QED
    BY <1>2, <1>3

(* connect_target suspends for the first time without taking a slot.       *)
LEMMA BeginConnectInv ==
    ASSUME SlotInv, StoreTypeOK', NEW c \in Callers, NEW r \in Requests,
           NEW t \in Tokens \cup {NoToken}, BeginConnect(c, r, t)
    PROVE  SlotInv'
  <1> USE DEF SlotInv
  <1>1. /\ pc[c] = "idle" /\ pc' = [pc EXCEPT ![c] = "spawning"]
        /\ req' = [req EXCEPT ![c] = r] /\ grant' = [grant EXCEPT ![c] = t]
        /\ UNCHANGED <<config, sessions, state, gdb, sid, slotVars, snapshots,
                       reply>>
    BY DEF BeginConnect, Allowed, Judged, Admitted, sessionVars
  <1>2. sid' = [sid EXCEPT ![c] = sid[c]]
    BY <1>1 DEF TypeOK
  <1>3. SlotAccounting' /\ ExclusiveUse'
    BY <1>1, <1>2, ConnectSlots
  <1>4. TypeOK'
    BY <1>1 DEF TypeOK, slotVars
  <1>5. CallInv'
    BY <1>1 DEF CallInv, TypeOK
  <1> QED
    BY <1>3, <1>4, <1>5

(* GDB is up, and the connect fails at once or goes on to attach.          *)
LEMMA SpawnDoneInv ==
    ASSUME SlotInv, StoreTypeOK', NEW c \in Callers, NEW s \in SessionIds,
           SpawnDone(c, s)
    PROVE  SlotInv'
  <1> USE DEF SlotInv
  <1>1. /\ pc[c] = "spawning" /\ gdb' = [gdb EXCEPT ![s] = "alive"]
        /\ UNCHANGED <<config, sessions, slotVars, snapshots>>
    BY DEF SpawnDone
  <1>2. CASE req[c].body = "malformed"
    <2>1. /\ Return(c) /\ UNCHANGED state
          /\ Answer("connect_target", "TOOL_EXECUTION_FAILED",
                    grant[c] # NoToken)
      BY <1>2 DEF SpawnDone
    <2>2. reply'.confirmed \in BOOLEAN /\ reply'.audited \in BOOLEAN
      BY <2>1, AnswerType
    <2>3. TypeOK' /\ CallInv'
      BY <1>1, <2>1, <2>2, ReturnType DEF TypeOK, slotVars
    <2>4. SlotAccounting' /\ ExclusiveUse'
      BY <1>1, <2>1, ConnectSlots DEF Return
    <2> QED
      BY <2>3, <2>4
  <1>3. CASE req[c].body # "malformed"
    <2>1. /\ pc' = [pc EXCEPT ![c] = "attaching"]
          /\ sid' = [sid EXCEPT ![c] = s]
          /\ state' = [state EXCEPT ![s] = "connecting"]
          /\ UNCHANGED <<req, grant, reply>>
      BY <1>3 DEF SpawnDone
    <2>2. TypeOK'
      BY <1>1, <2>1 DEF TypeOK, TargetState, slotVars
    <2>3. CallInv'
      BY <1>1, <2>1 DEF CallInv, TypeOK
    <2>4. SlotAccounting' /\ ExclusiveUse'
      BY <1>1, <2>1, ConnectSlots
    <2> QED
      BY <2>2, <2>3, <2>4
  <1> QED
    BY <1>2, <1>3

(* A connect that succeeds, fails or is cancelled gives no slot back.      *)
LEMMA EndConnectInv ==
    ASSUME SlotInv, StoreTypeOK', NEW c \in Callers,
           ConnectFails(c) \/ Attached(c) \/ CancelConnect(c)
    PROVE  SlotInv'
  <1> USE DEF SlotInv
  <1>1. /\ pc[c] \in {"spawning", "attaching"} /\ Return(c)
        /\ UNCHANGED <<config, slotVars, snapshots>>
    BY DEF ConnectFails, Attached, CancelConnect
  <1>2. (grant[c] # NoToken) \in BOOLEAN
    OBVIOUS
  <1>3. reply'.confirmed \in BOOLEAN /\ reply'.audited \in BOOLEAN
    <2>1. CASE reply' = [op |-> "connect_target", code |-> "ok",
                         confirmed |-> grant[c] # NoToken,
                         audited |-> config.audit # "off"]
      BY <2>1
    <2>2. CASE \/ Answer("connect_target", "TOOL_EXECUTION_FAILED",
                         grant[c] # NoToken)
               \/ AnswerUnaudited("connect_target", "cancelled")
      BY <1>2, <2>2, AnswerType
    <2> QED
      BY <2>1, <2>2 DEF ConnectFails, Attached, CancelConnect
  <1>4. sessions \subseteq sessions' /\ sessions' \subseteq SessionIds
    BY DEF ConnectFails, Attached, CancelConnect, CallInv, TypeOK, sessionVars
  <1>5. /\ state' \in [SessionIds -> TargetState]
        /\ gdb' \in [SessionIds -> {"none", "alive", "closed"}]
    BY DEF ConnectFails, Attached, CancelConnect, CallInv, TypeOK, sessionVars,
           TargetState
  <1>6. TypeOK' /\ CallInv'
    BY <1>1, <1>3, <1>4, <1>5, ReturnType DEF TypeOK, slotVars
  <1>7. SlotAccounting' /\ ExclusiveUse'
    BY <1>1, <1>4, ConnectSlots DEF Return
  <1> QED
    BY <1>6, <1>7

(* Instructions stepped on the way, and the death of GDB. *)
LEMMA SessionStepInv ==
    ASSUME SlotInv, StoreTypeOK',
           \/ \E c \in Callers : StepOnce(c)
           \/ \E s \in SessionIds : GdbDies(s)
    PROVE  SlotInv'
  <1> USE DEF SlotInv
  <1>1. UNCHANGED <<config, sessions, callVars, slotVars, snapshots, reply>>
    BY DEF StepOnce, GdbDies
  <1>2. /\ state' \in [SessionIds -> TargetState]
        /\ gdb' \in [SessionIds -> {"none", "alive", "closed"}]
    BY DEF StepOnce, GdbDies, TypeOK, CallInv, TargetState
  <1>3. TypeOK' /\ CallInv'
    BY <1>1, <1>2 DEF TypeOK, CallInv, callVars, slotVars
  <1>4. Running' = Running /\ \A s : RunningOn(s)' = RunningOn(s)
    BY <1>1 DEF Running, RunningOn, callVars
  <1>5. SlotAccounting' /\ ExclusiveUse'
    BY <1>1, <1>4 DEF SlotAccounting, ExclusiveUse, callVars, slotVars
  <1> QED
    BY <1>3, <1>5

(* Calls that are answered without an await. *)
LEMMA RefusedInv ==
    ASSUME SlotInv, StoreTypeOK', NEW c \in Callers, NEW r \in Requests,
           NEW t \in Tokens \cup {NoToken},
           \/ RejectInvalid(c, r, t) \/ RejectEarly(c, r, t)
           \/ RejectToken(c, r, t) \/ DenyPermission(c, r, t)
           \/ AskConfirmation(c, r, t) \/ RejectLookup(c, r, t)
           \/ RejectBusy(c, r, t) \/ SnapshotQuery(c, r)
    PROVE  SlotInv'
  <1>1. UNCHANGED <<config, sessionVars, callVars, slotVars, snapshots>>
    BY DEF RejectInvalid, RejectEarly, RejectToken, DenyPermission,
           AskConfirmation, RejectLookup, RejectBusy, SnapshotQuery, Refused
  <1>2. (t # NoToken) \in BOOLEAN
    OBVIOUS
  <1>3. reply'.confirmed \in BOOLEAN /\ reply'.audited \in BOOLEAN
    <2>1. CASE RejectInvalid(c, r, t)
      BY <2>1, AnswerType DEF RejectInvalid
    <2>2. CASE RejectEarly(c, r, t)
      BY <2>2, AnswerType DEF RejectEarly
    <2>3. CASE RejectToken(c, r, t)
      BY <2>3, AnswerType DEF RejectToken
    <2>4. CASE \/ DenyPermission(c, r, t) \/ AskConfirmation(c, r, t)
               \/ RejectLookup(c, r, t) \/ RejectBusy(c, r, t)
      BY <1>2, <2>4, AnswerType
         DEF DenyPermission, AskConfirmation, RejectLookup, RejectBusy
    <2>5. CASE SnapshotQuery(c, r)
      BY <2>5, AnswerType DEF SnapshotQuery
    <2> QED
      BY <2>1, <2>2, <2>3, <2>4, <2>5
  <1> QED
    BY <1>1, <1>3, QuietInv

(* A service that has just started satisfies the invariant.                *)
LEMMA ServiceInitInv == Init => ServiceInv
  <1> SUFFICES ASSUME Init PROVE ServiceInv
    OBVIOUS
  <1>1. StoreInv
    BY StoreInitInv DEF Init
  <1>2. TypeOK
    BY <1>1 DEF Init, TypeOK, TargetState, StoreInv
  <1>3. CallInv
    BY DEF Init, CallInv
  <1>4. Running = {} /\ \A s : RunningOn(s) = {}
    BY DEF Init, Running, RunningOn
  <1>5. SlotAccounting
    BY <1>4, FS_EmptySet DEF Init, SlotAccounting
  <1>6. ExclusiveUse
    BY <1>4 DEF ExclusiveUse
  <1> QED
    BY <1>1, <1>2, <1>3, <1>5, <1>6 DEF ServiceInv, SlotInv

(* Every step of the service keeps it.                                     *)
LEMMA ServiceStepInv == ServiceInv /\ [Next]_vars => ServiceInv'
  <1> SUFFICES ASSUME ServiceInv, [Next]_vars PROVE ServiceInv'
    OBVIOUS
  <1>1. StoreInv'
    BY StepIsStoreStep, StoreStepInv DEF ServiceInv
  <1>2. SlotInv /\ StoreTypeOK'
    BY <1>1 DEF ServiceInv, StoreInv
  <1>3. ASSUME NEW c \in Callers, NEW r \in Requests,
               \/ \E t \in Tokens \cup {NoToken} : Invoke(c, r, t)
               \/ SnapshotQuery(c, r)
        PROVE  SlotInv'
    <2>1. ASSUME NEW t \in Tokens \cup {NoToken}, Invoke(c, r, t)
          PROVE  SlotInv'
      BY <1>2, <2>1, RefusedInv, BeginInv, BeginConnectInv DEF Invoke
    <2>2. CASE SnapshotQuery(c, r)
      BY <1>2, <2>2, RefusedInv
    <2> QED
      BY <1>3, <2>1, <2>2
  <1>4. ASSUME NEW c \in Callers,
               \/ StepOnce(c) \/ Finish(c) \/ CancelRun(c)
               \/ \E s \in SessionIds : SpawnDone(c, s)
               \/ ConnectFails(c) \/ Attached(c) \/ CancelConnect(c)
        PROVE  SlotInv'
    BY <1>2, <1>4, SessionStepInv, FinishInv, CancelRunInv, SpawnDoneInv,
       EndConnectInv
  <1>5. ASSUME NEW s \in SessionIds, GdbDies(s) PROVE SlotInv'
    BY <1>2, <1>5, SessionStepInv
  <1>6. ASSUME TimePasses \/ UNCHANGED vars PROVE SlotInv'
    <2>1. /\ UNCHANGED <<config, sessionVars, callVars, slotVars, snapshots>>
          /\ reply' = reply
      BY <1>6 DEF TimePasses, vars, sessionVars, callVars, slotVars
    <2>2. reply'.confirmed \in BOOLEAN /\ reply'.audited \in BOOLEAN
      BY <1>2, <2>1 DEF SlotInv, TypeOK
    <2> QED
      BY <1>2, <2>1, <2>2, QuietInv
  <1>7. SlotInv'
    <2>1. CASE Next
      BY <1>3, <1>4, <1>5, <1>6, <2>1 DEF Next
    <2> QED
      BY <1>6, <2>1
  <1> QED
    BY <1>1, <1>7 DEF ServiceInv

(* service.py:706-804: the slots, the sessions of the running calls and the *)
(* confirmation store are always as the invariant says.                    *)
THEOREM ServiceInvariance == Spec => []ServiceInv
  BY ServiceInitInv, ServiceStepInv, PTL DEF Spec

(* service.py:80-108: the service's variables keep their types.            *)
THEOREM ServiceTypeCorrect == Spec => []TypeOK
  <1>1. ServiceInv => TypeOK
    BY DEF ServiceInv, SlotInv
  <1> QED
    BY <1>1, ServiceInvariance, PTL

(* service.py:779-804: the counters the limits are checked against count   *)
(* the running calls, for any number of callers and any limits.            *)
THEOREM SlotSafety == Spec => []SlotAccounting
  <1>1. ServiceInv => SlotAccounting
    BY DEF ServiceInv, SlotInv
  <1> QED
    BY <1>1, ServiceInvariance, PTL

(* service.py:786-790: with one operation per session a running call has   *)
(* its session to itself, and the session stays registered.                *)
THEOREM SessionExclusion == Spec => []ExclusiveUse
  <1>1. ServiceInv => ExclusiveUse
    BY DEF ServiceInv, SlotInv
  <1> QED
    BY <1>1, ServiceInvariance, PTL

-----------------------------------------------------------------------------
(***************************************************************************)
(* Sessions that are down stay down.                                       *)
(***************************************************************************)

(* A registered session has a GDB process and is past connecting.          *)
Established(s) == state[s] # "connecting" /\ gdb[s] # "none"

(* A running call works on a registered session or on one that has been    *)
(* disconnected under it.                                                  *)
RunsInPlace(c) ==
    /\ Established(sid[c])
    /\ sid[c] \notin sessions => state[sid[c]] = "disconnected"

(* A call that attaches has a session nobody else knows. *)
AttachesAlone(c) ==
    /\ sid[c] \notin sessions
    /\ state[sid[c]] = "connecting" /\ gdb[sid[c]] # "none"
    /\ \A d \in Callers : pc[d] = "attaching" /\ sid[d] = sid[c] => d = c

DownInv ==
    /\ UnregisteredIsDown
    /\ \A s \in SessionIds : gdb[s] = "none" => state[s] = "disconnected"
    /\ \A s \in sessions : Established(s)
    /\ \A c \in Callers : pc[c] = "running" => RunsInPlace(c)
    /\ \A c \in Callers : pc[c] = "attaching" => AttachesAlone(c)

(* state.py:25-68: "disconnected" is left for "connecting" only, and no    *)
(* operation moves a session to "connecting".                              *)
LEMMA NoWayBack ==
    ASSUME NEW to \in {"halted", "running", "unknown", "degraded"}
    PROVE  ~can_transition("disconnected", to)
  BY DEF can_transition, LEGAL_TRANSITIONS, TargetState

(* No outcome moves a disconnected session or makes one "connecting";      *)
(* a disconnect always leaves the session disconnected.                    *)
LEMMA OutcomeStates ==
    ASSUME NEW op, NEW s \in TargetState, NEW alive \in BOOLEAN,
           NEW o \in OpOutcomes(op, s, alive)
    PROVE  /\ s = "disconnected" => o.state = "disconnected"
           /\ s # "connecting" => o.state # "connecting"
           /\ op = "disconnect_target" => o.state = "disconnected"
  <1>1. ASSUME NEW to \in {"halted", "running", "unknown", "degraded"}
        PROVE  /\ s = "disconnected" => Moved(s, to).state = "disconnected"
               /\ s # "connecting" => Moved(s, to).state # "connecting"
    BY NoWayBack DEF Moved, Returns, Raises
  <1>2. \A x : Returns(x).state = x /\ Raises(x).state = x
    BY DEF Returns, Raises
  <1>3. CASE op = "disconnect_target"
    BY <1>2, <1>3 DEF OpOutcomes, DeadOutcomes, DisconnectOutcomes
  <1>4. CASE op # "disconnect_target"
    <2>1. o \in {Moved(s, "halted"), Moved(s, "running"),
                Moved(s, "degraded"), Moved(s, "unknown"), Returns(s), Raises(s)}
      BY <1>4 DEF OpOutcomes, DeadOutcomes, HaltOutcomes, ResumeOutcomes,
                  ResetOutcomes, NeutralOutcomes
    <2> QED
      BY <1>1, <1>2, <1>4, <2>1
  <1> QED
    BY <1>3, <1>4

(* What DisconnectedIsFinal says of one step. *)
StaysDown ==
    \A s \in SessionIds :
        gdb[s] = "closed" /\ state[s] = "disconnected" =>
            state'[s] = "disconnected"

(* Calls that go on, if they go on, as they were. *)
OnlyLeave ==
    \A c \in Callers :
        pc'[c] \in {pc[c], "idle"} /\ (pc'[c] # "idle" => sid'[c] = sid[c])

(* A call that returns leaves its session, and no other call moves.        *)
LEMMA ReturnOnlyLeaves ==
    ASSUME TypeOK, NEW c \in Callers, Return(c)
    PROVE  OnlyLeave /\ pc'[c] = "idle"
  BY DEF TypeOK, Return, OnlyLeave

(* A step of a call on an established session: it never moves the session  *)
(* to "connecting" nor away from "disconnected", and removes it only when  *)
(* it leaves it disconnected.                                              *)
LEMMA SessionDown ==
    ASSUME TypeOK, CallInv, DownInv, OnlyLeave, NEW s \in SessionIds,
           Established(s), s \notin sessions => state[s] = "disconnected",
           NEW x, x # "connecting", state' = [state EXCEPT ![s] = x],
           state[s] = "disconnected" => x = "disconnected",
           gdb' = gdb \/ gdb' = [gdb EXCEPT ![s] = "closed"],
           \/ sessions' = sessions
           \/ sessions' = sessions \ {s} /\ x = "disconnected"
    PROVE  DownInv' /\ StaysDown
  <1>1. /\ state'[s] = x /\ gdb'[s] # "none"
        /\ \A y \in SessionIds \ {s} : state'[y] = state[y] /\ gdb'[y] = gdb[y]
    BY DEF TypeOK, Established
  <1>2. StaysDown
    BY <1>1 DEF StaysDown
  <1>3. UnregisteredIsDown'
    BY <1>1 DEF DownInv, UnregisteredIsDown
  <1>4. \A y \in SessionIds : gdb'[y] = "none" => state'[y] = "disconnected"
    BY <1>1 DEF DownInv
  <1>5. \A y \in SessionIds : Established(y) => Established(y)'
    BY <1>1 DEF Established
  <1>6. \A y \in sessions' : Established(y)'
    BY <1>5 DEF DownInv, TypeOK
  <1>7. ASSUME NEW c \in Callers, pc'[c] = "running" PROVE RunsInPlace(c)'
    <2>1. /\ pc[c] = "running" /\ sid'[c] = sid[c] /\ sid[c] \in SessionIds
      BY <1>7 DEF OnlyLeave, CallInv
    <2>2. RunsInPlace(c)
      BY <2>1 DEF DownInv
    <2>3. Established(sid[c])'
      BY <2>1, <2>2, <1>1 DEF RunsInPlace, Established
    <2>4. sid'[c] \notin sessions' => state'[sid'[c]] = "disconnected"
      BY <2>1, <2>2, <1>1 DEF RunsInPlace
    <2> QED
      BY <2>3, <2>4 DEF RunsInPlace
  <1>8. ASSUME NEW c \in Callers, pc'[c] = "attaching" PROVE AttachesAlone(c)'
    <2>1. /\ pc[c] = "attaching" /\ sid'[c] = sid[c] /\ sid[c] \in SessionIds
      BY <1>8 DEF OnlyLeave, CallInv
    <2>2. AttachesAlone(c)
      BY <2>1 DEF DownInv
    <2>3. sid[c] # s
      BY <2>2 DEF AttachesAlone, Established
    <2>4. \A d \in Callers : pc'[d] = "attaching" =>
                                pc[d] = "attaching" /\ sid'[d] = sid[d]
      BY DEF OnlyLeave
    <2> QED
      BY <2>1, <2>2, <2>3, <2>4, <1>1 DEF AttachesAlone
  <1> QED
    BY <1>2, <1>3, <1>4, <1>6, <1>7, <1>8 DEF DownInv

(* A step that leaves the states and the table alone. *)
LEMMA StillDown ==
    ASSUME TypeOK, CallInv, DownInv, OnlyLeave, UNCHANGED <<state, sessions>>,
           \A s \in SessionIds : gdb'[s] = "none" <=> gdb[s] = "none"
    PROVE  DownInv' /\ StaysDown
  <1>1. StaysDown
    BY DEF StaysDown
  <1>2. UnregisteredIsDown'
    BY DEF DownInv, UnregisteredIsDown
  <1>3. \A y \in SessionIds : gdb'[y] = "none" => state'[y] = "disconnected"
    BY DEF DownInv
  <1>4. \A y \in sessions' : Established(y)'
    BY DEF DownInv, TypeOK, Established
  <1>5. ASSUME NEW c \in Callers, pc'[c] = "running" PROVE RunsInPlace(c)'
    <2>1. /\ pc[c] = "running" /\ sid'[c] = sid[c] /\ sid[c] \in SessionIds
      BY <1>5 DEF OnlyLeave, CallInv
    <2> QED
      BY <2>1 DEF DownInv, RunsInPlace, Established
  <1>6. ASSUME NEW c \in Callers, pc'[c] = "attaching" PROVE AttachesAlone(c)'
    <2>1. /\ pc[c] = "attaching" /\ sid'[c] = sid[c] /\ sid[c] \in SessionIds
      BY <1>6 DEF OnlyLeave, CallInv
    <2>2. \A d \in Callers : pc'[d] = "attaching" =>
                                pc[d] = "attaching" /\ sid'[d] = sid[d]
      BY DEF OnlyLeave
    <2> QED
      BY <2>1, <2>2 DEF DownInv, AttachesAlone
  <1> QED
    BY <1>1, <1>2, <1>3, <1>4, <1>5, <1>6 DEF DownInv

(* The calls that run on a session: finish, cancel, one instruction.       *)
LEMMA RunDown ==
    ASSUME TypeOK, CallInv, DownInv, NEW c \in Callers,
           Finish(c) \/ CancelRun(c) \/ StepOnce(c)
    PROVE  DownInv' /\ StaysDown
  <1>1. PICK s \in SessionIds : s = sid[c]
    BY DEF CallInv, Finish, CancelRun, StepOnce
  <1>2. pc[c] = "running"
    BY DEF Finish, CancelRun, StepOnce
  <1>3. /\ Established(s) /\ state[s] # "connecting"
        /\ s \notin sessions => state[s] = "disconnected"
    BY <1>1, <1>2 DEF DownInv, RunsInPlace, Established
  <1>4. state[s] \in TargetState
    BY DEF TypeOK
  <1>5. CASE Finish(c)
    <2>1. PICK o \in OpOutcomes(req[c].op, state[s], gdb[s] = "alive"),
               ok \in BOOLEAN :
            /\ state' = [state EXCEPT ![s] = o.state]
            /\ RemoveSession(c, ok)
            /\ gdb' = IF req[c].op = "disconnect_target"
                      THEN [gdb EXCEPT ![s] = "closed"] ELSE gdb
      BY <1>1, <1>5, Zenon DEF Finish
    <2>2. /\ state[s] = "disconnected" => o.state = "disconnected"
          /\ o.state # "connecting"
          /\ req[c].op = "disconnect_target" => o.state = "disconnected"
      <3>1. (gdb[s] = "alive") \in BOOLEAN
        OBVIOUS
      <3>2. /\ state[s] = "disconnected" => o.state = "disconnected"
            /\ state[s] # "connecting" => o.state # "connecting"
            /\ req[c].op = "disconnect_target" => o.state = "disconnected"
        BY <1>4, <3>1, OutcomeStates, Zenon
      <3> QED
        BY <1>3, <3>2
    <2>3. \/ sessions' = sessions
          \/ sessions' = sessions \ {s} /\ o.state = "disconnected"
      BY <1>1, <2>1, <2>2 DEF RemoveSession
    <2>4. OnlyLeave
      BY <1>5, ReturnOnlyLeaves DEF Finish
    <2> QED
      BY <1>3, <2>1, <2>2, <2>3, <2>4, SessionDown
  <1>6. CASE CancelRun(c)
    <2>1. PICK x \in {state[s], "disconnected"} :
            state' = [state EXCEPT ![s] = x]
      BY <1>1, <1>6 DEF CancelRun, CancelStates
    <2>2. /\ sessions' = sessions
          /\ gdb' = gdb \/ gdb' = [gdb EXCEPT ![s] = "closed"]
      BY <1>1, <1>6 DEF CancelRun
    <2>3. OnlyLeave
      BY <1>6, ReturnOnlyLeaves DEF CancelRun
    <2> QED
      BY <1>3, <2>1, <2>2, <2>3, SessionDown
  <1>7. CASE StepOnce(c)
    <2>1. /\ state' = [state EXCEPT ![s] = "halted"]
          /\ can_transition(state[s], "halted")
          /\ UNCHANGED <<sessions, gdb, pc, sid>>
      BY <1>1, <1>7 DEF StepOnce, callVars
    <2>2. state[s] # "disconnected"
      BY <2>1, NoWayBack
    <2>3. OnlyLeave
      BY <2>1 DEF OnlyLeave
    <2> QED
      BY <1>3, <2>1, <2>2, <2>3, SessionDown
  <1> QED
    BY <1>5, <1>6, <1>7

(* A call that begins finds its session registered. *)
LEMMA BeginDown ==
    ASSUME TypeOK, CallInv, DownInv, NEW c \in Callers, NEW r, NEW t,
           Begin(c, r, t) \/ BeginConnect(c, r, t)
    PROVE  DownInv' /\ StaysDown
  <1>1. /\ pc[c] = "idle" /\ UNCHANGED <<sessions, state, gdb>>
        /\ \/ /\ pc' = [pc EXCEPT ![c] = "running"]
              /\ sid' = [sid EXCEPT ![c] = r.session]
              /\ r.session \in sessions
           \/ pc' = [pc EXCEPT ![c] = "spawning"] /\ sid' = sid
    BY DEF Begin, BeginConnect, Allowed, Judged, Admitted, sessionVars
  <1>2. \A d \in Callers \ {c} : pc'[d] = pc[d] /\ sid'[d] = sid[d]
    BY <1>1 DEF TypeOK
  <1>3. /\ pc'[c] \in {"running", "spawning"}
        /\ pc'[c] = "running" => sid'[c] \in sessions
    BY <1>1 DEF TypeOK
  <1>4. StaysDown /\ UnregisteredIsDown'
    BY <1>1 DEF StaysDown, DownInv, UnregisteredIsDown
  <1>5. /\ \A y \in SessionIds : gdb'[y] = "none" => state'[y] = "disconnected"
        /\ \A y \in sessions' : Established(y)'
    BY <1>1 DEF DownInv, Established
  <1>6. ASSUME NEW d \in Callers, pc'[d] = "running" PROVE RunsInPlace(d)'
    <2>1. CASE d = c
      BY <1>1, <1>3, <1>6, <2>1 DEF DownInv, RunsInPlace, Established
    <2>2. CASE d # c
      BY <1>1, <1>2, <1>6, <2>2 DEF DownInv, RunsInPlace, Established
    <2> QED
      BY <2>1, <2>2
  <1>7. ASSUME NEW d \in Callers, pc'[d] = "attaching" PROVE AttachesAlone(d)'
    <2>1. /\ pc[d] = "attaching" /\ sid'[d] = sid[d]
          /\ \A e \in Callers : pc'[e] = "attaching" =>
                                pc[e] = "attaching" /\ sid'[e] = sid[e]
      BY <1>2, <1>3, <1>7
    <2> QED
      BY <1>1, <2>1 DEF DownInv, AttachesAlone
  <1> QED
    BY <1>4, <1>5, <1>6, <1>7 DEF DownInv

(* A GDB that has just been spawned has a session of its own. *)
LEMMA SpawnDown ==
    ASSUME TypeOK, CallInv, DownInv, NEW c \in Callers, NEW s \in SessionIds,
           SpawnDone(c, s)
    PROVE  DownInv' /\ StaysDown
  <1>1. /\ pc[c] = "spawning" /\ gdb[s] = "none" /\ sessions' = sessions
        /\ gdb'[s] = "alive"
        /\ \A y \in SessionIds \ {s} : gdb'[y] = gdb[y]
    BY DEF SpawnDone, TypeOK
  <1>2. /\ state[s] = "disconnected" /\ s \notin sessions
        /\ \A d \in Callers : pc[d] \in {"running", "attaching"} => sid[d] # s
    BY <1>1 DEF DownInv, RunsInPlace, AttachesAlone, Established
  <1>3. /\ state'[s] \in {"disconnected", "connecting"}
        /\ \A y \in SessionIds \ {s} : state'[y] = state[y]
    BY <1>2 DEF SpawnDone, TypeOK
  <1>4. /\ \A d \in Callers \ {c} : pc'[d] = pc[d] /\ sid'[d] = sid[d]
        /\ \/ pc'[c] = "idle"
           \/ pc'[c] = "attaching" /\ sid'[c] = s /\ state'[s] = "connecting"
    BY DEF SpawnDone, Return, TypeOK
  <1>5. StaysDown /\ UnregisteredIsDown'
    BY <1>1, <1>3 DEF StaysDown, DownInv, UnregisteredIsDown
  <1>6. \A y \in SessionIds : gdb'[y] = "none" => state'[y] = "disconnected"
    BY <1>1, <1>3 DEF DownInv
  <1>7. \A y \in sessions' : Established(y)'
    BY <1>1, <1>2, <1>3 DEF DownInv, Established, TypeOK
  <1>8. ASSUME NEW d \in Callers, pc'[d] = "running" PROVE RunsInPlace(d)'
    <2>1. pc[d] = "running" /\ sid'[d] = sid[d] /\ sid[d] \in SessionIds \ {s}
      BY <1>2, <1>4, <1>8 DEF CallInv
    <2> QED
      BY <1>1, <1>3, <2>1 DEF DownInv, RunsInPlace, Established
  <1>9. ASSUME NEW d \in Callers, pc'[d] = "attaching" PROVE AttachesAlone(d)'
    <2>1. CASE d = c
      <3>1. sid'[d] = s /\ state'[s] = "connecting"
        BY <1>4, <1>9, <2>1
      <3>2. \A e \in Callers \ {c} : pc'[e] = "attaching" => sid'[e] # s
        BY <1>2, <1>4
      <3> QED
        BY <1>1, <1>2, <2>1, <3>1, <3>2 DEF AttachesAlone
    <2>2. CASE d # c
      <3>1. /\ pc[d] = "attaching" /\ sid'[d] = sid[d]
            /\ sid[d] \in SessionIds \ {s}
        BY <1>2, <1>4, <1>9, <2>2 DEF CallInv
      <3>2. AttachesAlone(d)
        BY <3>1 DEF DownInv
      <3>3. \A e \in Callers : pc'[e] = "attaching" /\ sid'[e] = sid[d] =>
                                pc[e] = "attaching" /\ sid[e] = sid[d]
        BY <1>4, <3>1
      <3> QED
        BY <1>1, <1>3, <3>1, <3>2, <3>3 DEF AttachesAlone
    <2> QED
      BY <2>1, <2>2
  <1> QED
    BY <1>5, <1>6, <1>7, <1>8, <1>9 DEF DownInv

(* The session that becomes registered is one only its caller knew. *)
LEMMA AttachedDown ==
    ASSUME TypeOK, CallInv, DownInv, NEW c \in Callers, Attached(c)
    PROVE  DownInv' /\ StaysDown
  <1>1. PICK s \in SessionIds : s = sid[c]
    BY DEF Attached, CallInv
  <1>2. AttachesAlone(c)
    BY DEF Attached, DownInv
  <1>3. /\ state[s] = "connecting" /\ gdb[s] # "none" /\ s \notin sessions
        /\ \A d \in Callers \ {c} : pc[d] = "attaching" => sid[d] # s
        /\ \A d \in Callers : pc[d] = "running" => sid[d] # s
    BY <1>1, <1>2 DEF AttachesAlone, DownInv, RunsInPlace, Established
  <1>4. /\ state'[s] = "unknown" /\ gdb' = gdb /\ sessions' = sessions \cup {s}
        /\ \A y \in SessionIds \ {s} : state'[y] = state[y]
    BY <1>1 DEF Attached, TypeOK
  <1>5. OnlyLeave /\ pc'[c] = "idle"
    BY ReturnOnlyLeaves DEF Attached
  <1>6. StaysDown /\ UnregisteredIsDown'
    BY <1>3, <1>4 DEF StaysDown, DownInv, UnregisteredIsDown
  <1>7. \A y \in SessionIds : gdb'[y] = "none" => state'[y] = "disconnected"
    BY <1>3, <1>4 DEF DownInv
  <1>8. \A y \in sessions' : Established(y)'
    BY <1>3, <1>4 DEF DownInv, Established, TypeOK
  <1>9. ASSUME NEW d \in Callers, pc'[d] = "running" PROVE RunsInPlace(d)'
    <2>1. /\ pc[d] = "running" /\ sid'[d] = sid[d]
          /\ sid[d] \in SessionIds \ {s}
      BY <1>3, <1>5, <1>9 DEF CallInv, OnlyLeave
    <2> QED
      BY <1>4, <2>1 DEF DownInv, RunsInPlace, Established
  <1>10. ASSUME NEW d \in Callers, pc'[d] = "attaching"
         PROVE  AttachesAlone(d)'
    <2>1. /\ d # c /\ pc[d] = "attaching" /\ sid'[d] = sid[d]
          /\ sid[d] \in SessionIds \ {s}
      BY <1>3, <1>5, <1>10 DEF CallInv, OnlyLeave
    <2>2. AttachesAlone(d)
      BY <2>1 DEF DownInv
    <2>3. \A e \in Callers : pc'[e] = "attaching" =>
                                pc[e] = "attaching" /\ sid'[e] = sid[e]
      BY <1>5 DEF OnlyLeave
    <2> QED
      BY <1>4, <2>1, <2>2, <2>3 DEF AttachesAlone
  <1> QED
    BY <1>6, <1>7, <1>8, <1>9, <1>10 DEF DownInv

(* Every step keeps the invariant and leaves closed sessions closed.       *)
LEMMA DownStep ==
    ServiceInv /\ DownInv /\ [Next]_vars => DownInv' /\ StaysDown
  <1> SUFFICES ASSUME ServiceInv, DownInv, [Next]_vars
               PROVE  DownInv' /\ StaysDown
    OBVIOUS
  <1>1. TypeOK /\ CallInv
    BY DEF ServiceInv, SlotInv
  <1>2. ASSUME UNCHANGED <<pc, sid, sessions, state>>,
               \A s \in SessionIds : gdb'[s] = "none" <=> gdb[s] = "none"
        PROVE  DownInv' /\ StaysDown
    <2>1. OnlyLeave
      BY <1>2 DEF OnlyLeave
    <2> QED
      BY <1>1, <1>2, <2>1, StillDown
  <1>3. ASSUME NEW c \in Callers, NEW r \in Requests,
               \/ \E t \in Tokens \cup {NoToken} : Invoke(c, r, t)
               \/ SnapshotQuery(c, r)
        PROVE  DownInv' /\ StaysDown
    <2>1. CASE \E t \in Tokens \cup {NoToken} :
                  Begin(c, r, t) \/ BeginConnect(c, r, t)
      BY <1>1, <2>1, BeginDown
    <2>2. CASE ~\E t \in Tokens \cup {NoToken} :
                  Begin(c, r, t) \/ BeginConnect(c, r, t)
      <3>1. UNCHANGED <<pc, sid, sessions, state, gdb>>
        BY <1>3, <2>2 DEF Invoke, SnapshotQuery, RejectInvalid, RejectEarly,
           RejectToken, DenyPermission, AskConfirmation, RejectLookup,
           RejectBusy, Refused, sessionVars, callVars
      <3> QED
        BY <1>2, <3>1
    <2> QED
      BY <2>1, <2>2
  <1>4. ASSUME NEW c \in Callers,
               \/ StepOnce(c) \/ Finish(c) \/ CancelRun(c)
               \/ \E s \in SessionIds : SpawnDone(c, s)
               \/ Attached(c)
        PROVE  DownInv' /\ StaysDown
    BY <1>1, <1>4, RunDown, SpawnDown, AttachedDown
  <1>5. ASSUME NEW c \in Callers, ConnectFails(c) \/ CancelConnect(c)
        PROVE  DownInv' /\ StaysDown
    <2>1. OnlyLeave /\ UNCHANGED <<state, sessions>>
      BY <1>1, <1>5, ReturnOnlyLeaves
         DEF ConnectFails, CancelConnect, sessionVars
    <2>2. \A s \in SessionIds : gdb'[s] = "none" <=> gdb[s] = "none"
      <3>1. pc[c] = "attaching" => gdb[sid[c]] # "none"
        BY DEF DownInv, AttachesAlone
      <3> QED
        BY <1>1, <1>5, <3>1
           DEF ConnectFails, CancelConnect, sessionVars, TypeOK, CallInv
    <2> QED
      BY <1>1, <2>1, <2>2, StillDown
  <1>6. ASSUME NEW s \in SessionIds, GdbDies(s) PROVE DownInv' /\ StaysDown
    BY <1>1, <1>2, <1>6 DEF GdbDies, TypeOK, callVars
  <1>7. ASSUME TimePasses \/ UNCHANGED vars PROVE DownInv' /\ StaysDown
    <2>1. UNCHANGED <<pc, sid, sessions, state, gdb>>
      BY <1>7 DEF TimePasses, vars, sessionVars, callVars
    <2> QED
      BY <1>2, <2>1
  <1>8. CASE Next
    BY <1>3, <1>4, <1>5, <1>6, <1>7, <1>8 DEF Next
  <1> QED
    BY <1>7, <1>8

(* At the start there is no session and no GDB.                            *)
LEMMA DownInit == Init => DownInv
  BY DEF Init, DownInv, UnregisteredIsDown, RunsInPlace, AttachesAlone

(* service.py:115-190, :706-731: at all times sessions that are not        *)
(* registered are down, and attaching ones belong to one call.             *)
THEOREM DownInvariance == Spec => []DownInv
  BY ServiceInvariance, DownInit, DownStep, PTL DEF Spec

(* service.py:706-731: whatever call is still running when a session is    *)
(* disconnected and removed, it does not bring the session back.           *)
THEOREM RemovedStaysDown == Spec => []UnregisteredIsDown
  <1>1. DownInv => UnregisteredIsDown
    BY DEF DownInv
  <1> QED
    BY <1>1, DownInvariance, PTL

(* state.py:25-68 under the service: no step of any call leads a session   *)
(* out of "disconnected" once its GDB has been closed.                     *)
THEOREM DisconnectIsFinal == Spec => DisconnectedIsFinal
  <1>1. ServiceInv /\ DownInv /\ [Next]_vars =>
           [\A s \in SessionIds :
              gdb[s] = "closed" /\ state[s] = "disconnected" =>
                  state'[s] = "disconnected"]_vars
    BY DownStep DEF StaysDown
  <1> QED
    BY <1>1, ServiceInvariance, DownInvariance, PTL
       DEF Spec, DisconnectedIsFinal

(* What SessionsMoveLegally says of one step. *)
MovesLegally ==
    \A s \in SessionIds :
        /\ can_transition(state[s], state'[s])
        /\ state'[s] = "connecting" => state[s] = "connecting" \/ gdb[s] = "none"

(* An operation leaves a state the state machine has a way to.             *)
LEMMA OutcomeLegal ==
    ASSUME NEW op, NEW s \in TargetState, NEW alive \in BOOLEAN,
           NEW o \in OpOutcomes(op, s, alive)
    PROVE  can_transition(s, o.state)
  <1>1. can_transition(s, s) /\ can_transition(s, "disconnected")
    BY DEF can_transition, LEGAL_TRANSITIONS, TargetState
  <1>2. \A x : Returns(x).state = x /\ Raises(x).state = x
    BY DEF Returns, Raises
  <1>3. \A to : can_transition(s, Moved(s, to).state)
    BY <1>1, <1>2 DEF Moved
  <1>4. CASE op = "disconnect_target"
    BY <1>1, <1>2, <1>4 DEF OpOutcomes, DeadOutcomes, DisconnectOutcomes
  <1>5. CASE op # "disconnect_target"
    <2>1. o \in {Moved(s, "halted"), Moved(s, "running"),
                Moved(s, "degraded"), Moved(s, "unknown"), Returns(s), Raises(s)}
      BY <1>5 DEF OpOutcomes, DeadOutcomes, HaltOutcomes, ResumeOutcomes,
                  ResetOutcomes, NeutralOutcomes
    <2> QED
      BY <1>1, <1>2, <1>3, <2>1
  <1> QED
    BY <1>4, <1>5

(* A step that moves one session, and legally. *)
LEMMA OneMoves ==
    ASSUME TypeOK, NEW s \in SessionIds, NEW x,
           state' = [state EXCEPT ![s] = x], can_transition(state[s], x),
           x = "connecting" => gdb[s] = "none"
    PROVE  MovesLegally
  <1>1. state'[s] = x /\ \A y \in SessionIds \ {s} : state'[y] = state[y]
    BY DEF TypeOK
  <1>2. \A y : can_transition(y, y)
    BY DEF can_transition
  <1> QED
    BY <1>1, <1>2 DEF MovesLegally

(* The calls that run on a session move it along the table.                *)
LEMMA RunMoves ==
    ASSUME TypeOK, CallInv, DownInv, NEW c \in Callers,
           Finish(c) \/ CancelRun(c) \/ StepOnce(c)
    PROVE  MovesLegally
  <1>1. PICK s \in SessionIds : s = sid[c]
    BY DEF CallInv, Finish, CancelRun, StepOnce
  <1>2. state[s] # "connecting" /\ state[s] \in TargetState
    <2>1. pc[c] = "running"
      BY DEF Finish, CancelRun, StepOnce
    <2> QED
      BY <1>1, <2>1 DEF DownInv, RunsInPlace, Established, TypeOK
  <1>3. CASE Finish(c)
    <2>1. PICK o \in OpOutcomes(req[c].op, state[s], gdb[s] = "alive") :
             state' = [state EXCEPT ![s] = o.state]
      BY <1>1, <1>3, Zenon DEF Finish
    <2>2. can_transition(state[s], o.state) /\ o.state # "connecting"
      <3>1. (gdb[s] = "alive") \in BOOLEAN
        OBVIOUS
      <3>2. can_transition(state[s], o.state)
        BY <1>2, <3>1, OutcomeLegal, Zenon
      <3>3. /\ state[s] = "disconnected" => o.state = "disconnected"
            /\ state[s] # "connecting" => o.state # "connecting"
            /\ req[c].op = "disconnect_target" => o.state = "disconnected"
        BY <1>2, <3>1, OutcomeStates, Zenon
      <3> QED
        BY <1>2, <3>2, <3>3
    <2> QED
      BY <2>1, <2>2, OneMoves
  <1>4. CASE CancelRun(c)
    <2>1. PICK x \in {state[s], "disconnected"} :
            state' = [state EXCEPT ![s] = x]
      BY <1>1, <1>4 DEF CancelRun, CancelStates
    <2>2. can_transition(state[s], x)
      BY <1>2 DEF can_transition, LEGAL_TRANSITIONS, TargetState
    <2> QED
      BY <1>2, <2>1, <2>2, OneMoves
  <1>5. CASE StepOnce(c)
    <2>1. /\ state' = [state EXCEPT ![s] = "halted"]
          /\ can_transition(state[s], "halted")
      BY <1>1, <1>5 DEF StepOnce
    <2> QED
      BY <2>1, OneMoves
  <1> QED
    BY <1>3, <1>4, <1>5

(* A session is spawned from "disconnected", and still "connecting" when   *)
(* its attach succeeds: no other call knows it.                            *)
LEMMA ConnectMoves ==
    ASSUME TypeOK, CallInv, DownInv, NEW c \in Callers,
           Attached(c) \/ \E s \in SessionIds : SpawnDone(c, s)
    PROVE  MovesLegally
  <1>1. /\ can_transition("disconnected", "connecting")
        /\ can_transition("connecting", "unknown")
        /\ \A x : can_transition(x, x)
    BY DEF can_transition, LEGAL_TRANSITIONS, TargetState
  <1>2. CASE Attached(c)
    <2>1. PICK s \in SessionIds : s = sid[c]
      BY <1>2 DEF Attached, CallInv
    <2>2. state[s] = "connecting" /\ state' = [state EXCEPT ![s] = "unknown"]
      BY <1>2, <2>1 DEF Attached, DownInv, AttachesAlone
    <2> QED
      BY <1>1, <2>2, OneMoves
  <1>3. ASSUME NEW s \in SessionIds, SpawnDone(c, s) PROVE MovesLegally
    <2>1. gdb[s] = "none" /\ state[s] = "disconnected"
      BY <1>3 DEF SpawnDone, DownInv
    <2>2. \/ state' = state
          \/ state' = [state EXCEPT ![s] = "connecting"]
      BY <1>3 DEF SpawnDone
    <2> QED
      BY <1>1, <2>1, <2>2, OneMoves DEF MovesLegally
  <1> QED
    BY <1>2, <1>3

(* Every step of the service moves sessions legally, or none.              *)
LEMMA MovesStep == ServiceInv /\ DownInv /\ [Next]_vars => MovesLegally
  <1> SUFFICES ASSUME ServiceInv, DownInv, [Next]_vars PROVE MovesLegally
    OBVIOUS
  <1>1. TypeOK /\ CallInv
    BY DEF ServiceInv, SlotInv
  <1>2. ASSUME state' = state PROVE MovesLegally
    BY <1>2 DEF MovesLegally, can_transition
  <1>3. ASSUME NEW c \in Callers, NEW r \in Requests,
               \/ \E t \in Tokens \cup {NoToken} : Invoke(c, r, t)
               \/ SnapshotQuery(c, r)
        PROVE  state' = state
    BY <1>3 DEF Invoke, SnapshotQuery, RejectInvalid, RejectEarly, RejectToken,
       DenyPermission, AskConfirmation, RejectLookup, RejectBusy, Begin,
       BeginConnect, Refused, sessionVars
  <1>4. ASSUME NEW c \in Callers,
               \/ StepOnce(c) \/ Finish(c) \/ CancelRun(c)
               \/ \E s \in SessionIds : SpawnDone(c, s)
               \/ Attached(c)
        PROVE  MovesLegally
    BY <1>1, <1>4, RunMoves, ConnectMoves
  <1>5. ASSUME NEW c \in Callers, ConnectFails(c) \/ CancelConnect(c)
        PROVE  state' = state
    BY <1>5 DEF ConnectFails, CancelConnect, sessionVars
  <1>6. ASSUME \/ \E s \in SessionIds : GdbDies(s)
               \/ TimePasses \/ UNCHANGED vars
        PROVE  state' = state
    BY <1>6 DEF GdbDies, TimePasses, vars, sessionVars
  <1> QED
    BY <1>2, <1>3, <1>4, <1>5, <1>6 DEF Next

(* state.py:25-63 under the service: sessions move along the table, and    *)
(* each is connected once.                                                 *)
THEOREM MovesAreLegal == Spec => SessionsMoveLegally
  <1>1. ServiceInv /\ DownInv /\ [Next]_vars =>
           [\A s \in SessionIds :
              /\ can_transition(state[s], state'[s])
              /\ state'[s] = "connecting" =>
                    state[s] = "connecting" \/ gdb[s] = "none"]_vars
    BY MovesStep DEF MovesLegally
  <1> QED
    BY <1>1, ServiceInvariance, DownInvariance, PTL
       DEF Spec, SessionsMoveLegally

-----------------------------------------------------------------------------
(***************************************************************************)
(* How far overlapping connects can pass the session limit.                *)
(***************************************************************************)

(* The sets that are counted are finite.                                   *)
LEMMA ConnectFinite ==
    ASSUME TypeOK
    PROVE  /\ IsFiniteSet(sessions) /\ Cardinality(sessions) \in Nat
           /\ IsFiniteSet(Connecting) /\ Cardinality(Connecting) \in Nat
           /\ Cardinality(Callers) \in Nat
           /\ Cardinality(Connecting) =< Cardinality(Callers)
  <1>1. sessions \in SUBSET SessionIds /\ Connecting \in SUBSET Callers
    BY DEF TypeOK, Connecting
  <1>2. IsFiniteSet(SessionIds) /\ IsFiniteSet(Callers)
    BY LimitsAssumption
  <1>3. /\ IsFiniteSet(sessions) /\ IsFiniteSet(Connecting)
        /\ Cardinality(Connecting) =< Cardinality(Callers)
    BY <1>1, <1>2, FS_Subset
  <1> QED
    BY <1>2, <1>3, FS_CardinalityType

(* Fewer sessions and fewer connects keep the bound. *)
LEMMA OvershootKept ==
    ASSUME TypeOK, SessionOvershoot, sessions' \subseteq sessions,
           Connecting' \subseteq Connecting
    PROVE  SessionOvershoot'
  <1>1. sessions' \in SUBSET sessions /\ Connecting' \in SUBSET Connecting
    OBVIOUS
  <1>2. IsFiniteSet(sessions) /\ IsFiniteSet(Connecting)
    BY ConnectFinite
  <1>3. /\ IsFiniteSet(sessions') /\ IsFiniteSet(Connecting')
        /\ Cardinality(sessions') =< Cardinality(sessions)
        /\ Cardinality(Connecting') =< Cardinality(Connecting)
    BY <1>1, <1>2, FS_Subset
  <1>4. Cardinality(sessions') \in Nat /\ Cardinality(Connecting') \in Nat
    BY <1>3, FS_CardinalityType
  <1> QED
    BY <1>3, <1>4, ConnectFinite, LimitsAssumption DEF SessionOvershoot

(* connect_target was let through: there was room when it asked. *)
LEMMA BeginConnectOvershoot ==
    ASSUME TypeOK, TypeOK', NEW c \in Callers, NEW r, NEW t,
           BeginConnect(c, r, t)
    PROVE  SessionOvershoot'
  <1>1. sessions' = sessions
    BY DEF BeginConnect, sessionVars
  <1>2. r.op = "connect_target" /\ EarlyError(r) = "none"
    BY DEF BeginConnect, Allowed, Judged
  <1>3. ~(Cardinality(sessions) >= MaxSessions)
    BY <1>2 DEF EarlyError
  <1>4. /\ Cardinality(sessions) \in Nat /\ Cardinality(Callers) \in Nat
        /\ MaxSessions \in Nat
    BY ConnectFinite, LimitsAssumption
  <1>5. IsFiniteSet(Connecting') /\ Cardinality(Connecting') \in Nat
        /\ Cardinality(Connecting') =< Cardinality(Callers)
    <2>1. Connecting' \in SUBSET Callers /\ IsFiniteSet(Callers)
      BY LimitsAssumption DEF Connecting
    <2> QED
      BY <2>1, FS_Subset, FS_CardinalityType
  <1> QED
    BY <1>1, <1>3, <1>4, <1>5 DEF SessionOvershoot

(* A connect that succeeds turns into at most one session. *)
LEMMA AttachedOvershoot ==
    ASSUME TypeOK, SessionOvershoot, NEW c \in Callers, Attached(c)
    PROVE  SessionOvershoot'
  <1>1. c \in Connecting /\ Connecting' = Connecting \ {c}
    BY DEF Attached, Return, Connecting, TypeOK
  <1>2. sessions' = sessions \cup {sid[c]}
    BY DEF Attached
  <1>3. Cardinality(Connecting') = Cardinality(Connecting) - 1
    BY <1>1, ConnectFinite, FS_RemoveElement
  <1>4. Cardinality(sessions') \in {Cardinality(sessions),
                                   Cardinality(sessions) + 1}
    BY <1>2, ConnectFinite, FS_AddElement
  <1> QED
    BY <1>3, <1>4, ConnectFinite, LimitsAssumption DEF SessionOvershoot

(* Every step keeps the bound.                                             *)
LEMMA OvershootStep ==
    ServiceInv /\ ServiceInv' /\ SessionOvershoot /\ [Next]_vars
        => SessionOvershoot'
  <1> SUFFICES ASSUME ServiceInv, ServiceInv', SessionOvershoot, [Next]_vars
               PROVE  SessionOvershoot'
    OBVIOUS
  <1>1. TypeOK /\ TypeOK'
    BY DEF ServiceInv, SlotInv
  <1>2. ASSUME sessions' \subseteq sessions, Connecting' \subseteq Connecting
        PROVE  SessionOvershoot'
    BY <1>1, <1>2, OvershootKept
  <1>3. ASSUME NEW c \in Callers, NEW r \in Requests,
               \/ \E t \in Tokens \cup {NoToken} : Invoke(c, r, t)
               \/ SnapshotQuery(c, r)
        PROVE  SessionOvershoot'
    <2>1. CASE \E t \in Tokens \cup {NoToken} : BeginConnect(c, r, t)
      BY <1>1, <2>1, BeginConnectOvershoot
    <2>2. CASE \E t \in Tokens \cup {NoToken} : Begin(c, r, t)
      <3>1. pc' = [pc EXCEPT ![c] = "running"] /\ sessions' = sessions
        BY <2>2 DEF Begin, sessionVars
      <3>2. Connecting' \subseteq Connecting
        BY <1>1, <3>1 DEF Connecting, TypeOK
      <3> QED
        BY <1>2, <3>1, <3>2
    <2>3. CASE ~\E t \in Tokens \cup {NoToken} :
                  Begin(c, r, t) \/ BeginConnect(c, r, t)
      <3>1. UNCHANGED <<pc, sessions>>
        BY <1>3, <2>3 DEF Invoke, SnapshotQuery, RejectInvalid, RejectEarly,
           RejectToken, DenyPermission, AskConfirmation, RejectLookup,
           RejectBusy, Refused, sessionVars, callVars
      <3> QED
        BY <1>2, <3>1 DEF Connecting
    <2> QED
      BY <2>1, <2>2, <2>3
  <1>4. ASSUME NEW c \in Callers, Attached(c) PROVE SessionOvershoot'
    BY <1>1, <1>4, AttachedOvershoot
  <1>5. ASSUME NEW c \in Callers,
               Finish(c) \/ CancelRun(c) \/ ConnectFails(c) \/ CancelConnect(c)
        PROVE  SessionOvershoot'
    <2>1. sessions' \subseteq sessions
      BY <1>5 DEF Finish, RemoveSession, CancelRun, ConnectFails,
                  CancelConnect, sessionVars
    <2>2. pc' = [pc EXCEPT ![c] = "idle"]
      BY <1>5 DEF Finish, CancelRun, ConnectFails, CancelConnect, Return
    <2>3. Connecting' \subseteq Connecting
      BY <1>1, <2>2 DEF Connecting, TypeOK
    <2> QED
      BY <1>2, <2>1, <2>3
  <1>6. ASSUME NEW c \in Callers, NEW s \in SessionIds, SpawnDone(c, s)
        PROVE  SessionOvershoot'
    <2>1. /\ sessions' = sessions /\ pc[c] = "spawning"
          /\ \/ pc' = [pc EXCEPT ![c] = "idle"]
             \/ pc' = [pc EXCEPT ![c] = "attaching"]
      BY <1>6 DEF SpawnDone, Return
    <2>2. Connecting' \subseteq Connecting
      BY <1>1, <2>1 DEF Connecting, TypeOK
    <2> QED
      BY <1>2, <2>1, <2>2
  <1>7. ASSUME \/ \E c \in Callers : StepOnce(c)
               \/ \E s \in SessionIds : GdbDies(s)
               \/ TimePasses \/ UNCHANGED vars
        PROVE  SessionOvershoot'
    <2>1. UNCHANGED <<pc, sessions>>
      BY <1>7 DEF StepOnce, GdbDies, TimePasses, vars, sessionVars, callVars
    <2> QED
      BY <1>2, <2>1 DEF Connecting
  <1>8. CASE Next
    BY <1>3, <1>4, <1>5, <1>6, <1>7, <1>8 DEF Next
  <1> QED
    BY <1>7, <1>8

(* service.py:118-152: the session limit, checked before two awaits, can   *)
(* be passed, but by less than the number of calls that overlap.           *)
THEOREM OvershootBound == Spec => []SessionOvershoot
  <1>1. Init => SessionOvershoot
    <2> SUFFICES ASSUME Init PROVE SessionOvershoot
      OBVIOUS
    <2>1. sessions = {} /\ Connecting = {}
      BY DEF Init, Connecting
    <2>2. Cardinality(Callers) \in Nat
      BY LimitsAssumption, FS_CardinalityType
    <2> QED
      BY <2>1, <2>2, FS_EmptySet, LimitsAssumption DEF SessionOvershoot
  <1> QED
    BY <1>1, OvershootStep, ServiceInvariance, PTL DEF Spec

-----------------------------------------------------------------------------
(***************************************************************************)
(* Every call in flight is authorized, by a token of its own where the     *)
(* policy asked for one, and so keeps to the rules of its request.         *)
(* A readonly server never starts GDB.                                     *)
(***************************************************************************)

InFlight(c) == pc[c] # "idle"

(* A token in use has been presented and so is out of the store; nobody    *)
(* can be granted it again.                                                *)
GrantInv(c) ==
    /\ Decision(req[c], grant[c]) = ALLOW
    /\ WithinLength(req[c])
    /\ pc[c] # "running" => req[c].op = "connect_target"
    /\ grant[c] # NoToken =>
          /\ grant[c] \in tried /\ WasConfirmed(c)
          /\ \A d \in Callers : InFlight(d) /\ grant[d] = grant[c] => d = c

AuthInv == \A c \in Callers : InFlight(c) => GrantInv(c)

-----------------------------------------------------------------------------
(* The history of a token that has been presented is settled. *)
LEMMA TriedIsSettled ==
    ASSUME StoreInv, [StoreNext]_storeVars, NEW t \in tried
    PROVE  /\ t \in tried' /\ issuedAs'[t] = issuedAs[t]
           /\ uses'[t] = uses[t]
  <1>1. /\ t \in Tokens /\ issuedAs[t] # NoRecord /\ records[t] = NoRecord
        /\ issuedAs \in [Tokens -> ConfirmationRecord \cup {NoRecord}]
        /\ uses \in [Tokens -> Nat]
    BY DEF StoreInv, StoreTypeOK, TokenInv
  <1>2. ASSUME NEW tok \in Tokens, NEW op \in Operations,
               NEW fp \in Fingerprints,
               \/ Issue(tok, op, fp) \/ Verify(tok, op, fp)
               \/ \E new \in Tokens : VerifyThenIssue(tok, new, op, fp)
        PROVE  /\ t \in tried' /\ issuedAs'[t] = issuedAs[t]
               /\ uses'[t] = uses[t]
    <2>1. t \in tried'
      BY <1>2 DEF Issue, Verify, VerifyThenIssue, NoteVerify
    <2>2. issuedAs'[t] = issuedAs[t]
      BY <1>1, <1>2 DEF Issue, Verify, VerifyThenIssue
    <2>3. uses'[t] = uses[t]
      BY <1>1, <1>2 DEF Issue, Verify, VerifyThenIssue, NoteVerify, Matches
    <2> QED
      BY <2>1, <2>2, <2>3
  <1>3. CASE Tick \/ UNCHANGED storeVars
    BY <1>3 DEF Tick, storeVars
  <1> QED
    BY <1>2, <1>3 DEF StoreNext

(* Calls that go on keep what authorizes them. *)
LEMMA GrantKept ==
    ASSUME StoreInv, [StoreNext]_storeVars, AuthInv, config' = config,
           \A c \in Callers : pc'[c] # "idle" =>
               /\ pc[c] # "idle" /\ req'[c] = req[c] /\ grant'[c] = grant[c]
               /\ pc'[c] # "running" => pc[c] # "running"
    PROVE  AuthInv'
  <1> SUFFICES ASSUME NEW c \in Callers, pc'[c] # "idle"
               PROVE  GrantInv(c)'
    BY DEF AuthInv, InFlight
  <1>1. GrantInv(c) /\ req'[c] = req[c] /\ grant'[c] = grant[c]
    BY DEF AuthInv, InFlight
  <1>2. Decision(req[c], grant[c])' = ALLOW /\ WithinLength(req[c])'
    BY <1>1 DEF GrantInv, Decision, WithinLength
  <1>3. pc'[c] # "running" => req'[c].op = "connect_target"
    BY <1>1 DEF GrantInv
  <1>4. ASSUME grant[c] # NoToken
        PROVE  grant'[c] \in tried' /\ WasConfirmed(c)'
    BY <1>1, <1>4, TriedIsSettled DEF GrantInv, WasConfirmed
  <1>5. ASSUME grant[c] # NoToken, NEW d \in Callers, InFlight(d)',
               grant'[d] = grant'[c]
        PROVE  d = c
    BY <1>1, <1>5 DEF GrantInv, InFlight
  <1> QED
    BY <1>1, <1>2, <1>3, <1>4, <1>5 DEF GrantInv

(* A call that reaches its first await was allowed by the policy, and the  *)
(* token it presented was in the store until then.                         *)
LEMMA GrantTaken ==
    ASSUME ServiceInv, AuthInv, NEW c \in Callers, NEW r \in Requests,
           NEW t \in Tokens \cup {NoToken},
           Begin(c, r, t) \/ BeginConnect(c, r, t)
    PROVE  AuthInv'
  <1>1. TypeOK /\ StoreInv
    BY DEF ServiceInv, SlotInv
  <1>2. /\ pc[c] = "idle" /\ Allowed(c, r, t) /\ Consume(r, t)
        /\ req' = [req EXCEPT ![c] = r] /\ grant' = [grant EXCEPT ![c] = t]
        /\ config' = config
        /\ \/ pc' = [pc EXCEPT ![c] = "running"]
           \/ pc' = [pc EXCEPT ![c] = "spawning"] /\ r.op = "connect_target"
    BY DEF Begin, BeginConnect, Allowed, Judged, Admitted
  <1>3. /\ req'[c] = r /\ grant'[c] = t /\ pc'[c] \in {"running", "spawning"}
        /\ pc'[c] # "running" => r.op = "connect_target"
        /\ \A d \in Callers \ {c} : /\ pc'[d] = pc[d] /\ req'[d] = req[d]
                                    /\ grant'[d] = grant[d]
    BY <1>1, <1>2 DEF TypeOK
  <1>4. /\ Decision(r, t) = ALLOW
        /\ t # NoToken => Matches(t, r.op, fingerprint(r))
        /\ WithinLength(r)
    <2>1. EarlyError(r) = "none"
      BY <1>2 DEF Allowed, Judged
    <2>2. WithinLength(r)
      BY <2>1 DEF EarlyError, WithinLength
    <2> QED
      BY <1>2, <2>2 DEF Allowed, TokenFails
  <1>5. [StoreNext]_storeVars
    BY <1>2, ConsumeIsStoreStep
  <1>6. ASSUME t # NoToken
        PROVE  /\ t \in Tokens /\ t \notin tried /\ t \in tried'
               /\ issuedAs'[t].operation = r.op
               /\ issuedAs'[t].fingerprint = fingerprint(r)
               /\ uses'[t] = 1
    <2>1. t \in Tokens /\ Verify(t, r.op, fingerprint(r))
      BY <1>2, <1>6 DEF Consume
    <2>2. /\ records[t] # NoRecord /\ records[t].operation = r.op
          /\ records[t].fingerprint = fingerprint(r)
      BY <1>4, <1>6 DEF Matches
    <2>3. /\ t \notin tried /\ records[t] = issuedAs[t] /\ uses[t] = 0
          /\ uses \in [Tokens -> Nat]
      BY <1>1, <2>1, <2>2 DEF StoreInv, StoreTypeOK, TokenInv
    <2>4. t \in tried' /\ issuedAs' = issuedAs
      BY <2>1, <2>2, <2>3 DEF Verify, NoteVerify
    <2>5. uses'[t] = 1
      BY <1>4, <1>6, <2>1, <2>3 DEF Verify, NoteVerify
    <2> QED
      BY <2>1, <2>2, <2>3, <2>4, <2>5
  <1>7. ASSUME NEW d \in Callers \ {c}, pc[d] # "idle", grant[d] # NoToken
        PROVE  grant[d] \in tried /\ grant[d] # t
    BY <1>6, <1>7 DEF AuthInv, InFlight, GrantInv
  <1>8. GrantInv(c)'
    <2>1. Decision(req[c], grant[c])' = ALLOW /\ WithinLength(req[c])'
      BY <1>2, <1>3, <1>4 DEF Decision, WithinLength
    <2>2. ASSUME t # NoToken, NEW d \in Callers, pc'[d] # "idle",
                 grant'[d] = grant'[c]
          PROVE  d = c
      BY <1>3, <1>7, <2>2
    <2> QED
      BY <1>3, <1>6, <2>1, <2>2 DEF GrantInv, InFlight, WasConfirmed
  <1>9. ASSUME NEW d \in Callers \ {c}, pc'[d] # "idle"
        PROVE  GrantInv(d)'
    <2>1. GrantInv(d) /\ pc[d] # "idle"
      BY <1>3, <1>9 DEF AuthInv, InFlight
    <2>2. Decision(req[d], grant[d])' = ALLOW /\ WithinLength(req[d])'
      BY <1>2, <1>3, <2>1 DEF GrantInv, Decision, WithinLength
    <2>3. ASSUME grant[d] # NoToken
          PROVE  grant[d] \in tried' /\ WasConfirmed(d)'
      BY <1>1, <1>3, <1>5, <2>1, <2>3, TriedIsSettled
         DEF GrantInv, WasConfirmed
    <2>4. ASSUME grant[d] # NoToken, NEW e \in Callers, pc'[e] # "idle",
                 grant'[e] = grant'[d]
          PROVE  e = d
      <3>1. CASE e = c
        BY <1>3, <1>7, <2>1, <2>4, <3>1
      <3>2. CASE e # c
        BY <1>3, <2>1, <2>4, <3>2 DEF GrantInv, InFlight
      <3> QED
        BY <3>1, <3>2
    <2> QED
      BY <1>3, <2>1, <2>2, <2>3, <2>4 DEF GrantInv, InFlight
  <1> QED
    BY <1>8, <1>9 DEF AuthInv, InFlight

(* Every step keeps the calls in flight authorized.                        *)
LEMMA AuthStep == ServiceInv /\ AuthInv /\ [Next]_vars => AuthInv'
  <1> SUFFICES ASSUME ServiceInv, AuthInv, [Next]_vars PROVE AuthInv'
    OBVIOUS
  <1>1. TypeOK /\ StoreInv /\ [StoreNext]_storeVars
    BY StepIsStoreStep DEF ServiceInv, SlotInv
  <1>2. ASSUME config' = config,
               \A c \in Callers : pc'[c] # "idle" =>
                  /\ pc[c] # "idle" /\ req'[c] = req[c] /\ grant'[c] = grant[c]
                  /\ pc'[c] # "running" => pc[c] # "running"
        PROVE  AuthInv'
    BY <1>1, <1>2, GrantKept
  <1>3. ASSUME NEW c \in Callers, Return(c), config' = config
        PROVE  AuthInv'
    <2>1. /\ pc'[c] = "idle"
          /\ \A d \in Callers \ {c} : /\ pc'[d] = pc[d] /\ req'[d] = req[d]
                                      /\ grant'[d] = grant[d]
      BY <1>1, <1>3 DEF Return, TypeOK
    <2> QED
      BY <1>2, <1>3, <2>1
  <1>4. ASSUME NEW c \in Callers, NEW r \in Requests,
               \/ \E t \in Tokens \cup {NoToken} : Invoke(c, r, t)
               \/ SnapshotQuery(c, r)
        PROVE  AuthInv'
    <2>1. CASE \E t \in Tokens \cup {NoToken} :
                  Begin(c, r, t) \/ BeginConnect(c, r, t)
      BY <2>1, GrantTaken
    <2>2. CASE ~\E t \in Tokens \cup {NoToken} :
                  Begin(c, r, t) \/ BeginConnect(c, r, t)
      <3>1. UNCHANGED <<config, pc, req, grant>>
        BY <1>4, <2>2 DEF Invoke, SnapshotQuery, RejectInvalid, RejectEarly,
           RejectToken, DenyPermission, AskConfirmation, RejectLookup,
           RejectBusy, Refused, callVars
      <3> QED
        BY <1>2, <3>1
    <2> QED
      BY <2>1, <2>2
  <1>5. ASSUME NEW c \in Callers,
               \/ Finish(c) \/ CancelRun(c)
               \/ ConnectFails(c) \/ Attached(c) \/ CancelConnect(c)
        PROVE  AuthInv'
    <2>1. Return(c) /\ config' = config
      BY <1>5 DEF Finish, CancelRun, ConnectFails, Attached, CancelConnect
    <2> QED
      BY <1>3, <2>1
  <1>6. ASSUME NEW c \in Callers, NEW s \in SessionIds, SpawnDone(c, s)
        PROVE  AuthInv'
    <2>1. CASE req[c].body = "malformed"
      BY <1>3, <1>6, <2>1 DEF SpawnDone
    <2>2. CASE req[c].body # "malformed"
      <3>1. /\ pc[c] = "spawning" /\ pc' = [pc EXCEPT ![c] = "attaching"]
            /\ UNCHANGED <<config, req, grant>>
        BY <1>6, <2>2 DEF SpawnDone
      <3>2. \A d \in Callers : /\ pc'[d] # "idle" => pc[d] # "idle"
                               /\ pc'[d] # "running" => pc[d] # "running"
        BY <1>1, <3>1 DEF TypeOK
      <3> QED
        BY <1>2, <3>1, <3>2
    <2> QED
      BY <2>1, <2>2
  <1>7. ASSUME \/ \E c \in Callers : StepOnce(c)
               \/ \E s \in SessionIds : GdbDies(s)
               \/ TimePasses \/ UNCHANGED vars
        PROVE  AuthInv'
    <2>1. UNCHANGED <<config, pc, req, grant>>
      BY <1>7 DEF StepOnce, GdbDies, TimePasses, vars, callVars
    <2> QED
      BY <1>2, <2>1
  <1>8. CASE Next
    BY <1>4, <1>5, <1>6, <1>7, <1>8 DEF Next
  <1> QED
    BY <1>7, <1>8

(* At the start no call is in flight.                                      *)
LEMMA AuthInit == Init => AuthInv
  BY DEF Init, AuthInv, InFlight

(* service.py:806-835: at all times the calls in flight are authorized,    *)
(* by tokens that are out of the store.                                    *)
THEOREM AuthInvariance == Spec => []AuthInv
  BY ServiceInvariance, AuthInit, AuthStep, PTL DEF Spec

(* service.py:719-756, :806-835: no call is past its policy check that the *)
(* policy did not allow with the token the call itself presented, and no   *)
(* two calls in flight live on one token.                                  *)
THEOREM InFlightAuthorization == Spec => []InFlightIsAuthorized
  <1>1. ServiceInv /\ AuthInv => InFlightIsAuthorized
    <2> SUFFICES ASSUME ServiceInv, AuthInv PROVE InFlightIsAuthorized
      OBVIOUS
    <2>1. \A c \in Running \cup Connecting : c \in Callers /\ InFlight(c)
      BY DEF Running, Connecting, InFlight
    <2> QED
      BY <2>1 DEF AuthInv, GrantInv, WasConfirmed, InFlightIsAuthorized
  <1> QED
    BY <1>1, AuthInvariance, ServiceInvariance, PTL

-----------------------------------------------------------------------------
(* The request the rules are asked about is one the engine may be shown. *)
LEMMA AskedIsBuildable ==
    ASSUME TypeOK, NEW op \in DebugOperation, NEW confirmed \in BOOLEAN
    PROVE  Asked(op, confirmed) \in Buildable
  <1>1. config \in Config
    BY InputsAssumption DEF TypeOK
  <1> QED
    BY <1>1 DEF Asked, Buildable, PolicyRequest, Config

(* What the service decides is what is granted.                            *)
LEMMA DecisionFollowsRules ==
    ASSUME TypeOK, NEW r, NEW t, r.op \in DebugOperation
    PROVE  Decision(r, t) = ALLOW <=> Grantable(Asked(r.op, t # NoToken))
  <1>1. Asked(r.op, t # NoToken) \in Buildable
    BY AskedIsBuildable
  <1>2. Evaluate(Asked(r.op, t # NoToken)) = ALLOW
           <=> Grantable(Asked(r.op, t # NoToken))
    BY <1>1, EngineFollowsRules DEF Grantable
  <1> QED
    BY <1>2 DEF Decision, Asked

(* A token that was accepted for the call can only help it.                *)
LEMMA ConfirmingHelps ==
    ASSUME NEW op, NEW accepted \in BOOLEAN, NEW confirmed \in BOOLEAN,
           RequestRules(Asked(op, accepted)), accepted => confirmed
    PROVE  RequestRules(Asked(op, confirmed))
  BY DEF RequestRules, Changes, Asked

(* Whatever a call in flight does keeps the documented rules for its mode, *)
(* target, opt-ins and length (safety-model.md:20-43, :67, :84-90,         *)
(* :109-112, :122-124, mcp-client-setup.md:51); not those for its address. *)
(* The engine follows them for the request it is shown, and what it takes  *)
(* for a confirmation is one: a token issued for this very call, accepted  *)
(* once.                                                                   *)
THEOREM InFlightFollowsRules == Spec => []InFlightKeepsRules
  <1>1. ServiceInv /\ AuthInv => InFlightKeepsRules
    <2> SUFFICES ASSUME ServiceInv, AuthInv,
                        NEW c \in Running \cup Connecting
                 PROVE  /\ RequestRules(Asked(req[c].op, WasConfirmed(c)))
                        /\ WithinLength(req[c])
      BY DEF InFlightKeepsRules
    <2>1. c \in Callers /\ InFlight(c) /\ TypeOK /\ CallInv
      BY DEF Running, Connecting, InFlight, ServiceInv, SlotInv
    <2>2. req[c].op \in DebugOperation
      <3>1. CASE pc[c] = "running"
        BY <2>1, <3>1, InputsAssumption DEF CallInv, Request
      <3>2. CASE pc[c] # "running"
        BY <2>1, <3>2 DEF AuthInv, GrantInv, DebugOperation,
           TARGET_CHANGING_OPERATIONS
      <3> QED
        BY <3>1, <3>2
    <2>3. RequestRules(Asked(req[c].op, grant[c] # NoToken))
      BY <2>1, <2>2, DecisionFollowsRules DEF AuthInv, GrantInv, Grantable
    <2>4. /\ grant[c] # NoToken => WasConfirmed(c)
          /\ WithinLength(req[c])
      BY <2>1 DEF AuthInv, GrantInv
    <2>5. WasConfirmed(c) \in BOOLEAN
      BY DEF WasConfirmed
    <2>6. RequestRules(Asked(req[c].op, WasConfirmed(c)))
      BY <2>3, <2>4, <2>5, ConfirmingHelps
    <2> QED
      BY <2>4, <2>6
  <1> QED
    BY <1>1, AuthInvariance, ServiceInvariance, PTL

-----------------------------------------------------------------------------
(* Without control the policy allows no connect, whatever else holds. *)
LEMMA ReadonlyNeverConnects ==
    ASSUME NEW r, NEW t, r.op = "connect_target", config.mode = READONLY
    PROVE  Decision(r, t) # ALLOW
  BY DEF Decision, Evaluate, EvaluateTargetChanging, READ_ONLY_OPERATIONS,
         TARGET_CHANGING_OPERATIONS, ALLOW, DENY, REQUIRE_CONFIRMATION

(* The configuration is read once; no call changes it. *)
LEMMA ConfigFixed == [Next]_vars => config' = config
  <1>1. ASSUME NEW c, NEW r, NEW t, Invoke(c, r, t) PROVE config' = config
    BY <1>1 DEF Invoke, RejectInvalid, RejectEarly, RejectToken,
       DenyPermission, AskConfirmation, RejectLookup, RejectBusy, Refused,
       Begin, BeginConnect
  <1>2. ASSUME NEW c, NEW r, SnapshotQuery(c, r) PROVE config' = config
    BY <1>2 DEF SnapshotQuery, Refused
  <1>3. ASSUME NEW c, StepOnce(c) \/ Finish(c) \/ CancelRun(c)
        PROVE  config' = config
    BY <1>3 DEF StepOnce, Finish, CancelRun
  <1>4. ASSUME NEW c, \/ \E s \in SessionIds : SpawnDone(c, s)
                      \/ ConnectFails(c) \/ Attached(c) \/ CancelConnect(c)
        PROVE  config' = config
    BY <1>4 DEF SpawnDone, ConnectFails, Attached, CancelConnect
  <1>5. ASSUME NEW s, GdbDies(s) PROVE config' = config
    BY <1>5 DEF GdbDies
  <1>6. ASSUME TimePasses \/ UNCHANGED vars PROVE config' = config
    BY <1>6 DEF TimePasses, vars
  <1>7. ASSUME Next PROVE config' = config
    BY <1>1, <1>2, <1>3, <1>4, <1>5, <1>6, <1>7 DEF Next
  <1> QED
    BY <1>6, <1>7

(* A step that gives an answer refuses for the policy's sake only in       *)
(* DenyPermission and AskConfirmation.                                     *)
LEMMA OtherAnswers ==
    ASSUME [Next]_vars,
           reply'.code \in {"CONFIRMATION_REQUIRED", "PERMISSION_DENIED"}
    PROVE  \/ reply' = reply
           \/ \E c \in Callers, r \in Requests, t \in Tokens \cup {NoToken} :
                 DenyPermission(c, r, t) \/ AskConfirmation(c, r, t)
  <1>1. ASSUME NEW c \in Callers, NEW r \in Requests,
               NEW t \in Tokens \cup {NoToken}, Invoke(c, r, t),
               ~DenyPermission(c, r, t), ~AskConfirmation(c, r, t)
        PROVE  reply' = reply
    BY <1>1 DEF Invoke, RejectInvalid, RejectEarly, RejectToken,
       RejectLookup, RejectBusy, Begin, BeginConnect, Answer,
       AnswerUnaudited, EarlyError
  <1>2. ASSUME NEW c, NEW r, SnapshotQuery(c, r) PROVE reply' = reply
    BY <1>2 DEF SnapshotQuery, Answer
  <1>3. ASSUME NEW c, StepOnce(c) \/ Finish(c) \/ CancelRun(c)
        PROVE  reply' = reply
    BY <1>3 DEF StepOnce, Finish, CancelRun, Answer, AnswerUnaudited
  <1>4. ASSUME NEW c, \/ \E s \in SessionIds : SpawnDone(c, s)
                      \/ ConnectFails(c) \/ Attached(c) \/ CancelConnect(c)
        PROVE  reply' = reply
    BY <1>4 DEF SpawnDone, ConnectFails, Attached, CancelConnect, Answer,
       AnswerUnaudited
  <1>5. ASSUME \/ \E s \in SessionIds : GdbDies(s)
               \/ TimePasses \/ UNCHANGED vars
        PROVE  reply' = reply
    BY <1>5 DEF GdbDies, TimePasses, vars
  <1>6. CASE Next
    BY <1>1, <1>2, <1>3, <1>4, <1>5, <1>6 DEF Next
  <1> QED
    BY <1>5, <1>6

(* A refusal is given to a request that is not grantable, and a denial to  *)
(* one that would not be with a token either.                              *)
LEMMA RefusalStep ==
    TypeOK /\ RefusalIsNeeded /\ [Next]_vars => RefusalIsNeeded'
  <1> SUFFICES ASSUME TypeOK, RefusalIsNeeded, [Next]_vars
               PROVE  RefusalIsNeeded'
    OBVIOUS
  <1>1. config' = config
    BY ConfigFixed
  <1>2. CASE reply' = reply
    BY <1>1, <1>2 DEF RefusalIsNeeded, Grantable, Asked
  <1>3. ASSUME NEW c \in Callers, NEW r \in Requests,
               NEW t \in Tokens \cup {NoToken}, AskConfirmation(c, r, t)
        PROVE  RefusalIsNeeded'
    <2>1. r.op \in DebugOperation
      BY InputsAssumption DEF Request
    <2>2. ~Grantable(Asked(r.op, t # NoToken))
      BY <1>3, <2>1, DecisionFollowsRules, ModesDiffer DEF AskConfirmation
    <2>3. /\ reply'.code = "CONFIRMATION_REQUIRED" =>
               reply'.op = r.op /\ reply'.confirmed = (t # NoToken)
          /\ reply'.code # "PERMISSION_DENIED"
      BY <1>3 DEF AskConfirmation, Answer
    <2> QED
      BY <1>1, <2>2, <2>3 DEF RefusalIsNeeded, Grantable, Asked
  <1>4. ASSUME NEW c \in Callers, NEW r \in Requests,
               NEW t \in Tokens \cup {NoToken}, DenyPermission(c, r, t)
        PROVE  RefusalIsNeeded'
    <2>1. r.op \in DebugOperation
      BY InputsAssumption DEF Request
    <2>2. ~Grantable(Asked(r.op, TRUE))
      <3>1. /\ Asked(r.op, t # NoToken) \in Buildable
            /\ Asked(r.op, TRUE) \in Buildable
        BY <2>1, AskedIsBuildable
      <3>2. Evaluate(Asked(r.op, t # NoToken)) = DENY
        BY <1>4 DEF DenyPermission, Decision, Asked
      <3> DEFINE q == Asked(r.op, t # NoToken)
                 p == Asked(r.op, TRUE)
      <3>3. /\ p.op = q.op /\ p.class = q.class /\ p.mode = q.mode
            /\ p.writes = q.writes /\ p.allowlist = q.allowlist
        BY DEF Asked
      <3>4. q \in Buildable /\ p \in Buildable /\ Evaluate(q) = DENY
        BY <3>1, <3>2
      <3> HIDE DEF q, p
      <3>5. ~Grantable(p)
        BY <3>3, <3>4, DenialIsFinal
      <3> QED
        BY <3>5 DEF p
    <2>3. /\ reply'.code = "PERMISSION_DENIED" => reply'.op = r.op
          /\ reply'.code # "CONFIRMATION_REQUIRED"
      BY <1>4 DEF DenyPermission, Answer
    <2> QED
      BY <1>1, <2>2, <2>3 DEF RefusalIsNeeded, Grantable, Asked
  <1>5. CASE reply'.code \notin {"CONFIRMATION_REQUIRED", "PERMISSION_DENIED"}
    BY <1>5 DEF RefusalIsNeeded
  <1> QED
    BY <1>2, <1>3, <1>4, <1>5, OtherAnswers

(* service.py:837-871: nobody is refused, or asked for a token, or asked   *)
(* again, where the documented rules would let the call through, but by    *)
(* the engine's two guards of production hardware.                         *)
THEOREM RefusalsAreNeeded == Spec => []RefusalIsNeeded
  <1>1. Init => RefusalIsNeeded
    BY DEF Init, RefusalIsNeeded
  <1>2. ServiceInv => TypeOK
    BY DEF ServiceInv, SlotInv
  <1> QED
    BY <1>1, <1>2, RefusalStep, ServiceInvariance, PTL DEF Spec

(* With no call in flight and no GDB running, no step starts one: every    *)
(* GDB process comes from a call that is past its policy check.            *)
LEMMA NoGdbFromNothing ==
    ASSUME [Next]_vars, \A c \in Callers : pc[c] = "idle",
           \A s \in SessionIds : gdb[s] = "none"
    PROVE  gdb' = gdb
  <1>1. ASSUME NEW c \in Callers, NEW r, NEW t, Invoke(c, r, t)
        PROVE  gdb' = gdb
    BY <1>1 DEF Invoke, RejectInvalid, RejectEarly, RejectToken,
       DenyPermission, AskConfirmation, RejectLookup, RejectBusy, Refused,
       Begin, BeginConnect, sessionVars
  <1>2. ASSUME NEW c \in Callers, NEW r, SnapshotQuery(c, r)
        PROVE  gdb' = gdb
    BY <1>2 DEF SnapshotQuery, Refused, sessionVars
  <1>3. ASSUME NEW c \in Callers, StepOnce(c) \/ Finish(c) \/ CancelRun(c)
        PROVE  gdb' = gdb
    BY <1>3 DEF StepOnce, Finish, CancelRun
  <1>4. ASSUME NEW c \in Callers,
               \/ \E s \in SessionIds : SpawnDone(c, s)
               \/ ConnectFails(c) \/ Attached(c) \/ CancelConnect(c)
        PROVE  gdb' = gdb
    BY <1>4 DEF SpawnDone, ConnectFails, Attached, CancelConnect
  <1>5. ASSUME NEW s \in SessionIds, GdbDies(s) PROVE gdb' = gdb
    BY <1>5 DEF GdbDies
  <1>6. ASSUME TimePasses \/ UNCHANGED vars PROVE gdb' = gdb
    BY <1>6 DEF TimePasses, vars, sessionVars
  <1>7. ASSUME Next PROVE gdb' = gdb
    BY <1>1, <1>2, <1>3, <1>4, <1>5, <1>6, <1>7 DEF Next
  <1> QED
    BY <1>6, <1>7

(* In readonly mode no call is in flight, so no step starts a GDB. *)
LEMMA ReadonlyStep ==
    ServiceInv /\ DownInv /\ AuthInv /\ ReadonlyIsInert /\ [Next]_vars
        => ReadonlyIsInert'
  <1> SUFFICES ASSUME ServiceInv, DownInv, AuthInv, ReadonlyIsInert,
                      [Next]_vars, config'.mode = READONLY,
                      NEW s \in SessionIds
               PROVE  gdb'[s] = "none"
    BY DEF ReadonlyIsInert
  <1>1. TypeOK /\ CallInv
    BY DEF ServiceInv, SlotInv
  <1>2. config' = config
    BY ConfigFixed
  <1>3. \A x \in SessionIds : gdb[x] = "none"
    BY <1>2 DEF ReadonlyIsInert
  <1>4. \A c \in Callers : pc[c] = "idle"
    <2> SUFFICES ASSUME NEW c \in Callers, pc[c] # "idle" PROVE FALSE
      OBVIOUS
    <2>1. CASE pc[c] = "running"
      BY <1>1, <1>3, <2>1 DEF DownInv, RunsInPlace, Established, CallInv
    <2>2. CASE pc[c] # "running"
      BY <1>2, <2>2, ReadonlyNeverConnects DEF AuthInv, InFlight, GrantInv
    <2> QED
      BY <2>1, <2>2
  <1>5. gdb' = gdb
    BY <1>3, <1>4, NoGdbFromNothing
  <1> QED
    BY <1>3, <1>5

(* safety-model.md:20: a readonly server starts no GDB process.            *)
THEOREM ReadonlySafety == Spec => []ReadonlyIsInert
  <1>1. Init => ReadonlyIsInert
    BY DEF Init, ReadonlyIsInert
  <1> QED
    BY <1>1, ReadonlyStep, ServiceInvariance, DownInvariance, AuthInvariance,
       PTL DEF Spec
=============================================================================
