------------------------- MODULE ConfirmationStore -------------------------
(***************************************************************************)
(* The one-time confirmation tokens of safety/confirmation.py.             *)
(*                                                                         *)
(* A token is bound, when it is issued, to an operation and to the         *)
(* fingerprint of the request, and it expires ttl_seconds later.  verify   *)
(* pops the record before it looks at it, so that every attempt, even a    *)
(* failed one, uses the token up.                                          *)
(*                                                                         *)
(* "issuedAs", "uses", "lastUse" and "tried" are history variables: the    *)
(* code keeps only the dictionary _records.                                *)
(***************************************************************************)
EXTENDS Integers

CONSTANTS
    Tokens,        \* the values secrets.token_urlsafe can return
    Operations,    \* DebugOperation
    Fingerprints,  \* what fingerprint_request tells apart
    TTL,           \* ttl_seconds
    MaxClock,      \* bound: the clock stops here
    NoRecord       \* None, for a token that has no entry

ASSUME TTLAssumption == TTL \in Nat
ASSUME ClockAssumption == MaxClock \in Nat

VARIABLES
    records,   \* _records: token -> ConfirmationRecord, NoRecord if absent
    now,       \* _clock()
    issuedAs,  \* history: the record each token was issued with
    uses,      \* history: how often verify accepted each token
    lastUse,   \* history: what verify last accepted each token for, and when
    tried      \* history: the issued tokens some verify was called with

storeVars == <<records, now, issuedAs, uses, lastUse, tried>>

ConfirmationRecord ==
    [operation : Operations, fingerprint : Fingerprints, expires_at : Nat]

ASSUME NoRecordAssumption == NoRecord \notin ConfirmationRecord

Use == [operation : Operations, fingerprint : Fingerprints, at : Nat]

StoreInit ==
    /\ records = [t \in Tokens |-> NoRecord]
    /\ now = 0
    /\ issuedAs = [t \in Tokens |-> NoRecord]
    /\ uses = [t \in Tokens |-> 0]
    /\ lastUse = [t \in Tokens |-> NoRecord]
    /\ tried = {}

-----------------------------------------------------------------------------
Record(op, fp) ==
    [operation |-> op, fingerprint |-> fp, expires_at |-> now + TTL]

(* secrets.token_urlsafe never returns the same token twice. *)
Issue(tok, op, fp) ==
    /\ issuedAs[tok] = NoRecord
    /\ records' = [records EXCEPT ![tok] = Record(op, fp)]
    /\ issuedAs' = [issuedAs EXCEPT ![tok] = Record(op, fp)]
    /\ UNCHANGED <<now, uses, lastUse, tried>>

(* Slip: the deadline is not looked at. *)
NeverExpires(tok, op, fp) ==
    /\ records[tok] # NoRecord
    /\ records[tok].operation = op
    /\ records[tok].fingerprint = fp

(* Slip: the operation is not compared; two tools can share a request body. *)
AnyOperationMatches(tok, op, fp) ==
    /\ records[tok] # NoRecord
    /\ ~(records[tok].expires_at < now)
    /\ records[tok].fingerprint = fp

(* The checks verify makes on the record it has popped, in their order. *)
Matches(tok, op, fp) ==
    /\ records[tok] # NoRecord
    /\ ~(records[tok].expires_at < now)
    /\ records[tok].operation = op
    /\ records[tok].fingerprint = fp

(* Slip: the record is popped only once every check has passed. *)
LatePop(tok, ok) == IF ok THEN [records EXCEPT ![tok] = NoRecord] ELSE records

(* Slip: the record is looked up and never popped. *)
NoPop(tok, ok) == records

(* self._records.pop(token, None), whatever the outcome ok of the checks. *)
Popped(tok, ok) == [records EXCEPT ![tok] = NoRecord]

(* What a verify call adds to the history. *)
NoteVerify(tok, op, fp) ==
    LET ok == Matches(tok, op, fp)
        use == [operation |-> op, fingerprint |-> fp, at |-> now]
    IN  /\ uses' = [uses EXCEPT ![tok] = IF ok THEN @ + 1 ELSE @]
        /\ lastUse' = [lastUse EXCEPT ![tok] = IF ok THEN use ELSE @]
        /\ tried' = IF issuedAs[tok] = NoRecord THEN tried ELSE tried \cup {tok}

Verify(tok, op, fp) ==
    /\ records' = Popped(tok, Matches(tok, op, fp))
    /\ NoteVerify(tok, op, fp)
    /\ UNCHANGED <<now, issuedAs>>

(* A call whose token is accepted and which is asked to confirm again: the *)
(* old token is used up and a new one issued with nothing in between.      *)
VerifyThenIssue(tok, new, op, fp) ==
    /\ Matches(tok, op, fp)
    /\ issuedAs[new] = NoRecord
    /\ records' = [Popped(tok, TRUE) EXCEPT ![new] = Record(op, fp)]
    /\ issuedAs' = [issuedAs EXCEPT ![new] = Record(op, fp)]
    /\ NoteVerify(tok, op, fp)
    /\ UNCHANGED now

(* Wall-clock time passes between two calls. *)
Tick ==
    /\ now < MaxClock
    /\ now' = now + 1
    /\ UNCHANGED <<records, issuedAs, uses, lastUse, tried>>

(* A client may present any token, issued or not, with any request. *)
StoreNext ==
    \/ \E tok \in Tokens, op \in Operations, fp \in Fingerprints :
          \/ Issue(tok, op, fp)
          \/ Verify(tok, op, fp)
          \/ \E new \in Tokens : VerifyThenIssue(tok, new, op, fp)
    \/ Tick

StoreSpec == StoreInit /\ [][StoreNext]_storeVars

-----------------------------------------------------------------------------
(* The values the store's variables range over. *)
StoreTypeOK ==
    /\ records \in [Tokens -> ConfirmationRecord \cup {NoRecord}]
    /\ now \in Nat
    /\ issuedAs \in [Tokens -> ConfirmationRecord \cup {NoRecord}]
    /\ uses \in [Tokens -> Nat]
    /\ lastUse \in [Tokens -> Use \cup {NoRecord}]
    /\ tried \subseteq Tokens

(* confirmation.py:31: a token is one-time, it authorizes at most one call *)
(* however often and in whatever order clients present it.                 *)
SingleUse == \A t \in Tokens : uses[t] =< 1

(* confirmation.py:52 pops before it checks: once an issued token has been *)
(* presented it is out of the store for good, whether or not the attempt   *)
(* succeeded, so a failed guess of the request cannot be repeated.         *)
TriedIsGone == \A t \in tried : records[t] = NoRecord

(* confirmation.py:55-60: what a token was accepted for is the operation   *)
(* and the request it was issued for, before its deadline.                 *)
UsedAsIssued ==
    \A t \in Tokens : uses[t] > 0 =>
        /\ lastUse[t].operation = issuedAs[t].operation
        /\ lastUse[t].fingerprint = issuedAs[t].fingerprint
        /\ lastUse[t].at =< issuedAs[t].expires_at
=============================================================================
