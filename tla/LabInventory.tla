---------------------------- MODULE LabInventory ----------------------------
(***************************************************************************)
(* The target inventory of lab/inventory.py: leases on targets that run    *)
(* out on their own, and are released by the id acquire has returned.  An  *)
(* owner whose lease ran out is not told, and may release it late.  The    *)
(* clock (datetime.now) is assumed not to be set back.                     *)
(*                                                                         *)
(* "lease" is history: the code forgets a lease it deletes or replaces.    *)
(***************************************************************************)
EXTENDS Integers, FiniteSets

CONSTANTS
    Targets,    \* the targets that may be configured
    Owners,     \* who acquires them
    LockIds,    \* bound: the lock ids uuid4 ever draws
    TTLs,       \* the ttl_seconds owners ask for
    LastSecond, \* bound: the clock stops here
    NoLock

ASSUME InventoryAssumption ==
    /\ NoLock \notin LockIds
    /\ TTLs \subseteq Int
    /\ LastSecond \in Nat

VARIABLES
    targets,   \* _targets
    locks,     \* _locks: target -> the id of its lease
    lease,     \* history: lock id -> the lease granted under it
    released,  \* history: the leases their owners gave back
    second     \* the wall clock

labVars == <<targets, locks, lease, released, second>>

TargetLock == [target : Targets, owner : Owners, expires_at : Int]

Granted == DOMAIN lease

LabInit ==
    /\ targets \in SUBSET Targets
    /\ locks = [t \in Targets |-> NoLock]
    /\ lease = [l \in {} |-> NoLock]
    /\ released = {}
    /\ second = 0

Add(t) ==
    /\ t \notin targets
    /\ targets' = targets \cup {t}
    /\ UNCHANGED <<locks, lease, released, second>>

expired(l) == second >= lease[l].expires_at

(* Slip: a lease is replaced a second before it runs out. *)
FreeEarly(t) == \A l \in Granted : locks[t] = l => second + 1 >= lease[l].expires_at

(* Targets nobody holds; asking for another one raises. *)
Free(t) == \A l \in Granted : locks[t] = l => expired(l)

Deadline(ttl) == second + ttl

(* The new lease replaces an expired one in the table. *)
Acquire(t, owner, ttl) ==
    /\ t \in targets /\ Free(t)
    /\ \E l \in LockIds \ Granted :
          /\ locks' = [locks EXCEPT ![t] = l]
          /\ lease' = [k \in Granted \cup {l} |->
                IF k = l THEN [target |-> t, owner |-> owner,
                               expires_at |-> Deadline(ttl)]
                ELSE lease[k]]
    /\ UNCHANGED <<targets, released, second>>

(* Slip: whatever lease the target has now is deleted. *)
DeletedByTarget(l) == [locks EXCEPT ![lease[l].target] = NoLock]

(* The entry with this id, if the table still has one; else KeyError. *)
Deleted(l) == [t \in Targets |-> IF locks[t] = l THEN NoLock ELSE locks[t]]

Release(l) ==
    /\ l \in Granted
    /\ locks' = Deleted(l)
    /\ released' = released \cup {l}
    /\ UNCHANGED <<targets, lease, second>>

LabTick ==
    /\ second < LastSecond
    /\ second' = second + 1
    /\ UNCHANGED <<targets, locks, lease, released>>

LabNext ==
    \/ \E t \in Targets :
          \/ Add(t)
          \/ \E owner \in Owners, ttl \in TTLs : Acquire(t, owner, ttl)
    \/ \E l \in LockIds : Release(l)
    \/ LabTick

LabSpec == LabInit /\ [][LabNext]_labVars

-----------------------------------------------------------------------------
Live == {l \in Granted \ released : ~expired(l)}

(* The values the inventory's variables range over. *)
LabTypeOK ==
    /\ targets \subseteq Targets
    /\ locks \in [Targets -> LockIds \cup {NoLock}]
    /\ Granted \subseteq LockIds /\ lease \in [Granted -> TargetLock]
    /\ released \subseteq Granted
    /\ second \in Nat
    /\ \A t \in Targets : locks[t] # NoLock =>
          locks[t] \in Granted /\ lease[locks[t]].target = t

(* inventory.py:56: a target never has two owners whose leases both run.   *)
OneLiveOwner ==
    \A l, m \in Live : lease[l].target = lease[m].target => l = m

(* inventory.py:75: as long as a lease runs, nobody but its owner can make *)
(* the target forget it: not another acquire, and not the late release of  *)
(* the lease before it.                                                    *)
LiveLeaseIsListed == \A l \in Live : locks[lease[l].target] = l
=============================================================================
