----------------------------- MODULE TenantLock -----------------------------
(***************************************************************************)
(* The Tenant Lock of one active Tenant: a database-time lease that one    *)
(* exact Principal holds and that every ordinary write is authorized       *)
(* against (database/03_security.sql).                                     *)
(*                                                                         *)
(* A session is a database connection.  It begins a transaction, which     *)
(* fixes CURRENT_TIMESTAMP, and then issues one call.  The lock-management *)
(* functions are the only statement of their transaction, so they wait for *)
(* the Tenant row (FOR UPDATE) and then run and commit as one step.  An    *)
(* authorized write keeps the row locks of authorize_tenant_operation (FOR *)
(* SHARE of the Tenant row and of the tenant_lock row) until it commits,   *)
(* however long that takes; clock_timestamp() moves on meanwhile.          *)
(***************************************************************************)
EXTENDS Integers, Sequences

CONSTANTS
    Principals,   \* the Principals known to the database
    Sessions,     \* database connections
    Limited,      \* those of the web pool, which sets a lock_timeout; MCP's has none
    Durations,    \* lease durations a caller may request (1..240 minutes)
    Ranks,        \* effective role ranks: 0 none, 1 viewer, ... 4 tenant/super admin
    MaxWait,      \* lock_timeout: how long a limited call waits for one row lock
    MaxTime,      \* bound on the modelled clock
    MaxEvents,    \* bound on the audit log
    NoLock,       \* no tenant_lock row
    Idle          \* a session without a transaction

VARIABLES
    now,      \* clock_timestamp()
    rank,     \* effective role rank of each Principal in the Tenant
    lock,     \* the tenant_lock row, or NoLock
    events,   \* tenant_lock_event, in order of insertion
    session,  \* what each session is doing
    answer    \* the denial code of the last call answered, "ok" when granted

vars == <<now, rank, lock, events, session, answer>>

-----------------------------------------------------------------------------
(* Types. *)

LockRow == [owner : Principals, acquired : Nat, expires : Nat, purpose : BOOLEAN]

EventTypes == {"acquired", "renewed", "released", "force_unlocked", "expired"}
EndTypes   == {"released", "force_unlocked", "expired"}

\* The system, not a Principal, records an expiry: lock_acted_by is NULL.
System == "system"

LockEvent == [type : EventTypes, owner : Principals, actor : Principals \cup {System},
              acquired : Nat, expires : Nat]

\* A begun transaction has taken no row lock yet; a writing one holds its own.
Transaction == [state : {"begun", "writing"}, principal : Principals, start : Nat]

\* Denial codes, and the two database errors a caller sees as unavailability.
Answers == {"ok", "authorization_denied", "tenant_locked", "tenant_lock_required",
            "unique_violation", "lock_timeout"}

ASSUME ConstantsAssumption ==
    /\ Durations \subseteq Nat \ {0}
    /\ Ranks \subseteq 0..4
    /\ Limited \subseteq Sessions
    /\ MaxWait \in Nat /\ MaxTime \in Nat /\ MaxEvents \in Nat
    /\ NoLock \notin LockRow \cup Principals
    /\ Idle \notin Transaction

\* Every variable has its type: rows satisfy the NOT NULL and CHECK constraints
\* on types, codes are the documented ones.
TypeOK ==
    /\ now \in Nat
    /\ rank \in [Principals -> Ranks]
    /\ lock \in LockRow \cup {NoLock}
    /\ events \in Seq(LockEvent)
    /\ session \in [Sessions -> Transaction \cup {Idle}]
    /\ answer \in Answers

-----------------------------------------------------------------------------
(* Policies and state formulae. *)

\* v_required_role_rank of the policies that concern the lock.
LockManageRank  == 2
WriteRanks      == {2, 3}   \* tenant_metadata_write, tenant_project_write

Begun(s)   == session[s] # Idle /\ session[s].state = "begun"
Writing(s) == session[s] # Idle /\ session[s].state = "writing"
Caller(s)  == session[s].principal

LockLive    == lock # NoLock /\ lock.expires > now
\* Mutant: the sweep runs ahead of the lease by one unit.
LockExpiredEarly == lock # NoLock /\ lock.expires <= now + 1
LockExpired == lock # NoLock /\ lock.expires <= now

\* The sessions whose open transaction shares the Tenant row, which a
\* lock-management call needs FOR UPDATE.
TenantRowSharers == {s \in Sessions : Writing(s)}

\* Mutant: the authorization reads the rows without FOR SHARE.
NoSharers == {}

\* The sessions whose open transaction shares the tenant_lock row.
LockRowSharers == {s \in Sessions : Writing(s)}

Event(type, row, actor) ==
    [type |-> type, owner |-> row.owner, actor |-> actor,
     acquired |-> row.acquired, expires |-> row.expires]

\* Mutants: the interval is subtracted; the renewal adds to the running lease.
LeaseBackwards(s, d, purpose) ==
    [owner |-> Caller(s), acquired |-> session[s].start,
     expires |-> session[s].start - d, purpose |-> purpose]
LeaseStacked(s, d, purpose) ==
    [owner |-> Caller(s), acquired |-> session[s].start,
     expires |-> d + (IF lock = NoLock THEN session[s].start ELSE lock.expires),
     purpose |-> purpose]

\* CURRENT_TIMESTAMP is the start of the transaction, before any wait.
LeaseFrom(s, d, purpose) ==
    [owner |-> Caller(s), acquired |-> session[s].start,
     expires |-> session[s].start + d, purpose |-> purpose]

\* A plpgsql record IS NOT NULL only when every one of its fields is not NULL:
\* a live row whose purpose is NULL does not count as an existing lock here.
ExistingLockIsNotNull == LockLive /\ lock.purpose

Answer(s, code) ==
    /\ answer' = code
    /\ session' = [session EXCEPT ![s] = Idle]
    /\ UNCHANGED <<now, rank>>

\* The model grants no further lease once the audit log has reached its bound.
RoomToGrant == Len(events) < MaxEvents

\* Mutant: the expired row is deleted without its event.
RemoveUnrecorded == lock' = NoLock /\ UNCHANGED events

\* The row is past its lease: record the expiry and delete it.
RemoveExpired ==
    /\ events' = Append(events, Event("expired", lock, System))
    /\ lock' = NoLock

-----------------------------------------------------------------------------
Init ==
    /\ now = 0
    /\ rank \in [Principals -> Ranks]
    /\ lock = NoLock
    /\ events = <<>>
    /\ session = [s \in Sessions |-> Idle]
    /\ answer = "ok"

Begin(s, p) ==
    /\ session[s] = Idle
    /\ session' = [session EXCEPT ![s] =
                    [state |-> "begun", principal |-> p, start |-> now]]
    /\ UNCHANGED <<now, rank, lock, events, answer>>

\* The Tenant row and then the lock row FOR UPDATE, however long they were waited
\* for: the MCP server bounds no wait, and lock_timeout counts for each lock anew.
HasRows(s) ==
    /\ Begun(s)
    /\ TenantRowSharers = {} /\ LockRowSharers = {}

MayManage(s) == rank[Caller(s)] >= LockManageRank

DenyManage(s) ==
    /\ HasRows(s)
    /\ ~MayManage(s)
    /\ Answer(s, "authorization_denied")
    /\ UNCHANGED <<lock, events>>

\* The row the acquire inserts, after removing an expired one.
InsertLock(s, d, purpose) ==
    LET row  == LeaseFrom(s, d, purpose)
        gone == IF LockExpired THEN <<Event("expired", lock, System)>> ELSE <<>>
    IN  /\ lock' = row
        /\ events' = events \o gone \o <<Event("acquired", row, Caller(s))>>

Acquire(s, d, purpose) ==
    /\ HasRows(s)
    /\ MayManage(s)
    /\ \/ /\ ExistingLockIsNotNull
          /\ Answer(s, "tenant_locked")
          /\ UNCHANGED <<lock, events>>
       \/ /\ LockLive /\ ~ExistingLockIsNotNull   \* the INSERT meets uq_tenant_lock_tenant
          /\ Answer(s, "unique_violation")
          /\ UNCHANGED <<lock, events>>
       \/ /\ ~LockLive /\ RoomToGrant
          /\ Answer(s, "ok")
          /\ InsertLock(s, d, purpose)

\* Renew and release share their refusals: no row, a row past its lease
\* (recorded and removed on the way), a row of another Principal.
OwnerRefused(s) ==
    \/ /\ lock = NoLock
       /\ Answer(s, "tenant_lock_required")
       /\ UNCHANGED <<lock, events>>
    \/ /\ LockExpired
       /\ Answer(s, "tenant_lock_required")
       /\ RemoveExpired
    \/ /\ LockLive /\ lock.owner # Caller(s)
       /\ Answer(s, "tenant_locked")
       /\ UNCHANGED <<lock, events>>

Renew(s, d) ==
    /\ HasRows(s)
    /\ MayManage(s)
    /\ \/ OwnerRefused(s)
       \/ /\ LockLive /\ lock.owner = Caller(s) /\ RoomToGrant
          /\ lock' = LeaseFrom(s, d, lock.purpose)
          /\ events' = Append(events, Event("renewed", lock', Caller(s)))
          /\ Answer(s, "ok")

Release(s) ==
    /\ HasRows(s)
    /\ MayManage(s)
    /\ \/ OwnerRefused(s)
       \/ /\ LockLive /\ lock.owner = Caller(s)
          /\ lock' = NoLock
          /\ events' = Append(events, Event("released", lock, Caller(s)))
          /\ Answer(s, "ok")

Override(s) ==
    /\ HasRows(s)
    /\ MayManage(s)
    /\ \/ /\ lock = NoLock
          /\ Answer(s, "tenant_lock_required")
          /\ UNCHANGED <<lock, events>>
       \/ /\ LockExpired
          /\ Answer(s, "tenant_lock_required")
          /\ RemoveExpired
       \/ /\ LockLive /\ lock.owner = Caller(s)
          /\ Answer(s, "tenant_locked")
          /\ UNCHANGED <<lock, events>>
       \/ /\ LockLive /\ lock.owner # Caller(s)
          /\ lock' = NoLock
          /\ events' = Append(events, Event("force_unlocked", lock, Caller(s)))
          /\ Answer(s, "ok")

\* check_tenant_lock reads the row and reports an expired one as unlocked.
Check(s) ==
    /\ Begun(s)
    /\ Answer(s, IF MayManage(s) THEN "ok" ELSE "authorization_denied")
    /\ UNCHANGED <<lock, events>>

\* lock_timeout ends a wait for a row lock, which began no sooner than the
\* transaction did.
TimeOut(s) ==
    /\ Begun(s) /\ s \in Limited
    /\ TenantRowSharers # {}
    /\ now - session[s].start >= MaxWait
    /\ Answer(s, "lock_timeout")
    /\ UNCHANGED <<lock, events>>

-----------------------------------------------------------------------------
(* Writes authorized against the lock. *)

\* Mutants: the lease time, or the owner, is not compared.
WriteDenialStale(s, required) ==
    IF rank[Caller(s)] < required THEN "authorization_denied"
    ELSE IF lock = NoLock THEN "tenant_lock_required"
    ELSE IF lock.owner # Caller(s) THEN "tenant_locked"
    ELSE "ok"
WriteDenialAnyone(s, required) ==
    IF rank[Caller(s)] < required THEN "authorization_denied"
    ELSE IF ~LockLive THEN "tenant_lock_required" ELSE "ok"

\* What authorize_tenant_operation demands of a write of the given rank.
WriteDenial(s, required) ==
    IF rank[Caller(s)] < required THEN "authorization_denied"
    ELSE IF ~LockLive THEN "tenant_lock_required"
    ELSE IF lock.owner # Caller(s) THEN "tenant_locked"
    ELSE "ok"

AuthorizeWrite(s, required) ==
    /\ Begun(s)
    /\ LET code == WriteDenial(s, required) IN
         /\ answer' = code
         /\ session' = [session EXCEPT ![s] =
                          IF code = "ok" THEN [@ EXCEPT !.state = "writing"] ELSE Idle]
    /\ UNCHANGED <<now, rank, lock, events>>

\* Commit or roll back: the row locks of the transaction go.
EndWrite(s) ==
    /\ Writing(s)
    /\ session' = [session EXCEPT ![s] = Idle]
    /\ UNCHANGED <<now, rank, lock, events, answer>>

-----------------------------------------------------------------------------
(* The environment. *)

\* The expiry worker skips a row that another transaction has locked.
ExpireTenantLocks ==
    /\ LockExpired
    /\ LockRowSharers = {}
    /\ RemoveExpired
    /\ UNCHANGED <<now, rank, session, answer>>

\* A grant is changed by an administrator, which waits for the access row a
\* writer shares, or lapses with time (to at most viewer), which does not.
ChangeAccess(p, r) ==
    /\ r # rank[p]
    /\ r <= 1 \/ \A s \in Sessions : Writing(s) => Caller(s) # p
    /\ rank' = [rank EXCEPT ![p] = r]
    /\ UNCHANGED <<now, lock, events, session, answer>>

Tick ==
    /\ now < MaxTime
    /\ now' = now + 1
    /\ UNCHANGED <<rank, lock, events, session, answer>>

Manage(s) ==
    \/ \E d \in Durations, purpose \in BOOLEAN : Acquire(s, d, purpose)
    \/ \E d \in Durations : Renew(s, d)
    \/ Release(s)
    \/ Override(s)
    \/ DenyManage(s)

Next ==
    \/ \E s \in Sessions, p \in Principals : Begin(s, p)
    \/ \E s \in Sessions : Manage(s) \/ Check(s) \/ TimeOut(s) \/ EndWrite(s)
    \/ \E s \in Sessions, required \in WriteRanks : AuthorizeWrite(s, required)
    \/ \E p \in Principals, r \in Ranks : ChangeAccess(p, r)
    \/ ExpireTenantLocks
    \/ Tick

Spec == Init /\ [][Next]_vars

\* The MCP server runs the expiry worker every minute for as long as it is up,
\* and idle_in_transaction_session_timeout ends a write its client abandons.
FairSpec ==
    /\ Spec
    /\ WF_vars(ExpireTenantLocks)
    /\ \A s \in Sessions : WF_vars(EndWrite(s))

-----------------------------------------------------------------------------
(* Properties. *)

\* While a transaction authorized to write is open, the tenant_lock row stays
\* with its Principal: no override, release, expiry sweep or acquire by anyone
\* slips in between the authorization and the commit, not even once the lease
\* has run out (FOR SHARE of tenant and tenant_lock in authorize_tenant_operation).
WriterHoldsLock ==
    \A s \in Sessions : Writing(s) => lock # NoLock /\ lock.owner = Caller(s)

\* The audit log reads as alternating leases: an acquisition follows nothing or
\* an end, everything else continues the lease before it under the same owner,
\* and an end repeats the interval it ends (every INSERT INTO tenant_lock_event).
AuditChain ==
    \A i \in 1..Len(events) :
        IF i = 1 \/ events[i-1].type \in EndTypes
        THEN events[i].type = "acquired"
        ELSE /\ events[i].type # "acquired"
             /\ events[i].owner = events[i-1].owner
             /\ events[i].type \in EndTypes =>
                   /\ events[i].acquired = events[i-1].acquired
                   /\ events[i].expires = events[i-1].expires

\* The last event of the audit log always tells the lock row: none after an
\* end, the very same owner and interval after an acquisition or a renewal.
AuditTellsLock ==
    IF events = <<>> \/ events[Len(events)].type \in EndTypes
    THEN lock = NoLock
    ELSE /\ lock # NoLock
         /\ LET e == events[Len(events)] IN
              /\ lock.owner = e.owner
              /\ lock.acquired = e.acquired /\ lock.expires = e.expires

\* The audit log is a true account of the lock, past and present.
AuditTrail == AuditChain /\ AuditTellsLock

\* A lease that has not run out changes only by a renewal or a release of its
\* owner or by an override of another Principal who may manage locks; an
\* override leaves the Tenant unlocked instead of handing the lock over.
LiveLeaseProtected ==
    [][LockLive /\ lock' # lock =>
         LET e == events'[Len(events')] IN
           \/ e.type = "renewed" /\ e.actor = lock.owner /\ lock' # NoLock
           \/ e.type = "released" /\ e.actor = lock.owner /\ lock' = NoLock
           \/ /\ e.type = "force_unlocked" /\ lock' = NoLock
              /\ e.actor # lock.owner /\ rank[e.actor] >= LockManageRank]_vars

\* A granted lease is one requested duration from a moment that has passed: it
\* never ends later than that duration from now, however often it was renewed
\* and however long the call waited.  The wait is the caller's loss: a lease
\* counts from the CURRENT_TIMESTAMP before it, and may be over when granted.
LeaseBounded ==
    [][lock' \notin {lock, NoLock} =>
         \E d \in Durations : /\ lock'.expires = lock'.acquired + d
                              /\ lock'.expires <= now + d]_vars

\* The expiry worker is not starved by writers it skips: a lock row past its
\* lease is eventually removed or replaced, since no new write is authorized
\* against it (expire_tenant_locks, FOR UPDATE SKIP LOCKED).
ExpiredLockSwept == LockExpired ~> ~LockExpired

\* No lock call ends in a constraint violation: an acquire against a live lock
\* is denied with tenant_locked whatever the purpose of that lock, as the tests
\* of acquire_tenant_lock say of a lock with a purpose.
ConflictIsDenied == answer # "unique_violation"

-----------------------------------------------------------------------------
(* The promise to writers: the holder changes only while nobody writes. *)

Holder   == IF lock = NoLock THEN NoLock ELSE lock.owner
WriterOf == [s \in Sessions |-> IF Writing(s) THEN Caller(s) ELSE NoLock]

Fence == INSTANCE WriteFence WITH
    Nobody <- NoLock, holder <- Holder, writer <- WriterOf

\* The Tenant Lock implements the write fence.
ImplementsWriteFence == Fence!Spec
=============================================================================
