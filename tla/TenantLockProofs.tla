-------------------------- MODULE TenantLockProofs --------------------------
(***************************************************************************)
(* For any Principals, sessions, durations and bounds: the types, the      *)
(* exclusion of writers by the lock, and the implementation of WriteFence. *)
(***************************************************************************)
EXTENDS TenantLock, TLAPS

USE ConstantsAssumption

\* An answered call leaves the types of the clock, the roles, the sessions and
\* the answer intact.
LEMMA AnswerTypes ==
    ASSUME TypeOK, NEW s \in Sessions, NEW code \in Answers, Answer(s, code)
    PROVE  /\ now' \in Nat
           /\ rank' \in [Principals -> Ranks]
           /\ session' \in [Sessions -> Transaction \cup {Idle}]
           /\ answer' \in Answers
  BY DEF TypeOK, Answer

\* A session with a transaction has a record in its slot.
LEMMA BegunTransaction ==
    ASSUME TypeOK, NEW s \in Sessions, Begun(s)
    PROVE  /\ session[s] \in Transaction
           /\ Caller(s) \in Principals
           /\ session[s].start \in Nat
  BY DEF TypeOK, Begun, Caller, Transaction

\* A lease computed from the start of a transaction is a lock row.
LEMMA LeaseIsRow ==
    ASSUME TypeOK, NEW s \in Sessions, Begun(s),
           NEW d \in Durations, NEW purpose \in BOOLEAN
    PROVE  LeaseFrom(s, d, purpose) \in LockRow
  BY BegunTransaction DEF LeaseFrom, LockRow

\* An event about a lock row is an event.
LEMMA EventIsEvent ==
    ASSUME NEW type \in EventTypes, NEW row \in LockRow,
           NEW actor \in Principals \cup {System}
    PROVE  Event(type, row, actor) \in LockEvent
  BY DEF Event, LockEvent, LockRow

\* Removing a row past its lease keeps the types of the row and of the log.
LEMMA RemoveExpiredTypes ==
    ASSUME TypeOK, lock # NoLock, RemoveExpired
    PROVE  lock' \in LockRow \cup {NoLock} /\ events' \in Seq(LockEvent)
  <1>1. Event("expired", lock, System) \in LockEvent
    BY EventIsEvent DEF TypeOK, EventTypes
  <1>2. QED
    BY <1>1 DEF TypeOK, RemoveExpired

\* The log with one more event about a lock row is a log.
LEMMA AppendTypes ==
    ASSUME TypeOK, NEW type \in EventTypes, NEW row \in LockRow,
           NEW actor \in Principals \cup {System}
    PROVE  Append(events, Event(type, row, actor)) \in Seq(LockEvent)
  BY EventIsEvent DEF TypeOK

\* Each lock-management call keeps the types of the row and of the log, and
\* answers one of the codes.
LEMMA AcquireTypes ==
    ASSUME TypeOK, NEW s \in Sessions, NEW d \in Durations,
           NEW purpose \in BOOLEAN, Acquire(s, d, purpose)
    PROVE  TypeOK'
  <1>1. Begun(s)
    BY DEF Acquire, HasRows
  <1>2. \E code \in Answers : Answer(s, code)
    BY DEF Acquire, Answers
  <1>3. CASE ~LockLive /\ InsertLock(s, d, purpose)
    <2> DEFINE row  == LeaseFrom(s, d, purpose)
    <2> DEFINE gone == IF LockExpired THEN <<Event("expired", lock, System)>> ELSE <<>>
    <2>1. row \in LockRow
      BY <1>1, LeaseIsRow
    <2>2. gone \in Seq(LockEvent)
      <3>1. CASE LockExpired
        <4>1. Event("expired", lock, System) \in LockEvent
          BY <3>1, EventIsEvent DEF TypeOK, LockExpired, EventTypes
        <4>2. QED
          BY <3>1, <4>1
      <3>2. CASE ~LockExpired
        BY <3>2
      <3>3. QED
        BY <3>1, <3>2
    <2>3. <<Event("acquired", row, Caller(s))>> \in Seq(LockEvent)
      <3>1. Event("acquired", row, Caller(s)) \in LockEvent
        BY <2>1, <1>1, BegunTransaction, EventIsEvent DEF EventTypes
      <3>2. QED
        BY <3>1
    <2>4. lock' = row /\ events' = events \o gone \o <<Event("acquired", row, Caller(s))>>
      BY <1>3 DEF InsertLock
    <2>5. events' \in Seq(LockEvent)
      <3> HIDE DEF gone, row
      <3>1. events \in Seq(LockEvent)
        BY DEF TypeOK
      <3>2. events \o gone \in Seq(LockEvent)
        BY <3>1, <2>2
      <3>3. QED
        BY <3>2, <2>3, <2>4
    <2>6. QED
      BY <1>2, <2>1, <2>4, <2>5, AnswerTypes DEF TypeOK
  <1>4. CASE UNCHANGED <<lock, events>>
    BY <1>2, <1>4, AnswerTypes DEF TypeOK
  <1>5. QED
    BY <1>3, <1>4 DEF Acquire

\* The refusals that renew and release share keep the types.
LEMMA RefusalTypes ==
    ASSUME TypeOK, NEW s \in Sessions, OwnerRefused(s)
    PROVE  TypeOK'
  <1>1. \E code \in Answers : Answer(s, code)
    BY DEF OwnerRefused, Answers
  <1>2. CASE LockExpired /\ RemoveExpired
    BY <1>1, <1>2, AnswerTypes, RemoveExpiredTypes DEF TypeOK, LockExpired
  <1>3. CASE UNCHANGED <<lock, events>>
    BY <1>1, <1>3, AnswerTypes DEF TypeOK
  <1>4. QED
    BY <1>2, <1>3 DEF OwnerRefused

\* renew_tenant_lock keeps the types.
LEMMA RenewTypes ==
    ASSUME TypeOK, NEW s \in Sessions, NEW d \in Durations, Renew(s, d)
    PROVE  TypeOK'
  <1>1. Begun(s)
    BY DEF Renew, HasRows
  <1>2. CASE OwnerRefused(s)
    BY <1>2, RefusalTypes
  <1>3. CASE /\ LockLive
             /\ lock' = LeaseFrom(s, d, lock.purpose)
             /\ events' = Append(events, Event("renewed", lock', Caller(s)))
             /\ Answer(s, "ok")
    <2>1. lock.purpose \in BOOLEAN
      BY <1>3 DEF TypeOK, LockLive, LockRow
    <2>2. lock' \in LockRow
      BY <1>1, <1>3, <2>1, LeaseIsRow
    <2>3. events' \in Seq(LockEvent)
      BY <1>1, <1>3, <2>2, BegunTransaction, AppendTypes DEF EventTypes
    <2>4. "ok" \in Answers
      BY DEF Answers
    <2>5. QED
      BY <1>3, <2>2, <2>3, <2>4, AnswerTypes DEF TypeOK
  <1>4. QED
    BY <1>2, <1>3 DEF Renew

\* release_tenant_lock keeps the types.
LEMMA ReleaseTypes ==
    ASSUME TypeOK, NEW s \in Sessions, Release(s)
    PROVE  TypeOK'
  <1>1. Begun(s)
    BY DEF Release, HasRows
  <1>2. CASE OwnerRefused(s)
    BY <1>2, RefusalTypes
  <1>3. CASE /\ LockLive
             /\ lock' = NoLock
             /\ events' = Append(events, Event("released", lock, Caller(s)))
             /\ Answer(s, "ok")
    <2>1. lock \in LockRow
      BY <1>3 DEF TypeOK, LockLive
    <2>2. events' \in Seq(LockEvent)
      BY <1>1, <1>3, <2>1, BegunTransaction, AppendTypes DEF EventTypes
    <2>3. "ok" \in Answers
      BY DEF Answers
    <2>4. QED
      BY <1>3, <2>2, <2>3, AnswerTypes DEF TypeOK
  <1>4. QED
    BY <1>2, <1>3 DEF Release

\* override_tenant_lock keeps the types.
LEMMA OverrideTypes ==
    ASSUME TypeOK, NEW s \in Sessions, Override(s)
    PROVE  TypeOK'
  <1>1. Begun(s)
    BY DEF Override, HasRows
  <1>2. \E code \in Answers : Answer(s, code)
    BY DEF Override, Answers
  <1>3. CASE UNCHANGED <<lock, events>>
    BY <1>2, <1>3, AnswerTypes DEF TypeOK
  <1>4. CASE LockExpired /\ RemoveExpired
    BY <1>2, <1>4, AnswerTypes, RemoveExpiredTypes DEF TypeOK, LockExpired
  <1>5. CASE /\ LockLive
             /\ lock' = NoLock
             /\ events' = Append(events, Event("force_unlocked", lock, Caller(s)))
    <2>1. lock \in LockRow
      BY <1>5 DEF TypeOK, LockLive
    <2>2. events' \in Seq(LockEvent)
      BY <1>1, <1>5, <2>1, BegunTransaction, AppendTypes DEF EventTypes
    <2>3. QED
      BY <1>2, <1>5, <2>2, AnswerTypes DEF TypeOK
  <1>6. QED
    BY <1>3, <1>4, <1>5 DEF Override

-----------------------------------------------------------------------------
\* Every behaviour is well typed: tenant_lock, tenant_lock_event, the sessions
\* and the answers of 03_security.sql hold what their columns allow.
THEOREM TypeCorrect == Spec => []TypeOK
  <1>1. Init => TypeOK
    BY DEF Init, TypeOK, Answers
  <1>2. TypeOK /\ [Next]_vars => TypeOK'
    <2> SUFFICES ASSUME TypeOK, [Next]_vars PROVE TypeOK'
      OBVIOUS
    <2>1. ASSUME NEW s \in Sessions, NEW p \in Principals, Begin(s, p) PROVE TypeOK'
      BY <2>1 DEF Begin, TypeOK, Transaction
    <2>2. ASSUME NEW s \in Sessions, Manage(s) PROVE TypeOK'
      <3>1. ASSUME DenyManage(s) PROVE TypeOK'
        BY <3>1, AnswerTypes DEF DenyManage, TypeOK, Answers
      <3>2. QED
        BY <2>2, <3>1, AcquireTypes, RenewTypes, ReleaseTypes, OverrideTypes DEF Manage
    <2>3. ASSUME NEW s \in Sessions, Check(s) \/ TimeOut(s) PROVE TypeOK'
      <3>1. \E code \in Answers : Answer(s, code)
        BY <2>3 DEF Check, TimeOut, Answers
      <3>2. UNCHANGED <<lock, events>>
        BY <2>3 DEF Check, TimeOut
      <3>3. QED
        BY <3>1, <3>2, AnswerTypes DEF TypeOK
    <2>4. ASSUME NEW s \in Sessions, EndWrite(s) PROVE TypeOK'
      BY <2>4 DEF EndWrite, TypeOK
    <2>5. ASSUME NEW s \in Sessions, NEW required \in WriteRanks,
                 AuthorizeWrite(s, required)
          PROVE  TypeOK'
      <3>1. session[s] \in Transaction
        BY <2>5, BegunTransaction DEF AuthorizeWrite
      <3>2. [session[s] EXCEPT !.state = "writing"] \in Transaction
        BY <3>1 DEF Transaction
      <3>3. WriteDenial(s, required) \in Answers
        BY DEF WriteDenial, Answers
      <3>4. QED
        BY <2>5, <3>2, <3>3 DEF AuthorizeWrite, TypeOK
    <2>6. ASSUME NEW p \in Principals, NEW r \in Ranks, ChangeAccess(p, r) PROVE TypeOK'
      BY <2>6 DEF ChangeAccess, TypeOK
    <2>7. ASSUME ExpireTenantLocks PROVE TypeOK'
      BY <2>7, RemoveExpiredTypes DEF ExpireTenantLocks, LockExpired, TypeOK
    <2>8. ASSUME Tick PROVE TypeOK'
      BY <2>8 DEF Tick, TypeOK
    <2>9. CASE UNCHANGED vars
      BY <2>9 DEF vars, TypeOK
    <2>10. QED
      BY <2>1, <2>2, <2>3, <2>4, <2>5, <2>6, <2>7, <2>8, <2>9 DEF Next
  <1>3. QED
    BY <1>1, <1>2, PTL DEF Spec

-----------------------------------------------------------------------------
(* The exclusion of writers. *)

\* A lock-management call that changes the row runs while nobody writes, and
\* nobody writes afterwards.
LEMMA ManageExcludesWriters ==
    ASSUME TypeOK, NEW s \in Sessions, Manage(s)
    PROVE  \A t \in Sessions : ~Writing(t) /\ ~Writing(t)'
  <1>1. HasRows(s)
    BY DEF Manage, Acquire, Renew, Release, Override, DenyManage
  <1>2. \A t \in Sessions : ~Writing(t)
    BY <1>1 DEF HasRows, TenantRowSharers
  <1>3. session' = [session EXCEPT ![s] = Idle]
    BY DEF Manage, Acquire, Renew, Release, Override, DenyManage, OwnerRefused, Answer
  <1>4. QED
    BY <1>2, <1>3 DEF Writing, TypeOK

\* An answer ends the transaction of its session and starts no writing.
LEMMA AnswerEndsTransaction ==
    ASSUME TypeOK, NEW s \in Sessions, NEW code, Answer(s, code)
    PROVE  \A t \in Sessions : Writing(t)' => Writing(t) /\ Caller(t)' = Caller(t)
  BY DEF Answer, Writing, Caller, TypeOK

\* WriterHoldsLock is inductive relative to the types.
LEMMA WriterHoldsLockStep ==
    ASSUME TypeOK, WriterHoldsLock, [Next]_vars
    PROVE  WriterHoldsLock'
  <1>1. ASSUME NEW s \in Sessions, NEW p \in Principals, Begin(s, p)
        PROVE  WriterHoldsLock'
    BY <1>1 DEF Begin, WriterHoldsLock, Writing, Caller, TypeOK
  <1>2. ASSUME NEW s \in Sessions, Manage(s) PROVE WriterHoldsLock'
    BY <1>2, ManageExcludesWriters DEF WriterHoldsLock
  <1>3. ASSUME NEW s \in Sessions, Check(s) \/ TimeOut(s) PROVE WriterHoldsLock'
    <2>1. \E code : Answer(s, code)
      BY <1>3 DEF Check, TimeOut
    <2>2. UNCHANGED lock
      BY <1>3 DEF Check, TimeOut
    <2>3. QED
      BY <2>1, <2>2, AnswerEndsTransaction DEF WriterHoldsLock
  <1>4. ASSUME NEW s \in Sessions, EndWrite(s) PROVE WriterHoldsLock'
    BY <1>4 DEF EndWrite, WriterHoldsLock, Writing, Caller, TypeOK
  <1>5. ASSUME NEW s \in Sessions, NEW required \in WriteRanks,
               AuthorizeWrite(s, required)
        PROVE  WriterHoldsLock'
    <2>1. CASE WriteDenial(s, required) = "ok"
      <3>1. lock # NoLock /\ lock.owner = Caller(s)
        BY <2>1 DEF WriteDenial, LockLive
      <3>2. session' = [session EXCEPT ![s] = [session[s] EXCEPT !.state = "writing"]]
        BY <1>5, <2>1 DEF AuthorizeWrite
      <3>3. Caller(s)' = Caller(s)
        BY <1>5, <3>2, BegunTransaction DEF AuthorizeWrite, Caller, Transaction, TypeOK
      <3>4. UNCHANGED lock
        BY <1>5 DEF AuthorizeWrite
      <3>5. \A t \in Sessions \ {s} : session'[t] = session[t]
        BY <3>2 DEF TypeOK
      <3>6. QED
        BY <3>1, <3>3, <3>4, <3>5 DEF WriterHoldsLock, Writing, Caller
    <2>2. CASE WriteDenial(s, required) # "ok"
      BY <1>5, <2>2 DEF AuthorizeWrite, WriterHoldsLock, Writing, Caller, TypeOK
    <2>3. QED
      BY <2>1, <2>2
  <1>6. ASSUME ExpireTenantLocks PROVE WriterHoldsLock'
    BY <1>6 DEF ExpireTenantLocks, LockRowSharers, WriterHoldsLock, Writing, Caller
  <1>7. ASSUME UNCHANGED <<lock, session>> PROVE WriterHoldsLock'
    BY <1>7 DEF WriterHoldsLock, Writing, Caller
  <1>8. QED
    BY <1>1, <1>2, <1>3, <1>4, <1>5, <1>6, <1>7 DEF Next, ChangeAccess, Tick, vars

\* Writers and the lock row: authorize_tenant_operation's FOR SHARE keeps the
\* row of the writing Principal in place until its transaction ends.
THEOREM WriterExclusion == Spec => []WriterHoldsLock
  <1>1. Init => WriterHoldsLock
    BY DEF Init, WriterHoldsLock, Writing
  <1>2. QED
    BY <1>1, WriterHoldsLockStep, TypeCorrect, PTL DEF Spec

-----------------------------------------------------------------------------
(* The write fence. *)

\* A step after which nobody writes, as nobody wrote before it, maps to a change
\* of holder.
LEMMA QuietStep ==
    ASSUME TypeOK', \A t \in Sessions : ~Writing(t) /\ ~Writing(t)'
    PROVE  Fence!Change
  <1>1. \A t \in Sessions : WriterOf[t] = NoLock
    BY DEF WriterOf
  <1>2. Holder' \in Principals \cup {NoLock}
    BY DEF Holder, TypeOK, LockRow
  <1>3. WriterOf' = WriterOf
    BY DEF WriterOf
  <1>4. QED
    BY <1>1, <1>2, <1>3 DEF Fence!Change

\* Every step of the Tenant Lock is a step or a stutter of the write fence.
LEMMA FenceStep ==
    ASSUME TypeOK, TypeOK', WriterHoldsLock, [Next]_vars
    PROVE  [Fence!Next]_Fence!vars
  <1>1. ASSUME NEW s \in Sessions, NEW p \in Principals, Begin(s, p)
        PROVE  UNCHANGED <<Holder, WriterOf>>
    BY <1>1 DEF Begin, Holder, WriterOf, Writing, Caller, TypeOK
  <1>2. ASSUME NEW s \in Sessions, Manage(s) PROVE Fence!Change
    BY <1>2, ManageExcludesWriters, QuietStep
  <1>3. ASSUME NEW s \in Sessions, Check(s) \/ TimeOut(s)
        PROVE  UNCHANGED <<Holder, WriterOf>>
    BY <1>3 DEF Check, TimeOut, Answer, Begun, Holder, WriterOf, Writing, Caller, TypeOK
  <1>4. ASSUME NEW s \in Sessions, EndWrite(s) PROVE Fence!Finish(s)
    BY <1>4 DEF EndWrite, Fence!Finish, Holder, WriterOf, Writing, Caller, TypeOK
  <1>5. ASSUME NEW s \in Sessions, NEW required \in WriteRanks,
               AuthorizeWrite(s, required)
        PROVE  Fence!Start(s) \/ UNCHANGED <<Holder, WriterOf>>
    <2>1. CASE WriteDenial(s, required) = "ok"
      <3>1. lock # NoLock /\ lock.owner = Caller(s)
        BY <2>1 DEF WriteDenial, LockLive
      <3>2. session[s] \in Transaction /\ Caller(s) \in Principals /\ ~Writing(s)
        BY <1>5, BegunTransaction DEF AuthorizeWrite, Begun, Writing
      <3>3. session' = [session EXCEPT ![s] = [session[s] EXCEPT !.state = "writing"]]
        BY <1>5, <2>1 DEF AuthorizeWrite
      <3>4. session'[s] = [session[s] EXCEPT !.state = "writing"]
        BY <3>3 DEF TypeOK
      <3>5. session'[s] # Idle /\ Writing(s)' /\ Caller(s)' = Caller(s)
        BY <3>2, <3>4 DEF Writing, Caller, Transaction
      <3>6. \A t \in Sessions \ {s} : session'[t] = session[t]
        BY <3>3 DEF TypeOK
      <3>7. Holder = Caller(s) /\ Holder # NoLock /\ Holder' = Holder
        BY <1>5, <3>1, <3>2 DEF Holder, AuthorizeWrite
      <3>8. WriterOf' = [WriterOf EXCEPT ![s] = Holder]
        BY <3>5, <3>6, <3>7 DEF WriterOf, Writing, Caller
      <3>9. WriterOf[s] = NoLock
        BY <3>2 DEF WriterOf
      <3>10. QED
        BY <3>7, <3>8, <3>9 DEF Fence!Start
    <2>2. CASE WriteDenial(s, required) # "ok"
      BY <1>5, <2>2
      DEF AuthorizeWrite, Begun, Holder, WriterOf, Writing, Caller, TypeOK
    <2>3. QED
      BY <2>1, <2>2
  <1>6. ASSUME ExpireTenantLocks PROVE Fence!Change
    <2>1. \A t \in Sessions : ~Writing(t) /\ ~Writing(t)'
      BY <1>6 DEF ExpireTenantLocks, LockRowSharers, Writing
    <2>2. QED
      BY <2>1, QuietStep
  <1>7. ASSUME UNCHANGED <<lock, session>> PROVE UNCHANGED <<Holder, WriterOf>>
    BY <1>7 DEF Holder, WriterOf, Writing, Caller
  <1>8. QED
    BY <1>1, <1>2, <1>3, <1>4, <1>5, <1>6, <1>7
    DEF Next, ChangeAccess, Tick, vars, Fence!Next, Fence!vars

\* The Tenant Lock implements the write fence: whoever may write changes only
\* while no authorized transaction is open, expired leases included.
THEOREM FenceImplemented == Spec => ImplementsWriteFence
  <1>1. Init => Fence!Init
    BY DEF Init, Fence!Init, Holder, WriterOf, Writing
  <1>2. QED
    BY <1>1, FenceStep, TypeCorrect, WriterExclusion, PTL
    DEF Spec, ImplementsWriteFence, Fence!Spec

-----------------------------------------------------------------------------
(* The audit log. *)

\* The chain and the last event of a log, whatever row it tells.
ChainOf(log) ==
    \A i \in 1..Len(log) :
        IF i = 1 \/ log[i-1].type \in EndTypes
        THEN log[i].type = "acquired"
        ELSE /\ log[i].type # "acquired"
             /\ log[i].owner = log[i-1].owner
             /\ log[i].type \in EndTypes =>
                   /\ log[i].acquired = log[i-1].acquired
                   /\ log[i].expires = log[i-1].expires

Tells(log, row) ==
    IF log = <<>> \/ log[Len(log)].type \in EndTypes
    THEN row = NoLock
    ELSE /\ row # NoLock
         /\ LET e == log[Len(log)] IN
              /\ row.owner = e.owner
              /\ row.acquired = e.acquired /\ row.expires = e.expires

Account(log, row) == log \in Seq(LockEvent) /\ ChainOf(log) /\ Tells(log, row)

\* An event may be added when it follows the last one.
Follows(log, e) ==
    IF log = <<>> \/ log[Len(log)].type \in EndTypes
    THEN e.type = "acquired"
    ELSE /\ e.type # "acquired"
         /\ e.owner = log[Len(log)].owner
         /\ e.type \in EndTypes =>
               /\ e.acquired = log[Len(log)].acquired
               /\ e.expires = log[Len(log)].expires

\* An event that follows the last one keeps the chain.
LEMMA ChainGrows ==
    ASSUME NEW log \in Seq(LockEvent), ChainOf(log), NEW e \in LockEvent, Follows(log, e)
    PROVE  /\ Append(log, e) \in Seq(LockEvent) /\ ChainOf(Append(log, e))
           /\ Append(log, e) # <<>> /\ Append(log, e)[Len(Append(log, e))] = e
  <1> DEFINE longer == Append(log, e)
             n == Len(log) + 1
  <1>1. /\ Len(log) \in Nat /\ Len(longer) = n /\ longer[n] = e
        /\ \A i \in 1..Len(log) : longer[i] = log[i]
        /\ longer \in Seq(LockEvent) /\ longer # <<>>
    OBVIOUS
  <1>2. log = <<>> <=> n = 1
    OBVIOUS
  <1> HIDE DEF longer
  <1>3. ASSUME NEW i \in 1..Len(longer)
        PROVE  IF i = 1 \/ longer[i-1].type \in EndTypes
               THEN longer[i].type = "acquired"
               ELSE /\ longer[i].type # "acquired"
                    /\ longer[i].owner = longer[i-1].owner
                    /\ longer[i].type \in EndTypes =>
                          /\ longer[i].acquired = longer[i-1].acquired
                          /\ longer[i].expires = longer[i-1].expires
    <2>1. CASE i = n
      <3>1. n # 1 => longer[i-1] = log[Len(log)] /\ i - 1 = Len(log)
        BY <1>1, <2>1
      <3>2. QED
        BY <1>1, <1>2, <2>1, <3>1 DEF Follows
    <2>2. CASE i # n
      <3>1. i \in 1..Len(log)
        BY <1>1, <2>2
      <3>2. i # 1 => i - 1 \in 1..Len(log)
        BY <3>1, <1>1
      <3>3. longer[i] = log[i] /\ (i # 1 => longer[i-1] = log[i-1])
        BY <1>1, <3>1, <3>2
      <3>4. QED
        BY <3>1, <3>3 DEF ChainOf
    <2>3. QED
      BY <2>1, <2>2
  <1>4. QED
    BY <1>1, <1>3 DEF ChainOf, longer

\* An end of the lease in the row closes the account.
LEMMA EndCloses ==
    ASSUME NEW log, NEW row \in LockRow, Account(log, row),
           NEW type \in EndTypes, NEW actor \in Principals \cup {System}
    PROVE  Account(Append(log, Event(type, row, actor)), NoLock)
  <1> DEFINE e == Event(type, row, actor)
  <1>1. e \in LockEvent /\ e.type = type /\ type # "acquired"
    BY EventIsEvent DEF EndTypes, EventTypes, Event
  <1>2. Follows(log, e)
    BY <1>1 DEF Account, Tells, Follows, Event
  <1> HIDE DEF e
  <1>3. QED
    BY <1>1, <1>2, ChainGrows DEF Account, Tells, e

\* A new row opens one that was closed.
LEMMA GrantOpens ==
    ASSUME NEW log, NEW row \in LockRow, Account(log, NoLock), NEW actor \in Principals
    PROVE  Account(Append(log, Event("acquired", row, actor)), row)
  <1> DEFINE e == Event("acquired", row, actor)
  <1>1. /\ e \in LockEvent /\ e.type = "acquired" /\ e.owner = row.owner
        /\ e.acquired = row.acquired /\ e.expires = row.expires
    BY EventIsEvent DEF EventTypes, Event
  <1>2. Follows(log, e)
    BY <1>1 DEF Account, Tells, Follows
  <1>3. "acquired" \notin EndTypes
    BY DEF EndTypes
  <1>4. row # NoLock
    OBVIOUS
  <1> HIDE DEF e
  <1>5. QED
    BY <1>1, <1>2, <1>3, <1>4, ChainGrows DEF Account, Tells, e

\* A renewed row continues it under its owner.
LEMMA RenewalContinues ==
    ASSUME NEW log, NEW row \in LockRow, Account(log, row), NEW new \in LockRow,
           new.owner = row.owner, NEW actor \in Principals
    PROVE  Account(Append(log, Event("renewed", new, actor)), new)
  <1> DEFINE e == Event("renewed", new, actor)
  <1>1. /\ e \in LockEvent /\ e.type = "renewed" /\ e.owner = new.owner
        /\ e.acquired = new.acquired /\ e.expires = new.expires
    BY EventIsEvent DEF EventTypes, Event
  <1>2. "renewed" \notin EndTypes /\ row # NoLock /\ new # NoLock
    BY DEF EndTypes
  <1>3. Follows(log, e)
    BY <1>1, <1>2 DEF Account, Tells, Follows
  <1> HIDE DEF e
  <1>4. QED
    BY <1>1, <1>2, <1>3, ChainGrows DEF Account, Tells, e

\* What a lock-management call does to the row and to the log.
Ended(type, actor) == /\ lock # NoLock /\ lock' = NoLock
                      /\ events' = Append(events, Event(type, lock, actor))
Renewed(s) == /\ LockLive /\ lock.owner = Caller(s)
              /\ \E d \in Durations : lock' = LeaseFrom(s, d, lock.purpose)
              /\ events' = Append(events, Event("renewed", lock', Caller(s)))
Granted(s) == /\ ~LockLive
              /\ \E d \in Durations, purpose \in BOOLEAN : lock' = LeaseFrom(s, d, purpose)
              /\ LET gone == IF LockExpired THEN <<Event("expired", lock, System)>> ELSE <<>>
                 IN  events' = events \o gone \o <<Event("acquired", lock', Caller(s))>>

\* Every lock-management call, once it has its rows, is one of these.
LEMMA ManageSteps ==
    ASSUME TypeOK, NEW s \in Sessions, Manage(s)
    PROVE  /\ HasRows(s)
           /\ \/ UNCHANGED <<lock, events>>
              \/ LockExpired /\ Ended("expired", System)
              \/ LockLive /\ lock.owner = Caller(s) /\ Ended("released", Caller(s))
              \/ /\ LockLive /\ lock.owner # Caller(s) /\ MayManage(s)
                 /\ Ended("force_unlocked", Caller(s))
              \/ Renewed(s)
              \/ Granted(s)
  <1>1. HasRows(s)
    BY DEF Manage, Acquire, Renew, Release, Override, DenyManage
  <1>2. OwnerRefused(s) => UNCHANGED <<lock, events>> \/ (LockExpired /\ Ended("expired", System))
    BY DEF OwnerRefused, RemoveExpired, Ended, LockExpired
  <1>3. CASE \E d \in Durations, purpose \in BOOLEAN : Acquire(s, d, purpose)
    BY <1>1, <1>3 DEF Acquire, InsertLock, Granted
  <1>4. CASE \E d \in Durations : Renew(s, d)
    BY <1>1, <1>2, <1>4 DEF Renew, Renewed
  <1>5. CASE Release(s)
    BY <1>1, <1>2, <1>5 DEF Release, Ended, LockLive
  <1>6. CASE Override(s)
    BY <1>1, <1>6 DEF Override, Ended, LockLive, LockExpired, RemoveExpired
  <1>7. CASE DenyManage(s)
    BY <1>1, <1>7 DEF DenyManage
  <1>8. QED
    BY <1>3, <1>4, <1>5, <1>6, <1>7 DEF Manage

\* Only a lock-management call and the expiry worker touch the row.
LEMMA LockSteps ==
    ASSUME TypeOK, [Next]_vars
    PROVE  \/ UNCHANGED <<lock, events>>
           \/ LockExpired /\ Ended("expired", System)
           \/ \E s \in Sessions : Manage(s)
  BY DEF Next, Begin, Check, TimeOut, EndWrite, AuthorizeWrite, Answer, ChangeAccess,
         ExpireTenantLocks, RemoveExpired, LockExpired, Ended, Tick, vars

\* A step leaves a true account when it finds one.
LEMMA AccountStep ==
    ASSUME TypeOK, Account(events, lock), [Next]_vars
    PROVE  Account(events, lock)'
  <1>1. ASSUME NEW type \in EndTypes, NEW actor \in Principals \cup {System}, Ended(type, actor)
        PROVE  Account(events, lock)'
    <2>1. lock \in LockRow
      BY <1>1 DEF Ended, TypeOK
    <2>2. Account(Append(events, Event(type, lock, actor)), NoLock)
      BY <2>1, EndCloses
    <2>3. QED
      BY <1>1, <2>2 DEF Ended
  <1>2. {"expired", "released", "force_unlocked"} \subseteq EndTypes
    BY DEF EndTypes
  <1>3. CASE UNCHANGED <<lock, events>>
    BY <1>3 DEF Account, Tells, ChainOf
  <1>4. CASE LockExpired /\ Ended("expired", System)
    BY <1>1, <1>2, <1>4
  <1>5. ASSUME NEW s \in Sessions, Manage(s), ~UNCHANGED <<lock, events>>
        PROVE  Account(events, lock)'
    <2>1. Begun(s) /\ Caller(s) \in Principals
      BY <1>5, ManageSteps, BegunTransaction DEF HasRows
    <2>2. CASE Renewed(s)
      <3>1. lock \in LockRow /\ lock.purpose \in BOOLEAN
        BY <2>2 DEF Renewed, LockLive, TypeOK, LockRow
      <3>2. lock' \in LockRow /\ lock'.owner = lock.owner
        BY <2>1, <2>2, <3>1, LeaseIsRow DEF Renewed, LeaseFrom
      <3> DEFINE new == lock'
      <3>3. Account(Append(events, Event("renewed", new, Caller(s))), new)
        <4> HIDE DEF new
        <4>1. new \in LockRow /\ new.owner = lock.owner
          BY <3>2 DEF new
        <4>2. QED
          BY <2>1, <3>1, <4>1, RenewalContinues
      <3>4. QED
        BY <2>2, <3>3 DEF Renewed
    <2>3. CASE Granted(s)
      <3>1. lock' \in LockRow
        BY <2>1, <2>3, LeaseIsRow DEF Granted
      <3> DEFINE new == lock'
                 expired == Event("expired", lock, System)
                 acquired == Event("acquired", new, Caller(s))
      <3>2. new \in LockRow /\ acquired \in LockEvent
        BY <2>1, <3>1, EventIsEvent DEF EventTypes
      <3>3. CASE LockExpired
        <4>1. lock \in LockRow /\ System \in Principals \cup {System}
          BY <3>3 DEF LockExpired, TypeOK
        <4>2. Account(Append(events, expired), NoLock) /\ expired \in LockEvent
          BY <1>2, <4>1, EndCloses, EventIsEvent DEF EventTypes
        <4>3. Account(Append(Append(events, expired), acquired), new)
          <5> DEFINE log == Append(events, expired)
          <5>1. Account(log, NoLock)
            BY <4>2
          <5> HIDE DEF log, new
          <5>2. Account(Append(log, Event("acquired", new, Caller(s))), new)
            BY <2>1, <3>2, <5>1, GrantOpens
          <5>3. QED
            BY <5>2 DEF log
        <4>4. events' = events \o <<expired>> \o <<acquired>>
          BY <2>3, <3>3 DEF Granted
        <4>5. events' = Append(Append(events, expired), acquired)
          <5> HIDE DEF expired, acquired
          <5>1. events \in Seq(LockEvent)
            BY DEF TypeOK
          <5> DEFINE log == events \o <<expired>>
          <5>2. log = Append(events, expired) /\ log \in Seq(LockEvent)
            BY <4>2, <5>1
          <5>3. events' = log \o <<acquired>>
            BY <4>4
          <5> HIDE DEF log
          <5>4. events' = Append(log, acquired)
            BY <3>2, <5>2, <5>3
          <5>5. QED
            BY <5>2, <5>4
        <4>6. QED
          BY <4>3, <4>5
      <3>4. CASE ~LockExpired
        <4>1. lock = NoLock
          BY <2>3, <3>4 DEF Granted, LockLive, LockExpired, TypeOK, LockRow
        <4>2. Account(Append(events, acquired), new)
          <5> HIDE DEF new
          <5>1. Account(events, NoLock)
            BY <4>1
          <5>2. QED
            BY <2>1, <3>2, <5>1, GrantOpens
        <4>3. events' = events \o <<>> \o <<acquired>>
          BY <2>3, <3>4 DEF Granted
        <4>4. events' = Append(events, acquired)
          <5> HIDE DEF acquired
          <5>1. events \in Seq(LockEvent)
            BY DEF TypeOK
          <5>2. QED
            BY <3>2, <4>3, <5>1
        <4>5. QED
          BY <4>2, <4>4
      <3>5. QED
        BY <3>3, <3>4
    <2>4. QED
      BY <1>1, <1>2, <1>5, <2>1, <2>2, <2>3, ManageSteps
  <1>6. QED
    BY <1>3, <1>4, <1>5, LockSteps

\* The audit log is a true account of the lock, past and present: every step
\* that changes the row records it, and only such a step.
THEOREM AuditTrue == Spec => []AuditTrail
  <1>1. Init => Account(events, lock)
    BY DEF Init, Account, ChainOf, Tells
  <1>2. TypeOK /\ Account(events, lock) /\ [Next]_vars => Account(events, lock)'
    BY AccountStep
  <1>3. Account(events, lock) => AuditTrail
    BY DEF Account, ChainOf, Tells, AuditTrail, AuditChain, AuditTellsLock
  <1>4. QED
    BY <1>1, <1>2, <1>3, TypeCorrect, PTL DEF Spec

-----------------------------------------------------------------------------
(* What a step may do to the lease. *)

\* The event a step added is the last one.
LEMMA LastEvent ==
    ASSUME TypeOK, NEW e, events' = Append(events, e)
    PROVE  events'[Len(events')] = e
  BY DEF TypeOK

\* A lease that has not run out changes only by a renewal or a release of its
\* owner or by an override of another Principal who may manage locks, which
\* leaves the Tenant unlocked.
THEOREM LiveLeaseKept == Spec => LiveLeaseProtected
  <1> DEFINE last == events'[Len(events')]
             A == LockLive /\ lock' # lock =>
                    LET e == events'[Len(events')] IN
                      \/ e.type = "renewed" /\ e.actor = lock.owner /\ lock' # NoLock
                      \/ e.type = "released" /\ e.actor = lock.owner /\ lock' = NoLock
                      \/ /\ e.type = "force_unlocked" /\ lock' = NoLock
                         /\ e.actor # lock.owner /\ rank[e.actor] >= LockManageRank
  <1>1. TypeOK /\ [Next]_vars => [A]_vars
    <2> SUFFICES ASSUME TypeOK, [Next]_vars, LockLive, lock' # lock
                 PROVE  \/ last.type = "renewed" /\ last.actor = lock.owner /\ lock' # NoLock
                        \/ last.type = "released" /\ last.actor = lock.owner /\ lock' = NoLock
                        \/ /\ last.type = "force_unlocked" /\ lock' = NoLock
                           /\ last.actor # lock.owner /\ rank[last.actor] >= LockManageRank
      OBVIOUS
    <2>1. lock \in LockRow /\ now \in Nat /\ lock.expires \in Nat
      BY DEF LockLive, TypeOK, LockRow
    <2>2. ~LockExpired
      BY <2>1 DEF LockLive, LockExpired
    <2>3. PICK s \in Sessions : Manage(s)
      BY <2>2, LockSteps
    <2>4. HasRows(s) /\ Caller(s) \in Principals
      BY <2>3, ManageSteps, BegunTransaction DEF HasRows
    <2>5. ASSUME NEW type, NEW actor, Ended(type, actor)
          PROVE  lock' = NoLock /\ last.type = type /\ last.actor = actor
      BY <2>5, LastEvent DEF Ended, Event
    <2>6. CASE lock.owner = Caller(s) /\ Ended("released", Caller(s))
      BY <2>5, <2>6
    <2>7. CASE lock.owner # Caller(s) /\ MayManage(s) /\ Ended("force_unlocked", Caller(s))
      BY <2>5, <2>7 DEF MayManage
    <2>8. CASE Renewed(s)
      <3>1. last.type = "renewed" /\ last.actor = Caller(s)
        BY <2>8, LastEvent DEF Renewed, Event
      <3>2. lock' \in LockRow
        BY <2>1, <2>4, <2>8, LeaseIsRow DEF Renewed, HasRows, LockRow
      <3>3. QED
        BY <2>8, <3>1, <3>2 DEF Renewed
    <2>9. QED
      BY <2>2, <2>3, <2>6, <2>7, <2>8, ManageSteps DEF Granted
  <1>2. QED
    BY <1>1, TypeCorrect, PTL DEF Spec, LiveLeaseProtected

\* CURRENT_TIMESTAMP of an open transaction is not in the future.
StartsPast == \A s \in Sessions : session[s] # Idle => session[s].start <= now

\* No step lets a transaction start later than the clock.
LEMMA StartsPastStep ==
    ASSUME TypeOK, StartsPast, [Next]_vars
    PROVE  StartsPast'
  <1>1. now \in Nat /\ \A s \in Sessions : session[s] # Idle => session[s].start \in Nat
    BY DEF TypeOK, Transaction
  <1>2. ASSUME NEW s \in Sessions, NEW p \in Principals, Begin(s, p) PROVE StartsPast'
    BY <1>1, <1>2 DEF Begin, StartsPast, TypeOK
  <1>3. ASSUME NEW s \in Sessions, session' = [session EXCEPT ![s] = Idle], UNCHANGED now
        PROVE  StartsPast'
    BY <1>3 DEF StartsPast, TypeOK
  <1>4. ASSUME NEW s \in Sessions, NEW required \in WriteRanks, AuthorizeWrite(s, required)
        PROVE  StartsPast'
    <2>1. session[s] \in Transaction
      BY <1>4, BegunTransaction DEF AuthorizeWrite
    <2>2. session'[s] \in {Idle, [session[s] EXCEPT !.state = "writing"]}
      BY <1>4 DEF AuthorizeWrite, TypeOK
    <2>3. \A t \in Sessions \ {s} : session'[t] = session[t]
      BY <1>4 DEF AuthorizeWrite, TypeOK
    <2>4. session'[s] # Idle => session'[s].start <= now
      BY <1>4, <2>1, <2>2 DEF StartsPast, AuthorizeWrite, Begun, Transaction
    <2>5. QED
      BY <1>4, <2>3, <2>4 DEF StartsPast, AuthorizeWrite
  <1>5. CASE Tick
    BY <1>1, <1>5 DEF Tick, StartsPast
  <1>6. CASE UNCHANGED <<now, session>>
    BY <1>6 DEF StartsPast
  <1>7. ASSUME NEW s \in Sessions, Manage(s) \/ Check(s) \/ TimeOut(s) \/ EndWrite(s)
        PROVE  StartsPast'
    <2>1. session' = [session EXCEPT ![s] = Idle] /\ UNCHANGED now
      BY <1>7 DEF Manage, Acquire, Renew, Release, Override, DenyManage, OwnerRefused, Check,
                  TimeOut, EndWrite, Answer
    <2>2. QED
      BY <1>3, <2>1
  <1>8. QED
    BY <1>2, <1>4, <1>5, <1>6, <1>7 DEF Next, ChangeAccess, ExpireTenantLocks, vars

\* A granted lease is one requested duration from a moment that has passed, so it
\* ends at most that duration from now, however often it was renewed and however
\* long the call waited for its row locks.
THEOREM LeasesBounded == Spec => LeaseBounded
  <1> DEFINE A == lock' \notin {lock, NoLock} =>
                    \E d \in Durations : /\ lock'.expires = lock'.acquired + d
                                         /\ lock'.expires <= now + d
  <1>1. TypeOK /\ StartsPast /\ [Next]_vars => [A]_vars
    <2> SUFFICES ASSUME TypeOK, StartsPast, [Next]_vars, lock' \notin {lock, NoLock}
                 PROVE  \E d \in Durations : /\ lock'.expires = lock'.acquired + d
                                             /\ lock'.expires <= now + d
      OBVIOUS
    <2>1. PICK s \in Sessions : Manage(s)
      BY LockSteps DEF Ended
    <2>2. HasRows(s) /\ (Renewed(s) \/ Granted(s))
      BY <2>1, ManageSteps DEF Ended
    <2>3. PICK d \in Durations : /\ lock'.expires = session[s].start + d
                                 /\ lock'.acquired = session[s].start
      BY <2>2 DEF Renewed, Granted, LeaseFrom
    <2>4. /\ session[s].start \in Nat /\ now \in Nat /\ d \in Nat
          /\ session[s].start <= now
      BY <2>2, BegunTransaction DEF HasRows, Begun, StartsPast, TypeOK
    <2>5. QED
      BY <2>3, <2>4
  <1>2. Init => StartsPast
    BY DEF Init, StartsPast
  <1>3. QED
    BY <1>1, <1>2, StartsPastStep, TypeCorrect, PTL DEF Spec, LeaseBounded

=============================================================================
