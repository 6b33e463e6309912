-------------------------- MODULE LeaseStoreProofs --------------------------
(***************************************************************************)
(* Proofs about LeaseStore for any number of processes and any bounds: the *)
(* document keeps its type, one credential at most is accepted, and the    *)
(* log of committed changes is fenced by the epochs of its writers.        *)
(***************************************************************************)
EXTENDS LeaseStore, TLAPS

\* An operation in progress holds the file lock.
LockHeld == \A p \in Process : txn[p] # Idle => lock = p

\* The fence of a credential was given out once, to one process.
CredentialFences ==
    /\ store.lease # NoLease => store.lease.fence = store.fence
    /\ \A p \in Process : cred[p] # NoLease => cred[p].fence <= store.fence
    /\ \A p, q \in Process :
          (cred[p] # NoLease /\ cred[q] # NoLease /\ cred[p].fence = cred[q].fence) => p = q

\* An operation other than acquire presents the credential its process has, and
\* had it accepted by the document it read.
Presented ==
    \A p \in Process : txn[p].op \in {"renew", "release", "mutate", "guard"} =>
        /\ txn[p].lease = cred[p]
        /\ cred[p] # NoLease
        /\ txn[p].op # "guard" => txn[p].base.lease = cred[p]

\* What a staged operation is about to put in place of the document it read.
Planned(t) ==
    /\ t.op \in {"acquire", "renew", "release", "mutate"}
    /\ t.op # "acquire" => t.next.fence = t.base.fence
    /\ t.op # "mutate" => t.next.data = t.base.data
    /\ t.op = "acquire" => /\ t.lease # NoLease
                           /\ t.next.lease = t.lease
                           /\ t.next.fence = t.base.fence + 1
                           /\ t.lease.fence = t.base.fence + 1
                           /\ t.base.lease # NoLease =>
                                  t.base.lease.expires <= t.next.observed
    /\ t.op = "renew" => /\ t.next.lease # NoLease
                         /\ t.next.lease.fence = t.base.lease.fence
                         /\ t.base.lease.expires > t.next.observed
    /\ t.op = "release" => t.next.lease = NoLease
    /\ t.op = "mutate" => /\ t.next.lease = t.base.lease
                          /\ t.next.data = Append(t.base.data, t.lease.fence)

PlansHold ==
    \A p \in Process : txn[p].stage \in {"staged", "replace"} => Planned(txn[p])

\* Nobody but the operation itself commits between its last check and its effect.
NothingMissed ==
    \A p \in Process :
        /\ txn[p].stage \in {"replace", "guarded", "launch"} => store = txn[p].base
        /\ txn[p].stage = "change" => txn[p].op = "mutate"
        /\ txn[p].stage \in {"guarded", "launch"} =>
              /\ txn[p].op = "guard"
              /\ store.lease # NoLease
              /\ txn[p].lease.fence = store.fence

IInv ==
    /\ TypeOK
    /\ LockHeld
    /\ CredentialFences
    /\ Presented
    /\ PlansHold
    /\ NothingMissed
    /\ LogFenced
    /\ launched <= store.fence
-----------------------------------------------------------------------------
\* The document and the operation of the initial state have their types.
LEMMA InitialTypes ==
    /\ InitialState \in Document
    /\ Idle \in Transaction
    /\ Idle.op = "none"
    /\ Idle.stage = "idle"
  BY DEF InitialState, Idle, Document, Transaction, Operation, Stage

\* An updated document has its type and the fields it was given.
LEMMA UpdatedType ==
    ASSUME NEW d \in Document, NEW now \in Nat, NEW fence \in Nat,
           NEW lease \in Lease \cup {NoLease}, NEW data \in Seq(Nat)
    PROVE  Updated(d, now, fence, lease, data) \in Document
  BY DEF Updated, Document

\* Begin records one typed operation and takes the lock.
LEMMA BeginType ==
    ASSUME TypeOK, NEW p \in Process, NEW op \in Operation, NEW stage \in Stage,
           NEW lease \in Lease \cup {NoLease}, NEW next \in Document,
           Begin(p, op, stage, lease, next)
    PROVE  TypeOK'
  <1>1. [op |-> op, stage |-> stage, lease |-> lease, base |-> store, next |-> next]
           \in Transaction
    BY DEF TypeOK, Transaction
  <1>2. txn' \in [Process -> Transaction]
    BY <1>1 DEF TypeOK, Begin
  <1>3. clock \in Nat /\ seen' \in [Process -> Nat]
    BY BoundsAssumption DEF TypeOK, Begin, SeeClock, Instant
  <1> QED
    BY <1>2, <1>3 DEF TypeOK, Begin, Lock

\* Type correctness: every operation keeps the document well formed.
LEMMA TypeStep == TypeOK /\ NothingMissed /\ [Next]_vars => TypeOK'
  <1> SUFFICES ASSUME TypeOK, NothingMissed, [Next]_vars PROVE TypeOK'
    OBVIOUS
  <1>1. CASE UNCHANGED vars
    BY <1>1 DEF vars, TypeOK
  <1>2. CASE ClockStep
    BY <1>2 DEF ClockStep, TypeOK
  <1>3. ASSUME NEW p \in Process, Step(p) PROVE TypeOK'
    <2>0. clock \in Nat
      BY BoundsAssumption DEF TypeOK, Instant
    <2>1. ASSUME NEW ttl \in Ttl, Acquire(p, ttl) PROVE TypeOK'
      <3> DEFINE lease == [fence |-> store.fence + 1, expires |-> clock + ttl]
                 next == Updated(store, clock, lease.fence, lease, store.data)
      <3>1. lease \in Lease /\ lease.fence \in Nat
        BY <2>0, BoundsAssumption DEF TypeOK, Document, Lease, Ttl, Instant
      <3>2. store \in Document /\ store.data \in Seq(Nat)
        BY DEF TypeOK, Document
      <3>3. next \in Document
        BY <2>0, <3>1, <3>2, UpdatedType
      <3>4. Begin(p, "acquire", "staged", lease, next)
        BY <2>1 DEF Acquire
      <3> HIDE DEF lease, next
      <3> QED
        BY <3>1, <3>3, <3>4, BeginType DEF Operation, Stage
    <2>2. ASSUME NEW ttl \in Ttl, Renew(p, ttl) PROVE TypeOK'
      <3> DEFINE lease == [fence |-> cred[p].fence, expires |-> clock + ttl]
                 next == Updated(store, clock, store.fence, lease, store.data)
      <3>1. cred[p] \in Lease
        BY <2>2 DEF TypeOK, Renew, Holds
      <3>2. store \in Document /\ store.data \in Seq(Nat) /\ store.fence \in Nat
        BY DEF TypeOK, Document
      <3>3. lease \in Lease
        BY <2>0, <3>1, BoundsAssumption DEF Lease, Ttl, Instant
      <3>4. next \in Document
        BY <2>0, <3>2, <3>3, UpdatedType
      <3>5. Begin(p, "renew", "staged", cred[p], next)
        BY <2>2 DEF Renew
      <3> HIDE DEF lease, next
      <3> QED
        BY <3>1, <3>4, <3>5, BeginType DEF Operation, Stage
    <2>3. CASE Release(p)
      <3> DEFINE next == Updated(store, clock, store.fence, NoLease, store.data)
      <3>1. cred[p] \in Lease
        BY <2>3 DEF TypeOK, Release, Holds
      <3>2. store \in Document /\ store.data \in Seq(Nat) /\ store.fence \in Nat
        BY DEF TypeOK, Document
      <3>3. next \in Document
        BY <2>0, <3>2, UpdatedType
      <3>4. Begin(p, "release", "staged", cred[p], next)
        BY <2>3 DEF Release
      <3> HIDE DEF next
      <3> QED
        BY <3>1, <3>3, <3>4, BeginType DEF Operation, Stage
    <2>4. CASE Mutate(p)
      <3>1. cred[p] \in Lease /\ store \in Document
        BY <2>4 DEF TypeOK, Mutate, Holds
      <3> QED
        BY <2>4, <3>1, BeginType DEF Mutate, Operation, Stage
    <2>5. CASE NestedMutate(p)
      <3>1. cred[p] \in Lease /\ cred[p].fence \in Nat
        BY <2>5 DEF TypeOK, NestedMutate, Holds, Lease
      <3>2. /\ store \in Document
            /\ Append(store.data, cred[p].fence) \in Seq(Nat)
            /\ store.fence \in Nat
            /\ store.lease \in Lease \cup {NoLease}
        BY <3>1 DEF TypeOK, Document
      <3>3. store' \in Document
        BY <2>0, <2>5, <3>2, UpdatedType DEF NestedMutate
      <3> QED
        BY <2>0, <2>5, <3>3 DEF NestedMutate, TypeOK, SeeClock
    <2>6. CASE FinishChange(p)
      <3> DEFINE base == txn[p].base
                 next == Updated(base, clock, base.fence, base.lease,
                                 Append(base.data, txn[p].lease.fence))
      <3>1. txn[p] \in Transaction /\ base \in Document
        BY DEF TypeOK, Transaction
      <3>2. txn[p].lease.fence \in Nat
        BY <2>6, <3>1 DEF FinishChange, Holds, Transaction, Lease
      <3>3. /\ Append(base.data, txn[p].lease.fence) \in Seq(Nat)
            /\ base.fence \in Nat
            /\ base.lease \in Lease \cup {NoLease}
        BY <3>1, <3>2 DEF Document
      <3>4. next \in Document
        BY <2>0, <3>1, <3>3, UpdatedType
      <3>5. txn' = [txn EXCEPT ![p].stage = "staged", ![p].next = next]
        BY <2>6 DEF FinishChange
      <3> HIDE DEF next
      <3>6. txn' \in [Process -> Transaction]
        BY <3>1, <3>4, <3>5 DEF TypeOK, Transaction, Stage
      <3> QED
        BY <2>0, <2>6, <3>6 DEF FinishChange, TypeOK, SeeClock
    <2>7. CASE Validate(p) \/ GuardCheck(p)
      <3>1. txn' \in [Process -> Transaction]
        BY <2>7 DEF TypeOK, Validate, GuardCheck, Transaction, Stage
      <3> QED
        BY <2>0, <2>7, <3>1 DEF Validate, GuardCheck, TypeOK, SeeClock
    <2>8. CASE Replace(p)
      <3>1. txn[p].next \in Document /\ txn[p].next.lease \in Lease \cup {NoLease}
        BY DEF TypeOK, Transaction, Document
      <3>2. Outcome(p) \in Lease \cup {NoLease}
        BY <3>1 DEF TypeOK, Outcome
      <3>3. txn' \in [Process -> Transaction]
        BY <2>8, InitialTypes DEF Replace, TypeOK
      <3> QED
        BY <2>8, <3>1, <3>2, <3>3 DEF Replace, TypeOK, Unlock
    <2>9. CASE GuardEpoch(p)
      BY <2>9, BeginType DEF GuardEpoch, Operation, Stage, TypeOK
    <2>10. CASE Launch(p)
      <3>1. launched' \in Nat
        BY <2>10 DEF Launch, NothingMissed, TypeOK, Document
      <3>2. txn' \in [Process -> Transaction]
        BY <2>10, InitialTypes DEF Launch, TypeOK
      <3> QED
        BY <2>10, <3>1, <3>2 DEF Launch, TypeOK, Unlock
    <2>11. CASE Snapshot(p) \/ EnterTransaction(p) \/ LeaveTransaction(p)
      BY <2>0, <2>11 DEF Snapshot, EnterTransaction, LeaveTransaction, TypeOK, SeeClock, Lock
    <2>12. CASE Abort(p) \/ Crash(p)
      <3>1. txn' \in [Process -> Transaction]
        BY <2>12, InitialTypes DEF Abort, Crash, TypeOK
      <3>2. lock' \in Process \cup {NoProcess} /\ scope' \in BOOLEAN
        <4>1. CASE lock = p
          BY <2>12, <4>1 DEF Abort, Crash, TypeOK, Unlock
        <4>2. CASE lock # p
          BY <2>12, <4>2 DEF Abort, Crash, TypeOK, Unlock
        <4> QED
          BY <4>1, <4>2
      <3> QED
        BY <2>12, <3>1, <3>2 DEF Abort, Crash, TypeOK
    <2> QED
      BY <1>3, <2>1, <2>2, <2>3, <2>4, <2>5, <2>6, <2>7, <2>8, <2>9, <2>10, <2>11, <2>12
      DEF Step
  <1> QED
    BY <1>1, <1>2, <1>3 DEF Next
-----------------------------------------------------------------------------
\* An operation that begins disturbs nobody else's, for nobody else has one.
LEMMA BeginStep ==
    ASSUME IInv, NEW p \in Process, NEW op \in Operation, NEW stage \in Stage,
           NEW lease, NEW next,
           Begin(p, op, stage, lease, next),
           stage \in {"staged", "change", "guarded"},
           stage = "change" => op = "mutate",
           stage = "guarded" => /\ op = "guard"
                                /\ store.lease # NoLease
                                /\ lease.fence = store.fence,
           op # "acquire" => lease = cred[p] /\ cred[p] # NoLease,
           op \in {"renew", "release", "mutate"} => store.lease = cred[p],
           stage = "staged" =>
              Planned([op |-> op, stage |-> stage, lease |-> lease, base |-> store, next |-> next])
    PROVE  /\ LockHeld'
           /\ CredentialFences'
           /\ Presented'
           /\ PlansHold'
           /\ NothingMissed'
           /\ LogFenced'
           /\ (launched <= store.fence)'
  <1> DEFINE t == [op |-> op, stage |-> stage, lease |-> lease, base |-> store, next |-> next]
  <1>1. /\ txn' = [txn EXCEPT ![p] = t]
        /\ lock' = p
        /\ UNCHANGED <<store, cred, launched>>
    BY DEF Begin, Lock
  <1>2. \A q \in Process : q # p => txn[q] = Idle
    BY NoProcessAssumption DEF Begin, CanLock, IInv, LockHeld
  <1>3. \A q \in Process : txn'[q] = IF q = p THEN t ELSE Idle
    BY <1>1, <1>2 DEF IInv, TypeOK
  <1>4. Idle.op = "none" /\ Idle.stage = "idle"
    BY InitialTypes
  <1>5. LockHeld'
    BY <1>1, <1>3 DEF LockHeld
  <1>6. CredentialFences' /\ LogFenced' /\ (launched <= store.fence)'
    BY <1>1 DEF IInv, CredentialFences, LogFenced
  <1>7. Presented'
    BY <1>1, <1>3, <1>4 DEF Presented
  <1>8. PlansHold'
    BY <1>3, <1>4 DEF PlansHold
  <1>9. NothingMissed'
    BY <1>1, <1>3, <1>4 DEF NothingMissed
  <1> QED
    BY <1>5, <1>6, <1>7, <1>8, <1>9

\* An operation that ends without an effect leaves the other processes' alone.
LEMMA EndStep ==
    ASSUME IInv, NEW p \in Process, Abort(p) \/ Crash(p)
    PROVE  /\ LockHeld'
           /\ CredentialFences'
           /\ Presented'
           /\ PlansHold'
           /\ NothingMissed'
           /\ LogFenced'
           /\ (launched <= store.fence)'
  <1>1. /\ txn' = [txn EXCEPT ![p] = Idle]
        /\ cred' = cred \/ cred' = [cred EXCEPT ![p] = NoLease]
        /\ UNCHANGED <<store, launched>>
    BY DEF Abort, Crash
  <1>2. \A q \in Process : txn'[q] = IF q = p THEN Idle ELSE txn[q]
    BY <1>1 DEF IInv, TypeOK
  <1>3. \A q \in Process : cred'[q] = cred[q] \/ (q = p /\ cred'[q] = NoLease)
    BY <1>1 DEF IInv, TypeOK
  <1>4. Idle.op = "none" /\ Idle.stage = "idle"
    BY InitialTypes
  <1>5. \A q \in Process : (q # p /\ txn[q] # Idle) => lock' = q
    BY DEF IInv, LockHeld, Abort, Crash
  <1>6. LockHeld'
    BY <1>2, <1>5 DEF LockHeld
  <1>7. CredentialFences' /\ LogFenced' /\ (launched <= store.fence)'
    BY <1>1, <1>3 DEF IInv, CredentialFences, LogFenced
  <1>8. Presented'
    BY <1>2, <1>3, <1>4 DEF IInv, Presented
  <1>9. PlansHold' /\ NothingMissed'
    BY <1>1, <1>2, <1>4 DEF IInv, PlansHold, NothingMissed
  <1> QED
    BY <1>6, <1>7, <1>8, <1>9

\* The log stays fenced when the writer of the current epoch adds to it.
LEMMA LogAppend ==
    ASSUME NEW log \in Seq(Nat), NEW fence \in Nat,
           \A i, j \in 1 .. Len(log) : i <= j => log[i] <= log[j],
           \A i \in 1 .. Len(log) : log[i] <= fence
    PROVE  LET new == Append(log, fence)
           IN  /\ \A i, j \in 1 .. Len(new) : i <= j => new[i] <= new[j]
               /\ \A i \in 1 .. Len(new) : new[i] <= fence
  <1> DEFINE new == Append(log, fence)
  <1>1. Len(new) = Len(log) + 1 /\ new[Len(log) + 1] = fence
    OBVIOUS
  <1>2. \A i \in 1 .. Len(log) : new[i] = log[i] /\ new[i] \in Nat
    OBVIOUS
  <1>3. \A i \in 1 .. Len(new) : i = Len(log) + 1 \/ i \in 1 .. Len(log)
    BY <1>1
  <1> HIDE DEF new
  <1> QED
    BY <1>1, <1>2, <1>3 DEF new

\* A change committed inside a change callback belongs to the current epoch.
LEMMA NestedMutateStep ==
    ASSUME IInv, NEW p \in Process, NestedMutate(p)
    PROVE  /\ LockHeld'
           /\ CredentialFences'
           /\ Presented'
           /\ PlansHold'
           /\ NothingMissed'
           /\ LogFenced'
           /\ (launched <= store.fence)'
  <1>1. /\ store' = Updated(store, clock, store.fence, store.lease,
                            Append(store.data, cred[p].fence))
        /\ UNCHANGED <<lock, cred, txn, launched>>
        /\ cred[p] # NoLease
        /\ store.lease = cred[p]
        /\ txn[p].stage = "change"
    BY DEF NestedMutate, Holds
  <1>2. cred[p].fence = store.fence /\ store.fence \in Nat /\ store.data \in Seq(Nat)
    BY <1>1 DEF IInv, CredentialFences, TypeOK, Document
  <1>3. /\ store'.fence = store.fence
        /\ store'.lease = store.lease
        /\ store'.data = Append(store.data, store.fence)
    BY <1>1, <1>2 DEF Updated
  <1>4. LogFenced'
    BY <1>2, <1>3, LogAppend DEF IInv, LogFenced
  <1>5. txn[p] # Idle
    BY <1>1, InitialTypes
  <1>6. \A q \in Process : txn[q].stage # "idle" => q = p
    BY <1>5, InitialTypes DEF IInv, LockHeld
  <1>7. NothingMissed'
    BY <1>1, <1>6 DEF IInv, NothingMissed
  <1>8. LockHeld' /\ Presented' /\ PlansHold'
    BY <1>1 DEF IInv, LockHeld, Presented, PlansHold
  <1>9. CredentialFences' /\ (launched <= store.fence)'
    BY <1>1, <1>3 DEF IInv, CredentialFences
  <1> QED
    BY <1>4, <1>7, <1>8, <1>9

\* The steps of an operation between its begin and its effect: only its own
\* record of how far it got changes.
LEMMA ProgressStep ==
    ASSUME IInv, NEW p \in Process,
           FinishChange(p) \/ Validate(p) \/ GuardCheck(p)
    PROVE  /\ LockHeld'
           /\ CredentialFences'
           /\ Presented'
           /\ PlansHold'
           /\ NothingMissed'
           /\ LogFenced'
           /\ (launched <= store.fence)'
  <1>1. /\ UNCHANGED <<store, lock, cred, launched>>
        /\ txn[p] # Idle
        /\ \A q \in Process : q # p => txn'[q] = txn[q]
        /\ txn'[p].op = txn[p].op
        /\ txn'[p].lease = txn[p].lease
        /\ txn'[p].base = txn[p].base
    BY InitialTypes DEF FinishChange, Validate, GuardCheck, IInv, TypeOK, Transaction
  <1>2. LockHeld' /\ CredentialFences' /\ Presented' /\ LogFenced' /\ (launched <= store.fence)'
    BY <1>1 DEF IInv, LockHeld, CredentialFences, Presented, LogFenced
  <1>3. PlansHold' /\ NothingMissed'
    <2>1. CASE FinishChange(p)
      <3> DEFINE base == txn[p].base
                 next == Updated(base, clock, base.fence, base.lease,
                                 Append(base.data, txn[p].lease.fence))
      <3>1. txn'[p].stage = "staged" /\ txn'[p].next = next /\ txn[p].op = "mutate"
        BY <2>1 DEF FinishChange, IInv, TypeOK, Transaction, NothingMissed
      <3>2. Planned(txn'[p])
        BY <1>1, <3>1 DEF Planned, Updated
      <3> QED
        BY <1>1, <3>1, <3>2 DEF IInv, PlansHold, NothingMissed
    <2>2. CASE Validate(p)
      <3>1. /\ txn'[p].stage = "replace"
            /\ txn'[p].next = txn[p].next
            /\ txn[p].stage = "staged"
            /\ store = txn[p].base
        BY <2>2 DEF Validate, IInv, TypeOK, Transaction
      <3>2. Planned(txn'[p])
        BY <1>1, <3>1 DEF IInv, PlansHold, Planned
      <3> QED
        BY <1>1, <3>1, <3>2 DEF IInv, PlansHold, NothingMissed
    <2>3. CASE GuardCheck(p)
      <3>1. txn'[p].stage = "launch" /\ txn[p].stage \in {"guarded", "launch"}
        BY <2>3 DEF GuardCheck, IInv, TypeOK, Transaction
      <3> QED
        BY <1>1, <3>1 DEF IInv, PlansHold, NothingMissed
    <2> QED
      BY <2>1, <2>2, <2>3
  <1> QED
    BY <1>2, <1>3

\* The replace and the guarded start: the document is still the one the
\* operation checked, so the effect belongs to the epoch it presents.
LEMMA EffectStep ==
    ASSUME IInv, NEW p \in Process, Replace(p) \/ Launch(p)
    PROVE  /\ LockHeld'
           /\ CredentialFences'
           /\ Presented'
           /\ PlansHold'
           /\ NothingMissed'
           /\ LogFenced'
           /\ (launched <= store.fence)'
  <1>1. /\ txn' = [txn EXCEPT ![p] = Idle]
        /\ lock = p
    BY InitialTypes DEF Replace, Launch, IInv, LockHeld
  <1>2. \A q \in Process : txn'[q] = Idle
    BY <1>1, NoProcessAssumption DEF IInv, LockHeld, TypeOK
  <1>3. LockHeld' /\ Presented' /\ PlansHold' /\ NothingMissed'
    BY <1>2, InitialTypes DEF LockHeld, Presented, PlansHold, NothingMissed
  <1>4. CASE Launch(p)
    <2>1. UNCHANGED <<store, cred>> /\ launched' = store.fence
      BY <1>4 DEF Launch, IInv, NothingMissed
    <2>2. launched' <= store'.fence
      BY <2>1 DEF IInv, TypeOK, Document
    <2> QED
      BY <1>3, <2>1, <2>2 DEF IInv, CredentialFences, LogFenced
  <1>5. CASE Replace(p)
    <2> DEFINE t == txn[p]
    <2>1. /\ store' = t.next
          /\ store = t.base
          /\ UNCHANGED launched
          /\ Planned(t)
      BY <1>5 DEF Replace, IInv, NothingMissed, PlansHold
    <2>2. /\ t.op # "acquire" => t.lease = cred[p] /\ cred[p] # NoLease /\ store.lease = cred[p]
          /\ store.fence \in Nat
          /\ store.data \in Seq(Nat)
      BY <2>1 DEF IInv, Presented, Planned, TypeOK, Document
    <2>3. /\ store'.fence = IF t.op = "acquire" THEN store.fence + 1 ELSE store.fence
          /\ store'.lease # NoLease => store'.lease.fence = store'.fence
      BY <2>1, <2>2 DEF Planned, IInv, CredentialFences
    <2>4. \A q \in Process :
             \/ cred'[q] = cred[q]
             \/ q = p /\ cred'[q] = store'.lease /\ t.op = "acquire"
             \/ q = p /\ cred'[q] = NoLease
             \/ /\ q = p
                /\ cred[q] # NoLease
                /\ cred'[q] # NoLease
                /\ cred'[q].fence = cred[q].fence
      <3>1. cred' = cred \/ cred' = [cred EXCEPT ![p] = Outcome(p)]
        BY <1>5 DEF Replace
      <3>2. \A q \in Process : cred'[q] = cred[q] \/ (q = p /\ cred'[q] = Outcome(p))
        BY <3>1 DEF IInv, TypeOK
      <3>3. CASE t.op = "acquire"
        BY <2>1, <3>2, <3>3 DEF Outcome
      <3>4. CASE t.op = "renew"
        BY <2>1, <2>2, <3>2, <3>4 DEF Outcome, Planned
      <3>5. CASE t.op = "release"
        BY <2>1, <3>2, <3>5 DEF Outcome
      <3>6. CASE t.op = "mutate"
        BY <3>2, <3>6 DEF Outcome
      <3> QED
        BY <2>1, <3>3, <3>4, <3>5, <3>6 DEF Planned
    <2>5. \A q \in Process : cred[q] # NoLease => cred[q].fence \in Nat /\ cred[q].fence <= store.fence
      BY DEF IInv, CredentialFences, TypeOK, Lease
    <2>6. CredentialFences'
      <3>1. CASE t.op = "acquire"
        <4>1. /\ store'.fence = store.fence + 1
              /\ store'.lease # NoLease
              /\ store'.lease.fence = store.fence + 1
          BY <2>1, <2>3, <3>1 DEF Planned
        <4>2. \A q \in Process : cred'[q] # NoLease =>
                 \/ cred'[q].fence <= store.fence /\ cred'[q].fence \in Nat
                    /\ cred[q] # NoLease /\ cred'[q].fence = cred[q].fence
                 \/ q = p /\ cred'[q].fence = store.fence + 1
          BY <2>4, <2>5, <4>1
        <4> QED
          BY <2>2, <4>1, <4>2 DEF IInv, CredentialFences
      <3>2. CASE t.op # "acquire"
        <4>1. \A q \in Process : cred'[q] # NoLease =>
                 cred[q] # NoLease /\ cred'[q].fence = cred[q].fence
          BY <2>4, <3>2
        <4> QED
          BY <2>3, <2>5, <3>2, <4>1 DEF IInv, CredentialFences
      <3> QED
        BY <3>1, <3>2
    <2>7. LogFenced'
      <3>1. CASE t.op = "mutate"
        <4>1. store'.data = Append(store.data, store.fence) /\ store'.fence = store.fence
          BY <2>1, <2>2, <2>3, <3>1 DEF Planned, IInv, CredentialFences
        <4> QED
          BY <2>2, <4>1, LogAppend DEF IInv, LogFenced
      <3>2. CASE t.op # "mutate"
        <4>1. store'.data = store.data
          BY <2>1, <3>2 DEF Planned
        <4>2. \A i \in 1 .. Len(store.data) : store.data[i] \in Nat
          BY <2>2
        <4> QED
          BY <2>2, <2>3, <4>1, <4>2 DEF IInv, LogFenced
      <3> QED
        BY <3>1, <3>2
    <2>8. (launched <= store.fence)'
      BY <2>1, <2>2, <2>3 DEF IInv, TypeOK
    <2> QED
      BY <1>3, <2>6, <2>7, <2>8
  <1> QED
    BY <1>4, <1>5
-----------------------------------------------------------------------------
LEMMA InitInv == Init => IInv
  <1> SUFFICES ASSUME Init PROVE IInv
    OBVIOUS
  <1>1. TypeOK
    BY InitialTypes DEF Init, TypeOK
  <1>2. \A p \in Process : txn[p] = Idle /\ cred[p] = NoLease
    BY DEF Init
  <1>3. store.lease = NoLease /\ store.fence = 0 /\ store.data = <<>> /\ launched = 0
    BY DEF Init, InitialState
  <1> QED
    BY <1>1, <1>2, <1>3, InitialTypes
    DEF IInv, LockHeld, CredentialFences, Presented, PlansHold, NothingMissed, LogFenced

\* Every step keeps the inductive invariant.
LEMMA InvStep == IInv /\ [Next]_vars => IInv'
  <1> SUFFICES ASSUME IInv, [Next]_vars PROVE IInv'
    OBVIOUS
  <1> DEFINE Rest == /\ LockHeld
                     /\ CredentialFences
                     /\ Presented
                     /\ PlansHold
                     /\ NothingMissed
                     /\ LogFenced
                     /\ launched <= store.fence
  <1>0. TypeOK'
    BY TypeStep DEF IInv
  <1>1. CASE UNCHANGED vars \/ ClockStep
    <2>1. UNCHANGED <<store, lock, cred, txn, launched>>
      BY <1>1 DEF vars, ClockStep
    <2> QED
      BY <1>0, <2>1 DEF IInv, LockHeld, CredentialFences, Presented, PlansHold,
         NothingMissed, LogFenced
  <1>2. ASSUME NEW p \in Process, Step(p) PROVE Rest'
    <2>1. ASSUME NEW ttl \in Ttl, Acquire(p, ttl) PROVE Rest'
      <3> DEFINE lease == [fence |-> store.fence + 1, expires |-> clock + ttl]
                 next == Updated(store, clock, lease.fence, lease, store.data)
                 t == [op |-> "acquire", stage |-> "staged", lease |-> lease,
                       base |-> store, next |-> next]
      <3>1. /\ Begin(p, "acquire", "staged", lease, next)
            /\ store.lease # NoLease => store.lease.expires <= clock
        <4>1. store.lease # NoLease => store.lease.expires \in Nat
          BY DEF IInv, TypeOK, Document, Lease
        <4> QED
          BY <2>1, <4>1, BoundsAssumption DEF Acquire, Unexpired, IInv, TypeOK, Instant
      <3>2. lease \in Lease
        BY BoundsAssumption DEF IInv, TypeOK, Document, Lease, Ttl, Instant
      <3>3. Planned(t)
        BY <3>1, <3>2, NoLeaseAssumption DEF Planned, Updated
      <3> QED
        BY <3>1, <3>3, BeginStep DEF Operation, Stage
    <2>2. ASSUME NEW ttl \in Ttl, Renew(p, ttl) PROVE Rest'
      <3> DEFINE lease == [fence |-> cred[p].fence, expires |-> clock + ttl]
                 next == Updated(store, clock, store.fence, lease, store.data)
                 t == [op |-> "renew", stage |-> "staged", lease |-> cred[p],
                       base |-> store, next |-> next]
      <3>1. /\ Begin(p, "renew", "staged", cred[p], next)
            /\ cred[p] # NoLease
            /\ store.lease = cred[p]
            /\ cred[p].expires > clock
        BY <2>2 DEF Renew, Holds, Unexpired
      <3>2. lease \in Lease
        BY <3>1, BoundsAssumption DEF IInv, TypeOK, Lease, Ttl, Instant
      <3>3. Planned(t)
        BY <3>1, <3>2, NoLeaseAssumption DEF Planned, Updated
      <3> QED
        BY <3>1, <3>3, BeginStep DEF Operation, Stage
    <2>3. CASE Release(p)
      <3> DEFINE next == Updated(store, clock, store.fence, NoLease, store.data)
                 t == [op |-> "release", stage |-> "staged", lease |-> cred[p],
                       base |-> store, next |-> next]
      <3>1. /\ Begin(p, "release", "staged", cred[p], next)
            /\ cred[p] # NoLease
            /\ store.lease = cred[p]
        BY <2>3 DEF Release, Holds
      <3>2. Planned(t)
        BY DEF Planned, Updated
      <3> QED
        BY <3>1, <3>2, BeginStep DEF Operation, Stage
    <2>4. CASE Mutate(p)
      BY <2>4, BeginStep DEF Mutate, Holds, Operation, Stage
    <2>5. CASE NestedMutate(p)
      BY <2>5, NestedMutateStep
    <2>6. CASE FinishChange(p) \/ Validate(p) \/ GuardCheck(p)
      BY <2>6, ProgressStep
    <2>7. CASE Replace(p) \/ Launch(p)
      BY <2>7, EffectStep
    <2>8. CASE GuardEpoch(p)
      <3>1. cred[p].fence = store.fence
        BY <2>8 DEF GuardEpoch, EpochValid, IInv, CredentialFences
      <3> QED
        BY <2>8, <3>1, BeginStep DEF GuardEpoch, EpochValid, Operation, Stage
    <2>9. CASE Snapshot(p) \/ EnterTransaction(p) \/ LeaveTransaction(p)
      <3>1. UNCHANGED <<store, cred, txn, launched>>
        BY <2>9 DEF Snapshot, EnterTransaction, LeaveTransaction
      <3>2. LockHeld'
        BY <2>9, NoProcessAssumption
        DEF Snapshot, EnterTransaction, LeaveTransaction, Lock, IInv, LockHeld
      <3> QED
        BY <3>1, <3>2 DEF IInv, CredentialFences, Presented, PlansHold, NothingMissed, LogFenced
    <2>10. CASE Abort(p) \/ Crash(p)
      BY <2>10, EndStep
    <2> QED
      BY <1>2, <2>1, <2>2, <2>3, <2>4, <2>5, <2>6, <2>7, <2>8, <2>9, <2>10 DEF Step
  <1> QED
    BY <1>0, <1>1, <1>2 DEF Next, IInv

LEMMA Invariance == Spec => []IInv
  BY InitInv, InvStep, PTL DEF Spec
-----------------------------------------------------------------------------
\* The document in the file, the lock and every operation keep their types.
THEOREM TypeCorrect == Spec => []TypeOK
  <1>1. IInv => TypeOK
    BY DEF IInv
  <1> QED
    BY <1>1, Invariance, PTL

\* At most one process has the credential that the document accepts, whatever
\* the clock does and however many processes use the same owner name.
THEOREM OneHolder == Spec => []SoleHolder
  <1>1. IInv => SoleHolder
    BY DEF IInv, CredentialFences, SoleHolder
  <1> QED
    BY <1>1, Invariance, PTL

\* A change of an older epoch never follows one of a newer epoch.
THEOREM Fencing == Spec => []LogFenced
  <1>1. IInv => LogFenced
    BY DEF IInv
  <1> QED
    BY <1>1, Invariance, PTL

\* One owner of an epoch, in the credentials and in the log (Fenced).
THEOREM EpochsFenced == Spec => []Fenced
  <1>1. SoleHolder /\ LogFenced => Fenced
    BY DEF Fenced
  <1> QED
    BY <1>1, OneHolder, Fencing, PTL

-----------------------------------------------------------------------------
\* Only a replace and a commit inside a change callback write the document.
LEMMA Writers ==
    ASSUME [Next]_vars, ~UNCHANGED store
    PROVE  \E p \in Process : Replace(p) \/ NestedMutate(p)
  <1>1. Next
    BY DEF vars
  <1>2. PICK p \in Process : Step(p)
    BY <1>1 DEF Next, ClockStep
  <1> QED
    BY <1>2 DEF Step, Acquire, Renew, Release, Mutate, GuardEpoch, Begin, FinishChange,
       Validate, GuardCheck, Launch, Snapshot, EnterTransaction, LeaveTransaction, Abort, Crash

\* A replace commits the plan made from the document it replaces.
LEMMA ReplacePlanned ==
    ASSUME IInv, NEW p \in Process, Replace(p)
    PROVE  /\ Planned(txn[p])
           /\ txn[p].base = store
           /\ txn[p].next = store'
           /\ txn[p].op # "acquire" => store.lease = cred[p] /\ txn[p].lease = cred[p]
  BY DEF Replace, IInv, PlansHold, NothingMissed, Presented, Planned

\* Whatever is committed, the log so far stays as it is.
LEMMA LogExtended ==
    ASSUME IInv, [Next]_vars
    PROVE  /\ Len(store.data) <= Len(store'.data)
           /\ \A i \in 1 .. Len(store.data) : store'.data[i] = store.data[i]
  <1>1. store.data \in Seq(Nat) /\ Len(store.data) \in Nat
    BY DEF IInv, TypeOK, Document
  <1>2. ASSUME NEW x \in Nat, store'.data = Append(store.data, x)
        PROVE  /\ Len(store.data) <= Len(store'.data)
               /\ \A i \in 1 .. Len(store.data) : store'.data[i] = store.data[i]
    BY <1>1, <1>2
  <1>3. CASE store'.data = store.data
    BY <1>1, <1>3
  <1>4. ASSUME NEW p \in Process, Replace(p)
        PROVE  store'.data = store.data \/ \E x \in Nat : store'.data = Append(store.data, x)
    <2>1. CASE txn[p].op = "mutate"
      <3>1. cred[p] # NoLease
        BY <2>1 DEF IInv, Presented
      <3>2. txn[p].lease.fence \in Nat
        BY <1>4, <2>1, <3>1, ReplacePlanned DEF IInv, TypeOK, Lease
      <3> QED
        BY <1>4, <2>1, <3>2, ReplacePlanned DEF Planned
    <2>2. CASE txn[p].op # "mutate"
      BY <1>4, <2>2, ReplacePlanned DEF Planned
    <2> QED
      BY <2>1, <2>2
  <1>5. ASSUME NEW p \in Process, NestedMutate(p)
        PROVE  \E x \in Nat : store'.data = Append(store.data, x)
    <2>1. cred[p].fence \in Nat
      BY <1>5 DEF NestedMutate, Holds, IInv, TypeOK, Lease
    <2> QED
      BY <1>5, <2>1 DEF NestedMutate, Updated
  <1> QED
    BY <1>2, <1>3, <1>4, <1>5, Writers

\* No committed change is ever lost or rewritten.
THEOREM ChangesKept == Spec => NoLostUpdate
  <1>1. IInv /\ [Next]_vars => [/\ Len(store.data) <= Len(store'.data)
                                /\ \A i \in 1 .. Len(store.data) :
                                      store'.data[i] = store.data[i]]_vars
    BY LogExtended
  <1> QED
    BY <1>1, Invariance, PTL DEF Spec, NoLostUpdate

\* A worker is started for the epoch that is current when it starts.
THEOREM LaunchesFenced == Spec => LaunchFenced
  <1>1. ASSUME IInv, [Next]_vars, launched' # launched
        PROVE  /\ store.lease # NoLease
               /\ launched' = store.fence
               /\ launched <= launched'
    <2>1. PICK p \in Process : Launch(p)
      <3>1. Next
        BY <1>1 DEF vars
      <3>2. PICK p \in Process : Step(p)
        BY <1>1, <3>1 DEF Next, ClockStep
      <3> QED
        BY <1>1, <3>2 DEF Step, Acquire, Renew, Release, Mutate, GuardEpoch, Begin,
           NestedMutate, FinishChange, Validate, Replace, GuardCheck, Snapshot,
           EnterTransaction, LeaveTransaction, Abort, Crash
    <2> QED
      BY <1>1, <2>1 DEF Launch, IInv, NothingMissed
  <1>2. IInv /\ [Next]_vars =>
           [launched' # launched => /\ store.lease # NoLease
                                    /\ launched' = store.fence
                                    /\ launched <= launched']_vars
    BY <1>1
  <1> QED
    BY <1>2, Invariance, PTL DEF Spec, LaunchFenced

\* A new epoch follows a release or the recorded end of the lease before.
THEOREM NeverUsurped == Spec => NoUsurpation
  <1>1. ASSUME IInv, [Next]_vars, store'.fence # store.fence
        PROVE  /\ store'.fence = store.fence + 1
               /\ store.lease = NoLease \/ store.lease.expires <= store'.observed
    <2>1. PICK p \in Process : Replace(p)
      BY <1>1, Writers DEF NestedMutate, Updated
    <2> QED
      BY <1>1, <2>1, ReplacePlanned DEF Planned
  <1>2. IInv /\ [Next]_vars =>
           [store'.fence # store.fence =>
              /\ store'.fence = store.fence + 1
              /\ store.lease = NoLease \/ store.lease.expires <= store'.observed]_vars
    BY <1>1
  <1> QED
    BY <1>2, Invariance, PTL DEF Spec, NoUsurpation

\* A lease that the document shows to be over is not extended.
THEOREM NeverRevived == Spec => NoRevival
  <1>1. ASSUME IInv, [Next]_vars, store.lease # NoLease, store'.lease # NoLease,
               store'.fence = store.fence, store'.lease # store.lease
        PROVE  store.lease.expires > store'.observed
    <2>1. PICK p \in Process : Replace(p)
      BY <1>1, Writers DEF NestedMutate, Updated
    <2>2. store.fence \in Nat
      BY <1>1 DEF IInv, TypeOK, Document
    <2> QED
      BY <1>1, <2>1, <2>2, ReplacePlanned DEF Planned
  <1>2. IInv /\ [Next]_vars =>
           [(/\ store.lease # NoLease
             /\ store'.lease # NoLease
             /\ store'.fence = store.fence
             /\ store'.lease # store.lease) => store.lease.expires > store'.observed]_vars
    BY <1>1
  <1> QED
    BY <1>2, Invariance, PTL DEF Spec, NoRevival

\* Epochs begin after one another, stay ended and start workers in time (TermsKept).
THEOREM EpochsInOrder == Spec => TermsKept
  BY NeverUsurped, NeverRevived, LaunchesFenced DEF TermsKept

-----------------------------------------------------------------------------
\* The epoch a process believes in, in the register that the store implements.
Known(p) == IF cred[p] = NoLease THEN 0 ELSE cred[p].fence

\* A replace is an opening, a write or a closing of the register, or a stutter.
LEMMA ReplaceRefines ==
    ASSUME IInv, NEW p \in Process, Replace(p)
    PROVE  Register!Next \/ UNCHANGED Register!vars
  <1> DEFINE t == txn[p]
             known == [q \in Process |-> Known(q)]
  <1>1. /\ Planned(t)
        /\ t.base = store
        /\ t.next = store'
        /\ t.op # "acquire" => store.lease = cred[p] /\ t.lease = cred[p] /\ cred[p] # NoLease
        /\ UNCHANGED launched
    BY ReplacePlanned DEF Replace, IInv, Presented, Planned
  <1>2. \A q \in Process : cred'[q] = cred[q] \/ (q = p /\ cred'[q] = Outcome(p))
    <2>1. cred' = cred \/ cred' = [cred EXCEPT ![p] = Outcome(p)]
      BY DEF Replace
    <2> QED
      BY <2>1 DEF IInv, TypeOK
  <1>3. \/ \A q \in Process : cred'[q] = cred[q]
        \/ \A q \in Process : cred'[q] = IF q = p THEN Outcome(p) ELSE cred[q]
    BY <1>2
  <1>4. t.op # "acquire" => /\ known[p] = store.fence
                            /\ store.lease # NoLease
                            /\ store'.fence = store.fence
    BY <1>1 DEF IInv, CredentialFences, Known, Planned
  <1>5. CASE t.op = "acquire"
    <2>1. /\ store'.fence = store.fence + 1
          /\ store'.lease # NoLease
          /\ store'.lease.fence = store.fence + 1
          /\ store'.data = store.data
          /\ Outcome(p) = store'.lease
      BY <1>1, <1>5 DEF Planned, Outcome
    <2>2. known' = known \/ known' = [known EXCEPT ![p] = store.fence + 1]
      BY <1>3, <2>1 DEF Known
    <2>3. Register!Open(p)
      BY <1>1, <2>1, <2>2 DEF Register!Open, Known
    <2> QED
      BY <2>3 DEF Register!Next
  <1>6. CASE t.op = "mutate"
    <2>1. /\ store'.lease = store.lease
          /\ store'.data = Append(store.data, store.fence)
          /\ Outcome(p) = cred[p]
      BY <1>1, <1>4, <1>6 DEF Planned, Outcome, IInv, CredentialFences
    <2>2. known' = known
      BY <1>2, <2>1 DEF Known
    <2>3. Register!Write(p)
      BY <1>1, <1>4, <1>6, <2>1, <2>2 DEF Register!Write, Register!Current, Known
    <2> QED
      BY <2>3 DEF Register!Next
  <1>7. CASE t.op = "release"
    <2>1. store'.lease = NoLease /\ store'.data = store.data /\ Outcome(p) = NoLease
      BY <1>1, <1>7 DEF Planned, Outcome
    <2>2. known' = known \/ known' = [known EXCEPT ![p] = 0]
      BY <1>3, <2>1 DEF Known
    <2>3. Register!Close(p)
      BY <1>1, <1>4, <1>7, <2>1, <2>2 DEF Register!Close, Register!Current, Known
    <2> QED
      BY <2>3 DEF Register!Next
  <1>8. CASE t.op = "renew"
    <2>1. /\ store'.lease # NoLease
          /\ store'.lease.fence = cred[p].fence
          /\ store'.data = store.data
          /\ Outcome(p) = store'.lease
      BY <1>1, <1>8 DEF Planned, Outcome
    <2>2. known' = known
      BY <1>1, <1>2, <1>8, <2>1 DEF Known
    <2> QED
      BY <1>1, <1>4, <1>8, <2>1, <2>2 DEF Register!vars, Known
  <1> QED
    BY <1>1, <1>5, <1>6, <1>7, <1>8 DEF Planned

\* The store implements the register of epochs.
THEOREM Refinement == Spec => RegisterSpec
  <1> DEFINE known == [q \in Process |-> Known(q)]
  <1>1. Init => Register!Init
    BY DEF Init, InitialState, Register!Init
  <1>2. ASSUME IInv, [Next]_vars PROVE Register!Next \/ UNCHANGED Register!vars
    <2>1. ASSUME UNCHANGED <<store, cred, launched>>
          PROVE  UNCHANGED Register!vars
      BY <2>1 DEF Register!vars
    <2>2. CASE UNCHANGED vars \/ ClockStep
      BY <2>1, <2>2 DEF vars, ClockStep
    <2>3. ASSUME NEW p \in Process, Step(p)
          PROVE  Register!Next \/ UNCHANGED Register!vars
      <3>1. CASE NestedMutate(p)
        <4>1. /\ cred[p] # NoLease
              /\ store.lease = cred[p]
              /\ UNCHANGED <<cred, launched>>
              /\ cred[p].fence = store.fence
          BY <1>2, <3>1 DEF NestedMutate, Holds, IInv, CredentialFences
        <4>2. /\ store'.fence = store.fence
              /\ store'.lease = store.lease
              /\ store'.data = Append(store.data, store.fence)
          BY <3>1, <4>1 DEF NestedMutate, Updated
        <4>3. Register!Write(p)
          BY <4>1, <4>2 DEF Register!Write, Register!Current
        <4> QED
          BY <4>3 DEF Register!Next
      <3>2. CASE Replace(p)
        BY <1>2, <3>2, ReplaceRefines
      <3>3. CASE Launch(p)
        <4>1. /\ UNCHANGED <<store, cred>>
              /\ launched' = store.fence
              /\ store.lease # NoLease
              /\ txn[p].op = "guard"
          BY <1>2, <3>3 DEF Launch, IInv, NothingMissed
        <4>2. known[p] = store.fence
          BY <1>2, <3>3, <4>1 DEF IInv, Presented, NothingMissed, Launch, Known
        <4>3. Register!Launch(p)
          BY <4>1, <4>2 DEF Register!Launch, Register!Current, Known
        <4> QED
          BY <4>3 DEF Register!Next
      <3>4. CASE Crash(p)
        <4>1. /\ UNCHANGED <<store, launched>>
              /\ known' = [known EXCEPT ![p] = 0]
          BY <1>2, <3>4 DEF Crash, Known, IInv, TypeOK
        <4>2. Register!Forget(p)
          BY <4>1 DEF Register!Forget, Known
        <4> QED
          BY <4>2 DEF Register!Next
      <3>5. CASE UNCHANGED <<store, cred, launched>>
        BY <2>1, <3>5
      <3> QED
        BY <2>3, <3>1, <3>2, <3>3, <3>4, <3>5
        DEF Step, Acquire, Renew, Release, Mutate, GuardEpoch, Begin, FinishChange,
            Validate, GuardCheck, Snapshot, EnterTransaction, LeaveTransaction, Abort
    <2> QED
      BY <1>2, <2>2, <2>3 DEF Next
  <1>3. IInv /\ [Next]_vars => [Register!Next]_(Register!vars)
    BY <1>2
  <1> QED
    BY <1>1, <1>3, Invariance, PTL DEF Spec, RegisterSpec, Register!Spec
=============================================================================
