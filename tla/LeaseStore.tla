----------------------------- MODULE LeaseStore -----------------------------
(***************************************************************************)
(* OrchestrationStore (orchestration/store.py): one JSON document guarded  *)
(* by a cross-process file lock, holding a lease with a fencing number and *)
(* the data its holder may change.                                         *)
(*                                                                         *)
(* Every process may present a credential; all of them use the same owner  *)
(* name, the case in which only the fence tells them apart.  The steps of  *)
(* an operation are separate actions, so the shared clock may move, and    *)
(* move back, between any two of them, the process may crash, and an error *)
(* may end the operation.  The data is the log of committed changes: each  *)
(* change appends the fence of its writer.                                 *)
(***************************************************************************)
EXTENDS Naturals, Sequences

CONSTANTS
    Process,      \* the processes that open the store
    NoProcess,    \* holder of a free file lock
    NoLease,      \* an absent lease or credential
    MaxClock,     \* bound: the latest instant time.time() returns
    MaxTtl,       \* bound: the longest time to live asked for
    MaxRevision   \* bound: no operation begins at this revision

ASSUME NoProcessAssumption == NoProcess \notin Process
ASSUME BoundsAssumption ==
    MaxClock \in Nat /\ MaxTtl \in Nat /\ MaxRevision \in Nat

VARIABLES
    clock,      \* what time.time() returns now, the same for every process
    store,      \* the document in state.json
    lock,       \* the process that holds state.lock
    scope,      \* the lock is held by transaction(), across operations
    seen,       \* seen[p]: the latest clock value of p's store object
    cred,       \* cred[p]: the SupervisorLease object p would present
    txn,        \* txn[p]: the operation p is in the middle of
    launched    \* the fence of the latest worker started under guard_epoch

vars == <<clock, store, lock, scope, seen, cred, txn, launched>>

Instant == 0 .. MaxClock
Ttl == 1 .. MaxTtl

Lease == [fence : Nat, expires : Nat]
Document == [revision : Nat, fence : Nat, lease : Lease \cup {NoLease},
             observed : Nat, data : Seq(Nat)]

ASSUME NoLeaseAssumption == NoLease \notin Lease

InitialState ==
    [revision |-> 0, fence |-> 0, lease |-> NoLease, observed |-> 0, data |-> <<>>]

Operation == {"none", "acquire", "renew", "release", "mutate", "guard"}
Stage == {"idle", "change", "staged", "replace", "guarded", "launch"}

Transaction == [op : Operation, stage : Stage, lease : Lease \cup {NoLease},
                base : Document, next : Document]

Idle == [op |-> "none", stage |-> "idle", lease |-> NoLease,
         base |-> InitialState, next |-> InitialState]

Init ==
    /\ clock \in Instant
    /\ store = InitialState
    /\ lock = NoProcess
    /\ scope = FALSE
    /\ seen = [p \in Process |-> 0]
    /\ cred = [p \in Process |-> NoLease]
    /\ txn = [p \in Process |-> Idle]
    /\ launched = 0
-----------------------------------------------------------------------------

\* A lease is over at the instant it expires.
Unexpired(lease, now) == lease.expires > now

\* p may read the clock: it did not go back behind what the document or p saw.
ClockAccepted(p, document) == clock >= document.observed /\ clock >= seen[p]

SeeClock(p) == seen' = [seen EXCEPT ![p] = clock]

\* Mutant of Holds: any lease is as good as the one of the document.
HoldsSome(lease, document, now) ==
    /\ lease # NoLease
    /\ document.lease # NoLease
    /\ Unexpired(lease, now)

\* Mutant of Holds: the lease may have run out.
HoldsExpired(lease, document, now) == lease # NoLease /\ document.lease = lease

\* _require_lease: the exact lease of the document, still running.
Holds(lease, document, now) ==
    /\ lease # NoLease
    /\ document.lease = lease
    /\ Unexpired(lease, now)

CanLock(p) == txn[p] = Idle /\ (lock = NoProcess \/ (lock = p /\ scope))

Lock(p) == lock' = p

\* The lock is re-entrant: inside transaction() the operation keeps it.
Unlock(p) == lock' = IF scope THEN p ELSE NoProcess

Begin(p, op, stage, lease, next) ==
    /\ CanLock(p)
    /\ store.revision < MaxRevision
    /\ ClockAccepted(p, store)
    /\ Lock(p)
    /\ SeeClock(p)
    /\ txn' = [txn EXCEPT ![p] = [op |-> op, stage |-> stage, lease |-> lease,
                                  base |-> store, next |-> next]]
    /\ UNCHANGED <<clock, store, scope, cred, launched>>

\* Mutant of Updated: the clock of the decision is not recorded.
UpdatedUndated(document, now, fence, lease, data) ==
    [revision |-> document.revision + 1, fence |-> fence, lease |-> lease, data |-> data]

\* Mutant of Updated: the last fence handed out is not recorded.
UpdatedUnfenced(document, now, fence, lease, data) ==
    [revision |-> document.revision + 1, fence |-> document.fence, lease |-> lease,
     observed |-> now, data |-> data]

\* The document an operation commits: one revision on, dated by its decision.
Updated(document, now, fence, lease, data) ==
    [revision |-> document.revision + 1, fence |-> fence, lease |-> lease,
     observed |-> now, data |-> data]
-----------------------------------------------------------------------------
Acquire(p, ttl) ==
    LET lease == [fence |-> store.fence + 1, expires |-> clock + ttl]
    IN  /\ ~(store.lease # NoLease /\ Unexpired(store.lease, clock))
        /\ Begin(p, "acquire", "staged", lease,
                 Updated(store, clock, lease.fence, lease, store.data))

Renew(p, ttl) ==
    /\ Holds(cred[p], store, clock)
    /\ Begin(p, "renew", "staged", cred[p],
             Updated(store, clock, store.fence,
                     [fence |-> cred[p].fence, expires |-> clock + ttl], store.data))

Release(p) ==
    /\ Holds(cred[p], store, clock)
    /\ Begin(p, "release", "staged", cred[p],
             Updated(store, clock, store.fence, NoLease, store.data))

Mutate(p) ==
    /\ Holds(cred[p], store, clock)
    /\ Begin(p, "mutate", "change", cred[p], store)

\* The change callback commits another change of its own: the lock lets it in.
NestedMutate(p) ==
    /\ txn[p].stage = "change"
    /\ store.revision < MaxRevision
    /\ ClockAccepted(p, store)
    /\ Holds(cred[p], store, clock)
    /\ store' = Updated(store, clock, store.fence, store.lease,
                        Append(store.data, cred[p].fence))
    /\ SeeClock(p)
    /\ UNCHANGED <<clock, lock, scope, cred, txn, launched>>

\* The callback returns; the lease it began with must still be running.
FinishChange(p) ==
    /\ txn[p].stage = "change"
    /\ ClockAccepted(p, txn[p].base)
    /\ Holds(txn[p].lease, txn[p].base, clock)
    /\ SeeClock(p)
    /\ LET base == txn[p].base
       IN  txn' = [txn EXCEPT
                    ![p].stage = "staged",
                    ![p].next = Updated(base, clock, base.fence, base.lease,
                                        Append(base.data, txn[p].lease.fence))]
    /\ UNCHANGED <<clock, store, lock, scope, cred, launched>>

\* What the operation still demands of its lease just before the replace.
LeaseStillValid(t) ==
    CASE t.op = "acquire" -> Unexpired(t.lease, clock)
      [] t.op = "renew" -> Holds(t.lease, t.base, clock) /\ Unexpired(t.next.lease, clock)
      [] OTHER -> Holds(t.lease, t.base, clock)

\* Mutant of Validate: the revision that was read is not compared.
ValidateUnread(p) ==
    /\ txn[p].stage = "staged"
    /\ ClockAccepted(p, txn[p].next)
    /\ LeaseStillValid(txn[p])
    /\ SeeClock(p)
    /\ txn' = [txn EXCEPT ![p].stage = "replace"]
    /\ UNCHANGED <<clock, store, lock, scope, cred, launched>>

\* _commit up to os.replace: nobody committed since the read.
Validate(p) ==
    /\ txn[p].stage = "staged"
    /\ store = txn[p].base
    /\ ClockAccepted(p, txn[p].next)
    /\ LeaseStillValid(txn[p])
    /\ SeeClock(p)
    /\ txn' = [txn EXCEPT ![p].stage = "replace"]
    /\ UNCHANGED <<clock, store, lock, scope, cred, launched>>

\* The credential p ends up with, if it learns that the commit happened.
Outcome(p) ==
    CASE txn[p].op \in {"acquire", "renew"} -> txn[p].next.lease
      [] txn[p].op = "release" -> NoLease
      [] OTHER -> cred[p]

\* os.replace is atomic.  A failing fsync of the directory raises after it.
Replace(p) ==
    /\ txn[p].stage = "replace"
    /\ store' = txn[p].next
    /\ \/ cred' = [cred EXCEPT ![p] = Outcome(p)]
       \/ UNCHANGED cred
    /\ Unlock(p)
    /\ txn' = [txn EXCEPT ![p] = Idle]
    /\ UNCHANGED <<clock, scope, seen, launched>>
-----------------------------------------------------------------------------
\* Mutant of EpochValid: some lease is running, whatever its fence.
EpochValidSome(fence) == store.lease # NoLease /\ Unexpired(store.lease, clock)

\* guard_epoch compares the owner and the fence, not the expiry it was told.
EpochValid(fence) ==
    /\ store.lease # NoLease
    /\ store.lease.fence = fence
    /\ Unexpired(store.lease, clock)

GuardEpoch(p) ==
    /\ cred[p] # NoLease
    /\ EpochValid(cred[p].fence)
    /\ Begin(p, "guard", "guarded", cred[p], store)

GuardCheck(p) ==
    /\ txn[p].stage \in {"guarded", "launch"}
    /\ ClockAccepted(p, store)
    /\ EpochValid(txn[p].lease.fence)
    /\ SeeClock(p)
    /\ txn' = [txn EXCEPT ![p].stage = "launch"]
    /\ UNCHANGED <<clock, store, lock, scope, cred, launched>>

\* The guarded block acts after its last check, without another one.
Launch(p) ==
    /\ txn[p].stage = "launch"
    /\ launched' = txn[p].lease.fence
    /\ Unlock(p)
    /\ txn' = [txn EXCEPT ![p] = Idle]
    /\ UNCHANGED <<clock, store, scope, seen, cred>>
-----------------------------------------------------------------------------
\* snapshot(), or an operation that is refused after it read the clock.
Snapshot(p) ==
    /\ CanLock(p)
    /\ ClockAccepted(p, store)
    /\ SeeClock(p)
    /\ UNCHANGED <<clock, store, lock, scope, cred, txn, launched>>

EnterTransaction(p) ==
    /\ lock = NoProcess
    /\ Lock(p)
    /\ scope' = TRUE
    /\ UNCHANGED <<clock, store, seen, cred, txn, launched>>

LeaveTransaction(p) ==
    /\ lock = p /\ scope /\ txn[p] = Idle
    /\ lock' = NoProcess
    /\ scope' = FALSE
    /\ UNCHANGED <<clock, store, seen, cred, txn, launched>>

\* Any check that fails, any I/O error: the operation raises, nothing is written.
Abort(p) ==
    /\ txn[p] # Idle
    /\ Unlock(p)
    /\ txn' = [txn EXCEPT ![p] = Idle]
    /\ UNCHANGED <<clock, store, scope, seen, cred, launched>>

\* The operating system drops the lock of a dead process.
Crash(p) ==
    /\ cred' = [cred EXCEPT ![p] = NoLease]
    /\ seen' = [seen EXCEPT ![p] = 0]
    /\ txn' = [txn EXCEPT ![p] = Idle]
    /\ IF lock = p
       THEN lock' = NoProcess /\ scope' = FALSE
       ELSE UNCHANGED <<lock, scope>>
    /\ UNCHANGED <<clock, store, launched>>

\* time.time() moves on, or is set back.
ClockStep ==
    /\ clock' \in Instant \ {clock}
    /\ UNCHANGED <<store, lock, scope, seen, cred, txn, launched>>

Step(p) ==
    \/ \E ttl \in Ttl : Acquire(p, ttl) \/ Renew(p, ttl)
    \/ Release(p)
    \/ Mutate(p)
    \/ NestedMutate(p)
    \/ FinishChange(p)
    \/ Validate(p)
    \/ Replace(p)
    \/ GuardEpoch(p)
    \/ GuardCheck(p)
    \/ Launch(p)
    \/ Snapshot(p)
    \/ EnterTransaction(p)
    \/ LeaveTransaction(p)
    \/ Abort(p)
    \/ Crash(p)

Next == ClockStep \/ \E p \in Process : Step(p)

Spec == Init /\ [][Next]_vars
-----------------------------------------------------------------------------
\* Type invariant of the document, the lock and the operations in progress.
TypeOK ==
    /\ clock \in Instant
    /\ store \in Document
    /\ lock \in Process \cup {NoProcess}
    /\ scope \in BOOLEAN
    /\ seen \in [Process -> Nat]
    /\ cred \in [Process -> Lease \cup {NoLease}]
    /\ txn \in [Process -> Transaction]
    /\ launched \in Nat

\* acquire/renew/_require_lease: of all the credentials around, old or new, at
\* most one process has the one the document accepts, even though every process
\* uses the same owner name and replies of committed operations get lost.
SoleHolder ==
    \A p, q \in Process :
        (store.lease # NoLease /\ cred[p] = store.lease /\ cred[q] = store.lease) => p = q

\* mutate/_commit: once a change of a newer epoch is in the log no change of an
\* older epoch follows, whatever the holder of the older one was in the middle of.
LogFenced ==
    /\ \A i, j \in 1 .. Len(store.data) : i <= j => store.data[i] <= store.data[j]
    /\ \A i \in 1 .. Len(store.data) : store.data[i] <= store.fence

\* Both: an epoch has one owner, in the credentials and in what is written.
Fenced == SoleHolder /\ LogFenced

\* _commit: a committed change is never lost or rewritten, not even by the outer
\* mutate of a change callback that itself committed through the re-entrant lock.
NoLostUpdate ==
    [][/\ Len(store.data) <= Len(store'.data)
       /\ \A i \in 1 .. Len(store.data) : store'.data[i] = store.data[i]]_vars

\* guard_epoch: a worker is only started for the epoch that is current at that
\* moment, so no start follows a newer acquire.
LaunchFenced ==
    [][launched' # launched =>
          /\ store.lease # NoLease
          /\ launched' = store.fence
          /\ launched <= launched']_vars

\* acquire: a lease is superseded only when it was released or when it had
\* expired at the instant recorded with the takeover.
NoUsurpation ==
    [][store'.fence # store.fence =>
          /\ store'.fence = store.fence + 1
          /\ store.lease = NoLease \/ store.lease.expires <= store'.observed]_vars

\* renew: a lease that the document shows to be over is never extended, even
\* when the clock is set back afterwards.
NoRevival ==
    [][(/\ store.lease # NoLease
        /\ store'.lease # NoLease
        /\ store'.fence = store.fence
        /\ store'.lease # store.lease)
          => store.lease.expires > store'.observed]_vars

\* acquire, renew, guard_epoch: an epoch begins after the end of the previous one,
\* stays ended, and starts workers only as long as it is the latest.
TermsKept == NoUsurpation /\ NoRevival /\ LaunchFenced

\* The store implements the register of epochs.
Register == INSTANCE EpochRegister WITH
    epoch <- store.fence,
    open <- store.lease # NoLease,
    known <- [p \in Process |-> IF cred[p] = NoLease THEN 0 ELSE cred[p].fence],
    log <- store.data,
    launched <- launched

RegisterSpec == Register!Spec
=============================================================================
