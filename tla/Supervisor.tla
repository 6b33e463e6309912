----------------------------- MODULE Supervisor -----------------------------
(***************************************************************************)
(* RequirementSupervisor (orchestration/supervisor.py) for one Requirement *)
(* with the controllers that may run it, and the worker execution port as  *)
(* ports.py describes it and workers.py behaves towards its caller.        *)
(*                                                                         *)
(* A controller is sequential.  Every store.mutate is one action, guarded  *)
(* by the lease; each call to the port or to the verification executor is  *)
(* an action of its own, after the check of the lease that precedes it, so *)
(* the lease may be lost and taken over in between.  The store itself is   *)
(* the register of epochs that LeaseStore implements.                      *)
(***************************************************************************)
EXTENDS Naturals, FiniteSets, FiniteSetsExt

CONSTANTS
    Controller,      \* processes with a supervisor and a worker port
    None,            \* no controller
    Task,            \* task numbers, in the order of the plan
    Root,            \* worktrees; two different ones do not overlap
    InitialPlans,    \* the plans initialize may be given
    LaterPlans,      \* the plans replan may be given
    MaxWorkers,      \* authorization.max_workers
    ReplanBudget,    \* authorization.replan_budget
    AnyPolicy,       \* whether the recovery policy is arbitrary or the bounded one
    Reliable,        \* whether ports, stores and processes never fail
    MaxEpoch,        \* bound: epochs that are ever acquired
    MaxAttempts,     \* bound: attempts that are ever persisted
    MaxRefreshes     \* bound: refreshed verifications

ASSUME NoneAssumption == None \notin Controller
ASSUME BoundsAssumption ==
    /\ Task \subseteq Nat \ {0} /\ MaxWorkers \in Nat \ {0}
    /\ {ReplanBudget, MaxEpoch, MaxAttempts, MaxRefreshes} \subseteq Nat
    /\ {AnyPolicy, Reliable} \subseteq BOOLEAN

\* A TaskSpec as far as scheduling looks at it, and plans that assign them.
Spec_ == [deps : SUBSET Task, root : Root, write : BOOLEAN, retry : Nat]

ASSUME PlansAssumption ==
    \A plan \in InitialPlans \cup LaterPlans :
        /\ DOMAIN plan \subseteq Task /\ DOMAIN plan # {}
        /\ \A t \in DOMAIN plan : plan[t] \in Spec_ /\ plan[t].deps \subseteq DOMAIN plan

\* _authorize_plan refuses a plan that grants a task more than the initial one.
ASSUME AuthorizationAssumption ==
    \A later \in LaterPlans, initial \in InitialPlans :
        \A t \in DOMAIN later \cap DOMAIN initial :
            /\ later[t].retry <= initial[t].retry
            /\ later[t].write => initial[t].write

VARIABLES
    epoch,      \* fence of the latest lease
    valid,      \* that lease is neither released nor expired
    plan,       \* the current plan, <<>> before initialize
    replans,    \* replan_count
    node,       \* node[t]: the persisted node of t
    attempt,    \* attempt[a]: the persisted attempt number a
    ctl,        \* ctl[c]: what controller c is doing
    run,        \* run[a]: attempt a in the worker ledger and in reality
    highest,    \* highest_fence of the worker ledger
    head,       \* head[r]: the attempt whose content worktree r has
    refreshes   \* refreshed verifications so far

store == <<epoch, valid>>
data == <<plan, replans, node, attempt>>
workers == <<run, highest, head>>
vars == <<store, data, ctl, workers, refreshes>>

Attempt == 1 .. MaxAttempts
Live == {"dispatching", "running", "unknown"}
Terminal == {"candidate", "blocked", "crash", "other", "cancelled"}
-----------------------------------------------------------------------------
Absent == [status |-> "absent", spec |-> None, active |-> 0, retries |-> 0,
           check |-> "none", candidate |-> 0, tested |-> 0]

Node(spec) == [Absent EXCEPT !.status = "pending", !.spec = spec]

NoAttempt == [task |-> 0, spec |-> None, fence |-> 0, state |-> "absent"]

Off == [lease |-> 0, pc |-> "off", back |-> "idle", todo |-> {}, mode |-> "tick",
        task |-> 0, attempt |-> 0, obs |-> "none", seen |-> 0]

Unregistered == [result |-> "absent", home |-> None, proc |-> "none",
                 cancelled |-> FALSE, content |-> 0]

Init ==
    /\ epoch = 0
    /\ valid = FALSE
    /\ plan = <<>>
    /\ replans = 0
    /\ node = [t \in Task |-> Absent]
    /\ attempt = [a \in Attempt |-> NoAttempt]
    /\ ctl = [c \in Controller |-> Off]
    /\ run = [a \in Attempt |-> Unregistered]
    /\ highest = 0
    /\ head = [r \in Root |-> 0]
    /\ refreshes = 0

Nodes == {t \in Task : node[t].status # "absent"}
Issued == {a \in Attempt : attempt[a].task # 0}
AttemptsOf(t) == {a \in Issued : attempt[a].task = t}
Active == {t \in Nodes : node[t].active # 0}

\* _active and store.mutate accept c's credential.
Holds(c) == valid /\ ctl[c].lease = epoch

UnknownCheck(n) == n.check \in {"running", "unknown"}

\* Mutant of Frozen: a verification whose result is unknown can be planned away.
FrozenIfKnown(n) == n.status = "accepted" \/ n.active # 0

\* _frozen: a replan neither removes nor rewrites these nodes.
Frozen(n) == n.status = "accepted" \/ n.active # 0 \/ UnknownCheck(n)

\* Mutant of Busy: a candidate does not keep others out of its worktree.
BusyWhileActive(t, spec) ==
    \E u \in Nodes \ {t} :
        /\ node[u].active # 0 /\ node[u].spec.root = spec.root
        /\ spec.write \/ node[u].spec.write

\* _workspace_busy: another node occupies the worktree of spec.
Busy(t, spec) ==
    \E u \in Nodes \ {t} :
        LET other == node[u]
            exclusive == \/ other.status \in {"candidate_complete", "verifying", "unknown"}
                         \/ UnknownCheck(other)
            occupied == other.active # 0 \/ exclusive
        IN  /\ occupied
            /\ other.spec.root = spec.root
            /\ exclusive \/ spec.write \/ other.spec.write
-----------------------------------------------------------------------------
\* BoundedRecoveryPolicy.decide, without the duplicate risk that _recover covers.
BoundedChoice(error, n) ==
    CASE error = "verification_failed" ->
            IF replans < ReplanBudget THEN "replan" ELSE "escalate"
      [] error = "crash" -> IF n.retries < n.spec.retry THEN "retry" ELSE "stop"
      [] error = "cancelled" -> "stop"
      [] OTHER -> "escalate"

PolicyChoices(error, n) ==
    IF AnyPolicy THEN {"retry", "replan", "escalate", "stop"} ELSE {BoundedChoice(error, n)}

\* _recover: the budgets and the duplicate risk overrule whatever the policy chose.
Effective(error, choice, n, forced) ==
    IF n.active # 0 \/ forced THEN "escalate"
    ELSE IF error = "cancelled" \/ (choice = "retry" /\ n.retries >= n.spec.retry) THEN "stop"
    ELSE IF choice = "replan" /\ replans >= ReplanBudget THEN "escalate"
    ELSE choice

StatusAfter == [retry |-> "pending", replan |-> "replan_required",
                escalate |-> "blocked", stop |-> "stopped"]

\* Mutant of Recovered: a retry is not counted.
RecoveredUncounted(n, error, choice, forced) ==
    [n EXCEPT !.status = StatusAfter[Effective(error, choice, n, forced)]]

Recovered(n, error, choice, forced) ==
    LET action == Effective(error, choice, n, forced)
    IN  [n EXCEPT !.status = StatusAfter[action],
                  !.retries = IF action = "retry" THEN @ + 1 ELSE @]
-----------------------------------------------------------------------------
Goto(c, pc) == ctl' = [ctl EXCEPT ![c].pc = pc]

\* The operation is over; one task of a tick is over.
Rest(c) == ctl' = [ctl EXCEPT ![c] = [Off EXCEPT !.lease = ctl[c].lease, !.pc = "idle"]]

Resume(c) == ctl' = [ctl EXCEPT ![c] = [ctl[c] EXCEPT !.pc = ctl[c].back, !.task = 0,
                                                      !.attempt = 0, !.obs = "none"]]

\* acquire: by a new process or again by one that lost its lease.
Acquire(c) ==
    /\ ctl[c].pc \in {"off", "idle"}
    /\ ~valid
    /\ epoch < MaxEpoch
    /\ epoch' = epoch + 1
    /\ valid' = TRUE
    /\ ctl' = [ctl EXCEPT ![c] = [Off EXCEPT !.lease = epoch + 1, !.pc = "idle"]]
    /\ UNCHANGED <<data, workers, refreshes>>

\* The time to live runs out; renew keeps it from happening, but need not.
Expire ==
    /\ valid
    /\ valid' = FALSE
    /\ UNCHANGED <<epoch, data, ctl, workers, refreshes>>

\* The process ends.  What it launched may survive it, but its handles do not.
Crash(c) ==
    /\ ctl[c].pc # "off"
    /\ ctl' = [ctl EXCEPT ![c] = Off]
    /\ \E survivors \in SUBSET {a \in Attempt : run[a].home = c /\ run[a].proc = "live"} :
          run' = [a \in Attempt |->
                    IF run[a].home # c THEN run[a]
                    ELSE [run[a] EXCEPT !.home = None,
                                        !.proc = IF a \in survivors THEN "live" ELSE "gone"]]
    /\ UNCHANGED <<store, data, highest, head, refreshes>>

\* An exception leaves the operation: the lease is lost, or the store, a claim
\* or the planner fails.
Raise(c) ==
    /\ ctl[c].pc \notin {"off", "idle"}
    /\ ~Reliable \/ ~Holds(c)
    /\ Rest(c)
    /\ UNCHANGED <<store, data, workers, refreshes>>
-----------------------------------------------------------------------------
Initialize(c) ==
    /\ ctl[c].pc = "idle" /\ Holds(c)
    /\ plan = <<>>
    /\ plan' \in InitialPlans
    /\ node' = [t \in Task |-> IF t \in DOMAIN plan' THEN Node(plan'[t]) ELSE Absent]
    /\ UNCHANGED <<store, replans, attempt, ctl, workers, refreshes>>

\* Mutant of ReplanAllowed: one replan too many.
ReplanOnceMore == replans <= ReplanBudget

ReplanAllowed == replans < ReplanBudget

\* Mutant of Kept: a candidate is kept whatever becomes of its task.
KeptAnyway(n, spec) == n.status = "candidate_complete"

\* A candidate outlives the replan if its task stays the same.
Kept(n, spec) == n.status = "candidate_complete" /\ n.spec = spec

\* A node that is planned again keeps its counts, and perhaps its candidate.
Again(n, spec) == [n EXCEPT !.status = IF Kept(n, spec) THEN @ ELSE "pending", !.spec = spec]

\* Frozen nodes stay as they are, the others start again or retire.
Revised(t, later) ==
    LET n == node[t]
    IN  IF t \notin DOMAIN later
        THEN IF t \in Nodes THEN [n EXCEPT !.status = "retired"] ELSE Absent
        ELSE IF t \notin Nodes THEN Node(later[t])
        ELSE IF Frozen(n) THEN n ELSE Again(n, later[t])

Replan(c) ==
    /\ ctl[c].pc = "idle" /\ Holds(c)
    /\ plan # <<>>
    /\ ReplanAllowed
    /\ plan' \in LaterPlans
    /\ \A t \in Nodes : Frozen(node[t]) => t \in DOMAIN plan' /\ plan'[t] = node[t].spec
    /\ replans' = replans + 1
    /\ node' = [t \in Task |-> Revised(t, plan')]
    /\ UNCHANGED <<store, attempt, ctl, workers, refreshes>>
-----------------------------------------------------------------------------
\* tick reads the nodes to look at; close(cancel_running) does the same.
Tick(c, mode) ==
    /\ ctl[c].pc = "idle" /\ Holds(c)
    /\ plan # <<>>
    /\ ctl' = [ctl EXCEPT ![c].pc = "observe", ![c].back = "observe", ![c].mode = mode,
                          ![c].todo = {t \in Nodes : \/ node[t].active # 0
                                                     \/ mode = "tick" /\ node[t].status = "verifying"}]
    /\ UNCHANGED <<store, data, workers, refreshes>>

Next_(c) == Min(ctl[c].todo)

\* _observe up to the call: poll and reconcile one attempt, or cancel it.
Observe(c) ==
    LET t == Next_(c)
    IN  /\ ctl[c].pc = "observe" /\ ctl[c].todo # {} /\ Holds(c)
        /\ node[t].active # 0
        /\ ctl' = [ctl EXCEPT ![c].pc = "call", ![c].task = t,
                              ![c].attempt = node[t].active, ![c].todo = @ \ {t}]
        /\ UNCHANGED <<store, data, workers, refreshes>>

\* _abandoned_verification: nobody alive executes it, its result is unknown.
Abandoned(n) == [n EXCEPT !.status = "blocked", !.check = "unknown"]

Abandon(c) ==
    LET t == Next_(c)
    IN  /\ ctl[c].pc = "observe" /\ ctl[c].todo # {} /\ Holds(c)
        /\ node[t].active = 0
        /\ node' = [node EXCEPT ![t] = Abandoned(@)]
        /\ ctl' = [ctl EXCEPT ![c].todo = @ \ {t}]
        /\ UNCHANGED <<store, plan, replans, attempt, workers, refreshes>>

Observed(c) ==
    /\ ctl[c].pc = "observe" /\ ctl[c].todo = {} /\ ctl[c].mode = "tick" /\ Holds(c)
    /\ ctl' = [ctl EXCEPT ![c].pc = "dispatch", ![c].back = "dispatch", ![c].todo = DOMAIN plan]
    /\ UNCHANGED <<store, data, workers, refreshes>>

Unsettled == \E t \in Nodes : node[t].active # 0 \/ UnknownCheck(node[t])

\* close releases the lease, but with cancel_running only if all has ended.
Closed(c) ==
    \/ ctl[c].pc = "idle"
    \/ ctl[c].pc = "observe" /\ ctl[c].todo = {} /\ ctl[c].mode = "close" /\ ~Unsettled

Release(c) ==
    /\ Closed(c) /\ Holds(c)
    /\ valid' = FALSE
    /\ ctl' = [ctl EXCEPT ![c] = [Off EXCEPT !.pc = "idle"]]
    /\ UNCHANGED <<epoch, data, workers, refreshes>>

KeepLease(c) ==
    /\ ctl[c].pc = "observe" /\ ctl[c].todo = {} /\ ctl[c].mode = "close" /\ Unsettled
    /\ Rest(c)
    /\ UNCHANGED <<store, data, workers, refreshes>>
-----------------------------------------------------------------------------
Slots == Cardinality(Active) < MaxWorkers

Dispatchable(t) ==
    /\ node[t].status = "pending"
    /\ \A d \in node[t].spec.deps : node[d].status = "accepted"
    /\ ~Busy(t, node[t].spec)

DispatchStep(c) == ctl[c].pc = "dispatch" /\ ctl[c].todo # {} /\ Holds(c)

\* The scan of the plan passes over a task, or ends when no slot is left.
Skip(c) ==
    LET t == Next_(c)
    IN  /\ DispatchStep(c)
        /\ node[t].status # "pending" \/ (Slots /\ ~Dispatchable(t))
        /\ ctl' = [ctl EXCEPT ![c].todo = @ \ {t}]
        /\ UNCHANGED <<store, data, workers, refreshes>>

Scanned(c) ==
    /\ ctl[c].pc = "dispatch" /\ Holds(c)
    /\ ctl[c].todo # {} => node[Next_(c)].status = "pending" /\ ~Slots
    /\ Rest(c)
    /\ UNCHANGED <<store, data, workers, refreshes>>

\* _dispatch counts the attempts of the whole life of the task.
Exhausted(t) == Cardinality(AttemptsOf(t)) >= 1 + node[t].spec.retry + replans

\* _block: the budget is exhausted, or routing or isolation refuses the task.
Block(c) ==
    LET t == Next_(c)
    IN  /\ DispatchStep(c) /\ Dispatchable(t) /\ Slots
        /\ Exhausted(t) \/ ~Reliable
        /\ node' = [node EXCEPT ![t].status = IF Exhausted(t) THEN "stopped" ELSE "blocked"]
        /\ ctl' = [ctl EXCEPT ![c].todo = @ \ {t}]
        /\ UNCHANGED <<store, plan, replans, attempt, workers, refreshes>>

\* The intent is persisted, with the slot, before anything is sent.
Intent(c) ==
    LET t == Next_(c)
        a == Cardinality(Issued) + 1
    IN  /\ DispatchStep(c) /\ Dispatchable(t) /\ Slots /\ ~Exhausted(t)
        /\ a \in Attempt
        /\ attempt' = [attempt EXCEPT ![a] =
                          [task |-> t, spec |-> node[t].spec,
                           fence |-> ctl[c].lease, state |-> "dispatching"]]
        /\ node' = [node EXCEPT ![t].status = "dispatching", ![t].active = a]
        /\ ctl' = [ctl EXCEPT ![c].pc = "send", ![c].task = t,
                              ![c].attempt = a, ![c].todo = @ \ {t}]
        /\ UNCHANGED <<store, plan, replans, workers, refreshes>>

Send(c) ==
    /\ ctl[c].pc = "send" /\ Holds(c)
    /\ Goto(c, "sending")
    /\ UNCHANGED <<store, data, workers, refreshes>>
-----------------------------------------------------------------------------
(* The worker port of one controller and the ledger all of them share.     *)

Answer(c, obs) == ctl' = [ctl EXCEPT ![c].pc = "apply", ![c].obs = obs]

Cancelled(a) == run[a].cancelled /\ run[a].result # "cancelled"

\* Mutant of Reported: what has lost its controller is taken for dead.
ReportedDead(c, a) ==
    IF run[a].result \in Terminal \cup {"absent"} \/ run[a].home = c
    THEN run[a].result ELSE "cancelled"

\* _observation: without a handle of its own a port trusts a final result only,
\* with one it reports no result that a cancellation is about to revoke.
Reported(c, a) ==
    LET trusted == IF run[a].home = c THEN run[a].result # "absent" /\ ~Cancelled(a)
                                      ELSE run[a].result \in Terminal
    IN  IF trusted THEN run[a].result ELSE "unknown"

\* register: another attempt of the ledger occupies the worktree of a.
LedgerBusy(c, a) ==
    \E b \in Attempt \ {a} :
        LET foreign == run[b].home # c
            unconfirmed == ~foreign /\ Cancelled(b)
        IN  /\ run[b].result # "absent"
            /\ run[b].result \notin Terminal \/ unconfirmed
            /\ attempt[b].spec.root = attempt[a].spec.root
            /\ \/ attempt[a].spec.write \/ attempt[b].spec.write
               \/ run[b].result = "unknown" \/ unconfirmed \/ foreign

\* dispatch registers the attempt in the ledger and starts its thread, or raises.
Dispatch(c) ==
    LET a == ctl[c].attempt
        accepted == attempt[a].fence >= highest /\ ~LedgerBusy(c, a)
    IN  /\ ctl[c].pc = "sending"
        /\ \/ /\ accepted
              /\ run' = [run EXCEPT ![a] =
                            [Unregistered EXCEPT !.result = "running", !.home = c]]
              /\ highest' = attempt[a].fence
              /\ Goto(c, "reading")
           \/ /\ ~accepted \/ ~Reliable
              /\ Answer(c, "unknown")
              /\ UNCHANGED <<run, highest>>
        /\ UNCHANGED <<store, data, head, refreshes>>

\* Mutant of Stale: whoever holds the lease trusts the attempts of any epoch.
StaleNever(c, a) == FALSE

Stale(c, a) == attempt[a].fence # ctl[c].lease

Cancelling(c, a) == ctl[c].mode = "close" \/ Stale(c, a)

\* poll and reconcile raise the fence of the ledger, then report.
Poll(c) ==
    LET a == ctl[c].attempt
    IN  /\ ctl[c].pc = "call" /\ ~Cancelling(c, a)
        /\ IF attempt[a].fence >= highest
           THEN highest' = attempt[a].fence /\ Goto(c, "reading")
           ELSE Answer(c, "unknown") /\ UNCHANGED highest
        /\ UNCHANGED <<store, data, run, head, refreshes>>

\* Mutant of CancelFence: the new epoch cancels in its own name.
CancelFenceOwn(c, a) == ctl[c].lease

\* The epoch that _observe names when it cancels.
CancelFence(c, a) == attempt[a].fence

\* cancel revokes at once what this port owns; of another's it only reads.
Cancel(c) ==
    LET a == ctl[c].attempt
        refused == run[a].result = "absent" \/ CancelFence(c, a) # attempt[a].fence
    IN  /\ ctl[c].pc = "call" /\ Cancelling(c, a)
        /\ \/ refused /\ Answer(c, "unknown") /\ UNCHANGED run
           \/ /\ ~refused /\ run[a].home # c
              /\ Goto(c, "reading")
              /\ UNCHANGED run
           \/ /\ ~refused /\ run[a].home = c
              /\ run' = [run EXCEPT ![a].cancelled = TRUE]
              /\ Goto(c, "closing")
        /\ UNCHANGED <<store, data, highest, head, refreshes>>

\* Mutant of TreeClosed: cancelled is said before the tree is closed.
TreeMarked(r) == [r EXCEPT !.result = "cancelled"]

TreeClosed(r) == [r EXCEPT !.result = "cancelled", !.proc = IF @ = "live" THEN "gone" ELSE @]

\* Then it closes the process tree and publishes what it could confirm.
CloseTree(c) ==
    LET a == ctl[c].attempt
    IN  /\ ctl[c].pc = "closing"
        /\ \/ /\ run' = [run EXCEPT ![a] = TreeClosed(@)]
              /\ Answer(c, "cancelled")
           \/ /\ ~Reliable
              /\ run[a].result # "cancelled"
              /\ run' = [run EXCEPT ![a].result = "unknown"]
              /\ Answer(c, "unknown")
        /\ UNCHANGED <<store, data, highest, head, refreshes>>

\* The answer; a result that could not be saved yet is not reported.
ReadResult(c) ==
    /\ ctl[c].pc = "reading"
    /\ \/ Answer(c, Reported(c, ctl[c].attempt))
       \/ ~Reliable /\ Answer(c, "unknown")
    /\ UNCHANGED <<store, data, workers, refreshes>>
-----------------------------------------------------------------------------
(* The thread and the process of attempt a, in the controller that sent it. *)

\* The runtime thread of a has not ended yet.
Open(a) == run[a].home # None /\ (run[a].result = "running" \/ Cancelled(a))

\* launch_guard: under the locks the epoch, the ledger and the revocation agree.
Launch(a) ==
    /\ Open(a) /\ run[a].proc = "none"
    /\ ~run[a].cancelled
    /\ valid /\ attempt[a].fence = epoch /\ attempt[a].fence = highest
    /\ run' = [run EXCEPT ![a].proc = "live"]
    /\ UNCHANGED <<store, data, ctl, highest, head, refreshes>>

Write(a) ==
    /\ run[a].proc = "live" /\ attempt[a].spec.write
    /\ head' = [head EXCEPT ![attempt[a].spec.root] = a]
    /\ UNCHANGED <<store, data, ctl, run, highest, refreshes>>

\* The tree is closed first; then the candidate is read and the result published.
End(a) ==
    /\ Open(a)
    /\ \E result \in Terminal :
          /\ run[a].cancelled <=> result = "cancelled"
          /\ run[a].proc # "live" => result \in {"cancelled", "crash", "other"}
          /\ run' = [run EXCEPT
                ![a].result = result,
                ![a].proc = IF @ = "live" THEN "gone" ELSE @,
                ![a].content = IF result = "candidate"
                               THEN head[attempt[a].spec.root] ELSE 0]
    /\ UNCHANGED <<store, data, ctl, highest, head, refreshes>>

\* The tree could not be closed for certain: the result is unknown.
EndUnconfirmed(a) ==
    /\ ~Reliable
    /\ Open(a) /\ run[a].proc = "live"
    /\ run' = [run EXCEPT ![a].result = "unknown"]
    /\ UNCHANGED <<store, data, ctl, highest, head, refreshes>>

\* What survived its controller, or was not confirmed, ends by itself.
Vanish(a) ==
    /\ run[a].proc = "live" /\ ~Open(a)
    /\ run' = [run EXCEPT ![a].proc = "gone"]
    /\ UNCHANGED <<store, data, ctl, highest, head, refreshes>>
-----------------------------------------------------------------------------
(* What the supervisor makes of an answer: _apply, _retire and _unknown.    *)

\* Settle the attempt of c as `state`, with a new record for its node.
Record(c, state, newNode) ==
    /\ attempt' = [attempt EXCEPT ![ctl[c].attempt].state = state]
    /\ node' = [node EXCEPT ![ctl[c].task] = newNode]
    /\ Resume(c)
    /\ UNCHANGED <<store, plan, replans, workers, refreshes>>

Freed(c) == [node[ctl[c].task] EXCEPT !.active = 0]

Answered(c) == ctl[c].pc = "apply" /\ Holds(c)

Applying(c) == Answered(c) /\ ~Cancelling(c, ctl[c].attempt)

ApplyRunning(c) ==
    /\ Applying(c) /\ ctl[c].obs = "running"
    /\ Record(c, "running", [node[ctl[c].task] EXCEPT !.status = "running"])

ApplyCandidate(c) ==
    /\ Applying(c) /\ ctl[c].obs = "candidate"
    /\ Record(c, "candidate", [Freed(c) EXCEPT !.status = "candidate_complete",
                                               !.candidate = run[ctl[c].attempt].content])

ApplyFailure(c) ==
    LET error == ctl[c].obs
    IN  /\ Applying(c) /\ error \in Terminal \ {"candidate"}
        /\ \E choice \in PolicyChoices(error, node[ctl[c].task]) :
              Record(c, error, Recovered(Freed(c), error, choice, error = "blocked"))

\* A confirmed cancellation frees the slot: of an older epoch as after a crash.
Retire(c) ==
    LET error == IF ctl[c].mode = "close" THEN "cancelled" ELSE "crash"
    IN  /\ Answered(c) /\ Cancelling(c, ctl[c].attempt) /\ ctl[c].obs = "cancelled"
        /\ \E choice \in PolicyChoices(error, node[ctl[c].task]) :
              Record(c, "cancelled", Recovered(Freed(c), error, choice, FALSE))

\* Nothing is known for certain: the slot and the worktree stay taken.
StayUnknown(c) ==
    /\ Answered(c)
    /\ IF Cancelling(c, ctl[c].attempt) THEN ctl[c].obs # "cancelled"
                                        ELSE ctl[c].obs = "unknown"
    /\ Record(c, "unknown", [node[ctl[c].task] EXCEPT !.status = "unknown"])
-----------------------------------------------------------------------------
(* verify_task.                                                             *)

Verifiable(t, refresh) ==
    /\ node[t].active = 0
    /\ node[t].status \in IF refresh THEN {"candidate_complete", "accepted"}
                                     ELSE {"candidate_complete"}
    /\ refresh => Active = {}

CountRefresh(refresh) ==
    IF refresh THEN refreshes < MaxRefreshes /\ refreshes' = refreshes + 1
               ELSE UNCHANGED refreshes

Content(t) == head[node[t].spec.root]

\* _verification_failed, with the check it was about if there was one.
Revoke(t, check) ==
    \E choice \in PolicyChoices("verification_failed", node[t]) :
        node' = [node EXCEPT ![t] = Recovered([node[t] EXCEPT !.check = check],
                                              "verification_failed", choice, FALSE)]

\* The candidate cannot be read, or is not the one the worker ended with.
VerifyRefused(c, t, refresh) ==
    /\ ctl[c].pc = "idle" /\ Holds(c)
    /\ Verifiable(t, refresh) /\ CountRefresh(refresh)
    /\ Content(t) # node[t].candidate \/ ~Reliable
    /\ Revoke(t, node[t].check)
    /\ UNCHANGED <<store, plan, replans, attempt, ctl, workers>>

VerifyBegin(c, t, refresh) ==
    /\ ctl[c].pc = "idle" /\ Holds(c)
    /\ Verifiable(t, refresh) /\ CountRefresh(refresh)
    /\ Content(t) = node[t].candidate
    /\ node' = [node EXCEPT ![t].status = "verifying", ![t].check = "running"]
    /\ ctl' = [ctl EXCEPT ![c].pc = "verifying", ![c].task = t]
    /\ UNCHANGED <<store, plan, replans, attempt, workers>>

\* The executor tests whatever the worktree has now.
VerifyExecute(c) ==
    /\ ctl[c].pc = "verifying" /\ Holds(c)
    /\ \E outcome \in {"verified", "rejected"} \cup (IF Reliable THEN {} ELSE {"aborted"}) :
          ctl' = [ctl EXCEPT ![c].pc = outcome, ![c].seen = Content(ctl[c].task)]
    /\ UNCHANGED <<store, data, workers, refreshes>>

\* execute did not return: its result is unknown.
VerifyAborted(c) ==
    /\ ctl[c].pc = "aborted" /\ Holds(c)
    /\ node' = [node EXCEPT ![ctl[c].task] = Abandoned(@)]
    /\ Rest(c)
    /\ UNCHANGED <<store, plan, replans, attempt, workers, refreshes>>

VerifyFailed(c) ==
    /\ ctl[c].pc = "rejected" /\ Holds(c)
    /\ Revoke(ctl[c].task, "failed")
    /\ Rest(c)
    /\ UNCHANGED <<store, plan, replans, attempt, workers, refreshes>>

\* The candidate is read again before the receipt counts.
VerifyReread(c) ==
    /\ ctl[c].pc = "verified"
    /\ Goto(c, IF Content(ctl[c].task) = node[ctl[c].task].candidate
               THEN "accept" ELSE "rejected")
    /\ UNCHANGED <<store, data, workers, refreshes>>

Accept(c) ==
    /\ ctl[c].pc = "accept" /\ Holds(c)
    /\ node' = [node EXCEPT ![ctl[c].task].status = "accepted",
                            ![ctl[c].task].check = "passed",
                            ![ctl[c].task].tested = ctl[c].seen]
    /\ Rest(c)
    /\ UNCHANGED <<store, plan, replans, attempt, workers, refreshes>>
-----------------------------------------------------------------------------
VerifyStep(c) ==
    \/ VerifyExecute(c) \/ VerifyAborted(c) \/ VerifyFailed(c)
    \/ VerifyReread(c) \/ Accept(c)

PortStep(c) == Dispatch(c) \/ Poll(c) \/ Cancel(c) \/ CloseTree(c) \/ ReadResult(c)

ApplyStep(c) ==
    \/ ApplyRunning(c) \/ ApplyCandidate(c) \/ ApplyFailure(c)
    \/ Retire(c) \/ StayUnknown(c)

TickStep(c) ==
    \/ Tick(c, "tick")
    \/ Observe(c) \/ Abandon(c) \/ Observed(c) \/ KeepLease(c)
    \/ Skip(c) \/ Scanned(c) \/ Block(c) \/ Intent(c) \/ Send(c)
    \/ PortStep(c) \/ ApplyStep(c) \/ VerifyStep(c) \/ Raise(c)

\* What an operator or the process itself decides to do, or what befalls it.
Decision(c) ==
    \/ Acquire(c) \/ (Crash(c) /\ ~Reliable)
    \/ Initialize(c) \/ Replan(c) \/ Tick(c, "close") \/ Release(c)
    \/ \E t \in Task, refresh \in BOOLEAN :
          VerifyRefused(c, t, refresh) \/ VerifyBegin(c, t, refresh)

WorkerStep(a) == Launch(a) \/ End(a) \/ EndUnconfirmed(a)

Next ==
    \/ \E c \in Controller : TickStep(c) \/ Decision(c)
    \/ \E a \in Attempt : WorkerStep(a) \/ Write(a) \/ Vanish(a)
    \/ Expire

SupervisorSpec == Init /\ [][Next]_vars

\* A supervisor that has started goes on ticking, and runtime.wait times out.
FairSpec ==
    /\ SupervisorSpec
    /\ \A c \in Controller : WF_vars(TickStep(c))
    /\ \A a \in Attempt : WF_vars(Launch(a) \/ End(a))
-----------------------------------------------------------------------------
Statuses == {"absent", "pending", "dispatching", "running", "unknown",
             "candidate_complete", "verifying", "accepted", "blocked",
             "stopped", "replan_required", "retired"}

Specs == Spec_ \cup {None}

\* The persisted, remote and local state keeps its shape.
TypeOK ==
    /\ epoch \in 0 .. MaxEpoch /\ valid \in BOOLEAN
    /\ plan \in {<<>>} \cup InitialPlans \cup LaterPlans
    /\ replans \in 0 .. ReplanBudget
    /\ node \in [Task -> [status : Statuses, spec : Specs, active : 0 .. MaxAttempts,
                          retries : Nat, check : {"none", "running", "unknown", "failed", "passed"},
                          candidate : 0 .. MaxAttempts, tested : 0 .. MaxAttempts]]
    /\ attempt \in [Attempt -> [task : Task \cup {0}, spec : Specs, fence : 0 .. MaxEpoch,
                                state : Live \cup Terminal \cup {"absent"}]]
    /\ ctl \in [Controller ->
          [lease : 0 .. MaxEpoch,
           pc : {"off", "idle", "observe", "dispatch", "send", "sending", "call", "closing",
                 "reading", "apply", "verifying", "verified", "rejected", "aborted", "accept"},
           back : {"idle", "observe", "dispatch"}, todo : SUBSET Task, mode : {"tick", "close"},
           task : Task \cup {0}, attempt : 0 .. MaxAttempts,
           obs : {"none", "running", "unknown"} \cup Terminal, seen : 0 .. MaxAttempts]]
    /\ run \in [Attempt -> [result : {"absent", "running", "unknown"} \cup Terminal,
                            home : Controller \cup {None}, proc : {"none", "live", "gone"},
                            cancelled : BOOLEAN, content : 0 .. MaxAttempts]]
    /\ highest \in 0 .. MaxEpoch
    /\ head \in [Root -> 0 .. MaxAttempts]
    /\ refreshes \in 0 .. MaxRefreshes
-----------------------------------------------------------------------------
Latest(t) == Max(AttemptsOf(t))

\* What every store.mutate writes is accepted by _validate_data, which runs
\* before and after each change: a violation would lock the requirement out.
PersistedValid ==
    /\ \A a \in Issued :
          attempt[a].state \in Live <=> node[attempt[a].task].active = a
    /\ \A t \in DOMAIN plan : node[t].spec = plan[t] /\ node[t].status # "retired"
    /\ \A t \in Nodes :
          LET n == node[t]
          IN  /\ n.active # 0 <=> n.status \in Live
              /\ \E initial \in InitialPlans :
                    t \in DOMAIN initial => n.retries <= initial[t].retry
              /\ n.status = "accepted" => n.check = "passed"
              /\ n.status = "verifying" => n.check = "running"
              /\ n.check = "running" => n.status = "verifying"
              /\ n.check = "unknown" => n.status = "blocked"
              /\ n.status \in {"candidate_complete", "verifying", "accepted"} =>
                    attempt[Latest(t)].state = "candidate"

\* Whatever still runs, or may still start, is the attempt that its task waits
\* for: no lost lease, late dispatch, crash or cancellation frees the slot and
\* the worktree of a task whose worker is not known to have ended.
NoOrphan ==
    \A a \in Attempt :
        run[a].proc = "live" \/ Open(a) => node[attempt[a].task].active = a

\* Two processes that run in one worktree both only read it, whatever
\* controllers, of whatever epochs, started them.
ExclusiveWriters ==
    \A a, b \in Attempt :
        /\ a # b /\ run[a].proc = "live" /\ run[b].proc = "live"
        /\ attempt[a].spec.root = attempt[b].spec.root
        => ~attempt[a].spec.write /\ ~attempt[b].spec.write

\* Until a candidate is verified or withdrawn its worktree keeps its content:
\* _workspace_busy leaves no other worker of any plan in it.
EvidenceUndisturbed ==
    \A t \in Nodes :
        node[t].status \in {"candidate_complete", "verifying"} =>
            Content(t) = node[t].candidate

\* Both: whoever is in a worktree, or has left a candidate in it, has it alone.
WorktreeKept == ExclusiveWriters /\ EvidenceUndisturbed

\* What is accepted was tested as it is, is what the last worker of the task
\* ended with according to the ledger, and was made for the present task.
AcceptedWasTested ==
    \A t \in Nodes :
        node[t].status = "accepted" =>
            /\ node[t].tested = node[t].candidate
            /\ run[Latest(t)].result = "candidate"
            /\ run[Latest(t)].content = node[t].candidate
            /\ attempt[Latest(t)].spec = node[t].spec

\* A task works only while all it depends on is accepted, although a refreshed
\* verification or a replan may revoke what has been accepted.
DependenciesHold ==
    \A t \in Active : \A d \in node[t].spec.deps : node[d].status = "accepted"

\* Both: work is built on nothing but tested work, now and after every revocation.
VerificationCounts == AcceptedWasTested /\ DependenciesHold

\* Every attempt after the first is paid for by a retry or by a replan.
AttemptsPaidFor ==
    \A t \in Nodes : Cardinality(AttemptsOf(t)) <= 1 + node[t].retries + replans

\* A candidate is taken over only under the epoch that dispatched its worker,
\* only after that worker has ended, and never after a cancellation.
OnlyCurrentResults ==
    [][\A t \in Task :
          node'[t].status = "candidate_complete" /\ node[t].status # "candidate_complete" =>
              LET a == node[t].active
              IN  /\ a # 0 /\ valid /\ attempt[a].fence = epoch
                  /\ run[a].proc = "gone" /\ ~run[a].cancelled]_vars

-----------------------------------------------------------------------------
(* The port that the controllers rely on is the worker ledger, with a name  *)
(* for every way to fail.                                                   *)

Plain(result) == IF result \in {"crash", "other"} THEN "failed" ELSE result

NoTask == [root |-> None, write |-> FALSE]

Ledger == INSTANCE WorkerLedger WITH
    Root <- Root \cup {None},
    task <- [a \in Attempt |-> IF attempt[a].task = 0 THEN NoTask
                               ELSE [root |-> attempt[a].spec.root, write |-> attempt[a].spec.write]],
    fence <- [a \in Attempt |-> IF run[a].result = "absent" THEN 0 ELSE attempt[a].fence],
    result <- [a \in Attempt |-> IF run[a].result = "absent" THEN "none" ELSE Plain(run[a].result)],
    home <- [a \in Attempt |-> run[a].home],
    proc <- [a \in Attempt |-> run[a].proc],
    revoked <- [a \in Attempt |-> run[a].home # None /\ run[a].cancelled],
    answer <- [c \in Controller |->
                 IF ctl[c].pc = "apply" THEN [attempt |-> ctl[c].attempt, state |-> Plain(ctl[c].obs)]
                 ELSE [attempt |-> None, state |-> "none"]]

\* Whatever the controllers of any epochs do, what they rely on of the port is
\* what WorkerLedger promises, which is what WorkerPort implements.
LedgerSpec == Ledger!Spec

\* When nothing fails, an attempt whose worker belongs to the process that
\* holds the lease is settled, unless the lease is lost first.
Settles ==
    \A a \in Attempt :
        /\ attempt[a].state \in Live /\ valid
        /\ run[a].home # None /\ ctl[run[a].home].lease = epoch
        ~> attempt[a].state \notin Live \/ ~valid
=============================================================================
