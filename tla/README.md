# Formal models of the workspace orchestrator

This directory specifies, in TLA+, the program that decides who may run an agent,
where, what becomes of its result, and when a requirement is done.  TLC checks the
specifications on small instances; TLAPS proves for every value of the constants each
invariant, each action property and each refinement that the runs check.  Liveness is
model-checked only, and so is the one state property that speaks of ENABLED.

Source paths are relative to `src/src/workspace_orchestrator/`, where the
implementation lives.  `PROJECT.json` has the map from every definition to the
lines it models.

## The system

One *Requirement* is developed by agents (Codex, Claude, Cursor).  In its second
form (V2) a *supervisor* turns it into a plan of tasks, dispatches each task to a
worker process in a git worktree, verifies the candidate the worker leaves, and
accepts it or asks a recovery policy; accepted candidates go through a *merge
queue* into main and are deployed.  In its first form (V1), which still exists
beside the other, agents attach their sessions to tasks of a task provider (a
board), Main delegates tasks to a *dispatcher*, and phase gates and a review card
stand between the work and its completion.  A dashboard, a workbench and hooks look
at the same state and send commands to it.  Everything is persisted in JSON files,
by processes that may crash and may run twice, while users move cards and edit
documents.

| part | state | operations | talks to |
|---|---|---|---|
| control store `orchestration/store.py` | revision, fence, lease, data in `state.json`; `state.lock` | acquire, renew, release, mutate, guard_epoch, transaction | file system, wall clock |
| requirement supervisor `orchestration/supervisor.py` | in the store: plan, nodes, attempts, replans; in memory: its lease | initialize, replan, tick, verify_task, close | control store, worker port, verification executor, recovery policy |
| worker port `orchestration/workers.py` | ledger in its own store; one `_ActiveAttempt` and thread per attempt | dispatch, poll, reconcile, cancel, observe, close | control store (guard_epoch), runtime, transport |
| stdio transport `agent_runtime/stdio.py` | process, pending requests, inbox, bounded outbound queue; reader and writer threads | start, request, notify, close | the agent's process tree |
| agent runtimes `agent_runtime/codex.py`, `claude.py`, `cursor.py`, `service.py` | session, active turn, results by turn | start, send_message, wait, interrupt, close | transport, event log |
| runtime events `agent_runtime/events.py` | append-only log | append, replay | files |
| tracked port, ownership `multi_agent.py`, `execution_ownership.py` | execution rows and event copies per attempt; claims of plans | dispatch, poll, cancel, sync; claim_plan | worker port, executions, dispatcher |
| executions, workbench `executions/`, `workbench.py` | execution rows, receipts of replies, live runtimes | start, reply, cancel, close, recover | runtimes |
| merge queue `integration/service.py` | a journal per request, publication marker, git refs | integrate, reconcile, recover_post_merge | git, verification, review authority |
| git workspaces `integration/git_workspace.py` | ledger of leased worktrees | ensure, capture_candidate, release | git |
| task projection `orchestration/projection.py` | ledger of intents and acknowledgements; the pump's latest snapshot | sync, submit, close | task provider |
| task dispatcher `automation/dispatcher.py`, `delegation.py` | `dispatcher.json`, executions | delegate, cancel, run_once, start, stop | task provider, runtime |
| sessions `automation/session_runtime.py`, `task_attach.py` | `sessions.json`, links and cards at the provider | attach, rebind, end, ensure cards, select | task provider, hooks |
| completion `automation/runtime.py`, `review.py`, `delivery_guard.py` | meta, verification, review packet, review card | finalize, review, confirm, request changes, stop hook | users, task provider |
| phase gate `phase_gate.py`, `phase_verification.py` | receipts, reviews, gates, activations, reopen journal | verify, review, issue, reopen, advance | git, sessions, task provider |
| deployment `deployment.py` | receipt per key, completion token | deploy, complete, publish | deployment provider, completion |
| main agent, watchdog `main_agent.py`, `supervisor_watchdog.py` | revisioned state with stale facts; signals | observe, advance, record_action; scan | documents, executions, control store |
| command queue, remote control `dashboard.py`, `remote_control.py` | command file, controller lock, live session | enqueue, deliver, cancel, retry, recover | runtime |

`PROJECT.json` lists every component with what is left out and why, and the
hazards with the line where each bites.

### What is hard about it

* Leases expire by a wall clock.  A controller that has lost its lease may be in
  the middle of any call, and finds out only at the next access to the store.
* Between the intent of a dispatch and the process there are two stores, a
  thread, a suspended process and three checks of the epoch.  A controller may
  die at each of these points, and its workers may survive it.
* Cancelling races with a result that is just being published, with a launch
  that has passed its checks, and with a save that fails.
* The evidence is a directory that other processes may write to.
* Budgets (retries, replans, attempts) and the accepted state outlive crashes.
* Moving main cannot be undone and its answer may be lost; the facts that allowed
  it may change until the moment it happens.  The same holds for a deployment, for a
  prompt that was sent and for a card that was written.
* There are many small files with several kinds of locks (workspace, requirement,
  provider, finalize), and most operations give their lock up around a call of the
  provider and go on from what they read before.
* Answers of a provider often do not say what they answer: the results of Claude and
  the updates of Cursor are taken for those of the active turn.
* Users write to the same cards and documents, and what they do must not be undone.

### What makes each part correct

* Control store: one writer at a time, numbered by epochs; nothing committed is
  lost; nothing is launched for an epoch that is over.
* Supervisor: what it writes passes its own validation, which otherwise locks
  the requirement out; a slot and a worktree are taken as long as anything may
  run for them; accepted means tested, unchanged, for the present task; budgets
  pay for attempts; work of a live controller is settled.
* Worker port: a final answer means the process tree is gone; a cancellation is
  never contradicted; no result is dropped; whoever may write is alone in its worktree;
  no deadlock among its locks.
* Transport and runtimes: nobody sleeps through a failure of the connection, a
  result is that of the prompt it is given to, and none that was noted is lost.
* Tracked port, events: the copy of a log is a beginning of it, whatever was torn.
* Workbench: a session is started and a reply delivered once, and a receipt is true.
* Merge queue: main moves only to what was tested on top of main and is still
  approved; nothing is published or verified twice; what was published is never
  forgotten; every request comes to rest after any interruption.
* Git workspaces: a candidate is what the worker left; nothing foreign is touched.
* Projection: an acknowledged write took place, and a card is not moved over a user.
* Dispatcher, ownership, sessions: a task is worked at by one engine and one session.
* Phase gate, completion, deployment: done means verified, approved and delivered
  where that is asked for; deployed once; a phase rests on the gates before it.
* Command queue and remote control: a turn is not disturbed by other requests, a
  command that was delivered has an owner who records its outcome, none is
  forgotten, and a command is delivered at most once (it is not, see below).

## Modules

```
EpochRegister          the promise of the control store
   ^  refinement (checked and proved)
LeaseStore             store.py step by step              LeaseStoreProofs
   .  (its epochs)
Supervisor             supervisor.py, several controllers, the port as they see it
                                                          SupervisorProofs
   |  refinement (checked and proved)
   v
WorkerLedger           the promise of the worker execution port
   ^  refinement (checked and proved)
WorkerPort             workers.py and the process tree of stdio.py, with threads and locks
                                                          WorkerPortProofs

Integration            integration/service.py over git    IntegrationProofs
RemoteControl          dashboard.py, remote_control.py    RemoteControlProofs

Work                   the views of the work at one task  WorkSessionProofs, WorkProofs
 WorkSessions          those of its worker
  Workbench            workbench.py over executions/
  TrackedWorker        multi_agent.py over EventLog (agent_runtime/events.py)
  Transport            stdio.py with the turns of codex.py
  ClaudeSession        claude.py under service.py
  CursorSession        cursor.py
  Dispatcher           automation/dispatcher.py, delegation.py, execution_ownership.py
  Workspaces           integration/git_workspace.py
 and
  Projection, ProjectionPump    orchestration/projection.py
  SessionBindings      automation/session_runtime.py
  BoardCards           automation/task_attach.py, adapters/task.py
  RequirementOwner     main_agent.py
  Watchdog             supervisor_watchdog.py over executions/store.py

Delivery               the views of the way to the end    DeliveryProofs
  PhaseGate            phase_gate.py, phase_verification.py
  Completion           automation/runtime.py, review.py, delivery_guard.py
  Deployment           deployment.py
```

`MC*.tla` and `MC*.cfg` are the instances for TLC.  `Work` and `Delivery` each compose
several modules, which one run checks.  Those modules share no state that the others
could disturb: a behaviour of the composition is a behaviour of one of them, chosen by
`part` in its initial state, and the variables of the others are `None` throughout.  A
property of a composition is a conjunction of what it says of each view.  `Work` is in
two modules because an obligation of a proof carries everything its module sees: the
views of the worker (`WorkSessions`) are proved about by themselves.

Two closures over the history of git are kept as data and not computed by recursion, so
that they can be proved about: `PhaseGate` keeps for each commit the set of its
ancestors (`git.above`, to which a commit adds itself), which is what
`git merge-base --is-ancestor` tells; and that a candidate of `Workspaces` stands on
recorded candidates only is said of the parents of all that were returned.

### EpochRegister and LeaseStore

`LeaseStore` has the document of `state.json`, the file lock, the wall clock and
one program counter (`txn[p]`) per process.  An operation is several actions:
`Acquire`, `Renew`, `Release`, `Mutate` read under the lock; `FinishChange` is
the end of the change callback; `Validate` is the comparison with the file and
the second check of the lease in `_commit`; `Replace` is `os.replace`.
`NestedMutate` is a mutate inside a change callback, which the re-entrant lock
admits.  `GuardEpoch`, `GuardCheck` and `Launch` are guard_epoch around the
start of a worker.  `Abort` is an exception at any point, `Crash` the end of
the process at any point; both may come after the replacement, so that its
caller never learns of it.  `ClockStep` moves the clock forward or back between
any two steps.  `EnterTransaction` and `LeaveTransaction` are `transaction()`.

The data is the log of fences of its writers: what the properties distinguish is
who wrote and whether a write got lost.  All processes have the same owner name,
so only the fence separates them; that is the worst case of the check by owner
and fence.  Validation of the JSON document and the check of paths are among the
reasons for `Abort`.

`EpochRegister` says the same without clock, files and locks: an epoch number, an
open flag, a log, and who believes in which epoch.  The refinement mapping is at
the end of `LeaseStore`.

### Supervisor

One action per `store.mutate` of the supervisor, guarded by the lease
(`Holds`), and one per call to the port or to the verification executor, so the
lease may be lost between any two of them.  `ctl[c]` is the local state of
controller `c`.  `Expire`, `Acquire`, `Crash`, `Raise` may come anywhere.  `epoch`
and `valid` are the register `EpochRegister` describes.

* tick: `Tick`, `Observe`, `Abandon`, `Observed` (its first loop), then `Skip`,
  `Scanned`, `Block`, `Intent`, `Send` (its second loop).  The loop visits tasks
  in the order of the plan; task numbers are in that order.
* port calls: `Dispatch`, `Poll`, `Cancel`, `CloseTree`, `ReadResult`.  `run[a]`
  is the entry of the worker ledger together with what the process does.  A result that
  could not be saved is answered with "unknown", and read later (`ReadResult`).
* results: `ApplyRunning`, `ApplyCandidate`, `ApplyFailure`, `Retire`,
  `StayUnknown`; the recovery is `Recovered`, with `BoundedRecoveryPolicy` or with
  an arbitrary policy that `Effective` overrules as `_recover` does.
* verify_task: `VerifyBegin`, `VerifyExecute`, `VerifyAborted`, `VerifyFailed`,
  `VerifyReread`, `Accept`, `VerifyRefused`.
* replan, initialize and close: `Replan`, `Initialize`, `Tick(c, "close")`,
  `Release`, `KeepLease`.

Abstractions: the content of a worktree is the number of the attempt that wrote
last.  Error classes are grouped by what the recovery does with them: `crash`
(crash, timeout, provider offline, unavailable), `other` (all that escalate),
`cancelled`, `blocked`.  The first reading of a candidate in verify_task is
merged with the mutate that follows it, and the two checks of a dispatch (tick
and the intent) are one, since only the sequential holder of the lease changes
what they read.  Routing, isolation and authorization of sources appear as
refusals (`Block`), planning as the sets of plans a run admits, with what
`_authorize_plan` guarantees as an assumption.  After a crash any set of worker
processes survives.

### WorkerPort

The same port from inside: each line of `_execute` that may be overtaken is a
step of `thread[a]`, each half of a call a step of `call`, and the locks that
are held across steps are variables (`pub` for publication_guard, `guard` for
launch_guard, which also has the ledger and the control store locked).  The
process tree is `none`, `suspended`, `live` or `gone`; closing a transport may
fail and leave anything behind.  Saves of the ledger may fail.  `Takeover` and
`ForeignCall` are what other controllers do.  After a crash the in-memory mark of
a cancellation is gone; `Supervisor` shows what the next epoch makes of it.
`close()` of the port is not called by the control loop; it is cancel of every
attempt.

`Ready(a)` and `CallReady` say, of a thread and of the call of the supervisor, that it
has something to do and waits for no lock.  They are state predicates; that they mean
what they say is `ReadyMeansEnabled`.

### WorkerLedger

What `ports.py` asks of a `WorkerExecutionPort`, with one step for what takes the port
several: an attempt is planned, registered, started, ended, recorded and told
(`Plan`, `Register`, `Create` and `Launch`, `Gone`, `Record`, `Tell`), may be cancelled
by the controller that has it (`Cancel`), and survives its controller (`Crash`), for any
controllers and worktrees.  `Keeps` says whom an attempt keeps out of its worktree,
`Recordable` what may still be recorded of it, `Known` what may be told.

Two modules implement it, each with a refinement mapping at its end.  `WorkerPort` is
one controller with one worktree, whose attempts all have a plan: its threads, locks and
transports are not seen.  `Supervisor` is the other side, any number of controllers and
worktrees: its `run[a]`, and what its controllers were told.  The port that the
supervisors are proved correct with, and the one that `workers.py` builds, are thus held
to one specification.  They are not composed: the ledger is what each is held to, and
`Supervisor` has further ways of answering "unknown" and of naming a failure.

### RemoteControl

`rows` is the queue file; the other state is that of one `RemoteController`:
the `target` of its queue, the session its `runtime` has, the `active` command,
and what each request `thread` is doing.  The queue takes its file lock for every
operation, so each is one action.  `_lock` is held across the calls to the
runtime: a thread that has it is in one of the `Locked` places, and actions that
take it need `LockFree`.

* requests: `Message`, `Retry` then `Link`, `Deliver`, `CancelQueued`, `Interrupt`
  then `Cancelled`; a request comes with a number, and may come again with it.
* steering: `CheckTurn`, `Steered`, `Injected` are message and deliver up to
  `_execute`.
* turns: `Execute` or `ActivateFails`, `StartOrSend` or `NoSession`, `Wait` (without
  the lock), `Clear`, and `Drain` for `_drain_pending`.
* `Restart` is the end of the service at any point, and `recover_delivered`.

`left` and `lost` are history variables: commands whose senders left them to the
active turn, and commands whose thread died of the assertion in
`_start_or_send`.  Messages are abstracted to their numbers.  Closing the
controller is part of `Restart`; a failing write of the queue file is not modelled.

Two weaknesses the model shows are tolerated by the properties, with a named
exception each.  When a start fails and closing that runtime fails too, a
runtime without a session stays (`Broken`): each later command of that target is
delivered to nobody, until the target changes or the service restarts (`lost`).
And a turn that ends after the controller has moved to another session drains that
session's commands only; those of the first wait for the next turn there.

### Integration

`disk[r]` is the journal of merge request `r` in its file and `op` the operation
that holds the repository's writer lock, with its own copy of a journal and its
place in the code; `op.handled` says whether the operation is inside the `try`
of `_continue`.  `main` and `marked` are the refs; `base`, `snapshot` and
`review` are the facts that are looked at (the lease of a worktree, the
accepted Tasks, the approval), with a version each.  A request stands for its
merge candidate, which its journal determines.

* beginnings: `Integrate`, `Continue` (`_continue`, from `integrate` or
  `reconcile`) and `RecoverPostMerge`.
* `_prepare`: `Accept`, `Prepare`, `Execute`, `Returned`, `Check`, `Review`; an
  interrupted publication begins with `Recover`.
* `_publish_and_verify`: `Publish`, `CheckFacts`, `Announce`, `Guard`,
  `Transaction`, `StartAttempt`; `_run_post_verification`: `RunPost`, `Execute`,
  `Returned`, `Judge`.
* every save is a step (`Save`); a save that fails may have replaced the file or
  not (`SaveFails`).  An exception (`Thrown`) goes to the branch of
  `_run_post_verification` (`PostFailed`), to the one of `_continue` (`Handle`), or
  ends the operation.
* `Fault` is any other call that fails, `TransactionUnseen` a transaction whose
  success is not seen, `Crash` the end of the process at any point.
* everybody else: `Deliver` (a requirement's Tasks are leased, run and accepted),
  `ChangeFacts`, `MoveMain`.

Abstractions: building the candidate, its diagnostic worktree and branch, and
bringing the main checkout up to date change nothing that is looked at again, so
they are calls that may fail.  Requests have requirements of their own, the case in
which the most can happen: with a shared requirement their facts change together.
The guard keeps lease and accepted Tasks from the last check to the transaction, and
an approval that is kept in the workspace; one that is kept by a task provider
(`External`) may change in between, since the guard cannot reach it.  The guard
is given up in the model right after the transaction, in the code a little later.
The `published` that `_publish_and_verify` saves twice is saved once.

One thing is left out: a `git update-ref` that outlives its killed parent.  The
writer lock is then free, `Recover` sees no marker and goes back to
`reauthorizing`, and the transaction of the orphan commits later.

### Workbench

`exec` and `receipt` are the files of executions and of replies, `kept` the runtimes
of this process, `task[t]` what request thread `t` is doing.  `Create`, `Claim`,
`Launch`, `Start` (or `Undo`, `Abandon`, `Fail`), `Record`, `Register` are start;
`ClaimReply`, `Connect`, `Send`, `Refuse` or `Deliver`, `Update`, `Complete`,
`Finish` are reply under `_reply_lock`; `Probe` is reply_capability; `Close`,
`CloseOne`, `Closed` are close; `Restart` is the end of the process at any
point.  `begun` and `taken` count what reached the provider, which no file says.
`CloseOne` reads and updates a row in one step.

### TrackedWorker and EventLog

`EventLog` has the log as operators: whole lines and a tail that is nothing, a whole
event without its newline, or a torn one.  `Recovered`, `Appended`, `Replay` are
`_read_locked`, append and replay; `Interrupted` is what a writer leaves that dies in
append.  `TrackedWorker` is a call of the port from `Prepare` over `Delegate` and
`Copy`, one event at a time, to `Save`; the worker writes to its log meanwhile (`Emit`,
`EmitTorn`, `End`), and `Raise` and `Crash` may come anywhere.

### Transport, ClaudeSession, CursorSession

`Transport` has one connection: callers (`Register`, `Check`, `Put`, `Answered`,
`TimeOut`, `Look`), the writer (`TakeLine`, `WriteLine`, `BrokenPipe`), the reader
(`ReadAnswer`, `ReadCompletion`, `ReadAsk`, `EndOfFile`), the bounded `queue` behind
`_write_lock` (`pen`), and close (`Close`, `PutStop`, `Kill`).  The provider answers
late, in any order, or never, and may die or talk nonsense.  The reader runs the
callbacks of `codex.py`: they tell the event sink before they note a completion or
decline a request, and what they raise ends the reader (`stdio.py:553`).  `ReadFails` is
that: the completion in hand is then noted nowhere.

`ClaudeSession` and `CursorSession` are one session each above such a connection.
`results[t]` is the prompt whose result was taken for turn `t`; since the code
cannot see that, it is what the properties are about.  Claude has the facade
`service.py` over it, which remembers turns and cancels (`Remember`, `Cancel`); Cursor
has a thread for each turn (`prompter[t]`).  What the provider may do (`TakePrompt`,
`TakeInterrupt`, `Answer`, `Update`, `Respond`) is external: it takes lines in order,
and answers prompts in order.  A failed connection, a full queue and waits that time
out may come at any step.

### Projection and ProjectionPump

One card, with versions and its last writer, and the entry of its node in the ledger.
A sync is `Begin`, `Prepare`, then `Read`, `Judge`, `Cas`, `Done` or `Recover`,
`Finish`; each save of the ledger is a step under its lease, which may expire.  A
compare-and-set may be executed after its caller has given up (`Late`), and users
write at any time.  The pump is its three variables, its thread, and `Close`.

### SessionBindings, BoardCards

`file[r][s]` is the entry of a session in `sessions.json`, `lock` has both kinds of
locks, `op[s]` what the session's process has read.  Each operation is `Attach`, `Rebind`
or `End` (decide), `Write` (the file), then calls of the provider without a lock, then
`Reread` and `Merge`.  `Kill` may come in between.  `held[s]` is a history variable: the
tasks attach_session gave out.

`BoardCards` has the space card and the work card of a requirement, as two views: what
`ensure_requirement_space_task` and `ensure_requirement_board_task` list, find, create
and record under provider_locked, select_tasks without that lock, and users.

### Dispatcher

One task.  `entry` is its row in `dispatcher.json`, `runs[k]` its executions, by the
version of the card.  `turn` is run_once: `Candidate`, `Claim`, `Prepare`, `Launch`,
`Note`, `End`, `Report`, `Block`, `Remember`.  `Delegate` to `DelegatePublishes` is
delegate_task, `CancelReads` and `Cancel` request_cancel, `ClaimReads` and `ClaimPlan`
claim_plan of V2.  `Start`, `StopDispatcher`, `Exit`, `Crash` are its process.

### Workspaces

The worktree of one task: `Ensure` to `Activate`, `Capture` to `Record`, `Release`.
`dir` is the identity of the directory, `tree` what git and the disk have there:
marker, files, index, branch, whether it is foreign.  `Stranger` is anybody else at that path, `Edit`
and `CommitItself` the worker.

### RequirementOwner, Watchdog

`RequirementOwner` reads the facts one after the other while they change
(`ObserveReads`) and writes under the lock; agents call with the revision they know.
`Watchdog` lists the executions one by one, takes the time, reads their events, and
writes.  Those who run an execution claim it (`Claims`: claim_start and prepare write the
status, and no time of progress), record that it runs or is over (`Starts`, `Ends`), and
log its events (`Works`).  Events of a session that the record did not name when it was
listed end the scan (`Mismatch`).  Loops, repeated failures and budgets are further
functions of the same readings and are left out.

### PhaseGate, Completion, Deployment

`PhaseGate` has the git history that is compared, one file per receipt, review,
gate, activation and reopen journal, a `clerk` that issues or reopens under the
requirement's lock, and the `guard` of `advance_next`, which may die and be taken up.
Fingerprints are numbers.

Git is not locked, and the validation of a gate reads HEAD anew for each of its looks.
The issue of a gate is therefore a step per look: `IssueBegins`, `IssueDrafts` (after the
suites were run again), `IssueChecks` (`_require_exact_head`, then the definitions down the
chain, then up the activations whether HEAD contains each gate, then
`_require_exact_head` again) and `IssueWrites`, with `CommitWork` and `Checkout` between
any two of them.  In the other operations, which validate what is stored, the looks are
not steps, but each may fall on any commit (`ChainTo`).  The code walks the lower chain
again for each activation; the model does it once, since a second walk can only refuse
more.  `still` in the record of a gate is a history variable: HEAD did not move between
its draft and its writing.

`Completion` has the commands finalize, review, sync, confirm, request-changes and the
stop hook as processes with a place each; `locks` are the requirement's, the
provider's and finalize's.  Users edit the documents and move the card; a V2 intake
may come at any time.  `Deployment` has the receipts of keys, the calls
the provider has had, and the tokens.

## Runs

| run | question | states | time |
|---|---|---|---|
| `store` | two processes, clock 0..2, leases of 1 or 2, operations begin up to revision 4: `Fenced` (one holder, fenced log), no lost change, `TermsKept` (no usurpation, no revival, fenced launch), refinement of the register | 471 k | 25 s |
| `replan` | one controller that crashes and returns, a chain of two tasks in one worktree, any recovery policy, one replan that turns or shortens the chain, one refreshed verification: what is persisted stays valid, a verification stands for what was verified, attempts are paid for | 2.44 M | 115 s |
| `shared` | a reader and a writer, independent, in one worktree, two controllers, two epochs, every call interruptible: writers run alone, candidates are left alone, no orphan, only results of the current epoch | 1.24 M | 100 s |
| `settles` | two controllers that do not fail, leases that do: an attempt of the holder is settled, and the port takes only the steps of the worker ledger | 307 k | 119 s |
| `port` | two attempts in one worktree, failing saves and closes, a takeover and a crash at every moment: ends are known when they are said, cancellations hold, no circular wait, and every step is one of the worker ledger | 907 k | 98 s |
| `remote` | three threads, two sessions, two commands: turns undisturbed, outcomes stay, no command forgotten | 605 k | 33 s |
| `queue` | two requests, one with an external approval, one change by others, two faults anywhere: published and verified once, the journal is true of main, current when published, and every request comes to rest | 347 k | 59 s |
| `work` | the thirteen modules of `Work` in fourteen views (the cards of a requirement are two) | 2.02 M | 130 s |
| `delivery` | the three views of `Delivery` | 1.78 M | 165 s |
| `replay` | two threads, one session, one command: is a command delivered once?  Violated |  | 1 s |
| `released` | the instance of `queue`: does a publication hold the queue until its receipt is merged?  Violated |  | 3 s |
| `taken_twice` | two sessions, two tasks of one requirement, four operations: is a task given to one session?  Violated |  | 2 s |

What the two unions say of each view:

| property | view | in words |
|---|---|---|
| `RepliesTrue` | Workbench | one session per creation_key, one delivery per command_id, and a receipt is what the provider knows |
| | ClaudeSession | a result is that of the prompt whose turn it is given to; an interrupt stops the turn it was sent for, or a later one after that turn has its result |
| | CursorSession | so is each update, none is missing from a turn that was answered, and a cancel reaches the prompt it is meant for |
| `NoFalseRunning` | Workbench | after close no execution that this process had registered by then is called running |
| | Watchdog | an execution that is called stuck had no event of progress in its log for stuck_seconds |
| `Mirrored` | TrackedWorker | the copy of a log is a beginning of it, once, and an event that was acknowledged keeps its place |
| | RequirementOwner | a state that is not called stale shows the facts |
| `ToldOfFailure` | Transport | nobody sleeps through the failure of the connection |
| `LedgerTrue` | Projection, ProjectionPump | an acknowledged write is ours and took place; the last snapshot is handed in |
| | BoardCards | one space card, one work card |
| `OneOwner` | SessionBindings | a session works for one requirement |
| | Dispatcher | V1 does not work at what V2 has claimed |
| | ClaudeSession | no session beside a probe that may still run |
| `WorkSafe` | Transport, ClaudeSession | `CompletionCounts`: a completion that was noted is not lost, also when the connection fails after it; one that was taken off the wire and not noted is the last, and has ended the connection |
| | Projection, BoardCards | `CardsRespected`: a card is not moved over a user; the ledger does not go back; a space card known to be closed stays closed |
| | Dispatcher | `CallsInPlace`: a prompt known to be running is not sent again |
| | Workspaces | a candidate is what the worker left; nothing foreign is touched |
| | RequirementOwner | a call changes the state its caller has read |
| `PhasesStand` | PhaseGate | an activation rests on a chain of gates, by number, commit and receipt; a gate keeps the definition of the one before it if HEAD stood still while it was issued; phases open in order |
| `DoneMeansDone` | Completion | a V2 requirement is done with its token, a manual one with a packet that a user approved |
| | Deployment | the provider is asked once per commit; a token stands for a deployment that succeeded |

**Bounds.**  Two processes, two epochs and two attempts are the least number for which
one can overtake the other; a third only repeats the situation of the second, since
every check compares with the latest epoch or with one other attempt.  Two tasks are
needed for a dependency and for a shared worktree.  Clock 2 with leases of 1 and 2 has
expiry before, at and after the instant of a check, and a clock that was set back.  Four
revisions let each of two processes acquire and commit, with a nested commit.  Retry
budget 1 and replan budget 1 have a budget that is available, used and exhausted; three
request threads are a turn, a sender that leaves its command to it, and one that steers
or cancels, and with two sessions a turn elsewhere closes a runtime; `MaxAttempts` 2 is
enough for a retry of one task or for both tasks once.  In `port` the two attempts are a reader and a writer, and once both are
dispatched the epoch does not change any more and what is cancelled for certain is not
cancelled again: each would concern one attempt alone.  Symmetry (of controllers,
sessions and commands, which differ in nothing but their names) is used only in safety
runs.  In `queue` two requests are what it takes to overtake in the queue, two versions
to change a fact, two attempts to recover a verification once, two faults to have the
handling of a fault fail as well, and one change by others to have main or a fact change
at any of the steps.

In `work`: two threads and two replies to one execution (the same session, and the
second waits for the first); three events with pages of two, so that a copy needs a
second page and can be cut in both; two requests, an outbound queue and a wire of one,
so that each is full at once; two processes, two snapshots and card versions up to 2 (a
write of ours and one of a user, in both orders); three snapshots for the pump (synced,
submitted, later); two sessions, two requirements and two tasks with four operations;
three commits and two directories at the path of a worktree (ours and a stranger's or a
later one of ours); three turns, of which one may be late while the next is active and
the third is begun, over lines of two; two facts and six revisions; one execution, time
up to 3 with limits of 2 and 1, so that an age can be below, at and above a limit and the
claim later than the creation by more than it (two executions differ only in what is
reported as duplicated work, of which no property speaks); two cards of a kind, and one action that the main agent keeps
(100 in the code) so that the cap is reached.  In `delivery`: two phases and two gates (one reopened and issued
again), two sessions, two processes with three commands in all, two packet revisions; the
phase gates see two commits, enough for HEAD to be away and back; two requirements, three
commits of which two have the same tree, and two controllers.

**Deadlock** is checked in `store` and `remote`.  In the other runs it is off:
controllers may be gone for good, the epochs, turns and attempts of an instance are used
up, and a requirement may simply be done.  In `port` the locks are the subject of
`NoCircularWait`, which says it of the threads and calls alone, whatever else can still
happen: whoever holds a lock is `Ready` or waits for a lock further up, and something
that is under way is `Ready`; `ReadyMeansEnabled` is checked beside it.

**Fairness.**  `Supervisor!FairSpec` lets every controller go on with its
operation and start a further tick: run_supervisor ticks in a loop as long as a
worker is live and then closes.  A worker ends because `runtime.wait` has a
timeout.  Nothing is assumed of operators, expiry or takeovers.  `Settles` is
claimed only while the lease is held and for an attempt whose handle the process
still has: in all other cases the code fails closed, an attempt stays unknown and
an operator has to decide.  `Integration!FairSpec` lets an operation run
to its end, because every call in it has a timeout, and lets somebody call
reconcile again and again; `ComesToRest` then needs that faults and changes by
others are bounded, which the instance does.  Waiting for a person (an approval, the
outcome of a verification that nobody knows, main at a foreign commit) is rest.
Nothing else assumes fairness: that nobody waits for ever in the port or in the
transport is said as a state property (`NoCircularWait`, `ToldOfFailure`).

## What the checks say about the code

Every property but three holds in its run, and each of them is violated by at least
one small change of a mapped definition, listed under `mutants`: a dropped
comparison in `_commit`, an accepted release of the slot, cancelling in the wrong
epoch, and so on.

The first exception is `DeliveredOnce` of `RemoteControl`.  The repository's README
(lines 383 and 384) and the comment of `CommandQueue` (`dashboard.py:41`) say that
a repeated request with the same `command_id` is not delivered again.  The
queue keeps one row for it, but `message` goes by the status that `enqueue`
answered and looks at nothing again once it has the lock: two requests that
arrive together both see `queued`; the first begins a turn, and the second steers
the same message into it, or begins another turn when the first has ended.
`_execute` ignores that `update(command_id, "delivered")` was refused, so a command
that was cancelled or completed between `_drain_pending` and `_execute` is sent
too.  `OutcomeStays` holds all the same: the row does not change, which is why
nothing shows in the queue.

The second exception is `QueueHeld` of `Integration`.  The comment in `_continue`
(`integration/service.py:164`) says that once `publishing` is on disk an error of git,
disk or network must not be read as "nothing happened", and
the README (line 412) that a request whose post-merge verification failed stays as
it is; a test (`tests/test_git_integration.py:436`) expects a request that was
interrupted at its publication to block the next one.  When the
post-merge check fails, `_receipt` sets the state to `recovery_required`; if
saving that receipt fails, the handler of `_continue` finds a state that is not
among those it leaves alone and saves `rejected`.  `_queue_available` counts a
rejected request as converged, so the next one is let in although main is at an
unverified commit.  `JournalTrue` still holds: the receipt inside the journal says
`recovery_required`.

The third is `TasksApart` of `SessionBindings`.  The comments of `attach_session`
(`automation/session_runtime.py:55` and 74) say that the conflict check and the write
are one atomic operation under the workspace lock, and that two agents of a
requirement may only work at different tasks.  But the file is also written under the
lock of the requirement, by the second part of `attach_session` itself, by
`rebind_session_task` and by `end_session`.  One of these reads the file, another
session attaches in between, and the write drops its binding: the next session is
given the same task.  `OneRequirement` holds all the same, since a lost binding
only makes a session free.

### Observations

The models, or the reading they needed, show the following as well.  The properties do
not exclude them.  Where one is at odds with a comment, the line of the comment is given.

* Remote control: when a start fails and closing that runtime fails too, each later
  command of that target is delivered to nobody until the target changes.
* Executions: a crash after the prompt was sent and before "running" is recorded sends
  the prompt again (`Dispatcher`).  Workbench: a runtime that can be neither recorded nor
  closed may lose its last reference; a start that registers its runtime when everything
  has been closed leaves an execution running that nobody closes (`workbench.py:141`).
  `NoFalseRunning` leaves the latter out.
* Transport: a completion on which the event sink raises is noted nowhere
  (`codex.py:174-181`); the turn ends with the failure of the connection.
* Dispatcher: `_remember` (`dispatcher.py:248`) may overwrite a cancellation that was
  accepted for a newer version of the card; a dispatcher whose start was killed between process and record
  can be joined by a second one (`dispatcher.py:553`); the binding of a session is not
  read again between candidate and claim; a user who activates a card before
  delegate_task has recorded it is taken for the delegation; a delegated task that
  failed is not run again.
* Sessions: attaching a session again unlinks its own binding
  (`session_runtime.py:131-135`), rebind does not look for overlaps, and a session that
  ended comes back with its old tasks.  The stop hook of a session that was never
  finalized completes its tasks unverified.
* Worktrees: a crash between `mkdir` and the saving of its reservation
  (`git_workspace.py:649`) leaves a task that cannot get a worktree; an edit after a
  crash with a pending candidate makes every later capture refuse.  A checkout away and
  back during a verification is not noticed.
* Phase gate: `V2实施主计划.md:200` says that a later phase may not rewrite the definitions
  that were issued before it, and `_require_frozen_definition` (`phase_gate.py:2052`) that
  a later commit must keep them.  The comparison is made with HEAD at that moment
  (`phase_gate.py:2054`), not with the commit of the gate: a gate is drafted at a commit
  that rewrites the definition of the phase before, HEAD is moved to another commit, where
  the definitions are compared, and back before the last look; the gate is written.  The
  comment at that look (`phase_gate.py:1755`) says itself that it only narrows the window.
  Without `still`, `ChainStands` is violated by just this, in 26 states.  What holds is
  numbers, commits, receipts and order in any case, and the definition if HEAD stood still.
* Completion: finalize, which is serialised by its lock, may still take a completion
  back that another command has made (`runtime.py:868` says it avoids that for
  concurrent finalizes), and may overwrite an approval that came while it published a
  packet (`task_attach.py:437`).  The fingerprint of evidence it records is that of the
  end, not the one that was reviewed (`runtime.py:544`).  Changes that are requested
  during a finalize are overridden by it.
* Deployment: a failed deployment is never tried again at the same commit; main may move
  between the check and the provider's call; publication accepts a token of another
  commit with the same tree (`deployment.py:571`), which the guard of deliveries then
  refuses (`delivery_guard.py:78`); the second token of a requirement always conflicts.
* Merge queue: a request whose verification has an unknown outcome before it is published
  stays at `integration_verification_running`, and keeps the queue, until somebody
  handles it (`service.py:153`).  `ComesToRest` counts this as rest.
* Claude: the interrupt is sent outside the lock and may stop the next turn
  (`claude.py:447`), which `StopsOwnOrLater` permits once its own has its result; a send that the full queue refuses leaves the session busy with a
  turn that nobody ends (`claude.py:418`); cancel of the facade may miss the active
  turn, since `_remember` is not ordered (`service.py:127`).  Cursor: a cancel
  before the prompt was sent is lost, and a close that fails leaves a turn without a
  result.
* Watchdog: the list of executions is not a snapshot, since its lock is not that of
  their writers (`executions/store.py:75`), so duplicated work may be reported of executions that
  were never active together.  A claim is no progress: claim_start and prepare write no
  time (`executions/store.py:118` and 138) and the watchdog falls back to `created_at`
  (`supervisor_watchdog.py:164`), so an execution that was queued for long is called stuck
  right after its claim.  `NoFalseAlarm` speaks of the log only.
* Cards: a user who closes the space card between its listing and the reconcile sees
  it opened again (`task_attach.py:238`); a request card of a session and the work
  card of the board may both be created, because select_tasks is not under the lock
  of the provider.  A work card that complete_tasks hides while the requirement is open
  is not seen by `OneCard`.

## Proofs

### LeaseStore

`LeaseStoreProofs` proves, for any number of processes and any bounds, and from
the assumptions of `LeaseStore` only (the placeholders are not processes or
leases, the bounds are numbers):

| theorem | what it says |
|---|---|
| `TypeCorrect` | the type invariant |
| `EpochsFenced` | at most one process has the credential the document accepts (`OneHolder`), and no change of an older epoch follows one of a newer epoch (`Fencing`) |
| `ChangesKept` | committed changes are never lost |
| `EpochsInOrder` | workers start for the current epoch only (`LaunchesFenced`), an epoch begins only after the previous one was over (`NeverUsurped`), and an expired lease is never extended (`NeverRevived`) |
| `Refinement` | `LeaseStore` implements `EpochRegister` |

The argument.  None of the properties is inductive, since a process in the middle
of an operation carries a document it read earlier and one it will write.  The
inductive invariant `IInv` says what is true of those:

* `LockHeld`: whoever is in an operation has the lock;
* `NothingMissed`: from the moment of the comparison in `_commit` the document it
  was based on is the one in the file (nested commits are why that comparison is
  needed);
* `PlansHold`: the document about to be written is what its operation makes of
  that base;
* `CredentialFences`, `Presented`: credentials never have a fence newer than the
  document, a credential with the current fence belongs to one process, and an
  operation presents a credential its process has had;
* `LogFenced`, and the latest launch is not newer than the document.

`InvStep` shows that every action keeps `IInv`, one step per action with lemmas
for the shared ones (`BeginStep`, `EndStep`, `NestedMutateStep`, `ProgressStep`,
`EffectStep`).  The action properties follow from `IInv` for `Replace` and
`Launch`, the only actions that change the document or start a worker; the
refinement from `ReplaceRefines`, and stuttering of the rest.

### Supervisor

`SupervisorProofs` proves, for any number of controllers, tasks, worktrees, attempts and
epochs, any plans and any recovery policy, and from the assumptions of `Supervisor` only:
the placeholder is not a controller, tasks are positive numbers, bounds are numbers,
plans assign their own tasks and depend on them (`PlansAssumption`), and a later plan
grants a task no more than the initial one (`AuthorizationAssumption`, which is what
`_authorize_plan` checks):

| theorem | what it says |
|---|---|
| `TypeCorrect` | the type invariant |
| `AlwaysValid` | `_validate_data` accepts whatever the supervisors leave behind |
| `NobodyOrphaned` | what runs or may still start is the attempt its task waits for |
| `WorktreesKept` | a writer is alone in its worktree, and a candidate stays as its worker left it until it is verified |
| `VerificationsCount` | what is accepted was tested as it is and for its present task, and nothing is built on less |
| `AttemptsArePaidFor` | attempts are paid for by retries and replans |
| `OnlyCurrent` | a candidate is taken only under the epoch of its dispatch, after its worker ended and never after a cancellation |
| `PortIsLedger` | `Supervisor` implements `WorkerLedger` |
| `LedgerKeepsPromises` | whatever implements `WorkerLedger` has `EndsForGood` and `WritersAlone` |
| `WorkersApart` | so the workers of all supervisors have them |

The invariant `IInv` has three parts.  *The persisted state*: attempts are numbered in
order (`Numbered`), nodes follow the plan and its authorization (`Planned`, `Granted`),
writers are alone (`Apart`), and per task `NodeShape` (status, active attempt and check
belong together), `NodeKnown` (an active attempt is the last of its task, and a candidate
is what the last worker `Left`) and `Paid`.  *The worker ledger*: `AttemptKnown` says when
an attempt has ended, and that one recorded as ended is `Done`: nothing runs, and its
result can change no more, since it was cancelled or nobody is about to cancel it.
*The controllers*: `ControllerKnown` holds of each whether or not its lease has passed on
(what it dispatches was never registered, what it has read of a cancelled worker is still
so), `InHand` only while it has the current lease.

The last distinction is the argument: a controller that lost its lease may do everything
that needs no lease, and `ControllerStep` and `RunStep` show that this disturbs no node; a
change needs the lease, and then `Alone` says that nobody else has it, so that what the
controller knows of the nodes is still true.  The lemmas follow the ways in which a step
may change the state: `ControllerStep` (only its own place), `PortChange` and `RunStep`
(one attempt of the ledger), `SettledStep` (a task without an active attempt), `RecordStep`
(an attempt together with its task), `IntentPersisted` (a new attempt), and `PlanStep`
(all nodes).  `OnlyCurrent` follows from `IInv` for `ApplyCandidate`, which `TickArises`
and `OtherArises` show to be the only step from which a candidate arises.

The refinement of `WorkerLedger` needs nothing more than `IInv`.  Of the steps of a
controller the ledger sees what they make it forget, cancel or be told, and a few of
them not at all; of those of the port, what they do to `run`.  The promises of the
ledger are then a matter of the ledger alone (`LedgerInv`, kept by its steps in
`LedgerSafe`): whatever has ended does not run and will not, and the test of `Register`
looks at everybody who still may.

### WorkerPort

`WorkerPortProofs` proves, for any number of attempts, any writers and any epochs, and
from the assumptions of `WorkerPort` only (writers are attempts, the placeholder is
neither an attempt nor the port, one epoch at least):

| theorem | what it says |
|---|---|
| `TypeCorrect` | the type invariant |
| `EndsAreKnown` | whatever is recorded or told as the end of an attempt comes after the end of its processes, and a result that could not be saved is kept and holds up every other dispatch |
| `DispatchesApart` | nothing is dispatched beside a cancelled attempt whose end is not recorded |
| `CancellationsHold` | a cancellation or a takeover that comes before the start prevents it, one that comes after it decides the result |
| `LocksOrdered` | no lock is waited for in a circle |
| `PortImplementsLedger` | `WorkerPort` implements `WorkerLedger` |
| `LedgerKeepsPromises`, `WorktreesAlone` | its promises, for the ledger with one controller and for the port |

The heart of the argument is `Over`: the process tree of an attempt is gone, and its
transport is closed for good, or was never made and its thread is past the point where
it could make one.  Nothing undoes `Over`.  `EndKnown` says that every place from which
the end of an attempt can become known - the ledger, the result that waits to be saved,
the thread on its way to publish, the flag that the cleanup was done - is reached only
when it is `Over`, and `ToldTrue` the same of the last answer.  `TransportKnown` ties the
transport to the position of the thread, `ResultKept` says what a cancellation leaves of
a result that waits, `CallKnown` what a call relies on between its locks, and `Locks`
who holds which lock.  A thread step keeps what is known of the other attempts and of the
call (`ThreadKeeps`), a step of the call what is known of the others (`CallKeeps`).

That is the invariant `IInv`, which says enough of ends, and too little of what is
still under way.  `JInv` adds it.  `PlaceKnown` says that a process is made by the
one thread that is there to start it, and that a transport is being started only while
that thread is at it; `ResultDue`, that an attempt which is not cancelled is on record as
running until its result is saved, and that a cancellation on record is a confirmed one,
which nothing else replaces; `CallDue`, where a call is that has cancelled, or that could
not start its thread; `EpochsDue`, that nobody acts in the name of an epoch to come.
`LocksOrdered` needs it for the holder of a lock, who may only wait for a lock
that is held by somebody at a place where nothing is waited for; the refinement needs it
because a step of the ledger is allowed by what is recorded, while the port goes by what
its threads and calls remember.  `LedgerStep` has one lemma for each action, with
`Unseen` for those that the ledger does not see; most of the work is in `SaveLedger`
(what was chosen earlier is still recordable when it is saved) and in `KeepsBusy` (the
test of `register` keeps out all that `Keeps` does).

### RemoteControl

`RemoteControlProofs` proves, for any number of threads, sessions and commands, and
assuming only that the placeholders `None` and `Broken` are not sessions:

| theorem | what it says |
|---|---|
| `TypeCorrect` | the type invariant, with the mutual exclusion of `_lock` |
| `TurnSafety` | while a turn runs, its runtime stays, and no other turn begins |
| `EveryCommandKept` | delivered commands have an owner (`DeliveredOwned`), and a command left to the active turn is looked for (`LeftIsLookedFor`) |
| `OutcomesStay` | an outcome is never overwritten |

`TurnUndisturbed` needs to know what a thread finds when it comes back from the
runtime with the lock: no turn is active and the target is its session
(`SendingAlone`), and a runtime is always that of the target (`RuntimeOfTarget`).
`NothingLeftBehind` speaks of the moment when all threads have finished.  Its
inductive form is `SomeoneLooks`: as long as something is left there is a thread
that will look, either on its way to the queue, or in a turn that ends there.
It holds because a sender leaves its command only to an active turn, an active
turn has a thread (`ActiveHasThread`), and a turn that is being steered does not
end meanwhile (`SteeringActive`).  `QuietActions` shows that nine of the actions
are `Quiet`: they leave turn, target and runtime alone; `QuietKeeps` then does
the invariant once for all of them.

### Integration

`IntegrationProofs` proves, for any number of requests, attempts, changes and faults,
and from the assumptions of `Integration` only (placeholders are not requests,
commits or journals, the bounds are numbers, at least one version and one attempt):

| theorem | what it says |
|---|---|
| `TypeCorrect` | the type invariant, with what a state says of the verification and authorization recorded with it |
| `Once` | a request is published once, each of its verifications is sent once, one at a time |
| `JournalAndMain` | what was published has its marker, and a journal that says so (`NeverForgotten`); what is completed was published, and its last verification was sent and has passed (`CompletedVerified`) |
| `Currency` | main is moved only for a saved intent, and while the facts are those of the authorization |

The history of what was sent is not in the journal, so the invariant relates the
two: `Sound` says of a journal, wherever it is, what follows from it (`SentOf`: a
verification that was sent is not recorded as `not_started`, one that is open is
recorded as `running` or `unknown`; `PublicationKnown`: a marked candidate has a state or a
receipt that says so).  `DiskSound` says it of every file and `OpSound` of the copy of
the running operation.  These two differ while the operation is about to save, and a
failing save may leave either of them; that both are sound is why nothing depends on
which it was.  `Found` says what an operation has established at each place, for the
place it will reach after its save (`Target`).  The proof has the lemmas about
journals first (`SoundContinued`, `NewAttemptSound`, `StateChanged`, `PostFailedSound`,
`HandledSound`), then one for each way in which an operation goes on (`Goes`, `Saves`,
`Throws`, `Ends`, `Stores`), and then the actions.

### Delivery

`DeliveryProofs` proves, for any number of phases, commits, gates, sessions, commands,
packet revisions, requirements and controllers, and from the assumptions of `Delivery`
only (bounds are numbers, and the placeholder `None` is not a record, a fingerprint or a
command):

| theorem | what it says |
|---|---|
| `TypeCorrect` | the shapes of the three views, with who holds which lock |
| `PhasesStandAlways` | an activated phase rests on the chain of gates before it, by number, commit and receipt, and by definition where HEAD stood still; phases open in their order |
| `DoneMeansDoneAlways` | done means approved where approval is asked for, and delivered where V2 delivers; a token stands for one deployment that succeeded |
| `DeploymentTypeCorrect`, `DeployedOnceEver`, `TokensTrue` | the last of these of `Deployment` alone, as a specification of its own |

*Phase gate.*  `PhasesStand` speaks of activations; what makes it inductive is `Stored`:
every gate on disk is `Sound`, that is, its receipt is there, was taken at its commit,
its commit descends from that of the gate before it, and the definition it froze is
still that of the gate before it if HEAD stood still meanwhile; and an activation is of
the gate that is there, which is not being reopened.  `ClerkKnown` says what the holder of
the requirement's lock has found out at each of its looks: the record it is about to write
is for the commit where HEAD is, unless HEAD has moved (`Draft`), and once the definition
of the gate before it was compared (`PastDefinition`) it is that of this commit, with the
same exception (`Looked`).  At the last look the record is `Sound`, and stays so, since
only the holder of the lock removes a gate.  A movement of HEAD takes away only what
depends on `still` (`DisturbedStep`).  `GuardKnown` says the same of the transition, which
takes no lock at all: what it relies on is only what nobody can undo while it goes on.
Git moves under both; `Grows` is all that is needed of it (the past of a commit does not
change).

*Completion.*  Six kinds of commands run at once, in thirty places, under three locks
which most of them leave around a call of the provider.  `RoleOf` says which command
comes to which place, `LocksOf` which locks it has there, and `GroundsOf` what it has
found out and nobody can take back: that a print was approved, and, for who is about to
write `done`, that `MayComplete` still holds, because the lock of the requirement keeps
out an intake of V2.  `MetaKnown` and `CardKnown` say what the file and the card may
say.  The lemmas `Moves`, `Goes`, `Takes` and `Ends` describe a command that goes on, so
that each action needs a proof only of what it finds out.

*Deployment.*  A controller may die between the answer of the provider and the receipt,
so that nothing on disk tells whether it was asked.  `DeployLockKept` says that whoever
is inside the lock of a key has its intent on disk, and is alone there; `DeployAsked`,
that the provider was asked only where an intent was left, and not yet by those who are
still about to; `DeploySuccesses`, that a result in memory, a receipt and a token of
success are each of a deployment that is live, a receipt of success being the one thing
that is never replaced.

### Work

`WorkSessionProofs` and `WorkProofs` prove, for any number of threads, executions,
replies, requests, sessions, tasks, requirements, processes, snapshots, turns, commits,
cards and facts, any capacity and any limits, and from the assumptions of `WorkSessions`
and `Work` only (placeholders are nothing else; bounds are numbers, three of which are
not zero; every reply is to an execution and every task of a requirement; a snapshot
says a status for the card):

| theorem | what it says |
|---|---|
| `TypeCorrect` | the shapes of the views, and who may hold their locks |
| `RepliesTrueAlways` | sessions and deliveries happen once; answers are those of their prompts; an interrupt of Cursor stops the turn it names, one of Claude that turn or a later one |
| `NoFalseRunningAlways` | what was registered when everything was closed is not called running; what is called stuck had no event of progress for that long |
| `MirroredAlways` | the copy of a log is its beginning; a state that is not stale shows the facts |
| `ToldOfFailureAlways` | nobody sleeps through a failure |
| `LedgerTrueAlways` | acknowledged writes took place; the last snapshot is handed in; one card of a kind |
| `OneOwnerAlways` | one requirement per session, one engine per task, one provider process per session |
| `WorkSafeAlways` | a noted completion is not lost, and one that was dropped has ended the connection (`CompletionsCount`), what users made of a card stands (`UsersCardsStand`), and prompts are sent once, candidates true, nothing foreign touched, decisions made on what was read (`CallsStayInPlace`) |

`WorkInv` is the conjunction of the invariants of the views, each under the `part` it is
about; `WorkStep` needs one step per view, since a view rests while it is not its turn.
The invariants say what the interleavings leave standing:

* *Workbench* (`Located`, `Alone`, `Kin`, `Told`): who has passed claim_start is alone
  with its execution, so that `begun` is still 0 when it opens the session; a reply
  knows at each place what its receipt says, because the others wait for the lock.
* *TrackedWorker* (`Counts`, `Paged`): logs without gap or repetition are counted by
  their length, so "a beginning of" becomes a comparison of lengths; a page that is
  being copied begins where the copy ends, also when its first events are there already.
* *Transport* (`Registered`, `Sent`, `Awake`): an entry in the table of pending requests
  exists exactly while its caller is between registration and return, so that marking
  the table at a failure reaches everybody who waits; a completion is on the wire,
  noted, or the last that was read.
* *Dispatcher* (`Marked`, `Fits`, `DelegatedOnce`): from its claim to its end a task is
  marked, which keeps V2 from claiming it, and nobody takes the mark back; what it works
  at is not known to have run before.
* *Workspaces* (`History`, `Site`, `Making`): what each crash point of ensure and
  capture_candidate leaves is still a state from which the ledger tells what is its own.
* *ClaudeSession* (`ClaudeFlow`): results name no turn, but one prompt at most is on its
  way, from the line it was written on to the result, and it is that of the active turn
  (`ClaudeNames`, which also gives which turn an interrupt can stop).
* *CursorSession* (`CursorStage`, `CursorSettled`): so for Cursor, with the count of
  what the agent has said: read plus on the wire equals said, and one more when the
  response has come.
* *Projection* (`Honest`, `Underway`, `Informed`): an intent or an acknowledgement of
  the present version of the card means that no user has written; a request that may
  still be executed names the present version, so a late one does nothing once the card
  has changed; what a process has read is either the present card or of an older
  version.
* *ProjectionPump* (`PumpOrder`, `PumpEnds`): the last snapshot waits or was tried.
* *SessionBindings* (`BindCopies`, `BindOne`): two locks do not exclude each other, so
  what an attach has read may be overwritten; but it never forgets that a session is
  active elsewhere, and `WillBeActive` counts what is about to be written as well.
* *RequirementOwner*: what is known of the present revision is the present state, so a
  comparison of revisions is enough.
* *Watchdog* (`WatchdogScan`): what is noted of the log of an execution holds up to the
  time of the scan, whatever is appended after it.
* *BoardCards* (`CardSpace`, `CardWork`): who is about to create has seen every card
  there is.

**Only model-checked**: all of liveness, that is `Settles` of `Supervisor` and
`ComesToRest` of `Integration` (temporal properties under fairness), and
`ReadyMeansEnabled` of `WorkerPort`, since ENABLED is beyond the prover.

## Not modelled

`PROJECT.json` gives the reason for each component.  In short:

* **Process isolation** (`orchestration/isolation.py`, `native_isolation.py`): Windows
  access control and process creation, operating system calls in sequence; what can
  happen between them is the process tree of `WorkerPort`.
* **Verification execution** (`integration/verification.py`, `verification_provider.py`)
  and **attestation** (`github_attestation.py`): a child process or a signed document is
  checked and gives a result; they keep no state that another step could disturb.
  Their results are the outcomes of `VerifyExecute`, `Execute` and `Verify`.
* **Contracts** and the validation of documents: data classes.  A document that is
  malformed is a refusal.
* **Command line and user interface**: parsing, rendering and HTTP.
* **Providers** (`adapters/`): wrappers of external programs, except reconcile_task.

Left out of components that are modelled: discovery of models and capabilities;
hooks as programs and git_sync; the gate on worktrees and branches in attach; a
`git update-ref` that outlives its killed parent; a card whose creation is executed
after its caller gave up; more than 1000 events at the last sync; the writer thread of
a connection that stays blocked after its process is gone (`stdio.py:577`); a second
concurrent run of `IntegrationExecutionService` (`multi_agent.py:254`).

Possible next steps: the composition of `WorkerPort` and `Supervisor` for one worktree, with
two ports over one ledger; an abstract specification of the merge queue (a request is
queued, published once, verified, and at rest) that `Integration` implements.
