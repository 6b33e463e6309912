----------------------------- MODULE Dispatcher -----------------------------
(***************************************************************************)
(* The task dispatcher of V1 (automation/dispatcher.py) and who meets it   *)
(* at a task: Main delegates and cancels (automation/delegation.py), the   *)
(* controller of V2 claims (execution_ownership.py), users change the card *)
(* at the task provider.  The worker runs inside the dispatcher's process  *)
(* (agent_runtime/execution.py).                                           *)
(*                                                                         *)
(* One task: the dispatcher takes tasks one at a time and keeps an entry   *)
(* for each.  What stands between two steps here is what the code does     *)
(* outside the lock of the workspace; a section under it is one step.      *)
(***************************************************************************)
EXTENDS Naturals

CONSTANTS
    MaxVersion    \* bound on the versions of the card

VARIABLES
    card,         \* status and version at the provider, and whether a session is bound
    entry,        \* dispatcher.json: result, version, and whether it names an execution
    runs,         \* runs[k]: status of an execution; k is its version, 0 if delegated
    claims,       \* whether V2 has claimed the task
    turn,         \* place of the dispatcher in run_once
    term,         \* whether it has been told to stop
    canceller,    \* place of request_cancel
    planner,      \* whether claim_plan has read the card
    main,         \* place of delegate_task
    noted         \* executions that were recorded as running

taskVars == <<card, entry, runs>>
dispatcherVars == <<taskVars, claims, turn, term, canceller, planner, main, noted>>

Versions == 1 .. MaxVersion
Off == [pc |-> "off", seen |-> 0, key |-> 0, ok |-> FALSE, result |-> "none"]
Idle == [Off EXCEPT !.pc = "idle"]
Away == [pc |-> "idle", seen |-> 0]

\* A card of a user, or none yet: delegate_task will create it.
DispatcherInit ==
    /\ card \in [status : {"none", "todo", "in_progress"}, version : {1}, bound : {FALSE}]
    /\ entry = [result |-> "none", version |-> 0, delegated |-> FALSE]
    /\ runs = [k \in 0 .. MaxVersion |-> "none"]
    /\ claims = FALSE /\ turn = Off /\ term = FALSE
    /\ canceller = Away /\ planner = FALSE /\ main = "idle"
    /\ noted = {}

Moved(status) ==
    /\ card.version < MaxVersion
    /\ card' = [card EXCEPT !.status = status, !.version = @ + 1]
-----------------------------------------------------------------------------
(* Users, and the sessions they attach.  They leave alone a card that       *)
(* delegate_task has not yet published.                                     *)

User ==
    /\ card.status # "none" /\ main = "idle"
    /\ \/ \E status \in {"in_progress", "blocked"} : Moved(status)
       \/ card' = [card EXCEPT !.bound = ~@]
    /\ UNCHANGED <<entry, runs, claims, turn, term, canceller, planner, main, noted>>
-----------------------------------------------------------------------------
(* request_cancel reads the card, then decides under the lock.              *)

CancelReads ==
    /\ canceller = Away /\ card.status = "in_progress" /\ ~card.bound
    /\ canceller' = [pc |-> "read", seen |-> card.version]
    /\ UNCHANGED <<taskVars, claims, turn, term, planner, main, noted>>

Cancellable == entry.result # "dispatching"

Cancel ==
    /\ canceller.pc = "read"
    /\ canceller' = Away
    /\ IF Cancellable
       THEN /\ entry' = [entry EXCEPT !.result = "cancel_requested", !.version = canceller.seen]
       ELSE UNCHANGED entry
    /\ UNCHANGED <<card, runs, claims, turn, term, planner, main, noted>>
-----------------------------------------------------------------------------
(* claim_plan of V2: what is claimed stays so.  The card is read without    *)
(* the lock, dispatcher.json and sessions.json under it.                    *)

ClaimReads ==
    /\ ~planner /\ ~claims /\ card.status # "none" /\ ~card.bound
    /\ planner' = TRUE
    /\ UNCHANGED <<taskVars, claims, turn, term, canceller, main, noted>>

\* Mutant of LegacyIdle: a task that is being dispatched counts as idle.
LegacyIdleUnlessCancelled == entry.result # "cancel_requested" /\ ~card.bound
\* _require_legacy_idle
LegacyIdle == entry.result \notin {"dispatching", "cancel_requested"} /\ ~card.bound

ClaimPlan ==
    /\ planner /\ planner' = FALSE
    /\ claims' = (claims \/ LegacyIdle)
    /\ UNCHANGED <<taskVars, turn, term, canceller, main, noted>>
-----------------------------------------------------------------------------
(* delegate_task: the card is created where nobody may dispatch it, and     *)
(* published when its execution is on disk.  Main may be killed, and        *)
(* delegate the same again.                                                 *)

Live == {"queued", "starting", "running"}
DispatcherRuns == turn.pc # "off"

Delegate ==
    /\ main = "idle" /\ DispatcherRuns
    /\ \/ /\ card.status = "none"
          /\ card' = [card EXCEPT !.status = "todo"] /\ main' = "created"
       \/ /\ entry.delegated /\ card.status = "todo" /\ runs[0] \in Live
          /\ Moved("in_progress") /\ main' = main
    /\ UNCHANGED <<entry, runs, claims, turn, term, canceller, planner, noted>>

DelegateSaves ==
    /\ main = "created"
    /\ runs' = [runs EXCEPT ![0] = "queued"] /\ main' = "saved"
    /\ UNCHANGED <<card, entry, claims, turn, term, canceller, planner, noted>>

DelegateRecords ==
    /\ main = "saved"
    /\ entry' = [result |-> "dispatching", version |-> card.version, delegated |-> TRUE]
    /\ main' = "recorded"
    /\ UNCHANGED <<card, runs, claims, turn, term, canceller, planner, noted>>

\* An error may hide that the card was published.
DelegatePublishes ==
    /\ main = "recorded"
    /\ Moved("in_progress") \/ UNCHANGED card
    /\ main' = "idle"
    /\ UNCHANGED <<entry, runs, claims, turn, term, canceller, planner, noted>>

\* Killed: a card that is not yet recorded is never found again.
DelegateDies ==
    /\ main # "idle" /\ main' = "idle"
    /\ UNCHANGED <<taskVars, claims, turn, term, canceller, planner, noted>>
-----------------------------------------------------------------------------
(* start_dispatcher, stop_dispatcher and the end of serve_dispatcher.       *)

Start ==
    /\ turn = Off
    /\ turn' = Idle /\ term' = FALSE
    /\ UNCHANGED <<taskVars, claims, canceller, planner, main, noted>>

\* Refused while the entry says that the task is being dispatched.
StopDispatcher ==
    /\ turn # Off /\ entry.result # "dispatching" /\ ~term
    /\ term' = TRUE
    /\ UNCHANGED <<taskVars, claims, turn, canceller, planner, main, noted>>

Exit ==
    /\ turn = Idle /\ term
    /\ turn' = Off
    /\ UNCHANGED <<taskVars, claims, term, canceller, planner, main, noted>>

Crash ==
    /\ turn # Off
    /\ turn' = Off
    /\ UNCHANGED <<taskVars, claims, term, canceller, planner, main, noted>>
-----------------------------------------------------------------------------
(* run_once: the candidate, its claim, the worker, and what is remembered.  *)

Goto(pc) == turn' = [turn EXCEPT !.pc = pc]
Blocking(result) == turn' = [Idle EXCEPT !.pc = "block", !.result = result, !.seen = turn.seen]

\* _task_state_allows_dispatch: a version whose end is recorded is not taken again.
Allows(version) ==
    ~(/\ entry.result \notin {"none", "dispatching", "cancel_requested"}
      /\ entry.version = version)

\* require_task_active may refuse, which blocks the card.
Candidate ==
    /\ turn = Idle /\ ~term
    /\ card.status = "in_progress" /\ ~card.bound /\ ~claims /\ Allows(card.version)
    /\ \E pc \in {"chosen", "block"} :
          turn' = [Idle EXCEPT !.pc = pc, !.seen = card.version,
                               !.result = IF pc = "block" THEN "blocked" ELSE "none",
                               !.key = IF entry.delegated THEN 0 ELSE card.version]
    /\ UNCHANGED <<taskVars, claims, term, canceller, planner, main, noted>>

\* Mutant of MayStart: the claim of V2 is checked for the candidate only.
MayStartUnchecked == TRUE
\* require_v1
MayStart == ~claims

Claim ==
    /\ turn.pc = "chosen"
    /\ \/ Blocking("blocked") /\ UNCHANGED entry
       \/ ~MayStart /\ turn' = Idle /\ UNCHANGED entry
       \/ /\ MayStart /\ entry.result = "cancel_requested"
          /\ Blocking("cancelled") /\ UNCHANGED entry
       \/ /\ MayStart /\ entry.result # "cancel_requested"
          /\ entry' = [entry EXCEPT !.result = "dispatching", !.version = turn.seen]
          /\ Goto("claimed")
    /\ UNCHANGED <<card, runs, claims, term, canceller, planner, main, noted>>

\* Mutant of Startable: an execution that runs may be started.
StartableWhileRunning(status) == status \in Live
Startable(status) == status \in {"queued", "starting"}

\* The directory of the task may be missing.  A new execution has a creation_key,
\* which finds that of an earlier try; one that has run is not started again.
Prepare ==
    LET status == IF runs[turn.key] = "none" THEN "queued" ELSE runs[turn.key]
    IN  /\ turn.pc = "claimed"
        /\ \/ Blocking("blocked") /\ UNCHANGED runs
           \/ ~MayStart /\ turn' = Idle /\ UNCHANGED runs
           \/ /\ MayStart /\ Startable(status)
              /\ runs' = [runs EXCEPT ![turn.key] = "starting"] /\ Goto("starting")
           \/ /\ MayStart /\ ~Startable(status)
              /\ turn' = [turn EXCEPT !.pc = "ended", !.ok = FALSE] /\ UNCHANGED runs
        /\ UNCHANGED <<card, entry, claims, term, canceller, planner, main, noted>>

\* runtime.start, or resume of a session that dispatcher.json names.
Launch ==
    /\ turn.pc = "starting"
    /\ \/ Goto("sent") /\ UNCHANGED runs
       \/ /\ runs' = [runs EXCEPT ![turn.key] = "failed"]
          /\ turn' = [turn EXCEPT !.pc = "ended", !.ok = FALSE]
    /\ UNCHANGED <<card, entry, claims, term, canceller, planner, main, noted>>

Note ==
    /\ turn.pc = "sent"
    /\ runs' = [runs EXCEPT ![turn.key] = "running"]
    /\ noted' = noted \cup {turn.key}
    /\ Goto("run")
    /\ UNCHANGED <<card, entry, claims, term, canceller, planner, main>>

\* The worker hands its task in.
HandsIn ==
    /\ turn.pc \in {"sent", "run"} /\ Moved("in_review")
    /\ UNCHANGED <<entry, runs, claims, turn, term, canceller, planner, main, noted>>

\* The final status may fail to be saved, which counts as a failure.
End ==
    /\ turn.pc = "run"
    /\ \E ok \in BOOLEAN :
          /\ turn' = [turn EXCEPT !.pc = "ended", !.ok = ok]
          /\ \/ runs' = [runs EXCEPT ![turn.key] = IF ok THEN "completed" ELSE "failed"]
             \/ ~ok /\ UNCHANGED runs
    /\ UNCHANGED <<card, entry, claims, term, canceller, planner, main, noted>>

Remembering(result, version) ==
    turn' = [Idle EXCEPT !.pc = "remember", !.result = result, !.seen = version]

Report ==
    /\ turn.pc = "ended"
    /\ \/ Remembering("provider-unavailable", turn.seen)
       \/ /\ turn.ok /\ card.status # "in_progress"
          /\ Remembering("completed", card.version)
       \/ /\ ~turn.ok \/ card.status = "in_progress"
          /\ Blocking("blocked")
    /\ UNCHANGED <<taskVars, claims, term, canceller, planner, main, noted>>

\* _block_task: the card as written, as read after an error, or as it was before.
Block ==
    /\ turn.pc = "block"
    /\ \/ Moved("blocked") /\ \E seen \in {card.version + 1, turn.seen} : Remembering(turn.result, seen)
       \/ card' = card /\ \E seen \in {card.version, turn.seen} : Remembering(turn.result, seen)
    /\ UNCHANGED <<entry, runs, claims, term, canceller, planner, main, noted>>

Remember ==
    /\ turn.pc = "remember"
    /\ entry' = [entry EXCEPT !.result = turn.result, !.version = turn.seen]
    /\ turn' = Idle
    /\ UNCHANGED <<card, runs, claims, term, canceller, planner, main, noted>>

DispatcherNext ==
    \/ User \/ CancelReads \/ Cancel \/ ClaimReads \/ ClaimPlan
    \/ Delegate \/ DelegateSaves \/ DelegateRecords \/ DelegatePublishes \/ DelegateDies
    \/ Start \/ StopDispatcher \/ Exit \/ Crash
    \/ Candidate \/ Claim \/ Prepare \/ Launch \/ Note \/ HandsIn \/ End \/ Report \/ Block \/ Remember

DispatcherSpec == DispatcherInit /\ [][DispatcherNext]_dispatcherVars
-----------------------------------------------------------------------------
Places == {"off", "idle", "chosen", "claimed", "starting", "sent", "run", "ended", "block",
           "remember"}
Results == {"none", "dispatching", "cancel_requested", "cancelled", "blocked", "completed",
            "provider-unavailable"}

\* Shapes; a worker has an execution that is neither new nor of no version.
DispatcherTypeOK ==
    /\ card.status \in {"none", "todo", "in_progress", "in_review", "blocked"}
    /\ card.version \in Versions /\ card.bound \in BOOLEAN
    /\ entry \in [result : Results, version : 0 .. MaxVersion, delegated : BOOLEAN]
    /\ runs \in [0 .. MaxVersion -> {"none", "queued", "starting", "running", "completed", "failed"}]
    /\ turn.pc \in Places /\ turn.result \in Results
    /\ turn.pc \in {"starting", "sent"} => runs[turn.key] = "starting"
    /\ turn.pc = "run" => runs[turn.key] = "running"
    /\ main \in {"idle", "created", "saved", "recorded"}
    /\ noted \subseteq 0 .. MaxVersion

Working == turn.pc \in {"sent", "run"}

\* execution_ownership.py:124: whoever reads what when, a worker of V1 never works
\* at a task that V2 has claimed.
OneEngine == Working => ~claims

\* execution.py:48: an execution that is known to have run is not launched again,
\* after a crash, a second activation or an unknown outcome.
SendsOnce == turn.pc = "starting" /\ turn'.pc = "sent" => turn.key \notin noted
=============================================================================
