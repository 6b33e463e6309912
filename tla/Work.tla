-------------------------------- MODULE Work --------------------------------
(***************************************************************************)
(* How one task is worked at: beside the views of its worker               *)
(* (WorkSessions) the projection of the plan on the task provider and the  *)
(* pump behind it; the bindings of sessions; the state of the main agent;  *)
(* the watchdog; and the cards of a requirement.  Each view is checked by  *)
(* itself: a behaviour is one of one view.                                 *)
(***************************************************************************)
EXTENDS WorkSessions

CONSTANTS
    Process, Snapshot, Desired, Nobody,              \* see Projection
    MaxSnapshot,                                     \* see ProjectionPump
    Session, Task, Requirement, Home, MaxOps, Workspace,  \* see SessionBindings
    Facts, MaxRevision, Kept,                        \* see RequirementOwner
    Runs, MaxTime, StuckAfter, Stagnation,           \* see Watchdog
    MaxCards                                         \* see BoardCards

\* What stands for nobody is nobody else, and every task is of a requirement.
ASSUME PlanApart == Workspace \notin Requirement /\ Nobody \notin Session \cup Process
ASSUME Homes == Home \in [Task -> Requirement]

ASSUME PlanBounds ==
    /\ MaxOps \in Nat /\ MaxSnapshot \in Nat /\ MaxCards \in Nat
    /\ Facts \in Nat \ {0} /\ MaxRevision \in Nat /\ Kept \in Nat
    /\ Runs \in Nat /\ MaxTime \in Nat /\ StuckAfter \in Nat /\ Stagnation \in Nat

VARIABLES
    part,    \* the view
    card, touched, inflight, ledger, keeper, sync,
    latest, submitted, synced, accepting, thread, tried, late, answer,
    file, lock, op, started, held,
    facts, owner, agent,
    clock, executions, scan, signals,
    space, work, meta, ensures

projectionVars == <<card, touched, inflight, ledger, keeper, sync>>
pumpVars == <<latest, submitted, synced, accepting, thread, tried, late, answer>>
bindingsVars == <<file, lock, op, started, held>>
ownerVars == <<facts, owner, agent>>
watchdogVars == <<clock, executions, scan, signals>>
cardsVars == <<space, work, meta, ensures>>
vars == <<part, workbenchVars, trackedVars, transportVars, projectionVars, pumpVars,
          bindingsVars, dispatcherVars, workspaceVars, sessionVars, ownerVars, watchdogVars,
          cardsVars>>

L == INSTANCE Projection WITH holder <- keeper
U == INSTANCE ProjectionPump
B == INSTANCE SessionBindings
O == INSTANCE RequirementOwner WITH Agent <- Thread
H == INSTANCE Watchdog WITH runs <- executions, file <- signals
K == INSTANCE BoardCards WITH sync <- ensures

\* Every snapshot says what the card should show.
ASSUME Plan ==
    /\ Snapshot \subseteq Nat /\ \A n \in Snapshot : Desired[n] \in L!Statuses
    /\ Nobody \notin L!Cards \cup L!Intents \cup L!Acks

\* The variables of the other views are not used.
Init ==
    /\ part \in {"workbench", "tracked", "transport", "projection", "pump", "bindings",
                "dispatcher", "workspace", "claude", "cursor", "owner", "watchdog",
                "space card", "work card"}
    /\ IF part = "workbench" THEN W!WorkbenchInit
       ELSE /\ exec = None /\ receipt = None /\ kept = None /\ strays = None
            /\ holder = None /\ task = None /\ begun = None /\ taken = None /\ own = None
    /\ IF part = "tracked" THEN P!TrackedInit
       ELSE /\ record = None /\ source = None /\ copy = None /\ acked = None
            /\ worker = None /\ call = None
    /\ IF part = "transport" THEN T!TransportInit
       ELSE /\ process = None /\ closed = None /\ failure = None /\ alarm = None
            /\ queue = None /\ pen = None /\ writing = None /\ reader = None
            /\ writer = None /\ inbox = None /\ done = None /\ wire = None /\ slot = None
            /\ caller = None /\ turns = None /\ completed = None /\ closer = None
    /\ IF part = "projection" THEN L!ProjectionInit
       ELSE /\ card = None /\ touched = None /\ inflight = None /\ ledger = None
            /\ keeper = None /\ sync = None
    /\ IF part = "pump" THEN U!PumpInit
       ELSE /\ latest = None /\ submitted = None /\ synced = None /\ accepting = None
            /\ thread = None /\ tried = None /\ late = None /\ answer = None
    /\ IF part = "bindings" THEN B!BindingsInit
       ELSE /\ file = None /\ lock = None /\ op = None /\ started = None /\ held = None
    /\ IF part = "dispatcher" THEN D!DispatcherInit
       ELSE /\ dispatched = None /\ entry = None /\ runs = None /\ claims = None
            /\ turn = None /\ term = None /\ canceller = None /\ planner = None
            /\ main = None /\ noted = None
    /\ IF part = "workspace" THEN G!WorkspaceInit
       ELSE /\ lease = None /\ dir = None /\ tree = None /\ commits = None /\ maker = None
            /\ returned = None
    /\ CASE part = "claude" -> C!ClaudeInit /\ messages = None /\ prompter = None
         [] part = "cursor" -> A!CursorInit /\ facade = None
         [] OTHER -> /\ adapter = None /\ results = None /\ cli = None /\ user = None
                     /\ facade = None /\ messages = None /\ prompter = None
    /\ IF part = "owner" THEN O!OwnerInit ELSE facts = None /\ owner = None /\ agent = None
    /\ IF part = "watchdog" THEN H!WatchdogInit
       ELSE clock = None /\ executions = None /\ scan = None /\ signals = None
    /\ IF part \in {"space card", "work card"} THEN K!CardsInit
       ELSE space = None /\ work = None /\ meta = None /\ ensures = None

\* The views below, and what they leave alone.
worksVars == <<workbenchVars, trackedVars, transportVars, projectionVars, pumpVars,
               bindingsVars, dispatcherVars, workspaceVars>>
restVars == <<sessionVars, ownerVars, watchdogVars, cardsVars>>

InWorkbench ==
    /\ part = "workbench" /\ W!WorkbenchNext
    /\ UNCHANGED <<trackedVars, transportVars, projectionVars, pumpVars, bindingsVars,
                   dispatcherVars, workspaceVars, restVars, part>>
InTracked ==
    /\ part = "tracked" /\ P!TrackedNext
    /\ UNCHANGED <<workbenchVars, transportVars, projectionVars, pumpVars,
                   bindingsVars, dispatcherVars, workspaceVars, restVars, part>>
InTransport ==
    /\ part = "transport" /\ T!TransportNext
    /\ UNCHANGED <<workbenchVars, trackedVars, projectionVars, pumpVars, bindingsVars,
                   dispatcherVars, workspaceVars, restVars, part>>
InProjection ==
    /\ part = "projection" /\ L!ProjectionNext
    /\ UNCHANGED <<workbenchVars, trackedVars, transportVars, pumpVars, bindingsVars,
                   dispatcherVars, workspaceVars, restVars, part>>
InPump ==
    /\ part = "pump" /\ U!PumpNext
    /\ UNCHANGED <<workbenchVars, trackedVars, transportVars, projectionVars,
                   bindingsVars, dispatcherVars, workspaceVars, restVars, part>>
InBindings ==
    /\ part = "bindings" /\ B!BindingsNext
    /\ UNCHANGED <<workbenchVars, trackedVars, transportVars, projectionVars, pumpVars,
                   dispatcherVars, workspaceVars, restVars, part>>
InDispatcher ==
    /\ part = "dispatcher" /\ D!DispatcherNext
    /\ UNCHANGED <<workbenchVars, trackedVars, transportVars, projectionVars, pumpVars,
                   bindingsVars, workspaceVars, restVars, part>>
InWorkspace ==
    /\ part = "workspace" /\ G!WorkspaceNext
    /\ UNCHANGED <<workbenchVars, trackedVars, transportVars, projectionVars, pumpVars,
                   bindingsVars, dispatcherVars, restVars, part>>

InClaude ==
    /\ part = "claude" /\ C!ClaudeNext
    /\ UNCHANGED <<worksVars, ownerVars, watchdogVars, cardsVars, messages, prompter,
                   part>>
InCursor ==
    /\ part = "cursor" /\ A!CursorNext
    /\ UNCHANGED <<worksVars, ownerVars, watchdogVars, cardsVars, facade, part>>
InOwner ==
    /\ part = "owner" /\ O!OwnerNext
    /\ UNCHANGED <<worksVars, sessionVars, watchdogVars, cardsVars, part>>
InWatchdog ==
    /\ part = "watchdog" /\ H!WatchdogNext
    /\ UNCHANGED <<worksVars, sessionVars, ownerVars, cardsVars, part>>
InCards ==
    /\ \/ part = "space card" /\ K!SpaceNext
       \/ part = "work card" /\ K!WorkNext
    /\ UNCHANGED <<worksVars, sessionVars, ownerVars, watchdogVars, part>>

Next ==
    \/ InWorkbench \/ InTracked \/ InTransport \/ InProjection \/ InPump
    \/ InBindings \/ InDispatcher \/ InWorkspace
    \/ InClaude \/ InCursor \/ InOwner \/ InWatchdog \/ InCards

Spec == Init /\ [][Next]_vars
-----------------------------------------------------------------------------
\* The shapes of the views, and who may hold their locks (_reply_lock of
\* workbench.py, _write_lock of stdio.py, the lease of the projection's ledger).
TypeOK ==
    CASE part = "workbench" -> W!WorkbenchTypeOK
      [] part = "tracked" -> P!TrackedTypeOK
      [] part = "transport" -> T!TransportTypeOK
      [] part = "projection" -> L!ProjectionTypeOK
      [] part = "pump" -> U!PumpTypeOK
      [] part = "bindings" -> B!BindingsTypeOK
      [] part = "dispatcher" -> D!DispatcherTypeOK
      [] part = "workspace" -> G!WorkspaceTypeOK
      [] part = "claude" -> C!ClaudeTypeOK
      [] part = "cursor" -> A!CursorTypeOK
      [] part = "owner" -> O!OwnerTypeOK
      [] part = "watchdog" -> H!WatchdogTypeOK
      [] OTHER -> K!CardsTypeOK

\* workbench.py: one session for each creation_key, one delivery for each
\* command_id, and what a receipt says of a reply is what the provider knows.
\* claude.py, cursor.py: what is taken for the answer to a prompt is the answer to it,
\* and all of it.  What an interrupt of cursor.py stops is the turn it names; that of
\* claude.py may also stop a later one, if the turn it was sent for has its result.
RepliesTrue ==
    /\ part = "workbench" => W!SentOnce /\ W!ReceiptTrue
    /\ part = "claude" => C!ResultsOwn /\ C!StopsOwnOrLater
    /\ part = "cursor" => A!MessagesOwn /\ A!CancelOwn

\* workbench.py: close finds every execution that this process has set running and has
\* registered by then.
\* supervisor_watchdog.py: an execution that is called stuck had no event of progress in its
\* log for stuck_seconds.
NoFalseRunning ==
    /\ part = "workbench" => W!NoFalseRunning
    /\ part = "watchdog" => H!NoFalseAlarm

\* multi_agent.py over events.py: the log of the execution is a beginning of the
\* log of the attempt, without repetition; its cursor is not ahead of it; an event
\* whose append has returned keeps its place.
\* main_agent.py: a state that is not stale shows the facts as they are.
Mirrored ==
    /\ part = "tracked" => P!Mirrored
    /\ part = "owner" => O!StaleSeen

\* stdio.py: nobody sleeps through the failure of the connection.
ToldOfFailure == part = "transport" => T!ToldOfFailure

\* codex.py: a completion that the reader has noted is not lost, and one that it took off
\* the wire without noting it has ended the connection; claude.py: a result is given.
CompletionCounts ==
    [][ /\ part = "transport" => T!CompletionKept
        /\ part = "claude" => C!ResultGiven ]_vars

\* projection.py: an acknowledged write is ours and took place, whatever answers are
\* lost, and a pump that has ended has handed in the last snapshot.
\* task_attach.py: a requirement has one space card and one work card.
LedgerTrue ==
    /\ part \in {"space card", "work card"} => K!OneCard
    /\ part = "projection" => L!AckTrue
    /\ part = "pump" => U!LastTried

\* session_runtime.py and execution_ownership.py: a session works for one requirement
\* at a time; a task is worked at by V1 or claimed by V2, never both.
\* claude.py: a session is not opened beside a probe that may still run.
OneOwner ==
    /\ part = "bindings" => B!OneRequirement
    /\ part = "dispatcher" => D!OneEngine
    /\ part = "claude" => C!OneProcess

\* projection.py: a card is not moved over what a user has made of it since the
\* projection last saw it; and the ledger never returns to an older plan.
\* task_attach.py: a space card known to be closed is not opened.
CardsRespected ==
    [][ /\ part = "projection" => L!KeepsCard /\ L!KeepsSource
        /\ part = "space card" => K!ClosedStays ]_vars

\* execution.py and git_workspace.py: a prompt known to be running is not sent again,
\* a candidate is what the worker left, and nothing foreign is touched.
\* main_agent.py: a call changes the state its caller has read.
CallsInPlace ==
    [][ /\ part = "dispatcher" => D!SendsOnce
        /\ part = "workspace" => G!ReturnsTrue /\ G!LeavesOthers
        /\ part = "owner" => O!DecidedOnSeen ]_vars

\* What no step of any part does: lose or falsify the noted completion of a turn, act over
\* a user, send twice, touch what is foreign, or change a state its caller has not read.
WorkSafe == CompletionCounts /\ CardsRespected /\ CallsInPlace
=============================================================================
