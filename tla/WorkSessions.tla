---------------------------- MODULE WorkSessions ----------------------------
(***************************************************************************)
(* The worker of a task in the views that share no state but their files:  *)
(* the workbench that starts a provider session and replies to it, the     *)
(* tracked worker port that mirrors its events, the connection under it,   *)
(* the dispatcher of delegated tasks, the worktree of the worker, a        *)
(* session of Claude and one of Cursor.  Work adds the other views, and    *)
(* the behaviours.                                                         *)
(***************************************************************************)
EXTENDS Naturals, Sequences

CONSTANTS
    Thread,                                     \* request threads
    Execution, Reply, Target, Free,             \* see Workbench
    MaxEvents, Limit,                           \* see TrackedWorker
    Request, Capacity, MaxWire, Stop, Decline,  \* see Transport
    MaxVersion,                                 \* see Dispatcher
    Base, Contents, MaxCommits, MaxRoots,       \* see Workspaces
    MaxTurns, Lines,                            \* see ClaudeSession and CursorSession
    None

\* What stands for nothing is nothing else, and every reply is to an execution.
ASSUME Apart == Free \notin Request \cup Thread /\ None \notin 0 .. MaxCommits
ASSUME Belongs == Target \in [Reply -> Execution]

ASSUME Bounds ==
    /\ MaxEvents \in Nat /\ Limit \in Nat /\ Capacity \in Nat /\ Lines \in Nat
    /\ MaxVersion \in Nat \ {0} /\ MaxTurns \in Nat \ {0}
    /\ MaxCommits \in Nat /\ MaxRoots \in Nat

VARIABLES
    exec, receipt, kept, strays, holder, task, begun, taken, own,
    record, source, copy, acked, worker, call,
    process, closed, failure, alarm, queue, pen, writing, reader, writer, inbox, done,
    wire, slot, caller, turns, completed, closer,
    dispatched, entry, runs, claims, turn, term, canceller, planner, main, noted,
    lease, dir, tree, commits, maker, returned,
    adapter, results, cli, user, facade, messages, prompter

workbenchVars == <<exec, receipt, kept, strays, holder, task, begun, taken, own>>
trackedVars == <<record, source, copy, acked, worker, call>>
transportVars == <<process, closed, failure, alarm, queue, pen, writing, reader,
                   writer, inbox, done, wire, slot, caller, turns, completed, closer>>
dispatcherVars == <<dispatched, entry, runs, claims, turn, term, canceller, planner,
                    main, noted>>
workspaceVars == <<lease, dir, tree, commits, maker, returned>>
\* claude.py and cursor.py
sessionVars == <<adapter, results, cli, user, facade, messages, prompter>>

W == INSTANCE Workbench
P == INSTANCE TrackedWorker
T == INSTANCE Transport
D == INSTANCE Dispatcher WITH card <- dispatched
G == INSTANCE Workspaces WITH Work <- Contents, record <- lease, writer <- maker
C == INSTANCE ClaudeSession WITH Caller <- Thread, Capacity <- Lines, MaxWire <- Lines
A == INSTANCE CursorSession WITH Caller <- Thread, Capacity <- Lines, MaxWire <- Lines
=============================================================================
