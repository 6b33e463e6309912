---------------------------- MODULE WorkerLedger ----------------------------
(***************************************************************************)
(* What the worker execution port promises to the supervisors that use it  *)
(* (WorkerExecutionPort of orchestration/ports.py), with no thread, no     *)
(* transport, no lock and no call that takes more than one step: a ledger  *)
(* of attempts, each with one process at most, and what the controllers    *)
(* are told of them.                                                       *)
(*                                                                         *)
(* WorkerPort implements this specification; the port as Supervisor relies *)
(* on it takes no other steps either.                                      *)
(***************************************************************************)
EXTENDS Naturals

CONSTANTS Attempt, Controller, Root, None

VARIABLES
    epoch,     \* the latest epoch
    highest,   \* the latest epoch that the ledger knows of
    task,      \* task[a]: the worktree of attempt a, and whether it may write there
    fence,     \* fence[a]: the epoch that dispatched a
    result,    \* result[a]: what is recorded of a
    home,      \* home[a]: the controller that has a handle of a
    proc,      \* proc[a]: the process of a, which is created suspended
    revoked,   \* revoked[a]: home[a] has begun to cancel a
    answer     \* answer[c]: what c was told by its last call, until the next one

workers == <<task, fence, result, home, proc, revoked>>
vars == <<epoch, highest, workers, answer>>

Final == {"candidate", "blocked", "failed", "cancelled"}

Tasks == [root : Root, write : BOOLEAN]

NoAnswer == [attempt |-> None, state |-> "none"]

Init ==
    /\ epoch \in Nat
    /\ highest = 0
    /\ task \in [Attempt -> Tasks]
    /\ fence = [a \in Attempt |-> 0]
    /\ result = [a \in Attempt |-> "none"]
    /\ home = [a \in Attempt |-> None]
    /\ proc = [a \in Attempt |-> "none"]
    /\ revoked = [a \in Attempt |-> FALSE]
    /\ answer = [c \in Controller |-> NoAnswer]

Says(c, a, state) == answer' = [answer EXCEPT ![c] = [attempt |-> a, state |-> state]]
Forgets(c) == answer' = [answer EXCEPT ![c] = NoAnswer]

NewEpoch ==
    /\ epoch' = epoch + 1
    /\ UNCHANGED <<highest, workers, answer>>

\* A call takes the ledger to the epoch of its caller, never back.
Fenced(c) ==
    /\ highest' \in highest .. epoch
    /\ UNCHANGED answer \/ Forgets(c)
    /\ UNCHANGED <<epoch, workers>>

Forget(c) == Forgets(c) /\ UNCHANGED <<epoch, highest, workers>>

\* A cancellation has begun that is not confirmed.
Cancelling(a) == revoked[a] /\ result[a] # "cancelled"

\* Attempt b keeps others out of its worktree: it has not ended for certain, and
\* they do not both only read in the same controller.
Keeps(b, c, write) ==
    LET foreign == home[b] # c
        leaving == ~foreign /\ Cancelling(b)
    IN  /\ result[b] # "none"
        /\ result[b] \notin Final \/ leaving
        /\ write \/ task[b].write \/ result[b] = "unknown" \/ leaving \/ foreign

\* What an attempt is for is settled before it is registered.
Plan(a) ==
    /\ result[a] = "none"
    /\ \E new \in Tasks : task' = [task EXCEPT ![a] = new]
    /\ UNCHANGED <<epoch, highest, fence, result, home, proc, revoked, answer>>

\* dispatch: an attempt is registered once, under an epoch not older than any
\* that the ledger knows of, and in a worktree that nobody keeps.
Register(c, a) ==
    /\ result[a] = "none"
    /\ result' = [result EXCEPT ![a] = "running"]
    /\ home' = [home EXCEPT ![a] = c]
    /\ \A b \in Attempt \ {a} : task[b].root = task[a].root => ~Keeps(b, c, task[a].write)
    /\ highest' \in highest .. epoch
    /\ fence' = [fence EXCEPT ![a] = highest']
    /\ Forgets(c)
    /\ UNCHANGED <<epoch, task, proc, revoked>>

\* Its process is created, and it is started, once at most: while its epoch is the
\* latest one for everybody, no cancellation has begun and no result is recorded.
Create(a) ==
    /\ proc[a] = "none" /\ proc' = [proc EXCEPT ![a] = "suspended"]
    /\ home[a] # None /\ result[a] = "running" /\ ~revoked[a]
    /\ UNCHANGED <<epoch, highest, task, fence, result, home, revoked, answer>>

Launch(a) ==
    /\ proc[a] \in {"none", "suspended"} /\ proc' = [proc EXCEPT ![a] = "live"]
    /\ home[a] # None /\ result[a] = "running" /\ ~revoked[a]
    /\ fence[a] = epoch /\ fence[a] = highest
    /\ UNCHANGED <<epoch, highest, task, fence, result, home, revoked, answer>>

\* The process ends, or it is settled that there will be none.
Gone(a) ==
    /\ result[a] # "none"
    /\ proc' = [proc EXCEPT ![a] = "gone"]
    /\ UNCHANGED <<epoch, highest, task, fence, result, home, revoked, answer>>

\* cancel by the controller that has the attempt.
Cancel(c, a) ==
    /\ home[a] = c
    /\ revoked' = [revoked EXCEPT ![a] = TRUE]
    /\ Forgets(c)
    /\ UNCHANGED <<epoch, highest, task, fence, result, home, proc>>

\* What may be recorded as the result: what the worker ended with, once; after a
\* cancellation only that it is confirmed, or that nothing is known.
Recordable(a) ==
    IF ~revoked[a]
    THEN IF result[a] = "running" THEN {"candidate", "blocked", "failed", "unknown"} ELSE {}
    ELSE IF result[a] = "cancelled" THEN {"cancelled"} ELSE {"cancelled", "unknown"}

\* A final result is recorded only when no process is left.  A caller that waits
\* for the result may learn it at once.
Record(a) ==
    /\ home[a] # None
    /\ \E state \in Recordable(a) :
          /\ result' = [result EXCEPT ![a] = state]
          /\ proc' \in {proc, [proc EXCEPT ![a] = "gone"]}
          /\ state \in Final => proc'[a] \notin {"suspended", "live"}
          /\ UNCHANGED answer \/ Says(home[a], a, state)
    /\ UNCHANGED <<epoch, highest, task, fence, home, revoked>>

\* What the ledger has of a can be told to c: by the controller of a unless a
\* cancellation is under way, by another one if it is final.
Known(c, a) == IF home[a] = c THEN ~Cancelling(a) ELSE result[a] \in Final

\* Any call may be answered with unknown.
Tell(c, a) ==
    /\ Says(c, a, "unknown") \/ (Known(c, a) /\ Says(c, a, result[a]))
    /\ UNCHANGED <<epoch, highest, workers>>

\* The process of a controller ends, and its handles with it; any process that
\* it or an earlier controller has left may survive.
Crash(c) ==
    /\ Forgets(c)
    /\ home' = [a \in Attempt |-> IF home[a] = c THEN None ELSE home[a]]
    /\ revoked' = [a \in Attempt |-> revoked[a] /\ home[a] # c]
    /\ \E dead \in SUBSET {a \in Attempt : result[a] # "none"} :
          proc' = [a \in Attempt |-> IF a \in dead THEN "gone" ELSE proc[a]]
    /\ UNCHANGED <<epoch, highest, task, fence, result>>

Next ==
    \/ NewEpoch
    \/ \E c \in Controller :
          \/ Fenced(c) \/ Forget(c) \/ Crash(c)
          \/ \E a \in Attempt : Register(c, a) \/ Cancel(c, a) \/ Tell(c, a)
    \/ \E a \in Attempt : Plan(a) \/ Create(a) \/ Launch(a) \/ Gone(a) \/ Record(a)

Spec == Init /\ [][Next]_vars
-----------------------------------------------------------------------------
\* The attempt has a process, or may still get one.
MayRun(a) ==
    \/ proc[a] \in {"suspended", "live"}
    \/ proc[a] = "none" /\ result[a] = "running"

Told(a) == {answer[c].state : c \in {d \in Controller : answer[d].attempt = a}}

\* An end that is recorded, or that any controller was told of, is one: there is
\* no process and there will be none, whatever is recorded later.
EndsForGood ==
    \A a \in Attempt : (Told(a) \cup {result[a]}) \cap Final # {} => ~MayRun(a)

\* Whoever may write in a worktree is the only one who runs there, or may still
\* start there, whatever crashes, epochs and controllers there have been.
WritersAlone ==
    \A a, b \in Attempt :
        a # b /\ MayRun(a) /\ MayRun(b) /\ task[a].root = task[b].root
        => ~task[a].write /\ ~task[b].write
=============================================================================
