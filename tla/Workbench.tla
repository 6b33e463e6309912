----------------------------- MODULE Workbench ------------------------------
(***************************************************************************)
(* WorkbenchExecutionService (workbench.py) over the records of            *)
(* ExecutionStore (executions/store.py): request threads of the hub that   *)
(* start an execution or send a reply to its session, and close.           *)
(*                                                                         *)
(* Records and receipts are files, each written under the workspace lock   *)
(* and kept over a crash; runtimes are objects of the process, each with a *)
(* provider process of its own.  reply and close hold _reply_lock, start   *)
(* and reply_capability hold no lock between their steps.  An execution    *)
(* stands for its creation_key, a reply for its command_id: a client that  *)
(* repeats a request repeats them.                                         *)
(***************************************************************************)
EXTENDS Naturals

CONSTANTS
    Thread,      \* request threads
    Execution,   \* executions, one for each creation_key
    Reply,       \* replies, one for each command_id
    Target,      \* Target[c]: the execution of reply c
    Free         \* no holder of _reply_lock

VARIABLES
    exec,      \* exec[x]: status of x, and whether a SessionRef is recorded
    receipt,   \* receipt[c]: the file of reply c
    kept,      \* the executions that have a runtime in _runtimes
    strays,    \* whether _pending_cleanup has runtimes
    holder,    \* the thread that holds _reply_lock
    task,      \* task[t]: what thread t is doing
    begun,     \* begun[x]: how often the provider has started a session for x
    taken,     \* taken[c]: how often the provider has taken reply c
    own        \* the executions that this process has set to running

files == <<exec, receipt>>
objects == <<kept, strays, holder>>
provider == <<begun, taken>>
wbVars == <<files, objects, provider, task, own>>

Statuses == {"absent", "queued", "starting", "running", "waiting", "failed"}
Resting == [pc |-> "idle", x |-> Free, c |-> Free, mine |-> FALSE, todo |-> {}]

WorkbenchInit ==
    /\ exec = [x \in Execution |-> [status |-> "absent", session |-> FALSE]]
    /\ receipt = [c \in Reply |-> "none"]
    /\ kept = {} /\ strays = FALSE /\ holder = Free
    /\ task = [t \in Thread |-> Resting]
    /\ begun = [x \in Execution |-> 0]
    /\ taken = [c \in Reply |-> 0]
    /\ own = {}

At(t, pc) == task[t].pc = pc
Goto(t, pc) == task' = [task EXCEPT ![t].pc = pc]
Drop(t, pc) == task' = [task EXCEPT ![t].pc = pc, ![t].mine = FALSE]

\* ExecutionStore.update; own remembers who wrote "running".
Status(x, status) ==
    /\ exec' = [exec EXCEPT ![x].status = status]
    /\ own' = IF status = "running" THEN own \cup {x} ELSE own \ {x}

\* The counts that matter end at two.
Once(n) == IF n < 2 THEN n + 1 ELSE n
-----------------------------------------------------------------------------
(* start                                                                    *)

\* create writes the record, or finds the one that has the creation_key.
Create(t, x) ==
    /\ task[t] = Resting
    /\ exec[x].status \in {"absent", "queued"}
    /\ exec' = [exec EXCEPT ![x].status = "queued"]
    /\ task' = [task EXCEPT ![t] = [Resting EXCEPT !.pc = "claim", !.x = x]]
    /\ UNCHANGED <<receipt, objects, provider, own>>

\* claim_start lets one caller pass.
Claimable(x) == exec[x].status = "queued"

Claim(t) ==
    LET x == task[t].x
    IN  /\ At(t, "claim")
        /\ IF Claimable(x)
           THEN Status(x, "starting") /\ Goto(t, "launch")
           ELSE task' = [task EXCEPT ![t] = Resting] /\ UNCHANGED <<exec, own>>
        /\ UNCHANGED <<receipt, objects, provider>>

\* The factory may raise; else the thread has a runtime, which may turn out not
\* to fit (_validate_route, describe).
Launch(t) ==
    /\ At(t, "launch")
    /\ \/ Goto(t, "fail")
       \/ \E pc \in {"start", "undo", "abandon"} :
             task' = [task EXCEPT ![t].pc = pc, ![t].mine = TRUE]
    /\ UNCHANGED <<files, objects, provider, own>>

\* Runtime.start returns a session, refuses, or raises before or after the
\* provider has started one.
Start(t) ==
    /\ At(t, "start")
    /\ \/ begun' = [begun EXCEPT ![task[t].x] = Once(@)]
          /\ \E pc \in {"record", "abandon", "undo"} : Goto(t, pc)
       \/ (\E pc \in {"abandon", "undo"} : Goto(t, pc)) /\ UNCHANGED begun
    /\ UNCHANGED <<files, objects, taken, own>>

\* An exception before the result: the runtime is closed, or given up.
Undo(t) ==
    /\ At(t, "undo")
    /\ Drop(t, "fail")
    /\ UNCHANGED <<files, kept, strays, holder, provider, own>>

\* _close_and_fail keeps a runtime that it cannot close.
Abandon(t) ==
    /\ At(t, "abandon")
    /\ kept' \in {kept, kept \cup {task[t].x}}
    /\ Drop(t, "fail")
    /\ UNCHANGED <<files, strays, holder, provider, own>>

\* _fail, whose write may fail too.
Fail(t) ==
    /\ At(t, "fail")
    /\ Status(task[t].x, "failed") \/ UNCHANGED <<exec, own>>
    /\ task' = [task EXCEPT ![t] = Resting]
    /\ UNCHANGED <<receipt, objects, provider>>

\* The session is recorded with status running, or the runtime is closed again.
Record(t) ==
    /\ At(t, "record")
    /\ \/ /\ exec' = [exec EXCEPT ![task[t].x] = [status |-> "running", session |-> TRUE]]
          /\ own' = own \cup {task[t].x}
          /\ Goto(t, "register")
       \/ Goto(t, "abandon") /\ UNCHANGED <<exec, own>>
    /\ UNCHANGED <<receipt, objects, provider>>

\* _runtimes[x] = runtime.
Keep(x) == kept' = kept \cup {x}

Register(t) ==
    /\ At(t, "register")
    /\ Keep(task[t].x)
    /\ task' = [task EXCEPT ![t] = Resting]
    /\ UNCHANGED <<files, strays, holder, provider, own>>
-----------------------------------------------------------------------------
(* reply                                                                    *)

\* Mutant of Unclaimed: a claim whose delivery has no result counts for nothing.
UnclaimedOrOpen(c) == receipt[c] \in {"none", "delivering"}

\* _claim_reply answers from the file, if there is one.
Unclaimed(c) == receipt[c] = "none"

\* The reply is claimed on disk before the provider hears of it.
ClaimReply(t, c) ==
    LET x == Target[c]
    IN  /\ task[t] = Resting /\ holder = Free
        /\ exec[x].session /\ Unclaimed(c)
        /\ holder' = t
        /\ receipt' = [receipt EXCEPT ![c] = "delivering"]
        /\ task' = [task EXCEPT ![t] =
              [Resting EXCEPT !.pc = IF x \in kept THEN "send" ELSE "connect", !.x = x, !.c = c]]
        /\ UNCHANGED <<exec, kept, strays, provider, own>>

\* Without a runtime in _runtimes a new one is made, if it can be.
Connect(t) ==
    /\ At(t, "connect")
    /\ \/ task' = [task EXCEPT ![t].pc = "send", ![t].mine = TRUE]
       \/ Goto(t, "refuse")
    /\ UNCHANGED <<files, objects, provider, own>>

\* resume or send_message; the provider may have taken the message although the
\* call is refused, raises, or names another session.
Send(t) ==
    LET c == task[t].c
    IN  /\ At(t, "send")
        /\ \/ /\ taken' = [taken EXCEPT ![c] = Once(@)]
              /\ \/ Goto(t, "refuse") /\ UNCHANGED kept
                 \/ Keep(task[t].x) /\ Drop(t, "deliver")
           \/ Goto(t, "refuse") /\ UNCHANGED <<taken, kept>>
        /\ UNCHANGED <<files, strays, holder, begun, own>>

\* Mutant of Reported: a write that fails is taken for the outcome it had.
ReportedDone(t) == {"failed", "ok"}

\* The answer of the exception handler, if it can be written.
Reported(t) == {"failed", receipt[task[t].c]}

Refuse(t) ==
    /\ At(t, "refuse")
    /\ \E outcome \in Reported(t) : receipt' = [receipt EXCEPT ![task[t].c] = outcome]
    /\ Goto(t, "finish")
    /\ UNCHANGED <<exec, objects, provider, own>>

\* The delivery receipt comes before anything else that may fail.
Deliver(t) ==
    /\ At(t, "deliver")
    /\ \/ receipt' = [receipt EXCEPT ![task[t].c] = "delivered"] /\ Goto(t, "update")
       \/ Goto(t, "refuse") /\ UNCHANGED receipt
    /\ UNCHANGED <<exec, objects, provider, own>>

\* Then the record; if that fails the outcome is unknown, and says so.
Update(t) ==
    /\ At(t, "update")
    /\ \/ Status(task[t].x, "running") /\ Goto(t, "complete") /\ UNCHANGED receipt
       \/ /\ \/ receipt' = [receipt EXCEPT ![task[t].c] = "unknown"] /\ Goto(t, "finish")
             \/ Goto(t, "refuse") /\ UNCHANGED receipt
          /\ UNCHANGED <<exec, own>>
    /\ UNCHANGED <<objects, provider>>

Complete(t) ==
    /\ At(t, "complete")
    /\ \/ receipt' = [receipt EXCEPT ![task[t].c] = "ok"] /\ Goto(t, "finish")
       \/ Goto(t, "refuse") /\ UNCHANGED receipt
    /\ UNCHANGED <<exec, objects, provider, own>>

\* A runtime that was made for nothing is closed or kept for close; if another
\* one has come to _runtimes meanwhile it is just dropped.
Finish(t) ==
    /\ At(t, "finish")
    /\ IF task[t].mine /\ task[t].x \in kept
       THEN UNCHANGED strays
       ELSE strays' \in {strays, strays \/ task[t].mine}
    /\ holder' = Free
    /\ task' = [task EXCEPT ![t] = Resting]
    /\ UNCHANGED <<files, kept, provider, own>>

\* reply_capability looks with a runtime of its own, without the lock.
Probe(t) ==
    /\ task[t] = Resting
    /\ \E x \in Execution \ kept : exec[x].session
    /\ ~strays /\ strays' = TRUE
    /\ UNCHANGED <<files, kept, holder, provider, task, own>>
-----------------------------------------------------------------------------
(* close, and the end of the process.                                       *)

Close(t) ==
    /\ task[t] = Resting /\ holder = Free
    /\ holder' = t
    /\ task' = [task EXCEPT ![t] = [Resting EXCEPT !.pc = "closing", !.todo = kept]]
    /\ UNCHANGED <<files, kept, strays, provider, own>>

\* Mutant of Parked: the record keeps the status it has.
ParkedNever(status) == FALSE

\* A record that says starting or running turns to waiting.
Parked(status) == status \in {"starting", "running"}

\* A runtime is closed, or stays in _runtimes for the next close.
CloseOne(t, x) ==
    /\ At(t, "closing") /\ x \in task[t].todo
    /\ task' = [task EXCEPT ![t].todo = @ \ {x}]
    /\ \/ /\ IF Parked(exec[x].status) THEN Status(x, "waiting") ELSE UNCHANGED <<exec, own>>
          /\ kept' = kept \ {x}
       \/ UNCHANGED <<exec, own, kept>>
    /\ UNCHANGED <<receipt, strays, holder, provider>>

Closed(t) ==
    /\ At(t, "closing") /\ task[t].todo = {}
    /\ strays' \in {FALSE, strays}
    /\ holder' = Free
    /\ task' = [task EXCEPT ![t] = Resting]
    /\ UNCHANGED <<files, kept, provider, own>>

\* The process ends: its threads, runtimes and locks go, the files stay.
Restart ==
    /\ kept' = {} /\ strays' = FALSE /\ holder' = Free
    /\ task' = [t \in Thread |-> Resting]
    /\ own' = {}
    /\ UNCHANGED <<files, provider>>

WorkbenchNext ==
    \/ \E t \in Thread :
          \/ \E x \in Execution : Create(t, x) \/ CloseOne(t, x)
          \/ \E c \in Reply : ClaimReply(t, c)
          \/ Claim(t) \/ Launch(t) \/ Start(t) \/ Undo(t) \/ Abandon(t) \/ Fail(t)
          \/ Record(t) \/ Register(t)
          \/ Connect(t) \/ Send(t) \/ Refuse(t) \/ Deliver(t) \/ Update(t) \/ Complete(t)
          \/ Finish(t) \/ Probe(t) \/ Close(t) \/ Closed(t)
    \/ Restart

WorkbenchSpec == WorkbenchInit /\ [][WorkbenchNext]_wbVars
-----------------------------------------------------------------------------
\* Shapes; _reply_lock is held by the thread that is in a locked place.
WorkbenchTypeOK ==
    /\ exec \in [Execution -> [status : Statuses, session : BOOLEAN]]
    /\ receipt \in [Reply -> {"none", "delivering", "delivered", "unknown", "ok", "failed"}]
    /\ kept \subseteq Execution /\ own \subseteq Execution
    /\ strays \in BOOLEAN
    /\ task \in [Thread -> [pc : {"idle", "claim", "launch", "start", "undo", "abandon", "fail",
                                  "record", "register", "connect", "send", "refuse", "deliver",
                                  "update", "complete", "finish", "closing"},
                            x : Execution \cup {Free}, c : Reply \cup {Free},
                            mine : BOOLEAN, todo : SUBSET Execution]]
    /\ begun \in [Execution -> 0 .. 2] /\ taken \in [Reply -> 0 .. 2]
    /\ \A t \in Thread : holder = t <=>
          task[t].pc \in {"connect", "send", "refuse", "deliver", "update", "complete",
                          "finish", "closing"}

\* A creation_key starts one session and a command_id is handed to the provider
\* once, whatever fails, is repeated, comes in parallel, or dies in between.
SentOnce ==
    /\ \A x \in Execution : begun[x] <= 1
    /\ \A c \in Reply : taken[c] <= 1

\* A receipt that says delivered, unknown or ok is about a message that the
\* provider has, and no receipt at all about one that it does not have.
ReceiptTrue ==
    \A c \in Reply :
        /\ receipt[c] \in {"delivered", "unknown", "ok"} => taken[c] = 1
        /\ receipt[c] = "none" => taken[c] = 0
        /\ taken[c] > 0 => begun[Target[c]] = 1

\* What this process has recorded as running has a runtime in _runtimes once the
\* call is over, so that the next close finds it.  A start that registers its runtime
\* after the last close is not covered: what it set running stays so.
NoFalseRunning ==
    \A x \in own :
        /\ exec[x].status = "running"
        /\ x \in kept \/ \E t \in Thread : task[t].x = x
=============================================================================
