--------------------------- MODULE RemoteControl ----------------------------
(***************************************************************************)
(* RemoteController (remote_control.py) over its CommandQueue              *)
(* (dashboard.py): request threads of an HTTP server that append commands  *)
(* to a queue file, hand them to one agent runtime, and wait for the turn. *)
(*                                                                         *)
(* The queue file has a lock of its own, taken for each operation; _lock   *)
(* of the controller is held across the calls to the runtime, but not      *)
(* while a turn is waited for.  A thread that holds _lock over several     *)
(* steps is in one of the Locked places.  Commands are numbered in the     *)
(* order in which they enter the queue; a client that repeats a request    *)
(* repeats the number.                                                     *)
(***************************************************************************)
EXTENDS Naturals, Sequences

CONSTANTS
    Thread,        \* request threads of the server
    Session,       \* targets of commands
    First,         \* the target the controller starts with
    None,          \* no runtime
    Broken,        \* a runtime that has no session
    MaxCommands    \* bound: commands that ever enter the queue

ASSUME SessionAssumption == First \in Session /\ {None, Broken} \cap Session = {} /\ None # Broken
ASSUME CommandsAssumption == MaxCommands \in Nat \ {0}

VARIABLES
    rows,      \* the queue file
    target,    \* _queue_session_id
    runtime,   \* the session the runtime has, if there is a runtime
    active,    \* _active_command_id, with a turn of its own
    thread,    \* thread[h]: what request thread h is doing
    left,      \* commands whose sender left them to the active turn
    lost       \* commands whose thread died when it had to deliver them

history == <<left, lost>>
vars == <<rows, target, runtime, active, thread, history>>

Command == 1 .. MaxCommands
Final == {"completed", "failed", "cancelled"}
Row == [session : Session, status : Final \cup {"queued", "delivered"}, retries : {0} \cup Command]

Activity == [pc : {"idle", "link", "deliver", "steering", "injected", "execute", "sending",
                   "waiting", "clear", "drain", "cancelling"},
             command : {0} \cup Command, delivery : {"auto", "steer", "new_turn"},
             retries : {0} \cup Command]

Idle == [pc |-> "idle", command |-> 0, delivery |-> "auto", retries |-> 0]

Init ==
    /\ rows = <<>>
    /\ target = First
    /\ runtime = None
    /\ active = 0
    /\ thread = [h \in Thread |-> Idle]
    /\ left = {}
    /\ lost = {}

Goto(h, pc) == thread' = [thread EXCEPT ![h].pc = pc]
Work(h, pc, c) == thread' = [thread EXCEPT ![h] = [Idle EXCEPT !.pc = pc, !.command = c]]
Rest(h) == thread' = [thread EXCEPT ![h] = Idle]

Locked == {"steering", "injected", "sending", "cancelling"}

\* Mutant of LockFree: a steer is called without the lock.
LockFreeForSteer == \A h \in Thread : thread[h].pc \notin Locked \ {"steering"}

LockFree == \A h \in Thread : thread[h].pc \notin Locked

\* Mutant of Updated: the last outcome wins.
UpdatedAnyway(c, status) == [rows EXCEPT ![c].status = status]

\* CommandQueue.update: a final status is never overwritten.
Updated(c, status) ==
    IF rows[c].status \in Final THEN rows ELSE [rows EXCEPT ![c].status = status]
-----------------------------------------------------------------------------
(* The requests.                                                            *)

\* enqueue answers with the row that has the number already, whatever became
\* of it, or appends a new one.
Enqueued(c, session) ==
    \/ /\ c = Len(rows) + 1 /\ c \in Command
       /\ rows' = Append(rows, [session |-> session, status |-> "queued", retries |-> 0])
    \/ /\ c \in DOMAIN rows /\ rows[c].session = session
       /\ UNCHANGED rows

\* message: only what is queued goes on, and not when the queue was asked for.
Message(h, c, session, delivery) ==
    /\ thread[h].pc = "idle"
    /\ Enqueued(c, session)
    /\ IF rows'[c].status = "queued" /\ delivery # "queue"
       THEN thread' = [thread EXCEPT ![h] = [Idle EXCEPT !.pc = "deliver", !.command = c,
                                                         !.delivery = delivery]]
       ELSE UNCHANGED thread
    /\ UNCHANGED <<target, runtime, active, history>>

\* retry: a new number for a failed command, or one that was taken before.
Retry(h, failed, c) ==
    /\ thread[h].pc = "idle"
    /\ failed \in DOMAIN rows /\ rows[failed].status = "failed"
    /\ Enqueued(c, rows[failed].session)
    /\ LET row == rows'[c]
           pc == IF row.retries = 0 THEN "link" ELSE IF row.status = "queued" THEN "execute" ELSE "idle"
       IN  thread' = IF pc = "idle" THEN thread
                     ELSE [thread EXCEPT ![h] = [Idle EXCEPT !.pc = pc, !.command = c,
                                                 !.retries = IF pc = "link" THEN failed ELSE 0]]
    /\ UNCHANGED <<target, runtime, active, history>>

\* The row learns what it retries; it may have been delivered in the meantime.
Link(h) ==
    LET c == thread[h].command
    IN  /\ thread[h].pc = "link"
        /\ rows' = [rows EXCEPT ![c].retries = thread[h].retries]
        /\ IF rows[c].status = "queued" THEN Work(h, "execute", c) ELSE Rest(h)
        /\ UNCHANGED <<target, runtime, active, history>>

\* deliver looks at the row and, later, at the active turn.
Deliver(h, c) ==
    /\ thread[h].pc = "idle"
    /\ c \in DOMAIN rows /\ rows[c].status = "queued"
    /\ thread' = [thread EXCEPT ![h] = [Idle EXCEPT !.pc = "deliver", !.command = c,
                                                    !.delivery = "new_turn"]]
    /\ UNCHANGED <<rows, target, runtime, active, history>>

\* cancel of a queued command needs the lock of the file only.
CancelQueued(c) ==
    /\ c \in DOMAIN rows /\ rows[c].status = "queued"
    /\ rows' = [rows EXCEPT ![c].status = "cancelled"]
    /\ UNCHANGED <<target, runtime, active, thread, history>>

\* cancel of the active command interrupts its turn, which may refuse.
Interrupt(h, c) ==
    /\ thread[h].pc = "idle" /\ LockFree
    /\ c \in DOMAIN rows /\ rows[c].status # "queued" /\ active = c
    /\ Work(h, "cancelling", c)
    /\ UNCHANGED <<rows, target, runtime, active, history>>

Cancelled(h) ==
    /\ thread[h].pc = "cancelling"
    /\ rows' = Updated(thread[h].command, "cancelled")
    /\ Rest(h)
    /\ UNCHANGED <<target, runtime, active, history>>
-----------------------------------------------------------------------------
(* Delivery.                                                                *)

\* The sender leaves its command, queued, to the thread of the active turn.
LeaveIt(h) ==
    /\ left' = left \cup {thread[h].command}
    /\ UNCHANGED <<rows, target, runtime, active, lost>>

Steers(h) ==
    /\ thread[h].delivery \in {"auto", "steer"}
    /\ rows[thread[h].command].session = target

\* The rest of message, or of deliver, up to _execute.
CheckTurn(h) ==
    /\ thread[h].pc = "deliver" /\ LockFree
    /\ \/ /\ active = 0 /\ Work(h, "execute", thread[h].command)
          /\ UNCHANGED <<rows, target, runtime, active, history>>
       \/ /\ active # 0 /\ Steers(h) /\ Goto(h, "steering")
          /\ UNCHANGED <<rows, target, runtime, active, history>>
       \/ active # 0 /\ ~Steers(h) /\ Rest(h) /\ LeaveIt(h)

\* The answer of runtime.steer.  Success is recorded as delivered, then completed.
Steered(h) ==
    LET c == thread[h].command
    IN  /\ thread[h].pc = "steering"
        /\ \/ /\ rows' = Updated(c, "delivered") /\ Work(h, "injected", c)
              /\ UNCHANGED <<target, runtime, active, history>>
           \/ /\ thread[h].delivery = "steer"
              /\ rows' = Updated(c, "failed") /\ Rest(h)
              /\ UNCHANGED <<target, runtime, active, history>>
           \/ thread[h].delivery # "steer" /\ Rest(h) /\ LeaveIt(h)

Injected(h) ==
    /\ thread[h].pc = "injected"
    /\ rows' = Updated(thread[h].command, "completed")
    /\ Rest(h)
    /\ UNCHANGED <<target, runtime, active, history>>

\* Mutant of TurnFree: a turn in another session is not in the way.
TurnFreeHere(c) == active = 0 \/ rows[c].session # target

\* _execute goes on only when no turn is active.
TurnFree(c) == active = 0

\* _activate_target: the runtime of another target is closed.
Activated(session) == IF session = target THEN runtime ELSE None

\* The first part of _execute.  What update answers is ignored.
Execute(h) ==
    LET c == thread[h].command
    IN  /\ thread[h].pc = "execute" /\ LockFree
        /\ \/ ~TurnFree(c) /\ Goto(h, "drain") /\ LeaveIt(h)
           \/ /\ TurnFree(c)
              /\ Work(h, "sending", c)
              /\ runtime' = Activated(rows[c].session)
              /\ target' = rows[c].session
              /\ rows' = Updated(c, "delivered")
              /\ UNCHANGED <<active, history>>

\* Closing the runtime of the old target fails, and the request with it.
ActivateFails(h) ==
    LET c == thread[h].command
    IN  /\ thread[h].pc = "execute" /\ LockFree
        /\ TurnFree(c) /\ rows[c].session # target /\ runtime # None
        /\ Rest(h)
        /\ UNCHANGED <<rows, target, runtime, active, history>>

\* What a start that failed leaves: nothing; the runtime, if closing it failed
\* too; or a session without a turn.
AfterFailure == IF runtime = None THEN {None, Broken, target} ELSE {runtime}

\* _start_or_send: a turn begins, or the command has failed.
StartOrSend(h) ==
    LET c == thread[h].command
    IN  /\ thread[h].pc = "sending" /\ runtime # Broken
        /\ \/ /\ runtime' = IF runtime = None THEN target ELSE runtime
              /\ active' = c
              /\ Goto(h, "waiting")
              /\ UNCHANGED rows
           \/ /\ rows' = Updated(c, "failed")
              /\ runtime' \in AfterFailure
              /\ Goto(h, "drain")
              /\ UNCHANGED active
        /\ UNCHANGED <<target, history>>

\* An assertion fails, and nobody catches it: the runtime has no session.
NoSession(h) ==
    /\ thread[h].pc = "sending" /\ runtime = Broken
    /\ Rest(h)
    /\ lost' = lost \cup {thread[h].command}
    /\ UNCHANGED <<rows, target, runtime, active, left>>

\* runtime.wait: the turn is over, was interrupted, or timed out.
Wait(h) ==
    /\ thread[h].pc = "waiting"
    /\ \E status \in {"completed", "failed"} : rows' = Updated(thread[h].command, status)
    /\ Goto(h, "clear")
    /\ UNCHANGED <<target, runtime, active, history>>

\* Mutant of AfterTurn: whoever sent the other commands is to deliver them.
AfterTurnRest == "idle"

\* Where a thread goes when its turn is over.
AfterTurn == "drain"

\* The finally block of _execute.
Clear(h) ==
    /\ thread[h].pc = "clear" /\ LockFree
    /\ active' = IF active = thread[h].command THEN 0 ELSE active
    /\ Goto(h, AfterTurn)
    /\ UNCHANGED <<rows, target, runtime, history>>

Pending == {c \in DOMAIN rows : rows[c].status = "queued" /\ rows[c].session = target}

\* _drain_pending: take the first pending command of the present target.  It is
\* executed after the lock has been released.
Drain(h) ==
    /\ thread[h].pc = "drain" /\ LockFree
    /\ \/ (active # 0 \/ Pending = {}) /\ Rest(h)
       \/ /\ active = 0
          /\ \E c \in Pending : (\A d \in Pending : c <= d) /\ Work(h, "execute", c)
    /\ UNCHANGED <<rows, target, runtime, active, history>>
-----------------------------------------------------------------------------
\* Mutant of Recovered: what was delivered is taken as done by someone.
RecoveredAsIs(row) == row

\* recover_delivered: the outcome is unknown, and is not tried again.
Recovered(row) == IF row.status = "delivered" THEN [row EXCEPT !.status = "failed"] ELSE row

\* The service stops with all its threads, and starts again.
Restart ==
    /\ rows' = [c \in DOMAIN rows |-> Recovered(rows[c])]
    /\ target' = First
    /\ runtime' = None
    /\ active' = 0
    /\ thread' = [h \in Thread |-> Idle]
    /\ left' = {}
    /\ lost' = {}

Request(h) ==
    \/ \E c \in Command, session \in Session, delivery \in {"auto", "steer", "new_turn", "queue"} :
          Message(h, c, session, delivery)
    \/ \E c \in Command : Deliver(h, c) \/ Interrupt(h, c) \/ \E failed \in Command : Retry(h, failed, c)

Progress(h) ==
    \/ Link(h) \/ Cancelled(h) \/ CheckTurn(h) \/ Steered(h) \/ Injected(h)
    \/ Execute(h) \/ ActivateFails(h) \/ StartOrSend(h) \/ NoSession(h)
    \/ Wait(h) \/ Clear(h) \/ Drain(h)

Next ==
    \/ \E h \in Thread : Request(h) \/ Progress(h)
    \/ \E c \in Command : CancelQueued(c)
    \/ Restart

Spec == Init /\ [][Next]_vars
-----------------------------------------------------------------------------
\* Shapes; commands the threads work on are in the queue, and one thread at
\* most holds the lock across its steps.
TypeOK ==
    /\ rows \in Seq(Row) /\ Len(rows) <= MaxCommands
    /\ target \in Session
    /\ runtime \in Session \cup {None, Broken}
    /\ active \in {0} \cup DOMAIN rows
    /\ thread \in [Thread -> Activity]
    /\ \A h \in Thread : thread[h].pc # "idle" => thread[h].command \in DOMAIN rows
    /\ \A g, h \in Thread : g # h => ~(thread[g].pc \in Locked /\ thread[h].pc \in Locked)
    /\ left \subseteq DOMAIN rows /\ lost \subseteq DOMAIN rows

\* README: "the network replay of the same ID is not delivered again"; the class
\* comment of CommandQueue says the same of a client's retries.  So nothing that
\* has been delivered is handed to the runtime, by steer or with a turn.
DeliveredOnce ==
    [][\A h \in Thread :
          thread[h].pc # thread'[h].pc /\ thread'[h].pc \in {"steering", "sending"} =>
              rows[thread[h].command].status \notin {"delivered", "completed"}]_vars

\* update: the outcome of a command, once recorded, stays: an interrupted turn
\* that still completes, a late cancellation, a steer that was cancelled in the
\* queue, a second delivery and a restart leave it alone.
OutcomeStays ==
    [][\A c \in DOMAIN rows : rows[c].status \in Final => rows'[c].status = rows[c].status]_vars

\* _execute and _activate_target: while a thread waits for its turn that turn is
\* the active one, alone, and the runtime has the session of its command: no
\* delivery to another session closes the runtime under it.
TurnUndisturbed ==
    \A h \in Thread : thread[h].pc \in {"waiting", "clear"} =>
        /\ active = thread[h].command
        /\ runtime = rows[thread[h].command].session
        /\ \A g \in Thread \ {h} : thread[g].pc \notin {"sending", "waiting", "clear"}

\* recover_delivered and _execute: a command that counts as delivered has a
\* thread that is going to record its outcome, also after a restart, unless the
\* thread died of a runtime without a session.
DeliveredHasOwner ==
    \A c \in DOMAIN rows : rows[c].status = "delivered" /\ c \notin lost =>
        \E h \in Thread : thread[h].command = c /\ thread[h].pc \in {"injected", "sending", "waiting"}

\* message, deliver and _drain_pending: a command that its sender left to the
\* active turn is still pending only while some thread has yet to look for it,
\* unless the controller has moved to another session, or can deliver nothing.
NothingLeftBehind ==
    (\A h \in Thread : thread[h].pc \notin {"execute", "sending", "waiting", "clear", "drain"}) =>
        left \cap Pending = {} \/ runtime = Broken

\* Both: at any time a command has its outcome, or somebody who is going to
\* record it, or is pending and will be looked for.
NoneForgotten == DeliveredHasOwner /\ NothingLeftBehind
=============================================================================
