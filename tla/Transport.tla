----------------------------- MODULE Transport ------------------------------
(***************************************************************************)
(* JsonRpcStdioClient (agent_runtime/stdio.py) with the turns of           *)
(* CodexRuntime (agent_runtime/codex.py): threads that send requests to    *)
(* one provider process and wait for their answers and turns, the reader   *)
(* and writer threads of the connection, and close.                        *)
(*                                                                         *)
(* Steps under _lock are atomic here; _write_lock, held while a line is    *)
(* put into the bounded queue, is state.  The provider answers in any      *)
(* order, late, or never, and may die or talk nonsense.  Each request is   *)
(* a turn/start: its answer names the turn, whose completion comes as a    *)
(* notification of its own, before the answer or after it.                 *)
(***************************************************************************)
EXTENDS Naturals, Sequences

CONSTANTS
    Request,     \* requests, each with an id and a thread of its own
    Capacity,    \* of the outbound queue
    MaxWire,     \* bound: messages of the provider that wait to be read
    Stop,        \* the end mark of the outbound queue
    Decline,     \* the answer to a request of the provider
    Free         \* no holder of _write_lock

VARIABLES
    process,   \* the provider's process
    closed,    \* _closed
    failure,   \* whether _failure is set
    alarm,     \* whether on_error has still to be called
    queue,     \* _outbound
    pen,       \* who holds _write_lock
    writing,   \* the line the writer is writing
    reader,    \* the reader thread
    writer,    \* the writer thread
    inbox,     \* requests the provider has read
    done,      \* those whose turn it has reported as completed
    wire,      \* what the provider has written and nobody has read
    slot,      \* slot[r]: the _Pending of r, if _pending has one
    caller,    \* caller[r]: where the thread of r is
    turns,     \* _turns
    completed, \* the turns of it that have their completion
    closer     \* where close is

line == <<queue, pen, writing>>
remote == <<process, inbox, done, wire>>
threads == <<reader, writer, closer>>
told == <<slot, turns, completed>>
trVars == <<line, remote, threads, told, closed, failure, alarm, caller>>

Message == [kind : {"answer", "completion"}, r : Request]
           \cup [kind : {"ask", "nonsense"}, r : {Free}]

Ended == {"ok", "failed", "timeout", "lost"}

TransportInit ==
    /\ process = "none" /\ inbox = {} /\ done = {} /\ wire = <<>>
    /\ closed = FALSE /\ failure = FALSE /\ alarm = FALSE
    /\ queue = <<>> /\ pen = Free /\ writing = Free
    /\ reader = "off" /\ writer = "off" /\ closer = "no"
    /\ slot = [r \in Request |-> "none"]
    /\ turns = {} /\ completed = {}
    /\ caller = [r \in Request |-> "new"]

\* _fail gives the first failure to everybody who waits.
Alerted(s) == IF s = "empty" THEN "error" ELSE s

Fails ==
    /\ failure' = TRUE
    /\ alarm' = (alarm \/ ~failure)
    /\ slot' = [r \in Request |-> Alerted(slot[r])]

\* The handler of CodexRuntime wakes those who wait for a turn.
Alarm ==
    /\ alarm
    /\ alarm' = FALSE
    /\ caller' = [r \in Request |-> IF caller[r] = "asleep" THEN "turn" ELSE caller[r]]
    /\ UNCHANGED <<line, remote, threads, told, closed, failure>>

\* start, once: the process is there with its threads, or the start has failed.
Open ==
    /\ process = "none" /\ ~closed /\ ~failure
    /\ \/ /\ process' = "up" /\ reader' = "reading" /\ writer' = "idle"
          /\ UNCHANGED failure
       \/ /\ failure' = TRUE
          /\ UNCHANGED <<process, reader, writer>>
    /\ UNCHANGED <<line, inbox, done, wire, closer, told, closed, alarm, caller>>
-----------------------------------------------------------------------------
(* request                                                                  *)

\* _connect hands out the client when start is over, or has failed.
Register(r) ==
    /\ caller[r] = "new" /\ (process # "none" \/ failure)
    /\ slot' = [slot EXCEPT ![r] = "empty"]
    /\ caller' = [caller EXCEPT ![r] = "send"]
    /\ UNCHANGED <<line, remote, threads, turns, completed, closed, failure, alarm>>

\* The end of a request takes its entry out of _pending.
Return(r, outcome) ==
    /\ caller' = [caller EXCEPT ![r] = outcome]
    /\ slot' = [slot EXCEPT ![r] = "none"]

\* Mutant of Usable: a failure that has come since the connection is overlooked.
UsableWhenOpen == ~closed /\ process # "none"

\* _send refuses a connection that has failed, is closed or was never started.
Usable == ~failure /\ ~closed /\ process # "none"

\* Mutant of PenFree: _write_lock is not there.
PenThere == TRUE

PenFree == pen = Free

Check(r) ==
    /\ caller[r] = "send" /\ PenFree
    /\ IF Usable
       THEN pen' = r /\ caller' = [caller EXCEPT ![r] = "put"] /\ UNCHANGED slot
       ELSE Return(r, "failed") /\ UNCHANGED pen
    /\ UNCHANGED <<queue, writing, remote, threads, turns, completed, closed, failure, alarm>>

\* put_nowait, still with _write_lock.
Put(r) ==
    /\ caller[r] = "put"
    /\ pen' = Free
    /\ IF Len(queue) < Capacity
       THEN /\ queue' = Append(queue, r)
            /\ caller' = [caller EXCEPT ![r] = "wait"]
            /\ UNCHANGED slot
       ELSE Return(r, "failed") /\ UNCHANGED queue
    /\ UNCHANGED <<writing, remote, threads, turns, completed, closed, failure, alarm>>

\* The answer names the turn; what the reader has noted of it stays.
Answered(r) ==
    /\ caller[r] = "wait" /\ slot[r] \in {"answer", "error"}
    /\ IF slot[r] = "answer"
       THEN Return(r, "turn") /\ turns' = turns \cup {r}
       ELSE Return(r, "failed") /\ UNCHANGED turns
    /\ UNCHANGED <<line, remote, threads, completed, closed, failure, alarm>>

TimeOut(r) ==
    /\ \/ /\ caller[r] = "wait" /\ slot[r] = "empty"
          /\ Return(r, "timeout")
       \/ /\ caller[r] = "asleep"
          /\ caller' = [caller EXCEPT ![r] = "lost"] /\ UNCHANGED slot
    /\ UNCHANGED <<line, remote, threads, turns, completed, closed, failure, alarm>>

\* wait looks for the completion first, then for a failure, then sleeps.
Look(r) ==
    /\ caller[r] = "turn"
    /\ caller' = [caller EXCEPT ![r] =
          IF r \in completed THEN "ok" ELSE IF failure THEN "lost" ELSE "asleep"]
    /\ UNCHANGED <<line, remote, threads, told, closed, failure, alarm>>
-----------------------------------------------------------------------------
(* The writer and the reader.                                               *)

TakeLine ==
    /\ writer = "idle" /\ queue # <<>>
    /\ queue' = Tail(queue)
    /\ IF Head(queue) = Stop
       THEN writer' = "ended" /\ UNCHANGED writing
       ELSE writer' = "writing" /\ writing' = Head(queue)
    /\ UNCHANGED <<pen, remote, reader, closer, told, closed, failure, alarm, caller>>

\* The provider reads the line; a dead one breaks the pipe.
WriteLine ==
    /\ writer = "writing" /\ process = "up"
    /\ inbox' = inbox \cup ({writing} \cap Request)
    /\ writer' = "idle" /\ writing' = Free
    /\ UNCHANGED <<queue, pen, process, done, wire, reader, closer, told, closed, failure, alarm, caller>>

BrokenPipe ==
    /\ writer = "writing" /\ process = "dead"
    /\ writer' = "ended" /\ writing' = Free
    /\ Fails
    /\ UNCHANGED <<queue, pen, remote, reader, closer, turns, completed, closed, caller>>

\* A response goes to the request with its id, if it still waits for one.
ReadAnswer(r) ==
    /\ slot' = [slot EXCEPT ![r] = IF @ = "empty" THEN "answer" ELSE @]
    /\ UNCHANGED <<turns, completed, queue, reader, failure, alarm, caller>>

\* Mutant of Noted: a completion counts only for a turn that is known by then.
NotedWhenKnown(r) == completed \cup ({r} \cap turns)

\* A completion is kept, whether the answer has come or not.
Noted(r) == completed \cup {r}

ReadCompletion(r) ==
    /\ turns' = turns \cup {r}
    /\ completed' = Noted(r)
    /\ caller' = [q \in Request |-> IF caller[q] = "asleep" THEN "turn" ELSE caller[q]]
    /\ UNCHANGED <<slot, queue, reader, failure, alarm>>

\* The reader itself declines what the provider asks.
ReadAsk ==
    /\ PenFree /\ Usable /\ Len(queue) < Capacity
    /\ queue' = Append(queue, Decline)
    /\ UNCHANGED <<told, reader, failure, alarm, caller>>

\* The reader ends, with everything: it cannot read the message, the event sink, which is
\* told of it before anything is noted or declined, raises, or there is no way to decline.
ReadFails ==
    /\ Fails /\ reader' = "ended"
    /\ UNCHANGED <<queue, turns, completed, caller>>

Read ==
    /\ reader = "reading" /\ wire # <<>>
    /\ wire' = Tail(wire)
    /\ LET m == Head(wire)
       IN  \/ m.kind = "answer" /\ ReadAnswer(m.r)
           \/ m.kind = "completion" /\ ReadCompletion(m.r)
           \/ m.kind = "ask" /\ ReadAsk
           \/ m.kind # "answer" /\ ReadFails
    /\ UNCHANGED <<pen, writing, process, inbox, done, writer, closer, closed>>

EndOfFile ==
    /\ reader = "reading" /\ wire = <<>> /\ process = "dead"
    /\ Fails /\ reader' = "ended"
    /\ UNCHANGED <<line, remote, writer, closer, turns, completed, closed, caller>>
-----------------------------------------------------------------------------
(* The provider (external).                                                 *)

Says(m) ==
    /\ process = "up" /\ Len(wire) < MaxWire
    /\ wire' = Append(wire, m)
    /\ UNCHANGED <<line, threads, told, closed, failure, alarm, caller>>

Answer(r) == r \in inbox /\ Says([kind |-> "answer", r |-> r]) /\ UNCHANGED <<process, inbox, done>>

\* A turn is completed once, before the answer that names it or after it.
Complete(r) ==
    /\ r \in inbox \ done
    /\ Says([kind |-> "completion", r |-> r])
    /\ done' = done \cup {r} /\ UNCHANGED <<process, inbox>>

Babble == (\E k \in {"ask", "nonsense"} : Says([kind |-> k, r |-> Free])) /\ UNCHANGED <<process, inbox, done>>

Die ==
    /\ process = "up" /\ process' = "dead"
    /\ UNCHANGED <<line, inbox, done, wire, threads, told, closed, failure, alarm, caller>>
-----------------------------------------------------------------------------
(* close                                                                    *)

Close ==
    /\ closer = "no"
    /\ closed' = TRUE
    /\ closer' = "stop"
    /\ Fails
    /\ UNCHANGED <<line, remote, reader, writer, turns, completed, caller>>

\* The end mark is put only if there is room.
Marked(q) == IF Len(q) < Capacity THEN Append(q, Stop) ELSE q

PutStop ==
    /\ closer = "stop"
    /\ queue' = Marked(queue)
    /\ closer' = IF process = "none" THEN "done" ELSE "kill"
    /\ UNCHANGED <<pen, writing, remote, reader, writer, told, closed, failure, alarm, caller>>

\* The tree is killed, or the kill raises and close is called again.
Kill ==
    /\ closer = "kill"
    /\ \/ process' = "dead" /\ closer' = "done"
       \/ closer' = "no" /\ UNCHANGED process
    /\ UNCHANGED <<line, inbox, done, wire, reader, writer, told, closed, failure, alarm, caller>>

CallerStep(r) == Check(r) \/ Put(r) \/ Answered(r) \/ Look(r)

WriterStep == TakeLine \/ WriteLine \/ BrokenPipe

ReaderStep == Read \/ EndOfFile

TransportNext ==
    \/ \E r \in Request : Register(r) \/ CallerStep(r) \/ TimeOut(r) \/ Answer(r) \/ Complete(r)
    \/ Open \/ WriterStep \/ ReaderStep \/ Alarm
    \/ Babble \/ Die
    \/ Close \/ PutStop \/ Kill

TransportSpec == TransportInit /\ [][TransportNext]_trVars
-----------------------------------------------------------------------------
TransportTypeOK ==
    /\ process \in {"none", "up", "dead"} /\ {closed, failure, alarm} \subseteq BOOLEAN
    /\ queue \in Seq(Request \cup {Stop, Decline}) /\ Len(queue) <= Capacity
    /\ pen \in Request \cup {Free} /\ writing \in Request \cup {Decline, Free}
    /\ reader \in {"off", "reading", "ended"}
    /\ writer \in {"off", "idle", "writing", "ended"}
    /\ closer \in {"no", "stop", "kill", "done"}
    /\ inbox \subseteq Request /\ done \subseteq inbox /\ wire \in Seq(Message)
    /\ slot \in [Request -> {"none", "empty", "answer", "error"}]
    /\ caller \in [Request -> {"new", "send", "put", "wait", "turn", "asleep"} \cup Ended]
    /\ completed \subseteq turns /\ turns \subseteq Request
    /\ \A r \in Request : pen = r <=> caller[r] = "put"

\* Nobody sleeps through a failure: who waits for an answer has the error by
\* then, who waits for a turn is about to be woken, and who registers too late
\* to be told is refused.
ToldOfFailure ==
    failure => \A r \in Request :
        /\ caller[r] \in {"put", "wait"} => slot[r] # "empty"
        /\ caller[r] = "asleep" => alarm

\* Completions taken off the wire that no turn has.
Dropped ==
    {r \in done \ completed : \A i \in DOMAIN wire : wire[i] # [kind |-> "completion", r |-> r]}

\* A completion taken off the wire is noted, be it before the answer that names the
\* turn, or the event sink has raised on it: then it is the last that is read, the
\* connection has failed and the threads have been told.  For a turn whose completion
\* is noted wait does not time out or fail, though the connection has failed meanwhile.
CompletionKept ==
    /\ Dropped # {} => failure /\ reader = "ended"
    /\ \A r, q \in Dropped : r = q
    /\ \A r \in completed : caller'[r] = "lost" => caller[r] = "lost"
=============================================================================
