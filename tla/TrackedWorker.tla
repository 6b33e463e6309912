--------------------------- MODULE TrackedWorker ----------------------------
(***************************************************************************)
(* ExecutionTrackedWorkerPort (multi_agent.py) for one attempt: it keeps   *)
(* the record of an execution and copies the events of the attempt into    *)
(* the log of the execution, around the calls of the port it wraps.        *)
(*                                                                         *)
(* Its calls are serialised by _lock and come from a supervisor, which may *)
(* die anywhere and repeat the call from a new process; the worker goes on *)
(* writing events meanwhile, and may die in the middle of one.             *)
(***************************************************************************)
EXTENDS EventLog

CONSTANTS
    MaxEvents,   \* bound: events the attempt has
    Limit        \* events that one replay returns

VARIABLES
    record,    \* the execution: status, event_cursor
    source,    \* the log of the attempt
    copy,      \* the log of the execution
    acked,     \* the events whose append to source has returned
    worker,    \* what the wrapped port says of the attempt
    call       \* the call that holds _lock

twVars == <<record, source, copy, acked, worker, call>>

Final == {"completed", "failed"}
Observed == {"running", "candidate_complete", "blocked", "failed", "unknown"}
NoCall == [pc |-> "idle", seen |-> "none", page |-> <<>>, next |-> 0]

TrackedInit ==
    /\ record = [status |-> "absent", cursor |-> 0]
    /\ source = EmptyLog /\ copy = EmptyLog
    /\ acked = <<>>
    /\ worker = "none"
    /\ call = NoCall

\* _prepare: the record is made, and claimed by one caller only.
Prepare ==
    /\ call = NoCall
    /\ \/ /\ record.status = "absent"
          /\ record' = [record EXCEPT !.status = "queued"]
          /\ UNCHANGED call
       \/ /\ record.status = "queued"
          /\ record' = [record EXCEPT !.status = "starting"]
          /\ call' = [NoCall EXCEPT !.pc = "delegate"]
    /\ UNCHANGED <<source, copy, acked, worker>>

\* A dispatch that is repeated goes through to the wrapped port, as poll,
\* reconcile and cancel do.
Again ==
    /\ call = NoCall
    /\ record.status \notin {"absent", "queued"}
    /\ call' = [NoCall EXCEPT !.pc = "delegate"]
    /\ UNCHANGED <<record, source, copy, acked, worker>>

\* The wrapped port starts the attempt at most once; it answers, or raises, as
\* it does when it is asked about an attempt that was never dispatched.
Delegate ==
    /\ call.pc = "delegate"
    /\ \/ /\ worker' = IF worker = "none" THEN "running" ELSE worker
          /\ call' = [call EXCEPT !.pc = "open", !.seen = worker']
       \/ /\ worker' \in {worker} \cup (IF worker = "none" THEN {"running"} ELSE {})
          /\ call' = [call EXCEPT !.pc = "raise"]
    /\ UNCHANGED <<record, source, copy, acked>>

\* _sync_events reads one page of the source from the cursor on.
Open ==
    /\ call.pc = "open"
    /\ source' = Recovered(source)
    /\ LET page == Replay(source, record.cursor, Limit)
       IN  call' = [call EXCEPT !.pc = "copy", !.page = page,
                                !.next = record.cursor + Len(page)]
    /\ UNCHANGED <<record, copy, acked, worker>>

\* Mutant of Copied: the log of the execution is not asked for the event.
CopiedBlindly(event) == [Recovered(copy) EXCEPT !.lines = Append(@, event)]

Copied(event) == Appended(copy, event)

\* Each event goes to the log of the execution under the event_id it has; an
\* event that does not belong to the attempt, or a failed write, raises.
Copy ==
    /\ call.pc = "copy" /\ call.page # <<>>
    /\ \/ /\ copy' = Copied(Head(call.page))
          /\ call' = [call EXCEPT !.page = Tail(@)]
       \/ call' = [call EXCEPT !.pc = "raise"] /\ UNCHANGED copy
    /\ UNCHANGED <<record, source, acked, worker>>

StatusOf(seen) ==
    CASE seen = "candidate_complete" -> "completed"
      [] seen = "unknown" -> "waiting"
      [] OTHER -> seen

\* The record takes the status and the cursor in one write, after the copy.
Save ==
    /\ call.pc = "copy" /\ call.page = <<>>
    /\ \/ record' = [status |-> StatusOf(call.seen), cursor |-> call.next]
       \/ UNCHANGED record
    /\ call' = NoCall
    /\ UNCHANGED <<source, copy, acked, worker>>

\* An exception turns the record to waiting before it goes to the caller.
Raise ==
    /\ call.pc = "raise"
    /\ record' = [record EXCEPT !.status = "waiting"]
    /\ call' = NoCall
    /\ UNCHANGED <<source, copy, acked, worker>>

\* The supervisor's process dies; in Copy it may leave a torn line behind.
Crash ==
    /\ call # NoCall
    /\ call' = NoCall
    /\ IF call.pc = "copy" /\ call.page # <<>>
       THEN copy' \in Interrupted(copy, Head(call.page))
       ELSE UNCHANGED copy
    /\ UNCHANGED <<record, source, acked, worker>>

\* The worker appends its next event, or dies while it does.
NextEvent == IF Recovered(source).lines = <<>> THEN 1 ELSE Last(Recovered(source).lines) + 1

Emit ==
    /\ worker = "running" /\ NextEvent <= MaxEvents
    /\ source' = Appended(source, NextEvent)
    /\ acked' = source'.lines
    /\ UNCHANGED <<record, copy, worker, call>>

EmitTorn ==
    /\ worker = "running" /\ NextEvent <= MaxEvents
    /\ source' \in Interrupted(source, NextEvent)
    /\ worker' = "unknown"
    /\ UNCHANGED <<record, copy, acked, call>>

\* The attempt ends, or is confirmed after it was unknown.
End ==
    /\ worker \in {"running", "unknown"}
    /\ worker' \in {"candidate_complete", "blocked", "failed"}
    /\ UNCHANGED <<record, source, copy, acked, call>>

PortStep == Delegate \/ Open \/ Copy \/ Save \/ Raise

TrackedNext ==
    \/ Prepare \/ Again \/ PortStep \/ Crash
    \/ Emit \/ EmitTorn \/ End

TrackedSpec == TrackedInit /\ [][TrackedNext]_twVars
-----------------------------------------------------------------------------
Logs == [lines : Seq(1 .. MaxEvents), tail : {Nothing, Torn} \cup 1 .. MaxEvents]

TrackedTypeOK ==
    /\ record \in [status : {"absent", "queued", "starting", "running", "waiting", "blocked"} \cup Final,
                   cursor : 0 .. MaxEvents]
    /\ source \in Logs /\ copy \in Logs
    /\ acked \in Seq(1 .. MaxEvents)
    /\ worker \in {"none"} \cup Observed
    /\ call \in [pc : {"idle", "delegate", "open", "copy", "raise"},
                 seen : {"none"} \cup Observed, page : Seq(1 .. MaxEvents), next : 0 .. MaxEvents]

\* The log of the execution is a beginning of the log of the attempt, in its
\* order and without repetition, whatever died between a copy and the cursor;
\* the cursor is never ahead of the copy, and an event whose append has returned
\* keeps its place.
Mirrored ==
    LET copied == Recovered(copy).lines
        written == Recovered(source).lines
    IN  IsPrefix(copied, written) /\ IsPrefix(acked, written) /\ record.cursor <= Len(copied)
=============================================================================
