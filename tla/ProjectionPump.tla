--------------------------- MODULE ProjectionPump ---------------------------
(***************************************************************************)
(* TaskProjectionPump (orchestration/projection.py): the supervisor's      *)
(* thread submits snapshots and closes the pump, the pump's own thread     *)
(* syncs the latest one.  A sync may confirm its snapshot or not           *)
(* (Projection says when).  A snapshot is known by what its nodes say,     *)
(* which is a number that grows with the revision; the same nodes with a   *)
(* greater revision are the same number again.                             *)
(***************************************************************************)
EXTENDS Naturals

CONSTANTS MaxSnapshot   \* bound on the snapshots with different nodes

VARIABLES
    latest, submitted, synced,   \* _latest, _last_submitted, _last_synced_key; 0 is None
    accepting,                   \* _accepting
    thread,                      \* what the pump's thread does
    tried,                       \* the last snapshot that was handed to sync
    late,                        \* whether that was after close
    answer                       \* what close has answered

pumpVars == <<latest, submitted, synced, accepting, thread, tried, late, answer>>

Snapshots == 0 .. MaxSnapshot

PumpInit ==
    /\ latest = 0 /\ submitted = 0 /\ synced = 0 /\ accepting = TRUE
    /\ thread = "waiting" /\ tried = 0 /\ late = FALSE /\ answer = "none"

\* A snapshot is left to the thread unless it is the one known to be synced.
Wanted(n) == n # synced

Submit(n) ==
    /\ accepting /\ n > 0 /\ n >= submitted
    /\ submitted' = n
    /\ latest' = IF Wanted(n) THEN n ELSE latest
    /\ UNCHANGED <<synced, accepting, thread, tried, late, answer>>

\* The thread takes the latest snapshot and gives the lock back before it syncs.
Take ==
    /\ thread = "waiting" /\ latest # 0
    /\ latest' = 0
    /\ IF latest = synced THEN UNCHANGED <<thread, tried, late>>
       ELSE thread' = "syncing" /\ tried' = latest /\ late' = ~accepting
    /\ UNCHANGED <<submitted, synced, accepting, answer>>

Synced ==
    /\ thread = "syncing"
    /\ thread' = "waiting"
    /\ synced' \in {synced, tried}
    /\ UNCHANGED <<latest, submitted, accepting, tried, late, answer>>

Leave ==
    /\ thread = "waiting" /\ latest = 0 /\ ~accepting
    /\ thread' = "ended"
    /\ UNCHANGED <<latest, submitted, synced, accepting, tried, late, answer>>

\* Mutant of Requeued: close only stops the pump from accepting.
RequeuedNever == latest

\* close puts the last snapshot back if it has not been confirmed.
Requeued == IF submitted # 0 /\ submitted # synced THEN submitted ELSE latest

Close ==
    /\ accepting /\ accepting' = FALSE
    /\ latest' = Requeued
    /\ UNCHANGED <<submitted, synced, thread, tried, late, answer>>

\* join ends with the thread or by its time limit.
Answer ==
    /\ ~accepting
    /\ answer' = IF thread = "ended" /\ submitted \in {0, synced} THEN "synced" ELSE "not synced"
    /\ UNCHANGED <<latest, submitted, synced, accepting, thread, tried, late>>

PumpNext ==
    \/ \E n \in Snapshots : Submit(n)
    \/ Take \/ Synced \/ Leave \/ Close \/ Answer

PumpSpec == PumpInit /\ [][PumpNext]_pumpVars
-----------------------------------------------------------------------------
\* Shapes; a snapshot that waits is the last one that was submitted.
PumpTypeOK ==
    /\ {latest, submitted, synced, tried} \subseteq Snapshots
    /\ latest \in {0, submitted}
    /\ thread \in {"waiting", "syncing", "ended"} /\ {accepting, late} \subseteq BOOLEAN
    /\ answer \in {"none", "synced", "not synced"}

\* The last snapshot is never forgotten: it waits for the thread or was taken by
\* it, and one that could not be synced is tried once more after close, before the
\* thread leaves.  close answers True only if the last snapshot was synced.
LastTried ==
    /\ submitted # synced => submitted \in {latest, tried}
    /\ thread = "ended" /\ submitted # synced => tried = submitted /\ late
    /\ answer = "synced" => submitted = synced
=============================================================================
