------------------------------ MODULE Watchdog ------------------------------
(***************************************************************************)
(* The watchdog of a requirement (RequirementWatchdog,                     *)
(* supervisor_watchdog.py; supervisor-watchdog.json).  A scan lists the    *)
(* executions, which are read one by one (executions/store.py: list holds  *)
(* the lock of the requirement, their writers that of the workspace), then *)
(* takes the time, then reads the events of each.  One scan at a time      *)
(* (watchdog_locked).                                                      *)
(***************************************************************************)
EXTENDS Naturals, Sequences, FiniteSets

CONSTANTS
    Runs,        \* number of executions of the task
    MaxTime,     \* bound on the clock
    StuckAfter,  \* stuck_seconds
    Stagnation   \* stagnation_seconds

VARIABLES
    clock,
    runs,      \* runs[r]: status, last_progress_at, and the times of its events of progress
    scan,      \* the scan that runs: what it has read, and its time
    file       \* the last signals, and since when the same progress is seen

watchdogVars == <<clock, runs, scan, file>>

Run == 1 .. Runs
Active == {"starting", "running"}
NoScan == [listed |-> <<>>, now |-> 0, stuck |-> {}, read |-> 0]

WatchdogInit ==
    /\ clock = 0
    /\ runs = [r \in Run |-> [status |-> "queued", seen |-> 0, events |-> {}]]
    /\ scan = NoScan
    /\ file = [at |-> 0, stuck |-> {}, twice |-> FALSE, stagnant |-> FALSE,
               progress |-> <<>>, changed |-> 0]

Latest(times) == CHOOSE t \in times : \A u \in times : u <= t
-----------------------------------------------------------------------------
(* The executions.                                                          *)

Tick ==
    /\ clock < MaxTime /\ clock' = clock + 1
    /\ UNCHANGED <<runs, scan, file>>

\* claim_start and prepare write no time: what is seen of it is as old as its creation, or
\* as the last time it waited.
Claims(r) ==
    /\ runs[r].status \in {"queued", "ended"}
    /\ runs' = [runs EXCEPT ![r].status = "starting"]
    /\ UNCHANGED <<clock, scan, file>>

\* Also again, when a reply is sent to one that has ended.
Starts(r) ==
    /\ \E status \in Active \ {runs[r].status} :
          runs' = [runs EXCEPT ![r] = [@ EXCEPT !.status = status, !.seen = clock]]
    /\ UNCHANGED <<clock, scan, file>>

\* An event that counts as progress (_progress) is logged; the record stays as it is.
Works(r) ==
    /\ runs[r].status \in Active /\ clock \notin runs[r].events
    /\ runs' = [runs EXCEPT ![r].events = @ \cup {clock}]
    /\ UNCHANGED <<clock, scan, file>>

\* It waits, or is over.
Ends(r) ==
    /\ runs[r].status \in Active
    /\ runs' = [runs EXCEPT ![r] = [@ EXCEPT !.status = "ended", !.seen = clock]]
    /\ UNCHANGED <<clock, scan, file>>
-----------------------------------------------------------------------------
(* The scan.                                                                *)

ListNext ==
    /\ Len(scan.listed) < Runs
    /\ LET r == Len(scan.listed) + 1
       IN  scan' = [scan EXCEPT !.listed = Append(@, [status |-> runs[r].status,
                                                      seen |-> runs[r].seen])]
    /\ UNCHANGED <<clock, runs, file>>

Listed == Len(scan.listed) = Runs

TakeTime ==
    /\ Listed /\ scan.read = 0
    /\ scan' = [scan EXCEPT !.now = clock, !.read = 1]
    /\ UNCHANGED <<clock, runs, file>>

\* Mutant of Now: the time is taken when the events have been read.
NowLate == clock
Now == scan.now

\* The graph of the supervisor may say that the task is not at work: no alarm.
ReadEvents ==
    /\ scan.read \in Run
    /\ LET r == scan.read
           last == Latest({scan.listed[r].seen} \cup runs[r].events)
       IN  \E allowed \in BOOLEAN :
             scan' = [scan EXCEPT !.read = r + 1,
                         !.stuck = IF allowed /\ scan.listed[r].status \in Active
                                   THEN @ \cup {[run |-> r, last |-> last]} ELSE @]
    /\ UNCHANGED <<clock, runs, file>>

\* Events of a session that the record did not have when it was listed end the scan.
Mismatch ==
    /\ scan.read \in Run /\ runs[scan.read].events # {}
    /\ scan' = NoScan
    /\ UNCHANGED <<clock, runs, file>>

Progress == [r \in Run |-> scan.listed[r].status]
Since == IF file.progress = Progress THEN file.changed ELSE Now

Write ==
    /\ scan.read = Runs + 1
    /\ file' = [at |-> Now, progress |-> Progress, changed |-> Since,
                stuck |-> {s.run : s \in {x \in scan.stuck : x.last + StuckAfter <= Now}},
                twice |-> Cardinality(scan.stuck) > 1,
                stagnant |-> Since + Stagnation <= Now]
    /\ scan' = NoScan
    /\ UNCHANGED <<clock, runs>>

WatchdogNext ==
    \/ Tick \/ ListNext \/ TakeTime \/ ReadEvents \/ Mismatch \/ Write
    \/ \E r \in Run : Claims(r) \/ Starts(r) \/ Works(r) \/ Ends(r)

WatchdogSpec == WatchdogInit /\ [][WatchdogNext]_watchdogVars
-----------------------------------------------------------------------------
\* Shapes; the file is not newer than the clock.
WatchdogTypeOK ==
    /\ clock \in 0 .. MaxTime /\ file.at \in 0 .. clock /\ file.changed \in 0 .. file.at
    /\ \A r \in Run : runs[r].status \in Active \cup {"queued", "ended"}
    /\ \A r \in Run : runs[r].seen \in 0 .. clock /\ runs[r].events \subseteq 0 .. clock
    /\ scan.read \in 0 .. Runs + 1 /\ Len(scan.listed) \in 0 .. Runs

\* supervisor_watchdog.py:167: an execution that is called stuck had no event of progress in
\* its log for stuck_seconds before the time of the signal, whatever is logged while it is
\* being scanned.  It speaks of the log only: a claim is no progress (line 164 falls back to
\* created_at, so an execution that was queued for long is called stuck right after its
\* claim), and a time written into the record after it was listed is not seen.
NoFalseAlarm ==
    \A r \in file.stuck : \A t \in runs[r].events : t < file.at => t + StuckAfter <= file.at
=============================================================================
