----------------------------- MODULE WorkerPort -----------------------------
(***************************************************************************)
(* RuntimeWorkerPort (orchestration/workers.py) of one controller process: *)
(* the calls of its supervisor, which come one at a time, the thread that  *)
(* each dispatch starts, the stdio transport with the process tree of the  *)
(* attempt (agent_runtime/stdio.py), and the ledger in a store of its own. *)
(*                                                                         *)
(* Other controllers appear as what they do to the epoch and the ledger.   *)
(* The locks that one thread may hold while it waits for another one are   *)
(* state: publication_guard, and the guard that launch_guard keeps with    *)
(* the ledger and the epoch locked while the process is created.           *)
(***************************************************************************)
EXTENDS Naturals

CONSTANTS
    Attempt,     \* attempts that may ever be dispatched, all in one worktree
    Writer,      \* those with task.write_required
    Nobody,      \* no holder of the launch guard, no attempt and no controller
    MaxEpoch     \* bound: epochs that are ever acquired

ASSUME AttemptsAssumption == Writer \subseteq Attempt /\ Nobody \notin Attempt \cup {"port"}
ASSUME EpochAssumption == MaxEpoch \in Nat \ {0}

VARIABLES
    epoch,     \* the epoch of the control store
    fence,     \* the epoch in whose name the caller acts
    highest,   \* highest_fence of the ledger
    ledger,    \* ledger[a]: observation and fence of attempt a
    active,    \* active[a]: the _ActiveAttempt of a, as far as the process has one
    thread,    \* thread[a]: where _execute of a is, and the observation it carries
    tree,      \* tree[a]: the process tree of a
    guard,     \* the attempt whose thread is inside launch_guard
    pub,       \* pub[a]: who holds publication_guard of a
    call,      \* what the caller is doing
    told       \* the answer to the last call, until the next one

authority == <<epoch, fence, highest>>
vars == <<authority, ledger, active, thread, tree, guard, pub, call, told>>

Terminal == {"candidate", "blocked", "failed", "cancelled"}
States == Terminal \cup {"running", "unknown"}

\* transport: absent, open (not started), starting, running, closed (cleanup
\* failed) or clean (cleanup_complete).
Inactive == [handle |-> FALSE, transport |-> "absent", cancelled |-> FALSE,
             unconfirmed |-> FALSE, cleanup |-> FALSE, pending |-> "none", failed |-> FALSE]

Quiet == [pc |-> "idle", attempt |-> Nobody, captured |-> FALSE, result |-> "none"]

Untold == [attempt |-> Nobody, state |-> "none"]

Init ==
    /\ epoch = 1 /\ fence = 1 /\ highest = 0
    /\ ledger = [a \in Attempt |-> [state |-> "none", fence |-> 0]]
    /\ active = [a \in Attempt |-> Inactive]
    /\ thread = [a \in Attempt |-> [pc |-> "none", obs |-> "none"]]
    /\ tree = [a \in Attempt |-> "none"]
    /\ guard = Nobody
    /\ pub = [a \in Attempt |-> "free"]
    /\ call = Quiet
    /\ told = Untold

Step(a, pc) == thread' = [thread EXCEPT ![a].pc = pc]

\* An exception in _execute, or the end of the runtime: the result is obs, and
\* the finally block closes what was started.
Finally(a, obs) == thread' = [thread EXCEPT ![a] = [pc |-> "close", obs |-> obs]]
-----------------------------------------------------------------------------
(* Publication: choose under publication_guard, then save in the ledger.    *)

\* Mutant of CancelledResult: the mark of the cancellation counts as its proof.
CancelledAnyway(cleanup) == "cancelled"

\* _cancelled_result: only a confirmed cleanup makes it a cancellation.
CancelledResult(cleanup) == IF cleanup THEN "cancelled" ELSE "unknown"

\* _publish applies the cancellation again, at the last moment.
Chosen(at, obs) == IF at.cancelled THEN CancelledResult(at.cleanup) ELSE obs

\* The record after _publish has chosen, and after _save has worked or failed.
Choose(at, obs) == [at EXCEPT !.unconfirmed = TRUE, !.pending = Chosen(at, obs)]

Saved(at) == [at EXCEPT !.pending = "none", !.failed = FALSE, !.unconfirmed = FALSE]

\* Mutant of NotSaved: a result that could not be saved is dropped.
NotSavedDropped(at) == [at EXCEPT !.failed = TRUE, !.pending = "none"]

NotSaved(at) == [at EXCEPT !.failed = TRUE]

\* _save of the pending result, by whoever holds publication_guard.
Save(a) ==
    \/ /\ ledger' = [ledger EXCEPT ![a].state = active[a].pending]
       /\ active' = [active EXCEPT ![a] = Saved(@)]
    \/ /\ active' = [active EXCEPT ![a] = NotSaved(@)]
       /\ UNCHANGED ledger

\* Mutant of Observation: the ledger is trusted while a cancellation is on.
ObservationOfLedger(a) ==
    IF ~active[a].handle /\ ledger[a].state \notin Terminal THEN "unknown" ELSE ledger[a].state

\* _observation: what a caller is told of a.
Observation(a) ==
    LET at == active[a]
        state == ledger[a].state
    IN  IF at.handle
        THEN IF at.failed \/ at.unconfirmed \/ (at.cancelled /\ state # "cancelled")
             THEN "unknown" ELSE state
        ELSE IF state \in Terminal THEN state ELSE "unknown"
-----------------------------------------------------------------------------
(* The calls.                                                               *)

\* Mutant of Busy: an attempt that is final in the ledger is out of the way.
BusyInLedger(b) ==
    \E a \in Attempt \ {b} :
        /\ ledger[a].state \in {"running", "unknown"}
        /\ ledger[a].state = "unknown" \/ ~active[a].handle \/ {a, b} \cap Writer # {}

\* register: another attempt of the ledger still holds the worktree.
Busy(b) ==
    \E a \in Attempt \ {b} :
        LET unfinished == ledger[a].state \notin Terminal
            unconfirmed == active[a].handle /\ active[a].unconfirmed
        IN  /\ ledger[a].state # "none"
            /\ unfinished \/ unconfirmed
            /\ \/ ledger[a].state = "unknown" \/ unconfirmed
               \/ unfinished /\ ~active[a].handle
               \/ {a, b} \cap Writer # {}

\* dispatch registers a and starts its thread, which may fail at once.
Dispatch(a) ==
    /\ call = Quiet /\ guard = Nobody
    /\ ledger[a].state = "none"
    /\ fence >= highest /\ ~Busy(a)
    /\ highest' = fence
    /\ ledger' = [ledger EXCEPT ![a] = [state |-> "running", fence |-> fence]]
    /\ \E started \in BOOLEAN :
          /\ active' = [active EXCEPT ![a] = [Inactive EXCEPT !.handle = TRUE, !.cleanup = ~started]]
          /\ thread' = [thread EXCEPT ![a] = IF started THEN [pc |-> "begin", obs |-> "none"]
                                             ELSE [pc |-> "publish", obs |-> "failed"]]
          /\ call' = [Quiet EXCEPT !.pc = "observe", !.attempt = a,
                                   !.result = IF started THEN "none" ELSE "launch"]
    /\ told' = Untold
    /\ UNCHANGED <<epoch, fence, tree, guard, pub>>

\* poll and reconcile take the ledger to the epoch of the caller, or raise.
Poll(a) ==
    /\ call = Quiet /\ guard = Nobody
    /\ ledger[a].state # "none"
    /\ \/ /\ fence >= highest
          /\ highest' = fence
          /\ call' = [Quiet EXCEPT !.pc = "collect", !.attempt = a]
          /\ told' = Untold
       \/ /\ fence < highest
          /\ told' = [attempt |-> a, state |-> "unknown"]
          /\ UNCHANGED <<highest, call>>
    /\ UNCHANGED <<epoch, fence, ledger, active, thread, tree, guard, pub>>

\* A result that could not be saved is published again before it is reported.
Collect ==
    LET a == call.attempt
    IN  /\ call.pc = "collect"
        /\ active[a].handle => pub[a] = "free"
        /\ IF active[a].pending = "none"
           THEN /\ told' = [attempt |-> a, state |-> Observation(a)]
                /\ call' = Quiet
                /\ UNCHANGED <<active, pub>>
           ELSE /\ pub' = [pub EXCEPT ![a] = "caller"]
                /\ active' = [active EXCEPT ![a] = Choose(@, @.pending)]
                /\ call' = [call EXCEPT !.pc = "save"]
                /\ UNCHANGED told
        /\ UNCHANGED <<authority, ledger, thread, tree, guard>>

\* The caller saves; publication_guard stays with it until it has its answer.
CallerSave ==
    LET a == call.attempt
    IN  /\ call.pc = "save" /\ guard = Nobody
        /\ Save(a)
        /\ call' = [call EXCEPT !.pc = "observe"]
        /\ UNCHANGED <<authority, thread, tree, guard, pub, told>>

\* The answer; a call that raises tells its caller nothing for certain.
Observe ==
    LET a == call.attempt
    IN  /\ call.pc = "observe"
        /\ active[a].handle => pub[a] \in {"free", "caller"}
        /\ call.result = "launch" => thread[a].pc = "done"
        /\ told' = [attempt |-> a,
                     state |-> IF call.result = "none" THEN Observation(a) ELSE "unknown"]
        /\ pub' = [pub EXCEPT ![a] = IF @ = "caller" THEN "free" ELSE @]
        /\ call' = Quiet
        /\ UNCHANGED <<authority, ledger, active, thread, tree, guard>>

\* The mark of a cancellation, which is put on a result at hand as well.
Revoked(at) ==
    [at EXCEPT !.cancelled = TRUE, !.unconfirmed = TRUE,
               !.pending = IF at.pending = "none" THEN "none" ELSE CancelledResult(at.cleanup)]

\* cancel without a handle only reads; with one it revokes at once.
Cancel(a) ==
    /\ call = Quiet
    /\ ledger[a].state # "none"
    /\ IF active[a].handle
       THEN /\ pub[a] = "free"
            /\ active' = [active EXCEPT ![a] = Revoked(@)]
            /\ call' = [Quiet EXCEPT !.pc = "shut", !.attempt = a]
       ELSE /\ call' = [Quiet EXCEPT !.pc = "observe", !.attempt = a]
            /\ UNCHANGED active
    /\ told' = Untold
    /\ UNCHANGED <<authority, ledger, thread, tree, guard, pub>>

\* Mutant of Killed: a tree is not killed while any launch goes on.
KilledBetweenLaunches(a) ==
    /\ guard = Nobody /\ active[a].transport # "starting"
    /\ active' = [active EXCEPT ![a].transport = "clean"]
    /\ tree' = [tree EXCEPT ![a] = IF @ \in {"suspended", "live"} THEN "gone" ELSE @]

\* transport.close kills the tree and waits for it, or raises.  It waits for a
\* process that is just being created.
Killed(a) ==
    /\ active[a].transport # "starting"
    /\ active' = [active EXCEPT ![a].transport = "clean"]
    /\ tree' = [tree EXCEPT ![a] = IF @ \in {"suspended", "live"} THEN "gone" ELSE @]

NotKilled(a) ==
    /\ active[a].transport \notin {"starting", "clean", "absent"}
    /\ tree[a] # "none"
    /\ active' = [active EXCEPT ![a].transport = "closed"]
    /\ \E left \in {tree[a], "gone"} : tree' = [tree EXCEPT ![a] = left]

\* The transport, if there was one when the call looked, is closed.
Shut ==
    LET a == call.attempt
    IN  /\ call.pc = "shut"
        /\ \/ /\ active[a].transport = "absent"
              /\ call' = [call EXCEPT !.pc = "settle"]
              /\ UNCHANGED <<active, tree>>
           \/ /\ active[a].transport # "absent"
              /\ Killed(a)
              /\ call' = [call EXCEPT !.pc = "settle", !.captured = TRUE]
           \/ /\ NotKilled(a)
              /\ call' = [call EXCEPT !.pc = "settle", !.captured = TRUE, !.result = "unknown"]
        /\ UNCHANGED <<authority, ledger, thread, guard, pub, told>>

\* After finished.wait, which may give up, the outcome is published; a transport
\* that is clean confirms the cleanup.
Settle ==
    LET a == call.attempt
        confirmed == call.captured /\ call.result = "none" /\ active[a].transport = "clean"
        at == [active[a] EXCEPT !.cleanup = @ \/ confirmed]
        obs == IF call.result # "none" THEN call.result
               ELSE IF at.pending # "none" THEN at.pending ELSE ledger[a].state
    IN  /\ call.pc = "settle" /\ pub[a] = "free"
        /\ pub' = [pub EXCEPT ![a] = "caller"]
        /\ active' = [active EXCEPT ![a] = Choose(at, obs)]
        /\ call' = [call EXCEPT !.pc = "save"]
        /\ UNCHANGED <<authority, ledger, thread, tree, guard, told>>
-----------------------------------------------------------------------------
(* _execute.                                                                *)

\* The runtime is made; its client gets the only transport of the attempt.
Begin(a) ==
    /\ thread[a].pc = "begin"
    /\ \/ ~active[a].cancelled /\ Step(a, "connect")
       \/ Finally(a, "failed")
    /\ UNCHANGED <<authority, ledger, active, tree, guard, pub, call, told>>

Connect(a) ==
    /\ thread[a].pc = "connect"
    /\ active' = [active EXCEPT ![a].transport = "open"]
    /\ Step(a, "authorize")
    /\ UNCHANGED <<authority, ledger, tree, guard, pub, call, told>>

\* Mutant of Authorized: only the first look is taken.
AuthorizedOnce(a) ==
    thread[a].pc = "authorize" =>
        /\ epoch = ledger[a].fence /\ highest = ledger[a].fence
        /\ ~active[a].cancelled

\* validate of launch_guard: the epoch, the ledger and the cancellation agree.
Authorized(a) ==
    /\ epoch = ledger[a].fence /\ highest = ledger[a].fence
    /\ ~active[a].cancelled

\* The guard, the ledger and the epoch are locked; each step may still refuse.
Authorize(a) ==
    /\ thread[a].pc = "authorize" /\ guard = Nobody
    /\ \/ Authorized(a) /\ guard' = a /\ Step(a, "spawn")
       \/ Finally(a, "failed") /\ UNCHANGED guard
    /\ UNCHANGED <<authority, ledger, active, tree, pub, call, told>>

\* Mutant of Leave: a launch that fails keeps the guard.
LeaveOnSuccess(a) == IF Authorized(a) THEN Nobody ELSE a

\* The end of launch_guard, however it ends.
Leave(a) == Nobody

\* Mutant of LocksForSpawn: the result of a launch is published inside the guard.
LocksOfPublication(a) == pub[a] = "free"

\* Inside launch_guard a thread waits for the lock of its transport only.
LocksForSpawn(a) == active[a].transport # "starting"

\* The process is created suspended, unless the transport was closed before.
Spawn(a) ==
    /\ thread[a].pc = "spawn" /\ LocksForSpawn(a)
    /\ \/ /\ active[a].transport = "open" /\ ~active[a].cancelled
          /\ active' = [active EXCEPT ![a].transport = "starting"]
          /\ tree' = [tree EXCEPT ![a] = "suspended"]
          /\ Step(a, "resume")
          /\ UNCHANGED guard
       \/ /\ Finally(a, "failed") /\ guard' = Leave(a)
          /\ UNCHANGED <<active, tree>>
    /\ UNCHANGED <<authority, ledger, pub, call, told>>

\* It is audited, put in its job, checked again and resumed, or killed; the
\* attempt to kill it may fail.
Resume(a) ==
    /\ thread[a].pc = "resume"
    /\ active' = [active EXCEPT ![a].transport = "running"]
    /\ guard' = Leave(a)
    /\ \/ /\ Authorized(a)
          /\ tree' = [tree EXCEPT ![a] = "live"]
          /\ Step(a, "announce")
       \/ /\ \E left \in {"suspended", "gone"} : tree' = [tree EXCEPT ![a] = left]
          /\ Finally(a, "failed")
    /\ UNCHANGED <<authority, ledger, pub, call, told>>

\* The handshake may fail; then running is published with the session, but
\* never over a cancellation.
Announce(a) ==
    /\ thread[a].pc = "announce"
    /\ \/ /\ pub[a] = "free" /\ ~active[a].cancelled
          /\ pub' = [pub EXCEPT ![a] = "worker"]
          /\ Step(a, "announcing")
       \/ /\ Finally(a, "failed")
          /\ UNCHANGED pub
    /\ UNCHANGED <<authority, ledger, active, tree, guard, call, told>>

Announced(a) ==
    /\ thread[a].pc = "announcing" /\ guard = Nobody
    /\ \/ ledger' = [ledger EXCEPT ![a].state = "running"] /\ Step(a, "wait")
       \/ Finally(a, "failed") /\ UNCHANGED ledger
    /\ pub' = [pub EXCEPT ![a] = "free"]
    /\ UNCHANGED <<authority, active, tree, guard, call, told>>

\* runtime.wait: the turn ends, fails or times out.
Wait(a) ==
    /\ thread[a].pc = "wait"
    /\ \E obs \in {"blocked", "failed"} : Finally(a, obs)
    /\ UNCHANGED <<authority, ledger, active, tree, guard, pub, call, told>>

Unconfirmed(a) == thread' = [thread EXCEPT ![a] = [pc |-> "publish", obs |-> "unknown"]]

\* The runtime and the transport are closed; if either raises nothing is confirmed.
Close(a) ==
    /\ thread[a].pc = "close"
    /\ \/ /\ active[a].transport = "absent"
          /\ Step(a, "confirm")
          /\ UNCHANGED <<active, tree>>
       \/ /\ active[a].transport # "absent" /\ Killed(a)
          /\ Step(a, "confirm") \/ Unconfirmed(a)
       \/ NotKilled(a) /\ Unconfirmed(a)
    /\ UNCHANGED <<authority, ledger, guard, pub, call, told>>

Confirm(a) ==
    /\ thread[a].pc = "confirm" /\ pub[a] = "free"
    /\ active' = [active EXCEPT ![a].cleanup = TRUE]
    /\ Step(a, IF thread[a].obs = "blocked" /\ ~active[a].cancelled THEN "read" ELSE "publish")
    /\ UNCHANGED <<authority, ledger, tree, guard, pub, call, told>>

\* candidate_reader: there may be none, and it may fail.
Read(a) ==
    /\ thread[a].pc = "read"
    /\ \E obs \in {"candidate", "blocked", "unknown"} :
          thread' = [thread EXCEPT ![a] = [pc |-> "publish", obs |-> obs]]
    /\ UNCHANGED <<authority, ledger, active, tree, guard, pub, call, told>>

Publish(a) ==
    /\ thread[a].pc = "publish" /\ pub[a] = "free"
    /\ pub' = [pub EXCEPT ![a] = "worker"]
    /\ active' = [active EXCEPT ![a] = Choose(@, thread[a].obs)]
    /\ Step(a, "save")
    /\ UNCHANGED <<authority, ledger, tree, guard, call, told>>

WorkerSave(a) ==
    /\ thread[a].pc = "save" /\ guard = Nobody
    /\ Save(a)
    /\ pub' = [pub EXCEPT ![a] = "free"]
    /\ thread' = [thread EXCEPT ![a] = [pc |-> "done", obs |-> "none"]]
    /\ UNCHANGED <<authority, tree, guard, call, told>>
-----------------------------------------------------------------------------
(* The rest of the world.                                                   *)

\* The lease goes to this controller or to another one, but not while a launch
\* has it locked.
Takeover ==
    /\ guard = Nobody /\ epoch < MaxEpoch
    /\ epoch' = epoch + 1
    /\ fence' \in {fence, epoch'}
    /\ UNCHANGED <<highest, ledger, active, thread, tree, guard, pub, call, told>>

\* The other controller polls or dispatches something of its own.
ForeignCall ==
    /\ guard = Nobody
    /\ fence # epoch /\ highest < epoch
    /\ highest' = epoch
    /\ UNCHANGED <<epoch, fence, ledger, active, thread, tree, guard, pub, call, told>>

\* The process dies with its threads and handles; process trees may survive,
\* at worst for good.
Crash ==
    /\ \E a \in Attempt : active[a].handle
    /\ active' = [a \in Attempt |-> Inactive]
    /\ thread' = [a \in Attempt |-> [pc |-> "none", obs |-> "none"]]
    /\ guard' = Nobody
    /\ pub' = [a \in Attempt |-> "free"]
    /\ call' = Quiet
    /\ told' = Untold
    /\ \E survivors \in SUBSET {a \in Attempt : tree[a] \in {"suspended", "live"}} :
          tree' = [a \in Attempt |-> IF a \in survivors \/ tree[a] = "none" THEN tree[a] ELSE "gone"]
    /\ UNCHANGED <<authority, ledger>>

ThreadStep(a) ==
    \/ Begin(a) \/ Connect(a) \/ Authorize(a) \/ Spawn(a) \/ Resume(a)
    \/ Announce(a) \/ Announced(a) \/ Wait(a)
    \/ Close(a) \/ Confirm(a) \/ Read(a) \/ Publish(a) \/ WorkerSave(a)

CallStep == Collect \/ CallerSave \/ Observe \/ Shut \/ Settle

Next ==
    \/ \E a \in Attempt : Dispatch(a) \/ Poll(a) \/ Cancel(a) \/ ThreadStep(a)
    \/ CallStep
    \/ Takeover \/ ForeignCall \/ Crash

PortSpec == Init /\ [][Next]_vars
-----------------------------------------------------------------------------
\* Shapes, and who holds which lock: a lock is held only by a thread or call
\* that is where it will give it back.
TypeOK ==
    /\ epoch \in 1 .. MaxEpoch /\ fence \in 1 .. MaxEpoch /\ highest \in 0 .. MaxEpoch
    /\ ledger \in [Attempt -> [state : States \cup {"none"}, fence : 0 .. MaxEpoch]]
    /\ active \in [Attempt ->
          [handle : BOOLEAN, transport : {"absent", "open", "starting", "running", "closed", "clean"},
           cancelled : BOOLEAN, unconfirmed : BOOLEAN, cleanup : BOOLEAN,
           pending : States \cup {"none"}, failed : BOOLEAN]]
    /\ thread \in [Attempt ->
          [pc : {"none", "begin", "connect", "authorize", "spawn", "resume",
                 "announce", "announcing", "wait", "close", "confirm", "read", "publish",
                 "save", "done"},
           obs : States \cup {"none"}]]
    /\ tree \in [Attempt -> {"none", "suspended", "live", "gone"}]
    /\ guard \in Attempt \cup {Nobody}
    /\ pub \in [Attempt -> {"free", "caller", "worker"}]
    /\ call \in [pc : {"idle", "observe", "collect", "save", "shut", "settle"},
                 attempt : Attempt \cup {Nobody}, captured : BOOLEAN,
                 result : {"none", "unknown", "launch"}]
    /\ \A a \in Attempt :
          /\ guard = a <=> thread[a].pc \in {"spawn", "resume"}
          /\ pub[a] = "worker" <=> thread[a].pc \in {"announcing", "save"}
          /\ pub[a] = "caller" => call.attempt = a /\ call.pc \in {"save", "observe"}
    /\ told \in {Untold} \cup [attempt : Attempt, state : States]

Present(a) == tree[a] \in {"suspended", "live"}

\* A final result, in the ledger or in the hands of the caller, means that the
\* process tree is gone: no cancellation, failed close, late start or crash of
\* the controller leaves a process behind an attempt that counts as ended.
FinalMeansGone ==
    \A a \in Attempt :
        ledger[a].state \in Terminal \/ (told.attempt = a /\ told.state \in Terminal) => ~Present(a)

\* A save that fails, and a cancellation that is not confirmed, keep the result
\* and the worktree: nothing else may be dispatched there.
UnsavedKept ==
    \A a \in Attempt :
        active[a].failed => /\ active[a].pending # "none" /\ Observation(a) = "unknown"
                            /\ \A b \in Attempt \ {a} : Busy(b)

\* Both: how an attempt ended is known when it is said, and is not said before.
EndsKnown == FinalMeansGone /\ UnsavedKept

\* A dispatch finds the worktree left alone: no attempt there whose result is
\* unconfirmed, in the ledger or in this process, though final in the ledger.
DispatchedApart ==
    [][\A a, b \in Attempt :
          /\ a # b /\ ledger[a].state = "none" /\ ledger'[a].state = "running"
          /\ active[b].handle /\ active[b].cancelled
          => ledger[b].state = "cancelled" /\ ~Present(b)]_vars

\* A process is resumed only while its attempt is not cancelled and its epoch
\* is the latest one, in the control store and in the ledger.
ResumedInTime ==
    [][\A a \in Attempt :
          tree[a] # "live" /\ tree'[a] = "live" =>
              /\ ~active[a].cancelled
              /\ ledger[a].fence = epoch /\ ledger[a].fence = highest]_vars

\* Once an attempt is cancelled its caller is never told of another result, be
\* it saved before, at hand in the thread, or published later.
RevocationHolds ==
    [][\A a \in Attempt :
          active[a].cancelled /\ told # told' /\ told'.attempt = a =>
              told'.state \in {"unknown", "cancelled"}]_vars

\* Both: a cancellation or a takeover that comes before the start prevents it, one
\* that comes after it decides the result.
CancellationHolds == ResumedInTime /\ RevocationHolds

\* The thread of a has something to do and no lock to wait for: the guard with the
\* ledger and the epoch, publication_guard, or the lock of its transport.
Ready(a) ==
    /\ thread[a].pc \notin {"none", "done"}
    /\ thread[a].pc \in {"authorize", "announcing", "save"} => guard = Nobody
    /\ thread[a].pc \in {"confirm", "publish"} => pub[a] = "free"
    /\ thread[a].pc = "spawn" => LocksForSpawn(a)
    /\ thread[a].pc = "close" => active[a].transport # "starting"

\* The same of the caller, which may also wait for a thread it could not start.
CallReady ==
    LET a == call.attempt
    IN  /\ call.pc # "idle"
        /\ call.pc = "save" => guard = Nobody
        /\ call.pc = "collect" => (active[a].handle => pub[a] = "free")
        /\ call.pc = "settle" => pub[a] = "free"
        /\ call.pc = "observe" => /\ active[a].handle => pub[a] \in {"free", "caller"}
                                  /\ call.result = "launch" => thread[a].pc = "done"
        /\ call.pc = "shut" => active[a].transport # "starting"

\* That is all they wait for: whoever is ready can take a step, and nobody else.
ReadyMeansEnabled ==
    /\ \A a \in Attempt : Ready(a) <=> ENABLED ThreadStep(a)
    /\ CallReady <=> ENABLED CallStep

UnderWay == call.pc # "idle" \/ \E a \in Attempt : thread[a].pc \notin {"none", "done"}

\* The locks have an order.  Whoever has the guard of a launch, or the lock of a
\* transport, waits for nobody; whoever has a publication_guard waits for the
\* guard at most; and while a call or a thread is in the middle of something one
\* of them can go on: none of the five locks is waited for in a circle.
NoCircularWait ==
    /\ guard # Nobody => Ready(guard)
    /\ \A a \in Attempt :
          /\ active[a].transport = "starting" => Ready(a)
          /\ pub[a] = "worker" /\ guard = Nobody => Ready(a)
          /\ pub[a] = "caller" /\ guard = Nobody => CallReady
    /\ UnderWay => CallReady \/ \E a \in Attempt : Ready(a)
-----------------------------------------------------------------------------
(* What the port promises its callers is the worker ledger: its threads,    *)
(* locks and transports only take the steps of that ledger.                 *)

Tasks == [a \in Attempt |-> [root |-> "worktree", write |-> a \in Writer]]

Ledger == INSTANCE WorkerLedger WITH
    Controller <- {"port"},
    Root <- {"worktree"},
    None <- Nobody,
    task <- Tasks,
    fence <- [a \in Attempt |-> ledger[a].fence],
    result <- [a \in Attempt |-> ledger[a].state],
    home <- [a \in Attempt |-> IF active[a].handle THEN "port" ELSE Nobody],
    proc <- tree,
    revoked <- [a \in Attempt |-> active[a].cancelled],
    answer <- [c \in {"port"} |-> told]

\* The port implements WorkerLedger: an attempt is dispatched once, in a worktree
\* left alone, and started once, in its time; its end is recorded and told only
\* when it is one, and a cancellation decides it for good.
LedgerSpec == Ledger!Spec
=============================================================================
