-------------------------- MODULE WorkerPortProofs --------------------------
(***************************************************************************)
(* Proofs about WorkerPort, for any attempts, writers and epochs: how an   *)
(* attempt ended is known when it is said, a cancellation holds, the locks *)
(* have an order, and the port takes only the steps of WorkerLedger, whose *)
(* promises it therefore keeps.                                            *)
(*                                                                         *)
(* The heart of the first invariant, IInv, is that an attempt whose end is *)
(* recorded, waits to be recorded or is on its way there is over: its      *)
(* processes are gone and nothing can start one any more.  The second one, *)
(* JInv, adds what is due: what is recorded and told while something waits *)
(* to be saved, and where the threads and the call are when a lock or a    *)
(* transport waits for them.                                               *)
(***************************************************************************)
EXTENDS WorkerPort, TLAPS

Transports == {"absent", "open", "starting", "running", "closed", "clean"}

Actives ==
    [handle : BOOLEAN, transport : Transports,
     cancelled : BOOLEAN, unconfirmed : BOOLEAN, cleanup : BOOLEAN,
     pending : States \cup {"none"}, failed : BOOLEAN]

Places == {"none", "begin", "connect", "authorize", "spawn", "resume", "announce",
           "announcing", "wait", "close", "confirm", "read", "publish", "save", "done"}

Threads == [pc : Places, obs : States \cup {"none"}]

Calls == [pc : {"idle", "observe", "collect", "save", "shut", "settle"},
          attempt : Attempt \cup {Nobody}, captured : BOOLEAN,
          result : {"none", "unknown", "launch"}]
-----------------------------------------------------------------------------
(* The inductive invariant.                                                 *)

Types ==
    /\ epoch \in 1 .. MaxEpoch /\ fence \in 1 .. MaxEpoch /\ highest \in 0 .. MaxEpoch
    /\ ledger \in [Attempt -> [state : States \cup {"none"}, fence : 0 .. MaxEpoch]]
    /\ active \in [Attempt -> Actives]
    /\ thread \in [Attempt -> Threads]
    /\ tree \in [Attempt -> {"none", "suspended", "live", "gone"}]
    /\ guard \in Attempt \cup {Nobody}
    /\ pub \in [Attempt -> {"free", "caller", "worker"}]
    /\ call \in Calls
    /\ told \in {Untold} \cup [attempt : Attempt, state : States]

Locks ==
    \A a \in Attempt :
        /\ guard = a <=> thread[a].pc \in {"spawn", "resume"}
        /\ pub[a] = "worker" <=> thread[a].pc \in {"announcing", "save"}
        /\ pub[a] = "caller" => call.attempt = a /\ call.pc \in {"save", "observe"}

\* The process tree is gone, and nothing can start one any more.
Over(a) ==
    /\ ~Present(a)
    /\ \/ active[a].transport = "clean"
       \/ active[a].transport = "absent" /\ thread[a].pc \notin {"begin", "connect"}

\* What is said of an attempt, in the ledger, by its thread, or for a later save.
Says(a, state) ==
    \/ ledger[a].state = state
    \/ active[a].pending = state
    \/ thread[a].pc = "publish" /\ thread[a].obs = state

\* A transport is what the thread has made of it, up to a close.
TransportKnown(a) ==
    /\ ~active[a].handle => active[a] = Inactive /\ thread[a].pc = "none"
    /\ ledger[a].state = "none" => ~active[a].handle /\ tree[a] = "none"
    /\ thread[a].pc \in {"begin", "connect"} => active[a].transport = "absent"
    /\ thread[a].pc = "resume" => active[a].transport = "starting"
    /\ active[a].handle /\ active[a].transport = "absent" => ~Present(a)
    /\ active[a].transport = "clean" => ~Present(a)

\* Whatever counts as the end of an attempt comes after the end of its processes.
EndKnown(a) ==
    /\ active[a].cleanup \/ thread[a].pc \in {"confirm", "read"} => Over(a)
    /\ \A state \in Terminal : Says(a, state) => Over(a)

\* The result that waits to be saved, and what a cancellation leaves of it.
ResultKept(a) ==
    /\ thread[a].pc \in {"close", "confirm", "read", "publish"} => thread[a].obs # "none"
    /\ active[a].failed \/ thread[a].pc = "save" =>
          active[a].unconfirmed /\ active[a].pending # "none"
    /\ active[a].cancelled =>
          /\ active[a].pending \in {"none", "unknown", "cancelled"}
          /\ active[a].unconfirmed \/ ledger[a].state \in {"unknown", "cancelled"}
          /\ thread[a].pc # "announcing"

\* What a call knows of its attempt.
CallKnown ==
    LET a == call.attempt
    IN  /\ call.pc = "idle" => call = Quiet
        /\ call.pc # "idle" => a \in Attempt /\ ledger[a].state # "none"
        /\ call.pc \in {"save", "shut", "settle"} => active[a].handle /\ call.result # "launch"
        /\ call.pc = "collect" => call.result # "launch"
        /\ call.pc = "save" =>
              pub[a] = "caller" /\ active[a].unconfirmed /\ active[a].pending # "none"

ToldTrue == told.state \in Terminal => Over(told.attempt)

Known(a) == TransportKnown(a) /\ EndKnown(a) /\ ResultKept(a)

IInv == Types /\ Locks /\ (\A a \in Attempt : Known(a)) /\ CallKnown /\ ToldTrue
-----------------------------------------------------------------------------
(* Records of an attempt.                                                   *)

LEMMA Rest == Inactive \in Actives /\ Quiet \in Calls
  BY DEF Inactive, Actives, Transports, Quiet, Calls, States, Terminal

LEMMA ChosenFields ==
    ASSUME NEW at \in Actives, NEW obs \in States
    PROVE  /\ Choose(at, obs) \in Actives
           /\ Choose(at, obs) = [at EXCEPT !.unconfirmed = TRUE, !.pending = Chosen(at, obs)]
           /\ Choose(at, obs).handle = at.handle
           /\ Choose(at, obs).transport = at.transport
           /\ Choose(at, obs).cancelled = at.cancelled
           /\ Choose(at, obs).cleanup = at.cleanup
           /\ Choose(at, obs).failed = at.failed
           /\ Choose(at, obs).unconfirmed
           /\ Choose(at, obs).pending = Chosen(at, obs)
           /\ Chosen(at, obs) \in States
<1>1. Chosen(at, obs) \in States
  BY DEF Chosen, CancelledResult, States, Terminal
<1> QED BY <1>1 DEF Choose, Actives

LEMMA SavedFields ==
    ASSUME NEW at \in Actives
    PROVE  /\ Saved(at) \in Actives
           /\ Saved(at).handle = at.handle
           /\ Saved(at).transport = at.transport
           /\ Saved(at).cancelled = at.cancelled
           /\ Saved(at).cleanup = at.cleanup
           /\ ~Saved(at).failed /\ ~Saved(at).unconfirmed /\ Saved(at).pending = "none"
           /\ NotSaved(at) \in Actives
           /\ NotSaved(at).handle = at.handle
           /\ NotSaved(at).transport = at.transport
           /\ NotSaved(at).cancelled = at.cancelled
           /\ NotSaved(at).cleanup = at.cleanup
           /\ NotSaved(at).unconfirmed = at.unconfirmed
           /\ NotSaved(at).pending = at.pending
           /\ NotSaved(at).failed
  BY DEF Saved, NotSaved, Actives

LEMMA RevokedFields ==
    ASSUME NEW at \in Actives
    PROVE  /\ Revoked(at) \in Actives
           /\ Revoked(at).handle = at.handle
           /\ Revoked(at).transport = at.transport
           /\ Revoked(at).cleanup = at.cleanup
           /\ Revoked(at).failed = at.failed
           /\ Revoked(at).cancelled /\ Revoked(at).unconfirmed
           /\ Revoked(at).pending = IF at.pending = "none" THEN "none"
                                   ELSE CancelledResult(at.cleanup)
<1>1. CancelledResult(at.cleanup) \in States
  BY DEF CancelledResult, States, Terminal
<1> QED BY <1>1 DEF Revoked, Actives
-----------------------------------------------------------------------------
(* Steps of one attempt.                                                    *)

\* What is known of the other attempts does not depend on this one.
Elsewhere(a) ==
    \A b \in Attempt \ {a} :
        /\ ledger'[b] = ledger[b] /\ active'[b] = active[b] /\ thread'[b] = thread[b]
        /\ tree'[b] = tree[b] /\ pub'[b] = pub[b]

LEMMA OthersKnown ==
    ASSUME IInv, NEW a \in Attempt, Elsewhere(a), Known(a)'
    PROVE  \A b \in Attempt : Known(b)'
<1>1. ASSUME NEW b \in Attempt, b # a PROVE Known(b)'
  BY <1>1 DEF IInv, Elsewhere, Known, TransportKnown, EndKnown, ResultKept, Says, Over, Present
<1> QED BY <1>1

\* What was told stays true as long as no process comes back.
LEMMA ToldKept ==
    ASSUME IInv, NEW a \in Attempt, Elsewhere(a), Over(a) => Over(a)', told' = told
    PROVE  ToldTrue'
<1>1. CASE told.state \notin Terminal
  BY <1>1 DEF ToldTrue
<1>2. CASE told.state \in Terminal
  <2>1. told.attempt \in Attempt /\ Over(told.attempt)
    BY <1>2 DEF IInv, Types, ToldTrue, Untold, Terminal
  <2>2. Over(told.attempt)'
    BY <2>1 DEF Elsewhere, Over, Present
  <2> QED BY <2>2 DEF ToldTrue
<1> QED BY <1>1, <1>2

\* A thread that leaves the calls, and what they rely on, as they were.
LEMMA ThreadKeeps ==
    ASSUME IInv, NEW a \in Attempt, Elsewhere(a), UNCHANGED <<call, told>>,
           Types', Locks', Known(a)',
           Over(a) => Over(a)',
           ledger'[a].state # "none", active'[a].handle,
           pub[a] = "caller" =>
              /\ pub'[a] = "caller" /\ active'[a].pending = active[a].pending
              /\ active'[a].unconfirmed = active[a].unconfirmed
    PROVE  IInv'
<1>1. CallKnown'
  BY DEF IInv, CallKnown, Elsewhere
<1>2. ToldTrue'
  BY ToldKept
<1> QED BY <1>1, <1>2, OthersKnown DEF IInv
-----------------------------------------------------------------------------
(* What a thread changes: where it is, and its transport.                   *)

Moves(a, pc, obs) ==
    /\ thread' \in [Attempt -> Threads]
    /\ thread'[a].pc = pc /\ thread'[a].obs = obs
    /\ \A b \in Attempt \ {a} : thread'[b] = thread[b]

Turns(a, transport) ==
    /\ active' \in [Attempt -> Actives]
    /\ active'[a].transport = transport
    /\ active'[a].handle = active[a].handle
    /\ active'[a].cancelled = active[a].cancelled
    /\ active'[a].unconfirmed = active[a].unconfirmed
    /\ active'[a].cleanup = active[a].cleanup
    /\ active'[a].pending = active[a].pending
    /\ active'[a].failed = active[a].failed
    /\ \A b \in Attempt \ {a} : active'[b] = active[b]

LEMMA StepMoves ==
    ASSUME Types, NEW a \in Attempt, NEW pc \in Places, Step(a, pc)
    PROVE  Moves(a, pc, thread[a].obs)
  BY DEF Types, Threads, Step, Moves

LEMMA ResultMoves ==
    ASSUME Types, NEW a \in Attempt, NEW pc \in Places, NEW obs \in States \cup {"none"},
           thread' = [thread EXCEPT ![a] = [pc |-> pc, obs |-> obs]]
    PROVE  Moves(a, pc, obs)
  BY DEF Types, Threads, Moves

LEMMA FinallyMoves ==
    ASSUME Types, NEW a \in Attempt, NEW obs \in States, Finally(a, obs)
    PROVE  Moves(a, "close", obs)
  BY ResultMoves DEF Finally, Places

LEMMA TransportTurns ==
    ASSUME Types, NEW a \in Attempt, NEW t \in Transports,
           active' = [active EXCEPT ![a].transport = t]
    PROVE  Turns(a, t)
  BY SMTT(20) DEF Types, Actives, Transports, Turns

\* An attempt whose thread is at work has its handle, and its ledger is not empty.
LEMMA AtWork ==
    ASSUME IInv, NEW a \in Attempt, thread[a].pc # "none"
    PROVE  active[a].handle /\ ledger[a].state # "none" /\ Types /\ Known(a)
  BY DEF IInv, Known, TransportKnown
-----------------------------------------------------------------------------
(* The thread, while it only goes on.                                       *)

LEMMA BeginStep == ASSUME IInv, NEW a \in Attempt, Begin(a) PROVE IInv'
<1>1. active[a].handle /\ ledger[a].state # "none" /\ Types /\ Known(a)
  BY AtWork DEF Begin
<1>2. Moves(a, "connect", thread[a].obs) \/ Moves(a, "close", "failed")
  BY <1>1, StepMoves, ResultMoves, FinallyMoves DEF Begin, Places, States, Terminal
<1>5. Types'
  BY <1>1, <1>2 DEF Types, authority, Begin, Moves
<1>6. Locks'
  BY <1>1, <1>2, AttemptsAssumption DEF IInv, Types, Locks, Begin, Moves
<1>7. Known(a)' /\ (Over(a) => Over(a)')
  BY <1>1, <1>2 DEF IInv, Types, Locks, Begin, Moves,
         Known, TransportKnown, EndKnown, ResultKept, Says, Over, Present, Terminal
<1>8. Elsewhere(a)
  BY <1>1, <1>2 DEF Types, Begin, Moves, Elsewhere
<1> QED BY <1>1, <1>2, <1>5, <1>6, <1>7, <1>8, ThreadKeeps DEF Begin

LEMMA ConnectStep == ASSUME IInv, NEW a \in Attempt, Connect(a) PROVE IInv'
<1>1. active[a].handle /\ ledger[a].state # "none" /\ Types /\ Known(a)
  BY AtWork DEF Connect
<1>2. Moves(a, "authorize", thread[a].obs)
  BY <1>1, StepMoves, ResultMoves, FinallyMoves DEF Connect, Places, States, Terminal
<1>3. Turns(a, "open")
  BY <1>1, TransportTurns DEF Connect, Transports
<1>5. Types'
  BY <1>1, <1>2, <1>3 DEF Types, authority, Connect, Moves, Turns
<1>6. Locks'
  BY <1>1, <1>2, <1>3, AttemptsAssumption DEF IInv, Types, Locks, Connect, Moves
<1>7. Known(a)' /\ ~Over(a)
  BY <1>1, <1>2, <1>3 DEF IInv, Types, Locks, Connect, Moves, Turns,
         Known, TransportKnown, EndKnown, ResultKept, Says, Over, Present, Terminal
<1>8. Elsewhere(a)
  BY <1>1, <1>2, <1>3 DEF Types, Connect, Moves, Turns, Elsewhere
<1> QED BY <1>1, <1>2, <1>3, <1>5, <1>6, <1>7, <1>8, ThreadKeeps DEF Connect, Turns

LEMMA AuthorizeStep == ASSUME IInv, NEW a \in Attempt, Authorize(a) PROVE IInv'
<1>1. active[a].handle /\ ledger[a].state # "none" /\ Types /\ Known(a)
  BY AtWork DEF Authorize
<1>2. \/ Moves(a, "spawn", thread[a].obs) /\ guard' = a
      \/ Moves(a, "close", "failed") /\ guard' = guard
  BY <1>1, StepMoves, ResultMoves, FinallyMoves DEF Authorize, Places, States, Terminal
<1>5. Types'
  BY <1>1, <1>2 DEF Types, authority, Authorize, Moves
<1>6. Locks'
  BY <1>1, <1>2, AttemptsAssumption DEF IInv, Types, Locks, Authorize, Moves
<1>7. Known(a)' /\ (Over(a) => Over(a)')
  BY <1>1, <1>2 DEF IInv, Types, Locks, Authorize, Moves,
         Known, TransportKnown, EndKnown, ResultKept, Says, Over, Present, Terminal
<1>8. Elsewhere(a)
  BY <1>1, <1>2 DEF Types, Authorize, Moves, Elsewhere
<1> QED BY <1>1, <1>2, <1>5, <1>6, <1>7, <1>8, ThreadKeeps DEF Authorize

LEMMA SpawnStep == ASSUME IInv, NEW a \in Attempt, Spawn(a) PROVE IInv'
<1>1. active[a].handle /\ ledger[a].state # "none" /\ Types /\ Known(a)
  BY AtWork DEF Spawn, Leave
<1>2. \/ /\ Moves(a, "resume", thread[a].obs) /\ guard' = guard
         /\ Turns(a, "starting") /\ active[a].transport = "open"
         /\ tree' = [tree EXCEPT ![a] = "suspended"]
      \/ Moves(a, "close", "failed") /\ guard' = Nobody /\ UNCHANGED <<active, tree>>
  <2>1. CASE Finally(a, "failed") /\ guard' = Leave(a) /\ UNCHANGED <<active, tree>>
    BY <1>1, <2>1, FinallyMoves DEF Leave, States, Terminal
  <2>2. CASE ~(Finally(a, "failed") /\ guard' = Leave(a) /\ UNCHANGED <<active, tree>>)
    BY <1>1, <2>2, StepMoves, TransportTurns DEF Spawn, Places, Transports
  <2> QED BY <2>1, <2>2
<1>5. Types'
  BY <1>1, <1>2 DEF Types, authority, Spawn, Leave, Moves, Turns
<1>6. Locks'
  BY <1>1, <1>2, AttemptsAssumption DEF IInv, Types, Locks, Spawn, Leave, Moves
<1>7. Known(a)' /\ (Over(a) => Over(a)')
  <2>1. CASE UNCHANGED <<active, tree>>
    <3>1. Moves(a, "close", "failed")
      BY <1>1, <1>2, <2>1 DEF Turns
    <3>2. thread[a].pc = "spawn" /\ UNCHANGED <<ledger, active, tree>>
      BY <2>1 DEF Spawn
    <3> QED BY <1>1, <3>1, <3>2 DEF Moves, Known, TransportKnown, EndKnown,
           ResultKept, Says, Over, Present, Terminal
  <2>2. CASE Turns(a, "starting") /\ active[a].transport = "open" /\ Moves(a, "resume", thread[a].obs)
    <3>1. ~Over(a) /\ ~Over(a)' /\ thread[a].pc = "spawn"
      BY <2>2 DEF Spawn, Over, Turns
    <3> QED BY <1>1, <2>2, <3>1 DEF IInv, Types, Spawn, Moves, Turns, Known, TransportKnown,
           EndKnown, ResultKept, Says, Terminal
  <2> QED BY <1>2, <2>1, <2>2
<1>8. Elsewhere(a)
  BY <1>1, <1>2 DEF Types, Spawn, Leave, Moves, Turns, Elsewhere
<1> QED BY <1>1, <1>2, <1>5, <1>6, <1>7, <1>8, ThreadKeeps DEF Spawn, Leave, Turns

LEMMA ResumeStep == ASSUME IInv, NEW a \in Attempt, Resume(a) PROVE IInv'
<1>1. active[a].handle /\ ledger[a].state # "none" /\ Types /\ Known(a)
  BY AtWork DEF Resume, Leave
<1>2. Moves(a, "announce", thread[a].obs) \/ Moves(a, "close", "failed")
  BY <1>1, StepMoves, ResultMoves, FinallyMoves DEF Resume, Leave, Places, States, Terminal
<1>3. Turns(a, "running")
  BY <1>1, TransportTurns DEF Resume, Leave, Transports
<1>5. Types'
  BY <1>1, <1>2, <1>3 DEF Types, authority, Resume, Leave, Moves, Turns
<1>6. Locks'
  BY <1>1, <1>2, <1>3, AttemptsAssumption DEF IInv, Types, Locks, Resume, Leave, Moves
<1>7. Known(a)' /\ ~Over(a)
  BY <1>1, <1>2, <1>3 DEF IInv, Types, Locks, Resume, Leave, Moves, Turns,
         Known, TransportKnown, EndKnown, ResultKept, Says, Over, Present, Terminal
<1>8. Elsewhere(a)
  BY <1>1, <1>2, <1>3 DEF Types, Resume, Leave, Moves, Turns, Elsewhere
<1> QED BY <1>1, <1>2, <1>3, <1>5, <1>6, <1>7, <1>8, ThreadKeeps DEF Resume, Leave, Turns

LEMMA AnnounceStep == ASSUME IInv, NEW a \in Attempt, Announce(a) PROVE IInv'
<1>1. active[a].handle /\ ledger[a].state # "none" /\ Types /\ Known(a)
  BY AtWork DEF Announce
<1>2. \/ Moves(a, "announcing", thread[a].obs) /\ pub[a] = "free" /\ ~active[a].cancelled
         /\ pub' = [pub EXCEPT ![a] = "worker"]
      \/ Moves(a, "close", "failed") /\ UNCHANGED pub
  BY <1>1, StepMoves, ResultMoves, FinallyMoves DEF Announce, Places, States, Terminal
<1>5. Types'
  BY <1>1, <1>2 DEF Types, authority, Announce, Moves
<1>6. Locks'
  BY <1>1, <1>2, AttemptsAssumption DEF IInv, Types, Locks, Announce, Moves
<1>7. Known(a)' /\ (Over(a) => Over(a)')
  BY <1>1, <1>2 DEF IInv, Types, Locks, Announce, Moves,
         Known, TransportKnown, EndKnown, ResultKept, Says, Over, Present, Terminal
<1>8. Elsewhere(a)
  BY <1>1, <1>2 DEF Types, Announce, Moves, Elsewhere
<1>9. pub[a] = "caller" => pub'[a] = "caller"
  BY <1>1, <1>2 DEF IInv, Locks, Announce
<1> QED BY <1>1, <1>2, <1>5, <1>6, <1>7, <1>8, <1>9, ThreadKeeps DEF Announce

LEMMA AnnouncedStep == ASSUME IInv, NEW a \in Attempt, Announced(a) PROVE IInv'
<1>1. active[a].handle /\ ledger[a].state # "none" /\ Types /\ Known(a)
  BY AtWork DEF Announced
<1>2. Moves(a, "wait", thread[a].obs) \/ Moves(a, "close", "failed")
  BY <1>1, StepMoves, ResultMoves, FinallyMoves DEF Announced, Places, States, Terminal
<1>4. /\ ledger' \in [Attempt -> [state : States \cup {"none"}, fence : 0 .. MaxEpoch]]
      /\ ledger'[a].state \in {ledger[a].state, "running"}
  BY <1>1 DEF Types, Announced, States
<1>5. Types'
  BY <1>1, <1>2, <1>4 DEF Types, authority, Announced, Moves
<1>6. Locks'
  BY <1>1, <1>2, <1>4, AttemptsAssumption DEF IInv, Types, Locks, Announced, Moves
<1>7. Known(a)' /\ (Over(a) => Over(a)')
  BY <1>1, <1>2, <1>4 DEF IInv, Types, Locks, Announced, Moves,
         Known, TransportKnown, EndKnown, ResultKept, Says, Over, Present, Terminal
<1>8. Elsewhere(a)
  BY <1>1, <1>2, <1>4 DEF Types, Announced, Moves, Elsewhere
<1>9. pub[a] # "caller"
  BY <1>1, <1>2, <1>4 DEF IInv, Locks, Announced
<1> QED BY <1>1, <1>2, <1>4, <1>5, <1>6, <1>7, <1>8, <1>9, ThreadKeeps DEF Announced

LEMMA WaitStep == ASSUME IInv, NEW a \in Attempt, Wait(a) PROVE IInv'
<1>1. active[a].handle /\ ledger[a].state # "none" /\ Types /\ Known(a)
  BY AtWork DEF Wait
<1>2. Moves(a, "close", "blocked") \/ Moves(a, "close", "failed")
  BY <1>1, StepMoves, ResultMoves, FinallyMoves DEF Wait, Places, States, Terminal
<1>5. Types'
  BY <1>1, <1>2 DEF Types, authority, Wait, Moves
<1>6. Locks'
  BY <1>1, <1>2, AttemptsAssumption DEF IInv, Types, Locks, Wait, Moves
<1>7. Known(a)' /\ (Over(a) => Over(a)')
  BY <1>1, <1>2 DEF IInv, Types, Locks, Wait, Moves,
         Known, TransportKnown, EndKnown, ResultKept, Says, Over, Present, Terminal
<1>8. Elsewhere(a)
  BY <1>1, <1>2 DEF Types, Wait, Moves, Elsewhere
<1> QED BY <1>1, <1>2, <1>5, <1>6, <1>7, <1>8, ThreadKeeps DEF Wait

LEMMA ReadStep == ASSUME IInv, NEW a \in Attempt, Read(a) PROVE IInv'
<1>1. active[a].handle /\ ledger[a].state # "none" /\ Types /\ Known(a)
  BY AtWork DEF Read
<1>2. PICK obs \in {"candidate", "blocked", "unknown"} : Moves(a, "publish", obs)
  BY <1>1, ResultMoves DEF Read, Places, States, Terminal
<1>5. Types'
  BY <1>1, <1>2 DEF Types, authority, Read, Moves
<1>6. Locks'
  BY <1>1, <1>2 DEF IInv, Types, Locks, Read, Moves
<1>7. Known(a)' /\ (Over(a) => Over(a)')
  BY <1>1, <1>2 DEF IInv, Types, Read, Moves, Known, TransportKnown, EndKnown, ResultKept,
         Says, Over, Present, Terminal
<1>8. Elsewhere(a)
  BY <1>1, <1>2 DEF Read, Moves, Elsewhere
<1> QED BY <1>1, <1>2, <1>5, <1>6, <1>7, <1>8, ThreadKeeps DEF Read
-----------------------------------------------------------------------------
(* The close of a transport.                                                *)

LEMMA KilledFacts ==
    ASSUME Types, NEW a \in Attempt, Killed(a)
    PROVE  /\ Turns(a, "clean") /\ active[a].transport # "starting"
           /\ tree' \in [Attempt -> {"none", "suspended", "live", "gone"}]
           /\ ~Present(a)' /\ \A b \in Attempt \ {a} : tree'[b] = tree[b]
           /\ tree[a] = "none" => tree'[a] = "none"
  BY TransportTurns DEF Types, Killed, Transports, Present

LEMMA NotKilledFacts ==
    ASSUME Types, NEW a \in Attempt, NotKilled(a)
    PROVE  /\ Turns(a, "closed") /\ active[a].transport \notin {"starting", "clean", "absent"}
           /\ tree' \in [Attempt -> {"none", "suspended", "live", "gone"}]
           /\ tree[a] # "none" /\ \A b \in Attempt \ {a} : tree'[b] = tree[b]
  BY TransportTurns, ZenonT(40) DEF Types, NotKilled, Transports

LEMMA CloseStep == ASSUME IInv, NEW a \in Attempt, Close(a) PROVE IInv'
<1>1. active[a].handle /\ ledger[a].state # "none" /\ Types /\ Known(a) /\ thread[a].obs # "none"
  BY AtWork DEF Close, Known, ResultKept
<1>2. Moves(a, "confirm", thread[a].obs) \/ Moves(a, "publish", "unknown")
  BY <1>1, StepMoves, ResultMoves DEF Close, Unconfirmed, Places, States
<1>3. \/ /\ active[a].transport = "absent" /\ UNCHANGED <<active, tree>>
         /\ Moves(a, "confirm", thread[a].obs)
      \/ active[a].transport # "absent" /\ Killed(a)
      \/ NotKilled(a) /\ Moves(a, "publish", "unknown")
  BY <1>1, StepMoves, ResultMoves DEF Close, Unconfirmed, Places, States
<1>4. Types' /\ Elsewhere(a)
  BY <1>1, <1>2, <1>3, KilledFacts, NotKilledFacts
  DEF Types, authority, Close, Moves, Turns, Elsewhere
<1>6. Locks'
  BY <1>1, <1>2 DEF IInv, Types, Locks, Close, Moves
<1>7. Known(a)' /\ (Over(a) => Over(a)')
  <2>1. CASE active[a].transport = "absent" /\ UNCHANGED <<active, tree>>
                /\ Moves(a, "confirm", thread[a].obs)
    BY <1>1, <2>1 DEF Close, Moves, Known, TransportKnown, EndKnown, ResultKept,
           Says, Over, Present, Terminal
  <2>2. CASE active[a].transport # "absent" /\ Killed(a)
    <3>1. Over(a)'
      BY <1>1, <2>2, KilledFacts DEF Turns, Over
    <3> QED BY <1>1, <1>2, <2>2, <3>1, KilledFacts DEF Close, Moves, Turns, Known, TransportKnown,
           EndKnown, ResultKept, Says
  <2>3. CASE NotKilled(a) /\ Moves(a, "publish", "unknown")
    <3>1. ~Over(a)
      BY <1>1, <2>3, NotKilledFacts DEF Over
    <3> QED BY <1>1, <2>3, <3>1, NotKilledFacts DEF Close, Moves, Turns, Known, TransportKnown,
           EndKnown, ResultKept, Says, Terminal
  <2> QED BY <1>3, <2>1, <2>2, <2>3
<1>8. active'[a].handle /\ active'[a].pending = active[a].pending
          /\ active'[a].unconfirmed = active[a].unconfirmed
  BY <1>1, <1>3, KilledFacts, NotKilledFacts DEF Turns
<1> QED BY <1>1, <1>4, <1>6, <1>7, <1>8, ThreadKeeps DEF Close

LEMMA ConfirmStep == ASSUME IInv, NEW a \in Attempt, Confirm(a) PROVE IInv'
<1>1. active[a].handle /\ ledger[a].state # "none" /\ Types /\ Known(a) /\ Over(a)
  BY AtWork DEF Confirm, Known, EndKnown
<1>2. Moves(a, "read", thread[a].obs) \/ Moves(a, "publish", thread[a].obs)
  BY <1>1, StepMoves DEF Confirm, Places
<1>3. /\ active' \in [Attempt -> Actives]
      /\ active'[a].transport = active[a].transport
      /\ active'[a].handle = active[a].handle
      /\ active'[a].cancelled = active[a].cancelled
      /\ active'[a].unconfirmed = active[a].unconfirmed
      /\ active'[a].pending = active[a].pending
      /\ active'[a].failed = active[a].failed
      /\ \A b \in Attempt \ {a} : active'[b] = active[b]
  BY <1>1, ZenonT(40) DEF Types, Actives, Confirm
<1>4. Types' /\ Elsewhere(a)
  BY <1>1, <1>2, <1>3 DEF Types, authority, Confirm, Moves, Elsewhere
<1>6. Locks'
  BY <1>1, <1>2 DEF IInv, Types, Locks, Confirm, Moves
<1>7. Over(a)'
  BY <1>1, <1>2, <1>3 DEF Confirm, Moves, Over, Present
<1>8. Known(a)'
  BY <1>1, <1>2, <1>3, <1>7 DEF Confirm, Moves, Known, TransportKnown, EndKnown, ResultKept,
         Says, Over, Present
<1> QED BY <1>1, <1>3, <1>4, <1>6, <1>7, <1>8, ThreadKeeps DEF Confirm
-----------------------------------------------------------------------------
(* Publication.                                                             *)

\* The choice for a, and its effect on what is known.
Chooses(a, obs) ==
    /\ active' \in [Attempt -> Actives]
    /\ active'[a].handle = active[a].handle
    /\ active'[a].transport = active[a].transport
    /\ active'[a].cancelled = active[a].cancelled
    /\ active'[a].failed = active[a].failed
    /\ active'[a].unconfirmed
    /\ active'[a].pending \in States
    /\ \/ ~active[a].cancelled /\ active'[a].pending = obs
       \/ active'[a].pending = "unknown"
       \/ active'[a].pending = "cancelled" /\ active'[a].cleanup
    /\ \A b \in Attempt \ {a} : active'[b] = active[b]

LEMMA ChooseFacts ==
    ASSUME Types, NEW a \in Attempt, NEW obs \in States,
           active' = [active EXCEPT ![a] = Choose(@, obs)]
    PROVE  Chooses(a, obs)
<1>1. active[a] \in Actives
  BY DEF Types
<1>2. active'[a] = Choose(active[a], obs) /\ \A b \in Attempt \ {a} : active'[b] = active[b]
  BY DEF Types
<1>3. Choose(active[a], obs) \in Actives
  BY <1>1, ChosenFields
<1>4. active' \in [Attempt -> Actives]
  BY <1>3 DEF Types
<1>5. /\ Choose(active[a], obs).handle = active[a].handle
      /\ Choose(active[a], obs).transport = active[a].transport
      /\ Choose(active[a], obs).cancelled = active[a].cancelled
      /\ Choose(active[a], obs).cleanup = active[a].cleanup
      /\ Choose(active[a], obs).failed = active[a].failed
      /\ Choose(active[a], obs).unconfirmed
      /\ Choose(active[a], obs).pending = Chosen(active[a], obs)
      /\ Chosen(active[a], obs) \in States
  BY <1>1, ChosenFields
<1>6. \/ ~active[a].cancelled /\ Chosen(active[a], obs) = obs
      \/ Chosen(active[a], obs) = "unknown"
      \/ Chosen(active[a], obs) = "cancelled" /\ active[a].cleanup
  BY DEF Chosen, CancelledResult
<1> QED BY <1>2, <1>4, <1>5, <1>6 DEF Chooses

LEMMA ChosenKnown ==
    ASSUME NEW a \in Attempt, NEW obs \in States, Known(a), active[a].handle,
           Chooses(a, obs), UNCHANGED <<ledger, tree>>,
           obs \in Terminal => Over(a),
           active'[a].cleanup => Over(a),
           \/ thread'[a] = thread[a] /\ thread[a].pc # "announcing"
           \/ thread'[a].pc = "save" /\ thread[a].pc = "publish"
    PROVE  Known(a)' /\ (Over(a) => Over(a)')
<1>1. Over(a) => Over(a)'
  BY DEF Over, Present, Chooses
<1>2. TransportKnown(a)'
  BY DEF Chooses, Known, TransportKnown, Present
<1>3. EndKnown(a)'
  <2>1. ASSUME NEW state \in Terminal, Says(a, state)' PROVE Over(a)
    <3>1. CASE active'[a].pending = state
      BY <2>1, <3>1 DEF Chooses, Terminal
    <3>2. CASE active'[a].pending # state
      BY <2>1, <3>2 DEF Known, EndKnown, Says
    <3> QED BY <3>1, <3>2
  <2>2. thread'[a].pc \in {"confirm", "read"} => Over(a)
    BY DEF Known, EndKnown
  <2> QED BY <1>1, <2>1, <2>2 DEF EndKnown
<1>4. ResultKept(a)'
  BY DEF Chooses, Known, ResultKept, States, Terminal
<1> QED BY <1>1, <1>2, <1>3, <1>4 DEF Known

LEMMA PublishStep == ASSUME IInv, NEW a \in Attempt, Publish(a) PROVE IInv'
<1>1. /\ active[a].handle /\ ledger[a].state # "none" /\ Types /\ Known(a)
      /\ thread[a].obs \in States
      /\ thread[a].obs \in Terminal \/ active[a].cleanup => Over(a)
  BY AtWork DEF Publish, Known, EndKnown, ResultKept, Says, Types, Threads
<1>2. Moves(a, "save", thread[a].obs)
  BY <1>1, StepMoves DEF Publish, Places
<1>3. Chooses(a, thread[a].obs)
  BY <1>1, ChooseFacts DEF Publish
<1>4. Types' /\ Elsewhere(a)
  BY <1>1, <1>2, <1>3 DEF Types, authority, Publish, Moves, Chooses, Elsewhere
<1>6. Locks'
  BY <1>1, <1>2 DEF IInv, Types, Locks, Publish, Moves
<1>7. active'[a].cleanup => Over(a)
  <2>1. active'[a] = Choose(active[a], thread[a].obs) /\ active[a] \in Actives
    BY <1>1 DEF Publish, Types
  <2> QED BY <1>1, <2>1, ChosenFields, ZenonT(40)
<1>8. Known(a)' /\ (Over(a) => Over(a)')
  BY <1>1, <1>2, <1>3, <1>7, ChosenKnown DEF Publish, Moves
<1> QED BY <1>1, <1>3, <1>4, <1>6, <1>8, ThreadKeeps DEF Publish, Chooses

\* A save: the result is in the ledger, or waits on.
Saves(a) ==
    /\ active' \in [Attempt -> Actives]
    /\ ledger' \in [Attempt -> [state : States \cup {"none"}, fence : 0 .. MaxEpoch]]
    /\ active'[a].handle = active[a].handle
    /\ active'[a].transport = active[a].transport
    /\ active'[a].cancelled = active[a].cancelled
    /\ active'[a].cleanup = active[a].cleanup
    /\ \/ /\ ledger'[a].state = active[a].pending
          /\ ~active'[a].failed /\ active'[a].pending = "none"
       \/ /\ ledger'[a] = ledger[a] /\ active'[a].pending = active[a].pending
          /\ active'[a].unconfirmed = active[a].unconfirmed
    /\ \A b \in Attempt \ {a} : active'[b] = active[b] /\ ledger'[b] = ledger[b]

LEMMA SaveFacts == ASSUME Types, NEW a \in Attempt, Save(a) PROVE Saves(a)
<1>1. active[a] \in Actives /\ active[a].pending \in States \cup {"none"}
  BY DEF Types, Actives
<1>2. CASE ledger' = [ledger EXCEPT ![a].state = active[a].pending]
           /\ active' = [active EXCEPT ![a] = Saved(@)]
  <2>1. active'[a] = Saved(active[a]) /\ \A b \in Attempt \ {a} : active'[b] = active[b]
    BY <1>2 DEF Types
  <2>2. active' \in [Attempt -> Actives]
    BY <1>1, <1>2, SavedFields DEF Types
  <2>3. /\ ledger' \in [Attempt -> [state : States \cup {"none"}, fence : 0 .. MaxEpoch]]
        /\ ledger'[a].state = active[a].pending
        /\ \A b \in Attempt \ {a} : ledger'[b] = ledger[b]
    BY <1>1, <1>2 DEF Types
  <2> QED BY <1>1, <2>1, <2>2, <2>3, SavedFields DEF Saves
<1>3. CASE active' = [active EXCEPT ![a] = NotSaved(@)] /\ UNCHANGED ledger
  <2>1. active'[a] = NotSaved(active[a]) /\ \A b \in Attempt \ {a} : active'[b] = active[b]
    BY <1>3 DEF Types
  <2>2. active' \in [Attempt -> Actives]
    BY <1>1, <1>3, SavedFields DEF Types
  <2> QED BY <1>1, <1>3, <2>1, <2>2, SavedFields DEF Types, Saves
<1> QED BY <1>2, <1>3 DEF Save

LEMMA SavedKnown ==
    ASSUME NEW a \in Attempt, Known(a), active[a].handle,
           Saves(a), UNCHANGED tree,
           active[a].unconfirmed, active[a].pending # "none",
           \/ thread'[a] = thread[a] /\ thread[a].pc # "save"
           \/ thread'[a].pc = "done"
    PROVE  Known(a)' /\ (Over(a) => Over(a)') /\ ledger'[a].state # "none"
<1>0. ledger'[a].state # "none"
  BY DEF Saves, Known, TransportKnown
<1>1. Over(a) => Over(a)'
  BY DEF Over, Present, Saves
<1>2. TransportKnown(a)'
  BY <1>0 DEF Saves, Known, TransportKnown, Present
<1>3. EndKnown(a)'
  BY <1>1 DEF Saves, Known, EndKnown, Says, Terminal
<1>4. ResultKept(a)'
  BY DEF Saves, Known, ResultKept
<1> QED BY <1>0, <1>1, <1>2, <1>3, <1>4 DEF Known

LEMMA WorkerSaveStep == ASSUME IInv, NEW a \in Attempt, WorkerSave(a) PROVE IInv'
<1>1. /\ active[a].handle /\ Types /\ Known(a)
      /\ active[a].unconfirmed /\ active[a].pending # "none"
  BY AtWork DEF WorkerSave, Known, ResultKept
<1>2. Moves(a, "done", "none") /\ Saves(a)
  BY <1>1, ResultMoves, SaveFacts DEF WorkerSave, Places
<1>4. Types' /\ Elsewhere(a)
  BY <1>1, <1>2 DEF Types, authority, WorkerSave, Moves, Saves, Elsewhere
<1>6. Locks' /\ pub[a] # "caller"
  BY <1>1, <1>2 DEF IInv, Types, Locks, WorkerSave, Moves
<1>8. Known(a)' /\ (Over(a) => Over(a)') /\ ledger'[a].state # "none"
  BY <1>1, <1>2, SavedKnown DEF WorkerSave, Moves
<1> QED BY <1>1, <1>2, <1>4, <1>6, <1>8, ThreadKeeps DEF WorkerSave, Saves
-----------------------------------------------------------------------------
(* The calls.                                                               *)

LEMMA Observed ==
    ASSUME IInv, NEW a \in Attempt, ledger[a].state # "none"
    PROVE  /\ Observation(a) \in States
           /\ Observation(a) \in Terminal => Over(a)
           /\ active[a].cancelled => Observation(a) \in {"unknown", "cancelled"}
<1>1. Known(a) /\ ledger[a].state \in States
  BY DEF IInv, Types
<1>2. active[a].cancelled => active[a].handle
  BY <1>1 DEF Known, TransportKnown, Inactive
<1> QED BY <1>1, <1>2 DEF Observation, Known, EndKnown, Says, States, Terminal

\* A call of which attempt a is the subject.
LEMMA CallKeeps ==
    ASSUME IInv, NEW a \in Attempt, Elsewhere(a), Types', Locks', Known(a)',
           Over(a) => Over(a)', CallKnown', told' = told \/ ToldTrue'
    PROVE  IInv'
  BY OthersKnown, ToldKept DEF IInv

LEMMA Called ==
    ASSUME IInv, call.pc # "idle"
    PROVE  /\ call.attempt \in Attempt /\ ledger[call.attempt].state # "none"
           /\ Types /\ Known(call.attempt) /\ CallKnown
  BY DEF IInv, CallKnown

LEMMA DispatchStep == ASSUME IInv, NEW a \in Attempt, Dispatch(a) PROVE IInv'
<1>1. Types /\ Known(a) /\ thread[a].pc = "none" /\ tree[a] = "none" /\ pub[a] = "free"
  BY DEF IInv, Types, Known, TransportKnown, Locks, Dispatch, Quiet
<1>2. PICK started \in BOOLEAN :
          /\ active' = [active EXCEPT ![a] = [Inactive EXCEPT !.handle = TRUE, !.cleanup = ~started]]
          /\ thread' = [thread EXCEPT ![a] = IF started THEN [pc |-> "begin", obs |-> "none"]
                                             ELSE [pc |-> "publish", obs |-> "failed"]]
          /\ call' = [Quiet EXCEPT !.pc = "observe", !.attempt = a,
                                   !.result = IF started THEN "none" ELSE "launch"]
  BY DEF Dispatch
<1>3. Moves(a, IF started THEN "begin" ELSE "publish", IF started THEN "none" ELSE "failed")
  BY <1>1, <1>2 DEF Types, Threads, Moves, Places, States, Terminal
<1>4. /\ active' \in [Attempt -> Actives]
      /\ active'[a].handle /\ active'[a].transport = "absent" /\ ~active'[a].cancelled
      /\ ~active'[a].unconfirmed /\ (active'[a].cleanup <=> ~started)
      /\ active'[a].pending = "none" /\ ~active'[a].failed
      /\ \A b \in Attempt \ {a} : active'[b] = active[b]
  BY <1>1, <1>2 DEF Types, Actives, Inactive, Transports
<1>5. /\ call'.pc = "observe" /\ call'.attempt = a /\ call' \in Calls
  BY <1>2 DEF Quiet, Calls
<1>6. /\ ledger' \in [Attempt -> [state : States \cup {"none"}, fence : 0 .. MaxEpoch]]
      /\ ledger'[a].state = "running" /\ \A b \in Attempt \ {a} : ledger'[b] = ledger[b]
  BY <1>1, EpochAssumption DEF Types, Dispatch, States
<1>7. Types' /\ Elsewhere(a)
  BY <1>1, <1>3, <1>4, <1>5, <1>6, EpochAssumption DEF Types, Dispatch, Moves, Elsewhere
<1>8. Locks'
  BY <1>1, <1>3, <1>5, AttemptsAssumption DEF IInv, Types, Locks, Dispatch, Moves, Quiet
<1>9. Known(a)'
  BY <1>1, <1>3, <1>4, <1>6 DEF Dispatch, Moves, Known, TransportKnown, EndKnown, ResultKept,
         Says, Over, Present, Terminal
<1>10. CallKnown' /\ ToldTrue'
  BY <1>5, <1>6 DEF CallKnown, ToldTrue, Dispatch, Untold, Terminal
<1> QED BY <1>7, <1>8, <1>9, <1>10, OthersKnown DEF IInv

LEMMA PollStep == ASSUME IInv, NEW a \in Attempt, Poll(a) PROVE IInv'
<1>1. Types
  BY DEF IInv
<1>2. /\ call' \in Calls
      /\ \/ call' = call
         \/ call'.pc = "collect" /\ call'.attempt = a /\ call'.result = "none"
      /\ told' \in {Untold, [attempt |-> a, state |-> "unknown"]}
  BY <1>1 DEF Types, Poll, Quiet, Calls
<1>3. Types' /\ Elsewhere(a)
  BY <1>1, <1>2, EpochAssumption DEF Types, Poll, Elsewhere, States
<1>4. Locks'
  BY <1>1, <1>2 DEF IInv, Locks, Poll, Quiet
<1>5. CallKnown' /\ ToldTrue'
  BY <1>2 DEF IInv, CallKnown, ToldTrue, Poll, Untold, Terminal
<1>6. Known(a)'
  BY DEF IInv, Poll, Known, TransportKnown, EndKnown, ResultKept, Says, Over, Present
<1> QED BY <1>3, <1>4, <1>5, <1>6, OthersKnown DEF IInv

LEMMA CollectStep == ASSUME IInv, Collect PROVE IInv'
<1>0. PICK a \in Attempt : a = call.attempt
  BY Called DEF Collect
<1>1. /\ a \in Attempt /\ ledger[a].state # "none"
      /\ Types /\ Known(a) /\ call.result # "launch"
  BY <1>0, Called DEF Collect, CallKnown
<1>2. CASE active[a].pending = "none"
  <2>1. told' = [attempt |-> a, state |-> Observation(a)] /\ call' = Quiet
            /\ UNCHANGED <<authority, ledger, active, thread, tree, guard, pub>>
    BY <1>0, <1>2 DEF Collect
  <2>2. Types' /\ Elsewhere(a)
    BY <1>0, <1>1, <2>1, Rest, Observed DEF Types, authority, Elsewhere
  <2>3. Locks'
    BY <1>0, <2>1 DEF IInv, Locks, Collect
  <2>4. Known(a)'
    BY <1>0, <1>1, <2>1 DEF Known, TransportKnown, EndKnown, ResultKept, Says, Over, Present
  <2>5. CallKnown'
    BY <1>0, <2>1 DEF CallKnown, Quiet
  <2>6. ToldTrue'
    BY <1>0, <1>1, <2>1, Observed DEF ToldTrue, Over, Present
  <2> QED BY <1>0, <1>1, <2>2, <2>3, <2>4, <2>5, <2>6, OthersKnown DEF IInv
<1>3. CASE active[a].pending # "none"
  <2>1. /\ active[a].handle /\ pub[a] = "free" /\ active[a].pending \in States
        /\ thread[a].pc # "announcing"
        /\ active[a].pending \in Terminal \/ active[a].cleanup => Over(a)
    BY <1>0, <1>1, <1>3 DEF IInv, Types, Actives, Locks, Known, TransportKnown, EndKnown, Says, Inactive, Collect
  <2>2. /\ pub' = [pub EXCEPT ![a] = "caller"] /\ call' = [call EXCEPT !.pc = "save"]
        /\ active' = [active EXCEPT ![a] = Choose(@, @.pending)]
        /\ UNCHANGED <<authority, ledger, thread, tree, guard, told>>
    BY <1>0, <1>3 DEF Collect
  <2>3. active' = [active EXCEPT ![a] = Choose(@, active[a].pending)]
    BY <1>0, <1>1, <2>2 DEF Types
  <2>4. Chooses(a, active[a].pending)
    BY <1>0, <1>1, <2>1, <2>3, ChooseFacts
  <2>5. call'.pc = "save" /\ call'.attempt = a /\ call'.result = call.result /\ call' \in Calls
    BY <1>0, <1>1, <2>2 DEF Types, Calls
  <2>6. Types' /\ Elsewhere(a)
    BY <1>0, <1>1, <2>2, <2>4, <2>5 DEF Types, authority, Chooses, Elsewhere
  <2>7. Locks'
    BY <1>0, <1>1, <2>1, <2>2, <2>5 DEF IInv, Types, Locks, Collect
  <2>8. active'[a].cleanup => Over(a)
    <3>1. active'[a] = Choose(active[a], active[a].pending) /\ active[a] \in Actives
      BY <1>0, <1>1, <2>3 DEF Types
    <3>2. Choose(active[a], active[a].pending).cleanup = active[a].cleanup
      BY <2>1, <3>1, ChosenFields
    <3> QED BY <2>1, <3>1, <3>2
  <2>9. Known(a)' /\ (Over(a) => Over(a)')
    BY <1>0, <1>1, <2>1, <2>2, <2>4, <2>8, ChosenKnown
  <2>10. CallKnown'
    <3>1. pub'[a] = "caller" /\ ledger'[a].state # "none"
      BY <1>1, <2>2 DEF Types
    <3>2. active'[a].handle /\ active'[a].unconfirmed /\ active'[a].pending # "none"
      BY <2>1, <2>4 DEF Chooses, States, Terminal
    <3> QED BY <1>0, <1>1, <2>5, <3>1, <3>2 DEF CallKnown
  <2> QED BY <1>0, <1>1, <2>2, <2>6, <2>7, <2>9, <2>10, CallKeeps
<1> QED BY <1>0, <1>2, <1>3

LEMMA CallerSaveStep == ASSUME IInv, CallerSave PROVE IInv'
<1>0. PICK a \in Attempt : a = call.attempt
  BY Called DEF CallerSave
<1>1. /\ a \in Attempt /\ Types /\ Known(a) /\ active[a].handle
      /\ pub[a] = "caller" /\ active[a].unconfirmed /\ active[a].pending # "none"
  BY <1>0, Called DEF CallerSave, CallKnown
<1>2. thread[a].pc # "save"
  BY <1>0, <1>1 DEF IInv, Locks
<1>3. Saves(a)
  BY <1>0, <1>1, SaveFacts DEF CallerSave
<1>4. call'.pc = "observe" /\ call'.attempt = a /\ call' \in Calls
  BY <1>0, <1>1 DEF CallerSave, Types, Calls
<1>5. Types' /\ Elsewhere(a)
  BY <1>0, <1>1, <1>3, <1>4 DEF Types, authority, CallerSave, Saves, Elsewhere
<1>6. Locks'
  BY <1>0, <1>1, <1>4 DEF IInv, Locks, CallerSave
<1>7. Known(a)' /\ (Over(a) => Over(a)') /\ ledger'[a].state # "none"
  BY <1>0, <1>1, <1>2, <1>3, SavedKnown DEF CallerSave
<1>8. CallKnown'
  BY <1>0, <1>1, <1>4, <1>7 DEF CallKnown
<1> QED BY <1>0, <1>1, <1>5, <1>6, <1>7, <1>8, CallKeeps DEF CallerSave

LEMMA ObserveStep == ASSUME IInv, Observe PROVE IInv'
<1>0. PICK a \in Attempt : a = call.attempt
  BY Called DEF Observe
<1>1. a \in Attempt /\ ledger[a].state # "none" /\ Types /\ Known(a)
  BY <1>0, Called DEF Observe
<1>2. told'.attempt = a /\ told'.state \in {Observation(a), "unknown"} /\ call' = Quiet
          /\ told' \in [attempt : Attempt, state : States]
  BY <1>0, <1>1, Observed DEF Observe, States
<1>3. Types' /\ Elsewhere(a)
  BY <1>0, <1>1, <1>2, Rest DEF Types, authority, Observe, Elsewhere
<1>4. Locks'
  BY <1>0, <1>1 DEF IInv, Types, Locks, Observe
<1>5. Known(a)'
  BY <1>0, <1>1 DEF Observe, Known, TransportKnown, EndKnown, ResultKept, Says, Over, Present
<1>6. CallKnown'
  BY <1>0, <1>2 DEF CallKnown, Quiet
<1>7. ToldTrue'
  BY <1>0, <1>1, <1>2, Observed DEF Observe, ToldTrue, Over, Present, Terminal
<1> QED BY <1>0, <1>1, <1>3, <1>4, <1>5, <1>6, <1>7, OthersKnown DEF IInv

LEMMA CancelStep == ASSUME IInv, NEW a \in Attempt, Cancel(a) PROVE IInv'
<1>1. Types /\ Known(a) /\ ledger[a].state # "none"
  BY DEF IInv, Cancel
<1>2. CASE ~active[a].handle
  <2>1. /\ call'.pc = "observe" /\ call'.attempt = a /\ call' \in Calls
        /\ told' = Untold /\ UNCHANGED <<authority, ledger, active, thread, tree, guard, pub>>
    BY <1>2 DEF Cancel, Quiet, Calls
  <2>2. Types' /\ Elsewhere(a)
    BY <1>1, <2>1 DEF Types, authority, Elsewhere
  <2>3. Locks'
    BY <2>1 DEF IInv, Locks, Cancel, Quiet
  <2>4. Known(a)'
    BY <1>1, <2>1 DEF Known, TransportKnown, EndKnown, ResultKept, Says, Over, Present
  <2>5. CallKnown' /\ ToldTrue'
    BY <1>1, <2>1 DEF CallKnown, ToldTrue, Untold, Terminal
  <2> QED BY <2>2, <2>3, <2>4, <2>5, OthersKnown DEF IInv
<1>3. CASE active[a].handle
  <2>1. /\ call'.pc = "shut" /\ call'.attempt = a /\ call'.result = "none" /\ call' \in Calls
        /\ told' = Untold /\ UNCHANGED <<authority, ledger, thread, tree, guard, pub>>
        /\ pub[a] = "free"
    BY <1>3 DEF Cancel, Quiet, Calls
  <2>2. /\ active' \in [Attempt -> Actives]
        /\ active'[a].handle = active[a].handle
        /\ active'[a].transport = active[a].transport
        /\ active'[a].cleanup = active[a].cleanup
        /\ active'[a].failed = active[a].failed
        /\ active'[a].cancelled /\ active'[a].unconfirmed
        /\ active'[a].pending = IF active[a].pending = "none" THEN "none"
                                ELSE CancelledResult(active[a].cleanup)
        /\ \A b \in Attempt \ {a} : active'[b] = active[b]
    <3>1. active[a] \in Actives /\ active' = [active EXCEPT ![a] = Revoked(@)]
      BY <1>1, <1>3 DEF Types, Cancel
    <3>2. active'[a] = Revoked(active[a]) /\ \A b \in Attempt \ {a} : active'[b] = active[b]
      BY <1>1, <3>1 DEF Types
    <3>3. active' \in [Attempt -> Actives]
      BY <1>1, <3>1, RevokedFields DEF Types
    <3> QED BY <3>1, <3>2, <3>3, RevokedFields
  <2>3. Types' /\ Elsewhere(a)
    BY <1>1, <2>1, <2>2 DEF Types, authority, Elsewhere
  <2>4. Locks'
    BY <2>1 DEF IInv, Locks, Cancel, Quiet
  <2>5. thread[a].pc \notin {"announcing", "save"}
    BY <2>1 DEF IInv, Locks
  <2>6. Known(a)'
    BY <1>1, <1>3, <2>1, <2>2, <2>5 DEF Known, TransportKnown, EndKnown, ResultKept, Says, Over,
           Present, CancelledResult, Terminal
  <2>7. CallKnown' /\ ToldTrue'
    BY <1>1, <1>3, <2>1, <2>2 DEF CallKnown, ToldTrue, Untold, Terminal
  <2> QED BY <2>3, <2>4, <2>6, <2>7, OthersKnown DEF IInv
<1> QED BY <1>2, <1>3

LEMMA ShutStep == ASSUME IInv, Shut PROVE IInv'
<1>0. PICK a \in Attempt : a = call.attempt
  BY Called DEF Shut
<1>1. /\ ledger[a].state # "none" /\ Types /\ Known(a) /\ active[a].handle
      /\ call.result # "launch" /\ call.attempt = a /\ call.pc = "shut"
  BY <1>0, Called DEF Shut, CallKnown
<1>2. /\ UNCHANGED <<authority, ledger, thread, guard, pub, told>>
      /\ \/ active[a].transport = "absent" /\ UNCHANGED <<active, tree>>
         \/ active[a].transport # "absent" /\ Killed(a)
         \/ NotKilled(a)
  BY <1>0 DEF Shut
<1>3. call' \in Calls /\ call'.pc = "settle" /\ call'.attempt = a /\ call'.result # "launch"
  BY <1>0, <1>1, ZenonT(40) DEF Shut, Types, Calls
<1>4. Types' /\ Elsewhere(a)
  BY <1>1, <1>2, <1>3, KilledFacts, NotKilledFacts DEF Types, authority, Turns, Elsewhere
<1>5. Locks'
  BY <1>1, <1>2 DEF IInv, Locks
<1>6. Known(a)' /\ (Over(a) => Over(a)') /\ active'[a].handle
  <2>1. CASE UNCHANGED <<active, tree>>
    BY <1>1, <1>2, <2>1 DEF Known, TransportKnown, EndKnown, ResultKept, Says, Over, Present
  <2>2. CASE active[a].transport # "absent" /\ Killed(a)
    <3>1. Over(a)'
      BY <1>1, <2>2, KilledFacts DEF Turns, Over
    <3> QED BY <1>1, <1>2, <2>2, <3>1, KilledFacts DEF Turns, Known, TransportKnown,
           EndKnown, ResultKept, Says
  <2>3. CASE NotKilled(a)
    <3>1. ~Over(a)
      BY <1>1, <2>3, NotKilledFacts DEF Over
    <3> QED BY <1>1, <1>2, <2>3, <3>1, NotKilledFacts DEF Turns, Known, TransportKnown,
           EndKnown, ResultKept, Says
  <2> QED BY <1>2, <2>1, <2>2, <2>3
<1>7. CallKnown'
  BY <1>1, <1>2, <1>3, <1>6 DEF CallKnown
<1> QED BY <1>2, <1>4, <1>5, <1>6, <1>7, CallKeeps

LEMMA SettleStep == ASSUME IInv, Settle PROVE IInv'
<1>0. PICK a \in Attempt : a = call.attempt
  BY Called DEF Settle
<1> DEFINE confirmed == call.captured /\ call.result = "none" /\ active[a].transport = "clean"
           at == [active[a] EXCEPT !.cleanup = @ \/ confirmed]
           obs == IF call.result # "none" THEN call.result
                  ELSE IF active[a].pending # "none" THEN active[a].pending ELSE ledger[a].state
<1>1. /\ ledger[a].state \in States /\ Types /\ Known(a) /\ active[a].handle
      /\ active[a] \in Actives /\ call \in Calls
      /\ call.result # "launch" /\ call.attempt = a /\ call.pc = "settle" /\ pub[a] = "free"
  BY <1>0, Called DEF Settle, CallKnown, Types
<1>2. thread[a].pc # "announcing"
  BY <1>1 DEF IInv, Locks
<1>3. /\ at \in Actives /\ at.handle = active[a].handle /\ at.transport = active[a].transport
      /\ at.cancelled = active[a].cancelled /\ at.failed = active[a].failed
      /\ at.pending = active[a].pending /\ at.cleanup = (active[a].cleanup \/ confirmed)
  BY <1>1 DEF Actives
<1>4. obs \in States /\ (obs \in Terminal => Over(a))
  BY <1>1 DEF Actives, Calls, Known, EndKnown, Says, States, Terminal
<1>5. /\ active' = [active EXCEPT ![a] = Choose(at, obs)]
      /\ pub' = [pub EXCEPT ![a] = "caller"] /\ call' = [call EXCEPT !.pc = "save"]
      /\ UNCHANGED <<authority, ledger, thread, tree, guard, told>>
  BY <1>0, <1>3 DEF Settle
<1>6. at.cleanup => Over(a)
  BY <1>1, <1>2, <1>3 DEF Known, TransportKnown, EndKnown, Over
<1> HIDE DEF at, obs, confirmed
<1>7. Chooses(a, obs) /\ active'[a].cleanup = at.cleanup
  <2>1. active'[a] = Choose(at, obs) /\ \A b \in Attempt \ {a} : active'[b] = active[b]
    BY <1>1, <1>5 DEF Types
  <2>2. /\ Choose(at, obs) \in Actives
        /\ Choose(at, obs).handle = at.handle
        /\ Choose(at, obs).transport = at.transport
        /\ Choose(at, obs).cancelled = at.cancelled
        /\ Choose(at, obs).cleanup = at.cleanup
        /\ Choose(at, obs).failed = at.failed
        /\ Choose(at, obs).unconfirmed
        /\ Choose(at, obs).pending = Chosen(at, obs)
        /\ Chosen(at, obs) \in States
    BY <1>3, <1>4, ChosenFields
  <2>3. active' \in [Attempt -> Actives]
    BY <1>1, <1>5, <2>2 DEF Types
  <2>4. \/ ~at.cancelled /\ Chosen(at, obs) = obs
        \/ Chosen(at, obs) = "unknown"
        \/ Chosen(at, obs) = "cancelled" /\ at.cleanup
    BY DEF Chosen, CancelledResult
  <2> QED BY <1>3, <2>1, <2>2, <2>3, <2>4 DEF Chooses
<1>8. call'.pc = "save" /\ call'.attempt = a /\ call'.result = call.result /\ call' \in Calls
  BY <1>1, <1>5 DEF Calls
<1>9. Types' /\ Elsewhere(a)
  BY <1>1, <1>5, <1>7, <1>8 DEF Types, authority, Chooses, Elsewhere
<1>10. Locks'
  BY <1>1, <1>5, <1>8 DEF IInv, Types, Locks
<1>11. Known(a)' /\ (Over(a) => Over(a)')
  BY <1>1, <1>2, <1>4, <1>5, <1>6, <1>7, ChosenKnown
<1>12. CallKnown'
  <2>1. pub'[a] = "caller" /\ ledger'[a].state # "none"
    BY <1>1, <1>5 DEF Types, States, Terminal
  <2>2. active'[a].handle /\ active'[a].unconfirmed /\ active'[a].pending # "none"
    BY <1>1, <1>7 DEF Chooses, States, Terminal
  <2> QED BY <1>1, <1>8, <2>1, <2>2 DEF CallKnown
<1> QED BY <1>5, <1>9, <1>10, <1>11, <1>12, CallKeeps
-----------------------------------------------------------------------------
(* The rest of the world, and the invariant.                                *)

LEMMA AuthorityKeeps ==
    ASSUME IInv, epoch' \in 1 .. MaxEpoch, fence' \in 1 .. MaxEpoch, highest' \in 0 .. MaxEpoch,
           UNCHANGED <<ledger, active, thread, tree, guard, pub, call, told>>
    PROVE  IInv'
<1>1. Types'
  BY DEF IInv, Types
<1>2. Locks' /\ CallKnown' /\ ToldTrue'
  BY DEF IInv, Locks, CallKnown, ToldTrue, Over, Present
<1>3. ASSUME NEW a \in Attempt PROVE Known(a)'
  BY <1>3 DEF IInv, Known, TransportKnown, EndKnown, ResultKept, Says, Over, Present
<1> QED BY <1>1, <1>2, <1>3 DEF IInv

LEMMA TakeoverStep == ASSUME IInv, Takeover \/ ForeignCall PROVE IInv'
<1>1. epoch' \in 1 .. MaxEpoch /\ fence' \in 1 .. MaxEpoch /\ highest' \in 0 .. MaxEpoch
  BY EpochAssumption DEF IInv, Types, Takeover, ForeignCall
<1> QED BY <1>1, AuthorityKeeps DEF Takeover, ForeignCall

LEMMA CrashStep == ASSUME IInv, Crash PROVE IInv'
<1>1. /\ \A a \in Attempt : active'[a] = Inactive /\ pub'[a] = "free"
      /\ \A a \in Attempt : thread'[a].pc = "none" /\ thread'[a].obs = "none"
      /\ \A a \in Attempt : tree'[a] \in {tree[a], "gone"} /\ (tree[a] = "none" => tree'[a] = "none")
      /\ guard' = Nobody /\ call' = Quiet /\ told' = Untold /\ ledger' = ledger
  BY DEF Crash
<1>2. Types'
  BY <1>1, Rest DEF IInv, Types, authority, Crash, Threads, Places
<1>3. Locks' /\ CallKnown' /\ ToldTrue'
  BY <1>1, AttemptsAssumption DEF Locks, CallKnown, ToldTrue, Quiet, Untold, Terminal
<1>4. ASSUME NEW a \in Attempt PROVE Known(a)'
  <2>1. Known(a) /\ (Over(a) \/ ~Present(a) => Over(a)')
    BY <1>1 DEF IInv, Over, Present, Inactive
  <2> QED BY <1>1, <2>1 DEF Known, TransportKnown, EndKnown, ResultKept, Says, Inactive, Terminal
<1> QED BY <1>2, <1>3, <1>4 DEF IInv

LEMMA InitInv == Init => IInv
<1> SUFFICES ASSUME Init PROVE IInv
  OBVIOUS
<1>1. Types
  BY Rest, EpochAssumption DEF Init, Types, Threads, Places
<1>2. Locks /\ CallKnown /\ ToldTrue
  BY AttemptsAssumption DEF Init, Locks, CallKnown, ToldTrue, Quiet, Untold, Terminal
<1>3. ASSUME NEW a \in Attempt PROVE Known(a)
  BY <1>3 DEF Init, Known, TransportKnown, EndKnown, ResultKept, Says, Inactive, Over, Present, Terminal
<1> QED BY <1>1, <1>2, <1>3 DEF IInv

LEMMA ThreadInv == ASSUME IInv, NEW a \in Attempt, ThreadStep(a) PROVE IInv'
  BY BeginStep, ConnectStep, AuthorizeStep, SpawnStep, ResumeStep, AnnounceStep, AnnouncedStep, WaitStep, CloseStep, ConfirmStep, ReadStep, PublishStep, WorkerSaveStep
  DEF ThreadStep

LEMMA InvStep == IInv /\ [Next]_vars => IInv'
<1> SUFFICES ASSUME IInv, [Next]_vars PROVE IInv'
  OBVIOUS
<1>1. ASSUME NEW a \in Attempt, Dispatch(a) PROVE IInv'
  BY <1>1, DispatchStep
<1>2. ASSUME NEW a \in Attempt, Poll(a) PROVE IInv'
  BY <1>2, PollStep
<1>3. ASSUME NEW a \in Attempt, Cancel(a) PROVE IInv'
  BY <1>3, CancelStep
<1>4. ASSUME NEW a \in Attempt, ThreadStep(a) PROVE IInv'
  BY <1>4, ThreadInv
<1>5. CASE CallStep
  BY <1>5, CollectStep, CallerSaveStep, ObserveStep, ShutStep, SettleStep DEF CallStep
<1>6. CASE Takeover \/ ForeignCall
  BY <1>6, TakeoverStep
<1>7. CASE Crash
  BY <1>7, CrashStep
<1>8. CASE UNCHANGED vars
  BY <1>8, AuthorityKeeps DEF vars, authority, IInv, Types
<1> QED BY <1>1, <1>2, <1>3, <1>4, <1>5, <1>6, <1>7, <1>8 DEF Next

LEMMA Invariance == PortSpec => []IInv
  BY InitInv, InvStep, PTL DEF PortSpec
-----------------------------------------------------------------------------
(* Which steps can do what the action properties speak of.                  *)

\* Nothing but a dispatch puts an attempt into the ledger.
LEMMA OnlyDispatch ==
    ASSUME IInv, Next, NEW a \in Attempt, ledger[a].state = "none", ledger'[a].state # "none"
    PROVE  Dispatch(a)
<1>1. Types /\ thread[a].pc = "none" /\ (call.pc # "idle" => call.attempt # a)
  BY DEF IInv, Known, TransportKnown, CallKnown
<1>2. ASSUME NEW b \in Attempt, Dispatch(b), b # a PROVE FALSE
  BY <1>1, <1>2 DEF Dispatch, Types
<1>3. ASSUME NEW b \in Attempt, WorkerSave(b) \/ Announced(b) PROVE FALSE
  BY <1>1, <1>3 DEF WorkerSave, Announced, Save, Types
<1>4. ASSUME CallerSave PROVE FALSE
  BY <1>1, <1>4 DEF CallerSave, Save, Types
<1>5. ledger' # ledger
  OBVIOUS
<1> QED BY <1>2, <1>3, <1>4, <1>5 DEF Next, ThreadStep, CallStep, Poll, Cancel, Begin, Connect,
      Authorize, Spawn, Resume, Announce, Wait, Close, Confirm, Read, Publish, Collect, Observe,
      Shut, Settle, Takeover, ForeignCall, Crash

\* Nothing but Resume lets a process run.
LEMMA OnlyResume ==
    ASSUME IInv, Next, NEW a \in Attempt, tree[a] # "live", tree'[a] = "live"
    PROVE  Resume(a) /\ Authorized(a)
<1>1. Types
  BY DEF IInv
<1>2. ASSUME NEW b \in Attempt, Killed(b) \/ NotKilled(b) PROVE FALSE
  BY <1>1, <1>2 DEF Types, Killed, NotKilled
<1>3. ASSUME NEW b \in Attempt, Spawn(b) PROVE FALSE
  BY <1>1, <1>3 DEF Types, Spawn
<1>4. ASSUME Crash PROVE FALSE
  BY <1>4 DEF Crash
<1>5. ASSUME NEW b \in Attempt, Resume(b) PROVE b = a /\ Authorized(a)
  BY <1>1, <1>5 DEF Types, Resume
<1>6. tree' # tree
  OBVIOUS
<1>7. ASSUME Shut PROVE FALSE
  <2>1. call.attempt \in Attempt
    BY <1>7, Called DEF Shut
  <2> QED BY <1>2, <1>6, <1>7, <2>1 DEF Shut
<1>8. ASSUME NEW b \in Attempt, Close(b) PROVE FALSE
  BY <1>2, <1>6, <1>8 DEF Close
<1> QED BY <1>3, <1>4, <1>5, <1>6, <1>7, <1>8 DEF Next, ThreadStep, CallStep, Dispatch, Poll, Cancel,
      Begin, Connect, Authorize, Announce, Announced, Wait, Confirm, Read, Publish, WorkerSave,
      Collect, CallerSave, Observe, Settle, Takeover, ForeignCall

-----------------------------------------------------------------------------
(* What more is known, for the order of the locks and for the ledger.       *)

\* What a thread may carry to a publication.
Outcomes == {"candidate", "blocked", "failed", "unknown"}

\* A process is made by the one thread that is there to start it, and a transport
\* is being started only while that thread is at it.
PlaceKnown(a) ==
    /\ active[a].transport = "starting" => thread[a].pc = "resume"
    /\ thread[a].pc \in {"begin", "connect", "authorize", "spawn"} => tree[a] = "none"
    /\ thread[a].pc = "resume" => tree[a] = "suspended"

AtSave(a) == thread[a].pc = "save" \/ (call.pc = "save" /\ call.attempt = a)

\* Until something is saved an attempt that is not cancelled is on record as running;
\* a cancellation on record is a confirmed one, and nothing else replaces it.
ResultDue(a) ==
    /\ thread[a].obs \in Outcomes \cup {"none"}
    /\ active[a].pending \in Outcomes \cup {"none", "cancelled"}
    /\ active[a].pending = "cancelled" => active[a].cancelled /\ active[a].cleanup
    /\ active[a].pending # "none" /\ ~active[a].cancelled => thread[a].pc \in {"save", "done"}
    /\ /\ active[a].handle /\ ~active[a].cancelled
       /\ active[a].pending # "none" \/ thread[a].pc \notin {"none", "done"}
       => ledger[a].state = "running"
    /\ active[a].handle /\ ledger[a].state = "cancelled" => active[a].cancelled /\ active[a].cleanup
    /\ AtSave(a) /\ ledger[a].state = "cancelled" => active[a].pending = "cancelled"

\* A call that could not start its thread does the work of that thread itself.
CallDue ==
    LET a == call.attempt
    IN  /\ call.pc \in {"shut", "settle"} => active[a].cancelled
        /\ call.result = "launch" => /\ call.pc = "observe" /\ pub[a] # "caller"
                                     /\ thread[a].pc \in {"publish", "save", "done"}

Due(a) == PlaceKnown(a) /\ ResultDue(a)

\* Nobody acts in the name of an epoch that does not exist yet.
EpochsDue == fence <= epoch /\ highest <= epoch

JInv == IInv /\ (\A a \in Attempt : Due(a)) /\ CallDue /\ EpochsDue

LEMMA OthersDue ==
    ASSUME JInv, NEW a \in Attempt, Elsewhere(a), Due(a)',
           call' = call \/ call'.pc # "save" \/ call'.attempt = a
    PROVE  \A b \in Attempt : Due(b)'
<1>1. ASSUME NEW b \in Attempt, b # a PROVE Due(b)'
  BY <1>1 DEF JInv, Elsewhere, Due, PlaceKnown, ResultDue, AtSave
<1> QED BY <1>1

\* A thread that leaves the calls and the cancellation as they were.
LEMMA ThreadDue ==
    ASSUME JInv, NEW a \in Attempt, Elsewhere(a), Due(a)', UNCHANGED <<authority, call>>,
           active'[a].cancelled = active[a].cancelled,
           thread[a].pc = "publish" => thread'[a].pc = "save",
           thread[a].pc = "save" => thread'[a].pc = "done",
           thread[a].pc # "done",
           pub'[a] = "caller" => pub[a] = "caller"
    PROVE  (\A b \in Attempt : Due(b)') /\ CallDue' /\ EpochsDue'
<1>1. CallDue'
  BY DEF JInv, IInv, CallKnown, CallDue, Elsewhere, Quiet
<1> QED BY <1>1, OthersDue DEF JInv, EpochsDue, authority

\* The thread only goes on, or changes its transport while nothing is published.
LEMMA MoveDue ==
    ASSUME JInv, NEW a \in Attempt, NEW pc \in Places, NEW obs \in Outcomes \cup {"none"},
           Moves(a, pc, obs), active'[a].cancelled = active[a].cancelled,
           thread[a].pc \notin {"none", "save", "done"}, pc # "save",
           active'[a].cleanup = active[a].cleanup,
           UNCHANGED <<ledger, call>>,
           active'[a].handle = active[a].handle, active'[a].pending = active[a].pending
    PROVE  ResultDue(a)'
  BY DEF JInv, Due, ResultDue, AtSave, Moves

LEMMA BeginDue == ASSUME JInv, NEW a \in Attempt, Begin(a) PROVE Due(a)' /\ Elsewhere(a)
<1>1. Types /\ Due(a) /\ TransportKnown(a) /\ thread[a].obs \in Outcomes \cup {"none"}
  BY DEF JInv, IInv, Known, Due, ResultDue
<1>2. Moves(a, "connect", thread[a].obs) \/ Moves(a, "close", "failed")
  BY <1>1, StepMoves, FinallyMoves DEF Begin, Places, States, Terminal
<1>3. ResultDue(a)'
  BY <1>1, <1>2, MoveDue DEF Begin, Places, Outcomes
<1>4. PlaceKnown(a)' /\ Elsewhere(a)
  BY <1>1, <1>2 DEF Begin, Due, PlaceKnown, TransportKnown, Moves, Elsewhere
<1> QED BY <1>3, <1>4 DEF Due

LEMMA ConnectDue == ASSUME JInv, NEW a \in Attempt, Connect(a) PROVE Due(a)' /\ Elsewhere(a)
<1>1. Types /\ Due(a) /\ thread[a].obs \in Outcomes \cup {"none"}
  BY DEF JInv, IInv, Due, ResultDue
<1>2. Moves(a, "authorize", thread[a].obs) /\ Turns(a, "open")
  BY <1>1, StepMoves, TransportTurns DEF Connect, Places, Transports
<1>3. ResultDue(a)'
  BY <1>1, <1>2, MoveDue DEF Connect, Places, Turns
<1>4. PlaceKnown(a)' /\ Elsewhere(a)
  BY <1>1, <1>2 DEF Connect, Due, PlaceKnown, Moves, Turns, Elsewhere
<1> QED BY <1>3, <1>4 DEF Due

LEMMA AuthorizeDue == ASSUME JInv, NEW a \in Attempt, Authorize(a) PROVE Due(a)' /\ Elsewhere(a)
<1>1. Types /\ Due(a) /\ thread[a].obs \in Outcomes \cup {"none"}
  BY DEF JInv, IInv, Due, ResultDue
<1>2. Moves(a, "spawn", thread[a].obs) \/ Moves(a, "close", "failed")
  BY <1>1, StepMoves, FinallyMoves DEF Authorize, Places, States, Terminal
<1>3. ResultDue(a)'
  BY <1>1, <1>2, MoveDue DEF Authorize, Places, Outcomes
<1>4. PlaceKnown(a)' /\ Elsewhere(a)
  BY <1>1, <1>2 DEF Authorize, Due, PlaceKnown, Moves, Elsewhere
<1> QED BY <1>3, <1>4 DEF Due

LEMMA SpawnDue == ASSUME JInv, NEW a \in Attempt, Spawn(a) PROVE Due(a)' /\ Elsewhere(a)
<1>1. Types /\ Due(a) /\ thread[a].obs \in Outcomes \cup {"none"}
  BY DEF JInv, IInv, Due, ResultDue
<1>2. CASE Finally(a, "failed") /\ UNCHANGED <<active, tree>>
  <2>1. Moves(a, "close", "failed")
    BY <1>1, <1>2, FinallyMoves DEF States, Terminal
  <2>2. ResultDue(a)'
    BY <1>2, <2>1, MoveDue DEF Spawn, Places, Outcomes
  <2> QED BY <1>1, <1>2, <2>1, <2>2 DEF Spawn, Due, PlaceKnown, Moves, Elsewhere, LocksForSpawn
<1>3. CASE /\ active' = [active EXCEPT ![a].transport = "starting"]
           /\ tree' = [tree EXCEPT ![a] = "suspended"] /\ Step(a, "resume")
  <2>1. Moves(a, "resume", thread[a].obs) /\ Turns(a, "starting")
    BY <1>1, <1>3, StepMoves, TransportTurns DEF Places, Transports
  <2>2. ResultDue(a)'
    BY <1>1, <2>1, MoveDue DEF Spawn, Places, Turns
  <2> QED BY <1>1, <1>3, <2>1, <2>2 DEF Types, Spawn, Due, PlaceKnown, Moves, Turns, Elsewhere
<1> QED BY <1>2, <1>3 DEF Spawn

LEMMA ResumeDue == ASSUME JInv, NEW a \in Attempt, Resume(a) PROVE Due(a)' /\ Elsewhere(a)
<1>1. Types /\ Due(a) /\ thread[a].obs \in Outcomes \cup {"none"}
  BY DEF JInv, IInv, Due, ResultDue
<1>2. Moves(a, "announce", thread[a].obs) \/ Moves(a, "close", "failed")
  BY <1>1, StepMoves, FinallyMoves DEF Resume, Places, States, Terminal
<1>3. Turns(a, "running")
  BY <1>1, TransportTurns DEF Resume, Transports
<1>4. ResultDue(a)'
  BY <1>1, <1>2, <1>3, MoveDue DEF Resume, Places, Outcomes, Turns
<1>5. PlaceKnown(a)' /\ Elsewhere(a)
  BY <1>1, <1>2, <1>3 DEF Types, Resume, PlaceKnown, Moves, Turns, Elsewhere
<1> QED BY <1>4, <1>5 DEF Due

LEMMA AnnounceDue == ASSUME JInv, NEW a \in Attempt, Announce(a) PROVE Due(a)' /\ Elsewhere(a)
<1>1. Types /\ Due(a) /\ thread[a].obs \in Outcomes \cup {"none"}
  BY DEF JInv, IInv, Due, ResultDue
<1>2. Moves(a, "announcing", thread[a].obs) \/ Moves(a, "close", "failed")
  BY <1>1, StepMoves, FinallyMoves DEF Announce, Places, States, Terminal
<1>3. ResultDue(a)'
  BY <1>1, <1>2, MoveDue DEF Announce, Places, Outcomes
<1>4. PlaceKnown(a)' /\ Elsewhere(a)
  BY <1>1, <1>2 DEF Types, Announce, Due, PlaceKnown, Moves, Elsewhere
<1> QED BY <1>3, <1>4 DEF Due

\* What is announced is on record already.
LEMMA AnnouncedDue ==
    ASSUME JInv, NEW a \in Attempt, Announced(a)
    PROVE  Due(a)' /\ Elsewhere(a) /\ UNCHANGED ledger
<1>1. Types /\ Due(a) /\ thread[a].obs \in Outcomes \cup {"none"} /\ ledger[a].state = "running"
  BY DEF JInv, IInv, Known, TransportKnown, ResultKept, Due, ResultDue, Announced
<1>2. Moves(a, "wait", thread[a].obs) \/ Moves(a, "close", "failed")
  BY <1>1, StepMoves, FinallyMoves DEF Announced, Places, States, Terminal
<1>3. UNCHANGED ledger
  BY <1>1 DEF Types, Announced
<1>4. ResultDue(a)'
  BY <1>1, <1>2, <1>3, MoveDue DEF Announced, Places, Outcomes
<1>5. PlaceKnown(a)' /\ Elsewhere(a)
  BY <1>1, <1>2, <1>3 DEF Types, Announced, Due, PlaceKnown, Moves, Elsewhere
<1> QED BY <1>3, <1>4, <1>5 DEF Due

LEMMA WaitDue == ASSUME JInv, NEW a \in Attempt, Wait(a) PROVE Due(a)' /\ Elsewhere(a)
<1>1. Types /\ Due(a)
  BY DEF JInv, IInv
<1>2. Moves(a, "close", "blocked") \/ Moves(a, "close", "failed")
  BY <1>1, FinallyMoves DEF Wait, States, Terminal
<1>3. ResultDue(a)'
  BY <1>1, <1>2, MoveDue DEF Wait, Places, Outcomes
<1>4. PlaceKnown(a)' /\ Elsewhere(a)
  BY <1>1, <1>2 DEF Wait, Due, PlaceKnown, Moves, Elsewhere
<1> QED BY <1>3, <1>4 DEF Due

LEMMA ReadDue == ASSUME JInv, NEW a \in Attempt, Read(a) PROVE Due(a)' /\ Elsewhere(a)
<1>1. Types /\ Due(a)
  BY DEF JInv, IInv
<1>2. PICK obs \in {"candidate", "blocked", "unknown"} : Moves(a, "publish", obs)
  BY <1>1, ResultMoves DEF Read, Places, States, Terminal
<1>3. ResultDue(a)'
  BY <1>1, <1>2, MoveDue DEF Read, Places, Outcomes
<1>4. PlaceKnown(a)' /\ Elsewhere(a)
  BY <1>1, <1>2 DEF Read, Due, PlaceKnown, Moves, Elsewhere
<1> QED BY <1>3, <1>4 DEF Due
LEMMA CloseDue == ASSUME JInv, NEW a \in Attempt, Close(a) PROVE Due(a)' /\ Elsewhere(a)
<1>1. Types /\ Due(a) /\ thread[a].obs \in Outcomes \cup {"none"}
  BY DEF JInv, IInv, Due, ResultDue
<1>2. Moves(a, "confirm", thread[a].obs) \/ Moves(a, "publish", "unknown")
  BY <1>1, StepMoves, ResultMoves DEF Close, Unconfirmed, Places, States
<1>3. \/ UNCHANGED <<active, tree>>
      \/ Killed(a)
      \/ NotKilled(a)
  BY DEF Close
<1>4. /\ active'[a].cancelled = active[a].cancelled /\ active'[a].cleanup = active[a].cleanup
      /\ active'[a].handle = active[a].handle /\ active'[a].pending = active[a].pending
      /\ active'[a].transport = "starting" => active[a].transport = "starting"
      /\ \A b \in Attempt \ {a} : active'[b] = active[b] /\ tree'[b] = tree[b]
  BY <1>1, <1>3, KilledFacts, NotKilledFacts DEF Turns
<1>5. ResultDue(a)'
  BY <1>1, <1>2, <1>4, MoveDue DEF Close, Places, Outcomes
<1>6. PlaceKnown(a)' /\ Elsewhere(a)
  BY <1>1, <1>2, <1>4 DEF Close, Due, PlaceKnown, Moves, Elsewhere
<1> QED BY <1>5, <1>6 DEF Due

LEMMA ConfirmDue == ASSUME JInv, NEW a \in Attempt, Confirm(a) PROVE Due(a)' /\ Elsewhere(a)
<1>1. Types /\ Due(a) /\ thread[a].obs \in Outcomes \cup {"none"}
  BY DEF JInv, IInv, Due, ResultDue
<1>2. Moves(a, "read", thread[a].obs) \/ Moves(a, "publish", thread[a].obs)
  BY <1>1, StepMoves DEF Confirm, Places
<1>3. /\ active'[a].transport = active[a].transport
      /\ active'[a].handle = active[a].handle
      /\ active'[a].cancelled = active[a].cancelled
      /\ active'[a].pending = active[a].pending
      /\ active'[a].cleanup
      /\ \A b \in Attempt \ {a} : active'[b] = active[b]
  BY <1>1, ZenonT(40) DEF Types, Actives, Confirm
<1>4. ResultDue(a)'
  BY <1>1, <1>2, <1>3 DEF Confirm, Due, ResultDue, AtSave, Moves
<1>5. PlaceKnown(a)' /\ Elsewhere(a)
  BY <1>1, <1>2, <1>3 DEF Confirm, Due, PlaceKnown, Moves, Elsewhere
<1> QED BY <1>4, <1>5 DEF Due

\* What is chosen fits what is on record, whoever chooses.
LEMMA ChosenDue ==
    ASSUME NEW a \in Attempt, NEW obs \in States, NEW at \in Actives, Types, Due(a),
           active[a].handle, at.handle, at.cancelled = active[a].cancelled,
           active[a].cleanup => at.cleanup,
           active' = [active EXCEPT ![a] = Choose(at, obs)],
           UNCHANGED ledger,
           ~active[a].cancelled =>
              obs \in Outcomes /\ ledger[a].state = "running" /\ thread'[a].pc \in {"save", "done"},
           thread'[a].obs \in Outcomes \cup {"none"}
    PROVE  ResultDue(a)'
<1>1. active'[a] = Choose(at, obs)
  BY DEF Types
<1>2. /\ Choose(at, obs).handle = at.handle
      /\ Choose(at, obs).cancelled = at.cancelled
      /\ Choose(at, obs).cleanup = at.cleanup
      /\ Choose(at, obs).pending = Chosen(at, obs)
  BY ChosenFields
<1>3. Chosen(at, obs) = IF at.cancelled THEN (IF at.cleanup THEN "cancelled" ELSE "unknown") ELSE obs
  BY DEF Chosen, CancelledResult
<1>4. ledger[a].state = "cancelled" => active[a].cancelled /\ active[a].cleanup
  BY DEF Due, ResultDue
<1>5. at.cleanup \in BOOLEAN /\ at.cancelled \in BOOLEAN
  BY DEF Actives
<1>6. /\ active'[a].handle /\ active'[a].cancelled = active[a].cancelled
      /\ active'[a].cleanup = at.cleanup
      /\ active'[a].pending = Chosen(at, obs)
  BY <1>1, <1>2
<1>7. CASE active[a].cancelled
  BY <1>3, <1>4, <1>5, <1>6, <1>7 DEF ResultDue, Outcomes
<1>8. CASE ~active[a].cancelled
  BY <1>3, <1>4, <1>5, <1>6, <1>8 DEF ResultDue, Outcomes
<1> QED BY <1>7, <1>8

LEMMA PublishDue == ASSUME JInv, NEW a \in Attempt, Publish(a) PROVE Due(a)' /\ Elsewhere(a)
<1>1. /\ Types /\ Due(a) /\ active[a] \in Actives /\ active[a].handle
      /\ thread[a].obs \in Outcomes /\ thread[a].obs \in States
      /\ ~active[a].cancelled => ledger[a].state = "running"
  BY AtWork DEF JInv, IInv, Types, Threads, Known, ResultKept, Due, ResultDue, Publish
<1>2. Moves(a, "save", thread[a].obs) /\ Chooses(a, thread[a].obs)
  BY <1>1, StepMoves, ChooseFacts DEF Publish, Places
<1>3. active' = [active EXCEPT ![a] = Choose(active[a], thread[a].obs)]
  BY <1>1 DEF Publish, Types
<1>4. ResultDue(a)'
  BY <1>1, <1>2, <1>3, ChosenDue DEF Publish, Moves
<1>5. PlaceKnown(a)' /\ Elsewhere(a)
  BY <1>1, <1>2 DEF Types, Publish, Due, PlaceKnown, Moves, Chooses, Elsewhere
<1> QED BY <1>4, <1>5 DEF Due

\* A save keeps the record of what is due: a cancellation is not overwritten.
LEMMA SavedDue ==
    ASSUME NEW a \in Attempt, Due(a), ResultKept(a), Saves(a), AtSave(a), active[a].handle,
           active[a].pending # "none",
           \/ thread'[a].obs = "none" /\ thread'[a].pc = "done"
           \/ thread'[a] = thread[a] /\ thread[a].pc # "save",
           ~AtSave(a)'
    PROVE  ResultDue(a)'
<1>1. active'[a].handle /\ active'[a].cancelled = active[a].cancelled
          /\ active'[a].cleanup = active[a].cleanup
  BY DEF Saves
<1>2. CASE ledger'[a].state = active[a].pending /\ active'[a].pending = "none"
  BY <1>1, <1>2 DEF Due, ResultDue, Outcomes
<1>3. CASE ledger'[a] = ledger[a] /\ active'[a].pending = active[a].pending
  BY <1>1, <1>3 DEF Due, ResultDue
<1> QED BY <1>2, <1>3 DEF Saves

LEMMA WorkerSaveDue == ASSUME JInv, NEW a \in Attempt, WorkerSave(a) PROVE Due(a)' /\ Elsewhere(a)
<1>1. /\ Types /\ Due(a) /\ active[a].handle /\ active[a].pending # "none" /\ ResultKept(a)
      /\ ~(call.pc = "save" /\ call.attempt = a)
  BY AtWork DEF JInv, IInv, Known, ResultKept, CallKnown, Locks, WorkerSave
<1>2. Moves(a, "done", "none") /\ Saves(a)
  BY <1>1, ResultMoves, SaveFacts DEF WorkerSave, Places
<1>3. AtSave(a) /\ ~AtSave(a)'
  BY <1>1, <1>2 DEF AtSave, WorkerSave, Moves
<1>4. ResultDue(a)'
  BY <1>1, <1>2, <1>3, SavedDue DEF Moves
<1>5. PlaceKnown(a)' /\ Elsewhere(a)
  BY <1>1, <1>2 DEF Types, WorkerSave, Due, PlaceKnown, Moves, Saves, Elsewhere
<1> QED BY <1>4, <1>5 DEF Due

LEMMA ThreadStepDue ==
    ASSUME JInv, NEW a \in Attempt, ThreadStep(a)
    PROVE  (\A b \in Attempt : Due(b)') /\ CallDue' /\ EpochsDue'
<1>1. Due(a)' /\ Elsewhere(a)
  BY BeginDue, ConnectDue, AuthorizeDue, SpawnDue, ResumeDue, AnnounceDue, AnnouncedDue, WaitDue,
     CloseDue, ConfirmDue, ReadDue, PublishDue, WorkerSaveDue DEF ThreadStep
<1>2. Types
  BY DEF JInv, IInv
<1>3. active'[a].cancelled = active[a].cancelled
  <2>1. CASE Publish(a)
    <3>1. Chooses(a, thread[a].obs)
      BY <1>2, <2>1, ChooseFacts DEF JInv, IInv, Known, ResultKept, Publish, Types, Threads
    <3> QED BY <3>1 DEF Chooses
  <2>2. CASE WorkerSave(a)
    BY <1>2, <2>2, SaveFacts DEF WorkerSave, Saves
  <2>3. CASE Close(a)
    BY <1>2, <2>3, KilledFacts, NotKilledFacts DEF Close, Turns
  <2>4. CASE Connect(a) \/ Spawn(a) \/ Resume(a)
    <3>1. UNCHANGED active \/ \E t \in Transports : active' = [active EXCEPT ![a].transport = t]
      BY <2>4 DEF Connect, Spawn, Resume, Transports
    <3> QED BY <1>2, <3>1, TransportTurns DEF Turns
  <2>5. CASE Confirm(a)
    BY <1>2, <2>5, ZenonT(40) DEF Types, Actives, Confirm
  <2> QED BY <2>1, <2>2, <2>3, <2>4, <2>5 DEF ThreadStep, Begin, Authorize, Announce, Announced,
        Wait, Read
<1>4. UNCHANGED <<authority, call>> /\ thread[a].pc # "done"
  BY DEF ThreadStep, Begin, Connect, Authorize, Spawn, Resume, Announce, Announced, Wait, Close,
     Confirm, Read, Publish, WorkerSave
<1>5. thread[a].pc = "publish" => thread'[a].pc = "save"
  BY <1>2 DEF ThreadStep, Begin, Connect, Authorize, Spawn, Resume, Announce, Announced, Wait, Close,
     Confirm, Read, Publish, WorkerSave, Step, Types, Threads
<1>6. thread[a].pc = "save" => thread'[a].pc = "done"
  BY <1>2 DEF ThreadStep, Begin, Connect, Authorize, Spawn, Resume, Announce, Announced, Wait, Close,
     Confirm, Read, Publish, WorkerSave, Types, Threads
<1>7. pub'[a] = "caller" => pub[a] = "caller"
  BY <1>2 DEF ThreadStep, Begin, Connect, Authorize, Spawn, Resume, Announce, Announced, Wait, Close,
     Confirm, Read, Publish, WorkerSave, Types
<1> QED BY <1>1, <1>3, <1>4, <1>5, <1>6, <1>7, ThreadDue
-----------------------------------------------------------------------------
(* What the calls leave due.                                                *)

LEMMA DispatchDue ==
    ASSUME JInv, NEW a \in Attempt, Dispatch(a)
    PROVE  (\A b \in Attempt : Due(b)') /\ CallDue' /\ EpochsDue'
<1>1. Types /\ tree[a] = "none" /\ pub[a] # "caller"
  BY DEF JInv, IInv, Known, TransportKnown, Locks, Dispatch, Quiet
<1>2. PICK started \in BOOLEAN :
          /\ active' = [active EXCEPT ![a] = [Inactive EXCEPT !.handle = TRUE, !.cleanup = ~started]]
          /\ thread' = [thread EXCEPT ![a] = IF started THEN [pc |-> "begin", obs |-> "none"]
                                             ELSE [pc |-> "publish", obs |-> "failed"]]
          /\ call' = [Quiet EXCEPT !.pc = "observe", !.attempt = a,
                                   !.result = IF started THEN "none" ELSE "launch"]
  BY DEF Dispatch
<1>3. /\ active'[a].transport = "absent" /\ ~active'[a].cancelled /\ active'[a].pending = "none"
      /\ \A b \in Attempt \ {a} : active'[b] = active[b]
  BY <1>1, <1>2 DEF Types, Inactive
<1>4. /\ thread'[a].pc = (IF started THEN "begin" ELSE "publish")
      /\ thread'[a].obs = (IF started THEN "none" ELSE "failed")
      /\ \A b \in Attempt \ {a} : thread'[b] = thread[b]
  BY <1>1, <1>2 DEF Types
<1>5. /\ call'.pc = "observe" /\ call'.attempt = a
      /\ call'.result = (IF started THEN "none" ELSE "launch")
  BY <1>2 DEF Quiet
<1>6. ledger'[a].state = "running" /\ \A b \in Attempt \ {a} : ledger'[b] = ledger[b]
  BY <1>1 DEF Types, Dispatch
<1>7. PlaceKnown(a)'
  BY <1>1, <1>3, <1>4 DEF Dispatch, PlaceKnown
<1>8. ResultDue(a)'
  BY <1>3, <1>4, <1>5, <1>6 DEF ResultDue, AtSave, Outcomes
<1>9. Elsewhere(a)
  BY <1>3, <1>4, <1>6 DEF Dispatch, Elsewhere
<1>10. CallDue'
  BY <1>1, <1>4, <1>5 DEF Dispatch, CallDue
<1>11. EpochsDue'
  BY DEF JInv, EpochsDue, Dispatch
<1> QED BY <1>5, <1>7, <1>8, <1>9, <1>10, <1>11, OthersDue DEF Due

LEMMA PollDue ==
    ASSUME JInv, NEW a \in Attempt, Poll(a)
    PROVE  (\A b \in Attempt : Due(b)') /\ CallDue' /\ EpochsDue'
<1>1. call'.pc \in {"idle", "collect"} /\ call'.result = "none"
  <2>1. call' = Quiet \/ call' = [Quiet EXCEPT !.pc = "collect", !.attempt = a]
    BY DEF Poll
  <2>2. CASE call' = Quiet
    BY <2>2 DEF Quiet
  <2>3. CASE call' = [Quiet EXCEPT !.pc = "collect", !.attempt = a]
    BY <2>3 DEF Quiet
  <2> QED BY <2>1, <2>2, <2>3
<1>2. ASSUME NEW b \in Attempt PROVE Due(b)'
  BY <1>1, <1>2 DEF JInv, Poll, Due, PlaceKnown, ResultDue, AtSave
<1> QED BY <1>1, <1>2 DEF JInv, CallDue, EpochsDue, Poll

LEMMA CollectDue ==
    ASSUME JInv, Collect PROVE (\A b \in Attempt : Due(b)') /\ CallDue' /\ EpochsDue'
<1>0. PICK a \in Attempt : a = call.attempt
  BY Called DEF JInv, Collect
<1>1. Types /\ Known(a) /\ Due(a) /\ call.result # "launch" /\ active[a] \in Actives /\ EpochsDue
  BY <1>0, Called DEF JInv, IInv, Types, CallKnown, Collect
<1>2. UNCHANGED <<authority, ledger, thread, tree, guard>>
  BY DEF Collect
<1>3. CASE active[a].pending = "none"
  <2>1. call' = Quiet /\ UNCHANGED <<active, pub>>
    BY <1>0, <1>3 DEF Collect
  <2>2. ASSUME NEW b \in Attempt PROVE Due(b)'
    BY <1>2, <2>1, <2>2 DEF JInv, Due, PlaceKnown, ResultDue, AtSave, Quiet
  <2>3. CallDue' /\ EpochsDue'
    BY <1>1, <1>2, <2>1 DEF CallDue, EpochsDue, Quiet, authority
  <2> QED BY <2>2, <2>3
<1>4. CASE active[a].pending # "none"
  <2>1. /\ active[a].handle /\ active[a].pending \in States
        /\ ~active[a].cancelled =>
              active[a].pending \in Outcomes /\ ledger[a].state = "running"
                 /\ thread[a].pc \in {"save", "done"}
        /\ thread[a].obs \in Outcomes \cup {"none"}
    BY <1>1, <1>4 DEF Actives, Known, TransportKnown, Inactive, Due, ResultDue, Outcomes
  <2>2. /\ active' = [active EXCEPT ![a] = Choose(active[a], active[a].pending)]
        /\ call' = [call EXCEPT !.pc = "save"] /\ pub' = [pub EXCEPT ![a] = "caller"]
    BY <1>0, <1>1, <1>4 DEF Types, Collect
  <2>3. Chooses(a, active[a].pending)
    BY <1>1, <2>1, <2>2, ChooseFacts
  <2>4. ResultDue(a)'
    BY <1>1, <1>2, <2>1, <2>2, ChosenDue
  <2>5. call'.pc = "save" /\ call'.attempt = a /\ call'.result = call.result
    BY <1>0, <1>1, <2>2 DEF Types, Calls
  <2>6. PlaceKnown(a)' /\ Elsewhere(a)
    BY <1>1, <1>2, <2>2, <2>3 DEF Types, Due, PlaceKnown, Chooses, Elsewhere
  <2>7. CallDue' /\ EpochsDue'
    BY <1>1, <1>2, <2>5 DEF CallDue, EpochsDue, authority
  <2> QED BY <2>4, <2>5, <2>6, <2>7, OthersDue DEF Due
<1> QED BY <1>3, <1>4

LEMMA CallerSaveDue ==
    ASSUME JInv, CallerSave PROVE (\A b \in Attempt : Due(b)') /\ CallDue' /\ EpochsDue'
<1>0. PICK a \in Attempt : a = call.attempt
  BY Called DEF JInv, CallerSave
<1>1. /\ Types /\ Due(a) /\ ResultKept(a) /\ active[a].handle /\ EpochsDue /\ call \in Calls
      /\ call.result # "launch" /\ pub[a] = "caller" /\ active[a].pending # "none"
  BY <1>0, Called DEF JInv, IInv, Types, Known, CallKnown, CallerSave
<1>2. thread[a].pc # "save" /\ AtSave(a)
  BY <1>0, <1>1 DEF JInv, IInv, Locks, AtSave, CallerSave
<1>3. Saves(a)
  BY <1>0, <1>1, SaveFacts DEF CallerSave
<1>4. /\ call'.pc = "observe" /\ call'.attempt = a /\ call'.result = call.result
      /\ UNCHANGED <<authority, thread, tree, guard, pub, told>>
  BY <1>0, <1>1 DEF CallerSave, Calls
<1>5. ResultDue(a)'
  BY <1>1, <1>2, <1>3, <1>4, SavedDue DEF AtSave
<1>6. PlaceKnown(a)' /\ Elsewhere(a)
  BY <1>1, <1>3, <1>4 DEF Due, PlaceKnown, Saves, Elsewhere
<1>7. CallDue' /\ EpochsDue'
  BY <1>1, <1>4 DEF CallDue, EpochsDue, authority
<1> QED BY <1>4, <1>5, <1>6, <1>7, OthersDue DEF Due

LEMMA ObserveDue ==
    ASSUME JInv, Observe PROVE (\A b \in Attempt : Due(b)') /\ CallDue' /\ EpochsDue'
<1>1. call' = Quiet /\ UNCHANGED <<authority, ledger, active, thread, tree>>
  BY DEF Observe
<1>2. ASSUME NEW b \in Attempt PROVE Due(b)'
  BY <1>1, <1>2 DEF JInv, Due, PlaceKnown, ResultDue, AtSave, Quiet
<1> QED BY <1>1, <1>2 DEF JInv, CallDue, EpochsDue, Quiet, authority

LEMMA CancelDue ==
    ASSUME JInv, NEW a \in Attempt, Cancel(a)
    PROVE  (\A b \in Attempt : Due(b)') /\ CallDue' /\ EpochsDue'
<1>1. Types /\ Due(a) /\ EpochsDue
  BY DEF JInv, IInv
<1>2. CASE ~active[a].handle
  <2>1. call'.pc = "observe" /\ call'.result = "none" /\ UNCHANGED <<authority, ledger, active, thread, tree, pub>>
    BY <1>2 DEF Cancel, Quiet
  <2>2. ASSUME NEW b \in Attempt PROVE Due(b)'
    BY <2>1, <2>2 DEF JInv, Due, PlaceKnown, ResultDue, AtSave
  <2> QED BY <1>1, <2>1, <2>2 DEF CallDue, EpochsDue, authority
<1>3. CASE active[a].handle
  <2>1. /\ call'.pc = "shut" /\ call'.attempt = a /\ call'.result = "none" /\ pub[a] = "free"
        /\ UNCHANGED <<authority, ledger, thread, tree, guard, pub>>
    BY <1>3 DEF Cancel, Quiet
  <2>2. active[a] \in Actives /\ active' = [active EXCEPT ![a] = Revoked(@)]
    BY <1>1, <1>3 DEF Types, Cancel
  <2>3. active'[a] = Revoked(active[a]) /\ \A b \in Attempt \ {a} : active'[b] = active[b]
    BY <1>1, <2>2 DEF Types
  <2>4. /\ active'[a].handle /\ active'[a].transport = active[a].transport
        /\ active'[a].cleanup = active[a].cleanup /\ active'[a].cancelled
        /\ active'[a].pending = IF active[a].pending = "none" THEN "none"
                                ELSE CancelledResult(active[a].cleanup)
    BY <1>3, <2>2, <2>3, RevokedFields
  <2>5. thread[a].pc # "save"
    BY <2>1 DEF JInv, IInv, Locks
  <2>6. active'[a].pending \in {"none", "unknown", "cancelled"}
            /\ (active'[a].pending = "cancelled" => active[a].cleanup)
    BY <2>4 DEF CancelledResult
  <2>7. ResultDue(a)'
    BY <1>1, <1>3, <2>1, <2>4, <2>5, <2>6 DEF Due, ResultDue, AtSave, Outcomes
  <2>8. PlaceKnown(a)' /\ Elsewhere(a)
    BY <1>1, <2>1, <2>3, <2>4 DEF Due, PlaceKnown, Elsewhere
  <2>9. CallDue' /\ EpochsDue'
    BY <1>1, <2>1, <2>4 DEF CallDue, EpochsDue, authority
  <2> QED BY <2>1, <2>7, <2>8, <2>9, OthersDue DEF Due
<1> QED BY <1>2, <1>3

LEMMA ShutDue ==
    ASSUME JInv, Shut PROVE (\A b \in Attempt : Due(b)') /\ CallDue' /\ EpochsDue'
<1>0. PICK a \in Attempt : a = call.attempt
  BY Called DEF JInv, Shut
<1>1. /\ Types /\ Due(a) /\ active[a].cancelled /\ call.result # "launch" /\ EpochsDue
      /\ call \in Calls
  BY <1>0, Called DEF JInv, IInv, Types, CallKnown, CallDue, Shut
<1>2. UNCHANGED <<authority, ledger, thread, guard, pub, told>>
      /\ (UNCHANGED <<active, tree>> \/ Killed(a) \/ NotKilled(a))
  BY <1>0 DEF Shut
<1>3. call'.pc = "settle" /\ call'.attempt = a /\ call'.result # "launch"
  BY <1>0, <1>1, ZenonT(40) DEF Shut, Calls
<1>4. /\ active'[a].cancelled = active[a].cancelled /\ active'[a].cleanup = active[a].cleanup
      /\ active'[a].handle = active[a].handle /\ active'[a].pending = active[a].pending
      /\ active'[a].transport = "starting" => active[a].transport = "starting"
      /\ active[a].transport = "starting" => UNCHANGED tree
      /\ tree[a] = "none" => tree'[a] = "none"
      /\ \A b \in Attempt \ {a} : active'[b] = active[b] /\ tree'[b] = tree[b]
  <2>1. CASE UNCHANGED <<active, tree>>
    BY <2>1
  <2>2. CASE Killed(a)
    BY <1>1, <2>2, KilledFacts DEF Turns
  <2>3. CASE NotKilled(a)
    <3>1. /\ Turns(a, "closed") /\ active[a].transport # "starting" /\ tree[a] # "none"
          /\ \A b \in Attempt \ {a} : tree'[b] = tree[b]
      BY <1>1, <2>3, NotKilledFacts
    <3> QED BY <3>1 DEF Turns
  <2> QED BY <1>2, <2>1, <2>2, <2>3
<1>5. thread[a].pc = "resume" => active[a].transport = "starting"
  BY DEF JInv, IInv, Known, TransportKnown
<1>6. Due(a)'
  BY <1>1, <1>2, <1>3, <1>4, <1>5 DEF Due, PlaceKnown, ResultDue, AtSave
<1>7. CallDue' /\ EpochsDue' /\ Elsewhere(a)
  BY <1>1, <1>2, <1>3, <1>4 DEF CallDue, EpochsDue, authority, Elsewhere
<1> QED BY <1>3, <1>6, <1>7, OthersDue

LEMMA SettleDue ==
    ASSUME JInv, Settle PROVE (\A b \in Attempt : Due(b)') /\ CallDue' /\ EpochsDue'
<1>0. PICK a \in Attempt : a = call.attempt
  BY Called DEF JInv, Settle
<1> DEFINE confirmed == call.captured /\ call.result = "none" /\ active[a].transport = "clean"
           at == [active[a] EXCEPT !.cleanup = @ \/ confirmed]
           obs == IF call.result # "none" THEN call.result
                  ELSE IF active[a].pending # "none" THEN active[a].pending ELSE ledger[a].state
<1>1. /\ ledger[a].state \in States /\ Types /\ active[a].handle /\ active[a].cancelled /\ Due(a)
      /\ active[a] \in Actives /\ call \in Calls /\ EpochsDue
      /\ call.result # "launch" /\ call.attempt = a
      /\ thread[a].obs \in Outcomes \cup {"none"}
  BY <1>0, Called DEF JInv, IInv, Settle, CallKnown, CallDue, Types, Due, ResultDue
<1>3. /\ at \in Actives /\ at.handle = active[a].handle
      /\ at.transport = active[a].transport
      /\ at.cancelled = active[a].cancelled /\ (active[a].cleanup => at.cleanup)
      /\ at.pending = active[a].pending
  BY <1>1 DEF Actives
<1>4. obs \in States
  BY <1>1 DEF Actives, Calls, States
<1>5. /\ active' = [active EXCEPT ![a] = Choose(at, obs)]
      /\ pub' = [pub EXCEPT ![a] = "caller"] /\ call' = [call EXCEPT !.pc = "save"]
      /\ UNCHANGED <<authority, ledger, thread, tree, guard, told>>
  BY <1>0, <1>3 DEF Settle
<1> HIDE DEF at, obs, confirmed
<1>6. ResultDue(a)'
  BY <1>1, <1>3, <1>4, <1>5, ChosenDue
<1>7. /\ active'[a].transport = active[a].transport
      /\ \A b \in Attempt \ {a} : active'[b] = active[b]
  BY <1>1, <1>3, <1>4, <1>5, ChosenFields DEF Types
<1>8. call'.pc = "save" /\ call'.attempt = a /\ call'.result = call.result
  BY <1>1, <1>5 DEF Calls
<1>9. PlaceKnown(a)' /\ Elsewhere(a)
  BY <1>1, <1>5, <1>7 DEF Types, Due, PlaceKnown, Elsewhere
<1>10. CallDue' /\ EpochsDue'
  BY <1>1, <1>5, <1>8 DEF CallDue, EpochsDue, authority
<1> QED BY <1>6, <1>8, <1>9, <1>10, OthersDue DEF Due
-----------------------------------------------------------------------------
(* The rest of the world, and the second invariant.                         *)

LEMMA AuthorityDue ==
    ASSUME JInv, EpochsDue', UNCHANGED <<ledger, active, thread, tree, guard, pub, call, told>>
    PROVE  (\A b \in Attempt : Due(b)') /\ CallDue' /\ EpochsDue'
<1>1. ASSUME NEW b \in Attempt PROVE Due(b)'
  BY <1>1 DEF JInv, Due, PlaceKnown, ResultDue, AtSave
<1> QED BY <1>1 DEF JInv, CallDue

LEMMA CrashDue ==
    ASSUME JInv, Crash PROVE (\A b \in Attempt : Due(b)') /\ CallDue' /\ EpochsDue'
<1>1. /\ \A a \in Attempt : active'[a] = Inactive
      /\ \A a \in Attempt : thread'[a].pc = "none" /\ thread'[a].obs = "none"
      /\ call' = Quiet /\ UNCHANGED authority
  BY DEF Crash
<1>2. ASSUME NEW b \in Attempt PROVE Due(b)'
  BY <1>1, <1>2 DEF Due, PlaceKnown, ResultDue, AtSave, Inactive, Quiet
<1> QED BY <1>1, <1>2 DEF JInv, CallDue, EpochsDue, authority, Quiet

LEMMA InitJInv == Init => JInv
<1> SUFFICES ASSUME Init PROVE JInv
  OBVIOUS
<1>1. IInv
  BY InitInv
<1>2. ASSUME NEW a \in Attempt PROVE Due(a)
  BY <1>2 DEF Init, Due, PlaceKnown, ResultDue, AtSave, Inactive, Quiet
<1> QED BY <1>1, <1>2 DEF Init, JInv, CallDue, EpochsDue, Quiet

LEMMA JInvStep == JInv /\ [Next]_vars => JInv'
<1> SUFFICES ASSUME JInv, [Next]_vars PROVE JInv'
  OBVIOUS
<1> DEFINE More == (\A b \in Attempt : Due(b)') /\ CallDue' /\ EpochsDue'
<1>1. IInv'
  BY InvStep DEF JInv
<1>2. ASSUME NEW a \in Attempt, Dispatch(a) PROVE More
  BY <1>2, DispatchDue
<1>3. ASSUME NEW a \in Attempt, Poll(a) PROVE More
  BY <1>3, PollDue
<1>4. ASSUME NEW a \in Attempt, Cancel(a) PROVE More
  BY <1>4, CancelDue
<1>5. ASSUME NEW a \in Attempt, ThreadStep(a) PROVE More
  BY <1>5, ThreadStepDue
<1>6. ASSUME CallStep PROVE More
  BY <1>6, CollectDue, CallerSaveDue, ObserveDue, ShutDue, SettleDue DEF CallStep
<1>7. ASSUME Takeover \/ ForeignCall PROVE More
  <2>1. EpochsDue'
    BY <1>7, EpochAssumption DEF JInv, IInv, Types, EpochsDue, Takeover, ForeignCall
  <2> QED BY <1>7, <2>1, AuthorityDue DEF Takeover, ForeignCall
<1>8. ASSUME Crash PROVE More
  BY <1>8, CrashDue
<1>9. ASSUME UNCHANGED vars PROVE More
  BY <1>9, AuthorityDue DEF vars, authority, JInv, EpochsDue
<1>10. More
  BY <1>2, <1>3, <1>4, <1>5, <1>6, <1>7, <1>8, <1>9 DEF Next
<1> QED BY <1>1, <1>10 DEF JInv

LEMMA JInvariance == PortSpec => []JInv
  BY InitJInv, JInvStep, PTL DEF PortSpec

-----------------------------------------------------------------------------
(* The port implements the worker ledger, step by step.                     *)

\* What the ledger sees of the attempts.
Fences == [a \in Attempt |-> ledger[a].fence]
Results == [a \in Attempt |-> ledger[a].state]
Homes == [a \in Attempt |-> IF active[a].handle THEN "port" ELSE Nobody]
Revocations == [a \in Attempt |-> active[a].cancelled]
Answers == [c \in {"port"} |-> told]

\* A step that the ledger does not see.
LEMMA Unseen ==
    ASSUME UNCHANGED <<epoch, highest, ledger, tree, told>>,
           \A a \in Attempt : /\ active'[a].handle = active[a].handle
                              /\ active'[a].cancelled = active[a].cancelled
    PROVE  UNCHANGED Ledger!vars
<1>1. UNCHANGED <<Fences, Results, Homes, Revocations, Answers>>
  BY DEF Fences, Results, Homes, Revocations, Answers
<1>2. Tasks' = Tasks
  BY DEF Tasks
<1> QED BY <1>1, <1>2 DEF Ledger!vars, Ledger!workers, Fences, Results, Homes, Revocations, Answers

\* The same, but something has been said.
LEMMA Answered ==
    ASSUME UNCHANGED <<epoch, highest, ledger, active, tree>>,
           NEW a \in Attempt, NEW state \in {Observation(a), "unknown"},
           ledger[a].state # "none",
           told' = [attempt |-> a, state |-> state]
    PROVE  Ledger!Tell("port", a)
<1>1. Answers' = [Answers EXCEPT !["port"] = [attempt |-> a, state |-> state]]
  BY DEF Answers
<1>2. UNCHANGED <<Fences, Results, Homes, Revocations, Tasks>>
  BY DEF Fences, Results, Homes, Revocations, Tasks
<1>3. Ledger!Says("port", a, state)
  BY <1>1 DEF Ledger!Says, Answers
<1>4. UNCHANGED <<epoch, highest, Ledger!workers>>
  BY <1>2 DEF Ledger!workers, Fences, Results, Homes, Revocations
<1>5. state = "unknown" \/ (Ledger!Known("port", a) /\ state = ledger[a].state)
  BY AttemptsAssumption DEF Ledger!Known, Ledger!Cancelling, Ledger!Final, Observation, Terminal
<1>6. Ledger!Says("port", a, "unknown") \/ (Ledger!Known("port", a) /\ Ledger!Says("port", a, Results[a]))
  BY <1>3, <1>5 DEF Results
<1> QED BY <1>4, <1>6 DEF Ledger!Tell, Results

\* A call that has not been answered yet.
LEMMA Unanswered ==
    ASSUME told' = Untold
    PROVE  Ledger!Forgets("port")
  BY DEF Ledger!Forgets, Ledger!NoAnswer, Untold

\* What keeps others out of a worktree in the ledger is busy for the port.
LEMMA KeepsBusy ==
    ASSUME JInv, NEW a \in Attempt, NEW b \in Attempt \ {a},
           Ledger!Keeps(b, "port", a \in Writer)
    PROVE  Busy(a)
<1>1. /\ Types /\ ledger[b].state \in States \cup {"none"}
      /\ active[b].cancelled => active[b].handle
      /\ active[b].cancelled => active[b].unconfirmed \/ ledger[b].state \in {"unknown", "cancelled"}
  BY DEF JInv, IInv, Types, Known, TransportKnown, ResultKept, Inactive
<1> DEFINE foreign == ~active[b].handle
           leaving == active[b].handle /\ active[b].cancelled /\ ledger[b].state # "cancelled"
<1>2. /\ ledger[b].state # "none"
      /\ ledger[b].state \notin Terminal \/ leaving
      /\ a \in Writer \/ b \in Writer \/ ledger[b].state = "unknown" \/ leaving \/ foreign
  BY AttemptsAssumption DEF Ledger!Keeps, Ledger!Cancelling, Ledger!Final, Terminal, Tasks
<1>3. leaving => active[b].unconfirmed \/ ledger[b].state = "unknown"
  BY <1>1
<1> HIDE DEF leaving, foreign
<1>4. CASE leaving
  BY <1>2, <1>3, <1>4 DEF Busy, leaving, Terminal
<1>5. CASE ~leaving
  BY <1>2, <1>5 DEF Busy, foreign, Terminal
<1> QED BY <1>4, <1>5

LEMMA DispatchLedger == ASSUME JInv, NEW a \in Attempt, Dispatch(a) PROVE Ledger!Next
<1>1. Types /\ fence <= epoch /\ ~active[a].handle /\ active[a] = Inactive
  BY DEF JInv, IInv, EpochsDue, Known, TransportKnown, Dispatch
<1>2. /\ active'[a].handle /\ active'[a].cancelled = FALSE /\ active[a].cancelled = FALSE
      /\ \A b \in Attempt \ {a} : active'[b] = active[b]
  BY <1>1 DEF Types, Inactive, Dispatch
<1>3. ledger'[a].state = "running" /\ ledger'[a].fence = highest'
          /\ \A b \in Attempt \ {a} : ledger'[b] = ledger[b]
  BY <1>1 DEF Types, Dispatch
<1>4. Results' = [Results EXCEPT ![a] = "running"] /\ Fences' = [Fences EXCEPT ![a] = highest']
  <2>1. Results' = [Results EXCEPT ![a] = "running"]
    BY <1>3 DEF Results
  <2>2. Fences' = [Fences EXCEPT ![a] = highest']
    BY <1>3 DEF Fences
  <2> QED BY <2>1, <2>2
<1>5. Homes' = [Homes EXCEPT ![a] = "port"]
  BY <1>2 DEF Homes
<1>6. Revocations' = Revocations /\ Tasks' = Tasks
  <2>1. \A b \in Attempt : active'[b].cancelled = active[b].cancelled
    BY <1>2
  <2> QED BY <2>1 DEF Revocations, Tasks
<1>7. \A b \in Attempt \ {a} : ~Ledger!Keeps(b, "port", a \in Writer)
  BY KeepsBusy DEF Dispatch
<1>8. Results[a] = "none" /\ Tasks[a].write = (a \in Writer) /\ highest' \in highest .. epoch
  <2>1. highest' \in highest .. epoch
    BY <1>1, EpochAssumption DEF Types, Dispatch
  <2> QED BY <2>1 DEF Dispatch, Results, Tasks
<1>9. Ledger!Forgets("port")
  BY Unanswered DEF Dispatch
<1>10. Ledger!Register("port", a)
  BY <1>4, <1>5, <1>6, <1>7, <1>8, <1>9
  DEF Dispatch, Ledger!Register, Results, Fences, Homes, Revocations, Tasks
<1> QED BY <1>10 DEF Ledger!Next

LEMMA PollLedger == ASSUME JInv, NEW a \in Attempt, Poll(a) PROVE Ledger!Next
<1>1. Types /\ fence <= epoch
  BY DEF JInv, IInv, EpochsDue
<1>2. UNCHANGED <<Fences, Results, Homes, Revocations, Tasks>>
  BY DEF Poll, Fences, Results, Homes, Revocations, Tasks
<1>3. CASE highest' = fence /\ fence >= highest /\ told' = Untold
  <2>1. highest' \in highest .. epoch /\ Ledger!Forgets("port")
    BY <1>1, <1>3, Unanswered, EpochAssumption DEF Types
  <2>2. Ledger!Fenced("port")
    BY <1>2, <2>1 DEF Poll, Ledger!Fenced, Ledger!workers, Fences, Results, Homes, Revocations
  <2> QED BY <2>2 DEF Ledger!Next
<1>4. CASE told' = [attempt |-> a, state |-> "unknown"] /\ UNCHANGED highest
  <2>1. Ledger!Tell("port", a)
    BY <1>4, Answered DEF Poll
  <2> QED BY <2>1 DEF Ledger!Next
<1> QED BY <1>3, <1>4 DEF Poll

LEMMA CancelLedger == ASSUME JInv, NEW a \in Attempt, Cancel(a) PROVE Ledger!Next
<1>1. Types /\ Ledger!Forgets("port") /\ Tasks' = Tasks
  BY Unanswered DEF JInv, IInv, Cancel, Tasks
<1>2. CASE ~active[a].handle
  <2>1. UNCHANGED <<Fences, Results, Homes, Revocations>>
    BY <1>2 DEF Cancel, Fences, Results, Homes, Revocations
  <2>2. Ledger!Forget("port")
    BY <1>1, <1>2, <2>1
    DEF Cancel, authority, Ledger!Forget, Ledger!workers, Fences, Results, Homes, Revocations
  <2> QED BY <2>2 DEF Ledger!Next
<1>3. CASE active[a].handle
  <2>1. active[a] \in Actives /\ active'[a] = Revoked(active[a])
            /\ \A b \in Attempt \ {a} : active'[b] = active[b]
    BY <1>1, <1>3 DEF Types, Cancel
  <2>2. active'[a].handle /\ active'[a].cancelled = TRUE
    BY <1>3, <2>1 DEF Revoked, Actives
  <2>3. Homes' = Homes /\ Revocations' = [Revocations EXCEPT ![a] = TRUE] /\ Homes[a] = "port"
    BY <1>3, <2>1, <2>2 DEF Homes, Revocations
  <2>4. UNCHANGED <<Fences, Results>>
    BY DEF Cancel, Fences, Results
  <2>5. Ledger!Cancel("port", a)
    BY <1>1, <2>3, <2>4 DEF Cancel, authority, Ledger!Cancel, Homes, Revocations, Fences, Results
  <2> QED BY <2>5 DEF Ledger!Next
<1> QED BY <1>2, <1>3

LEMMA ObserveLedger == ASSUME JInv, Observe PROVE Ledger!Next
<1>1. PICK a \in Attempt : a = call.attempt /\ ledger[a].state # "none"
  BY Called DEF JInv, Observe
<1>2. PICK state \in {Observation(a), "unknown"} : told' = [attempt |-> a, state |-> state]
  BY <1>1 DEF Observe
<1>3. Ledger!Tell("port", a)
  BY <1>1, <1>2, Answered DEF Observe, authority
<1> QED BY <1>3 DEF Ledger!Next

LEMMA CollectLedger == ASSUME JInv, Collect PROVE [Ledger!Next]_(Ledger!vars)
<1>1. PICK a \in Attempt : a = call.attempt /\ ledger[a].state # "none" /\ Types /\ Known(a)
  BY Called DEF JInv, Collect
<1>2. CASE active[a].pending = "none"
  <2>1. Ledger!Tell("port", a)
    BY <1>1, <1>2, Answered DEF Collect, authority
  <2> QED BY <2>1 DEF Ledger!Next
<1>3. CASE active[a].pending # "none"
  <2>1. active' = [active EXCEPT ![a] = Choose(@, active[a].pending)]
    BY <1>1, <1>3 DEF Types, Collect
  <2>2. Chooses(a, active[a].pending)
    BY <1>1, <1>3, <2>1, ChooseFacts DEF Types, Actives
  <2> QED BY <1>1, <1>3, <2>2, Unseen DEF Collect, authority, Chooses
<1> QED BY <1>2, <1>3

LEMMA SettleLedger == ASSUME JInv, Settle PROVE [Ledger!Next]_(Ledger!vars)
<1>1. PICK a \in Attempt : a = call.attempt
  BY Called DEF JInv, Settle
<1>2. Types /\ IInv' /\ active[a] \in Actives
  BY <1>1, SettleStep DEF JInv, IInv, Types
<1>3. PICK at, obs : /\ active' = [active EXCEPT ![a] = Choose(at, obs)]
                     /\ at.handle = active[a].handle /\ at.cancelled = active[a].cancelled
                     /\ at \in Actives
  <2> DEFINE at == [active[a] EXCEPT !.cleanup = @ \/ (call.captured /\ call.result = "none" /\ active[a].transport = "clean")]
  <2>1. at.handle = active[a].handle /\ at.cancelled = active[a].cancelled /\ at \in Actives
    BY <1>2 DEF Actives
  <2>2. \E obs : active' = [active EXCEPT ![a] = Choose(at, obs)]
    BY <1>1 DEF Settle
  <2> QED BY <2>1, <2>2
<1>4. Choose(at, obs).handle = at.handle /\ Choose(at, obs).cancelled = at.cancelled
  BY <1>3 DEF Choose, Actives
<1>5. \A b \in Attempt : active'[b].handle = active[b].handle /\ active'[b].cancelled = active[b].cancelled
  BY <1>2, <1>3, <1>4 DEF Types
<1> QED BY <1>5, Unseen DEF Settle, authority

\* A save records the result, or nothing that anybody else can see.
LEMMA SaveLedger ==
    ASSUME JInv, NEW a \in Attempt, Save(a), AtSave(a), active[a].handle,
           active[a].pending # "none", UNCHANGED <<authority, tree, told>>
    PROVE  [Ledger!Next]_(Ledger!vars)
<1>1. Types /\ active[a] \in Actives /\ Due(a) /\ Known(a)
  BY DEF JInv, IInv, Types
<1>2. CASE active' = [active EXCEPT ![a] = NotSaved(@)] /\ UNCHANGED ledger
  <2>1. \A b \in Attempt : active'[b].handle = active[b].handle /\ active'[b].cancelled = active[b].cancelled
    BY <1>1, <1>2, SavedFields DEF Types
  <2> QED BY <1>2, <2>1, Unseen DEF authority
<1>3. CASE ledger' = [ledger EXCEPT ![a].state = active[a].pending]
           /\ active' = [active EXCEPT ![a] = Saved(@)]
  <2>1. \A b \in Attempt : active'[b].handle = active[b].handle /\ active'[b].cancelled = active[b].cancelled
    BY <1>1, <1>3, SavedFields DEF Types
  <2>2. UNCHANGED <<Homes, Revocations, Tasks, Answers>> /\ Homes[a] = "port"
    BY <2>1 DEF Homes, Revocations, Tasks, Answers
  <2>3. /\ \A b \in Attempt : ledger'[b].fence = ledger[b].fence
        /\ \A b \in Attempt : ledger'[b].state = IF b = a THEN active[a].pending ELSE ledger[b].state
    BY <1>1, <1>3 DEF Types
  <2>4. Fences' = Fences /\ Results' = [Results EXCEPT ![a] = active[a].pending]
    BY <2>3 DEF Fences, Results
  <2>5. active[a].pending \in Ledger!Recordable(a)
    <3>1. CASE ~active[a].cancelled
      <4>1. active[a].pending \in Outcomes /\ ledger[a].state = "running"
        BY <1>1, <3>1 DEF Due, ResultDue, Outcomes
      <4> QED BY <3>1, <4>1 DEF Ledger!Recordable, Outcomes
    <3>2. CASE active[a].cancelled
      <4>1. active[a].pending \in {"unknown", "cancelled"}
                /\ (ledger[a].state = "cancelled" => active[a].pending = "cancelled")
        BY <1>1, <3>2 DEF Due, ResultDue, Known, ResultKept
      <4> QED BY <3>2, <4>1 DEF Ledger!Recordable
    <3> QED BY <3>1, <3>2
  <2>6. active[a].pending \in Terminal => tree[a] \notin {"suspended", "live"}
    BY <1>1 DEF Known, EndKnown, Says, Over, Present
  <2>7. Homes[a] # Nobody /\ tree'[a] = tree[a]
    BY <2>2, AttemptsAssumption
  <2>8. Ledger!Record(a)
    BY <2>2, <2>4, <2>5, <2>6, <2>7
    DEF Ledger!Record, Ledger!Final, Terminal, authority, Fences, Results, Homes, Revocations, Answers
  <2> QED BY <2>8 DEF Ledger!Next
<1> QED BY <1>2, <1>3 DEF Save

\* The close of a transport ends the processes of an attempt, or leaves them.
LEMMA CloseLedger ==
    ASSUME JInv, NEW a \in Attempt, ledger[a].state # "none",
           UNCHANGED <<authority, ledger, told>>,
           UNCHANGED <<active, tree>> \/ Killed(a) \/ NotKilled(a)
    PROVE  [Ledger!Next]_(Ledger!vars)
<1>1. Types
  BY DEF JInv, IInv
<1>2. \A b \in Attempt : active'[b].handle = active[b].handle /\ active'[b].cancelled = active[b].cancelled
  BY <1>1, KilledFacts, NotKilledFacts DEF Turns
<1>3. tree' = tree \/ tree' = [tree EXCEPT ![a] = "gone"]
  BY <1>1 DEF Types, Killed, NotKilled
<1>4. CASE tree' = tree
  BY <1>2, <1>4, Unseen DEF authority
<1>5. CASE tree' = [tree EXCEPT ![a] = "gone"]
  <2>1. UNCHANGED <<Fences, Results, Homes, Revocations, Tasks, Answers>> /\ Results[a] # "none"
    BY <1>2 DEF Fences, Results, Homes, Revocations, Tasks, Answers
  <2>2. Ledger!Gone(a)
    BY <1>5, <2>1 DEF Ledger!Gone, authority, Fences, Results, Homes, Revocations, Answers
  <2> QED BY <2>2 DEF Ledger!Next
<1> QED BY <1>3, <1>4, <1>5

LEMMA SpawnLedger == ASSUME JInv, NEW a \in Attempt, Spawn(a) PROVE [Ledger!Next]_(Ledger!vars)
<1>1. Types /\ active[a].handle /\ ledger[a].state # "none"
  BY AtWork DEF JInv, IInv, Spawn
<1>2. CASE UNCHANGED <<active, tree>>
  BY <1>2, Unseen DEF Spawn, authority
<1>3. CASE /\ active' = [active EXCEPT ![a].transport = "starting"] /\ ~active[a].cancelled
           /\ tree' = [tree EXCEPT ![a] = "suspended"]
  <2>1. tree[a] = "none" /\ ledger[a].state = "running"
    BY <1>1, <1>3 DEF JInv, Due, PlaceKnown, ResultDue, Spawn
  <2>2. Turns(a, "starting")
    BY <1>1, <1>3, TransportTurns DEF Transports
  <2>3. \A b \in Attempt : active'[b].handle = active[b].handle /\ active'[b].cancelled = active[b].cancelled
    BY <2>2 DEF Turns
  <2>4. UNCHANGED <<Fences, Results, Homes, Revocations, Tasks, Answers>>
    BY <2>3 DEF Spawn, Fences, Results, Homes, Revocations, Tasks, Answers
  <2>5. Homes[a] # Nobody /\ Results[a] = "running" /\ ~Revocations[a]
    BY <1>1, <1>3, <2>1, AttemptsAssumption DEF Homes, Results, Revocations
  <2>6. Ledger!Create(a)
    BY <1>3, <2>1, <2>4, <2>5 DEF Spawn, Ledger!Create, authority, Fences, Results, Homes, Revocations, Answers
  <2> QED BY <2>6 DEF Ledger!Next
<1> QED BY <1>2, <1>3 DEF Spawn

LEMMA ResumeLedger == ASSUME JInv, NEW a \in Attempt, Resume(a) PROVE [Ledger!Next]_(Ledger!vars)
<1>1. Types /\ active[a].handle /\ ledger[a].state # "none" /\ tree[a] = "suspended"
  BY AtWork DEF JInv, IInv, Due, PlaceKnown, Resume
<1>2. Turns(a, "running")
  BY <1>1, TransportTurns DEF Resume, Transports
<1>3. \A b \in Attempt : active'[b].handle = active[b].handle /\ active'[b].cancelled = active[b].cancelled
  BY <1>2 DEF Turns
<1>4. UNCHANGED <<Fences, Results, Homes, Revocations, Tasks, Answers>> /\ Results[a] # "none"
  BY <1>1, <1>3 DEF Resume, Fences, Results, Homes, Revocations, Tasks, Answers
<1>5. CASE Authorized(a) /\ tree' = [tree EXCEPT ![a] = "live"]
  <2>1. ledger[a].state = "running" /\ ~active[a].cancelled
    BY <1>1, <1>5 DEF JInv, Due, ResultDue, Resume, Authorized
  <2>2. Homes[a] # Nobody /\ Results[a] = "running" /\ ~Revocations[a]
            /\ Fences[a] = epoch /\ Fences[a] = highest
    BY <1>1, <1>5, <2>1, AttemptsAssumption DEF Homes, Results, Revocations, Fences, Authorized
  <2>3. Ledger!Launch(a)
    BY <1>1, <1>4, <1>5, <2>2 DEF Resume, Ledger!Launch, authority, Fences, Results, Homes, Revocations, Answers
  <2> QED BY <2>3 DEF Ledger!Next
<1>6. CASE tree' = [tree EXCEPT ![a] = "suspended"]
  <2>1. tree' = tree
    BY <1>1, <1>6 DEF Types
  <2> QED BY <1>3, <2>1, Unseen DEF Resume, authority
<1>7. CASE tree' = [tree EXCEPT ![a] = "gone"]
  <2>1. Ledger!Gone(a)
    BY <1>4, <1>7 DEF Resume, Ledger!Gone, authority, Fences, Results, Homes, Revocations, Answers
  <2> QED BY <2>1 DEF Ledger!Next
<1> QED BY <1>5, <1>6, <1>7 DEF Resume

\* The other steps of a thread are its own.
LEMMA ThreadLedger == ASSUME JInv, NEW a \in Attempt, ThreadStep(a) PROVE [Ledger!Next]_(Ledger!vars)
<1>1. Types
  BY DEF JInv, IInv
<1>2. CASE Begin(a) \/ Authorize(a) \/ Announce(a) \/ Wait(a) \/ Read(a)
  BY <1>2, Unseen DEF Begin, Authorize, Announce, Wait, Read, authority
<1>3. CASE Announced(a)
  BY <1>3, AnnouncedDue, Unseen DEF Announced, authority
<1>4. CASE Connect(a)
  <2>1. Turns(a, "open")
    BY <1>1, <1>4, TransportTurns DEF Connect, Transports
  <2> QED BY <1>4, <2>1, Unseen DEF Connect, Turns, authority
<1>5. CASE Close(a)
  <2>1. ledger[a].state # "none"
    BY <1>5, AtWork DEF JInv, Close
  <2> QED BY <1>5, <2>1, CloseLedger DEF Close
<1>6. CASE Confirm(a)
  <2>1. \A b \in Attempt : active'[b].handle = active[b].handle /\ active'[b].cancelled = active[b].cancelled
    BY <1>1, <1>6, ZenonT(40) DEF Types, Actives, Confirm
  <2> QED BY <1>6, <2>1, Unseen DEF Confirm, authority
<1>7. CASE Publish(a)
  <2>1. Chooses(a, thread[a].obs)
    BY <1>1, <1>7, ChooseFacts DEF JInv, IInv, Known, ResultKept, Publish, Types, Threads
  <2> QED BY <1>7, <2>1, Unseen DEF Publish, Chooses, authority
<1>8. CASE WorkerSave(a)
  <2>1. AtSave(a) /\ active[a].handle /\ active[a].pending # "none"
    BY <1>8, AtWork DEF JInv, IInv, Known, ResultKept, AtSave, WorkerSave
  <2> QED BY <1>8, <2>1, SaveLedger DEF WorkerSave, authority
<1> QED BY <1>2, <1>3, <1>4, <1>5, <1>6, <1>7, <1>8, SpawnLedger, ResumeLedger DEF ThreadStep

LEMMA CallLedger == ASSUME JInv, CallStep PROVE [Ledger!Next]_(Ledger!vars)
<1>1. CASE CallerSave
  <2>1. PICK a \in Attempt : a = call.attempt /\ active[a].handle /\ active[a].pending # "none"
    BY <1>1, Called DEF JInv, CallKnown, CallerSave
  <2> QED BY <1>1, <2>1, SaveLedger DEF CallerSave, AtSave, authority
<1>2. CASE Shut
  <2>1. PICK a \in Attempt : a = call.attempt /\ ledger[a].state # "none"
    BY <1>2, Called DEF JInv, Shut
  <2>2. UNCHANGED <<active, tree>> \/ Killed(a) \/ NotKilled(a)
    BY <1>2, <2>1 DEF Shut
  <2> QED BY <1>2, <2>1, <2>2, CloseLedger DEF Shut
<1> QED BY <1>1, <1>2, CollectLedger, ObserveLedger, SettleLedger DEF CallStep

LEMMA WorldLedger == ASSUME JInv, Takeover \/ ForeignCall PROVE Ledger!Next
<1>1. UNCHANGED <<Fences, Results, Homes, Revocations, Tasks, Answers>>
  BY DEF Takeover, ForeignCall, Fences, Results, Homes, Revocations, Tasks, Answers
<1>2. CASE Takeover
  <2>1. Ledger!NewEpoch
    BY <1>1, <1>2
    DEF Takeover, Ledger!NewEpoch, Ledger!workers, Fences, Results, Homes, Revocations, Answers
  <2> QED BY <2>1 DEF Ledger!Next
<1>3. CASE ForeignCall
  <2>1. highest' \in highest .. epoch
    BY <1>3, EpochAssumption DEF JInv, IInv, Types, ForeignCall
  <2>2. Ledger!Fenced("port")
    BY <1>1, <1>3, <2>1
    DEF ForeignCall, Ledger!Fenced, Ledger!workers, Fences, Results, Homes, Revocations, Answers
  <2> QED BY <2>2 DEF Ledger!Next
<1> QED BY <1>2, <1>3

LEMMA CrashLedger == ASSUME JInv, Crash PROVE Ledger!Next
<1>1. /\ \A a \in Attempt : active'[a] = Inactive
      /\ told' = Untold /\ UNCHANGED <<authority, ledger>>
  BY DEF Crash
<1>2. PICK survivors \in SUBSET {a \in Attempt : tree[a] \in {"suspended", "live"}} :
          tree' = [a \in Attempt |-> IF a \in survivors \/ tree[a] = "none" THEN tree[a] ELSE "gone"]
  BY DEF Crash
<1>3. \A a \in Attempt : ledger[a].state = "none" => tree[a] = "none"
  BY DEF JInv, IInv, Known, TransportKnown
<1>0. \A a \in Attempt : /\ active[a].cancelled = TRUE => active[a].handle
                         /\ active[a].cancelled \in BOOLEAN
                         /\ active'[a].handle = FALSE /\ active'[a].cancelled = FALSE
  <2>1. ASSUME NEW a \in Attempt PROVE active[a].cancelled = TRUE => active[a].handle
    <3>1. ~active[a].handle => active[a] = Inactive
      BY DEF JInv, IInv, Known, TransportKnown
    <3> QED BY <3>1 DEF Inactive
  <2>2. \A a \in Attempt : active[a].cancelled \in BOOLEAN
    BY DEF JInv, IInv, Types, Actives
  <2>3. ASSUME NEW a \in Attempt PROVE active'[a].handle = FALSE /\ active'[a].cancelled = FALSE
    <3>1. active'[a] = Inactive
      BY <1>1
    <3> QED BY <3>1 DEF Inactive
  <2> QED BY <2>1, <2>2, <2>3
<1> DEFINE dead == {a \in Attempt : a \notin survivors /\ tree[a] # "none"}
<1>4. dead \in SUBSET {a \in Attempt : Results[a] # "none"}
  BY <1>3 DEF Results
<1>5. tree' = [a \in Attempt |-> IF a \in dead THEN "gone" ELSE tree[a]]
  BY <1>2
<1>6. UNCHANGED <<Fences, Results, Tasks>>
  BY <1>1 DEF Fences, Results, Tasks
<1>7. Homes' = [a \in Attempt |-> IF Homes[a] = "port" THEN Nobody ELSE Homes[a]]
  BY <1>0 DEF Homes
<1>8. Revocations' = [a \in Attempt |-> Revocations[a] /\ Homes[a] # "port"]
  BY <1>0, AttemptsAssumption DEF Revocations, Homes
<1>9. Ledger!Forgets("port")
  BY <1>1, Unanswered
<1> HIDE DEF dead
<1>10. Ledger!Crash("port")
  BY <1>1, <1>4, <1>5, <1>6, <1>7, <1>8, <1>9
  DEF Ledger!Crash, authority, Fences, Results, Homes, Revocations
<1> QED BY <1>10 DEF Ledger!Next

LEMMA LedgerStep == JInv /\ [Next]_vars => [Ledger!Next]_(Ledger!vars)
<1> SUFFICES ASSUME JInv, [Next]_vars PROVE [Ledger!Next]_(Ledger!vars)
  OBVIOUS
<1>1. CASE UNCHANGED vars
  BY <1>1, Unseen DEF vars, authority
<1>2. CASE Next
  BY <1>2, DispatchLedger, PollLedger, CancelLedger, ThreadLedger, CallLedger, WorldLedger, CrashLedger
  DEF Next
<1> QED BY <1>1, <1>2

LEMMA LedgerInit == Init => Ledger!Init
<1> SUFFICES ASSUME Init PROVE Ledger!Init
  OBVIOUS
<1>1. /\ Fences = [a \in Attempt |-> 0] /\ Results = [a \in Attempt |-> "none"]
      /\ Homes = [a \in Attempt |-> Nobody] /\ Revocations = [a \in Attempt |-> FALSE]
  BY DEF Init, Inactive, Fences, Results, Homes, Revocations
<1>2. Answers = [c \in {"port"} |-> Ledger!NoAnswer]
  BY DEF Init, Answers, Untold, Ledger!NoAnswer
<1>3. Tasks \in [Attempt -> Ledger!Tasks]
  BY DEF Tasks, Ledger!Tasks
<1> QED BY <1>1, <1>2, <1>3
        DEF Init, Ledger!Init, Fences, Results, Homes, Revocations, Answers
-----------------------------------------------------------------------------
(* What the ledger promises follows from its own steps.                     *)

\* Attempt a has a process, or may still get one.
Runs(a) == tree[a] \in {"suspended", "live"} \/ (tree[a] = "none" /\ ledger[a].state = "running")

Ended(a) == told.attempt = a /\ told.state \in Terminal

LedgerInv ==
    /\ tree \in [Attempt -> {"none", "suspended", "live", "gone"}]
    /\ \A a \in Attempt :
          /\ ledger[a].state = "none" => tree[a] = "none"
          /\ ledger[a].state \in Terminal => ~Runs(a)
          /\ Ended(a) => ~Runs(a) /\ ledger[a].state # "none"
    /\ \A a, b \in Attempt : a # b /\ Runs(a) /\ Runs(b) => a \notin Writer /\ b \notin Writer

\* A step after which no more attempts run than before.
LEMMA NoMoreRun ==
    ASSUME LedgerInv, tree' \in [Attempt -> {"none", "suspended", "live", "gone"}],
           \A a \in Attempt : /\ Runs(a)' => Runs(a)
                              /\ ledger'[a].state = "none" => tree'[a] = "none"
                              /\ ledger'[a].state \in Terminal => ~Runs(a)'
                              /\ Ended(a)' => ~Runs(a)' /\ ledger'[a].state # "none"
    PROVE  LedgerInv'
  BY DEF LedgerInv

\* What a step of the ledger says of the records, one by one.
LEMMA ResultSet ==
    ASSUME NEW a \in Attempt, NEW state, Results' = [Results EXCEPT ![a] = state]
    PROVE  ledger'[a].state = state /\ \A b \in Attempt \ {a} : ledger'[b].state = ledger[b].state
  BY DEF Results

LEMMA ResultsSame ==
    ASSUME UNCHANGED Results
    PROVE  \A b \in Attempt : ledger'[b].state = ledger[b].state
  BY DEF Results

LEMMA AnswerSet ==
    ASSUME NEW a \in Attempt, NEW state, Ledger!Says("port", a, state)
    PROVE  told' = [attempt |-> a, state |-> state]
<1>1. Answers' = [Answers EXCEPT !["port"] = [attempt |-> a, state |-> state]]
  BY DEF Ledger!Says, Answers
<1>2. Answers'["port"] = told' /\ Answers["port"] = told
  BY DEF Answers
<1> QED BY <1>1, <1>2 DEF Answers

LEMMA AnswerGone ==
    ASSUME Ledger!Forgets("port")
    PROVE  \A a \in Attempt : ~Ended(a)'
<1>1. Answers' = [Answers EXCEPT !["port"] = Ledger!NoAnswer]
  BY DEF Ledger!Forgets, Answers
<1>2. told' = Ledger!NoAnswer
  BY <1>1 DEF Answers
<1> QED BY <1>2 DEF Ended, Ledger!NoAnswer, Terminal

LEMMA AnswersSame ==
    ASSUME UNCHANGED Answers
    PROVE  told' = told
<1>1. Answers'["port"] = told' /\ Answers["port"] = told
  BY DEF Answers
<1> QED BY <1>1

LEMMA WorkersSame ==
    ASSUME UNCHANGED Ledger!workers
    PROVE  UNCHANGED <<Results, tree>>
  BY DEF Ledger!workers, Results

\* Nothing but an answer changes.
LEMMA AnswerOnly ==
    ASSUME LedgerInv, UNCHANGED <<Results, tree>>, \A a \in Attempt : Ended(a)' => ledger[a].state \in Terminal \/ Ended(a)
    PROVE  LedgerInv'
<1>1. \A a \in Attempt : ledger'[a].state = ledger[a].state /\ (Runs(a)' <=> Runs(a))
  BY ResultsSame DEF Runs
<1> QED BY <1>1, NoMoreRun DEF LedgerInv, Terminal

LEMMA TellSafe ==
    ASSUME LedgerInv, NEW a \in Attempt, Ledger!Tell("port", a)
    PROVE  LedgerInv'
<1>1. UNCHANGED <<Results, tree>>
  BY WorkersSame DEF Ledger!Tell
<1>2. PICK state \in {"unknown", ledger[a].state} : Ledger!Says("port", a, state)
  BY DEF Ledger!Tell, Ledger!Says
<1>3. told' = [attempt |-> a, state |-> state]
  BY <1>2, AnswerSet
<1>4. \A b \in Attempt : Ended(b)' => ledger[b].state \in Terminal
  BY <1>3 DEF Ended, Terminal
<1> QED BY <1>1, <1>4, AnswerOnly

LEMMA RegisterSafe ==
    ASSUME LedgerInv, NEW a \in Attempt, Ledger!Register("port", a)
    PROVE  LedgerInv'
<1>1. /\ Results' = [Results EXCEPT ![a] = "running"] /\ ledger[a].state = "none"
      /\ UNCHANGED <<tree, Tasks>>
  BY DEF Ledger!Register, Results
<1>2. ledger'[a].state = "running" /\ \A b \in Attempt \ {a} : ledger'[b].state = ledger[b].state
  BY <1>1, ResultSet
<1>3. \A b \in Attempt : ~Ended(b)'
  BY AnswerGone DEF Ledger!Register
<1>4. \A b \in Attempt \ {a} : Runs(b)' <=> Runs(b)
  BY <1>1, <1>2 DEF Runs
<1>5. ASSUME NEW b \in Attempt \ {a}, Runs(b) PROVE a \notin Writer /\ b \notin Writer
  <2>1. /\ ledger[b].state # "none" /\ ledger[b].state \notin Ledger!Final
    BY <1>5 DEF LedgerInv, Runs, Ledger!Final, Terminal
  <2>2. ~Ledger!Keeps(b, "port", Tasks[a].write)
    BY DEF Ledger!Register, Tasks
  <2>3. Tasks[a].write = (a \in Writer) /\ Tasks[b].write = (b \in Writer)
    BY DEF Tasks
  <2> QED BY <2>1, <2>2, <2>3 DEF Ledger!Keeps, Tasks
<1>6. \A b \in Attempt : /\ ledger'[b].state = "none" => tree'[b] = "none"
                         /\ ledger'[b].state \in Terminal => ~Runs(b)'
  BY <1>1, <1>2, <1>4 DEF LedgerInv, Terminal
<1>7. \A b, d \in Attempt : b # d /\ Runs(b)' /\ Runs(d)' => b \notin Writer /\ d \notin Writer
  BY <1>4, <1>5 DEF LedgerInv
<1>8. tree' \in [Attempt -> {"none", "suspended", "live", "gone"}]
  BY <1>1 DEF LedgerInv
<1> QED BY <1>3, <1>6, <1>7, <1>8 DEF LedgerInv

\* A process is made or started, or ends; the results stay.
LEMMA ProcessSafe ==
    ASSUME LedgerInv, NEW a \in Attempt, Ledger!Create(a) \/ Ledger!Launch(a) \/ Ledger!Gone(a)
    PROVE  LedgerInv'
<1>1. UNCHANGED <<Results, Answers>>
  BY DEF Ledger!Create, Ledger!Launch, Ledger!Gone, Results, Answers
<1>2. told' = told /\ \A b \in Attempt : ledger'[b].state = ledger[b].state
  BY <1>1, AnswersSame, ResultsSame
<1>3. PICK state \in {"suspended", "live", "gone"} :
          /\ tree' = [tree EXCEPT ![a] = state] /\ ledger[a].state # "none"
          /\ state # "gone" => Runs(a)
  BY DEF Ledger!Create, Ledger!Launch, Ledger!Gone, Runs
<1>4. /\ tree' \in [Attempt -> {"none", "suspended", "live", "gone"}]
      /\ tree'[a] = state /\ \A b \in Attempt \ {a} : tree'[b] = tree[b]
  BY <1>3 DEF LedgerInv
<1>5. \A b \in Attempt : Runs(b)' => Runs(b)
  BY <1>2, <1>3, <1>4 DEF Runs
<1> QED BY <1>2, <1>3, <1>4, <1>5, NoMoreRun DEF LedgerInv, Ended

LEMMA RecordSafe ==
    ASSUME LedgerInv, NEW a \in Attempt, Ledger!Record(a)
    PROVE  LedgerInv'
<1>1. PICK state \in Ledger!Recordable(a) :
          /\ Results' = [Results EXCEPT ![a] = state]
          /\ tree' \in {tree, [tree EXCEPT ![a] = "gone"]}
          /\ state \in Ledger!Final => tree'[a] \notin {"suspended", "live"}
          /\ UNCHANGED Answers \/ Ledger!Says(Homes[a], a, state)
  BY DEF Ledger!Record, Ledger!Says, Results, Homes, Answers
<1>2. /\ ledger'[a].state = state /\ \A b \in Attempt \ {a} : ledger'[b].state = ledger[b].state
      /\ state \in {"candidate", "blocked", "failed", "cancelled", "unknown"}
      /\ state \in Terminal <=> state \in Ledger!Final
  BY <1>1, ResultSet DEF Ledger!Recordable, Ledger!Final, Terminal
<1>3. /\ tree' \in [Attempt -> {"none", "suspended", "live", "gone"}]
      /\ \A b \in Attempt \ {a} : tree'[b] = tree[b]
      /\ tree'[a] \in {tree[a], "gone"}
  BY <1>1 DEF LedgerInv
<1>4. \A b \in Attempt : Runs(b)' => Runs(b)
  BY <1>2, <1>3 DEF Runs
<1>5. state \in Terminal => ~Runs(a)'
  BY <1>1, <1>2 DEF Runs
<1>6. told' = told \/ told' = [attempt |-> a, state |-> state]
  <2>1. Homes[a] = "port"
    BY AttemptsAssumption DEF Ledger!Record, Homes
  <2>2. CASE UNCHANGED Answers
    BY <2>2, AnswersSame
  <2>3. CASE Ledger!Says("port", a, state)
    BY <2>3, AnswerSet
  <2> QED BY <1>1, <2>1, <2>2, <2>3 DEF Ledger!Says
<1>7. \A b \in Attempt : Ended(b)' => ~Runs(b)' /\ ledger'[b].state # "none"
  BY <1>2, <1>4, <1>5, <1>6 DEF Ended, LedgerInv
<1>8. \A b \in Attempt : /\ ledger'[b].state = "none" => tree'[b] = "none"
                         /\ ledger'[b].state \in Terminal => ~Runs(b)'
  BY <1>2, <1>3, <1>4, <1>5 DEF LedgerInv
<1>9. \A b \in Attempt : /\ Runs(b)' => Runs(b)
                         /\ ledger'[b].state = "none" => tree'[b] = "none"
                         /\ ledger'[b].state \in Terminal => ~Runs(b)'
                         /\ Ended(b)' => ~Runs(b)' /\ ledger'[b].state # "none"
  BY <1>4, <1>7, <1>8
<1>10. tree' \in [Attempt -> {"none", "suspended", "live", "gone"}]
  BY <1>3
<1> QED BY <1>9, <1>10, NoMoreRun

LEMMA CrashSafe ==
    ASSUME LedgerInv, Ledger!Crash("port")
    PROVE  LedgerInv'
<1>1. \A b \in Attempt : ledger'[b].state = ledger[b].state
  BY ResultsSame DEF Ledger!Crash, Results
<1>2. \A b \in Attempt : ~Ended(b)'
  BY AnswerGone DEF Ledger!Crash
<1>3. PICK dead \in SUBSET {a \in Attempt : Results[a] # "none"} :
          tree' = [a \in Attempt |-> IF a \in dead THEN "gone" ELSE tree[a]]
  BY DEF Ledger!Crash, Results
<1>4. \A b \in Attempt : /\ tree'[b] \in {tree[b], "gone"}
                         /\ ledger[b].state = "none" => tree'[b] = tree[b]
  BY <1>3 DEF Results
<1>5. tree' \in [Attempt -> {"none", "suspended", "live", "gone"}]
  BY <1>3 DEF LedgerInv
<1>6. ASSUME NEW b \in Attempt
      PROVE  /\ Runs(b)' => Runs(b)
             /\ ledger'[b].state = "none" => tree'[b] = "none"
             /\ ledger'[b].state \in Terminal => ~Runs(b)'
             /\ Ended(b)' => ~Runs(b)' /\ ledger'[b].state # "none"
  <2>1. ledger'[b].state = ledger[b].state /\ tree'[b] \in {tree[b], "gone"} /\ ~Ended(b)'
    BY <1>1, <1>2, <1>4
  <2>2. Runs(b)' => Runs(b)
    BY <2>1 DEF Runs
  <2>3. ledger[b].state = "none" => (tree'[b] = tree[b] /\ tree[b] = "none")
    BY <1>4 DEF LedgerInv
  <2>4. ledger[b].state \in Terminal => ~Runs(b)
    BY DEF LedgerInv
  <2> QED BY <2>1, <2>2, <2>3, <2>4
<1> QED BY <1>5, <1>6, NoMoreRun

LEMMA LedgerSafe == ASSUME LedgerInv, [Ledger!Next]_(Ledger!vars) PROVE LedgerInv'
<1>1. ASSUME UNCHANGED <<Results, tree>>, UNCHANGED Answers \/ Ledger!Forgets("port")
      PROVE  LedgerInv'
  BY <1>1, AnswersSame, AnswerGone, AnswerOnly DEF Ended
<1>2. CASE UNCHANGED Ledger!vars
  BY <1>1, <1>2, WorkersSame DEF Ledger!vars, Answers
<1>3. CASE Ledger!NewEpoch
  BY <1>1, <1>3, WorkersSame DEF Ledger!NewEpoch, Answers
<1>4. CASE Ledger!Fenced("port") \/ Ledger!Forget("port")
  BY <1>1, <1>4, WorkersSame DEF Ledger!Fenced, Ledger!Forget, Answers
<1>5. CASE Ledger!Crash("port")
  BY <1>5, CrashSafe
<1>6. ASSUME NEW a \in Attempt,
             Ledger!Register("port", a) \/ Ledger!Cancel("port", a) \/ Ledger!Tell("port", a)
      PROVE  LedgerInv'
  <2>1. CASE Ledger!Cancel("port", a)
    BY <1>1, <2>1 DEF Ledger!Cancel, Results
  <2> QED BY <1>6, <2>1, RegisterSafe, TellSafe
<1>7. ASSUME NEW a \in Attempt,
             Ledger!Plan(a) \/ Ledger!Create(a) \/ Ledger!Launch(a) \/ Ledger!Gone(a) \/ Ledger!Record(a)
      PROVE  LedgerInv'
  <2>1. CASE Ledger!Plan(a)
    BY <1>1, <2>1 DEF Ledger!Plan, Results, Answers
  <2> QED BY <1>7, <2>1, ProcessSafe, RecordSafe
<1> QED BY <1>2, <1>3, <1>4, <1>5, <1>6, <1>7 DEF Ledger!Next

LEMMA LedgerSafeInit == ASSUME Ledger!Init PROVE LedgerInv
<1>1. Results = [a \in Attempt |-> "none"] /\ tree = [a \in Attempt |-> "none"]
  BY DEF Ledger!Init, Results
<1>2. Answers = [c \in {"port"} |-> Ledger!NoAnswer]
  BY DEF Ledger!Init, Answers
<1>3. told.state = "none"
  BY <1>2 DEF Answers, Ledger!NoAnswer
<1>4. \A a \in Attempt : ledger[a].state = "none"
  BY <1>1 DEF Results
<1> QED BY <1>1, <1>3, <1>4 DEF LedgerInv, Runs, Ended, Terminal
-----------------------------------------------------------------------------
(* The theorems.                                                            *)

\* Shapes, and a lock is held only by a thread or call that is where it will give it
\* back (workers.py: guard, publication_guard).
THEOREM TypeCorrect == PortSpec => []TypeOK
<1>1. IInv => TypeOK
  BY DEF IInv, Types, Locks, TypeOK, Actives, Transports, Threads, Places, Calls
<1> QED BY <1>1, Invariance, PTL

\* A result that is final in the ledger or in the hands of a caller means that the
\* process tree is gone; a result that could not be saved is kept, with its worktree
\* (workers.py: _execute, _publish, cancel).
THEOREM EndsAreKnown == PortSpec => []EndsKnown
<1>1. IInv => FinalMeansGone
  <2> SUFFICES ASSUME IInv, NEW a \in Attempt,
                      ledger[a].state \in Terminal \/ (told.attempt = a /\ told.state \in Terminal)
               PROVE  ~Present(a)
    BY DEF FinalMeansGone
  <2> QED BY DEF IInv, Known, EndKnown, Says, ToldTrue, Over
<1>2. IInv => UnsavedKept
  <2> SUFFICES ASSUME IInv, NEW a \in Attempt, active[a].failed
               PROVE  /\ active[a].pending # "none" /\ Observation(a) = "unknown"
                      /\ \A b \in Attempt \ {a} : Busy(b)
    BY DEF UnsavedKept
  <2>1. /\ active[a].handle /\ ledger[a].state # "none"
        /\ active[a].unconfirmed /\ active[a].pending # "none"
    BY DEF IInv, Known, TransportKnown, ResultKept, Inactive
  <2> QED BY <2>1 DEF Observation, Busy
<1> QED BY <1>1, <1>2, Invariance, PTL DEF EndsKnown

\* An attempt is registered only where no cancelled one of this process is left whose
\* end is unconfirmed, though it may be final in the ledger (workers.py: register).
THEOREM DispatchesApart == PortSpec => DispatchedApart
<1> DEFINE Apart ==
      \A a, b \in Attempt :
          /\ a # b /\ ledger[a].state = "none" /\ ledger'[a].state = "running"
          /\ active[b].handle /\ active[b].cancelled
          => ledger[b].state = "cancelled" /\ ~Present(b)
<1>1. IInv /\ [Next]_vars => [Apart]_vars
  <2> SUFFICES ASSUME IInv, Next, NEW a \in Attempt, NEW b \in Attempt,
                      a # b, ledger[a].state = "none", ledger'[a].state = "running",
                      active[b].handle, active[b].cancelled
               PROVE  ledger[b].state = "cancelled" /\ ~Present(b)
    OBVIOUS
  <2>1. Dispatch(a)
    BY OnlyDispatch
  <2>2. /\ ledger[b].state # "none" /\ ledger[b].state \in States
        /\ active[b].unconfirmed \/ ledger[b].state \in {"unknown", "cancelled"}
        /\ ledger[b].state \in Terminal => ~Present(b)
    BY DEF IInv, Types, Known, TransportKnown, ResultKept, EndKnown, Says, Over
  <2> QED BY <2>1, <2>2 DEF Dispatch, Busy, States, Terminal
<1> QED BY <1>1, Invariance, PTL DEF PortSpec, DispatchedApart

\* A cancellation or a takeover that comes before the start prevents it, and one that
\* comes after it decides the result (workers.py: launch_guard, cancel, _publish).
THEOREM CancellationsHold == PortSpec => CancellationHolds
<1> DEFINE InTime ==
      \A a \in Attempt :
          tree[a] # "live" /\ tree'[a] = "live" =>
              /\ ~active[a].cancelled
              /\ ledger[a].fence = epoch /\ ledger[a].fence = highest
<1> DEFINE Revoking ==
      \A a \in Attempt :
          active[a].cancelled /\ told # told' /\ told'.attempt = a =>
              told'.state \in {"unknown", "cancelled"}
<1>1. IInv /\ [Next]_vars => [InTime]_vars
  BY OnlyResume DEF Authorized
<1>2. IInv /\ [Next]_vars => [Revoking]_vars
  <2> SUFFICES ASSUME IInv, Next, NEW a \in Attempt, active[a].cancelled, told # told',
                      told'.attempt = a
               PROVE  told'.state \in {"unknown", "cancelled"}
    OBVIOUS
  <2>1. told' # Untold
    BY AttemptsAssumption DEF Untold
  <2>2. ASSUME NEW b \in Attempt, Poll(b) PROVE told'.state = "unknown"
    BY <2>1, <2>2 DEF Poll
  <2>3. ASSUME Collect \/ Observe PROVE told'.state \in {"unknown", "cancelled"}
    <3>1. PICK b \in Attempt : b = call.attempt /\ ledger[b].state # "none"
      BY <2>3, Called DEF Collect, Observe
    <3>2. told'.attempt = b /\ told'.state \in {Observation(b), "unknown"}
      BY <2>3, <3>1 DEF Collect, Observe
    <3> QED BY <3>1, <3>2, Observed
  <2> QED BY <2>1, <2>2, <2>3 DEF Next, ThreadStep, CallStep, Dispatch, Cancel,
        Begin, Connect, Authorize, Spawn, Resume, Announce, Announced, Wait, Close, Confirm, Read,
        Publish, WorkerSave, CallerSave, Shut, Settle, Takeover, ForeignCall, Crash
<1> QED BY <1>1, <1>2, Invariance, PTL DEF PortSpec, CancellationHolds, ResumedInTime, RevocationHolds

\* The locks have an order, whatever calls, threads, takeovers and crashes there are
\* (workers.py: launch_guard, publication_guard; stdio.py: start, close).
THEOREM LocksOrdered == PortSpec => []NoCircularWait
<1>1. JInv => NoCircularWait
  <2> SUFFICES ASSUME JInv PROVE NoCircularWait
    OBVIOUS
  <2>1. /\ Types /\ Locks /\ CallKnown /\ CallDue
        /\ \A a \in Attempt : active[a].transport = "starting" => thread[a].pc = "resume"
    BY DEF JInv, IInv, Due, PlaceKnown
  <2>2. guard # Nobody => Ready(guard)
    BY <2>1 DEF Types, Locks, Ready, LocksForSpawn
  <2>3. ASSUME NEW a \in Attempt, active[a].transport = "starting" PROVE Ready(a)
    BY <2>1, <2>3 DEF Ready
  <2>4. ASSUME NEW a \in Attempt, pub[a] = "worker", guard = Nobody PROVE Ready(a)
    BY <2>1, <2>4 DEF Locks, Ready
  <2>5. ASSUME NEW a \in Attempt, pub[a] = "caller", guard = Nobody PROVE CallReady
    BY <2>1, <2>5 DEF Locks, CallReady, CallDue
  <2>6. ASSUME UnderWay PROVE CallReady \/ \E a \in Attempt : Ready(a)
    <3>1. CASE guard # Nobody
      BY <2>1, <2>2, <3>1 DEF Types
    <3>2. CASE \E a \in Attempt : pub[a] # "free" \/ active[a].transport = "starting"
      BY <2>1, <2>3, <2>4, <2>5, <3>1, <3>2 DEF Types
    <3>3. CASE /\ guard = Nobody
               /\ \A a \in Attempt : pub[a] = "free" /\ active[a].transport # "starting"
      <4>1. CASE call.pc # "idle"
        <5>1. call.attempt \in Attempt /\ pub[call.attempt] = "free"
          BY <2>1, <3>3, <4>1 DEF CallKnown
        <5>2. CASE call.result = "launch"
          BY <2>1, <3>3, <4>1, <5>1, <5>2 DEF CallDue, Locks, CallReady, Ready
        <5>3. CASE call.result # "launch"
          BY <3>3, <4>1, <5>1, <5>3 DEF CallReady
        <5> QED BY <5>2, <5>3
      <4>2. CASE call.pc = "idle"
        <5>1. PICK a \in Attempt : thread[a].pc \notin {"none", "done"}
          BY <2>6, <4>2 DEF UnderWay
        <5> QED BY <2>1, <3>3, <5>1 DEF Locks, Ready, LocksForSpawn
      <4> QED BY <4>1, <4>2
    <3> QED BY <3>1, <3>2, <3>3
  <2> QED BY <2>2, <2>3, <2>4, <2>5, <2>6 DEF NoCircularWait
<1> QED BY <1>1, JInvariance, PTL

\* The port with its threads, locks, transports and crashes takes only the steps of
\* the worker ledger (workers.py: RuntimeWorkerPort).
THEOREM PortImplementsLedger == PortSpec => LedgerSpec
<1>1. Init => Ledger!Init
  BY LedgerInit
<1>2. JInv /\ [Next]_vars => [Ledger!Next]_(Ledger!vars)
  BY LedgerStep
<1> QED BY <1>1, <1>2, JInvariance, PTL DEF PortSpec, LedgerSpec, Ledger!Spec

\* Whatever takes only the steps of the ledger keeps its promises: an end that is
\* recorded, or that was told, is one for good, and whoever may write in a worktree
\* runs there alone (ports.py: WorkerExecutionPort).
THEOREM LedgerKeepsPromises == LedgerSpec => [](Ledger!EndsForGood /\ Ledger!WritersAlone)
<1>1. LedgerInv => Ledger!EndsForGood /\ Ledger!WritersAlone
  <2> SUFFICES ASSUME LedgerInv PROVE Ledger!EndsForGood /\ Ledger!WritersAlone
    OBVIOUS
  <2>1. \A a \in Attempt : Ledger!MayRun(a) <=> Runs(a)
    BY DEF Ledger!MayRun, Runs
  <2>2. ASSUME NEW a \in Attempt,
               (Ledger!Told(a) \cup {Results[a]}) \cap Ledger!Final # {}
        PROVE  ~Runs(a)
    BY <2>2 DEF Ledger!Told, Ledger!Final, Results, LedgerInv, Ended, Terminal
  <2>3. Ledger!EndsForGood
    BY <2>1, <2>2 DEF Ledger!EndsForGood, Results
  <2>4. Ledger!WritersAlone
    BY <2>1 DEF Ledger!WritersAlone, LedgerInv, Tasks
  <2> QED BY <2>3, <2>4
<1> QED BY <1>1, LedgerSafeInit, LedgerSafe, PTL DEF LedgerSpec, Ledger!Spec

\* So the port keeps them, with its threads, locks, transports and crashes: two of its
\* attempts that run, or may still start, both only read (workers.py: register, cancel).
THEOREM WorktreesAlone == PortSpec => [](Ledger!EndsForGood /\ Ledger!WritersAlone)
  BY PortImplementsLedger, LedgerKeepsPromises, PTL
=============================================================================
