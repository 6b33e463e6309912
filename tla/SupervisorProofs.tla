-------------------------- MODULE SupervisorProofs --------------------------
(***************************************************************************)
(* Proofs about Supervisor, for any controllers, tasks, worktrees, plans,  *)
(* budgets and policies, with everything that may fail: the invariants,    *)
(* the action property, and that the port the supervisors rely on takes    *)
(* only the steps of WorkerLedger, which WorkerPort implements.            *)
(***************************************************************************)
EXTENDS Supervisor, FiniteSetTheorems, WellFoundedInduction, TLAPS

Checks == {"none", "running", "unknown", "failed", "passed"}

NodeRecords ==
    [status : Statuses, spec : Specs, active : 0 .. MaxAttempts, retries : Nat,
     check : Checks, candidate : 0 .. MaxAttempts, tested : 0 .. MaxAttempts]

AttemptRecords ==
    [task : Task \cup {0}, spec : Specs, fence : 0 .. MaxEpoch,
     state : Live \cup Terminal \cup {"absent"}]

Places ==
    {"off", "idle", "observe", "dispatch", "send", "sending", "call", "closing",
     "reading", "apply", "verifying", "verified", "rejected", "aborted", "accept"}

ControllerRecords ==
    [lease : 0 .. MaxEpoch, pc : Places,
     back : {"idle", "observe", "dispatch"}, todo : SUBSET Task, mode : {"tick", "close"},
     task : Task \cup {0}, attempt : 0 .. MaxAttempts,
     obs : {"none", "running", "unknown"} \cup Terminal, seen : 0 .. MaxAttempts]

Results == {"absent", "running", "unknown"} \cup Terminal

RunRecords ==
    [result : Results, home : Controller \cup {None}, proc : {"none", "live", "gone"},
     cancelled : BOOLEAN, content : 0 .. MaxAttempts]
-----------------------------------------------------------------------------
(* The inductive invariant.                                                 *)

Types ==
    /\ epoch \in 0 .. MaxEpoch /\ valid \in BOOLEAN
    /\ plan \in {<<>>} \cup InitialPlans \cup LaterPlans
    /\ replans \in 0 .. ReplanBudget
    /\ node \in [Task -> NodeRecords]
    /\ attempt \in [Attempt -> AttemptRecords]
    /\ ctl \in [Controller -> ControllerRecords]
    /\ run \in [Attempt -> RunRecords]
    /\ highest \in 0 .. MaxEpoch
    /\ head \in [Root -> 0 .. MaxAttempts]
    /\ refreshes \in 0 .. MaxRefreshes

\* An epoch has one controller.
Leases ==
    /\ valid => epoch # 0
    /\ \A c \in Controller : ctl[c].lease <= epoch
    /\ \A c, d \in Controller : ctl[c].lease = ctl[d].lease /\ ctl[c].lease # 0 => c = d

\* Attempts are numbered in the order in which they are persisted.
Numbered == \E n \in 0 .. MaxAttempts : Issued = 1 .. n

\* What the plan assigns, and what was authorized with the initial one.
Planned ==
    /\ plan = <<>> => \A t \in Task : node[t].status = "absent"
    /\ \A t \in DOMAIN plan :
          node[t].spec = plan[t] /\ node[t].status \notin {"absent", "retired"}

Granted ==
    \E initial \in InitialPlans : \A t \in Nodes : t \in DOMAIN initial =>
        node[t].retries <= initial[t].retry /\ node[t].spec.retry <= initial[t].retry

\* The attempt is over: nothing of it runs, and its result can change no more.
Done(a) ==
    /\ run[a].proc # "live" /\ run[a].result \in Terminal
    /\ \/ run[a].result = "cancelled"
       \/ ~run[a].cancelled /\ \A c \in Controller : run[a].home = c => ctl[c].attempt # a

\* a is the last attempt of t.
Last(a, t) == a \in AttemptsOf(t) /\ \A b \in AttemptsOf(t) : b <= a

\* The last worker of t has left the candidate of the node, for its present task.
Left(t) ==
    \E a \in Attempt :
        /\ Last(a, t) /\ attempt[a].state = "candidate" /\ attempt[a].spec = node[t].spec
        /\ run[a].result = "candidate" /\ run[a].content = node[t].candidate

Candidate == {"candidate_complete", "verifying"}

NodeShape(t) ==
    LET n == node[t]
    IN  /\ n.status = "absent" => n = Absent
        /\ n.status # "absent" => n.spec \in Spec_
        /\ n.active # 0 <=> n.status \in Live
        /\ n.status = "accepted" => n.check = "passed" /\ n.tested = n.candidate
        /\ n.status = "verifying" <=> n.check = "running"
        /\ n.check = "unknown" => n.status = "blocked"

NodeKnown(t) ==
    LET n == node[t]
    IN  /\ n.active # 0 =>
              /\ Last(n.active, t) /\ attempt[n.active].state \in Live
              /\ attempt[n.active].spec = n.spec
              /\ \A d \in n.spec.deps : node[d].status = "accepted"
        /\ n.status \in Candidate \cup {"accepted"} => Left(t)
        /\ n.status \in Candidate => Content(t) = n.candidate

Paid(t) ==
    Cardinality(AttemptsOf(t)) <=
        node[t].retries + replans + (IF node[t].status \in {"absent", "pending"} THEN 0 ELSE 1)

\* Whoever may write in a worktree is alone there.
Apart ==
    \A t, u \in Task :
        /\ t # u /\ node[u].active # 0 /\ node[t].spec.root = node[u].spec.root
        /\ node[t].active # 0 \/ node[t].status \in Candidate
        => ~node[u].spec.write

AttemptKnown(a) ==
    /\ attempt[a].task = 0 => run[a].result = "absent"
    /\ attempt[a].task # 0 =>
          /\ attempt[a].spec \in Spec_ /\ attempt[a].fence \in 1 .. epoch
          /\ node[attempt[a].task].status # "absent"
          /\ attempt[a].state \in Live => node[attempt[a].task].active = a
          /\ attempt[a].state \notin Live => Done(a)
    /\ run[a].result = "absent" => run[a] = Unregistered
    /\ run[a].result \in Terminal => run[a].proc # "live"
    /\ run[a].result = "candidate" => run[a].proc = "gone"
    /\ run[a].result = "candidate" /\ attempt[a].state \in Live =>
          head[attempt[a].spec.root] = run[a].content
    /\ \A c \in Controller :
          run[a].result # "absent" /\ attempt[a].fence = ctl[c].lease => run[a].home = c

Calling == {"call", "closing", "reading", "apply"}
Sending == {"send", "sending"}
Verifying == {"verifying", "verified", "rejected", "aborted", "accept"}

\* What a controller knows whether or not its lease has passed on.
ControllerKnown(c) ==
    LET k == ctl[c]
        a == k.attempt
    IN  /\ k.pc \notin Calling \cup Sending => a = 0
        /\ k.pc \in Calling \cup Sending => a \in Issued
        /\ k.pc \in Sending \cup {"dispatch"} => k.back = "dispatch"
        /\ k.pc \in Sending => run[a].result = "absent" /\ attempt[a].fence = k.lease
        /\ k.pc = "closing" => run[a].home = c /\ run[a].cancelled /\ run[a].result # "absent"
        /\ k.pc = "apply" /\ k.obs = "cancelled" => run[a].result = "cancelled"
        /\ k.pc = "apply" /\ k.obs \in Terminal => run[a].result # "absent"
        /\ k.pc = "apply" /\ k.obs \in Terminal /\ run[a].home = c =>
              run[a].result = k.obs /\ ~Cancelled(a)

\* What it knows of the persisted nodes as long as nobody else may change them.
InHand(c) ==
    LET k == ctl[c]
        t == k.task
    IN  k.lease = epoch =>
        /\ k.pc \in Calling \cup Sending =>
              t \in Task /\ node[t].active = k.attempt /\ attempt[k.attempt].task = t
        /\ k.pc \in Verifying => t \in Task /\ node[t].status = "verifying"
        /\ k.pc \in {"verified", "accept"} => k.seen = node[t].candidate
        /\ k.pc = "observe" \/ (k.pc \in Calling /\ k.back = "observe") =>
              \A u \in k.todo : node[u].active # 0 \/ node[u].status = "verifying"
        /\ k.pc \in Calling \cup Sending => t \notin k.todo

Persisted ==
    /\ Numbered /\ Planned /\ Apart
    /\ \A t \in Task : NodeShape(t) /\ NodeKnown(t) /\ Paid(t)
    /\ plan # <<>> => Granted

IInv ==
    /\ Types /\ Leases /\ Persisted
    /\ \A a \in Attempt : AttemptKnown(a)
    /\ \A c \in Controller : ControllerKnown(c) /\ InHand(c)
-----------------------------------------------------------------------------
(* Numbers and sets.                                                        *)

LEMMA Smallest == ASSUME NEW S, S \subseteq Nat, S # {} PROVE Min(S) \in S
<1>1. PICK x \in S : \A y \in S : ~(<<y, x>> \in OpToRel(<, Nat))
  BY NatLessThanWellFounded, WFMin, Zenon
<1>2. ASSUME NEW y \in S PROVE ~(y < x)
  BY <1>1, Zenon DEF OpToRel
<1>3. \A y \in S : x <= y
  BY <1>2, SMT
<1> QED BY <1>3 DEF Min

LEMMA AttemptsFinite ==
    ASSUME NEW t
    PROVE  IsFiniteSet(Issued) /\ IsFiniteSet(AttemptsOf(t)) /\ Cardinality(AttemptsOf(t)) \in Nat
<1>1. IsFiniteSet(Attempt)
  <2>1. 1 \in Int /\ MaxAttempts \in Int
    BY BoundsAssumption
  <2> QED BY <2>1, FS_Interval, Zenon DEF Attempt
<1>2. Issued \subseteq Attempt /\ AttemptsOf(t) \subseteq Attempt
  BY DEF Issued, AttemptsOf
<1> QED BY <1>1, <1>2, FS_Subset, FS_CardinalityType

LEMMA NextAttempt ==
    ASSUME NEW n \in Nat, Issued = 1 .. n
    PROVE  Cardinality(Issued) = n
  BY FS_Interval

LEMMA Constants ==
    /\ MaxEpoch \in Nat /\ MaxAttempts \in Nat /\ ReplanBudget \in Nat /\ MaxRefreshes \in Nat
    /\ Task \subseteq Nat /\ 0 \notin Task /\ Attempt \subseteq Nat /\ 0 \notin Attempt
    /\ 0 .. MaxAttempts = Attempt \cup {0}
  BY BoundsAssumption DEF Attempt

LEMMA Records ==
    /\ Absent \in NodeRecords /\ NoAttempt \in AttemptRecords
    /\ Off \in ControllerRecords /\ Unregistered \in RunRecords
    /\ \A spec \in Spec_ : Node(spec) \in NodeRecords
<1>1. Absent \in NodeRecords
  BY Constants DEF Absent, NodeRecords, Statuses, Specs, Checks
<1>2. NoAttempt \in AttemptRecords
  BY Constants DEF NoAttempt, AttemptRecords, Specs, Live
<1>3. Off \in ControllerRecords
  BY Constants DEF Off, ControllerRecords, Places
<1>4. Unregistered \in RunRecords
  BY Constants DEF Unregistered, RunRecords, Results
<1>5. ASSUME NEW spec \in Spec_ PROVE Node(spec) \in NodeRecords
  BY Constants DEF Node, Absent, NodeRecords, Statuses, Specs, Checks
<1> QED BY <1>1, <1>2, <1>3, <1>4, <1>5
-----------------------------------------------------------------------------
(* Controllers.                                                             *)

\* Controller c goes on, with its lease or without, and takes on a live attempt only.
Moves(c) ==
    /\ ctl' \in [Controller -> ControllerRecords]
    /\ ctl'[c].lease \in {0, ctl[c].lease}
    /\ \A d \in Controller \ {c} : ctl'[d] = ctl[d]
    /\ ctl'[c].attempt \in {0, ctl[c].attempt} \/ attempt'[ctl'[c].attempt].state \in Live

\* What a controller knows of its attempt.
AttemptsKept ==
    /\ Issued \subseteq Issued'
    /\ \A a \in Issued : attempt'[a].fence = attempt[a].fence /\ attempt'[a].task = attempt[a].task

LEMMA LeasesKept ==
    ASSUME Types, Leases, NEW c \in Controller, Moves(c), UNCHANGED epoch, valid' => valid
    PROVE  Leases'
<1>1. \A d \in Controller : ctl'[d].lease \in {0, ctl[d].lease}
  BY DEF Moves
<1>2. epoch \in Nat /\ epoch' = epoch
  BY Constants DEF Types
<1> QED BY <1>1, <1>2 DEF Leases

\* Only one controller holds the lease.
LEMMA Alone ==
    ASSUME Leases, NEW c \in Controller, Holds(c), NEW d \in Controller, d # c
    PROVE  ctl[d].lease # epoch
  BY DEF Leases, Holds

LEMMA OthersKnow ==
    ASSUME IInv, NEW c \in Controller, Moves(c), UNCHANGED <<epoch, run>>, AttemptsKept,
           Holds(c) \/ UNCHANGED <<node, attempt>>
    PROVE  \A d \in Controller \ {c} : ControllerKnown(d)' /\ InHand(d)'
<1> SUFFICES ASSUME NEW d \in Controller \ {c}
             PROVE  ControllerKnown(d)' /\ InHand(d)'
  OBVIOUS
<1>1. ctl'[d] = ctl[d]
  BY DEF Moves
<1>2. ControllerKnown(d) /\ InHand(d) /\ Leases
  BY DEF IInv
<1>3. ControllerKnown(d)'
  BY <1>1, <1>2 DEF ControllerKnown, AttemptsKept, Calling, Sending, Cancelled
<1>4. CASE Holds(c)
  <2>1. ctl[d].lease # epoch
    BY <1>2, <1>4, Alone
  <2> QED BY <1>1, <1>3, <2>1 DEF InHand
<1>5. CASE UNCHANGED <<node, attempt>>
  BY <1>1, <1>2, <1>3, <1>5 DEF InHand
<1> QED BY <1>4, <1>5
-----------------------------------------------------------------------------
(* What does not change as long as nothing it speaks of changes.            *)

LEMMA PersistedFrame ==
    ASSUME Persisted, UNCHANGED data,
           \A a \in Attempt : attempt[a].state = "candidate" =>
              run'[a].result = run[a].result /\ run'[a].content = run[a].content,
           \A t \in Task : node[t].status \in Candidate => Content(t)' = Content(t)
    PROVE  Persisted'
<1>1. /\ plan' = plan /\ replans' = replans /\ node' = node /\ attempt' = attempt
  BY DEF data
<1>2. Issued' = Issued /\ \A t : AttemptsOf(t)' = AttemptsOf(t)
  BY <1>1 DEF Issued, AttemptsOf
<1>3. Numbered' /\ Planned' /\ Apart'
  BY <1>1, <1>2 DEF Persisted, Numbered, Planned, Apart
<1>4. (plan # <<>> => Granted)'
  BY <1>1 DEF Persisted, Granted, Nodes
<1>5. ASSUME NEW t \in Task PROVE (NodeShape(t) /\ Paid(t))'
  BY <1>1, <1>2 DEF Persisted, NodeShape, Paid
<1>6. ASSUME NEW t \in Task PROVE NodeKnown(t)'
  <2>1. NodeKnown(t)
    BY DEF Persisted
  <2>2. \A a : Last(a, t)' <=> Last(a, t)
    BY <1>2 DEF Last
  <2>3. Left(t) => Left(t)'
    BY <1>1, <2>2 DEF Left
  <2> QED BY <1>1, <2>1, <2>2, <2>3 DEF NodeKnown
<1> QED BY <1>3, <1>4, <1>5, <1>6 DEF Persisted

LEMMA AttemptFrame ==
    ASSUME IInv, NEW c \in Controller, Moves(c), UNCHANGED <<epoch, data, run, head>>
    PROVE  \A a \in Attempt : AttemptKnown(a)'
<1> SUFFICES ASSUME NEW a \in Attempt PROVE AttemptKnown(a)'
  OBVIOUS
<1>1. AttemptKnown(a) /\ node' = node /\ attempt' = attempt /\ run' = run /\ head' = head
  BY DEF IInv, data
<1>2. a # 0 /\ Types
  BY Constants DEF IInv
<1>3. attempt[a].state \notin Live /\ Done(a) => Done(a)'
  BY <1>1, <1>2 DEF Done, Moves
<1>4. ASSUME NEW d \in Controller, run[a].result # "absent", attempt[a].fence = ctl'[d].lease
      PROVE  run[a].home = d
  <2>1. attempt[a].fence # 0
    BY <1>1, <1>2, <1>4 DEF AttemptKnown, Types, AttemptRecords
  <2> QED BY <1>1, <1>4, <2>1 DEF AttemptKnown, Moves
<1> QED BY <1>1, <1>3, <1>4 DEF AttemptKnown

\* A step of one controller that leaves all but what it does itself alone.
LEMMA ControllerStep ==
    ASSUME IInv, NEW c \in Controller, Moves(c), UNCHANGED <<epoch, data, run, head>>,
           valid' => valid, Types', ControllerKnown(c)', InHand(c)'
    PROVE  IInv'
<1>1. Leases'
  BY LeasesKept DEF IInv
<1>2. Persisted'
  BY PersistedFrame DEF IInv, Content, data
<1>3. \A a \in Attempt : AttemptKnown(a)'
  BY AttemptFrame
<1>4. \A d \in Controller \ {c} : ControllerKnown(d)' /\ InHand(d)'
  BY OthersKnow DEF AttemptsKept, data, Issued
<1> QED BY <1>1, <1>2, <1>3, <1>4 DEF IInv
-----------------------------------------------------------------------------
(* Steps that change nothing but a controller.                              *)

LEMMA Held == ASSUME IInv, NEW c \in Controller PROVE Types /\ ctl[c] \in ControllerRecords /\
    ControllerKnown(c) /\ InHand(c) /\ ctl[c].lease \in Nat
  BY Constants DEF IInv, Types, ControllerRecords

\* Everything that a controller knew is given up.
LEMMA RestStep ==
    ASSUME IInv, NEW c \in Controller, Rest(c), UNCHANGED <<store, data, workers, refreshes>>
    PROVE  IInv'
<1>1. Types /\ ctl[c] \in ControllerRecords
  BY Held
<1>2. /\ ctl' \in [Controller -> ControllerRecords]
      /\ ctl'[c].lease = ctl[c].lease /\ ctl'[c].pc = "idle" /\ ctl'[c].attempt = 0
      /\ \A d \in Controller \ {c} : ctl'[d] = ctl[d]
  BY <1>1, Constants DEF Types, Rest, Off, ControllerRecords, Places
<1>3. Types'
  BY <1>1, <1>2 DEF Types, store, data, workers
<1>4. ControllerKnown(c)' /\ InHand(c)'
  BY <1>2 DEF ControllerKnown, InHand, Calling, Sending, Verifying
<1>5. Moves(c) /\ UNCHANGED <<epoch, data, run, head>> /\ valid' = valid
  BY <1>2 DEF Moves, store, workers
<1> QED BY <1>3, <1>4, <1>5, ControllerStep

\* Where a controller goes on, with the same attempt.
Goes(c, pc, obs, seen) ==
    /\ ctl' \in [Controller -> ControllerRecords]
    /\ ctl'[c].pc = pc /\ ctl'[c].obs = obs /\ ctl'[c].seen = seen
    /\ ctl'[c].lease = ctl[c].lease /\ ctl'[c].back = ctl[c].back
    /\ ctl'[c].todo = ctl[c].todo /\ ctl'[c].mode = ctl[c].mode
    /\ ctl'[c].task = ctl[c].task /\ ctl'[c].attempt = ctl[c].attempt
    /\ \A d \in Controller \ {c} : ctl'[d] = ctl[d]

LEMMA GotoGoes ==
    ASSUME Types, NEW c \in Controller, NEW pc \in Places, Goto(c, pc)
    PROVE  Goes(c, pc, ctl[c].obs, ctl[c].seen)
  BY DEF Types, ControllerRecords, Goto, Goes

Observations == {"none", "running", "unknown"} \cup Terminal

LEMMA AnswerGoes ==
    ASSUME Types, NEW c \in Controller, NEW obs \in Observations, Answer(c, obs)
    PROVE  Goes(c, "apply", obs, ctl[c].seen)
  BY ZenonT(40) DEF Types, ControllerRecords, Places, Observations, Answer, Goes

LEMMA GoesMoves == ASSUME NEW c \in Controller, NEW pc, NEW obs, NEW seen, Goes(c, pc, obs, seen)
                   PROVE  Moves(c)
  BY DEF Goes, Moves

\* Within a call the node of the attempt stays in hand.
LEMMA CallGoes ==
    ASSUME IInv, NEW c \in Controller, NEW pc \in Calling, NEW obs, NEW seen,
           Goes(c, pc, obs, seen), ctl[c].pc \in Calling \cup Sending,
           UNCHANGED <<epoch, node, attempt>>
    PROVE  InHand(c)' /\ ctl[c].attempt \in Issued
<1>1. ControllerKnown(c) /\ InHand(c)
  BY DEF IInv
<1>2. pc \notin Verifying \cup Sending /\ pc # "observe"
  BY DEF Calling, Verifying, Sending
<1>3. ctl[c].pc \in Sending => ctl[c].back # "observe"
  BY <1>1 DEF ControllerKnown
<1> QED BY <1>1, <1>2, <1>3 DEF InHand, ControllerKnown, Goes, Verifying

\* The port answers, and has changed nothing that the supervisor looks at.
LEMMA AnswerStep ==
    ASSUME IInv, NEW c \in Controller, NEW obs \in Observations, Answer(c, obs),
           ctl[c].pc \in Calling \cup Sending,
           UNCHANGED <<store, data, run, head>>, Types',
           obs \in Terminal => obs = Reported(c, ctl[c].attempt)
    PROVE  IInv'
<1>1. Goes(c, "apply", obs, ctl[c].seen)
  BY Held, AnswerGoes
<1>2. InHand(c)' /\ ctl[c].attempt \in Issued
  BY <1>1, CallGoes DEF Calling, store, data
<1>3. ASSUME obs \in Terminal
      PROVE  /\ run[ctl[c].attempt].result = obs
             /\ run[ctl[c].attempt].home = c => ~Cancelled(ctl[c].attempt)
  BY <1>3 DEF Reported, Terminal
<1>4. ControllerKnown(c)'
  BY <1>1, <1>2, <1>3 DEF ControllerKnown, Goes, Issued, Cancelled, Calling, Sending, Terminal, data
<1>5. Moves(c)
  BY <1>1, GoesMoves
<1> QED BY <1>2, <1>4, <1>5, ControllerStep DEF store

\* It goes on inside the call.
LEMMA ReadingStep ==
    ASSUME IInv, NEW c \in Controller, Goto(c, "reading"), ctl[c].pc \in Calling \cup Sending,
           UNCHANGED <<store, data, run, head>>, Types'
    PROVE  IInv'
<1>1. Goes(c, "reading", ctl[c].obs, ctl[c].seen)
  BY Held, GotoGoes DEF Places
<1>2. InHand(c)' /\ ctl[c].attempt \in Issued
  BY <1>1, CallGoes DEF Calling, store, data
<1>3. ControllerKnown(c)'
  BY <1>1, <1>2 DEF ControllerKnown, Goes, Issued, Calling, Sending, data
<1>4. Moves(c)
  BY <1>1, GoesMoves
<1> QED BY <1>2, <1>3, <1>4, ControllerStep DEF store

LEMMA ReadResultStep == ASSUME IInv, NEW c \in Controller, ReadResult(c) PROVE IInv'
<1>1. Types /\ ctl[c].attempt \in Attempt
  BY Held DEF ReadResult, ControllerKnown, Calling, Issued
<1>2. Reported(c, ctl[c].attempt) \in Observations
  <2>1. run[ctl[c].attempt].result \in Results
    BY <1>1 DEF Types, RunRecords
  <2>2. Reported(c, ctl[c].attempt) \in {"unknown", run[ctl[c].attempt].result}
    BY DEF Reported
  <2>3. Reported(c, ctl[c].attempt) # "absent"
    BY DEF Reported, Terminal, Cancelled
  <2> QED BY <2>1, <2>2, <2>3 DEF Observations, Results
<1>3. PICK obs \in {Reported(c, ctl[c].attempt), "unknown"} : Answer(c, obs)
  BY DEF ReadResult
<1>4. obs \in Observations /\ (obs \in Terminal => obs = Reported(c, ctl[c].attempt))
  BY <1>2 DEF Observations, Terminal
<1>5. Goes(c, "apply", obs, ctl[c].seen)
  BY <1>1, <1>3, <1>4, AnswerGoes
<1>6. Types'
  BY <1>1, <1>5 DEF Types, ReadResult, store, data, workers, Goes
<1> QED BY <1>3, <1>4, <1>6, AnswerStep DEF ReadResult, Calling, workers

LEMMA PollStep == ASSUME IInv, NEW c \in Controller, Poll(c) PROVE IInv'
<1>1. Types /\ ctl[c].attempt \in Attempt
  BY Held DEF Poll, ControllerKnown, Calling, Issued
<1>2. attempt[ctl[c].attempt].fence \in 0 .. MaxEpoch
  BY <1>1 DEF Types, AttemptRecords
<1>3. CASE Goto(c, "reading") /\ highest' = attempt[ctl[c].attempt].fence
  <2>1. Goes(c, "reading", ctl[c].obs, ctl[c].seen)
    BY <1>1, <1>3, GotoGoes DEF Places
  <2>2. Types'
    BY <1>1, <1>2, <1>3, <2>1 DEF Types, Poll, store, data, Goes
  <2> QED BY <1>3, <2>2, ReadingStep DEF Poll, Calling
<1>4. CASE Answer(c, "unknown") /\ UNCHANGED highest
  <2>1. Goes(c, "apply", "unknown", ctl[c].seen)
    BY <1>1, <1>4, AnswerGoes DEF Observations
  <2>2. Types'
    BY <1>1, <1>4, <2>1 DEF Types, Poll, store, data, Goes
  <2> QED BY <1>4, <2>2, AnswerStep DEF Poll, Calling, Observations, Terminal
<1> QED BY <1>3, <1>4 DEF Poll

LEMMA RaiseStep == ASSUME IInv, NEW c \in Controller, Raise(c) PROVE IInv'
  BY RestStep DEF Raise

LEMMA KeepLeaseStep == ASSUME IInv, NEW c \in Controller, KeepLease(c) PROVE IInv'
  BY RestStep DEF KeepLease

LEMMA ScannedStep == ASSUME IInv, NEW c \in Controller, Scanned(c) PROVE IInv'
  BY RestStep DEF Scanned

\* Outside of a call and of a verification a controller knows only what it has to look at.
Looks(c, pc, back, todo) ==
    /\ ctl' \in [Controller -> ControllerRecords]
    /\ ctl'[c].pc = pc /\ ctl'[c].back = back /\ ctl'[c].todo = todo
    /\ ctl'[c].lease = ctl[c].lease /\ ctl'[c].attempt = ctl[c].attempt
    /\ \A d \in Controller \ {c} : ctl'[d] = ctl[d]

\* The record of a controller whose task is over, or not begun.
LEMMA LooksAt ==
    ASSUME Types, NEW c \in Controller, NEW k \in ControllerRecords,
           k.lease = ctl[c].lease, k.attempt = ctl[c].attempt,
           ctl' = [ctl EXCEPT ![c] = k]
    PROVE  Looks(c, k.pc, k.back, k.todo)
  BY DEF Types, Looks

LEMMA LooksOn ==
    ASSUME IInv, NEW c \in Controller, NEW todo \in SUBSET Task,
           ctl' = [ctl EXCEPT ![c].todo = todo]
    PROVE  Looks(c, ctl[c].pc, ctl[c].back, todo)
<1> DEFINE k == [ctl[c] EXCEPT !.todo = todo]
<1>1. ctl' = [ctl EXCEPT ![c] = k]
  BY Held DEF Types
<1>2. /\ k \in ControllerRecords /\ k.lease = ctl[c].lease /\ k.attempt = ctl[c].attempt
      /\ k.pc = ctl[c].pc /\ k.back = ctl[c].back /\ k.todo = todo
  BY Held DEF ControllerRecords
<1> HIDE DEF k
<1> QED BY <1>1, <1>2, Held, LooksAt

LEMMA LooksKnow ==
    ASSUME IInv, NEW c \in Controller,
           NEW pc \in {"observe", "dispatch"}, NEW back, NEW todo,
           pc = "observe" => \A u \in todo : node'[u].active # 0 \/ node'[u].status = "verifying",
           pc = "dispatch" => back = "dispatch",
           ctl[c].pc \notin Calling \cup Sending, Looks(c, pc, back, todo)
    PROVE  Moves(c) /\ ControllerKnown(c)' /\ InHand(c)'
<1>1. ctl'[c].attempt = 0
  BY Held DEF ControllerKnown, Looks
<1>2. ControllerKnown(c)'
  BY <1>1 DEF ControllerKnown, Calling, Sending, Looks
<1>3. InHand(c)'
  BY <1>1 DEF InHand, Calling, Sending, Verifying, Looks
<1>4. Moves(c)
  BY <1>1 DEF Moves, Looks
<1> QED BY <1>2, <1>3, <1>4

LEMMA LookStep ==
    ASSUME IInv, NEW c \in Controller, UNCHANGED <<store, data, workers, refreshes>>,
           NEW pc \in {"observe", "dispatch"}, NEW back, NEW todo,
           pc = "observe" => \A u \in todo : node[u].active # 0 \/ node[u].status = "verifying",
           pc = "dispatch" => back = "dispatch",
           ctl[c].pc \notin Calling \cup Sending, Looks(c, pc, back, todo)
    PROVE  IInv'
<1>1. Types'
  BY Held DEF Types, store, data, workers, Looks
<1>2. Moves(c) /\ ControllerKnown(c)' /\ InHand(c)'
  BY LooksKnow DEF data
<1>3. UNCHANGED <<epoch, data, run, head>> /\ valid' = valid
  BY DEF store, workers
<1> QED BY <1>1, <1>2, <1>3, ControllerStep

LEMMA TickStarts == ASSUME IInv, NEW c \in Controller, NEW mode \in {"tick", "close"}, Tick(c, mode)
                    PROVE  IInv'
<1> DEFINE todo == {t \in Nodes : node[t].active # 0 \/ (mode = "tick" /\ node[t].status = "verifying")}
<1>1. todo \in SUBSET Task /\ \A u \in todo : node[u].active # 0 \/ node[u].status = "verifying"
  BY DEF Nodes
<1>2. ctl' = [ctl EXCEPT ![c].pc = "observe", ![c].back = "observe", ![c].mode = mode, ![c].todo = todo]
  BY DEF Tick
<1>3. ctl[c].pc \notin Calling \cup Sending
  BY DEF Tick, Calling, Sending
<1> HIDE DEF todo
<1>4. Looks(c, "observe", "observe", todo)
  <2> DEFINE k == [ctl[c] EXCEPT !.pc = "observe", !.back = "observe", !.mode = mode, !.todo = todo]
  <2>1. ctl' = [ctl EXCEPT ![c] = k]
    BY <1>2, Held DEF Types
  <2>2. /\ k \in ControllerRecords /\ k.lease = ctl[c].lease /\ k.attempt = ctl[c].attempt
        /\ k.pc = "observe" /\ k.back = "observe" /\ k.todo = todo
    BY <1>1, Held DEF ControllerRecords, Places
  <2> HIDE DEF k
  <2> QED BY <2>1, <2>2, Held, LooksAt
<1> QED BY <1>1, <1>3, <1>4, LookStep DEF Tick

LEMMA PlanTasks == ASSUME Types PROVE DOMAIN plan \in SUBSET Task
<1>1. plan = <<>> => DOMAIN plan = {}
  OBVIOUS
<1>2. plan \in {<<>>} \cup InitialPlans \cup LaterPlans
  BY DEF Types
<1> QED BY <1>1, <1>2, PlansAssumption

LEMMA ObservedStep == ASSUME IInv, NEW c \in Controller, Observed(c) PROVE IInv'
<1>1. DOMAIN plan \in SUBSET Task
  BY Held, PlanTasks
<1>2. Looks(c, "dispatch", "dispatch", DOMAIN plan)
  <2> DEFINE k == [ctl[c] EXCEPT !.pc = "dispatch", !.back = "dispatch", !.todo = DOMAIN plan]
  <2>1. ctl' = [ctl EXCEPT ![c] = k]
    BY Held DEF Observed, Types
  <2>2. /\ k \in ControllerRecords /\ k.lease = ctl[c].lease /\ k.attempt = ctl[c].attempt
        /\ k.pc = "dispatch" /\ k.back = "dispatch" /\ k.todo = DOMAIN plan
    BY <1>1, Held DEF ControllerRecords, Places
  <2> HIDE DEF k
  <2> QED BY <2>1, <2>2, Held, LooksAt
<1>3. ctl[c].pc \notin Calling \cup Sending
  BY DEF Observed, Calling, Sending
<1> QED BY <1>2, <1>3, LookStep DEF Observed

\* The task that is looked at next.
LEMMA NextTask ==
    ASSUME IInv, NEW c \in Controller, ctl[c].todo # {}
    PROVE  Next_(c) \in ctl[c].todo /\ Next_(c) \in Task /\ ctl[c].todo \ {Next_(c)} \in SUBSET Task
<1>1. ctl[c].todo \subseteq Task
  BY Held DEF ControllerRecords
<1> QED BY <1>1, Smallest, Constants DEF Next_

LEMMA SkipStep == ASSUME IInv, NEW c \in Controller, Skip(c) PROVE IInv'
<1>1. ctl[c].pc = "dispatch" /\ ctl[c].back = "dispatch" /\ ctl[c].todo \ {Next_(c)} \in SUBSET Task
  BY Held, NextTask DEF Skip, DispatchStep, ControllerKnown, Sending
<1>2. Looks(c, "dispatch", "dispatch", ctl[c].todo \ {Next_(c)})
  BY <1>1, Held, LooksOn DEF Skip
<1>3. ctl[c].pc \notin Calling \cup Sending
  BY <1>1 DEF Calling, Sending
<1> QED BY <1>2, <1>3, LookStep DEF Skip

\* The attempt that a task waits for.
LEMMA ActiveAttempt ==
    ASSUME IInv, NEW t \in Task, node[t].active # 0
    PROVE  /\ node[t].active \in Issued /\ node[t].active \in Attempt
           /\ attempt[node[t].active].task = t /\ attempt[node[t].active].state \in Live
           /\ attempt[node[t].active].spec = node[t].spec
  BY DEF IInv, Persisted, NodeKnown, Last, AttemptsOf, Issued

LEMMA ObserveStep == ASSUME IInv, NEW c \in Controller, Observe(c) PROVE IInv'
<1> DEFINE t == Next_(c)
           a == node[t].active
           k == [ctl[c] EXCEPT !.pc = "call", !.task = t, !.attempt = a, !.todo = @ \ {t}]
<1>1. /\ Types /\ ctl[c] \in ControllerRecords /\ InHand(c) /\ ctl[c].lease = epoch
      /\ t \in ctl[c].todo /\ t \in Task /\ ctl[c].todo \ {t} \in SUBSET Task
      /\ ctl[c].pc = "observe" /\ a # 0
  BY Held, NextTask DEF Observe, Holds
<1>2. a \in Issued /\ a \in Attempt /\ attempt[a].task = t /\ attempt[a].state \in Live
  BY <1>1, ActiveAttempt
<1>3. ctl' = [ctl EXCEPT ![c] = k]
  BY <1>1 DEF Observe, Types
<1>4. /\ k \in ControllerRecords /\ k.lease = ctl[c].lease /\ k.back = ctl[c].back
      /\ k.pc = "call" /\ k.task = t /\ k.attempt = a /\ k.todo = ctl[c].todo \ {t}
  BY <1>1, <1>2, Constants DEF ControllerRecords, Places
<1> HIDE DEF k, a, t
<1>5. /\ ctl' \in [Controller -> ControllerRecords] /\ ctl'[c] = k
      /\ \A d \in Controller \ {c} : ctl'[d] = ctl[d]
  BY <1>1, <1>3, <1>4 DEF Types
<1>6. Types'
  BY <1>1, <1>5 DEF Types, Observe, store, data, workers
<1>7. ControllerKnown(c)'
  BY <1>2, <1>4, <1>5 DEF ControllerKnown, Calling, Sending, Observe, data, Issued
<1>8. InHand(c)'
  BY <1>1, <1>2, <1>4, <1>5 DEF InHand, Calling, Sending, Verifying, Observe, data, store, a
<1>9. Moves(c)
  BY <1>2, <1>4, <1>5 DEF Moves, Observe, data
<1> QED BY <1>6, <1>7, <1>8, <1>9, ControllerStep DEF Observe, store, workers

LEMMA SendStep == ASSUME IInv, NEW c \in Controller, Send(c) PROVE IInv'
<1>1. Goes(c, "sending", ctl[c].obs, ctl[c].seen) /\ ctl[c].pc = "send"
  BY Held, GotoGoes DEF Send, Places
<1>2. Types'
  BY <1>1, Held DEF Types, Send, store, data, workers, Goes
<1>3. ControllerKnown(c)'
  BY <1>1, Held DEF ControllerKnown, Goes, Issued, Calling, Sending, Send, data, workers
<1>4. InHand(c)'
  BY <1>1, Held DEF InHand, Goes, Calling, Sending, Verifying, Send, data, store
<1>5. Moves(c)
  BY <1>1, GoesMoves
<1> QED BY <1>2, <1>3, <1>4, <1>5, ControllerStep DEF Send, store, workers
-----------------------------------------------------------------------------
(* Steps of one attempt, in the ledger and in reality.                      *)

LEMMA RunStep ==
    ASSUME IInv, NEW a \in Attempt, UNCHANGED <<store, data, head>>, Types',
           \A b \in Attempt \ {a} : run'[b] = run[b],
           \A d \in Controller :
              /\ ctl'[d].attempt = ctl[d].attempt /\ ctl'[d].lease = ctl[d].lease
              /\ ctl[d].attempt # a => ctl'[d] = ctl[d]
              /\ ctl[d].attempt = a => ControllerKnown(d)'
              /\ InHand(d)',
           \/ attempt[a].state \in Live
           \/ run'[a].result = run[a].result /\ run'[a].content = run[a].content,
           AttemptKnown(a)'
    PROVE  IInv'
<1>1. Leases'
  BY DEF IInv, Leases, store
<1>2. Persisted'
  BY PersistedFrame DEF IInv, Content, data, Live
<1>3. ASSUME NEW b \in Attempt \ {a} PROVE AttemptKnown(b)'
  BY <1>3 DEF IInv, AttemptKnown, Done, data, store
<1>4. ASSUME NEW d \in Controller, ctl[d].attempt # a PROVE ControllerKnown(d)'
  <2>1. ControllerKnown(d) /\ ctl'[d] = ctl[d]
    BY <1>4 DEF IInv
  <2>2. ctl[d].attempt \in Issued => run'[ctl[d].attempt] = run[ctl[d].attempt]
    BY <1>4 DEF Issued
  <2> QED BY <2>1, <2>2 DEF ControllerKnown, Issued, Calling, Sending, Cancelled, data
<1> QED BY <1>1, <1>2, <1>3, <1>4 DEF IInv

\* A step of the thread or of the process of a.
LEMMA ReallyStep ==
    ASSUME IInv, NEW a \in Attempt, UNCHANGED <<store, data, ctl, highest, head, refreshes>>,
           NEW r \in RunRecords, run' = [run EXCEPT ![a] = r],
           r.home = run[a].home, r.cancelled = run[a].cancelled,
           run[a].result # "absent", r.result # "absent",
           r.result # run[a].result => run[a].result = "running" \/ Cancelled(a),
           run[a].result = "cancelled" => r.result = "cancelled",
           r.result # run[a].result \/ r.content # run[a].content => attempt[a].state \in Live,
           AttemptKnown(a)'
    PROVE  IInv'
<1>1. /\ run' \in [Attempt -> RunRecords] /\ run'[a] = r
      /\ \A b \in Attempt \ {a} : run'[b] = run[b]
  BY DEF IInv, Types
<1>2. Types'
  BY <1>1 DEF IInv, Types, store, data
<1>3. ASSUME NEW d \in Controller PROVE InHand(d)'
  BY DEF IInv, InHand, store, data
<1>4. ASSUME NEW d \in Controller, ctl[d].attempt = a PROVE ControllerKnown(d)'
  <2>1. ControllerKnown(d)
    BY DEF IInv
  <2>2. CASE r.result = run[a].result
    BY <1>1, <1>4, <2>1, <2>2 DEF ControllerKnown, Issued, Calling, Sending, Cancelled, data
  <2>3. CASE r.result # run[a].result
    BY <1>1, <1>4, <2>1, <2>3 DEF ControllerKnown, Issued, Calling, Sending, Cancelled, data, Terminal
  <2> QED BY <2>2, <2>3
<1> QED BY <1>1, <1>2, <1>3, <1>4, RunStep

\* What runs, or may still start, is waited for.
LEMMA WaitedFor ==
    ASSUME IInv, NEW a \in Attempt, run[a].proc = "live" \/ Open(a)
    PROVE  /\ a \in Issued /\ attempt[a].state \in Live /\ attempt[a].task \in Task
           /\ node[attempt[a].task].active = a /\ run[a].result # "absent"
<1>1. AttemptKnown(a) /\ attempt[a].task \in Task \cup {0}
  BY DEF IInv, Types, AttemptRecords
<1>2. run[a].result # "absent" /\ attempt[a].task # 0
  BY <1>1 DEF AttemptKnown, Open, Unregistered
<1>3. ~Done(a)
  BY DEF Done, Open, Cancelled, Terminal
<1> QED BY <1>1, <1>2, <1>3 DEF AttemptKnown, Issued

LEMMA LaunchStep == ASSUME IInv, NEW a \in Attempt, Launch(a) PROVE IInv'
<1> DEFINE r == [run[a] EXCEPT !.proc = "live"]
<1>1. Open(a) /\ run[a].result = "running" /\ Types /\ AttemptKnown(a)
  BY DEF IInv, Launch, Open, Cancelled
<1>2. a \in Issued /\ attempt[a].state \in Live /\ run[a].result # "absent"
  BY <1>1, WaitedFor
<1>3. run' = [run EXCEPT ![a] = r]
  BY <1>1 DEF Types, Launch
<1>4. /\ r \in RunRecords /\ r.result = "running" /\ r.content = run[a].content
      /\ r.home = run[a].home /\ r.cancelled = run[a].cancelled
  BY <1>1 DEF Types, RunRecords
<1> HIDE DEF r
<1>5. run'[a] = r
  BY <1>1, <1>3 DEF Types
<1>6. AttemptKnown(a)'
  BY <1>1, <1>2, <1>4, <1>5 DEF AttemptKnown, Launch, Terminal, Issued, data, store
<1> QED BY <1>1, <1>2, <1>3, <1>4, <1>6, ReallyStep DEF Launch

LEMMA EndStep == ASSUME IInv, NEW a \in Attempt, End(a) PROVE IInv'
<1>1. PICK result \in Terminal :
          /\ run[a].cancelled <=> result = "cancelled"
          /\ run[a].proc # "live" => result \in {"cancelled", "crash", "other"}
          /\ run' = [run EXCEPT
                ![a].result = result,
                ![a].proc = IF @ = "live" THEN "gone" ELSE @,
                ![a].content = IF result = "candidate"
                               THEN head[attempt[a].spec.root] ELSE 0]
  BY DEF End
<1> DEFINE content == IF result = "candidate" THEN head[attempt[a].spec.root] ELSE 0
           r == [run[a] EXCEPT !.result = result,
                    !.proc = IF @ = "live" THEN "gone" ELSE @, !.content = content]
<1>2. Open(a) /\ Types /\ AttemptKnown(a)
  BY DEF IInv, End
<1>3. a \in Issued /\ attempt[a].state \in Live /\ run[a].result # "absent"
  BY <1>2, WaitedFor
<1>4. run' = [run EXCEPT ![a] = r]
  BY <1>1, <1>2 DEF Types
<1>5. content \in 0 .. MaxAttempts
  BY <1>2, <1>3, Constants DEF Types, AttemptKnown, Issued, Spec_
<1>6. /\ r \in RunRecords /\ r.result = result /\ r.content = content /\ r.home = run[a].home
      /\ r.proc = (IF run[a].proc = "live" THEN "gone" ELSE run[a].proc)
      /\ r.cancelled = run[a].cancelled
  BY <1>2, <1>5 DEF Types, RunRecords, Results
<1> HIDE DEF r
<1>7. run'[a] = r
  BY <1>2, <1>4 DEF Types
<1>8. AttemptKnown(a)'
  BY <1>1, <1>2, <1>3, <1>6, <1>7, ZenonT(40) DEF AttemptKnown, End, Terminal, Issued, data, store
<1>9. run[a].result = "running" \/ Cancelled(a)
  BY <1>2 DEF Open
<1> QED BY <1>1, <1>2, <1>3, <1>4, <1>6, <1>8, <1>9, ReallyStep DEF End, Terminal, Cancelled

LEMMA UnconfirmedStep == ASSUME IInv, NEW a \in Attempt, EndUnconfirmed(a) PROVE IInv'
<1> DEFINE r == [run[a] EXCEPT !.result = "unknown"]
<1>1. Open(a) /\ Types /\ AttemptKnown(a)
  BY DEF IInv, EndUnconfirmed
<1>2. a \in Issued /\ attempt[a].state \in Live /\ run[a].result # "absent"
  BY <1>1, WaitedFor
<1>3. run' = [run EXCEPT ![a] = r]
  BY <1>1 DEF Types, EndUnconfirmed
<1>4. /\ r \in RunRecords /\ r.result = "unknown" /\ r.content = run[a].content
      /\ r.home = run[a].home /\ r.cancelled = run[a].cancelled
  BY <1>1 DEF Types, RunRecords, Results
<1> HIDE DEF r
<1>5. run'[a] = r
  BY <1>1, <1>3 DEF Types
<1>6. AttemptKnown(a)'
  BY <1>1, <1>2, <1>4, <1>5 DEF AttemptKnown, EndUnconfirmed, Terminal, Issued, data, store
<1>7. (run[a].result = "running" \/ Cancelled(a)) /\ run[a].result # "cancelled"
  BY <1>1 DEF Open, Cancelled
<1> QED BY <1>2, <1>3, <1>4, <1>6, <1>7, ReallyStep DEF EndUnconfirmed

LEMMA VanishStep == ASSUME IInv, NEW a \in Attempt, Vanish(a) PROVE IInv'
<1> DEFINE r == [run[a] EXCEPT !.proc = "gone"]
<1>1. run[a].proc = "live" /\ Types /\ AttemptKnown(a)
  BY DEF IInv, Vanish
<1>2. a \in Issued /\ attempt[a].state \in Live /\ run[a].result # "absent"
  BY <1>1, WaitedFor
<1>3. run' = [run EXCEPT ![a] = r]
  BY <1>1 DEF Types, Vanish
<1>4. /\ r \in RunRecords /\ r.result = run[a].result /\ r.content = run[a].content
      /\ r.home = run[a].home /\ r.cancelled = run[a].cancelled /\ r.proc = "gone"
  BY <1>1 DEF Types, RunRecords
<1> HIDE DEF r
<1>5. run'[a] = r
  BY <1>1, <1>3 DEF Types
<1>6. AttemptKnown(a)'
  BY <1>1, <1>2, <1>4, <1>5 DEF AttemptKnown, Vanish, Terminal, Issued, data, store
<1> QED BY <1>2, <1>3, <1>4, <1>6, ReallyStep DEF Vanish

\* Who writes is alone in its worktree: no candidate there changes.
LEMMA WriteStep == ASSUME IInv, NEW a \in Attempt, Write(a) PROVE IInv'
<1> DEFINE t == attempt[a].task
           root == attempt[a].spec.root
<1>1. /\ Types /\ Persisted /\ Leases /\ run[a].proc = "live" /\ attempt[a].spec.write
      /\ AttemptKnown(a) /\ UNCHANGED <<store, data, ctl, run, highest, refreshes>>
      /\ head' = [head EXCEPT ![root] = a]
  BY DEF IInv, Write
<1>2. /\ a \in Issued /\ attempt[a].state \in Live /\ t \in Task /\ node[t].active = a
      /\ attempt[a].spec = node[t].spec
  <2>1. a \in Issued /\ attempt[a].state \in Live /\ t \in Task /\ node[t].active = a /\ a # 0
    BY <1>1, WaitedFor, Constants
  <2> QED BY <2>1, ActiveAttempt
<1>3. root \in Root /\ head' \in [Root -> 0 .. MaxAttempts] /\ head'[root] = a
      /\ \A r \in Root \ {root} : head'[r] = head[r]
  BY <1>1, <1>2, Constants DEF AttemptKnown, Types, Issued, Spec_
<1>4. ASSUME NEW u \in Task, node[u].active # 0 \/ node[u].status \in Candidate,
             u # t, node[u].spec.root = root
      PROVE  FALSE
  BY <1>1, <1>2, <1>4, Constants DEF Persisted, Apart
<1>5. ASSUME NEW u \in Task, node[u].status \in Candidate PROVE Content(u)' = Content(u)
  <2>1. node[u].spec.root \in Root
    BY <1>1, <1>5 DEF Persisted, NodeShape, Candidate, Spec_
  <2>2. u # t
    BY <1>1, <1>2, <1>5, Constants DEF Persisted, NodeShape, Candidate, Live
  <2> QED BY <1>1, <1>3, <1>4, <1>5, <2>1, <2>2 DEF Content, data
<1>6. Persisted'
  BY <1>1, <1>5, PersistedFrame
<1>7. ASSUME NEW b \in Attempt PROVE AttemptKnown(b)'
  <2>1. AttemptKnown(b)
    BY DEF IInv
  <2>2. ASSUME run[b].result = "candidate", attempt[b].state \in Live
        PROVE  attempt[b].spec.root # root /\ attempt[b].spec.root \in Root
    <3>1. b # a /\ attempt[b].task # 0
      BY <1>1, <2>1, <2>2 DEF AttemptKnown
    <3>2. attempt[b].task \in Task /\ node[attempt[b].task].active = b /\ b # 0
      BY <1>1, <2>1, <2>2, <3>1, Constants DEF AttemptKnown, Types, AttemptRecords
    <3>3. attempt[b].spec = node[attempt[b].task].spec /\ attempt[b].task # t
      BY <1>2, <3>1, <3>2, ActiveAttempt
    <3> QED BY <1>4, <2>1, <3>1, <3>2, <3>3 DEF AttemptKnown, Spec_
  <2> QED BY <1>1, <1>3, <2>1, <2>2 DEF AttemptKnown, Done, data, store
<1>8. Leases' /\ Types'
  BY <1>1, <1>3 DEF Leases, Types, store, data
<1>9. ASSUME NEW d \in Controller PROVE ControllerKnown(d)' /\ InHand(d)'
  BY <1>1 DEF IInv, ControllerKnown, InHand, data, store, Issued, Cancelled
<1> QED BY <1>6, <1>7, <1>8, <1>9 DEF IInv
-----------------------------------------------------------------------------
(* The port.                                                                *)

\* A call of the port in which the supervisor's attempt changes.
LEMMA PortChange ==
    ASSUME IInv, NEW c \in Controller, NEW pc \in Calling, NEW obs, NEW seen,
           Goes(c, pc, obs, seen), ctl[c].pc \in Calling \cup Sending,
           UNCHANGED <<store, data, head>>, Types',
           \A b \in Attempt \ {ctl[c].attempt} : run'[b] = run[b],
           \/ attempt[ctl[c].attempt].state \in Live
           \/ /\ run'[ctl[c].attempt].result = run[ctl[c].attempt].result
              /\ run'[ctl[c].attempt].content = run[ctl[c].attempt].content,
           AttemptKnown(ctl[c].attempt)',
           ControllerKnown(c)',
           \A d \in Controller \ {c} : ctl[d].attempt = ctl[c].attempt => ControllerKnown(d)'
    PROVE  IInv'
<1>1. InHand(c)' /\ ctl[c].attempt \in Attempt
  BY CallGoes DEF store, data, Issued
<1>2. ASSUME NEW d \in Controller \ {c} PROVE InHand(d)'
  BY DEF IInv, InHand, Goes, store, data
<1>3. \A d \in Controller :
         /\ ctl'[d].attempt = ctl[d].attempt /\ ctl'[d].lease = ctl[d].lease
         /\ ctl[d].attempt # ctl[c].attempt => ctl'[d] = ctl[d]
  BY DEF Goes
<1> DEFINE a == ctl[c].attempt
<1> HIDE DEF a
<1> QED BY <1>1, <1>2, <1>3, RunStep

LEMMA DispatchStep_ == ASSUME IInv, NEW c \in Controller, Dispatch(c) PROVE IInv'
<1> DEFINE a == ctl[c].attempt
           r == [Unregistered EXCEPT !.result = "running", !.home = c]
<1>1. /\ Types /\ Leases /\ ctl[c].pc = "sending" /\ ControllerKnown(c) /\ a \in Issued /\ a \in Attempt
      /\ run[a].result = "absent" /\ attempt[a].fence = ctl[c].lease /\ AttemptKnown(a)
      /\ UNCHANGED <<store, data, head, refreshes>> /\ attempt[a].fence \in 0 .. MaxEpoch
  BY Held DEF Dispatch, IInv, ControllerKnown, Sending, Issued, Types, AttemptRecords
<1>2. CASE Answer(c, "unknown") /\ UNCHANGED <<run, highest>>
  <2>1. Goes(c, "apply", "unknown", ctl[c].seen)
    BY <1>1, <1>2, AnswerGoes DEF Observations
  <2>2. Types'
    BY <1>1, <1>2, <2>1 DEF Types, store, data, Goes
  <2> QED BY <1>1, <1>2, <2>2, AnswerStep DEF Sending, Observations, Terminal
<1>3. CASE run' = [run EXCEPT ![a] = r] /\ highest' = attempt[a].fence /\ Goto(c, "reading")
  <2>1. Goes(c, "reading", ctl[c].obs, ctl[c].seen)
    BY <1>1, <1>3, GotoGoes DEF Places
  <2>2. /\ r \in RunRecords /\ r.result = "running" /\ r.home = c /\ r.proc = "none" /\ ~r.cancelled
    BY Constants DEF RunRecords, Results, Unregistered
  <2> HIDE DEF r
  <2>3. /\ run' \in [Attempt -> RunRecords] /\ run'[a] = r
        /\ \A b \in Attempt \ {a} : run'[b] = run[b]
    BY <1>1, <1>3, <2>2 DEF Types
  <2>4. Types'
    BY <1>1, <1>3, <2>1, <2>3 DEF Types, store, data, Goes
  <2>5. attempt[a].state \in Live /\ attempt[a].task # 0 /\ attempt[a].fence \in 1 .. epoch
    BY <1>1 DEF AttemptKnown, Done, Terminal, Issued
  <2>6. ASSUME NEW d \in Controller, attempt[a].fence = ctl[d].lease PROVE d = c
    <3>1. attempt[a].fence # 0
      BY <1>1, <2>5, Constants DEF Types
    <3> QED BY <1>1, <2>6, <3>1 DEF Leases
  <2>7. AttemptKnown(a)'
    BY <1>1, <2>1, <2>2, <2>3, <2>5, <2>6 DEF AttemptKnown, Terminal, data, store, Goes
  <2>8. ControllerKnown(c)'
    BY <1>1, <2>1, <2>3 DEF ControllerKnown, Goes, Issued, Calling, Sending, data
  <2>9. ASSUME NEW d \in Controller \ {c}, ctl[d].attempt = a PROVE ControllerKnown(d)'
    <3>1. ControllerKnown(d) /\ ctl'[d] = ctl[d] /\ attempt[a].fence # ctl[d].lease
      BY <2>1, <2>6 DEF IInv, Goes
    <3> QED BY <1>1, <2>9, <3>1 DEF ControllerKnown, Issued, Calling, Sending, Terminal, data
  <2> QED BY <1>1, <2>1, <2>3, <2>4, <2>5, <2>7, <2>8, <2>9, PortChange DEF Calling, Sending
<1> QED BY <1>2, <1>3 DEF Dispatch

LEMMA CancelStep == ASSUME IInv, NEW c \in Controller, Cancel(c) PROVE IInv'
<1> DEFINE a == ctl[c].attempt
           r == [run[a] EXCEPT !.cancelled = TRUE]
<1>1. /\ Types /\ ctl[c].pc = "call" /\ ControllerKnown(c) /\ a \in Issued /\ a \in Attempt
      /\ AttemptKnown(a) /\ UNCHANGED <<store, data, highest, head, refreshes>>
  BY Held DEF Cancel, IInv, ControllerKnown, Calling, Issued
<1>2. CASE Answer(c, "unknown") /\ UNCHANGED run
  <2>1. Goes(c, "apply", "unknown", ctl[c].seen)
    BY <1>1, <1>2, AnswerGoes DEF Observations
  <2>2. Types'
    BY <1>1, <1>2, <2>1 DEF Types, store, data, Goes
  <2> QED BY <1>1, <1>2, <2>2, AnswerStep DEF Calling, Observations, Terminal
<1>3. CASE Goto(c, "reading") /\ UNCHANGED run
  <2>1. Goes(c, "reading", ctl[c].obs, ctl[c].seen)
    BY <1>1, <1>3, GotoGoes DEF Places
  <2>2. Types'
    BY <1>1, <1>3, <2>1 DEF Types, store, data, Goes
  <2> QED BY <1>1, <1>3, <2>2, ReadingStep DEF Calling
<1>4. CASE /\ run[a].result # "absent" /\ run[a].home = c
           /\ run' = [run EXCEPT ![a].cancelled = TRUE] /\ Goto(c, "closing")
  <2>1. Goes(c, "closing", ctl[c].obs, ctl[c].seen)
    BY <1>1, <1>4, GotoGoes DEF Places
  <2>2. run' = [run EXCEPT ![a] = r]
    BY <1>1, <1>4 DEF Types
  <2>3. /\ r \in RunRecords /\ r.result = run[a].result /\ r.home = c /\ r.proc = run[a].proc
        /\ r.cancelled /\ r.content = run[a].content
    BY <1>1, <1>4, ZenonT(40) DEF Types, RunRecords
  <2> HIDE DEF r
  <2>4. /\ run' \in [Attempt -> RunRecords] /\ run'[a] = r
        /\ \A b \in Attempt \ {a} : run'[b] = run[b]
    BY <1>1, <2>2, <2>3 DEF Types
  <2>5. Types'
    BY <1>1, <2>1, <2>4 DEF Types, store, data, Goes
  <2>6. Done(a) => Done(a)'
    BY <1>1, <1>4, <2>1, <2>3, <2>4 DEF Done, Goes
  <2>7. AttemptKnown(a)'
    <3>0. run[a].result # "absent" /\ run[a].home = c
      BY <1>4
    <3>1. /\ attempt' = attempt /\ node' = node /\ epoch' = epoch /\ head' = head
          /\ \A d \in Controller : ctl'[d].lease = ctl[d].lease
          /\ ctl'[c].attempt = ctl[c].attempt
      BY <1>1, <2>1 DEF data, store, Goes
    <3>2. /\ attempt[a].task # 0
          /\ r.result \in Terminal => r.proc # "live"
          /\ r.result = "candidate" => r.proc = "gone"
          /\ r.result = "candidate" /\ attempt[a].state \in Live =>
                head[attempt[a].spec.root] = r.content
      BY <1>1, <2>3, SMTT(40) DEF AttemptKnown, Issued
    <3>3. /\ attempt[a].spec \in Spec_ /\ attempt[a].fence \in 1 .. epoch
          /\ node[attempt[a].task].status # "absent"
          /\ attempt[a].state \in Live => node[attempt[a].task].active = a
          /\ attempt[a].state \notin Live => Done(a)
          /\ \A d \in Controller : attempt[a].fence = ctl[d].lease => d = c
      BY <1>1, <3>2, <3>0, SMTT(40) DEF AttemptKnown
    <3>4. attempt[a].state \notin Live => Done(a)'
      BY <2>6, <3>3
    <3>5. run'[a].result # "absent" /\ run'[a].home = c
      BY <2>3, <2>4, <3>0
    <3>6. PICK b \in Attempt : b = ctl[c].attempt /\ b = ctl'[c].attempt
      BY <1>1, <3>1
    <3>7. attempt[b].state \notin Live => Done(b)'
      BY <3>4, <3>6 DEF Done
    <3>8. AttemptKnown(b)'
      <4>1. /\ run'[b].result = run[b].result /\ run'[b].content = run[b].content
            /\ run'[b].proc = run[b].proc /\ run'[b].home = c
        BY <2>3, <2>4, <3>6
      <4>2. /\ attempt[b].task # 0 /\ run[b].result # "absent"
            /\ run[b].result \in Terminal => run[b].proc # "live"
            /\ run[b].result = "candidate" => run[b].proc = "gone"
            /\ run[b].result = "candidate" /\ attempt[b].state \in Live =>
                  head[attempt[b].spec.root] = run[b].content
        BY <2>3, <3>0, <3>2, <3>6
      <4>3. /\ attempt[b].spec \in Spec_ /\ attempt[b].fence \in 1 .. epoch
            /\ node[attempt[b].task].status # "absent"
            /\ attempt[b].state \in Live => node[attempt[b].task].active = b
            /\ \A d \in Controller : attempt[b].fence = ctl[d].lease => d = c
        BY <3>3, <3>6
      <4> HIDE DEF a, r
      <4> QED BY <3>1, <3>7, <4>1, <4>2, <4>3, SMTT(40) DEF AttemptKnown
    <3> QED BY <3>6, <3>8, SMTT(40) DEF AttemptKnown, Done
  <2>8. ControllerKnown(c)'
    BY <1>1, <1>4, <2>1, <2>3, <2>4 DEF ControllerKnown, Goes, Issued, Calling, Sending, data
  <2>9. ASSUME NEW d \in Controller \ {c}, ctl[d].attempt = a PROVE ControllerKnown(d)'
    <3>1. ControllerKnown(d) /\ ctl'[d] = ctl[d] /\ run[a].home # d
      BY <1>4, <2>1, <2>9 DEF IInv, Goes
    <3> QED BY <1>1, <2>3, <2>4, <2>9, <3>1 DEF ControllerKnown, Issued, Calling, Sending, data
  <2> QED BY <1>1, <2>1, <2>3, <2>4, <2>5, <2>7, <2>8, <2>9, PortChange DEF Calling
<1> QED BY <1>2, <1>3, <1>4 DEF Cancel

LEMMA CloseTreeStep == ASSUME IInv, NEW c \in Controller, CloseTree(c) PROVE IInv'
<1> DEFINE a == ctl[c].attempt
<1>1. /\ Types /\ ctl[c].pc = "closing" /\ ControllerKnown(c) /\ a \in Issued /\ a \in Attempt
      /\ AttemptKnown(a) /\ UNCHANGED <<store, data, highest, head, refreshes>>
      /\ run[a].home = c /\ run[a].cancelled /\ run[a].result # "absent"
  BY Held DEF CloseTree, IInv, ControllerKnown, Calling, Issued
<1>2. ASSUME NEW obs \in {"cancelled", "unknown"}, Answer(c, obs), NEW r \in RunRecords,
             run' = [run EXCEPT ![a] = r], r.result = obs, r.home = c, r.cancelled,
             r.content = run[a].content,
             obs = "cancelled" => r.proc # "live",
             obs = "unknown" => run[a].result # "cancelled"
      PROVE  IInv'
  <2>1. Goes(c, "apply", obs, ctl[c].seen)
    BY <1>1, <1>2, AnswerGoes DEF Observations, Terminal
  <2>2. /\ run' \in [Attempt -> RunRecords] /\ run'[a] = r
        /\ \A b \in Attempt \ {a} : run'[b] = run[b]
    BY <1>1, <1>2 DEF Types
  <2>3. Types'
    BY <1>1, <2>1, <2>2 DEF Types, store, data, Goes
  <2>4. Done(a) => Done(a)' /\ run[a].result = "cancelled" /\ obs = "cancelled"
    BY <1>1, <1>2, <2>1, <2>2 DEF Done, Terminal, Goes
  <2>5. AttemptKnown(a)'
    <3>1. /\ attempt' = attempt /\ node' = node /\ epoch' = epoch /\ head' = head
          /\ \A d \in Controller : ctl'[d].lease = ctl[d].lease
          /\ ctl'[c].attempt = ctl[c].attempt
      BY <1>1, <2>1 DEF data, store, Goes
    <3>2. obs \in Terminal <=> obs = "cancelled"
      BY DEF Terminal
    <3>3. /\ attempt[a].task # 0 /\ attempt[a].spec \in Spec_ /\ attempt[a].fence \in 1 .. epoch
          /\ node[attempt[a].task].status # "absent"
          /\ attempt[a].state \in Live => node[attempt[a].task].active = a
          /\ attempt[a].state \notin Live => Done(a)
          /\ \A d \in Controller : attempt[a].fence = ctl[d].lease => d = c
      BY <1>1, SMTT(40) DEF AttemptKnown, Issued
    <3> QED BY <1>2, <2>2, <2>4, <3>1, <3>2, <3>3, SMTT(40) DEF AttemptKnown
  <2>6. ControllerKnown(c)'
    BY <1>1, <1>2, <2>1, <2>2
       DEF ControllerKnown, Goes, Issued, Calling, Sending, Cancelled, Terminal, data
  <2>7. ASSUME NEW d \in Controller \ {c}, ctl[d].attempt = a PROVE ControllerKnown(d)'
    <3>1. ControllerKnown(d) /\ ctl'[d] = ctl[d] /\ run[a].home # d
      BY <1>1, <2>1, <2>7 DEF IInv, Goes
    <3> QED BY <1>1, <1>2, <2>2, <2>7, <3>1 DEF ControllerKnown, Issued, Calling, Sending, data
  <2>8. \/ attempt[a].state \in Live
        \/ run'[a].result = run[a].result /\ run'[a].content = run[a].content
    BY <1>1, <1>2, <2>2, <2>4 DEF AttemptKnown, Issued
  <2> QED BY <1>1, <1>2, <2>1, <2>2, <2>3, <2>5, <2>6, <2>7, <2>8, PortChange DEF Calling
<1>3. CASE run' = [run EXCEPT ![a] = TreeClosed(@)] /\ Answer(c, "cancelled")
  <2> DEFINE r == TreeClosed(run[a])
  <2>1. /\ r \in RunRecords /\ r.result = "cancelled" /\ r.home = c /\ r.cancelled
        /\ r.proc # "live" /\ r.content = run[a].content
    BY <1>1, ZenonT(40) DEF Types, RunRecords, Results, Terminal, TreeClosed
  <2>2. run' = [run EXCEPT ![a] = r]
    BY <1>1, <1>3 DEF Types
  <2> QED BY <1>2, <1>3, <2>1, <2>2
<1>4. CASE /\ run[a].result # "cancelled"
           /\ run' = [run EXCEPT ![a].result = "unknown"] /\ Answer(c, "unknown")
  <2> DEFINE r == [run[a] EXCEPT !.result = "unknown"]
  <2>1. /\ r \in RunRecords /\ r.result = "unknown" /\ r.home = c /\ r.cancelled
        /\ r.content = run[a].content
    BY <1>1, ZenonT(40) DEF Types, RunRecords, Results
  <2>2. run' = [run EXCEPT ![a] = r]
    BY <1>1, <1>4 DEF Types
  <2> QED BY <1>2, <1>4, <2>1, <2>2
<1> QED BY <1>3, <1>4 DEF CloseTree
-----------------------------------------------------------------------------
(* Leases and crashes.                                                      *)

LEMMA ExpireStep == ASSUME IInv, Expire PROVE IInv'
<1>1. Types' /\ Leases'
  BY DEF IInv, Expire, Types, Leases, data, workers
<1>2. Persisted'
  BY PersistedFrame DEF IInv, Expire, Content, data, workers
<1>3. ASSUME NEW a \in Attempt PROVE AttemptKnown(a)'
  BY DEF IInv, Expire, AttemptKnown, Done, data, workers
<1>4. ASSUME NEW c \in Controller PROVE ControllerKnown(c)' /\ InHand(c)'
  BY DEF IInv, Expire, ControllerKnown, InHand, Issued, Cancelled, data, workers
<1> QED BY <1>1, <1>2, <1>3, <1>4 DEF IInv

\* A controller that begins anew knows nothing.
Anew(c, lease) == [Off EXCEPT !.lease = lease, !.pc = "idle"]

LEMMA AnewFields ==
    ASSUME NEW c, NEW lease \in 0 .. MaxEpoch
    PROVE  /\ Anew(c, lease) \in ControllerRecords /\ Anew(c, lease).lease = lease
           /\ Anew(c, lease).pc = "idle" /\ Anew(c, lease).attempt = 0
  BY Constants DEF Anew, Off, ControllerRecords, Places

LEMMA AcquireStep == ASSUME IInv, NEW c \in Controller, Acquire(c) PROVE IInv'
<1> DEFINE k == Anew(c, epoch + 1)
<1>1. /\ Types /\ Leases /\ epoch \in Nat /\ epoch + 1 \in 0 .. MaxEpoch
      /\ epoch' = epoch + 1 /\ valid' /\ ctl' = [ctl EXCEPT ![c] = k]
      /\ UNCHANGED <<data, workers, refreshes>>
  BY Constants DEF IInv, Types, Acquire, Anew
<1>2. k \in ControllerRecords /\ k.lease = epoch + 1 /\ k.pc = "idle" /\ k.attempt = 0
  BY <1>1, AnewFields
<1> HIDE DEF k
<1>3. /\ ctl' \in [Controller -> ControllerRecords] /\ ctl'[c] = k
      /\ \A d \in Controller \ {c} : ctl'[d] = ctl[d]
  BY <1>1, <1>2 DEF Types
<1>4. Types'
  BY <1>1, <1>3, Constants DEF Types, Acquire, data, workers
<1>5. \A d \in Controller : ctl[d].lease \in Nat /\ ctl[d].lease <= epoch
  BY <1>1, Held DEF Leases
<1>6. Leases'
  BY <1>1, <1>2, <1>3, <1>5 DEF Leases
<1>7. Persisted'
  BY <1>1, PersistedFrame DEF IInv, Content, data, workers
<1>8. ASSUME NEW a \in Attempt PROVE AttemptKnown(a)'
  <2>1. AttemptKnown(a) /\ a # 0 /\ attempt[a].fence \in Nat
    BY <1>1, Constants DEF IInv, Types, AttemptRecords
  <2>2. Done(a) => Done(a)'
    BY <1>1, <1>2, <1>3, <2>1 DEF Done, workers
  <2>3. ASSUME run[a].result # "absent" PROVE attempt[a].fence # 0 /\ attempt[a].fence <= epoch
    BY <1>1, <2>1, <2>3 DEF AttemptKnown
  <2>4. ASSUME NEW d \in Controller, run[a].result # "absent", attempt[a].fence = ctl'[d].lease
        PROVE  run[a].home = d
    <3>1. d # c
      BY <1>1, <1>2, <1>3, <2>1, <2>3, <2>4
    <3> QED BY <1>3, <2>1, <2>4, <3>1 DEF AttemptKnown
  <2>5. attempt[a].fence \in 1 .. epoch => attempt[a].fence \in 1 .. epoch + 1
    BY <1>1
  <2> QED BY <1>1, <2>1, <2>2, <2>4, <2>5 DEF AttemptKnown, data, workers
<1>9. ASSUME NEW d \in Controller PROVE ControllerKnown(d)' /\ InHand(d)'
  <2>1. CASE d = c
    BY <1>2, <1>3, <2>1 DEF ControllerKnown, InHand, Calling, Sending, Verifying
  <2>2. CASE d # c
    <3>1. ctl'[d] = ctl[d] /\ ctl[d].lease # epoch'
      BY <1>1, <1>3, <1>5, <2>2
    <3>2. InHand(d)'
      BY <3>1 DEF InHand
    <3> QED BY <1>1, <3>1, <3>2 DEF IInv, ControllerKnown, Issued, Cancelled, data, workers
  <2> QED BY <2>1, <2>2
<1> QED BY <1>4, <1>6, <1>7, <1>8, <1>9 DEF IInv

LEMMA ReleaseStep == ASSUME IInv, NEW c \in Controller, Release(c) PROVE IInv'
<1> DEFINE k == [Off EXCEPT !.pc = "idle"]
<1>1. /\ Types /\ ctl' = [ctl EXCEPT ![c] = k] /\ valid' = FALSE
      /\ UNCHANGED <<epoch, data, workers, refreshes>>
  BY DEF IInv, Release
<1>2. k \in ControllerRecords /\ k.lease = 0 /\ k.pc = "idle" /\ k.attempt = 0
  BY Constants DEF Off, ControllerRecords, Places
<1> HIDE DEF k
<1>3. /\ ctl' \in [Controller -> ControllerRecords] /\ ctl'[c] = k
      /\ \A d \in Controller \ {c} : ctl'[d] = ctl[d]
  BY <1>1, <1>2 DEF Types
<1>4. Types'
  BY <1>1, <1>3 DEF Types, data, workers
<1>5. Moves(c)
  BY <1>2, <1>3 DEF Moves
<1>6. ControllerKnown(c)' /\ InHand(c)'
  BY <1>2, <1>3 DEF ControllerKnown, InHand, Calling, Sending, Verifying
<1> QED BY <1>1, <1>4, <1>5, <1>6, ControllerStep DEF workers

LEMMA CrashStep == ASSUME IInv, NEW c \in Controller, Crash(c) PROVE IInv'
<1>1. PICK survivors \in SUBSET {a \in Attempt : run[a].home = c /\ run[a].proc = "live"} :
          run' = [a \in Attempt |->
                    IF run[a].home # c THEN run[a]
                    ELSE [run[a] EXCEPT !.home = None,
                                        !.proc = IF a \in survivors THEN "live" ELSE "gone"]]
  BY DEF Crash
<1>2. /\ Types /\ Leases /\ ctl' = [ctl EXCEPT ![c] = Off] /\ None \notin Controller
      /\ UNCHANGED <<store, data, highest, head, refreshes>>
  BY NoneAssumption DEF IInv, Crash
<1>3. Off \in ControllerRecords /\ Off.lease = 0 /\ Off.pc = "off" /\ Off.attempt = 0
  BY Records DEF Off
<1>4. /\ ctl' \in [Controller -> ControllerRecords] /\ ctl'[c] = Off
      /\ \A d \in Controller \ {c} : ctl'[d] = ctl[d]
  BY <1>2, <1>3 DEF Types
<1>5. ASSUME NEW a \in Attempt
      PROVE  /\ run'[a] \in RunRecords
             /\ run'[a].result = run[a].result /\ run'[a].content = run[a].content
             /\ run'[a].cancelled = run[a].cancelled
             /\ run[a].home # c => run'[a] = run[a]
             /\ run[a].home = c => run'[a].home = None /\ run'[a].proc \in {"live", "gone"}
             /\ run'[a].proc = "live" => run[a].proc = "live"
  <2>1. run[a] \in RunRecords
    BY <1>2 DEF Types
  <2>2. CASE run[a].home # c
    BY <1>1, <2>1, <2>2
  <2>3. CASE run[a].home = c
    BY <1>1, <2>1, <2>3 DEF RunRecords
  <2> QED BY <2>2, <2>3
<1>6. run' \in [Attempt -> RunRecords]
  BY <1>1, <1>5
<1>7. Types'
  BY <1>2, <1>4, <1>6 DEF Types, store, data
<1>8. Leases'
  <2>1. \A d \in Controller : ctl'[d].lease \in {0, ctl[d].lease}
    BY <1>3, <1>4
  <2>2. epoch \in Nat /\ epoch' = epoch /\ valid' = valid
    BY <1>2, Constants DEF Types, store
  <2> QED BY <1>2, <2>1, <2>2 DEF Leases
<1>9. Persisted'
  BY <1>2, <1>5, PersistedFrame DEF IInv, Content, data
<1>10. ASSUME NEW a \in Attempt PROVE AttemptKnown(a)'
  <2>1. AttemptKnown(a) /\ a # 0 /\ attempt[a].fence \in Nat
    BY <1>2, Constants DEF IInv, Types, AttemptRecords
  <2>2. Done(a) => Done(a)'
    BY <1>2, <1>3, <1>4, <1>5, <2>1 DEF Done
  <2>3. run[a].result = "absent" => run'[a] = run[a]
    BY <1>2, <1>5, <2>1 DEF AttemptKnown, Unregistered
  <2>4. ASSUME NEW d \in Controller, run[a].result # "absent", attempt[a].fence = ctl'[d].lease
        PROVE  run'[a].home = d
    <3>1. attempt[a].fence # 0
      BY <2>1, <2>4 DEF AttemptKnown
    <3>2. d # c
      BY <1>3, <1>4, <2>4, <3>1
    <3> QED BY <1>4, <1>5, <2>1, <2>4, <3>2 DEF AttemptKnown
  <2>5. run[a].result = "candidate" => run'[a].proc = "gone"
    BY <1>5, <2>1 DEF AttemptKnown
  <2> QED BY <1>2, <1>5, <2>1, <2>2, <2>3, <2>4, <2>5 DEF AttemptKnown, data, store
<1>11. ASSUME NEW d \in Controller PROVE ControllerKnown(d)' /\ InHand(d)'
  <2>1. CASE d = c
    BY <1>3, <1>4, <2>1 DEF ControllerKnown, InHand, Calling, Sending, Verifying
  <2>2. CASE d # c
    <3>1. ctl'[d] = ctl[d] /\ ControllerKnown(d) /\ InHand(d)
      BY <1>4, <2>2 DEF IInv
    <3>2. InHand(d)'
      BY <1>2, <3>1 DEF InHand, data, store
    <3>3. Issued' = Issued /\ Issued \subseteq Attempt
      BY <1>2 DEF Issued, data
    <3>4. run'[ctl[d].attempt].home = d => run[ctl[d].attempt].home = d \/ ctl[d].attempt \notin Attempt
      BY <1>2, <1>5
    <3>5. ControllerKnown(d)'
      BY <1>2, <1>5, <2>2, <3>1, <3>3, <3>4 DEF ControllerKnown, Cancelled, Calling, Sending, data
    <3> QED BY <3>2, <3>5
  <2> QED BY <2>1, <2>2
<1> QED BY <1>7, <1>8, <1>9, <1>10, <1>11 DEF IInv
-----------------------------------------------------------------------------
(* Verification, as far as it changes a controller only.                    *)

LEMMA ExecuteStep == ASSUME IInv, NEW c \in Controller, VerifyExecute(c) PROVE IInv'
<1> DEFINE t == ctl[c].task
<1>1. /\ Types /\ Persisted /\ ctl[c] \in ControllerRecords /\ InHand(c) /\ ctl[c].lease = epoch
      /\ ctl[c].pc = "verifying" /\ ControllerKnown(c)
      /\ UNCHANGED <<store, data, workers, refreshes>>
  BY Held DEF IInv, VerifyExecute, Holds
<1>2. t \in Task /\ node[t].status = "verifying"
  BY <1>1 DEF InHand, Verifying
<1>3. Content(t) = node[t].candidate /\ node[t].candidate \in 0 .. MaxAttempts
  BY <1>1, <1>2 DEF Persisted, NodeKnown, Candidate, Types, NodeRecords
<1>4. PICK outcome \in {"verified", "rejected", "aborted"} :
          ctl' = [ctl EXCEPT ![c].pc = outcome, ![c].seen = Content(t)]
  BY DEF VerifyExecute
<1> DEFINE k == [ctl[c] EXCEPT !.pc = outcome, !.seen = Content(t)]
<1>5. ctl' = [ctl EXCEPT ![c] = k]
  BY <1>1, <1>4 DEF Types
<1>6. /\ k \in ControllerRecords /\ k.lease = ctl[c].lease /\ k.attempt = ctl[c].attempt
      /\ k.pc = outcome /\ k.task = t /\ k.seen = node[t].candidate
  BY <1>1, <1>3 DEF ControllerRecords, Places
<1> HIDE DEF k
<1>7. /\ ctl' \in [Controller -> ControllerRecords] /\ ctl'[c] = k
      /\ \A d \in Controller \ {c} : ctl'[d] = ctl[d]
  BY <1>1, <1>5, <1>6 DEF Types
<1>8. Types'
  BY <1>1, <1>7 DEF Types, store, data, workers
<1>9. ControllerKnown(c)'
  BY <1>1, <1>6, <1>7 DEF ControllerKnown, Calling, Sending
<1>10. InHand(c)'
  BY <1>1, <1>2, <1>6, <1>7 DEF InHand, Calling, Sending, Verifying, data
<1>11. Moves(c)
  BY <1>6, <1>7 DEF Moves
<1> QED BY <1>1, <1>8, <1>9, <1>10, <1>11, ControllerStep DEF store, workers

LEMMA RereadStep == ASSUME IInv, NEW c \in Controller, VerifyReread(c) PROVE IInv'
<1>1. PICK pc \in {"accept", "rejected"} : Goto(c, pc)
  BY DEF VerifyReread
<1>2. Goes(c, pc, ctl[c].obs, ctl[c].seen) /\ ctl[c].pc = "verified"
  BY <1>1, Held, GotoGoes DEF VerifyReread, Places
<1>3. Types'
  BY <1>2, Held DEF Types, VerifyReread, store, data, workers, Goes
<1>4. ControllerKnown(c)'
  BY <1>2, Held DEF ControllerKnown, Goes, Calling, Sending
<1>5. InHand(c)'
  BY <1>2, Held DEF InHand, Goes, Calling, Sending, Verifying, VerifyReread, data, store
<1>6. Moves(c)
  BY <1>2, GoesMoves
<1> QED BY <1>3, <1>4, <1>5, <1>6, ControllerStep DEF VerifyReread, store, workers
-----------------------------------------------------------------------------
(* Steps that change the node of a task that waits for no attempt.          *)

\* What such a step may do to the node of t.
Settled(t) ==
    /\ node[t].status # "absent" /\ node[t].active = 0
    /\ node' \in [Task -> NodeRecords]
    /\ \A u \in Task \ {t} : node'[u] = node[u]
    /\ node'[t].active = 0 /\ node'[t].spec = node[t].spec
    /\ node'[t].candidate = node[t].candidate
    /\ node'[t].status \notin {"absent", "retired"}
    /\ \/ node'[t].retries = node[t].retries /\ node'[t].status # "pending"
       \/ node'[t].retries = node[t].retries + 1 /\ node[t].retries < node[t].spec.retry
    /\ node'[t].status \in Candidate \cup {"accepted"} =>
          node[t].status \in Candidate \cup {"accepted"}
    /\ node'[t].status \in Candidate =>
          Content(t) = node[t].candidate /\ (node[t].status \in Candidate \/ Active = {})
    /\ node[t].status = "accepted" => node'[t].status = "accepted" \/ Active = {}
    /\ node'[t].status # "candidate_complete"

\* No candidate arises in this step.
NoneArises ==
    \A t \in Task :
        node'[t].status = "candidate_complete" => node[t].status = "candidate_complete"

LEMMA SettledPersisted ==
    ASSUME IInv, NEW t \in Task, Settled(t), NodeShape(t)',
           UNCHANGED <<plan, replans, attempt, run, head>>
    PROVE  Persisted'
<1>1. Persisted /\ Types
  BY DEF IInv
<1>2. Issued' = Issued /\ \A u : AttemptsOf(u)' = AttemptsOf(u)
  BY DEF Issued, AttemptsOf
<1>3. Numbered'
  BY <1>1, <1>2 DEF Persisted, Numbered
<1>4. Planned'
  BY <1>1, PlanTasks DEF Persisted, Planned, Settled
<1>5. \A u \in Task : node'[u].active = node[u].active /\ node'[u].spec = node[u].spec
  BY DEF Settled
<1>6. Apart'
  <2>1. ASSUME NEW u \in Task, NEW v \in Task,
               u # v, node[v].active # 0, node[u].spec.root = node[v].spec.root,
               node'[u].active # 0 \/ node'[u].status \in Candidate
        PROVE  ~node[v].spec.write
    <3>1. v \in Active
      BY <1>1, <2>1 DEF Active, Nodes, Persisted, NodeShape, Live
    <3>2. node[u].active # 0 \/ node[u].status \in Candidate
      BY <2>1, <3>1 DEF Settled
    <3> QED BY <1>1, <2>1, <3>2 DEF Persisted, Apart
  <2> QED BY <1>5, <2>1 DEF Apart
<1>7. (plan # <<>> => Granted)'
  <2> SUFFICES ASSUME plan # <<>> PROVE Granted'
    OBVIOUS
  <2>1. PICK initial \in InitialPlans : \A u \in Nodes : u \in DOMAIN initial =>
            node[u].retries <= initial[u].retry /\ node[u].spec.retry <= initial[u].retry
    BY <1>1 DEF Persisted, Granted
  <2>2. Nodes' = Nodes
    BY DEF Nodes, Settled
  <2>3. t \in DOMAIN initial => node'[t].retries <= initial[t].retry
    <3>1. t \in DOMAIN initial => initial[t].retry \in Nat
      BY PlansAssumption DEF Spec_
    <3>2. node[t].retries \in Nat /\ node[t].spec.retry \in Nat /\ t \in Nodes
      BY <1>1 DEF Persisted, NodeShape, Settled, Types, NodeRecords, Spec_, Nodes
    <3> QED BY <2>1, <3>1, <3>2 DEF Settled
  <2>4. \A u \in Nodes : u \in DOMAIN initial =>
            node'[u].retries <= initial[u].retry /\ node'[u].spec.retry <= initial[u].retry
    BY <1>5, <2>1, <2>3 DEF Settled, Nodes
  <2> QED BY <2>2, <2>4 DEF Granted
<1>8. ASSUME NEW u \in Task PROVE NodeShape(u)'
  BY <1>1 DEF Persisted, NodeShape, Settled
<1>9. ASSUME NEW u \in Task PROVE Paid(u)'
  <2>1. Cardinality(AttemptsOf(u)) \in Nat /\ replans \in Nat /\ node[u].retries \in Nat
    BY <1>1, AttemptsFinite, Constants DEF Types, NodeRecords
  <2>2. CASE u # t
    BY <1>1, <1>2, <2>2 DEF Persisted, Paid, Settled
  <2>3. CASE u = t
    BY <1>1, <1>2, <2>1, <2>3 DEF Persisted, Paid, Settled
  <2> QED BY <2>2, <2>3
<1>10. ASSUME NEW u \in Task PROVE NodeKnown(u)'
  <2>1. NodeKnown(u) /\ \A a : Last(a, u)' <=> Last(a, u)
    BY <1>1, <1>2 DEF Persisted, Last
  <2>2. ASSUME node[u].active # 0 PROVE \A d \in node[u].spec.deps : node'[d].status = "accepted"
    <3>1. u \in Active /\ node[u].spec \in Spec_
      BY <1>1, <2>2 DEF Active, Nodes, Persisted, NodeShape, Live
    <3> QED BY <2>1, <2>2, <3>1 DEF NodeKnown, Settled, Spec_
  <2>3. node'[u].status \in Candidate \cup {"accepted"} =>
            node[u].status \in Candidate \cup {"accepted"} /\ node'[u].candidate = node[u].candidate
    BY DEF Settled
  <2>4. node'[u].status \in Candidate \cup {"accepted"} => Left(u)'
    <3> SUFFICES ASSUME node'[u].status \in Candidate \cup {"accepted"} PROVE Left(u)'
      OBVIOUS
    <3>1. Left(u)
      BY <2>1, <2>3 DEF NodeKnown
    <3> QED BY <1>5, <2>1, <2>3, <3>1 DEF Left
  <2>5. node'[u].status \in Candidate => Content(u)' = node'[u].candidate
    BY <1>5, <2>1 DEF NodeKnown, Settled, Content
  <2> QED BY <1>5, <2>1, <2>2, <2>4, <2>5 DEF NodeKnown
<1> QED BY <1>3, <1>4, <1>6, <1>7, <1>8, <1>9, <1>10 DEF Persisted

LEMMA SettledStep ==
    ASSUME IInv, NEW c \in Controller, Holds(c), Moves(c), NEW t \in Task, Settled(t),
           NodeShape(t)', UNCHANGED <<store, plan, replans, attempt, run, head>>, Types',
           ControllerKnown(c)', InHand(c)'
    PROVE  IInv' /\ NoneArises
<1>1. Persisted'
  BY SettledPersisted
<1>2. Leases'
  BY LeasesKept DEF IInv, store
<1>3. \A d \in Controller \ {c} : ControllerKnown(d)' /\ InHand(d)'
  BY OthersKnow DEF AttemptsKept, Issued, store
<1>4. ASSUME NEW a \in Attempt PROVE AttemptKnown(a)'
  <2>1. AttemptKnown(a) /\ a # 0 /\ attempt[a].task \in Task \cup {0} /\ attempt[a].fence \in Nat
    BY Constants DEF IInv, Types, AttemptRecords
  <2>2. attempt[a].state \notin Live /\ Done(a) => Done(a)'
    BY <2>1 DEF Done, Moves
  <2>3. ASSUME NEW d \in Controller, run[a].result # "absent", attempt[a].fence = ctl'[d].lease
        PROVE  run[a].home = d
    <3>1. attempt[a].fence # 0
      BY <2>1, <2>3 DEF AttemptKnown
    <3> QED BY <2>1, <2>3, <3>1 DEF AttemptKnown, Moves
  <2>4. attempt[a].task # 0 =>
           /\ node'[attempt[a].task].status # "absent"
           /\ attempt[a].state \in Live => node'[attempt[a].task].active = a
    BY <2>1 DEF AttemptKnown, Settled
  <2> QED BY <2>1, <2>2, <2>3, <2>4 DEF AttemptKnown, store
<1>5. NoneArises
  BY DEF Settled, NoneArises
<1> QED BY <1>1, <1>2, <1>3, <1>4, <1>5 DEF IInv

Outcomes == {"retry", "replan", "escalate", "stop"}

\* What a recovery within the budgets makes of the node n.
Within(m, n) ==
    /\ m \in NodeRecords /\ m.status \in {"pending", "replan_required", "blocked", "stopped"}
    /\ m.spec = n.spec /\ m.active = 0 /\ m.check = n.check
    /\ m.candidate = n.candidate /\ m.tested = n.tested
    /\ \/ m.retries = n.retries /\ m.status # "pending"
       \/ m.retries = n.retries + 1 /\ n.retries < n.spec.retry

LEMMA RecoveredFields ==
    ASSUME NEW n \in NodeRecords, n.spec \in Spec_, n.active = 0, NEW error,
           NEW choice \in PolicyChoices(error, n), NEW forced,
           NEW m, m = Recovered(n, error, choice, forced)
    PROVE  Within(m, n)
<1>1. choice \in Outcomes
  BY DEF PolicyChoices, BoundedChoice, Outcomes
<1>2. n.retries \in Nat /\ n.spec.retry \in Nat
  BY DEF NodeRecords, Spec_
<1> DEFINE action == Effective(error, choice, n, forced)
<1>3. action \in Outcomes /\ (action = "retry" => n.retries < n.spec.retry)
  BY <1>1, <1>2 DEF Effective, Outcomes
<1>4. m = [n EXCEPT !.status = StatusAfter[action],
                    !.retries = IF action = "retry" THEN n.retries + 1 ELSE n.retries]
  BY DEF Recovered
<1>5. /\ StatusAfter[action] \in {"pending", "replan_required", "blocked", "stopped"}
      /\ action # "retry" => StatusAfter[action] # "pending"
  BY <1>3 DEF StatusAfter, Outcomes
<1> DEFINE status == StatusAfter[action]
           retries == IF action = "retry" THEN n.retries + 1 ELSE n.retries
<1>6. status \in Statuses /\ retries \in Nat
  BY <1>2, <1>5 DEF Statuses
<1>7. m = [n EXCEPT !.status = status, !.retries = retries]
  BY <1>4
<1>8. \/ retries = n.retries /\ status # "pending"
      \/ retries = n.retries + 1 /\ n.retries < n.spec.retry
  BY <1>3, <1>5
<1>9. status \in {"pending", "replan_required", "blocked", "stopped"}
  BY <1>5
<1> HIDE DEF action, status, retries
<1> QED BY <1>6, <1>7, <1>8, <1>9 DEF NodeRecords, Within

LEMMA RevokeSettled ==
    ASSUME IInv, NEW t \in Task, NEW check \in {"none", "failed", "passed"}, Revoke(t, check),
           node[t].active = 0, node[t].status \in {"candidate_complete", "accepted", "verifying"},
           node[t].status = "accepted" => Active = {}
    PROVE  Settled(t) /\ NodeShape(t)'
<1> DEFINE n == [node[t] EXCEPT !.check = check]
<1>1. node \in [Task -> NodeRecords] /\ node[t] \in NodeRecords /\ node[t].spec \in Spec_
  BY DEF IInv, Types, Persisted, NodeShape
<1>2. /\ n \in NodeRecords /\ n.spec = node[t].spec /\ n.active = 0 /\ n.check = check
      /\ n.candidate = node[t].candidate /\ n.retries = node[t].retries
  BY <1>1 DEF NodeRecords, Checks
<1>3. PICK choice \in PolicyChoices("verification_failed", node[t]) :
          node' = [node EXCEPT ![t] = Recovered(n, "verification_failed", choice, FALSE)]
  BY DEF Revoke
<1>4. choice \in PolicyChoices("verification_failed", n)
  BY <1>2, <1>3 DEF PolicyChoices, BoundedChoice
<1> HIDE DEF n
<1> DEFINE m == Recovered(n, "verification_failed", choice, FALSE)
<1>5. Within(m, n)
  BY <1>1, <1>2, <1>4, RecoveredFields
<1>6. /\ node' \in [Task -> NodeRecords] /\ node'[t] = m
      /\ \A u \in Task \ {t} : node'[u] = node[u]
  BY <1>1, <1>3, <1>5 DEF Within
<1> HIDE DEF m
<1>7. Settled(t)
  BY <1>2, <1>5, <1>6 DEF Settled, Candidate, Within
<1>8. NodeShape(t)'
  BY <1>1, <1>2, <1>5, <1>6 DEF NodeShape, Live, Within
<1> QED BY <1>7, <1>8

\* The node of t says something else about its verification.
LEMMA MarkedSettled ==
    ASSUME IInv, NEW t \in Task, NEW n \in NodeRecords, node' = [node EXCEPT ![t] = n],
           node[t].status # "absent", node[t].active = 0, n.active = 0,
           n.status \notin {"absent", "retired", "pending", "candidate_complete"} \cup Live,
           n.spec = node[t].spec, n.candidate = node[t].candidate, n.retries = node[t].retries,
           n.status = "verifying" <=> n.check = "running",
           n.check = "unknown" => n.status = "blocked",
           n.status = "accepted" => n.check = "passed" /\ n.tested = n.candidate,
           n.status \in Candidate \cup {"accepted"} =>
              node[t].status \in Candidate \cup {"accepted"},
           n.status \in Candidate =>
              Content(t) = node[t].candidate /\ (node[t].status \in Candidate \/ Active = {}),
           node[t].status = "accepted" => n.status = "accepted" \/ Active = {}
    PROVE  Settled(t) /\ NodeShape(t)'
<1>1. node \in [Task -> NodeRecords] /\ node[t].spec \in Spec_
  BY DEF IInv, Types, Persisted, NodeShape
<1>2. /\ node' \in [Task -> NodeRecords] /\ node'[t] = n
      /\ \A u \in Task \ {t} : node'[u] = node[u]
  BY <1>1
<1>3. Settled(t)
  BY <1>2 DEF Settled
<1>4. NodeShape(t)'
  BY <1>1, <1>2 DEF NodeShape
<1> QED BY <1>3, <1>4

LEMMA RestKnows ==
    ASSUME IInv, NEW c \in Controller, Rest(c)
    PROVE  Moves(c) /\ ControllerKnown(c)' /\ InHand(c)'
<1>1. Types /\ ctl[c] \in ControllerRecords
  BY Held
<1>2. /\ ctl' \in [Controller -> ControllerRecords]
      /\ ctl'[c].lease = ctl[c].lease /\ ctl'[c].pc = "idle" /\ ctl'[c].attempt = 0
      /\ \A d \in Controller \ {c} : ctl'[d] = ctl[d]
  BY <1>1, Constants DEF Types, Rest, Off, ControllerRecords, Places
<1>3. ControllerKnown(c)' /\ InHand(c)'
  BY <1>2 DEF ControllerKnown, InHand, Calling, Sending, Verifying
<1> QED BY <1>2, <1>3 DEF Moves

\* An abandoned node, and one that is blocked.
LEMMA AbandonedFields ==
    ASSUME NEW n \in NodeRecords, NEW m, m = Abandoned(n)
    PROVE  /\ m \in NodeRecords /\ m.status = "blocked" /\ m.check = "unknown"
           /\ m.spec = n.spec /\ m.active = n.active /\ m.candidate = n.candidate
           /\ m.retries = n.retries
  BY DEF Abandoned, NodeRecords, Statuses, Checks

LEMMA AbandonStep == ASSUME IInv, NEW c \in Controller, Abandon(c)
    PROVE  IInv' /\ NoneArises
<1>0. PICK t \in Task : t = Next_(c) /\ t \in ctl[c].todo /\ ctl[c].todo \ {t} \in SUBSET Task
  BY NextTask DEF Abandon
<1> DEFINE n == Abandoned(node[t])
<1>1. /\ Types /\ InHand(c) /\ Holds(c) /\ ctl[c].lease = epoch
      /\ ctl[c].pc = "observe" /\ node[t].active = 0 /\ node[t] \in NodeRecords
      /\ UNCHANGED <<store, plan, replans, attempt, workers, refreshes>>
  BY <1>0, Held DEF Abandon, Holds, Types
<1>2. node[t].status = "verifying"
  BY <1>0, <1>1 DEF InHand
<1>3. /\ n \in NodeRecords /\ n.status = "blocked" /\ n.check = "unknown" /\ n.spec = node[t].spec
      /\ n.active = 0 /\ n.candidate = node[t].candidate /\ n.retries = node[t].retries
  BY <1>1, AbandonedFields
<1>4. node' = [node EXCEPT ![t] = n]
  BY <1>0, <1>1 DEF Abandon
<1> HIDE DEF n
<1>5. Settled(t) /\ NodeShape(t)'
  BY <1>1, <1>2, <1>3, <1>4, MarkedSettled DEF Live, Candidate
<1>6. Looks(c, "observe", ctl[c].back, ctl[c].todo \ {t})
  BY <1>0, <1>1, LooksOn DEF Abandon
<1>7. \A u \in ctl[c].todo \ {t} : node'[u].active # 0 \/ node'[u].status = "verifying"
  <2>1. \A u \in ctl[c].todo \ {t} : u \in Task /\ u # t
    BY <1>0
  <2>2. \A u \in ctl[c].todo : node[u].active # 0 \/ node[u].status = "verifying"
    BY <1>1 DEF InHand
  <2> QED BY <1>5, <2>1, <2>2 DEF Settled
<1>8. Moves(c) /\ ControllerKnown(c)' /\ InHand(c)'
  BY <1>1, <1>6, <1>7, LooksKnow DEF Calling, Sending
<1>9. Types'
  BY <1>1, <1>5, <1>6 DEF Types, Settled, Looks, store, workers
<1> QED BY <1>1, <1>5, <1>8, <1>9, SettledStep DEF workers

LEMMA BlockStep == ASSUME IInv, NEW c \in Controller, Block(c)
    PROVE  IInv' /\ NoneArises
<1>0. PICK t \in Task : t = Next_(c) /\ t \in ctl[c].todo /\ ctl[c].todo \ {t} \in SUBSET Task
  BY NextTask DEF Block, DispatchStep
<1> DEFINE n == [node[t] EXCEPT !.status = IF Exhausted(t) THEN "stopped" ELSE "blocked"]
<1>1. /\ Types /\ Persisted /\ Holds(c)
      /\ ctl[c].pc = "dispatch" /\ ctl[c].back = "dispatch"
      /\ node[t].status = "pending" /\ node[t] \in NodeRecords
      /\ UNCHANGED <<store, plan, replans, attempt, workers, refreshes>>
  BY <1>0, Held
     DEF IInv, Block, DispatchStep, Dispatchable, Types, ControllerKnown, Sending
<1>2. node[t].active = 0 /\ node[t].check \notin {"running", "unknown"}
  BY <1>1 DEF Persisted, NodeShape, Live
<1>3. /\ n \in NodeRecords /\ n.status \in {"stopped", "blocked"} /\ n.check = node[t].check
      /\ n.spec = node[t].spec /\ n.active = 0 /\ n.candidate = node[t].candidate
      /\ n.retries = node[t].retries
  BY <1>1, <1>2 DEF NodeRecords, Statuses
<1>4. node' = [node EXCEPT ![t] = n]
  BY <1>0, <1>1 DEF Block, Types
<1> HIDE DEF n
<1>5. Settled(t) /\ NodeShape(t)'
  BY <1>1, <1>2, <1>3, <1>4, MarkedSettled DEF Live, Candidate
<1>6. Looks(c, "dispatch", "dispatch", ctl[c].todo \ {t})
  BY <1>0, <1>1, LooksOn DEF Block
<1>8. Moves(c) /\ ControllerKnown(c)' /\ InHand(c)'
  BY <1>1, <1>6, LooksKnow DEF Calling, Sending
<1>9. Types'
  BY <1>1, <1>5, <1>6 DEF Types, Settled, Looks, store, workers
<1> QED BY <1>1, <1>5, <1>8, <1>9, SettledStep DEF workers
-----------------------------------------------------------------------------
(* Verification: what changes a node.                                       *)

LEMMA VerifiableNode ==
    ASSUME IInv, NEW t \in Task, NEW refresh \in BOOLEAN, Verifiable(t, refresh)
    PROVE  /\ node[t].active = 0 /\ node[t].check \in {"none", "failed", "passed"}
           /\ node[t].status \in {"candidate_complete", "accepted"}
           /\ node[t].status = "accepted" => Active = {}
<1>1. /\ node[t].active = 0 /\ node[t].status \in {"candidate_complete", "accepted"}
      /\ node[t].status = "accepted" => Active = {}
  BY DEF Verifiable
<1>2. node[t].check \in Checks /\ NodeShape(t)
  BY DEF IInv, Types, Persisted, NodeRecords
<1>3. node[t].check \in {"none", "failed", "passed"}
  BY <1>1, <1>2 DEF NodeShape, Checks
<1> QED BY <1>1, <1>3

LEMMA CountedRefresh ==
    ASSUME Types, NEW refresh \in BOOLEAN, CountRefresh(refresh)
    PROVE  refreshes' \in 0 .. MaxRefreshes
  BY Constants DEF Types, CountRefresh

LEMMA RefusedStep ==
    ASSUME IInv, NEW c \in Controller, NEW t \in Task, NEW refresh \in BOOLEAN,
           VerifyRefused(c, t, refresh)
    PROVE  IInv' /\ NoneArises
<1>1. /\ Types /\ Holds(c) /\ Verifiable(t, refresh) /\ CountRefresh(refresh)
      /\ Revoke(t, node[t].check) /\ ctl[c].pc = "idle" /\ ctl[c] \in ControllerRecords
      /\ ControllerKnown(c)
      /\ UNCHANGED <<store, plan, replans, attempt, ctl, workers>>
  BY Held DEF VerifyRefused
<1>2. Settled(t) /\ NodeShape(t)'
  BY <1>1, VerifiableNode, RevokeSettled
<1>3. Types'
  BY <1>1, <1>2, CountedRefresh DEF Types, Settled, store, workers
<1>4. Moves(c) /\ ControllerKnown(c)' /\ InHand(c)'
  BY <1>1 DEF Moves, Types, ControllerKnown, InHand, Calling, Sending, Verifying
<1> QED BY <1>1, <1>2, <1>3, <1>4, SettledStep DEF workers

LEMMA BeginStep ==
    ASSUME IInv, NEW c \in Controller, NEW t \in Task, NEW refresh \in BOOLEAN,
           VerifyBegin(c, t, refresh)
    PROVE  IInv' /\ NoneArises
<1>1. /\ Types /\ Persisted /\ Holds(c) /\ Verifiable(t, refresh) /\ CountRefresh(refresh)
      /\ Content(t) = node[t].candidate /\ ctl[c].pc = "idle" /\ ctl[c] \in ControllerRecords
      /\ ControllerKnown(c) /\ node[t] \in NodeRecords
      /\ UNCHANGED <<store, plan, replans, attempt, workers>>
  BY Held DEF VerifyBegin, IInv, Types
<1> DEFINE n == [node[t] EXCEPT !.status = "verifying", !.check = "running"]
           k == [ctl[c] EXCEPT !.pc = "verifying", !.task = t]
<1>2. node' = [node EXCEPT ![t] = n] /\ ctl' = [ctl EXCEPT ![c] = k]
  BY <1>1 DEF VerifyBegin, Types
<1>3. /\ n \in NodeRecords /\ n.status = "verifying" /\ n.check = "running"
      /\ n.spec = node[t].spec /\ n.active = node[t].active
      /\ n.candidate = node[t].candidate /\ n.retries = node[t].retries
  BY <1>1 DEF NodeRecords, Statuses, Checks
<1>4. /\ k \in ControllerRecords /\ k.lease = ctl[c].lease /\ k.attempt = ctl[c].attempt
      /\ k.pc = "verifying" /\ k.task = t
  BY <1>1 DEF ControllerRecords, Places
<1> HIDE DEF n, k
<1>5. Settled(t) /\ NodeShape(t)'
  BY <1>1, <1>2, <1>3, VerifiableNode, MarkedSettled DEF Live, Candidate
<1>6. /\ ctl' \in [Controller -> ControllerRecords] /\ ctl'[c] = k
      /\ \A d \in Controller \ {c} : ctl'[d] = ctl[d]
  BY <1>1, <1>2, <1>4 DEF Types
<1>7. Types'
  BY <1>1, <1>5, <1>6, CountedRefresh DEF Types, Settled, store, workers
<1>8. node'[t].status = "verifying"
  BY <1>1, <1>2, <1>3 DEF Types
<1>9. ctl'[c].attempt = 0 /\ Moves(c)
  BY <1>1, <1>4, <1>6 DEF Moves, ControllerKnown, Calling, Sending
<1>10. ControllerKnown(c)' /\ InHand(c)'
  BY <1>4, <1>6, <1>8, <1>9 DEF ControllerKnown, InHand, Calling, Sending, Verifying
<1> QED BY <1>1, <1>5, <1>7, <1>9, <1>10, SettledStep DEF workers

\* A node whose verification is over, and the controller that ran it.
LEMMA VerdictStep ==
    ASSUME IInv, NEW c \in Controller, NEW t \in Task, Holds(c), Rest(c),
           Settled(t), NodeShape(t)',
           UNCHANGED <<store, plan, replans, attempt, workers, refreshes>>
    PROVE  IInv' /\ NoneArises
<1>1. Moves(c) /\ ControllerKnown(c)' /\ InHand(c)'
  BY RestKnows
<1>2. Types'
  BY <1>1, Held DEF Types, Settled, Moves, store, workers
<1> QED BY <1>1, <1>2, SettledStep DEF workers

\* Whoever holds the lease finds the node it verifies as it was.
LEMMA UnderTest ==
    ASSUME IInv, NEW c \in Controller, Holds(c), ctl[c].pc \in Verifying
    PROVE  /\ ctl[c].task \in Task /\ node[ctl[c].task].status = "verifying"
           /\ node[ctl[c].task].active = 0 /\ node[ctl[c].task] \in NodeRecords
           /\ ctl[c].pc = "accept" => ctl[c].seen = node[ctl[c].task].candidate
<1>1. /\ ctl[c].task \in Task /\ node[ctl[c].task].status = "verifying"
      /\ ctl[c].pc = "accept" => ctl[c].seen = node[ctl[c].task].candidate
  BY Held DEF Holds, InHand
<1>2. NodeShape(ctl[c].task) /\ node[ctl[c].task] \in NodeRecords
  BY <1>1, Held DEF IInv, Persisted, Types
<1> QED BY <1>1, <1>2 DEF NodeShape, Live

LEMMA AbortedStep == ASSUME IInv, NEW c \in Controller, VerifyAborted(c)
    PROVE  IInv' /\ NoneArises
<1>1. PICK t \in Task :
         /\ t = ctl[c].task /\ node[t].status = "verifying" /\ node[t].active = 0
         /\ node[t] \in NodeRecords
  BY UnderTest DEF VerifyAborted, Verifying
<1> DEFINE n == Abandoned(node[t])
<1>2. node' = [node EXCEPT ![t] = n]
  BY <1>1 DEF VerifyAborted
<1>3. /\ n \in NodeRecords /\ n.status = "blocked" /\ n.check = "unknown" /\ n.spec = node[t].spec
      /\ n.active = 0 /\ n.candidate = node[t].candidate /\ n.retries = node[t].retries
  BY <1>1, AbandonedFields
<1> HIDE DEF n
<1>4. Settled(t) /\ NodeShape(t)'
  BY <1>1, <1>2, <1>3, MarkedSettled DEF Live, Candidate
<1> QED BY <1>4, VerdictStep DEF VerifyAborted

LEMMA FailedStep == ASSUME IInv, NEW c \in Controller, VerifyFailed(c)
    PROVE  IInv' /\ NoneArises
<1>1. PICK t \in Task :
         t = ctl[c].task /\ node[t].status = "verifying" /\ node[t].active = 0
  BY UnderTest DEF VerifyFailed, Verifying
<1>2. Settled(t) /\ NodeShape(t)'
  BY <1>1, RevokeSettled DEF VerifyFailed
<1> QED BY <1>2, VerdictStep DEF VerifyFailed

LEMMA AcceptStep == ASSUME IInv, NEW c \in Controller, Accept(c)
    PROVE  IInv' /\ NoneArises
<1>1. PICK t \in Task :
         /\ t = ctl[c].task /\ node[t].status = "verifying" /\ node[t].active = 0
         /\ node[t] \in NodeRecords /\ ctl[c].seen = node[t].candidate
  BY UnderTest DEF Accept, Verifying
<1> DEFINE n == [node[t] EXCEPT !.status = "accepted", !.check = "passed", !.tested = ctl[c].seen]
<1>2. node' = [node EXCEPT ![t] = n]
  BY <1>1, Held DEF Accept, Types
<1>3. /\ n \in NodeRecords /\ n.status = "accepted" /\ n.check = "passed" /\ n.spec = node[t].spec
      /\ n.active = 0 /\ n.candidate = node[t].candidate /\ n.retries = node[t].retries
      /\ n.tested = n.candidate
  BY <1>1 DEF NodeRecords, Statuses, Checks
<1> HIDE DEF n
<1>4. Settled(t) /\ NodeShape(t)'
  BY <1>1, <1>2, <1>3, MarkedSettled DEF Live, Candidate
<1> QED BY <1>4, VerdictStep DEF Accept
-----------------------------------------------------------------------------
(* What the supervisor makes of an answer.                                  *)

\* The task and the attempt that the answer is about.
LEMMA AnsweredFor ==
    ASSUME IInv, NEW c \in Controller, Answered(c)
    PROVE  \E t \in Task, a \in Attempt :
              /\ t = ctl[c].task /\ a = ctl[c].attempt /\ node[t].active = a
              /\ attempt[a].task = t /\ attempt[a].state \in Live /\ Last(a, t)
              /\ attempt[a].spec = node[t].spec /\ node[t].status \in Live
              /\ node[t].check \notin {"running", "unknown"} /\ t \notin ctl[c].todo
              /\ node[t] \in NodeRecords /\ node[t].spec \in Spec_
              /\ attempt[a] \in AttemptRecords /\ run[a] \in RunRecords
<1>1. /\ ctl[c].pc = "apply" /\ ctl[c].lease = epoch /\ InHand(c) /\ Types /\ ControllerKnown(c)
  BY Held DEF Answered, Holds
<1>2. PICK t \in Task : /\ t = ctl[c].task /\ node[t].active = ctl[c].attempt
                        /\ t \notin ctl[c].todo
  BY <1>1 DEF InHand, Calling
<1>3. PICK a \in Attempt : a = ctl[c].attempt /\ a # 0
  BY <1>1, Constants DEF ControllerKnown, Calling, Issued
<1>4. NodeShape(t) /\ NodeKnown(t)
  BY DEF IInv, Persisted
<1>5. /\ attempt[a].task = t /\ attempt[a].state \in Live /\ attempt[a].spec = node[t].spec
      /\ Last(a, t)
  BY <1>2, <1>3, <1>4 DEF NodeKnown, Last, AttemptsOf
<1>6. /\ node[t].status \in Live /\ node[t].check \notin {"running", "unknown"}
      /\ node[t].spec \in Spec_
  BY <1>2, <1>3, <1>4 DEF NodeShape, Live
<1>7. node[t] \in NodeRecords /\ attempt[a] \in AttemptRecords /\ run[a] \in RunRecords
  BY <1>1 DEF Types
<1> QED BY <1>2, <1>3, <1>5, <1>6, <1>7

LEMMA ResumeKnows ==
    ASSUME IInv, NEW c \in Controller, Answered(c), Resume(c),
           \A u \in Task \ {ctl[c].task} : node'[u] = node[u], UNCHANGED epoch
    PROVE  Moves(c) /\ ControllerKnown(c)' /\ InHand(c)' /\ ctl'[c].attempt = 0
<1>1. Types /\ ctl[c] \in ControllerRecords /\ ctl[c].pc = "apply" /\ ctl[c].lease = epoch
  BY Held DEF Answered, Holds
<1> DEFINE k == [ctl[c] EXCEPT !.pc = ctl[c].back, !.task = 0, !.attempt = 0, !.obs = "none"]
<1>2. ctl' = [ctl EXCEPT ![c] = k]
  BY DEF Resume
<1>3. /\ k \in ControllerRecords /\ k.lease = ctl[c].lease /\ k.attempt = 0
      /\ k.pc = ctl[c].back /\ k.back = ctl[c].back /\ k.todo = ctl[c].todo
  BY <1>1, Constants DEF ControllerRecords, Places
<1> HIDE DEF k
<1>4. /\ ctl' \in [Controller -> ControllerRecords] /\ ctl'[c] = k
      /\ \A d \in Controller \ {c} : ctl'[d] = ctl[d]
  BY <1>1, <1>2, <1>3 DEF Types
<1>5. Moves(c)
  BY <1>3, <1>4 DEF Moves
<1>6. ctl[c].back \in {"idle", "observe", "dispatch"} /\ ctl[c].todo \subseteq Task
  BY <1>1 DEF ControllerRecords
<1>7. ControllerKnown(c)'
  BY <1>3, <1>4, <1>6 DEF ControllerKnown, Calling, Sending
<1>8. ctl[c].back = "observe" =>
          \A u \in ctl[c].todo : node'[u].active # 0 \/ node'[u].status = "verifying"
  <2>1. InHand(c) /\ ctl[c].task \notin ctl[c].todo
    BY <1>1, Held DEF InHand, Calling
  <2> QED BY <1>1, <1>6, <2>1 DEF InHand, Calling
<1>9. InHand(c)'
  BY <1>3, <1>4, <1>6, <1>8 DEF InHand, Calling, Sending, Verifying
<1> QED BY <1>3, <1>4, <1>5, <1>7, <1>9

\* What may be recorded of the attempt a and the node of t.
Recorded(t, a, state, n) ==
    /\ attempt' = [attempt EXCEPT ![a].state = state]
    /\ node' = [node EXCEPT ![t] = n]
    /\ n \in NodeRecords /\ n.spec = node[t].spec /\ n.check = node[t].check
    /\ \/ n.retries = node[t].retries /\ n.status # "pending"
       \/ n.retries = node[t].retries + 1 /\ node[t].retries < node[t].spec.retry
    /\ \/ state \in Live /\ n.active = a /\ n.status \in Live
       \/ /\ state \in Terminal /\ n.active = 0
          /\ n.status \in {"candidate_complete", "pending", "replan_required", "blocked", "stopped"}
    /\ n.status = "candidate_complete" =>
          state = "candidate" /\ run[a].result = "candidate" /\ run[a].content = n.candidate

LEMMA RecordedPersisted ==
    ASSUME IInv, NEW t \in Task, NEW a \in Attempt, NEW state, NEW n, Recorded(t, a, state, n),
           node[t].active = a, attempt[a].task = t, attempt[a].state \in Live, Last(a, t),
           attempt[a].spec = node[t].spec, node[t].status \in Live,
           node[t].check \notin {"running", "unknown"}, node[t].spec \in Spec_,
           UNCHANGED <<plan, replans, run, head>>
    PROVE  Persisted' /\ Types /\ node' \in [Task -> NodeRecords]
           /\ attempt' \in [Attempt -> AttemptRecords]
<1>1. Persisted /\ Types /\ a # 0 /\ AttemptKnown(a)
  BY Constants DEF IInv
<1>2. /\ node' \in [Task -> NodeRecords] /\ node'[t] = n
      /\ \A u \in Task \ {t} : node'[u] = node[u]
  BY <1>1 DEF Recorded, Types
<1>3. /\ attempt' \in [Attempt -> AttemptRecords] /\ attempt'[a].state = state
      /\ \A b \in Attempt \ {a} : attempt'[b] = attempt[b]
      /\ \A b \in Attempt : attempt'[b].task = attempt[b].task /\ attempt'[b].spec = attempt[b].spec
  <2>1. state \in Live \cup Terminal /\ attempt[a] \in AttemptRecords
    BY <1>1 DEF Recorded, Types
  <2> DEFINE r == [attempt[a] EXCEPT !.state = state]
  <2>2. r \in AttemptRecords /\ r.state = state /\ r.task = attempt[a].task /\ r.spec = attempt[a].spec
    BY <2>1 DEF AttemptRecords
  <2>3. attempt' = [attempt EXCEPT ![a] = r]
    BY <1>1 DEF Recorded, Types
  <2> HIDE DEF r
  <2> QED BY <1>1, <2>2, <2>3 DEF Types
<1>4. Issued' = Issued /\ \A u : AttemptsOf(u)' = AttemptsOf(u)
  BY <1>3 DEF Issued, AttemptsOf
<1>5. Numbered'
  BY <1>1, <1>4 DEF Persisted, Numbered
<1>6. n.status \notin {"absent", "retired", "accepted", "verifying"}
  BY DEF Recorded, Live
<1>7. Planned'
  BY <1>1, <1>2, <1>6, PlanTasks DEF Persisted, Planned, Recorded, Live
<1>8. /\ \A u \in Task : node'[u].spec = node[u].spec
      /\ \A u \in Task : node'[u].active # 0 => node[u].active = node'[u].active
      /\ \A u \in Task : node'[u].status \in Candidate =>
            node[u].status \in Candidate \/ node[u].active # 0
  BY <1>1, <1>2 DEF Recorded
<1>9. Apart'
  BY <1>1, <1>8 DEF Persisted, Apart
<1>10. (plan # <<>> => Granted)'
  <2> SUFFICES ASSUME plan # <<>> PROVE Granted'
    OBVIOUS
  <2>1. PICK initial \in InitialPlans : \A u \in Nodes : u \in DOMAIN initial =>
            node[u].retries <= initial[u].retry /\ node[u].spec.retry <= initial[u].retry
    BY <1>1 DEF Persisted, Granted
  <2>2. Nodes' = Nodes
    BY <1>2, <1>6 DEF Nodes, Live
  <2>3. t \in DOMAIN initial => node'[t].retries <= initial[t].retry
    <3>1. t \in DOMAIN initial => initial[t].retry \in Nat
      BY PlansAssumption DEF Spec_
    <3>2. node[t].retries \in Nat /\ node[t].spec.retry \in Nat /\ t \in Nodes
      BY <1>1 DEF Types, NodeRecords, Spec_, Nodes, Live
    <3> QED BY <1>2, <2>1, <3>1, <3>2 DEF Recorded
  <2>4. \A u \in Nodes : u \in DOMAIN initial =>
            node'[u].retries <= initial[u].retry /\ node'[u].spec.retry <= initial[u].retry
    BY <1>2, <1>8, <2>1, <2>3 DEF Nodes
  <2> QED BY <2>2, <2>4 DEF Granted
<1>11. ASSUME NEW u \in Task PROVE NodeShape(u)'
  <2>1. NodeShape(u)
    BY <1>1 DEF Persisted
  <2>2. CASE u # t
    BY <1>2, <2>1, <2>2 DEF NodeShape
  <2>3. CASE u = t
    BY <1>1, <1>2, <1>6, <2>3 DEF NodeShape, Recorded, Live
  <2> QED BY <2>2, <2>3
<1>12. ASSUME NEW u \in Task PROVE Paid(u)'
  <2>1. /\ Cardinality(AttemptsOf(u)) \in Nat /\ replans \in Nat /\ node[u].retries \in Nat
        /\ Paid(u)
    BY <1>1, AttemptsFinite, Constants DEF Types, NodeRecords, Persisted
  <2>2. CASE u # t
    BY <1>2, <1>4, <2>1, <2>2 DEF Paid
  <2>3. CASE u = t
    <3>1. Cardinality(AttemptsOf(t)) <= node[t].retries + replans + 1
      BY <2>1, <2>3 DEF Paid, Live
    <3>2. \/ n.retries = node[t].retries /\ n.status \notin {"absent", "pending"}
          \/ n.retries = node[t].retries + 1
      BY <1>6 DEF Recorded
    <3> QED BY <1>2, <1>4, <2>1, <2>3, <3>1, <3>2 DEF Paid
  <2> QED BY <2>2, <2>3
<1>13. ASSUME NEW u \in Task PROVE NodeKnown(u)'
  <2>1. NodeKnown(u) /\ \A b : Last(b, u)' <=> Last(b, u)
    BY <1>1, <1>4 DEF Persisted, Last
  <2>2. u # t => ~Last(a, u)
    BY DEF Last, AttemptsOf
  <2>3. ASSUME node'[u].active # 0
        PROVE  \E b \in Attempt :
                  /\ b = node'[u].active /\ Last(b, u)' /\ attempt'[b].state \in Live
                  /\ attempt'[b].spec = node'[u].spec
                  /\ \A d \in node'[u].spec.deps : node'[d].status = "accepted"
    <3>1. node[u].active = node'[u].active /\ node[u].spec = node'[u].spec
      BY <1>8, <2>3
    <3>2. /\ Last(node[u].active, u) /\ attempt[node[u].active].state \in Live
          /\ attempt[node[u].active].spec = node[u].spec
          /\ \A d \in node[u].spec.deps : node[d].status = "accepted"
      BY <2>1, <2>3, <3>1 DEF NodeKnown
    <3>3. node[u].active \in Attempt
      BY <3>2 DEF Last, AttemptsOf, Issued
    <3>4. attempt'[node[u].active].state \in Live
      <4>1. CASE u = t
        BY <1>2, <1>3, <2>3, <4>1 DEF Recorded
      <4>2. CASE u # t
        BY <1>3, <2>2, <3>2, <3>3, <4>2
      <4> QED BY <4>1, <4>2
    <3>5. ASSUME NEW d \in node[u].spec.deps PROVE node'[d].status = "accepted"
      <4>1. d # t
        BY <3>2 DEF Live
      <4>2. d \in Task
        <5>1. node[u].spec \in Spec_
          BY <1>1, <2>3, <3>1 DEF Persisted, NodeShape, Live
        <5> QED BY <5>1 DEF Spec_
      <4> QED BY <1>2, <3>2, <4>1, <4>2
    <3> QED BY <1>3, <2>1, <3>1, <3>2, <3>3, <3>4, <3>5
  <2>4. node'[u].status \in Candidate \cup {"accepted"} => Left(u)'
    <3>1. CASE u # t
      <4> SUFFICES ASSUME node[u].status \in Candidate \cup {"accepted"} PROVE Left(u)'
        BY <1>2, <3>1
      <4>1. PICK b \in Attempt :
               /\ Last(b, u) /\ attempt[b].state = "candidate" /\ attempt[b].spec = node[u].spec
               /\ run[b].result = "candidate" /\ run[b].content = node[u].candidate
        BY <2>1 DEF NodeKnown, Left
      <4>2. b # a
        BY <2>2, <3>1, <4>1
      <4>3. Last(b, u)' /\ attempt'[b].state = "candidate" /\ attempt'[b].spec = node'[u].spec
        BY <1>3, <1>8, <2>1, <4>1, <4>2
      <4>4. node'[u].candidate = node[u].candidate /\ run' = run
        BY <1>2, <3>1
      <4> QED BY <4>1, <4>3, <4>4 DEF Left
    <3>2. CASE u = t
      <4> SUFFICES ASSUME n.status = "candidate_complete" PROVE Left(t)'
        BY <1>2, <1>6, <3>2 DEF Candidate
      <4>1. state = "candidate" /\ run[a].result = "candidate" /\ run[a].content = n.candidate
        BY DEF Recorded
      <4> QED BY <1>2, <1>3, <1>8, <2>1, <3>2, <4>1 DEF Left
    <3> QED BY <3>1, <3>2
  <2>5. node'[u].status \in Candidate => Content(u)' = node'[u].candidate
    <3>1. CASE u # t
      BY <1>2, <1>8, <2>1, <3>1 DEF NodeKnown, Content
    <3>2. CASE u = t
      <4> SUFFICES ASSUME n.status = "candidate_complete" PROVE Content(t)' = n.candidate
        BY <1>2, <1>6, <3>2 DEF Candidate
      <4>1. run[a].result = "candidate" /\ run[a].content = n.candidate
        BY DEF Recorded
      <4> QED BY <1>1, <1>8, <4>1 DEF AttemptKnown, Content
    <3> QED BY <3>1, <3>2
  <2> QED BY <2>3, <2>4, <2>5 DEF NodeKnown, Last
<1> QED BY <1>1, <1>2, <1>3, <1>5, <1>7, <1>9, <1>10, <1>11, <1>12, <1>13 DEF Persisted

LEMMA RecordStep ==
    ASSUME IInv, NEW c \in Controller, Answered(c), NEW state, NEW n, Record(c, state, n),
           NEW t \in Task, t = ctl[c].task, NEW a \in Attempt, a = ctl[c].attempt,
           Recorded(t, a, state, n),
           state \in Live \/
              /\ run[a].proc # "live" /\ run[a].result \in Terminal
              /\ run[a].result = "cancelled" \/ (run[a].home = c /\ ~run[a].cancelled)
    PROVE  IInv' /\ (n.status # "candidate_complete" => NoneArises)
<1>1. /\ node[t].active = a /\ attempt[a].task = t /\ attempt[a].state \in Live /\ Last(a, t)
      /\ attempt[a].spec = node[t].spec /\ node[t].status \in Live
      /\ node[t].check \notin {"running", "unknown"} /\ node[t].spec \in Spec_
      /\ attempt[a] \in AttemptRecords
  BY AnsweredFor
<1>2. UNCHANGED <<store, plan, replans, workers, refreshes>> /\ Resume(c) /\ Holds(c)
  BY DEF Record, Answered
<1>3. /\ Persisted' /\ Types /\ node' \in [Task -> NodeRecords]
      /\ attempt' \in [Attempt -> AttemptRecords]
  BY <1>1, <1>2, RecordedPersisted DEF workers
<1>4. node'[t] = n /\ \A u \in Task \ {t} : node'[u] = node[u]
  BY <1>3 DEF Recorded, Types
<1>5. /\ \A b \in Attempt \ {a} : attempt'[b] = attempt[b]
      /\ attempt'[a] = [attempt[a] EXCEPT !.state = state]
      /\ \A b \in Attempt : /\ attempt'[b].task = attempt[b].task
                            /\ attempt'[b].spec = attempt[b].spec
                            /\ attempt'[b].fence = attempt[b].fence
      /\ attempt'[a].state = state
  BY <1>1, <1>3 DEF Recorded, Types, AttemptRecords
<1>6. Moves(c) /\ ControllerKnown(c)' /\ InHand(c)' /\ ctl'[c].attempt = 0
  BY <1>2, <1>4, ResumeKnows DEF store
<1>7. Types'
  BY <1>2, <1>3, <1>6 DEF Types, Moves, store, workers
<1>8. Leases'
  BY <1>2, <1>6, LeasesKept DEF IInv, store
<1>9. \A d \in Controller \ {c} : ControllerKnown(d)' /\ InHand(d)'
  BY <1>2, <1>5, <1>6, OthersKnow DEF AttemptsKept, Issued, store, workers
<1>10. ASSUME NEW b \in Attempt PROVE AttemptKnown(b)'
  <2>1. AttemptKnown(b) /\ b # 0 /\ attempt[b].task \in Task \cup {0} /\ attempt[b].fence \in Nat
    BY <1>3, Constants DEF IInv, Types, AttemptRecords
  <2>2. run' = run /\ head' = head /\ epoch' = epoch
    BY <1>2 DEF store, workers
  <2>3. Done(b) => Done(b)'
    BY <1>6, <2>1, <2>2 DEF Done, Moves
  <2>4. b = a /\ state \notin Live => Done(b)'
    BY <1>6, <2>1, <2>2 DEF Done
  <2>5. ASSUME NEW d \in Controller, run[b].result # "absent", attempt[b].fence = ctl'[d].lease
        PROVE  run[b].home = d
    <3>1. attempt[b].fence # 0
      BY <2>1, <2>5 DEF AttemptKnown
    <3> QED BY <1>6, <2>1, <2>5, <3>1 DEF AttemptKnown, Moves
  <2>6. attempt[b].task # 0 => node'[attempt[b].task].status # "absent"
    BY <1>4, <2>1 DEF AttemptKnown, Recorded, Live
  <2>7. attempt'[b].task # 0 /\ attempt'[b].state \in Live => node'[attempt[b].task].active = b
    <3>1. CASE b = a
      BY <1>1, <1>4, <1>5, <3>1 DEF Recorded, Live, Terminal
    <3>2. CASE b # a
      BY <1>1, <1>4, <1>5, <2>1, <3>2 DEF AttemptKnown
    <3> QED BY <3>1, <3>2
  <2>8. attempt'[b].task # 0 /\ attempt'[b].state \notin Live => Done(b)'
    <3>1. CASE b = a
      BY <1>5, <2>4, <3>1
    <3>2. CASE b # a
      BY <1>5, <2>1, <2>3, <3>2 DEF AttemptKnown
    <3> QED BY <3>1, <3>2
  <2>9. attempt'[b].state \in Live => attempt[b].state \in Live
    BY <1>1, <1>5
  <2> QED BY <1>5, <2>1, <2>2, <2>5, <2>6, <2>7, <2>8, <2>9 DEF AttemptKnown
<1>11. n.status # "candidate_complete" => NoneArises
  BY <1>4 DEF NoneArises
<1> QED BY <1>3, <1>6, <1>7, <1>8, <1>9, <1>10, <1>11 DEF IInv

\* A final answer under the epoch of the dispatch is about this controller's own worker.
LEMMA OwnAnswer ==
    ASSUME IInv, NEW c \in Controller, Applying(c), ctl[c].obs \in Terminal,
           NEW a \in Attempt, a = ctl[c].attempt
    PROVE  /\ run[a].proc # "live" /\ run[a].result = ctl[c].obs /\ run[a].home = c
           /\ run[a].result = "cancelled" \/ ~run[a].cancelled
<1>1. ControllerKnown(c) /\ ctl[c].pc = "apply" /\ attempt[a].fence = ctl[c].lease
  BY Held DEF Applying, Answered, Cancelling, Stale
<1>2. run[a].result # "absent"
  BY <1>1 DEF ControllerKnown
<1>3. AttemptKnown(a)
  BY DEF IInv
<1>4. run[a].home = c
  BY <1>1, <1>2, <1>3 DEF AttemptKnown
<1>5. run[a].result = ctl[c].obs /\ ~Cancelled(a)
  BY <1>1, <1>4 DEF ControllerKnown
<1>6. run[a].proc # "live"
  BY <1>3, <1>5 DEF AttemptKnown
<1> QED BY <1>4, <1>5, <1>6 DEF Cancelled

\* The attempt stays live.
LEMMA StaysLive ==
    ASSUME IInv, NEW c \in Controller, Answered(c), NEW state \in {"running", "unknown"},
           Record(c, state, [node[ctl[c].task] EXCEPT !.status = state])
    PROVE  IInv' /\ NoneArises
<1>1. PICK t \in Task, a \in Attempt :
              /\ t = ctl[c].task /\ a = ctl[c].attempt /\ node[t].active = a
              /\ node[t] \in NodeRecords
  BY AnsweredFor
<1> DEFINE n == [node[t] EXCEPT !.status = state]
<1>2. Record(c, state, n)
  BY <1>1
<1>3. /\ n \in NodeRecords /\ n.spec = node[t].spec /\ n.check = node[t].check
      /\ n.retries = node[t].retries /\ n.status = state /\ n.active = a
  BY <1>1 DEF NodeRecords, Statuses
<1> HIDE DEF n
<1>4. Recorded(t, a, state, n)
  BY <1>1, <1>2, <1>3 DEF Recorded, Record, Live
<1>5. state \in Live
  BY DEF Live
<1> QED BY <1>1, <1>2, <1>3, <1>4, <1>5, RecordStep

LEMMA ApplyRunningStep == ASSUME IInv, NEW c \in Controller, ApplyRunning(c)
    PROVE  IInv' /\ NoneArises
  BY StaysLive DEF ApplyRunning, Applying

LEMMA StayUnknownStep == ASSUME IInv, NEW c \in Controller, StayUnknown(c)
    PROVE  IInv' /\ NoneArises
  BY StaysLive DEF StayUnknown

LEMMA ApplyCandidateStep == ASSUME IInv, NEW c \in Controller, ApplyCandidate(c) PROVE IInv'
<1>0. Answered(c) /\ Applying(c) /\ ctl[c].obs = "candidate"
  BY DEF ApplyCandidate, Applying
<1>1. PICK t \in Task, a \in Attempt :
              /\ t = ctl[c].task /\ a = ctl[c].attempt /\ node[t].active = a
              /\ node[t] \in NodeRecords /\ run[a] \in RunRecords
  BY <1>0, AnsweredFor
<1> DEFINE n == [Freed(c) EXCEPT !.status = "candidate_complete", !.candidate = run[a].content]
<1>2. Record(c, "candidate", n)
  BY <1>1 DEF ApplyCandidate
<1>3. /\ n \in NodeRecords /\ n.spec = node[t].spec /\ n.check = node[t].check
      /\ n.retries = node[t].retries /\ n.status = "candidate_complete" /\ n.active = 0
      /\ n.candidate = run[a].content
  BY <1>1, Constants DEF NodeRecords, Statuses, Freed, RunRecords
<1> HIDE DEF n
<1>4. /\ run[a].proc # "live" /\ run[a].result = "candidate" /\ run[a].home = c
      /\ ~run[a].cancelled
  BY <1>0, <1>1, OwnAnswer DEF Terminal
<1>5. Recorded(t, a, "candidate", n)
  BY <1>1, <1>2, <1>3, <1>4 DEF Recorded, Record, Terminal
<1> QED BY <1>0, <1>1, <1>2, <1>4, <1>5, RecordStep DEF Terminal

\* The attempt is over without a candidate.
LEMMA FailedRecord ==
    ASSUME IInv, NEW c \in Controller, Answered(c), NEW state \in Terminal \ {"candidate"},
           NEW error, NEW forced,
           NEW choice \in PolicyChoices(error, node[ctl[c].task]),
           Record(c, state, Recovered(Freed(c), error, choice, forced)),
           NEW a \in Attempt, a = ctl[c].attempt,
           run[a].proc # "live", run[a].result \in Terminal,
           run[a].result = "cancelled" \/ (run[a].home = c /\ ~run[a].cancelled)
    PROVE  IInv' /\ NoneArises
<1>1. PICK t \in Task : /\ t = ctl[c].task /\ node[t].active = a
                        /\ node[t] \in NodeRecords /\ node[t].spec \in Spec_
  BY AnsweredFor
<1> DEFINE free == Freed(c)
<1>2. /\ free \in NodeRecords /\ free.spec = node[t].spec /\ free.active = 0
      /\ free.check = node[t].check /\ free.retries = node[t].retries
  BY <1>1, Constants DEF NodeRecords, Freed
<1> HIDE DEF free
<1>3. choice \in PolicyChoices(error, free)
  BY <1>1, <1>2 DEF PolicyChoices, BoundedChoice
<1> DEFINE n == Recovered(free, error, choice, forced)
<1>4. Within(n, free)
  BY <1>1, <1>2, <1>3, RecoveredFields
<1>5. Record(c, state, n)
  BY DEF free
<1> HIDE DEF n
<1>6. /\ n \in NodeRecords /\ n.spec = node[t].spec /\ n.check = node[t].check
      /\ n.active = 0 /\ n.status \in {"pending", "replan_required", "blocked", "stopped"}
      /\ \/ n.retries = node[t].retries /\ n.status # "pending"
         \/ n.retries = node[t].retries + 1 /\ node[t].retries < node[t].spec.retry
  BY <1>2, <1>4 DEF Within
<1>7. Recorded(t, a, state, n)
  BY <1>1, <1>5, <1>6 DEF Recorded, Record
<1> QED BY <1>1, <1>5, <1>6, <1>7, RecordStep

LEMMA ApplyFailureStep == ASSUME IInv, NEW c \in Controller, ApplyFailure(c)
    PROVE  IInv' /\ NoneArises
<1> DEFINE error == ctl[c].obs
<1>1. Answered(c) /\ Applying(c) /\ error \in Terminal \ {"candidate"}
  BY DEF ApplyFailure, Applying
<1>2. PICK a \in Attempt : a = ctl[c].attempt
  BY <1>1, AnsweredFor
<1>3. PICK choice \in PolicyChoices(error, node[ctl[c].task]) :
          Record(c, error, Recovered(Freed(c), error, choice, error = "blocked"))
  BY DEF ApplyFailure
<1>4. /\ run[a].proc # "live" /\ run[a].result = error /\ run[a].home = c
      /\ run[a].result = "cancelled" \/ ~run[a].cancelled
  BY <1>1, <1>2, OwnAnswer
<1> HIDE DEF error
<1> QED BY <1>1, <1>2, <1>3, <1>4, FailedRecord

LEMMA RetireStep == ASSUME IInv, NEW c \in Controller, Retire(c)
    PROVE  IInv' /\ NoneArises
<1>1. Answered(c) /\ ctl[c].obs = "cancelled" /\ ctl[c].pc = "apply"
  BY DEF Retire, Answered
<1>2. PICK a \in Attempt : a = ctl[c].attempt
  BY <1>1, AnsweredFor
<1>3. PICK error \in {"cancelled", "crash"} :
          \E choice \in PolicyChoices(error, node[ctl[c].task]) :
              Record(c, "cancelled", Recovered(Freed(c), error, choice, FALSE))
  BY DEF Retire
<1>4. run[a].result = "cancelled"
  BY <1>1, <1>2, Held DEF ControllerKnown
<1>5. run[a].proc # "live"
  BY <1>4 DEF IInv, AttemptKnown, Terminal
<1>6. PICK choice \in PolicyChoices(error, node[ctl[c].task]) :
          Record(c, "cancelled", Recovered(Freed(c), error, choice, FALSE))
  BY <1>3
<1> QED BY <1>1, <1>2, <1>4, <1>5, <1>6, FailedRecord DEF Terminal
-----------------------------------------------------------------------------
(* The intent of an attempt.                                                *)

LEMMA IntentPersisted ==
    ASSUME IInv, NEW c \in Controller, NEW t \in Task, NEW a \in Attempt, NEW n \in NodeRecords,
           NEW r \in AttemptRecords, a = Cardinality(Issued) + 1,
           Dispatchable(t), node[t].active = 0,
           attempt' = [attempt EXCEPT ![a] = r], node' = [node EXCEPT ![t] = n],
           r.task = t, r.spec = node[t].spec, r.state = "dispatching",
           n.status = "dispatching", n.active = a, n.spec = node[t].spec,
           n.check = node[t].check, n.retries = node[t].retries,
           UNCHANGED <<plan, replans, run, head>>
    PROVE  /\ Persisted' /\ a \notin Issued /\ Issued' = Issued \cup {a}
           /\ node' \in [Task -> NodeRecords] /\ attempt' \in [Attempt -> AttemptRecords]
<1>1. Persisted /\ Types /\ a # 0 /\ t # 0 /\ Attempt \subseteq Nat
  BY Constants DEF IInv
<1>2. /\ node' \in [Task -> NodeRecords] /\ node'[t] = n
      /\ \A u \in Task \ {t} : node'[u] = node[u]
      /\ \A u \in Task : node'[u].spec = node[u].spec
  BY <1>1 DEF Types
<1>3. /\ attempt' \in [Attempt -> AttemptRecords] /\ attempt'[a] = r
      /\ \A b \in Attempt \ {a} : attempt'[b] = attempt[b]
  BY <1>1 DEF Types
<1>4. PICK m \in 0 .. MaxAttempts : Issued = 1 .. m
  BY <1>1 DEF Persisted, Numbered
<1>5. a = m + 1 /\ a \notin Issued /\ m \in Nat
  BY <1>1, <1>4, NextAttempt
<1>6. Issued' = Issued \cup {a}
  BY <1>1, <1>3 DEF Issued
<1>7. /\ AttemptsOf(t)' = AttemptsOf(t) \cup {a} /\ a \notin AttemptsOf(t)
      /\ \A u \in Task \ {t} : AttemptsOf(u)' = AttemptsOf(u)
  <2>1. \A u : AttemptsOf(u)' = {b \in Issued \cup {a} : attempt'[b].task = u}
    BY <1>6 DEF AttemptsOf
  <2>2. \A b \in Issued : attempt'[b].task = attempt[b].task
    BY <1>3, <1>5 DEF Issued
  <2> QED BY <1>3, <1>5, <2>1, <2>2 DEF AttemptsOf
<1>8. /\ node[t].status = "pending" /\ node[t].spec \in Spec_
      /\ node[t].check \notin {"running", "unknown"}
  BY <1>1 DEF Dispatchable, Persisted, NodeShape
<1>9. Numbered'
  <2>1. Issued' = 1 .. a
    BY <1>4, <1>5, <1>6
  <2>2. a \in 0 .. MaxAttempts
    BY DEF Attempt
  <2> QED BY <2>1, <2>2 DEF Numbered
<1>10. Planned'
  BY <1>1, <1>2, <1>8, PlanTasks DEF Persisted, Planned
<1>11. Apart'
  <2> SUFFICES ASSUME NEW u \in Task, NEW v \in Task, u # v, node'[v].active # 0,
                      node[u].spec.root = node[v].spec.root,
                      node'[u].active # 0 \/ node'[u].status \in Candidate
               PROVE  ~node[v].spec.write
    BY <1>2 DEF Apart
  <2>1. \A w \in Task \ {t} : node[w].active # 0 \/ node[w].status \in Candidate =>
           node[w].status # "absent" /\ (node[w].active # 0 \/ node[w].status \in
              {"candidate_complete", "verifying", "unknown"})
    BY <1>1 DEF Persisted, NodeShape, Live, Candidate
  <2>2. \A w \in Task \ {t} :
           /\ node[w].active # 0 \/ node[w].status \in Candidate
           /\ node[w].spec.root = node[t].spec.root
           => ~node[t].spec.write /\ ~node[w].spec.write
    BY <2>1 DEF Dispatchable, Busy, Nodes
  <2>3. CASE u # t /\ v # t
    BY <1>1, <1>2, <2>3 DEF Persisted, Apart
  <2>4. CASE v = t
    BY <1>2, <2>2, <2>4
  <2>5. CASE u = t
    BY <1>2, <2>2, <2>5
  <2> QED BY <2>3, <2>4, <2>5
<1>12. (plan # <<>> => Granted)'
  <2> SUFFICES ASSUME plan # <<>> PROVE Granted'
    OBVIOUS
  <2>1. PICK initial \in InitialPlans : \A u \in Nodes : u \in DOMAIN initial =>
            node[u].retries <= initial[u].retry /\ node[u].spec.retry <= initial[u].retry
    BY <1>1 DEF Persisted, Granted
  <2>2. Nodes' = Nodes /\ \A u \in Task : node'[u].retries = node[u].retries
    BY <1>2, <1>8 DEF Nodes
  <2>3. \A u \in Nodes : u \in DOMAIN initial =>
            node'[u].retries <= initial[u].retry /\ node'[u].spec.retry <= initial[u].retry
    BY <1>2, <2>1, <2>2 DEF Nodes
  <2> QED BY <2>2, <2>3 DEF Granted
<1>13. ASSUME NEW u \in Task PROVE NodeShape(u)'
  <2>1. CASE u # t
    BY <1>1, <1>2, <2>1 DEF Persisted, NodeShape
  <2>2. CASE u = t
    BY <1>1, <1>2, <1>8, <2>2 DEF NodeShape, Live
  <2> QED BY <2>1, <2>2
<1>14. ASSUME NEW u \in Task PROVE Paid(u)'
  <2>1. CASE u # t
    BY <1>1, <1>2, <1>7, <2>1 DEF Persisted, Paid
  <2>2. CASE u = t
    <3>1. /\ Cardinality(AttemptsOf(t)) <= node[t].retries + replans
          /\ IsFiniteSet(AttemptsOf(t)) /\ Cardinality(AttemptsOf(t)) \in Nat
          /\ replans \in Nat /\ node[t].retries \in Nat
      BY <1>1, <1>8, AttemptsFinite, Constants, SMTT(40) DEF Persisted, Paid, Types, NodeRecords
    <3>2. Cardinality(AttemptsOf(t)') = Cardinality(AttemptsOf(t)) + 1
      <4>1. Cardinality(AttemptsOf(t) \cup {a}) = Cardinality(AttemptsOf(t)) + 1
        BY <1>7, <3>1, FS_AddElement, Zenon
      <4> QED BY <1>7, <4>1, Zenon
    <3>3. node'[t].status = "dispatching" /\ node'[t].retries = node[t].retries
      BY <1>2
    <3> QED BY <2>2, <3>1, <3>2, <3>3 DEF Paid
  <2> QED BY <2>1, <2>2
<1>15. ASSUME NEW u \in Task PROVE NodeKnown(u)'
  <2>1. CASE u # t
    <3>1. NodeKnown(u) /\ \A b : Last(b, u)' <=> Last(b, u)
      BY <1>1, <1>7, <2>1 DEF Persisted, Last
    <3>2. \A b : Last(b, u) => b \in Attempt /\ b # a
      BY <1>5 DEF Last, AttemptsOf, Issued
    <3>3. node'[u] = node[u]
      BY <1>2, <2>1
    <3>4. node[u].active # 0 => \A d \in node[u].spec.deps : node'[d].status = "accepted"
      <4> SUFFICES ASSUME node[u].active # 0, NEW d \in node[u].spec.deps
                   PROVE  node'[d].status = "accepted"
        OBVIOUS
      <4>1. node[d].status = "accepted" /\ node[u].spec \in Spec_
        BY <1>1, <3>1 DEF NodeKnown, Persisted, NodeShape, Live
      <4> QED BY <1>2, <1>8, <4>1 DEF Spec_
    <3>5. Left(u) => Left(u)'
      BY <1>3, <3>1, <3>2, <3>3 DEF Left
    <3>6. ASSUME node[u].active # 0
          PROVE  /\ Last(node[u].active, u) /\ attempt'[node[u].active].state \in Live
                 /\ attempt'[node[u].active].spec = node[u].spec
      BY <1>3, <3>1, <3>2, <3>6 DEF NodeKnown
    <3> QED BY <1>2, <3>1, <3>3, <3>4, <3>5, <3>6 DEF NodeKnown, Last, Content
  <2>2. CASE u = t
    <3>1. Last(a, t)'
      <4>1. \A b \in AttemptsOf(t) : b <= a
        BY <1>1, <1>4, <1>5 DEF AttemptsOf
      <4> QED BY <1>1, <1>7, <4>1 DEF Last
    <3>2. \A d \in node[t].spec.deps : node'[d].status = "accepted"
      BY <1>2, <1>8 DEF Dispatchable, Spec_
    <3>3. attempt'[a].state \in Live /\ attempt'[a].spec = node[t].spec
      BY <1>3 DEF Live
    <3> QED BY <1>2, <2>2, <3>1, <3>2, <3>3 DEF NodeKnown, Candidate, Last
  <2> QED BY <2>1, <2>2
<1> QED BY <1>2, <1>3, <1>5, <1>6, <1>9, <1>10, <1>11, <1>12, <1>13, <1>14, <1>15 DEF Persisted

LEMMA IntentStep == ASSUME IInv, NEW c \in Controller, Intent(c)
    PROVE  IInv' /\ NoneArises
<1>0. PICK t \in Task : t = Next_(c) /\ t \in ctl[c].todo /\ ctl[c].todo \ {t} \in SUBSET Task
  BY NextTask DEF Intent, DispatchStep
<1>1. PICK a \in Attempt : a = Cardinality(Issued) + 1
  BY DEF Intent
<1> DEFINE n == [node[t] EXCEPT !.status = "dispatching", !.active = a]
           r == [task |-> t, spec |-> node[t].spec, fence |-> ctl[c].lease, state |-> "dispatching"]
           k == [ctl[c] EXCEPT !.pc = "send", !.task = t, !.attempt = a, !.todo = ctl[c].todo \ {t}]
<1>2. /\ Types /\ Persisted /\ Leases /\ Holds(c) /\ Dispatchable(t) /\ ctl[c] \in ControllerRecords
      /\ ctl[c].pc = "dispatch" /\ ctl[c].back = "dispatch" /\ ctl[c].lease = epoch
      /\ UNCHANGED <<store, plan, replans, workers, refreshes>> /\ node[t] \in NodeRecords
  BY <1>0, Held DEF IInv, Intent, DispatchStep, Holds, ControllerKnown, Sending, Types
<1>3. /\ node' = [node EXCEPT ![t] = n] /\ attempt' = [attempt EXCEPT ![a] = r]
      /\ ctl' = [ctl EXCEPT ![c] = k]
  BY <1>0, <1>1, <1>2 DEF Intent, Types
<1>4. /\ node[t].active = 0 /\ node[t].spec \in Spec_
      /\ node[t].status = "pending"
  BY <1>2 DEF Persisted, NodeShape, Dispatchable, Live
<1>5. /\ n \in NodeRecords /\ n.status = "dispatching" /\ n.active = a /\ n.spec = node[t].spec
      /\ n.check = node[t].check /\ n.retries = node[t].retries
  BY <1>2, Constants DEF NodeRecords, Statuses
<1>6. /\ r \in AttemptRecords /\ r.task = t /\ r.spec = node[t].spec /\ r.fence = epoch
      /\ r.state = "dispatching"
  BY <1>2, <1>4 DEF AttemptRecords, Specs, Live, Types
<1>7. /\ k \in ControllerRecords /\ k.pc = "send" /\ k.task = t /\ k.attempt = a
      /\ k.todo = ctl[c].todo \ {t} /\ k.lease = ctl[c].lease /\ k.back = "dispatch"
  BY <1>0, <1>2, Constants DEF ControllerRecords, Places
<1> HIDE DEF n, r, k
<1>8. /\ Persisted' /\ a \notin Issued /\ Issued' = Issued \cup {a}
      /\ node' \in [Task -> NodeRecords] /\ attempt' \in [Attempt -> AttemptRecords]
  BY <1>1, <1>2, <1>3, <1>4, <1>5, <1>6, IntentPersisted DEF workers
<1>9. /\ node'[t] = n /\ attempt'[a] = r /\ ctl'[c] = k
      /\ \A u \in Task \ {t} : node'[u] = node[u]
      /\ \A b \in Attempt \ {a} : attempt'[b] = attempt[b]
      /\ \A d \in Controller \ {c} : ctl'[d] = ctl[d]
      /\ ctl' \in [Controller -> ControllerRecords]
  BY <1>2, <1>3, <1>7 DEF Types
<1>10. Moves(c)
  BY <1>6, <1>7, <1>9 DEF Moves, Live
<1>11. Types'
  BY <1>2, <1>8, <1>9 DEF Types, store, workers
<1>12. Leases'
  BY <1>2, <1>10, LeasesKept DEF store
<1>13. AttemptsKept
  BY <1>8, <1>9 DEF AttemptsKept, Issued
<1>14. \A d \in Controller \ {c} : ControllerKnown(d)' /\ InHand(d)'
  BY <1>2, <1>10, <1>13, OthersKnow DEF store, workers
<1>15. run[a] = Unregistered /\ run[a].result = "absent"
  BY <1>8 DEF IInv, AttemptKnown, Issued
<1>16. epoch # 0 /\ epoch \in Nat /\ epoch' = epoch /\ run' = run /\ head' = head
  BY <1>2, Constants DEF Types, Leases, Holds, store, workers
<1>17. ControllerKnown(c)'
  BY <1>2, <1>6, <1>7, <1>8, <1>9, <1>15, <1>16 DEF ControllerKnown, Calling, Sending
<1>18. InHand(c)'
  BY <1>5, <1>6, <1>7, <1>9 DEF InHand, Calling, Sending, Verifying
<1>19. ASSUME NEW b \in Attempt PROVE AttemptKnown(b)'
  <2>1. AttemptKnown(b) /\ attempt[b].task \in Task \cup {0}
    BY <1>2 DEF IInv, Types, AttemptRecords
  <2>2. CASE b = a
    <3>1. attempt'[b] = r /\ run'[b] = Unregistered /\ t # 0
      BY <1>9, <1>15, <1>16, <2>2, Constants
    <3>2. node'[t].status # "absent" /\ node'[t].active = b
      BY <1>5, <1>9, <2>2
    <3> QED BY <1>4, <1>6, <1>16, <3>1, <3>2 DEF AttemptKnown, Unregistered, Live, Terminal
  <2>3. CASE b # a
    <3>1. attempt'[b] = attempt[b] /\ run'[b] = run[b]
      BY <1>9, <1>16, <2>3
    <3>2. attempt[b].task # 0 =>
            /\ node'[attempt[b].task].status # "absent"
            /\ attempt[b].state \in Live => node'[attempt[b].task].active = b
      <4>1. CASE attempt[b].task = t
        BY <1>4, <1>5, <1>9, <2>1, <2>3, <4>1, Constants DEF AttemptKnown
      <4>2. CASE attempt[b].task # t
        BY <1>9, <2>1, <4>2 DEF AttemptKnown
      <4> QED BY <4>1, <4>2
    <3>3. Done(b) => Done(b)'
      BY <1>7, <1>9, <1>16, <2>3 DEF Done
    <3>4. \A d \in Controller : ctl'[d].lease = ctl[d].lease
      BY <1>7, <1>9
    <3> QED BY <1>16, <2>1, <3>1, <3>2, <3>3, <3>4 DEF AttemptKnown
  <2> QED BY <2>2, <2>3
<1>20. NoneArises
  BY <1>5, <1>9 DEF NoneArises
<1> QED BY <1>8, <1>11, <1>12, <1>14, <1>17, <1>18, <1>19, <1>20 DEF IInv
-----------------------------------------------------------------------------
(* The plans.                                                               *)

\* A new plan disturbs no active node and forgets none.
LEMMA PlanStep ==
    ASSUME IInv, NEW c \in Controller, Holds(c), ctl[c].pc = "idle",
           UNCHANGED <<store, attempt, ctl, workers, refreshes>>, Types', Persisted',
           \A t \in Nodes : node'[t].status # "absent",
           \A t \in Nodes : node[t].active # 0 => node'[t].active = node[t].active
    PROVE  IInv'
<1>1. Moves(c)
  BY Held DEF Moves, Types
<1>2. Leases'
  BY <1>1, LeasesKept DEF IInv, store
<1>3. \A d \in Controller \ {c} : ControllerKnown(d)' /\ InHand(d)'
  BY <1>1, OthersKnow DEF AttemptsKept, Issued, store, workers
<1>4. ControllerKnown(c)' /\ InHand(c)'
  BY Held DEF ControllerKnown, InHand, Calling, Sending, Verifying
<1>5. ASSUME NEW a \in Attempt PROVE AttemptKnown(a)'
  <2>1. AttemptKnown(a) /\ a # 0 /\ attempt[a].task \in Task \cup {0}
    BY Held, Constants DEF IInv, Types, AttemptRecords
  <2>2. Done(a)' <=> Done(a)
    BY DEF Done, workers
  <2>3. attempt[a].task # 0 =>
            /\ node'[attempt[a].task].status # "absent"
            /\ attempt[a].state \in Live => node'[attempt[a].task].active = a
    BY <2>1 DEF AttemptKnown, Nodes
  <2> QED BY <2>1, <2>2, <2>3 DEF AttemptKnown, store, workers
<1> QED BY <1>2, <1>3, <1>4, <1>5 DEF IInv

\* What a given plan is.
LEMMA PlanShape ==
    ASSUME NEW p \in InitialPlans \cup LaterPlans
    PROVE  p # <<>> /\ DOMAIN p \subseteq Task /\ \A t \in DOMAIN p : p[t] \in Spec_
  BY PlansAssumption

LEMMA NewNode ==
    ASSUME NEW spec \in Spec_, NEW n, n = Node(spec)
    PROVE  /\ n \in NodeRecords /\ n.status = "pending" /\ n.spec = spec /\ n.active = 0
           /\ n.retries = 0 /\ n.check = "none"
<1>1. n \in NodeRecords
  BY Records
<1>2. /\ n.status = "pending" /\ n.spec = spec /\ n.active = 0 /\ n.retries = 0
      /\ n.check = "none"
  BY DEF Node, Absent
<1> QED BY <1>1, <1>2

LEMMA InitializeStep == ASSUME IInv, NEW c \in Controller, Initialize(c)
    PROVE  IInv' /\ NoneArises
<1>1. /\ Types /\ Persisted /\ Holds(c) /\ ctl[c].pc = "idle" /\ plan = <<>>
      /\ UNCHANGED <<store, replans, attempt, ctl, workers, refreshes>>
  BY DEF IInv, Initialize
<1>2. PICK p \in InitialPlans :
          /\ plan' = p
          /\ node' = [t \in Task |-> IF t \in DOMAIN p THEN Node(p[t]) ELSE Absent]
  BY DEF Initialize
<1>3. p # <<>> /\ DOMAIN p \subseteq Task /\ \A t \in DOMAIN p : p[t] \in Spec_
  BY PlanShape
<1>4. /\ \A t \in DOMAIN p :
            /\ node'[t] \in NodeRecords /\ node'[t].status = "pending" /\ node'[t].spec = p[t]
            /\ node'[t].active = 0 /\ node'[t].retries = 0 /\ node'[t].check = "none"
      /\ \A t \in Task \ DOMAIN p : node'[t] = Absent
  <2>1. ASSUME NEW t \in DOMAIN p
        PROVE  /\ node'[t] \in NodeRecords /\ node'[t].status = "pending" /\ node'[t].spec = p[t]
               /\ node'[t].active = 0 /\ node'[t].retries = 0 /\ node'[t].check = "none"
    <3>1. node'[t] = Node(p[t]) /\ p[t] \in Spec_
      BY <1>2, <1>3
    <3> QED BY <3>1, NewNode
  <2> QED BY <1>2, <2>1
<1>5. /\ Absent \in NodeRecords /\ Absent.status = "absent" /\ Absent.active = 0
      /\ Absent.retries = 0 /\ Absent.check = "none"
  BY Records DEF Absent
<1>6. /\ node' \in [Task -> NodeRecords]
      /\ \A t \in Task : /\ node'[t].active = 0 /\ node'[t].check = "none"
                         /\ node'[t].status \in {"absent", "pending"} /\ node'[t].retries = 0
  <2>1. \A t \in Task : node'[t] \in NodeRecords
    BY <1>4, <1>5
  <2> QED BY <1>2, <1>4, <1>5, <2>1
<1>7. \A t \in Task : node[t].status = "absent"
  BY <1>1 DEF Persisted, Planned
<1>8. Issued = {}
  BY <1>1, <1>7 DEF IInv, AttemptKnown, Issued, Types, AttemptRecords
<1>9. Issued' = {} /\ \A t : AttemptsOf(t)' = {}
  BY <1>1, <1>8 DEF Issued, AttemptsOf
<1>10. Types'
  BY <1>1, <1>2, <1>6 DEF Types, store, workers
<1>11. Persisted'
  <2>1. Numbered'
    BY <1>9, Constants DEF Numbered
  <2>2. Planned'
    BY <1>2, <1>3, <1>4 DEF Planned
  <2>3. Apart'
    BY <1>6 DEF Apart
  <2>4. Granted'
    <3>1. \A t \in Nodes' : t \in Task /\ t \in DOMAIN p
      BY <1>4, <1>5 DEF Nodes
    <3>2. \A t \in DOMAIN p : p[t].retry \in Nat
      BY <1>3 DEF Spec_
    <3>3. \A t \in Nodes' : t \in DOMAIN p =>
              node'[t].retries <= p[t].retry /\ node'[t].spec.retry <= p[t].retry
      BY <1>4, <3>1, <3>2
    <3> QED BY <3>3 DEF Granted
  <2>5. ASSUME NEW t \in Task PROVE NodeShape(t)'
    BY <1>3, <1>4, <1>5, <1>6 DEF NodeShape, Live
  <2>6. ASSUME NEW t \in Task PROVE NodeKnown(t)'
    BY <1>6 DEF NodeKnown, Candidate
  <2>7. ASSUME NEW t \in Task PROVE Paid(t)'
    <3>1. Cardinality(AttemptsOf(t)') = 0
      <4>1. Cardinality({}) = 0
        BY FS_EmptySet
      <4> QED BY <1>9, <4>1, Zenon
    <3>2. replans' \in Nat /\ node'[t].retries = 0
      BY <1>6, <1>10, Constants DEF Types
    <3>3. ASSUME NEW x \in {0, 1} PROVE 0 <= node'[t].retries + replans' + x
      <4>1. x \in Nat
        OBVIOUS
      <4>2. ASSUME NEW r \in Nat PROVE 0 <= 0 + r + x
        BY <4>1
      <4> QED BY <3>2, <4>2, Zenon
    <3>4. (IF node'[t].status \in {"absent", "pending"} THEN 0 ELSE 1) \in {0, 1}
      OBVIOUS
    <3> QED BY <3>1, <3>3, <3>4, ZenonT(40) DEF Paid
  <2> QED BY <2>1, <2>2, <2>3, <2>4, <2>5, <2>6, <2>7 DEF Persisted
<1>12. Nodes = {}
  BY <1>7 DEF Nodes
<1>13. NoneArises
  BY <1>6 DEF NoneArises
<1> QED BY <1>1, <1>10, <1>11, <1>12, <1>13, PlanStep

\* What a replan to the plan p may make of the node of t.
Replanned(p, t) ==
    LET n == node[t]
        m == node'[t]
    IN  /\ m \in NodeRecords
        /\ n.status = "absent" /\ t \notin DOMAIN p => m = Absent
        /\ t \in DOMAIN p => m.spec = p[t] /\ m.status \notin {"absent", "retired"}
        /\ n.status = "absent" /\ t \in DOMAIN p =>
              m.status = "pending" /\ m.active = 0 /\ m.retries = 0 /\ m.check = "none"
        /\ n.status # "absent" =>
              m.status # "absent" /\ m.active = n.active /\ m.retries = n.retries /\ m.check = n.check
        /\ n.status # "absent" /\ t \notin DOMAIN p => m.spec = n.spec /\ m.status = "retired"
        /\ Frozen(n) => m = n
        /\ m.status \in {"pending", "retired", "candidate_complete", "absent"} \/ m = n
        /\ m.status = "candidate_complete" =>
              n.status = "candidate_complete" /\ m.spec = n.spec /\ m.candidate = n.candidate

LEMMA ReplannedNodes ==
    ASSUME IInv, NEW p \in LaterPlans,
           \A t \in Nodes : Frozen(node[t]) => t \in DOMAIN p /\ p[t] = node[t].spec,
           node' = [t \in Task |-> Revised(t, p)]
    PROVE  \A t \in Task : Replanned(p, t)
<1> SUFFICES ASSUME NEW t \in Task PROVE Replanned(p, t)
  OBVIOUS
<1>1. node[t] \in NodeRecords /\ NodeShape(t)
  BY DEF IInv, Types, Persisted
<1>0. node'[t] = Revised(t, p)
  OBVIOUS
<1>2. t \in Nodes <=> node[t].status # "absent"
  BY DEF Nodes
<1>3. \A u \in DOMAIN p : p[u] \in Spec_
  BY PlanShape
<1>4. ASSUME Frozen(node[t]) PROVE t \in Nodes /\ node[t].status # "retired"
  BY <1>1, <1>2, <1>4 DEF Frozen, UnknownCheck, NodeShape, Live, Absent
<1>5. CASE t \notin DOMAIN p /\ t \in Nodes
  <2>1. node'[t] = [node[t] EXCEPT !.status = "retired"] /\ ~Frozen(node[t])
    BY <1>0, <1>5, Zenon DEF Revised
  <2> DEFINE m == [node[t] EXCEPT !.status = "retired"]
  <2>2. /\ m \in NodeRecords /\ m.status = "retired" /\ m.active = node[t].active
        /\ m.retries = node[t].retries /\ m.check = node[t].check /\ m.spec = node[t].spec
    BY <1>1 DEF NodeRecords, Statuses
  <2>3. node'[t] = m
    BY <2>1
  <2> HIDE DEF m
  <2> QED BY <1>2, <1>5, <2>1, <2>2, <2>3 DEF Replanned
<1>6. CASE t \notin DOMAIN p /\ t \notin Nodes
  <2>1. node'[t] = Absent /\ ~Frozen(node[t]) /\ Absent.status = "absent"
    BY <1>0, <1>4, <1>6 DEF Absent, Revised
  <2> QED BY <1>2, <1>6, <2>1, Records DEF Replanned
<1>7. CASE t \in DOMAIN p /\ t \notin Nodes
  <2>1. node'[t] = Node(p[t]) /\ ~Frozen(node[t]) /\ p[t] \in Spec_
    BY <1>0, <1>3, <1>4, <1>7 DEF Revised
  <2> DEFINE m == Node(p[t])
  <2>2. /\ m \in NodeRecords /\ m.status = "pending" /\ m.spec = p[t] /\ m.active = 0
        /\ m.retries = 0 /\ m.check = "none"
    BY <2>1, NewNode
  <2>3. node'[t] = m
    BY <2>1
  <2> HIDE DEF m
  <2> QED BY <1>2, <1>7, <2>1, <2>2, <2>3 DEF Replanned
<1>8. CASE t \in DOMAIN p /\ t \in Nodes /\ Frozen(node[t])
  <2>1. node'[t] = node[t] /\ p[t] = node[t].spec
    BY <1>0, <1>8 DEF Revised
  <2> QED BY <1>1, <1>2, <1>4, <1>8, <2>1 DEF Replanned
<1>9. CASE t \in DOMAIN p /\ t \in Nodes /\ ~Frozen(node[t])
  <2> DEFINE status == IF Kept(node[t], p[t]) THEN node[t].status ELSE "pending"
             m == [node[t] EXCEPT !.status = status, !.spec = p[t]]
  <2>1. node'[t] = m
    <3>1. node'[t] = Again(node[t], p[t])
      BY <1>0, <1>9, Zenon DEF Revised
    <3>2. Again(node[t], p[t]) = m
      BY DEF Again
    <3> QED BY <3>1, <3>2
  <2>2. status \in Statuses /\ p[t] \in Specs
    BY <1>1, <1>3, <1>9 DEF NodeRecords, Statuses, Specs
  <2>3. status = "pending" \/
        (status = "candidate_complete" /\ node[t].status = status /\ node[t].spec = p[t])
    BY DEF Kept
  <2> HIDE DEF status
  <2>4. /\ m \in NodeRecords /\ m.status = status /\ m.active = node[t].active
        /\ m.retries = node[t].retries /\ m.check = node[t].check /\ m.spec = p[t]
        /\ m.candidate = node[t].candidate
    BY <1>1, <2>2 DEF NodeRecords
  <2> HIDE DEF m
  <2> QED BY <1>2, <1>9, <2>1, <2>3, <2>4 DEF Replanned
<1> QED BY <1>5, <1>6, <1>7, <1>8, <1>9

LEMMA ReplanStep == ASSUME IInv, NEW c \in Controller, Replan(c)
    PROVE  IInv' /\ NoneArises
<1>1. /\ Types /\ Persisted /\ Holds(c) /\ ctl[c].pc = "idle" /\ plan # <<>>
      /\ replans' = replans + 1 /\ replans < ReplanBudget
      /\ UNCHANGED <<store, attempt, ctl, workers, refreshes>>
  BY DEF IInv, Replan, ReplanAllowed
<1>2. PICK p \in LaterPlans : plan' = p /\ \A t \in Task : Replanned(p, t)
  <2>1. PICK p \in LaterPlans : plan' = p
    BY DEF Replan
  <2>2. \A t \in Task : Replanned(p, t)
    BY <2>1, ReplannedNodes DEF Replan
  <2> QED BY <2>1, <2>2
<1>3. p # <<>> /\ DOMAIN p \subseteq Task /\ \A t \in DOMAIN p : p[t] \in Spec_
  BY PlanShape
<1>4. node' \in [Task -> NodeRecords]
  <2>1. \A t \in Task : node'[t] \in NodeRecords
    BY <1>2 DEF Replanned
  <2>2. node' = [t \in Task |-> node'[t]]
    BY DEF Replan
  <2> QED BY <2>1, <2>2
<1>5. Types'
  BY <1>1, <1>2, <1>4, Constants DEF Types, store, workers
<1>6. \A t \in Task : /\ node[t] \in NodeRecords /\ NodeShape(t) /\ NodeKnown(t) /\ Paid(t)
                      /\ node[t].status = "absent" => node[t] = Absent
  BY <1>1 DEF Types, Persisted, NodeShape
<1>7. /\ \A t \in Nodes : node'[t].status # "absent"
      /\ \A t \in Nodes : node[t].active # 0 => node'[t].active = node[t].active
  BY <1>2 DEF Replanned, Nodes
<1>8. Absent.status = "absent" /\ Absent.active = 0 /\ Absent.retries = 0 /\ Absent.check = "none"
  BY DEF Absent
<1>9. Issued' = Issued /\ \A t : AttemptsOf(t)' = AttemptsOf(t)
  BY <1>1 DEF Issued, AttemptsOf
<1>10. \A t \in Task :
          /\ node'[t].active # 0 => node'[t] = node[t]
          /\ node'[t].status \in Candidate \cup {"accepted"} =>
                /\ node[t].status = node'[t].status /\ node'[t].spec = node[t].spec
                /\ node'[t].candidate = node[t].candidate
          /\ node[t].status = "accepted" => node'[t].status = "accepted"
  <2> SUFFICES ASSUME NEW t \in Task
               PROVE  /\ node'[t].active # 0 => node'[t] = node[t]
                      /\ node'[t].status \in Candidate \cup {"accepted"} =>
                            /\ node[t].status = node'[t].status /\ node'[t].spec = node[t].spec
                            /\ node'[t].candidate = node[t].candidate
                      /\ node[t].status = "accepted" => node'[t].status = "accepted"
    OBVIOUS
  <2>1. Replanned(p, t) /\ (node[t].status = "absent" => node[t] = Absent)
    BY <1>2, <1>6
  <2>2. node'[t].active # 0 => node'[t] = node[t]
    BY <1>8, <2>1 DEF Replanned, Frozen
  <2>3. node'[t].status \in Candidate \cup {"accepted"} =>
           node'[t] = node[t] \/ node'[t].status = "candidate_complete"
    BY <2>1 DEF Replanned, Candidate
  <2>4. node'[t].status \in Candidate \cup {"accepted"} =>
            /\ node[t].status = node'[t].status /\ node'[t].spec = node[t].spec
            /\ node'[t].candidate = node[t].candidate
    BY <2>1, <2>3 DEF Replanned
  <2>5. node[t].status = "accepted" => node'[t].status = "accepted"
    BY <2>1 DEF Replanned, Frozen
  <2> QED BY <2>2, <2>4, <2>5
<1>11. Persisted'
  <2>1. Numbered'
    BY <1>1, <1>9 DEF Persisted, Numbered
  <2>2. Planned'
    BY <1>2, <1>3 DEF Planned, Replanned
  <2>3. Apart'
    <3> SUFFICES ASSUME NEW t \in Task, NEW u \in Task, t # u, node'[u].active # 0,
                        node'[t].spec.root = node'[u].spec.root,
                        node'[t].active # 0 \/ node'[t].status \in Candidate
                 PROVE  ~node'[u].spec.write
      BY DEF Apart
    <3>1. node'[u] = node[u] /\ node'[t].spec = node[t].spec
      BY <1>10
    <3>2. node[t].active # 0 \/ node[t].status \in Candidate
      BY <1>10
    <3> QED BY <1>1, <3>1, <3>2 DEF Persisted, Apart
  <2>4. Granted'
    <3>1. PICK initial \in InitialPlans : \A t \in Nodes : t \in DOMAIN initial =>
              node[t].retries <= initial[t].retry /\ node[t].spec.retry <= initial[t].retry
      BY <1>1 DEF Persisted, Granted
    <3>2. ASSUME NEW t \in Nodes', t \in DOMAIN initial
          PROVE  node'[t].retries <= initial[t].retry /\ node'[t].spec.retry <= initial[t].retry
      <4>1. t \in Task /\ node'[t].status # "absent" /\ Replanned(p, t) /\ initial[t].retry \in Nat
        BY <1>2, <3>2, PlansAssumption DEF Nodes, Spec_
      <4>2. t \in DOMAIN p => p[t].retry <= initial[t].retry
        BY <3>2, AuthorizationAssumption
      <4>3. CASE node[t].status = "absent"
        BY <1>8, <4>1, <4>2, <4>3 DEF Replanned
      <4>4. CASE node[t].status # "absent"
        BY <3>1, <3>2, <4>1, <4>2, <4>4 DEF Replanned, Nodes
      <4> QED BY <4>3, <4>4
    <3> QED BY <3>2 DEF Granted
  <2>5. ASSUME NEW t \in Task PROVE NodeShape(t)'
    <3>1. Replanned(p, t) /\ NodeShape(t) /\ node[t] \in NodeRecords
      BY <1>2, <1>6
    <3>2. CASE node'[t] = node[t]
      BY <3>1, <3>2 DEF NodeShape
    <3>3. CASE node'[t] # node[t]
      <4>1. /\ ~Frozen(node[t])
            /\ node'[t].status \in {"pending", "retired", "candidate_complete", "absent"}
        BY <3>1, <3>3 DEF Replanned
      <4>2. node'[t].status = "absent" => node'[t] = Absent
        BY <3>1 DEF Replanned
      <4>3. node'[t].status # "absent" => node'[t].spec \in Spec_
        BY <1>3, <3>1, <4>2 DEF Replanned, NodeShape
      <4>4. node'[t].active = 0 /\ node'[t].check \notin {"running", "unknown"}
        BY <1>8, <3>1, <4>1 DEF Replanned, Frozen, UnknownCheck
      <4> QED BY <4>1, <4>2, <4>3, <4>4 DEF NodeShape, Live
    <3> QED BY <3>2, <3>3
  <2>6. ASSUME NEW t \in Task PROVE NodeKnown(t)'
    <3>1. NodeKnown(t) /\ \A a : Last(a, t)' <=> Last(a, t)
      BY <1>6, <1>9 DEF Last
    <3>2. node'[t].active # 0 => \A d \in node[t].spec.deps : node'[d].status = "accepted"
      <4> SUFFICES ASSUME node'[t].active # 0, NEW d \in node[t].spec.deps
                   PROVE  node'[d].status = "accepted"
        OBVIOUS
      <4>1. node[t].active # 0
        BY <1>10
      <4>2. node[d].status = "accepted" /\ node[t].spec \in Spec_
        BY <1>6, <3>1, <4>1 DEF NodeKnown, NodeShape, Live
      <4> QED BY <1>10, <4>2 DEF Spec_
    <3>3. node'[t].status \in Candidate \cup {"accepted"} => Left(t)'
      <4> SUFFICES ASSUME node'[t].status \in Candidate \cup {"accepted"} PROVE Left(t)'
        OBVIOUS
      <4>1. Left(t)
        BY <1>10, <3>1 DEF NodeKnown
      <4> QED BY <1>1, <1>10, <3>1, <4>1 DEF Left, workers
    <3>4. node'[t].status \in Candidate => Content(t)' = node'[t].candidate
      BY <1>1, <1>10, <3>1 DEF NodeKnown, Content, workers
    <3>5. ASSUME node'[t].active # 0
          PROVE  /\ node'[t] = node[t] /\ Last(node[t].active, t)
                 /\ attempt[node[t].active].state \in Live
                 /\ attempt[node[t].active].spec = node[t].spec
      BY <1>10, <3>1, <3>5 DEF NodeKnown
    <3> QED BY <1>1, <1>9, <3>1, <3>2, <3>3, <3>4, <3>5 DEF NodeKnown, Last
  <2>7. ASSUME NEW t \in Task PROVE Paid(t)'
    <3>1. Replanned(p, t) /\ Paid(t) /\ node[t].retries \in Nat /\ replans \in Nat
          /\ Cardinality(AttemptsOf(t)) \in Nat /\ (node[t].status = "absent" => node[t] = Absent)
          /\ node'[t].retries \in Nat
      BY <1>1, <1>2, <1>4, <1>6, AttemptsFinite, Constants DEF Types, NodeRecords
    <3>2. node'[t].retries = node[t].retries
      BY <1>8, <3>1 DEF Replanned
    <3>3. Cardinality(AttemptsOf(t)) <= node[t].retries + replans + 1
      BY <3>1 DEF Paid
    <3>4. Cardinality(AttemptsOf(t)) <= node'[t].retries + replans'
      BY <1>1, <3>1, <3>2, <3>3
    <3>5. (IF node'[t].status \in {"absent", "pending"} THEN 0 ELSE 1) \in Nat
      OBVIOUS
    <3>6. Cardinality(AttemptsOf(t)) <= node'[t].retries + replans'
             + (IF node'[t].status \in {"absent", "pending"} THEN 0 ELSE 1)
      BY <1>1, <3>1, <3>4, <3>5
    <3> QED BY <1>9, <3>6 DEF Paid
  <2> QED BY <2>1, <2>2, <2>3, <2>4, <2>5, <2>6, <2>7 DEF Persisted
<1>12. NoneArises
  BY <1>2 DEF NoneArises, Replanned
<1> QED BY <1>1, <1>5, <1>7, <1>11, <1>12, PlanStep
-----------------------------------------------------------------------------
(* The invariant.                                                           *)

LEMMA InitInvariant == ASSUME Init PROVE IInv
<1>1. /\ epoch = 0 /\ valid = FALSE /\ plan = <<>> /\ replans = 0 /\ highest = 0 /\ refreshes = 0
      /\ node = [t \in Task |-> Absent] /\ attempt = [a \in Attempt |-> NoAttempt]
      /\ ctl = [c \in Controller |-> Off] /\ run = [a \in Attempt |-> Unregistered]
      /\ head = [r \in Root |-> 0]
  BY DEF Init
<1>2. /\ \A t \in Task : node[t] = Absent
      /\ \A a \in Attempt : attempt[a] = NoAttempt /\ run[a] = Unregistered
      /\ \A c \in Controller : ctl[c] = Off
  BY <1>1
<1>3. Types
  <2>1. /\ node \in [Task -> NodeRecords] /\ attempt \in [Attempt -> AttemptRecords]
        /\ ctl \in [Controller -> ControllerRecords] /\ run \in [Attempt -> RunRecords]
    BY <1>1, Records, Zenon
  <2>2. 0 \in 0 .. MaxEpoch /\ 0 \in 0 .. ReplanBudget /\ 0 \in 0 .. MaxRefreshes
    BY Constants
  <2>3. head \in [Root -> 0 .. MaxAttempts]
    BY <1>1, Constants
  <2> QED BY <1>1, <2>1, <2>2, <2>3 DEF Types
<1>4. /\ Absent.status = "absent" /\ Absent.active = 0 /\ Absent.check = "none"
      /\ Absent.retries = 0 /\ NoAttempt.task = 0 /\ NoAttempt.state = "absent"
      /\ Off.lease = 0 /\ Off.pc = "off" /\ Off.attempt = 0
      /\ Unregistered.result = "absent"
  BY DEF Absent, NoAttempt, Off, Unregistered
<1>5. Issued = {} /\ \A t : AttemptsOf(t) = {}
  BY <1>2, <1>4 DEF Issued, AttemptsOf
<1>6. Leases
  BY <1>1, <1>2, <1>4 DEF Leases
<1>7. Numbered /\ Planned /\ Apart /\ plan = <<>>
  <2>1. Numbered
    BY <1>5, Constants DEF Numbered
  <2>2. DOMAIN plan = {}
    BY <1>1
  <2> QED BY <1>1, <1>2, <1>4, <2>1, <2>2 DEF Planned, Apart
<1>8. ASSUME NEW t \in Task PROVE NodeShape(t) /\ NodeKnown(t)
  BY <1>2, <1>4 DEF NodeShape, NodeKnown, Live, Candidate
<1>9. ASSUME NEW t \in Task PROVE Paid(t)
  <2>1. Cardinality(AttemptsOf(t)) = 0
    BY <1>5, FS_EmptySet, Zenon
  <2>2. node[t].retries = 0 /\ node[t].status = "absent" /\ replans = 0
    BY <1>1, <1>2, <1>4
  <2> QED BY <2>1, <2>2 DEF Paid
<1>10. ASSUME NEW a \in Attempt PROVE AttemptKnown(a)
  BY <1>2, <1>4 DEF AttemptKnown, Terminal
<1>11. ASSUME NEW c \in Controller PROVE ControllerKnown(c) /\ InHand(c)
  BY <1>2, <1>4 DEF ControllerKnown, InHand, Calling, Sending, Verifying
<1> QED BY <1>3, <1>6, <1>7, <1>8, <1>9, <1>10, <1>11 DEF IInv, Persisted

LEMMA StutterStep == ASSUME IInv, UNCHANGED vars PROVE IInv'
<1>1. /\ epoch' = epoch /\ valid' = valid /\ plan' = plan /\ replans' = replans /\ node' = node
      /\ attempt' = attempt /\ ctl' = ctl /\ run' = run /\ highest' = highest /\ head' = head
      /\ refreshes' = refreshes
  BY DEF vars, store, data, workers
<1>2. Types'
  BY <1>1 DEF IInv, Types
<1>3. Leases'
  BY <1>1 DEF IInv, Leases
<1>4. Persisted'
  BY <1>1, PersistedFrame DEF IInv, Content, data
<1>5. Issued' = Issued
  BY <1>1 DEF Issued
<1>6. ASSUME NEW a \in Attempt PROVE AttemptKnown(a)'
  BY <1>1 DEF IInv, AttemptKnown, Done
<1>7. ASSUME NEW c \in Controller PROVE ControllerKnown(c)' /\ InHand(c)'
  BY <1>1, <1>5 DEF IInv, ControllerKnown, InHand, Cancelled
<1> QED BY <1>2, <1>3, <1>4, <1>6, <1>7 DEF IInv

LEMMA TickInvariant == ASSUME IInv, NEW c \in Controller, TickStep(c) PROVE IInv'
<1>1. CASE PortStep(c)
  BY <1>1, DispatchStep_, PollStep, CancelStep, CloseTreeStep, ReadResultStep DEF PortStep
<1>2. CASE ApplyStep(c)
  BY <1>2, ApplyRunningStep, ApplyCandidateStep, ApplyFailureStep, RetireStep, StayUnknownStep
     DEF ApplyStep
<1>3. CASE VerifyStep(c)
  BY <1>3, ExecuteStep, AbortedStep, FailedStep, RereadStep, AcceptStep DEF VerifyStep
<1>4. CASE Tick(c, "tick") \/ Observe(c) \/ Abandon(c) \/ Observed(c) \/ KeepLease(c)
  BY <1>4, TickStarts, ObserveStep, AbandonStep, ObservedStep, KeepLeaseStep
<1>5. CASE Skip(c) \/ Scanned(c) \/ Block(c) \/ Intent(c) \/ Send(c) \/ Raise(c)
  BY <1>5, SkipStep, ScannedStep, BlockStep, IntentStep, SendStep, RaiseStep
<1> QED BY <1>1, <1>2, <1>3, <1>4, <1>5 DEF TickStep

LEMMA DecisionInvariant == ASSUME IInv, NEW c \in Controller, Decision(c) PROVE IInv'
<1>1. CASE Acquire(c) \/ Crash(c) \/ Initialize(c) \/ Replan(c) \/ Tick(c, "close") \/ Release(c)
  BY <1>1, AcquireStep, CrashStep, InitializeStep, ReplanStep, TickStarts, ReleaseStep
<1>2. CASE \E t \in Task, refresh \in BOOLEAN :
              VerifyRefused(c, t, refresh) \/ VerifyBegin(c, t, refresh)
  BY <1>2, RefusedStep, BeginStep
<1> QED BY <1>1, <1>2 DEF Decision

LEMMA InvariantStep == ASSUME IInv, [Next]_vars PROVE IInv'
<1>1. ASSUME NEW c \in Controller, TickStep(c) \/ Decision(c) PROVE IInv'
  BY <1>1, TickInvariant, DecisionInvariant
<1>2. ASSUME NEW a \in Attempt, WorkerStep(a) \/ Write(a) \/ Vanish(a) PROVE IInv'
  BY <1>2, LaunchStep, EndStep, UnconfirmedStep, WriteStep, VanishStep DEF WorkerStep
<1> QED BY <1>1, <1>2, ExpireStep, StutterStep DEF Next

\* The inductive invariant holds in every state the supervisors, the workers and
\* the crashes can lead to: it is what the theorems below rest on.
THEOREM Invariant == SupervisorSpec => []IInv
<1> QED BY InitInvariant, InvariantStep, PTL DEF SupervisorSpec
-----------------------------------------------------------------------------
(* The port that the supervisors rely on is the worker ledger.              *)

\* What the ledger sees of the attempts and of the controllers.
LedgerTasks ==
    [a \in Attempt |-> IF attempt[a].task = 0 THEN NoTask
                       ELSE [root |-> attempt[a].spec.root, write |-> attempt[a].spec.write]]
LedgerFences == [a \in Attempt |-> IF run[a].result = "absent" THEN 0 ELSE attempt[a].fence]
LedgerResults ==
    [a \in Attempt |-> IF run[a].result = "absent" THEN "none" ELSE Plain(run[a].result)]
LedgerHomes == [a \in Attempt |-> run[a].home]
LedgerProcs == [a \in Attempt |-> run[a].proc]
LedgerRevoked == [a \in Attempt |-> run[a].home # None /\ run[a].cancelled]
LedgerAnswers ==
    [c \in Controller |->
        IF ctl[c].pc = "apply" THEN [attempt |-> ctl[c].attempt, state |-> Plain(ctl[c].obs)]
        ELSE [attempt |-> None, state |-> "none"]]

LedgerRuns == <<LedgerFences, LedgerResults, LedgerHomes, LedgerProcs, LedgerRevoked>>

\* What a worker is for, and in whose name it was sent, stays the same.
SameAttempts ==
    \A a \in Attempt : /\ attempt'[a].task = attempt[a].task
                       /\ attempt'[a].spec = attempt[a].spec
                       /\ attempt'[a].fence = attempt[a].fence

LEMMA SameLedger ==
    ASSUME SameAttempts, UNCHANGED run
    PROVE  UNCHANGED <<LedgerTasks, LedgerRuns>>
<1>1. UNCHANGED LedgerTasks
  BY DEF SameAttempts, LedgerTasks
<1>2. UNCHANGED <<LedgerFences, LedgerResults>>
  BY DEF SameAttempts, LedgerFences, LedgerResults, Plain
<1>3. UNCHANGED <<LedgerHomes, LedgerProcs, LedgerRevoked>>
  BY DEF LedgerHomes, LedgerProcs, LedgerRevoked
<1> QED BY <1>1, <1>2, <1>3 DEF LedgerRuns

LEMMA SameTasks ==
    ASSUME UNCHANGED attempt
    PROVE  UNCHANGED LedgerTasks
  BY DEF LedgerTasks

LEMMA SameAnswers ==
    ASSUME UNCHANGED ctl
    PROVE  UNCHANGED LedgerAnswers
  BY DEF LedgerAnswers, Plain

\* Controller c has no answer, or none any more.
LEMMA Forgotten ==
    ASSUME NEW c \in Controller, ctl'[c].pc # "apply",
           \A d \in Controller \ {c} : ctl'[d] = ctl[d]
    PROVE  Ledger!Forgets(c)
<1>1. LedgerAnswers' = [LedgerAnswers EXCEPT ![c] = [attempt |-> None, state |-> "none"]]
  BY DEF LedgerAnswers, Plain
<1> QED BY <1>1 DEF Ledger!Forgets, Ledger!NoAnswer, LedgerAnswers

\* Controller c is told something of its attempt.
LEMMA Spoken ==
    ASSUME NEW c \in Controller, NEW obs, Goes(c, "apply", obs, ctl[c].seen)
    PROVE  Ledger!Says(c, ctl[c].attempt, Plain(obs))
<1>1. LedgerAnswers' =
        [LedgerAnswers EXCEPT ![c] = [attempt |-> ctl[c].attempt, state |-> Plain(obs)]]
  BY DEF LedgerAnswers, Plain, Goes
<1> QED BY <1>1 DEF Ledger!Says, LedgerAnswers

LEMMA UnseenLedger ==
    ASSUME SameAttempts, UNCHANGED <<epoch, highest, run, ctl>>
    PROVE  UNCHANGED Ledger!vars
<1>1. UNCHANGED <<LedgerTasks, LedgerRuns>>
  BY SameLedger
<1>2. UNCHANGED LedgerAnswers
  BY SameAnswers
<1> QED BY <1>1, <1>2
  DEF Ledger!vars, Ledger!workers, LedgerTasks, LedgerRuns, LedgerFences, LedgerResults,
      LedgerHomes, LedgerProcs, LedgerRevoked, LedgerAnswers

LEMMA ForgetLedger ==
    ASSUME NEW c \in Controller, SameAttempts, UNCHANGED <<epoch, highest, run>>,
           ctl'[c].pc # "apply", \A d \in Controller \ {c} : ctl'[d] = ctl[d]
    PROVE  Ledger!Next
<1>1. UNCHANGED <<LedgerTasks, LedgerRuns>>
  BY SameLedger
<1>2. Ledger!Forgets(c)
  BY Forgotten
<1>3. Ledger!Forget(c)
  BY <1>1, <1>2
  DEF Ledger!Forget, Ledger!workers, LedgerTasks, LedgerRuns, LedgerFences, LedgerResults,
      LedgerHomes, LedgerProcs, LedgerRevoked
<1> QED BY <1>3 DEF Ledger!Next

LEMMA TrustedKnown ==
    ASSUME NEW c \in Controller, NEW a \in Attempt, run[a].result # "absent",
           IF run[a].home = c THEN ~Cancelled(a) ELSE run[a].result \in Terminal
    PROVE  Ledger!Known(c, a) /\ Plain(run[a].result) = LedgerResults[a]
<1>1. Plain(run[a].result) = LedgerResults[a]
  BY DEF LedgerResults
<1>2. CASE run[a].home = c
  <2>1. ~Ledger!Cancelling(a)
    BY <1>2 DEF Ledger!Cancelling, Cancelled, Plain
  <2> QED BY <1>1, <1>2, <2>1 DEF Ledger!Known
<1>3. CASE run[a].home # c
  <2>1. LedgerResults[a] \in Ledger!Final
    BY <1>1, <1>3 DEF Ledger!Final, Plain, Terminal
  <2> QED BY <1>1, <1>3, <2>1 DEF Ledger!Known, LedgerResults
<1> QED BY <1>2, <1>3

LEMMA TellLedger ==
    ASSUME NEW c \in Controller, NEW obs, ctl[c].attempt \in Attempt,
           Goes(c, "apply", obs, ctl[c].seen), UNCHANGED <<epoch, highest, run, attempt>>,
           obs = "unknown" \/ obs = Reported(c, ctl[c].attempt)
    PROVE  Ledger!Next
<1> DEFINE a == ctl[c].attempt
<1>1. UNCHANGED <<LedgerTasks, LedgerRuns>>
  BY SameLedger DEF SameAttempts
<1>2. Ledger!Says(c, a, Plain(obs))
  BY Spoken
<1>3. CASE obs = "unknown"
  <2>1. Ledger!Says(c, a, "unknown")
    BY <1>2, <1>3 DEF Plain
  <2> QED BY <1>1, <2>1
    DEF Ledger!Next, Ledger!Tell, Ledger!workers, LedgerTasks, LedgerRuns, LedgerFences,
        LedgerResults, LedgerHomes, LedgerProcs, LedgerRevoked
<1>4. CASE obs # "unknown"
  <2>1. /\ obs = run[a].result /\ run[a].result # "absent"
        /\ IF run[a].home = c THEN ~Cancelled(a) ELSE run[a].result \in Terminal
    BY <1>4 DEF Reported, Terminal
  <2>2. Ledger!Known(c, a) /\ Plain(obs) = LedgerResults[a]
    BY <2>1, TrustedKnown
  <2>3. Ledger!Tell(c, a)
    BY <1>1, <1>2, <2>2
    DEF Ledger!Tell, Ledger!Says, Ledger!workers, LedgerTasks, LedgerRuns, LedgerFences,
        LedgerResults, LedgerHomes, LedgerProcs, LedgerRevoked
  <2> QED BY <2>3 DEF Ledger!Next
<1> QED BY <1>3, <1>4

\* The record of one attempt in the ledger changes.
LEMMA ChangedLedger ==
    ASSUME Types, NEW a \in Attempt, NEW r, run' = [run EXCEPT ![a] = r], UNCHANGED attempt,
           run[a].result # "absent", r.result # "absent"
    PROVE  /\ UNCHANGED <<LedgerTasks, LedgerFences>>
           /\ LedgerResults' = [LedgerResults EXCEPT ![a] = Plain(r.result)]
           /\ r.home = run[a].home => UNCHANGED LedgerHomes
           /\ LedgerProcs' = [LedgerProcs EXCEPT ![a] = r.proc]
           /\ r.proc = run[a].proc => UNCHANGED LedgerProcs
           /\ r.home = run[a].home /\ r.cancelled = run[a].cancelled => UNCHANGED LedgerRevoked
<1>1. run'[a] = r /\ \A b \in Attempt \ {a} : run'[b] = run[b]
  BY DEF Types
<1>2. UNCHANGED LedgerFences
  BY <1>1 DEF LedgerFences
<1>3. LedgerResults' = [LedgerResults EXCEPT ![a] = Plain(r.result)]
  <2>1. \A b \in Attempt \ {a} : LedgerResults'[b] = LedgerResults[b]
    BY <1>1 DEF LedgerResults, Plain
  <2>2. LedgerResults'[a] = Plain(r.result)
    BY <1>1 DEF LedgerResults, Plain
  <2>3. /\ LedgerResults' = [b \in Attempt |-> LedgerResults'[b]]
        /\ LedgerResults = [b \in Attempt |-> LedgerResults[b]]
    BY DEF LedgerResults, Plain
  <2> QED BY <2>1, <2>2, <2>3
<1>4. r.home = run[a].home => UNCHANGED LedgerHomes
  BY <1>1 DEF LedgerHomes
<1>5. LedgerProcs' = [LedgerProcs EXCEPT ![a] = r.proc]
  <2>1. LedgerProcs'[a] = r.proc /\ \A b \in Attempt \ {a} : LedgerProcs'[b] = LedgerProcs[b]
    BY <1>1 DEF LedgerProcs
  <2>2. /\ LedgerProcs' = [b \in Attempt |-> LedgerProcs'[b]]
        /\ LedgerProcs = [b \in Attempt |-> LedgerProcs[b]]
    BY DEF LedgerProcs
  <2> QED BY <2>1, <2>2
<1>6. r.proc = run[a].proc => UNCHANGED LedgerProcs
  BY <1>1 DEF LedgerProcs
<1>7. r.home = run[a].home /\ r.cancelled = run[a].cancelled => UNCHANGED LedgerRevoked
  BY <1>1 DEF LedgerRevoked
<1> QED BY <1>2, <1>3, <1>4, <1>5, <1>6, <1>7, SameTasks

\* A result is recorded, with its process gone if there was one left.
LEMMA RecordLedger ==
    ASSUME IInv, NEW a \in Attempt, NEW r, run' = [run EXCEPT ![a] = r],
           UNCHANGED <<epoch, highest, attempt>>,
           run[a].home # None, run[a].result # "absent",
           r.result # "absent", r.home = run[a].home, r.cancelled = run[a].cancelled,
           r.proc = run[a].proc \/ r.proc = "gone",
           Plain(r.result) \in Ledger!Final => r.proc # "live" /\ r.proc # "suspended",
           Plain(r.result) \in Ledger!Recordable(a),
           UNCHANGED LedgerAnswers \/ Ledger!Says(run[a].home, a, Plain(r.result))
    PROVE  Ledger!Next
<1>1. Types
  BY DEF IInv
<1>2. /\ UNCHANGED <<LedgerTasks, LedgerFences, LedgerHomes, LedgerRevoked>>
      /\ LedgerResults' = [LedgerResults EXCEPT ![a] = Plain(r.result)]
      /\ LedgerProcs' \in {LedgerProcs, [LedgerProcs EXCEPT ![a] = "gone"]}
      /\ LedgerProcs' = [LedgerProcs EXCEPT ![a] = r.proc]
  <2>1. /\ UNCHANGED <<LedgerTasks, LedgerFences, LedgerHomes, LedgerRevoked>>
        /\ LedgerResults' = [LedgerResults EXCEPT ![a] = Plain(r.result)]
        /\ LedgerProcs' = [LedgerProcs EXCEPT ![a] = r.proc]
        /\ r.proc = run[a].proc => UNCHANGED LedgerProcs
    BY <1>1, ChangedLedger
  <2> QED BY <2>1
<1>3. LedgerProcs'[a] = r.proc /\ LedgerHomes[a] = run[a].home
  BY <1>2 DEF LedgerProcs, LedgerHomes
<1>4. Plain(r.result) \in Ledger!Final => LedgerProcs'[a] \notin {"suspended", "live"}
  BY <1>3
<1>5. UNCHANGED LedgerAnswers \/ Ledger!Says(LedgerHomes[a], a, Plain(r.result))
  BY <1>3 DEF Ledger!Says
<1>6. PICK state \in Ledger!Recordable(a) : state = Plain(r.result)
  OBVIOUS
<1>7. Ledger!Record(a)
  BY <1>2, <1>3, <1>4, <1>5, <1>6
  DEF Ledger!Record, Ledger!Says, LedgerTasks, LedgerFences,
      LedgerResults, LedgerHomes, LedgerProcs, LedgerRevoked, LedgerAnswers
<1> QED BY <1>7 DEF Ledger!Next
-----------------------------------------------------------------------------
(* The steps of the workers.                                                *)

LEMMA LaunchLedger == ASSUME IInv, NEW a \in Attempt, Launch(a) PROVE Ledger!Next
<1>1. Types /\ AttemptKnown(a)
  BY DEF IInv
<1>2. /\ run[a].home # None /\ run[a].result = "running" /\ ~run[a].cancelled
      /\ run[a].proc = "none" /\ attempt[a].fence = epoch /\ attempt[a].fence = highest
      /\ UNCHANGED <<epoch, highest, attempt, ctl>>
  BY DEF Launch, Open, Cancelled, store, data
<1> DEFINE r == [run[a] EXCEPT !.proc = "live"]
<1>3. run' = [run EXCEPT ![a] = r]
  BY <1>1 DEF Launch, Types
<1>4. /\ r.result = run[a].result /\ r.home = run[a].home /\ r.proc = "live"
      /\ r.cancelled = run[a].cancelled
  BY <1>1 DEF Types, RunRecords
<1> HIDE DEF r
<1>5. /\ UNCHANGED <<LedgerTasks, LedgerFences, LedgerHomes, LedgerRevoked>>
      /\ LedgerResults' = [LedgerResults EXCEPT ![a] = Plain(r.result)]
      /\ LedgerProcs' = [LedgerProcs EXCEPT ![a] = r.proc]
  BY <1>1, <1>2, <1>3, <1>4, ChangedLedger
<1>6. UNCHANGED LedgerResults
  BY <1>2, <1>4, <1>5 DEF LedgerResults, Plain
<1>7. UNCHANGED LedgerAnswers
  BY <1>2, SameAnswers
<1>8. /\ LedgerProcs[a] = "none" /\ LedgerHomes[a] # None /\ LedgerResults[a] = "running"
      /\ ~LedgerRevoked[a] /\ LedgerFences[a] = epoch /\ LedgerFences[a] = highest
  BY <1>2 DEF LedgerProcs, LedgerHomes, LedgerResults, LedgerRevoked, LedgerFences, Plain
<1>9. Ledger!Launch(a)
  BY <1>2, <1>4, <1>5, <1>6, <1>7, <1>8
  DEF Ledger!Launch, LedgerTasks, LedgerFences, LedgerResults, LedgerHomes, LedgerProcs,
      LedgerRevoked, LedgerAnswers
<1> QED BY <1>9 DEF Ledger!Next

\* What may be recorded of an attempt with a controller.
LEMMA MayRecord ==
    ASSUME NEW a \in Attempt, run[a].home # None, run[a].result # "absent"
    PROVE  /\ ~run[a].cancelled /\ run[a].result = "running" =>
                 Ledger!Recordable(a) = {"candidate", "blocked", "failed", "unknown"}
           /\ run[a].cancelled => "cancelled" \in Ledger!Recordable(a)
           /\ run[a].cancelled /\ run[a].result # "cancelled" =>
                 "unknown" \in Ledger!Recordable(a)
<1>1. LedgerRevoked[a] <=> run[a].cancelled
  BY DEF LedgerRevoked
<1>2. LedgerResults[a] = Plain(run[a].result)
  BY DEF LedgerResults
<1>3. /\ run[a].result = "running" => LedgerResults[a] = "running"
      /\ run[a].result # "cancelled" => LedgerResults[a] # "cancelled"
  BY <1>2 DEF Plain
<1> QED BY <1>1, <1>3 DEF Ledger!Recordable, LedgerResults, LedgerRevoked

LEMMA EndLedger == ASSUME IInv, NEW a \in Attempt, End(a) PROVE Ledger!Next
<1>1. PICK result \in Terminal :
          /\ run[a].cancelled <=> result = "cancelled"
          /\ run' = [run EXCEPT
                ![a].result = result,
                ![a].proc = IF @ = "live" THEN "gone" ELSE @,
                ![a].content = IF result = "candidate"
                               THEN head[attempt[a].spec.root] ELSE 0]
  BY DEF End
<1> DEFINE r == [run[a] EXCEPT !.result = result,
                    !.proc = IF @ = "live" THEN "gone" ELSE @,
                    !.content = IF result = "candidate" THEN head[attempt[a].spec.root] ELSE 0]
<1>2. /\ Types /\ run[a].home # None /\ run[a].result # "absent"
      /\ ~run[a].cancelled => run[a].result = "running"
      /\ UNCHANGED <<epoch, highest, attempt, ctl>>
  BY DEF IInv, AttemptKnown, Unregistered, End, Open, Cancelled, store, data
<1>3. run' = [run EXCEPT ![a] = r]
  BY <1>1, <1>2 DEF Types
<1>4. /\ r.result = result /\ r.home = run[a].home /\ r.cancelled = run[a].cancelled
      /\ r.proc = (IF run[a].proc = "live" THEN "gone" ELSE run[a].proc)
  BY <1>2 DEF Types, RunRecords
<1>5. r.proc \notin {"live", "suspended"} /\ (r.proc = run[a].proc \/ r.proc = "gone")
  BY <1>2, <1>4 DEF Types, RunRecords
<1> HIDE DEF r
<1>6. Plain(r.result) \in Ledger!Recordable(a) /\ r.result # "absent"
  BY <1>1, <1>2, <1>4, MayRecord DEF Plain, Terminal
<1>7. UNCHANGED LedgerAnswers
  BY <1>2, SameAnswers
<1> QED BY <1>2, <1>3, <1>4, <1>5, <1>6, <1>7, RecordLedger

LEMMA UnconfirmedLedger == ASSUME IInv, NEW a \in Attempt, EndUnconfirmed(a) PROVE Ledger!Next
<1> DEFINE r == [run[a] EXCEPT !.result = "unknown"]
<1>1. /\ Types /\ run[a].home # None /\ run[a].result # "absent"
      /\ IF run[a].cancelled THEN run[a].result # "cancelled" ELSE run[a].result = "running"
      /\ UNCHANGED <<epoch, highest, attempt, ctl>>
  BY DEF IInv, AttemptKnown, Unregistered, EndUnconfirmed, Open, Cancelled, store, data
<1>2. run' = [run EXCEPT ![a] = r]
  BY <1>1 DEF Types, EndUnconfirmed
<1>3. /\ r.result = "unknown" /\ r.home = run[a].home /\ r.cancelled = run[a].cancelled
      /\ r.proc = run[a].proc
  BY <1>1 DEF Types, RunRecords
<1> HIDE DEF r
<1>4. Plain(r.result) = "unknown" /\ "unknown" \notin Ledger!Final
  BY <1>3 DEF Plain, Ledger!Final
<1>5. "unknown" \in Ledger!Recordable(a)
  BY <1>1, MayRecord
<1>6. UNCHANGED LedgerAnswers
  BY <1>1, SameAnswers
<1> QED BY <1>1, <1>2, <1>3, <1>4, <1>5, <1>6, RecordLedger

LEMMA VanishLedger == ASSUME IInv, NEW a \in Attempt, Vanish(a) PROVE Ledger!Next
<1> DEFINE r == [run[a] EXCEPT !.proc = "gone"]
<1>1. /\ Types /\ run[a].result # "absent" /\ UNCHANGED <<epoch, highest, attempt, ctl>>
  BY DEF IInv, AttemptKnown, Unregistered, Vanish, store, data
<1>2. run' = [run EXCEPT ![a] = r]
  BY <1>1 DEF Types, Vanish
<1>3. /\ r.result = run[a].result /\ r.home = run[a].home /\ r.cancelled = run[a].cancelled
      /\ r.proc = "gone"
  BY <1>1 DEF Types, RunRecords
<1> HIDE DEF r
<1>4. /\ UNCHANGED <<LedgerTasks, LedgerFences, LedgerHomes, LedgerRevoked>>
      /\ LedgerResults' = [LedgerResults EXCEPT ![a] = Plain(r.result)]
      /\ LedgerProcs' = [LedgerProcs EXCEPT ![a] = r.proc]
  BY <1>1, <1>2, <1>3, ChangedLedger
<1>5. LedgerResults[a] = Plain(run[a].result) /\ LedgerResults[a] # "none"
  BY <1>1 DEF LedgerResults, Plain, Types, RunRecords, Results, Terminal
<1>6. UNCHANGED LedgerResults
  BY <1>3, <1>4, <1>5 DEF LedgerResults
<1>7. UNCHANGED LedgerAnswers
  BY <1>1, SameAnswers
<1>8. Ledger!Gone(a)
  BY <1>1, <1>3, <1>4, <1>5, <1>6, <1>7
  DEF Ledger!Gone, LedgerTasks, LedgerFences, LedgerResults, LedgerHomes, LedgerProcs,
      LedgerRevoked, LedgerAnswers
<1> QED BY <1>8 DEF Ledger!Next
-----------------------------------------------------------------------------
(* The calls to the port.                                                   *)

LEMMA ReadResultLedger == ASSUME IInv, NEW c \in Controller, ReadResult(c) PROVE Ledger!Next
<1>1. Types /\ ctl[c].attempt \in Attempt /\ UNCHANGED <<epoch, highest, run, attempt>>
  BY Held DEF ReadResult, ControllerKnown, Calling, Issued, store, data, workers
<1>2. PICK obs \in {Reported(c, ctl[c].attempt), "unknown"} : Answer(c, obs)
  BY DEF ReadResult
<1>3. obs \in Observations
  <2>1. run[ctl[c].attempt].result \in Results
    BY <1>1 DEF Types, RunRecords
  <2>2. obs \in {"unknown", run[ctl[c].attempt].result} /\ obs # "absent"
    BY DEF Reported, Terminal
  <2> QED BY <2>1, <2>2 DEF Observations, Results
<1>4. Goes(c, "apply", obs, ctl[c].seen)
  BY <1>1, <1>2, <1>3, AnswerGoes
<1> QED BY <1>1, <1>4, TellLedger

LEMMA UnknownLedger ==
    ASSUME IInv, NEW c \in Controller, Answer(c, "unknown"), ctl[c].pc \in Calling \cup Sending,
           UNCHANGED <<epoch, highest, run, attempt>>
    PROVE  Ledger!Next
<1>1. Types /\ ctl[c].attempt \in Attempt
  BY Held DEF ControllerKnown, Issued
<1>2. Goes(c, "apply", "unknown", ctl[c].seen)
  BY <1>1, AnswerGoes DEF Observations
<1> QED BY <1>1, <1>2, TellLedger

\* A controller goes on without an answer.
LEMMA GotoForgets ==
    ASSUME Types, NEW c \in Controller, NEW pc \in Places \ {"apply"}, Goto(c, pc)
    PROVE  Ledger!Forgets(c) /\ ctl'[c].pc # "apply" /\ \A d \in Controller \ {c} : ctl'[d] = ctl[d]
<1>1. ctl'[c].pc # "apply" /\ \A d \in Controller \ {c} : ctl'[d] = ctl[d]
  BY GotoGoes DEF Goes
<1> QED BY <1>1, Forgotten

LEMMA PollLedger == ASSUME IInv, NEW c \in Controller, Poll(c) PROVE Ledger!Next
<1>1. /\ Types /\ ctl[c].attempt \in Issued /\ ctl[c].pc \in Calling
      /\ UNCHANGED <<epoch, run, attempt>>
  BY Held DEF Poll, ControllerKnown, Calling, store, data
<1>2. CASE Answer(c, "unknown") /\ UNCHANGED highest
  BY <1>1, <1>2, UnknownLedger
<1>3. CASE /\ attempt[ctl[c].attempt].fence >= highest
           /\ highest' = attempt[ctl[c].attempt].fence /\ Goto(c, "reading")
  <2>1. highest' \in highest .. epoch
    <3>1. attempt[ctl[c].attempt].fence \in 1 .. epoch
      BY <1>1 DEF IInv, AttemptKnown, Issued
    <3> QED BY <1>1, <1>3, <3>1, Constants DEF Types
  <2>2. Ledger!Forgets(c)
    BY <1>1, <1>3, GotoForgets DEF Places
  <2>3. UNCHANGED <<LedgerTasks, LedgerRuns>>
    BY <1>1, SameLedger DEF SameAttempts
  <2>4. Ledger!Fenced(c)
    BY <1>1, <2>1, <2>2, <2>3
    DEF Ledger!Fenced, Ledger!workers, LedgerRuns, LedgerTasks, LedgerFences, LedgerResults,
        LedgerHomes, LedgerProcs, LedgerRevoked
  <2> QED BY <2>4 DEF Ledger!Next
<1> QED BY <1>2, <1>3 DEF Poll

LEMMA CancelLedger == ASSUME IInv, NEW c \in Controller, Cancel(c) PROVE Ledger!Next
<1>0. PICK a \in Attempt : a = ctl[c].attempt
  BY Held DEF Cancel, ControllerKnown, Calling, Issued
<1>1. /\ Types /\ ctl[c].pc \in Calling
      /\ UNCHANGED <<epoch, highest, attempt>>
  BY Held DEF Cancel, Calling, store, data
<1>2. CASE Answer(c, "unknown") /\ UNCHANGED run
  BY <1>1, <1>2, UnknownLedger
<1>3. CASE Goto(c, "reading") /\ UNCHANGED run
  <2>1. ctl'[c].pc # "apply" /\ \A d \in Controller \ {c} : ctl'[d] = ctl[d]
    BY <1>1, <1>3, GotoForgets DEF Places
  <2> QED BY <1>1, <1>3, <2>1, ForgetLedger DEF SameAttempts
<1>4. CASE /\ run[a].result # "absent" /\ run[a].home = c
           /\ run' = [run EXCEPT ![a].cancelled = TRUE] /\ Goto(c, "closing")
  <2> DEFINE r == [run[a] EXCEPT !.cancelled = TRUE]
  <2>1. run' = [run EXCEPT ![a] = r]
    BY <1>1, <1>4 DEF Types
  <2>2. /\ r.result = run[a].result /\ r.home = run[a].home /\ r.cancelled = TRUE
        /\ r.proc = run[a].proc
    BY <1>1 DEF Types, RunRecords
  <2> HIDE DEF r
  <2>3. /\ UNCHANGED <<LedgerTasks, LedgerFences, LedgerHomes, LedgerProcs>>
        /\ LedgerResults' = [LedgerResults EXCEPT ![a] = Plain(r.result)]
    BY <1>1, <1>4, <2>1, <2>2, ChangedLedger
  <2>4. UNCHANGED LedgerResults
    BY <1>4, <2>2, <2>3 DEF LedgerResults
  <2>5. Ledger!Forgets(c)
    BY <1>1, <1>4, GotoForgets DEF Places
  <2>6. LedgerRevoked' = [LedgerRevoked EXCEPT ![a] = TRUE]
    <3>1. run'[a] = r /\ \A b \in Attempt \ {a} : run'[b] = run[b]
      BY <1>1, <2>1 DEF Types
    <3>2. LedgerRevoked'[a] = TRUE
      BY <1>1, <1>4, <2>2, <3>1, NoneAssumption DEF LedgerRevoked
    <3>3. \A b \in Attempt \ {a} : LedgerRevoked'[b] = LedgerRevoked[b]
      BY <3>1 DEF LedgerRevoked
    <3>4. /\ LedgerRevoked' = [b \in Attempt |-> LedgerRevoked'[b]]
          /\ LedgerRevoked = [b \in Attempt |-> LedgerRevoked[b]]
      BY DEF LedgerRevoked
    <3> QED BY <1>1, <3>2, <3>3, <3>4
  <2>7. LedgerHomes[a] = c
    BY <1>1, <1>4 DEF LedgerHomes
  <2>8. Ledger!Cancel(c, a)
    BY <1>1, <2>3, <2>4, <2>5, <2>6, <2>7
    DEF Ledger!Cancel, LedgerTasks, LedgerFences, LedgerResults, LedgerHomes, LedgerProcs,
        LedgerRevoked
  <2> QED BY <1>1, <2>8 DEF Ledger!Next
<1> QED BY <1>0, <1>2, <1>3, <1>4 DEF Cancel

LEMMA CloseTreeLedger == ASSUME IInv, NEW c \in Controller, CloseTree(c) PROVE Ledger!Next
<1>1. PICK a \in Attempt : a = ctl[c].attempt
  BY Held DEF CloseTree, ControllerKnown, Calling, Issued
<1>2. /\ Types /\ run[a].home = c /\ run[a].home # None /\ run[a].cancelled
      /\ run[a].result # "absent" /\ UNCHANGED <<epoch, highest, attempt>>
  BY <1>1, Held, NoneAssumption DEF CloseTree, ControllerKnown, store, data
<1>3. CASE run' = [run EXCEPT ![a] = TreeClosed(@)] /\ Answer(c, "cancelled")
  <2> DEFINE r == TreeClosed(run[a])
  <2>1. run' = [run EXCEPT ![a] = r]
    BY <1>2, <1>3 DEF Types
  <2>2. /\ r.result = "cancelled" /\ r.home = run[a].home /\ r.cancelled = run[a].cancelled
        /\ r.proc = (IF run[a].proc = "live" THEN "gone" ELSE run[a].proc)
    BY <1>2 DEF Types, RunRecords, TreeClosed
  <2>3. r.proc \notin {"live", "suspended"} /\ (r.proc = run[a].proc \/ r.proc = "gone")
    BY <1>2, <2>2 DEF Types, RunRecords
  <2> HIDE DEF r
  <2>4. Plain(r.result) = "cancelled" /\ "cancelled" \in Ledger!Recordable(a)
    BY <1>2, <2>2, MayRecord DEF Plain
  <2>5. Goes(c, "apply", "cancelled", ctl[c].seen)
    BY <1>2, <1>3, AnswerGoes DEF Observations, Terminal
  <2>6. Ledger!Says(run[a].home, a, Plain(r.result))
    BY <1>1, <1>2, <2>2, <2>5, Spoken DEF Ledger!Says
  <2> QED BY <1>2, <2>1, <2>2, <2>3, <2>4, <2>6, RecordLedger DEF Ledger!Says
<1>4. CASE /\ run[a].result # "cancelled" /\ run' = [run EXCEPT ![a].result = "unknown"]
           /\ Answer(c, "unknown")
  <2> DEFINE r == [run[a] EXCEPT !.result = "unknown"]
  <2>1. run' = [run EXCEPT ![a] = r]
    BY <1>2, <1>4 DEF Types
  <2>2. /\ r.result = "unknown" /\ r.home = run[a].home /\ r.cancelled = run[a].cancelled
        /\ r.proc = run[a].proc
    BY <1>2 DEF Types, RunRecords
  <2> HIDE DEF r
  <2>3. /\ Plain(r.result) = "unknown" /\ "unknown" \in Ledger!Recordable(a)
        /\ "unknown" \notin Ledger!Final
    BY <1>2, <1>4, <2>2, MayRecord DEF Plain, Ledger!Final
  <2>4. Goes(c, "apply", "unknown", ctl[c].seen)
    BY <1>2, <1>4, AnswerGoes DEF Observations
  <2>5. Ledger!Says(run[a].home, a, Plain(r.result))
    BY <1>1, <1>2, <2>2, <2>4, Spoken DEF Ledger!Says
  <2> QED BY <1>2, <2>1, <2>2, <2>3, <2>5, RecordLedger DEF Ledger!Says
<1> QED BY <1>1, <1>3, <1>4 DEF CloseTree

\* What keeps others out of a worktree in the ledger is busy for the port.
LEMMA KeepsBusy ==
    ASSUME IInv, NEW c \in Controller, NEW a \in Issued, NEW b \in Attempt \ {a},
           LedgerTasks[b].root = LedgerTasks[a].root, Ledger!Keeps(b, c, LedgerTasks[a].write)
    PROVE  LedgerBusy(c, a)
<1>1. a \in Attempt /\ attempt[a].task # 0
  BY DEF Issued
<1>2. LedgerResults[b] # "none"
  BY DEF Ledger!Keeps, LedgerResults
<1>3. run[b].result # "absent" /\ LedgerResults[b] = Plain(run[b].result)
  BY <1>2 DEF LedgerResults
<1>4. attempt[b].task # 0
  BY <1>3 DEF IInv, AttemptKnown
<1>5. /\ LedgerTasks[a].root = attempt[a].spec.root /\ LedgerTasks[a].write = attempt[a].spec.write
      /\ LedgerTasks[b].root = attempt[b].spec.root /\ LedgerTasks[b].write = attempt[b].spec.write
  BY <1>1, <1>4 DEF LedgerTasks
<1>6. /\ LedgerResults[b] \in Ledger!Final <=> run[b].result \in Terminal
      /\ LedgerResults[b] = "unknown" <=> run[b].result = "unknown"
      /\ LedgerResults[b] = "cancelled" <=> run[b].result = "cancelled"
  <2>1. run[b].result \in Results
    BY DEF IInv, Types, RunRecords
  <2> QED BY <1>3, <2>1 DEF Plain, Ledger!Final, Terminal, Results
<1>7. LedgerHomes[b] = run[b].home /\ (LedgerRevoked[b] <=> run[b].home # None /\ run[b].cancelled)
  BY DEF LedgerHomes, LedgerRevoked
<1> DEFINE foreign == run[b].home # c
           leaving == ~foreign /\ Cancelled(b)
<1>8. /\ LedgerResults[b] \notin Ledger!Final \/ leaving
      /\ \/ LedgerTasks[a].write \/ LedgerTasks[b].write \/ LedgerResults[b] = "unknown"
         \/ leaving \/ foreign
  BY <1>6, <1>7 DEF Ledger!Keeps, Ledger!Cancelling, Cancelled, LedgerResults, LedgerHomes,
                    LedgerRevoked, LedgerTasks
<1>9. attempt[b].spec.root = attempt[a].spec.root
  BY <1>5
<1> QED BY <1>3, <1>5, <1>6, <1>8, <1>9 DEF LedgerBusy

LEMMA DispatchLedger == ASSUME IInv, NEW c \in Controller, Dispatch(c) PROVE Ledger!Next
<1>0. PICK a \in Attempt : a = ctl[c].attempt
  BY Held DEF Dispatch, ControllerKnown, Sending, Issued
<1>1. /\ Types /\ a \in Issued /\ run[a].result = "absent" /\ ctl[c].pc \in Sending
      /\ UNCHANGED <<epoch, attempt>>
  BY <1>0, Held DEF Dispatch, ControllerKnown, Sending, store, data
<1>2. CASE Answer(c, "unknown") /\ UNCHANGED <<run, highest>>
  BY <1>1, <1>2, UnknownLedger
<1>3. CASE /\ attempt[a].fence >= highest /\ ~LedgerBusy(c, a) /\ highest' = attempt[a].fence
           /\ run' = [run EXCEPT ![a] = [Unregistered EXCEPT !.result = "running", !.home = c]]
           /\ Goto(c, "reading")
  <2>1. /\ run[a] = Unregistered /\ attempt[a].fence \in 1 .. epoch
    BY <1>1 DEF IInv, AttemptKnown, Issued
  <2>2. /\ run'[a].result = "running" /\ run'[a].home = c /\ run'[a].proc = "none"
        /\ run'[a].cancelled = FALSE /\ \A b \in Attempt \ {a} : run'[b] = run[b]
    BY <1>1, <1>3 DEF Types, Unregistered
  <2>3. highest' \in highest .. epoch
    BY <1>1, <1>3, <2>1, Constants DEF Types
  <2>4. LedgerResults' = [LedgerResults EXCEPT ![a] = "running"] /\ LedgerResults[a] = "none"
    <3>1. /\ LedgerResults'[a] = "running" /\ LedgerResults[a] = "none"
          /\ \A b \in Attempt \ {a} : LedgerResults'[b] = LedgerResults[b]
      BY <1>1, <2>2 DEF LedgerResults, Plain
    <3>2. /\ LedgerResults' = [b \in Attempt |-> LedgerResults'[b]]
          /\ LedgerResults = [b \in Attempt |-> LedgerResults[b]]
      BY DEF LedgerResults, Plain
    <3> QED BY <3>1, <3>2
  <2>5. LedgerFences' = [LedgerFences EXCEPT ![a] = highest']
    <3>1. /\ LedgerFences'[a] = highest'
          /\ \A b \in Attempt \ {a} : LedgerFences'[b] = LedgerFences[b]
      BY <1>1, <1>3, <2>2 DEF LedgerFences
    <3>2. /\ LedgerFences' = [b \in Attempt |-> LedgerFences'[b]]
          /\ LedgerFences = [b \in Attempt |-> LedgerFences[b]]
      BY DEF LedgerFences
    <3> QED BY <3>1, <3>2
  <2>6. LedgerHomes' = [LedgerHomes EXCEPT ![a] = c]
    <3>1. LedgerHomes'[a] = c /\ \A b \in Attempt \ {a} : LedgerHomes'[b] = LedgerHomes[b]
      BY <2>2 DEF LedgerHomes
    <3>2. /\ LedgerHomes' = [b \in Attempt |-> LedgerHomes'[b]]
          /\ LedgerHomes = [b \in Attempt |-> LedgerHomes[b]]
      BY DEF LedgerHomes
    <3> QED BY <3>1, <3>2
  <2>7. UNCHANGED <<LedgerProcs, LedgerRevoked, LedgerTasks>>
    <3>1. \A b \in Attempt : run'[b].proc = run[b].proc
      BY <2>1, <2>2 DEF Unregistered
    <3>2. \A b \in Attempt : LedgerRevoked'[b] = LedgerRevoked[b]
      <4>1. LedgerRevoked'[a] = FALSE /\ LedgerRevoked[a] = FALSE
        <5>1. run'[a].cancelled = FALSE /\ run[a].cancelled = FALSE
          BY <2>1, <2>2 DEF Unregistered
        <5> QED BY <5>1 DEF LedgerRevoked
      <4>2. \A b \in Attempt \ {a} : LedgerRevoked'[b] = LedgerRevoked[b]
        BY <2>2 DEF LedgerRevoked
      <4> QED BY <4>1, <4>2
    <3>3. UNCHANGED LedgerProcs
      BY <3>1 DEF LedgerProcs
    <3>4. UNCHANGED LedgerRevoked
      BY <3>2 DEF LedgerRevoked
    <3> QED BY <1>1, <3>3, <3>4, SameTasks
  <2>8. Ledger!Forgets(c)
    BY <1>1, <1>3, GotoForgets DEF Places
  <2>9. \A b \in Attempt \ {a} : LedgerTasks[b].root = LedgerTasks[a].root =>
            ~Ledger!Keeps(b, c, LedgerTasks[a].write)
    BY <1>1, <1>3, KeepsBusy
  <2>10. Ledger!Register(c, a)
    BY <1>1, <2>3, <2>4, <2>5, <2>6, <2>7, <2>8, <2>9
    DEF Ledger!Register, LedgerTasks, LedgerFences, LedgerResults, LedgerHomes, LedgerProcs,
        LedgerRevoked
  <2> QED BY <2>10 DEF Ledger!Next
<1> QED BY <1>0, <1>2, <1>3 DEF Dispatch
-----------------------------------------------------------------------------
(* What a supervisor does on its own.                                       *)

LEMMA IntentLedger == ASSUME IInv, NEW c \in Controller, Intent(c) PROVE Ledger!Next
<1>0. PICK t \in Task : t = Next_(c)
  BY NextTask DEF Intent, DispatchStep
<1>1. PICK a \in Attempt : a = Cardinality(Issued) + 1
  BY DEF Intent
<1>2. a \notin Issued
  <2>1. PICK n \in 0 .. MaxAttempts : Issued = 1 .. n
    BY DEF IInv, Persisted, Numbered
  <2>2. n \in Nat
    BY <2>1, Constants
  <2>3. Cardinality(Issued) = n
    BY <2>1, <2>2, NextAttempt
  <2> QED BY <1>1, <2>1, <2>2, <2>3
<1>3. /\ Types /\ run[a].result = "absent" /\ node[t].spec \in Spec_ /\ t # 0
      /\ ctl[c].pc = "dispatch" /\ UNCHANGED <<epoch, run, highest>>
  BY <1>0, <1>2, Constants
  DEF IInv, Persisted, NodeShape, AttemptKnown, Issued, Intent, Dispatchable, DispatchStep,
      store, workers
<1>4. /\ attempt' = [attempt EXCEPT ![a] = [task |-> t, spec |-> node[t].spec,
                                           fence |-> ctl[c].lease, state |-> "dispatching"]]
  BY <1>0, <1>1 DEF Intent
<1>5. /\ attempt'[a].task = t /\ attempt'[a].spec = node[t].spec
      /\ \A b \in Attempt \ {a} : attempt'[b] = attempt[b]
  BY <1>3, <1>4 DEF Types
<1>6. PICK new \in Ledger!Tasks : new = [root |-> node[t].spec.root, write |-> node[t].spec.write]
  BY <1>3 DEF Ledger!Tasks, Spec_
<1>7. LedgerTasks' = [LedgerTasks EXCEPT ![a] = new]
  <2>1. LedgerTasks'[a] = new /\ \A b \in Attempt \ {a} : LedgerTasks'[b] = LedgerTasks[b]
    BY <1>3, <1>5, <1>6 DEF LedgerTasks
  <2>2. /\ LedgerTasks' = [b \in Attempt |-> LedgerTasks'[b]]
        /\ LedgerTasks = [b \in Attempt |-> LedgerTasks[b]]
    BY DEF LedgerTasks
  <2> QED BY <2>1, <2>2
<1>8. UNCHANGED LedgerRuns
  <2>1. UNCHANGED LedgerFences
    BY <1>3, <1>5 DEF LedgerFences
  <2>2. UNCHANGED <<LedgerResults, LedgerHomes, LedgerProcs, LedgerRevoked>>
    BY <1>3 DEF LedgerResults, LedgerHomes, LedgerProcs, LedgerRevoked, Plain
  <2> QED BY <2>1, <2>2 DEF LedgerRuns
<1>9. UNCHANGED LedgerAnswers
  <2>1. ctl'[c].pc # "apply" /\ \A d \in Controller \ {c} : ctl'[d] = ctl[d]
    BY <1>3 DEF Intent, Types, ControllerRecords
  <2> QED BY <1>3, <2>1 DEF LedgerAnswers, Plain
<1>10. LedgerResults[a] = "none"
  BY <1>3 DEF LedgerResults
<1>11. Ledger!Plan(a)
  BY <1>3, <1>7, <1>8, <1>9, <1>10
  DEF Ledger!Plan, LedgerTasks, LedgerRuns, LedgerFences, LedgerResults, LedgerHomes,
      LedgerProcs, LedgerRevoked, LedgerAnswers
<1> QED BY <1>11 DEF Ledger!Next

LEMMA AcquireLedger == ASSUME IInv, NEW c \in Controller, Acquire(c) PROVE Ledger!Next
<1>1. /\ Types /\ ctl[c].pc # "apply" /\ epoch' = epoch + 1 /\ UNCHANGED <<highest, run, attempt>>
  BY DEF IInv, Acquire, data, workers
<1>2. UNCHANGED <<LedgerTasks, LedgerRuns>>
  BY <1>1, SameLedger DEF SameAttempts
<1>3. ctl'[c].pc # "apply" /\ \A d \in Controller \ {c} : ctl'[d] = ctl[d]
  BY <1>1 DEF Acquire, Types, Off
<1>4. UNCHANGED LedgerAnswers
  BY <1>1, <1>3 DEF LedgerAnswers, Plain
<1>5. Ledger!NewEpoch
  BY <1>1, <1>2, <1>4
  DEF Ledger!NewEpoch, Ledger!workers, LedgerTasks, LedgerRuns, LedgerFences, LedgerResults,
      LedgerHomes, LedgerProcs, LedgerRevoked, LedgerAnswers
<1> QED BY <1>5 DEF Ledger!Next

LEMMA CrashLedger == ASSUME IInv, NEW c \in Controller, Crash(c) PROVE Ledger!Next
<1>1. PICK survivors \in SUBSET {a \in Attempt : run[a].home = c /\ run[a].proc = "live"} :
          run' = [a \in Attempt |->
                    IF run[a].home # c THEN run[a]
                    ELSE [run[a] EXCEPT !.home = None,
                                        !.proc = IF a \in survivors THEN "live" ELSE "gone"]]
  BY DEF Crash
<1>2. /\ Types /\ UNCHANGED <<epoch, highest, attempt>> /\ ctl' = [ctl EXCEPT ![c] = Off]
      /\ \A a \in Attempt : run[a].home = c => run[a].result # "absent"
  <2>1. Types /\ UNCHANGED <<epoch, highest, attempt>> /\ ctl' = [ctl EXCEPT ![c] = Off]
    BY DEF IInv, Crash, store, data
  <2>2. ASSUME NEW a \in Attempt, run[a].home = c PROVE run[a].result # "absent"
    <3>1. run[a].result = "absent" => run[a] = Unregistered
      BY DEF IInv, AttemptKnown
    <3> QED BY <2>2, <3>1, NoneAssumption DEF Unregistered
  <2> QED BY <2>1, <2>2
<1>3. ASSUME NEW a \in Attempt
      PROVE  /\ run'[a].result = run[a].result /\ run'[a].cancelled = run[a].cancelled
             /\ run'[a].home = IF run[a].home = c THEN None ELSE run[a].home
             /\ run'[a].proc = IF run[a].home = c /\ a \notin survivors THEN "gone" ELSE run[a].proc
  <2>1. run[a] \in RunRecords
    BY <1>2 DEF Types
  <2>2. CASE run[a].home # c
    BY <1>1, <2>1, <2>2
  <2>3. CASE run[a].home = c
    BY <1>1, <2>1, <2>3 DEF RunRecords
  <2> QED BY <2>2, <2>3
<1>4. UNCHANGED <<LedgerTasks, LedgerFences, LedgerResults>>
  <2>1. UNCHANGED LedgerTasks
    BY <1>2, SameTasks
  <2>2. UNCHANGED LedgerFences
    BY <1>2, <1>3 DEF LedgerFences
  <2>3. UNCHANGED LedgerResults
    BY <1>3 DEF LedgerResults, Plain
  <2> QED BY <2>1, <2>2, <2>3
<1>5. LedgerHomes' = [a \in Attempt |-> IF LedgerHomes[a] = c THEN None ELSE LedgerHomes[a]]
  BY <1>3 DEF LedgerHomes
<1>6. LedgerRevoked' = [a \in Attempt |-> LedgerRevoked[a] /\ LedgerHomes[a] # c]
  <2>1. ASSUME NEW a \in Attempt
        PROVE  (run'[a].home # None /\ run'[a].cancelled)
                = ((run[a].home # None /\ run[a].cancelled) /\ run[a].home # c)
    BY <1>3
  <2> QED BY <2>1 DEF LedgerRevoked, LedgerHomes
<1>7. \E dead \in SUBSET {a \in Attempt : LedgerResults[a] # "none"} :
          LedgerProcs' = [a \in Attempt |-> IF a \in dead THEN "gone" ELSE LedgerProcs[a]]
  <2> DEFINE dead == {a \in Attempt : run[a].home = c /\ a \notin survivors}
  <2>1. \A a \in Attempt : run[a].result # "absent" => LedgerResults[a] # "none"
    <3>1. \A a \in Attempt : run[a].result \in Results
      BY <1>2 DEF Types, RunRecords
    <3> QED BY <3>1 DEF LedgerResults, Plain, Results, Terminal
  <2>2. dead \in SUBSET {a \in Attempt : LedgerResults[a] # "none"}
    BY <1>2, <2>1
  <2>3. LedgerProcs' = [a \in Attempt |-> IF a \in dead THEN "gone" ELSE LedgerProcs[a]]
    BY <1>3 DEF LedgerProcs
  <2> QED BY <2>2, <2>3
<1>8. Ledger!Forgets(c)
  <2>1. ctl'[c].pc # "apply" /\ \A d \in Controller \ {c} : ctl'[d] = ctl[d]
    BY <1>2 DEF Types, Off
  <2> QED BY <2>1, Forgotten
<1>9. Ledger!Crash(c)
  BY <1>2, <1>4, <1>5, <1>6, <1>7, <1>8
  DEF Ledger!Crash, LedgerTasks, LedgerFences, LedgerResults, LedgerHomes, LedgerProcs,
      LedgerRevoked
<1> QED BY <1>9 DEF Ledger!Next

\* It goes on, or ends, without an answer in hand.
Quietly(c) ==
    /\ SameAttempts /\ UNCHANGED <<epoch, highest, run>>
    /\ ctl'[c].pc # "apply" /\ \A d \in Controller \ {c} : ctl'[d] = ctl[d]

LEMMA RestQuietly ==
    ASSUME IInv, NEW c \in Controller, Rest(c), UNCHANGED <<epoch, highest, run, attempt>>
    PROVE  Quietly(c)
<1>1. Types
  BY DEF IInv
<1> QED BY <1>1 DEF Quietly, SameAttempts, Rest, Types, Off

LEMMA ResumeQuietly ==
    ASSUME IInv, NEW c \in Controller, NEW state, NEW n, Record(c, state, n)
    PROVE  Quietly(c)
<1>1. Types /\ ctl[c] \in ControllerRecords
  BY Held
<1>2. ctl[c].back # "apply"
  BY <1>1 DEF ControllerRecords
<1>3. ctl'[c].pc # "apply" /\ \A d \in Controller \ {c} : ctl'[d] = ctl[d]
  BY <1>1, <1>2 DEF Record, Resume, Types, ControllerRecords
<1>4. ASSUME NEW a \in Attempt
      PROVE  /\ attempt'[a].task = attempt[a].task /\ attempt'[a].spec = attempt[a].spec
             /\ attempt'[a].fence = attempt[a].fence
  <2>1. attempt[a] \in AttemptRecords
    BY <1>1 DEF Types
  <2> QED BY <1>1, <2>1 DEF Record, Types, AttemptRecords
<1> QED BY <1>3, <1>4 DEF Quietly, SameAttempts, Record, store, workers

LEMMA TickQuietly ==
    ASSUME IInv, NEW c \in Controller,
           \/ Tick(c, "tick") \/ Tick(c, "close") \/ Observe(c) \/ Abandon(c) \/ Observed(c)
           \/ Skip(c) \/ Block(c) \/ Send(c)
    PROVE  Quietly(c)
<1>1. Types /\ ctl[c] \in ControllerRecords
  BY Held
<1>2. SameAttempts /\ UNCHANGED <<epoch, highest, run>>
  BY DEF Tick, Observe, Abandon, Observed, Skip, Block, Send, SameAttempts, store, data, workers
<1>3. /\ ctl'[c].pc # "apply" /\ \A d \in Controller \ {c} : ctl'[d] = ctl[d]
  <2>1. CASE Tick(c, "tick") \/ Tick(c, "close")
    <3>1. PICK mode : Tick(c, mode)
      BY <2>1
    <3> QED BY <1>1, <3>1 DEF Tick, Types, ControllerRecords
  <2>2. CASE Observe(c)
    BY <1>1, <2>2 DEF Observe, Types, ControllerRecords
  <2>3. CASE Observed(c)
    BY <1>1, <2>3 DEF Observed, Types, ControllerRecords
  <2>4. CASE Abandon(c) \/ Skip(c) \/ Block(c)
    <3>1. ctl[c].pc # "apply" /\ \E todo : ctl' = [ctl EXCEPT ![c].todo = todo]
      BY <2>4 DEF Abandon, Skip, Block, DispatchStep
    <3> QED BY <1>1, <3>1 DEF Types, ControllerRecords
  <2>5. CASE Send(c)
    BY <1>1, <2>5 DEF Send, Goto, Types, ControllerRecords
  <2> QED BY <2>1, <2>2, <2>3, <2>4, <2>5
<1> QED BY <1>2, <1>3 DEF Quietly

LEMMA VerifyQuietly ==
    ASSUME IInv, NEW c \in Controller, VerifyStep(c)
    PROVE  Quietly(c)
<1>1. Types /\ ctl[c] \in ControllerRecords
  BY Held
<1>2. UNCHANGED <<epoch, highest, run, attempt>>
  BY DEF VerifyStep, VerifyExecute, VerifyAborted, VerifyFailed, VerifyReread, Accept,
         store, data, workers
<1>3. CASE VerifyExecute(c)
  <2>1. PICK outcome \in {"verified", "rejected", "aborted"} :
            ctl' = [ctl EXCEPT ![c].pc = outcome, ![c].seen = Content(ctl[c].task)]
    BY <1>3 DEF VerifyExecute
  <2>2. ctl'[c].pc # "apply" /\ \A d \in Controller \ {c} : ctl'[d] = ctl[d]
    BY <1>1, <2>1 DEF Types, ControllerRecords
  <2> QED BY <1>2, <2>2 DEF Quietly, SameAttempts
<1>4. CASE VerifyReread(c)
  <2>1. PICK pc \in {"accept", "rejected"} : Goto(c, pc)
    BY <1>4 DEF VerifyReread
  <2>2. ctl'[c].pc # "apply" /\ \A d \in Controller \ {c} : ctl'[d] = ctl[d]
    BY <1>1, <2>1 DEF Goto, Types, ControllerRecords
  <2> QED BY <1>2, <2>2 DEF Quietly, SameAttempts
<1>5. CASE VerifyAborted(c) \/ VerifyFailed(c) \/ Accept(c)
  BY <1>2, <1>5, RestQuietly DEF VerifyAborted, VerifyFailed, Accept
<1> QED BY <1>3, <1>4, <1>5 DEF VerifyStep

LEMMA ApplyQuietly == ASSUME IInv, NEW c \in Controller, ApplyStep(c) PROVE Quietly(c)
<1>1. \E state, n : Record(c, state, n)
  BY DEF ApplyStep, ApplyRunning, ApplyCandidate, ApplyFailure, Retire, StayUnknown
<1> QED BY <1>1, ResumeQuietly

LEMMA QuietLedger == ASSUME NEW c \in Controller, Quietly(c) PROVE Ledger!Next
  BY ForgetLedger DEF Quietly

LEMMA TickLedger == ASSUME IInv, NEW c \in Controller, TickStep(c) PROVE Ledger!Next
<1>1. CASE PortStep(c)
  BY <1>1, DispatchLedger, PollLedger, CancelLedger, CloseTreeLedger, ReadResultLedger DEF PortStep
<1>2. CASE ApplyStep(c)
  BY <1>2, ApplyQuietly, QuietLedger
<1>3. CASE VerifyStep(c)
  BY <1>3, VerifyQuietly, QuietLedger
<1>4. CASE Tick(c, "tick") \/ Observe(c) \/ Abandon(c) \/ Observed(c) \/ Skip(c) \/ Block(c) \/ Send(c)
  BY <1>4, TickQuietly, QuietLedger
<1>5. CASE KeepLease(c) \/ Scanned(c) \/ Raise(c)
  BY <1>5, RestQuietly, QuietLedger DEF KeepLease, Scanned, Raise, store, data, workers
<1>6. CASE Intent(c)
  BY <1>6, IntentLedger
<1> QED BY <1>1, <1>2, <1>3, <1>4, <1>5, <1>6 DEF TickStep

LEMMA DecisionLedger ==
    ASSUME IInv, NEW c \in Controller, Decision(c)
    PROVE  Ledger!Next \/ UNCHANGED Ledger!vars
<1>1. CASE Acquire(c) \/ Crash(c)
  BY <1>1, AcquireLedger, CrashLedger
<1>2. CASE Initialize(c) \/ Replan(c)
  BY <1>2, UnseenLedger DEF Initialize, Replan, SameAttempts, store, workers
<1>3. CASE Tick(c, "close")
  BY <1>3, TickQuietly, QuietLedger
<1>4. CASE Release(c)
  <2>1. Types
    BY DEF IInv
  <2>2. Quietly(c)
    BY <1>4, <2>1 DEF Quietly, SameAttempts, Release, Types, Off, data, workers
  <2> QED BY <2>2, QuietLedger
<1>5. ASSUME NEW t \in Task, NEW refresh \in BOOLEAN, VerifyRefused(c, t, refresh)
      PROVE  UNCHANGED Ledger!vars
  BY <1>5, UnseenLedger DEF VerifyRefused, SameAttempts, store, workers
<1>6. ASSUME NEW t \in Task, NEW refresh \in BOOLEAN, VerifyBegin(c, t, refresh)
      PROVE  Ledger!Next
  <2>1. Types
    BY DEF IInv
  <2>2. ctl'[c].pc # "apply" /\ \A d \in Controller \ {c} : ctl'[d] = ctl[d]
    BY <1>6, <2>1 DEF VerifyBegin, Types, ControllerRecords
  <2>3. Quietly(c)
    BY <1>6, <2>2 DEF Quietly, SameAttempts, VerifyBegin, store, workers
  <2> QED BY <2>3, QuietLedger
<1> QED BY <1>1, <1>2, <1>3, <1>4, <1>5, <1>6 DEF Decision

LEMMA LedgerStep == ASSUME IInv, [Next]_vars PROVE [Ledger!Next]_(Ledger!vars)
<1>1. ASSUME NEW c \in Controller, TickStep(c) \/ Decision(c)
      PROVE  Ledger!Next \/ UNCHANGED Ledger!vars
  BY <1>1, TickLedger, DecisionLedger
<1>2. ASSUME NEW a \in Attempt, WorkerStep(a) \/ Vanish(a) PROVE Ledger!Next
  BY <1>2, LaunchLedger, EndLedger, UnconfirmedLedger, VanishLedger DEF WorkerStep
<1>3. ASSUME \/ Expire \/ UNCHANGED vars \/ \E a \in Attempt : Write(a)
      PROVE  UNCHANGED Ledger!vars
  BY <1>3, UnseenLedger DEF Expire, Write, SameAttempts, vars, store, data, workers
<1> QED BY <1>1, <1>2, <1>3 DEF Next

LEMMA LedgerInit == ASSUME Init PROVE Ledger!Init
<1>1. LedgerTasks \in [Attempt -> Ledger!Tasks]
  BY DEF Init, LedgerTasks, NoTask, NoAttempt, Ledger!Tasks
<1>2. /\ LedgerFences = [a \in Attempt |-> 0] /\ LedgerResults = [a \in Attempt |-> "none"]
  BY DEF Init, LedgerFences, LedgerResults, Unregistered
<1>3. /\ LedgerHomes = [a \in Attempt |-> None] /\ LedgerProcs = [a \in Attempt |-> "none"]
  BY DEF Init, LedgerHomes, LedgerProcs, Unregistered
<1>4. LedgerRevoked = [a \in Attempt |-> FALSE]
  BY DEF Init, LedgerRevoked, Unregistered
<1>5. LedgerAnswers = [c \in Controller |-> Ledger!NoAnswer]
  BY DEF Init, LedgerAnswers, Off, Ledger!NoAnswer
<1> QED BY <1>1, <1>2, <1>3, <1>4, <1>5
  DEF Init, Ledger!Init, LedgerTasks, LedgerFences, LedgerResults, LedgerHomes, LedgerProcs,
      LedgerRevoked, LedgerAnswers
-----------------------------------------------------------------------------
(* What the ledger promises any number of controllers and worktrees follows *)
(* from its own steps.                                                      *)

\* Attempt a has a process, or may still get one.
MayBeRunning(a) ==
    \/ LedgerProcs[a] \in {"suspended", "live"}
    \/ LedgerProcs[a] = "none" /\ LedgerResults[a] = "running"

EndSaid(c, a) == LedgerAnswers[c].attempt = a /\ LedgerAnswers[c].state \in Ledger!Final

Processes == {"none", "suspended", "live", "gone"}

LedgerInv ==
    /\ LedgerProcs \in [Attempt -> Processes]
    /\ \A a \in Attempt :
          /\ LedgerResults[a] = "none" => LedgerProcs[a] = "none"
          /\ LedgerResults[a] \in Ledger!Final => ~MayBeRunning(a)
          /\ \A c \in Controller : EndSaid(c, a) => ~MayBeRunning(a) /\ LedgerResults[a] # "none"
    /\ \A a, b \in Attempt :
          /\ a # b /\ MayBeRunning(a) /\ MayBeRunning(b)
          /\ LedgerTasks[a].root = LedgerTasks[b].root
          => ~LedgerTasks[a].write /\ ~LedgerTasks[b].write

\* A step after which no more attempts run than before, for the same tasks.
LEMMA NoMoreRunning ==
    ASSUME LedgerInv, LedgerProcs' \in [Attempt -> Processes],
           \A a \in Attempt :
               /\ MayBeRunning(a)' => MayBeRunning(a) /\ LedgerTasks'[a] = LedgerTasks[a]
               /\ LedgerResults'[a] = "none" => LedgerProcs'[a] = "none"
               /\ LedgerResults'[a] \in Ledger!Final => ~MayBeRunning(a)'
               /\ \A c \in Controller : EndSaid(c, a)' => ~MayBeRunning(a)' /\ LedgerResults'[a] # "none"
    PROVE  LedgerInv'
  BY DEF LedgerInv

LEMMA SaysOne ==
    ASSUME NEW c \in Controller, NEW a, NEW state, Ledger!Says(c, a, state)
    PROVE  /\ LedgerAnswers'[c] = [attempt |-> a, state |-> state]
           /\ \A d \in Controller \ {c} : LedgerAnswers'[d] = LedgerAnswers[d]
<1>1. LedgerAnswers' = [LedgerAnswers EXCEPT ![c] = [attempt |-> a, state |-> state]]
  BY DEF Ledger!Says, LedgerAnswers
<1>2. DOMAIN LedgerAnswers = Controller
  BY DEF LedgerAnswers
<1>3. LedgerAnswers = [d \in Controller |-> LedgerAnswers[d]]
  BY <1>2 DEF LedgerAnswers
<1> QED BY <1>1, <1>3

LEMMA ForgetsOne ==
    ASSUME NEW c \in Controller, Ledger!Forgets(c)
    PROVE  \A a \in Attempt, d \in Controller : EndSaid(d, a)' => EndSaid(d, a)
<1>1. LedgerAnswers' = [LedgerAnswers EXCEPT ![c] = Ledger!NoAnswer]
  BY DEF Ledger!Forgets, LedgerAnswers
<1>2. LedgerAnswers = [d \in Controller |-> LedgerAnswers[d]]
  BY DEF LedgerAnswers
<1>3. /\ LedgerAnswers'[c] = Ledger!NoAnswer
      /\ \A d \in Controller \ {c} : LedgerAnswers'[d] = LedgerAnswers[d]
  BY <1>1, <1>2
<1> QED BY <1>3 DEF EndSaid, Ledger!NoAnswer, Ledger!Final

\* Nothing but answers, and only with what is recorded, changes.
LEMMA AnswersOnly ==
    ASSUME LedgerInv, UNCHANGED <<LedgerResults, LedgerProcs, LedgerTasks>>,
           \A a \in Attempt, c \in Controller :
               EndSaid(c, a)' => EndSaid(c, a) \/ LedgerResults[a] \in Ledger!Final
    PROVE  LedgerInv'
<1>1. \A a \in Attempt : MayBeRunning(a)' <=> MayBeRunning(a)
  BY DEF MayBeRunning
<1>2. \A a \in Attempt : LedgerResults[a] \in Ledger!Final => LedgerResults[a] # "none"
  BY DEF Ledger!Final
<1> QED BY <1>1, <1>2, NoMoreRunning DEF LedgerInv

LEMMA WorkersUntouched ==
    ASSUME UNCHANGED Ledger!workers
    PROVE  UNCHANGED <<LedgerResults, LedgerProcs, LedgerTasks>>
  BY DEF Ledger!workers, LedgerResults, LedgerProcs, LedgerTasks

LEMMA LedgerTellSafe ==
    ASSUME LedgerInv, NEW c \in Controller, NEW a \in Attempt, Ledger!Tell(c, a)
    PROVE  LedgerInv'
<1>1. UNCHANGED <<LedgerResults, LedgerProcs, LedgerTasks>>
  BY WorkersUntouched DEF Ledger!Tell
<1>2. PICK state \in {"unknown", LedgerResults[a]} : Ledger!Says(c, a, state)
  <2>1. Ledger!Says(c, a, "unknown") \/ Ledger!Says(c, a, LedgerResults[a])
    BY DEF Ledger!Tell, Ledger!Says, LedgerResults
  <2> QED BY <2>1 DEF Ledger!Says
<1>3. /\ LedgerAnswers'[c] = [attempt |-> a, state |-> state]
      /\ \A d \in Controller \ {c} : LedgerAnswers'[d] = LedgerAnswers[d]
  BY <1>2, SaysOne
<1>4. \A b \in Attempt, d \in Controller :
          EndSaid(d, b)' => EndSaid(d, b) \/ LedgerResults[b] \in Ledger!Final
  BY <1>3 DEF EndSaid, Ledger!Final
<1> QED BY <1>1, <1>4, AnswersOnly

LEMMA LedgerRegisterSafe ==
    ASSUME LedgerInv, NEW c \in Controller, NEW a \in Attempt, Ledger!Register(c, a)
    PROVE  LedgerInv'
<1>1. /\ LedgerResults' = [LedgerResults EXCEPT ![a] = "running"] /\ LedgerResults[a] = "none"
      /\ UNCHANGED <<LedgerProcs, LedgerTasks>>
  BY DEF Ledger!Register, LedgerResults, LedgerProcs, LedgerTasks
<1>2. /\ LedgerResults'[a] = "running"
      /\ \A b \in Attempt \ {a} : LedgerResults'[b] = LedgerResults[b]
  BY <1>1 DEF LedgerResults
<1>3. \A b \in Attempt, d \in Controller : EndSaid(d, b)' => EndSaid(d, b)
  BY ForgetsOne DEF Ledger!Register
<1>4. \A b \in Attempt \ {a} : MayBeRunning(b)' <=> MayBeRunning(b)
  BY <1>1, <1>2 DEF MayBeRunning
<1>5. ASSUME NEW b \in Attempt \ {a}, MayBeRunning(b), LedgerTasks[a].root = LedgerTasks[b].root
      PROVE  ~LedgerTasks[a].write /\ ~LedgerTasks[b].write
  <2>1. LedgerResults[b] # "none" /\ LedgerResults[b] \notin Ledger!Final
    BY <1>5 DEF LedgerInv, MayBeRunning
  <2>2. ~Ledger!Keeps(b, c, LedgerTasks[a].write)
    BY <1>5 DEF Ledger!Register, LedgerTasks
  <2> QED BY <2>1, <2>2 DEF Ledger!Keeps, LedgerTasks, LedgerResults
<1>6. \A b \in Attempt, d \in Controller : EndSaid(d, b)' => b # a
  BY <1>1, <1>3 DEF LedgerInv
<1>7. \A b \in Attempt :
         /\ LedgerResults'[b] = "none" => LedgerProcs'[b] = "none"
         /\ LedgerResults'[b] \in Ledger!Final => ~MayBeRunning(b)'
         /\ \A d \in Controller : EndSaid(d, b)' => ~MayBeRunning(b)' /\ LedgerResults'[b] # "none"
  BY <1>1, <1>2, <1>3, <1>4, <1>6 DEF LedgerInv, Ledger!Final
<1>8. \A b, d \in Attempt :
         /\ b # d /\ MayBeRunning(b)' /\ MayBeRunning(d)'
         /\ LedgerTasks'[b].root = LedgerTasks'[d].root
         => ~LedgerTasks'[b].write /\ ~LedgerTasks'[d].write
  BY <1>1, <1>4, <1>5 DEF LedgerInv
<1>9. LedgerProcs' \in [Attempt -> Processes]
  BY <1>1 DEF LedgerInv
<1> QED BY <1>7, <1>8, <1>9 DEF LedgerInv

LEMMA LedgerPlanSafe ==
    ASSUME LedgerInv, NEW a \in Attempt, Ledger!Plan(a)
    PROVE  LedgerInv'
<1>1. /\ LedgerResults[a] = "none" /\ UNCHANGED <<LedgerResults, LedgerProcs, LedgerAnswers>>
  BY DEF Ledger!Plan, LedgerResults, LedgerProcs, LedgerAnswers
<1>2. \A b \in Attempt \ {a} : LedgerTasks'[b] = LedgerTasks[b]
  <2>1. PICK new : LedgerTasks' = [LedgerTasks EXCEPT ![a] = new]
    BY DEF Ledger!Plan, LedgerTasks
  <2> QED BY <2>1 DEF LedgerTasks
<1>3. \A b \in Attempt : MayBeRunning(b)' <=> MayBeRunning(b)
  BY <1>1 DEF MayBeRunning
<1>4. ~MayBeRunning(a)
  BY <1>1 DEF LedgerInv, MayBeRunning
<1>5. \A b \in Attempt, c \in Controller : EndSaid(c, b)' <=> EndSaid(c, b)
  BY <1>1 DEF EndSaid
<1> QED BY <1>1, <1>2, <1>3, <1>4, <1>5, NoMoreRunning DEF LedgerInv

\* A process is made or started, or ends; the results stay.
LEMMA LedgerProcessSafe ==
    ASSUME LedgerInv, NEW a \in Attempt, Ledger!Create(a) \/ Ledger!Launch(a) \/ Ledger!Gone(a)
    PROVE  LedgerInv'
<1>1. UNCHANGED <<LedgerResults, LedgerTasks, LedgerAnswers>>
  BY DEF Ledger!Create, Ledger!Launch, Ledger!Gone, LedgerResults, LedgerTasks, LedgerAnswers
<1>2. PICK state \in {"suspended", "live", "gone"} :
          /\ LedgerProcs' = [LedgerProcs EXCEPT ![a] = state] /\ LedgerResults[a] # "none"
          /\ state # "gone" => MayBeRunning(a)
  BY DEF Ledger!Create, Ledger!Launch, Ledger!Gone, LedgerProcs, LedgerResults, MayBeRunning
<1>3. /\ LedgerProcs' \in [Attempt -> Processes]
      /\ LedgerProcs'[a] = state /\ \A b \in Attempt \ {a} : LedgerProcs'[b] = LedgerProcs[b]
  BY <1>2 DEF LedgerInv, Processes
<1>4. \A b \in Attempt : MayBeRunning(b)' => MayBeRunning(b)
  BY <1>1, <1>2, <1>3 DEF MayBeRunning
<1>5. \A b \in Attempt, c \in Controller : EndSaid(c, b)' <=> EndSaid(c, b)
  BY <1>1 DEF EndSaid
<1> QED BY <1>1, <1>2, <1>3, <1>4, <1>5, NoMoreRunning DEF LedgerInv

LEMMA LedgerRecordSafe ==
    ASSUME LedgerInv, NEW a \in Attempt, Ledger!Record(a)
    PROVE  LedgerInv'
<1>1. PICK state \in Ledger!Recordable(a) :
          /\ LedgerResults' = [LedgerResults EXCEPT ![a] = state]
          /\ LedgerProcs' \in {LedgerProcs, [LedgerProcs EXCEPT ![a] = "gone"]}
          /\ state \in Ledger!Final => LedgerProcs'[a] \notin {"suspended", "live"}
          /\ UNCHANGED LedgerAnswers \/ Ledger!Says(LedgerHomes[a], a, state)
  BY DEF Ledger!Record, LedgerResults, LedgerProcs, LedgerAnswers, LedgerHomes
<1>2. /\ LedgerResults'[a] = state
      /\ \A b \in Attempt \ {a} : LedgerResults'[b] = LedgerResults[b]
      /\ state \in {"candidate", "blocked", "failed", "cancelled", "unknown"}
  BY <1>1 DEF Ledger!Recordable, LedgerResults
<1>3. UNCHANGED LedgerTasks
  BY DEF Ledger!Record, LedgerTasks
<1>4. /\ LedgerProcs' \in [Attempt -> Processes]
      /\ \A b \in Attempt \ {a} : LedgerProcs'[b] = LedgerProcs[b]
      /\ LedgerProcs'[a] \in {LedgerProcs[a], "gone"}
  BY <1>1 DEF LedgerInv, Processes
<1>5. \A b \in Attempt : MayBeRunning(b)' => MayBeRunning(b)
  BY <1>2, <1>4 DEF MayBeRunning
<1>6. state \in Ledger!Final => ~MayBeRunning(a)'
  BY <1>1, <1>2 DEF MayBeRunning
<1>7. \A b \in Attempt, c \in Controller :
          EndSaid(c, b)' => EndSaid(c, b) \/ (b = a /\ state \in Ledger!Final)
  <2>1. CASE UNCHANGED LedgerAnswers
    BY <2>1 DEF EndSaid
  <2>2. CASE Ledger!Says(LedgerHomes[a], a, state)
    <3>1. LedgerAnswers' = [LedgerAnswers EXCEPT ![LedgerHomes[a]] = [attempt |-> a, state |-> state]]
      BY <2>2 DEF Ledger!Says, LedgerAnswers
    <3>2. LedgerAnswers = [d \in Controller |-> LedgerAnswers[d]]
      BY DEF LedgerAnswers
    <3>3. \A c \in Controller : LedgerAnswers'[c] \in {LedgerAnswers[c], [attempt |-> a, state |-> state]}
      BY <3>1, <3>2
    <3> QED BY <3>3 DEF EndSaid
  <2> QED BY <1>1, <2>1, <2>2
<1>8. \A b \in Attempt :
         /\ LedgerResults'[b] = "none" => LedgerProcs'[b] = "none"
         /\ LedgerResults'[b] \in Ledger!Final => ~MayBeRunning(b)'
  BY <1>2, <1>4, <1>5, <1>6 DEF LedgerInv
<1>9. \A b \in Attempt, c \in Controller :
         EndSaid(c, b)' => ~MayBeRunning(b)' /\ LedgerResults'[b] # "none"
  BY <1>2, <1>5, <1>6, <1>7 DEF LedgerInv
<1> QED BY <1>3, <1>4, <1>5, <1>8, <1>9, NoMoreRunning

LEMMA LedgerCrashSafe ==
    ASSUME LedgerInv, NEW c \in Controller, Ledger!Crash(c)
    PROVE  LedgerInv'
<1>1. UNCHANGED <<LedgerResults, LedgerTasks>>
  BY DEF Ledger!Crash, LedgerResults, LedgerTasks
<1>2. \A a \in Attempt, d \in Controller : EndSaid(d, a)' => EndSaid(d, a)
  BY ForgetsOne DEF Ledger!Crash
<1>3. PICK dead \in SUBSET {a \in Attempt : LedgerResults[a] # "none"} :
          LedgerProcs' = [a \in Attempt |-> IF a \in dead THEN "gone" ELSE LedgerProcs[a]]
  BY DEF Ledger!Crash, LedgerResults, LedgerProcs
<1>4. /\ LedgerProcs' \in [Attempt -> Processes]
      /\ \A a \in Attempt : /\ LedgerProcs'[a] \in {LedgerProcs[a], "gone"}
                            /\ LedgerResults[a] = "none" => LedgerProcs'[a] = LedgerProcs[a]
  BY <1>3 DEF LedgerInv, Processes
<1>5. \A a \in Attempt : MayBeRunning(a)' => MayBeRunning(a)
  BY <1>1, <1>4 DEF MayBeRunning
<1> QED BY <1>1, <1>2, <1>4, <1>5, NoMoreRunning DEF LedgerInv

LEMMA LedgerSafe == ASSUME LedgerInv, [Ledger!Next]_(Ledger!vars) PROVE LedgerInv'
<1>1. ASSUME UNCHANGED <<LedgerResults, LedgerProcs, LedgerTasks>>,
             UNCHANGED LedgerAnswers \/ \E c \in Controller : Ledger!Forgets(c)
      PROVE  LedgerInv'
  <2>1. UNCHANGED LedgerAnswers => \A a \in Attempt, c \in Controller : EndSaid(c, a)' => EndSaid(c, a)
    BY DEF EndSaid
  <2> QED BY <1>1, <2>1, ForgetsOne, AnswersOnly
<1>2. CASE UNCHANGED Ledger!vars
  BY <1>1, <1>2, WorkersUntouched DEF Ledger!vars, LedgerAnswers
<1>3. CASE Ledger!NewEpoch
  BY <1>1, <1>3, WorkersUntouched DEF Ledger!NewEpoch, LedgerAnswers
<1>4. ASSUME NEW c \in Controller, Ledger!Fenced(c) \/ Ledger!Forget(c)
      PROVE  LedgerInv'
  BY <1>1, <1>4, WorkersUntouched DEF Ledger!Fenced, Ledger!Forget, LedgerAnswers
<1>5. ASSUME NEW c \in Controller, NEW a \in Attempt, Ledger!Cancel(c, a)
      PROVE  LedgerInv'
  BY <1>1, <1>5 DEF Ledger!Cancel, LedgerResults, LedgerProcs, LedgerTasks
<1> QED BY <1>2, <1>3, <1>4, <1>5, LedgerCrashSafe, LedgerRegisterSafe, LedgerTellSafe,
           LedgerPlanSafe, LedgerProcessSafe, LedgerRecordSafe DEF Ledger!Next

LEMMA LedgerSafeInit == ASSUME Ledger!Init PROVE LedgerInv
<1>1. /\ LedgerResults = [a \in Attempt |-> "none"]
      /\ LedgerProcs = [a \in Attempt |-> "none"]
  BY DEF Ledger!Init, LedgerResults, LedgerProcs
<1>2. LedgerAnswers = [c \in Controller |-> Ledger!NoAnswer]
  BY DEF Ledger!Init, LedgerAnswers
<1>3. \A a \in Attempt, c \in Controller : ~EndSaid(c, a)
  BY <1>2 DEF EndSaid, Ledger!NoAnswer, Ledger!Final
<1> QED BY <1>1, <1>3 DEF LedgerInv, MayBeRunning, Ledger!Final, Processes

LEMMA PromisesFollow == LedgerInv => Ledger!EndsForGood /\ Ledger!WritersAlone
<1> SUFFICES ASSUME LedgerInv PROVE Ledger!EndsForGood /\ Ledger!WritersAlone
  OBVIOUS
<1>1. \A a \in Attempt : Ledger!MayRun(a) <=> MayBeRunning(a)
  BY DEF Ledger!MayRun, MayBeRunning, LedgerProcs, LedgerResults
<1>2. Ledger!EndsForGood
  <2> SUFFICES ASSUME NEW a \in Attempt,
                      (Ledger!Told(a) \cup {LedgerResults[a]}) \cap Ledger!Final # {}
               PROVE  ~MayBeRunning(a)
    BY <1>1 DEF Ledger!EndsForGood, LedgerResults
  <2>1. CASE LedgerResults[a] \in Ledger!Final
    BY <2>1 DEF LedgerInv
  <2>2. CASE \E c \in Controller : EndSaid(c, a)
    BY <2>2 DEF LedgerInv
  <2>3. Ledger!Told(a) = {LedgerAnswers[c].state : c \in {d \in Controller : LedgerAnswers[d].attempt = a}}
    BY DEF Ledger!Told, LedgerAnswers
  <2> QED BY <2>1, <2>2, <2>3 DEF EndSaid
<1>3. Ledger!WritersAlone
  BY <1>1 DEF Ledger!WritersAlone, LedgerInv, LedgerTasks
<1> QED BY <1>2, <1>3
-----------------------------------------------------------------------------
(* The theorems.                                                            *)

\* The persisted records, the ledger and the controllers keep their shapes
\* (supervisor.py, workers.py).
THEOREM TypeCorrect == SupervisorSpec => []TypeOK
<1>1. IInv => TypeOK
  BY DEF IInv, Types, TypeOK, NodeRecords, AttemptRecords, ControllerRecords, RunRecords,
         Checks, Places, Results
<1> QED BY <1>1, Invariant, PTL

LEMMA LatestIs ==
    ASSUME NEW t, NEW a, Last(a, t)
    PROVE  Latest(t) = a
<1>1. Attempt \subseteq Nat /\ AttemptsOf(t) \subseteq Attempt
  BY Constants DEF AttemptsOf, Issued
<1>2. a \in AttemptsOf(t) /\ \A b \in AttemptsOf(t) : a >= b
  BY <1>1 DEF Last
<1>3. ASSUME NEW b \in AttemptsOf(t), \A d \in AttemptsOf(t) : b >= d
      PROVE  b = a
  <2>1. a \in Nat /\ b \in Nat /\ b >= a /\ a >= b
    BY <1>1, <1>2, <1>3
  <2> QED BY <2>1
<1> QED BY <1>2, <1>3 DEF Latest, Max

\* _validate_data accepts what every mutation leaves behind, so that no requirement
\* is locked out by a document of its own supervisors (supervisor.py: _validate_data).
THEOREM AlwaysValid == SupervisorSpec => []PersistedValid
<1>1. ASSUME IInv PROVE PersistedValid
  <2>1. ASSUME NEW a \in Issued
        PROVE  attempt[a].state \in Live <=> node[attempt[a].task].active = a
    <3>1. a \in Attempt /\ a # 0 /\ attempt[a].task # 0 /\ attempt[a].task \in Task
      BY <1>1, Constants DEF Issued, IInv, Types, AttemptRecords
    <3>2. AttemptKnown(a) /\ NodeKnown(attempt[a].task)
      BY <1>1, <3>1 DEF IInv, Persisted
    <3> QED BY <3>1, <3>2 DEF AttemptKnown, NodeKnown
  <2>2. \A t \in DOMAIN plan : node[t].spec = plan[t] /\ node[t].status # "retired"
    BY <1>1 DEF IInv, Persisted, Planned
  <2>3. ASSUME NEW t \in Nodes
        PROVE  LET n == node[t]
               IN  /\ n.active # 0 <=> n.status \in Live
                   /\ \E initial \in InitialPlans :
                         t \in DOMAIN initial => n.retries <= initial[t].retry
                   /\ n.status = "accepted" => n.check = "passed"
                   /\ n.status = "verifying" => n.check = "running"
                   /\ n.check = "running" => n.status = "verifying"
                   /\ n.check = "unknown" => n.status = "blocked"
                   /\ n.status \in {"candidate_complete", "verifying", "accepted"} =>
                         attempt[Latest(t)].state = "candidate"
    <3>1. t \in Task /\ NodeShape(t) /\ NodeKnown(t) /\ plan # <<>>
      BY <1>1 DEF IInv, Persisted, Planned, Nodes
    <3>2. \E initial \in InitialPlans : t \in DOMAIN initial => node[t].retries <= initial[t].retry
      BY <1>1, <3>1 DEF IInv, Persisted, Granted
    <3>3. node[t].status \in Candidate \cup {"accepted"} => attempt[Latest(t)].state = "candidate"
      BY <3>1, LatestIs DEF NodeKnown, Left
    <3> QED BY <3>1, <3>2, <3>3 DEF NodeShape, Candidate
  <2> QED BY <2>1, <2>2, <2>3 DEF PersistedValid
<1> QED BY <1>1, Invariant, PTL

\* Whatever runs or may still start is the attempt its task waits for, through lost
\* leases, late dispatches, crashes and cancellations (supervisor.py: _observe, _retire).
THEOREM NobodyOrphaned == SupervisorSpec => []NoOrphan
<1>1. IInv => NoOrphan
  BY WaitedFor DEF NoOrphan
<1> QED BY <1>1, Invariant, PTL

\* Nobody writes beside another in a worktree, and a candidate stays there as it was
\* left until it has been verified (supervisor.py: _workspace_busy; workers.py: register).
THEOREM WorktreesKept == SupervisorSpec => []WorktreeKept
<1>1. IInv => ExclusiveWriters
  <2> SUFFICES ASSUME IInv, NEW a \in Attempt, NEW b \in Attempt, a # b,
                      run[a].proc = "live", run[b].proc = "live",
                      attempt[a].spec.root = attempt[b].spec.root
               PROVE  ~attempt[a].spec.write /\ ~attempt[b].spec.write
    BY DEF ExclusiveWriters
  <2>1. PICK t \in Task, u \in Task : t = attempt[a].task /\ u = attempt[b].task
    BY WaitedFor
  <2>2. node[t].active = a /\ node[u].active = b /\ a # 0 /\ b # 0
    BY <2>1, WaitedFor, Constants
  <2>3. attempt[a].spec = node[t].spec /\ attempt[b].spec = node[u].spec
    BY <2>2 DEF IInv, Persisted, NodeKnown
  <2>4. t # u
    BY <2>2
  <2> QED BY <2>2, <2>3, <2>4 DEF IInv, Persisted, Apart
<1>2. IInv => EvidenceUndisturbed
  BY DEF IInv, Persisted, NodeKnown, EvidenceUndisturbed, Nodes, Candidate
<1> QED BY <1>1, <1>2, Invariant, PTL DEF WorktreeKept

\* What is accepted was tested as its last worker left it and for its present task, and
\* work is built on accepted work only (supervisor.py: verify_task, _dispatch, replan).
THEOREM VerificationsCount == SupervisorSpec => []VerificationCounts
<1>1. IInv => AcceptedWasTested
  <2> SUFFICES ASSUME IInv, NEW t \in Nodes, node[t].status = "accepted"
               PROVE  /\ node[t].tested = node[t].candidate
                      /\ run[Latest(t)].result = "candidate"
                      /\ run[Latest(t)].content = node[t].candidate
                      /\ attempt[Latest(t)].spec = node[t].spec
    BY DEF AcceptedWasTested
  <2>1. t \in Task /\ NodeShape(t) /\ NodeKnown(t)
    BY DEF IInv, Persisted, Nodes
  <2>2. PICK a \in Attempt :
           /\ Last(a, t) /\ attempt[a].spec = node[t].spec
           /\ run[a].result = "candidate" /\ run[a].content = node[t].candidate
    BY <2>1 DEF NodeKnown, Left
  <2>3. Latest(t) = a
    BY <2>2, LatestIs
  <2> QED BY <2>1, <2>2, <2>3 DEF NodeShape
<1>2. IInv => DependenciesHold
  BY DEF IInv, Persisted, NodeKnown, DependenciesHold, Active, Nodes
<1> QED BY <1>1, <1>2, Invariant, PTL DEF VerificationCounts

\* No task is attempted more often than its retries and the replans pay for
\* (supervisor.py: _dispatch, _recover).
THEOREM AttemptsArePaidFor == SupervisorSpec => []AttemptsPaidFor
<1>1. IInv => AttemptsPaidFor
  <2> SUFFICES ASSUME IInv, NEW t \in Nodes
               PROVE  Cardinality(AttemptsOf(t)) <= 1 + node[t].retries + replans
    BY DEF AttemptsPaidFor
  <2>1. /\ t \in Task /\ Paid(t) /\ node[t].retries \in Nat /\ replans \in Nat
        /\ Cardinality(AttemptsOf(t)) \in Nat
    BY AttemptsFinite, Constants DEF IInv, Persisted, Nodes, Types, NodeRecords
  <2>2. (IF node[t].status \in {"absent", "pending"} THEN 0 ELSE 1) \in {0, 1}
    OBVIOUS
  <2> QED BY <2>1, <2>2 DEF Paid
<1> QED BY <1>1, Invariant, PTL

\* A candidate arises only when the answer of a worker is applied.
LEMMA TickArises ==
    ASSUME IInv, NEW c \in Controller, TickStep(c), ~ApplyCandidate(c)
    PROVE  NoneArises
<1>1. node' = node => NoneArises
  BY DEF NoneArises
<1>2. CASE PortStep(c)
  BY <1>1, <1>2 DEF PortStep, Dispatch, Poll, Cancel, CloseTree, ReadResult, data
<1>3. CASE ApplyStep(c)
  BY <1>3, ApplyRunningStep, ApplyFailureStep, RetireStep, StayUnknownStep DEF ApplyStep
<1>4. CASE VerifyAborted(c) \/ VerifyFailed(c) \/ Accept(c)
  BY <1>4, AbortedStep, FailedStep, AcceptStep
<1>5. CASE VerifyExecute(c) \/ VerifyReread(c)
  BY <1>1, <1>5 DEF VerifyExecute, VerifyReread, data
<1>6. CASE Tick(c, "tick") \/ Observe(c) \/ Observed(c) \/ KeepLease(c)
  BY <1>1, <1>6 DEF Tick, Observe, Observed, KeepLease, data
<1>7. CASE Skip(c) \/ Scanned(c) \/ Send(c) \/ Raise(c)
  BY <1>1, <1>7 DEF Skip, Scanned, Send, Raise, data
<1>8. CASE Abandon(c) \/ Block(c) \/ Intent(c)
  BY <1>8, AbandonStep, BlockStep, IntentStep
<1> QED BY <1>2, <1>3, <1>4, <1>5, <1>6, <1>7, <1>8 DEF TickStep, VerifyStep

LEMMA OtherArises ==
    ASSUME IInv, Next, \A c \in Controller : ~TickStep(c)
    PROVE  NoneArises
<1>1. node' = node => NoneArises
  BY DEF NoneArises
<1>2. ASSUME NEW c \in Controller, Decision(c) PROVE NoneArises
  <2>1. CASE Acquire(c) \/ Crash(c) \/ Tick(c, "close") \/ Release(c)
    <3>1. UNCHANGED data
      BY <2>1, Zenon DEF Acquire, Crash, Tick, Release
    <3> QED BY <1>1, <3>1 DEF data
  <2>2. CASE Initialize(c) \/ Replan(c)
    BY <2>2, InitializeStep, ReplanStep
  <2>3. CASE \E t \in Task, refresh \in BOOLEAN :
                VerifyRefused(c, t, refresh) \/ VerifyBegin(c, t, refresh)
    BY <2>3, RefusedStep, BeginStep
  <2> QED BY <1>2, <2>1, <2>2, <2>3 DEF Decision
<1>3. ASSUME NEW a \in Attempt, WorkerStep(a) \/ Write(a) \/ Vanish(a) PROVE NoneArises
  <2>1. UNCHANGED data
    BY <1>3, Zenon DEF WorkerStep, Launch, End, EndUnconfirmed, Write, Vanish
  <2> QED BY <1>1, <2>1 DEF data
<1>4. CASE Expire
  BY <1>1, <1>4 DEF Expire, data
<1> QED BY <1>2, <1>3, <1>4 DEF Next

\* A candidate is taken over only under the epoch that dispatched its worker, after that
\* worker has ended and never after a cancellation (supervisor.py: _observe, _apply).
THEOREM OnlyCurrent == SupervisorSpec => OnlyCurrentResults
<1> DEFINE Current ==
      \A t \in Task :
          node'[t].status = "candidate_complete" /\ node[t].status # "candidate_complete" =>
              LET a == node[t].active
              IN  /\ a # 0 /\ valid /\ attempt[a].fence = epoch
                  /\ run[a].proc = "gone" /\ ~run[a].cancelled
<1>1. IInv /\ [Next]_vars => [Current]_vars
  <2> SUFFICES ASSUME IInv, Next, NEW t \in Task, node'[t].status = "candidate_complete",
                      node[t].status # "candidate_complete"
               PROVE  /\ node[t].active # 0 /\ valid /\ attempt[node[t].active].fence = epoch
                      /\ run[node[t].active].proc = "gone" /\ ~run[node[t].active].cancelled
    OBVIOUS
  <2>1. PICK c \in Controller : ApplyCandidate(c)
    <3>1. ~NoneArises
      BY DEF NoneArises
    <3> QED BY <3>1, TickArises, OtherArises
  <2>2. /\ Answered(c) /\ Applying(c) /\ ctl[c].obs = "candidate" /\ valid /\ ctl[c].lease = epoch
        /\ attempt[ctl[c].attempt].fence = ctl[c].lease
    BY <2>1 DEF ApplyCandidate, Applying, Answered, Holds, Cancelling, Stale
  <2>3. PICK u \in Task, a \in Attempt :
           u = ctl[c].task /\ a = ctl[c].attempt /\ node[u].active = a
    BY <2>2, AnsweredFor
  <2>4. u = t
    <3>1. node \in [Task -> NodeRecords]
      BY DEF IInv, Types
    <3>2. \E n : node' = [node EXCEPT ![u] = n]
      BY <2>1, <2>3 DEF ApplyCandidate, Record
    <3> QED BY <3>1, <3>2
  <2>5. run[a].result = "candidate" /\ ~run[a].cancelled
    BY <2>2, <2>3, OwnAnswer DEF Terminal
  <2>6. run[a].proc = "gone"
    BY <2>5 DEF IInv, AttemptKnown
  <2>7. a # 0
    BY Constants
  <2> QED BY <2>2, <2>3, <2>4, <2>5, <2>6, <2>7
<1> QED BY <1>1, Invariant, PTL DEF SupervisorSpec, OnlyCurrentResults

\* The supervisors, of any epochs and with everything that may fail, rely on nothing
\* that the worker ledger does not promise (supervisor.py; workers.py: RuntimeWorkerPort).
THEOREM PortIsLedger == SupervisorSpec => LedgerSpec
<1>1. Init => Ledger!Init
  BY LedgerInit
<1>2. IInv /\ [Next]_vars => [Ledger!Next]_(Ledger!vars)
  BY LedgerStep
<1> QED BY <1>1, <1>2, Invariant, PTL DEF SupervisorSpec, LedgerSpec, Ledger!Spec

\* Whatever takes only the steps of the ledger keeps its promises to any number of
\* controllers: an end that is recorded, or that was told to one of them, is one for
\* good, and whoever may write in a worktree runs there alone (ports.py:
\* WorkerExecutionPort).
THEOREM LedgerKeepsPromises == LedgerSpec => [](Ledger!EndsForGood /\ Ledger!WritersAlone)
<1> QED BY LedgerSafeInit, LedgerSafe, PromisesFollow, PTL DEF LedgerSpec, Ledger!Spec

\* So what the supervisors rely on keeps them: an end that any controller was told is
\* one for good, and a worker that may write runs alone in its worktree, or may start
\* there alone, through crashes and takeovers (supervisor.py: _observe, _dispatch).
THEOREM WorkersApart == SupervisorSpec => [](Ledger!EndsForGood /\ Ledger!WritersAlone)
<1> QED BY PortIsLedger, LedgerKeepsPromises, PTL
=============================================================================
