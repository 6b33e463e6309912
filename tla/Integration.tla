----------------------------- MODULE Integration -----------------------------
(***************************************************************************)
(* The merge queue: IntegrationService (integration/service.py) over its   *)
(* Git adapter (integration/git_integration.py) and the review authority   *)
(* (integration/authority.py).                                             *)
(*                                                                         *)
(* Every operation holds the repository's writer lock, so there is one     *)
(* operation at a time; it works on a copy of a request's journal and      *)
(* saves it again and again.  In between, a save or any other call may     *)
(* fail, the process may die, others move main, and the facts change that  *)
(* the request was queued with.  A request stands for its merge candidate, *)
(* which its journal determines.                                           *)
(***************************************************************************)
EXTENDS Naturals, Sequences

CONSTANTS
    Request,       \* merge requests, with requirements of their own
    Base,          \* where main is in the beginning
    Foreign,       \* a commit of somebody else
    None,          \* no journal, no request, no lease yet
    External,      \* requests whose approval is kept by a task provider
    Versions,      \* bound: versions of the facts about a requirement
    MaxAttempts,   \* bound: post-merge verifications of a request
    MaxDrift,      \* bound: changes of main and of the facts by others
    MaxFaults      \* bound: crashes and failing calls

ASSUME RequestAssumption == {Base, Foreign, None} \cap Request = {} /\ Base # Foreign
                            /\ None \notin {Base, Foreign} /\ External \subseteq Request
ASSUME BoundsAssumption == {Versions, MaxAttempts, MaxDrift, MaxFaults} \subseteq Nat
                           /\ Versions > 0 /\ MaxAttempts > 0

VARIABLES
    disk,       \* disk[r]: the journal file of r
    op,         \* the operation that holds the writer lock
    main,       \* refs/heads/main
    marked,     \* candidates that have a publication ref
    base,       \* base[r]: the base of the Task leases of r's requirement
    snapshot,   \* snapshot[r]: version of its accepted Tasks, 0 if they are not
    review,     \* review[r]: version of the facts that approve it, 0 if none do
    sent,       \* sent[r][k]: times that verification k of r was sent
    open,       \* open[r]: verifications of r that were sent and never answered
    landed,     \* landed[r]: times that main was moved to r by a publication
    drift,      \* changes by others so far
    faults      \* faults so far

facts == <<base, snapshot, review>>
history == <<sent, open, landed>>
git == <<main, marked>>
vars == <<disk, op, git, facts, history, drift, faults>>

Commit == {Base, Foreign} \cup Request
Version == 0 .. Versions

Converged == {"completed", "rejected"}
Publishing == {"publishing", "published", "post_verification_ready", "post_verification_running"}
State == Converged \cup Publishing \cup
         {"created", "integration_verification_running", "integration_verification_returned",
          "verified", "authorized", "waiting_review", "reauthorizing", "recovery_required"}

Verdict == {"none", "passed", "failed"}
Receipt == {"none", "merged", "recovery_required"}
Attempt == [execution : {"not_started", "running", "unknown", "returned"},
            verdict : Verdict, receipt : Receipt]
Journal == [state : State, expected : Commit, snapshot : Version \ {0}, verification : Verdict,
            review : Version, attempts : Seq(Attempt), receipt : Receipt]

ASSUME JournalAssumption == None \notin Journal

NotStarted == [execution |-> "not_started", verdict |-> "none", receipt |-> "none"]
Created(r) == [state |-> "created", expected |-> base[r], snapshot |-> snapshot[r],
               verification |-> "none", review |-> 0, attempts |-> <<>>, receipt |-> "none"]

Place == {"idle", "saving", "recover", "drifted", "accept", "prepare", "execute", "returning", "check",
          "review", "publish", "facts", "announce", "guard", "transaction", "attempt", "post",
          "judge", "rejecting", "awaiting"}
Operation == [pc : Place, request : Request \cup {None}, journal : Journal \cup {None},
              next : Place, handled : BOOLEAN]
Idle == [pc |-> "idle", request |-> None, journal |-> None, next |-> "idle", handled |-> FALSE]

Init ==
    /\ disk = [r \in Request |-> None]
    /\ op = Idle
    /\ main = Base
    /\ marked = {}
    /\ base = [r \in Request |-> None]
    /\ snapshot = [r \in Request |-> 0]
    /\ review = [r \in Request |-> 0]
    /\ sent = [r \in Request |-> [k \in 0 .. MaxAttempts |-> 0]]
    /\ open = [r \in Request |-> 0]
    /\ landed = [r \in Request |-> 0]
    /\ drift = 0
    /\ faults = 0

Last(j) == j.attempts[Len(j.attempts)]
WithLast(j, a) == [j EXCEPT !.attempts[Len(j.attempts)] = a]

Goto(pc) == op' = [op EXCEPT !.pc = pc]
\* The operation has changed its journal and is about to save it.
SaveAs(j, next) == op' = [op EXCEPT !.pc = "saving", !.journal = j, !.next = next]

\* _receipt, for the last attempt.
WithReceipt(j, receipt) ==
    [WithLast(j, [Last(j) EXCEPT !.receipt = receipt]) EXCEPT
        !.receipt = receipt,
        !.state = IF receipt = "merged" THEN "completed" ELSE "recovery_required"]

\* The except branch of _run_post_verification.
PostFailed(j) ==
    LET a == Last(j)
    IN  WithReceipt(WithLast(j, [a EXCEPT !.execution = IF @ = "running" THEN "unknown" ELSE @]),
                    "recovery_required")

\* Inside the try block of _run_post_verification, up to its own receipt.
InPost(o) == o.pc \in {"post", "judge"} \/ o.journal.state \in {"post_verification_running", "completed"}

\* An exception goes to that branch, to the one of _continue, or to the caller.
Thrown(handler) ==
    IF InPost(op) THEN SaveAs(PostFailed(op.journal), "idle")
    ELSE IF op.handled THEN Goto(handler)
    ELSE op' = Idle

Raised == Thrown("rejecting")
-----------------------------------------------------------------------------
(* What the checks look at.                                                 *)

\* _accepted.
Accepted(r, expected) == snapshot[r] # 0 /\ base[r] = expected
\* ... and still what was queued.
Unchanged(r, j) == Accepted(r, j.expected) /\ snapshot[r] = j.snapshot
\* _require_published.
Published(r) == r \in marked /\ main = r
Queued == {s \in Request : disk[s] # None}
\* _queue_available.
QueueAvailable(r) == \A s \in Queued \ {r} : disk[s].state \in Converged

At(pc) == op.pc = pc
-----------------------------------------------------------------------------
(* The operations, as they begin.                                           *)

\* integrate, for a request it does not know.
Integrate(r) ==
    /\ At("idle")
    /\ disk[r] = None /\ base[r] # None
    /\ QueueAvailable(r)
    /\ Accepted(r, main)
    /\ disk' = [disk EXCEPT ![r] = Created(r)]
    /\ op' = [Idle EXCEPT !.pc = "accept", !.request = r, !.journal = Created(r), !.handled = TRUE]
    /\ UNCHANGED <<git, facts, history, drift, faults>>

\* _continue: an answer that is known is given again and nothing happens.
\* What follows the post-merge verification is not inside its try block.
Continue(r) ==
    /\ At("idle")
    /\ disk[r] # None
    /\ LET j == disk[r]
           pc == IF j.state \in {"post_verification_ready", "post_verification_running"} THEN "post"
                 ELSE IF j.state = "publishing" THEN "recover"
                 ELSE IF j.state = "published" THEN "publish"
                 ELSE "accept"
       IN  /\ j.receipt = "none"
           /\ j.state \notin {"integration_verification_running", "rejected"}
           /\ op' = [Idle EXCEPT !.pc = pc, !.request = r, !.journal = j, !.handled = (pc # "post")]
    /\ UNCHANGED <<disk, git, facts, history, drift, faults>>

NewAttempt(j) == [j EXCEPT !.attempts = Append(@, NotStarted), !.receipt = "none",
                           !.state = "post_verification_ready"]

\* Mutant of KnownExecution: what is not running is known.
KnownUnlessRunning(a) == a.execution # "running"

\* An attempt whose execution is unknown is not followed by another one.
KnownExecution(a) == a.execution \in {"not_started", "returned"}

\* recover_post_merge with a new ID; with a known one it is Continue or nothing.
RecoverPostMerge(r) ==
    /\ At("idle")
    /\ disk[r] # None
    /\ LET j == disk[r]
       IN  /\ j.receipt = "recovery_required"
           /\ KnownExecution(Last(j))
           /\ Published(r)
           /\ Len(j.attempts) < MaxAttempts
           /\ op' = [Idle EXCEPT !.pc = "saving", !.request = r, !.journal = NewAttempt(j),
                                 !.next = "post"]
    /\ UNCHANGED <<disk, git, facts, history, drift, faults>>
-----------------------------------------------------------------------------
(* Saving, and the handler of _continue.                                    *)

Save ==
    /\ At("saving")
    /\ disk' = [disk EXCEPT ![op.request] = op.journal]
    /\ IF op.next = "idle" THEN op' = Idle ELSE Goto(op.next)
    /\ UNCHANGED <<git, facts, history, drift, faults>>

\* An error before or after the file was replaced.
SaveFails ==
    /\ At("saving")
    /\ faults < MaxFaults /\ faults' = faults + 1
    /\ \/ UNCHANGED disk
       \/ disk' = [disk EXCEPT ![op.request] = op.journal]
    /\ Raised
    /\ UNCHANGED <<git, facts, history, drift>>

\* Mutant of Kept: the intent is taken back after an error.
KeptOncePublished(state) == state \in (Publishing \ {"publishing"}) \cup {"integration_verification_running"}

\* States in which _continue leaves the journal as it is.
Kept(state) == state \in Publishing \cup {"integration_verification_running"}

Handle ==
    /\ op.pc \in {"rejecting", "awaiting"}
    /\ LET state == IF At("awaiting") THEN "waiting_review" ELSE "rejected"
       IN  IF Kept(op.journal.state) THEN UNCHANGED disk
           ELSE disk' = [disk EXCEPT ![op.request] = [op.journal EXCEPT !.state = state]]
    /\ op' = Idle
    /\ UNCHANGED <<git, facts, history, drift, faults>>
-----------------------------------------------------------------------------
(* The steps of an operation.                                               *)

\* A step that only changes the operation.
Step(pc) == At(pc) /\ UNCHANGED <<disk, git, facts, history, drift, faults>>

\* Mutant of Recover: without the ref nothing is known.
RecoverObserved ==
    /\ Step("recover")
    /\ IF Published(op.request) THEN Goto("publish") ELSE Raised

\* _recover_publication: the ref tells whether the transaction took place.
Recover ==
    /\ Step("recover")
    /\ IF op.request \in marked
       THEN IF main = op.request THEN Goto("publish") ELSE Raised
       ELSE SaveAs([op.journal EXCEPT !.state = "reauthorizing"],
                   IF main = op.journal.expected THEN "accept" ELSE "drifted")

Drifted == Step("drifted") /\ Raised

\* _prepare.
Accept ==
    /\ Step("accept")
    /\ IF Unchanged(op.request, op.journal) THEN Goto("prepare") ELSE Raised

Prepare ==
    /\ Step("prepare")
    /\ IF main # op.journal.expected THEN Raised
       ELSE IF op.journal.verification # "none" THEN Goto("check")
       ELSE SaveAs([op.journal EXCEPT !.state = "integration_verification_running"], "execute")

\* The integration verification is number 0, the attempts follow.
Execute ==
    /\ At("execute")
    /\ sent' = [sent EXCEPT ![op.request][Len(op.journal.attempts)] = @ + 1]
    /\ open' = [open EXCEPT ![op.request] = @ + 1]
    /\ Goto("returning")
    /\ UNCHANGED <<disk, git, facts, landed, drift, faults>>

Returned(verdict) ==
    /\ At("returning")
    /\ open' = [open EXCEPT ![op.request] = @ - 1]
    /\ IF op.journal.attempts = <<>>
       THEN SaveAs([op.journal EXCEPT !.state = "integration_verification_returned",
                                      !.verification = verdict], "check")
       ELSE SaveAs(WithLast(op.journal, [Last(op.journal) EXCEPT !.execution = "returned",
                                                                 !.verdict = verdict]), "judge")
    /\ UNCHANGED <<disk, git, facts, sent, landed, drift, faults>>

\* Mutant of Check: what was returned is enough.
CheckReturned == Step("check") /\ SaveAs([op.journal EXCEPT !.state = "verified"], "review")

Check ==
    /\ Step("check")
    /\ IF op.journal.verification = "passed"
       THEN SaveAs([op.journal EXCEPT !.state = "verified"], "review")
       ELSE Raised

\* Without an approval the request waits for one, or is rejected.
Review ==
    /\ Step("review")
    /\ IF review[op.request] # 0
       THEN SaveAs([op.journal EXCEPT !.state = "authorized", !.review = review[op.request]], "publish")
       ELSE Thrown("awaiting") \/ Raised

\* _publish_and_verify.
Publish ==
    LET r == op.request
        j == op.journal
    IN  /\ Step("publish")
        /\ IF main = j.expected
           THEN IF j.state = "published" \/ r \in marked THEN Raised ELSE Goto("facts")
           ELSE IF ~Published(r) \/ j.state \notin {"publishing", "published"} THEN Raised
           ELSE SaveAs([j EXCEPT !.state = "published"], "attempt")

CheckFacts ==
    /\ Step("facts")
    /\ IF ~Unchanged(op.request, op.journal) THEN Raised
       ELSE IF review[op.request] = op.journal.review THEN Goto("announce")
       ELSE Raised \/ (review[op.request] = 0 /\ Thrown("awaiting"))

Announce ==
    /\ Step("announce")
    /\ IF main = op.journal.expected
       THEN SaveAs([op.journal EXCEPT !.state = "publishing"], "guard")
       ELSE Raised

\* From here to the transaction the guard keeps the facts as they are, but for
\* an approval that is not kept here.
Guarded(r) == At("transaction") /\ op.request = r

\* Mutant of GuardHolds: the facts were checked before the intent was saved.
GuardHoldsMain(r, j) == main = j.expected

GuardHolds(r, j) == Unchanged(r, j) /\ review[r] = j.review /\ main = j.expected

Guard ==
    /\ Step("guard")
    /\ IF GuardHolds(op.request, op.journal) THEN Goto("transaction") ELSE Raised

\* One native transaction: compare and swap of main, creation of the marker.
Swapped(r, j) ==
    /\ main = j.expected /\ r \notin marked
    /\ main' = r
    /\ marked' = marked \cup {r}
    /\ landed' = [landed EXCEPT ![r] = @ + 1]

Transaction ==
    /\ At("transaction")
    /\ \/ /\ Swapped(op.request, op.journal)
          /\ SaveAs([op.journal EXCEPT !.state = "published"], "attempt")
       \/ /\ main # op.journal.expected \/ op.request \in marked
          /\ Raised
          /\ UNCHANGED <<git, landed>>
    /\ UNCHANGED <<disk, facts, sent, open, drift, faults>>

\* The transaction takes place and its caller sees an error.
TransactionUnseen ==
    /\ At("transaction")
    /\ faults < MaxFaults /\ faults' = faults + 1
    /\ Swapped(op.request, op.journal)
    /\ Raised
    /\ UNCHANGED <<disk, facts, sent, open, drift>>

StartAttempt == Step("attempt") /\ SaveAs(NewAttempt(op.journal), "post")

\* _run_post_verification.
RunPost ==
    LET a == Last(op.journal)
    IN  /\ Step("post")
        /\ IF ~KnownExecution(a)
           THEN SaveAs(WithReceipt(WithLast(op.journal, [a EXCEPT !.execution = "unknown"]),
                                   "recovery_required"), "idle")
           ELSE IF ~Published(op.request) THEN Raised
           ELSE IF a.execution = "returned" THEN Goto("judge")
           ELSE SaveAs([WithLast(op.journal, [a EXCEPT !.execution = "running"]) EXCEPT
                           !.state = "post_verification_running"], "execute")

\* Mutant of Judge: what was returned is enough.
JudgeReturned ==
    /\ Step("judge")
    /\ IF main = op.request THEN SaveAs(WithReceipt(op.journal, "merged"), "idle") ELSE Raised

Judge ==
    /\ Step("judge")
    /\ IF Last(op.journal).verdict = "passed" /\ main = op.request
       THEN SaveAs(WithReceipt(op.journal, "merged"), "idle")
       ELSE Raised

\* Any call may fail, and evidence and approvals expire.  A review that is not
\* available is waited for.
Fault ==
    /\ op.pc \in Place \ {"idle", "saving", "drifted", "execute", "attempt", "rejecting", "awaiting"}
    /\ At("post") => KnownExecution(Last(op.journal))
    /\ faults < MaxFaults /\ faults' = faults + 1
    /\ Raised \/ (op.pc \in {"review", "facts"} /\ Thrown("awaiting"))
    /\ UNCHANGED <<disk, git, facts, history, drift>>

Crash ==
    /\ ~At("idle")
    /\ faults < MaxFaults /\ faults' = faults + 1
    /\ op' = Idle
    /\ UNCHANGED <<disk, git, facts, history, drift>>
-----------------------------------------------------------------------------
(* Everybody else.                                                          *)

\* Leases are taken on the main of the moment, under the writer lock; the
\* Tasks are then run and accepted.
Deliver(r) ==
    /\ At("idle")
    /\ base[r] = None
    /\ base' = [base EXCEPT ![r] = main]
    /\ snapshot' = [snapshot EXCEPT ![r] = 1]
    /\ \E v \in {0, 1} : review' = [review EXCEPT ![r] = v]
    /\ UNCHANGED <<disk, op, git, history, drift, faults>>

Drift == drift < MaxDrift /\ drift' = drift + 1

ChangeFacts(r, v) ==
    /\ base[r] # None
    /\ Drift
    /\ \/ /\ v # snapshot[r] /\ ~Guarded(r) /\ snapshot' = [snapshot EXCEPT ![r] = v]
          /\ UNCHANGED review
       \/ /\ v # review[r] /\ (Guarded(r) => r \in External) /\ review' = [review EXCEPT ![r] = v]
          /\ UNCHANGED snapshot
    /\ UNCHANGED <<disk, op, git, base, history, faults>>

\* Commits that others know: candidates have a diagnostic branch.
Known == {Base, Foreign} \cup {r \in Queued : disk[r].state # "created"}

MoveMain(c) ==
    /\ c # main /\ c \in Known
    /\ Drift
    /\ main' = c
    /\ UNCHANGED <<disk, op, marked, facts, history, faults>>
-----------------------------------------------------------------------------
Progress ==
    \/ Save \/ Handle
    \/ Recover \/ Drifted \/ Accept \/ Prepare \/ Execute \/ (\E v \in {"passed", "failed"} : Returned(v))
    \/ Check \/ Review \/ Publish \/ CheckFacts \/ Announce \/ Guard \/ Transaction
    \/ StartAttempt \/ RunPost \/ Judge

Next ==
    \/ \E r \in Request : Integrate(r) \/ Continue(r) \/ RecoverPostMerge(r)
    \/ Progress
    \/ SaveFails \/ TransactionUnseen \/ Fault \/ Crash
    \/ \E r \in Request : Deliver(r) \/ (\E v \in Version : ChangeFacts(r, v))
    \/ \E c \in Commit : MoveMain(c)

Spec == Init /\ [][Next]_vars

\* Operations run to their end, and somebody calls reconcile again and again.
FairSpec == Spec /\ WF_vars(Progress) /\ \A r \in Request : SF_vars(Continue(r))
-----------------------------------------------------------------------------
\* Shapes; and what a state says of the verification, the authorization and
\* the attempts that are recorded with it (service.py:196-326).
WellFormed(j) ==
    /\ j \in Journal
    /\ Len(j.attempts) <= MaxAttempts
    /\ j.state \in {"verified", "authorized", "reauthorizing", "completed", "recovery_required"} \cup Publishing
         => j.verification = "passed"
    /\ j.state \in {"authorized", "completed", "recovery_required"} \cup Publishing => j.review # 0
    /\ j.state \in {"post_verification_ready", "post_verification_running", "completed",
                    "recovery_required"} => j.attempts # <<>>

TypeOK ==
    /\ disk \in [Request -> Journal \cup {None}] /\ \A r \in Queued : WellFormed(disk[r])
    /\ op \in Operation /\ (op = Idle \/ WellFormed(op.journal))
    /\ main \in Commit /\ marked \subseteq Request
    /\ base \in [Request -> Commit \cup {None}]
    /\ snapshot \in [Request -> Version] /\ review \in [Request -> Version]
    /\ sent \in [Request -> [0 .. MaxAttempts -> Nat]]
    /\ open \in [Request -> Nat] /\ landed \in [Request -> Nat]
    /\ drift \in 0 .. MaxDrift /\ faults \in 0 .. MaxFaults

\* A request is published once, whatever was lost and however main was moved
\* since; a verification is sent once, and never while the outcome of an
\* earlier one of the same request is not known (service.py:122-132, 153-154,
\* 177-187, 331-333).
EffectsOnce ==
    \A r \in Request : landed[r] <= 1 /\ open[r] <= 1 /\ \A k \in 0 .. MaxAttempts : sent[r][k] <= 1

\* main is moved only by a request whose intent is on disk, from the commit it
\* was queued with, after a verification that passed, and while the accepted
\* Tasks are the ones it was authorized with, and so is an approval that is
\* kept here (service.py:274-295, authority.py:136-147).
PublishedCurrent ==
    [][\A r \in Request : landed'[r] # landed[r] =>
          /\ disk[r].state = "publishing" /\ disk[r].verification = "passed"
          /\ main = disk[r].expected /\ base[r] = main
          /\ snapshot[r] = disk[r].snapshot
          /\ disk[r].review # 0 /\ (r \in External \/ review[r] = disk[r].review)]_vars

\* What was published is not forgotten: the journal is past the intent, or has
\* a receipt that says so, and the marker is there (service.py:163-166, 177-194).
LandedKnown ==
    \A r \in Request : landed[r] > 0 =>
        /\ r \in marked
        /\ disk[r].state \in Publishing \/ disk[r].receipt # "none"

\* A request is completed only after it was published and a verification that
\* was sent for its last attempt has passed (service.py:328-354).
CompletedWasVerified ==
    \A r \in Request : disk[r] # None /\ disk[r].state = "completed" =>
        /\ landed[r] = 1
        /\ Last(disk[r]).execution = "returned" /\ Last(disk[r]).verdict = "passed"
        /\ sent[r][Len(disk[r].attempts)] = 1

\* Both: what the journal says of main is true, and what happened to main is in it.
JournalTrue == LandedKnown /\ CompletedWasVerified

\* A request is at rest when it has its outcome, or waits for a user: for an
\* approval, for the outcome of a verification, or for main to be put back.
AtRest(r) ==
    LET j == disk[r]
    IN  r \in Queued /\
        \/ j.state \in Converged \cup {"recovery_required", "integration_verification_running"}
        \/ j.state = "waiting_review" /\ review[r] = 0
        \/ j.state \in {"publishing", "published"} /\ main # r /\ r \in marked

\* A request that is reconciled again and again comes to rest, wherever it was
\* interrupted (service.py:144-175).
ComesToRest == \A r \in Request : r \in Queued ~> AtRest(r)

\* "publishing 已落盘后不能把 Git/磁盘/网络异常解释成未发生副作用" (service.py:164):
\* once main was moved, only a merged receipt lets the next request in.
QueueHeld ==
    \A r \in Request : landed[r] > 0 /\ disk[r].state \in Converged => disk[r].receipt = "merged"
=============================================================================
