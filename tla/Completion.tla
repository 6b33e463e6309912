----------------------------- MODULE Completion -----------------------------
(***************************************************************************)
(* How a requirement becomes done (automation/runtime.py, review.py,       *)
(* delivery_guard.py): finalize verifies, reviews and completes it, or     *)
(* publishes a packet that a user approves on the review card or by the    *)
(* command line; the Stop hook completes what a finalize that was killed   *)
(* had begun; a user may ask for changes instead; and the requirement may  *)
(* be taken over by a V2 delivery, which needs a completion token.         *)
(*                                                                         *)
(* Each command is a process of its own.  The requirement's lock covers    *)
(* one write, or the last steps of a completion; the lock of the provider  *)
(* covers the review card; finalize and the recovery have a third.         *)
(* Documents are edited by hand, without a lock.  The phase gates, which   *)
(* can only refuse a completion, are PhaseGate's.                          *)
(***************************************************************************)
EXTENDS Naturals, FiniteSets

CONSTANTS
    Command,       \* processes
    Document,      \* contents of the requirement; it is not met by "open"
    MaxCommands,   \* bound on the commands begun
    MaxRevision,   \* bound on the revisions of the review packet
    Nothing

VARIABLES
    meta,        \* status, v2, manual, pending, packet (published), reopen
    document,    \* requirement and intent
    checked,     \* Latest Check of verification.md; "FAIL" when there is none
    work,        \* status of the development task
    review,      \* review card: status, packet of its marker, who moved it, unread comment
    token,       \* there is a completion token that agrees with the gate
    session,     \* "open" (in_progress or pending_auto_finish) or "completed"
    command,     \* command[c]: place, what it has sampled, what comes after a sync
    locks,       \* holder of each of the three locks
    begun,       \* number of commands
    approved     \* fingerprints of what users have approved

completionVars ==
    <<meta, document, checked, work, review, token, session, command, locks, begun, approved>>

NoCard == [status |-> "none", packet |-> Nothing, by |-> "nobody", comment |-> FALSE]
Idle == [pc |-> "idle", op |-> "none", print |-> Nothing, packet |-> Nothing]
Free == [requirement |-> Nothing, provider |-> Nothing, finalize |-> Nothing]

CompletionInit ==
    /\ \E manual \in BOOLEAN :
          meta = [status |-> "in_progress", v2 |-> FALSE, manual |-> manual, pending |-> Nothing,
                  packet |-> Nothing, reopen |-> FALSE]
    /\ document \in Document \ {"open"} /\ checked = "FAIL" /\ work = "in_progress"
    /\ review = NoCard /\ token = FALSE /\ session = "open"
    /\ command = [c \in Command |-> Idle] /\ locks = Free /\ begun = 0 /\ approved = {}
-----------------------------------------------------------------------------
\* Fingerprint of a packet, and of the evidence of a completion.
Fingerprint == <<document, checked, work>>
Evidence == <<document, checked>>
\* Fingerprints a packet may have.
Publishable == (Document \ {"open"}) \X {"PASS"} \X {"in_progress", "in_review", "done"}

\* require_delivery_completion
MayComplete == meta.v2 => token

Place(c) == command[c].pc
Goto(c, pc) == command' = [command EXCEPT ![c].pc = pc]
Unlocked(c) == locks.requirement \in {Nothing, c}
\* Mutant of Leave: what is not completed keeps its locks.
LeaveLocked(c) == command' = [command EXCEPT ![c] = Idle] /\ UNCHANGED locks
\* The command is over, and what it holds is released.
Leave(c) ==
    /\ command' = [command EXCEPT ![c] = Idle]
    /\ locks' = [l \in DOMAIN locks |-> IF locks[l] = c THEN Nothing ELSE locks[l]]
Take(c, lock, pc) ==
    /\ locks[lock] = Nothing
    /\ locks' = [locks EXCEPT ![lock] = c] /\ Goto(c, pc)
-----------------------------------------------------------------------------
(* The world around: users, agents, the V2 intake and the deployment.       *)

UserEdits ==
    /\ \E d \in Document \ {document} : document' = d
    /\ UNCHANGED <<meta, checked, work, review, token, session, command, locks, begun, approved>>

MoveCard(to, who, says, approves) ==
    /\ review.packet # Nothing /\ review.status # to
    /\ review' = [review EXCEPT !.status = to, !.by = who, !.comment = @ \/ says]
    /\ approved' = approved \cup approves
    /\ UNCHANGED <<meta, document, checked, work, token, session, command, locks, begun>>

UserApproves == MoveCard("done", "user", FALSE, {review.packet.print})
AgentCloses == MoveCard("done", "agent", FALSE, {})
UserReturns == MoveCard("in_progress", "user", TRUE, {})

\* mark_v2_delivery
IntakeV2 ==
    /\ locks.requirement = Nothing
    /\ meta.status # "done" /\ ~ meta.v2
    /\ meta' = [meta EXCEPT !.v2 = TRUE]
    /\ UNCHANGED <<document, checked, work, review, token, session, command, locks, begun, approved>>

\* publish_completion_token, at the end of Deployment
Delivered ==
    /\ meta.v2 /\ ~ token /\ token' = TRUE
    /\ UNCHANGED <<meta, document, checked, work, review, session, command, locks, begun, approved>>

Dies(c) ==
    /\ Place(c) # "idle" /\ Leave(c)
    /\ UNCHANGED <<meta, document, checked, work, review, token, session, begun, approved>>
-----------------------------------------------------------------------------
(* Every command begins with its checks; most of them synchronise the       *)
(* review first.                                                            *)

Begin(c, op) ==
    /\ Place(c) = "idle" /\ begun < MaxCommands /\ begun' = begun + 1
    /\ command' = [command EXCEPT ![c] = [Idle EXCEPT !.pc = "print", !.op = op]]

BeginSync(c) ==
    /\ \E op \in {"sync", "review"} : Begin(c, op)
    /\ UNCHANGED <<meta, document, checked, work, review, token, session, locks, approved>>

BeginFinalize(c) ==
    /\ locks.finalize = Nothing /\ MayComplete
    /\ Begin(c, "finalize") /\ locks' = [locks EXCEPT !.finalize = c]
    /\ UNCHANGED <<meta, document, checked, work, review, token, session, approved>>

\* The fingerprint is taken before the lock; it may fail, which is not fatal here.
Prints(c) ==
    /\ Place(c) = "print"
    /\ \E print \in {Fingerprint, Nothing} :
          command' = [command EXCEPT ![c].print = print, ![c].pc = "sync"]
    /\ UNCHANGED <<meta, document, checked, work, review, token, session, locks, begun, approved>>

\* What the command goes on with when the review is synchronised.
AfterSync(c) == [sync |-> "leave", review |-> "check", finalize |-> "status"][command[c].op]

Synced(c) == command' = [command EXCEPT ![c].pc = AfterSync(c), ![c].print = Nothing]

\* sync_requirement_review_outcome, under the lock of the provider: what is read ...
Outcome(c) ==
    IF meta.status = "in_progress" /\ meta.reopen THEN "reopen"
    ELSE IF meta.status # "in_review" THEN "none"
    ELSE IF meta.v2 /\ review.status = "done" THEN "none"
    ELSE IF review.packet # meta.packet \/ (~ meta.v2 /\ command[c].print # meta.packet.print)
         THEN "stale"
    ELSE IF review.status = "done" /\ review.by = "user" THEN "approved"
    ELSE IF review.status = "in_progress" /\ review.comment THEN "returned"
    ELSE "none"

SyncReads(c) ==
    /\ Place(c) = "sync" /\ locks.provider = Nothing
    /\ IF Outcome(c) = "none"
       THEN Synced(c) /\ UNCHANGED locks
       ELSE Take(c, "provider", Outcome(c))
    /\ UNCHANGED <<meta, document, checked, work, review, token, session, begun, approved>>

SyncDone(c) == locks' = [locks EXCEPT !.provider = Nothing] /\ Synced(c)
\* The command review stops when its sync has changed the status.
SyncChanged(c) == IF command[c].op = "review" THEN Leave(c) ELSE SyncDone(c)

\* ... and what is written for it.
SyncStale(c) ==
    /\ Place(c) = "stale" /\ Unlocked(c)
    /\ meta' = [meta EXCEPT !.status = "in_progress"]
    /\ SyncChanged(c)
    /\ UNCHANGED <<document, checked, work, review, token, session, begun, approved>>

Reopened == [review EXCEPT !.status = IF @ = "none" THEN @ ELSE "in_progress", !.by = "agent"]
Resumed == IF work = "in_review" THEN "in_progress" ELSE work

SyncReopens(c) ==
    /\ Place(c) = "reopen" /\ Unlocked(c)
    /\ review' = Reopened /\ work' = Resumed
    /\ meta' = [meta EXCEPT !.reopen = FALSE]
    /\ SyncDone(c)
    /\ UNCHANGED <<document, checked, token, session, begun, approved>>
-----------------------------------------------------------------------------
(* confirm_requirement_done, by the command line or for a review card that  *)
(* a user has moved to done.                                                *)

BeginConfirm(c) ==
    /\ Place(c) = "idle" /\ begun < MaxCommands /\ begun' = begun + 1
    /\ command' = [command EXCEPT ![c] =
                      [Idle EXCEPT !.pc = "approved", !.op = "confirm", !.print = Fingerprint]]
    /\ approved' = approved \cup ({Fingerprint} \cap Publishable)
    /\ UNCHANGED <<meta, document, checked, work, review, token, session, locks>>

\* Mutant of Current: the packet need not be about what there was when it was asked.
CurrentIfPublished(c) == meta.packet # Nothing /\ review.packet = meta.packet
\* require_current_review_packet
Current(c) ==
    /\ meta.packet # Nothing /\ review.packet = meta.packet
    /\ command[c].print = meta.packet.print

ConfirmReads(c) ==
    /\ Place(c) = "approved"
    /\ IF MayComplete /\ Current(c)
       THEN /\ command' = [command EXCEPT ![c].pc = "confirm", ![c].packet = meta.packet]
            /\ UNCHANGED locks
       ELSE Leave(c)
    /\ UNCHANGED <<meta, document, checked, work, review, token, session, begun, approved>>

\* The packet is the one that was compared before the lock.
StillThat(c) == meta.packet = command[c].packet

ConfirmWrites(c) ==
    /\ Place(c) = "confirm" /\ Unlocked(c)
    /\ meta' = IF MayComplete /\ meta.status = "in_review" /\ StillThat(c)
               THEN [meta EXCEPT !.status = "done"] ELSE meta
    /\ Leave(c)
    /\ UNCHANGED <<document, checked, work, review, token, session, begun, approved>>
-----------------------------------------------------------------------------
(* request_requirement_changes, by the command line or for a card that a    *)
(* user has moved back.                                                     *)

BeginChanges(c) ==
    /\ Place(c) = "idle" /\ begun < MaxCommands /\ begun' = begun + 1
    /\ command' = [command EXCEPT ![c] = [Idle EXCEPT !.pc = "returned", !.op = "changes"]]
    /\ UNCHANGED <<meta, document, checked, work, review, token, session, locks, approved>>

ChangesWrites(c) ==
    /\ Place(c) = "returned" /\ Unlocked(c)
    /\ IF meta.status = "in_review"
       THEN /\ meta' = [meta EXCEPT !.status = "in_progress", !.reopen = TRUE]
            /\ Goto(c, "resume") /\ UNCHANGED locks
       ELSE Leave(c) /\ UNCHANGED meta
    /\ UNCHANGED <<document, checked, work, review, token, session, begun, approved>>

\* The provider may fail: the cards are reopened by a later sync.
ChangesResumes(c) ==
    /\ Place(c) = "resume"
    /\ \/ /\ work' = Resumed
          /\ review' = IF command[c].op = "changes" THEN Reopened
                       ELSE [review EXCEPT !.comment = FALSE]
          /\ Goto(c, "resumed")
       \/ /\ review' = IF command[c].op = "changes" THEN review
                       ELSE [review EXCEPT !.comment = FALSE]
          /\ Goto(c, "kept") /\ UNCHANGED work
    /\ UNCHANGED <<meta, document, checked, token, session, locks, begun, approved>>

ChangesEnds(c) ==
    /\ Place(c) \in {"resumed", "kept"} /\ Unlocked(c)
    /\ meta' = [meta EXCEPT !.reopen = Place(c) = "kept"]
    /\ IF command[c].op = "changes" THEN Leave(c) ELSE SyncChanged(c)
    /\ UNCHANGED <<document, checked, work, review, token, session, begun, approved>>
-----------------------------------------------------------------------------
(* review_requirement and the packet, for the commands review and finalize. *)

Reviewable == document # "open" /\ checked = "PASS" /\ work \in {"in_review", "done"}
\* An in_review that what is there does not support is taken back.
TakenBack == [meta EXCEPT !.status = IF @ = "in_review" THEN "in_progress" ELSE @]

ReviewChecks(c) ==
    /\ Place(c) = "check" /\ Unlocked(c)
    /\ IF Reviewable /\ meta.status # "done"
       THEN /\ UNCHANGED <<meta, locks>>
            /\ Goto(c, IF command[c].op = "finalize" /\ ~ meta.manual THEN "complete" ELSE "packet")
       ELSE meta' = TakenBack /\ Leave(c)
    /\ UNCHANGED <<document, checked, work, review, token, session, begun, approved>>

\* build_review_packet and validate_review_packet
PacketBuilt(c) ==
    /\ Place(c) = "packet" /\ Unlocked(c)
    /\ IF document # "open" /\ checked = "PASS"
       THEN /\ command' = [command EXCEPT ![c].pc = "card", ![c].print = Fingerprint]
            /\ UNCHANGED <<meta, locks>>
       ELSE /\ meta' = IF command[c].op = "finalize" THEN [meta EXCEPT !.status = "in_progress"]
                       ELSE meta
            /\ Leave(c)
    /\ UNCHANGED <<document, checked, work, review, token, session, begun, approved>>

Revision(c) ==
    IF meta.packet = Nothing THEN 1
    ELSE IF meta.packet.print = command[c].print THEN meta.packet.revision
    ELSE meta.packet.revision + 1

\* ensure_requirement_review_task: created, or opened again.
CardReady(c) ==
    /\ Place(c) = "card" /\ locks.provider = Nothing /\ Revision(c) <= MaxRevision
    /\ locks' = [locks EXCEPT !.provider = c]
    /\ review' = IF review.status \in {"none", "done"}
                 THEN [review EXCEPT !.status = "in_progress", !.by = "agent"] ELSE review
    /\ command' = [command EXCEPT ![c].pc = "publish", ![c].packet =
                       [revision |-> Revision(c), print |-> command[c].print]]
    /\ UNCHANGED <<meta, document, checked, work, token, session, begun, approved>>

CardPublished(c) ==
    /\ Place(c) = "publish"
    /\ review' = [status |-> "in_review", packet |-> command[c].packet, by |-> "agent",
                  comment |-> FALSE]
    /\ Goto(c, "record")
    /\ UNCHANGED <<meta, document, checked, work, token, session, locks, begun, approved>>

\* What the packet says must still be so.
PacketRecorded(c) ==
    /\ Place(c) = "record" /\ Unlocked(c)
    /\ IF Fingerprint = command[c].print
       THEN meta' = [meta EXCEPT !.status = "in_review", !.packet = command[c].packet]
       ELSE meta' = IF command[c].op = "finalize" THEN [meta EXCEPT !.status = "in_progress"]
                    ELSE meta
    /\ Leave(c)
    /\ UNCHANGED <<document, checked, work, review, token, session, begun, approved>>

PublishFails(c) ==
    /\ Place(c) \in {"card", "publish"} /\ Unlocked(c)
    /\ meta' = [meta EXCEPT !.status = "in_progress"]
    /\ Leave(c)
    /\ UNCHANGED <<document, checked, work, review, token, session, begun, approved>>
-----------------------------------------------------------------------------
(* _finalize_once, after its sync.                                          *)

FinalizeReads(c) ==
    /\ Place(c) = "status"
    /\ IF meta.status = "in_progress" THEN Goto(c, "verify") /\ UNCHANGED locks ELSE Leave(c)
    /\ UNCHANGED <<meta, document, checked, work, review, token, session, begun, approved>>

\* run_known_verifications takes long, and holds no lock of the requirement.
Verifies(c) ==
    /\ Place(c) = "verify" /\ \E result \in {"PASS", "FAIL"} : Goto(c, result)
    /\ UNCHANGED <<meta, document, checked, work, review, token, session, locks, begun, approved>>

RecordsChecks(c) ==
    /\ Place(c) \in {"PASS", "FAIL"} /\ Unlocked(c)
    /\ IF MayComplete
       THEN /\ checked' = Place(c)
            /\ meta' = IF Place(c) = "FAIL" THEN TakenBack ELSE meta
       ELSE UNCHANGED <<checked, meta>>
    /\ IF MayComplete /\ Place(c) = "PASS" THEN Goto(c, "move") /\ UNCHANGED locks ELSE Leave(c)
    /\ UNCHANGED <<document, work, review, token, session, begun, approved>>

MovesTasks(c) ==
    /\ Place(c) = "move" /\ Unlocked(c)
    /\ \/ /\ MayComplete
          /\ work' = IF work = "in_progress" THEN "in_review" ELSE work
          /\ Goto(c, "check") /\ UNCHANGED <<meta, locks>>
       \/ meta' = TakenBack /\ Leave(c) /\ UNCHANGED work
    /\ UNCHANGED <<document, checked, review, token, session, begun, approved>>

\* Mutant of Authorises: a V2 intake during the long verification is not seen.
AuthorisesAnyway(c) == TRUE
Authorises(c) == MayComplete

\* What is to be completed is recorded before the first task is.
Completes(c) ==
    /\ Place(c) = "complete" /\ locks.requirement = Nothing
    /\ IF Authorises(c)
       THEN meta' = [meta EXCEPT !.pending = Evidence] /\ Take(c, "requirement", "tasks")
       ELSE meta' = [meta EXCEPT !.status = "in_progress"] /\ Leave(c)
    /\ UNCHANGED <<document, checked, work, review, token, session, begun, approved>>

CompletesTasks(c) ==
    /\ Place(c) = "tasks"
    /\ \/ work' = "done" /\ Goto(c, "done") /\ UNCHANGED <<meta, locks>>
       \/ /\ meta' = IF command[c].op = "finalize" THEN [meta EXCEPT !.status = "in_progress"]
                     ELSE meta
          /\ Leave(c) /\ UNCHANGED work
    /\ UNCHANGED <<document, checked, review, token, session, begun, approved>>

CompletesRequirement(c) ==
    /\ Place(c) = "done"
    /\ meta' = [meta EXCEPT !.status = "done", !.pending = Nothing]
    /\ locks' = [locks EXCEPT !.requirement = Nothing,
                              !.finalize = IF command[c].op = "stop" THEN Nothing ELSE @]
    /\ Goto(c, IF command[c].op = "stop" THEN "archive" ELSE "leave")
    /\ UNCHANGED <<document, checked, work, review, token, session, begun, approved>>

-----------------------------------------------------------------------------
(* auto_finish_pushed_thread, once everything is pushed, with               *)
(* _recover_pending_auto_completion.                                        *)

BeginStop(c) ==
    /\ Place(c) = "idle" /\ begun < MaxCommands /\ begun' = begun + 1
    /\ session # "completed" /\ MayComplete
    /\ command' = [command EXCEPT ![c] = [Idle EXCEPT !.pc = "recover", !.op = "stop"]]
    /\ UNCHANGED <<meta, document, checked, work, review, token, session, locks, approved>>

\* The authorisation is that of the evidence there is, and is not stale.
Recoverable(pending) == MayComplete /\ meta.status = "in_progress" /\ Evidence = pending

Recovers(c) ==
    /\ Place(c) = "recover" /\ locks.finalize = Nothing
    /\ IF ~ MayComplete THEN Leave(c)
       ELSE IF meta.pending = Nothing \/ meta.status = "done"
            THEN Goto(c, "archive") /\ UNCHANGED locks
       ELSE IF Recoverable(meta.pending) /\ ~ meta.manual
            THEN /\ locks' = [locks EXCEPT !.finalize = c]
                 /\ command' = [command EXCEPT ![c].pc = "verify again", ![c].print = meta.pending]
       ELSE Leave(c)
    /\ UNCHANGED <<meta, document, checked, work, review, token, session, begun, approved>>

VerifiesAgain(c) ==
    /\ Place(c) = "verify again" /\ Unlocked(c)
    /\ \/ Reviewable /\ meta.status # "done" /\ Goto(c, "commit") /\ UNCHANGED <<meta, locks>>
       \/ meta' = (IF Reviewable THEN meta ELSE TakenBack) /\ Leave(c)
    /\ UNCHANGED <<document, checked, work, review, token, session, begun, approved>>

Commits(c) ==
    /\ Place(c) = "commit" /\ locks.requirement = Nothing
    /\ IF Recoverable(command[c].print) /\ meta.pending = command[c].print
       THEN Take(c, "requirement", "tasks")
       ELSE Leave(c)
    /\ UNCHANGED <<meta, document, checked, work, review, token, session, begun, approved>>

Archives(c) ==
    /\ Place(c) = "archive" /\ locks.requirement = Nothing
    /\ IF MayComplete
       THEN work' = "done" /\ Take(c, "requirement", "end")
       ELSE Leave(c) /\ UNCHANGED work
    /\ UNCHANGED <<meta, document, checked, review, token, session, begun, approved>>

EndsSession(c) ==
    /\ Place(c) = "end"
    /\ session' = "completed" /\ Leave(c)
    /\ UNCHANGED <<meta, document, checked, work, review, token, begun, approved>>

Finishes(c) ==
    /\ Place(c) = "leave" /\ Leave(c)
    /\ UNCHANGED <<meta, document, checked, work, review, token, session, begun, approved>>

CompletionNext ==
    \/ UserEdits \/ UserApproves \/ AgentCloses \/ UserReturns \/ IntakeV2 \/ Delivered
    \/ \E c \in Command :
          \/ BeginSync(c) \/ BeginFinalize(c) \/ BeginConfirm(c) \/ BeginChanges(c) \/ BeginStop(c)
          \/ Prints(c) \/ SyncReads(c) \/ SyncStale(c) \/ SyncReopens(c)
          \/ Finishes(c)
          \/ ConfirmReads(c) \/ ConfirmWrites(c)
          \/ ChangesWrites(c) \/ ChangesResumes(c) \/ ChangesEnds(c)
          \/ ReviewChecks(c) \/ PacketBuilt(c) \/ CardReady(c) \/ CardPublished(c)
          \/ PacketRecorded(c) \/ PublishFails(c)
          \/ FinalizeReads(c) \/ Verifies(c) \/ RecordsChecks(c) \/ MovesTasks(c)
          \/ Completes(c) \/ CompletesTasks(c) \/ CompletesRequirement(c)
          \/ Recovers(c) \/ VerifiesAgain(c) \/ Commits(c) \/ Archives(c) \/ EndsSession(c)
          \/ Dies(c)

CompletionSpec == CompletionInit /\ [][CompletionNext]_completionVars
-----------------------------------------------------------------------------
\* Shapes; a command that is between two of its locked steps has the lock, and a
\* lock is held by a command that goes on.
CompletionTypeOK ==
    /\ meta.status \in {"in_progress", "in_review", "done"}
    /\ work \in {"in_progress", "in_review", "done"} /\ checked \in {"PASS", "FAIL"}
    /\ review.packet # Nothing => review.packet.revision \in 1 .. MaxRevision
    /\ \A c \in Command :
          /\ Place(c) \in {"tasks", "done", "end"} => locks.requirement = c
          /\ Place(c) \in {"publish", "record"} => locks.provider = c
          /\ command[c].op = "finalize" => locks.finalize = c
    /\ \A l \in DOMAIN locks : locks[l] # Nothing => Place(locks[l]) # "idle"

\* delivery_guard.py:28: whatever a V2 intake interleaves with, a requirement that a
\* V2 delivery has taken over is done only when its completion token is there.
DeliveredBeforeDone == meta.status = "done" /\ meta.v2 => token

\* review.py:273 and runtime.py:1077: a requirement that asks for a manual test is
\* done only with a packet that a user approved, whoever confirms and whatever is
\* published meanwhile.
PacketApproved == meta.status = "done" /\ meta.manual => meta.packet.print \in approved
=============================================================================
