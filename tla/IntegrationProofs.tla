-------------------------- MODULE IntegrationProofs --------------------------
(***************************************************************************)
(* Proofs about Integration for any number of requests and any bounds.     *)
(***************************************************************************)
EXTENDS Integration, SequenceTheorems, TLAPS

\* What is true of a journal of r, in its file and in memory: M is marked, b
\* the base of r, S how often its verifications were sent, and o how many of
\* them are open.
AttemptsPublished(r, M, j) ==
    j.attempts # <<>> => /\ r \in M /\ j.verification = "passed" /\ j.review # 0
                         /\ j.state # "integration_verification_running"
                         /\ \/ j.receipt # "none"
                            \/ j.state \in {"post_verification_ready", "post_verification_running"}

ReceiptOfAttempt(j) ==
    /\ j.receipt # "none" => j.attempts # <<>>
    /\ j.state \in {"completed", "recovery_required"} => j.receipt # "none"
    /\ j.state = "completed" => Last(j).execution = "returned" /\ Last(j).verdict = "passed"

PublicationKnown(r, M, j) ==
    /\ r \in M => j.state \in Publishing \/ j.receipt # "none"
    /\ j.state = "published" => r \in M

SentOf(S, o, j) ==
    /\ S[0] > 0 => j.state = "integration_verification_running" \/ j.verification # "none"
    /\ \A k \in 1 .. MaxAttempts : S[k] > 0 =>
          k \in 1 .. Len(j.attempts) /\ j.attempts[k].execution # "not_started"
    /\ \A k \in 1 .. Len(j.attempts) : j.attempts[k].execution = "returned" => S[k] = 1
    /\ o > 0 => \/ j.state = "integration_verification_running"
                \/ j.attempts # <<>> /\ Last(j).execution \in {"running", "unknown"}

Sound(r, M, b, S, o, j) ==
    /\ WellFormed(j)
    /\ j.expected = b
    /\ AttemptsPublished(r, M, j)
    /\ ReceiptOfAttempt(j)
    /\ PublicationKnown(r, M, j)
    /\ SentOf(S, o, j)

SoundOf(r, j) == Sound(r, marked, base[r], sent[r], open[r], j)

Unqueued(r) ==
    r \notin marked /\ open[r] = 0 /\ \A k \in 0 .. MaxAttempts : sent[r][k] = 0

\* Where the operation is, or will be once it has saved.
Target(o) == IF o.pc = "saving" THEN o.next ELSE o.pc

\* What an operation at that place has found out about its journal.
Preparing(j) == j.state \notin Publishing \cup {"integration_verification_running"}
Executing(j) ==
    \/ j.state = "integration_verification_running" /\ j.attempts = <<>> /\ j.verification = "none"
    \/ j.state = "post_verification_running" /\ j.attempts # <<>> /\ Last(j).execution = "running"

Found(pc, S, o, j) ==
    /\ pc \in {"accept", "drifted", "prepare", "check", "review"} => Preparing(j)
    /\ pc = "review" => j.state = "verified"
    /\ pc = "recover" => j.state = "publishing"
    /\ pc = "publish" => j.state \in {"authorized", "publishing", "published"}
    /\ pc \in {"facts", "announce"} => j.state \in {"authorized", "publishing"}
    /\ pc \in {"guard", "transaction"} => j.state = "publishing"
    /\ pc = "attempt" => j.state = "published"
    /\ pc \in {"post", "judge"} => j.attempts # <<>>
    /\ pc = "judge" => Last(j).execution = "returned"
    /\ pc \in {"execute", "returning"} => Executing(j)
    /\ pc = "execute" => o = 0 /\ S[Len(j.attempts)] = 0
    /\ pc = "returning" => o = 1 /\ S[Len(j.attempts)] = 1
    /\ pc \notin {"idle", "rejecting", "awaiting"} => j.receipt = "none"

\* In between saves the file is what the operation has.
Synced == op.pc \in {"saving", "rejecting", "awaiting"} \/ disk[op.request] = op.journal

GuardHeld ==
    op.pc = "transaction" => /\ Unchanged(op.request, op.journal)
                             /\ op.request \in External \/ review[op.request] = op.journal.review

OpSound ==
    op = Idle \/
      /\ op.request \in Request /\ disk[op.request] # None
      /\ op.pc # "idle"
      /\ op.pc = "saving" => op.next \notin {"saving", "transaction", "rejecting", "awaiting"}
      /\ SoundOf(op.request, op.journal)
      /\ Found(Target(op), sent[op.request], open[op.request], op.journal)
      /\ Synced /\ GuardHeld

DiskSound == \A r \in Request : IF disk[r] = None THEN Unqueued(r) ELSE SoundOf(r, disk[r])

LandedMarked == \A r \in Request : landed[r] = IF r \in marked THEN 1 ELSE 0

SentOnce == \A r \in Request : open[r] <= 1 /\ \A k \in 0 .. MaxAttempts : sent[r][k] <= 1

IInv ==
    /\ TypeOK
    /\ DiskSound
    /\ LandedMarked
    /\ SentOnce
    /\ OpSound
-----------------------------------------------------------------------------
(* Journals.                                                                *)

\* A journal with attempts has a last one.
LEMMA LastAttempt ==
    ASSUME NEW j \in Journal, j.attempts # <<>>
    PROVE  /\ Len(j.attempts) \in Nat \ {0}
           /\ Len(j.attempts) \in 1 .. Len(j.attempts)
           /\ DOMAIN j.attempts = 1 .. Len(j.attempts)
           /\ Last(j) \in Attempt
<1>1. j.attempts \in Seq(Attempt)
  BY DEF Journal
<1>2. /\ Len(j.attempts) \in Nat \ {0}
      /\ DOMAIN j.attempts = 1 .. Len(j.attempts)
  BY <1>1, EmptySeq, LenProperties
<1>3. Len(j.attempts) \in 1 .. Len(j.attempts)
  BY <1>2
<1>4. Last(j) \in Attempt
  BY <1>1, <1>3, ElementOfSeq DEF Last
<1>. QED  BY <1>2, <1>3, <1>4

\* k has the attempts of j, but for the last one, in the same publication.
Continues(j, k) ==
    /\ k \in Journal /\ k.attempts # <<>>
    /\ Len(k.attempts) = Len(j.attempts)
    /\ \A i \in 1 .. Len(j.attempts) : i # Len(j.attempts) => k.attempts[i] = j.attempts[i]
    /\ k.expected = j.expected /\ k.verification = j.verification /\ k.review = j.review

\* Another last attempt leaves everything else.
LEMMA LastReplaced ==
    ASSUME NEW j \in Journal, j.attempts # <<>>, NEW a \in Attempt,
           NEW k, k = WithLast(j, a)
    PROVE  /\ Continues(j, k) /\ Last(k) = a
           /\ k.state = j.state /\ k.receipt = j.receipt
<1>. DEFINE s == j.attempts
            t == [s EXCEPT ![Len(s)] = a]
<1>1. /\ s \in Seq(Attempt) /\ Len(s) \in 1 .. Len(s) /\ Len(s) \in Nat \ {0}
      /\ DOMAIN s = 1 .. Len(s)
  BY LastAttempt DEF Journal
<1>2. t \in Seq(Attempt) /\ Len(t) = Len(s)
  BY <1>1, ExceptSeq
<1>3. t[Len(s)] = a /\ \A i \in 1 .. Len(s) : i # Len(s) => t[i] = s[i]
  BY <1>1
<1>4. t # <<>>
  BY <1>1, <1>2, EmptySeq
<1>. HIDE DEF t
<1>5. k = [j EXCEPT !.attempts = t]
  BY DEF WithLast, t
<1>6. /\ k \in Journal /\ k.attempts = t
      /\ k.state = j.state /\ k.expected = j.expected
      /\ k.verification = j.verification /\ k.review = j.review /\ k.receipt = j.receipt
  BY <1>2, <1>5 DEF Journal
<1>. QED  BY <1>2, <1>3, <1>4, <1>6 DEF Last, Continues

\* A receipt is entered in the last attempt and in the journal.
LEMMA ReceiptEntered ==
    ASSUME NEW j \in Journal, j.attempts # <<>>, NEW receipt \in {"merged", "recovery_required"},
           NEW k, k = WithReceipt(j, receipt)
    PROVE  /\ Continues(j, k)
           /\ Last(k).execution = Last(j).execution /\ Last(k).verdict = Last(j).verdict
           /\ k.receipt = receipt
           /\ k.state = IF receipt = "merged" THEN "completed" ELSE "recovery_required"
<1>. DEFINE a == [Last(j) EXCEPT !.receipt = receipt]
            l == WithLast(j, a)
<1>1. /\ a \in Attempt
      /\ a.execution = Last(j).execution /\ a.verdict = Last(j).verdict
  BY LastAttempt DEF Attempt, Receipt
<1>. HIDE DEF a
<1>2. Continues(j, l) /\ Last(l) = a
  BY <1>1, LastReplaced
<1>. HIDE DEF l
<1>3. k = [l EXCEPT !.receipt = receipt,
                    !.state = IF receipt = "merged" THEN "completed" ELSE "recovery_required"]
  BY DEF WithReceipt, l, a
<1>4. /\ k \in Journal /\ k.attempts = l.attempts
      /\ k.expected = l.expected /\ k.verification = l.verification /\ k.review = l.review
      /\ k.receipt = receipt
      /\ k.state = IF receipt = "merged" THEN "completed" ELSE "recovery_required"
  BY <1>2, <1>3 DEF Continues, Journal, Receipt, State, Converged
<1>. QED  BY <1>1, <1>2, <1>4 DEF Continues, Last

\* What is sound stays so with another last attempt, under these conditions.
LEMMA SoundContinued ==
    ASSUME NEW r, NEW M, NEW b, NEW S, NEW o, NEW j, NEW k,
           Sound(r, M, b, S, o, j), j.attempts # <<>>, Continues(j, k),
           Last(k).execution = "not_started" => Last(j).execution = "not_started",
           Last(k).execution = "returned" => Last(j).execution = "returned" \/ S[Len(j.attempts)] = 1,
           o > 0 => Last(k).execution \in {"running", "unknown"},
           \/ k.receipt # "none" /\ k.state \in {"completed", "recovery_required"}
           \/ k.receipt = "none" /\ k.state \in {"post_verification_ready", "post_verification_running"},
           k.state = "completed" => Last(k).execution = "returned" /\ Last(k).verdict = "passed"
    PROVE  Sound(r, M, b, S, o, k)
<1>. DEFINE n == Len(j.attempts)
<1>1. j \in Journal /\ n \in Nat \ {0} /\ n \in 1 .. n
  BY LastAttempt DEF Sound, WellFormed
<1>2. /\ k \in Journal /\ k.attempts # <<>> /\ Len(k.attempts) = n
      /\ \A i \in 1 .. n : i # n => k.attempts[i] = j.attempts[i]
      /\ k.expected = j.expected /\ k.verification = j.verification /\ k.review = j.review
  BY DEF Continues
<1>3. r \in M /\ j.verification = "passed" /\ j.review # 0
  BY DEF Sound, AttemptsPublished
<1>4. WellFormed(k)
  BY <1>2, <1>3 DEF Sound, WellFormed
<1>5. AttemptsPublished(r, M, k) /\ ReceiptOfAttempt(k) /\ PublicationKnown(r, M, k)
  BY <1>2, <1>3 DEF AttemptsPublished, ReceiptOfAttempt, PublicationKnown, Publishing
<1>6. SentOf(S, o, k)
  <2>1. S[0] > 0 => k.state = "integration_verification_running" \/ k.verification # "none"
    BY <1>2, <1>3
  <2>2. ASSUME NEW i \in 1 .. MaxAttempts, S[i] > 0
        PROVE  i \in 1 .. Len(k.attempts) /\ k.attempts[i].execution # "not_started"
    <3>1. i \in 1 .. n /\ j.attempts[i].execution # "not_started"
      BY <2>2 DEF Sound, SentOf
    <3>. QED  BY <3>1, <1>2 DEF Last
  <2>3. ASSUME NEW i \in 1 .. Len(k.attempts), k.attempts[i].execution = "returned"
        PROVE  S[i] = 1
    <3>1. j.attempts[i].execution = "returned" => S[i] = 1
      BY <1>2 DEF Sound, SentOf
    <3>. QED  BY <3>1, <2>3, <1>2 DEF Last
  <2>4. o > 0 => k.attempts # <<>> /\ Last(k).execution \in {"running", "unknown"}
    BY <1>2
  <2>. QED  BY <2>1, <2>2, <2>3, <2>4 DEF SentOf
<1>. QED  BY <1>2, <1>4, <1>5, <1>6 DEF Sound

\* The except branch of _run_post_verification leaves a receipt that says so.
LEMMA PostFailedSound ==
    ASSUME NEW r, NEW M, NEW b, NEW S, NEW o, NEW j,
           Sound(r, M, b, S, o, j), j.attempts # <<>>
    PROVE  Sound(r, M, b, S, o, PostFailed(j))
<1>. DEFINE a == [Last(j) EXCEPT !.execution = IF @ = "running" THEN "unknown" ELSE @]
            l == WithLast(j, a)
            k == WithReceipt(l, "recovery_required")
<1>1. j \in Journal /\ Last(j) \in Attempt
  BY LastAttempt DEF Sound, WellFormed
<1>2. /\ a \in Attempt
      /\ a.execution = IF Last(j).execution = "running" THEN "unknown" ELSE Last(j).execution
  BY <1>1 DEF Attempt
<1>. HIDE DEF a
<1>3. Continues(j, l) /\ Last(l) = a
  BY <1>1, <1>2, LastReplaced
<1>4. l \in Journal /\ l.attempts # <<>>
  BY <1>3 DEF Continues
<1>. HIDE DEF l
<1>5. /\ Continues(l, k) /\ Last(k).execution = a.execution
      /\ k.receipt = "recovery_required" /\ k.state = "recovery_required"
  BY <1>3, <1>4, ReceiptEntered
<1>6. PostFailed(j) = k
  BY DEF PostFailed, k, l, a
<1>. HIDE DEF k
<1>7. Continues(j, k)
  BY <1>3, <1>5 DEF Continues
<1>8. o > 0 => Last(j).execution \in {"running", "unknown"}
  BY DEF Sound, SentOf, AttemptsPublished
<1>9. Sound(r, M, b, S, o, k)
  BY <1>2, <1>5, <1>7, <1>8, SoundContinued
<1>. QED  BY <1>6, <1>9

\* A new attempt follows only attempts with a known execution.
LEMMA NewAttemptSound ==
    ASSUME NEW r, NEW M, NEW b, NEW S, NEW o, NEW j,
           Sound(r, M, b, S, o, j), r \in M, Len(j.attempts) < MaxAttempts,
           j.verification = "passed", j.review # 0,
           j.state # "integration_verification_running",
           j.attempts # <<>> => Last(j).execution \notin {"running", "unknown"}
    PROVE  /\ Sound(r, M, b, S, o, NewAttempt(j))
           /\ NewAttempt(j).attempts # <<>> /\ NewAttempt(j).receipt = "none"
<1>. DEFINE s == j.attempts
            t == Append(s, NotStarted)
            k == NewAttempt(j)
<1>1. j \in Journal /\ s \in Seq(Attempt) /\ Len(s) \in Nat
  BY LenProperties DEF Sound, WellFormed, Journal
<1>2. NotStarted \in Attempt /\ NotStarted.execution = "not_started"
  BY DEF NotStarted, Attempt, Verdict, Receipt
<1>3. /\ t \in Seq(Attempt) /\ Len(t) = Len(s) + 1
      /\ \A i \in 1 .. Len(s) : t[i] = s[i]
      /\ t[Len(s) + 1] = NotStarted /\ t # <<>>
  BY <1>1, <1>2, AppendProperties
<1>4. t # <<>>
  BY <1>3
<1>. HIDE DEF t
<1>5. k = [j EXCEPT !.attempts = t, !.receipt = "none", !.state = "post_verification_ready"]
  BY DEF NewAttempt, t
<1>6. /\ k \in Journal /\ k.attempts = t /\ k.receipt = "none"
      /\ k.state = "post_verification_ready" /\ k.expected = j.expected
      /\ k.verification = "passed" /\ k.review # 0
  BY <1>1, <1>3, <1>5 DEF Journal, Receipt, State, Publishing
<1>. HIDE DEF k
<1>7. WellFormed(k)
  BY <1>1, <1>3, <1>4, <1>6, BoundsAssumption DEF WellFormed
<1>8. AttemptsPublished(r, M, k) /\ ReceiptOfAttempt(k) /\ PublicationKnown(r, M, k)
  BY <1>6 DEF AttemptsPublished, ReceiptOfAttempt, PublicationKnown, Publishing
<1>9. SentOf(S, o, k)
  <2>1. ASSUME NEW i \in 1 .. MaxAttempts, S[i] > 0
        PROVE  i \in 1 .. Len(k.attempts) /\ k.attempts[i].execution # "not_started"
    <3>1. i \in 1 .. Len(s) /\ s[i].execution # "not_started"
      BY <2>1 DEF Sound, SentOf
    <3>. QED  BY <3>1, <1>1, <1>3, <1>6
  <2>2. ASSUME NEW i \in 1 .. Len(k.attempts), k.attempts[i].execution = "returned"
        PROVE  S[i] = 1
    <3>1. i # Len(s) + 1
      BY <2>2, <1>2, <1>3, <1>6
    <3>2. i \in 1 .. Len(s) /\ s[i].execution = "returned"
      BY <3>1, <2>2, <1>1, <1>3, <1>6
    <3>. QED  BY <3>2 DEF Sound, SentOf
  <2>3. ~(o > 0)
    BY DEF Sound, SentOf
  <2>. QED  BY <2>1, <2>2, <2>3, <1>6 DEF SentOf
<1>10. k.expected = b
  BY <1>6 DEF Sound
<1>11. Sound(r, M, b, S, o, k)
  BY <1>7, <1>8, <1>9, <1>10 DEF Sound
<1>. QED  BY <1>4, <1>6, <1>11 DEF k

\* What is sound stays so when only its state changes, before any attempt.
LEMMA StateChanged ==
    ASSUME NEW r, NEW M, NEW b, NEW S, NEW o, NEW j, NEW k,
           Sound(r, M, b, S, o, j), WellFormed(k),
           j.attempts = <<>>, j.receipt = "none",
           k.attempts = <<>>, k.receipt = "none", k.expected = j.expected,
           k.state \notin {"completed", "recovery_required"},
           k.state = "published" => r \in M,
           k.verification = j.verification \/ k.verification # "none",
           j.state = "integration_verification_running" =>
              k.verification # "none" /\ ~(o > 0),
           r \notin M \/ k.state \in Publishing
    PROVE  Sound(r, M, b, S, o, k)
<1>1. AttemptsPublished(r, M, k) /\ ReceiptOfAttempt(k) /\ PublicationKnown(r, M, k)
  BY DEF AttemptsPublished, ReceiptOfAttempt, PublicationKnown
<1>2. SentOf(S, o, k)
  BY DEF Sound, SentOf
<1>. QED  BY <1>1, <1>2 DEF Sound
-----------------------------------------------------------------------------
(* Steps of an operation.                                                   *)

\* Nothing but the operation changes, and what is counted by the bounds.
Framed ==
    /\ UNCHANGED <<disk, git, facts, history>>
    /\ drift' \in 0 .. MaxDrift /\ faults' \in 0 .. MaxFaults

\* What IInv says while an operation is running.
LEMMA Running ==
    ASSUME IInv, op.pc # "idle"
    PROVE  /\ op \in Operation /\ op.request \in Request /\ disk[op.request] # None
           /\ op.journal \in Journal /\ WellFormed(op.journal)
           /\ op.pc = "saving" => op.next \notin {"saving", "transaction", "rejecting", "awaiting"}
           /\ SoundOf(op.request, op.journal)
           /\ Found(Target(op), sent[op.request], open[op.request], op.journal)
           /\ Synced /\ GuardHeld
<1>1. op # Idle
  BY DEF Idle
<1>2. op \in Operation /\ OpSound
  BY DEF IInv, TypeOK
<1>. QED  BY <1>1, <1>2 DEF OpSound, SoundOf, Sound, WellFormed

\* An operation that goes on keeps the invariant if its journal is sound and
\* is what its next place expects.
LEMMA OpMoves ==
    ASSUME IInv, op.pc # "idle", Framed,
           op' \in Operation, op'.pc # "idle", op'.request = op.request,
           op'.pc = "saving" => op'.next \notin {"saving", "transaction", "rejecting", "awaiting"},
           SoundOf(op.request, op'.journal),
           Found(Target(op)', sent[op.request], open[op.request], op'.journal),
           \/ op'.pc \in {"saving", "rejecting", "awaiting"}
           \/ disk[op.request] = op'.journal,
           op'.pc = "transaction" =>
              /\ Unchanged(op.request, op'.journal)
              /\ op.request \in External \/ review[op.request] = op'.journal.review
    PROVE  IInv'
<1>. USE DEF Framed, git, facts, history
<1>1. TypeOK'
  BY DEF IInv, TypeOK, SoundOf, Sound, Queued, Operation
<1>2. DiskSound'
  BY DEF IInv, DiskSound, SoundOf, Unqueued
<1>3. LandedMarked' /\ SentOnce'
  BY DEF IInv, LandedMarked, SentOnce
<1>4. OpSound'
  <2>1. op.request \in Request /\ disk[op.request] # None
    BY Running
  <2>2. SoundOf(op.request, op.journal)' /\ Found(Target(op), sent[op.request], open[op.request], op.journal)'
    BY DEF SoundOf
  <2>3. Synced' /\ GuardHeld'
    BY DEF Synced, GuardHeld, Unchanged, Accepted
  <2>. QED  BY <2>1, <2>2, <2>3 DEF OpSound
<1>. QED  BY <1>1, <1>2, <1>3, <1>4 DEF IInv

\* It goes to another place.
LEMMA Goes ==
    ASSUME IInv, op.pc # "idle", Framed,
           NEW pc \in Place \ {"idle", "saving", "transaction"}, Goto(pc),
           Found(pc, sent[op.request], open[op.request], op.journal),
           pc \in {"rejecting", "awaiting"} \/ op.pc \notin {"saving", "rejecting", "awaiting"}
    PROVE  IInv'
<1>1. /\ op \in Operation /\ SoundOf(op.request, op.journal)
      /\ op.pc \notin {"saving", "rejecting", "awaiting"} => disk[op.request] = op.journal
  BY Running DEF Synced
<1>2. /\ op' \in Operation /\ op'.pc = pc
      /\ op'.request = op.request /\ op'.journal = op.journal
  BY <1>1 DEF Goto, Operation
<1>3. Target(op)' = pc
  BY <1>2 DEF Target
<1>. QED  BY <1>1, <1>2, <1>3, OpMoves

\* It is about to save another journal.
LEMMA Saves ==
    ASSUME IInv, op.pc # "idle", Framed, NEW j,
           NEW next \in Place \ {"saving", "transaction", "rejecting", "awaiting"},
           SaveAs(j, next), SoundOf(op.request, j),
           Found(next, sent[op.request], open[op.request], j)
    PROVE  IInv'
<1>1. op \in Operation /\ j \in Journal
  BY Running DEF SoundOf, Sound, WellFormed
<1>2. /\ op' \in Operation /\ op'.pc = "saving" /\ op'.next = next
      /\ op'.request = op.request /\ op'.journal = j
  BY <1>1 DEF SaveAs, Operation, Place
<1>3. Target(op)' = next
  BY <1>2 DEF Target
<1>. QED  BY <1>2, <1>3, OpMoves

\* It is over.
LEMMA Ends ==
    ASSUME IInv, Framed, op' = Idle
    PROVE  IInv'
<1>. USE DEF Framed, git, facts, history
<1>1. TypeOK'
  BY DEF IInv, TypeOK, Queued, Operation, Idle, Place
<1>2. DiskSound'
  BY DEF IInv, DiskSound, SoundOf, Unqueued
<1>3. LandedMarked' /\ SentOnce'
  BY DEF IInv, LandedMarked, SentOnce
<1>. QED  BY <1>1, <1>2, <1>3 DEF IInv, OpSound

\* It ends with an exception.
LEMMA Throws ==
    ASSUME IInv, op.pc # "idle", Framed, NEW handler \in {"rejecting", "awaiting"}, Thrown(handler)
    PROVE  IInv'
<1>1. CASE InPost(op)
  <2>1. op.journal.attempts # <<>>
    BY <1>1, Running DEF InPost, Found, Target, WellFormed
  <2>2. SoundOf(op.request, PostFailed(op.journal))
    BY <2>1, Running, PostFailedSound DEF SoundOf
  <2>3. SaveAs(PostFailed(op.journal), "idle")
    BY <1>1 DEF Thrown
  <2>4. Found("idle", sent[op.request], open[op.request], PostFailed(op.journal))
    BY DEF Found
  <2>. QED  BY <2>2, <2>3, <2>4, Saves DEF Place
<1>2. CASE ~InPost(op) /\ op.handled
  <2>1. Goto(handler)
    BY <1>2 DEF Thrown
  <2>2. Found(handler, sent[op.request], open[op.request], op.journal)
    BY DEF Found
  <2>. QED  BY <2>1, <2>2, Goes DEF Place
<1>3. CASE ~InPost(op) /\ ~op.handled
  BY <1>3, Ends DEF Thrown
<1>. QED  BY <1>1, <1>2, <1>3

LEMMA StepFramed ==
    ASSUME IInv, NEW pc \in Place \ {"idle", "saving"}, Step(pc)
    PROVE  /\ Framed /\ op.pc = pc
           /\ Found(pc, sent[op.request], open[op.request], op.journal)
BY Running DEF Step, At, Framed, IInv, TypeOK, Target, git, facts, history

\* Before the publication there are no attempts, and the state is all that is
\* changed and saved.
LEMMA SavesState ==
    ASSUME IInv, op.pc # "idle", Framed, NEW k \in Journal,
           NEW next \in Place \ {"saving", "transaction", "rejecting", "awaiting"},
           SaveAs(k, next),
           op.journal.receipt = "none",
           op.journal.state \notin {"integration_verification_running", "post_verification_ready",
                                    "post_verification_running"},
           k = [op.journal EXCEPT !.state = k.state, !.review = k.review],
           WellFormed(k),
           k.state = "published" => op.request \in marked,
           op.request \notin marked \/ k.state \in Publishing,
           k.attempts = <<>> => Found(next, sent[op.request], open[op.request], k)
    PROVE  IInv'
<1>. DEFINE j == op.journal
<1>1. SoundOf(op.request, j) /\ j \in Journal
  BY Running
<1>2. j.attempts = <<>>
  BY <1>1 DEF SoundOf, Sound, AttemptsPublished
<1>3. /\ k.attempts = <<>> /\ k.receipt = "none"
      /\ k.expected = j.expected /\ k.verification = j.verification
  BY <1>1, <1>2 DEF Journal
<1>4. k.state \notin {"completed", "recovery_required"}
  BY <1>3 DEF WellFormed
<1>5. SoundOf(op.request, k)
  BY <1>1, <1>2, <1>3, <1>4, StateChanged DEF SoundOf
<1>. QED  BY <1>3, <1>5, Saves

\* _recover_publication.
LEMMA RecoverKeeps == IInv /\ Recover => IInv'
<1>. SUFFICES ASSUME IInv, Recover PROVE IInv'
  OBVIOUS
<1>. DEFINE j == op.journal
            k == [j EXCEPT !.state = "reauthorizing"]
<1>1. /\ Framed /\ op.pc = "recover"
      /\ Found("recover", sent[op.request], open[op.request], j)
  BY StepFramed DEF Recover, Place
<1>2. j.state = "publishing" /\ j.receipt = "none" /\ WellFormed(j) /\ j \in Journal
  BY <1>1, Running DEF Found
<1>3. CASE Goto("publish")
  BY <1>1, <1>2, <1>3, Goes DEF Found, Place
<1>4. CASE Raised
  BY <1>1, <1>4, Throws DEF Raised
<1>5. ASSUME op.request \notin marked, NEW next \in {"accept", "drifted"}, SaveAs(k, next)
      PROVE  IInv'
  <2>1. /\ k \in Journal /\ k.state = "reauthorizing" /\ k.receipt = "none"
        /\ k.verification = j.verification /\ k.attempts = j.attempts
        /\ k = [j EXCEPT !.state = k.state, !.review = k.review]
    BY <1>2 DEF Journal, State
  <2>2. WellFormed(k)
    BY <1>2, <2>1 DEF WellFormed, Publishing
  <2>3. Found(next, sent[op.request], open[op.request], k)
    BY <2>1 DEF Found, Preparing, Publishing
  <2>. QED  BY <1>1, <1>2, <1>5, <2>1, <2>2, <2>3, SavesState DEF Publishing, Place
<1>. QED  BY <1>3, <1>4, <1>5 DEF Recover

\* _prepare and the steps that follow it.
LEMMA PrepareKeeps == IInv /\ (Drifted \/ Accept \/ Prepare) => IInv'
<1>. SUFFICES ASSUME IInv, Drifted \/ Accept \/ Prepare PROVE IInv'
  OBVIOUS
<1>. DEFINE j == op.journal
            k == [j EXCEPT !.state = "integration_verification_running"]
<1>1. CASE Drifted
  BY <1>1, StepFramed, Throws DEF Drifted, Raised, Place
<1>2. CASE Accept
  <2>1. /\ Framed /\ op.pc = "accept"
        /\ Found("accept", sent[op.request], open[op.request], j)
    BY <1>2, StepFramed DEF Accept, Place
  <2>2. CASE Goto("prepare")
    BY <2>1, <2>2, Goes DEF Found, Place
  <2>3. CASE Raised
    BY <2>1, <2>3, Throws DEF Raised
  <2>. QED  BY <1>2, <2>2, <2>3 DEF Accept
<1>3. CASE Prepare
  <2>1. /\ Framed /\ op.pc = "prepare"
        /\ Found("prepare", sent[op.request], open[op.request], j)
    BY <1>3, StepFramed DEF Prepare, Place
  <2>2. /\ Preparing(j) /\ j.receipt = "none" /\ WellFormed(j) /\ j \in Journal
        /\ SoundOf(op.request, j)
    BY <2>1, Running DEF Found
  <2>3. CASE Goto("check")
    BY <2>1, <2>3, Goes DEF Found, Place
  <2>4. CASE Raised
    BY <2>1, <2>4, Throws DEF Raised
  <2>5. ASSUME j.verification = "none", SaveAs(k, "execute")
        PROVE  IInv'
    <3>1. /\ k \in Journal /\ k.state = "integration_verification_running" /\ k.receipt = "none"
          /\ k.verification = "none" /\ k.attempts = j.attempts
          /\ k = [j EXCEPT !.state = k.state, !.review = k.review]
      BY <2>2, <2>5 DEF Journal, State
    <3>2. WellFormed(k)
      BY <2>2, <3>1 DEF WellFormed, Publishing
    <3>3. op.request \notin marked
      BY <2>2 DEF SoundOf, Sound, PublicationKnown, Preparing
    <3>4. ASSUME k.attempts = <<>>
          PROVE  Found("execute", sent[op.request], open[op.request], k)
      <4>1. sent[op.request][0] \in Nat /\ open[op.request] \in Nat
        BY Running, <2>1, BoundsAssumption DEF IInv, TypeOK
      <4>2. ~(sent[op.request][0] > 0) /\ ~(open[op.request] > 0)
        BY <2>2, <2>5, <3>1, <3>4 DEF SoundOf, Sound, SentOf, Preparing
      <4>3. Len(k.attempts) = 0
        BY <3>4
      <4>. QED  BY <3>1, <3>4, <4>1, <4>2, <4>3 DEF Found, Executing
    <3>. QED  BY <2>1, <2>2, <2>5, <3>1, <3>2, <3>3, <3>4, SavesState
              DEF Publishing, Preparing, Place
  <2>. QED  BY <1>3, <2>3, <2>4, <2>5 DEF Prepare
<1>. QED  BY <1>1, <1>2, <1>3

LEMMA CheckKeeps == IInv /\ (Check \/ Review) => IInv'
<1>. SUFFICES ASSUME IInv, Check \/ Review PROVE IInv'
  OBVIOUS
<1>. DEFINE j == op.journal
<1>1. CASE Check
  <2>. DEFINE k == [j EXCEPT !.state = "verified"]
  <2>1. /\ Framed /\ op.pc = "check"
        /\ Found("check", sent[op.request], open[op.request], j)
    BY <1>1, StepFramed DEF Check, Place
  <2>2. /\ Preparing(j) /\ j.receipt = "none" /\ WellFormed(j) /\ j \in Journal
        /\ SoundOf(op.request, j)
    BY <2>1, Running DEF Found
  <2>3. CASE Raised
    BY <2>1, <2>3, Throws DEF Raised
  <2>4. ASSUME j.verification = "passed", SaveAs(k, "review")
        PROVE  IInv'
    <3>1. /\ k \in Journal /\ k.state = "verified" /\ k.receipt = "none"
          /\ k.verification = "passed" /\ k.attempts = j.attempts
          /\ k = [j EXCEPT !.state = k.state, !.review = k.review]
      BY <2>2, <2>4 DEF Journal, State
    <3>2. WellFormed(k) /\ Found("review", sent[op.request], open[op.request], k)
      BY <2>2, <3>1 DEF WellFormed, Publishing, Found, Preparing
    <3>3. op.request \notin marked
      BY <2>2 DEF SoundOf, Sound, PublicationKnown, Preparing
    <3>. QED  BY <2>1, <2>2, <2>4, <3>1, <3>2, <3>3, SavesState DEF Publishing, Preparing, Place
  <2>. QED  BY <1>1, <2>3, <2>4 DEF Check
<1>2. CASE Review
  <2>. DEFINE v == review[op.request]
              k == [j EXCEPT !.state = "authorized", !.review = v]
  <2>1. /\ Framed /\ op.pc = "review"
        /\ Found("review", sent[op.request], open[op.request], j)
    BY <1>2, StepFramed DEF Review, Place
  <2>2. /\ j.state = "verified" /\ j.receipt = "none" /\ WellFormed(j) /\ j \in Journal
        /\ SoundOf(op.request, j) /\ op.request \in Request
    BY <2>1, Running DEF Found
  <2>3. CASE Thrown("awaiting") \/ Raised
    BY <2>1, <2>3, Throws DEF Raised
  <2>4. ASSUME v # 0, SaveAs(k, "publish")
        PROVE  IInv'
    <3>1. v \in Version
      BY <2>2 DEF IInv, TypeOK
    <3>2. /\ k \in Journal /\ k.state = "authorized" /\ k.receipt = "none" /\ k.review = v
          /\ k.verification = j.verification /\ k.attempts = j.attempts
          /\ k = [j EXCEPT !.state = k.state, !.review = k.review]
      BY <2>2, <3>1 DEF Journal, State
    <3>3. WellFormed(k) /\ Found("publish", sent[op.request], open[op.request], k)
      BY <2>2, <2>4, <3>2 DEF WellFormed, Publishing, Found
    <3>4. op.request \notin marked
      BY <2>2 DEF SoundOf, Sound, PublicationKnown, Publishing
    <3>. QED  BY <2>1, <2>2, <2>4, <3>2, <3>3, <3>4, SavesState DEF Publishing, Place
  <2>. QED  BY <1>2, <2>3, <2>4 DEF Review
<1>. QED  BY <1>1, <1>2

\* _publish_and_verify, up to the transaction.
LEMMA PublishKeeps == IInv /\ (Publish \/ CheckFacts \/ Announce \/ Guard) => IInv'
<1>. SUFFICES ASSUME IInv, Publish \/ CheckFacts \/ Announce \/ Guard PROVE IInv'
  OBVIOUS
<1>. DEFINE r == op.request
            j == op.journal
<1>1. CASE Publish
  <2>. DEFINE k == [j EXCEPT !.state = "published"]
  <2>1. /\ Framed /\ op.pc = "publish"
        /\ Found("publish", sent[r], open[r], j)
    BY <1>1, StepFramed DEF Publish, Place
  <2>2. /\ j.state \in {"authorized", "publishing", "published"} /\ j.receipt = "none"
        /\ WellFormed(j) /\ j \in Journal /\ SoundOf(r, j)
    BY <2>1, Running DEF Found
  <2>3. CASE Raised
    BY <2>1, <2>3, Throws DEF Raised
  <2>4. CASE j.state # "published" /\ Goto("facts")
    BY <2>1, <2>2, <2>4, Goes DEF Found, Place
  <2>5. ASSUME r \in marked, SaveAs(k, "attempt")
        PROVE  IInv'
    <3>1. /\ k \in Journal /\ k.state = "published" /\ k.receipt = "none" /\ k.review = j.review
          /\ k.verification = j.verification /\ k.attempts = j.attempts
          /\ k = [j EXCEPT !.state = k.state, !.review = k.review]
      BY <2>2 DEF Journal, State, Publishing
    <3>2. WellFormed(k) /\ Found("attempt", sent[r], open[r], k)
      BY <2>2, <3>1 DEF WellFormed, Publishing, Found
    <3>. QED  BY <2>1, <2>2, <2>5, <3>1, <3>2, SavesState DEF Publishing, Place
  <2>. QED  BY <1>1, <2>3, <2>4, <2>5 DEF Publish, Published
<1>2. CASE CheckFacts
  <2>1. /\ Framed /\ op.pc = "facts"
        /\ Found("facts", sent[r], open[r], j)
    BY <1>2, StepFramed DEF CheckFacts, Place
  <2>2. CASE Thrown("awaiting") \/ Raised
    BY <2>1, <2>2, Throws DEF Raised
  <2>3. CASE Goto("announce")
    BY <2>1, <2>3, Goes DEF Found, Place
  <2>. QED  BY <1>2, <2>2, <2>3 DEF CheckFacts
<1>3. CASE Announce
  <2>. DEFINE k == [j EXCEPT !.state = "publishing"]
  <2>1. /\ Framed /\ op.pc = "announce"
        /\ Found("announce", sent[r], open[r], j)
    BY <1>3, StepFramed DEF Announce, Place
  <2>2. /\ j.state \in {"authorized", "publishing"} /\ j.receipt = "none"
        /\ WellFormed(j) /\ j \in Journal /\ SoundOf(r, j)
    BY <2>1, Running DEF Found
  <2>3. CASE Raised
    BY <2>1, <2>3, Throws DEF Raised
  <2>4. ASSUME SaveAs(k, "guard")
        PROVE  IInv'
    <3>1. /\ k \in Journal /\ k.state = "publishing" /\ k.receipt = "none" /\ k.review = j.review
          /\ k.verification = j.verification /\ k.attempts = j.attempts
          /\ k = [j EXCEPT !.state = k.state, !.review = k.review]
      BY <2>2 DEF Journal, State, Publishing
    <3>2. WellFormed(k) /\ Found("guard", sent[r], open[r], k)
      BY <2>2, <3>1 DEF WellFormed, Publishing, Found
    <3>. QED  BY <2>1, <2>2, <2>4, <3>1, <3>2, SavesState DEF Publishing, Place
  <2>. QED  BY <1>3, <2>3, <2>4 DEF Announce
<1>4. CASE Guard
  <2>1. /\ Framed /\ op.pc = "guard"
        /\ Found("guard", sent[r], open[r], j)
    BY <1>4, StepFramed DEF Guard, Place
  <2>2. CASE Raised
    BY <2>1, <2>2, Throws DEF Raised
  <2>3. ASSUME GuardHolds(r, j), Goto("transaction")
        PROVE  IInv'
    <3>1. op \in Operation /\ SoundOf(r, j) /\ disk[r] = j
      BY <2>1, Running DEF Synced
    <3>2. /\ op' \in Operation /\ op'.pc = "transaction"
          /\ op'.request = r /\ op'.journal = j
      BY <3>1, <2>3 DEF Goto, Operation, Place
    <3>3. Found(Target(op)', sent[r], open[r], op'.journal)
      BY <2>1, <3>2 DEF Target, Found
    <3>. QED  BY <2>1, <2>3, <3>1, <3>2, <3>3, OpMoves DEF GuardHolds
  <2>. QED  BY <1>4, <2>2, <2>3 DEF Guard
<1>. QED  BY <1>1, <1>2, <1>3, <1>4

LEMMA StartAttemptKeeps == IInv /\ StartAttempt => IInv'
<1>. SUFFICES ASSUME IInv, StartAttempt PROVE IInv'
  OBVIOUS
<1>. DEFINE r == op.request
            j == op.journal
<1>1. /\ Framed /\ op.pc = "attempt"
      /\ Found("attempt", sent[r], open[r], j)
  BY StepFramed DEF StartAttempt, Place
<1>2. /\ j.state = "published" /\ j.receipt = "none" /\ WellFormed(j) /\ SoundOf(r, j)
  BY <1>1, Running DEF Found
<1>3. r \in marked /\ j.attempts = <<>> /\ j.verification = "passed" /\ j.review # 0
  BY <1>2 DEF SoundOf, Sound, PublicationKnown, AttemptsPublished, WellFormed, Publishing
<1>4. Len(j.attempts) < MaxAttempts
  BY <1>3, BoundsAssumption
<1>5. /\ SoundOf(r, NewAttempt(j))
      /\ NewAttempt(j).attempts # <<>> /\ NewAttempt(j).receipt = "none"
  <2>1. Sound(r, marked, base[r], sent[r], open[r], j)
    BY <1>2 DEF SoundOf
  <2>2. /\ Sound(r, marked, base[r], sent[r], open[r], NewAttempt(j))
        /\ NewAttempt(j).attempts # <<>> /\ NewAttempt(j).receipt = "none"
    BY <2>1, <1>2, <1>3, <1>4, NewAttemptSound
  <2>. QED  BY <2>2 DEF SoundOf
<1>6. Found("post", sent[r], open[r], NewAttempt(j))
  BY <1>5 DEF Found
<1>7. SaveAs(NewAttempt(j), "post")
  BY DEF StartAttempt
<1>. QED  BY <1>1, <1>5, <1>6, <1>7, Saves DEF Place

\* _run_post_verification.
LEMMA RunPostKeeps == IInv /\ RunPost => IInv'
<1>. SUFFICES ASSUME IInv, RunPost PROVE IInv'
  OBVIOUS
<1>. DEFINE r == op.request
            j == op.journal
            a == Last(j)
            n == Len(j.attempts)
<1>1. /\ Framed /\ op.pc = "post"
      /\ Found("post", sent[r], open[r], j)
  BY StepFramed DEF RunPost, Place
<1>2. /\ j.attempts # <<>> /\ j.receipt = "none" /\ WellFormed(j) /\ j \in Journal
      /\ SoundOf(r, j) /\ r \in Request
  BY <1>1, Running DEF Found
<1>3. a \in Attempt /\ n \in Nat \ {0} /\ n <= MaxAttempts
  BY <1>2, LastAttempt DEF WellFormed
<1>4. open[r] > 0 => a.execution \in {"running", "unknown"}
  BY <1>2 DEF SoundOf, Sound, SentOf, AttemptsPublished
<1>5. CASE Raised
  BY <1>1, <1>5, Throws DEF Raised
<1>6. CASE a.execution = "returned" /\ Goto("judge")
  <2>1. Found("judge", sent[r], open[r], j)
    BY <1>2, <1>6 DEF Found
  <2>. QED  BY <1>1, <1>6, <2>1, Goes DEF Place
<1>7. CASE /\ ~KnownExecution(a)
           /\ SaveAs(WithReceipt(WithLast(j, [a EXCEPT !.execution = "unknown"]),
                                 "recovery_required"), "idle")
  <2>. DEFINE b == [a EXCEPT !.execution = "unknown"]
              l == WithLast(j, b)
              k == WithReceipt(l, "recovery_required")
  <2>1. b \in Attempt /\ b.execution = "unknown"
    BY <1>3 DEF Attempt
  <2>. HIDE DEF b
  <2>2. Continues(j, l) /\ Last(l) = b
    BY <1>2, <2>1, LastReplaced
  <2>3. l \in Journal /\ l.attempts # <<>>
    BY <2>2 DEF Continues
  <2>. HIDE DEF l
  <2>4. /\ Continues(l, k) /\ Last(k).execution = "unknown"
        /\ k.receipt = "recovery_required" /\ k.state = "recovery_required"
    BY <2>1, <2>2, <2>3, ReceiptEntered
  <2>5. SaveAs(k, "idle")
    BY <1>7 DEF k, l, b
  <2>. HIDE DEF k
  <2>6. Continues(j, k)
    BY <2>2, <2>4 DEF Continues
  <2>7. SoundOf(r, k)
    BY <1>2, <2>4, <2>6, SoundContinued DEF SoundOf
  <2>8. Found("idle", sent[r], open[r], k)
    BY DEF Found
  <2>. QED  BY <1>1, <2>5, <2>7, <2>8, Saves DEF Place
<1>8. CASE /\ KnownExecution(a) /\ a.execution # "returned"
           /\ SaveAs([WithLast(j, [a EXCEPT !.execution = "running"]) EXCEPT
                        !.state = "post_verification_running"], "execute")
  <2>. DEFINE b == [a EXCEPT !.execution = "running"]
              l == WithLast(j, b)
              k == [l EXCEPT !.state = "post_verification_running"]
  <2>1. b \in Attempt /\ b.execution = "running"
    BY <1>3 DEF Attempt
  <2>2. a.execution = "not_started"
    BY <1>8 DEF KnownExecution
  <2>. HIDE DEF b
  <2>3. Continues(j, l) /\ Last(l) = b /\ l.receipt = "none"
    BY <1>2, <2>1, LastReplaced
  <2>. HIDE DEF l
  <2>4. /\ k \in Journal /\ k.attempts = l.attempts /\ k.expected = l.expected
        /\ k.verification = l.verification /\ k.review = l.review /\ k.receipt = "none"
        /\ k.state = "post_verification_running"
    BY <2>3 DEF Continues, Journal, State, Publishing
  <2>5. SaveAs(k, "execute")
    BY <1>8 DEF k, l, b
  <2>. HIDE DEF k
  <2>6. Continues(j, k) /\ Last(k).execution = "running"
    BY <2>1, <2>3, <2>4 DEF Continues, Last
  <2>7. SoundOf(r, k)
    BY <1>2, <1>4, <2>2, <2>4, <2>6, SoundContinued DEF SoundOf
  <2>8. Len(k.attempts) = n /\ k.attempts # <<>>
    BY <2>6 DEF Continues
  <2>9. sent[r][n] = 0 /\ open[r] = 0
    <3>1. sent[r][n] \in Nat /\ open[r] \in Nat /\ n \in 1 .. MaxAttempts
      <4>1. n \in 1 .. MaxAttempts /\ n \in 0 .. MaxAttempts
        BY <1>3, BoundsAssumption
      <4>. QED  BY <1>2, <4>1 DEF IInv, TypeOK
    <3>2. ~(sent[r][n] > 0) /\ ~(open[r] > 0)
      BY <1>2, <1>4, <2>2, <3>1 DEF SoundOf, Sound, SentOf, Last
    <3>. QED  BY <3>1, <3>2
  <2>10. Found("execute", sent[r], open[r], k)
    BY <2>4, <2>6, <2>8, <2>9 DEF Found, Executing
  <2>. QED  BY <1>1, <2>5, <2>7, <2>10, Saves DEF Place
<1>. QED  BY <1>5, <1>6, <1>7, <1>8 DEF RunPost

LEMMA JudgeKeeps == IInv /\ Judge => IInv'
<1>. SUFFICES ASSUME IInv, Judge PROVE IInv'
  OBVIOUS
<1>. DEFINE r == op.request
            j == op.journal
            k == WithReceipt(j, "merged")
<1>1. /\ Framed /\ op.pc = "judge"
      /\ Found("judge", sent[r], open[r], j)
  BY StepFramed DEF Judge, Place
<1>2. /\ j.attempts # <<>> /\ Last(j).execution = "returned" /\ j.receipt = "none"
      /\ j \in Journal /\ SoundOf(r, j)
  BY <1>1, Running DEF Found
<1>3. CASE Raised
  BY <1>1, <1>3, Throws DEF Raised
<1>4. ASSUME Last(j).verdict = "passed", SaveAs(k, "idle")
      PROVE  IInv'
  <2>1. /\ Continues(j, k)
        /\ Last(k).execution = "returned" /\ Last(k).verdict = "passed"
        /\ k.receipt = "merged" /\ k.state = "completed"
    BY <1>2, <1>4, ReceiptEntered
  <2>. HIDE DEF k
  <2>2. ~(open[r] > 0)
    BY <1>2 DEF SoundOf, Sound, SentOf, AttemptsPublished
  <2>3. SoundOf(r, k)
    BY <1>2, <2>1, <2>2, SoundContinued DEF SoundOf
  <2>4. Found("idle", sent[r], open[r], k)
    BY DEF Found
  <2>. QED  BY <1>1, <1>4, <2>3, <2>4, Saves DEF Place
<1>. QED  BY <1>3, <1>4 DEF Judge

\* A verification is sent: it is running, and was not sent before.
LEMMA SentSound ==
    ASSUME NEW r, NEW M, NEW b, NEW S \in [0 .. MaxAttempts -> Nat], NEW j,
           Sound(r, M, b, S, 0, j), Executing(j), S[Len(j.attempts)] = 0
    PROVE  Sound(r, M, b, [S EXCEPT ![Len(j.attempts)] = @ + 1], 1, j)
<1>. DEFINE n == Len(j.attempts)
            T == [S EXCEPT ![n] = @ + 1]
<1>1. j \in Journal /\ n \in 0 .. MaxAttempts /\ MaxAttempts \in Nat
  BY LenProperties, BoundsAssumption DEF Sound, WellFormed, Journal
<1>2. T[n] = 1 /\ \A k \in 0 .. MaxAttempts : k # n => T[k] = S[k]
  BY <1>1
<1>3. \/ j.state = "integration_verification_running" /\ j.attempts = <<>> /\ n = 0
      \/ j.attempts # <<>> /\ n \in 1 .. n /\ j.attempts[n].execution = "running"
  BY <1>1, LastAttempt DEF Executing, Last
<1>. HIDE DEF T
<1>4. T[0] > 0 => j.state = "integration_verification_running" \/ j.verification # "none"
  <2>1. S[0] > 0 => j.state = "integration_verification_running" \/ j.verification # "none"
    BY DEF Sound, SentOf
  <2>2. CASE n = 0
    BY <1>3, <2>2
  <2>3. CASE n # 0
    BY <1>1, <1>2, <2>1, <2>3
  <2>. QED  BY <2>2, <2>3
<1>5. ASSUME NEW k \in 1 .. MaxAttempts, T[k] > 0
      PROVE  k \in 1 .. n /\ j.attempts[k].execution # "not_started"
  <2>1. S[k] > 0 => k \in 1 .. n /\ j.attempts[k].execution # "not_started"
    BY DEF Sound, SentOf
  <2>2. CASE k = n
    BY <1>1, <1>3, <2>2
  <2>3. CASE k # n
    BY <1>1, <1>2, <1>5, <2>1, <2>3
  <2>. QED  BY <2>2, <2>3
<1>6. ASSUME NEW k \in 1 .. n, j.attempts[k].execution = "returned"
      PROVE  T[k] = 1
  <2>1. S[k] = 1
    BY <1>6 DEF Sound, SentOf
  <2>2. k # n
    BY <1>1, <1>3, <1>6
  <2>. QED  BY <1>1, <1>2, <2>1, <2>2
<1>7. SentOf(T, 1, j)
  BY <1>3, <1>4, <1>5, <1>6 DEF SentOf, Last
<1>. QED  BY <1>7 DEF Sound, T

\* Counting a verification that was not sent before.
LEMMA Counted ==
    ASSUME NEW S \in [0 .. MaxAttempts -> Nat], NEW n \in 0 .. MaxAttempts, S[n] = 0,
           NEW T, T = [S EXCEPT ![n] = @ + 1]
    PROVE  /\ T \in [0 .. MaxAttempts -> Nat]
           /\ T[n] = 1 /\ \A k \in 0 .. MaxAttempts : k # n => T[k] = S[k]
<1>1. T = [S EXCEPT ![n] = 1]
  OBVIOUS
<1>. QED  BY <1>1

\* The verification that is running is sent.
LEMMA ExecuteKeeps == IInv /\ Execute => IInv'
<1>. SUFFICES ASSUME IInv, Execute PROVE IInv'
  OBVIOUS
<1>. DEFINE r == op.request
            j == op.journal
            n == Len(j.attempts)
<1>1. /\ op.pc = "execute" /\ op \in Operation /\ r \in Request /\ disk[r] # None /\ j \in Journal
      /\ WellFormed(j) /\ SoundOf(r, j) /\ Found("execute", sent[r], open[r], j) /\ disk[r] = j
  BY Running DEF Execute, At, Target, Synced
<1>2. /\ Executing(j) /\ j.receipt = "none" /\ open[r] = 0 /\ sent[r][n] = 0
  BY <1>1 DEF Found
<1>3. n \in 0 .. MaxAttempts
  BY <1>1, LenProperties, BoundsAssumption DEF WellFormed, Journal
<1>4. /\ sent \in [Request -> [0 .. MaxAttempts -> Nat]] /\ open \in [Request -> Nat]
      /\ sent[r] \in [0 .. MaxAttempts -> Nat]
  BY <1>1 DEF IInv, TypeOK
<1>5. /\ sent' = [sent EXCEPT ![r] = [sent[r] EXCEPT ![n] = @ + 1]]
      /\ open' = [open EXCEPT ![r] = @ + 1]
      /\ UNCHANGED <<disk, main, marked, base, snapshot, review, landed, drift, faults>>
  BY DEF Execute, git, facts
<1>6. /\ sent'[r] = [sent[r] EXCEPT ![n] = @ + 1] /\ open'[r] = 1
      /\ sent'[r][n] = 1 /\ \A k \in 0 .. MaxAttempts : k # n => sent'[r][k] = sent[r][k]
      /\ \A q \in Request : q # r => sent'[q] = sent[q] /\ open'[q] = open[q]
      /\ sent' \in [Request -> [0 .. MaxAttempts -> Nat]] /\ open' \in [Request -> Nat]
  <2>. DEFINE T == [sent[r] EXCEPT ![n] = @ + 1]
  <2>1. /\ T \in [0 .. MaxAttempts -> Nat]
        /\ T[n] = 1 /\ \A k \in 0 .. MaxAttempts : k # n => T[k] = sent[r][k]
    BY <1>2, <1>3, <1>4, Counted
  <2>. HIDE DEF T
  <2>3. sent' = [sent EXCEPT ![r] = T]
    BY <1>5 DEF T
  <2>4. /\ sent'[r] = T /\ \A q \in Request : q # r => sent'[q] = sent[q]
        /\ sent' \in [Request -> [0 .. MaxAttempts -> Nat]]
    BY <1>1, <1>4, <2>1, <2>3
  <2>5. /\ open'[r] = 1 /\ \A q \in Request : q # r => open'[q] = open[q]
        /\ open' \in [Request -> Nat]
    BY <1>1, <1>2, <1>4, <1>5
  <2>. QED  BY <2>1, <2>4, <2>5 DEF T
<1>7. Sound(r, marked, base[r], sent'[r], 1, j)
  <2>1. Sound(r, marked, base[r], sent[r], 0, j)
    BY <1>1, <1>2 DEF SoundOf
  <2>2. Sound(r, marked, base[r], [sent[r] EXCEPT ![n] = @ + 1], 1, j)
    BY <1>2, <1>4, <2>1, SentSound
  <2>. QED  BY <1>6, <2>2
<1>8. /\ op' \in Operation /\ op'.pc = "returning" /\ op'.request = r /\ op'.journal = j
  BY <1>1 DEF Execute, Goto, Operation, Place
<1>9. TypeOK'
  BY <1>1, <1>5, <1>6, <1>8 DEF IInv, TypeOK, Queued
<1>10. DiskSound'
  <2>1. ASSUME NEW q \in Request
        PROVE  IF disk'[q] = None THEN Unqueued(q)' ELSE SoundOf(q, disk[q])'
    <3>1. CASE q = r
      BY <1>1, <1>5, <1>6, <1>7, <3>1 DEF SoundOf
    <3>2. CASE q # r
      <4>1. IF disk[q] = None THEN Unqueued(q) ELSE SoundOf(q, disk[q])
        BY DEF IInv, DiskSound
      <4>. QED  BY <1>5, <1>6, <3>2, <4>1 DEF SoundOf, Unqueued
    <3>. QED  BY <3>1, <3>2
  <2>. QED  BY <2>1 DEF DiskSound
<1>11. LandedMarked'
  BY <1>5 DEF IInv, LandedMarked
<1>12. SentOnce'
  <2>1. \A q \in Request : open'[q] <= 1
    BY <1>6 DEF IInv, SentOnce
  <2>2. ASSUME NEW q \in Request, NEW k \in 0 .. MaxAttempts
        PROVE  sent'[q][k] <= 1
    <3>1. sent[q][k] <= 1
      BY DEF IInv, SentOnce
    <3>2. CASE q = r /\ k = n
      <4>1. sent'[r][n] = 1
        BY <1>6
      <4>. QED  BY <3>2, <4>1
    <3>3. CASE q = r /\ k # n
      BY <1>6, <3>1, <3>3
    <3>4. CASE q # r
      BY <1>6, <3>1, <3>4
    <3>. QED  BY <3>2, <3>3, <3>4
  <2>. QED  BY <2>1, <2>2 DEF SentOnce
<1>13. OpSound'
  <2>1. SoundOf(op.request, op.journal)'
    BY <1>5, <1>6, <1>7, <1>8 DEF SoundOf
  <2>2. Found(Target(op), sent[op.request], open[op.request], op.journal)'
    BY <1>2, <1>6, <1>8 DEF Found, Target, Executing
  <2>3. Synced' /\ GuardHeld'
    BY <1>1, <1>5, <1>8 DEF Synced, GuardHeld
  <2>. QED  BY <1>1, <1>5, <1>8, <2>1, <2>2, <2>3 DEF OpSound
<1>. QED  BY <1>9, <1>10, <1>11, <1>12, <1>13 DEF IInv

\* Less is open.
LEMMA ClosedSound ==
    ASSUME NEW r, NEW M, NEW b, NEW S, NEW j, Sound(r, M, b, S, 1, j)
    PROVE  Sound(r, M, b, S, 0, j)
BY DEF Sound, SentOf

\* What a verification returned is about to be saved.
LEMMA ReturnedKeeps ==
    ASSUME IInv, NEW v \in {"passed", "failed"}, Returned(v)
    PROVE  IInv'
<1>. DEFINE r == op.request
            j == op.journal
            n == Len(j.attempts)
<1>1. /\ op.pc = "returning" /\ op \in Operation /\ r \in Request /\ disk[r] # None /\ j \in Journal
      /\ WellFormed(j) /\ SoundOf(r, j) /\ Found("returning", sent[r], open[r], j) /\ disk[r] = j
  BY Running DEF Returned, At, Target, Synced
<1>2. /\ Executing(j) /\ j.receipt = "none" /\ open[r] = 1 /\ sent[r][n] = 1
  BY <1>1 DEF Found
<1>3. /\ open' = [open EXCEPT ![r] = 0] /\ open \in [Request -> Nat]
      /\ UNCHANGED <<disk, main, marked, base, snapshot, review, sent, landed, drift, faults>>
  BY <1>1, <1>2 DEF Returned, git, facts, IInv, TypeOK
<1>4. /\ open'[r] = 0 /\ \A q \in Request : q # r => open'[q] = open[q]
      /\ open' \in [Request -> Nat]
  BY <1>1, <1>3
<1>5. Sound(r, marked, base[r], sent[r], 0, j)
  <2>1. Sound(r, marked, base[r], sent[r], 1, j)
    BY <1>1, <1>2 DEF SoundOf
  <2>. QED  BY <2>1, ClosedSound
<1>6. PICK k, next : /\ SaveAs(k, next) /\ next \in {"check", "judge"}
                     /\ Sound(r, marked, base[r], sent[r], 0, k)
                     /\ \A S, o : Found(next, S, o, k)
  <2>1. CASE j.attempts = <<>>
    <3>. DEFINE k == [j EXCEPT !.state = "integration_verification_returned", !.verification = v]
    <3>1. SaveAs(k, "check")
      BY <2>1 DEF Returned
    <3>2. /\ k \in Journal /\ k.state = "integration_verification_returned" /\ k.verification = v
          /\ k.receipt = "none" /\ k.attempts = <<>> /\ k.expected = j.expected
      BY <1>1, <1>2, <2>1 DEF Journal, State, Verdict
    <3>. HIDE DEF k
    <3>3. r \notin marked
      BY <1>2, <1>5, <2>1 DEF Sound, PublicationKnown, Executing, Publishing
    <3>4. WellFormed(k)
      BY <1>1, <2>1, <3>2 DEF WellFormed, Publishing
    <3>5. Sound(r, marked, base[r], sent[r], 0, k)
      BY <1>2, <1>5, <2>1, <3>2, <3>3, <3>4, StateChanged
    <3>6. \A S, o : Found("check", S, o, k)
      BY <3>2 DEF Found, Preparing, Publishing
    <3>. QED  BY <3>1, <3>5, <3>6
  <2>2. CASE j.attempts # <<>>
    <3>. DEFINE a == [Last(j) EXCEPT !.execution = "returned", !.verdict = v]
                k == WithLast(j, a)
    <3>1. SaveAs(k, "judge")
      BY <2>2 DEF Returned
    <3>2. a \in Attempt /\ a.execution = "returned"
      BY <1>1, <2>2, LastAttempt DEF Attempt, Verdict
    <3>. HIDE DEF a
    <3>3. Continues(j, k) /\ Last(k) = a /\ k.state = j.state /\ k.receipt = "none"
      BY <1>1, <1>2, <2>2, <3>2, LastReplaced
    <3>. HIDE DEF k
    <3>4. k.state = "post_verification_running"
      BY <1>2, <2>2, <3>3 DEF Executing
    <3>5. Sound(r, marked, base[r], sent[r], 0, k)
      BY <1>2, <1>5, <2>2, <3>2, <3>3, <3>4, SoundContinued
    <3>6. \A S, o : Found("judge", S, o, k)
      BY <3>2, <3>3 DEF Found, Continues
    <3>. QED  BY <3>1, <3>5, <3>6
  <2>. QED  BY <2>1, <2>2
<1>7. /\ op' \in Operation /\ op'.pc = "saving" /\ op'.request = r /\ op'.journal = k /\ op'.next = next
  BY <1>1, <1>6 DEF SaveAs, Operation, Place, Sound, WellFormed
<1>8. TypeOK'
  BY <1>1, <1>3, <1>4, <1>6, <1>7 DEF IInv, TypeOK, Queued, Sound
<1>9. DiskSound'
  <2>1. ASSUME NEW q \in Request
        PROVE  IF disk'[q] = None THEN Unqueued(q)' ELSE SoundOf(q, disk[q])'
    <3>1. CASE q = r
      BY <1>1, <1>3, <1>4, <1>5, <3>1 DEF SoundOf
    <3>2. CASE q # r
      <4>1. IF disk[q] = None THEN Unqueued(q) ELSE SoundOf(q, disk[q])
        BY DEF IInv, DiskSound
      <4>. QED  BY <1>3, <1>4, <3>2, <4>1 DEF SoundOf, Unqueued
    <3>. QED  BY <3>1, <3>2
  <2>. QED  BY <2>1 DEF DiskSound
<1>10. LandedMarked'
  BY <1>3 DEF IInv, LandedMarked
<1>11. SentOnce'
  <2>1. \A q \in Request : open'[q] <= 1
    BY <1>4 DEF IInv, SentOnce
  <2>. QED  BY <1>3, <2>1 DEF IInv, SentOnce
<1>12. OpSound'
  <2>1. SoundOf(op.request, op.journal)'
    BY <1>3, <1>4, <1>6, <1>7 DEF SoundOf
  <2>2. Found(Target(op), sent[op.request], open[op.request], op.journal)'
    BY <1>6, <1>7 DEF Target
  <2>3. Synced' /\ GuardHeld'
    BY <1>7 DEF Synced, GuardHeld
  <2>. QED  BY <1>1, <1>3, <1>6, <1>7, <2>1, <2>2, <2>3 DEF OpSound
<1>. QED  BY <1>8, <1>9, <1>10, <1>11, <1>12 DEF IInv

\* What is recorded of another request does not depend on this one's marker.
LEMMA MarkedSound ==
    ASSUME NEW r, NEW M, NEW N, NEW b, NEW S, NEW o, NEW j, Sound(r, M, b, S, o, j), r \in M <=> r \in N
    PROVE  Sound(r, N, b, S, o, j)
BY DEF Sound, AttemptsPublished, PublicationKnown

\* An announced publication that takes place is known.
LEMMA PublishedSound ==
    ASSUME NEW r, NEW M, NEW b, NEW S, NEW o, NEW j, Sound(r, M, b, S, o, j), j.state = "publishing"
    PROVE  Sound(r, M \cup {r}, b, S, o, j)
BY DEF Sound, AttemptsPublished, PublicationKnown, Publishing

\* The transaction takes place, seen or unseen.
LEMMA SwapKeeps ==
    ASSUME IInv, op.pc = "transaction", Swapped(op.request, op.journal),
           UNCHANGED <<disk, facts, sent, open, drift>>, faults' \in 0 .. MaxFaults,
           \/ SaveAs([op.journal EXCEPT !.state = "published"], "attempt")
           \/ Raised
    PROVE  IInv'
<1>. DEFINE r == op.request
            j == op.journal
            k == [j EXCEPT !.state = "published"]
<1>1. /\ op \in Operation /\ r \in Request /\ disk[r] # None /\ j \in Journal /\ WellFormed(j)
      /\ SoundOf(r, j) /\ Found("transaction", sent[r], open[r], j) /\ disk[r] = j
  BY Running DEF Target, Synced
<1>2. j.state = "publishing" /\ j.receipt = "none"
  BY <1>1 DEF Found
<1>3. j.attempts = <<>>
  BY <1>1, <1>2 DEF SoundOf, Sound, AttemptsPublished
<1>4. /\ r \notin marked /\ main' = r /\ marked' = marked \cup {r} /\ landed' = [landed EXCEPT ![r] = @ + 1]
      /\ UNCHANGED <<disk, base, snapshot, review, sent, open, drift>>
  BY DEF Swapped, facts
<1>5. Sound(r, marked', base[r], sent[r], open[r], j)
  BY <1>1, <1>2, <1>4, PublishedSound DEF SoundOf
<1>6. /\ k \in Journal /\ k.state = "published" /\ k.receipt = "none" /\ k.attempts = <<>>
      /\ k.expected = j.expected /\ k.verification = j.verification /\ k.review = j.review
  BY <1>1, <1>2, <1>3 DEF Journal, State, Publishing
<1>7. WellFormed(k)
  BY <1>1, <1>2, <1>3, <1>6 DEF WellFormed, Publishing
<1>8. Sound(r, marked', base[r], sent[r], open[r], k)
  BY <1>2, <1>3, <1>4, <1>5, <1>6, <1>7, StateChanged DEF Publishing
<1>9. DiskSound'
  <2>1. ASSUME NEW q \in Request
        PROVE  IF disk'[q] = None THEN Unqueued(q)' ELSE SoundOf(q, disk[q])'
    <3>1. CASE q = r
      BY <1>1, <1>4, <1>5, <3>1 DEF SoundOf
    <3>2. CASE q # r
      <4>1. IF disk[q] = None THEN Unqueued(q) ELSE SoundOf(q, disk[q])
        BY DEF IInv, DiskSound
      <4>2. q \in marked <=> q \in marked'
        BY <1>4, <3>2
      <4>. QED  BY <1>4, <4>1, <4>2, MarkedSound DEF SoundOf, Unqueued
    <3>. QED  BY <3>1, <3>2
  <2>. QED  BY <2>1 DEF DiskSound
<1>10. LandedMarked' /\ landed' \in [Request -> Nat]
  <2>1. landed \in [Request -> Nat] /\ \A q \in Request : landed[q] = IF q \in marked THEN 1 ELSE 0
    BY DEF IInv, TypeOK, LandedMarked
  <2>2. landed[r] = 0
    BY <1>1, <1>4, <2>1
  <2>3. landed' = [landed EXCEPT ![r] = 1]
    BY <1>4, <2>2
  <2>. QED  BY <1>1, <1>4, <2>1, <2>3 DEF LandedMarked
<1>11. SentOnce'
  BY <1>4 DEF IInv, SentOnce
<1>12. op' \in Operation /\ OpSound' /\ (op' = Idle \/ WellFormed(op'.journal))
  <2>1. CASE SaveAs(k, "attempt")
    <3>1. /\ op' \in Operation /\ op'.pc = "saving" /\ op'.request = r /\ op'.journal = k
          /\ op'.next = "attempt"
      BY <1>1, <1>6, <2>1 DEF SaveAs, Operation, Place
    <3>2. SoundOf(op.request, op.journal)'
      BY <1>4, <1>8, <3>1 DEF SoundOf
    <3>3. Found(Target(op), sent[op.request], open[op.request], op.journal)'
      BY <1>6, <3>1 DEF Target, Found
    <3>4. Synced' /\ GuardHeld'
      BY <3>1 DEF Synced, GuardHeld
    <3>. QED  BY <1>1, <1>4, <1>7, <3>1, <3>2, <3>3, <3>4 DEF OpSound
  <2>2. CASE Raised /\ op.handled
    <3>1. ~InPost(op)
      BY <1>2 DEF InPost
    <3>2. Goto("rejecting")
      BY <2>2, <3>1 DEF Raised, Thrown
    <3>3. /\ op' \in Operation /\ op'.pc = "rejecting" /\ op'.request = r /\ op'.journal = j
      BY <1>1, <3>2 DEF Goto, Operation, Place
    <3>4. SoundOf(op.request, op.journal)'
      BY <1>4, <1>5, <3>3 DEF SoundOf
    <3>5. Found(Target(op), sent[op.request], open[op.request], op.journal)'
      BY <3>3 DEF Target, Found
    <3>6. Synced' /\ GuardHeld'
      BY <3>3 DEF Synced, GuardHeld
    <3>. QED  BY <1>1, <1>4, <3>3, <3>4, <3>5, <3>6 DEF OpSound
  <2>3. CASE Raised /\ ~op.handled
    <3>1. op' = Idle
      BY <1>2, <2>3 DEF Raised, Thrown, InPost
    <3>. QED  BY <3>1 DEF OpSound, Operation, Idle, Place
  <2>. QED  BY <2>1, <2>2, <2>3
<1>13. TypeOK'
  BY <1>1, <1>4, <1>10, <1>12 DEF IInv, TypeOK, Queued, Commit
<1>. QED  BY <1>9, <1>10, <1>11, <1>12, <1>13 DEF IInv

LEMMA TransactionKeeps == IInv /\ (Transaction \/ TransactionUnseen) => IInv'
<1>. SUFFICES ASSUME IInv, Transaction \/ TransactionUnseen PROVE IInv'
  OBVIOUS
<1>1. op.pc = "transaction" /\ drift \in 0 .. MaxDrift /\ faults \in 0 .. MaxFaults
  BY DEF Transaction, TransactionUnseen, At, IInv, TypeOK
<1>2. CASE Transaction
  <2>1. CASE Swapped(op.request, op.journal) /\ SaveAs([op.journal EXCEPT !.state = "published"], "attempt")
    BY <1>1, <1>2, <2>1, SwapKeeps DEF Transaction
  <2>2. CASE Raised /\ UNCHANGED <<git, landed>>
    <3>1. Framed
      BY <1>1, <1>2, <2>2 DEF Transaction, Framed, history
    <3>. QED  BY <1>1, <2>2, <3>1, Throws DEF Raised
  <2>. QED  BY <1>2, <2>1, <2>2 DEF Transaction
<1>3. CASE TransactionUnseen
  <2>1. faults' \in 0 .. MaxFaults
    BY <1>1, <1>3, BoundsAssumption DEF TransactionUnseen
  <2>. QED  BY <1>1, <1>3, <2>1, SwapKeeps DEF TransactionUnseen
<1>. QED  BY <1>2, <1>3
-----------------------------------------------------------------------------
(* Saving.                                                                  *)

\* A journal is stored, and the operation goes on in a sound way.
LEMMA Stores ==
    ASSUME IInv, NEW r \in Request, NEW j, SoundOf(r, j),
           disk' = [disk EXCEPT ![r] = j],
           UNCHANGED <<git, facts, history>>,
           drift' \in 0 .. MaxDrift, faults' \in 0 .. MaxFaults,
           \/ op' = Idle
           \/ /\ op' \in Operation /\ op'.request = r /\ op'.pc # "idle" /\ op'.pc # "transaction"
              /\ op'.pc = "saving" => op'.next \notin {"saving", "transaction", "rejecting", "awaiting"}
              /\ SoundOf(r, op'.journal)
              /\ Found(Target(op)', sent[r], open[r], op'.journal)
              /\ op'.pc \in {"saving", "rejecting", "awaiting"} \/ op'.journal = j
    PROVE  IInv'
<1>. USE DEF git, facts, history
<1>1. j \in Journal /\ j # None /\ WellFormed(j)
  BY JournalAssumption DEF SoundOf, Sound, WellFormed
<1>2. /\ disk'[r] = j /\ \A q \in Request : q # r => disk'[q] = disk[q]
      /\ disk' \in [Request -> Journal \cup {None}]
  BY <1>1 DEF IInv, TypeOK
<1>3. TypeOK'
  <2>1. op' \in Operation /\ (op' = Idle \/ WellFormed(op'.journal))
    <3>1. CASE op' = Idle
      BY <3>1 DEF Operation, Idle, Place
    <3>2. CASE op' # Idle
      <4>1. op' \in Operation /\ SoundOf(r, op'.journal)
        BY <3>2
      <4>. QED  BY <4>1 DEF SoundOf, Sound
    <3>. QED  BY <3>1, <3>2
  <2>2. \A q \in Request : disk'[q] # None => WellFormed(disk'[q])
    BY <1>1, <1>2 DEF IInv, TypeOK, Queued
  <2>. QED  BY <1>2, <2>1, <2>2 DEF IInv, TypeOK, Queued
<1>4. DiskSound'
  BY <1>1, <1>2 DEF IInv, DiskSound, SoundOf, Unqueued
<1>5. LandedMarked' /\ SentOnce'
  BY DEF IInv, LandedMarked, SentOnce
<1>6. OpSound'
  <2>1. CASE op' = Idle
    BY <2>1 DEF OpSound
  <2>2. CASE op' # Idle
    <3>1. /\ op'.request = r /\ op'.pc # "idle" /\ op'.pc # "transaction"
          /\ op'.pc = "saving" => op'.next \notin {"saving", "transaction", "rejecting", "awaiting"}
          /\ disk'[r] # None
      BY <1>1, <1>2, <2>2
    <3>2. SoundOf(op.request, op.journal)' /\ Found(Target(op), sent[op.request], open[op.request], op.journal)'
      BY <2>2 DEF SoundOf
    <3>3. Synced' /\ GuardHeld'
      BY <1>2, <2>2 DEF Synced, GuardHeld
    <3>. QED  BY <3>1, <3>2, <3>3 DEF OpSound
  <2>. QED  BY <2>1, <2>2
<1>. QED  BY <1>3, <1>4, <1>5, <1>6 DEF IInv

LEMMA SaveKeeps == IInv /\ (Save \/ SaveFails) => IInv'
<1>. SUFFICES ASSUME IInv, Save \/ SaveFails PROVE IInv'
  OBVIOUS
<1>. DEFINE r == op.request
            j == op.journal
<1>1. /\ op.pc = "saving" /\ op \in Operation /\ r \in Request /\ disk[r] # None
      /\ WellFormed(j) /\ SoundOf(r, j) /\ Found(op.next, sent[r], open[r], j)
      /\ op.next \notin {"saving", "transaction", "rejecting", "awaiting"}
  BY Running DEF Save, SaveFails, At, Target
<1>2. drift \in 0 .. MaxDrift /\ faults \in 0 .. MaxFaults /\ MaxFaults \in Nat
  BY BoundsAssumption DEF IInv, TypeOK
<1>3. CASE Save
  <2>1. disk' = [disk EXCEPT ![r] = j] /\ UNCHANGED <<git, facts, history, drift, faults>>
    BY <1>3 DEF Save
  <2>2. CASE op' = Idle
    BY <1>1, <1>2, <2>1, <2>2, Stores
  <2>3. CASE op.next # "idle" /\ Goto(op.next)
    <3>1. /\ op' \in Operation /\ op'.pc = op.next
          /\ op'.request = r /\ op'.journal = j
      BY <1>1, <2>3 DEF Goto, Operation
    <3>2. Target(op)' = op.next
      BY <1>1, <3>1 DEF Target
    <3>. QED  BY <1>1, <1>2, <2>1, <2>3, <3>1, <3>2, Stores
  <2>. QED  BY <1>3, <2>2, <2>3 DEF Save
<1>4. CASE SaveFails
  <2>1. faults' \in 0 .. MaxFaults /\ UNCHANGED <<git, facts, history, drift>> /\ Raised
    BY <1>2, <1>4 DEF SaveFails
  <2>2. CASE UNCHANGED disk
    <3>1. Framed
      BY <1>2, <2>1, <2>2 DEF Framed
    <3>. QED  BY <1>1, <2>1, <3>1, Throws DEF Raised
  <2>3. CASE disk' = [disk EXCEPT ![r] = j]
    <3>1. CASE InPost(op)
      <4>1. j.attempts # <<>>
        BY <1>1, <3>1 DEF InPost, WellFormed
      <4>2. SoundOf(r, PostFailed(j))
        BY <1>1, <4>1, PostFailedSound DEF SoundOf
      <4>3. PostFailed(j) \in Journal
        BY <4>2 DEF SoundOf, Sound, WellFormed
      <4>4. SaveAs(PostFailed(j), "idle")
        BY <2>1, <3>1 DEF Raised, Thrown
      <4>5. /\ op' \in Operation /\ op'.pc = "saving" /\ op'.next = "idle"
            /\ op'.request = r /\ op'.journal = PostFailed(j)
        BY <1>1, <4>3, <4>4 DEF SaveAs, Operation, Place
      <4>6. Found(Target(op)', sent[r], open[r], op'.journal)
        BY <4>5 DEF Target, Found
      <4>. QED  BY <1>1, <1>2, <2>1, <2>3, <4>2, <4>5, <4>6, Stores
    <3>2. CASE ~InPost(op) /\ op.handled
      <4>1. Goto("rejecting")
        BY <2>1, <3>2 DEF Raised, Thrown
      <4>2. /\ op' \in Operation /\ op'.pc = "rejecting"
            /\ op'.request = r /\ op'.journal = j
        BY <1>1, <4>1 DEF Goto, Operation, Place
      <4>3. Found(Target(op)', sent[r], open[r], op'.journal)
        BY <4>2 DEF Target, Found
      <4>. QED  BY <1>1, <1>2, <2>1, <2>3, <4>2, <4>3, Stores
    <3>3. CASE ~InPost(op) /\ ~op.handled
      <4>1. op' = Idle
        BY <2>1, <3>3 DEF Raised, Thrown
      <4>. QED  BY <1>1, <1>2, <2>1, <2>3, <4>1, Stores
    <3>. QED  BY <3>1, <3>2, <3>3
  <2>. QED  BY <1>4, <2>2, <2>3 DEF SaveFails
<1>. QED  BY <1>3, <1>4

\* A journal that the handler takes back was not published, or has a receipt.
LEMMA HandledSound ==
    ASSUME NEW r, NEW M, NEW b, NEW S, NEW o, NEW j, Sound(r, M, b, S, o, j), ~Kept(j.state),
           NEW state \in {"waiting_review", "rejected"}
    PROVE  Sound(r, M, b, S, o, [j EXCEPT !.state = state])
<1>. DEFINE k == [j EXCEPT !.state = state]
<1>1. j \in Journal
  BY DEF Sound, WellFormed
<1>2. /\ k \in Journal /\ k.state = state /\ k.expected = j.expected
      /\ k.verification = j.verification /\ k.review = j.review
      /\ k.attempts = j.attempts /\ k.receipt = j.receipt
  BY <1>1 DEF Journal, State, Converged
<1>. HIDE DEF k
<1>3. WellFormed(k)
  BY <1>2 DEF Sound, WellFormed, Publishing
<1>4. AttemptsPublished(r, M, k) /\ ReceiptOfAttempt(k) /\ PublicationKnown(r, M, k)
  BY <1>2 DEF Sound, AttemptsPublished, ReceiptOfAttempt, PublicationKnown, Publishing, Kept
<1>5. SentOf(S, o, k)
  BY <1>2 DEF Sound, SentOf, Kept, Last
<1>6. Sound(r, M, b, S, o, k)
  BY <1>2, <1>3, <1>4, <1>5 DEF Sound
<1>. QED  BY <1>6 DEF k

LEMMA HandleKeeps == IInv /\ Handle => IInv'
<1>. SUFFICES ASSUME IInv, Handle PROVE IInv'
  OBVIOUS
<1>. DEFINE r == op.request
            j == op.journal
<1>1. r \in Request /\ SoundOf(r, j)
  BY Running DEF Handle
<1>2. drift \in 0 .. MaxDrift /\ faults \in 0 .. MaxFaults
  BY DEF IInv, TypeOK
<1>3. op' = Idle /\ UNCHANGED <<git, facts, history, drift, faults>>
  BY DEF Handle
<1>4. CASE UNCHANGED disk
  BY <1>2, <1>3, <1>4, Ends DEF Framed
<1>5. ASSUME NEW state \in {"waiting_review", "rejected"}, ~Kept(j.state),
             disk' = [disk EXCEPT ![r] = [j EXCEPT !.state = state]]
      PROVE  IInv'
  <2>1. SoundOf(r, [j EXCEPT !.state = state])
    BY <1>1, <1>5, HandledSound DEF SoundOf
  <2>. QED  BY <1>1, <1>2, <1>3, <1>5, <2>1, Stores
<1>. QED  BY <1>4, <1>5 DEF Handle
-----------------------------------------------------------------------------
(* Beginnings, faults and everybody else.                                   *)

LEMMA Resting ==
    ASSUME IInv, op.pc = "idle"
    PROVE  op = Idle
BY DEF IInv, OpSound

LEMMA IntegrateKeeps ==
    ASSUME IInv, NEW r \in Request, Integrate(r)
    PROVE  IInv'
<1>. DEFINE j == Created(r)
<1>1. disk[r] = None /\ base[r] # None /\ snapshot[r] # 0
  BY DEF Integrate, Accepted
<1>2. j \in Journal /\ j.attempts = <<>> /\ Len(j.attempts) = 0
  <2>1. base[r] \in Commit /\ snapshot[r] \in Version \ {0} /\ 0 \in Version
    BY <1>1, BoundsAssumption DEF IInv, TypeOK, Version
  <2>2. <<>> \in Seq(Attempt) /\ Len(<<>>) = 0
    OBVIOUS
  <2>. QED  BY <2>1, <2>2 DEF Created, Journal, State, Verdict, Receipt
<1>3. j.state = "created" /\ j.expected = base[r] /\ j.receipt = "none"
  BY DEF Created
<1>4. Unqueued(r)
  BY <1>1 DEF IInv, DiskSound
<1>5. SoundOf(r, j)
  <2>1. WellFormed(j)
    BY <1>2, <1>3, BoundsAssumption DEF WellFormed, Publishing
  <2>2. AttemptsPublished(r, marked, j) /\ ReceiptOfAttempt(j) /\ PublicationKnown(r, marked, j)
    BY <1>2, <1>3, <1>4 DEF AttemptsPublished, ReceiptOfAttempt, PublicationKnown, Unqueued
  <2>3. SentOf(sent[r], open[r], j)
    BY <1>2, <1>4, BoundsAssumption DEF SentOf, Unqueued
  <2>. QED  BY <1>3, <2>1, <2>2, <2>3 DEF SoundOf, Sound
<1>. HIDE DEF j
<1>6. /\ disk' = [disk EXCEPT ![r] = j]
      /\ op' = [Idle EXCEPT !.pc = "accept", !.request = r, !.journal = j, !.handled = TRUE]
      /\ UNCHANGED <<git, facts, history, drift, faults>>
  BY DEF Integrate, j
<1>7. /\ op' \in Operation /\ op'.request = r /\ op'.pc = "accept" /\ op'.journal = j
  BY <1>2, <1>6 DEF Operation, Idle, Place
<1>8. Found(Target(op)', sent[r], open[r], op'.journal)
  BY <1>3, <1>7 DEF Found, Target, Preparing, Publishing
<1>9. drift \in 0 .. MaxDrift /\ faults \in 0 .. MaxFaults
  BY DEF IInv, TypeOK
<1>. QED  BY <1>5, <1>6, <1>7, <1>8, <1>9, Stores

\* An operation that begins with the stored journal, or is about to save.
LEMMA Begins ==
    ASSUME IInv, UNCHANGED <<disk, git, facts, history, drift, faults>>,
           NEW r \in Request, disk[r] # None,
           op' \in Operation, op'.request = r, op'.pc \notin {"idle", "transaction"},
           op'.pc = "saving" => op'.next \notin {"saving", "transaction", "rejecting", "awaiting"},
           SoundOf(r, op'.journal),
           Found(Target(op)', sent[r], open[r], op'.journal),
           op'.pc = "saving" \/ op'.journal = disk[r]
    PROVE  IInv'
<1>. USE DEF git, facts, history
<1>1. TypeOK'
  BY DEF IInv, TypeOK, SoundOf, Sound, Queued, Operation
<1>2. DiskSound'
  BY DEF IInv, DiskSound, SoundOf, Unqueued
<1>3. LandedMarked' /\ SentOnce'
  BY DEF IInv, LandedMarked, SentOnce
<1>4. OpSound'
  <2>1. SoundOf(op.request, op.journal)' /\ Found(Target(op), sent[op.request], open[op.request], op.journal)'
    BY DEF SoundOf
  <2>2. Synced' /\ GuardHeld'
    BY DEF Synced, GuardHeld
  <2>. QED  BY <2>1, <2>2 DEF OpSound
<1>. QED  BY <1>1, <1>2, <1>3, <1>4 DEF IInv

LEMMA ContinueKeeps ==
    ASSUME IInv, NEW r \in Request, Continue(r)
    PROVE  IInv'
<1>. DEFINE j == disk[r]
<1>1. /\ j # None /\ j.receipt = "none"
      /\ j.state \notin {"integration_verification_running", "rejected"}
      /\ UNCHANGED <<disk, git, facts, history, drift, faults>>
  BY DEF Continue
<1>2. SoundOf(r, j) /\ j \in Journal /\ WellFormed(j)
  BY <1>1 DEF IInv, DiskSound, SoundOf, Sound, WellFormed
<1>3. PICK pc \in {"post", "recover", "publish", "accept"} :
        /\ op' = [Idle EXCEPT !.pc = pc, !.request = r, !.journal = j, !.handled = (pc # "post")]
        /\ pc = "post" => j.state \in {"post_verification_ready", "post_verification_running"}
        /\ pc = "recover" => j.state = "publishing"
        /\ pc = "publish" => j.state = "published"
        /\ pc = "accept" => j.state \notin {"post_verification_ready", "post_verification_running",
                                            "publishing", "published"}
  <2>. DEFINE pc == IF j.state \in {"post_verification_ready", "post_verification_running"} THEN "post"
                    ELSE IF j.state = "publishing" THEN "recover"
                    ELSE IF j.state = "published" THEN "publish"
                    ELSE "accept"
  <2>1. op' = [Idle EXCEPT !.pc = pc, !.request = r, !.journal = j, !.handled = (pc # "post")]
    BY DEF Continue
  <2>2. /\ pc \in {"post", "recover", "publish", "accept"}
        /\ pc = "post" => j.state \in {"post_verification_ready", "post_verification_running"}
        /\ pc = "recover" => j.state = "publishing"
        /\ pc = "publish" => j.state = "published"
        /\ pc = "accept" => j.state \notin {"post_verification_ready", "post_verification_running",
                                            "publishing", "published"}
    OBVIOUS
  <2>. HIDE DEF pc
  <2>. QED  BY <2>1, <2>2
<1>4. /\ op' \in Operation /\ op'.request = r /\ op'.pc = pc /\ op'.journal = j
  <2>1. (pc # "post") \in BOOLEAN
    OBVIOUS
  <2>. QED  BY <1>2, <1>3, <2>1 DEF Operation, Idle, Place
<1>5. Found(pc, sent[r], open[r], j)
  <2>1. CASE pc = "post"
    BY <1>1, <1>2, <1>3, <2>1 DEF Found, WellFormed
  <2>2. CASE pc # "post"
    BY <1>1, <1>3, <2>2 DEF Found, Preparing, Publishing
  <2>. QED  BY <2>1, <2>2
<1>6. Target(op)' = pc
  BY <1>4 DEF Target
<1>. QED  BY <1>1, <1>2, <1>4, <1>5, <1>6, Begins

LEMMA RecoverPostMergeKeeps ==
    ASSUME IInv, NEW r \in Request, RecoverPostMerge(r)
    PROVE  IInv'
<1>. DEFINE j == disk[r]
            k == NewAttempt(j)
<1>1. /\ j # None /\ j.receipt = "recovery_required" /\ KnownExecution(Last(j))
      /\ r \in marked /\ Len(j.attempts) < MaxAttempts
      /\ op' = [Idle EXCEPT !.pc = "saving", !.request = r, !.journal = k, !.next = "post"]
      /\ UNCHANGED <<disk, git, facts, history, drift, faults>>
  BY DEF RecoverPostMerge, Published
<1>2. Sound(r, marked, base[r], sent[r], open[r], j)
  BY <1>1 DEF IInv, DiskSound, SoundOf
<1>3. /\ j.verification = "passed" /\ j.review # 0 /\ j.state # "integration_verification_running"
      /\ Last(j).execution \notin {"running", "unknown"}
      /\ r \in marked /\ Len(j.attempts) < MaxAttempts
  BY <1>1, <1>2 DEF Sound, ReceiptOfAttempt, AttemptsPublished, KnownExecution
<1>4. SoundOf(r, k) /\ k.attempts # <<>> /\ k.receipt = "none"
  <2>1. Sound(r, marked, base[r], sent[r], open[r], k) /\ k.attempts # <<>> /\ k.receipt = "none"
    BY <1>2, <1>3, NewAttemptSound
  <2>. QED  BY <2>1 DEF SoundOf
<1>. HIDE DEF k
<1>5. /\ op' \in Operation /\ op'.request = r /\ op'.pc = "saving" /\ op'.next = "post" /\ op'.journal = k
  BY <1>1, <1>4 DEF Operation, Idle, Place, SoundOf, Sound, WellFormed
<1>6. Found(Target(op)', sent[r], open[r], op'.journal)
  BY <1>4, <1>5 DEF Found, Target
<1>. QED  BY <1>1, <1>4, <1>5, <1>6, Begins

LEMMA FaultKeeps == IInv /\ (Fault \/ Crash) => IInv'
<1>. SUFFICES ASSUME IInv, Fault \/ Crash PROVE IInv'
  OBVIOUS
<1>1. Framed /\ op.pc # "idle"
  BY BoundsAssumption DEF Fault, Crash, At, Framed, IInv, TypeOK
<1>2. CASE Fault
  BY <1>1, <1>2, Throws DEF Fault, Raised
<1>3. CASE Crash
  BY <1>1, <1>3, Ends DEF Crash
<1>. QED  BY <1>2, <1>3

LEMMA DeliverKeeps ==
    ASSUME IInv, NEW r \in Request, Deliver(r)
    PROVE  IInv'
<1>1. /\ op = Idle /\ base[r] = None /\ base' = [base EXCEPT ![r] = main]
      /\ snapshot' = [snapshot EXCEPT ![r] = 1]
      /\ UNCHANGED <<disk, op, main, marked, sent, open, landed, drift, faults>>
  BY Resting DEF Deliver, At, git, history
<1>2. review' \in [Request -> Version] /\ snapshot' \in [Request -> Version]
  <2>1. 0 \in Version /\ 1 \in Version
    BY BoundsAssumption DEF Version
  <2>. QED  BY <1>1, <2>1 DEF Deliver, IInv, TypeOK
<1>3. disk[r] = None
  <2>1. None \notin Commit
    BY RequestAssumption DEF Commit
  <2>2. disk[r] # None => disk[r].expected = None /\ disk[r].expected \in Commit
    BY <1>1 DEF IInv, DiskSound, SoundOf, Sound, WellFormed, Journal
  <2>. QED  BY <2>1, <2>2
<1>4. TypeOK'
  BY <1>1, <1>2 DEF IInv, TypeOK, Queued
<1>5. DiskSound'
  <2>1. ASSUME NEW q \in Request
        PROVE  IF disk'[q] = None THEN Unqueued(q)' ELSE SoundOf(q, disk[q])'
    <3>1. IF disk[q] = None THEN Unqueued(q) ELSE SoundOf(q, disk[q])
      BY DEF IInv, DiskSound
    <3>2. CASE q = r
      BY <1>1, <1>3, <3>1, <3>2 DEF Unqueued
    <3>3. CASE q # r
      <4>1. base'[q] = base[q]
        BY <1>1, <3>3 DEF IInv, TypeOK
      <4>. QED  BY <1>1, <3>1, <4>1 DEF SoundOf, Unqueued
    <3>. QED  BY <3>2, <3>3
  <2>. QED  BY <2>1 DEF DiskSound
<1>6. LandedMarked' /\ SentOnce'
  BY <1>1 DEF IInv, LandedMarked, SentOnce
<1>7. OpSound'
  BY <1>1 DEF OpSound
<1>. QED  BY <1>4, <1>5, <1>6, <1>7 DEF IInv

\* Other facts leave what is recorded as it is, and the guard keeps those it
\* has looked at.
LEMMA ChangeFactsKeeps ==
    ASSUME IInv, NEW r \in Request, NEW v \in Version, ChangeFacts(r, v)
    PROVE  IInv'
<1>1. /\ UNCHANGED <<disk, op, main, marked, base, sent, open, landed, faults>>
      /\ drift' = drift + 1 /\ drift < MaxDrift
      /\ \/ /\ ~Guarded(r) /\ snapshot' = [snapshot EXCEPT ![r] = v] /\ review' = review
         \/ /\ Guarded(r) => r \in External
            /\ review' = [review EXCEPT ![r] = v] /\ snapshot' = snapshot
  BY DEF ChangeFacts, Drift, git, history
<1>2. TypeOK'
  <2>1. drift' \in 0 .. MaxDrift
    BY <1>1, BoundsAssumption DEF IInv, TypeOK
  <2>2. snapshot' \in [Request -> Version] /\ review' \in [Request -> Version]
    BY <1>1 DEF IInv, TypeOK
  <2>. QED  BY <1>1, <2>1, <2>2 DEF IInv, TypeOK, Queued
<1>3. DiskSound' /\ LandedMarked' /\ SentOnce'
  BY <1>1 DEF IInv, DiskSound, SoundOf, Unqueued, LandedMarked, SentOnce
<1>4. OpSound'
  <2>1. CASE op = Idle
    BY <1>1, <2>1 DEF OpSound
  <2>2. CASE op # Idle
    <3>1. op.request \in Request /\ GuardHeld /\ OpSound
      BY <2>2 DEF IInv, OpSound
    <3>2. ASSUME op.pc = "transaction"
          PROVE  /\ snapshot'[op.request] = snapshot[op.request]
                 /\ op.request \in External \/ review'[op.request] = review[op.request]
      BY <1>1, <3>1, <3>2 DEF Guarded, At, IInv, TypeOK
    <3>3. GuardHeld'
      BY <1>1, <3>1, <3>2 DEF GuardHeld, Unchanged, Accepted
    <3>4. SoundOf(op.request, op.journal)' <=> SoundOf(op.request, op.journal)
      BY <1>1 DEF SoundOf
    <3>5. Synced' <=> Synced
      BY <1>1 DEF Synced
    <3>. QED  BY <1>1, <2>2, <3>1, <3>3, <3>4, <3>5 DEF OpSound, Target
  <2>. QED  BY <2>1, <2>2
<1>. QED  BY <1>2, <1>3, <1>4 DEF IInv

LEMMA MoveMainKeeps ==
    ASSUME IInv, NEW c \in Commit, MoveMain(c)
    PROVE  IInv'
<1>1. /\ UNCHANGED <<disk, op, marked, base, snapshot, review, sent, open, landed, faults>>
      /\ drift' = drift + 1 /\ drift < MaxDrift /\ main' = c
  BY DEF MoveMain, Drift, facts, history
<1>2. TypeOK'
  BY <1>1, BoundsAssumption DEF IInv, TypeOK, Queued
<1>3. DiskSound' /\ LandedMarked' /\ SentOnce'
  BY <1>1 DEF IInv, DiskSound, SoundOf, Unqueued, LandedMarked, SentOnce
<1>4. OpSound'
  BY <1>1 DEF IInv, OpSound, SoundOf, Target, Synced, GuardHeld, Unchanged, Accepted
<1>. QED  BY <1>2, <1>3, <1>4 DEF IInv
-----------------------------------------------------------------------------
(* The invariant, and what follows from it.                                 *)

LEMMA Initially == Init => IInv
<1>. SUFFICES ASSUME Init PROVE IInv
  OBVIOUS
<1>. USE DEF Init
<1>1. TypeOK
  <2>1. Idle \in Operation
    BY DEF Idle, Operation, Place
  <2>2. 0 \in Version /\ 0 \in 0 .. MaxDrift /\ 0 \in 0 .. MaxFaults
    BY BoundsAssumption DEF Version
  <2>3. Queued = {}
    BY DEF Queued
  <2>4. sent \in [Request -> [0 .. MaxAttempts -> Nat]]
    OBVIOUS
  <2>. QED  BY <2>1, <2>2, <2>3, <2>4 DEF TypeOK, Commit
<1>2. DiskSound
  BY DEF DiskSound, Unqueued
<1>3. LandedMarked /\ SentOnce
  BY DEF LandedMarked, SentOnce
<1>. QED  BY <1>1, <1>2, <1>3 DEF IInv, OpSound

LEMMA NextKeeps == IInv /\ [Next]_vars => IInv'
<1>. SUFFICES ASSUME IInv, [Next]_vars PROVE IInv'
  OBVIOUS
<1>1. CASE UNCHANGED vars
  <2>1. UNCHANGED <<disk, op, main, marked, base, snapshot, review, sent, open, landed, drift, faults>>
    BY <1>1 DEF vars, git, facts, history
  <2>2. TypeOK'
    BY <2>1 DEF IInv, TypeOK, Queued
  <2>3. DiskSound' /\ LandedMarked' /\ SentOnce'
    BY <2>1 DEF IInv, DiskSound, SoundOf, Unqueued, LandedMarked, SentOnce
  <2>4. OpSound'
    BY <2>1 DEF IInv, OpSound, SoundOf, Target, Synced, GuardHeld, Unchanged, Accepted
  <2>. QED  BY <2>2, <2>3, <2>4 DEF IInv
<1>2. ASSUME NEW r \in Request, Integrate(r) \/ Continue(r) \/ RecoverPostMerge(r)
      PROVE  IInv'
  BY <1>2, IntegrateKeeps, ContinueKeeps, RecoverPostMergeKeeps
<1>3. CASE Progress
  <2>1. CASE Save \/ Handle
    BY <2>1, SaveKeeps, HandleKeeps
  <2>2. CASE Recover \/ Drifted \/ Accept \/ Prepare \/ Execute
    BY <2>2, RecoverKeeps, PrepareKeeps, ExecuteKeeps
  <2>3. CASE \E v \in {"passed", "failed"} : Returned(v)
    BY <2>3, ReturnedKeeps
  <2>4. CASE Check \/ Review
    BY <2>4, CheckKeeps
  <2>5. CASE Publish \/ CheckFacts \/ Announce \/ Guard
    BY <2>5, PublishKeeps
  <2>6. CASE Transaction
    BY <2>6, TransactionKeeps
  <2>7. CASE StartAttempt \/ RunPost \/ Judge
    BY <2>7, StartAttemptKeeps, RunPostKeeps, JudgeKeeps
  <2>. QED  BY <1>3, <2>1, <2>2, <2>3, <2>4, <2>5, <2>6, <2>7 DEF Progress
<1>4. CASE SaveFails \/ TransactionUnseen \/ Fault \/ Crash
  BY <1>4, SaveKeeps, TransactionKeeps, FaultKeeps
<1>5. ASSUME NEW r \in Request, Deliver(r) \/ (\E v \in Version : ChangeFacts(r, v))
      PROVE  IInv'
  BY <1>5, DeliverKeeps, ChangeFactsKeeps
<1>6. ASSUME NEW c \in Commit, MoveMain(c)
      PROVE  IInv'
  BY <1>6, MoveMainKeeps
<1>. QED  BY <1>1, <1>2, <1>3, <1>4, <1>5, <1>6 DEF Next

LEMMA Invariance == Spec => []IInv
<1>. QED  BY Initially, NextKeeps, PTL DEF Spec

\* The journals have their shape, and a journal whose state says so has a
\* verification that passed, an authorization and an attempt.
THEOREM TypeCorrect == Spec => []TypeOK
<1>1. IInv => TypeOK
  BY DEF IInv
<1>. QED  BY <1>1, Invariance, PTL

\* A request is published once, and a verification of it is sent once, for
\* any number of requests, attempts, changes and faults.
THEOREM Once == Spec => []EffectsOnce
<1>1. IInv => EffectsOnce
  <2>. SUFFICES ASSUME IInv, NEW r \in Request
                PROVE  landed[r] <= 1 /\ open[r] <= 1 /\ \A k \in 0 .. MaxAttempts : sent[r][k] <= 1
    BY DEF EffectsOnce
  <2>1. landed[r] <= 1
    BY DEF IInv, LandedMarked
  <2>. QED  BY <2>1 DEF IInv, SentOnce
<1>. QED  BY <1>1, Invariance, PTL

\* Whatever fails after main was moved, the marker and the journal know of it.
THEOREM NeverForgotten == Spec => []LandedKnown
<1>1. IInv => LandedKnown
  <2>. SUFFICES ASSUME IInv, NEW r \in Request, landed[r] > 0
                PROVE  r \in marked /\ (disk[r].state \in Publishing \/ disk[r].receipt # "none")
    BY DEF LandedKnown
  <2>1. r \in marked
    BY DEF IInv, LandedMarked
  <2>2. SoundOf(r, disk[r])
    BY <2>1 DEF IInv, DiskSound, Unqueued
  <2>. QED  BY <2>1, <2>2 DEF SoundOf, Sound, PublicationKnown
<1>. QED  BY <1>1, Invariance, PTL

\* What is completed was published, and its last verification was sent, has
\* returned and has passed.
THEOREM CompletedVerified == Spec => []CompletedWasVerified
<1>1. IInv => CompletedWasVerified
  <2>. SUFFICES ASSUME IInv, NEW r \in Request, disk[r] # None, disk[r].state = "completed"
                PROVE  /\ landed[r] = 1
                       /\ Last(disk[r]).execution = "returned" /\ Last(disk[r]).verdict = "passed"
                       /\ sent[r][Len(disk[r].attempts)] = 1
    BY DEF CompletedWasVerified
  <2>. DEFINE j == disk[r]
  <2>1. Sound(r, marked, base[r], sent[r], open[r], j) /\ j \in Journal
    BY DEF IInv, DiskSound, SoundOf, Sound, WellFormed
  <2>2. /\ j.attempts # <<>> /\ r \in marked
        /\ Last(j).execution = "returned" /\ Last(j).verdict = "passed"
    BY <2>1 DEF Sound, ReceiptOfAttempt, AttemptsPublished
  <2>3. landed[r] = 1
    BY <2>2 DEF IInv, LandedMarked
  <2>4. Len(j.attempts) \in 1 .. Len(j.attempts)
    BY <2>1, <2>2, LastAttempt
  <2>5. sent[r][Len(j.attempts)] = 1
    BY <2>1, <2>2, <2>4 DEF Sound, SentOf, Last
  <2>. QED  BY <2>2, <2>3, <2>5
<1>. QED  BY <1>1, Invariance, PTL

\* The journal and main agree (JournalTrue).
THEOREM JournalAndMain == Spec => []JournalTrue
<1>1. LandedKnown /\ CompletedWasVerified => JournalTrue
  BY DEF JournalTrue
<1>. QED  BY <1>1, NeverForgotten, CompletedVerified, PTL


\* main is moved to a request only while the facts hold that it was authorized
\* with, and after its intent was saved.
THEOREM Currency == Spec => PublishedCurrent
<1>. DEFINE Current(r) ==
       /\ disk[r].state = "publishing" /\ disk[r].verification = "passed"
       /\ main = disk[r].expected /\ base[r] = main
       /\ snapshot[r] = disk[r].snapshot
       /\ disk[r].review # 0 /\ (r \in External \/ review[r] = disk[r].review)
<1>1. ASSUME IInv, [Next]_vars, NEW r \in Request, landed'[r] # landed[r]
      PROVE  Current(r)
  <2>1. op.pc = "transaction" /\ Swapped(op.request, op.journal)
    <3>1. landed' # landed
      BY <1>1
    <3>2. CASE Transaction
      BY <3>1, <3>2 DEF Transaction, At
    <3>3. CASE TransactionUnseen
      BY <3>3 DEF TransactionUnseen, At
    <3>4. CASE Progress /\ ~Transaction
      BY <3>1, <3>4 DEF Progress, Save, Handle, Recover, Drifted, Accept, Prepare, Execute, Returned,
                        Check, Review, Publish, CheckFacts, Announce, Guard, StartAttempt, RunPost,
                        Judge, Step, history
    <3>5. CASE SaveFails \/ Fault \/ Crash
      BY <3>1, <3>5 DEF SaveFails, Fault, Crash, history
    <3>6. ASSUME NEW q \in Request, Integrate(q) \/ Continue(q) \/ RecoverPostMerge(q) \/ Deliver(q)
          PROVE  FALSE
      BY <3>1, <3>6 DEF Integrate, Continue, RecoverPostMerge, Deliver, history
    <3>7. ASSUME NEW q \in Request, NEW v \in Version, ChangeFacts(q, v)
          PROVE  FALSE
      BY <3>1, <3>7 DEF ChangeFacts, history
    <3>8. ASSUME NEW c \in Commit, MoveMain(c)
          PROVE  FALSE
      BY <3>1, <3>8 DEF MoveMain, history
    <3>9. ~UNCHANGED vars
      BY <3>1 DEF vars, history
    <3>. QED  BY <1>1, <3>2, <3>3, <3>4, <3>5, <3>6, <3>7, <3>8, <3>9 DEF Next
  <2>2. r = op.request
    BY <1>1, <2>1 DEF Swapped, IInv, TypeOK
  <2>3. /\ SoundOf(r, op.journal) /\ disk[r] = op.journal /\ GuardHeld
        /\ op.journal.state = "publishing"
    BY <1>1, <2>1, <2>2, Running DEF Synced, Target, Found
  <2>4. /\ op.journal.verification = "passed" /\ op.journal.review # 0
        /\ op.journal.expected = base[r]
    BY <2>3 DEF SoundOf, Sound, WellFormed, Publishing
  <2>. QED  BY <2>1, <2>2, <2>3, <2>4 DEF GuardHeld, Unchanged, Swapped
<1>2. ASSUME IInv, [Next]_vars
      PROVE  \A r \in Request : landed'[r] # landed[r] => Current(r)
  BY <1>1, <1>2
<1>3. IInv /\ [Next]_vars => [\A r \in Request : landed'[r] # landed[r] => Current(r)]_vars
  BY <1>2
<1>. QED  BY <1>3, Invariance, PTL DEF Spec, PublishedCurrent
=============================================================================
