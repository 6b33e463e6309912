----------------------------- MODULE Projection -----------------------------
(***************************************************************************)
(* TaskProjection (orchestration/projection.py): the status of a node of   *)
(* the plan is written to its card of the task provider, where users write *)
(* too.  Several processes may sync with the same ledger: a controller and *)
(* the one that takes over from it.                                        *)
(*                                                                         *)
(* One node and its card: nodes are synced one after the other and share   *)
(* nothing but the revision of the snapshot.  A snapshot is the number of  *)
(* its revision, and the node changes in each; Desired[n] is what          *)
(* _STATUS_MAP makes of its status.                                        *)
(***************************************************************************)
EXTENDS Naturals

CONSTANTS
    Snapshot,      \* revisions of the supervisor, 1 .. n
    Desired,       \* Desired[n]: status of the card for snapshot n
    MaxVersion,    \* bound on the versions of the card
    Process,       \* processes that sync
    Nobody         \* nobody has the lease; nothing is pending or acknowledged

VARIABLES
    card,        \* version, status and last writer of the card
    touched,     \* whether a user wrote to it after the projection had begun
    inflight,    \* compare-and-sets under way whose caller has stopped waiting
    ledger,      \* source_revision, and state, pending and ack of the entry
    holder,      \* who has the lease of the ledger
    sync         \* sync[p]: place of p in sync, its snapshot, entry and card

provider == <<card, touched, inflight>>
projectionVars == <<provider, ledger, holder, sync>>

Statuses == {"todo", "in_progress", "in_review", "blocked"}
Intent(expected, target) == [version |-> expected.version, status |-> expected.status,
                             target |-> target]
Away == [pc |-> "idle", snap |-> 0, entry |-> Nobody, current |-> Nobody]

ProjectionInit ==
    /\ card = [version |-> 0, status |-> "todo", by |-> "user"]
    /\ touched = FALSE /\ inflight = {}
    /\ ledger = [source |-> 0, state |-> "pending", pending |-> Nobody, ack |-> Nobody]
    /\ holder = Nobody
    /\ sync = [p \in Process |-> Away]
-----------------------------------------------------------------------------
(* The provider.                                                            *)

\* Every write has a version of its own, which nothing under way expects.
Write(who, status) ==
    /\ card.version < MaxVersion
    /\ card' = [version |-> card.version + 1, status |-> status, by |-> who]
    /\ inflight' = {}

Begun == ledger.pending # Nobody \/ ledger.ack # Nobody

UserWrites ==
    /\ \E status \in Statuses \cup {"done"} : status # card.status /\ Write("user", status)
    /\ touched' = (touched \/ Begun)
    /\ UNCHANGED <<ledger, holder, sync>>

Matches(i) == card.version = i.version /\ card.status = i.status

\* A request may be executed after its caller has stopped waiting, or never.
Late(i) ==
    /\ i \in inflight
    /\ Write("us", i.target)
    /\ UNCHANGED <<touched, ledger, holder, sync>>
-----------------------------------------------------------------------------
(* sync.  Every _save is a mutate under the lease; it raises when the lease *)
(* was lost, which ends the sync.                                           *)

Entry(n) == [state |-> ledger.state, pending |-> ledger.pending, ack |-> ledger.ack,
             desired |-> Desired[n]]

Goto(p, pc) == sync' = [sync EXCEPT ![p].pc = pc]
Leave(p) == sync' = [sync EXCEPT ![p] = [Away EXCEPT !.pc = "finish"]]

\* Mutant of Fresh: the revision of the ledger is not looked at.
FreshAlways(n) == TRUE

\* _validate_source refuses a snapshot that is older than the ledger.
Fresh(n) == n >= ledger.source

\* acquire waits for nobody; a refusal comes before it.
Begin(p, n) ==
    /\ sync[p] = Away /\ holder = Nobody
    /\ Fresh(n)
    /\ holder' = p
    /\ sync' = [sync EXCEPT ![p] = [Away EXCEPT !.pc = "prepare", !.snap = n]]
    /\ UNCHANGED <<provider, ledger>>

Prepare(p) ==
    /\ sync[p].pc = "prepare"
    /\ IF holder = p /\ Fresh(sync[p].snap)
       THEN /\ ledger' = [ledger EXCEPT !.source = sync[p].snap]
            /\ sync' = [sync EXCEPT ![p].pc = "read", ![p].entry = Entry(sync[p].snap)]
       ELSE Leave(p) /\ UNCHANGED ledger
    /\ UNCHANGED <<provider, holder>>

Save(p, entry) == ledger' = [ledger EXCEPT !.state = entry.state, !.pending = entry.pending,
                                           !.ack = entry.ack]

\* An update of the entry, or the end of the sync; "finish" is its last place.
Store(p, entry, pc) ==
    IF holder = p
    THEN Save(p, entry) /\ (IF pc = "finish" THEN Leave(p) ELSE Goto(p, pc))
    ELSE Leave(p) /\ UNCHANGED ledger

Offline(p) == [sync[p].entry EXCEPT !.state = "offline", !.pending = ledger.pending]
Acked(p, c, owned) ==
    [sync[p].entry EXCEPT !.state = IF owned THEN "acked" ELSE "converged_unowned",
          !.pending = Nobody, !.ack = [version |-> c.version, status |-> c.status, owned |-> owned]]
Conflict(p) == [sync[p].entry EXCEPT !.state = "conflict", !.pending = Nobody]

\* A conflict is final.  Else the card is read, and its execution must have been
\* claimed before the card may say in_progress.
Read(p) ==
    /\ sync[p].pc = "read"
    /\ \/ /\ sync[p].entry.state = "conflict"
          /\ Leave(p) /\ UNCHANGED ledger
       \/ /\ sync[p].entry.state # "conflict"
          /\ \/ sync' = [sync EXCEPT ![p].pc = "judge", ![p].current = card] /\ UNCHANGED ledger
             \/ Store(p, Offline(p), "finish")
    /\ UNCHANGED <<provider, holder>>

\* Mutant of Undisturbed: an intent that is open is taken up again, whatever came.
UndisturbedIfOpen(p, c) == sync[p].entry.pending # Nobody \/ sync[p].entry.ack = Nobody

\* No sign that anybody else has written since the last intent or acknowledgement.
Undisturbed(p, c) ==
    LET e == sync[p].entry
    IN  \/ /\ e.pending # Nobody
           /\ c.version = e.pending.version /\ c.status = e.pending.status
        \/ /\ e.pending = Nobody /\ e.ack # Nobody
           /\ c.version = e.ack.version /\ c.status = e.ack.status
        \/ /\ e.pending = Nobody /\ e.ack = Nobody
           /\ c.status \in {"todo", e.desired}

\* The target of an open intent is there, but who wrote it cannot be told.
Landed(i, c) == c.status = i.target /\ c.version > i.version

\* The card is as it should be or not, but it is not known to be ours.
Unowned(e, c) ==
    IF e.pending # Nobody THEN Landed(e.pending, c)
    ELSE e.ack # Nobody /\ ~e.ack.owned /\ c.version = e.ack.version /\ c.status = e.ack.status

\* The entry that _sync_node stores; one that is pending goes on to the write.
Judged(p) ==
    LET e == sync[p].entry
        c == sync[p].current
    IN  CASE c.status = "done" -> Conflict(p)
          [] c.status # "done" /\ Unowned(e, c) ->
                IF c.status = e.desired THEN Acked(p, c, FALSE) ELSE Conflict(p)
          [] OTHER ->
                IF ~Undisturbed(p, c) THEN Conflict(p)
                ELSE IF c.status = e.desired THEN Acked(p, c, TRUE)
                ELSE [e EXCEPT !.state = "pending", !.pending = Intent(c, e.desired)]

Judge(p) ==
    /\ sync[p].pc = "judge"
    /\ Store(p, Judged(p), IF Judged(p).state = "pending" THEN "cas" ELSE "finish")
    /\ UNCHANGED <<provider, holder>>

\* compare_and_set_status: its answer, or an error that may hide its success, its
\* failure, or that it is still under way.
Cas(p) ==
    LET i == Intent(sync[p].current, sync[p].entry.desired)
    IN  /\ sync[p].pc = "cas"
        /\ \/ /\ Matches(i) /\ Write("us", i.target)
              /\ \/ sync' = [sync EXCEPT ![p].pc = "done", ![p].current = card']
                 \/ Goto(p, "recover")
           \/ /\ inflight' \in {inflight, inflight \cup {j \in {i} : Matches(j)}}
              /\ Goto(p, "recover") /\ UNCHANGED card
        /\ UNCHANGED <<touched, ledger, holder>>

Done(p) ==
    /\ sync[p].pc = "done"
    /\ Store(p, Acked(p, sync[p].current, TRUE), "finish")
    /\ UNCHANGED <<provider, holder>>

\* Mutant of Recovered: the write counts as ours when the target is there.
RecoveredOwned(p, i) == Acked(p, card, Landed(i, card))

\* _recover_cas looks once more.
Recovered(p, i) ==
    IF Landed(i, card) THEN Acked(p, card, FALSE)
    ELSE IF card.version = i.version /\ card.status = i.status THEN Offline(p)
    ELSE Conflict(p)

Recover(p) ==
    LET i == Intent(sync[p].current, sync[p].entry.desired)
    IN  /\ sync[p].pc = "recover"
        /\ Store(p, Recovered(p, i), "finish") \/ Store(p, Offline(p), "finish")
        /\ UNCHANGED <<provider, holder>>

\* The release of a lease that was lost is refused, and the refusal ignored.
Finish(p) ==
    /\ sync[p].pc = "finish"
    /\ sync' = [sync EXCEPT ![p] = Away]
    /\ holder' = IF holder = p THEN Nobody ELSE holder
    /\ UNCHANGED <<provider, ledger>>

\* The lease ends by the clock, whatever its holder is doing.
Expire ==
    /\ holder # Nobody /\ holder' = Nobody
    /\ UNCHANGED <<provider, ledger, sync>>

\* The process ends anywhere in sync.
Crash(p) ==
    /\ sync[p].pc \notin {"idle", "finish"}
    /\ sync' = [sync EXCEPT ![p] = Away]
    /\ UNCHANGED <<provider, ledger, holder>>

ProjectionNext ==
    \/ \E p \in Process :
          \/ \E n \in Snapshot : Begin(p, n)
          \/ Prepare(p) \/ Read(p) \/ Judge(p) \/ Cas(p) \/ Done(p) \/ Recover(p) \/ Finish(p)
          \/ Crash(p)
    \/ UserWrites \/ \E i \in inflight : Late(i)
    \/ Expire

ProjectionSpec == ProjectionInit /\ [][ProjectionNext]_projectionVars
-----------------------------------------------------------------------------
Intents == [version : 0 .. MaxVersion, status : Statuses, target : Statuses]
Cards == [version : 0 .. MaxVersion, status : Statuses \cup {"done"}, by : {"us", "user"}]
States == {"pending", "acked", "converged_unowned", "offline", "conflict"}
Acks == [version : 0 .. MaxVersion, status : Statuses, owned : BOOLEAN]

\* Shapes; a conflict has no intent, what is acknowledged has an acknowledgement.
ProjectionTypeOK ==
    /\ card \in Cards /\ touched \in BOOLEAN /\ inflight \subseteq Intents
    /\ ledger \in [source : {0} \cup Snapshot, state : States,
                   pending : Intents \cup {Nobody}, ack : Acks \cup {Nobody}]
    /\ ledger.state \in {"acked", "converged_unowned"} => ledger.ack # Nobody /\ ledger.pending = Nobody
    /\ ledger.state = "conflict" => ledger.pending = Nobody
    /\ holder \in Process \cup {Nobody}
    /\ \A p \in Process :
          /\ sync[p].pc \in {"idle", "prepare", "read", "judge", "cas", "done", "recover", "finish"}
          /\ sync[p].current \in Cards \cup {Nobody}

\* Whatever is lost, delayed or done by two processes at once: the projection
\* writes to a card only as long as no user has written to it since it began, and
\* never to one that is done.
KeepsCard == card' # card /\ card'.by = "us" => ~touched /\ card.status # "done"

\* The ledger does not claim what it cannot know: an acknowledgement is of the
\* card as it was, and is owned only while no user has written.
AckTrue ==
    ledger.ack # Nobody =>
        /\ ledger.ack.version <= card.version
        /\ ledger.ack.version = card.version =>
              /\ ledger.ack.status = card.status
              /\ ledger.ack.owned => ~touched

\* The ledger never goes back to an older snapshot.
KeepsSource == ledger'.source >= ledger.source
=============================================================================
