----------------------------- MODULE BoardCards -----------------------------
(***************************************************************************)
(* The cards of a requirement at the task provider                         *)
(* (automation/task_attach.py): its space card, which only shows its       *)
(* state, and its work card.  Processes ensure them under provider_locked; *)
(* sessions choose a task without it (select_tasks); users move and delete *)
(* cards.  A call of the provider may fail before or after its effect, and *)
(* a process may die at any time.                                          *)
(*                                                                         *)
(* The requirement is open and has no phase gate.  Titles, texts and       *)
(* labels of cards are right: a card that is not is refused by all.        *)
(***************************************************************************)
EXTENDS Naturals, FiniteSets

CONSTANTS
    Process,    \* processes
    MaxCards    \* bound on the cards of a kind

VARIABLES
    space,   \* space[i]: status of the i-th space card
    work,    \* work[i]: the i-th work card: status, work label, moved by a user
    meta,    \* meta.json: the two cards, 0 if unknown, requirement_space_closed, pending
    sync     \* sync[p]: place of p, what it has read, and the card it works at

cardsVars == <<space, work, meta, sync>>

Card == 1 .. MaxCards
Away == [pc |-> "idle", meta |-> [space |-> 0, closed |-> FALSE, work |-> 0, pending |-> FALSE],
         saw |-> {}, done |-> {}, active |-> {}, card |-> 0]
NoCard == [status |-> "none", ours |-> FALSE, moved |-> FALSE]

CardsInit ==
    /\ space = [i \in Card |-> "none"]
    /\ work = [i \in Card |-> NoCard]
    /\ meta = Away.meta
    /\ sync = [p \in Process |-> Away]

At(p, pc) == sync[p].pc = pc
Goto(p, pc) == sync' = [sync EXCEPT ![p].pc = pc]
Leave(p) == sync' = [sync EXCEPT ![p] = Away]
\* provider_locked, which select_tasks does not take; a failure is recorded after it.
Unlocked(p) == sync[p].pc \in {"idle", "select", "activate", "request", "work failed"}
LockFree == \A p \in Process : Unlocked(p)
\* The id of a new card.
New(cards) == {i \in Card : cards[i] /\ \A j \in Card : cards[j] => i <= j}
NewSpace == New([i \in Card |-> space[i] = "none"])
NewWork == New([i \in Card |-> work[i].status = "none"])
-----------------------------------------------------------------------------
(* ensure_requirement_space_task.                                           *)

SpaceBegins(p) ==
    /\ At(p, "idle") /\ LockFree
    /\ sync' = [sync EXCEPT ![p].pc = "space list", ![p].meta = meta]
    /\ UNCHANGED <<space, work, meta>>

SpaceLists(p) ==
    /\ At(p, "space list")
    /\ sync' = [sync EXCEPT ![p].pc = "space",
                            ![p].saw = {i \in Card : space[i] \in {"todo", "done"}},
                            ![p].done = {i \in Card : space[i] = "done"}]
    /\ UNCHANGED <<space, work, meta>>

\* Mutant of Candidates: a card that was not recorded is overlooked.
CandidatesRecorded(p) == sync[p].saw \cap {sync[p].meta.space}
\* By label and by title.
Candidates(p) == sync[p].saw

\* The recorded card cannot be found, or there are several; or it was closed and is gone.
SpaceRefuses(p) ==
    /\ At(p, "space")
    /\ \/ sync[p].meta.space \notin Candidates(p) \cup {0}
       \/ Cardinality(Candidates(p)) > 1
       \/ Candidates(p) = {} /\ sync[p].meta.closed
    /\ Leave(p) /\ UNCHANGED <<space, work, meta>>

\* Mutant of Reopened: that the card is open again is recorded at the end only.
ReopenedLater(i) == [meta EXCEPT !.space = i]
Reopened(i) == [meta EXCEPT !.space = i, !.closed = FALSE]

SpaceFound(p) ==
    /\ At(p, "space")
    /\ \E i \in Candidates(p) :
          /\ Candidates(p) = {i} /\ sync[p].meta.space \in {0, i}
          /\ \/ /\ i \in sync[p].done
                /\ meta' = [meta EXCEPT !.space = i, !.closed = TRUE]
                /\ Leave(p)
             \/ /\ i \notin sync[p].done
                /\ meta' = Reopened(i)
                /\ sync' = [sync EXCEPT ![p].pc = "reconcile", ![p].card = i]
    /\ UNCHANGED <<space, work>>

\* reconcile_task reads the card again, and repairs it with a compare-and-set.
Reconciles(p) ==
    /\ At(p, "reconcile")
    /\ \/ space[sync[p].card] # "gone" /\ space' = [space EXCEPT ![sync[p].card] = "todo"]
       \/ UNCHANGED space
    /\ Leave(p) /\ UNCHANGED <<work, meta>>

SpaceCreates(p) ==
    /\ At(p, "space") /\ Candidates(p) = {}
    /\ sync[p].meta.space = 0 /\ ~sync[p].meta.closed
    /\ \/ \E i \in NewSpace :
             /\ space' = [space EXCEPT ![i] = "todo"]
             /\ \/ sync' = [sync EXCEPT ![p].pc = "space record", ![p].card = i]
                \/ Leave(p)
       \/ Leave(p) /\ UNCHANGED space
    /\ UNCHANGED <<work, meta>>

SpaceRecords(p) ==
    /\ At(p, "space record")
    /\ meta' = [meta EXCEPT !.space = sync[p].card, !.closed = FALSE]
    /\ Leave(p) /\ UNCHANGED <<space, work>>
-----------------------------------------------------------------------------
(* ensure_requirement_board_task.                                           *)

Visible(card) == card.status \in {"todo", "in_progress"}

WorkBegins(p) ==
    /\ At(p, "idle") /\ LockFree
    /\ sync' = [sync EXCEPT ![p].pc = "work list", ![p].meta = meta]
    /\ UNCHANGED <<space, work, meta>>

WorkLists(p) ==
    /\ At(p, "work list")
    /\ \/ sync' = [sync EXCEPT ![p].pc = "work", ![p].saw = {i \in Card : Visible(work[i])}]
       \/ Goto(p, "work failed")
    /\ UNCHANGED <<space, work, meta>>

\* Mutant of Takes: only the recorded card.
TakesRecorded(p, i) == i = sync[p].meta.work
\* The recorded card, else one with the label, else the first.
Takes(p, i) ==
    IF sync[p].meta.work \in sync[p].saw THEN i = sync[p].meta.work
    ELSE IF \E j \in sync[p].saw : work[j].ours THEN work[i].ours
    ELSE \A j \in sync[p].saw : i <= j

WorkFound(p) ==
    /\ At(p, "work")
    /\ \E i \in sync[p].saw :
          Takes(p, i) /\ meta' = [meta EXCEPT !.work = i, !.pending = FALSE]
    /\ Leave(p) /\ UNCHANGED <<space, work>>

WorkCreates(p) ==
    /\ At(p, "work") /\ \A i \in sync[p].saw : ~Takes(p, i)
    /\ \/ \E i \in NewWork :
             /\ work' = [work EXCEPT ![i] = [NoCard EXCEPT !.status = "todo", !.ours = TRUE]]
             /\ \/ sync' = [sync EXCEPT ![p].pc = "work record", ![p].card = i]
                \/ Goto(p, "work failed")
       \/ Goto(p, "work failed") /\ UNCHANGED work
    /\ UNCHANGED <<space, meta>>

WorkRecords(p) ==
    /\ sync[p].pc \in {"work record", "work failed"}
    /\ meta' = IF At(p, "work record")
               THEN [meta EXCEPT !.work = sync[p].card, !.pending = FALSE]
               ELSE [meta EXCEPT !.pending = TRUE]
    /\ Leave(p) /\ UNCHANGED <<space, work>>
-----------------------------------------------------------------------------
(* select_tasks, of a session with a request and without a task.            *)

SelectLists(p) ==
    /\ At(p, "idle")
    /\ sync' = [sync EXCEPT ![p].pc = "select",
                            ![p].saw = {i \in Card : work[i].status = "todo" /\ work[i].ours},
                            ![p].active = {i \in Card : work[i].status = "in_progress"}]
    /\ UNCHANGED <<space, work, meta>>

\* One that is in progress is taken; several are ambiguous.
Select(p) ==
    /\ At(p, "select")
    /\ IF sync[p].active # {} THEN Leave(p)
       ELSE IF Cardinality(sync[p].saw) = 1
       THEN sync' = [sync EXCEPT ![p].pc = "activate", ![p].card = CHOOSE i \in sync[p].saw : TRUE]
       ELSE Goto(p, "request")
    /\ UNCHANGED <<space, work, meta>>

\* update_status, whatever the card has become.
Activates(p) ==
    /\ At(p, "activate")
    /\ \/ work' = [work EXCEPT ![sync[p].card].status = "in_progress"]
       \/ UNCHANGED work
    /\ Leave(p) /\ UNCHANGED <<space, meta>>

Requests(p) ==
    /\ At(p, "request")
    /\ \/ \E i \in NewWork : work' = [work EXCEPT ![i] = [NoCard EXCEPT !.status = "in_progress"]]
       \/ UNCHANGED work
    /\ Leave(p) /\ UNCHANGED <<space, meta>>
-----------------------------------------------------------------------------
(* Users (external), and the end of a process or of a call that fails.      *)

UserMovesSpace(i) ==
    /\ \/ space[i] = "todo" /\ space' = [space EXCEPT ![i] = "done"]
       \/ space[i] = "done" /\ space' = [space EXCEPT ![i] = "todo"]
       \/ space[i] \in {"todo", "done"} /\ space' = [space EXCEPT ![i] = "gone"]
    /\ UNCHANGED <<work, meta, sync>>

UserMovesWork(i) ==
    /\ work[i].status # "none"
    /\ \E status \in {"todo", "hidden"} \ {work[i].status} :
          work' = [work EXCEPT ![i].status = status, ![i].moved = TRUE]
    /\ UNCHANGED <<space, meta, sync>>

Dies(p) ==
    /\ ~At(p, "idle") /\ Leave(p)
    /\ UNCHANGED <<space, work, meta>>

\* The two cards share the lock and nothing else: each is explored by itself.
SpaceNext ==
    \/ \E p \in Process :
          \/ SpaceBegins(p) \/ SpaceLists(p) \/ SpaceRefuses(p) \/ SpaceFound(p)
          \/ Reconciles(p) \/ SpaceCreates(p) \/ SpaceRecords(p) \/ Dies(p)
    \/ \E i \in Card : UserMovesSpace(i)

WorkNext ==
    \/ \E p \in Process :
          \/ WorkBegins(p) \/ WorkLists(p) \/ WorkFound(p) \/ WorkCreates(p) \/ WorkRecords(p)
          \/ SelectLists(p) \/ Select(p) \/ Activates(p) \/ Requests(p) \/ Dies(p)
    \/ \E i \in Card : UserMovesWork(i)

CardsSpec == CardsInit /\ [][SpaceNext \/ WorkNext]_cardsVars
-----------------------------------------------------------------------------
\* Shapes; provider_locked has one holder.
CardsTypeOK ==
    /\ \A i \in Card : space[i] \in {"none", "todo", "done", "gone"}
    /\ \A i \in Card : work[i].status \in {"none", "todo", "in_progress", "hidden"}
    /\ meta.space \in 0 .. MaxCards /\ meta.work \in 0 .. MaxCards
    /\ Cardinality({p \in Process : ~Unlocked(p)}) <= 1

\* task_attach.py:141: there is one space card, although answers are lost and processes
\* die between its creation and its record; and one work card that no user has moved.
OneCard ==
    /\ Cardinality({i \in Card : space[i] \in {"todo", "done"}}) <= 1
    /\ Cardinality({i \in Card : work[i].ours /\ ~work[i].moved}) <= 1

\* task_attach.py:197: the space card is not opened while the file says that it was closed.
ClosedStays ==
    \A p \in Process : \A i \in Card :
        At(p, "reconcile") /\ sync'[p] = Away /\ space[i] = "done" /\ space'[i] = "todo"
            => ~meta.closed
=============================================================================
