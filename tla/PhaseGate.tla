----------------------------- MODULE PhaseGate ------------------------------
(***************************************************************************)
(* The phases of a requirement (phase_gate.py, phase_verification.py): a   *)
(* commit is verified, reviewed by another session, and given a gate; the  *)
(* gate allows the next phase to be activated; a gate that nothing stands  *)
(* on may be reopened.  Each record is a file of its own.  The requirement *)
(* is locked while a gate is issued or reopened, but git is not, and the   *)
(* change of phase goes over several files, the sessions and the task      *)
(* provider; it may be killed in between and taken up by another session.  *)
(*                                                                         *)
(* A fingerprint of a record is its number; that of the definition of a    *)
(* phase is its version in the commit.  What can only refuse a step (a     *)
(* dirty tree, a malformed record, an unreachable server) is not modelled: *)
(* the step is not taken.  One suite for each phase.                       *)
(***************************************************************************)
EXTENDS Naturals, FiniteSets

CONSTANTS
    LastPhase,     \* the phases are 0 .. LastPhase
    MaxCommit,     \* bound on the commits
    MaxGates,      \* bound on the gates issued
    Session,
    None

VARIABLES
    git,          \* HEAD, what each commit contains, and version of each definition in it
    receipts,     \* verification receipts: commit, activations before it
    review,       \* review[p]: the receipt it is about, or None
    gate,         \* gate[p]: number, commit, number of the previous one, receipt, and whether
                  \* HEAD stood still while it was issued; or None
    issued,       \* number of gates issued
    activation,   \* activation[p]: number of the gate it rests on, and session; or None
    journal,      \* journal[p]: of reopen: status, review and gate
    clerk,        \* who has the lock of the requirement over several steps: issue or reopen
    guard,        \* place of advance_next, under the lock of the provider
    current,      \* requirement_task_id of meta.json, as a phase
    card,         \* card[p]: status of the task of phase p
    bound         \* bound[s]: phases whose tasks s is bound to, {} if it is not active

records == <<receipts, review, gate, issued, activation, journal>>
gateVars == <<git, records, clerk, guard, current, card, bound>>

Phase == 0 .. LastPhase
Commits == 0 .. MaxCommit
Blank == [status |-> "none", review |-> None, gate |-> None]
Free == [op |-> "none", phase |-> 0, pc |-> "idle", look |-> 0, record |-> None]
Out == [pc |-> "out", phase |-> 0, session |-> None, gate |-> 0, status |-> "todo"]

GateInit ==
    /\ git = [head |-> 0, top |-> 0, above |-> [c \in Commits |-> {0}],
              definition |-> [c \in Commits |-> [p \in Phase |-> 0]]]
    /\ receipts = {}
    /\ review = [p \in Phase |-> None] /\ gate = [p \in Phase |-> None] /\ issued = 0
    /\ activation = [p \in Phase |-> None]
    /\ journal = [p \in Phase |-> Blank]
    /\ clerk = Free /\ guard = Out
    /\ current = 0
    /\ card = [p \in Phase |-> IF p = 0 THEN "in_progress" ELSE "todo"]
    /\ bound = [s \in Session |-> {0}]
-----------------------------------------------------------------------------
(* Git, the task provider and the sessions, which no lock of this code      *)
(* covers.                                                                  *)

\* git merge-base --is-ancestor
IsAncestor(a, c) == a \in git.above[c]

\* The record that is being issued is told (for the properties only) that HEAD has moved,
\* if there is a gate before it.
Disturbed ==
    IF clerk.record = None \/ clerk.phase = 0 THEN clerk
    ELSE [clerk EXCEPT !.record.still = FALSE]

CommitWork ==
    /\ git.top < MaxCommit
    /\ \E edited \in {{}} \cup {{p} : p \in 0 .. LastPhase - 1} :
          git' = [head |-> git.top + 1, top |-> git.top + 1,
                  above |-> [git.above EXCEPT ![git.top + 1] =
                      git.above[git.head] \cup {git.top + 1}],
                  definition |-> [git.definition EXCEPT ![git.top + 1] =
                      [p \in Phase |-> git.definition[git.head][p] + IF p \in edited THEN 1 ELSE 0]]]
    /\ clerk' = Disturbed
    /\ UNCHANGED <<records, guard, current, card, bound>>

Checkout ==
    /\ \E c \in 0 .. git.top : c # git.head /\ git' = [git EXCEPT !.head = c]
    /\ clerk' = Disturbed
    /\ UNCHANGED <<records, guard, current, card, bound>>

UserMovesCard ==
    /\ \E p \in Phase :
          /\ card[p] \in {"in_progress", "blocked"}
          /\ card' = [card EXCEPT ![p] = IF @ = "blocked" THEN "in_progress" ELSE "blocked"]
    /\ UNCHANGED <<git, records, clerk, guard, current, bound>>

SessionEnds ==
    /\ \E s \in Session : bound[s] # {} /\ bound' = [bound EXCEPT ![s] = {}]
    /\ UNCHANGED <<git, records, clerk, guard, current, card>>
-----------------------------------------------------------------------------
(* PhaseVerificationRunner.run, at a HEAD that is the same before and after. *)

Activations == Cardinality({p \in Phase : activation[p] # None})

Verify ==
    /\ clerk = Free
    /\ receipts' = receipts \cup {[commit |-> git.head, after |-> Activations]}
    /\ UNCHANGED <<git, review, gate, issued, activation, journal, clerk, guard, current, card, bound>>
-----------------------------------------------------------------------------
(* What makes a gate, and an activation, valid.                             *)

NotReopening(p) == journal[p].status # "pending"

\* Mutant of Frozen: the definition of a phase may change after its gate.
FrozenNever(p, h) == TRUE
\* _require_frozen_definition of the gate of p, when HEAD is h.
Frozen(p, h) == git.definition[gate[p].commit][p] = git.definition[h][p]

\* The end of _validate_activation: HEAD h contains the gate of p.
Contains(p, h) == IsAncestor(gate[p].commit, h)

\* _validate_activation, apart from the chain below and from HEAD: it rests on the gate
\* that is there.
RestsOn(p, a) == gate[p - 1] # None /\ a # None /\ a.gate = gate[p - 1].number

\* A gate g of phase p after the gate of the phase before it.
Follows(g, p) ==
    p > 0 =>
        /\ RestsOn(p, activation[p])
        /\ g.previous = gate[p - 1].number
        /\ IsAncestor(gate[p - 1].commit, g.commit)
        /\ g.receipt.after >= p

\* _validate_predecessor_chain for the gates that are stored, up to phase p, with the
\* activation that comes after it.  Git is not locked and each look reads HEAD anew:
\* outside the issue of a gate, where they are steps, a look may fall on any commit.
ChainTo(p) ==
    \A q \in 0 .. p :
        /\ gate[q] # None /\ NotReopening(q) /\ Follows(gate[q], q)
        /\ \E h, k \in 0 .. git.top : Frozen(q, h) /\ Contains(q, k)

\* _validate of a gate that is stored
ValidHere(p) ==
    /\ NotReopening(p) /\ gate[p].commit = git.head
    /\ p > 0 => ChainTo(p - 1) /\ current = p
    /\ Follows(gate[p], p)

\* Activation a of phase p may be written, and taken up.
Activates(p, a) == ChainTo(p - 1) /\ RestsOn(p, a)
-----------------------------------------------------------------------------
\* record_review_from_payload: by another session, at HEAD, with a receipt of it.
Review(p) ==
    /\ clerk = Free
    /\ review[p] = None /\ NotReopening(p)
    /\ \E r \in receipts :
          /\ r.commit = git.head
          /\ p > 0 => Activates(p, activation[p]) /\ current = p /\ r.after >= p
          /\ review' = [review EXCEPT ![p] = r]
    /\ UNCHANGED <<git, receipts, gate, issued, activation, journal, clerk, guard, current, card, bound>>
-----------------------------------------------------------------------------
(* issue_from_payload: under the lock, with the receipts queried again, and *)
(* _issue_validated.  Git is not locked: a step looks at HEAD once, and what *)
(* it reads besides cannot change meanwhile.                                *)

Clerk(op, p, pc, record) ==
    clerk' = [op |-> op, phase |-> p, pc |-> pc, look |-> p, record |-> record]

\* The clerk goes on when a look finds what it should, and gives up when it does not.
GoesOn(found, pc, look) ==
    clerk' = IF found THEN [clerk EXCEPT !.pc = pc, !.look = look] ELSE Free

IssueBegins(p) ==
    /\ clerk = Free /\ issued < MaxGates
    /\ NotReopening(p) /\ review[p] # None /\ review[p].commit = git.head
    /\ Clerk("issue", p, "revalidate", None)
    /\ UNCHANGED <<git, records, guard, current, card, bound>>

\* The record as it would be issued now.
Drafted(p) ==
    [number |-> issued + 1, commit |-> git.head, receipt |-> review[p], still |-> TRUE,
     previous |-> IF p > 0 THEN gate[p - 1].number ELSE 0]

\* A gate that is there already is not written again.  (HEAD is read once more for the
\* record; at another commit the receipts of the review are not those of the record.)
IssueDrafts ==
    LET p == clerk.phase
    IN  /\ clerk.pc = "revalidate"
        /\ IF review[p].commit = git.head /\ gate[p] = None /\ (p > 0 => gate[p - 1] # None)
           THEN Clerk("issue", p, "exact", Drafted(p))
           ELSE clerk' = Free
        /\ UNCHANGED <<git, records, guard, current, card, bound>>

\* _validate: HEAD, the definitions down the chain, HEAD again up the activations, and
\* HEAD at last.  (The code walks the lower chain again for each activation, which can
\* only refuse more.)
IssueChecks ==
    LET p == clerk.phase
        g == clerk.record
        q == clerk.look
        exact == NotReopening(p) /\ g.commit = git.head
    IN  /\ \/ /\ clerk.pc = "exact"
              /\ GoesOn(exact, IF p = 0 THEN "again" ELSE "frozen", p)
           \/ /\ clerk.pc = "frozen"
              /\ GoesOn(gate[q - 1] # None /\ NotReopening(q - 1) /\ Frozen(q - 1, git.head),
                        IF q > 1 THEN "frozen" ELSE "contains", q - 1)
           \/ /\ clerk.pc = "contains"
              /\ GoesOn(/\ Follows(gate[q], q) /\ RestsOn(q + 1, activation[q + 1])
                        /\ Contains(q, git.head),
                        IF q + 1 < p THEN "contains" ELSE "again", q + 1)
           \/ /\ clerk.pc = "again"
              /\ GoesOn(/\ Follows(g, p) /\ (p > 0 => current = p)
                        /\ g.receipt.commit = g.commit /\ exact,
                        "write", p)
        /\ UNCHANGED <<git, records, guard, current, card, bound>>

IssueWrites ==
    /\ clerk.pc = "write"
    /\ gate' = [gate EXCEPT ![clerk.phase] = clerk.record]
    /\ issued' = issued + 1
    /\ clerk' = Free
    /\ UNCHANGED <<git, receipts, review, activation, journal, guard, current, card,
                   bound>>
-----------------------------------------------------------------------------
(* reopen: journal, archive, then the files are removed, and the journal is *)
(* closed.                                                                  *)

\* Mutant of Reopenable: only the place of the requirement counts.
ReopenableIfCurrent(p) == current = p /\ card[p] # "done"
\* Nothing rests on the gate of p, and p is where the requirement is.
Reopenable(p) ==
    /\ p < LastPhase => activation[p + 1] = None
    /\ current = p
    /\ p > 0 => Activates(p, activation[p])

ReopenBegins(p) ==
    /\ clerk = Free /\ Reopenable(p)
    /\ \/ journal[p].status = "pending" /\ UNCHANGED journal
       \/ /\ journal[p].status # "pending"
          /\ review[p] # None \/ gate[p] # None
          /\ journal' = [journal EXCEPT ![p] = [status |-> "pending", review |-> review[p],
                                                gate |-> gate[p]]]
    /\ Clerk("reopen", p, "archive", None)
    /\ UNCHANGED <<git, receipts, review, gate, issued, activation, guard, current,
                   card, bound>>

\* What is there must be what was archived.
Unchanged(there, archived) == there # None => there = archived

ReopenArchives ==
    /\ clerk.pc = "archive"
    /\ LET p == clerk.phase
       IN  IF Unchanged(review[p], journal[p].review) /\ Unchanged(gate[p], journal[p].gate)
           THEN Clerk("reopen", p, "unlink review", None)
           ELSE clerk' = Free
    /\ UNCHANGED <<git, receipts, review, gate, issued, activation, journal, guard, current,
                   card, bound>>

ReopenRemoves ==
    LET p == clerk.phase
    IN  /\ \/ /\ clerk.pc = "unlink review"
              /\ review' = [review EXCEPT ![p] = None] /\ UNCHANGED gate
              /\ Clerk("reopen", p, "unlink gate", None)
           \/ /\ clerk.pc = "unlink gate"
              /\ gate' = [gate EXCEPT ![p] = None] /\ UNCHANGED review
              /\ Clerk("reopen", p, "close", None)
        /\ UNCHANGED <<git, receipts, issued, activation, journal, guard, current,
                       card, bound>>

ReopenCloses ==
    /\ clerk.pc = "close"
    /\ journal' = [journal EXCEPT ![clerk.phase] = Blank]
    /\ clerk' = Free
    /\ UNCHANGED <<git, receipts, review, gate, issued, activation, guard, current,
                   card, bound>>

ClerkDies ==
    /\ clerk # Free /\ clerk' = Free
    /\ UNCHANGED <<git, records, guard, current, card, bound>>
-----------------------------------------------------------------------------
(* advance_next: the activation is the journal of the transition; what      *)
(* follows may be done again by whoever may take it up.                     *)

Guard(pc) == guard' = [guard EXCEPT !.pc = pc]
Leave == guard' = Out
MayEnd(p) == card[p] \in {"in_progress", "done"}
MayOpen(p) == card[p] \in {"todo", "blocked", "in_progress"}

AdvanceBegins(s, p) ==
    /\ guard = Out /\ clerk = Free
    /\ \/ /\ activation[p + 1] # None /\ Activates(p + 1, activation[p + 1])
          /\ guard' = [Out EXCEPT !.pc = "take up", !.phase = p, !.session = s]
       \/ /\ activation[p + 1] = None
          /\ gate[p] # None /\ ValidHere(p)
          /\ MayEnd(p) /\ MayOpen(p + 1) /\ bound[s] \cap {p, p + 1} # {}
          /\ guard' = [Out EXCEPT !.pc = "activate", !.phase = p, !.session = s,
                                  !.gate = gate[p].number]
    /\ UNCHANGED <<git, records, clerk, current, card, bound>>

\* _write_activation looks again, under the lock of the requirement.
Activate ==
    LET p == guard.phase
        a == [gate |-> guard.gate, session |-> guard.session]
    IN  /\ guard.pc = "activate" /\ clerk = Free
        /\ IF Activates(p + 1, a)
           THEN activation' = [activation EXCEPT ![p + 1] = a] /\ Guard("take up")
           ELSE Leave /\ UNCHANGED activation
        /\ UNCHANGED <<git, receipts, review, gate, issued, journal, clerk, current,
                       card, bound>>

\* The session that wrote the activation goes first, as long as it is active.
TakeUp ==
    LET p == guard.phase
        s == guard.session
        a == activation[p + 1]
    IN  /\ guard.pc = "take up"
        /\ IF /\ MayEnd(p) /\ MayOpen(p + 1) /\ current \in {p, p + 1}
              /\ a.session # s => bound[a.session] = {}
              /\ bound[s] \in SUBSET {p, p + 1}
           THEN /\ bound' = [bound EXCEPT ![s] = IF @ = {} THEN {current} ELSE @]
                /\ guard' = [guard EXCEPT !.pc = "meta", !.status = card[p]]
           ELSE Leave /\ UNCHANGED bound
        /\ UNCHANGED <<git, records, clerk, current, card>>

MoveOn ==
    /\ guard.pc = "meta" /\ clerk = Free
    /\ current' = guard.phase + 1
    /\ Guard("rebind")
    /\ UNCHANGED <<git, records, clerk, card, bound>>

Rebind ==
    LET p == guard.phase
        s == guard.session
    IN  /\ guard.pc = "rebind"
        /\ IF bound[s] \cap {p, p + 1} # {}
           THEN bound' = [bound EXCEPT ![s] = (@ \ {p}) \cup {p + 1}] /\ Guard("end")
           ELSE Leave /\ UNCHANGED bound
        /\ UNCHANGED <<git, records, clerk, current, card>>

\* Compare-and-set, against the status that was read.
EndPhase ==
    /\ guard.pc = "end"
    /\ IF card[guard.phase] = guard.status
       THEN card' = [card EXCEPT ![guard.phase] = "done"] /\ Guard("open")
       ELSE Leave /\ UNCHANGED card
    /\ UNCHANGED <<git, records, clerk, current, bound>>

OpenPhase ==
    /\ guard.pc = "open"
    /\ card' = [card EXCEPT ![guard.phase + 1] = "in_progress"]
    /\ Leave
    /\ UNCHANGED <<git, records, clerk, current, bound>>

GuardDies ==
    /\ guard # Out /\ Leave
    /\ UNCHANGED <<git, records, clerk, current, card, bound>>

GateNext ==
    \/ CommitWork \/ Checkout \/ UserMovesCard \/ SessionEnds \/ Verify
    \/ \E p \in Phase :
          \/ Review(p) \/ IssueBegins(p) \/ ReopenBegins(p)
          \/ p < LastPhase /\ \E s \in Session : AdvanceBegins(s, p)
    \/ IssueDrafts \/ IssueChecks \/ IssueWrites
    \/ ReopenArchives \/ ReopenRemoves \/ ReopenCloses \/ ClerkDies
    \/ Activate \/ TakeUp \/ MoveOn \/ Rebind \/ EndPhase \/ OpenPhase \/ GuardDies

GateSpec == GateInit /\ [][GateNext]_gateVars
-----------------------------------------------------------------------------
Numbers == 0 .. MaxGates

\* Shapes; the locks are held by those that are between two of their steps.
GateTypeOK ==
    /\ git.head \in 0 .. git.top /\ git.top \in Commits
    /\ \A c \in 0 .. git.top : {0, c} \subseteq git.above[c] /\ git.above[c] \subseteq 0 .. c
    /\ \A r \in receipts : r.commit \in Commits /\ r.after \in Phase
    /\ \A p \in Phase :
          /\ gate[p] # None => gate[p].number \in 1 .. issued /\ gate[p].receipt \in receipts
          /\ review[p] # None => review[p] \in receipts
          /\ activation[p] # None => p > 0 /\ activation[p].gate \in Numbers
          /\ card[p] \in {"todo", "in_progress", "blocked", "done"}
    /\ issued \in Numbers /\ current \in Phase
    /\ clerk.op \in {"none", "issue", "reopen"} /\ (clerk = Free <=> clerk.op = "none")
    /\ guard.pc # "out" => guard.phase < LastPhase /\ guard.session \in Session

\* The commit of the gate of p has the definition that the gate before it was issued for.
Keeps(p) ==
    git.definition[gate[p].commit][p - 1] = git.definition[gate[p - 1].commit][p - 1]

\* phase_gate.py:1035 and 1993: whatever is reopened, rewritten, killed or moved in
\* git meanwhile, an activation rests on a gate that is still there and not being
\* removed, and each gate on the gate before it, by its number and its commit; it
\* was verified at its commit, after its phase had begun.  Its commit keeps the
\* definition of the gate before it if HEAD stood still from the draft to the record.
ChainStands ==
    /\ \A p \in 1 .. LastPhase :
          activation[p] # None =>
              /\ gate[p - 1] # None /\ gate[p - 1].number = activation[p].gate
              /\ NotReopening(p - 1)
    /\ \A p \in Phase :
          gate[p] # None =>
              /\ gate[p].receipt.commit = gate[p].commit
              /\ p > 0 =>
                    /\ activation[p] # None /\ gate[p].previous = gate[p - 1].number
                    /\ IsAncestor(gate[p - 1].commit, gate[p].commit)
                    /\ gate[p].receipt.after >= p
                    /\ gate[p].still => Keeps(p)

\* phase_gate.py:2079: a phase is open only when those before it are done, and the
\* requirement is where its activations say.
InOrder ==
    \A p \in 1 .. LastPhase :
        /\ card[p] # "todo" => card[p - 1] = "done" /\ activation[p] # None
        /\ current >= p => activation[p] # None
=============================================================================
