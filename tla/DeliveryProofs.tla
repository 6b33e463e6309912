--------------------------- MODULE DeliveryProofs ---------------------------
(***************************************************************************)
(* Proofs about the way of a requirement to its end (Delivery).  For the   *)
(* completion, the phase gates and the deployment: the inductive           *)
(* invariant, one lemma for each kind of step, and what follows; then the  *)
(* composition of the three, and the theorems.                             *)
(***************************************************************************)
EXTENDS Delivery, FiniteSetTheorems, TLAPS
-----------------------------------------------------------------------------
(* Completion: the inductive invariant.                                     *)

Placeholders ==
    /\ None \notin Command \cup Packets \cup Prints \cup Evidences
    /\ MaxRevision \in Nat

MetaRecords ==
    [status : Works, v2 : BOOLEAN, manual : BOOLEAN, pending : Evidences \cup {None},
     packet : Packets \cup {None}, reopen : BOOLEAN]
CardRecords ==
    [status : {"none"} \cup Works, packet : Packets \cup {None},
     by : {"nobody", "user", "agent"}, comment : BOOLEAN]
Locks == {"requirement", "provider", "finalize"}

\* The places of a command.
Syncing == {"sync", "review", "finalize"}
Outside == {"print", "sync"}
Inside == {"stale", "reopen", "approved", "confirm", "returned", "resume", "resumed", "kept"}
Reviewing == {"check", "packet", "card", "publish", "record"}
Finalizing == {"status", "verify", "PASS", "FAIL", "move", "complete"}
Recovering == {"verify again", "commit"}
Committing == {"tasks", "done"}
Stopping == {"recover", "archive", "end"}
Places == {"idle", "leave"} \cup Outside \cup Inside \cup Reviewing \cup Finalizing
              \cup Recovering \cup Committing \cup Stopping
Ops == Syncing \cup {"none", "confirm", "changes", "stop"}
CommandRecords ==
    [pc : Places, op : Ops, print : Prints \cup Evidences \cup {None}, packet : Packets \cup {None}]

CompletionShapes ==
    /\ meta \in MetaRecords /\ document \in Document /\ checked \in Checks /\ work \in Works
    /\ review \in CardRecords /\ token \in BOOLEAN
    /\ command \in [Command -> CommandRecords] /\ locks \in [Locks -> Command \cup {None}]

\* Which command comes to which place.
RoleOf(k) ==
    /\ k.pc = "idle" <=> k.op = "none"
    /\ k.pc \in Outside \cup {"stale", "reopen"} => k.op \in Syncing
    /\ k.pc \in {"approved", "confirm"} => k.op \in Syncing \cup {"confirm"}
    /\ k.pc \in {"returned", "resume", "resumed", "kept"} => k.op \in Syncing \cup {"changes"}
    /\ k.pc \in Reviewing => k.op \in {"review", "finalize"}
    /\ k.pc \in Finalizing => k.op = "finalize"
    /\ k.pc \in Committing => k.op \in {"finalize", "stop"}
    /\ k.pc \in Recovering \cup Stopping => k.op = "stop"

\* The locks it has there.
LocksOf(c) ==
    LET k == command[c]
    IN  /\ k.pc \in Committing \cup {"end"} => locks["requirement"] = c
        /\ k.pc \in {"publish", "record"} => locks["provider"] = c
        /\ k.pc \in Inside /\ k.op \in Syncing => locks["provider"] = c
        /\ k.op = "finalize" => locks["finalize"] = c
        /\ k.op = "stop" /\ k.pc \in Recovering \cup Committing => locks["finalize"] = c

\* What it has found out on the way, and what nobody can take back.
GroundsOf(c) ==
    LET k == command[c]
    IN  /\ k.pc \in Committing => C!MayComplete
        /\ k.pc \in Committing \cup Recovering \cup {"complete"} => ~meta.manual
        /\ k.pc = "approved" /\ k.print \in C!Publishable => k.print \in approved
        /\ k.pc = "confirm" => k.packet # None /\ k.packet.print \in approved
        /\ k.pc = "card" => k.print \in C!Publishable
        /\ k.pc \in {"publish", "record"} => k.packet # None

MetaKnown ==
    /\ meta.status = "in_review" => meta.packet # None
    /\ meta.status = "done" /\ meta.v2 => token
    /\ meta.status = "done" /\ meta.manual => meta.packet # None /\ meta.packet.print \in approved

CardKnown ==
    review.status = "done" /\ review.by = "user" /\ review.packet # None =>
        review.packet.print \in approved

HoldersKnown == \A l \in Locks : locks[l] # None => command[locks[l]].pc # "idle"

CompletionInv ==
    /\ CompletionShapes /\ MetaKnown /\ CardKnown /\ HoldersKnown
    /\ \A c \in Command : RoleOf(command[c]) /\ LocksOf(c) /\ GroundsOf(c)
-----------------------------------------------------------------------------
(* Completion: where commands go.                                           *)

\* Command c goes on; it takes locks that are free and releases only its own.
Moves(c) ==
    /\ command' \in [Command -> CommandRecords]
    /\ \A d \in Command \ {c} : command'[d] = command[d]
    /\ locks' \in [Locks -> Command \cup {None}]
    /\ \A l \in Locks :
          /\ locks[l] \notin {None, c} => locks'[l] = locks[l]
          /\ locks'[l] \in {None, c, locks[l]}

\* It has nothing more.
Ends(c) == Moves(c) /\ command'[c] = C!Idle /\ \A l \in Locks : locks'[l] # c

\* It goes to a place, as it is.
Goes(c, pc) ==
    /\ Moves(c) /\ command'[c].pc = pc /\ command'[c].op = command[c].op
    /\ command'[c].print = command[c].print /\ command'[c].packet = command[c].packet

\* It takes a lock for that.
Takes(c, lock) == locks[lock] = None /\ locks'[lock] = c /\
    \A l \in Locks \ {lock} : locks'[l] = locks[l]

LEMMA IdleRecord == C!Idle \in CommandRecords /\ C!Idle.pc = "idle" /\ C!Idle.op = "none"
  BY DEF C!Idle, CommandRecords, Places, Ops

LEMMA LeaveGoes ==
    ASSUME CompletionShapes, Placeholders, NEW c \in Command, C!Leave(c) PROVE Ends(c)
<1>1. command' \in [Command -> CommandRecords] /\ command'[c] = C!Idle
      /\ \A d \in Command \ {c} : command'[d] = command[d]
  BY IdleRecord DEF C!Leave, CompletionShapes
<1>2. DOMAIN locks = Locks
  BY DEF CompletionShapes
<1>3. \A l \in Locks : locks'[l] = IF locks[l] = c THEN None ELSE locks[l]
  BY <1>2 DEF C!Leave
<1>4. locks' \in [Locks -> Command \cup {None}]
  BY <1>2 DEF C!Leave, CompletionShapes
<1>5. None # c
  BY DEF Placeholders
<1> QED BY <1>1, <1>3, <1>4, <1>5 DEF Ends, Moves

LEMMA GotoGoes ==
    ASSUME CompletionShapes, NEW c \in Command, NEW pc \in Places, C!Goto(c, pc),
           UNCHANGED locks
    PROVE  Goes(c, pc)
  BY DEF CompletionShapes, CommandRecords, C!Goto, Goes, Moves

LEMMA TakeGoes ==
    ASSUME CompletionShapes, NEW c \in Command, NEW pc \in Places, NEW lock \in Locks,
           C!Take(c, lock, pc)
    PROVE  Goes(c, pc) /\ Takes(c, lock)
<1>1. /\ locks[lock] = None /\ locks' = [locks EXCEPT ![lock] = c]
      /\ command' = [command EXCEPT ![c].pc = pc]
  BY DEF C!Take, C!Goto
<1>2. /\ command' \in [Command -> CommandRecords]
      /\ \A d \in Command \ {c} : command'[d] = command[d]
      /\ command'[c].pc = pc /\ command'[c].op = command[c].op
      /\ command'[c].print = command[c].print /\ command'[c].packet = command[c].packet
  BY <1>1 DEF CompletionShapes, CommandRecords
<1>3. locks' \in [Locks -> Command \cup {None}] /\ locks'[lock] = c
      /\ \A l \in Locks \ {lock} : locks'[l] = locks[l]
  BY <1>1 DEF CompletionShapes
<1> QED BY <1>1, <1>2, <1>3 DEF Goes, Moves, Takes
-----------------------------------------------------------------------------
(* Completion: steps.                                                       *)

\* What a step of c leaves to the others.
LEMMA OthersKnow ==
    ASSUME CompletionInv, Placeholders, NEW c \in Command, Moves(c),
           meta'.manual = meta.manual, meta'.v2 = meta.v2, token' = token,
           approved \subseteq approved',
           NEW d \in Command \ {c}
    PROVE  RoleOf(command[d])' /\ LocksOf(d)' /\ GroundsOf(d)'
<1>1. command'[d] = command[d] /\ RoleOf(command[d]) /\ LocksOf(d) /\ GroundsOf(d)
  BY DEF Moves, CompletionInv
<1>2. \A l \in Locks : locks[l] = d => locks'[l] = d
  BY DEF Moves, Placeholders
<1>3. RoleOf(command[d])'
  BY <1>1 DEF RoleOf
<1>4. LocksOf(d)'
  BY <1>1, <1>2 DEF LocksOf, Locks
<1>5. GroundsOf(d)'
  BY <1>1 DEF GroundsOf, C!MayComplete, C!Publishable
<1> QED BY <1>3, <1>4, <1>5

\* A step of one command.
LEMMA CommandStep ==
    ASSUME CompletionInv, Placeholders, NEW c \in Command, Moves(c),
           meta' \in MetaRecords, meta'.manual = meta.manual, meta'.v2 = meta.v2,
           review' \in CardRecords, checked' \in Checks, work' \in Works,
           UNCHANGED <<document, token>>,
           approved \subseteq approved', MetaKnown', CardKnown',
           RoleOf(command[c])', LocksOf(c)', GroundsOf(c)',
           command'[c].pc = "idle" => \A l \in Locks : locks'[l] # c
    PROVE  CompletionInv'
<1>1. CompletionShapes'
  BY DEF CompletionInv, CompletionShapes, Moves
<1>2. ASSUME NEW d \in Command PROVE RoleOf(command[d])' /\ LocksOf(d)' /\ GroundsOf(d)'
  BY OthersKnow
<1>3. HoldersKnown'
  <2> SUFFICES ASSUME NEW l \in Locks, locks'[l] # None PROVE command'[locks'[l]].pc # "idle"
    BY DEF HoldersKnown
  <2>1. CASE locks'[l] = c
    BY <2>1
  <2>2. CASE locks'[l] # c
    BY <2>2 DEF Moves, CompletionInv, CompletionShapes, HoldersKnown
  <2> QED BY <2>1, <2>2
<1> QED BY <1>1, <1>2, <1>3 DEF CompletionInv

\* A command that leaves.
LEMMA LeaveStep ==
    ASSUME CompletionInv, Placeholders, NEW c \in Command, C!Leave(c),
           meta' \in MetaRecords, meta'.manual = meta.manual, meta'.v2 = meta.v2,
           review' \in CardRecords, checked' \in Checks, work' \in Works,
           UNCHANGED <<document, token>>,
           approved \subseteq approved', MetaKnown', CardKnown'
    PROVE  CompletionInv'
<1>1. Ends(c)
  BY LeaveGoes DEF CompletionInv
<1>2. command'[c].pc = "idle" /\ command'[c].op = "none"
  BY <1>1, IdleRecord DEF Ends
<1>3. RoleOf(command[c])' /\ LocksOf(c)' /\ GroundsOf(c)'
  BY <1>2 DEF RoleOf, LocksOf, GroundsOf, Outside, Inside, Reviewing, Finalizing, Recovering,
              Committing, Stopping
<1> QED BY <1>1, <1>2, <1>3, CommandStep DEF Ends

\* A command that leaves after it has changed nothing, or the status of the requirement only.
LEMMA StatusKnown ==
    ASSUME CompletionInv, NEW status \in Works \ {"done"},
           status = "in_review" => meta.packet # None,
           meta' = [meta EXCEPT !.status = status], UNCHANGED <<token, approved>>
    PROVE  meta' \in MetaRecords /\ meta'.manual = meta.manual /\ meta'.v2 = meta.v2 /\ MetaKnown'
<1>1. meta \in MetaRecords
  BY DEF CompletionInv, CompletionShapes
<1>2. meta' \in MetaRecords
  BY <1>1, Zenon DEF MetaRecords, Works
<1>3. meta'.manual = meta.manual /\ meta'.v2 = meta.v2 /\ meta'.packet = meta.packet
      /\ meta'.status = status
  BY <1>1 DEF MetaRecords
<1> QED BY <1>2, <1>3 DEF MetaKnown, Works

LEMMA Same ==
    ASSUME CompletionInv
    PROVE  /\ meta \in MetaRecords /\ review \in CardRecords /\ checked \in Checks /\ work \in Works
           /\ meta' = meta /\ token' = token /\ approved' = approved => MetaKnown'
           /\ review' = review /\ approved' = approved => CardKnown'
  BY DEF CompletionInv, CompletionShapes, MetaKnown, CardKnown

LEMMA TakenBackKnown ==
    ASSUME CompletionInv, meta' = C!TakenBack, UNCHANGED <<token, approved>>
    PROVE  meta' \in MetaRecords /\ meta'.manual = meta.manual /\ meta'.v2 = meta.v2 /\ MetaKnown'
<1>1. meta \in MetaRecords
  BY DEF CompletionInv, CompletionShapes
<1>2. CASE meta.status = "in_review"
  <2>1. meta' = [meta EXCEPT !.status = "in_progress"]
    BY <1>1, <1>2, Zenon DEF C!TakenBack
  <2> QED BY <2>1, StatusKnown DEF Works
<1>3. CASE meta.status # "in_review"
  <2>1. meta' = meta
    BY <1>1, <1>3, Zenon DEF C!TakenBack, MetaRecords
  <2> QED BY <2>1, Same
<1> QED BY <1>2, <1>3
-----------------------------------------------------------------------------
(* Completion: the world around.                                            *)

LEMMA WorldStep ==
    ASSUME CompletionInv, UNCHANGED <<checked, work, command, locks>>,
           meta' \in MetaRecords, meta'.manual = meta.manual, review' \in CardRecords,
           document' \in Document, token' \in BOOLEAN, approved \subseteq approved',
           MetaKnown', CardKnown',
           C!MayComplete' \/ \A c \in Command : command[c].pc \notin Committing
                          \/ ~C!MayComplete
    PROVE  CompletionInv'
<1>1. CompletionShapes' /\ HoldersKnown'
  BY DEF CompletionInv, CompletionShapes, HoldersKnown
<1>2. ASSUME NEW c \in Command PROVE RoleOf(command[c])' /\ LocksOf(c)' /\ GroundsOf(c)'
  <2>1. RoleOf(command[c]) /\ LocksOf(c) /\ GroundsOf(c)
    BY DEF CompletionInv
  <2>2. RoleOf(command[c])' /\ LocksOf(c)'
    BY <2>1 DEF RoleOf, LocksOf
  <2>3. GroundsOf(c)'
    BY <2>1 DEF GroundsOf, C!Publishable
  <2> QED BY <2>2, <2>3
<1> QED BY <1>1, <1>2 DEF CompletionInv

LEMMA UserEditsStep == ASSUME CompletionInv, C!UserEdits PROVE CompletionInv'
<1>1. C!MayComplete' <=> C!MayComplete
  BY DEF C!UserEdits, C!MayComplete
<1>2. document' \in Document
  BY DEF C!UserEdits
<1>3. token' \in BOOLEAN
  BY DEF CompletionInv, CompletionShapes, C!UserEdits
<1> QED BY <1>1, <1>2, <1>3, Same, WorldStep DEF C!UserEdits

LEMMA MoveCardStep ==
    ASSUME CompletionInv, NEW to \in Works, NEW who \in {"user", "agent"}, NEW says \in BOOLEAN,
           NEW approves, C!MoveCard(to, who, says, approves),
           to = "done" /\ who = "user" => review.packet.print \in approves
    PROVE  CompletionInv'
<1>1. /\ review' = [review EXCEPT !.status = to, !.by = who, !.comment = @ \/ says]
      /\ approved' = approved \cup approves /\ UNCHANGED <<meta, document, token>>
      /\ UNCHANGED <<checked, work, command, locks>>
  BY DEF C!MoveCard
<1>2. review \in CardRecords /\ meta \in MetaRecords /\ document \in Document /\ token \in BOOLEAN
  BY DEF CompletionInv, CompletionShapes
<1>3. review' \in CardRecords
  <2>1. review.comment \in BOOLEAN
    BY <1>2 DEF CardRecords
  <2>2. (review.comment \/ says) \in BOOLEAN
    OBVIOUS
  <2> QED BY <1>1, <1>2, <2>1, <2>2, Zenon DEF CardRecords
<1>4. review'.status = to /\ review'.by = who /\ review'.packet = review.packet
  BY <1>1, <1>2 DEF CardRecords
<1>5. MetaKnown' /\ CardKnown'
  BY <1>1, <1>4 DEF CompletionInv, MetaKnown, CardKnown
<1>6. C!MayComplete' <=> C!MayComplete
  BY <1>1 DEF C!MayComplete
<1> QED BY <1>1, <1>2, <1>3, <1>5, <1>6, WorldStep

LEMMA CardMoves ==
    ASSUME CompletionInv, C!UserApproves \/ C!AgentCloses \/ C!UserReturns
    PROVE  CompletionInv'
<1>1. CASE C!UserApproves
  BY <1>1, MoveCardStep DEF C!UserApproves, Works
<1>2. CASE C!AgentCloses
  BY <1>2, MoveCardStep DEF C!AgentCloses, Works
<1>3. CASE C!UserReturns
  BY <1>3, MoveCardStep DEF C!UserReturns, Works
<1> QED BY <1>1, <1>2, <1>3

LEMMA IntakeStep == ASSUME CompletionInv, Placeholders, C!IntakeV2 PROVE CompletionInv'
<1>1. /\ meta' = [meta EXCEPT !.v2 = TRUE] /\ meta.status # "done"
      /\ UNCHANGED <<document, token, review, approved>>
      /\ UNCHANGED <<checked, work, command, locks>> /\ locks["requirement"] = None
  BY DEF C!IntakeV2
<1>2. meta \in MetaRecords /\ review \in CardRecords /\ document \in Document /\ token \in BOOLEAN
  BY DEF CompletionInv, CompletionShapes
<1>3. meta' \in MetaRecords
  BY <1>1, <1>2, Zenon DEF MetaRecords
<1>4. meta'.manual = meta.manual /\ meta'.status = meta.status /\ meta'.packet = meta.packet
  BY <1>1, <1>2 DEF MetaRecords
<1>5. MetaKnown' /\ CardKnown'
  BY <1>1, <1>4 DEF CompletionInv, MetaKnown, CardKnown
<1>6. \A c \in Command : command[c].pc \notin Committing
  BY <1>1 DEF CompletionInv, LocksOf, Placeholders
<1> QED BY <1>1, <1>2, <1>3, <1>4, <1>5, <1>6, WorldStep

LEMMA DeliveredStep == ASSUME CompletionInv, C!Delivered PROVE CompletionInv'
<1>1. token' = TRUE
  BY DEF C!Delivered
<1>2. C!MayComplete'
  BY <1>1 DEF C!MayComplete
<1>3. MetaKnown'
  BY <1>1 DEF CompletionInv, MetaKnown, C!Delivered
<1>4. document \in Document
  BY DEF CompletionInv, CompletionShapes
<1> QED BY <1>1, <1>2, <1>3, <1>4, Same, WorldStep DEF C!Delivered

LEMMA DiesStep ==
    ASSUME CompletionInv, Placeholders, NEW c \in Command, C!Dies(c) \/ C!Finishes(c)
    PROVE  CompletionInv'
  BY Same, LeaveStep DEF C!Dies, C!Finishes
-----------------------------------------------------------------------------
(* Completion: commands begin.                                              *)

\* A fingerprint that may be published is one of those there are.
LEMMA PrintsShape ==
    ASSUME CompletionShapes
    PROVE  /\ C!Fingerprint \in Prints /\ C!Evidence \in Evidences /\ C!Publishable \subseteq Prints
           /\ document # "open" /\ checked = "PASS" => C!Fingerprint \in C!Publishable
  BY DEF CompletionShapes, C!Fingerprint, C!Evidence, C!Publishable, Prints, Evidences, Checks, Works

LEMMA BeginStep ==
    ASSUME CompletionInv, Placeholders, NEW c \in Command, command[c].pc = "idle",
           NEW k \in CommandRecords,
           k.pc \in {"print", "approved", "returned", "recover"}, k.op # "none",
           RoleOf(k), command' = [command EXCEPT ![c] = k],
           UNCHANGED locks \/ (locks["finalize"] = None /\ locks' = [locks EXCEPT !["finalize"] = c]),
           k.op = "finalize" => locks'["finalize"] = c,
           k.pc = "approved" => k.op = "confirm" /\ (k.print \in C!Publishable => k.print \in approved'),
           k.pc = "returned" => k.op = "changes",
           UNCHANGED <<meta, review, checked, work, document, token>>,
           approved \subseteq approved'
    PROVE  CompletionInv'
<1>1. command'[c] = k /\ command' \in [Command -> CommandRecords]
      /\ \A d \in Command \ {c} : command'[d] = command[d]
  BY DEF CompletionInv, CompletionShapes
<1>2. Moves(c)
  BY <1>1 DEF Moves, CompletionInv, CompletionShapes, Locks
<1>3. MetaKnown' /\ CardKnown'
  BY DEF CompletionInv, MetaKnown, CardKnown
<1>4. RoleOf(command[c])'
  BY <1>1 DEF RoleOf
<1>5. LocksOf(c)'
  BY <1>1 DEF LocksOf, Committing, Inside, Syncing, Recovering
<1>6. GroundsOf(c)'
  BY <1>1 DEF GroundsOf, Committing, Recovering, C!Publishable
<1>7. command'[c].pc # "idle"
  BY <1>1
<1> QED BY <1>2, <1>3, <1>4, <1>5, <1>6, <1>7, Same, CommandStep

LEMMA BeginSyncStep ==
    ASSUME CompletionInv, Placeholders, NEW c \in Command, C!BeginSync(c) \/ C!BeginFinalize(c)
    PROVE  CompletionInv'
<1>1. PICK op \in Syncing : C!Begin(c, op) /\ (op # "finalize" => UNCHANGED locks)
                            /\ (op = "finalize" => /\ locks["finalize"] = None
                                                  /\ locks' = [locks EXCEPT !["finalize"] = c])
  BY DEF C!BeginSync, C!BeginFinalize, Syncing
<1>2. PICK k : /\ k = [C!Idle EXCEPT !.pc = "print", !.op = op]
               /\ command' = [command EXCEPT ![c] = k] /\ command[c].pc = "idle"
  BY <1>1 DEF C!Begin, C!Place
<1>3. k \in CommandRecords /\ k.pc = "print" /\ k.op = op /\ op # "none"
  <2>1. "print" \in Places /\ op \in Ops /\ op # "none"
    BY DEF Places, Outside, Ops, Syncing
  <2> QED BY <1>2, <2>1 DEF C!Idle, CommandRecords
<1>4. RoleOf(k)
  BY <1>3 DEF RoleOf, Syncing, Outside, Inside, Reviewing, Finalizing, Recovering, Committing,
              Stopping
<1>5. op = "finalize" => locks'["finalize"] = c
  BY <1>1 DEF CompletionInv, CompletionShapes, Locks
<1>6. UNCHANGED <<meta, review, checked, work, document, token, approved>>
  BY DEF C!BeginSync, C!BeginFinalize
<1>7. UNCHANGED locks \/ (locks["finalize"] = None /\ locks' = [locks EXCEPT !["finalize"] = c])
  BY <1>1
<1>8. approved \subseteq approved'
  BY <1>6
<1> QED BY <1>2, <1>3, <1>4, <1>5, <1>6, <1>7, <1>8, BeginStep

LEMMA BeginConfirmStep ==
    ASSUME CompletionInv, Placeholders, NEW c \in Command, C!BeginConfirm(c)
    PROVE  CompletionInv'
<1>1. PICK k : /\ k = [C!Idle EXCEPT !.pc = "approved", !.op = "confirm", !.print = C!Fingerprint]
               /\ command' = [command EXCEPT ![c] = k] /\ command[c].pc = "idle"
  BY DEF C!BeginConfirm, C!Place
<1>2. k \in CommandRecords /\ k.pc = "approved" /\ k.op = "confirm" /\ k.print = C!Fingerprint
  <2>1. "approved" \in Places /\ "confirm" \in Ops
    BY DEF Places, Inside, Ops
  <2>2. C!Fingerprint \in Prints
    BY PrintsShape DEF CompletionInv
  <2> QED BY <1>1, <2>1, <2>2 DEF C!Idle, CommandRecords
<1>3. RoleOf(k)
  BY <1>2 DEF RoleOf, Syncing, Outside, Inside, Reviewing, Finalizing, Recovering, Committing,
              Stopping
<1>4. k.print \in C!Publishable => k.print \in approved'
  BY <1>2 DEF C!BeginConfirm
<1>5. UNCHANGED <<meta, review, checked, work, document, token, locks>> /\ approved \subseteq approved'
  BY DEF C!BeginConfirm
<1> QED BY <1>1, <1>2, <1>3, <1>4, <1>5, BeginStep

LEMMA BeginChangesStep ==
    ASSUME CompletionInv, Placeholders, NEW c \in Command, C!BeginChanges(c)
    PROVE  CompletionInv'
<1>1. PICK k : /\ k = [C!Idle EXCEPT !.pc = "returned", !.op = "changes"]
               /\ command' = [command EXCEPT ![c] = k] /\ command[c].pc = "idle"
  BY DEF C!BeginChanges, C!Place
<1>2. k \in CommandRecords /\ k.pc = "returned" /\ k.op = "changes"
  <2>1. "returned" \in Places /\ "changes" \in Ops
    BY DEF Places, Inside, Ops
  <2> QED BY <1>1, <2>1 DEF C!Idle, CommandRecords
<1>3. RoleOf(k)
  BY <1>2 DEF RoleOf, Syncing, Outside, Inside, Reviewing, Finalizing, Recovering, Committing,
              Stopping
<1>4. UNCHANGED <<meta, review, checked, work, document, token, approved, locks>>
  BY DEF C!BeginChanges
<1>5. approved \subseteq approved'
  BY <1>4
<1> QED BY <1>1, <1>2, <1>3, <1>4, <1>5, BeginStep

LEMMA BeginStopStep ==
    ASSUME CompletionInv, Placeholders, NEW c \in Command, C!BeginStop(c)
    PROVE  CompletionInv'
<1>1. PICK k : /\ k = [C!Idle EXCEPT !.pc = "recover", !.op = "stop"]
               /\ command' = [command EXCEPT ![c] = k] /\ command[c].pc = "idle"
  BY DEF C!BeginStop, C!Place
<1>2. k \in CommandRecords /\ k.pc = "recover" /\ k.op = "stop"
  <2>1. "recover" \in Places /\ "stop" \in Ops
    BY DEF Places, Stopping, Ops
  <2> QED BY <1>1, <2>1 DEF C!Idle, CommandRecords
<1>3. RoleOf(k)
  BY <1>2 DEF RoleOf, Syncing, Outside, Inside, Reviewing, Finalizing, Recovering, Committing,
              Stopping
<1>4. UNCHANGED <<meta, review, checked, work, document, token, approved, locks>>
  BY DEF C!BeginStop
<1>5. approved \subseteq approved'
  BY <1>4
<1> QED BY <1>1, <1>2, <1>3, <1>4, <1>5, BeginStep
-----------------------------------------------------------------------------
(* Completion: the review is synchronised.                                  *)

\* A command at rest has no place of its own, and what it has at another one.
LEMMA Known ==
    ASSUME CompletionInv, NEW c \in Command
    PROVE  /\ command[c] \in CommandRecords
           /\ RoleOf(command[c]) /\ LocksOf(c) /\ GroundsOf(c)
  BY DEF CompletionInv, CompletionShapes

LEMMA PrintsStep ==
    ASSUME CompletionInv, Placeholders, NEW c \in Command, C!Prints(c)
    PROVE  CompletionInv'
<1>1. PICK print \in {C!Fingerprint, None} :
          command' = [command EXCEPT ![c].print = print, ![c].pc = "sync"]
  BY DEF C!Prints
<1>2. print \in Prints \cup {None} /\ "sync" \in Places
  BY <1>1, PrintsShape DEF CompletionInv, Places, Outside
<1>3. /\ command' \in [Command -> CommandRecords] /\ command'[c].pc = "sync"
      /\ command'[c].op = command[c].op /\ \A d \in Command \ {c} : command'[d] = command[d]
  BY <1>1, <1>2 DEF CompletionInv, CompletionShapes, CommandRecords
<1>4. Moves(c) /\ UNCHANGED locks
  BY <1>3 DEF Moves, CompletionInv, CompletionShapes, C!Prints
<1>5. RoleOf(command[c])'
  BY <1>3, Known DEF C!Prints, C!Place, RoleOf, Outside, Syncing, Inside, Reviewing, Finalizing,
                     Recovering, Committing, Stopping
<1>6. LocksOf(c)'
  BY <1>3, <1>4, Known DEF LocksOf, Committing, Inside, Recovering
<1>7. GroundsOf(c)'
  BY <1>3 DEF GroundsOf, Committing, Recovering
<1> QED BY <1>3, <1>4, <1>5, <1>6, <1>7, Same, CommandStep DEF C!Prints

\* It goes on after its sync; the lock of the provider, if it has it, is released.
LEMMA SyncedStep ==
    ASSUME CompletionInv, Placeholders, NEW c \in Command,
           command[c].op \in Syncing, C!Synced(c),
           UNCHANGED locks
             \/ (locks["provider"] = c /\ locks' = [locks EXCEPT !["provider"] = None]),
           meta' \in MetaRecords, meta'.manual = meta.manual, meta'.v2 = meta.v2,
           review' \in CardRecords, work' \in Works,
           UNCHANGED <<document, token, checked>>,
           approved \subseteq approved', MetaKnown', CardKnown'
    PROVE  CompletionInv'
<1> DEFINE pc == C!AfterSync(c)
<1>1. /\ command[c].op = "sync" => pc = "leave"
      /\ command[c].op = "review" => pc = "check"
      /\ command[c].op = "finalize" => pc = "status"
  BY DEF C!AfterSync
<1>2. pc \in {"leave", "check", "status"} /\ pc \in Places
  BY <1>1 DEF Syncing, Places, Reviewing, Finalizing
<1>3. command' = [command EXCEPT ![c].pc = pc, ![c].print = None]
  BY DEF C!Synced
<1> HIDE DEF pc
<1>0. command \in [Command -> CommandRecords]
  BY DEF CompletionInv, CompletionShapes
<1>4. /\ command' \in [Command -> CommandRecords] /\ command'[c].pc = pc
      /\ command'[c].op = command[c].op /\ \A d \in Command \ {c} : command'[d] = command[d]
  <2> DEFINE k == [command[c] EXCEPT !.pc = pc, !.print = None]
  <2>1. command[c] \in CommandRecords
    BY <1>0
  <2>2. k \in CommandRecords
    BY <1>2, <2>1, Zenon DEF CommandRecords
  <2>3. k.pc = pc /\ k.op = command[c].op
    BY <2>1 DEF CommandRecords
  <2>4. command' = [command EXCEPT ![c] = k]
    BY <1>0, <1>3, <2>1 DEF CommandRecords
  <2> HIDE DEF k
  <2> QED BY <1>0, <2>2, <2>3, <2>4
<1>5. Moves(c) /\ locks'["finalize"] = locks["finalize"]
  BY <1>4 DEF Moves, CompletionInv, CompletionShapes, Locks
<1>6. RoleOf(command[c])'
  BY <1>1, <1>2, <1>4 DEF RoleOf, Outside, Syncing, Inside, Reviewing, Finalizing,
                          Recovering, Committing, Stopping
<1>7. LocksOf(c)'
  BY <1>2, <1>4, <1>5, Known DEF LocksOf, Committing, Inside, Recovering
<1>8. GroundsOf(c)'
  BY <1>2, <1>4 DEF GroundsOf, Committing, Recovering
<1>9. checked' \in Checks /\ command'[c].pc # "idle"
  BY <1>2, <1>4 DEF CompletionInv, CompletionShapes
<1> QED BY <1>5, <1>6, <1>7, <1>8, <1>9, CommandStep

LEMMA SyncChangedStep ==
    ASSUME CompletionInv, Placeholders, NEW c \in Command,
           command[c].op \in Syncing, C!SyncChanged(c), locks["provider"] = c,
           meta' \in MetaRecords, meta'.manual = meta.manual, meta'.v2 = meta.v2,
           review' \in CardRecords, work' \in Works,
           UNCHANGED <<document, token, checked>>,
           approved \subseteq approved', MetaKnown', CardKnown'
    PROVE  CompletionInv'
<1>1. CASE C!Leave(c)
  <2>1. checked' \in Checks
    BY DEF CompletionInv, CompletionShapes
  <2> QED BY <1>1, <2>1, LeaveStep
<1>2. CASE C!SyncDone(c)
  <2>1. C!Synced(c) /\ locks' = [locks EXCEPT !["provider"] = None]
    BY <1>2 DEF C!SyncDone
  <2> QED BY <2>1, SyncedStep
<1> QED BY <1>1, <1>2 DEF C!SyncChanged

\* The card of an approval says what was approved.
LEMMA SyncReadsStep ==
    ASSUME CompletionInv, Placeholders, NEW c \in Command, C!SyncReads(c)
    PROVE  CompletionInv'
<1> DEFINE pc == C!Outcome(c)
<1>1. command[c].pc = "sync" /\ command[c].op \in Syncing /\ approved \subseteq approved'
  BY Known DEF C!SyncReads, C!Place, RoleOf, Outside
<1>2. CASE pc = "none"
  <2>1. C!Synced(c) /\ UNCHANGED locks
    BY <1>2 DEF C!SyncReads
  <2>2. UNCHANGED <<meta, review, document, token, checked, work, approved>>
    BY DEF C!SyncReads
  <2> QED BY <1>1, <2>1, <2>2, Same, SyncedStep
<1>3. CASE pc # "none"
  <2>1. pc \in {"reopen", "stale", "approved", "returned"} /\ pc \in Places
    BY <1>3 DEF C!Outcome, Places, Inside
  <2>2. C!Take(c, "provider", pc)
    BY <1>3 DEF C!SyncReads
  <2>3. Goes(c, pc) /\ Takes(c, "provider")
    BY <2>1, <2>2, TakeGoes DEF CompletionInv, Locks
  <2>4. pc = "approved" /\ command[c].print \in C!Publishable => command[c].print \in approved
    <3> SUFFICES ASSUME pc = "approved", command[c].print \in C!Publishable
                 PROVE  command[c].print \in approved
      OBVIOUS
    <3>1. /\ meta.status = "in_review" /\ review.packet = meta.packet
          /\ meta.v2 \/ command[c].print = meta.packet.print
          /\ ~(meta.v2 /\ review.status = "done") /\ review.status = "done" /\ review.by = "user"
      BY DEF C!Outcome
    <3>2. meta.packet # None
      BY <3>1 DEF CompletionInv, MetaKnown
    <3>3. review.packet.print \in approved
      BY <3>1, <3>2 DEF CompletionInv, CardKnown
    <3> QED BY <3>1, <3>3
  <2>5. RoleOf(command[c])'
    BY <1>1, <2>1, <2>3 DEF Goes, RoleOf, Syncing, Outside, Reviewing, Finalizing, Recovering,
                            Committing, Stopping
  <2>6. LocksOf(c)'
    BY <1>1, <2>1, <2>3, Known DEF Goes, Takes, LocksOf, Locks, Syncing, Committing, Recovering
  <2>7. GroundsOf(c)'
    BY <2>1, <2>3, <2>4 DEF Goes, GroundsOf, Committing, Recovering, C!Publishable, C!SyncReads
  <2>8. UNCHANGED <<meta, review, document, token, checked, work, approved>>
    BY DEF C!SyncReads
  <2>9. command'[c].pc # "idle" /\ Moves(c)
    BY <2>1, <2>3 DEF Goes
  <2> QED BY <1>1, <2>5, <2>6, <2>7, <2>8, <2>9, Same, CommandStep
<1> QED BY <1>2, <1>3

\* The lock of the provider that a sync has there.
LEMMA SyncHolds ==
    ASSUME CompletionInv, NEW c \in Command, command[c].pc \in Inside, command[c].op \in Syncing
    PROVE  locks["provider"] = c
  BY Known DEF LocksOf

LEMMA SyncStaleStep ==
    ASSUME CompletionInv, Placeholders, NEW c \in Command, C!SyncStale(c)
    PROVE  CompletionInv'
<1>1. command[c].pc = "stale" /\ command[c].op \in Syncing
  BY Known DEF C!SyncStale, C!Place, RoleOf
<1>2. locks["provider"] = c
  BY <1>1, SyncHolds DEF Inside
<1>3. /\ C!SyncChanged(c) /\ meta' = [meta EXCEPT !.status = "in_progress"]
      /\ UNCHANGED <<document, checked, work, review, token, approved>>
  BY DEF C!SyncStale
<1>4. /\ meta' \in MetaRecords /\ meta'.manual = meta.manual /\ meta'.v2 = meta.v2 /\ MetaKnown'
  BY <1>3, StatusKnown DEF Works
<1>5. approved \subseteq approved'
  BY <1>3
<1> QED BY <1>1, <1>2, <1>3, <1>4, <1>5, Same, SyncChangedStep

\* The fields of the card and of the requirement that a write leaves alone.
LEMMA ReopenedCard ==
    ASSUME CompletionInv, review' = C!Reopened, UNCHANGED approved
    PROVE  review' \in CardRecords /\ CardKnown' /\ C!Resumed \in Works
<1>1. review \in CardRecords /\ work \in Works
  BY DEF CompletionInv, CompletionShapes
<1>2. review' \in CardRecords
  <2>1. (IF review.status = "none" THEN review.status ELSE "in_progress") \in {"none"} \cup Works
    BY <1>1 DEF CardRecords, Works
  <2> QED BY <1>1, <2>1, Zenon DEF C!Reopened, CardRecords
<1>3. review'.by = "agent"
  BY <1>1 DEF C!Reopened, CardRecords
<1> QED BY <1>1, <1>2, <1>3 DEF CardKnown, C!Resumed, Works

LEMMA ReopenKnown ==
    ASSUME CompletionInv, NEW reopen \in BOOLEAN, meta' = [meta EXCEPT !.reopen = reopen],
           UNCHANGED <<token, approved>>
    PROVE  meta' \in MetaRecords /\ meta'.manual = meta.manual /\ meta'.v2 = meta.v2 /\ MetaKnown'
<1>1. meta \in MetaRecords
  BY DEF CompletionInv, CompletionShapes
<1>2. meta' \in MetaRecords
  BY <1>1, Zenon DEF MetaRecords
<1>3. /\ meta'.manual = meta.manual /\ meta'.v2 = meta.v2 /\ meta'.status = meta.status
      /\ meta'.packet = meta.packet
  BY <1>1 DEF MetaRecords
<1> QED BY <1>2, <1>3 DEF CompletionInv, MetaKnown

LEMMA SyncReopensStep ==
    ASSUME CompletionInv, Placeholders, NEW c \in Command, C!SyncReopens(c)
    PROVE  CompletionInv'
<1>1. command[c].pc = "reopen" /\ command[c].op \in Syncing
  BY Known DEF C!SyncReopens, C!Place, RoleOf
<1>2. locks["provider"] = c
  BY <1>1, SyncHolds DEF Inside
<1>3. /\ C!SyncDone(c) /\ meta' = [meta EXCEPT !.reopen = FALSE] /\ work' = C!Resumed
      /\ review' = C!Reopened /\ UNCHANGED <<document, checked, token, approved>>
  BY DEF C!SyncReopens
<1>4. /\ meta' \in MetaRecords /\ meta'.manual = meta.manual /\ meta'.v2 = meta.v2 /\ MetaKnown'
  BY <1>3, ReopenKnown
<1>5. review' \in CardRecords /\ CardKnown' /\ work' \in Works
  BY <1>3, ReopenedCard
<1>6. approved \subseteq approved' /\ C!Synced(c) /\ locks' = [locks EXCEPT !["provider"] = None]
  BY <1>3 DEF C!SyncDone
<1> QED BY <1>1, <1>2, <1>3, <1>4, <1>5, <1>6, SyncedStep
-----------------------------------------------------------------------------
(* Completion: a user confirms.                                             *)

LEMMA ConfirmReadsStep ==
    ASSUME CompletionInv, Placeholders, NEW c \in Command, C!ConfirmReads(c)
    PROVE  CompletionInv'
<1>1. command[c].pc = "approved" /\ UNCHANGED <<meta, review, document, token, checked, work, approved>>
  BY DEF C!ConfirmReads, C!Place
<1>2. approved \subseteq approved'
  BY <1>1
<1>3. CASE C!Leave(c)
  BY <1>1, <1>2, <1>3, Same, LeaveStep
<1>4. CASE /\ C!MayComplete /\ C!Current(c) /\ UNCHANGED locks
           /\ command' = [command EXCEPT ![c].pc = "confirm", ![c].packet = meta.packet]
  <2>1. meta.packet \in Packets /\ "confirm" \in Places
    BY <1>4 DEF C!Current, CompletionInv, CompletionShapes, MetaRecords, Places, Inside
  <2>2. /\ command' \in [Command -> CommandRecords] /\ command'[c].pc = "confirm"
        /\ command'[c].op = command[c].op /\ command'[c].packet = meta.packet
        /\ \A d \in Command \ {c} : command'[d] = command[d]
    BY <1>4, <2>1 DEF CompletionInv, CompletionShapes, CommandRecords
  <2>3. Moves(c)
    BY <1>4, <2>2 DEF Moves, CompletionInv, CompletionShapes
  <2>4. meta.packet.print \in approved
    BY <1>1, <1>4, <2>1, Known DEF C!Current, Packets, GroundsOf
  <2>5. RoleOf(command[c])'
    BY <1>1, <2>2, Known DEF RoleOf, Outside, Reviewing, Finalizing, Recovering, Committing,
                             Stopping
  <2>6. LocksOf(c)'
    BY <1>1, <1>4, <2>2, Known DEF LocksOf, Inside, Committing, Recovering
  <2>7. GroundsOf(c)'
    BY <1>1, <2>1, <2>2, <2>4, Placeholders DEF GroundsOf, Committing, Recovering, Placeholders
  <2>8. command'[c].pc # "idle"
    BY <2>2
  <2> QED BY <1>1, <1>2, <2>3, <2>5, <2>6, <2>7, <2>8, Same, CommandStep
<1> QED BY <1>3, <1>4 DEF C!ConfirmReads

LEMMA ConfirmWritesStep ==
    ASSUME CompletionInv, Placeholders, NEW c \in Command, C!ConfirmWrites(c)
    PROVE  CompletionInv'
<1>1. /\ command[c].pc = "confirm" /\ C!Leave(c)
      /\ UNCHANGED <<document, checked, work, review, token, approved>>
  BY DEF C!ConfirmWrites, C!Place
<1>2. approved \subseteq approved'
  BY <1>1
<1>3. CASE meta' = meta
  BY <1>1, <1>2, <1>3, Same, LeaveStep
<1>4. CASE /\ C!MayComplete /\ meta.status = "in_review" /\ C!StillThat(c)
           /\ meta' = [meta EXCEPT !.status = "done"]
  <2>1. meta \in MetaRecords
    BY DEF CompletionInv, CompletionShapes
  <2>2. meta' \in MetaRecords
    BY <1>4, <2>1, Zenon DEF MetaRecords, Works
  <2>3. /\ meta'.manual = meta.manual /\ meta'.v2 = meta.v2 /\ meta'.packet = meta.packet
        /\ meta'.status = "done"
    BY <1>4, <2>1 DEF MetaRecords
  <2>4. command[c].packet # None /\ command[c].packet.print \in approved
    BY <1>1, Known DEF GroundsOf
  <2>5. MetaKnown'
    BY <1>1, <1>4, <2>3, <2>4 DEF MetaKnown, C!MayComplete, C!StillThat
  <2> QED BY <1>1, <1>2, <2>2, <2>3, <2>5, Same, LeaveStep
<1> QED BY <1>3, <1>4 DEF C!ConfirmWrites
-----------------------------------------------------------------------------
(* Completion: a user asks for changes.                                     *)

LEMMA ChangesWritesStep ==
    ASSUME CompletionInv, Placeholders, NEW c \in Command, C!ChangesWrites(c)
    PROVE  CompletionInv'
<1>1. command[c].pc = "returned" /\ UNCHANGED <<review, document, token, checked, work, approved>>
  BY DEF C!ChangesWrites, C!Place
<1>2. approved \subseteq approved'
  BY <1>1
<1>3. CASE C!Leave(c) /\ UNCHANGED meta
  BY <1>1, <1>2, <1>3, Same, LeaveStep
<1>4. CASE /\ meta' = [meta EXCEPT !.status = "in_progress", !.reopen = TRUE]
           /\ C!Goto(c, "resume") /\ UNCHANGED locks
  <2>1. meta \in MetaRecords
    BY DEF CompletionInv, CompletionShapes
  <2>2. meta' \in MetaRecords
    BY <1>4, <2>1, Zenon DEF MetaRecords, Works
  <2>3. meta'.manual = meta.manual /\ meta'.v2 = meta.v2 /\ meta'.status = "in_progress"
    BY <1>4, <2>1 DEF MetaRecords
  <2>4. MetaKnown'
    BY <2>3 DEF MetaKnown
  <2>5. Goes(c, "resume")
    BY <1>4, GotoGoes DEF CompletionInv, Places, Inside
  <2>6. RoleOf(command[c])'
    BY <1>1, <2>5, Known DEF Goes, RoleOf, Outside, Reviewing, Finalizing, Recovering, Committing,
                             Stopping
  <2>7. LocksOf(c)'
    BY <1>1, <1>4, <2>5, Known DEF Goes, LocksOf, Inside, Committing, Recovering
  <2>8. GroundsOf(c)'
    BY <2>5 DEF Goes, GroundsOf, Committing, Recovering
  <2>9. Moves(c) /\ command'[c].pc # "idle"
    BY <2>5 DEF Goes
  <2> QED BY <1>1, <1>2, <2>2, <2>3, <2>4, <2>6, <2>7, <2>8, <2>9, Same, CommandStep
<1> QED BY <1>3, <1>4 DEF C!ChangesWrites

LEMMA CommentRead ==
    ASSUME CompletionInv, review' = [review EXCEPT !.comment = FALSE], UNCHANGED approved
    PROVE  review' \in CardRecords /\ CardKnown'
<1>1. review \in CardRecords
  BY DEF CompletionInv, CompletionShapes
<1>2. review' \in CardRecords
  BY <1>1, Zenon DEF CardRecords
<1>3. review'.status = review.status /\ review'.by = review.by /\ review'.packet = review.packet
  BY <1>1 DEF CardRecords
<1> QED BY <1>2, <1>3 DEF CompletionInv, CardKnown

LEMMA ChangesResumesStep ==
    ASSUME CompletionInv, Placeholders, NEW c \in Command, C!ChangesResumes(c)
    PROVE  CompletionInv'
<1>1. /\ command[c].pc = "resume"
      /\ UNCHANGED <<meta, document, checked, token, locks, approved>>
      /\ work' \in {work, C!Resumed}
  BY DEF C!ChangesResumes, C!Place
<1>2. approved \subseteq approved' /\ work' \in Works
  BY <1>1 DEF C!Resumed, CompletionInv, CompletionShapes, Works
<1>3. review' \in CardRecords /\ CardKnown'
  <2>1. \/ review' = C!Reopened \/ review' = review
        \/ review' = [review EXCEPT !.comment = FALSE]
    BY DEF C!ChangesResumes
  <2> QED BY <1>1, <2>1, Same, ReopenedCard, CommentRead
<1>4. PICK pc \in {"resumed", "kept"} : C!Goto(c, pc)
  BY DEF C!ChangesResumes
<1>5. pc \in Places
  BY DEF Places, Inside
<1>6. Goes(c, pc)
  BY <1>1, <1>4, <1>5, GotoGoes DEF CompletionInv
<1>7. RoleOf(command[c])'
  BY <1>1, <1>6, Known DEF Goes, RoleOf, Outside, Reviewing, Finalizing, Recovering, Committing,
                           Stopping
<1>8. LocksOf(c)'
  BY <1>1, <1>6, Known DEF Goes, LocksOf, Inside, Committing, Recovering
<1>9. GroundsOf(c)' /\ Moves(c) /\ command'[c].pc # "idle"
  BY <1>6 DEF Goes, GroundsOf, Committing, Recovering
<1> QED BY <1>1, <1>2, <1>3, <1>7, <1>8, <1>9, Same, CommandStep

LEMMA ChangesEndsStep ==
    ASSUME CompletionInv, Placeholders, NEW c \in Command, C!ChangesEnds(c)
    PROVE  CompletionInv'
<1>1. /\ command[c].pc \in {"resumed", "kept"}
      /\ meta' = [meta EXCEPT !.reopen = command[c].pc = "kept"]
      /\ UNCHANGED <<document, checked, work, review, token, approved>>
  BY DEF C!ChangesEnds, C!Place
<1>2. /\ meta' \in MetaRecords /\ meta'.manual = meta.manual /\ meta'.v2 = meta.v2 /\ MetaKnown'
  <2>1. (command[c].pc = "kept") \in BOOLEAN
    OBVIOUS
  <2> QED BY <1>1, <2>1, ReopenKnown
<1>3. approved \subseteq approved' /\ work' \in Works
  BY <1>1, Same
<1>4. CASE C!Leave(c)
  BY <1>1, <1>2, <1>3, <1>4, Same, LeaveStep
<1>5. CASE C!SyncChanged(c) /\ command[c].op # "changes"
  <2>1. command[c].op \in Syncing
    BY <1>1, <1>5, Known DEF RoleOf
  <2>2. locks["provider"] = c
    BY <1>1, <2>1, SyncHolds DEF Inside
  <2> QED BY <1>1, <1>2, <1>3, <1>5, <2>1, <2>2, Same, SyncChangedStep
<1> QED BY <1>4, <1>5 DEF C!ChangesEnds
-----------------------------------------------------------------------------
(* Completion: the packet.                                                  *)

\* It goes to a place where it has no lock but those it comes with.
LEMMA GoesOnStep ==
    ASSUME CompletionInv, Placeholders, NEW c \in Command,
           NEW pc \in {"check", "packet", "verify", "PASS", "FAIL", "move", "complete", "archive"},
           C!Goto(c, pc), UNCHANGED locks,
           pc \in Reviewing => command[c].op \in {"review", "finalize"},
           pc \in Finalizing => command[c].op = "finalize",
           pc = "archive" => command[c].op = "stop",
           pc = "complete" => ~meta.manual,
           meta' \in MetaRecords, meta'.manual = meta.manual, meta'.v2 = meta.v2,
           checked' \in Checks, work' \in Works,
           UNCHANGED <<document, token, review, approved>>, MetaKnown'
    PROVE  CompletionInv'
<1>1. pc \in Places
  BY DEF Places, Reviewing, Finalizing, Stopping
<1>2. Goes(c, pc)
  BY <1>1, GotoGoes DEF CompletionInv
<1>3. RoleOf(command[c])'
  BY <1>2 DEF Goes, RoleOf, Outside, Reviewing, Finalizing, Recovering, Committing, Stopping
<1>4. LocksOf(c)'
  BY <1>2, Known DEF Goes, LocksOf, Inside, Committing, Recovering
<1>5. GroundsOf(c)'
  BY <1>2 DEF Goes, GroundsOf, Committing, Recovering
<1>6. Moves(c) /\ command'[c].pc # "idle" /\ approved \subseteq approved'
  BY <1>2 DEF Goes
<1> QED BY <1>3, <1>4, <1>5, <1>6, Same, CommandStep

LEMMA ReviewChecksStep ==
    ASSUME CompletionInv, Placeholders, NEW c \in Command, C!ReviewChecks(c)
    PROVE  CompletionInv'
<1>1. /\ command[c].pc = "check" /\ command[c].op \in {"review", "finalize"}
      /\ UNCHANGED <<document, checked, work, review, token, approved>>
  BY Known DEF C!ReviewChecks, C!Place, RoleOf, Reviewing
<1>2. approved \subseteq approved'
  BY <1>1
<1>3. CASE meta' = C!TakenBack /\ C!Leave(c)
  BY <1>1, <1>2, <1>3, TakenBackKnown, Same, LeaveStep
<1>4. CASE UNCHANGED <<meta, locks>> /\ C!Goto(c, IF command[c].op = "finalize" /\ ~ meta.manual
                                                  THEN "complete" ELSE "packet")
  <2>1. CASE command[c].op = "finalize" /\ ~ meta.manual
    <3>1. C!Goto(c, "complete")
      BY <1>4, <2>1
    <3>2. "complete" \notin Reviewing
      BY DEF Reviewing
    <3> QED BY <1>1, <1>4, <2>1, <3>1, <3>2, Same, GoesOnStep
  <2>2. CASE ~(command[c].op = "finalize" /\ ~ meta.manual)
    <3>1. C!Goto(c, "packet")
      BY <1>4, <2>2
    <3>2. "packet" \notin Finalizing
      BY DEF Finalizing
    <3> QED BY <1>1, <1>4, <3>1, <3>2, Same, GoesOnStep
  <2> QED BY <2>1, <2>2
<1> QED BY <1>3, <1>4 DEF C!ReviewChecks

\* A status of in_progress is one that asks for nothing.
LEMMA StartedKnown ==
    ASSUME CompletionInv, meta' \in {meta, [meta EXCEPT !.status = "in_progress"]},
           UNCHANGED <<token, approved>>
    PROVE  meta' \in MetaRecords /\ meta'.manual = meta.manual /\ meta'.v2 = meta.v2 /\ MetaKnown'
  BY Same, StatusKnown DEF Works

LEMMA PacketBuiltStep ==
    ASSUME CompletionInv, Placeholders, NEW c \in Command, C!PacketBuilt(c)
    PROVE  CompletionInv'
<1>1. /\ command[c].pc = "packet" /\ command[c].op \in {"review", "finalize"}
      /\ UNCHANGED <<document, checked, work, review, token, approved>>
  BY Known DEF C!PacketBuilt, C!Place, RoleOf, Reviewing
<1>2. approved \subseteq approved'
  BY <1>1
<1>3. CASE C!Leave(c) /\ meta' \in {meta, [meta EXCEPT !.status = "in_progress"]}
  BY <1>1, <1>2, <1>3, StartedKnown, Same, LeaveStep
<1>4. CASE /\ document # "open" /\ checked = "PASS" /\ UNCHANGED <<meta, locks>>
           /\ command' = [command EXCEPT ![c].pc = "card", ![c].print = C!Fingerprint]
  <2>1. C!Fingerprint \in Prints /\ C!Fingerprint \in C!Publishable /\ "card" \in Places
    BY <1>4, PrintsShape DEF CompletionInv, Places, Reviewing
  <2>2. /\ command' \in [Command -> CommandRecords] /\ command'[c].pc = "card"
        /\ command'[c].op = command[c].op /\ command'[c].print = C!Fingerprint
        /\ \A d \in Command \ {c} : command'[d] = command[d]
    BY <1>4, <2>1 DEF CompletionInv, CompletionShapes, CommandRecords
  <2>3. Moves(c)
    BY <1>4, <2>2 DEF Moves, CompletionInv, CompletionShapes
  <2>4. RoleOf(command[c])'
    BY <1>1, <2>2, Known DEF RoleOf, Outside, Reviewing, Finalizing, Recovering, Committing,
                             Stopping
  <2>5. LocksOf(c)'
    BY <1>1, <1>4, <2>2, Known DEF LocksOf, Inside, Committing, Recovering
  <2>6. GroundsOf(c)'
    BY <2>1, <2>2 DEF GroundsOf, Committing, Recovering, C!Publishable
  <2>7. command'[c].pc # "idle"
    BY <2>2
  <2> QED BY <1>1, <1>2, <1>4, <2>3, <2>4, <2>5, <2>6, <2>7, Same, CommandStep
<1> QED BY <1>3, <1>4 DEF C!PacketBuilt

LEMMA RevisionShape ==
    ASSUME CompletionInv, Placeholders, NEW c \in Command, C!Revision(c) <= MaxRevision
    PROVE  C!Revision(c) \in 1 .. MaxRevision
<1>1. meta.packet \in Packets \cup {None} /\ MaxRevision \in Nat
  BY DEF CompletionInv, CompletionShapes, MetaRecords, Placeholders
<1>2. CASE meta.packet = None
  BY <1>1, <1>2 DEF C!Revision
<1>3. CASE meta.packet \in Packets
  <2>1. meta.packet.revision \in 1 .. MaxRevision
    BY <1>3 DEF Packets
  <2> QED BY <1>1, <2>1 DEF C!Revision
<1> QED BY <1>1, <1>2, <1>3

LEMMA CardReadyStep ==
    ASSUME CompletionInv, Placeholders, NEW c \in Command, C!CardReady(c)
    PROVE  CompletionInv'
<1> DEFINE packet == [revision |-> C!Revision(c), print |-> command[c].print]
<1>1. /\ command[c].pc = "card" /\ locks["provider"] = None /\ C!Revision(c) <= MaxRevision
      /\ locks' = [locks EXCEPT !["provider"] = c]
      /\ command' = [command EXCEPT ![c].pc = "publish", ![c].packet = packet]
      /\ UNCHANGED <<meta, document, checked, work, token, approved>>
  BY DEF C!CardReady, C!Place
<1>2. command[c].print \in C!Publishable
  BY <1>1, Known DEF GroundsOf
<1>3. packet \in Packets /\ "publish" \in Places
  BY <1>1, <1>2, RevisionShape DEF Packets, Places, Reviewing
<1> HIDE DEF packet
<1>0. command \in [Command -> CommandRecords]
  BY DEF CompletionInv, CompletionShapes
<1>4. /\ command' \in [Command -> CommandRecords] /\ command'[c].pc = "publish"
      /\ command'[c].op = command[c].op /\ command'[c].packet = packet
      /\ \A d \in Command \ {c} : command'[d] = command[d]
  <2> DEFINE k == [command[c] EXCEPT !.pc = "publish", !.packet = packet]
  <2>1. command[c] \in CommandRecords
    BY <1>0
  <2>2. k \in CommandRecords
    BY <1>3, <2>1, Zenon DEF CommandRecords
  <2>3. k.pc = "publish" /\ k.op = command[c].op /\ k.packet = packet
    BY <2>1 DEF CommandRecords
  <2>4. command' = [command EXCEPT ![c] = k]
    BY <1>0, <1>1, <2>1 DEF CommandRecords
  <2> HIDE DEF k
  <2> QED BY <1>0, <2>2, <2>3, <2>4
<1>5. /\ Moves(c) /\ locks'["provider"] = c /\ locks'["finalize"] = locks["finalize"]
  BY <1>1, <1>4 DEF Moves, CompletionInv, CompletionShapes, Locks
<1>6. review' \in CardRecords /\ CardKnown'
  <2>1. review \in CardRecords
    BY Same
  <2>2. CASE review' = [review EXCEPT !.status = "in_progress", !.by = "agent"]
    <3>1. review' \in CardRecords
      BY <2>1, <2>2, Zenon DEF CardRecords, Works
    <3>2. review'.by = "agent"
      BY <2>1, <2>2 DEF CardRecords
    <3> QED BY <3>1, <3>2 DEF CardKnown
  <2>3. CASE review' = review
    BY <1>1, <2>3, Same
  <2> QED BY <2>2, <2>3 DEF C!CardReady
<1>7. RoleOf(command[c])'
  BY <1>1, <1>4, Known DEF RoleOf, Outside, Reviewing, Finalizing, Recovering, Committing,
                           Stopping
<1>8. LocksOf(c)'
  BY <1>1, <1>4, <1>5, Known DEF LocksOf, Inside, Committing, Recovering
<1>9. GroundsOf(c)'
  BY <1>3, <1>4, Placeholders DEF GroundsOf, Committing, Recovering, Placeholders
<1>10. command'[c].pc # "idle" /\ approved \subseteq approved'
  BY <1>1, <1>4
<1> QED BY <1>1, <1>5, <1>6, <1>7, <1>8, <1>9, <1>10, Same, CommandStep

LEMMA CardPublishedStep ==
    ASSUME CompletionInv, Placeholders, NEW c \in Command, C!CardPublished(c)
    PROVE  CompletionInv'
<1>1. /\ command[c].pc = "publish" /\ C!Goto(c, "record")
      /\ UNCHANGED <<meta, document, checked, work, token, locks, approved>>
      /\ review' = [status |-> "in_review", packet |-> command[c].packet, by |-> "agent",
                    comment |-> FALSE]
  BY DEF C!CardPublished, C!Place
<1>2. Goes(c, "record")
  BY <1>1, GotoGoes DEF CompletionInv, Places, Reviewing
<1>3. review' \in CardRecords /\ CardKnown'
  <2>1. command[c].packet \in Packets \cup {None}
    BY Known DEF CommandRecords
  <2>2. review' \in CardRecords
    BY <1>1, <2>1 DEF CardRecords, Works
  <2> QED BY <1>1, <2>2 DEF CardKnown
<1>4. RoleOf(command[c])'
  BY <1>1, <1>2, Known DEF Goes, RoleOf, Outside, Reviewing, Finalizing, Recovering, Committing,
                           Stopping
<1>5. LocksOf(c)'
  BY <1>1, <1>2, Known DEF Goes, LocksOf, Inside, Committing, Recovering
<1>6. GroundsOf(c)'
  BY <1>1, <1>2, Known DEF Goes, GroundsOf, Committing, Recovering
<1>7. Moves(c) /\ command'[c].pc # "idle" /\ approved \subseteq approved'
  BY <1>1, <1>2 DEF Goes
<1> QED BY <1>1, <1>3, <1>4, <1>5, <1>6, <1>7, Same, CommandStep

LEMMA PacketRecordedStep ==
    ASSUME CompletionInv, Placeholders, NEW c \in Command, C!PacketRecorded(c)
    PROVE  CompletionInv'
<1>1. /\ command[c].pc = "record" /\ C!Leave(c)
      /\ UNCHANGED <<document, checked, work, review, token, approved>>
  BY DEF C!PacketRecorded, C!Place
<1>2. approved \subseteq approved'
  BY <1>1
<1>3. CASE meta' \in {meta, [meta EXCEPT !.status = "in_progress"]}
  BY <1>1, <1>2, <1>3, StartedKnown, Same, LeaveStep
<1>4. CASE meta' = [meta EXCEPT !.status = "in_review", !.packet = command[c].packet]
  <2>1. meta \in MetaRecords /\ command[c].packet \in Packets \cup {None}
        /\ command[c].packet # None
    BY <1>1, Known DEF CommandRecords, GroundsOf, CompletionInv, CompletionShapes
  <2>2. meta' \in MetaRecords
    BY <1>4, <2>1, Zenon DEF MetaRecords, Works
  <2>3. /\ meta'.manual = meta.manual /\ meta'.v2 = meta.v2 /\ meta'.status = "in_review"
        /\ meta'.packet = command[c].packet
    BY <1>4, <2>1 DEF MetaRecords
  <2>4. MetaKnown'
    BY <2>1, <2>3 DEF MetaKnown
  <2> QED BY <1>1, <1>2, <2>2, <2>3, <2>4, Same, LeaveStep
<1> QED BY <1>3, <1>4 DEF C!PacketRecorded

LEMMA PublishFailsStep ==
    ASSUME CompletionInv, Placeholders, NEW c \in Command, C!PublishFails(c)
    PROVE  CompletionInv'
<1>1. /\ C!Leave(c) /\ meta' = [meta EXCEPT !.status = "in_progress"]
      /\ UNCHANGED <<document, checked, work, review, token, approved>>
  BY DEF C!PublishFails
<1>2. approved \subseteq approved'
  BY <1>1
<1> QED BY <1>1, <1>2, StartedKnown, Same, LeaveStep
-----------------------------------------------------------------------------
(* Completion: finalize.                                                    *)

LEMMA FinalizeReadsStep ==
    ASSUME CompletionInv, Placeholders, NEW c \in Command, C!FinalizeReads(c) \/ C!Verifies(c)
    PROVE  CompletionInv'
<1>1. /\ command[c].op = "finalize" /\ approved \subseteq approved'
      /\ UNCHANGED <<meta, document, checked, work, review, token, approved>>
  BY Known DEF C!FinalizeReads, C!Verifies, C!Place, RoleOf, Finalizing
<1>2. CASE C!Leave(c)
  BY <1>1, <1>2, Same, LeaveStep
<1>3. CASE UNCHANGED locks /\ \E pc \in {"verify", "PASS", "FAIL"} : C!Goto(c, pc)
  <2>1. PICK pc \in {"verify", "PASS", "FAIL"} : C!Goto(c, pc)
    BY <1>3
  <2>2. pc \notin Reviewing
    BY DEF Reviewing
  <2> QED BY <1>1, <1>3, <2>1, <2>2, Same, GoesOnStep
<1> QED BY <1>2, <1>3 DEF C!FinalizeReads, C!Verifies

LEMMA RecordsChecksStep ==
    ASSUME CompletionInv, Placeholders, NEW c \in Command, C!RecordsChecks(c)
    PROVE  CompletionInv'
<1>1. /\ command[c].pc \in {"PASS", "FAIL"} /\ command[c].op = "finalize"
      /\ approved \subseteq approved' /\ UNCHANGED <<document, work, review, token, approved>>
  BY Known DEF C!RecordsChecks, C!Place, RoleOf, Finalizing
<1>2. checked' \in Checks /\ meta' \in {meta, C!TakenBack}
  BY <1>1, Same DEF C!RecordsChecks, C!Place, Checks
<1>3. meta' \in MetaRecords /\ meta'.manual = meta.manual /\ meta'.v2 = meta.v2 /\ MetaKnown'
  BY <1>1, <1>2, Same, TakenBackKnown
<1>4. CASE C!Leave(c)
  BY <1>1, <1>2, <1>3, <1>4, Same, LeaveStep
<1>5. CASE C!Goto(c, "move") /\ UNCHANGED locks
  <2>1. "move" \notin Reviewing
    BY DEF Reviewing
  <2> QED BY <1>1, <1>2, <1>3, <1>5, <2>1, Same, GoesOnStep
<1> QED BY <1>4, <1>5 DEF C!RecordsChecks

LEMMA MovesTasksStep ==
    ASSUME CompletionInv, Placeholders, NEW c \in Command, C!MovesTasks(c)
    PROVE  CompletionInv'
<1>1. /\ command[c].op = "finalize"
      /\ approved \subseteq approved' /\ UNCHANGED <<document, checked, review, token, approved>>
  BY Known DEF C!MovesTasks, C!Place, RoleOf, Finalizing
<1>2. CASE /\ work' = IF work = "in_progress" THEN "in_review" ELSE work
           /\ C!Goto(c, "check") /\ UNCHANGED <<meta, locks>>
  <2>1. work' \in Works
    BY <1>2, Same DEF Works
  <2> QED BY <1>1, <1>2, <2>1, Same, GoesOnStep
<1>3. CASE meta' = C!TakenBack /\ C!Leave(c) /\ UNCHANGED work
  BY <1>1, <1>3, TakenBackKnown, Same, LeaveStep
<1> QED BY <1>2, <1>3 DEF C!MovesTasks

\* It has the lock of the requirement for its last steps.
LEMMA TakesTasks ==
    ASSUME CompletionInv, Placeholders, NEW c \in Command, C!Take(c, "requirement", "tasks"),
           command[c].op \in {"finalize", "stop"}, C!MayComplete, ~meta.manual,
           command[c].op = "stop" => locks["finalize"] = c,
           meta' \in MetaRecords, meta'.manual = meta.manual, meta'.v2 = meta.v2, MetaKnown',
           UNCHANGED <<document, checked, work, review, token, approved>>
    PROVE  CompletionInv'
<1>1. "tasks" \in Places
  BY DEF Places, Committing
<1>2. Goes(c, "tasks") /\ Takes(c, "requirement")
  BY <1>1, TakeGoes DEF CompletionInv, Locks
<1>3. RoleOf(command[c])'
  BY <1>2 DEF Goes, RoleOf, Outside, Reviewing, Finalizing, Recovering, Committing, Stopping
<1>4. LocksOf(c)'
  BY <1>2, Known DEF Goes, Takes, LocksOf, Locks, Inside, Committing, Recovering
<1>5. C!MayComplete'
  BY DEF C!MayComplete
<1>6. GroundsOf(c)'
  BY <1>2, <1>5 DEF Goes, GroundsOf, Committing, Recovering
<1>7. Moves(c) /\ command'[c].pc # "idle" /\ approved \subseteq approved'
  BY <1>2 DEF Goes
<1> QED BY <1>3, <1>4, <1>6, <1>7, Same, CommandStep

LEMMA CompletesStep ==
    ASSUME CompletionInv, Placeholders, NEW c \in Command, C!Completes(c)
    PROVE  CompletionInv'
<1>1. /\ command[c].pc = "complete" /\ command[c].op = "finalize" /\ ~meta.manual
      /\ approved \subseteq approved' /\ UNCHANGED <<document, checked, work, review, token, approved>>
  BY Known DEF C!Completes, C!Place, RoleOf, GroundsOf, Finalizing
<1>2. CASE /\ C!MayComplete /\ meta' = [meta EXCEPT !.pending = C!Evidence]
           /\ C!Take(c, "requirement", "tasks")
  <2>1. meta \in MetaRecords /\ C!Evidence \in Evidences
    BY PrintsShape DEF CompletionInv, CompletionShapes
  <2>2. meta' \in MetaRecords
    BY <1>2, <2>1, Zenon DEF MetaRecords
  <2>3. /\ meta'.manual = meta.manual /\ meta'.v2 = meta.v2 /\ meta'.status = meta.status
        /\ meta'.packet = meta.packet
    BY <1>2, <2>1 DEF MetaRecords
  <2>4. MetaKnown'
    BY <1>1, <2>3 DEF CompletionInv, MetaKnown
  <2> QED BY <1>1, <1>2, <2>2, <2>3, <2>4, TakesTasks
<1>3. CASE meta' = [meta EXCEPT !.status = "in_progress"] /\ C!Leave(c)
  BY <1>1, <1>3, StartedKnown, Same, LeaveStep
<1> QED BY <1>2, <1>3 DEF C!Completes, C!Authorises

LEMMA CompletesTasksStep ==
    ASSUME CompletionInv, Placeholders, NEW c \in Command, C!CompletesTasks(c)
    PROVE  CompletionInv'
<1>1. /\ command[c].pc = "tasks" /\ approved \subseteq approved'
      /\ UNCHANGED <<document, checked, review, token, approved>>
  BY DEF C!CompletesTasks, C!Place
<1>2. CASE C!Leave(c) /\ UNCHANGED work /\ meta' \in {meta, [meta EXCEPT !.status = "in_progress"]}
  BY <1>1, <1>2, StartedKnown, Same, LeaveStep
<1>3. CASE work' = "done" /\ C!Goto(c, "done") /\ UNCHANGED <<meta, locks>>
  <2>1. "done" \in Places
    BY DEF Places, Committing
  <2>2. Goes(c, "done")
    BY <1>3, <2>1, GotoGoes DEF CompletionInv
  <2>3. RoleOf(command[c])'
    BY <1>1, <2>2, Known DEF Goes, RoleOf, Outside, Reviewing, Finalizing, Recovering, Committing,
                             Stopping
  <2>4. LocksOf(c)'
    BY <1>1, <1>3, <2>2, Known DEF Goes, LocksOf, Inside, Committing, Recovering
  <2>5. GroundsOf(c)'
    BY <1>1, <1>3, <2>2, Known DEF Goes, GroundsOf, Committing, Recovering, C!MayComplete
  <2>6. Moves(c) /\ command'[c].pc # "idle" /\ work' \in Works
    BY <1>3, <2>2 DEF Goes, Works
  <2> QED BY <1>1, <1>3, <2>3, <2>4, <2>5, <2>6, Same, CommandStep
<1> QED BY <1>2, <1>3 DEF C!CompletesTasks

\* The requirement is done: what a token or a manual test asks for was looked at
\* when the lock was taken.
LEMMA CompletesRequirementStep ==
    ASSUME CompletionInv, Placeholders, NEW c \in Command, C!CompletesRequirement(c)
    PROVE  CompletionInv'
<1> DEFINE pc == IF command[c].op = "stop" THEN "archive" ELSE "leave"
<1>1. /\ command[c].pc = "done" /\ meta' = [meta EXCEPT !.status = "done", !.pending = None]
      /\ locks' = [locks EXCEPT !["requirement"] = None,
                                !["finalize"] = IF command[c].op = "stop" THEN None ELSE @]
      /\ C!Goto(c, pc) /\ approved \subseteq approved'
      /\ UNCHANGED <<document, checked, work, review, token, approved>>
  BY DEF C!CompletesRequirement, C!Place
<1>2. /\ C!MayComplete /\ ~meta.manual /\ command[c].op \in {"finalize", "stop"}
      /\ locks["requirement"] = c /\ (command[c].op = "stop" => locks["finalize"] = c)
  BY <1>1, Known DEF GroundsOf, RoleOf, LocksOf, Committing
<1>3. /\ pc \in Places /\ pc \in {"archive", "leave"} /\ (pc = "archive" <=> command[c].op = "stop")
  BY DEF Places, Stopping
<1> HIDE DEF pc
<1>4. meta \in MetaRecords
  BY Same
<1>5. meta' \in MetaRecords
  BY <1>1, <1>4, Zenon DEF MetaRecords, Works
<1>6. meta'.manual = meta.manual /\ meta'.v2 = meta.v2
  BY <1>1, <1>4 DEF MetaRecords
<1>7. MetaKnown'
  <2>1. meta'.status = "done"
    BY <1>1, <1>4 DEF MetaRecords
  <2> QED BY <1>1, <1>2, <1>6, <2>1 DEF MetaKnown, C!MayComplete
<1>8. /\ command' \in [Command -> CommandRecords] /\ command'[c].pc = pc
      /\ command'[c].op = command[c].op /\ \A d \in Command \ {c} : command'[d] = command[d]
  BY <1>1, <1>3 DEF C!Goto, CompletionInv, CompletionShapes, CommandRecords
<1>9. /\ Moves(c) /\ (command[c].op # "stop" => locks'["finalize"] = locks["finalize"])
  BY <1>1, <1>2, <1>8 DEF Moves, CompletionInv, CompletionShapes, Locks
<1>10. RoleOf(command[c])'
  BY <1>2, <1>3, <1>8 DEF RoleOf, Outside, Reviewing, Finalizing, Recovering, Committing, Stopping
<1>11. LocksOf(c)'
  BY <1>2, <1>3, <1>8, <1>9, Known DEF LocksOf, Inside, Committing, Recovering
<1>12. GroundsOf(c)'
  BY <1>3, <1>8 DEF GroundsOf, Committing, Recovering
<1>13. command'[c].pc # "idle"
  BY <1>3, <1>8
<1> QED BY <1>1, <1>5, <1>6, <1>7, <1>9, <1>10, <1>11, <1>12, <1>13, Same, CommandStep
-----------------------------------------------------------------------------
(* Completion: the Stop hook.                                               *)

LEMMA RecoversStep ==
    ASSUME CompletionInv, Placeholders, NEW c \in Command, C!Recovers(c)
    PROVE  CompletionInv'
<1>1. /\ command[c].pc = "recover" /\ command[c].op = "stop" /\ approved \subseteq approved'
      /\ UNCHANGED <<meta, document, checked, work, review, token, approved>>
      /\ locks["finalize"] = None
  BY Known DEF C!Recovers, C!Place, RoleOf, Stopping
<1>2. CASE C!Leave(c)
  BY <1>1, <1>2, Same, LeaveStep
<1>3. CASE C!Goto(c, "archive") /\ UNCHANGED locks
  <2>1. "archive" \notin Reviewing \cup Finalizing
    BY DEF Reviewing, Finalizing
  <2> QED BY <1>1, <1>3, <2>1, Same, GoesOnStep
<1>4. CASE /\ meta.pending # None /\ ~meta.manual /\ locks' = [locks EXCEPT !["finalize"] = c]
           /\ command' = [command EXCEPT ![c].pc = "verify again", ![c].print = meta.pending]
  <2>1. PICK print \in Evidences : command' = [command EXCEPT ![c].pc = "verify again", ![c].print = print]
    BY <1>4, Same DEF MetaRecords
  <2> "verify again" \in Places
    BY DEF Places, Recovering
  <2>2. /\ command' \in [Command -> CommandRecords] /\ command'[c].pc = "verify again"
        /\ command'[c].op = command[c].op /\ \A d \in Command \ {c} : command'[d] = command[d]
    BY <2>1 DEF CompletionInv, CompletionShapes, CommandRecords
  <2>3. Moves(c) /\ locks'["finalize"] = c
    BY <1>1, <1>4, <2>2 DEF Moves, CompletionInv, CompletionShapes, Locks
  <2>4. RoleOf(command[c])'
    BY <1>1, <2>2 DEF RoleOf, Outside, Reviewing, Finalizing, Recovering, Committing, Stopping
  <2>5. LocksOf(c)' /\ GroundsOf(c)'
    BY <1>1, <1>4, <2>2, <2>3 DEF LocksOf, GroundsOf, Inside, Committing, Recovering
  <2>6. command'[c].pc # "idle"
    BY <2>2
  <2> QED BY <1>1, <2>3, <2>4, <2>5, <2>6, Same, CommandStep
<1> QED BY <1>2, <1>3, <1>4 DEF C!Recovers

LEMMA VerifiesAgainStep ==
    ASSUME CompletionInv, Placeholders, NEW c \in Command, C!VerifiesAgain(c)
    PROVE  CompletionInv'
<1>1. /\ command[c].pc = "verify again" /\ command[c].op = "stop" /\ approved \subseteq approved'
      /\ UNCHANGED <<document, checked, work, review, token, approved>>
  BY Known DEF C!VerifiesAgain, C!Place, RoleOf, Recovering
<1>2. CASE C!Leave(c) /\ meta' \in {meta, C!TakenBack}
  BY <1>1, <1>2, TakenBackKnown, Same, LeaveStep
<1>3. CASE C!Goto(c, "commit") /\ UNCHANGED <<meta, locks>>
  <2>1. "commit" \in Places
    BY DEF Places, Recovering
  <2>2. Goes(c, "commit")
    BY <1>3, <2>1, GotoGoes DEF CompletionInv
  <2>3. RoleOf(command[c])'
    BY <1>1, <2>2 DEF Goes, RoleOf, Outside, Reviewing, Finalizing, Recovering, Committing, Stopping
  <2>4. LocksOf(c)' /\ GroundsOf(c)'
    BY <1>1, <1>3, <2>2, Known DEF Goes, LocksOf, GroundsOf, Inside, Committing, Recovering
  <2>5. Moves(c) /\ command'[c].pc # "idle"
    BY <2>2 DEF Goes
  <2> QED BY <1>1, <1>3, <2>3, <2>4, <2>5, Same, CommandStep
<1> QED BY <1>2, <1>3 DEF C!VerifiesAgain

LEMMA CommitsStep ==
    ASSUME CompletionInv, Placeholders, NEW c \in Command, C!Commits(c)
    PROVE  CompletionInv'
<1>1. /\ command[c].pc = "commit" /\ command[c].op = "stop" /\ approved \subseteq approved'
      /\ ~meta.manual /\ locks["finalize"] = c
      /\ UNCHANGED <<meta, document, checked, work, review, token, approved>>
  BY Known DEF C!Commits, C!Place, RoleOf, LocksOf, GroundsOf, Recovering
<1>2. CASE C!Leave(c)
  BY <1>1, <1>2, Same, LeaveStep
<1>3. CASE C!MayComplete /\ C!Take(c, "requirement", "tasks")
  BY <1>1, <1>3, Same, TakesTasks
<1> QED BY <1>2, <1>3 DEF C!Commits, C!Recoverable

LEMMA ArchivesStep ==
    ASSUME CompletionInv, Placeholders, NEW c \in Command, C!Archives(c)
    PROVE  CompletionInv'
<1>1. /\ command[c].pc = "archive" /\ command[c].op = "stop" /\ approved \subseteq approved'
      /\ UNCHANGED <<meta, document, checked, review, token, approved>>
  BY Known DEF C!Archives, C!Place, RoleOf, Stopping
<1>2. CASE C!Leave(c) /\ UNCHANGED work
  BY <1>1, <1>2, Same, LeaveStep
<1>3. CASE work' = "done" /\ C!Take(c, "requirement", "end")
  <2>1. "end" \in Places
    BY DEF Places, Stopping
  <2>2. Goes(c, "end") /\ Takes(c, "requirement")
    BY <1>3, <2>1, TakeGoes DEF CompletionInv, Locks
  <2>3. RoleOf(command[c])'
    BY <1>1, <2>2 DEF Goes, RoleOf, Outside, Reviewing, Finalizing, Recovering, Committing, Stopping
  <2>4. LocksOf(c)' /\ GroundsOf(c)'
    BY <1>1, <2>2 DEF Goes, Takes, LocksOf, GroundsOf, Locks, Inside, Committing, Recovering
  <2>5. Moves(c) /\ command'[c].pc # "idle" /\ work' \in Works
    BY <1>3, <2>2 DEF Goes, Works
  <2> QED BY <1>1, <1>3, <2>3, <2>4, <2>5, Same, CommandStep
<1> QED BY <1>2, <1>3 DEF C!Archives

LEMMA EndsSessionStep ==
    ASSUME CompletionInv, Placeholders, NEW c \in Command, C!EndsSession(c)
    PROVE  CompletionInv'
  BY Same, LeaveStep DEF C!EndsSession
-----------------------------------------------------------------------------
(* Completion: the invariant.                                               *)

LEMMA CompletionInvInit ==
    ASSUME Placeholders, C!CompletionInit PROVE CompletionInv
<1>1. CompletionShapes
  <2>1. meta \in MetaRecords
    BY DEF C!CompletionInit, MetaRecords, Works
  <2>2. review \in CardRecords
    BY DEF C!CompletionInit, C!NoCard, CardRecords
  <2>3. locks \in [Locks -> Command \cup {None}]
    BY DEF C!CompletionInit, C!Free, Locks
  <2>4. command \in [Command -> CommandRecords]
    BY IdleRecord DEF C!CompletionInit
  <2> QED BY <2>1, <2>2, <2>3, <2>4 DEF C!CompletionInit, CompletionShapes, Checks, Works
<1>2. MetaKnown /\ CardKnown
  BY DEF C!CompletionInit, C!NoCard, MetaKnown, CardKnown
<1>3. HoldersKnown
  BY DEF C!CompletionInit, C!Free, Locks, HoldersKnown
<1>4. ASSUME NEW c \in Command PROVE RoleOf(command[c]) /\ LocksOf(c) /\ GroundsOf(c)
  <2>1. command[c].pc = "idle" /\ command[c].op = "none"
    BY IdleRecord DEF C!CompletionInit
  <2> QED BY <2>1 DEF RoleOf, LocksOf, GroundsOf, Outside, Inside, Reviewing, Finalizing,
                      Recovering, Committing, Stopping
<1> QED BY <1>1, <1>2, <1>3, <1>4 DEF CompletionInv

\* The steps of one command.
LEMMA CommandsStep ==
    ASSUME CompletionInv, Placeholders, NEW c \in Command,
           \/ C!BeginSync(c) \/ C!BeginFinalize(c) \/ C!BeginConfirm(c) \/ C!BeginChanges(c)
           \/ C!BeginStop(c) \/ C!Prints(c) \/ C!SyncReads(c) \/ C!SyncStale(c)
           \/ C!SyncReopens(c) \/ C!Finishes(c) \/ C!ConfirmReads(c) \/ C!ConfirmWrites(c)
           \/ C!ChangesWrites(c) \/ C!ChangesResumes(c) \/ C!ChangesEnds(c)
           \/ C!ReviewChecks(c) \/ C!PacketBuilt(c) \/ C!CardReady(c) \/ C!CardPublished(c)
           \/ C!PacketRecorded(c) \/ C!PublishFails(c) \/ C!FinalizeReads(c) \/ C!Verifies(c)
           \/ C!RecordsChecks(c) \/ C!MovesTasks(c) \/ C!Completes(c) \/ C!CompletesTasks(c)
           \/ C!CompletesRequirement(c) \/ C!Recovers(c) \/ C!VerifiesAgain(c) \/ C!Commits(c)
           \/ C!Archives(c) \/ C!EndsSession(c) \/ C!Dies(c)
    PROVE  CompletionInv'
<1>1. CASE C!BeginSync(c) \/ C!BeginFinalize(c)
  BY <1>1, BeginSyncStep
<1>2. CASE C!BeginConfirm(c)
  BY <1>2, BeginConfirmStep
<1>3. CASE C!BeginChanges(c)
  BY <1>3, BeginChangesStep
<1>4. CASE C!BeginStop(c)
  BY <1>4, BeginStopStep
<1>5. CASE C!Prints(c)
  BY <1>5, PrintsStep
<1>6. CASE C!SyncReads(c)
  BY <1>6, SyncReadsStep
<1>7. CASE C!SyncStale(c)
  BY <1>7, SyncStaleStep
<1>8. CASE C!SyncReopens(c)
  BY <1>8, SyncReopensStep
<1>9. CASE C!Finishes(c) \/ C!Dies(c)
  BY <1>9, DiesStep
<1>10. CASE C!ConfirmReads(c)
  BY <1>10, ConfirmReadsStep
<1>11. CASE C!ConfirmWrites(c)
  BY <1>11, ConfirmWritesStep
<1>12. CASE C!ChangesWrites(c)
  BY <1>12, ChangesWritesStep
<1>13. CASE C!ChangesResumes(c)
  BY <1>13, ChangesResumesStep
<1>14. CASE C!ChangesEnds(c)
  BY <1>14, ChangesEndsStep
<1>15. CASE C!ReviewChecks(c)
  BY <1>15, ReviewChecksStep
<1>16. CASE C!PacketBuilt(c)
  BY <1>16, PacketBuiltStep
<1>17. CASE C!CardReady(c)
  BY <1>17, CardReadyStep
<1>18. CASE C!CardPublished(c)
  BY <1>18, CardPublishedStep
<1>19. CASE C!PacketRecorded(c)
  BY <1>19, PacketRecordedStep
<1>20. CASE C!PublishFails(c)
  BY <1>20, PublishFailsStep
<1>21. CASE C!FinalizeReads(c) \/ C!Verifies(c)
  BY <1>21, FinalizeReadsStep
<1>22. CASE C!RecordsChecks(c)
  BY <1>22, RecordsChecksStep
<1>23. CASE C!MovesTasks(c)
  BY <1>23, MovesTasksStep
<1>24. CASE C!Completes(c)
  BY <1>24, CompletesStep
<1>25. CASE C!CompletesTasks(c)
  BY <1>25, CompletesTasksStep
<1>26. CASE C!CompletesRequirement(c)
  BY <1>26, CompletesRequirementStep
<1>27. CASE C!Recovers(c)
  BY <1>27, RecoversStep
<1>28. CASE C!VerifiesAgain(c)
  BY <1>28, VerifiesAgainStep
<1>29. CASE C!Commits(c)
  BY <1>29, CommitsStep
<1>30. CASE C!Archives(c)
  BY <1>30, ArchivesStep
<1>31. CASE C!EndsSession(c)
  BY <1>31, EndsSessionStep
<1> QED BY <1>1, <1>2, <1>3, <1>4, <1>5, <1>6, <1>7, <1>8, <1>9, <1>10, <1>11, <1>12, <1>13,
           <1>14, <1>15, <1>16, <1>17, <1>18, <1>19, <1>20, <1>21, <1>22, <1>23, <1>24, <1>25,
           <1>26, <1>27, <1>28, <1>29, <1>30, <1>31

LEMMA CompletionInvStep ==
    ASSUME CompletionInv, Placeholders, C!CompletionNext PROVE CompletionInv'
<1>1. CASE C!UserEdits
  BY <1>1, UserEditsStep
<1>2. CASE C!UserApproves \/ C!AgentCloses \/ C!UserReturns
  BY <1>2, CardMoves
<1>3. CASE C!IntakeV2
  BY <1>3, IntakeStep
<1>4. CASE C!Delivered
  BY <1>4, DeliveredStep
<1>5. CASE ~(C!UserEdits \/ C!UserApproves \/ C!AgentCloses \/ C!UserReturns \/ C!IntakeV2
               \/ C!Delivered)
  BY <1>5, CommandsStep DEF C!CompletionNext
<1> QED BY <1>1, <1>2, <1>3, <1>4, <1>5

LEMMA CompletionInvSays ==
    ASSUME CompletionInv
    PROVE  C!CompletionTypeOK /\ C!DeliveredBeforeDone /\ C!PacketApproved
<1>1. C!DeliveredBeforeDone /\ C!PacketApproved
  BY DEF CompletionInv, MetaKnown, C!DeliveredBeforeDone, C!PacketApproved
<1>2. /\ meta.status \in {"in_progress", "in_review", "done"}
      /\ work \in {"in_progress", "in_review", "done"} /\ checked \in {"PASS", "FAIL"}
  BY DEF CompletionInv, CompletionShapes, MetaRecords, Works, Checks
<1>3. review.packet # None => review.packet.revision \in 1 .. MaxRevision
  BY Same DEF CardRecords, Packets
<1>4. ASSUME NEW c \in Command
      PROVE  /\ C!Place(c) \in {"tasks", "done", "end"} => locks["requirement"] = c
             /\ C!Place(c) \in {"publish", "record"} => locks["provider"] = c
             /\ command[c].op = "finalize" => locks["finalize"] = c
  BY Known DEF LocksOf, Committing, C!Place
<1>5. \A l \in DOMAIN locks : locks[l] # None => C!Place(locks[l]) # "idle"
  BY DEF CompletionInv, CompletionShapes, HoldersKnown, C!Place
<1> QED BY <1>1, <1>2, <1>3, <1>4, <1>5 DEF C!CompletionTypeOK
-----------------------------------------------------------------------------
(* PhaseGate: the inductive invariant.                                      *)

Statuses == {"todo", "in_progress", "blocked", "done"}
GitRecords ==
    [head : G!Commits, top : G!Commits, above : [G!Commits -> SUBSET G!Commits],
     definition : [G!Commits -> [Phase -> Nat]]]
JournalRecords ==
    [status : {"none", "pending"}, review : ReceiptRecords \cup {None},
     gate : GateRecords \cup {None}]
Drafting == {"exact", "frozen", "contains", "again", "write"}
ClerkRecords ==
    [op : {"none", "issue", "reopen"}, phase : Phase,
     pc : {"idle", "revalidate", "archive", "unlink review", "unlink gate", "close"} \cup Drafting,
     look : Phase, record : GateRecords \cup {None}]
Taking == {"take up", "meta", "rebind", "end", "open"}
GuardRecords ==
    [pc : {"out", "activate"} \cup Taking, phase : Phase, session : Session \cup {None},
     gate : Numbers, status : Statuses]

GateShapes ==
    /\ git \in GitRecords /\ git.head <= git.top
    /\ \A c \in 0 .. git.top : {0, c} \subseteq git.above[c] /\ git.above[c] \subseteq 0 .. c
    /\ receipts \subseteq ReceiptRecords /\ gateReview \in [Phase -> ReceiptRecords \cup {None}]
    /\ gate \in [Phase -> GateRecords \cup {None}] /\ issued \in Numbers
    /\ activation \in [Phase -> ActivationRecords \cup {None}]
    /\ journal \in [Phase -> JournalRecords]
    /\ clerk \in ClerkRecords /\ guard \in GuardRecords
    /\ current \in Phase /\ card \in [Phase -> Statuses] /\ bound \in [Session -> SUBSET Phase]

\* The commit of a gate g of phase p has the definition of the gate before it.
Keeping(g, p) == git.definition[g.commit][p - 1] = git.definition[gate[p - 1].commit][p - 1]

\* What makes a gate g of phase p stand, there or about to be.
Sound(g, p) ==
    /\ g.receipt \in receipts /\ g.receipt.commit = g.commit /\ g.commit <= git.top
    /\ p > 0 =>
          /\ activation[p] # None /\ gate[p - 1] # None /\ g.previous = gate[p - 1].number
          /\ G!IsAncestor(gate[p - 1].commit, g.commit)
          /\ g.receipt.after >= p
          /\ g.still => Keeping(g, p)

\* The records.
Stored ==
    /\ \A r \in receipts : r.commit <= git.top
    /\ \A p \in Phase : gateReview[p] # None => gateReview[p] \in receipts
    /\ \A p \in Phase : gate[p] # None => Sound(gate[p], p) /\ gate[p].number \in 1 .. issued
    /\ activation[0] = None
    /\ \A p \in 1 .. LastPhase : activation[p] # None =>
          /\ gate[p - 1] # None /\ gate[p - 1].number = activation[p].gate
          /\ journal[p - 1].status # "pending"

\* A record g of phase p that is being issued.  HEAD is still where it was drafted, or
\* it is known to have moved.
Draft(g, p) ==
    /\ g.number = issued + 1 /\ gate[p] = None
    /\ g.receipt \in receipts /\ g.commit <= git.top
    /\ p > 0 /\ g.still => g.commit = git.head

\* What the look at the definition of the phase before finds.
Looked(g, p) == p > 0 => gate[p - 1] # None /\ (g.still => Keeping(g, p))
PastDefinition(c) ==
    c.pc \in {"contains", "again", "write"} \/ (c.pc = "frozen" /\ c.look < c.phase)

\* The lock of the requirement, and what its holder has found out.
ClerkKnown ==
    /\ clerk.op = "none" <=> clerk = G!Free
    /\ clerk.op = "issue" <=> clerk.pc \in {"revalidate"} \cup Drafting
    /\ clerk.op = "reopen" <=> clerk.pc \in {"archive", "unlink review", "unlink gate", "close"}
    /\ clerk.op = "issue" => gateReview[clerk.phase] # None /\ issued < MaxGates
    /\ clerk.pc \in Drafting <=> clerk.record # None
    /\ clerk.pc \in Drafting => Draft(clerk.record, clerk.phase)
    /\ clerk.pc = "frozen" => clerk.look \in 1 .. clerk.phase
    /\ clerk.pc = "contains" => clerk.look < clerk.phase
    /\ PastDefinition(clerk) => Looked(clerk.record, clerk.phase)
    /\ clerk.pc = "write" => Sound(clerk.record, clerk.phase)
    /\ clerk.op = "reopen" => journal[clerk.phase].status = "pending"

\* The transition, and what nobody can undo while it goes on.
GuardKnown ==
    /\ guard.pc # "out" => guard.phase < LastPhase /\ guard.session \in Session
    /\ guard.pc \in Taking => activation[guard.phase + 1] # None
    /\ guard.pc \in {"meta", "rebind", "end", "open"} => card[guard.phase + 1] # "done"
    /\ guard.pc \in {"meta", "rebind", "end"} => guard.status \in {"in_progress", "done"}
    /\ guard.pc = "meta" => current \in {guard.phase, guard.phase + 1}
    /\ guard.pc = "open" => card[guard.phase] = "done"

GateInv == GateShapes /\ Stored /\ ClerkKnown /\ GuardKnown /\ G!InOrder

GateBounds ==
    /\ LastPhase \in Nat /\ MaxCommit \in Nat /\ MaxGates \in Nat
    /\ None \notin ReceiptRecords \cup GateRecords \cup ActivationRecords
-----------------------------------------------------------------------------
(* PhaseGate: what a step leaves alone.                                     *)

LEMMA StoredSame ==
    ASSUME Stored, UNCHANGED <<git, receipts, gateReview, gate, issued, activation, journal>>
    PROVE  Stored'
  BY DEF Stored, Sound, Keeping, G!IsAncestor

LEMMA ClerkSame ==
    ASSUME ClerkKnown,
           UNCHANGED <<git, receipts, gateReview, gate, issued, activation, journal, clerk>>
    PROVE  ClerkKnown'
  BY DEF ClerkKnown, Draft, Looked, PastDefinition, Sound, Keeping, G!IsAncestor, G!Free

LEMMA GuardSame ==
    ASSUME GuardKnown, UNCHANGED <<activation, guard, current, card>> PROVE GuardKnown'
  BY DEF GuardKnown

LEMMA OrderSame ==
    ASSUME G!InOrder, UNCHANGED <<activation, current, card>> PROVE G!InOrder'
  BY DEF G!InOrder

\* Nobody has the lock.
LEMMA ClerkFree ==
    ASSUME GateBounds, clerk' = G!Free PROVE ClerkKnown' /\ clerk' \in ClerkRecords
<1>1. 0 \in Phase
  BY DEF GateBounds, Phase
<1> QED BY <1>1 DEF ClerkKnown, Drafting, PastDefinition, G!Free, ClerkRecords

LEMMA GuardOut ==
    ASSUME GateBounds, guard' = G!Out PROVE GuardKnown' /\ guard' \in GuardRecords
<1>1. 0 \in Phase /\ 0 \in Numbers
  BY DEF GateBounds, Phase, Numbers
<1> QED BY <1>1 DEF GuardKnown, G!Out, GuardRecords, Taking, Statuses

\* Git only grows, and so do the receipts.
Grows ==
    /\ git.top <= git'.top /\ receipts \subseteq receipts'
    /\ \A c \in 0 .. git.top :
          git'.above[c] = git.above[c] /\ git'.definition[c] = git.definition[c]

LEMMA SoundStays ==
    ASSUME GateBounds, GateShapes, GateShapes', Stored, Grows, NEW p \in Phase,
           NEW g \in GateRecords, Sound(g, p),
           p > 0 => gate'[p - 1] = gate[p - 1] /\ activation'[p] # None
    PROVE  Sound(g, p)'
<1>1. /\ git.top \in Nat /\ git'.top \in Nat /\ git.top <= git'.top /\ g.commit \in Nat
      /\ g.commit <= git.top
  BY DEF GateShapes, GitRecords, G!Commits, GateRecords, Grows, Sound
<1>2. g.receipt \in receipts' /\ g.receipt.commit = g.commit /\ g.commit <= git'.top
  BY <1>1 DEF Grows, Sound
<1>3. ASSUME p > 0
      PROVE  /\ activation'[p] # None /\ gate'[p - 1] # None /\ g.previous = gate'[p - 1].number
             /\ gate'[p - 1].commit \in git'.above[g.commit]
             /\ g.receipt.after >= p
             /\ g.still =>
                   git'.definition[g.commit][p - 1] = git'.definition[gate'[p - 1].commit][p - 1]
  <2>1. p - 1 \in Phase
    BY <1>3 DEF GateBounds, Phase
  <2>2. gate[p - 1] # None /\ gate[p - 1] \in GateRecords /\ gate[p - 1].commit <= git.top
    BY <1>3, <2>1 DEF Stored, Sound, GateShapes
  <2>3. gate[p - 1].commit \in 0 .. git.top /\ g.commit \in 0 .. git.top
    BY <1>1, <2>2 DEF GateRecords, G!Commits
  <2> QED BY <1>3, <2>2, <2>3 DEF Grows, Sound, Keeping, G!IsAncestor
<1> QED BY <1>2, <1>3 DEF Sound, Keeping, G!IsAncestor
-----------------------------------------------------------------------------
(* PhaseGate: git, the task provider and the sessions.                      *)

\* A step of git, or a verification.
LEMMA GrowsStep ==
    ASSUME GateInv, GateBounds, Grows, GateShapes', \A r \in receipts' : r.commit <= git'.top,
           ClerkKnown',
           UNCHANGED <<gateReview, gate, issued, activation, journal, guard, current, card>>
    PROVE  GateInv'
<1>1. Stored'
  <2>1. ASSUME NEW p \in Phase, gate[p] # None PROVE Sound(gate[p], p)'
    <3>1. gate[p] \in GateRecords /\ Sound(gate[p], p)
      BY <2>1 DEF GateInv, GateShapes, Stored
    <3>2. Sound(gate[p], p)'
      <4>1. p > 0 => activation'[p] # None
        BY <3>1 DEF Sound
      <4> DEFINE g == gate[p]
      <4>2. g \in GateRecords /\ Sound(g, p) /\ g' = g
        BY <3>1
      <4> HIDE DEF g
      <4>3. Sound(g, p)'
        BY <4>1, <4>2, SoundStays DEF GateInv
      <4> QED BY <4>3 DEF g
    <3> QED BY <3>2
  <2>2. \A p \in Phase : gateReview'[p] # None => gateReview'[p] \in receipts'
    BY DEF GateInv, Stored, Grows
  <2> QED BY <2>1, <2>2 DEF GateInv, Stored
<1> QED BY <1>1, GuardSame, OrderSame DEF GateInv

\* The record that is being issued is told of it.
LEMMA DisturbedShape ==
    ASSUME GateInv, GateBounds
    PROVE  /\ G!Disturbed \in ClerkRecords
           /\ G!Disturbed.op = clerk.op /\ G!Disturbed.phase = clerk.phase
           /\ G!Disturbed.pc = clerk.pc /\ G!Disturbed.look = clerk.look
           /\ clerk.record = None \/ clerk.phase = 0 => G!Disturbed = clerk
           /\ ~(clerk.record = None \/ clerk.phase = 0) =>
                 G!Disturbed.record = [clerk.record EXCEPT !.still = FALSE]
<1>1. clerk \in ClerkRecords
  BY DEF GateInv, GateShapes
<1>2. CASE clerk.record = None \/ clerk.phase = 0
  BY <1>1, <1>2 DEF G!Disturbed
<1>3. CASE ~(clerk.record = None \/ clerk.phase = 0)
  <2> DEFINE h == [clerk.record EXCEPT !.still = FALSE]
  <2>1. clerk.record \in GateRecords
    BY <1>1, <1>3 DEF ClerkRecords
  <2>2. h \in GateRecords
    BY <2>1 DEF GateRecords
  <2>3. G!Disturbed = [clerk EXCEPT !.record = h]
    BY <1>1, <1>3 DEF G!Disturbed, ClerkRecords
  <2> HIDE DEF h
  <2>4. /\ G!Disturbed \in ClerkRecords /\ G!Disturbed.record = h
        /\ G!Disturbed.op = clerk.op /\ G!Disturbed.phase = clerk.phase
        /\ G!Disturbed.pc = clerk.pc /\ G!Disturbed.look = clerk.look
    BY <1>1, <2>2, <2>3 DEF ClerkRecords
  <2> QED BY <1>3, <2>4 DEF h
<1> QED BY <1>2, <1>3

LEMMA DisturbedStep ==
    ASSUME GateInv, GateBounds, Grows, GateShapes', clerk' = G!Disturbed,
           UNCHANGED <<gateReview, gate, issued, activation, journal>>
    PROVE  ClerkKnown'
<1>1. /\ clerk \in ClerkRecords /\ clerk' \in ClerkRecords /\ ClerkKnown
      /\ UNCHANGED <<clerk.op, clerk.phase, clerk.pc, clerk.look>>
  BY DisturbedShape DEF GateInv, GateShapes
<1>2. CASE clerk.record = None
  <2>1. clerk' = clerk
    BY <1>2, DisturbedShape
  <2> QED BY <1>1, <1>2, <2>1 DEF ClerkKnown, Drafting, PastDefinition, G!Free
<1>3. ASSUME clerk.record # None
      PROVE  ClerkKnown'
  <2>1. PICK p \in Phase, g \in GateRecords, h \in GateRecords :
            /\ p = clerk.phase /\ g = clerk.record /\ h = clerk'.record /\ h # None
            /\ \/ h = g /\ p = 0
               \/ p > 0 /\ h = [g EXCEPT !.still = FALSE]
    <3>1. clerk.phase \in Phase /\ clerk.record \in GateRecords
      BY <1>1, <1>3 DEF ClerkRecords
    <3>2. clerk.phase # 0 => clerk.phase > 0
      BY <3>1 DEF Phase, GateBounds
    <3>3. clerk.phase # 0 => clerk'.record = [clerk.record EXCEPT !.still = FALSE]
      BY <1>3, DisturbedShape
    <3>4. clerk.phase = 0 => clerk'.record = clerk.record
      BY DisturbedShape
    <3>5. clerk'.record \in GateRecords
      BY <3>1, <3>3, <3>4 DEF GateRecords
    <3>6. clerk'.record # None
      BY <3>5 DEF GateBounds
    <3> QED BY <3>1, <3>2, <3>3, <3>4, <3>5, <3>6
  <2>2. /\ h.number = g.number /\ h.commit = g.commit /\ h.receipt = g.receipt
        /\ h.previous = g.previous /\ (p > 0 => h.still = FALSE) /\ (h.still => g.still)
    BY <2>1 DEF GateRecords
  <2>3. clerk.pc \in Drafting /\ Draft(g, p) /\ clerk.op = "issue" /\ p = clerk'.phase
    BY <1>1, <1>3, <2>1 DEF ClerkKnown
  <2>4. Draft(h, p)'
    <3>1. g.commit \in Nat
      BY <2>1 DEF GateRecords, G!Commits
    <3>2. git.top \in Nat /\ git'.top \in Nat /\ git.top <= git'.top
      BY DEF Grows, GateInv, GateShapes, GitRecords, G!Commits
    <3> QED BY <2>2, <2>3, <3>1, <3>2 DEF Draft, Grows
  <2>5. PastDefinition(clerk) => Looked(h, p)'
    BY <1>1, <2>1, <2>2 DEF ClerkKnown, Looked
  <2>6. clerk.pc = "write" => Sound(h, p)'
    <3> SUFFICES ASSUME clerk.pc = "write" PROVE Sound(h, p)'
      OBVIOUS
    <3>1. Sound(g, p)
      BY <1>1, <2>1 DEF ClerkKnown
    <3>2. p > 0 => activation'[p] # None
      BY <3>1 DEF Sound
    <3>3. Sound(g, p)'
      BY <2>1, <3>1, <3>2, SoundStays DEF GateInv
    <3> QED BY <2>1, <2>2, <3>3 DEF Sound, Keeping, G!IsAncestor
  <2>7. clerk' # G!Free /\ clerk # G!Free
    BY <1>1, <1>3, <2>1 DEF G!Free
  <2>8. PastDefinition(clerk)' <=> PastDefinition(clerk)
    BY <1>1 DEF PastDefinition
  <2>9. /\ PastDefinition(clerk)' => Looked(clerk.record, clerk.phase)'
        /\ clerk'.pc = "write" => Sound(clerk.record, clerk.phase)'
        /\ Draft(clerk.record, clerk.phase)'
    BY <1>1, <2>1, <2>3, <2>4, <2>5, <2>6, <2>8 DEF Looked, Sound, Keeping, Draft, G!IsAncestor
  <2> QED BY <1>1, <2>1, <2>3, <2>7, <2>9 DEF ClerkKnown, Drafting
<1> QED BY <1>2, <1>3

LEMMA CommitWorkStep == ASSUME GateInv, GateBounds, G!CommitWork PROVE GateInv'
<1>1. PICK edited : /\ git.top < MaxCommit
          /\ git' = [head |-> git.top + 1, top |-> git.top + 1,
                above |-> [git.above EXCEPT ![git.top + 1] = git.above[git.head] \cup {git.top + 1}],
                definition |-> [git.definition EXCEPT ![git.top + 1] =
                  [p \in Phase |-> git.definition[git.head][p] + IF p \in edited THEN 1 ELSE 0]]]
  BY DEF G!CommitWork, G!Phase, Phase
<1>2. /\ git.top \in Nat /\ git.head \in G!Commits /\ git.head <= git.top /\ MaxCommit \in Nat
      /\ git.above \in [G!Commits -> SUBSET G!Commits]
      /\ git.definition \in [G!Commits -> [Phase -> Nat]]
      /\ G!Commits = 0 .. MaxCommit
  BY DEF GateInv, GateShapes, GitRecords, G!Commits, GateBounds
<1>3. git.top + 1 \in G!Commits /\ git'.top = git.top + 1 /\ git'.head = git.top + 1
  BY <1>1, <1>2
<1>4. /\ git'.above \in [G!Commits -> SUBSET G!Commits]
      /\ git'.above[git.top + 1] = git.above[git.head] \cup {git.top + 1}
      /\ \A c \in 0 .. git.top : git'.above[c] = git.above[c]
  BY <1>1, <1>2, <1>3
<1>5. /\ git'.definition \in [G!Commits -> [Phase -> Nat]]
      /\ \A c \in 0 .. git.top : git'.definition[c] = git.definition[c]
  <2> DEFINE version == [p \in Phase |-> git.definition[git.head][p] + IF p \in edited THEN 1 ELSE 0]
  <2>1. version \in [Phase -> Nat]
    BY <1>2
  <2>2. git'.definition = [git.definition EXCEPT ![git.top + 1] = version]
    BY <1>1
  <2> HIDE DEF version
  <2> QED BY <1>2, <1>3, <2>1, <2>2
<1>6. git' \in GitRecords /\ git'.head <= git'.top
  <2>1. git' = [head |-> git'.head, top |-> git'.top, above |-> git'.above,
                definition |-> git'.definition]
    BY <1>1
  <2> QED BY <1>2, <1>3, <1>4, <1>5, <2>1 DEF GitRecords
<1>7. ASSUME NEW c \in 0 .. git'.top
      PROVE  {0, c} \subseteq git'.above[c] /\ git'.above[c] \subseteq 0 .. c
  <2>1. git.head \in 0 .. git.top /\ \A d \in 0 .. git.top :
            {0, d} \subseteq git.above[d] /\ git.above[d] \subseteq 0 .. d
    BY <1>2 DEF GateInv, GateShapes
  <2>2. CASE c \in 0 .. git.top
    BY <1>4, <2>1, <2>2
  <2>3. CASE c = git.top + 1
    <3>1. git'.above[c] = git.above[git.head] \cup {c}
      BY <1>4, <2>3
    <3>2. {0, git.head} \subseteq git.above[git.head] /\ git.above[git.head] \subseteq 0 .. git.head
      BY <2>1
    <3>3. git.head \in Nat /\ git.head <= git.top
      BY <1>2, <2>1
    <3> QED BY <1>2, <2>3, <3>1, <3>2, <3>3
  <2> QED BY <1>2, <1>3, <2>2, <2>3
<1>8. UNCHANGED <<receipts, gateReview, gate, issued, activation, journal, guard, current,
                  card, bound>>
  BY DEF G!CommitWork, G!records
<1>9. GateShapes'
  <2>1. clerk' \in ClerkRecords
    BY DisturbedShape DEF G!CommitWork
  <2> QED BY <1>6, <1>7, <1>8, <2>1 DEF GateInv, GateShapes
<1>10. Grows
  <2>1. git.top <= git'.top /\ receipts \subseteq receipts'
    BY <1>2, <1>3, <1>8
  <2> QED BY <1>4, <1>5, <2>1 DEF Grows
<1>11. \A r \in receipts' : r.commit <= git'.top
  BY <1>2, <1>3, <1>8 DEF GateInv, GateShapes, Stored, ReceiptRecords, G!Commits
<1>12. ClerkKnown'
  BY <1>8, <1>9, <1>10, DisturbedStep DEF G!CommitWork
<1> QED BY <1>8, <1>9, <1>10, <1>11, <1>12, GrowsStep

LEMMA CheckoutStep == ASSUME GateInv, GateBounds, G!Checkout PROVE GateInv'
<1>1. PICK c \in 0 .. git.top : git' = [git EXCEPT !.head = c]
  BY DEF G!Checkout
<1>2. git \in GitRecords /\ git.top \in 0 .. MaxCommit
  BY DEF GateInv, GateShapes, GitRecords, G!Commits
<1>3. c \in G!Commits /\ c <= git.top
  BY <1>2 DEF G!Commits, GateBounds
<1>4. git' \in GitRecords
  BY <1>1, <1>2, <1>3, Zenon DEF GitRecords
<1>5. /\ git'.head = c /\ git'.top = git.top /\ git'.above = git.above
      /\ git'.definition = git.definition
  BY <1>1, <1>2 DEF GitRecords
<1>6. UNCHANGED <<receipts, gateReview, gate, issued, activation, journal, guard, current,
                  card, bound>>
  BY DEF G!Checkout, G!records
<1>7. GateShapes'
  <2>1. clerk' \in ClerkRecords
    BY DisturbedShape DEF G!Checkout
  <2> QED BY <1>3, <1>4, <1>5, <1>6, <2>1 DEF GateInv, GateShapes
<1>8. Grows
  BY <1>2, <1>5, <1>6 DEF Grows
<1>9. \A r \in receipts' : r.commit <= git'.top
  BY <1>5, <1>6 DEF GateInv, Stored
<1>10. ClerkKnown'
  BY <1>6, <1>7, <1>8, DisturbedStep DEF G!Checkout
<1> QED BY <1>6, <1>7, <1>8, <1>9, <1>10, GrowsStep

\* There are as many activations as phases after the first, at most.
LEMMA ActivationsShape ==
    ASSUME GateBounds, activation[0] = None PROVE G!Activations \in Phase
<1> DEFINE S == {p \in Phase : activation[p] # None}
<1>1. S \subseteq 1 .. LastPhase
  BY DEF Phase, GateBounds
<1>2. IsFiniteSet(1 .. LastPhase) /\ Cardinality(1 .. LastPhase) = LastPhase
  BY FS_Interval DEF GateBounds
<1>3. Cardinality(S) <= LastPhase /\ IsFiniteSet(S)
  BY <1>1, <1>2, FS_Subset
<1>4. Cardinality(S) \in Nat
  BY <1>3, FS_CardinalityType
<1>5. G!Cardinality(S) = Cardinality(S)
  BY DEF G!Cardinality, Cardinality
<1> QED BY <1>3, <1>4, <1>5 DEF G!Activations, G!Phase, Phase, GateBounds

LEMMA VerifyStep == ASSUME GateInv, GateBounds, G!Verify PROVE GateInv'
<1>1. /\ receipts' = receipts \cup {[commit |-> git.head, after |-> G!Activations]}
      /\ UNCHANGED <<git, gateReview, gate, issued, activation, journal, clerk, guard, current, card, bound>>
  BY DEF G!Verify
<1>2. git.head \in G!Commits /\ git.head <= git.top /\ git.top \in 0 .. MaxCommit
  BY DEF GateInv, GateShapes, GitRecords, G!Commits
<1>3. G!Activations \in Phase
  BY ActivationsShape DEF GateInv, Stored
<1>4. receipts' \subseteq ReceiptRecords
  BY <1>1, <1>2, <1>3 DEF GateInv, GateShapes, ReceiptRecords
<1>5. GateShapes'
  BY <1>1, <1>4 DEF GateInv, GateShapes
<1>6. Grows
  BY <1>1, <1>2 DEF Grows, GateBounds
<1>7. \A r \in receipts' : r.commit <= git'.top
  BY <1>1, <1>2 DEF GateInv, Stored
<1>8. ClerkKnown'
  BY <1>1, ClerkFree DEF G!Verify
<1> QED BY <1>1, <1>5, <1>6, <1>7, <1>8, GrowsStep

LEMMA UserMovesStep == ASSUME GateInv, GateBounds, G!UserMovesCard PROVE GateInv'
<1>1. PICK p \in Phase : /\ card[p] \in {"in_progress", "blocked"}
          /\ card' = [card EXCEPT ![p] = IF @ = "blocked" THEN "in_progress" ELSE "blocked"]
  BY DEF G!UserMovesCard, G!Phase, Phase
<1>2. UNCHANGED <<git, receipts, gateReview, gate, issued, activation, journal, clerk, guard, current, bound>>
  BY DEF G!UserMovesCard, G!records
<1>3. card' \in [Phase -> Statuses] /\ \A q \in Phase :
          card'[q] = card[q] \/ (card'[q] \in {"in_progress", "blocked"}
                                  /\ card[q] \in {"in_progress", "blocked"})
  BY <1>1 DEF GateInv, GateShapes, Statuses
<1>4. GateShapes'
  BY <1>2, <1>3 DEF GateInv, GateShapes
<1>5. GuardKnown'
  <2>1. guard.phase \in Phase /\ (guard.phase < LastPhase => guard.phase + 1 \in Phase)
    BY DEF GateInv, GateShapes, GuardRecords, Phase, GateBounds
  <2> QED BY <1>2, <1>3, <2>1 DEF GateInv, GuardKnown, Taking
<1>6. G!InOrder'
  <2>1. ASSUME NEW q \in 1 .. LastPhase PROVE q \in Phase /\ q - 1 \in Phase
    BY DEF Phase, GateBounds
  <2> QED BY <1>2, <1>3, <2>1 DEF GateInv, G!InOrder
<1> QED BY <1>2, <1>4, <1>5, <1>6, StoredSame, ClerkSame DEF GateInv

LEMMA SessionEndsStep == ASSUME GateInv, GateBounds, G!SessionEnds PROVE GateInv'
<1>1. bound' \in [Session -> SUBSET Phase]
  BY DEF G!SessionEnds, GateInv, GateShapes
<1>2. UNCHANGED <<git, receipts, gateReview, gate, issued, activation, journal, clerk, guard,
                  current, card>>
  BY DEF G!SessionEnds, G!records
<1>3. GateShapes'
  BY <1>1, <1>2 DEF GateInv, GateShapes
<1> QED BY <1>2, <1>3, StoredSame, ClerkSame, GuardSame, OrderSame DEF GateInv
-----------------------------------------------------------------------------
(* PhaseGate: the gate is issued.                                           *)

LEMMA ReviewStep == ASSUME GateInv, GateBounds, NEW p \in Phase, G!Review(p) PROVE GateInv'
<1>1. PICK r \in receipts : gateReview' = [gateReview EXCEPT ![p] = r]
  BY DEF G!Review
<1>2. /\ UNCHANGED <<git, receipts, gate, issued, activation, journal, clerk, guard, current,
                     card, bound>>
      /\ clerk = G!Free
  BY DEF G!Review
<1>3. /\ gateReview' \in [Phase -> ReceiptRecords \cup {None}] /\ gateReview'[p] = r
      /\ \A q \in Phase \ {p} : gateReview'[q] = gateReview[q]
  BY <1>1 DEF GateInv, GateShapes
<1>4. GateShapes'
  BY <1>2, <1>3 DEF GateInv, GateShapes
<1>5. Stored'
  <2>1. \A q \in Phase : gateReview'[q] # None => gateReview'[q] \in receipts'
    BY <1>2, <1>3 DEF GateInv, Stored
  <2> QED BY <1>2, <2>1 DEF GateInv, Stored, Sound, Keeping, G!IsAncestor
<1>6. ClerkKnown'
  BY <1>2, ClerkFree
<1> QED BY <1>2, <1>4, <1>5, <1>6, GuardSame, OrderSame DEF GateInv

LEMMA IssueBeginsStep ==
    ASSUME GateInv, GateBounds, NEW p \in Phase, G!IssueBegins(p) PROVE GateInv'
<1>1. /\ gateReview[p] # None /\ issued < MaxGates
      /\ clerk' = [op |-> "issue", phase |-> p, pc |-> "revalidate", look |-> p, record |-> None]
  BY DEF G!IssueBegins, G!Clerk
<1>2. UNCHANGED <<git, receipts, gateReview, gate, issued, activation, journal, guard, current, card, bound>>
  BY DEF G!IssueBegins, G!records
<1>3. clerk' \in ClerkRecords
  BY <1>1 DEF ClerkRecords
<1>4. GateShapes'
  BY <1>2, <1>3 DEF GateInv, GateShapes
<1>5. ClerkKnown'
  BY <1>1, <1>2 DEF ClerkKnown, Drafting, PastDefinition, G!Free
<1> QED BY <1>2, <1>4, <1>5, StoredSame, GuardSame, OrderSame DEF GateInv

\* The clerk gives up.
LEMMA IssueFails ==
    ASSUME GateInv, GateBounds, clerk' = G!Free,
           UNCHANGED <<git, receipts, gateReview, gate, issued, activation, journal, guard, current,
                       card, bound>>
    PROVE  GateInv'
<1>1. ClerkKnown' /\ clerk' \in ClerkRecords
  BY ClerkFree
<1>2. GateShapes'
  BY <1>1 DEF GateInv, GateShapes
<1> QED BY <1>1, <1>2, StoredSame, GuardSame, OrderSame DEF GateInv

\* The record is drafted.
LEMMA IssueDraftsStep == ASSUME GateInv, GateBounds, G!IssueDrafts PROVE GateInv'
<1>1. UNCHANGED <<git, receipts, gateReview, gate, issued, activation, journal, guard, current,
                  card, bound>>
  BY DEF G!IssueDrafts, G!records
<1>2. CASE clerk' = G!Free
  BY <1>1, <1>2, IssueFails
<1>3. CASE /\ gateReview[clerk.phase].commit = git.head /\ gate[clerk.phase] = None
           /\ clerk.phase > 0 => gate[clerk.phase - 1] # None
           /\ G!Clerk("issue", clerk.phase, "exact", G!Drafted(clerk.phase))
  <2>1. PICK p \in Phase : p = clerk.phase
    BY DEF GateInv, GateShapes, ClerkRecords
  <2>2. clerk.pc = "revalidate" /\ gateReview[p] # None /\ issued < MaxGates /\ gate[p] = None
    BY <1>3, <2>1 DEF G!IssueDrafts, GateInv, ClerkKnown
  <2> DEFINE g == G!Drafted(p)
  <2>3. /\ g.number = issued + 1 /\ g.commit = git.head /\ g.receipt = gateReview[p]
        /\ g = [number |-> g.number, commit |-> g.commit, receipt |-> g.receipt,
                still |-> TRUE, previous |-> g.previous]
        /\ g.previous = IF p > 0 THEN gate[p - 1].number ELSE 0
    BY DEF G!Drafted
  <2>4. clerk' = [op |-> "issue", phase |-> p, pc |-> "exact", look |-> p, record |-> g]
    BY <1>3, <2>1 DEF G!Clerk
  <2> HIDE DEF g
  <2>5. /\ git.head \in G!Commits /\ git.head <= git.top /\ issued \in Nat
        /\ gateReview[p] \in ReceiptRecords /\ gateReview[p] \in receipts
    BY <2>2 DEF GateInv, GateShapes, GitRecords, Stored, Numbers, GateBounds
  <2>6. g.previous \in Nat
    <3>1. CASE p > 0
      <4>1. p - 1 \in Phase
        BY <3>1 DEF Phase, GateBounds
      <4>2. gate[p - 1] # None
        BY <1>3, <2>1, <3>1
      <4> QED BY <2>3, <3>1, <4>1, <4>2 DEF GateInv, GateShapes, GateRecords
    <3>2. CASE ~(p > 0)
      BY <2>3, <3>2
    <3> QED BY <3>1, <3>2
  <2>7. g \in GateRecords
    <3>1. /\ g.number \in Nat /\ g.commit \in G!Commits /\ g.receipt \in ReceiptRecords
          /\ TRUE \in BOOLEAN
      BY <2>3, <2>5
    <3>2. [number |-> g.number, commit |-> g.commit, receipt |-> g.receipt, still |-> TRUE,
           previous |-> g.previous] \in GateRecords
      BY <2>6, <3>1, Zenon DEF GateRecords
    <3> QED BY <2>3, <3>2
  <2>8. PICK r \in GateRecords :
            /\ r = g /\ r.number = issued + 1 /\ r.commit = git.head /\ r.receipt = gateReview[p]
    BY <2>3, <2>7
  <2>9. r # None
    BY DEF GateBounds
  <2>10. clerk' \in ClerkRecords
    BY <2>4, <2>8 DEF ClerkRecords, Drafting
  <2>11. Draft(r, p)'
    BY <1>1, <2>2, <2>5, <2>8 DEF Draft
  <2>12. ClerkKnown'
    <3>1. /\ clerk'.op = "issue" /\ clerk'.pc = "exact" /\ clerk'.record = r
          /\ clerk'.phase = p /\ clerk' # G!Free
      BY <2>4, <2>8 DEF G!Free
    <3>2. Draft(clerk.record, clerk.phase)'
      BY <2>11, <3>1 DEF Draft
    <3> QED BY <1>1, <2>2, <2>9, <3>1, <3>2 DEF ClerkKnown, Drafting, PastDefinition
  <2>13. GateShapes'
    BY <1>1, <2>10 DEF GateInv, GateShapes
  <2> QED BY <1>1, <2>12, <2>13, StoredSame, GuardSame, OrderSame DEF GateInv
<1> QED BY <1>2, <1>3 DEF G!IssueDrafts

\* A look has found what it should.
LEMMA IssueGoesOn ==
    ASSUME GateInv, GateBounds, clerk.pc \in Drafting, NEW pc \in Drafting, NEW look \in Phase,
           clerk' = [clerk EXCEPT !.pc = pc, !.look = look],
           pc = "frozen" => look \in 1 .. clerk.phase,
           pc = "contains" => look < clerk.phase,
           pc # "exact" /\ (pc = "frozen" => look < clerk.phase) => Looked(clerk.record, clerk.phase),
           pc = "write" => Sound(clerk.record, clerk.phase),
           UNCHANGED <<git, receipts, gateReview, gate, issued, activation, journal, guard, current,
                       card, bound>>
    PROVE  GateInv'
<1>1. clerk \in ClerkRecords /\ ClerkKnown
  BY DEF GateInv, GateShapes
<1>2. /\ clerk' \in ClerkRecords /\ clerk'.pc = pc /\ clerk'.look = look
      /\ clerk'.op = clerk.op /\ clerk'.phase = clerk.phase /\ clerk'.record = clerk.record
  BY <1>1 DEF ClerkRecords
<1>3. /\ clerk.op = "issue" /\ clerk.record # None /\ Draft(clerk.record, clerk.phase)
      /\ gateReview[clerk.phase] # None /\ issued < MaxGates
  BY <1>1 DEF ClerkKnown
<1>4. clerk' # G!Free /\ clerk' # G!Free
  BY <1>2, <1>3 DEF G!Free
<1>5. Draft(clerk.record, clerk.phase)'
  BY <1>2, <1>3 DEF Draft
<1>6. PastDefinition(clerk)' => Looked(clerk.record, clerk.phase)'
  <2>1. PastDefinition(clerk)' => Looked(clerk.record, clerk.phase)
    BY <1>2 DEF PastDefinition
  <2> QED BY <1>2, <2>1 DEF Looked, Keeping
<1>7. pc = "write" => Sound(clerk.record, clerk.phase)'
  BY <1>2 DEF Sound, Keeping, G!IsAncestor
<1>8. ClerkKnown'
  BY <1>2, <1>3, <1>4, <1>5, <1>6, <1>7 DEF ClerkKnown, Drafting
<1>9. GateShapes'
  BY <1>2 DEF GateInv, GateShapes
<1> QED BY <1>8, <1>9, StoredSame, GuardSame, OrderSame DEF GateInv

LEMMA IssueChecksStep == ASSUME GateInv, GateBounds, G!IssueChecks PROVE GateInv'
<1>1. UNCHANGED <<git, receipts, gateReview, gate, issued, activation, journal, guard, current,
                  card, bound>>
  BY DEF G!IssueChecks, G!records
<1>2. CASE clerk' = G!Free
  BY <1>1, <1>2, IssueFails
<1>3. PICK p \in Phase, q \in Phase, g \in GateRecords :
          p = clerk.phase /\ q = clerk.look /\ g = clerk.record
  <2>1. clerk \in ClerkRecords /\ clerk.record # None
    BY DEF G!IssueChecks, GateInv, GateShapes, ClerkKnown, Drafting
  <2> QED BY <2>1 DEF ClerkRecords
<1>4. clerk.pc \in Drafting /\ Draft(g, p) /\ p \in Nat /\ q \in Nat /\ p <= LastPhase
  <2>1. clerk.pc \in Drafting
    BY DEF G!IssueChecks, Drafting
  <2>2. Draft(g, p)
    BY <1>3, <2>1 DEF GateInv, ClerkKnown
  <2> QED BY <2>1, <2>2 DEF Phase, GateBounds
<1>5. CASE clerk.pc = "exact" /\ clerk' # G!Free
  <2>1. CASE p = 0
    <3>1. clerk' = [clerk EXCEPT !.pc = "again", !.look = p]
      BY <1>3, <1>5, <2>1 DEF G!IssueChecks, G!GoesOn
    <3>2. Looked(g, p)
      BY <2>1 DEF Looked
    <3> QED BY <1>1, <1>3, <1>4, <3>1, <3>2, IssueGoesOn DEF Drafting
  <2>2. CASE p # 0
    <3>1. clerk' = [clerk EXCEPT !.pc = "frozen", !.look = p]
      BY <1>3, <1>5, <2>2 DEF G!IssueChecks, G!GoesOn
    <3>2. p \in 1 .. p /\ ~(p < p)
      BY <1>4, <2>2
    <3> QED BY <1>1, <1>3, <1>4, <3>1, <3>2, IssueGoesOn DEF Drafting
  <2> QED BY <2>1, <2>2
<1>6. CASE clerk.pc = "frozen" /\ clerk' # G!Free
  <2> DEFINE pc == IF q > 1 THEN "frozen" ELSE "contains"
  <2>1. /\ clerk' = [clerk EXCEPT !.pc = pc, !.look = q - 1]
        /\ gate[q - 1] # None /\ G!Frozen(q - 1, git.head)
    BY <1>3, <1>6 DEF G!IssueChecks, G!GoesOn
  <2>2. q \in 1 .. p
    BY <1>3, <1>6 DEF GateInv, ClerkKnown
  <2>3. /\ pc \in {"contains", "frozen"} /\ (pc = "frozen" => q - 1 \in 1 .. p)
        /\ (pc = "contains" => q - 1 < p) /\ q - 1 \in Phase
    BY <1>4, <2>2 DEF Phase, GateBounds
  <2>4. Looked(g, p)
    <3>1. CASE q = p
      BY <1>4, <2>1, <3>1 DEF Looked, Keeping, Draft, G!Frozen
    <3>2. CASE q # p
      <4>1. PastDefinition(clerk)
        BY <1>3, <1>4, <1>6, <2>2, <3>2 DEF PastDefinition
      <4> QED BY <1>3, <4>1 DEF GateInv, ClerkKnown
    <3> QED BY <3>1, <3>2
  <2> HIDE DEF pc
  <2> QED BY <1>1, <1>3, <1>4, <2>1, <2>3, <2>4, IssueGoesOn DEF Drafting
<1>7. CASE clerk.pc = "contains" /\ clerk' # G!Free
  <2> DEFINE pc == IF q + 1 < p THEN "contains" ELSE "again"
  <2>1. clerk' = [clerk EXCEPT !.pc = pc, !.look = q + 1]
    BY <1>3, <1>7 DEF G!IssueChecks, G!GoesOn
  <2>2. q < p /\ Looked(g, p)
    BY <1>3, <1>7 DEF GateInv, ClerkKnown, PastDefinition
  <2>3. pc \in {"contains", "again"} /\ (pc = "contains" => q + 1 < p) /\ q + 1 \in Phase
    BY <1>4, <2>2 DEF Phase, GateBounds
  <2> HIDE DEF pc
  <2> QED BY <1>1, <1>3, <1>4, <2>1, <2>2, <2>3, IssueGoesOn DEF Drafting
<1>8. CASE clerk.pc = "again" /\ clerk' # G!Free
  <2>1. /\ clerk' = [clerk EXCEPT !.pc = "write", !.look = p]
        /\ G!Follows(g, p) /\ g.receipt.commit = g.commit
    BY <1>3, <1>8 DEF G!IssueChecks, G!GoesOn
  <2>2. Looked(g, p)
    BY <1>3, <1>8 DEF GateInv, ClerkKnown, PastDefinition
  <2>3. Sound(g, p)
    BY <1>4, <2>1, <2>2 DEF Sound, Looked, Draft, G!Follows, G!RestsOn
  <2> QED BY <1>1, <1>3, <1>4, <2>1, <2>2, <2>3, IssueGoesOn DEF Drafting
<1> QED BY <1>2, <1>5, <1>6, <1>7, <1>8 DEF G!IssueChecks

\* Nothing rests on the gate of a phase that has none, so that writing it leaves the
\* others where they stand.
LEMMA IssueWritesStep == ASSUME GateInv, GateBounds, G!IssueWrites PROVE GateInv'
<1>1. PICK p \in Phase, g \in GateRecords :
          /\ p = clerk.phase /\ g = clerk.record /\ clerk.pc = "write" /\ g.number = issued + 1
          /\ gate[p] = None /\ Sound(g, p) /\ issued < MaxGates
  <2>1. clerk.pc = "write" /\ clerk \in ClerkRecords /\ ClerkKnown
    BY DEF G!IssueWrites, GateInv, GateShapes
  <2>2. clerk.record # None /\ clerk.record \in GateRecords /\ clerk.phase \in Phase
    BY <2>1 DEF ClerkKnown, ClerkRecords, Drafting
  <2> QED BY <2>1, <2>2 DEF ClerkKnown, Drafting, Draft
<1>2. /\ gate' = [gate EXCEPT ![p] = g] /\ issued' = issued + 1
      /\ clerk' = G!Free
      /\ UNCHANGED <<git, receipts, gateReview, activation, journal, guard, current, card, bound>>
  BY <1>1 DEF G!IssueWrites
<1>3. issued \in Nat /\ issued + 1 \in Numbers
  BY <1>1 DEF GateInv, GateShapes, Numbers, GateBounds
<1>4. ClerkKnown' /\ clerk' \in ClerkRecords
  BY <1>2, ClerkFree
<1>5. /\ gate' \in [Phase -> GateRecords \cup {None}] /\ gate'[p] = g
      /\ \A q \in Phase \ {p} : gate'[q] = gate[q]
  BY <1>2 DEF GateInv, GateShapes
<1>6. GateShapes'
  BY <1>2, <1>3, <1>4, <1>5 DEF GateInv, GateShapes
<1>7. Grows
  BY <1>2 DEF Grows, GateInv, GateShapes, GitRecords, G!Commits, GateBounds
<1>8. ASSUME NEW q \in Phase, gate'[q] # None
      PROVE  Sound(gate[q], q)' /\ gate'[q].number \in 1 .. issued'
  <2>1. CASE q = p
    <3>1. p > 0 => gate'[p - 1] = gate[p - 1] /\ activation'[p] # None
      <4> SUFFICES ASSUME p > 0 PROVE gate'[p - 1] = gate[p - 1] /\ activation'[p] # None
        OBVIOUS
      <4>1. p - 1 \in Phase \ {p}
        BY DEF Phase, GateBounds
      <4> QED BY <1>1, <1>2, <1>5, <4>1 DEF Sound
    <3>2. Sound(g, p)'
      BY <1>1, <1>6, <1>7, <3>1, SoundStays DEF GateInv
    <3> QED BY <1>1, <1>2, <1>3, <1>5, <2>1, <3>2 DEF Sound, Keeping, G!IsAncestor
  <2>2. CASE q # p
    <3>1. PICK h \in GateRecords : h = gate[q] /\ Sound(h, q) /\ h.number \in 1 .. issued
      BY <1>5, <1>8, <2>2 DEF GateInv, GateShapes, Stored
    <3>2. q > 0 => gate'[q - 1] = gate[q - 1] /\ activation'[q] # None
      <4> SUFFICES ASSUME q > 0 PROVE gate'[q - 1] = gate[q - 1] /\ activation'[q] # None
        OBVIOUS
      <4>1. gate[q - 1] # None /\ q - 1 \in Phase /\ activation[q] # None
        BY <3>1 DEF Sound, Phase, GateBounds
      <4> QED BY <1>1, <1>2, <1>5, <4>1
    <3>3. Sound(h, q)'
      BY <1>6, <1>7, <3>1, <3>2, SoundStays DEF GateInv
    <3> QED BY <1>2, <1>3, <1>5, <2>2, <3>1, <3>3 DEF Sound, Keeping, G!IsAncestor
  <2> QED BY <2>1, <2>2
<1>9. ASSUME NEW q \in 1 .. LastPhase, activation'[q] # None
      PROVE  /\ gate'[q - 1] # None /\ gate'[q - 1].number = activation'[q].gate
             /\ journal'[q - 1].status # "pending"
  <2>1. /\ gate[q - 1] # None /\ gate[q - 1].number = activation[q].gate
        /\ journal[q - 1].status # "pending" /\ q - 1 \in Phase
    BY <1>2, <1>9 DEF GateInv, Stored, Phase, GateBounds
  <2> QED BY <1>1, <1>2, <1>5, <2>1
<1>10. Stored'
  BY <1>2, <1>8, <1>9 DEF GateInv, Stored
<1> QED BY <1>2, <1>4, <1>6, <1>10, GuardSame, OrderSame DEF GateInv
-----------------------------------------------------------------------------
(* PhaseGate: the gate is reopened.                                         *)

LEMMA ReopenBeginsStep ==
    ASSUME GateInv, GateBounds, NEW p \in Phase, G!ReopenBegins(p) PROVE GateInv'
<1>1. /\ p < LastPhase => activation[p + 1] = None
      /\ clerk' = [op |-> "reopen", phase |-> p, pc |-> "archive", look |-> p, record |-> None]
      /\ UNCHANGED <<git, receipts, gateReview, gate, issued, activation, guard, current, card, bound>>
  BY DEF G!ReopenBegins, G!Reopenable, G!Clerk
<1>2. /\ journal' \in [Phase -> JournalRecords] /\ journal'[p].status = "pending"
      /\ \A q \in Phase \ {p} : journal'[q] = journal[q]
  <2>1. CASE journal[p].status = "pending" /\ UNCHANGED journal
    BY <2>1 DEF GateInv, GateShapes
  <2>2. CASE journal' = [journal EXCEPT ![p] = [status |-> "pending", review |-> gateReview[p],
                                                gate |-> gate[p]]]
    <3> DEFINE j == [status |-> "pending", review |-> gateReview[p], gate |-> gate[p]]
    <3>1. j \in JournalRecords /\ j.status = "pending"
      BY DEF JournalRecords, GateInv, GateShapes
    <3>2. journal' = [journal EXCEPT ![p] = j]
      BY <2>2
    <3> HIDE DEF j
    <3> QED BY <3>1, <3>2 DEF GateInv, GateShapes
  <2> QED BY <2>1, <2>2 DEF G!ReopenBegins
<1>3. clerk' \in ClerkRecords
  BY <1>1 DEF ClerkRecords
<1>4. GateShapes'
  BY <1>1, <1>2, <1>3 DEF GateInv, GateShapes
<1>5. Stored'
  <2>1. ASSUME NEW q \in 1 .. LastPhase, activation'[q] # None
        PROVE  /\ gate'[q - 1] # None /\ gate'[q - 1].number = activation'[q].gate
               /\ journal'[q - 1].status # "pending"
    <3>1. q - 1 \in Phase \ {p}
      BY <1>1, <2>1 DEF Phase, GateBounds
    <3> QED BY <1>1, <1>2, <2>1, <3>1 DEF GateInv, Stored
  <2> QED BY <1>1, <2>1 DEF GateInv, Stored, Sound, Keeping, G!IsAncestor
<1>6. ClerkKnown'
  BY <1>1, <1>2 DEF ClerkKnown, Drafting, PastDefinition, G!Free
<1> QED BY <1>1, <1>4, <1>5, <1>6, GuardSame, OrderSame DEF GateInv

\* The clerk of a reopening goes on.
LEMMA ReopenGoes ==
    ASSUME GateInv, GateBounds, clerk.op = "reopen",
           NEW pc \in {"unlink review", "unlink gate", "close"},
           G!Clerk("reopen", clerk.phase, pc, None), UNCHANGED journal
    PROVE  ClerkKnown' /\ clerk' \in ClerkRecords
<1>1. clerk.phase \in Phase /\ journal[clerk.phase].status = "pending"
  BY DEF GateInv, GateShapes, ClerkRecords, ClerkKnown
<1>2. clerk' = [op |-> "reopen", phase |-> clerk.phase, pc |-> pc, look |-> clerk.phase, record |-> None]
  BY DEF G!Clerk
<1>3. clerk' \in ClerkRecords
  BY <1>1, <1>2 DEF ClerkRecords
<1> QED BY <1>1, <1>2, <1>3 DEF ClerkKnown, Drafting, PastDefinition, G!Free

\* Nothing rests on the phase that is reopened.
LEMMA ReopenAlone ==
    ASSUME GateInv, GateBounds, clerk.op = "reopen"
    PROVE  /\ clerk.phase \in Phase
           /\ clerk.phase < LastPhase => activation[clerk.phase + 1] = None
           /\ \A q \in Phase : q > 0 /\ gate[q] # None => q - 1 \in Phase \ {clerk.phase}
<1>1. clerk.phase \in Phase /\ journal[clerk.phase].status = "pending"
  BY DEF GateInv, GateShapes, ClerkRecords, ClerkKnown
<1>2. \A q \in 1 .. LastPhase : activation[q] # None => journal[q - 1].status # "pending"
  BY DEF GateInv, Stored
<1>3. clerk.phase < LastPhase => activation[clerk.phase + 1] = None
  BY <1>1, <1>2 DEF Phase, GateBounds
<1>4. ASSUME NEW q \in Phase, q > 0, gate[q] # None PROVE q - 1 \in Phase \ {clerk.phase}
  <2>1. activation[q] # None
    BY <1>4 DEF GateInv, Stored, Sound
  <2> QED BY <1>1, <1>2, <1>4, <2>1 DEF Phase, GateBounds
<1> QED BY <1>1, <1>3, <1>4

LEMMA ReopenArchivesStep == ASSUME GateInv, GateBounds, G!ReopenArchives PROVE GateInv'
<1>1. UNCHANGED <<git, receipts, gateReview, gate, issued, activation, journal, guard, current,
                  card, bound>>
  BY DEF G!ReopenArchives
<1>2. ClerkKnown' /\ clerk' \in ClerkRecords
  <2>1. clerk.op = "reopen"
    BY DEF G!ReopenArchives, GateInv, ClerkKnown
  <2>2. clerk' = G!Free \/ G!Clerk("reopen", clerk.phase, "unlink review", None)
    BY DEF G!ReopenArchives
  <2> QED BY <1>1, <2>1, <2>2, ClerkFree, ReopenGoes
<1>3. GateShapes'
  BY <1>1, <1>2 DEF GateInv, GateShapes
<1> QED BY <1>1, <1>2, <1>3, StoredSame, GuardSame, OrderSame DEF GateInv

LEMMA ReopenRemovesStep == ASSUME GateInv, GateBounds, G!ReopenRemoves PROVE GateInv'
<1> DEFINE p == clerk.phase
<1>1. /\ UNCHANGED <<git, receipts, issued, activation, journal, guard, current, card, bound>>
      /\ clerk.op = "reopen"
  BY DEF G!ReopenRemoves, GateInv, ClerkKnown
<1>2. /\ p \in Phase /\ (p < LastPhase => activation[p + 1] = None)
      /\ \A q \in Phase : q > 0 /\ gate[q] # None => q - 1 \in Phase \ {p}
  BY <1>1, ReopenAlone
<1>3. ClerkKnown' /\ clerk' \in ClerkRecords
  BY <1>1, ReopenGoes DEF G!ReopenRemoves
<1> HIDE DEF p
<1>4. CASE gateReview' = [gateReview EXCEPT ![p] = None] /\ UNCHANGED gate
  <2>1. /\ gateReview' \in [Phase -> ReceiptRecords \cup {None}]
        /\ \A q \in Phase : gateReview'[q] \in {None, gateReview[q]}
    BY <1>2, <1>4 DEF GateInv, GateShapes
  <2>2. GateShapes'
    BY <1>1, <1>3, <1>4, <2>1 DEF GateInv, GateShapes
  <2>3. Stored'
    <3>1. \A q \in Phase : gateReview'[q] # None => gateReview'[q] \in receipts'
      BY <1>1, <2>1 DEF GateInv, Stored
    <3> QED BY <1>1, <1>4, <3>1 DEF GateInv, Stored, Sound, Keeping, G!IsAncestor
  <2> QED BY <1>1, <1>3, <2>2, <2>3, GuardSame, OrderSame DEF GateInv
<1>5. CASE gate' = [gate EXCEPT ![p] = None] /\ UNCHANGED gateReview
  <2>1. /\ gate' \in [Phase -> GateRecords \cup {None}] /\ gate'[p] = None
        /\ \A q \in Phase \ {p} : gate'[q] = gate[q]
    BY <1>2, <1>5 DEF GateInv, GateShapes
  <2>2. GateShapes'
    BY <1>1, <1>3, <1>5, <2>1 DEF GateInv, GateShapes
  <2>3. ASSUME NEW q \in Phase, gate'[q] # None
        PROVE  Sound(gate[q], q)' /\ gate'[q].number \in 1 .. issued'
    <3>1. gate'[q] = gate[q] /\ Sound(gate[q], q) /\ gate[q].number \in 1 .. issued
      BY <2>1, <2>3 DEF GateInv, Stored
    <3>2. q > 0 => gate'[q - 1] = gate[q - 1]
      BY <1>2, <2>1, <2>3, <3>1
    <3> QED BY <1>1, <3>1, <3>2 DEF Sound, Keeping, G!IsAncestor
  <2>4. ASSUME NEW q \in 1 .. LastPhase, activation'[q] # None
        PROVE  /\ gate'[q - 1] # None /\ gate'[q - 1].number = activation'[q].gate
               /\ journal'[q - 1].status # "pending"
    <3>1. q - 1 \in Phase \ {p}
      BY <1>1, <1>2, <2>4 DEF Phase, GateBounds
    <3> QED BY <1>1, <2>1, <2>4, <3>1 DEF GateInv, Stored
  <2>5. Stored'
    BY <1>1, <1>5, <2>3, <2>4 DEF GateInv, Stored
  <2> QED BY <1>1, <1>3, <2>2, <2>5, GuardSame, OrderSame DEF GateInv
<1> QED BY <1>4, <1>5 DEF G!ReopenRemoves, p

LEMMA ReopenClosesStep == ASSUME GateInv, GateBounds, G!ReopenCloses PROVE GateInv'
<1>1. /\ UNCHANGED <<git, receipts, gateReview, gate, issued, activation, guard, current, card, bound>>
      /\ journal' = [journal EXCEPT ![clerk.phase] = G!Blank] /\ clerk' = G!Free
  BY DEF G!ReopenCloses
<1>2. G!Blank \in JournalRecords /\ G!Blank.status # "pending"
  BY DEF G!Blank, JournalRecords
<1>3. /\ journal' \in [Phase -> JournalRecords]
      /\ \A q \in Phase : journal'[q] = journal[q] \/ journal'[q].status # "pending"
  BY <1>1, <1>2 DEF GateInv, GateShapes
<1>4. ClerkKnown' /\ clerk' \in ClerkRecords
  BY <1>1, ClerkFree
<1>5. GateShapes'
  BY <1>1, <1>3, <1>4 DEF GateInv, GateShapes
<1>6. Stored'
  <2>1. ASSUME NEW q \in 1 .. LastPhase, activation'[q] # None
        PROVE  /\ gate'[q - 1] # None /\ gate'[q - 1].number = activation'[q].gate
               /\ journal'[q - 1].status # "pending"
    <3>1. q - 1 \in Phase
      BY DEF Phase, GateBounds
    <3> QED BY <1>1, <1>3, <2>1, <3>1 DEF GateInv, Stored
  <2> QED BY <1>1, <2>1 DEF GateInv, Stored, Sound, Keeping, G!IsAncestor
<1> QED BY <1>1, <1>4, <1>5, <1>6, GuardSame, OrderSame DEF GateInv

LEMMA ClerkDiesStep == ASSUME GateInv, GateBounds, G!ClerkDies PROVE GateInv'
<1>1. /\ UNCHANGED <<git, receipts, gateReview, gate, issued, activation, journal, guard, current, card, bound>>
      /\ clerk' = G!Free
  BY DEF G!ClerkDies, G!records
<1>2. ClerkKnown' /\ clerk' \in ClerkRecords
  BY <1>1, ClerkFree
<1>3. GateShapes'
  BY <1>1, <1>2 DEF GateInv, GateShapes
<1> QED BY <1>1, <1>2, <1>3, StoredSame, GuardSame, OrderSame DEF GateInv
-----------------------------------------------------------------------------
(* PhaseGate: the transition.                                               *)

LEMMA GuardStep ==
    ASSUME GateInv,
           UNCHANGED <<git, receipts, gateReview, gate, issued, activation, journal, clerk>>,
           guard' \in GuardRecords, current' \in Phase, card' \in [Phase -> Statuses],
           bound' \in [Session -> SUBSET Phase], GuardKnown', G!InOrder'
    PROVE  GateInv'
<1>1. GateShapes'
  BY DEF GateInv, GateShapes
<1> QED BY <1>1, StoredSame, ClerkSame DEF GateInv

\* The transition is where it was.
LEMMA GuardPlace ==
    ASSUME GateInv, GateBounds, guard.pc # "out"
    PROVE  /\ guard \in GuardRecords /\ guard.phase \in Phase /\ guard.phase + 1 \in Phase
           /\ guard.phase < LastPhase /\ guard.session \in Session
           /\ guard.phase + 1 \in 1 .. LastPhase
  BY DEF GateInv, GateShapes, GuardKnown, GuardRecords, Phase, GateBounds

LEMMA GuardGoes ==
    ASSUME GateInv, NEW pc \in {"activate"} \cup Taking, G!Guard(pc)
    PROVE  /\ guard' \in GuardRecords /\ guard'.pc = pc /\ guard'.phase = guard.phase
           /\ guard'.session = guard.session /\ guard'.status = guard.status
<1>1. guard \in GuardRecords /\ guard' = [guard EXCEPT !.pc = pc]
  BY DEF GateInv, GateShapes, G!Guard
<1>2. guard' \in GuardRecords
  BY <1>1, Zenon DEF GuardRecords
<1> QED BY <1>1, <1>2 DEF GuardRecords

\* The transition is given up, and what is there stays.
LEMMA LeavesStep ==
    ASSUME GateInv, GateBounds, G!Leave,
           UNCHANGED <<git, receipts, gateReview, gate, issued, activation, journal, clerk,
                       current, card, bound>>
    PROVE  GateInv'
<1>1. GuardKnown' /\ guard' \in GuardRecords
  BY GuardOut DEF G!Leave
<1>2. G!InOrder'
  BY OrderSame DEF GateInv
<1> QED BY <1>1, <1>2, GuardStep DEF GateInv, GateShapes

LEMMA AdvanceBeginsStep ==
    ASSUME GateInv, GateBounds, NEW p \in Phase, p < LastPhase, NEW s \in Session,
           G!AdvanceBegins(s, p)
    PROVE  GateInv'
<1>1. UNCHANGED <<git, receipts, gateReview, gate, issued, activation, journal, clerk, current, card, bound>>
  BY DEF G!AdvanceBegins, G!records
<1>2. 0 \in Numbers /\ "todo" \in Statuses
  BY DEF Numbers, GateBounds, Statuses
<1>3. CASE /\ activation[p + 1] # None
           /\ guard' = [G!Out EXCEPT !.pc = "take up", !.phase = p, !.session = s]
  <2>1. /\ guard' \in GuardRecords /\ guard'.pc = "take up" /\ guard'.phase = p
        /\ guard'.session = s
    BY <1>2, <1>3 DEF G!Out, GuardRecords, Taking
  <2>2. GuardKnown'
    BY <1>1, <1>3, <2>1 DEF GuardKnown
  <2> QED BY <1>1, <2>1, <2>2, GuardStep, OrderSame DEF GateInv, GateShapes
<1>4. CASE /\ gate[p] # None
           /\ guard' = [G!Out EXCEPT !.pc = "activate", !.phase = p, !.session = s,
                                     !.gate = gate[p].number]
  <2>1. gate[p].number \in Numbers
    BY <1>4 DEF GateInv, GateShapes, Stored, Numbers, GateBounds
  <2>2. /\ guard' \in GuardRecords /\ guard'.pc = "activate" /\ guard'.phase = p
        /\ guard'.session = s
    BY <1>2, <1>4, <2>1 DEF G!Out, GuardRecords, Taking
  <2>3. GuardKnown'
    BY <1>1, <2>2 DEF GuardKnown, Taking
  <2> QED BY <1>1, <2>2, <2>3, GuardStep, OrderSame DEF GateInv, GateShapes
<1> QED BY <1>3, <1>4 DEF G!AdvanceBegins

\* The activation rests on the gate that is there when it is written.
LEMMA ActivateStep == ASSUME GateInv, GateBounds, G!Activate PROVE GateInv'
<1>1. /\ guard.pc = "activate"
      /\ UNCHANGED <<git, receipts, gateReview, gate, issued, journal, clerk, current, card, bound>>
      /\ clerk = G!Free
  BY DEF G!Activate
<1>2. CASE G!Leave /\ UNCHANGED activation
  BY <1>1, <1>2, LeavesStep
<1>3. CASE G!Activate /\ ~(G!Leave /\ UNCHANGED activation)
  <2>1. PICK p \in Phase, a \in ActivationRecords :
            /\ p = guard.phase /\ p + 1 \in Phase /\ p + 1 \in 1 .. LastPhase
            /\ G!Activates(p + 1, a) /\ activation' = [activation EXCEPT ![p + 1] = a]
            /\ G!Guard("take up")
    <3> DEFINE a == [gate |-> guard.gate, session |-> guard.session]
    <3>1. guard.phase \in Phase /\ guard.phase + 1 \in Phase /\ guard.phase + 1 \in 1 .. LastPhase
      BY <1>1, GuardPlace
    <3>2. a \in ActivationRecords
      BY <1>1, GuardPlace DEF ActivationRecords, GuardRecords
    <3>3. /\ G!Activates(guard.phase + 1, a)
          /\ activation' = [activation EXCEPT ![guard.phase + 1] = a] /\ G!Guard("take up")
      BY <1>3 DEF G!Activate
    <3> QED BY <3>1, <3>2, <3>3
  <2>2. /\ activation' \in [Phase -> ActivationRecords \cup {None}] /\ activation'[p + 1] = a
        /\ \A q \in Phase \ {p + 1} : activation'[q] = activation[q]
    BY <2>1 DEF GateInv, GateShapes
  <2>3. a # None
    BY DEF GateBounds
  <2>4. /\ guard' \in GuardRecords /\ guard'.pc = "take up" /\ guard'.phase = p
        /\ guard'.session = guard.session
    BY <2>1, GuardGoes DEF Taking
  <2>5. GateShapes'
    BY <1>1, <2>2, <2>4 DEF GateInv, GateShapes
  <2>6. ASSUME NEW q \in Phase PROVE activation[q] # None => activation'[q] # None
    BY <2>2, <2>3
  <2>7. gate[p] # None /\ gate[p].number = a.gate /\ journal[p].status # "pending"
    <3>0. (p + 1) - 1 = p
      BY DEF Phase, GateBounds
    <3>1. G!ChainTo(p) /\ G!RestsOn(p + 1, a)
      BY <2>1, <3>0 DEF G!Activates
    <3>2. p \in 0 .. p
      BY DEF Phase, GateBounds
    <3>3. G!NotReopening(p)
      BY <3>1, <3>2 DEF G!ChainTo
    <3> QED BY <3>0, <3>1, <3>3 DEF G!RestsOn, G!NotReopening
  <2>8. ASSUME NEW q \in 1 .. LastPhase, activation'[q] # None
        PROVE  /\ gate'[q - 1] # None /\ gate'[q - 1].number = activation'[q].gate
               /\ journal'[q - 1].status # "pending"
    <3>1. CASE q = p + 1
      <4>1. q - 1 = p
        BY <3>1 DEF Phase
      <4> QED BY <1>1, <2>2, <2>7, <3>1, <4>1
    <3>2. CASE q # p + 1
      <4>1. activation'[q] = activation[q]
        BY <2>2, <3>2 DEF Phase, GateBounds
      <4> QED BY <1>1, <2>8, <4>1 DEF GateInv, Stored
    <3> QED BY <3>1, <3>2
  <2>9. Stored'
    <3>1. ASSUME NEW q \in Phase, gate[q] # None PROVE Sound(gate[q], q)'
      BY <1>1, <2>6, <3>1 DEF GateInv, Stored, Sound, Keeping, G!IsAncestor
    <3>2. activation'[0] = None
      <4>1. 0 \in Phase \ {p + 1}
        BY DEF Phase, GateBounds
      <4> QED BY <2>2, <4>1 DEF GateInv, Stored
    <3> QED BY <1>1, <2>8, <3>1, <3>2 DEF GateInv, Stored
  <2>10. ClerkKnown'
    BY <1>1, ClerkFree
  <2>11. GuardKnown'
    BY <1>1, <2>1, <2>2, <2>3, <2>4, GuardPlace DEF GuardKnown
  <2>12. G!InOrder'
    <3>1. \A q \in 1 .. LastPhase : q \in Phase
      BY DEF Phase, GateBounds
    <3> QED BY <1>1, <2>6, <3>1 DEF GateInv, G!InOrder
  <2> QED BY <2>5, <2>9, <2>10, <2>11, <2>12 DEF GateInv
<1> QED BY <1>2, <1>3

LEMMA TakeUpStep == ASSUME GateInv, GateBounds, G!TakeUp PROVE GateInv'
<1> DEFINE p == guard.phase
           s == guard.session
<1>1. /\ guard.pc = "take up"
      /\ UNCHANGED <<git, receipts, gateReview, gate, issued, activation, journal, clerk, current, card>>
  BY DEF G!TakeUp, G!records
<1>2. CASE G!Leave /\ UNCHANGED bound
  BY <1>1, <1>2, LeavesStep
<1>3. CASE /\ G!MayEnd(p) /\ G!MayOpen(p + 1) /\ current \in {p, p + 1}
           /\ bound' = [bound EXCEPT ![s] = IF @ = {} THEN {current} ELSE @]
           /\ guard' = [guard EXCEPT !.pc = "meta", !.status = card[p]]
  <2>1. /\ guard \in GuardRecords /\ p \in Phase /\ p + 1 \in Phase /\ s \in Session
        /\ p < LastPhase
    BY <1>1, GuardPlace
  <2>2. card[p] \in {"in_progress", "done"} /\ card[p] \in Statuses /\ card[p + 1] # "done"
    BY <1>3 DEF G!MayEnd, G!MayOpen, Statuses
  <2>3. PICK status \in Statuses : status = card[p]
    BY <2>2
  <2>4. /\ guard' \in GuardRecords /\ guard'.pc = "meta" /\ guard'.phase = p
        /\ guard'.session = s /\ guard'.status = card[p]
    <3>1. guard' = [guard EXCEPT !.pc = "meta", !.status = status]
      BY <1>3, <2>3
    <3>2. guard' \in GuardRecords
      BY <2>1, <3>1, Zenon DEF GuardRecords, Taking
    <3> QED BY <2>1, <2>3, <3>1, <3>2 DEF GuardRecords
  <2>5. bound' \in [Session -> SUBSET Phase]
    BY <1>3, <2>1 DEF GateInv, GateShapes
  <2>6. activation[p + 1] # None
    BY <1>1 DEF GateInv, GuardKnown, Taking
  <2> HIDE DEF p, s
  <2>7. GuardKnown'
    BY <1>1, <1>3, <2>1, <2>2, <2>4, <2>6 DEF GuardKnown
  <2> QED BY <1>1, <2>4, <2>5, <2>7, GuardStep, OrderSame DEF GateInv, GateShapes
<1> QED BY <1>2, <1>3 DEF G!TakeUp

LEMMA MoveOnStep == ASSUME GateInv, GateBounds, G!MoveOn PROVE GateInv'
<1> DEFINE p == guard.phase
<1>1. /\ guard.pc = "meta" /\ current' = p + 1 /\ G!Guard("rebind")
      /\ UNCHANGED <<git, receipts, gateReview, gate, issued, activation, journal, clerk, card, bound>>
  BY DEF G!MoveOn, G!records
<1>2. /\ guard \in GuardRecords /\ p \in Phase /\ p + 1 \in Phase /\ guard.session \in Session
      /\ p < LastPhase
  BY <1>1, GuardPlace
<1>3. /\ guard' \in GuardRecords /\ guard'.pc = "rebind" /\ guard'.phase = p
      /\ guard'.session = guard.session /\ guard'.status = guard.status
  BY <1>1, GuardGoes DEF Taking
<1>4. /\ activation[p + 1] # None /\ card[p + 1] # "done" /\ current \in {p, p + 1}
      /\ guard.status \in {"in_progress", "done"}
  BY <1>1 DEF GateInv, GuardKnown, Taking
<1> HIDE DEF p
<1>5. GuardKnown'
  BY <1>1, <1>2, <1>3, <1>4 DEF GuardKnown
<1>6. G!InOrder'
  <2>1. ASSUME NEW q \in 1 .. LastPhase, current' >= q PROVE activation[q] # None
    <3>1. CASE q = p + 1
      BY <1>4, <3>1
    <3>2. CASE q # p + 1
      <4>1. current >= q
        BY <1>1, <1>2, <1>4, <2>1, <3>2 DEF Phase, GateBounds
      <4> QED BY <4>1 DEF GateInv, G!InOrder
    <3> QED BY <3>1, <3>2
  <2> QED BY <1>1, <2>1 DEF GateInv, G!InOrder
<1> QED BY <1>1, <1>2, <1>3, <1>5, <1>6, GuardStep DEF GateInv, GateShapes

LEMMA RebindStep == ASSUME GateInv, GateBounds, G!Rebind PROVE GateInv'
<1> DEFINE p == guard.phase
           s == guard.session
<1>1. /\ guard.pc = "rebind"
      /\ UNCHANGED <<git, receipts, gateReview, gate, issued, activation, journal, clerk, current, card>>
  BY DEF G!Rebind, G!records
<1>2. CASE G!Leave /\ UNCHANGED bound
  BY <1>1, <1>2, LeavesStep
<1>3. CASE /\ bound' = [bound EXCEPT ![s] = (@ \ {p}) \cup {p + 1}] /\ G!Guard("end")
  <2>1. /\ p \in Phase /\ p + 1 \in Phase /\ s \in Session /\ p < LastPhase
    BY <1>1, GuardPlace
  <2>2. /\ guard' \in GuardRecords /\ guard'.pc = "end" /\ guard'.phase = p
        /\ guard'.session = s /\ guard'.status = guard.status
    BY <1>3, GuardGoes DEF Taking
  <2>3. bound' \in [Session -> SUBSET Phase]
    BY <1>3, <2>1 DEF GateInv, GateShapes
  <2>4. GuardKnown'
    BY <1>1, <2>1, <2>2 DEF GateInv, GuardKnown, Taking
  <2> QED BY <1>1, <2>2, <2>3, <2>4, GuardStep, OrderSame DEF GateInv, GateShapes
<1> QED BY <1>2, <1>3 DEF G!Rebind

LEMMA EndPhaseStep == ASSUME GateInv, GateBounds, G!EndPhase PROVE GateInv'
<1> DEFINE p == guard.phase
<1>1. /\ guard.pc = "end"
      /\ UNCHANGED <<git, receipts, gateReview, gate, issued, activation, journal, clerk, current, bound>>
  BY DEF G!EndPhase, G!records
<1>2. CASE G!Leave /\ UNCHANGED card
  BY <1>1, <1>2, LeavesStep
<1>3. CASE /\ card[p] = guard.status /\ card' = [card EXCEPT ![p] = "done"] /\ G!Guard("open")
  <2>1. /\ p \in Phase /\ p + 1 \in Phase /\ guard.session \in Session /\ p < LastPhase
        /\ LastPhase \in Nat
    BY <1>1, GuardPlace DEF GateBounds
  <2>2. /\ guard' \in GuardRecords /\ guard'.pc = "open" /\ guard'.phase = p
        /\ guard'.session = guard.session
    BY <1>3, GuardGoes DEF Taking
  <2>3. /\ card' \in [Phase -> Statuses] /\ card'[p] = "done"
        /\ \A q \in Phase \ {p} : card'[q] = card[q]
    BY <1>3, <2>1 DEF GateInv, GateShapes, Statuses
  <2>4. /\ activation[p + 1] # None /\ card[p + 1] # "done" /\ card[p] # "todo"
    BY <1>1, <1>3 DEF GateInv, GuardKnown, Taking
  <2>5. p + 1 # p
    BY <2>1 DEF Phase
  <2> HIDE DEF p
  <2>6. GuardKnown'
    BY <1>1, <2>1, <2>2, <2>3, <2>4, <2>5 DEF GuardKnown
  <2>7. G!InOrder'
    <3>1. ASSUME NEW q \in 1 .. LastPhase, card'[q] # "todo"
          PROVE  card'[q - 1] = "done" /\ activation'[q] # None
      <4>1. q \in Phase /\ q - 1 \in Phase
        BY <2>1 DEF Phase
      <4>2. card[q] # "todo"
        BY <2>3, <2>4, <3>1, <4>1
      <4> QED BY <1>1, <2>3, <4>1, <4>2 DEF GateInv, G!InOrder
    <3> QED BY <1>1, <3>1 DEF GateInv, G!InOrder
  <2> QED BY <1>1, <2>2, <2>3, <2>6, <2>7, GuardStep DEF GateInv, GateShapes
<1> QED BY <1>2, <1>3 DEF G!EndPhase

LEMMA OpenPhaseStep == ASSUME GateInv, GateBounds, G!OpenPhase PROVE GateInv'
<1> DEFINE p == guard.phase
<1>1. /\ guard.pc = "open" /\ card' = [card EXCEPT ![p + 1] = "in_progress"] /\ G!Leave
      /\ UNCHANGED <<git, receipts, gateReview, gate, issued, activation, journal, clerk, current, bound>>
  BY DEF G!OpenPhase, G!records
<1>2. /\ p \in Phase /\ p + 1 \in Phase /\ p < LastPhase /\ LastPhase \in Nat
  BY <1>1, GuardPlace DEF GateBounds
<1>3. GuardKnown' /\ guard' \in GuardRecords
  BY <1>1, GuardOut DEF G!Leave
<1>4. /\ card' \in [Phase -> Statuses] /\ card'[p + 1] = "in_progress"
      /\ \A q \in Phase \ {p + 1} : card'[q] = card[q]
  BY <1>1, <1>2 DEF GateInv, GateShapes, Statuses
<1>5. activation[p + 1] # None /\ card[p + 1] # "done" /\ card[p] = "done"
  BY <1>1 DEF GateInv, GuardKnown, Taking
<1> HIDE DEF p
<1>6. ASSUME NEW q \in 1 .. LastPhase, card'[q] # "todo"
      PROVE  card'[q - 1] = "done" /\ activation'[q] # None
  <2>1. q \in Phase /\ q - 1 \in Phase
    BY <1>2 DEF Phase
  <2>2. CASE q = p + 1
    <3>1. q - 1 = p /\ p # p + 1
      BY <1>2, <2>2 DEF Phase
    <3> QED BY <1>1, <1>2, <1>4, <1>5, <2>2, <3>1
  <2>3. CASE q # p + 1
    <3>1. card[q] # "todo"
      BY <1>4, <1>6, <2>1, <2>3
    <3>2. card[q - 1] = "done" /\ activation[q] # None
      BY <3>1 DEF GateInv, G!InOrder
    <3>3. q - 1 # p + 1
      BY <1>5, <3>2
    <3> QED BY <1>1, <1>4, <2>1, <3>2, <3>3
  <2> QED BY <2>2, <2>3
<1>7. G!InOrder'
  BY <1>1, <1>6 DEF GateInv, G!InOrder
<1> QED BY <1>1, <1>3, <1>4, <1>7, GuardStep DEF GateInv, GateShapes

LEMMA GuardDiesStep == ASSUME GateInv, GateBounds, G!GuardDies PROVE GateInv'
  BY LeavesStep DEF G!GuardDies, G!records
-----------------------------------------------------------------------------
(* PhaseGate: the invariant.                                                *)

LEMMA GateInvInit == ASSUME GateBounds, G!GateInit PROVE GateInv
<1>1. 0 \in Phase /\ 0 \in G!Commits /\ 0 \in Numbers /\ G!Commits = 0 .. MaxCommit
      /\ G!Phase = Phase /\ LastPhase \in Nat /\ MaxCommit \in Nat
  BY DEF GateBounds, Phase, Numbers, G!Commits, G!Phase
<1>2. git \in GitRecords /\ git.head = 0 /\ git.top = 0 /\ git.above[0] = {0}
  BY <1>1 DEF G!GateInit, GitRecords
<1>3. ClerkKnown /\ clerk \in ClerkRecords
  BY <1>1 DEF G!GateInit, ClerkKnown, Drafting, PastDefinition, G!Free, ClerkRecords
<1>4. GuardKnown /\ guard \in GuardRecords
  BY <1>1 DEF G!GateInit, GuardKnown, G!Out, GuardRecords, Taking, Statuses
<1>5. journal \in [Phase -> JournalRecords]
  BY <1>1 DEF G!GateInit, G!Blank, JournalRecords
<1>6. card \in [Phase -> Statuses] /\ bound \in [Session -> SUBSET Phase]
  BY <1>1 DEF G!GateInit, Statuses
<1>7. GateShapes
  <2>1. \A c \in 0 .. git.top : c = 0
    BY <1>2
  <2>2. \A c \in 0 .. git.top : {0, c} \subseteq git.above[c] /\ git.above[c] \subseteq 0 .. c
    BY <1>2, <2>1
  <2>3. git.head <= git.top
    BY <1>2
  <2> QED BY <1>1, <1>2, <1>3, <1>4, <1>5, <1>6, <2>2, <2>3 DEF G!GateInit, GateShapes
<1>8. Stored
  <2>1. \A p \in 1 .. LastPhase : p \in Phase
    BY DEF Phase
  <2> QED BY <1>1, <2>1 DEF G!GateInit, Stored
<1>9. G!InOrder
  BY <1>1 DEF G!GateInit, G!InOrder, Phase
<1> QED BY <1>3, <1>4, <1>7, <1>8, <1>9 DEF GateInv

LEMMA GateInvStep == ASSUME GateInv, GateBounds, G!GateNext PROVE GateInv'
<1>1. CASE G!CommitWork
  BY <1>1, CommitWorkStep
<1>2. CASE G!Checkout
  BY <1>2, CheckoutStep
<1>3. CASE G!UserMovesCard
  BY <1>3, UserMovesStep
<1>4. CASE G!SessionEnds
  BY <1>4, SessionEndsStep
<1>5. CASE G!Verify
  BY <1>5, VerifyStep
<1>6. ASSUME NEW p \in Phase, G!Review(p) PROVE GateInv'
  BY <1>6, ReviewStep
<1>7. ASSUME NEW p \in Phase, G!IssueBegins(p) PROVE GateInv'
  BY <1>7, IssueBeginsStep
<1>8. ASSUME NEW p \in Phase, G!ReopenBegins(p) PROVE GateInv'
  BY <1>8, ReopenBeginsStep
<1>9. ASSUME NEW p \in Phase, p < LastPhase, NEW s \in Session, G!AdvanceBegins(s, p) PROVE GateInv'
  BY <1>9, AdvanceBeginsStep
<1>10. CASE G!IssueChecks
  BY <1>10, IssueChecksStep
<1>24. CASE G!IssueDrafts
  BY <1>24, IssueDraftsStep
<1>11. CASE G!IssueWrites
  BY <1>11, IssueWritesStep
<1>12. CASE G!ReopenArchives
  BY <1>12, ReopenArchivesStep
<1>13. CASE G!ReopenRemoves
  BY <1>13, ReopenRemovesStep
<1>14. CASE G!ReopenCloses
  BY <1>14, ReopenClosesStep
<1>15. CASE G!ClerkDies
  BY <1>15, ClerkDiesStep
<1>16. CASE G!Activate
  BY <1>16, ActivateStep
<1>17. CASE G!TakeUp
  BY <1>17, TakeUpStep
<1>18. CASE G!MoveOn
  BY <1>18, MoveOnStep
<1>19. CASE G!Rebind
  BY <1>19, RebindStep
<1>20. CASE G!EndPhase
  BY <1>20, EndPhaseStep
<1>21. CASE G!OpenPhase
  BY <1>21, OpenPhaseStep
<1>22. CASE G!GuardDies
  BY <1>22, GuardDiesStep
<1>23. G!Phase = Phase
  BY DEF G!Phase, Phase
<1> QED BY <1>1, <1>2, <1>3, <1>4, <1>5, <1>6, <1>7, <1>8, <1>9, <1>10, <1>11, <1>12, <1>13,
           <1>14, <1>15, <1>16, <1>17, <1>18, <1>19, <1>20, <1>21, <1>22, <1>23, <1>24 DEF G!GateNext

LEMMA GateInvSays ==
    ASSUME GateInv, GateBounds PROVE G!GateTypeOK /\ G!ChainStands /\ G!InOrder
<1>1. G!ChainStands
  <2>1. G!Phase = Phase
    BY DEF G!Phase, Phase
  <2> QED BY <2>1 DEF GateInv, Stored, Sound, Keeping, G!ChainStands, G!Keeps, G!NotReopening
<1>2. G!GateTypeOK
  <2>1. G!Phase = Phase /\ G!Numbers = Numbers
    BY DEF G!Phase, Phase, G!Numbers, Numbers
  <2>2. git.head \in 0 .. git.top /\ git.top \in G!Commits
    BY DEF GateInv, GateShapes, GitRecords, G!Commits, GateBounds
  <2>3. \A r \in receipts : r.commit \in G!Commits /\ r.after \in Phase
    BY DEF GateInv, GateShapes, ReceiptRecords
  <2>4. ASSUME NEW p \in Phase
        PROVE  /\ gate[p] # None => gate[p].number \in 1 .. issued /\ gate[p].receipt \in receipts
               /\ gateReview[p] # None => gateReview[p] \in receipts
               /\ activation[p] # None => p > 0 /\ activation[p].gate \in Numbers
               /\ card[p] \in Statuses
    <3>1. activation[p] # None => p # 0 /\ activation[p].gate \in Numbers
      BY DEF GateInv, GateShapes, Stored, ActivationRecords
    <3> QED BY <3>1 DEF GateInv, GateShapes, Stored, Sound, Phase, GateBounds
  <2>5. issued \in Numbers /\ current \in Phase
    BY DEF GateInv, GateShapes
  <2>6. clerk.op \in {"none", "issue", "reopen"} /\ (clerk = G!Free <=> clerk.op = "none")
    BY DEF GateInv, GateShapes, ClerkRecords, ClerkKnown
  <2>7. guard.pc # "out" => guard.phase < LastPhase /\ guard.session \in Session
    BY DEF GateInv, GuardKnown
  <2>8. \A c \in 0 .. git.top : {0, c} \subseteq git.above[c] /\ git.above[c] \subseteq 0 .. c
    BY DEF GateInv, GateShapes
  <2> QED BY <2>1, <2>2, <2>3, <2>4, <2>5, <2>6, <2>7, <2>8 DEF G!GateTypeOK, Statuses
<1> QED BY <1>1, <1>2 DEF GateInv
-----------------------------------------------------------------------------
(* Deployment.                                                              *)

DeployPlaceholder == None \notin DeployReceipts /\ None \notin DeployTokens
-----------------------------------------------------------------------------
(* What holds of a deployment at every moment.                              *)

Deploying(p) == controller[p].pc \in {"deploying", "ran"}

DeployEntries ==
    [pc : {"idle", "authorised", "deploying", "ran", "completing", "completed"},
     requirement : Requirement \cup {None}, commit : Commit \cup {None},
     required : BOOLEAN, result : {"none", "succeeded", "failed"}]

\* Those outside the lock of a key.
DeployOutsideEntries ==
    [pc : {"idle", "authorised", "completing", "completed"},
     requirement : Requirement \cup {None}, commit : Commit \cup {None},
     required : BOOLEAN, result : {"none", "succeeded", "failed"}]

DeployShapes ==
    /\ receipt \in [Commit -> DeployReceipts \cup {None}]
    /\ provider \in [Commit -> [calls : Nat, live : BOOLEAN]]
    /\ published \in [Requirement -> DeployTokens \cup {None}]
    /\ controller \in [Controller -> DeployEntries]
    /\ \A p \in Controller :
          controller[p].pc # "idle" =>
              controller[p].requirement \in Requirement /\ controller[p].commit \in Commit

\* Whoever is inside the lock of a key has its intent on disk, and is alone.
DeployLockKept ==
    \A p \in Controller : Deploying(p) =>
        /\ receipt[controller[p].commit] =
              [status |-> "in_progress", requirement |-> controller[p].requirement]
        /\ \A o \in Controller : Deploying(o) /\ controller[o].commit = controller[p].commit => o = p

\* The provider was asked only by who has left an intent, and once.
DeployAsked ==
    /\ \A c \in Commit :
          provider[c].calls <= 1 /\ (receipt[c] = None => provider[c].calls = 0)
    /\ \A p \in Controller : D!At(p, "deploying") => provider[controller[p].commit].calls = 0

\* What a result, a receipt or a token says of success is true.
DeploySuccesses ==
    /\ \A p \in Controller : D!At(p, "ran") =>
          /\ controller[p].result \in {"succeeded", "failed"}
          /\ controller[p].result = "succeeded" => provider[controller[p].commit].live
    /\ \A c \in Commit, q \in Requirement : D!Delivered(q, c) => provider[c].live
    /\ \A p \in Controller : D!At(p, "completed") /\ controller[p].required =>
          D!Delivered(controller[p].requirement, controller[p].commit)
    /\ \A q \in Requirement : published[q] # None =>
          /\ published[q].requirement = q
          /\ published[q].required => D!Delivered(q, published[q].commit)

DeploymentInv == DeployShapes /\ DeployLockKept /\ DeployAsked /\ DeploySuccesses
-----------------------------------------------------------------------------
LEMMA DeploymentInvInit == ASSUME DeployPlaceholder, D!DeploymentInit PROVE DeploymentInv
<1>1. DeployShapes
  BY DEF D!DeploymentInit, DeployShapes, DeployEntries, D!Rest
<1>2. DeployLockKept
  BY DEF D!DeploymentInit, DeployLockKept, Deploying, D!Rest
<1>3. DeployAsked
  BY DEF D!DeploymentInit, DeployAsked, D!At, D!Rest
<1>4. DeploySuccesses
  BY DEF D!DeploymentInit, DeploySuccesses, D!At, D!Rest, D!Delivered, DeployPlaceholder,
     DeployReceipts
<1> QED BY <1>1, <1>2, <1>3, <1>4 DEF DeploymentInv

\* A controller that goes to a place outside the lock, with the rest as it was.
LEMMA DeployOutside ==
    ASSUME DeploymentInv, NEW p \in Controller, UNCHANGED <<receipt, provider, published>>,
           NEW entry \in DeployOutsideEntries,
           entry.pc # "idle" => entry.requirement \in Requirement /\ entry.commit \in Commit,
           entry.pc = "completed" /\ entry.required => D!Delivered(entry.requirement, entry.commit),
           controller' = [controller EXCEPT ![p] = entry]
    PROVE  DeploymentInv'
<1>0. controller'[p] = entry /\ \A o \in Controller : o # p => controller'[o] = controller[o]
  BY DEF DeploymentInv, DeployShapes
<1>1. DeployShapes'
  <2>1. entry \in DeployEntries
    BY DEF DeployEntries, DeployOutsideEntries
  <2> QED BY <1>0, <2>1 DEF DeploymentInv, DeployShapes
<1>2. DeployLockKept'
  BY <1>0 DEF DeploymentInv, DeployLockKept, Deploying, DeployOutsideEntries
<1>3. DeployAsked'
  BY <1>0 DEF DeploymentInv, DeployAsked, D!At, DeployOutsideEntries
<1>4. DeploySuccesses'
  BY <1>0 DEF DeploymentInv, DeploySuccesses, D!At, D!Delivered, DeployOutsideEntries
<1> QED BY <1>1, <1>2, <1>3, <1>4 DEF DeploymentInv

LEMMA DeployLeaveStep ==
    ASSUME DeploymentInv, NEW p \in Controller, UNCHANGED <<receipt, provider, published>>, D!Leave(p)
    PROVE  DeploymentInv'
<1>1. controller' = [controller EXCEPT ![p] = D!Rest]
  BY DEF D!Leave
<1>2. D!Rest \in DeployOutsideEntries
  BY DEF D!Rest, DeployOutsideEntries
<1>3. D!Rest.pc = "idle"
  BY DEF D!Rest
<1> QED BY <1>1, <1>2, <1>3, DeployOutside

LEMMA DeployBeginStep ==
    ASSUME DeploymentInv, NEW p \in Controller, NEW q \in Requirement, NEW c \in Commit, D!Begin(p, q, c)
    PROVE  DeploymentInv'
<1>1. PICK required \in BOOLEAN, pc \in {"authorised", "completing"} :
          controller' = [controller EXCEPT ![p] = [D!Rest EXCEPT
              !.pc = pc, !.requirement = q, !.commit = c, !.required = required]]
  BY DEF D!Begin
<1> DEFINE entry == [D!Rest EXCEPT !.pc = pc, !.requirement = q, !.commit = c, !.required = required]
<1>2. /\ entry \in DeployOutsideEntries
      /\ entry.pc = pc /\ entry.requirement = q /\ entry.commit = c
  <2>1. [D!Rest EXCEPT !.pc = pc, !.requirement = q, !.commit = c, !.required = required] \in DeployOutsideEntries
    BY DEF D!Rest, DeployOutsideEntries
  <2>2. [D!Rest EXCEPT !.pc = pc, !.requirement = q, !.commit = c, !.required = required].pc = pc
    BY DEF D!Rest
  <2>3. [D!Rest EXCEPT !.pc = pc, !.requirement = q, !.commit = c, !.required = required].requirement = q
    BY DEF D!Rest
  <2>4. [D!Rest EXCEPT !.pc = pc, !.requirement = q, !.commit = c, !.required = required].commit = c
    BY DEF D!Rest
  <2> QED BY <2>1, <2>2, <2>3, <2>4, Zenon
<1>3. controller' = [controller EXCEPT ![p] = entry]
  BY <1>1, Zenon
<1>4. UNCHANGED <<receipt, provider, published>>
  BY DEF D!Begin
<1> HIDE DEF entry
<1> QED BY <1>2, <1>3, <1>4, DeployOutside

\* From a place outside the lock to another one.
LEMMA DeployGotoOutside ==
    ASSUME DeploymentInv, NEW p \in Controller, ~D!At(p, "idle"), UNCHANGED <<receipt, provider, published>>,
           NEW pc \in {"authorised", "completing", "completed"}, D!Goto(p, pc),
           pc = "completed" /\ controller[p].required =>
               D!Delivered(controller[p].requirement, controller[p].commit)
    PROVE  DeploymentInv'
<1> DEFINE entry == [controller[p] EXCEPT !.pc = pc]
<1>1. controller' = [controller EXCEPT ![p] = entry]
  BY DEF D!Goto, DeploymentInv, DeployShapes
<1>2. entry \in DeployOutsideEntries
  BY DEF DeploymentInv, DeployShapes, DeployEntries, DeployOutsideEntries
<1>3. /\ entry.pc = pc /\ entry.requirement = controller[p].requirement
      /\ entry.commit = controller[p].commit /\ entry.required = controller[p].required
  BY DEF DeploymentInv, DeployShapes, DeployEntries
<1>4. controller[p].requirement \in Requirement /\ controller[p].commit \in Commit
  BY DEF DeploymentInv, DeployShapes, D!At
<1> HIDE DEF entry
<1> QED BY <1>1, <1>2, <1>3, <1>4, DeployOutside

LEMMA DeployFoundStep ==
    ASSUME DeploymentInv, NEW p \in Controller, D!Found(p)
    PROVE  DeploymentInv'
<1>1. ~D!At(p, "idle") /\ UNCHANGED <<receipt, provider, published>>
  BY DEF D!Found, D!At
<1>2. D!Goto(p, "completing") \/ D!Leave(p)
  BY DEF D!Found
<1> QED BY <1>1, <1>2, DeployGotoOutside, DeployLeaveStep

LEMMA DeployCompletesStep ==
    ASSUME DeploymentInv, NEW p \in Controller, D!Completes(p)
    PROVE  DeploymentInv'
<1>1. ~D!At(p, "idle") /\ UNCHANGED <<receipt, provider, published>>
  BY DEF D!Completes, D!At
<1>2. CASE controller[p].required => D!Delivered(controller[p].requirement, controller[p].commit)
  <2>1. D!Goto(p, "completed")
    BY <1>2 DEF D!Completes
  <2> QED BY <1>1, <1>2, <2>1, DeployGotoOutside
<1>3. CASE ~(controller[p].required => D!Delivered(controller[p].requirement, controller[p].commit))
  <2>1. D!Leave(p)
    BY <1>3 DEF D!Completes
  <2> QED BY <1>1, <2>1, DeployLeaveStep
<1> QED BY <1>2, <1>3

LEMMA DeployCallEntry ==
    ASSUME NEW e \in DeployEntries, NEW r \in {"succeeded", "failed"}
    PROVE  [e EXCEPT !.pc = "ran", !.result = r] \in DeployEntries
  BY DEF DeployEntries

LEMMA DeployIntentEntry ==
    ASSUME NEW e \in DeployEntries
    PROVE  [e EXCEPT !.pc = "deploying"] \in DeployEntries
  BY DEF DeployEntries

LEMMA DeployIntentOnly ==
    ASSUME NEW a, NEW q
    PROVE  [status |-> "in_progress", requirement |-> a] # [status |-> "succeeded", requirement |-> q]
  OBVIOUS

\* The lock is free and nothing is known: the intent is the first one.
LEMMA DeployIntendsStep ==
    ASSUME DeployPlaceholder, DeploymentInv, NEW p \in Controller, D!Intends(p)
    PROVE  DeploymentInv'
<1> DEFINE c == controller[p].commit
           intent == [status |-> "in_progress", requirement |-> controller[p].requirement]
<1>0. /\ c \in Commit /\ controller[p].requirement \in Requirement
      /\ D!At(p, "authorised") /\ D!LockFree(c) /\ receipt[c] = None
      /\ UNCHANGED <<provider, published>>
  BY DEF D!Intends, DeploymentInv, DeployShapes, D!At, D!Known
<1>1. CASE ~D!Deployable(c)
  <2>1. D!Leave(p) /\ UNCHANGED receipt
    BY <1>1 DEF D!Intends
  <2> QED BY <1>0, <2>1, DeployLeaveStep
<1>2. CASE D!Deployable(c)
  <2>1. receipt' = [receipt EXCEPT ![c] = intent] /\ D!Goto(p, "deploying")
    BY <1>2 DEF D!Intends
  <2>2. /\ receipt'[c] = intent /\ intent \in DeployReceipts
        /\ \A d \in Commit : d # c => receipt'[d] = receipt[d]
    BY <1>0, <2>1 DEF DeploymentInv, DeployShapes, DeployReceipts
  <2>3. /\ controller'[p] = [controller[p] EXCEPT !.pc = "deploying"]
        /\ \A o \in Controller : o # p => controller'[o] = controller[o]
    BY <2>1 DEF D!Goto, DeploymentInv, DeployShapes
  <2>4. /\ controller'[p].pc = "deploying" /\ controller'[p].commit = c
        /\ controller'[p].requirement = controller[p].requirement
    BY <2>3 DEF DeploymentInv, DeployShapes
  <2>5. \A o \in Controller : Deploying(o) => controller[o].commit # c /\ o # p
    BY <1>0 DEF D!LockFree, Deploying, D!At
  <2>6. \A q \in Requirement :
            /\ receipt[c] # [status |-> "succeeded", requirement |-> q]
            /\ intent # [status |-> "succeeded", requirement |-> q]
    <3>1. \A q \in Requirement : intent # [status |-> "succeeded", requirement |-> q]
      BY DeployIntentOnly
    <3>2. \A q \in Requirement : receipt[c] # [status |-> "succeeded", requirement |-> q]
      BY <1>0 DEF DeployPlaceholder, DeployReceipts
    <3> QED BY <3>1, <3>2
  <2>7. \A q \in Requirement, d \in Commit : D!Delivered(q, d)' <=> D!Delivered(q, d)
    <3> HIDE DEF intent
    <3> QED BY <2>2, <2>6 DEF D!Delivered
  <2>8. DeployShapes'
    <3>1. receipt' \in [Commit -> DeployReceipts \cup {None}]
      BY <1>0, <2>1, <2>2 DEF DeploymentInv, DeployShapes
    <3>2. controller' \in [Controller -> DeployEntries]
      <4>1. controller'[p] \in DeployEntries
        BY <2>3, DeployIntentEntry DEF DeploymentInv, DeployShapes
      <4> QED BY <2>1, <2>3, <4>1 DEF D!Goto, DeploymentInv, DeployShapes
    <3> QED BY <1>0, <2>3, <2>4, <3>1, <3>2 DEF DeploymentInv, DeployShapes
  <2>9. DeployLockKept'
    <3> SUFFICES ASSUME NEW o \in Controller, Deploying(o)'
                 PROVE  /\ receipt'[controller'[o].commit] =
                              [status |-> "in_progress", requirement |-> controller'[o].requirement]
                        /\ \A i \in Controller : Deploying(i)' /\ controller'[i].commit = controller'[o].commit
                              => i = o
      BY DEF DeployLockKept
    <3>1. CASE o = p
      <4>1. \A i \in Controller : Deploying(i)' /\ controller'[i].commit = c => i = p
        BY <2>3, <2>5 DEF Deploying
      <4> QED BY <2>2, <2>4, <3>1, <4>1
    <3>2. CASE o # p
      <4>1. Deploying(o) /\ controller'[o] = controller[o] /\ controller[o].commit # c
        BY <2>3, <2>5, <3>2 DEF Deploying
      <4>2. controller[o].commit \in Commit
        BY <4>1 DEF Deploying, DeploymentInv, DeployShapes
      <4>3. \A i \in Controller : Deploying(i)' /\ controller'[i].commit = controller'[o].commit => i # p
        BY <2>4, <4>1
      <4> QED BY <2>2, <2>3, <4>1, <4>2, <4>3 DEF DeploymentInv, DeployLockKept, Deploying
    <3> QED BY <3>1, <3>2
  <2>10. DeployAsked'
    <3>1. provider[c].calls = 0
      BY <1>0 DEF DeploymentInv, DeployAsked
    <3> QED BY <1>0, <2>2, <2>3, <2>4, <3>1 DEF DeploymentInv, DeployAsked, D!At
  <2>11. DeploySuccesses'
    <3>1. \A o \in Controller : D!At(o, "ran")' => D!At(o, "ran") /\ controller'[o] = controller[o]
      BY <2>3, <2>4 DEF D!At
    <3>2. \A o \in Controller : D!At(o, "completed")' => D!At(o, "completed") /\ controller'[o] = controller[o]
      BY <2>3, <2>4 DEF D!At
    <3>3. \A o \in Controller : D!At(o, "completed") =>
              controller[o].requirement \in Requirement /\ controller[o].commit \in Commit
      BY DEF DeploymentInv, DeployShapes, D!At
    <3>4. \A q \in Requirement : published[q] # None => published[q].commit \in Commit
      BY DEF DeploymentInv, DeployShapes, DeployTokens
    <3> QED BY <1>0, <2>7, <3>1, <3>2, <3>3, <3>4 DEF DeploymentInv, DeploySuccesses
  <2> QED BY <2>8, <2>9, <2>10, <2>11 DEF DeploymentInv
<1> QED BY <1>1, <1>2

\* The one call for the key, by who is alone inside its lock.
LEMMA DeployDeploysStep ==
    ASSUME DeployPlaceholder, DeploymentInv, NEW p \in Controller, D!Deploys(p)
    PROVE  DeploymentInv'
<1> DEFINE c == controller[p].commit
<1>0. /\ c \in Commit /\ D!At(p, "deploying") /\ UNCHANGED <<receipt, published>>
      /\ provider[c].calls = 0
  BY DEF D!Deploys, DeploymentInv, DeployShapes, DeployAsked, D!At
<1>1. PICK result \in {"succeeded", "failed"}, live \in BOOLEAN :
        /\ controller' = [controller EXCEPT ![p].pc = "ran", ![p].result = result]
        /\ result = "succeeded" => live
        /\ provider' = [provider EXCEPT ![c].calls = @ + 1, ![c].live = @ \/ live]
  BY DEF D!Deploys
<1>2. /\ controller'[p] = [controller[p] EXCEPT !.pc = "ran", !.result = result]
      /\ \A o \in Controller : o # p => controller'[o] = controller[o]
  BY <1>1 DEF DeploymentInv, DeployShapes
<1>3. /\ controller'[p].pc = "ran" /\ controller'[p].commit = c /\ controller'[p].result = result
      /\ controller'[p].requirement = controller[p].requirement
      /\ controller'[p].required = controller[p].required
  BY <1>2 DEF DeploymentInv, DeployShapes
<1>4. /\ provider'[c].calls = 1 /\ (provider[c].live \/ live => provider'[c].live)
      /\ \A d \in Commit : d # c => provider'[d] = provider[d]
  BY <1>0, <1>1 DEF DeploymentInv, DeployShapes
<1>5. \A o \in Controller : (Deploying(o)' <=> Deploying(o)) /\ controller'[o].commit = controller[o].commit
                            /\ controller'[o].requirement = controller[o].requirement
  BY <1>0, <1>2, <1>3 DEF Deploying, D!At
<1>6. DeployShapes'
  <2>1. provider' \in [Commit -> [calls : Nat, live : BOOLEAN]]
    BY <1>0, <1>1 DEF DeploymentInv, DeployShapes
  <2>2. controller' \in [Controller -> DeployEntries]
    <3>1. controller'[p] \in DeployEntries
      <4>1. controller[p] \in DeployEntries
        BY DEF DeploymentInv, DeployShapes
      <4> QED BY <1>2, <4>1, DeployCallEntry, Zenon
    <3> QED BY <1>1, <1>2, <3>1 DEF DeploymentInv, DeployShapes
  <2>3. controller[p].pc # "idle"
    BY <1>0 DEF D!At
  <2> QED BY <1>0, <1>2, <1>5, <2>1, <2>2, <2>3 DEF DeploymentInv, DeployShapes
<1>7. DeployLockKept'
  BY <1>0, <1>5 DEF DeploymentInv, DeployLockKept
<1>8. DeployAsked'
  <2>1. receipt[c] # None
    <3>1. receipt[c] = [status |-> "in_progress", requirement |-> controller[p].requirement]
      BY <1>0 DEF DeploymentInv, DeployLockKept, Deploying, D!At
    <3>2. controller[p].requirement \in Requirement
      BY <1>0 DEF DeploymentInv, DeployShapes, D!At
    <3>3. receipt[c] \in DeployReceipts
      BY <3>1, <3>2 DEF DeployReceipts
    <3> QED BY <3>3 DEF DeployPlaceholder
  <2>2. \A o \in Controller : D!At(o, "deploying")' => o # p /\ D!At(o, "deploying")
                                  /\ controller[o].commit # c
    BY <1>0, <1>2, <1>3 DEF DeploymentInv, DeployLockKept, Deploying, D!At
  <2>3. \A o \in Controller : D!At(o, "deploying") => controller[o].commit \in Commit
    BY DEF DeploymentInv, DeployShapes, D!At
  <2> QED BY <1>0, <1>4, <1>5, <2>1, <2>2, <2>3 DEF DeploymentInv, DeployAsked
<1>9. DeploySuccesses'
  <2>1. \A d \in Commit : provider[d].live => provider'[d].live
    BY <1>4
  <2>2. \A q \in Requirement, d \in Commit : D!Delivered(q, d)' <=> D!Delivered(q, d)
    BY <1>0 DEF D!Delivered
  <2>3. \A o \in Controller : D!At(o, "ran")' => o = p \/ (D!At(o, "ran") /\ controller'[o] = controller[o])
    BY <1>2 DEF D!At
  <2>4. \A o \in Controller : D!At(o, "completed")' => D!At(o, "completed") /\ controller'[o] = controller[o]
    BY <1>2, <1>3 DEF D!At
  <2>5. \A o \in Controller : D!At(o, "ran") \/ D!At(o, "completed") =>
            controller[o].requirement \in Requirement /\ controller[o].commit \in Commit
    BY DEF DeploymentInv, DeployShapes, D!At
  <2>6. /\ \A o \in Controller : D!At(o, "ran") =>
              /\ controller[o].result \in {"succeeded", "failed"}
              /\ controller[o].result = "succeeded" => provider[controller[o].commit].live
        /\ \A d \in Commit, q \in Requirement : D!Delivered(q, d) => provider[d].live
        /\ \A o \in Controller : D!At(o, "completed") /\ controller[o].required =>
              D!Delivered(controller[o].requirement, controller[o].commit)
    BY DEF DeploymentInv, DeploySuccesses
  <2>7. \A o \in Controller : D!At(o, "ran")' =>
          /\ controller'[o].result \in {"succeeded", "failed"}
          /\ controller'[o].result = "succeeded" => provider'[controller'[o].commit].live
    BY <1>0, <1>1, <1>3, <1>4, <2>1, <2>3, <2>5, <2>6
  <2>8. \A o \in Controller : D!At(o, "completed")' /\ controller'[o].required =>
            D!Delivered(controller[o].requirement, controller[o].commit)'
    BY <2>2, <2>4, <2>5, <2>6, <1>5
  <2>9. \A q \in Requirement : published'[q] # None =>
          /\ published'[q].requirement = q
          /\ published'[q].required => D!Delivered(q, published[q].commit)'
    BY <1>0 DEF DeploymentInv, DeploySuccesses, D!Delivered
  <2> QED BY <1>0, <1>5, <2>1, <2>2, <2>6, <2>7, <2>8, <2>9 DEF DeploySuccesses, D!Delivered
<1> QED BY <1>6, <1>7, <1>8, <1>9 DEF DeploymentInv

\* The result is written for who is inside, and the lock is given back.
LEMMA DeployRecordsStep ==
    ASSUME DeployPlaceholder, DeploymentInv, NEW p \in Controller, D!Records(p)
    PROVE  DeploymentInv'
<1>0. PICK c \in Commit : c = controller[p].commit /\ D!At(p, "ran") /\ UNCHANGED <<provider, published>>
  BY DEF D!Records, DeploymentInv, DeployShapes, D!At
<1>1. PICK q \in Requirement : q = controller[p].requirement
  BY <1>0 DEF DeploymentInv, DeployShapes, D!At
<1>2. PICK result \in {"succeeded", "failed"} :
          result = controller[p].result /\ (result = "succeeded" => provider[c].live)
  BY <1>0 DEF DeploymentInv, DeploySuccesses
<1>3. receipt[c] = [status |-> "in_progress", requirement |-> q]
  BY <1>0, <1>1 DEF DeploymentInv, DeployLockKept, Deploying, D!At
<1>4. /\ receipt'[c] = [status |-> result, requirement |-> q]
      /\ receipt' = [receipt EXCEPT ![c] = [status |-> result, requirement |-> q]]
      /\ \A d \in Commit : d # c => receipt'[d] = receipt[d]
  <2>1. receipt' = [receipt EXCEPT ![c].status = result]
    BY <1>0, <1>2 DEF D!Records
  <2>2. [receipt[c] EXCEPT !.status = result] = [status |-> result, requirement |-> q]
    BY <1>3
  <2>3. receipt' = [receipt EXCEPT ![c] = [receipt[c] EXCEPT !.status = result]]
    BY <2>1 DEF DeploymentInv, DeployShapes
  <2>4. receipt' = [receipt EXCEPT ![c] = [status |-> result, requirement |-> q]]
    BY <2>2, <2>3, Zenon
  <2> QED BY <2>4 DEF DeploymentInv, DeployShapes
<1>5. /\ controller'[p] = [controller[p] EXCEPT !.pc = "completing"]
      /\ \A o \in Controller : o # p => controller'[o] = controller[o]
      /\ controller' = [controller EXCEPT ![p] = [controller[p] EXCEPT !.pc = "completing"]]
  BY DEF D!Records, D!Goto, DeploymentInv, DeployShapes
<1>6. /\ controller'[p].pc = "completing" /\ controller'[p].commit = c
      /\ controller'[p].requirement = q /\ controller'[p] \in DeployEntries
  <2>1. [controller[p] EXCEPT !.pc = "completing"] \in DeployEntries
    BY DEF DeploymentInv, DeployShapes, DeployEntries
  <2> QED BY <1>0, <1>1, <1>5, <2>1 DEF DeploymentInv, DeployShapes, DeployEntries
<1>7. /\ receipt'[c] \in DeployReceipts /\ receipt'[c] # None
      /\ \A r \in Requirement : receipt[c] # [status |-> "succeeded", requirement |-> r]
  <2>1. receipt'[c] \in DeployReceipts
    BY <1>2, <1>4 DEF DeployReceipts
  <2> QED BY <1>3, <2>1, DeployIntentOnly DEF DeployPlaceholder
<1>8. \A r \in Requirement, d \in Commit : D!Delivered(r, d) => d # c /\ receipt'[d] = receipt[d]
  BY <1>4, <1>7 DEF D!Delivered
<1>9. \A o \in Controller : Deploying(o)' => o # p /\ Deploying(o) /\ controller'[o] = controller[o]
                                          /\ controller[o].commit # c
  <2>1. \A o \in Controller : Deploying(o)' => o # p /\ Deploying(o) /\ controller'[o] = controller[o]
    BY <1>5, <1>6 DEF Deploying
  <2>2. Deploying(p)
    BY <1>0 DEF Deploying, D!At
  <2> QED BY <1>0, <2>1, <2>2 DEF DeploymentInv, DeployLockKept
<1>10. DeployShapes'
  <2>1. receipt' \in [Commit -> DeployReceipts \cup {None}]
    BY <1>4, <1>7 DEF DeploymentInv, DeployShapes
  <2>2. controller' \in [Controller -> DeployEntries]
    BY <1>5, <1>6 DEF DeploymentInv, DeployShapes
  <2> QED BY <1>0, <1>1, <1>5, <1>6, <2>1, <2>2 DEF DeploymentInv, DeployShapes
<1>11. DeployLockKept'
  <2>1. \A o \in Controller : Deploying(o) => controller[o].commit \in Commit
    BY DEF Deploying, DeploymentInv, DeployShapes
  <2> QED BY <1>4, <1>9, <2>1 DEF DeploymentInv, DeployLockKept
<1>12. DeployAsked'
  <2>1. \A o \in Controller : D!At(o, "deploying")' => D!At(o, "deploying") /\ controller'[o] = controller[o]
    BY <1>9 DEF D!At, Deploying
  <2>2. \A d \in Commit : receipt'[d] = None => receipt[d] = None
    BY <1>4, <1>7
  <2> QED BY <1>0, <2>1, <2>2 DEF DeploymentInv, DeployAsked
<1>13. DeploySuccesses'
  <2>1. \A o \in Controller : D!At(o, "ran")' => D!At(o, "ran") /\ controller'[o] = controller[o]
    BY <1>9 DEF D!At, Deploying
  <2>2. \A o \in Controller : D!At(o, "completed")' => D!At(o, "completed") /\ controller'[o] = controller[o]
    BY <1>5, <1>6 DEF D!At
  <2>3. \A d \in Commit, r \in Requirement : D!Delivered(r, d)' => provider[d].live
    <3> SUFFICES ASSUME NEW d \in Commit, NEW r \in Requirement,
                        receipt'[d] = [status |-> "succeeded", requirement |-> r]
                 PROVE  provider[d].live
      BY DEF D!Delivered
    <3>1. CASE d = c
      <4>1. result = "succeeded"
        BY <1>4, <3>1
      <4> QED BY <1>2, <3>1, <4>1
    <3>2. CASE d # c
      BY <1>4, <3>2 DEF DeploymentInv, DeploySuccesses, D!Delivered
    <3> QED BY <3>1, <3>2
  <2>4. \A d \in Commit, r \in Requirement : D!Delivered(r, d) => D!Delivered(r, d)'
    BY <1>8 DEF D!Delivered
  <2>5. \A o \in Controller : D!At(o, "completed") =>
            controller[o].requirement \in Requirement /\ controller[o].commit \in Commit
    BY DEF DeploymentInv, DeployShapes, D!At
  <2>6. \A r \in Requirement : published[r] # None => published[r].commit \in Commit
    BY DEF DeploymentInv, DeployShapes, DeployTokens
  <2>7. \A o \in Controller : D!At(o, "completed")' /\ controller'[o].required =>
            D!Delivered(controller[o].requirement, controller[o].commit)'
    <3> SUFFICES ASSUME NEW o \in Controller, D!At(o, "completed")', controller'[o].required
                 PROVE  receipt'[controller'[o].commit] =
                            [status |-> "succeeded", requirement |-> controller'[o].requirement]
      BY DEF D!Delivered
    <3>1. /\ D!At(o, "completed") /\ controller'[o] = controller[o] /\ controller[o].required
          /\ D!Delivered(controller[o].requirement, controller[o].commit)
      BY <2>2 DEF DeploymentInv, DeploySuccesses
    <3> QED BY <1>8, <2>5, <3>1 DEF D!Delivered
  <2>8. \A r \in Requirement : published'[r] # None =>
            /\ published'[r].requirement = r
            /\ published'[r].required => D!Delivered(r, published[r].commit)'
    <3> SUFFICES ASSUME NEW r \in Requirement, published[r] # None
                 PROVE  /\ published[r].requirement = r
                        /\ published[r].required => receipt'[published[r].commit] =
                               [status |-> "succeeded", requirement |-> r]
      BY <1>0 DEF D!Delivered
    <3> QED BY <1>8, <2>6 DEF DeploymentInv, DeploySuccesses, D!Delivered
  <2> QED BY <1>0, <2>1, <2>3, <2>7, <2>8 DEF DeploymentInv, DeploySuccesses, D!Delivered
<1> QED BY <1>10, <1>11, <1>12, <1>13 DEF DeploymentInv

\* The token is that of a controller that has seen its deployment delivered.
LEMMA DeployPublishesStep ==
    ASSUME DeployPlaceholder, DeploymentInv, NEW p \in Controller, D!Publishes(p)
    PROVE  DeploymentInv'
<1>0. PICK q \in Requirement, c \in Commit, required \in BOOLEAN :
          /\ q = controller[p].requirement /\ c = controller[p].commit
          /\ required = controller[p].required
          /\ D!At(p, "completed") /\ D!Leave(p) /\ UNCHANGED <<receipt, provider>>
  BY DEF D!Publishes, DeploymentInv, DeployShapes, DeployEntries, D!At
<1> DEFINE stamp == [requirement |-> q, commit |-> c, required |-> required]
<1>1. required => receipt[c] = [status |-> "succeeded", requirement |-> q]
  BY <1>0 DEF DeploymentInv, DeploySuccesses, D!Delivered
<1>2. published' = [published EXCEPT ![q] = stamp] \/ published' = published
  BY <1>0 DEF D!Publishes, D!TokenOf
<1>3. CASE published' = published
  BY <1>0, <1>3, DeployLeaveStep
<1>4. CASE published' = [published EXCEPT ![q] = stamp]
  <2>1. /\ published'[q] = stamp /\ stamp \in DeployTokens
        /\ \A r \in Requirement : r # q => published'[r] = published[r]
        /\ published' \in [Requirement -> DeployTokens \cup {None}]
    BY <1>4 DEF DeploymentInv, DeployShapes, DeployTokens
  <2>2. /\ controller'[p] = D!Rest /\ \A o \in Controller : o # p => controller'[o] = controller[o]
        /\ D!Rest.pc = "idle" /\ D!Rest \in DeployEntries /\ controller' \in [Controller -> DeployEntries]
    BY <1>0 DEF D!Leave, DeploymentInv, DeployShapes, D!Rest, DeployEntries
  <2>3. \A o \in Controller : controller'[o].pc # "idle" => controller'[o] = controller[o]
    BY <2>2
  <2>4. DeployShapes'
    BY <1>0, <2>1, <2>2, <2>3 DEF DeploymentInv, DeployShapes
  <2>5. DeployLockKept'
    BY <1>0, <2>3 DEF DeploymentInv, DeployLockKept, Deploying
  <2>6. DeployAsked'
    BY <1>0, <2>3 DEF DeploymentInv, DeployAsked, D!At
  <2>7. \A r \in Requirement : published'[r] # None =>
            /\ published'[r].requirement = r
            /\ published'[r].required => receipt[published'[r].commit] =
                   [status |-> "succeeded", requirement |-> r]
    <3> SUFFICES ASSUME NEW r \in Requirement, published'[r] # None
                 PROVE  /\ published'[r].requirement = r
                        /\ published'[r].required => receipt[published'[r].commit] =
                               [status |-> "succeeded", requirement |-> r]
      OBVIOUS
    <3>1. CASE r = q
      BY <1>1, <2>1, <3>1
    <3>2. CASE r # q
      BY <2>1, <3>2 DEF DeploymentInv, DeploySuccesses, D!Delivered
    <3> QED BY <3>1, <3>2
  <2>8. DeploySuccesses'
    BY <1>0, <2>3, <2>7 DEF DeploymentInv, DeploySuccesses, D!Delivered, D!At
  <2> QED BY <2>4, <2>5, <2>6, <2>8 DEF DeploymentInv
<1> QED BY <1>2, <1>3, <1>4

LEMMA DeploymentInvStep ==
    ASSUME DeployPlaceholder, DeploymentInv, [D!DeploymentNext]_(D!deploymentVars)
    PROVE  DeploymentInv'
<1>1. CASE UNCHANGED D!deploymentVars
  BY <1>1 DEF D!deploymentVars, DeploymentInv, DeployShapes, DeployLockKept, Deploying,
     DeployAsked, DeploySuccesses, D!At, D!Delivered
<1>2. CASE D!MainMoves
  BY <1>2 DEF D!MainMoves, DeploymentInv, DeployShapes, DeployLockKept, Deploying, DeployAsked,
     DeploySuccesses, D!At, D!Delivered
<1>3. ASSUME NEW p \in Controller, NEW q \in Requirement, NEW c \in Commit, D!Begin(p, q, c)
      PROVE  DeploymentInv'
  BY <1>3, DeployBeginStep
<1>4. ASSUME NEW p \in Controller, D!Found(p) PROVE DeploymentInv'
  BY <1>4, DeployFoundStep
<1>5. ASSUME NEW p \in Controller, D!Intends(p) PROVE DeploymentInv'
  BY <1>5, DeployIntendsStep
<1>6. ASSUME NEW p \in Controller, D!Deploys(p) PROVE DeploymentInv'
  BY <1>6, DeployDeploysStep
<1>7. ASSUME NEW p \in Controller, D!Records(p) PROVE DeploymentInv'
  BY <1>7, DeployRecordsStep
<1>8. ASSUME NEW p \in Controller, D!Completes(p) PROVE DeploymentInv'
  BY <1>8, DeployCompletesStep
<1>9. ASSUME NEW p \in Controller, D!Publishes(p) PROVE DeploymentInv'
  BY <1>9, DeployPublishesStep
<1>10. ASSUME NEW p \in Controller, D!Dies(p) PROVE DeploymentInv'
  BY <1>10, DeployLeaveStep DEF D!Dies
<1> QED BY <1>1, <1>2, <1>3, <1>4, <1>5, <1>6, <1>7, <1>8, <1>9, <1>10 DEF D!DeploymentNext

LEMMA Apart == Placeholders /\ GateBounds /\ DeployPlaceholder
  BY Bounds, Placeholder DEF Placeholders, GateBounds, DeployPlaceholder

LEMMA DeploymentInvariance == D!DeploymentSpec => []DeploymentInv
<1>1. D!DeploymentInit => DeploymentInv
  BY Apart, DeploymentInvInit
<1>2. DeploymentInv /\ [D!DeploymentNext]_(D!deploymentVars) => DeploymentInv'
  BY Apart, DeploymentInvStep
<1> QED BY <1>1, <1>2, PTL DEF D!DeploymentSpec
-----------------------------------------------------------------------------
(* What follows of a deployment.                                            *)

\* What the invariant says.
LEMMA DeploymentSays ==
    ASSUME DeploymentInv
    PROVE  D!DeploymentTypeOK /\ D!DeployedOnce /\ D!TokenTrue
<1>1. D!DeploymentTypeOK
  <2>1. \A q \in Requirement : published[q] = None \/
            published[q] \in [requirement : {q}, commit : Commit, required : BOOLEAN]
    BY DEF DeploymentInv, DeployShapes, DeploySuccesses, DeployTokens
  <2> QED BY <2>1 DEF DeploymentInv, DeployShapes, DeployLockKept, Deploying, DeployReceipts,
     D!DeploymentTypeOK
<1>2. D!DeployedOnce
  BY DEF DeploymentInv, DeployAsked, D!DeployedOnce
<1>3. D!TokenTrue
  <2>1. ASSUME NEW q \in Requirement, published[q] # None PROVE published[q].commit \in Commit
    BY <2>1 DEF DeploymentInv, DeployShapes, DeployTokens
  <2> QED BY <2>1 DEF DeploymentInv, DeploySuccesses, D!TokenTrue, D!Delivered
<1> QED BY <1>1, <1>2, <1>3

\* Receipts and tokens have their shapes, and a controller inside the lock of its
\* key has left its intent on disk (deployment.py: deploy).
THEOREM DeploymentTypeCorrect == D!DeploymentSpec => []D!DeploymentTypeOK
<1>1. DeploymentInv => D!DeploymentTypeOK
  BY DeploymentSays
<1> QED BY <1>1, DeploymentInvariance, PTL

\* The provider is asked at most once for a commit, whatever is killed, repeated or
\* done by several controllers at once (deployment.py: the intent and its lock).
THEOREM DeployedOnceEver == D!DeploymentSpec => []D!DeployedOnce
<1>1. DeploymentInv => D!DeployedOnce
  BY DeploymentSays
<1> QED BY <1>1, DeploymentInvariance, PTL

\* A token of a required deployment is that of a commit that is live and whose
\* deployment succeeded for its requirement (deployment.py: publish_completion_token).
THEOREM TokensTrue == D!DeploymentSpec => []D!TokenTrue
<1>1. DeploymentInv => D!TokenTrue
  BY DeploymentSays
<1> QED BY <1>1, DeploymentInvariance, PTL
-----------------------------------------------------------------------------
(* The three views.                                                         *)

DeliveryInv ==
    /\ part \in {"gates", "completion", "deployment"}
    /\ part = "gates" => GateInv
    /\ part = "completion" => CompletionInv
    /\ part = "deployment" => DeploymentInv

LEMMA DeliveryInvInit == ASSUME Init PROVE DeliveryInv
<1>1. CASE part = "gates"
  BY <1>1, Apart, GateInvInit DEF Init, DeliveryInv
<1>2. CASE part = "completion"
  BY <1>2, Apart, CompletionInvInit DEF Init, DeliveryInv
<1>3. CASE part = "deployment"
  BY <1>3, Apart, DeploymentInvInit DEF Init, DeliveryInv
<1> QED BY <1>1, <1>2, <1>3 DEF Init

LEMMA DeliveryInvStep == ASSUME DeliveryInv, [Next]_vars PROVE DeliveryInv'
<1>1. CASE part = "gates" /\ G!GateNext /\ UNCHANGED part
  BY <1>1, Apart, GateInvStep DEF DeliveryInv
<1>2. CASE part = "completion" /\ C!CompletionNext /\ UNCHANGED part
  BY <1>2, Apart, CompletionInvStep DEF DeliveryInv
<1>3. CASE part = "deployment" /\ D!DeploymentNext /\ UNCHANGED part
  <2>1. DeploymentInv' 
    BY <1>3, Apart, DeploymentInvStep DEF DeliveryInv
  <2> QED BY <1>3, <2>1 DEF DeliveryInv
<1>4. CASE UNCHANGED vars
  <2>1. part = "gates" => GateInv'
    <3> SUFFICES ASSUME part = "gates" PROVE GateInv'
      OBVIOUS
    <3>1. GateShapes'
      BY <1>4 DEF vars, gateVars, DeliveryInv, GateInv, GateShapes
    <3>2. UNCHANGED <<git, receipts, gateReview, gate, issued, activation, journal, clerk, guard,
                      current, card>>
      BY <1>4 DEF vars, gateVars
    <3> QED BY <3>1, <3>2, StoredSame, ClerkSame, GuardSame, OrderSame DEF DeliveryInv, GateInv
  <2>2. part = "completion" => CompletionInv'
    <3> SUFFICES ASSUME part = "completion" PROVE CompletionInv'
      OBVIOUS
    <3>1. UNCHANGED <<meta, document, checked, work, review, token, command, locks, approved>>
          /\ approved \subseteq approved' /\ CompletionInv
      BY <1>4 DEF vars, completionVars, DeliveryInv
    <3>2. C!MayComplete' <=> C!MayComplete
      BY <3>1 DEF C!MayComplete
    <3>3. document' \in Document /\ token' \in BOOLEAN
      BY <3>1 DEF CompletionInv, CompletionShapes
    <3> QED BY <3>1, <3>2, <3>3, Same, WorldStep
  <2>3. part = "deployment" => DeploymentInv'
    <3>1. UNCHANGED D!deploymentVars
      BY <1>4 DEF vars, deploymentVars, D!deploymentVars
    <3> QED BY <3>1, Apart, DeploymentInvStep DEF DeliveryInv
  <2>4. UNCHANGED part
    BY <1>4 DEF vars
  <2> QED BY <2>1, <2>2, <2>3, <2>4 DEF DeliveryInv
<1> QED BY <1>1, <1>2, <1>3, <1>4 DEF Next

LEMMA DeliveryInvariance == Spec => []DeliveryInv
<1>1. Init => DeliveryInv
  BY DeliveryInvInit
<1>2. DeliveryInv /\ [Next]_vars => DeliveryInv'
  BY DeliveryInvStep
<1> QED BY <1>1, <1>2, PTL DEF Spec
-----------------------------------------------------------------------------
\* The files of the three views have their shapes, and a lock is held by one that is
\* between two of its steps.
THEOREM TypeCorrect == Spec => []TypeOK
<1>1. DeliveryInv => TypeOK
  BY Apart, GateInvSays, CompletionInvSays, DeploymentSays DEF DeliveryInv, TypeOK
<1> QED BY <1>1, DeliveryInvariance, PTL

\* An activated phase rests on the chain of gates before it, and phases are opened in
\* their order, for every number of phases, commits, gates and sessions (phase_gate.py:
\* issue, reopen and advance_next, killed anywhere and with HEAD moved between any two
\* looks).  The definition of the gate before is kept by a gate that was issued while HEAD
\* stood still.
THEOREM PhasesStandAlways == Spec => []PhasesStand
<1>1. DeliveryInv => PhasesStand
  BY Apart, GateInvSays DEF DeliveryInv, PhasesStand
<1> QED BY <1>1, DeliveryInvariance, PTL

\* What is done was approved where approval is asked for, and delivered where V2
\* delivers, for every number of commands, revisions and controllers (runtime.py,
\* review.py, delivery_guard.py and deployment.py).
THEOREM DoneMeansDoneAlways == Spec => []DoneMeansDone
<1>1. DeliveryInv => DoneMeansDone
  BY Apart, CompletionInvSays, DeploymentSays DEF DeliveryInv, DoneMeansDone
<1> QED BY <1>1, DeliveryInvariance, PTL
=============================================================================
