------------------------------ MODULE Delivery ------------------------------
(***************************************************************************)
(* The way of a requirement to its end in three views that share no state  *)
(* but their files: its phases and their gates, its completion, and its    *)
(* deployment.  A behaviour is one of one view.                            *)
(***************************************************************************)
EXTENDS Naturals, Sequences

CONSTANTS
    Session, LastPhase, MaxCommit, MaxGates,           \* see PhaseGate
    Command, Document, MaxCommands, MaxRevision,       \* see Completion
    Requirement, Commit, Tree, Authorised, Controller, \* see Deployment
    None

ASSUME Bounds ==
    LastPhase \in Nat /\ MaxCommit \in Nat /\ MaxGates \in Nat /\ MaxRevision \in Nat

VARIABLES
    part,                                                                  \* the view
    git, receipts, gateReview, gate, issued, activation, journal, clerk, guard, current,
    card, bound,
    meta, document, checked, work, review, token, session, command, locks, begun, approved,
    main, receipt, provider, published, controller

gateVars == <<git, receipts, gateReview, gate, issued, activation, journal, clerk, guard,
              current, card, bound>>
completionVars == <<meta, document, checked, work, review, token, session, command, locks,
                    begun, approved>>
deploymentVars == <<main, receipt, provider, published, controller>>
vars == <<part, gateVars, completionVars, deploymentVars>>

G == INSTANCE PhaseGate WITH review <- gateReview
C == INSTANCE Completion WITH Nothing <- None
D == INSTANCE Deployment

\* What the records of the three views are made of: packets, fingerprints and checks of
\* a completion; receipts, gates and activations of the phases; receipts and tokens of
\* the deployments.
Works == {"in_progress", "in_review", "done"}
Checks == {"PASS", "FAIL"}
Evidences == Document \X Checks
Prints == Document \X Checks \X Works
Packets == [revision : 1 .. MaxRevision, print : C!Publishable]

Phase == 0 .. LastPhase
Numbers == 0 .. MaxGates
ReceiptRecords == [commit : G!Commits, after : Phase]
GateRecords ==
    [number : Nat, commit : G!Commits, receipt : ReceiptRecords, still : BOOLEAN, previous : Nat]
ActivationRecords == [gate : Numbers, session : Session]

DeployReceipts == [status : {"in_progress", "succeeded", "failed"}, requirement : Requirement]
DeployTokens == [requirement : Requirement, commit : Commit, required : BOOLEAN]

\* None, which stands for what is not there, is none of them.
ASSUME Placeholder ==
    /\ None \notin Command \cup Packets \cup Prints \cup Evidences
    /\ None \notin ReceiptRecords \cup GateRecords \cup ActivationRecords
    /\ None \notin DeployReceipts /\ None \notin DeployTokens

\* The variables of the other views are not used.
Init ==
    /\ part \in {"gates", "completion", "deployment"}
    /\ IF part = "gates" THEN G!GateInit
       ELSE /\ git = None /\ receipts = None /\ gateReview = None /\ gate = None
            /\ issued = None /\ activation = None /\ journal = None /\ clerk = None
            /\ guard = None /\ current = None /\ card = None /\ bound = None
    /\ IF part = "completion" THEN C!CompletionInit
       ELSE /\ meta = None /\ document = None /\ checked = None /\ work = None
            /\ review = None /\ token = None /\ session = None /\ command = None
            /\ locks = None /\ begun = None /\ approved = None
    /\ IF part = "deployment" THEN D!DeploymentInit
       ELSE /\ main = None /\ receipt = None /\ provider = None /\ published = None
            /\ controller = None

Next ==
    \/ part = "gates" /\ G!GateNext /\ UNCHANGED <<completionVars, deploymentVars, part>>
    \/ part = "completion" /\ C!CompletionNext /\ UNCHANGED <<gateVars, deploymentVars, part>>
    \/ part = "deployment" /\ D!DeploymentNext /\ UNCHANGED <<gateVars, completionVars, part>>

Spec == Init /\ [][Next]_vars
-----------------------------------------------------------------------------
\* The shapes of the views, and what holds their locks.
TypeOK ==
    CASE part = "gates" -> G!GateTypeOK
      [] part = "completion" -> C!CompletionTypeOK
      [] part = "deployment" -> D!DeploymentTypeOK

\* phase_gate.py: an activated phase rests on the chain of gates of the phases
\* before it, and phases are opened in their order.
PhasesStand == part = "gates" => G!ChainStands /\ G!InOrder

\* runtime.py, review.py, delivery_guard.py and deployment.py: what is done was
\* approved where approval is asked for, and delivered where V2 delivers; a token
\* stands for one deployment that succeeded.
DoneMeansDone ==
    /\ part = "completion" => C!DeliveredBeforeDone /\ C!PacketApproved
    /\ part = "deployment" => D!DeployedOnce /\ D!TokenTrue
=============================================================================
