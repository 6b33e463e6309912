----------------------------- MODULE Deployment -----------------------------
(***************************************************************************)
(* Deployments of one project to one environment, and the completion       *)
(* tokens they lead to (deployment.py).                                    *)
(*                                                                         *)
(* A controller is a process: it checks its authorisation, deploys under   *)
(* the file lock of the deployment's key, asks for the completion of the   *)
(* requirement and publishes the token in its workspace.  It may be killed *)
(* anywhere; the provider has then done what it was told or not.  Main,   *)
(* the phase 6 gates and the policy of the environment are changed by      *)
(* others at any time: each reading of the last two finds anything.        *)
(* One version of the provider: a key is a commit.  Authorisations, merge  *)
(* receipts and signatures are those of the store, so they agree.          *)
(***************************************************************************)
EXTENDS Naturals, FiniteSets

CONSTANTS
    Requirement,
    Commit, Tree,    \* Tree[c]: what is in the commit c
    Authorised,      \* <<requirement, commit>> of the authorisations recorded
    Controller,
    None

VARIABLES
    main,         \* commit of the clean local main, or None
    receipt,      \* receipt[c]: status and requirement, or None
    provider,     \* provider[c]: times it was called, and whether c is live
    published,    \* published[q]: its completion token, or None
    controller    \* controller[p]: place, authorisation and what it has

deploymentVars == <<main, receipt, provider, published, controller>>

Rest == [pc |-> "idle", requirement |-> None, commit |-> None, required |-> FALSE,
         result |-> "none"]

DeploymentInit ==
    /\ main \in Commit /\ receipt = [c \in Commit |-> None]
    /\ provider = [c \in Commit |-> [calls |-> 0, live |-> FALSE]]
    /\ published = [q \in Requirement |-> None]
    /\ controller = [p \in Controller |-> Rest]

Leave(p) == controller' = [controller EXCEPT ![p] = Rest]
Goto(p, pc) == controller' = [controller EXCEPT ![p].pc = pc]
At(p, pc) == controller[p].pc = pc
\* Nobody holds the file lock of the key.
LockFree(c) ==
    \A p \in Controller : controller[p].commit = c => controller[p].pc \notin {"deploying", "ran"}
-----------------------------------------------------------------------------
MainMoves ==
    /\ main' \in (Commit \cup {None}) \ {main}
    /\ UNCHANGED <<receipt, provider, published, controller>>

Dies(p) ==
    /\ ~At(p, "idle") /\ Leave(p)
    /\ UNCHANGED <<main, receipt, provider, published>>
-----------------------------------------------------------------------------
\* _validate: the commit that is authorised is the head of main.
Deployable(c) == main = c

\* from_registry reads the policy; where nothing is required, complete may come at once.
Begin(p, q, c) ==
    /\ At(p, "idle") /\ <<q, c>> \in Authorised /\ Deployable(c)
    /\ \E required \in BOOLEAN :
       \E pc \in IF required THEN {"authorised"} ELSE {"authorised", "completing"} :
          controller' = [controller EXCEPT ![p] = [Rest EXCEPT
              !.pc = pc, !.requirement = q, !.commit = c, !.required = required]]
    /\ UNCHANGED <<main, receipt, provider, published>>

\* Mutant of Known: a deployment whose result is unknown is tried again.
KnownEnded(c) == receipt[c] # None /\ receipt[c].status # "in_progress"
Known(c) == receipt[c] # None

\* There is a record: the answer is its receipt, if it is that of this authorisation.
Found(p) ==
    LET c == controller[p].commit IN
    /\ At(p, "authorised") /\ LockFree(c) /\ Known(c)
    /\ IF /\ receipt[c].status # "in_progress"
          /\ receipt[c].requirement = controller[p].requirement
       THEN Goto(p, "completing")
       ELSE Leave(p)
    /\ UNCHANGED <<main, receipt, provider, published>>

\* The intent is on disk before the provider is called.
Intends(p) ==
    LET c == controller[p].commit IN
    /\ At(p, "authorised") /\ LockFree(c) /\ ~Known(c)
    /\ IF Deployable(c)
       THEN /\ receipt' = [receipt EXCEPT ![c] =
                   [status |-> "in_progress", requirement |-> controller[p].requirement]]
            /\ Goto(p, "deploying")
       ELSE Leave(p) /\ UNCHANGED receipt
    /\ UNCHANGED <<main, provider, published>>

\* A call that fails or is too late may have taken effect all the same.
Deploys(p) ==
    LET c == controller[p].commit IN
    /\ At(p, "deploying")
    /\ \E result \in {"succeeded", "failed"} :
          /\ controller' = [controller EXCEPT ![p].pc = "ran", ![p].result = result]
          /\ \E live \in IF result = "succeeded" THEN {TRUE} ELSE BOOLEAN :
                provider' = [provider EXCEPT ![c].calls = @ + 1, ![c].live = @ \/ live]
    /\ UNCHANGED <<main, receipt, published>>

Records(p) ==
    /\ At(p, "ran")
    /\ receipt' = [receipt EXCEPT ![controller[p].commit].status = controller[p].result]
    /\ Goto(p, "completing")
    /\ UNCHANGED <<main, provider, published>>
-----------------------------------------------------------------------------
\* Mutant of Delivered: any receipt of the requirement will do.
DeliveredSomehow(q, c) == receipt[c] # None /\ receipt[c].requirement = q
\* The receipt is a persisted one, of this requirement and of success.
Delivered(q, c) == receipt[c] = [status |-> "succeeded", requirement |-> q]

\* complete; its record says all that the token does, and is never removed.
TokenOf(p) == [requirement |-> controller[p].requirement, commit |-> controller[p].commit,
               required |-> controller[p].required]

Completes(p) ==
    /\ At(p, "completing")
    /\ IF controller[p].required => Delivered(controller[p].requirement, controller[p].commit)
       THEN Goto(p, "completed")
       ELSE Leave(p)
    /\ UNCHANGED <<main, receipt, provider, published>>

\* publish_completion_token, under the lock of the requirement.  A merge may have
\* given the commit of the gate another name.
SameTree(c, d) == c # None /\ d # None /\ Tree[c] = Tree[d]

Publishable(token, required, gate) ==
    /\ token.required = required
    /\ SameTree(gate, token.commit)
    /\ published[token.requirement] \in {None, token}

Publishes(p) ==
    /\ At(p, "completed")
    /\ \E required \in BOOLEAN, gate \in Commit \cup {None} :
          published' = IF Publishable(TokenOf(p), required, gate)
                       THEN [published EXCEPT ![controller[p].requirement] = TokenOf(p)]
                       ELSE published
    /\ Leave(p)
    /\ UNCHANGED <<main, receipt, provider>>

DeploymentNext ==
    \/ MainMoves
    \/ \E p \in Controller :
          \/ \E q \in Requirement, c \in Commit : Begin(p, q, c)
          \/ Found(p) \/ Intends(p) \/ Deploys(p) \/ Records(p) \/ Completes(p) \/ Publishes(p)
          \/ Dies(p)

DeploymentSpec == DeploymentInit /\ [][DeploymentNext]_deploymentVars
-----------------------------------------------------------------------------
\* Shapes; a controller inside the lock of its key has left the intent on disk.
DeploymentTypeOK ==
    /\ \A c \in Commit : receipt[c] = None \/
          receipt[c] \in [status : {"in_progress", "succeeded", "failed"}, requirement : Requirement]
    /\ \A q \in Requirement : published[q] = None \/
          published[q] \in [requirement : {q}, commit : Commit, required : BOOLEAN]
    /\ \A p \in Controller :
          controller[p].pc \in {"deploying", "ran"} =>
              receipt[controller[p].commit] =
                  [status |-> "in_progress", requirement |-> controller[p].requirement]

\* deployment.py:331: whatever is killed, repeated or done by two controllers at once,
\* the provider is asked at most once for a commit.
DeployedOnce == \A c \in Commit : provider[c].calls <= 1

\* deployment.py:511: where a deployment is required, the token in the workspace is of
\* a commit that is live and whose deployment succeeded for this requirement.
TokenTrue ==
    \A q \in Requirement : published[q] # None /\ published[q].required =>
        /\ provider[published[q].commit].live
        /\ receipt[published[q].commit] = [status |-> "succeeded", requirement |-> q]
=============================================================================
