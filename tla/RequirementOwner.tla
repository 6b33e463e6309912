-------------------------- MODULE RequirementOwner --------------------------
(***************************************************************************)
(* The state of the main agent of a requirement (RequirementOwner,         *)
(* main_agent.py; main-agent.json): what it has seen of the requirement,   *)
(* at which stage of its loop it is, and the actions it has recorded.      *)
(*                                                                         *)
(* Agents read the state, or keep what their last call returned, and call  *)
(* with the revision they know.  All calls are made under the lock of the  *)
(* requirement; the facts are not: documents, executions and the control   *)
(* store of the supervisor change under it, and are read one after the     *)
(* other.  A fact is TRUE or FALSE, and may change back.                   *)
(***************************************************************************)
EXTENDS Naturals, Sequences

CONSTANTS
    Agent,         \* callers
    Facts,         \* number of facts, in the order in which they are read
    MaxRevision,   \* bound on the revisions
    Kept           \* actions that are kept (100)

VARIABLES
    facts,     \* the facts as they are
    owner,     \* main-agent.json; revision 0 if there is none
    agent      \* agent[a]: what a knows of the file, and what its observe has read

ownerVars == <<facts, owner, agent>>

Stages == <<"observe", "assess", "plan", "act", "inspect", "review", "replan">>
Following(stage) ==
    LET i == CHOOSE n \in DOMAIN Stages : Stages[n] = stage
    IN  Stages[(i % Len(Stages)) + 1]

NoOwner == [revision |-> 0, stage |-> "observe", cycle |-> 1, acts |-> 0,
            seen |-> <<>>, mark |-> <<>>]

OwnerInit ==
    /\ facts = [f \in 1 .. Facts |-> FALSE]
    /\ owner = NoOwner
    /\ agent = [a \in Agent |-> [knows |-> NoOwner, got |-> <<>>]]

\* Lock of the requirement: nobody is in observe.
LockFree == \A a \in Agent : agent[a].got = <<>>
-----------------------------------------------------------------------------
FactChanges(f) ==
    /\ facts' = [facts EXCEPT ![f] = ~@]
    /\ UNCHANGED <<owner, agent>>

\* load, current_revision.
Look(a) ==
    /\ agent[a].got = <<>>
    /\ agent' = [agent EXCEPT ![a].knows = owner]
    /\ UNCHANGED <<facts, owner>>

\* Expected revision of a call; a call with another one is refused.
Expected(a) == agent[a].knows.revision = owner.revision

Observe(a) ==
    /\ LockFree /\ Expected(a) /\ owner.revision < MaxRevision
    /\ agent' = [agent EXCEPT ![a].got = <<facts[1]>>]
    /\ UNCHANGED <<facts, owner>>

ObserveReads(a) ==
    /\ agent[a].got # <<>> /\ Len(agent[a].got) < Facts
    /\ agent' = [agent EXCEPT ![a].got = Append(@, facts[Len(@) + 1])]
    /\ UNCHANGED <<facts, owner>>

\* Mutant of SourceRevision: the facts are read again for the fingerprint.
SourceRevisionAfresh(got) == facts
\* Fingerprint of the facts an observation was made from.
SourceRevision(got) == got

\* The write replaces the file and returns the new state.
Observed(a, got) ==
    [owner EXCEPT !.revision = @ + 1, !.seen = got, !.mark = SourceRevision(got),
                  !.stage = IF @ = "replan" THEN "observe" ELSE @,
                  !.cycle = IF owner.stage = "replan" THEN @ + 1 ELSE @]

ObserveEnds(a) ==
    /\ Len(agent[a].got) = Facts
    /\ owner' = Observed(a, agent[a].got)
    /\ agent' = [agent EXCEPT ![a] = [knows |-> owner', got |-> <<>>]]
    /\ UNCHANGED facts

\* Mutant of Advanced: the revision stays.
AdvancedSame(o) == [o EXCEPT !.stage = Following(@)]
Advanced(o) == [o EXCEPT !.stage = Following(@), !.revision = @ + 1]

\* The caller names its stage, too.
Advance(a) ==
    /\ LockFree /\ owner.revision \in 1 .. MaxRevision - 1
    /\ Expected(a) /\ agent[a].knows.stage = owner.stage
    /\ owner' = Advanced(owner)
    /\ agent' = [agent EXCEPT ![a].knows = owner']
    /\ UNCHANGED facts

RecordAction(a) ==
    /\ LockFree /\ owner.revision \in 1 .. MaxRevision - 1
    /\ Expected(a) /\ owner.stage = "act"
    /\ owner' = [owner EXCEPT !.acts = IF @ < Kept THEN @ + 1 ELSE @,
                              !.stage = "inspect", !.revision = @ + 1]
    /\ agent' = [agent EXCEPT ![a].knows = owner']
    /\ UNCHANGED facts

OwnerNext ==
    \/ \E f \in 1 .. Facts : FactChanges(f)
    \/ \E a \in Agent :
          \/ Look(a) \/ Observe(a) \/ ObserveReads(a) \/ ObserveEnds(a)
          \/ Advance(a) \/ RecordAction(a)

OwnerSpec == OwnerInit /\ [][OwnerNext]_ownerVars
-----------------------------------------------------------------------------
\* Shapes; the lock has one holder, and nobody knows more than was written.
OwnerTypeOK ==
    /\ facts \in [1 .. Facts -> BOOLEAN]
    /\ owner.revision \in 0 .. MaxRevision /\ owner.acts \in 0 .. Kept
    /\ \A a, b \in Agent : agent[a].got # <<>> /\ agent[b].got # <<>> => a = b
    /\ \A a \in Agent : agent[a].knows.revision <= owner.revision

\* dashboard.py:219: a state that is not called stale shows the facts as they are,
\* although they changed while they were being read.
StaleSeen == owner.revision > 0 /\ owner.mark = facts => owner.seen = facts

\* main_agent.py:280, 299: a call changes the state its caller has read, and no other.
DecidedOnSeen == owner' # owner => \E a \in Agent : agent[a].knows = owner /\ agent'[a].knows = owner'
=============================================================================
