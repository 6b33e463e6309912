-------------------------- MODULE SessionBindings ---------------------------
(***************************************************************************)
(* attach_session, rebind_session_task and end_session                     *)
(* (automation/session_runtime.py): agent sessions register with a         *)
(* requirement and bind themselves to its tasks, in sessions.json and at   *)
(* the task provider.  Each session is a process of its own (its hooks     *)
(* and its command line), which may be killed at any point.                *)
(*                                                                         *)
(* Every operation writes sessions.json under a lock, calls the provider   *)
(* without one, and writes the file again.  There are two kinds of locks:  *)
(* .workspace.lock for the first part of attach_session, the lock of the   *)
(* requirement for everything else.                                        *)
(***************************************************************************)
EXTENDS Naturals, FiniteSets

CONSTANTS
    Session, Task, Requirement,
    Home,        \* Home[t]: the requirement of task t
    Workspace,   \* names the lock of the workspace
    MaxOps,      \* bound on the operations
    Nobody

VARIABLES
    file,      \* file[r][s]: the entry of s in sessions.json of r
    lock,      \* lock[k]: who holds it; k is a requirement or Workspace
    op,        \* op[s]: the operation of s
    started,   \* number of operations so far
    held       \* held[s]: the tasks attach_session gave to s, and s has not given up

bindingsVars == <<file, lock, op, started, held>>

Entry == [status : {"none", "active", "ended"}, tasks : SUBSET Task,
          links : SUBSET Task, unlinks : SUBSET Task]
NoEntry == [status |-> "none", tasks |-> {}, links |-> {}, unlinks |-> {}]
NoFile == [s \in Session |-> NoEntry]
Rest == [kind |-> "none", pc |-> "idle", r |-> Nobody, want |-> {}, gone |-> {}, copy |-> NoFile,
         links |-> {}, unlinks |-> {}, failedLinks |-> {}, failedUnlinks |-> {}]

BindingsInit ==
    /\ file = [r \in Requirement |-> NoFile]
    /\ lock = [k \in Requirement \cup {Workspace} |-> Nobody]
    /\ op = [s \in Session |-> Rest]
    /\ started = 0
    /\ held = [s \in Session |-> {}]

Locked(k, s) == lock[k] = Nobody /\ lock' = [lock EXCEPT ![k] = s]
Unlocked(k) == lock' = [lock EXCEPT ![k] = Nobody]
Active(r, s) == file[r][s].status = "active"
-----------------------------------------------------------------------------
(* The first part of each operation: checks and the new entry.              *)

\* Mutant of FirstLock: end_session takes the lock that attach_session takes.
FirstLockShared(kind, r) == IF kind = "rebind" THEN r ELSE Workspace
FirstLock(kind, r) == IF kind = "attach" THEN Workspace ELSE r

Enter(s, kind, r, want, gone) ==
    /\ op[s] = Rest
    /\ Locked(FirstLock(kind, r), s)
    /\ op' = [op EXCEPT ![s] = [Rest EXCEPT !.kind = kind, !.pc = "write", !.r = r, !.want = want,
                                            !.gone = gone, !.copy = file[r]]]
    /\ started < MaxOps /\ started' = started + 1
    /\ UNCHANGED <<file, held>>

\* A session that is active elsewhere is refused, and so is a task that another
\* session is active on.
Attach(s, r, want) ==
    /\ \A other \in Requirement \ {r} : ~Active(other, s)
    /\ \A other \in Session \ {s} : Active(r, other) => file[r][other].tasks \cap want = {}
    /\ Enter(s, "attach", r, want, {})

Rebind(s, r, from, to) ==
    /\ Active(r, s) /\ {from, to} \cap file[r][s].tasks # {}
    /\ Enter(s, "rebind", r, {to}, {from})

End(s, r) == Active(r, s) /\ Enter(s, "end", r, {}, file[r][s].tasks)

Attached(e, want) ==
    [e EXCEPT !.status = "active", !.tasks = @ \cup want]
Rebound(e, from, to) ==
    [e EXCEPT !.tasks = (@ \ from) \cup to,
              !.links = (@ \ from) \cup (to \ e.tasks),
              !.unlinks = (@ \ to) \cup (from \cap e.tasks)]
Ended(e) == [e EXCEPT !.status = "ended", !.links = {}, !.unlinks = e.tasks]

\* What is linked and unlinked afterwards: attach_session also tries what is left
\* to unlink of every session, rebind and end only their own.
LinksOf(o, e) ==
    CASE o.kind = "attach" ->
            e.links \cup (IF e.status = "active" THEN o.want \ e.tasks ELSE o.want)
      [] o.kind = "rebind" -> Rebound(e, o.gone, o.want).links
      [] o.kind = "end" -> {}
UnlinksOf(o, s) ==
    CASE o.kind = "attach" -> {x \in Session \X Task : x[2] \in o.copy[x[1]].unlinks}
      [] o.kind = "rebind" -> {s} \X Rebound(o.copy[s], o.gone, o.want).unlinks
      [] o.kind = "end" -> {s} \X o.copy[s].tasks

Write(s) ==
    LET o == op[s]
        e == o.copy[s]
        new == CASE o.kind = "attach" -> Attached(e, o.want)
                 [] o.kind = "rebind" -> Rebound(e, o.gone, o.want)
                 [] o.kind = "end" -> Ended(e)
    IN  /\ o.pc = "write"
        /\ file' = [file EXCEPT ![o.r] = [o.copy EXCEPT ![s] = new]]
        /\ held' = [held EXCEPT ![s] = CASE o.kind = "attach" -> @ \cup o.want
                                         [] OTHER -> @ \ o.gone]
        /\ Unlocked(FirstLock(o.kind, o.r))
        /\ op' = [op EXCEPT ![s].pc = "provider", ![s].copy = NoFile,
              ![s].links = LinksOf(o, e), ![s].unlinks = UnlinksOf(o, s)]
        /\ UNCHANGED started
-----------------------------------------------------------------------------
(* The calls to the provider are made without a lock; any of them may fail. *)
(* No operation reads what the provider shows: what counts is what is left  *)
(* to do.  That goes, under the lock again, into the file as it is now.     *)

Reread(s) ==
    /\ op[s].pc = "provider"
    /\ Locked(op[s].r, s)
    /\ \E links \in SUBSET op[s].links, unlinks \in SUBSET op[s].unlinks :
          op' = [op EXCEPT ![s].pc = "merge", ![s].copy = file[op[s].r],
                           ![s].failedLinks = links, ![s].failedUnlinks = unlinks]
    /\ UNCHANGED <<file, started, held>>

\* rebind writes only if the session is active still, end only if it is not.
Merges(o, s) ==
    CASE o.kind = "attach" -> TRUE
      [] o.kind = "rebind" -> o.copy[s].status = "active"
      [] o.kind = "end" -> o.copy[s].status = "ended"

Pending(before, tried, failed) == (before \ tried) \cup failed
Pairs(u, tasks) == {<<u, t>> : t \in tasks}

Merged(o, s) ==
    [u \in Session |->
        [o.copy[u] EXCEPT
            !.links = IF u = s /\ o.kind # "end" /\ o.copy[u].status = "active"
                      THEN Pending(@, o.links, o.failedLinks) ELSE @,
            !.unlinks = {t \in Task : <<u, t>> \in Pending(Pairs(u, @), o.unlinks, o.failedUnlinks)}]]

Merge(s) ==
    LET o == op[s]
    IN  /\ o.pc = "merge"
        /\ file' = IF Merges(o, s) THEN [file EXCEPT ![o.r] = Merged(o, s)] ELSE file
        /\ Unlocked(o.r)
        /\ op' = [op EXCEPT ![s] = Rest]
        /\ UNCHANGED <<started, held>>

\* A hook is killed: its locks go with it.
Kill(s) ==
    /\ op[s] # Rest
    /\ op' = [op EXCEPT ![s] = Rest]
    /\ lock' = [k \in DOMAIN lock |-> IF lock[k] = s THEN Nobody ELSE lock[k]]
    /\ UNCHANGED <<file, started, held>>

BindingsNext ==
    \E s \in Session :
        \/ \E r \in Requirement :
              LET own == {t \in Task : Home[t] = r}
              IN  \/ \E want \in SUBSET own : Attach(s, r, want)
                  \/ \E from, to \in own : from # to /\ Rebind(s, r, from, to)
                  \/ End(s, r)
        \/ Write(s) \/ Reread(s) \/ Merge(s) \/ Kill(s)

BindingsSpec == BindingsInit /\ [][BindingsNext]_bindingsVars
-----------------------------------------------------------------------------
\* Shapes; a lock is held by a session that is between its read and its write.
BindingsTypeOK ==
    /\ file \in [Requirement -> [Session -> Entry]]
    /\ \A r \in Requirement, s \in Session :
          file[r][s].tasks \cup file[r][s].links \cup file[r][s].unlinks \subseteq
              {t \in Task : Home[t] = r}
    /\ lock \in [Requirement \cup {Workspace} -> Session \cup {Nobody}]
    /\ started \in 0 .. MaxOps /\ held \in [Session -> SUBSET Task]
    /\ \A s \in Session :
          /\ op[s].pc \in {"idle", "write", "provider", "merge"}
          /\ op[s].pc \in {"write", "merge"} <=> \E k \in DOMAIN lock : lock[k] = s

\* session_runtime.py:55: an active session serves one requirement, although
\* files are written back from readings under different locks.
OneRequirement ==
    \A s \in Session : Cardinality({r \in Requirement : Active(r, s)}) <= 1

\* session_runtime.py:74: attach_session gives a task to one session at a time.
TasksApart ==
    \A s, u \in Session : s # u => held[s] \cap held[u] = {}
=============================================================================
