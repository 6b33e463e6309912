----------------------------- MODULE Workspaces -----------------------------
(***************************************************************************)
(* The worktree of one task (LocalGitWorkspaceProvider,                    *)
(* integration/git_workspace.py): it is reserved, created, leased to the   *)
(* worker; what the worker leaves becomes a candidate commit.  TrustedGit  *)
(* gives one writer at a time; the writer may be killed between any two    *)
(* effects, and what it has not saved is lost.                             *)
(*                                                                         *)
(* A tree is a model value, a commit a number: 0 is the base, and a new    *)
(* one never equals an old one (it carries the time).  Bytes, modes and    *)
(* the parsing of git's output are left out: files and index are trees.    *)
(***************************************************************************)
EXTENDS Naturals

CONSTANTS
    Base,         \* tree of the base commit
    Work,         \* trees that a worker may leave
    MaxCommits,   \* bound on the commits
    MaxRoots,     \* bound on the directories made at the path of the worktree
    None

VARIABLES
    record,      \* the lease in the ledger
    dir,         \* identity of the directory, 0 if there is none; roots made so far
    tree,        \* what git and the disk have there: marker, files, index, branch, foreign
    commits,     \* commits[c]: tree and parent
    writer,      \* place of the writer and the commit it has made
    returned     \* candidates that were returned

workspaceVars == <<record, dir, tree, commits, writer, returned>>

Commits == 0 .. MaxCommits
Away == [pc |-> "idle", sha |-> 0]
Unborn == [tree |-> None, parent |-> None]

WorkspaceInit ==
    /\ record = [status |-> "none", reservation |-> 0, head |-> 0, candidate |-> None,
                 pending |-> None]
    /\ dir = [root |-> 0, made |-> 0]
    /\ tree = [marker |-> FALSE, files |-> "none", index |-> None, branch |-> None,
               foreign |-> FALSE]
    /\ commits = [c \in Commits |-> IF c = 0 THEN [tree |-> Base, parent |-> 0] ELSE Unborn]
    /\ writer = Away /\ returned = {}

Goto(pc) == writer' = [writer EXCEPT !.pc = pc]
Fail == writer' = Away
TreeOf(c) == commits[c].tree
\* The next number.
Fresh(c) == commits[c] = Unborn /\ (c = 1 \/ commits[c - 1] # Unborn)
-----------------------------------------------------------------------------
(* ensure: the ledger says what was intended before each effect, so that    *)
(* another run goes on; what cannot be told from another's is left alone.   *)

Ensure ==
    /\ writer = Away /\ record.status \in {"none", "preparing"}
    /\ record.status = "none" => dir.root = 0
    /\ record' = [record EXCEPT !.status = "preparing"]
    /\ Goto("assign")
    /\ UNCHANGED <<dir, tree, commits, returned>>

\* Mutant of Ours: a directory that is there is taken for the one reserved.
OursIfThere == dir.root # 0
Ours == record.reservation = dir.root

Assign ==
    /\ writer.pc = "assign"
    /\ \/ /\ dir.root = 0 /\ dir.made < MaxRoots
          /\ dir' = [root |-> dir.made + 1, made |-> dir.made + 1] /\ Goto("reserve")
       \/ /\ dir.root # 0 /\ UNCHANGED dir
          /\ IF Ours THEN Goto("add") ELSE Fail
    /\ UNCHANGED <<record, tree, commits, returned>>

Reserve ==
    /\ writer.pc = "reserve"
    /\ record' = [record EXCEPT !.reservation = dir.root] /\ Goto("add")
    /\ UNCHANGED <<dir, tree, commits, returned>>

\* git worktree add, which may be interrupted when it has made the branch; the
\* git directory is found again by the marker.
AddWorktree ==
    /\ writer.pc = "add"
    /\ \/ tree.marker /\ Goto("fill") /\ UNCHANGED tree
       \/ /\ ~tree.marker
          /\ IF tree.foreign \/ tree.branch \notin {None, 0}
             THEN Fail /\ UNCHANGED tree
             ELSE \/ tree' = [tree EXCEPT !.marker = TRUE, !.branch = 0] /\ Goto("fill")
                  \/ tree' = [tree EXCEPT !.branch = 0] /\ Fail
    /\ UNCHANGED <<record, dir, commits, returned>>

\* _materialize refuses what it has not written, and goes on where it stopped.
Materialize ==
    /\ writer.pc = "fill"
    /\ \/ tree.foreign /\ Fail /\ UNCHANGED tree
       \/ ~tree.foreign /\ tree' = [tree EXCEPT !.files = "part"] /\ Fail
       \/ ~tree.foreign /\ tree' = [tree EXCEPT !.files = Base] /\ Goto("read")
    /\ UNCHANGED <<record, dir, commits, returned>>

ReadBase ==
    /\ writer.pc = "read"
    /\ tree' = [tree EXCEPT !.index = Base]
    /\ IF tree.foreign THEN Fail ELSE Goto("activate")
    /\ UNCHANGED <<record, dir, commits, returned>>

Activate ==
    /\ writer.pc = "activate"
    /\ record' = [record EXCEPT !.status = "active"] /\ Fail
    /\ UNCHANGED <<dir, tree, commits, returned>>
-----------------------------------------------------------------------------
(* Others.  A stranger may use the path until the lease is active; then it  *)
(* is the worker's, who may use git too, against its instructions.          *)

Stranger ==
    /\ record.status \in {"none", "preparing"} /\ ~tree.foreign
    /\ dir.root = 0 => dir.made < MaxRoots
    /\ dir' = IF dir.root = 0 THEN [root |-> dir.made + 1, made |-> dir.made + 1] ELSE dir
    /\ tree' = [tree EXCEPT !.foreign = TRUE]
    /\ UNCHANGED <<record, commits, writer, returned>>

Working == writer = Away /\ record.status = "active"

Edit ==
    /\ Working
    /\ \E files \in Work : tree' = [tree EXCEPT !.files = files]
    /\ UNCHANGED <<record, dir, commits, writer, returned>>

CommitItself ==
    /\ Working
    /\ \E c \in 1 .. MaxCommits, index \in Work \cup {Base} :
          /\ Fresh(c)
          /\ commits' = [commits EXCEPT ![c] = [tree |-> tree.files, parent |-> tree.branch]]
          /\ tree' = [tree EXCEPT !.branch = c, !.index = index]
    /\ UNCHANGED <<record, dir, writer, returned>>
-----------------------------------------------------------------------------
(* capture_candidate, when the worker and its children are gone.            *)

Pending == record.pending # None

\* Mutant of HeadKnown: wherever the branch is, the files count.
HeadKnownAlways == TRUE
\* Nobody but a capture has moved the branch.
HeadKnown == tree.branch \in {record.head, IF Pending THEN record.pending ELSE record.head}

Capture ==
    /\ Working /\ HeadKnown
    /\ \/ Pending /\ writer' = [pc |-> "publish", sha |-> record.pending]
       \/ ~Pending /\ tree.index = TreeOf(record.head) /\ Goto("commit")
    /\ UNCHANGED <<record, dir, tree, commits, returned>>

\* The tree is written from the files; an unchanged one needs no commit.
CommitTree ==
    /\ writer.pc = "commit"
    /\ IF tree.files = TreeOf(record.head)
       THEN writer' = [pc |-> "intend", sha |-> record.head] /\ UNCHANGED commits
       ELSE \E c \in 1 .. MaxCommits :
               /\ Fresh(c)
               /\ commits' = [commits EXCEPT ![c] = [tree |-> tree.files, parent |-> record.head]]
               /\ writer' = [pc |-> "intend", sha |-> c]
    /\ UNCHANGED <<record, dir, tree, returned>>

Intend ==
    /\ writer.pc = "intend"
    /\ record' = [record EXCEPT !.pending = writer.sha] /\ Goto("publish")
    /\ UNCHANGED <<dir, tree, commits, returned>>

\* Mutant of Unedited: what was intended is published, whatever has come since.
UneditedAlways == TRUE
Unedited == tree.files = TreeOf(writer.sha)

\* update-ref compares with the head of the record, and read-tree follows.
Publish ==
    /\ writer.pc = "publish"
    /\ IF Unedited
       THEN /\ tree' = [tree EXCEPT !.branch = IF @ = record.head THEN writer.sha ELSE @]
            /\ Goto("reset")
       ELSE Fail /\ UNCHANGED tree
    /\ UNCHANGED <<record, dir, commits, returned>>

Reset ==
    /\ writer.pc = "reset"
    /\ tree' = [tree EXCEPT !.index = TreeOf(writer.sha)] /\ Goto("record")
    /\ UNCHANGED <<record, dir, commits, returned>>

Record ==
    /\ writer.pc = "record"
    /\ record' = [record EXCEPT !.head = writer.sha, !.candidate = writer.sha, !.pending = None]
    /\ returned' = returned \cup {writer.sha}
    /\ Fail
    /\ UNCHANGED <<dir, tree, commits>>

\* release: clean, at whatever commit the branch is, and nothing half published.
Release ==
    /\ Working /\ ~Pending
    /\ tree.index = TreeOf(tree.branch) /\ tree.files = TreeOf(tree.branch)
    /\ record' = [record EXCEPT !.status = "released"]
    /\ UNCHANGED <<dir, tree, commits, writer, returned>>

Crash ==
    /\ writer # Away /\ writer' = Away
    /\ UNCHANGED <<record, dir, tree, commits, returned>>

WorkspaceNext ==
    \/ Ensure \/ Assign \/ Reserve \/ AddWorktree \/ Materialize \/ ReadBase \/ Activate
    \/ Stranger \/ Edit \/ CommitItself
    \/ Capture \/ CommitTree \/ Intend \/ Publish \/ Reset \/ Record \/ Release \/ Crash

WorkspaceSpec == WorkspaceInit /\ [][WorkspaceNext]_workspaceVars
-----------------------------------------------------------------------------
Trees == Work \cup {Base}
\* Shapes; an active lease has a directory of its own, a branch and an index.
WorkspaceTypeOK ==
    /\ record.status \in {"none", "preparing", "active", "released"}
    /\ record.head \in Commits /\ {record.candidate, record.pending} \subseteq Commits \cup {None}
    /\ dir.root \in 0 .. dir.made /\ dir.made <= MaxRoots
    /\ tree.files \in {"none", "part"} \cup Trees /\ tree.index \in Trees \cup {None}
    /\ record.status \in {"active", "released"} =>
          /\ tree.marker /\ tree.branch \in Commits /\ tree.index \in Trees
          /\ record.reservation = dir.root /\ dir.root # 0
    /\ \A c \in Commits : commits[c] = Unborn \/ commits[c].parent < c \/ c = 0
    /\ writer.sha \in Commits /\ returned \subseteq Commits

\* git_workspace.py:724: whatever crash lies between, a candidate that is recorded
\* is where the branch is, is what the worker left, and stands on nothing but
\* candidates that were recorded before it.
ReturnsTrue ==
    record'.candidate # record.candidate =>
        /\ tree.branch = record'.candidate
        /\ {tree.files, tree.index} = {TreeOf(record'.candidate)}
        /\ record'.candidate \in returned'
        /\ \A c \in returned' : commits[c].parent \in returned' \cup {0}

\* git_workspace.py:640: a directory is filled only if this ledger has made it.
LeavesOthers ==
    tree'.files # tree.files /\ record.status = "preparing" =>
        ~tree.foreign /\ record.reservation = dir.root
=============================================================================
