--------------------------- MODULE EpochRegister ---------------------------
(***************************************************************************)
(* What the Supervisor state store promises, with no clock, file or lock:  *)
(* a register whose writers are numbered by epochs.  A new epoch replaces  *)
(* the previous one for good; only a writer that knows the current epoch,  *)
(* while that epoch is open, appends to the log or starts a worker.        *)
(* LeaseStore implements this specification.                               *)
(***************************************************************************)
EXTENDS Naturals, Sequences

CONSTANT Process

VARIABLES
    epoch,     \* number of the latest epoch, 0 before the first
    open,      \* whether the latest epoch has not been given up
    known,     \* known[p]: the epoch p believes it may write in, 0 for none
    log,       \* the epochs of the writes, in the order they took effect
    launched   \* the epoch of the latest worker start, 0 before the first

vars == <<epoch, open, known, log, launched>>

Init ==
    /\ epoch = 0
    /\ open = FALSE
    /\ known = [p \in Process |-> 0]
    /\ log = <<>>
    /\ launched = 0

\* Whoever opens an epoch may crash before it learns that it did.
Open(p) ==
    /\ epoch' = epoch + 1
    /\ open' = TRUE
    /\ \/ known' = [known EXCEPT ![p] = epoch + 1]
       \/ UNCHANGED known
    /\ UNCHANGED <<log, launched>>

Current(p) == open /\ known[p] = epoch

Write(p) ==
    /\ Current(p)
    /\ log' = Append(log, epoch)
    /\ UNCHANGED <<epoch, open, known, launched>>

Launch(p) ==
    /\ Current(p)
    /\ launched' = epoch
    /\ UNCHANGED <<epoch, open, known, log>>

Forget(p) ==
    /\ known' = [known EXCEPT ![p] = 0]
    /\ UNCHANGED <<epoch, open, log, launched>>

Close(p) ==
    /\ Current(p)
    /\ open' = FALSE
    /\ \/ known' = [known EXCEPT ![p] = 0]
       \/ UNCHANGED known
    /\ UNCHANGED <<epoch, log, launched>>

Next == \E p \in Process : Open(p) \/ Write(p) \/ Launch(p) \/ Forget(p) \/ Close(p)

Spec == Init /\ [][Next]_vars
=============================================================================
