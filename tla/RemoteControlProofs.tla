------------------------ MODULE RemoteControlProofs -------------------------
(***************************************************************************)
(* Proofs about RemoteControl for any number of threads, sessions and      *)
(* commands.                                                               *)
(***************************************************************************)
EXTENDS RemoteControl, SequenceTheorems, TLAPS

\* A runtime is the one of the present target.
RuntimeOfTarget == runtime \in {None, Broken, target}

\* A thread that hands its command over has activated its session, and no turn
\* is active meanwhile.
SendingAlone ==
    \A h \in Thread : thread[h].pc = "sending" =>
        /\ active = 0
        /\ target = rows[thread[h].command].session

\* An active turn has a thread that will clear it, and drain the queue then.
ActiveHasThread ==
    active # 0 => \E h \in Thread : /\ thread[h].pc \in {"waiting", "clear"}
                                    /\ thread[h].command = active

\* A turn that is being steered stays active.
SteeringActive == \A h \in Thread : thread[h].pc = "steering" => active # 0

\* Thread h will look at the pending commands, whatever fails.
Looks(h) ==
    \/ thread[h].pc \in {"sending", "waiting", "clear", "drain"}
    \/ thread[h].pc = "execute" /\ rows[thread[h].command].session = target

SomeoneLooks ==
    left \cap Pending = {} \/ runtime = Broken \/ \E h \in Thread : Looks(h)

IInv ==
    /\ TypeOK
    /\ TurnUndisturbed
    /\ DeliveredHasOwner
    /\ RuntimeOfTarget
    /\ SendingAlone
    /\ ActiveHasThread
    /\ SteeringActive
    /\ SomeoneLooks
-----------------------------------------------------------------------------
\* No command leaves the queue or changes its session.
RowsKept ==
    /\ rows' \in Seq(Row) /\ Len(rows') <= MaxCommands
    /\ DOMAIN rows \subseteq DOMAIN rows'
    /\ \A c \in DOMAIN rows : rows'[c].session = rows[c].session

\* The rows of a queue of the right type.
LEMMA RowTypes ==
    ASSUME TypeOK
    PROVE  /\ DOMAIN rows = 1 .. Len(rows) /\ Len(rows) \in Nat
           /\ DOMAIN rows \subseteq Command
           /\ \A c \in DOMAIN rows : rows[c] \in Row
<1>1. rows \in Seq(Row) /\ Len(rows) <= MaxCommands
  BY DEF TypeOK
<1>2. DOMAIN rows = 1 .. Len(rows) /\ Len(rows) \in Nat
  BY <1>1, LenProperties
<1>3. DOMAIN rows \subseteq Command
  BY <1>1, <1>2, CommandsAssumption DEF Command
<1>4. \A c \in DOMAIN rows : rows[c] \in Row
  BY <1>1, <1>2, ElementOfSeq
<1>. QED  BY <1>2, <1>3, <1>4

\* One row gets other fields, but keeps its session.
LEMMA RowChanged ==
    ASSUME TypeOK, NEW c \in DOMAIN rows, NEW row \in Row,
           row.session = rows[c].session, rows' = [rows EXCEPT ![c] = row]
    PROVE  /\ RowsKept /\ DOMAIN rows' = DOMAIN rows /\ rows'[c] = row
           /\ \A d \in DOMAIN rows \ {c} : rows'[d] = rows[d]
<1>1. rows \in Seq(Row) /\ Len(rows) <= MaxCommands /\ c \in 1 .. Len(rows)
  BY RowTypes DEF TypeOK
<1>2. rows' \in Seq(Row) /\ Len(rows') = Len(rows)
  BY <1>1, ExceptSeq
<1>3. /\ DOMAIN rows' = DOMAIN rows /\ rows'[c] = row
      /\ \A d \in DOMAIN rows \ {c} : rows'[d] = rows[d]
  OBVIOUS
<1>. QED  BY <1>1, <1>2, <1>3 DEF RowsKept

\* update changes the status of one row, unless that is final.
LEMMA UpdatedRows ==
    ASSUME TypeOK, NEW c \in DOMAIN rows, NEW status \in Final \cup {"delivered"},
           rows' = Updated(c, status)
    PROVE  /\ RowsKept /\ DOMAIN rows' = DOMAIN rows
           /\ \A d \in DOMAIN rows \ {c} : rows'[d] = rows[d]
           /\ rows'[c].status = IF rows[c].status \in Final THEN rows[c].status ELSE status
<1>1. rows[c] \in Row
  BY RowTypes
<1>2. CASE rows[c].status \in Final
  BY <1>2 DEF Updated, RowsKept, TypeOK
<1>3. CASE rows[c].status \notin Final
  <2>. DEFINE row == [rows[c] EXCEPT !.status = status]
  <2>1. row \in Row /\ row.session = rows[c].session /\ row.status = status
    BY <1>1 DEF Row, Final
  <2>2. rows' = [rows EXCEPT ![c] = row]
    BY <1>3 DEF Updated
  <2>. HIDE DEF row
  <2>. QED  BY <2>1, <2>2, <1>3, RowChanged
<1>. QED  BY <1>2, <1>3

\* enqueue leaves the rows that are there alone.
LEMMA EnqueuedRows ==
    ASSUME TypeOK, NEW c \in Command, NEW session \in Session, Enqueued(c, session)
    PROVE  /\ RowsKept /\ c \in DOMAIN rows'
           /\ \A d \in DOMAIN rows : rows'[d] = rows[d]
           /\ \A d \in DOMAIN rows' \ DOMAIN rows : rows'[d].status = "queued"
<1>. DEFINE row == [session |-> session, status |-> "queued", retries |-> 0]
<1>1. CASE c = Len(rows) + 1 /\ rows' = Append(rows, row)
  <2>1. row \in Row /\ row.status = "queued"
    BY DEF Row, Final
  <2>2. rows \in Seq(Row) /\ Len(rows) \in Nat /\ DOMAIN rows = 1 .. Len(rows)
    BY RowTypes DEF TypeOK
  <2>. HIDE DEF row
  <2>3. /\ rows' \in Seq(Row) /\ Len(rows') = Len(rows) + 1
        /\ \A d \in 1 .. Len(rows) : rows'[d] = rows[d]
        /\ rows'[Len(rows) + 1] = row
    BY <1>1, <2>1, <2>2
  <2>4. DOMAIN rows' = 1 .. Len(rows) + 1
    BY <2>3
  <2>5. Len(rows') <= MaxCommands
    BY <1>1, <2>3, CommandsAssumption DEF Command
  <2>. QED  BY <1>1, <2>1, <2>2, <2>3, <2>4, <2>5 DEF RowsKept
<1>2. CASE c \in DOMAIN rows /\ UNCHANGED rows
  BY <1>2 DEF RowsKept, TypeOK
<1>. QED  BY <1>1, <1>2 DEF Enqueued

\* recover_delivered keeps the queue, without anything delivered in it.
LEMMA RecoveredRows ==
    ASSUME TypeOK, rows' = [c \in DOMAIN rows |-> Recovered(rows[c])]
    PROVE  /\ RowsKept /\ DOMAIN rows' = DOMAIN rows
           /\ \A c \in DOMAIN rows : /\ rows'[c].status # "delivered"
                                     /\ rows[c].status # "delivered" => rows'[c] = rows[c]
<1>1. \A c \in DOMAIN rows : /\ Recovered(rows[c]) \in Row
                             /\ Recovered(rows[c]).session = rows[c].session
                             /\ Recovered(rows[c]).status # "delivered"
                             /\ rows[c].status # "delivered" => Recovered(rows[c]) = rows[c]
  BY RowTypes DEF Recovered, Row, Final
<1>2. DOMAIN rows = 1 .. Len(rows) /\ Len(rows) \in Nat /\ Len(rows) <= MaxCommands
  BY RowTypes DEF TypeOK
<1>3. DOMAIN rows' = DOMAIN rows /\ \A c \in DOMAIN rows : rows'[c] = Recovered(rows[c])
  OBVIOUS
<1>4. rows' \in [DOMAIN rows -> Row]
  BY <1>1 DEF Recovered
<1>5. rows' \in Seq(Row) /\ Len(rows') = Len(rows)
  <2>1. rows' \in [1 .. Len(rows) -> Row]
    BY <1>2, <1>4
  <2>. QED  BY <1>2, <2>1
<1>6. \A c \in DOMAIN rows : rows'[c].session = rows[c].session
  BY <1>1, <1>3
<1>7. \A c \in DOMAIN rows : /\ rows'[c].status # "delivered"
                             /\ rows[c].status # "delivered" => rows'[c] = rows[c]
  BY <1>1, <1>3
<1>. QED  BY <1>2, <1>3, <1>5, <1>6, <1>7 DEF RowsKept
-----------------------------------------------------------------------------
\* Thread h is at pc with command c now; the others are where they were.
Moved(h, pc, c) ==
    /\ thread' \in [Thread -> Activity]
    /\ thread'[h].pc = pc /\ thread'[h].command = c
    /\ \A g \in Thread \ {h} : thread'[g] = thread[g]

Places == {"idle", "link", "deliver", "steering", "injected", "execute", "sending",
           "waiting", "clear", "drain", "cancelling"}

\* The three ways in which an action moves a thread.
LEMMA Moves ==
    ASSUME TypeOK, NEW h \in Thread, NEW pc \in Places, NEW c \in {0} \cup Command
    PROVE  /\ Goto(h, pc) => Moved(h, pc, thread[h].command)
           /\ Work(h, pc, c) => Moved(h, pc, c)
           /\ Rest(h) => Moved(h, "idle", 0)
           /\ \A delivery \in {"auto", "steer", "new_turn"} :
                 thread' = [thread EXCEPT ![h] = [Idle EXCEPT !.pc = pc, !.command = c,
                                                              !.delivery = delivery]] =>
                    Moved(h, pc, c)
           /\ \A retries \in {0} \cup Command :
                 thread' = [thread EXCEPT ![h] = [Idle EXCEPT !.pc = pc, !.command = c,
                                                              !.retries = retries]] =>
                    Moved(h, pc, c)
<1>1. thread \in [Thread -> Activity] /\ thread[h] \in Activity
  BY DEF TypeOK
<1>2. ASSUME NEW x \in Activity, thread' = [thread EXCEPT ![h] = x]
      PROVE  Moved(h, x.pc, x.command)
  BY <1>1, <1>2 DEF Moved
<1>3. ASSUME Goto(h, pc)
      PROVE  Moved(h, pc, thread[h].command)
  <2>. DEFINE x == [thread[h] EXCEPT !.pc = pc]
  <2>1. x \in Activity /\ x.pc = pc /\ x.command = thread[h].command
    BY <1>1 DEF Activity, Places
  <2>2. thread' = [thread EXCEPT ![h] = x]
    BY <1>3 DEF Goto
  <2>. HIDE DEF x
  <2>. QED  BY <1>2, <2>1, <2>2
<1>4. ASSUME Work(h, pc, c)
      PROVE  Moved(h, pc, c)
  <2>. DEFINE x == [Idle EXCEPT !.pc = pc, !.command = c]
  <2>1. x \in Activity /\ x.pc = pc /\ x.command = c
    BY DEF Activity, Places, Idle
  <2>2. thread' = [thread EXCEPT ![h] = x]
    BY <1>4 DEF Work
  <2>. HIDE DEF x
  <2>. QED  BY <1>2, <2>1, <2>2
<1>5. ASSUME Rest(h)
      PROVE  Moved(h, "idle", 0)
  <2>1. Idle \in Activity /\ Idle.pc = "idle" /\ Idle.command = 0
    BY DEF Activity, Idle
  <2>. QED  BY <1>2, <2>1, <1>5 DEF Rest
<1>6. ASSUME NEW delivery \in {"auto", "steer", "new_turn"},
             thread' = [thread EXCEPT ![h] = [Idle EXCEPT !.pc = pc, !.command = c,
                                                          !.delivery = delivery]]
      PROVE  Moved(h, pc, c)
  <2>. DEFINE x == [Idle EXCEPT !.pc = pc, !.command = c, !.delivery = delivery]
  <2>1. x \in Activity /\ x.pc = pc /\ x.command = c
    BY DEF Activity, Places, Idle
  <2>2. thread' = [thread EXCEPT ![h] = x]
    BY <1>6
  <2>. HIDE DEF x
  <2>. QED  BY <1>2, <2>1, <2>2
<1>7. ASSUME NEW retries \in {0} \cup Command,
             thread' = [thread EXCEPT ![h] = [Idle EXCEPT !.pc = pc, !.command = c,
                                                          !.retries = retries]]
      PROVE  Moved(h, pc, c)
  <2>. DEFINE x == [Idle EXCEPT !.pc = pc, !.command = c, !.retries = retries]
  <2>1. x \in Activity /\ x.pc = pc /\ x.command = c
    BY DEF Activity, Places, Idle
  <2>2. thread' = [thread EXCEPT ![h] = x]
    BY <1>7
  <2>. HIDE DEF x
  <2>. QED  BY <1>2, <2>1, <2>2
<1>. QED  BY <1>3, <1>4, <1>5, <1>6, <1>7

\* What a step of one thread has to do to keep the types.
LEMMA Typed ==
    ASSUME TypeOK, RowsKept, NEW h \in Thread, NEW pc, NEW c, Moved(h, pc, c),
           pc # "idle" => c \in DOMAIN rows',
           pc \in Locked => LockFree \/ thread[h].pc \in Locked,
           target' \in Session, runtime' \in Session \cup {None, Broken},
           active' \in {0} \cup DOMAIN rows', left' \subseteq DOMAIN rows', lost' \subseteq DOMAIN rows'
    PROVE  TypeOK'
<1>1. \A g \in Thread : thread'[g].pc # "idle" => thread'[g].command \in DOMAIN rows'
  BY DEF TypeOK, Moved, RowsKept
<1>2. \A f, g \in Thread : f # g => ~(thread'[f].pc \in Locked /\ thread'[g].pc \in Locked)
  BY DEF TypeOK, Moved, LockFree
<1>. QED  BY <1>1, <1>2 DEF TypeOK, Moved, RowsKept
-----------------------------------------------------------------------------
\* Where a thread has neither a turn nor the duty to look at the queue.
Outside == {"idle", "link", "deliver", "steering", "injected", "cancelling"}

\* A step of h that leaves the turn, the target and the runtime alone.
Quiet(h) ==
    /\ UNCHANGED <<target, runtime, active, lost>>
    /\ RowsKept
    /\ thread[h].pc \in Outside /\ thread'[h].pc \in Outside \cup {"execute"}
    /\ \A g \in Thread \ {h} : thread'[g] = thread[g]
    /\ thread'[h].pc = "steering" => active # 0
    /\ \A c \in DOMAIN rows' : rows'[c].status = "delivered" =>
          \/ /\ c \in DOMAIN rows /\ rows[c].status = "delivered"
             /\ thread[h].pc = "injected" => thread[h].command # c
          \/ thread'[h].pc = "injected" /\ thread'[h].command = c
    /\ left' \cap Pending' \subseteq left \cap Pending \/ active # 0

QuietAction(h) ==
    \/ Request(h)
    \/ Link(h) \/ Cancelled(h) \/ CheckTurn(h) \/ Steered(h) \/ Injected(h)

\* What keeps Pending small: a row that was not pending is not pending now,
\* unless nobody left it.
LEMMA PendingKept ==
    ASSUME TypeOK, RowsKept, target' = target, left' = left,
           \A c \in DOMAIN rows : rows'[c].status = "queued" => rows[c].status = "queued"
    PROVE  left' \cap Pending' \subseteq left \cap Pending
  BY DEF TypeOK, RowsKept, Pending

LEMMA MessageQuiet ==
    ASSUME TypeOK, NEW h \in Thread, NEW c \in Command, NEW session \in Session,
           NEW delivery \in {"auto", "steer", "new_turn", "queue"}, Message(h, c, session, delivery)
    PROVE  TypeOK' /\ Quiet(h)
<1>1. /\ RowsKept /\ c \in DOMAIN rows'
      /\ \A d \in DOMAIN rows : rows'[d] = rows[d]
      /\ \A d \in DOMAIN rows' \ DOMAIN rows : rows'[d].status = "queued"
  BY EnqueuedRows DEF Message
<1>2. PICK pc \in {"idle", "deliver"}, d \in {0} \cup Command :
         /\ Moved(h, pc, d)
         /\ pc # "idle" => d = c
  <2>1. CASE UNCHANGED thread
    <3>1. Moved(h, "idle", thread[h].command) /\ thread[h].command \in {0} \cup Command
      BY <2>1 DEF TypeOK, Activity, Moved, Message
    <3>. QED  BY <3>1
  <2>2. CASE ~UNCHANGED thread
    <3>1. /\ delivery \in {"auto", "steer", "new_turn"}
          /\ thread' = [thread EXCEPT ![h] = [Idle EXCEPT !.pc = "deliver", !.command = c,
                                                           !.delivery = delivery]]
      BY <2>2 DEF Message
    <3>2. Moved(h, "deliver", c)
      BY <3>1, Moves DEF Places
    <3>. QED  BY <3>2
  <2>. QED  BY <2>1, <2>2
<1>3. TypeOK'
  BY <1>1, <1>2, Typed DEF TypeOK, RowsKept, Message, history, Locked
<1>4. left' \cap Pending' \subseteq left \cap Pending
  BY <1>1, PendingKept DEF Message, history
<1>. QED  BY <1>1, <1>2, <1>3, <1>4 DEF Quiet, Outside, Moved, Message, history, TypeOK

LEMMA RetryQuiet ==
    ASSUME TypeOK, NEW h \in Thread, NEW failed \in Command, NEW c \in Command, Retry(h, failed, c)
    PROVE  TypeOK' /\ Quiet(h)
<1>0. failed \in DOMAIN rows /\ rows[failed].session \in Session
  BY RowTypes DEF Retry, Row
<1>1. /\ RowsKept /\ c \in DOMAIN rows'
      /\ \A d \in DOMAIN rows : rows'[d] = rows[d]
      /\ \A d \in DOMAIN rows' \ DOMAIN rows : rows'[d].status = "queued"
  BY <1>0, EnqueuedRows DEF Retry
<1>2. PICK pc \in {"idle", "link", "execute"}, d \in {0} \cup Command :
         /\ Moved(h, pc, d)
         /\ pc # "idle" => d = c
  <2>1. CASE UNCHANGED thread
    <3>1. Moved(h, "idle", thread[h].command) /\ thread[h].command \in {0} \cup Command
      BY <2>1 DEF TypeOK, Activity, Moved, Retry
    <3>. QED  BY <3>1
  <2>2. CASE ~UNCHANGED thread
    <3>1. PICK pc \in {"link", "execute"}, retries \in {0} \cup Command :
             thread' = [thread EXCEPT ![h] = [Idle EXCEPT !.pc = pc, !.command = c,
                                                          !.retries = retries]]
      <4>1. CASE rows'[c].retries = 0
        <5>1. thread' = [thread EXCEPT ![h] = [Idle EXCEPT !.pc = "link", !.command = c,
                                                           !.retries = failed]]
          BY <4>1 DEF Retry
        <5>. QED  BY <5>1
      <4>2. CASE rows'[c].retries # 0
        <5>1. thread' = [thread EXCEPT ![h] = [Idle EXCEPT !.pc = "execute", !.command = c,
                                                           !.retries = 0]]
          BY <4>2, <2>2 DEF Retry
        <5>. QED  BY <5>1
      <4>. QED  BY <4>1, <4>2
    <3>2. Moved(h, pc, c)
      BY <3>1, Moves DEF Places
    <3>. QED  BY <3>2
  <2>. QED  BY <2>1, <2>2
<1>3. TypeOK'
  BY <1>1, <1>2, Typed DEF TypeOK, RowsKept, Retry, history, Locked
<1>4. left' \cap Pending' \subseteq left \cap Pending
  BY <1>1, PendingKept DEF Retry, history
<1>. QED  BY <1>1, <1>2, <1>3, <1>4 DEF Quiet, Outside, Moved, Retry, history, TypeOK

LEMMA LinkQuiet ==
    ASSUME TypeOK, NEW h \in Thread, Link(h)
    PROVE  TypeOK' /\ Quiet(h)
<1>. DEFINE c == thread[h].command
            row == [rows[c] EXCEPT !.retries = thread[h].retries]
<1>1. c \in DOMAIN rows /\ c \in Command /\ rows[c] \in Row /\ thread[h].retries \in {0} \cup Command
  BY RowTypes DEF TypeOK, Activity, Link
<1>2. row \in Row /\ row.session = rows[c].session /\ row.status = rows[c].status
  BY <1>1 DEF Row
<1>3. rows' = [rows EXCEPT ![c] = row]
  BY DEF Link
<1>4. PICK pc \in {"idle", "execute"}, d \in {0} \cup Command :
         /\ Moved(h, pc, d)
         /\ pc # "idle" => d = c
  BY <1>1, Moves DEF Link, Places
<1>. HIDE DEF row
<1>5. /\ RowsKept /\ DOMAIN rows' = DOMAIN rows
      /\ \A e \in DOMAIN rows : rows'[e].status = rows[e].status
  BY <1>1, <1>2, <1>3, RowChanged
<1>. HIDE DEF c
<1>6. TypeOK'
  BY <1>1, <1>4, <1>5, Typed DEF TypeOK, Link, history, Locked
<1>7. left' \cap Pending' \subseteq left \cap Pending
  BY <1>5, PendingKept DEF Link, history
<1>. QED  BY <1>4, <1>5, <1>6, <1>7 DEF Quiet, Outside, Moved, Link, history

LEMMA DeliverQuiet ==
    ASSUME TypeOK, NEW h \in Thread, NEW c \in Command, Deliver(h, c)
    PROVE  TypeOK' /\ Quiet(h)
<1>1. Moved(h, "deliver", c)
  <2>1. thread' = [thread EXCEPT ![h] = [Idle EXCEPT !.pc = "deliver", !.command = c,
                                                     !.delivery = "new_turn"]]
    BY DEF Deliver
  <2>. QED  BY <2>1, Moves DEF Places
<1>2. RowsKept /\ rows' = rows /\ left' \cap Pending' \subseteq left \cap Pending
  BY DEF Deliver, history, RowsKept, TypeOK, Pending
<1>3. TypeOK'
  BY <1>1, <1>2, Typed DEF TypeOK, Deliver, history, Locked
<1>. QED  BY <1>1, <1>2, <1>3 DEF Quiet, Outside, Moved, Deliver, history

LEMMA InterruptQuiet ==
    ASSUME TypeOK, NEW h \in Thread, NEW c \in Command, Interrupt(h, c)
    PROVE  TypeOK' /\ Quiet(h)
<1>1. Moved(h, "cancelling", c)
  BY Moves DEF Interrupt, Places
<1>2. RowsKept /\ rows' = rows /\ left' \cap Pending' \subseteq left \cap Pending
  BY DEF Interrupt, history, RowsKept, TypeOK, Pending
<1>3. TypeOK'
  BY <1>1, <1>2, Typed DEF TypeOK, Interrupt, history
<1>. QED  BY <1>1, <1>2, <1>3 DEF Quiet, Outside, Moved, Interrupt, history

\* Cancelled and Injected record an outcome; so does a steer that is refused.
LEMMA OutcomeQuiet ==
    ASSUME TypeOK, NEW h \in Thread, NEW status \in Final,
           thread[h].pc \in {"cancelling", "injected", "steering"},
           rows' = Updated(thread[h].command, status), Rest(h),
           UNCHANGED <<target, runtime, active, history>>
    PROVE  TypeOK' /\ Quiet(h)
<1>. DEFINE c == thread[h].command
<1>1. c \in DOMAIN rows /\ rows[c] \in Row
  BY RowTypes DEF TypeOK
<1>2. Moved(h, "idle", 0)
  BY Moves DEF Places
<1>3. /\ RowsKept /\ DOMAIN rows' = DOMAIN rows
      /\ \A d \in DOMAIN rows \ {c} : rows'[d] = rows[d]
      /\ rows'[c].status = IF rows[c].status \in Final THEN rows[c].status ELSE status
  BY <1>1, UpdatedRows
<1>. HIDE DEF c
<1>4. TypeOK'
  BY <1>2, <1>3, Typed DEF TypeOK, history, Locked
<1>5. left' \cap Pending' \subseteq left \cap Pending
  BY <1>3, PendingKept DEF history, Final
<1>. QED  BY <1>2, <1>3, <1>4, <1>5 DEF Quiet, Outside, Moved, history, Final, c

LEMMA CheckTurnQuiet ==
    ASSUME TypeOK, NEW h \in Thread, CheckTurn(h)
    PROVE  TypeOK' /\ Quiet(h)
<1>. DEFINE c == thread[h].command
<1>1. c \in DOMAIN rows /\ c \in Command
  BY RowTypes DEF TypeOK, CheckTurn
<1>2. /\ RowsKept /\ rows' = rows
      /\ UNCHANGED <<target, runtime, active, lost>>
      /\ left' \subseteq left \cup {c}
      /\ left' = left \/ active # 0
  BY DEF CheckTurn, LeaveIt, history, RowsKept, TypeOK
<1>3. PICK pc \in {"idle", "steering", "execute"}, d \in {0} \cup Command :
         /\ Moved(h, pc, d)
         /\ pc # "idle" => d = c
         /\ pc = "steering" => active # 0
  BY <1>1, Moves DEF CheckTurn, Places
<1>. HIDE DEF c
<1>4. TypeOK'
  BY <1>1, <1>2, <1>3, Typed DEF TypeOK, CheckTurn
<1>5. left' \cap Pending' \subseteq left \cap Pending \/ active # 0
  BY <1>2, PendingKept
<1>. QED  BY <1>2, <1>3, <1>4, <1>5 DEF Quiet, Outside, Moved, CheckTurn

LEMMA SteeredQuiet ==
    ASSUME TypeOK, SteeringActive, NEW h \in Thread, Steered(h)
    PROVE  TypeOK' /\ Quiet(h)
<1>. DEFINE c == thread[h].command
<1>1. c \in DOMAIN rows /\ c \in Command /\ active # 0
  BY RowTypes DEF TypeOK, Steered, SteeringActive
<1>2. CASE rows' = Updated(c, "delivered") /\ Work(h, "injected", c) /\ UNCHANGED <<target, runtime, active, history>>
  <2>1. Moved(h, "injected", c)
    BY <1>1, <1>2, Moves DEF Places
  <2>2. /\ RowsKept /\ DOMAIN rows' = DOMAIN rows
        /\ \A d \in DOMAIN rows \ {c} : rows'[d] = rows[d]
    BY <1>1, <1>2, UpdatedRows
  <2>. HIDE DEF c
  <2>3. TypeOK'
    BY <1>1, <1>2, <2>1, <2>2, Typed DEF TypeOK, history, Steered, Locked
  <2>. QED  BY <1>1, <1>2, <2>1, <2>2, <2>3 DEF Quiet, Outside, Moved, history, Steered
<1>3. CASE rows' = Updated(c, "failed") /\ Rest(h) /\ UNCHANGED <<target, runtime, active, history>>
  BY <1>3, OutcomeQuiet DEF Steered, Final
<1>4. CASE Rest(h) /\ LeaveIt(h)
  <2>1. Moved(h, "idle", 0)
    BY <1>4, Moves DEF Places
  <2>2. /\ RowsKept /\ rows' = rows
        /\ UNCHANGED <<target, runtime, active, lost>>
        /\ left' = left \cup {c}
    BY <1>4 DEF LeaveIt, RowsKept, TypeOK
  <2>. HIDE DEF c
  <2>3. TypeOK'
    BY <1>1, <2>1, <2>2, Typed DEF TypeOK, Locked
  <2>. QED  BY <1>1, <2>1, <2>2, <2>3 DEF Quiet, Outside, Moved, Steered
<1>. QED  BY <1>2, <1>3, <1>4 DEF Steered

\* The steps that leave the turn alone: the requests, and what a command does
\* that does not come to a turn of its own.
LEMMA QuietActions ==
    ASSUME TypeOK, SteeringActive, NEW h \in Thread, QuietAction(h)
    PROVE  TypeOK' /\ Quiet(h)
<1>1. CASE Cancelled(h)
  BY <1>1, OutcomeQuiet DEF Cancelled, Final
<1>2. CASE Injected(h)
  BY <1>2, OutcomeQuiet DEF Injected, Final
<1>3. CASE Request(h)
  BY <1>3, MessageQuiet, RetryQuiet, DeliverQuiet, InterruptQuiet DEF Request
<1>4. CASE Link(h) \/ CheckTurn(h) \/ Steered(h)
  BY <1>4, LinkQuiet, CheckTurnQuiet, SteeredQuiet
<1>. QED  BY <1>1, <1>2, <1>3, <1>4 DEF QuietAction

\* A quiet step keeps the rest of the invariant.
LEMMA QuietKeeps ==
    ASSUME IInv, TypeOK', NEW h \in Thread, Quiet(h)
    PROVE  IInv'
<1>0. /\ \A g \in Thread : thread'[g].pc \in {"sending", "waiting", "clear"} =>
             thread'[g] = thread[g] /\ thread[g].command \in DOMAIN rows
      /\ \A c \in DOMAIN rows : rows'[c].session = rows[c].session
      /\ active' = active /\ runtime' = runtime
  BY DEF IInv, Quiet, Outside, RowsKept, TypeOK
<1>1. TurnUndisturbed'
  BY <1>0 DEF IInv, TurnUndisturbed
<1>2. DeliveredHasOwner'
  BY DEF IInv, DeliveredHasOwner, Quiet, Outside
<1>3. RuntimeOfTarget' /\ SteeringActive'
  BY DEF IInv, RuntimeOfTarget, SteeringActive, Quiet, Outside
<1>4. SendingAlone'
  BY DEF IInv, SendingAlone, Quiet, Outside, RowsKept, TypeOK
<1>5. ActiveHasThread'
  BY DEF IInv, ActiveHasThread, Quiet, Outside
<1>6. SomeoneLooks'
  <2>1. ASSUME NEW g \in Thread, Looks(g)
        PROVE  Looks(g)'
    BY <2>1 DEF IInv, Looks, Quiet, Outside, TypeOK, RowsKept
  <2>2. active # 0 => \E g \in Thread : Looks(g)
    BY DEF IInv, ActiveHasThread, Looks
  <2>. QED  BY <2>1, <2>2 DEF IInv, SomeoneLooks, Quiet
<1>. QED  BY <1>1, <1>2, <1>3, <1>4, <1>5, <1>6 DEF IInv
-----------------------------------------------------------------------------
(* The steps of a turn.                                                     *)

\* Without an active turn no thread has one.
LEMMA NoTurn ==
    ASSUME IInv, active = 0
    PROVE  \A g \in Thread : thread[g].pc \notin {"waiting", "clear", "steering"}
<1>1. \A g \in Thread : thread[g].pc # "idle" => thread[g].command # 0
  BY RowTypes DEF IInv, TypeOK, Command
<1>. QED  BY <1>1 DEF IInv, TurnUndisturbed, SteeringActive

\* A turn in the way sends the thread to the queue; otherwise the thread has the
\* lock, the target and the runtime for itself.
LEMMA ExecuteKeeps ==
    ASSUME IInv, NEW h \in Thread, Execute(h)
    PROVE  IInv'
<1>. DEFINE c == thread[h].command
<1>1. /\ c \in DOMAIN rows /\ c \in Command /\ rows[c] \in Row
      /\ thread[h].pc = "execute" /\ LockFree /\ TypeOK
  BY RowTypes DEF IInv, TypeOK, Execute
<1>2. CASE active # 0 /\ Goto(h, "drain") /\ LeaveIt(h)
  <2>1. Moved(h, "drain", c)
    BY <1>1, <1>2, Moves DEF Places
  <2>2. /\ RowsKept /\ UNCHANGED <<rows, target, runtime, active, lost>>
        /\ left' = left \cup {c}
    BY <1>1, <1>2 DEF LeaveIt, RowsKept, TypeOK
  <2>. HIDE DEF c
  <2>3. TypeOK'
    BY <1>1, <2>1, <2>2, Typed DEF TypeOK, Locked
  <2>4. TurnUndisturbed' /\ DeliveredHasOwner' /\ SendingAlone' /\ RuntimeOfTarget'
    BY <1>1, <2>1, <2>2 DEF IInv, Moved, TurnUndisturbed, DeliveredHasOwner, SendingAlone,
                            RuntimeOfTarget
  <2>5. ActiveHasThread' /\ SteeringActive'
    BY <1>1, <2>1, <2>2 DEF IInv, Moved, ActiveHasThread, SteeringActive
  <2>6. SomeoneLooks'
    BY <2>1 DEF SomeoneLooks, Looks, Moved
  <2>. QED  BY <2>3, <2>4, <2>5, <2>6 DEF IInv
<1>3. CASE /\ active = 0 /\ Work(h, "sending", c) /\ runtime' = Activated(rows[c].session)
           /\ target' = rows[c].session /\ rows' = Updated(c, "delivered")
           /\ UNCHANGED <<active, history>>
  <2>1. Moved(h, "sending", c)
    BY <1>1, <1>3, Moves DEF Places
  <2>2. /\ RowsKept /\ DOMAIN rows' = DOMAIN rows
        /\ \A d \in DOMAIN rows \ {c} : rows'[d] = rows[d]
    BY <1>1, <1>3, UpdatedRows
  <2>3. /\ target' = rows'[c].session /\ target' \in Session
        /\ runtime' \in {None, Broken, target'}
    BY <1>1, <1>3, <2>2 DEF IInv, RuntimeOfTarget, Activated, RowsKept, Row
  <2>4. UNCHANGED <<active, left, lost>>
    BY <1>3 DEF history
  <2>. HIDE DEF c
  <2>5. TypeOK'
    BY <1>1, <2>1, <2>2, <2>3, <2>4, Typed DEF TypeOK
  <2>6. \A g \in Thread : thread'[g].pc \notin {"waiting", "clear", "steering"}
    BY <1>3, <2>1, NoTurn DEF Moved
  <2>7. \A g \in Thread \ {h} : thread'[g].pc # "sending"
    BY <1>1, <2>1 DEF Moved, LockFree, Locked
  <2>8. DeliveredHasOwner'
    BY <1>1, <2>1, <2>2, <2>4 DEF IInv, DeliveredHasOwner, Moved
  <2>9. SomeoneLooks'
    BY <2>1 DEF SomeoneLooks, Looks, Moved
  <2>. QED  BY <1>3, <2>1, <2>3, <2>5, <2>6, <2>7, <2>8, <2>9
            DEF IInv, TurnUndisturbed, RuntimeOfTarget, SendingAlone, ActiveHasThread,
                SteeringActive, Moved
<1>. QED  BY <1>2, <1>3 DEF Execute, TurnFree

\* A request that fails leaves the queue to the threads that looked before.
LEMMA ActivateFailsKeeps ==
    ASSUME IInv, NEW h \in Thread, ActivateFails(h)
    PROVE  IInv'
<1>1. /\ thread[h].pc = "execute" /\ active = 0 /\ rows[thread[h].command].session # target
      /\ UNCHANGED <<rows, target, runtime, active, left, lost>> /\ TypeOK /\ RowsKept
  BY DEF IInv, TypeOK, RowsKept, ActivateFails, TurnFree, history
<1>2. Moved(h, "idle", 0)
  BY <1>1, Moves DEF ActivateFails, Places
<1>3. TypeOK'
  BY <1>1, <1>2, Typed DEF TypeOK, Locked
<1>4. TurnUndisturbed' /\ DeliveredHasOwner' /\ SendingAlone' /\ RuntimeOfTarget'
  BY <1>1, <1>2 DEF IInv, Moved, TurnUndisturbed, DeliveredHasOwner, SendingAlone, RuntimeOfTarget
<1>5. ActiveHasThread' /\ SteeringActive'
  BY <1>1, <1>2 DEF IInv, Moved, ActiveHasThread, SteeringActive
<1>6. SomeoneLooks'
  BY <1>1, <1>2 DEF IInv, SomeoneLooks, Looks, Moved, Pending
<1>. QED  BY <1>3, <1>4, <1>5, <1>6 DEF IInv

\* The turn begins in the runtime of its session, or the runtime stays idle.
LEMMA StartOrSendKeeps ==
    ASSUME IInv, NEW h \in Thread, StartOrSend(h)
    PROVE  IInv'
<1>. DEFINE c == thread[h].command
<1>1. /\ c \in DOMAIN rows /\ c \in Command /\ rows[c].session = target /\ target \in Session
      /\ thread[h].pc = "sending" /\ runtime \in {None, target} /\ active = 0 /\ TypeOK
  BY RowTypes DEF IInv, TypeOK, StartOrSend, SendingAlone, RuntimeOfTarget
<1>2. \A g \in Thread \ {h} : thread[g].pc \notin {"sending", "waiting", "clear", "steering"}
  BY <1>1, NoTurn DEF TypeOK, Locked
<1>3. UNCHANGED <<target, left, lost>>
  BY DEF StartOrSend, history
<1>4. CASE /\ runtime' = IF runtime = None THEN target ELSE runtime
           /\ active' = c /\ Goto(h, "waiting") /\ UNCHANGED rows
  <2>1. Moved(h, "waiting", c)
    BY <1>1, <1>4, Moves DEF Places
  <2>2. RowsKept /\ rows' = rows /\ runtime' = target
    BY <1>1, <1>4 DEF TypeOK, RowsKept
  <2>. HIDE DEF c
  <2>3. TypeOK'
    BY <1>1, <1>3, <1>4, <2>1, <2>2, Typed DEF TypeOK, Locked
  <2>4. TurnUndisturbed'
    BY <1>1, <1>2, <1>4, <2>1, <2>2 DEF TurnUndisturbed, Moved
  <2>5. DeliveredHasOwner'
    BY <1>1, <1>3, <2>1, <2>2 DEF IInv, DeliveredHasOwner, Moved, c
  <2>6. SendingAlone' /\ RuntimeOfTarget' /\ SteeringActive'
    BY <1>1, <1>2, <1>3, <2>1, <2>2 DEF SendingAlone, RuntimeOfTarget, SteeringActive, Moved
  <2>7. ActiveHasThread' /\ SomeoneLooks'
    BY <1>4, <2>1 DEF ActiveHasThread, SomeoneLooks, Looks, Moved
  <2>. QED  BY <2>3, <2>4, <2>5, <2>6, <2>7 DEF IInv
<1>5. CASE /\ rows' = Updated(c, "failed") /\ runtime' \in AfterFailure
           /\ Goto(h, "drain") /\ UNCHANGED active
  <2>1. Moved(h, "drain", c)
    BY <1>1, <1>5, Moves DEF Places
  <2>2. /\ RowsKept /\ DOMAIN rows' = DOMAIN rows
        /\ \A d \in DOMAIN rows \ {c} : rows'[d] = rows[d]
        /\ rows'[c].status # "delivered"
    BY <1>1, <1>5, UpdatedRows DEF Final
  <2>3. runtime' \in {None, Broken, target}
    BY <1>1, <1>5 DEF AfterFailure
  <2>. HIDE DEF c
  <2>4. TypeOK'
    BY <1>1, <1>3, <1>5, <2>1, <2>2, <2>3, Typed DEF TypeOK, Locked
  <2>5. \A g \in Thread : thread'[g].pc \notin {"sending", "waiting", "clear", "steering"}
    BY <1>2, <2>1 DEF Moved
  <2>6. DeliveredHasOwner'
    BY <1>1, <1>3, <2>1, <2>2 DEF IInv, DeliveredHasOwner, Moved, c
  <2>7. SomeoneLooks'
    BY <2>1 DEF SomeoneLooks, Looks, Moved
  <2>. QED  BY <1>1, <1>3, <1>5, <2>3, <2>4, <2>5, <2>6, <2>7
            DEF IInv, TurnUndisturbed, SendingAlone, RuntimeOfTarget, SteeringActive, ActiveHasThread
<1>. QED  BY <1>4, <1>5 DEF StartOrSend

\* The command is lost to its owner.
LEMMA NoSessionKeeps ==
    ASSUME IInv, NEW h \in Thread, NoSession(h)
    PROVE  IInv'
<1>. DEFINE c == thread[h].command
<1>1. /\ thread[h].pc = "sending" /\ runtime = Broken /\ c \in DOMAIN rows
      /\ UNCHANGED <<rows, target, runtime, active, left>> /\ lost' = lost \cup {c}
      /\ TypeOK /\ RowsKept
  BY DEF IInv, TypeOK, RowsKept, NoSession
<1>2. Moved(h, "idle", 0)
  BY <1>1, Moves DEF NoSession, Places
<1>. HIDE DEF c
<1>3. TypeOK'
  BY <1>1, <1>2, Typed DEF TypeOK, Locked
<1>4. TurnUndisturbed' /\ SendingAlone' /\ RuntimeOfTarget'
  BY <1>1, <1>2 DEF IInv, Moved, TurnUndisturbed, SendingAlone, RuntimeOfTarget
<1>5. DeliveredHasOwner'
  BY <1>1, <1>2 DEF IInv, Moved, DeliveredHasOwner, c
<1>6. ActiveHasThread' /\ SteeringActive' /\ SomeoneLooks'
  BY <1>1, <1>2 DEF IInv, Moved, ActiveHasThread, SteeringActive, SomeoneLooks
<1>. QED  BY <1>3, <1>4, <1>5, <1>6 DEF IInv

LEMMA WaitKeeps ==
    ASSUME IInv, NEW h \in Thread, Wait(h)
    PROVE  IInv'
<1>. DEFINE c == thread[h].command
<1>1. /\ thread[h].pc = "waiting" /\ c \in DOMAIN rows /\ c \in Command
      /\ UNCHANGED <<target, runtime, active, left, lost>> /\ TypeOK
  BY RowTypes DEF IInv, TypeOK, Wait, history
<1>2. Moved(h, "clear", c)
  BY <1>1, Moves DEF Wait, Places
<1>3. /\ RowsKept /\ DOMAIN rows' = DOMAIN rows
      /\ \A d \in DOMAIN rows \ {c} : rows'[d] = rows[d]
      /\ rows'[c].status # "delivered"
  <2>1. PICK status \in {"completed", "failed"} : rows' = Updated(c, status)
    BY DEF Wait
  <2>2. status \in Final /\ status \in Final \cup {"delivered"}
    BY DEF Final
  <2>. QED  BY <1>1, <2>1, <2>2, UpdatedRows DEF Final
<1>. HIDE DEF c
<1>4. TypeOK'
  BY <1>1, <1>2, <1>3, Typed DEF TypeOK, Locked
<1>5. TurnUndisturbed'
  BY <1>1, <1>2, <1>3 DEF IInv, TurnUndisturbed, Moved, RowsKept, TypeOK, c
<1>6. DeliveredHasOwner'
  BY <1>1, <1>2, <1>3 DEF IInv, DeliveredHasOwner, Moved, c
<1>7. SendingAlone' /\ RuntimeOfTarget' /\ SteeringActive'
  BY <1>1, <1>2, <1>3 DEF IInv, SendingAlone, RuntimeOfTarget, SteeringActive, Moved, RowsKept, TypeOK
<1>8. ActiveHasThread' /\ SomeoneLooks'
  BY <1>1, <1>2 DEF IInv, ActiveHasThread, SomeoneLooks, Looks, Moved, c
<1>. QED  BY <1>4, <1>5, <1>6, <1>7, <1>8 DEF IInv

\* The turn that is cleared is the only one, and its thread looks at the queue.
LEMMA ClearKeeps ==
    ASSUME IInv, NEW h \in Thread, Clear(h)
    PROVE  IInv'
<1>1. /\ thread[h].pc = "clear" /\ LockFree /\ active = thread[h].command
      /\ UNCHANGED <<rows, target, runtime, left, lost>> /\ TypeOK /\ RowsKept
      /\ thread[h].command \in Command
  BY RowTypes DEF IInv, TypeOK, RowsKept, Clear, TurnUndisturbed, history
<1>2. active' = 0
  BY <1>1 DEF Clear
<1>3. Moved(h, "drain", thread[h].command)
  BY <1>1, Moves DEF Clear, AfterTurn, Places
<1>4. TypeOK'
  BY <1>1, <1>2, <1>3, Typed DEF TypeOK, Locked
<1>5. \A g \in Thread : thread'[g].pc \notin {"sending", "waiting", "clear", "steering"}
  BY <1>1, <1>3 DEF IInv, TurnUndisturbed, Moved, LockFree, Locked
<1>6. DeliveredHasOwner'
  BY <1>1, <1>3 DEF IInv, DeliveredHasOwner, Moved
<1>7. SomeoneLooks'
  BY <1>3 DEF SomeoneLooks, Looks, Moved
<1>. QED  BY <1>1, <1>2, <1>4, <1>5, <1>6, <1>7
          DEF IInv, TurnUndisturbed, SendingAlone, RuntimeOfTarget, SteeringActive, ActiveHasThread

\* A thread stops looking only for a turn, which has a thread of its own, or
\* because nothing is pending.
LEMMA DrainKeeps ==
    ASSUME IInv, NEW h \in Thread, Drain(h)
    PROVE  IInv'
<1>1. /\ thread[h].pc = "drain"
      /\ UNCHANGED <<rows, target, runtime, active, left, lost>> /\ TypeOK /\ RowsKept
  BY DEF IInv, TypeOK, RowsKept, Drain, history
<1>2. PICK pc \in {"idle", "execute"}, c \in {0} \cup Command :
         /\ Moved(h, pc, c)
         /\ pc = "idle" => active # 0 \/ Pending = {}
         /\ pc = "execute" => c \in DOMAIN rows /\ rows[c].session = target
  <2>1. CASE (active # 0 \/ Pending = {}) /\ Rest(h)
    <3>1. Moved(h, "idle", 0)
      BY <1>1, <2>1, Moves DEF Places
    <3>. QED  BY <2>1, <3>1
  <2>2. CASE \E c \in Pending : Work(h, "execute", c)
    <3>1. PICK c \in Pending : Work(h, "execute", c)
      BY <2>2
    <3>2. c \in DOMAIN rows /\ c \in Command /\ rows[c].session = target
      BY <1>1, <3>1, RowTypes DEF Pending
    <3>3. Moved(h, "execute", c)
      BY <1>1, <3>1, <3>2, Moves DEF Places
    <3>. QED  BY <3>2, <3>3
  <2>. QED  BY <2>1, <2>2 DEF Drain
<1>3. TypeOK'
  BY <1>1, <1>2, Typed DEF TypeOK, Locked
<1>4. TurnUndisturbed' /\ DeliveredHasOwner' /\ SendingAlone' /\ RuntimeOfTarget'
  BY <1>1, <1>2 DEF IInv, Moved, TurnUndisturbed, DeliveredHasOwner, SendingAlone, RuntimeOfTarget
<1>5. ActiveHasThread' /\ SteeringActive'
  BY <1>1, <1>2 DEF IInv, Moved, ActiveHasThread, SteeringActive
<1>6. SomeoneLooks'
  <2>1. CASE pc = "execute"
    BY <1>1, <1>2, <2>1 DEF SomeoneLooks, Looks, Moved
  <2>2. CASE active # 0
    BY <1>5, <1>1, <2>2 DEF ActiveHasThread, SomeoneLooks, Looks
  <2>3. CASE Pending = {}
    BY <1>1, <2>3 DEF SomeoneLooks, Pending
  <2>. QED  BY <1>2, <2>1, <2>2, <2>3
<1>. QED  BY <1>3, <1>4, <1>5, <1>6 DEF IInv

LEMMA CancelQueuedKeeps ==
    ASSUME IInv, NEW c \in Command, CancelQueued(c)
    PROVE  IInv'
<1>. DEFINE row == [rows[c] EXCEPT !.status = "cancelled"]
<1>1. c \in DOMAIN rows /\ rows[c] \in Row /\ TypeOK
  BY RowTypes DEF IInv, CancelQueued
<1>2. row \in Row /\ row.session = rows[c].session /\ row.status = "cancelled"
  BY <1>1 DEF Row, Final
<1>3. rows' = [rows EXCEPT ![c] = row] /\ UNCHANGED <<target, runtime, active, thread, left, lost>>
  BY DEF CancelQueued, history
<1>. HIDE DEF row
<1>4. /\ RowsKept /\ DOMAIN rows' = DOMAIN rows /\ rows'[c].status = "cancelled"
      /\ \A d \in DOMAIN rows \ {c} : rows'[d] = rows[d]
  BY <1>1, <1>2, <1>3, RowChanged
<1>5. TypeOK'
  BY <1>1, <1>3, <1>4 DEF TypeOK, RowsKept
<1>6. TurnUndisturbed' /\ SendingAlone' /\ SteeringActive' /\ ActiveHasThread' /\ RuntimeOfTarget'
  BY <1>1, <1>3, <1>4 DEF IInv, TurnUndisturbed, SendingAlone, SteeringActive, ActiveHasThread,
                          RuntimeOfTarget, TypeOK, RowsKept
<1>7. DeliveredHasOwner'
  BY <1>3, <1>4 DEF IInv, DeliveredHasOwner
<1>8. SomeoneLooks'
  <2>1. left' \cap Pending' \subseteq left \cap Pending
    BY <1>1, <1>3, <1>4, PendingKept
  <2>2. ASSUME NEW g \in Thread, Looks(g)
        PROVE  Looks(g)'
    BY <1>1, <1>3, <1>4, <2>2 DEF Looks, TypeOK, RowsKept
  <2>. QED  BY <1>3, <2>1, <2>2 DEF IInv, SomeoneLooks
<1>. QED  BY <1>5, <1>6, <1>7, <1>8 DEF IInv

LEMMA RestartKeeps ==
    ASSUME IInv, Restart
    PROVE  IInv'
<1>1. /\ RowsKept /\ DOMAIN rows' = DOMAIN rows /\ TypeOK
      /\ \A c \in DOMAIN rows : rows'[c].status # "delivered"
  BY RecoveredRows DEF IInv, Restart
<1>2. /\ target' = First /\ runtime' = None /\ active' = 0 /\ left' = {} /\ lost' = {}
      /\ thread' = [g \in Thread |-> Idle] /\ Idle \in Activity /\ Idle.pc = "idle"
  BY DEF Restart, Idle, Activity
<1>3. \A g \in Thread : thread'[g].pc = "idle"
  BY <1>2
<1>4. TypeOK'
  BY <1>1, <1>2, <1>3, SessionAssumption DEF TypeOK, RowsKept, Locked
<1>. QED  BY <1>1, <1>2, <1>3, <1>4
          DEF IInv, TurnUndisturbed, DeliveredHasOwner, RuntimeOfTarget, SendingAlone,
              ActiveHasThread, SteeringActive, SomeoneLooks
-----------------------------------------------------------------------------
LEMMA InitInv == Init => IInv
<1>. SUFFICES ASSUME Init PROVE IInv
  OBVIOUS
<1>1. /\ rows = <<>> /\ target = First /\ runtime = None /\ active = 0 /\ left = {} /\ lost = {}
      /\ thread = [g \in Thread |-> Idle] /\ Idle \in Activity /\ Idle.pc = "idle"
  BY DEF Init, Idle, Activity
<1>2. \A g \in Thread : thread[g].pc = "idle"
  BY <1>1
<1>3. rows \in Seq(Row) /\ Len(rows) = 0 /\ DOMAIN rows = {}
  BY <1>1
<1>4. TypeOK
  BY <1>1, <1>2, <1>3, SessionAssumption, CommandsAssumption DEF TypeOK, Locked
<1>. QED  BY <1>1, <1>2, <1>3, <1>4
          DEF IInv, TurnUndisturbed, DeliveredHasOwner, RuntimeOfTarget, SendingAlone,
              ActiveHasThread, SteeringActive, SomeoneLooks

LEMMA InvStep == IInv /\ [Next]_vars => IInv'
<1>. SUFFICES ASSUME IInv, [Next]_vars PROVE IInv'
  OBVIOUS
<1>1. ASSUME NEW h \in Thread, QuietAction(h)
      PROVE  IInv'
  BY <1>1, QuietActions, QuietKeeps DEF IInv
<1>2. ASSUME NEW h \in Thread,
             Execute(h) \/ ActivateFails(h) \/ StartOrSend(h) \/ NoSession(h)
                \/ Wait(h) \/ Clear(h) \/ Drain(h)
      PROVE  IInv'
  BY <1>2, ExecuteKeeps, ActivateFailsKeeps, StartOrSendKeeps, NoSessionKeeps, WaitKeeps,
     ClearKeeps, DrainKeeps
<1>3. ASSUME NEW c \in Command, CancelQueued(c)
      PROVE  IInv'
  BY <1>3, CancelQueuedKeeps
<1>4. CASE Restart
  BY <1>4, RestartKeeps
<1>5. CASE UNCHANGED vars
  BY <1>5 DEF vars, history, IInv, TypeOK, TurnUndisturbed, DeliveredHasOwner, RuntimeOfTarget,
              SendingAlone, ActiveHasThread, SteeringActive, SomeoneLooks, Looks, Pending
<1>. QED  BY <1>1, <1>2, <1>3, <1>4, <1>5 DEF Next, Progress, QuietAction

\* The inductive invariant of the controller, for any number of threads,
\* sessions and commands.
THEOREM Invariance == Spec => []IInv
<1>. QED  BY InitInv, InvStep, PTL DEF Spec

\* A final status survives every step.
FinalKept == \A c \in DOMAIN rows : rows[c].status \in Final => rows'[c].status = rows[c].status

LEMMA FinalStep == TypeOK /\ [Next]_vars => FinalKept
<1>. SUFFICES ASSUME TypeOK, [Next]_vars PROVE FinalKept
  OBVIOUS
<1>1. ASSUME NEW c \in DOMAIN rows, NEW status \in Final \cup {"delivered"},
             rows' = Updated(c, status)
      PROVE  FinalKept
  BY <1>1, UpdatedRows DEF FinalKept
<1>2. ASSUME NEW h \in Thread, Request(h)
      PROVE  FinalKept
  <2>1. ASSUME NEW c \in Command, NEW session \in Session, Enqueued(c, session)
        PROVE  FinalKept
    BY <2>1, EnqueuedRows DEF FinalKept
  <2>2. ASSUME NEW failed \in Command, NEW c \in Command, Retry(h, failed, c)
        PROVE  FinalKept
    <3>1. rows[failed].session \in Session
      BY <2>2, RowTypes DEF Retry, Row
    <3>. QED  BY <2>1, <2>2, <3>1 DEF Retry
  <2>. QED  BY <1>2, <2>1, <2>2 DEF Request, Message, Deliver, Interrupt, FinalKept
<1>3. ASSUME NEW h \in Thread, Progress(h)
      PROVE  FinalKept
  <2>. DEFINE c == thread[h].command
  <2>1. thread[h].pc # "idle" => c \in DOMAIN rows /\ rows[c] \in Row
    BY RowTypes DEF TypeOK
  <2>2. CASE Link(h)
    <3>. DEFINE row == [rows[c] EXCEPT !.retries = thread[h].retries]
    <3>1. c \in DOMAIN rows /\ rows[c] \in Row /\ thread[h].retries \in {0} \cup Command
      BY <2>1, <2>2 DEF Link, TypeOK, Activity
    <3>2. row \in Row /\ row.session = rows[c].session /\ row.status = rows[c].status
      BY <3>1 DEF Row
    <3>3. rows' = [rows EXCEPT ![c] = row]
      BY <2>2 DEF Link
    <3>. HIDE DEF row, c
    <3>. QED  BY <3>1, <3>2, <3>3, RowChanged DEF FinalKept
  <2>3. CASE Cancelled(h) \/ Injected(h) \/ Wait(h)
    <3>1. PICK status \in Final : rows' = Updated(c, status)
      BY <2>3 DEF Cancelled, Injected, Wait, Final
    <3>. QED  BY <1>1, <2>1, <2>3, <3>1 DEF Cancelled, Injected, Wait
  <2>4. CASE CheckTurn(h) \/ ActivateFails(h) \/ NoSession(h) \/ Clear(h) \/ Drain(h)
    BY <2>4 DEF CheckTurn, ActivateFails, NoSession, Clear, Drain, LeaveIt, FinalKept
  <2>5. CASE Steered(h)
    BY <1>1, <2>1, <2>5 DEF Steered, LeaveIt, FinalKept, Final
  <2>6. CASE Execute(h)
    BY <1>1, <2>1, <2>6 DEF Execute, LeaveIt, FinalKept
  <2>7. CASE StartOrSend(h)
    BY <1>1, <2>1, <2>7 DEF StartOrSend, FinalKept, Final
  <2>. QED  BY <1>3, <2>2, <2>3, <2>4, <2>5, <2>6, <2>7 DEF Progress
<1>4. ASSUME NEW c \in Command, CancelQueued(c)
      PROVE  FinalKept
  <2>1. /\ rows[c].status \notin Final
        /\ \A d \in DOMAIN rows \ {c} : rows'[d] = rows[d]
    BY <1>4 DEF CancelQueued, Final
  <2>. QED  BY <2>1 DEF FinalKept
<1>5. CASE Restart
  <2>1. \A c \in DOMAIN rows : rows[c].status # "delivered" => rows'[c] = rows[c]
    BY <1>5, RecoveredRows DEF Restart
  <2>. QED  BY <2>1 DEF FinalKept, Final
<1>6. CASE UNCHANGED vars
  BY <1>6 DEF vars, FinalKept
<1>. QED  BY <1>2, <1>3, <1>4, <1>5, <1>6 DEF Next
-----------------------------------------------------------------------------
\* The shapes, and that one thread at most is in a Locked place: _lock excludes.
THEOREM TypeCorrect == Spec => []TypeOK
<1>1. IInv => TypeOK
  BY DEF IInv
<1>. QED  BY <1>1, Invariance, PTL

\* _execute: while a turn runs, its runtime is not closed or replaced, and no
\* other turn begins.
THEOREM TurnSafety == Spec => []TurnUndisturbed
<1>1. IInv => TurnUndisturbed
  BY DEF IInv
<1>. QED  BY <1>1, Invariance, PTL

\* recover_delivered and _execute: delivered commands have an owner.
THEOREM DeliveredOwned == Spec => []DeliveredHasOwner
<1>1. IInv => DeliveredHasOwner
  BY DEF IInv
<1>. QED  BY <1>1, Invariance, PTL

\* _drain_pending: no command that was left to the active turn is forgotten.
THEOREM LeftIsLookedFor == Spec => []NothingLeftBehind
<1>1. IInv => NothingLeftBehind
  BY DEF IInv, SomeoneLooks, Looks, NothingLeftBehind
<1>. QED  BY <1>1, Invariance, PTL

\* No command is lost sight of (NoneForgotten).
THEOREM EveryCommandKept == Spec => []NoneForgotten
<1>1. DeliveredHasOwner /\ NothingLeftBehind => NoneForgotten
  BY DEF NoneForgotten
<1>. QED  BY <1>1, DeliveredOwned, LeftIsLookedFor, PTL


\* CommandQueue.update: an outcome, once recorded, stays.
THEOREM OutcomesStay == Spec => OutcomeStays
<1>1. IInv /\ [Next]_vars => FinalKept
  BY FinalStep DEF IInv
<1>2. IInv /\ [Next]_vars =>
         [\A c \in DOMAIN rows : rows[c].status \in Final => rows'[c].status = rows[c].status]_vars
  BY <1>1 DEF FinalKept
<1>. QED  BY <1>2, Invariance, PTL DEF Spec, OutcomeStays
=============================================================================
