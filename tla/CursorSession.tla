--------------------------- MODULE CursorSession ----------------------------
(***************************************************************************)
(* One Cursor session (CursorAcpRuntime, agent_runtime/cursor.py): threads *)
(* start it, send prompts, wait for their turns and cancel them; each turn *)
(* has a thread of its own (_prompt), which waits for the response to its  *)
(* request; the reader thread of the connection hands in the updates.      *)
(*                                                                         *)
(* An update does not name the turn it belongs to: its text is added to    *)
(* the active one.  Steps under _condition are atomic.  _discovery_lock is *)
(* held by who is in start or close.                                       *)
(***************************************************************************)
EXTENDS Naturals, Sequences

CONSTANTS
    Caller,      \* threads
    MaxTurns,    \* bound on the turns
    Capacity,    \* lines that may wait for the agent; one more is refused
    MaxWire      \* bound on what waits for the reader, and on the updates of a prompt

VARIABLES
    adapter,     \* probe of the discovery, client, _closed, _session, _active_turn, turns so far
    results,     \* results[t]: how turn t has ended
    messages,    \* messages[t]: the prompts whose updates were added to turn t
    prompter,    \* prompter[t]: place of the thread of turn t
    cli,         \* lines it has not read, prompts it has, what it has written and said
    user         \* user[c]: place of thread c

cursorVars == <<adapter, results, messages, prompter, cli, user>>

Turns == 1 .. MaxTurns

CursorInit ==
    /\ adapter = [probe |-> "none", client |-> "none", closed |-> FALSE, session |-> FALSE,
                  turn |-> 0, top |-> 0]
    /\ results = [t \in Turns |-> "none"]
    /\ messages = [t \in Turns |-> <<>>]
    /\ prompter = [t \in Turns |-> "none"]
    /\ cli = [lines |-> <<>>, prompts |-> <<>>, wire |-> <<>>, said |-> [t \in Turns |-> 0]]
    /\ user = [c \in Caller |-> "idle"]

Goto(c, pc) == user' = [user EXCEPT ![c] = pc]
To(t, pc) == prompter' = [prompter EXCEPT ![t] = pc]
\* _discovery_lock
LockFree == \A c \in Caller : user[c] \notin {"connected", "opened"}
Room == Len(cli.lines) < Capacity
Put(line) == cli' = [cli EXCEPT !.lines = Append(@, line)]
-----------------------------------------------------------------------------
(* The discovery, start and close.                                          *)

\* Once; the probe may outlive it, when its close fails.
Discover ==
    /\ LockFree
    /\ ~adapter.closed /\ adapter.client = "none" /\ adapter.probe = "none"
    /\ \E probe \in {"gone", "held"} : adapter' = [adapter EXCEPT !.probe = probe]
    /\ UNCHANGED <<results, messages, prompter, cli, user>>

\* _connect of start: a new process, and what is agreed with it.
Connect(c) ==
    /\ user[c] = "idle" /\ LockFree
    /\ ~adapter.closed /\ adapter.client = "none" /\ adapter.probe # "held"
    /\ adapter' = [adapter EXCEPT !.client = "up"]
    /\ Goto(c, "connected")
    /\ UNCHANGED <<results, messages, prompter, cli>>

\* The session is confirmed, in the mode and with the model that were asked for.
Opened(c) ==
    /\ user[c] = "connected" /\ adapter.client = "up"
    /\ adapter' = [adapter EXCEPT !.session = TRUE]
    /\ Goto(c, "opened")
    /\ UNCHANGED <<results, messages, prompter, cli>>

\* What close may leave: it is called again when the process does not end.
AfterClose(client) == {client, "closed"}

GiveUp(c) ==
    /\ user[c] \in {"connected", "opened"}
    /\ \E client \in AfterClose(adapter.client) :
          adapter' = [adapter EXCEPT !.closed = TRUE, !.client = client]
    /\ Goto(c, "idle")
    /\ UNCHANGED <<results, messages, prompter, cli>>

Close(c) ==
    /\ user[c] = "idle" /\ LockFree
    /\ \E client \in IF adapter.client = "none" THEN {"none"} ELSE AfterClose(adapter.client) :
          adapter' = [adapter EXCEPT !.closed = TRUE, !.client = client,
                                     !.probe = IF client \in {"none", "closed"} THEN "gone" ELSE @]
    /\ UNCHANGED <<results, messages, prompter, cli, user>>
-----------------------------------------------------------------------------
(* send_message, the thread of a turn, wait and interrupt.                  *)

MaySend == adapter.session /\ adapter.client # "none" /\ ~adapter.closed /\ adapter.turn = 0

\* Also the last step of start.  That the connection has failed is not looked at.
SendMessage(c) ==
    /\ user[c] = "opened" \/ (user[c] = "idle" /\ LockFree)
    /\ MaySend /\ adapter.top < MaxTurns
    /\ adapter' = [adapter EXCEPT !.turn = adapter.top + 1, !.top = @ + 1]
    /\ To(adapter.top + 1, "begun")
    /\ Goto(c, "idle")
    /\ UNCHANGED <<results, messages, cli>>

\* The request is registered and its line put, or refused.
SendRequest(t) ==
    /\ prompter[t] = "begun"
    /\ IF adapter.client = "up" /\ Room
       THEN Put([kind |-> "prompt", n |-> t]) /\ To(t, "sent")
       ELSE To(t, "failed") /\ UNCHANGED cli
    /\ UNCHANGED <<adapter, results, messages, user>>

\* The time is over, or the connection has failed or been closed.
RequestFails(t) ==
    /\ prompter[t] = "sent" /\ To(t, "failed")
    /\ UNCHANGED <<adapter, results, messages, cli, user>>

\* The event of the completion fails to be published: the same end.
PublishFails(t) ==
    /\ prompter[t] = "answered" /\ To(t, "failed")
    /\ UNCHANGED <<adapter, results, messages, cli, user>>

\* Mutant of AfterFailure: the connection is kept for the next turn.
AfterFailureKept == {adapter}
\* A request that fails does not stop the agent: the connection is closed before the
\* turn ends.
AfterFailure ==
    {[adapter EXCEPT !.closed = TRUE, !.client = client] : client \in AfterClose(adapter.client)}

\* A close that fails ends the thread, and the turn has no result.
CloseAfterFailure(t) ==
    /\ prompter[t] = "failed" /\ LockFree
    /\ adapter' \in AfterFailure
    /\ \/ To(t, "closed")
       \/ adapter'.client # "closed" /\ To(t, "dead")
    /\ UNCHANGED <<results, messages, cli, user>>

Record(t) ==
    /\ prompter[t] \in {"answered", "closed"}
    /\ results' = [results EXCEPT ![t] = prompter[t]]
    /\ adapter' = [adapter EXCEPT !.turn = 0]
    /\ To(t, "over")
    /\ UNCHANGED <<messages, cli, user>>

\* Mutant of Cancellable: the turn is not compared with the active one.
CancellableAny(t) == adapter.session /\ adapter.client # "none"
Cancellable(t) == adapter.session /\ adapter.client # "none" /\ adapter.turn = t

\* Compared and sent under _condition.
Interrupt(t) ==
    /\ Cancellable(t) /\ adapter.client = "up" /\ Room
    /\ Put([kind |-> "cancel", n |-> t])
    /\ UNCHANGED <<adapter, results, messages, prompter, user>>
-----------------------------------------------------------------------------
(* The reader, and the agent (external), which works at one prompt a time.  *)

Reading == adapter.client = "up" /\ cli.wire # <<>>
Read == cli' = [cli EXCEPT !.wire = Tail(@)]

ReadUpdate ==
    /\ Reading /\ Head(cli.wire).kind = "update" /\ Read
    /\ messages' = IF adapter.turn = 0 THEN messages
                   ELSE [messages EXCEPT ![adapter.turn] = Append(@, Head(cli.wire).n)]
    /\ UNCHANGED <<adapter, results, prompter, user>>

\* A response that comes late finds no request.
ReadResponse ==
    /\ Reading /\ Head(cli.wire).kind = "response" /\ Read
    /\ LET t == Head(cli.wire).n
       IN  IF prompter[t] = "sent" THEN To(t, "answered") ELSE UNCHANGED prompter
    /\ UNCHANGED <<adapter, results, messages, user>>

Fail ==
    /\ adapter.client = "up" /\ adapter' = [adapter EXCEPT !.client = "failed"]
    /\ UNCHANGED <<results, messages, prompter, cli, user>>

TakePrompt ==
    /\ adapter.client = "up" /\ cli.lines # <<>> /\ Head(cli.lines).kind = "prompt"
    /\ cli' = [cli EXCEPT !.lines = Tail(@), !.prompts = Append(@, Head(cli.lines).n)]
    /\ UNCHANGED <<adapter, results, messages, prompter, user>>

Says(kind) == Append(cli.wire, [kind |-> kind, n |-> Head(cli.prompts)])

TakeCancel ==
    /\ adapter.client = "up" /\ cli.lines # <<>> /\ Head(cli.lines).kind = "cancel"
    /\ cli' = IF cli.prompts = <<>>
              THEN [cli EXCEPT !.lines = Tail(@)]
              ELSE [cli EXCEPT !.lines = Tail(@), !.prompts = Tail(@), !.wire = Says("response")]
    /\ UNCHANGED <<adapter, results, messages, prompter, user>>

Update ==
    /\ adapter.client = "up" /\ cli.prompts # <<>> /\ Len(cli.wire) < MaxWire
    /\ cli.said[Head(cli.prompts)] < MaxWire
    /\ cli' = [cli EXCEPT !.said[Head(cli.prompts)] = @ + 1, !.wire = Says("update")]
    /\ UNCHANGED <<adapter, results, messages, prompter, user>>

Respond ==
    /\ adapter.client = "up" /\ cli.prompts # <<>> /\ Len(cli.wire) < MaxWire
    /\ cli' = [cli EXCEPT !.prompts = Tail(@), !.wire = Says("response")]
    /\ UNCHANGED <<adapter, results, messages, prompter, user>>

CursorNext ==
    \/ Discover \/ ReadUpdate \/ ReadResponse \/ Fail
    \/ TakePrompt \/ TakeCancel \/ Update \/ Respond
    \/ \E c \in Caller : Connect(c) \/ Opened(c) \/ GiveUp(c) \/ Close(c) \/ SendMessage(c)
    \/ \E t \in Turns :
          \/ SendRequest(t) \/ RequestFails(t) \/ PublishFails(t) \/ CloseAfterFailure(t)
          \/ Record(t) \/ Interrupt(t)

CursorSpec == CursorInit /\ [][CursorNext]_cursorVars
-----------------------------------------------------------------------------
\* Shapes; one turn at a time has a thread that works for it.
CursorTypeOK ==
    /\ adapter.probe \in {"none", "gone", "held"}
    /\ adapter.client \in {"none", "up", "failed", "closed"}
    /\ adapter.turn \in 0 .. adapter.top /\ adapter.top \in 0 .. MaxTurns
    /\ results \in [Turns -> {"none", "answered", "closed"}]
    /\ \A t \in Turns : prompter[t] \notin {"none", "over"} => adapter.turn = t

\* cursor.py:309: an update names no turn, and is added to that of its own prompt all
\* the same; and a turn that ends with its response has all the updates before it.
MessagesOwn ==
    \A t \in Turns :
        /\ \A i \in DOMAIN messages[t] : messages[t][i] = t
        /\ results[t] = "answered" => Len(messages[t]) = cli.said[t]

\* cursor.py:430: what an interrupt of a turn stops is the prompt of that turn.
CancelOwn ==
    cli.lines # <<>> /\ Head(cli.lines).kind = "cancel" /\ cli.prompts # <<>>
        => Head(cli.prompts) = Head(cli.lines).n
=============================================================================
