--------------------------- MODULE ClaudeSession ----------------------------
(***************************************************************************)
(* One Claude session (ClaudeCliRuntime, agent_runtime/claude.py) behind   *)
(* AgentRuntime (agent_runtime/service.py): threads start it, send prompts *)
(* and wait for their turns, and cancel the turn the facade remembers; the *)
(* reader thread of the connection hands in what the CLI says.             *)
(*                                                                         *)
(* A result of the CLI does not name the turn it ends: it is taken for the *)
(* active one.  Steps under _condition are atomic.  _discovery_lock is     *)
(* held by who is in start.  The threads below the connection, and what    *)
(* they do when it fails, are Transport's.                                 *)
(***************************************************************************)
EXTENDS Naturals, Sequences

CONSTANTS
    Caller,      \* threads
    MaxTurns,    \* bound on the turns
    Capacity,    \* lines that may wait for the CLI; a send beyond it is refused
    MaxWire      \* bound on what waits for the reader

VARIABLES
    adapter,     \* probe of the discovery, client, _closed, _session, _active_turn, turns so far
    results,     \* results[t]: the prompt whose result was taken for turn t, 0 if none
    cli,         \* lines it has not read, prompts it has, what it has written
    user,        \* user[c]: place of thread c, and its turn
    facade       \* _active_turns, and the turns with a completion in the event store

claudeVars == <<adapter, results, cli, user, facade>>

Turns == 1 .. MaxTurns
Resting == [pc |-> "idle", turn |-> 0]

ClaudeInit ==
    /\ adapter = [probe |-> "none", client |-> "none", closed |-> FALSE, session |-> FALSE,
                  turn |-> 0, top |-> 0]
    /\ results = [t \in Turns |-> 0]
    /\ cli = [lines |-> <<>>, prompts |-> <<>>, wire |-> <<>>]
    /\ user = [c \in Caller |-> Resting]
    /\ facade = [known |-> 0, ended |-> {}]

At(c, pc) == user[c].pc = pc
Goto(c, pc) == user' = [user EXCEPT ![c].pc = pc]
\* _discovery_lock
LockFree == \A c \in Caller : user[c].pc \notin {"connected", "confirm"}
Room == Len(cli.lines) < Capacity
Put(line) == cli' = [cli EXCEPT !.lines = Append(@, line)]
-----------------------------------------------------------------------------
(* The discovery, start and close.                                          *)

\* Once; the probe may outlive it, when its close fails.
Discover ==
    /\ LockFree
    /\ ~adapter.closed /\ adapter.client = "none" /\ adapter.probe = "none"
    /\ \E probe \in {"gone", "held"} : adapter' = [adapter EXCEPT !.probe = probe]
    /\ UNCHANGED <<results, cli, user, facade>>

\* Mutant of Startable: the probe that is still there is overlooked.
StartableBesides == ~adapter.closed /\ adapter.client = "none"
Startable == ~adapter.closed /\ adapter.client = "none" /\ adapter.probe # "held"

Connect(c) ==
    /\ At(c, "idle") /\ LockFree /\ Startable
    /\ adapter' = [adapter EXCEPT !.client = "up"]
    /\ Goto(c, "connected")
    /\ UNCHANGED <<results, cli, facade>>

\* The prompt goes out before the CLI confirms the session.
FirstPrompt(c) ==
    /\ At(c, "connected") /\ adapter.client = "up"
    /\ adapter' = [adapter EXCEPT !.turn = 1, !.top = 1]
    /\ Put([kind |-> "prompt", n |-> 1])
    /\ user' = [user EXCEPT ![c] = [pc |-> "confirm", turn |-> 1]]
    /\ UNCHANGED <<results, facade>>

Confirmed(c) ==
    /\ At(c, "confirm") /\ adapter.session /\ adapter.client = "up"
    /\ Goto(c, "sent")
    /\ UNCHANGED <<adapter, results, cli, facade>>

\* A refusal, a failure or a timeout ends the runtime.
GiveUp(c) ==
    /\ user[c].pc \in {"connected", "confirm"}
    /\ adapter' = [adapter EXCEPT !.client = "closed", !.closed = TRUE]
    /\ user' = [user EXCEPT ![c] = Resting]
    /\ UNCHANGED <<results, cli, facade>>

\* A close that fails keeps what it has not closed, and may be called again.
Close(c) ==
    /\ At(c, "idle") /\ LockFree
    /\ \E client \in IF adapter.client = "none" THEN {"none"} ELSE {adapter.client, "closed"} :
          adapter' = [adapter EXCEPT !.closed = TRUE, !.client = client,
                                     !.probe = IF client \in {"none", "closed"} THEN "gone" ELSE @]
    /\ facade' = [facade EXCEPT !.known = 0]
    /\ UNCHANGED <<results, cli, user>>
-----------------------------------------------------------------------------
(* send_message and wait.                                                   *)

\* Mutant of MaySend: a prompt may be sent while a turn is active.
MaySendMore == adapter.session /\ ~adapter.closed /\ adapter.client = "up"
MaySend == adapter.session /\ ~adapter.closed /\ adapter.client = "up" /\ adapter.turn = 0

\* The turn is active before its line is put; when there is no room it stays so.
SendMessage(c) ==
    /\ At(c, "idle") /\ LockFree /\ MaySend /\ adapter.top < MaxTurns
    /\ adapter' = [adapter EXCEPT !.turn = adapter.top + 1, !.top = @ + 1]
    /\ IF Room
       THEN /\ Put([kind |-> "prompt", n |-> adapter.top + 1])
            /\ user' = [user EXCEPT ![c] = [pc |-> "sent", turn |-> adapter.top + 1]]
       ELSE UNCHANGED <<cli, user>>
    /\ UNCHANGED <<results, facade>>

\* _remember, when the call has returned.
Remember(c) ==
    /\ At(c, "sent")
    /\ facade' = [facade EXCEPT !.known = user[c].turn]
    /\ Goto(c, "wait")
    /\ UNCHANGED <<adapter, results, cli>>

\* Mutant of Outcome: a failure is looked for before the result.
OutcomeIfUp(t) == IF results[t] # 0 /\ adapter.client = "up" THEN "given" ELSE "lost"
\* The result, if there is one; else the failure of the connection, or a timeout.
Outcome(t) == IF results[t] # 0 THEN "given" ELSE "lost"

Wait(c) ==
    /\ At(c, "wait") /\ Goto(c, Outcome(user[c].turn))
    /\ UNCHANGED <<adapter, results, cli, facade>>

Return(c) ==
    /\ user[c].pc \in {"given", "lost"} /\ user' = [user EXCEPT ![c] = Resting]
    /\ UNCHANGED <<adapter, results, cli, facade>>
-----------------------------------------------------------------------------
(* cancel of the facade, and interrupt.                                     *)

Cancel(c) ==
    /\ At(c, "idle") /\ facade.known # 0
    /\ IF facade.known \in facade.ended
       THEN facade' = [facade EXCEPT !.known = 0] /\ UNCHANGED user
       ELSE /\ user' = [user EXCEPT ![c] = [pc |-> "cancel", turn |-> facade.known]]
            /\ UNCHANGED facade
    /\ UNCHANGED <<adapter, results, cli>>

\* The turn is compared under _condition, the request is sent after it.  It names no
\* turn: the n of its line only records for which one it was sent.
Interrupt(c) ==
    /\ At(c, "cancel")
    /\ IF adapter.session /\ adapter.turn = user[c].turn
       THEN Goto(c, "interrupt")
       ELSE user' = [user EXCEPT ![c] = Resting]
    /\ UNCHANGED <<adapter, results, cli, facade>>

Control(c) ==
    /\ At(c, "interrupt")
    /\ IF adapter.client = "up" /\ Room
       THEN Put([kind |-> "interrupt", n |-> user[c].turn]) /\ Goto(c, "acknowledge")
       ELSE user' = [user EXCEPT ![c] = Resting] /\ UNCHANGED cli
    /\ UNCHANGED <<adapter, results, facade>>

\* The answer has come, or the time is over, or the connection has failed.
Acknowledged(c) ==
    /\ At(c, "acknowledge") /\ user' = [user EXCEPT ![c] = Resting]
    /\ UNCHANGED <<adapter, results, cli, facade>>
-----------------------------------------------------------------------------
(* The reader, and the CLI (external), which answers its prompts in order.  *)

Failed == adapter' = [adapter EXCEPT !.client = "failed"]
Read == cli' = [cli EXCEPT !.wire = Tail(@)]

ReadInit ==
    /\ adapter.client = "up" /\ cli.wire # <<>> /\ Head(cli.wire).kind = "init"
    /\ Read /\ adapter' = [adapter EXCEPT !.session = TRUE]
    /\ UNCHANGED <<results, user, facade>>

\* The event may fail to be stored, which ends the reader.
ReadResult ==
    /\ adapter.client = "up" /\ cli.wire # <<>> /\ Head(cli.wire).kind = "result"
    /\ Read
    /\ \/ /\ adapter.turn # 0
          /\ results' = [results EXCEPT ![adapter.turn] = Head(cli.wire).n]
          /\ facade' = [facade EXCEPT !.ended = @ \cup {adapter.turn}]
          /\ adapter' = [adapter EXCEPT !.turn = 0]
       \/ Failed /\ UNCHANGED <<results, facade>>
    /\ UNCHANGED user

Fail ==
    /\ adapter.client = "up" /\ Failed
    /\ UNCHANGED <<results, cli, user, facade>>

Says(message) == Append(cli.wire, message)

\* The first prompt is confirmed before it is answered.
TakePrompt ==
    /\ adapter.client = "up" /\ cli.lines # <<>> /\ Head(cli.lines).kind = "prompt"
    /\ cli' = [cli EXCEPT !.lines = Tail(@), !.prompts = Append(@, Head(cli.lines).n),
                          !.wire = IF Head(cli.lines).n = 1
                                   THEN Says([kind |-> "init", n |-> 0]) ELSE @]
    /\ UNCHANGED <<adapter, results, user, facade>>

TakeInterrupt ==
    /\ adapter.client = "up" /\ cli.lines # <<>> /\ Head(cli.lines).kind = "interrupt"
    /\ cli' = IF cli.prompts = <<>>
              THEN [cli EXCEPT !.lines = Tail(@)]
              ELSE [cli EXCEPT !.lines = Tail(@), !.prompts = Tail(@),
                               !.wire = Says([kind |-> "result", n |-> Head(cli.prompts)])]
    /\ UNCHANGED <<adapter, results, user, facade>>

Answer ==
    /\ adapter.client = "up" /\ cli.prompts # <<>> /\ Len(cli.wire) < MaxWire
    /\ cli' = [cli EXCEPT !.prompts = Tail(@),
                          !.wire = Says([kind |-> "result", n |-> Head(cli.prompts)])]
    /\ UNCHANGED <<adapter, results, user, facade>>

ClaudeNext ==
    \/ Discover \/ ReadInit \/ ReadResult \/ Fail \/ TakePrompt \/ TakeInterrupt \/ Answer
    \/ \E c \in Caller :
          \/ Connect(c) \/ FirstPrompt(c) \/ Confirmed(c) \/ GiveUp(c) \/ Close(c)
          \/ SendMessage(c) \/ Remember(c) \/ Wait(c) \/ Return(c)
          \/ Cancel(c) \/ Interrupt(c) \/ Control(c) \/ Acknowledged(c)

ClaudeSpec == ClaudeInit /\ [][ClaudeNext]_claudeVars
-----------------------------------------------------------------------------
\* Shapes; a turn that is active has begun, and has no result.
ClaudeTypeOK ==
    /\ adapter.probe \in {"none", "gone", "held"}
    /\ adapter.client \in {"none", "up", "failed", "closed"}
    /\ adapter.turn \in 0 .. adapter.top /\ adapter.top \in 0 .. MaxTurns
    /\ results \in [Turns -> 0 .. MaxTurns]
    /\ adapter.turn # 0 => results[adapter.turn] = 0
    /\ facade.known \in 0 .. adapter.top /\ facade.ended \subseteq 1 .. adapter.top
    /\ \A c \in Caller : user[c].turn \in 0 .. adapter.top

\* claude.py:347: a result names no turn, and is taken for that of its own prompt
\* all the same, whatever is interrupted, refused or timed out.
ResultsOwn == \A t \in Turns : results[t] \in {0, t}

\* claude.py:446: an interrupt is sent after the look at the active turn, and stops
\* whichever the CLI has then.  It may be a later turn than the one it was sent for,
\* never while that one is without its result.
StopsOwnOrLater ==
    cli.lines # <<>> /\ Head(cli.lines).kind = "interrupt" /\ cli.prompts # <<>>
        => LET n == Head(cli.lines).n
           IN  Head(cli.prompts) = n \/ (Head(cli.prompts) > n /\ results[n] = n)

\* claude.py:226: a session is not opened beside a probe that may still run.
OneProcess == adapter.probe = "held" => adapter.client = "none"

\* claude.py:434: a wait for a turn whose result was read gives that result, although
\* the connection has failed since.
ResultGiven ==
    \A c \in Caller : user[c].pc = "wait" /\ user'[c].pc = "lost" => results[user[c].turn] = 0
=============================================================================
