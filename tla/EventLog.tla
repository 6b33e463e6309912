------------------------------ MODULE EventLog ------------------------------
(***************************************************************************)
(* One log of RuntimeEventStore (agent_runtime/events.py): the lines that  *)
(* end in a newline, and what follows the last newline.  Every operation   *)
(* runs under the file lock of the log, so what a writer leaves when it    *)
(* dies in the middle of a line is met by whoever opens the log next.      *)
(***************************************************************************)
EXTENDS Naturals, Sequences, SequencesExt

\* The tail is nothing, a whole event without its newline, or a torn one.
Nothing == 0
Torn == -1

EmptyLog == [lines |-> <<>>, tail |-> Nothing]

\* _read_locked: a tail that is a whole event gets its newline, a torn one is
\* set aside and cut off.
Recovered(log) ==
    [lines |-> IF log.tail > 0 THEN Append(log.lines, log.tail) ELSE log.lines, tail |-> Nothing]

\* append of an event whose event_id the log has is answered from the log; else
\* it gets the next sequence, which is its place.
Appended(log, event) ==
    LET lines == Recovered(log).lines
    IN  [lines |-> IF Contains(lines, event) THEN lines ELSE Append(lines, event),
         tail |-> Nothing]

\* The logs that a writer may leave that dies in append: it may have recovered
\* the tail or not, and written a part of the line, all of it, or nothing.
Interrupted(log, event) ==
    LET read == Recovered(log)
    IN  {log, read}
        \cup (IF Contains(read.lines, event) THEN {}
              ELSE {[read EXCEPT !.tail = Torn], [read EXCEPT !.tail = event]})

\* replay: at most limit events after the cursor.
Replay(log, after, limit) ==
    LET lines == Recovered(log).lines
        upto == IF after + limit < Len(lines) THEN after + limit ELSE Len(lines)
    IN  SubSeq(lines, after + 1, upto)
=============================================================================
