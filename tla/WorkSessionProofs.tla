------------------------- MODULE WorkSessionProofs --------------------------
(***************************************************************************)
(* Proofs about the views of a task's worker (WorkSessions). For each      *)
(* view: its shapes, its inductive invariant, one lemma for each kind of   *)
(* step, and what follows from the invariant. WorkProofs joins the views.  *)
(***************************************************************************)
EXTENDS WorkSessions, FiniteSetTheorems, TLAPS
-----------------------------------------------------------------------------
(* Sequences.                                                               *)

LEMMA Appending ==
    ASSUME NEW S, NEW s \in Seq(S), NEW x \in S
    PROVE  /\ Append(s, x) \in Seq(S) /\ Len(Append(s, x)) = Len(s) + 1
           /\ Len(s) \in Nat /\ DOMAIN s = 1 .. Len(s)
           /\ DOMAIN Append(s, x) = 1 .. Len(s) + 1
           /\ \A i \in DOMAIN s : i \in DOMAIN Append(s, x) /\ Append(s, x)[i] = s[i]
           /\ Append(s, x)[Len(s) + 1] = x
           /\ \A i \in DOMAIN Append(s, x) : i \in DOMAIN s \/ i = Len(s) + 1
  OBVIOUS

LEMMA Taking ==
    ASSUME NEW S, NEW s \in Seq(S), s # <<>>
    PROVE  /\ Head(s) \in S /\ Head(s) = s[1] /\ 1 \in DOMAIN s
           /\ Tail(s) \in Seq(S) /\ Len(Tail(s)) = Len(s) - 1
           /\ DOMAIN Tail(s) = 1 .. Len(s) - 1 /\ Len(s) \in Nat /\ DOMAIN s = 1 .. Len(s)
           /\ \A i \in DOMAIN Tail(s) : i + 1 \in DOMAIN s /\ Tail(s)[i] = s[i + 1] /\ i + 1 # 1
  OBVIOUS

LEMMA Elements ==
    ASSUME NEW S, NEW s \in Seq(S)
    PROVE  Len(s) \in Nat /\ DOMAIN s = 1 .. Len(s) /\ \A i \in 1 .. Len(s) : s[i] \in S
  OBVIOUS

LEMMA Cutting ==
    ASSUME NEW S, NEW s \in Seq(S), NEW m \in Nat, NEW n \in Nat, m <= n, n <= Len(s)
    PROVE  /\ SubSeq(s, m + 1, n) \in Seq(S) /\ Len(SubSeq(s, m + 1, n)) = n - m
           /\ DOMAIN SubSeq(s, m + 1, n) = 1 .. n - m
           /\ \A i \in 1 .. n - m : m + i \in 1 .. Len(s) /\ SubSeq(s, m + 1, n)[i] = s[m + i]
  OBVIOUS
-----------------------------------------------------------------------------
(* The tracked worker port (TrackedWorker).                                 *)

\* An event is known by its place: a log without gaps or repetition counts.
Counts(lines) == lines \in Seq(1 .. MaxEvents) /\ \A i \in DOMAIN lines : lines[i] = i

RunRecords ==
    [status : {"absent", "queued", "starting", "running", "waiting", "blocked"} \cup P!Final,
     cursor : 0 .. MaxEvents]
PortCalls ==
    [pc : {"idle", "delegate", "open", "copy", "raise"}, seen : {"none"} \cup P!Observed,
     page : Seq(1 .. MaxEvents), next : 0 .. MaxEvents]

Logged == P!Recovered(source).lines
Copies == P!Recovered(copy).lines

\* What is being copied follows what was copied, and ends where the cursor will be.
Paged ==
    call.pc = "copy" =>
        /\ Len(call.page) <= call.next /\ call.next <= Len(Logged)
        /\ call.next - Len(call.page) <= Len(Copies)
        /\ \A i \in DOMAIN call.page : call.page[i] = call.next - Len(call.page) + i

TrackedInv ==
    /\ record \in RunRecords /\ source \in P!Logs /\ copy \in P!Logs
    /\ worker \in {"none"} \cup P!Observed /\ call \in PortCalls
    /\ call.pc \in {"open", "copy"} => call.seen \in P!Observed
    /\ Counts(Logged) /\ Counts(Copies) /\ Counts(acked)
    /\ Len(acked) <= Len(Logged) /\ Len(Copies) <= Len(Logged)
    /\ record.cursor <= Len(Copies) /\ Paged

\* Logs.
LEMMA Recovering ==
    ASSUME NEW log \in P!Logs
    PROVE  /\ P!Recovered(log) \in P!Logs /\ P!Recovered(log).lines \in Seq(1 .. MaxEvents)
           /\ P!Recovered(log).tail = P!Nothing
           /\ P!Recovered(P!Recovered(log)) = P!Recovered(log)
<1>1. log.lines \in Seq(1 .. MaxEvents) /\ (log.tail > 0 => log.tail \in 1 .. MaxEvents)
  BY DEF P!Logs, P!Nothing, P!Torn
<1> DEFINE l == IF log.tail > 0 THEN Append(log.lines, log.tail) ELSE log.lines
<1>2. l \in Seq(1 .. MaxEvents)
  <2>1. CASE log.tail > 0
    BY <1>1, <2>1, Appending
  <2>2. CASE ~(log.tail > 0)
    BY <1>1, <2>2
  <2> QED BY <2>1, <2>2
<1>3. P!Recovered(log) = [lines |-> l, tail |-> 0]
  BY DEF P!Recovered, P!Nothing
<1> HIDE DEF l
<1>4. P!Recovered([lines |-> l, tail |-> 0]) = [lines |-> l, tail |-> 0]
  BY DEF P!Recovered, P!Nothing
<1> QED BY <1>2, <1>3, <1>4 DEF P!Logs, P!Nothing

LEMMA Counting ==
    ASSUME NEW lines, Counts(lines)
    PROVE  /\ Len(lines) \in 0 .. MaxEvents /\ DOMAIN lines = 1 .. Len(lines)
           /\ \A e \in 1 .. MaxEvents : P!Contains(lines, e) <=> e <= Len(lines)
           /\ \A e \in 1 .. MaxEvents : e = Len(lines) + 1 =>
                 Counts(Append(lines, e)) /\ Len(Append(lines, e)) = e
<1>1. lines \in Seq(1 .. MaxEvents) /\ Len(lines) \in Nat /\ DOMAIN lines = 1 .. Len(lines)
  BY DEF Counts
<1>2. Len(lines) \in 0 .. MaxEvents
  <2>1. CASE Len(lines) = 0
    BY <2>1, Bounds
  <2>2. CASE Len(lines) # 0
    <3>1. Len(lines) \in DOMAIN lines
      BY <1>1, <2>2
    <3>2. lines[Len(lines)] = Len(lines)
      BY <3>1 DEF Counts
    <3>3. \A i \in DOMAIN lines : lines[i] \in 1 .. MaxEvents
      BY <1>1, Elements
    <3>4. lines[Len(lines)] \in 1 .. MaxEvents
      BY <3>1, <3>3
    <3> QED BY <3>2, <3>4
  <2> QED BY <2>1, <2>2
<1>3. \A e \in 1 .. MaxEvents : P!Contains(lines, e) <=> e <= Len(lines)
  BY <1>1 DEF P!Contains, Counts
<1>4. ASSUME NEW e \in 1 .. MaxEvents, e = Len(lines) + 1
      PROVE  Counts(Append(lines, e)) /\ Len(Append(lines, e)) = e
  <2>1. /\ Append(lines, e) \in Seq(1 .. MaxEvents) /\ Len(Append(lines, e)) = e
        /\ Append(lines, e)[e] = e
        /\ \A i \in DOMAIN Append(lines, e) : i # e => i \in DOMAIN lines /\ Append(lines, e)[i] = lines[i]
    BY <1>1, <1>4
  <2> QED BY <2>1 DEF Counts
<1> QED BY <1>1, <1>2, <1>3, <1>4

\* An event is appended that the log has, or that is the next one.
LEMMA Adding ==
    ASSUME NEW log \in P!Logs, NEW e \in 1 .. MaxEvents, Counts(P!Recovered(log).lines),
           e <= Len(P!Recovered(log).lines) + 1
    PROVE  /\ P!Appended(log, e) \in P!Logs
           /\ P!Recovered(P!Appended(log, e)).lines = P!Appended(log, e).lines
           /\ Counts(P!Appended(log, e).lines)
           /\ Len(P!Appended(log, e).lines) =
                 IF e <= Len(P!Recovered(log).lines) THEN Len(P!Recovered(log).lines) ELSE e
<1> DEFINE lines == P!Recovered(log).lines
           l == IF P!Contains(lines, e) THEN lines ELSE Append(lines, e)
<1>1. P!Appended(log, e) = [lines |-> l, tail |-> 0]
  BY DEF P!Appended, P!Nothing
<1>2. Counts(l) /\ Len(l) = IF e <= Len(lines) THEN Len(lines) ELSE e
  <2> HIDE DEF lines
  <2>1. Len(lines) \in 0 .. MaxEvents
    BY Counting DEF lines
  <2>2. CASE e <= Len(lines)
    BY <2>2, Counting DEF lines
  <2>3. CASE ~(e <= Len(lines))
    <3>1. e = Len(lines) + 1
      BY <2>1, <2>3 DEF lines
    <3> QED BY <2>3, <3>1, Counting DEF lines
  <2> QED BY <2>2, <2>3
<1> HIDE DEF lines, l
<1>3. [lines |-> l, tail |-> 0] \in P!Logs
  BY <1>2 DEF P!Logs, Counts, P!Nothing
<1>4. P!Recovered([lines |-> l, tail |-> 0]).lines = l
  BY DEF P!Recovered
<1> QED BY <1>1, <1>2, <1>3, <1>4 DEF lines

\* Who dies in an append leaves the log with the event, or without it.
LEMMA Interrupting ==
    ASSUME NEW log \in P!Logs, NEW e \in 1 .. MaxEvents, Counts(P!Recovered(log).lines),
           e <= Len(P!Recovered(log).lines) + 1, NEW left \in P!Interrupted(log, e)
    PROVE  /\ left \in P!Logs /\ Counts(P!Recovered(left).lines)
           /\ Len(P!Recovered(left).lines) \in {Len(P!Recovered(log).lines), e}
           /\ Len(P!Recovered(log).lines) <= Len(P!Recovered(left).lines)
<1> DEFINE read == P!Recovered(log)
<1>1. read \in P!Logs /\ P!Recovered(read) = read /\ Counts(read.lines) /\ read.tail = 0
  BY Recovering DEF P!Nothing
<1>2. Len(read.lines) \in 0 .. MaxEvents
  BY Counting
<1>3. CASE left \in {log, read}
  BY <1>1, <1>2, <1>3
<1>4. CASE left = [read EXCEPT !.tail = P!Torn]
  <2> HIDE DEF read
  <2>1. left \in P!Logs
    BY <1>1, <1>4 DEF P!Logs
  <2>2. left.lines = read.lines /\ left.tail = -1
    BY <1>1, <1>4 DEF P!Logs, P!Torn
  <2>3. P!Recovered(left).lines = read.lines
    BY <2>2 DEF P!Recovered
  <2> QED BY <1>1, <1>2, <2>1, <2>3 DEF read
<1>5. CASE left = [read EXCEPT !.tail = e] /\ ~P!Contains(read.lines, e)
  <2>1. e = Len(read.lines) + 1
    BY <1>1, <1>2, <1>5, Counting
  <2>2. Counts(Append(read.lines, e)) /\ Len(Append(read.lines, e)) = e
    BY <1>1, <2>1, Counting
  <2> HIDE DEF read
  <2>3. left \in P!Logs
    BY <1>1, <1>5 DEF P!Logs
  <2>4. left.lines = read.lines /\ left.tail = e
    BY <1>1, <1>5 DEF P!Logs
  <2>5. P!Recovered(left).lines = Append(read.lines, e)
    BY <2>4 DEF P!Recovered
  <2> QED BY <1>2, <2>1, <2>2, <2>3, <2>5 DEF read
<1> QED BY <1>3, <1>4, <1>5 DEF P!Interrupted

LEMMA TrackedStart == ASSUME P!TrackedInit PROVE TrackedInv
<1>1. <<>> \in Seq(1 .. MaxEvents) /\ Len(<<>>) = 0 /\ DOMAIN <<>> = {} /\ 0 \in 0 .. MaxEvents
  BY Bounds
<1>2. Counts(<<>>) /\ P!EmptyLog \in P!Logs /\ P!EmptyLog.lines = <<>> /\ P!EmptyLog.tail = 0
  BY <1>1 DEF Counts, P!EmptyLog, P!Logs, P!Nothing
<1>3. P!Recovered(P!EmptyLog).lines = <<>>
  BY <1>2 DEF P!Recovered
<1>4. record \in RunRecords /\ record.cursor = 0
  BY <1>1 DEF P!TrackedInit, RunRecords
<1>5. call \in PortCalls /\ call.pc = "idle"
  BY <1>1 DEF P!TrackedInit, P!NoCall, PortCalls
<1>6. /\ source = P!EmptyLog /\ copy = P!EmptyLog /\ worker = "none" /\ acked = <<>>
      /\ Logged = <<>> /\ Copies = <<>>
  BY <1>3 DEF P!TrackedInit, Logged, Copies
<1> QED BY <1>1, <1>2, <1>4, <1>5, <1>6 DEF TrackedInv, Paged

LEMMA TrackedFields ==
    ASSUME TrackedInv
    PROVE  /\ record \in RunRecords /\ source \in P!Logs /\ copy \in P!Logs
           /\ worker \in {"none"} \cup P!Observed /\ call \in PortCalls
           /\ call.seen \in {"none"} \cup P!Observed
           /\ record.cursor \in 0 .. MaxEvents /\ call.page \in Seq(1 .. MaxEvents)
           /\ call.next \in 0 .. MaxEvents
           /\ Counts(Logged) /\ Counts(Copies) /\ Counts(acked)
           /\ Len(acked) \in 0 .. MaxEvents /\ Len(Logged) \in 0 .. MaxEvents
           /\ Len(Copies) \in 0 .. MaxEvents
           /\ Len(acked) <= Len(Logged) /\ Len(Copies) <= Len(Logged)
           /\ record.cursor <= Len(Copies)
<1>1. Counts(Logged) /\ Counts(Copies) /\ Counts(acked)
  BY DEF TrackedInv
<1>2. /\ Len(acked) \in 0 .. MaxEvents /\ Len(Logged) \in 0 .. MaxEvents
      /\ Len(Copies) \in 0 .. MaxEvents
  BY <1>1, Counting
<1> QED BY <1>1, <1>2 DEF TrackedInv, RunRecords, PortCalls

\* The call goes on, or ends; the logs stay.
LEMMA TrackedCalls ==
    ASSUME TrackedInv, UNCHANGED <<copy, acked>>, source' \in P!Logs, Logged' = Logged,
           record' \in RunRecords, record'.cursor <= Len(Copies),
           worker' \in {"none"} \cup P!Observed, call' \in PortCalls,
           call'.pc \in {"open", "copy"} => call'.seen \in P!Observed, Paged'
    PROVE  TrackedInv'
<1>1. Copies' = Copies
  BY DEF Copies
<1> QED BY <1>1 DEF TrackedInv

LEMMA NoCallOK == P!NoCall \in PortCalls /\ P!NoCall.pc = "idle"
<1>1. <<>> \in Seq(1 .. MaxEvents) /\ 0 \in 0 .. MaxEvents
  BY Bounds
<1> QED BY <1>1 DEF P!NoCall, PortCalls

LEMMA TrackedPrepare == ASSUME TrackedInv, P!Prepare \/ P!Again PROVE TrackedInv'
<1>1. UNCHANGED <<source, copy, acked, worker>> /\ Logged' = Logged
  BY DEF P!Prepare, P!Again, Logged
<1>2. record' \in RunRecords /\ record'.cursor = record.cursor
  BY TrackedFields DEF P!Prepare, P!Again, RunRecords
<1>3. call' \in {call, [P!NoCall EXCEPT !.pc = "delegate"]} /\ call = P!NoCall
  BY DEF P!Prepare, P!Again
<1>4. call' \in PortCalls /\ call'.pc \in {"idle", "delegate"}
  BY <1>3, NoCallOK DEF PortCalls
<1> QED BY <1>1, <1>2, <1>4, TrackedFields, TrackedCalls DEF Paged

LEMMA TrackedDelegate == ASSUME TrackedInv, P!Delegate PROVE TrackedInv'
<1>1. UNCHANGED <<record, source, copy, acked>> /\ Logged' = Logged
  BY DEF P!Delegate, Logged
<1>2. worker' \in {"none"} \cup P!Observed /\ (worker' = "none" => worker = "none")
  BY TrackedFields DEF P!Delegate, P!Observed
<1>3. call' \in PortCalls /\ call'.pc \in {"open", "raise"} /\ (call'.pc = "open" => call'.seen \in P!Observed)
  <2>1. CASE worker' = (IF worker = "none" THEN "running" ELSE worker) /\ call' = [call EXCEPT !.pc = "open", !.seen = worker']
    <3>1. worker' \in P!Observed
      BY <2>1, TrackedFields DEF P!Observed
    <3> QED BY <2>1, <3>1, TrackedFields DEF PortCalls
  <2>2. CASE call' = [call EXCEPT !.pc = "raise"]
    BY <2>2, TrackedFields DEF PortCalls
  <2> QED BY <2>1, <2>2 DEF P!Delegate
<1> QED BY <1>1, <1>2, <1>3, TrackedFields, TrackedCalls DEF Paged

\* A page follows the cursor.
LEMMA TrackedOpen == ASSUME TrackedInv, P!Open PROVE TrackedInv'
<1> DEFINE at == record.cursor
           page == P!Replay(source, at, Limit)
           upto == IF at + Limit < Len(Logged) THEN at + Limit ELSE Len(Logged)
<1>1. /\ source' = P!Recovered(source) /\ UNCHANGED <<record, copy, acked, worker>> /\ call.pc = "open"
      /\ call' = [call EXCEPT !.pc = "copy", !.page = page, !.next = at + Len(page)]
  BY DEF P!Open
<1>2. source' \in P!Logs /\ Logged' = Logged
  BY <1>1, TrackedFields, Recovering DEF Logged
<1>3. page = SubSeq(Logged, at + 1, upto)
  BY DEF P!Replay, Logged
<1>4. at \in Nat /\ upto \in Nat /\ at <= upto /\ upto <= Len(Logged) /\ upto \in 0 .. MaxEvents
  BY TrackedFields, Bounds
<1>5. /\ page \in Seq(1 .. MaxEvents) /\ Len(page) = upto - at
      /\ \A i \in DOMAIN page : page[i] = at + i
  <2> HIDE DEF upto, page, at
  <2>1. /\ Logged \in Seq(1 .. MaxEvents) /\ DOMAIN Logged = 1 .. Len(Logged)
        /\ \A i \in DOMAIN Logged : Logged[i] = i
    BY TrackedFields, Elements DEF Counts
  <2>2. /\ SubSeq(Logged, at + 1, upto) \in Seq(1 .. MaxEvents)
        /\ Len(SubSeq(Logged, at + 1, upto)) = upto - at
        /\ DOMAIN SubSeq(Logged, at + 1, upto) = 1 .. upto - at
        /\ \A i \in 1 .. upto - at :
              at + i \in 1 .. Len(Logged) /\ SubSeq(Logged, at + 1, upto)[i] = Logged[at + i]
    BY <1>4, <2>1, Cutting, ZenonT(40)
  <2> QED BY <1>3, <2>1, <2>2
<1> HIDE DEF page, upto, at
<1>6. at + Len(page) = upto
  BY <1>4, <1>5
<1>7. call' \in PortCalls
  BY <1>1, <1>4, <1>5, <1>6, TrackedFields DEF PortCalls
<1>8. call'.pc = "copy" /\ call'.page = page /\ call'.next = upto /\ call'.seen = call.seen
  BY <1>1, <1>6, TrackedFields DEF PortCalls
<1>9. at <= Len(Copies)
  BY TrackedFields DEF at
<1>10. Paged'
  <2>1. Copies' = Copies
    BY <1>1 DEF Copies
  <2> QED BY <1>2, <1>4, <1>5, <1>8, <1>9, <2>1 DEF Paged
<1>11. call.seen \in P!Observed
  BY <1>1 DEF TrackedInv
<1> QED BY <1>1, <1>2, <1>7, <1>8, <1>10, <1>11, TrackedFields, TrackedCalls

\* The first event of what is being copied is in the log, or the next one.
LEMMA TrackedPage ==
    ASSUME TrackedInv, call.pc = "copy", call.page # <<>>
    PROVE  /\ Head(call.page) \in 1 .. MaxEvents /\ Head(call.page) <= Len(Copies) + 1
           /\ Head(call.page) <= Len(Logged) /\ Head(call.page) = call.next - Len(call.page) + 1
<1>1. call.page \in Seq(1 .. MaxEvents) /\ call.next \in Nat /\ Len(Copies) \in Nat /\ Len(Logged) \in Nat
  BY TrackedFields
<1>2. 1 \in DOMAIN call.page /\ Head(call.page) = call.page[1] /\ Len(call.page) \in Nat \ {0}
      /\ Head(call.page) \in 1 .. MaxEvents
  <2>1. /\ 1 \in DOMAIN call.page /\ Head(call.page) = call.page[1] /\ Len(call.page) \in Nat
        /\ Head(call.page) \in 1 .. MaxEvents /\ DOMAIN call.page = 1 .. Len(call.page)
    BY <1>1, Taking
  <2> QED BY <2>1
<1>3. /\ call.page[1] = call.next - Len(call.page) + 1
      /\ call.next - Len(call.page) <= Len(Copies) /\ call.next <= Len(Logged)
  BY <1>2 DEF TrackedInv, Paged
<1> QED BY <1>1, <1>2, <1>3

LEMMA TrackedCopy == ASSUME TrackedInv, P!Copy PROVE TrackedInv'
<1> DEFINE e == Head(call.page)
<1>1. call.pc = "copy" /\ call.page # <<>> /\ UNCHANGED <<record, source, acked, worker>> /\ Logged' = Logged
  BY DEF P!Copy, Logged
<1>2. e \in 1 .. MaxEvents /\ e <= Len(Copies) + 1 /\ e <= Len(Logged) /\ e = call.next - Len(call.page) + 1
  BY <1>1, TrackedPage
<1>3. CASE copy' = P!Copied(e) /\ call' = [call EXCEPT !.page = Tail(call.page)]
  <2>1. copy' = P!Appended(copy, e)
    BY <1>3 DEF P!Copied
  <2>2. /\ copy' \in P!Logs /\ Counts(Copies')
        /\ Len(Copies') = IF e <= Len(Copies) THEN Len(Copies) ELSE e
    <3>1. P!Recovered(copy').lines = Copies'
      BY DEF Copies
    <3> QED BY <1>2, <2>1, <3>1, TrackedFields, Adding DEF Copies
  <2>3. /\ Tail(call.page) \in Seq(1 .. MaxEvents) /\ Len(Tail(call.page)) = Len(call.page) - 1
        /\ \A i \in DOMAIN Tail(call.page) : i + 1 \in DOMAIN call.page /\ Tail(call.page)[i] = call.page[i + 1]
        /\ DOMAIN Tail(call.page) = 1 .. Len(call.page) - 1
    BY <1>1, TrackedFields, Taking
  <2>4. call' \in PortCalls
    BY <1>3, <2>3, TrackedFields DEF PortCalls
  <2>5. call'.pc = "copy" /\ call'.page = Tail(call.page) /\ call'.next = call.next /\ call'.seen = call.seen
    BY <1>1, <1>3, TrackedFields DEF PortCalls
  <2>6. /\ Len(Copies) <= Len(Copies') /\ Len(Copies') <= Len(Logged) /\ e <= Len(Copies')
        /\ Len(Copies') \in Nat
    BY <1>2, <2>2, TrackedFields
  <2>7. Paged'
    <3>1. /\ Len(call.page) <= call.next /\ call.next <= Len(Logged)
          /\ \A i \in DOMAIN call.page : call.page[i] = call.next - Len(call.page) + i
          /\ call.next \in Nat /\ Len(call.page) \in Nat
      BY <1>1, TrackedFields DEF TrackedInv, Paged
    <3>2. \A i \in DOMAIN call'.page : i \in Nat /\ call'.page[i] = call'.next - Len(call'.page) + i
      <4> SUFFICES ASSUME NEW i \in DOMAIN Tail(call.page)
                   PROVE  i \in Nat /\ Tail(call.page)[i] = call.next - Len(Tail(call.page)) + i
        BY <2>5
      <4>1. i \in 1 .. Len(call.page) - 1 /\ i + 1 \in DOMAIN call.page /\ Tail(call.page)[i] = call.page[i + 1]
        BY <2>3
      <4>2. call.page[i + 1] = call.next - Len(call.page) + (i + 1)
        BY <3>1, <4>1
      <4> DEFINE tail == Tail(call.page)
      <4>3. /\ Len(tail) = Len(call.page) - 1 /\ Len(call.page) \in Nat /\ call.next \in Nat
            /\ tail[i] = call.next - Len(call.page) + (i + 1) /\ i \in 1 .. Len(call.page) - 1
        BY <2>3, <3>1, <4>1, <4>2
      <4> HIDE DEF tail
      <4>4. i \in Nat /\ tail[i] = call.next - Len(tail) + i
        BY <4>3
      <4> QED BY <4>4 DEF tail
    <3>3. Len(call'.page) <= call'.next /\ call'.next <= Len(Logged') /\ call'.next - Len(call'.page) <= Len(Copies')
      BY <1>1, <1>2, <2>3, <2>5, <2>6, <3>1
    <3> QED BY <3>2, <3>3 DEF Paged
  <2>8. call.seen \in P!Observed /\ record.cursor <= Len(Copies')
    BY <1>1, <2>6, TrackedFields DEF TrackedInv
  <2> QED BY <1>1, <2>2, <2>4, <2>5, <2>6, <2>7, <2>8 DEF TrackedInv
<1>4. CASE call' = [call EXCEPT !.pc = "raise"] /\ UNCHANGED copy
  <2>1. call' \in PortCalls /\ call'.pc = "raise"
    BY <1>4, TrackedFields DEF PortCalls
  <2> QED BY <1>1, <1>4, <2>1, TrackedFields, TrackedCalls DEF Paged
<1> QED BY <1>3, <1>4 DEF P!Copy

LEMMA TrackedSave == ASSUME TrackedInv, P!Save \/ P!Raise PROVE TrackedInv'
<1>1. UNCHANGED <<source, copy, acked, worker>> /\ Logged' = Logged /\ call' = P!NoCall
  BY DEF P!Save, P!Raise, Logged
<1>2. record' \in RunRecords /\ record'.cursor <= Len(Copies)
  <2>1. CASE P!Save
    <3>1. call.pc = "copy" /\ call.page = <<>>
      BY <2>1 DEF P!Save
    <3>2. call.next <= Len(Copies) /\ call.seen \in P!Observed
      <4>1. call.next - Len(call.page) <= Len(Copies) /\ call.seen \in P!Observed
        BY <3>1 DEF TrackedInv, Paged
      <4>2. Len(call.page) = 0
        BY <3>1
      <4> QED BY <4>1, <4>2, TrackedFields
    <3>3. P!StatusOf(call.seen) \in {"absent", "queued", "starting", "running", "waiting", "blocked"} \cup P!Final
      BY <3>2 DEF P!StatusOf, P!Observed, P!Final
    <3>4. [status |-> P!StatusOf(call.seen), cursor |-> call.next] \in RunRecords
      BY <3>3, TrackedFields DEF RunRecords
    <3>5. record' \in {record, [status |-> P!StatusOf(call.seen), cursor |-> call.next]}
      BY <2>1 DEF P!Save
    <3> QED BY <3>2, <3>4, <3>5, TrackedFields
  <2>2. CASE P!Raise
    <3>1. record' = [record EXCEPT !.status = "waiting"]
      BY <2>2 DEF P!Raise
    <3>2. record' \in RunRecords /\ record'.cursor = record.cursor
      BY <3>1, TrackedFields DEF RunRecords
    <3> QED BY <3>2, TrackedFields
  <2> QED BY <2>1, <2>2
<1> QED BY <1>1, <1>2, NoCallOK, TrackedFields, TrackedCalls DEF Paged

LEMMA TrackedCrash == ASSUME TrackedInv, P!Crash PROVE TrackedInv'
<1>1. UNCHANGED <<record, source, acked, worker>> /\ Logged' = Logged /\ call' = P!NoCall
  BY DEF P!Crash, Logged
<1>2. CASE UNCHANGED copy
  BY <1>1, <1>2, NoCallOK, TrackedFields, TrackedCalls DEF Paged
<1>3. CASE call.pc = "copy" /\ call.page # <<>> /\ copy' \in P!Interrupted(copy, Head(call.page))
  <2>1. /\ Head(call.page) \in 1 .. MaxEvents /\ Head(call.page) <= Len(Copies) + 1
        /\ Head(call.page) <= Len(Logged)
    BY <1>3, TrackedPage
  <2>2. /\ copy' \in P!Logs /\ Counts(P!Recovered(copy').lines)
        /\ Len(P!Recovered(copy').lines) \in {Len(P!Recovered(copy).lines), Head(call.page)}
        /\ Len(P!Recovered(copy).lines) <= Len(P!Recovered(copy').lines)
    BY <1>3, <2>1, TrackedFields, Interrupting DEF Copies
  <2>3. /\ copy' \in P!Logs /\ Counts(Copies') /\ Len(Copies') <= Len(Logged)
        /\ Len(Copies) <= Len(Copies')
    BY <2>1, <2>2, TrackedFields DEF Copies
  <2>4. record.cursor <= Len(Copies')
    <3>1. Len(Copies') \in Nat
      BY <2>3, Counting
    <3> QED BY <2>3, <3>1, TrackedFields
  <2> QED BY <1>1, <2>3, <2>4, NoCallOK DEF TrackedInv, Paged
<1> QED BY <1>2, <1>3 DEF P!Crash

\* The log of the attempt grows.
LEMMA TrackedGrows ==
    ASSUME TrackedInv, UNCHANGED <<record, copy, call>>, source' \in P!Logs,
           Counts(Logged'), Len(Logged) <= Len(Logged'), Counts(acked'),
           Len(acked') <= Len(Logged'), worker' \in {"none"} \cup P!Observed
    PROVE  TrackedInv'
<1>1. Copies' = Copies /\ Len(Logged') \in Nat
  BY Counting DEF Copies
<1>2. Len(Copies') <= Len(Logged')
  BY <1>1, TrackedFields
<1>3. Paged'
  <2>1. call.pc = "copy" => call.next <= Len(Logged')
    BY <1>1, TrackedFields DEF TrackedInv, Paged
  <2> QED BY <1>1, <2>1 DEF TrackedInv, Paged
<1> QED BY <1>1, <1>2, <1>3 DEF TrackedInv

LEMMA TrackedNext ==
    ASSUME TrackedInv, P!NextEvent <= MaxEvents
    PROVE  P!NextEvent = Len(Logged) + 1 /\ P!NextEvent \in 1 .. MaxEvents
<1>1. Logged \in Seq(1 .. MaxEvents) /\ \A i \in DOMAIN Logged : Logged[i] = i
  BY TrackedFields DEF Counts
<1>2. P!NextEvent = Len(Logged) + 1
  <2>1. CASE Logged = <<>>
    <3>1. P!NextEvent = 1 /\ Len(Logged) = 0
      BY <2>1 DEF P!NextEvent, Logged
    <3> QED BY <3>1
  <2>2. CASE Logged # <<>>
    <3>1. Len(Logged) \in DOMAIN Logged
      BY <1>1, <2>2
    <3>2. P!NextEvent = Logged[Len(Logged)] + 1
      BY <2>2 DEF P!NextEvent, P!Last, Logged
    <3> QED BY <1>1, <3>1, <3>2
  <2> QED BY <2>1, <2>2
<1> QED BY <1>2, TrackedFields

LEMMA TrackedEmits == ASSUME TrackedInv, P!Emit \/ P!EmitTorn \/ P!End PROVE TrackedInv'
<1>1. CASE P!End
  <2>1. /\ worker' \in {"none"} \cup P!Observed /\ UNCHANGED <<record, source, copy, acked, call>>
        /\ Logged' = Logged
    BY <1>1 DEF P!End, P!Observed, Logged
  <2> QED BY <2>1, TrackedFields, TrackedGrows
<1>2. CASE P!Emit
  <2>1. /\ P!NextEvent <= MaxEvents /\ UNCHANGED <<record, copy, worker, call>>
        /\ source' = P!Appended(source, P!NextEvent) /\ acked' = source'.lines
    BY <1>2 DEF P!Emit
  <2>2. P!NextEvent = Len(Logged) + 1 /\ P!NextEvent \in 1 .. MaxEvents
    BY <2>1, TrackedNext
  <2>3. /\ source' \in P!Logs /\ P!Recovered(source').lines = source'.lines /\ Counts(source'.lines)
        /\ Len(source'.lines) = IF P!NextEvent <= Len(Logged) THEN Len(Logged) ELSE P!NextEvent
    BY <2>1, <2>2, TrackedFields, Adding DEF Logged
  <2>4. Logged' = source'.lines /\ Len(source'.lines) = Len(Logged) + 1
    BY <2>2, <2>3, TrackedFields DEF Logged
  <2> QED BY <2>1, <2>3, <2>4, TrackedFields, TrackedGrows
<1>3. CASE P!EmitTorn
  <2>1. /\ P!NextEvent <= MaxEvents /\ UNCHANGED <<record, copy, acked, call>>
        /\ source' \in P!Interrupted(source, P!NextEvent) /\ worker' = "unknown"
    BY <1>3 DEF P!EmitTorn
  <2>2. P!NextEvent = Len(Logged) + 1 /\ P!NextEvent \in 1 .. MaxEvents
    BY <2>1, TrackedNext
  <2>3. /\ source' \in P!Logs /\ Counts(P!Recovered(source').lines)
        /\ Len(P!Recovered(source).lines) <= Len(P!Recovered(source').lines)
    BY <2>1, <2>2, TrackedFields, Interrupting DEF Logged
  <2>4. Counts(Logged') /\ Len(Logged) <= Len(Logged')
    BY <2>3 DEF Logged
  <2>5. Len(acked) <= Len(Logged')
    <3>1. Len(Logged') \in Nat
      BY <2>4, Counting
    <3> QED BY <2>4, <3>1, TrackedFields
  <2>6. worker' \in P!Observed
    BY <2>1 DEF P!Observed
  <2> QED BY <2>1, <2>3, <2>4, <2>5, <2>6, TrackedFields, TrackedGrows
<1> QED BY <1>1, <1>2, <1>3

LEMMA TrackedStep == ASSUME TrackedInv, P!TrackedNext PROVE TrackedInv'
  BY TrackedPrepare, TrackedDelegate, TrackedOpen, TrackedCopy, TrackedSave, TrackedCrash, TrackedEmits
     DEF P!TrackedNext, P!PortStep

LEMMA TrackedRest == ASSUME TrackedInv, UNCHANGED trackedVars PROVE TrackedInv'
  BY DEF trackedVars, TrackedInv, Logged, Copies, Paged

\* Of two logs that count, the shorter one is a beginning of the other.
LEMMA Beginning ==
    ASSUME NEW s, NEW t, Counts(s), Counts(t), Len(s) <= Len(t)
    PROVE  P!IsPrefix(s, t)
<1>1. /\ s \in Seq(1 .. MaxEvents) /\ t \in Seq(1 .. MaxEvents) /\ Len(s) \in Nat /\ Len(t) \in Nat
      /\ \A i \in 1 .. Len(s) : s[i] = i /\ t[i] = i
  BY DEF Counts
<1>2. SubSeq(s, 1, Len(s)) = [i \in 1 .. Len(s) |-> s[i]] /\ SubSeq(t, 1, Len(s)) = [i \in 1 .. Len(s) |-> t[i]]
  BY <1>1
<1>3. [i \in 1 .. Len(s) |-> s[i]] = [i \in 1 .. Len(s) |-> t[i]]
  BY <1>1
<1> QED BY <1>2, <1>3 DEF P!IsPrefix

LEMMA TrackedSays == ASSUME TrackedInv PROVE P!TrackedTypeOK /\ P!Mirrored
<1>1. P!IsPrefix(Copies, Logged) /\ P!IsPrefix(acked, Logged) /\ record.cursor <= Len(Copies)
  BY TrackedFields, Beginning
<1>2. P!Mirrored
  BY <1>1 DEF P!Mirrored, Copies, Logged
<1>3. acked \in Seq(1 .. MaxEvents)
  BY TrackedFields DEF Counts
<1> QED BY <1>2, <1>3, TrackedFields DEF P!TrackedTypeOK, RunRecords, PortCalls
-----------------------------------------------------------------------------
(* The connection (Transport).                                              *)

Slots == {"none", "empty", "answer", "error"}
CallerPlaces == {"new", "send", "put", "wait", "turn", "asleep"} \cup T!Ended
Completion(r) == [kind |-> "completion", r |-> r]

\* A request has an entry from its registration to its return.
Registered == \A r \in Request : slot[r] # "none" <=> caller[r] \in {"send", "put", "wait"}

\* Nobody has a connection that was never opened.
Unopened == process = "none" /\ ~failure => \A r \in Request : caller[r] = "new"

\* A completion that was sent is on the wire or noted, or is the one the reader ended on.
Sent ==
    /\ T!Dropped # {} => failure /\ reader = "ended"
    /\ \A r, q \in T!Dropped : r = q

\* Nobody sleeps for a turn whose completion is noted.
Awake == \A r \in Request : caller[r] = "asleep" => r \notin completed

TransportShapes ==
    /\ process \in {"none", "up", "dead"}
    /\ closed \in BOOLEAN /\ failure \in BOOLEAN /\ alarm \in BOOLEAN
    /\ queue \in Seq(Request \cup {Stop, Decline}) /\ Len(queue) <= Capacity
    /\ pen \in Request \cup {Free} /\ writing \in Request \cup {Decline, Free}
    /\ reader \in {"off", "reading", "ended"} /\ writer \in {"off", "idle", "writing", "ended"}
    /\ closer \in {"no", "stop", "kill", "done"}
    /\ inbox \subseteq Request /\ done \subseteq inbox /\ wire \in Seq(T!Message)
    /\ slot \in [Request -> Slots] /\ caller \in [Request -> CallerPlaces]
    /\ completed \subseteq turns /\ turns \subseteq Request
    /\ \A r \in Request : pen = r <=> caller[r] = "put"

TransportInv ==
    TransportShapes /\ T!ToldOfFailure /\ Registered /\ Unopened /\ Sent /\ Awake

LEMMA TransportStart ==
    ASSUME T!TransportInit PROVE TransportInv
<1>1. <<>> \in Seq(Request \cup {Stop, Decline}) /\ Len(<<>>) = 0 /\ <<>> \in Seq(T!Message)
  OBVIOUS
<1>2. 0 <= Capacity /\ Len(<<>>) <= Capacity
  BY <1>1, Bounds
<1>3. /\ slot \in [Request -> Slots] /\ \A r \in Request : slot[r] = "none"
      /\ caller \in [Request -> CallerPlaces] /\ \A r \in Request : caller[r] = "new"
  BY DEF T!TransportInit, Slots, CallerPlaces
<1>4. \A r \in Request : pen # r
  BY Apart DEF T!TransportInit
<1>5. TransportShapes
  BY <1>1, <1>2, <1>3, <1>4 DEF T!TransportInit, TransportShapes
<1>6. T!ToldOfFailure /\ Registered /\ Unopened /\ Sent /\ Awake
  BY <1>3 DEF T!TransportInit, T!ToldOfFailure, Registered, Unopened, Sent, T!Dropped, Awake
<1> QED BY <1>5, <1>6 DEF TransportInv
-----------------------------------------------------------------------------
(* What its steps have in common.                                           *)

\* A completion that was dropped is that of the end.
LEMMA TransportSent ==
    ASSUME TransportInv, T!Dropped' \subseteq T!Dropped,
           failure => failure', reader = "ended" => reader' = "ended"
    PROVE  Sent'
<1>1. T!Dropped' # {} => failure' /\ reader' = "ended"
  <2>1. T!Dropped' # {} => T!Dropped # {}
    OBVIOUS
  <2> QED BY <2>1 DEF TransportInv, Sent
<1>2. \A r, q \in T!Dropped' : r = q
  BY DEF TransportInv, Sent
<1> QED BY <1>1, <1>2 DEF Sent

\* What was sent stays so while the wire is as it was.
LEMMA TransportStays ==
    ASSUME TransportInv, UNCHANGED <<wire, done, completed>>,
           failure => failure', reader = "ended" => reader' = "ended"
    PROVE  Sent'
<1>1. T!Dropped' = T!Dropped
  BY DEF T!Dropped
<1> QED BY <1>1, TransportSent

\* Everybody who waits is told.
LEMMA TransportFails ==
    ASSUME TransportInv, T!Fails, UNCHANGED <<caller, process>>
    PROVE  /\ failure' = TRUE /\ alarm' \in BOOLEAN /\ slot' \in [Request -> Slots]
           /\ T!ToldOfFailure' /\ Registered' /\ Unopened'
<1>1. failure' = TRUE /\ alarm' = (alarm \/ ~failure) /\ slot' = [r \in Request |-> T!Alerted(slot[r])]
  BY DEF T!Fails
<1>2. \A r \in Request : /\ slot'[r] \in Slots \ {"empty"} /\ (slot'[r] = "none" <=> slot[r] = "none")
  BY <1>1 DEF T!Alerted, Slots, TransportInv, TransportShapes
<1>3. slot' \in [Request -> Slots] /\ alarm' \in BOOLEAN
  BY <1>1, <1>2 DEF TransportInv, TransportShapes
<1>4. T!ToldOfFailure'
  <2>1. \A r \in Request : caller[r] = "asleep" => alarm'
    BY <1>1 DEF TransportInv, TransportShapes, T!ToldOfFailure
  <2> QED BY <1>2, <2>1 DEF T!ToldOfFailure
<1>5. Registered' /\ Unopened'
  BY <1>1, <1>2 DEF TransportInv, Registered, Unopened
<1> QED BY <1>1, <1>3, <1>4, <1>5

\* One thread goes on, whatever its entry becomes.
LEMMA TransportMoves ==
    ASSUME TransportInv, NEW r \in Request, NEW pc \in CallerPlaces, NEW s \in Slots,
           caller' = [caller EXCEPT ![r] = pc],
           \/ slot' = [slot EXCEPT ![r] = s]
           \/ UNCHANGED slot /\ s = slot[r],
           s # "none" <=> pc \in {"send", "put", "wait"},
           failure => (pc \in {"put", "wait"} => s # "empty") /\ pc # "asleep",
           process # "none" \/ failure,
           UNCHANGED <<process, failure, alarm>>
    PROVE  /\ caller' \in [Request -> CallerPlaces] /\ slot' \in [Request -> Slots]
           /\ T!ToldOfFailure' /\ Registered' /\ Unopened'
           /\ caller'[r] = pc /\ \A q \in Request \ {r} : caller'[q] = caller[q]
<1>1. slot' = [slot EXCEPT ![r] = s] /\ slot' \in [Request -> Slots] /\ caller' \in [Request -> CallerPlaces]
  BY DEF TransportInv, TransportShapes
<1>2. /\ slot'[r] = s /\ caller'[r] = pc
      /\ \A q \in Request \ {r} : slot'[q] = slot[q] /\ caller'[q] = caller[q]
  BY <1>1 DEF TransportInv, TransportShapes
<1>3. T!ToldOfFailure' /\ Registered' /\ Unopened'
  BY <1>2 DEF TransportInv, TransportShapes, T!ToldOfFailure, Registered, Unopened
<1> QED BY <1>1, <1>2, <1>3
-----------------------------------------------------------------------------
(* The threads that call.                                                   *)

\* A thread goes on and no more than the queue and the turns it knows of change.
LEMMA TransportCalls ==
    ASSUME TransportInv, NEW r \in Request, NEW pc \in CallerPlaces, NEW s \in Slots,
           caller' = [caller EXCEPT ![r] = pc],
           \/ slot' = [slot EXCEPT ![r] = s]
           \/ UNCHANGED slot /\ s = slot[r],
           s # "none" <=> pc \in {"send", "put", "wait"},
           failure => (pc \in {"put", "wait"} => s # "empty") /\ pc # "asleep",
           process # "none" \/ failure,
           UNCHANGED <<writing, process, inbox, done, wire, reader, writer, closer, completed, closed, failure, alarm>>,
           queue' \in Seq(Request \cup {Stop, Decline}), Len(queue') <= Capacity,
           turns \subseteq turns', turns' \subseteq Request,
           pc = "asleep" => r \notin completed,
           \/ UNCHANGED pen /\ (pen = r <=> pc = "put")
           \/ pen' = r /\ pen = Free /\ pc = "put"
           \/ pen' = Free /\ pen = r /\ pc # "put"
    PROVE  TransportInv'
<1>1. /\ caller' \in [Request -> CallerPlaces] /\ slot' \in [Request -> Slots]
      /\ T!ToldOfFailure' /\ Registered' /\ Unopened'
      /\ caller'[r] = pc /\ \A q \in Request \ {r} : caller'[q] = caller[q]
  BY TransportMoves
<1>2. pen' \in Request \cup {Free} /\ \A q \in Request : pen' = q <=> caller'[q] = "put"
  BY <1>1, Apart DEF TransportInv, TransportShapes
<1>3. TransportShapes'
  BY <1>1, <1>2 DEF TransportInv, TransportShapes
<1>4. Sent'
  BY TransportStays
<1>5. Awake'
  BY <1>1 DEF TransportInv, Awake
<1> QED BY <1>1, <1>3, <1>4, <1>5 DEF TransportInv

LEMMA TransportRegister ==
    ASSUME TransportInv, NEW r \in Request, T!Register(r) PROVE TransportInv'
<1>1. "send" \in CallerPlaces /\ "empty" \in Slots
  BY DEF CallerPlaces, Slots
<1>2. UNCHANGED <<queue, pen>> /\ pen # r
  BY DEF TransportInv, TransportShapes, T!Register, T!line
<1>3. UNCHANGED <<writing, process, inbox, done, wire, reader, writer, closer, completed, closed, failure, alarm, turns>>
  BY DEF T!Register, T!line, T!remote, T!threads
<1> QED BY <1>1, <1>2, <1>3, TransportCalls DEF TransportInv, TransportShapes, T!Register

\* What a step of a thread leaves alone.
LEMMA TransportAlone ==
    ASSUME NEW r \in Request, T!CallerStep(r) \/ T!TimeOut(r)
    PROVE  UNCHANGED <<writing, process, inbox, done, wire, reader, writer, closer, completed,
                       closed, failure, alarm>>
  BY DEF T!CallerStep, T!Check, T!Put, T!Answered, T!Look, T!TimeOut, T!line, T!remote, T!threads,
         T!told

\* Who has no entry has no failure to wait for either.
LEMMA TransportOpen ==
    ASSUME TransportInv, NEW r \in Request, caller[r] # "new"
    PROVE  process # "none" \/ failure
  BY DEF TransportInv, Unopened

LEMMA TransportCheck ==
    ASSUME TransportInv, NEW r \in Request, T!Check(r) PROVE TransportInv'
<1>1. /\ "put" \in CallerPlaces /\ "failed" \in CallerPlaces /\ slot[r] \in Slots /\ "none" \in Slots
      /\ queue \in Seq(Request \cup {Stop, Decline}) /\ Len(queue) <= Capacity /\ turns \subseteq Request
      /\ pen # r /\ (slot[r] # "none" <=> caller[r] \in {"send", "put", "wait"})
      /\ caller[r] = "send" /\ pen = Free /\ UNCHANGED <<queue, turns>>
  <2>1. "put" \in CallerPlaces /\ "failed" \in CallerPlaces /\ "none" \in Slots
    BY DEF CallerPlaces, T!Ended, Slots
  <2>2. caller[r] = "send" /\ pen = Free /\ UNCHANGED <<queue, turns>>
    BY DEF T!Check, T!PenFree
  <2> QED BY <2>1, <2>2 DEF TransportInv, TransportShapes, Registered
<1>2. process # "none" \/ failure
  BY <1>1, TransportOpen
<1>3. UNCHANGED <<writing, process, inbox, done, wire, reader, writer, closer, completed, closed, failure, alarm>>
  BY TransportAlone DEF T!CallerStep
<1>4. CASE T!Usable
  <2>1. pen' = r /\ caller' = [caller EXCEPT ![r] = "put"] /\ UNCHANGED slot /\ ~failure
    BY <1>4 DEF T!Check, T!Usable
  <2> QED BY <1>1, <1>2, <1>3, <2>1, TransportCalls
<1>5. CASE ~T!Usable
  <2>1. UNCHANGED pen /\ caller' = [caller EXCEPT ![r] = "failed"] /\ slot' = [slot EXCEPT ![r] = "none"]
    BY <1>5 DEF T!Check, T!Return
  <2> QED BY <1>1, <1>2, <1>3, <2>1, TransportCalls
<1> QED BY <1>4, <1>5

LEMMA TransportPut ==
    ASSUME TransportInv, NEW r \in Request, T!Put(r) PROVE TransportInv'
<1>1. /\ "wait" \in CallerPlaces /\ "failed" \in CallerPlaces /\ slot[r] \in Slots /\ "none" \in Slots
      /\ queue \in Seq(Request \cup {Stop, Decline}) /\ Len(queue) <= Capacity /\ turns \subseteq Request
      /\ pen = r /\ (slot[r] # "none" <=> caller[r] \in {"send", "put", "wait"})
      /\ caller[r] = "put" /\ pen' = Free /\ UNCHANGED turns /\ (failure => slot[r] # "empty")
  <2>1. "wait" \in CallerPlaces /\ "failed" \in CallerPlaces /\ "none" \in Slots
    BY DEF CallerPlaces, T!Ended, Slots
  <2>2. caller[r] = "put" /\ pen' = Free /\ UNCHANGED turns
    BY DEF T!Put
  <2> QED BY <2>1, <2>2 DEF TransportInv, TransportShapes, Registered, T!ToldOfFailure
<1>2. process # "none" \/ failure
  BY <1>1, TransportOpen
<1>3. UNCHANGED <<writing, process, inbox, done, wire, reader, writer, closer, completed, closed, failure, alarm>>
  BY TransportAlone DEF T!CallerStep
<1>4. CASE Len(queue) < Capacity
  <2>1. queue' = Append(queue, r) /\ caller' = [caller EXCEPT ![r] = "wait"] /\ UNCHANGED slot
    BY <1>4 DEF T!Put
  <2>2. queue' \in Seq(Request \cup {Stop, Decline}) /\ Len(queue') <= Capacity
    BY <1>1, <1>4, <2>1, Bounds
  <2> QED BY <1>1, <1>2, <1>3, <2>1, <2>2, TransportCalls
<1>5. CASE ~(Len(queue) < Capacity)
  <2>1. UNCHANGED queue /\ caller' = [caller EXCEPT ![r] = "failed"] /\ slot' = [slot EXCEPT ![r] = "none"]
    BY <1>5 DEF T!Put, T!Return
  <2> QED BY <1>1, <1>2, <1>3, <2>1, TransportCalls
<1> QED BY <1>4, <1>5

LEMMA TransportAnswered ==
    ASSUME TransportInv, NEW r \in Request, T!Answered(r) PROVE TransportInv'
<1>1. /\ "turn" \in CallerPlaces /\ "failed" \in CallerPlaces /\ "none" \in Slots
      /\ queue \in Seq(Request \cup {Stop, Decline}) /\ Len(queue) <= Capacity /\ turns \subseteq Request
      /\ pen # r /\ caller[r] = "wait" /\ UNCHANGED <<pen, queue>>
  <2>1. "turn" \in CallerPlaces /\ "failed" \in CallerPlaces /\ "none" \in Slots
    BY DEF CallerPlaces, T!Ended, Slots
  <2>2. caller[r] = "wait" /\ UNCHANGED <<pen, queue>>
    BY DEF T!Answered, T!line
  <2> QED BY <2>1, <2>2 DEF TransportInv, TransportShapes
<1>2. process # "none" \/ failure
  BY <1>1, TransportOpen
<1>3. UNCHANGED <<writing, process, inbox, done, wire, reader, writer, closer, completed, closed, failure, alarm>>
  BY TransportAlone DEF T!CallerStep
<1>4. PICK pc \in {"turn", "failed"} :
          caller' = [caller EXCEPT ![r] = pc] /\ slot' = [slot EXCEPT ![r] = "none"]
  BY DEF T!Answered, T!Return
<1>5. turns \subseteq turns' /\ turns' \subseteq Request
  BY <1>1 DEF T!Answered
<1>6. pc \in CallerPlaces /\ pc \notin {"send", "put", "wait", "asleep"}
  BY <1>1, <1>4
<1> QED BY <1>1, <1>2, <1>3, <1>4, <1>5, <1>6, TransportCalls

LEMMA TransportTimeOut ==
    ASSUME TransportInv, NEW r \in Request, T!TimeOut(r) PROVE TransportInv'
<1>1. /\ "lost" \in CallerPlaces /\ "timeout" \in CallerPlaces /\ "none" \in Slots
      /\ queue \in Seq(Request \cup {Stop, Decline}) /\ Len(queue) <= Capacity /\ turns \subseteq Request
      /\ pen # r /\ caller[r] \in {"wait", "asleep"} /\ UNCHANGED <<pen, queue, turns>>
      /\ (slot[r] # "none" <=> caller[r] \in {"send", "put", "wait"}) /\ slot[r] \in Slots
  <2>1. "lost" \in CallerPlaces /\ "timeout" \in CallerPlaces /\ "none" \in Slots
    BY DEF CallerPlaces, T!Ended, Slots
  <2>2. caller[r] \in {"wait", "asleep"} /\ UNCHANGED <<pen, queue, turns>>
    BY DEF T!TimeOut, T!line
  <2> QED BY <2>1, <2>2 DEF TransportInv, TransportShapes, Registered
<1>2. process # "none" \/ failure
  BY <1>1, TransportOpen
<1>3. UNCHANGED <<writing, process, inbox, done, wire, reader, writer, closer, completed, closed, failure, alarm>>
  BY TransportAlone
<1>4. CASE caller' = [caller EXCEPT ![r] = "timeout"] /\ slot' = [slot EXCEPT ![r] = "none"]
  BY <1>1, <1>2, <1>3, <1>4, TransportCalls
<1>5. CASE caller[r] = "asleep" /\ caller' = [caller EXCEPT ![r] = "lost"] /\ UNCHANGED slot
  BY <1>1, <1>2, <1>3, <1>5, TransportCalls
<1> QED BY <1>4, <1>5 DEF T!TimeOut, T!Return

LEMMA TransportLook ==
    ASSUME TransportInv, NEW r \in Request, T!Look(r) PROVE TransportInv'
<1> DEFINE pc == IF r \in completed THEN "ok" ELSE IF failure THEN "lost" ELSE "asleep"
<1>1. /\ pc \in CallerPlaces /\ pc \notin {"send", "put", "wait"} /\ (failure => pc # "asleep")
      /\ (pc = "asleep" => r \notin completed)
  BY DEF CallerPlaces, T!Ended
<1>2. /\ queue \in Seq(Request \cup {Stop, Decline}) /\ Len(queue) <= Capacity /\ turns \subseteq Request
      /\ pen # r /\ caller[r] = "turn" /\ UNCHANGED <<pen, queue, turns, slot>>
      /\ (slot[r] # "none" <=> caller[r] \in {"send", "put", "wait"}) /\ slot[r] \in Slots
  <2>1. caller[r] = "turn" /\ UNCHANGED <<pen, queue, turns, slot>>
    BY DEF T!Look, T!line, T!told
  <2> QED BY <2>1 DEF TransportInv, TransportShapes, Registered
<1>3. process # "none" \/ failure
  BY <1>2, TransportOpen
<1>4. UNCHANGED <<writing, process, inbox, done, wire, reader, writer, closer, completed, closed, failure, alarm>>
  BY TransportAlone DEF T!CallerStep
<1>5. caller' = [caller EXCEPT ![r] = pc]
  BY DEF T!Look
<1> HIDE DEF pc
<1> QED BY <1>1, <1>2, <1>3, <1>4, <1>5, TransportCalls
-----------------------------------------------------------------------------
(* The threads of the connection, the provider, and close.                  *)

\* The lines, the threads and the process go on; the callers do not notice.
LEMMA TransportUnseen ==
    ASSUME TransportInv, UNCHANGED <<slot, caller, pen, turns, completed, failure, alarm>>,
           process' \in {"none", "up", "dead"}, process = "none" => process' = "none" \/ Unopened',
           process' = "none" => process = "none", closed' \in BOOLEAN,
           queue' \in Seq(Request \cup {Stop, Decline}), Len(queue') <= Capacity,
           writing' \in Request \cup {Decline, Free},
           reader' \in {"off", "reading", "ended"}, writer' \in {"off", "idle", "writing", "ended"},
           closer' \in {"no", "stop", "kill", "done"},
           inbox' \subseteq Request, done' \subseteq inbox', wire' \in Seq(T!Message), Sent'
    PROVE  TransportInv'
<1>1. TransportShapes'
  BY DEF TransportInv, TransportShapes
<1>2. T!ToldOfFailure' /\ Registered' /\ Unopened' /\ Awake'
  BY DEF TransportInv, T!ToldOfFailure, Registered, Unopened, Awake
<1> QED BY <1>1, <1>2 DEF TransportInv

\* The connection has failed, and what the threads of it are.
LEMMA TransportEnds ==
    ASSUME TransportInv, T!Fails, UNCHANGED <<caller, process, pen, turns, completed, inbox, done>>,
           closed' \in BOOLEAN, queue' = queue,
           writing' \in Request \cup {Decline, Free},
           reader' \in {"off", "reading", "ended"}, writer' \in {"off", "idle", "writing", "ended"},
           closer' \in {"no", "stop", "kill", "done"}, wire' \in Seq(T!Message), Sent'
    PROVE  TransportInv'
<1>1. /\ failure' = TRUE /\ alarm' \in BOOLEAN /\ slot' \in [Request -> Slots]
      /\ T!ToldOfFailure' /\ Registered' /\ Unopened'
  BY TransportFails
<1>2. TransportShapes'
  BY <1>1 DEF TransportInv, TransportShapes
<1>3. Awake'
  BY DEF TransportInv, Awake
<1> QED BY <1>1, <1>2, <1>3 DEF TransportInv

LEMMA TransportAlarm ==
    ASSUME TransportInv, T!Alarm PROVE TransportInv'
<1>1. /\ caller' = [r \in Request |-> IF caller[r] = "asleep" THEN "turn" ELSE caller[r]]
      /\ alarm' = FALSE
      /\ UNCHANGED <<queue, pen, writing, process, inbox, done, wire, reader, writer, closer,
                     slot, turns, completed, closed, failure>>
  BY DEF T!Alarm, T!line, T!remote, T!threads, T!told
<1>2. /\ caller' \in [Request -> CallerPlaces]
      /\ \A r \in Request : \/ (caller'[r] = "turn" /\ caller[r] = "asleep")
                            \/ (caller'[r] = caller[r] /\ caller[r] # "asleep")
  <2>1. "turn" \in CallerPlaces /\ caller \in [Request -> CallerPlaces]
    BY DEF CallerPlaces, TransportInv, TransportShapes
  <2> QED BY <1>1, <2>1
<1>3. TransportShapes'
  <2>1. alarm' \in BOOLEAN
    BY <1>1
  <2>2. \A r \in Request : pen' = r <=> caller'[r] = "put"
    BY <1>1, <1>2 DEF TransportInv, TransportShapes
  <2> QED BY <1>1, <1>2, <2>1, <2>2 DEF TransportInv, TransportShapes
<1>4. T!ToldOfFailure' /\ Registered' /\ Unopened' /\ Awake'
  BY <1>1, <1>2 DEF TransportInv, T!ToldOfFailure, Registered, Unopened, Awake
<1>5. Sent'
  BY <1>1, TransportStays
<1> QED BY <1>3, <1>4, <1>5 DEF TransportInv

LEMMA TransportOpens ==
    ASSUME TransportInv, T!Open PROVE TransportInv'
<1>1. /\ process = "none" /\ ~failure
      /\ UNCHANGED <<queue, pen, writing, inbox, done, wire, closer, slot, turns, completed,
                     closed, alarm, caller>>
  BY DEF T!Open, T!line, T!told
<1>2. \A r \in Request : caller[r] = "new"
  BY <1>1 DEF TransportInv, Unopened
<1>3. /\ process' \in {"none", "up", "dead"} /\ failure' \in BOOLEAN
      /\ reader' \in {"off", "reading", "ended"} /\ writer' \in {"off", "idle", "writing", "ended"}
  BY DEF T!Open, TransportInv, TransportShapes
<1>4. TransportShapes'
  BY <1>1, <1>3 DEF TransportInv, TransportShapes
<1>5. T!ToldOfFailure' /\ Registered' /\ Unopened' /\ Awake'
  BY <1>1, <1>2 DEF TransportInv, T!ToldOfFailure, Registered, Unopened, Awake
<1>6. Sent'
  <2>1. T!Dropped = {}
    BY <1>1 DEF TransportInv, Sent
  <2>2. T!Dropped' = {}
    BY <1>1, <2>1 DEF T!Dropped
  <2> QED BY <2>2 DEF Sent
<1> QED BY <1>4, <1>5, <1>6 DEF TransportInv

LEMMA TransportShape ==
    ASSUME TransportInv
    PROVE  /\ process \in {"none", "up", "dead"} /\ closed \in BOOLEAN
           /\ queue \in Seq(Request \cup {Stop, Decline}) /\ Len(queue) <= Capacity
           /\ writing \in Request \cup {Decline, Free}
           /\ reader \in {"off", "reading", "ended"} /\ writer \in {"off", "idle", "writing", "ended"}
           /\ closer \in {"no", "stop", "kill", "done"}
           /\ inbox \subseteq Request /\ done \subseteq inbox /\ wire \in Seq(T!Message)
  BY DEF TransportInv, TransportShapes

LEMMA TransportWriter ==
    ASSUME TransportInv, T!WriterStep PROVE TransportInv'
<1>1. CASE T!TakeLine
  <2>1. /\ queue # <<>> /\ queue' = Tail(queue) /\ UNCHANGED <<slot, caller, pen, turns, completed, failure, alarm,
                     process, closed, reader, closer, inbox, done, wire>>
    BY <1>1 DEF T!TakeLine, T!remote, T!told
  <2>2. /\ Head(queue) \in Request \cup {Stop, Decline} /\ Tail(queue) \in Seq(Request \cup {Stop, Decline})
        /\ Len(Tail(queue)) <= Capacity
    BY <2>1, TransportShape, Bounds
  <2>3. writer' \in {"off", "idle", "writing", "ended"} /\ writing' \in Request \cup {Decline, Free}
    BY <1>1, <2>2, TransportShape DEF T!TakeLine
  <2> QED BY <2>1, <2>2, <2>3, TransportShape, TransportStays, TransportUnseen
<1>2. CASE T!WriteLine
  <2>1. /\ inbox' = inbox \cup ({writing} \cap Request) /\ writer' = "idle" /\ writing' = Free
        /\ UNCHANGED <<slot, caller, pen, turns, completed, failure, alarm,
                     process, closed, reader, closer, queue, done, wire>>
    BY <1>2 DEF T!WriteLine, T!told
  <2>2. inbox' \subseteq Request /\ done' \subseteq inbox'
    BY <2>1, TransportShape
  <2> QED BY <2>1, <2>2, TransportShape, TransportStays, TransportUnseen
<1>3. CASE T!BrokenPipe
  <2>1. /\ writer' = "ended" /\ writing' = Free /\ T!Fails
        /\ UNCHANGED <<queue, pen, process, inbox, done, wire, reader, closer, turns, completed, closed, caller>>
    BY <1>3 DEF T!BrokenPipe, T!remote
  <2>2. failure' = TRUE
    BY <2>1 DEF T!Fails
  <2> QED BY <2>1, <2>2, TransportShape, TransportStays, TransportEnds
<1> QED BY <1>1, <1>2, <1>3 DEF T!WriterStep

LEMMA TransportClosing ==
    ASSUME TransportInv, T!Close \/ T!PutStop \/ T!Kill \/ T!Die \/ T!EndOfFile PROVE TransportInv'
<1>1. CASE T!Close
  <2>1. /\ closed' = TRUE /\ closer' = "stop" /\ T!Fails
        /\ UNCHANGED <<queue, pen, writing, process, inbox, done, wire, reader, writer, turns, completed, caller>>
    BY <1>1 DEF T!Close, T!line, T!remote
  <2>2. failure' = TRUE
    BY <2>1 DEF T!Fails
  <2> QED BY <2>1, <2>2, TransportShape, TransportStays, TransportEnds
<1>2. CASE T!PutStop
  <2>1. /\ queue' = T!Marked(queue) /\ closer' \in {"done", "kill"}
        /\ UNCHANGED <<slot, caller, pen, turns, completed, failure, alarm,
                     process, closed, reader, writer, writing, inbox, done, wire>>
    BY <1>2 DEF T!PutStop, T!remote, T!told
  <2>2. queue' \in Seq(Request \cup {Stop, Decline}) /\ Len(queue') <= Capacity
    BY <2>1, TransportShape, Bounds DEF T!Marked
  <2>3. closer' \in {"no", "stop", "kill", "done"}
    BY <2>1
  <2> QED BY <2>1, <2>2, <2>3, TransportShape, TransportStays, TransportUnseen
<1>3. CASE T!Kill
  <2>1. /\ process' \in {"dead", process} /\ closer' \in {"no", "done"}
        /\ UNCHANGED <<slot, caller, pen, turns, completed, failure, alarm, queue,
                     closed, reader, writer, writing, inbox, done, wire>>
    BY <1>3 DEF T!Kill, T!line, T!told
  <2>2. /\ process' \in {"none", "up", "dead"} /\ closer' \in {"no", "stop", "kill", "done"}
        /\ (process' = "none" => process = "none") /\ Unopened'
    BY <2>1, TransportShape DEF TransportInv, Unopened
  <2> QED BY <2>1, <2>2, TransportShape, TransportStays, TransportUnseen
<1>4. CASE T!Die
  <2>1. /\ process' = "dead"
        /\ UNCHANGED <<slot, caller, pen, turns, completed, failure, alarm, queue, closer,
                     closed, reader, writer, writing, inbox, done, wire>>
    BY <1>4 DEF T!Die, T!line, T!threads, T!told
  <2>2. Unopened'
    BY <2>1 DEF Unopened
  <2> QED BY <2>1, <2>2, TransportShape, TransportStays, TransportUnseen
<1>5. CASE T!EndOfFile
  <2>1. /\ reader' = "ended" /\ T!Fails
        /\ UNCHANGED <<queue, pen, writing, process, inbox, done, wire, writer, closer, turns, completed, closed, caller>>
    BY <1>5 DEF T!EndOfFile, T!line, T!remote
  <2>2. failure' = TRUE
    BY <2>1 DEF T!Fails
  <2> QED BY <2>1, <2>2, TransportShape, TransportStays, TransportEnds
<1> QED BY <1>1, <1>2, <1>3, <1>4, <1>5

\* The provider says m, and what is on the wire stays.
LEMMA TransportSays ==
    ASSUME TransportInv, NEW m \in T!Message, T!Says(m), inbox' = inbox,
           process' = process, done' \subseteq inbox,
           \A r \in done' : r \in done \/ m = Completion(r)
    PROVE  TransportInv'
<1>1. /\ wire' = Append(wire, m)
      /\ UNCHANGED <<queue, pen, writing, reader, writer, closer, slot, turns, completed, closed,
                     failure, alarm, caller>>
  BY DEF T!Says, T!line, T!threads, T!told
<1>2. /\ wire' \in Seq(T!Message) /\ Len(wire) + 1 \in DOMAIN wire' /\ wire'[Len(wire) + 1] = m
      /\ \A i \in DOMAIN wire : i \in DOMAIN wire' /\ wire'[i] = wire[i]
  BY <1>1, TransportShape
<1>3. T!Dropped' \subseteq T!Dropped
  <2> SUFFICES ASSUME NEW r \in T!Dropped' PROVE r \in T!Dropped
    OBVIOUS
  <2>1. /\ r \in done' /\ r \notin completed
        /\ \A i \in DOMAIN wire' : wire'[i] # Completion(r)
    BY <1>1 DEF T!Dropped, Completion
  <2>2. \A i \in DOMAIN wire : wire[i] # Completion(r)
    BY <1>2, <2>1
  <2>3. r \in done
    BY <1>2, <2>1
  <2> QED BY <2>1, <2>2, <2>3 DEF T!Dropped, Completion
<1>4. Sent'
  BY <1>1, <1>3, TransportSent
<1> QED BY <1>1, <1>2, <1>4, TransportShape, TransportUnseen

LEMMA TransportProvider ==
    ASSUME TransportInv, T!Babble \/ \E r \in Request : T!Answer(r) \/ T!Complete(r)
    PROVE  TransportInv'
<1>1. CASE T!Babble
  <2>1. PICK k \in {"ask", "nonsense"} : T!Says([kind |-> k, r |-> Free])
    BY <1>1 DEF T!Babble
  <2>2. [kind |-> k, r |-> Free] \in T!Message /\ UNCHANGED <<process, inbox, done>>
    BY <1>1 DEF T!Babble, T!Message
  <2> QED BY <2>1, <2>2, TransportSays, TransportShape
<1>2. ASSUME NEW r \in Request, T!Answer(r) PROVE TransportInv'
  <2>1. /\ [kind |-> "answer", r |-> r] \in T!Message /\ UNCHANGED <<process, inbox, done>>
        /\ T!Says([kind |-> "answer", r |-> r])
    BY <1>2 DEF T!Answer, T!Message
  <2> QED BY <2>1, TransportSays, TransportShape
<1>3. ASSUME NEW r \in Request, T!Complete(r) PROVE TransportInv'
  <2>1. /\ [kind |-> "completion", r |-> r] \in T!Message /\ UNCHANGED <<process, inbox>>
        /\ done' = done \cup {r} /\ r \in inbox /\ T!Says([kind |-> "completion", r |-> r])
    BY <1>3 DEF T!Complete, T!Message
  <2>2. done' \subseteq inbox /\ \A q \in done' : q \in done \/ [kind |-> "completion", r |-> r] = Completion(q)
    BY <2>1, TransportShape DEF Completion
  <2> QED BY <2>1, <2>2, TransportSays, TransportShape
<1> QED BY <1>1, <1>2, <1>3

\* What is read is off the wire; a completion of it that is not noted is dropped.
LEMMA TransportTakes ==
    ASSUME TransportInv, wire # <<>>, wire' = Tail(wire), UNCHANGED done,
           completed \subseteq completed'
    PROVE  /\ wire' \in Seq(T!Message)
           /\ T!Dropped' \subseteq
                 T!Dropped \cup {r \in Request \ completed' : Head(wire) = Completion(r)}
<1>1. wire \in Seq(T!Message) /\ done \subseteq Request
  BY TransportShape
<1>2. /\ Tail(wire) \in Seq(T!Message) /\ Head(wire) = wire[1]
      /\ \A i \in DOMAIN wire : i # 1 => i - 1 \in DOMAIN Tail(wire) /\ Tail(wire)[i - 1] = wire[i]
  BY <1>1
<1>3. ASSUME NEW r \in T!Dropped', r \notin T!Dropped
      PROVE  r \in Request \ completed' /\ Head(wire) = Completion(r)
  <2>1. /\ r \in done /\ r \notin completed'
        /\ \A i \in DOMAIN Tail(wire) : Tail(wire)[i] # Completion(r)
    BY <1>3 DEF T!Dropped, Completion
  <2>2. PICK i \in DOMAIN wire : wire[i] = Completion(r)
    BY <1>3, <2>1 DEF T!Dropped, Completion
  <2>3. i = 1
    BY <1>2, <2>1, <2>2
  <2> QED BY <1>1, <1>2, <2>1, <2>2, <2>3
<1> QED BY <1>2, <1>3

\* While the reader reads, nothing is dropped.
LEMMA TransportReads ==
    ASSUME TransportInv, reader = "reading", wire # <<>>, wire' = Tail(wire),
           UNCHANGED <<done, failure, reader>>, completed \subseteq completed',
           \A r \in Request : Head(wire) = Completion(r) => r \in completed'
    PROVE  wire' \in Seq(T!Message) /\ Sent'
  BY TransportTakes, TransportSent

\* What the reader ends on is all that is dropped.
LEMMA TransportDrops ==
    ASSUME TransportInv, reader = "reading", wire # <<>>, wire' = Tail(wire),
           UNCHANGED <<done, completed>>, failure', reader' = "ended"
    PROVE  wire' \in Seq(T!Message) /\ Sent'
<1>1. T!Dropped = {}
  BY DEF TransportInv, Sent
<1>2. wire' \in Seq(T!Message) /\ \A r \in T!Dropped' : Head(wire) = Completion(r)
  BY <1>1, TransportTakes
<1>3. \A r, q : Completion(r) = Completion(q) => r = q
  <2>1. \A r : Completion(r).r = r
    BY DEF Completion
  <2> QED BY <2>1
<1>4. \A r, q \in T!Dropped' : r = q
  BY <1>2, <1>3
<1> QED BY <1>2, <1>4 DEF Sent

LEMMA TransportRead ==
    ASSUME TransportInv, T!Read PROVE TransportInv'
<1> DEFINE m == Head(wire)
<1>1. /\ reader = "reading" /\ wire # <<>> /\ wire' = Tail(wire)
      /\ UNCHANGED <<pen, writing, process, inbox, done, writer, closer, closed>>
  BY DEF T!Read
<1>2. m \in T!Message
  BY <1>1, TransportShape
<1>3. \A r \in Request : m = Completion(r) => m.kind = "completion" /\ m.r = r
  BY DEF Completion
<1>4. CASE m.kind = "answer" /\ T!ReadAnswer(m.r)
  <2>1. /\ m.r \in Request
        /\ slot' = [slot EXCEPT ![m.r] = IF slot[m.r] = "empty" THEN "answer" ELSE slot[m.r]]
        /\ UNCHANGED <<turns, completed, queue, reader, failure, alarm, caller>>
    BY <1>2, <1>4 DEF T!ReadAnswer, T!Message
  <2>2. wire' \in Seq(T!Message) /\ Sent'
    BY <1>1, <1>3, <1>4, <2>1, TransportReads
  <2>3. /\ slot' \in [Request -> Slots]
        /\ \A r \in Request : /\ slot'[r] = "none" <=> slot[r] = "none"
                              /\ slot'[r] = "empty" => slot[r] = "empty"
    BY <2>1 DEF TransportInv, TransportShapes, Slots
  <2>4. TransportShapes'
    BY <1>1, <2>1, <2>2, <2>3 DEF TransportInv, TransportShapes
  <2>5. T!ToldOfFailure' /\ Registered' /\ Unopened' /\ Awake'
    BY <1>1, <2>1, <2>3 DEF TransportInv, T!ToldOfFailure, Registered, Unopened, Awake
  <2> QED BY <2>2, <2>4, <2>5 DEF TransportInv
<1>5. CASE m.kind = "completion" /\ T!ReadCompletion(m.r)
  <2>1. /\ m.r \in Request /\ turns' = turns \cup {m.r} /\ completed' = completed \cup {m.r}
        /\ caller' = [q \in Request |-> IF caller[q] = "asleep" THEN "turn" ELSE caller[q]]
        /\ UNCHANGED <<slot, queue, reader, failure, alarm>>
    BY <1>2, <1>5 DEF T!ReadCompletion, T!Message, T!Noted
  <2>2. wire' \in Seq(T!Message) /\ Sent'
    BY <1>1, <1>3, <1>5, <2>1, TransportReads
  <2>3. /\ caller' \in [Request -> CallerPlaces]
        /\ \A r \in Request : \/ (caller'[r] = "turn" /\ caller[r] = "asleep")
                              \/ (caller'[r] = caller[r] /\ caller[r] # "asleep")
    <3>1. "turn" \in CallerPlaces /\ caller \in [Request -> CallerPlaces]
      BY DEF CallerPlaces, TransportInv, TransportShapes
    <3> QED BY <2>1, <3>1
  <2>4. TransportShapes'
    BY <1>1, <2>1, <2>2, <2>3 DEF TransportInv, TransportShapes
  <2>5. T!ToldOfFailure' /\ Registered' /\ Unopened' /\ Awake'
    BY <1>1, <2>1, <2>3 DEF TransportInv, T!ToldOfFailure, Registered, Unopened, Awake
  <2> QED BY <2>2, <2>4, <2>5 DEF TransportInv
<1>6. CASE m.kind = "ask" /\ T!ReadAsk
  <2>1. Len(queue) < Capacity /\ queue' = Append(queue, Decline) /\ UNCHANGED <<slot, turns, completed, reader, failure, alarm, caller>>
    BY <1>6 DEF T!ReadAsk, T!told
  <2>2. wire' \in Seq(T!Message) /\ Sent'
    BY <1>1, <1>3, <1>6, <2>1, TransportReads
  <2>3. queue' \in Seq(Request \cup {Stop, Decline}) /\ Len(queue') <= Capacity
    BY <1>6, <2>1, TransportShape, Bounds
  <2> QED BY <1>1, <2>1, <2>2, <2>3, TransportShape, TransportUnseen
<1>7. CASE T!ReadFails
  <2>1. T!Fails /\ reader' = "ended" /\ failure' /\ UNCHANGED <<queue, turns, completed, caller>>
    BY <1>7 DEF T!ReadFails, T!Fails
  <2>2. wire' \in Seq(T!Message) /\ Sent'
    BY <1>1, <2>1, TransportDrops
  <2> QED BY <1>1, <2>1, <2>2, TransportShape, TransportEnds
<1> QED BY <1>4, <1>5, <1>6, <1>7 DEF T!Read
-----------------------------------------------------------------------------
LEMMA TransportStep ==
    ASSUME TransportInv, T!TransportNext PROVE TransportInv'
<1>1. ASSUME NEW r \in Request, T!Register(r) \/ T!CallerStep(r) \/ T!TimeOut(r) PROVE TransportInv'
  BY <1>1, TransportRegister, TransportCheck, TransportPut, TransportAnswered, TransportLook,
     TransportTimeOut DEF T!CallerStep
<1>2. CASE T!Open \/ T!WriterStep \/ T!ReaderStep \/ T!Alarm
  BY <1>2, TransportOpens, TransportWriter, TransportRead, TransportClosing, TransportAlarm
     DEF T!ReaderStep
<1>3. CASE T!Babble \/ \E r \in Request : T!Answer(r) \/ T!Complete(r)
  BY <1>3, TransportProvider
<1>4. CASE T!Die \/ T!Close \/ T!PutStop \/ T!Kill
  BY <1>4, TransportClosing
<1> QED BY <1>1, <1>2, <1>3, <1>4 DEF T!TransportNext

LEMMA TransportRest ==
    ASSUME TransportInv, UNCHANGED transportVars PROVE TransportInv'
<1>1. UNCHANGED <<process, closed, failure, alarm, queue, pen, writing, reader, writer, inbox, done,
                  wire, slot, caller, turns, completed, closer>>
  BY DEF transportVars
<1> QED BY <1>1, TransportShape, TransportStays, TransportUnseen DEF TransportInv

LEMMA TransportSaid ==
    ASSUME TransportInv PROVE T!TransportTypeOK /\ T!ToldOfFailure
<1>1. slot \in [Request -> {"none", "empty", "answer", "error"}]
  BY DEF TransportInv, TransportShapes, Slots
<1>2. caller \in [Request -> {"new", "send", "put", "wait", "turn", "asleep"} \cup T!Ended]
  BY DEF TransportInv, TransportShapes, CallerPlaces
<1> QED BY <1>1, <1>2 DEF TransportInv, TransportShapes, T!TransportTypeOK

\* Who gives up a turn had no completion of it noted.
LEMMA TransportKeeps ==
    ASSUME TransportInv, T!TransportNext PROVE T!CompletionKept
<1> SUFFICES ASSUME NEW r \in completed, caller[r] # "lost", caller'[r] = "lost"
             PROVE  FALSE
  BY DEF T!CompletionKept, TransportInv, Sent
<1>1. r \in completed /\ r \in Request /\ caller \in [Request -> CallerPlaces]
  BY DEF TransportInv, TransportShapes
<1>2. caller[r] # "asleep"
  BY <1>1 DEF TransportInv, Awake
<1>3. caller' # caller
  OBVIOUS
<1>4. ASSUME NEW q \in Request, T!Register(q) \/ T!CallerStep(q) \/ T!TimeOut(q) PROVE FALSE
  <2>1. ASSUME NEW pc, caller' = [caller EXCEPT ![q] = pc], pc = "lost" => q # r PROVE FALSE
    BY <1>1, <2>1
  <2>2. CASE T!Register(q) \/ T!Check(q) \/ T!Put(q) \/ T!Answered(q)
    BY <2>1, <2>2, <1>3 DEF T!Register, T!Check, T!Put, T!Answered, T!Return
  <2>3. CASE T!Look(q)
    BY <1>1, <2>1, <2>3 DEF T!Look
  <2>4. CASE T!TimeOut(q)
    <3>1. CASE T!Return(q, "timeout")
      BY <2>1, <3>1 DEF T!Return
    <3>2. CASE caller[q] = "asleep" /\ caller' = [caller EXCEPT ![q] = "lost"]
      BY <1>2, <2>1, <3>2
    <3> QED BY <2>4, <3>1, <3>2 DEF T!TimeOut
  <2> QED BY <1>4, <2>2, <2>3, <2>4 DEF T!CallerStep
<1>5. CASE T!Alarm
  BY <1>1, <1>5 DEF T!Alarm
<1>6. CASE T!Read
  BY <1>1, <1>3, <1>6 DEF T!Read, T!ReadAnswer, T!ReadCompletion, T!ReadAsk, T!ReadFails
<1>7. CASE T!Open \/ T!WriterStep \/ T!EndOfFile \/ T!Babble \/ T!Die \/ T!Close \/ T!PutStop \/ T!Kill
           \/ \E q \in Request : T!Answer(q) \/ T!Complete(q)
  BY <1>3, <1>7 DEF T!Open, T!WriterStep, T!TakeLine, T!WriteLine, T!BrokenPipe, T!EndOfFile, T!Babble,
     T!Says, T!Die, T!Close, T!PutStop, T!Kill, T!Answer, T!Complete
<1> QED BY <1>4, <1>5, <1>6, <1>7 DEF T!TransportNext, T!ReaderStep
-----------------------------------------------------------------------------
(* A session of Claude (ClaudeSession).                                     *)

ClaudeAdapters == [probe : {"none", "gone", "held"}, client : {"none", "up", "failed", "closed"},
                   closed : BOOLEAN, session : BOOLEAN, turn : 0 .. MaxTurns, top : 0 .. MaxTurns]
ClaudePlaces == {"idle", "connected", "confirm", "sent", "wait", "given", "lost", "cancel",
                 "interrupt", "acknowledge"}
ClaudeLines == [kind : {"prompt", "interrupt"}, n : 0 .. MaxTurns]
ClaudeWire == [kind : {"init", "result"}, n : 0 .. MaxTurns]
ClaudeClis == [lines : Seq(ClaudeLines), prompts : Seq(0 .. MaxTurns), wire : Seq(ClaudeWire)]
ClaudeUsers == [pc : ClaudePlaces, turn : 0 .. MaxTurns]
ClaudeFacades == [known : 0 .. MaxTurns, ended : SUBSET (1 .. MaxTurns)]

ClaudeShapes ==
    /\ adapter \in ClaudeAdapters /\ results \in [1 .. MaxTurns -> 0 .. MaxTurns]
    /\ cli \in ClaudeClis /\ user \in [Thread -> ClaudeUsers] /\ facade \in ClaudeFacades

\* Turns that are spoken of have begun.
ClaudeBegun ==
    /\ adapter.turn <= adapter.top /\ facade.known <= adapter.top
    /\ \A t \in facade.ended : t <= adapter.top
    /\ \A c \in Thread : user[c].turn <= adapter.top

\* One thread opens the session, once.
ClaudeFirst ==
    /\ adapter.client = "none" => adapter.top = 0
    /\ \A c \in Thread : user[c].pc = "connected" => adapter.top = 0
    /\ \A c \in Thread : user[c].pc \in {"connected", "confirm"} => adapter.client # "none"
    /\ \A c, d \in Thread : {user[c].pc, user[d].pc} \subseteq {"connected", "confirm"} => c = d

\* A turn that has a result is over, and the result is its own.
ClaudeResults ==
    \A t \in 1 .. MaxTurns : results[t] # 0 => results[t] = t /\ t <= adapter.top /\ t # adapter.turn

IsPrompt(i) == i \in DOMAIN cli.lines /\ cli.lines[i].kind = "prompt"
IsResult(i) == i \in DOMAIN cli.wire /\ cli.wire[i].kind = "result"

\* One prompt at most is on its way to its result, and it is that of the active turn.
ClaudeFlow ==
    /\ \A i \in Nat : IsPrompt(i) => adapter.turn # 0 /\ cli.lines[i].n = adapter.turn
    /\ \A i \in DOMAIN cli.prompts : adapter.turn # 0 /\ cli.prompts[i] = adapter.turn
    /\ \A i \in Nat : IsResult(i) => adapter.turn # 0 /\ cli.wire[i].n = adapter.turn
    /\ \A i, j \in Nat : ~(IsPrompt(i) /\ IsPrompt(j) /\ i # j) /\ ~(IsResult(i) /\ IsResult(j) /\ i # j)
    /\ Len(cli.prompts) <= 1
    /\ \A i, j \in Nat : ~(IsPrompt(i) /\ IsResult(j))
    /\ cli.prompts # <<>> => \A i \in Nat : ~IsPrompt(i) /\ ~IsResult(i)

ClaudeInv == ClaudeShapes /\ ClaudeBegun /\ ClaudeFirst /\ ClaudeResults /\ ClaudeFlow /\ C!OneProcess

LEMMA ClaudeStart ==
    ASSUME C!ClaudeInit PROVE ClaudeInv
<1>1. 0 \in 0 .. MaxTurns /\ {} \in SUBSET (1 .. MaxTurns)
  BY Bounds
<1>2. /\ <<>> \in Seq(ClaudeLines) /\ <<>> \in Seq(ClaudeWire) /\ <<>> \in Seq(0 .. MaxTurns)
      /\ DOMAIN <<>> = {} /\ Len(<<>>) = 0
  OBVIOUS
<1>3. ClaudeShapes
  <2>1. adapter \in ClaudeAdapters /\ cli \in ClaudeClis /\ facade \in ClaudeFacades
    BY <1>1, <1>2 DEF C!ClaudeInit, ClaudeAdapters, ClaudeClis, ClaudeFacades
  <2>2. user \in [Thread -> ClaudeUsers] /\ results \in [1 .. MaxTurns -> 0 .. MaxTurns]
    BY <1>1 DEF C!ClaudeInit, C!Resting, C!Turns, ClaudeUsers, ClaudePlaces
  <2> QED BY <2>1, <2>2 DEF ClaudeShapes
<1>4. ClaudeBegun /\ ClaudeFirst /\ ClaudeResults /\ C!OneProcess
  BY DEF C!ClaudeInit, C!Resting, C!Turns, ClaudeBegun, ClaudeFirst, ClaudeResults, C!OneProcess
<1>5. ClaudeFlow
  BY <1>2 DEF C!ClaudeInit, ClaudeFlow, IsPrompt, IsResult
<1> QED BY <1>3, <1>4, <1>5 DEF ClaudeInv

\* A thread goes on, and nothing else changes that the rest speaks of.
LEMMA ClaudeQuiet ==
    ASSUME ClaudeInv, adapter' \in ClaudeAdapters, adapter'.turn = adapter.turn,
           adapter'.top = adapter.top, UNCHANGED <<results, cli>>,
           adapter'.probe = "held" => adapter'.client = "none",
           adapter'.client = "none" => adapter.client = "none",
           facade' \in ClaudeFacades, facade'.known <= adapter.top, facade'.ended = facade.ended,
           user' \in [Thread -> ClaudeUsers], \A c \in Thread : user'[c].turn <= adapter.top,
           ClaudeFirst'
    PROVE  ClaudeInv'
  BY DEF ClaudeInv, ClaudeShapes, ClaudeBegun, ClaudeResults, ClaudeFlow, IsPrompt, IsResult,
         C!OneProcess

LEMMA ClaudeFields ==
    ASSUME ClaudeInv
    PROVE  /\ adapter \in ClaudeAdapters /\ facade \in ClaudeFacades /\ cli \in ClaudeClis
           /\ facade.known <= adapter.top /\ user \in [Thread -> ClaudeUsers]
           /\ \A c \in Thread : user[c] \in ClaudeUsers /\ user[c].turn <= adapter.top
           /\ adapter.probe = "held" => adapter.client = "none"
           /\ adapter.top \in 0 .. MaxTurns /\ adapter.turn \in 0 .. MaxTurns
           /\ facade.known \in 0 .. MaxTurns /\ facade.known >= 0 /\ adapter.turn <= adapter.top
  BY DEF ClaudeInv, ClaudeShapes, ClaudeBegun, C!OneProcess, ClaudeFacades, ClaudeAdapters

\* Thread c goes to place pc, and keeps its turn.
LEMMA Goes ==
    ASSUME ClaudeInv, NEW c \in Thread, NEW pc \in ClaudePlaces, C!Goto(c, pc)
    PROVE  /\ user' \in [Thread -> ClaudeUsers] /\ \A d \in Thread : user'[d].turn <= adapter.top
           /\ user'[c].pc = pc /\ \A d \in Thread \ {c} : user'[d] = user[d]
<1>1. user' = [user EXCEPT ![c].pc = pc] /\ user \in [Thread -> ClaudeUsers]
  BY ClaudeFields DEF C!Goto
<1>2. user'[c] = [user[c] EXCEPT !.pc = pc] /\ \A d \in Thread \ {c} : user'[d] = user[d]
  BY <1>1
<1>3. user'[c] \in ClaudeUsers /\ user'[c].pc = pc /\ user'[c].turn = user[c].turn
  BY <1>1, <1>2 DEF ClaudeUsers
<1>4. user' \in [Thread -> ClaudeUsers]
  BY <1>1, <1>2, <1>3
<1> QED BY <1>2, <1>3, <1>4, ClaudeFields

\* It rests, or stands at a turn that has begun.
LEMMA Stands ==
    ASSUME ClaudeInv, NEW c \in Thread, NEW k \in ClaudeUsers, k.turn <= adapter.top,
           user' = [user EXCEPT ![c] = k]
    PROVE  /\ user' \in [Thread -> ClaudeUsers] /\ \A d \in Thread : user'[d].turn <= adapter.top
           /\ user'[c] = k /\ \A d \in Thread \ {c} : user'[d] = user[d]
  BY ClaudeFields

LEMMA ClaudeRests ==
    C!Resting \in ClaudeUsers /\ C!Resting.pc = "idle" /\ C!Resting.turn = 0
  BY Bounds DEF C!Resting, ClaudeUsers, ClaudePlaces
-----------------------------------------------------------------------------
LEMMA ClaudeOthers ==
    ASSUME ClaudeInv, NEW c \in Thread, user' \in [Thread -> ClaudeUsers],
           adapter'.top = adapter.top, adapter.client = "none" => adapter.top = 0,
           adapter'.client = "none" => adapter.client = "none",
           user'[c].pc \in {"connected", "confirm"} => user'[c].pc = user[c].pc,
           \A d \in Thread \ {c} : user'[d] = user[d]
    PROVE  ClaudeFirst'
<1>1. \A d \in Thread : user'[d].pc \in {"connected", "confirm"} => user'[d].pc = user[d].pc
  OBVIOUS
<1>2. \A d \in Thread : user'[d].pc = "connected" => adapter'.top = 0
  BY <1>1 DEF ClaudeInv, ClaudeFirst
<1>3. ASSUME NEW d \in Thread, NEW e \in Thread,
             {user'[d].pc, user'[e].pc} \subseteq {"connected", "confirm"}
      PROVE  d = e
  BY <1>1, <1>3 DEF ClaudeInv, ClaudeFirst
<1>4. \A d \in Thread : user'[d].pc \in {"connected", "confirm"} => adapter'.client # "none"
  BY <1>1 DEF ClaudeInv, ClaudeFirst
<1> QED BY <1>2, <1>3, <1>4 DEF ClaudeFirst

\* The moves of a thread that leave the connection alone.
LEMMA ClaudeMoves ==
    ASSUME ClaudeInv, NEW c \in Thread, UNCHANGED <<adapter, results, cli>>,
           facade' \in ClaudeFacades, facade'.known <= adapter.top, facade'.ended = facade.ended,
           user' \in [Thread -> ClaudeUsers], \A d \in Thread : user'[d].turn <= adapter.top,
           user'[c].pc \notin {"connected", "confirm"}, \A d \in Thread \ {c} : user'[d] = user[d]
    PROVE  ClaudeInv'
<1>1. adapter.client = "none" => adapter.top = 0
  BY DEF ClaudeInv, ClaudeFirst
<1>2. ClaudeFirst'
  BY <1>1, ClaudeOthers
<1> QED BY <1>2, ClaudeFields, ClaudeQuiet

LEMMA ClaudeConfirmed ==
    ASSUME ClaudeInv, NEW c \in Thread, C!Confirmed(c) PROVE ClaudeInv'
  BY Goes, ClaudeMoves, ClaudeFields DEF C!Confirmed, ClaudePlaces

LEMMA ClaudeRemember ==
    ASSUME ClaudeInv, NEW c \in Thread, C!Remember(c) PROVE ClaudeInv'
<1>1. user[c] \in ClaudeUsers /\ user[c].turn <= adapter.top /\ facade \in ClaudeFacades
  BY ClaudeFields
<1>2. user[c].turn \in 0 .. MaxTurns
  BY <1>1 DEF ClaudeUsers
<1>3. facade' = [facade EXCEPT !.known = user[c].turn]
  BY DEF C!Remember
<1>4. facade' \in ClaudeFacades /\ facade'.known = user[c].turn /\ facade'.ended = facade.ended
  BY <1>1, <1>2, <1>3 DEF ClaudeFacades
<1> QED BY <1>1, <1>4, Goes, ClaudeMoves DEF C!Remember, ClaudePlaces

LEMMA ClaudeWait ==
    ASSUME ClaudeInv, NEW c \in Thread, C!Wait(c) PROVE ClaudeInv'
<1>1. C!Outcome(user[c].turn) \in {"given", "lost"}
  BY DEF C!Outcome
<1>2. C!Outcome(user[c].turn) \in ClaudePlaces
  BY <1>1 DEF ClaudePlaces
<1>3. C!Goto(c, C!Outcome(user[c].turn)) /\ UNCHANGED <<adapter, results, cli, facade>>
  BY DEF C!Wait
<1> QED BY <1>1, <1>2, <1>3, Goes, ClaudeMoves, ClaudeFields

\* A thread returns.
LEMMA ClaudeReturns ==
    ASSUME ClaudeInv, NEW c \in Thread, UNCHANGED <<adapter, results, cli, facade>>,
           user' = [user EXCEPT ![c] = C!Resting]
    PROVE  ClaudeInv'
<1>1. C!Resting.turn <= adapter.top
  BY ClaudeRests, ClaudeFields
<1> QED BY <1>1, ClaudeRests, Stands, ClaudeMoves, ClaudeFields

LEMMA ClaudeCancel ==
    ASSUME ClaudeInv, NEW c \in Thread, C!Cancel(c) PROVE ClaudeInv'
<1> DEFINE k == [pc |-> "cancel", turn |-> facade.known]
<1>1. CASE facade.known \in facade.ended
  <2>1. facade' = [facade EXCEPT !.known = 0] /\ facade \in ClaudeFacades /\ UNCHANGED user
    BY <1>1, ClaudeFields DEF C!Cancel
  <2>2. facade' \in ClaudeFacades /\ facade'.known = 0 /\ facade'.ended = facade.ended
    BY <2>1, Bounds DEF ClaudeFacades
  <2>3. user[c].pc = "idle" /\ 0 <= adapter.top /\ UNCHANGED <<adapter, results, cli>>
    BY ClaudeFields DEF C!Cancel, C!At
  <2> QED BY <2>1, <2>2, <2>3, ClaudeMoves, ClaudeFields
<1>2. CASE facade.known \notin facade.ended
  <2>1. user' = [user EXCEPT ![c] = k] /\ UNCHANGED <<adapter, results, cli, facade>>
    BY <1>2 DEF C!Cancel
  <2>2. k \in ClaudeUsers /\ k.turn <= adapter.top /\ k.pc = "cancel"
    BY ClaudeFields DEF ClaudeUsers, ClaudePlaces
  <2> HIDE DEF k
  <2> QED BY <2>1, <2>2, Stands, ClaudeMoves, ClaudeFields
<1> QED BY <1>1, <1>2

LEMMA ClaudeInterrupt ==
    ASSUME ClaudeInv, NEW c \in Thread, C!Interrupt(c) PROVE ClaudeInv'
<1>1. UNCHANGED <<adapter, results, cli, facade>>
  BY DEF C!Interrupt
<1>2. CASE C!Goto(c, "interrupt")
  BY <1>1, <1>2, Goes, ClaudeMoves, ClaudeFields DEF ClaudePlaces
<1>3. CASE user' = [user EXCEPT ![c] = C!Resting]
  BY <1>1, <1>3, ClaudeReturns
<1> QED BY <1>2, <1>3 DEF C!Interrupt

LEMMA ClaudeEnds ==
    ASSUME ClaudeInv, NEW c \in Thread, C!Return(c) \/ C!Acknowledged(c) PROVE ClaudeInv'
  BY ClaudeReturns DEF C!Return, C!Acknowledged

LEMMA ClaudeDiscover ==
    ASSUME ClaudeInv, C!Discover PROVE ClaudeInv'
<1>1. PICK probe \in {"gone", "held"} : adapter' = [adapter EXCEPT !.probe = probe]
  BY DEF C!Discover
<1>2. adapter \in ClaudeAdapters /\ adapter.client = "none" /\ UNCHANGED <<results, cli, user, facade>>
  BY ClaudeFields DEF C!Discover
<1>3. adapter' \in ClaudeAdapters
  BY <1>1, <1>2 DEF ClaudeAdapters
<1>4. adapter'.turn = adapter.turn /\ adapter'.top = adapter.top /\ adapter'.client = adapter.client
  BY <1>1, <1>2 DEF ClaudeAdapters
<1>5. ClaudeFirst'
  BY <1>2, <1>4 DEF ClaudeInv, ClaudeFirst
<1> QED BY <1>2, <1>3, <1>4, <1>5, ClaudeFields, ClaudeQuiet

LEMMA ClaudeFail ==
    ASSUME ClaudeInv, C!Fail PROVE ClaudeInv'
<1>1. /\ adapter' = [adapter EXCEPT !.client = "failed"] /\ adapter \in ClaudeAdapters
      /\ adapter.client = "up" /\ UNCHANGED <<results, cli, user, facade>>
  BY ClaudeFields DEF C!Fail, C!Failed
<1>2. adapter' \in ClaudeAdapters
  BY <1>1 DEF ClaudeAdapters
<1>3. /\ adapter'.turn = adapter.turn /\ adapter'.top = adapter.top /\ adapter'.client = "failed"
      /\ adapter'.probe = adapter.probe
  BY <1>1 DEF ClaudeAdapters
<1>4. ClaudeFirst' /\ adapter.probe # "held"
  BY <1>1, <1>3 DEF ClaudeInv, ClaudeFirst, C!OneProcess
<1> QED BY <1>1, <1>2, <1>3, <1>4, ClaudeFields, ClaudeQuiet

LEMMA ClaudeConnect ==
    ASSUME ClaudeInv, NEW c \in Thread, C!Connect(c) PROVE ClaudeInv'
<1>1. /\ adapter' = [adapter EXCEPT !.client = "up"] /\ adapter \in ClaudeAdapters
      /\ adapter.client = "none" /\ adapter.probe # "held" /\ C!Goto(c, "connected")
      /\ UNCHANGED <<results, cli, facade>> /\ C!LockFree /\ "connected" \in ClaudePlaces
  BY ClaudeFields DEF C!Connect, C!Startable, ClaudePlaces
<1>2. adapter' \in ClaudeAdapters
  BY <1>1 DEF ClaudeAdapters
<1>3. /\ adapter'.turn = adapter.turn /\ adapter'.top = adapter.top /\ adapter'.client = "up"
      /\ adapter'.probe = adapter.probe
  BY <1>1 DEF ClaudeAdapters
<1>4. /\ user' \in [Thread -> ClaudeUsers] /\ \A d \in Thread : user'[d].turn <= adapter.top
      /\ user'[c].pc = "connected" /\ \A d \in Thread \ {c} : user'[d] = user[d]
  BY <1>1, Goes
<1>5. \A d \in Thread \ {c} : user'[d].pc \notin {"connected", "confirm"}
  BY <1>1, <1>4 DEF C!LockFree
<1>6. adapter.top = 0
  BY <1>1 DEF ClaudeInv, ClaudeFirst
<1>7. ClaudeFirst'
  BY <1>3, <1>5, <1>6 DEF ClaudeFirst
<1> QED BY <1>1, <1>2, <1>3, <1>4, <1>7, ClaudeFields, ClaudeQuiet

LEMMA ClaudeGiveUp ==
    ASSUME ClaudeInv, NEW c \in Thread, C!GiveUp(c) PROVE ClaudeInv'
<1>1. /\ adapter' = [adapter EXCEPT !.client = "closed", !.closed = TRUE]
      /\ adapter \in ClaudeAdapters /\ user[c].pc \in {"connected", "confirm"}
      /\ user' = [user EXCEPT ![c] = C!Resting] /\ UNCHANGED <<results, cli, facade>>
  BY ClaudeFields DEF C!GiveUp
<1>2. adapter' \in ClaudeAdapters
  BY <1>1 DEF ClaudeAdapters
<1>3. adapter'.turn = adapter.turn /\ adapter'.top = adapter.top /\ adapter'.client = "closed"
  BY <1>1 DEF ClaudeAdapters
<1>4. adapter'.probe = adapter.probe
  BY <1>1 DEF ClaudeAdapters
<1>5. /\ user' \in [Thread -> ClaudeUsers] /\ \A d \in Thread : user'[d].turn <= adapter.top
      /\ user'[c] = C!Resting /\ \A d \in Thread \ {c} : user'[d] = user[d]
  BY <1>1, ClaudeRests, ClaudeFields, Stands
<1>6. \A d \in Thread : user'[d].pc \notin {"connected", "confirm"}
  <2>1. \A d \in Thread \ {c} : user[d].pc \notin {"connected", "confirm"}
    BY <1>1 DEF ClaudeInv, ClaudeFirst
  <2> QED BY <2>1, <1>5, ClaudeRests
<1>7. ClaudeFirst'
  BY <1>3, <1>6 DEF ClaudeFirst
<1>8. adapter'.probe = "held" => adapter'.client = "none"
  <2> SUFFICES adapter.probe # "held"
    BY <1>4
  <2> QED BY <1>1 DEF ClaudeInv, ClaudeFirst, C!OneProcess
<1> QED BY <1>1, <1>2, <1>3, <1>5, <1>7, <1>8, ClaudeFields, ClaudeQuiet

LEMMA ClaudeClose ==
    ASSUME ClaudeInv, NEW c \in Thread, C!Close(c) PROVE ClaudeInv'
<1>1. PICK client \in IF adapter.client = "none" THEN {"none"} ELSE {adapter.client, "closed"} :
          adapter' = [adapter EXCEPT !.closed = TRUE, !.client = client,
                          !.probe = IF client \in {"none", "closed"} THEN "gone" ELSE @]
  BY DEF C!Close
<1>2. /\ adapter \in ClaudeAdapters /\ C!LockFree /\ UNCHANGED <<results, cli, user>>
      /\ facade' = [facade EXCEPT !.known = 0] /\ facade \in ClaudeFacades
  BY ClaudeFields DEF C!Close
<1>3. /\ adapter.client \in {"none", "up", "failed", "closed"}
      /\ adapter.probe \in {"none", "gone", "held"}
  BY <1>2 DEF ClaudeAdapters
<1>4. client \in {"none", "up", "failed", "closed"} /\ (client = "none" <=> adapter.client = "none")
  BY <1>1, <1>3
<1>5. adapter' \in ClaudeAdapters
  BY <1>1, <1>2, <1>3, <1>4 DEF ClaudeAdapters
<1>6. /\ adapter'.turn = adapter.turn /\ adapter'.top = adapter.top /\ adapter'.client = client
      /\ adapter'.probe \in {"gone", adapter.probe}
  BY <1>1, <1>2 DEF ClaudeAdapters
<1>7. adapter'.probe = "held" => adapter'.client = "none"
  BY <1>4, <1>6, ClaudeFields
<1>8. facade' \in ClaudeFacades /\ facade'.known = 0 /\ facade'.ended = facade.ended
  BY <1>2, Bounds DEF ClaudeFacades
<1>9. ClaudeFirst'
  BY <1>2, <1>4, <1>6 DEF ClaudeInv, ClaudeFirst, C!LockFree
<1> QED BY <1>2, <1>4, <1>5, <1>6, <1>7, <1>8, <1>9, ClaudeFields, ClaudeQuiet
-----------------------------------------------------------------------------
(* The steps that move a prompt, an interrupt or an answer.                 *)

LEMMA ClaudeLists ==
    ASSUME ClaudeInv
    PROVE  /\ cli.lines \in Seq(ClaudeLines) /\ cli.prompts \in Seq(0 .. MaxTurns)
           /\ cli.wire \in Seq(ClaudeWire)
  BY DEF ClaudeInv, ClaudeShapes, ClaudeClis

\* No prompt is on its way when no turn is active.
LEMMA ClaudeSilent ==
    ASSUME ClaudeInv, adapter.turn = 0
    PROVE  cli.prompts = <<>> /\ \A i \in Nat : ~IsPrompt(i) /\ ~IsResult(i)
<1>1. \A i \in Nat : ~IsPrompt(i) /\ ~IsResult(i)
  BY DEF ClaudeInv, ClaudeFlow
<1>2. \A i \in DOMAIN cli.prompts : FALSE
  BY DEF ClaudeInv, ClaudeFlow
<1>3. cli.prompts = <<>>
  BY <1>2, ClaudeLists, Taking
<1> QED BY <1>1, <1>3

\* A prompt is put: that of the turn that begins.
LEMMA ClaudePut ==
    ASSUME ClaudeInv, adapter.turn = 0, NEW n \in 1 .. MaxTurns, adapter'.turn = n,
           C!Put([kind |-> "prompt", n |-> n])
    PROVE  cli' \in ClaudeClis /\ ClaudeFlow'
<1> DEFINE line == [kind |-> "prompt", n |-> n]
<1>1. line \in ClaudeLines /\ line.kind = "prompt" /\ line.n = n /\ n # 0
  BY DEF ClaudeLines
<1>2. cli' = [cli EXCEPT !.lines = Append(cli.lines, line)] /\ cli \in ClaudeClis
  BY ClaudeFields DEF C!Put
<1> HIDE DEF line
<1>3. /\ Append(cli.lines, line) \in Seq(ClaudeLines) /\ Len(cli.lines) \in Nat
      /\ Append(cli.lines, line)[Len(cli.lines) + 1] = line
      /\ \A i \in DOMAIN Append(cli.lines, line) :
            \/ i \in DOMAIN cli.lines /\ Append(cli.lines, line)[i] = cli.lines[i]
            \/ i = Len(cli.lines) + 1
  BY <1>1, ClaudeLists, Appending
<1>4. /\ cli' \in ClaudeClis /\ cli'.lines = Append(cli.lines, line)
      /\ cli'.prompts = cli.prompts /\ cli'.wire = cli.wire
  BY <1>2, <1>3 DEF ClaudeClis
<1>5. cli.prompts = <<>> /\ \A i \in Nat : ~IsPrompt(i) /\ ~IsResult(i)
  BY ClaudeSilent
<1>6. \A i \in Nat : ~IsResult(i)'
  BY <1>4, <1>5 DEF IsResult
<1>7. \A i \in Nat : IsPrompt(i)' => i = Len(cli.lines) + 1 /\ cli'.lines[i] = line
  BY <1>3, <1>4, <1>5 DEF IsPrompt
<1>8. DOMAIN cli'.prompts = {} /\ Len(cli'.prompts) <= 1 /\ cli'.prompts = <<>>
  BY <1>4, <1>5
<1> QED BY <1>1, <1>4, <1>6, <1>7, <1>8 DEF ClaudeFlow

\* A turn begins: that after the last one.
LEMMA ClaudeBegins ==
    ASSUME ClaudeInv, adapter.turn = 0, adapter.top + 1 \in 1 .. MaxTurns,
           NEW c \in Thread, adapter' = [adapter EXCEPT !.turn = adapter.top + 1, !.top = adapter.top + 1],
           UNCHANGED <<results, facade>>, adapter.client = "up",
           cli' \in ClaudeClis, ClaudeFlow',
           \/ UNCHANGED user
           \/ \E pc \in ClaudePlaces : user' = [user EXCEPT ![c] = [pc |-> pc, turn |-> adapter.top + 1]],
           ClaudeFirst'
    PROVE  ClaudeInv'
<1>1. adapter \in ClaudeAdapters /\ adapter.top \in 0 .. MaxTurns
  BY ClaudeFields
<1>2. /\ adapter' \in ClaudeAdapters /\ adapter'.turn = adapter.top + 1
      /\ adapter'.top = adapter.top + 1 /\ adapter'.client = "up" /\ adapter'.probe = adapter.probe
  <2>1. adapter.top + 1 \in 0 .. MaxTurns
    BY <1>1
  <2>2. adapter' \in ClaudeAdapters
    BY <1>1, <2>1 DEF ClaudeAdapters
  <2>3. /\ adapter'.turn = adapter.top + 1 /\ adapter'.top = adapter.top + 1
        /\ adapter'.client = adapter.client /\ adapter'.probe = adapter.probe
    BY <1>1 DEF ClaudeAdapters
  <2> QED BY <2>2, <2>3
<1>3. user' \in [Thread -> ClaudeUsers] /\ \A d \in Thread : user'[d].turn <= adapter.top + 1
  <2>1. \A d \in Thread : user[d] \in ClaudeUsers /\ user[d].turn <= adapter.top /\ user[d].turn \in 0 .. MaxTurns
    BY ClaudeFields DEF ClaudeUsers
  <2>2. \A d \in Thread : user[d].turn <= adapter.top + 1
    BY <1>1, <2>1
  <2>3. CASE UNCHANGED user
    BY <2>2, <2>3, ClaudeFields
  <2>4. ASSUME NEW pc \in ClaudePlaces, user' = [user EXCEPT ![c] = [pc |-> pc, turn |-> adapter.top + 1]]
        PROVE  user' \in [Thread -> ClaudeUsers] /\ \A d \in Thread : user'[d].turn <= adapter.top + 1
    <3> DEFINE k == [pc |-> pc, turn |-> adapter.top + 1]
    <3>1. k \in ClaudeUsers /\ k.turn <= adapter.top + 1
      BY <1>1 DEF ClaudeUsers
    <3>2. user' = [user EXCEPT ![c] = k] /\ user \in [Thread -> ClaudeUsers]
      BY <2>4, ClaudeFields
    <3> HIDE DEF k
    <3> QED BY <3>1, <3>2, <2>2
  <2> QED BY <2>3, <2>4
<1>4. ClaudeShapes'
  BY <1>2, <1>3 DEF ClaudeInv, ClaudeShapes
<1>5. ClaudeBegun'
  <2>1. /\ facade.known \in Nat /\ facade.known <= adapter.top
        /\ \A t \in facade.ended : t \in Nat /\ t <= adapter.top
    BY DEF ClaudeInv, ClaudeShapes, ClaudeBegun, ClaudeFacades
  <2>2. facade.known <= adapter.top + 1 /\ \A t \in facade.ended : t <= adapter.top + 1
    BY <1>1, <2>1
  <2> QED BY <1>1, <1>2, <1>3, <2>2 DEF ClaudeBegun
<1>6. ClaudeResults'
  BY <1>1, <1>2 DEF ClaudeInv, ClaudeResults
<1>7. C!OneProcess'
  BY <1>2 DEF ClaudeInv, C!OneProcess
<1> QED BY <1>4, <1>5, <1>6, <1>7 DEF ClaudeInv

LEMMA ClaudeFirstPrompt ==
    ASSUME ClaudeInv, NEW c \in Thread, C!FirstPrompt(c) PROVE ClaudeInv'
<1>1. /\ user[c].pc = "connected" /\ adapter.client = "up" /\ UNCHANGED <<results, facade>>
      /\ adapter' = [adapter EXCEPT !.turn = 1, !.top = 1] /\ adapter \in ClaudeAdapters
      /\ C!Put([kind |-> "prompt", n |-> 1])
      /\ user' = [user EXCEPT ![c] = [pc |-> "confirm", turn |-> 1]]
      /\ user \in [Thread -> ClaudeUsers]
  BY ClaudeFields DEF C!FirstPrompt, C!At
<1>2. adapter.top = 0 /\ adapter.turn = 0 /\ 1 \in 1 .. MaxTurns
  <2>1. adapter.top = 0
    BY <1>1 DEF ClaudeInv, ClaudeFirst
  <2> QED BY <2>1, ClaudeFields, Bounds
<1>3. adapter'.turn = 1 /\ adapter'.top = 1 /\ adapter'.client = "up"
  BY <1>1 DEF ClaudeAdapters
<1>4. cli' \in ClaudeClis /\ ClaudeFlow'
  BY <1>1, <1>2, <1>3, ClaudePut
<1>5. user'[c].pc = "confirm" /\ \A d \in Thread \ {c} : user'[d] = user[d]
  BY <1>1
<1>6. \A d \in Thread \ {c} : user'[d].pc \notin {"connected", "confirm"}
  BY <1>1, <1>5 DEF ClaudeInv, ClaudeFirst
<1>7. ClaudeFirst'
  BY <1>3, <1>5, <1>6 DEF ClaudeFirst
<1>8. /\ adapter.top + 1 \in 1 .. MaxTurns
      /\ adapter' = [adapter EXCEPT !.turn = adapter.top + 1, !.top = adapter.top + 1]
      /\ user' = [user EXCEPT ![c] = [pc |-> "confirm", turn |-> adapter.top + 1]]
      /\ "confirm" \in ClaudePlaces
  BY <1>1, <1>2 DEF ClaudePlaces
<1> QED BY <1>1, <1>2, <1>4, <1>7, <1>8, ClaudeBegins

LEMMA ClaudeSendMessage ==
    ASSUME ClaudeInv, NEW c \in Thread, C!SendMessage(c) PROVE ClaudeInv'
<1>1. /\ C!LockFree /\ adapter.client = "up" /\ adapter.turn = 0 /\ adapter.top < MaxTurns
      /\ adapter' = [adapter EXCEPT !.turn = adapter.top + 1, !.top = adapter.top + 1]
      /\ UNCHANGED <<results, facade>> /\ adapter \in ClaudeAdapters
      /\ \/ /\ C!Put([kind |-> "prompt", n |-> adapter.top + 1])
            /\ user' = [user EXCEPT ![c] = [pc |-> "sent", turn |-> adapter.top + 1]]
         \/ UNCHANGED <<cli, user>>
  BY ClaudeFields DEF C!SendMessage, C!MaySend
<1>2. adapter.top + 1 \in 1 .. MaxTurns
  BY <1>1, Bounds, ClaudeFields
<1>3. /\ adapter'.turn = adapter.top + 1 /\ adapter'.top = adapter.top + 1
      /\ adapter'.client = "up"
  BY <1>1 DEF ClaudeAdapters
<1>4. cli' \in ClaudeClis /\ ClaudeFlow'
  <2>1. CASE C!Put([kind |-> "prompt", n |-> adapter.top + 1])
    BY <1>1, <1>2, <1>3, <2>1, ClaudePut
  <2>2. CASE UNCHANGED <<cli, user>>
    <3>1. cli.prompts = <<>> /\ \A i \in Nat : ~IsPrompt(i) /\ ~IsResult(i)
      BY <1>1, ClaudeSilent
    <3>2. cli'.prompts = <<>> /\ \A i \in Nat : ~IsPrompt(i)' /\ ~IsResult(i)'
      BY <2>2, <3>1 DEF IsPrompt, IsResult
    <3>3. DOMAIN <<>> = {} /\ Len(<<>>) = 0
      OBVIOUS
    <3> QED BY <2>2, <3>2, <3>3, ClaudeFields DEF ClaudeFlow
  <2> QED BY <1>1, <2>1, <2>2
<1>5. \A d \in Thread : user'[d].pc \notin {"connected", "confirm"}
  <2>1. CASE UNCHANGED user
    BY <1>1, <2>1 DEF C!LockFree
  <2>2. CASE user' = [user EXCEPT ![c] = [pc |-> "sent", turn |-> adapter.top + 1]]
    BY <1>1, <2>2, ClaudeFields DEF C!LockFree
  <2> QED BY <1>1, <2>1, <2>2
<1>6. ClaudeFirst'
  BY <1>3, <1>5 DEF ClaudeFirst
<1>7. "sent" \in ClaudePlaces
  BY DEF ClaudePlaces
<1> QED BY <1>1, <1>2, <1>4, <1>6, <1>7, ClaudeBegins
-----------------------------------------------------------------------------
(* What waits for the CLI and for the reader.                               *)

LEMMA ClaudeTalk ==
    ASSUME ClaudeInv, adapter' \in ClaudeAdapters, adapter'.turn = adapter.turn,
           adapter'.top = adapter.top, adapter.client = "up", adapter'.client # "none",
           adapter'.probe = adapter.probe, UNCHANGED <<results, facade>>,
           user' \in [Thread -> ClaudeUsers], \A c \in Thread : user'[c].turn <= adapter.top,
           \A c \in Thread : user'[c].pc \in {"connected", "confirm"} => user'[c].pc = user[c].pc,
           cli' \in ClaudeClis, ClaudeFlow'
    PROVE  ClaudeInv'
<1>1. ClaudeShapes'
  BY DEF ClaudeInv, ClaudeShapes
<1>2. ClaudeBegun' /\ ClaudeResults'
  BY DEF ClaudeInv, ClaudeBegun, ClaudeResults
<1>3. ClaudeFirst'
  BY DEF ClaudeInv, ClaudeFirst
<1>4. C!OneProcess'
  BY DEF ClaudeInv, C!OneProcess
<1> QED BY <1>1, <1>2, <1>3, <1>4 DEF ClaudeInv

\* A line that is not a prompt is put.
LEMMA ClaudeLine ==
    ASSUME ClaudeInv, NEW line \in ClaudeLines, line.kind # "prompt", C!Put(line),
           UNCHANGED adapter
    PROVE  cli' \in ClaudeClis /\ ClaudeFlow'
<1>1. cli' = [cli EXCEPT !.lines = Append(cli.lines, line)] /\ cli \in ClaudeClis
  BY ClaudeFields DEF C!Put
<1>2. /\ Append(cli.lines, line) \in Seq(ClaudeLines) /\ Len(cli.lines) \in Nat
      /\ Append(cli.lines, line)[Len(cli.lines) + 1] = line
      /\ \A i \in DOMAIN Append(cli.lines, line) :
            \/ i \in DOMAIN cli.lines /\ Append(cli.lines, line)[i] = cli.lines[i]
            \/ i = Len(cli.lines) + 1
  BY ClaudeLists, Appending
<1>3. /\ cli' \in ClaudeClis /\ cli'.lines = Append(cli.lines, line)
      /\ cli'.prompts = cli.prompts /\ cli'.wire = cli.wire
  BY <1>1, <1>2 DEF ClaudeClis
<1>4. \A i \in Nat : IsPrompt(i)' => IsPrompt(i) /\ cli'.lines[i] = cli.lines[i]
  BY <1>2, <1>3 DEF IsPrompt
<1>5. \A i \in Nat : IsResult(i)' <=> IsResult(i)
  BY <1>3 DEF IsResult
<1> QED BY <1>3, <1>4, <1>5 DEF ClaudeInv, ClaudeFlow

LEMMA ClaudeControl ==
    ASSUME ClaudeInv, NEW c \in Thread, C!Control(c) PROVE ClaudeInv'
<1>1. UNCHANGED <<adapter, results, facade>> /\ user[c] \in ClaudeUsers
  BY ClaudeFields DEF C!Control
<1>2. CASE user' = [user EXCEPT ![c] = C!Resting] /\ UNCHANGED cli
  BY <1>1, <1>2, ClaudeReturns
<1>3. CASE /\ adapter.client = "up" /\ C!Put([kind |-> "interrupt", n |-> user[c].turn])
           /\ C!Goto(c, "acknowledge")
  <2>1. [kind |-> "interrupt", n |-> user[c].turn] \in ClaudeLines
    BY <1>1 DEF ClaudeUsers, ClaudeLines
  <2>2. cli' \in ClaudeClis /\ ClaudeFlow'
    BY <1>1, <1>3, <2>1, ClaudeLine
  <2>3. /\ user' \in [Thread -> ClaudeUsers] /\ \A d \in Thread : user'[d].turn <= adapter.top
        /\ user'[c].pc = "acknowledge" /\ \A d \in Thread \ {c} : user'[d] = user[d]
    BY <1>3, Goes DEF ClaudePlaces
  <2>4. \A d \in Thread : user'[d].pc \in {"connected", "confirm"} => user'[d].pc = user[d].pc
    BY <2>3
  <2> QED BY <1>1, <1>3, <2>2, <2>3, <2>4, ClaudeTalk, ClaudeFields
<1> QED BY <1>2, <1>3 DEF C!Control

LEMMA ClaudeReadInit ==
    ASSUME ClaudeInv, C!ReadInit PROVE ClaudeInv'
<1>1. /\ adapter.client = "up" /\ cli.wire # <<>> /\ UNCHANGED <<results, user, facade>>
      /\ cli' = [cli EXCEPT !.wire = Tail(cli.wire)] /\ cli \in ClaudeClis
      /\ adapter' = [adapter EXCEPT !.session = TRUE] /\ adapter \in ClaudeAdapters
  BY ClaudeFields DEF C!ReadInit, C!Read
<1>2. /\ Tail(cli.wire) \in Seq(ClaudeWire)
      /\ \A i \in DOMAIN Tail(cli.wire) : i + 1 \in DOMAIN cli.wire /\ Tail(cli.wire)[i] = cli.wire[i + 1]
  BY <1>1, ClaudeLists, Taking
<1>3. /\ cli' \in ClaudeClis /\ cli'.wire = Tail(cli.wire) /\ cli'.prompts = cli.prompts
      /\ cli'.lines = cli.lines
  BY <1>1, <1>2 DEF ClaudeClis
<1>4. adapter' \in ClaudeAdapters
  BY <1>1 DEF ClaudeAdapters
<1>5. /\ adapter'.turn = adapter.turn /\ adapter'.top = adapter.top
      /\ adapter'.client = "up" /\ adapter'.probe = adapter.probe
  BY <1>1 DEF ClaudeAdapters
<1>6. \A i \in Nat : IsResult(i)' => IsResult(i + 1) /\ cli'.wire[i] = cli.wire[i + 1]
  BY <1>2, <1>3 DEF IsResult
<1>7. \A i \in Nat : IsPrompt(i)' <=> IsPrompt(i)
  BY <1>3 DEF IsPrompt
<1>8. ClaudeFlow'
  <2>1. \A i \in Nat : i + 1 \in Nat /\ \A j \in Nat : i # j => i + 1 # j + 1
    OBVIOUS
  <2>2. \A i \in Nat : IsResult(i)' => adapter.turn # 0 /\ cli'.wire[i].n = adapter.turn
    BY <1>6, <2>1 DEF ClaudeInv, ClaudeFlow
  <2>3. \A i, j \in Nat : ~(IsResult(i)' /\ IsResult(j)' /\ i # j)
    <3> SUFFICES ASSUME NEW i \in Nat, NEW j \in Nat, IsResult(i)', IsResult(j)', i # j PROVE FALSE
      OBVIOUS
    <3>1. IsResult(i + 1) /\ IsResult(j + 1) /\ i + 1 # j + 1 /\ i + 1 \in Nat /\ j + 1 \in Nat
      BY <1>6, <2>1
    <3> QED BY <3>1 DEF ClaudeInv, ClaudeFlow
  <2>4. \A i, j \in Nat : ~(IsPrompt(i)' /\ IsResult(j)')
    BY <1>6, <1>7, <2>1 DEF ClaudeInv, ClaudeFlow
  <2>5. cli'.prompts # <<>> => \A i \in Nat : ~IsPrompt(i)' /\ ~IsResult(i)'
    BY <1>3, <1>6, <1>7, <2>1 DEF ClaudeInv, ClaudeFlow
  <2>6. /\ \A i \in Nat : IsPrompt(i)' => adapter.turn # 0 /\ cli'.lines[i].n = adapter.turn
        /\ \A i, j \in Nat : ~(IsPrompt(i)' /\ IsPrompt(j)' /\ i # j)
        /\ \A i \in DOMAIN cli'.prompts : adapter.turn # 0 /\ cli'.prompts[i] = adapter.turn
        /\ Len(cli'.prompts) <= 1
    BY <1>3, <1>7 DEF ClaudeInv, ClaudeFlow
  <2> QED BY <1>5, <2>2, <2>3, <2>4, <2>5, <2>6 DEF ClaudeFlow
<1> QED BY <1>1, <1>3, <1>4, <1>5, <1>8, ClaudeTalk, ClaudeFields

\* A result is read: nothing else was on its way.
LEMMA ClaudeReads ==
    ASSUME ClaudeInv, cli.wire # <<>>, Head(cli.wire).kind = "result",
           cli' = [cli EXCEPT !.wire = Tail(cli.wire)]
    PROVE  /\ Head(cli.wire).n = adapter.turn /\ adapter.turn # 0
           /\ cli' \in ClaudeClis /\ ClaudeFlow'
<1>1. /\ Head(cli.wire) = cli.wire[1] /\ 1 \in DOMAIN cli.wire /\ Tail(cli.wire) \in Seq(ClaudeWire)
      /\ \A i \in DOMAIN Tail(cli.wire) :
            i + 1 \in DOMAIN cli.wire /\ Tail(cli.wire)[i] = cli.wire[i + 1] /\ i + 1 # 1
  BY ClaudeLists, Taking
<1>2. IsResult(1)
  BY <1>1 DEF IsResult
<1>3. cli.wire[1].n = adapter.turn /\ adapter.turn # 0
  BY <1>2 DEF ClaudeInv, ClaudeFlow
<1>4. cli.prompts = <<>> /\ \A i \in Nat : ~IsPrompt(i) /\ (i # 1 => ~IsResult(i))
  BY <1>2 DEF ClaudeInv, ClaudeFlow
<1>5. /\ cli' \in ClaudeClis /\ cli'.wire = Tail(cli.wire) /\ cli'.prompts = cli.prompts
      /\ cli'.lines = cli.lines
  BY <1>1, ClaudeFields DEF ClaudeClis
<1>6. \A i \in Nat : ~IsPrompt(i)'
  BY <1>4, <1>5 DEF IsPrompt
<1>7. \A i \in Nat : ~IsResult(i)'
  <2> SUFFICES ASSUME NEW i \in Nat, IsResult(i)' PROVE FALSE
    OBVIOUS
  <2>1. IsResult(i + 1) /\ i + 1 \in Nat /\ i + 1 # 1
    BY <1>1, <1>5 DEF IsResult
  <2> QED BY <1>4, <2>1
<1>8. DOMAIN cli'.prompts = {} /\ Len(cli'.prompts) <= 1 /\ cli'.prompts = <<>>
  BY <1>4, <1>5
<1> QED BY <1>1, <1>3, <1>5, <1>6, <1>7, <1>8 DEF ClaudeFlow

LEMMA ClaudeReadResult ==
    ASSUME ClaudeInv, C!ReadResult PROVE ClaudeInv'
<1> DEFINE t == adapter.turn
<1>1. /\ adapter.client = "up" /\ UNCHANGED user
      /\ Head(cli.wire).n = t /\ t # 0 /\ cli' \in ClaudeClis /\ ClaudeFlow'
      /\ adapter \in ClaudeAdapters /\ t \in 1 .. MaxTurns
  <2>1. adapter.client = "up" /\ UNCHANGED user
    BY DEF C!ReadResult
  <2>2. /\ cli.wire # <<>> /\ Head(cli.wire).kind = "result"
        /\ cli' = [cli EXCEPT !.wire = Tail(cli.wire)]
    BY DEF C!ReadResult, C!Read
  <2>3. Head(cli.wire).n = t /\ t # 0 /\ cli' \in ClaudeClis /\ ClaudeFlow'
    BY <2>2, ClaudeReads
  <2>4. t \in 0 .. MaxTurns
    BY ClaudeFields
  <2> QED BY <2>1, <2>3, <2>4, ClaudeFields, Bounds
<1>2. CASE C!Failed /\ UNCHANGED <<results, facade>>
  <2>1. adapter' = [adapter EXCEPT !.client = "failed"]
    BY <1>2 DEF C!Failed
  <2>2. adapter' \in ClaudeAdapters
    BY <1>1, <2>1 DEF ClaudeAdapters
  <2>3. /\ adapter'.turn = adapter.turn /\ adapter'.top = adapter.top
        /\ adapter'.client = "failed" /\ adapter'.probe = adapter.probe
    BY <1>1, <2>1 DEF ClaudeAdapters
  <2> QED BY <1>1, <1>2, <2>2, <2>3, ClaudeTalk, ClaudeFields
<1>3. CASE /\ results' = [results EXCEPT ![t] = Head(cli.wire).n]
           /\ facade' = [facade EXCEPT !.ended = facade.ended \cup {t}]
           /\ adapter' = [adapter EXCEPT !.turn = 0]
  <2>1. adapter' \in ClaudeAdapters
    BY <1>1, <1>3, Bounds DEF ClaudeAdapters
  <2>2. /\ adapter'.turn = 0 /\ adapter'.top = adapter.top
        /\ adapter'.client = "up" /\ adapter'.probe = adapter.probe
    BY <1>1, <1>3 DEF ClaudeAdapters
  <2>3. facade' \in ClaudeFacades /\ facade'.known = facade.known /\ facade'.ended = facade.ended \cup {t}
    BY <1>1, <1>3, ClaudeFields DEF ClaudeFacades
  <2>4. /\ results' \in [1 .. MaxTurns -> 0 .. MaxTurns] /\ results'[t] = t
        /\ \A s \in 1 .. MaxTurns : s # t => results'[s] = results[s]
    BY <1>1, <1>3 DEF ClaudeInv, ClaudeShapes
  <2>5. ClaudeShapes'
    BY <1>1, <2>1, <2>3, <2>4 DEF ClaudeInv, ClaudeShapes
  <2>6. ClaudeBegun'
    BY <1>1, <2>2, <2>3, ClaudeFields DEF ClaudeInv, ClaudeBegun
  <2>7. ClaudeResults'
    BY <1>1, <2>2, <2>4, ClaudeFields DEF ClaudeInv, ClaudeResults
  <2>8. ClaudeFirst' /\ C!OneProcess'
    BY <1>1, <2>2 DEF ClaudeInv, ClaudeFirst, C!OneProcess
  <2> QED BY <1>1, <2>5, <2>6, <2>7, <2>8 DEF ClaudeInv
<1> QED BY <1>2, <1>3 DEF C!ReadResult

\* A line that is not a prompt is taken.
LEMMA ClaudeTakes ==
    ASSUME ClaudeInv, cli.lines # <<>>
    PROVE  /\ Head(cli.lines) \in ClaudeLines /\ Tail(cli.lines) \in Seq(ClaudeLines)
           /\ Head(cli.lines) = cli.lines[1] /\ 1 \in DOMAIN cli.lines
           /\ \A i \in DOMAIN Tail(cli.lines) :
                 i + 1 \in DOMAIN cli.lines /\ Tail(cli.lines)[i] = cli.lines[i + 1] /\ i + 1 # 1
  BY ClaudeLists, Taking

LEMMA ClaudeTakePrompt ==
    ASSUME ClaudeInv, C!TakePrompt PROVE ClaudeInv'
<1> DEFINE n == Head(cli.lines).n
           say == IF n = 1 THEN Append(cli.wire, [kind |-> "init", n |-> 0]) ELSE cli.wire
<1>1. /\ adapter.client = "up" /\ cli.lines # <<>> /\ Head(cli.lines).kind = "prompt"
      /\ cli' = [cli EXCEPT !.lines = Tail(cli.lines), !.prompts = Append(cli.prompts, n), !.wire = say]
      /\ UNCHANGED <<adapter, results, user, facade>> /\ cli \in ClaudeClis
  BY ClaudeFields DEF C!TakePrompt, C!Says
<1>2. IsPrompt(1) /\ n = adapter.turn /\ adapter.turn # 0
  <2>1. IsPrompt(1)
    BY <1>1, ClaudeTakes DEF IsPrompt
  <2> QED BY <1>1, <2>1, ClaudeTakes DEF ClaudeInv, ClaudeFlow
<1>3. cli.prompts = <<>> /\ \A i \in Nat : ~IsResult(i) /\ (i # 1 => ~IsPrompt(i))
  BY <1>2 DEF ClaudeInv, ClaudeFlow
<1>4. n \in 0 .. MaxTurns
  BY <1>2, ClaudeFields
<1>5. /\ say \in Seq(ClaudeWire) /\ \A i \in DOMAIN say : i \in Nat
      /\ \A i \in DOMAIN say : say[i].kind = "result" => i \in DOMAIN cli.wire /\ say[i] = cli.wire[i]
  <2>1. CASE n = 1
    <3> DEFINE init == [kind |-> "init", n |-> 0]
    <3>1. init \in ClaudeWire /\ init.kind = "init"
      BY Bounds DEF ClaudeWire
    <3> HIDE DEF init
    <3>2. say = Append(cli.wire, init) /\ cli.wire \in Seq(ClaudeWire)
      BY <2>1, ClaudeLists DEF init
    <3> HIDE DEF say
    <3>3. /\ Append(cli.wire, init) \in Seq(ClaudeWire) /\ Append(cli.wire, init)[Len(cli.wire) + 1] = init
          /\ Len(cli.wire) \in Nat /\ DOMAIN Append(cli.wire, init) = 1 .. Len(cli.wire) + 1
          /\ \A i \in DOMAIN cli.wire : Append(cli.wire, init)[i] = cli.wire[i]
          /\ \A i \in DOMAIN Append(cli.wire, init) : i \in DOMAIN cli.wire \/ i = Len(cli.wire) + 1
      BY <3>1, <3>2, Appending
    <3> QED BY <3>1, <3>2, <3>3
  <2>2. CASE n # 1
    BY <2>2, ClaudeLists
  <2> QED BY <2>1, <2>2
<1> HIDE DEF say, n
<1>6. /\ Append(cli.prompts, n) \in Seq(0 .. MaxTurns) /\ Len(Append(cli.prompts, n)) = 1
      /\ \A i \in DOMAIN Append(cli.prompts, n) : Append(cli.prompts, n)[i] = n
  BY <1>3, <1>4
<1>7. /\ cli' \in ClaudeClis /\ cli'.wire = say /\ cli'.prompts = Append(cli.prompts, n)
      /\ cli'.lines = Tail(cli.lines)
  BY <1>1, <1>5, <1>6, ClaudeTakes DEF ClaudeClis
<1>8. \A i \in Nat : ~IsResult(i)'
  BY <1>3, <1>5, <1>7 DEF IsResult
<1>9. \A i \in Nat : ~IsPrompt(i)'
  <2> SUFFICES ASSUME NEW i \in Nat, IsPrompt(i)' PROVE FALSE
    OBVIOUS
  <2>1. IsPrompt(i + 1) /\ i + 1 \in Nat /\ i + 1 # 1
    BY <1>1, <1>7, ClaudeTakes DEF IsPrompt
  <2> QED BY <1>3, <2>1
<1>10. ClaudeFlow'
  BY <1>1, <1>2, <1>6, <1>7, <1>8, <1>9 DEF ClaudeFlow
<1> QED BY <1>1, <1>7, <1>10, ClaudeTalk, ClaudeFields

\* The prompt that the CLI has is answered, and nothing else is on its way.
LEMMA ClaudeAnswers ==
    ASSUME ClaudeInv, cli.prompts # <<>>, NEW lines \in Seq(ClaudeLines),
           \A i \in DOMAIN lines : \E j \in DOMAIN cli.lines : lines[i] = cli.lines[j],
           cli' = [cli EXCEPT !.lines = lines, !.prompts = Tail(cli.prompts),
                       !.wire = Append(cli.wire, [kind |-> "result", n |-> Head(cli.prompts)])],
           UNCHANGED adapter
    PROVE  cli' \in ClaudeClis /\ ClaudeFlow'
<1> DEFINE result == [kind |-> "result", n |-> Head(cli.prompts)]
<1>1. /\ Head(cli.prompts) = cli.prompts[1] /\ 1 \in DOMAIN cli.prompts
      /\ Head(cli.prompts) \in 0 .. MaxTurns /\ Tail(cli.prompts) \in Seq(0 .. MaxTurns)
      /\ Len(Tail(cli.prompts)) = Len(cli.prompts) - 1 /\ Len(cli.prompts) \in Nat
      /\ DOMAIN Tail(cli.prompts) = 1 .. Len(cli.prompts) - 1
  BY ClaudeLists, Taking
<1>2. Head(cli.prompts) = adapter.turn /\ adapter.turn # 0 /\ \A i \in Nat : ~IsPrompt(i) /\ ~IsResult(i)
  BY <1>1 DEF ClaudeInv, ClaudeFlow
<1>3. Len(Tail(cli.prompts)) <= 1 /\ Tail(cli.prompts) = <<>> /\ DOMAIN Tail(cli.prompts) = {}
  <2>1. Len(cli.prompts) <= 1
    BY DEF ClaudeInv, ClaudeFlow
  <2>2. DOMAIN Tail(cli.prompts) = {} /\ Len(Tail(cli.prompts)) <= 1
    BY <1>1, <2>1
  <2> QED BY <1>1, <2>2, Taking
<1>4. result \in ClaudeWire /\ result.n = adapter.turn
  BY <1>1, <1>2 DEF ClaudeWire
<1> HIDE DEF result
<1>5. /\ Append(cli.wire, result) \in Seq(ClaudeWire) /\ Len(cli.wire) \in Nat
      /\ Append(cli.wire, result)[Len(cli.wire) + 1] = result
      /\ \A i \in DOMAIN Append(cli.wire, result) :
            \/ i \in DOMAIN cli.wire /\ Append(cli.wire, result)[i] = cli.wire[i]
            \/ i = Len(cli.wire) + 1
  BY <1>4, ClaudeLists, Appending
<1>6. /\ cli' \in ClaudeClis /\ cli'.wire = Append(cli.wire, result)
      /\ cli'.prompts = Tail(cli.prompts) /\ cli'.lines = lines
  BY <1>1, <1>5, ClaudeFields DEF ClaudeClis, result
<1>7. \A i \in Nat : IsResult(i)' => i = Len(cli.wire) + 1 /\ cli'.wire[i] = result
  BY <1>2, <1>5, <1>6 DEF IsResult
<1>8. \A i \in Nat : ~IsPrompt(i)'
  <2>1. \A j \in DOMAIN cli.lines : j \in Nat /\ cli.lines[j].kind # "prompt"
    BY <1>2, ClaudeLists DEF IsPrompt
  <2> QED BY <1>6, <2>1 DEF IsPrompt
<1> QED BY <1>2, <1>3, <1>4, <1>6, <1>7, <1>8 DEF ClaudeFlow

LEMMA ClaudeAnswer ==
    ASSUME ClaudeInv, C!Answer PROVE ClaudeInv'
<1>1. /\ adapter.client = "up" /\ cli.prompts # <<>> /\ UNCHANGED <<adapter, results, user, facade>>
      /\ cli' = [cli EXCEPT !.prompts = Tail(cli.prompts),
                     !.wire = Append(cli.wire, [kind |-> "result", n |-> Head(cli.prompts)])]
  BY DEF C!Answer, C!Says
<1>2. cli' = [cli EXCEPT !.lines = cli.lines, !.prompts = Tail(cli.prompts),
                  !.wire = Append(cli.wire, [kind |-> "result", n |-> Head(cli.prompts)])]
  BY <1>1, ClaudeFields DEF ClaudeClis
<1>3. cli' \in ClaudeClis /\ ClaudeFlow'
  BY <1>1, <1>2, ClaudeAnswers, ClaudeLists
<1> QED BY <1>1, <1>3, ClaudeTalk, ClaudeFields

LEMMA ClaudeTakeInterrupt ==
    ASSUME ClaudeInv, C!TakeInterrupt PROVE ClaudeInv'
<1>1. /\ adapter.client = "up" /\ cli.lines # <<>> /\ UNCHANGED <<adapter, results, user, facade>>
      /\ cli \in ClaudeClis
  BY ClaudeFields DEF C!TakeInterrupt
<1>2. cli' \in ClaudeClis /\ ClaudeFlow'
  <2>1. CASE cli.prompts = <<>>
    <3>1. cli' = [cli EXCEPT !.lines = Tail(cli.lines)]
      BY <2>1 DEF C!TakeInterrupt
    <3>2. /\ cli' \in ClaudeClis /\ cli'.wire = cli.wire /\ cli'.prompts = cli.prompts
          /\ cli'.lines = Tail(cli.lines)
      BY <1>1, <3>1, ClaudeTakes DEF ClaudeClis
    <3>3. \A i \in Nat : IsPrompt(i)' => IsPrompt(i + 1) /\ cli'.lines[i] = cli.lines[i + 1]
      BY <1>1, <3>2, ClaudeTakes DEF IsPrompt
    <3>4. \A i \in Nat : IsResult(i)' <=> IsResult(i)
      BY <3>2 DEF IsResult
    <3>5. \A i \in Nat : i + 1 \in Nat /\ \A j \in Nat : i # j => i + 1 # j + 1
      OBVIOUS
    <3>6. \A i \in Nat : IsPrompt(i)' => adapter.turn # 0 /\ cli'.lines[i].n = adapter.turn
      BY <3>3, <3>5 DEF ClaudeInv, ClaudeFlow
    <3>7. \A i, j \in Nat : ~(IsPrompt(i)' /\ IsPrompt(j)' /\ i # j)
      <4> SUFFICES ASSUME NEW i \in Nat, NEW j \in Nat, IsPrompt(i)', IsPrompt(j)', i # j PROVE FALSE
        OBVIOUS
      <4>1. IsPrompt(i + 1) /\ IsPrompt(j + 1) /\ i + 1 # j + 1 /\ i + 1 \in Nat /\ j + 1 \in Nat
        BY <3>3, <3>5
      <4> QED BY <4>1 DEF ClaudeInv, ClaudeFlow
    <3>8. \A i, j \in Nat : ~(IsPrompt(i)' /\ IsResult(j)')
      BY <3>3, <3>4, <3>5 DEF ClaudeInv, ClaudeFlow
    <3>9. /\ \A i \in Nat : IsResult(i)' => adapter.turn # 0 /\ cli'.wire[i].n = adapter.turn
          /\ \A i, j \in Nat : ~(IsResult(i)' /\ IsResult(j)' /\ i # j)
      BY <3>2, <3>4 DEF ClaudeInv, ClaudeFlow
    <3>10. DOMAIN cli'.prompts = {} /\ Len(cli'.prompts) <= 1 /\ cli'.prompts = <<>>
      BY <2>1, <3>2
    <3> QED BY <1>1, <3>2, <3>6, <3>7, <3>8, <3>9, <3>10 DEF ClaudeFlow
  <2>2. CASE cli.prompts # <<>>
    <3>1. cli' = [cli EXCEPT !.lines = Tail(cli.lines), !.prompts = Tail(cli.prompts),
                      !.wire = Append(cli.wire, [kind |-> "result", n |-> Head(cli.prompts)])]
      BY <2>2 DEF C!TakeInterrupt, C!Says
    <3>2. \A i \in DOMAIN Tail(cli.lines) : \E j \in DOMAIN cli.lines : Tail(cli.lines)[i] = cli.lines[j]
      BY <1>1, ClaudeTakes
    <3> QED BY <1>1, <2>2, <3>1, <3>2, ClaudeTakes, ClaudeAnswers
  <2> QED BY <2>1, <2>2
<1> QED BY <1>1, <1>2, ClaudeTalk, ClaudeFields
-----------------------------------------------------------------------------
LEMMA ClaudeStep ==
    ASSUME ClaudeInv, C!ClaudeNext PROVE ClaudeInv'
<1>1. CASE \/ C!Discover \/ C!ReadInit \/ C!ReadResult \/ C!Fail \/ C!TakePrompt
           \/ C!TakeInterrupt \/ C!Answer
  BY <1>1, ClaudeDiscover, ClaudeReadInit, ClaudeReadResult, ClaudeFail, ClaudeTakePrompt,
     ClaudeTakeInterrupt, ClaudeAnswer
<1>2. ASSUME NEW c \in Thread,
             \/ C!Connect(c) \/ C!FirstPrompt(c) \/ C!Confirmed(c) \/ C!GiveUp(c) \/ C!Close(c)
             \/ C!SendMessage(c) \/ C!Remember(c) \/ C!Wait(c) \/ C!Return(c)
             \/ C!Cancel(c) \/ C!Interrupt(c) \/ C!Control(c) \/ C!Acknowledged(c)
      PROVE  ClaudeInv'
  BY <1>2, ClaudeConnect, ClaudeFirstPrompt, ClaudeConfirmed, ClaudeGiveUp, ClaudeClose,
     ClaudeSendMessage, ClaudeRemember, ClaudeWait, ClaudeEnds, ClaudeCancel, ClaudeInterrupt,
     ClaudeControl
<1> QED BY <1>1, <1>2 DEF C!ClaudeNext

\* What the runs say of it.
LEMMA ClaudeSays ==
    ASSUME ClaudeInv PROVE C!ClaudeTypeOK /\ C!ResultsOwn /\ C!OneProcess
<1>1. C!ResultsOwn
  BY DEF ClaudeInv, ClaudeShapes, ClaudeResults, C!ResultsOwn, C!Turns
<1>2. /\ adapter.probe \in {"none", "gone", "held"}
      /\ adapter.client \in {"none", "up", "failed", "closed"}
      /\ adapter.turn \in 0 .. adapter.top /\ adapter.top \in 0 .. MaxTurns
  <2>1. adapter \in ClaudeAdapters /\ adapter.turn <= adapter.top
    BY ClaudeFields
  <2> QED BY <2>1, Bounds DEF ClaudeAdapters
<1>3. results \in [C!Turns -> 0 .. MaxTurns]
  BY DEF ClaudeInv, ClaudeShapes, C!Turns
<1>4. adapter.turn # 0 => results[adapter.turn] = 0
  <2> SUFFICES ASSUME adapter.turn # 0, results[adapter.turn] # 0 PROVE FALSE
    OBVIOUS
  <2>1. adapter.turn \in 1 .. MaxTurns
    BY ClaudeFields, Bounds
  <2> QED BY <2>1 DEF ClaudeInv, ClaudeResults
<1>5. facade.known \in 0 .. adapter.top /\ facade.ended \subseteq 1 .. adapter.top
  <2>1. facade.known \in 0 .. adapter.top
    BY ClaudeFields
  <2>2. \A t \in facade.ended : t \in 1 .. MaxTurns /\ t <= adapter.top
    BY ClaudeFields DEF ClaudeInv, ClaudeBegun, ClaudeFacades
  <2> QED BY <2>1, <2>2, ClaudeFields
<1>6. ASSUME NEW c \in Thread PROVE user[c].turn \in 0 .. adapter.top
  <2>1. user[c] \in ClaudeUsers /\ user[c].turn <= adapter.top /\ adapter.top \in 0 .. MaxTurns
    BY ClaudeFields
  <2>2. user[c].turn \in 0 .. MaxTurns
    BY <2>1 DEF ClaudeUsers
  <2> QED BY <2>1, <2>2, Bounds
<1> QED BY <1>1, <1>2, <1>3, <1>4, <1>5, <1>6 DEF C!ClaudeTypeOK, ClaudeInv

\* A wait of this session ends without a result only if there is none.
LEMMA ClaudeGiven ==
    ASSUME ClaudeInv, C!ClaudeNext PROVE C!ResultGiven
<1> SUFFICES ASSUME NEW d \in Thread, user[d].pc = "wait", user'[d].pc = "lost"
             PROVE  results[user[d].turn] = 0
  BY DEF C!ResultGiven
<1>1. user \in [Thread -> ClaudeUsers] /\ C!Resting.pc = "idle"
  BY ClaudeFields, ClaudeRests
<1>2. ASSUME NEW c \in Thread, NEW pc, C!Goto(c, pc), pc # "lost" PROVE FALSE
  BY <1>1, <1>2 DEF C!Goto, ClaudeUsers
<1>3. ASSUME NEW c \in Thread, NEW k, user' = [user EXCEPT ![c] = k], k.pc # "lost" PROVE FALSE
  BY <1>1, <1>3
<1>4. user' # user
  OBVIOUS
<1>5. CASE \/ C!Discover \/ C!ReadInit \/ C!ReadResult \/ C!Fail \/ C!TakePrompt
           \/ C!TakeInterrupt \/ C!Answer
  BY <1>4, <1>5 DEF C!Discover, C!ReadInit, C!ReadResult, C!Fail, C!TakePrompt, C!TakeInterrupt,
     C!Answer
<1>6. ASSUME NEW c \in Thread, C!Connect(c) \/ C!Confirmed(c) \/ C!Remember(c)
      PROVE  FALSE
  BY <1>2, <1>6 DEF C!Connect, C!Confirmed, C!Remember
<1>7. ASSUME NEW c \in Thread, C!FirstPrompt(c) \/ C!GiveUp(c) \/ C!SendMessage(c) \/ C!Return(c)
                                  \/ C!Cancel(c) \/ C!Acknowledged(c)
      PROVE  FALSE
  BY <1>1, <1>3, <1>4, <1>7
     DEF C!FirstPrompt, C!GiveUp, C!SendMessage, C!Return, C!Cancel, C!Acknowledged
<1>8. ASSUME NEW c \in Thread, C!Close(c) \/ C!Interrupt(c) \/ C!Control(c) PROVE FALSE
  BY <1>1, <1>2, <1>3, <1>4, <1>8 DEF C!Close, C!Interrupt, C!Control
<1>9. ASSUME NEW c \in Thread, C!Wait(c) PROVE results[user[d].turn] = 0
  <2>1. c = d /\ C!Outcome(user[c].turn) = "lost"
    BY <1>1, <1>9 DEF C!Wait, C!Goto, ClaudeUsers
  <2> QED BY <2>1 DEF C!Outcome
<1> QED BY <1>5, <1>6, <1>7, <1>8, <1>9 DEF C!ClaudeNext

LEMMA ClaudeRest ==
    ASSUME ClaudeInv, UNCHANGED <<adapter, results, cli, user, facade>> PROVE ClaudeInv'
<1>1. ClaudeShapes'
  BY DEF ClaudeInv, ClaudeShapes
<1>2. ClaudeBegun' /\ ClaudeFirst' /\ ClaudeResults' /\ C!OneProcess'
  BY DEF ClaudeInv, ClaudeBegun, ClaudeFirst, ClaudeResults, C!OneProcess
<1>3. ClaudeFlow'
  BY DEF ClaudeInv, ClaudeFlow, IsPrompt, IsResult
<1> QED BY <1>1, <1>2, <1>3 DEF ClaudeInv

\* A turn is over with its result; who aims at one, and what is sent for one, aims at one
\* that has begun.
ClaudeNames ==
    /\ adapter.turn \in {0, adapter.top}
    /\ \A t \in 1 .. adapter.top : t = adapter.turn \/ results[t] = t
    /\ \A c \in Thread : user[c].pc \in {"cancel", "interrupt"} => user[c].turn # 0
    /\ \A i \in DOMAIN cli.lines :
          cli.lines[i].kind = "interrupt" => cli.lines[i].n \in 1 .. adapter.top

ClaudeView == ClaudeInv /\ ClaudeNames

\* The steps that begin or end no turn.
ClaudeSteady ==
    \/ C!Discover \/ C!ReadInit \/ C!Fail \/ C!TakePrompt \/ C!TakeInterrupt \/ C!Answer
    \/ \E c \in Thread :
          \/ C!Connect(c) \/ C!Confirmed(c) \/ C!GiveUp(c) \/ C!Close(c)
          \/ C!Remember(c) \/ C!Wait(c) \/ C!Return(c)
          \/ C!Cancel(c) \/ C!Interrupt(c) \/ C!Control(c) \/ C!Acknowledged(c)

LEMMA ClaudeSteadies ==
    ASSUME ClaudeInv, ClaudeSteady
    PROVE  adapter'.turn = adapter.turn /\ adapter'.top = adapter.top /\ results' = results
<1>1. adapter \in ClaudeAdapters
  BY ClaudeFields
<1>2. CASE C!Discover \/ C!ReadInit \/ C!Fail \/ \E c \in Thread : C!Connect(c) \/ C!GiveUp(c) \/ C!Close(c)
  BY <1>1, <1>2 DEF C!Discover, C!ReadInit, C!Fail, C!Failed, C!Connect, C!GiveUp, C!Close, ClaudeAdapters
<1>3. CASE \/ C!TakePrompt \/ C!TakeInterrupt \/ C!Answer
           \/ \E c \in Thread : C!Confirmed(c) \/ C!Remember(c) \/ C!Wait(c) \/ C!Return(c)
           \/ \E c \in Thread : C!Cancel(c) \/ C!Interrupt(c) \/ C!Control(c) \/ C!Acknowledged(c)
  BY <1>3 DEF C!TakePrompt, C!TakeInterrupt, C!Answer, C!Confirmed, C!Remember, C!Wait, C!Return,
     C!Cancel, C!Interrupt, C!Control, C!Acknowledged
<1> QED BY <1>2, <1>3 DEF ClaudeSteady

\* What ends has the result of its own.
LEMMA ClaudeEnding ==
    ASSUME ClaudeView, C!ReadResult
    PROVE  /\ adapter'.turn \in {0, adapter'.top} /\ adapter'.top = adapter.top
           /\ \A t \in 1 .. adapter'.top : t = adapter'.turn \/ results'[t] = t
<1>1. /\ adapter \in ClaudeAdapters /\ results \in [1 .. MaxTurns -> 0 .. MaxTurns]
      /\ adapter.top \in 0 .. MaxTurns /\ MaxTurns \in Nat
  BY ClaudeFields, Bounds DEF ClaudeView, ClaudeInv, ClaudeShapes
<1>2. Head(cli.wire).n = adapter.turn /\ adapter.turn # 0
  BY ClaudeReads DEF C!ReadResult, C!Read, ClaudeView
<1>3. CASE C!Failed /\ UNCHANGED results
  <2>1. adapter'.turn = adapter.turn /\ adapter'.top = adapter.top
    BY <1>1, <1>3 DEF C!Failed, ClaudeAdapters
  <2> QED BY <1>3, <2>1 DEF ClaudeView, ClaudeNames
<1>4. CASE /\ results' = [results EXCEPT ![adapter.turn] = Head(cli.wire).n]
           /\ adapter' = [adapter EXCEPT !.turn = 0]
  <2>1. adapter'.turn = 0 /\ adapter'.top = adapter.top
    BY <1>1, <1>4 DEF ClaudeAdapters
  <2>2. ASSUME NEW t \in 1 .. adapter.top PROVE results'[t] = t
    <3>1. t \in 1 .. MaxTurns /\ (t = adapter.turn \/ results[t] = t)
      BY <1>1 DEF ClaudeView, ClaudeNames
    <3> QED BY <1>1, <1>2, <1>4, <3>1
  <2> QED BY <2>1, <2>2
<1> QED BY <1>3, <1>4 DEF C!ReadResult

\* What begins is the turn after the last one, when none is active.
LEMMA ClaudeBeginning ==
    ASSUME ClaudeView, NEW c \in Thread, C!FirstPrompt(c) \/ C!SendMessage(c)
    PROVE  /\ adapter'.turn = adapter.top + 1 /\ adapter'.top = adapter.top + 1
           /\ \A t \in 1 .. adapter'.top : t = adapter'.turn \/ results'[t] = t
           /\ adapter.top \in Nat
<1>1. adapter \in ClaudeAdapters /\ adapter.top \in 0 .. MaxTurns /\ MaxTurns \in Nat
      /\ adapter.turn <= adapter.top /\ adapter.turn \in 0 .. MaxTurns
  BY ClaudeFields, Bounds DEF ClaudeView
<1>2. adapter.turn = 0
  <2>1. CASE C!FirstPrompt(c)
    <3>1. adapter.top = 0
      BY <2>1 DEF ClaudeView, ClaudeInv, ClaudeFirst, C!FirstPrompt, C!At
    <3> QED BY <1>1, <3>1
  <2>2. CASE C!SendMessage(c)
    BY <2>2 DEF C!SendMessage, C!MaySend
  <2> QED BY <2>1, <2>2
<1>3. adapter'.turn = adapter.top + 1 /\ adapter'.top = adapter.top + 1 /\ UNCHANGED results
  <2>1. CASE C!FirstPrompt(c)
    <3>1. adapter.top = 0 /\ adapter' = [adapter EXCEPT !.turn = 1, !.top = 1] /\ UNCHANGED results
      BY <2>1 DEF ClaudeView, ClaudeInv, ClaudeFirst, C!FirstPrompt, C!At
    <3> QED BY <1>1, <3>1 DEF ClaudeAdapters
  <2>2. CASE C!SendMessage(c)
    BY <1>1, <2>2 DEF C!SendMessage, ClaudeAdapters
  <2> QED BY <2>1, <2>2
<1>4. \A t \in 1 .. adapter.top : results[t] = t
  BY <1>2, <1>1 DEF ClaudeView, ClaudeNames
<1> QED BY <1>1, <1>3, <1>4

\* A thread that aims at a turn did so before, or the facade knows it.
LEMMA ClaudeAims ==
    ASSUME ClaudeView, C!ClaudeNext, NEW d \in Thread, user'[d].pc \in {"cancel", "interrupt"}
    PROVE  user'[d].turn # 0
<1>1. user \in [Thread -> ClaudeUsers] /\ C!Resting.pc = "idle"
  BY ClaudeFields, ClaudeRests DEF ClaudeView
<1>2. user[d].pc \in {"cancel", "interrupt"} => user[d].turn # 0
  BY DEF ClaudeView, ClaudeNames
<1>3. ASSUME NEW c \in Thread, NEW pc, C!Goto(c, pc), pc = "interrupt" => user[c].pc = "cancel",
             pc # "cancel"
      PROVE  user'[d].turn # 0
  BY <1>1, <1>2, <1>3 DEF C!Goto, ClaudeUsers
<1>4. ASSUME NEW c \in Thread, NEW k, user' = [user EXCEPT ![c] = k],
             k.pc \in {"cancel", "interrupt"} => k.turn # 0
      PROVE  user'[d].turn # 0
  BY <1>1, <1>2, <1>4
<1>5. CASE UNCHANGED user
  BY <1>2, <1>5
<1>6. CASE \/ C!Discover \/ C!ReadInit \/ C!ReadResult \/ C!Fail \/ C!TakePrompt
           \/ C!TakeInterrupt \/ C!Answer \/ \E c \in Thread : C!Close(c)
  BY <1>5, <1>6 DEF C!Discover, C!ReadInit, C!ReadResult, C!Fail, C!TakePrompt, C!TakeInterrupt,
     C!Answer, C!Close
<1>7. ASSUME NEW c \in Thread, C!Connect(c) \/ C!Confirmed(c) \/ C!Remember(c) \/ C!Wait(c)
      PROVE  user'[d].turn # 0
  BY <1>3, <1>7 DEF C!Connect, C!Confirmed, C!Remember, C!Wait, C!Outcome
<1>8. ASSUME NEW c \in Thread, C!FirstPrompt(c) \/ C!GiveUp(c) \/ C!SendMessage(c) \/ C!Return(c)
                                  \/ C!Acknowledged(c)
      PROVE  user'[d].turn # 0
  BY <1>1, <1>4, <1>5, <1>8 DEF C!FirstPrompt, C!GiveUp, C!SendMessage, C!Return, C!Acknowledged
<1>9. ASSUME NEW c \in Thread, C!Cancel(c) PROVE user'[d].turn # 0
  BY <1>4, <1>5, <1>9 DEF C!Cancel
<1>10. ASSUME NEW c \in Thread, C!Interrupt(c) \/ C!Control(c) PROVE user'[d].turn # 0
  BY <1>1, <1>3, <1>4, <1>10 DEF C!Interrupt, C!Control, C!At
<1> QED BY <1>6, <1>7, <1>8, <1>9, <1>10 DEF C!ClaudeNext

\* An interrupt that waits for the CLI waited before, or its thread sends it.
LEMMA ClaudeSends ==
    ASSUME ClaudeView, C!ClaudeNext, NEW i \in DOMAIN cli'.lines, cli'.lines[i].kind = "interrupt"
    PROVE  \/ \E j \in DOMAIN cli.lines : cli'.lines[i] = cli.lines[j]
           \/ \E c \in Thread : cli'.lines[i].n = user[c].turn /\ user[c].pc = "interrupt"
<1>1. cli \in ClaudeClis /\ cli.lines \in Seq(ClaudeLines)
  BY ClaudeFields, ClaudeLists DEF ClaudeView
<1>2. CASE cli'.lines = cli.lines
  BY <1>2
<1>3. ASSUME NEW line \in ClaudeLines, C!Put(line)
      PROVE  cli'.lines[i] = line \/ \E j \in DOMAIN cli.lines : cli'.lines[i] = cli.lines[j]
  <2>1. cli'.lines = Append(cli.lines, line)
    BY <1>1, <1>3 DEF C!Put, ClaudeClis
  <2> QED BY <1>1, <2>1, Appending
<1>4. ASSUME cli.lines # <<>>, cli'.lines = Tail(cli.lines)
      PROVE  \E j \in DOMAIN cli.lines : cli'.lines[i] = cli.lines[j]
  BY <1>1, <1>4, Taking
<1>5. CASE C!TakePrompt \/ C!TakeInterrupt
  <2>1. cli.lines # <<>> /\ cli'.lines = Tail(cli.lines)
    BY <1>1, <1>5 DEF C!TakePrompt, C!TakeInterrupt, ClaudeClis
  <2> QED BY <1>4, <2>1
<1>6. ASSUME NEW c \in Thread, C!Control(c)
      PROVE  \/ \E j \in DOMAIN cli.lines : cli'.lines[i] = cli.lines[j]
             \/ cli'.lines[i].n = user[c].turn /\ user[c].pc = "interrupt"
  <2>1. user[c] \in ClaudeUsers
    BY ClaudeFields DEF ClaudeView
  <2>2. [kind |-> "interrupt", n |-> user[c].turn] \in ClaudeLines
    BY <2>1 DEF ClaudeUsers, ClaudeLines
  <2> QED BY <1>2, <1>3, <1>6, <2>2 DEF C!Control, C!At
<1>7. ASSUME NEW n \in 1 .. MaxTurns, C!Put([kind |-> "prompt", n |-> n])
      PROVE  \E j \in DOMAIN cli.lines : cli'.lines[i] = cli.lines[j]
  <2>1. [kind |-> "prompt", n |-> n] \in ClaudeLines
    BY DEF ClaudeLines
  <2> QED BY <1>3, <1>7, <2>1
<1>8. ASSUME NEW c \in Thread, C!FirstPrompt(c) \/ C!SendMessage(c)
      PROVE  \E j \in DOMAIN cli.lines : cli'.lines[i] = cli.lines[j]
  <2>1. 1 \in 1 .. MaxTurns /\ (adapter.top < MaxTurns => adapter.top + 1 \in 1 .. MaxTurns)
    BY ClaudeFields, Bounds DEF ClaudeView
  <2> QED BY <1>2, <1>7, <1>8, <2>1 DEF C!FirstPrompt, C!SendMessage
<1>9. CASE \/ C!Discover \/ C!ReadInit \/ C!ReadResult \/ C!Fail \/ C!Answer
  <2>1. cli'.lines = cli.lines
    BY <1>1, <1>9 DEF C!Discover, C!ReadInit, C!ReadResult, C!Read, C!Fail, C!Answer, ClaudeClis
  <2> QED BY <1>2, <2>1
<1>10. ASSUME NEW c \in Thread,
              \/ C!Connect(c) \/ C!Confirmed(c) \/ C!GiveUp(c) \/ C!Close(c)
              \/ C!Remember(c) \/ C!Wait(c) \/ C!Return(c)
              \/ C!Cancel(c) \/ C!Interrupt(c) \/ C!Acknowledged(c)
       PROVE  \E j \in DOMAIN cli.lines : cli'.lines[i] = cli.lines[j]
  BY <1>2, <1>10 DEF C!Connect, C!Confirmed, C!GiveUp, C!Close, C!Remember, C!Wait, C!Return,
     C!Cancel, C!Interrupt, C!Acknowledged
<1> QED BY <1>5, <1>6, <1>8, <1>9, <1>10 DEF C!ClaudeNext

LEMMA ClaudeViewStart ==
    ASSUME C!ClaudeInit PROVE ClaudeView
<1>1. ClaudeInv
  BY ClaudeStart
<1>2. DOMAIN <<>> = {} /\ 1 .. 0 = {}
  OBVIOUS
<1>3. ClaudeNames
  BY <1>2 DEF C!ClaudeInit, C!Resting, ClaudeNames
<1> QED BY <1>1, <1>3 DEF ClaudeView

LEMMA ClaudeViewStep ==
    ASSUME ClaudeView, C!ClaudeNext PROVE ClaudeView'
<1>1. ClaudeInv'
  BY ClaudeStep DEF ClaudeView
<1>2. /\ adapter'.turn \in {0, adapter'.top}
      /\ \A t \in 1 .. adapter'.top : t = adapter'.turn \/ results'[t] = t
      /\ adapter'.top \in {adapter.top, adapter.top + 1} /\ adapter.top \in Nat
  <2>1. adapter.top \in Nat
    BY ClaudeFields DEF ClaudeView
  <2>2. CASE ClaudeSteady
    BY <2>1, <2>2, ClaudeSteadies DEF ClaudeView, ClaudeNames
  <2>3. CASE C!ReadResult
    BY <2>1, <2>3, ClaudeEnding
  <2>4. ASSUME NEW c \in Thread, C!FirstPrompt(c) \/ C!SendMessage(c)
        PROVE  /\ adapter'.turn = adapter.top + 1 /\ adapter'.top = adapter.top + 1
               /\ \A t \in 1 .. adapter'.top : t = adapter'.turn \/ results'[t] = t
    BY <2>4, ClaudeBeginning
  <2> QED BY <2>1, <2>2, <2>3, <2>4 DEF C!ClaudeNext, ClaudeSteady
<1>3. \A c \in Thread : user'[c].pc \in {"cancel", "interrupt"} => user'[c].turn # 0
  BY ClaudeAims
<1>4. ASSUME NEW i \in DOMAIN cli'.lines, cli'.lines[i].kind = "interrupt"
      PROVE  cli'.lines[i].n \in 1 .. adapter'.top
  <2>1. ASSUME NEW c \in Thread, user[c].pc = "interrupt" PROVE user[c].turn \in 1 .. adapter.top
    <3>1. user[c].turn # 0 /\ user[c] \in ClaudeUsers /\ user[c].turn <= adapter.top
      BY <2>1, ClaudeFields DEF ClaudeView, ClaudeNames
    <3>2. user[c].turn \in 0 .. MaxTurns
      BY <3>1 DEF ClaudeUsers
    <3> QED BY <3>1, <3>2, <1>2
  <2>2. cli'.lines[i].n \in 1 .. adapter.top
    BY <1>4, <2>1, ClaudeSends DEF ClaudeView, ClaudeNames
  <2> QED BY <1>2, <2>2
<1> QED BY <1>1, <1>2, <1>3, <1>4 DEF ClaudeView, ClaudeNames

LEMMA ClaudeViewRest ==
    ASSUME ClaudeView, UNCHANGED <<adapter, results, cli, user, facade>> PROVE ClaudeView'
  BY ClaudeRest DEF ClaudeView, ClaudeNames

\* What runs is the active turn: the one an interrupt was sent for, or a later one.
LEMMA ClaudeStops ==
    ASSUME ClaudeView PROVE C!StopsOwnOrLater
<1> SUFFICES ASSUME cli.lines # <<>>, Head(cli.lines).kind = "interrupt", cli.prompts # <<>>
             PROVE  LET n == Head(cli.lines).n
                    IN  Head(cli.prompts) = n \/ (Head(cli.prompts) > n /\ results[n] = n)
  BY DEF C!StopsOwnOrLater
<1> DEFINE n == Head(cli.lines).n
<1>1. Head(cli.lines) = cli.lines[1] /\ 1 \in DOMAIN cli.lines
  BY ClaudeTakes DEF ClaudeView
<1>2. n \in 1 .. adapter.top /\ (n = adapter.turn \/ results[n] = n)
  BY <1>1 DEF ClaudeView, ClaudeNames
<1>3. Head(cli.prompts) = cli.prompts[1] /\ 1 \in DOMAIN cli.prompts
  BY ClaudeLists, Taking DEF ClaudeView
<1>4. Head(cli.prompts) = adapter.turn /\ adapter.turn # 0
  BY <1>3 DEF ClaudeView, ClaudeInv, ClaudeFlow
<1>5. adapter.turn = adapter.top /\ adapter.top \in Nat
  BY <1>4, ClaudeFields DEF ClaudeView, ClaudeNames
<1> QED BY <1>2, <1>4, <1>5
-----------------------------------------------------------------------------
(* A session of Cursor (CursorSession).                                     *)

Numbers == 1 .. MaxTurns
CursorAdapters == [probe : {"none", "gone", "held"}, client : {"none", "up", "failed", "closed"},
                   closed : BOOLEAN, session : BOOLEAN, turn : 0 .. MaxTurns, top : 0 .. MaxTurns]
CursorPlaces == {"none", "begun", "sent", "answered", "failed", "closed", "dead", "over"}
CursorLines == [kind : {"prompt", "cancel"}, n : Numbers]
CursorWire == [kind : {"update", "response"}, n : Numbers]
CursorClis == [lines : Seq(CursorLines), prompts : Seq(Numbers), wire : Seq(CursorWire),
               said : [Numbers -> Nat]]

CursorShapes ==
    /\ adapter \in CursorAdapters /\ cli \in CursorClis
    /\ results \in [Numbers -> {"none", "answered", "closed"}]
    /\ messages \in [Numbers -> Seq(Numbers)] /\ prompter \in [Numbers -> CursorPlaces]

\* The last turn is the active one, or none is; a turn before it is over, and one after it has
\* not begun.
CursorTurns ==
    /\ adapter.turn \in {0, adapter.top}
    /\ \A t \in Numbers :
          /\ t > adapter.top => /\ prompter[t] = "none" /\ results[t] = "none"
                                /\ messages[t] = <<>> /\ cli.said[t] = 0
          /\ t <= adapter.top /\ t # adapter.turn => prompter[t] = "over"
          /\ t = adapter.turn => prompter[t] \notin {"none", "over"} /\ results[t] = "none"

\* Where the prompt of the last turn is: nowhere (any more), among the lines, with the agent,
\* or answered.  An update is of that turn, and none comes after its response.
NoPrompt == \A i \in DOMAIN cli.lines : cli.lines[i].kind = "cancel"
CursorQuiet == cli.prompts = <<>> /\ NoPrompt /\ cli.wire = <<>>
PromptAt(i) ==
    /\ i \in DOMAIN cli.lines /\ cli.lines[i].kind = "prompt" /\ cli.lines[i].n = adapter.top
    /\ \A j \in DOMAIN cli.lines :
          /\ j # i => cli.lines[j].kind = "cancel"
          /\ j > i => cli.lines[j].n = adapter.top
CursorWaiting ==
    /\ cli.prompts = <<>> /\ cli.wire = <<>>
    /\ \E i \in Nat : PromptAt(i)
CursorWorking ==
    /\ cli.prompts = <<adapter.top>> /\ NoPrompt
    /\ \A i \in DOMAIN cli.lines : cli.lines[i].n = adapter.top
    /\ \A i \in DOMAIN cli.wire : cli.wire[i].kind = "update" /\ cli.wire[i].n = adapter.top
CursorAnswered ==
    /\ cli.prompts = <<>> /\ NoPrompt /\ cli.wire # <<>>
    /\ \A i \in DOMAIN cli.wire :
          /\ cli.wire[i].kind = IF i = Len(cli.wire) THEN "response" ELSE "update"
          /\ cli.wire[i].n = adapter.top

\* What the agent has said in the active turn was read, or is about to be.
Missing(n) ==
    adapter.turn # 0 => cli.said[adapter.turn] + n = Len(messages[adapter.turn]) + Len(cli.wire)

CursorStage ==
    \/ CursorQuiet /\ Missing(0)
    \/ /\ adapter.top # 0
       /\ \/ CursorWaiting /\ Missing(0)
          \/ CursorWorking /\ Missing(0)
          \/ CursorAnswered /\ Missing(1)

\* When nothing is on its way.
CursorSettled ==
    /\ adapter.turn = 0 /\ ~adapter.closed => CursorQuiet
    /\ \A t \in Numbers :
          /\ t = adapter.turn /\ prompter[t] \in {"begun", "answered"} => CursorQuiet
          /\ t = adapter.turn /\ prompter[t] \in {"closed", "dead"} => adapter.closed
          /\ t = adapter.top /\ results[t] = "answered" => CursorQuiet

CursorGiven ==
    \A t \in Numbers : /\ results[t] = "answered" => Len(messages[t]) = cli.said[t]
                       /\ \A i \in DOMAIN messages[t] : messages[t][i] = t

CursorInv == CursorShapes /\ CursorTurns /\ CursorStage /\ CursorSettled /\ CursorGiven

LEMMA CursorFields ==
    ASSUME CursorInv
    PROVE  /\ adapter \in CursorAdapters /\ cli \in CursorClis
           /\ results \in [Numbers -> {"none", "answered", "closed"}]
           /\ messages \in [Numbers -> Seq(Numbers)] /\ prompter \in [Numbers -> CursorPlaces]
           /\ adapter.top \in 0 .. MaxTurns /\ adapter.turn \in {0, adapter.top}
           /\ adapter.closed \in BOOLEAN
           /\ cli.lines \in Seq(CursorLines) /\ cli.prompts \in Seq(Numbers)
           /\ cli.wire \in Seq(CursorWire) /\ cli.said \in [Numbers -> Nat]
           /\ MaxTurns \in Nat
  BY Bounds DEF CursorInv, CursorShapes, CursorTurns, CursorAdapters, CursorClis

LEMMA CursorStart ==
    ASSUME A!CursorInit PROVE CursorInv
<1>1. 0 \in 0 .. MaxTurns /\ MaxTurns \in Nat /\ 0 \in Nat
  BY Bounds
<1>2. /\ <<>> \in Seq(CursorLines) /\ <<>> \in Seq(CursorWire) /\ <<>> \in Seq(Numbers)
      /\ DOMAIN <<>> = {} /\ Len(<<>>) = 0
  OBVIOUS
<1>3. CursorShapes
  <2>1. adapter \in CursorAdapters
    BY <1>1 DEF A!CursorInit, CursorAdapters
  <2>2. cli \in CursorClis
    BY <1>1, <1>2 DEF A!CursorInit, A!Turns, Numbers, CursorClis
  <2>3. /\ results \in [Numbers -> {"none", "answered", "closed"}]
        /\ messages \in [Numbers -> Seq(Numbers)] /\ prompter \in [Numbers -> CursorPlaces]
    BY <1>2 DEF A!CursorInit, A!Turns, Numbers, CursorPlaces
  <2> QED BY <2>1, <2>2, <2>3 DEF CursorShapes
<1>4. CursorTurns
  BY <1>1 DEF A!CursorInit, A!Turns, Numbers, CursorTurns
<1>5. CursorQuiet
  BY <1>2 DEF A!CursorInit, CursorQuiet, NoPrompt
<1>6. CursorStage
  BY <1>5 DEF A!CursorInit, CursorStage, Missing
<1>7. CursorGiven
  BY <1>2 DEF A!CursorInit, A!Turns, Numbers, CursorGiven
<1>8. CursorSettled
  BY <1>5 DEF A!CursorInit, Numbers, CursorSettled
<1> QED BY <1>3, <1>4, <1>6, <1>7, <1>8 DEF CursorInv

\* The connection and the discovery change; a closed session stays closed.
LEMMA CursorAdapts ==
    ASSUME CursorInv, adapter' \in CursorAdapters, adapter'.turn = adapter.turn,
           adapter'.top = adapter.top, adapter.closed => adapter'.closed,
           UNCHANGED <<results, messages, prompter, cli>>
    PROVE  CursorInv'
<1>1. CursorShapes' /\ CursorTurns' /\ CursorGiven'
  BY DEF CursorInv, CursorShapes, CursorTurns, CursorGiven
<1>2. CursorQuiet' <=> CursorQuiet
  BY DEF CursorQuiet, NoPrompt
<1>3. \A n \in {0, 1} : Missing(n)' <=> Missing(n)
  BY DEF Missing
<1>4. CursorWaiting' <=> CursorWaiting
  BY DEF CursorWaiting, PromptAt
<1>5. (CursorWorking' <=> CursorWorking) /\ (CursorAnswered' <=> CursorAnswered)
  BY DEF CursorWorking, CursorAnswered, NoPrompt
<1>6. CursorStage'
  BY <1>2, <1>3, <1>4, <1>5 DEF CursorInv, CursorStage
<1>7. CursorSettled'
  BY <1>2 DEF CursorInv, CursorSettled
<1> QED BY <1>1, <1>6, <1>7 DEF CursorInv

LEMMA CursorConnection ==
    ASSUME CursorInv,
           \/ A!Discover \/ A!Fail
           \/ \E c \in Thread : A!Connect(c) \/ A!Opened(c) \/ A!GiveUp(c) \/ A!Close(c)
    PROVE  CursorInv'
<1> DEFINE Stays == /\ adapter' \in CursorAdapters /\ adapter'.turn = adapter.turn
                    /\ adapter'.top = adapter.top
                    /\ adapter.closed => adapter'.closed
<1>1. /\ adapter \in CursorAdapters /\ adapter.client \in {"none", "up", "failed", "closed"}
      /\ adapter.probe \in {"none", "gone", "held"}
  <2>1. adapter \in CursorAdapters
    BY CursorFields
  <2> QED BY <2>1 DEF CursorAdapters
<1>2. UNCHANGED <<results, messages, prompter, cli>>
  BY DEF A!Discover, A!Fail, A!Connect, A!Opened, A!GiveUp, A!Close
<1>3. CASE A!Discover
  <2>1. PICK probe \in {"gone", "held"} : adapter' = [adapter EXCEPT !.probe = probe]
    BY <1>3 DEF A!Discover
  <2>2. Stays
    BY <2>1, <1>1 DEF CursorAdapters
  <2> QED BY <2>2, <1>2, CursorAdapts
<1>4. CASE A!Fail
  <2>1. Stays
    BY <1>4, <1>1 DEF A!Fail, CursorAdapters
  <2> QED BY <2>1, <1>2, CursorAdapts
<1>5. ASSUME NEW c \in Thread, A!Connect(c) \/ A!Opened(c) PROVE CursorInv'
  <2>1. Stays
    BY <1>5, <1>1 DEF A!Connect, A!Opened, CursorAdapters
  <2> QED BY <2>1, <1>2, CursorAdapts
<1>6. ASSUME NEW c \in Thread, A!GiveUp(c) PROVE CursorInv'
  <2>1. PICK client \in {adapter.client, "closed"} :
           adapter' = [adapter EXCEPT !.closed = TRUE, !.client = client]
    BY <1>6 DEF A!GiveUp, A!AfterClose
  <2>2. Stays
    BY <2>1, <1>1 DEF CursorAdapters
  <2> QED BY <2>2, <1>2, CursorAdapts
<1>7. ASSUME NEW c \in Thread, A!Close(c) PROVE CursorInv'
  <2>1. PICK client \in {"none", "up", "failed", "closed"}, probe \in {"none", "gone", "held"} :
           adapter' = [adapter EXCEPT !.closed = TRUE, !.client = client, !.probe = probe]
    BY <1>1, <1>7 DEF A!Close, A!AfterClose
  <2>2. Stays
    BY <2>1, <1>1 DEF CursorAdapters
  <2> QED BY <2>2, <1>2, CursorAdapts
<1> QED BY <1>3, <1>4, <1>5, <1>6, <1>7
-----------------------------------------------------------------------------
(* The thread of a turn.                                                    *)

\* The thread of a turn goes to place pc.
LEMMA PrompterGoes ==
    ASSUME CursorInv, NEW t \in Numbers, NEW pc \in CursorPlaces, A!To(t, pc)
    PROVE  /\ prompter' \in [Numbers -> CursorPlaces] /\ prompter'[t] = pc
           /\ \A u \in Numbers \ {t} : prompter'[u] = prompter[u]
  BY CursorFields DEF A!To

\* A thread works for the active turn, which is the last.
LEMMA PrompterActive ==
    ASSUME CursorInv, NEW t \in Numbers, prompter[t] \notin {"none", "over"}
    PROVE  t = adapter.turn /\ t = adapter.top /\ adapter.turn # 0 /\ adapter.top # 0
<1>1. t \in Nat /\ t > 0 /\ adapter.top \in Nat /\ adapter.turn \in {0, adapter.top}
  BY CursorFields DEF Numbers
<1>2. ~(t > adapter.top) /\ ~(t <= adapter.top /\ t # adapter.turn)
  BY DEF CursorInv, CursorTurns
<1> QED BY <1>1, <1>2

\* It goes on with the request as it is.
LEMMA PrompterMoves ==
    ASSUME CursorInv, NEW t \in Numbers, t = adapter.turn,
           NEW pc \in CursorPlaces, A!To(t, pc),
           pc \notin {"none", "over"}, UNCHANGED <<results, messages, cli>>,
           adapter' \in CursorAdapters, adapter'.turn = adapter.turn,
           adapter'.top = adapter.top, adapter.closed => adapter'.closed,
           pc \in {"begun", "answered"} => CursorQuiet,
           pc \in {"closed", "dead"} => adapter'.closed
    PROVE  CursorInv'
<1>1. /\ prompter' \in [Numbers -> CursorPlaces] /\ prompter'[t] = pc
      /\ \A u \in Numbers \ {t} : prompter'[u] = prompter[u]
  BY PrompterGoes
<1>2. CursorShapes' /\ CursorGiven'
  BY <1>1 DEF CursorInv, CursorShapes, CursorGiven
<1>3. CursorQuiet' <=> CursorQuiet
  BY DEF CursorQuiet, NoPrompt
<1>4. CursorStage'
  <2>1. \A n \in {0, 1} : Missing(n)' <=> Missing(n)
    BY DEF Missing
  <2>2. CursorWaiting' <=> CursorWaiting
    BY DEF CursorWaiting, PromptAt
  <2>3. (CursorWorking' <=> CursorWorking) /\ (CursorAnswered' <=> CursorAnswered)
    BY DEF CursorWorking, CursorAnswered, NoPrompt
  <2> QED BY <1>3, <2>1, <2>2, <2>3 DEF CursorInv, CursorStage
<1>5. t \in Nat /\ t > 0 /\ t = adapter.top /\ adapter.top \in Nat
  BY CursorFields DEF Numbers
<1>6. CursorTurns'
  <2>1. ASSUME NEW u \in Numbers
        PROVE  /\ u > adapter.top => /\ prompter'[u] = "none" /\ results[u] = "none"
                                     /\ messages[u] = <<>> /\ cli.said[u] = 0
               /\ u <= adapter.top /\ u # adapter.turn => prompter'[u] = "over"
               /\ u = adapter.turn => prompter'[u] \notin {"none", "over"} /\ results[u] = "none"
    <3>1. CASE u = t
      BY <3>1, <1>1, <1>5 DEF CursorInv, CursorTurns
    <3>2. CASE u # t
      BY <3>2, <1>1 DEF CursorInv, CursorTurns
    <3> QED BY <3>1, <3>2
  <2>2. adapter.turn \in {0, adapter.top}
    BY CursorFields
  <2> QED BY <2>1, <2>2 DEF CursorTurns
<1>7. CursorSettled'
  BY <1>1, <1>3 DEF CursorInv, CursorSettled
<1> QED BY <1>2, <1>4, <1>6, <1>7 DEF CursorInv

LEMMA CursorRequestFails ==
    ASSUME CursorInv, NEW t \in Numbers, A!RequestFails(t) \/ A!PublishFails(t) PROVE CursorInv'
<1>1. /\ prompter[t] \notin {"none", "over"} /\ A!To(t, "failed") /\ "failed" \in CursorPlaces
      /\ UNCHANGED <<adapter, results, messages, cli>>
  BY DEF A!RequestFails, A!PublishFails, CursorPlaces
<1> QED BY <1>1, PrompterActive, PrompterMoves, CursorFields

\* The last turn is active, or nothing of it is on its way that could be answered any more.
LEMMA CursorPlain ==
    ASSUME CursorInv
    PROVE  /\ \A n \in {0, 1} : Missing(n) => (adapter.turn # 0 =>
                  cli.said[adapter.turn] + n = Len(messages[adapter.turn]) + Len(cli.wire))
           /\ adapter.turn # 0 => /\ adapter.turn \in Numbers /\ adapter.turn = adapter.top
                                  /\ cli.said[adapter.turn] \in Nat
                                  /\ Len(messages[adapter.turn]) \in Nat
           /\ Len(cli.wire) \in Nat
           /\ adapter.top # 0 => adapter.top \in Numbers
<1>1. /\ messages \in [Numbers -> Seq(Numbers)] /\ cli.said \in [Numbers -> Nat]
      /\ adapter.top \in 0 .. MaxTurns /\ adapter.turn \in {0, adapter.top} /\ MaxTurns \in Nat
      /\ cli.wire \in Seq(CursorWire)
  BY CursorFields
<1>2. Len(cli.wire) \in Nat
  BY <1>1
<1>3. adapter.top # 0 => adapter.top \in Numbers
  BY <1>1 DEF Numbers
<1>4. \A t \in Numbers : Len(messages[t]) \in Nat /\ cli.said[t] \in Nat
  BY <1>1
<1> QED BY <1>1, <1>2, <1>3, <1>4 DEF Missing

\* A step of the agent: it says nothing but in the last turn, and starts nothing by itself.
LEMMA CursorAgent ==
    ASSUME CursorInv, UNCHANGED <<adapter, results, messages, prompter>>, cli' \in CursorClis,
           \A u \in Numbers : u # adapter.top \/ CursorQuiet => cli'.said[u] = cli.said[u],
           CursorQuiet => CursorQuiet', CursorStage'
    PROVE  CursorInv'
<1>1. CursorShapes'
  BY DEF CursorInv, CursorShapes
<1>2. adapter.top \in Nat /\ \A u \in Numbers : u \in Nat
  BY CursorFields DEF Numbers
<1>3. CursorTurns'
  <2>1. \A u \in Numbers : u > adapter.top => cli'.said[u] = 0
    BY <1>2 DEF CursorInv, CursorTurns
  <2> QED BY <2>1 DEF CursorInv, CursorTurns
<1>4. CursorSettled'
  BY DEF CursorInv, CursorSettled
<1>5. CursorGiven'
  <2>1. \A u \in Numbers : results[u] = "answered" => cli'.said[u] = cli.said[u]
    BY DEF CursorInv, CursorSettled
  <2> QED BY <2>1 DEF CursorInv, CursorGiven
<1> QED BY <1>1, <1>3, <1>4, <1>5 DEF CursorInv

\* A line is put after the others.
LEMMA CursorPut ==
    ASSUME CursorInv, NEW line \in CursorLines, A!Put(line)
    PROVE  /\ cli' \in CursorClis /\ cli'.prompts = cli.prompts /\ cli'.wire = cli.wire
           /\ cli'.said = cli.said /\ cli'.lines = Append(cli.lines, line)
           /\ Len(cli.lines) \in Nat /\ DOMAIN cli.lines = 1 .. Len(cli.lines)
           /\ DOMAIN cli'.lines = 1 .. Len(cli.lines) + 1
           /\ \A i \in DOMAIN cli.lines : i \in DOMAIN cli'.lines /\ cli'.lines[i] = cli.lines[i]
           /\ cli'.lines[Len(cli.lines) + 1] = line
           /\ \A i \in DOMAIN cli'.lines : i \in DOMAIN cli.lines \/ i = Len(cli.lines) + 1
<1>1. cli \in CursorClis /\ cli.lines \in Seq(CursorLines)
  BY CursorFields
<1>2. cli' = [cli EXCEPT !.lines = Append(cli.lines, line)]
  BY DEF A!Put
<1>3. Append(cli.lines, line) \in Seq(CursorLines)
  BY <1>1, Appending
<1>4. /\ cli' \in CursorClis /\ cli'.prompts = cli.prompts /\ cli'.wire = cli.wire
      /\ cli'.said = cli.said /\ cli'.lines = Append(cli.lines, line)
  BY <1>1, <1>2, <1>3 DEF CursorClis
<1> QED BY <1>1, <1>4, Appending

LEMMA CursorRequest ==
    ASSUME CursorInv, NEW t \in Numbers, A!SendRequest(t) PROVE CursorInv'
<1>1. prompter[t] = "begun" /\ UNCHANGED <<adapter, results, messages>>
  BY DEF A!SendRequest
<1>2. t = adapter.turn /\ t = adapter.top /\ adapter.turn # 0
  BY <1>1, PrompterActive
<1>3. CursorQuiet
  BY <1>1, <1>2 DEF CursorInv, CursorSettled
<1>4. CASE A!To(t, "failed") /\ UNCHANGED cli
  BY <1>1, <1>2, <1>4, PrompterMoves, CursorFields DEF CursorPlaces
<1>5. CASE A!Put([kind |-> "prompt", n |-> t]) /\ A!To(t, "sent")
  <2> DEFINE line == [kind |-> "prompt", n |-> t]
  <2>1. line \in CursorLines /\ line.kind = "prompt" /\ line.n = t
    BY DEF CursorLines
  <2>2. A!Put(line)
    BY <1>5
  <2> HIDE DEF line
  <2>3. /\ cli' \in CursorClis /\ cli'.prompts = cli.prompts /\ cli'.wire = cli.wire
        /\ cli'.said = cli.said /\ Len(cli.lines) \in Nat /\ DOMAIN cli.lines = 1 .. Len(cli.lines)
        /\ DOMAIN cli'.lines = 1 .. Len(cli.lines) + 1
        /\ \A i \in DOMAIN cli.lines : cli'.lines[i] = cli.lines[i]
        /\ cli'.lines[Len(cli.lines) + 1] = line
        /\ \A i \in DOMAIN cli'.lines : i \in DOMAIN cli.lines \/ i = Len(cli.lines) + 1
    BY <2>1, <2>2, CursorPut
  <2>4. CursorWaiting'
    <3>1. PICK m \in Nat : m = Len(cli.lines) + 1
      BY <2>3
    <3>2. m \in DOMAIN cli'.lines /\ cli'.lines[m] = line
      BY <2>3, <3>1
    <3>3. \A j \in DOMAIN cli'.lines : j # m => cli'.lines[j].kind = "cancel"
      BY <1>3, <2>3, <3>1 DEF CursorQuiet, NoPrompt
    <3>4. \A j \in DOMAIN cli'.lines : ~(j > m)
      BY <2>3, <3>1
    <3>5. PromptAt(m)'
      BY <1>1, <1>2, <2>1, <3>2, <3>3, <3>4 DEF PromptAt
    <3> QED BY <1>3, <2>3, <3>5 DEF CursorWaiting, CursorQuiet
  <2>6. Missing(0)'
    <3>1. ~CursorWaiting
      BY <1>3 DEF CursorQuiet, NoPrompt, CursorWaiting, PromptAt
    <3>2. ~CursorWorking /\ ~CursorAnswered
      BY <1>3 DEF CursorQuiet, CursorWorking, CursorAnswered
    <3>3. Missing(0)
      BY <3>1, <3>2 DEF CursorInv, CursorStage
    <3> QED BY <1>1, <2>3, <3>3 DEF Missing
  <2>7. CursorStage'
    BY <1>1, <1>2, <2>4, <2>6 DEF CursorStage
  <2>8. /\ prompter' \in [Numbers -> CursorPlaces] /\ prompter'[t] = "sent"
        /\ \A u \in Numbers \ {t} : prompter'[u] = prompter[u]
    BY <1>5, PrompterGoes DEF CursorPlaces
  <2>9. CursorShapes' /\ CursorGiven'
    BY <1>1, <2>3, <2>8 DEF CursorInv, CursorShapes, CursorGiven
  <2>10. t \in Nat /\ adapter.top \in Nat
    BY CursorFields DEF Numbers
  <2>11. CursorTurns'
    <3>1. ASSUME NEW u \in Numbers
          PROVE  /\ u > adapter.top => /\ prompter'[u] = "none" /\ results[u] = "none"
                                       /\ messages[u] = <<>> /\ cli'.said[u] = 0
                 /\ u <= adapter.top /\ u # adapter.turn => prompter'[u] = "over"
                 /\ u = adapter.turn => prompter'[u] \notin {"none", "over"} /\ results[u] = "none"
      <4>1. CASE u = t
        BY <4>1, <1>2, <2>8, <2>10 DEF CursorInv, CursorTurns
      <4>2. CASE u # t
        BY <4>2, <2>3, <2>8 DEF CursorInv, CursorTurns
      <4> QED BY <4>1, <4>2
    <3> QED BY <1>1, <1>2, <3>1 DEF CursorTurns
  <2>12. CursorSettled'
    <3>1. results[t] = "none"
      BY <1>2 DEF CursorInv, CursorTurns
    <3> QED BY <1>1, <1>2, <2>8, <3>1 DEF CursorSettled
  <2> QED BY <2>7, <2>9, <2>11, <2>12 DEF CursorInv
<1> QED BY <1>4, <1>5 DEF A!SendRequest

LEMMA CursorInterrupt ==
    ASSUME CursorInv, NEW t \in Numbers, A!Interrupt(t) PROVE CursorInv'
<1> DEFINE line == [kind |-> "cancel", n |-> t]
<1>1. line \in CursorLines /\ line.kind = "cancel" /\ line.n = t
  BY DEF CursorLines
<1>2. A!Put(line) /\ UNCHANGED <<adapter, results, messages, prompter>> /\ adapter.turn = t
  BY DEF A!Interrupt, A!Cancellable
<1> HIDE DEF line
<1>3. /\ cli' \in CursorClis /\ cli'.prompts = cli.prompts /\ cli'.wire = cli.wire
      /\ cli'.said = cli.said /\ Len(cli.lines) \in Nat /\ DOMAIN cli.lines = 1 .. Len(cli.lines)
      /\ DOMAIN cli'.lines = 1 .. Len(cli.lines) + 1
      /\ \A i \in DOMAIN cli.lines : i \in DOMAIN cli'.lines /\ cli'.lines[i] = cli.lines[i]
      /\ cli'.lines[Len(cli.lines) + 1] = line
      /\ \A i \in DOMAIN cli'.lines : i \in DOMAIN cli.lines \/ i = Len(cli.lines) + 1
  BY <1>1, <1>2, CursorPut
<1>4. t = adapter.top /\ t # 0
  BY <1>2, CursorFields DEF Numbers
<1>5. NoPrompt => NoPrompt'
  BY <1>1, <1>3 DEF NoPrompt
<1>6. CursorQuiet => CursorQuiet'
  BY <1>3, <1>5 DEF CursorQuiet
<1>7. CursorWaiting => CursorWaiting'
  <2> SUFFICES ASSUME CursorWaiting PROVE CursorWaiting'
    OBVIOUS
  <2>1. PICK i \in Nat : PromptAt(i)
    BY DEF CursorWaiting
  <2>2. PromptAt(i)'
    <3>1. i \in DOMAIN cli'.lines /\ cli'.lines[i] = cli.lines[i]
      BY <2>1, <1>3 DEF PromptAt
    <3>2. ASSUME NEW j \in DOMAIN cli'.lines
          PROVE  /\ j # i => cli'.lines[j].kind = "cancel"
                 /\ j > i => cli'.lines[j].n = adapter.top
      <4>1. CASE j \in DOMAIN cli.lines
        BY <4>1, <2>1, <1>3 DEF PromptAt
      <4>2. CASE j = Len(cli.lines) + 1
        BY <4>2, <1>1, <1>3, <1>4
      <4> QED BY <4>1, <4>2, <1>3
    <3> QED BY <2>1, <3>1, <3>2, <1>2 DEF PromptAt
  <2> QED BY <2>2, <1>3 DEF CursorWaiting
<1>8. CursorWorking => CursorWorking'
  <2> SUFFICES ASSUME CursorWorking PROVE CursorWorking'
    OBVIOUS
  <2>1. \A i \in DOMAIN cli'.lines : cli'.lines[i].n = adapter.top
    BY <1>1, <1>3, <1>4 DEF CursorWorking
  <2> QED BY <2>1, <1>2, <1>3, <1>5 DEF CursorWorking
<1>9. CursorAnswered => CursorAnswered'
  BY <1>2, <1>3, <1>5 DEF CursorAnswered
<1>10. \A n \in {0, 1} : Missing(n) => Missing(n)'
  BY <1>2, <1>3 DEF Missing
<1>11. CursorStage'
  BY <1>2, <1>6, <1>7, <1>8, <1>9, <1>10 DEF CursorInv, CursorStage
<1> QED BY <1>2, <1>3, <1>6, <1>11, CursorAgent
-----------------------------------------------------------------------------
(* The agent.                                                               *)

\* The agent takes the first line.
LEMMA CursorTakes ==
    ASSUME CursorInv, cli.lines # <<>>
    PROVE  /\ Head(cli.lines) \in CursorLines /\ Head(cli.lines) = cli.lines[1]
           /\ 1 \in DOMAIN cli.lines /\ Tail(cli.lines) \in Seq(CursorLines)
           /\ \A i \in DOMAIN Tail(cli.lines) :
                 /\ i \in Nat /\ i + 1 \in DOMAIN cli.lines /\ Tail(cli.lines)[i] = cli.lines[i + 1]
                 /\ i + 1 > 1
           /\ DOMAIN Tail(cli.lines) = 1 .. Len(cli.lines) - 1
           /\ DOMAIN cli.lines = 1 .. Len(cli.lines) /\ Len(cli.lines) \in Nat
  BY CursorFields, Taking

LEMMA CursorTakePrompt ==
    ASSUME CursorInv, A!TakePrompt PROVE CursorInv'
<1> DEFINE taken1 == Append(cli.prompts, Head(cli.lines).n)
<1>1. /\ cli.lines # <<>> /\ Head(cli.lines).kind = "prompt"
      /\ UNCHANGED <<adapter, results, messages, prompter>> /\ cli \in CursorClis
      /\ cli' = [cli EXCEPT !.lines = Tail(cli.lines), !.prompts = taken1]
  BY CursorFields DEF A!TakePrompt
<1>2. ~NoPrompt
  BY <1>1, CursorTakes DEF NoPrompt
<1>3. CursorWaiting /\ Missing(0) /\ adapter.top # 0
  BY <1>2 DEF CursorInv, CursorStage, CursorQuiet, CursorWorking, CursorAnswered
<1>4. PICK i \in Nat : PromptAt(i)
  BY <1>3 DEF CursorWaiting
<1>5. i = 1 /\ Head(cli.lines).n = adapter.top
  <2>1. 1 # i => cli.lines[1].kind = "cancel"
    BY <1>1, <1>4, CursorTakes DEF PromptAt
  <2>2. i = 1
    BY <1>1, <2>1, CursorTakes
  <2> QED BY <1>1, <1>4, <2>2, CursorTakes DEF PromptAt
<1>6. adapter.top \in Numbers /\ taken1 = <<adapter.top>> /\ taken1 \in Seq(Numbers)
  <2>1. adapter.top \in Numbers
    BY <1>3, CursorPlain
  <2>2. taken1 = <<adapter.top>>
    BY <1>3, <1>5 DEF CursorWaiting
  <2>3. <<adapter.top>> \in Seq(Numbers)
    BY <2>1
  <2> HIDE DEF taken1
  <2> QED BY <2>1, <2>2, <2>3
<1> HIDE DEF taken1
<1>7. /\ cli' \in CursorClis /\ cli'.prompts = taken1 /\ cli'.lines = Tail(cli.lines)
      /\ cli'.wire = cli.wire /\ cli'.said = cli.said
  <2>1. Tail(cli.lines) \in Seq(CursorLines)
    BY <1>1, CursorTakes
  <2>2. cli' \in CursorClis
    BY <1>1, <1>6, <2>1 DEF CursorClis
  <2> QED BY <1>1, <2>2 DEF CursorClis
<1>8. \A j \in DOMAIN cli'.lines : cli'.lines[j].kind = "cancel" /\ cli'.lines[j].n = adapter.top
  <2> SUFFICES ASSUME NEW j \in DOMAIN Tail(cli.lines)
               PROVE  Tail(cli.lines)[j].kind = "cancel" /\ Tail(cli.lines)[j].n = adapter.top
    BY <1>7
  <2>1. j + 1 \in DOMAIN cli.lines /\ Tail(cli.lines)[j] = cli.lines[j + 1] /\ j + 1 > 1 /\ j \in Nat
    BY <1>1, CursorTakes
  <2>2. j + 1 # 1
    BY <2>1
  <2> QED BY <1>4, <1>5, <2>1, <2>2 DEF PromptAt
<1>9. DOMAIN cli'.wire = {}
  BY <1>3, <1>7 DEF CursorWaiting
<1>10. CursorWorking'
  BY <1>1, <1>6, <1>7, <1>8, <1>9 DEF CursorWorking, NoPrompt
<1>11. Missing(0)'
  BY <1>1, <1>3, <1>7 DEF Missing
<1>12. CursorStage' /\ ~CursorQuiet
  BY <1>1, <1>2, <1>3, <1>10, <1>11 DEF CursorStage, CursorQuiet
<1> QED BY <1>1, <1>7, <1>12, CursorAgent

\* The agent works at the prompt of the last turn when it works.
LEMMA CursorWorks ==
    ASSUME CursorInv, cli.prompts # <<>>
    PROVE  /\ CursorWorking /\ Missing(0) /\ adapter.top \in Numbers
           /\ Head(cli.prompts) = adapter.top /\ Tail(cli.prompts) = <<>>
<1>1. CursorWorking /\ Missing(0) /\ adapter.top # 0
  BY DEF CursorInv, CursorStage, CursorQuiet, CursorWaiting, CursorAnswered
<1>2. cli.prompts = <<adapter.top>>
  BY <1>1 DEF CursorWorking
<1>3. Head(cli.prompts) = adapter.top /\ Tail(cli.prompts) = <<>>
  BY <1>2
<1> QED BY <1>1, <1>3, CursorPlain

\* It says something: what it says is behind the rest.
LEMMA CursorWord ==
    ASSUME CursorInv, NEW kind \in {"update", "response"}, cli.prompts # <<>>,
           NEW said1, said1 = A!Says(kind)
    PROVE  /\ said1 \in Seq(CursorWire) /\ Len(said1) = Len(cli.wire) + 1 /\ said1 # <<>>
           /\ \A i \in DOMAIN said1 :
                 /\ said1[i].n = adapter.top
                 /\ said1[i].kind = IF i = Len(said1) THEN kind ELSE "update"
<1> DEFINE word == [kind |-> kind, n |-> adapter.top]
<1>1. said1 = Append(cli.wire, word) /\ word \in CursorWire /\ CursorWorking
  BY CursorWorks DEF A!Says, CursorWire
<1>2. word.kind = kind /\ word.n = adapter.top
  OBVIOUS
<1> HIDE DEF word
<1>3. /\ said1 \in Seq(CursorWire) /\ Len(said1) = Len(cli.wire) + 1 /\ Len(cli.wire) \in Nat
      /\ DOMAIN cli.wire = 1 .. Len(cli.wire)
      /\ \A i \in DOMAIN cli.wire : said1[i] = cli.wire[i]
      /\ said1[Len(cli.wire) + 1] = word
      /\ \A i \in DOMAIN said1 : i \in DOMAIN cli.wire \/ i = Len(cli.wire) + 1
  BY <1>1, CursorFields, Appending
<1>4. said1 # <<>>
  BY <1>3
<1>5. ASSUME NEW i \in DOMAIN said1
      PROVE  /\ said1[i].n = adapter.top
             /\ said1[i].kind = IF i = Len(said1) THEN kind ELSE "update"
  <2>1. CASE i = Len(cli.wire) + 1
    BY <2>1, <1>2, <1>3
  <2>2. CASE i \in DOMAIN cli.wire
    <3>1. said1[i].n = adapter.top /\ said1[i].kind = "update"
      BY <2>2, <1>1, <1>3 DEF CursorWorking
    <3>2. i # Len(said1)
      BY <2>2, <1>3
    <3> QED BY <3>1, <3>2
  <2> QED BY <2>1, <2>2, <1>3
<1> QED BY <1>3, <1>4, <1>5

\* It answers, at a cancel or by itself.
LEMMA CursorAnswers ==
    ASSUME CursorInv, cli.prompts # <<>>, NEW rest \in Seq(CursorLines),
           cli' = [cli EXCEPT !.lines = rest, !.prompts = Tail(cli.prompts),
                              !.wire = A!Says("response")],
           \A i \in DOMAIN rest : rest[i].kind = "cancel",
           UNCHANGED <<adapter, results, messages, prompter>>
    PROVE  CursorInv'
<1>1. PICK said1 : said1 = A!Says("response")
  OBVIOUS
<1>2. /\ said1 \in Seq(CursorWire) /\ Len(said1) = Len(cli.wire) + 1 /\ said1 # <<>>
      /\ \A i \in DOMAIN said1 :
            /\ said1[i].n = adapter.top
            /\ said1[i].kind = IF i = Len(said1) THEN "response" ELSE "update"
  BY <1>1, CursorWord
<1>3. /\ CursorWorking /\ Missing(0) /\ adapter.top \in Numbers /\ Tail(cli.prompts) = <<>>
      /\ cli \in CursorClis
  BY CursorWorks, CursorFields
<1>4. cli' = [cli EXCEPT !.lines = rest, !.prompts = <<>>, !.wire = said1]
  BY <1>1, <1>3
<1>5. /\ cli' \in CursorClis /\ cli'.lines = rest /\ cli'.prompts = <<>> /\ cli'.wire = said1
      /\ cli'.said = cli.said
  <2>1. <<>> \in Seq(Numbers)
    OBVIOUS
  <2>2. cli' \in CursorClis
    BY <1>2, <1>3, <1>4, <2>1 DEF CursorClis
  <2> QED BY <1>3, <1>4, <2>2 DEF CursorClis
<1>6. CursorAnswered'
  BY <1>2, <1>5 DEF CursorAnswered, NoPrompt
<1>7. Missing(1)'
  <2> SUFFICES ASSUME adapter.turn # 0
               PROVE  cli'.said[adapter.turn] + 1 = Len(messages[adapter.turn]) + Len(cli'.wire)
    BY <1>5 DEF Missing
  <2>1. PICK a \in Nat, b \in Nat, c \in Nat :
           /\ a = cli.said[adapter.turn] /\ b = Len(messages[adapter.turn]) /\ c = Len(cli.wire)
           /\ adapter.turn = adapter.top
    BY CursorPlain
  <2>2. a + 0 = b + c
    BY <2>1, <1>3 DEF Missing
  <2>3. cli'.said[adapter.turn] = a /\ Len(cli'.wire) = c + 1
    BY <1>2, <1>5, <2>1
  <2>4. a + 1 = b + (c + 1)
    BY <2>2
  <2> QED BY <2>1, <2>3, <2>4
<1>8. CursorStage' /\ ~CursorQuiet
  BY <1>3, <1>6, <1>7 DEF CursorStage, CursorQuiet, Numbers
<1> QED BY <1>5, <1>8, CursorAgent

LEMMA CursorRespond ==
    ASSUME CursorInv, A!Respond PROVE CursorInv'
<1>1. /\ cli.prompts # <<>> /\ UNCHANGED <<adapter, results, messages, prompter>>
      /\ cli' = [cli EXCEPT !.prompts = Tail(cli.prompts), !.wire = A!Says("response")]
      /\ cli \in CursorClis /\ cli.lines \in Seq(CursorLines)
  BY CursorFields DEF A!Respond
<1>2. cli' = [cli EXCEPT !.lines = cli.lines, !.prompts = Tail(cli.prompts),
                         !.wire = A!Says("response")]
  BY <1>1 DEF CursorClis
<1>3. \A i \in DOMAIN cli.lines : cli.lines[i].kind = "cancel"
  BY <1>1, CursorWorks DEF CursorWorking, NoPrompt
<1> QED BY <1>1, <1>2, <1>3, CursorAnswers

LEMMA CursorUpdate ==
    ASSUME CursorInv, A!Update PROVE CursorInv'
<1>1. PICK said1 : said1 = A!Says("update")
  OBVIOUS
<1>2. cli.prompts # <<>> /\ UNCHANGED <<adapter, results, messages, prompter>> /\ cli \in CursorClis
  BY CursorFields DEF A!Update
<1>3. /\ said1 \in Seq(CursorWire) /\ Len(said1) = Len(cli.wire) + 1 /\ said1 # <<>>
      /\ \A i \in DOMAIN said1 : said1[i].n = adapter.top /\ said1[i].kind = "update"
  BY <1>1, <1>2, CursorWord
<1>4. /\ CursorWorking /\ Missing(0) /\ adapter.top \in Numbers /\ Head(cli.prompts) = adapter.top
      /\ cli.said \in [Numbers -> Nat]
  BY <1>2, CursorWorks, CursorFields
<1>5. PICK more : more = [cli.said EXCEPT ![adapter.top] = @ + 1]
  OBVIOUS
<1>6. cli' = [cli EXCEPT !.said = more, !.wire = said1]
  <2>1. cli' = [cli EXCEPT !.said[Head(cli.prompts)] = @ + 1, !.wire = A!Says("update")]
    BY DEF A!Update
  <2> QED BY <1>1, <1>4, <1>5, <2>1
<1>7. /\ more \in [Numbers -> Nat] /\ more[adapter.top] = cli.said[adapter.top] + 1
      /\ \A u \in Numbers : u # adapter.top => more[u] = cli.said[u]
  BY <1>4, <1>5
<1>8. /\ cli' \in CursorClis /\ cli'.lines = cli.lines /\ cli'.prompts = cli.prompts
      /\ cli'.wire = said1 /\ cli'.said = more
  <2>1. cli' \in CursorClis
    BY <1>2, <1>3, <1>6, <1>7 DEF CursorClis
  <2> QED BY <1>2, <1>6, <2>1 DEF CursorClis
<1>9. CursorWorking'
  BY <1>2, <1>3, <1>4, <1>8 DEF CursorWorking, NoPrompt
<1>10. Missing(0)'
  <2> SUFFICES ASSUME adapter.turn # 0
               PROVE  cli'.said[adapter.turn] + 0 = Len(messages[adapter.turn]) + Len(cli'.wire)
    BY <1>2 DEF Missing
  <2>1. PICK a \in Nat, b \in Nat, c \in Nat :
           /\ a = cli.said[adapter.turn] /\ b = Len(messages[adapter.turn]) /\ c = Len(cli.wire)
           /\ adapter.turn = adapter.top
    BY CursorPlain
  <2>2. a + 0 = b + c
    BY <2>1, <1>4 DEF Missing
  <2>3. cli'.said[adapter.turn] = a + 1 /\ Len(cli'.wire) = c + 1
    BY <1>3, <1>7, <1>8, <2>1
  <2>4. (a + 1) + 0 = b + (c + 1)
    BY <2>2
  <2> QED BY <2>1, <2>3, <2>4
<1>11. CursorStage' /\ ~CursorQuiet
  BY <1>2, <1>4, <1>9, <1>10 DEF CursorStage, CursorQuiet, Numbers
<1> QED BY <1>2, <1>7, <1>8, <1>11, CursorAgent

LEMMA CursorTakeCancel ==
    ASSUME CursorInv, A!TakeCancel PROVE CursorInv'
<1>1. /\ cli.lines # <<>> /\ Head(cli.lines).kind = "cancel" /\ cli \in CursorClis
      /\ UNCHANGED <<adapter, results, messages, prompter>>
  BY CursorFields DEF A!TakeCancel
<1>2. /\ Tail(cli.lines) \in Seq(CursorLines) /\ Head(cli.lines) = cli.lines[1]
      /\ \A i \in DOMAIN Tail(cli.lines) :
            /\ i \in Nat /\ i + 1 \in DOMAIN cli.lines /\ Tail(cli.lines)[i] = cli.lines[i + 1]
      /\ DOMAIN Tail(cli.lines) = 1 .. Len(cli.lines) - 1
      /\ DOMAIN cli.lines = 1 .. Len(cli.lines) /\ Len(cli.lines) \in Nat
  BY <1>1, CursorTakes
<1>3. CASE cli.prompts # <<>>
  <2>1. cli' = [cli EXCEPT !.lines = Tail(cli.lines), !.prompts = Tail(cli.prompts),
                           !.wire = A!Says("response")]
    BY <1>3 DEF A!TakeCancel
  <2>2. \A i \in DOMAIN Tail(cli.lines) : Tail(cli.lines)[i].kind = "cancel"
    BY <1>2, <1>3, CursorWorks DEF CursorWorking, NoPrompt
  <2> QED BY <1>1, <1>2, <1>3, <2>1, <2>2, CursorAnswers
<1>4. CASE cli.prompts = <<>>
  <2>1. cli' = [cli EXCEPT !.lines = Tail(cli.lines)]
    BY <1>4 DEF A!TakeCancel
  <2>2. /\ cli' \in CursorClis /\ cli'.lines = Tail(cli.lines) /\ cli'.prompts = cli.prompts
        /\ cli'.wire = cli.wire /\ cli'.said = cli.said
    <3>1. cli' \in CursorClis
      BY <1>1, <1>2, <2>1 DEF CursorClis
    <3> QED BY <1>1, <2>1, <3>1 DEF CursorClis
  <2>3. NoPrompt => NoPrompt'
    BY <1>2, <2>2 DEF NoPrompt
  <2>4. CursorQuiet => CursorQuiet'
    BY <2>2, <2>3 DEF CursorQuiet
  <2>5. CursorAnswered => CursorAnswered'
    BY <1>1, <2>2, <2>3 DEF CursorAnswered
  <2>6. CursorWaiting => CursorWaiting'
    <3> SUFFICES ASSUME CursorWaiting PROVE CursorWaiting'
      OBVIOUS
    <3>1. PICK i \in Nat : PromptAt(i)
      BY DEF CursorWaiting
    <3>2. i \in 1 .. Len(cli.lines) /\ i # 1
      BY <1>1, <1>2, <3>1 DEF PromptAt
    <3>3. PICK k \in Nat : i = k + 1 /\ k \in DOMAIN Tail(cli.lines)
      <4>1. i - 1 \in Nat /\ i = (i - 1) + 1 /\ i - 1 \in 1 .. Len(cli.lines) - 1
        BY <1>2, <3>2
      <4> QED BY <4>1, <1>2
    <3>4. PromptAt(k)'
      <4>1. k \in DOMAIN cli'.lines /\ cli'.lines[k] = cli.lines[i]
        BY <1>2, <2>2, <3>3
      <4>2. ASSUME NEW j \in DOMAIN Tail(cli.lines)
            PROVE  /\ j # k => Tail(cli.lines)[j].kind = "cancel"
                   /\ j > k => Tail(cli.lines)[j].n = adapter.top
        <5>1. /\ j \in Nat /\ j + 1 \in DOMAIN cli.lines
              /\ Tail(cli.lines)[j] = cli.lines[j + 1]
          BY <1>2
        <5>2. (j # k => j + 1 # i) /\ (j > k => j + 1 > i)
          BY <3>3, <5>1
        <5> QED BY <3>1, <5>1, <5>2 DEF PromptAt
      <4> QED BY <1>1, <2>2, <3>1, <4>1, <4>2 DEF PromptAt
    <3> QED BY <2>2, <3>4 DEF CursorWaiting
  <2>7. \A n \in {0, 1} : Missing(n) => Missing(n)'
    BY <1>1, <2>2 DEF Missing
  <2>8. ~CursorWorking
    BY <1>4 DEF CursorWorking
  <2>9. CursorStage'
    BY <1>1, <2>4, <2>5, <2>6, <2>7, <2>8 DEF CursorInv, CursorStage
  <2> QED BY <1>1, <2>2, <2>4, <2>9, CursorAgent
<1> QED BY <1>3, <1>4
-----------------------------------------------------------------------------
(* The reader, and the ends of a turn.                                      *)

\* What is read is of the last turn.
LEMMA CursorReads ==
    ASSUME CursorInv, cli.wire # <<>>, cli' = [cli EXCEPT !.wire = Tail(cli.wire)]
    PROVE  /\ cli' \in CursorClis /\ cli'.lines = cli.lines /\ cli'.prompts = cli.prompts
           /\ cli'.said = cli.said /\ cli'.wire = Tail(cli.wire) /\ Tail(cli.wire) \in Seq(CursorWire)
           /\ Head(cli.wire) = cli.wire[1] /\ Head(cli.wire).n = adapter.top
           /\ adapter.top \in Numbers /\ ~CursorQuiet
           /\ 1 \in DOMAIN cli.wire /\ Len(cli.wire) \in Nat /\ Len(Tail(cli.wire)) = Len(cli.wire) - 1
           /\ DOMAIN cli.wire = 1 .. Len(cli.wire) /\ DOMAIN Tail(cli.wire) = 1 .. Len(cli.wire) - 1
           /\ \A i \in DOMAIN Tail(cli.wire) :
                 i \in Nat /\ i + 1 \in DOMAIN cli.wire /\ Tail(cli.wire)[i] = cli.wire[i + 1]
           /\ \/ CursorWorking /\ Missing(0)
              \/ CursorAnswered /\ Missing(1)
<1>1. cli \in CursorClis /\ cli.wire \in Seq(CursorWire)
  BY CursorFields
<1>2. /\ Head(cli.wire) = cli.wire[1] /\ 1 \in DOMAIN cli.wire /\ Len(cli.wire) \in Nat
      /\ Tail(cli.wire) \in Seq(CursorWire) /\ Len(Tail(cli.wire)) = Len(cli.wire) - 1
      /\ DOMAIN cli.wire = 1 .. Len(cli.wire) /\ DOMAIN Tail(cli.wire) = 1 .. Len(cli.wire) - 1
      /\ \A i \in DOMAIN Tail(cli.wire) :
            i + 1 \in DOMAIN cli.wire /\ Tail(cli.wire)[i] = cli.wire[i + 1]
  BY <1>1, Taking
<1>3. /\ cli' \in CursorClis /\ cli'.lines = cli.lines /\ cli'.prompts = cli.prompts
      /\ cli'.said = cli.said /\ cli'.wire = Tail(cli.wire)
  <2>1. cli' \in CursorClis
    BY <1>1, <1>2 DEF CursorClis
  <2> QED BY <1>1, <2>1 DEF CursorClis
<1>4. ~CursorQuiet
  BY DEF CursorQuiet
<1>5. /\ adapter.top # 0
      /\ \/ CursorWorking /\ Missing(0)
         \/ CursorAnswered /\ Missing(1)
  BY <1>4 DEF CursorInv, CursorStage, CursorWaiting
<1>6. cli.wire[1].n = adapter.top
  BY <1>2, <1>5 DEF CursorWorking, CursorAnswered
<1>7. \A i \in DOMAIN Tail(cli.wire) : i \in Nat
  BY <1>2
<1> QED BY <1>2, <1>3, <1>4, <1>5, <1>6, <1>7, CursorPlain

LEMMA CursorReadUpdate ==
    ASSUME CursorInv, A!ReadUpdate PROVE CursorInv'
<1>1. /\ cli.wire # <<>> /\ Head(cli.wire).kind = "update"
      /\ cli' = [cli EXCEPT !.wire = Tail(cli.wire)] /\ UNCHANGED <<adapter, results, prompter>>
  BY DEF A!ReadUpdate, A!Reading, A!Read
<1>2. PICK top \in Numbers : top = adapter.top
  BY <1>1, CursorReads
<1>3. /\ cli' \in CursorClis /\ cli'.lines = cli.lines /\ cli'.prompts = cli.prompts
      /\ cli'.said = cli.said /\ cli'.wire = Tail(cli.wire)
      /\ Head(cli.wire) = cli.wire[1] /\ Head(cli.wire).n = top /\ ~CursorQuiet
      /\ 1 \in DOMAIN cli.wire /\ Len(cli.wire) \in Nat
      /\ Len(Tail(cli.wire)) = Len(cli.wire) - 1
      /\ DOMAIN cli.wire = 1 .. Len(cli.wire) /\ DOMAIN Tail(cli.wire) = 1 .. Len(cli.wire) - 1
      /\ \A i \in DOMAIN Tail(cli.wire) :
            i \in Nat /\ i + 1 \in DOMAIN cli.wire /\ Tail(cli.wire)[i] = cli.wire[i + 1]
  BY <1>1, <1>2, CursorReads
<1>4. \/ CursorWorking /\ Missing(0)
      \/ CursorAnswered /\ Missing(1)
  BY <1>1, CursorReads
<1>5. adapter.turn \in {0, top} /\ messages \in [Numbers -> Seq(Numbers)] /\ top # 0
  BY <1>2, CursorFields DEF Numbers
<1>7. /\ messages' \in [Numbers -> Seq(Numbers)]
      /\ \A u \in Numbers : u # top => messages'[u] = messages[u]
      /\ \A u \in Numbers : adapter.turn = 0 => messages'[u] = messages[u]
      /\ adapter.turn # 0 => messages'[top] = Append(messages[top], top)
  BY <1>3, <1>5 DEF A!ReadUpdate
<1>8. adapter.turn # 0 => /\ Len(messages'[top]) = Len(messages[top]) + 1
                          /\ \A i \in DOMAIN messages'[top] :
                                \/ i \in DOMAIN messages[top] /\ messages'[top][i] = messages[top][i]
                                \/ messages'[top][i] = top
  <2> SUFFICES ASSUME adapter.turn # 0
               PROVE  /\ Len(messages'[top]) = Len(messages[top]) + 1
                      /\ \A i \in DOMAIN messages'[top] :
                            \/ i \in DOMAIN messages[top] /\ messages'[top][i] = messages[top][i]
                            \/ messages'[top][i] = top
    OBVIOUS
  <2>1. PICK old \in Seq(Numbers) : old = messages[top]
    BY <1>5
  <2>2. messages'[top] = Append(old, top)
    BY <1>7, <2>1
  <2> QED BY <2>1, <2>2, Appending
<1>9. NoPrompt' <=> NoPrompt
  BY <1>3 DEF NoPrompt
<1>10. CursorWorking => CursorWorking'
  <2> SUFFICES ASSUME CursorWorking PROVE CursorWorking'
    OBVIOUS
  <2>1. \A i \in DOMAIN cli'.wire : cli'.wire[i].kind = "update" /\ cli'.wire[i].n = adapter.top
    BY <1>3 DEF CursorWorking
  <2> QED BY <1>1, <1>3, <1>9, <2>1 DEF CursorWorking
<1>11. CursorAnswered => CursorAnswered'
  <2> SUFFICES ASSUME CursorAnswered PROVE CursorAnswered'
    OBVIOUS
  <2>1. Len(cli.wire) # 1
    BY <1>1, <1>3 DEF CursorAnswered
  <2>2. Tail(cli.wire) # <<>>
    <3>1. Len(Tail(cli.wire)) # 0
      BY <1>3, <2>1
    <3>2. Len(<<>>) = 0
      OBVIOUS
    <3> QED BY <3>1, <3>2
  <2>3. ASSUME NEW i \in DOMAIN Tail(cli.wire)
        PROVE  /\ Tail(cli.wire)[i].n = adapter.top
               /\ Tail(cli.wire)[i].kind = IF i = Len(Tail(cli.wire)) THEN "response" ELSE "update"
    <3>1. /\ i \in Nat /\ i + 1 \in DOMAIN cli.wire /\ Tail(cli.wire)[i] = cli.wire[i + 1]
      BY <1>3
    <3>2. i + 1 = Len(cli.wire) <=> i = Len(Tail(cli.wire))
      BY <1>3, <3>1
    <3> QED BY <3>1, <3>2 DEF CursorAnswered
  <2> QED BY <1>1, <1>3, <1>9, <2>2, <2>3 DEF CursorAnswered
<1>12. ASSUME NEW k \in {0, 1}, Missing(k) PROVE Missing(k)'
  <2> SUFFICES ASSUME adapter.turn # 0
               PROVE  cli.said[top] + k = Len(messages'[top]) + Len(cli'.wire)
    BY <1>1, <1>3, <1>5 DEF Missing
  <2>1. PICK a \in Nat, b \in Nat, c \in Nat :
           a = cli.said[top] /\ b = Len(messages[top]) /\ c = Len(cli.wire)
    BY <1>5, CursorPlain
  <2>2. a + k = b + c
    BY <1>5, <1>12, <2>1 DEF Missing
  <2>3. Len(messages'[top]) = b + 1 /\ Len(cli'.wire) = c - 1
    BY <1>3, <1>8, <2>1
  <2>4. a + k = (b + 1) + (c - 1)
    BY <2>2
  <2> QED BY <2>1, <2>3, <2>4
<1>13. CursorStage'
  BY <1>1, <1>2, <1>4, <1>5, <1>10, <1>11, <1>12 DEF CursorStage
<1>14. CursorShapes'
  BY <1>1, <1>3, <1>7 DEF CursorInv, CursorShapes
<1>15. CursorTurns'
  <2>1. \A u \in Numbers : u > adapter.top => u # top
    BY <1>2 DEF Numbers
  <2>2. \A u \in Numbers : u > adapter.top => messages'[u] = <<>>
    BY <1>7, <2>1 DEF CursorInv, CursorTurns
  <2> QED BY <1>1, <1>3, <2>2 DEF CursorInv, CursorTurns
<1>16. CursorSettled'
  BY <1>1, <1>3 DEF CursorInv, CursorSettled
<1>17. CursorGiven'
  <2>1. results[top] # "answered"
    BY <1>2, <1>3 DEF CursorInv, CursorSettled
  <2>2. ASSUME NEW u \in Numbers
        PROVE  /\ results[u] = "answered" => Len(messages'[u]) = cli.said[u]
               /\ \A i \in DOMAIN messages'[u] : messages'[u][i] = u
    <3>1. CASE messages'[u] = messages[u]
      BY <3>1 DEF CursorInv, CursorGiven
    <3>2. CASE u = top /\ adapter.turn # 0
      BY <3>2, <1>8, <2>1 DEF CursorInv, CursorGiven
    <3> QED BY <1>7, <3>1, <3>2
  <2> QED BY <1>1, <1>3, <2>2 DEF CursorGiven
<1> QED BY <1>13, <1>14, <1>15, <1>16, <1>17 DEF CursorInv

LEMMA CursorReadResponse ==
    ASSUME CursorInv, A!ReadResponse PROVE CursorInv'
<1>1. /\ cli.wire # <<>> /\ Head(cli.wire).kind = "response"
      /\ cli' = [cli EXCEPT !.wire = Tail(cli.wire)] /\ UNCHANGED <<adapter, results, messages>>
  BY DEF A!ReadResponse, A!Reading, A!Read
<1>2. PICK top \in Numbers : top = adapter.top
  BY <1>1, CursorReads
<1>3. /\ cli' \in CursorClis /\ cli'.lines = cli.lines /\ cli'.prompts = cli.prompts
      /\ cli'.said = cli.said /\ cli'.wire = Tail(cli.wire)
      /\ Head(cli.wire) = cli.wire[1] /\ Head(cli.wire).n = top /\ ~CursorQuiet
      /\ 1 \in DOMAIN cli.wire /\ Len(cli.wire) \in Nat
      /\ Len(Tail(cli.wire)) = Len(cli.wire) - 1 /\ Tail(cli.wire) \in Seq(CursorWire)
      /\ DOMAIN cli.wire = 1 .. Len(cli.wire)
  BY <1>1, <1>2, CursorReads
<1>4. CursorAnswered /\ Missing(1)
  <2>1. ~CursorWorking
    BY <1>1, <1>3 DEF CursorWorking
  <2> QED BY <1>1, <2>1, CursorReads
<1>5. Len(cli.wire) = 1
  BY <1>1, <1>3, <1>4 DEF CursorAnswered
<1>6. Tail(cli.wire) = <<>>
  <2>1. PICK rest \in Seq(CursorWire) : rest = Tail(cli.wire)
    BY <1>3
  <2>2. Len(rest) = 0
    BY <1>3, <1>5, <2>1
  <2>3. rest = <<>>
    BY <2>2
  <2> QED BY <2>1, <2>3
<1>7. CursorQuiet'
  BY <1>3, <1>4, <1>6 DEF CursorQuiet, CursorAnswered, NoPrompt
<1>8. Missing(0)'
  <2> SUFFICES ASSUME adapter.turn # 0
               PROVE  cli.said[adapter.turn] + 0 = Len(messages[adapter.turn]) + Len(cli'.wire)
    BY <1>1, <1>3 DEF Missing
  <2>1. PICK a \in Nat, b \in Nat : a = cli.said[adapter.turn] /\ b = Len(messages[adapter.turn])
    BY CursorPlain
  <2>2. a + 1 = b + 1
    BY <1>4, <1>5, <2>1 DEF Missing
  <2>3. Len(cli'.wire) = 0 /\ a + 0 = b + 0
    BY <1>3, <1>5, <2>2
  <2> QED BY <2>1, <2>3
<1>9. /\ prompter' \in [Numbers -> CursorPlaces]
      /\ \A u \in Numbers : \/ prompter'[u] = prompter[u]
                            \/ u = top /\ prompter[u] = "sent" /\ prompter'[u] = "answered"
  <2>1. prompter \in [Numbers -> CursorPlaces] /\ "answered" \in CursorPlaces
    BY CursorFields DEF CursorPlaces
  <2>2. CASE UNCHANGED prompter
    BY <2>1, <2>2
  <2>3. CASE prompter[top] = "sent" /\ A!To(top, "answered")
    BY <1>2, <2>1, <2>3, PrompterGoes
  <2>4. UNCHANGED prompter \/ (prompter[top] = "sent" /\ A!To(top, "answered"))
    BY <1>3 DEF A!ReadResponse
  <2> QED BY <2>2, <2>3, <2>4
<1>10. CursorShapes' /\ CursorGiven'
  BY <1>1, <1>3, <1>9 DEF CursorInv, CursorShapes, CursorGiven
<1>11. CursorTurns'
  <2>1. ASSUME NEW u \in Numbers, prompter[u] = "sent" PROVE u = adapter.turn /\ u = adapter.top
    BY <2>1, PrompterActive
  <2>2. ASSUME NEW u \in Numbers
        PROVE  /\ u > adapter.top => /\ prompter'[u] = "none" /\ results[u] = "none"
                                     /\ messages[u] = <<>> /\ cli.said[u] = 0
               /\ u <= adapter.top /\ u # adapter.turn => prompter'[u] = "over"
               /\ u = adapter.turn => prompter'[u] \notin {"none", "over"} /\ results[u] = "none"
    <3>1. CASE prompter'[u] = prompter[u]
      BY <3>1 DEF CursorInv, CursorTurns
    <3>2. CASE prompter[u] = "sent" /\ prompter'[u] = "answered"
      <4>1. u = adapter.turn /\ u = adapter.top /\ u \in Nat
        BY <2>1, <3>2 DEF Numbers
      <4> QED BY <3>2, <4>1 DEF CursorInv, CursorTurns
    <3> QED BY <1>9, <3>1, <3>2
  <2> QED BY <1>1, <1>3, <2>2, CursorFields DEF CursorTurns
<1>12. CursorSettled'
  BY <1>1, <1>7, <1>9 DEF CursorInv, CursorSettled
<1>13. CursorStage'
  BY <1>7, <1>8 DEF CursorStage
<1> QED BY <1>10, <1>11, <1>12, <1>13 DEF CursorInv

\* A turn begins when nothing is on its way.
LEMMA CursorSend ==
    ASSUME CursorInv, NEW c \in Thread, A!SendMessage(c) PROVE CursorInv'
<1>1. /\ adapter \in CursorAdapters /\ adapter.top \in 0 .. MaxTurns /\ adapter.top < MaxTurns
      /\ MaxTurns \in Nat /\ adapter.turn = 0 /\ ~adapter.closed
      /\ adapter' = [adapter EXCEPT !.turn = adapter.top + 1, !.top = adapter.top + 1]
      /\ A!To(adapter.top + 1, "begun") /\ UNCHANGED <<results, messages, cli>>
  BY CursorFields DEF A!SendMessage, A!MaySend
<1>2. PICK n \in Numbers : n = adapter.top + 1 /\ n # 0 /\ n \in 0 .. MaxTurns
  BY <1>1 DEF Numbers
<1>3. /\ adapter' \in CursorAdapters /\ adapter'.turn = n /\ adapter'.top = n
      /\ adapter'.closed = adapter.closed
  <2>1. adapter' = [adapter EXCEPT !.turn = n, !.top = n]
    BY <1>1, <1>2
  <2> QED BY <1>1, <1>2, <2>1 DEF CursorAdapters
<1>4. /\ prompter' \in [Numbers -> CursorPlaces] /\ prompter'[n] = "begun"
      /\ \A u \in Numbers \ {n} : prompter'[u] = prompter[u]
  BY <1>1, <1>2, PrompterGoes DEF CursorPlaces
<1>5. n > adapter.top
  BY <1>1, <1>2
<1>6. /\ results[n] = "none" /\ messages[n] = <<>> /\ cli.said[n] = 0
      /\ \A u \in Numbers : u > n => u > adapter.top
      /\ \A u \in Numbers : u <= n /\ u # n => u <= adapter.top /\ u # adapter.turn
  <2>1. \A u \in Numbers : u \in Nat /\ u # 0
    BY DEF Numbers
  <2>2. \A u \in Numbers : u > n => u > adapter.top
    BY <1>1, <1>2, <2>1
  <2>3. \A u \in Numbers : u <= n /\ u # n => u <= adapter.top /\ u # adapter.turn
    BY <1>1, <1>2, <2>1
  <2> QED BY <1>5, <2>2, <2>3 DEF CursorInv, CursorTurns
<1>7. CursorQuiet /\ CursorQuiet'
  <2>1. CursorQuiet
    BY <1>1 DEF CursorInv, CursorSettled
  <2> QED BY <1>1, <2>1 DEF CursorQuiet, NoPrompt
<1>8. CursorShapes' /\ CursorGiven'
  BY <1>1, <1>3, <1>4 DEF CursorInv, CursorShapes, CursorGiven
<1>9. CursorTurns'
  <2>1. ASSUME NEW u \in Numbers
        PROVE  /\ u > n => /\ prompter'[u] = "none" /\ results[u] = "none"
                           /\ messages[u] = <<>> /\ cli.said[u] = 0
               /\ u <= n /\ u # n => prompter'[u] = "over"
               /\ u = n => prompter'[u] \notin {"none", "over"} /\ results[u] = "none"
    <3>1. CASE u = n
      <4>1. ~(u > n)
        BY <1>1, <1>2, <3>1
      <4> QED BY <3>1, <1>4, <1>6, <4>1
    <3>2. CASE u # n
      BY <3>2, <1>4, <1>6 DEF CursorInv, CursorTurns
    <3> QED BY <3>1, <3>2
  <2> QED BY <1>1, <1>3, <2>1 DEF CursorTurns
<1>10. CursorStage'
  <2>1. Len(messages[n]) = 0 /\ Len(cli.wire) = 0
    BY <1>6, <1>7 DEF CursorQuiet
  <2>2. Missing(0)'
    BY <1>1, <1>3, <1>6, <2>1 DEF Missing
  <2> QED BY <1>7, <2>2 DEF CursorStage
<1>11. CursorSettled'
  BY <1>3, <1>4, <1>7 DEF CursorSettled
<1> QED BY <1>8, <1>9, <1>10, <1>11 DEF CursorInv

LEMMA CursorCloses ==
    ASSUME CursorInv, NEW t \in Numbers, A!CloseAfterFailure(t) PROVE CursorInv'
<1>1. PICK client \in {adapter.client, "closed"} :
         adapter' = [adapter EXCEPT !.closed = TRUE, !.client = client]
  BY DEF A!CloseAfterFailure, A!AfterFailure, A!AfterClose
<1>2. /\ prompter[t] = "failed" /\ UNCHANGED <<results, messages, cli>>
      /\ A!To(t, "closed") \/ A!To(t, "dead")
  BY DEF A!CloseAfterFailure
<1>3. adapter \in CursorAdapters /\ t = adapter.turn
  BY <1>2, CursorFields, PrompterActive
<1>4. client \in {"none", "up", "failed", "closed"}
  BY <1>1, <1>3 DEF CursorAdapters
<1>5. adapter' \in CursorAdapters
  BY <1>1, <1>3, <1>4 DEF CursorAdapters
<1>6. adapter'.turn = adapter.turn /\ adapter'.top = adapter.top /\ adapter'.closed
  BY <1>1, <1>3 DEF CursorAdapters
<1> QED BY <1>2, <1>3, <1>5, <1>6, PrompterMoves DEF CursorPlaces

\* A turn ends: nothing is on its way, or the connection is closed.
LEMMA CursorRecord ==
    ASSUME CursorInv, NEW t \in Numbers, A!Record(t) PROVE CursorInv'
<1>1. /\ prompter[t] \in {"answered", "closed"} /\ results' = [results EXCEPT ![t] = prompter[t]]
      /\ adapter' = [adapter EXCEPT !.turn = 0] /\ A!To(t, "over") /\ UNCHANGED <<messages, cli>>
  BY DEF A!Record
<1>2. t = adapter.turn /\ t = adapter.top /\ adapter.turn # 0
  BY <1>1, PrompterActive
<1>3. /\ adapter \in CursorAdapters /\ results \in [Numbers -> {"none", "answered", "closed"}]
      /\ MaxTurns \in Nat
  BY CursorFields
<1>4. /\ adapter' \in CursorAdapters /\ adapter'.turn = 0 /\ adapter'.top = adapter.top
      /\ adapter'.closed = adapter.closed
  <2>1. 0 \in 0 .. MaxTurns
    BY <1>3
  <2>2. adapter' \in CursorAdapters
    BY <1>1, <1>3, <2>1 DEF CursorAdapters
  <2> QED BY <1>1, <1>3, <2>2 DEF CursorAdapters
<1>5. /\ results' \in [Numbers -> {"none", "answered", "closed"}] /\ results'[t] = prompter[t]
      /\ \A u \in Numbers \ {t} : results'[u] = results[u]
  BY <1>1, <1>3
<1>6. /\ prompter' \in [Numbers -> CursorPlaces] /\ prompter'[t] = "over"
      /\ \A u \in Numbers \ {t} : prompter'[u] = prompter[u]
  BY <1>1, PrompterGoes DEF CursorPlaces
<1>7. CursorQuiet' <=> CursorQuiet
  BY <1>1 DEF CursorQuiet, NoPrompt
<1>8. prompter[t] = "answered" => CursorQuiet
  BY <1>2 DEF CursorInv, CursorSettled
<1>9. prompter[t] = "closed" => adapter.closed
  BY <1>2 DEF CursorInv, CursorSettled
<1>10. prompter[t] = "answered" => Len(messages[t]) = cli.said[t]
  <2> SUFFICES ASSUME prompter[t] = "answered" PROVE Len(messages[t]) = cli.said[t]
    OBVIOUS
  <2>1. CursorQuiet
    BY <1>8
  <2>2. Missing(0)
    <3>1. ~CursorWaiting
      BY <2>1 DEF CursorQuiet, NoPrompt, CursorWaiting, PromptAt
    <3>2. ~CursorWorking /\ ~CursorAnswered
      BY <2>1 DEF CursorQuiet, CursorWorking, CursorAnswered
    <3> QED BY <3>1, <3>2 DEF CursorInv, CursorStage
  <2>3. PICK a \in Nat, b \in Nat : a = cli.said[t] /\ b = Len(messages[t])
    BY <1>2, CursorPlain
  <2>4. Len(cli.wire) = 0
    BY <2>1 DEF CursorQuiet
  <2>5. a + 0 = b + 0
    BY <1>2, <2>2, <2>3, <2>4 DEF Missing
  <2> QED BY <2>3, <2>5
<1>11. CursorShapes'
  BY <1>1, <1>4, <1>5, <1>6 DEF CursorInv, CursorShapes
<1>12. CursorTurns'
  <2>1. \A u \in Numbers : u \in Nat /\ u # 0
    BY DEF Numbers
  <2>2. ASSUME NEW u \in Numbers
        PROVE  /\ u > adapter.top => /\ prompter'[u] = "none" /\ results'[u] = "none"
                                     /\ messages[u] = <<>> /\ cli.said[u] = 0
               /\ u <= adapter.top => prompter'[u] = "over"
    <3>1. CASE u = t
      BY <1>2, <1>6, <2>1, <3>1
    <3>2. CASE u # t
      BY <3>2, <1>2, <1>5, <1>6 DEF CursorInv, CursorTurns
    <3> QED BY <3>1, <3>2
  <2> QED BY <1>1, <1>4, <2>1, <2>2 DEF CursorTurns
<1>13. CursorStage'
  <2>1. Missing(0)' /\ Missing(1)'
    BY <1>4 DEF Missing
  <2>2. CursorWaiting => CursorWaiting'
    BY <1>1, <1>4 DEF CursorWaiting, PromptAt
  <2>3. (CursorWorking => CursorWorking') /\ (CursorAnswered => CursorAnswered')
    BY <1>1, <1>4 DEF CursorWorking, CursorAnswered, NoPrompt
  <2> QED BY <1>4, <1>7, <2>1, <2>2, <2>3 DEF CursorInv, CursorStage
<1>14. CursorSettled'
  <2>1. \A u \in Numbers : u # 0
    BY DEF Numbers
  <2>2. adapter.closed \/ CursorQuiet
    BY <1>1, <1>8, <1>9
  <2>3. \A u \in Numbers : u = adapter.top /\ results'[u] = "answered" => CursorQuiet
    BY <1>1, <1>2, <1>5, <1>8
  <2> QED BY <1>4, <1>7, <2>1, <2>2, <2>3 DEF CursorSettled
<1>15. CursorGiven'
  <2>1. ASSUME NEW u \in Numbers, results'[u] = "answered" PROVE Len(messages[u]) = cli.said[u]
    <3>1. CASE u = t
      BY <3>1, <2>1, <1>5, <1>10
    <3>2. CASE u # t
      BY <3>2, <2>1, <1>5 DEF CursorInv, CursorGiven
    <3> QED BY <3>1, <3>2
  <2> QED BY <1>1, <2>1 DEF CursorInv, CursorGiven
<1> QED BY <1>11, <1>12, <1>13, <1>14, <1>15 DEF CursorInv
-----------------------------------------------------------------------------
LEMMA CursorStep ==
    ASSUME CursorInv, A!CursorNext PROVE CursorInv'
<1>1. CASE \/ A!Discover \/ A!Fail
           \/ \E c \in Thread : A!Connect(c) \/ A!Opened(c) \/ A!GiveUp(c) \/ A!Close(c)
  BY <1>1, CursorConnection
<1>2. CASE A!ReadUpdate \/ A!ReadResponse
  BY <1>2, CursorReadUpdate, CursorReadResponse
<1>3. CASE A!TakePrompt \/ A!TakeCancel \/ A!Update \/ A!Respond
  BY <1>3, CursorTakePrompt, CursorTakeCancel, CursorUpdate, CursorRespond
<1>4. CASE \E c \in Thread : A!SendMessage(c)
  BY <1>4, CursorSend
<1>5. ASSUME NEW t \in Numbers,
             \/ A!SendRequest(t) \/ A!RequestFails(t) \/ A!PublishFails(t) \/ A!CloseAfterFailure(t)
             \/ A!Record(t) \/ A!Interrupt(t)
      PROVE  CursorInv'
  BY <1>5, CursorRequest, CursorRequestFails, CursorCloses, CursorRecord, CursorInterrupt
<1> QED BY <1>1, <1>2, <1>3, <1>4, <1>5 DEF A!CursorNext, A!Turns, Numbers

LEMMA CursorRest ==
    ASSUME CursorInv, UNCHANGED <<adapter, results, cli, user, messages, prompter>> PROVE CursorInv'
<1>1. adapter' \in CursorAdapters
  BY CursorFields
<1> QED BY <1>1, CursorAdapts

LEMMA CursorSays ==
    ASSUME CursorInv PROVE A!CursorTypeOK /\ A!MessagesOwn /\ A!CancelOwn
<1>1. /\ adapter \in CursorAdapters /\ results \in [Numbers -> {"none", "answered", "closed"}]
      /\ adapter.top \in 0 .. MaxTurns /\ adapter.turn \in {0, adapter.top} /\ MaxTurns \in Nat
  BY CursorFields
<1>2. A!CursorTypeOK
  <2>1. adapter.turn \in 0 .. adapter.top
    BY <1>1
  <2>2. /\ adapter.probe \in {"none", "gone", "held"}
        /\ adapter.client \in {"none", "up", "failed", "closed"}
    BY <1>1 DEF CursorAdapters
  <2>3. \A t \in Numbers : prompter[t] \notin {"none", "over"} => adapter.turn = t
    BY PrompterActive
  <2> QED BY <1>1, <2>1, <2>2, <2>3 DEF A!CursorTypeOK, A!Turns, Numbers
<1>3. A!MessagesOwn
  BY DEF CursorInv, CursorGiven, A!MessagesOwn, A!Turns, Numbers
<1>4. A!CancelOwn
  <2> SUFFICES ASSUME cli.lines # <<>>, cli.prompts # <<>> PROVE Head(cli.prompts) = Head(cli.lines).n
    BY DEF A!CancelOwn
  <2>1. CursorWorking /\ Head(cli.prompts) = adapter.top
    BY CursorWorks
  <2>2. Head(cli.lines) = cli.lines[1] /\ 1 \in DOMAIN cli.lines
    BY CursorTakes
  <2> QED BY <2>1, <2>2 DEF CursorWorking
<1> QED BY <1>2, <1>3, <1>4
-----------------------------------------------------------------------------
(* The executions and the replies of the hub (Workbench).                   *)

TaskPlaces == {"idle", "claim", "launch", "start", "undo", "abandon", "fail", "record", "register",
               "connect", "send", "refuse", "deliver", "update", "complete", "finish", "closing"}
Tasks == [pc : TaskPlaces, x : Execution \cup {Free}, c : Reply \cup {Free}, mine : BOOLEAN,
          todo : SUBSET Execution]
StartPlaces == {"launch", "start", "undo", "abandon", "fail", "record", "register"}
ReplyPlaces == {"connect", "send", "refuse", "deliver", "update", "complete", "finish"}
LockedPlaces == ReplyPlaces \cup {"closing"}
Receipts == {"none", "delivering", "delivered", "unknown", "ok", "failed"}

WorkbenchShapes ==
    /\ exec \in [Execution -> [status : W!Statuses, session : BOOLEAN]]
    /\ receipt \in [Reply -> Receipts]
    /\ kept \in SUBSET Execution /\ own \in SUBSET Execution /\ strays \in BOOLEAN
    /\ task \in [Thread -> Tasks]
    /\ begun \in [Execution -> {0, 1}] /\ taken \in [Reply -> {0, 1}]

Starting(t, x) == task[t].pc \in StartPlaces /\ task[t].x = x

\* What a thread knows where it is.
Located(t) ==
    LET k == task[t]
    IN  /\ k.pc \in StartPlaces \cup {"claim"} => k.x \in Execution
        /\ k.pc \in {"launch", "start"} => begun[k.x] = 0
        /\ k.pc = "record" => begun[k.x] = 1
        /\ k.pc \in ReplyPlaces => k.c \in Reply /\ k.x = Target[k.c] /\ exec[k.x].session
        /\ k.pc \in {"connect", "send"} => receipt[k.c] = "delivering" /\ taken[k.c] = 0
        /\ k.pc \in {"deliver", "update", "complete"} => taken[k.c] = 1 /\ k.x \in kept
        /\ holder = t => k.pc \in LockedPlaces
        /\ k.pc \in LockedPlaces => holder = t

\* Who has passed claim_start is alone.
Alone == \A t, u \in Thread, x \in Execution : Starting(t, x) /\ Starting(u, x) => t = u

\* An execution that nobody has claimed has no session; what this process has set running has a
\* runtime, or is about to have one.
Kin(x) ==
    /\ exec[x].status \in {"absent", "queued"} => begun[x] = 0 /\ \A t \in Thread : ~Starting(t, x)
    /\ exec[x].session => begun[x] = 1
    /\ x \in own => /\ exec[x].status = "running"
                    /\ x \in kept \/ \E t \in Thread : task[t].pc = "register" /\ task[t].x = x

\* What a receipt says is what the provider knows.
Told(c) ==
    /\ receipt[c] = "none" => taken[c] = 0
    /\ receipt[c] \in {"delivered", "unknown", "ok"} => taken[c] = 1
    /\ taken[c] = 1 => begun[Target[c]] = 1

WorkbenchInv ==
    /\ WorkbenchShapes
    /\ \A t \in Thread : Located(t)
    /\ Alone
    /\ \A x \in Execution : Kin(x)
    /\ \A c \in Reply : Told(c)

LEMMA WorkbenchFields ==
    ASSUME WorkbenchInv
    PROVE  /\ exec \in [Execution -> [status : W!Statuses, session : BOOLEAN]]
           /\ receipt \in [Reply -> Receipts] /\ task \in [Thread -> Tasks]
           /\ begun \in [Execution -> {0, 1}] /\ taken \in [Reply -> {0, 1}]
           /\ kept \in SUBSET Execution /\ own \in SUBSET Execution /\ strays \in BOOLEAN
           /\ \A t \in Thread : task[t] \in Tasks /\ Located(t)
           /\ \A x \in Execution : Kin(x)
           /\ \A c \in Reply : Told(c) /\ Target[c] \in Execution
           /\ Free \notin Thread
<1>1. \A c \in Reply : Target[c] \in Execution
  BY Belongs
<1>2. Free \notin Thread
  BY Apart
<1> QED BY <1>1, <1>2 DEF WorkbenchInv, WorkbenchShapes

LEMMA TaskAway == W!Resting \in Tasks /\ W!Resting.pc = "idle"
  BY DEF W!Resting, Tasks, TaskPlaces

LEMMA WorkbenchStart == ASSUME W!WorkbenchInit PROVE WorkbenchInv
<1>1. WorkbenchShapes
  BY DEF W!WorkbenchInit, WorkbenchShapes, W!Resting, Tasks, TaskPlaces, Receipts, W!Statuses
<1>2. \A t \in Thread : task[t].pc = "idle" /\ holder # t
  BY Apart DEF W!WorkbenchInit, W!Resting
<1>3. \A x \in Execution : Kin(x)
  BY <1>2 DEF W!WorkbenchInit, Kin, Starting, StartPlaces
<1>4. \A c \in Reply : Told(c)
  BY DEF W!WorkbenchInit, Told
<1>5. (\A t \in Thread : Located(t)) /\ Alone
  BY <1>2 DEF Located, Alone, Starting, StartPlaces, ReplyPlaces, LockedPlaces
<1> QED BY <1>1, <1>3, <1>4, <1>5 DEF WorkbenchInv

\* Thread t goes to k.  Who starts was already starting, or has just claimed; what t does to an
\* execution or to a reply concerns nobody else.
ThreadGoes(t, k) ==
    /\ k \in Tasks /\ task' = [task EXCEPT ![t] = k]
    /\ k.pc \in StartPlaces =>
          /\ k.x \in Execution
          /\ Starting(t, k.x) \/ exec[k.x].status = "queued"
    /\ \A x \in Execution : begun'[x] = begun[x] \/ Starting(t, x)
    /\ \A x \in Execution : exec[x].session => exec'[x].session
    /\ (receipt' = receipt /\ taken' = taken) \/ holder \in {t, Free}
    /\ kept \subseteq kept' \/ holder = t
    /\ \/ holder' = holder
       \/ holder = t /\ holder' = Free
       \/ holder = Free /\ holder' = t

LEMMA WorkbenchFrame ==
    ASSUME WorkbenchInv, NEW t \in Thread, NEW k, ThreadGoes(t, k), WorkbenchShapes', Located(t)',
           \A x \in Execution : Kin(x)', \A c \in Reply : Told(c)'
    PROVE  WorkbenchInv'
<1>1. task'[t] = k /\ \A u \in Thread : u # t => task'[u] = task[u]
  BY WorkbenchFields DEF ThreadGoes
<1>2. ASSUME NEW u \in Thread, NEW x \in Execution, Starting(u, x)', Starting(t, x)' PROVE u = t
  <2>1. CASE u # t
    <3>1. Starting(u, x) /\ k.x = x /\ k.pc \in StartPlaces
      BY <1>1, <1>2, <2>1 DEF Starting
    <3>2. CASE Starting(t, x)
      BY <3>1, <3>2 DEF WorkbenchInv, Alone
    <3>3. CASE exec[x].status = "queued"
      BY <3>1, <3>3, WorkbenchFields DEF Kin
    <3> QED BY <3>1, <3>2, <3>3 DEF ThreadGoes
  <2> QED BY <2>1
<1>3. Alone'
  <2>1. ASSUME NEW u \in Thread, NEW v \in Thread, NEW x \in Execution, Starting(u, x)', Starting(v, x)'
        PROVE  u = v
    <3>1. CASE u = t \/ v = t
      BY <1>2, <2>1, <3>1
    <3>2. CASE u # t /\ v # t
      <4>1. Starting(u, x) /\ Starting(v, x)
        BY <1>1, <2>1, <3>2 DEF Starting
      <4> QED BY <4>1 DEF WorkbenchInv, Alone
    <3> QED BY <3>1, <3>2
  <2> QED BY <2>1 DEF Alone
<1>4. ASSUME NEW u \in Thread, u # t PROVE Located(u)'
  <2>1. task'[u] = task[u] /\ task[u] \in Tasks /\ Located(u)
    BY <1>1, <1>4, WorkbenchFields
  <2>2. (holder = u <=> holder' = u) /\ (holder = u => holder # t /\ holder # Free)
    BY <1>4, WorkbenchFields DEF ThreadGoes
  <2>3. task[u].pc \in LockedPlaces => receipt' = receipt /\ taken' = taken /\ kept \subseteq kept'
    BY <2>1, <2>2 DEF ThreadGoes, Located
  <2>4. task[u].pc \in {"launch", "start", "record"} => begun'[task[u].x] = begun[task[u].x]
    <3> SUFFICES ASSUME task[u].pc \in {"launch", "start", "record"}
                 PROVE  begun'[task[u].x] = begun[task[u].x]
      OBVIOUS
    <3>1. task[u].x \in Execution /\ Starting(u, task[u].x)
      BY <2>1 DEF Located, Starting, StartPlaces
    <3>2. ~Starting(t, task[u].x)
      BY <1>4, <3>1 DEF WorkbenchInv, Alone
    <3> QED BY <3>1, <3>2 DEF ThreadGoes
  <2>5. task[u].pc \in ReplyPlaces => exec'[task[u].x].session
    <3> SUFFICES ASSUME task[u].pc \in ReplyPlaces PROVE exec'[task[u].x].session
      OBVIOUS
    <3>1. task[u].x \in Execution /\ exec[task[u].x].session
      BY <2>1, WorkbenchFields DEF Located
    <3> QED BY <3>1 DEF ThreadGoes
  <2> QED BY <2>1, <2>2, <2>3, <2>4, <2>5 DEF Located, ReplyPlaces, LockedPlaces
<1> QED BY <1>3, <1>4 DEF WorkbenchInv

\* An execution whose record and session stay as they are.
LEMMA KinStays ==
    ASSUME WorkbenchInv, NEW t \in Thread, NEW k, ThreadGoes(t, k), NEW x \in Execution,
           exec'[x] = exec[x], begun'[x] = begun[x],
           k.pc \in StartPlaces /\ k.x = x => Starting(t, x),
           x \in own' => x \in own,
           x \in own' /\ x \in kept => x \in kept',
           x \in own' /\ task[t].pc = "register" /\ task[t].x = x => x \in kept'
    PROVE  Kin(x)'
<1>1. task'[t] = k /\ (\A u \in Thread : u # t => task'[u] = task[u]) /\ Kin(x)
  BY WorkbenchFields DEF ThreadGoes
<1>2. ASSUME exec[x].status \in {"absent", "queued"}, NEW u \in Thread PROVE ~Starting(u, x)'
  <2>1. \A v \in Thread : ~Starting(v, x)
    BY <1>1, <1>2 DEF Kin
  <2> QED BY <1>1, <2>1 DEF Starting
<1>3. ASSUME x \in own'
      PROVE  x \in kept' \/ \E u \in Thread : task'[u].pc = "register" /\ task'[u].x = x
  BY <1>1, <1>3 DEF Kin
<1> QED BY <1>1, <1>2, <1>3 DEF Kin

\* Nothing happens but at thread t, or to the runtimes.
LEMMA WorkbenchMoves ==
    ASSUME WorkbenchInv, NEW t \in Thread, NEW k, ThreadGoes(t, k), UNCHANGED <<exec, receipt, begun, taken, own>>,
           kept' \in SUBSET Execution, strays' \in BOOLEAN, kept \subseteq kept',
           k.pc \in StartPlaces => Starting(t, k.x),
           task[t].pc = "register" => task[t].x \in kept',
           Located(t)'
    PROVE  WorkbenchInv'
<1>1. WorkbenchShapes'
  BY WorkbenchFields DEF ThreadGoes, WorkbenchInv, WorkbenchShapes
<1>2. \A x \in Execution : Kin(x)'
  <2>1. ASSUME NEW x \in Execution PROVE Kin(x)'
    <3>1. exec'[x] = exec[x] /\ begun'[x] = begun[x] /\ (x \in own' => x \in own)
      OBVIOUS
    <3>2. x \in own' /\ x \in kept => x \in kept'
      OBVIOUS
    <3>3. x \in own' /\ task[t].pc = "register" /\ task[t].x = x => x \in kept'
      OBVIOUS
    <3>4. k.pc \in StartPlaces /\ k.x = x => Starting(t, x)
      OBVIOUS
    <3> QED BY <3>1, <3>2, <3>3, <3>4, KinStays
  <2> QED BY <2>1
<1>3. \A c \in Reply : Told(c)'
  BY WorkbenchFields DEF Told
<1> QED BY <1>1, <1>2, <1>3, WorkbenchFrame

\* A thread that goes to a place where it need not know anything of a reply, nor hold the lock.
LEMMA WorkbenchStarts ==
    ASSUME WorkbenchInv, NEW t \in Thread,
           W!Launch(t) \/ W!Undo(t) \/ W!Abandon(t) \/ W!Register(t)
    PROVE  WorkbenchInv'
<1>0. UNCHANGED <<exec, receipt, begun, taken, own, holder, strays>> /\ task[t] \in Tasks /\ Located(t)
  BY WorkbenchFields DEF W!Launch, W!Undo, W!Abandon, W!Register, W!files, W!objects, W!provider
<1>1. ASSUME NEW k \in Tasks, task' = [task EXCEPT ![t] = k], kept' \in SUBSET Execution, kept \subseteq kept',
             task[t].pc \in StartPlaces,
             \/ k.pc = "idle"
             \/ k.pc \in {"start", "undo", "abandon", "fail"} /\ k.x = task[t].x,
             k.pc = "start" => task[t].pc = "launch",
             task[t].pc = "register" => task[t].x \in kept'
      PROVE  WorkbenchInv'
  <2>1. task'[t] = k
    BY <1>1, WorkbenchFields
  <2>2. holder # t /\ task[t].x \in Execution
    BY <1>0, <1>1 DEF Located, StartPlaces, LockedPlaces, ReplyPlaces
  <2>3. ThreadGoes(t, k)
    BY <1>0, <1>1, <2>2 DEF ThreadGoes, Starting, StartPlaces
  <2>4. Located(t)'
    BY <1>0, <1>1, <2>1, <2>2 DEF Located, StartPlaces, LockedPlaces, ReplyPlaces
  <2>5. k.pc \in StartPlaces => Starting(t, k.x)
    BY <1>1 DEF Starting, StartPlaces
  <2> QED BY <1>0, <1>1, <2>3, <2>4, <2>5, WorkbenchFields, WorkbenchMoves
<1>2. CASE W!Launch(t)
  <2>1. task[t].pc = "launch" /\ UNCHANGED kept
    BY <1>2 DEF W!Launch, W!At, W!objects
  <2>2. CASE W!Goto(t, "fail")
    <3> DEFINE k == [task[t] EXCEPT !.pc = "fail"]
    <3>1. k \in Tasks /\ k.pc = "fail" /\ k.x = task[t].x
      BY <1>0 DEF Tasks, TaskPlaces
    <3>2. task' = [task EXCEPT ![t] = k]
      BY <2>2, WorkbenchFields DEF W!Goto
    <3> HIDE DEF k
    <3> QED BY <1>1, <2>1, <3>1, <3>2, WorkbenchFields DEF StartPlaces
  <2>3. ASSUME NEW pc \in {"start", "undo", "abandon"},
               task' = [task EXCEPT ![t].pc = pc, ![t].mine = TRUE]
        PROVE  WorkbenchInv'
    <3> DEFINE k == [task[t] EXCEPT !.pc = pc, !.mine = TRUE]
    <3>1. k \in Tasks /\ k.pc = pc /\ k.x = task[t].x
      BY <1>0 DEF Tasks, TaskPlaces
    <3>2. task' = [task EXCEPT ![t] = k]
      BY <2>3, WorkbenchFields
    <3> HIDE DEF k
    <3> QED BY <1>1, <2>1, <3>1, <3>2, WorkbenchFields DEF StartPlaces
  <2> QED BY <1>2, <2>2, <2>3 DEF W!Launch
<1>3. CASE W!Undo(t) \/ W!Abandon(t)
  <2> DEFINE k == [task[t] EXCEPT !.pc = "fail", !.mine = FALSE]
  <2>1. k \in Tasks /\ k.pc = "fail" /\ k.x = task[t].x
    BY <1>0 DEF Tasks, TaskPlaces
  <2>2. task' = [task EXCEPT ![t] = k] /\ task[t].pc \in {"undo", "abandon"}
    BY <1>3, WorkbenchFields DEF W!Undo, W!Abandon, W!Drop, W!At
  <2> HIDE DEF k
  <2>3. kept' \in {kept, kept \cup {task[t].x}} /\ task[t].x \in Execution
    BY <1>0, <1>3, <2>2 DEF W!Undo, W!Abandon, Located, StartPlaces
  <2>4. kept' \in SUBSET Execution /\ kept \subseteq kept'
    BY <2>3, WorkbenchFields
  <2> QED BY <1>1, <2>1, <2>2, <2>4 DEF StartPlaces
<1>4. CASE W!Register(t)
  <2>1. task[t].pc = "register" /\ kept' = kept \cup {task[t].x} /\ task' = [task EXCEPT ![t] = W!Resting]
    BY <1>4 DEF W!Register, W!At, W!Keep
  <2>2. task[t].x \in Execution
    BY <1>0, <2>1 DEF Located, StartPlaces
  <2>3. kept' \in SUBSET Execution /\ kept \subseteq kept' /\ task[t].x \in kept'
    BY <2>1, <2>2, WorkbenchFields
  <2>4. W!Resting \in Tasks /\ W!Resting.pc = "idle"
    BY <1>0, <2>1, TaskAway
  <2> QED BY <1>1, <2>1, <2>3, <2>4 DEF StartPlaces
<1> QED BY <1>2, <1>3, <1>4

\* What t does concerns execution x.
LEMMA WorkbenchTouches ==
    ASSUME WorkbenchInv, NEW t \in Thread, NEW k, ThreadGoes(t, k), NEW x \in Execution,
           UNCHANGED <<receipt, taken, strays>>, kept' \in SUBSET Execution, kept \subseteq kept' \cup {x},
           exec' \in [Execution -> [status : W!Statuses, session : BOOLEAN]],
           begun' \in [Execution -> {0, 1}], own' \in SUBSET Execution, own' \subseteq own \cup {x},
           \A y \in Execution \ {x} : exec'[y] = exec[y] /\ begun'[y] = begun[y],
           begun[x] = 1 => begun'[x] = 1,
           task[t].pc # "register", k.pc \in StartPlaces => k.x = x,
           Kin(x)', Located(t)'
    PROVE  WorkbenchInv'
<1>1. WorkbenchShapes'
  BY WorkbenchFields DEF ThreadGoes, WorkbenchInv, WorkbenchShapes
<1>2. \A y \in Execution : Kin(y)'
  <2>1. ASSUME NEW y \in Execution, y # x PROVE Kin(y)'
    <3>1. exec'[y] = exec[y] /\ begun'[y] = begun[y] /\ (y \in own' => y \in own)
      BY <2>1
    <3>2. y \in own' /\ y \in kept => y \in kept'
      BY <2>1
    <3>3. y \in own' /\ task[t].pc = "register" /\ task[t].x = y => y \in kept'
      OBVIOUS
    <3>4. k.pc \in StartPlaces /\ k.x = y => Starting(t, y)
      BY <2>1
    <3> QED BY <3>1, <3>2, <3>3, <3>4, KinStays
  <2> QED BY <2>1
<1>3. \A c \in Reply : Told(c)'
  <2>1. \A y \in Execution : begun[y] = 1 => begun'[y] = 1
    OBVIOUS
  <2> QED BY <2>1, WorkbenchFields DEF Told
<1> QED BY <1>1, <1>2, <1>3, WorkbenchFrame

\* What t does concerns reply c.
LEMMA WorkbenchTells ==
    ASSUME WorkbenchInv, NEW t \in Thread, NEW k, ThreadGoes(t, k), NEW c \in Reply,
           UNCHANGED <<exec, begun, own, strays>>, kept' \in SUBSET Execution, kept \subseteq kept',
           receipt' \in [Reply -> Receipts], taken' \in [Reply -> {0, 1}],
           \A d \in Reply \ {c} : receipt'[d] = receipt[d] /\ taken'[d] = taken[d],
           task[t].pc # "register", k.pc \notin StartPlaces,
           Told(c)', Located(t)'
    PROVE  WorkbenchInv'
<1>1. WorkbenchShapes'
  BY WorkbenchFields DEF ThreadGoes, WorkbenchInv, WorkbenchShapes
<1>2. \A y \in Execution : Kin(y)'
  <2>1. ASSUME NEW y \in Execution PROVE Kin(y)'
    <3>1. exec'[y] = exec[y] /\ begun'[y] = begun[y] /\ (y \in own' => y \in own)
      OBVIOUS
    <3>2. y \in own' /\ y \in kept => y \in kept'
      OBVIOUS
    <3>3. y \in own' /\ task[t].pc = "register" /\ task[t].x = y => y \in kept'
      OBVIOUS
    <3>4. k.pc \in StartPlaces /\ k.x = y => Starting(t, y)
      OBVIOUS
    <3> QED BY <3>1, <3>2, <3>3, <3>4, KinStays
  <2> QED BY <2>1
<1>3. \A d \in Reply : Told(d)'
  BY WorkbenchFields DEF Told
<1> QED BY <1>1, <1>2, <1>3, WorkbenchFrame

LEMMA WorkbenchCreate ==
    ASSUME WorkbenchInv, NEW t \in Thread, NEW x \in Execution, W!Create(t, x) PROVE WorkbenchInv'
<1> DEFINE k == [W!Resting EXCEPT !.pc = "claim", !.x = x]
<1>1. k \in Tasks /\ k.pc = "claim" /\ k.x = x
  BY DEF W!Resting, Tasks, TaskPlaces
<1>2. /\ task' = [task EXCEPT ![t] = k] /\ exec[x].status \in {"absent", "queued"}
      /\ exec' = [exec EXCEPT ![x].status = "queued"] /\ task[t].pc = "idle"
      /\ UNCHANGED <<receipt, kept, strays, holder, begun, taken, own>>
  BY TaskAway DEF W!Create, W!objects, W!provider
<1> HIDE DEF k
<1>3. /\ exec' \in [Execution -> [status : W!Statuses, session : BOOLEAN]]
      /\ exec'[x].status = "queued" /\ exec'[x].session = exec[x].session
      /\ \A y \in Execution \ {x} : exec'[y] = exec[y]
  BY <1>2, WorkbenchFields DEF W!Statuses
<1>4. Located(t) /\ Kin(x) /\ task'[t] = k
  BY <1>2, WorkbenchFields
<1>5. ThreadGoes(t, k)
  BY <1>1, <1>2, <1>3 DEF ThreadGoes, StartPlaces
<1>6. Located(t)'
  BY <1>1, <1>2, <1>4 DEF Located, StartPlaces, ReplyPlaces, LockedPlaces
<1>7. Kin(x)'
  <2>1. begun'[x] = 0 /\ x \notin own'
    BY <1>2, <1>4 DEF Kin
  <2>2. ASSUME NEW u \in Thread PROVE ~Starting(u, x)'
    <3>1. CASE u = t
      BY <1>1, <1>4, <3>1 DEF Starting, StartPlaces
    <3>2. CASE u # t
      <4>1. task'[u] = task[u]
        BY <1>2, <3>2, WorkbenchFields
      <4> QED BY <1>2, <1>4, <4>1 DEF Kin, Starting
    <3> QED BY <3>1, <3>2
  <2>3. ~exec'[x].session
    BY <1>2, <1>3, <1>4 DEF Kin
  <2> QED BY <2>1, <2>2, <2>3 DEF Kin
<1> QED BY <1>1, <1>2, <1>3, <1>5, <1>6, <1>7, WorkbenchFields, WorkbenchTouches DEF StartPlaces

LEMMA WorkbenchClaim ==
    ASSUME WorkbenchInv, NEW t \in Thread, W!Claim(t) PROVE WorkbenchInv'
<1>1. /\ task[t].pc = "claim" /\ UNCHANGED <<receipt, kept, strays, holder, begun, taken>>
      /\ task[t] \in Tasks /\ Located(t)
  BY WorkbenchFields DEF W!Claim, W!At, W!objects, W!provider
<1>2. PICK x \in Execution : x = task[t].x /\ holder # t /\ Kin(x)
  BY <1>1, WorkbenchFields DEF Located, LockedPlaces, ReplyPlaces
<1>3. ASSUME exec[x].status = "queued", W!Status(x, "starting"), W!Goto(t, "launch") PROVE WorkbenchInv'
  <2> DEFINE k == [task[t] EXCEPT !.pc = "launch"]
  <2>1. k \in Tasks /\ k.pc = "launch" /\ k.x = x
    BY <1>1, <1>2 DEF Tasks, TaskPlaces
  <2>2. task' = [task EXCEPT ![t] = k]
    BY <1>3, WorkbenchFields DEF W!Goto
  <2> HIDE DEF k
  <2>3. /\ exec' \in [Execution -> [status : W!Statuses, session : BOOLEAN]]
        /\ exec'[x].status = "starting" /\ exec'[x].session = exec[x].session
        /\ \A y \in Execution \ {x} : exec'[y] = exec[y]
    BY <1>2, <1>3, WorkbenchFields DEF W!Status, W!Statuses
  <2>4. own' = own \ {x}
    BY <1>3 DEF W!Status
  <2>5. task'[t] = k
    BY <2>2, WorkbenchFields
  <2>6. ThreadGoes(t, k)
    BY <1>1, <1>2, <1>3, <2>1, <2>2, <2>3 DEF ThreadGoes
  <2>7. Located(t)'
    <3>1. begun'[x] = 0
      BY <1>1, <1>2, <1>3 DEF Kin
    <3> QED BY <1>1, <1>2, <2>1, <2>5, <3>1 DEF Located, StartPlaces, ReplyPlaces, LockedPlaces
  <2>8. Kin(x)'
    <3>1. x \notin own' /\ exec'[x].status \notin {"absent", "queued"}
      BY <2>3, <2>4
    <3>2. exec'[x].session => begun'[x] = 1
      BY <1>1, <1>2, <2>3 DEF Kin
    <3> QED BY <3>1, <3>2 DEF Kin
  <2>9. /\ kept' \in SUBSET Execution /\ kept \subseteq kept' \cup {x} /\ begun' \in [Execution -> {0, 1}]
        /\ own' \in SUBSET Execution /\ own' \subseteq own \cup {x} /\ task[t].pc # "register"
        /\ UNCHANGED <<receipt, taken, strays>> /\ (begun[x] = 1 => begun'[x] = 1)
    BY <1>1, <2>4, WorkbenchFields
  <2>10. \A y \in Execution \ {x} : exec'[y] = exec[y] /\ begun'[y] = begun[y]
    BY <1>1, <2>3
  <2> QED BY <1>2, <2>1, <2>3, <2>6, <2>7, <2>8, <2>9, <2>10, WorkbenchTouches
<1>4. CASE task' = [task EXCEPT ![t] = W!Resting] /\ UNCHANGED <<exec, own>>
  <2>1. task'[t] = W!Resting
    BY <1>4, WorkbenchFields
  <2>2. ThreadGoes(t, W!Resting)
    BY <1>1, <1>4, TaskAway DEF ThreadGoes, StartPlaces
  <2>3. Located(t)'
    BY <1>1, <1>2, <2>1, TaskAway DEF Located, StartPlaces, ReplyPlaces, LockedPlaces
  <2> QED BY <1>1, <1>4, <2>2, <2>3, TaskAway, WorkbenchFields, WorkbenchMoves DEF StartPlaces
<1> QED BY <1>2, <1>3, <1>4 DEF W!Claim, W!Claimable

LEMMA WorkbenchBegins ==
    ASSUME WorkbenchInv, NEW t \in Thread, W!Start(t) PROVE WorkbenchInv'
<1>1. /\ task[t].pc = "start" /\ UNCHANGED <<exec, receipt, kept, strays, holder, taken, own>>
      /\ task[t] \in Tasks /\ Located(t)
  BY WorkbenchFields DEF W!Start, W!At, W!objects, W!files
<1>2. PICK x \in Execution : x = task[t].x /\ holder # t /\ Kin(x) /\ begun[x] = 0 /\ Starting(t, x)
  BY <1>1, WorkbenchFields DEF Located, LockedPlaces, ReplyPlaces, StartPlaces, Starting
<1>3. ASSUME NEW pc \in {"record", "abandon", "undo"}, W!Goto(t, pc),
             \/ begun' = [begun EXCEPT ![x] = W!Once(@)]
             \/ pc # "record" /\ UNCHANGED begun
      PROVE  WorkbenchInv'
  <2> DEFINE k == [task[t] EXCEPT !.pc = pc]
  <2>1. k \in Tasks /\ k.pc = pc /\ k.x = x
    BY <1>1, <1>2 DEF Tasks, TaskPlaces
  <2>2. task' = [task EXCEPT ![t] = k]
    BY <1>3, WorkbenchFields DEF W!Goto
  <2> HIDE DEF k
  <2>3. /\ begun' \in [Execution -> {0, 1}] /\ (pc = "record" => begun'[x] = 1)
        /\ \A y \in Execution \ {x} : begun'[y] = begun[y]
    BY <1>2, <1>3, WorkbenchFields DEF W!Once
  <2>4. task'[t] = k
    BY <2>2, WorkbenchFields
  <2>5. ThreadGoes(t, k)
    BY <1>1, <1>2, <2>1, <2>2, <2>3 DEF ThreadGoes
  <2>6. Located(t)'
    BY <1>1, <1>2, <2>1, <2>3, <2>4 DEF Located, StartPlaces, ReplyPlaces, LockedPlaces
  <2>7. Kin(x)'
    <3>1. exec[x].status \notin {"absent", "queued"} /\ ~exec[x].session
      BY <1>2 DEF Kin
    <3>2. x \in own => x \in kept \/ \E u \in Thread : task'[u].pc = "register" /\ task'[u].x = x
      <4>1. ASSUME x \in own, x \notin kept PROVE \E u \in Thread : task'[u].pc = "register" /\ task'[u].x = x
        <5>1. PICK u \in Thread : task[u].pc = "register" /\ task[u].x = x
          BY <1>2, <4>1 DEF Kin
        <5>2. task'[u] = task[u]
          BY <1>1, <2>2, <5>1, WorkbenchFields
        <5> QED BY <5>1, <5>2
      <4> QED BY <4>1
    <3>3. x \in own' => exec'[x].status = "running" /\ (x \in kept => x \in kept')
      BY <1>1, <1>2 DEF Kin
    <3>4. exec'[x].status \notin {"absent", "queued"} /\ ~exec'[x].session
      BY <1>1, <3>1
    <3> QED BY <1>1, <3>2, <3>3, <3>4 DEF Kin
  <2>8. /\ kept' \in SUBSET Execution /\ kept \subseteq kept' \cup {x}
        /\ exec' \in [Execution -> [status : W!Statuses, session : BOOLEAN]]
        /\ own' \in SUBSET Execution /\ own' \subseteq own \cup {x} /\ task[t].pc # "register"
        /\ UNCHANGED <<receipt, taken, strays>> /\ (begun[x] = 1 => begun'[x] = 1)
    BY <1>1, <1>2, WorkbenchFields
  <2>9. \A y \in Execution \ {x} : exec'[y] = exec[y] /\ begun'[y] = begun[y]
    BY <1>1, <2>3
  <2> QED BY <1>2, <2>1, <2>3, <2>5, <2>6, <2>7, <2>8, <2>9, WorkbenchTouches
<1> QED BY <1>1, <1>2, <1>3 DEF W!Start

LEMMA WorkbenchFails ==
    ASSUME WorkbenchInv, NEW t \in Thread, W!Fail(t) PROVE WorkbenchInv'
<1>1. /\ task[t].pc = "fail" /\ UNCHANGED <<receipt, kept, strays, holder, begun, taken>>
      /\ task[t] \in Tasks /\ Located(t) /\ task' = [task EXCEPT ![t] = W!Resting]
  BY WorkbenchFields DEF W!Fail, W!At, W!objects, W!provider
<1>2. PICK x \in Execution : x = task[t].x /\ holder # t /\ Kin(x) /\ Starting(t, x)
  BY <1>1, WorkbenchFields DEF Located, LockedPlaces, ReplyPlaces, StartPlaces, Starting
<1>3. task'[t] = W!Resting
  BY <1>1, WorkbenchFields
<1>4. Located(t)'
  BY <1>1, <1>2, <1>3, TaskAway DEF Located, StartPlaces, ReplyPlaces, LockedPlaces
<1>5. ASSUME W!Status(x, "failed") PROVE WorkbenchInv'
  <2>1. /\ exec' \in [Execution -> [status : W!Statuses, session : BOOLEAN]]
        /\ exec'[x].status = "failed" /\ exec'[x].session = exec[x].session
        /\ \A y \in Execution \ {x} : exec'[y] = exec[y]
    BY <1>2, <1>5, WorkbenchFields DEF W!Status, W!Statuses
  <2>2. own' = own \ {x}
    BY <1>5 DEF W!Status
  <2>3. ThreadGoes(t, W!Resting)
    BY <1>1, <1>2, <2>1, TaskAway DEF ThreadGoes, StartPlaces
  <2>4. Kin(x)'
    <3>1. x \notin own' /\ exec'[x].status \notin {"absent", "queued"}
      BY <2>1, <2>2
    <3>2. exec'[x].session => begun'[x] = 1
      BY <1>1, <1>2, <2>1 DEF Kin
    <3> QED BY <3>1, <3>2 DEF Kin
  <2>5. /\ kept' \in SUBSET Execution /\ kept \subseteq kept' \cup {x} /\ begun' \in [Execution -> {0, 1}]
        /\ own' \in SUBSET Execution /\ own' \subseteq own \cup {x} /\ task[t].pc # "register"
        /\ UNCHANGED <<receipt, taken, strays>> /\ (begun[x] = 1 => begun'[x] = 1)
        /\ W!Resting.pc \notin StartPlaces
    BY <1>1, <2>2, WorkbenchFields, TaskAway DEF StartPlaces
  <2>6. \A y \in Execution \ {x} : exec'[y] = exec[y] /\ begun'[y] = begun[y]
    BY <1>1, <2>1
  <2> QED BY <1>2, <1>4, <2>1, <2>3, <2>4, <2>5, <2>6, WorkbenchTouches
<1>6. ASSUME UNCHANGED <<exec, own>> PROVE WorkbenchInv'
  <2>1. ThreadGoes(t, W!Resting)
    BY <1>1, <1>6, TaskAway DEF ThreadGoes, StartPlaces
  <2> QED BY <1>1, <1>4, <1>6, <2>1, TaskAway, WorkbenchFields, WorkbenchMoves DEF StartPlaces
<1> QED BY <1>2, <1>5, <1>6 DEF W!Fail

LEMMA WorkbenchRecords ==
    ASSUME WorkbenchInv, NEW t \in Thread, W!Record(t) PROVE WorkbenchInv'
<1>1. /\ task[t].pc = "record" /\ UNCHANGED <<receipt, kept, strays, holder, begun, taken>>
      /\ task[t] \in Tasks /\ Located(t)
  BY WorkbenchFields DEF W!Record, W!At, W!objects, W!provider
<1>2. PICK x \in Execution : x = task[t].x /\ holder # t /\ Kin(x) /\ begun[x] = 1 /\ Starting(t, x)
  BY <1>1, WorkbenchFields DEF Located, LockedPlaces, ReplyPlaces, StartPlaces, Starting
<1>3. ASSUME exec' = [exec EXCEPT ![x] = [status |-> "running", session |-> TRUE]], own' = own \cup {x},
             W!Goto(t, "register")
      PROVE  WorkbenchInv'
  <2> DEFINE k == [task[t] EXCEPT !.pc = "register"]
  <2>1. k \in Tasks /\ k.pc = "register" /\ k.x = x
    BY <1>1, <1>2 DEF Tasks, TaskPlaces
  <2>2. task' = [task EXCEPT ![t] = k]
    BY <1>3, WorkbenchFields DEF W!Goto
  <2> HIDE DEF k
  <2>3. /\ exec' \in [Execution -> [status : W!Statuses, session : BOOLEAN]]
        /\ exec'[x].status = "running" /\ exec'[x].session
        /\ \A y \in Execution \ {x} : exec'[y] = exec[y]
    BY <1>2, <1>3, WorkbenchFields DEF W!Statuses
  <2>4. task'[t] = k
    BY <2>2, WorkbenchFields
  <2>5. ThreadGoes(t, k)
    BY <1>1, <1>2, <1>3, <2>1, <2>2, <2>3 DEF ThreadGoes
  <2>6. Located(t)'
    BY <1>1, <1>2, <2>1, <2>4 DEF Located, StartPlaces, ReplyPlaces, LockedPlaces
  <2>7. Kin(x)'
    <3>1. exec'[x].status = "running" /\ begun'[x] = 1
      BY <1>1, <1>2, <2>3
    <3>2. \E u \in Thread : task'[u].pc = "register" /\ task'[u].x = x
      BY <2>1, <2>4
    <3> QED BY <3>1, <3>2 DEF Kin
  <2>8. /\ kept' \in SUBSET Execution /\ kept \subseteq kept' \cup {x} /\ begun' \in [Execution -> {0, 1}]
        /\ own' \in SUBSET Execution /\ own' \subseteq own \cup {x} /\ task[t].pc # "register"
        /\ UNCHANGED <<receipt, taken, strays>> /\ (begun[x] = 1 => begun'[x] = 1)
    BY <1>1, <1>2, <1>3, WorkbenchFields
  <2>9. \A y \in Execution \ {x} : exec'[y] = exec[y] /\ begun'[y] = begun[y]
    BY <1>1, <2>3
  <2> QED BY <1>2, <2>1, <2>3, <2>5, <2>6, <2>7, <2>8, <2>9, WorkbenchTouches
<1>4. ASSUME W!Goto(t, "abandon"), UNCHANGED <<exec, own>> PROVE WorkbenchInv'
  <2> DEFINE k == [task[t] EXCEPT !.pc = "abandon"]
  <2>1. k \in Tasks /\ k.pc = "abandon" /\ k.x = x
    BY <1>1, <1>2 DEF Tasks, TaskPlaces
  <2>2. task' = [task EXCEPT ![t] = k]
    BY <1>4, WorkbenchFields DEF W!Goto
  <2> HIDE DEF k
  <2>3. task'[t] = k
    BY <2>2, WorkbenchFields
  <2>4. ThreadGoes(t, k)
    BY <1>1, <1>2, <1>4, <2>1, <2>2 DEF ThreadGoes
  <2>5. Located(t)'
    BY <1>1, <1>2, <2>1, <2>3 DEF Located, StartPlaces, ReplyPlaces, LockedPlaces
  <2> QED BY <1>1, <1>2, <1>4, <2>1, <2>4, <2>5, WorkbenchFields, WorkbenchMoves
<1> QED BY <1>2, <1>3, <1>4 DEF W!Record

LEMMA WorkbenchAsks ==
    ASSUME WorkbenchInv, NEW t \in Thread, NEW c \in Reply, W!ClaimReply(t, c) PROVE WorkbenchInv'
<1> DEFINE pc == IF Target[c] \in kept THEN "send" ELSE "connect"
           k == [W!Resting EXCEPT !.pc = pc, !.x = Target[c], !.c = c]
<1>1. Target[c] \in Execution /\ Told(c)
  BY WorkbenchFields
<1>2. k \in Tasks /\ k.pc \in {"send", "connect"} /\ k.x = Target[c] /\ k.c = c
  BY <1>1 DEF W!Resting, Tasks, TaskPlaces
<1>3. /\ task' = [task EXCEPT ![t] = k] /\ task[t].pc = "idle" /\ holder = Free /\ holder' = t
      /\ exec[Target[c]].session /\ receipt[c] = "none"
      /\ receipt' = [receipt EXCEPT ![c] = "delivering"]
      /\ UNCHANGED <<exec, kept, strays, begun, taken, own>>
  BY TaskAway DEF W!ClaimReply, W!Unclaimed, W!provider
<1> HIDE DEF k
<1>4. /\ receipt' \in [Reply -> Receipts] /\ receipt'[c] = "delivering"
      /\ \A d \in Reply \ {c} : receipt'[d] = receipt[d]
  BY <1>3, WorkbenchFields DEF Receipts
<1>5. task'[t] = k
  BY <1>3, WorkbenchFields
<1>6. ThreadGoes(t, k)
  BY <1>2, <1>3 DEF ThreadGoes, StartPlaces
<1>7. Located(t)'
  BY <1>1, <1>2, <1>3, <1>4, <1>5 DEF Located, Told, StartPlaces, ReplyPlaces, LockedPlaces
<1>8. Told(c)'
  BY <1>1, <1>3, <1>4 DEF Told
<1>9. task[t].pc # "register" /\ k.pc \notin StartPlaces
  BY <1>2, <1>3 DEF StartPlaces
<1> QED BY <1>3, <1>4, <1>6, <1>7, <1>8, <1>9, WorkbenchFields, WorkbenchTells

\* A thread that holds the lock and goes on with its reply, or lets it be.
LEMMA WorkbenchMovesOn ==
    ASSUME WorkbenchInv, NEW t \in Thread,
           W!Connect(t) \/ W!Finish(t)
    PROVE  WorkbenchInv'
<1>1. /\ task[t].pc \in {"connect", "finish"} /\ UNCHANGED <<exec, receipt, kept, begun, taken, own>>
      /\ task[t] \in Tasks /\ Located(t) /\ holder = t
  BY WorkbenchFields DEF W!Connect, W!Finish, W!At, W!objects, W!files, W!provider, Located, LockedPlaces,
     ReplyPlaces
<1>2. ASSUME NEW k \in Tasks, task' = [task EXCEPT ![t] = k], strays' \in BOOLEAN,
             \/ /\ task[t].pc = "connect" /\ k.pc \in {"send", "refuse"} /\ k.x = task[t].x
                /\ k.c = task[t].c /\ holder' = t
             \/ k.pc = "idle" /\ holder' = Free
      PROVE  WorkbenchInv'
  <2>1. task'[t] = k
    BY <1>2, WorkbenchFields
  <2>2. ThreadGoes(t, k)
    BY <1>1, <1>2 DEF ThreadGoes, StartPlaces
  <2>3. Located(t)'
    BY <1>1, <1>2, <2>1, WorkbenchFields DEF Located, StartPlaces, ReplyPlaces, LockedPlaces
  <2>4. k.pc \notin StartPlaces /\ task[t].pc # "register"
    BY <1>1, <1>2 DEF StartPlaces
  <2> QED BY <1>1, <1>2, <2>2, <2>3, <2>4, WorkbenchFields, WorkbenchMoves
<1>3. ASSUME task[t].pc = "connect", UNCHANGED <<strays, holder>>,
             task' = [task EXCEPT ![t].pc = "send", ![t].mine = TRUE]
      PROVE  WorkbenchInv'
  <2> DEFINE k == [task[t] EXCEPT !.pc = "send", !.mine = TRUE]
  <2>1. k \in Tasks /\ k.pc = "send" /\ k.x = task[t].x /\ k.c = task[t].c
    BY <1>1 DEF Tasks, TaskPlaces
  <2>2. task' = [task EXCEPT ![t] = k]
    BY <1>3, WorkbenchFields
  <2> HIDE DEF k
  <2> QED BY <1>1, <1>2, <1>3, <2>1, <2>2, WorkbenchFields
<1>4. ASSUME task[t].pc = "connect", UNCHANGED <<strays, holder>>, W!Goto(t, "refuse")
      PROVE  WorkbenchInv'
  <2> DEFINE k == [task[t] EXCEPT !.pc = "refuse"]
  <2>1. k \in Tasks /\ k.pc = "refuse" /\ k.x = task[t].x /\ k.c = task[t].c
    BY <1>1 DEF Tasks, TaskPlaces
  <2>2. task' = [task EXCEPT ![t] = k]
    BY <1>4, WorkbenchFields DEF W!Goto
  <2> HIDE DEF k
  <2> QED BY <1>1, <1>2, <1>4, <2>1, <2>2, WorkbenchFields
<1>5. CASE W!Connect(t)
  BY <1>3, <1>4, <1>5 DEF W!Connect, W!objects, W!At
<1>6. CASE W!Finish(t)
  <2>1. strays' \in BOOLEAN
    <3>1. task[t].mine \in BOOLEAN /\ strays \in BOOLEAN
      BY <1>1, WorkbenchFields DEF Tasks
    <3> QED BY <1>6, <3>1 DEF W!Finish
  <2> QED BY <1>2, <1>6, <2>1, TaskAway DEF W!Finish
<1> QED BY <1>5, <1>6

\* A thread at a place of reply.
LEMMA Replying ==
    ASSUME WorkbenchInv, NEW t \in Thread, task[t].pc \in ReplyPlaces
    PROVE  /\ holder = t /\ task[t] \in Tasks /\ Located(t)
           /\ \E c \in Reply : /\ c = task[t].c /\ Target[c] = task[t].x /\ Told(c)
                               /\ Target[c] \in Execution /\ exec[Target[c]].session
<1>1. Located(t) /\ task[t] \in Tasks
  BY WorkbenchFields
<1>2. holder = t /\ task[t].c \in Reply /\ task[t].x = Target[task[t].c] /\ exec[task[t].x].session
  BY <1>1 DEF Located, LockedPlaces
<1> QED BY <1>1, <1>2, WorkbenchFields

\* What it tells of the reply: the receipt, what the provider has taken, and the runtime.
LEMMA WorkbenchReplies ==
    ASSUME WorkbenchInv, NEW t \in Thread, NEW k \in Tasks, NEW c \in Reply, NEW r \in Receipts, NEW n \in {0, 1},
           task[t].pc \in ReplyPlaces, task[t].c = c, task' = [task EXCEPT ![t] = k],
           UNCHANGED <<exec, begun, own, strays, holder>>,
           kept' \in {kept, kept \cup {Target[c]}},
           receipt' = [receipt EXCEPT ![c] = r], taken' = [taken EXCEPT ![c] = n],
           k.pc \in ReplyPlaces, k.x = task[t].x, k.c = c,
           k.pc \notin {"connect", "send"},
           k.pc \in {"deliver", "update", "complete"} => n = 1 /\ Target[c] \in kept',
           r = "none" => n = 0, r \in {"delivered", "unknown", "ok"} => n = 1
    PROVE  WorkbenchInv'
<1>1. /\ holder = t /\ Located(t) /\ Target[c] = task[t].x /\ Told(c) /\ Target[c] \in Execution
      /\ exec[Target[c]].session
  BY Replying
<1>2. /\ receipt' \in [Reply -> Receipts] /\ receipt'[c] = r /\ taken' \in [Reply -> {0, 1}] /\ taken'[c] = n
      /\ \A d \in Reply \ {c} : receipt'[d] = receipt[d] /\ taken'[d] = taken[d]
  BY WorkbenchFields
<1>3. task'[t] = k
  BY WorkbenchFields
<1>4. k.pc \notin StartPlaces /\ task[t].pc # "register"
  BY DEF ReplyPlaces, StartPlaces
<1>5. kept \subseteq kept' /\ kept' \in SUBSET Execution
  BY <1>1, WorkbenchFields
<1>6. ThreadGoes(t, k)
  BY <1>1, <1>4, <1>5 DEF ThreadGoes
<1>7. Located(t)'
  <2>1. k.pc \in LockedPlaces /\ k.pc \notin StartPlaces \cup {"claim"}
    BY DEF LockedPlaces, ReplyPlaces, StartPlaces
  <2> QED BY <1>1, <1>2, <1>3, <2>1 DEF Located, StartPlaces
<1>8. Told(c)'
  <2>1. begun[Target[c]] = 1
    BY <1>1, WorkbenchFields DEF Kin
  <2> QED BY <1>2, <2>1 DEF Told
<1> QED BY <1>2, <1>4, <1>5, <1>6, <1>7, <1>8, WorkbenchTells

LEMMA WorkbenchSends ==
    ASSUME WorkbenchInv, NEW t \in Thread,
           W!Send(t) \/ W!Refuse(t) \/ W!Deliver(t) \/ W!Complete(t)
    PROVE  WorkbenchInv'
<1>1. /\ task[t].pc \in {"send", "refuse", "deliver", "complete"} /\ task[t].pc \in ReplyPlaces
      /\ UNCHANGED <<exec, begun, own, strays, holder>>
  BY DEF W!Send, W!Refuse, W!Deliver, W!Complete, W!At, W!objects, W!files, W!provider, ReplyPlaces
<1>2. PICK c \in Reply : /\ c = task[t].c /\ Target[c] = task[t].x /\ Told(c)
                         /\ Target[c] \in Execution /\ exec[Target[c]].session
  BY <1>1, Replying
<1>3. task[t] \in Tasks /\ Located(t)
  BY WorkbenchFields
<1>4. /\ receipt[c] \in Receipts /\ receipt = [receipt EXCEPT ![c] = receipt[c]]
      /\ taken[c] \in {0, 1} /\ taken = [taken EXCEPT ![c] = taken[c]]
  BY <1>2, WorkbenchFields
<1>5. ASSUME NEW pc \in {"refuse", "finish", "update", "deliver"}
      PROVE  LET k == [task[t] EXCEPT !.pc = pc]
                 m == [task[t] EXCEPT !.pc = pc, !.mine = FALSE]
             IN  /\ k \in Tasks /\ k.pc = pc /\ k.x = task[t].x /\ k.c = c
                 /\ m \in Tasks /\ m.pc = pc /\ m.x = task[t].x /\ m.c = c
                 /\ pc \in ReplyPlaces
  BY <1>2, <1>3 DEF Tasks, TaskPlaces, ReplyPlaces
<1>6. ASSUME NEW pc \in {"refuse", "finish", "update", "deliver"}, W!Goto(t, pc),
             NEW r \in Receipts, NEW n \in {0, 1},
             receipt' = [receipt EXCEPT ![c] = r], taken' = [taken EXCEPT ![c] = n], UNCHANGED kept,
             r = "none" => n = 0, r \in {"delivered", "unknown", "ok"} => n = 1,
             pc \in {"update", "deliver"} => n = 1 /\ Target[c] \in kept
      PROVE  WorkbenchInv'
  <2> DEFINE k == [task[t] EXCEPT !.pc = pc]
  <2>1. k \in Tasks /\ k.pc = pc /\ k.x = task[t].x /\ k.c = c /\ pc \in ReplyPlaces
    BY <1>5
  <2>2. task' = [task EXCEPT ![t] = k]
    BY <1>6, WorkbenchFields DEF W!Goto
  <2> HIDE DEF k
  <2> QED BY <1>1, <1>2, <1>6, <2>1, <2>2, WorkbenchReplies
<1>7. CASE W!Send(t)
  <2>1. task[t].pc = "send" /\ receipt[c] = "delivering" /\ taken[c] = 0 /\ UNCHANGED receipt
    BY <1>2, <1>3, <1>7 DEF W!Send, W!At, W!files, Located
  <2>2. W!Once(taken[c]) = 1
    BY <2>1 DEF W!Once
  <2>3. ASSUME taken' = [taken EXCEPT ![c] = W!Once(@)], W!Goto(t, "refuse"), UNCHANGED kept PROVE WorkbenchInv'
    <3>1. taken' = [taken EXCEPT ![c] = 1] /\ receipt' = [receipt EXCEPT ![c] = receipt[c]]
      BY <1>4, <2>1, <2>2, <2>3
    <3> QED BY <1>4, <1>6, <2>1, <2>3, <3>1
  <2>4. ASSUME taken' = [taken EXCEPT ![c] = W!Once(@)], W!Keep(task[t].x), W!Drop(t, "deliver")
        PROVE  WorkbenchInv'
    <3> DEFINE k == [task[t] EXCEPT !.pc = "deliver", !.mine = FALSE]
    <3>1. taken' = [taken EXCEPT ![c] = 1] /\ receipt' = [receipt EXCEPT ![c] = receipt[c]]
      BY <1>4, <2>1, <2>2, <2>4
    <3>2. k \in Tasks /\ k.pc = "deliver" /\ k.x = task[t].x /\ k.c = c /\ "deliver" \in ReplyPlaces
      BY <1>5
    <3>3. task' = [task EXCEPT ![t] = k]
      BY <2>4, WorkbenchFields DEF W!Drop
    <3>4. kept' = kept \cup {Target[c]}
      BY <1>2, <2>4 DEF W!Keep
    <3> HIDE DEF k
    <3>5. receipt' = [receipt EXCEPT ![c] = "delivering"] /\ "delivering" \in Receipts
      BY <2>1, <3>1 DEF Receipts
    <3>6. Target[c] \in kept' /\ k.pc \notin {"connect", "send"} /\ k.pc \in ReplyPlaces
      BY <3>2, <3>4
    <3> QED BY <1>1, <1>2, <3>1, <3>2, <3>3, <3>4, <3>5, <3>6, WorkbenchReplies
  <2>5. ASSUME W!Goto(t, "refuse"), UNCHANGED <<taken, kept>> PROVE WorkbenchInv'
    <3>1. taken' = [taken EXCEPT ![c] = taken[c]] /\ receipt' = [receipt EXCEPT ![c] = receipt[c]]
      BY <1>4, <2>1, <2>5
    <3> QED BY <1>4, <1>6, <2>1, <2>5, <3>1
  <2> QED BY <1>2, <1>7, <2>3, <2>4, <2>5 DEF W!Send
<1>8. CASE W!Refuse(t)
  <2>1. PICK r \in {"failed", receipt[c]} : receipt' = [receipt EXCEPT ![c] = r]
    BY <1>2, <1>8 DEF W!Refuse, W!Reported
  <2>2. taken' = [taken EXCEPT ![c] = taken[c]] /\ UNCHANGED kept /\ W!Goto(t, "finish")
    BY <1>4, <1>8 DEF W!Refuse, W!objects, W!provider
  <2>3. r \in Receipts /\ (r = "none" => taken[c] = 0) /\ (r \in {"delivered", "unknown", "ok"} => taken[c] = 1)
    BY <1>2, <1>4, <2>1 DEF Told, Receipts
  <2> QED BY <1>4, <1>6, <2>1, <2>2, <2>3
<1>9. CASE W!Deliver(t) \/ W!Complete(t)
  <2>1. taken[c] = 1 /\ Target[c] \in kept
    BY <1>2, <1>3, <1>9 DEF W!Deliver, W!Complete, W!At, Located
  <2>2. taken' = [taken EXCEPT ![c] = 1] /\ UNCHANGED kept
    BY <1>4, <1>9, <2>1 DEF W!Deliver, W!Complete, W!objects, W!provider
  <2>3. \/ receipt' = [receipt EXCEPT ![c] = "delivered"] /\ W!Goto(t, "update")
        \/ receipt' = [receipt EXCEPT ![c] = "ok"] /\ W!Goto(t, "finish")
        \/ receipt' = [receipt EXCEPT ![c] = receipt[c]] /\ W!Goto(t, "refuse")
    BY <1>2, <1>4, <1>9 DEF W!Deliver, W!Complete
  <2>4. "delivered" \in Receipts /\ "ok" \in Receipts /\ receipt[c] # "none"
    BY <1>2, <2>1 DEF Receipts, Told
  <2> QED BY <1>4, <1>6, <2>1, <2>2, <2>3, <2>4
<1> QED BY <1>7, <1>8, <1>9

LEMMA WorkbenchUpdates ==
    ASSUME WorkbenchInv, NEW t \in Thread, W!Update(t) PROVE WorkbenchInv'
<1>1. task[t].pc = "update" /\ task[t].pc \in ReplyPlaces /\ UNCHANGED <<kept, strays, holder, begun, taken>>
  BY DEF W!Update, W!At, W!objects, W!provider, ReplyPlaces
<1>2. PICK c \in Reply : /\ c = task[t].c /\ Target[c] = task[t].x /\ Told(c)
                         /\ Target[c] \in Execution /\ exec[Target[c]].session
  BY <1>1, Replying
<1>3. task[t] \in Tasks /\ Located(t) /\ taken[c] = 1 /\ Target[c] \in kept /\ holder = t
  BY <1>1, <1>2, WorkbenchFields DEF Located, LockedPlaces, ReplyPlaces
<1>4. taken' = [taken EXCEPT ![c] = 1] /\ receipt = [receipt EXCEPT ![c] = receipt[c]] /\ receipt[c] \in Receipts
      /\ receipt[c] # "none"
  BY <1>1, <1>2, <1>3, WorkbenchFields DEF Told
<1>5. ASSUME NEW pc \in {"refuse", "finish", "complete"}
      PROVE  LET k == [task[t] EXCEPT !.pc = pc]
             IN  k \in Tasks /\ k.pc = pc /\ k.x = task[t].x /\ k.c = c /\ pc \in ReplyPlaces
  BY <1>2, <1>3 DEF Tasks, TaskPlaces, ReplyPlaces
<1>6. ASSUME NEW pc \in {"refuse", "finish"}, W!Goto(t, pc), UNCHANGED <<exec, own>>,
             NEW r \in {"unknown", receipt[c]}, receipt' = [receipt EXCEPT ![c] = r]
      PROVE  WorkbenchInv'
  <2> DEFINE k == [task[t] EXCEPT !.pc = pc]
  <2>1. k \in Tasks /\ k.pc = pc /\ k.x = task[t].x /\ k.c = c /\ pc \in ReplyPlaces
    BY <1>5
  <2>2. task' = [task EXCEPT ![t] = k]
    BY <1>6, WorkbenchFields DEF W!Goto
  <2>3. r \in Receipts /\ r # "none"
    BY <1>4 DEF Receipts
  <2> HIDE DEF k
  <2> QED BY <1>1, <1>2, <1>4, <1>6, <2>1, <2>2, <2>3, WorkbenchReplies
<1>7. ASSUME W!Status(Target[c], "running"), W!Goto(t, "complete"), UNCHANGED receipt PROVE WorkbenchInv'
  <2> DEFINE k == [task[t] EXCEPT !.pc = "complete"]
  <2>1. k \in Tasks /\ k.pc = "complete" /\ k.x = Target[c] /\ k.c = c
    BY <1>2, <1>5
  <2>2. task' = [task EXCEPT ![t] = k]
    BY <1>7, WorkbenchFields DEF W!Goto
  <2> HIDE DEF k
  <2>3. PICK x \in Execution : x = Target[c] /\ Kin(x)
    BY <1>2, WorkbenchFields
  <2>4. /\ exec' \in [Execution -> [status : W!Statuses, session : BOOLEAN]]
        /\ exec'[x].status = "running" /\ exec'[x].session = exec[x].session
        /\ \A y \in Execution \ {x} : exec'[y] = exec[y]
    BY <1>7, <2>3, WorkbenchFields DEF W!Status, W!Statuses
  <2>5. own' = own \cup {x}
    BY <1>7, <2>3 DEF W!Status
  <2>6. task'[t] = k
    BY <2>2, WorkbenchFields
  <2>7. ThreadGoes(t, k)
    BY <1>1, <1>7, <2>1, <2>2, <2>4 DEF ThreadGoes, StartPlaces
  <2>8. Located(t)'
    <3>1. exec'[Target[c]].session
      BY <1>2, <2>3, <2>4
    <3>2. taken'[c] = 1 /\ Target[c] \in kept'
      BY <1>1, <1>3
    <3> QED BY <1>1, <1>2, <1>3, <2>1, <2>6, <3>1, <3>2 DEF Located, StartPlaces, ReplyPlaces, LockedPlaces
  <2>9. Kin(x)'
    <3>1. begun'[x] = 1 /\ exec'[x].status = "running" /\ x \in kept'
      BY <1>1, <1>2, <1>3, <2>3, <2>4 DEF Kin
    <3> QED BY <3>1 DEF Kin
  <2>10. /\ kept' \in SUBSET Execution /\ kept \subseteq kept' \cup {x} /\ begun' \in [Execution -> {0, 1}]
         /\ own' \in SUBSET Execution /\ own' \subseteq own \cup {x} /\ task[t].pc # "register"
         /\ UNCHANGED <<receipt, taken, strays>> /\ (begun[x] = 1 => begun'[x] = 1)
         /\ k.pc \notin StartPlaces
    BY <1>1, <1>7, <2>1, <2>5, WorkbenchFields DEF StartPlaces
  <2>11. \A y \in Execution \ {x} : exec'[y] = exec[y] /\ begun'[y] = begun[y]
    BY <1>1, <2>4
  <2> QED BY <2>1, <2>4, <2>7, <2>8, <2>9, <2>10, <2>11, WorkbenchTouches
<1> QED BY <1>2, <1>4, <1>6, <1>7 DEF W!Update

LEMMA WorkbenchCloses ==
    ASSUME WorkbenchInv, NEW t \in Thread, W!Close(t) \/ W!Closed(t) \/ W!Probe(t)
    PROVE  WorkbenchInv'
<1>1. UNCHANGED <<exec, receipt, kept, begun, taken, own>> /\ task[t] \in Tasks /\ Located(t)
  BY WorkbenchFields DEF W!Close, W!Closed, W!Probe, W!files, W!provider
<1>2. ASSUME NEW k \in Tasks, task' = [task EXCEPT ![t] = k], strays' \in BOOLEAN,
             task[t].pc \in {"idle", "closing"},
             \/ task[t].pc = "idle" /\ k.pc = "closing" /\ holder = Free /\ holder' = t
             \/ task[t].pc = "closing" /\ k.pc = "idle" /\ holder' = Free
             \/ task[t].pc = "idle" /\ k.pc = "idle" /\ holder' = holder
      PROVE  WorkbenchInv'
  <2>1. task'[t] = k
    BY <1>2, WorkbenchFields
  <2>2. (task[t].pc = "closing" => holder = t) /\ (task[t].pc = "idle" => holder # t)
    BY <1>1 DEF Located, LockedPlaces, ReplyPlaces
  <2>3. ThreadGoes(t, k)
    BY <1>1, <1>2, <2>2 DEF ThreadGoes, StartPlaces
  <2>4. Located(t)'
    BY <1>1, <1>2, <2>1, <2>2, WorkbenchFields DEF Located, StartPlaces, ReplyPlaces, LockedPlaces
  <2>5. k.pc \notin StartPlaces /\ task[t].pc # "register"
    BY <1>2 DEF StartPlaces
  <2> QED BY <1>1, <1>2, <2>3, <2>4, <2>5, WorkbenchFields, WorkbenchMoves
<1>3. CASE W!Close(t)
  <2> DEFINE k == [W!Resting EXCEPT !.pc = "closing", !.todo = kept]
  <2>1. k \in Tasks /\ k.pc = "closing"
    BY WorkbenchFields DEF W!Resting, Tasks, TaskPlaces
  <2>2. task' = [task EXCEPT ![t] = k] /\ holder = Free /\ holder' = t /\ task[t].pc = "idle" /\ UNCHANGED strays
    BY <1>3, TaskAway DEF W!Close
  <2> HIDE DEF k
  <2> QED BY <1>2, <2>1, <2>2, WorkbenchFields
<1>4. CASE W!Closed(t)
  <2>1. /\ task' = [task EXCEPT ![t] = W!Resting] /\ holder' = Free /\ task[t].pc = "closing"
        /\ strays' \in {FALSE, strays}
    BY <1>4 DEF W!Closed, W!At
  <2> QED BY <1>2, <2>1, TaskAway, WorkbenchFields
<1>5. CASE W!Probe(t)
  <2>1. task[t].pc = "idle" /\ task' = [task EXCEPT ![t] = task[t]] /\ UNCHANGED holder /\ strays' = TRUE
    BY <1>5, TaskAway, WorkbenchFields DEF W!Probe
  <2> QED BY <1>1, <1>2, <2>1
<1> QED BY <1>3, <1>4, <1>5

LEMMA WorkbenchClosesOne ==
    ASSUME WorkbenchInv, NEW t \in Thread, NEW x \in Execution, W!CloseOne(t, x) PROVE WorkbenchInv'
<1> DEFINE k == [task[t] EXCEPT !.todo = @ \ {x}]
<1>1. /\ task[t].pc = "closing" /\ UNCHANGED <<receipt, strays, holder, begun, taken>>
      /\ task[t] \in Tasks /\ Located(t) /\ holder = t /\ Kin(x)
  BY WorkbenchFields DEF W!CloseOne, W!At, W!provider, Located, LockedPlaces, ReplyPlaces
<1>2. task' = [task EXCEPT ![t] = k]
  BY WorkbenchFields DEF W!CloseOne
<1>3. k \in Tasks /\ k.pc = "closing"
  BY <1>1 DEF Tasks, TaskPlaces
<1> HIDE DEF k
<1>4. task'[t] = k /\ k.pc \notin StartPlaces /\ task[t].pc # "register"
  BY <1>1, <1>2, <1>3, WorkbenchFields DEF StartPlaces
<1>5. Located(t)'
  BY <1>1, <1>3, <1>4 DEF Located, StartPlaces, ReplyPlaces, LockedPlaces
<1>6. ASSUME W!Parked(exec[x].status), W!Status(x, "waiting"), kept' = kept \ {x} PROVE WorkbenchInv'
  <2>1. /\ exec' \in [Execution -> [status : W!Statuses, session : BOOLEAN]]
        /\ exec'[x].status = "waiting" /\ exec'[x].session = exec[x].session
        /\ \A y \in Execution \ {x} : exec'[y] = exec[y]
    BY <1>6, WorkbenchFields DEF W!Status, W!Statuses
  <2>2. own' = own \ {x}
    BY <1>6 DEF W!Status
  <2>3. ThreadGoes(t, k)
    BY <1>1, <1>2, <1>3, <1>4, <2>1 DEF ThreadGoes
  <2>4. Kin(x)'
    <3>1. x \notin own' /\ exec'[x].status \notin {"absent", "queued"}
      BY <2>1, <2>2
    <3>2. exec'[x].session => begun'[x] = 1
      BY <1>1, <2>1 DEF Kin
    <3> QED BY <3>1, <3>2 DEF Kin
  <2>5. /\ kept' \in SUBSET Execution /\ kept \subseteq kept' \cup {x} /\ begun' \in [Execution -> {0, 1}]
        /\ own' \in SUBSET Execution /\ own' \subseteq own \cup {x}
        /\ UNCHANGED <<receipt, taken, strays>> /\ (begun[x] = 1 => begun'[x] = 1)
    BY <1>1, <1>6, <2>2, WorkbenchFields
  <2>6. \A y \in Execution \ {x} : exec'[y] = exec[y] /\ begun'[y] = begun[y]
    BY <1>1, <2>1
  <2> QED BY <1>4, <1>5, <2>1, <2>3, <2>4, <2>5, <2>6, WorkbenchTouches
<1>7. ASSUME UNCHANGED <<exec, own>>, kept' = kept \ {x}, ~W!Parked(exec[x].status) PROVE WorkbenchInv'
  <2>1. ThreadGoes(t, k)
    BY <1>1, <1>2, <1>3, <1>4, <1>7 DEF ThreadGoes
  <2>2. Kin(x)'
    <3>1. x \notin own
      BY <1>1, <1>7 DEF Kin, W!Parked
    <3>2. \A u \in Thread : Starting(u, x)' => Starting(u, x)
      BY <1>2, <1>4, WorkbenchFields DEF Starting
    <3> QED BY <1>1, <1>7, <3>1, <3>2 DEF Kin
  <2>3. /\ kept' \in SUBSET Execution /\ kept \subseteq kept' \cup {x} /\ begun' \in [Execution -> {0, 1}]
        /\ own' \in SUBSET Execution /\ own' \subseteq own \cup {x}
        /\ UNCHANGED <<receipt, taken, strays>> /\ (begun[x] = 1 => begun'[x] = 1)
        /\ exec' \in [Execution -> [status : W!Statuses, session : BOOLEAN]]
    BY <1>1, <1>7, WorkbenchFields
  <2>4. \A y \in Execution \ {x} : exec'[y] = exec[y] /\ begun'[y] = begun[y]
    BY <1>1, <1>7
  <2> QED BY <1>4, <1>5, <2>1, <2>2, <2>3, <2>4, WorkbenchTouches
<1>8. ASSUME UNCHANGED <<exec, own, kept>> PROVE WorkbenchInv'
  <2>1. ThreadGoes(t, k)
    BY <1>1, <1>2, <1>3, <1>4, <1>8 DEF ThreadGoes
  <2> QED BY <1>1, <1>4, <1>5, <1>8, <2>1, WorkbenchFields, WorkbenchMoves
<1> QED BY <1>6, <1>7, <1>8 DEF W!CloseOne

LEMMA WorkbenchRestarts == ASSUME WorkbenchInv, W!Restart PROVE WorkbenchInv'
<1>1. /\ kept' = {} /\ strays' = FALSE /\ holder' = Free /\ own' = {}
      /\ task' = [t \in Thread |-> W!Resting] /\ UNCHANGED <<exec, receipt, begun, taken>>
  BY DEF W!Restart, W!files, W!provider
<1>2. WorkbenchShapes'
  BY <1>1, TaskAway DEF WorkbenchInv, WorkbenchShapes
<1>3. \A t \in Thread : task'[t].pc = "idle" /\ holder' # t
  BY <1>1, TaskAway, WorkbenchFields
<1>4. (\A t \in Thread : Located(t)') /\ Alone'
  BY <1>3 DEF Located, Alone, Starting, StartPlaces, ReplyPlaces, LockedPlaces
<1>5. \A x \in Execution : Kin(x)'
  BY <1>1, <1>3, WorkbenchFields DEF Kin, Starting, StartPlaces
<1>6. \A c \in Reply : Told(c)'
  BY <1>1, WorkbenchFields DEF Told
<1> QED BY <1>2, <1>4, <1>5, <1>6 DEF WorkbenchInv

LEMMA WorkbenchStep == ASSUME WorkbenchInv, W!WorkbenchNext PROVE WorkbenchInv'
<1>1. ASSUME NEW t \in Thread, NEW x \in Execution, W!Create(t, x) \/ W!CloseOne(t, x) PROVE WorkbenchInv'
  BY <1>1, WorkbenchCreate, WorkbenchClosesOne
<1>2. ASSUME NEW t \in Thread, NEW c \in Reply, W!ClaimReply(t, c) PROVE WorkbenchInv'
  BY <1>2, WorkbenchAsks
<1>3. ASSUME NEW t \in Thread,
             \/ W!Claim(t) \/ W!Launch(t) \/ W!Start(t) \/ W!Undo(t) \/ W!Abandon(t) \/ W!Fail(t)
             \/ W!Record(t) \/ W!Register(t)
      PROVE  WorkbenchInv'
  BY <1>3, WorkbenchClaim, WorkbenchStarts, WorkbenchBegins, WorkbenchFails, WorkbenchRecords
<1>4. ASSUME NEW t \in Thread,
             \/ W!Connect(t) \/ W!Send(t) \/ W!Refuse(t) \/ W!Deliver(t) \/ W!Update(t) \/ W!Complete(t)
             \/ W!Finish(t) \/ W!Probe(t) \/ W!Close(t) \/ W!Closed(t)
      PROVE  WorkbenchInv'
  BY <1>4, WorkbenchMovesOn, WorkbenchSends, WorkbenchUpdates, WorkbenchCloses
<1> QED BY <1>1, <1>2, <1>3, <1>4, WorkbenchRestarts DEF W!WorkbenchNext

LEMMA WorkbenchRest == ASSUME WorkbenchInv, UNCHANGED workbenchVars PROVE WorkbenchInv'
<1>1. UNCHANGED <<exec, receipt, kept, strays, holder, task, begun, taken, own>>
  BY DEF workbenchVars
<1> QED BY <1>1 DEF WorkbenchInv, WorkbenchShapes, Located, Alone, Starting, Kin, Told

LEMMA WorkbenchSays ==
    ASSUME WorkbenchInv
    PROVE  W!WorkbenchTypeOK /\ W!SentOnce /\ W!ReceiptTrue /\ W!NoFalseRunning
<1>1. task \in [Thread -> [pc : {"idle", "claim", "launch", "start", "undo", "abandon", "fail",
                                  "record", "register", "connect", "send", "refuse", "deliver",
                                  "update", "complete", "finish", "closing"},
                            x : Execution \cup {Free}, c : Reply \cup {Free},
                            mine : BOOLEAN, todo : SUBSET Execution]]
  BY WorkbenchFields DEF Tasks, TaskPlaces
<1>2. \A t \in Thread : holder = t <=>
         task[t].pc \in {"connect", "send", "refuse", "deliver", "update", "complete", "finish", "closing"}
  BY WorkbenchFields DEF Located, LockedPlaces, ReplyPlaces
<1>3. begun \in [Execution -> 0 .. 2] /\ taken \in [Reply -> 0 .. 2]
  BY WorkbenchFields
<1>4. W!WorkbenchTypeOK
  BY <1>1, <1>2, <1>3, WorkbenchFields DEF W!WorkbenchTypeOK, Receipts
<1>5. W!SentOnce
  BY WorkbenchFields DEF W!SentOnce
<1>6. W!ReceiptTrue
  BY WorkbenchFields DEF W!ReceiptTrue, Told
<1>7. W!NoFalseRunning
  BY WorkbenchFields DEF W!NoFalseRunning, Kin
<1> QED BY <1>4, <1>5, <1>6, <1>7
-----------------------------------------------------------------------------
(* The dispatcher of V1 (Dispatcher).                                       *)

CardStatuses == {"none", "todo", "in_progress", "in_review", "blocked"}
RunStatuses == {"none", "queued", "starting", "running", "completed", "failed"}

TaskCards == [status : CardStatuses, version : 1 .. MaxVersion, bound : BOOLEAN]
Entries == [result : D!Results, version : 0 .. MaxVersion, delegated : BOOLEAN]
Turns == [pc : D!Places, seen : 0 .. MaxVersion, key : 0 .. MaxVersion, ok : BOOLEAN,
          result : D!Results]

DispatcherShapes ==
    /\ dispatched \in TaskCards /\ entry \in Entries /\ turn \in Turns
    /\ runs \in [0 .. MaxVersion -> RunStatuses]
    /\ canceller \in [pc : {"idle", "read"}, seen : 0 .. MaxVersion]
    /\ main \in {"idle", "created", "saved", "recorded"}
    /\ noted \subseteq 0 .. MaxVersion /\ claims \in BOOLEAN

\* From its claim to its end a task is marked as being dispatched, which keeps V2 from
\* claiming it and nobody takes back.
AtWork == {"claimed", "starting", "sent", "run"}
Marked == turn.pc \in AtWork => entry.result = "dispatching" /\ ~claims

\* What the dispatcher works at has an execution that is not known to have run.
Fits ==
    /\ turn.pc \in {"starting", "sent"} => runs[turn.key] = "starting" /\ turn.key \notin noted
    /\ turn.pc = "run" => runs[turn.key] = "running"
    /\ \A k \in noted : runs[k] \in {"running", "completed", "failed"}

\* Execution 0 is that of a delegation, which is saved before it is recorded, once.
DelegatedOnce ==
    /\ main # "idle" => dispatched.status # "none"
    /\ main \in {"created", "saved"} => ~entry.delegated
    /\ 0 \in noted => entry.delegated
    /\ turn.pc \in {"chosen"} \cup AtWork \cup {"ended"} /\ turn.key = 0 => entry.delegated
    /\ entry.delegated => dispatched.status # "none"

DispatcherInv == DispatcherShapes /\ Marked /\ Fits /\ DelegatedOnce

\* What the records become that the actions make.
LEMMA TurnsOK ==
    /\ D!Off \in Turns /\ D!Idle \in Turns /\ D!Off.pc = "off" /\ D!Idle.pc = "idle"
    /\ D!Idle.seen = 0 /\ D!Idle.key = 0 /\ D!Idle.result = "none"
<1>1. 0 \in 0 .. MaxVersion
  BY Bounds
<1> QED BY <1>1 DEF D!Off, D!Idle, Turns, D!Places, D!Results

LEMMA Going ==
    ASSUME NEW k \in Turns, NEW pc \in D!Places, NEW k2, k2 = [k EXCEPT !.pc = pc]
    PROVE  k2 \in Turns /\ k2.pc = pc /\ k2.key = k.key /\ k2.seen = k.seen /\ k2.result = k.result
  BY DEF Turns

LEMMA Ending ==
    ASSUME NEW k \in Turns, NEW ok \in BOOLEAN, NEW k2, k2 = [k EXCEPT !.pc = "ended", !.ok = ok]
    PROVE  k2 \in Turns /\ k2.pc = "ended" /\ k2.key = k.key
<1>1. "ended" \in D!Places
  BY DEF D!Places
<1> QED BY <1>1 DEF Turns

LEMMA Blocked ==
    ASSUME turn \in Turns, NEW result \in D!Results, D!Blocking(result)
    PROVE  turn' \in Turns /\ turn'.pc = "block"
<1>1. turn' = [D!Idle EXCEPT !.pc = "block", !.result = result, !.seen = turn.seen]
  BY DEF D!Blocking
<1>2. "block" \in D!Places /\ turn.seen \in 0 .. MaxVersion
  BY DEF D!Places, Turns
<1> QED BY <1>1, <1>2, TurnsOK DEF Turns

LEMMA Remembers ==
    ASSUME NEW result \in D!Results, NEW seen \in 0 .. MaxVersion, D!Remembering(result, seen)
    PROVE  turn' \in Turns /\ turn'.pc = "remember"
<1>1. turn' = [D!Idle EXCEPT !.pc = "remember", !.result = result, !.seen = seen]
  BY DEF D!Remembering
<1>2. "remember" \in D!Places
  BY DEF D!Places
<1> QED BY <1>1, <1>2, TurnsOK DEF Turns

LEMMA Marking ==
    ASSUME entry \in Entries, NEW result \in D!Results, NEW version \in 0 .. MaxVersion,
           entry' = [entry EXCEPT !.result = result, !.version = version]
    PROVE  entry' \in Entries /\ entry'.result = result /\ entry'.delegated = entry.delegated
  BY DEF Entries

LEMMA Moving ==
    ASSUME dispatched \in TaskCards, NEW status \in CardStatuses \ {"none"}, D!Moved(status)
    PROVE  /\ dispatched' \in TaskCards /\ dispatched'.status = status
           /\ dispatched.version + 1 \in 0 .. MaxVersion
<1>1. dispatched.version \in 1 .. MaxVersion /\ dispatched.version + 1 \in 1 .. MaxVersion
  BY Bounds DEF D!Moved, TaskCards
<1>2. dispatched' = [dispatched EXCEPT !.status = status, !.version = dispatched.version + 1]
  BY DEF D!Moved
<1>3. dispatched.version + 1 \in 0 .. MaxVersion
  BY <1>1, Bounds
<1> QED BY <1>1, <1>2, <1>3 DEF TaskCards

LEMMA DispatcherStart ==
    ASSUME D!DispatcherInit PROVE DispatcherInv
<1>1. 0 \in 0 .. MaxVersion /\ 1 \in 1 .. MaxVersion
  BY Bounds
<1>2. turn = D!Off /\ turn \in Turns /\ turn.pc = "off" /\ noted = {} /\ main = "idle"
  BY TurnsOK DEF D!DispatcherInit
<1>3. DispatcherShapes
  <2>1. dispatched \in TaskCards
    BY <1>1 DEF D!DispatcherInit, TaskCards, CardStatuses
  <2>2. entry \in Entries /\ canceller \in [pc : {"idle", "read"}, seen : 0 .. MaxVersion]
    BY <1>1 DEF D!DispatcherInit, Entries, D!Results, D!Away
  <2> QED BY <1>2, <2>1, <2>2 DEF D!DispatcherInit, DispatcherShapes, RunStatuses
<1> QED BY <1>2, <1>3 DEF DispatcherInv, Marked, Fits, DelegatedOnce, D!DispatcherInit, AtWork

LEMMA OthersStep ==
    ASSUME DispatcherInv,
           D!User \/ D!CancelReads \/ D!Cancel \/ D!ClaimReads \/ D!ClaimPlan \/ D!Delegate
             \/ D!DelegateSaves \/ D!DelegateRecords \/ D!DelegatePublishes \/ D!DelegateDies
    PROVE  DispatcherInv'
<1>0. DispatcherShapes /\ Marked /\ Fits /\ DelegatedOnce
  BY DEF DispatcherInv
<1>1. CASE D!User
  <2>1. /\ dispatched' \in TaskCards /\ dispatched'.status # "none" /\ main = "idle"
        /\ UNCHANGED <<entry, runs, claims, turn, canceller, main, noted>>
    <3>1. dispatched \in TaskCards /\ dispatched.status # "none"
      BY <1>0, <1>1 DEF DispatcherShapes, D!User
    <3>2. CASE \E status \in {"in_progress", "blocked"} : D!Moved(status)
      BY <1>1, <3>1, <3>2, Moving DEF D!User, CardStatuses
    <3>3. CASE dispatched' = [dispatched EXCEPT !.bound = ~dispatched.bound]
      BY <1>1, <3>1, <3>3 DEF D!User, TaskCards
    <3> QED BY <1>1, <3>2, <3>3 DEF D!User
  <2> QED BY <1>0, <2>1 DEF DispatcherInv, DispatcherShapes, Marked, Fits, DelegatedOnce
<1>2. CASE D!CancelReads
  <2>1. /\ canceller' \in [pc : {"idle", "read"}, seen : 0 .. MaxVersion]
        /\ UNCHANGED <<dispatched, entry, runs, claims, turn, main, noted>>
    BY <1>0, <1>2 DEF D!CancelReads, D!taskVars, DispatcherShapes, TaskCards
  <2> QED BY <1>0, <2>1 DEF DispatcherInv, DispatcherShapes, Marked, Fits, DelegatedOnce
<1>3. CASE D!Cancel
  <2>1. /\ canceller' \in [pc : {"idle", "read"}, seen : 0 .. MaxVersion]
        /\ UNCHANGED <<dispatched, runs, claims, turn, main, noted>>
    BY <1>0, <1>3, Bounds DEF D!Cancel, D!Away
  <2>2. entry' \in Entries /\ entry'.delegated = entry.delegated
        /\ (entry.result = "dispatching" => entry' = entry)
    <3>1. entry \in Entries /\ canceller.seen \in 0 .. MaxVersion /\ "cancel_requested" \in D!Results
      BY <1>0 DEF DispatcherShapes, D!Results
    <3>2. \/ entry' = entry
          \/ entry.result # "dispatching"
             /\ entry' = [entry EXCEPT !.result = "cancel_requested", !.version = canceller.seen]
      BY <1>3 DEF D!Cancel, D!Cancellable
    <3> QED BY <3>1, <3>2, Marking
  <2> QED BY <1>0, <2>1, <2>2 DEF DispatcherInv, DispatcherShapes, Marked, Fits, DelegatedOnce
<1>4. CASE D!ClaimReads
  BY <1>0, <1>4 DEF D!ClaimReads, D!taskVars, DispatcherInv, DispatcherShapes, Marked, Fits,
                    DelegatedOnce
<1>5. CASE D!ClaimPlan
  <2>1. /\ claims' \in BOOLEAN /\ (entry.result = "dispatching" => claims' = claims)
        /\ UNCHANGED <<dispatched, entry, runs, canceller, turn, main, noted>>
    BY <1>0, <1>5 DEF D!ClaimPlan, D!LegacyIdle, D!taskVars, DispatcherShapes
  <2> QED BY <1>0, <2>1 DEF DispatcherInv, DispatcherShapes, Marked, Fits, DelegatedOnce
<1>6. CASE D!Delegate
  <2>1. UNCHANGED <<entry, runs, claims, turn, canceller, noted>> /\ main = "idle"
    BY <1>6 DEF D!Delegate
  <2>2. CASE dispatched.status = "none"
    <3>1. dispatched' = [dispatched EXCEPT !.status = "todo"] /\ main' = "created"
      BY <1>6, <2>2 DEF D!Delegate
    <3>2. dispatched' \in TaskCards /\ dispatched'.status = "todo" /\ ~entry.delegated
      BY <1>0, <2>2, <3>1 DEF DispatcherShapes, TaskCards, CardStatuses, DelegatedOnce
    <3> QED BY <1>0, <2>1, <3>1, <3>2 DEF DispatcherInv, DispatcherShapes, Marked, Fits, DelegatedOnce
  <2>3. CASE dispatched.status # "none"
    <3>1. D!Moved("in_progress") /\ main' = main
      BY <1>6, <2>3 DEF D!Delegate
    <3>2. dispatched' \in TaskCards /\ dispatched'.status = "in_progress"
      BY <1>0, <3>1, Moving DEF DispatcherShapes, CardStatuses
    <3> QED BY <1>0, <2>1, <3>1, <3>2 DEF DispatcherInv, DispatcherShapes, Marked, Fits, DelegatedOnce
  <2> QED BY <2>2, <2>3
<1>7. CASE D!DelegateSaves
  <2>1. /\ main = "created" /\ main' = "saved" /\ runs' = [runs EXCEPT ![0] = "queued"]
        /\ UNCHANGED <<dispatched, entry, claims, turn, canceller, noted>>
    BY <1>7 DEF D!DelegateSaves
  <2>2. runs' \in [0 .. MaxVersion -> RunStatuses] /\ \A k \in (0 .. MaxVersion) \ {0} : runs'[k] = runs[k]
    BY <1>0, <2>1 DEF DispatcherShapes, RunStatuses
  <2>3. 0 \notin noted /\ (turn.pc \in AtWork => turn.key # 0)
    BY <1>0, <2>1 DEF DelegatedOnce
  <2>4. turn.key \in 0 .. MaxVersion /\ noted \subseteq 0 .. MaxVersion
    BY <1>0 DEF DispatcherShapes, Turns
  <2>5. Fits'
    BY <1>0, <2>1, <2>2, <2>3, <2>4 DEF Fits, AtWork
  <2> QED BY <1>0, <2>1, <2>2, <2>5 DEF DispatcherInv, DispatcherShapes, Marked, DelegatedOnce
<1>8. CASE D!DelegateRecords
  <2>1. /\ main = "saved" /\ main' = "recorded"
        /\ entry' = [result |-> "dispatching", version |-> dispatched.version, delegated |-> TRUE]
        /\ UNCHANGED <<dispatched, runs, claims, turn, canceller, noted>>
    BY <1>8 DEF D!DelegateRecords
  <2>2. entry' \in Entries /\ entry'.result = "dispatching" /\ entry'.delegated
    BY <1>0, <2>1, Bounds DEF DispatcherShapes, TaskCards, Entries, D!Results
  <2> QED BY <1>0, <2>1, <2>2 DEF DispatcherInv, DispatcherShapes, Marked, Fits, DelegatedOnce
<1>9. CASE D!DelegatePublishes
  <2>1. /\ main = "recorded" /\ main' = "idle"
        /\ UNCHANGED <<entry, runs, claims, turn, canceller, noted>>
    BY <1>9 DEF D!DelegatePublishes
  <2>2. dispatched' \in TaskCards /\ dispatched'.status # "none"
    <3>1. dispatched \in TaskCards /\ dispatched.status # "none"
      BY <1>0, <2>1 DEF DispatcherShapes, DelegatedOnce
    <3> QED BY <1>9, <3>1, Moving DEF D!DelegatePublishes, CardStatuses
  <2> QED BY <1>0, <2>1, <2>2 DEF DispatcherInv, DispatcherShapes, Marked, Fits, DelegatedOnce
<1>10. CASE D!DelegateDies
  BY <1>0, <1>10 DEF D!DelegateDies, D!taskVars, DispatcherInv, DispatcherShapes, Marked, Fits,
                     DelegatedOnce
<1> QED BY <1>1, <1>2, <1>3, <1>4, <1>5, <1>6, <1>7, <1>8, <1>9, <1>10

\* Nothing is at work, and nothing but the turn changes.
LEMMA TurnRests ==
    ASSUME DispatcherInv, turn' \in Turns, turn'.pc \notin {"chosen", "ended"} \cup AtWork,
           UNCHANGED <<dispatched, entry, runs, claims, canceller, main, noted>>
    PROVE  DispatcherInv'
  BY DEF DispatcherInv, DispatcherShapes, Marked, Fits, DelegatedOnce, AtWork

LEMMA TurnStep ==
    ASSUME DispatcherInv,
           D!Start \/ D!StopDispatcher \/ D!Exit \/ D!Crash \/ D!Candidate \/ D!Claim \/ D!Prepare
             \/ D!Launch \/ D!Note \/ D!HandsIn \/ D!End \/ D!Report \/ D!Block \/ D!Remember
    PROVE  DispatcherInv'
<1>0. DispatcherShapes /\ Marked /\ Fits /\ DelegatedOnce
  BY DEF DispatcherInv
<1>00. /\ turn \in Turns /\ turn.seen \in 0 .. MaxVersion /\ turn.key \in 0 .. MaxVersion
       /\ turn.result \in D!Results /\ dispatched.version \in 1 .. MaxVersion
       /\ entry \in Entries /\ noted \subseteq 0 .. MaxVersion
  BY <1>0 DEF DispatcherShapes, Turns, TaskCards
<1>1. CASE D!Start \/ D!Exit \/ D!Crash
  BY <1>1, TurnsOK, TurnRests DEF D!Start, D!Exit, D!Crash, D!taskVars, AtWork
<1>2. CASE D!StopDispatcher
  BY <1>0, <1>2 DEF D!StopDispatcher, D!taskVars, DispatcherInv, DispatcherShapes, Marked, Fits,
                    DelegatedOnce
<1>3. CASE D!Candidate
  <2>1. PICK pc \in {"chosen", "block"} :
           turn' = [D!Idle EXCEPT !.pc = pc, !.seen = dispatched.version,
                         !.result = IF pc = "block" THEN "blocked" ELSE "none",
                         !.key = IF entry.delegated THEN 0 ELSE dispatched.version]
    BY <1>3 DEF D!Candidate
  <2> DEFINE key == IF entry.delegated THEN 0 ELSE dispatched.version
             result == IF pc = "block" THEN "blocked" ELSE "none"
  <2>2. /\ key \in 0 .. MaxVersion /\ (key = 0 => entry.delegated) /\ result \in D!Results
        /\ pc \in D!Places /\ dispatched.version \in 0 .. MaxVersion
    BY <1>00, Bounds DEF D!Results, D!Places
  <2> HIDE DEF key, result
  <2>3. turn' \in Turns /\ turn'.pc = pc /\ turn'.key = key
    BY <2>1, <2>2, TurnsOK DEF Turns, key, result
  <2>4. UNCHANGED <<dispatched, entry, runs, claims, canceller, main, noted>>
    BY <1>3 DEF D!Candidate, D!taskVars
  <2> QED BY <1>0, <2>2, <2>3, <2>4 DEF DispatcherInv, DispatcherShapes, Marked, Fits, DelegatedOnce,
                                        AtWork
<1>4. CASE D!Claim
  <2>1. turn.pc = "chosen" /\ UNCHANGED <<dispatched, runs, claims, canceller, main, noted>>
    BY <1>4 DEF D!Claim
  <2>2. CASE entry' = entry /\ turn' = D!Idle
    BY <2>1, <2>2, TurnsOK, TurnRests DEF AtWork
  <2>3. CASE entry' = entry /\ \E result \in {"blocked", "cancelled"} : D!Blocking(result)
    <3>1. turn' \in Turns /\ turn'.pc = "block"
      BY <1>00, <2>3, Blocked DEF D!Results
    <3> QED BY <2>1, <2>3, <3>1, TurnRests DEF AtWork
  <2>4. CASE /\ ~claims /\ entry' = [entry EXCEPT !.result = "dispatching", !.version = turn.seen]
             /\ D!Goto("claimed")
    <3>1. entry' \in Entries /\ entry'.result = "dispatching" /\ entry'.delegated = entry.delegated
      BY <1>00, <2>4, Marking DEF D!Results
    <3>2. turn' \in Turns /\ turn'.pc = "claimed" /\ turn'.key = turn.key
      BY <1>00, <2>4, Going DEF D!Goto, D!Places
    <3> QED BY <1>0, <2>1, <2>4, <3>1, <3>2 DEF DispatcherInv, DispatcherShapes, Marked, Fits,
                                                DelegatedOnce, AtWork
  <2> QED BY <1>4, <2>2, <2>3, <2>4 DEF D!Claim, D!MayStart
<1>5. CASE D!Prepare
  <2>1. turn.pc = "claimed" /\ UNCHANGED <<dispatched, entry, claims, canceller, main, noted>>
    BY <1>5 DEF D!Prepare
  <2>2. CASE runs' = runs /\ turn' = D!Idle
    BY <2>1, <2>2, TurnsOK, TurnRests DEF AtWork
  <2>3. CASE runs' = runs /\ D!Blocking("blocked")
    <3>1. turn' \in Turns /\ turn'.pc = "block"
      BY <1>00, <2>3, Blocked DEF D!Results
    <3> QED BY <2>1, <2>3, <3>1, TurnRests DEF AtWork
  <2>4. CASE /\ runs[turn.key] \in {"none", "queued", "starting"}
             /\ runs' = [runs EXCEPT ![turn.key] = "starting"] /\ D!Goto("starting")
    <3>1. turn' \in Turns /\ turn'.pc = "starting" /\ turn'.key = turn.key
      BY <1>00, <2>4, Going DEF D!Goto, D!Places
    <3>2. /\ runs' \in [0 .. MaxVersion -> RunStatuses] /\ runs'[turn.key] = "starting"
          /\ \A k \in (0 .. MaxVersion) \ {turn.key} : runs'[k] = runs[k]
      BY <1>0, <1>00, <2>4 DEF DispatcherShapes, RunStatuses
    <3>3. turn.key \notin noted
      BY <1>0, <2>4 DEF Fits
    <3> QED BY <1>0, <1>00, <2>1, <3>1, <3>2, <3>3
            DEF DispatcherInv, DispatcherShapes, Marked, Fits, DelegatedOnce, AtWork
  <2>5. CASE runs' = runs /\ turn' = [turn EXCEPT !.pc = "ended", !.ok = FALSE]
    <3>1. turn' \in Turns /\ turn'.pc = "ended" /\ turn'.key = turn.key
      BY <1>00, <2>5, Ending
    <3> QED BY <1>0, <2>1, <2>5, <3>1 DEF DispatcherInv, DispatcherShapes, Marked, Fits,
                                          DelegatedOnce, AtWork
  <2> QED BY <1>5, <2>2, <2>3, <2>4, <2>5 DEF D!Prepare, D!Startable
<1>6. CASE D!Launch
  <2>1. turn.pc = "starting" /\ UNCHANGED <<dispatched, entry, claims, canceller, main, noted>>
    BY <1>6 DEF D!Launch
  <2>2. CASE runs' = runs /\ D!Goto("sent")
    <3>1. turn' \in Turns /\ turn'.pc = "sent" /\ turn'.key = turn.key
      BY <1>00, <2>2, Going DEF D!Goto, D!Places
    <3> QED BY <1>0, <2>1, <2>2, <3>1 DEF DispatcherInv, DispatcherShapes, Marked, Fits,
                                          DelegatedOnce, AtWork
  <2>3. CASE /\ runs' = [runs EXCEPT ![turn.key] = "failed"]
             /\ turn' = [turn EXCEPT !.pc = "ended", !.ok = FALSE]
    <3>1. turn' \in Turns /\ turn'.pc = "ended" /\ turn'.key = turn.key
      BY <1>00, <2>3, Ending
    <3>2. /\ runs' \in [0 .. MaxVersion -> RunStatuses] /\ runs'[turn.key] = "failed"
          /\ \A k \in (0 .. MaxVersion) \ {turn.key} : runs'[k] = runs[k]
      BY <1>0, <1>00, <2>3 DEF DispatcherShapes, RunStatuses
    <3> QED BY <1>0, <1>00, <2>1, <3>1, <3>2
            DEF DispatcherInv, DispatcherShapes, Marked, Fits, DelegatedOnce, AtWork
  <2> QED BY <1>6, <2>2, <2>3 DEF D!Launch
<1>7. CASE D!Note
  <2>1. /\ turn.pc = "sent" /\ noted' = noted \cup {turn.key} /\ D!Goto("run")
        /\ runs' = [runs EXCEPT ![turn.key] = "running"]
        /\ UNCHANGED <<dispatched, entry, claims, canceller, main>>
    BY <1>7 DEF D!Note
  <2>2. turn' \in Turns /\ turn'.pc = "run" /\ turn'.key = turn.key
    BY <1>00, <2>1, Going DEF D!Goto, D!Places
  <2>3. /\ runs' \in [0 .. MaxVersion -> RunStatuses] /\ runs'[turn.key] = "running"
        /\ \A k \in (0 .. MaxVersion) \ {turn.key} : runs'[k] = runs[k]
    BY <1>0, <1>00, <2>1 DEF DispatcherShapes, RunStatuses
  <2> QED BY <1>0, <1>00, <2>1, <2>2, <2>3
          DEF DispatcherInv, DispatcherShapes, Marked, Fits, DelegatedOnce, AtWork
<1>8. CASE D!HandsIn
  <2>1. dispatched' \in TaskCards /\ dispatched'.status = "in_review"
    BY <1>0, <1>8, Moving DEF D!HandsIn, DispatcherShapes, CardStatuses
  <2>2. UNCHANGED <<entry, runs, claims, turn, canceller, main, noted>>
    BY <1>8 DEF D!HandsIn
  <2> QED BY <1>0, <2>1, <2>2 DEF DispatcherInv, DispatcherShapes, Marked, Fits, DelegatedOnce
<1>9. CASE D!End
  <2>1. PICK ok \in BOOLEAN :
           /\ turn' = [turn EXCEPT !.pc = "ended", !.ok = ok]
           /\ \/ runs' = [runs EXCEPT ![turn.key] = IF ok THEN "completed" ELSE "failed"]
              \/ ~ok /\ UNCHANGED runs
    BY <1>9 DEF D!End
  <2>2. turn' \in Turns /\ turn'.pc = "ended" /\ turn'.key = turn.key
    BY <1>00, <2>1, Ending
  <2>3. turn.pc = "run" /\ UNCHANGED <<dispatched, entry, claims, canceller, main, noted>>
    BY <1>9 DEF D!End
  <2>4. /\ runs' \in [0 .. MaxVersion -> RunStatuses]
        /\ runs'[turn.key] \in {runs[turn.key], "completed", "failed"}
        /\ \A k \in (0 .. MaxVersion) \ {turn.key} : runs'[k] = runs[k]
    BY <1>0, <1>00, <2>1 DEF DispatcherShapes, RunStatuses
  <2> QED BY <1>0, <1>00, <2>2, <2>3, <2>4
          DEF DispatcherInv, DispatcherShapes, Marked, Fits, DelegatedOnce, AtWork
<1>10. CASE D!Report
  <2>1. UNCHANGED <<dispatched, entry, runs, claims, canceller, main, noted>>
    BY <1>10 DEF D!Report, D!taskVars
  <2>2. turn' \in Turns /\ turn'.pc \in {"remember", "block"}
    <3>1. dispatched.version \in 0 .. MaxVersion
      BY <1>00
    <3>2. \/ \E seen \in {turn.seen, dispatched.version}, result \in {"completed", "provider-unavailable"} :
                D!Remembering(result, seen)
          \/ D!Blocking("blocked")
      BY <1>10 DEF D!Report
    <3>3. CASE D!Blocking("blocked")
      BY <1>00, <3>3, Blocked DEF D!Results
    <3>4. ASSUME NEW seen \in {turn.seen, dispatched.version},
                 NEW result \in {"completed", "provider-unavailable"}, D!Remembering(result, seen)
          PROVE  turn' \in Turns /\ turn'.pc = "remember"
      BY <1>00, <3>1, <3>4, Remembers DEF D!Results
    <3> QED BY <3>2, <3>3, <3>4
  <2> QED BY <2>1, <2>2, TurnRests DEF AtWork
<1>11. CASE D!Block
  <2>1. UNCHANGED <<entry, runs, claims, canceller, main, noted>>
    BY <1>11 DEF D!Block
  <2>2. dispatched' \in TaskCards /\ (dispatched.status # "none" => dispatched'.status # "none")
    BY <1>0, <1>11, Moving DEF D!Block, DispatcherShapes, CardStatuses
  <2>3. turn' \in Turns /\ turn'.pc = "remember"
    <3>1. PICK seen \in {dispatched.version + 1, dispatched.version, turn.seen} :
             /\ D!Remembering(turn.result, seen)
             /\ seen = dispatched.version + 1 => D!Moved("blocked") \/ seen = turn.seen
      BY <1>00, <1>11, Bounds DEF D!Block
    <3>2. seen \in 0 .. MaxVersion
      BY <1>0, <1>00, <3>1, Moving, Bounds DEF DispatcherShapes, CardStatuses
    <3> QED BY <1>00, <3>1, <3>2, Remembers
  <2> QED BY <1>0, <2>1, <2>2, <2>3 DEF DispatcherInv, DispatcherShapes, Marked, Fits, DelegatedOnce,
                                        AtWork
<1>12. CASE D!Remember
  <2>1. /\ entry' = [entry EXCEPT !.result = turn.result, !.version = turn.seen]
        /\ turn' = D!Idle /\ UNCHANGED <<dispatched, runs, claims, canceller, main, noted>>
    BY <1>12 DEF D!Remember
  <2>2. entry' \in Entries /\ entry'.delegated = entry.delegated
    BY <1>00, <2>1, Marking
  <2> QED BY <1>0, <2>1, <2>2, TurnsOK DEF DispatcherInv, DispatcherShapes, Marked, Fits, DelegatedOnce,
                                        AtWork
<1> QED BY <1>1, <1>2, <1>3, <1>4, <1>5, <1>6, <1>7, <1>8, <1>9, <1>10, <1>11, <1>12

LEMMA DispatcherStep ==
    ASSUME DispatcherInv, D!DispatcherNext PROVE DispatcherInv'
  BY OthersStep, TurnStep DEF D!DispatcherNext

LEMMA DispatcherSays ==
    ASSUME DispatcherInv
    PROVE  D!OneEngine /\ D!DispatcherTypeOK
<1>1. D!OneEngine
  BY DEF DispatcherInv, Marked, AtWork, D!OneEngine, D!Working
<1>2. D!DispatcherTypeOK
  BY DEF DispatcherInv, DispatcherShapes, Fits, D!DispatcherTypeOK, TaskCards, CardStatuses,
         Entries, Turns, RunStatuses, D!Versions
<1> QED BY <1>1, <1>2

LEMMA DispatcherSends ==
    ASSUME DispatcherInv PROVE D!SendsOnce
  BY DEF DispatcherInv, Fits, D!SendsOnce

LEMMA DispatcherRest ==
    ASSUME DispatcherInv, UNCHANGED dispatcherVars PROVE DispatcherInv'
<1>1. UNCHANGED <<dispatched, entry, runs, claims, turn, term, canceller, planner, main, noted>>
  BY DEF dispatcherVars
<1> QED BY <1>1 DEF DispatcherInv, DispatcherShapes, Marked, Fits, DelegatedOnce
-----------------------------------------------------------------------------
(* The worktree of a task (Workspaces).                                     *)

Leases == [status : {"none", "preparing", "active", "released"}, reservation : 0 .. MaxRoots,
           head : G!Commits, candidate : G!Commits \cup {None}, pending : G!Commits \cup {None}]
Dirs == [root : 0 .. MaxRoots, made : 0 .. MaxRoots]
Worktrees == [marker : BOOLEAN, files : {"none", "part"} \cup G!Trees, index : G!Trees \cup {None},
              branch : G!Commits \cup {None}, foreign : BOOLEAN]
PreparePlaces == {"assign", "reserve", "add", "fill", "read", "activate"}
CapturePlaces == {"commit", "intend", "publish", "reset", "record"}
Makers == [pc : {"idle"} \cup PreparePlaces \cup CapturePlaces, sha : G!Commits]

WorkspaceShapes ==
    /\ lease \in Leases /\ dir \in Dirs /\ dir.root <= dir.made /\ tree \in Worktrees
    /\ commits \in [G!Commits -> [tree : G!Trees, parent : G!Commits] \cup {G!Unborn}]
    /\ maker \in Makers /\ returned \in SUBSET G!Commits

Born(c) == commits[c] # G!Unborn

\* What may be the next candidate.
Follows(c) == Born(c) /\ (c = lease.head \/ commits[c].parent = lease.head)

\* What has been returned stands on what has been returned.
History ==
    /\ Born(0) /\ Born(lease.head)
    /\ lease.pending # None => Follows(lease.pending)
    /\ tree.branch # None => Born(tree.branch)
    /\ \A c \in returned : Born(c) /\ commits[c].parent \in returned \cup {0}
    /\ lease.head \in returned \cup {0}
    /\ \A c, d \in G!Commits : c < d /\ Born(d) => Born(c)
    /\ \A c \in G!Commits : Born(c) => commits[c].parent < c \/ c = 0
    /\ commits[0].parent = 0

\* An active lease has a worktree of its own.
Site ==
    /\ tree.marker => tree.branch # None
    /\ lease.status \in {"active", "released"} =>
          /\ tree.marker /\ tree.files \in G!Trees /\ tree.index \in G!Trees
          /\ lease.reservation = dir.root /\ dir.root # 0

\* What the writer knows where it is.
Making ==
    LET pc == maker.pc
        sha == maker.sha
    IN  /\ pc = "idle" => maker = G!Away
        /\ pc \in PreparePlaces => lease.status = "preparing"
        /\ pc \in PreparePlaces \ {"assign"} => dir.root # 0
        /\ pc \in {"add", "fill", "read", "activate"} => lease.reservation = dir.root
        /\ pc \in {"fill", "read", "activate"} => tree.marker
        /\ pc \in {"read", "activate"} => tree.files \in G!Trees
        /\ pc = "activate" => tree.index \in G!Trees
        /\ pc \in CapturePlaces => lease.status = "active"
        /\ pc \in {"commit", "intend"} => lease.pending = None /\ tree.branch = lease.head
        /\ pc \in {"intend", "publish", "reset", "record"} => Follows(sha)
        /\ pc \in {"publish", "reset", "record"} => lease.pending = sha
        /\ pc = "publish" => tree.branch \in {lease.head, sha}
        /\ pc \in {"reset", "record"} => tree.branch = sha /\ tree.files = G!TreeOf(sha)
        /\ pc = "record" => tree.index = G!TreeOf(sha)

WorkspaceInv == WorkspaceShapes /\ History /\ Site /\ Making

LEMMA WorkspaceFields ==
    ASSUME WorkspaceInv
    PROVE  /\ lease \in Leases /\ dir \in Dirs /\ tree \in Worktrees /\ maker \in Makers
           /\ commits \in [G!Commits -> [tree : G!Trees, parent : G!Commits] \cup {G!Unborn}]
           /\ returned \in SUBSET G!Commits /\ dir.root <= dir.made
           /\ MaxCommits \in Nat /\ MaxRoots \in Nat /\ None \notin G!Commits /\ 0 \in G!Commits
           /\ G!Commits \subseteq Nat
<1>1. MaxCommits \in Nat /\ MaxRoots \in Nat
  BY Bounds
<1>2. None \notin G!Commits
  BY Apart DEF G!Commits
<1>3. 0 \in G!Commits /\ G!Commits \subseteq Nat
  BY <1>1 DEF G!Commits
<1> QED BY <1>1, <1>2, <1>3 DEF WorkspaceInv, WorkspaceShapes

\* A commit that is there has a tree and a parent.
LEMMA BornFields ==
    ASSUME WorkspaceInv, NEW c \in G!Commits, Born(c)
    PROVE  commits[c] \in [tree : G!Trees, parent : G!Commits] /\ G!TreeOf(c) \in G!Trees
  BY WorkspaceFields DEF Born, G!TreeOf

LEMMA MakerAway == 0 \in G!Commits => G!Away \in Makers /\ G!Away.pc = "idle"
  BY DEF G!Away, Makers

LEMMA WorkspaceStart == ASSUME G!WorkspaceInit PROVE WorkspaceInv
<1>1. MaxCommits \in Nat /\ MaxRoots \in Nat
  BY Bounds
<1>2. 0 \in G!Commits /\ G!Commits \subseteq Nat /\ None \notin G!Commits
  BY <1>1, Apart DEF G!Commits
<1>3. lease \in Leases /\ lease.status = "none" /\ lease.head = 0 /\ lease.pending = None
  BY <1>1, <1>2 DEF G!WorkspaceInit, Leases
<1>4. dir \in Dirs /\ dir.root <= dir.made
  BY <1>1 DEF G!WorkspaceInit, Dirs
<1>5. tree \in Worktrees /\ tree.branch = None /\ ~tree.marker
  BY DEF G!WorkspaceInit, Worktrees
<1>6. commits \in [G!Commits -> [tree : G!Trees, parent : G!Commits] \cup {G!Unborn}]
  BY <1>2 DEF G!WorkspaceInit, G!Trees
<1>7. Born(0) /\ commits[0].parent = 0 /\ \A c \in G!Commits : Born(c) => c = 0
  <2>1. commits[0] = [tree |-> Base, parent |-> 0] /\ \A c \in G!Commits : c # 0 => commits[c] = G!Unborn
    BY <1>2 DEF G!WorkspaceInit
  <2>2. commits[0].parent = 0 /\ G!Unborn.parent = None
    BY <2>1 DEF G!Unborn
  <2> QED BY <1>2, <2>1, <2>2 DEF Born
<1>8. maker \in Makers /\ maker = G!Away /\ maker.pc = "idle" /\ returned = {}
  BY <1>2, MakerAway DEF G!WorkspaceInit
<1>9. WorkspaceShapes
  BY <1>3, <1>4, <1>5, <1>6, <1>8 DEF WorkspaceShapes
<1>10. History
  <2>1. \A c, d \in G!Commits : c < d => d # 0
    BY <1>2
  <2> QED BY <1>2, <1>3, <1>5, <1>7, <1>8, <2>1 DEF History
<1>11. Site /\ Making
  BY <1>3, <1>5, <1>8 DEF Site, Making, PreparePlaces, CapturePlaces
<1> QED BY <1>9, <1>10, <1>11 DEF WorkspaceInv

\* Nothing is committed or returned, and no candidate is intended.
LEMMA HistoryStays ==
    ASSUME WorkspaceInv, UNCHANGED <<commits, returned>>,
           lease'.head = lease.head, lease'.pending = lease.pending,
           tree'.branch \in G!Commits => Born(tree'.branch), tree'.branch \in G!Commits \cup {None}
    PROVE  History'
  BY DEF WorkspaceInv, History, Born, Follows

\* The writer goes to its next place.
LEMMA MakerGoes ==
    ASSUME WorkspaceInv, NEW pc \in {"idle"} \cup PreparePlaces \cup CapturePlaces, G!Goto(pc)
    PROVE  maker' \in Makers /\ maker'.pc = pc /\ maker'.sha = maker.sha
  BY WorkspaceFields DEF G!Goto, Makers

LEMMA MakerFails ==
    ASSUME WorkspaceInv, G!Fail PROVE maker' \in Makers /\ maker' = G!Away /\ maker'.pc = "idle"
  BY MakerAway, WorkspaceFields DEF G!Fail

\* The writer ends, or is killed; what is saved stays.
LEMMA WorkspaceEnds ==
    ASSUME WorkspaceInv, G!Fail, UNCHANGED <<dir, commits, returned>>,
           lease' \in Leases, lease'.head = lease.head, lease'.pending = lease.pending, tree' \in Worktrees,
           tree'.branch \in G!Commits => Born(tree'.branch),
           Site'
    PROVE  WorkspaceInv'
<1>1. maker' \in Makers /\ maker' = G!Away /\ maker'.pc = "idle"
  BY MakerFails
<1>2. WorkspaceShapes'
  BY <1>1 DEF WorkspaceInv, WorkspaceShapes
<1>3. History'
  <2>1. tree'.branch \in G!Commits \cup {None}
    BY DEF Worktrees
  <2> QED BY <2>1, HistoryStays
<1>4. Making'
  BY <1>1 DEF Making, PreparePlaces, CapturePlaces
<1> QED BY <1>2, <1>3, <1>4 DEF WorkspaceInv

\* What the fields of the tree are where only one of them changes.
LEMMA TreeMarked ==
    ASSUME NEW k \in Worktrees
    PROVE  /\ [k EXCEPT !.foreign = TRUE] \in Worktrees
           /\ [k EXCEPT !.foreign = TRUE].marker = k.marker
           /\ [k EXCEPT !.foreign = TRUE].files = k.files
           /\ [k EXCEPT !.foreign = TRUE].index = k.index
           /\ [k EXCEPT !.foreign = TRUE].branch = k.branch
  BY DEF Worktrees

LEMMA WorkspacePrepares ==
    ASSUME WorkspaceInv, G!Ensure \/ G!Assign \/ G!Reserve PROVE WorkspaceInv'
<1>1. UNCHANGED <<tree, commits, returned>>
  BY DEF G!Ensure, G!Assign, G!Reserve
<1>2. /\ lease \in Leases /\ dir \in Dirs /\ tree \in Worktrees /\ maker \in Makers /\ dir.root <= dir.made
      /\ MaxRoots \in Nat
  BY WorkspaceFields
<1>3. ASSUME lease' \in Leases, lease'.head = lease.head, lease'.pending = lease.pending,
             dir' \in Dirs, dir'.root <= dir'.made, maker' \in Makers, Site', Making'
      PROVE  WorkspaceInv'
  <2>1. WorkspaceShapes'
    BY <1>1, <1>3 DEF WorkspaceInv, WorkspaceShapes
  <2>2. tree'.branch \in G!Commits \cup {None} /\ (tree'.branch \in G!Commits => Born(tree'.branch))
    BY <1>1, <1>2, WorkspaceFields DEF WorkspaceInv, History, Worktrees
  <2>3. History'
    BY <1>1, <1>3, <2>2, HistoryStays
  <2> QED BY <1>3, <2>1, <2>3 DEF WorkspaceInv
<1>4. ASSUME G!Ensure PROVE WorkspaceInv'
  <2>1. /\ lease' \in Leases /\ lease'.head = lease.head /\ lease'.pending = lease.pending
        /\ lease'.status = "preparing" /\ UNCHANGED dir
    BY <1>2, <1>4 DEF G!Ensure, Leases
  <2>2. maker' \in Makers /\ maker'.pc = "assign"
    BY <1>4, MakerGoes DEF G!Ensure, PreparePlaces
  <2>3. Site' /\ Making'
    BY <1>1, <2>1, <2>2 DEF WorkspaceInv, Site, Making, PreparePlaces, CapturePlaces
  <2> QED BY <1>2, <1>3, <2>1, <2>2, <2>3
<1>5. ASSUME G!Assign PROVE WorkspaceInv'
  <2>1. UNCHANGED lease /\ maker.pc = "assign" /\ lease.status = "preparing"
    BY <1>5 DEF G!Assign, WorkspaceInv, Making, PreparePlaces
  <2>2. CASE dir.root = 0 /\ dir.made < MaxRoots /\ dir' = [root |-> dir.made + 1, made |-> dir.made + 1]
             /\ G!Goto("reserve")
    <3>1. dir' \in Dirs /\ dir'.root = dir.made + 1 /\ dir'.made = dir.made + 1 /\ dir.made \in Nat
      BY <1>2, <2>2 DEF Dirs
    <3>2. maker' \in Makers /\ maker'.pc = "reserve"
      BY <2>2, MakerGoes DEF PreparePlaces
    <3>3. dir'.root <= dir'.made /\ dir'.root # 0
      BY <3>1
    <3>4. Site'
      BY <1>1, <2>1 DEF WorkspaceInv, Site
    <3>5. Making'
      BY <1>1, <2>1, <3>2, <3>3 DEF Making, PreparePlaces, CapturePlaces
    <3> QED BY <1>2, <1>3, <2>1, <3>1, <3>2, <3>3, <3>4, <3>5
  <2>3. CASE dir.root # 0 /\ UNCHANGED dir /\ lease.reservation = dir.root /\ G!Goto("add")
    <3>1. maker' \in Makers /\ maker'.pc = "add"
      BY <2>3, MakerGoes DEF PreparePlaces
    <3>2. Site' /\ Making'
      BY <1>1, <2>1, <2>3, <3>1 DEF WorkspaceInv, Site, Making, PreparePlaces, CapturePlaces
    <3> QED BY <1>2, <1>3, <2>1, <2>3, <3>1, <3>2
  <2>4. CASE UNCHANGED dir /\ G!Fail
    <3>1. maker' \in Makers /\ maker' = G!Away /\ maker'.pc = "idle"
      BY <2>4, MakerFails
    <3>2. Site' /\ Making'
      BY <1>1, <2>1, <2>4, <3>1 DEF WorkspaceInv, Site, Making, PreparePlaces, CapturePlaces
    <3> QED BY <1>2, <1>3, <2>1, <2>4, <3>1, <3>2
  <2> QED BY <1>5, <2>2, <2>3, <2>4 DEF G!Assign, G!Ours
<1>6. ASSUME G!Reserve PROVE WorkspaceInv'
  <2>1. UNCHANGED dir /\ maker.pc = "reserve" /\ lease.status = "preparing" /\ dir.root # 0
    BY <1>6 DEF G!Reserve, WorkspaceInv, Making, PreparePlaces
  <2>2. /\ lease' \in Leases /\ lease'.head = lease.head /\ lease'.pending = lease.pending
        /\ lease'.status = "preparing" /\ lease'.reservation = dir.root
    BY <1>2, <1>6, <2>1 DEF G!Reserve, Leases, Dirs
  <2>3. maker' \in Makers /\ maker'.pc = "add"
    BY <1>6, MakerGoes DEF G!Reserve, PreparePlaces
  <2>4. Site' /\ Making'
    BY <1>1, <2>1, <2>2, <2>3 DEF WorkspaceInv, Site, Making, PreparePlaces, CapturePlaces
  <2> QED BY <1>2, <1>3, <2>1, <2>2, <2>3, <2>4
<1> QED BY <1>4, <1>5, <1>6

\* The worktree is made: the tree and the place of the writer change.
LEMMA WorkspaceFrame ==
    ASSUME WorkspaceInv, UNCHANGED <<lease, dir, commits, returned>>,
           tree' \in Worktrees, maker' \in Makers,
           tree'.branch \in G!Commits => Born(tree'.branch), Site', Making'
    PROVE  WorkspaceInv'
<1>1. WorkspaceShapes'
  BY DEF WorkspaceInv, WorkspaceShapes
<1>2. tree'.branch \in G!Commits \cup {None}
  BY DEF Worktrees
<1>3. History'
  BY <1>2, HistoryStays
<1> QED BY <1>1, <1>3 DEF WorkspaceInv

LEMMA BranchBorn ==
    ASSUME WorkspaceInv PROVE tree.branch \in G!Commits => Born(tree.branch)
  BY WorkspaceFields DEF WorkspaceInv, History

LEMMA WorkspaceAdds ==
    ASSUME WorkspaceInv, G!AddWorktree \/ G!Materialize \/ G!ReadBase PROVE WorkspaceInv'
<1>1. /\ UNCHANGED <<lease, dir, commits, returned>> /\ lease.status = "preparing"
      /\ lease.reservation = dir.root /\ dir.root # 0 /\ maker.pc \in {"add", "fill", "read"}
  BY DEF G!AddWorktree, G!Materialize, G!ReadBase, WorkspaceInv, Making, PreparePlaces
<1>2. tree \in Worktrees /\ maker \in Makers /\ 0 \in G!Commits /\ None \notin G!Commits /\ Born(0)
  BY WorkspaceFields DEF WorkspaceInv, History
<1>3. Site'
      <=> (tree'.marker => tree'.branch # None)
  BY <1>1 DEF Site
<1>4. ASSUME G!AddWorktree PROVE WorkspaceInv'
  <2>1. CASE tree.marker /\ G!Goto("fill") /\ UNCHANGED tree
    <3>1. maker' \in Makers /\ maker'.pc = "fill"
      BY <2>1, MakerGoes DEF PreparePlaces
    <3>2. Site' /\ Making'
      BY <1>1, <2>1, <3>1 DEF WorkspaceInv, Site, Making, PreparePlaces, CapturePlaces
    <3> QED BY <1>1, <1>2, <2>1, <3>1, <3>2, BranchBorn, WorkspaceFrame
  <2>2. CASE G!Fail /\ UNCHANGED tree
    <3>1. maker' \in Makers /\ maker' = G!Away /\ maker'.pc = "idle"
      BY <2>2, MakerFails
    <3>2. Site' /\ Making'
      BY <1>1, <2>2, <3>1 DEF WorkspaceInv, Site, Making, PreparePlaces, CapturePlaces
    <3> QED BY <1>1, <1>2, <2>2, <3>1, <3>2, BranchBorn, WorkspaceFrame
  <2>3. CASE tree' = [tree EXCEPT !.marker = TRUE, !.branch = 0] /\ G!Goto("fill")
    <3>1. maker' \in Makers /\ maker'.pc = "fill"
      BY <2>3, MakerGoes DEF PreparePlaces
    <3>2. tree' \in Worktrees /\ tree'.marker /\ tree'.branch = 0
      BY <1>2, <2>3 DEF Worktrees
    <3>3. tree'.branch # None
      BY <1>2, <3>2
    <3>4. Site' /\ Making'
      BY <1>1, <1>3, <3>1, <3>2, <3>3 DEF Making, PreparePlaces, CapturePlaces
    <3> QED BY <1>1, <1>2, <3>1, <3>2, <3>4, WorkspaceFrame
  <2>4. CASE tree' = [tree EXCEPT !.branch = 0] /\ G!Fail
    <3>1. maker' \in Makers /\ maker' = G!Away /\ maker'.pc = "idle"
      BY <2>4, MakerFails
    <3>2. tree' \in Worktrees /\ tree'.branch = 0
      BY <1>2, <2>4 DEF Worktrees
    <3>3. tree'.branch # None
      BY <1>2, <3>2
    <3>4. Site' /\ Making'
      BY <1>1, <1>3, <3>1, <3>3 DEF Making, PreparePlaces, CapturePlaces
    <3> QED BY <1>1, <1>2, <3>1, <3>2, <3>4, WorkspaceFrame
  <2> QED BY <1>4, <2>1, <2>2, <2>3, <2>4 DEF G!AddWorktree
<1>5. ASSUME G!Materialize PROVE WorkspaceInv'
  <2>1. maker.pc = "fill" /\ tree.marker
    BY <1>5 DEF G!Materialize, WorkspaceInv, Making
  <2>2. CASE G!Fail /\ (UNCHANGED tree \/ tree' = [tree EXCEPT !.files = "part"])
    <3>1. maker' \in Makers /\ maker' = G!Away /\ maker'.pc = "idle"
      BY <2>2, MakerFails
    <3>2. tree' \in Worktrees /\ tree'.branch = tree.branch /\ tree'.marker = tree.marker
      BY <1>2, <2>2 DEF Worktrees
    <3>3. Site' /\ Making'
      BY <1>1, <1>3, <3>1, <3>2 DEF WorkspaceInv, Site, Making, PreparePlaces, CapturePlaces
    <3> QED BY <1>1, <3>1, <3>2, <3>3, BranchBorn, WorkspaceFrame
  <2>3. CASE tree' = [tree EXCEPT !.files = Base] /\ G!Goto("read")
    <3>1. maker' \in Makers /\ maker'.pc = "read"
      BY <2>3, MakerGoes DEF PreparePlaces
    <3>2. /\ tree' \in Worktrees /\ tree'.branch = tree.branch /\ tree'.marker = tree.marker
          /\ tree'.files \in G!Trees
      BY <1>2, <2>3 DEF Worktrees, G!Trees
    <3>3. Site' /\ Making'
      BY <1>1, <1>3, <2>1, <3>1, <3>2 DEF WorkspaceInv, Site, Making, PreparePlaces, CapturePlaces
    <3> QED BY <1>1, <3>1, <3>2, <3>3, BranchBorn, WorkspaceFrame
  <2> QED BY <1>5, <2>2, <2>3 DEF G!Materialize
<1>6. ASSUME G!ReadBase PROVE WorkspaceInv'
  <2>1. maker.pc = "read" /\ tree.marker /\ tree.files \in G!Trees
    BY <1>6 DEF G!ReadBase, WorkspaceInv, Making
  <2>2. /\ tree' \in Worktrees /\ tree'.branch = tree.branch /\ tree'.marker = tree.marker
        /\ tree'.files = tree.files /\ tree'.index \in G!Trees
    BY <1>2, <1>6 DEF G!ReadBase, Worktrees, G!Trees
  <2>3. maker' \in Makers /\ (maker'.pc = "activate" \/ (maker' = G!Away /\ maker'.pc = "idle"))
    BY <1>6, MakerGoes, MakerFails DEF G!ReadBase, PreparePlaces
  <2>4. Site' /\ Making'
    BY <1>1, <1>3, <2>1, <2>2, <2>3 DEF WorkspaceInv, Site, Making, PreparePlaces, CapturePlaces
  <2> QED BY <1>1, <2>2, <2>3, <2>4, BranchBorn, WorkspaceFrame
<1> QED BY <1>4, <1>5, <1>6

LEMMA WorkspaceActivates ==
    ASSUME WorkspaceInv, G!Activate \/ G!Release \/ G!Crash PROVE WorkspaceInv'
<1>1. UNCHANGED <<dir, tree, commits, returned>> /\ lease \in Leases /\ tree \in Worktrees /\ maker \in Makers
  BY WorkspaceFields DEF G!Activate, G!Release, G!Crash
<1>2. maker' = G!Away
  <2>1. CASE G!Release
    BY <2>1 DEF G!Release, G!Working
  <2> QED BY <2>1 DEF G!Activate, G!Crash, G!Fail
<1>3. ASSUME G!Activate \/ G!Release PROVE Site' /\ lease' \in Leases /\ lease'.head = lease.head /\ lease'.pending = lease.pending
  <2>1. /\ lease' \in Leases /\ lease'.head = lease.head /\ lease'.pending = lease.pending
        /\ lease'.reservation = lease.reservation
    BY <1>1, <1>3 DEF G!Activate, G!Release, Leases
  <2>2. /\ tree.marker /\ tree.files \in G!Trees /\ tree.index \in G!Trees
        /\ lease.reservation = dir.root /\ dir.root # 0
    BY <1>3 DEF G!Activate, G!Release, G!Working, WorkspaceInv, Site, Making, PreparePlaces
  <2> QED BY <1>1, <2>1, <2>2 DEF WorkspaceInv, Site
<1>4. ASSUME G!Crash PROVE Site' /\ lease' \in Leases /\ lease'.head = lease.head /\ lease'.pending = lease.pending
  BY <1>1, <1>4 DEF G!Crash, WorkspaceInv, Site
<1>5. tree' \in Worktrees /\ (tree'.branch \in G!Commits => Born(tree'.branch)) /\ G!Fail
  BY <1>1, <1>2, BranchBorn DEF G!Fail
<1> QED BY <1>1, <1>3, <1>4, <1>5, WorkspaceEnds

\* A stranger takes the path, or the worker writes, neither while the writer is in the worktree.
LEMMA WorkspaceOthers ==
    ASSUME WorkspaceInv, G!Stranger \/ G!Edit PROVE WorkspaceInv'
<1>1. UNCHANGED <<lease, commits, maker, returned>> /\ tree \in Worktrees /\ dir \in Dirs /\ dir.root <= dir.made
  BY WorkspaceFields DEF G!Stranger, G!Edit
<1>2. CASE G!Stranger
  <2>1. /\ tree' \in Worktrees /\ tree'.marker = tree.marker /\ tree'.files = tree.files
        /\ tree'.index = tree.index /\ tree'.branch = tree.branch
    BY <1>1, <1>2, TreeMarked DEF G!Stranger
  <2>2. dir' \in Dirs /\ dir'.root <= dir'.made /\ (dir.root # 0 => dir' = dir)
    <3>1. CASE dir.root = 0
      <4>1. dir.made < MaxRoots /\ dir' = [root |-> dir.made + 1, made |-> dir.made + 1] /\ dir.made \in Nat
        BY <1>1, <1>2, <3>1 DEF G!Stranger, Dirs
      <4>2. dir' \in Dirs /\ dir'.root = dir.made + 1 /\ dir'.made = dir.made + 1
        BY <1>1, <4>1, WorkspaceFields DEF Dirs
      <4> QED BY <3>1, <4>1, <4>2
    <3>2. CASE dir.root # 0
      BY <1>1, <1>2, <3>2 DEF G!Stranger
    <3> QED BY <3>1, <3>2
  <2>3. lease.status \in {"none", "preparing"} /\ dir'.root # 0
    <3>1. dir.root = 0 => dir'.root # 0
      <4>1. dir.root = 0 => dir'.root = dir.made + 1 /\ dir.made \in Nat
        BY <1>1, <1>2 DEF G!Stranger, Dirs
      <4> QED BY <4>1
    <3> QED BY <1>2, <2>2, <3>1 DEF G!Stranger
  <2>4. Site'
    BY <1>1, <2>1, <2>3 DEF WorkspaceInv, Site
  <2>5. Making'
    BY <1>1, <2>1, <2>2, <2>3 DEF WorkspaceInv, Making, PreparePlaces, CapturePlaces, G!TreeOf
  <2>6. History'
    BY <1>1, <2>1 DEF WorkspaceInv, History, Follows, Born
  <2> QED BY <1>1, <2>1, <2>2, <2>4, <2>5, <2>6 DEF WorkspaceInv, WorkspaceShapes
<1>3. CASE G!Edit
  <2>1. PICK files \in Contents : tree' = [tree EXCEPT !.files = files]
    BY <1>3 DEF G!Edit
  <2>2. /\ tree' \in Worktrees /\ tree'.marker = tree.marker /\ tree'.files = files
        /\ tree'.index = tree.index /\ tree'.branch = tree.branch /\ files \in G!Trees
    BY <1>1, <2>1 DEF Worktrees, G!Trees
  <2>3. UNCHANGED dir /\ lease.status = "active" /\ maker = G!Away /\ maker.pc = "idle"
    BY <1>3, MakerAway, WorkspaceFields DEF G!Edit, G!Working
  <2>4. Site'
    BY <1>1, <2>2, <2>3 DEF WorkspaceInv, Site
  <2>5. Making'
    BY <1>1, <2>3 DEF Making, PreparePlaces, CapturePlaces
  <2>6. UNCHANGED <<lease, dir, commits, returned>> /\ maker' \in Makers
    BY <1>1, <2>3, WorkspaceFields
  <2>7. tree'.branch \in G!Commits => Born(tree'.branch)
    BY <2>2, BranchBorn
  <2> QED BY <2>2, <2>4, <2>5, <2>6, <2>7, WorkspaceFrame
<1> QED BY <1>2, <1>3

\* A new commit has the next number; the old ones stay.
LEMMA CommitAdds ==
    ASSUME WorkspaceInv, NEW c \in 1 .. MaxCommits, G!Fresh(c),
           NEW k \in [tree : G!Trees, parent : G!Commits], Born(k.parent),
           commits' = [commits EXCEPT ![c] = k]
    PROVE  /\ commits' \in [G!Commits -> [tree : G!Trees, parent : G!Commits] \cup {G!Unborn}]
           /\ c \in G!Commits /\ Born(c)' /\ commits'[c] = k
           /\ \A d \in G!Commits : Born(d) => Born(d)' /\ commits'[d] = commits[d] /\ d # c
           /\ \A d, e \in G!Commits : d < e /\ Born(e)' => Born(d)'
           /\ \A d \in G!Commits : Born(d)' => commits'[d].parent < d \/ d = 0
<1>1. c \in G!Commits /\ ~Born(c) /\ (c = 1 \/ Born(c - 1)) /\ c # 0
  BY WorkspaceFields DEF G!Fresh, Born, G!Commits
<1>2. k # G!Unborn
  <2>1. k.parent # None /\ G!Unborn.parent = None
    BY WorkspaceFields DEF G!Unborn
  <2> QED BY <2>1
<1>3. /\ commits' \in [G!Commits -> [tree : G!Trees, parent : G!Commits] \cup {G!Unborn}]
      /\ commits'[c] = k /\ \A d \in G!Commits : d # c => commits'[d] = commits[d]
  BY <1>1, WorkspaceFields
<1>4. \A d \in G!Commits : Born(d)' <=> Born(d) \/ d = c
  BY <1>2, <1>3 DEF Born
<1>5. \A d \in G!Commits : d < c => Born(d)
  <2>1. ASSUME NEW d \in G!Commits, d < c PROVE Born(d)
    <3>1. CASE d = 0
      BY <3>1 DEF WorkspaceInv, History
    <3>2. CASE d # 0
      <4>1. c \in Nat /\ d \in Nat /\ c - 1 \in G!Commits /\ c # 1
        BY <1>1, <2>1, <3>2, WorkspaceFields DEF G!Commits
      <4>2. d = c - 1 \/ d < c - 1
        BY <2>1, <4>1
      <4> QED BY <1>1, <4>1, <4>2 DEF WorkspaceInv, History
    <3> QED BY <3>1, <3>2
  <2> QED BY <2>1
<1>6. \A d \in G!Commits : Born(d) => d < c
  <2>1. ASSUME NEW d \in G!Commits, Born(d) PROVE d < c
    <3>1. ~(c < d) /\ d # c
      BY <1>1, <2>1 DEF WorkspaceInv, History
    <3>2. c \in Nat /\ d \in Nat
      BY <1>1, WorkspaceFields
    <3> QED BY <3>1, <3>2
  <2> QED BY <2>1
<1>7. \A d, e \in G!Commits : d < e /\ Born(e)' => Born(d)'
  BY <1>4, <1>5 DEF WorkspaceInv, History
<1>8. \A d \in G!Commits : Born(d)' => commits'[d].parent < d \/ d = 0
  <2>1. k.parent < c
    BY <1>6
  <2> QED BY <1>3, <1>4, <2>1 DEF WorkspaceInv, History
<1> QED BY <1>1, <1>3, <1>4, <1>7, <1>8

\* Who is not in the way keeps what it stands on when a commit is added.
LEMMA HistoryGrows ==
    ASSUME WorkspaceInv, UNCHANGED <<lease, returned>>,
           \A d \in G!Commits : Born(d) => Born(d)' /\ commits'[d] = commits[d],
           \A d, e \in G!Commits : d < e /\ Born(e)' => Born(d)',
           \A d \in G!Commits : Born(d)' => commits'[d].parent < d \/ d = 0,
           tree'.branch # None => commits'[tree'.branch] # G!Unborn
    PROVE  History'
<1>1. lease.head \in G!Commits /\ 0 \in G!Commits /\ (lease.pending # None => lease.pending \in G!Commits)
  BY WorkspaceFields DEF Leases
<1>2. Born(0) /\ Born(lease.head) /\ (lease.pending # None => Follows(lease.pending))
  BY DEF WorkspaceInv, History
<1>3. lease' = lease /\ returned' = returned
  OBVIOUS
<1>4. Born(0)' /\ Born(lease.head)' /\ (lease.pending # None => Follows(lease.pending))'
  BY <1>1, <1>2, <1>3 DEF Born, Follows
<1>5. \A c \in returned : Born(c)' /\ commits'[c].parent \in returned \cup {0}
  BY WorkspaceFields DEF WorkspaceInv, History
<1>6. (tree.branch # None => Born(tree.branch))'
  BY DEF Born
<1>7. lease.head \in returned \cup {0} /\ commits'[0].parent = 0
  BY <1>1, <1>2 DEF WorkspaceInv, History
<1> QED BY <1>3, <1>4, <1>5, <1>6, <1>7 DEF History

LEMMA WorkspaceOwnCommit ==
    ASSUME WorkspaceInv, G!CommitItself PROVE WorkspaceInv'
<1>1. /\ UNCHANGED <<lease, dir, maker, returned>> /\ maker = G!Away /\ maker.pc = "idle"
      /\ lease.status = "active" /\ tree \in Worktrees
      /\ tree.marker /\ tree.files \in G!Trees /\ tree.branch # None
  BY MakerAway, WorkspaceFields DEF G!CommitItself, G!Working, WorkspaceInv, Site
<1>2. PICK c \in 1 .. MaxCommits, index \in Contents \cup {Base} :
         /\ G!Fresh(c)
         /\ commits' = [commits EXCEPT ![c] = [tree |-> tree.files, parent |-> tree.branch]]
         /\ tree' = [tree EXCEPT !.branch = c, !.index = index]
  BY DEF G!CommitItself
<1> DEFINE k == [tree |-> tree.files, parent |-> tree.branch]
<1>3. tree.branch \in G!Commits /\ Born(tree.branch)
  BY <1>1 DEF Worktrees, WorkspaceInv, History
<1>4. k \in [tree : G!Trees, parent : G!Commits] /\ k.parent = tree.branch
  BY <1>1, <1>3
<1> HIDE DEF k
<1>5. /\ commits' \in [G!Commits -> [tree : G!Trees, parent : G!Commits] \cup {G!Unborn}]
      /\ c \in G!Commits /\ Born(c)'
      /\ \A d \in G!Commits : Born(d) => Born(d)' /\ commits'[d] = commits[d]
      /\ \A d, e \in G!Commits : d < e /\ Born(e)' => Born(d)'
      /\ \A d \in G!Commits : Born(d)' => commits'[d].parent < d \/ d = 0
  BY <1>2, <1>3, <1>4, CommitAdds DEF k
<1>6. /\ tree' \in Worktrees /\ tree'.marker = tree.marker /\ tree'.files = tree.files
      /\ tree'.index = index /\ tree'.branch = c /\ index \in G!Trees
  BY <1>1, <1>2, <1>5 DEF Worktrees, G!Trees
<1>7. History'
  <2>1. commits'[tree'.branch] # G!Unborn
    BY <1>5, <1>6 DEF Born
  <2> QED BY <1>1, <1>5, <2>1, HistoryGrows
<1>8. Site'
  BY <1>1, <1>5, <1>6, WorkspaceFields DEF WorkspaceInv, Site
<1>9. Making'
  BY <1>1 DEF Making, PreparePlaces, CapturePlaces
<1> QED BY <1>1, <1>5, <1>6, <1>7, <1>8, <1>9 DEF WorkspaceInv, WorkspaceShapes

LEMMA WorkspaceCaptures ==
    ASSUME WorkspaceInv, G!Capture PROVE WorkspaceInv'
<1>1. /\ UNCHANGED <<lease, dir, tree, commits, returned>> /\ maker = G!Away
      /\ lease.status = "active" /\ lease \in Leases /\ tree \in Worktrees
  BY WorkspaceFields DEF G!Capture, G!Working
<1>2. tree.branch \in {lease.head, IF lease.pending # None THEN lease.pending ELSE lease.head}
  BY DEF G!Capture, G!HeadKnown, G!Pending
<1>3. Site'
  BY <1>1 DEF WorkspaceInv, Site
<1>4. CASE lease.pending # None /\ maker' = [pc |-> "publish", sha |-> lease.pending]
  <2>1. maker' \in Makers /\ maker'.pc = "publish" /\ maker'.sha = lease.pending
    BY <1>1, <1>4 DEF Makers, Leases, CapturePlaces
  <2>2. Follows(lease.pending)
    BY <1>4 DEF WorkspaceInv, History
  <2>3. Follows(lease.pending)'
    BY <1>1, <2>2 DEF Follows, Born
  <2>4. Making'
    BY <1>1, <1>2, <1>4, <2>1, <2>3 DEF Making, PreparePlaces, CapturePlaces
  <2> QED BY <1>1, <1>3, <2>1, <2>4, BranchBorn, WorkspaceFrame
<1>5. CASE lease.pending = None /\ G!Goto("commit")
  <2>1. maker' \in Makers /\ maker'.pc = "commit"
    BY <1>5, MakerGoes DEF CapturePlaces
  <2>2. Making'
    BY <1>1, <1>2, <1>5, <2>1 DEF Making, PreparePlaces, CapturePlaces
  <2> QED BY <1>1, <1>3, <2>1, <2>2, BranchBorn, WorkspaceFrame
<1> QED BY <1>4, <1>5 DEF G!Capture, G!Pending

LEMMA WorkspaceCommits ==
    ASSUME WorkspaceInv, G!CommitTree PROVE WorkspaceInv'
<1>1. /\ UNCHANGED <<lease, dir, tree, returned>> /\ maker.pc = "commit"
      /\ lease.status = "active" /\ lease.pending = None /\ tree.branch = lease.head
      /\ lease.head \in G!Commits /\ Born(lease.head) /\ tree.files \in G!Trees
  BY WorkspaceFields DEF G!CommitTree, WorkspaceInv, Making, CapturePlaces, Site, History, Leases
<1>2. Site'
  BY <1>1 DEF WorkspaceInv, Site
<1>3. ASSUME NEW c \in G!Commits, maker' = [pc |-> "intend", sha |-> c], Follows(c)'
      PROVE  maker' \in Makers /\ Making'
  <2>1. maker' \in Makers /\ maker'.pc = "intend" /\ maker'.sha = c
    BY <1>3 DEF Makers, CapturePlaces
  <2> QED BY <1>1, <1>3, <2>1 DEF Making, PreparePlaces, CapturePlaces
<1>4. CASE maker' = [pc |-> "intend", sha |-> lease.head] /\ UNCHANGED commits
  <2>1. PICK c \in G!Commits : c = lease.head
    BY <1>1
  <2>2. Follows(c)'
    BY <1>1, <1>4, <2>1 DEF Follows, Born
  <2>3. maker' \in Makers /\ Making'
    BY <1>3, <1>4, <2>1, <2>2
  <2> QED BY <1>1, <1>2, <1>4, <2>3, BranchBorn, WorkspaceFields, WorkspaceFrame
<1>5. ASSUME NEW c \in 1 .. MaxCommits, G!Fresh(c),
             commits' = [commits EXCEPT ![c] = [tree |-> tree.files, parent |-> lease.head]],
             maker' = [pc |-> "intend", sha |-> c]
      PROVE  WorkspaceInv'
  <2> DEFINE k == [tree |-> tree.files, parent |-> lease.head]
  <2>1. k \in [tree : G!Trees, parent : G!Commits] /\ k.parent = lease.head
    BY <1>1
  <2> HIDE DEF k
  <2>2. /\ commits' \in [G!Commits -> [tree : G!Trees, parent : G!Commits] \cup {G!Unborn}]
        /\ c \in G!Commits /\ Born(c)' /\ commits'[c] = k
        /\ \A d \in G!Commits : Born(d) => Born(d)' /\ commits'[d] = commits[d]
        /\ \A d, e \in G!Commits : d < e /\ Born(e)' => Born(d)'
        /\ \A d \in G!Commits : Born(d)' => commits'[d].parent < d \/ d = 0
    BY <1>1, <1>5, <2>1, CommitAdds DEF k
  <2>3. commits'[tree'.branch] # G!Unborn
    BY <1>1, <2>2 DEF Born
  <2>4. History'
    BY <1>1, <2>2, <2>3, HistoryGrows
  <2>5. Follows(c)'
    BY <1>1, <2>1, <2>2 DEF Follows
  <2>6. maker' \in Makers /\ Making'
    BY <1>3, <1>5, <2>2, <2>5
  <2> QED BY <1>1, <1>2, <2>2, <2>4, <2>6 DEF WorkspaceInv, WorkspaceShapes
<1> QED BY <1>4, <1>5 DEF G!CommitTree

LEMMA WorkspaceIntends ==
    ASSUME WorkspaceInv, G!Intend PROVE WorkspaceInv'
<1>1. /\ UNCHANGED <<dir, tree, commits, returned>> /\ maker.pc = "intend"
      /\ lease.status = "active" /\ tree.branch = lease.head /\ Follows(maker.sha)
      /\ lease \in Leases /\ maker \in Makers /\ maker.sha \in G!Commits
  BY WorkspaceFields DEF G!Intend, WorkspaceInv, Making, CapturePlaces, Makers
<1>2. /\ lease' \in Leases /\ lease'.pending = maker.sha /\ lease'.head = lease.head
      /\ lease'.status = lease.status /\ lease'.reservation = lease.reservation
  BY <1>1 DEF G!Intend, Leases
<1>3. maker' \in Makers /\ maker'.pc = "publish" /\ maker'.sha = maker.sha
  BY MakerGoes DEF G!Intend, CapturePlaces
<1>4. Site'
  BY <1>1, <1>2 DEF WorkspaceInv, Site
<1>5. \A c \in G!Commits : Follows(c) => Follows(c)'
  BY <1>1, <1>2 DEF Follows, Born
<1>6. PICK c \in G!Commits : c = maker.sha /\ Follows(c)'
  BY <1>1, <1>5
<1>7. Making'
  BY <1>1, <1>2, <1>3, <1>6 DEF Making, PreparePlaces, CapturePlaces, Follows, Born
<1>8. History'
  <2>1. (lease.pending # None => Follows(lease.pending))'
    BY <1>2, <1>6 DEF Follows, Born
  <2> QED BY <1>1, <1>2, <2>1 DEF WorkspaceInv, History, Born
<1> QED BY <1>1, <1>2, <1>3, <1>4, <1>7, <1>8 DEF WorkspaceInv, WorkspaceShapes

LEMMA WorkspacePublishes ==
    ASSUME WorkspaceInv, G!Publish \/ G!Reset PROVE WorkspaceInv'
<1>1. /\ UNCHANGED <<lease, dir, commits, returned>> /\ maker.pc \in {"publish", "reset"}
      /\ lease.status = "active" /\ tree \in Worktrees /\ maker \in Makers /\ lease.pending = maker.sha
      /\ maker.sha \in G!Commits /\ Follows(maker.sha)
  BY WorkspaceFields DEF G!Publish, G!Reset, WorkspaceInv, Making, CapturePlaces, Makers
<1>2. G!TreeOf(maker.sha) \in G!Trees
  BY <1>1, BornFields DEF Follows
<1>3. PICK c \in G!Commits : c = maker.sha /\ Born(c) /\ Follows(c)'
  BY <1>1 DEF Follows, Born
<1>4. CASE G!Publish /\ tree.files = G!TreeOf(maker.sha)
  <2>1. maker.pc = "publish" /\ tree.branch \in {lease.head, maker.sha}
    BY <1>4 DEF G!Publish, WorkspaceInv, Making
  <2>2. /\ tree' \in Worktrees /\ tree'.branch = maker.sha /\ tree'.marker = tree.marker
        /\ tree'.files = tree.files /\ tree'.index = tree.index
    BY <1>1, <1>4, <2>1 DEF G!Publish, G!Unedited, Worktrees
  <2>3. maker' \in Makers /\ maker'.pc = "reset" /\ maker'.sha = maker.sha
    BY <1>4, MakerGoes DEF G!Publish, G!Unedited, CapturePlaces
  <2>4. Site'
    BY <1>1, <2>2, WorkspaceFields DEF WorkspaceInv, Site
  <2>5. tree'.files = G!TreeOf(c) /\ G!TreeOf(c)' = G!TreeOf(c)
    BY <1>1, <1>3, <1>4, <2>2 DEF G!TreeOf
  <2>6. Making'
    BY <1>1, <1>3, <2>2, <2>3, <2>5 DEF Making, PreparePlaces, CapturePlaces, Follows, Born, G!TreeOf
  <2> QED BY <1>1, <1>3, <2>2, <2>3, <2>4, <2>6, WorkspaceFrame
<1>5. CASE G!Publish /\ G!Fail /\ UNCHANGED tree
  <2>1. maker' \in Makers /\ maker' = G!Away /\ maker'.pc = "idle"
    BY <1>5, MakerFails
  <2>2. Site' /\ Making'
    BY <1>1, <1>5, <2>1 DEF WorkspaceInv, Site, Making, PreparePlaces, CapturePlaces
  <2> QED BY <1>1, <1>5, <2>1, <2>2, BranchBorn, WorkspaceFrame
<1>6. CASE G!Reset
  <2>1. maker.pc = "reset" /\ tree.branch = maker.sha /\ tree.files = G!TreeOf(maker.sha)
    BY <1>6 DEF G!Reset, WorkspaceInv, Making
  <2>2. /\ tree' \in Worktrees /\ tree'.branch = maker.sha /\ tree'.marker = tree.marker
        /\ tree'.files = G!TreeOf(maker.sha) /\ tree'.index = G!TreeOf(maker.sha)
    BY <1>1, <1>2, <1>6, <2>1 DEF G!Reset, Worktrees
  <2>3. maker' \in Makers /\ maker'.pc = "record" /\ maker'.sha = maker.sha
    BY <1>6, MakerGoes DEF G!Reset, CapturePlaces
  <2>4. Site'
    BY <1>1, <1>2, <2>2, WorkspaceFields DEF WorkspaceInv, Site
  <2>5. G!TreeOf(c)' = G!TreeOf(c)
    BY <1>1 DEF G!TreeOf
  <2>6. Making'
    BY <1>1, <1>3, <2>2, <2>3, <2>5 DEF Making, PreparePlaces, CapturePlaces, Follows, Born, G!TreeOf
  <2> QED BY <1>1, <1>3, <2>2, <2>3, <2>4, <2>6, WorkspaceFrame
<1> QED BY <1>4, <1>5, <1>6 DEF G!Publish, G!Unedited

LEMMA WorkspaceRecords ==
    ASSUME WorkspaceInv, G!Record PROVE WorkspaceInv'
<1>1. /\ UNCHANGED <<dir, tree, commits>> /\ maker.pc = "record" /\ lease.status = "active"
      /\ lease \in Leases /\ maker \in Makers /\ maker.sha \in G!Commits /\ Follows(maker.sha)
      /\ returned' = returned \cup {maker.sha}
  BY WorkspaceFields DEF G!Record, WorkspaceInv, Making, CapturePlaces, Makers
<1>2. /\ lease' \in Leases /\ lease'.pending = None /\ lease'.head = maker.sha
      /\ lease'.status = lease.status /\ lease'.reservation = lease.reservation
  BY <1>1 DEF G!Record, Leases
<1>3. maker' \in Makers /\ maker' = G!Away /\ maker'.pc = "idle"
  BY MakerFails DEF G!Record
<1>4. Site' /\ Making'
  BY <1>1, <1>2, <1>3 DEF WorkspaceInv, Site, Making, PreparePlaces, CapturePlaces
<1>5. commits[maker.sha].parent \in returned' \cup {0}
  <2>1. CASE maker.sha = lease.head
    <3>1. CASE maker.sha \in returned
      BY <1>1, <3>1 DEF WorkspaceInv, History
    <3>2. CASE maker.sha = 0
      <4>1. commits[0].parent = 0
        BY DEF WorkspaceInv, History
      <4> QED BY <3>2, <4>1
    <3> QED BY <2>1, <3>1, <3>2 DEF WorkspaceInv, History
  <2>2. CASE commits[maker.sha].parent = lease.head
    BY <1>1, <2>2 DEF WorkspaceInv, History
  <2> QED BY <1>1, <2>1, <2>2 DEF Follows
<1>6. \A c \in returned' : Born(c)' /\ commits'[c].parent \in returned' \cup {0}
  BY <1>1, <1>5 DEF WorkspaceInv, History, Follows, Born
<1>7. History'
  BY <1>1, <1>2, <1>6 DEF WorkspaceInv, History, Follows, Born
<1>8. returned' \in SUBSET G!Commits
  BY <1>1, WorkspaceFields
<1> QED BY <1>1, <1>2, <1>3, <1>4, <1>7, <1>8 DEF WorkspaceInv, WorkspaceShapes

LEMMA WorkspaceStep == ASSUME WorkspaceInv, G!WorkspaceNext PROVE WorkspaceInv'
  BY WorkspacePrepares, WorkspaceAdds, WorkspaceActivates, WorkspaceOthers, WorkspaceOwnCommit,
     WorkspaceCaptures, WorkspaceCommits, WorkspaceIntends, WorkspacePublishes, WorkspaceRecords
     DEF G!WorkspaceNext

LEMMA WorkspaceRest == ASSUME WorkspaceInv, UNCHANGED workspaceVars PROVE WorkspaceInv'
<1>1. UNCHANGED <<lease, dir, tree, commits, maker, returned>>
  BY DEF workspaceVars
<1> QED BY <1>1 DEF WorkspaceInv, WorkspaceShapes, History, Site, Making, Born, Follows, G!TreeOf

LEMMA WorkspaceSays == ASSUME WorkspaceInv PROVE G!WorkspaceTypeOK
<1>1. /\ lease.status \in {"none", "preparing", "active", "released"} /\ lease.head \in G!Commits
      /\ {lease.candidate, lease.pending} \subseteq G!Commits \cup {None}
  BY WorkspaceFields DEF Leases
<1>2. dir.root \in 0 .. dir.made /\ dir.made <= MaxRoots
  BY WorkspaceFields DEF Dirs
<1>3. /\ tree.files \in {"none", "part"} \cup G!Trees /\ tree.index \in G!Trees \cup {None}
      /\ tree.branch \in G!Commits \cup {None}
  BY WorkspaceFields DEF Worktrees
<1>4. lease.status \in {"active", "released"} =>
         /\ tree.marker /\ tree.branch \in G!Commits /\ tree.index \in G!Trees
         /\ lease.reservation = dir.root /\ dir.root # 0
  BY <1>3 DEF WorkspaceInv, Site
<1>5. \A c \in G!Commits : commits[c] = G!Unborn \/ commits[c].parent < c \/ c = 0
  BY DEF WorkspaceInv, History, Born
<1>6. maker.sha \in G!Commits /\ returned \subseteq G!Commits
  BY WorkspaceFields DEF Makers
<1> QED BY <1>1, <1>2, <1>3, <1>4, <1>5, <1>6 DEF G!WorkspaceTypeOK

\* What is returned is what the worker left, and nobody's files are written over.
LEMMA WorkspaceKeeps ==
    ASSUME WorkspaceInv, G!WorkspaceNext PROVE G!ReturnsTrue /\ G!LeavesOthers
<1>1. ASSUME lease'.candidate # lease.candidate
      PROVE  /\ tree.branch = lease'.candidate
             /\ {tree.files, tree.index} = {G!TreeOf(lease'.candidate)}
             /\ lease'.candidate \in returned'
             /\ \A c \in returned' : commits[c].parent \in returned' \cup {0}
  <2>1. lease \in Leases
    BY WorkspaceFields
  <2>2. lease' = lease \/ lease'.candidate = lease.candidate \/ G!Record
    BY <2>1 DEF G!WorkspaceNext, G!Ensure, G!Assign, G!Reserve, G!AddWorktree, G!Materialize, G!ReadBase,
       G!Activate, G!Stranger, G!Edit, G!CommitItself, G!Capture, G!CommitTree, G!Intend, G!Publish, G!Reset,
       G!Release, G!Crash, Leases
  <2>3. G!Record
    BY <1>1, <2>2
  <2>4. lease'.candidate = maker.sha /\ UNCHANGED commits /\ returned' = returned \cup {maker.sha} /\ maker.pc = "record"
    BY <2>1, <2>3 DEF G!Record, Leases
  <2>5. tree.branch = maker.sha /\ tree.files = G!TreeOf(maker.sha) /\ tree.index = G!TreeOf(maker.sha)
    BY <2>4 DEF WorkspaceInv, Making
  <2>6. \A c \in returned' : commits[c].parent \in returned' \cup {0}
    <3>1. WorkspaceInv'
      BY <2>3, WorkspaceRecords
    <3> QED BY <2>4, <3>1 DEF WorkspaceInv, History
  <2> QED BY <2>4, <2>5, <2>6
<1>2. ASSUME tree'.files # tree.files, lease.status = "preparing"
      PROVE  ~tree.foreign /\ lease.reservation = dir.root
  <2>1. tree \in Worktrees
    BY WorkspaceFields
  <2>2. tree'.files = tree.files \/ G!Materialize \/ G!Edit
    BY <2>1 DEF G!WorkspaceNext, G!Ensure, G!Assign, G!Reserve, G!AddWorktree, G!ReadBase,
       G!Activate, G!Stranger, G!CommitItself, G!Capture, G!CommitTree, G!Intend, G!Publish, G!Reset,
       G!Record, G!Release, G!Crash, Worktrees
  <2>3. G!Materialize
    BY <1>2, <2>2 DEF G!Edit, G!Working
  <2>4. ~tree.foreign /\ maker.pc = "fill"
    BY <1>2, <2>3 DEF G!Materialize
  <2> QED BY <2>4 DEF WorkspaceInv, Making
<1> QED BY <1>1, <1>2 DEF G!ReturnsTrue, G!LeavesOthers
=============================================================================
