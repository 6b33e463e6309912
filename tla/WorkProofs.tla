----------------------------- MODULE WorkProofs -----------------------------
(***************************************************************************)
(* Proofs about how one task is worked at (Work). For each of its own      *)
(* views, as in WorkSessionProofs: its shapes, its inductive invariant,    *)
(* one lemma for each kind of step, and what follows; then the             *)
(* composition of all the views, and the theorems.                         *)
(***************************************************************************)
EXTENDS Work, WorkSessionProofs
-----------------------------------------------------------------------------
(* The bindings of sessions (SessionBindings).                              *)

Own(r) == {t \in Task : Home[t] = r}
OwnEntry(r, e) == e.tasks \subseteq Own(r) /\ e.links \subseteq Own(r) /\ e.unlinks \subseteq Own(r)
Kinds == {"none", "attach", "rebind", "end"}
BindPlaces == {"idle", "write", "provider", "merge"}

\* An operation of a session.
BindOps ==
    [kind : Kinds, pc : BindPlaces, r : Requirement \cup {Nobody},
     want : SUBSET Task, gone : SUBSET Task, copy : [Session -> B!Entry],
     links : SUBSET Task, unlinks : SUBSET (Session \X Task),
     failedLinks : SUBSET Task, failedUnlinks : SUBSET (Session \X Task)]

BindShapes ==
    /\ file \in [Requirement -> [Session -> B!Entry]]
    /\ lock \in [Requirement \cup {Workspace} -> Session \cup {Nobody}]
    /\ op \in [Session -> BindOps]
    /\ started \in 0 .. MaxOps /\ held \in [Session -> SUBSET Task]

\* It handles tasks of its requirement only.
OpOwn(o) ==
    /\ o.kind # "none" /\ o.r \in Requirement
    /\ o.want \subseteq Own(o.r) /\ o.gone \subseteq Own(o.r)
    /\ \A u \in Session : OwnEntry(o.r, o.copy[u])
    /\ o.links \subseteq Own(o.r) /\ o.failedLinks \subseteq Own(o.r)
    /\ \A x \in o.unlinks \cup o.failedUnlinks : x[2] \in Own(o.r)

BindOwn ==
    /\ \A r \in Requirement, s \in Session : OwnEntry(r, file[r][s])
    /\ \A s \in Session : op[s].pc # "idle" => OpOwn(op[s])

\* Lock k is taken by operation o.
Takes(o, k) == \/ o.pc = "write" /\ k = B!FirstLock(o.kind, o.r)
               \/ o.pc = "merge" /\ k = o.r
BindLocks == \A s \in Session : \A k \in Requirement \cup {Workspace} : lock[k] = s <=> Takes(op[s], k)

\* attach_session before its write; the others have read under the lock of the requirement.
Attaching(o) == o.pc = "write" /\ o.kind = "attach"
Reading(o) == (o.pc = "write" /\ o.kind # "attach") \/ o.pc = "merge"

\* What was read under the lock of the requirement never shows a session active that is
\* not active any more; what attach_session has read shows every other one that is.
BindCopies ==
    \A s \in Session :
        /\ Reading(op[s]) => \A u \in Session :
              op[s].copy[u].status = "active" => B!Active(op[s].r, u)
        /\ Attaching(op[s]) => \A u \in Session \ {s} :
              B!Active(op[s].r, u) => op[s].copy[u].status = "active"

\* Session u is active for r, or will be when an attach_session under way has written.
WillBeActive(u, r) ==
    \/ B!Active(r, u)
    \/ \E s \in Session : Attaching(op[s]) /\ op[s].r = r
                          /\ (s = u \/ op[s].copy[u].status = "active")

BindOne ==
    \A u \in Session : \A r, q \in Requirement : WillBeActive(u, r) /\ WillBeActive(u, q) => r = q

BindInv == BindShapes /\ BindOwn /\ BindLocks /\ BindCopies /\ BindOne

LEMMA NoEntryOK == B!NoEntry \in B!Entry /\ B!NoEntry.status = "none" /\ \A r : OwnEntry(r, B!NoEntry)
  BY DEF B!NoEntry, B!Entry, OwnEntry

LEMMA RestOK == /\ B!Rest \in BindOps /\ B!Rest.pc = "idle" /\ B!NoFile \in [Session -> B!Entry]
                /\ \A s \in Session : B!NoFile[s] = B!NoEntry
<1>1. /\ B!NoFile \in [Session -> B!Entry] /\ \A s \in Session : B!NoFile[s] = B!NoEntry
  BY NoEntryOK DEF B!NoFile
<1>2. B!Rest \in BindOps /\ B!Rest.pc = "idle"
  BY <1>1, Zenon DEF B!Rest, BindOps, Kinds, BindPlaces
<1> QED BY <1>1, <1>2

LEMMA BindingsStart ==
    ASSUME B!BindingsInit PROVE BindInv
<1>1. BindShapes
  BY RestOK, PlanBounds DEF BindShapes, B!BindingsInit
<1>2. \A s \in Session : op[s] = B!Rest /\ \A r \in Requirement : file[r][s] = B!NoEntry
  BY RestOK DEF B!BindingsInit
<1>3. BindOwn /\ BindCopies
  BY <1>2, RestOK, NoEntryOK DEF BindOwn, BindCopies, Attaching, Reading
<1>4. BindLocks
  BY <1>2, RestOK, PlanApart DEF BindLocks, Takes, B!BindingsInit
<1>5. BindOne
  BY <1>2, RestOK, NoEntryOK DEF BindOne, WillBeActive, B!Active, Attaching
<1> QED BY <1>1, <1>3, <1>4, <1>5 DEF BindInv

\* The first part of an operation.
LEMMA EnterStep ==
    ASSUME BindInv, NEW s \in Session, NEW r \in Requirement,
           NEW kind \in {"attach", "rebind", "end"}, NEW want \in SUBSET Own(r),
           NEW gone \in SUBSET Own(r), B!Enter(s, kind, r, want, gone),
           kind = "attach" => \A q \in Requirement \ {r} : ~B!Active(q, s)
    PROVE  BindInv'
<1> DEFINE o == [B!Rest EXCEPT !.kind = kind, !.pc = "write", !.r = r, !.want = want,
                               !.gone = gone, !.copy = file[r]]
           k == B!FirstLock(kind, r)
<1>1. /\ op[s] = B!Rest /\ lock[k] = Nobody /\ lock' = [lock EXCEPT ![k] = s]
      /\ op' = [op EXCEPT ![s] = o] /\ started < MaxOps /\ started' = started + 1
      /\ UNCHANGED <<file, held>>
  BY DEF B!Enter, B!Locked
<1>2. BindShapes
  BY DEF BindInv
<1>3. Own(r) \subseteq Task
  BY DEF Own
<1>4. o \in BindOps
  BY <1>2, <1>3, RestOK, Zenon DEF BindShapes, BindOps, Kinds, BindPlaces
<1>5. /\ o.kind = kind /\ o.pc = "write" /\ o.r = r /\ o.want = want /\ o.gone = gone
      /\ o.copy = file[r] /\ o.links = {} /\ o.unlinks = {} /\ o.failedLinks = {}
      /\ o.failedUnlinks = {}
  BY DEF B!Rest
<1> HIDE DEF o
<1>6. op' \in [Session -> BindOps] /\ op'[s] = o /\ \A u \in Session \ {s} : op'[u] = op[u]
  BY <1>1, <1>2, <1>4 DEF BindShapes
<1>7. /\ k \in Requirement \cup {Workspace} /\ lock'[k] = s
      /\ \A l \in (Requirement \cup {Workspace}) \ {k} : lock'[l] = lock[l]
      /\ lock' \in [Requirement \cup {Workspace} -> Session \cup {Nobody}]
  BY <1>1, <1>2 DEF BindShapes, B!FirstLock
<1>8. BindShapes'
  BY <1>1, <1>2, <1>6, <1>7, PlanBounds DEF BindShapes
<1>9. BindOwn'
  BY <1>1, <1>5, <1>6 DEF BindInv, BindOwn, OpOwn
<1>10. BindLocks'
  BY <1>1, <1>5, <1>6, <1>7, RestOK, PlanApart DEF BindInv, BindLocks, Takes
<1>11. BindCopies'
  BY <1>1, <1>5, <1>6, RestOK DEF BindInv, BindCopies, Attaching, Reading, B!Active
<1>12. BindOne'
  <2>1. ASSUME NEW u \in Session, NEW q \in Requirement, WillBeActive(u, q)'
        PROVE  WillBeActive(u, q) \/ (kind = "attach" /\ u = s /\ q = r)
    BY <1>1, <1>5, <1>6, <2>1 DEF WillBeActive, Attaching, B!Active
  <2>2. CASE kind # "attach"
    BY <2>1, <2>2 DEF BindInv, BindOne
  <2>3. CASE kind = "attach"
    <3>1. lock[Workspace] = Nobody
      BY <1>1, <2>3 DEF B!FirstLock
    <3>2. \A u \in Session : ~Attaching(op[u])
      BY <3>1, PlanApart DEF BindInv, BindLocks, Takes, Attaching, B!FirstLock
    <3>3. \A q \in Requirement : WillBeActive(s, q) => q = r
      BY <2>3, <3>2 DEF WillBeActive
    <3> QED BY <2>1, <3>3 DEF BindInv, BindOne
  <2> QED BY <2>2, <2>3
<1> QED BY <1>8, <1>9, <1>10, <1>11, <1>12 DEF BindInv

\* What an operation writes for its own session.
Written(o, e) ==
    CASE o.kind = "attach" -> B!Attached(e, o.want)
      [] o.kind = "rebind" -> B!Rebound(e, o.gone, o.want)
      [] o.kind = "end" -> B!Ended(e)

LEMMA WrittenOK ==
    ASSUME NEW o \in BindOps, OpOwn(o), NEW e \in B!Entry, OwnEntry(o.r, e)
    PROVE  /\ Written(o, e) \in B!Entry /\ OwnEntry(o.r, Written(o, e))
           /\ o.kind = "attach" => Written(o, e).status = "active"
           /\ o.kind # "attach" /\ Written(o, e).status = "active" => e.status = "active"
<1>1. o.kind \in {"attach", "rebind", "end"} /\ Own(o.r) \subseteq Task
  BY DEF BindOps, Kinds, OpOwn, Own
<1>2. CASE o.kind = "attach"
  <2>1. Written(o, e) = [e EXCEPT !.status = "active", !.tasks = e.tasks \cup o.want]
    BY <1>2, Zenon DEF Written, B!Attached
  <2>2. e.tasks \cup o.want \in SUBSET Task
    BY <1>1 DEF OpOwn, B!Entry
  <2>3. Written(o, e) \in B!Entry
    BY <2>1, <2>2, Zenon DEF B!Entry
  <2> QED BY <1>2, <2>1, <2>3 DEF OwnEntry, OpOwn, B!Entry
<1>3. CASE o.kind = "rebind"
  <2> DEFINE tasks == (e.tasks \ o.gone) \cup o.want
             links == (e.links \ o.gone) \cup (o.want \ e.tasks)
             unlinks == (e.unlinks \ o.want) \cup (o.gone \cap e.tasks)
  <2>1. Written(o, e) = [e EXCEPT !.tasks = tasks, !.links = links, !.unlinks = unlinks]
    BY <1>3, Zenon DEF Written, B!Rebound
  <2>2. tasks \in SUBSET Own(o.r) /\ links \in SUBSET Own(o.r) /\ unlinks \in SUBSET Own(o.r)
    BY DEF OpOwn, OwnEntry
  <2> HIDE DEF tasks, links, unlinks
  <2>3. Written(o, e) \in B!Entry
    <3>1. tasks \in SUBSET Task /\ links \in SUBSET Task /\ unlinks \in SUBSET Task
      BY <1>1, <2>2
    <3> QED BY <2>1, <3>1, Zenon DEF B!Entry
  <2> QED BY <1>3, <2>1, <2>2, <2>3 DEF OwnEntry, B!Entry
<1>4. CASE o.kind = "end"
  <2>1. Written(o, e) = [e EXCEPT !.status = "ended", !.links = {}, !.unlinks = e.tasks]
    BY <1>4, Zenon DEF Written, B!Ended
  <2>2. {} \in SUBSET Task /\ e.tasks \in SUBSET Task
    BY DEF B!Entry
  <2>3. Written(o, e) \in B!Entry
    BY <2>1, <2>2, Zenon DEF B!Entry
  <2> QED BY <1>4, <2>1, <2>3 DEF OwnEntry, B!Entry
<1> QED BY <1>1, <1>2, <1>3, <1>4

LEMMA LinksOK ==
    ASSUME NEW o \in BindOps, OpOwn(o), NEW s \in Session
    PROVE  /\ B!LinksOf(o, o.copy[s]) \in SUBSET Own(o.r)
           /\ B!UnlinksOf(o, s) \in SUBSET (Session \X Task)
           /\ \A x \in B!UnlinksOf(o, s) : x[2] \in Own(o.r)
<1> DEFINE e == o.copy[s]
<1>1. o.kind \in {"attach", "rebind", "end"} /\ Own(o.r) \subseteq Task
  BY DEF BindOps, Kinds, OpOwn, Own
<1>2. \A u \in Session : o.copy[u] \in B!Entry /\ OwnEntry(o.r, o.copy[u])
  BY DEF BindOps, OpOwn
<1>3. CASE o.kind = "attach"
  <2>1. B!LinksOf(o, e) \in SUBSET Own(o.r)
    BY <1>2, <1>3 DEF B!LinksOf, OwnEntry, OpOwn
  <2>2. B!UnlinksOf(o, s) = {x \in Session \X Task : x[2] \in o.copy[x[1]].unlinks}
    BY <1>3 DEF B!UnlinksOf
  <2> QED BY <1>2, <2>1, <2>2 DEF OwnEntry
<1>4. CASE o.kind = "rebind"
  <2>1. B!Rebound(e, o.gone, o.want) \in B!Entry /\ OwnEntry(o.r, B!Rebound(e, o.gone, o.want))
    BY <1>2, <1>4, WrittenOK DEF Written
  <2>2. /\ B!LinksOf(o, e) = B!Rebound(e, o.gone, o.want).links
        /\ B!UnlinksOf(o, s) = {s} \X B!Rebound(e, o.gone, o.want).unlinks
    BY <1>4 DEF B!LinksOf, B!UnlinksOf
  <2> QED BY <1>1, <2>1, <2>2 DEF OwnEntry
<1>5. CASE o.kind = "end"
  BY <1>1, <1>2, <1>5 DEF B!LinksOf, B!UnlinksOf, OwnEntry
<1> QED BY <1>1, <1>3, <1>4, <1>5

LEMMA OneHolder ==
    ASSUME BindLocks, NEW s \in Session, NEW u \in Session,
           NEW k \in Requirement \cup {Workspace}, Takes(op[s], k), Takes(op[u], k)
    PROVE  s = u
  BY DEF BindLocks

\* Session s, which holds the lock it has read under, writes the file f: what the
\* invariant needs of the write.  It lets the lock go.
LEMMA WriteBack ==
    ASSUME BindInv, NEW s \in Session, op[s].pc \in {"write", "merge"},
           NEW f \in [Session -> B!Entry],
           \A u \in Session : OwnEntry(op[s].r, f[u]),
           \A u \in Session : f[u].status = "active" =>
               op[s].copy[u].status = "active" \/ (u = s /\ Attaching(op[s])),
           Attaching(op[s]) => \A u \in Session :
               op[s].copy[u].status = "active" \/ u = s => f[u].status = "active",
           file' = [file EXCEPT ![op[s].r] = f] \/ file' = file,
           NEW o \in BindOps, o.pc \in {"idle", "provider"}, o.pc # "idle" => OpOwn(o),
           op' = [op EXCEPT ![s] = o],
           NEW k \in Requirement \cup {Workspace}, Takes(op[s], k), B!Unlocked(k),
           UNCHANGED started, held' \in [Session -> SUBSET Task]
    PROVE  BindInv'
<1> DEFINE r == op[s].r
<1>1. BindShapes /\ OpOwn(op[s]) /\ r \in Requirement
  BY DEF BindInv, BindOwn, OpOwn
<1>2. op' \in [Session -> BindOps] /\ op'[s] = o /\ \A u \in Session \ {s} : op'[u] = op[u]
  BY <1>1 DEF BindShapes
<1>3. /\ file' \in [Requirement -> [Session -> B!Entry]]
      /\ file'[r] \in {f, file[r]} /\ \A q \in Requirement \ {r} : file'[q] = file[q]
  BY <1>1 DEF BindShapes
<1>4. /\ lock' \in [Requirement \cup {Workspace} -> Session \cup {Nobody}] /\ lock'[k] = Nobody
      /\ \A l \in (Requirement \cup {Workspace}) \ {k} : lock'[l] = lock[l]
  BY <1>1 DEF BindShapes, B!Unlocked
<1>5. BindShapes'
  BY <1>1, <1>2, <1>3, <1>4 DEF BindShapes
<1>6. BindOwn'
  BY <1>1, <1>2, <1>3 DEF BindInv, BindOwn
<1>7. BindLocks'
  <2>1. \A l \in Requirement \cup {Workspace} : ~Takes(o, l) /\ (Takes(op[s], l) => l = k)
    BY DEF Takes
  <2>2. \A u \in Session \ {s} : ~Takes(op[u], k)
    BY DEF BindInv, BindLocks
  <2> QED BY <1>2, <1>4, <2>1, <2>2, PlanApart DEF BindInv, BindLocks
<1>8. BindCopies'
  <2>1. ~Attaching(o) /\ ~Reading(o)
    BY DEF Attaching, Reading
  <2>2. ASSUME NEW u \in Session \ {s}, Reading(op[u]), NEW v \in Session,
               op[u].copy[v].status = "active"
        PROVE  B!Active(op[u].r, v)'
    <3>1. B!Active(op[u].r, v) /\ op[u].r \in Requirement
      BY <2>2 DEF BindInv, BindCopies, BindOwn, OpOwn, Reading
    <3>2. CASE op[u].r # r \/ file'[r] = file[r]
      BY <1>3, <3>1, <3>2 DEF B!Active
    <3>3. CASE op[u].r = r /\ file'[r] = f
      <4>1. Attaching(op[s])
        <5>1. Takes(op[u], r)
          BY <2>2, <3>3 DEF Reading, Takes, B!FirstLock
        <5>2. ~Takes(op[s], r)
          BY <1>1, <5>1, OneHolder DEF BindInv
        <5> QED BY <5>2 DEF Attaching, Takes, B!FirstLock
      <4>2. v = s \/ op[s].copy[v].status = "active"
        BY <3>1, <3>3, <4>1 DEF BindInv, BindCopies
      <4> QED BY <3>3, <4>1, <4>2 DEF B!Active
    <3> QED BY <1>3, <3>2, <3>3
  <2>3. ASSUME NEW u \in Session \ {s}, Attaching(op[u]), NEW v \in Session \ {u},
               B!Active(op[u].r, v)'
        PROVE  op[u].copy[v].status = "active"
    <3>1. op[u].r \in Requirement
      BY <2>3 DEF BindInv, BindOwn, OpOwn, Attaching
    <3>2. ~Attaching(op[s])
      <4>1. Takes(op[u], Workspace)
        BY <2>3 DEF Attaching, Takes, B!FirstLock
      <4>2. ~Takes(op[s], Workspace)
        BY <4>1, OneHolder DEF BindInv
      <4> QED BY <4>2 DEF Attaching, Takes, B!FirstLock
    <3>3. B!Active(op[u].r, v)
      <4>1. CASE op[u].r # r \/ file'[r] = file[r]
        BY <1>3, <2>3, <3>1, <4>1 DEF B!Active
      <4>2. CASE op[u].r = r /\ file'[r] = f
        <5>1. op[s].copy[v].status = "active"
          BY <2>3, <3>2, <4>2 DEF B!Active
        <5> QED BY <3>2, <4>2, <5>1 DEF BindInv, BindCopies, Reading, Attaching
      <4> QED BY <1>3, <4>1, <4>2
    <3> QED BY <2>3, <3>3 DEF BindInv, BindCopies
  <2> QED BY <1>2, <2>1, <2>2, <2>3 DEF BindCopies
<1>9. BindOne'
  <2>1. ASSUME NEW u \in Session, NEW q \in Requirement, WillBeActive(u, q)'
        PROVE  WillBeActive(u, q)
    <3>1. CASE B!Active(q, u)'
      <4>1. CASE q # r \/ file'[r] = file[r]
        BY <1>3, <3>1, <4>1 DEF WillBeActive, B!Active
      <4>2. CASE q = r /\ file'[r] = f
        <5>1. op[s].copy[u].status = "active" \/ (u = s /\ Attaching(op[s]))
          BY <3>1, <4>2 DEF B!Active
        <5>2. CASE Attaching(op[s])
          BY <4>2, <5>1, <5>2 DEF WillBeActive
        <5>3. CASE Reading(op[s])
          BY <4>2, <5>1, <5>3 DEF WillBeActive, BindInv, BindCopies, Attaching, Reading
        <5> QED BY <5>2, <5>3 DEF Attaching, Reading
      <4> QED BY <1>3, <4>1, <4>2
    <3>2. CASE ~B!Active(q, u)'
      BY <1>2, <2>1, <3>2 DEF WillBeActive, Attaching
    <3> QED BY <3>1, <3>2
  <2> QED BY <2>1 DEF BindInv, BindOne
<1> QED BY <1>5, <1>6, <1>7, <1>8, <1>9 DEF BindInv

LEMMA WriteStep ==
    ASSUME BindInv, NEW s \in Session, B!Write(s) PROVE BindInv'
<1> DEFINE o == op[s]
           e == o.copy[s]
           f == [o.copy EXCEPT ![s] = Written(o, e)]
           next == [o EXCEPT !.pc = "provider", !.copy = B!NoFile, !.links = B!LinksOf(o, e),
                             !.unlinks = B!UnlinksOf(o, s)]
<1>1. /\ o.pc = "write" /\ file' = [file EXCEPT ![o.r] = f]
      /\ B!Unlocked(B!FirstLock(o.kind, o.r)) /\ UNCHANGED started
  BY DEF B!Write, Written
<1>2. held' \in [Session -> SUBSET Task]
  <2>1. held \in [Session -> SUBSET Task] /\ o.want \in SUBSET Task /\ o.gone \in SUBSET Task
    BY DEF BindInv, BindShapes, BindOps
  <2>2. held' = [held EXCEPT ![s] = CASE o.kind = "attach" -> held[s] \cup o.want
                                      [] OTHER -> held[s] \ o.gone]
    BY DEF B!Write
  <2>3. CASE o.kind = "attach"
    BY <2>1, <2>2, <2>3
  <2>4. CASE o.kind # "attach"
    BY <2>1, <2>2, <2>4
  <2> QED BY <2>3, <2>4
<1>3. o \in BindOps /\ OpOwn(o) /\ e \in B!Entry /\ OwnEntry(o.r, e)
  BY <1>1 DEF BindInv, BindShapes, BindOps, BindOwn, OpOwn
<1>4. op' = [op EXCEPT ![s] = next]
  <2>1. op \in [Session -> BindOps]
    BY DEF BindInv, BindShapes
  <2>2. op' = [op EXCEPT ![s].pc = "provider", ![s].copy = B!NoFile,
                         ![s].links = B!LinksOf(o, e), ![s].unlinks = B!UnlinksOf(o, s)]
    BY DEF B!Write
  <2> QED BY <2>1, <2>2
<1>5. Own(o.r) \subseteq Task
  BY DEF Own
<1>6. next \in BindOps
  <2>1. /\ "provider" \in BindPlaces /\ B!NoFile \in [Session -> B!Entry]
        /\ B!LinksOf(o, e) \in SUBSET Task /\ B!UnlinksOf(o, s) \in SUBSET (Session \X Task)
    BY <1>3, <1>5, LinksOK, RestOK DEF BindPlaces
  <2> QED BY <1>3, <2>1, Zenon DEF BindOps
<1>7. /\ next.pc = "provider" /\ next.kind = o.kind /\ next.r = o.r /\ next.want = o.want
      /\ next.gone = o.gone /\ next.copy = B!NoFile /\ next.failedLinks = o.failedLinks
      /\ next.failedUnlinks = o.failedUnlinks /\ next.links = B!LinksOf(o, e)
      /\ next.unlinks = B!UnlinksOf(o, s)
  BY <1>3 DEF BindOps
<1> HIDE DEF next
<1>8. OpOwn(next)
  <2>1. /\ B!LinksOf(o, e) \subseteq Own(o.r)
        /\ \A x \in B!UnlinksOf(o, s) : x[2] \in Own(o.r)
    BY <1>3, LinksOK
  <2> QED BY <1>3, <1>7, <2>1, RestOK, NoEntryOK DEF OpOwn
<1>9. /\ f \in [Session -> B!Entry] /\ f[s] = Written(o, e)
      /\ \A u \in Session \ {s} : f[u] = o.copy[u]
  BY <1>3, WrittenOK DEF BindOps
<1>10. \A u \in Session : OwnEntry(o.r, f[u])
  BY <1>3, <1>9, WrittenOK DEF OpOwn
<1>11. \A u \in Session : f[u].status = "active" =>
          o.copy[u].status = "active" \/ (u = s /\ Attaching(o))
  BY <1>1, <1>3, <1>9, WrittenOK DEF Attaching
<1>12. Attaching(o) => \A u \in Session :
          o.copy[u].status = "active" \/ u = s => f[u].status = "active"
  BY <1>1, <1>3, <1>9, WrittenOK DEF Attaching
<1> DEFINE k == B!FirstLock(o.kind, o.r)
<1>13. k \in Requirement \cup {Workspace} /\ Takes(o, k)
  BY <1>1, <1>3 DEF B!FirstLock, Takes, OpOwn
<1> HIDE DEF f, o, k
<1> QED BY <1>1, <1>2, <1>4, <1>6, <1>7, <1>8, <1>9, <1>10, <1>11, <1>12, <1>13, WriteBack DEF o, k

LEMMA RereadStep ==
    ASSUME BindInv, NEW s \in Session, B!Reread(s) PROVE BindInv'
<1> DEFINE r == op[s].r
<1>1. BindShapes /\ op[s].pc = "provider" /\ OpOwn(op[s]) /\ op[s] \in BindOps
  BY DEF B!Reread, BindInv, BindShapes, BindOwn
<1>2. PICK links \in SUBSET op[s].links, unlinks \in SUBSET op[s].unlinks :
         op' = [op EXCEPT ![s].pc = "merge", ![s].copy = file[r],
                          ![s].failedLinks = links, ![s].failedUnlinks = unlinks]
  BY DEF B!Reread
<1> DEFINE o == [op[s] EXCEPT !.pc = "merge", !.copy = file[r], !.failedLinks = links,
                              !.failedUnlinks = unlinks]
<1>3. /\ lock[r] = Nobody /\ lock' = [lock EXCEPT ![r] = s] /\ UNCHANGED <<file, started, held>>
      /\ op' = [op EXCEPT ![s] = o]
  BY <1>1, <1>2 DEF B!Reread, B!Locked, BindShapes
<1>4. o \in BindOps
  <2>1. /\ "merge" \in BindPlaces /\ file[r] \in [Session -> B!Entry] /\ links \in SUBSET Task
        /\ unlinks \in SUBSET (Session \X Task)
    BY <1>1 DEF BindPlaces, BindShapes, OpOwn, BindOps
  <2> QED BY <1>1, <2>1, Zenon DEF BindOps
<1>5. /\ o.pc = "merge" /\ o.r = r /\ o.kind = op[s].kind /\ o.copy = file[r] /\ o.want = op[s].want
      /\ o.gone = op[s].gone /\ o.links = op[s].links /\ o.unlinks = op[s].unlinks
      /\ o.failedLinks = links /\ o.failedUnlinks = unlinks
  BY <1>1 DEF BindOps
<1> HIDE DEF o
<1>6. op' \in [Session -> BindOps] /\ op'[s] = o /\ \A u \in Session \ {s} : op'[u] = op[u]
  BY <1>1, <1>3, <1>4 DEF BindShapes
<1>7. /\ r \in Requirement /\ lock'[r] = s
      /\ \A l \in (Requirement \cup {Workspace}) \ {r} : lock'[l] = lock[l]
      /\ lock' \in [Requirement \cup {Workspace} -> Session \cup {Nobody}]
  BY <1>1, <1>3 DEF BindShapes, OpOwn
<1>8. BindShapes'
  BY <1>1, <1>3, <1>6, <1>7 DEF BindShapes
<1>9. BindOwn'
  <2>1. OpOwn(o)
    BY <1>1, <1>5 DEF OpOwn, BindInv, BindOwn
  <2> QED BY <1>3, <1>6, <2>1 DEF BindInv, BindOwn
<1>10. BindLocks'
  BY <1>1, <1>3, <1>5, <1>6, <1>7, PlanApart DEF BindInv, BindLocks, Takes
<1>11. BindCopies'
  BY <1>1, <1>3, <1>5, <1>6 DEF BindInv, BindCopies, Attaching, Reading, B!Active
<1>12. BindOne'
  BY <1>1, <1>3, <1>5, <1>6 DEF BindInv, BindOne, WillBeActive, Attaching, B!Active
<1> QED BY <1>8, <1>9, <1>10, <1>11, <1>12 DEF BindInv

LEMMA MergedOK ==
    ASSUME NEW o \in BindOps, OpOwn(o), NEW s \in Session, NEW u \in Session
    PROVE  /\ B!Merged(o, s)[u] \in B!Entry /\ OwnEntry(o.r, B!Merged(o, s)[u])
           /\ B!Merged(o, s)[u].status = o.copy[u].status
<1> DEFINE e == o.copy[u]
           links == IF u = s /\ o.kind # "end" /\ e.status = "active"
                    THEN B!Pending(e.links, o.links, o.failedLinks) ELSE e.links
           unlinks == {t \in Task : <<u, t>> \in B!Pending(B!Pairs(u, e.unlinks), o.unlinks,
                                                           o.failedUnlinks)}
<1>1. B!Merged(o, s)[u] = [e EXCEPT !.links = links, !.unlinks = unlinks]
  BY DEF B!Merged
<1>2. e \in B!Entry /\ OwnEntry(o.r, e) /\ Own(o.r) \subseteq Task
  BY DEF BindOps, OpOwn, Own
<1>3. links \in SUBSET Own(o.r)
  BY <1>2 DEF B!Pending, OwnEntry, OpOwn
<1>4. unlinks \in SUBSET Own(o.r)
  <2>1. ASSUME NEW t \in Task, <<u, t>> \in B!Pending(B!Pairs(u, e.unlinks), o.unlinks,
                                                      o.failedUnlinks)
        PROVE  t \in Own(o.r)
    <3>1. CASE <<u, t>> \in o.failedUnlinks
      BY <3>1 DEF OpOwn
    <3>2. CASE <<u, t>> \in B!Pairs(u, e.unlinks)
      BY <1>2, <3>2 DEF B!Pairs, OwnEntry
    <3> QED BY <2>1, <3>1, <3>2 DEF B!Pending
  <2> QED BY <2>1
<1> HIDE DEF links, unlinks
<1>5. links \in SUBSET Task /\ unlinks \in SUBSET Task
  BY <1>2, <1>3, <1>4
<1>6. [e EXCEPT !.links = links, !.unlinks = unlinks] \in B!Entry
  BY <1>2, <1>5, Zenon DEF B!Entry
<1> QED BY <1>1, <1>2, <1>3, <1>4, <1>6 DEF B!Entry, OwnEntry

LEMMA MergeStep ==
    ASSUME BindInv, NEW s \in Session, B!Merge(s) PROVE BindInv'
<1> DEFINE o == op[s]
           f == B!Merged(o, s)
<1>1. /\ o.pc = "merge" /\ B!Unlocked(o.r) /\ op' = [op EXCEPT ![s] = B!Rest]
      /\ UNCHANGED <<started, held>>
      /\ file' = [file EXCEPT ![o.r] = f] \/ file' = file
  BY DEF B!Merge
<1>2. o \in BindOps /\ OpOwn(o) /\ held \in [Session -> SUBSET Task]
  BY <1>1 DEF BindInv, BindShapes, BindOwn
<1>3. f \in [Session -> B!Entry]
  <2>1. f = [u \in Session |-> f[u]]
    BY DEF B!Merged
  <2>2. \A u \in Session : f[u] \in B!Entry
    BY <1>2, MergedOK
  <2> HIDE DEF f
  <2> QED BY <2>1, <2>2
<1>4. \A u \in Session : OwnEntry(o.r, f[u]) /\ f[u].status = o.copy[u].status
  BY <1>2, MergedOK
<1>5. o.r \in Requirement \cup {Workspace} /\ Takes(o, o.r) /\ ~Attaching(o)
  BY <1>1, <1>2 DEF OpOwn, Takes, Attaching
<1> HIDE DEF f
<1> DEFINE k == o.r
           rest == B!Rest
<1>6. k \in Requirement \cup {Workspace} /\ Takes(op[s], k) /\ B!Unlocked(k)
  BY <1>1, <1>5
<1>7. rest \in BindOps /\ rest.pc = "idle"
  BY RestOK
<1>8. held' \in [Session -> SUBSET Task] /\ UNCHANGED started
  BY <1>1, <1>2
<1> HIDE DEF k, rest
<1> QED BY <1>1, <1>3, <1>4, <1>5, <1>6, <1>7, <1>8, WriteBack DEF rest

LEMMA KillStep ==
    ASSUME BindInv, NEW s \in Session, B!Kill(s) PROVE BindInv'
<1>1. /\ op' = [op EXCEPT ![s] = B!Rest]
      /\ lock' = [k \in DOMAIN lock |-> IF lock[k] = s THEN Nobody ELSE lock[k]]
      /\ UNCHANGED <<file, started, held>>
  BY DEF B!Kill
<1>2. BindShapes /\ DOMAIN lock = Requirement \cup {Workspace}
  BY DEF BindInv, BindShapes
<1>3. op' \in [Session -> BindOps] /\ op'[s] = B!Rest /\ \A u \in Session \ {s} : op'[u] = op[u]
  BY <1>1, <1>2, RestOK DEF BindShapes
<1>4. /\ lock' \in [Requirement \cup {Workspace} -> Session \cup {Nobody}]
      /\ \A k \in Requirement \cup {Workspace} : \A u \in Session :
            lock'[k] = u <=> lock[k] = u /\ u # s
  BY <1>1, <1>2, PlanApart DEF BindShapes
<1>5. BindShapes'
  BY <1>1, <1>2, <1>3, <1>4 DEF BindShapes
<1>6. BindOwn'
  BY <1>1, <1>3, RestOK DEF BindInv, BindOwn
<1>7. BindLocks'
  BY <1>3, <1>4, RestOK DEF BindInv, BindLocks, Takes
<1>8. BindCopies'
  BY <1>1, <1>3, RestOK DEF BindInv, BindCopies, Attaching, Reading, B!Active
<1>9. BindOne'
  BY <1>1, <1>3, RestOK DEF BindInv, BindOne, WillBeActive, Attaching, B!Active
<1> QED BY <1>5, <1>6, <1>7, <1>8, <1>9 DEF BindInv

\* A step of the bindings keeps the invariant.
LEMMA BindingsStep ==
    ASSUME BindInv, B!BindingsNext PROVE BindInv'
<1>1. PICK s \in Session :
         \/ \E r \in Requirement :
               \/ \E want \in SUBSET Own(r) : B!Attach(s, r, want)
               \/ \E from, to \in Own(r) : from # to /\ B!Rebind(s, r, from, to)
               \/ B!End(s, r)
         \/ B!Write(s) \/ B!Reread(s) \/ B!Merge(s) \/ B!Kill(s)
  BY DEF B!BindingsNext, Own
<1>2. ASSUME NEW r \in Requirement, NEW want \in SUBSET Own(r), B!Attach(s, r, want)
      PROVE  BindInv'
  BY <1>2, EnterStep DEF B!Attach
<1>3. ASSUME NEW r \in Requirement, NEW from \in Own(r), NEW to \in Own(r), B!Rebind(s, r, from, to)
      PROVE  BindInv'
  <2>1. {to} \in SUBSET Own(r) /\ {from} \in SUBSET Own(r) /\ B!Enter(s, "rebind", r, {to}, {from})
    BY <1>3 DEF B!Rebind
  <2> QED BY <2>1, EnterStep
<1>4. ASSUME NEW r \in Requirement, B!End(s, r) PROVE BindInv'
  <2> DEFINE tasks == file[r][s].tasks
  <2>1. {} \in SUBSET Own(r) /\ tasks \in SUBSET Own(r) /\ B!Enter(s, "end", r, {}, tasks)
    BY <1>4 DEF B!End, BindInv, BindOwn, OwnEntry
  <2> HIDE DEF tasks
  <2> QED BY <2>1, EnterStep
<1> QED BY <1>1, <1>2, <1>3, <1>4, WriteStep, RereadStep, MergeStep, KillStep

LEMMA BindingsTyped == ASSUME BindInv PROVE B!BindingsTypeOK
<1>1. BindShapes /\ BindOwn /\ BindLocks /\ DOMAIN lock = Requirement \cup {Workspace}
  BY DEF BindInv, BindShapes
<1>2. \A s \in Session : op[s].pc \in BindPlaces
  BY <1>1 DEF BindShapes, BindOps
<1>3. ASSUME NEW s \in Session
      PROVE  op[s].pc \in {"write", "merge"} <=> \E k \in DOMAIN lock : lock[k] = s
  <2>1. op[s].pc # "idle" => op[s].r \in Requirement
    BY <1>1 DEF BindOwn, OpOwn
  <2>2. op[s].pc \in {"write", "merge"} <=> \E k \in Requirement \cup {Workspace} : Takes(op[s], k)
    BY <2>1 DEF Takes, B!FirstLock
  <2> QED BY <1>1, <2>2 DEF BindLocks
<1> QED BY <1>1, <1>2, <1>3 DEF B!BindingsTypeOK, BindShapes, BindPlaces, BindOwn, OwnEntry, Own

LEMMA AtMostOne ==
    ASSUME NEW S, \A x, y \in S : x = y PROVE IsFiniteSet(S) /\ Cardinality(S) <= 1
<1>1. CASE S = {}
  BY <1>1, FS_EmptySet
<1>2. CASE S # {}
  <2>1. PICK x : S = {x}
    BY <1>2
  <2>2. IsFiniteSet({x}) /\ Cardinality({x}) = 1
    BY FS_Singleton
  <2> QED BY <2>1, <2>2
<1> QED BY <1>1, <1>2

LEMMA BindingsOne == ASSUME BindInv PROVE B!OneRequirement
<1>1. ASSUME NEW s \in Session
      PROVE  B!Cardinality({r \in Requirement : B!Active(r, s)}) <= 1
  <2> DEFINE R == {r \in Requirement : B!Active(r, s)}
  <2>1. \A r, q \in R : r = q
    BY DEF BindInv, BindOne, WillBeActive
  <2>2. Cardinality(R) <= 1
    <3> HIDE DEF R
    <3> QED BY <2>1, AtMostOne
  <2>3. B!Cardinality(R) = Cardinality(R)
    BY DEF B!Cardinality, Cardinality
  <2> QED BY <2>2, <2>3
<1> QED BY <1>1 DEF B!OneRequirement

LEMMA BindingsRest ==
    ASSUME BindInv, UNCHANGED bindingsVars PROVE BindInv'
<1>1. UNCHANGED <<file, lock, op, started, held>>
  BY DEF bindingsVars
<1>2. BindShapes'
  BY <1>1 DEF BindInv, BindShapes
<1>3. BindOwn'
  BY <1>1 DEF BindInv, BindOwn, OwnEntry, Own, OpOwn
<1>4. BindLocks'
  BY <1>1 DEF BindInv, BindLocks, Takes, B!FirstLock
<1>5. BindCopies'
  BY <1>1 DEF BindInv, BindCopies, Reading, Attaching, B!Active
<1>6. BindOne'
  BY <1>1 DEF BindInv, BindOne, WillBeActive, Attaching, B!Active
<1> QED BY <1>2, <1>3, <1>4, <1>5, <1>6 DEF BindInv
-----------------------------------------------------------------------------
(* The pump of the projection (ProjectionPump).                             *)

PumpShapes ==
    /\ latest \in U!Snapshots /\ submitted \in U!Snapshots /\ synced \in U!Snapshots
    /\ tried \in U!Snapshots /\ accepting \in BOOLEAN /\ late \in BOOLEAN
    /\ thread \in {"waiting", "syncing", "ended"} /\ answer \in {"none", "synced", "not synced"}

\* What is confirmed was tried, what is tried was submitted.
PumpOrder ==
    /\ latest \in {0, submitted} /\ synced <= tried /\ tried <= submitted
    /\ thread = "syncing" => tried # synced
    /\ submitted # synced => submitted \in {latest, tried}

\* After close the last snapshot waits, or has been tried once more.
PumpEnds ==
    /\ thread = "ended" => latest = 0 /\ ~accepting
    /\ ~accepting /\ submitted # synced => submitted = latest \/ (submitted = tried /\ late)
    /\ answer = "synced" => thread = "ended" /\ submitted = synced

PumpInv == PumpShapes /\ PumpOrder /\ PumpEnds

LEMMA PumpSet == 0 \in U!Snapshots /\ \A n \in U!Snapshots : n \in Nat
<1>1. MaxSnapshot \in Nat
  BY PlanBounds
<1> QED BY <1>1 DEF U!Snapshots

LEMMA PumpNumbers ==
    ASSUME PumpInv
    PROVE  /\ submitted \in Nat /\ tried \in Nat /\ synced \in Nat /\ latest \in Nat
           /\ submitted = 0 => synced = 0 /\ tried = 0
           /\ 0 \in U!Snapshots
<1>1. submitted \in Nat /\ tried \in Nat /\ synced \in Nat /\ latest \in Nat
  BY PumpSet, Zenon DEF PumpInv, PumpShapes
<1>2. synced <= tried /\ tried <= submitted
  BY DEF PumpInv, PumpOrder
<1> QED BY <1>1, <1>2, PumpSet

LEMMA PumpStart == ASSUME U!PumpInit PROVE PumpInv
<1>1. PumpShapes
  BY PumpSet DEF U!PumpInit, PumpShapes
<1>2. PumpOrder /\ PumpEnds
  BY DEF U!PumpInit, PumpOrder, PumpEnds
<1> QED BY <1>1, <1>2 DEF PumpInv

LEMMA PumpStep == ASSUME PumpInv, U!PumpNext PROVE PumpInv'
<1>1. \A n \in U!Snapshots : n \in Nat
  BY PumpSet
<1> USE PumpNumbers DEF PumpInv
<1>2. ASSUME NEW n \in U!Snapshots, U!Submit(n) PROVE PumpInv'
  <2>1. n = synced => submitted = synced /\ tried = synced
    BY <1>1, <1>2 DEF PumpOrder, U!Submit
  <2>2. answer # "synced" /\ accepting /\ UNCHANGED <<answer, accepting, thread>>
    BY <1>2 DEF PumpEnds, U!Submit
  <2>3. PumpShapes'
    BY <1>2 DEF PumpShapes, U!Submit
  <2>4. PumpOrder'
    BY <1>1, <1>2, <2>1 DEF PumpOrder, U!Submit, U!Wanted
  <2>5. PumpEnds'
    BY <2>2 DEF PumpEnds
  <2> QED BY <2>3, <2>4, <2>5
<1>3. CASE U!Take
  <2>1. PumpShapes'
    <3>1. latest' \in U!Snapshots /\ tried' \in U!Snapshots /\ thread' \in {"waiting", "syncing"}
      BY <1>3 DEF PumpShapes, U!Take
    <3>2. late' \in BOOLEAN /\ UNCHANGED <<submitted, synced, accepting, answer>>
      BY <1>3 DEF PumpShapes, U!Take
    <3> QED BY <3>1, <3>2 DEF PumpShapes
  <2>2. PumpOrder'
    BY <1>3 DEF PumpOrder, U!Take
  <2>3. PumpEnds'
    BY <1>3 DEF PumpOrder, PumpEnds, U!Take
  <2> QED BY <2>1, <2>2, <2>3
<1>4. CASE U!Synced
  <2>1. PumpShapes'
    BY <1>4 DEF PumpShapes, U!Synced
  <2>2. PumpOrder'
    BY <1>4 DEF PumpOrder, U!Synced
  <2>3. submitted # synced' => submitted # synced
    BY <1>4 DEF PumpOrder, U!Synced
  <2>4. PumpEnds'
    BY <1>4, <2>3, Zenon DEF PumpEnds, U!Synced
  <2> QED BY <2>1, <2>2, <2>4
<1>5. CASE U!Leave
  <2>1. PumpShapes' /\ PumpOrder'
    BY <1>5 DEF PumpShapes, PumpOrder, U!Leave
  <2>2. PumpEnds'
    BY <1>5 DEF PumpEnds, U!Leave
  <2> QED BY <2>1, <2>2
<1>6. CASE U!Close
  <2>1. latest' \in {0, submitted} /\ (submitted # synced => latest' = submitted)
    BY <1>6 DEF PumpOrder, U!Close, U!Requeued
  <2>2. PumpShapes'
    <3>1. latest' \in U!Snapshots
      BY <2>1 DEF PumpShapes
    <3>2. accepting' \in BOOLEAN /\ UNCHANGED <<submitted, synced, thread, tried, late, answer>>
      BY <1>6 DEF U!Close
    <3> QED BY <3>1, <3>2 DEF PumpShapes
  <2>3. PumpOrder'
    BY <1>6, <2>1 DEF PumpOrder, U!Close
  <2>4. PumpEnds'
    BY <1>6, <2>1 DEF PumpEnds, U!Close
  <2> QED BY <2>2, <2>3, <2>4
<1>7. CASE U!Answer
  <2>1. answer' \in {"synced", "not synced"}
        /\ (answer' = "synced" => thread = "ended" /\ submitted \in {0, synced})
    BY <1>7 DEF U!Answer
  <2>2. PumpShapes' /\ PumpOrder'
    BY <1>7, <2>1 DEF PumpShapes, PumpOrder, U!Answer
  <2>3. PumpEnds'
    BY <1>7, <2>1 DEF PumpEnds, U!Answer
  <2> QED BY <2>2, <2>3
<1> QED BY <1>2, <1>3, <1>4, <1>5, <1>6, <1>7 DEF U!PumpNext

LEMMA PumpRest == ASSUME PumpInv, UNCHANGED pumpVars PROVE PumpInv'
  BY DEF PumpInv, PumpShapes, PumpOrder, PumpEnds, pumpVars

LEMMA PumpSays == ASSUME PumpInv PROVE U!PumpTypeOK /\ U!LastTried
<1>1. {latest, submitted, synced, tried} \subseteq U!Snapshots /\ latest \in {0, submitted}
  BY DEF PumpInv, PumpShapes, PumpOrder
<1>2. {accepting, late} \subseteq BOOLEAN
  BY Zenon DEF PumpInv, PumpShapes
<1>3. U!LastTried
  <2>1. submitted # synced => submitted # 0
    BY PumpNumbers
  <2>2. thread = "ended" /\ submitted # synced => tried = submitted /\ late
    BY <2>1, Zenon DEF PumpInv, PumpEnds
  <2>3. answer = "synced" => submitted = synced
    BY DEF PumpInv, PumpEnds
  <2>4. submitted # synced => submitted \in {latest, tried}
    BY DEF PumpInv, PumpOrder
  <2> QED BY <2>2, <2>3, <2>4 DEF U!LastTried
<1> QED BY <1>1, <1>2, <1>3 DEF PumpInv, PumpShapes, U!PumpTypeOK
-----------------------------------------------------------------------------
(* The projection of a node on its card (Projection).                       *)

NodeEntries == [state : L!States, pending : L!Intents \cup {Nobody}, ack : L!Acks \cup {Nobody},
            desired : L!Statuses]
Ledgers == [source : {0} \cup Snapshot, state : L!States,
            pending : L!Intents \cup {Nobody}, ack : L!Acks \cup {Nobody}]
SyncPlaces == {"idle", "prepare", "read", "judge", "cas", "done", "recover", "finish"}
NodeSyncs == [pc : SyncPlaces, snap : {0} \cup Snapshot, entry : NodeEntries \cup {Nobody},
              current : L!Cards \cup {Nobody}]

\* What a sync knows where it is.
Placed(k) ==
    /\ k.pc \in {"prepare", "read", "judge", "cas", "done", "recover"} => k.snap \in Snapshot
    /\ k.pc \in {"read", "judge", "cas", "done", "recover"} => k.entry \in NodeEntries
    /\ k.pc \in {"judge", "cas", "done", "recover"} => k.current \in L!Cards
    /\ k.pc \in {"cas", "done", "recover"} => k.current.status \in L!Statuses
    /\ k.pc = "done" => k.current.status = k.entry.desired

ProjectionShapes ==
    /\ card \in L!Cards /\ touched \in BOOLEAN /\ inflight \in SUBSET L!Intents /\ ledger \in Ledgers
    /\ keeper \in Process \cup {Nobody} /\ sync \in [Process -> NodeSyncs]
    /\ \A p \in Process : Placed(sync[p])

\* What an entry says of the card: an intent or an acknowledgement of its present
\* version means that no user has written; without either it is final when one has.
Honest(e) ==
    /\ e.state \in {"acked", "converged_unowned"} => e.ack # Nobody /\ e.pending = Nobody
    /\ e.state = "conflict" => e.pending = Nobody
    /\ e.ack # Nobody =>
          /\ e.ack.version <= card.version
          /\ e.ack.version = card.version => e.ack.status = card.status /\ (e.ack.owned => ~touched)
    /\ e.pending # Nobody => e.pending.version <= card.version /\ (e.pending.version = card.version => ~touched)
    /\ touched /\ e.pending = Nobody /\ e.ack = Nobody => e.state = "conflict"

\* A request that may still be executed is for the card as it is, and ours.
Underway == \A i \in inflight : i.version = card.version /\ i.status = card.status /\ ~touched

\* A card that was read is the present one if the version is; one that is to be written was not
\* touched; who has the lease knows the ledger.
Informed(p) ==
    LET k == sync[p]
    IN  /\ k.pc \in {"judge", "cas", "done", "recover"} =>
              k.current.version <= card.version /\ (k.current.version = card.version => k.current = card)
        /\ k.pc \in {"cas", "done"} => (k.current.version = card.version => ~touched)
        /\ keeper = p /\ k.pc \in {"read", "judge"} =>
              k.entry.state = ledger.state /\ k.entry.pending = ledger.pending /\ k.entry.ack = ledger.ack
        /\ keeper = p /\ k.pc = "judge" => ledger.state # "conflict"
        /\ keeper = p /\ k.pc \in {"cas", "done", "recover"} =>
              k.entry.ack = ledger.ack /\ ledger.pending # Nobody

ProjectionInv ==
    /\ ProjectionShapes /\ Honest(ledger) /\ Underway
    /\ \A p \in Process : Informed(p)

LEMMA ProjectionFields ==
    ASSUME ProjectionInv
    PROVE  /\ card \in L!Cards /\ card.version \in 0 .. MaxVersion /\ card.version \in Nat
           /\ ledger \in Ledgers /\ sync \in [Process -> NodeSyncs]
           /\ \A p \in Process : sync[p] \in NodeSyncs /\ Placed(sync[p]) /\ Informed(p)
           /\ inflight \in SUBSET L!Intents /\ touched \in BOOLEAN /\ MaxVersion \in Nat
<1>1. MaxVersion \in Nat
  BY Bounds
<1>2. card \in L!Cards /\ card.version \in 0 .. MaxVersion
  BY DEF ProjectionInv, ProjectionShapes, L!Cards
<1> QED BY <1>1, <1>2 DEF ProjectionInv, ProjectionShapes

LEMMA NodeAway ==
    /\ L!Away \in NodeSyncs /\ L!Away.pc = "idle"
    /\ LET k == [L!Away EXCEPT !.pc = "finish"] IN k \in NodeSyncs /\ k.pc = "finish"
  BY DEF L!Away, NodeSyncs, SyncPlaces

LEMMA ProjectionStart == ASSUME L!ProjectionInit PROVE ProjectionInv
<1>1. MaxVersion \in Nat
  BY Bounds
<1>2. card \in L!Cards /\ touched = FALSE /\ inflight = {} /\ keeper = Nobody
  BY <1>1 DEF L!ProjectionInit, L!Cards, L!Statuses
<1>3. ledger \in Ledgers /\ ledger.pending = Nobody /\ ledger.ack = Nobody /\ ledger.state = "pending"
  BY DEF L!ProjectionInit, Ledgers, L!States
<1>4. \A p \in Process : sync[p] = L!Away
  BY DEF L!ProjectionInit
<1>5. sync \in [Process -> NodeSyncs]
  BY NodeAway DEF L!ProjectionInit
<1>6. ProjectionShapes
  BY <1>2, <1>3, <1>4, <1>5, NodeAway DEF ProjectionShapes, Placed
<1>7. Honest(ledger) /\ Underway
  BY <1>2, <1>3 DEF Honest, Underway
<1>8. \A p \in Process : Informed(p)
  BY <1>4, NodeAway DEF Informed
<1> QED BY <1>6, <1>7, <1>8 DEF ProjectionInv

LEMMA NodePlace ==
    ASSUME ProjectionInv, NEW p \in Process, NEW k \in NodeSyncs, Placed(k),
           sync' = [sync EXCEPT ![p] = k]
    PROVE  /\ sync' \in [Process -> NodeSyncs] /\ sync'[p] = k
           /\ \A q \in Process : q # p => sync'[q] = sync[q]
           /\ \A q \in Process : Placed(sync'[q])
  BY ProjectionFields

\* A step that leaves the card and the ledger alone; the lease may be given or lost.
LEMMA ProjectionMoves ==
    ASSUME ProjectionInv, NEW p \in Process, NEW k \in NodeSyncs, Placed(k),
           sync' = [sync EXCEPT ![p] = k] \/ UNCHANGED sync,
           UNCHANGED <<card, touched, inflight>>, ledger' \in Ledgers,
           ledger'.state = ledger.state, ledger'.pending = ledger.pending, ledger'.ack = ledger.ack,
           keeper' \in {keeper, p, Nobody}, k.pc \in {"idle", "prepare", "finish"},
           keeper' = p /\ keeper # p => sync' = [sync EXCEPT ![p] = k]
    PROVE  ProjectionInv'
<1>1. Honest(ledger)' /\ Underway'
  BY DEF ProjectionInv, Honest, Underway
<1>2. sync' \in [Process -> NodeSyncs] /\ \A q \in Process : Placed(sync'[q])
  BY NodePlace, ProjectionFields
<1>3. ProjectionShapes'
  BY <1>2 DEF ProjectionInv, ProjectionShapes
<1>4. ASSUME NEW q \in Process PROVE Informed(q)'
  <2>1. CASE sync'[q].pc \in {"idle", "prepare", "finish"}
    BY <2>1 DEF Informed
  <2>2. CASE sync'[q].pc \notin {"idle", "prepare", "finish"}
    <3>1. sync'[q] = sync[q] /\ (keeper' = q => keeper = q)
      BY <2>2, NodePlace, PlanApart
    <3> QED BY <3>1, ProjectionFields DEF Informed
  <2> QED BY <2>1, <2>2
<1> QED BY <1>1, <1>3, <1>4 DEF ProjectionInv

\* A write gives the card a version that nobody has read.
LEMMA ProjectionWrites ==
    ASSUME ProjectionInv, NEW who \in {"us", "user"}, NEW status \in L!Statuses \cup {"done"},
           L!Write(who, status), UNCHANGED <<ledger, keeper>>,
           touched' \in {touched, touched \/ L!Begun}
    PROVE  /\ card' \in L!Cards /\ card'.version = card.version + 1
           /\ card'.status = status /\ card'.by = who
           /\ Honest(ledger)' /\ Underway' /\ touched' \in BOOLEAN /\ inflight' = {}
           /\ \A p \in Process : sync'[p] = sync[p] => Informed(p)'
<1>1. /\ card' = [version |-> card.version + 1, status |-> status, by |-> who] /\ inflight' = {}
      /\ card.version < MaxVersion
  BY DEF L!Write
<1>2. /\ card' \in L!Cards /\ card'.version = card.version + 1
      /\ card'.status = status /\ card'.by = who
  BY <1>1, ProjectionFields DEF L!Cards
<1>3. touched' \in BOOLEAN /\ (touched' /\ ledger.pending = Nobody /\ ledger.ack = Nobody => touched)
  BY ProjectionFields DEF L!Begun
<1>4. ledger.ack # Nobody => ledger.ack.version \in Nat /\ ledger.ack.version <= card.version
  BY ProjectionFields DEF ProjectionInv, Honest, Ledgers, L!Acks
<1>5. ledger.pending # Nobody => ledger.pending.version \in Nat /\ ledger.pending.version <= card.version
  BY ProjectionFields DEF ProjectionInv, Honest, Ledgers, L!Intents
<1>6. Honest(ledger)'
  <2>1. ledger.ack # Nobody => ledger.ack.version <= card'.version /\ ledger.ack.version # card'.version
    BY <1>2, <1>4, ProjectionFields
  <2>2. ledger.pending # Nobody => ledger.pending.version <= card'.version /\ ledger.pending.version # card'.version
    BY <1>2, <1>5, ProjectionFields
  <2> QED BY <1>3, <2>1, <2>2 DEF ProjectionInv, Honest
<1>7. ASSUME NEW p \in Process, sync'[p] = sync[p] PROVE Informed(p)'
  <2>1. sync[p].pc \in {"judge", "cas", "done", "recover"} =>
           sync[p].current.version \in Nat /\ sync[p].current.version <= card.version
    BY ProjectionFields DEF Placed, Informed, L!Cards
  <2>2. sync[p].pc \in {"judge", "cas", "done", "recover"} =>
           sync[p].current.version <= card'.version /\ sync[p].current.version # card'.version
    BY <1>2, <2>1, ProjectionFields
  <2> QED BY <1>7, <2>2, ProjectionFields DEF Informed
<1> QED BY <1>1, <1>2, <1>3, <1>6, <1>7 DEF Underway

LEMMA ProjectionUser ==
    ASSUME ProjectionInv, L!UserWrites \/ \E i \in inflight : L!Late(i) PROVE ProjectionInv'
<1>1. /\ UNCHANGED <<ledger, keeper, sync>> /\ touched' \in {touched, touched \/ L!Begun}
      /\ \E who \in {"us", "user"}, status \in L!Statuses \cup {"done"} : L!Write(who, status)
  <2>1. CASE L!UserWrites
    BY <2>1 DEF L!UserWrites
  <2>2. ASSUME NEW i \in inflight, L!Late(i)
        PROVE  UNCHANGED <<ledger, keeper, sync>> /\ touched' = touched /\ L!Write("us", i.target)
               /\ i.target \in L!Statuses
    BY <2>2, ProjectionFields DEF L!Late, L!Intents
  <2> QED BY <2>1, <2>2
<1>2. /\ card' \in L!Cards /\ Honest(ledger)' /\ Underway' /\ touched' \in BOOLEAN /\ inflight' = {}
      /\ \A p \in Process : Informed(p)'
  BY <1>1, ProjectionWrites
<1> QED BY <1>1, <1>2 DEF ProjectionInv, ProjectionShapes

LEMMA ProjectionLeaves ==
    ASSUME ProjectionInv, NEW p \in Process, L!Leave(p),
           UNCHANGED <<card, touched, inflight, ledger, keeper>>
    PROVE  ProjectionInv'
<1> DEFINE k == [L!Away EXCEPT !.pc = "finish"]
<1>1. k \in NodeSyncs /\ k.pc = "finish" /\ sync' = [sync EXCEPT ![p] = k]
  BY NodeAway DEF L!Leave
<1> HIDE DEF k
<1>2. Placed(k)
  BY <1>1 DEF Placed
<1> QED BY <1>1, <1>2, ProjectionFields, ProjectionMoves

LEMMA ProjectionAround ==
    ASSUME ProjectionInv, NEW p \in Process,
           \/ \E n \in Snapshot : L!Begin(p, n)
           \/ L!Finish(p) \/ L!Crash(p) \/ L!Expire
    PROVE  ProjectionInv'
<1>1. UNCHANGED <<card, touched, inflight, ledger>>
  BY DEF L!Begin, L!Finish, L!Crash, L!Expire, L!provider
<1>2. Placed(L!Away)
  BY NodeAway DEF Placed
<1>3. ASSUME NEW n \in Snapshot, L!Begin(p, n) PROVE ProjectionInv'
  <2> DEFINE k == [L!Away EXCEPT !.pc = "prepare", !.snap = n]
  <2>1. k \in NodeSyncs /\ k.pc = "prepare" /\ k.snap = n
    BY DEF L!Away, NodeSyncs, SyncPlaces
  <2>2. sync' = [sync EXCEPT ![p] = k] /\ keeper' = p
    BY <1>3 DEF L!Begin
  <2> HIDE DEF k
  <2>3. Placed(k)
    BY <2>1 DEF Placed
  <2> QED BY <1>1, <2>1, <2>2, <2>3, ProjectionFields, ProjectionMoves
<1>4. CASE L!Finish(p) \/ L!Crash(p)
  <2>1. sync' = [sync EXCEPT ![p] = L!Away] /\ keeper' \in {keeper, Nobody}
    BY <1>4 DEF L!Finish, L!Crash
  <2>2. p # Nobody
    BY PlanApart
  <2> QED BY <1>1, <1>2, <2>1, <2>2, NodeAway, ProjectionFields, ProjectionMoves
<1>5. CASE L!Expire
  <2>1. UNCHANGED sync /\ keeper' = Nobody /\ p # Nobody
    BY <1>5, PlanApart DEF L!Expire
  <2> QED BY <1>1, <1>2, <2>1, NodeAway, ProjectionFields, ProjectionMoves
<1> QED BY <1>3, <1>4, <1>5

LEMMA ProjectionPrepare ==
    ASSUME ProjectionInv, NEW p \in Process, L!Prepare(p) PROVE ProjectionInv'
<1>1. UNCHANGED <<card, touched, inflight, keeper>> /\ sync[p].pc = "prepare"
  BY DEF L!Prepare, L!provider
<1>2. CASE L!Leave(p) /\ UNCHANGED ledger
  BY <1>1, <1>2, ProjectionLeaves
<1>3. ASSUME ledger' = [ledger EXCEPT !.source = sync[p].snap],
             sync' = [sync EXCEPT ![p].pc = "read", ![p].entry = L!Entry(sync[p].snap)]
      PROVE  ProjectionInv'
  <2> DEFINE e == L!Entry(sync[p].snap)
             k == [sync[p] EXCEPT !.pc = "read", !.entry = e]
  <2>1. sync[p] \in NodeSyncs /\ sync[p].snap \in Snapshot
    BY <1>1, ProjectionFields DEF Placed
  <2>2. e.state = ledger.state /\ e.pending = ledger.pending /\ e.ack = ledger.ack /\ e \in NodeEntries
    BY <2>1, Plan, ProjectionFields DEF L!Entry, Ledgers, NodeEntries
  <2> HIDE DEF e
  <2>3. k \in NodeSyncs /\ k.pc = "read" /\ k.entry = e /\ k.snap = sync[p].snap
    BY <2>1, <2>2 DEF NodeSyncs, SyncPlaces
  <2>4. sync' = [sync EXCEPT ![p] = k]
    BY <1>3, ProjectionFields DEF e
  <2> HIDE DEF k
  <2>5. Placed(k)
    BY <2>1, <2>2, <2>3 DEF Placed
  <2>6. /\ ledger' \in Ledgers /\ ledger'.state = ledger.state /\ ledger'.pending = ledger.pending
        /\ ledger'.ack = ledger.ack
    BY <1>3, <2>1, ProjectionFields DEF Ledgers
  <2>7. ProjectionShapes'
    BY <1>1, <2>3, <2>4, <2>5, <2>6, NodePlace DEF ProjectionInv, ProjectionShapes
  <2>8. Honest(ledger)' /\ Underway'
    BY <1>1, <2>6 DEF ProjectionInv, Honest, Underway
  <2>9. ASSUME NEW q \in Process PROVE Informed(q)'
    <3>1. CASE q = p
      BY <2>2, <2>3, <2>4, <2>5, <2>6, <3>1, NodePlace DEF Informed
    <3>2. CASE q # p
      <4>1. sync'[q] = sync[q]
        BY <2>3, <2>4, <2>5, <3>2, NodePlace
      <4> QED BY <1>1, <2>6, <4>1, ProjectionFields DEF Informed
    <3> QED BY <3>1, <3>2
  <2> QED BY <2>7, <2>8, <2>9 DEF ProjectionInv
<1> QED BY <1>2, <1>3 DEF L!Prepare

\* What is stored is honest, and known to who goes on.
LEMMA ProjectionStores ==
    ASSUME ProjectionInv, NEW p \in Process, NEW e, NEW pc \in {"cas", "finish"}, L!Store(p, e, pc),
           UNCHANGED <<card, touched, inflight, keeper>>,
           keeper = p => e \in NodeEntries /\ Honest(e),
           keeper = p /\ pc = "cas" =>
              /\ sync[p].pc = "judge" /\ sync[p].current.status \in L!Statuses
              /\ e.pending # Nobody /\ e.ack = ledger.ack
              /\ sync[p].current.version = card.version => ~touched
    PROVE  ProjectionInv'
<1>1. CASE L!Leave(p) /\ UNCHANGED ledger
  BY <1>1, ProjectionLeaves
<1>2. ASSUME keeper = p, L!Save(p, e), NEW k \in NodeSyncs, Placed(k), sync' = [sync EXCEPT ![p] = k],
             Informed(p)'
      PROVE  ProjectionInv'
  <2>1. /\ ledger' \in Ledgers /\ ledger'.state = e.state /\ ledger'.pending = e.pending
        /\ ledger'.ack = e.ack
    BY <1>2, ProjectionFields DEF L!Save, Ledgers, NodeEntries
  <2>2. ProjectionShapes'
    BY <1>2, <2>1, NodePlace DEF ProjectionInv, ProjectionShapes
  <2>3. Honest(ledger)'
    BY <1>2, <2>1 DEF Honest
  <2>4. Underway'
    BY DEF ProjectionInv, Underway
  <2>5. ASSUME NEW q \in Process PROVE Informed(q)'
    <3>1. CASE q = p
      BY <1>2, <3>1
    <3>2. CASE q # p
      <4>1. sync'[q] = sync[q] /\ keeper # q
        BY <1>2, <3>2, NodePlace
      <4> QED BY <4>1, ProjectionFields DEF Informed
    <3> QED BY <3>1, <3>2
  <2> QED BY <2>2, <2>3, <2>4, <2>5 DEF ProjectionInv
<1>3. CASE keeper = p /\ L!Save(p, e) /\ L!Leave(p)
  <2> DEFINE k == [L!Away EXCEPT !.pc = "finish"]
  <2>1. k \in NodeSyncs /\ k.pc = "finish" /\ sync' = [sync EXCEPT ![p] = k]
    BY <1>3, NodeAway DEF L!Leave
  <2> HIDE DEF k
  <2>2. Placed(k)
    BY <2>1 DEF Placed
  <2>3. Informed(p)'
    BY <2>1, <2>2, NodePlace DEF Informed
  <2> QED BY <1>2, <1>3, <2>1, <2>2, <2>3
<1>4. CASE keeper = p /\ L!Save(p, e) /\ pc = "cas" /\ L!Goto(p, pc)
  <2> DEFINE k == [sync[p] EXCEPT !.pc = "cas"]
  <2>1. sync[p] \in NodeSyncs /\ Placed(sync[p]) /\ Informed(p)
    BY ProjectionFields
  <2>2. /\ k \in NodeSyncs /\ k.pc = "cas" /\ k.snap = sync[p].snap /\ k.entry = sync[p].entry
        /\ k.current = sync[p].current
    BY <2>1 DEF NodeSyncs, SyncPlaces
  <2>3. sync' = [sync EXCEPT ![p] = k]
    BY <1>4, ProjectionFields DEF L!Goto
  <2> HIDE DEF k
  <2>4. Placed(k)
    BY <1>4, <2>1, <2>2 DEF Placed
  <2>5. ledger'.pending # Nobody /\ ledger'.ack = ledger.ack
    BY <1>4, ProjectionFields DEF L!Save, Ledgers
  <2>6. Informed(p)'
    <3>1. sync'[p] = k
      BY <2>2, <2>3, <2>4, NodePlace
    <3> QED BY <1>4, <2>1, <2>2, <2>5, <3>1 DEF Informed
  <2> QED BY <1>2, <1>4, <2>2, <2>3, <2>4, <2>6
<1> QED BY <1>1, <1>3, <1>4 DEF L!Store

LEMMA EntryKept ==
    ASSUME ProjectionInv, NEW p \in Process, sync[p].pc \in {"read", "judge", "cas", "done", "recover"}
    PROVE  sync[p].entry \in NodeEntries
  BY ProjectionFields DEF Placed

LEMMA ConflictHonest ==
    ASSUME ProjectionInv, NEW p \in Process, keeper = p, sync[p].pc \in {"judge", "recover"}
    PROVE  L!Conflict(p) \in NodeEntries /\ Honest(L!Conflict(p)) /\ L!Conflict(p).state = "conflict"
<1>1. "conflict" \in L!States
  BY DEF L!States
<1>2. Nobody \in L!Intents \cup {Nobody}
  OBVIOUS
<1>3. L!Conflict(p) = [sync[p].entry EXCEPT !.state = "conflict", !.pending = Nobody]
  BY DEF L!Conflict
<1>4. /\ L!Conflict(p) \in NodeEntries /\ L!Conflict(p).state = "conflict" /\ L!Conflict(p).pending = Nobody
      /\ L!Conflict(p).ack = sync[p].entry.ack
  BY <1>1, <1>2, <1>3, EntryKept DEF NodeEntries
<1>5. sync[p].entry.ack = ledger.ack
  BY ProjectionFields DEF Informed
<1> QED BY <1>4, <1>5 DEF ProjectionInv, Honest

LEMMA OfflineHonest ==
    ASSUME ProjectionInv, NEW p \in Process, keeper = p,
           \/ sync[p].pc = "read" /\ sync[p].entry.state # "conflict"
           \/ sync[p].pc = "recover"
    PROVE  L!Offline(p) \in NodeEntries /\ Honest(L!Offline(p))
<1>1. "offline" \in L!States
  BY DEF L!States
<1>2. ledger.pending \in L!Intents \cup {Nobody}
  BY ProjectionFields DEF Ledgers
<1>3. L!Offline(p) = [sync[p].entry EXCEPT !.state = "offline", !.pending = ledger.pending]
  BY DEF L!Offline
<1>4. /\ L!Offline(p) \in NodeEntries /\ L!Offline(p).state = "offline"
      /\ L!Offline(p).pending = ledger.pending /\ L!Offline(p).ack = sync[p].entry.ack
  BY <1>1, <1>2, <1>3, EntryKept DEF NodeEntries
<1>5. /\ sync[p].entry.ack = ledger.ack
      /\ ledger.state # "conflict" \/ ledger.pending # Nobody
  BY ProjectionFields DEF Informed
<1> QED BY <1>4, <1>5 DEF ProjectionInv, Honest

\* What may be acknowledged: the card as somebody saw it, ours if nobody else has written.
LEMMA AckedHonest ==
    ASSUME ProjectionInv, NEW p \in Process, sync[p].pc \in {"judge", "done", "recover"},
           NEW c \in L!Cards, c.status \in L!Statuses, NEW owned \in BOOLEAN,
           c.version <= card.version, c.version = card.version => c = card,
           owned /\ c.version = card.version => ~touched
    PROVE  /\ L!Acked(p, c, owned) \in NodeEntries /\ Honest(L!Acked(p, c, owned))
           /\ L!Acked(p, c, owned).state # "pending"
<1> DEFINE st == IF owned THEN "acked" ELSE "converged_unowned"
           ack == [version |-> c.version, status |-> c.status, owned |-> owned]
           e == L!Acked(p, c, owned)
<1>1. st \in L!States /\ st # "pending" /\ st # "conflict" /\ Nobody \in L!Intents \cup {Nobody}
  BY DEF L!States
<1>2. ack \in L!Acks /\ ack.version = c.version /\ ack.status = c.status /\ ack.owned = owned
  BY DEF L!Acks, L!Cards
<1>3. e = [sync[p].entry EXCEPT !.state = st, !.pending = Nobody, !.ack = ack]
  BY DEF L!Acked
<1> HIDE DEF st, ack, e
<1>4. e \in NodeEntries /\ e.state = st /\ e.pending = Nobody /\ e.ack = ack
  BY <1>1, <1>2, <1>3, EntryKept DEF NodeEntries
<1>5. ack # Nobody
  BY <1>2, Plan
<1>6. ack.version <= card.version
  BY <1>2
<1>7. ack.version = card.version => ack.status = card.status /\ (ack.owned => ~touched)
  BY <1>2
<1>8. Honest(e)
  BY <1>1, <1>4, <1>5, <1>6, <1>7 DEF Honest
<1> QED BY <1>1, <1>4, <1>8 DEF e

\* The judgement of who has the lease.
LEMMA JudgedHonest ==
    ASSUME ProjectionInv, NEW p \in Process, keeper = p, sync[p].pc = "judge"
    PROVE  /\ L!Judged(p) \in NodeEntries /\ Honest(L!Judged(p))
           /\ L!Judged(p).state = "pending" =>
                 /\ L!Judged(p).pending # Nobody /\ L!Judged(p).ack = ledger.ack
                 /\ sync[p].current.status \in L!Statuses
                 /\ sync[p].current.version = card.version => ~touched
<1> DEFINE c == sync[p].current
           e == sync[p].entry
           j == [e EXCEPT !.state = "pending", !.pending = L!Intent(c, e.desired)]
<1>1. /\ e \in NodeEntries /\ c \in L!Cards /\ c.version <= card.version
      /\ c.version = card.version => c = card
      /\ e.state = ledger.state /\ e.pending = ledger.pending /\ e.ack = ledger.ack
      /\ ledger.state # "conflict"
  BY ProjectionFields DEF Placed, Informed
<1>2. c.status # "done" => c.status \in L!Statuses
  BY <1>1 DEF L!Cards
<1> HIDE DEF c
<1>3. CASE L!Judged(p) = L!Conflict(p)
  BY <1>3, ConflictHonest
<1>4. CASE L!Judged(p) = L!Acked(p, c, FALSE) /\ c.status # "done"
  BY <1>1, <1>2, <1>4, AckedHonest
<1>5. ASSUME ~L!Unowned(e, c), L!Undisturbed(p, c), c.version = card.version PROVE ~touched
  <2>1. CASE e.pending # Nobody
    <3>1. c.version = e.pending.version
      BY <1>5, <2>1 DEF L!Undisturbed
    <3> QED BY <1>1, <1>5, <2>1, <3>1 DEF ProjectionInv, Honest
  <2>2. CASE e.pending = Nobody /\ e.ack # Nobody
    <3>1. c.version = e.ack.version /\ c.status = e.ack.status
      BY <1>5, <2>2 DEF L!Undisturbed
    <3>2. e.ack.owned
      BY <1>5, <2>2, <3>1 DEF L!Unowned
    <3> QED BY <1>1, <1>5, <2>2, <3>1, <3>2 DEF ProjectionInv, Honest
  <2>3. CASE e.pending = Nobody /\ e.ack = Nobody
    BY <1>1, <2>3 DEF ProjectionInv, Honest
  <2> QED BY <2>1, <2>2, <2>3
<1>6. CASE /\ L!Judged(p) = L!Acked(p, c, TRUE) /\ c.status # "done"
           /\ ~L!Unowned(e, c) /\ L!Undisturbed(p, c)
  BY <1>1, <1>2, <1>5, <1>6, AckedHonest
<1>7. CASE L!Judged(p) = j /\ c.status # "done" /\ ~L!Unowned(e, c) /\ L!Undisturbed(p, c)
  <2> DEFINE i == L!Intent(c, e.desired)
  <2>1. i \in L!Intents /\ i.version = c.version
    BY <1>1, <1>2, <1>7 DEF L!Intent, L!Intents, L!Cards, NodeEntries
  <2>2. i # Nobody /\ "pending" \in L!States
    BY <2>1, Plan DEF L!States
  <2>3. j = [sync[p].entry EXCEPT !.state = "pending", !.pending = i]
    OBVIOUS
  <2> HIDE DEF i, j
  <2>4. j \in NodeEntries /\ j.state = "pending" /\ j.pending = i /\ j.ack = sync[p].entry.ack
    BY <2>1, <2>2, <2>3, EntryKept DEF NodeEntries
  <2>5. c.version = card.version => ~touched
    BY <1>5, <1>7
  <2>6. Honest(j)
    BY <1>1, <2>1, <2>2, <2>4, <2>5 DEF ProjectionInv, Honest
  <2> QED BY <1>1, <1>2, <1>7, <2>2, <2>4, <2>5, <2>6 DEF c
<1> QED BY <1>3, <1>4, <1>6, <1>7 DEF L!Judged, c

LEMMA ProjectionRead ==
    ASSUME ProjectionInv, NEW p \in Process, L!Read(p) PROVE ProjectionInv'
<1>1. UNCHANGED <<card, touched, inflight, keeper>> /\ sync[p].pc = "read"
  BY DEF L!Read, L!provider
<1>2. CASE L!Leave(p) /\ UNCHANGED ledger
  BY <1>1, <1>2, ProjectionLeaves
<1>3. CASE sync[p].entry.state # "conflict" /\ L!Store(p, L!Offline(p), "finish")
  BY <1>1, <1>3, OfflineHonest, ProjectionStores
<1>4. ASSUME sync[p].entry.state # "conflict", UNCHANGED ledger,
             sync' = [sync EXCEPT ![p].pc = "judge", ![p].current = card]
      PROVE  ProjectionInv'
  <2> DEFINE k == [sync[p] EXCEPT !.pc = "judge", !.current = card]
  <2>1. sync[p] \in NodeSyncs /\ Placed(sync[p]) /\ Informed(p) /\ card \in L!Cards
    BY ProjectionFields
  <2>2. /\ k \in NodeSyncs /\ k.pc = "judge" /\ k.entry = sync[p].entry /\ k.snap = sync[p].snap
        /\ k.current = card
    BY <2>1 DEF NodeSyncs, SyncPlaces
  <2>3. sync' = [sync EXCEPT ![p] = k]
    BY <1>4, ProjectionFields
  <2> HIDE DEF k
  <2>4. Placed(k)
    BY <1>1, <2>1, <2>2 DEF Placed
  <2>5. ProjectionShapes'
    BY <1>1, <1>4, <2>2, <2>3, <2>4, NodePlace DEF ProjectionInv, ProjectionShapes
  <2>6. Honest(ledger)' /\ Underway'
    BY <1>1, <1>4 DEF ProjectionInv, Honest, Underway
  <2>7. ASSUME NEW q \in Process PROVE Informed(q)'
    <3>1. CASE q = p
      <4>1. sync'[p] = k
        BY <2>2, <2>3, <2>4, NodePlace
      <4> QED BY <1>1, <1>4, <2>1, <2>2, <3>1, <4>1, ProjectionFields DEF Informed
    <3>2. CASE q # p
      <4>1. sync'[q] = sync[q]
        BY <2>2, <2>3, <2>4, <3>2, NodePlace
      <4> QED BY <1>1, <1>4, <4>1, ProjectionFields DEF Informed
    <3> QED BY <3>1, <3>2
  <2> QED BY <2>5, <2>6, <2>7 DEF ProjectionInv
<1> QED BY <1>2, <1>3, <1>4 DEF L!Read

LEMMA ProjectionJudge ==
    ASSUME ProjectionInv, NEW p \in Process, L!Judge(p) PROVE ProjectionInv'
<1>1. UNCHANGED <<card, touched, inflight, keeper>> /\ sync[p].pc = "judge"
  BY DEF L!Judge, L!provider
<1>2. CASE L!Judged(p).state = "pending" /\ L!Store(p, L!Judged(p), "cas")
  BY <1>1, <1>2, JudgedHonest, ProjectionStores
<1>3. CASE L!Store(p, L!Judged(p), "finish")
  BY <1>1, <1>3, JudgedHonest, ProjectionStores
<1> QED BY <1>2, <1>3 DEF L!Judge

LEMMA ProjectionDone ==
    ASSUME ProjectionInv, NEW p \in Process, L!Done(p) PROVE ProjectionInv'
<1> DEFINE c == sync[p].current
           e == L!Acked(p, c, TRUE)
<1>1. UNCHANGED <<card, touched, inflight, keeper>> /\ sync[p].pc = "done" /\ L!Store(p, e, "finish")
  BY DEF L!Done, L!provider
<1>2. /\ c \in L!Cards /\ c.status \in L!Statuses /\ c.version <= card.version
      /\ c.version = card.version => c = card /\ ~touched
  BY <1>1, ProjectionFields DEF Placed, Informed
<1>3. e \in NodeEntries /\ Honest(e)
  <2> HIDE DEF c
  <2> QED BY <1>1, <1>2, AckedHonest
<1> HIDE DEF e
<1> QED BY <1>1, <1>3, ProjectionStores

LEMMA ProjectionRecover ==
    ASSUME ProjectionInv, NEW p \in Process, L!Recover(p) PROVE ProjectionInv'
<1> DEFINE i == L!Intent(sync[p].current, sync[p].entry.desired)
<1>1. /\ UNCHANGED <<card, touched, inflight, keeper>> /\ sync[p].pc = "recover"
      /\ \/ L!Store(p, L!Recovered(p, i), "finish")
         \/ L!Store(p, L!Offline(p), "finish")
  BY DEF L!Recover, L!provider
<1>2. i.target \in L!Statuses
  BY <1>1, ProjectionFields DEF L!Intent, Placed, NodeEntries
<1> HIDE DEF i
<1>3. ASSUME L!Landed(i, card) PROVE L!Acked(p, card, FALSE) \in NodeEntries /\ Honest(L!Acked(p, card, FALSE))
  <2>1. card.status \in L!Statuses /\ card.version <= card.version
    BY <1>2, <1>3, ProjectionFields DEF L!Landed
  <2> QED BY <1>1, <2>1, ProjectionFields, AckedHonest
<1>4. keeper = p => L!Recovered(p, i) \in NodeEntries /\ Honest(L!Recovered(p, i))
  BY <1>1, <1>3, OfflineHonest, ConflictHonest DEF L!Recovered
<1>5. keeper = p => L!Offline(p) \in NodeEntries /\ Honest(L!Offline(p))
  BY <1>1, OfflineHonest
<1>6. CASE L!Store(p, L!Recovered(p, i), "finish")
  BY <1>1, <1>4, <1>6, ProjectionStores
<1>7. CASE L!Store(p, L!Offline(p), "finish")
  BY <1>1, <1>5, <1>7, ProjectionStores
<1> QED BY <1>1, <1>6, <1>7

LEMMA ProjectionCas ==
    ASSUME ProjectionInv, NEW p \in Process, L!Cas(p) PROVE ProjectionInv'
<1> DEFINE c == sync[p].current
           i == L!Intent(c, sync[p].entry.desired)
<1>1. UNCHANGED <<touched, ledger, keeper>> /\ sync[p].pc = "cas"
  BY DEF L!Cas
<1>2. /\ sync[p] \in NodeSyncs /\ Placed(sync[p]) /\ Informed(p) /\ sync[p].entry \in NodeEntries
      /\ c \in L!Cards /\ c.status \in L!Statuses /\ c.version <= card.version
      /\ c.version = card.version => c = card /\ ~touched
  BY <1>1, ProjectionFields DEF Placed, Informed
<1>3. i \in L!Intents /\ i.version = c.version /\ i.status = c.status /\ i.target = sync[p].entry.desired
  BY <1>2 DEF L!Intent, L!Intents, L!Cards, NodeEntries
<1> HIDE DEF i
\* The place after the write, answered or not.
<1>4. ASSUME NEW k \in NodeSyncs, k.entry = sync[p].entry, k.snap = sync[p].snap, sync' = [sync EXCEPT ![p] = k],
             card' \in L!Cards, Honest(ledger)', Underway', inflight' \in SUBSET L!Intents,
             \/ /\ k.pc = "recover" /\ k.current = c /\ c.version <= card'.version
                /\ c.version = card'.version => c = card'
             \/ /\ k.pc = "done" /\ k.current = card' /\ card'.status = sync[p].entry.desired
                /\ ~touched,
             \A q \in Process \ {p} : Informed(q)'
      PROVE  ProjectionInv'
  <2>0. sync[p].entry.desired \in L!Statuses /\ card'.version <= card'.version
    <3>1. card'.version \in Nat
      BY <1>4, ProjectionFields DEF L!Cards
    <3> QED BY <1>2, <3>1 DEF NodeEntries
  <2>1. Placed(k)
    BY <1>1, <1>2, <1>4, <2>0 DEF Placed
  <2>2. sync'[p] = k
    BY <1>4, <2>1, NodePlace
  <2>3. ProjectionShapes'
    BY <1>1, <1>4, <2>1, NodePlace DEF ProjectionInv, ProjectionShapes
  <2>4. keeper = p => k.entry.ack = ledger.ack /\ ledger.pending # Nobody
    BY <1>1, <1>2, <1>4 DEF Informed
  <2>5. Informed(p)'
    BY <1>1, <1>4, <2>0, <2>2, <2>4 DEF Informed
  <2> QED BY <1>4, <2>3, <2>5 DEF ProjectionInv
<1>5. ASSUME L!Matches(i), L!Write("us", i.target),
             \/ sync' = [sync EXCEPT ![p].pc = "done", ![p].current = card']
             \/ L!Goto(p, "recover")
      PROVE  ProjectionInv'
  <2>1. i.target \in L!Statuses \cup {"done"}
    BY <1>3 DEF L!Intents
  <2>2. /\ card' \in L!Cards /\ card'.version = card.version + 1 /\ card'.status = i.target
        /\ Honest(ledger)' /\ Underway' /\ inflight' = {}
        /\ \A q \in Process : sync'[q] = sync[q] => Informed(q)'
    BY <1>1, <1>5, <2>1, ProjectionWrites
  <2>3. ~touched
    BY <1>2, <1>3, <1>5 DEF L!Matches
  <2>4. CASE sync' = [sync EXCEPT ![p].pc = "done", ![p].current = card']
    <3> DEFINE k == [sync[p] EXCEPT !.pc = "done", !.current = card']
    <3>1. /\ k \in NodeSyncs /\ k.pc = "done" /\ k.entry = sync[p].entry /\ k.snap = sync[p].snap
          /\ k.current = card'
      BY <1>2, <2>2 DEF NodeSyncs, SyncPlaces
    <3>2. sync' = [sync EXCEPT ![p] = k]
      BY <2>4, ProjectionFields
    <3> HIDE DEF k
    <3>3. \A q \in Process \ {p} : Informed(q)'
      BY <2>2, <3>2, ProjectionFields
    <3> QED BY <1>3, <1>4, <2>2, <2>3, <3>1, <3>2, <3>3
  <2>5. CASE L!Goto(p, "recover")
    <3> DEFINE k == [sync[p] EXCEPT !.pc = "recover"]
    <3>1. /\ k \in NodeSyncs /\ k.pc = "recover" /\ k.entry = sync[p].entry /\ k.snap = sync[p].snap
          /\ k.current = c
      BY <1>2 DEF NodeSyncs, SyncPlaces
    <3>2. sync' = [sync EXCEPT ![p] = k]
      BY <2>5, ProjectionFields DEF L!Goto
    <3> HIDE DEF k
    <3>3. \A q \in Process \ {p} : Informed(q)'
      BY <2>2, <3>2, ProjectionFields
    <3>4. c.version \in Nat /\ c.version <= card'.version /\ c.version # card'.version
      BY <1>2, <2>2, ProjectionFields DEF L!Cards
    <3> HIDE DEF c
    <3> QED BY <1>4, <2>2, <3>1, <3>2, <3>3, <3>4
  <2> QED BY <1>5, <2>4, <2>5
<1>6. ASSUME inflight' \in {inflight, inflight \cup {j \in {i} : L!Matches(j)}},
             L!Goto(p, "recover"), UNCHANGED card
      PROVE  ProjectionInv'
  <2> DEFINE k == [sync[p] EXCEPT !.pc = "recover"]
  <2>1. /\ k \in NodeSyncs /\ k.pc = "recover" /\ k.entry = sync[p].entry /\ k.snap = sync[p].snap
        /\ k.current = c
    BY <1>2 DEF NodeSyncs, SyncPlaces
  <2>2. sync' = [sync EXCEPT ![p] = k]
    BY <1>6, ProjectionFields DEF L!Goto
  <2> HIDE DEF k, c
  <2>3. \A j \in inflight' : j \in inflight \/ (j = i /\ L!Matches(i))
    BY <1>6
  <2>4. inflight' \in SUBSET L!Intents
    BY <1>3, <2>3, ProjectionFields
  <2>5. Underway'
    BY <1>1, <1>2, <1>3, <1>6, <2>3 DEF ProjectionInv, Underway, L!Matches
  <2>6. Honest(ledger)'
    BY <1>1, <1>6 DEF ProjectionInv, Honest
  <2>7. ASSUME NEW q \in Process \ {p} PROVE Informed(q)'
    <3>1. sync'[q] = sync[q] /\ Informed(q)
      BY <2>2, ProjectionFields
    <3> QED BY <1>1, <1>6, <3>1 DEF Informed
  <2>8. card' \in L!Cards /\ c.version <= card'.version /\ (c.version = card'.version => c = card')
    BY <1>2, <1>6, ProjectionFields DEF c
  <2> QED BY <1>4, <2>1, <2>2, <2>4, <2>5, <2>6, <2>7, <2>8
<1> QED BY <1>5, <1>6 DEF L!Cas, c, i

LEMMA ProjectionStep ==
    ASSUME ProjectionInv, L!ProjectionNext PROVE ProjectionInv'
<1>1. ASSUME NEW p \in Process,
             \/ \E n \in Snapshot : L!Begin(p, n)
             \/ L!Prepare(p) \/ L!Read(p) \/ L!Judge(p) \/ L!Cas(p) \/ L!Done(p) \/ L!Recover(p)
             \/ L!Finish(p) \/ L!Crash(p)
      PROVE  ProjectionInv'
  BY <1>1, ProjectionAround, ProjectionPrepare, ProjectionRead, ProjectionJudge, ProjectionCas,
     ProjectionDone, ProjectionRecover
<1>2. CASE L!UserWrites \/ \E i \in inflight : L!Late(i)
  BY <1>2, ProjectionUser
<1>3. CASE L!Expire
  <2>1. keeper \in Process
    BY <1>3 DEF L!Expire, ProjectionInv, ProjectionShapes
  <2> QED BY <1>3, <2>1, ProjectionAround
<1> QED BY <1>1, <1>2, <1>3 DEF L!ProjectionNext

LEMMA ProjectionRest ==
    ASSUME ProjectionInv, UNCHANGED projectionVars PROVE ProjectionInv'
<1>1. UNCHANGED <<card, touched, inflight, ledger, keeper, sync>>
  BY DEF projectionVars
<1> QED BY <1>1 DEF ProjectionInv, ProjectionShapes, Honest, Underway, Informed

LEMMA ProjectionSays == ASSUME ProjectionInv PROVE L!ProjectionTypeOK /\ L!AckTrue
<1>1. \A p \in Process : sync[p].pc \in SyncPlaces /\ sync[p].current \in L!Cards \cup {Nobody}
  BY ProjectionFields DEF NodeSyncs
<1>2. ledger \in [source : {0} \cup Snapshot, state : L!States,
                  pending : L!Intents \cup {Nobody}, ack : L!Acks \cup {Nobody}]
  BY ProjectionFields DEF Ledgers
<1>3. /\ ledger.state \in {"acked", "converged_unowned"} => ledger.ack # Nobody /\ ledger.pending = Nobody
      /\ ledger.state = "conflict" => ledger.pending = Nobody
  BY DEF ProjectionInv, Honest
<1>4. L!ProjectionTypeOK
  BY <1>1, <1>2, <1>3 DEF L!ProjectionTypeOK, ProjectionInv, ProjectionShapes, SyncPlaces
<1>5. L!AckTrue
  BY DEF L!AckTrue, ProjectionInv, Honest
<1> QED BY <1>4, <1>5

\* A write of ours is to a card that no user has touched; the source only grows.
LEMMA ProjectionKeeps ==
    ASSUME ProjectionInv, L!ProjectionNext PROVE L!KeepsCard /\ L!KeepsSource
<1>1. ASSUME card' # card, card'.by = "us" PROVE ~touched /\ card.status # "done"
  <2>1. CASE L!UserWrites
    BY <1>1, <2>1 DEF L!UserWrites, L!Write
  <2>2. ASSUME NEW i \in inflight, L!Late(i) PROVE ~touched /\ card.status # "done"
    <3>1. i.status = card.status /\ ~touched /\ i.status \in L!Statuses
      BY ProjectionFields DEF ProjectionInv, Underway, L!Intents
    <3> QED BY <3>1 DEF L!Statuses
  <2>3. ASSUME NEW p \in Process, L!Cas(p) PROVE ~touched /\ card.status # "done"
    <3>1. /\ sync[p].pc = "cas" /\ sync[p].current.version = card.version
          /\ sync[p].current.status = card.status
      BY <1>1, <2>3 DEF L!Cas, L!Matches, L!Intent
    <3>2. ~touched /\ card.status \in L!Statuses
      BY <3>1, ProjectionFields DEF Placed, Informed
    <3> QED BY <3>2 DEF L!Statuses
  <2> QED BY <1>1, <2>1, <2>2, <2>3
       DEF L!ProjectionNext, L!Begin, L!Prepare, L!Read, L!Judge, L!Done, L!Recover, L!Finish, L!Crash,
           L!Expire, L!provider
<1>2. ledger.source \in Nat /\ Snapshot \subseteq Nat
  <2>1. ledger.source = 0 \/ ledger.source \in Snapshot
    BY ProjectionFields DEF Ledgers
  <2>2. Snapshot \subseteq Nat
    BY Plan
  <2>3. 0 \in Nat /\ \A n \in Snapshot : n \in Nat
    BY <2>2
  <2> QED BY <2>1, <2>2, <2>3
<1>3. ledger'.source >= ledger.source
  <2>1. ASSUME NEW p \in Process, L!Prepare(p) PROVE ledger'.source >= ledger.source
    BY <1>2, <2>1, ProjectionFields DEF L!Prepare, L!Fresh, Ledgers
  <2>2. ASSUME NEW p \in Process, NEW e, NEW pc, L!Store(p, e, pc) PROVE ledger'.source = ledger.source
    BY <2>2, ProjectionFields DEF L!Store, L!Save, Ledgers
  <2>3. CASE UNCHANGED ledger
    BY <1>2, <2>3
  <2>4. ASSUME NEW p \in Process, L!Read(p) \/ L!Judge(p) \/ L!Done(p) \/ L!Recover(p)
        PROVE  ledger'.source = ledger.source
    BY <2>2, <2>4 DEF L!Read, L!Judge, L!Done, L!Recover
  <2>5. \/ UNCHANGED ledger
        \/ \E p \in Process : L!Prepare(p) \/ L!Read(p) \/ L!Judge(p) \/ L!Done(p) \/ L!Recover(p)
    BY DEF L!ProjectionNext, L!Begin, L!Cas, L!Finish, L!Crash, L!UserWrites, L!Late, L!Expire
  <2> QED BY <1>2, <2>1, <2>3, <2>4, <2>5
<1> QED BY <1>1, <1>3 DEF L!KeepsCard, L!KeepsSource
-----------------------------------------------------------------------------
(* The state of the main agent (RequirementOwner).                          *)

StageNames == {"observe", "assess", "plan", "act", "inspect", "review", "replan"}
OwnerFiles == [revision : 0 .. MaxRevision, stage : StageNames, cycle : Nat, acts : 0 .. Kept,
               seen : Seq(BOOLEAN), mark : Seq(BOOLEAN)]
Knowing == [knows : OwnerFiles, got : Seq(BOOLEAN)]

\* What is known of an older revision is older; the lock has one holder, who knows the
\* file as it is; and a fingerprint is that of the facts that were seen.
OwnerInv ==
    /\ facts \in [1 .. Facts -> BOOLEAN] /\ owner \in OwnerFiles /\ agent \in [Thread -> Knowing]
    /\ owner.mark = owner.seen
    /\ \A a \in Thread : agent[a].knows.revision <= owner.revision
    /\ \A a \in Thread : agent[a].knows.revision = owner.revision => agent[a].knows = owner
    /\ \A a \in Thread : agent[a].got # <<>> => agent[a].knows = owner /\ owner.revision < MaxRevision
    /\ \A a, b \in Thread : agent[a].got # <<>> /\ agent[b].got # <<>> => a = b

LEMMA Followed == ASSUME NEW stage \in StageNames PROVE O!Following(stage) \in StageNames
<1>1. /\ \A n \in 1 .. 7 : O!Stages[n] \in StageNames
      /\ DOMAIN O!Stages = 1 .. 7 /\ Len(O!Stages) = 7
  BY DEF O!Stages, StageNames
<1>2. \E n \in DOMAIN O!Stages : O!Stages[n] = stage
  BY DEF O!Stages, StageNames
<1> DEFINE i == CHOOSE n \in DOMAIN O!Stages : O!Stages[n] = stage
<1>3. i \in 1 .. 7
  BY <1>1, <1>2
<1> HIDE DEF i
<1>4. (i % 7) + 1 \in 1 .. 7
  BY <1>3
<1>5. O!Following(stage) = O!Stages[(i % Len(O!Stages)) + 1]
  BY DEF O!Following, i
<1> QED BY <1>1, <1>4, <1>5

LEMMA OwnerStart == ASSUME O!OwnerInit PROVE OwnerInv
<1>1. <<>> \in Seq(BOOLEAN) /\ 0 \in 0 .. MaxRevision /\ 0 \in 0 .. Kept /\ "observe" \in StageNames
  BY PlanBounds DEF StageNames
<1>2. O!NoOwner \in OwnerFiles /\ O!NoOwner.mark = O!NoOwner.seen /\ O!NoOwner.revision = 0
  BY <1>1 DEF O!NoOwner, OwnerFiles
<1>3. /\ owner = O!NoOwner /\ agent \in [Thread -> Knowing]
      /\ \A a \in Thread : agent[a].knows = O!NoOwner /\ agent[a].got = <<>>
  BY <1>1, <1>2 DEF O!OwnerInit, Knowing
<1> QED BY <1>2, <1>3 DEF OwnerInv, O!OwnerInit

\* An agent changes what it knows or has got, and the file stays.
LEMMA OwnerAgent ==
    ASSUME OwnerInv, UNCHANGED <<facts, owner>>, NEW a \in Thread, NEW k \in Knowing,
           agent' = [agent EXCEPT ![a] = k], k.knows.revision <= owner.revision,
           k.knows.revision = owner.revision => k.knows = owner,
           k.got # <<>> => /\ k.knows = owner /\ owner.revision < MaxRevision
                           /\ \A b \in Thread \ {a} : agent[b].got = <<>>
    PROVE  OwnerInv'
<1>1. agent' \in [Thread -> Knowing] /\ agent'[a] = k /\ \A b \in Thread \ {a} : agent'[b] = agent[b]
  BY DEF OwnerInv
<1> QED BY <1>1 DEF OwnerInv

\* An agent writes the file, under the lock.
LEMMA OwnerWrites ==
    ASSUME OwnerInv, UNCHANGED facts, NEW a \in Thread, NEW o \in OwnerFiles,
           owner' = o, o.mark = o.seen, o.revision = owner.revision + 1,
           NEW k \in Knowing, agent' = [agent EXCEPT ![a] = k], k.knows = o, k.got = <<>>,
           \A b \in Thread \ {a} : agent[b].got = <<>>
    PROVE  OwnerInv'
<1>1. agent' \in [Thread -> Knowing] /\ agent'[a] = k /\ \A b \in Thread \ {a} : agent'[b] = agent[b]
  BY DEF OwnerInv
<1>2. \A b \in Thread : agent[b].knows.revision \in Nat /\ owner.revision \in Nat
  <2>1. owner \in OwnerFiles /\ \A b \in Thread : agent[b] \in Knowing
    BY DEF OwnerInv
  <2>2. \A b \in Thread : agent[b].knows \in OwnerFiles
    BY <2>1 DEF Knowing
  <2>3. \A f \in OwnerFiles : f.revision \in Nat
    BY PlanBounds DEF OwnerFiles
  <2> QED BY <2>1, <2>2, <2>3
<1>3. \A b \in Thread \ {a} : agent'[b].knows.revision < owner'.revision
  BY <1>1, <1>2 DEF OwnerInv
<1>4. \A b \in Thread : agent'[b].knows.revision <= owner'.revision
  BY <1>1, <1>2, <1>3
<1>5. \A b \in Thread : agent'[b].knows.revision = owner'.revision => agent'[b].knows = owner'
  BY <1>1, <1>2, <1>3
<1>6. \A b \in Thread : agent'[b].got = <<>>
  BY <1>1
<1> QED BY <1>1, <1>4, <1>5, <1>6 DEF OwnerInv

\* What is known of the file, and its fields.
LEMMA OwnerKnows ==
    ASSUME OwnerInv, NEW a \in Thread
    PROVE  /\ agent[a] \in Knowing /\ agent[a].knows \in OwnerFiles /\ agent[a].got \in Seq(BOOLEAN)
           /\ owner \in OwnerFiles /\ owner.revision \in Nat /\ owner.acts \in 0 .. Kept
           /\ owner.stage \in StageNames /\ owner.cycle \in Nat /\ owner.mark = owner.seen
           /\ agent[a].knows.revision <= owner.revision /\ agent \in [Thread -> Knowing]
           /\ (O!Expected(a) => agent[a].knows = owner)
           /\ facts \in [1 .. Facts -> BOOLEAN]
  BY DEF OwnerInv, Knowing, OwnerFiles, O!Expected

LEMMA OwnerStep == ASSUME OwnerInv, O!OwnerNext PROVE OwnerInv'
<1>1. ASSUME NEW f \in 1 .. Facts, O!FactChanges(f) PROVE OwnerInv'
  <2>1. facts' \in [1 .. Facts -> BOOLEAN]
    BY <1>1 DEF O!FactChanges, OwnerInv
  <2> QED BY <1>1, <2>1 DEF O!FactChanges, OwnerInv
<1> SUFFICES ASSUME NEW a \in Thread,
                    \/ O!Look(a) \/ O!Observe(a) \/ O!ObserveReads(a) \/ O!ObserveEnds(a)
                    \/ O!Advance(a) \/ O!RecordAction(a)
             PROVE  OwnerInv'
  BY <1>1 DEF O!OwnerNext
<1>2. CASE O!Look(a)
  <2> DEFINE k == [agent[a] EXCEPT !.knows = owner]
  <2>1. agent' = [agent EXCEPT ![a] = k] /\ UNCHANGED <<facts, owner>> /\ agent[a].got = <<>>
    BY <1>2, OwnerKnows DEF O!Look
  <2>2. k \in Knowing /\ k.knows = owner /\ k.got = agent[a].got
    BY OwnerKnows DEF Knowing
  <2> HIDE DEF k
  <2>3. k.knows.revision <= owner.revision /\ k.got = <<>>
    BY <2>1, <2>2, OwnerKnows
  <2> QED BY <2>1, <2>2, <2>3, OwnerAgent
<1>3. CASE O!Observe(a)
  <2> DEFINE k == [agent[a] EXCEPT !.got = <<facts[1]>>]
  <2>1. /\ agent' = [agent EXCEPT ![a] = k] /\ UNCHANGED <<facts, owner>> /\ owner.revision < MaxRevision
        /\ agent[a].knows = owner /\ \A b \in Thread : agent[b].got = <<>>
    BY <1>3, OwnerKnows DEF O!Observe, O!LockFree
  <2>2. facts[1] \in BOOLEAN /\ <<facts[1]>> \in Seq(BOOLEAN)
    BY OwnerKnows, PlanBounds
  <2>3. k \in Knowing /\ k.knows = agent[a].knows
    BY <2>2, OwnerKnows DEF Knowing
  <2> HIDE DEF k
  <2> QED BY <2>1, <2>3, OwnerKnows, OwnerAgent
<1>4. CASE O!ObserveReads(a)
  <2> DEFINE got == Append(agent[a].got, facts[Len(agent[a].got) + 1])
             k == [agent[a] EXCEPT !.got = got]
  <2>1. /\ agent' = [agent EXCEPT ![a] = k] /\ UNCHANGED <<facts, owner>>
        /\ agent[a].got # <<>> /\ Len(agent[a].got) < Facts
    BY <1>4, OwnerKnows DEF O!ObserveReads
  <2>2. /\ agent[a].knows = owner /\ owner.revision < MaxRevision
        /\ \A b \in Thread \ {a} : agent[b].got = <<>>
    BY <2>1 DEF OwnerInv
  <2>3. Len(agent[a].got) + 1 \in 1 .. Facts
    <3>1. Facts \in Nat /\ Len(agent[a].got) \in Nat
      BY OwnerKnows, PlanBounds
    <3> QED BY <2>1, <3>1
  <2>4. got \in Seq(BOOLEAN)
    <3>1. facts[Len(agent[a].got) + 1] \in BOOLEAN /\ agent[a].got \in Seq(BOOLEAN)
      BY <2>3, OwnerKnows
    <3> QED BY <3>1, Appending
  <2> HIDE DEF got
  <2>5. k \in Knowing /\ k.knows = agent[a].knows
    BY <2>4, OwnerKnows DEF Knowing
  <2> HIDE DEF k
  <2> QED BY <2>1, <2>2, <2>5, OwnerKnows, OwnerAgent
<1>5. CASE O!ObserveEnds(a)
  <2> DEFINE got == agent[a].got
             o == O!Observed(a, got)
             k == [knows |-> o, got |-> <<>>]
  <2>1. /\ agent' = [agent EXCEPT ![a] = k] /\ UNCHANGED facts /\ owner' = o /\ Len(got) = Facts
    BY <1>5 DEF O!ObserveEnds
  <2>2. got # <<>>
    BY <2>1, PlanBounds
  <2>3. owner.revision < MaxRevision /\ \A b \in Thread \ {a} : agent[b].got = <<>>
    BY <2>2 DEF OwnerInv
  <2>4. owner.revision + 1 \in 0 .. MaxRevision /\ got \in Seq(BOOLEAN) /\ <<>> \in Seq(BOOLEAN)
        /\ "observe" \in StageNames
    BY <2>3, OwnerKnows, PlanBounds DEF StageNames
  <2> DEFINE stage == IF owner.stage = "replan" THEN "observe" ELSE owner.stage
             cycle == IF owner.stage = "replan" THEN owner.cycle + 1 ELSE owner.cycle
             o2 == [owner EXCEPT !.revision = owner.revision + 1, !.seen = got, !.mark = got,
                                 !.stage = stage, !.cycle = cycle]
  <2>8. o = o2 /\ stage \in StageNames /\ cycle \in Nat
    BY <2>4, OwnerKnows DEF O!Observed, O!SourceRevision
  <2> HIDE DEF stage, cycle, got, o
  <2>5. o \in OwnerFiles
    BY <2>4, <2>8, OwnerKnows DEF OwnerFiles
  <2>6. o.revision = owner.revision + 1 /\ o.mark = o.seen
    BY <2>4, <2>8, OwnerKnows DEF OwnerFiles
  <2>7. k \in Knowing /\ k.knows = o /\ k.got = <<>>
    BY <2>4, <2>5 DEF Knowing
  <2> HIDE DEF k
  <2> QED BY <2>1, <2>3, <2>5, <2>6, <2>7, OwnerWrites
<1>6. CASE O!Advance(a) \/ O!RecordAction(a)
  <2> DEFINE k == [agent[a] EXCEPT !.knows = owner']
  <2>1. /\ agent' = [agent EXCEPT ![a] = k] /\ UNCHANGED facts
        /\ \A b \in Thread : agent[b].got = <<>>
        /\ owner.revision \in 1 .. MaxRevision - 1
    BY <1>6, OwnerKnows DEF O!Advance, O!RecordAction, O!LockFree
  <2>2. owner.revision + 1 \in 0 .. MaxRevision
    <3>1. MaxRevision \in Nat
      BY PlanBounds
    <3> QED BY <2>1, <3>1
  <2>3. owner' \in OwnerFiles /\ owner'.revision = owner.revision + 1 /\ owner'.mark = owner'.seen
    <3>1. CASE O!Advance(a)
      <4>1. owner' = [owner EXCEPT !.stage = O!Following(owner.stage), !.revision = owner.revision + 1]
        BY <3>1 DEF O!Advance, O!Advanced
      <4>2. O!Following(owner.stage) \in StageNames
        BY OwnerKnows, Followed
      <4> QED BY <2>2, <4>1, <4>2, OwnerKnows DEF OwnerFiles
    <3>2. CASE O!RecordAction(a)
      <4> DEFINE acts == IF owner.acts < Kept THEN owner.acts + 1 ELSE owner.acts
      <4>1. owner' = [owner EXCEPT !.acts = acts, !.stage = "inspect", !.revision = owner.revision + 1]
        BY <3>2 DEF O!RecordAction
      <4>2. acts \in 0 .. Kept /\ "inspect" \in StageNames
        BY OwnerKnows, PlanBounds DEF StageNames
      <4> HIDE DEF acts
      <4> QED BY <2>2, <4>1, <4>2, OwnerKnows DEF OwnerFiles
    <3> QED BY <1>6, <3>1, <3>2
  <2>4. k \in Knowing /\ k.knows = owner' /\ k.got = agent[a].got
    BY <2>3, OwnerKnows DEF Knowing
  <2> HIDE DEF k
  <2> QED BY <2>1, <2>3, <2>4, OwnerWrites
<1> QED BY <1>2, <1>3, <1>4, <1>5, <1>6

LEMMA OwnerRest == ASSUME OwnerInv, UNCHANGED ownerVars PROVE OwnerInv'
  BY DEF ownerVars, OwnerInv

LEMMA OwnerSays == ASSUME OwnerInv PROVE O!OwnerTypeOK /\ O!StaleSeen
  BY DEF OwnerInv, O!OwnerTypeOK, O!StaleSeen, OwnerFiles

\* A call changes the state that its caller has read.
LEMMA OwnerDecides == ASSUME OwnerInv, O!OwnerNext PROVE O!DecidedOnSeen
<1> SUFFICES ASSUME owner' # owner
             PROVE  \E a \in Thread : agent[a].knows = owner /\ agent'[a].knows = owner'
  BY DEF O!DecidedOnSeen
<1>1. PICK a \in Thread : O!ObserveEnds(a) \/ O!Advance(a) \/ O!RecordAction(a)
  BY DEF O!OwnerNext, O!FactChanges, O!Look, O!Observe, O!ObserveReads
<1>2. agent'[a].knows = owner'
  <2>1. CASE O!ObserveEnds(a)
    BY <2>1, OwnerKnows DEF O!ObserveEnds
  <2>2. CASE O!Advance(a) \/ O!RecordAction(a)
    BY <2>2, OwnerKnows DEF O!Advance, O!RecordAction, Knowing
  <2> QED BY <1>1, <2>1, <2>2
<1>3. agent[a].knows = owner
  <2>1. CASE O!ObserveEnds(a)
    <3>1. agent[a].got # <<>>
      BY <2>1, PlanBounds DEF O!ObserveEnds
    <3> QED BY <3>1 DEF OwnerInv
  <2>2. CASE O!Advance(a) \/ O!RecordAction(a)
    BY <2>2, OwnerKnows DEF O!Advance, O!RecordAction
  <2> QED BY <1>1, <2>1, <2>2
<1> QED BY <1>2, <1>3
-----------------------------------------------------------------------------
(* The watchdog (Watchdog).                                                 *)

RunPlaces == H!Active \cup {"queued", "ended"}
RunRows == [status : RunPlaces, seen : Nat, events : SUBSET Nat]
Listings == [status : RunPlaces, seen : Nat]
Suspicions == [run : H!Run, last : Nat]
Scans == [listed : Seq(Listings), now : Nat, stuck : SUBSET Suspicions, read : Nat]

WatchdogShapes ==
    /\ clock \in Nat /\ clock <= MaxTime /\ executions \in [H!Run -> RunRows] /\ scan \in Scans
    /\ signals.stuck \subseteq H!Run /\ signals.at \in Nat /\ signals.changed \in Nat

\* Some times, if any, have a last one; what has come so far has come.
Ends(times) == \E m \in times : \A u \in times : u <= m
WatchdogTimes ==
    /\ \A r \in H!Run : executions[r].events = {} \/ Ends(executions[r].events)
    /\ \A r \in H!Run : \A t \in executions[r].events : t <= clock
    /\ \A r \in H!Run : executions[r].seen <= clock
    /\ signals.at <= clock /\ signals.changed <= signals.at

\* What is said to be stuck has done nothing after the time that is noted, up to the time
\* of the scan.
WatchdogScan ==
    /\ Len(scan.listed) <= Runs /\ scan.read <= Runs + 1
    /\ scan.read > 0 => Len(scan.listed) = Runs /\ signals.at <= scan.now /\ scan.now <= clock
    /\ scan.read = 0 => scan.stuck = {}
    /\ \A x \in scan.stuck : \A t \in executions[x.run].events : t < scan.now => t <= x.last

WatchdogInv == WatchdogShapes /\ WatchdogTimes /\ WatchdogScan /\ H!NoFalseAlarm

LEMMA WatchdogNumbers ==
    Runs \in Nat /\ MaxTime \in Nat /\ StuckAfter \in Nat /\ H!Run = 1 .. Runs
  BY PlanBounds DEF H!Run

LEMMA LatestOf ==
    ASSUME NEW times, times \subseteq Nat, Ends(times)
    PROVE  H!Latest(times) \in Nat /\ H!Latest(times) \in times /\ \A u \in times : u <= H!Latest(times)
<1>1. PICK m \in times : \A u \in times : u <= m
  BY DEF Ends
<1> QED BY <1>1 DEF H!Latest

\* With a time that is known there is always a last one.
LEMMA LatestWith ==
    ASSUME NEW times, times \subseteq Nat, times = {} \/ Ends(times), NEW n \in Nat
    PROVE  H!Latest({n} \cup times) \in Nat /\ \A u \in times : u <= H!Latest({n} \cup times)
<1>1. Ends({n} \cup times)
  <2>1. CASE times = {}
    BY <2>1 DEF Ends
  <2>2. ASSUME NEW m \in times, \A u \in times : u <= m PROVE Ends({n} \cup times)
    <3>1. CASE n <= m
      BY <2>2, <3>1 DEF Ends
    <3>2. CASE ~(n <= m)
      <4>1. \A u \in {n} \cup times : u <= n
        BY <2>2, <3>2
      <4> QED BY <4>1 DEF Ends
    <3> QED BY <3>1, <3>2
  <2> QED BY <2>1, <2>2 DEF Ends
<1> QED BY <1>1, LatestOf

LEMMA WatchdogStart == ASSUME H!WatchdogInit PROVE WatchdogInv
<1>1. \A r \in H!Run : executions[r] = [status |-> "queued", seen |-> 0, events |-> {}]
  BY DEF H!WatchdogInit
<1>2. WatchdogShapes
  <2>1. executions \in [H!Run -> RunRows]
    BY DEF H!WatchdogInit, RunRows, RunPlaces
  <2>2. scan \in Scans
    BY DEF H!WatchdogInit, H!NoScan, Scans
  <2> QED BY <2>1, <2>2, WatchdogNumbers DEF H!WatchdogInit, WatchdogShapes
<1>3. WatchdogTimes
  BY <1>1 DEF H!WatchdogInit, WatchdogTimes, Ends
<1>4. WatchdogScan
  BY WatchdogNumbers DEF H!WatchdogInit, H!NoScan, WatchdogScan
<1>5. H!NoFalseAlarm
  BY DEF H!WatchdogInit, H!NoFalseAlarm
<1> QED BY <1>2, <1>3, <1>4, <1>5 DEF WatchdogInv

\* What an execution does, it does at the present time.
LEMMA WatchdogEvent ==
    ASSUME WatchdogInv, NEW r \in H!Run, NEW row \in RunRows,
           row.events \in {executions[r].events, executions[r].events \cup {clock}},
           row.seen \in {executions[r].seen, clock},
           executions' = [executions EXCEPT ![r] = row],
           UNCHANGED <<clock, scan, signals>>
    PROVE  WatchdogInv'
<1>1. /\ executions \in [H!Run -> RunRows] /\ clock \in Nat
      /\ executions[r].events \subseteq Nat
  BY DEF WatchdogInv, WatchdogShapes, RunRows
<1>3. /\ executions' \in [H!Run -> RunRows] /\ executions'[r] = row
      /\ \A s \in H!Run : s # r => executions'[s] = executions[s]
  BY <1>1
<1>4. \A s \in H!Run : \A t \in executions'[s].events : t \in executions[s].events \/ t = clock
  BY <1>3
<1>5. WatchdogShapes'
  BY <1>3 DEF WatchdogInv, WatchdogShapes
<1>6. WatchdogTimes'
  <2>1. ASSUME NEW s \in H!Run
        PROVE  /\ executions'[s].events = {} \/ Ends(executions'[s].events)
               /\ \A t \in executions'[s].events : t <= clock
               /\ executions'[s].seen <= clock
    <3>1. \A t \in executions[s].events : t <= clock
      BY DEF WatchdogInv, WatchdogTimes
    <3>2. \A t \in executions'[s].events : t <= clock
      BY <1>1, <1>4, <3>1
    <3>3. CASE s = r /\ row.events = executions[r].events \cup {clock}
      <4>1. clock \in executions'[s].events
        BY <1>3, <3>3
      <4>2. Ends(executions'[s].events)
        BY <3>2, <4>1 DEF Ends
      <4> QED BY <1>1, <1>3, <3>2, <3>3, <4>2 DEF WatchdogInv, WatchdogTimes
    <3>4. CASE s # r \/ row.events = executions[r].events
      <4>1. executions'[s].events = executions[s].events
        BY <1>3, <3>4
      <4>2. executions'[s].seen <= clock
        BY <1>1, <1>3 DEF WatchdogInv, WatchdogTimes
      <4> QED BY <3>2, <4>1, <4>2 DEF WatchdogInv, WatchdogTimes
    <3> QED BY <3>3, <3>4
  <2> QED BY <2>1 DEF WatchdogInv, WatchdogTimes
<1>7. WatchdogScan'
  <2>1. scan.read \in Nat /\ scan.now \in Nat /\ \A x \in scan.stuck : x.run \in H!Run
    BY DEF WatchdogInv, WatchdogShapes, Scans, Suspicions
  <2>2. ASSUME NEW x \in scan.stuck, NEW t \in executions'[x.run].events, t < scan.now
        PROVE  t <= x.last
    <3>1. scan.now <= clock
      BY <2>1, <2>2 DEF WatchdogInv, WatchdogScan
    <3>2. t \in executions[x.run].events
      BY <1>1, <1>4, <2>1, <2>2, <3>1
    <3> QED BY <2>2, <3>2 DEF WatchdogInv, WatchdogScan
  <2> QED BY <2>2 DEF WatchdogInv, WatchdogScan
<1>8. H!NoFalseAlarm'
  <2>1. signals.stuck \subseteq H!Run /\ signals.at \in Nat /\ signals.at <= clock
    BY DEF WatchdogInv, WatchdogShapes, WatchdogTimes
  <2>2. ASSUME NEW s \in signals.stuck, NEW t \in executions'[s].events, t < signals.at
        PROVE  t + StuckAfter <= signals.at
    <3>1. t \in executions[s].events
      BY <1>1, <1>4, <2>1, <2>2
    <3> QED BY <2>2, <3>1 DEF WatchdogInv, H!NoFalseAlarm
  <2> QED BY <2>2 DEF H!NoFalseAlarm
<1> QED BY <1>5, <1>6, <1>7, <1>8 DEF WatchdogInv

LEMMA WatchdogRuns ==
    ASSUME WatchdogInv,
           H!Tick \/ \E r \in H!Run : H!Claims(r) \/ H!Starts(r) \/ H!Works(r) \/ H!Ends(r)
    PROVE  WatchdogInv'
<1>1. ASSUME NEW r \in H!Run, H!Claims(r) \/ H!Starts(r) \/ H!Works(r) \/ H!Ends(r)
      PROVE  WatchdogInv'
  <2>1. executions \in [H!Run -> RunRows] /\ executions[r] \in RunRows /\ clock \in Nat
    BY DEF WatchdogInv, WatchdogShapes
  <2>2. /\ "starting" \in RunPlaces /\ "ended" \in RunPlaces
        /\ \A status \in H!Active : status \in RunPlaces
    BY DEF RunPlaces, H!Active
  <2>3. UNCHANGED <<clock, scan, signals>>
    BY <1>1 DEF H!Claims, H!Starts, H!Works, H!Ends
  <2>4. ASSUME NEW status \in RunPlaces,
               executions' = [executions EXCEPT ![r] = [@ EXCEPT !.status = status]]
        PROVE  WatchdogInv'
    <3> DEFINE row == [executions[r] EXCEPT !.status = status]
    <3>1. row \in RunRows /\ row.events = executions[r].events /\ row.seen = executions[r].seen
      BY <2>1 DEF RunRows
    <3>2. executions' = [executions EXCEPT ![r] = row]
      BY <2>4
    <3> HIDE DEF row
    <3> QED BY <2>3, <3>1, <3>2, WatchdogEvent
  <2>5. ASSUME NEW status \in RunPlaces,
               executions' = [executions EXCEPT ![r] = [@ EXCEPT !.status = status, !.seen = clock]]
        PROVE  WatchdogInv'
    <3> DEFINE row == [executions[r] EXCEPT !.status = status, !.seen = clock]
    <3>1. row \in RunRows /\ row.events = executions[r].events /\ row.seen = clock
      BY <2>1 DEF RunRows
    <3>2. executions' = [executions EXCEPT ![r] = row]
      BY <2>5
    <3> HIDE DEF row
    <3> QED BY <2>3, <3>1, <3>2, WatchdogEvent
  <2>6. CASE H!Claims(r)
    BY <2>2, <2>4, <2>6 DEF H!Claims
  <2>7. CASE H!Starts(r) \/ H!Ends(r)
    BY <2>2, <2>5, <2>7 DEF H!Starts, H!Ends
  <2>8. CASE H!Works(r)
    <3> DEFINE row == [executions[r] EXCEPT !.events = executions[r].events \cup {clock}]
    <3>1. /\ row \in RunRows /\ row.events = executions[r].events \cup {clock}
          /\ row.seen = executions[r].seen
      BY <2>1 DEF RunRows
    <3>2. executions' = [executions EXCEPT ![r] = row]
      BY <2>8 DEF H!Works
    <3> HIDE DEF row
    <3> QED BY <2>3, <3>1, <3>2, WatchdogEvent
  <2> QED BY <1>1, <2>6, <2>7, <2>8
<1>2. CASE H!Tick
  <2>1. clock' = clock + 1 /\ clock' <= MaxTime /\ clock \in Nat /\ UNCHANGED <<executions, scan, signals>>
    BY <1>2, WatchdogNumbers DEF H!Tick, WatchdogInv, WatchdogShapes
  <2>2. WatchdogShapes'
    BY <2>1 DEF WatchdogInv, WatchdogShapes
  <2>3. WatchdogTimes'
    <3>1. \A r \in H!Run : /\ \A t \in executions[r].events : t \in Nat /\ t <= clock
                           /\ executions[r].seen \in Nat /\ executions[r].seen <= clock
      BY DEF WatchdogInv, WatchdogShapes, WatchdogTimes, RunRows
    <3>2. signals.at <= clock /\ signals.at \in Nat
      BY DEF WatchdogInv, WatchdogShapes, WatchdogTimes
    <3>3. \A r \in H!Run : /\ \A t \in executions[r].events : t <= clock'
                           /\ executions[r].seen <= clock'
      BY <2>1, <3>1
    <3>4. signals.at <= clock'
      BY <2>1, <3>2
    <3> QED BY <2>1, <3>3, <3>4 DEF WatchdogInv, WatchdogTimes
  <2>4. WatchdogScan'
    <3>1. scan.now \in Nat /\ (scan.read > 0 => scan.now <= clock + 1)
      BY <2>1 DEF WatchdogInv, WatchdogShapes, WatchdogScan, Scans
    <3> QED BY <2>1, <3>1 DEF WatchdogInv, WatchdogScan
  <2>5. H!NoFalseAlarm'
    BY <2>1 DEF WatchdogInv, H!NoFalseAlarm
  <2> QED BY <2>2, <2>3, <2>4, <2>5 DEF WatchdogInv
<1> QED BY <1>1, <1>2

LEMMA WatchdogFields ==
    ASSUME WatchdogInv
    PROVE  /\ scan.listed \in Seq(Listings) /\ scan.now \in Nat /\ scan.stuck \subseteq Suspicions
           /\ scan.read \in Nat /\ clock \in Nat /\ scan \in Scans
           /\ \A r \in H!Run : executions[r] \in RunRows /\ executions[r].events \subseteq Nat
           /\ \A r \in H!Run : executions[r].status \in RunPlaces /\ executions[r].seen \in Nat
           /\ \A r \in H!Run : \A n \in Nat :
                 LET last == H!Latest({n} \cup executions[r].events)
                 IN  last \in Nat /\ \A u \in executions[r].events : u <= last
<1>1. \A r \in H!Run : /\ executions[r] \in RunRows /\ executions[r].events \subseteq Nat
                       /\ executions[r].status \in RunPlaces /\ executions[r].seen \in Nat
  BY DEF WatchdogInv, WatchdogShapes, RunRows
<1>2. \A r \in H!Run : executions[r].events = {} \/ Ends(executions[r].events)
  BY DEF WatchdogInv, WatchdogTimes
<1> QED BY <1>1, <1>2, LatestWith DEF WatchdogInv, WatchdogShapes, Scans

\* A scan that goes on leaves the executions and the file alone.
LEMMA WatchdogGoesOn ==
    ASSUME WatchdogInv, UNCHANGED <<clock, executions, signals>>, scan' \in Scans, WatchdogScan'
    PROVE  WatchdogInv'
<1>1. WatchdogShapes' /\ WatchdogTimes' /\ H!NoFalseAlarm'
  BY DEF WatchdogInv, WatchdogShapes, WatchdogTimes, H!NoFalseAlarm
<1> QED BY <1>1 DEF WatchdogInv

LEMMA WatchdogLists == ASSUME WatchdogInv, H!ListNext PROVE WatchdogInv'
<1> DEFINE r == Len(scan.listed) + 1
           item == [status |-> executions[r].status, seen |-> executions[r].seen]
           next == Append(scan.listed, item)
<1>1. Len(scan.listed) \in Nat /\ Len(scan.listed) < Runs /\ r \in H!Run
  BY WatchdogFields, WatchdogNumbers, Elements DEF H!ListNext
<1>2. item \in Listings
  BY <1>1, WatchdogFields DEF Listings
<1>3. /\ scan' = [scan EXCEPT !.listed = next]
      /\ UNCHANGED <<clock, executions, signals>>
  BY DEF H!ListNext
<1> HIDE DEF item
<1>4. next \in Seq(Listings) /\ Len(next) = Len(scan.listed) + 1
  BY <1>2, WatchdogFields, Appending, Zenon
<1> HIDE DEF next, r
<1>5. scan' \in Scans /\ scan'.listed = next
      /\ scan'.now = scan.now /\ scan'.stuck = scan.stuck /\ scan'.read = scan.read
  <2>1. scan' \in Scans
    BY <1>3, <1>4, WatchdogFields DEF Scans
  <2> QED BY <1>3, <2>1, WatchdogFields DEF Scans
<1>6. scan.read = 0
  BY <1>1, WatchdogFields, WatchdogNumbers DEF WatchdogInv, WatchdogScan
<1>7. WatchdogScan'
  BY <1>1, <1>3, <1>4, <1>5, <1>6, WatchdogNumbers DEF WatchdogInv, WatchdogScan
<1> QED BY <1>3, <1>5, <1>7, WatchdogGoesOn

LEMMA WatchdogTakes == ASSUME WatchdogInv, H!TakeTime PROVE WatchdogInv'
<1>1. /\ scan' = [scan EXCEPT !.now = clock, !.read = 1] /\ UNCHANGED <<clock, executions, signals>>
      /\ scan.read = 0 /\ Len(scan.listed) = Runs
  BY DEF H!TakeTime, H!Listed
<1>2. scan' \in Scans
  BY <1>1, WatchdogFields DEF Scans
<1>3. scan'.listed = scan.listed /\ scan'.now = clock /\ scan'.stuck = {} /\ scan'.read = 1
  BY <1>1, WatchdogFields DEF Scans, WatchdogInv, WatchdogScan
<1>4. WatchdogScan'
  BY <1>1, <1>3, WatchdogFields, WatchdogNumbers DEF WatchdogInv, WatchdogTimes, WatchdogScan
<1> QED BY <1>1, <1>2, <1>4, WatchdogGoesOn

LEMMA WatchdogReads == ASSUME WatchdogInv, H!ReadEvents PROVE WatchdogInv'
<1> DEFINE r == scan.read
           last == H!Latest({scan.listed[r].seen} \cup executions[r].events)
           mark == [run |-> r, last |-> last]
<1>1. r \in H!Run /\ r \in 1 .. Runs
  BY WatchdogNumbers DEF H!ReadEvents
<1>2. Len(scan.listed) = Runs /\ signals.at <= scan.now /\ scan.now <= clock
  BY <1>1, WatchdogNumbers DEF WatchdogInv, WatchdogScan
<1>3. scan.listed[r] \in Listings
  BY <1>1, <1>2, WatchdogFields, Elements
<1>4. last \in Nat /\ \A u \in executions[r].events : u <= last
  <2>1. scan.listed[r].seen \in Nat
    BY <1>3 DEF Listings
  <2> QED BY <1>1, <2>1, WatchdogFields
<1>5. PICK stuck \in {scan.stuck, scan.stuck \cup {mark}} : scan' = [scan EXCEPT !.read = r + 1, !.stuck = stuck]
  BY DEF H!ReadEvents
<1>6. UNCHANGED <<clock, executions, signals>>
  BY DEF H!ReadEvents
<1> HIDE DEF last
<1>7. mark \in Suspicions /\ mark.run = r /\ mark.last = last
  BY <1>1, <1>4 DEF Suspicions
<1> HIDE DEF mark
<1>8. stuck \subseteq Suspicions
  BY <1>7, WatchdogFields
<1>9. scan' \in Scans
  <2>1. ASSUME NEW k \in Scans, NEW n \in Nat, NEW m \in SUBSET Suspicions
        PROVE  [k EXCEPT !.read = n, !.stuck = m] \in Scans
    BY DEF Scans
  <2>2. r + 1 \in Nat /\ scan \in Scans
    BY WatchdogFields
  <2>3. stuck \in SUBSET Suspicions
    BY <1>8
  <2> QED BY <1>5, <2>1, <2>2, <2>3
<1>10. scan'.listed = scan.listed /\ scan'.now = scan.now /\ scan'.stuck = stuck /\ scan'.read = r + 1
  BY <1>5, WatchdogFields DEF Scans
<1>11. ASSUME NEW x \in stuck, NEW t \in executions[x.run].events, t < scan.now PROVE t <= x.last
  <2>1. CASE x \in scan.stuck
    BY <1>11, <2>1 DEF WatchdogInv, WatchdogScan
  <2>2. CASE x = mark
    BY <1>4, <1>7, <1>11, <2>2
  <2> QED BY <2>1, <2>2
<1>12. WatchdogScan'
  BY <1>1, <1>2, <1>6, <1>10, <1>11, WatchdogNumbers DEF WatchdogScan
<1> QED BY <1>6, <1>9, <1>12, WatchdogGoesOn

LEMMA WatchdogGivesUp == ASSUME WatchdogInv, H!Mismatch PROVE WatchdogInv'
<1>1. scan' = H!NoScan /\ UNCHANGED <<clock, executions, signals>>
  BY DEF H!Mismatch
<1>2. scan' \in Scans
  BY <1>1 DEF H!NoScan, Scans
<1>3. WatchdogScan'
  BY <1>1, WatchdogNumbers DEF H!NoScan, WatchdogScan
<1> QED BY <1>1, <1>2, <1>3, WatchdogGoesOn

LEMMA WatchdogWrites == ASSUME WatchdogInv, H!Write PROVE WatchdogInv'
<1> DEFINE found == {s.run : s \in {x \in scan.stuck : x.last + StuckAfter <= scan.now}}
<1>1. scan.read > 0 /\ scan.now \in Nat /\ signals.at <= scan.now /\ scan.now <= clock
  BY WatchdogFields, WatchdogNumbers DEF H!Write, WatchdogInv, WatchdogScan
<1>2. /\ signals'.at = scan.now /\ signals'.changed = H!Since /\ signals'.stuck = found
      /\ scan' = H!NoScan /\ UNCHANGED <<clock, executions>>
  BY DEF H!Write, H!Now
<1>3. H!Since \in Nat /\ H!Since <= scan.now
  <2>1. signals.changed \in Nat /\ signals.at \in Nat /\ signals.changed <= signals.at
    BY DEF WatchdogInv, WatchdogShapes, WatchdogTimes
  <2> QED BY <1>1, <2>1 DEF H!Since, H!Now
<1>4. found \subseteq H!Run
  BY WatchdogFields DEF Suspicions
<1>5. ASSUME NEW r \in found, NEW t \in executions[r].events, t < scan.now
      PROVE  t + StuckAfter <= scan.now
  <2>1. PICK x \in scan.stuck : x.run = r /\ x.last + StuckAfter <= scan.now
    OBVIOUS
  <2>2. t <= x.last
    BY <1>5, <2>1 DEF WatchdogInv, WatchdogScan
  <2>3. x.last \in Nat /\ t \in Nat
    BY <1>4, WatchdogFields DEF Suspicions
  <2> QED BY <1>1, <2>1, <2>2, <2>3, WatchdogNumbers
<1> HIDE DEF found
<1>6. scan' \in Scans
  BY <1>2 DEF H!NoScan, Scans
<1>7. WatchdogShapes'
  BY <1>1, <1>2, <1>3, <1>4, <1>6 DEF WatchdogInv, WatchdogShapes
<1>8. WatchdogTimes'
  BY <1>1, <1>2, <1>3 DEF WatchdogInv, WatchdogTimes
<1>9. WatchdogScan'
  BY <1>2, WatchdogNumbers DEF H!NoScan, WatchdogScan
<1>10. H!NoFalseAlarm'
  BY <1>2, <1>5 DEF H!NoFalseAlarm
<1> QED BY <1>7, <1>8, <1>9, <1>10 DEF WatchdogInv

LEMMA WatchdogStep == ASSUME WatchdogInv, H!WatchdogNext PROVE WatchdogInv'
  BY WatchdogRuns, WatchdogLists, WatchdogTakes, WatchdogReads, WatchdogGivesUp,
     WatchdogWrites DEF H!WatchdogNext

LEMMA WatchdogRest == ASSUME WatchdogInv, UNCHANGED watchdogVars PROVE WatchdogInv'
  BY DEF watchdogVars, WatchdogInv, WatchdogShapes, WatchdogTimes, WatchdogScan, H!NoFalseAlarm

LEMMA WatchdogSays == ASSUME WatchdogInv PROVE H!WatchdogTypeOK /\ H!NoFalseAlarm
<1>1. clock \in 0 .. MaxTime /\ signals.at \in 0 .. clock /\ signals.changed \in 0 .. signals.at
  BY WatchdogFields, WatchdogNumbers DEF WatchdogInv, WatchdogShapes, WatchdogTimes
<1>2. ASSUME NEW r \in H!Run
      PROVE  /\ executions[r].status \in H!Active \cup {"queued", "ended"}
             /\ executions[r].seen \in 0 .. clock /\ executions[r].events \subseteq 0 .. clock
  <2>1. executions[r] \in RunRows /\ \A t \in executions[r].events : t \in Nat /\ t <= clock
    BY WatchdogFields DEF WatchdogInv, WatchdogTimes
  <2>2. executions[r].seen <= clock
    BY DEF WatchdogInv, WatchdogTimes
  <2> QED BY <2>1, <2>2, WatchdogFields DEF RunPlaces
<1>3. scan.read \in 0 .. Runs + 1 /\ Len(scan.listed) \in 0 .. Runs
  <2>1. Len(scan.listed) \in Nat
    BY WatchdogFields, Elements
  <2> QED BY <2>1, WatchdogFields, WatchdogNumbers DEF WatchdogInv, WatchdogScan
<1> QED BY <1>1, <1>2, <1>3 DEF WatchdogInv, H!WatchdogTypeOK
-----------------------------------------------------------------------------
(* The cards of a requirement (BoardCards).                                 *)

SpaceStates == {"none", "todo", "done", "gone"}
WorkCards == [status : {"none", "todo", "in_progress", "hidden"}, ours : BOOLEAN, moved : BOOLEAN]
Metas == [space : 0 .. MaxCards, closed : BOOLEAN, work : 0 .. MaxCards, pending : BOOLEAN]
CardLockedPlaces == {"space list", "space", "reconcile", "space record", "work list", "work", "work record"}
CardSyncs == [pc : CardLockedPlaces \cup {"idle", "select", "activate", "request", "work failed"},
              meta : Metas, saw : SUBSET K!Card, done : SUBSET K!Card, active : SUBSET K!Card,
              card : 0 .. MaxCards]
\* A place that works at a card knows it.
HasCard(k) ==
    k.pc \in {"reconcile", "space record", "work record", "activate"} => k.card \in K!Card

CardShapes ==
    /\ space \in [K!Card -> SpaceStates] /\ work \in [K!Card -> WorkCards] /\ meta \in Metas
    /\ ensures \in [Process -> CardSyncs] /\ \A p \in Process : HasCard(ensures[p])

CardLocks == \A p, q \in Process : ~K!Unlocked(p) /\ ~K!Unlocked(q) => p = q

\* A space card is open or closed, the work card is as it was made.
There(i) == space[i] \in {"todo", "done"}
Intact(i) == work[i].ours /\ ~work[i].moved

\* There is one, and who holds the lock has seen it in its list.
CardSpace ==
    /\ \A i, j \in K!Card : There(i) /\ There(j) => i = j
    /\ \A p \in Process : ensures[p].pc = "space" =>
          /\ \A i \in K!Card : There(i) => i \in ensures[p].saw
          /\ \A i \in ensures[p].saw : space[i] # "none"
    /\ \A p \in Process : ensures[p].pc = "reconcile" =>
          space[ensures[p].card] # "none" /\ ~meta.closed
CardWork ==
    /\ \A i, j \in K!Card : Intact(i) /\ Intact(j) => i = j
    /\ \A i \in K!Card : Intact(i) => K!Visible(work[i])
    /\ \A p \in Process : ensures[p].pc = "work" =>
          \A i \in K!Card : Intact(i) => i \in ensures[p].saw

CardsInv == CardShapes /\ CardLocks /\ CardSpace /\ CardWork

LEMMA CardsFields ==
    ASSUME CardsInv
    PROVE  /\ space \in [K!Card -> SpaceStates] /\ work \in [K!Card -> WorkCards] /\ meta \in Metas
           /\ ensures \in [Process -> CardSyncs] /\ \A p \in Process : HasCard(ensures[p])
           /\ K!Card = 1 .. MaxCards /\ MaxCards \in Nat
           /\ \A i \in K!Card : i \in 0 .. MaxCards
<1>1. K!Card = 1 .. MaxCards /\ MaxCards \in Nat
  BY PlanBounds DEF K!Card
<1> QED BY <1>1 DEF CardsInv, CardShapes

LEMMA AwayRight == K!Away \in CardSyncs /\ K!Away.pc = "idle" /\ HasCard(K!Away)
<1>1. MaxCards \in Nat
  BY PlanBounds
<1> DEFINE m == [space |-> 0, closed |-> FALSE, work |-> 0, pending |-> FALSE]
<1>2. m \in Metas
  BY <1>1 DEF Metas
<1> HIDE DEF m
<1>3. K!Away = [pc |-> "idle", meta |-> m, saw |-> {}, done |-> {}, active |-> {}, card |-> 0]
  BY DEF K!Away, m
<1> QED BY <1>1, <1>2, <1>3 DEF CardSyncs, HasCard

LEMMA CardsStart == ASSUME K!CardsInit PROVE CardsInv
<1>1. MaxCards \in Nat
  BY PlanBounds
<1>2. \A p \in Process : ensures[p] = K!Away
  BY DEF K!CardsInit
<1>3. meta \in Metas
  BY <1>1 DEF K!CardsInit, K!Away, Metas
<1>4. K!NoCard \in WorkCards /\ K!NoCard.ours = FALSE
  BY DEF K!NoCard, WorkCards
<1>5. CardShapes
  BY <1>2, <1>3, <1>4, AwayRight DEF K!CardsInit, CardShapes, SpaceStates
<1>6. CardLocks
  BY <1>2, AwayRight DEF CardLocks, K!Unlocked
<1>7. CardSpace
  BY <1>2, AwayRight DEF CardSpace, There, K!CardsInit
<1>8. CardWork
  BY <1>2, <1>4, AwayRight DEF CardWork, Intact, K!CardsInit
<1> QED BY <1>5, <1>6, <1>7, <1>8 DEF CardsInv

\* The place of a process, and that of the others.
LEMMA CardsPlace ==
    ASSUME CardsInv, NEW p \in Process, NEW k \in CardSyncs, HasCard(k),
           ensures' = [ensures EXCEPT ![p] = k]
    PROVE  /\ ensures' \in [Process -> CardSyncs] /\ ensures'[p] = k
           /\ \A q \in Process : q # p => ensures'[q] = ensures[q]
           /\ \A q \in Process : HasCard(ensures'[q])
  BY CardsFields

LEMMA CardsOthers ==
    ASSUME CardsInv, NEW p \in Process, NEW q \in Process, q # p, ~K!Unlocked(p)
    PROVE  ensures[q].pc \notin CardLockedPlaces
<1>1. K!Unlocked(q)
  BY DEF CardsInv, CardLocks
<1> QED BY <1>1 DEF K!Unlocked, CardLockedPlaces

LEMMA CardsLocks ==
    ASSUME CardsInv, NEW p \in Process, NEW k \in CardSyncs, HasCard(k),
           ensures' = [ensures EXCEPT ![p] = k],
           k.pc \in CardLockedPlaces => ~K!Unlocked(p) \/ K!LockFree
    PROVE  CardLocks'
<1>1. k.pc \notin CardLockedPlaces => K!Unlocked(p)'
  BY CardsPlace DEF K!Unlocked, CardSyncs
<1>2. \A q \in Process : q # p => (K!Unlocked(q)' <=> K!Unlocked(q))
  BY CardsPlace DEF K!Unlocked
<1>3. \A q \in Process : q # p /\ ~K!Unlocked(q)' => K!Unlocked(p)'
  BY <1>1, <1>2 DEF CardsInv, CardLocks, K!LockFree
<1> QED BY <1>2, <1>3 DEF CardsInv, CardLocks

\* A step that only moves a process.
LEMMA CardsMove ==
    ASSUME CardsInv, NEW p \in Process, NEW k \in CardSyncs, HasCard(k),
           ensures' = [ensures EXCEPT ![p] = k], UNCHANGED <<space, work, meta>>,
           k.pc \in CardLockedPlaces => ~K!Unlocked(p) \/ K!LockFree,
           k.pc = "space" => /\ \A i \in K!Card : There(i) => i \in k.saw
                             /\ \A i \in k.saw : space[i] # "none",
           k.pc # "reconcile",
           k.pc = "work" => \A i \in K!Card : Intact(i) => i \in k.saw
    PROVE  CardsInv'
<1>1. CardShapes'
  BY CardsPlace DEF CardsInv, CardShapes
<1>2. CardLocks'
  BY CardsLocks
<1>3. CardSpace'
  BY CardsPlace DEF CardsInv, CardSpace, There
<1>4. CardWork'
  BY CardsPlace DEF CardsInv, CardWork, Intact
<1> QED BY <1>1, <1>2, <1>3, <1>4 DEF CardsInv

\* A step of who holds the lock, at the space card.
LEMMA CardsSpaceChange ==
    ASSUME CardsInv, NEW p \in Process, NEW k \in CardSyncs, HasCard(k), ~K!Unlocked(p),
           ensures' = [ensures EXCEPT ![p] = k], UNCHANGED work,
           space' \in [K!Card -> SpaceStates], meta' \in Metas,
           \A i, j \in K!Card : There(i)' /\ There(j)' => i = j,
           k.pc \notin {"space", "work"}, k.pc = "reconcile" => space'[k.card] # "none" /\ ~meta'.closed
    PROVE  CardsInv'
<1>1. \A q \in Process : q # p => ensures'[q].pc \notin CardLockedPlaces
  BY CardsPlace, CardsOthers
<1>2. CardShapes'
  BY CardsPlace DEF CardsInv, CardShapes
<1>3. CardLocks'
  BY CardsLocks
<1>4. CardSpace'
  BY <1>1, CardsPlace DEF CardSpace, CardLockedPlaces
<1>5. CardWork'
  BY <1>1, CardsPlace DEF CardsInv, CardWork, Intact, CardLockedPlaces
<1> QED BY <1>2, <1>3, <1>4, <1>5 DEF CardsInv

\* A step at the work cards that makes none of ours.
LEMMA CardsWorkChange ==
    ASSUME CardsInv, NEW p \in Process, NEW k \in CardSyncs, HasCard(k),
           ensures' = [ensures EXCEPT ![p] = k] \/ UNCHANGED ensures,
           k.pc \notin CardLockedPlaces, UNCHANGED space,
           work' \in [K!Card -> WorkCards], meta' \in Metas, meta'.closed = meta.closed,
           \A i \in K!Card : Intact(i)' => Intact(i) /\ K!Visible(work'[i])
    PROVE  CardsInv'
<1>1. CASE ensures' = [ensures EXCEPT ![p] = k]
  <2>1. CardShapes'
    BY <1>1, CardsPlace DEF CardsInv, CardShapes
  <2>2. CardLocks'
    BY <1>1, CardsLocks
  <2>3. CardSpace'
    <3>1. \A q \in Process : ensures'[q].pc \in {"space", "reconcile"} => ensures'[q] = ensures[q]
      BY <1>1, CardsPlace DEF CardLockedPlaces
    <3>2. UNCHANGED <<space, meta.closed>>
      OBVIOUS
    <3> QED BY <3>1, <3>2 DEF CardsInv, CardSpace, There
  <2>4. CardWork'
    BY <1>1, CardsPlace DEF CardsInv, CardWork, CardLockedPlaces, K!Visible
  <2> QED BY <2>1, <2>2, <2>3, <2>4 DEF CardsInv
<1>2. CASE UNCHANGED ensures
  <2>1. CardShapes'
    BY <1>2 DEF CardsInv, CardShapes
  <2>2. CardLocks'
    BY <1>2 DEF CardsInv, CardLocks, K!Unlocked
  <2>3. CardSpace'
    BY <1>2 DEF CardsInv, CardSpace, There
  <2>4. CardWork'
    BY <1>2 DEF CardsInv, CardWork, K!Visible
  <2> QED BY <2>1, <2>2, <2>3, <2>4 DEF CardsInv
<1> QED BY <1>1, <1>2

LEMMA CardsAway ==
    ASSUME CardsInv, NEW p \in Process, K!Leave(p), UNCHANGED <<space, work, meta>>
    PROVE  CardsInv'
<1>1. ensures' = [ensures EXCEPT ![p] = K!Away]
  BY DEF K!Leave
<1> QED BY <1>1, AwayRight, CardsMove DEF CardLockedPlaces

\* A process goes to a place.
LEMMA CardsAt ==
    ASSUME CardsInv, NEW p \in Process, NEW pc \in CardLockedPlaces \cup {"idle", "select", "activate", "request", "work failed"},
           K!Goto(p, pc)
    PROVE  \E k \in CardSyncs :
              /\ k.pc = pc /\ k.saw = ensures[p].saw /\ k.card = ensures[p].card
              /\ ensures' = [ensures EXCEPT ![p] = k]
<1>1. ensures[p] \in CardSyncs
  BY CardsFields
<1>2. \A k \in CardSyncs : LET l == [k EXCEPT !.pc = pc]
                           IN  l \in CardSyncs /\ l.pc = pc /\ l.saw = k.saw /\ l.card = k.card
  BY DEF CardSyncs
<1>3. ensures' = [ensures EXCEPT ![p] = [ensures[p] EXCEPT !.pc = pc]]
  BY CardsFields DEF K!Goto
<1> QED BY <1>1, <1>2, <1>3

LEMMA CardsBegin ==
    ASSUME CardsInv, NEW p \in Process, K!SpaceBegins(p) \/ K!WorkBegins(p) PROVE CardsInv'
<1> DEFINE k(pc) == [ensures[p] EXCEPT !.pc = pc, !.meta = meta]
<1>1. ensures[p] \in CardSyncs /\ meta \in Metas
  BY CardsFields
<1>2. ASSUME NEW pc \in {"space list", "work list"}, ensures' = [ensures EXCEPT ![p] = k(pc)],
             K!LockFree, UNCHANGED <<space, work, meta>>
      PROVE  CardsInv'
  <2>1. k(pc) \in CardSyncs
    BY <1>1 DEF CardSyncs, CardLockedPlaces
  <2>2. k(pc).pc = pc
    BY <1>1 DEF CardSyncs
  <2> HIDE DEF k
  <2> QED BY <1>2, <2>1, <2>2, CardsMove DEF HasCard
<1>3. CASE K!SpaceBegins(p)
  <2>1. ensures' = [ensures EXCEPT ![p] = k("space list")]
    BY <1>3, CardsFields DEF K!SpaceBegins
  <2> QED BY <1>2, <1>3, <2>1 DEF K!SpaceBegins
<1>4. CASE K!WorkBegins(p)
  <2>1. ensures' = [ensures EXCEPT ![p] = k("work list")]
    BY <1>4, CardsFields DEF K!WorkBegins
  <2> QED BY <1>2, <1>4, <2>1 DEF K!WorkBegins
<1> QED BY <1>3, <1>4

LEMMA CardsSpaceLists ==
    ASSUME CardsInv, NEW p \in Process, K!SpaceLists(p) PROVE CardsInv'
<1> DEFINE saw == {i \in K!Card : space[i] \in {"todo", "done"}}
           done1 == {i \in K!Card : space[i] = "done"}
           k == [ensures[p] EXCEPT !.pc = "space", !.saw = saw, !.done = done1]
<1>1. ensures[p] \in CardSyncs /\ ~K!Unlocked(p)
  BY CardsFields DEF K!SpaceLists, K!At, K!Unlocked
<1>2. ensures' = [ensures EXCEPT ![p] = k] /\ UNCHANGED <<space, work, meta>>
  BY CardsFields DEF K!SpaceLists
<1>3. saw \subseteq K!Card /\ done1 \subseteq K!Card
  OBVIOUS
<1>4. /\ \A i \in K!Card : There(i) => i \in saw
      /\ \A i \in saw : space[i] # "none"
  BY DEF There
<1> HIDE DEF saw, done1
<1>5. k \in CardSyncs
  BY <1>1, <1>3 DEF CardSyncs, CardLockedPlaces
<1>6. k.pc = "space" /\ k.saw = saw
  BY <1>1 DEF CardSyncs
<1> HIDE DEF k
<1>7. HasCard(k)
  BY <1>6 DEF HasCard
<1> QED BY <1>1, <1>2, <1>4, <1>5, <1>6, <1>7, CardsMove

LEMMA CardsWorkLists ==
    ASSUME CardsInv, NEW p \in Process, K!WorkLists(p) PROVE CardsInv'
<1> DEFINE saw == {i \in K!Card : K!Visible(work[i])}
           k == [ensures[p] EXCEPT !.pc = "work", !.saw = saw]
<1>1. ensures[p] \in CardSyncs /\ ~K!Unlocked(p) /\ UNCHANGED <<space, work, meta>>
  BY CardsFields DEF K!WorkLists, K!At, K!Unlocked
<1>2. CASE ensures' = [ensures EXCEPT ![p].pc = "work", ![p].saw = saw]
  <2>1. ensures' = [ensures EXCEPT ![p] = k]
    BY <1>2, CardsFields
  <2>2. saw \subseteq K!Card /\ \A i \in K!Card : Intact(i) => i \in saw
    BY DEF CardsInv, CardWork
  <2> HIDE DEF saw
  <2>3. k \in CardSyncs
    BY <1>1, <2>2 DEF CardSyncs, CardLockedPlaces
  <2>4. k.pc = "work" /\ k.saw = saw
    BY <1>1 DEF CardSyncs
  <2> HIDE DEF k
  <2>5. HasCard(k)
    BY <2>4 DEF HasCard
  <2> QED BY <1>1, <2>1, <2>2, <2>3, <2>4, <2>5, CardsMove
<1>3. CASE K!Goto(p, "work failed")
  <2>1. PICK l \in CardSyncs : l.pc = "work failed" /\ ensures' = [ensures EXCEPT ![p] = l]
    BY <1>3, CardsAt
  <2> QED BY <1>1, <2>1, CardsMove DEF HasCard, CardLockedPlaces
<1> QED BY <1>2, <1>3 DEF K!WorkLists

LEMMA CardsSpaceFound ==
    ASSUME CardsInv, NEW p \in Process, K!SpaceFound(p) PROVE CardsInv'
<1>1. /\ ensures[p] \in CardSyncs /\ ensures[p].pc = "space" /\ ~K!Unlocked(p)
      /\ UNCHANGED <<space, work>> /\ meta \in Metas
  BY CardsFields DEF K!SpaceFound, K!At, K!Unlocked
<1>2. PICK i \in K!Candidates(p) :
         \/ meta' = [meta EXCEPT !.space = i, !.closed = TRUE] /\ K!Leave(p)
         \/ /\ meta' = K!Reopened(i)
            /\ ensures' = [ensures EXCEPT ![p].pc = "reconcile", ![p].card = i]
  BY DEF K!SpaceFound
<1>3. i \in K!Card /\ i \in 0 .. MaxCards /\ space[i] # "none"
  BY <1>1, CardsFields DEF K!Candidates, CardSyncs, CardsInv, CardSpace
<1>4. meta' \in Metas
  BY <1>1, <1>2, <1>3 DEF Metas, K!Reopened
<1>5. space' \in [K!Card -> SpaceStates] /\ \A a, b \in K!Card : There(a)' /\ There(b)' => a = b
  BY <1>1, CardsFields DEF CardsInv, CardSpace, There
<1>6. CASE K!Leave(p)
  <2>1. ensures' = [ensures EXCEPT ![p] = K!Away]
    BY <1>6 DEF K!Leave
  <2> QED BY <1>1, <1>4, <1>5, <2>1, AwayRight, CardsSpaceChange
<1>7. CASE meta' = K!Reopened(i) /\ ensures' = [ensures EXCEPT ![p].pc = "reconcile", ![p].card = i]
  <2> DEFINE k == [ensures[p] EXCEPT !.pc = "reconcile", !.card = i]
  <2>1. ensures' = [ensures EXCEPT ![p] = k]
    BY <1>7, CardsFields
  <2>2. k \in CardSyncs
    BY <1>1, <1>3 DEF CardSyncs, CardLockedPlaces
  <2>3. k.pc = "reconcile" /\ k.card = i
    BY <1>1 DEF CardSyncs
  <2> HIDE DEF k
  <2>4. ~meta'.closed
    BY <1>1, <1>7 DEF K!Reopened, Metas
  <2>5. HasCard(k)
    BY <1>3, <2>3 DEF HasCard
  <2> QED BY <1>1, <1>3, <1>4, <1>5, <2>1, <2>2, <2>3, <2>4, <2>5, CardsSpaceChange
<1> QED BY <1>2, <1>6, <1>7

LEMMA CardsReconciles ==
    ASSUME CardsInv, NEW p \in Process, K!Reconciles(p) PROVE CardsInv'
<1> DEFINE c == ensures[p].card
<1>1. /\ ensures[p].pc = "reconcile" /\ ~K!Unlocked(p) /\ UNCHANGED <<work, meta>> /\ meta \in Metas
      /\ ensures' = [ensures EXCEPT ![p] = K!Away]
  BY CardsFields DEF K!Reconciles, K!At, K!Unlocked, K!Leave
<1>2. c \in K!Card /\ space[c] # "none" /\ space[c] \in SpaceStates
  BY <1>1, CardsFields DEF HasCard, CardsInv, CardSpace
<1>3. UNCHANGED space \/ (space[c] # "gone" /\ space' = [space EXCEPT ![c] = "todo"])
  BY DEF K!Reconciles
<1> HIDE DEF c
<1>4. space' \in [K!Card -> SpaceStates]
  BY <1>3, CardsFields DEF SpaceStates
<1>5. \A i \in K!Card : There(i)' => There(i)
  BY <1>2, <1>3, CardsFields DEF There, SpaceStates
<1>6. \A i, j \in K!Card : There(i)' /\ There(j)' => i = j
  BY <1>5 DEF CardsInv, CardSpace
<1> QED BY <1>1, <1>4, <1>6, AwayRight, CardsSpaceChange

LEMMA CardsSpaceCreates ==
    ASSUME CardsInv, NEW p \in Process, K!SpaceCreates(p) PROVE CardsInv'
<1>1. /\ ensures[p] \in CardSyncs /\ ensures[p].pc = "space" /\ ~K!Unlocked(p)
      /\ UNCHANGED <<work, meta>> /\ meta \in Metas /\ K!Candidates(p) = {}
  BY CardsFields DEF K!SpaceCreates, K!At, K!Unlocked
<1>2. \A i \in K!Card : ~There(i)
  BY <1>1 DEF CardsInv, CardSpace, K!Candidates
<1>3. ASSUME NEW i \in K!NewSpace, space' = [space EXCEPT ![i] = "todo"]
      PROVE  /\ i \in K!Card /\ i \in 0 .. MaxCards /\ space' \in [K!Card -> SpaceStates]
             /\ \A a, b \in K!Card : There(a)' /\ There(b)' => a = b
  <2>1. i \in K!Card
    BY DEF K!NewSpace, K!New
  <2>2. space' \in [K!Card -> SpaceStates]
    BY <1>3, <2>1, CardsFields DEF SpaceStates
  <2>3. \A a \in K!Card : There(a)' => a = i
    BY <1>2, <1>3, <2>1, CardsFields DEF There
  <2> QED BY <2>1, <2>2, <2>3, CardsFields
<1>4. CASE K!Leave(p) /\ UNCHANGED space
  BY <1>1, <1>4, CardsAway
<1>5. ASSUME NEW i \in K!NewSpace, space' = [space EXCEPT ![i] = "todo"],
             \/ ensures' = [ensures EXCEPT ![p].pc = "space record", ![p].card = i]
             \/ K!Leave(p)
      PROVE  CardsInv'
  <2>1. CASE K!Leave(p)
    <3>1. ensures' = [ensures EXCEPT ![p] = K!Away]
      BY <2>1 DEF K!Leave
    <3> QED BY <1>1, <1>3, <1>5, <3>1, AwayRight, CardsSpaceChange
  <2>2. CASE ensures' = [ensures EXCEPT ![p].pc = "space record", ![p].card = i]
    <3> DEFINE k == [ensures[p] EXCEPT !.pc = "space record", !.card = i]
    <3>1. ensures' = [ensures EXCEPT ![p] = k]
      BY <2>2, CardsFields
    <3>2. i \in K!Card /\ i \in 0 .. MaxCards
      BY <1>3, <1>5
    <3>3. k \in CardSyncs
      BY <1>1, <3>2 DEF CardSyncs, CardLockedPlaces
    <3>4. k.pc = "space record" /\ k.card = i
      BY <1>1 DEF CardSyncs
    <3> HIDE DEF k
    <3>5. HasCard(k)
      BY <3>2, <3>4 DEF HasCard
    <3> QED BY <1>1, <1>3, <1>5, <3>1, <3>3, <3>4, <3>5, CardsSpaceChange
  <2> QED BY <1>5, <2>1, <2>2
<1> QED BY <1>4, <1>5 DEF K!SpaceCreates

LEMMA CardsSpaceRecords ==
    ASSUME CardsInv, NEW p \in Process, K!SpaceRecords(p) PROVE CardsInv'
<1>1. /\ ensures[p] \in CardSyncs /\ ensures[p].pc = "space record" /\ ~K!Unlocked(p)
      /\ UNCHANGED <<work, space>> /\ meta \in Metas
      /\ meta' = [meta EXCEPT !.space = ensures[p].card, !.closed = FALSE]
      /\ ensures' = [ensures EXCEPT ![p] = K!Away]
  BY CardsFields DEF K!SpaceRecords, K!At, K!Unlocked, K!Leave
<1>2. meta' \in Metas
  BY <1>1 DEF Metas, CardSyncs
<1>3. space' \in [K!Card -> SpaceStates] /\ \A a, b \in K!Card : There(a)' /\ There(b)' => a = b
  BY <1>1, CardsFields DEF CardsInv, CardSpace, There
<1> QED BY <1>1, <1>2, <1>3, AwayRight, CardsSpaceChange

LEMMA CardsSpaceUser ==
    ASSUME CardsInv, NEW i \in K!Card, K!UserMovesSpace(i) PROVE CardsInv'
<1>1. UNCHANGED <<work, meta, ensures>> /\ space[i] \in {"todo", "done"}
      /\ \E s \in {"todo", "done", "gone"} : space' = [space EXCEPT ![i] = s]
  BY DEF K!UserMovesSpace
<1>2. space' \in [K!Card -> SpaceStates] /\ space'[i] # "none"
      /\ \A j \in K!Card : j # i => space'[j] = space[j]
  BY <1>1, CardsFields DEF SpaceStates
<1>3. \A j \in K!Card : /\ There(j)' => There(j)
                        /\ space[j] # "none" => space'[j] # "none"
  BY <1>1, <1>2 DEF There
<1>4. CardShapes' /\ CardLocks'
  BY <1>1, <1>2 DEF CardsInv, CardShapes, CardLocks, K!Unlocked
<1>5. CardSpace'
  <2>1. \A p \in Process : ensures[p].saw \subseteq K!Card /\ HasCard(ensures[p])
    BY CardsFields DEF CardSyncs
  <2>2. \A a, b \in K!Card : There(a)' /\ There(b)' => a = b
    BY <1>3 DEF CardsInv, CardSpace
  <2>3. ASSUME NEW p \in Process, ensures'[p].pc = "space"
        PROVE  /\ \A a \in K!Card : There(a)' => a \in ensures'[p].saw
               /\ \A a \in ensures'[p].saw : space'[a] # "none"
    BY <1>1, <1>3, <2>1, <2>3 DEF CardsInv, CardSpace
  <2>4. ASSUME NEW p \in Process, ensures'[p].pc = "reconcile"
        PROVE  space'[ensures'[p].card] # "none" /\ ~meta'.closed
    <3>1. ensures[p].card \in K!Card /\ space[ensures[p].card] # "none" /\ ~meta.closed
      BY <1>1, <2>1, <2>4 DEF CardsInv, CardSpace, HasCard
    <3> QED BY <1>1, <1>3, <3>1
  <2> QED BY <2>2, <2>3, <2>4 DEF CardSpace
<1>6. CardWork'
  BY <1>1 DEF CardsInv, CardWork, Intact
<1> QED BY <1>4, <1>5, <1>6 DEF CardsInv

\* A step of who holds the lock, at the work card, or that only takes note of one.
LEMMA CardsWorkMade ==
    ASSUME CardsInv, NEW p \in Process, NEW k \in CardSyncs, HasCard(k), ~K!Unlocked(p),
           ensures' = [ensures EXCEPT ![p] = k], UNCHANGED space,
           work' \in [K!Card -> WorkCards], meta' \in Metas,
           \A i, j \in K!Card : Intact(i)' /\ Intact(j)' => i = j,
           \A i \in K!Card : Intact(i)' => K!Visible(work'[i]),
           k.pc \notin {"space", "work", "reconcile"}
    PROVE  CardsInv'
<1>1. \A q \in Process : q # p => ensures'[q].pc \notin CardLockedPlaces
  BY CardsPlace, CardsOthers
<1>2. CardShapes'
  BY CardsPlace DEF CardsInv, CardShapes
<1>3. CardLocks'
  BY CardsLocks
<1>4. CardSpace'
  BY <1>1, CardsPlace DEF CardsInv, CardSpace, There, CardLockedPlaces
<1>5. CardWork'
  BY <1>1, CardsPlace DEF CardWork, CardLockedPlaces, K!Visible
<1> QED BY <1>2, <1>3, <1>4, <1>5 DEF CardsInv

LEMMA CardsWorkFound ==
    ASSUME CardsInv, NEW p \in Process, K!WorkFound(p) PROVE CardsInv'
<1>1. /\ ensures[p] \in CardSyncs /\ ~K!Unlocked(p) /\ UNCHANGED <<space, work>> /\ meta \in Metas
      /\ ensures' = [ensures EXCEPT ![p] = K!Away]
  BY CardsFields DEF K!WorkFound, K!At, K!Unlocked, K!Leave
<1>2. PICK i \in ensures[p].saw : meta' = [meta EXCEPT !.work = i, !.pending = FALSE]
  BY DEF K!WorkFound
<1>3. i \in 0 .. MaxCards
  BY <1>1, CardsFields DEF CardSyncs
<1>4. meta' \in Metas
  BY <1>1, <1>2, <1>3 DEF Metas
<1>5. /\ work' \in [K!Card -> WorkCards] /\ \A a, b \in K!Card : Intact(a)' /\ Intact(b)' => a = b
      /\ \A a \in K!Card : Intact(a)' => K!Visible(work'[a])
  BY <1>1, CardsFields DEF CardsInv, CardWork, Intact
<1> QED BY <1>1, <1>4, <1>5, AwayRight, CardsWorkMade

LEMMA CardsWorkCreates ==
    ASSUME CardsInv, NEW p \in Process, K!WorkCreates(p) PROVE CardsInv'
<1> DEFINE new == [K!NoCard EXCEPT !.status = "todo", !.ours = TRUE]
<1>1. /\ ensures[p] \in CardSyncs /\ ensures[p].pc = "work" /\ ~K!Unlocked(p)
      /\ UNCHANGED <<space, meta>> /\ meta \in Metas
      /\ \A i \in ensures[p].saw : ~K!Takes(p, i)
  BY CardsFields DEF K!WorkCreates, K!At, K!Unlocked
\* The card of ours would have been seen, and taken.
<1>2. \A i \in K!Card : ~Intact(i)
  <2> SUFFICES ASSUME NEW i \in K!Card, Intact(i) PROVE FALSE
    OBVIOUS
  <2>1. i \in ensures[p].saw /\ work[i].ours
    BY <1>1 DEF CardsInv, CardWork, Intact
  <2>2. ensures[p].meta.work \notin ensures[p].saw
    BY <1>1 DEF K!Takes
  <2> QED BY <1>1, <2>1, <2>2 DEF K!Takes
<1>3. new \in WorkCards /\ K!Visible(new)
  BY DEF K!NoCard, WorkCards, K!Visible
<1> HIDE DEF new
<1>4. ASSUME NEW i \in K!NewWork, work' = [work EXCEPT ![i] = new]
      PROVE  /\ i \in K!Card /\ i \in 0 .. MaxCards /\ work' \in [K!Card -> WorkCards]
             /\ \A a, b \in K!Card : Intact(a)' /\ Intact(b)' => a = b
             /\ \A a \in K!Card : Intact(a)' => K!Visible(work'[a])
  <2>1. i \in K!Card
    BY DEF K!NewWork, K!New
  <2>2. work' \in [K!Card -> WorkCards] /\ work'[i] = new
    BY <1>3, <1>4, <2>1, CardsFields
  <2>3. \A a \in K!Card : Intact(a)' => a = i
    BY <1>2, <1>4, <2>1, CardsFields DEF Intact
  <2> QED BY <1>3, <2>1, <2>2, <2>3, CardsFields
<1>5. CASE K!Goto(p, "work failed") /\ UNCHANGED work
  <2>1. PICK l \in CardSyncs : l.pc = "work failed" /\ ensures' = [ensures EXCEPT ![p] = l]
    BY <1>5, CardsAt
  <2> QED BY <1>1, <1>5, <2>1, CardsMove DEF HasCard, CardLockedPlaces
<1>6. ASSUME NEW i \in K!NewWork, work' = [work EXCEPT ![i] = new],
             \/ ensures' = [ensures EXCEPT ![p].pc = "work record", ![p].card = i]
             \/ K!Goto(p, "work failed")
      PROVE  CardsInv'
  <2>1. CASE K!Goto(p, "work failed")
    <3>1. PICK l \in CardSyncs : l.pc = "work failed" /\ ensures' = [ensures EXCEPT ![p] = l]
      BY <2>1, CardsAt
    <3>2. HasCard(l)
      BY <3>1 DEF HasCard
    <3> QED BY <1>1, <1>4, <1>6, <3>1, <3>2, CardsWorkMade
  <2>2. CASE ensures' = [ensures EXCEPT ![p].pc = "work record", ![p].card = i]
    <3> DEFINE k == [ensures[p] EXCEPT !.pc = "work record", !.card = i]
    <3>1. ensures' = [ensures EXCEPT ![p] = k]
      BY <2>2, CardsFields
    <3>2. i \in K!Card /\ i \in 0 .. MaxCards
      BY <1>4, <1>6
    <3>3. k \in CardSyncs
      BY <1>1, <3>2 DEF CardSyncs, CardLockedPlaces
    <3>4. k.pc = "work record" /\ k.card = i
      BY <1>1 DEF CardSyncs
    <3> HIDE DEF k
    <3>5. HasCard(k)
      BY <3>2, <3>4 DEF HasCard
    <3> QED BY <1>1, <1>4, <1>6, <3>1, <3>3, <3>4, <3>5, CardsWorkMade
  <2> QED BY <1>6, <2>1, <2>2
<1> QED BY <1>5, <1>6 DEF K!WorkCreates, new

LEMMA CardsWorkRecords ==
    ASSUME CardsInv, NEW p \in Process, K!WorkRecords(p) PROVE CardsInv'
<1>1. /\ ensures[p] \in CardSyncs /\ meta \in Metas /\ UNCHANGED <<work, space>>
      /\ ensures' = [ensures EXCEPT ![p] = K!Away]
      /\ \/ meta' = [meta EXCEPT !.work = ensures[p].card, !.pending = FALSE]
         \/ meta' = [meta EXCEPT !.pending = TRUE]
  BY CardsFields DEF K!WorkRecords, K!Leave
<1>2. meta' \in Metas /\ meta'.closed = meta.closed
  BY <1>1 DEF Metas, CardSyncs
<1>3. /\ work' \in [K!Card -> WorkCards]
      /\ \A a \in K!Card : Intact(a)' => Intact(a) /\ K!Visible(work'[a])
  BY <1>1, CardsFields DEF CardsInv, CardWork, Intact
<1> QED BY <1>1, <1>2, <1>3, AwayRight, CardsWorkChange DEF CardLockedPlaces

LEMMA CardsSelects ==
    ASSUME CardsInv, NEW p \in Process, K!SelectLists(p) \/ K!Select(p) PROVE CardsInv'
<1>1. ensures[p] \in CardSyncs /\ UNCHANGED <<space, work, meta>>
  BY CardsFields DEF K!SelectLists, K!Select
<1>2. CASE K!SelectLists(p)
  <2> DEFINE saw == {i \in K!Card : work[i].status = "todo" /\ work[i].ours}
             active == {i \in K!Card : work[i].status = "in_progress"}
             k == [ensures[p] EXCEPT !.pc = "select", !.saw = saw, !.active = active]
  <2>1. ensures' = [ensures EXCEPT ![p] = k]
    BY <1>2, CardsFields DEF K!SelectLists
  <2>2. saw \subseteq K!Card /\ active \subseteq K!Card
    OBVIOUS
  <2> HIDE DEF saw, active
  <2>3. k \in CardSyncs
    BY <1>1, <2>2 DEF CardSyncs, CardLockedPlaces
  <2>4. k.pc = "select"
    BY <1>1 DEF CardSyncs
  <2> HIDE DEF k
  <2> QED BY <1>1, <2>1, <2>3, <2>4, CardsMove DEF HasCard, CardLockedPlaces
<1>3. CASE K!Select(p)
  <2>1. CASE K!Leave(p)
    BY <1>1, <2>1, CardsAway
  <2>2. CASE K!Goto(p, "request")
    <3>1. PICK l \in CardSyncs : l.pc = "request" /\ ensures' = [ensures EXCEPT ![p] = l]
      BY <2>2, CardsAt
    <3> QED BY <1>1, <3>1, CardsMove DEF HasCard, CardLockedPlaces
  <2> DEFINE i == CHOOSE j \in ensures[p].saw : TRUE
  <2>3. CASE /\ K!Cardinality(ensures[p].saw) = 1
             /\ ensures' = [ensures EXCEPT ![p].pc = "activate", ![p].card = i]
    <3> DEFINE k == [ensures[p] EXCEPT !.pc = "activate", !.card = i]
    <3>1. K!Cardinality(ensures[p].saw) = Cardinality(ensures[p].saw)
      BY DEF K!Cardinality, Cardinality
    <3>2. ensures[p].saw # {}
      BY <2>3, <3>1, FS_EmptySet
    <3>3. i \in K!Card /\ i \in 0 .. MaxCards
      BY <1>1, <3>2, CardsFields DEF CardSyncs
    <3> HIDE DEF i
    <3>4. ensures' = [ensures EXCEPT ![p] = k]
      BY <2>3, CardsFields
    <3>5. k \in CardSyncs
      BY <1>1, <3>3 DEF CardSyncs, CardLockedPlaces
    <3>6. k.pc = "activate" /\ k.card = i
      BY <1>1 DEF CardSyncs
    <3> HIDE DEF k
    <3>7. HasCard(k)
      BY <3>3, <3>6 DEF HasCard
    <3> QED BY <1>1, <3>4, <3>5, <3>6, <3>7, CardsMove DEF CardLockedPlaces
  <2> QED BY <1>3, <2>1, <2>2, <2>3 DEF K!Select
<1> QED BY <1>2, <1>3

LEMMA CardsActivates ==
    ASSUME CardsInv, NEW p \in Process, K!Activates(p) \/ K!Requests(p) PROVE CardsInv'
<1>1. /\ ensures' = [ensures EXCEPT ![p] = K!Away] /\ UNCHANGED <<space, meta>> /\ meta \in Metas
  BY CardsFields DEF K!Activates, K!Requests, K!Leave
<1>2. ASSUME NEW i \in K!Card, NEW card1 \in WorkCards, work' = [work EXCEPT ![i] = card1],
             card1.status = "in_progress", card1.ours => work[i].ours, card1.moved \/ ~work[i].moved \/ ~card1.ours
      PROVE  CardsInv'
  <2>1. work' \in [K!Card -> WorkCards]
    BY <1>2, CardsFields
  <2>2. ASSUME NEW a \in K!Card, Intact(a)' PROVE Intact(a) /\ K!Visible(work'[a])
    <3>1. CASE a = i
      <4>1. work'[a] = card1
        BY <1>2, <3>1, CardsFields
      <4> QED BY <1>2, <2>2, <3>1, <4>1 DEF Intact, K!Visible
    <3>2. CASE a # i
      <4>1. work'[a] = work[a]
        BY <1>2, <3>2, CardsFields
      <4> QED BY <2>2, <4>1 DEF Intact, CardsInv, CardWork
    <3> QED BY <3>1, <3>2
  <2> QED BY <1>1, <2>1, <2>2, AwayRight, CardsWorkChange DEF CardLockedPlaces
<1>3. CASE UNCHANGED work
  BY <1>1, <1>3, CardsAway DEF K!Leave
<1>4. CASE K!Activates(p)
  <2> DEFINE i == ensures[p].card
  <2>1. i \in K!Card /\ work[i] \in WorkCards
    BY <1>4, CardsFields DEF K!Activates, K!At, HasCard
  <2>2. UNCHANGED work \/ work' = [work EXCEPT ![i] = [work[i] EXCEPT !.status = "in_progress"]]
    BY <1>4, CardsFields DEF K!Activates
  <2>3. \A c \in WorkCards : LET d == [c EXCEPT !.status = "in_progress"]
                             IN  d \in WorkCards /\ d.status = "in_progress" /\ d.ours = c.ours /\ d.moved = c.moved
    BY DEF WorkCards
  <2> HIDE DEF i
  <2> DEFINE d == [work[i] EXCEPT !.status = "in_progress"]
  <2>4. d \in WorkCards /\ d.status = "in_progress" /\ d.ours = work[i].ours /\ d.moved = work[i].moved
    BY <2>1, <2>3
  <2>5. UNCHANGED work \/ work' = [work EXCEPT ![i] = d]
    BY <2>2
  <2> HIDE DEF d
  <2> QED BY <1>2, <1>3, <2>1, <2>4, <2>5
<1>5. CASE K!Requests(p)
  <2> DEFINE d == [K!NoCard EXCEPT !.status = "in_progress"]
  <2>1. d \in WorkCards /\ d.status = "in_progress" /\ ~d.ours
    BY DEF K!NoCard, WorkCards
  <2>2. UNCHANGED work \/ \E i \in K!NewWork : work' = [work EXCEPT ![i] = d]
    BY <1>5 DEF K!Requests
  <2> HIDE DEF d
  <2>3. \A i \in K!NewWork : i \in K!Card
    BY DEF K!NewWork, K!New
  <2> QED BY <1>2, <1>3, <2>1, <2>2, <2>3
<1> QED BY <1>4, <1>5

LEMMA CardsWorkUser ==
    ASSUME CardsInv, NEW i \in K!Card, K!UserMovesWork(i) PROVE CardsInv'
<1>1. UNCHANGED <<space, meta, ensures>> /\ meta \in Metas /\ work[i] \in WorkCards
  BY CardsFields DEF K!UserMovesWork
<1>2. PICK status \in {"todo", "hidden"} :
         work' = [work EXCEPT ![i].status = status, ![i].moved = TRUE]
  BY DEF K!UserMovesWork
<1> DEFINE d == [work[i] EXCEPT !.status = status, !.moved = TRUE]
<1>3. work' = [work EXCEPT ![i] = d]
  BY <1>2, CardsFields
<1>4. d \in WorkCards /\ d.moved
  BY <1>1 DEF WorkCards
<1> HIDE DEF d
<1>5. work' \in [K!Card -> WorkCards]
  BY <1>3, <1>4, CardsFields
<1>6. ASSUME NEW a \in K!Card, Intact(a)' PROVE Intact(a) /\ K!Visible(work'[a])
  <2>1. a # i /\ work'[a] = work[a]
    BY <1>3, <1>4, <1>6, CardsFields DEF Intact
  <2> QED BY <1>6, <2>1 DEF Intact, CardsInv, CardWork
<1>7. CardShapes' /\ CardLocks'
  BY <1>1, <1>5 DEF CardsInv, CardShapes, CardLocks, K!Unlocked
<1>8. CardSpace'
  BY <1>1 DEF CardsInv, CardSpace, There
<1>9. CardWork'
  BY <1>1, <1>6 DEF CardsInv, CardWork, K!Visible
<1> QED BY <1>7, <1>8, <1>9 DEF CardsInv

LEMMA CardsDies == ASSUME CardsInv, NEW p \in Process, K!Dies(p) PROVE CardsInv'
  BY CardsAway DEF K!Dies

LEMMA CardsStep == ASSUME CardsInv, K!SpaceNext \/ K!WorkNext PROVE CardsInv'
<1>1. CASE K!SpaceNext
  <2>1. ASSUME NEW p \in Process, K!SpaceRefuses(p) PROVE CardsInv'
    BY <2>1, CardsAway DEF K!SpaceRefuses
  <2> QED BY <1>1, <2>1, CardsBegin, CardsSpaceLists, CardsSpaceFound, CardsReconciles, CardsSpaceCreates,
             CardsSpaceRecords, CardsDies, CardsSpaceUser DEF K!SpaceNext
<1>2. CASE K!WorkNext
  BY <1>2, CardsBegin, CardsWorkLists, CardsWorkFound, CardsWorkCreates, CardsWorkRecords, CardsSelects,
     CardsActivates, CardsDies, CardsWorkUser DEF K!WorkNext
<1> QED BY <1>1, <1>2

LEMMA CardsRest == ASSUME CardsInv, UNCHANGED cardsVars PROVE CardsInv'
<1>1. UNCHANGED <<space, work, meta, ensures>>
  BY DEF cardsVars
<1>2. CardShapes' /\ CardLocks'
  BY <1>1 DEF CardsInv, CardShapes, CardLocks, K!Unlocked
<1>3. CardSpace' /\ CardWork'
  BY <1>1 DEF CardsInv, CardSpace, There, CardWork, Intact
<1> QED BY <1>2, <1>3 DEF CardsInv

LEMMA CardsSays == ASSUME CardsInv PROVE K!CardsTypeOK /\ K!OneCard
<1>1. K!Cardinality({p \in Process : ~K!Unlocked(p)}) <= 1
  <2> DEFINE S == {p \in Process : ~K!Unlocked(p)}
  <2>1. \A p, q \in S : p = q
    BY DEF CardsInv, CardLocks
  <2>2. K!Cardinality(S) = Cardinality(S)
    BY DEF K!Cardinality, Cardinality
  <2> HIDE DEF S
  <2>3. Cardinality(S) <= 1
    BY <2>1, AtMostOne
  <2> QED BY <2>2, <2>3 DEF S
<1>2. K!Cardinality({i \in K!Card : space[i] \in {"todo", "done"}}) <= 1
  <2> DEFINE S == {i \in K!Card : space[i] \in {"todo", "done"}}
  <2>1. \A i, j \in S : i = j
    BY DEF CardsInv, CardSpace, There
  <2>2. K!Cardinality(S) = Cardinality(S)
    BY DEF K!Cardinality, Cardinality
  <2> HIDE DEF S
  <2>3. Cardinality(S) <= 1
    BY <2>1, AtMostOne
  <2> QED BY <2>2, <2>3 DEF S
<1>3. K!Cardinality({i \in K!Card : work[i].ours /\ ~work[i].moved}) <= 1
  <2> DEFINE S == {i \in K!Card : work[i].ours /\ ~work[i].moved}
  <2>1. \A i, j \in S : i = j
    BY DEF CardsInv, CardWork, Intact
  <2>2. K!Cardinality(S) = Cardinality(S)
    BY DEF K!Cardinality, Cardinality
  <2> HIDE DEF S
  <2>3. Cardinality(S) <= 1
    BY <2>1, AtMostOne
  <2> QED BY <2>2, <2>3 DEF S
<1>4. K!OneCard
  BY <1>2, <1>3 DEF K!OneCard
<1>5. /\ \A i \in K!Card : space[i] \in {"none", "todo", "done", "gone"}
      /\ \A i \in K!Card : work[i].status \in {"none", "todo", "in_progress", "hidden"}
      /\ meta.space \in 0 .. MaxCards /\ meta.work \in 0 .. MaxCards
  BY CardsFields DEF SpaceStates, WorkCards, Metas
<1> QED BY <1>1, <1>4, <1>5 DEF K!CardsTypeOK

\* Only who reconciles opens the card, after he has noted that it is open.
LEMMA CardsStay == ASSUME CardsInv PROVE K!ClosedStays
  BY DEF CardsInv, CardSpace, K!ClosedStays, K!At
-----------------------------------------------------------------------------
(* The composition.                                                         *)

Parts == {"workbench", "tracked", "transport", "projection", "pump", "bindings", "dispatcher",
          "workspace", "claude", "cursor", "owner", "watchdog", "space card", "work card"}

SessionViewsInv ==
    /\ part = "workbench" => WorkbenchInv
    /\ part = "tracked" => TrackedInv
    /\ part = "transport" => TransportInv
    /\ part = "dispatcher" => DispatcherInv
    /\ part = "workspace" => WorkspaceInv
    /\ part = "claude" => ClaudeView
    /\ part = "cursor" => CursorInv

PlanViewsInv ==
    /\ part = "projection" => ProjectionInv
    /\ part = "pump" => PumpInv
    /\ part = "bindings" => BindInv
    /\ part = "owner" => OwnerInv
    /\ part = "watchdog" => WatchdogInv
    /\ part \in {"space card", "work card"} => CardsInv

WorkInv == part \in Parts /\ SessionViewsInv /\ PlanViewsInv

LEMMA WorkStart == Init => WorkInv
<1> SUFFICES ASSUME Init PROVE WorkInv
  OBVIOUS
<1>1. SessionViewsInv
  <2>1. part = "workbench" => WorkbenchInv
    BY WorkbenchStart DEF Init
  <2>2. part = "tracked" => TrackedInv
    BY TrackedStart DEF Init
  <2>3. part = "transport" => TransportInv
    BY TransportStart DEF Init
  <2>4. part = "dispatcher" => DispatcherInv
    BY DispatcherStart DEF Init
  <2>5. part = "workspace" => WorkspaceInv
    BY WorkspaceStart DEF Init
  <2>6. part = "claude" => ClaudeView
    BY ClaudeViewStart DEF Init
  <2>7. part = "cursor" => CursorInv
    BY CursorStart DEF Init
  <2> QED BY <2>1, <2>2, <2>3, <2>4, <2>5, <2>6, <2>7 DEF SessionViewsInv
<1>2. PlanViewsInv
  <2>1. part = "projection" => ProjectionInv
    BY ProjectionStart DEF Init
  <2>2. part = "pump" => PumpInv
    BY PumpStart DEF Init
  <2>3. part = "bindings" => BindInv
    BY BindingsStart DEF Init
  <2>4. part = "owner" => OwnerInv
    BY OwnerStart DEF Init
  <2>5. part = "watchdog" => WatchdogInv
    BY WatchdogStart DEF Init
  <2>6. part \in {"space card", "work card"} => CardsInv
    BY CardsStart DEF Init
  <2> QED BY <2>1, <2>2, <2>3, <2>4, <2>5, <2>6 DEF PlanViewsInv
<1>3. part \in Parts
  BY DEF Init, Parts
<1> QED BY <1>1, <1>2, <1>3 DEF WorkInv

\* A view rests while it is not its turn.
LEMMA WorkStep == WorkInv /\ [Next]_vars => WorkInv'
<1> SUFFICES ASSUME WorkInv, [Next]_vars PROVE WorkInv'
  OBVIOUS
<1>0. UNCHANGED part
  BY DEF Next, vars, InWorkbench, InTracked, InTransport, InProjection, InPump, InBindings,
         InDispatcher, InWorkspace, InClaude, InCursor, InOwner, InWatchdog, InCards
<1>1. SessionViewsInv'
  <2>1. part = "workbench" => WorkbenchInv'
    <3> SUFFICES ASSUME part = "workbench" PROVE WorkbenchInv'
      OBVIOUS
    <3>1. InWorkbench \/ UNCHANGED workbenchVars
      BY DEF Next, vars, InTracked, InTransport, InProjection, InPump, InBindings,
             InDispatcher, InWorkspace, InClaude, InCursor, InOwner, InWatchdog, InCards
    <3> QED BY <3>1, WorkbenchStep, WorkbenchRest DEF InWorkbench, WorkInv, SessionViewsInv
  <2>2. part = "tracked" => TrackedInv'
    <3> SUFFICES ASSUME part = "tracked" PROVE TrackedInv'
      OBVIOUS
    <3>1. InTracked \/ UNCHANGED trackedVars
      BY DEF Next, vars, InWorkbench, InTransport, InProjection, InPump, InBindings,
             InDispatcher, InWorkspace, InClaude, InCursor, InOwner, InWatchdog, InCards
    <3> QED BY <3>1, TrackedStep, TrackedRest DEF InTracked, WorkInv, SessionViewsInv
  <2>3. part = "transport" => TransportInv'
    <3> SUFFICES ASSUME part = "transport" PROVE TransportInv'
      OBVIOUS
    <3>1. InTransport \/ UNCHANGED transportVars
      BY DEF Next, vars, InWorkbench, InTracked, InProjection, InPump, InBindings,
             InDispatcher, InWorkspace, InClaude, InCursor, InOwner, InWatchdog, InCards
    <3> QED BY <3>1, TransportStep, TransportRest DEF InTransport, WorkInv, SessionViewsInv
  <2>4. part = "dispatcher" => DispatcherInv'
    <3> SUFFICES ASSUME part = "dispatcher" PROVE DispatcherInv'
      OBVIOUS
    <3>1. InDispatcher \/ UNCHANGED dispatcherVars
      BY DEF Next, vars, InWorkbench, InTracked, InTransport, InProjection, InPump,
             InBindings, InWorkspace, InClaude, InCursor, InOwner, InWatchdog, InCards
    <3> QED BY <3>1, DispatcherStep, DispatcherRest DEF InDispatcher, WorkInv, SessionViewsInv
  <2>5. part = "workspace" => WorkspaceInv'
    <3> SUFFICES ASSUME part = "workspace" PROVE WorkspaceInv'
      OBVIOUS
    <3>1. InWorkspace \/ UNCHANGED workspaceVars
      BY DEF Next, vars, InWorkbench, InTracked, InTransport, InProjection, InPump,
             InBindings, InDispatcher, InClaude, InCursor, InOwner, InWatchdog, InCards
    <3> QED BY <3>1, WorkspaceStep, WorkspaceRest DEF InWorkspace, WorkInv, SessionViewsInv
  <2>6. part = "claude" => ClaudeView'
    <3> SUFFICES ASSUME part = "claude" PROVE ClaudeView'
      OBVIOUS
    <3>1. InClaude \/ UNCHANGED <<adapter, results, cli, user, facade>>
      BY DEF Next, vars, InWorkbench, InTracked, InTransport, InProjection, InPump,
             InBindings, InDispatcher, InWorkspace, InCursor, InOwner, InWatchdog, InCards,
             sessionVars
    <3> QED BY <3>1, ClaudeViewStep, ClaudeViewRest DEF InClaude, WorkInv, SessionViewsInv
  <2>7. part = "cursor" => CursorInv'
    <3> SUFFICES ASSUME part = "cursor" PROVE CursorInv'
      OBVIOUS
    <3>1. InCursor \/ UNCHANGED <<adapter, results, cli, user, messages, prompter>>
      BY DEF Next, vars, InWorkbench, InTracked, InTransport, InProjection, InPump,
             InBindings, InDispatcher, InWorkspace, InClaude, InOwner, InWatchdog, InCards,
             sessionVars
    <3> QED BY <3>1, CursorStep, CursorRest DEF InCursor, WorkInv, SessionViewsInv
  <2>8. part' = part
    BY <1>0
  <2>9. (part = "workbench" => WorkbenchInv)'
    BY <2>1, <2>8
  <2>10. (part = "tracked" => TrackedInv)'
    BY <2>2, <2>8
  <2>11. (part = "transport" => TransportInv)'
    BY <2>3, <2>8
  <2>12. (part = "dispatcher" => DispatcherInv)'
    BY <2>4, <2>8
  <2>13. (part = "workspace" => WorkspaceInv)'
    BY <2>5, <2>8
  <2>14. (part = "claude" => ClaudeView)'
    BY <2>6, <2>8
  <2>15. (part = "cursor" => CursorInv)'
    BY <2>7, <2>8
  <2> QED BY <2>9, <2>10, <2>11, <2>12, <2>13, <2>14, <2>15 DEF SessionViewsInv
<1>2. PlanViewsInv'
  <2>1. part = "projection" => ProjectionInv'
    <3> SUFFICES ASSUME part = "projection" PROVE ProjectionInv'
      OBVIOUS
    <3>1. InProjection \/ UNCHANGED projectionVars
      BY DEF Next, vars, InWorkbench, InTracked, InTransport, InPump, InBindings,
             InDispatcher, InWorkspace, InClaude, InCursor, InOwner, InWatchdog, InCards
    <3> QED BY <3>1, ProjectionStep, ProjectionRest DEF InProjection, WorkInv, PlanViewsInv
  <2>2. part = "pump" => PumpInv'
    <3> SUFFICES ASSUME part = "pump" PROVE PumpInv'
      OBVIOUS
    <3>1. InPump \/ UNCHANGED pumpVars
      BY DEF Next, vars, InWorkbench, InTracked, InTransport, InProjection, InBindings,
             InDispatcher, InWorkspace, InClaude, InCursor, InOwner, InWatchdog, InCards
    <3> QED BY <3>1, PumpStep, PumpRest DEF InPump, WorkInv, PlanViewsInv
  <2>3. part = "bindings" => BindInv'
    <3> SUFFICES ASSUME part = "bindings" PROVE BindInv'
      OBVIOUS
    <3>1. InBindings \/ UNCHANGED bindingsVars
      BY DEF Next, vars, InWorkbench, InTracked, InTransport, InProjection, InPump,
             InDispatcher, InWorkspace, InClaude, InCursor, InOwner, InWatchdog, InCards
    <3> QED BY <3>1, BindingsStep, BindingsRest DEF InBindings, WorkInv, PlanViewsInv
  <2>4. part = "owner" => OwnerInv'
    <3> SUFFICES ASSUME part = "owner" PROVE OwnerInv'
      OBVIOUS
    <3>1. InOwner \/ UNCHANGED ownerVars
      BY DEF Next, vars, InWorkbench, InTracked, InTransport, InProjection, InPump,
             InBindings, InDispatcher, InWorkspace, InClaude, InCursor, InWatchdog, InCards
    <3> QED BY <3>1, OwnerStep, OwnerRest DEF InOwner, WorkInv, PlanViewsInv
  <2>5. part = "watchdog" => WatchdogInv'
    <3> SUFFICES ASSUME part = "watchdog" PROVE WatchdogInv'
      OBVIOUS
    <3>1. InWatchdog \/ UNCHANGED watchdogVars
      BY DEF Next, vars, InWorkbench, InTracked, InTransport, InProjection, InPump,
             InBindings, InDispatcher, InWorkspace, InClaude, InCursor, InOwner, InCards
    <3> QED BY <3>1, WatchdogStep, WatchdogRest DEF InWatchdog, WorkInv, PlanViewsInv
  <2>6. part \in {"space card", "work card"} => CardsInv'
    <3> SUFFICES ASSUME part \in {"space card", "work card"} PROVE CardsInv'
      OBVIOUS
    <3>1. InCards \/ UNCHANGED cardsVars
      BY DEF Next, vars, InWorkbench, InTracked, InTransport, InProjection, InPump,
             InBindings, InDispatcher, InWorkspace, InClaude, InCursor, InOwner, InWatchdog
    <3> QED BY <3>1, CardsStep, CardsRest DEF InCards, WorkInv, PlanViewsInv
  <2>7. part' = part
    BY <1>0
  <2>8. (part = "projection" => ProjectionInv)'
    BY <2>1, <2>7
  <2>9. (part = "pump" => PumpInv)'
    BY <2>2, <2>7
  <2>10. (part = "bindings" => BindInv)'
    BY <2>3, <2>7
  <2>11. (part = "owner" => OwnerInv)'
    BY <2>4, <2>7
  <2>12. (part = "watchdog" => WatchdogInv)'
    BY <2>5, <2>7
  <2>13. (part \in {"space card", "work card"} => CardsInv)'
    BY <2>6, <2>7
  <2> QED BY <2>8, <2>9, <2>10, <2>11, <2>12, <2>13 DEF PlanViewsInv
<1>3. (part \in Parts)'
  BY <1>0 DEF WorkInv, Parts
<1> QED BY <1>1, <1>2, <1>3 DEF WorkInv

LEMMA WorkInvariance == Spec => []WorkInv
  BY WorkStart, WorkStep, PTL DEF Spec
-----------------------------------------------------------------------------
(* The theorems.                                                            *)

\* A session works for one requirement, a task has one engine, and Claude's session is
\* not opened beside its probe, for every number of sessions, tasks and requirements
\* (session_runtime.py, execution_ownership.py, claude.py).
THEOREM OneOwnerAlways == Spec => []OneOwner
<1>1. WorkInv => OneOwner
  BY BindingsOne, DispatcherSays, ClaudeSays DEF WorkInv, SessionViewsInv, PlanViewsInv, ClaudeView, OneOwner
<1> QED BY <1>1, WorkInvariance, PTL

\* The log of an execution is a beginning of that of its attempt, its cursor is not ahead of
\* it and no event whose append has returned is lost, wherever the processes stop; and a state
\* of the main agent that is not stale shows the facts as they are (events.py, multi_agent.py,
\* main_agent.py).
THEOREM MirroredAlways == Spec => []Mirrored
<1>1. WorkInv => Mirrored
  BY TrackedSays, OwnerSays DEF WorkInv, SessionViewsInv, PlanViewsInv, Mirrored
<1> QED BY <1>1, WorkInvariance, PTL

\* Nobody sleeps through the failure of the connection, for every number of requests and every
\* capacity of the queue (stdio.py).
THEOREM ToldOfFailureAlways == Spec => []ToldOfFailure
<1>1. WorkInv => ToldOfFailure
  BY TransportSaid DEF WorkInv, SessionViewsInv, PlanViewsInv, ToldOfFailure
<1> QED BY <1>1, WorkInvariance, PTL

\* A completion that is noted is not lost to the one who waits for it; one that the reader has
\* dropped, because the event sink raised, is the last it has read, and the connection has failed
\* (codex.py, claude.py, stdio.py).
THEOREM CompletionsCount == Spec => CompletionCounts
<1> DEFINE Completing == /\ part = "transport" => T!CompletionKept
                         /\ part = "claude" => C!ResultGiven
<1>1. ASSUME WorkInv, Next, part = "transport" PROVE T!CompletionKept
  <2>1. T!TransportNext
    BY <1>1 DEF Next, InWorkbench, InTracked, InTransport, InProjection, InPump, InBindings,
       InDispatcher, InWorkspace, InClaude, InCursor, InOwner, InWatchdog, InCards
  <2> QED BY <1>1, <2>1, TransportKeeps DEF WorkInv, SessionViewsInv, PlanViewsInv
<1>2. ASSUME WorkInv, Next, part = "claude" PROVE C!ResultGiven
  <2>1. C!ClaudeNext
    BY <1>2 DEF Next, InWorkbench, InTracked, InTransport, InProjection, InPump, InBindings,
       InDispatcher, InWorkspace, InClaude, InCursor, InOwner, InWatchdog, InCards
  <2> QED BY <1>2, <2>1, ClaudeGiven DEF WorkInv, SessionViewsInv, PlanViewsInv, ClaudeView
<1>3. WorkInv /\ [Next]_vars => [Completing]_vars
  BY <1>1, <1>2
<1> HIDE DEF Completing
<1>4. Spec => [][Completing]_vars
  BY <1>3, WorkInvariance, PTL DEF Spec
<1> QED BY <1>4 DEF Completing, CompletionCounts

\* What the ledger of the projection acknowledges is on the card, and ours only while no user has
\* written, whatever answers are lost; a pump that has ended has handed in the last snapshot; a
\* requirement has one space card and one work card (projection.py, projection_pump.py,
\* task_attach.py).
THEOREM LedgerTrueAlways == Spec => []LedgerTrue
<1>1. WorkInv => LedgerTrue
  BY CardsSays, ProjectionSays, PumpSays DEF WorkInv, SessionViewsInv, PlanViewsInv, LedgerTrue
<1> QED BY <1>1, WorkInvariance, PTL

\* The projection writes to no card that a user has touched since it began or that is done, and
\* does not return to an older plan; a space card known to be closed is not opened (projection.py,
\* task_attach.py).
THEOREM UsersCardsStand == Spec => CardsRespected
<1> DEFINE Respecting == /\ part = "projection" => L!KeepsCard /\ L!KeepsSource
                         /\ part = "space card" => K!ClosedStays
<1>1. ASSUME WorkInv, [Next]_vars, part = "projection" PROVE [L!KeepsCard /\ L!KeepsSource]_vars
  <2>1. CASE UNCHANGED vars
    BY <2>1
  <2>2. CASE Next
    <3>1. L!ProjectionNext
      BY <1>1, <2>2 DEF Next, InWorkbench, InTracked, InTransport, InProjection, InPump, InBindings,
         InDispatcher, InWorkspace, InClaude, InCursor, InOwner, InWatchdog, InCards
    <3> QED BY <1>1, <3>1, ProjectionKeeps DEF WorkInv, SessionViewsInv, PlanViewsInv
  <2> QED BY <1>1, <2>1, <2>2
<1>2. ASSUME WorkInv, part = "space card" PROVE K!ClosedStays
  BY <1>2, CardsStay DEF WorkInv, SessionViewsInv, PlanViewsInv
<1>3. WorkInv /\ [Next]_vars => [Respecting]_vars
  BY <1>1, <1>2
<1> HIDE DEF Respecting
<1>4. Spec => [][Respecting]_vars
  BY <1>3, WorkInvariance, PTL DEF Spec
<1> QED BY <1>4 DEF Respecting, CardsRespected

\* Close finds every execution that this process has set running and has registered by then,
\* wherever start, reply and close fail; and an execution that is called stuck had no event of
\* progress in its log for stuck_seconds (workbench.py, supervisor_watchdog.py).
THEOREM NoFalseRunningAlways == Spec => []NoFalseRunning
<1>1. WorkInv => NoFalseRunning
  BY WorkbenchSays, WatchdogSays DEF WorkInv, SessionViewsInv, PlanViewsInv, NoFalseRunning
<1> QED BY <1>1, WorkInvariance, PTL

\* A prompt known to be running is not sent again, a candidate is what the worker left and nothing
\* foreign is touched, and a call changes the state that its caller has read, for every number of
\* tasks, commits, roots and agents (execution.py, git_workspace.py, main_agent.py).
THEOREM CallsStayInPlace == Spec => CallsInPlace
<1> DEFINE Safe == /\ part = "dispatcher" => D!SendsOnce
                   /\ part = "workspace" => G!ReturnsTrue /\ G!LeavesOthers
                   /\ part = "owner" => O!DecidedOnSeen
<1>1. ASSUME WorkInv, part = "dispatcher" PROVE D!SendsOnce
  BY <1>1, DispatcherSends DEF WorkInv, SessionViewsInv, PlanViewsInv
<1>2. ASSUME WorkInv, Next, part = "workspace" PROVE G!ReturnsTrue /\ G!LeavesOthers
  <2>1. G!WorkspaceNext
    BY <1>2 DEF Next, InWorkbench, InTracked, InTransport, InProjection, InPump, InBindings,
       InDispatcher, InWorkspace, InClaude, InCursor, InOwner, InWatchdog, InCards
  <2> QED BY <1>2, <2>1, WorkspaceKeeps DEF WorkInv, SessionViewsInv, PlanViewsInv
<1>3. ASSUME WorkInv, Next, part = "owner" PROVE O!DecidedOnSeen
  <2>1. O!OwnerNext
    BY <1>3 DEF Next, InWorkbench, InTracked, InTransport, InProjection, InPump, InBindings,
       InDispatcher, InWorkspace, InClaude, InCursor, InOwner, InWatchdog, InCards
  <2> QED BY <1>3, <2>1, OwnerDecides DEF WorkInv, SessionViewsInv, PlanViewsInv
<1>4. WorkInv /\ [Next]_vars => [Safe]_vars
  BY <1>1, <1>2, <1>3
<1> HIDE DEF Safe
<1>5. Spec => [][Safe]_vars
  BY <1>4, WorkInvariance, PTL DEF Spec
<1> QED BY <1>5 DEF Safe, CallsInPlace

\* All three, for every part and whatever fails (claude.py, stdio.py, projection.py, task_attach.py,
\* execution.py, git_workspace.py, main_agent.py).
THEOREM WorkSafeAlways == Spec => WorkSafe
  BY CompletionsCount, UsersCardsStand, CallsStayInPlace DEF WorkSafe

\* One session for each creation key and one delivery for each command, whatever answers are lost;
\* and what is taken for the answer to a prompt is the answer to it, and all of it; an interrupt
\* of Cursor stops the turn it names, one of Claude that turn, or a later one when that turn has
\* its result (workbench.py, claude.py, cursor.py).
THEOREM RepliesTrueAlways == Spec => []RepliesTrue
<1>1. WorkInv => RepliesTrue
  BY WorkbenchSays, ClaudeSays, ClaudeStops, CursorSays DEF WorkInv, SessionViewsInv, PlanViewsInv, ClaudeView, RepliesTrue
<1> QED BY <1>1, WorkInvariance, PTL

\* The shapes of the views, and who may hold their locks.
THEOREM TypeCorrect == Spec => []TypeOK
<1>1. ASSUME WorkInv PROVE TypeOK
  <2>1. part \in Parts
    BY <1>1 DEF WorkInv, SessionViewsInv, PlanViewsInv
  <2>2. /\ part = "workbench" => W!WorkbenchTypeOK
        /\ part = "tracked" => P!TrackedTypeOK
        /\ part = "transport" => T!TransportTypeOK
        /\ part = "projection" => L!ProjectionTypeOK
    BY <1>1, WorkbenchSays, TrackedSays, TransportSaid, ProjectionSays DEF WorkInv, SessionViewsInv, PlanViewsInv
  <2>3. /\ part = "pump" => U!PumpTypeOK
        /\ part = "bindings" => B!BindingsTypeOK
        /\ part = "dispatcher" => D!DispatcherTypeOK
        /\ part = "workspace" => G!WorkspaceTypeOK
    BY <1>1, PumpSays, BindingsTyped, DispatcherSays, WorkspaceSays DEF WorkInv, SessionViewsInv, PlanViewsInv
  <2>4. /\ part = "claude" => C!ClaudeTypeOK
        /\ part = "cursor" => A!CursorTypeOK
        /\ part = "owner" => O!OwnerTypeOK
        /\ part = "watchdog" => H!WatchdogTypeOK
        /\ part \in {"space card", "work card"} => K!CardsTypeOK
    BY <1>1, ClaudeSays, CursorSays, OwnerSays, WatchdogSays, CardsSays DEF WorkInv, SessionViewsInv, PlanViewsInv, ClaudeView
  <2>5. CASE part \in {"workbench", "tracked", "transport", "projection"}
    BY <2>2, <2>5 DEF TypeOK
  <2>6. CASE part \in {"pump", "bindings", "dispatcher", "workspace"}
    BY <2>3, <2>6 DEF TypeOK
  <2>7. CASE part \in {"claude", "cursor", "owner", "watchdog", "space card", "work card"}
    BY <2>4, <2>7 DEF TypeOK
  <2> QED BY <2>1, <2>5, <2>6, <2>7 DEF Parts
<1> QED BY <1>1, WorkInvariance, PTL
=============================================================================
