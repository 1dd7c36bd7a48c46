------------------------- MODULE RepairGate_session -------------------------
(***************************************************************************)
(* The invariant behind the theorems of RepairGate_review, for any sets of *)
(* workers and repairs and any number of commands, and what the steps keep *)
(* of the deliveries and of the session.                                   *)
(*                                                                         *)
(* It says where deliveries are (Place), that a task has at most the       *)
(* deliveries its status allows (Started, Once), who has the session       *)
(* (Session), and how far the review is (Review, Apart, Counted).          *)
(***************************************************************************)
EXTENDS RepairGate_proofs

-----------------------------------------------------------------------------
(* The invariant *)

\* The lease stays with a worker as long as it runs: every task that a running
\* worker owns is under the current lease, and deliveries are where the owner is.
Place ==
    /\ \A t \in Tasks : own[t].worker \in up => own[t] = lease
    /\ \A e \in execs : e.worker \in Workers =>
          e.worker \in up /\ e.lease = own[e.task] /\ e.lease.worker = e.worker
    /\ \A w \in up : \A m \in inbox[w] : own[m.task].worker = w
    /\ \A i \in 1..Len(sched.steps) : sched.steps[i] = "revoke" => sched.lease.worker \notin up
    /\ faults = 0 => up = Workers

\* There is at most one delivery of a repair.
Once ==
    /\ \A e, f \in execs :
          e.worker \in Workers /\ f.worker \in Workers /\ e.task = f.task /\ e.task \in Repairs
             => e = f
    /\ \A w \in up : \A m, n \in inbox[w] : m.task = n.task /\ m.task \in Repairs => m = n
    /\ \A e \in execs, w \in up : \A m \in inbox[w] :
          e.worker \in Workers /\ e.task \in Repairs => m.task # e.task

\* The session is exclusive for the repair inside, and for one that has been
\* delivered to this worker.
Session ==
    /\ \A w \in Workers : excl[w] # NoTask =>
          w \in up /\ own[excl[w]].worker = w /\ status[excl[w]] \notin {"none", "queued"}
    /\ \A e \in execs : Inside(e) =>
          excl[e.worker] = IF e.task \in Repairs THEN e.task ELSE NoTask
    /\ ExclusiveHasRepair
    /\ \A e \in execs : e.pc = "work" /\ e.task \in Repairs =>
          status[e.task] = "running" \/ e.task \in canceled \/ faults > 0

\* Deliveries of the workflow: one that has not begun, one that goes through
\* the commands.
AutoMsg == [task |-> AutoTask, kind |-> "run"]
Pending(e) == e.task = AutoTask /\ e.pc \in {"wait", "begin"}
Going(e) == e.task = AutoTask /\ e.pc \notin {"wait", "begin", "suspend"}

\* A repair runs or waits for its pipeline.
Engaged(r) == status[r] \in {"running", "waiting"}
Busy == \E r \in Repairs : Engaged(r)

\* At most one delivery has not begun, and then no other goes through the
\* commands.  A paused workflow (with its key) has none of either.
Review ==
    /\ paused => status[AutoTask] = "paused"
    /\ \A e \in execs : Pending(e) => status[AutoTask] = "assigned"
    /\ \A e \in execs : Going(e) => status[AutoTask] \in {"running", "paused"} /\ ~paused
    /\ \A w \in up : AutoMsg \in inbox[w] =>
          status[AutoTask] = "assigned" /\ \A e \in execs : ~Pending(e)
    /\ \A e, f \in execs : Pending(e) /\ Pending(f) => e = f
    /\ \A e, f \in execs : Going(e) /\ Going(f) => e = f

\* While a repair runs or waits there is no other delivery of the workflow
\* beside one that suspends, and none is past the pause: it has seen the gate
\* that this repair holds.
Apart ==
    Busy =>
        /\ \A e \in execs : Going(e) => e.pc \in {"check", "pause"} /\ status[AutoTask] = "running"
        /\ \A e \in execs, r \in Repairs : e.pc = "pause" /\ Engaged(r) => e.seen = r
        /\ \A e, f \in execs : e.task = AutoTask /\ f.task = AutoTask => e = f
        /\ \A e \in execs, w \in up : e.task = AutoTask => AutoMsg \notin inbox[w]

\* Without faults, the commands after the one that the workflow is to go on with
\* have not run.
NoneAfter(i) == \A c \in 1..Commands : c > i => ran[c] = 0
Counted ==
    faults = 0 =>
        /\ \A c \in 1..Commands : ran[c] <= 1
        /\ status[AutoTask] \in {"queued", "assigned"} \/ paused => NoneAfter(cursor)
        /\ \A e \in execs :
              /\ e.pc \in {"check", "pause", "cmd"} => NoneAfter(e.idx)
              /\ e.pc = "record" => NoneAfter(e.idx + 1)

SInv ==
    /\ IInv /\ TypeOK /\ Shaped /\ Place /\ Started /\ Once /\ Session
    /\ Review /\ Apart /\ Counted

-----------------------------------------------------------------------------
(* What keeps each part of the invariant *)

\* Owners change only to the lease there is then, or between dead workers; the
\* lease changes only when its worker is dead; deliveries go to the owner.
OwnersMove ==
    /\ up' \subseteq up
    /\ lease' = lease \/ lease.worker \notin up
    /\ \A t \in Tasks : \/ own'[t] = own[t] \/ own'[t] = lease'
                        \/ own'[t].worker \notin up /\ own[t].worker \notin up
DeliveredWell ==
    /\ \A x \in execs' : x.worker \in Workers =>
          /\ x.worker \in up'
          /\ \/ \E y \in execs : Ident(x, y)
             \/ x.lease = own'[x.task] /\ x.lease.worker = x.worker
    /\ \A w \in up' : \A m \in inbox'[w] : m \in inbox[w] \/ own'[m.task].worker = w
Revoking ==
    \A i \in 1..Len(sched.steps) : sched.steps[i] = "revoke" => sched.lease.worker \notin up
FaultsCount == faults' = 0 => faults = 0 /\ up' = up

LEMMA PlaceKept ==
    ASSUME TypeOK, TypeOK', Place, OwnersMove, DeliveredWell, Revoking', FaultsCount
    PROVE  Place'
<1>1. \A t \in Tasks : own'[t].worker \in up' => own'[t] = lease'
  BY DEF Place, OwnersMove
<1>2. \A t \in Tasks : own[t].worker \in up' => own'[t] = own[t]
  BY DEF Place, OwnersMove
<1>3. ASSUME NEW x \in execs', x.worker \in Workers
      PROVE  x.worker \in up' /\ x.lease = own'[x.task] /\ x.lease.worker = x.worker
  <2>1. x.worker \in up' /\ x.task \in Tasks
    BY <1>3 DEF DeliveredWell, TypeOK, Exec
  <2>2. ASSUME NEW y \in execs, Ident(x, y)
        PROVE  x.lease = own'[x.task] /\ x.lease.worker = x.worker
    <3>1. y.lease = own[y.task] /\ y.lease.worker = y.worker
      BY <1>3, <2>2 DEF Place, Ident
    <3> QED
      BY <1>2, <2>1, <2>2, <3>1 DEF Ident
  <2> QED
    BY <1>3, <2>1, <2>2 DEF DeliveredWell
<1>4. ASSUME NEW w \in up', NEW m \in inbox'[w]
      PROVE  own'[m.task].worker = w
  <2>1. CASE m \in inbox[w]
    <3>1. own[m.task].worker = w /\ m.task \in Tasks
      BY SMT, Z3, <2>1 DEF Place, OwnersMove, TypeOK, Msg
    <3> QED
      BY <1>2, <3>1
  <2> QED
    BY <2>1 DEF DeliveredWell
<1>5. faults' = 0 => up' = Workers
  BY DEF FaultsCount, Place
<1> QED
  BY <1>1, <1>3, <1>4, <1>5 DEF Place, Revoking

\* Deliveries in progress go on or end, new messages are the workflow's, and
\* no task of a running worker gets a status that waits for a delivery.
Delivered == {e \in execs : e.worker \in Workers}
Followed ==
    \/ Delivered' \subseteq Delivered
    \/ \E e \in Delivered : \E n : Ident(n, e) /\ Delivered' \subseteq (Delivered \ {e}) \cup {n}
OnlyAuto ==
    /\ up' \subseteq up
    /\ \A w \in up' : \A m \in inbox'[w] :
          m \in inbox[w] \/ (m = AutoMsg /\ status'[AutoTask] = "assigned")
Steady ==
    \A t \in Tasks : own[t].worker \in up =>
        /\ status'[t] \in {"none", "queued"} => status[t] \in {"none", "queued"}
        /\ status'[t] = "waiting" => status[t] = "waiting"

LEMMA DeliveriesKept ==
    ASSUME TypeOK, TypeOK', Place, Started, Once, Followed, OnlyAuto, Steady
    PROVE  Started' /\ Once'
<1>1. \A e \in Delivered : e \in execs /\ e.worker \in Workers /\ e.worker \in up
                           /\ own[e.task].worker \in up /\ e.task \in Tasks
  BY SMT, Z3 DEF Delivered, Place, TypeOK, Exec
<1>2. \A w \in up : \A m \in inbox[w] : own[m.task].worker \in up /\ m.task \in Tasks
  BY SMT, Z3 DEF Place, TypeOK, Msg
<1>3. \A x \in Delivered' : \E y \in Delivered : Ident(x, y)
  BY DEF Followed, Ident
<1>4. \A x \in execs' : x.worker \in Workers => x \in Delivered'
  BY DEF Delivered
<1>5. ASSUME NEW x \in execs', x.worker \in Workers
      PROVE  Sent(x.kind, status'[x.task])
  <2>1. PICK y \in Delivered : Ident(x, y)
    BY <1>3, <1>4, <1>5
  <2> QED
    BY SMT, Z3, <1>1, <2>1 DEF Started, Sent, Steady, Ident
<1>6. ASSUME NEW w \in up', NEW m \in inbox'[w]
      PROVE  Sent(m.kind, status'[m.task]) /\ (m.kind = "resume" => m.task \in Repairs)
  <2>1. CASE m \in inbox[w]
    BY <1>2, <2>1 DEF Started, Sent, Steady, OnlyAuto
  <2>2. CASE m = AutoMsg /\ status'[AutoTask] = "assigned"
    BY <2>2 DEF AutoMsg, Sent
  <2> QED
    BY <2>1, <2>2 DEF OnlyAuto
<1>7. \A w \in up' : w \in up /\ \A m \in inbox'[w] : m.task \in Repairs => m \in inbox[w]
  BY SMT, Z3, Constants DEF OnlyAuto, AutoMsg
<1>8. ASSUME NEW x \in execs', NEW y \in execs', x.worker \in Workers, y.worker \in Workers,
             x.task = y.task, x.task \in Repairs
      PROVE  x = y
  <2>1. x \in Delivered' /\ y \in Delivered'
    BY <1>4, <1>8
  <2>2. \A e, f \in Delivered : e.task = f.task /\ e.task \in Repairs => e = f
    BY <1>1 DEF Once
  <2> QED
    BY <1>8, <2>1, <2>2 DEF Followed, Ident
<1>9. ASSUME NEW x \in execs', NEW w \in up', NEW m \in inbox'[w],
             x.worker \in Workers, x.task \in Repairs
      PROVE  m.task # x.task
  <2>1. PICK y \in Delivered : Ident(x, y)
    BY <1>3, <1>4, <1>9
  <2> QED
    BY SMT, Z3, <1>1, <1>7, <1>9, <2>1 DEF Once, Ident
<1>10. \A w \in up' : \A m, n \in inbox'[w] : m.task = n.task /\ m.task \in Repairs => m = n
  BY <1>7 DEF Once
<1>11. Started'
  BY <1>5, <1>6 DEF Started
<1>12. Once'
  BY <1>8, <1>9, <1>10 DEF Once
<1> QED
  BY <1>11, <1>12

\* The repair `r` keeps running or waiting, but for a cancellation or a fault.
Calm(r) ==
    status[r] \in {"running", "waiting"} =>
        status'[r] = status[r] \/ r \in canceled' \/ faults' > 0
OwnersStay == \A r \in Repairs : own[r].worker \in up => own'[r] = own[r]
Grows == canceled \subseteq canceled' /\ FaultsCount

\* A step of nobody inside a session.
LEMMA SessionStays ==
    ASSUME TypeOK, TypeOK', Shaped, Shaped', Session, Steady, OwnersStay, Grows, UNCHANGED <<excl, up>>,
           Delivered' = Delivered, \A r \in Repairs : Calm(r)
    PROVE  Session'
<1>1. \A e : e.worker \in Workers => (e \in execs' <=> e \in execs)
  BY DEF Delivered
<1>2. \A w \in Workers : excl[w] # NoTask => excl[w] \in Repairs /\ excl[w] \in Tasks
  BY Constants DEF TypeOK
<1>3. faults \in Nat /\ faults' \in Nat /\ (faults > 0 => faults' > 0)
  <2>1. faults \in Nat /\ faults' \in Nat
    BY Zenon DEF TypeOK
  <2> QED
    BY SMT, Z3, <2>1 DEF Grows, FaultsCount
<1>4. \A w \in Workers : excl'[w] # NoTask =>
          w \in up' /\ own'[excl'[w]].worker = w /\ status'[excl'[w]] \notin {"none", "queued"}
  BY SMT, Z3, <1>2 DEF Session, OwnersStay, Steady
<1>5. \A e \in execs' : Inside(e) =>
          excl'[e.worker] = IF e.task \in Repairs THEN e.task ELSE NoTask
  BY <1>1 DEF Session, Inside
<1>6. ExclusiveHasRepair'
  <2> SUFFICES ASSUME NEW w \in Workers, excl[w] # NoTask
               PROVE  \/ \E e \in execs' : e.worker = w /\ e.task = excl[w]
                      \/ status'[excl[w]] = "waiting"
                      \/ excl[w] \in canceled' \/ faults' > 0
    BY DEF ExclusiveHasRepair
  <2> QED
    BY SMT, Z3, <1>1, <1>2, <1>3 DEF Session, ExclusiveHasRepair, Calm, Grows
<1>7. ASSUME NEW e \in execs', e.pc = "work", e.task \in Repairs
      PROVE  status'[e.task] = "running" \/ e.task \in canceled' \/ faults' > 0
  <2>1. e \in Exec /\ Fits(e)
    BY Zenon, <1>7 DEF TypeOK, Shaped, Fits
  <2>2. e \in execs
    BY SMT, Z3, <1>1, <1>7, <2>1, AtWorker
  <2> QED
    BY <1>3, <1>7, <2>2 DEF Session, Calm, Grows
<1> QED
  BY <1>4, <1>5, <1>6, <1>7 DEF Session

\* A step of an execution that goes on or ends.
LEMMA SessionGoes ==
    ASSUME TypeOK, TypeOK', Shaped, Shaped', Place, Once, Session, Steady, OwnersStay, Grows, UNCHANGED up,
           NEW e \in execs, Goes(e),
           \A r \in Repairs : Calm(r) \/ (r = e.task /\ e.worker \in Workers)
    PROVE  Session'
<1>1. \A w \in Workers : excl[w] # NoTask => excl[w] \in Repairs /\ excl[w] \in Tasks
  BY SMT, Z3, Constants DEF TypeOK
<1>2. faults \in Nat /\ faults' \in Nat /\ (faults > 0 => faults' > 0)
  <2>1. faults \in Nat /\ faults' \in Nat
    BY Zenon DEF TypeOK
  <2> QED
    BY SMT, Z3, <2>1 DEF Grows, FaultsCount
<1>3. \A w \in Workers : excl'[w] # NoTask => excl'[w] = excl[w]
  BY Zenon DEF Goes, Becomes, End, TypeOK
<1>4. \A w \in Workers : excl'[w] # NoTask =>
          w \in up' /\ own'[excl'[w]].worker = w /\ status'[excl'[w]] \notin {"none", "queued"}
  BY SMT, Z3, <1>1, <1>3 DEF Session, OwnersStay, Steady
<1>5. \A x \in execs' : x \in execs \ {e} \/ Becomes(e, x)
  BY SMT, Z3 DEF Goes, Becomes, End
<1>6. ASSUME NEW x \in execs', Inside(x)
      PROVE  excl'[x.worker] = IF x.task \in Repairs THEN x.task ELSE NoTask
  <2>1. CASE Becomes(e, x)
    BY <1>6, <2>1 DEF Session, Inside, Becomes, Ident, Goes
  <2>2. CASE x \in execs \ {e}
    <3>1. excl[x.worker] = (IF x.task \in Repairs THEN x.task ELSE NoTask)
      BY <1>6, <2>2 DEF Session
    <3>2. CASE excl' = excl
      BY <3>1, <3>2
    <3>3. CASE e.worker = x.worker /\ excl[e.worker] = e.task /\ e.task \in Repairs
      <4>1. x.task = e.task
        BY SMT, Z3, <3>1, <3>3, Constants
      <4> QED
        BY <1>6, <2>2, <3>3, <4>1 DEF Once, Inside
    <3>4. CASE excl' # excl /\ ~(e.worker = x.worker)
      <4>1. excl' = [excl EXCEPT ![e.worker] = NoTask]
        BY <3>4 DEF Goes, Becomes, End
      <4> QED
        BY <1>6, <3>1, <3>4, <4>1 DEF TypeOK, Inside
    <3> QED
      BY <3>2, <3>3, <3>4 DEF Goes, Becomes, End
  <2> QED
    BY <1>5, <2>1, <2>2
<1>7. ExclusiveHasRepair'
  <2> SUFFICES ASSUME NEW w \in Workers, excl'[w] # NoTask
               PROVE  \/ \E x \in execs' : x.worker = w /\ x.task = excl'[w]
                      \/ status'[excl'[w]] = "waiting"
                      \/ excl'[w] \in canceled' \/ faults' > 0
    BY DEF ExclusiveHasRepair
  <2>1. excl'[w] = excl[w] /\ excl[w] # NoTask /\ excl[w] \in Repairs
    BY <1>1, <1>3
  <2>2. CASE e.worker = w /\ e.task = excl[w]
    <3>1. ~End(e)
      BY Zenon, <2>1, <2>2 DEF End, TypeOK
    <3> QED
      BY Zenon, <2>1, <2>2, <3>1 DEF Goes, Becomes, Ident
  <2>3. CASE ~(e.worker = w /\ e.task = excl[w])
    <3>1. \A x \in execs : x # e => x \in execs'
      BY DEF Goes, Becomes, End
    <3>2. e.worker \in Workers => e.task # excl[w]
      BY SMT, Z3, <2>1, <2>3 DEF Place, Session
    <3>3. Calm(excl[w])
      BY <2>1, <3>2
    <3> QED
      BY SMT, Z3, <1>2, <2>1, <2>3, <3>1, <3>3 DEF Session, ExclusiveHasRepair, Calm, Grows
  <2> QED
    BY <2>2, <2>3
<1>8. ASSUME NEW x \in execs', x.pc = "work", x.task \in Repairs
      PROVE  status'[x.task] = "running" \/ x.task \in canceled' \/ faults' > 0
  <2>1. x.worker \in Workers
    BY Zenon, <1>8, AtWorker DEF TypeOK, Shaped
  <2>2. CASE Becomes(e, x)
    <3>1. x.task = e.task
      BY <2>2 DEF Becomes, Ident
    <3>2. CASE e.pc = "work" /\ UNCHANGED status
      BY <1>2, <1>8, <3>1, <3>2 DEF Session, Grows
    <3> QED
      BY SMT, Z3, <1>8, <2>2, <3>1, <3>2 DEF Becomes
  <2>3. CASE x \in execs \ {e}
    <3>1. e.worker \in Workers => x.task # e.task
      BY <1>8, <2>1, <2>3 DEF Once
    <3>2. Calm(x.task)
      BY Zenon, <1>8, <3>1
    <3> QED
      BY <1>2, <1>8, <2>3, <3>2 DEF Session, Calm, Grows
  <2> QED
    BY <1>5, <2>2, <2>3
<1> QED
  BY Zenon, <1>4, <1>6, <1>7, <1>8 DEF Session

-----------------------------------------------------------------------------
(* Hand-overs and statuses *)

\* The paused workflow gets a delivery under the lease there is then, at a time
\* when no repair runs or waits.
Woken ==
    /\ paused /\ status[AutoTask] = "paused" /\ paused' = FALSE
    /\ own' = [own EXCEPT ![AutoTask] = lease']
    /\ inbox' = [inbox EXCEPT ![lease'.worker] = @ \cup {AutoMsg}]
    /\ status'[AutoTask] = "assigned"
    /\ ~Busy'
NotWoken == UNCHANGED <<own, inbox, paused>> /\ status'[AutoTask] = status[AutoTask]

LEMMA ResumeAutoWakes ==
    ASSUME TypeOK, IInv, NEW t, NEW l, NEW held, ResumeAuto(t, l, held), held => l = lease'
    PROVE  /\ Woken \/ NotWoken
           /\ \A x \in Gated : status'[x] = status[x]
<1>1. \A x \in Gated : status'[x] = status[x]
  BY Zenon, Names DEF ResumeAuto, TypeOK
<1>2. CASE /\ gate = t /\ held /\ status[t] \in Terminal
           /\ paused /\ status[AutoTask] = "paused" /\ pausedBy = t
  <2>1. ~Busy
    BY <1>2, Names DEF Busy, Engaged, IInv, Core, GateHeldByActive, Active, Terminal
  <2>2. ~Busy'
    BY <1>1, <2>1, Names DEF Busy, Engaged
  <2>3. /\ own' = [own EXCEPT ![AutoTask] = lease'] /\ paused' = FALSE
        /\ inbox' = [inbox EXCEPT ![lease'.worker] = @ \cup {AutoMsg}]
        /\ status' = [status EXCEPT ![AutoTask] = "assigned"]
    BY Zenon, <1>2 DEF ResumeAuto, AutoMsg
  <2> QED
    BY <1>1, <1>2, <2>2, <2>3, Names DEF Woken, TypeOK
<1>3. CASE ~(/\ gate = t /\ held /\ status[t] \in Terminal
             /\ paused /\ status[AutoTask] = "paused" /\ pausedBy = t)
  BY <1>1, <1>3 DEF ResumeAuto, NotWoken, TypeOK
<1> QED
  BY Zenon, <1>2, <1>3

LEMMA FinalizeWakes ==
    ASSUME TypeOK, IInv, NEW r \in Repairs, NEW l, NEW rev, FinalizeCancel(r, l, rev), lease' = lease
    PROVE  /\ Woken \/ NotWoken
           /\ \A x \in Gated : \/ status'[x] = status[x]
                               \/ x = r /\ r \in canceled /\ status'[x] = "canceled"
<1> DEFINE may == /\ r \in canceled /\ r \in bound
                  /\ status[r] \notin {"completed", "failed"}
                  /\ l = NoLease \/ own[r] = l
                  /\ gate \in {NoTask, r}
           wake == /\ may /\ paused /\ own[r] # NoLease /\ lease = own[r]
                   /\ status[AutoTask] = "paused" /\ pausedBy = r
<1>1. r # AutoTask /\ r \in Gated /\ r \in Tasks /\ AutoTask \in Tasks
  BY Names
<1>2. CASE ~may
  BY Zenon, <1>2 DEF FinalizeCancel, NotWoken, TypeOK
<1>3. CASE may
  <2>1. status' = [status EXCEPT ![r] = "canceled",
                                 ![AutoTask] = IF wake THEN "assigned" ELSE status[AutoTask]]
    BY Zenon, <1>1, <1>3 DEF FinalizeCancel, TypeOK
  <2>2. /\ status'[r] = "canceled" /\ \A x \in Gated \ {r} : status'[x] = status[x]
        /\ status'[AutoTask] = IF wake THEN "assigned" ELSE status[AutoTask]
    BY <1>1, <2>1, Names DEF TypeOK
  <2>3. CASE ~wake
    BY Zenon, <1>3, <2>2, <2>3 DEF FinalizeCancel, NotWoken, TypeOK
  <2>4. CASE wake
    <3>1. ~Busy'
      BY Zenon, <1>1, <1>3, <2>2, Names DEF Busy, Engaged, IInv, Core, GateHeldByActive, Active, Terminal
    <3>2. /\ own' = [own EXCEPT ![AutoTask] = lease'] /\ paused' = FALSE
          /\ inbox' = [inbox EXCEPT ![lease'.worker] = @ \cup {AutoMsg}]
      BY Zenon, <2>4 DEF FinalizeCancel, AutoMsg
    <3> QED
      BY Zenon, <1>3, <2>2, <2>4, <3>1, <3>2 DEF Woken
  <2> QED
    BY <2>3, <2>4
<1> QED
  BY Zenon, <1>2, <1>3

\* No repair begins.
NoneEngages == \A r \in Repairs : Engaged(r)' => Engaged(r)

\* What a step of the execution `e` may do to statuses: nothing that waits for
\* a delivery, and nothing to another repair at work but for a cancellation.
StatusMoves(e) ==
    /\ Steady
    /\ \A r \in Repairs : Calm(r) \/ (r = e.task /\ e.worker \in Workers)
    /\ NoneEngages \/ Begin(e)
    /\ e.task # AutoTask => Woken \/ status'[AutoTask] = status[AutoTask]

\* The execution gives its own task another status; a repair's rollback is
\* admitted.
LEMMA OwnStatus ==
    ASSUME TypeOK, NEW e \in Exec, e.worker \in Workers,
           NEW s \in {"running", "completed", "failed", "paused"},
           s = "running" => Begin(e),
           status' = [status EXCEPT ![e.task] = s]
    PROVE  StatusMoves(e)
<1>1. e.task \in Tasks /\ \A t \in Tasks : status'[t] = IF t = e.task THEN s ELSE status[t]
  BY DEF TypeOK, Exec
<1>2. Steady /\ \A r \in Repairs : Calm(r) \/ (r = e.task /\ e.worker \in Workers)
  BY <1>1, Constants DEF Steady, Calm
<1>3. NoneEngages \/ Begin(e)
  BY Zenon, <1>1, Constants DEF NoneEngages, Engaged
<1>4. e.task # AutoTask => status'[AutoTask] = status[AutoTask]
  BY <1>1, Constants
<1> QED
  BY <1>2, <1>3, <1>4 DEF StatusMoves

LEMMA AdmitStatus ==
    ASSUME TypeOK, NEW e, NEW r \in Repairs, NEW trigger \in {"post_repair", "cancel", "auto_failure"},
           NEW rev, CanAdmitRollback(r, trigger, rev), AdmitRollback(r, trigger), UNCHANGED canceled
    PROVE  /\ Steady /\ NoneEngages /\ status'[AutoTask] = status[AutoTask]
           /\ \A q \in Repairs : Calm(q) \/ (q = r /\ trigger = "auto_failure")
<1> DEFINE b == Rollback(r)
<1>1. r \in Tasks /\ b \in Tasks /\ b \notin Repairs /\ b # AutoTask /\ r # AutoTask /\ AutoTask \in Tasks
  BY Names
<1>2. /\ status[b] = "none" /\ status'[b] = "queued"
      /\ status'[r] = status[r] \/ status'[r] \in {"canceled", "completed"}
      /\ trigger = "post_repair" => status'[r] = status[r]
      /\ trigger = "cancel" => r \in canceled
      /\ \A t \in Tasks : t # r /\ t # b => status'[t] = status[t]
  BY Zenon, <1>1 DEF TypeOK, CanAdmitRollback, AdmitRollback, Trigger
<1> HIDE DEF b
<1>3. Steady
  BY Zenon, <1>1, <1>2 DEF Steady
<1>4. NoneEngages
  BY Zenon, <1>1, <1>2, Constants DEF NoneEngages, Engaged
<1>5. \A q \in Repairs : Calm(q) \/ (q = r /\ trigger = "auto_failure")
  BY Zenon, <1>1, <1>2, Constants DEF Calm
<1> QED
  BY <1>1, <1>2, <1>3, <1>4, <1>5

\* The status a step leaves behind, for every step but the one that suspends a
\* repair.
LEMMA StatusSame ==
    ASSUME NEW e, UNCHANGED status
    PROVE  StatusMoves(e)
BY Zenon DEF StatusMoves, Steady, Calm, NoneEngages, Engaged

LEMMA ExecStatus ==
    ASSUME TypeOK, IInv, Shaped, NEW e \in execs, ExecStep(e), ~SuspendRepair(e)
    PROVE  StatusMoves(e) /\ (Woken \/ UNCHANGED <<own, inbox>>)
<1>1. e \in Exec /\ Fits(e) /\ e.task \in Tasks /\ UNCHANGED <<canceled, lease>>
  BY ExecFrame DEF TypeOK, Shaped, Exec
<1>2. CASE UNCHANGED status /\ UNCHANGED <<own, inbox>>
  BY <1>2, StatusSame
<1>3. ASSUME NEW s \in {"running", "completed", "failed", "paused"},
             status' = [status EXCEPT ![e.task] = s], s = "running" => Begin(e),
             e.pc \notin {"cancel", "cadmit", "cfinal"}, UNCHANGED <<own, inbox>>
      PROVE  StatusMoves(e)
  BY Zenon, <1>1, <1>3, AtWorker, OwnStatus
<1>4. CASE Begin(e)
  <2>1. /\ UNCHANGED <<own, inbox>> /\ e.pc = "begin"
        /\ UNCHANGED status \/ status' = [status EXCEPT ![e.task] = "running"]
    BY Zenon, <1>4 DEF Begin
  <2> QED
    BY <1>2, <1>3, <1>4, <2>1
<1>5. CASE Complete(e) \/ Failed(e) \/ \E o \in {"completed", "failed"} : FinishRollback(e, o)
  <2>1. /\ UNCHANGED <<own, inbox>> /\ e.pc \in {"complete", "failed", "work"}
        /\ \/ UNCHANGED status
           \/ \E s \in {"completed", "failed"} : status' = [status EXCEPT ![e.task] = s]
    BY Zenon, <1>5 DEF Complete, Failed, FinishRollback, CompleteRollback
  <2> QED
    BY <1>2, <1>3, <2>1
<1>6. CASE Pause(e) \/ SuspendAuto(e)
  <2>1. /\ UNCHANGED <<own, inbox>> /\ e.pc \in {"pause", "suspend"} /\ e.task = AutoTask
        /\ UNCHANGED status \/ status' = [status EXCEPT ![AutoTask] = "paused"]
    BY <1>1, <1>6 DEF Pause, SuspendAuto, Fits
  <2> QED
    BY Zenon, <1>2, <1>3, <2>1
<1>7. CASE AdmitFailed(e)
  <2>1. UNCHANGED <<own, inbox>> /\ e.task \in Repairs /\ e.worker \in Workers
    BY <1>1, <1>7, AtWorker DEF AdmitFailed, Fits
  <2>2. CASE CanAdmitRollback(e.task, "auto_failure", e.rev)
    <3>1. AdmitRollback(e.task, "auto_failure")
      BY <1>7, <2>2 DEF AdmitFailed
    <3> QED
      BY Zenon, <1>1, <2>1, <2>2, <3>1, AdmitStatus DEF StatusMoves
  <2>3. CASE ~CanAdmitRollback(e.task, "auto_failure", e.rev)
    BY <1>2, <1>7, <2>1, <2>3 DEF AdmitFailed
  <2> QED
    BY <2>2, <2>3
<1>8. CASE CancelAdmit(e)
  <2>1. UNCHANGED <<own, inbox>> /\ e.task \in Repairs
    BY <1>1, <1>8 DEF CancelAdmit, Fits
  <2>2. CASE UNCHANGED status
    BY <1>2, <2>1, <2>2
  <2>3. CASE CanAdmitRollback(e.task, "cancel", e.rev) /\ AdmitRollback(e.task, "cancel")
    BY Zenon, <1>1, <2>1, <2>3, AdmitStatus DEF StatusMoves
  <2> QED
    BY Zenon, <1>8, <2>2, <2>3 DEF CancelAdmit
<1>9. CASE CancelFinal(e)
  <2>1. e.task \in Repairs /\ FinalizeCancel(e.task, e.lease, e.rev)
    BY Zenon, <1>1, <1>9 DEF CancelFinal, Fits
  <2>2. /\ Woken \/ NotWoken
        /\ \A x \in Gated : \/ status'[x] = status[x]
                            \/ x = e.task /\ e.task \in canceled /\ status'[x] = "canceled"
    BY Zenon, <1>1, <2>1, FinalizeWakes
  <2>3. \A x \in Tasks : \/ status'[x] = status[x] \/ status'[x] = "assigned"
                         \/ status'[x] = "canceled"
    BY Zenon, <2>2, Constants DEF Woken, NotWoken
  <2>4. Steady
    BY Zenon, <2>3 DEF Steady
  <2>5. \A r \in Repairs : Calm(r)
    BY Zenon, <1>1, <2>2, Constants DEF Calm
  <2>6. NoneEngages
    BY <2>2, Constants DEF NoneEngages, Engaged
  <2> QED
    BY Zenon, <2>2, <2>4, <2>5, <2>6 DEF StatusMoves, NotWoken
<1>10. CASE Resume(e)
  <2>1. /\ Woken \/ NotWoken
        /\ \A x \in Gated : status'[x] = status[x]
    BY Zenon, <1>1, <1>10, ResumeAutoWakes DEF Resume, Holds
  <2>3. \A x \in Tasks : status'[x] = status[x] \/ status'[x] = "assigned"
    BY <2>1, Constants DEF Woken, NotWoken
  <2>4. Steady
    BY <2>3 DEF Steady
  <2>5. \A r \in Repairs : Calm(r)
    BY Zenon, <2>1, Constants DEF Calm
  <2>6. NoneEngages
    BY <2>1, Constants DEF NoneEngages, Engaged
  <2> QED
    BY <2>1, <2>4, <2>5, <2>6 DEF StatusMoves, NotWoken
<1>11. CASE \/ Enter(e) \/ Fail(e) \/ Push(e) \/ Error(e) \/ Settle(e)
            \/ \E ok \in BOOLEAN : Finish(e, ok)
            \/ PublishEligibility(e) \/ Notify(e) \/ Cancel(e) \/ Kill(e) \/ RollbackError(e)
            \/ Check(e) \/ RunCommand(e) \/ RecordCommand(e)
  <2>1. UNCHANGED <<status, own, inbox>>
    BY ZenonT(60), <1>11
       DEF Enter, Fail, Push, Error, Settle, Finish, PublishEligibility, Notify, Cancel,
                 Kill, RollbackError, Check, RunCommand, RecordCommand, taskVars
  <2> QED
    BY <1>2, <2>1
<1> QED
  BY Zenon, <1>4, <1>5, <1>6, <1>7, <1>8, <1>9, <1>10, <1>11
     DEF ExecStep, RepairStep, CancelStep, RollbackStep, AutoStep

-----------------------------------------------------------------------------
(* Deliveries and the session, step by step *)

\* What a hand-over does to owners and inboxes.
LEMMA WakeMoves ==
    ASSUME TypeOK, Woken \/ UNCHANGED <<own, inbox>>
    PROVE  /\ \A t \in Tasks : own'[t] = own[t] \/ (t = AutoTask /\ own'[t] = lease')
           /\ \A w \in Workers : \A m \in inbox'[w] :
                 \/ m \in inbox[w]
                 \/ m = AutoMsg /\ status'[AutoTask] = "assigned" /\ own'[m.task].worker = w
<1>1. CASE UNCHANGED <<own, inbox>>
  BY Zenon, <1>1
<1>2. CASE Woken
  <2>1. \A t \in Tasks : own'[t] = IF t = AutoTask THEN lease' ELSE own[t]
    BY <1>2 DEF Woken, TypeOK
  <2>2. AutoTask \in Tasks /\ AutoMsg.task = AutoTask
    BY Constants DEF AutoMsg
  <2>3. \A w \in Workers :
          inbox'[w] = IF w = lease'.worker THEN inbox[w] \cup {AutoMsg} ELSE inbox[w]
    BY Zenon, <1>2 DEF Woken, TypeOK
  <2> QED
    <3>1. status'[AutoTask] = "assigned"
      BY <1>2, <2>2 DEF Woken, TypeOK
    <3>2. own'[AutoMsg.task] = lease'
      BY Zenon, <2>1, <2>2
    <3> QED
      <4>1. ASSUME NEW w \in Workers, NEW m \in inbox'[w]
            PROVE  m \in inbox[w] \/ (m = AutoMsg /\ w = lease'.worker)
        BY Zenon, <2>3, <4>1
      <4>2. \A t \in Tasks : own'[t] = own[t] \/ (t = AutoTask /\ own'[t] = lease')
        BY Zenon, <2>1
      <4> QED
        BY Zenon, <3>1, <3>2, <4>1, <4>2
<1> QED
  BY <1>1, <1>2

\* A step of an execution that goes on or ends.
LEMMA GoesKeeps ==
    ASSUME TypeOK, TypeOK', IInv, Shaped, Shaped', Place, Started, Once, Session,
           NEW e \in execs, ExecStep(e), Goes(e), ~SuspendRepair(e)
    PROVE  Place' /\ Started' /\ Once' /\ Session'
<1>1. StatusMoves(e) /\ (Woken \/ UNCHANGED <<own, inbox>>)
  BY ExecStatus
<1>2. UNCHANGED <<canceled, up, lease, sched>> /\ up \subseteq Workers
  BY ZenonT(60), ExecFrame DEF TypeOK
<1>3. FaultsCount
  <2>1. faults' = faults \/ faults' = faults + 1
    BY Zenon, ExecFrame
  <2> QED
    BY SMT, Z3, <1>2, <2>1, Numbers DEF FaultsCount
<1>4. /\ \A t \in Tasks : own'[t] = own[t] \/ (t = AutoTask /\ own'[t] = lease')
      /\ \A w \in Workers : \A m \in inbox'[w] :
            \/ m \in inbox[w]
            \/ m = AutoMsg /\ status'[AutoTask] = "assigned" /\ own'[m.task].worker = w
  BY Zenon, <1>1, WakeMoves
<1>5. \A x \in execs' : x \in execs \/ Becomes(e, x)
  BY SMT, Z3 DEF Goes, Becomes, End
<1>6. OwnersMove
  BY Zenon, <1>2, <1>4 DEF OwnersMove
<1>7. DeliveredWell
  <2>1. \A x \in execs' : \E y \in execs : Ident(x, y)
    BY <1>5 DEF Becomes, Ident
  <2>2. \A x \in execs' : x.worker \in Workers => x.worker \in up'
    BY <1>2, <2>1 DEF Place, Ident
  <2> QED
    BY Zenon, <1>2, <1>4, <2>1, <2>2 DEF DeliveredWell
<1>8. Revoking'
  BY Zenon, <1>2 DEF Revoking, Place
<1>9. Place'
  BY <1>3, <1>6, <1>7, <1>8, PlaceKept
<1>10. Followed
  <2>1. CASE End(e)
    BY <2>1 DEF Followed, Delivered, End
  <2>2. ASSUME NEW n, Becomes(e, n)
        PROVE  Followed
    <3>1. execs' = (execs \ {e}) \cup {n} /\ Ident(n, e) /\ n.worker = e.worker
      BY Zenon, <2>2 DEF Becomes, Ident
    <3>2. CASE e.worker \in Workers
      <4>1. e \in Delivered /\ Delivered' \subseteq (Delivered \ {e}) \cup {n}
        BY <3>1, <3>2 DEF Delivered
      <4> QED
        BY <3>1, <4>1 DEF Followed
    <3>3. CASE e.worker \notin Workers
      BY Zenon, <3>1, <3>3 DEF Followed, Delivered
    <3> QED
      BY <3>2, <3>3
  <2> QED
    BY <2>1, <2>2 DEF Goes
<1>11. OnlyAuto
  BY <1>2, <1>4 DEF OnlyAuto
<1>12. Started' /\ Once'
  BY ZenonT(60), <1>1, <1>10, <1>11, DeliveriesKept DEF StatusMoves
<1>13. OwnersStay /\ Grows
  BY Zenon, <1>2, <1>3, <1>4, Constants DEF OwnersStay, Grows
<1>14. Session'
  BY Zenon, <1>1, <1>2, <1>13, SessionGoes DEF StatusMoves
<1> QED
  BY <1>9, <1>12, <1>14

\* An execution gets its turn.
LEMMA EnterKeeps ==
    ASSUME TypeOK, TypeOK', IInv, Shaped, Shaped', Place, Started, Once, Session,
           NEW e \in execs, Enter(e)
    PROVE  Place' /\ Started' /\ Once' /\ Session'
<1> DEFINE n == [e EXCEPT !.pc = "begin", !.rev = 0, !.seen = NoTask, !.ok = TRUE]
<1>1. e \in Exec /\ e.pc = "wait" /\ e.worker \in Workers /\ e.task \in Tasks
  BY Zenon, AtWorker DEF Enter, TypeOK, Shaped, Exec
<1>2. n.pc = "begin" /\ Ident(n, e) /\ n.worker = e.worker /\ n.task = e.task
  BY <1>1 DEF Exec, Ident
<1>3. execs' = (execs \ {e}) \cup {n}
  BY DEF Enter, Goto, Set
<1> HIDE DEF n
<1>4. UNCHANGED <<status, own, inbox, canceled, up, lease, sched, faults>> /\ up \subseteq Workers
  BY Zenon DEF Enter, taskVars, leaseVars, procVars, TypeOK
<1>5. Place'
  <2>1. OwnersMove /\ FaultsCount /\ Revoking'
    BY Zenon, <1>4 DEF OwnersMove, FaultsCount, Revoking, Place
  <2>2. \A x \in execs' : \E y \in execs : Ident(x, y)
    BY Zenon, <1>2, <1>3 DEF Ident
  <2>3. DeliveredWell
    BY <1>4, <2>2 DEF DeliveredWell, Place, Ident
  <2> QED
    BY <2>1, <2>3, PlaceKept
<1>6. Started' /\ Once'
  <2>1. e \in Delivered /\ Delivered' \subseteq (Delivered \ {e}) \cup {n}
    BY <1>1, <1>3 DEF Delivered
  <2>2. Followed
    BY <1>2, <2>1 DEF Followed
  <2>3. OnlyAuto /\ Steady
    BY Zenon, <1>4 DEF OnlyAuto, Steady
  <2> QED
    BY <2>2, <2>3, DeliveriesKept
<1>7. \/ /\ e.task \in Repairs /\ excl' = [excl EXCEPT ![e.worker] = e.task]
         /\ excl[e.worker] = e.task \/ (excl[e.worker] = NoTask /\ Normals(e.worker) = {})
      \/ e.task \notin Repairs /\ excl[e.worker] = NoTask /\ excl' = excl
  BY Zenon DEF Enter
<1>8. \A w \in Workers : /\ w # e.worker => excl'[w] = excl[w]
                         /\ e.task \in Repairs => excl'[e.worker] = e.task
  BY <1>1, <1>7 DEF TypeOK
<1>9. \A w \in Workers : excl'[w] # NoTask =>
         w \in up' /\ own'[excl'[w]].worker = w /\ status'[excl'[w]] \notin {"none", "queued"}
  <2>1. /\ e.worker \in up /\ own[e.task].worker = e.worker
        /\ status[e.task] \notin {"none", "queued"}
    BY Zenon, <1>1 DEF Place, Started, Sent
  <2> QED
    <3> SUFFICES ASSUME NEW w \in Workers, excl'[w] # NoTask
                 PROVE  /\ w \in up /\ own[excl'[w]].worker = w
                        /\ status[excl'[w]] \notin {"none", "queued"}
      BY Zenon, <1>4
    <3>1. CASE w = e.worker
      BY Zenon, <1>7, <1>8, <2>1, <3>1
    <3>2. CASE w # e.worker
      BY Zenon, <1>8, <3>2 DEF Session
    <3> QED
      BY ZenonT(60), <3>1, <3>2
<1>10. ASSUME NEW x \in execs', Inside(x)
       PROVE  excl'[x.worker] = IF x.task \in Repairs THEN x.task ELSE NoTask
  <2>1. CASE x = n
    BY <1>1, <1>2, <1>7, <1>8, <2>1
  <2>2. CASE x \in execs /\ excl'[x.worker] = excl[x.worker]
    BY ZenonT(60), <1>10, <2>2 DEF Session
  <2>3. CASE x \in execs /\ excl'[x.worker] # excl[x.worker]
    <3>1. x.worker = e.worker /\ excl[e.worker] = NoTask /\ Normals(e.worker) = {}
      BY Zenon, <1>7, <1>8, <1>10, <2>3 DEF Inside
    <3>2. x.task \in Repairs
      BY <1>10, <2>3, <3>1 DEF Normals
    <3> QED
      BY Zenon, <1>10, <2>3, <3>1, <3>2, Constants DEF Session
  <2> QED
    BY Zenon, <1>3, <2>1, <2>2, <2>3
<1>11. ExclusiveHasRepair'
  <2> SUFFICES ASSUME NEW w \in Workers, excl'[w] # NoTask
               PROVE  \/ \E x \in execs' : x.worker = w /\ x.task = excl'[w]
                      \/ status'[excl'[w]] = "waiting"
                      \/ excl'[w] \in canceled' \/ faults' > 0
    BY DEF ExclusiveHasRepair
  <2>1. CASE w = e.worker
    BY ZenonT(60), <1>2, <1>3, <1>7, <1>8, <2>1
  <2>2. CASE w # e.worker
    BY SMT, Z3, <1>3, <1>4, <1>8, <2>2 DEF Session, ExclusiveHasRepair
  <2> QED
    BY <2>1, <2>2
<1>12. \A x \in execs' : x.pc = "work" /\ x.task \in Repairs =>
          status'[x.task] = "running" \/ x.task \in canceled' \/ faults' > 0
  BY Zenon, <1>2, <1>3, <1>4 DEF Session
<1> QED
  BY Zenon, <1>5, <1>6, <1>9, <1>10, <1>11, <1>12 DEF Session

\* A repair waits for its pipeline; the session stays its own.
LEMMA SuspendKeeps ==
    ASSUME TypeOK, TypeOK', IInv, Shaped, Shaped', Place, Started, Once, Session,
           NEW e \in execs, SuspendRepair(e)
    PROVE  Place' /\ Started' /\ Once' /\ Session'
<1>1. e \in Exec /\ Fits(e) /\ e.pc = "work" /\ e.task \in Repairs
  BY Zenon DEF SuspendRepair, TypeOK, Shaped
<1>2. e.worker \in Workers /\ e.task \in Repairs /\ e.task \in Tasks
  BY <1>1, AtWorker, Constants DEF Fits
<1>3. Holds(e)
  BY Zenon, <1>2 DEF Holds, Place
<1>4. /\ execs' = execs \ {e} /\ excl' = excl
      /\ \A t \in Tasks : t # e.task => status'[t] = status[t]
      /\ status'[e.task] = IF status[e.task] = "running" THEN "waiting" ELSE status[e.task]
  BY Zenon, <1>2, <1>3 DEF SuspendRepair, TypeOK
<1>5. UNCHANGED <<own, inbox, canceled, up, lease, sched, faults>> /\ up \subseteq Workers
  BY Zenon DEF SuspendRepair, leaseVars, procVars, TypeOK
<1>6. Place'
  BY ZenonT(60), <1>4, <1>5 DEF Place
<1>7. \A x \in execs' : x \in execs /\ x.task \in Tasks /\ (x.worker \in Workers => x.task # e.task)
  BY Zenon, <1>2, <1>4 DEF Once, TypeOK, Exec
<1>8. \A w \in up : \A m \in inbox[w] : m.task # e.task /\ m.task \in Tasks
  BY SMT, Z3, <1>2 DEF Once, TypeOK, Msg
<1>9. Started'
  BY Zenon, <1>4, <1>5, <1>7, <1>8 DEF Started
<1>10. Once'
  BY Zenon, <1>4, <1>5 DEF Once
<1>11. \A w \in Workers : excl[w] # NoTask => excl[w] \in Tasks
  BY SMT, Z3, Constants DEF TypeOK
<1>12. status[e.task] = "running" \/ e.task \in canceled \/ faults > 0
  BY Zenon, <1>1, <1>2 DEF Session
<1>13. ExclusiveHasRepair'
  <2> SUFFICES ASSUME NEW w \in Workers, excl[w] # NoTask
               PROVE  \/ \E x \in execs' : x.worker = w /\ x.task = excl[w]
                      \/ status'[excl[w]] = "waiting"
                      \/ excl[w] \in canceled \/ faults > 0
    BY Zenon, <1>4, <1>5 DEF ExclusiveHasRepair
  <2>1. CASE excl[w] = e.task
    BY ZenonT(60), <1>4, <1>12, <2>1
  <2>2. CASE excl[w] # e.task
    BY Zenon, <1>4, <1>11, <2>2 DEF Session, ExclusiveHasRepair
  <2> QED
    BY Zenon, <2>1, <2>2
<1>14. \A w \in Workers : excl'[w] # NoTask =>
          w \in up' /\ own'[excl'[w]].worker = w /\ status'[excl'[w]] \notin {"none", "queued"}
  BY Zenon, <1>4, <1>5, <1>11 DEF Session
<1>15. \A x \in execs' : Inside(x) =>
          excl'[x.worker] = IF x.task \in Repairs THEN x.task ELSE NoTask
  BY ZenonT(60), <1>4, <1>7 DEF Session
<1>16. ASSUME NEW x \in execs', x.pc = "work", x.task \in Repairs
       PROVE  status'[x.task] = "running" \/ x.task \in canceled' \/ faults' > 0
  <2>1. x.worker \in Workers
    BY Zenon, <1>16, AtWorker DEF TypeOK, Shaped
  <2> QED
    BY Zenon, <1>4, <1>5, <1>7, <1>16, <2>1 DEF Session
<1> QED
  BY <1>6, <1>9, <1>10, <1>13, <1>14, <1>15, <1>16 DEF Session

LEMMA ExecKeeps ==
    ASSUME TypeOK, TypeOK', IInv, Shaped, Shaped', Place, Started, Once, Session,
           NEW e \in execs, ExecStep(e)
    PROVE  Place' /\ Started' /\ Once' /\ Session'
BY StepGoes, GoesKeeps, EnterKeeps, SuspendKeeps

\* A delivery is read.
LEMMA StartKeeps ==
    ASSUME TypeOK, TypeOK', Place, Started, Once, Session,
           NEW w \in Workers, NEW m \in inbox[w], Start(w, m)
    PROVE  Place' /\ Started' /\ Once' /\ Session'
<1> DEFINE n == Starting(w, m)
<1>1. /\ w \in up /\ m.task \in Tasks
      /\ execs' = execs \/ (execs' = execs \cup {n} /\ own[m.task].worker = w)
      /\ inbox' = [inbox EXCEPT ![w] = @ \ {m}]
  BY Zenon, StartFacts, Rest
<1>2. /\ UNCHANGED <<status, own, canceled, up, lease, sched, faults, excl>> /\ up \subseteq Workers
  BY Zenon DEF Start, taskVars, leaseVars, procVars, TypeOK
<1>3. /\ n.task = m.task /\ n.worker = w /\ n.lease = own[m.task] /\ n.kind = m.kind
      /\ n.pc = "wait"
  BY Zenon DEF Starting
<1>4. \A v \in Workers : inbox'[v] = IF v = w THEN inbox[v] \ {m} ELSE inbox[v]
  BY Zenon, <1>1 DEF TypeOK
<1> HIDE DEF n
<1>5. Place'
  <2>1. OwnersMove /\ FaultsCount /\ Revoking'
    BY ZenonT(60), <1>2 DEF OwnersMove, FaultsCount, Revoking, Place
  <2>2. \A x \in execs' : x.worker \in Workers =>
          /\ x.worker \in up'
          /\ \/ \E y \in execs : Ident(x, y)
             \/ x.lease = own'[x.task] /\ x.lease.worker = x.worker
    <3> SUFFICES ASSUME NEW x \in execs', x.worker \in Workers
                 PROVE  /\ x.worker \in up'
                        /\ \/ \E y \in execs : Ident(x, y)
                           \/ x.lease = own'[x.task] /\ x.lease.worker = x.worker
      BY Zenon
    <3>1. CASE x \in execs
      BY Zenon, <1>2, <3>1 DEF Place, Ident
    <3>2. CASE x = n /\ own[m.task].worker = w
      BY Zenon, <1>1, <1>2, <1>3, <3>2
    <3> QED
      BY Zenon, <1>1, <3>1, <3>2
  <2>3. DeliveredWell
    BY Zenon, <1>2, <1>4, <2>2 DEF DeliveredWell
  <2> QED
    BY <2>1, <2>3, PlaceKept
<1>6. Started'
  <2>1. \A v \in up : inbox'[v] \subseteq inbox[v]
    BY ZenonT(60), <1>2, <1>4
  <2>2. Sent(m.kind, status[m.task])
    BY <1>1 DEF Started
  <2> QED
    BY Zenon, <1>1, <1>2, <1>3, <2>1, <2>2 DEF Started
<1>7. Once'
  <2>1. ASSUME NEW v \in up, NEW k \in inbox'[v]
        PROVE  k \in inbox[v] /\ (k.task = m.task /\ m.task \in Repairs => execs' = execs)
    <3>1. k \in inbox[v] /\ (v = w => k # m)
      BY ZenonT(60), <1>2, <1>4, <2>1
    <3>2. CASE v = w
      BY Zenon, <1>1, <3>1, <3>2 DEF Once
    <3>3. CASE v # w
      BY SMT, Z3, <1>1, <3>1, <3>3 DEF Place
    <3> QED
      BY <3>1, <3>2, <3>3
  <2>2. \A e \in execs : e.worker \in Workers /\ e.task \in Repairs => e.task # m.task
    BY Zenon, <1>1 DEF Once
  <2>3. \A e, f \in execs' :
          e.worker \in Workers /\ f.worker \in Workers /\ e.task = f.task /\ e.task \in Repairs
             => e = f
    BY Zenon, <1>1, <1>3, <2>2 DEF Once
  <2>4. \A v \in up' : \A k, l \in inbox'[v] : k.task = l.task /\ k.task \in Repairs => k = l
    BY <1>2, <2>1 DEF Once
  <2>5. ASSUME NEW e \in execs', NEW v \in up', NEW k \in inbox'[v],
               e.worker \in Workers, e.task \in Repairs
        PROVE  k.task # e.task
    BY Zenon, <1>1, <1>2, <1>3, <2>1, <2>5 DEF Once
  <2> QED
    BY Zenon, <2>3, <2>4, <2>5 DEF Once
<1>8. Session'
  <2>1. ExclusiveHasRepair'
    BY Zenon, <1>1, <1>2 DEF Session, ExclusiveHasRepair
  <2>2. \A x \in execs' : Inside(x) \/ x.pc = "work" => x \in execs
    BY Zenon, <1>1, <1>3 DEF Inside
  <2> QED
    BY Zenon, <1>2, <2>1, <2>2 DEF Session
<1> QED
  BY <1>5, <1>6, <1>7, <1>8

\* A worker crashes.
LEMMA CrashKeeps ==
    ASSUME TypeOK, TypeOK', Place, Started, Once, Session, NEW w \in Workers, Crash(w)
    PROVE  Place' /\ Started' /\ Once' /\ Session'
<1>1. /\ up' = up \ {w} /\ up \subseteq Workers /\ faults' = faults + 1 /\ faults' > 0
      /\ execs' = {e \in execs : e.worker # w}
      /\ UNCHANGED <<status, own, canceled, lease, sched>>
  <2>1. /\ up' = up \ {w} /\ up \subseteq Workers /\ faults' = faults + 1
        /\ execs' = {e \in execs : e.worker # w}
        /\ UNCHANGED <<status, own, canceled, lease, sched>>
    BY Zenon DEF Crash, taskVars, leaseVars, TypeOK
  <2>2. faults' > 0
    BY SMT, Z3, <2>1, Numbers
  <2> QED
    BY Zenon, <2>1, <2>2
<1>2. \A v \in Workers : /\ v # w => excl'[v] = excl[v] /\ inbox'[v] = inbox[v]
                         /\ excl'[w] = NoTask
  BY Zenon DEF Crash, TypeOK
<1>3. Place'
  <2>1. /\ OwnersMove /\ Revoking'
        /\ \A v \in up' : \A m \in inbox'[v] : m \in inbox[v] \/ own'[m.task].worker = v
    BY Zenon, <1>1, <1>2 DEF OwnersMove, Revoking, Place
  <2>2. \A x \in execs' : x \in execs /\ x.worker # w /\ Ident(x, x)
    BY Zenon, <1>1 DEF Ident
  <2>3. DeliveredWell
    BY Zenon, <1>1, <2>1, <2>2 DEF DeliveredWell, Place
  <2>4. FaultsCount
    BY SMT, Z3, <1>1 DEF FaultsCount
  <2> QED
    BY <2>1, <2>3, <2>4, PlaceKept
<1>4. Started' /\ Once'
  <2>1. up' \subseteq up /\ execs' \subseteq execs /\ \A v \in up' : inbox'[v] = inbox[v]
    BY Zenon, <1>1, <1>2
  <2>2. Started'
    BY Zenon, <1>1, <2>1 DEF Started, Sent
  <2> QED
    BY Zenon, <2>1, <2>2 DEF Once
<1>5. Session'
  <2>1. ExclusiveHasRepair'
    BY Zenon, <1>1 DEF ExclusiveHasRepair
  <2>2. \A v \in Workers : excl'[v] # NoTask =>
          v \in up' /\ own'[excl'[v]].worker = v /\ status'[excl'[v]] \notin {"none", "queued"}
    BY Zenon, <1>1, <1>2 DEF Session
  <2>3. \A x \in execs' : Inside(x) =>
          excl'[x.worker] = IF x.task \in Repairs THEN x.task ELSE NoTask
    BY Zenon, <1>1, <1>2 DEF Session, Inside
  <2> QED
    BY Zenon, <1>1, <2>1, <2>2, <2>3 DEF Session
<1> QED
  BY <1>3, <1>4, <1>5

\* A step of none of the executions.
LEMMA NobodyKeeps ==
    ASSUME TypeOK, TypeOK', Shaped, Shaped', Place, Session, OwnersMove, OwnersStay, Grows, Steady,
           Revoking', UNCHANGED <<excl, up>>, Delivered' = Delivered,
           \A w \in up : \A m \in inbox'[w] : m \in inbox[w] \/ own'[m.task].worker = w,
           \A r \in Repairs : Calm(r)
    PROVE  Place' /\ Session' /\ Followed
<1>1. \A x \in execs' : x.worker \in Workers => x \in execs
  BY DEF Delivered
<1>2. DeliveredWell
  BY Zenon, <1>1 DEF DeliveredWell, Place, Ident
<1>3. Place'
  BY <1>2, PlaceKept DEF Grows
<1>4. Session'
  BY SessionStays
<1> QED
  BY Zenon, <1>3, <1>4 DEF Followed

\* The same for one that gives no delivery to a repair.
LEMMA IdleKeeps ==
    ASSUME TypeOK, TypeOK', Shaped, Shaped', Place, Started, Once, Session,
           OwnersMove, OwnersStay, Grows, Steady, Revoking', UNCHANGED <<excl, up>>,
           Delivered' = Delivered, Woken \/ UNCHANGED inbox,
           \A r \in Repairs : Calm(r)
    PROVE  Place' /\ Started' /\ Once' /\ Session'
<1>1. \A w \in Workers : \A m \in inbox'[w] :
         \/ m \in inbox[w]
         \/ m = AutoMsg /\ status'[AutoTask] = "assigned" /\ own'[m.task].worker = w
  <2>1. CASE Woken
    BY Zenon, <2>1, WakeMoves
  <2>2. CASE UNCHANGED inbox
    BY Zenon, <2>2
  <2> QED
    BY <2>1, <2>2
<1>2. up \subseteq Workers
  BY DEF TypeOK
<1>3. Place' /\ Session' /\ Followed
  BY Zenon, <1>1, <1>2, NobodyKeeps
<1>4. OnlyAuto
  BY <1>1, <1>2 DEF OnlyAuto
<1> QED
  BY Zenon, <1>3, <1>4, DeliveriesKept

\* The scheduler revokes no lease of a running worker.
LEMMA RevokingNext ==
    ASSUME TypeOK, Place, SchedKnows, NextStep, ~Idle, UNCHANGED up
    PROVE  Revoking' /\ 1 \in 1..Len(sched.steps) /\ Head(sched.steps) = sched.steps[1]
<1> DEFINE steps == sched.steps
<1>1. steps \in Seq(SchedSteps) /\ steps # <<>>
  BY DEF SchedKnows, Idle
<1>2. 1 \in 1..Len(steps) /\ Head(steps) = steps[1]
  <2>1. Len(steps) \in Nat /\ Len(steps) # 0
    BY <1>1, EmptySeq
  <2> QED
    BY SMT, Z3, <1>1, <2>1
<1>3. CASE Len(steps) = 1
  BY SMT, Z3, <1>2, <1>3 DEF NextStep, Revoking, NoSched
<1>4. CASE Len(steps) # 1
  <2>1. \A i \in 1..Len(Tail(steps)) : i + 1 \in 1..Len(steps) /\ Tail(steps)[i] = steps[i + 1]
    BY <1>1, <1>4, TailFacts
  <2>2. sched' = [task |-> sched.task, lease |-> sched.lease, steps |-> Tail(steps)]
    BY Zenon, <1>4 DEF NextStep, SchedKnows
  <2>3. \A i \in 1..Len(steps) : steps[i] = "revoke" => sched.lease.worker \notin up
    BY DEF Place
  <2>4. sched'.steps = Tail(steps) /\ sched'.lease = sched.lease
    BY <2>2
  <2> HIDE DEF steps
  <2>5. \A i \in 1..Len(Tail(steps)) : Tail(steps)[i] = "revoke" => sched.lease.worker \notin up
    BY <2>1, <2>3
  <2> QED
    BY <1>2, <2>4, <2>5 DEF Revoking, steps
<1> QED
  BY <1>2, <1>3, <1>4

LEMMA RevokingPass ==
    ASSUME TypeOK, NEW t \in Tasks, NEW steps, Pass(t, steps), UNCHANGED up,
           \/ Dead(own[t].worker)
           \/ \A i \in 1..Len(steps) : steps[i] # "revoke"
    PROVE  Revoking'
BY DEF Revoking, Pass, Dead

\* A claim gives the lease there is, or a new one when there is none.
LEMMA ClaimMoves ==
    ASSUME TypeOK, NEW w \in up, Claim(w)
    PROVE  /\ lease' = Claimed(w) /\ (lease' = lease \/ lease.worker \notin up)
           /\ lease # NoLease => lease' = lease
BY Leases DEF Claim, Claimed

\* A queued task is sent to the worker that has the MR.
LEMMA DispatchKeeps ==
    ASSUME TypeOK, TypeOK', Shaped, Shaped', Place, Started, Once, Session,
           NEW t \in Tasks, Dispatch(t)
    PROVE  Place' /\ Started' /\ Once' /\ Session'
<1> DEFINE k == [task |-> t, kind |-> "run"]
<1>1. /\ UNCHANGED <<canceled, up, faults, excl, execs, sched>> /\ status[t] = "queued"
      /\ up \subseteq Workers /\ Delivered' = Delivered
  BY Zenon DEF Dispatch, procVars, TypeOK, Delivered
<1>2. PICK w \in up : /\ Claim(w) /\ Claimed(w).worker \in up
                      /\ status' = [status EXCEPT ![t] = "assigned"]
                      /\ own' = [own EXCEPT ![t] = Claimed(w)]
                      /\ inbox' = [inbox EXCEPT ![Claimed(w).worker] = @ \cup {k}]
  BY Zenon DEF Dispatch
<1>3. /\ lease' = Claimed(w) /\ (lease' = lease \/ lease.worker \notin up)
      /\ lease # NoLease => lease' = lease
  BY <1>2, ClaimMoves
<1>4. \A x \in Tasks : /\ own'[x] = IF x = t THEN lease' ELSE own[x]
                       /\ status'[x] = IF x = t THEN "assigned" ELSE status[x]
  BY Zenon, <1>2, <1>3 DEF TypeOK
<1>5. \A v \in up : \A m \in inbox'[v] : m \in inbox[v] \/ (m = k /\ v = lease'.worker)
  <2>1. \A v \in up : inbox'[v] = IF v = lease'.worker THEN inbox[v] \cup {k} ELSE inbox[v]
    BY Zenon, <1>1, <1>2, <1>3 DEF TypeOK
  <2> QED
    BY Zenon, <2>1
<1>6. k.task = t /\ k.kind = "run"
  OBVIOUS
<1> HIDE DEF k
<1>7. OwnersMove /\ Grows /\ Revoking' /\ Steady
  BY Zenon, <1>1, <1>3, <1>4 DEF OwnersMove, Grows, FaultsCount, Revoking, Place, Steady
<1>8. OwnersStay
  BY Zenon, <1>3, <1>4, Leases, Constants DEF OwnersStay, Place
<1>9. \A r \in Repairs : Calm(r)
  BY ZenonT(60), <1>1, <1>4, Constants DEF Calm
<1>10. \A v \in up : \A m \in inbox'[v] : m \in inbox[v] \/ own'[m.task].worker = v
  BY ZenonT(60), <1>4, <1>5, <1>6
<1>11. Place' /\ Session'
  BY ZenonT(60), <1>1, <1>7, <1>8, <1>9, <1>10, NobodyKeeps
<1>12. /\ \A e \in execs : e.worker \in Workers => e.task # t /\ e.task \in Tasks
       /\ \A v \in up : \A m \in inbox[v] : m.task # t /\ m.task \in Tasks
  <2>1. /\ \A e \in execs : e.task \in Tasks
        /\ \A v \in up : \A m \in inbox[v] : m.task \in Tasks
    <3>1. execs \subseteq Exec /\ \A v \in up : inbox[v] \subseteq Msg
      BY Zenon, <1>1 DEF TypeOK
    <3> QED
      BY <3>1 DEF Exec, Msg
  <2> QED
    BY Zenon, <1>1, <2>1 DEF Started, Sent
<1>13. Started'
  <2>1. ASSUME NEW e \in execs', e.worker \in Workers
        PROVE  Sent(e.kind, status'[e.task])
    BY Zenon, <1>1, <1>4, <1>12, <2>1 DEF Started
  <2>2. ASSUME NEW v \in up', NEW m \in inbox'[v]
        PROVE  Sent(m.kind, status'[m.task]) /\ (m.kind = "resume" => m.task \in Repairs)
    <3>1. CASE m \in inbox[v]
      BY Zenon, <1>1, <1>4, <1>12, <2>2, <3>1 DEF Started
    <3>2. CASE m = k
      BY Zenon, <1>4, <1>6, <3>2 DEF Sent
    <3> QED
      BY Zenon, <1>1, <1>5, <2>2, <3>1, <3>2
  <2> QED
    BY Zenon, <2>1, <2>2 DEF Started
<1>14. Once'
  <2>1. \A e, f \in execs' :
          e.worker \in Workers /\ f.worker \in Workers /\ e.task = f.task /\ e.task \in Repairs
             => e = f
    BY Zenon, <1>1 DEF Once
  <2>2. \A v \in up' : \A m, n \in inbox'[v] : m.task = n.task /\ m.task \in Repairs => m = n
    <3> SUFFICES ASSUME NEW v \in up, NEW m \in inbox'[v], NEW n \in inbox'[v],
                        m.task = n.task, m.task \in Repairs
                 PROVE  m = n
      BY Zenon, <1>1
    <3>1. CASE m \in inbox[v] /\ n \in inbox[v]
      BY Zenon, <3>1 DEF Once
    <3>2. (m \in inbox[v] \/ m = k) /\ (n \in inbox[v] \/ n = k)
      BY Zenon, <1>5
    <3> QED
      BY Zenon, <1>6, <1>12, <3>1, <3>2
  <2>3. \A e \in execs', v \in up' : \A m \in inbox'[v] :
          e.worker \in Workers /\ e.task \in Repairs => m.task # e.task
    BY SMT, Z3, <1>1, <1>5, <1>6, <1>12 DEF Once
  <2> QED
    BY Zenon, <2>1, <2>2, <2>3 DEF Once
<1> QED
  BY <1>11, <1>13, <1>14

\* A repair that waits is told of its pipeline.
LEMMA PipelineKeeps ==
    ASSUME TypeOK, TypeOK', Shaped, Shaped', Place, Started, Once, Session,
           NEW r \in Repairs, PipelineEvent(r)
    PROVE  Place' /\ Started' /\ Once' /\ Session'
<1> DEFINE k == [task |-> r, kind |-> "resume"]
           w == own[r].worker
<1>1. /\ UNCHANGED <<status, own, lease, canceled, up, faults, excl, execs, sched>>
      /\ status[r] = "waiting" /\ w \in up /\ k \notin inbox[w]
      /\ \A e \in execs : e.task = r => e.kind # "resume"
      /\ up \subseteq Workers /\ Delivered' = Delivered
  BY Zenon DEF PipelineEvent, taskVars, leaseVars, procVars, TypeOK, Delivered
<1>2. \A v \in up : \A m \in inbox'[v] : m \in inbox[v] \/ (m = k /\ v = w)
  <2>1. \A v \in up : inbox'[v] = IF v = w THEN inbox[v] \cup {k} ELSE inbox[v]
    BY Zenon, <1>1 DEF PipelineEvent, TypeOK
  <2> QED
    BY Zenon, <2>1
<1>3. \A m \in Msg : m.task = r /\ m.kind = "resume" => m = k
  BY SMT, Z3 DEF Msg
<1>4. k.task = r /\ k.kind = "resume"
  OBVIOUS
<1> HIDE DEF k
<1>5. OwnersMove /\ OwnersStay /\ Grows /\ Revoking' /\ Steady /\ \A q \in Repairs : Calm(q)
  BY Zenon, <1>1 DEF OwnersMove, OwnersStay, Grows, FaultsCount, Revoking, Place, Steady, Calm
<1>6. \A v \in up : \A m \in inbox'[v] : m \in inbox[v] \/ own'[m.task].worker = v
  BY Zenon, <1>1, <1>2, <1>4
<1>7. Place' /\ Session'
  BY Zenon, <1>1, <1>5, <1>6, NobodyKeeps
<1>8. \A e \in execs : e.worker \in Workers => e.task # r
  BY ZenonT(60), <1>1 DEF Started, Sent, TypeOK, Exec
<1>9. ASSUME NEW v \in up, NEW m \in inbox[v]
      PROVE  m.task # r
  <2>1. m \in Msg /\ m.kind \in {"run", "resume"}
    <3>1. m \in Msg
      BY Zenon, <1>1, <1>9 DEF TypeOK
    <3> QED
      BY <3>1 DEF Msg
  <2> QED
    <3> SUFFICES ASSUME m.task = r PROVE FALSE
      OBVIOUS
    <3>1. m.kind # "run"
      BY Zenon, <1>1 DEF Started, Sent
    <3>2. v = w
      BY Zenon DEF Place
    <3> QED
      BY Zenon, <1>1, <1>3, <2>1, <3>1, <3>2
<1>10. Started'
  BY Zenon, <1>1, <1>2, <1>4 DEF Started, Sent
<1>11. Once'
  <2>1. \A e, f \in execs' :
          e.worker \in Workers /\ f.worker \in Workers /\ e.task = f.task /\ e.task \in Repairs
             => e = f
    BY Zenon, <1>1 DEF Once
  <2>2. \A v \in up' : \A m, n \in inbox'[v] : m.task = n.task /\ m.task \in Repairs => m = n
    <3> SUFFICES ASSUME NEW v \in up, NEW m \in inbox'[v], NEW n \in inbox'[v],
                        m.task = n.task, m.task \in Repairs
                 PROVE  m = n
      BY Zenon, <1>1
    <3>1. CASE m \in inbox[v] /\ n \in inbox[v]
      BY Zenon, <3>1 DEF Once
    <3>2. (m \in inbox[v] \/ m = k) /\ (n \in inbox[v] \/ n = k)
      BY Zenon, <1>2
    <3> QED
      BY Zenon, <1>4, <1>9, <3>1, <3>2
  <2>3. \A e \in execs', v \in up' : \A m \in inbox'[v] :
          e.worker \in Workers /\ e.task \in Repairs => m.task # e.task
    BY Zenon, <1>1, <1>2, <1>4, <1>8 DEF Once
  <2> QED
    BY Zenon, <2>1, <2>2, <2>3 DEF Once
<1> QED
  BY <1>7, <1>10, <1>11

\* The other steps of the scheduler.
LEMMA SchedKeeps ==
    ASSUME TypeOK, TypeOK', IInv, Shaped, Place, Started, Once, Session,
           SchedStep \/ \E t \in Gated : Timeout(t)
    PROVE  Place' /\ Started' /\ Once' /\ Session' /\ Shaped'
<1>1. execs' = execs /\ Shaped' /\ Delivered' = Delivered
  BY SchedTyped DEF Shaped, Fits, Delivered
<1>2. SchedKnows /\ faults \in Nat /\ (\A t \in Tasks : Dead(own[t].worker) => faults > 0)
  <2>1. /\ SchedKnows /\ own \in [Tasks -> Lease] /\ (faults = 0 => up = Workers)
    BY Zenon DEF IInv, TypeOK, Place
  <2> QED
    BY SMT, Z3, <2>1, Numbers DEF Dead
<1> USE DEF taskVars, autoVars, leaseVars, procVars
<1>3. ASSUME UNCHANGED <<own, inbox, lease, sched, status, canceled, up, faults, excl>>
      PROVE  Place' /\ Started' /\ Once' /\ Session'
  <2>1. OwnersMove /\ OwnersStay /\ Grows /\ Revoking' /\ Steady /\ \A q \in Repairs : Calm(q)
    BY Zenon, <1>3 DEF OwnersMove, OwnersStay, Grows, FaultsCount, Revoking, Place, Steady, Calm
  <2> QED
    BY <1>1, <1>3, <2>1, IdleKeeps
<1>4. ASSUME NEW t \in Tasks, Recover(t)
      PROVE  Place' /\ Started' /\ Once' /\ Session'
  <2>1. /\ UNCHANGED <<canceled, lease, inbox, up, faults, excl>> /\ Dead(own[t].worker)
        /\ own' = own \/ own' = [own EXCEPT ![t] = NoLease]
        /\ status' = [status EXCEPT ![t] = "queued"] \/ status' = [status EXCEPT ![t] = "failed"]
    BY Zenon, <1>4 DEF Recover
  <2>2. \A x \in Tasks : x # t => status'[x] = status[x] /\ own'[x] = own[x]
    BY <2>1 DEF TypeOK
  <2>3. own'[t].worker \notin up /\ own[t].worker \notin up /\ faults > 0
    BY Zenon, <1>2, <2>1, Leases DEF TypeOK, Dead
  <2>4. Revoking'
    BY Zenon, <1>4, <2>1, RevokingPass DEF Recover
  <2>5. OwnersMove /\ OwnersStay /\ Grows /\ Steady /\ \A q \in Repairs : Calm(q)
    BY Zenon, <2>1, <2>2, <2>3, Constants
       DEF OwnersMove, OwnersStay, Grows, FaultsCount, Steady, Calm
  <2> QED
    BY <1>1, <2>1, <2>4, <2>5, IdleKeeps
<1>5. CASE RecoverPaused
  <2>1. /\ UNCHANGED <<own, inbox, lease, status, canceled, up, faults, excl>>
        /\ Dead(own[AutoTask].worker) /\ Pass(AutoTask, <<"revoke">>) /\ AutoTask \in Tasks
    BY Zenon, <1>5, Constants DEF RecoverPaused
  <2>2. Revoking'
    BY Zenon, <2>1, RevokingPass
  <2>3. OwnersMove /\ OwnersStay /\ Grows /\ Steady /\ \A q \in Repairs : Calm(q)
    BY Zenon, <2>1 DEF OwnersMove, OwnersStay, Grows, FaultsCount, Steady, Calm
  <2> QED
    BY <1>1, <2>1, <2>2, <2>3, IdleKeeps
<1>6. ASSUME NEW r \in Repairs, TransferWaiting(r)
      PROVE  Place' /\ Started' /\ Once' /\ Session'
  <2>1. /\ UNCHANGED <<status, inbox, canceled, up, faults, excl, sched>> /\ Dead(own[r].worker)
        /\ lease \in {NoLease, own[r]} /\ own' = [own EXCEPT ![r] = lease'] /\ r \in Tasks
    BY <1>6, Constants DEF TransferWaiting
  <2>2. /\ own[r].worker \notin up /\ lease.worker \notin up
        /\ \A x \in Tasks : own'[x] = IF x = r THEN lease' ELSE own[x]
    BY Zenon, <2>1, Leases DEF TypeOK, Dead
  <2>3. OwnersMove /\ OwnersStay /\ Grows /\ Revoking' /\ Steady /\ \A q \in Repairs : Calm(q)
    BY Zenon, <2>1, <2>2, Constants
       DEF OwnersMove, OwnersStay, Grows, FaultsCount, Revoking, Place, Steady, Calm
  <2> QED
    BY Zenon, <1>1, <2>1, <2>3, IdleKeeps
<1>7. ASSUME NEW t \in Gated, Timeout(t)
      PROVE  Place' /\ Started' /\ Once' /\ Session'
  <2>1. /\ UNCHANGED <<own, canceled, lease, inbox, up, excl>> /\ faults' = faults + 1 /\ t \in Tasks
        /\ status' = [status EXCEPT ![t] = "failed"]
        /\ Pass(t, TimeoutRepair) \/ Pass(t, TimeoutRollback)
    BY <1>7, Constants DEF Timeout, CompleteRollback, TimeoutRepair, TimeoutRollback
  <2>2. /\ \A i \in 1..Len(TimeoutRepair) : TimeoutRepair[i] # "revoke"
        /\ \A i \in 1..Len(TimeoutRollback) : TimeoutRollback[i] # "revoke"
    BY SMT, Z3 DEF TimeoutRepair, TimeoutRollback
  <2>3. Revoking'
    BY <2>1, <2>2, RevokingPass
  <2>4. \A x \in Tasks : status'[x] = status[x] \/ status'[x] = "failed"
    BY ZenonT(60), <2>1 DEF TypeOK
  <2>5. OwnersMove /\ OwnersStay /\ Grows /\ Steady /\ \A q \in Repairs : Calm(q)
    <3>1. faults' > 0 /\ FaultsCount
      BY SMT, Z3, <2>1, Numbers DEF FaultsCount
    <3> QED
      BY Zenon, <2>1, <2>4, <3>1 DEF OwnersMove, OwnersStay, Grows, Steady, Calm
  <2> QED
    BY <1>1, <2>1, <2>3, <2>5, IdleKeeps
<1>8. CASE SchedRevoke
  <2>1. /\ UNCHANGED <<own, inbox, status, canceled, up, faults, excl>>
        /\ NextStep /\ ~Idle /\ Head(sched.steps) = "revoke"
        /\ lease' = IF lease = sched.lease THEN NoLease ELSE lease
    BY <1>8 DEF SchedRevoke
  <2>2. Revoking' /\ 1 \in 1..Len(sched.steps) /\ Head(sched.steps) = sched.steps[1]
    BY <1>2, <2>1, RevokingNext
  <2>3. sched.lease.worker \notin up
    BY Zenon, <2>1, <2>2 DEF Place
  <2>4. OwnersMove /\ OwnersStay /\ Grows /\ Steady /\ \A q \in Repairs : Calm(q)
    BY Zenon, <2>1, <2>3 DEF OwnersMove, OwnersStay, Grows, FaultsCount, Steady, Calm
  <2> QED
    BY Zenon, <1>1, <2>1, <2>2, <2>4, IdleKeeps
<1>9. CASE SchedRollback \/ SchedNotify
  <2>1. /\ UNCHANGED <<own, inbox, lease, canceled, up, faults, excl>> /\ NextStep /\ ~Idle
        /\ \/ status' = status
           \/ Head(sched.steps) = "rollback" /\ status' = [status EXCEPT ![sched.task] = "failed"]
    BY <1>9 DEF SchedRollback, SchedNotify, CompleteRollback
  <2>2. Revoking' /\ 1 \in 1..Len(sched.steps) /\ Head(sched.steps) = sched.steps[1]
    BY <1>2, <2>1, RevokingNext
  <2>3. \A x \in Tasks : status'[x] = status[x] \/ (status[x] \in Terminal /\ status'[x] = "failed")
    BY Zenon, <1>2, <2>1, <2>2 DEF SchedKnows, TypeOK
  <2>4. OwnersMove /\ OwnersStay /\ Grows /\ Steady /\ \A q \in Repairs : Calm(q)
    BY Zenon, <2>1, <2>3, Constants
       DEF OwnersMove, OwnersStay, Grows, FaultsCount, Steady, Calm, Terminal
  <2> QED
    BY <1>1, <2>1, <2>2, <2>4, IdleKeeps
<1>10. CASE SchedResume
  <2>1. UNCHANGED <<canceled, up, faults, excl>> /\ NextStep /\ ~Idle
    BY <1>10 DEF SchedResume
  <2>2. Revoking'
    BY <1>2, <2>1, RevokingNext
  <2>3. \/ UNCHANGED <<status, own, inbox, lease>>
        \/ \E w \in up : Claim(w) /\ ResumeAuto(sched.task, Claimed(w), TRUE)
    BY Zenon, <1>10 DEF SchedResume
  <2>4. /\ Woken \/ UNCHANGED <<own, inbox>>
        /\ lease' = lease \/ lease.worker \notin up
        /\ \A x \in Tasks : status'[x] = status[x] \/ (x = AutoTask /\ status'[x] = "assigned")
    <3>1. CASE UNCHANGED <<status, own, inbox, lease>>
      BY <3>1
    <3>2. ASSUME NEW w \in up, Claim(w), ResumeAuto(sched.task, Claimed(w), TRUE)
          PROVE  /\ Woken \/ NotWoken
                 /\ \A x \in Gated : status'[x] = status[x]
                 /\ lease' = lease \/ lease.worker \notin up
      BY Zenon, <3>2, ResumeAutoWakes, ClaimMoves
    <3> QED
      BY Zenon, <2>3, <3>1, <3>2, Constants DEF Woken, NotWoken
  <2>5. \A t \in Tasks : own'[t] = own[t] \/ (t = AutoTask /\ own'[t] = lease')
    BY Zenon, <2>4, WakeMoves
  <2>6. OwnersMove /\ OwnersStay /\ Grows /\ Steady /\ \A q \in Repairs : Calm(q)
    BY Zenon, <2>1, <2>4, <2>5, Constants
       DEF OwnersMove, OwnersStay, Grows, FaultsCount, Steady, Calm
  <2> QED
    BY Zenon, <1>1, <2>1, <2>2, <2>4, <2>6, IdleKeeps
<1>11. ASSUME NEW r \in Repairs, SchedCancel(r)
       PROVE  Place' /\ Started' /\ Once' /\ Session'
  <2>1. /\ UNCHANGED <<canceled, up, lease, faults, excl, sched>>
        /\ FinalizeCancel(r, own[r], card.rev)
    BY <1>11 DEF SchedCancel
  <2>2. /\ Woken \/ NotWoken
        /\ \A x \in Gated : \/ status'[x] = status[x]
                            \/ x = r /\ r \in canceled /\ status'[x] = "canceled"
    BY Zenon, <2>1, FinalizeWakes
  <2>3. Woken \/ UNCHANGED <<own, inbox>>
    BY Zenon, <2>2 DEF NotWoken
  <2>4. \A t \in Tasks : own'[t] = own[t] \/ (t = AutoTask /\ own'[t] = lease')
    BY Zenon, <2>3, WakeMoves
  <2>5. \A x \in Tasks : status'[x] \in {status[x], "assigned", "canceled"}
    BY <2>2, Constants DEF Woken, NotWoken
  <2>6. OwnersMove /\ OwnersStay /\ Grows /\ Revoking' /\ Steady
    BY Zenon, <2>1, <2>4, <2>5, Constants
       DEF OwnersMove, OwnersStay, Grows, FaultsCount, Revoking, Place, Steady
  <2>7. \A q \in Repairs : Calm(q)
    BY Zenon, <2>1, <2>2, Constants DEF Calm
  <2> QED
    BY Zenon, <1>1, <2>1, <2>3, <2>6, <2>7, IdleKeeps
<1>12. CASE GateScan
  BY <1>1, <1>3, <1>12 DEF GateScan
<1>13. ASSUME NEW t \in Tasks, Dispatch(t)
       PROVE  Place' /\ Started' /\ Once' /\ Session'
  BY Zenon, <1>1, <1>13, DispatchKeeps
<1> QED
  BY Zenon, <1>1, <1>4, <1>5, <1>6, <1>7, <1>8, <1>9, <1>10, <1>11, <1>12, <1>13 DEF SchedStep

\* What users do, and the end of a lease.
LEMMA UserKeeps ==
    ASSUME TypeOK, TypeOK', IInv, Shaped, Shaped', Place, Started, Once, Session,
           UserStep \/ LeaseExpires
    PROVE  Place' /\ Started' /\ Once' /\ Session'
<1> USE DEF taskVars, autoVars, leaseVars, procVars
<1>1. /\ UNCHANGED <<own, inbox, up, faults, excl, sched>>
      /\ canceled \subseteq canceled' /\ (lease' = lease \/ lease.worker \notin up)
  <2>1. CASE LeaseExpires
    BY <2>1 DEF LeaseExpires, Dead
  <2>2. ASSUME NEW r \in Repairs, Click(r) \/ Comment(r) \/ RequestCancel(r) \/ RequestRollback(r)
        PROVE  /\ UNCHANGED <<own, inbox, up, faults, excl, sched, lease>>
               /\ canceled \subseteq canceled'
    BY <2>2 DEF Click, Comment, RequestCancel, RequestRollback
  <2> QED
    BY <2>1, <2>2 DEF UserStep, ClickAgain
<1>2. Delivered' = Delivered
  <2>1. ASSUME NEW r \in Repairs, RequestCancel(r)
        PROVE  Delivered' = Delivered
    <3>1. execs' = execs \/ execs' = execs \cup {Cancelling(r)}
      BY Zenon, <2>1, CancelFacts, Rest
    <3>2. Cancelling(r).worker \notin Workers
      BY Constants DEF Cancelling
    <3> QED
      BY <3>1, <3>2 DEF Delivered
  <2>2. ~(\E r \in Repairs : RequestCancel(r)) => execs' = execs
    BY Zenon DEF UserStep, Click, Comment, RequestRollback, ClickAgain, LeaseExpires
  <2> QED
    BY <2>1, <2>2 DEF Delivered
<1>3. Steady /\ \A q \in Repairs : Calm(q)
  <2>1. ASSUME NEW r \in Repairs, Click(r) \/ Comment(r)
        PROVE  Steady /\ \A q \in Repairs : Calm(q)
    <3>1. \A x \in Tasks : status'[x] = IF x = r THEN "queued" ELSE status[x]
      BY <2>1 DEF Click, Comment, TypeOK
    <3>2. status[r] = "none"
      BY <2>1 DEF Click, Comment
    <3> QED
      BY Zenon, <3>1, <3>2, Constants DEF Steady, Calm
  <2>2. ASSUME NEW r \in Repairs, RequestRollback(r)
        PROVE  Steady /\ \A q \in Repairs : Calm(q)
    <3>1. /\ CanAdmitRollback(r, "post_repair", card.rev) /\ AdmitRollback(r, "post_repair")
          /\ UNCHANGED canceled
      BY <2>2 DEF RequestRollback
    <3> QED
      BY Zenon, <3>1, AdmitStatus
  <2>3. ASSUME UNCHANGED status
        PROVE  Steady /\ \A q \in Repairs : Calm(q)
    BY <2>3 DEF Steady, Calm
  <2> QED
    BY <2>1, <2>2, <2>3 DEF UserStep, RequestCancel, ClickAgain, LeaseExpires
<1>4. OwnersMove /\ OwnersStay /\ Grows /\ Revoking'
  BY Zenon, <1>1 DEF OwnersMove, OwnersStay, Grows, FaultsCount, Revoking, Place
<1> QED
  BY <1>1, <1>2, <1>3, <1>4, IdleKeeps
=============================================================================
