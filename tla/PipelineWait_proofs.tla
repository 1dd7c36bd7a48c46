------------------------ MODULE PipelineWait_proofs ------------------------
(***************************************************************************)
(* Proofs about PipelineWait, for every number of workers, pipelines,      *)
(* pushes, crashes and fencing tokens.                                     *)
(*                                                                         *)
(* The inductive invariant has three parts: who may work (LeaseOK,         *)
(* WorkOK), what a wait and its waiter sets say about the pipelines        *)
(* (PipesOK, WaitersOK), and where the queued resume is (MsgOK, QueueOK).  *)
(***************************************************************************)
EXTENDS PipelineWait, TLAPS

\* A terminal event, of a pipeline that has ended.
Ended(ev) == ev \in Event /\ ev.done /\ pipes[ev.sha][ev.pid] = "done"

\* A task in flight has the lease; while a waiting task is handed over, its
\* owner has not.
LeaseOK ==
    /\ token <= fence /\ lease.token <= fence
    /\ \A e \in execs : e.token <= fence
    /\ status \in {"assigned", "running"} => owner \in Workers /\ Held(owner, token)
    /\ orphan.pc # "idle" =>
          /\ owner \in Workers /\ ~Held(owner, token)
          /\ status \in {"waiting"} \cup Terminal
    /\ orphan.pc = "claim" => lease = NoLease

\* At most one delivery is past its claim, and unless the task has ended it is
\* the one the running task belongs to.
WorkOK ==
    /\ \A e \in execs : proc[e.worker] = "up"
    /\ \A e \in execs : Working(e) =>
          (status = "running" /\ Fenced(e)) \/ status \in Terminal
    /\ \A e, f \in execs : Working(e) /\ Working(f) => e = f

\* Only commits that were pushed have pipelines or are waited for, and only
\* pipelines that have ended have terminal events.
PipesOK ==
    /\ \A s \in Shas, p \in Pids : pipes[s][p] # "none" => s <= pushes
    /\ \A k \in Keys : cache[k].done =>
          /\ Ended(cache[k])
          /\ cache[k].sha = k[1] /\ k[2] \in {0, cache[k].pid}
    /\ \A e \in execs : e.pc = "inspect" => Ended(e.event)
    /\ \A e \in execs : e.pc = "register" => e.sha # 0 /\ e.sha <= pushes
    /\ \A k \in waiters : k[1] <= pushes
    /\ listed \/ wait.reg => wait.sha # 0

\* Until the task has ended, it is in no waiter set of the commit of its wait
\* other than that of the wait itself, and in none of a commit it is going to
\* register for.
WaitersOK ==
    status \notin Terminal =>
        /\ \A k \in waiters : k[1] = wait.sha => wait.reg /\ k = WaitKey
        /\ \A e \in execs : \A k \in waiters :
              /\ e.pc = "inspect" => k[1] # e.event.sha
              /\ e.pc = "register" => k[1] # e.sha

\* Each delivery is of an entry of its worker's inbox, and of one of its own.
MsgOK ==
    /\ \A e \in execs : e.msg \in inbox[e.worker]
    /\ \A e, f \in execs : e.worker = f.worker /\ e.msg = f.msg => e = f
    /\ \A e \in execs : e.pc = "claim" => e.event = e.msg.event /\ e.event # NoEvent

\* A delivery that has not claimed its event.
Unclaimed(e) == e.pc \in {"claim", "fail", "unhandled"}

\* The queued event is a terminal one of the wait, and its message is still to
\* be claimed; before it is queued, no message carries it.
QueueOK ==
    /\ status \in {"queued", "assigned", "running"} => wait.queued = NoEvent
    /\ wait.queued # NoEvent =>
          /\ Ended(wait.queued)
          /\ wait.queued.sha = wait.sha => wait.pid \in {0, wait.queued.pid}
    /\ status \notin Terminal /\ wait.reg /\ wait.queued = NoEvent /\ cache[WaitKey].done =>
          \A w \in Workers : \A m \in inbox[w] :
              m.via = "queue" => m.event # cache[WaitKey]
    /\ status = "waiting" /\ wait.queued # NoEvent /\ wait.queued.sha = wait.sha =>
          \E w \in Workers : \E m \in inbox[w] :
              /\ m.event = wait.queued
              /\ m.via = "queue"
              /\ \A e \in execs : e.worker = w /\ e.msg = m => Unclaimed(e)

IInv == TypeOK /\ LeaseOK /\ WorkOK /\ PipesOK /\ WaitersOK /\ MsgOK /\ QueueOK

-----------------------------------------------------------------------------
(* Lemmas about the parts *)

\* A step of delivery e: what it becomes.
Moved(e, n) ==
    /\ execs' = (execs \ {e}) \cup {n}
    /\ n \in Exec
    /\ n.worker = e.worker /\ n.msg = e.msg /\ n.token = e.token
    /\ n.pc # "claim"

LEMMA Constants ==
    /\ NoWorker \notin Workers
    /\ 1 \in Pids /\ 0 \notin Pids /\ Validator \in Pids
    /\ TryLimit \in Nat /\ TryLimit # 0 /\ MaxPushes \in Nat
    /\ \A s \in Shas : s \in Nat /\ s # 0
  BY SMT, Z3, WaitConstants DEF WaitConstants, Shas

\* A new event has its fields, and a terminal one is in no inbox.
LEMMA NewEvent ==
  ASSUME NEW sha \in Shas, NEW pid \in Pids, NEW done \in BOOLEAN, TypeOK,
         NEW ev \in NewEvents(sha, pid, done)
  PROVE  /\ ev \in Event /\ ev.sha = sha /\ ev.pid = pid /\ ev.done = done
         /\ done => \A w \in Workers : \A m \in inbox[w] : m.event # ev
<1> DEFINE free == EventIds \ UsedIds(sha, pid)
<1>1. PICK n \in IF done THEN {m \in free : \A k \in free : m <= k} ELSE {0} :
          ev = [sha |-> sha, pid |-> pid, done |-> done, id |-> n]
  BY DEF NewEvents
<1>2. done => n \in EventIds /\ n \notin UsedIds(sha, pid)
  BY <1>1
<1>3. ASSUME NEW w \in Workers, NEW m \in inbox[w] PROVE m.event.id \in UsedIds(sha, pid)
  <2>1. m.event.id \in {x.event.id : x \in inbox[w]}
    OBVIOUS
  <2>2. {x.event.id : x \in inbox[w]} \in {{x.event.id : x \in inbox[v]} : v \in Workers}
    OBVIOUS
  <2> QED
    BY Zenon, <2>1, <2>2 DEF UsedIds
<1> HIDE DEF free
<1>4. n \in EventIds \cup {0}
  BY <1>1, <1>2
<1> QED
  BY SMT, Z3, <1>1, <1>2, <1>3, <1>4 DEF Event

\* The new event of a pipeline that has ended.
Terminals(sha, pid) == NewEvents(sha, pid, TRUE)

LEMMA NewTerminal ==
  ASSUME NEW sha \in Shas, NEW pid \in Pids, TypeOK, NEW ev \in Terminals(sha, pid)
  PROVE  /\ ev \in Event /\ ev.sha = sha /\ ev.pid = pid /\ ev.done
         /\ \A w \in Workers : \A m \in inbox[w] : m.event # ev
<1> DEFINE done == TRUE
<1>1. done \in BOOLEAN /\ ev \in NewEvents(sha, pid, done)
  BY Zenon DEF Terminals
<1> HIDE DEF done
<1>2. /\ ev \in Event /\ ev.sha = sha /\ ev.pid = pid /\ ev.done = done
      /\ done => \A w \in Workers : \A m \in inbox[w] : m.event # ev
  BY SMT, Z3, <1>1, NewEvent
<1> QED
  BY Zenon, <1>2 DEF done

\* The delivery that moves keeps its message.
LEMMA MovedMsg ==
  ASSUME MsgOK, NEW e \in execs, NEW n, Moved(e, n),
         \A f \in execs : f.worker \in Workers,
         \A w \in Workers : inbox[w] \subseteq inbox'[w]
  PROVE  MsgOK'
  BY SMT, Z3 DEF MsgOK, Moved

\* When no message of a resume is new, the queue part depends on the message of
\* the queued event only.
LEMMA QueueStays ==
  ASSUME QueueOK, UNCHANGED <<status, wait, cache, pipes>>,
         \A w \in Workers : inbox'[w] \subseteq inbox[w],
         status = "waiting" /\ wait.queued # NoEvent /\ wait.queued.sha = wait.sha =>
             \E w \in Workers : \E m \in inbox'[w] :
                 /\ m.event = wait.queued
                 /\ m.via = "queue"
                 /\ \A f \in execs' : f.worker = w /\ f.msg = m => Unclaimed(f)
  PROVE  QueueOK'
  BY SMT, Z3 DEF QueueOK, Ended, WaitKey, Unclaimed

\* Nor does a delivery that begins matter, if it has to claim the queued event.
LEMMA QueueDelivered ==
  ASSUME QueueOK, NEW d, execs' = execs \cup {d},
         UNCHANGED <<status, wait, cache, inbox, pipes>>,
         d.msg.event = wait.queued /\ wait.queued # NoEvent => Unclaimed(d)
  PROVE  QueueOK'
  BY SMT, Z3 DEF QueueOK, Ended, WaitKey, Unclaimed

\* Nor an event in the cache that no message has.
LEMMA QueueCached ==
  ASSUME QueueOK, UNCHANGED <<status, wait, inbox, execs, pipes>>, NEW ev,
         ev.done => \A w \in Workers : \A m \in inbox[w] : m.event # ev,
         wait.reg => WaitKey \in Keys,
         \A k \in Keys : cache'[k].done => cache'[k] = cache[k] \/ (cache'[k] = ev /\ ev.done)
  PROVE  QueueOK'
  BY SMT, Z3 DEF QueueOK, Ended, WaitKey, Unclaimed

\* A delivery that moves leaves the queue part alone, unless it passes a claim.
LEMMA MovedQueue ==
  ASSUME QueueOK, NEW e \in execs, NEW n, Moved(e, n), Unclaimed(e) => Unclaimed(n),
         UNCHANGED <<status, wait, cache, inbox>>, \A ev : Ended(ev) => Ended(ev)'
  PROVE  QueueOK'
<1>1. ASSUME status = "waiting", wait.queued # NoEvent, wait.queued.sha = wait.sha
      PROVE  \E w \in Workers : \E m \in inbox[w] :
                 /\ m.event = wait.queued
                 /\ m.via = "queue"
                 /\ \A f \in execs' : f.worker = w /\ f.msg = m => Unclaimed(f)
  <2>1. PICK w \in Workers : \E m \in inbox[w] :
            /\ m.event = wait.queued
            /\ m.via = "queue"
            /\ \A f \in execs : f.worker = w /\ f.msg = m => Unclaimed(f)
    BY <1>1 DEF QueueOK
  <2>2. PICK m \in inbox[w] :
            /\ m.event = wait.queued
            /\ m.via = "queue"
            /\ \A f \in execs : f.worker = w /\ f.msg = m => Unclaimed(f)
    BY <2>1
  <2>3. \A f \in execs' : f.worker = w /\ f.msg = m => Unclaimed(f)
    BY <2>2 DEF Moved
  <2> QED
    BY <2>2, <2>3
<1> QED
  BY SMT, Z3, <1>1 DEF QueueOK, WaitKey, Unclaimed

LEMMA InitInv == Init => IInv
<1> SUFFICES ASSUME Init PROVE IInv
  OBVIOUS
<1>1. TypeOK
  <2>1. wait \in Wait /\ lease \in Lease /\ orphan \in Orphan
    BY DEF Init, Wait, MaybeEvent, Lease, Orphan, NoOrphan
  <2>2. cache \in [Keys -> MaybeEvent]
    BY DEF Init, MaybeEvent
  <2>3. pipes \in [Shas -> [Pids -> {"none", "running", "done"}]]
    BY DEF Init
  <2>4. tries \in 0..TryLimit /\ pushes \in 0..MaxPushes
    BY SMT, Z3, Constants DEF Init
  <2> QED
    BY Zenon, <2>1, <2>2, <2>3, <2>4 DEF Init, TypeOK, Statuses
<1>2. LeaseOK
  BY SMT, Z3 DEF Init, LeaseOK, NoLease, NoOrphan
<1>3. WorkOK /\ WaitersOK /\ MsgOK
  BY DEF Init, WorkOK, WaitersOK, MsgOK
<1>4. PipesOK /\ QueueOK
  BY DEF Init, PipesOK, QueueOK, NoEvent
<1> QED
  BY <1>1, <1>2, <1>3, <1>4 DEF IInv

\* What queueing event ev as a resume of the waiting task does: m is its message.
Queued(ev, m) ==
    /\ status = "waiting" /\ owner \in Workers /\ wait.queued = NoEvent
    /\ wait' \in Wait
    /\ wait'.sha = wait.sha /\ wait'.pid = wait.pid /\ wait'.reg = wait.reg
    /\ wait'.queued = ev
    /\ m \in Msg /\ m.event = ev /\ m.via = "queue"
    /\ m \notin inbox[owner]
    /\ inbox' = [inbox EXCEPT ![owner] = @ \cup {m}]

\* ResumeCached does nothing or queues the cached event of the wait, which no
\* message carries yet.
LEMMA Resumes ==
  ASSUME IInv, ResumeCached
  PROVE  \/ UNCHANGED <<inbox, wait>>
         \/ \E ev, m : /\ Queued(ev, m) /\ Ended(ev)
                       /\ ev.sha = wait.sha /\ wait.pid \in {0, ev.pid}
<1>1. TypeOK /\ PipesOK /\ QueueOK
  BY DEF IInv
<1> SUFFICES ASSUME wait.reg, cache[WaitKey].done, CanQueue, QueueResume(cache[WaitKey])
             PROVE  \E ev, m : /\ Queued(ev, m) /\ Ended(ev)
                               /\ ev.sha = wait.sha /\ wait.pid \in {0, ev.pid}
  BY DEF ResumeCached
<1> DEFINE ev == cache[WaitKey]
           m == [event |-> ev, token |-> token, via |-> "queue"]
           v == [wait EXCEPT !.queued = ev]
<1>2. WaitKey \in Keys
  BY <1>1 DEF TypeOK, Wait, WaitKey, PipesOK, Keys
<1>3. Ended(ev) /\ ev.sha = wait.sha /\ wait.pid \in {0, ev.pid}
  BY <1>1, <1>2 DEF PipesOK, WaitKey
<1>4. ev \in MaybeEvent /\ m \in Msg /\ m.event = ev /\ m.via = "queue"
  BY <1>1, <1>2 DEF TypeOK, Msg
<1>5. v \in Wait /\ v.sha = wait.sha /\ v.pid = wait.pid /\ v.reg = wait.reg /\ v.queued = ev
  BY Zenon, <1>1, <1>4 DEF TypeOK, Wait
<1>6. wait' = v /\ inbox' = [inbox EXCEPT ![owner] = @ \cup {m}]
  BY DEF QueueResume
<1> HIDE DEF ev, m, v
<1>7. status = "waiting" /\ owner \in Workers /\ wait.queued = NoEvent
  BY <1>1 DEF CanQueue, TypeOK
<1>8. m \notin inbox[owner]
  BY <1>1, <1>4, <1>7 DEF QueueOK, Terminal, ev
<1> QED
  BY Zenon, <1>3, <1>4, <1>5, <1>6, <1>7, <1>8 DEF Queued

\* The parts about the wait after an event has been queued.
LEMMA QueuedKeeps ==
  ASSUME IInv, NEW ev, NEW m, Queued(ev, m), Ended(ev),
         ev.sha = wait.sha => wait.pid \in {0, ev.pid},
         UNCHANGED <<status, pipes>>,
         \A f \in execs' : \E e \in execs : f.worker = e.worker /\ f.msg = e.msg
  PROVE  QueueOK'
<1>1. TypeOK /\ MsgOK
  BY DEF IInv
<1>2. ev # NoEvent
  BY SMT, Z3 DEF Ended, NoEvent
<1>3. \A f \in execs' : ~(f.worker = owner /\ f.msg = m)
  BY <1>1 DEF MsgOK, Queued
<1>4. m \in inbox'[owner]
  BY <1>1 DEF TypeOK, Queued
<1>5. \E w \in Workers : \E x \in inbox'[w] :
          /\ x.event = ev /\ x.via = "queue"
          /\ \A f \in execs' : ~(f.worker = w /\ f.msg = x)
  BY SMT, Z3, <1>3, <1>4 DEF Queued
<1> QED
  BY SMT, Z3, <1>2, <1>5 DEF Queued, QueueOK, Ended

-----------------------------------------------------------------------------
(* Deliveries *)

LEMMA BeginKeeps == ASSUME IInv, NEW e \in execs, Begin(e) PROVE IInv'
<1>1. e \in Exec /\ TypeOK /\ LeaseOK /\ WorkOK /\ PipesOK /\ WaitersOK /\ MsgOK /\ QueueOK
  BY DEF IInv, TypeOK
<1> DEFINE n == [e EXCEPT !.pc = IF status = "assigned" /\ Fenced(e) THEN "work" ELSE "fail"]
<1>2. Moved(e, n) /\ n.pc = IF status = "assigned" /\ Fenced(e) THEN "work" ELSE "fail"
  BY <1>1 DEF Begin, Fenced, Goto, Set, Moved, Exec, ExecPcs
<1> HIDE DEF n
<1>3. TypeOK'
  BY <1>1, <1>2 DEF Moved, Begin, TypeOK, Statuses, Terminal, taskVars, waitVars,
       leaseVars, workerVars, gitlabVars
<1>4. LeaseOK'
  BY <1>1, <1>2 DEF Moved, Begin, LeaseOK, Held, Fenced, Terminal, taskVars,
       leaseVars, gitlabVars
<1>5. WorkOK'
  BY SMT, Z3, <1>1, <1>2 DEF Moved, Begin, WorkOK, Held, Fenced, Working, Terminal,
       taskVars, leaseVars, workerVars
<1>6. PipesOK'
  BY <1>1, <1>2 DEF Moved, Begin, PipesOK, Ended, waitVars, gitlabVars
<1>7. WaitersOK'
  BY <1>1, <1>2 DEF Moved, Begin, WaitersOK, WaitKey, taskVars, waitVars, Terminal
<1>8. QueueOK'
  BY SMT, Z3, <1>1, <1>2 DEF Moved, Begin, QueueOK, Ended, WaitKey, Unclaimed, taskVars,
       waitVars, gitlabVars, Terminal
<1>9. MsgOK'
  BY <1>1, <1>2, MovedMsg DEF Begin, Exec, TypeOK
<1> QED
  BY <1>3, <1>4, <1>5, <1>6, <1>7, <1>8, <1>9 DEF IInv

\* A claim ends the registration.
LEMMA ClaimKeeps == ASSUME IInv, NEW e \in execs, Claim(e) PROVE IInv'
<1>1. e \in Exec /\ TypeOK /\ LeaseOK /\ WorkOK /\ PipesOK /\ WaitersOK /\ MsgOK /\ QueueOK
  BY DEF IInv, TypeOK
<1>2. CASE CanClaim(e)
  <2> DEFINE n == [e EXCEPT !.pc = "inspect"]
             v == [wait EXCEPT !.reg = FALSE, !.queued = NoEvent]
  <2>1. Moved(e, n) /\ n.event = e.event /\ n.pc = "inspect"
    BY <1>1, <1>2 DEF Claim, Goto, Set, Moved, Exec, ExecPcs
  <2>2. /\ wait' = v /\ v \in Wait /\ v.sha = wait.sha /\ v.pid = wait.pid
        /\ ~v.reg /\ v.queued = NoEvent
    BY Zenon, <1>1, <1>2 DEF Claim, TypeOK, Wait, MaybeEvent
  <2> HIDE DEF n, v
  <2>3. /\ status = "waiting" /\ status' = "running" /\ tries' = 0 /\ listed' = FALSE
        /\ waiters' = IF wait.reg THEN waiters \ {WaitKey} ELSE waiters
        /\ UNCHANGED <<owner, token, cache, lease, fence, inbox, proc, sess, crashes,
                       orphan, pushes, pipes>>
    BY <1>2 DEF Claim, CanClaim, leaseVars, workerVars, gitlabVars
  <2>4. Held(e.worker, e.token) /\ owner = e.worker /\ token = e.token
    BY <1>2 DEF CanClaim, ClaimFenced, Fenced, TaskIs
  <2>5. Ended(e.event) /\ e.event.sha = wait.sha
    BY <1>1, <1>2 DEF CanClaim, Claim, MsgOK, QueueOK
  <2>6. TypeOK'
    <3>1. waiters' \subseteq Keys /\ tries' \in 0..TryLimit
      BY SMT, Z3, <1>1, <2>3, Constants DEF TypeOK
    <3> QED
      BY Zenon, <1>1, <2>1, <2>2, <2>3, <3>1 DEF Moved, TypeOK, Statuses
  <2>7. LeaseOK'
    BY <1>1, <2>1, <2>3, <2>4 DEF Moved, LeaseOK, Held, Exec
  <2>8. WorkOK'
    BY <1>1, <2>1, <2>3, <2>4 DEF Moved, WorkOK, Working, Fenced, Held, Terminal
  <2>9. PipesOK'
    BY <1>1, <2>1, <2>2, <2>3, <2>5 DEF Moved, PipesOK, Ended
  <2>10. WaitersOK'
    <3>1. \A k \in waiters' : k \in waiters /\ k[1] # wait.sha
      BY <1>1, <2>3 DEF WaitersOK, Terminal
    <3>2. \A f \in execs : f.pc \notin {"inspect", "register"}
      BY <1>1, <2>3 DEF WorkOK, Working, Terminal
    <3> QED
      BY <2>1, <2>2, <2>5, <3>1, <3>2 DEF WaitersOK, Moved
  <2>11. MsgOK'
    BY <1>1, <2>1, <2>3, MovedMsg DEF Exec, TypeOK
  <2>12. QueueOK'
    BY <2>2, <2>3 DEF QueueOK
  <2> QED
    BY <2>6, <2>7, <2>8, <2>9, <2>10, <2>11, <2>12 DEF IInv
<1>3. CASE ~CanClaim(e)
  <2> DEFINE n == [e EXCEPT !.pc = IF status = "waiting" /\ ~ClaimFenced(e) THEN "fail"
                                   ELSE "handled"]
  <2>1. /\ Moved(e, n)
        /\ n.pc = IF status = "waiting" /\ ~ClaimFenced(e) THEN "fail" ELSE "handled"
    BY <1>1, <1>3 DEF Claim, Goto, Set, Moved, Exec, ExecPcs
  <2> HIDE DEF n
  <2>2. UNCHANGED <<status, tries, owner, token, wait, waiters, listed, cache, lease, fence,
                    inbox, proc, sess, crashes, orphan, pushes, pipes>>
    BY <1>3 DEF Claim, leaseVars, workerVars, gitlabVars
  <2>3. TypeOK'
    BY <1>1, <2>1, <2>2 DEF Moved, TypeOK
  <2>4. LeaseOK'
    BY <1>1, <2>1, <2>2 DEF Moved, LeaseOK, Held
  <2>5. WorkOK'
    BY Zenon, <1>1, <2>1, <2>2 DEF Moved, WorkOK, Working, Fenced, Held
  <2>6. PipesOK' /\ WaitersOK'
    BY <1>1, <2>1, <2>2 DEF Moved, PipesOK, WaitersOK, Ended, WaitKey
  <2>7. MsgOK'
    BY SMT, Z3, <1>1, <2>1, <2>2, MovedMsg DEF Exec, TypeOK
  <2>8. QueueOK'
    <3>1. status = "waiting" /\ wait.queued = e.msg.event /\ wait.queued.sha = wait.sha
          => n.pc = "fail"
      BY <1>1, <1>3, <2>1 DEF CanClaim, Claim, MsgOK
    <3> QED
      BY SMT, Z3, <1>1, <2>1, <2>2, <3>1 DEF Moved, QueueOK, Ended, WaitKey, Unclaimed
  <2> QED
    BY <2>3, <2>4, <2>5, <2>6, <2>7, <2>8 DEF IInv
<1> QED
  BY <1>2, <1>3

LEMMA CompleteKeeps == ASSUME IInv, NEW e \in execs, Complete(e) PROVE IInv'
<1>1. e \in Exec /\ TypeOK /\ LeaseOK /\ WorkOK /\ PipesOK /\ WaitersOK /\ MsgOK /\ QueueOK
  BY DEF IInv, TypeOK
<1> DEFINE n == [e EXCEPT !.pc = IF status = "running" /\ ~Fenced(e) THEN "fail" ELSE "handled"]
<1>2. Moved(e, n) /\ n.pc = IF status = "running" /\ ~Fenced(e) THEN "fail" ELSE "handled"
  BY <1>1 DEF Complete, Fenced, Goto, Set, Moved, Exec, ExecPcs
<1> HIDE DEF n
<1>3. TypeOK'
  BY <1>1, <1>2 DEF Moved, Complete, TypeOK, Statuses, Terminal, taskVars,
       waitVars, leaseVars, workerVars, gitlabVars
<1>4. LeaseOK'
  BY <1>1, <1>2 DEF Moved, Complete, LeaseOK, Held, Fenced, Terminal, taskVars,
       leaseVars, gitlabVars
<1>5. WorkOK'
  BY Zenon, <1>1, <1>2 DEF Moved, Complete, WorkOK, Held, Fenced, Working, Terminal,
       taskVars, leaseVars, workerVars
<1>6. PipesOK'
  BY Zenon, <1>1, <1>2 DEF Moved, Complete, PipesOK, Ended, waitVars, gitlabVars
<1>7. WaitersOK'
  BY Zenon, <1>1, <1>2 DEF Moved, Complete, WaitersOK, WaitKey, taskVars, waitVars,
       Terminal
<1>8. QueueOK'
  BY <1>1, <1>2 DEF Moved, Complete, QueueOK, Ended, WaitKey, Unclaimed, taskVars,
       waitVars, gitlabVars, Terminal, WorkOK, Working
<1>9. MsgOK'
  BY <1>1, <1>2, MovedMsg DEF Complete, Exec, TypeOK
<1> QED
  BY <1>3, <1>4, <1>5, <1>6, <1>7, <1>8, <1>9 DEF IInv

LEMMA WorkFailsKeeps == ASSUME IInv, NEW e \in execs, WorkFails(e) PROVE IInv'
<1>1. e \in Exec /\ TypeOK /\ LeaseOK /\ WorkOK /\ PipesOK /\ WaitersOK /\ MsgOK /\ QueueOK
  BY DEF IInv, TypeOK
<1> DEFINE n == [e EXCEPT !.pc = "fail"]
<1>2. Moved(e, n) /\ n.pc = "fail"
  BY <1>1 DEF WorkFails, Fenced, Goto, Set, Moved, Exec, ExecPcs
<1> HIDE DEF n
<1>3. TypeOK'
  BY <1>1, <1>2 DEF Moved, WorkFails, TypeOK, Statuses, Terminal, taskVars,
       waitVars, leaseVars, workerVars, gitlabVars
<1>4. LeaseOK'
  BY <1>1, <1>2 DEF Moved, WorkFails, LeaseOK, Held, Fenced, Terminal, taskVars,
       leaseVars, gitlabVars
<1>5. WorkOK'
  BY <1>1, <1>2 DEF Moved, WorkFails, WorkOK, Held, Fenced, Working, Terminal,
       taskVars, leaseVars, workerVars
<1>6. PipesOK'
  BY <1>1, <1>2 DEF Moved, WorkFails, PipesOK, Ended, waitVars, gitlabVars
<1>7. WaitersOK'
  BY <1>1, <1>2 DEF Moved, WorkFails, WaitersOK, WaitKey, taskVars, waitVars,
       Terminal
<1>8. QueueOK'
  BY SMT, Z3, <1>1, <1>2 DEF Moved, WorkFails, QueueOK, Ended, WaitKey, Unclaimed, taskVars,
       waitVars, gitlabVars, Terminal
<1>9. MsgOK'
  BY SMT, Z3, <1>1, <1>2, MovedMsg DEF WorkFails, Exec, TypeOK
<1> QED
  BY <1>3, <1>4, <1>5, <1>6, <1>7, <1>8, <1>9 DEF IInv

LEMMA FailKeeps == ASSUME IInv, NEW e \in execs, Fail(e) PROVE IInv'
<1>1. e \in Exec /\ TypeOK /\ LeaseOK /\ WorkOK /\ PipesOK /\ WaitersOK /\ MsgOK /\ QueueOK
  BY DEF IInv, TypeOK
<1> DEFINE n == [e EXCEPT !.pc = "unhandled"]
<1>2. Moved(e, n) /\ n.pc = "unhandled"
  BY <1>1 DEF Fail, Fenced, Goto, Set, Moved, Exec, ExecPcs
<1> HIDE DEF n
<1>3. TypeOK'
  BY <1>1, <1>2 DEF Moved, Fail, TypeOK, Statuses, Terminal, taskVars, waitVars,
       leaseVars, workerVars, gitlabVars
<1>4. LeaseOK'
  BY <1>1, <1>2 DEF Moved, Fail, LeaseOK, Held, Fenced, Terminal, taskVars,
       leaseVars, gitlabVars
<1>5. WorkOK'
  BY Zenon, <1>1, <1>2 DEF Moved, Fail, WorkOK, Held, Fenced, Working, Terminal, taskVars,
       leaseVars, workerVars
<1>6. PipesOK'
  BY Zenon, <1>1, <1>2 DEF Moved, Fail, PipesOK, Ended, waitVars, gitlabVars
<1>7. WaitersOK'
  BY <1>1, <1>2 DEF Moved, Fail, WaitersOK, WaitKey, taskVars, waitVars, Terminal
<1>8. QueueOK'
  BY SMT, Z3, <1>1, <1>2 DEF Moved, Fail, QueueOK, Ended, WaitKey, Unclaimed, taskVars,
       waitVars, gitlabVars, Terminal
<1>9. MsgOK'
  BY <1>1, <1>2, MovedMsg DEF Fail, Exec, TypeOK
<1> QED
  BY <1>3, <1>4, <1>5, <1>6, <1>7, <1>8, <1>9 DEF IInv

LEMMA SuspendKeeps == ASSUME IInv, NEW e \in execs, Suspend(e) PROVE IInv'
<1>1. e \in Exec /\ TypeOK /\ LeaseOK /\ WorkOK /\ PipesOK /\ WaitersOK /\ MsgOK /\ QueueOK
  BY DEF IInv, TypeOK
<1> DEFINE n == [e EXCEPT !.pc = CASE status = "running" /\ ~Fenced(e) -> "fail"
                              [] e.group -> "handled"
                              [] OTHER -> "recheck"]
<1>2. Moved(e, n) /\ n.pc \in {"fail", "handled", "recheck"}
  BY <1>1 DEF Suspend, Fenced, Goto, Set, Moved, Exec, ExecPcs
<1> HIDE DEF n
<1>3. TypeOK'
  BY <1>1, <1>2 DEF Moved, Suspend, TypeOK, Statuses, Terminal, taskVars, waitVars,
       leaseVars, workerVars, gitlabVars
<1>4. LeaseOK'
  BY <1>1, <1>2 DEF Moved, Suspend, LeaseOK, Held, Fenced, Terminal, taskVars,
       leaseVars, gitlabVars
<1>5. WorkOK'
  BY <1>1, <1>2 DEF Moved, Suspend, WorkOK, Held, Fenced, Working, Terminal,
       taskVars, leaseVars, workerVars
<1>6. PipesOK'
  BY <1>1, <1>2 DEF Moved, Suspend, PipesOK, Ended, waitVars, gitlabVars
<1>7. WaitersOK'
  BY <1>1, <1>2 DEF Moved, Suspend, WaitersOK, WaitKey, taskVars, waitVars,
       Terminal
<1>8. QueueOK'
  BY <1>1, <1>2 DEF Moved, Suspend, QueueOK, Ended, WaitKey, Unclaimed, taskVars,
       waitVars, gitlabVars, Terminal, WorkOK, Working
<1>9. MsgOK'
  BY <1>1, <1>2, MovedMsg DEF Suspend, Exec, TypeOK
<1> QED
  BY <1>3, <1>4, <1>5, <1>6, <1>7, <1>8, <1>9 DEF IInv

LEMMA RecheckKeeps == ASSUME IInv, NEW e \in execs, Recheck(e) PROVE IInv'
<1>1. e \in Exec /\ TypeOK /\ LeaseOK /\ WorkOK /\ PipesOK /\ WaitersOK /\ MsgOK /\ QueueOK
  BY DEF IInv, TypeOK
<1> DEFINE n == [e EXCEPT !.pc = "handled"]
<1>2. Moved(e, n) /\ n.pc = "handled" /\ e.pc = "recheck"
  BY <1>1 DEF Recheck, Goto, Set, Moved, Exec, ExecPcs
<1> HIDE DEF n
<1>3. UNCHANGED <<status, tries, owner, token, waiters, listed, cache, lease, fence,
                  proc, sess, crashes, orphan, pushes, pipes>>
  BY DEF Recheck, taskVars, leaseVars, workerVars, gitlabVars
<1>4. /\ wait' \in Wait
      /\ wait'.sha = wait.sha /\ wait'.pid = wait.pid /\ wait'.reg = wait.reg
      /\ inbox' \in [Workers -> SUBSET Msg]
      /\ \A w \in Workers : inbox[w] \subseteq inbox'[w]
  BY SMT, Z3, <1>1, Resumes DEF Recheck, Queued, TypeOK
<1>5. TypeOK'
  BY Zenon, <1>1, <1>2, <1>3, <1>4 DEF Moved, TypeOK
<1>6. LeaseOK'
  BY <1>1, <1>2, <1>3 DEF Moved, LeaseOK, Held
<1>7. WorkOK'
  BY Zenon, <1>1, <1>2, <1>3 DEF Moved, WorkOK, Working, Fenced, Held
<1>8. PipesOK' /\ WaitersOK'
  BY SMT, Z3, <1>1, <1>2, <1>3, <1>4 DEF Moved, PipesOK, WaitersOK, Ended, WaitKey
<1>9. MsgOK'
  BY <1>1, <1>2, <1>4, MovedMsg DEF Exec, TypeOK
<1>10. QueueOK'
  <2>1. CASE UNCHANGED <<inbox, wait>>
    BY Zenon, <1>1, <1>2, <1>3, <2>1, MovedQueue DEF Unclaimed, Ended
  <2>2. CASE \E ev, m : /\ Queued(ev, m) /\ Ended(ev)
                        /\ ev.sha = wait.sha /\ wait.pid \in {0, ev.pid}
    BY <1>2, <1>3, <2>2, QueuedKeeps DEF Moved
  <2> QED
    BY Zenon, <2>1, <2>2, Resumes DEF Recheck
<1> QED
  BY <1>5, <1>6, <1>7, <1>8, <1>9, <1>10 DEF IInv

LEMMA InspectKeeps == ASSUME IInv, NEW e \in execs, Inspect(e) PROVE IInv'
<1>1. e \in Exec /\ TypeOK /\ LeaseOK /\ WorkOK /\ PipesOK /\ WaitersOK /\ MsgOK /\ QueueOK
  BY DEF IInv, TypeOK
<1>2. e.pc = "inspect" /\ Ended(e.event)
  BY <1>1 DEF Inspect, PipesOK
<1>3. \E n : /\ Moved(e, n)
             /\ n.pc \in {"work", "register", "suspend"}
             /\ n.pc = "register" => n.sha = e.event.sha
  <2>1. CASE Goto(e, "work")
    <3> DEFINE n == [e EXCEPT !.pc = "work"]
    <3>1. Moved(e, n) /\ n.pc = "work"
      BY <1>1, <2>1 DEF Goto, Set, Moved, Exec, ExecPcs
    <3> QED
      BY Zenon, <3>1
  <2>2. CASE InspectErrors /\ Set(e, [e EXCEPT !.group = TRUE, !.pc = "suspend"])
    <3> DEFINE n == [e EXCEPT !.group = TRUE, !.pc = "suspend"]
    <3>1. Moved(e, n) /\ n.pc = "suspend"
      BY Zenon, <1>1, <2>2 DEF Set, Moved, Exec, ExecPcs
    <3> QED
      BY Zenon, <3>1
  <2>3. CASE /\ ~GroupTerminal(e.event.sha)
             /\ Set(e, [e EXCEPT !.group = TRUE, !.sha = e.event.sha, !.pid = Validator,
                                 !.pc = IF /\ pipes[e.event.sha][Validator] # "none"
                                           /\ Validator # e.event.pid
                                        THEN "register" ELSE "suspend"])
    <3> DEFINE q == IF /\ pipes[e.event.sha][Validator] # "none"
                       /\ Validator # e.event.pid
                    THEN "register" ELSE "suspend"
               n == [e EXCEPT !.group = TRUE, !.sha = e.event.sha, !.pid = Validator, !.pc = q]
    <3>1. q \in {"register", "suspend"} /\ e.event.sha \in Shas
      BY <1>2 DEF Ended, Event
    <3>2. execs' = (execs \ {e}) \cup {n}
      BY <2>3 DEF Set
    <3> HIDE DEF q
    <3>3. n.pc = q /\ n.sha = e.event.sha /\ n \in Exec
          /\ n.worker = e.worker /\ n.msg = e.msg /\ n.token = e.token
      BY Zenon, <1>1, <3>1, Constants DEF Exec, ExecPcs
    <3> HIDE DEF n
    <3> QED
      BY <3>1, <3>2, <3>3 DEF Moved
  <2> QED
    BY <2>1, <2>2, <2>3 DEF Inspect
<1>4. PICK n : /\ Moved(e, n)
               /\ n.pc \in {"work", "register", "suspend"}
               /\ n.pc = "register" => n.sha = e.event.sha
  BY <1>3
<1>5. UNCHANGED <<status, tries, owner, token, wait, waiters, listed, cache, lease, fence,
                  inbox, proc, sess, crashes, orphan, pushes, pipes>>
  BY DEF Inspect, taskVars, waitVars, leaseVars, workerVars, gitlabVars
<1>6. TypeOK'
  BY <1>1, <1>4, <1>5 DEF Moved, TypeOK
<1>7. LeaseOK'
  BY Zenon, <1>1, <1>4, <1>5 DEF Moved, LeaseOK, Held
<1>8. WorkOK'
  BY <1>1, <1>2, <1>4, <1>5 DEF Moved, WorkOK, Working, Fenced, Held
<1>9. PipesOK'
  <2>1. e.event.sha \in Shas /\ e.event.sha <= pushes /\ e.event.sha # 0
    BY Zenon, <1>1, <1>2, Constants DEF Ended, Event, PipesOK
  <2> QED
    BY Zenon, <1>1, <1>2, <1>4, <1>5, <2>1 DEF Moved, PipesOK, Ended
<1>10. WaitersOK'
  BY SMT, Z3, <1>1, <1>2, <1>4, <1>5 DEF Moved, WaitersOK, WaitKey
<1>11. MsgOK'
  BY Zenon, <1>1, <1>4, <1>5, MovedMsg DEF Exec, TypeOK
<1>12. QueueOK'
  BY <1>1, <1>2, <1>4, <1>5, MovedQueue DEF Unclaimed, Ended
<1> QED
  BY <1>6, <1>7, <1>8, <1>9, <1>10, <1>11, <1>12 DEF IInv

\* A commit that was just pushed is in no waiter set.
LEMMA PushKeeps == ASSUME IInv, NEW e \in execs, Push(e) PROVE IInv'
<1>1. e \in Exec /\ TypeOK /\ LeaseOK /\ WorkOK /\ PipesOK /\ WaitersOK /\ MsgOK /\ QueueOK
  BY DEF IInv, TypeOK
<1> DEFINE c == pushes + 1
           n == [e EXCEPT !.sha = c, !.pid = 0, !.group = FALSE, !.pc = "register"]
<1>2. c \in Shas /\ pushes \in Nat /\ pushes' = c /\ c <= MaxPushes
  BY SMT, Z3, <1>1, Constants DEF Push, TypeOK, Shas
<1>3. /\ UNCHANGED <<status, tries, owner, token, wait, waiters, listed, cache, lease, fence,
                     inbox, proc, sess, crashes, orphan>>
      /\ e.pc = "work"
      /\ pipes' = [pipes EXCEPT ![c][1] = "running"]
      /\ execs' = (execs \ {e}) \cup {n}
  BY DEF Push, Set, taskVars, waitVars, leaseVars, workerVars
<1>4. Moved(e, n) /\ n.pc = "register" /\ n.sha = c
  <2> HIDE DEF c
  <2>1. n \in Exec /\ n.pc = "register" /\ n.sha = c
        /\ n.worker = e.worker /\ n.msg = e.msg /\ n.token = e.token
    BY Zenon, <1>1, <1>2 DEF Exec, ExecPcs
  <2> HIDE DEF n
  <2> QED
    BY <1>3, <2>1 DEF Moved
<1>5. /\ pipes' \in [Shas -> [Pids -> {"none", "running", "done"}]]
      /\ \A s \in Shas, p \in Pids : pipes'[s][p] # "none" => s <= c
      /\ \A ev : Ended(ev) => ev.sha <= pushes /\ Ended(ev)'
  <2>1. pipes' \in [Shas -> [Pids -> {"none", "running", "done"}]]
    BY <1>1, <1>2, <1>3, Constants DEF TypeOK
  <2>2. \A s \in Shas, p \in Pids : s # c => pipes'[s][p] = pipes[s][p]
    BY <1>1, <1>2, <1>3, Constants DEF TypeOK
  <2>3. \A s \in Shas, p \in Pids : pipes[s][p] # "none" => s <= pushes
    BY <1>1 DEF PipesOK
  <2>4. \A s \in Shas : s \in Nat
    BY Zenon, Constants
  <2> HIDE DEF n
  <2> QED
    BY SMT, Z3, <1>2, <2>1, <2>2, <2>3, <2>4 DEF Ended, Event
<1> HIDE DEF n
<1>6. TypeOK'
  BY SMT, Z3, <1>1, <1>2, <1>3, <1>4, <1>5, Constants DEF Moved, TypeOK
<1>7. LeaseOK'
  BY <1>1, <1>3, <1>4 DEF Moved, LeaseOK, Held
<1>8. WorkOK'
  BY Zenon, <1>1, <1>3, <1>4 DEF Moved, WorkOK, Working, Fenced, Held
<1>9. \A k \in waiters : k \in Keys /\ k[1] \in Nat /\ k[1] <= pushes
  BY Zenon, <1>1, Constants DEF PipesOK, TypeOK, Keys
<1>10. PipesOK'
  <2>1. \A f \in execs : f.sha \in Nat
    BY SMT, Z3, <1>1, Constants DEF TypeOK, Exec
  <2> QED
    BY SMT, Z3, <1>1, <1>2, <1>3, <1>4, <1>5, <1>9, <2>1 DEF Moved, PipesOK
<1>11. WaitersOK'
  BY SMT, Z3, <1>1, <1>2, <1>3, <1>4, <1>9 DEF Moved, WaitersOK, WaitKey
<1>12. MsgOK'
  BY <1>1, <1>3, <1>4, MovedMsg DEF Exec, TypeOK
<1>13. QueueOK'
  BY <1>1, <1>3, <1>4, <1>5, MovedQueue DEF Unclaimed
<1> QED
  BY <1>6, <1>7, <1>8, <1>10, <1>11, <1>12, <1>13 DEF IInv

\* The commit that is registered was in no waiter set, and no other delivery is
\* about to register one.
LEMMA RegisterKeeps == ASSUME IInv, NEW e \in execs, Register(e) PROVE IInv'
<1>1. e \in Exec /\ TypeOK /\ LeaseOK /\ WorkOK /\ PipesOK /\ WaitersOK /\ MsgOK /\ QueueOK
  BY DEF IInv, TypeOK
<1> DEFINE key == <<e.sha, e.pid>>
<1>2. e.pc = "register" /\ e.sha \in Shas /\ e.sha <= pushes /\ key \in Keys
  BY <1>1, Constants DEF Register, PipesOK, Exec, Keys
<1>3. UNCHANGED <<status, tries, owner, token, cache, lease, fence, inbox, proc, sess,
                  crashes, orphan, pushes, pipes>>
  BY DEF Register, taskVars, leaseVars, workerVars, gitlabVars
<1>4. CASE cache[key].done
  <2> DEFINE n == [e EXCEPT !.event = cache[key], !.pc = "inspect"]
  <2>1. execs' = (execs \ {e}) \cup {n} /\ UNCHANGED <<wait, waiters, listed>>
    BY <1>4 DEF Register, RegisterKey, Set
  <2>2. Ended(cache[key]) /\ cache[key].sha = e.sha /\ cache[key] \in MaybeEvent
    BY Zenon, <1>1, <1>2, <1>4 DEF PipesOK, TypeOK
  <2>3. Moved(e, n) /\ n.pc = "inspect" /\ n.event = cache[key]
    <3>1. n \in Exec /\ n.pc = "inspect" /\ n.event = cache[key]
          /\ n.worker = e.worker /\ n.msg = e.msg /\ n.token = e.token
      BY Zenon, <1>1, <2>2 DEF Exec, ExecPcs
    <3> HIDE DEF n
    <3> QED
      BY <2>1, <3>1 DEF Moved
  <2> HIDE DEF n
  <2>4. TypeOK'
    BY <1>1, <1>3, <2>1, <2>3 DEF Moved, TypeOK
  <2>5. LeaseOK'
    BY Zenon, <1>1, <1>3, <2>3 DEF Moved, LeaseOK, Held
  <2>6. WorkOK'
    BY Zenon, <1>1, <1>2, <1>3, <2>3 DEF Moved, WorkOK, Working, Fenced, Held
  <2>7. PipesOK'
    BY Zenon, <1>1, <1>3, <2>1, <2>2, <2>3 DEF Moved, PipesOK, Ended
  <2>8. WaitersOK'
    BY Zenon, <1>1, <1>2, <1>3, <2>1, <2>2, <2>3 DEF Moved, WaitersOK, WaitKey
  <2>9. MsgOK'
    BY SMT, Z3, <1>1, <1>3, <2>3, MovedMsg DEF Exec, TypeOK
  <2>10. QueueOK'
    BY Zenon, <1>1, <1>2, <1>3, <2>1, <2>3, MovedQueue DEF Unclaimed, Ended
  <2> QED
    BY <2>4, <2>5, <2>6, <2>7, <2>8, <2>9, <2>10 DEF IInv
<1>5. CASE ~cache[key].done
  <2> DEFINE n == [e EXCEPT !.pc = "suspend"]
             v == [sha |-> e.sha, pid |-> e.pid, reg |-> TRUE, queued |-> NoEvent]
  <2>1. /\ wait' = v /\ waiters' = waiters \cup {key} /\ listed' = TRUE
        /\ execs' = (execs \ {e}) \cup {n}
    BY <1>5 DEF Register, RegisterKey, Goto, Set
  <2>2. /\ v \in Wait /\ v.sha = e.sha /\ v.pid = e.pid /\ v.reg = TRUE
        /\ v.queued = NoEvent
    BY <1>1 DEF Wait, Exec, MaybeEvent
  <2>3. Moved(e, n) /\ n.pc = "suspend"
    BY <1>1, <2>1 DEF Moved, Exec, ExecPcs
  <2> HIDE DEF n, v
  <2>4. TypeOK'
    BY Zenon, <1>1, <1>2, <1>3, <2>1, <2>2, <2>3 DEF Moved, TypeOK
  <2>5. LeaseOK'
    BY <1>1, <1>3, <2>3 DEF Moved, LeaseOK, Held
  <2>6. WorkOK'
    BY Zenon, <1>1, <1>2, <1>3, <2>3 DEF Moved, WorkOK, Working, Fenced, Held
  <2>7. PipesOK'
    BY SMT, Z3, <1>1, <1>2, <1>3, <2>1, <2>2, <2>3, Constants DEF Moved, PipesOK, Ended
  <2>8. WaitersOK'
    <3>1. \A f \in execs' : f.pc \notin {"inspect", "register"}
      BY Zenon, <1>1, <1>2, <2>3 DEF WorkOK, Working, Moved
    <3>2. status \notin Terminal => \A k \in waiters : k[1] # e.sha
      BY <1>1, <1>2 DEF WaitersOK
    <3>3. wait'.sha = e.sha /\ wait'.reg /\ WaitKey' = key
      BY <2>1, <2>2 DEF WaitKey
    <3> QED
      BY Zenon, <1>3, <2>1, <3>1, <3>2, <3>3 DEF WaitersOK
  <2>9. MsgOK'
    BY SMT, Z3, <1>1, <1>3, <2>3, MovedMsg DEF Exec, TypeOK
  <2>10. QueueOK'
    <3>1. wait'.queued = NoEvent /\ WaitKey' = key /\ cache' = cache
      BY Zenon, <1>3, <2>1, <2>2 DEF WaitKey
    <3> QED
      BY Zenon, <1>5, <3>1 DEF QueueOK
  <2> QED
    BY <2>4, <2>5, <2>6, <2>7, <2>8, <2>9, <2>10 DEF IInv
<1> QED
  BY <1>4, <1>5

\* Only a delivery that has claimed its message, or is none of the queued
\* event, takes it out of the inbox before the task ends.
LEMMA FinishKeeps == ASSUME IInv, NEW e \in execs, FinishDelivery(e) PROVE IInv'
<1>1. e \in Exec /\ TypeOK /\ LeaseOK /\ WorkOK /\ PipesOK /\ WaitersOK /\ MsgOK /\ QueueOK
  BY DEF IInv, TypeOK
<1>2. /\ e.pc \in {"handled", "unhandled"}
      /\ execs' = execs \ {e}
      /\ UNCHANGED <<status, owner, token, wait, waiters, listed, cache, lease, fence, proc,
                     sess, crashes, orphan, pushes, pipes>>
      /\ inbox' = IF e.pc = "handled" \/ status \in Terminal
                  THEN [inbox EXCEPT ![e.worker] = @ \ {e.msg}] ELSE inbox
  BY DEF FinishDelivery, AcksDelivery, waitVars, leaseVars, workerVars, gitlabVars
<1>3. TypeOK'
  <2>1. tries' \in 0..TryLimit
    BY SMT, Z3, <1>1, Constants DEF FinishDelivery, CountFailure, TypeOK
  <2>2. inbox' \in [Workers -> SUBSET Msg]
    BY Zenon, <1>1, <1>2 DEF TypeOK, Exec
  <2> QED
    BY Zenon, <1>1, <1>2, <2>1, <2>2 DEF TypeOK
<1>4. LeaseOK' /\ WorkOK'
  BY Zenon, <1>1, <1>2 DEF LeaseOK, WorkOK, Held, Fenced, Working
<1>5. PipesOK' /\ WaitersOK'
  BY Zenon, <1>1, <1>2 DEF PipesOK, WaitersOK, Ended, WaitKey
<1>6. \A w \in Workers : inbox'[w] \subseteq inbox[w]
  BY <1>1, <1>2 DEF TypeOK, Exec
<1>7. \A w \in Workers : \A m \in inbox[w] : m \notin inbox'[w] =>
          w = e.worker /\ m = e.msg /\ (e.pc = "handled" \/ status \in Terminal)
  BY <1>1, <1>2 DEF TypeOK, Exec
<1>8. MsgOK'
  BY Zenon, <1>1, <1>2, <1>7 DEF MsgOK, TypeOK, Exec
<1>9. QueueOK'
  <2>1. ASSUME status = "waiting", wait.queued # NoEvent, wait.queued.sha = wait.sha
        PROVE  \E w \in Workers : \E m \in inbox'[w] :
                   /\ m.event = wait.queued
                   /\ m.via = "queue"
                   /\ \A f \in execs' : f.worker = w /\ f.msg = m => Unclaimed(f)
    <3>1. PICK w \in Workers : \E m \in inbox[w] :
              /\ m.event = wait.queued
              /\ m.via = "queue"
              /\ \A f \in execs : f.worker = w /\ f.msg = m => Unclaimed(f)
      BY Zenon, <1>1, <2>1 DEF QueueOK
    <3>2. PICK m \in inbox[w] :
              /\ m.event = wait.queued
              /\ m.via = "queue"
              /\ \A f \in execs : f.worker = w /\ f.msg = m => Unclaimed(f)
      BY <3>1
    <3>3. m \in inbox'[w]
      BY Zenon, <1>7, <2>1, <3>2 DEF Unclaimed, Terminal
    <3> QED
      <4>1. execs' \subseteq execs
        BY Zenon, <1>2
      <4>2. \A f \in execs' : f.worker = w /\ f.msg = m => Unclaimed(f)
        BY Zenon, <3>2, <4>1
      <4> QED
        BY Zenon, <3>2, <3>3, <4>2
  <2> QED
    BY Zenon, <1>1, <1>2, <1>6, <2>1, QueueStays
<1> QED
  BY <1>3, <1>4, <1>5, <1>8, <1>9 DEF IInv

LEMMA DeliverKeeps ==
  ASSUME IInv, NEW w \in Workers, NEW m \in inbox[w], Deliver(w, m) PROVE IInv'
<1>1. TypeOK /\ LeaseOK /\ WorkOK /\ PipesOK /\ WaitersOK /\ MsgOK /\ QueueOK /\ m \in Msg
  BY Zenon DEF IInv, TypeOK
<1>2. /\ proc[w] = "up"
      /\ \A e \in execs : ~(e.worker = w /\ e.msg = m)
      /\ UNCHANGED <<status, owner, token, wait, waiters, listed, cache, lease, fence, proc,
                     crashes, orphan, pushes, pipes>>
  BY Zenon DEF Deliver, waitVars, leaseVars, gitlabVars
<1>3. CASE owner = w
  <2> DEFINE q == IF m.event = NoEvent THEN "begin" ELSE "claim"
             d == [worker |-> w, msg |-> m, token |-> token, event |-> m.event,
                   sha |-> 0, pid |-> 0, group |-> FALSE, pc |-> q]
  <2>1. execs' = execs \cup {d} /\ sess' = [sess EXCEPT ![w] = token]
        /\ UNCHANGED <<tries, inbox>>
    BY Zenon, <1>3 DEF Deliver
  <2>2. q \in {"begin", "claim"} /\ (q = "claim" => m.event # NoEvent)
    OBVIOUS
  <2> HIDE DEF q
  <2>3. /\ d \in Exec /\ d.worker = w /\ d.msg = m /\ d.token = token /\ d.event = m.event
        /\ d.pc = q
    BY Zenon, <1>1, <2>2 DEF Exec, ExecPcs, Msg, TypeOK
  <2> HIDE DEF d
  <2>4. TypeOK'
    BY Zenon, <1>1, <1>2, <2>1, <2>3 DEF TypeOK
  <2>5. LeaseOK' /\ WorkOK'
    BY Zenon, <1>1, <1>2, <2>1, <2>2, <2>3 DEF LeaseOK, WorkOK, Held, Fenced, Working
  <2>6. PipesOK' /\ WaitersOK'
    BY Zenon, <1>1, <1>2, <2>1, <2>2, <2>3 DEF PipesOK, WaitersOK, Ended, WaitKey
  <2>7. MsgOK'
    BY Zenon, <1>1, <1>2, <2>1, <2>2, <2>3 DEF MsgOK
  <2>8. QueueOK'
    <3>1. d.msg.event = wait.queued /\ wait.queued # NoEvent => Unclaimed(d)
      BY <2>3 DEF Unclaimed, q
    <3> QED
      BY Zenon, <1>1, <1>2, <2>1, <3>1, QueueDelivered
  <2> QED
    BY <2>4, <2>5, <2>6, <2>7, <2>8 DEF IInv
<1>4. CASE owner # w
  <2>1. /\ UNCHANGED <<sess, execs>>
        /\ inbox' = IF status \in Terminal THEN [inbox EXCEPT ![w] = @ \ {m}] ELSE inbox
    BY Zenon, <1>4 DEF Deliver
  <2>2. TypeOK'
    <3>1. tries' \in 0..TryLimit
      BY SMT, Z3, <1>1, <1>4, Constants DEF Deliver, CountFailure, TypeOK
    <3>2. inbox' \in [Workers -> SUBSET Msg]
      BY <1>1, <2>1 DEF TypeOK
    <3> QED
      BY Zenon, <1>1, <1>2, <2>1, <3>1, <3>2 DEF TypeOK
  <2>3. LeaseOK' /\ WorkOK'
    BY Zenon, <1>1, <1>2, <2>1 DEF LeaseOK, WorkOK, Held, Fenced, Working
  <2>4. PipesOK' /\ WaitersOK'
    BY Zenon, <1>1, <1>2, <2>1 DEF PipesOK, WaitersOK, Ended, WaitKey
  <2>5. MsgOK'
    BY Zenon, <1>1, <1>2, <2>1 DEF MsgOK, TypeOK, Exec
  <2>6. QueueOK'
    BY SMT, Z3, <1>1, <1>2, <2>1 DEF QueueOK, Ended, WaitKey, Unclaimed, Terminal
  <2> QED
    BY <2>2, <2>3, <2>4, <2>5, <2>6 DEF IInv
<1> QED
  BY <1>3, <1>4

-----------------------------------------------------------------------------
(* GitLab and the events *)

\* A step that leaves the wait, its registration and its messages alone, ends
\* deliveries at most, and may add messages of other kinds.
LEMMA WaitStays ==
  ASSUME IInv, UNCHANGED <<wait, waiters, listed, cache, pushes, pipes>>, execs' \subseteq execs,
         \A w \in Workers : inbox[w] \subseteq inbox'[w],
         \A w \in Workers : \A m \in inbox'[w] : m \in inbox[w] \/ m.via # "queue",
         \/ status' = status
         \/ status' \in Terminal
         \/ status \in {"queued", "assigned", "running"}
            /\ status' \in {"queued", "assigned", "running"}
  PROVE  PipesOK' /\ WaitersOK' /\ MsgOK' /\ QueueOK'
<1>1. TypeOK /\ PipesOK /\ WaitersOK /\ MsgOK /\ QueueOK
  BY DEF IInv
<1>2. PipesOK'
  BY Zenon, <1>1 DEF PipesOK, Ended
<1>3. WaitersOK'
  BY Zenon, <1>1 DEF WaitersOK, WaitKey, Terminal
<1>4. MsgOK'
  BY Zenon, <1>1 DEF MsgOK, TypeOK, Exec
<1>5. ASSUME status = "waiting", wait.queued # NoEvent, wait.queued.sha = wait.sha
      PROVE  \E w \in Workers : \E m \in inbox'[w] :
                 /\ m.event = wait.queued
                 /\ m.via = "queue"
                 /\ \A f \in execs' : f.worker = w /\ f.msg = m => Unclaimed(f)
  BY SMT, Z3, <1>1, <1>5 DEF QueueOK
<1>6. QueueOK'
  BY SMT, Z3, <1>1, <1>5 DEF QueueOK, Ended, WaitKey, Unclaimed, Terminal
<1> QED
  BY Zenon, <1>2, <1>3, <1>4, <1>6

\* A pipeline that has ended has ended for good, so events stay what they are.
LEMMA PipelineKeeps ==
  ASSUME IInv, NEW sha \in Shas, NEW pid \in Pids,
         StartChild(sha, pid) \/ FinishPipeline(sha, pid)
  PROVE  IInv'
<1>1. TypeOK /\ LeaseOK /\ WorkOK /\ PipesOK /\ WaitersOK /\ MsgOK /\ QueueOK
  BY DEF IInv
<1>2. UNCHANGED <<status, tries, owner, token, wait, waiters, listed, cache, lease, fence,
                  inbox, proc, sess, crashes, execs, orphan, pushes>>
  BY Zenon DEF StartChild, FinishPipeline, taskVars, waitVars, leaseVars, workerVars
<1>3. \E q \in {"running", "done"} : pipes' = [pipes EXCEPT ![sha][pid] = q]
  BY DEF StartChild, FinishPipeline
<1>4. pipes' \in [Shas -> [Pids -> {"none", "running", "done"}]]
  BY SMT, Z3, <1>1, <1>3 DEF TypeOK
<1>5. \A s \in Shas, p \in Pids : s # sha \/ p # pid => pipes'[s][p] = pipes[s][p]
  BY SMT, Z3, <1>1, <1>3 DEF TypeOK
<1>6. pipes[sha][pid] # "done" /\ sha <= pushes
  BY Zenon, <1>1, Constants DEF StartChild, FinishPipeline, PipesOK
<1>7. \A ev : Ended(ev) => Ended(ev)'
  BY Zenon, <1>5, <1>6 DEF Ended, Event
<1>8. TypeOK'
  BY Zenon, <1>1, <1>2, <1>4 DEF TypeOK
<1>9. LeaseOK' /\ WorkOK' /\ WaitersOK' /\ MsgOK'
  BY Zenon, <1>1, <1>2 DEF LeaseOK, WorkOK, WaitersOK, MsgOK, Held, Fenced, WaitKey
<1>10. PipesOK'
  BY Zenon, <1>1, <1>2, <1>5, <1>6, <1>7 DEF PipesOK
<1>11. QueueOK'
  BY SMT, Z3, <1>1, <1>2, <1>7 DEF QueueOK, WaitKey
<1> QED
  BY <1>8, <1>9, <1>10, <1>11 DEF IInv

\* Publishing a new event, by a webhook or by the scan.
LEMMA PublishKeeps ==
  ASSUME IInv, NEW ev \in Event, Publish(ev),
         ev.done => Ended(ev) /\ \A w \in Workers : \A m \in inbox[w] : m.event # ev,
         UNCHANGED <<taskVars, leaseVars, workerVars, execs, orphan, gitlabVars>>
  PROVE  IInv'
<1>1. TypeOK /\ LeaseOK /\ WorkOK /\ PipesOK /\ WaitersOK /\ MsgOK /\ QueueOK
  BY DEF IInv
<1>2. UNCHANGED <<status, tries, owner, token, waiters, listed, lease, fence, proc, sess,
                  crashes, execs, orphan, pushes, pipes>>
  BY Zenon DEF Publish, taskVars, leaseVars, workerVars, gitlabVars
<1> DEFINE a == <<ev.sha, 0>>
           b == <<ev.sha, ev.pid>>
           half == [cache EXCEPT ![a] = ev]
<1>3. ev.sha \in Shas /\ ev.pid \in Pids /\ ev.done \in BOOLEAN /\ a \in Keys /\ b \in Keys
  BY Zenon DEF Event, Keys
<1>4. cache' \in [Keys -> MaybeEvent]
      /\ \A k \in Keys : cache'[k] = IF k \in {a, b} THEN ev ELSE cache[k]
  <2>1. half \in [Keys -> MaybeEvent] /\ \A k \in Keys : half[k] = IF k = a THEN ev ELSE cache[k]
    BY Zenon, <1>1, <1>3 DEF TypeOK, MaybeEvent
  <2>2. cache' = [half EXCEPT ![b] = ev]
    BY Zenon DEF Publish
  <2> HIDE DEF half, a, b
  <2> QED
    BY Zenon, <1>3, <2>1, <2>2 DEF MaybeEvent
<1>5. \/ UNCHANGED <<inbox, wait>>
      \/ \E m : Queued(ev, m) /\ ev.done /\ (a \in waiters \/ b \in waiters)
  <2> SUFFICES ASSUME ev.done, a \in waiters \/ b \in waiters, CanQueue, QueueResume(ev)
               PROVE  \E m : Queued(ev, m)
    BY Zenon DEF Publish
  <2> DEFINE m == [event |-> ev, token |-> token, via |-> "queue"]
             v == [wait EXCEPT !.queued = ev]
  <2>1. m \in Msg /\ m.event = ev /\ m.via = "queue"
    BY Zenon, <1>1 DEF TypeOK, Msg, MaybeEvent
  <2>2. v \in Wait /\ v.sha = wait.sha /\ v.pid = wait.pid /\ v.reg = wait.reg /\ v.queued = ev
    BY Zenon, <1>1 DEF TypeOK, Wait, MaybeEvent
  <2>3. wait' = v /\ inbox' = [inbox EXCEPT ![owner] = @ \cup {m}]
    BY DEF QueueResume
  <2> HIDE DEF m, v
  <2>4. status = "waiting" /\ owner \in Workers /\ wait.queued = NoEvent
    BY Zenon, <1>1 DEF CanQueue, TypeOK
  <2>5. m \notin inbox[owner]
    BY Zenon, <2>1, <2>4
  <2> QED
    BY Zenon, <2>1, <2>2, <2>3, <2>4, <2>5 DEF Queued
<1>6. /\ wait' \in Wait
      /\ wait'.sha = wait.sha /\ wait'.pid = wait.pid /\ wait'.reg = wait.reg
      /\ inbox' \in [Workers -> SUBSET Msg]
      /\ \A w \in Workers : inbox[w] \subseteq inbox'[w]
  BY SMT, Z3, <1>1, <1>5 DEF Queued, TypeOK
<1>7. TypeOK'
  BY Zenon, <1>1, <1>2, <1>4, <1>6 DEF TypeOK
<1>8. LeaseOK' /\ WorkOK'
  BY Zenon, <1>1, <1>2 DEF LeaseOK, WorkOK, Held, Fenced
<1>9. PipesOK'
  <2>1. \A x : Ended(x)' <=> Ended(x)
    BY Zenon, <1>2 DEF Ended
  <2>2. \A k \in {a, b} : k[1] = ev.sha /\ k[2] \in {0, ev.pid}
    BY SMT, Z3
  <2> HIDE DEF a, b
  <2> QED
    BY Zenon, <1>1, <1>2, <1>4, <1>6, <2>1, <2>2 DEF PipesOK
<1>10. WaitersOK'
  BY Zenon, <1>1, <1>2, <1>6 DEF WaitersOK, WaitKey
<1>11. MsgOK'
  BY Zenon, <1>1, <1>2, <1>6 DEF MsgOK, TypeOK, Exec
<1>12. QueueOK'
  <2>1. CASE UNCHANGED <<inbox, wait>>
    <3>1. \A k \in Keys : cache'[k].done => cache'[k] = cache[k] \/ (cache'[k] = ev /\ ev.done)
      BY Zenon, <1>4
    <3>2. wait.reg => WaitKey \in Keys
      BY Zenon, <1>1 DEF TypeOK, Wait, WaitKey, PipesOK, Keys
    <3> QED
      BY Zenon, <1>1, <1>2, <2>1, <3>1, <3>2, QueueCached
  <2>2. CASE \E m : Queued(ev, m) /\ ev.done /\ (a \in waiters \/ b \in waiters)
    <3>1. PICK m : Queued(ev, m) /\ ev.done /\ (a \in waiters \/ b \in waiters)
      BY Zenon, <2>2
    <3>2. ev.sha = wait.sha => wait.pid \in {0, ev.pid}
      BY Zenon, <1>1, <3>1 DEF WaitersOK, WaitKey, Queued, Terminal
    <3> QED
      BY Zenon, <1>2, <3>1, <3>2, QueuedKeeps
  <2> QED
    BY Zenon, <1>5, <2>1, <2>2
<1> QED
  BY Zenon, <1>7, <1>8, <1>9, <1>10, <1>11, <1>12 DEF IInv

LEMMA WebhookKeeps ==
  ASSUME IInv, NEW sha \in Shas, NEW pid \in Pids, NEW done \in BOOLEAN, Webhook(sha, pid, done)
  PROVE  IInv'
<1>1. PICK ev \in NewEvents(sha, pid, done) : Publish(ev)
  BY Zenon DEF Webhook
<1>2. /\ ev \in Event /\ ev.sha = sha /\ ev.pid = pid /\ ev.done = done
      /\ done => \A w \in Workers : \A m \in inbox[w] : m.event # ev
  BY SMT, Z3, NewEvent DEF IInv
<1>3. ev.done => Ended(ev)
  BY <1>2 DEF Webhook, Ended
<1> QED
  BY <1>1, <1>2, <1>3, PublishKeeps DEF Webhook

LEMMA ScanKeeps == ASSUME IInv, FallbackScan PROVE IInv'
<1>1. TypeOK /\ LeaseOK /\ WorkOK /\ PipesOK /\ listed
  BY DEF IInv, FallbackScan
<1>2. CASE status # "waiting"
  <2>1. /\ listed' = FALSE
        /\ UNCHANGED <<status, tries, owner, token, wait, waiters, cache, lease, fence, inbox,
                       proc, sess, crashes, execs, orphan, pushes, pipes>>
    BY Zenon, <1>2 DEF FallbackScan, taskVars, leaseVars, workerVars, gitlabVars
  <2>2. TypeOK' /\ LeaseOK' /\ WorkOK' /\ PipesOK'
    BY Zenon, <1>1, <2>1 DEF TypeOK, LeaseOK, WorkOK, PipesOK, Held, Fenced, Ended
  <2>3. WaitersOK' /\ MsgOK'
    BY Zenon, <2>1 DEF IInv, WaitersOK, MsgOK, WaitKey
  <2>4. QueueOK'
    BY Zenon, <1>2, <2>1, QueueStays DEF IInv
  <2> QED
    BY Zenon, <2>2, <2>3, <2>4 DEF IInv
<1>3. CASE status = "waiting"
  <2>1. PICK pid \in Scanned :
            /\ pipes[wait.sha][pid] = "done"
            /\ \E ev \in NewEvents(wait.sha, pid, TRUE) : Publish(ev)
    BY Zenon, <1>3 DEF FallbackScan
  <2>2. wait.sha \in Shas /\ pid \in Pids
    BY <1>1 DEF TypeOK, Wait, PipesOK, Scanned, Created
  <2>3. PICK ev \in Terminals(wait.sha, pid) : Publish(ev)
    BY Zenon, <2>1 DEF Terminals
  <2>4. /\ ev \in Event /\ ev.sha = wait.sha /\ ev.pid = pid /\ ev.done
        /\ \A w \in Workers : \A m \in inbox[w] : m.event # ev
    <3> DEFINE sha == wait.sha
    <3>1. sha \in Shas /\ pid \in Pids /\ ev \in Terminals(sha, pid) /\ TypeOK
      BY Zenon, <1>1, <2>2
    <3> HIDE DEF sha
    <3>2. /\ ev \in Event /\ ev.sha = sha /\ ev.pid = pid /\ ev.done
          /\ \A w \in Workers : \A m \in inbox[w] : m.event # ev
      BY SMT, Z3, <3>1, NewTerminal
    <3> QED
      BY Zenon, <3>2 DEF sha
  <2>5. Ended(ev)
    BY Zenon, <2>1, <2>4 DEF Ended
  <2> QED
    BY <2>3, <2>4, <2>5, PublishKeeps DEF FallbackScan
<1> QED
  BY Zenon, <1>2, <1>3

-----------------------------------------------------------------------------
(* The scheduler and the worker processes *)

\* The scheduler never gives a token that a delivery has to another worker.
LEMMA DispatchKeeps == ASSUME IInv, NEW w \in Workers, Dispatch(w) PROVE IInv'
<1>1. TypeOK /\ LeaseOK /\ WorkOK
  BY DEF IInv
<1> DEFINE m == [event |-> NoEvent, token |-> lease'.token, via |-> "assign"]
<1>2. /\ status = "queued" /\ status' = "assigned" /\ owner' = w /\ token' = lease'.token
      /\ inbox' = [inbox EXCEPT ![w] = @ \cup {m}]
      /\ UNCHANGED <<tries, wait, waiters, listed, cache, proc, sess, crashes, execs, orphan,
                     pushes, pipes>>
  BY DEF Dispatch, waitVars, workerVars, gitlabVars
<1>3. \/ lease' = lease /\ fence' = fence /\ lease.worker = w
      \/ lease' = [worker |-> w, token |-> fence + 1] /\ fence' = fence + 1
  BY DEF Dispatch, leaseVars
<1>4. /\ lease' \in Lease /\ fence' \in Nat /\ fence <= fence'
      /\ lease'.worker = w /\ lease'.token \in Nat /\ lease'.token <= fence'
      /\ lease' = [worker |-> w, token |-> lease'.token]
  BY SMT, Z3, <1>1, <1>3, Constants DEF TypeOK, Lease, NoLease, LeaseOK
<1>5. m \in Msg /\ m.via = "assign"
  BY Zenon, <1>4 DEF Msg, MaybeEvent
<1> HIDE DEF m
<1>6. /\ inbox' \in [Workers -> SUBSET Msg]
      /\ \A v \in Workers : inbox[v] \subseteq inbox'[v]
      /\ \A v \in Workers : \A x \in inbox'[v] : x \in inbox[v] \/ x.via # "queue"
  BY Zenon, <1>1, <1>2, <1>5 DEF TypeOK
<1>7. TypeOK'
  BY Zenon, <1>1, <1>2, <1>4, <1>6 DEF TypeOK, Statuses
<1>8. LeaseOK'
  <2>1. \A e \in execs : e.token \in Nat /\ e.token <= fence
    BY <1>1 DEF LeaseOK, TypeOK, Exec
  <2>2. orphan.pc = "idle"
    BY Zenon, <1>1, <1>2 DEF LeaseOK, Terminal
  <2> QED
    BY SMT, Z3, <1>1, <1>2, <1>4, <2>1, <2>2 DEF LeaseOK, Held, TypeOK
<1>9. WorkOK'
  BY Zenon, <1>1, <1>2 DEF WorkOK, Working, Terminal
<1>10. PipesOK' /\ WaitersOK' /\ MsgOK' /\ QueueOK'
  BY <1>2, <1>6, WaitStays
<1> QED
  BY <1>7, <1>8, <1>9, <1>10 DEF IInv

\* The owner of a task that is recovered is dead, so no delivery works for it.
LEMMA RecoverKeeps == ASSUME IInv, Recover PROVE IInv'
<1>1. TypeOK /\ LeaseOK /\ WorkOK
  BY Zenon DEF IInv
<1>2. /\ status \in {"assigned", "running"} /\ status' \in {"queued", "failed"}
      /\ proc[owner] = "dead" /\ owner \in Workers
      /\ owner' \in Workers \cup {NoWorker} /\ token' \in Nat /\ token' <= token
      /\ UNCHANGED <<tries, wait, waiters, listed, cache, fence, inbox, proc, sess, crashes,
                     execs, orphan, pushes, pipes>>
  BY SMT, Z3, <1>1 DEF Recover, waitVars, workerVars, gitlabVars, TypeOK
<1>3. Held(owner, token) /\ lease' = NoLease
  BY Zenon, <1>1, <1>2 DEF LeaseOK, Recover, Revoked
<1>4. TypeOK'
  BY Zenon, <1>1, <1>2, <1>3 DEF TypeOK, Statuses, Terminal, Lease
<1>5. LeaseOK'
  <2>1. orphan.pc = "idle"
    BY Zenon, <1>1, <1>2 DEF LeaseOK, Terminal
  <2> QED
    BY SMT, Z3, <1>1, <1>2, <1>3, <2>1 DEF LeaseOK, NoLease, TypeOK
<1>6. WorkOK'
  <2>1. \A e \in execs : ~Working(e)
    BY Zenon, <1>1, <1>2, <1>3 DEF WorkOK, Fenced, Held, Terminal
  <2> QED
    BY Zenon, <1>1, <1>2, <2>1 DEF WorkOK, Working
<1>7. PipesOK' /\ WaitersOK' /\ MsgOK' /\ QueueOK'
  BY Zenon, <1>2, WaitStays DEF Terminal
<1> QED
  BY <1>4, <1>5, <1>6, <1>7 DEF IInv

LEMMA OrphanKeeps == ASSUME IInv, OrphanRevoke \/ OrphanClaim PROVE IInv'
<1>1. TypeOK /\ LeaseOK /\ WorkOK
  BY DEF IInv
<1>2. UNCHANGED <<status, tries, owner, token, wait, waiters, listed, cache, inbox, proc, sess,
                  crashes, execs, pushes, pipes>>
  BY DEF OrphanRevoke, OrphanClaim, taskVars, waitVars, workerVars, gitlabVars
<1>3. status \notin {"assigned", "running"}
  BY <1>1 DEF OrphanRevoke, OrphanClaim, LeaseOK, Terminal
<1>4. WorkOK'
  BY Zenon, <1>1, <1>2, <1>3 DEF WorkOK, Working
<1>5. PipesOK' /\ WaitersOK' /\ MsgOK' /\ QueueOK'
  BY <1>2, WaitStays
<1>6. CASE OrphanRevoke
  <2> DEFINE o == [NoOrphan EXCEPT !.pc = "claim", !.old = owner]
  <2>1. /\ orphan' = o /\ lease' = NoLease /\ fence' = fence
        /\ owner \in Workers /\ status = "waiting"
    BY <1>6 DEF OrphanRevoke
  <2>2. o \in Orphan /\ o.pc = "claim"
    BY Zenon, <2>1 DEF Orphan, NoOrphan, MaybeEvent
  <2> HIDE DEF o
  <2>3. TypeOK'
    BY <1>1, <1>2, <2>1, <2>2 DEF TypeOK, Lease
  <2>4. LeaseOK'
    BY SMT, Z3, <1>1, <1>2, <1>3, <2>1, <2>2, Constants DEF LeaseOK, NoLease, Held, TypeOK
  <2> QED
    BY <1>4, <1>5, <2>3, <2>4 DEF IInv
<1>7. CASE OrphanClaim
  <2>1. orphan.pc = "claim" /\ lease = NoLease /\ owner \in Workers
        /\ status \in {"waiting"} \cup Terminal
    BY <1>1, <1>7 DEF OrphanClaim, LeaseOK
  <2>2. PICK w \in Live :
            /\ fence' = fence + 1
            /\ lease' = [worker |-> w, token |-> fence + 1]
            /\ orphan' = [orphan EXCEPT
                  !.pc = "transfer", !.worker = lease'.worker, !.token = lease'.token,
                  !.event = IF wait.sha = 0 THEN NoEvent ELSE cache[WaitKey]]
    BY <1>7, <2>1 DEF OrphanClaim
  <2>3. /\ w \in Workers /\ lease'.worker = w /\ lease'.token = fence + 1
        /\ lease' \in Lease /\ fence + 1 \in Nat
    BY SMT, Z3, <1>1, <2>2 DEF Live, Lease, TypeOK
  <2> DEFINE x == IF wait.sha = 0 THEN NoEvent ELSE cache[WaitKey]
             o == [orphan EXCEPT !.pc = "transfer", !.worker = w, !.token = fence + 1,
                                 !.event = x]
  <2>4. x \in MaybeEvent
    BY <1>1 DEF TypeOK, Wait, WaitKey, Keys, MaybeEvent
  <2>5. orphan' = o
    BY <2>2, <2>3
  <2> HIDE DEF x
  <2>6. o \in Orphan /\ o.pc = "transfer"
    BY Zenon, <1>1, <2>3, <2>4 DEF TypeOK, Orphan
  <2> HIDE DEF o
  <2>7. TypeOK'
    BY <1>1, <1>2, <2>2, <2>3, <2>5, <2>6 DEF TypeOK
  <2>8. LeaseOK'
    <3>1. token \in Nat /\ fence \in Nat /\ \A e \in execs : e.token \in Nat
      BY <1>1 DEF TypeOK, Exec
    <3> QED
      BY SMT, Z3, <1>1, <1>2, <1>3, <2>1, <2>2, <2>3, <2>5, <2>6, <3>1 DEF LeaseOK, Held
  <2> QED
    BY <1>4, <1>5, <2>7, <2>8 DEF IInv
<1> QED
  BY <1>6, <1>7

LEMMA TransferKeeps == ASSUME IInv, Transfer PROVE IInv'
<1>1. TypeOK /\ LeaseOK /\ WorkOK
  BY DEF IInv
<1> DEFINE ok == /\ owner = orphan.old /\ status = "waiting"
                 /\ Held(orphan.worker, orphan.token)
           m == [event |-> orphan.event, token |-> orphan.token, via |-> "transfer"]
<1>2. /\ orphan.pc = "transfer" /\ orphan' = NoOrphan
      /\ owner' = IF ok THEN orphan.worker ELSE owner
      /\ token' = IF ok THEN orphan.token ELSE token
      /\ inbox' = IF ok /\ orphan.event # NoEvent
                  THEN [inbox EXCEPT ![orphan.worker] = @ \cup {m}] ELSE inbox
      /\ UNCHANGED <<status, tries, wait, waiters, listed, cache, lease, fence, proc, sess,
                     crashes, execs, pushes, pipes>>
  BY DEF Transfer, waitVars, leaseVars, workerVars, gitlabVars
<1>3. m \in Msg /\ m.via = "transfer"
  BY <1>1 DEF TypeOK, Orphan, Msg
<1>4. /\ orphan.worker \in Workers \cup {NoWorker} /\ orphan.token \in Nat
      /\ Held(orphan.worker, orphan.token) => orphan.token <= fence
  BY SMT, Z3, <1>1 DEF TypeOK, Orphan, LeaseOK, Held
<1>5. status \in {"waiting"} \cup Terminal
  BY Zenon, <1>1, <1>2 DEF LeaseOK
<1> HIDE DEF m, ok
<1>6. /\ inbox' \in [Workers -> SUBSET Msg]
      /\ \A v \in Workers : inbox[v] \subseteq inbox'[v]
      /\ \A v \in Workers : \A y \in inbox'[v] : y \in inbox[v] \/ y.via # "queue"
  BY Zenon, <1>1, <1>2, <1>3 DEF TypeOK
<1>7. TypeOK'
  BY <1>1, <1>2, <1>4, <1>6 DEF TypeOK, Orphan, NoOrphan, MaybeEvent
<1>8. LeaseOK'
  BY Zenon, <1>1, <1>2, <1>4, <1>5 DEF LeaseOK, NoOrphan, Terminal, TypeOK, ok
<1>9. WorkOK'
  BY Zenon, <1>1, <1>2 DEF WorkOK, Working, Fenced, Held
<1>10. PipesOK' /\ WaitersOK' /\ MsgOK' /\ QueueOK'
  BY <1>2, <1>6, WaitStays
<1> QED
  BY <1>7, <1>8, <1>9, <1>10 DEF IInv

LEMMA ReconcileKeeps == ASSUME IInv, Reconcile PROVE IInv'
<1>1. TypeOK /\ LeaseOK /\ WorkOK /\ PipesOK /\ WaitersOK /\ MsgOK
  BY DEF IInv
<1>2. UNCHANGED <<owner, token, tries, waiters, listed, cache, lease, fence, proc, sess,
                  crashes, execs, orphan, pushes, pipes>>
  BY DEF Reconcile, leaseVars, workerVars, gitlabVars
<1>3. CASE UNCHANGED <<inbox, wait>> /\ status' \in {status, "failed"}
  <2>1. TypeOK'
    BY Zenon, <1>1, <1>2, <1>3 DEF TypeOK, Statuses, Terminal
  <2>2. LeaseOK' /\ WorkOK'
    BY Zenon, <1>1, <1>2, <1>3 DEF LeaseOK, WorkOK, Held, Fenced, Working, Terminal
  <2>3. PipesOK' /\ WaitersOK' /\ MsgOK' /\ QueueOK'
    BY Zenon, <1>2, <1>3, WaitStays DEF Terminal
  <2> QED
    BY <2>1, <2>2, <2>3 DEF IInv
<1>4. CASE ResumeCached /\ UNCHANGED status
  <2>1. CASE UNCHANGED <<inbox, wait>>
    BY <1>3, <1>4, <2>1
  <2>2. CASE \E ev, m : /\ Queued(ev, m) /\ Ended(ev)
                        /\ ev.sha = wait.sha /\ wait.pid \in {0, ev.pid}
    <3>1. PICK ev, m : /\ Queued(ev, m) /\ Ended(ev)
                       /\ ev.sha = wait.sha /\ wait.pid \in {0, ev.pid}
      BY Zenon, <2>2
    <3>2. /\ wait' \in Wait
          /\ wait'.sha = wait.sha /\ wait'.pid = wait.pid /\ wait'.reg = wait.reg
          /\ inbox' \in [Workers -> SUBSET Msg]
          /\ \A w \in Workers : inbox[w] \subseteq inbox'[w]
      BY Zenon, <1>1, <3>1 DEF Queued, TypeOK
    <3>3. TypeOK'
      BY Zenon, <1>1, <1>2, <1>4, <3>2 DEF TypeOK
    <3>4. LeaseOK' /\ WorkOK'
      BY Zenon, <1>1, <1>2, <1>4 DEF LeaseOK, WorkOK, Held, Fenced
    <3>5. PipesOK' /\ WaitersOK'
      BY Zenon, <1>1, <1>2, <1>4, <3>2 DEF PipesOK, WaitersOK, Ended, WaitKey
    <3>6. MsgOK'
      BY Zenon, <1>1, <1>2, <3>2 DEF MsgOK, TypeOK, Exec
    <3>7. QueueOK'
      BY Zenon, <1>2, <1>4, <3>1, QueuedKeeps
    <3> QED
      BY Zenon, <3>3, <3>4, <3>5, <3>6, <3>7 DEF IInv
  <2> QED
    BY <1>4, <2>1, <2>2, Resumes
<1> QED
  BY <1>3, <1>4 DEF Reconcile

\* A lease only expires when the task is not in flight under it.
LEMMA ExpireKeeps == ASSUME IInv, LeaseExpire PROVE IInv'
<1>1. TypeOK /\ LeaseOK /\ WorkOK
  BY DEF IInv
<1>2. /\ lease' = NoLease /\ orphan.pc # "transfer"
      /\ ~(TaskIs(lease.worker, lease.token) /\ status \in {"assigned", "running"})
      /\ UNCHANGED <<status, tries, owner, token, wait, waiters, listed, cache, fence, inbox,
                     proc, sess, crashes, execs, orphan, pushes, pipes>>
  BY DEF LeaseExpire, taskVars, waitVars, workerVars, gitlabVars
<1>3. status \notin {"assigned", "running"}
  BY SMT, Z3, <1>1, <1>2 DEF LeaseOK, Held, TaskIs
<1>4. TypeOK'
  BY Zenon, <1>1, <1>2 DEF TypeOK, Lease
<1>5. LeaseOK'
  BY SMT, Z3, <1>1, <1>2, <1>3, Constants DEF LeaseOK, Held, NoLease, TypeOK
<1>6. WorkOK'
  BY Zenon, <1>1, <1>2, <1>3 DEF WorkOK, Working
<1>7. PipesOK' /\ WaitersOK' /\ MsgOK' /\ QueueOK'
  BY Zenon, <1>2, WaitStays
<1> QED
  BY <1>4, <1>5, <1>6, <1>7 DEF IInv

LEMMA CrashKeeps == ASSUME IInv, NEW w \in Workers, Crash(w) PROVE IInv'
<1>1. TypeOK /\ LeaseOK /\ WorkOK
  BY DEF IInv
<1>2. /\ crashes' = crashes + 1
      /\ proc' = [proc EXCEPT ![w] = "down"] /\ sess' = [sess EXCEPT ![w] = 0]
      /\ execs' = {e \in execs : e.worker # w}
      /\ orphan' \in {orphan, NoOrphan}
      /\ UNCHANGED <<status, tries, owner, token, wait, waiters, listed, cache, lease, fence,
                     inbox, pushes, pipes>>
  BY Zenon DEF Crash, taskVars, waitVars, leaseVars, gitlabVars
<1>3. TypeOK'
  BY SMT, Z3, <1>1, <1>2 DEF TypeOK, Orphan, NoOrphan, MaybeEvent
<1>4. LeaseOK'
  BY SMT, Z3, <1>1, <1>2 DEF LeaseOK, Held, NoOrphan
<1>5. WorkOK'
  BY Zenon, <1>1, <1>2 DEF WorkOK, Working, Fenced, Held, TypeOK, Exec
<1>6. PipesOK' /\ WaitersOK' /\ MsgOK' /\ QueueOK'
  BY Zenon, <1>2, WaitStays
<1> QED
  BY <1>3, <1>4, <1>5, <1>6 DEF IInv

LEMMA ProcessKeeps ==
  ASSUME IInv, NEW w \in Workers, RenewLeases(w) \/ NoticeDeath(w) \/ Restart(w) PROVE IInv'
<1>1. TypeOK /\ LeaseOK /\ WorkOK
  BY Zenon DEF IInv
<1>2. /\ UNCHANGED <<status, tries, owner, token, wait, waiters, listed, cache, lease, fence,
                     inbox, crashes, execs, orphan, pushes, pipes>>
      /\ proc' \in [Workers -> {"up", "down", "dead"}] /\ sess' \in [Workers -> Nat]
      /\ \A v \in Workers : proc[v] = "up" => proc'[v] = "up"
  BY SMT, Z3, <1>1
     DEF RenewLeases, NoticeDeath, Restart, TypeOK, taskVars, waitVars, leaseVars, gitlabVars
<1>3. TypeOK'
  BY Zenon, <1>1, <1>2 DEF TypeOK
<1>4. LeaseOK' /\ WorkOK'
  BY Zenon, <1>1, <1>2 DEF LeaseOK, WorkOK, Held, Fenced, TypeOK, Exec
<1>5. PipesOK' /\ WaitersOK' /\ MsgOK' /\ QueueOK'
  BY Zenon, <1>2, WaitStays
<1> QED
  BY <1>3, <1>4, <1>5 DEF IInv

LEMMA NextKeeps == IInv /\ [Next]_vars => IInv'
<1> SUFFICES ASSUME IInv, [Next]_vars PROVE IInv'
  OBVIOUS
<1>1. CASE UNCHANGED vars
  <2>1. UNCHANGED <<status, tries, owner, token, wait, waiters, listed, cache, lease, fence,
                    inbox, proc, sess, crashes, execs, orphan, pushes, pipes>>
    BY Zenon, <1>1 DEF vars, taskVars, waitVars, leaseVars, workerVars, gitlabVars
  <2>2. TypeOK' /\ LeaseOK' /\ WorkOK'
    BY Zenon, <2>1 DEF IInv, TypeOK, LeaseOK, WorkOK, Held, Fenced
  <2>3. PipesOK' /\ WaitersOK' /\ MsgOK' /\ QueueOK'
    BY Zenon, <2>1, WaitStays
  <2> QED
    BY Zenon, <2>2, <2>3 DEF IInv
<1>2. ASSUME NEW sha \in Shas, NEW pid \in Pids,
             \/ StartChild(sha, pid)
             \/ FinishPipeline(sha, pid)
             \/ \E done \in BOOLEAN : Webhook(sha, pid, done)
      PROVE  IInv'
  BY <1>2, PipelineKeeps, WebhookKeeps
<1>3. CASE FallbackScan
  BY Zenon, <1>3, ScanKeeps
<1>4. ASSUME NEW w \in Workers,
             \/ \E m \in inbox[w] : Deliver(w, m)
             \/ RenewLeases(w)
             \/ Crash(w)
             \/ NoticeDeath(w)
             \/ Restart(w)
      PROVE  IInv'
  BY Zenon, <1>4, DeliverKeeps, CrashKeeps, ProcessKeeps
<1>5. ASSUME NEW e \in execs, Progress(e) \/ WorkFails(e) PROVE IInv'
  BY <1>5, BeginKeeps, ClaimKeeps, InspectKeeps, PushKeeps, CompleteKeeps, RegisterKeeps,
     SuspendKeeps, RecheckKeeps, FailKeeps, FinishKeeps, WorkFailsKeeps DEF Progress
<1>6. CASE Scheduler
  BY <1>6, DispatchKeeps, RecoverKeeps, OrphanKeeps, TransferKeeps DEF Scheduler
<1>7. CASE Reconcile
  BY <1>7, ReconcileKeeps
<1>8. CASE LeaseExpire
  BY <1>8, ExpireKeeps
<1> QED
  BY Zenon, <1>1, <1>2, <1>3, <1>4, <1>5, <1>6, <1>7, <1>8 DEF Next

-----------------------------------------------------------------------------
(* Theorems *)

\* The invariant is one of the specification.
THEOREM InvariantTheorem == Spec => []IInv
  BY InitInv, NextKeeps, PTL DEF Spec

\* Every variable keeps its type, in particular every event that is published,
\* queued or inspected is one of a pipeline of a commit.
THEOREM TypeTheorem == Spec => []TypeOK
<1>1. IInv => TypeOK
  BY DEF IInv
<1> QED
  BY <1>1, InvariantTheorem, PTL

\* However many workers crash, restart and take over, and however often a resume
\* message is delivered, one execution at a time works on the repair.
THEOREM OneExecutionTheorem == Spec => []OneExecution
<1>1. IInv => OneExecution
  BY Zenon DEF IInv, WorkOK, OneExecution
<1> QED
  BY <1>1, InvariantTheorem, PTL

\* For any number of pipelines, pushes and crashes, an event that is marked as
\* queued for the commit waited for is still on its way to the task.
THEOREM PendingTheorem == Spec => []ResumeIsPending
<1>1. IInv => ResumeIsPending
  BY SMT, Z3 DEF IInv, QueueOK, Unclaimed, ResumeIsPending
<1> QED
  BY <1>1, InvariantTheorem, PTL

\* A task is resumed only by a pipeline of its wait that has ended.
THEOREM ResumeTheorem == Spec => ResumedByItsPipeline
<1>1. ASSUME IInv, [Next]_vars, status = "waiting", status' = "running"
      PROVE  \E e \in execs \ execs' :
                /\ e.event.sha = wait.sha
                /\ wait.pid \in {0, e.event.pid}
                /\ pipes[wait.sha][e.event.pid] = "done"
  <2>1. PICK e \in execs : Claim(e)
    BY SMT, Z3, <1>1
       DEF Next, vars, taskVars, Progress, Scheduler, StartChild, FinishPipeline, Webhook,
       FallbackScan, Deliver, RenewLeases, Crash, NoticeDeath, Restart, Begin, Inspect, Push,
       Complete, Register, Suspend, Recheck, Fail, FinishDelivery, WorkFails, Dispatch, Recover,
       OrphanRevoke, OrphanClaim, Transfer, Reconcile, LeaseExpire
  <2>2. CanClaim(e) /\ Goto(e, "inspect") /\ e.pc = "claim"
    BY Zenon, <1>1, <2>1 DEF Claim
  <2>3. e.event = wait.queued /\ e.event.sha = wait.sha /\ e.event # NoEvent
    BY Zenon, <1>1, <2>2 DEF CanClaim, IInv, MsgOK
  <2>4. Ended(wait.queued) /\ wait.pid \in {0, wait.queued.pid}
    BY <1>1, <2>3 DEF IInv, QueueOK
  <2>5. e \notin execs'
    <3>1. e \in Exec
      BY <1>1 DEF IInv, TypeOK
    <3>2. [e EXCEPT !.pc = "inspect"].pc = "inspect"
      BY <3>1 DEF Exec
    <3> QED
      BY Zenon, <2>2, <3>2 DEF Goto, Set
  <2> QED
    BY Zenon, <2>3, <2>4, <2>5 DEF Ended
<1>2. IInv /\ [Next]_vars =>
          [status = "waiting" /\ status' = "running" =>
              \E e \in execs \ execs' :
                 /\ e.event.sha = wait.sha
                 /\ wait.pid \in {0, e.event.pid}
                 /\ pipes[wait.sha][e.event.pid] = "done"]_vars
  BY <1>1
<1> QED
  BY <1>2, InvariantTheorem, PTL DEF Spec, ResumedByItsPipeline

=============================================================================
