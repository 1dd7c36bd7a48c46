----------------------- MODULE TaskRuntime_delivery ------------------------
(***************************************************************************)
(* No admitted task is forgotten: the ingress entry of a queued task and   *)
(* the inbox entry of an assigned one stay pending, and the recovery pass  *)
(* finds a task in flight.                                                 *)
(***************************************************************************)
EXTENDS TaskRuntime_proofs

-----------------------------------------------------------------------------
(* Queued tasks *)

\* Entries are numbered by `sent`; the last one of a queued task is pending,
\* and whoever is about to ack an entry of a queued task acks an older one.
EntriesNumbered == \A m \in ingress : m[2] <= sent[m[1]]
LastPending == \A t \in Tasks : status[t] = "queued" => <<t, sent[t]>> \in ingress
PassNumbered ==
    \A s \in Workers :
        sched[s].pc \in {"select", "claim", "assign", "ack"} => sched[s].id <= sent[sched[s].task]
AckBehind ==
    \A s \in Workers :
        sched[s].pc = "ack" /\ status[sched[s].task] = "queued"
            => sched[s].id < sent[sched[s].task]
QueueInv == EntriesNumbered /\ LastPending /\ PassNumbered /\ AckBehind


NoneQueued == \A t \in Tasks : status'[t] = "queued" => status[t] = "queued"

\* Steps that touch neither the stream nor a pass, and queue no task.
LEMMA QueueKept ==
    ASSUME TypeOK, TypeOK', QueueInv, NoneQueued, UNCHANGED <<sent, ingress, sched>>
    PROVE  QueueInv'
<1>1. EntriesNumbered' /\ LastPending' /\ PassNumbered'
  BY DEF QueueInv, NoneQueued, EntriesNumbered, LastPending, PassNumbered
<1>2. AckBehind'
  <2> SUFFICES ASSUME NEW s \in Workers, sched[s].pc = "ack", status'[sched[s].task] = "queued"
               PROVE  sched[s].id < sent[sched[s].task]
    BY DEF AckBehind
  <2>1. sched[s].task \in Tasks
    BY DEF TypeOK, Pass, PassOK
  <2> QED BY <2>1 DEF QueueInv, AckBehind, NoneQueued
<1> QED BY <1>1, <1>2 DEF QueueInv

\* Steps that move one pass on, and queue no task.
LEMMA QueuePassMoves ==
    ASSUME TypeOK, TypeOK', QueueInv, NoneQueued, UNCHANGED <<sent, ingress>>,
           NEW s \in Workers, NEW n, Step(s, n),
           n.pc \in {"select", "claim", "assign", "ack"} => n.id <= sent[n.task],
           n.pc = "ack" => status'[n.task] # "queued"
    PROVE  QueueInv'
<1>1. sched'[s] = n /\ \A r \in Workers : r # s => sched'[r] = sched[r]
  BY DEF TypeOK, Step
<1>2. EntriesNumbered' /\ LastPending'
  BY DEF QueueInv, NoneQueued, EntriesNumbered, LastPending
<1>3. PassNumbered'
  BY <1>1 DEF QueueInv, PassNumbered
<1>4. AckBehind'
  <2> SUFFICES ASSUME NEW r \in Workers, sched'[r].pc = "ack", status'[sched'[r].task] = "queued"
               PROVE  sched'[r].id < sent[sched'[r].task]
    BY DEF AckBehind
  <2>1. r # s /\ sched'[r] = sched[r]
    BY <1>1
  <2>2. sched[r].task \in Tasks
    BY <2>1 DEF TypeOK, Pass, PassOK
  <2> QED BY <2>1, <2>2 DEF QueueInv, AckBehind, NoneQueued
<1> QED BY <1>2, <1>3, <1>4 DEF QueueInv

\* A new entry is appended for t, which becomes queued.
LEMMA QueueAppend ==
    ASSUME TypeOK, TypeOK', QueueInv, NEW t \in Tasks,
           \A u \in Tasks : u # t /\ status'[u] = "queued" => status[u] = "queued",
           sent' = [sent EXCEPT ![t] = @ + 1],
           ingress' = ingress \cup {<<t, sent[t] + 1>>},
           \A s \in Workers : sched'[s].pc \in {"select", "claim", "assign", "ack"} =>
               sched'[s] = sched[s]
    PROVE  QueueInv'
<1>1. sent \in [Tasks -> Nat] /\ ingress \subseteq Tasks \X Nat
  BY DEF TypeOK
<1>2. EntriesNumbered'
  BY SMT, Z3, <1>1 DEF QueueInv, EntriesNumbered
<1>3. LastPending'
  BY <1>1 DEF QueueInv, LastPending
<1>4. \A s \in Workers : sched[s].pc \in {"select", "claim", "assign", "ack"} =>
          sched[s].task \in Tasks /\ sched[s].id \in Nat
  BY DEF TypeOK, Pass, PassOK, Sched
<1>5. PassNumbered'
  BY SMT, Z3, <1>1, <1>4 DEF QueueInv, PassNumbered
<1>6. AckBehind'
  BY SMT, Z3, <1>1, <1>4 DEF QueueInv, PassNumbered, AckBehind
<1> QED BY <1>2, <1>3, <1>5, <1>6 DEF QueueInv

LEMMA AckQueue ==
    ASSUME TypeOK, TypeOK', QueueInv, NEW s \in Workers, Ack(s) PROVE QueueInv'
<1>1. /\ sched'[s] = Idle /\ \A r \in Workers : r # s => sched'[r] = sched[r]
      /\ sched[s].task \in Tasks /\ sched[s].id \in Nat
  BY DEF TypeOK, Step, Ack, Pass, PassOK, Sched
<1>2. EntriesNumbered'
  BY DEF QueueInv, EntriesNumbered, Ack
<1>3. LastPending'
  <2> SUFFICES ASSUME NEW t \in Tasks, status[t] = "queued" PROVE <<t, sent[t]>> \in ingress'
    BY DEF LastPending, Ack
  <2>1. <<t, sent[t]>> # <<sched[s].task, sched[s].id>>
    BY SMT, Z3, <1>1 DEF QueueInv, AckBehind, Ack, TypeOK
  <2> QED BY <2>1 DEF QueueInv, LastPending, Ack
<1>4. PassNumbered' /\ AckBehind'
  BY SMT, Z3, <1>1 DEF QueueInv, PassNumbered, AckBehind, Ack, Idle
<1> QED BY <1>2, <1>3, <1>4 DEF QueueInv

LEMMA RecoverQueue ==
    ASSUME TypeOK, TypeOK', QueueInv, NEW s \in Workers, Recover(s) PROVE QueueInv'
<1> DEFINE t == sched[s].task
           lost == owner[t] = sched[s].dead /\ status[t] \in {"assigned", "running"}
           retry == lost /\ attempt[t] + 1 <= RetryLimit
<1>1. t \in Tasks /\ sched[s] \in Sched
  BY DEF TypeOK, Pass, PassOK, Recover, CanRetry, Recoverable, XAdd
<1>2. /\ [sched[s] EXCEPT !.pc = "revoke"].pc = "revoke"
      /\ [sched[s] EXCEPT !.pc = "orphan"].pc = "orphan"
      /\ Idle.pc = "idle"
  BY <1>1 DEF Sched, Idle
<1>3. PICK n : Step(s, n) /\ n.pc \in {"revoke", "orphan", "idle"}
  BY Zenon, <1>2 DEF Recover, CanRetry, Recoverable, XAdd
<1>4. CASE retry
  <2>1. /\ sent' = [sent EXCEPT ![t] = @ + 1]
        /\ ingress' = ingress \cup {<<t, sent[t] + 1>>}
        /\ \A u \in Tasks : u # t => status'[u] = status[u]
    BY <1>1, <1>4 DEF Recover, TypeOK, CanRetry, Recoverable, XAdd
  <2>2. \A r \in Workers : sched'[r].pc \in {"select", "claim", "assign", "ack"} =>
            sched'[r] = sched[r]
    BY <1>3 DEF Step, TypeOK
  <2> QED BY Zenon, <1>1, <2>1, <2>2, QueueAppend
<1>5. CASE ~retry
  <2>1. NoneQueued /\ UNCHANGED <<sent, ingress>>
    BY <1>1, <1>5 DEF Recover, NoneQueued, TypeOK, CanRetry, Recoverable, XAdd
  <2> QED BY <1>3, <2>1, QueuePassMoves
<1> QED BY <1>4, <1>5

LEMMA DispatchQueue ==
    ASSUME TypeOK, TypeOK', QueueInv, NEW s \in Workers,
           Select(s) \/ Claim(s) \/ Assign(s) \/ \E m \in ingress : ReadIngress(s, m)
    PROVE  QueueInv'
<1>1. /\ sched[s] \in Sched
      /\ sched[s].pc \in {"select", "claim", "assign"} => sched[s].id <= sent[sched[s].task]
  BY DEF TypeOK, Pass, QueueInv, PassNumbered
<1>2. CASE \E m \in ingress : ReadIngress(s, m)
  <2>1. PICK m \in ingress : ReadIngress(s, m)
    BY <1>2
  <2> DEFINE n == [Idle EXCEPT !.pc = IF status[m[1]] = "queued" THEN "select" ELSE "ack",
                               !.task = m[1], !.id = m[2]]
  <2>2. /\ n.task = m[1] /\ n.id = m[2]
        /\ n.pc = "ack" => status[m[1]] # "queued"
    BY DEF Idle
  <2>3. n.id <= sent[n.task]
    BY <2>2 DEF QueueInv, EntriesNumbered
  <2>4. Step(s, n) /\ NoneQueued /\ UNCHANGED <<sent, ingress, status>>
    BY Zenon, <2>1 DEF ReadIngress, taskVars, NoneQueued
  <2> HIDE DEF n
  <2> QED BY <2>2, <2>3, <2>4, QueuePassMoves
<1>3. CASE Select(s)
  <2>1. NoneQueued /\ UNCHANGED <<sent, ingress>> /\ sched[s].pc = "select"
    BY Zenon, <1>3 DEF Select, taskVars, NoneQueued
  <2>2. CASE Step(s, Idle)
    BY <2>1, <2>2, QueuePassMoves DEF Idle
  <2>3. CASE Step(s, [sched[s] EXCEPT !.pc = "assign", !.worker = lease.worker,
                                      !.token = lease.token])
    <3> DEFINE n == [sched[s] EXCEPT !.pc = "assign", !.worker = lease.worker,
                                     !.token = lease.token]
    <3>1. n.pc = "assign" /\ n.id = sched[s].id /\ n.task = sched[s].task /\ Step(s, n)
      BY <1>1, <2>3 DEF Sched
    <3> HIDE DEF n
    <3> QED BY <1>1, <2>1, <3>1, QueuePassMoves
  <2>4. ASSUME NEW w \in Live,
               Step(s, [sched[s] EXCEPT !.pc = "claim", !.worker = w, !.seen = Live])
        PROVE  QueueInv'
    <3> DEFINE n == [sched[s] EXCEPT !.pc = "claim", !.worker = w, !.seen = Live]
    <3>1. n.pc = "claim" /\ n.id = sched[s].id /\ n.task = sched[s].task /\ Step(s, n)
      BY <1>1, <2>4 DEF Sched
    <3> HIDE DEF n
    <3> QED BY <1>1, <2>1, <3>1, QueuePassMoves
  <2> QED BY Zenon, <1>3, <2>2, <2>3, <2>4 DEF Select
<1>4. CASE Claim(s)
  <2> DEFINE n == [sched[s] EXCEPT !.pc = "assign", !.worker = lease'.worker,
                                   !.token = lease'.token, !.seen = {}]
  <2>1. n.pc = "assign" /\ n.id = sched[s].id /\ n.task = sched[s].task
    BY <1>1 DEF Sched
  <2>2. Step(s, n) \/ Step(s, Idle)
    BY <1>4 DEF Claim
  <2>3. NoneQueued /\ UNCHANGED <<sent, ingress>> /\ sched[s].pc = "claim"
    BY <1>4 DEF Claim, taskVars, NoneQueued
  <2> HIDE DEF n
  <2> QED BY <1>1, <2>1, <2>2, <2>3, QueuePassMoves DEF Idle
<1>5. CASE Assign(s)
  <2> DEFINE t == sched[s].task
             n == [Idle EXCEPT !.pc = "ack", !.task = t, !.id = sched[s].id]
  <2>1. n.pc = "ack" /\ n.id = sched[s].id /\ n.task = t
    BY DEF Idle
  <2>2. t \in Tasks
    BY <1>5 DEF Assign, TypeOK, Pass, PassOK, AcksIngress
  <2>3. NoneQueued /\ UNCHANGED <<sent, ingress>> /\ sched[s].pc = "assign"
    BY <1>5, <2>2 DEF Assign, NoneQueued, TypeOK, AcksIngress
  <2>4. Step(s, Idle) \/ (Step(s, n) /\ status'[t] # "queued")
    BY <1>5, <2>2 DEF Assign, TypeOK, AcksIngress
  <2> HIDE DEF n
  <2> QED BY <1>1, <2>1, <2>3, <2>4, QueuePassMoves DEF Idle
<1> QED BY <1>2, <1>3, <1>4, <1>5

LEMMA RecoveryQueue ==
    ASSUME TypeOK, TypeOK', QueueInv, NEW s \in Workers,
           \/ Revoke(s) \/ OrphanRevoke(s) \/ OrphanClaim(s) \/ Transfer(s)
           \/ \E w \in registry : \E t \in workerTasks[w] : RecoverRead(s, w, t)
    PROVE  QueueInv'
<1>1. sched[s] \in Sched
  BY DEF TypeOK, Pass
<1>2. [sched[s] EXCEPT !.pc = "orphan_claim"].pc = "orphan_claim" /\ Idle.pc = "idle"
  BY <1>1 DEF Sched, Idle
<1>3. NoneQueued /\ UNCHANGED <<sent, ingress>>
  BY Zenon DEF Revoke, OrphanRevoke, OrphanClaim, Transfer, RecoverRead, taskVars, NoneQueued
<1>4. ASSUME NEW n, Step(s, n), n.pc \in {"idle", "recover", "orphan_claim", "transfer"}
      PROVE  QueueInv'
  BY <1>3, <1>4, QueuePassMoves
<1>5. CASE Revoke(s) \/ Transfer(s)
  BY <1>2, <1>4, <1>5 DEF Revoke, Transfer
<1>6. CASE OrphanRevoke(s)
  BY Zenon, <1>2, <1>4, <1>6 DEF OrphanRevoke
<1>7. CASE OrphanClaim(s)
  <2> DEFINE n == [sched[s] EXCEPT !.pc = "transfer", !.worker = lease'.worker,
                                   !.token = lease'.token]
  <2>1. Step(s, Idle) \/ Step(s, n)
    BY <1>7 DEF OrphanClaim
  <2>2. n.pc = "transfer"
    BY <1>1 DEF Sched
  <2> HIDE DEF n
  <2> QED BY <1>2, <1>4, <2>1, <2>2
<1>8. ASSUME NEW w \in registry, NEW t \in workerTasks[w], RecoverRead(s, w, t)
      PROVE  QueueInv'
  <2> DEFINE n == [Idle EXCEPT !.pc = "recover", !.task = t, !.dead = w, !.token = token[t]]
  <2>1. Step(s, n)
    BY Zenon, <1>8 DEF RecoverRead
  <2>2. n.pc = "recover"
    BY DEF Idle
  <2> HIDE DEF n
  <2> QED BY <1>4, <2>1, <2>2
<1> QED BY <1>5, <1>6, <1>7, <1>8

LEMMA DeliveryQueue ==
    ASSUME TypeOK, TypeOK', QueueInv, NEW e \in execs, DeliveryNext(e) PROVE QueueInv'
<1>1. UNCHANGED <<sent, ingress, sched>>
  BY DEF DeliveryNext, Run, Begin, Publish, Complete, ExceptFail, MarkFailed, FinishDelivery,
         WorkFails, taskVars, AcksDelivery
<1>2. ASSUME NEW expected, NEW target, target # "queued", Transition(e, expected, target)
      PROVE  NoneQueued
  BY <1>2 DEF Transition, NoneQueued, TypeOK
<1>3. NoneQueued
  <2>1. CASE UNCHANGED status
    BY <2>1 DEF NoneQueued
  <2> QED
    BY <1>2, <2>1
    DEF DeliveryNext, Run, Begin, Publish, Complete, ExceptFail, MarkFailed, FinishDelivery,
        WorkFails, taskVars, AcksDelivery
<1> QED BY <1>1, <1>3, QueueKept

LEMMA NextQueue == ASSUME TypeOK, TypeOK', QueueInv, [Next]_vars PROVE QueueInv'
<1>1. ASSUME NEW t \in Tasks, Enqueue(t) PROVE QueueInv'
  BY Zenon, <1>1, QueueAppend DEF Enqueue, TypeOK, XAdd
<1>2. ASSUME NEW s \in Workers, SchedulerNext(s) PROVE QueueInv'
  <2>1. CASE ReconcileRepairs(s)
    BY <2>1, QueueKept DEF ReconcileRepairs, taskVars, NoneQueued
  <2> QED
    BY <1>2, <2>1, DispatchQueue, RecoveryQueue, AckQueue, RecoverQueue DEF SchedulerNext
<1>3. ASSUME NEW w \in Workers, Crash(w) PROVE QueueInv'
  BY Zenon, <1>3, QueuePassMoves DEF Crash, taskVars, NoneQueued, Idle
<1>4. CASE \/ UNCHANGED vars \/ LeaseExpire
           \/ \E w \in Workers : \/ Heartbeat(w) \/ Restart(w) \/ HeartbeatLapse(w)
                                 \/ \E m \in inbox[w] : Deliver(w, m)
  <2>1. UNCHANGED <<status, sent, ingress, sched>>
    BY <1>4 DEF vars, LeaseExpire, Heartbeat, Restart, HeartbeatLapse, Deliver, taskVars
  <2> QED BY <2>1, QueueKept DEF NoneQueued
<1> QED
  BY <1>1, <1>2, <1>3, <1>4, DeliveryQueue, RuntimeConstants DEF Next

\* A queued task always has a pending ingress entry no scheduler is about to
\* ack, however many schedulers read, reclaim and ack entries at once.
THEOREM QueuedNotForgotten == Spec => []QueuedIsPending
<1>1. Init => QueueInv
  BY SMT, Z3 DEF Init, QueueInv, EntriesNumbered, LastPending, PassNumbered, AckBehind, Idle
<1>2. TypeOK /\ TypeOK' /\ QueueInv /\ [Next]_vars => QueueInv'
  BY NextQueue
<1>3. TypeOK /\ QueueInv => QueuedIsPending
  <2> SUFFICES ASSUME TypeOK, QueueInv, NEW t \in Tasks, status[t] = "queued"
               PROVE  \E m \in ingress :
                         /\ m[1] = t
                         /\ \A s \in Workers :
                               sched[s].pc = "ack" => <<sched[s].task, sched[s].id>> # m
    BY DEF QueuedIsPending
  <2>1. <<t, sent[t]>> \in ingress
    BY DEF QueueInv, LastPending
  <2>2. \A s \in Workers : sched[s].pc = "ack" => <<sched[s].task, sched[s].id>> # <<t, sent[t]>>
    BY SMT, Z3 DEF QueueInv, AckBehind, TypeOK, Pass, Sched
  <2> QED BY <2>1, <2>2
<1> QED
  BY <1>1, <1>2, <1>3, TypeCorrect, PTL DEF Spec

-----------------------------------------------------------------------------
(* Assigned tasks *)

\* A delivery n of task t belongs to the current attempt or an earlier one, and
\* to an earlier one while the task waits to be assigned.
Delivered(t, n) ==
    /\ n <= attempt[t]
    /\ status[t] \in {"none", "queued"} => n < attempt[t]
InboxNumbered == \A w \in Workers : \A m \in inbox[w] : Delivered(m[1], m[2])
ExecsNumbered == \A e \in execs : Delivered(e.task, e.id)
CurrentPending ==
    \A t \in Tasks : status[t] = "assigned" =>
        owner[t] \in Workers /\ <<t, attempt[t]>> \in inbox[owner[t]]
StartedIsNotAssigned ==
    \A e \in execs :
        e.id = attempt[e.task] /\ e.pc \in {"running", "publishing", "handled"}
            => status[e.task] # "assigned"
DeliveryInv == InboxNumbered /\ ExecsNumbered /\ CurrentPending /\ StartedIsNotAssigned

Unassigned == {"none", "queued"}
Started == {"running", "publishing", "handled"}

\* A step that neither reopens nor assigns a task, acks no current delivery of
\* an assigned task, and lets an execution get started only with its task.
InboxShrinks ==
    \A w \in Workers :
        /\ inbox'[w] \subseteq inbox[w]
        /\ \A m \in inbox[w] \ inbox'[w] :
              status'[m[1]] = "assigned" /\ owner[m[1]] = w => m[2] # attempt[m[1]]
TasksMoveOn ==
    /\ UNCHANGED attempt
    /\ \A t \in Tasks :
          /\ status'[t] \in Unassigned => status[t] \in Unassigned
          /\ status'[t] = "assigned" => status[t] = "assigned" /\ owner'[t] = owner[t]
ExecsMoveOn ==
    \A e \in execs' : \E f \in execs :
        /\ e.task = f.task
        /\ e.id = f.id
        /\ e.pc \in Started => f.pc \in Started \/ status'[e.task] # "assigned"

LEMMA DeliveryKept ==
    ASSUME TypeOK, TypeOK', DeliveryInv, InboxShrinks, TasksMoveOn, ExecsMoveOn
    PROVE  DeliveryInv'
<1>1. \A t \in Tasks, n \in Nat : Delivered(t, n) => Delivered(t, n)'
  BY DEF TasksMoveOn, Delivered, Unassigned
<1>2. InboxNumbered'
  <2> SUFFICES ASSUME NEW w \in Workers, NEW m \in inbox'[w] PROVE Delivered(m[1], m[2])'
    BY DEF InboxNumbered
  <2>1. m \in inbox[w] /\ m[1] \in Tasks /\ m[2] \in Nat
    BY SMT, Z3 DEF InboxShrinks, TypeOK
  <2> QED BY <1>1, <2>1 DEF DeliveryInv, InboxNumbered
<1>3. ExecsNumbered'
  <2> SUFFICES ASSUME NEW e \in execs' PROVE Delivered(e.task, e.id)'
    BY DEF ExecsNumbered
  <2>1. PICK f \in execs : e.task = f.task /\ e.id = f.id
    BY DEF ExecsMoveOn
  <2>2. f.task \in Tasks /\ f.id \in Nat /\ Delivered(f.task, f.id)
    BY DEF TypeOK, Exec, DeliveryInv, ExecsNumbered
  <2>3. Delivered(f.task, f.id)'
    BY <1>1, <2>2
  <2> QED BY <2>1, <2>3
<1>4. CurrentPending'
  <2> SUFFICES ASSUME NEW t \in Tasks, status'[t] = "assigned"
               PROVE  owner'[t] \in Workers /\ <<t, attempt'[t]>> \in inbox'[owner'[t]]
    BY DEF CurrentPending
  <2>1. status[t] = "assigned" /\ owner'[t] = owner[t] /\ attempt'[t] = attempt[t]
    BY DEF TasksMoveOn
  <2>2. owner[t] \in Workers /\ <<t, attempt[t]>> \in inbox[owner[t]]
    BY <2>1 DEF DeliveryInv, CurrentPending
  <2> QED BY SMT, Z3, <2>1, <2>2 DEF InboxShrinks
<1>5. StartedIsNotAssigned'
  <2> SUFFICES ASSUME NEW e \in execs', e.id = attempt'[e.task], e.pc \in Started,
                      status'[e.task] = "assigned"
               PROVE  FALSE
    BY DEF StartedIsNotAssigned, Started
  <2>1. PICK f \in execs : e.task = f.task /\ e.id = f.id /\ f.pc \in Started
    BY DEF ExecsMoveOn
  <2>2. f.task \in Tasks
    BY DEF TypeOK, Exec
  <2>3. status[f.task] = "assigned" /\ attempt' = attempt
    BY <2>1, <2>2 DEF TasksMoveOn
  <2> QED BY <2>1, <2>3 DEF DeliveryInv, StartedIsNotAssigned, Started
<1> QED BY <1>2, <1>3, <1>4, <1>5 DEF DeliveryInv

LEMMA AssignDelivery ==
    ASSUME TypeOK, TypeOK', DeliveryInv, NEW s \in Workers, Assign(s) PROVE DeliveryInv'
<1> DEFINE t == sched[s].task
           w == sched[s].worker
<1>1. t \in Tasks /\ w \in Workers
  BY DEF TypeOK, Pass, PassOK, Assign, AcksIngress
<1>2. CASE UNCHANGED <<status, owner, token, workerTasks, inbox>>
  BY <1>2, DeliveryKept DEF Assign, InboxShrinks, TasksMoveOn, ExecsMoveOn, AcksIngress
<1>3. CASE /\ status[t] = "queued"
           /\ status' = [status EXCEPT ![t] = "assigned"]
           /\ owner' = [owner EXCEPT ![t] = w]
           /\ inbox' = [inbox EXCEPT ![w] = @ \cup {<<t, attempt[t]>>}]
  <2>1. UNCHANGED <<attempt, execs>>
    BY DEF Assign, AcksIngress
  <2>2. attempt \in [Tasks -> Nat]
    BY DEF TypeOK
  <2>3. \A u \in Tasks, n \in Nat : Delivered(u, n) => Delivered(u, n)'
    BY <1>1, <1>3, <2>1, <2>2 DEF Delivered, TypeOK
  <2>4. status'[t] = "assigned" /\ attempt[t] <= attempt'[t]
    BY SMT, Z3, <1>1, <1>3, <2>1, <2>2 DEF TypeOK
  <2>5. InboxNumbered'
    <3> SUFFICES ASSUME NEW v \in Workers, NEW m \in inbox'[v] PROVE Delivered(m[1], m[2])'
      BY DEF InboxNumbered
    <3>1. m \in inbox[v] \/ m = <<t, attempt[t]>>
      BY <1>3 DEF TypeOK
    <3>2. CASE m \in inbox[v]
      BY SMT, Z3, <2>3, <3>2 DEF DeliveryInv, InboxNumbered, TypeOK
    <3>3. CASE m = <<t, attempt[t]>>
      <4>1. m[1] = t /\ m[2] = attempt[t]
        BY <3>3
      <4> QED BY <2>4, <4>1 DEF Delivered
    <3> QED BY <3>1, <3>2, <3>3
  <2>6. ExecsNumbered'
    BY <2>1, <2>3 DEF DeliveryInv, ExecsNumbered, TypeOK, Exec
  <2>7. CurrentPending'
    BY <1>1, <1>3, <2>1 DEF DeliveryInv, CurrentPending, TypeOK
  <2>8. StartedIsNotAssigned'
    <3> SUFFICES ASSUME NEW e \in execs, e.id = attempt[e.task], e.pc \in Started
                 PROVE  status'[e.task] # "assigned"
      BY <2>1 DEF StartedIsNotAssigned, Started
    <3>1. e.task \in Tasks /\ e.id \in Nat
      BY DEF TypeOK, Exec
    <3>2. e.task # t
      BY SMT, Z3, <1>3, <2>2, <3>1 DEF DeliveryInv, ExecsNumbered, Delivered
    <3> QED BY <1>3, <3>1, <3>2 DEF DeliveryInv, StartedIsNotAssigned, Started, TypeOK
  <2> QED BY <2>5, <2>6, <2>7, <2>8 DEF DeliveryInv
<1> QED BY <1>2, <1>3 DEF Assign, AcksIngress

LEMMA RecoverDelivery ==
    ASSUME TypeOK, TypeOK', DeliveryInv, NEW s \in Workers, Recover(s) PROVE DeliveryInv'
<1> DEFINE t == sched[s].task
           lost == owner[t] = sched[s].dead /\ status[t] \in {"assigned", "running"}
<1>1. t \in Tasks /\ attempt \in [Tasks -> Nat] /\ status \in [Tasks -> Statuses]
  BY DEF TypeOK, Pass, PassOK, Recover, CanRetry, Recoverable, XAdd
<1>2. UNCHANGED <<inbox, execs>>
  BY DEF Recover, CanRetry, Recoverable, XAdd
<1>3. CASE ~lost
  BY <1>2, <1>3, DeliveryKept
  DEF Recover, Recoverable, InboxShrinks, TasksMoveOn, ExecsMoveOn
<1>4. CASE lost
  <2>1. /\ attempt' = [attempt EXCEPT ![t] = @ + 1]
        /\ status'[t] \in {"queued", "failed"}
        /\ \A u \in Tasks : u # t => status'[u] = status[u] /\ owner'[u] = owner[u]
    BY <1>1, <1>4 DEF Recover, TypeOK, CanRetry, Recoverable, XAdd
  <2>2. \A u \in Tasks, n \in Nat : Delivered(u, n) => Delivered(u, n)'
    BY SMT, Z3, <1>1, <2>1 DEF Delivered
  <2>3. InboxNumbered'
    BY SMT, Z3, <1>2, <2>2 DEF DeliveryInv, InboxNumbered, TypeOK
  <2>4. ExecsNumbered'
    BY <1>2, <2>2 DEF DeliveryInv, ExecsNumbered, TypeOK, Exec
  <2>5. CurrentPending'
    BY <1>1, <1>2, <2>1 DEF DeliveryInv, CurrentPending
  <2>6. StartedIsNotAssigned'
    <3> SUFFICES ASSUME NEW e \in execs, e.id = attempt'[e.task], e.pc \in Started
                 PROVE  status'[e.task] # "assigned"
      BY <1>2 DEF StartedIsNotAssigned, Started
    <3>1. e.task \in Tasks
      BY DEF TypeOK, Exec
    <3> QED BY <1>1, <2>1, <3>1 DEF DeliveryInv, StartedIsNotAssigned, Started
  <2> QED BY <2>3, <2>4, <2>5, <2>6 DEF DeliveryInv
<1> QED BY <1>3, <1>4

LEMMA DeliverDelivery ==
    ASSUME TypeOK, TypeOK', DeliveryInv, NEW w \in Workers, NEW m \in inbox[w], Deliver(w, m)
    PROVE  DeliveryInv'
<1>1. UNCHANGED <<status, owner, attempt>>
  BY DEF Deliver, taskVars
<1>2. TasksMoveOn
  BY <1>1 DEF TasksMoveOn
<1>3. m[1] \in Tasks /\ m[2] \in Nat /\ Delivered(m[1], m[2])
  BY SMT, Z3 DEF TypeOK, DeliveryInv, InboxNumbered
<1>4. CASE /\ status[m[1]] \in Terminal
           /\ inbox' = [inbox EXCEPT ![w] = @ \ {m}]
           /\ UNCHANGED <<execs, sess>>
  BY <1>1, <1>2, <1>4, DeliveryKept DEF InboxShrinks, ExecsMoveOn, TypeOK, Terminal
<1>5. CASE /\ UNCHANGED inbox
           /\ execs' = {IF Waiting(e, w) THEN [e EXCEPT !.token = token[m[1]]] ELSE e :
                            e \in execs} \cup
                {[worker |-> w, task |-> m[1], id |-> m[2], token |-> token[m[1]],
                  run |-> 0, began |-> FALSE, pc |-> "submit"]}
  <2>1. \A e \in execs' :
            \/ e.task = m[1] /\ e.id = m[2] /\ e.pc = "submit"
            \/ \E f \in execs : e.task = f.task /\ e.id = f.id /\ e.pc = f.pc
    <3> TAKE e \in execs'
    <3>1. CASE e = [worker |-> w, task |-> m[1], id |-> m[2], token |-> token[m[1]],
                    run |-> 0, began |-> FALSE, pc |-> "submit"]
      BY <3>1
    <3>2. CASE e \in {IF Waiting(f, w) THEN [f EXCEPT !.token = token[m[1]]] ELSE f :
                         f \in execs}
      <4>1. PICK f \in execs :
                e = IF Waiting(f, w) THEN [f EXCEPT !.token = token[m[1]]] ELSE f
        BY <3>2
      <4>2. e.task = f.task /\ e.id = f.id /\ e.pc = f.pc
        BY <4>1 DEF TypeOK, Exec
      <4> QED BY <4>2
    <3> QED BY <1>5, <3>1, <3>2
  <2>2. InboxNumbered' /\ CurrentPending'
    BY <1>1, <1>5 DEF DeliveryInv, InboxNumbered, CurrentPending, Delivered
  <2>3. ExecsNumbered'
    BY <1>1, <1>3, <2>1 DEF DeliveryInv, ExecsNumbered, Delivered
  <2>4. StartedIsNotAssigned'
    BY <1>1, <2>1 DEF DeliveryInv, StartedIsNotAssigned
  <2> QED BY Zenon, <2>2, <2>3, <2>4 DEF DeliveryInv
<1> QED BY <1>4, <1>5 DEF Deliver

\* The steps of one execution.
LEMMA SetMovesOn ==
    ASSUME TypeOK, NEW e \in execs, NEW n, Set(e, n), n.task = e.task, n.id = e.id,
           n.pc \in Started => e.pc \in Started \/ status'[e.task] # "assigned"
    PROVE  ExecsMoveOn
BY DEF Set, ExecsMoveOn

LEMMA TransitionMovesOn ==
    ASSUME TypeOK, NEW e \in execs, NEW expected, NEW target,
           target \notin Unassigned \cup {"assigned"},
           Transition(e, expected, target), UNCHANGED <<attempt, owner>>
    PROVE  TasksMoveOn
BY DEF TypeOK, Transition, TasksMoveOn, Unassigned

LEMMA ExecutionDelivery ==
    ASSUME TypeOK, TypeOK', DeliveryInv, NEW e \in execs, DeliveryNext(e) PROVE DeliveryInv'
<1>1. e \in Exec /\ e.task \in Tasks
  BY DEF TypeOK, Exec
<1>2. \A pc \in ExecPcs :
          LET n == [e EXCEPT !.pc = pc] IN n.task = e.task /\ n.id = e.id /\ n.pc = pc
  BY <1>1 DEF Exec
<1>3. TasksMoveOn
  <2>1. CASE UNCHANGED <<status, attempt, owner>>
    BY <2>1 DEF TasksMoveOn
  <2> QED
    BY <2>1, TransitionMovesOn
    DEF DeliveryNext, Run, Begin, Publish, Complete, ExceptFail, MarkFailed, FinishDelivery,
        WorkFails, taskVars, Unassigned, AcksDelivery
<1>4. ASSUME NEW pc \in ExecPcs, Set(e, [e EXCEPT !.pc = pc]), UNCHANGED inbox,
             pc \in Started => e.pc \in Started
      PROVE  DeliveryInv'
  <2> DEFINE n == [e EXCEPT !.pc = pc]
  <2>1. Set(e, n) /\ n.task = e.task /\ n.id = e.id /\ n.pc = pc
    BY <1>2, <1>4
  <2> HIDE DEF n
  <2>2. ExecsMoveOn
    BY <1>4, <2>1, SetMovesOn
  <2> QED BY <1>3, <1>4, <2>2, DeliveryKept DEF InboxShrinks
<1>5. CASE Begin(e)
  <2> DEFINE n == [e EXCEPT !.pc = "running", !.began = TRUE, !.run = attempt[e.task]]
  <2>1. CASE Set(e, n) /\ Matches(e, {"assigned"}) /\ Fenced(e)
    <3>1. n.task = e.task /\ n.id = e.id
      BY <1>1 DEF Exec
    <3>2. status'[e.task] = "running"
      BY <1>1, <1>5, <2>1 DEF Begin, Transition, TypeOK
    <3> HIDE DEF n
    <3>3. ExecsMoveOn
      BY <2>1, <3>1, <3>2, SetMovesOn
    <3> QED BY <1>3, <1>5, <3>3, DeliveryKept DEF Begin, InboxShrinks
  <2>2. CASE Set(e, [e EXCEPT !.pc = "except"])
    BY <1>4, <1>5, <2>2 DEF Begin, ExecPcs, Started
  <2>3. CASE Set(e, [e EXCEPT !.pc = "mark"])
    BY <1>4, <1>5, <2>3 DEF Begin, ExecPcs, Started
  <2> QED BY <1>5, <2>1, <2>2, <2>3 DEF Begin
<1>6. CASE Run(e)
  BY <1>4, <1>6 DEF Run, ExecPcs, Started
<1>7. CASE Publish(e)
  BY <1>4, <1>7 DEF Publish, ExecPcs, Started
<1>8. CASE Complete(e)
  BY <1>4, <1>8 DEF Complete, ExecPcs, Started
<1>9. CASE ExceptFail(e) \/ MarkFailed(e) \/ \E pc \in {"except", "mark"} : WorkFails(e, pc)
  BY <1>4, <1>9 DEF ExceptFail, MarkFailed, WorkFails, ExecPcs, Started
<1>10. CASE FinishDelivery(e)
  <2>1. ExecsMoveOn
    BY <1>10 DEF FinishDelivery, ExecsMoveOn, AcksDelivery
  <2>2. InboxShrinks
    BY SMT, Z3, <1>1, <1>10
    DEF FinishDelivery, InboxShrinks, taskVars, TypeOK, Exec, Terminal, DeliveryInv,
        StartedIsNotAssigned, AcksDelivery
  <2> QED BY <1>3, <2>1, <2>2, DeliveryKept
<1> QED
  BY <1>5, <1>6, <1>7, <1>8, <1>9, <1>10 DEF DeliveryNext

LEMMA NextDelivery ==
    ASSUME TypeOK, TypeOK', DeliveryInv, [Next]_vars PROVE DeliveryInv'
<1>1. CASE UNCHANGED <<status, owner, attempt, inbox, execs>>
  BY <1>1, DeliveryKept DEF InboxShrinks, TasksMoveOn, ExecsMoveOn
<1>2. ASSUME NEW t \in Tasks, Enqueue(t) PROVE DeliveryInv'
  BY <1>2, DeliveryKept
  DEF Enqueue, workerVars, InboxShrinks, TasksMoveOn, ExecsMoveOn, TypeOK, Unassigned, XAdd
<1>3. ASSUME NEW s \in Workers, SchedulerNext(s) PROVE DeliveryInv'
  <2>1. CASE Transfer(s)
    BY <2>1, DeliveryKept DEF Transfer, InboxShrinks, TasksMoveOn, ExecsMoveOn, TypeOK
  <2>2. CASE \/ \E m \in ingress : ReadIngress(s, m)
             \/ Select(s) \/ Claim(s) \/ Ack(s) \/ Revoke(s) \/ OrphanRevoke(s)
             \/ OrphanClaim(s) \/ ReconcileRepairs(s)
             \/ \E w \in registry : \E t \in workerTasks[w] : RecoverRead(s, w, t)
    BY Zenon, <1>1, <2>2
    DEF ReadIngress, Select, Claim, Ack, Revoke, OrphanRevoke, OrphanClaim, ReconcileRepairs,
        RecoverRead, taskVars, workerVars
  <2> QED
    BY Zenon, <1>3, <2>1, <2>2, AssignDelivery, RecoverDelivery DEF SchedulerNext
<1>4. ASSUME NEW w \in Workers, Heartbeat(w) PROVE DeliveryInv'
  <2>1. ASSUME execs' = {IF Waiting(e, w) THEN [e EXCEPT !.pc = "begin"] ELSE e : e \in execs}
        PROVE  ExecsMoveOn
    <3> SUFFICES ASSUME NEW e \in execs'
                 PROVE  \E f \in execs : e.task = f.task /\ e.id = f.id
                                         /\ (e.pc \in Started => f.pc \in Started)
      BY DEF ExecsMoveOn
    <3>1. PICK f \in execs : e = IF Waiting(f, w) THEN [f EXCEPT !.pc = "begin"] ELSE f
      BY <2>1
    <3>2. /\ e.task = f.task /\ e.id = f.id
          /\ e.pc \in Started => f.pc \in Started
      BY <3>1 DEF TypeOK, Exec, Started
    <3> QED BY <3>2
  <2>2. ExecsMoveOn
    BY <1>4, <2>1 DEF Heartbeat, ExecsMoveOn
  <2> QED BY <1>4, <2>2, DeliveryKept DEF Heartbeat, taskVars, InboxShrinks, TasksMoveOn
<1>5. ASSUME NEW w \in Workers, Crash(w) PROVE DeliveryInv'
  BY Zenon, <1>5, DeliveryKept DEF Crash, taskVars, InboxShrinks, TasksMoveOn, ExecsMoveOn
<1>6. CASE \/ UNCHANGED vars \/ LeaseExpire
           \/ \E w \in Workers : Restart(w) \/ HeartbeatLapse(w)
  BY <1>1, <1>6 DEF vars, LeaseExpire, Restart, HeartbeatLapse, taskVars, workerVars
<1> QED
  BY <1>2, <1>3, <1>4, <1>5, <1>6, ExecutionDelivery, DeliverDelivery, RuntimeConstants
  DEF Next

\* The inbox entry of an assigned task stays pending until one of its
\* executions has started it, whatever late executions of earlier attempts,
\* restarts and duplicate deliveries ack meanwhile.
THEOREM AssignedNotForgotten == Spec => []AssignedIsPending
<1>1. Init => DeliveryInv
  BY DEF Init, DeliveryInv, InboxNumbered, ExecsNumbered, CurrentPending, StartedIsNotAssigned
<1>2. TypeOK /\ TypeOK' /\ DeliveryInv /\ [Next]_vars => DeliveryInv'
  BY NextDelivery
<1>3. DeliveryInv => AssignedIsPending
  BY Zenon DEF DeliveryInv, CurrentPending, StartedIsNotAssigned, AssignedIsPending
<1> QED
  BY <1>1, <1>2, <1>3, TypeCorrect, PTL DEF Spec


-----------------------------------------------------------------------------
(* Tasks in flight *)

\* Without outages and slow passes, and with the passes of one scheduler, a
\* worker that has a task in flight, or is about to get one from a pass, is
\* registered and its hash is there: such a worker is not dropped from the
\* registry.  The holder of a lease that was just revoked is the exception to
\* watch: nobody else claims the lease before the transfer does.
OneScheduler == \A r, s \in Schedulers : r = s
Present == {w \in registry : hb[w] # "gone"}
FlightKept ==
    \A t \in Tasks : status[t] \in InFlight =>
        t \in workerTasks[owner[t]] /\ owner[t] \in Present
PassesPresent ==
    \A s \in Workers :
        /\ sched[s].pc \in {"claim", "assign", "transfer"} => sched[s].worker \in Present
        /\ sched[s].seen \subseteq Present
OnlySchedulers == \A s \in Workers : s \notin Schedulers => sched[s].pc = "idle"
OrphanUnclaimed == \A s \in Workers : sched[s].pc = "orphan_claim" => lease = NoLease
FlightInv == FlightKept /\ PassesPresent /\ OnlySchedulers /\ OrphanUnclaimed

\* A step after which everybody present is still present.
Presence == Present \subseteq Present'

\* Every task in flight was in flight before, and is where it was.
FlightMovesOn ==
    \A t \in Tasks : status'[t] \in InFlight =>
        /\ status[t] \in InFlight
        /\ owner'[t] = owner[t]
        /\ t \in workerTasks[owner[t]] => t \in workerTasks'[owner[t]]

LEMMA FlightStays ==
    ASSUME FlightKept, Presence, FlightMovesOn PROVE FlightKept'
BY DEF FlightKept, Presence, FlightMovesOn

\* A pass of s goes on with n, and only frees the lease.
LEMMA FlightPass ==
    ASSUME TypeOK, FlightInv, Presence, NEW s \in Schedulers, NEW n, Step(s, n),
           n.pc \in {"claim", "assign", "transfer"} => n.worker \in Present',
           n.seen \subseteq Present',
           n.pc = "orphan_claim" => lease' = NoLease,
           OneScheduler
    PROVE  PassesPresent' /\ OnlySchedulers' /\ OrphanUnclaimed'
<1>1. s \in Workers
  BY RuntimeConstants
<1>2. sched'[s] = n /\ \A r \in Workers : r # s => sched'[r] = sched[r]
  BY <1>1 DEF TypeOK, Step
<1>3. PassesPresent'
  BY <1>2 DEF FlightInv, PassesPresent, Presence
<1>4. OnlySchedulers'
  BY <1>2 DEF FlightInv, OnlySchedulers
<1>5. OrphanUnclaimed'
  BY <1>2 DEF FlightInv, OnlySchedulers, OrphanUnclaimed, OneScheduler
<1> QED BY <1>3, <1>4, <1>5

\* A step outside the passes, or one that ends a pass, and only frees the lease.
LEMMA FlightElsewhere ==
    ASSUME TypeOK, FlightInv, Presence, FlightMovesOn, lease' \in {lease, NoLease},
           \A r \in Workers : sched'[r] \in {sched[r], Idle}
    PROVE  FlightInv'
<1>1. Idle.pc = "idle" /\ Idle.seen = {}
  BY DEF Idle
<1>2. PassesPresent'
  BY <1>1 DEF FlightInv, PassesPresent, Presence
<1>3. OnlySchedulers' /\ OrphanUnclaimed'
  BY <1>1 DEF FlightInv, OnlySchedulers, OrphanUnclaimed
<1> QED BY <1>2, <1>3, FlightStays DEF FlightInv

\* Listing the live workers drops nobody who is present, and the live workers
\* are present.
LEMMA PruneKeepsPresent ==
    ASSUME PruneRegistry \/ UNCHANGED registry, UNCHANGED hb
    PROVE  Presence /\ Live \subseteq Present /\ Live \subseteq Present'
BY DEF PruneRegistry, Presence, Present, Live

LEMMA SelectFlight ==
    ASSUME TypeOK, FlightInv, OneScheduler, NEW s \in Schedulers, Select(s)
    PROVE  FlightInv'
<1>1. Presence /\ Live \subseteq Present'
  BY Zenon, PruneKeepsPresent DEF Select
<1>2. FlightKept'
  BY Zenon, <1>1, FlightStays DEF Select, taskVars, FlightMovesOn, FlightInv
<1>3. s \in Workers /\ sched[s] \in Sched /\ sched[s].seen \subseteq Present' /\ lease' = lease
  BY Zenon, <1>1, RuntimeConstants
     DEF TypeOK, Pass, FlightInv, PassesPresent, Presence, Select, leaseVars
<1>4. CASE /\ lease # NoLease
           /\ lease.worker \in Live
           /\ Step(s, [sched[s] EXCEPT !.pc = "assign", !.worker = lease.worker,
                                       !.token = lease.token])
  <2> DEFINE n == [sched[s] EXCEPT !.pc = "assign", !.worker = lease.worker,
                                   !.token = lease.token]
  <2>1. n.pc = "assign" /\ n.worker = lease.worker /\ n.seen = sched[s].seen
    BY <1>3 DEF Sched
  <2>2. Step(s, n)
    BY <1>4
  <2> HIDE DEF n
  <2> QED BY <1>1, <1>2, <1>3, <1>4, <2>1, <2>2, FlightPass DEF FlightInv
<1>5. CASE Step(s, Idle)
  <2>1. Idle.pc = "idle" /\ Idle.seen = {}
    BY DEF Idle
  <2> QED BY <1>1, <1>2, <1>5, <2>1, FlightPass DEF FlightInv
<1>6. ASSUME NEW w \in Live,
             Step(s, [sched[s] EXCEPT !.pc = "claim", !.worker = w, !.seen = Live])
      PROVE  FlightInv'
  <2> DEFINE n == [sched[s] EXCEPT !.pc = "claim", !.worker = w, !.seen = Live]
  <2>1. n.pc = "claim" /\ n.worker = w /\ n.seen = Live
    BY <1>3 DEF Sched
  <2>2. Step(s, n)
    BY <1>6
  <2> HIDE DEF n
  <2> QED BY <1>1, <1>2, <1>6, <2>1, <2>2, FlightPass DEF FlightInv
<1> QED BY Zenon, <1>4, <1>5, <1>6 DEF Select

LEMMA ClaimFlight ==
    ASSUME TypeOK, FlightInv, OneScheduler, NEW s \in Schedulers, Claim(s)
    PROVE  FlightInv'
<1>1. Presence
  BY PruneKeepsPresent DEF Claim, workerVars
<1>2. FlightKept'
  BY <1>1, FlightStays DEF Claim, taskVars, workerVars, FlightMovesOn, FlightInv
<1>3. s \in Workers /\ sched[s] \in Sched /\ sched[s].seen \subseteq Present'
  BY <1>1, RuntimeConstants DEF TypeOK, Pass, FlightInv, PassesPresent, Presence
<1>4. CASE lease'.worker \in sched[s].seen
  <2> DEFINE n == [sched[s] EXCEPT !.pc = "assign", !.worker = lease'.worker,
                                   !.token = lease'.token, !.seen = {}]
  <2>1. n.pc = "assign" /\ n.worker = lease'.worker /\ n.seen = {}
    BY <1>3 DEF Sched
  <2>2. Step(s, n)
    BY <1>4 DEF Claim
  <2> HIDE DEF n
  <2> QED BY <1>1, <1>2, <1>3, <1>4, <2>1, <2>2, FlightPass DEF FlightInv
<1>5. CASE lease'.worker \notin sched[s].seen
  <2>1. Idle.pc = "idle" /\ Idle.seen = {}
    BY DEF Idle
  <2>2. Step(s, Idle)
    BY <1>5 DEF Claim
  <2> QED BY <1>1, <1>2, <2>1, <2>2, FlightPass DEF FlightInv
<1> QED BY <1>4, <1>5

\* The task is put into the task set of the worker the pass names.
LEMMA AssignFlight ==
    ASSUME TypeOK, FlightInv, OneScheduler, NEW s \in Schedulers, Assign(s)
    PROVE  FlightInv'
<1> DEFINE t == sched[s].task
           w == sched[s].worker
<1>1. Presence /\ Present' = Present
  BY DEF Assign, Presence, Present
<1>2. s \in Workers /\ t \in Tasks /\ w \in Workers /\ w \in Present
  BY RuntimeConstants DEF TypeOK, Pass, PassOK, FlightInv, PassesPresent, Assign
<1>3. FlightKept'
  <2>1. CASE UNCHANGED <<status, owner, workerTasks>>
    BY <1>1, <2>1, FlightStays DEF FlightMovesOn, FlightInv
  <2>2. CASE /\ status' = [status EXCEPT ![t] = "assigned"]
             /\ owner' = [owner EXCEPT ![t] = w]
             /\ workerTasks' = [workerTasks EXCEPT ![w] = @ \cup {t}]
    <3> HIDE DEF t, w
    <3> SUFFICES ASSUME NEW u \in Tasks, status'[u] \in InFlight
                 PROVE  u \in workerTasks'[owner'[u]] /\ owner'[u] \in Present
      BY <1>1 DEF FlightKept
    <3>1. CASE u = t
      BY <1>2, <2>2, <3>1 DEF TypeOK
    <3>2. CASE u # t
      <4>1. status'[u] = status[u] /\ owner'[u] = owner[u]
        BY <1>2, <2>2, <3>2 DEF TypeOK
      <4>2. u \in workerTasks[owner[u]] /\ owner[u] \in Present
        BY <4>1 DEF FlightInv, FlightKept
      <4>3. owner[u] \in Workers
        BY <4>2 DEF Present, TypeOK
      <4> QED BY <1>2, <2>2, <4>1, <4>2, <4>3 DEF TypeOK
    <3> QED BY <3>1, <3>2
  <2> QED BY <2>1, <2>2 DEF Assign
<1>4. PICK n \in {Idle, [Idle EXCEPT !.pc = "ack", !.task = t, !.id = sched[s].id]} :
          Step(s, n)
  BY DEF Assign
<1>5. n.pc \in {"idle", "ack"} /\ n.seen = {}
  <2>1. /\ [Idle EXCEPT !.pc = "ack", !.task = t, !.id = sched[s].id].pc = "ack"
        /\ [Idle EXCEPT !.pc = "ack", !.task = t, !.id = sched[s].id].seen = {}
        /\ Idle.pc = "idle" /\ Idle.seen = {}
    BY DEF Idle
  <2> QED BY Zenon, <1>4, <2>1
<1> QED BY <1>1, <1>3, <1>4, <1>5, FlightPass DEF FlightInv

LEMMA RecoverFlight ==
    ASSUME TypeOK, FlightInv, OneScheduler, NEW s \in Schedulers, Recover(s)
    PROVE  FlightInv'
<1> DEFINE t == sched[s].task
           w == sched[s].dead
           lost == owner[t] = w /\ status[t] \in {"assigned", "running"}
<1>1. Presence
  BY PruneKeepsPresent DEF Recover
<1>2. s \in Workers /\ t \in Tasks /\ w \in Workers /\ sched[s] \in Sched
  BY RuntimeConstants DEF TypeOK, Pass, PassOK, Recover
<1>3. FlightMovesOn
  <2>1. CASE lost
    <3>1. status'[t] \in {"queued", "failed"}
      BY <1>2, <2>1 DEF Recover, TypeOK, Recoverable
    <3>2. \A u \in Tasks : u # t => status'[u] = status[u] /\ owner'[u] = owner[u]
      BY <1>2, <2>1 DEF Recover, TypeOK, Recoverable
    <3>3. workerTasks' = [workerTasks EXCEPT ![w] = @ \ {t}]
      BY <2>1 DEF Recover, Recoverable
    <3>4. \A u \in Tasks, v \in Workers : u # t /\ u \in workerTasks[v] => u \in workerTasks'[v]
      BY <1>2, <3>3 DEF TypeOK
    <3>5. \A u \in Tasks : owner[u] \in Workers \cup {NoWorker}
      BY DEF TypeOK
    <3>6. \A u \in Tasks : status[u] \in InFlight => owner[u] \in Workers
      BY DEF FlightInv, FlightKept, Present, TypeOK
    <3> HIDE DEF t, lost
    <3> QED BY <3>1, <3>2, <3>4, <3>6 DEF FlightMovesOn, InFlight
  <2>2. CASE ~lost
    <3>1. UNCHANGED <<status, owner>>
      BY <2>2 DEF Recover, Recoverable
    <3>2. CASE UNCHANGED workerTasks
      BY <3>1, <3>2 DEF FlightMovesOn
    <3>3. CASE /\ workerTasks' = [workerTasks EXCEPT ![w] = @ \ {t}]
               /\ owner[t] # w \/ status[t] \in Terminal
      <4> HIDE DEF t, w
      <4> SUFFICES ASSUME NEW u \in Tasks, status[u] \in InFlight, u \in workerTasks[owner[u]]
                   PROVE  u \in workerTasks'[owner[u]]
        BY <3>1 DEF FlightMovesOn
      <4>1. u # t \/ owner[u] # w
        BY <3>3 DEF InFlight, Terminal
      <4>2. owner[u] \in Workers
        BY DEF FlightInv, FlightKept, Present, TypeOK
      <4> QED BY <1>2, <3>3, <4>1, <4>2 DEF TypeOK
    <3> QED BY <2>2, <3>2, <3>3 DEF Recover, Recoverable
  <2> QED BY <2>1, <2>2
<1>4. sched[s].seen \subseteq Present'
  BY <1>1, <1>2 DEF FlightInv, PassesPresent, Presence
<1>5. /\ [sched[s] EXCEPT !.pc = "revoke"].pc = "revoke"
      /\ [sched[s] EXCEPT !.pc = "revoke"].seen = sched[s].seen
      /\ [sched[s] EXCEPT !.pc = "orphan"].pc = "orphan"
      /\ [sched[s] EXCEPT !.pc = "orphan"].seen = sched[s].seen
      /\ Idle.pc = "idle" /\ Idle.seen = {}
  BY <1>2 DEF Sched, Idle
<1>6. PICK n : Step(s, n) /\ n.pc \in {"revoke", "orphan", "idle"} /\ n.seen \subseteq Present'
  BY Zenon, <1>4, <1>5 DEF Recover
<1> QED BY <1>1, <1>3, <1>6, FlightPass, FlightStays DEF FlightInv

LEMMA OrphanFlight ==
    ASSUME TypeOK, FlightInv, OneScheduler, NEW s \in Schedulers,
           OrphanRevoke(s) \/ OrphanClaim(s)
    PROVE  FlightInv'
<1>1. Presence /\ Live \subseteq Present'
  BY PruneKeepsPresent DEF OrphanRevoke, OrphanClaim, workerVars
<1>2. FlightKept'
  BY <1>1, FlightStays DEF OrphanRevoke, OrphanClaim, taskVars, workerVars, FlightMovesOn, FlightInv
<1>3. s \in Workers /\ sched[s] \in Sched /\ sched[s].seen \subseteq Present'
  BY <1>1, RuntimeConstants DEF TypeOK, Pass, FlightInv, PassesPresent, Presence
<1>4. CASE Step(s, Idle)
  <2>1. Idle.pc = "idle" /\ Idle.seen = {}
    BY DEF Idle
  <2> QED BY <1>1, <1>2, <1>4, <2>1, FlightPass DEF FlightInv
<1>5. CASE lease' = NoLease /\ Step(s, [sched[s] EXCEPT !.pc = "orphan_claim"])
  <2> DEFINE n == [sched[s] EXCEPT !.pc = "orphan_claim"]
  <2>1. n.pc = "orphan_claim" /\ n.seen = sched[s].seen
    BY <1>3 DEF Sched
  <2>2. Step(s, n)
    BY <1>5
  <2> HIDE DEF n
  <2> QED BY <1>1, <1>2, <1>3, <1>5, <2>1, <2>2, FlightPass DEF FlightInv
<1>6. ASSUME OrphanClaim(s), NEW w \in Live, ClaimMr(w),
             Step(s, [sched[s] EXCEPT !.pc = "transfer", !.worker = lease'.worker,
                                      !.token = lease'.token])
      PROVE  FlightInv'
  <2> DEFINE n == [sched[s] EXCEPT !.pc = "transfer", !.worker = lease'.worker,
                                   !.token = lease'.token]
  <2>1. n.pc = "transfer" /\ n.worker = lease'.worker /\ n.seen = sched[s].seen
    BY <1>3 DEF Sched
  <2>2. Step(s, n)
    BY <1>6
  <2>3. lease = NoLease
    BY <1>3, <1>6 DEF OrphanClaim, FlightInv, OrphanUnclaimed
  <2>4. lease'.worker = w
    BY SMT, Z3, <1>6, <2>3 DEF ClaimMr
  <2> HIDE DEF n
  <2> QED BY <1>1, <1>2, <1>3, <1>6, <2>1, <2>2, <2>4, FlightPass DEF FlightInv
<1> QED BY <1>4, <1>5, <1>6 DEF OrphanRevoke, OrphanClaim

LEMMA TransferFlight ==
    ASSUME TypeOK, FlightInv, OneScheduler, NEW s \in Schedulers, Transfer(s)
    PROVE  FlightInv'
<1> DEFINE t == sched[s].task
           old == sched[s].dead
           new == sched[s].worker
           moved == [w \in Workers |-> CASE w = new -> workerTasks[w] \cup {t}
                                         [] w = old /\ w # new -> workerTasks[w] \ {t}
                                         [] OTHER -> workerTasks[w]]
<1>1. Presence /\ Present' = Present
  BY DEF Transfer, Presence, Present
<1>2. s \in Workers /\ t \in Tasks /\ new \in Workers /\ new \in Present
  BY RuntimeConstants DEF TypeOK, Pass, PassOK, FlightInv, PassesPresent, Transfer
<1>3. FlightKept'
  <2>1. CASE UNCHANGED <<owner, workerTasks>>
    BY <1>1, <2>1, FlightStays DEF Transfer, FlightMovesOn, FlightInv
  <2>2. CASE owner' = [owner EXCEPT ![t] = new] /\ workerTasks' = moved
    <3>1. \A w \in Workers, u \in Tasks :
              /\ w = new => t \in workerTasks'[w]
              /\ u # t /\ u \in workerTasks[w] => u \in workerTasks'[w]
      BY <2>2
    <3> HIDE DEF t, new, old, moved
    <3> SUFFICES ASSUME NEW u \in Tasks, status[u] \in InFlight
                 PROVE  u \in workerTasks'[owner'[u]] /\ owner'[u] \in Present
      BY Zenon, <1>1 DEF FlightKept, Transfer
    <3>2. CASE u = t
      BY <1>2, <2>2, <3>1, <3>2 DEF TypeOK
    <3>3. CASE u # t
      <4>1. owner'[u] = owner[u]
        BY <1>2, <2>2, <3>3 DEF TypeOK
      <4>2. u \in workerTasks[owner[u]] /\ owner[u] \in Present
        BY DEF FlightInv, FlightKept
      <4>3. owner[u] \in Workers
        BY <4>2 DEF Present, TypeOK
      <4> QED BY Zenon, <3>1, <3>3, <4>1, <4>2, <4>3
    <3> QED BY <3>2, <3>3
  <2> QED BY <2>1, <2>2 DEF Transfer
<1>4. Idle.pc = "idle" /\ Idle.seen = {} /\ Step(s, Idle)
  BY DEF Idle, Transfer
<1> QED BY <1>1, <1>3, <1>4, FlightPass DEF FlightInv

\* The steps of a pass that hand nothing over.
LEMMA QuietPassFlight ==
    ASSUME TypeOK, FlightInv, OneScheduler, NEW s \in Schedulers,
           \/ \E m \in ingress : ReadIngress(s, m)
           \/ \E w \in registry : \E t \in workerTasks[w] : RecoverRead(s, w, t)
           \/ Ack(s) \/ Revoke(s) \/ ReconcileRepairs(s)
    PROVE  FlightInv'
<1>1. Presence
  BY Zenon, PruneKeepsPresent
     DEF ReadIngress, RecoverRead, Ack, Revoke, ReconcileRepairs, workerVars
<1>2. FlightMovesOn
  BY Zenon DEF ReadIngress, RecoverRead, Ack, Revoke, ReconcileRepairs, workerVars, taskVars,
         FlightMovesOn
<1>3. s \in Workers
  BY RuntimeConstants
<1>4. CASE Ack(s) \/ Revoke(s) \/ ReconcileRepairs(s)
  <2>1. lease' \in {lease, NoLease}
    BY <1>4 DEF Ack, Revoke, RevokeMr, ReconcileRepairs, leaseVars
  <2>2. \A r \in Workers : sched'[r] \in {sched[r], Idle}
    BY <1>3, <1>4 DEF Ack, Revoke, ReconcileRepairs, Step, TypeOK
  <2> QED BY <1>1, <1>2, <2>1, <2>2, FlightElsewhere
<1>5. ASSUME NEW m \in ingress, ReadIngress(s, m) PROVE FlightInv'
  <2> DEFINE n == [Idle EXCEPT !.pc = IF status[m[1]] = "queued" THEN "select" ELSE "ack",
                               !.task = m[1], !.id = m[2]]
  <2>1. n.pc \in {"select", "ack"} /\ n.seen = {}
    BY DEF Idle
  <2>2. Step(s, n)
    BY Zenon, <1>5 DEF ReadIngress
  <2> HIDE DEF n
  <2> QED BY Zenon, <1>1, <1>2, <2>1, <2>2, FlightPass, FlightStays DEF FlightInv
<1>6. ASSUME NEW w, NEW t, RecoverRead(s, w, t) PROVE FlightInv'
  <2> DEFINE n == [Idle EXCEPT !.pc = "recover", !.task = t, !.dead = w, !.token = token[t]]
  <2>1. n.pc = "recover" /\ n.seen = {}
    BY DEF Idle
  <2>2. Step(s, n)
    BY Zenon, <1>6 DEF RecoverRead
  <2> HIDE DEF n
  <2> QED BY Zenon, <1>1, <1>2, <2>1, <2>2, FlightPass, FlightStays DEF FlightInv
<1> QED BY <1>4, <1>5, <1>6

\* What an execution does to its task keeps it where it is.
LEMMA TransitionFlight ==
    ASSUME TypeOK, NEW e \in execs, NEW expected \in SUBSET InFlight, NEW target,
           Transition(e, expected, target), UNCHANGED <<owner, workerTasks>>
    PROVE  FlightMovesOn
<1>1. e.task \in Tasks
  BY DEF TypeOK, Exec
<1> QED BY <1>1 DEF Transition, Matches, FlightMovesOn, TypeOK

LEMMA DeliveryFlight ==
    ASSUME TypeOK, FlightInv, NEW e \in execs, DeliveryNext(e) PROVE FlightInv'
<1>1. UNCHANGED <<registry, hb, lease, sched, owner, workerTasks>>
  BY DEF DeliveryNext, Run, Begin, Publish, Complete, ExceptFail, MarkFailed, FinishDelivery,
         WorkFails, taskVars, leaseVars
<1>2. Presence
  BY <1>1, PruneKeepsPresent
<1>3. FlightMovesOn
  <2>1. {"assigned"} \in SUBSET InFlight /\ {"running"} \in SUBSET InFlight
        /\ {"publishing"} \in SUBSET InFlight /\ {"running", "publishing"} \in SUBSET InFlight
        /\ {"assigned", "running", "publishing"} \in SUBSET InFlight
    BY DEF InFlight
  <2>2. CASE Begin(e) \/ Publish(e) \/ Complete(e) \/ ExceptFail(e) \/ MarkFailed(e)
    BY <1>1, <2>1, <2>2, TransitionFlight DEF Begin, Publish, Complete, ExceptFail, MarkFailed
  <2>3. CASE Run(e) \/ FinishDelivery(e) \/ \E pc \in {"except", "mark"} : WorkFails(e, pc)
    BY <1>1, <2>3 DEF Run, FinishDelivery, WorkFails, taskVars, FlightMovesOn
  <2> QED BY <2>2, <2>3 DEF DeliveryNext
<1> QED BY <1>1, <1>2, <1>3, FlightElsewhere

\* A worker hash expires only when the worker has nothing in its care and no
\* pass is over it.
LEMMA LapseFlight ==
    ASSUME TypeOK, FlightInv, "outage" \notin Faults, "slow_pass" \notin Faults,
           NEW w \in Workers, HeartbeatLapse(w)
    PROVE  FlightInv'
<1>1. UNCHANGED <<status, owner, workerTasks, registry, lease, sched>>
  BY DEF HeartbeatLapse, taskVars, leaseVars
<1>2. FlightMovesOn
  BY <1>1 DEF FlightMovesOn
<1>3. CASE hb' = [hb EXCEPT ![w] = "stale"] /\ hb[w] = "fresh"
  <2>1. Presence
    BY <1>1, <1>3 DEF Presence, Present, TypeOK
  <2> QED BY <1>1, <1>2, <2>1, FlightElsewhere
<1>4. CASE hb' = [hb EXCEPT ![w] = "gone"] /\ InCare(w) = {} /\ ~PassOver(w)
  <2>1. Present \ {w} \subseteq Present'
    BY <1>1, <1>4 DEF Present, TypeOK
  <2>2. FlightKept'
    <3> SUFFICES ASSUME NEW t \in Tasks, status[t] \in InFlight
                 PROVE  t \in workerTasks[owner[t]] /\ owner[t] \in Present'
      BY <1>1 DEF FlightKept
    <3>1. status[t] \notin Terminal
      BY DEF InFlight, Terminal
    <3>2. owner[t] # w
      BY <1>4, <3>1 DEF InCare
    <3> QED BY <2>1, <3>2 DEF FlightInv, FlightKept
  <2>3. \A s \in Workers : w # sched[s].worker /\ w \notin sched[s].seen
    BY <1>4 DEF PassOver
  <2>4. PassesPresent'
    BY <1>1, <2>1, <2>3 DEF FlightInv, PassesPresent
  <2>5. OnlySchedulers' /\ OrphanUnclaimed'
    BY <1>1 DEF FlightInv, OnlySchedulers, OrphanUnclaimed
  <2> QED BY <2>2, <2>4, <2>5 DEF FlightInv
<1> QED BY <1>3, <1>4 DEF HeartbeatLapse

LEMMA NextFlight ==
    ASSUME TypeOK, FlightInv, [Next]_vars,
           OneScheduler, "outage" \notin Faults, "slow_pass" \notin Faults
    PROVE  FlightInv'
<1>1. ASSUME NEW s \in Schedulers, SchedulerNext(s) PROVE FlightInv'
  BY Zenon, <1>1, SelectFlight, ClaimFlight, AssignFlight, RecoverFlight, OrphanFlight,
     TransferFlight, QuietPassFlight DEF SchedulerNext
<1>2. ASSUME NEW t \in Tasks, Enqueue(t) PROVE FlightInv'
  <2>1. FlightMovesOn
    BY <1>2 DEF Enqueue, workerVars, FlightMovesOn, InFlight, TypeOK
  <2> QED BY <1>2, <2>1, PruneKeepsPresent, FlightElsewhere DEF Enqueue, workerVars, leaseVars
<1>3. ASSUME NEW w \in Workers, Heartbeat(w) \/ Restart(w) PROVE FlightInv'
  <2>1. Presence
    BY <1>3 DEF Heartbeat, Restart, Presence, Present, TypeOK
  <2>2. FlightMovesOn /\ UNCHANGED <<lease, sched>>
    BY <1>3 DEF Heartbeat, Restart, FlightMovesOn, taskVars, leaseVars
  <2> QED BY <2>1, <2>2, FlightElsewhere
<1>4. ASSUME NEW w \in Workers, Crash(w) \/ \E m \in inbox[w] : Deliver(w, m)
      PROVE  FlightInv'
  <2>1. UNCHANGED <<registry, hb, lease, status, owner, workerTasks>>
    BY <1>4 DEF Crash, Deliver, taskVars, leaseVars
  <2>2. Presence /\ FlightMovesOn
    BY <2>1, PruneKeepsPresent DEF FlightMovesOn
  <2>3. \A r \in Workers : sched'[r] \in {sched[r], Idle}
    BY <1>4 DEF Crash, Deliver, Step, TypeOK
  <2> QED BY <2>1, <2>2, <2>3, FlightElsewhere
<1>5. CASE LeaseExpire \/ UNCHANGED vars
  <2>1. /\ UNCHANGED <<registry, hb, status, owner, workerTasks, sched>>
        /\ lease' \in {lease, NoLease}
    BY <1>5 DEF LeaseExpire, vars, taskVars, leaseVars, workerVars
  <2>2. Presence /\ FlightMovesOn
    BY <2>1, PruneKeepsPresent DEF FlightMovesOn
  <2> QED BY <2>1, <2>2, FlightElsewhere
<1> QED
  BY <1>1, <1>2, <1>3, <1>4, <1>5, DeliveryFlight, LapseFlight DEF Next

\* While a recovery pass is quicker than the TTLs and passes do not overlap,
\* every task in flight is found by the next pass over its owner, whatever
\* crashes, stalls and backlogs there are: it is in its owner's task set, and
\* list_live_workers never drops that owner from the registry.
THEOREM InFlightNotForgotten ==
    ASSUME OneScheduler, "outage" \notin Faults, "slow_pass" \notin Faults
    PROVE  Spec => []InFlightIsRecoverable
<1>1. Init => FlightInv
  BY SMT, Z3
     DEF Init, FlightInv, FlightKept, PassesPresent, OnlySchedulers, OrphanUnclaimed, InFlight, Idle
<1>2. TypeOK /\ FlightInv /\ [Next]_vars => FlightInv'
  BY NextFlight
<1>3. FlightInv => InFlightIsRecoverable
  BY DEF FlightInv, FlightKept, InFlightIsRecoverable, Present
<1> QED
  BY <1>1, <1>2, <1>3, TypeCorrect, PTL DEF Spec
=============================================================================
