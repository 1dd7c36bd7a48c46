------------------------ MODULE TaskRuntime_proofs ------------------------
(***************************************************************************)
(* Machine-checked proofs about TaskRuntime, for any number of workers,    *)
(* tasks and schedulers, any retry limit and any set of faults: types, the *)
(* refinement of TaskService, and the fencing tokens.                      *)
(***************************************************************************)
EXTENDS TaskRuntime, TLAPS

-----------------------------------------------------------------------------
(* Type correctness *)

\* An idle scheduler's record has its type.
LEMMA IdleType == Idle \in Pass
BY DEF Idle, Pass, PassOK, Sched, SchedPcs

\* The updates a pass makes to its scheduler's record keep its type.
LEMMA PassUpdates ==
    ASSUME NEW x \in Sched, NEW w \in Workers, NEW n \in Nat,
           NEW S \in SUBSET Workers, NEW t \in Tasks, NEW d \in Workers
    PROVE  /\ [x EXCEPT !.pc = "select", !.task = t, !.id = n] \in Pass
           /\ [x EXCEPT !.pc = "ack", !.task = t, !.id = n] \in Pass
           /\ [x EXCEPT !.pc = "recover", !.task = t, !.dead = d, !.token = n] \in Pass
BY Zenon DEF Pass, PassOK, Sched, SchedPcs

LEMMA DispatchUpdates ==
    ASSUME NEW x \in Sched, NEW w \in Workers, NEW n \in Nat,
           NEW S \in SUBSET Workers, x.task \in Tasks
    PROVE  /\ [x EXCEPT !.pc = "assign", !.worker = w, !.token = n] \in Pass
           /\ [x EXCEPT !.pc = "assign", !.worker = w, !.token = n, !.seen = {}] \in Pass
           /\ [x EXCEPT !.pc = "claim", !.worker = w, !.seen = S] \in Pass
BY Zenon DEF Pass, PassOK, Sched, SchedPcs

LEMMA RecoveryUpdates ==
    ASSUME NEW x \in Sched, x.task \in Tasks, x.dead \in Workers,
           NEW w \in Workers, NEW n \in Nat
    PROVE  /\ [x EXCEPT !.pc = "revoke"] \in Pass
           /\ [x EXCEPT !.pc = "orphan"] \in Pass
           /\ [x EXCEPT !.pc = "orphan_claim"] \in Pass
           /\ [x EXCEPT !.pc = "transfer", !.worker = w, !.token = n] \in Pass
BY Zenon DEF Pass, PassOK, Sched, SchedPcs

LEMMA StepType ==
    ASSUME TypeOK, NEW s \in Workers, NEW n \in Pass, Step(s, n)
    PROVE  sched' \in [Workers -> Pass]
BY DEF TypeOK, Step

\* The updates a delivery makes to its record keep its type.
LEMMA ExecUpdates ==
    ASSUME NEW e \in Exec, NEW pc \in ExecPcs, NEW n \in Nat
    PROVE  /\ [e EXCEPT !.pc = pc] \in Exec
           /\ [e EXCEPT !.token = n] \in Exec
           /\ [e EXCEPT !.pc = pc, !.began = TRUE, !.run = n] \in Exec
BY Zenon DEF Exec

LEMMA SetType ==
    ASSUME TypeOK, NEW e \in execs, NEW n \in Exec, Set(e, n)
    PROVE  execs' \subseteq Exec
BY DEF TypeOK, Set

LEMMA TransitionType ==
    ASSUME TypeOK, NEW e \in execs, NEW expected, NEW target \in Statuses,
           Transition(e, expected, target)
    PROVE  status' \in [Tasks -> Statuses]
BY DEF TypeOK, Transition, Exec

\* CLAIM_MR and REVOKE_MR keep the types of the lease and of the counter.
LEMMA ClaimMrType ==
    ASSUME TypeOK, NEW w \in Workers, ClaimMr(w)
    PROVE  /\ lease' \in Lease
           /\ fence' \in Nat
           /\ lease'.worker \in Workers
           /\ lease'.token \in Nat
BY SMT, Z3 DEF TypeOK, ClaimMr, leaseVars, Lease

LEMMA RevokeMrType ==
    ASSUME TypeOK, NEW w, NEW n, RevokeMr(w, n)
    PROVE  lease' \in Lease /\ fence' \in Nat
BY DEF TypeOK, RevokeMr, Lease

LEMMA EnqueueType == ASSUME TypeOK, NEW t \in Tasks, Enqueue(t) PROVE TypeOK'
BY SMT, Z3 DEF TypeOK, Enqueue, leaseVars, workerVars, Statuses, XAdd

LEMMA ReadIngressType ==
    ASSUME TypeOK, NEW s \in Workers, NEW m \in ingress, ReadIngress(s, m) PROVE TypeOK'
<1>1. m[1] \in Tasks /\ m[2] \in Nat /\ Idle \in Sched
  BY IdleType DEF TypeOK, Pass
<1>2. [Idle EXCEPT !.pc = IF status[m[1]] = "queued" THEN "select" ELSE "ack",
                   !.task = m[1], !.id = m[2]] \in Pass
  <2>1. CASE status[m[1]] = "queued"
    BY Zenon, <1>1, <2>1, PassUpdates
  <2>2. CASE status[m[1]] # "queued"
    BY Zenon, <1>1, <2>2, PassUpdates
  <2> QED BY <2>1, <2>2
<1>3. sched' \in [Workers -> Pass]
  BY <1>2, StepType DEF ReadIngress
<1> QED
  BY <1>3 DEF TypeOK, ReadIngress, taskVars, leaseVars, workerVars

LEMMA SelectType == ASSUME TypeOK, NEW s \in Workers, Select(s) PROVE TypeOK'
<1>1. sched[s] \in Sched /\ sched[s].task \in Tasks /\ Live \in SUBSET Workers
  BY Zenon DEF TypeOK, Select, Live, Pass, PassOK
<1>2. sched' \in [Workers -> Pass]
  <2>1. CASE /\ lease # NoLease
             /\ Step(s, [sched[s] EXCEPT !.pc = "assign", !.worker = lease.worker,
                                         !.token = lease.token])
    <3>1. lease.worker \in Workers /\ lease.token \in Nat
      BY <2>1 DEF TypeOK, Lease
    <3>2. [sched[s] EXCEPT !.pc = "assign", !.worker = lease.worker,
                           !.token = lease.token] \in Pass
      BY Zenon, <1>1, <3>1, DispatchUpdates
    <3> QED BY <2>1, <3>2, StepType
  <2>2. CASE Step(s, Idle)
    BY <2>2, IdleType, StepType
  <2>3. ASSUME NEW w \in Live,
               Step(s, [sched[s] EXCEPT !.pc = "claim", !.worker = w, !.seen = Live])
        PROVE  sched' \in [Workers -> Pass]
    <3>1. [sched[s] EXCEPT !.pc = "claim", !.worker = w, !.seen = Live] \in Pass
      BY Zenon, <1>1, 0 \in Nat, DispatchUpdates
    <3> QED BY <2>3, <3>1, StepType
  <2> QED BY Zenon, <2>1, <2>2, <2>3 DEF Select
<1> QED
  BY Zenon, <1>2 DEF TypeOK, Select, PruneRegistry, taskVars, leaseVars

LEMMA ClaimType == ASSUME TypeOK, NEW s \in Workers, Claim(s) PROVE TypeOK'
<1>1. sched[s] \in Sched /\ sched[s].task \in Tasks /\ sched[s].worker \in Workers
  BY DEF TypeOK, Claim, Pass, PassOK
<1>2. /\ lease' \in Lease /\ fence' \in Nat
      /\ lease'.worker \in Workers /\ lease'.token \in Nat
  BY <1>1, ClaimMrType DEF Claim
<1>3. sched' \in [Workers -> Pass]
  <2>1. [sched[s] EXCEPT !.pc = "assign", !.worker = lease'.worker,
                         !.token = lease'.token, !.seen = {}] \in Pass
    BY Zenon, <1>1, <1>2, DispatchUpdates
  <2> QED BY <2>1, IdleType, StepType DEF Claim
<1> QED
  BY <1>2, <1>3 DEF TypeOK, Claim, taskVars, workerVars

LEMMA AssignType == ASSUME TypeOK, NEW s \in Workers, Assign(s) PROVE TypeOK'
<1>1. /\ sched[s] \in Sched /\ sched[s].task \in Tasks /\ sched[s].worker \in Workers
      /\ sched[s].id \in Nat /\ sched[s].token \in Nat /\ Idle \in Sched
  BY IdleType DEF TypeOK, Assign, Pass, PassOK, Sched, AcksIngress
<1>2. sched' \in [Workers -> Pass]
  <2>1. [Idle EXCEPT !.pc = "ack", !.task = sched[s].task, !.id = sched[s].id] \in Pass
    BY Zenon, <1>1, PassUpdates
  <2> QED BY <2>1, IdleType, StepType DEF Assign, AcksIngress
<1>3. status' \in [Tasks -> Statuses] /\ token' \in [Tasks -> Nat]
  BY <1>1 DEF TypeOK, Assign, Statuses, AcksIngress
<1>4. owner' \in [Tasks -> Workers \cup {NoWorker}]
  BY <1>1 DEF TypeOK, Assign, AcksIngress
<1>5. workerTasks' \in [Workers -> SUBSET Tasks]
  BY SMT, Z3, <1>1 DEF TypeOK, Assign, AcksIngress
<1>6. inbox' \in [Workers -> SUBSET (Tasks \X Nat)]
  BY SMT, Z3, <1>1 DEF TypeOK, Assign, AcksIngress
<1> QED
  BY <1>2, <1>3, <1>4, <1>5, <1>6 DEF TypeOK, Assign, leaseVars, AcksIngress

LEMMA AckType == ASSUME TypeOK, NEW s \in Workers, Ack(s) PROVE TypeOK'
<1>1. sched' \in [Workers -> Pass]
  BY IdleType, StepType DEF Ack
<1> QED
  BY <1>1 DEF TypeOK, Ack, leaseVars, workerVars

LEMMA RecoverReadType ==
    ASSUME TypeOK, NEW s \in Workers, NEW w \in Workers, NEW t \in Tasks, RecoverRead(s, w, t)
    PROVE  TypeOK'
<1>1. [Idle EXCEPT !.pc = "recover", !.task = t, !.dead = w, !.token = token[t]] \in Pass
  BY Zenon, IdleType, PassUpdates DEF TypeOK, Pass
<1>2. sched' \in [Workers -> Pass]
  BY <1>1, StepType DEF RecoverRead
<1> QED
  BY <1>2 DEF TypeOK, RecoverRead, taskVars, leaseVars, workerVars

LEMMA RecoverType == ASSUME TypeOK, NEW s \in Workers, Recover(s) PROVE TypeOK'
<1>1. sched[s] \in Sched /\ sched[s].task \in Tasks /\ sched[s].dead \in Workers
  BY DEF TypeOK, Recover, Pass, PassOK, CanRetry, Recoverable, XAdd
<1>2. sched' \in [Workers -> Pass]
  <2>1. [sched[s] EXCEPT !.pc = "revoke"] \in Pass /\ [sched[s] EXCEPT !.pc = "orphan"] \in Pass
    BY Zenon, <1>1, 0 \in Nat, RecoveryUpdates
  <2>2. \/ Step(s, [sched[s] EXCEPT !.pc = "revoke"])
        \/ Step(s, [sched[s] EXCEPT !.pc = "orphan"])
        \/ Step(s, Idle)
    BY DEF Recover, CanRetry, Recoverable, XAdd
  <2> QED BY <2>1, <2>2, IdleType, StepType
<1>3. status' \in [Tasks -> Statuses]
  BY <1>1 DEF TypeOK, Recover, Statuses, Terminal, CanRetry, Recoverable, XAdd
<1>4. attempt' \in [Tasks -> Nat]
  BY SMT, Z3, <1>1 DEF TypeOK, Recover, CanRetry, Recoverable, XAdd
<1>5. owner' \in [Tasks -> Workers \cup {NoWorker}]
  BY <1>1 DEF TypeOK, Recover, CanRetry, Recoverable, XAdd
<1>6. token' \in [Tasks -> Nat]
  BY <1>1 DEF TypeOK, Recover, CanRetry, Recoverable, XAdd
<1>7. sent' \in [Tasks -> Nat] /\ ingress' \subseteq Tasks \X Nat
  BY SMT, Z3, <1>1 DEF TypeOK, Recover, CanRetry, Recoverable, XAdd
<1>8. workerTasks' \in [Workers -> SUBSET Tasks]
  BY <1>1 DEF TypeOK, Recover, CanRetry, Recoverable, XAdd
<1> QED
  BY <1>2, <1>3, <1>4, <1>5, <1>6, <1>7, <1>8
  DEF TypeOK, Recover, leaseVars, CanRetry, Recoverable, XAdd

LEMMA RevokeType == ASSUME TypeOK, NEW s \in Workers, Revoke(s) PROVE TypeOK'
<1>1. lease' \in Lease /\ fence' \in Nat
  BY RevokeMrType DEF Revoke
<1>2. sched' \in [Workers -> Pass]
  BY IdleType, StepType DEF Revoke
<1> QED
  BY <1>1, <1>2 DEF TypeOK, Revoke, taskVars, workerVars

LEMMA OrphanRevokeType == ASSUME TypeOK, NEW s \in Workers, OrphanRevoke(s) PROVE TypeOK'
<1>1. sched[s] \in Sched /\ sched[s].task \in Tasks /\ sched[s].dead \in Workers
  BY DEF TypeOK, OrphanRevoke, Pass, PassOK
<1>2. lease' \in Lease /\ fence' \in Nat
  BY RevokeMrType DEF OrphanRevoke
<1>3. [sched[s] EXCEPT !.pc = "orphan_claim"] \in Pass
  BY Zenon, <1>1, 0 \in Nat, RecoveryUpdates
<1>4. sched' \in [Workers -> Pass]
  BY <1>3, IdleType, StepType DEF OrphanRevoke
<1> QED
  BY <1>2, <1>4 DEF TypeOK, OrphanRevoke, taskVars, workerVars

LEMMA OrphanClaimType == ASSUME TypeOK, NEW s \in Workers, OrphanClaim(s) PROVE TypeOK'
<1>1. sched[s] \in Sched /\ sched[s].task \in Tasks /\ sched[s].dead \in Workers
  BY DEF TypeOK, OrphanClaim, Pass, PassOK
<1>2. lease' \in Lease /\ fence' \in Nat /\ sched' \in [Workers -> Pass]
  <2>1. CASE Live = {}
    BY <2>1, IdleType, StepType DEF TypeOK, OrphanClaim, leaseVars
  <2>2. CASE Live # {}
    <3>1. PICK w \in Live :
             /\ ClaimMr(w)
             /\ Step(s, [sched[s] EXCEPT !.pc = "transfer", !.worker = lease'.worker,
                                         !.token = lease'.token])
      BY <2>2 DEF OrphanClaim
    <3>2. w \in Workers
      BY DEF TypeOK, Live
    <3>3. /\ lease' \in Lease /\ fence' \in Nat
          /\ lease'.worker \in Workers /\ lease'.token \in Nat
      BY <3>1, <3>2, ClaimMrType
    <3>4. [sched[s] EXCEPT !.pc = "transfer", !.worker = lease'.worker,
                           !.token = lease'.token] \in Pass
      BY Zenon, <1>1, <3>3, RecoveryUpdates
    <3> QED BY <3>1, <3>3, <3>4, StepType
  <2> QED BY <2>1, <2>2
<1> QED
  BY <1>2 DEF TypeOK, OrphanClaim, PruneRegistry, taskVars

LEMMA TransferType == ASSUME TypeOK, NEW s \in Workers, Transfer(s) PROVE TypeOK'
<1>1. /\ sched[s].task \in Tasks /\ sched[s].worker \in Workers
      /\ sched[s].dead \in Workers /\ sched[s].token \in Nat
  BY DEF TypeOK, Transfer, Pass, PassOK, Sched
<1>2. sched' \in [Workers -> Pass]
  BY IdleType, StepType DEF Transfer
<1>3. owner' \in [Tasks -> Workers \cup {NoWorker}]
  BY <1>1 DEF TypeOK, Transfer
<1>4. token' \in [Tasks -> Nat]
  BY <1>1 DEF TypeOK, Transfer
<1>5. workerTasks' \in [Workers -> SUBSET Tasks]
  BY <1>1 DEF TypeOK, Transfer
<1> QED
  BY <1>2, <1>3, <1>4, <1>5 DEF TypeOK, Transfer, leaseVars

LEMMA ReconcileType == ASSUME TypeOK, NEW s \in Workers, ReconcileRepairs(s) PROVE TypeOK'
BY DEF TypeOK, ReconcileRepairs, PruneRegistry, taskVars, leaseVars

LEMMA HeartbeatType == ASSUME TypeOK, NEW w \in Workers, Heartbeat(w) PROVE TypeOK'
<1>1. execs' \subseteq Exec
  <2>1. \A e \in execs : [e EXCEPT !.pc = "begin"] \in Exec
    BY Zenon, ExecUpdates, 0 \in Nat DEF TypeOK, ExecPcs
  <2> QED BY SMT, Z3, <2>1 DEF TypeOK, Heartbeat
<1> QED
  BY SMT, Z3, <1>1 DEF TypeOK, Heartbeat, taskVars, leaseVars

LEMMA DeliverType ==
    ASSUME TypeOK, NEW w \in Workers, NEW m \in inbox[w], Deliver(w, m) PROVE TypeOK'
<1>1. m[1] \in Tasks /\ m[2] \in Nat /\ token[m[1]] \in Nat
  BY SMT, Z3 DEF TypeOK
<1>2. execs' \subseteq Exec
  <2>1. [worker |-> w, task |-> m[1], id |-> m[2], token |-> token[m[1]],
         run |-> 0, began |-> FALSE, pc |-> "submit"] \in Exec
    BY <1>1 DEF Exec, ExecPcs
  <2>2. \A e \in execs : [e EXCEPT !.token = token[m[1]]] \in Exec
    BY Zenon, <1>1, ExecUpdates DEF TypeOK, ExecPcs
  <2>3. CASE owner[m[1]] = w
    <3>1. \A x \in execs' : \/ x \in execs
                            \/ \E e \in execs : x = [e EXCEPT !.token = token[m[1]]]
                            \/ x = [worker |-> w, task |-> m[1], id |-> m[2],
                                    token |-> token[m[1]], run |-> 0, began |-> FALSE,
                                    pc |-> "submit"]
      BY SMT, Z3, <2>3 DEF Deliver
    <3> QED BY Zenon, <3>1, <2>1, <2>2 DEF TypeOK
  <2>4. CASE owner[m[1]] # w
    BY <2>4 DEF TypeOK, Deliver
  <2> QED BY <2>3, <2>4
<1>3. inbox' \in [Workers -> SUBSET (Tasks \X Nat)] /\ sess' \in [Workers -> Nat]
  BY SMT, Z3, <1>1 DEF TypeOK, Deliver
<1> QED
  BY <1>2, <1>3 DEF TypeOK, Deliver, taskVars, leaseVars

LEMMA RunType == ASSUME TypeOK, NEW e \in execs, Run(e) PROVE TypeOK'
<1>1. [e EXCEPT !.pc = "begin"] \in Exec
  BY Zenon, ExecUpdates, 0 \in Nat DEF TypeOK, ExecPcs
<1>2. execs' \subseteq Exec
  BY <1>1, SetType DEF Run
<1> QED
  BY <1>2 DEF TypeOK, Run, taskVars, leaseVars

LEMMA WorkFailsType ==
    ASSUME TypeOK, NEW e \in execs, NEW pc \in {"except", "mark"}, WorkFails(e, pc)
    PROVE  TypeOK'
<1>1. [e EXCEPT !.pc = pc] \in Exec
  BY Zenon, ExecUpdates, 0 \in Nat DEF TypeOK, ExecPcs
<1>2. execs' \subseteq Exec
  BY <1>1, SetType DEF WorkFails
<1> QED
  BY <1>2 DEF TypeOK, WorkFails, taskVars, leaseVars

LEMMA BeginType == ASSUME TypeOK, NEW e \in execs, Begin(e) PROVE TypeOK'
<1>1. status' \in [Tasks -> Statuses]
  BY TransitionType DEF Begin, Statuses, Terminal
<1>2. execs' \subseteq Exec
  <2>1. e \in Exec /\ attempt[e.task] \in Nat
    BY DEF TypeOK, Exec
  <2>2. /\ [e EXCEPT !.pc = "except"] \in Exec
        /\ [e EXCEPT !.pc = "mark"] \in Exec
        /\ [e EXCEPT !.pc = "running", !.began = TRUE, !.run = attempt[e.task]] \in Exec
    BY Zenon, <2>1, ExecUpdates DEF ExecPcs
  <2>3. \/ Set(e, [e EXCEPT !.pc = "except"])
        \/ Set(e, [e EXCEPT !.pc = "mark"])
        \/ Set(e, [e EXCEPT !.pc = "running", !.began = TRUE, !.run = attempt[e.task]])
    BY DEF Begin
  <2> QED BY <2>2, <2>3, SetType
<1> QED
  BY <1>1, <1>2 DEF TypeOK, Begin, leaseVars

LEMMA PublishType == ASSUME TypeOK, NEW e \in execs, Publish(e) PROVE TypeOK'
<1>1. status' \in [Tasks -> Statuses]
  BY TransitionType DEF Publish, Statuses, Terminal
<1>2. execs' \subseteq Exec
  <2>1. [e EXCEPT !.pc = "mark"] \in Exec /\ [e EXCEPT !.pc = "publishing"] \in Exec
    BY Zenon, ExecUpdates, 0 \in Nat DEF TypeOK, ExecPcs
  <2> QED BY <2>1, SetType DEF Publish
<1> QED
  BY <1>1, <1>2 DEF TypeOK, Publish, leaseVars

LEMMA CompleteType == ASSUME TypeOK, NEW e \in execs, Complete(e) PROVE TypeOK'
<1>1. status' \in [Tasks -> Statuses]
  BY TransitionType DEF Complete, Statuses, Terminal
<1>2. execs' \subseteq Exec
  <2>1. [e EXCEPT !.pc = "handled"] \in Exec /\ [e EXCEPT !.pc = "mark"] \in Exec
    BY Zenon, ExecUpdates, 0 \in Nat DEF TypeOK, ExecPcs
  <2> QED BY <2>1, SetType DEF Complete
<1> QED
  BY <1>1, <1>2 DEF TypeOK, Complete, leaseVars

LEMMA ExceptFailType == ASSUME TypeOK, NEW e \in execs, ExceptFail(e) PROVE TypeOK'
<1>1. status' \in [Tasks -> Statuses]
  BY TransitionType DEF ExceptFail, Statuses, Terminal
<1>2. execs' \subseteq Exec
  <2>1. [e EXCEPT !.pc = "mark"] \in Exec
    BY Zenon, ExecUpdates, 0 \in Nat DEF TypeOK, ExecPcs
  <2> QED BY <2>1, SetType DEF ExceptFail
<1> QED
  BY <1>1, <1>2 DEF TypeOK, ExceptFail, leaseVars

LEMMA MarkFailedType == ASSUME TypeOK, NEW e \in execs, MarkFailed(e) PROVE TypeOK'
<1>1. status' \in [Tasks -> Statuses]
  BY TransitionType DEF MarkFailed, Statuses, Terminal
<1>2. execs' \subseteq Exec
  <2>1. [e EXCEPT !.pc = "unhandled"] \in Exec
    BY Zenon, ExecUpdates, 0 \in Nat DEF TypeOK, ExecPcs
  <2> QED BY <2>1, SetType DEF MarkFailed
<1> QED
  BY <1>1, <1>2 DEF TypeOK, MarkFailed, leaseVars

LEMMA FinishDeliveryType == ASSUME TypeOK, NEW e \in execs, FinishDelivery(e) PROVE TypeOK'
BY Zenon DEF TypeOK, FinishDelivery, taskVars, leaseVars, AcksDelivery

LEMMA CrashType == ASSUME TypeOK, NEW w \in Workers, Crash(w) PROVE TypeOK'
<1>1. sched' \in [Workers -> Pass]
  BY IdleType, StepType DEF Crash
<1>2. up' \in [Workers -> BOOLEAN] /\ sess' \in [Workers -> Nat]
  BY DEF TypeOK, Crash
<1>3. execs' \subseteq Exec /\ crashes' \in Nat
  BY SMT, Z3 DEF TypeOK, Crash
<1> QED
  BY <1>1, <1>2, <1>3 DEF TypeOK, Crash, taskVars, leaseVars

LEMMA FaultsType ==
    ASSUME TypeOK, NEW w \in Workers, Restart(w) \/ HeartbeatLapse(w)
    PROVE  TypeOK'
<1>1. CASE Restart(w)
  BY <1>1 DEF TypeOK, Restart, taskVars, leaseVars
<1>2. CASE HeartbeatLapse(w)
  BY <1>2 DEF TypeOK, HeartbeatLapse, taskVars, leaseVars
<1> QED BY <1>1, <1>2

LEMMA LeaseExpireType == ASSUME TypeOK, LeaseExpire PROVE TypeOK'
BY DEF TypeOK, LeaseExpire, taskVars, workerVars, Lease

LEMMA InitType == Init => TypeOK
<1> SUFFICES ASSUME Init PROVE TypeOK
  OBVIOUS
<1>1. sched \in [Workers -> Pass]
  BY IdleType DEF Init
<1> QED
  BY <1>1 DEF Init, TypeOK, Statuses, Lease

LEMMA SchedulerNextType == ASSUME TypeOK, NEW s \in Workers, SchedulerNext(s) PROVE TypeOK'
<1>1. registry \subseteq Workers /\ \A w \in Workers : workerTasks[w] \subseteq Tasks
  BY DEF TypeOK
<1> QED
  BY <1>1, ReadIngressType, SelectType, ClaimType, AssignType, AckType, RecoverReadType,
     RecoverType, RevokeType, OrphanRevokeType, OrphanClaimType, TransferType, ReconcileType
     DEF SchedulerNext

LEMMA DeliveryNextType == ASSUME TypeOK, NEW e \in execs, DeliveryNext(e) PROVE TypeOK'
BY RunType, BeginType, PublishType, CompleteType, ExceptFailType, MarkFailedType,
   FinishDeliveryType, WorkFailsType DEF DeliveryNext

LEMMA StutterType == ASSUME TypeOK, UNCHANGED vars PROVE TypeOK'
BY DEF TypeOK, vars, taskVars, leaseVars, workerVars

LEMMA NextType == TypeOK /\ [Next]_vars => TypeOK'
<1> SUFFICES ASSUME TypeOK, [Next]_vars PROVE TypeOK'
  OBVIOUS
<1>1. Schedulers \subseteq Workers
  BY RuntimeConstants
<1> QED
  BY <1>1, EnqueueType, SchedulerNextType, DeliveryNextType, HeartbeatType, DeliverType,
     CrashType, FaultsType, LeaseExpireType, StutterType DEF Next

\* Every reachable state of the runtime is well typed, whatever faults happen.
THEOREM TypeCorrect == Spec => []TypeOK
BY InitType, NextType, PTL DEF Spec

-----------------------------------------------------------------------------
(* The refinement of TaskService *)

serviceVars == <<Service!lease, Service!tasks>>

\* The states of the service.
LEMMA ServiceInit == Init => Service!Init
BY DEF Init, Service!Init

\* A step that leaves lease and tasks alone is no step of the service.
LEMMA NoServiceStep ==
    ASSUME UNCHANGED <<status, attempt, lease, fence>> PROVE UNCHANGED serviceVars
BY DEF serviceVars, Service!lease, Service!tasks

\* CLAIM_MR grants, or does nothing.
LEMMA ClaimMrServes ==
    ASSUME TypeOK, NEW w \in Workers, ClaimMr(w), UNCHANGED <<status, attempt>>
    PROVE  [Service!Next]_serviceVars
<1>1. CASE lease # NoLease
  BY <1>1, NoServiceStep DEF ClaimMr, leaseVars
<1>2. CASE lease = NoLease
  <2>1. lease' # NoLease
    BY SMT, Z3, <1>2 DEF ClaimMr, NoLease, TypeOK
  <2>2. Service!Grant(w)
    BY <1>2, <2>1 DEF Service!Grant, Service!tasks, ClaimMr
  <2> QED BY <2>2 DEF Service!Next
<1> QED BY <1>1, <1>2

\* A lease that is revoked, released or expires is dropped.
LEMMA LeaseLossServes ==
    ASSUME lease' \in {lease, NoLease}, fence' = fence, UNCHANGED <<status, attempt>>
    PROVE  [Service!Next]_serviceVars
<1>1. CASE lease' = lease
  BY <1>1, NoServiceStep
<1>2. CASE lease' = NoLease
  BY <1>2 DEF Service!Drop, Service!Next, Service!tasks
<1> QED BY <1>1, <1>2

\* A fenced transition along one of the moves advances its task.
LEMMA TransitionServes ==
    ASSUME TypeOK, NEW e \in execs, NEW expected, NEW target,
           Transition(e, expected, target),
           \A x \in expected : <<x, target>> \in Service!Moves,
           target \in {"assigned", "running", "publishing", "completed", "failed"},
           UNCHANGED <<attempt, leaseVars>>
    PROVE  [Service!Next]_serviceVars
<1>1. CASE ~(Matches(e, expected) /\ Fenced(e))
  BY <1>1, NoServiceStep DEF Transition, leaseVars
<1>2. CASE Matches(e, expected) /\ Fenced(e)
  <2>1. e.task \in Tasks /\ e.worker \in Workers
    BY DEF TypeOK, Exec
  <2>2. lease # NoLease
    BY <1>2, <2>1, RuntimeConstants DEF Fenced, LeaseOf, NoLease
  <2>3. /\ <<status[e.task], target>> \in Service!Moves
        /\ status' = [status EXCEPT ![e.task] = target]
    BY <1>2 DEF Matches, Transition
  <2>4. Service!Advance(e.task)
    BY Zenon, <2>2, <2>3 DEF Service!Advance, Service!lease, leaseVars
  <2> QED BY <2>1, <2>4 DEF Service!Next
<1> QED BY <1>1, <1>2

LEMMA AssignServes ==
    ASSUME TypeOK, NEW s \in Workers, Assign(s) PROVE [Service!Next]_serviceVars
<1>1. CASE UNCHANGED status
  BY <1>1, NoServiceStep DEF Assign, leaseVars, AcksIngress
<1>2. CASE ~UNCHANGED status
  <2> DEFINE t == sched[s].task
  <2>1. t \in Tasks /\ sched[s].worker \in Workers
    BY DEF TypeOK, Pass, PassOK, Assign, AcksIngress
  <2>2. /\ status[t] = "queued"
        /\ lease = [worker |-> sched[s].worker, token |-> sched[s].token]
        /\ status' = [status EXCEPT ![t] = "assigned"]
        /\ UNCHANGED <<attempt, lease, fence>>
    BY <1>2 DEF Assign, leaseVars, AcksIngress
  <2>3. lease # NoLease
    BY <2>1, <2>2, RuntimeConstants DEF NoLease
  <2>4. Service!Advance(t)
    BY <2>2, <2>3 DEF Service!Advance, Service!Moves, Service!lease
  <2> QED BY <2>1, <2>4 DEF Service!Next
<1> QED BY <1>1, <1>2

LEMMA RecoverServes ==
    ASSUME TypeOK, NEW s \in Workers, Recover(s) PROVE [Service!Next]_serviceVars
<1> DEFINE t == sched[s].task
           lost == owner[t] = sched[s].dead /\ status[t] \in {"assigned", "running"}
<1>1. t \in Tasks /\ attempt[t] \in Nat /\ RetryLimit \in Nat
  BY RuntimeConstants DEF TypeOK, Pass, PassOK, Recover, CanRetry, Recoverable, XAdd
<1>2. CASE ~lost
  BY <1>2, NoServiceStep DEF Recover, leaseVars, CanRetry, Recoverable, XAdd
<1>3. CASE lost
  <2>1. /\ attempt' = [attempt EXCEPT ![t] = @ + 1]
        /\ status' = [status EXCEPT ![t] = IF attempt[t] + 1 <= RetryLimit
                                           THEN "queued" ELSE "failed"]
        /\ UNCHANGED <<lease, fence>>
    BY <1>3 DEF Recover, leaseVars, CanRetry, Recoverable, XAdd
  <2>2. attempt[t] + 1 <= RetryLimit <=> attempt[t] < RetryLimit
    BY SMT, Z3, <1>1
  <2>3. status' = [status EXCEPT ![t] = IF attempt[t] < RetryLimit THEN "queued" ELSE "failed"]
    BY Zenon, <2>1, <2>2
  <2> HIDE DEF t
  <2>4. Service!Retake(t)
    BY <1>3, <2>1, <2>3, Zenon DEF Service!Retake, Service!lease
  <2> QED BY <1>1, <2>4 DEF Service!Next
<1> QED BY <1>2, <1>3

LEMMA SchedulerServes ==
    ASSUME TypeOK, NEW s \in Workers, SchedulerNext(s) PROVE [Service!Next]_serviceVars
<1>1. CASE Claim(s)
  <2>1. sched[s].worker \in Workers
    BY <1>1 DEF TypeOK, Pass, PassOK, Claim
  <2> QED BY <1>1, <2>1, ClaimMrServes DEF Claim, taskVars
<1>2. CASE OrphanClaim(s)
  <2>1. Live \subseteq Workers
    BY DEF Live, TypeOK
  <2> QED BY <1>2, <2>1, ClaimMrServes, NoServiceStep DEF OrphanClaim, taskVars, leaseVars
<1>3. CASE Revoke(s) \/ OrphanRevoke(s)
  BY <1>3, LeaseLossServes DEF Revoke, OrphanRevoke, RevokeMr, taskVars
<1>4. CASE \/ \E m \in ingress : ReadIngress(s, m)
           \/ Select(s) \/ Ack(s) \/ Transfer(s) \/ ReconcileRepairs(s)
           \/ \E w \in registry : \E t \in workerTasks[w] : RecoverRead(s, w, t)
  <2>1. UNCHANGED <<status, attempt, lease, fence>>
    BY Zenon, <1>4
    DEF ReadIngress, Select, Ack, Transfer, ReconcileRepairs, RecoverRead, taskVars, leaseVars
  <2> QED BY <2>1, NoServiceStep
<1> QED
  BY <1>1, <1>2, <1>3, <1>4, AssignServes, RecoverServes DEF SchedulerNext

LEMMA DeliveryServes ==
    ASSUME TypeOK, NEW e \in execs, DeliveryNext(e) PROVE [Service!Next]_serviceVars
<1>1. CASE Begin(e)
  BY SMT, Z3, <1>1, TransitionServes DEF Begin, Service!Moves
<1>2. CASE Publish(e)
  BY SMT, Z3, <1>2, TransitionServes DEF Publish, Service!Moves
<1>3. CASE Complete(e)
  BY SMT, Z3, <1>3, TransitionServes DEF Complete, Service!Moves
<1>4. CASE ExceptFail(e)
  BY SMT, Z3, <1>4, TransitionServes DEF ExceptFail, Service!Moves, Service!Active
<1>5. CASE MarkFailed(e)
  BY SMT, Z3, <1>5, TransitionServes DEF MarkFailed, Service!Moves, Service!Active
<1>6. CASE Run(e) \/ FinishDelivery(e) \/ \E pc \in {"except", "mark"} : WorkFails(e, pc)
  BY <1>6, NoServiceStep DEF Run, FinishDelivery, WorkFails, taskVars, leaseVars, AcksDelivery
<1> QED
  BY <1>1, <1>2, <1>3, <1>4, <1>5, <1>6 DEF DeliveryNext

LEMMA NextServes == ASSUME TypeOK, [Next]_vars PROVE [Service!Next]_serviceVars
<1>1. ASSUME NEW t \in Tasks, Enqueue(t) PROVE [Service!Next]_serviceVars
  <2>1. Service!Admit(t)
    BY <1>1 DEF Enqueue, Service!Admit, Service!lease, leaseVars, XAdd
  <2> QED BY <2>1 DEF Service!Next
<1>2. CASE LeaseExpire
  BY <1>2, LeaseLossServes DEF LeaseExpire, taskVars
<1>3. ASSUME NEW w \in Workers,
             \/ Heartbeat(w) \/ Crash(w) \/ Restart(w) \/ HeartbeatLapse(w)
             \/ \E m \in inbox[w] : Deliver(w, m)
      PROVE  [Service!Next]_serviceVars
  <2>1. UNCHANGED <<status, attempt, lease, fence>>
    BY <1>3 DEF Heartbeat, Crash, Restart, HeartbeatLapse, Deliver, taskVars, leaseVars
  <2> QED BY <2>1, NoServiceStep
<1>4. CASE UNCHANGED vars
  BY <1>4, NoServiceStep DEF vars, taskVars, leaseVars
<1>5. ASSUME NEW s \in Schedulers, SchedulerNext(s) PROVE [Service!Next]_serviceVars
  BY <1>5, SchedulerServes, RuntimeConstants
<1> QED
  BY <1>1, <1>2, <1>3, <1>4, <1>5, DeliveryServes DEF Next

\* The runtime implements TaskService.
THEOREM Implements == Spec => ImplementsService
<1>1. TypeOK /\ [Next]_vars => [Service!Next]_<<Service!lease, Service!tasks>>
  BY NextServes DEF serviceVars
<1> QED
  BY <1>1, ServiceInit, TypeCorrect, PTL DEF Spec, ImplementsService, Service!Spec

-----------------------------------------------------------------------------
(* The retry budget, which is a matter of the service alone *)

LEMMA ServiceKeepsBudget ==
    ASSUME TypeOK, RetryBudget, [Service!Next]_serviceVars PROVE RetryBudget'
<1>1. RetryLimit \in Nat /\ attempt \in [Tasks -> Nat] /\ status \in [Tasks -> Statuses]
  BY RuntimeConstants DEF TypeOK
<1>2. CASE UNCHANGED <<status, attempt>>
  BY <1>2 DEF RetryBudget
<1>3. ASSUME NEW t \in Tasks, Service!Admit(t) \/ Service!Advance(t) PROVE RetryBudget'
  BY <1>1, <1>3
  DEF RetryBudget, Service!Admit, Service!Advance, Service!Moves, Service!Active
<1>4. ASSUME NEW t \in Tasks, Service!Retake(t) PROVE RetryBudget'
  <2>1. attempt[t] <= RetryLimit
    BY SMT, Z3, <1>1, <1>4 DEF RetryBudget, Service!Retake
  <2> QED BY SMT, Z3, <1>1, <1>4, <2>1 DEF RetryBudget, Service!Retake
<1> QED
  BY <1>2, <1>3, <1>4
  DEF Service!Next, Service!Drop, Service!Grant, Service!tasks, serviceVars

\* No task is taken away from a worker more than RetryLimit + 1 times, and one
\* that has used up its retries is failed and stays so.
THEOREM Budget == Spec => []RetryBudget
<1>1. Init => RetryBudget
  BY SMT, Z3, RuntimeConstants DEF Init, RetryBudget
<1>2. TypeOK /\ RetryBudget /\ [Next]_vars => RetryBudget'
  BY NextServes, ServiceKeepsBudget
<1> QED
  BY <1>1, <1>2, TypeCorrect, PTL DEF Spec

-----------------------------------------------------------------------------
(* A token names one worker *)

\* A pair found after a step was there before it, is the empty pair, or is
\* the lease the step has just granted.
Accounted(p) ==
    \/ p \in Claims
    \/ p.token = 0
    \/ fence' = fence + 1 /\ p = lease' /\ p.token = fence + 1

LeaseCarried == fence' \in {fence, fence + 1} /\ Accounted(lease')
TasksCarried == \A t \in Tasks : Accounted([worker |-> owner'[t], token |-> token'[t]])
SessionsCarried == \A w \in Workers : Accounted([worker |-> w, token |-> sess'[w]])
ExecsCarried == \A e \in execs' : Accounted(LeaseOf(e))
PassesCarried ==
    \A s \in Workers : sched'[s].pc \in {"assign", "transfer"} =>
        Accounted([worker |-> sched'[s].worker, token |-> sched'[s].token])

\* Where pairs live.
LEMMA ClaimsMembers ==
    /\ lease \in Claims
    /\ \A t \in Tasks : [worker |-> owner[t], token |-> token[t]] \in Claims
    /\ \A w \in Workers : [worker |-> w, token |-> sess[w]] \in Claims
    /\ \A e \in execs : LeaseOf(e) \in Claims
    /\ \A s \in Workers : sched[s].pc \in {"assign", "transfer"} =>
          [worker |-> sched[s].worker, token |-> sched[s].token] \in Claims
BY DEF Claims

LEMMA ClaimsCarried ==
    ASSUME LeaseCarried, TasksCarried, SessionsCarried, ExecsCarried, PassesCarried
    PROVE  \A p \in Claims' : Accounted(p)
<1> TAKE p \in Claims'
<1>1. CASE p = lease'
  BY <1>1 DEF LeaseCarried
<1>2. CASE \E t \in Tasks : p = [worker |-> owner'[t], token |-> token'[t]]
  BY <1>2 DEF TasksCarried
<1>3. CASE \E w \in Workers : p = [worker |-> w, token |-> sess'[w]]
  BY <1>3 DEF SessionsCarried
<1>4. CASE \E e \in execs' : p = LeaseOf(e)
  BY <1>4 DEF ExecsCarried
<1>5. CASE \E s \in Workers : /\ sched'[s].pc \in {"assign", "transfer"}
                              /\ p = [worker |-> sched'[s].worker, token |-> sched'[s].token]
  BY <1>5 DEF PassesCarried
<1> QED
  BY <1>1, <1>2, <1>3, <1>4, <1>5 DEF Claims, LeaseOf

LEMMA ClaimsTyped == ASSUME TypeOK PROVE \A p \in Claims : p.token \in Nat
BY SMT, Z3 DEF TypeOK, Claims, Lease, NoLease, LeaseOf, Exec, Pass, Sched

\* If every pair is accounted for, the invariant is preserved.
LEMMA AccountedSuffices ==
    ASSUME TypeOK, TypeOK', TokenNamesOneWorker, fence' \in {fence, fence + 1},
           \A p \in Claims' : Accounted(p)
    PROVE  TokenNamesOneWorker'
<1>1. fence \in Nat /\ fence' \in Nat
  BY DEF TypeOK
<1>2. /\ \A p \in Claims : p.token \in Nat /\ p.token <= fence
      /\ \A p, q \in Claims : p.token = q.token /\ p.token # 0 => p.worker = q.worker
  BY ClaimsTyped DEF TokenNamesOneWorker
<1>3. \A p \in Claims' : p.token <= fence'
  BY SMT, Z3, <1>1, <1>2 DEF Accounted
<1>4. \A p, q \in Claims' : p.token = q.token /\ p.token # 0 => p.worker = q.worker
  <2> TAKE p, q \in Claims'
  <2> HAVE p.token = q.token /\ p.token # 0
  <2>1. CASE p \in Claims /\ q \in Claims
    BY <2>1, <1>2
  <2>2. CASE p = lease' /\ q = lease'
    BY <2>2
  <2>3. CASE p \in Claims /\ q = lease' /\ q.token = fence + 1
    BY SMT, Z3, <2>3, <1>1, <1>2
  <2>4. CASE q \in Claims /\ p = lease' /\ p.token = fence + 1
    BY SMT, Z3, <2>4, <1>1, <1>2
  <2> QED BY <2>1, <2>2, <2>3, <2>4 DEF Accounted
<1> QED
  BY <1>3, <1>4 DEF TokenNamesOneWorker

-----------------------------------------------------------------------------
(* What a step leaves alone is carried over. *)

LEMMA LeaseKept == ASSUME TypeOK, UNCHANGED leaseVars PROVE LeaseCarried
BY ClaimsMembers DEF LeaseCarried, Accounted, leaseVars, TypeOK

LEMMA LeaseClaimed ==
    ASSUME TypeOK, NEW w \in Workers, ClaimMr(w) PROVE LeaseCarried
BY SMT, Z3, ClaimsMembers DEF LeaseCarried, Accounted, ClaimMr, leaseVars, TypeOK

LEMMA LeaseDropped ==
    ASSUME TypeOK, lease' \in {lease, NoLease}, fence' = fence PROVE LeaseCarried
BY SMT, Z3, ClaimsMembers DEF LeaseCarried, Accounted, NoLease, TypeOK

LEMMA TasksKept == ASSUME UNCHANGED <<owner, token>> PROVE TasksCarried
BY ClaimsMembers DEF TasksCarried, Accounted

LEMMA SessionsKept == ASSUME UNCHANGED sess PROVE SessionsCarried
BY ClaimsMembers DEF SessionsCarried, Accounted

LEMMA ExecsKept ==
    ASSUME \A e \in execs' : \E f \in execs : LeaseOf(e) = LeaseOf(f) PROVE ExecsCarried
BY ClaimsMembers DEF ExecsCarried, Accounted

LEMMA PassesKept == ASSUME UNCHANGED sched PROVE PassesCarried
BY ClaimsMembers DEF PassesCarried, Accounted

\* One scheduler moves on, to a place without a pair or with one accounted for.
LEMMA PassMoves ==
    ASSUME TypeOK, NEW s \in Workers, NEW n, Step(s, n),
           n.pc \in {"assign", "transfer"} => Accounted([worker |-> n.worker, token |-> n.token])
    PROVE  PassesCarried
<1> SUFFICES ASSUME NEW r \in Workers, sched'[r].pc \in {"assign", "transfer"}
             PROVE  Accounted([worker |-> sched'[r].worker, token |-> sched'[r].token])
  BY DEF PassesCarried
<1>1. CASE r = s
  <2>1. sched'[r] = n
    BY <1>1 DEF Step, TypeOK
  <2> QED BY <2>1
<1>2. CASE r # s
  <2>1. sched'[r] = sched[r]
    BY <1>2 DEF Step, TypeOK
  <2> QED BY <2>1, ClaimsMembers DEF Accounted
<1> QED BY <1>1, <1>2

\* An execution moves on with the lease it has.
LEMMA SetKeepsLease ==
    ASSUME TypeOK, NEW e \in execs, NEW n, Set(e, n), LeaseOf(n) = LeaseOf(e)
    PROVE  ExecsCarried
BY ExecsKept DEF Set

-----------------------------------------------------------------------------
(* One lemma per action whose pairs may change *)

Carried ==
    LeaseCarried /\ TasksCarried /\ SessionsCarried /\ ExecsCarried /\ PassesCarried

LEMMA SelectCarries == ASSUME TypeOK, NEW s \in Workers, Select(s) PROVE Carried
<1>1. LeaseCarried /\ TasksCarried /\ SessionsCarried /\ ExecsCarried
  BY Zenon, LeaseKept, TasksKept, SessionsKept, ExecsKept DEF Select, taskVars
<1>2. sched[s] \in Sched
  BY DEF TypeOK, Pass
<1>3. CASE /\ lease # NoLease
           /\ Step(s, [sched[s] EXCEPT !.pc = "assign", !.worker = lease.worker,
                                       !.token = lease.token])
  <2> DEFINE n == [sched[s] EXCEPT !.pc = "assign", !.worker = lease.worker,
                                   !.token = lease.token]
  <2>1. [worker |-> n.worker, token |-> n.token] = lease
    BY <1>2, <1>3 DEF Sched, TypeOK, Lease
  <2>2. Accounted([worker |-> n.worker, token |-> n.token])
    BY <2>1, ClaimsMembers DEF Accounted
  <2> HIDE DEF n
  <2>3. Step(s, n)
    BY <1>3 DEF n
  <2> QED BY <1>1, <2>2, <2>3, PassMoves DEF Carried
<1>4. CASE Step(s, Idle)
  BY Zenon, <1>1, <1>4, PassMoves DEF Carried, Idle
<1>5. CASE \E w \in Live :
              Step(s, [sched[s] EXCEPT !.pc = "claim", !.worker = w, !.seen = Live])
  <2>1. PICK w \in Live :
              Step(s, [sched[s] EXCEPT !.pc = "claim", !.worker = w, !.seen = Live])
    BY Zenon, <1>5
  <2>2. [sched[s] EXCEPT !.pc = "claim", !.worker = w, !.seen = Live].pc = "claim"
    BY <1>2 DEF Sched
  <2> QED BY Zenon, <1>1, <2>1, <2>2, PassMoves DEF Carried
<1> QED BY Zenon, <1>3, <1>4, <1>5 DEF Select

LEMMA ClaimCarries == ASSUME TypeOK, NEW s \in Workers, Claim(s) PROVE Carried
<1>1. sched[s] \in Sched /\ sched[s].worker \in Workers
  BY DEF TypeOK, Pass, PassOK, Claim
<1>2. LeaseCarried /\ TasksCarried /\ SessionsCarried /\ ExecsCarried
  BY <1>1, LeaseClaimed, TasksKept, SessionsKept, ExecsKept DEF Claim, taskVars, workerVars
<1>3. CASE Step(s, Idle)
  BY Zenon, <1>2, <1>3, PassMoves DEF Carried, Idle
<1>4. CASE Step(s, [sched[s] EXCEPT !.pc = "assign", !.worker = lease'.worker,
                                     !.token = lease'.token, !.seen = {}])
  <2> DEFINE n == [sched[s] EXCEPT !.pc = "assign", !.worker = lease'.worker,
                                   !.token = lease'.token, !.seen = {}]
  <2>1. [worker |-> n.worker, token |-> n.token] = lease'
    BY SMT, Z3, <1>1, ClaimMrType DEF Claim, Sched, Lease, NoLease
  <2>2. Accounted([worker |-> n.worker, token |-> n.token])
    BY <2>1, <1>2 DEF LeaseCarried
  <2> HIDE DEF n
  <2>3. Step(s, n)
    BY <1>4 DEF n
  <2> QED BY <1>2, <2>2, <2>3, PassMoves DEF Carried
<1> QED BY <1>3, <1>4 DEF Claim

LEMMA AssignCarries == ASSUME TypeOK, NEW s \in Workers, Assign(s) PROVE Carried
<1>1. LeaseCarried /\ SessionsCarried /\ ExecsCarried
  BY LeaseKept, SessionsKept, ExecsKept DEF Assign, AcksIngress
<1>2. PassesCarried
  <2>1. [Idle EXCEPT !.pc = "ack", !.task = sched[s].task, !.id = sched[s].id].pc = "ack"
    BY DEF Idle
  <2> QED BY Zenon, <2>1, PassMoves DEF Assign, Idle, AcksIngress
<1>3. TasksCarried
  <2>1. CASE UNCHANGED <<owner, token>>
    BY <2>1, TasksKept
  <2>2. CASE /\ owner' = [owner EXCEPT ![sched[s].task] = sched[s].worker]
             /\ token' = [token EXCEPT ![sched[s].task] = sched[s].token]
    BY <2>2, ClaimsMembers DEF TasksCarried, Accounted, TypeOK, Assign, AcksIngress
  <2> QED BY <2>1, <2>2 DEF Assign, AcksIngress
<1> QED BY <1>1, <1>2, <1>3 DEF Carried

LEMMA RecoverCarries == ASSUME TypeOK, NEW s \in Workers, Recover(s) PROVE Carried
<1>1. LeaseCarried /\ SessionsCarried /\ ExecsCarried
  BY LeaseKept, SessionsKept, ExecsKept DEF Recover, CanRetry, Recoverable, XAdd
<1>2. PassesCarried
  <2>1. sched[s] \in Sched
    BY DEF TypeOK, Pass
  <2>2. /\ [sched[s] EXCEPT !.pc = "revoke"].pc = "revoke"
        /\ [sched[s] EXCEPT !.pc = "orphan"].pc = "orphan"
        /\ Idle.pc = "idle"
    BY <2>1 DEF Sched, Idle
  <2>3. \/ Step(s, Idle) \/ Step(s, [sched[s] EXCEPT !.pc = "revoke"])
        \/ Step(s, [sched[s] EXCEPT !.pc = "orphan"])
    BY DEF Recover, CanRetry, Recoverable, XAdd
  <2> QED BY Zenon, <2>2, <2>3, PassMoves
<1>3. TasksCarried
  <2>1. CASE UNCHANGED <<owner, token>>
    BY <2>1, TasksKept
  <2>2. CASE /\ owner' = [owner EXCEPT ![sched[s].task] = NoWorker]
             /\ token' = [token EXCEPT ![sched[s].task] = 0]
    BY <2>2, ClaimsMembers DEF TasksCarried, Accounted, TypeOK
  <2> QED BY <2>1, <2>2 DEF Recover, CanRetry, Recoverable, XAdd
<1> QED BY <1>1, <1>2, <1>3 DEF Carried

LEMMA OrphanRevokeCarries ==
    ASSUME TypeOK, NEW s \in Workers, OrphanRevoke(s) PROVE Carried
<1>1. LeaseCarried /\ TasksCarried /\ SessionsCarried /\ ExecsCarried
  BY LeaseDropped, TasksKept, SessionsKept, ExecsKept
  DEF OrphanRevoke, RevokeMr, taskVars, workerVars
<1>2. PassesCarried
  <2>1. sched[s] \in Sched
    BY DEF TypeOK, Pass
  <2>2. [sched[s] EXCEPT !.pc = "orphan_claim"].pc = "orphan_claim" /\ Idle.pc = "idle"
    BY <2>1 DEF Sched, Idle
  <2> QED BY Zenon, <2>2, PassMoves DEF OrphanRevoke
<1> QED BY <1>1, <1>2 DEF Carried

LEMMA OrphanClaimCarries ==
    ASSUME TypeOK, NEW s \in Workers, OrphanClaim(s) PROVE Carried
<1>1. TasksCarried /\ SessionsCarried /\ ExecsCarried
  BY TasksKept, SessionsKept, ExecsKept DEF OrphanClaim, taskVars
<1>2. CASE Live = {}
  BY Zenon, <1>1, <1>2, LeaseKept, PassMoves DEF OrphanClaim, Carried, Idle
<1>3. CASE Live # {}
  <2> DEFINE n == [sched[s] EXCEPT !.pc = "transfer", !.worker = lease'.worker,
                                   !.token = lease'.token]
  <2>1. PICK w \in Live : ClaimMr(w) /\ Step(s, n)
    BY <1>3 DEF OrphanClaim
  <2>2. w \in Workers /\ sched[s] \in Sched
    BY DEF Live, TypeOK, Pass
  <2>3. LeaseCarried
    BY <2>1, <2>2, LeaseClaimed
  <2>4. [worker |-> n.worker, token |-> n.token] = lease'
    BY SMT, Z3, <2>1, <2>2, ClaimMrType DEF Sched, Lease, NoLease
  <2>5. Accounted([worker |-> n.worker, token |-> n.token])
    BY <2>3, <2>4 DEF LeaseCarried
  <2> HIDE DEF n
  <2> QED BY SMT, Z3, <1>1, <2>1, <2>3, <2>5, PassMoves DEF Carried
<1> QED BY <1>2, <1>3

LEMMA TransferCarries == ASSUME TypeOK, NEW s \in Workers, Transfer(s) PROVE Carried
<1>1. LeaseCarried /\ SessionsCarried /\ ExecsCarried
  BY LeaseKept, SessionsKept, ExecsKept DEF Transfer
<1>2. PassesCarried
  BY Zenon, PassMoves DEF Transfer, Idle
<1>3. TasksCarried
  <2>1. CASE UNCHANGED <<owner, token>>
    BY <2>1, TasksKept
  <2>2. CASE /\ owner' = [owner EXCEPT ![sched[s].task] = sched[s].worker]
             /\ token' = [token EXCEPT ![sched[s].task] = sched[s].token]
    BY SMT, Z3, <2>2, ClaimsMembers DEF TasksCarried, Accounted, TypeOK, Transfer
  <2> QED BY <2>1, <2>2 DEF Transfer
<1> QED BY <1>1, <1>2, <1>3 DEF Carried

LEMMA HeartbeatCarries == ASSUME TypeOK, NEW w \in Workers, Heartbeat(w) PROVE Carried
<1>1. LeaseCarried /\ TasksCarried /\ PassesCarried
  BY LeaseKept, TasksKept, PassesKept DEF Heartbeat, taskVars
<1>2. SessionsCarried
  BY ClaimsMembers DEF Heartbeat, SessionsCarried, Accounted, TypeOK
<1>3. ExecsCarried
  <2>1. \A e \in execs : LeaseOf([e EXCEPT !.pc = "begin"]) = LeaseOf(e)
    BY SMT, Z3 DEF TypeOK, Exec, LeaseOf
  <2> QED BY SMT, Z3, <2>1, ExecsKept DEF Heartbeat
<1> QED BY <1>1, <1>2, <1>3 DEF Carried

LEMMA DeliverCarries ==
    ASSUME TypeOK, NEW w \in Workers, NEW m \in inbox[w], Deliver(w, m) PROVE Carried
<1>1. LeaseCarried /\ TasksCarried /\ PassesCarried
  BY LeaseKept, TasksKept, PassesKept DEF Deliver, taskVars
<1>2. CASE UNCHANGED <<execs, sess>>
  BY <1>1, <1>2, SessionsKept, ExecsKept DEF Carried
<1>3. CASE /\ owner[m[1]] = w
           /\ execs' = {IF Waiting(e, w) THEN [e EXCEPT !.token = token[m[1]]] ELSE e :
                            e \in execs} \cup
                {[worker |-> w, task |-> m[1], id |-> m[2], token |-> token[m[1]],
                  run |-> 0, began |-> FALSE, pc |-> "submit"]}
           /\ sess' = [sess EXCEPT ![w] = token[m[1]]]
  <2>1. m[1] \in Tasks
    BY SMT, Z3 DEF TypeOK
  <2>2. [worker |-> w, token |-> token[m[1]]] \in Claims
    BY <1>3, <2>1, ClaimsMembers
  <2>3. SessionsCarried
    BY <1>3, <2>2, ClaimsMembers DEF SessionsCarried, Accounted, TypeOK
  <2>4. \A e \in execs : Waiting(e, w) =>
            LeaseOf([e EXCEPT !.token = token[m[1]]]) = [worker |-> w, token |-> token[m[1]]]
    BY DEF TypeOK, Exec, LeaseOf, Waiting
  <2>5. ExecsCarried
    <3> SUFFICES ASSUME NEW e \in execs' PROVE Accounted(LeaseOf(e))
      BY DEF ExecsCarried
    <3>1. CASE e \in {IF Waiting(f, w) THEN [f EXCEPT !.token = token[m[1]]] ELSE f :
                         f \in execs}
      <4>1. PICK f \in execs :
                e = IF Waiting(f, w) THEN [f EXCEPT !.token = token[m[1]]] ELSE f
        BY <3>1
      <4>2. CASE Waiting(f, w)
        <5>1. LeaseOf(e) = [worker |-> w, token |-> token[m[1]]]
          BY <4>1, <4>2, <2>4
        <5> QED BY <5>1, <2>2 DEF Accounted
      <4>3. CASE ~Waiting(f, w)
        BY <4>1, <4>3, ClaimsMembers DEF Accounted
      <4> QED BY <4>2, <4>3
    <3>2. CASE e = [worker |-> w, task |-> m[1], id |-> m[2], token |-> token[m[1]],
                    run |-> 0, began |-> FALSE, pc |-> "submit"]
      <4>1. LeaseOf(e) = [worker |-> w, token |-> token[m[1]]]
        BY <3>2 DEF LeaseOf
      <4> QED BY <4>1, <2>2 DEF Accounted
    <3> QED BY <1>3, <3>1, <3>2
  <2> QED BY <1>1, <2>3, <2>5 DEF Carried
<1> QED BY <1>2, <1>3 DEF Deliver

LEMMA CrashCarries == ASSUME TypeOK, NEW w \in Workers, Crash(w) PROVE Carried
<1>1. LeaseCarried /\ TasksCarried
  BY LeaseKept, TasksKept DEF Crash, taskVars
<1>2. SessionsCarried
  BY ClaimsMembers DEF Crash, SessionsCarried, Accounted, TypeOK
<1>3. ExecsCarried
  BY ExecsKept DEF Crash
<1>4. PassesCarried
  BY Zenon, PassMoves DEF Crash, Idle
<1> QED BY <1>1, <1>2, <1>3, <1>4 DEF Carried

LEMMA DeliveryCarries ==
    ASSUME TypeOK, NEW e \in execs, DeliveryNext(e) PROVE Carried
<1>1. LeaseCarried /\ TasksCarried /\ SessionsCarried /\ PassesCarried
  BY LeaseKept, TasksKept, SessionsKept, PassesKept
  DEF DeliveryNext, Run, Begin, Publish, Complete, ExceptFail, MarkFailed, FinishDelivery,
      WorkFails, taskVars, AcksDelivery
<1>2. e \in Exec
  BY DEF TypeOK
<1>3. \A pc \in ExecPcs, n \in Nat :
          /\ LeaseOf([e EXCEPT !.pc = pc]) = LeaseOf(e)
          /\ LeaseOf([e EXCEPT !.pc = pc, !.began = TRUE, !.run = n]) = LeaseOf(e)
  BY <1>2 DEF Exec, LeaseOf
<1>4. ASSUME NEW pc \in ExecPcs, Set(e, [e EXCEPT !.pc = pc]) PROVE ExecsCarried
  <2> DEFINE n == [e EXCEPT !.pc = pc]
  <2>1. LeaseOf(n) = LeaseOf(e) /\ Set(e, n)
    BY Zenon, <1>3, <1>4, 0 \in Nat
  <2> HIDE DEF n
  <2> QED BY <2>1, SetKeepsLease
<1>5. CASE Begin(e)
  <2> DEFINE n == [e EXCEPT !.pc = "running", !.began = TRUE, !.run = attempt[e.task]]
  <2>1. LeaseOf(n) = LeaseOf(e)
    <3>1. attempt[e.task] \in Nat /\ "running" \in ExecPcs
      BY <1>2 DEF TypeOK, Exec, ExecPcs
    <3> QED BY Zenon, <3>1, <1>3
  <2>2. CASE Set(e, n)
    <3> HIDE DEF n
    <3> QED BY <1>1, <2>1, <2>2, SetKeepsLease DEF Carried
  <2>3. CASE Set(e, [e EXCEPT !.pc = "except"])
    BY <1>1, <2>3, <1>4 DEF ExecPcs, Carried
  <2>4. CASE Set(e, [e EXCEPT !.pc = "mark"])
    BY <1>1, <2>4, <1>4 DEF ExecPcs, Carried
  <2> QED BY <1>5, <2>2, <2>3, <2>4 DEF Begin
<1>6. CASE \/ Run(e) \/ Publish(e) \/ Complete(e) \/ ExceptFail(e) \/ MarkFailed(e)
           \/ \E pc \in {"except", "mark"} : WorkFails(e, pc)
  <2>1. PICK pc \in ExecPcs : Set(e, [e EXCEPT !.pc = pc])
    <3>1. CASE Run(e)
      BY <3>1 DEF Run, ExecPcs
    <3>2. CASE Publish(e)
      BY <3>2, Zenon DEF Publish, ExecPcs
    <3>3. CASE Complete(e)
      BY <3>3, Zenon DEF Complete, ExecPcs
    <3>4. CASE ExceptFail(e)
      BY <3>4 DEF ExceptFail, ExecPcs
    <3>5. CASE MarkFailed(e)
      BY <3>5 DEF MarkFailed, ExecPcs
    <3>6. CASE \E pc \in {"except", "mark"} : WorkFails(e, pc)
      BY <3>6 DEF WorkFails, ExecPcs
    <3> QED BY Zenon, <1>6, <3>1, <3>2, <3>3, <3>4, <3>5, <3>6
  <2> QED BY <1>1, <2>1, <1>4 DEF Carried
<1>7. CASE FinishDelivery(e)
  BY <1>1, <1>7, ExecsKept DEF FinishDelivery, Carried, AcksDelivery
<1> QED
  BY <1>5, <1>6, <1>7 DEF DeliveryNext

\* The actions that move no pair.
LEMMA SchedulerCarries ==
    ASSUME TypeOK, NEW s \in Workers, SchedulerNext(s) PROVE Carried
<1>1. ASSUME NEW m \in ingress, ReadIngress(s, m) PROVE Carried
  <2>1. [Idle EXCEPT !.pc = IF status[m[1]] = "queued" THEN "select" ELSE "ack",
                     !.task = m[1], !.id = m[2]].pc \in {"select", "ack"}
    BY DEF Idle
  <2>2. PassesCarried
    BY Zenon, <1>1, <2>1, PassMoves DEF ReadIngress
  <2> QED
    BY <1>1, <2>2, LeaseKept, TasksKept, SessionsKept, ExecsKept
    DEF ReadIngress, Carried, taskVars, workerVars
<1>2. ASSUME NEW w \in registry, NEW t \in workerTasks[w], RecoverRead(s, w, t) PROVE Carried
  <2>1. [Idle EXCEPT !.pc = "recover", !.task = t, !.dead = w, !.token = token[t]].pc
            = "recover"
    BY DEF Idle
  <2>2. PassesCarried
    BY Zenon, <1>2, <2>1, PassMoves DEF RecoverRead
  <2> QED
    BY <1>2, <2>2, LeaseKept, TasksKept, SessionsKept, ExecsKept
    DEF RecoverRead, Carried, taskVars, workerVars
<1>3. CASE Ack(s)
  BY Zenon, <1>3, LeaseKept, TasksKept, SessionsKept, ExecsKept, PassMoves
  DEF Ack, Carried, workerVars, Idle
<1>4. CASE Revoke(s)
  BY Zenon, <1>4, LeaseDropped, TasksKept, SessionsKept, ExecsKept, PassMoves
  DEF Revoke, RevokeMr, Carried, taskVars, workerVars, Idle
<1>5. CASE ReconcileRepairs(s)
  BY <1>5, LeaseKept, TasksKept, SessionsKept, ExecsKept, PassesKept
  DEF ReconcileRepairs, Carried, taskVars
<1> QED
  BY <1>1, <1>2, <1>3, <1>4, <1>5, SelectCarries, ClaimCarries, AssignCarries, RecoverCarries,
     OrphanRevokeCarries, OrphanClaimCarries, TransferCarries
  DEF SchedulerNext

LEMMA NextCarries == ASSUME TypeOK, [Next]_vars PROVE Carried
<1>1. ASSUME NEW t \in Tasks, Enqueue(t) PROVE Carried
  BY <1>1, LeaseKept, TasksKept, SessionsKept, ExecsKept, PassesKept
  DEF Enqueue, Carried, workerVars, XAdd
<1>2. ASSUME NEW w \in Workers, Restart(w) \/ HeartbeatLapse(w) PROVE Carried
  BY <1>2, LeaseKept, TasksKept, SessionsKept, ExecsKept, PassesKept
  DEF Restart, HeartbeatLapse, Carried, taskVars
<1>3. CASE LeaseExpire
  BY <1>3, LeaseDropped, TasksKept, SessionsKept, ExecsKept, PassesKept
  DEF LeaseExpire, Carried, taskVars, workerVars
<1>4. CASE UNCHANGED vars
  BY <1>4, LeaseKept, TasksKept, SessionsKept, ExecsKept, PassesKept
  DEF vars, Carried, taskVars, workerVars
<1>5. ASSUME NEW s \in Schedulers, SchedulerNext(s) PROVE Carried
  BY <1>5, SchedulerCarries, RuntimeConstants
<1> QED
  BY <1>1, <1>2, <1>3, <1>4, <1>5, DeliveryCarries, HeartbeatCarries, DeliverCarries, CrashCarries
  DEF Next

\* A fencing token names one worker in every copy of it, whatever stalls,
\* crashes, outages and overlapping passes happen: CLAIM_MR is the only source
\* of tokens, and everything else copies a pair as a whole.
THEOREM FencingTokens == Spec => []TokenNamesOneWorker
<1>1. Init => TokenNamesOneWorker
  BY SMT, Z3 DEF Init, TokenNamesOneWorker, Claims, NoLease, Idle
<1>2. TypeOK /\ TypeOK' /\ TokenNamesOneWorker /\ [Next]_vars => TokenNamesOneWorker'
  <2> SUFFICES ASSUME TypeOK, TypeOK', TokenNamesOneWorker, [Next]_vars
               PROVE  TokenNamesOneWorker'
    OBVIOUS
  <2>1. Carried
    BY NextCarries
  <2>2. \A p \in Claims' : Accounted(p)
    BY <2>1, ClaimsCarried DEF Carried
  <2>3. fence' \in {fence, fence + 1}
    BY <2>1 DEF Carried, LeaseCarried
  <2> QED BY <2>2, <2>3, AccountedSuffices
<1> QED
  BY <1>1, <1>2, TypeCorrect, PTL DEF Spec
=============================================================================
