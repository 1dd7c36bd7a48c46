---------------------------- MODULE TaskRuntime ----------------------------
(***************************************************************************)
(* The life of the ordinary tasks of one merge request in the Redis-backed *)
(* runtime of pr_agent/distributed: admission to the ingress stream,       *)
(* dispatch by the schedulers, execution by the workers, recovery of the   *)
(* tasks of a dead worker, and the fenced MR lease that ties them          *)
(* together.  Every Lua script of broker.py is atomic in Redis and is one  *)
(* step here; what Python does between two scripts is not.                 *)
(*                                                                         *)
(* Every worker process also runs a TaskScheduler, so the schedulers are   *)
(* the workers.  The scheduler leader key expires after ten seconds        *)
(* whether or not its holder has finished a pass, so passes of several     *)
(* schedulers may overlap and every scheduler may take a step at any time. *)
(***************************************************************************)
EXTENDS Naturals, FiniteSets

CONSTANTS
    Workers,     \* worker ids; a worker process keeps its id when it restarts
    Schedulers,  \* the workers whose schedulers get to run passes
    Tasks,       \* tasks of the one merge request, none of them a repair
    NoWorker,    \* no worker (an absent hash field)
    NoTask,      \* no task
    RetryLimit,  \* settings.task_retry_limit
    Faults,      \* which of FaultKinds may happen
    MaxCrashes,  \* bound: worker process crashes in a behaviour
    MaxFence     \* bound: fencing tokens granted in a behaviour

\* "stall": a live worker misses its heartbeats and renewals until they lapse.
\* "outage": no scheduler runs for so long that a TTL outruns the recovery
\*   pass (a dead worker's lease or hash is gone before its tasks are seen).
\* "backlog": a worker busy with worker_inbox_prefetch deliveries leaves an
\*   assigned task in its inbox for longer than mr_lease_seconds.
\* "slow_pass": a scheduler pass hangs for seconds between two Redis calls.
\* "publish_crash": a worker dies while one of its tasks is publishing.
FaultKinds == {"stall", "outage", "backlog", "slow_pass", "publish_crash"}

ASSUME RuntimeConstants ==
    /\ NoWorker \notin Workers
    /\ Schedulers \subseteq Workers
    /\ NoTask \notin Tasks
    /\ RetryLimit \in Nat
    /\ MaxCrashes \in Nat
    /\ MaxFence \in Nat
    /\ Faults \subseteq FaultKinds

VARIABLES
    status,      \* task hash: status ("none" before admission)
    owner,       \* task hash: worker_id
    token,       \* task hash: fencing_token (0 when absent)
    attempt,     \* task hash: attempt
    sent,        \* number of ingress entries added for the task so far
    ingress,     \* ingress stream: entries <<task, n>> not yet acked
    lease,       \* mr:<id>:lease
    fence,       \* mr:<id>:fence, the counter INCR'd by CLAIM_MR
    registry,    \* worker registry set
    hb,          \* worker hash: last_seen is fresh, stale, or the hash is gone
    workerTasks, \* worker:<id>:tasks
    inbox,       \* worker:<id>:inbox: entries <<task, attempt>> not yet acked
    up,          \* is the worker process running?
    sess,        \* token of the worker's in-memory MR session, 0 for none
    execs,       \* deliveries in progress in some worker process
    sched,       \* the pass each worker's scheduler is in
    crashes      \* crashes so far

taskVars   == <<status, owner, token, attempt, sent, ingress>>
leaseVars  == <<lease, fence>>
workerVars == <<registry, hb, workerTasks, inbox, up, sess, execs, crashes>>
vars == <<taskVars, leaseVars, workerVars, sched>>

-----------------------------------------------------------------------------
(* State *)

Terminal == {"completed", "failed"}
Statuses == {"none", "queued", "assigned", "running", "publishing"} \cup Terminal

NoLease == [worker |-> NoWorker, token |-> 0]
Lease   == [worker : Workers, token : Nat] \cup {NoLease}

\* One delivery being run by AgentWorker._run_delivery and the child process.
\* A delivery in "submit" waits for its turn in the MR session and will take
\* the session's lease; from "begin" on its lease is fixed.
\* `began` tells whether its own ASSIGNED -> RUNNING transition succeeded, and
\* `run` the attempt number stored in the task when it did.
ExecPcs == {"submit", "begin", "running", "publishing", "except", "mark", "handled", "unhandled"}
Exec == [worker : Workers, task : Tasks, id : Nat, token : Nat,
         run : Nat, began : BOOLEAN, pc : ExecPcs]

SchedPcs == {"idle", "select", "claim", "assign", "ack",
             "recover", "revoke", "orphan", "orphan_claim", "transfer"}
Sched == [pc : SchedPcs, task : Tasks \cup {NoTask}, id : Nat,
          dead : Workers \cup {NoWorker}, worker : Workers \cup {NoWorker},
          token : Nat, seen : SUBSET Workers]
\* A pass is about a task; it names the worker it hands the task to, or the
\* dead worker it takes it from.
PassOK(x) ==
    /\ x.pc # "idle" => x.task \in Tasks
    /\ x.pc \in {"claim", "assign", "transfer"} => x.worker \in Workers
    /\ x.pc \in {"recover", "revoke", "orphan", "orphan_claim", "transfer"}
          => x.dead \in Workers
Pass == {x \in Sched : PassOK(x)}
Idle == [pc |-> "idle", task |-> NoTask, id |-> 0, dead |-> NoWorker,
         worker |-> NoWorker, token |-> 0, seen |-> {}]

TypeOK ==
    /\ status \in [Tasks -> Statuses]
    /\ owner \in [Tasks -> Workers \cup {NoWorker}]
    /\ token \in [Tasks -> Nat]
    /\ attempt \in [Tasks -> Nat]
    /\ sent \in [Tasks -> Nat]
    /\ ingress \subseteq Tasks \X Nat
    /\ lease \in Lease
    /\ fence \in Nat
    /\ registry \subseteq Workers
    /\ hb \in [Workers -> {"fresh", "stale", "gone"}]
    /\ workerTasks \in [Workers -> SUBSET Tasks]
    /\ inbox \in [Workers -> SUBSET (Tasks \X Nat)]
    /\ up \in [Workers -> BOOLEAN]
    /\ sess \in [Workers -> Nat]
    /\ execs \subseteq Exec
    /\ sched \in [Workers -> Pass]
    /\ crashes \in Nat

Init ==
    /\ status = [t \in Tasks |-> "none"]
    /\ owner = [t \in Tasks |-> NoWorker]
    /\ token = [t \in Tasks |-> 0]
    /\ attempt = [t \in Tasks |-> 0]
    /\ sent = [t \in Tasks |-> 0]
    /\ ingress = {}
    /\ lease = NoLease
    /\ fence = 0
    /\ registry = Workers
    /\ hb = [w \in Workers |-> "fresh"]
    /\ workerTasks = [w \in Workers |-> {}]
    /\ inbox = [w \in Workers |-> {}]
    /\ up = [w \in Workers |-> TRUE]
    /\ sess = [w \in Workers |-> 0]
    /\ execs = {}
    /\ sched = [w \in Workers |-> Idle]
    /\ crashes = 0

-----------------------------------------------------------------------------
(* Redis scripts shared by several callers *)

\* Mutants of a definition, each a plausible slip in the code it models, stand
\* right before it; the specification uses none of them.

\* Mutant: the counter shares the TTL of the lease and starts again.
ClaimMrRestarted(w) ==
    IF lease # NoLease
    THEN UNCHANGED leaseVars
    ELSE /\ fence' = 1
         /\ lease' = [worker |-> w, token |-> 1]

\* CLAIM_MR: an existing lease is returned whoever holds it, otherwise the
\* counter is incremented and w becomes the holder.
ClaimMr(w) ==
    IF lease # NoLease
    THEN UNCHANGED leaseVars
    ELSE /\ fence < MaxFence
         /\ fence' = fence + 1
         /\ lease' = [worker |-> w, token |-> fence + 1]

\* Mutant: only the worker_id field is removed, not the key.
RevokeMrField(w, n) ==
    /\ lease' = IF lease = [worker |-> w, token |-> n] THEN [lease EXCEPT !.worker = NoWorker]
                ELSE lease
    /\ UNCHANGED fence

\* REVOKE_MR and RELEASE_MR: delete the lease if it still is the caller's.
RevokeMr(w, n) ==
    /\ lease' = IF lease = [worker |-> w, token |-> n] THEN NoLease ELSE lease
    /\ UNCHANGED fence

\* TRANSITION_TASK as run by the delivery e: the status is tested first, the
\* fence only when the status is one of `expected`.
LeaseOf(e) == [worker |-> e.worker, token |-> e.token]
Matches(e, expected) == status[e.task] \in expected

\* Mutant: the fencing token is compared with the task's, not with the lease's.
FencedByTask(e) == token[e.task] = e.token

Fenced(e) == lease = LeaseOf(e)
Transition(e, expected, target) ==
    status' = IF Matches(e, expected) /\ Fenced(e)
              THEN [status EXCEPT ![e.task] = target] ELSE status

\* list_live_workers: workers seen recently; a worker whose hash has expired
\* is dropped from the registry by the listing itself.
Live == {w \in registry : hb[w] = "fresh"}

\* Mutant: whoever is not live is dropped.
PruneDead == registry' = Live

PruneRegistry == registry' = {w \in registry : hb[w] # "gone"}

-----------------------------------------------------------------------------
(* Ingress *)

\* Mutant: a second entry for the same task is taken for a duplicate.
XAddOnce(t) == IF sent[t] = 0 THEN ingress \cup {<<t, 1>>} ELSE ingress

\* XADD of an entry for t.
XAdd(t) == ingress \cup {<<t, sent[t] + 1>>}

\* ENQUEUE_TASK for a command whose dedup key is new.
Enqueue(t) ==
    /\ status[t] = "none"
    /\ status' = [status EXCEPT ![t] = "queued"]
    /\ sent' = [sent EXCEPT ![t] = @ + 1]
    /\ ingress' = XAdd(t)
    /\ UNCHANGED <<owner, token, attempt, leaseVars, workerVars, sched>>

-----------------------------------------------------------------------------
(* TaskScheduler: dispatch *)

Step(s, next) == sched' = [sched EXCEPT ![s] = next]

\* read_ingress_group: a new entry, or one left unacked for a second by any
\* scheduler.  An entry of a task that is no longer queued is only acked.
ReadIngress(s, m) ==
    /\ up[s]
    /\ sched[s] = Idle
    /\ m \in ingress
    /\ Step(s, [Idle EXCEPT !.pc = IF status[m[1]] = "queued" THEN "select" ELSE "ack",
                            !.task = m[1], !.id = m[2]])
    /\ UNCHANGED <<taskVars, leaseVars, workerVars>>

\* _owner_or_least_loaded_worker up to the claim: the lease names the owner,
\* which must be live; without a lease some live worker is to claim it.
Select(s) ==
    /\ sched[s].pc = "select"
    /\ PruneRegistry
    /\ \/ /\ lease # NoLease
          /\ lease.worker \in Live
          /\ Step(s, [sched[s] EXCEPT !.pc = "assign", !.worker = lease.worker,
                                      !.token = lease.token])
       \/ /\ IF lease # NoLease THEN lease.worker \notin Live ELSE Live = {}
          /\ Step(s, Idle)
       \/ /\ lease = NoLease
          /\ \E w \in Live :
                Step(s, [sched[s] EXCEPT !.pc = "claim", !.worker = w, !.seen = Live])
    /\ UNCHANGED <<taskVars, leaseVars, hb, workerTasks, inbox, up, sess, execs, crashes>>

\* claim_mr may hand back a lease claimed meanwhile by someone else; its
\* holder must be one of the workers listed before the claim.
Claim(s) ==
    /\ sched[s].pc = "claim"
    /\ ClaimMr(sched[s].worker)
    /\ Step(s, IF lease'.worker \in sched[s].seen
               THEN [sched[s] EXCEPT !.pc = "assign", !.worker = lease'.worker,
                                     !.token = lease'.token, !.seen = {}]
               ELSE Idle)
    /\ UNCHANGED <<taskVars, workerVars>>

\* Mutant: the entry is acked whatever ASSIGN_TASK answers.
AcksAnyway(t, granted) == TRUE

\* The answers after which dispatch acks the entry.
AcksIngress(t, granted) == granted \/ status[t] # "queued"

\* ASSIGN_TASK: a task no longer queued is acked, a lost lease aborts the pass
\* and leaves the ingress entry pending.
Assign(s) ==
    LET t == sched[s].task
        w == sched[s].worker
        granted == status[t] = "queued" /\ lease = [worker |-> w, token |-> sched[s].token]
    IN  /\ sched[s].pc = "assign"
        /\ IF granted
           THEN /\ status' = [status EXCEPT ![t] = "assigned"]
                /\ owner' = [owner EXCEPT ![t] = w]
                /\ token' = [token EXCEPT ![t] = sched[s].token]
                /\ workerTasks' = [workerTasks EXCEPT ![w] = @ \cup {t}]
                /\ inbox' = [inbox EXCEPT ![w] = @ \cup {<<t, attempt[t]>>}]
           ELSE UNCHANGED <<status, owner, token, workerTasks, inbox>>
        /\ Step(s, IF AcksIngress(t, granted)
                   THEN [Idle EXCEPT !.pc = "ack", !.task = t, !.id = sched[s].id]
                   ELSE Idle)
        /\ UNCHANGED <<attempt, sent, ingress, leaseVars, registry, hb, up, sess,
                       execs, crashes>>

\* ack_ingress: XACK and XDEL.
Ack(s) ==
    /\ sched[s].pc = "ack"
    /\ ingress' = ingress \ {<<sched[s].task, sched[s].id>>}
    /\ Step(s, Idle)
    /\ UNCHANGED <<status, owner, token, attempt, sent, leaseVars, workerVars>>

-----------------------------------------------------------------------------
(* TaskScheduler: recover_dead_workers *)

\* list_dead_worker_ids and the task read that captures the fencing token.
RecoverRead(s, w, t) ==
    /\ up[s]
    /\ sched[s] = Idle
    /\ w \in registry
    /\ hb[w] # "fresh"
    /\ t \in workerTasks[w]
    /\ Step(s, [Idle EXCEPT !.pc = "recover", !.task = t, !.dead = w, !.token = token[t]])
    /\ UNCHANGED <<taskVars, leaseVars, workerVars>>

\* Mutant: the limit is tested before the attempt is counted.
CanRetryOnceMore(t) == attempt[t] <= RetryLimit

CanRetry(t) == attempt[t] + 1 <= RetryLimit

\* Mutant: a publishing task is recovered like a running one.
RecoverableInFlight == {"assigned", "running", "publishing"}

Recoverable == {"assigned", "running"}

\* RECOVER_DEAD_TASK, then the branch of recover_dead_workers on its result.
Recover(s) ==
    LET t == sched[s].task
        w == sched[s].dead
        mine == owner[t] = w
        lost == mine /\ status[t] \in Recoverable
        retry == lost /\ CanRetry(t)
    IN  /\ sched[s].pc = "recover"
        /\ status' = IF lost
                     THEN [status EXCEPT ![t] = IF retry THEN "queued" ELSE "failed"]
                     ELSE status
        /\ attempt' = IF lost THEN [attempt EXCEPT ![t] = @ + 1] ELSE attempt
        /\ owner' = IF retry THEN [owner EXCEPT ![t] = NoWorker] ELSE owner
        /\ token' = IF retry THEN [token EXCEPT ![t] = 0] ELSE token
        /\ sent' = IF retry THEN [sent EXCEPT ![t] = @ + 1] ELSE sent
        /\ ingress' = IF retry THEN XAdd(t) ELSE ingress
        /\ workerTasks' = IF ~mine \/ lost \/ status[t] \in Terminal
                          THEN [workerTasks EXCEPT ![w] = @ \ {t}] ELSE workerTasks
        /\ Step(s, CASE lost -> [sched[s] EXCEPT !.pc = "revoke"]
                     [] mine /\ status[t] = "publishing" -> [sched[s] EXCEPT !.pc = "orphan"]
                     [] OTHER -> Idle)
        /\ UNCHANGED <<leaseVars, registry, hb, inbox, up, sess, execs, crashes>>

\* Mutant: the lease of the dead worker is left to expire.
RevokeSkipped(s) ==
    /\ sched[s].pc = "revoke"
    /\ Step(s, Idle)
    /\ UNCHANGED <<taskVars, leaseVars, workerVars>>

\* revoke_mr with the token captured before the task was recovered.
Revoke(s) ==
    /\ sched[s].pc = "revoke"
    /\ RevokeMr(sched[s].dead, sched[s].token)
    /\ Step(s, Idle)
    /\ UNCHANGED <<taskVars, workerVars>>

\* _transfer_orphaned_task reads the task again and revokes its old lease;
\* unless the MR is free after that, the transfer is given up.
OrphanRevoke(s) ==
    LET t == sched[s].task
    IN  /\ sched[s].pc = "orphan"
        /\ RevokeMr(sched[s].dead, token[t])
        /\ Step(s, IF lease' = NoLease THEN [sched[s] EXCEPT !.pc = "orphan_claim"] ELSE Idle)
        /\ UNCHANGED <<taskVars, workerVars>>

OrphanClaim(s) ==
    /\ sched[s].pc = "orphan_claim"
    /\ PruneRegistry
    /\ IF Live = {}
       THEN UNCHANGED leaseVars /\ Step(s, Idle)
       ELSE \E w \in Live :
               /\ ClaimMr(w)
               /\ Step(s, [sched[s] EXCEPT !.pc = "transfer", !.worker = lease'.worker,
                                           !.token = lease'.token])
    /\ UNCHANGED <<taskVars, hb, workerTasks, inbox, up, sess, execs, crashes>>

\* TRANSFER_ORPHANED_TASK for a publishing task: the new owner gets the task
\* but no inbox message.
Transfer(s) ==
    LET t == sched[s].task
        old == sched[s].dead
        new == sched[s].worker
        ok == /\ owner[t] = old
              /\ status[t] = "publishing"
              /\ lease = [worker |-> new, token |-> sched[s].token]
    IN  /\ sched[s].pc = "transfer"
        /\ owner' = IF ok THEN [owner EXCEPT ![t] = new] ELSE owner
        /\ token' = IF ok THEN [token EXCEPT ![t] = sched[s].token] ELSE token
        /\ workerTasks' = IF ok
                          THEN [w \in Workers |->
                                  CASE w = new -> workerTasks[w] \cup {t}
                                    [] w = old /\ w # new -> workerTasks[w] \ {t}
                                    [] OTHER -> workerTasks[w]]
                          ELSE workerTasks
        /\ Step(s, Idle)
        /\ UNCHANGED <<status, attempt, sent, ingress, leaseVars, registry, hb, inbox,
                       up, sess, execs, crashes>>

\* reconcile_repairs looks after repairs only, but lists the live workers.
ReconcileRepairs(s) ==
    /\ up[s]
    /\ sched[s] = Idle
    /\ PruneRegistry
    /\ UNCHANGED <<taskVars, leaseVars, hb, workerTasks, inbox, up, sess, execs, crashes,
                   sched>>

-----------------------------------------------------------------------------
(* AgentWorker, its child processes and DistributedTaskExecutor *)

Waiting(e, w) == e.worker = w /\ e.pc = "submit"
Set(e, next) == execs' = (execs \ {e}) \cup {next}

\* The heartbeat loop renews the session's lease (a refused renewal drops the
\* session, and deliveries still waiting in it keep its last lease) and then
\* refreshes the worker hash and the registry.
Heartbeat(w) ==
    /\ up[w]
    /\ IF sess[w] = 0 \/ lease = [worker |-> w, token |-> sess[w]]
       THEN UNCHANGED <<sess, execs>>
       ELSE /\ sess' = [sess EXCEPT ![w] = 0]
            /\ execs' = {IF Waiting(e, w) THEN [e EXCEPT !.pc = "begin"] ELSE e : e \in execs}
    /\ hb' = [hb EXCEPT ![w] = "fresh"]
    /\ registry' = registry \cup {w}
    /\ UNCHANGED <<taskVars, leaseVars, workerTasks, inbox, up, crashes, sched>>

\* _consume_inbox picks up an entry that is not already active locally and
\* _session_for binds the MR session to the token stored in the task, also for
\* the deliveries already waiting in that session.  A delivery of a task now
\* owned by somebody else raises LostLeaseError: it is acked once the task is
\* terminal and otherwise read again later.
Deliver(w, m) ==
    LET t == m[1]
    IN  /\ up[w]
        /\ m \in inbox[w]
        /\ \A e \in execs : e.worker = w => <<e.task, e.id>> # m
        /\ \/ /\ owner[t] = w
              /\ execs' = {IF Waiting(e, w) THEN [e EXCEPT !.token = token[t]] ELSE e :
                            e \in execs} \cup
                    {[worker |-> w, task |-> t, id |-> m[2], token |-> token[t],
                      run |-> 0, began |-> FALSE, pc |-> "submit"]}
              /\ sess' = [sess EXCEPT ![w] = token[t]]
              /\ UNCHANGED inbox
           \/ /\ owner[t] # w
              /\ status[t] \in Terminal
              /\ inbox' = [inbox EXCEPT ![w] = @ \ {m}]
              /\ UNCHANGED <<execs, sess>>
        /\ UNCHANGED <<taskVars, leaseVars, registry, hb, workerTasks, up, crashes, sched>>

\* MrSession.run hands the session's lease to the executor.
Run(e) ==
    /\ e.pc = "submit"
    /\ Set(e, [e EXCEPT !.pc = "begin"])
    /\ UNCHANGED <<taskVars, leaseVars, registry, hb, workerTasks, inbox, up, sess,
                   crashes, sched>>

\* _execute: ASSIGNED -> RUNNING.  A wrong status is a RuntimeError, handled
\* by the executor's own except clause; a lost lease ends the child process.
Begin(e) ==
    /\ e.pc = "begin"
    /\ Transition(e, {"assigned"}, "running")
    /\ Set(e, CASE ~Matches(e, {"assigned"}) -> [e EXCEPT !.pc = "except"]
                [] Matches(e, {"assigned"}) /\ ~Fenced(e) -> [e EXCEPT !.pc = "mark"]
                [] OTHER -> [e EXCEPT !.pc = "running", !.began = TRUE,
                               !.run = attempt[e.task]])
    /\ UNCHANGED <<owner, token, attempt, sent, ingress, leaseVars, registry, hb,
                   workerTasks, inbox, up, sess, crashes, sched>>

\* The command or a call to Redis raises, or the child process dies.
WorkFails(e, pc) ==
    /\ e.pc \in {"begin", "running", "publishing"}
    /\ Set(e, [e EXCEPT !.pc = pc])
    /\ UNCHANGED <<taskVars, leaseVars, registry, hb, workerTasks, inbox, up, sess,
                   crashes, sched>>

\* RUNNING -> PUBLISHING; a refusal because of the status is ignored.
Publish(e) ==
    /\ e.pc = "running"
    /\ Transition(e, {"running"}, "publishing")
    /\ Set(e, [e EXCEPT !.pc = IF Matches(e, {"running"}) /\ ~Fenced(e)
                               THEN "mark" ELSE "publishing"])
    /\ UNCHANGED <<owner, token, attempt, sent, ingress, leaseVars, registry, hb,
                   workerTasks, inbox, up, sess, crashes, sched>>

\* record_task_result and PUBLISHING -> COMPLETED; again only a lost lease is
\* an error, so the delivery counts as handled even if nothing was written.
Complete(e) ==
    /\ e.pc = "publishing"
    /\ Transition(e, {"publishing"}, "completed")
    /\ Set(e, [e EXCEPT !.pc = IF Matches(e, {"publishing"}) /\ ~Fenced(e)
                               THEN "mark" ELSE "handled"])
    /\ UNCHANGED <<owner, token, attempt, sent, ingress, leaseVars, registry, hb,
                   workerTasks, inbox, up, sess, crashes, sched>>

\* The executor's except clause fails the task, then the child exits with 1.
ExceptFail(e) ==
    /\ e.pc = "except"
    /\ Transition(e, {"running", "publishing"}, "failed")
    /\ Set(e, [e EXCEPT !.pc = "mark"])
    /\ UNCHANGED <<owner, token, attempt, sent, ingress, leaseVars, registry, hb,
                   workerTasks, inbox, up, sess, crashes, sched>>

\* ProcessTaskExecutor._mark_failed after a non-zero exit; a lost lease is
\* swallowed.
MarkFailed(e) ==
    /\ e.pc = "mark"
    /\ Transition(e, {"assigned", "running", "publishing"}, "failed")
    /\ Set(e, [e EXCEPT !.pc = "unhandled"])
    /\ UNCHANGED <<owner, token, attempt, sent, ingress, leaseVars, registry, hb,
                   workerTasks, inbox, up, sess, crashes, sched>>

\* Mutant: the finally clause always acks.
AcksEveryDelivery(e) == TRUE

AcksDelivery(e) == e.pc = "handled" \/ status[e.task] \in Terminal

\* The finally clause of _run_delivery: the entry is acked if the delivery was
\* handled or the task is terminal; otherwise it stays pending and is retried.
FinishDelivery(e) ==
    /\ e.pc \in {"handled", "unhandled"}
    /\ inbox' = IF AcksDelivery(e)
                THEN [inbox EXCEPT ![e.worker] = @ \ {<<e.task, e.id>>}] ELSE inbox
    /\ execs' = execs \ {e}
    /\ UNCHANGED <<taskVars, leaseVars, registry, hb, workerTasks, up, sess, crashes, sched>>

-----------------------------------------------------------------------------
(* Faults and the clock *)

Crash(w) ==
    /\ up[w]
    /\ crashes < MaxCrashes
    /\ \/ "publish_crash" \in Faults
       \/ \A t \in Tasks : ~(status[t] = "publishing" /\ owner[t] = w)
    /\ crashes' = crashes + 1
    /\ up' = [up EXCEPT ![w] = FALSE]
    /\ sess' = [sess EXCEPT ![w] = 0]
    /\ execs' = {e \in execs : e.worker # w}
    /\ Step(w, Idle)
    /\ UNCHANGED <<taskVars, leaseVars, registry, hb, workerTasks, inbox>>

\* Tasks in w's care that a recovery pass still has to look at.
InCare(w) == {t \in Tasks : owner[t] = w /\ status[t] \notin Terminal}

\* A pass that has read something about w and has not acted on it yet, or has
\* recovered some but not all of its tasks.
PassOver(w) ==
    /\ "slow_pass" \notin Faults
    /\ \/ \E s \in Workers : w \in {sched[s].dead, sched[s].worker} \cup sched[s].seen
       \/ \E t \in InCare(w) : lease # [worker |-> w, token |-> token[t]]

\* The heartbeat loop is the first loop AgentWorker.run starts.
Restart(w) ==
    /\ ~up[w]
    /\ ~PassOver(w)
    /\ up' = [up EXCEPT ![w] = TRUE]
    /\ hb' = [hb EXCEPT ![w] = "fresh"]
    /\ registry' = registry \cup {w}
    /\ UNCHANGED <<taskVars, leaseVars, workerTasks, inbox, sess, execs, crashes, sched>>

\* last_seen grows older than worker_dead_seconds, then the hash expires.
HeartbeatLapse(w) ==
    /\ ~up[w] \/ "stall" \in Faults
    /\ \/ hb[w] = "fresh" /\ hb' = [hb EXCEPT ![w] = "stale"]
       \/ /\ hb[w] = "stale"
          /\ (InCare(w) = {} /\ ~PassOver(w)) \/ "outage" \in Faults
          /\ hb' = [hb EXCEPT ![w] = "gone"]
    /\ UNCHANGED <<taskVars, leaseVars, registry, workerTasks, inbox, up, sess, execs,
                   crashes, sched>>

\* The TTL of the MR lease, which the holder's session renews.  Without a
\* session it lapses, but worker_dead_seconds is shorter than mr_lease_seconds
\* an inbox is normally read at once and a scheduler assigns what it has just
\* claimed, so the tasks under the lease are recovered or picked up first.
LeaseExpire ==
    /\ lease # NoLease
    /\ \/ "stall" \in Faults
       \/ /\ sess[lease.worker] # lease.token
          /\ ~PassOver(lease.worker)
          /\ \/ \A t \in InCare(lease.worker) : token[t] # lease.token
             \/ "outage" \in Faults /\ ~up[lease.worker]
             \/ "backlog" \in Faults /\ up[lease.worker]
    /\ lease' = NoLease
    /\ UNCHANGED <<taskVars, fence, workerVars, sched>>

-----------------------------------------------------------------------------
SchedulerNext(s) ==
    \/ \E m \in ingress : ReadIngress(s, m)
    \/ Select(s)
    \/ Claim(s)
    \/ Assign(s)
    \/ Ack(s)
    \/ \E w \in registry : \E t \in workerTasks[w] : RecoverRead(s, w, t)
    \/ Recover(s)
    \/ Revoke(s)
    \/ OrphanRevoke(s)
    \/ OrphanClaim(s)
    \/ Transfer(s)
    \/ ReconcileRepairs(s)

DeliveryNext(e) ==
    \/ Run(e)
    \/ Begin(e)
    \/ Publish(e)
    \/ Complete(e)
    \/ ExceptFail(e)
    \/ MarkFailed(e)
    \/ FinishDelivery(e)
    \/ \E pc \in {"except", "mark"} : WorkFails(e, pc)

Next ==
    \/ \E t \in Tasks : Enqueue(t)
    \/ \E s \in Schedulers : SchedulerNext(s)
    \/ \E e \in execs : DeliveryNext(e)
    \/ \E w \in Workers :
          \/ Heartbeat(w)
          \/ \E m \in inbox[w] : Deliver(w, m)
          \/ Crash(w)
          \/ Restart(w)
          \/ HeartbeatLapse(w)
    \/ LeaseExpire

Spec == Init /\ [][Next]_vars

\* Fairness.  The control loops of AgentWorker.run restart for ever, a pass
\* goes through every pending entry and every task of every dead worker, time
\* passes, and a crashed worker process is started again.
Fairness ==
    /\ \A s \in Schedulers :
          /\ WF_vars(sched[s] # Idle /\ SchedulerNext(s))
          /\ \A t \in Tasks :
                /\ SF_vars(\E m \in ingress : m[1] = t /\ ReadIngress(s, m))
                /\ \A w \in Workers : SF_vars(RecoverRead(s, w, t))
    /\ \A w \in Workers :
          /\ WF_vars(Heartbeat(w))
          /\ WF_vars(Restart(w))
          /\ WF_vars(HeartbeatLapse(w))
          /\ \A t \in Tasks :
                /\ SF_vars(\E m \in inbox[w] : m[1] = t /\ Deliver(w, m))
                /\ WF_vars(\E e \in execs : e.worker = w /\ e.task = t /\ DeliveryNext(e))
    /\ WF_vars(LeaseExpire)

FairSpec == Spec /\ Fairness

-----------------------------------------------------------------------------
(* Safety *)

\* Every place that holds a (worker, fencing token) pair: the MR lease, the
\* task hashes, the in-memory sessions, the deliveries and the passes that are
\* about to hand a task over.
Claims ==
    {lease}
    \cup {[worker |-> owner[t], token |-> token[t]] : t \in Tasks}
    \cup {[worker |-> w, token |-> sess[w]] : w \in Workers}
    \cup {LeaseOf(e) : e \in execs}
    \cup {[worker |-> sched[s].worker, token |-> sched[s].token] :
             s \in {x \in Workers : sched[x].pc \in {"assign", "transfer"}}}

\* A fencing token names one worker: wherever two copies of the same token
\* survive (a task hash, a session, a running child, a half-done pass), they
\* belong to the same worker, and none is ahead of the counter CLAIM_MR
\* increments.  README: "every re-claim creates a higher generation".
TokenNamesOneWorker ==
    /\ \A p \in Claims : p.token <= fence
    /\ \A p, q \in Claims : p.token = q.token /\ p.token # 0 => p.worker = q.worker

\* A queued task cannot be forgotten: some ingress entry for it is pending that
\* no scheduler is about to ack.
QueuedIsPending ==
    \A t \in Tasks : status[t] = "queued" =>
        \E m \in ingress :
            /\ m[1] = t
            /\ \A s \in Workers : sched[s].pc = "ack" => <<sched[s].task, sched[s].id>> # m

\* An assigned task cannot be forgotten: its owner's inbox holds the delivery
\* of the current attempt, and no execution of that delivery is past the point
\* where it would be acked without having started the task.
AssignedIsPending ==
    \A t \in Tasks : status[t] = "assigned" =>
        /\ <<t, attempt[t]>> \in inbox[owner[t]]
        /\ \A e \in execs :
              e.worker = owner[t] /\ e.task = t /\ e.id = attempt[t]
                  => e.pc \notin {"running", "publishing", "handled"}

\* Every task in flight is known to the recovery pass: it is in its owner's
\* task set and its owner is still in the registry that list_dead_worker_ids
\* walks.
InFlight == {"assigned", "running", "publishing"}
InFlightIsRecoverable ==
    \A t \in Tasks : status[t] \in InFlight =>
        t \in workerTasks[owner[t]] /\ owner[t] \in registry

\* The retry budget: an attempt is counted for every recovery, and a task that
\* has used up its budget is failed and never queued again.
RetryBudget ==
    \A t \in Tasks :
        /\ attempt[t] <= RetryLimit + 1
        /\ attempt[t] > RetryLimit => status[t] = "failed"

\* Only an execution of the current attempt completes a task: one that was
\* recovered from its worker and dispatched again is never completed by the
\* execution it was taken away from.
CompletedByCurrentRun ==
    [][\A t \in Tasks : status[t] # "completed" /\ status'[t] = "completed" =>
          \E e \in execs \ execs' :
              e.task = t /\ e.pc = "publishing" /\ e.began /\ e.run = attempt[t]]_vars

\* A running task is failed only by the execution that runs it, or by the
\* recovery pass once the retries are used up; a second delivery of the same
\* message does not fail it.
FailedByOwnRun ==
    [][\A t \in Tasks :
          status[t] \in {"running", "publishing"} /\ status'[t] = "failed" =>
             \/ attempt'[t] > RetryLimit
             \/ \E e \in execs \ execs' : e.task = t /\ e.began]_vars

-----------------------------------------------------------------------------
(* What the runtime implements *)

\* The runtime implements TaskService: whatever schedulers, workers and faults
\* do, the lease and the task hashes go through the steps promised there, and
\* only under a held lease does an execution move its task.
Service == INSTANCE TaskService
    WITH held <- IF lease = NoLease THEN {} ELSE {lease}, granted <- fence
ImplementsService == Service!Spec

-----------------------------------------------------------------------------
(* Liveness *)

\* Every admitted task ends: crashes are taken over and retried until the task
\* completes or fails.
Settles == \A t \in Tasks : status[t] = "queued" ~> status[t] \in Terminal
=============================================================================
