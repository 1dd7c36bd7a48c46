---------------------------- MODULE PipelineWait ----------------------------
(***************************************************************************)
(* The pipeline waits of one repair task: it pushes a commit, registers a  *)
(* wait for the commit's pipeline, is suspended as waiting_pipeline, and   *)
(* goes on when a terminal pipeline event is published, queued as a resume *)
(* message for its worker and claimed there.  Webhooks may be lost,        *)
(* repeated and reordered, a fallback scan asks GitLab instead, and a      *)
(* worker may crash at any point of this.                                  *)
(*                                                                         *)
(* Each Lua script is one step.  How a task is dispatched and how its      *)
(* retries are counted is the subject of TaskRuntime; here dispatch is one *)
(* step and a recovered task is queued again or failed.                    *)
(***************************************************************************)
EXTENDS Naturals, FiniteSets

CONSTANTS
    Workers,       \* worker ids; a worker process keeps its id when it restarts
    NoWorker,      \* no worker (an absent hash field)
    Pids,          \* pipelines of a commit: 1, its root, and downstream ones
    Validator,     \* the one of Pids with the required jobs
    InspectErrors, \* may reading the pipeline group from GitLab raise?
    TryLimit,      \* settings.task_retry_limit, for failed deliveries
    EventIds,      \* tells events apart that are in use at the same time
    MaxPushes,     \* bound: commits pushed in a behaviour
    MaxCrashes,    \* bound: worker process crashes in a behaviour
    MaxFence       \* bound: fencing tokens granted in a behaviour

ASSUME WaitConstants ==
    /\ NoWorker \notin Workers
    /\ 1 \in Pids /\ Pids \subseteq Nat \ {0}
    /\ Validator \in Pids
    /\ InspectErrors \in BOOLEAN
    /\ TryLimit \in Nat \ {0}
    /\ EventIds \subseteq Nat \ {0}
    /\ MaxPushes \in Nat /\ MaxCrashes \in Nat /\ MaxFence \in Nat

VARIABLES
    status,   \* task hash: status
    owner,    \* task hash: worker_id
    token,    \* task hash: fencing_token (0 when absent)
    tries,    \* task hash: delivery_attempt
    wait,     \* task hash: the pipeline_* fields
    waiters,  \* the pipeline_waiters sets that contain the task, by key
    listed,   \* is the task in the pipeline_waiting sorted set?
    cache,    \* pipeline_event: the last event published under each key
    lease,    \* mr:<id>:lease
    fence,    \* mr:<id>:fence
    inbox,    \* worker:<id>:inbox: entries not yet acked
    proc,     \* worker process: up, down (not noticed yet) or dead (noticed)
    sess,     \* token of the worker's in-memory MR session, 0 for none
    execs,    \* deliveries in progress in some worker process
    orphan,   \* the recovery pass that hands a waiting task over
    pushes,   \* commits pushed so far; a commit is its number
    pipes,    \* GitLab: the pipelines of each commit
    crashes   \* crashes so far

taskVars   == <<status, owner, token, tries>>
waitVars   == <<wait, waiters, listed, cache>>
leaseVars  == <<lease, fence>>
workerVars == <<proc, sess, crashes>>
gitlabVars == <<pushes, pipes>>
vars == <<taskVars, waitVars, leaseVars, inbox, workerVars, execs, orphan, gitlabVars>>

-----------------------------------------------------------------------------
(* State *)

Terminal == {"completed", "failed"}
Statuses == {"queued", "assigned", "running", "waiting"} \cup Terminal

Shas == 1..MaxPushes

\* A wait or a cache entry is keyed by a commit and a pipeline, or by the
\* commit alone (pipeline 0).
Keys == Shas \X (Pids \cup {0})

\* PipelineEvent: `done` for a terminal status; `id` stands for occurred_at,
\* which makes any two events differ.  Only terminal events are ever queued and
\* compared, so the others need no id.
NoEvent == [sha |-> 0, pid |-> 0, done |-> FALSE, id |-> 0]
Event == [sha : Shas, pid : Pids, done : BOOLEAN, id : EventIds \cup {0}]
MaybeEvent == Event \cup {NoEvent}

NoLease == [worker |-> NoWorker, token |-> 0]
Lease == [worker : Workers, token : Nat] \cup {NoLease}

\* pipeline_sha and pipeline_id; whether pipeline_event_key and
\* pipeline_waiter_key are there; pipeline_resume_queued.  The attempt ids are
\* left out: pipeline_resume_queued_attempt_id equals pipeline_attempt_id
\* exactly while pipeline_resume_queued is there.
Wait == [sha : Shas \cup {0}, pid : Pids \cup {0}, reg : BOOLEAN, queued : MaybeEvent]
WaitKey == <<wait.sha, wait.pid>>

\* An inbox entry: execute (no event) or resume_pipeline.  Who added it, under
\* which fencing token, stands for the stream id.
Msg == [event : MaybeEvent, token : Nat, via : {"assign", "queue", "transfer"}]

\* A delivery, with the commit and pipeline it is about to wait for.  `group`
\* is the wait_kind "pipeline_group".
ExecPcs == {"begin", "claim", "work", "inspect", "register", "suspend", "recheck",
            "fail", "handled", "unhandled"}
Exec == [worker : Workers, msg : Msg, token : Nat, event : MaybeEvent,
         sha : Shas \cup {0}, pid : Pids \cup {0}, group : BOOLEAN, pc : ExecPcs]

Orphan == [pc : {"idle", "claim", "transfer"}, old : Workers \cup {NoWorker},
           worker : Workers \cup {NoWorker}, token : Nat, event : MaybeEvent]
NoOrphan == [pc |-> "idle", old |-> NoWorker, worker |-> NoWorker, token |-> 0,
             event |-> NoEvent]

TypeOK ==
    /\ status \in Statuses
    /\ owner \in Workers \cup {NoWorker}
    /\ token \in Nat /\ tries \in 0..TryLimit
    /\ wait \in Wait
    /\ waiters \subseteq Keys
    /\ listed \in BOOLEAN
    /\ cache \in [Keys -> MaybeEvent]
    /\ lease \in Lease
    /\ fence \in Nat
    /\ inbox \in [Workers -> SUBSET Msg]
    /\ proc \in [Workers -> {"up", "down", "dead"}]
    /\ sess \in [Workers -> Nat]
    /\ execs \subseteq Exec
    /\ orphan \in Orphan
    /\ pushes \in 0..MaxPushes
    /\ pipes \in [Shas -> [Pids -> {"none", "running", "done"}]]
    /\ crashes \in Nat

\* The repair has been admitted and waits to be dispatched.
Init ==
    /\ status = "queued" /\ owner = NoWorker /\ token = 0 /\ tries = 0
    /\ wait = [sha |-> 0, pid |-> 0, reg |-> FALSE, queued |-> NoEvent]
    /\ waiters = {} /\ listed = FALSE
    /\ cache = [k \in Keys |-> NoEvent]
    /\ lease = NoLease /\ fence = 0
    /\ inbox = [w \in Workers |-> {}]
    /\ proc = [w \in Workers |-> "up"]
    /\ sess = [w \in Workers |-> 0]
    /\ execs = {} /\ orphan = NoOrphan
    /\ pushes = 0
    /\ pipes = [s \in Shas |-> [p \in Pids |-> "none"]]
    /\ crashes = 0

-----------------------------------------------------------------------------
(* Redis scripts shared by several callers *)

Held(w, n) == lease = [worker |-> w, token |-> n]
Fenced(e) == Held(e.worker, e.token)
TaskIs(w, n) == owner = w /\ token = n

\* Mutants of a definition, each a plausible slip in the code it models, stand
\* right before it; the specification uses none of them.

\* Mutant: only the worker_id field is removed, not the key.
RevokedField(w, n) == IF Held(w, n) THEN [lease EXCEPT !.worker = NoWorker] ELSE lease

\* REVOKE_MR: the lease after its revocation by the holder of token n.
Revoked(w, n) == IF Held(w, n) THEN NoLease ELSE lease

\* Queue the event as the resume message of the task's owner.
QueueResume(ev) ==
    /\ inbox' = [inbox EXCEPT ![owner] = @ \cup {[event |-> ev, token |-> token, via |-> "queue"]}]
    /\ wait' = [wait EXCEPT !.queued = ev]

CanQueue == status = "waiting" /\ owner # NoWorker /\ wait.queued = NoEvent

\* PUBLISH_PIPELINE_EVENT: cache the event under both keys; a terminal one is
\* queued for a waiting task found in either waiter set.
Publish(ev) ==
    /\ cache' = [cache EXCEPT ![<<ev.sha, 0>>] = ev, ![<<ev.sha, ev.pid>>] = ev]
    /\ IF ev.done /\ {<<ev.sha, 0>>, <<ev.sha, ev.pid>>} \cap waiters # {} /\ CanQueue
       THEN QueueResume(ev)
       ELSE UNCHANGED <<inbox, wait>>
    /\ UNCHANGED <<waiters, listed>>

\* RESUME_CACHED_PIPELINE: queue the terminal event that was published before
\* the task became waiting.
ResumeCached ==
    IF wait.reg /\ WaitKey \in waiters /\ cache[WaitKey].done /\ CanQueue
    THEN QueueResume(cache[WaitKey])
    ELSE UNCHANGED <<inbox, wait>>

\* The ids of the events somebody still holds once the entries for sha and pid
\* are overwritten, and a new event, which differs from all of them.
UsedIds(sha, pid) ==
    {cache[k].id : k \in Keys \ {<<sha, 0>>, <<sha, pid>>}}
    \cup {wait.queued.id, orphan.event.id}
    \cup UNION {{m.event.id : m \in inbox[w]} : w \in Workers}
    \cup {e.event.id : e \in execs}
NewEvents(sha, pid, done) ==
    LET free == EventIds \ UsedIds(sha, pid)
    IN  {[sha |-> sha, pid |-> pid, done |-> done, id |-> n] :
            n \in IF done THEN {m \in free : \A k \in free : m <= k} ELSE {0}}

-----------------------------------------------------------------------------
(* GitLab, its webhooks and the fallback scan *)

\* A downstream pipeline is created by a job of the running root.
StartChild(sha, pid) ==
    /\ pid # 1
    /\ pipes[sha][1] = "running" /\ pipes[sha][pid] = "none"
    /\ pipes' = [pipes EXCEPT ![sha][pid] = "running"]
    /\ UNCHANGED <<taskVars, waitVars, leaseVars, inbox, workerVars, execs, orphan, pushes>>

\* The job that creates a downstream pipeline is part of the root pipeline; with
\* a dependent trigger it also waits for it, so either may end first.
FinishPipeline(sha, pid) ==
    /\ pipes[sha][pid] = "running"
    /\ pid = 1 => \A p \in Pids : pipes[sha][p] # "none"
    /\ pipes' = [pipes EXCEPT ![sha][pid] = "done"]
    /\ UNCHANGED <<taskVars, waitVars, leaseVars, inbox, workerVars, execs, orphan, pushes>>

\* A webhook of a pipeline that has started, or ended, arrives: never, late, or
\* several times.  The handler publishes it, stamped with the time of arrival.
Webhook(sha, pid, done) ==
    /\ pipes[sha][pid] \in (IF done THEN {"done"} ELSE {"running", "done"})
    /\ \E ev \in NewEvents(sha, pid, done) : Publish(ev)
    /\ UNCHANGED <<taskVars, leaseVars, workerVars, execs, orphan, gitlabVars>>

\* Is there a process left to run the loops every worker runs?
SomeUp == \E w \in Workers : proc[w] = "up"

\* The pipeline _fetch_terminal_pipeline looks at: the one waited for, or the
\* latest one of the commit.
Created(sha) == {p \in Pids : pipes[sha][p] # "none"}
Scanned ==
    IF wait.pid # 0 THEN {wait.pid}
    ELSE {p \in Created(wait.sha) : \A q \in Created(wait.sha) : q <= p}

\* fallback_pipeline_scan of any worker: a finished pipeline is published, an
\* unfinished one deferred.  A task that does not wait is dropped from the
\* sorted set; a scan only sees entries older than pipeline_fallback_scan_seconds,
\* so not one that is just being suspended.
FallbackScan ==
    /\ SomeUp
    /\ listed
    /\ IF status # "waiting"
       THEN /\ \A e \in execs : e.pc # "suspend"
            /\ listed' = FALSE
            /\ UNCHANGED <<wait, waiters, cache, inbox>>
       ELSE \E pid \in Scanned :
            /\ pipes[wait.sha][pid] = "done"
            /\ \E ev \in NewEvents(wait.sha, pid, TRUE) : Publish(ev)
    /\ UNCHANGED <<taskVars, leaseVars, workerVars, execs, orphan, gitlabVars>>

-----------------------------------------------------------------------------
(* Deliveries: AgentWorker, its child process and the executor *)

Set(e, next) == execs' = (execs \ {e}) \cup {next}
Goto(e, pc) == Set(e, [e EXCEPT !.pc = pc])
CountFailure == tries' = IF tries < TryLimit THEN tries + 1 ELSE tries

\* read_worker_inbox and _session_for.  A delivery of a task owned by somebody
\* else is a failed one.
Deliver(w, m) ==
    /\ proc[w] = "up"
    /\ m \in inbox[w]
    /\ \A e \in execs : ~(e.worker = w /\ e.msg = m)
    /\ IF owner = w
       THEN /\ sess' = [sess EXCEPT ![w] = token]
            /\ execs' = execs \cup
                  {[worker |-> w, msg |-> m, token |-> token, event |-> m.event,
                    sha |-> 0, pid |-> 0, group |-> FALSE,
                    pc |-> IF m.event = NoEvent THEN "begin" ELSE "claim"]}
            /\ UNCHANGED <<tries, inbox>>
       ELSE /\ CountFailure
            /\ inbox' = IF status \in Terminal
                        THEN [inbox EXCEPT ![w] = @ \ {m}] ELSE inbox
            /\ UNCHANGED <<sess, execs>>
    /\ UNCHANGED <<status, owner, token, waitVars, leaseVars, proc, crashes, orphan,
                   gitlabVars>>

\* ASSIGNED -> RUNNING; any other status, or a lost lease, is an error.
Begin(e) ==
    /\ e.pc = "begin"
    /\ IF status = "assigned" /\ Fenced(e)
       THEN status' = "running" /\ Goto(e, "work")
       ELSE UNCHANGED status /\ Goto(e, "fail")
    /\ UNCHANGED <<owner, token, tries, waitVars, leaseVars, inbox, workerVars, orphan,
                   gitlabVars>>

ClaimFenced(e) == Fenced(e) /\ TaskIs(e.worker, e.token)

\* Mutant: the claim compares nothing but the commit and the fence.
CanClaimAgain(e) == ClaimFenced(e) /\ e.event.sha = wait.sha

CanClaim(e) ==
    /\ status = "waiting"
    /\ ClaimFenced(e)
    /\ e.event.sha = wait.sha
    /\ wait.queued = e.event

\* CLAIM_PIPELINE_RESUME.  DUPLICATE and STALE end the delivery quietly, a lost
\* lease is an error, and a claim ends the registration.
Claim(e) ==
    /\ e.pc = "claim"
    /\ IF CanClaim(e)
       THEN /\ status' = "running"
            /\ tries' = 0
            /\ waiters' = IF wait.reg THEN waiters \ {WaitKey} ELSE waiters
            /\ listed' = FALSE
            /\ wait' = [wait EXCEPT !.reg = FALSE, !.queued = NoEvent]
            /\ Goto(e, "inspect")
       ELSE /\ Goto(e, IF status = "waiting" /\ ~ClaimFenced(e) THEN "fail" ELSE "handled")
            /\ UNCHANGED <<status, tries, waiters, listed, wait>>
    /\ UNCHANGED <<owner, token, cache, leaseVars, inbox, workerVars, orphan, gitlabVars>>

\* PipelineCompletionSnapshot.terminal: the validation pipeline is there and
\* every pipeline of the commit has ended.
GroupTerminal(sha) ==
    /\ pipes[sha][Validator] # "none"
    /\ \A p \in Created(sha) : pipes[sha][p] = "done"

\* _wait_for_complete_pipeline_group: go on, wait for the validation pipeline
\* instead of the one of the event, or be suspended with no wait registered.
\* A pipeline that has ended is not run again here, so the second snapshot
\* agrees with the first.
Inspect(e) ==
    LET sha == e.event.sha
    IN  /\ e.pc = "inspect"
        /\ \/ /\ GroupTerminal(sha)
              /\ Goto(e, "work")
           \/ /\ ~GroupTerminal(sha)
              /\ Set(e, [e EXCEPT !.group = TRUE, !.sha = sha, !.pid = Validator,
                                  !.pc = IF /\ pipes[sha][Validator] # "none"
                                            /\ Validator # e.event.pid
                                         THEN "register" ELSE "suspend"])
           \/ /\ InspectErrors
              /\ Set(e, [e EXCEPT !.group = TRUE, !.pc = "suspend"])
        /\ UNCHANGED <<taskVars, waitVars, leaseVars, inbox, workerVars, orphan, gitlabVars>>

\* The repair pushes a commit, which starts its root pipeline, and is going to
\* wait for any pipeline of that commit.
Push(e) ==
    /\ e.pc = "work"
    /\ pushes < MaxPushes
    /\ pushes' = pushes + 1
    /\ pipes' = [pipes EXCEPT ![pushes + 1][1] = "running"]
    /\ Set(e, [e EXCEPT !.sha = pushes + 1, !.pid = 0, !.group = FALSE, !.pc = "register"])
    /\ UNCHANGED <<taskVars, waitVars, leaseVars, inbox, workerVars, orphan>>

\* RUNNING -> PUBLISHING -> COMPLETED.
Complete(e) ==
    /\ e.pc = "work"
    /\ status' = IF status = "running" /\ Fenced(e) THEN "completed" ELSE status
    /\ Goto(e, IF status = "running" /\ ~Fenced(e) THEN "fail" ELSE "handled")
    /\ UNCHANGED <<owner, token, tries, waitVars, leaseVars, inbox, workerVars, orphan,
                   gitlabVars>>

WorkFails(e) ==
    /\ e.pc \in {"work", "register", "suspend"}
    /\ Goto(e, "fail")
    /\ UNCHANGED <<taskVars, waitVars, leaseVars, inbox, workerVars, orphan, gitlabVars>>

\* Mutant: a wait for a validation pipeline is registered under the commit.
RegisterKeyOfCommit(e) == <<e.sha, 0>>

RegisterKey(e) == <<e.sha, e.pid>>

\* REGISTER_PIPELINE_WAIT, which no fence guards: a terminal event that is
\* cached already is returned and inspected at once, otherwise the task joins
\* the waiter set and forgets what was queued or claimed for its last wait.
Register(e) ==
    LET key == RegisterKey(e)
    IN  /\ e.pc = "register"
        /\ IF cache[key].done
           THEN /\ Set(e, [e EXCEPT !.event = cache[key], !.pc = "inspect"])
                /\ UNCHANGED <<wait, waiters, listed>>
           ELSE /\ wait' = [sha |-> e.sha, pid |-> e.pid, reg |-> TRUE, queued |-> NoEvent]
                /\ waiters' = waiters \cup {key}
                /\ listed' = TRUE
                /\ Goto(e, "suspend")
        /\ UNCHANGED <<taskVars, cache, leaseVars, inbox, workerVars, orphan, gitlabVars>>

\* TaskSuspended: RUNNING -> WAITING_PIPELINE.  A refusal because of the status
\* is ignored, a lost lease is an error.
Suspend(e) ==
    /\ e.pc = "suspend"
    /\ status' = IF status = "running" /\ Fenced(e) THEN "waiting" ELSE status
    /\ Goto(e, CASE status = "running" /\ ~Fenced(e) -> "fail"
                 [] e.group -> "handled"
                 [] OTHER -> "recheck")
    /\ UNCHANGED <<owner, token, tries, waitVars, leaseVars, inbox, workerVars, orphan,
                   gitlabVars>>

\* An event may have come between the registration and the suspension; only a
\* "pipeline_group" wait does not look again.
Recheck(e) ==
    /\ e.pc = "recheck"
    /\ ResumeCached
    /\ Goto(e, "handled")
    /\ UNCHANGED <<taskVars, waiters, listed, cache, leaseVars, workerVars, orphan,
                   gitlabVars>>

\* The executor's except clause and _mark_failed.
Fail(e) ==
    /\ e.pc = "fail"
    /\ status' = IF status \in {"assigned", "running"} /\ Fenced(e) THEN "failed" ELSE status
    /\ Goto(e, "unhandled")
    /\ UNCHANGED <<owner, token, tries, waitVars, leaseVars, inbox, workerVars, orphan,
                   gitlabVars>>

\* Mutant: the finally clause always acks.
AcksEveryDelivery(e) == TRUE

AcksDelivery(e) == e.pc = "handled" \/ status \in Terminal

\* The end of _run_delivery: a failure is counted, a handled delivery or one of
\* a finished task is acked.
FinishDelivery(e) ==
    /\ e.pc \in {"handled", "unhandled"}
    /\ IF e.pc = "unhandled" THEN CountFailure ELSE UNCHANGED tries
    /\ inbox' = IF AcksDelivery(e)
                THEN [inbox EXCEPT ![e.worker] = @ \ {e.msg}] ELSE inbox
    /\ execs' = execs \ {e}
    /\ UNCHANGED <<status, owner, token, waitVars, leaseVars, workerVars, orphan, gitlabVars>>

-----------------------------------------------------------------------------
(* Scheduler *)

Live == {w \in Workers : proc[w] # "dead"}

\* Dispatch to the lease's holder, if live, or to a live worker that claims it.
Dispatch(w) ==
    /\ status = "queued"
    /\ w \in Live
    /\ \/ lease.worker = w /\ UNCHANGED leaseVars
       \/ /\ lease = NoLease
          /\ fence < MaxFence
          /\ fence' = fence + 1
          /\ lease' = [worker |-> w, token |-> fence + 1]
    /\ status' = "assigned" /\ owner' = w /\ token' = lease'.token
    /\ inbox' = [inbox EXCEPT ![w] = @ \cup {[event |-> NoEvent, token |-> lease'.token, via |-> "assign"]}]
    /\ UNCHANGED <<tries, waitVars, workerVars, execs, orphan, gitlabVars>>

\* RECOVER_DEAD_TASK of a task in flight, and the revocation of its lease.
Recover ==
    /\ owner \in Workers
    /\ proc[owner] = "dead"
    /\ status \in {"assigned", "running"}
    /\ \/ status' = "queued" /\ owner' = NoWorker /\ token' = 0
       \/ status' = "failed" /\ UNCHANGED <<owner, token>>
    /\ lease' = Revoked(owner, token)
    /\ UNCHANGED <<tries, waitVars, fence, inbox, workerVars, execs, orphan, gitlabVars>>

\* _transfer_orphaned_task of a waiting task: revoke the dead owner's lease.
OrphanRevoke ==
    /\ orphan = NoOrphan
    /\ owner \in Workers
    /\ proc[owner] = "dead"
    /\ status = "waiting"
    /\ lease' = Revoked(owner, token)
    /\ lease' = NoLease
    /\ orphan' = [NoOrphan EXCEPT !.pc = "claim", !.old = owner]
    /\ UNCHANGED <<taskVars, waitVars, fence, inbox, workerVars, execs, gitlabVars>>

\* Claim the MR for a live worker (there is one: the pass runs in it), then read
\* the cached event of the wait.
OrphanClaim ==
    /\ orphan.pc = "claim"
    /\ \E w \in Live :
          /\ IF lease # NoLease THEN UNCHANGED leaseVars
             ELSE /\ fence < MaxFence
                  /\ fence' = fence + 1
                  /\ lease' = [worker |-> w, token |-> fence + 1]
          /\ orphan' = [orphan EXCEPT
                !.pc = "transfer", !.worker = lease'.worker, !.token = lease'.token,
                !.event = IF wait.sha = 0 THEN NoEvent ELSE cache[WaitKey]]
    /\ UNCHANGED <<taskVars, waitVars, inbox, workerVars, execs, gitlabVars>>

\* TRANSFER_ORPHANED_TASK: the task changes hands and the event that was read,
\* terminal or not, is sent to the new owner without being marked as queued.
Transfer ==
    LET ok == /\ owner = orphan.old /\ status = "waiting"
              /\ Held(orphan.worker, orphan.token)
    IN  /\ orphan.pc = "transfer"
        /\ owner' = IF ok THEN orphan.worker ELSE owner
        /\ token' = IF ok THEN orphan.token ELSE token
        /\ inbox' = IF ok /\ orphan.event # NoEvent
                    THEN [inbox EXCEPT ![orphan.worker] =
                            @ \cup {[event |-> orphan.event, token |-> orphan.token,
                                     via |-> "transfer"]}]
                    ELSE inbox
        /\ orphan' = NoOrphan
        /\ UNCHANGED <<status, tries, waitVars, leaseVars, workerVars, execs, gitlabVars>>

\* reconcile_repairs: a task whose deliveries keep failing is failed, if its
\* lease is still there; a waiting one is resumed from the cache; a running one
\* without a heartbeat for running_orphan_seconds is failed.
Reconcile ==
    /\ SomeUp
    /\ IF tries >= TryLimit
       THEN /\ status' = IF /\ Held(owner, token)
                            /\ status \in {"assigned", "running", "waiting"}
                         THEN "failed" ELSE status
            /\ UNCHANGED <<inbox, wait>>
       ELSE \/ /\ status = "waiting"
               /\ ResumeCached
               /\ UNCHANGED status
            \/ /\ status = "running"
               /\ owner \in Live /\ Held(owner, token)
               /\ \A e \in execs : ~TaskIs(e.worker, e.token)
               /\ status' = "failed"
               /\ UNCHANGED <<inbox, wait>>
    /\ UNCHANGED <<owner, token, tries, waiters, listed, cache, leaseVars, workerVars, execs,
                   orphan, gitlabVars>>

-----------------------------------------------------------------------------
(* Worker processes and the clock *)

\* renew_leases drops a session whose lease is lost.
RenewLeases(w) ==
    /\ proc[w] = "up"
    /\ sess[w] # 0 /\ ~Held(w, sess[w])
    /\ sess' = [sess EXCEPT ![w] = 0]
    /\ UNCHANGED <<taskVars, waitVars, leaseVars, inbox, proc, crashes, execs, orphan,
                   gitlabVars>>

\* Mutant: the session does not survive a suspension.
RenewedNever(w, n) == FALSE

\* A live worker renews the lease its MR session is bound to.
Renewed(w, n) == sess[w] = n

\* The TTL of the MR lease, much shorter than a pipeline.  It outlives what
\* takes only moments: a dispatch, a running task, a hand-over, a message in the
\* inbox of a live worker, and worker_dead_seconds.
LeaseExpire ==
    LET w == lease.worker
    IN  /\ lease # NoLease
        /\ ~Renewed(w, lease.token)
        /\ ~(TaskIs(w, lease.token) /\ status \in {"assigned", "running"})
        /\ orphan.pc # "transfer"
        /\ proc[w] # "down"
        /\ proc[w] = "up" /\ owner = w => inbox[w] = {}
        /\ lease' = NoLease
        /\ UNCHANGED <<taskVars, waitVars, fence, inbox, workerVars, execs, orphan, gitlabVars>>

\* A crash ends the deliveries of the worker; if it was the scheduler leader it
\* also ends its pass.
Crash(w) ==
    /\ proc[w] = "up"
    /\ crashes < MaxCrashes
    /\ crashes' = crashes + 1
    /\ proc' = [proc EXCEPT ![w] = "down"]
    /\ sess' = [sess EXCEPT ![w] = 0]
    /\ execs' = {e \in execs : e.worker # w}
    /\ orphan' \in IF SomeUp' THEN {orphan, NoOrphan} ELSE {NoOrphan}
    /\ UNCHANGED <<taskVars, waitVars, leaseVars, inbox, gitlabVars>>

\* The heartbeat grows older than worker_dead_seconds.
NoticeDeath(w) ==
    /\ proc[w] = "down"
    /\ proc' = [proc EXCEPT ![w] = "dead"]
    /\ UNCHANGED <<taskVars, waitVars, leaseVars, inbox, sess, crashes, execs, orphan,
                   gitlabVars>>

Restart(w) ==
    /\ proc[w] # "up"
    /\ proc' = [proc EXCEPT ![w] = "up"]
    /\ UNCHANGED <<taskVars, waitVars, leaseVars, inbox, sess, crashes, execs, orphan,
                   gitlabVars>>

-----------------------------------------------------------------------------
Progress(e) ==
    \/ Begin(e)
    \/ Claim(e)
    \/ Inspect(e)
    \/ Push(e)
    \/ Complete(e)
    \/ Register(e)
    \/ Suspend(e)
    \/ Recheck(e)
    \/ Fail(e)
    \/ FinishDelivery(e)

\* Every worker process also runs a scheduler.
Scheduler ==
    /\ SomeUp
    /\ \/ \E w \in Workers : Dispatch(w)
       \/ Recover
       \/ OrphanRevoke
       \/ OrphanClaim
       \/ Transfer

Next ==
    \/ \E sha \in Shas, pid \in Pids :
          \/ StartChild(sha, pid)
          \/ FinishPipeline(sha, pid)
          \/ \E done \in BOOLEAN : Webhook(sha, pid, done)
    \/ FallbackScan
    \/ \E w \in Workers :
          \/ \E m \in inbox[w] : Deliver(w, m)
          \/ RenewLeases(w)
          \/ Crash(w)
          \/ NoticeDeath(w)
          \/ Restart(w)
    \/ \E e \in execs : Progress(e) \/ WorkFails(e)
    \/ Scheduler
    \/ Reconcile
    \/ LeaseExpire

Spec == Init /\ [][Next]_vars

\* Fairness.  The loops of AgentWorker.run and of the scheduler restart for
\* ever, deliveries and pipelines end, time passes and crashed workers are
\* started again.  No webhook needs to arrive.
Fairness ==
    /\ \A w \in Workers :
          /\ WF_vars(\E m \in inbox[w] : Deliver(w, m))
          /\ WF_vars(\E e \in execs : e.worker = w /\ Progress(e))
          /\ WF_vars(RenewLeases(w))
          /\ WF_vars(Restart(w))
    /\ \A sha \in Shas, pid \in Pids :
          WF_vars(StartChild(sha, pid)) /\ WF_vars(FinishPipeline(sha, pid))
    /\ WF_vars(Scheduler)
    /\ WF_vars(FallbackScan)
    /\ WF_vars(Reconcile)
    /\ WF_vars(LeaseExpire)

FairSpec == Spec /\ Fairness

-----------------------------------------------------------------------------
(* Safety *)

\* One execution at a time works on the repair: however often a resume message
\* is repeated, redelivered or transferred, of the deliveries that are past
\* their claim and not yet past their suspension at most one is under the
\* current lease.
Working(e) == e.pc \in {"work", "inspect", "register", "suspend"}
OneExecution ==
    \A e, f \in execs : Working(e) /\ Working(f) /\ Fenced(e) /\ Fenced(f) => e = f

\* The event that is marked as queued keeps every other event from resuming
\* the task, so, if it is one of the commit waited for, it must still be on its
\* way: some inbox holds its message, and no delivery of that message is about
\* to be acked.
ResumeIsPending ==
    status = "waiting" /\ wait.queued # NoEvent /\ wait.queued.sha = wait.sha =>
        \E w \in Workers : \E m \in inbox[w] :
            /\ m.event = wait.queued
            /\ \A e \in execs : e.worker = w /\ e.msg = m => e.pc # "handled"

\* A task is resumed only after the pipeline it waits for has ended: its own
\* pipeline, if it waits for one, and one of its own commit otherwise.
ResumedByItsPipeline ==
    [][status = "waiting" /\ status' = "running" =>
          \E e \in execs \ execs' :
             /\ e.event.sha = wait.sha
             /\ wait.pid \in {0, e.event.pid}
             /\ pipes[wait.sha][e.event.pid] = "done"]_vars

-----------------------------------------------------------------------------
(* Liveness *)

\* As long as no worker crashes, a registered wait ends, even if every webhook
\* is lost, late or repeated: the recheck after the suspension, the
\* reconciliation and the fallback scan leave no gap.
RegisteredWaitEnds == status = "waiting" /\ wait.reg ~> status # "waiting"

\* Every wait ends, whatever happens to the worker.  README: an execution
\* released by a wait is resumed from where it was.
WaitEnds == status = "waiting" ~> status # "waiting"
=============================================================================
