# A TLA+ verification of mr-agent's distributed runtime

mr-agent reviews and repairs GitLab merge requests.  Webhooks and chat commands
become tasks in Redis; worker processes execute them in child processes; a
repair pushes commits, waits for the pipeline of its own commit and goes on when
the pipeline ends.  What makes this hard is not the review itself but the
runtime in `pr_agent/distributed`: several worker processes share one Redis, any
of them may crash, stall or restart, and comments, pushes and task states must
still come out as if one careful process had done everything.  This project
models that runtime.

## The parts of the system

| part | state | operations | what is hard |
|---|---|---|---|
| admission (`broker.py`) | dedup keys, task hash, ingress stream | ENQUEUE_TASK, ENQUEUE_TASK_WITH_CARD | double submission, admission while a repair is active |
| scheduler (`scheduler.py`), one in every worker | leader key, worker registry, leases | dispatch, recovery of dead workers, repair reconciliation | passes overlap (the leader key is not renewed), each is many Redis calls |
| MR lease and fence (`broker.py`) | `mr:<id>:lease`, `mr:<id>:fence` | CLAIM, RENEW, REVOKE, RELEASE | stale copies of tokens in sessions, children, hashes and passes |
| worker (`agent_worker.py`) | heartbeat hash, inbox stream, active deliveries | heartbeat, consume inbox, run delivery, drain | crash between any two steps, restart under the same id |
| MR session (`session.py`) | lease in memory, normal/exclusive counters | run, resume, renew | rebinding while deliveries wait, exclusivity kept over a pipeline wait |
| executor (`executor.py`, `process_executor.py`, `task_runner.py`) | task status | ASSIGNED, RUNNING, PUBLISHING, COMPLETED, FAILED, waiting, paused | every error path, in the child and in its parent |
| pipeline wait (`broker.py`, `runtime.py`) | event cache, waiter sets, resume fields | register, publish, resume, claim, complete, fallback scan | events before, during and after the wait; transfer to another worker |
| effects (`effects.py`) | effect hash, remote markers | claim, act, complete, reconcile | the write lies between two Redis calls |
| triage gate, auto workflow (`broker.py`, `executor.py`) | gate, cursor | pause, resume, cancel | who clears the gate when a worker is lost |
| repair manifest, rollback, report (`broker.py`, `triage/`) | manifest, rollback and report hashes | append, freeze, admit, complete | late or repeated completion, branch moved meanwhile |
| cards and notifications (`notifications.py`, `feishu/`) | card binding with revision, notification stream | save, transition, fallback | reordering, duplicates |
| repair agent (`ut_agent/`) | LangGraph state, push attempts, repair memory | plan, edit, push, verify | push interrupted and reconciled |
| tools, providers, algorithms, dashboards | none shared | sequential | unit-testable |

`PROJECT.json` lists every part, with its status, and the hazards, each at its
line.

## Modules

* **`TaskRuntime`**: the life of the ordinary tasks of one merge request:
  admission, dispatch, lease and fence, inbox, session, child process, recovery.
* **`TaskService`**: what `TaskRuntime` promises: one owner, growing tokens, the
  legal moves of a task, the retry budget.
* **`PipelineWait`**: the pipeline waits of one repair: registration, events,
  resume, hand-over to another worker, fallback scan, reconciliation.
* **`RepairGate`**: what keeps the tasks of one merge request out of each other's
  way: the gate, the pause of the review, the exclusivity of the session, the
  failure card, cancels, and the hand-over to a rollback.
* **`RepairPush`**: what one repair writes to the outside, and how it is undone:
  effect ledger, push, commit manifest, report comment, rollback, on a branch to
  which people push too.
* **`MCTaskRuntime`**, **`MCPipelineWait`**, **`MCRepairGate`**, **`MCRepairPush`**:
  symmetry and, for the last two, the view for TLC.
* Theorems: **`TaskRuntime_proofs`** (types, fencing tokens, refinement),
  **`TaskRuntime_delivery`** (no task is forgotten); **`PipelineWait_proofs`**;
  **`RepairGate_proofs`** (the gate, and the types), **`RepairGate_session`** (what the
  steps keep of the deliveries and the session) and **`RepairGate_review`** (the same
  for the review, and the theorems); **`RepairPush_steps`** (what each step of an
  execution keeps) and **`RepairPush_proofs`**.

The modules meet in the task hash and the lease.  `TaskRuntime` shows that a task
keeps its messages and that a lost lease refuses writes; the others take
dispatch and recovery as one step each.  `PipelineWait` is the wait that
`RepairGate` abstracts to one event; `RepairPush` is the work that `RepairGate`
abstracts to a count of manifest entries, and the rollback it admits.

### How `TaskRuntime` corresponds to the code

A Lua script is atomic in Redis, so it is one action; what Python does between
two scripts is another.  A dispatch is `ReadIngress`, `Select`, `Claim`,
`Assign`, `Ack`; a recovery is `RecoverRead`, `Recover`, then either `Revoke` or
`OrphanRevoke`, `OrphanClaim`, `Transfer`.  `sched[w]` holds the local variables
of `w`'s pass (what it read and may be stale).  A delivery (`execs`) goes
`Deliver`, `Run`, `Begin`, `Publish`, `Complete`, `FinishDelivery`, or through
`ExceptFail` (the executor's except clause, in the child) and `MarkFailed` (the
parent, after the child has exited).  `WorkFails` is a command, a Redis call or
the child failing.  A session is the token it is bound to.

Merge requests are independent (every key names the MR), so one is modelled.
Payloads, command texts, timestamps and lifecycle records are left out.  A
stream entry is its task and a number.  An inbox entry carries the attempt it
was added for: the real entry has only a stream id, and within one attempt a
task is assigned once.

Time is in the guards of `HeartbeatLapse`, `LeaseExpire` and `Restart`.  With no
fault enabled they say what the default settings give: `worker_dead_seconds`
(20) is shorter than `mr_lease_seconds` (30) and than the worker hash's TTL
(twice 20), an inbox is read at once, and a pass is quick.  `config.py` does
not enforce that first ordering (it compares both with the heartbeat
only).  `Faults` switches these assumptions off one by one: `stall`, `outage`,
`backlog`, `slow_pass`; `publish_crash` allows a crash while a task publishes.

Not modelled in `TaskRuntime`: the `degraded` flag, which makes dispatch avoid a
live worker for a few heartbeats; tasks without a merge request; the
auto-workflow retry limit, which is another value of `RetryLimit`; a child that
survives the SIGKILL of its worker (it runs in its own session).

### How `PipelineWait` corresponds to the code

The two modules share the lease, the inbox and the task hash, each at the grain
its questions need: `PipelineWait` has one task, dispatches it in one step
(`Dispatch`), and leaves the retry count to `TaskRuntime` (`Recover` queues or
fails).  Its own steps are the Lua scripts: `Register`, `Publish` (called by
`Webhook` and `FallbackScan`), `ResumeCached` (called by `Recheck` and
`Reconcile`), `Claim`, `Transfer`.  A delivery goes `Deliver`, then `Begin` or
`Claim` and `Inspect` (`_wait_for_complete_pipeline_group`), then works: it
pushes, registers and is suspended, or completes.

* A commit is its number.  Its pipelines are a root and downstream ones;
  `Validator` is the one with the required jobs.  GitLab itself (`StartChild`,
  `FinishPipeline`) is modelled from how the code reads it: a downstream pipeline
  is created while the root runs, either may end first, none is retried.
* Webhooks are not stored: one may arrive at any time after what it reports, any
  number of times, or never.
* An event's `id` stands for `occurred_at`.  Ids are reused once nobody holds
  them, so the state space is finite.
* `pipeline_attempt_id` is left out: the queued attempt equals the current one
  exactly while `pipeline_resume_queued` is there, and only REGISTER changes it.
* An inbox entry is told apart by its event, its token and the script that added
  it, in place of a stream id.
* The except clause and `_mark_failed` are one step, publishing is part of
  `Complete`, and the fallback's read and publication are one step: the
  interleavings between them are either in `TaskRuntime` or change nothing here.
* A rerun pushes a new commit; reuse of an earlier push belongs to the effect
  ledger.
* Time is in `LeaseExpire` (the lease outlasts what takes moments, and
  `worker_dead_seconds` is below `mr_lease_seconds`) and in `FallbackScan` (an
  entry is scanned only after `pipeline_fallback_scan_seconds`).

Not modelled in `PipelineWait`: cancellation, the expiry of cached events and of
waiter sets, several tasks on one merge request and the exclusivity inside
`MrSession` (`RepairGate` has both), the polling loop of `wait_pipeline_tool`,
and COMPLETE_PIPELINE_WAIT, which nothing calls.

### How `RepairGate` corresponds to the code

The state is what the scripts share: task status and owner, the gate
(`mr:<id>:triage-active`), the paused-auto key and `paused_by_triage_task_id`, the
card's `active_task_id`, `revision` and `rollback_repair_task_id`, the length and
the freeze of each manifest.  A delivery in progress (`execs`) goes `Start`,
`Enter` (the `MrSession` condition), `Begin`, and then

* as a repair: `Push`, `SuspendRepair`, or `Finish`, `Settle`, then `AdmitFailed`
  or `PublishEligibility`, `Complete`, `Resume`; or `Error`, `Fail`, `Failed`,
  `Notify`, `Resume`;
* as a cancelled repair: `Cancel`, `CancelAdmit` or `CancelFinal`, in the child
  (`again`) and then in its parent, or only there after `Kill`;
* as a rollback: `FinishRollback`, `Resume`, or `RollbackError`;
* as the review: `Check`, which reads the gate, `Pause`, which compares it again,
  `RunCommand`, `RecordCommand`, ..., `SuspendAuto`.

A delivery the session refuses (`Start`) stays pending and is read again until it
is accepted or its task has ended.  `Begin` may find a resume stale while the
repair waits for another pipeline: it returns and ends the exclusivity.  A
suspension needs a commit, not a new one: a resumed repair whose pipelines are not
all done waits again.  A cancel whose rollback is refused is an error, and in a
worker, the parent that killed its child included, it fails the task.

The scheduler does one thing at a time; `sched` holds the calls of a pass that are
still to come, so users and executions act between them.  `Races` says whether
users and the gate scan may act inside a hand-over (`HandingOver`); the run lets
them.  A card revision that was read before it is used is kept in `rev`.

Left out: the lease of a live worker running out (a running worker renews it;
what happens when it stalls is `TaskRuntime`'s subject, and there the fence
refuses the old execution's writes), the retry count, the unit-test flow, the
items and texts of the card.  `RepairAlone` and `ReviewOutsideRepair` are
statements about workers that keep their lease while they live.

### How `RepairPush` corresponds to the code

One repair task and its executions, numbered by fencing token: `Recover` starts
the next one while the one before may run on, as the child of a killed worker
does.  An execution prepares its workspace (`Prepare`), calls the push tool
(`CallNew`, `CallAgain`, `CallRefused`), and goes through it call by call:
`Claim`, `CheckRemote`, `Commit`, `Publish`, `Confirm` or `Resume`, `AppendEntry`,
`Complete`, `Save`.  `GitFails` is every Git command that may fail on the way.
Then it reports (`ReportClaim` to `Posted`) and ends (`Finish`, `Settle`), or is
killed by a cancel (`Kill`, `Reconcile`, `Refreeze`).  An error of the
reconciliation, a refused append or an unreadable branch (`ReconcileFails`), fails
the repair (`MarkFailed`).

* A commit is a number; its tree is the set of changes in it.  Reverting removes
  changes from the set.  A push that has left is in `sent` until the server takes
  or refuses it (`Land`), whatever has become of its sender.
* An attempt is its number, its base and its change, which is what `_identity`
  hashes.  `ckpt` is the number the saved conversation holds.
* A manifest entry's `effect` says how it names its effect: the push tool writes
  the short name, the reconciliation of a cancel the full key.
* A rollback is `RollbackRun`, `RollbackPush`, `RollbackConfirm`; `RollbackFails`
  is any Git error, `RollbackCrash` a lost worker.

Left out: the wait for the pipeline between two pushes (`PipelineWait`), the
format commit and the targeted revert of coverage commits, whose Git steps are
of the same form, effects other than pushes and comments, and a repair without a
card: `record_repair_commit_sync` refuses its pushes, which `RepairGate` has.

## What the runs check

| run | instance | result |
|---|---|---|
| `runtime_live` | 2 workers, 1 scheduler, 1 task, 2 crashes, no fault, fair | `Settles`: every admitted task ends. `InFlightIsRecoverable`: a task in flight is in the task set of a registered worker. `RetryBudget` |
| `runtime_overlap` | 2 workers and schedulers, 1 crash, 3 tokens, faults `publish_crash slow_pass outage backlog` | `TypeOK`; `TokenNamesOneWorker`; `QueuedIsPending`; `AssignedIsPending`; `ImplementsService` |
| `runtime_stall` | 2 workers, 1 scheduler, 1 task, no crash, faults `stall slow_pass outage backlog` | `ImplementsService`; `CompletedByCurrentRun`: a superseded execution never completes the task |
| `publish_crash` | fault `publish_crash`, fair | violates `Settles` |
| `backlog_stuck` | fault `backlog`, no crash, fair | violates `Settles` |
| `redelivery` | one crash, no fault | violates `FailedByOwnRun` |
| `wait_resume` | 1 commit, root and downstream pipeline, GitLab reads may fail, no crash, fair | `RegisteredWaitEnds`; `ResumedByItsPipeline`: only a finished pipeline of the wait resumes the task |
| `wait_takeover` | 1 commit, 1 pipeline, 2 crashes, 2 tokens | `TypeOK`; `OneExecution`; `ResumeIsPending`: an event marked as queued has a message that nobody is about to ack |
| `repair_gate` | 2 workers, a review of 1 command, 2 repairs of 1 commit, 1 cancel, 1 fault, 2 tokens | `TypeOK`; `GateHeldByActive`: a repair or rollback that has not ended holds the gate. `RollbackIsClosed`; `RepairAlone`; `ReviewOutsideRepair`; `ExclusiveHasRepair`; `CommandsOnce`; `EndedForGood` |
| `repair_push` | 2 executions, 2 commits, 2 changes, 1 push by a person, a rollback tried twice | `TypeOK`; `ManifestOnBranch`: the manifest is a stretch of the branch. `EvidenceFirst`; `SuccessIsRecorded`; `HumanWorkSurvives`; `RollbackIsDone`; `ReportedOnce`; `FrozenForGood` |
| `wait_group` | root and downstream pipeline, no crash, fair | violates `WaitEnds` |
| `wait_crash` | 1 pipeline, 1 crash, fair | violates `WaitEnds` |

The five violations are findings:

* **`publish_crash`**: TRANSFER_ORPHANED_TASK hands a publishing task to a live
  worker but adds no inbox entry, so nothing executes it and nothing recovers it.
* **`backlog_stuck`**: an assigned task waits in the inbox of a worker at its
  prefetch limit; nobody renews its lease; once the lease is gone every delivery
  ends in LostLeaseError, which neither fails nor acks the task.
* **`redelivery`**: a worker that is back before it counts as dead reads its
  unacked message again; the task is `running`, `_execute` raises, and the except
  clause fails the task without a retry.

* **`wait_group`**: the validation pipeline ends while the root still runs; its
  event resumes the task, which removes the registration; the group is not
  finished and the validation pipeline is already the one of the event, so the
  task is suspended without registering again.  When the root ends, no waiter
  set, no cached resume and no fallback scan knows the task.
* **`wait_crash`**: a worker restarts during a wait before it counts as dead.  The
  session that renewed the lease was in its memory, the lease lapses, each resume
  is refused as a lost lease, and the reconciliation that would fail the task
  also asks for that lease.

For this reason `RegisteredWaitEnds` is checked without crashes and for
registered waits.  A third way to lose a wait was seen in a larger instance (two
pushes and a crash): a rerun stays in the waiter set of its old commit, an event
of that commit is queued, judged stale and acked, and its mark blocks the event
of the new commit.  `ResumeIsPending` is therefore stated for queued events of
the commit waited for.

Two more behaviours are known and kept out of the passing runs by their
instances:

* *A task in flight may be lost to the recovery pass.*  With `outage`,
  `list_live_workers` may drop a dead worker from the registry before its tasks are
  recovered.  With two schedulers (and `stall`, `publish_crash`) the same comes of
  overlapping passes: one has revoked the lease of a publishing task, another
  claims the merge request for a worker that then disappears, and the first is
  handed that worker's lease by CLAIM_MR and transfers the task to it.  So
  `InFlightIsRecoverable` is checked and proved for one scheduler, without `outage`
  and `slow_pass`.
* *A superseded execution may complete its task* when the lease under which it runs
  is not revoked before the task is assigned to the same worker again.  That
  happens with `stall` and two schedulers (one dispatches between the other's
  RECOVER_DEAD_TASK and REVOKE_MR); with a scheduler that crashes between the two;
  and with two tasks (a delivery that waits in a session whose lease is renewed
  for another task runs under that lease, and the recovery revokes the one stored
  in its task).  So `CompletedByCurrentRun` is checked with one task, one scheduler
  and no crash.

What the code does not promise, and the properties of `RepairGate` and
`RepairPush` therefore do not say (each is reachable in the model; `PROJECT.json`
has the lines):

* *A paused review may stay paused.*  The gate scan, a click or a rollback request
  that comes between the last transition of a repair and RESUME_AUTO_AFTER_TRIAGE
  takes the gate away, and the script then wakes nobody.  So does a cancel of a
  repair without an owner, and a rollback that ends by an exception.  The user
  guide (`docs/docs/tools/ci_triage_intro.md:71-73`) says the review goes on in
  either case.
* *A session may stay closed.*  A cancel settles a repair that waits for its
  pipeline without telling the worker, whose session stays exclusive
  (`ExclusiveHasRepair` exempts cancelled repairs).  The repair's own rollback
  then waits there too, until the worker loses the lease or restarts.
* *A pushed commit may be missing from the manifest.*  A refused, blocked or failed
  attempt uses up a number, and the next commit's entry is then not continuous; a
  push that lands after a cancel has looked at the branch is not recorded; a
  person who pushes right after the repair makes the read-back say blocked; a
  crash between push and append makes the next execution, on a shallow clone,
  start its manifest at that commit.  In the last case a rollback reports
  success and leaves the first commit in place: `RollbackIsDone` compares with the
  base of the manifest, as the code does.
* *A manifest entry may name a commit that never landed*, as the last entry only,
  when three executions make the same attempt: a retry records the commit of any
  settled attempt.  Hence the exception in `ManifestOnBranch`.  A rollback of
  such a manifest is refused.
* *A cancelled repair may end as failed, without a rollback*: killed between append
  and completion, its commit is appended again under the other effect name, and the
  refusal ends in `_mark_failed`.
* *A comment may be posted twice* when the comments cannot be listed or the lease is
  gone (`ReportedOnce` counts these).  This disagrees with the repository's
  `README.md:106`, which says that a takeover by another worker does not create the
  same comment again, and with `README.md:190`, which says that a GitLab comment of
  an outdated fencing token is refused.  `_publish_comment_effect` checks the
  token when it claims the effect; the request to GitLab that follows
  (`effects.py:157`) carries none.

Bounds: one task suffices for the properties, which are about one task and the
lease; two workers give an old and a new owner; three tokens let an ownership be
lost and regained; `RetryLimit` 1 gives a retry and an exhausted budget.
For a wait, one commit has every order of registration, suspension and events,
and two pipelines are what the group inspection can tell apart; crashes are
checked with one pipeline and the group without crashes, because together they
exceed the time of a run.  Two crashes let the new owner of a transferred wait
die too.
In `repair_gate` two repairs are what the gate has to tell apart, one cancel and
one fault may fall anywhere, and `MaxTrouble` stops new clicks once both have
happened.  Its view drops what the model never reads again.  In `repair_push`
`MaxCommits`, the sum of the bounds on pushes, people's pushes and rollbacks, is the
number of commits there may be.  Its view is explained in `MCRepairPush`;
the properties, and the inductive invariant of the proof, were also checked
without it, with one change, on 3 executions with one push and on 2 executions
with two (42 and 20 million states); the properties also with it, on 3 executions
with two pushes of one change (7 million).  Three executions are what the replay of a settled attempt needs;
the theorems cover it.
`CHECK_DEADLOCK FALSE` everywhere: a finished task, or a bound, ends a behaviour.

Fairness (`Fairness` in `TaskRuntime`): `AgentWorker._supervise` restarts every
loop for ever, a pass goes through all pending entries and all tasks of all dead
workers, a delivery's process ends, time passes, and the deployment restarts a
crashed worker.  Reading an entry, recovering a task and delivering a message
are strongly fair, because a loop that keeps coming round finds an entry that is
there again and again.  Crashes and failures of the work are not fair.
In `PipelineWait` all these steps are weakly fair, and so are the pipelines of
GitLab, which end; no webhook needs to arrive.
`RepairGate` and `RepairPush` have no liveness: what should eventually happen there
is what the list above says does not.

## What is proved

For any sets of workers, schedulers and tasks, any retry limit, any bounds and
any faults (assumption `RuntimeConstants`), in `TaskRuntime`:

* `TypeCorrect`: `Spec => []TypeOK`.  `PassOK` is the strengthening: a pass in a
  given step has the worker or the dead worker that step needs.
* `FencingTokens`: `Spec => []TokenNamesOneWorker`.  The invariant is inductive
  with the types: a new pair enters `Claims` only as a copy of one that is there
  or from CLAIM_MR with a token larger than all of them.
* `QueuedNotForgotten`: `Spec => []QueuedIsPending`, through `QueueInv`: entries
  are numbered up to `sent`, the last one of a queued task is pending, and a pass
  about to ack it has seen the task assigned.
* `AssignedNotForgotten`: `Spec => []AssignedIsPending`, through `DeliveryInv`:
  inbox entries and executions are numbered by attempts, the current one is
  pending, and an execution that has begun an attempt shows the task is no longer
  assigned in it.
* `InFlightNotForgotten`: `Spec => []InFlightIsRecoverable` for one scheduler and
  any faults but `outage` and `slow_pass`, through `FlightInv`: not only the owner of
  a task in flight but every worker a pass has listed, chosen or claimed the lease
  for is registered with its hash in place, and a pass that has freed the lease
  for a transfer finds it free.
* `Budget`: `Spec => []RetryBudget`.
* `Implements`: `Spec => ImplementsService`, the step simulation of `TaskService`.

For any workers, pipelines, events and bounds, with or without failing GitLab
reads (assumption `WaitConstants`), in `PipelineWait`:

* `OneExecutionTheorem`: `Spec => []OneExecution`; `PendingTheorem`:
  `Spec => []ResumeIsPending`; `TypeTheorem`; and, as an action property,
  `ResumeTheorem`: `Spec => ResumedByItsPipeline`.  They share one inductive
  invariant (`IInv`).  Execution is exclusive because at most one delivery is past
  its claim and, until the task ends, it is the one the running task belongs to,
  under the lease (`WorkOK`, with `LeaseOK` for the hand-overs).  The queued event
  stays pending because a message is acked only by its own delivery (`MsgOK`), and
  because no message carries an event before it is queued and the task is in no
  waiter set of the awaited commit but that of its wait (`QueueOK`, `WaitersOK`).
  These facts, with what GitLab has finished (`PipesOK`), make the event that
  resumes the task one of the wait.

For any workers, repairs, commands and bounds (assumption `GateConstants`), in
`RepairGate`:

* `GateTheorem`: `Spec => []GateHeldByActive`, and `RollbackTheorem`:
  `Spec => []RollbackIsClosed`.  They are inductive together, with one fact about a
  scheduler pass: a rollback it is about to store as failed has ended already.
* `EndedTheorem`: `Spec => EndedForGood`.
* `AloneTheorem`, `ExclusiveTheorem`, `ReviewTheorem`, `CommandsTheorem` and
  `TypeTheorem`: `RepairAlone`, `ExclusiveHasRepair`, `ReviewOutsideRepair`,
  `CommandsOnce` and `TypeOK`, from one inductive invariant (`SInv`).  Deliveries
  are at the worker that owns their task, under the current lease (`Place`); there
  is at most one delivery of a repair (`Once`), and the session is closed for
  exactly the repair inside (`Session`).  For the review, the pause key, the
  status and the deliveries are tied together (`Review`): one delivery at most has
  not begun, and a paused review has none.  `Apart` is the point of the two
  guards: while a repair runs or waits, a delivery of the review that is inside
  stands before its check or its pause, and the gate it read there is that
  repair's, so it will not go on.  `Counted` says that the commands
  after the one a delivery is to go on with have not run, also across a pause.

For any number of executions, pushes, changes, people's pushes and rollback tries
(assumption `PushConstants`), in `RepairPush`:

* `ManifestTheorem`, `EvidenceTheorem`, `SuccessTheorem`, `HumanTheorem`,
  `RollbackDoneTheorem`, `ReportTheorem`, `TypeTheorem` and, as an action property,
  `FrozenTheorem`.  All follow from one inductive invariant (`IInv`), because the
  facts need each other: a commit can be appended safely only if it is on the
  branch, which the execution knows from an earlier read (`RunOK`, per step of the
  tool); the branch only grows, so what was read stays true; the manifest is then
  a chain on the branch (`Chained`) except for a last entry that was given up
  (`LastLanded`); and a rollback's commit has the tree of the chain's base, so
  whatever people had pushed before it is still there.

Only model-checked: liveness (`Settles`, `RegisteredWaitEnds`), which is out of the
prover's reach, and `CompletedByCurrentRun`, which holds only for the instance of
its run, as explained above.

A leaf that says `Zenon` is one that prover finds; one that says `SMT, Z3` is beyond
Zenon, and names two encodings of it for Z3 because the first sometimes runs out of
time in a long module.  The other leaves are proved by SMT or by Zenon.

## Not modelled

The models cover the protocols of `pr_agent/distributed` and the parts of
`ut_agent` that write to the outside.  That is a small share of the repository's
lines, and it will stay one: most of the code is prompt building, model calls, API
adapters for Git hosts and chat, parsing of diffs, logs and compiler output,
rendering of comments and cards, dashboards and single-transaction SQLite stores.
These are sequential, share no state with another process beyond a call, and are
what unit tests are for; a state machine of them would copy the code or leave out
what matters.  In particular:

* the planning of a repair is a language model's output; the models let it do
  anything the tools allow;
* the post-repair unit-test flow, the final report and the phases of
  `/repair-pipeline` use the scripts that are modelled, in sequences of their own;
* the notification stream and the rendering of cards: only what admission and
  cancelling read of a card is modelled;
* the repair memory, the suggestion, feedback and evaluation stores, lifecycle
  events and metrics: nothing in the runtime reads them to decide;
* the other servers (`github_app`, dashboards) run no queue.
