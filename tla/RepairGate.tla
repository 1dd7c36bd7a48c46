----------------------------- MODULE RepairGate -----------------------------
(***************************************************************************)
(* What keeps the tasks of one merge request out of each other's way.  An  *)
(* automatic review (the /auto workflow) runs its commands one after the   *)
(* other; a repair, asked for on the failure card or in a comment, takes   *)
(* the MR's gate, makes the review pause at the next command boundary, has *)
(* the MR session for itself, and hands over to the paused review or to    *)
(* the rollback of its commits when it ends.  Users cancel repairs and ask *)
(* for rollbacks, the scheduler reconciles, workers crash.                 *)
(*                                                                         *)
(* Each Lua script is one step; what a process reads from Redis and writes *)
(* back later is kept in its own state in between.  The pipeline a repair  *)
(* waits for is the subject of PipelineWait, the delivery of tasks and the *)
(* publishing status that of TaskRuntime: here a wait ends by one event    *)
(* and a task is published and completed in one step.                      *)
(***************************************************************************)
EXTENDS Naturals, Sequences, FiniteSets

CONSTANTS
    Workers,      \* worker ids; one that crashed does not come back
    NoWorker,     \* no worker (an absent hash field)
    AutoTask,     \* the /auto workflow task of the MR
    Repairs,      \* ids of the repairs that users may ask for
    NoTask,       \* no task (an absent key, an empty field)
    Commands,     \* number of commands of the workflow
    MaxCancels,   \* bound: repairs that users cancel
    Races,        \* may users and scans act inside a hand-over? (HandingOver)
    MaxPushes,    \* bound: commits pushed by a repair
    MaxFaults,    \* bound: worker crashes and heartbeat timeouts
    MaxTrouble,   \* bound: cancels and faults after which no new repair is asked for
    MaxFence      \* bound: fencing tokens granted

\* The rollback task of a repair; its id is computed from the repair's.
Rollback(r) == <<"rollback", r>>
Rollbacks == {Rollback(r) : r \in Repairs}

\* The tasks that take the gate, and all tasks.
Gated == Repairs \cup Rollbacks
Tasks == Gated \cup {AutoTask}

ASSUME GateConstants ==
    /\ NoWorker \notin Workers
    /\ Repairs \cap Rollbacks = {}
    /\ AutoTask \notin Gated
    /\ NoTask \notin Tasks
    /\ Commands \in Nat /\ MaxCancels \in Nat /\ Races \in BOOLEAN
    /\ MaxPushes \in Nat /\ MaxFaults \in Nat /\ MaxTrouble \in Nat
    /\ MaxFence \in Nat

VARIABLES
    status,    \* task hash: status, "none" before the task exists
    own,       \* task hash: worker_id and fencing_token
    bound,     \* repairs bound to the card: those admitted by a click
    canceled,  \* repairs whose cancel_requested is set
    manifest,  \* repairs' commit manifests: number of entries, frozen
    gate,      \* mr:<id>:triage-active
    paused,    \* is there a paused-auto key?
    pausedBy,  \* the workflow's paused_by_triage_task_id
    cursor,    \* the workflow's auto_next_command_index
    card,      \* the failure card: active_task_id, revision, and the repair it
               \* offers to roll back (rollback_repair_task_id)
    lease,     \* mr:<id>:lease
    fence,     \* mr:<id>:fence
    inbox,     \* worker:<id>:inbox
    up,        \* workers that run
    excl,      \* MrSession._exclusive_task_id of each worker's session
    execs,     \* deliveries in progress, and cancellations at the ingress
    sched,     \* what the scheduler is in the middle of: a task, steps to go
    ran,       \* how often each command was run (history)
    faults     \* crashes and timeouts so far

taskVars  == <<status, own, bound, canceled, manifest>>
autoVars  == <<paused, pausedBy, cursor, ran>>
leaseVars == <<lease, fence>>
procVars  == <<up, faults>>
vars == <<taskVars, gate, autoVars, card, leaseVars, inbox, procVars, excl, execs, sched>>

-----------------------------------------------------------------------------
(* State *)

Terminal == {"completed", "failed", "canceled"}
Statuses == {"none", "queued", "assigned", "running", "waiting", "paused"} \cup Terminal

Active(t) == status[t] \notin Terminal \cup {"none"}

NoLease == [worker |-> NoWorker, token |-> 0]
Lease == [worker : Workers, token : Nat] \cup {NoLease}

\* A delivery: execute and resume_auto run the task, resume_pipeline goes on
\* with a repair that waited.
Msg == [task : Tasks, kind : {"run", "resume"}]

\* A delivery in progress.  `rev` is a card revision it has read, `idx` the
\* index of the next command, `seen` the gate a workflow is about to pause for,
\* `ok` how the repair went, `again` whether the child process is cancelling
\* and its parent still has to.  A cancellation at the ingress is one without
\* worker, under the lease `lease`.
Pcs == {"wait", "begin", "work", "settle", "admit", "elig", "complete", "fail", "failed",
        "notify", "resume", "check", "pause", "cmd", "record", "suspend",
        "cancel", "cadmit", "cfinal"}
Exec == [task : Tasks, worker : Workers \cup {NoWorker}, lease : Lease,
         kind : {"run", "resume"}, pc : Pcs, rev : Nat, idx : Nat,
         seen : Gated \cup {NoTask}, ok : BOOLEAN, again : BOOLEAN]

SchedSteps == {"revoke", "rollback", "resume", "notify"}
NoSched == [task |-> NoTask, lease |-> NoLease, steps |-> <<>>]

\* Type invariant.  The workflow's cursor never passes its last command.
TypeOK ==
    /\ status \in [Tasks -> Statuses]
    /\ own \in [Tasks -> Lease]
    /\ bound \subseteq Repairs /\ canceled \subseteq Repairs
    /\ manifest \in [Repairs -> [n : Nat, frozen : BOOLEAN]]
    /\ gate \in Gated \cup {NoTask}
    /\ paused \in BOOLEAN
    /\ pausedBy \in Gated \cup {NoTask}
    /\ cursor \in 0..Commands
    /\ card \in [active : Gated \cup {NoTask}, rev : Nat, offer : Repairs \cup {NoTask}]
    /\ lease \in Lease /\ fence \in Nat
    /\ inbox \in [Workers -> SUBSET Msg]
    /\ up \subseteq Workers
    /\ excl \in [Workers -> Repairs \cup {NoTask}]
    /\ execs \subseteq Exec
    /\ sched \in [task : Tasks \cup {NoTask}, lease : Lease, steps : Seq(SchedSteps)]
    /\ ran \in [1..Commands -> Nat]
    /\ faults \in Nat

\* A review of the merge request has been queued; its pipeline has failed and
\* the card is shown.
Init ==
    /\ status = [t \in Tasks |-> IF t = AutoTask THEN "queued" ELSE "none"]
    /\ own = [t \in Tasks |-> NoLease]
    /\ bound = {} /\ canceled = {}
    /\ manifest = [r \in Repairs |-> [n |-> 0, frozen |-> FALSE]]
    /\ gate = NoTask /\ paused = FALSE /\ pausedBy = NoTask /\ cursor = 0
    /\ card = [active |-> NoTask, rev |-> 0, offer |-> NoTask]
    /\ lease = NoLease /\ fence = 0
    /\ inbox = [w \in Workers |-> {}]
    /\ up = Workers
    /\ excl = [w \in Workers |-> NoTask]
    /\ execs = {} /\ sched = NoSched
    /\ ran = [c \in 1..Commands |-> 0]
    /\ faults = 0

-----------------------------------------------------------------------------
(* Scripts *)

\* RESUME_AUTO_AFTER_TRIAGE, for a caller with lease `l`, if it still holds it:
\* the task `t` that has ended gives its gate back and wakes the workflow that
\* it paused.  When the pause names another task the gate stays.
ResumeAuto(t, l, held) ==
    LET ended == gate = t /\ held /\ status[t] \in Terminal
        wake  == ended /\ paused /\ status[AutoTask] = "paused" /\ pausedBy = t
    IN  /\ status' = IF wake THEN [status EXCEPT ![AutoTask] = "assigned"] ELSE status
        /\ own' = IF wake THEN [own EXCEPT ![AutoTask] = l] ELSE own
        /\ inbox' = IF wake
                    THEN [inbox EXCEPT ![l.worker] = @ \cup {[task |-> AutoTask, kind |-> "run"]}]
                    ELSE inbox
        /\ gate' = IF wake \/ (ended /\ ~paused) THEN NoTask ELSE gate
        /\ paused' = (paused /\ ~wake)

\* FINALIZE_REPAIR_CANCEL, for a caller with lease `l` (or none) that has read
\* the card's revision `rev`: the task, the gate, the card and the paused
\* workflow are settled together.
FinalizeCancel(r, l, rev) ==
    LET may  == /\ r \in canceled /\ r \in bound
                /\ status[r] \notin {"completed", "failed"}
                /\ l = NoLease \/ own[r] = l
                /\ gate \in {NoTask, r}
        wake == /\ may /\ paused /\ own[r] # NoLease /\ lease = own[r]
                /\ status[AutoTask] = "paused" /\ pausedBy = r
    IN  /\ status' = IF may
                     THEN [status EXCEPT ![r] = "canceled",
                                         ![AutoTask] = IF wake THEN "assigned" ELSE @]
                     ELSE status
        /\ own' = IF wake THEN [own EXCEPT ![AutoTask] = own[r]] ELSE own
        /\ inbox' = IF wake
                    THEN [inbox EXCEPT ![own[r].worker] = @ \cup {[task |-> AutoTask, kind |-> "run"]}]
                    ELSE inbox
        /\ gate' = IF may /\ gate = r THEN NoTask ELSE gate
        /\ paused' = (paused /\ ~wake)
        /\ card' = IF may /\ card.active = r
                   THEN [card EXCEPT !.active = NoTask, !.rev = rev + 1] ELSE card

\* What ADMIT_REPAIR_ROLLBACK requires of the repair, by trigger.
Trigger(r, trigger) ==
    CASE trigger = "post_repair"  -> status[r] \in {"completed", "failed"}
      [] trigger = "cancel"       -> r \in canceled /\ status[r] \notin {"completed", "failed"}
      [] trigger = "auto_failure" -> status[r] = "running"

\* Mutant: the gate is not looked at.
CanAdmitRollbackAnyGate(r, trigger, rev) ==
    /\ manifest[r].frozen /\ manifest[r].n > 0
    /\ r \in bound /\ status[Rollback(r)] = "none"
    /\ card.rev = rev
    /\ Trigger(r, trigger)

\* Mutant: the repair may be in any status.
CanAdmitRollbackAnyStatus(r, trigger, rev) ==
    /\ manifest[r].frozen /\ manifest[r].n > 0
    /\ r \in bound /\ status[Rollback(r)] = "none"
    /\ card.rev = rev
    /\ gate \in {NoTask, r, Rollback(r)}

CanAdmitRollback(r, trigger, rev) ==
    /\ manifest[r].frozen /\ manifest[r].n > 0
    /\ r \in bound /\ status[Rollback(r)] = "none"
    /\ card.rev = rev
    /\ Trigger(r, trigger)
    /\ gate \in {NoTask, r, Rollback(r)}

\* ADMIT_REPAIR_ROLLBACK: the rollback is queued and takes the gate, the card
\* and, unless a user asked for it afterwards, the repair's paused workflow.
AdmitRollback(r, trigger) ==
    LET b == Rollback(r)
    IN  /\ status' = [status EXCEPT ![b] = "queued",
                                    ![r] = CASE trigger = "post_repair"  -> @
                                             [] trigger = "cancel"       -> "canceled"
                                             [] trigger = "auto_failure" -> "completed"]
        /\ gate' = b
        /\ pausedBy' = IF trigger # "post_repair" /\ paused /\ pausedBy = r THEN b ELSE pausedBy
        /\ card' = [active |-> b, rev |-> card.rev + 1, offer |-> r]

\* RECONCILE_REPAIR_CARD_NOTIFICATION: the card lets the task go.
ReleaseCard(t) ==
    card' = IF card.active = t /\ t \in bound
            THEN [card EXCEPT !.active = NoTask, !.rev = @ + 1] ELSE card

\* FREEZE_REPAIR_MANIFEST; there is no manifest before the first commit.
Freeze(r) ==
    manifest' = [manifest EXCEPT ![r].frozen = @ \/ manifest[r].n > 0]

\* COMPLETE_REPAIR_ROLLBACK, when it is accepted.
CompleteRollback(b, outcome) ==
    /\ status' = [status EXCEPT ![b] = outcome]
    /\ card' = [card EXCEPT !.active = NoTask, !.rev = @ + 1]

\* CLAIM_MR by the scheduler: the lease there is, or a new one for worker `w`.
Claimed(w) ==
    IF lease = NoLease THEN [worker |-> w, token |-> fence + 1] ELSE lease

Claim(w) ==
    /\ lease = NoLease => fence < MaxFence
    /\ lease' = Claimed(w)
    /\ fence' = Claimed(w).token

-----------------------------------------------------------------------------
(* Executions *)

Holds(e) == lease = e.lease

\* Mutant: the execution ends, the exclusivity does not.
EndKeeps(e) == execs' = execs \ {e} /\ UNCHANGED excl

\* Replaces an execution's state; goes on without what it no longer uses; ends
\* it, and with it the MR exclusivity of a repair (_end_triage).
Set(e, f) == execs' = (execs \ {e}) \cup {f}
Goto(e, pc) == Set(e, [e EXCEPT !.pc = pc, !.rev = 0, !.seen = NoTask, !.ok = TRUE])
End(e) ==
    /\ execs' = execs \ {e}
    /\ excl' = IF e.task \in Repairs /\ e.worker \in Workers /\ excl[e.worker] = e.task
               THEN [excl EXCEPT ![e.worker] = NoTask] ELSE excl

\* A repair that waits for its turn in the session (_triage_waiting_task_id),
\* and an execution that has its turn.
Waiting(w) == {e.task : e \in {x \in execs : x.worker = w /\ x.pc = "wait" /\ x.task \in Repairs}}
Inside(e) == e.worker \in Workers /\ e.pc # "wait"
Normals(w) == {e \in execs : e.worker = w /\ Inside(e) /\ e.task \notin Repairs}

\* A task has ended and the step that hands the MR over is still to come.
HandingOver ==
    \/ \E e \in execs : e.pc \in {"notify", "resume"}
    \/ sched.steps # <<>>
Undisturbed == Races \/ ~HandingOver

\* The worker reads a delivery.  One for a task it no longer owns fails, and so
\* does a repair's while the session has another one waiting, or a resumed
\* repair's while another one is exclusive: it stays pending and is read again,
\* until it is accepted or its task has ended.
Start(w, m) ==
    LET t == m.task
        refused == \/ own[t].worker # w
                   \/ /\ t \in Repairs
                      /\ \/ Waiting(w) \ {t} # {}
                         \/ m.kind = "resume" /\ excl[w] \notin {NoTask, t}
    IN  /\ w \in up /\ m \in inbox[w]
        /\ inbox' = [inbox EXCEPT ![w] = @ \ {m}]
        /\ IF refused THEN status[t] \in Terminal /\ UNCHANGED execs
           ELSE execs' = execs \cup {[task |-> t, worker |-> w, lease |-> own[t],
                                      kind |-> m.kind, pc |-> "wait", rev |-> 0, idx |-> 0,
                                      seen |-> NoTask, ok |-> TRUE, again |-> FALSE]}
        /\ UNCHANGED <<taskVars, gate, autoVars, card, leaseVars, procVars, excl, sched>>

\* Mutant: a repair does not wait for the executions that are inside.
EnterImpatient(e) ==
    LET w == e.worker
    IN  /\ e.pc = "wait"
        /\ IF e.task \in Repairs
           THEN /\ excl[w] \in {e.task, NoTask}
                /\ excl' = [excl EXCEPT ![w] = e.task]
           ELSE excl[w] = NoTask /\ Waiting(w) = {} /\ UNCHANGED excl
        /\ Goto(e, "begin")
        /\ UNCHANGED <<taskVars, gate, autoVars, card, leaseVars, inbox, procVars, sched>>

\* MrSession: a repair enters when nothing else is inside and keeps everything
\* else out; other tasks also wait for the repair that waits.
Enter(e) ==
    LET w == e.worker
    IN  /\ e.pc = "wait"
        /\ IF e.task \in Repairs
           THEN /\ excl[w] = e.task \/ (excl[w] = NoTask /\ Normals(w) = {})
                /\ excl' = [excl EXCEPT ![w] = e.task]
           ELSE excl[w] = NoTask /\ Waiting(w) = {} /\ UNCHANGED excl
        /\ Goto(e, "begin")
        /\ UNCHANGED <<taskVars, gate, autoVars, card, leaseVars, inbox, procVars, sched>>

\* The start of _execute.  A resumed repair returns at once when it no longer
\* waits, or when it waits for another pipeline than the event's
\* (claim_pipeline_resume: stale), and its exclusivity ends; a task that is not
\* assigned any more is an error.
Begin(e) ==
    LET t == e.task
        from == IF e.kind = "resume" THEN "waiting" ELSE "assigned"
        may == status[t] = from /\ Holds(e)
    IN  /\ e.pc = "begin"
        /\ \/ /\ t \in canceled
              /\ Set(e, [e EXCEPT !.pc = "cancel", !.again = TRUE])
              /\ UNCHANGED <<status, excl>>
           \/ /\ t \notin canceled /\ may
              /\ status' = [status EXCEPT ![t] = "running"]
              /\ IF t = AutoTask THEN Set(e, [e EXCEPT !.pc = "check", !.idx = cursor])
                                 ELSE Goto(e, "work")
              /\ UNCHANGED excl
           \/ /\ t \notin canceled /\ (may => e.kind = "resume")
              /\ IF e.kind = "resume" THEN End(e) ELSE Goto(e, "fail") /\ UNCHANGED excl
              /\ UNCHANGED status
        /\ UNCHANGED <<own, bound, canceled, manifest, gate, autoVars, card, leaseVars, inbox,
                       procVars, sched>>

-----------------------------------------------------------------------------
(* A repair at work *)

\* A commit is pushed and appended to the manifest; a frozen manifest refuses
\* it, and so does a repair that no card knows, and the repair fails.
Push(e) ==
    LET r == e.task
    IN  /\ e.pc = "work" /\ r \in Repairs
        /\ manifest[r].n < MaxPushes
        /\ IF Holds(e) /\ r \in bound /\ ~manifest[r].frozen
           THEN manifest' = [manifest EXCEPT ![r].n = @ + 1] /\ UNCHANGED execs
           ELSE Goto(e, "fail") /\ UNCHANGED manifest
        /\ UNCHANGED <<status, own, bound, canceled, gate, autoVars, card, leaseVars, inbox,
                       procVars, excl, sched>>

\* Mutant: the status is written without a look at the one there is.
SuspendRepairAny(e) ==
    /\ e.pc = "work" /\ e.task \in Repairs /\ manifest[e.task].n > 0
    /\ status' = IF Holds(e) THEN [status EXCEPT ![e.task] = "waiting"] ELSE status
    /\ execs' = execs \ {e}
    /\ UNCHANGED <<own, bound, canceled, manifest, gate, autoVars, card, leaseVars, inbox,
                   procVars, excl, sched>>

\* The repair waits for the pipeline of its commit: one pushed now, or before a
\* crash, or, in a resumed repair, one whose pipeline group is not complete.  The
\* session stays exclusive, also when the status refuses the transition.
SuspendRepair(e) ==
    LET r == e.task
    IN  /\ e.pc = "work" /\ r \in Repairs /\ manifest[r].n > 0
        /\ status' = IF status[r] = "running" /\ Holds(e)
                     THEN [status EXCEPT ![r] = "waiting"] ELSE status
        /\ IF status[r] = "running" /\ ~Holds(e) THEN End(e)
           ELSE execs' = execs \ {e} /\ UNCHANGED excl
        /\ UNCHANGED <<own, bound, canceled, manifest, gate, autoVars, card, leaseVars, inbox,
                       procVars, sched>>

\* The repair is over, for better or worse, and the card says so.
Finish(e, ok) ==
    /\ e.pc = "work" /\ e.task \in Repairs
    /\ ReleaseCard(e.task)
    /\ Set(e, [e EXCEPT !.pc = "settle", !.seen = NoTask, !.ok = ok])
    /\ UNCHANGED <<taskVars, gate, autoVars, leaseVars, inbox, procVars, excl, sched>>

\* An error of the repair, or of a command of the workflow.
Error(e) ==
    /\ \/ e.pc = "work" /\ e.task \in Repairs
       \/ e.pc = "cmd"
    /\ Goto(e, "fail")
    /\ UNCHANGED <<taskVars, gate, autoVars, card, leaseVars, inbox, procVars, excl, sched>>

\* The manifest is frozen, and the card read for what comes next: the rollback
\* of a repair that did no good, or the offer of one.
Settle(e) ==
    LET r == e.task
    IN  /\ e.pc = "settle"
        /\ CASE r \in canceled ->
                  /\ Set(e, [e EXCEPT !.pc = "cancel", !.ok = TRUE, !.again = TRUE])
                  /\ UNCHANGED <<manifest, excl>>
             [] r \notin canceled /\ ~Holds(e) -> End(e) /\ UNCHANGED manifest
             [] r \notin canceled /\ Holds(e) ->
                  /\ Freeze(r)
                  /\ Set(e, [e EXCEPT !.rev = card.rev,
                                      !.pc = IF r \in bound /\ manifest[r].n > 0
                                             THEN IF e.ok THEN "elig" ELSE "admit"
                                             ELSE "complete"])
                  /\ UNCHANGED excl
        /\ UNCHANGED <<status, own, bound, canceled, gate, autoVars, card, leaseVars, inbox,
                       procVars, sched>>

\* _enqueue_automatic_failure_rollback: when the rollback is refused the repair
\* completes as usual.
AdmitFailed(e) ==
    LET r == e.task
    IN  /\ e.pc = "admit"
        /\ IF CanAdmitRollback(r, "auto_failure", e.rev)
           THEN /\ AdmitRollback(r, "auto_failure")
                /\ End(e)
           ELSE /\ ReleaseCard(r)
                /\ Set(e, [e EXCEPT !.pc = "elig", !.ok = TRUE, !.rev = card'.rev])
                /\ UNCHANGED <<status, gate, pausedBy, excl>>
        /\ UNCHANGED <<own, bound, canceled, manifest, paused, cursor, ran, leaseVars, inbox,
                       procVars, sched>>

\* publish_repair_rollback_eligibility writes the revision after the one it read.
PublishEligibility(e) ==
    /\ e.pc = "elig"
    /\ card' = [card EXCEPT !.rev = e.rev + 1, !.offer = e.task]
    /\ Goto(e, IF e.ok THEN "complete" ELSE "failed")
    /\ UNCHANGED <<taskVars, gate, autoVars, leaseVars, inbox, procVars, excl, sched>>

\* RUNNING -> PUBLISHING -> COMPLETED; when the status or the lease refuses it
\* nothing is handed over.
Complete(e) ==
    LET t == e.task
    IN  /\ e.pc = "complete"
        /\ IF status[t] = "running" /\ Holds(e)
           THEN /\ status' = [status EXCEPT ![t] = "completed"]
                /\ IF t = AutoTask THEN End(e) ELSE Goto(e, "resume") /\ UNCHANGED excl
           ELSE End(e) /\ UNCHANGED status
        /\ UNCHANGED <<own, bound, canceled, manifest, gate, autoVars, card, leaseVars, inbox,
                       procVars, sched>>

\* The executor's except clause: the repair's manifest is frozen and offered
\* for rollback before the task fails.
Fail(e) ==
    LET r == e.task
    IN  /\ e.pc = "fail"
        /\ CASE r \notin Repairs -> Goto(e, "failed") /\ UNCHANGED <<manifest, excl>>
             [] r \in Repairs /\ ~Holds(e) -> End(e) /\ UNCHANGED manifest
             [] r \in Repairs /\ Holds(e) ->
                  /\ Freeze(r)
                  /\ Set(e, [e EXCEPT !.rev = card.rev, !.ok = FALSE,
                                      !.pc = IF r \in bound /\ manifest[r].n > 0
                                             THEN "elig" ELSE "failed"])
                  /\ UNCHANGED excl
        /\ UNCHANGED <<status, own, bound, canceled, gate, autoVars, card, leaseVars, inbox,
                       procVars, sched>>

\* RUNNING -> FAILED there, or in _mark_failed, which also takes a task that
\* was only assigned.  A rollback that fails like this resumes no workflow.
Failed(e) ==
    LET t == e.task
    IN  /\ e.pc = "failed"
        /\ IF status[t] \in {"assigned", "running"} /\ Holds(e)
           THEN /\ status' = [status EXCEPT ![t] = "failed"]
                /\ IF t \in Repairs THEN Goto(e, "notify") /\ UNCHANGED excl ELSE End(e)
           ELSE End(e) /\ UNCHANGED status
        /\ UNCHANGED <<own, bound, canceled, manifest, gate, autoVars, card, leaseVars, inbox,
                       procVars, sched>>

\* queue_triage_failure_notification.
Notify(e) ==
    /\ e.pc = "notify"
    /\ ReleaseCard(e.task)
    /\ Goto(e, "resume")
    /\ UNCHANGED <<taskVars, gate, autoVars, leaseVars, inbox, procVars, excl, sched>>

Resume(e) ==
    /\ e.pc = "resume"
    /\ ResumeAuto(e.task, e.lease, Holds(e))
    /\ End(e)
    /\ UNCHANGED <<bound, canceled, manifest, pausedBy, cursor, ran, card, leaseVars, procVars,
                   sched>>

-----------------------------------------------------------------------------
(* Cancelling *)

\* finalize_cancel_or_enqueue_rollback: the manifest is frozen, under the lease
\* of the caller if it has one, and the card is read.
Cancel(e) ==
    LET r == e.task
    IN  /\ e.pc = "cancel"
        /\ IF e.lease # NoLease /\ ~Holds(e)
           THEN End(e) /\ UNCHANGED manifest
           ELSE /\ Freeze(r)
                /\ Set(e, [e EXCEPT !.rev = card.rev,
                                    !.pc = IF manifest[r].n > 0 THEN "cadmit" ELSE "cfinal"])
                /\ UNCHANGED excl
        /\ UNCHANGED <<status, own, bound, canceled, gate, autoVars, card, leaseVars, inbox,
                       procVars, sched>>

\* The child process has cancelled and exits; its parent cancels once more.
AfterCancel(e) ==
    IF e.again THEN Set(e, [e EXCEPT !.pc = "cancel", !.rev = 0, !.again = FALSE]) /\ UNCHANGED excl
               ELSE End(e)

\* A rollback there is already is fine; any other refusal is an error, which in
\* a worker fails the task (_mark_failed): the child process exits with it, or
\* the parent that has killed its child catches it.  The parent of a child that
\* has cancelled is not refused any more.
CancelAdmit(e) ==
    LET r == e.task
    IN  /\ e.pc = "cadmit"
        /\ CASE CanAdmitRollback(r, "cancel", e.rev) ->
                  AdmitRollback(r, "cancel") /\ AfterCancel(e)
             [] status[Rollback(r)] # "none" ->
                  AfterCancel(e) /\ UNCHANGED <<status, gate, pausedBy, card>>
             [] ~CanAdmitRollback(r, "cancel", e.rev) /\ status[Rollback(r)] = "none" ->
                  /\ IF e.worker \in Workers
                     THEN Set(e, [e EXCEPT !.pc = "failed", !.rev = 0, !.again = FALSE]) /\ UNCHANGED excl
                     ELSE End(e)
                  /\ UNCHANGED <<status, gate, pausedBy, card>>
        /\ UNCHANGED <<own, bound, canceled, manifest, paused, cursor, ran, leaseVars, inbox,
                       procVars, sched>>

CancelFinal(e) ==
    /\ e.pc = "cfinal"
    /\ FinalizeCancel(e.task, e.lease, e.rev)
    /\ AfterCancel(e)
    /\ UNCHANGED <<bound, canceled, manifest, pausedBy, cursor, ran, leaseVars, procVars, sched>>

\* The parent polls cancel_requested, stops the child wherever it is, and
\* cancels the task itself.
Kill(e) ==
    /\ e.task \in canceled /\ Inside(e)
    /\ ~(e.pc \in {"cancel", "cadmit", "cfinal"} /\ ~e.again)
    /\ Races \/ e.pc \notin {"notify", "resume"}
    /\ Set(e, [e EXCEPT !.pc = "cancel", !.rev = 0, !.seen = NoTask, !.ok = TRUE,
                        !.again = FALSE])
    /\ UNCHANGED <<taskVars, gate, autoVars, card, leaseVars, inbox, procVars, excl, sched>>

-----------------------------------------------------------------------------
(* A rollback *)

\* _run_repair_rollback: what the Git engine returned is stored.
FinishRollback(e, outcome) ==
    LET b == e.task
    IN  /\ e.pc = "work" /\ b \in Rollbacks
        /\ CASE ~Holds(e) -> End(e) /\ UNCHANGED <<status, card>>
             [] Holds(e) /\ status[b] \in {"assigned", "running"} ->
                  CompleteRollback(b, outcome) /\ Goto(e, "resume") /\ UNCHANGED excl
             [] Holds(e) /\ status[b] \notin {"assigned", "running"} ->
                  Goto(e, "fail") /\ UNCHANGED <<status, card, excl>>
        /\ UNCHANGED <<own, bound, canceled, manifest, gate, autoVars, leaseVars, inbox, procVars,
                       sched>>

\* An exception while rolling back, a fault.
RollbackError(e) ==
    /\ e.pc = "work" /\ e.task \in Rollbacks
    /\ faults < MaxFaults /\ faults' = faults + 1
    /\ Goto(e, "fail")
    /\ UNCHANGED <<taskVars, gate, autoVars, card, leaseVars, inbox, up, excl, sched>>

-----------------------------------------------------------------------------
(* The workflow *)

\* Mutant: the gate is looked at not at all.
CheckBlind(e) ==
    /\ e.pc = "check"
    /\ Goto(e, IF e.idx < Commands THEN "cmd" ELSE "complete")
    /\ UNCHANGED <<taskVars, gate, autoVars, card, leaseVars, inbox, procVars, excl, sched>>

\* _pause_auto_if_triage_pending, before every command and after the last: the
\* gate is read.
Check(e) ==
    /\ e.pc = "check"
    /\ IF gate = NoTask THEN Goto(e, IF e.idx < Commands THEN "cmd" ELSE "complete")
                        ELSE Set(e, [e EXCEPT !.pc = "pause", !.seen = gate])
    /\ UNCHANGED <<taskVars, gate, autoVars, card, leaseVars, inbox, procVars, excl, sched>>

\* Mutant: the pause stores the first command as the next one.
PauseForgets(e) ==
    LET running == status[AutoTask] = "running"
        pause == running /\ Holds(e) /\ gate = e.seen
    IN  /\ e.pc = "pause"
        /\ IF pause
           THEN /\ status' = [status EXCEPT ![AutoTask] = "paused"]
                /\ paused' = TRUE /\ pausedBy' = gate /\ cursor' = 0
                /\ Goto(e, "suspend") /\ UNCHANGED excl
           ELSE /\ IF running /\ ~Holds(e) THEN End(e)
                   ELSE Goto(e, IF e.idx < Commands THEN "cmd" ELSE "complete") /\ UNCHANGED excl
                /\ UNCHANGED <<status, paused, pausedBy, cursor>>
        /\ UNCHANGED <<own, bound, canceled, manifest, gate, ran, card, leaseVars, inbox,
                       procVars, sched>>

\* PAUSE_AUTO_FOR_TRIAGE compares the gate again; should another task have it
\* now, the workflow goes on.
Pause(e) ==
    LET running == status[AutoTask] = "running"
        pause == running /\ Holds(e) /\ gate = e.seen
    IN  /\ e.pc = "pause"
        /\ IF pause
           THEN /\ status' = [status EXCEPT ![AutoTask] = "paused"]
                /\ paused' = TRUE /\ pausedBy' = gate /\ cursor' = e.idx
                /\ Goto(e, "suspend") /\ UNCHANGED excl
           ELSE /\ IF running /\ ~Holds(e) THEN End(e)
                   ELSE Goto(e, IF e.idx < Commands THEN "cmd" ELSE "complete") /\ UNCHANGED excl
                /\ UNCHANGED <<status, paused, pausedBy, cursor>>
        /\ UNCHANGED <<own, bound, canceled, manifest, gate, ran, card, leaseVars, inbox,
                       procVars, sched>>

RunCommand(e) ==
    /\ e.pc = "cmd"
    /\ ran' = [ran EXCEPT ![e.idx + 1] = @ + 1]
    /\ Goto(e, "record")
    /\ UNCHANGED <<taskVars, gate, paused, pausedBy, cursor, card, leaseVars, inbox, procVars,
                   excl, sched>>

\* Mutant: the index of the command after the next is stored.
RecordSkips(e) ==
    /\ e.pc = "record"
    /\ cursor' = IF status[AutoTask] = "running" /\ Holds(e) THEN e.idx + 2 ELSE cursor
    /\ IF status[AutoTask] = "running" /\ ~Holds(e) THEN End(e)
       ELSE Set(e, [e EXCEPT !.pc = "check", !.idx = @ + 1]) /\ UNCHANGED excl
    /\ UNCHANGED <<taskVars, gate, paused, pausedBy, ran, card, leaseVars, inbox, procVars, sched>>

\* RECORD_AUTO_COMMAND_COMPLETED; a refusal because of the status is ignored.
RecordCommand(e) ==
    /\ e.pc = "record"
    /\ cursor' = IF status[AutoTask] = "running" /\ Holds(e) THEN e.idx + 1 ELSE cursor
    /\ IF status[AutoTask] = "running" /\ ~Holds(e) THEN End(e)
       ELSE Set(e, [e EXCEPT !.pc = "check", !.idx = @ + 1]) /\ UNCHANGED excl
    /\ UNCHANGED <<taskVars, gate, paused, pausedBy, ran, card, leaseVars, inbox, procVars, sched>>

\* The executor's TaskSuspended clause: should the workflow not be paused any
\* more, it is paused, without the key that says by whom.
SuspendAuto(e) ==
    /\ e.pc = "suspend"
    /\ status' = IF status[AutoTask] = "running" /\ Holds(e)
                 THEN [status EXCEPT ![AutoTask] = "paused"] ELSE status
    /\ End(e)
    /\ UNCHANGED <<own, bound, canceled, manifest, gate, autoVars, card, leaseVars, inbox,
                   procVars, sched>>

-----------------------------------------------------------------------------
(* The scheduler, one step after the other *)

Idle == sched = NoSched
Pass(t, steps) == sched' = [task |-> t, lease |-> own[t], steps |-> steps]
NextStep == sched' = IF Len(sched.steps) = 1 THEN NoSched
                     ELSE [sched EXCEPT !.steps = Tail(@)]
Dead(w) == w \in Workers /\ w \notin up

\* A queued task goes to the worker that has the MR, or to any when none has.
Dispatch(t) ==
    /\ Idle /\ status[t] = "queued"
    /\ \E w \in up :
          LET l == Claimed(w)
          IN  /\ l.worker \in up
              /\ Claim(w)
              /\ status' = [status EXCEPT ![t] = "assigned"]
              /\ own' = [own EXCEPT ![t] = l]
              /\ inbox' = [inbox EXCEPT ![l.worker] = @ \cup {[task |-> t, kind |-> "run"]}]
    /\ UNCHANGED <<bound, canceled, manifest, gate, autoVars, card, procVars, excl, execs, sched>>

\* recover_dead_workers: a task that was assigned or running is queued again,
\* or fails when it has been tried too often.
Recover(t) ==
    /\ Idle /\ Dead(own[t].worker) /\ status[t] \in {"assigned", "running"}
    /\ \/ /\ status' = [status EXCEPT ![t] = "queued"]
          /\ own' = [own EXCEPT ![t] = NoLease]
          /\ Pass(t, <<"revoke">>)
       \/ /\ status' = [status EXCEPT ![t] = "failed"]
          /\ Pass(t, CASE t \in Repairs   -> <<"revoke", "resume", "notify">>
                       [] t \in Rollbacks -> <<"revoke", "rollback", "resume">>
                       [] t = AutoTask        -> <<"revoke">>)
          /\ UNCHANGED own
    /\ UNCHANGED <<bound, canceled, manifest, gate, autoVars, card, leaseVars, inbox, procVars,
                   excl, execs>>

\* A paused workflow only gives the lease up.
RecoverPaused ==
    /\ Idle /\ Dead(own[AutoTask].worker) /\ status[AutoTask] = "paused"
    /\ lease # NoLease /\ lease = own[AutoTask]
    /\ Pass(AutoTask, <<"revoke">>)
    /\ UNCHANGED <<taskVars, gate, autoVars, card, leaseVars, inbox, procVars, excl, execs>>

\* A repair that waits moves to a live worker, under a new lease.
TransferWaiting(r) ==
    /\ Idle /\ Dead(own[r].worker) /\ status[r] = "waiting"
    /\ lease \in {NoLease, own[r]} /\ fence < MaxFence
    /\ \E w \in up :
          /\ lease' = [worker |-> w, token |-> fence + 1]
          /\ own' = [own EXCEPT ![r] = lease']
    /\ fence' = fence + 1
    /\ UNCHANGED <<status, bound, canceled, manifest, gate, autoVars, card, inbox, procVars, excl,
                   execs, sched>>

\* reconcile_repairs: a task of a live worker whose heartbeat is too old.
Timeout(t) ==
    /\ Idle /\ t \in Gated /\ status[t] = "running" /\ own[t].worker \in up
    /\ t \notin canceled
    /\ faults < MaxFaults /\ faults' = faults + 1
    /\ \/ /\ t \in Repairs /\ lease = own[t]
          /\ status' = [status EXCEPT ![t] = "failed"]
          /\ Pass(t, <<"notify", "resume">>)
          /\ UNCHANGED card
       \/ /\ t \in Rollbacks /\ lease # NoLease
          /\ CompleteRollback(t, "failed")
          /\ Pass(t, <<"resume">>)
    /\ UNCHANGED <<own, bound, canceled, manifest, gate, autoVars, leaseVars, inbox, up, excl,
                   execs>>

\* The rest of these passes, call by call.
SchedRevoke ==
    /\ ~Idle /\ Head(sched.steps) = "revoke"
    /\ lease' = IF lease = sched.lease THEN NoLease ELSE lease
    /\ NextStep
    /\ UNCHANGED <<taskVars, gate, autoVars, card, fence, inbox, procVars, excl, execs>>

SchedRollback ==
    /\ ~Idle /\ Head(sched.steps) = "rollback"
    /\ CompleteRollback(sched.task, "failed")
    /\ NextStep
    /\ UNCHANGED <<own, bound, canceled, manifest, gate, autoVars, leaseVars, inbox, procVars,
                   excl, execs>>

SchedNotify ==
    /\ ~Idle /\ Head(sched.steps) = "notify"
    /\ ReleaseCard(sched.task)
    /\ NextStep
    /\ UNCHANGED <<taskVars, gate, autoVars, leaseVars, inbox, procVars, excl, execs>>

\* _resume_auto_after_failed_triage.
SchedResume ==
    /\ ~Idle /\ Head(sched.steps) = "resume"
    /\ IF up = {} THEN UNCHANGED <<status, own, inbox, gate, paused, leaseVars>>
       ELSE \E w \in up : Claim(w) /\ ResumeAuto(sched.task, Claimed(w), TRUE)
    /\ NextStep
    /\ UNCHANGED <<bound, canceled, manifest, pausedBy, cursor, ran, card, procVars, excl, execs>>

\* reconcile_repairs: a cancelled repair that nobody else has settled, without
\* a look at its commits.
SchedCancel(r) ==
    /\ Idle /\ Active(r) /\ r \in canceled
    /\ own[r] \in {NoLease, lease}
    /\ FinalizeCancel(r, own[r], card.rev)
    /\ UNCHANGED <<bound, canceled, manifest, pausedBy, cursor, ran, leaseVars, procVars, excl,
                   execs, sched>>

\* RECONCILE_ADMISSION_GATE: the gate of a task that has ended.
GateScan ==
    /\ Idle /\ Undisturbed
    /\ gate # NoTask /\ status[gate] \in Terminal
    /\ gate' = NoTask
    /\ UNCHANGED <<taskVars, autoVars, card, leaseVars, inbox, procVars, excl, execs, sched>>

-----------------------------------------------------------------------------
(* Users, pipelines, crashes *)

\* ENQUEUE_TASK_WITH_CARD, for the card as it is now: a gate whose task has
\* ended does not count, and is taken over, even with a workflow paused.
Click(r) ==
    /\ Undisturbed
    /\ status[r] = "none" /\ Cardinality(canceled) + faults < MaxTrouble
    /\ gate # NoTask => status[gate] \in Terminal
    /\ card.active = NoTask
    /\ status' = [status EXCEPT ![r] = "queued"]
    /\ bound' = bound \cup {r}
    /\ gate' = r
    /\ card' = [card EXCEPT !.active = r, !.rev = @ + 1]
    /\ UNCHANGED <<own, canceled, manifest, autoVars, leaseVars, inbox, procVars, excl, execs,
                   sched>>

\* The same while the card's repair still holds the gate: the card is bound to
\* it again.
ClickAgain ==
    /\ gate \in bound /\ Active(gate)
    /\ card.active = NoTask
    /\ card' = [card EXCEPT !.active = gate, !.rev = @ + 1]
    /\ UNCHANGED <<taskVars, gate, autoVars, leaseVars, inbox, procVars, excl, execs, sched>>

\* ENQUEUE_TASK: a repair asked for in a comment, which no card knows.  A gate
\* whose task has ended counts while a workflow is paused.
Comment(r) ==
    /\ Undisturbed
    /\ status[r] = "none" /\ Cardinality(canceled) + faults < MaxTrouble
    /\ gate # NoTask => status[gate] \in Terminal /\ ~paused
    /\ status' = [status EXCEPT ![r] = "queued"]
    /\ gate' = r
    /\ UNCHANGED <<own, bound, canceled, manifest, autoVars, card, leaseVars, inbox, procVars,
                   excl, execs, sched>>

\* REQUEST_REPAIR_CANCEL, and what the ingress does then for a repair that no
\* execution is expected to settle.
RequestCancel(r) ==
    /\ Cardinality(canceled) < MaxCancels /\ Undisturbed
    /\ card.active = r /\ gate = r /\ Active(r) /\ r \notin canceled
    /\ canceled' = canceled \cup {r}
    /\ execs' = IF /\ status[r] \in {"queued", "assigned", "waiting"}
                   /\ own[r] \in {NoLease, lease}
                THEN execs \cup {[task |-> r, worker |-> NoWorker, lease |-> own[r],
                                  kind |-> "run", pc |-> "cancel", rev |-> 0, idx |-> 0,
                                  seen |-> NoTask, ok |-> TRUE, again |-> FALSE]}
                ELSE execs
    /\ UNCHANGED <<status, own, bound, manifest, gate, autoVars, card, leaseVars, inbox, procVars,
                   excl, sched>>

\* request_repair_rollback, for what the card offers now.
RequestRollback(r) ==
    /\ Undisturbed /\ card.offer = r
    /\ CanAdmitRollback(r, "post_repair", card.rev)
    /\ AdmitRollback(r, "post_repair")
    /\ UNCHANGED <<own, bound, canceled, manifest, paused, cursor, ran, leaseVars, inbox,
                   procVars, excl, execs, sched>>

\* The pipeline that a repair waits for has ended and the event reaches it.
PipelineEvent(r) ==
    LET w == own[r].worker
        m == [task |-> r, kind |-> "resume"]
    IN  /\ status[r] = "waiting" /\ w \in up /\ m \notin inbox[w]
        /\ \A e \in execs : e.task = r => e.kind # "resume"
        /\ inbox' = [inbox EXCEPT ![w] = @ \cup {m}]
        /\ UNCHANGED <<taskVars, gate, autoVars, card, leaseVars, procVars, excl, execs, sched>>

Crash(w) ==
    /\ w \in up /\ faults < MaxFaults
    /\ up' = up \ {w}
    /\ faults' = faults + 1
    /\ execs' = {e \in execs : e.worker # w}
    /\ excl' = [excl EXCEPT ![w] = NoTask]
    /\ inbox' = [inbox EXCEPT ![w] = {}]
    /\ UNCHANGED <<taskVars, gate, autoVars, card, leaseVars, sched>>

\* The lease of a worker that no longer renews it runs out.
LeaseExpires ==
    /\ Dead(lease.worker)
    /\ lease' = NoLease
    /\ UNCHANGED <<taskVars, gate, autoVars, card, fence, inbox, procVars, excl, execs, sched>>

-----------------------------------------------------------------------------
(* Specification *)

RepairStep(e) ==
    \/ Push(e) \/ SuspendRepair(e) \/ Error(e) \/ Settle(e) \/ AdmitFailed(e)
    \/ \E ok \in BOOLEAN : Finish(e, ok)
    \/ PublishEligibility(e) \/ Notify(e)

CancelStep(e) == Cancel(e) \/ CancelAdmit(e) \/ CancelFinal(e) \/ Kill(e)

RollbackStep(e) ==
    \/ \E outcome \in {"completed", "failed"} : FinishRollback(e, outcome)
    \/ RollbackError(e)

AutoStep(e) == Check(e) \/ Pause(e) \/ RunCommand(e) \/ RecordCommand(e) \/ SuspendAuto(e)

ExecStep(e) ==
    \/ Enter(e) \/ Begin(e) \/ Complete(e) \/ Fail(e) \/ Failed(e) \/ Resume(e)
    \/ RepairStep(e) \/ CancelStep(e) \/ RollbackStep(e) \/ AutoStep(e)

SchedStep ==
    \/ \E t \in Tasks : Dispatch(t) \/ Recover(t)
    \/ \E r \in Repairs : TransferWaiting(r) \/ SchedCancel(r)
    \/ RecoverPaused \/ SchedRevoke \/ SchedRollback \/ SchedNotify \/ SchedResume \/ GateScan

UserStep ==
    \/ \E r \in Repairs : Click(r) \/ Comment(r) \/ RequestCancel(r) \/ RequestRollback(r)
    \/ ClickAgain

Next ==
    \/ \E w \in Workers : (\E m \in inbox[w] : Start(w, m)) \/ Crash(w)
    \/ \E e \in execs : ExecStep(e)
    \/ SchedStep
    \/ \E t \in Gated : Timeout(t)
    \/ UserStep
    \/ \E r \in Repairs : PipelineEvent(r)
    \/ LeaseExpires

Spec == Init /\ [][Next]_vars

-----------------------------------------------------------------------------
(* Properties *)

\* A repair or rollback that has not ended holds the MR's gate, so that there is
\* never a second one: neither a click, a comment, an automatic or requested
\* rollback, a cancellation, a recovery nor the scan of the gates takes the gate
\* from it.
GateHeldByActive == \A t \in Gated : Active(t) => gate = t

\* Nothing else of the MR executes in a worker while a repair does: MrSession.
RepairAlone ==
    \A e, f \in execs : Inside(e) /\ Inside(f) /\ e.worker = f.worker /\ e.task \in Repairs
                            => f = e

\* A repair is rolled back only when it has ended, and with its manifest frozen:
\* no commit can join the ones that are reverted.
RollbackIsClosed ==
    \A r \in Repairs : status[Rollback(r)] # "none" =>
        /\ manifest[r].frozen /\ manifest[r].n > 0
        /\ status[r] \in Terminal

\* No review command runs in the middle of a repair, also while the repair waits
\* for its pipeline and after a crash has moved the MR to another worker: the
\* session and the check before every command together.
ReviewOutsideRepair ==
    \A e \in execs, r \in Repairs : e.pc = "cmd" => status[r] \notin {"running", "waiting"}

\* A worker keeps the MR for a repair only while the repair executes there or
\* waits for its pipeline; otherwise nothing would ever enter the session again.
\* A cancellation, or a fault, may end a repair that waits without telling its
\* session.
ExclusiveHasRepair ==
    \A w \in Workers : excl[w] # NoTask =>
        \/ \E e \in execs : e.worker = w /\ e.task = excl[w]
        \/ status[excl[w]] = "waiting"
        \/ excl[w] \in canceled \/ faults > 0

\* Pausing and waking never repeats a command, as long as nothing crashes.
CommandsOnce == faults = 0 => \A c \in 1..Commands : ran[c] <= 1

\* A task that has ended stays ended.
EndedForGood ==
    [][\A t \in Tasks : status[t] \in Terminal => status'[t] \in Terminal]_vars

=============================================================================
