-------------------------- MODULE RepairGate_proofs --------------------------
(***************************************************************************)
(* For any sets of workers and repairs: the gate of the MR belongs to the  *)
(* one repair or rollback that has not ended, a repair is rolled back only *)
(* when it is over and its list of commits closed, and what has ended      *)
(* stays ended.  The second half says what a step of an execution is, and  *)
(* that the steps keep the types, for the theorems of RepairGate_review.   *)
(***************************************************************************)
EXTENDS RepairGate, SequenceTheorems, TLAPS

\* The parts of the state that the properties are about have their types.
CoreType ==
    /\ status \in [Tasks -> Statuses]
    /\ gate \in Gated \cup {NoTask}
    /\ manifest \in [Repairs -> [n : Nat, frozen : BOOLEAN]]
    /\ bound \subseteq Repairs

Core == CoreType /\ GateHeldByActive /\ RollbackIsClosed

\* The scheduler stores a rollback as failed only for a task that has ended.
SchedKnows ==
    /\ sched = [task |-> sched.task, lease |-> sched.lease, steps |-> sched.steps]
    /\ sched.steps \in Seq(SchedSteps)
    /\ sched = NoSched \/ sched.steps # <<>>
    /\ \A i \in 1..Len(sched.steps) :
          sched.steps[i] = "rollback" => sched.task \in Tasks /\ status[sched.task] \in Terminal

IInv == Core /\ SchedKnows

\* What has ended stays ended, in one step.
Ended == \A t \in Tasks : status[t] \in Terminal => status'[t] \in Terminal

-----------------------------------------------------------------------------
(* What the steps do to that state *)

\* Names of tasks: a rollback is no repair, belongs to one repair, and neither
\* is the workflow.
LEMMA Names ==
    /\ Repairs \subseteq Gated /\ Rollbacks \subseteq Gated
    /\ \A r \in Repairs : Rollback(r) \in Rollbacks /\ Rollback(r) \notin Repairs
    /\ \A r, q \in Repairs : Rollback(r) = Rollback(q) => r = q
    /\ Gated \subseteq Tasks /\ AutoTask \in Tasks /\ AutoTask \notin Gated
    /\ NoTask \notin Gated
BY GateConstants DEF GateConstants, Gated, Tasks, Rollbacks, Rollback

\* A step that leaves statuses, gate, manifests and bindings alone.
LEMMA Quiet ==
    ASSUME Core, UNCHANGED <<status, gate, manifest, bound>>
    PROVE  Core' /\ Ended
BY DEF Core, CoreType, GateHeldByActive, RollbackIsClosed, Active, Ended

\* A task that is under way gets another status.
LEMMA Move ==
    ASSUME Core, NEW t, NEW s \in Statuses \ {"none"}, Active(t),
           status' = [status EXCEPT ![t] = s], UNCHANGED <<gate, manifest, bound>>
    PROVE  Core' /\ Ended
<1>1. \A x \in Tasks : status'[x] = IF x = t THEN s ELSE status[x]
  BY DEF Core, CoreType
<1>2. CoreType'
  BY Zenon DEF Core, CoreType
<1>3. GateHeldByActive'
  BY <1>1, Names DEF Core, GateHeldByActive, Active
<1>4. Ended
  BY <1>1 DEF Ended, Active
<1>5. RollbackIsClosed'
  <2> SUFFICES ASSUME NEW r \in Repairs, status'[Rollback(r)] # "none"
               PROVE  manifest'[r].frozen /\ manifest'[r].n > 0 /\ status'[r] \in Terminal
    BY DEF RollbackIsClosed
  <2>1. Rollback(r) \in Tasks /\ r \in Tasks
    BY Names
  <2>2. status[Rollback(r)] # "none"
    BY <1>1, <2>1 DEF Active
  <2> QED
    BY <1>4, <2>1, <2>2 DEF Core, RollbackIsClosed, Ended
<1> QED
  BY <1>2, <1>3, <1>4, <1>5 DEF Core

\* RESUME_AUTO_AFTER_TRIAGE only takes a gate whose task has ended.
LEMMA ResumeAutoKeeps ==
    ASSUME Core, NEW t, NEW l, NEW held, ResumeAuto(t, l, held), UNCHANGED <<manifest, bound>>
    PROVE  Core' /\ Ended
<1>1. /\ status' \in [Tasks -> Statuses]
      /\ \A x \in Gated : status'[x] = status[x]
      /\ Ended
  BY Names DEF Core, CoreType, ResumeAuto, Ended, Statuses, Terminal
<1>2. gate' = gate \/ (gate' = NoTask /\ (gate # NoTask => status[gate] \in Terminal))
  BY DEF ResumeAuto
<1>3. CoreType'
  BY <1>1, <1>2 DEF Core, CoreType
<1>4. GateHeldByActive'
  BY <1>1, <1>2 DEF Core, GateHeldByActive, Active
<1>5. RollbackIsClosed'
  BY <1>1, Names DEF Core, RollbackIsClosed
<1> QED
  BY <1>1, <1>3, <1>4, <1>5 DEF Core

\* FINALIZE_REPAIR_CANCEL ends the repair whose gate it takes.
LEMMA FinalizeCancelKeeps ==
    ASSUME Core, NEW r, NEW l, NEW rev, FinalizeCancel(r, l, rev), UNCHANGED <<manifest, bound>>
    PROVE  Core' /\ Ended
<1>1. CASE r \notin bound
  <2>1. UNCHANGED <<status, gate>>
    BY <1>1 DEF FinalizeCancel
  <2> QED
    BY <2>1, Quiet
<1>2. CASE r \in bound
  <2>1. r \in Repairs /\ r \in Gated /\ r # AutoTask
    BY <1>2, Names DEF Core, CoreType
  <2>2. /\ status' \in [Tasks -> Statuses]
        /\ \A x \in Gated : status'[x] \in {status[x]} \cup (IF x = r THEN {"canceled"} ELSE {})
        /\ Ended
    BY <2>1, Names DEF Core, CoreType, FinalizeCancel, Ended, Statuses, Terminal
  <2>3. gate' = gate \/ (gate = r /\ gate' = NoTask /\ status'[r] = "canceled")
    BY <2>1, Names DEF FinalizeCancel, Core, CoreType
  <2>4. CoreType'
    BY <2>2, <2>3 DEF Core, CoreType
  <2>5. GateHeldByActive'
    BY <2>1, <2>2, <2>3 DEF Core, GateHeldByActive, Active, Terminal
  <2>6. RollbackIsClosed'
    BY <2>1, <2>2, Names DEF Core, RollbackIsClosed, Ended
  <2> QED
    BY <2>2, <2>4, <2>5, <2>6 DEF Core
<1> QED
  BY <1>1, <1>2

\* ADMIT_REPAIR_ROLLBACK: nothing but the repair can hold the gate, and it is
\* over, with its manifest closed.
LEMMA AdmitRollbackKeeps ==
    ASSUME Core, NEW r, NEW trigger \in {"post_repair", "cancel", "auto_failure"}, NEW rev,
           CanAdmitRollback(r, trigger, rev), AdmitRollback(r, trigger),
           UNCHANGED <<manifest, bound>>
    PROVE  Core' /\ Ended
<1> DEFINE b == Rollback(r)
<1>1. r \in Repairs /\ r \in Gated /\ b \in Gated /\ b \in Tasks /\ r \in Tasks /\ b # r
  BY Names DEF Core, CoreType, CanAdmitRollback
<1>2. /\ status'[r] \in Terminal /\ status'[b] = "queued" /\ status' \in [Tasks -> Statuses]
      /\ \A x \in Tasks \ {r, b} : status'[x] = status[x]
      /\ status[b] = "none"
  BY Zenon, <1>1
     DEF Core, CoreType, CanAdmitRollback, AdmitRollback, Trigger, Statuses, Terminal
<1>3. CoreType'
  BY <1>1, <1>2 DEF Core, CoreType, AdmitRollback
<1>4. GateHeldByActive'
  BY <1>1, <1>2, Names DEF Core, CoreType, GateHeldByActive, Active, AdmitRollback, CanAdmitRollback
<1>5. RollbackIsClosed'
  <2> SUFFICES ASSUME NEW q \in Repairs, status'[Rollback(q)] # "none"
               PROVE  manifest'[q].frozen /\ manifest'[q].n > 0 /\ status'[q] \in Terminal
    BY DEF RollbackIsClosed
  <2>1. CASE q = r
    BY <2>1, <1>2 DEF CanAdmitRollback
  <2>2. CASE q # r
    <3>1. Rollback(q) \in Tasks \ {r, b} /\ q \in Tasks \ {r, b}
      BY <2>2, <1>1, Names
    <3> QED
      BY <3>1, <1>2 DEF Core, RollbackIsClosed
  <2> QED
    BY <2>1, <2>2
<1>6. Ended
  BY <1>1, <1>2 DEF Ended, Terminal
<1> QED
  BY <1>3, <1>4, <1>5, <1>6 DEF Core

\* FREEZE_REPAIR_COMMIT_MANIFEST opens no manifest.
LEMMA FreezeKeeps ==
    ASSUME Core, NEW r, Freeze(r), UNCHANGED <<status, gate, bound>>
    PROVE  Core' /\ Ended
<1>1. /\ manifest' \in [Repairs -> [n : Nat, frozen : BOOLEAN]]
      /\ \A q \in Repairs : /\ manifest'[q].n = manifest[q].n
                            /\ manifest[q].frozen => manifest'[q].frozen
  BY Zenon DEF Core, CoreType, Freeze
<1>2. CoreType' /\ GateHeldByActive' /\ Ended
  BY <1>1 DEF Core, CoreType, GateHeldByActive, Active, Ended
<1>3. RollbackIsClosed'
  BY <1>1 DEF Core, RollbackIsClosed
<1> QED
  BY <1>2, <1>3 DEF Core

-----------------------------------------------------------------------------
(* The steps *)

\* The steps of an execution that only go on: they write neither status, gate,
\* manifest nor binding.
LEMMA ReadingSteps ==
    ASSUME Core, NEW e,
           \/ Enter(e) \/ Error(e) \/ PublishEligibility(e) \/ Notify(e) \/ Kill(e)
           \/ RollbackError(e) \/ Check(e) \/ RunCommand(e) \/ RecordCommand(e)
           \/ \E ok \in BOOLEAN : Finish(e, ok)
    PROVE  Core' /\ Ended
<1>1. UNCHANGED <<status, gate, manifest, bound>>
  BY Zenon DEF Enter, Error, PublishEligibility, Notify, Kill, RollbackError, Check,
         RunCommand, RecordCommand, Finish, taskVars
<1> QED
  BY <1>1, Quiet

\* A commit joins only a manifest that is open.
LEMMA PushKeeps ==
    ASSUME Core, NEW e, Push(e)
    PROVE  Core' /\ Ended
<1> DEFINE r == e.task
<1>1. UNCHANGED <<status, gate, bound>> /\ r \in Repairs
  BY DEF Push
<1>2. CASE manifest' = manifest
  BY <1>1, <1>2, Quiet
<1>3. CASE ~manifest[r].frozen /\ manifest' = [manifest EXCEPT ![r].n = @ + 1]
  <2>1. /\ manifest' \in [Repairs -> [n : Nat, frozen : BOOLEAN]]
        /\ \A q \in Repairs \ {r} : manifest'[q] = manifest[q]
    BY SMT, Z3, <1>1, <1>3 DEF Core, CoreType
  <2>2. CoreType' /\ GateHeldByActive' /\ Ended
    BY <1>1, <2>1 DEF Core, CoreType, GateHeldByActive, Active, Ended
  <2>3. RollbackIsClosed'
    BY <1>1, <1>3, <2>1 DEF Core, RollbackIsClosed
  <2> QED
    BY <2>2, <2>3 DEF Core
<1> QED
  BY <1>2, <1>3 DEF Push

\* A compare-and-set on the status of a task.
Moved ==
    \/ status' = status
    \/ \E t, s : /\ status[t] \in {"assigned", "waiting", "running"}
                 /\ s \in {"running", "waiting", "completed", "failed", "paused"}
                 /\ status' = [status EXCEPT ![t] = s]

\* The steps that move the status of the execution's own task, as a
\* compare-and-set on it.
LEMMA MovingSteps ==
    ASSUME Core, NEW e,
           \/ Begin(e) \/ SuspendRepair(e) \/ Complete(e) \/ Failed(e) \/ Pause(e)
           \/ SuspendAuto(e) \/ \E outcome \in {"completed", "failed"} : FinishRollback(e, outcome)
    PROVE  Core' /\ Ended
<1>1. UNCHANGED <<gate, manifest, bound>>
  BY Zenon DEF Begin, SuspendRepair, Complete, Failed, Pause, SuspendAuto, FinishRollback
<1>2. Moved
  <2>1. CASE Begin(e)
    BY Zenon, <2>1 DEF Begin, Moved
  <2>2. CASE SuspendRepair(e)
    BY Zenon, <2>2 DEF SuspendRepair, Moved
  <2>3. CASE Complete(e)
    BY SMT, Z3, <2>3 DEF Complete, Moved
  <2>4. CASE Failed(e)
    BY SMT, Z3, <2>4 DEF Failed, Moved
  <2>5. CASE Pause(e)
    <3>1. \/ status' = status
          \/ status[AutoTask] = "running" /\ status' = [status EXCEPT ![AutoTask] = "paused"]
      BY <2>5 DEF Pause
    <3> QED
      BY SMT, Z3, <3>1 DEF Moved
  <2>6. CASE SuspendAuto(e)
    <3>1. \/ status' = status
          \/ status[AutoTask] = "running" /\ status' = [status EXCEPT ![AutoTask] = "paused"]
      BY <2>6 DEF SuspendAuto
    <3> QED
      BY SMT, Z3, <3>1 DEF Moved
  <2>7. CASE \E outcome \in {"completed", "failed"} : FinishRollback(e, outcome)
    <3>1. \/ status' = status
          \/ /\ status[e.task] \in {"assigned", "running"}
             /\ \E s \in {"completed", "failed"} : status' = [status EXCEPT ![e.task] = s]
      BY Zenon, <2>7 DEF FinishRollback, CompleteRollback
    <3> QED
      BY SMT, Z3, <3>1 DEF Moved
  <2> QED
    BY <2>1, <2>2, <2>3, <2>4, <2>5, <2>6, <2>7
<1>3. CASE status' = status
  BY <1>1, <1>3, Quiet
<1>4. ASSUME NEW t, NEW s, status[t] \in {"assigned", "waiting", "running"},
             s \in {"running", "waiting", "completed", "failed", "paused"},
             status' = [status EXCEPT ![t] = s]
      PROVE  Core' /\ Ended
  <2>1. Active(t) /\ s \in Statuses \ {"none"}
    BY <1>4 DEF Active, Statuses, Terminal
  <2> QED
    BY Zenon, <1>1, <1>4, <2>1, Move
<1> QED
  BY SMT, Z3, <1>2, <1>3, <1>4 DEF Moved

\* Settling, failing and cancelling close the manifest or leave it.
LEMMA FreezingSteps ==
    ASSUME Core, NEW e, Settle(e) \/ Fail(e) \/ Cancel(e)
    PROVE  Core' /\ Ended
<1>1. UNCHANGED <<status, gate, bound>>
  BY Zenon DEF Settle, Fail, Cancel
<1>2. manifest' = manifest \/ Freeze(e.task)
  BY Zenon DEF Settle, Fail, Cancel
<1> QED
  BY <1>1, <1>2, Quiet, FreezeKeeps

\* The two ways an execution has its repair rolled back, and the two hand-overs.
LEMMA HandingSteps ==
    ASSUME Core, NEW e, AdmitFailed(e) \/ CancelAdmit(e) \/ CancelFinal(e) \/ Resume(e)
    PROVE  Core' /\ Ended
<1>1. CASE AdmitFailed(e)
  <2>1. UNCHANGED <<manifest, bound>>
    BY <1>1 DEF AdmitFailed
  <2>2. CASE CanAdmitRollback(e.task, "auto_failure", e.rev)
    BY <1>1, <2>1, <2>2, AdmitRollbackKeeps DEF AdmitFailed
  <2>3. CASE ~CanAdmitRollback(e.task, "auto_failure", e.rev)
    BY <1>1, <2>1, <2>3, Quiet DEF AdmitFailed
  <2> QED
    BY <2>2, <2>3
<1>2. CASE CancelAdmit(e)
  <2>1. UNCHANGED <<manifest, bound>>
    BY <1>2 DEF CancelAdmit
  <2>2. \/ UNCHANGED <<status, gate>>
        \/ /\ CanAdmitRollback(e.task, "cancel", e.rev)
           /\ AdmitRollback(e.task, "cancel")
    BY Zenon, <1>2 DEF CancelAdmit
  <2> QED
    BY <2>1, <2>2, Quiet, AdmitRollbackKeeps
<1>3. CASE CancelFinal(e)
  BY <1>3, FinalizeCancelKeeps DEF CancelFinal
<1>4. CASE Resume(e)
  BY <1>4, ResumeAutoKeeps DEF Resume
<1> QED
  BY <1>1, <1>2, <1>3, <1>4

\* Any step of an execution.
LEMMA ExecStepKeeps ==
    ASSUME Core, NEW e, ExecStep(e)
    PROVE  Core' /\ Ended /\ sched' = sched
<1>1. Core' /\ Ended
  BY ReadingSteps, PushKeeps, MovingSteps, FreezingSteps, HandingSteps
     DEF ExecStep, RepairStep, CancelStep, RollbackStep, AutoStep
<1>2. sched' = sched
  BY Zenon
     DEF ExecStep, RepairStep, CancelStep, RollbackStep, AutoStep, Enter, Begin, Complete, Fail,
         Failed, Resume, Push, SuspendRepair, Error, Settle, AdmitFailed, Finish,
         PublishEligibility, Notify, Cancel, CancelAdmit, CancelFinal, Kill, FinishRollback,
         RollbackError, Check, Pause, RunCommand, RecordCommand, SuspendAuto
<1> QED
  BY <1>1, <1>2

\* A repair is admitted when the gate is free or its task has ended.
LEMMA AdmittingSteps ==
    ASSUME Core, NEW r \in Repairs, Click(r) \/ Comment(r)
    PROVE  Core' /\ Ended /\ sched' = sched
<1>1. /\ status' = [status EXCEPT ![r] = "queued"] /\ status[r] = "none"
      /\ gate' = r /\ manifest' = manifest /\ sched' = sched
      /\ bound' \subseteq bound \cup {r}
      /\ gate # NoTask => status[gate] \in Terminal
  BY DEF Click, Comment
<1>2. /\ r \in Gated /\ r \in Tasks
      /\ \A x \in Tasks \ {r} : status'[x] = status[x]
      /\ status'[r] = "queued" /\ status' \in [Tasks -> Statuses]
  BY <1>1, Names DEF Core, CoreType, Statuses
<1>3. CoreType' /\ Ended
  BY <1>1, <1>2 DEF Core, CoreType, Ended, Terminal
<1>4. GateHeldByActive'
  BY <1>1, <1>2, Names DEF Core, CoreType, GateHeldByActive, Active
<1>5. RollbackIsClosed'
  BY <1>1, <1>2, Names DEF Core, RollbackIsClosed, Terminal
<1> QED
  BY <1>1, <1>3, <1>4, <1>5 DEF Core

\* The scheduler's dispatching and recovering, and its scans.
LEMMA SchedulerSteps ==
    ASSUME Core, SchedKnows,
           \/ \E t \in Tasks : Dispatch(t) \/ Recover(t)
           \/ \E t \in Gated : Timeout(t)
           \/ \E r \in Repairs : TransferWaiting(r) \/ SchedCancel(r)
           \/ RecoverPaused \/ SchedRevoke \/ SchedRollback \/ SchedNotify \/ SchedResume
           \/ GateScan
    PROVE  Core' /\ Ended
<1>1. ASSUME NEW t \in Tasks, Dispatch(t) \/ Recover(t)
      PROVE  Core' /\ Ended
  <2>1. PICK s \in {"assigned", "queued", "failed"} :
           /\ status[t] \in {"queued", "assigned", "running"}
           /\ status' = [status EXCEPT ![t] = s]
    BY <1>1 DEF Dispatch, Recover
  <2>2. UNCHANGED <<gate, manifest, bound>>
    BY <1>1 DEF Dispatch, Recover
  <2>3. Active(t) /\ s \in Statuses \ {"none"}
    BY <2>1 DEF Active, Statuses, Terminal
  <2> QED
    BY Zenon, <2>1, <2>2, <2>3, Move
<1>2. ASSUME NEW t \in Gated, Timeout(t)
      PROVE  Core' /\ Ended
  <2>1. status[t] = "running" /\ status' = [status EXCEPT ![t] = "failed"]
    BY <1>2 DEF Timeout, CompleteRollback
  <2>2. UNCHANGED <<gate, manifest, bound>>
    BY Zenon, <1>2 DEF Timeout
  <2>3. Active(t) /\ "failed" \in Statuses \ {"none"}
    BY <2>1 DEF Active, Statuses, Terminal
  <2> QED
    BY Zenon, <2>1, <2>2, <2>3, Move
<1>3. ASSUME NEW r \in Repairs, SchedCancel(r)
      PROVE  Core' /\ Ended
  BY <1>3, FinalizeCancelKeeps DEF SchedCancel
<1>4. CASE \/ \E r \in Repairs : TransferWaiting(r)
           \/ RecoverPaused \/ SchedRevoke \/ SchedNotify
  <2>1. UNCHANGED <<status, gate, manifest, bound>>
    BY Zenon, <1>4 DEF TransferWaiting, RecoverPaused, SchedRevoke, SchedNotify, taskVars
  <2> QED
    BY <2>1, Quiet
<1>5. CASE SchedRollback
  <2> DEFINE steps == sched.steps
  <2>a. /\ steps \in Seq(SchedSteps) /\ steps # <<>> /\ Head(steps) = "rollback"
        /\ status' = [status EXCEPT ![sched.task] = "failed"]
        /\ UNCHANGED <<gate, manifest, bound>>
    BY <1>5 DEF SchedRollback, CompleteRollback, SchedKnows, Idle
  <2>b. 1 \in 1..Len(steps) /\ steps[1] = "rollback"
    BY SMT, Z3, <2>a
  <2>1. /\ status' = [status EXCEPT ![sched.task] = "failed"]
        /\ status[sched.task] \in Terminal
        /\ UNCHANGED <<gate, manifest, bound>>
    BY <2>a, <2>b DEF SchedKnows
  <2>2. \A t \in Tasks : \/ status'[t] = status[t]
                         \/ status[t] \in Terminal /\ status'[t] = "failed"
    BY <2>1 DEF Core, CoreType
  <2>3. CoreType' /\ Ended
    BY Zenon, <2>1, <2>2 DEF Core, CoreType, Ended, Terminal, Statuses
  <2>4. GateHeldByActive' /\ RollbackIsClosed'
    BY <2>1, <2>2, Names DEF Core, GateHeldByActive, RollbackIsClosed, Active, Terminal
  <2> QED
    BY <2>3, <2>4 DEF Core
<1>6. CASE SchedResume
  <2>1. UNCHANGED <<manifest, bound>>
    BY <1>6 DEF SchedResume
  <2>2. \/ UNCHANGED <<status, gate>>
        \/ \E w \in up : ResumeAuto(sched.task, Claimed(w), TRUE)
    BY Zenon, <1>6 DEF SchedResume
  <2> QED
    BY Zenon, <2>1, <2>2, Quiet, ResumeAutoKeeps
<1>7. CASE GateScan
  <2>1. UNCHANGED <<status, manifest, bound>> /\ gate' = NoTask /\ status[gate] \in Terminal
    BY <1>7 DEF GateScan, taskVars
  <2> QED
    BY <2>1 DEF Core, CoreType, GateHeldByActive, RollbackIsClosed, Active, Ended
<1> QED
  BY <1>1, <1>2, <1>3, <1>4, <1>5, <1>6, <1>7

\* The lists of steps that a pass starts with.
Revoke == <<"revoke">>
FailRepair == <<"revoke", "resume", "notify">>
FailRollback == <<"revoke", "rollback", "resume">>
TimeoutRepair == <<"notify", "resume">>
TimeoutRollback == <<"resume">>

LEMMA Lists ==
    /\ \A s \in {Revoke, FailRepair, FailRollback, TimeoutRepair, TimeoutRollback} :
          s \in Seq(SchedSteps) /\ s # <<>>
    /\ \A s \in {Revoke, FailRepair, TimeoutRepair, TimeoutRollback} :
          \A i \in 1..Len(s) : s[i] # "rollback"
<1>1. /\ Revoke \in Seq(SchedSteps) /\ Revoke # <<>>
      /\ \A i \in 1..Len(Revoke) : Revoke[i] # "rollback"
  BY SMT, Z3 DEF Revoke, SchedSteps
<1>2. /\ FailRepair \in Seq(SchedSteps) /\ FailRepair # <<>>
      /\ \A i \in 1..Len(FailRepair) : FailRepair[i] # "rollback"
  BY SMT, Z3 DEF FailRepair, SchedSteps
<1>3. FailRollback \in Seq(SchedSteps) /\ FailRollback # <<>>
  BY SMT, Z3 DEF FailRollback, SchedSteps
<1>4. /\ TimeoutRepair \in Seq(SchedSteps) /\ TimeoutRepair # <<>>
      /\ \A i \in 1..Len(TimeoutRepair) : TimeoutRepair[i] # "rollback"
  BY SMT, Z3 DEF TimeoutRepair, SchedSteps
<1>5. /\ TimeoutRollback \in Seq(SchedSteps) /\ TimeoutRollback # <<>>
      /\ \A i \in 1..Len(TimeoutRollback) : TimeoutRollback[i] # "rollback"
  BY SMT, Z3 DEF TimeoutRollback, SchedSteps
<1> QED
  BY <1>1, <1>2, <1>3, <1>4, <1>5

\* Starting a pass of the scheduler; a rollback is on its list only after a
\* recovery that has given up on it.
LEMMA PassKnows ==
    ASSUME Core', NEW t \in Tasks, NEW steps \in Seq(SchedSteps), steps # <<>>, Pass(t, steps),
           \A i \in 1..Len(steps) : steps[i] = "rollback" => status'[t] \in Terminal
    PROVE  SchedKnows'
BY DEF Pass, SchedKnows

\* What is left of a sequence without its first element.
LEMMA TailFacts ==
    ASSUME NEW S, NEW s \in Seq(S), s # <<>>, Len(s) # 1
    PROVE  /\ Tail(s) \in Seq(S) /\ Tail(s) # <<>>
           /\ \A i \in 1..Len(Tail(s)) : i + 1 \in 1..Len(s) /\ Tail(s)[i] = s[i + 1]
<1>1. Len(s) \in Nat /\ Len(s) > 1
  BY SMT, Z3, EmptySeq
<1>2. /\ Tail(s) \in Seq(S) /\ Len(Tail(s)) = Len(s) - 1
      /\ \A i \in 1..Len(Tail(s)) : Tail(s)[i] = s[i + 1]
  BY HeadTailProperties
<1>3. Tail(s) # <<>>
  <2>1. Len(Tail(s)) # 0
    BY SMT, Z3, <1>1, <1>2
  <2> QED
    BY <2>1, <1>2, EmptySeq, Zenon
<1>4. \A i \in 1..Len(Tail(s)) : i + 1 \in 1..Len(s)
  BY SMT, Z3, <1>1, <1>2
<1> QED
  BY <1>2, <1>3, <1>4

\* Going on with a pass.
LEMMA NextStepKnows ==
    ASSUME Core, SchedKnows, Ended, NextStep, ~Idle
    PROVE  SchedKnows'
<1> DEFINE steps == sched.steps
<1>1. steps \in Seq(SchedSteps) /\ steps # <<>>
  BY DEF SchedKnows, Idle
<1>2. CASE Len(steps) = 1
  BY SMT, Z3, <1>2 DEF NextStep, SchedKnows, NoSched
<1>3. CASE Len(steps) # 1
  <2>1. /\ Tail(steps) \in Seq(SchedSteps) /\ Tail(steps) # <<>>
        /\ \A i \in 1..Len(Tail(steps)) : i + 1 \in 1..Len(steps) /\ Tail(steps)[i] = steps[i + 1]
    BY <1>1, <1>3, TailFacts
  <2>2. sched' = [task |-> sched.task, lease |-> sched.lease, steps |-> Tail(steps)]
    BY Zenon, <1>3 DEF NextStep, SchedKnows
  <2> QED
    BY Zenon, <2>1, <2>2 DEF SchedKnows, Ended
<1> QED
  BY <1>2, <1>3

\* The scheduler's list of steps is right after any of its steps.
LEMMA SchedulerKnows ==
    ASSUME Core, SchedKnows, Core', Ended,
           \/ \E t \in Tasks : Dispatch(t) \/ Recover(t)
           \/ \E t \in Gated : Timeout(t)
           \/ \E r \in Repairs : TransferWaiting(r) \/ SchedCancel(r)
           \/ RecoverPaused \/ SchedRevoke \/ SchedRollback \/ SchedNotify \/ SchedResume
           \/ GateScan
    PROVE  SchedKnows'
<1>1. CASE sched' = sched
  BY <1>1 DEF SchedKnows, Ended
<1>2. CASE SchedRevoke \/ SchedRollback \/ SchedNotify \/ SchedResume
  <2>1. NextStep /\ ~Idle
    BY Zenon, <1>2 DEF SchedRevoke, SchedRollback, SchedNotify, SchedResume
  <2> QED
    BY <2>1, NextStepKnows
<1>3. ASSUME NEW t \in Tasks, Recover(t)
      PROVE  SchedKnows'
  <2>1. \/ Pass(t, Revoke) \/ Pass(t, FailRepair)
        \/ Pass(t, FailRollback) /\ status' = [status EXCEPT ![t] = "failed"]
    BY <1>3 DEF Recover, Revoke, FailRepair, FailRollback, Tasks, Gated
  <2>2. CASE Pass(t, Revoke) \/ Pass(t, FailRepair)
    BY <2>2, Lists, PassKnows
  <2>3. CASE Pass(t, FailRollback) /\ status' = [status EXCEPT ![t] = "failed"]
    <3>1. status'[t] \in Terminal
      BY Zenon, <2>3 DEF Core, CoreType, Terminal
    <3> QED
      BY <2>3, <3>1, Lists, PassKnows
  <2> QED
    BY <2>1, <2>2, <2>3
<1>4. ASSUME NEW t \in Gated, Timeout(t)
      PROVE  SchedKnows'
  <2>1. Pass(t, TimeoutRepair) \/ Pass(t, TimeoutRollback)
    BY Zenon, <1>4 DEF Timeout, TimeoutRepair, TimeoutRollback
  <2> QED
    BY Zenon, <2>1, Lists, PassKnows, Names
<1>5. CASE RecoverPaused
  <2>1. Pass(AutoTask, Revoke)
    BY Zenon, <1>5 DEF RecoverPaused, Revoke
  <2> QED
    BY Zenon, <2>1, Lists, PassKnows, Names
<1> QED
  BY Zenon, <1>1, <1>2, <1>3, <1>4, <1>5 DEF Dispatch, TransferWaiting, SchedCancel, GateScan

-----------------------------------------------------------------------------
(* The invariant *)

LEMMA InitHolds == Init => IInv
<1> SUFFICES ASSUME Init PROVE IInv
  OBVIOUS
<1>1. /\ status \in [Tasks -> Statuses] /\ \A t \in Gated : status[t] = "none"
      /\ gate = NoTask /\ bound = {} /\ sched = NoSched
      /\ manifest \in [Repairs -> [n : Nat, frozen : BOOLEAN]]
  BY Names DEF Init, Statuses
<1>2. Core
  BY <1>1, Names DEF Core, CoreType, GateHeldByActive, RollbackIsClosed, Active
<1>3. SchedKnows
  BY SMT, Z3, <1>1 DEF SchedKnows, NoSched
<1> QED
  BY <1>2, <1>3 DEF IInv

LEMMA StepHolds == IInv /\ [Next]_vars => IInv' /\ Ended
<1> SUFFICES ASSUME Core, SchedKnows, [Next]_vars PROVE Core' /\ SchedKnows' /\ Ended
  BY DEF IInv
<1>1. CASE UNCHANGED vars
  <2>1. UNCHANGED <<status, gate, manifest, bound, sched>>
    BY <1>1 DEF vars, taskVars
  <2> QED
    BY <2>1, Quiet DEF SchedKnows
<1>2. ASSUME NEW e \in execs, ExecStep(e)
      PROVE  Core' /\ SchedKnows' /\ Ended
  BY <1>2, ExecStepKeeps DEF SchedKnows, Ended
<1>3. CASE SchedStep \/ \E t \in Gated : Timeout(t)
  BY <1>3, SchedulerSteps, SchedulerKnows DEF SchedStep
<1>4. ASSUME NEW r \in Repairs, Click(r) \/ Comment(r)
      PROVE  Core' /\ SchedKnows' /\ Ended
  BY <1>4, AdmittingSteps DEF SchedKnows, Ended
<1>5. ASSUME NEW r \in Repairs, RequestRollback(r)
      PROVE  Core' /\ SchedKnows' /\ Ended
  <2>1. UNCHANGED <<manifest, bound, sched>>
    BY <1>5 DEF RequestRollback
  <2>2. Core' /\ Ended
    BY <1>5, <2>1, AdmitRollbackKeeps DEF RequestRollback
  <2> QED
    BY <2>1, <2>2 DEF SchedKnows, Ended
<1>6. CASE \/ \E w \in Workers : (\E m \in inbox[w] : Start(w, m)) \/ Crash(w)
           \/ \E r \in Repairs : RequestCancel(r) \/ PipelineEvent(r)
           \/ ClickAgain \/ LeaseExpires
  <2>1. UNCHANGED <<status, gate, manifest, bound, sched>>
    BY Zenon, <1>6
       DEF Start, Crash, RequestCancel, PipelineEvent, ClickAgain, LeaseExpires, taskVars
  <2> QED
    BY <2>1, Quiet DEF SchedKnows
<1> QED
  BY Zenon, <1>1, <1>2, <1>3, <1>4, <1>5, <1>6 DEF Next, UserStep

\* For any number of repairs and workers, a repair or rollback that has not
\* ended holds the gate of the MR, so that there is at most one: the scripts
\* ENQUEUE_TASK_WITH_CARD, ENQUEUE_TASK, ADMIT_REPAIR_ROLLBACK,
\* FINALIZE_REPAIR_CANCEL, RESUME_AUTO_AFTER_TRIAGE and the scan of the gates,
\* in any order, with stale callers and crashes.
THEOREM GateTheorem == Spec => []GateHeldByActive
<1>1. IInv => GateHeldByActive
  BY DEF IInv, Core
<1> QED
  BY InitHolds, StepHolds, <1>1, PTL DEF Spec

\* A rollback exists only for a repair that is over, with at least one commit
\* and a manifest that takes no more: ADMIT_REPAIR_ROLLBACK against
\* APPEND_REPAIR_COMMIT and every later step of the repair.
THEOREM RollbackTheorem == Spec => []RollbackIsClosed
<1>1. IInv => RollbackIsClosed
  BY DEF IInv, Core
<1> QED
  BY InitHolds, StepHolds, <1>1, PTL DEF Spec

\* No step gives a task that has ended a status of one that has not: every
\* transition compares the status that it replaces.
THEOREM EndedTheorem == Spec => EndedForGood
<1>1. IInv /\ [Next]_vars => [Ended]_vars
  BY StepHolds
<1> QED
  BY InitHolds, StepHolds, <1>1, PTL DEF Spec, EndedForGood, Ended

-----------------------------------------------------------------------------
(* What a step does to an execution *)

\* What an execution may be doing, by its task.
Fits(e) ==
    /\ e.pc \in {"settle", "admit", "elig", "notify", "cancel", "cadmit", "cfinal"}
          => e.task \in Repairs
    /\ e.pc \in {"work", "resume"} => e.task \in Gated
    /\ e.pc \in {"check", "pause", "cmd", "record", "suspend"} => e.task = AutoTask
    /\ e.kind = "resume" => e.task \in Repairs
    /\ e.worker = NoWorker => e.pc \in {"cancel", "cadmit", "cfinal"} /\ ~e.again
    /\ e.pc \in {"check", "pause", "suspend"} => e.idx <= Commands
    /\ e.pc \in {"cmd", "record"} => e.idx < Commands

Shaped == \A e \in execs : Fits(e)

\* A delivery of a task with status `s`: it is not waiting for one.
Sent(kind, s) == s \notin {"none", "queued"} /\ (kind = "run" => s # "waiting")

Started ==
    /\ \A e \in execs : e.worker \in Workers => Sent(e.kind, status[e.task])
    /\ \A w \in up : \A m \in inbox[w] :
          Sent(m.kind, status[m.task]) /\ (m.kind = "resume" => m.task \in Repairs)

\* `n` is a later state of the delivery `e`.
Ident(n, e) == n.task = e.task /\ n.worker = e.worker /\ n.lease = e.lease /\ n.kind = e.kind

\* The execution goes on, inside the session; a repair gets to work only when
\* its status says so.
Becomes(e, n) ==
    /\ n \in Exec /\ Fits(n) /\ Ident(n, e) /\ n.pc # "wait"
    /\ n.pc = "work" => (e.pc = "work" /\ UNCHANGED status) \/ status'[e.task] = "running"
    /\ execs' = (execs \ {e}) \cup {n}
    /\ excl' = excl

Goes(e) == e.pc # "wait" /\ ((\E n : Becomes(e, n)) \/ End(e))

LEMMA Constants ==
    /\ NoWorker \notin Workers /\ NoTask \notin Tasks /\ NoTask \notin Repairs
    /\ AutoTask \notin Repairs /\ Repairs \cap Rollbacks = {} /\ AutoTask \notin Rollbacks
    /\ Commands \in Nat /\ MaxFaults \in Nat /\ MaxFence \in Nat
    /\ Tasks = Repairs \cup Rollbacks \cup {AutoTask} /\ Gated = Repairs \cup Rollbacks
BY GateConstants DEF GateConstants, Gated, Tasks

\* The numbers of a state.
LEMMA Numbers ==
    ASSUME TypeOK
    PROVE  faults \in Nat /\ cursor \in 0..Commands /\ card.rev \in Nat
<1>1. /\ faults \in Nat /\ cursor \in 0..Commands
      /\ card \in [active : Gated \cup {NoTask}, rev : Nat, offer : Repairs \cup {NoTask}]
  BY Zenon DEF TypeOK
<1> QED
  BY <1>1

LEMMA Leases ==
    /\ NoLease \in Lease /\ NoLease.worker = NoWorker
    /\ \A l \in Lease : /\ l.worker \in Workers \cup {NoWorker} /\ l.token \in Nat
                        /\ l.worker = NoWorker => l = NoLease
    /\ TypeOK => NoWorker \notin up /\ up \subseteq Workers
BY SMT, Z3, Constants DEF Lease, NoLease, TypeOK

\* Goto takes an execution on, when it fits its task.
LEMMA GotoGoes ==
    ASSUME NEW e \in Exec, NEW pc \in Pcs \ {"wait"}, Fits(e), e.pc # "wait",
           Goto(e, pc), UNCHANGED excl, e.worker \in Workers,
           pc = "work" => status'[e.task] = "running",
           pc \in {"settle", "admit", "elig", "notify", "cancel", "cadmit", "cfinal"}
              => e.task \in Repairs,
           pc \in {"work", "resume"} => e.task \in Gated,
           pc \in {"check", "pause", "cmd", "record", "suspend"} => e.task = AutoTask,
           pc \in {"check", "pause", "suspend"} => e.idx <= Commands,
           pc \in {"cmd", "record"} => e.idx < Commands
    PROVE  Goes(e)
<1> DEFINE n == [e EXCEPT !.pc = pc, !.rev = 0, !.seen = NoTask, !.ok = TRUE]
<1>1. /\ n \in Exec /\ Ident(n, e) /\ n.pc = pc /\ n.idx = e.idx
      /\ n.again = e.again
  BY Zenon DEF Exec, Ident
<1>2. execs' = (execs \ {e}) \cup {n}
  BY DEF Goto, Set
<1> HIDE DEF n
<1>3. Fits(n)
  BY <1>1, Constants DEF Fits, Ident
<1> QED
  BY <1>1, <1>2, <1>3 DEF Goes, Becomes

\* Only a cancellation at the ingress has no worker.
LEMMA AtWorker ==
    ASSUME NEW e \in Exec, Fits(e), e.pc \notin {"cancel", "cadmit", "cfinal"}
    PROVE  e.worker \in Workers
BY DEF Exec, Fits


\* One lemma per handler: what becomes of the execution.
LEMMA BeginGoes ==
    ASSUME TypeOK, NEW e \in execs, Fits(e), Begin(e)
    PROVE  Goes(e)
<1>1. e \in Exec /\ e.worker \in Workers /\ e.pc = "begin" /\ e.task \in Tasks
  BY Zenon, AtWorker DEF TypeOK, Begin, Exec
<1>2. CASE e.task \in canceled
  <2> DEFINE n == [e EXCEPT !.pc = "cancel", !.again = TRUE]
  <2>1. n \in Exec /\ Ident(n, e) /\ n.pc = "cancel"
    BY Zenon, <1>1 DEF Exec, Ident, Pcs
  <2>2. execs' = (execs \ {e}) \cup {n} /\ excl' = excl
    BY Zenon, <1>2 DEF Begin, Set
  <2> HIDE DEF n
  <2>3. Fits(n)
    BY <1>1, <1>2, <2>1, Constants DEF Fits, Ident, TypeOK
  <2> QED
    BY <1>1, <2>1, <2>2, <2>3 DEF Goes, Becomes
<1>3. CASE /\ e.task = AutoTask /\ UNCHANGED excl
           /\ Set(e, [e EXCEPT !.pc = "check", !.idx = cursor])
  <2> DEFINE n == [e EXCEPT !.pc = "check", !.idx = cursor]
  <2>0. cursor \in Nat /\ cursor <= Commands
    BY SMT, Z3, Constants DEF TypeOK
  <2>1. n \in Exec /\ Ident(n, e) /\ n.pc = "check" /\ n.idx = cursor
    BY Zenon, <1>1, <2>0 DEF Exec, Ident, Pcs
  <2>2. execs' = (execs \ {e}) \cup {n} /\ excl' = excl
    BY <1>3 DEF Set
  <2> HIDE DEF n
  <2>3. Fits(n)
    BY <1>1, <1>3, <2>0, <2>1, Constants DEF Fits, Ident
  <2> QED
    BY <1>1, <2>1, <2>2, <2>3 DEF Goes, Becomes
<1>4. CASE /\ e.task # AutoTask /\ Goto(e, "work") /\ UNCHANGED excl
           /\ status' = [status EXCEPT ![e.task] = "running"]
  <2>1. status'[e.task] = "running" /\ e.task \in Gated
    BY <1>1, <1>4, Constants DEF TypeOK
  <2> QED
    BY <1>1, <1>4, <2>1, GotoGoes DEF Pcs
<1>5. CASE Goto(e, "fail") /\ UNCHANGED excl
  BY <1>1, <1>5, GotoGoes DEF Pcs
<1>6. CASE End(e)
  BY <1>1, <1>6 DEF Goes
<1> QED
  BY Zenon, <1>2, <1>3, <1>4, <1>5, <1>6 DEF Begin

LEMMA PushGoes ==
    ASSUME TypeOK, NEW e \in execs, Fits(e), Push(e)
    PROVE  Goes(e)
<1>1. e \in Exec /\ e.worker \in Workers /\ e.pc = "work" /\ e.task \in Repairs
  BY Zenon, AtWorker DEF TypeOK, Push, Exec
<1>2. CASE Goto(e, "fail") /\ UNCHANGED excl
  BY <1>1, <1>2, GotoGoes DEF Pcs
<1>3. CASE UNCHANGED <<execs, excl, status>>
  <2>1. Ident(e, e) /\ execs' = (execs \ {e}) \cup {e}
    BY <1>3 DEF Ident
  <2> QED
    BY <1>1, <1>3, <2>1 DEF Goes, Becomes
<1> QED
  BY Zenon, <1>2, <1>3 DEF Push

LEMMA FinishGoes ==
    ASSUME TypeOK, NEW e \in execs, Fits(e), NEW ok \in BOOLEAN, Finish(e, ok)
    PROVE  Goes(e)
<1>1. e \in Exec /\ e.worker \in Workers /\ e.pc = "work" /\ e.task \in Repairs
  BY Zenon, AtWorker DEF TypeOK, Finish, Exec
<1> DEFINE n == [e EXCEPT !.pc = "settle", !.seen = NoTask, !.ok = ok]
<1>2. n \in Exec /\ Ident(n, e) /\ n.pc = "settle"
  BY Zenon, <1>1 DEF Exec, Ident, Pcs
<1>3. execs' = (execs \ {e}) \cup {n} /\ excl' = excl
  BY DEF Finish, Set
<1> HIDE DEF n
<1>4. Fits(n)
  BY <1>1, <1>2, Constants DEF Fits, Ident
<1> QED
  BY <1>1, <1>2, <1>3, <1>4 DEF Goes, Becomes

LEMMA ErrorGoes ==
    ASSUME TypeOK, NEW e \in execs, Fits(e), Error(e) \/ RollbackError(e)
    PROVE  Goes(e)
<1>1. e \in Exec /\ e.worker \in Workers /\ e.pc \in {"work", "cmd"}
  BY Zenon, AtWorker DEF TypeOK, Error, RollbackError, Exec
<1> QED
  BY <1>1, GotoGoes DEF Pcs, Error, RollbackError

\* A repair that is past its work goes on.
LEMMA RepairGoes ==
    ASSUME NEW e \in Exec, NEW n \in Exec, e.task \in Repairs, e.pc # "wait", Ident(n, e),
           n.pc \in {"admit", "elig", "complete", "failed", "cancel", "cadmit", "cfinal"},
           e.worker = NoWorker => n.pc \in {"cancel", "cadmit", "cfinal"} /\ ~n.again,
           Set(e, n), UNCHANGED excl
    PROVE  Goes(e)
<1>1. Fits(n)
  BY DEF Fits, Ident
<1> QED
  BY <1>1 DEF Goes, Becomes, Set

LEMMA SettleGoes ==
    ASSUME TypeOK, NEW e \in execs, Fits(e), Settle(e) \/ Fail(e)
    PROVE  Goes(e)
<1>1. e \in Exec /\ e.worker \in Workers /\ e.pc \in {"settle", "fail"} /\ card.rev \in Nat
  BY Zenon, AtWorker DEF TypeOK, Settle, Fail, Exec
<1>2. CASE End(e)
  BY <1>1, <1>2 DEF Goes
<1>3. CASE Goto(e, "failed") /\ UNCHANGED excl
  BY <1>1, <1>3, GotoGoes DEF Pcs
<1>4. CASE Settle(e) /\ ~End(e)
  <2>1. e.task \in Repairs
    BY <1>4 DEF Settle, Fits
  <2>2. CASE UNCHANGED excl /\ Set(e, [e EXCEPT !.pc = "cancel", !.ok = TRUE, !.again = TRUE])
    <3> DEFINE n == [e EXCEPT !.pc = "cancel", !.ok = TRUE, !.again = TRUE]
    <3>1. n \in Exec /\ Ident(n, e) /\ n.pc = "cancel" /\ Set(e, n)
      BY Zenon, <1>1, <2>2 DEF Exec, Ident, Pcs
    <3> QED
      BY Zenon, <1>1, <2>1, <2>2, <3>1, RepairGoes, Constants
  <2>3. ASSUME NEW pc \in {"elig", "admit", "complete"}, UNCHANGED excl,
               Set(e, [e EXCEPT !.rev = card.rev, !.pc = pc])
        PROVE  Goes(e)
    <3> DEFINE n == [e EXCEPT !.rev = card.rev, !.pc = pc]
    <3>1. n \in Exec /\ Ident(n, e) /\ n.pc = pc /\ Set(e, n)
      BY Zenon, <1>1, <2>3 DEF Exec, Ident, Pcs
    <3> QED
      BY Zenon, <1>1, <2>1, <2>3, <3>1, RepairGoes, Constants
  <2> QED
    BY Zenon, <1>4, <2>2, <2>3 DEF Settle
<1>5. CASE Fail(e) /\ ~End(e) /\ e.task \in Repairs
  <2>1. ASSUME NEW pc \in {"elig", "failed"}, UNCHANGED excl,
               Set(e, [e EXCEPT !.rev = card.rev, !.ok = FALSE, !.pc = pc])
        PROVE  Goes(e)
    <3> DEFINE n == [e EXCEPT !.rev = card.rev, !.ok = FALSE, !.pc = pc]
    <3>1. n \in Exec /\ Ident(n, e) /\ n.pc = pc /\ Set(e, n)
      BY Zenon, <1>1, <2>1 DEF Exec, Ident, Pcs
    <3> QED
      BY Zenon, <1>1, <1>5, <2>1, <3>1, RepairGoes, Constants
  <2> QED
    BY Zenon, <1>5, <2>1 DEF Fail
<1> QED
  BY Zenon, <1>2, <1>3, <1>4, <1>5 DEF Fail

LEMMA AdmitFailedGoes ==
    ASSUME TypeOK, NEW e \in execs, Fits(e), AdmitFailed(e)
    PROVE  Goes(e)
<1>1. e \in Exec /\ e.worker \in Workers /\ e.pc = "admit" /\ e.task \in Repairs
  BY Zenon, AtWorker DEF TypeOK, AdmitFailed, Fits
<1>2. CASE End(e)
  BY <1>1, <1>2 DEF Goes
<1>3. CASE /\ ReleaseCard(e.task) /\ UNCHANGED excl
           /\ Set(e, [e EXCEPT !.pc = "elig", !.ok = TRUE, !.rev = card'.rev])
  <2> DEFINE n == [e EXCEPT !.pc = "elig", !.ok = TRUE, !.rev = card'.rev]
  <2>1. card'.rev \in Nat
    BY SMT, Z3, <1>3 DEF ReleaseCard, TypeOK
  <2>2. n \in Exec /\ Ident(n, e) /\ n.pc = "elig" /\ Set(e, n)
    BY Zenon, <1>1, <1>3, <2>1 DEF Exec, Ident, Pcs
  <2> QED
    BY Zenon, <1>1, <1>3, <2>2, RepairGoes, Constants
<1> QED
  BY <1>2, <1>3 DEF AdmitFailed

\* The steps that Goto, or end.
LEMMA HandlersGo ==
    ASSUME TypeOK, NEW e \in execs, Fits(e),
           \/ PublishEligibility(e) \/ Complete(e) \/ Failed(e) \/ Notify(e)
           \/ SuspendAuto(e) \/ Resume(e)
           \/ \E outcome \in {"completed", "failed"} : FinishRollback(e, outcome)
    PROVE  Goes(e)
<1>1. e \in Exec /\ e.worker \in Workers /\ e.task \in Tasks
  BY Zenon, AtWorker
     DEF TypeOK, Exec, PublishEligibility, Complete, Failed, Notify, SuspendAuto, Resume,
                  FinishRollback
<1>2. CASE PublishEligibility(e)
  <2>1. \E pc \in {"complete", "failed"} : Goto(e, pc) /\ UNCHANGED excl /\ e.pc = "elig"
    BY <1>2 DEF PublishEligibility
  <2> QED
    BY <1>1, <2>1, GotoGoes DEF Pcs
<1>3. CASE Complete(e)
  <2>1. e.pc = "complete" /\ (End(e) \/ (Goto(e, "resume") /\ UNCHANGED excl /\ e.task \in Gated))
    BY <1>1, <1>3, Constants DEF Complete
  <2>2. CASE End(e)
    BY <2>1, <2>2 DEF Goes
  <2>3. CASE Goto(e, "resume") /\ UNCHANGED excl /\ e.task \in Gated
    BY <1>1, <2>1, <2>3, GotoGoes DEF Pcs
  <2> QED
    BY <2>1, <2>2, <2>3
<1>4. CASE Failed(e)
  <2>1. e.pc = "failed" /\ (End(e) \/ (Goto(e, "notify") /\ UNCHANGED excl /\ e.task \in Repairs))
    BY <1>4 DEF Failed
  <2>2. CASE End(e)
    BY <2>1, <2>2 DEF Goes
  <2>3. CASE Goto(e, "notify") /\ UNCHANGED excl /\ e.task \in Repairs
    BY <1>1, <2>1, <2>3, GotoGoes DEF Pcs
  <2> QED
    BY <2>1, <2>2, <2>3
<1>5. CASE Notify(e)
  <2>1. e.pc = "notify" /\ Goto(e, "resume") /\ UNCHANGED excl /\ e.task \in Gated
    BY <1>5, Constants DEF Notify, Fits
  <2> QED
    BY <1>1, <2>1, GotoGoes DEF Pcs
<1>6. CASE SuspendAuto(e) \/ Resume(e)
  BY <1>6 DEF SuspendAuto, Resume, Goes
<1>7. ASSUME NEW outcome \in {"completed", "failed"}, FinishRollback(e, outcome)
      PROVE  Goes(e)
  <2>1. /\ e.pc = "work" /\ e.task \in Rollbacks
        /\ End(e) \/ (\E pc \in {"resume", "fail"} : Goto(e, pc) /\ UNCHANGED excl)
    BY Zenon, <1>7 DEF FinishRollback
  <2>2. CASE End(e)
    BY <2>1, <2>2 DEF Goes
  <2>3. ASSUME NEW pc \in {"resume", "fail"}, Goto(e, pc), UNCHANGED excl
        PROVE  Goes(e)
    BY Zenon, <1>1, <2>1, <2>3, GotoGoes, Constants DEF Pcs
  <2> QED
    BY <2>1, <2>2, <2>3
<1> QED
  BY <1>2, <1>3, <1>4, <1>5, <1>6, <1>7

LEMMA AfterCancelGoes ==
    ASSUME NEW e \in Exec, Fits(e), e.pc \in {"cadmit", "cfinal"}, AfterCancel(e)
    PROVE  Goes(e)
<1>1. CASE End(e)
  BY <1>1 DEF Goes
<1>2. CASE Set(e, [e EXCEPT !.pc = "cancel", !.rev = 0, !.again = FALSE]) /\ UNCHANGED excl
  <2> DEFINE n == [e EXCEPT !.pc = "cancel", !.rev = 0, !.again = FALSE]
  <2>1. n \in Exec /\ Ident(n, e) /\ n.pc = "cancel" /\ n.again = FALSE /\ Set(e, n)
    BY Zenon, <1>2 DEF Exec, Ident, Pcs
  <2> HIDE DEF n
  <2> QED
    BY <1>2, <2>1, RepairGoes DEF Fits
<1> QED
  BY <1>1, <1>2 DEF AfterCancel

LEMMA CancelGoes ==
    ASSUME TypeOK, NEW e \in execs, Fits(e), CancelStep(e)
    PROVE  Goes(e)
<1>1. e \in Exec /\ card.rev \in Nat
  BY DEF TypeOK
<1>2. CASE Cancel(e)
  <2>1. e.pc = "cancel" /\ e.task \in Repairs
    BY <1>2 DEF Cancel, Fits
  <2>2. CASE End(e)
    BY <2>1, <2>2 DEF Goes
  <2>3. ASSUME NEW pc \in {"cadmit", "cfinal"}, UNCHANGED excl,
               Set(e, [e EXCEPT !.rev = card.rev, !.pc = pc])
        PROVE  Goes(e)
    <3> DEFINE n == [e EXCEPT !.rev = card.rev, !.pc = pc]
    <3>1. n \in Exec /\ Ident(n, e) /\ n.pc = pc /\ n.again = e.again /\ Set(e, n)
      BY Zenon, <1>1, <2>3 DEF Exec, Ident, Pcs
    <3> HIDE DEF n
    <3> QED
      BY <1>1, <2>1, <2>3, <3>1, RepairGoes DEF Fits
  <2> QED
    BY Zenon, <1>2, <2>2, <2>3 DEF Cancel
<1>3. CASE CancelAdmit(e)
  <2>1. e.pc = "cadmit" /\ e.task \in Repairs
    BY <1>3 DEF CancelAdmit, Fits
  <2>2. CASE AfterCancel(e)
    BY <1>1, <2>1, <2>2, AfterCancelGoes
  <2>3. CASE End(e)
    BY <2>1, <2>3 DEF Goes
  <2>4. CASE /\ e.worker \in Workers /\ UNCHANGED excl
             /\ Set(e, [e EXCEPT !.pc = "failed", !.rev = 0, !.again = FALSE])
    <3> DEFINE n == [e EXCEPT !.pc = "failed", !.rev = 0, !.again = FALSE]
    <3>1. n \in Exec /\ Ident(n, e) /\ n.pc = "failed" /\ Set(e, n)
      BY Zenon, <1>1, <2>4 DEF Exec, Ident, Pcs
    <3>2. e.worker # NoWorker
      BY <2>4, Constants
    <3> HIDE DEF n
    <3> QED
      BY <1>1, <2>1, <2>4, <3>1, <3>2, RepairGoes
  <2> QED
    BY Zenon, <1>3, <2>2, <2>3, <2>4 DEF CancelAdmit
<1>4. CASE CancelFinal(e)
  BY <1>1, <1>4, AfterCancelGoes DEF CancelFinal
<1>5. CASE Kill(e)
  <2> DEFINE n == [e EXCEPT !.pc = "cancel", !.rev = 0, !.seen = NoTask, !.ok = TRUE,
                            !.again = FALSE]
  <2>1. /\ n \in Exec /\ Ident(n, e) /\ n.pc = "cancel" /\ n.again = FALSE
        /\ Set(e, n) /\ UNCHANGED excl
    BY Zenon, <1>1, <1>5 DEF Exec, Ident, Pcs, Kill
  <2>2. e.task \in Repairs /\ e.pc # "wait"
    BY <1>5 DEF Kill, TypeOK, Inside
  <2> HIDE DEF n
  <2> QED
    BY <1>1, <2>1, <2>2, RepairGoes
<1> QED
  BY <1>2, <1>3, <1>4, <1>5 DEF CancelStep

LEMMA CommandsGo ==
    ASSUME TypeOK, NEW e \in execs, Fits(e),
           Check(e) \/ Pause(e) \/ RunCommand(e) \/ RecordCommand(e)
    PROVE  Goes(e)
<1>1. e \in Exec /\ e.worker \in Workers /\ e.task = AutoTask /\ e.idx \in Nat
  BY AtWorker DEF TypeOK, Exec, Check, Pause, RunCommand, RecordCommand, Fits
<1>2. CASE End(e)
  BY <1>2 DEF Goes, Check, Pause, RunCommand, RecordCommand
<1>3. CASE (Check(e) /\ gate = NoTask) \/ (Pause(e) /\ ~End(e))
  <2>1. e.pc \in {"check", "pause"} /\ e.idx <= Commands
    BY <1>3 DEF Check, Pause, Fits
  <2>2. /\ UNCHANGED excl
        /\ \/ Goto(e, "suspend") \/ Goto(e, "complete")
           \/ Goto(e, "cmd") /\ e.idx < Commands
    BY <1>3 DEF Check, Pause
  <2> QED
    BY <1>1, <2>1, <2>2, GotoGoes DEF Pcs
<1>6. CASE Check(e) /\ gate # NoTask
  <2> DEFINE n == [e EXCEPT !.pc = "pause", !.seen = gate]
  <2>1. e.pc = "check" /\ e.idx <= Commands /\ gate \in Gated \cup {NoTask}
    BY <1>6 DEF Check, Fits, TypeOK
  <2>2. execs' = (execs \ {e}) \cup {n} /\ excl' = excl
    BY Zenon, <1>6 DEF Check, Set
  <2>3. n \in Exec /\ Ident(n, e) /\ n.pc = "pause" /\ n.idx = e.idx
    BY Zenon, <1>1, <2>1 DEF Exec, Ident, Pcs
  <2> HIDE DEF n
  <2>4. Fits(n)
    BY <1>1, <2>1, <2>3, Constants DEF Fits, Ident
  <2> QED
    BY <2>1, <2>2, <2>3, <2>4 DEF Goes, Becomes
<1>4. CASE RunCommand(e)
  <2>1. e.pc = "cmd" /\ e.idx < Commands
    BY <1>4 DEF RunCommand, Fits
  <2> QED
    BY <1>1, <1>4, <2>1, GotoGoes DEF Pcs, RunCommand
<1>5. CASE RecordCommand(e) /\ ~End(e)
  <2> DEFINE n == [e EXCEPT !.pc = "check", !.idx = @ + 1]
  <2>1. e.pc = "record" /\ e.idx < Commands /\ execs' = (execs \ {e}) \cup {n} /\ excl' = excl
    BY <1>5 DEF RecordCommand, Fits, Set
  <2>a. e.idx + 1 \in Nat
    BY SMT, Z3, <1>1
  <2>b. n = [e EXCEPT !.pc = "check", !.idx = e.idx + 1]
    BY <1>1 DEF Exec
  <2>2. n \in Exec /\ Ident(n, e) /\ n.pc = "check" /\ n.idx = e.idx + 1
    BY Zenon, <1>1, <2>a, <2>b DEF Exec, Ident, Pcs
  <2> HIDE DEF n
  <2>3. Fits(n)
    BY SMT, Z3, <1>1, <2>1, <2>2, Constants DEF Fits, Ident
  <2> QED
    BY <2>1, <2>2, <2>3 DEF Goes, Becomes
<1> QED
  BY <1>2, <1>3, <1>4, <1>5, <1>6

\* Every step inside the session but the one that suspends a repair.
LEMMA StepGoes ==
    ASSUME TypeOK, Shaped, NEW e \in execs, ExecStep(e)
    PROVE  Enter(e) \/ SuspendRepair(e) \/ Goes(e)
<1>1. Fits(e)
  BY DEF Shaped
<1> QED
  BY <1>1, BeginGoes, PushGoes, FinishGoes, ErrorGoes, SettleGoes, AdmitFailedGoes, HandlersGo,
     CancelGoes, CommandsGo
     DEF ExecStep, RepairStep, CancelStep, RollbackStep, AutoStep

-----------------------------------------------------------------------------
(* Types *)

\* What is unchanged by which step of an execution.
LEMMA ExecFrame ==
    ASSUME NEW e, ExecStep(e)
    PROVE  /\ UNCHANGED <<canceled, up, lease, fence, sched>>
           /\ faults' = faults \/ (faults' = faults + 1 /\ RollbackError(e))
           /\ UNCHANGED <<own, inbox>> \/ Resume(e) \/ CancelFinal(e)
           /\ UNCHANGED paused \/ Resume(e) \/ CancelFinal(e) \/ Pause(e)
           /\ UNCHANGED pausedBy \/ AdmitFailed(e) \/ CancelAdmit(e) \/ Pause(e)
           /\ UNCHANGED cursor \/ Pause(e) \/ RecordCommand(e)
           /\ UNCHANGED ran \/ RunCommand(e)
           /\ \/ UNCHANGED card \/ AdmitFailed(e) \/ CancelAdmit(e) \/ CancelFinal(e)
              \/ PublishEligibility(e) \/ Notify(e)
              \/ \E ok \in BOOLEAN : Finish(e, ok)
              \/ \E outcome \in {"completed", "failed"} : FinishRollback(e, outcome)
<1> USE DEF taskVars, autoVars, leaseVars, procVars
<1>1. CASE \/ Enter(e) \/ Begin(e) \/ Complete(e) \/ Fail(e) \/ Failed(e) \/ Resume(e)
  BY Zenon, <1>1 DEF Enter, Begin, Complete, Fail, Failed, Resume
<1>2. CASE RepairStep(e)
  BY Zenon, <1>2 DEF RepairStep, Push, SuspendRepair, Error, Settle, AdmitFailed, Finish,
              PublishEligibility, Notify
<1>3. CASE CancelStep(e)
  BY Zenon, <1>3 DEF CancelStep, Cancel, CancelAdmit, CancelFinal, Kill
<1>4. CASE RollbackStep(e)
  BY Zenon, <1>4 DEF RollbackStep, FinishRollback, RollbackError
<1>5. CASE AutoStep(e)
  BY <1>5 DEF AutoStep, Check, Pause, RunCommand, RecordCommand, SuspendAuto
<1> QED
  BY SMT, Z3, <1>1, <1>2, <1>3, <1>4, <1>5 DEF ExecStep

\* The hand-over scripts.
LEMMA HandoverTyped ==
    ASSUME TypeOK, NEW t, NEW l \in Lease, NEW held, NEW rev \in Nat,
           ResumeAuto(t, l, held) \/ (FinalizeCancel(t, l, rev) /\ t \in Repairs)
    PROVE  /\ own' \in [Tasks -> Lease] /\ inbox' \in [Workers -> SUBSET Msg]
           /\ paused' \in BOOLEAN
<1>1. \A x, y : own \in [Tasks -> Lease] /\ y \in Lease => [own EXCEPT ![x] = y] \in [Tasks -> Lease]
  BY Zenon
<1>2. [task |-> AutoTask, kind |-> "run"] \in Msg
  BY Constants DEF Msg
<1>3. \A w : [inbox EXCEPT ![w] = @ \cup {[task |-> AutoTask, kind |-> "run"]}]
                \in [Workers -> SUBSET Msg]
  BY Zenon, <1>2 DEF TypeOK
<1>4. CASE ResumeAuto(t, l, held)
  BY <1>1, <1>3, <1>4 DEF ResumeAuto, TypeOK
<1>5. CASE FinalizeCancel(t, l, rev) /\ t \in Repairs
  <2>1. own[t] \in Lease
    BY SMT, Z3, <1>5, Constants DEF TypeOK
  <2> QED
    BY <1>1, <1>3, <1>5, <2>1 DEF FinalizeCancel, TypeOK
<1> QED
  BY <1>4, <1>5

CardType == card \in [active : Gated \cup {NoTask}, rev : Nat, offer : Repairs \cup {NoTask}]

LEMMA CardTyped ==
    ASSUME TypeOK, NEW t, NEW rev \in Nat, NEW o, NEW x, NEW l,
           \/ ReleaseCard(t) \/ CompleteRollback(t, o)
           \/ FinalizeCancel(t, l, rev)
           \/ t \in Repairs /\ AdmitRollback(t, x)
           \/ t \in Repairs /\ card' = [card EXCEPT !.rev = rev, !.offer = t]
    PROVE  CardType'
<1>1. card \in [active : Gated \cup {NoTask}, rev : Nat, offer : Repairs \cup {NoTask}]
  BY DEF TypeOK
<1>2. card.rev + 1 \in Nat /\ rev + 1 \in Nat
  BY SMT, Z3, <1>1
<1>3. [card EXCEPT !.active = NoTask, !.rev = card.rev + 1]
         \in [active : Gated \cup {NoTask}, rev : Nat, offer : Repairs \cup {NoTask}]
  BY Zenon, <1>1, <1>2
<1>4. [card EXCEPT !.active = NoTask, !.rev = rev + 1]
         \in [active : Gated \cup {NoTask}, rev : Nat, offer : Repairs \cup {NoTask}]
  BY Zenon, <1>1, <1>2
<1>5. CASE ReleaseCard(t) \/ CompleteRollback(t, o)
  <2>1. card' = card \/ card' = [card EXCEPT !.active = NoTask, !.rev = card.rev + 1]
    BY <1>1, <1>5 DEF ReleaseCard, CompleteRollback
  <2> QED
    BY Zenon, <1>1, <1>3, <2>1 DEF CardType
<1>6. CASE FinalizeCancel(t, l, rev)
  BY <1>1, <1>4, <1>6 DEF CardType, FinalizeCancel
<1>7. CASE t \in Repairs /\ AdmitRollback(t, x)
  BY <1>2, <1>7, Names DEF CardType, AdmitRollback
<1>8. CASE t \in Repairs /\ card' = [card EXCEPT !.rev = rev, !.offer = t]
  BY Zenon, <1>1, <1>8 DEF CardType
<1> QED
  BY <1>5, <1>6, <1>7, <1>8

LEMMA GoesTyped ==
    ASSUME TypeOK, NEW e \in execs, Enter(e) \/ SuspendRepair(e) \/ Goes(e)
    PROVE  execs' \subseteq Exec /\ excl' \in [Workers -> Repairs \cup {NoTask}]
<1>1. execs \subseteq Exec /\ e \in Exec /\ excl \in [Workers -> Repairs \cup {NoTask}]
  BY DEF TypeOK
<1>2. CASE Goes(e)
  BY <1>1, <1>2 DEF Goes, Becomes, End
<1>3. CASE SuspendRepair(e)
  BY <1>1, <1>3 DEF SuspendRepair, End
<1>4. CASE Enter(e)
  <2>1. [e EXCEPT !.pc = "begin", !.rev = 0, !.seen = NoTask, !.ok = TRUE] \in Exec
    BY Zenon, <1>1 DEF Exec, Pcs
  <2>2. execs' \subseteq Exec
    BY SMT, Z3, <1>1, <1>4, <2>1 DEF Enter, Goto, Set
  <2>3. excl' \in [Workers -> Repairs \cup {NoTask}]
    BY Zenon, <1>1, <1>4 DEF Enter
  <2> QED
    BY <2>2, <2>3
<1> QED
  BY <1>2, <1>3, <1>4

\* A step of an execution keeps the types, and executions that fit.
LEMMA ExecTyped ==
    ASSUME TypeOK, Shaped, IInv', NEW e \in execs, ExecStep(e)
    PROVE  TypeOK' /\ Shaped'
<1>1. e \in Exec /\ Fits(e) /\ e.task \in Tasks /\ e.lease \in Lease /\ e.rev \in Nat /\ e.idx \in Nat
  BY DEF TypeOK, Shaped, Exec
<1>2. Enter(e) \/ SuspendRepair(e) \/ Goes(e)
  BY StepGoes
<1>3. execs' \subseteq Exec /\ excl' \in [Workers -> Repairs \cup {NoTask}]
  BY <1>2, GoesTyped
<1>4. Shaped'
  <2>1. CASE Goes(e)
    BY SMT, Z3, <2>1 DEF Goes, Becomes, End, Shaped, Fits
  <2>2. CASE SuspendRepair(e)
    BY <2>2 DEF SuspendRepair, End, Shaped, Fits
  <2>3. CASE Enter(e)
    <3> DEFINE n == [e EXCEPT !.pc = "begin", !.rev = 0, !.seen = NoTask, !.ok = TRUE]
    <3>1. n.pc = "begin" /\ Ident(n, e)
      BY <1>1 DEF Exec, Ident
    <3>2. execs' = (execs \ {e}) \cup {n}
      BY <2>3 DEF Enter, Goto, Set
    <3>3. e.worker \in Workers
      BY <1>1, <2>3, AtWorker DEF Enter
    <3> HIDE DEF n
    <3>4. Fits(n)
      BY <1>1, <3>1, <3>3, Constants DEF Fits, Ident
    <3> QED
      BY <3>2, <3>4 DEF Shaped, Fits
  <2> QED
    BY Zenon, <1>2, <2>1, <2>2, <2>3
<1>5. /\ status' \in [Tasks -> Statuses] /\ gate' \in Gated \cup {NoTask}
      /\ manifest' \in [Repairs -> [n : Nat, frozen : BOOLEAN]] /\ bound' \subseteq Repairs
  BY DEF IInv, Core, CoreType
<1>6. /\ UNCHANGED <<canceled, up, lease, fence, sched>> /\ faults' \in Nat
  BY SMT, Z3, ExecFrame DEF TypeOK
<1>7. own' \in [Tasks -> Lease] /\ inbox' \in [Workers -> SUBSET Msg]
  <2>1. CASE Resume(e)
    BY Zenon, <1>1, <2>1, HandoverTyped DEF Resume
  <2>2. CASE CancelFinal(e)
    <3>1. e.task \in Repairs
      BY <1>1, <2>2 DEF CancelFinal, Fits
    <3> QED
      BY <1>1, <2>2, <3>1, HandoverTyped DEF CancelFinal
  <2> QED
    BY <2>1, <2>2, ExecFrame DEF TypeOK
<1>8. paused' \in BOOLEAN
  <2>1. CASE Resume(e)
    BY Zenon, <1>1, <2>1, HandoverTyped DEF Resume
  <2>2. CASE CancelFinal(e)
    <3>1. e.task \in Repairs
      BY <1>1, <2>2 DEF CancelFinal, Fits
    <3> QED
      BY <1>1, <2>2, <3>1, HandoverTyped DEF CancelFinal
  <2>3. CASE Pause(e)
    BY Zenon, <2>3 DEF Pause, TypeOK
  <2> QED
    BY <2>1, <2>2, <2>3, ExecFrame DEF TypeOK
<1>9. pausedBy' \in Gated \cup {NoTask}
  <2>1. CASE Pause(e)
    BY <2>1 DEF Pause, TypeOK
  <2>2. CASE AdmitFailed(e) \/ CancelAdmit(e)
    <3>1. e.task \in Repairs
      BY Zenon, <1>1, <2>2 DEF AdmitFailed, CancelAdmit, Fits
    <3>2. pausedBy' \in {pausedBy, Rollback(e.task)}
      BY Zenon, <2>2 DEF AdmitFailed, CancelAdmit, AdmitRollback
    <3> QED
      BY Zenon, <3>1, <3>2, Names DEF TypeOK
  <2> QED
    BY <2>1, <2>2, ExecFrame DEF TypeOK
<1>10. cursor' \in 0..Commands
  <2>1. CASE Pause(e)
    <3>1. e.idx <= Commands /\ cursor' \in {cursor, e.idx}
      BY <1>1, <2>1 DEF Pause, Fits
    <3>2. e.idx \in Nat
      BY <1>1 DEF Exec
    <3> QED
      BY SMT, Z3, <1>1, <3>1, <3>2, Constants, Numbers
  <2>2. CASE RecordCommand(e)
    <3>1. e.idx < Commands /\ cursor' \in {cursor, e.idx + 1}
      BY <1>1, <2>2 DEF RecordCommand, Fits
    <3>2. e.idx \in Nat
      BY <1>1 DEF Exec
    <3> QED
      BY SMT, Z3, <1>1, <3>1, <3>2, Constants, Numbers
  <2> QED
    BY <2>1, <2>2, ExecFrame DEF TypeOK
<1>11. ran' \in [1..Commands -> Nat]
  <2>1. CASE RunCommand(e)
    <3>1. e.idx + 1 \in 1..Commands
      BY SMT, Z3, <1>1, <2>1, Constants DEF RunCommand, Fits
    <3>2. ran[e.idx + 1] + 1 \in Nat
      BY SMT, Z3, <3>1 DEF TypeOK
    <3>3. ran' = [ran EXCEPT ![e.idx + 1] = ran[e.idx + 1] + 1]
      BY <2>1 DEF RunCommand
    <3> QED
      BY Zenon, <3>2, <3>3 DEF TypeOK
  <2> QED
    BY <2>1, ExecFrame DEF TypeOK
<1>12. CardType'
  <2>1. card.rev \in Nat /\ CardType
    BY DEF TypeOK, CardType
  <2>2. CASE AdmitFailed(e) \/ CancelAdmit(e)
    <3>1. e.task \in Repairs
      BY Zenon, <1>1, <2>2 DEF AdmitFailed, CancelAdmit, Fits
    <3>2. \/ card' = card \/ ReleaseCard(e.task)
          \/ AdmitRollback(e.task, "auto_failure") \/ AdmitRollback(e.task, "cancel")
      BY Zenon, <2>2 DEF AdmitFailed, CancelAdmit
    <3> QED
      BY Zenon, <2>1, <3>1, <3>2, CardTyped DEF CardType
  <2>3. CASE CancelFinal(e)
    BY Zenon, <1>1, <2>3, CardTyped DEF CancelFinal
  <2>4. CASE PublishEligibility(e)
    <3>1. e.task \in Repairs
      BY <1>1, <2>4 DEF PublishEligibility, Fits
    <3>2. card' = [card EXCEPT !.rev = e.rev + 1, !.offer = e.task]
      BY <2>4 DEF PublishEligibility
    <3>3. e.rev + 1 \in Nat
      BY SMT, Z3, <1>1
    <3> QED
      BY Zenon, <3>1, <3>2, <3>3, CardTyped
  <2>5. CASE Notify(e) \/ \E ok \in BOOLEAN : Finish(e, ok)
    <3>1. ReleaseCard(e.task)
      BY Zenon, <2>5 DEF Notify, Finish
    <3> QED
      BY Zenon, <2>1, <3>1, CardTyped
  <2>6. ASSUME NEW outcome \in {"completed", "failed"}, FinishRollback(e, outcome)
        PROVE  CardType'
    <3>1. card' = card \/ CompleteRollback(e.task, outcome)
      BY Zenon, <2>6 DEF FinishRollback
    <3> QED
      BY Zenon, <2>1, <3>1, CardTyped DEF CardType
  <2>7. CASE UNCHANGED card
    BY <2>1, <2>7 DEF CardType
  <2> QED
    BY <2>2, <2>3, <2>4, <2>5, <2>6, <2>7, ExecFrame
<1> QED
  BY Zenon, <1>3, <1>4, <1>5, <1>6, <1>7, <1>8, <1>9, <1>10, <1>11, <1>12 DEF TypeOK, CardType

\* The rest of the types, once those of status, gate, manifest and binding hold.
RestType ==
    /\ own \in [Tasks -> Lease] /\ canceled \subseteq Repairs
    /\ paused \in BOOLEAN /\ pausedBy \in Gated \cup {NoTask} /\ cursor \in 0..Commands
    /\ CardType /\ lease \in Lease /\ fence \in Nat
    /\ inbox \in [Workers -> SUBSET Msg] /\ up \subseteq Workers
    /\ excl \in [Workers -> Repairs \cup {NoTask}]
    /\ execs \subseteq Exec
    /\ sched.task \in Tasks \cup {NoTask} /\ sched.lease \in Lease
    /\ ran \in [1..Commands -> Nat] /\ faults \in Nat

LEMMA Rest == (IInv /\ RestType => TypeOK) /\ (TypeOK => RestType)
<1>1. ASSUME IInv, RestType PROVE TypeOK
  <2>1. sched \in [task : Tasks \cup {NoTask}, lease : Lease, steps : Seq(SchedSteps)]
    BY <1>1 DEF IInv, SchedKnows, RestType
  <2> QED
    BY Zenon, <1>1, <2>1 DEF IInv, Core, CoreType, RestType, TypeOK, CardType
<1>2. ASSUME TypeOK PROVE RestType
  BY <1>2 DEF TypeOK, RestType, CardType
<1> QED
  BY <1>1, <1>2

\* Adding a message; the lease that a claim gives.
LEMMA InboxTyped ==
    ASSUME RestType, NEW w, NEW t \in Tasks, NEW k \in {"run", "resume"}
    PROVE  [inbox EXCEPT ![w] = @ \cup {[task |-> t, kind |-> k]}] \in [Workers -> SUBSET Msg]
<1>1. [task |-> t, kind |-> k] \in Msg
  BY DEF Msg
<1> QED
  BY Zenon, <1>1 DEF RestType

LEMMA ClaimTyped ==
    ASSUME RestType, NEW w \in up
    PROVE  /\ Claimed(w) \in Lease /\ Claimed(w).token \in Nat
           /\ Claimed(w).worker \in Workers
           /\ lease # NoLease => Claimed(w) = lease
BY SMT, Z3, Leases DEF RestType, Claimed, Lease

LEMMA NextStepTyped ==
    ASSUME RestType, NextStep, SchedKnows
    PROVE  sched'.task \in Tasks \cup {NoTask} /\ sched'.lease \in Lease
<1>1. CASE sched' = NoSched
  BY <1>1, Leases DEF NoSched
<1>2. CASE sched' = [sched EXCEPT !.steps = Tail(@)]
  BY <1>2 DEF RestType, SchedKnows
<1> QED
  BY <1>1, <1>2 DEF NextStep

\* The scheduler's steps keep the types.
LEMMA SchedTyped ==
    ASSUME TypeOK, IInv, SchedStep \/ \E t \in Gated : Timeout(t)
    PROVE  RestType' /\ execs' = execs
<1>1. RestType /\ card.rev \in Nat /\ SchedKnows
  BY Zenon, Rest DEF TypeOK, IInv
<1> USE DEF taskVars, autoVars, leaseVars, procVars
<1>2. ASSUME NEW t \in Tasks, Dispatch(t)
      PROVE  RestType' /\ execs' = execs
  <2>1. PICK w \in up : /\ Claim(w)
                        /\ own' = [own EXCEPT ![t] = Claimed(w)]
                        /\ inbox' = [inbox EXCEPT ![Claimed(w).worker] =
                                                     @ \cup {[task |-> t, kind |-> "run"]}]
    BY Zenon, <1>2 DEF Dispatch
  <2>2. own' \in [Tasks -> Lease] /\ lease' \in Lease /\ fence' \in Nat
    BY <1>1, <2>1, ClaimTyped DEF RestType, Claim
  <2>3. inbox' \in [Workers -> SUBSET Msg]
    BY <1>1, <2>1, InboxTyped
  <2>4. UNCHANGED <<canceled, autoVars, card, procVars, excl, execs, sched>>
    BY <1>2 DEF Dispatch
  <2> QED
    BY <1>1, <2>2, <2>3, <2>4 DEF RestType, CardType
<1>3. ASSUME NEW t \in Tasks, Recover(t)
      PROVE  RestType' /\ execs' = execs
  <2>1. /\ own' = own \/ own' = [own EXCEPT ![t] = NoLease]
        /\ sched'.task = t /\ sched'.lease = own[t]
        /\ UNCHANGED <<canceled, autoVars, card, leaseVars, inbox, procVars, excl, execs>>
    BY SMT, Z3, <1>3 DEF Recover, Pass
  <2> QED
    BY Zenon, <1>1, <2>1, Leases DEF RestType, CardType
<1>4. ASSUME NEW r \in Repairs, TransferWaiting(r)
      PROVE  RestType' /\ execs' = execs
  <2>1. PICK w \in up : /\ lease' = [worker |-> w, token |-> fence + 1]
                        /\ own' = [own EXCEPT ![r] = lease']
    BY Zenon, <1>4 DEF TransferWaiting
  <2>2. /\ fence' = fence + 1
        /\ UNCHANGED <<canceled, autoVars, card, inbox, procVars, excl, execs, sched>>
    BY Zenon, <1>4 DEF TransferWaiting
  <2>3. lease' \in Lease /\ fence' \in Nat
    <3>1. fence \in Nat /\ w \in Workers
      BY Zenon, <1>1, <2>1 DEF RestType
    <3>2. fence + 1 \in Nat
      BY SMT, Z3, <3>1
    <3> QED
      BY Zenon, <2>1, <2>2, <3>1, <3>2 DEF Lease
  <2> QED
    BY Zenon, <1>1, <2>1, <2>2, <2>3 DEF RestType, CardType
<1>5. ASSUME NEW r \in Repairs, SchedCancel(r)
      PROVE  RestType' /\ execs' = execs
  <2>1. own[r] \in Lease /\ FinalizeCancel(r, own[r], card.rev)
    BY <1>1, <1>5, Constants DEF RestType, SchedCancel
  <2>2. UNCHANGED <<canceled, pausedBy, cursor, ran, leaseVars, procVars, excl, execs, sched>>
    BY <1>5 DEF SchedCancel
  <2>3. /\ own' \in [Tasks -> Lease] /\ inbox' \in [Workers -> SUBSET Msg]
        /\ paused' \in BOOLEAN /\ CardType'
    BY Zenon, <1>1, <2>1, HandoverTyped, CardTyped
  <2> QED
    BY <1>1, <2>2, <2>3 DEF RestType
<1>6. CASE RecoverPaused
  <2>1. /\ sched'.task = AutoTask /\ sched'.lease = own[AutoTask]
        /\ UNCHANGED <<own, canceled, autoVars, card, leaseVars, inbox, procVars, excl, execs>>
    BY Zenon, <1>6 DEF RecoverPaused, Pass
  <2> QED
    BY ZenonT(60), <1>1, <2>1, Constants DEF RestType, CardType
<1>7. CASE SchedRevoke \/ SchedRollback \/ SchedNotify
  <2>1. /\ sched'.task \in Tasks \cup {NoTask} /\ sched'.lease \in Lease
    BY <1>1, <1>7, NextStepTyped DEF SchedRevoke, SchedRollback, SchedNotify
  <2>2. CardType'
    <3>1. card' = card \/ CompleteRollback(sched.task, "failed") \/ ReleaseCard(sched.task)
      BY <1>7 DEF SchedRevoke, SchedRollback, SchedNotify
    <3> QED
      BY Zenon, <1>1, <3>1, CardTyped DEF RestType, CardType
  <2>3. /\ lease' = lease \/ lease' = NoLease
        /\ UNCHANGED <<own, canceled, autoVars, fence, inbox, procVars, excl, execs>>
    BY <1>7 DEF SchedRevoke, SchedRollback, SchedNotify
  <2> QED
    BY Zenon, <1>1, <2>1, <2>2, <2>3, Leases DEF RestType
<1>8. CASE SchedResume
  <2>1. /\ sched'.task \in Tasks \cup {NoTask} /\ sched'.lease \in Lease
    BY <1>1, <1>8, NextStepTyped DEF SchedResume
  <2>2. UNCHANGED <<canceled, pausedBy, cursor, ran, card, procVars, excl, execs>>
    BY Zenon, <1>8 DEF SchedResume
  <2>3. CASE UNCHANGED <<own, inbox, paused, leaseVars>>
    BY Zenon, <1>1, <2>1, <2>2, <2>3 DEF RestType, CardType
  <2>4. ASSUME NEW w \in up, Claim(w), ResumeAuto(sched.task, Claimed(w), TRUE)
        PROVE  RestType'
    <3>1. Claimed(w) \in Lease /\ lease' \in Lease /\ fence' \in Nat
      BY <1>1, <2>4, ClaimTyped DEF Claim
    <3>2. /\ own' \in [Tasks -> Lease] /\ inbox' \in [Workers -> SUBSET Msg]
          /\ paused' \in BOOLEAN
      BY Zenon, <1>1, <2>4, <3>1, HandoverTyped
    <3> QED
      BY Zenon, <1>1, <2>1, <2>2, <3>1, <3>2 DEF RestType, CardType
  <2> QED
    BY Zenon, <1>8, <2>2, <2>3, <2>4 DEF SchedResume
<1>9. CASE GateScan
  BY Zenon, <1>1, <1>9 DEF GateScan, RestType, CardType
<1>10. ASSUME NEW t \in Gated, Timeout(t)
       PROVE  RestType' /\ execs' = execs
  <2>1. /\ card' = card \/ CompleteRollback(t, "failed")
        /\ \E steps : Pass(t, steps)
        /\ faults' = faults + 1
        /\ UNCHANGED <<own, canceled, autoVars, leaseVars, inbox, up, excl, execs>>
    BY Zenon, <1>10 DEF Timeout
  <2>2. CardType'
    BY Zenon, <1>1, <2>1, CardTyped DEF RestType, CardType
  <2> QED
    <3>1. faults' \in Nat
      <4>1. faults + 1 \in Nat
        BY SMT, Z3, Numbers
      <4> QED
        BY Zenon, <2>1, <4>1
    <3>2. t \in Tasks /\ own[t] \in Lease
      BY Zenon, <1>1, Constants DEF RestType
    <3>3. sched'.task = t /\ sched'.lease = own[t]
      <4>1. PICK steps : Pass(t, steps)
        BY Zenon, <2>1
      <4> QED
        BY SMT, Z3, <4>1 DEF Pass
    <3> QED
      BY Zenon, <1>1, <2>1, <2>2, <3>1, <3>2, <3>3 DEF RestType
<1> QED
  BY <1>2, <1>3, <1>4, <1>5, <1>6, <1>7, <1>8, <1>9, <1>10 DEF SchedStep

\* What a delivery starts as, and a cancellation at the ingress.
Starting(w, m) ==
    [task |-> m.task, worker |-> w, lease |-> own[m.task], kind |-> m.kind, pc |-> "wait",
     rev |-> 0, idx |-> 0, seen |-> NoTask, ok |-> TRUE, again |-> FALSE]
Cancelling(r) ==
    [task |-> r, worker |-> NoWorker, lease |-> own[r], kind |-> "run", pc |-> "cancel",
     rev |-> 0, idx |-> 0, seen |-> NoTask, ok |-> TRUE, again |-> FALSE]

LEMMA StartFacts ==
    ASSUME RestType, NEW w \in Workers, NEW m \in inbox[w], Start(w, m)
    PROVE  /\ m \in Msg /\ m.task \in Tasks /\ Starting(w, m) \in Exec
           /\ w \in up
           /\ \/ execs' = execs
              \/ /\ execs' = execs \cup {Starting(w, m)} /\ own[m.task].worker = w
                 /\ m.task \in Repairs => Waiting(w) \ {m.task} = {}
           /\ inbox' = [inbox EXCEPT ![w] = @ \ {m}]
<1>1. m \in Msg /\ m.task \in Tasks /\ m.kind \in {"run", "resume"}
  BY SMT, Z3 DEF RestType, Msg
<1>2. Starting(w, m) \in Exec
  BY Zenon, <1>1 DEF RestType, Starting, Exec, Pcs
<1> QED
  BY Zenon, <1>1, <1>2 DEF Start, Starting

LEMMA CancelFacts ==
    ASSUME RestType, NEW r \in Repairs, RequestCancel(r)
    PROVE  /\ Cancelling(r) \in Exec
           /\ execs' = execs \/ execs' = execs \cup {Cancelling(r)}
           /\ canceled' = canceled \cup {r}
<1>1. Cancelling(r) \in Exec
  BY Zenon, Constants DEF RestType, Cancelling, Exec, Pcs
<1> QED
  BY ZenonT(60), <1>1 DEF RequestCancel, Cancelling

\* The steps of users, deliveries and crashes keep the types, and the
\* executions that there were.
LEMMA UserTyped ==
    ASSUME TypeOK, IInv, Shaped, Started,
           \/ UserStep \/ LeaseExpires \/ \E r \in Repairs : PipelineEvent(r)
           \/ \E w \in Workers : (\E m \in inbox[w] : Start(w, m)) \/ Crash(w)
    PROVE  RestType' /\ Shaped'
<1>1. RestType /\ card.rev \in Nat /\ card.rev + 1 \in Nat
  BY SMT, Z3, Rest, Numbers
<1>2. \A n : Shaped /\ Fits(n) => \A e \in execs \cup {n} : Fits(e)
  BY DEF Shaped
<1> USE DEF taskVars, autoVars, leaseVars, procVars
<1>3. ASSUME NEW r \in Repairs, Click(r) \/ Comment(r)
      PROVE  RestType' /\ Shaped'
  <2>1. /\ card' = card \/ card' = [card EXCEPT !.active = r, !.rev = card.rev + 1]
        /\ UNCHANGED <<own, canceled, autoVars, leaseVars, inbox, procVars, excl, execs, sched>>
    BY <1>3 DEF Click, Comment
  <2>2. CardType'
    BY Zenon, <1>1, <2>1, Names DEF RestType, CardType
  <2> QED
    BY <1>1, <2>1, <2>2 DEF RestType, Shaped, Fits
<1>4. CASE ClickAgain
  <2>1. /\ card' = [card EXCEPT !.active = gate, !.rev = card.rev + 1]
        /\ UNCHANGED <<own, canceled, autoVars, leaseVars, inbox, procVars, excl, execs, sched>>
    BY <1>4 DEF ClickAgain
  <2>2. CardType'
    BY Zenon, <1>1, <2>1 DEF RestType, CardType, TypeOK
  <2> QED
    BY <1>1, <2>1, <2>2 DEF RestType, Shaped, Fits
<1>5. ASSUME NEW r \in Repairs, RequestRollback(r)
      PROVE  RestType' /\ Shaped'
  <2>1. /\ AdmitRollback(r, "post_repair")
        /\ UNCHANGED <<own, canceled, paused, cursor, ran, leaseVars, inbox, procVars, excl,
                       execs, sched>>
    BY Zenon, <1>5 DEF RequestRollback
  <2>2. CardType' /\ pausedBy' = pausedBy
    BY Zenon, <1>1, <2>1, CardTyped DEF AdmitRollback
  <2> QED
    BY Zenon, <1>1, <2>1, <2>2 DEF RestType, Shaped, Fits
<1>6. ASSUME NEW r \in Repairs, RequestCancel(r)
      PROVE  RestType' /\ Shaped'
  <2>1. Fits(Cancelling(r))
    BY Zenon DEF Fits, Cancelling
  <2>2. Cancelling(r) \in Exec /\ canceled' = canceled \cup {r}
        /\ (execs' = execs \/ execs' = execs \cup {Cancelling(r)})
    BY Zenon, <1>1, <1>6, CancelFacts
  <2>3. UNCHANGED <<own, autoVars, card, leaseVars, inbox, procVars, excl, sched>>
    BY Zenon, <1>6 DEF RequestCancel
  <2>4. Shaped'
    BY Zenon, <1>2, <2>1, <2>2 DEF Shaped, Fits
  <2> QED
    BY Zenon, <1>1, <2>2, <2>3, <2>4 DEF RestType, CardType
<1>7. CASE LeaseExpires
  BY Zenon, <1>1, <1>7, Leases DEF LeaseExpires, RestType, CardType, Shaped, Fits
<1>8. ASSUME NEW r \in Repairs, PipelineEvent(r)
      PROVE  RestType' /\ Shaped'
  <2>1. /\ inbox' = [inbox EXCEPT ![own[r].worker] = @ \cup {[task |-> r, kind |-> "resume"]}]
        /\ UNCHANGED <<taskVars, autoVars, card, leaseVars, procVars, excl, execs, sched>>
    BY Zenon, <1>8 DEF PipelineEvent
  <2>2. inbox' \in [Workers -> SUBSET Msg]
    BY Zenon, <1>1, <2>1, InboxTyped, Constants
  <2> QED
    BY Zenon, <1>1, <2>1, <2>2 DEF RestType, CardType, Shaped, Fits
<1>9. ASSUME NEW w \in Workers, NEW m \in inbox[w], Start(w, m)
      PROVE  RestType' /\ Shaped'
  <2>1. /\ Starting(w, m) \in Exec /\ (execs' = execs \/ execs' = execs \cup {Starting(w, m)})
        /\ inbox' = [inbox EXCEPT ![w] = @ \ {m}]
    BY Zenon, <1>1, <1>9, StartFacts
  <2>2. Fits(Starting(w, m)) \/ execs' = execs
    <3>1. m.kind = "resume" => m.task \in Repairs
      BY Zenon, <1>9 DEF Started, Start
    <3> QED
      BY Zenon, <3>1, Constants DEF Fits, Starting
  <2>3. UNCHANGED <<taskVars, autoVars, card, leaseVars, procVars, excl, sched>>
    BY ZenonT(60), <1>9 DEF Start
  <2>4. Shaped'
    BY ZenonT(60), <1>2, <2>1, <2>2 DEF Shaped, Fits
  <2> QED
    BY Zenon, <1>1, <2>1, <2>3, <2>4 DEF RestType, CardType
<1>10. ASSUME NEW w \in Workers, Crash(w)
       PROVE  RestType' /\ Shaped'
  <2>1. /\ up' \subseteq up /\ faults' = faults + 1 /\ execs' \subseteq execs
        /\ excl' = [excl EXCEPT ![w] = NoTask] /\ inbox' = [inbox EXCEPT ![w] = {}]
        /\ UNCHANGED <<taskVars, autoVars, card, leaseVars, sched>>
    BY Zenon, <1>10 DEF Crash
  <2> QED
    <3>1. up' \subseteq Workers /\ execs' \subseteq Exec /\ faults' \in Nat
      BY SMT, Z3, <1>1, <2>1 DEF RestType
    <3>2. /\ excl' \in [Workers -> Repairs \cup {NoTask}]
          /\ inbox' \in [Workers -> SUBSET Msg]
      BY <1>1, <2>1 DEF RestType
    <3>3. Shaped'
      BY Zenon, <2>1 DEF Shaped, Fits
    <3> QED
      BY Zenon, <1>1, <2>1, <3>1, <3>2, <3>3 DEF RestType, CardType
<1> QED
  BY ZenonT(60), <1>3, <1>4, <1>5, <1>6, <1>7, <1>8, <1>9, <1>10 DEF UserStep

=============================================================================
