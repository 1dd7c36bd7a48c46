----------------------------- MODULE RepairPush -----------------------------
(***************************************************************************)
(* How one repair publishes its commits, what is written down about them, *)
(* and how they are taken back.                                            *)
(*                                                                         *)
(* Three records describe the same pushes and are never written together:  *)
(* the source branch (on the Git server), the effect ledger (claim,        *)
(* metadata, completion) and the repair's commit manifest (both in Redis). *)
(* An execution of the repair walks through commit_and_push_tool; it may   *)
(* lose its lease at any step and run on beside its successor, be killed   *)
(* by a cancel, or have its push land after it stopped waiting.  People    *)
(* push to the branch all the while.  The rollback engine works from the   *)
(* manifest alone.  The repair was asked for on the failure card, and the   *)
(* card stays: record_repair_commit_sync finds who may roll back.          *)
(*                                                                         *)
(* Commits are numbered in the order they are made; 0 is the head the      *)
(* repair finds.  A tree is the set of commits whose change it contains.   *)
(* The branch never loses a commit: no push here is forced.                *)
(***************************************************************************)
EXTENDS Integers, Sequences, FiniteSets

CONSTANTS
    Diffs,        \* the changes the agent may come up with
    NoDiff,       \* a clean workspace
    MaxExecs,     \* executions of the repair, one fencing token each
    MaxPushes,    \* commits the repair makes
    MaxHuman,     \* commits people push meanwhile
    MaxRollbacks  \* executions of the rollback task

ASSUME PushConstants ==
    /\ MaxExecs \in Nat \ {0}
    /\ MaxPushes \in Nat
    /\ MaxHuman \in Nat
    /\ MaxRollbacks \in Nat
    /\ NoDiff \notin Diffs

VARIABLES
    commits,   \* the commits made so far, on the branch or not
    branch,    \* the source branch on the server, oldest first
    sent,      \* pushes on their way to the server
    ledger,    \* the effect records of the push attempts
    note,      \* the effect record of the report comment, and the comments
    active,    \* the task's active_effect field
    manifest,  \* the task's repair_commit_manifest field
    token,     \* the execution that holds the MR lease
    status,    \* the repair task's status
    cancel,    \* its cancel_requested flag
    ckpt,      \* the highest attempt number in the saved conversation
    run,       \* the executions
    back       \* the rollback task

vars == <<commits, branch, sent, ledger, note, active, manifest, token,
          status, cancel, ckpt, run, back>>

server == <<commits, branch, sent>>
store == <<ledger, note, active, manifest>>
task == <<token, status, cancel, ckpt>>

Execs == 1..MaxExecs
None == -1
MaxCommits == MaxPushes + MaxHuman + MaxRollbacks
Ids == 0..MaxCommits
Attempts == [seq : 1..MaxPushes, base : Ids, diff : Diffs]
NoAttempt == [seq |-> 0, base |-> 0, diff |-> NoDiff]
Comment == [seq |-> -1, base |-> 0, diff |-> NoDiff]

Tip == branch[Len(branch)]
OnBranch(c) == \E i \in DOMAIN branch : branch[i] = c
Tree(c) == IF c = 0 THEN {} ELSE commits[c].tree
By(who) == {c \in DOMAIN commits : commits[c].by = who}

\* A commit on top of parent.  Its number is its SHA: two commits of the
\* same change are two commits.
Made(parent, who, att, tree) ==
    Append(commits, [parent |-> parent, by |-> who, att |-> att,
                     tree |-> tree])

NextId == Len(commits) + 1

\* There is a number left for another commit.
Room == Len(commits) < MaxCommits

-----------------------------------------------------------------------------
Init ==
    /\ commits = <<>>
    /\ branch = <<0>>
    /\ sent = {}
    /\ ledger = [a \in Attempts |-> [st |-> "none", based |-> FALSE,
                                     commit |-> None, res |-> "none"]]
    /\ note = [st |-> "none", count |-> 0, blind |-> 0]
    /\ active = NoAttempt
    /\ manifest = [base |-> None, entries |-> <<>>, frozen |-> FALSE]
    /\ token = 1
    /\ status = "running"
    /\ cancel = FALSE
    /\ ckpt = 0
    /\ run = [e \in Execs |-> [pc |-> IF e = 1 THEN "prep" ELSE "off",
                               local |-> None, mine |-> None,
                               att |-> NoAttempt, seq |-> 0]]
    /\ back = [pc |-> "none", commit |-> None, tries |-> 0, result |-> "none"]

-----------------------------------------------------------------------------
(* The scripts and helpers the executions share.                           *)

Go(e, pc) == run' = [run EXCEPT ![e].pc = pc]

Step(e, pc) == run[e].pc = pc

\* Every script that is given a lease compares the holder and the token.
Fenced(e) == e = token

\* raise_if_canceled, and the lease comparison of the call that follows it.
Allowed(e) == ~cancel /\ Fenced(e)

\* A tool that raises leaves the agent loop where it was; the loop may then
\* end or call a tool again.
Raise(e) == Go(e, "agent") /\ UNCHANGED <<store, task, back>>

Entry(a, c, effect) == [seq |-> a.seq, commit |-> c, effect |-> effect]

ParentAt(k) == IF k = 1 THEN manifest.base ELSE manifest.entries[k - 1].commit

\* resolve_repair_manifest_base_tree: the entry must continue, or repeat, the
\* chain the manifest holds.
Resolves(entry) ==
    IF manifest.entries = <<>>
      THEN entry.seq = 1
      ELSE /\ entry.seq \in 1..(Len(manifest.entries) + 1)
           /\ commits[entry.commit].parent = ParentAt(entry.seq)

IsLast(entry) ==
    /\ manifest.entries # <<>>
    /\ entry = manifest.entries[Len(manifest.entries)]

Continues(entry) ==
    /\ entry.seq = Len(manifest.entries) + 1
    /\ manifest.entries # <<>> => commits[entry.commit].parent = ParentAt(entry.seq)
    /\ \A k \in DOMAIN manifest.entries :
          manifest.entries[k].commit # entry.commit

\* Mutant: a frozen manifest takes entries.
AcceptsFrozen(entry) == Resolves(entry) /\ (IsLast(entry) \/ Continues(entry))

\* APPEND_REPAIR_COMMIT, behind the check its callers make first.
Accepts(entry) ==
    /\ Resolves(entry)
    /\ ~manifest.frozen
    /\ IsLast(entry) \/ Continues(entry)

Appended(entry) ==
    IF IsLast(entry)
      THEN manifest
      ELSE [manifest EXCEPT !.base = IF manifest.entries = <<>>
                                       THEN commits[entry.commit].parent
                                       ELSE @,
                            !.entries = Append(@, entry)]

\* FREEZE_REPAIR_MANIFEST: without a manifest there is nothing to freeze.
Freeze == [manifest EXCEPT !.frozen = @ \/ manifest.entries # <<>>]

\* CLAIM_EFFECT on a record that is absent or started.
ClaimIt(a) ==
    /\ ledger' = [ledger EXCEPT ![a].st = "started"]
    /\ active' = a

\* COMPLETE_EFFECT.
CompleteIt(a, res) ==
    /\ ledger' = [ledger EXCEPT ![a].st = "completed", ![a].res = res]
    /\ active' = IF active = a THEN NoAttempt ELSE active

\* The highest attempt number in the conversation once this attempt's is in it.
Highest(e) == IF run[e].att.seq > run[e].seq THEN run[e].att.seq ELSE run[e].seq

\* The tool returns a result that carries its attempt number.
Returns(e) == run' = [run EXCEPT ![e].pc = "save", ![e].seq = Highest(e)]

\* _finish_attempt with a status other than success.
Blocked(e) ==
    IF Fenced(e)
      THEN /\ CompleteIt(run[e].att, "blocked")
           /\ Returns(e)
           /\ UNCHANGED <<note, manifest, task, back>>
      ELSE Raise(e)

-----------------------------------------------------------------------------
(* An execution of the repair: the workspace, the agent loop, the push     *)
(* tool.  local is the workspace's HEAD; mine is that commit when this     *)
(* execution made it and has not been told that its push succeeded.        *)

\* prepare_workspace: a fresh clone, or a fetch and checkout of the branch
\* head that drops a commit which was never pushed.  Both are shallow: the
\* parent of HEAD cannot be read.  The conversation is the saved one.
Prepare(e) ==
    /\ Step(e, "prep")
    /\ ~cancel
    /\ run' = [run EXCEPT ![e].pc = "agent", ![e].local = Tip,
                          ![e].mine = None, ![e].seq = ckpt]
    /\ UNCHANGED <<server, store, task, back>>

\* commit_and_push_tool up to the claim: the workspace must be at the branch
\* head.  The agent has left a change d in it.
CallNew(e, d) ==
    /\ Step(e, "agent")
    /\ ~cancel
    /\ run[e].local = Tip
    /\ Cardinality(By("repair")) < MaxPushes
    /\ run[e].seq < MaxPushes
    /\ run' = [run EXCEPT ![e].pc = "claim",
                          ![e].att = [seq |-> run[e].seq + 1, base |-> Tip,
                                      diff |-> d]]
    /\ UNCHANGED <<server, store, task, back>>

\* The same without a change: recover_push_attempt rebuilds the attempt from
\* the marker of a commit that is at HEAD and was not reported as pushed.
CallAgain(e) ==
    /\ Step(e, "agent")
    /\ ~cancel
    /\ run[e].local = Tip
    /\ run[e].mine = Tip
    /\ run' = [run EXCEPT ![e].pc = "claim",
                          ![e].att = commits[Tip].att]
    /\ UNCHANGED <<server, store, task, back>>

\* evaluate_native_commit refuses the change, or it is not the one that was
\* validated.  Nothing is claimed, but the result carries the number.
CallRefused(e) ==
    /\ Step(e, "agent")
    /\ ~cancel
    /\ run[e].local = Tip
    /\ run[e].seq < MaxPushes
    /\ run' = [run EXCEPT ![e].pc = "save", ![e].seq = @ + 1]
    /\ UNCHANGED <<server, store, task, back>>

\* SyncEffectGuard.claim and the three ways on: the attempt is settled, a
\* commit was made for it, or it is new.  Whatever a settled attempt came to,
\* the commit its result names is recorded once more.  An attempt of CallAgain
\* is never new: its commit is on the branch, and so in the record.
Claim(e) ==
    LET a == run[e].att
        record == ledger[a]
        entry == Entry(a, record.commit, "name")
    IN  /\ Step(e, "claim")
        /\ UNCHANGED <<server, note, task, back>>
        /\ CASE ~Allowed(e) -> Go(e, "agent") /\ UNCHANGED store
             [] Allowed(e) /\ record.st = "completed" ->
                  /\ IF record.commit = None \/ Accepts(entry)
                       THEN Returns(e) ELSE Go(e, "agent")
                  /\ manifest' = IF record.commit # None /\ Accepts(entry)
                                   THEN Appended(entry) ELSE manifest
                  /\ UNCHANGED <<ledger, active>>
             [] Allowed(e) /\ record.st # "completed" ->
                  /\ ClaimIt(a)
                  /\ Go(e, IF record.commit # None THEN "resume" ELSE "check")
                  /\ UNCHANGED manifest

\* The remote head is read again; then the attempt's base is recorded.
CheckRemote(e) ==
    /\ Step(e, "check")
    /\ UNCHANGED server
    /\ IF Tip # run[e].att.base
         THEN Blocked(e)
         ELSE IF Allowed(e)
           THEN /\ ledger' = [ledger EXCEPT ![run[e].att].based = TRUE]
                /\ Go(e, "commit")
                /\ UNCHANGED <<note, active, manifest, task, back>>
           ELSE Raise(e)

\* assert_fence and git commit.
Commit(e) ==
    /\ Step(e, "commit")
    /\ Room
    /\ UNCHANGED <<branch, sent, store, task, back>>
    /\ IF Fenced(e)
         THEN /\ commits' = Made(run[e].local, "repair", run[e].att,
                                 Tree(run[e].local) \cup {NextId})
              /\ run' = [run EXCEPT ![e].pc = "publish", ![e].local = NextId,
                                    ![e].mine = NextId]
         ELSE Go(e, "agent") /\ UNCHANGED commits

\* Mutant: the push leaves before its evidence is recorded.
PublishUnrecorded(e) ==
    /\ Step(e, "publish")
    /\ sent' = sent \cup {run[e].mine}
    /\ Go(e, "confirm")
    /\ UNCHANGED <<commits, branch, store, task, back>>

\* The commit's evidence is recorded, the lease is checked, and the push
\* leaves.  From here nothing can call it back.
Publish(e) ==
    /\ Step(e, "publish")
    /\ UNCHANGED <<commits, branch>>
    /\ IF Allowed(e)
         THEN /\ ledger' = [ledger EXCEPT ![run[e].att].commit = run[e].mine]
              /\ sent' = sent \cup {run[e].mine}
              /\ Go(e, "confirm")
              /\ UNCHANGED <<note, active, manifest, task, back>>
         ELSE Raise(e) /\ UNCHANGED sent

\* _resume_push_attempt: a commit was made for this attempt before.
Resume(e) ==
    LET c == ledger[run[e].att].commit
    IN  /\ Step(e, "resume")
        /\ UNCHANGED <<commits, branch>>
        /\ CASE run[e].local # c -> Blocked(e) /\ UNCHANGED sent
             [] run[e].local = c /\ Tip = c ->
                  Go(e, "append") /\ UNCHANGED <<sent, store, task, back>>
             [] run[e].local = c /\ Tip # c /\ Tip # run[e].att.base ->
                  Blocked(e) /\ UNCHANGED sent
             [] run[e].local = c /\ Tip # c /\ Tip = run[e].att.base ->
                  IF Fenced(e)
                    THEN /\ sent' = sent \cup {c}
                         /\ Go(e, "confirm")
                         /\ UNCHANGED <<store, task, back>>
                    ELSE Raise(e) /\ UNCHANGED sent

\* Mutant: the push is taken for landed.
ConfirmBlind(e) ==
    /\ Step(e, "confirm")
    /\ Go(e, "append")
    /\ UNCHANGED <<server, store, task, back>>

\* Whatever git push said, the remote head decides.
Confirm(e) ==
    /\ Step(e, "confirm")
    /\ UNCHANGED server
    /\ CASE Tip = run[e].mine ->
              Go(e, "append") /\ UNCHANGED <<store, task, back>>
         [] Tip # run[e].mine /\ Tip # run[e].att.base -> Blocked(e)
         [] Tip # run[e].mine /\ Tip = run[e].att.base ->
              Returns(e) /\ UNCHANGED <<store, task, back>>

\* Git fails: the remote head cannot be read, nothing can be committed, or the
\* workspace is not clean after the push.  The effect stays started.
GitFails(e) ==
    /\ run[e].pc \in {"check", "commit", "resume", "confirm"}
    /\ Returns(e)
    /\ UNCHANGED <<server, store, task, back>>

\* Mutant: the commit is left for a later record.
AppendLater(e) ==
    /\ Step(e, "append")
    /\ Go(e, "complete")
    /\ UNCHANGED <<server, store, task, back>>

\* record_repair_commit_sync.
AppendEntry(e) ==
    LET entry == Entry(run[e].att, run[e].mine, "name")
    IN  /\ Step(e, "append")
        /\ UNCHANGED <<server, ledger, note, active, task, back>>
        /\ IF Fenced(e) /\ Accepts(entry)
             THEN manifest' = Appended(entry) /\ Go(e, "complete")
             ELSE Go(e, "agent") /\ UNCHANGED manifest

\* The effect is completed and the tool returns success.
Complete(e) ==
    /\ Step(e, "complete")
    /\ UNCHANGED server
    /\ IF Fenced(e)
         THEN /\ CompleteIt(run[e].att, "success")
              /\ run' = [run EXCEPT ![e].pc = "save", ![e].mine = None,
                                    ![e].seq = Highest(e)]
              /\ UNCHANGED <<note, manifest, task, back>>
         ELSE Raise(e)

\* The conversation is saved once the tool's result is in it.
Save(e) ==
    /\ Step(e, "save")
    /\ ckpt' = run[e].seq
    /\ Go(e, "agent")
    /\ UNCHANGED <<server, store, token, status, cancel, back>>

-----------------------------------------------------------------------------
(* The report comment, guarded by an effect of its own.                    *)

\* _publish_comment_effect: the claim.  A record that is complete is the end.
ReportClaim(e) ==
    /\ Step(e, "agent")
    /\ Allowed(e)
    /\ note.st # "completed"
    /\ note' = [note EXCEPT !.st = "started"]
    /\ active' = Comment
    /\ Go(e, "find")
    /\ UNCHANGED <<server, ledger, manifest, task, back>>

ReportComplete(e, pc) ==
    /\ IF Fenced(e)
         THEN /\ note' = [note EXCEPT !.st = "completed"]
              /\ active' = IF active = Comment THEN NoAttempt ELSE active
         ELSE UNCHANGED <<note, active>>
    /\ Go(e, pc)
    /\ UNCHANGED <<server, ledger, manifest, task, back>>

\* Mutant: the comments are not looked through.
FindNothing(e) ==
    /\ Step(e, "find")
    /\ Go(e, "post")
    /\ UNCHANGED <<server, store, task, back>>

\* _find_comment: a comment with the marker settles the effect.
Find(e) ==
    /\ Step(e, "find")
    /\ IF note.count > 0
         THEN ReportComplete(e, "agent")
         ELSE Go(e, "post") /\ UNCHANGED <<server, store, task, back>>

\* The comments cannot be listed, which counts as none found.
FindFails(e) ==
    /\ Step(e, "find")
    /\ Go(e, "guess")
    /\ UNCHANGED <<server, store, task, back>>

\* The comment is posted.  blind counts the posts that could not know better:
\* the listing failed, or the lease was lost after the claim.
Post(e) ==
    /\ run[e].pc \in {"post", "guess"}
    /\ note' = [note EXCEPT !.count = @ + 1,
                            !.blind = IF Step(e, "guess") \/ ~Fenced(e)
                                        THEN @ + 1 ELSE @]
    /\ Go(e, "posted")
    /\ UNCHANGED <<server, ledger, active, manifest, task, back>>

Posted(e) == Step(e, "posted") /\ ReportComplete(e, "agent")

-----------------------------------------------------------------------------
(* The end of an execution: the freeze, and the two halves of a cancel.    *)

\* finalize_cancel_or_enqueue_rollback: freeze, then either a rollback task
\* or the plain cancellation.
FinalizeCancel ==
    /\ manifest' = Freeze
    /\ status' = "canceled"
    /\ back' = IF manifest.entries # <<>> /\ back.pc = "none"
                 THEN [back EXCEPT !.pc = "queued"] ELSE back

\* _execute after the command has returned or raised.  A cancel seen here is
\* finalised by the child process itself, and then once more by its parent.
Finish(e) ==
    /\ Step(e, "agent") \/ (Step(e, "prep") /\ cancel)
    /\ UNCHANGED <<server, ledger, note, active, token, cancel, ckpt>>
    /\ CASE ~Fenced(e) -> Go(e, "off") /\ UNCHANGED <<manifest, status, back>>
         [] Fenced(e) /\ cancel -> FinalizeCancel /\ Go(e, "killed")
         [] Fenced(e) /\ ~cancel ->
              manifest' = Freeze /\ Go(e, "settle") /\ UNCHANGED <<status, back>>

\* The transitions through publishing to completed.  (A command that has raised
\* makes it failed, which no step here tells apart.)
Settle(e) ==
    /\ Step(e, "settle")
    /\ status' = IF Fenced(e) /\ status = "running" THEN "completed" ELSE status
    /\ Go(e, "off")
    /\ UNCHANGED <<server, store, token, cancel, ckpt, back>>

\* The parent process polls the flag and kills the child, an effect under way
\* or not: it waits for one no longer than its grace period.
Kill(e) ==
    /\ cancel
    /\ run[e].pc \notin {"off", "killed", "refreeze"}
    /\ Go(e, "killed")
    /\ UNCHANGED <<server, store, task, back>>

\* _mark_failed.
MarkFailed(e) ==
    /\ status' = IF status = "running" THEN "failed" ELSE status
    /\ Go(e, "off")

\* _reconcile_interrupted_commit.  The entry it writes names its effect by
\* the full key, the push tool by the short name.  An append that is refused
\* raises, and the repair fails unless the child had cancelled it already.
Reconcile(e) ==
    LET record == ledger[active]
        entry == Entry(active, record.commit, "key")
    IN  /\ Step(e, "killed")
        /\ UNCHANGED <<server, token, cancel, ckpt, back>>
        /\ CASE ~Fenced(e) -> Go(e, "off") /\ UNCHANGED <<store, status>>
             [] Fenced(e) /\ active = NoAttempt ->
                  Go(e, "refreeze") /\ UNCHANGED <<store, status>>
             [] Fenced(e) /\ active = Comment ->
                  /\ note' = [note EXCEPT !.st = "completed"]
                  /\ active' = NoAttempt
                  /\ Go(e, "refreeze")
                  /\ UNCHANGED <<ledger, manifest, status>>
             [] Fenced(e) /\ active \in Attempts /\ record.based
                          /\ Tip = active.base ->
                  /\ CompleteIt(active, "canceled")
                  /\ Go(e, "refreeze")
                  /\ UNCHANGED <<note, manifest, status>>
             [] Fenced(e) /\ active \in Attempts /\ record.based
                          /\ Tip # active.base /\ Tip = record.commit ->
                  IF Accepts(entry)
                    THEN /\ manifest' = Appended(entry)
                         /\ CompleteIt(active, "success")
                         /\ Go(e, "refreeze")
                         /\ UNCHANGED <<note, status>>
                    ELSE MarkFailed(e) /\ UNCHANGED store
             [] Fenced(e) /\ active \in Attempts
                /\ (record.based => Tip \notin {active.base, record.commit}) ->
                  /\ status' = "canceled"
                  /\ Go(e, "off")
                  /\ UNCHANGED store

\* The branch head cannot be read there.
ReconcileFails(e) ==
    /\ Step(e, "killed")
    /\ Fenced(e) /\ active \in Attempts /\ ledger[active].based
    /\ MarkFailed(e)
    /\ UNCHANGED <<server, store, token, cancel, ckpt, back>>

\* _finalize_cancel goes on once nothing is in doubt.
Refreeze(e) ==
    /\ Step(e, "refreeze")
    /\ IF Fenced(e) /\ status \notin {"completed", "failed"}
         THEN FinalizeCancel
         ELSE UNCHANGED <<manifest, status, back>>
    /\ Go(e, "off")
    /\ UNCHANGED <<server, ledger, note, active, token, cancel, ckpt>>

-----------------------------------------------------------------------------
(* The rollback task.                                                      *)

Final == manifest.entries[Len(manifest.entries)].commit
Entries == {manifest.entries[k].commit : k \in DOMAIN manifest.entries}

\* Mutant: the report does not name the commit.
ReportBare(result, c) == back' = [back EXCEPT !.pc = "done", !.result = result]

Report(result, c) ==
    back' = [back EXCEPT !.pc = "done", !.result = result, !.commit = c]

\* request_repair_rollback from the card of a repair that has ended.
RequestRollback ==
    /\ status \in {"completed", "failed"}
    /\ manifest.frozen
    /\ back.pc = "none"
    /\ back' = [back EXCEPT !.pc = "queued"]
    /\ UNCHANGED <<server, store, task, run>>

\* _existing_rollback: the branch head is this rollback's commit already.
Existing ==
    /\ Tip # Final
    /\ Tip # 0
    /\ commits[Tip].by = "rollback"
    /\ commits[Tip].parent = Final
    /\ Tree(Tip) = Tree(manifest.base)

\* Mutant: the tree from before the repair is put on whatever is the head.
RollbackForces ==
    /\ back.pc = "queued"
    /\ back.tries < MaxRollbacks
    /\ Room
    /\ commits' = Made(Tip, "rollback", NoAttempt, Tree(manifest.base))
    /\ back' = [back EXCEPT !.pc = "push", !.commit = NextId, !.tries = @ + 1]
    /\ UNCHANGED <<branch, sent, store, task, run>>

\* execute_repair_rollback up to its commit: a fresh clone, the checks of the
\* head, the reverts, and the comparison with the tree the repair started on.
\* (That each entry is the parent of the next is how they were appended; a
\* result in the effect record is the one that was reported.)
RollbackRun ==
    /\ back.pc = "queued"
    /\ back.tries < MaxRollbacks
    /\ Room
    /\ UNCHANGED <<branch, sent, store, task, run>>
    /\ CASE Existing -> Report("succeeded", Tip) /\ UNCHANGED commits
         [] ~Existing /\ (Tip # Final
                          \/ Tree(Final) \ Entries # Tree(manifest.base)) ->
              Report("failed", None) /\ UNCHANGED commits
         [] ~Existing /\ Tip = Final
            /\ Tree(Final) \ Entries = Tree(manifest.base) ->
              /\ commits' = Made(Final, "rollback", NoAttempt,
                                 Tree(Final) \ Entries)
              /\ back' = [back EXCEPT !.pc = "push", !.commit = NextId,
                                      !.tries = @ + 1]

\* The head is compared once more; then the push leaves.
RollbackPush ==
    /\ back.pc = "push"
    /\ IF Tip = commits[back.commit].parent
         THEN /\ sent' = sent \cup {back.commit}
              /\ back' = [back EXCEPT !.pc = "confirm"]
         ELSE Report("failed", None) /\ UNCHANGED sent
    /\ UNCHANGED <<commits, branch, store, task, run>>

\* Mutant: the push is taken for landed.
RollbackTrusts ==
    /\ back.pc = "confirm"
    /\ Report("succeeded", back.commit)
    /\ UNCHANGED <<server, store, task, run>>

RollbackConfirm ==
    /\ back.pc = "confirm"
    /\ IF Tip = back.commit
         THEN Report("succeeded", Tip)
         ELSE Report("failed", None)
    /\ UNCHANGED <<server, store, task, run>>

\* Git fails on the way, and the rollback is reported as failed.
RollbackFails ==
    /\ back.pc \in {"queued", "push", "confirm"}
    /\ Report("failed", None)
    /\ UNCHANGED <<server, store, task, run>>

\* Its worker is lost and the task runs again from the start.
RollbackCrash ==
    /\ back.pc \in {"push", "confirm"}
    /\ back.tries < MaxRollbacks
    /\ back' = [back EXCEPT !.pc = "queued", !.commit = None]
    /\ UNCHANGED <<server, store, task, run>>

-----------------------------------------------------------------------------
(* The environment: the Git server, people, and the loss of a worker.      *)

\* The server takes a push whose commit extends the branch head.
Land(c) ==
    /\ c \in sent
    /\ sent' = sent \ {c}
    /\ branch' = IF commits[c].parent = Tip THEN Append(branch, c) ELSE branch
    /\ UNCHANGED <<commits, store, task, run, back>>

HumanPush ==
    /\ Cardinality(By("human")) < MaxHuman
    /\ Room
    /\ commits' = Made(Tip, "human", NoAttempt, Tree(Tip) \cup {NextId})
    /\ branch' = Append(branch, NextId)
    /\ UNCHANGED <<sent, store, task, run, back>>

RequestCancel ==
    /\ status = "running"
    /\ ~cancel
    /\ cancel' = TRUE
    /\ UNCHANGED <<server, store, token, status, ckpt, run, back>>

\* The worker is taken for dead: its lease is revoked and the repair starts
\* over on another one.  The old execution may have stopped or may run on.
Recover ==
    /\ status = "running"
    /\ token < MaxExecs
    /\ token' = token + 1
    /\ Go(token + 1, "prep")
    /\ UNCHANGED <<server, store, status, cancel, ckpt, back>>

-----------------------------------------------------------------------------
PushStep(e) ==
    \/ Prepare(e) \/ (\E d \in Diffs : CallNew(e, d)) \/ CallAgain(e)
    \/ CallRefused(e) \/ Claim(e) \/ CheckRemote(e) \/ Commit(e) \/ Publish(e)
    \/ Resume(e) \/ Confirm(e) \/ GitFails(e) \/ AppendEntry(e) \/ Complete(e)
    \/ Save(e)

ReportStep(e) ==
    ReportClaim(e) \/ Find(e) \/ FindFails(e) \/ Post(e) \/ Posted(e)

EndStep(e) ==
    \/ Finish(e) \/ Settle(e) \/ Kill(e) \/ Reconcile(e) \/ ReconcileFails(e)
    \/ Refreeze(e)

RollbackStep ==
    \/ RequestRollback \/ RollbackRun \/ RollbackPush \/ RollbackConfirm
    \/ RollbackFails \/ RollbackCrash

Next ==
    \/ \E e \in Execs : PushStep(e) \/ ReportStep(e) \/ EndStep(e)
    \/ RollbackStep
    \/ \E c \in sent : Land(c)
    \/ HumanPush
    \/ RequestCancel
    \/ Recover

Spec == Init /\ [][Next]_vars

-----------------------------------------------------------------------------
(* Properties.                                                             *)

PCs == {"off", "prep", "agent", "claim", "check", "commit", "publish",
        "resume", "confirm", "append", "complete", "save", "find", "post",
        "guess", "posted", "settle", "killed", "refreeze"}

Commits == [parent : Ids, by : {"human", "repair", "rollback"},
            att : Attempts \cup {NoAttempt}, tree : SUBSET Ids]

EntryType == [seq : 1..MaxPushes, commit : Ids, effect : {"name", "key"}]

\* Type invariant.  A finished rollback that succeeded names its commit.
TypeOK ==
    /\ commits \in Seq(Commits)
    /\ branch \in Seq(Ids) /\ branch # <<>>
    /\ sent \subseteq DOMAIN commits
    /\ ledger \in [Attempts -> [st : {"none", "started", "completed"},
                                based : BOOLEAN,
                                commit : Ids \cup {None},
                                res : {"none", "success", "blocked",
                                       "canceled"}]]
    /\ note \in [st : {"none", "started", "completed"}, count : Nat,
                 blind : Nat]
    /\ active \in Attempts \cup {NoAttempt, Comment}
    /\ manifest \in [base : Ids \cup {None}, entries : Seq(EntryType),
                     frozen : BOOLEAN]
    /\ token \in Execs
    /\ status \in {"running", "completed", "failed", "canceled"}
    /\ cancel \in BOOLEAN
    /\ ckpt \in 0..MaxPushes
    /\ run \in [Execs -> [pc : PCs, local : Ids \cup {None},
                          mine : Ids \cup {None},
                          att : Attempts \cup {NoAttempt},
                          seq : 0..MaxPushes]]
    /\ back \in [pc : {"none", "queued", "push", "confirm", "done"},
                 commit : Ids \cup {None}, tries : 0..MaxRollbacks,
                 result : {"none", "succeeded", "failed"}]
    /\ back.result = "succeeded" => back.commit # None

\* The manifest describes the branch: its entries are the commits that follow
\* its base, with nobody's commit in between, in the order they were pushed.
\* Rollback reverts exactly these, so an entry for a push that did not land,
\* or a gap between two entries, would revert the wrong thing.  There is one
\* exception: the last entry may be missing when its attempt was settled, but
\* not as pushed, because a retry records the commit of any settled attempt.
ManifestOnBranch ==
    manifest.entries # <<>> =>
        \E i \in DOMAIN branch :
            /\ branch[i] = manifest.base
            /\ \A k \in DOMAIN manifest.entries :
                  \/ /\ i + k \in DOMAIN branch
                     /\ branch[i + k] = manifest.entries[k].commit
                  \/ /\ k = Len(manifest.entries) /\ ~OnBranch(Final)
                     /\ ledger[commits[Final].att].res \in {"blocked", "canceled"}

\* A commit of the repair that is on the branch, or on its way there, is the
\* one its effect record names, whichever execution made it and whatever
\* became of that execution: the evidence a cancel or a retry needs exists
\* before the push can land.
EvidenceFirst ==
    \A c \in By("repair") :
        c \in sent \/ OnBranch(c) => ledger[commits[c].att].commit = c

\* An effect that is completed as pushed has its commit in the manifest.  A
\* retry takes such a record for the end of the matter and never looks at the
\* branch again.
SuccessIsRecorded ==
    \A a \in Attempts :
        ledger[a].res = "success" =>
            \E k \in DOMAIN manifest.entries :
                manifest.entries[k].commit = ledger[a].commit

\* No rollback takes away what a person pushed: every change of theirs on the
\* branch is in the tree of its head.
HumanWorkSurvives ==
    \A i \in DOMAIN branch :
        branch[i] \in By("human") => branch[i] \in Tree(Tip)

\* A rollback reported as done is on the branch, once, right after the last
\* commit of the manifest, and has the tree from before the first.
RollbackIsDone ==
    back.result = "succeeded" =>
        /\ {branch[i] : i \in DOMAIN branch} \cap By("rollback") = {back.commit}
        /\ commits[back.commit].parent = Final
        /\ Tree(back.commit) = Tree(manifest.base)

\* The report is posted once, except for the posts of an execution that could
\* not know of the others: its listing failed or its lease was gone.
ReportedOnce == note.count <= 1 + note.blind

\* A frozen manifest never changes: not by an execution that starts over
\* after the freeze, not by the second finalisation of a cancel.  The rollback
\* task was admitted for the manifest as it was.
FrozenForGood == [][manifest.frozen => manifest' = manifest]_vars
=============================================================================
