---------------------------- MODULE MCRepairPush ----------------------------
(* RepairPush for TLC.                                                     *)
EXTENDS RepairPush, TLC

\* The changes the agent makes are interchangeable.
DiffSymmetry == Permutations(Diffs)

(***************************************************************************)
(* The view under which two states count as the same.  It drops what no    *)
(* later step and no property reads:                                       *)
(*   - the saved attempt number once the last execution has read it;       *)
(*   - of an execution without the lease: everything, when all that it may *)
(*     still do is to end, to save what is not read, or to post a comment  *)
(*     beside another; its attempt, when its next step is to raise;        *)
(*   - of the current execution: everything but the step when it is past   *)
(*     its pushes, the attempt between two calls, and its HEAD when that   *)
(*     is behind the branch for good;                                      *)
(*   - how many comments there are beyond what ReportedOnce compares;      *)
(*   - when the repair is over, what only its executions read.             *)
(***************************************************************************)
Over == [pc |-> "off", local |-> None, mine |-> None, att |-> NoAttempt,
         seq |-> 0]

SavedIsRead == token < MaxExecs \/ run[token].pc = "prep"
RepairIsOver == status # "running" /\ run[token].pc = "off"

Ending == {"off", "settle", "killed", "refreeze"}
Raising == {"agent", "claim", "publish", "append", "complete", "posted"}
Posting == {"find", "post", "guess"}
Between == {"agent", "save", "posted"} \cup Posting

ViewedStale(x) ==
    CASE x.pc \in Ending -> Over
      [] x.pc \notin Ending /\ (RepairIsOver \/ ~SavedIsRead)
         /\ (x.pc \in Posting => note.count > 0 \/ RepairIsOver) -> Over
      [] x.pc \in Raising /\ SavedIsRead /\ ~RepairIsOver ->
           [Over EXCEPT !.pc = x.pc, !.local = x.local, !.seq = x.seq]
      [] OTHER -> x

ViewedCurrent(x) ==
    CASE x.pc \in Ending \cup {"prep"} -> [Over EXCEPT !.pc = x.pc]
      [] x.pc \in Between /\ x.local \notin sent \cup {Tip} ->
           [Over EXCEPT !.pc = x.pc, !.seq = x.seq]
      [] x.pc \in Between /\ x.local \in sent \cup {Tip} ->
           [x EXCEPT !.att = NoAttempt]
      [] OTHER -> x

ViewedRun(e) == IF e < token THEN ViewedStale(run[e]) ELSE ViewedCurrent(run[e])

Claimed == {a \in Attempts : ledger[a].st # "none"}

ViewedTask ==
    IF RepairIsOver
      THEN {<<a, ledger[a].commit, ledger[a].res>> : a \in Claimed}
      ELSE <<{<<a, ledger[a]>> : a \in Claimed}, active, note.st,
             note.count > 0, cancel, IF SavedIsRead THEN ckpt ELSE 0>>

PushView == <<commits, branch, sent, manifest, token, status, back,
              note.count - note.blind, ViewedTask,
              [e \in Execs |-> ViewedRun(e)]>>
=============================================================================
