---------------------------- MODULE TaskService ----------------------------
(***************************************************************************)
(* What the runtime promises about the tasks of one merge request, with no *)
(* queues, schedulers, workers or crashes in it.  The merge request has at *)
(* most one owner, every grant of it has a new and larger token, and a     *)
(* task is handed out, started, published, completed or failed only while  *)
(* somebody owns the merge request.  A task that is taken away from its    *)
(* worker is queued again while its retry budget lasts; a terminal task    *)
(* never changes.                                                          *)
(***************************************************************************)
EXTENDS Naturals

CONSTANTS Workers, Tasks, RetryLimit
VARIABLES
    held,    \* the current ownership of the merge request: at most one record
    granted, \* the last token granted
    status,  \* the status of each task
    attempt  \* how often each task was taken away from a worker

lease == <<held, granted>>
tasks == <<status, attempt>>

Active == {"assigned", "running", "publishing"}

\* The moves of a task under the owner of its merge request.
Moves == {<<"queued", "assigned">>, <<"assigned", "running">>, <<"running", "publishing">>,
          <<"publishing", "completed">>} \cup (Active \X {"failed"})

Init ==
    /\ held = {}
    /\ granted = 0
    /\ status = [t \in Tasks |-> "none"]
    /\ attempt = [t \in Tasks |-> 0]

Grant(w) ==
    /\ held = {}
    /\ granted' = granted + 1
    /\ held' = {[worker |-> w, token |-> granted + 1]}
    /\ UNCHANGED tasks

Drop ==
    /\ held' = {}
    /\ UNCHANGED <<granted, tasks>>

Admit(t) ==
    /\ status[t] = "none"
    /\ status' = [status EXCEPT ![t] = "queued"]
    /\ UNCHANGED <<attempt, lease>>

Advance(t) ==
    /\ held # {}
    /\ \E s \in {"assigned", "running", "publishing", "completed", "failed"} :
          /\ <<status[t], s>> \in Moves
          /\ status' = [status EXCEPT ![t] = s]
    /\ UNCHANGED <<attempt, lease>>

Retake(t) ==
    /\ status[t] \in {"assigned", "running"}
    /\ attempt' = [attempt EXCEPT ![t] = @ + 1]
    /\ status' = [status EXCEPT ![t] = IF attempt[t] < RetryLimit THEN "queued" ELSE "failed"]
    /\ UNCHANGED lease

Next ==
    \/ Drop
    \/ \E w \in Workers : Grant(w)
    \/ \E t \in Tasks : Admit(t) \/ Advance(t) \/ Retake(t)

Spec == Init /\ [][Next]_<<lease, tasks>>
=============================================================================
