------------------------- MODULE RepairGate_review --------------------------
(***************************************************************************)
(* For any sets of workers and repairs and any number of commands: nothing *)
(* executes beside a repair, no command of the review runs in the middle   *)
(* of one, a session is not left exclusive, and without faults no command  *)
(* is repeated.  What the steps keep of the review comes first.            *)
(***************************************************************************)
EXTENDS RepairGate_session

-----------------------------------------------------------------------------
(* The review *)

\* No new delivery of the workflow, and no step of one.
AutoRests ==
    /\ \A x \in execs' : x.task = AutoTask => x \in execs
    /\ up' \subseteq up
    /\ \A w \in up' : AutoMsg \in inbox'[w] => AutoMsg \in inbox[w]
    /\ faults' = 0 => faults = 0
    /\ UNCHANGED <<cursor, ran>>

\* Its state is the same, or it has ended and stays ended.
AutoSame ==
    /\ UNCHANGED paused
    /\ \/ status'[AutoTask] = status[AutoTask]
       \/ status[AutoTask] \in Terminal /\ status'[AutoTask] \in Terminal

LEMMA ReviewStays ==
    ASSUME TypeOK, Shaped', Review, Counted, AutoRests, AutoSame
    PROVE  Review' /\ Counted'
<1>1. \A x \in execs' : /\ Pending(x) => x \in execs
                        /\ Going(x) => x \in execs
                        /\ x.pc \in {"check", "pause", "cmd", "record"} => x \in execs
  BY DEF AutoRests, Pending, Going, Shaped, Fits
<1>2. /\ paused' => status'[AutoTask] = "paused"
      /\ \A x \in execs' : Pending(x) => status'[AutoTask] = "assigned"
      /\ \A x \in execs' : Going(x) => status'[AutoTask] \in {"running", "paused"} /\ ~paused'
  BY Zenon, <1>1 DEF Review, AutoSame, Terminal
<1>3. \A w \in up' : AutoMsg \in inbox'[w] =>
          status'[AutoTask] = "assigned" /\ \A x \in execs' : ~Pending(x)
  BY Zenon, <1>1 DEF Review, AutoSame, AutoRests, Terminal
<1>4. Review'
  BY Zenon, <1>1, <1>2, <1>3 DEF Review, Pending, Going
<1>5. Counted'
  <2> SUFFICES ASSUME faults' = 0
               PROVE  /\ \A c \in 1..Commands : ran'[c] <= 1
                      /\ status'[AutoTask] \in {"queued", "assigned"} \/ paused'
                            => NoneAfter(cursor)'
                      /\ \A x \in execs' :
                            /\ x.pc \in {"check", "pause", "cmd"} => NoneAfter(x.idx)'
                            /\ x.pc = "record" => NoneAfter(x.idx + 1)'
    BY Zenon DEF Counted
  <2>1. faults = 0 /\ \A i : NoneAfter(i)' <=> NoneAfter(i)
    BY DEF AutoRests, NoneAfter
  <2>2. NoneAfter(cursor)' <=> NoneAfter(cursor)
    BY DEF AutoRests, NoneAfter
  <2> QED
    BY Zenon, <1>1, <2>1, <2>2 DEF Counted, AutoRests, AutoSame, Terminal, NoneAfter
<1> QED
  BY <1>4, <1>5

LEMMA ApartStays ==
    ASSUME TypeOK, Shaped', Review, Apart, AutoRests, AutoSame, NoneEngages
    PROVE  Apart'
<1> SUFFICES ASSUME Busy'
             PROVE  /\ \A x \in execs' : Going(x) =>
                          x.pc \in {"check", "pause"} /\ status'[AutoTask] = "running"
                    /\ \A x \in execs', r \in Repairs : x.pc = "pause" /\ Engaged(r)' => x.seen = r
                    /\ \A x, y \in execs' : x.task = AutoTask /\ y.task = AutoTask => x = y
                    /\ \A x \in execs', w \in up' : x.task = AutoTask => AutoMsg \notin inbox'[w]
  BY DEF Apart, Going
<1>1. Busy
  BY DEF Busy, NoneEngages
<1>2. \A x \in execs' : Going(x) => x \in execs /\ status[AutoTask] \notin Terminal
  BY DEF AutoRests, Going, Review, Terminal
<1>3. \A x \in execs' : x.pc = "pause" => x \in execs
  BY DEF AutoRests, Shaped, Fits
<1>4. \A x \in execs', r \in Repairs : x.pc = "pause" /\ Engaged(r)' => x.seen = r
  BY Zenon, <1>1, <1>3 DEF Apart, NoneEngages
<1> QED
  BY <1>1, <1>2, <1>4 DEF Apart, AutoRests, AutoSame

\* The paused workflow is woken: nothing of it was left.
LEMMA WokenKeeps ==
    ASSUME TypeOK, Shaped', Review, Apart, Counted, Woken, UNCHANGED <<cursor, ran, up>>,
           \A x \in execs' : x.task = AutoTask => x \in execs,
           faults' = 0 => faults = 0
    PROVE  Review' /\ Apart' /\ Counted'
<1>1. \A x \in execs' : ~Pending(x) /\ ~Going(x)
  BY Zenon DEF Review, Woken, Pending, Going
<1>2. \A x \in execs' : x.pc \notin {"check", "pause", "cmd", "record"}
  BY <1>1 DEF Shaped, Fits, Going
<1>3. Review'
  BY Zenon, <1>1 DEF Woken, Review, Pending, Going
<1>4. Apart'
  BY Zenon DEF Woken, Apart
<1>5. Counted'
  BY Zenon, <1>2 DEF Woken, Counted, NoneAfter
<1> QED
  BY <1>3, <1>4, <1>5

\* Executions of the workflow are in a worker.
LEMMA AutoAtWorker ==
    ASSUME TypeOK, Shaped, Place, NEW x \in execs, x.task = AutoTask
    PROVE  /\ x \in Exec /\ x.worker \in Workers /\ x.worker \in up
           /\ own[AutoTask] = lease /\ lease.worker = x.worker /\ Holds(x)
           /\ x.kind = "run"
<1>1. x \in Exec /\ Fits(x) /\ x.kind \in {"run", "resume"} /\ AutoTask \in Tasks
  BY Constants DEF TypeOK, Shaped, Exec
<1>2. x.worker \in Workers /\ x.kind = "run"
  BY <1>1, Constants, AtWorker DEF Fits
<1> QED
  BY ZenonT(60), <1>1, <1>2 DEF Place, Holds

\* A repair begins inside the session: every delivery of the workflow is
\* outside, and so there is at most one.
LEMMA BeginRepairApart ==
    ASSUME TypeOK, Shaped, Place, Session, Review, NEW e \in execs, e.task \in Repairs,
           Inside(e), AutoRests, Shaped'
    PROVE  Apart'
<1>1. e.worker \in Workers /\ excl[e.worker] = e.task /\ e.task # NoTask
  BY Constants DEF Session, Inside
<1>2. lease.worker = e.worker
  <2>1. e.task \in Tasks
    BY DEF TypeOK, Exec
  <2> QED
    BY Zenon, <1>1, <2>1 DEF Place
<1>3. ASSUME NEW x \in execs, x.task = AutoTask
      PROVE  Pending(x)
  <2>1. x.worker \in Workers /\ lease.worker = x.worker
    BY <1>3, AutoAtWorker
  <2>2. ~Inside(x)
    BY SMT, Z3, <1>1, <1>2, <1>3, <2>1, Constants DEF Session
  <2> QED
    BY <1>3, <2>1, <2>2 DEF Inside, Pending
<1>4. \A x \in execs' : x.task = AutoTask => x \in execs /\ Pending(x)
  BY <1>3 DEF AutoRests
<1>5. \A x \in execs' : ~Going(x) /\ x.pc # "pause"
  BY <1>4 DEF Pending, Going, Shaped, Fits
<1>6. \A x, y \in execs' : x.task = AutoTask /\ y.task = AutoTask => x = y
  BY Zenon, <1>4 DEF Review
<1>7. \A x \in execs', w \in up' : x.task = AutoTask => AutoMsg \notin inbox'[w]
  BY Zenon, <1>4 DEF Review, AutoRests
<1> QED
  BY <1>5, <1>6, <1>7 DEF Apart, Going

\* While a delivery goes through the commands there is no other, but those that
\* suspend.
LEMMA GoingAlone ==
    ASSUME Shaped, Review, NEW e \in execs, Going(e)
    PROVE  /\ status[AutoTask] \in {"running", "paused"} /\ ~paused
           /\ \A x \in execs : ~Pending(x)
           /\ \A w \in up : AutoMsg \notin inbox[w]
           /\ \A x \in execs : Going(x) \/ x.pc \in {"check", "pause", "cmd", "record"} => x = e
<1>1. status[AutoTask] \in {"running", "paused"} /\ ~paused
  BY Zenon DEF Review
<1>2. \A x \in execs : x.pc \in {"check", "pause", "cmd", "record"} => Going(x)
  BY DEF Shaped, Fits, Going
<1> QED
  BY ZenonT(60), <1>1, <1>2 DEF Review

\* A step of a delivery that goes through the commands.
LEMMA GoingKeeps ==
    ASSUME TypeOK, Shaped, Review, Apart, Counted, NEW e \in execs, Going(e),
           UNCHANGED <<up, inbox, faults>>,
           NEW S, execs' = (execs \ {e}) \cup S,
           \A n \in S : n.task = AutoTask /\ n.pc \notin {"wait", "begin"},
           \A n, m \in S : n = m,
           status'[AutoTask] \notin {"queued", "assigned"},
           paused' => status'[AutoTask] = "paused" /\ \A n \in S : ~Going(n),
           \A n \in S : Going(n) => status'[AutoTask] \in {"running", "paused"},
           NoneEngages,
           Busy => \A n \in S : Going(n) =>
                      n.pc \in {"check", "pause"} /\ status'[AutoTask] = "running",
           \A n \in S, r \in Repairs : n.pc = "pause" /\ Engaged(r) => n.seen = r,
           faults = 0 => /\ \A c \in 1..Commands : ran'[c] <= 1
                         /\ paused' => NoneAfter(cursor)'
                         /\ \A n \in S : /\ n.pc \in {"check", "pause", "cmd"} => NoneAfter(n.idx)'
                                         /\ n.pc = "record" => NoneAfter(n.idx + 1)'
    PROVE  Review' /\ Apart' /\ Counted'
<1>1. /\ \A x \in execs : ~Pending(x)
      /\ \A w \in up : AutoMsg \notin inbox[w]
      /\ \A x \in execs : Going(x) \/ x.pc \in {"check", "pause", "cmd", "record"} => x = e
  BY ZenonT(60), GoingAlone
<1>2. e.task = AutoTask
  BY DEF Going
<1>3. \A x \in execs' : ~Pending(x)
  BY Zenon, <1>1 DEF Pending
<1>4. \A x \in execs' : Going(x) \/ x.pc \in {"check", "pause", "cmd", "record"} => x \in S
  BY Zenon, <1>1
<1>5. Review'
  <2>1. /\ paused' => status'[AutoTask] = "paused"
        /\ \A x \in execs' : Going(x) => status'[AutoTask] \in {"running", "paused"} /\ ~paused'
        /\ \A x, y \in execs' : Going(x) /\ Going(y) => x = y
    BY Zenon, <1>4
  <2> QED
    BY Zenon, <1>1, <1>3, <2>1 DEF Review, Pending, Going
<1>6. Apart'
  <2>1. Busy' => Busy
    BY Zenon DEF Busy, NoneEngages
  <2>2. Busy' => \A x \in execs' : Going(x) =>
           x.pc \in {"check", "pause"} /\ status'[AutoTask] = "running"
    BY Zenon, <1>4, <2>1
  <2>3. \A x \in execs', r \in Repairs : x.pc = "pause" /\ Engaged(r)' => x.seen = r
    BY Zenon, <1>4 DEF NoneEngages
  <2>4. Busy' => \A x, y \in execs' : x.task = AutoTask /\ y.task = AutoTask => x = y
    BY Zenon, <1>2, <2>1 DEF Apart
  <2> QED
    BY Zenon, <1>1, <2>2, <2>3, <2>4 DEF Apart, Going
<1>7. Counted'
  BY Zenon, <1>4 DEF Counted, NoneAfter
<1> QED
  BY <1>5, <1>6, <1>7

\* A repair that runs or waits has the gate.
LEMMA EngagedHasGate ==
    ASSUME IInv, NEW r \in Repairs, Engaged(r)
    PROVE  gate = r /\ r # NoTask
BY Names, Constants DEF Engaged, IInv, Core, GateHeldByActive, Active, Terminal

\* _pause_auto_if_triage_pending: the gate is read.
LEMMA CheckKeeps ==
    ASSUME TypeOK, IInv, Shaped, Place, Review, Apart, Counted, NEW e \in execs, Check(e)
    PROVE  Review' /\ Apart' /\ Counted'
<1>1. e.pc = "check" /\ e.task = AutoTask /\ Going(e) /\ e \in Exec
  <2>1. e.pc = "check" /\ e.task = AutoTask
    BY DEF Check, Shaped, Fits
  <2> QED
    BY <2>1, AutoAtWorker DEF Going
<1>2. UNCHANGED <<up, inbox, faults, ran, status, paused, cursor>>
  BY Zenon DEF Check, procVars, taskVars, autoVars
<1>3. status[AutoTask] \in {"running", "paused"} /\ ~paused
  BY <1>1, GoingAlone
<1>4. /\ NoneEngages
      /\ faults = 0 => (\A i : NoneAfter(i) <=> NoneAfter(i)') /\ NoneAfter(e.idx)
      /\ faults = 0 => \A c \in 1..Commands : ran'[c] <= 1
  BY Zenon, <1>1, <1>2 DEF NoneEngages, Engaged, Counted, NoneAfter
<1>5. CASE gate # NoTask
  <2> DEFINE n == [e EXCEPT !.pc = "pause", !.seen = gate]
  <2>1. n.pc = "pause" /\ n.task = AutoTask /\ n.idx = e.idx /\ n.seen = gate
    BY <1>1 DEF Exec
  <2>2. execs' = (execs \ {e}) \cup {n}
    BY Zenon, <1>5 DEF Check, Set
  <2> HIDE DEF n
  <2>3. \A r \in Repairs : Engaged(r) => n.seen = r
    BY Zenon, <2>1, EngagedHasGate
  <2>4. Busy => status'[AutoTask] = "running"
    BY Zenon, <1>1, <1>2 DEF Apart
  <2> QED
    BY Zenon, <1>1, <1>2, <1>3, <1>4, <2>1, <2>2, <2>3, <2>4, GoingKeeps
<1>6. CASE gate = NoTask
  <2> DEFINE pc == IF e.idx < Commands THEN "cmd" ELSE "complete"
             n == [e EXCEPT !.pc = pc, !.rev = 0, !.seen = NoTask, !.ok = TRUE]
  <2>1. n.pc = pc /\ n.task = AutoTask /\ n.idx = e.idx
    BY <1>1 DEF Exec
  <2>2. execs' = (execs \ {e}) \cup {n} /\ pc \in {"cmd", "complete"}
    BY Zenon, <1>6 DEF Check, Goto, Set
  <2> HIDE DEF n, pc
  <2>3. ~Busy
    BY Zenon, <1>6, EngagedHasGate DEF Busy
  <2> QED
    BY Zenon, <1>1, <1>2, <1>3, <1>4, <2>1, <2>2, <2>3, GoingKeeps
<1> QED
  BY <1>5, <1>6

\* PAUSE_AUTO_FOR_TRIAGE: while a repair runs or waits the gate is the one that
\* was read, and the workflow is paused.
LEMMA PauseKeeps ==
    ASSUME TypeOK, IInv, Shaped, Place, Review, Apart, Counted, NEW e \in execs, Pause(e)
    PROVE  Review' /\ Apart' /\ Counted'
<1> DEFINE pause == status[AutoTask] = "running" /\ gate = e.seen
           pc == IF pause THEN "suspend"
                 ELSE IF e.idx < Commands THEN "cmd" ELSE "complete"
           n == [e EXCEPT !.pc = pc, !.rev = 0, !.seen = NoTask, !.ok = TRUE]
<1>1. e.pc = "pause" /\ e.task = AutoTask /\ Going(e) /\ Holds(e) /\ e \in Exec
  <2>1. e.pc = "pause" /\ e.task = AutoTask
    BY DEF Pause, Shaped, Fits
  <2> QED
    BY <2>1, AutoAtWorker DEF Going
<1>2. n.pc = pc /\ n.task = AutoTask /\ n.idx = e.idx
  BY <1>1 DEF Exec
<1>3. execs' = (execs \ {e}) \cup {n} /\ UNCHANGED <<up, inbox, faults, ran>>
  BY Zenon, <1>1 DEF Pause, Goto, Set, procVars
<1> HIDE DEF n
<1>4. status[AutoTask] \in {"running", "paused"} /\ ~paused
  BY <1>1, GoingAlone
<1>5. CASE pause
  <2>1. /\ status' = [status EXCEPT ![AutoTask] = "paused"]
        /\ paused' = TRUE /\ cursor' = e.idx /\ pc = "suspend"
    BY Zenon, <1>1, <1>5 DEF Pause
  <2>2. status'[AutoTask] = "paused" /\ \A r \in Repairs : status'[r] = status[r]
    BY <2>1, Constants DEF TypeOK
  <2>3. NoneEngages
    BY <2>2 DEF NoneEngages, Engaged
  <2>4. ~Going(n)
    BY Zenon, <1>2, <2>1 DEF Going
  <2>5. faults = 0 => NoneAfter(cursor)'
    BY Zenon, <1>1, <1>3, <2>1 DEF Counted, NoneAfter
  <2>6. faults = 0 => \A c \in 1..Commands : ran'[c] <= 1
    BY <1>3 DEF Counted
  <2> HIDE DEF pc, pause
  <2> QED
    BY Zenon, <1>1, <1>2, <1>3, <2>1, <2>2, <2>3, <2>4, <2>5, <2>6, GoingKeeps
<1>6. CASE ~pause
  <2>1. UNCHANGED <<status, paused, cursor>> /\ pc \in {"cmd", "complete"}
    BY Zenon, <1>1, <1>6 DEF Pause
  <2>2. ~Busy /\ NoneEngages
    <3>1. ASSUME NEW r \in Repairs, Engaged(r)
          PROVE  pause
      BY Zenon, <1>1, <3>1, EngagedHasGate DEF Busy, Apart
    <3> QED
      BY Zenon, <1>6, <2>1, <3>1 DEF Busy, NoneEngages, Engaged
  <2>3. faults = 0 => (\A i : NoneAfter(i) <=> NoneAfter(i)') /\ NoneAfter(n.idx)
    BY Zenon, <1>1, <1>2, <1>3 DEF Counted, NoneAfter
  <2>4. faults = 0 => \A c \in 1..Commands : ran'[c] <= 1
    BY <1>3 DEF Counted
  <2> HIDE DEF pc, pause
  <2> QED
    BY Zenon, <1>1, <1>2, <1>3, <1>4, <2>1, <2>2, <2>3, <2>4, GoingKeeps
<1> QED
  BY <1>5, <1>6

\* A command runs, and is recorded.
LEMMA CommandKeeps ==
    ASSUME TypeOK, Shaped, Place, Review, Apart, Counted, NEW e \in execs,
           RunCommand(e) \/ RecordCommand(e)
    PROVE  Review' /\ Apart' /\ Counted'
<1>1. /\ e.pc \in {"cmd", "record"} /\ e.task = AutoTask /\ Going(e) /\ Holds(e) /\ e \in Exec
      /\ e.idx \in Nat /\ e.idx < Commands
  <2>1. e.pc \in {"cmd", "record"} /\ e.task = AutoTask /\ e.idx < Commands
    BY DEF RunCommand, RecordCommand, Shaped, Fits
  <2> QED
    BY <2>1, AutoAtWorker DEF Going, Exec
<1>2. UNCHANGED <<up, inbox, faults, status, paused>>
  BY DEF RunCommand, RecordCommand, taskVars, procVars
<1>3. status[AutoTask] \in {"running", "paused"} /\ ~paused
  BY <1>1, GoingAlone
<1>4. ~Busy /\ NoneEngages
  BY Zenon, <1>1, <1>2 DEF Apart, NoneEngages, Engaged
<1>5. CASE RunCommand(e)
  <2> DEFINE n == [e EXCEPT !.pc = "record", !.rev = 0, !.seen = NoTask, !.ok = TRUE]
  <2>1. n.pc = "record" /\ n.task = AutoTask /\ n.idx = e.idx
    BY <1>1 DEF Exec
  <2>2. execs' = (execs \ {e}) \cup {n} /\ ran' = [ran EXCEPT ![e.idx + 1] = ran[e.idx + 1] + 1]
    BY <1>5 DEF RunCommand, Goto, Set
  <2> HIDE DEF n
  <2>3. ASSUME faults = 0
        PROVE  (\A c \in 1..Commands : ran'[c] <= 1) /\ NoneAfter(n.idx + 1)'
    <3>1. NoneAfter(e.idx) /\ \A c \in 1..Commands : ran[c] <= 1
      BY Zenon, <1>1, <1>5, <2>3 DEF Counted, RunCommand
    <3>2. e.idx + 1 \in 1..Commands /\ e.idx + 1 > e.idx
      BY SMT, Z3, <1>1, Constants
    <3>3. ran[e.idx + 1] = 0
      BY <3>1, <3>2 DEF NoneAfter
    <3>4. \A c \in 1..Commands : ran'[c] = IF c = e.idx + 1 THEN 1 ELSE ran[c]
      BY SMT, Z3, <2>2, <3>2, <3>3 DEF TypeOK
    <3>5. \A c \in 1..Commands : c > e.idx + 1 => c > e.idx /\ c # e.idx + 1
      BY SMT, Z3, <1>1
    <3> QED
      BY SMT, Z3, <2>1, <3>1, <3>4, <3>5 DEF NoneAfter
  <2> QED
    BY Zenon, <1>1, <1>2, <1>3, <1>4, <2>1, <2>2, <2>3, GoingKeeps
<1>6. CASE RecordCommand(e)
  <2> DEFINE n == [e EXCEPT !.pc = "check", !.idx = e.idx + 1]
  <2>0. e.idx + 1 \in Nat
    BY SMT, Z3, <1>1
  <2>1. n.pc = "check" /\ n.task = AutoTask /\ n.idx = e.idx + 1
    BY <1>1, <2>0 DEF Exec
  <2>2. execs' = (execs \ {e}) \cup {n} /\ ran' = ran
    BY <1>1, <1>6 DEF RecordCommand, Set
  <2> HIDE DEF n
  <2>3. ASSUME faults = 0
        PROVE  (\A c \in 1..Commands : ran'[c] <= 1) /\ NoneAfter(n.idx)'
    BY <1>1, <1>6, <2>1, <2>2, <2>3 DEF Counted, RecordCommand, NoneAfter
  <2> QED
    BY Zenon, <1>1, <1>2, <1>3, <1>4, <2>1, <2>2, <2>3, GoingKeeps
<1> QED
  BY <1>5, <1>6

\* The workflow ends, well or not.
LEMMA EndingKeeps ==
    ASSUME TypeOK, Shaped, Place, Review, Apart, Counted, NEW e \in execs, e.task = AutoTask,
           Complete(e) \/ Fail(e) \/ Failed(e) \/ Error(e)
    PROVE  Review' /\ Apart' /\ Counted'
<1>1. Going(e) /\ e \in Exec /\ AutoTask \notin Repairs /\ AutoTask \notin Gated /\ AutoTask \in Tasks
      /\ e.pc \in {"complete", "fail", "failed", "cmd"}
  <2>1. e.pc \in {"complete", "fail", "failed", "cmd"}
    BY Zenon, Constants DEF Complete, Fail, Failed, Error
  <2> QED
    BY Zenon, <2>1, Constants DEF Going, TypeOK
<1>2. UNCHANGED <<up, inbox, faults, paused, cursor, ran>>
  BY Zenon DEF Complete, Fail, Failed, Error, procVars, autoVars
<1>3. status[AutoTask] \in {"running", "paused"} /\ ~paused
  BY Zenon, <1>1, GoingAlone
<1>4. \/ status' = status
      \/ status' = [status EXCEPT ![AutoTask] = "completed"]
      \/ status' = [status EXCEPT ![AutoTask] = "failed"]
  BY Zenon DEF Complete, Fail, Failed, Error, taskVars
<1>5. /\ \A r \in Repairs : status'[r] = status[r]
      /\ status'[AutoTask] = status[AutoTask] \/ status'[AutoTask] \in {"completed", "failed"}
  BY Zenon, <1>1, <1>4, Constants DEF TypeOK
<1>6. ~Busy /\ NoneEngages
  BY Zenon, <1>1, <1>5 DEF Apart, NoneEngages, Engaged
<1>7. faults = 0 => \A c \in 1..Commands : ran'[c] <= 1
  BY Zenon, <1>2 DEF Counted
<1>8. CASE execs' = execs \ {e}
  <2> DEFINE none == execs' \cap {e}
  <2>1. execs' = (execs \ {e}) \cup none /\ \A x : x \notin none
    BY <1>8
  <2> HIDE DEF none
  <2> QED
    BY Zenon, <1>1, <1>2, <1>3, <1>5, <1>6, <1>7, <2>1, GoingKeeps
<1>9. ASSUME NEW pc \in {"fail", "failed"}, Goto(e, pc), UNCHANGED status
      PROVE  Review' /\ Apart' /\ Counted'
  <2> DEFINE n == [e EXCEPT !.pc = pc, !.rev = 0, !.seen = NoTask, !.ok = TRUE]
  <2>1. n.pc = pc /\ n.task = AutoTask
    BY <1>1 DEF Exec
  <2>2. execs' = (execs \ {e}) \cup {n}
    BY <1>9 DEF Goto, Set
  <2> HIDE DEF n
  <2> QED
    BY Zenon, <1>1, <1>2, <1>3, <1>6, <1>7, <1>9, <2>1, <2>2, GoingKeeps
<1>10. \/ execs' = execs \ {e}
       \/ \E pc \in {"fail", "failed"} : Goto(e, pc) /\ UNCHANGED status
  <2>1. CASE Complete(e) \/ Failed(e)
    BY Zenon, <1>1, <2>1 DEF Complete, Failed, End
  <2>2. CASE Fail(e)
    BY Zenon, <1>1, <2>2 DEF Fail
  <2>3. CASE Error(e)
    BY <2>3 DEF Error, taskVars
  <2> QED
    BY <2>1, <2>2, <2>3
<1> QED
  BY <1>8, <1>9, <1>10

\* A delivery that was told to suspend is gone.
LEMMA SuspendAutoKeeps ==
    ASSUME TypeOK, Shaped, Shaped', Review, Apart, Counted, NEW e \in execs, SuspendAuto(e)
    PROVE  Review' /\ Apart' /\ Counted'
<1>1. e.pc = "suspend" /\ e.task = AutoTask /\ execs' = execs \ {e} /\ AutoTask \in Tasks
  BY Zenon, Constants DEF SuspendAuto, Shaped, Fits, End
<1>2. UNCHANGED <<up, inbox, faults, paused, cursor, ran>>
  BY DEF SuspendAuto, procVars, autoVars
<1>3. AutoRests
  BY Zenon, <1>1, <1>2 DEF AutoRests
<1>4. CASE status' = status
  <2>1. AutoSame /\ NoneEngages
    BY <1>2, <1>4 DEF AutoSame, NoneEngages, Engaged
  <2> QED
    BY <1>3, <2>1, ReviewStays, ApartStays
<1>5. CASE status' # status
  <2>1. status[AutoTask] = "running" /\ status' = [status EXCEPT ![AutoTask] = "paused"]
    BY <1>5 DEF SuspendAuto
  <2>2. status'[AutoTask] = "paused" /\ \A r \in Repairs : status'[r] = status[r]
    BY Zenon, <1>1, <2>1, Constants DEF TypeOK
  <2>3. /\ ~paused /\ \A x \in execs : ~Pending(x)
        /\ \A w \in up : AutoMsg \notin inbox[w]
    BY Zenon, <2>1 DEF Review
  <2>4. Review'
    BY Zenon, <1>1, <1>2, <2>2, <2>3 DEF Review, Pending, Going
  <2>5. Apart'
    <3>1. Busy' => Busy
      BY <2>2 DEF Busy, Engaged
    <3>2. Busy => \A x \in execs' : ~Going(x) /\ x.pc # "pause"
      BY Zenon, <1>1 DEF Apart, Going, Shaped, Fits
    <3> QED
      BY Zenon, <1>1, <1>2, <2>3, <3>1, <3>2 DEF Apart, Going
  <2>6. Counted'
    BY Zenon, <1>1, <1>2, <2>2, <2>3 DEF Counted, NoneAfter
  <2> QED
    BY <2>4, <2>5, <2>6
<1> QED
  BY <1>4, <1>5

\* A delivery that has not begun gets its turn, or begins where the workflow is.
LEMMA EnterAutoKeeps ==
    ASSUME TypeOK, Review, Apart, Counted, NEW e \in execs, e.task = AutoTask, Enter(e)
    PROVE  Review' /\ Apart' /\ Counted'
<1> DEFINE n == [e EXCEPT !.pc = "begin", !.rev = 0, !.seen = NoTask, !.ok = TRUE]
<1>1. e \in Exec /\ Pending(e)
  BY Zenon DEF Enter, TypeOK, Pending
<1>2. n.pc = "begin" /\ n.task = AutoTask
  BY <1>1 DEF Exec
<1>3. execs' = (execs \ {e}) \cup {n}
  BY DEF Enter, Goto, Set
<1> HIDE DEF n
<1>4. Pending(n) /\ ~Going(n)
  BY <1>2 DEF Pending, Going
<1>5. UNCHANGED <<up, inbox, faults, status, paused, cursor, ran>>
  BY Zenon DEF Enter, procVars, autoVars, taskVars
<1>6. Review'
  <2>1. \A x \in execs' : x = n \/ (x \in execs /\ x # e)
    BY <1>3
  <2>2. \A x \in execs' : Going(x) => x \in execs
    BY <1>4, <2>1
  <2>3. \A x \in execs' : Pending(x) => x = n
    BY Zenon, <1>1, <2>1 DEF Review
  <2>4. \A w \in up : AutoMsg \notin inbox[w]
    BY Zenon, <1>1 DEF Review
  <2>5. status[AutoTask] = "assigned"
    BY Zenon, <1>1 DEF Review
  <2> QED
    BY Zenon, <1>5, <2>2, <2>3, <2>4, <2>5 DEF Review, Pending, Going
<1>7. Apart'
  <2>1. (Busy' => Busy) /\ \A r \in Repairs : Engaged(r)' <=> Engaged(r)
    BY <1>5 DEF Busy, Engaged
  <2> QED
    BY ZenonT(60), <1>2, <1>3, <1>4, <1>5, <2>1 DEF Apart, Going
<1>8. Counted'
  BY Zenon, <1>2, <1>3, <1>5 DEF Counted, NoneAfter
<1> QED
  BY <1>6, <1>7, <1>8

LEMMA BeginAutoKeeps ==
    ASSUME TypeOK, Shaped, Place, Review, Apart, Counted, NEW e \in execs, e.task = AutoTask,
           Begin(e)
    PROVE  Review' /\ Apart' /\ Counted'
<1> DEFINE n == [e EXCEPT !.pc = "check", !.idx = cursor]
<1>1. e \in Exec /\ Pending(e) /\ Holds(e) /\ e.kind = "run" /\ AutoTask \notin canceled
  BY AutoAtWorker, Constants DEF Begin, Pending, TypeOK
<1>2. status[AutoTask] = "assigned" /\ ~paused /\ \A w \in up : AutoMsg \notin inbox[w]
  BY Zenon, <1>1 DEF Review
<1>3. n.pc = "check" /\ n.task = AutoTask /\ n.idx = cursor
  BY <1>1 DEF Exec
<1>4. /\ execs' = (execs \ {e}) \cup {n}
      /\ status' = [status EXCEPT ![AutoTask] = "running"]
  BY <1>1, <1>2 DEF Begin, Set
<1> HIDE DEF n
<1>5. UNCHANGED <<up, inbox, faults, paused, cursor, ran>>
  BY SMT, Z3 DEF Begin, procVars, autoVars
<1>6. status'[AutoTask] = "running" /\ \A r \in Repairs : status'[r] = status[r]
  BY Zenon, <1>4, Constants DEF TypeOK
<1>7. \A x \in execs : ~Going(x) /\ (Pending(x) => x = e)
  BY Zenon, <1>1, <1>2 DEF Review
<1>8. Going(n) /\ ~Pending(n)
  BY <1>3 DEF Going, Pending
<1>9. \A x \in execs' : ~Pending(x) /\ (Going(x) => x = n)
  BY <1>4, <1>7, <1>8
<1>10. Review'
  BY Zenon, <1>2, <1>5, <1>6, <1>9 DEF Review, Pending, Going
<1>11. Apart'
  <2>1. Busy' => Busy
    BY <1>6 DEF Busy, Engaged
  <2>2. Busy => \A x, y \in execs' : x.task = AutoTask /\ y.task = AutoTask => x = y
    BY <1>4 DEF Apart
  <2>3. \A x \in execs' : x.pc # "pause"
    BY <1>3, <1>4, <1>7 DEF Shaped, Fits, Going
  <2> QED
    BY ZenonT(60), <1>2, <1>3, <1>5, <1>6, <1>9, <2>1, <2>2, <2>3 DEF Apart, Going
<1>12. Counted'
  <2>1. \A x \in execs : x.pc \in {"check", "pause", "cmd", "record"} => FALSE
    BY <1>7 DEF Shaped, Fits, Going
  <2> QED
    BY ZenonT(60), <1>2, <1>3, <1>4, <1>5, <1>6, <2>1 DEF Counted, NoneAfter
<1> QED
  BY <1>10, <1>11, <1>12

\* The hand-overs of executions wake the workflow or leave it alone.
LEMMA ExecWakes ==
    ASSUME TypeOK, IInv, Shaped, NEW e \in execs, Resume(e) \/ CancelFinal(e)
    PROVE  Woken \/ NotWoken
<1>1. CASE Resume(e)
  BY Zenon, <1>1, ResumeAutoWakes DEF Resume, Holds, leaseVars
<1>2. CASE CancelFinal(e)
  <2>1. e.task \in Repairs /\ lease' = lease
    BY <1>2 DEF CancelFinal, Shaped, Fits, leaseVars
  <2> QED
    BY ZenonT(60), <1>2, <2>1, FinalizeWakes DEF CancelFinal
<1> QED
  BY <1>1, <1>2

\* A step of an execution of another task.
LEMMA OtherKeeps ==
    ASSUME TypeOK, IInv, Shaped, Shaped', Place, Session, Review, Apart, Counted,
           NEW e \in execs, ExecStep(e), e.task # AutoTask
    PROVE  Review' /\ Apart' /\ Counted'
<1>1. ~Check(e) /\ ~Pause(e) /\ ~RunCommand(e) /\ ~RecordCommand(e)
  BY DEF Check, Pause, RunCommand, RecordCommand, Shaped, Fits
<1>2. UNCHANGED <<cursor, ran, up>> /\ (UNCHANGED paused \/ Resume(e) \/ CancelFinal(e))
  BY <1>1, ExecFrame
<1>3. faults' = 0 => faults = 0
  <2>1. faults' = faults \/ faults' = faults + 1
    BY ExecFrame
  <2> QED
    BY SMT, Z3, <2>1 DEF TypeOK
<1>4. \A x \in execs' : x.task = AutoTask => x \in execs
  <2>1. CASE Goes(e)
    BY Zenon, <2>1 DEF Goes, Becomes, End, Ident
  <2>2. CASE SuspendRepair(e)
    BY <2>2 DEF SuspendRepair, End
  <2>3. CASE Enter(e)
    <3>1. [e EXCEPT !.pc = "begin", !.rev = 0, !.seen = NoTask, !.ok = TRUE].task = e.task
      BY SMT, Z3 DEF TypeOK, Exec
    <3> QED
      BY Zenon, <2>3, <3>1 DEF Enter, Goto, Set
  <2> QED
    BY Zenon, <2>1, <2>2, <2>3, StepGoes
<1>5. CASE Woken
  BY <1>2, <1>3, <1>4, <1>5, WokenKeeps
<1>6. CASE ~Woken
  <2>1. UNCHANGED paused
    BY <1>2, <1>6, ExecWakes DEF NotWoken
  <2>2. CASE SuspendRepair(e)
    <3>1. e.pc = "work" /\ UNCHANGED inbox /\ e.task \in Tasks
      BY Zenon, <2>2 DEF SuspendRepair, TypeOK, Exec
    <3>2. \/ status' = status
          \/ status[e.task] = "running" /\ status' = [status EXCEPT ![e.task] = "waiting"]
      BY <2>2 DEF SuspendRepair
    <3>3. status'[AutoTask] = status[AutoTask] /\ NoneEngages
      BY Zenon, <3>1, <3>2, Constants DEF NoneEngages, Engaged, TypeOK
    <3>4. AutoRests /\ AutoSame
      BY Zenon, <1>2, <1>3, <1>4, <2>1, <3>1, <3>3 DEF AutoRests, AutoSame
    <3> QED
      BY Zenon, <3>3, <3>4, ReviewStays, ApartStays
  <2>3. CASE ~SuspendRepair(e)
    <3>1. UNCHANGED inbox /\ status'[AutoTask] = status[AutoTask] /\ (NoneEngages \/ Begin(e))
      BY Zenon, <1>6, <2>3, ExecStatus DEF StatusMoves
    <3>2. AutoRests /\ AutoSame
      BY Zenon, <1>2, <1>3, <1>4, <2>1, <3>1 DEF AutoRests, AutoSame
    <3>3. Review' /\ Counted'
      BY SMT, Z3, <3>2, ReviewStays
    <3>4. CASE NoneEngages
      BY <3>2, <3>3, <3>4, ApartStays
    <3>5. CASE Begin(e) /\ e.task \in Repairs
      <4>1. Inside(e)
        BY Zenon, <3>5, AtWorker DEF Begin, Inside, TypeOK, Shaped
      <4> QED
        BY <3>2, <3>3, <3>5, <4>1, BeginRepairApart
    <3>6. CASE Begin(e) /\ e.task \notin Repairs
      <4>1. status' = status \/ status' = [status EXCEPT ![e.task] = "running"]
        BY Zenon, <3>6 DEF Begin
      <4>2. NoneEngages
        BY Zenon, <3>6, <4>1, Constants DEF NoneEngages, Engaged, TypeOK
      <4> QED
        BY <3>4, <4>2
    <3> QED
      BY Zenon, <3>1, <3>4, <3>5, <3>6
  <2> QED
    BY <2>2, <2>3
<1> QED
  BY <1>5, <1>6

LEMMA ExecReview ==
    ASSUME TypeOK, IInv, Shaped, Shaped', Place, Session, Review, Apart, Counted,
           NEW e \in execs, ExecStep(e)
    PROVE  Review' /\ Apart' /\ Counted'
<1>1. CASE e.task # AutoTask
  BY <1>1, OtherKeeps
<1>2. CASE e.task = AutoTask
  <2>1. Fits(e) /\ AutoTask \notin Repairs /\ AutoTask \notin Gated /\ AutoTask \notin Rollbacks
        /\ AutoTask \notin canceled
    BY Constants DEF Shaped, TypeOK
  <2>2. ~Resume(e) /\ ~CancelStep(e)
    BY Zenon, <1>2, <2>1 DEF Resume, CancelStep, Cancel, CancelAdmit, CancelFinal, Kill, Fits
  <2>3. ~RollbackStep(e)
    BY Zenon, <1>2, <2>1 DEF RollbackStep, FinishRollback, RollbackError
  <2>4. RepairStep(e) => Error(e)
    BY Zenon, <1>2, <2>1 DEF RepairStep, Push, SuspendRepair, Settle, AdmitFailed, Finish,
                      PublishEligibility, Notify, Fits
  <2> QED
    BY Zenon, <1>2, <2>2, <2>3, <2>4, CheckKeeps, PauseKeeps, CommandKeeps, EndingKeeps,
       SuspendAutoKeeps, EnterAutoKeeps, BeginAutoKeeps DEF ExecStep, AutoStep
<1> QED
  BY <1>1, <1>2

\* A delivery is read: the workflow's only one, if it is the workflow's.
LEMMA StartReview ==
    ASSUME TypeOK, Shaped', Place, Started, Review, Apart, Counted,
           NEW w \in Workers, NEW m \in inbox[w], Start(w, m)
    PROVE  Review' /\ Apart' /\ Counted'
<1> DEFINE n == Starting(w, m)
<1>1. /\ w \in up /\ m \in Msg /\ (execs' = execs \/ execs' = execs \cup {n})
      /\ inbox' = [inbox EXCEPT ![w] = @ \ {m}]
  BY Zenon, StartFacts, Rest
<1>2. UNCHANGED <<status, up, faults, paused, cursor, ran>> /\ up \subseteq Workers
  BY Zenon DEF Start, taskVars, autoVars, procVars, TypeOK
<1>3. n.task = m.task /\ n.pc = "wait"
  BY Zenon DEF Starting
<1>4. \A v \in Workers : inbox'[v] = IF v = w THEN inbox[v] \ {m} ELSE inbox[v]
  BY ZenonT(60), <1>1 DEF TypeOK
<1> HIDE DEF n
<1>5. AutoSame /\ NoneEngages
  BY <1>2 DEF AutoSame, NoneEngages, Engaged
<1>6. CASE execs' = execs \/ m.task # AutoTask
  <2>1. AutoRests
    BY SMT, Z3, <1>1, <1>2, <1>3, <1>4, <1>6 DEF AutoRests
  <2> QED
    BY <1>5, <2>1, ReviewStays, ApartStays
<1>7. CASE execs' = execs \cup {n} /\ m.task = AutoTask
  <2>1. m = AutoMsg
    <3>1. m.kind = "run"
      BY <1>1, <1>7, Constants DEF Started, Msg
    <3> QED
      BY ZenonT(60), <1>1, <1>7, <3>1 DEF Msg, AutoMsg
  <2>2. \A v \in up : AutoMsg \notin inbox'[v]
    <3>1. own[AutoTask].worker = w
      BY ZenonT(60), <1>1, <1>7 DEF Place
    <3>2. \A v \in up : AutoMsg \in inbox[v] => own[AutoTask].worker = v
      BY <1>7, <2>1 DEF Place
    <3> QED
      BY Zenon, <1>2, <1>4, <2>1, <3>1, <3>2
  <2>3. status[AutoTask] = "assigned" /\ \A x \in execs : ~Pending(x)
    BY <1>1, <2>1 DEF Review
  <2>4. ~Going(n)
    BY <1>3 DEF Going
  <2>5. Review'
    <3>1. \A x \in execs' : Pending(x) => x = n
      BY <1>7, <2>3
    <3>2. \A x \in execs' : Going(x) => x \in execs
      BY <1>7, <2>4
    <3> QED
      BY ZenonT(60), <1>2, <2>2, <2>3, <3>1, <3>2 DEF Review, Pending, Going
  <2>6. Apart'
    <3>1. Busy => \A x \in execs : x.task # AutoTask
      BY Zenon, <1>1, <2>1 DEF Apart
    <3>2. Busy => \A x \in execs' : x.task = AutoTask => x = n
      BY <1>7, <3>1
    <3>3. Busy' => Busy
      BY <1>5 DEF Busy, NoneEngages
    <3>4. Busy => \A x \in execs' : x.pc # "pause"
      BY <1>3, <3>2 DEF Shaped, Fits
    <3> QED
      BY Zenon, <1>2, <2>2, <2>4, <3>2, <3>3, <3>4 DEF Apart, Going
  <2>7. Counted'
    BY ZenonT(60), <1>2, <1>3, <1>7 DEF Counted, NoneAfter
  <2> QED
    BY <2>5, <2>6, <2>7
<1> QED
  BY <1>1, <1>6, <1>7

\* The workflow is sent to a worker, or recovered: there is no delivery of it.
LEMMA NoDelivery ==
    ASSUME TypeOK, Shaped, Place, Started,
           status[AutoTask] = "queued" \/ own[AutoTask].worker \notin up
    PROVE  /\ \A x \in execs : x.task # AutoTask /\ x.pc \notin {"check", "pause", "cmd", "record"}
           /\ \A w \in up : AutoMsg \notin inbox[w]
<1>1. \A x \in execs : x.task # AutoTask
  BY Zenon, AutoAtWorker, Leases DEF Started, Sent
<1>2. \A x \in execs : x.pc \notin {"check", "pause", "cmd", "record"}
  BY ZenonT(60), <1>1 DEF Shaped, Fits
<1>3. AutoMsg.task = AutoTask
  BY SMT, Z3 DEF AutoMsg
<1> QED
  BY <1>1, <1>2, <1>3 DEF Place, Started, Sent

LEMMA DispatchReview ==
    ASSUME TypeOK, Shaped, Shaped', Place, Started, Review, Apart, Counted,
           NEW t \in Tasks, Dispatch(t)
    PROVE  Review' /\ Apart' /\ Counted'
<1> DEFINE k == [task |-> t, kind |-> "run"]
<1>1. /\ UNCHANGED <<up, faults, execs, paused, cursor, ran>> /\ status[t] = "queued"
      /\ status' = [status EXCEPT ![t] = "assigned"] /\ up \subseteq Workers
  BY Zenon DEF Dispatch, procVars, autoVars, TypeOK
<1>2. PICK l : inbox' = [inbox EXCEPT ![l.worker] = @ \cup {k}]
  BY ZenonT(60) DEF Dispatch
<1>3. \A v \in up : inbox'[v] = inbox[v] \/ inbox'[v] = inbox[v] \cup {k}
  BY <1>1, <1>2 DEF TypeOK
<1>4. \A x \in Tasks : status'[x] = IF x = t THEN "assigned" ELSE status[x]
  BY <1>1 DEF TypeOK
<1>5. NoneEngages
  BY <1>4, Constants DEF NoneEngages, Engaged
<1>6. CASE t # AutoTask
  <2>1. k # AutoMsg
    BY <1>6 DEF AutoMsg
  <2> HIDE DEF k
  <2>2. AutoRests /\ AutoSame
    BY <1>1, <1>3, <1>4, <1>6, <2>1, Constants DEF AutoRests, AutoSame
  <2> QED
    BY <1>5, <2>2, ReviewStays, ApartStays
<1>7. CASE t = AutoTask
  <2>1. \A x \in execs : x.task # AutoTask /\ x.pc \notin {"check", "pause", "cmd", "record"}
    BY Zenon, <1>1, <1>7, NoDelivery
  <2>2. status'[AutoTask] = "assigned" /\ ~paused
    BY Zenon, <1>1, <1>4, <1>7 DEF Review
  <2>3. Review'
    BY Zenon, <1>1, <2>1, <2>2 DEF Review, Pending, Going
  <2>4. Apart'
    BY Zenon, <1>1, <2>1 DEF Apart, Going
  <2>5. Counted'
    BY Zenon, <1>1, <1>7, <2>1 DEF Counted, NoneAfter
  <2> QED
    BY <2>3, <2>4, <2>5
<1> QED
  BY <1>6, <1>7

LEMMA RecoverReview ==
    ASSUME TypeOK, TypeOK', Shaped, Shaped', Place, Started, Review, Apart, Counted,
           NEW t \in Tasks, Recover(t)
    PROVE  Review' /\ Apart' /\ Counted'
<1>1. /\ UNCHANGED <<up, faults, execs, paused, cursor, ran, inbox>> /\ Dead(own[t].worker)
      /\ status[t] \in {"assigned", "running"}
      /\ status' = [status EXCEPT ![t] = "queued"] \/ status' = [status EXCEPT ![t] = "failed"]
  BY DEF Recover, procVars, autoVars
<1>2. \A x \in Tasks : x # t => status'[x] = status[x]
  BY ZenonT(60), <1>1 DEF TypeOK
<1>3. status'[t] \in {"queued", "failed"} /\ faults > 0 /\ own[t].worker \notin up
  <2>1. status \in [Tasks -> Statuses] /\ (faults = 0 => up = Workers)
    BY Zenon DEF TypeOK, Place
  <2> QED
    BY SMT, Z3, <1>1, <2>1, Numbers DEF Dead
<1>4. CASE t # AutoTask
  <2>1. NoneEngages
    BY Zenon, <1>2, <1>3, Constants DEF NoneEngages, Engaged
  <2>2. AutoRests /\ AutoSame
    BY Zenon, <1>1, <1>2, <1>4, Constants DEF AutoRests, AutoSame
  <2> QED
    BY <2>1, <2>2, ReviewStays, ApartStays
<1>5. CASE t = AutoTask
  <2>1. /\ \A x \in execs : x.task # AutoTask /\ x.pc # "pause"
        /\ \A w \in up : AutoMsg \notin inbox[w]
    BY <1>3, <1>5, NoDelivery
  <2>2. ~paused
    BY Zenon, <1>1, <1>5 DEF Review
  <2>3. Review' /\ Apart'
    BY ZenonT(60), <1>1, <2>1, <2>2 DEF Review, Apart, Pending, Going
  <2>4. Counted'
    BY SMT, Z3, <1>1, <1>3 DEF Counted
  <2> QED
    BY SMT, Z3, <2>3, <2>4
<1> QED
  BY <1>4, <1>5

\* The other steps of the scheduler.
LEMMA SchedReview ==
    ASSUME TypeOK, TypeOK', IInv, Shaped, Shaped', Place, Started, Review, Apart, Counted,
           SchedStep \/ \E t \in Gated : Timeout(t)
    PROVE  Review' /\ Apart' /\ Counted'
<1> USE DEF taskVars, autoVars, leaseVars, procVars
<1>1. execs' = execs
  BY SchedTyped
<1>2. ASSUME UNCHANGED <<inbox, up, cursor, ran, paused>>, faults' = faults \/ faults' = faults + 1,
             \/ status'[AutoTask] = status[AutoTask]
             \/ status[AutoTask] \in Terminal /\ status'[AutoTask] \in Terminal,
             \A r \in Repairs : status'[r] = status[r] \/ status'[r] = "failed"
      PROVE  Review' /\ Apart' /\ Counted'
  <2>1. NoneEngages
    BY ZenonT(60), <1>2 DEF NoneEngages, Engaged
  <2>2. faults' = 0 => faults = 0
    BY SMT, Z3, <1>2, Numbers
  <2>3. AutoRests /\ AutoSame
    BY Zenon, <1>1, <1>2, <2>2 DEF AutoRests, AutoSame
  <2> QED
    BY <2>1, <2>3, ReviewStays, ApartStays
<1>3. ASSUME UNCHANGED <<up, cursor, ran, faults>>, Woken \/ NotWoken,
             \A x \in Gated : status'[x] = status[x] \/ status'[x] = "canceled"
      PROVE  Review' /\ Apart' /\ Counted'
  <2>1. CASE Woken
    BY <1>1, <1>3, <2>1, WokenKeeps
  <2>2. CASE NotWoken
    <3>1. NoneEngages
      BY <1>3, Constants DEF NoneEngages, Engaged
    <3>2. AutoRests /\ AutoSame
      BY ZenonT(60), <1>1, <1>3, <2>2 DEF AutoRests, AutoSame, NotWoken
    <3> QED
      BY <3>1, <3>2, ReviewStays, ApartStays
  <2> QED
    BY ZenonT(60), <1>3, <2>1, <2>2
<1>4. CASE RecoverPaused \/ SchedRevoke \/ SchedNotify \/ GateScan
           \/ \E r \in Repairs : TransferWaiting(r)
  <2>1. UNCHANGED <<inbox, up, cursor, ran, paused, faults, status>>
    BY ZenonT(60), <1>4 DEF RecoverPaused, SchedRevoke, SchedNotify, GateScan, TransferWaiting
  <2> QED
    BY <1>2, <2>1
<1>5. CASE SchedRollback
  <2>1. /\ UNCHANGED <<inbox, up, cursor, ran, paused, faults>> /\ NextStep /\ ~Idle
        /\ Head(sched.steps) = "rollback" /\ status' = [status EXCEPT ![sched.task] = "failed"]
    BY <1>5 DEF SchedRollback, CompleteRollback
  <2>2. 1 \in 1..Len(sched.steps) /\ Head(sched.steps) = sched.steps[1]
    BY <2>1, RevokingNext DEF IInv
  <2>3. \A x \in Tasks : status'[x] = status[x] \/ (status[x] \in Terminal /\ status'[x] = "failed")
    BY ZenonT(60), <2>1, <2>2 DEF IInv, SchedKnows, TypeOK
  <2>4. AutoTask \in Tasks /\ "failed" \in Terminal /\ Repairs \subseteq Tasks
    BY Constants DEF Terminal
  <2> QED
    BY <1>2, <2>1, <2>3, <2>4
<1>6. ASSUME NEW t \in Gated, Timeout(t)
      PROVE  Review' /\ Apart' /\ Counted'
  <2>1. /\ UNCHANGED <<inbox, up, cursor, ran, paused>> /\ faults' = faults + 1
        /\ status' = [status EXCEPT ![t] = "failed"]
    BY <1>6 DEF Timeout, CompleteRollback
  <2>2. /\ status'[AutoTask] = status[AutoTask]
        /\ \A r \in Repairs : status'[r] = status[r] \/ status'[r] = "failed"
    BY ZenonT(60), <2>1, Constants DEF TypeOK
  <2> QED
    BY <1>2, <2>1, <2>2
<1>7. CASE SchedResume
  <2>1. UNCHANGED <<up, cursor, ran, faults>>
    BY <1>7 DEF SchedResume
  <2>2. CASE UNCHANGED <<status, own, inbox, paused>>
    BY <1>3, <2>1, <2>2 DEF NotWoken
  <2>3. ASSUME NEW w \in up, Claim(w), ResumeAuto(sched.task, Claimed(w), TRUE)
        PROVE  Review' /\ Apart' /\ Counted'
    <3>1. /\ Woken \/ NotWoken
          /\ \A x \in Gated : status'[x] = status[x]
      BY ZenonT(60), <2>3, ResumeAutoWakes, ClaimMoves
    <3> QED
      BY <1>3, <2>1, <3>1
  <2> QED
    BY Zenon, <1>7, <2>2, <2>3 DEF SchedResume
<1>8. ASSUME NEW r \in Repairs, SchedCancel(r)
      PROVE  Review' /\ Apart' /\ Counted'
  <2>1. UNCHANGED <<up, lease, cursor, ran, faults>> /\ FinalizeCancel(r, own[r], card.rev)
    BY <1>8 DEF SchedCancel
  <2>2. /\ Woken \/ NotWoken
        /\ \A x \in Gated : status'[x] = status[x] \/ status'[x] = "canceled"
    BY ZenonT(60), <2>1, FinalizeWakes
  <2> QED
    BY <1>3, <2>1, <2>2
<1> QED
  BY <1>4, <1>5, <1>6, <1>7, <1>8, DispatchReview, RecoverReview DEF SchedStep

\* Users, pipelines, crashes and the end of a lease.
LEMMA UserReview ==
    ASSUME TypeOK, Shaped', Review, Apart, Counted,
           \/ UserStep \/ LeaseExpires \/ \E r \in Repairs : PipelineEvent(r)
           \/ \E w \in Workers : Crash(w)
    PROVE  Review' /\ Apart' /\ Counted'
<1> USE DEF taskVars, autoVars, leaseVars, procVars
<1>1. ASSUME AutoRests, UNCHANGED <<paused, status>>
      PROVE  Review' /\ Apart' /\ Counted'
  <2>1. AutoSame /\ NoneEngages
    BY <1>1 DEF AutoSame, NoneEngages, Engaged
  <2> QED
    BY <1>1, <2>1, ReviewStays, ApartStays
<1>2. ASSUME NEW r \in Repairs, Click(r) \/ Comment(r)
      PROVE  Review' /\ Apart' /\ Counted'
  <2>1. /\ UNCHANGED <<execs, up, inbox, faults, cursor, ran, paused>>
        /\ status' = [status EXCEPT ![r] = "queued"]
    BY <1>2 DEF Click, Comment
  <2>2. status'[AutoTask] = status[AutoTask] /\ NoneEngages
    BY ZenonT(60), <2>1, Constants DEF NoneEngages, Engaged, TypeOK
  <2>3. AutoRests /\ AutoSame
    BY ZenonT(60), <2>1, <2>2 DEF AutoRests, AutoSame
  <2> QED
    BY Zenon, <2>2, <2>3, ReviewStays, ApartStays
<1>3. ASSUME NEW r \in Repairs, RequestRollback(r)
      PROVE  Review' /\ Apart' /\ Counted'
  <2>1. /\ CanAdmitRollback(r, "post_repair", card.rev) /\ AdmitRollback(r, "post_repair")
        /\ UNCHANGED <<canceled, execs, up, inbox, faults, cursor, ran, paused>>
    BY <1>3 DEF RequestRollback
  <2>2. status'[AutoTask] = status[AutoTask] /\ NoneEngages
    BY ZenonT(60), <2>1, AdmitStatus
  <2>3. AutoRests /\ AutoSame
    BY Zenon, <2>1, <2>2 DEF AutoRests, AutoSame
  <2> QED
    BY <2>2, <2>3, ReviewStays, ApartStays
<1>4. ASSUME NEW r \in Repairs, RequestCancel(r)
      PROVE  Review' /\ Apart' /\ Counted'
  <2>1. UNCHANGED <<status, up, inbox, faults, cursor, ran, paused>>
    BY Zenon, <1>4 DEF RequestCancel
  <2>2. execs' = execs \/ execs' = execs \cup {Cancelling(r)}
    BY <1>4, CancelFacts, Rest
  <2>3. Cancelling(r).task # AutoTask
    BY ZenonT(60), Constants DEF Cancelling
  <2>4. AutoRests
    BY ZenonT(60), <2>1, <2>2, <2>3 DEF AutoRests
  <2> QED
    BY <1>1, <2>1, <2>4
<1>5. CASE ClickAgain \/ LeaseExpires
  <2>1. UNCHANGED <<status, execs, up, inbox, faults, cursor, ran, paused>>
    BY <1>5 DEF ClickAgain, LeaseExpires
  <2> QED
    BY Zenon, <1>1, <2>1 DEF AutoRests
<1>6. ASSUME NEW r \in Repairs, PipelineEvent(r)
      PROVE  Review' /\ Apart' /\ Counted'
  <2> DEFINE k == [task |-> r, kind |-> "resume"]
  <2>1. /\ UNCHANGED <<status, execs, up, faults, cursor, ran, paused>> /\ up \subseteq Workers
        /\ inbox' = [inbox EXCEPT ![own[r].worker] = @ \cup {k}]
    BY ZenonT(60), <1>6 DEF PipelineEvent, TypeOK
  <2>2. k # AutoMsg
    BY Constants DEF AutoMsg
  <2> HIDE DEF k
  <2>3. \A w \in up : AutoMsg \in inbox'[w] => AutoMsg \in inbox[w]
    BY ZenonT(60), <2>1, <2>2 DEF TypeOK
  <2> QED
    BY <1>1, <2>1, <2>3 DEF AutoRests
<1>7. ASSUME NEW w \in Workers, Crash(w)
      PROVE  Review' /\ Apart' /\ Counted'
  <2>1. /\ up' = up \ {w} /\ execs' \subseteq execs /\ faults' = faults + 1 /\ up \subseteq Workers
        /\ UNCHANGED <<status, cursor, ran, paused>>
        /\ inbox' = [inbox EXCEPT ![w] = {}]
    BY ZenonT(60), <1>7 DEF Crash, TypeOK
  <2>2. faults' # 0 /\ \A v \in up' : inbox'[v] = inbox[v]
    BY SMT, Z3, <2>1 DEF TypeOK
  <2> QED
    BY <1>1, <2>1, <2>2 DEF AutoRests
<1> QED
  BY <1>2, <1>3, <1>4, <1>5, <1>6, <1>7 DEF UserStep

-----------------------------------------------------------------------------
(* The theorems *)

LEMMA SessionInit == Init => SInv
<1> SUFFICES ASSUME Init PROVE SInv
  OBVIOUS
<1>1. IInv
  BY InitHolds
<1>2. TypeOK
  <2>1. RestType
    <3>1. /\ own \in [Tasks -> Lease] /\ lease \in Lease /\ fence \in Nat
          /\ sched.task \in Tasks \cup {NoTask} /\ sched.lease \in Lease
      BY ZenonT(60), Leases DEF Init, NoSched
    <3>2. CardType
      BY ZenonT(60) DEF Init, CardType
    <3>3. /\ inbox \in [Workers -> SUBSET Msg] /\ excl \in [Workers -> Repairs \cup {NoTask}]
          /\ ran \in [1..Commands -> Nat] /\ cursor \in 0..Commands
      BY SMT, Z3, Constants DEF Init
    <3> QED
      BY ZenonT(60), <3>1, <3>2, <3>3 DEF Init, RestType
  <2> QED
    BY <1>1, <2>1, Rest
<1>3. /\ execs = {} /\ \A w \in Workers : inbox[w] = {} /\ excl[w] = NoTask
      /\ \A t \in Tasks : own[t] = NoLease
      /\ sched.steps = <<>> /\ up = Workers /\ faults = 0 /\ paused = FALSE
      /\ \A c \in 1..Commands : ran[c] = 0
  BY DEF Init, NoSched
<1>4. Shaped /\ Started /\ Once
  BY <1>3 DEF Shaped, Started, Once
<1>5. Place
  <2>1. Len(sched.steps) = 0
    BY SMT, Z3, <1>3
  <2>2. \A i \in 1..Len(sched.steps) : FALSE
    BY SMT, Z3, <2>1
  <2> QED
    BY Zenon, <1>3, <2>2, Leases, Constants DEF Place
<1>6. Session /\ Apart
  BY <1>3 DEF Session, ExclusiveHasRepair, Apart
<1>7. Review
  BY <1>3 DEF Review
<1>8. Counted
  BY SMT, Z3, <1>3 DEF Counted, NoneAfter
<1> QED
  BY <1>1, <1>2, <1>4, <1>5, <1>6, <1>7, <1>8 DEF SInv

LEMMA SessionStep == SInv /\ [Next]_vars => SInv'
<1> SUFFICES ASSUME SInv, [Next]_vars PROVE SInv'
  OBVIOUS
<1>1. /\ IInv /\ TypeOK /\ Shaped /\ Place /\ Started /\ Once /\ Session
      /\ Review /\ Apart /\ Counted
  BY DEF SInv
<1>2. IInv'
  BY <1>1, StepHolds
<1>3. RestType' => TypeOK'
  <2> SUFFICES ASSUME RestType' PROVE TypeOK'
    OBVIOUS
  <2>1. sched' \in [task : Tasks \cup {NoTask}, lease : Lease, steps : Seq(SchedSteps)]
    BY <1>2 DEF IInv, SchedKnows, RestType
  <2> QED
    BY Zenon, <1>2, <2>1 DEF IInv, Core, CoreType, RestType, TypeOK, CardType
<1>4. CASE UNCHANGED vars
  <2>1. UNCHANGED <<status, own, canceled, paused, pausedBy, cursor, card, lease, fence, inbox,
                    up, excl, execs, sched, ran, faults>>
    BY <1>4 DEF vars, taskVars, autoVars, leaseVars, procVars
  <2>2. TypeOK'
    BY <1>1, <1>3, <2>1, Rest DEF RestType, CardType
  <2>3. Shaped' /\ Place' /\ Started' /\ Once'
    BY ZenonT(60), <1>1, <2>1 DEF Shaped, Fits, Place, Started, Once
  <2>4. Session'
    BY ZenonT(60), <1>1, <2>1 DEF Session, ExclusiveHasRepair, Inside
  <2>5. Review' /\ Apart' /\ Counted'
    BY ZenonT(60), <1>1, <2>1 DEF Review, Apart, Busy, Engaged, Counted, NoneAfter, Pending, Going
  <2> QED
    BY <1>2, <2>2, <2>3, <2>4, <2>5 DEF SInv
<1>5. ASSUME NEW e \in execs, ExecStep(e)
      PROVE  SInv'
  <2>1. TypeOK' /\ Shaped'
    BY <1>1, <1>2, <1>5, ExecTyped
  <2>2. Place' /\ Started' /\ Once' /\ Session'
    BY <1>1, <1>5, <2>1, ExecKeeps
  <2>3. Review' /\ Apart' /\ Counted'
    BY <1>1, <1>5, <2>1, ExecReview
  <2> QED
    BY <1>2, <2>1, <2>2, <2>3 DEF SInv
<1>6. CASE SchedStep \/ \E t \in Gated : Timeout(t)
  <2>1. TypeOK'
    BY <1>1, <1>3, <1>6, SchedTyped
  <2>2. Place' /\ Started' /\ Once' /\ Session' /\ Shaped'
    BY <1>1, <1>6, <2>1, SchedKeeps
  <2>3. Review' /\ Apart' /\ Counted'
    BY <1>1, <1>6, <2>1, <2>2, SchedReview
  <2> QED
    BY <1>2, <2>1, <2>2, <2>3 DEF SInv
<1>7. CASE UserStep \/ LeaseExpires
  <2>1. TypeOK' /\ Shaped'
    BY <1>1, <1>3, <1>7, UserTyped
  <2>2. Place' /\ Started' /\ Once' /\ Session'
    BY <1>1, <1>7, <2>1, UserKeeps
  <2>3. Review' /\ Apart' /\ Counted'
    BY <1>1, <1>7, <2>1, UserReview
  <2> QED
    BY <1>2, <2>1, <2>2, <2>3 DEF SInv
<1>8. ASSUME NEW r \in Repairs, PipelineEvent(r)
      PROVE  SInv'
  <2>1. TypeOK' /\ Shaped'
    BY <1>1, <1>3, <1>8, UserTyped
  <2>2. Place' /\ Started' /\ Once' /\ Session'
    BY <1>1, <1>8, <2>1, PipelineKeeps
  <2>3. Review' /\ Apart' /\ Counted'
    BY <1>1, <1>8, <2>1, UserReview
  <2> QED
    BY <1>2, <2>1, <2>2, <2>3 DEF SInv
<1>9. ASSUME NEW w \in Workers, NEW m \in inbox[w], Start(w, m)
      PROVE  SInv'
  <2>1. TypeOK' /\ Shaped'
    BY <1>1, <1>3, <1>9, UserTyped
  <2>2. Place' /\ Started' /\ Once' /\ Session'
    BY <1>1, <1>9, <2>1, StartKeeps
  <2>3. Review' /\ Apart' /\ Counted'
    BY Zenon, <1>1, <1>9, <2>1, StartReview
  <2> QED
    BY <1>2, <2>1, <2>2, <2>3 DEF SInv
<1>10. ASSUME NEW w \in Workers, Crash(w)
       PROVE  SInv'
  <2>1. TypeOK' /\ Shaped'
    BY <1>1, <1>3, <1>10, UserTyped
  <2>2. Place' /\ Started' /\ Once' /\ Session'
    BY <1>1, <1>10, <2>1, CrashKeeps
  <2>3. Review' /\ Apart' /\ Counted'
    BY <1>1, <1>10, <2>1, UserReview
  <2> QED
    BY <1>2, <2>1, <2>2, <2>3 DEF SInv
<1> QED
  BY <1>4, <1>5, <1>6, <1>7, <1>8, <1>9, <1>10 DEF Next

\* The inductive invariant holds in every reachable state.
THEOREM SessionInvariant == Spec => []SInv
BY SessionInit, SessionStep, PTL DEF Spec

\* Every variable keeps its type; the workflow's cursor never passes its last
\* command, wherever commands and pauses write it.
THEOREM TypeTheorem == Spec => []TypeOK
<1>1. SInv => TypeOK
  BY DEF SInv
<1> QED
  BY <1>1, SessionInvariant, PTL

\* MrSession: while a repair executes in a worker nothing else of the merge
\* request executes there, for any number of workers, repairs, crashes and
\* cancellations.
THEOREM AloneTheorem == Spec => []RepairAlone
<1>1. SInv => RepairAlone
  <2> SUFFICES ASSUME SInv, NEW e \in execs, NEW f \in execs, Inside(e), Inside(f),
                      e.worker = f.worker, e.task \in Repairs
               PROVE  f = e
    BY DEF RepairAlone
  <2>1. excl[e.worker] = e.task /\ e.task # NoTask
    BY Constants DEF SInv, Session
  <2>2. f.task = e.task
    BY ZenonT(60), <2>1 DEF SInv, Session
  <2> QED
    BY <2>2 DEF SInv, Once, Inside
<1> QED
  BY <1>1, SessionInvariant, PTL

\* A worker's session is exclusive only for a repair that executes there or
\* waits for its pipeline, unless it was cancelled or there was a fault.
THEOREM ExclusiveTheorem == Spec => []ExclusiveHasRepair
<1>1. SInv => ExclusiveHasRepair
  BY DEF SInv, Session
<1> QED
  BY <1>1, SessionInvariant, PTL

\* No command of the review runs while a repair runs or waits for its pipeline,
\* on whatever worker: the gate, the check before every command and the session
\* together.
THEOREM ReviewTheorem == Spec => []ReviewOutsideRepair
<1>1. SInv => ReviewOutsideRepair
  <2> SUFFICES ASSUME SInv, NEW e \in execs, NEW r \in Repairs, e.pc = "cmd",
                      status[r] \in {"running", "waiting"}
               PROVE  FALSE
    BY DEF ReviewOutsideRepair
  <2>1. Going(e) /\ Busy
    BY DEF SInv, Shaped, Fits, Going, Busy, Engaged
  <2> QED
    BY <2>1 DEF SInv, Apart
<1> QED
  BY <1>1, SessionInvariant, PTL

\* As long as there is no fault, however often the review is paused and woken,
\* each of its commands runs at most once.
THEOREM CommandsTheorem == Spec => []CommandsOnce
<1>1. SInv => CommandsOnce
  BY DEF SInv, Counted, CommandsOnce
<1> QED
  BY <1>1, SessionInvariant, PTL

=============================================================================
