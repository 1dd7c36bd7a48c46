--------------------------- MODULE MCRepairGate ---------------------------
EXTENDS RepairGate, FiniteSetsExt, TLC

\* Workers are interchangeable, and so are repairs; used where only safety is
\* checked.
GateSymmetry == Permutations(Workers) \cup Permutations(Repairs)

\* A card revision is only ever compared with one that an execution has read,
\* so revisions count from the oldest of those.
Readers == {e \in execs : e.pc \in {"admit", "elig", "cadmit", "cfinal"}}
Oldest == Min({card.rev} \cup {e.rev : e \in Readers})

\* A task that has ended and for which nothing is on its way: no step looks at
\* its owner any more, at the commands of a workflow, or at the commits of a
\* repair that the card does not offer to roll back.  Nothing tells a task that
\* has failed from one that has completed.
Settled(t) ==
    /\ status[t] \in Terminal
    /\ \A e \in execs : e.task # t
    /\ \A w \in Workers : \A m \in inbox[w] : m.task # t
ViewedStatus == [t \in Tasks |-> IF status[t] = "failed" THEN "completed" ELSE status[t]]
ViewedOwn == [t \in Tasks |-> IF Settled(t) THEN NoLease ELSE own[t]]
ViewedManifest ==
    [r \in Repairs |-> IF Settled(r) /\ card.offer # r THEN NoTask ELSE manifest[r]]

\* What the behaviours to come depend on; a pause without its key names nobody.
GateView ==
    <<ViewedStatus, ViewedOwn, bound, canceled, ViewedManifest, gate,
      IF paused THEN pausedBy ELSE NoTask, IF Settled(AutoTask) THEN <<>> ELSE <<cursor, ran>>,
      leaseVars, inbox, procVars, excl, sched,
      card.active, card.offer, card.rev - Oldest,
      {[e EXCEPT !.rev = IF e \in Readers THEN @ - Oldest ELSE 0] : e \in execs}>>
=============================================================================
