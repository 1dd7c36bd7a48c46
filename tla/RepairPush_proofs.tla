------------------------- MODULE RepairPush_proofs -------------------------
(***************************************************************************)
(* Proofs about RepairPush: new commits, commits that land, the rollback,  *)
(* and the theorems.  The invariant, and the steps that make no commit,    *)
(* are in RepairPush_steps.                                                *)
(***************************************************************************)
EXTENDS RepairPush_steps

-----------------------------------------------------------------------------
(* New commits, and commits that land.                                     *)

LEMMA BranchIds ==
    ASSUME ServerType, BranchOK
    PROVE  /\ \A i \in DOMAIN branch : branch[i] \in DOMAIN commits \cup {0}
           /\ Tip \in DOMAIN commits \cup {0}
BY SMT, Z3, TipFacts DEF BranchOK

\* The manifest lies between two commits that exist.
LEMMA ManifestIds ==
    ASSUME IInv, manifest.entries # <<>>
    PROVE  /\ manifest.base \in DOMAIN commits \cup {0}
           /\ Final \in By("repair")
<1>1. ServerType /\ BranchOK /\ Chained /\ manifest \in ManifestRec
      /\ Entries \subseteq By("repair")
  BY DEF IInv, PushType, ManifestOK, ManifestType
<1>2. manifest.base \in DOMAIN commits \cup {0}
  <2>1. 1 \in DOMAIN manifest.entries /\ ParentAt(1) = manifest.base
    BY SMT, Z3, <1>1 DEF ManifestRec, ParentAt
  <2>2. \E j \in DOMAIN branch : branch[j] = manifest.base
    BY <1>1, <2>1 DEF Chained
  <2> QED
    BY <1>1, <2>2, BranchIds
<1> QED
  BY <1>1, <1>2, FinalFacts

\* What one more commit changes.
LEMMA Newer ==
    ASSUME ServerType, Room, NEW r \in Commits, commits' = Append(commits, r)
    PROVE  /\ NextId \in Nat \ {0} /\ NextId \in Ids /\ NextId \notin DOMAIN commits
           /\ DOMAIN commits \subseteq Nat /\ 0 \notin DOMAIN commits
           /\ \A c \in DOMAIN commits : c < NextId
           /\ commits' \in Seq(Commits) /\ Len(commits') = NextId
           /\ Len(commits) \in Nat /\ Len(commits') <= MaxCommits
           /\ DOMAIN commits' = DOMAIN commits \cup {NextId}
           /\ \A c \in DOMAIN commits : commits'[c] = commits[c]
           /\ commits'[NextId] = r
           /\ \A c \in DOMAIN commits \cup {0} : Tree(c)' = Tree(c)
           /\ \A c : c = NextId => Tree(c)' = r.tree
<1>1. Len(commits) \in Nat /\ DOMAIN commits = 1..Len(commits)
      /\ Len(commits) < MaxCommits
  BY SMT, Z3 DEF ServerType, Room
<1>2. /\ NextId \in Nat \ {0} /\ NextId \in Ids /\ NextId \notin DOMAIN commits
      /\ DOMAIN commits \subseteq Nat /\ 0 \notin DOMAIN commits
      /\ \A c \in DOMAIN commits : c < NextId
      /\ NextId <= MaxCommits
  BY SMT, Z3, <1>1, Numbers DEF NextId
<1>3. /\ commits' \in Seq(Commits) /\ Len(commits') = NextId
      /\ DOMAIN commits' = 1..(Len(commits) + 1)
      /\ \A c \in DOMAIN commits : commits'[c] = commits[c]
      /\ commits'[NextId] = r
  BY SMT, Z3, <1>1 DEF ServerType, NextId
<1>4. DOMAIN commits' = DOMAIN commits \cup {NextId}
  BY SMT, Z3, <1>1, <1>3 DEF NextId
<1>5. \A c \in DOMAIN commits \cup {0} : Tree(c)' = Tree(c)
  BY <1>2, <1>3 DEF Tree
<1>6. \A c : c = NextId => Tree(c)' = r.tree
  BY <1>2, <1>3 DEF Tree
<1> QED
  BY <1>1, <1>2, <1>3, <1>4, <1>5, <1>6

LEMMA NewerBy ==
    ASSUME ServerType, Room, NEW r \in Commits, commits' = Append(commits, r)
    PROVE  \A who : By(who)' = By(who) \cup (IF r.by = who THEN {NextId} ELSE {})
<1> SUFFICES ASSUME NEW who
             PROVE  By(who)' = By(who) \cup (IF r.by = who THEN {NextId} ELSE {})
  OBVIOUS
<1>1. /\ DOMAIN commits' = DOMAIN commits \cup {NextId}
      /\ \A c \in DOMAIN commits : commits'[c] = commits[c]
      /\ commits'[NextId] = r
  BY Newer
<1>2. By(who)' = {c \in DOMAIN commits' : commits'[c].by = who}
  BY DEF By
<1>3. By(who) = {c \in DOMAIN commits : commits[c].by = who}
  BY DEF By
<1> HIDE DEF NextId
<1> QED
  BY <1>1, <1>2, <1>3

\* What one more commit on the branch changes.
LEMMA Longer ==
    ASSUME ServerType, BranchOK, NEW c \in Ids, branch' = Append(branch, c)
    PROVE  /\ branch' \in Seq(Ids) /\ branch' # <<>>
           /\ Len(branch) \in Nat \ {0}
           /\ DOMAIN branch' = 1..(Len(branch) + 1)
           /\ DOMAIN branch = 1..Len(branch)
           /\ \A i \in DOMAIN branch : branch'[i] = branch[i]
           /\ branch'[Len(branch) + 1] = c
           /\ Tip' = c
           /\ \A d : OnBranch(d)' <=> OnBranch(d) \/ d = c
<1>1. Len(branch) \in Nat \ {0} /\ DOMAIN branch = 1..Len(branch)
  BY TipFacts
<1>2. /\ branch' \in Seq(Ids) /\ branch' # <<>>
      /\ Len(branch') = Len(branch) + 1
      /\ DOMAIN branch' = 1..(Len(branch) + 1)
      /\ \A i \in DOMAIN branch : branch'[i] = branch[i]
      /\ branch'[Len(branch) + 1] = c
  BY SMT, Z3, <1>1 DEF ServerType
<1>3. Tip' = c
  BY <1>2 DEF Tip
<1>4. ASSUME NEW d
      PROVE  OnBranch(d)' <=> OnBranch(d) \/ d = c
  <2>1. 1..(Len(branch) + 1) = (1..Len(branch)) \cup {Len(branch) + 1}
    BY SMT, Z3, <1>1
  <2> QED
    BY <1>1, <1>2, <2>1 DEF OnBranch
<1> QED
  BY <1>1, <1>2, <1>3, <1>4

\* Commits made and pushes that land leave the manifest's chain as it is.
LEMMA ManifestStays ==
    ASSUME IInv, UNCHANGED <<manifest, ledger>>,
           DOMAIN branch \subseteq DOMAIN branch',
           \A i \in DOMAIN branch : branch'[i] = branch[i],
           \A c \in DOMAIN commits : commits'[c] = commits[c]
    PROVE  Chained' /\ LastLanded'
<1>1. Chained /\ LastLanded /\ Entries \subseteq By("repair")
  BY DEF IInv, ManifestOK
<1>2. ASSUME NEW k \in DOMAIN manifest.entries
      PROVE  /\ ParentAt(k)' = ParentAt(k)
             /\ commits'[manifest.entries[k].commit] = commits[manifest.entries[k].commit]
  <2>1. manifest.entries[k].commit \in DOMAIN commits
    BY <1>1 DEF Entries, By
  <2> QED
    BY <2>1 DEF ParentAt
<1>3. Chained'
  BY SMT, Z3, <1>1, <1>2 DEF Chained
<1>4. ASSUME manifest.entries # <<>>
      PROVE  \/ \E i \in DOMAIN branch' : branch'[i] = Final
             \/ /\ ledger[commits'[Final].att].commit = Final
                /\ ledger[commits'[Final].att].res \in GivenUp
  BY <1>1, <1>4, FinalFacts DEF LastLanded, OnBranch
<1>5. LastLanded'
  BY <1>4 DEF LastLanded, OnBranch, Final
<1> QED
  BY <1>3, <1>5

\* A new place on the branch, for a commit on top of its head that has every
\* person's change the head has.
LEMMA Landed ==
    ASSUME ServerType, BranchOK, HumanWorkSurvives, NEW c \in Ids,
           branch' = Append(branch, c), Tip < c,
           commits' \in Seq(Commits),
           c \in DOMAIN commits', commits'[c].parent = Tip,
           \A d \in DOMAIN commits :
               d \in DOMAIN commits' /\ commits'[d] = commits[d],
           \A h \in By("human") : h \in Tree(Tip) => h \in commits'[c].tree,
           commits'[c].by = "human" => c \in commits'[c].tree
    PROVE  BranchOK' /\ HumanWorkSurvives'
<1>1. /\ branch' \in Seq(Ids)
      /\ Len(branch) \in Nat \ {0}
      /\ DOMAIN branch' = 1..(Len(branch) + 1)
      /\ DOMAIN branch = 1..Len(branch)
      /\ \A i \in DOMAIN branch : branch'[i] = branch[i]
      /\ branch'[Len(branch) + 1] = c
      /\ Tip' = c
  BY Longer
<1>2. /\ Tip \in Nat /\ c \in Nat
      /\ \A i \in DOMAIN branch : branch[i] \in Nat /\ branch[i] <= Tip
  BY SMT, Z3, TipFacts, Numbers
<1>3. branch'[1] = 0
  BY SMT, Z3, <1>1 DEF BranchOK
<1>4. ASSUME NEW i \in DOMAIN branch', i > 1
      PROVE  /\ branch'[i] \in DOMAIN commits'
             /\ commits'[branch'[i]].parent = branch'[i - 1]
  <2>1. CASE i = Len(branch) + 1
    <3>1. i - 1 = Len(branch) /\ Len(branch) \in DOMAIN branch
      BY SMT, Z3, <1>1, <2>1
    <3>2. branch'[i] = c /\ branch'[i - 1] = Tip
      BY <1>1, <2>1, <3>1 DEF Tip
    <3> QED
      BY <3>2
  <2>2. CASE i # Len(branch) + 1
    <3>1. i \in DOMAIN branch /\ i - 1 \in DOMAIN branch
      BY SMT, Z3, <1>1, <1>4, <2>2
    <3> QED
      BY SMT, Z3, <1>1, <1>4, <3>1 DEF BranchOK
  <2> QED
    BY Zenon, <2>1, <2>2
<1>5. ASSUME NEW i \in DOMAIN branch', NEW j \in DOMAIN branch', i < j
      PROVE  branch'[i] < branch'[j]
  <2>1. i \in DOMAIN branch
    BY SMT, Z3, <1>1, <1>5
  <2>2. CASE j = Len(branch) + 1
    BY SMT, Z3, <1>1, <1>2, <2>1, <2>2
  <2>3. CASE j # Len(branch) + 1
    <3>1. j \in DOMAIN branch
      BY SMT, Z3, <1>1, <2>3
    <3> QED
      BY <1>1, <1>5, <2>1, <3>1 DEF BranchOK
  <2> QED
    BY <2>2, <2>3
<1>6. BranchOK'
  BY <1>3, <1>4, <1>5 DEF BranchOK
<1>7. c # 0 /\ \A d : d = c => Tree(d)' = commits'[c].tree
  BY SMT, Z3, <1>2 DEF Tree
<1>8. ASSUME NEW i \in DOMAIN branch', branch'[i] \in By("human")'
      PROVE  branch'[i] \in commits'[c].tree
  <2>1. branch'[i] \in DOMAIN commits' /\ commits'[branch'[i]].by = "human"
    BY <1>8 DEF By
  <2>2. CASE i = Len(branch) + 1
    BY <1>1, <2>1, <2>2
  <2>3. CASE i # Len(branch) + 1
    <3>1. i \in DOMAIN branch /\ branch'[i] = branch[i]
      BY SMT, Z3, <1>1, <2>3
    <3>2. branch[i] \in DOMAIN commits
      <4>1. branch[i] \in DOMAIN commits \cup {0}
        BY <3>1, BranchIds
      <4>2. i > 1
        <5>1. branch[i] # 0
          BY SMT, Z3, <2>1, <3>1
        <5>2. i # 1
          BY <5>1 DEF BranchOK
        <5> QED
          BY SMT, Z3, <1>1, <3>1, <5>2
      <4> QED
        BY <3>1, <4>2 DEF BranchOK
    <3>3. branch[i] \in By("human")
      BY <2>1, <3>1, <3>2 DEF By
    <3> QED
      BY <3>1, <3>3 DEF HumanWorkSurvives
  <2> QED
    BY <2>2, <2>3
<1>9. HumanWorkSurvives'
  BY <1>1, <1>7, <1>8 DEF HumanWorkSurvives
<1> QED
  BY <1>6, <1>9

\* One more commit, on the branch only if a person pushed it there.
LEMMA Grow ==
    ASSUME IInv, Room, NEW r \in Commits, commits' = Append(commits, r),
           r.parent \in DOMAIN commits \cup {0},
           \A t \in r.tree : t <= NextId,
           r.by = "repair" => r.att \in Attempts /\ r.parent = r.att.base,
           r.by = "human" => NextId \in r.tree,
           \A h \in By("human") : h \in Tree(r.parent) => h \in r.tree,
           r.by = "rollback" => /\ manifest.frozen /\ r.parent = Final
                                /\ r.tree = Tree(manifest.base),
           \/ branch' = branch
           \/ r.by = "human" /\ r.parent = Tip /\ branch' = Append(branch, NextId),
           UNCHANGED <<sent, ledger, note, active, manifest>>,
           RunType', BackType', \A e \in Execs : RunOK(e)',
           \/ back' = back
           \/ /\ r.by = "rollback" /\ back'.pc = "push"
              /\ back'.commit = NextId /\ back'.result = "none"
    PROVE  IInv'
<1>1. ServerType /\ BranchOK /\ CommitsOK /\ HumanWorkSurvives /\ ManifestType
      /\ EffectType /\ LedgerOK /\ EvidenceFirst /\ ManifestOK /\ BackOK
      /\ ReportedOnce
  BY DEF IInv, PushType
<1>2. /\ NextId \in Nat \ {0} /\ NextId \in Ids /\ NextId \notin DOMAIN commits
      /\ DOMAIN commits \subseteq Nat /\ 0 \notin DOMAIN commits
      /\ \A c \in DOMAIN commits : c < NextId
      /\ commits' \in Seq(Commits) /\ Len(commits') = NextId
      /\ Len(commits') <= MaxCommits
      /\ DOMAIN commits' = DOMAIN commits \cup {NextId}
      /\ \A c \in DOMAIN commits : commits'[c] = commits[c]
      /\ commits'[NextId] = r
      /\ \A c \in DOMAIN commits \cup {0} : Tree(c)' = Tree(c)
  BY Zenon, <1>1, Newer
<1>3. \A who : By(who)' = By(who) \cup (IF r.by = who THEN {NextId} ELSE {})
  BY <1>1, NewerBy
<1>4. \A who : By(who) \subseteq DOMAIN commits
  BY DEF By
<1>5. /\ \A c : OnBranch(c) => OnBranch(c)'
      /\ \A c : OnBranch(c)' => OnBranch(c) \/ (c = NextId /\ r.by = "human")
  <2>1. CASE branch' = branch
    BY Zenon, <2>1 DEF OnBranch
  <2>2. CASE r.by = "human" /\ branch' = Append(branch, NextId)
    <3> HIDE DEF NextId
    <3>1. \A d : OnBranch(d)' <=> OnBranch(d) \/ d = NextId
      BY Zenon, <1>1, <1>2, <2>2, Longer
    <3> QED
      BY <2>2, <3>1
  <2> QED
    BY Zenon, <2>1, <2>2
<1>6. ServerType'
  BY Zenon, <1>1, <1>2, Longer DEF ServerType
<1>7. PushType' /\ ReportedOnce'
  BY Zenon, <1>1, <1>6 DEF PushType, EffectType, ManifestType, ReportedOnce
<1>8. CommitsOK'
  <2> DEFINE T(p) == IF p = 0 THEN {} ELSE commits'[p].tree
  <2> SUFFICES ASSUME NEW c \in DOMAIN commits'
               PROVE  /\ commits'[c].parent < c
                      /\ \A t \in commits'[c].tree : t <= c
                      /\ commits'[c].by = "repair" =>
                            commits'[c].att \in Attempts
                            /\ commits'[c].parent = commits'[c].att.base
                      /\ commits'[c].by = "human" => c \in commits'[c].tree
                      /\ \A h \in By("human")' :
                            h \in T(commits'[c].parent) => h \in commits'[c].tree
    <3>1. \A p : Tree(p)' = T(p)
      BY DEF Tree
    <3> QED
      BY Zenon, <3>1 DEF CommitsOK
  <2>1. CASE c = NextId
    <3>1. commits'[c] = r /\ r.parent < c
      BY SMT, Z3, <1>2, <2>1
    <3>2. ASSUME NEW h \in By("human")', h \in T(commits'[c].parent)
          PROVE  h \in r.tree
      <4>1. T(commits'[c].parent) = Tree(r.parent)
        BY SMT, Z3, <1>2, <3>1 DEF Tree
      <4> QED
        BY Zenon, <1>3, <3>2, <4>1
    <3> QED
      BY <2>1, <3>1, <3>2
  <2>2. CASE c \in DOMAIN commits
    <3> DEFINE p == commits[c].parent
    <3>1. /\ commits'[c] = commits[c] /\ p \in Nat /\ p < c /\ c \in Nat
      <4>1. commits[c] \in Commits /\ p < c
        BY SMT, Z3, <1>1, <2>2 DEF ServerType, CommitsOK
      <4>2. p \in Nat
        BY SMT, Z3, <4>1, Numbers DEF Commits
      <4> QED
        BY <1>2, <2>2, <4>1, <4>2
    <3>2. p \in DOMAIN commits \cup {0}
      BY SMT, Z3, <1>1, <2>2, <3>1 DEF ServerType
    <3>3. ASSUME NEW h \in By("human")', h \in T(commits'[c].parent)
          PROVE  h \in commits[c].tree
      <4>1. T(commits'[c].parent) = Tree(p)
        BY Zenon, <1>2, <3>1, <3>2 DEF Tree
      <4>2. h # NextId
        <5>1. CASE p = 0
          BY Zenon, <3>3, <4>1, <5>1 DEF Tree
        <5>2. CASE p # 0
          <6>1. p \in DOMAIN commits /\ h \in commits[p].tree
            BY <3>2, <3>3, <4>1, <5>2 DEF Tree
          <6>2. h <= p /\ p < NextId
            BY Zenon, <1>1, <1>2, <6>1 DEF CommitsOK
          <6> QED
            BY SMT, Z3, <1>2, <3>1, <6>2
        <5> QED
          BY Zenon, <5>1, <5>2
      <4>3. h \in By("human") /\ h \in Tree(p)
        BY Zenon, <1>3, <3>3, <4>1, <4>2
      <4> QED
        BY Zenon, <1>1, <2>2, <4>3 DEF CommitsOK
    <3> QED
      BY Zenon, <1>1, <2>2, <3>1, <3>3 DEF CommitsOK
  <2> QED
    BY Zenon, <1>2, <2>1, <2>2
<1>9. BranchOK' /\ HumanWorkSurvives'
  <2>1. CASE branch' = branch
    <3>1. BranchOK'
      BY ZenonT(60), <1>1, <1>2, <2>1 DEF BranchOK
    <3>2. Tip' = Tip /\ Tip \in DOMAIN commits \cup {0}
      BY Zenon, <1>1, <2>1, BranchIds DEF Tip
    <3>3. Tree(Tip)' = Tree(Tip)
      <4>1. \A d : d = Tip => Tree(d)' = Tree(d)
        BY Zenon, <1>2, <3>2
      <4> QED
        BY Zenon, <3>2, <4>1 DEF Tree
    <3>4. \A i \in DOMAIN branch : branch[i] # NextId
      BY Zenon, <1>1, <1>2, BranchIds
    <3> QED
      BY Zenon, <1>1, <1>3, <2>1, <3>1, <3>3, <3>4 DEF HumanWorkSurvives
  <2>2. CASE r.by = "human" /\ r.parent = Tip /\ branch' = Append(branch, NextId)
    <3>1. Tip < NextId
      BY SMT, Z3, <1>1, <1>2, BranchIds
    <3> HIDE DEF NextId
    <3> QED
      BY Zenon, <1>1, <1>2, <2>2, <3>1, Landed
  <2> QED
    BY <2>1, <2>2
<1>10. LedgerOK' /\ EvidenceFirst'
  <2>1. LedgerOK'
    BY SMT, Z3, <1>1, <1>2, <1>3, <1>4 DEF LedgerOK
  <2>2. ASSUME NEW c \in By("repair")', c \in sent \/ OnBranch(c)'
        PROVE  ledger[commits'[c].att].commit = c
    <3>1. c \notin sent \/ c # NextId
      BY <1>1, <1>2 DEF ServerType
    <3>2. c # NextId
      <4>1. CASE c = NextId
        <5>1. r.by = "repair"
          BY Zenon, <1>2, <1>3, <1>4, <2>2, <4>1
        <5>2. OnBranch(c)
          BY <1>5, <2>2, <3>1, <4>1, <5>1
        <5> QED
          BY SMT, Z3, <1>1, <1>2, <4>1, <5>2, BranchIds DEF OnBranch
      <4> QED
        BY Zenon, <4>1
    <3>3. c \in By("repair") /\ c \in DOMAIN commits
      BY <1>3, <1>4, <2>2, <3>2
    <3> QED
      BY Zenon, <1>1, <1>2, <1>5, <2>2, <3>2, <3>3 DEF EvidenceFirst
  <2> QED
    BY Zenon, <2>1, <2>2 DEF EvidenceFirst
<1>11. ManifestOK'
  <2>1. Entries' = Entries
    BY Zenon DEF Entries
  <2>2. SuccessIsRecorded'
    BY Zenon, <1>1 DEF ManifestOK, SuccessIsRecorded
  <2>3. Chained' /\ LastLanded'
    <3>1. /\ DOMAIN branch \subseteq DOMAIN branch'
          /\ \A i \in DOMAIN branch : branch'[i] = branch[i]
      <4>1. CASE branch' = branch
        BY <4>1
      <4>2. CASE branch' = Append(branch, NextId)
        <5> HIDE DEF NextId
        <5>1. /\ DOMAIN branch' = 1..(Len(branch) + 1)
              /\ DOMAIN branch = 1..Len(branch) /\ Len(branch) \in Nat \ {0}
              /\ \A i \in DOMAIN branch : branch'[i] = branch[i]
          BY Zenon, <1>1, <1>2, <4>2, Longer
        <5> QED
          BY SMT, Z3, <5>1
      <4> QED
        BY Zenon, <4>1, <4>2
    <3> QED
      BY Zenon, <1>2, <3>1, ManifestStays
  <2> QED
    BY Zenon, <1>1, <1>3, <2>1, <2>2, <2>3 DEF ManifestOK
<1>12. BackOK'
  <2>1. Final' = Final /\ manifest' = manifest
    BY DEF Final
  <2>2. ASSUME NEW c \in By("rollback")'
        PROVE  /\ manifest.frozen /\ commits'[c].parent = Final
               /\ commits'[c].tree = Tree(manifest.base)'
    <3>1. manifest.frozen
      BY Zenon, <1>1, <1>3, <2>2 DEF BackOK
    <3>2. manifest.base \in DOMAIN commits \cup {0}
      BY <1>1, <3>1, ManifestIds DEF ManifestOK
    <3>3. Tree(manifest.base)' = Tree(manifest.base)
      <4>1. \A d : d = manifest.base => Tree(d)' = Tree(d)
        BY Zenon, <1>2, <3>2
      <4> QED
        BY Zenon, <4>1 DEF Tree
    <3>4. CASE c \in By("rollback")
      BY ZenonT(60), <1>1, <1>2, <1>4, <3>1, <3>3, <3>4 DEF BackOK
    <3>5. CASE c = NextId /\ r.by = "rollback"
      BY <1>2, <3>1, <3>3, <3>5
    <3> QED
      BY Zenon, <1>3, <2>2, <3>4, <3>5
  <2>3. /\ back'.pc # "none" => manifest.frozen
        /\ back'.pc \in {"push", "confirm"} => back'.commit \in By("rollback")'
        /\ back'.result # "none" => back'.pc = "done"
        /\ back'.result = "succeeded" =>
              back'.commit \in By("rollback")' /\ OnBranch(back.commit)
                  /\ back' = back
    BY Zenon, <1>1, <1>3 DEF BackOK
  <2>4. back'.result = "succeeded" => OnBranch(back.commit)'
    <3>1. back' = back => (OnBranch(back.commit)' <=>
                             \E i \in DOMAIN branch' : branch'[i] = back.commit)
      BY SMT, Z3 DEF OnBranch
    <3>2. OnBranch(back.commit) => \E i \in DOMAIN branch' : branch'[i] = back.commit
      BY <1>5 DEF OnBranch
    <3> QED
      BY Zenon, <2>3, <3>1, <3>2
  <2> QED
    BY Zenon, <2>1, <2>2, <2>3, <2>4 DEF BackOK
<1> QED
  BY <1>7, <1>8, <1>9, <1>10, <1>11, <1>12 DEF IInv

\* What an execution knows stays true when commits are made or land.
LEMMA RunStays ==
    ASSUME IInv, NEW f \in Execs, run'[f] = run[f],
           UNCHANGED <<ledger, note, manifest, token>>,
           Len(commits) \in Nat, Len(commits') \in Nat,
           Len(commits) <= Len(commits'),
           By("repair") \subseteq By("repair")',
           \A c \in DOMAIN commits : commits'[c] = commits[c],
           \A c : OnBranch(c) => OnBranch(c)'
    PROVE  RunOK(f)'
<1> DEFINE x == run[f]
<1>1. RunOK(f) /\ RunType /\ x \in RunRec
  BY Zenon DEF IInv, PushType, RunType
<1>2. Entries' = Entries
  BY DEF Entries
<1>3. x.mine # None => /\ x.mine = x.local /\ x.mine \in By("repair")'
                       /\ commits'[x.mine] = commits[x.mine]
  BY Zenon, <1>1 DEF RunOK, By
<1>4. x.local # None => x.local <= Len(commits')
  <2>1. x.local # None => x.local \in Nat /\ x.local <= Len(commits)
    BY SMT, Z3, <1>1, Numbers DEF RunOK, RunRec
  <2> QED
    BY SMT, Z3, <2>1
<1>5. OnBranch(x.mine) => \E i \in DOMAIN branch' : branch'[i] = x.mine
  BY Zenon DEF OnBranch
<1>6. x.pc \in {"append", "complete"} => OnBranch(run[f].mine)'
  BY Zenon, <1>1, <1>5 DEF RunOK, OnBranch
<1>7. OnBranch(x.local) => \E i \in DOMAIN branch' : branch'[i] = x.local
  BY Zenon DEF OnBranch
<1>8. x.pc = "claim" => OnBranch(run[f].local)'
  BY Zenon, <1>1, <1>7 DEF RunOK, OnBranch
<1> QED
  BY Zenon, <1>1, <1>2, <1>3, <1>4, <1>6, <1>8 DEF RunOK, AtBase, AtMine

\* The repair's commit has its parent's tree and its own change.
LEMMA TreeIds ==
    ASSUME IInv, NEW c \in DOMAIN commits \cup {0}
    PROVE  /\ Tree(c) \subseteq Ids
           /\ \A t \in Tree(c) : t <= c
           /\ NextId \in Ids => Tree(c) \cup {NextId} \subseteq Ids
           /\ c \in Ids
<1>1. ServerType /\ CommitsOK
  BY DEF IInv, PushType
<1>2. CASE c = 0
  BY SMT, Z3, <1>2, Numbers DEF Tree
<1>3. CASE c # 0
  <2>1. c \in DOMAIN commits /\ Tree(c) = commits[c].tree
    BY <1>3 DEF Tree
  <2>2. commits[c] \in Commits
    BY SMT, Z3, <1>1, <2>1 DEF ServerType
  <2>3. Tree(c) \subseteq Ids
    BY Zenon, <2>1, <2>2 DEF Commits
  <2>4. c \in Ids
    BY SMT, Z3, <1>1, <2>1, Numbers DEF ServerType
  <2> QED
    BY <1>1, <2>1, <2>3, <2>4 DEF CommitsOK
<1> QED
  BY <1>2, <1>3

LEMMA MadeRun ==
    ASSUME NEW e \in Execs, run'[e].pc = "publish",
           run'[e].local = run'[e].mine, run'[e].mine # None,
           run'[e].mine <= Len(commits'), run'[e].mine \in By("repair")',
           run'[e].att \in Attempts, commits'[run'[e].mine].att = run'[e].att,
           ledger'[run'[e].att].commit = None
    PROVE  RunOK(e)'
BY Zenon DEF RunOK

LEMMA CommitKeeps ==
    ASSUME IInv, NEW e \in Execs, Commit(e)
    PROVE  IInv'
<1> DEFINE a == run[e].att
           p == run[e].local
           r == [parent |-> p, by |-> "repair", att |-> a,
                 tree |-> Tree(p) \cup {NextId}]
<1>1. ServerType /\ RunType /\ RunOK(e) /\ Step(e, "commit") /\ Room
      /\ UNCHANGED <<branch, sent, store, task, back>>
  BY DEF IInv, PushType, Commit
<1>2. CASE ~Fenced(e)
  <2>1. Raise(e) /\ UNCHANGED server
    BY <1>1, <1>2 DEF Commit, Raise, server
  <2> QED
    BY <2>1, Raised
<1>3. CASE Fenced(e)
  <2>1. /\ commits' = Append(commits, r)
        /\ run' = [run EXCEPT ![e].pc = "publish", ![e].local = NextId,
                              ![e].mine = NextId]
    BY <1>3 DEF Commit, Made
  <2>2. a \in Attempts /\ p = a.base /\ p <= Len(commits)
        /\ ledger[a].commit = None
    <3>1. a \in Attempts /\ AtBase(run[e]) /\ ledger[a].commit = None
      BY Zenon, <1>1, <1>3 DEF Step, RunOK, Fenced
    <3>2. a.base \in Ids
      BY <3>1 DEF Attempts
    <3> QED
      BY Zenon, <1>1, <3>1, <3>2, Numbers DEF RunOK, AtBase
  <2>3. p \in DOMAIN commits \cup {0}
    <3>1. p \in Nat
      BY SMT, Z3, <2>2, Numbers DEF Attempts
    <3> QED
      BY SMT, Z3, <1>1, <2>2, <3>1 DEF ServerType
  <2>4. NextId \in Ids /\ NextId \in Nat /\ \A c \in DOMAIN commits : c < NextId
        /\ 0 < NextId /\ NextId # None
    BY SMT, Z3, <1>1, Numbers DEF ServerType, Room, NextId
  <2>5. r \in Commits
    <3>1. Tree(p) \cup {NextId} \subseteq Ids /\ p \in Ids
      BY <2>3, <2>4, TreeIds
    <3> QED
      BY <2>2, <3>1 DEF Commits
  <2>6. \A t \in r.tree : t <= NextId
    <3>1. \A t \in Tree(p) : t <= p /\ t \in Nat
      BY SMT, Z3, <2>3, TreeIds, Numbers
    <3>2. p < NextId /\ p \in Nat
      <4>1. p \in Ids
        BY <2>3, TreeIds
      <4>2. p \in Nat
        BY SMT, Z3, <4>1, Numbers
      <4>3. Len(commits) \in Nat
        BY SMT, Z3, <1>1 DEF ServerType
      <4> QED
        BY SMT, Z3, <2>2, <4>2, <4>3 DEF NextId
    <3> QED
      BY SMT, Z3, <2>4, <3>1, <3>2
  <2> HIDE DEF NextId
  <2>7. /\ Len(commits) \in Nat /\ Len(commits') = NextId
        /\ \A c \in DOMAIN commits : commits'[c] = commits[c]
        /\ commits'[NextId] = r /\ Len(commits) <= Len(commits')
    BY SMT, Z3, <1>1, <2>1, <2>4, <2>5, Newer DEF NextId
  <2>8. By("repair")' = By("repair") \cup {NextId}
    BY <1>1, <2>1, <2>5, NewerBy
  <2>9. /\ run' \in [Execs -> RunRec]
        /\ \A f \in Execs : f # e => run'[f] = run[f]
        /\ run'[e].pc = "publish" /\ run'[e].local = NextId
        /\ run'[e].mine = NextId /\ run'[e].att = a
    <3> DEFINE y == [run[e] EXCEPT !.pc = "publish", !.local = NextId,
                                   !.mine = NextId]
    <3>1. run \in [Execs -> RunRec]
      BY <1>1 DEF RunType
    <3>2. run' = [run EXCEPT ![e] = y]
      BY Zenon, <2>1, <3>1
    <3>3. y \in RunRec /\ y.pc = "publish" /\ y.local = NextId
          /\ y.mine = NextId /\ y.att = a
      BY Zenon, <2>4, <3>1 DEF RunRec, PCs
    <3> QED
      BY SMT, Z3, <3>1, <3>2, <3>3
  <2>10. RunType' /\ UNCHANGED <<ledger, note, active, manifest, token, back>>
    BY <1>1, <2>9 DEF RunType, task, store
  <2>11. RunOK(e)'
    <3>1. ledger'[a].commit = None /\ token' = token
      BY <2>2, <2>10
    <3>2. NextId <= Len(commits') /\ NextId \in By("repair")'
          /\ commits'[NextId].att = a
      BY SMT, Z3, <2>4, <2>7, <2>8
    <3> QED
      <4>1. /\ run'[e].att \in Attempts
            /\ commits'[run'[e].mine].att = run'[e].att
            /\ ledger'[run'[e].att].commit = None
        BY Zenon, <2>2, <2>9, <3>1, <3>2
      <4>2. run'[e].local = run'[e].mine /\ run'[e].mine # None
        BY SMT, Z3, <2>4, <2>9 DEF None
      <4>3. run'[e].mine = Len(commits') /\ Len(commits') \in Nat
        BY Zenon, <2>4, <2>7, <2>9
      <4>4. run'[e].mine \in By("repair")'
        BY <2>9, <3>2
      <4>5. run'[e].mine <= Len(commits')
        BY SMT, Z3, <4>3
      <4> QED
        BY <2>9, <4>1, <4>2, <4>4, <4>5, MadeRun
  <2>12. \A f \in Execs : RunOK(f)'
    <3>1. \A c : OnBranch(c) => OnBranch(c)'
      BY <1>1 DEF OnBranch
    <3>2. ASSUME NEW f \in Execs, f # e
          PROVE  RunOK(f)'
      BY Zenon, <2>4, <2>7, <2>8, <2>9, <2>10, <3>1, <3>2, RunStays
    <3> QED
      BY <2>11, <3>2
  <2>13. BackType'
    BY <2>10 DEF IInv, PushType, BackType
  <2>14. /\ r.parent = p /\ r.by = "repair" /\ r.att = a
         /\ r.tree = Tree(p) \cup {NextId}
    OBVIOUS
  <2> HIDE DEF r
  <2> QED
    BY <1>1, <2>1, <2>2, <2>3, <2>5, <2>6, <2>10, <2>12, <2>13, <2>14, Grow
<1> QED
  BY <1>2, <1>3

LEMMA HumanKeeps ==
    ASSUME IInv, HumanPush
    PROVE  IInv'
<1> DEFINE r == [parent |-> Tip, by |-> "human", att |-> NoAttempt,
                 tree |-> Tree(Tip) \cup {NextId}]
<1>1. ServerType /\ BranchOK /\ RunType /\ Room
      /\ commits' = Append(commits, r) /\ branch' = Append(branch, NextId)
      /\ UNCHANGED <<sent, store, task, run, back>>
  BY DEF IInv, PushType, HumanPush, Made
<1>2. Tip \in DOMAIN commits \cup {0}
  BY <1>1, BranchIds
<1>3. NextId \in Ids /\ NextId \in Nat /\ \A c \in DOMAIN commits : c < NextId
      /\ 0 < NextId /\ Len(commits) \in Nat /\ Len(commits) <= NextId
  BY SMT, Z3, <1>1, Numbers DEF ServerType, Room, NextId
<1> HIDE DEF NextId
<1>4. r \in Commits /\ \A t \in r.tree : t <= NextId
  <2>1. Tree(Tip) \cup {NextId} \subseteq Ids /\ Tip \in Ids
        /\ \A t \in Tree(Tip) : t <= Tip /\ t \in Nat
    BY SMT, Z3, <1>2, <1>3, TreeIds, Numbers
  <2>2. Tip < NextId /\ Tip \in Nat
    <3>1. Tip \in Nat
      BY SMT, Z3, <2>1, Numbers
    <3>2. Tip <= Len(commits)
      BY SMT, Z3, <1>1, <1>2, <3>1 DEF ServerType
    <3> QED
      BY SMT, Z3, <1>3, <3>1, <3>2 DEF NextId
  <2> QED
    BY SMT, Z3, <1>3, <2>1, <2>2 DEF Commits
<1>5. /\ r.parent = Tip /\ r.by = "human"
      /\ r.tree = Tree(Tip) \cup {NextId}
  OBVIOUS
<1> HIDE DEF r
<1>6. /\ Len(commits') = NextId
      /\ \A c \in DOMAIN commits : commits'[c] = commits[c]
  BY <1>1, <1>4, Newer
<1>7. By("repair")' = By("repair")
  <2>1. By("repair")' = By("repair") \cup
                          (IF r.by = "repair" THEN {NextId} ELSE {})
    BY <1>1, <1>4, NewerBy
  <2> QED
    BY <1>5, <2>1
<1>8. \A c : OnBranch(c) => OnBranch(c)'
  BY <1>1, <1>3, Longer
<1>9. RunType' /\ BackType' /\ UNCHANGED <<ledger, note, active, manifest, token>>
  BY <1>1 DEF RunType, task, store, IInv, PushType, BackType
<1>10. \A f \in Execs : RunOK(f)'
  BY SMT, Z3, <1>1, <1>3, <1>6, <1>7, <1>8, <1>9, RunStays
<1> QED
  BY Zenon, <1>1, <1>2, <1>3, <1>4, <1>5, <1>9, <1>10, Grow

LEMMA LandKeeps ==
    ASSUME IInv, NEW c \in sent, Land(c)
    PROVE  IInv'
<1>1. ServerType /\ BranchOK /\ CommitsOK /\ HumanWorkSurvives /\ ManifestType
      /\ EffectType /\ LedgerOK /\ EvidenceFirst /\ ManifestOK /\ BackOK
      /\ ReportedOnce /\ RunType /\ BackType
  BY DEF IInv, PushType
<1>2. /\ sent' = sent \ {c}
      /\ branch' = IF commits[c].parent = Tip THEN Append(branch, c) ELSE branch
      /\ UNCHANGED <<commits, store, task, run, back>>
  BY DEF Land
<1>3. c \in DOMAIN commits /\ c \in Ids
  BY SMT, Z3, <1>1, Numbers DEF ServerType
<1>4. UNCHANGED <<ledger, note, active, manifest, token>>
  BY <1>2 DEF store, task
<1>5. /\ \A d : OnBranch(d) => OnBranch(d)'
      /\ \A d : OnBranch(d)' => OnBranch(d) \/ d = c
      /\ branch' \in Seq(Ids) /\ branch' # <<>>
  <2>1. CASE branch' = branch
    BY <1>1, <2>1 DEF OnBranch, ServerType
  <2>2. CASE branch' = Append(branch, c)
    BY <1>1, <1>3, <2>2, Longer
  <2> QED
    BY <1>2, <2>1, <2>2
<1>6. /\ \A who : By(who)' = By(who)
      /\ \A d : Tree(d)' = Tree(d)
      /\ Entries' = Entries /\ Final' = Final
  BY <1>2, <1>4 DEF By, Tree, Entries, Final
<1>7. PushType' /\ ReportedOnce'
  BY Zenon, <1>1, <1>2, <1>4, <1>5 DEF PushType, ServerType, EffectType, ManifestType,
     RunType, BackType, ReportedOnce, task
<1>8. CommitsOK' /\ LedgerOK'
  BY Zenon, <1>1, <1>2, <1>4, <1>6 DEF CommitsOK, LedgerOK
<1>9. EvidenceFirst'
  BY Zenon, <1>1, <1>2, <1>4, <1>5, <1>6 DEF EvidenceFirst
<1>10. BranchOK' /\ HumanWorkSurvives'
  <2>1. CASE branch' = branch
    BY <1>1, <1>2, <1>6, <2>1 DEF BranchOK, HumanWorkSurvives, Tip
  <2>2. CASE commits[c].parent = Tip /\ branch' = Append(branch, c)
    <3>1. Tip < c
      BY <1>1, <1>3, <2>2 DEF CommitsOK
    <3>2. \A h \in By("human") : h \in Tree(Tip) => h \in commits'[c].tree
      BY <1>1, <1>2, <1>3, <2>2 DEF CommitsOK
    <3>3. commits'[c].by = "human" => c \in commits'[c].tree
      BY <1>1, <1>2, <1>3 DEF CommitsOK
    <3>4. commits' \in Seq(Commits) /\ c \in DOMAIN commits'
          /\ commits'[c].parent = Tip
      BY <1>1, <1>2, <1>3, <2>2 DEF ServerType
    <3>5. \A d \in DOMAIN commits :
             d \in DOMAIN commits' /\ commits'[d] = commits[d]
      BY <1>2
    <3> QED
      BY SMT, Z3, <1>1, <1>3, <2>2, <3>1, <3>2, <3>3, <3>4, <3>5, Landed
  <2> QED
    BY <1>2, <2>1, <2>2
<1>11. ManifestOK'
  <2>1. SuccessIsRecorded'
    BY <1>1, <1>4 DEF ManifestOK, SuccessIsRecorded
  <2>2. Chained' /\ LastLanded'
    <3>1. CASE branch' = branch
      BY <1>2, <1>4, <3>1, ManifestStays
    <3>2. CASE branch' = Append(branch, c)
      <4>1. /\ DOMAIN branch' = 1..(Len(branch) + 1)
            /\ DOMAIN branch = 1..Len(branch) /\ Len(branch) \in Nat \ {0}
            /\ \A i \in DOMAIN branch : branch'[i] = branch[i]
        BY <1>1, <1>3, <3>2, Longer
      <4>2. DOMAIN branch \subseteq DOMAIN branch'
        BY SMT, Z3, <4>1
      <4> QED
        BY <1>2, <1>4, <4>1, <4>2, ManifestStays
    <3> QED
      BY <1>2, <3>1, <3>2
  <2> QED
    BY <1>1, <1>4, <1>6, <2>1, <2>2 DEF ManifestOK
<1>12. BackOK'
  <2>1. OnBranch(back.commit) => \E i \in DOMAIN branch' : branch'[i] = back.commit
    BY Zenon, <1>5 DEF OnBranch
  <2>2. OnBranch(back.commit) => OnBranch(back.commit)'
    BY <1>2, <2>1 DEF OnBranch
  <2> QED
    BY Zenon, <1>1, <1>2, <1>4, <1>6, <2>2 DEF BackOK, Tree
<1>13. \A f \in Execs : RunOK(f)'
  <2>1. Len(commits) \in Nat /\ Len(commits') = Len(commits)
        /\ \A d \in DOMAIN commits : commits'[d] = commits[d]
    BY SMT, Z3, <1>1, <1>2 DEF ServerType
  <2>2. \A f \in Execs : run'[f] = run[f]
    BY <1>2
  <2> QED
    BY SMT, Z3, <1>4, <1>5, <1>6, <2>1, <2>2, RunStays
<1> QED
  BY <1>7, <1>8, <1>9, <1>10, <1>11, <1>12, <1>13 DEF IInv

-----------------------------------------------------------------------------
(* The rollback task, the cancel request, and the loss of a worker.        *)

\* A step of the rollback task that makes and sends nothing.
LEMMA BackKeeps ==
    ASSUME IInv, UNCHANGED <<server, store, task, run>>, BackType',
           back'.pc # "none" => manifest.frozen,
           back'.pc \in {"push", "confirm"} => back'.commit \in By("rollback"),
           back'.result # "none" => back'.pc = "done",
           back'.result = "succeeded" =>
              back'.commit \in By("rollback") /\ OnBranch(back'.commit)
    PROVE  IInv'
<1>1. UNCHANGED <<commits, branch, sent, ledger, note, active, manifest, token,
                  status, cancel, ckpt, run>>
  BY DEF server, store, task
<1>2. /\ \A who : By(who)' = By(who)
      /\ \A d : Tree(d)' = Tree(d)
      /\ \A d : OnBranch(d)' <=> OnBranch(d)
      /\ Entries' = Entries /\ Final' = Final /\ Tip' = Tip
  BY <1>1 DEF By, Tree, Entries, Final, Tip, OnBranch
<1>3. PushType' /\ ReportedOnce'
  BY <1>1 DEF IInv, PushType, ServerType, EffectType, ManifestType, RunType,
     ReportedOnce
<1>4. CommitsOK' /\ BranchOK' /\ LedgerOK'
  BY <1>1, <1>2 DEF IInv, CommitsOK, BranchOK, LedgerOK
<1>5. EvidenceFirst' /\ HumanWorkSurvives'
  BY ZenonT(60), <1>1, <1>2 DEF IInv, EvidenceFirst, HumanWorkSurvives
<1>6. ManifestOK'
  <2>1. Chained' /\ LastLanded'
    BY <1>1, ManifestStays
  <2> QED
    BY Zenon, <1>1, <1>2, <2>1 DEF IInv, ManifestOK, SuccessIsRecorded
<1>7. BackOK'
  <2>1. back'.result = "succeeded" => OnBranch(back.commit)'
    BY <1>1 DEF OnBranch
  <2> QED
    BY <1>1, <1>2, <2>1 DEF IInv, BackOK, Tree
<1>8. \A f \in Execs : RunOK(f)'
  <2>1. Len(commits) \in Nat /\ Len(commits') = Len(commits)
        /\ \A d \in DOMAIN commits : commits'[d] = commits[d]
    BY SMT, Z3, <1>1 DEF IInv, PushType, ServerType
  <2>2. \A f \in Execs : run'[f] = run[f]
    BY <1>1
  <2> QED
    BY SMT, Z3, <1>1, <1>2, <2>1, <2>2, RunStays
<1> QED
  BY <1>3, <1>4, <1>5, <1>6, <1>7, <1>8 DEF IInv

\* A report ends the task; a success names a rollback on the branch.
LEMMA ReportBackKeeps ==
    ASSUME IInv, UNCHANGED <<server, store, task, run>>, back.pc # "none",
           \/ Report("failed", None)
           \/ /\ Report("succeeded", Tip) /\ Tip \in By("rollback")
    PROVE  IInv'
<1>1. BackType /\ ServerType /\ BranchOK /\ BackOK
  BY DEF IInv, PushType
<1>2. Tip \in Ids /\ OnBranch(Tip)
  BY <1>1, TipFacts
<1>3. BackType' /\ back'.pc = "done" /\ manifest.frozen
  BY Zenon, <1>1, <1>2 DEF BackType, BackRec, Report, BackOK
<1>4. back'.result = "succeeded" =>
         back'.commit \in By("rollback") /\ OnBranch(back'.commit)
  <2>1. back'.result = "succeeded" => back'.commit = Tip /\ Tip \in By("rollback")
    BY Zenon, <1>1 DEF BackType, BackRec, Report
  <2> QED
    BY <1>2, <2>1 DEF OnBranch
<1> QED
  BY <1>3, <1>4, BackKeeps

LEMMA RollbackRunKeeps ==
    ASSUME IInv, RollbackRun
    PROVE  IInv'
<1> DEFINE r == [parent |-> Final, by |-> "rollback", att |-> NoAttempt,
                 tree |-> Tree(Final) \ Entries]
<1>1. BackType /\ ServerType /\ BranchOK /\ BackOK /\ ManifestOK /\ RunType
      /\ Room /\ back.pc = "queued" /\ back.tries < MaxRollbacks
      /\ UNCHANGED <<branch, sent, store, task, run>>
  BY DEF IInv, PushType, RollbackRun
<1>2. CASE Existing /\ Report("succeeded", Tip) /\ UNCHANGED commits
  <2>1. Tip \in By("rollback")
    BY <1>1, <1>2, TipFacts DEF Existing, By
  <2> QED
    BY <1>1, <1>2, <2>1, ReportBackKeeps DEF server
<1>3. CASE Report("failed", None) /\ UNCHANGED commits
  BY <1>1, <1>3, ReportBackKeeps DEF server
<1>4. CASE /\ Tree(Final) \ Entries = Tree(manifest.base)
           /\ commits' = Append(commits, r)
           /\ back' = [back EXCEPT !.pc = "push", !.commit = NextId,
                                   !.tries = @ + 1]
  <2>1. manifest.frozen /\ manifest.entries # <<>> /\ Final \in By("repair")
    BY <1>1, ManifestIds DEF BackOK, ManifestOK
  <2>2. Final \in DOMAIN commits
    BY <2>1 DEF By
  <2>3. NextId \in Ids /\ NextId \in Nat
        /\ Len(commits) \in Nat /\ Len(commits) <= NextId
        /\ Final \in Nat /\ Final < NextId
    BY SMT, Z3, <1>1, <2>2, Numbers DEF ServerType, Room, NextId
  <2> HIDE DEF NextId
  <2>4. Tree(Final) \subseteq Ids /\ Final \in Ids
        /\ \A t \in Tree(Final) : t <= Final /\ t \in Nat
    BY SMT, Z3, <2>2, TreeIds, Numbers
  <2>5. r \in Commits
    BY <2>4 DEF Commits
  <2>6. ASSUME NEW t \in r.tree
        PROVE  t <= NextId
    <3>1. t \in Tree(Final)
      OBVIOUS
    <3>2. t <= Final /\ t \in Nat
      BY <2>4, <3>1, Zenon
    <3>3. Final \in Nat /\ NextId \in Nat /\ Final < NextId
      BY <2>3
    <3> QED
      BY SMT, Z3, <3>2, <3>3
  <2>7. \A h \in By("human") : h \in Tree(r.parent) => h \in r.tree
    <3>1. \A h \in By("human") : h \notin Entries
      BY <1>1 DEF ManifestOK, By
    <3> QED
      BY <3>1
  <2>8. /\ r.parent = Final /\ r.by = "rollback"
        /\ r.tree = Tree(manifest.base)
    BY <1>4
  <2> HIDE DEF r
  <2>9. BackType' /\ back'.pc = "push" /\ back'.commit = NextId
        /\ back'.result = "none"
    <3>1. back.tries + 1 \in 0..MaxRollbacks /\ back.result = "none"
      BY SMT, Z3, <1>1, PushConstants DEF BackType, BackRec, BackOK
    <3> DEFINE k == back.tries + 1
    <3>2. back' = [back EXCEPT !.pc = "push", !.commit = NextId, !.tries = k]
          /\ k \in 0..MaxRollbacks
      BY <1>4, <3>1
    <3> HIDE DEF k
    <3> QED
      BY Zenon, <1>1, <2>3, <3>1, <3>2 DEF BackType, BackRec
  <2>10. /\ Len(commits') = NextId
         /\ \A c \in DOMAIN commits : commits'[c] = commits[c]
    BY <1>1, <1>4, <2>5, Newer
  <2>11. By("repair")' = By("repair")
    <3>1. By("repair")' = By("repair") \cup
                            (IF r.by = "repair" THEN {NextId} ELSE {})
      BY <1>1, <1>4, <2>5, NewerBy
    <3> QED
      BY <2>8, <3>1
  <2>12. RunType' /\ UNCHANGED <<ledger, note, active, manifest, token>>
    BY <1>1 DEF RunType, task, store
  <2>13. \A f \in Execs : RunOK(f)'
    <3>1. \A c : OnBranch(c) => OnBranch(c)'
      BY <1>1 DEF OnBranch
    <3>2. \A f \in Execs : run'[f] = run[f]
      BY <1>1
    <3>3. Len(commits) \in Nat /\ Len(commits') \in Nat
          /\ Len(commits) <= Len(commits')
      BY <2>3, <2>10
    <3>4. By("repair") \subseteq By("repair")'
      BY <2>11
    <3> QED
      BY <2>10, <2>12, <3>1, <3>2, <3>3, <3>4, RunStays
  <2> QED
    BY <1>1, <1>4, <2>1, <2>2, <2>5, <2>6, <2>7, <2>8, <2>9, <2>12, <2>13, Grow
<1> QED
  BY Zenon, <1>2, <1>3, <1>4 DEF RollbackRun, Made

LEMMA RollbackPushKeeps ==
    ASSUME IInv, RollbackPush
    PROVE  IInv'
<1>1. BackType /\ ServerType /\ BackOK /\ RunType /\ EffectType
      /\ back.pc = "push" /\ UNCHANGED <<commits, branch, store, task, run>>
  BY DEF IInv, PushType, RollbackPush
<1>2. CASE Report("failed", None) /\ UNCHANGED sent
  BY <1>1, <1>2, ReportBackKeeps DEF server
<1>3. CASE /\ sent' = sent \cup {back.commit}
           /\ back' = [back EXCEPT !.pc = "confirm"]
  <2>1. back.commit \in By("rollback")
    BY <1>1 DEF BackOK
  <2>2. back.commit \in DOMAIN commits /\ back.commit \notin By("repair")
    BY <2>1 DEF By
  <2>3. BackType' /\ back'.pc = "confirm" /\ back'.commit = back.commit
        /\ back'.result = back.result
    BY <1>1, <1>3 DEF BackType, BackRec
  <2>4. UNCHANGED <<ledger, note, active, manifest, token>>
    BY <1>1 DEF store, task
  <2>5. RunType' /\ EffectType'
    BY <1>1, <2>4 DEF RunType, EffectType, task
  <2>6. By("repair")' = By("repair") /\ By("rollback")' = By("rollback")
        /\ Final' = Final /\ (\A d : Tree(d)' = Tree(d))
        /\ (\A d : OnBranch(d)' <=> OnBranch(d))
    BY <1>1, <2>4 DEF By, Final, Tree, OnBranch
  <2>7. BackOK'
    <3>1. back.result = "none"
      BY <1>1 DEF BackOK, BackType, BackRec
    <3> QED
      BY <1>1, <2>1, <2>3, <2>4, <2>6, <3>1 DEF BackOK, Tree
  <2>8. \A f \in Execs : RunOK(f)'
    <3>1. Len(commits) \in Nat /\ Len(commits') = Len(commits)
          /\ \A d \in DOMAIN commits : commits'[d] = commits[d]
      BY SMT, Z3, <1>1 DEF ServerType
    <3>2. Len(commits') \in Nat /\ Len(commits) <= Len(commits')
      BY SMT, Z3, <3>1
    <3>3. By("repair") \subseteq By("repair")' /\ \A d : OnBranch(d) => OnBranch(d)'
      BY <2>6
    <3>4. UNCHANGED <<ledger, note, manifest, token>>
          /\ \A f \in Execs : run'[f] = run[f]
      BY <1>1, <2>4
    <3> QED
      BY <3>1, <3>2, <3>3, <3>4, RunStays
  <2> QED
    BY <1>1, <1>3, <2>2, <2>3, <2>4, <2>5, <2>7, <2>8, Sends
<1> QED
  BY <1>2, <1>3 DEF RollbackPush

LEMMA RollbackKeeps ==
    ASSUME IInv, RollbackStep
    PROVE  IInv'
<1>1. BackType /\ BackOK
  BY DEF IInv, PushType
<1>2. CASE RequestRollback
  <2>1. BackType' /\ back'.pc = "queued" /\ back'.result = back.result
        /\ manifest.frozen /\ back.pc = "none"
    BY <1>1, <1>2 DEF RequestRollback, BackType, BackRec
  <2>2. back'.result = "none"
    BY <1>1, <2>1 DEF BackOK
  <2> QED
    BY <1>2, <2>1, <2>2, BackKeeps DEF RequestRollback
<1>3. CASE RollbackConfirm
  <2>1. back.commit \in By("rollback") /\ back.pc = "confirm"
    BY <1>1, <1>3 DEF RollbackConfirm, BackOK
  <2> QED
    BY <1>3, <2>1, ReportBackKeeps DEF RollbackConfirm
<1>4. CASE RollbackCrash
  <2>1. BackType' /\ back'.pc = "queued" /\ back'.result = back.result
    BY Zenon, <1>1, <1>4 DEF RollbackCrash, BackType, BackRec
  <2>2. back'.result = "none" /\ manifest.frozen
    BY <1>1, <1>4, <2>1 DEF BackOK, RollbackCrash
  <2> QED
    BY <1>4, <2>1, <2>2, BackKeeps DEF RollbackCrash
<1>5. CASE RollbackFails
  BY <1>5, ReportBackKeeps DEF RollbackFails
<1> QED
  BY <1>2, <1>3, <1>4, <1>5, RollbackRunKeeps, RollbackPushKeeps DEF RollbackStep

\* The lease may go to an execution that has nothing under way.
LEMMA RecoverKeeps ==
    ASSUME IInv, Recover \/ RequestCancel
    PROVE  IInv'
<1>1. UNCHANGED <<server, store, back, ckpt, status>> /\ RunType /\ BackType
      /\ ServerType
  BY DEF Recover, RequestCancel, IInv, PushType
<1>2. UNCHANGED <<ledger, note, active, manifest>>
  BY <1>1 DEF store
<1>3. /\ RunType'
      /\ \A f \in Execs : \/ run'[f] = run[f] /\ (f = token' => f = token)
                          \/ run'[f].pc = "prep" /\ run'[f].mine = run[f].mine
                             /\ run'[f].local = run[f].local
  <2>1. CASE RequestCancel
    BY <1>1, <2>1 DEF RequestCancel, RunType
  <2>2. CASE Recover
    <3>1. token + 1 \in Execs /\ token' = token + 1 /\ Go(token + 1, "prep")
      BY SMT, Z3, <1>1, <2>2, PushConstants DEF Recover, RunType, Execs
    <3>2. /\ run' \in [Execs -> RunRec]
          /\ \A f \in Execs : f # token + 1 => run'[f] = run[f]
          /\ run'[token + 1].pc = "prep"
          /\ run'[token + 1].local = run[token + 1].local
          /\ run'[token + 1].mine = run[token + 1].mine
      BY <1>1, <3>1, Gone DEF PCs
    <3> QED
      BY SMT, Z3, <1>1, <2>2, <3>1, <3>2 DEF RunType, Recover
  <2> QED
    BY <2>1, <2>2
<1>4. By("repair")' = By("repair") /\ Entries' = Entries /\ commits' = commits
      /\ \A d : OnBranch(d)' <=> OnBranch(d)
  BY <1>1, <1>2 DEF By, Entries, OnBranch, server
<1>5. ASSUME NEW f \in Execs
      PROVE  RunOK(f)'
  <2>1. RunOK(f)
    BY DEF IInv
  <2>2. CASE run'[f] = run[f] /\ (f = token' => f = token)
    BY ZenonT(60), <1>2, <1>4, <2>1, <2>2 DEF RunOK, AtBase, AtMine
  <2>3. CASE run'[f].pc = "prep" /\ run'[f].mine = run[f].mine
             /\ run'[f].local = run[f].local
    BY ZenonT(60), <1>2, <1>4, <2>1, <2>3 DEF RunOK
  <2> QED
    BY <1>3, <2>2, <2>3
<1>6. EffectType' /\ ManifestType' /\ BackType' /\ ReportedOnce' /\ GivenUpStays
  BY <1>1, <1>2 DEF IInv, PushType, EffectType, ManifestType, BackType,
     ReportedOnce, GivenUpStays
<1> QED
  BY <1>1, <1>2, <1>3, <1>5, <1>6, Quiet

-----------------------------------------------------------------------------
(* The invariant holds.                                                    *)

LEMMA InitHolds == Init => IInv
<1> SUFFICES ASSUME Init
             PROVE  IInv
  OBVIOUS
<1>1. /\ commits = <<>> /\ branch = <<0>> /\ sent = {} /\ manifest.entries = <<>>
      /\ manifest.frozen = FALSE /\ back.pc = "none" /\ back.result = "none"
      /\ DOMAIN commits = {} /\ Len(commits) = 0
      /\ \A who : By(who) = {}
  BY SMT, Z3 DEF Init, By
<1>2. Len(branch) = 1 /\ DOMAIN branch = 1..1 /\ branch[1] = 0 /\ Tip = 0
  BY SMT, Z3, <1>1 DEF Tip
<1>3. ServerType
  BY SMT, Z3, <1>1, Numbers DEF ServerType
<1>4. EffectType
  BY Numbers DEF Init, EffectType, EffectRec, NoteRec, None
<1>5. ManifestType /\ BackType
  BY SMT, Z3, PushConstants DEF Init, ManifestType, ManifestRec, BackType, BackRec, None
<1>6. RunType
  <2>1. token \in Execs /\ ckpt \in 0..MaxPushes
    BY SMT, Z3, PushConstants DEF Init, Execs
  <2>2. ASSUME NEW e \in Execs
        PROVE  [pc |-> IF e = 1 THEN "prep" ELSE "off", local |-> None,
                mine |-> None, att |-> NoAttempt, seq |-> 0] \in RunRec
    BY SMT, Z3, Numbers DEF RunRec, PCs
  <2> QED
    BY Zenon, <2>1, <2>2 DEF Init, RunType
<1>7. CommitsOK /\ BranchOK /\ HumanWorkSurvives
  BY SMT, Z3, <1>1, <1>2 DEF CommitsOK, BranchOK, HumanWorkSurvives
<1>8. LedgerOK /\ EvidenceFirst
  BY ZenonT(60), <1>1 DEF Init, LedgerOK, EvidenceFirst
<1>9. ASSUME NEW e \in Execs
      PROVE  RunOK(e)
  <2>1. run[e].pc \in {"prep", "off"} /\ run[e].mine = None /\ run[e].local = None
    BY ZenonT(60) DEF Init
  <2> QED
    BY ZenonT(60), <2>1 DEF RunOK
<1>10. ManifestOK
  BY ZenonT(60), <1>1 DEF Init, ManifestOK, Chained, LastLanded, SuccessIsRecorded, Entries
<1>11. BackOK
  BY Zenon, <1>1 DEF BackOK
<1>12. ReportedOnce
  BY SMT, Z3 DEF Init, ReportedOnce
<1> QED
  BY <1>3, <1>4, <1>5, <1>6, <1>7, <1>8, <1>9, <1>10, <1>11, <1>12
  DEF IInv, PushType

LEMMA PushStepKeeps ==
    ASSUME IInv, NEW e \in Execs, PushStep(e)
    PROVE  IInv'
BY PrepareKeeps, CallNewKeeps, CallAgainKeeps, CallRefusedKeeps, ClaimKeeps,
   CheckKeeps, CommitKeeps, PublishKeeps, ResumeKeeps, ConfirmKeeps,
   GitFailsKeeps, AppendEntryKeeps, CompleteKeeps, SaveKeeps DEF PushStep

LEMMA StutterKeeps ==
    ASSUME IInv, UNCHANGED vars
    PROVE  IInv'
<1>1. UNCHANGED <<server, store, task, run>> /\ back' = back
  BY DEF vars, server, store, task
<1>2. BackType' /\ BackOK
  BY <1>1 DEF IInv, PushType, BackType
<1> QED
  BY Zenon, <1>1, <1>2, BackKeeps DEF BackOK

LEMMA NextKeeps == IInv /\ [Next]_vars => IInv'
<1> SUFFICES ASSUME IInv, [Next]_vars
             PROVE  IInv'
  OBVIOUS
<1>1. ASSUME NEW e \in Execs, PushStep(e) \/ ReportStep(e) \/ EndStep(e)
      PROVE  IInv'
  BY <1>1, PushStepKeeps, ReportKeeps, FinishKeeps, ReconcileKeeps DEF EndStep
<1>2. ASSUME NEW c \in sent, Land(c)
      PROVE  IInv'
  BY <1>2, LandKeeps
<1>3. CASE UNCHANGED vars
  BY <1>3, StutterKeeps
<1> QED
  BY <1>1, <1>2, <1>3, RollbackKeeps, HumanKeeps, RecoverKeeps DEF Next

\* The inductive invariant: the branch, the effect records, the manifest and
\* what each execution believes agree in every state.
THEOREM InvariantTheorem == Spec => []IInv
BY InitHolds, NextKeeps, PTL DEF Spec

-----------------------------------------------------------------------------
(* The properties.                                                         *)

\* The values keep their types, and a rollback that succeeded names a commit.
THEOREM TypeTheorem == Spec => []TypeOK
<1>1. IInv => TypeOK
  <2> SUFFICES ASSUME IInv
               PROVE  TypeOK
    OBVIOUS
  <2>1. ServerType /\ EffectType /\ ManifestType /\ RunType /\ BackType /\ BackOK
    BY DEF IInv, PushType
  <2>2. back.result = "succeeded" => back.commit # None
    <3>1. None \notin DOMAIN commits
      BY SMT, Z3, <2>1 DEF ServerType, None
    <3> QED
      BY Zenon, <2>1, <3>1 DEF BackOK, By
  <2> QED
    BY Zenon, <2>1, <2>2 DEF TypeOK, ServerType, EffectType, ManifestType, RunType,
       BackType, EffectRec, NoteRec, ManifestRec, RunRec, BackRec
<1> QED
  BY <1>1, InvariantTheorem, PTL

\* The manifest describes the branch, whatever executions, cancels, people and
\* late pushes do between the steps of the push tool.
THEOREM ManifestTheorem == Spec => []ManifestOnBranch
<1>1. IInv => ManifestOnBranch
  <2> SUFFICES ASSUME IInv, manifest.entries # <<>>
               PROVE  \E i \in DOMAIN branch :
                         /\ branch[i] = manifest.base
                         /\ \A k \in DOMAIN manifest.entries :
                               \/ /\ i + k \in DOMAIN branch
                                  /\ branch[i + k] = manifest.entries[k].commit
                               \/ /\ k = Len(manifest.entries)
                                  /\ ~OnBranch(Final)
                                  /\ ledger[commits[Final].att].res
                                        \in {"blocked", "canceled"}
    BY DEF ManifestOnBranch
  <2> DEFINE n == Len(manifest.entries)
  <2>1. PICK i \in DOMAIN branch : \A k \in DOMAIN manifest.entries :
           /\ i + k - 1 \in DOMAIN branch
           /\ branch[i + k - 1] = ParentAt(k)
           /\ commits[manifest.entries[k].commit].parent = ParentAt(k)
    BY DEF IInv, ManifestOK, Chained
  <2>2. /\ n \in Nat \ {0} /\ DOMAIN manifest.entries = 1..n /\ i \in Nat
        /\ manifest.entries[n].commit = Final
    BY SMT, Z3, TipFacts DEF IInv, PushType, ManifestType, ManifestRec, Final
  <2>3. branch[i] = manifest.base
    <3>1. 1 \in 1..n /\ i + 1 - 1 = i
      BY SMT, Z3, <2>2
    <3> QED
      BY <2>1, <2>2, <3>1 DEF ParentAt
  <2>4. ASSUME NEW k \in 1..n, k # n
        PROVE  i + k \in DOMAIN branch /\ branch[i + k] = manifest.entries[k].commit
    <3>1. k + 1 \in 1..n /\ i + (k + 1) - 1 = i + k /\ k + 1 # 1 /\ k + 1 - 1 = k
      BY SMT, Z3, <2>2, <2>4
    <3>2. ParentAt(k + 1) = manifest.entries[k].commit
      BY SMT, Z3, <3>1 DEF ParentAt
    <3> QED
      BY <2>1, <2>2, <3>1, <3>2
  <2>5. CASE OnBranch(Final)
    <3>1. i + n \in DOMAIN branch /\ branch[i + n] = Final
      BY <2>1, <2>5, Seat
    <3> QED
      BY <2>2, <2>3, <2>4, <3>1
  <2>6. CASE ~OnBranch(Final)
    <3>1. ledger[commits[Final].att].res \in {"blocked", "canceled"}
      BY <2>6 DEF IInv, ManifestOK, LastLanded, GivenUp
    <3> QED
      BY <2>2, <2>3, <2>4, <2>6, <3>1
  <2> QED
    BY <2>5, <2>6
<1> QED
  BY <1>1, InvariantTheorem, PTL

\* A repair's commit on the branch, or on its way, is the one its effect
\* record names.
THEOREM EvidenceTheorem == Spec => []EvidenceFirst
<1>1. IInv => EvidenceFirst
  BY DEF IInv
<1> QED
  BY <1>1, InvariantTheorem, PTL

\* An effect that ended as a pushed commit has it in the manifest.
THEOREM SuccessTheorem == Spec => []SuccessIsRecorded
<1>1. IInv => SuccessIsRecorded
  BY DEF IInv, ManifestOK
<1> QED
  BY <1>1, InvariantTheorem, PTL

\* What people push stays in the head of the branch.
THEOREM HumanTheorem == Spec => []HumanWorkSurvives
<1>1. IInv => HumanWorkSurvives
  BY DEF IInv
<1> QED
  BY <1>1, InvariantTheorem, PTL

\* The report is posted once, but for posts that could not know of it.
THEOREM ReportTheorem == Spec => []ReportedOnce
<1>1. IInv => ReportedOnce
  BY DEF IInv
<1> QED
  BY <1>1, InvariantTheorem, PTL

\* A rollback reported as done is on the branch, once, right after the
\* manifest's last commit.  Two rollback commits cannot both be there: each
\* has that commit as its parent, and the branch holds one child of it.
THEOREM RollbackDoneTheorem == Spec => []RollbackIsDone
<1>1. IInv => RollbackIsDone
  <2> SUFFICES ASSUME IInv, back.result = "succeeded"
               PROVE  /\ {branch[i] : i \in DOMAIN branch} \cap By("rollback")
                            = {back.commit}
                      /\ commits[back.commit].parent = Final
                      /\ Tree(back.commit) = Tree(manifest.base)
    BY DEF RollbackIsDone
  <2>1. ServerType /\ BranchOK /\ BackOK
    BY DEF IInv, PushType
  <2>2. back.commit \in By("rollback") /\ OnBranch(back.commit)
        /\ back.commit \in DOMAIN commits /\ back.commit # 0
    BY SMT, Z3, <2>1 DEF BackOK, By, ServerType
  <2>3. commits[back.commit].parent = Final
        /\ Tree(back.commit) = Tree(manifest.base)
    BY <2>1, <2>2 DEF BackOK, Tree
  <2>4. ASSUME NEW d \in By("rollback"), OnBranch(d)
        PROVE  d = back.commit
    <3>1. d \in DOMAIN commits /\ commits[d].parent = Final
      BY <2>1 DEF By, BackOK
    <3>2. PICK i \in DOMAIN branch :
             i + 1 \in DOMAIN branch /\ branch[i] = Final /\ branch[i + 1] = d
      BY <2>1, <2>4, <3>1, Follows
    <3>3. PICK j \in DOMAIN branch :
             j + 1 \in DOMAIN branch /\ branch[j] = Final
             /\ branch[j + 1] = back.commit
      BY <2>1, <2>2, <2>3, Follows
    <3>4. i = j
      BY <2>1, <3>2, <3>3, Distinct
    <3> QED
      BY <3>2, <3>3, <3>4
  <2>5. {branch[i] : i \in DOMAIN branch} \cap By("rollback") = {back.commit}
    BY SMT, Z3, <2>2, <2>4 DEF OnBranch
  <2> QED
    BY <2>3, <2>5
<1> QED
  BY <1>1, InvariantTheorem, PTL

\* A frozen manifest never changes again.
THEOREM FrozenTheorem == Spec => FrozenForGood
<1>1. IInv /\ [Next]_vars => [manifest.frozen => manifest' = manifest]_vars
  <2> SUFFICES ASSUME IInv, Next, manifest.frozen
               PROVE  manifest' = manifest
    OBVIOUS
  <2>1. manifest \in ManifestRec
    BY DEF IInv, PushType, ManifestType
  <2>2. Freeze = manifest
    BY <2>1 DEF Freeze, ManifestRec
  <2>3. \A entry : ~Accepts(entry)
    BY DEF Accepts
  <2>4. ASSUME NEW e \in Execs, PushStep(e)
        PROVE  manifest' = manifest
    BY Zenon, <2>3, <2>4 DEF PushStep, Prepare, CallNew, CallAgain, CallRefused, Claim,
       CheckRemote, Commit, Publish, Resume, Confirm, GitFails, AppendEntry,
       Complete, Save, Blocked, Raise, store
  <2>5. ASSUME NEW e \in Execs, ReportStep(e)
        PROVE  manifest' = manifest
    BY <2>5 DEF ReportStep, ReportClaim, Find, FindFails, Post, Posted,
       ReportComplete, store
  <2>6. ASSUME NEW e \in Execs, EndStep(e)
        PROVE  manifest' = manifest
    <3>1. active \in Attempts \cup {NoAttempt, Comment}
      BY DEF IInv, PushType, EffectType
    <3>2. CASE Reconcile(e)
      BY Zenon, <2>3, <3>1, <3>2 DEF Reconcile, store
    <3> QED
      BY Zenon, <2>2, <2>6, <3>2 DEF EndStep, Finish, Settle, Kill, ReconcileFails,
         Refreeze, FinalizeCancel, store
  <2>7. CASE RollbackStep
    BY Zenon, <2>7 DEF RollbackStep, RequestRollback, RollbackRun, RollbackPush,
       RollbackConfirm, RollbackFails, RollbackCrash, store
  <2>8. CASE (\E c \in sent : Land(c)) \/ HumanPush \/ RequestCancel \/ Recover
    BY <2>8 DEF Land, HumanPush, RequestCancel, Recover, store
  <2> QED
    BY <2>4, <2>5, <2>6, <2>7, <2>8 DEF Next
<1> QED
  BY <1>1, InvariantTheorem, PTL DEF Spec, FrozenForGood
=============================================================================
