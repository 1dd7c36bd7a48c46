-------------------------- MODULE RepairPush_steps --------------------------
(***************************************************************************)
(* The inductive invariant of RepairPush, for every number of executions,  *)
(* pushes, human commits and rollback attempts, and the steps of an        *)
(* execution that make no commit.  RepairPush_proofs has the other steps   *)
(* and the theorems.                                                       *)
(*                                                                         *)
(* The invariant ties the three records together.  Its heart is RunOK:     *)
(* what an execution at each step may rely on, although every other        *)
(* execution, the server and people act between any two of its steps.      *)
(***************************************************************************)
EXTENDS RepairPush, SequenceTheorems, TLAPS

\* The kinds of values, one name each: TypeOK in parts.
EffectRec == [st : {"none", "started", "completed"}, based : BOOLEAN,
              commit : Ids \cup {None},
              res : {"none", "success", "blocked", "canceled"}]
NoteRec == [st : {"none", "started", "completed"}, count : Nat, blind : Nat]
ManifestRec == [base : Ids \cup {None}, entries : Seq(EntryType),
                frozen : BOOLEAN]
RunRec == [pc : PCs, local : Ids \cup {None}, mine : Ids \cup {None},
           att : Attempts \cup {NoAttempt}, seq : 0..MaxPushes]
BackRec == [pc : {"none", "queued", "push", "confirm", "done"},
            commit : Ids \cup {None}, tries : 0..MaxRollbacks,
            result : {"none", "succeeded", "failed"}]

ServerType ==
    /\ commits \in Seq(Commits)
    /\ Len(commits) <= MaxCommits
    /\ branch \in Seq(Ids)
    /\ branch # <<>>
    /\ sent \subseteq DOMAIN commits

EffectType ==
    /\ ledger \in [Attempts -> EffectRec]
    /\ note \in NoteRec
    /\ active \in Attempts \cup {NoAttempt, Comment}
    /\ \A a \in Attempts : ledger[a].st = "completed" => ledger[a].res # "none"

ManifestType == manifest \in ManifestRec

RunType ==
    /\ token \in Execs
    /\ status \in {"running", "completed", "failed", "canceled"}
    /\ cancel \in BOOLEAN
    /\ ckpt \in 0..MaxPushes
    /\ run \in [Execs -> RunRec]

BackType == back \in BackRec

PushType == ServerType /\ EffectType /\ ManifestType /\ RunType /\ BackType

\* A commit is newer than its parent, a repair's commit sits on its attempt's
\* base, a tree holds no change of a later commit, and no commit drops a
\* person's change that its parent has.
CommitsOK ==
    \A c \in DOMAIN commits :
        /\ commits[c].parent < c
        /\ \A t \in commits[c].tree : t <= c
        /\ commits[c].by = "repair" =>
              commits[c].att \in Attempts /\ commits[c].parent = commits[c].att.base
        /\ commits[c].by = "human" => c \in commits[c].tree
        /\ \A h \in By("human") :
              h \in Tree(commits[c].parent) => h \in commits[c].tree

\* The branch is a chain of commits, each newer than the one before.
BranchOK ==
    /\ branch[1] = 0
    /\ \A i \in DOMAIN branch :
          i > 1 => /\ branch[i] \in DOMAIN commits
                   /\ commits[branch[i]].parent = branch[i - 1]
    /\ \A i, j \in DOMAIN branch : i < j => branch[i] < branch[j]

\* An effect record names a commit made for its own attempt.
LedgerOK ==
    \A a \in Attempts :
        ledger[a].commit # None =>
            /\ ledger[a].commit \in By("repair")
            /\ commits[ledger[a].commit].att = a

\* The workspace is at the attempt's base, or at the commit it made for it.
AtBase(x) == x.att.base = x.local
AtMine(x) == /\ x.mine # None
             /\ x.mine = x.local
             /\ ledger[x.att].commit = x.mine

\* What an execution knows at each of its steps.
RunOK(e) ==
    LET x == run[e]
    IN  /\ x.local # None => x.local <= Len(commits)
        /\ x.mine # None => x.mine = x.local /\ x.mine \in By("repair")
        /\ x.pc \in {"claim", "check", "commit", "publish", "resume",
                     "confirm", "append", "complete"} => x.att \in Attempts
        /\ x.pc \in {"claim", "resume"} => AtBase(x) \/ AtMine(x)
        /\ x.pc = "claim" => OnBranch(x.local)
        /\ x.pc = "resume" => ledger[x.att].commit # None
        /\ x.pc \in {"check", "commit"} => AtBase(x)
        /\ x.pc \in {"check", "commit", "publish"} /\ e = token =>
              ledger[x.att].commit = None
        /\ x.pc = "publish" =>
              x.mine # None /\ commits[x.mine].att = x.att
        /\ x.pc \in {"confirm", "append", "complete"} => AtMine(x)
        /\ x.pc \in {"append", "complete"} => OnBranch(x.mine)
        /\ x.pc = "complete" => x.mine \in Entries
        /\ x.pc = "post" /\ e = token => note.count <= note.blind

\* Every entry is the repair's own and sits on the one before; the commits they
\* sit on follow each other on the branch.
Chained ==
    manifest.entries # <<>> =>
        \E i \in DOMAIN branch : \A k \in DOMAIN manifest.entries :
            /\ i + k - 1 \in DOMAIN branch
            /\ branch[i + k - 1] = ParentAt(k)
            /\ commits[manifest.entries[k].commit].parent = ParentAt(k)

\* The last entry is on the branch too, or its attempt was given up.
GivenUp == {"blocked", "canceled"}
LastLanded ==
    manifest.entries # <<>> =>
        \/ OnBranch(Final)
        \/ /\ ledger[commits[Final].att].commit = Final
           /\ ledger[commits[Final].att].res \in GivenUp

\* Only a manifest with entries is frozen.
ManifestOK ==
    /\ Entries \subseteq By("repair")
    /\ manifest.frozen => manifest.entries # <<>>
    /\ Chained /\ LastLanded
    /\ SuccessIsRecorded

\* Rollback commits exist only once the manifest is frozen, and each of them
\* undoes exactly that manifest.
BackOK ==
    /\ back.pc # "none" => manifest.frozen
    /\ By("rollback") # {} => manifest.frozen
    /\ \A c \in By("rollback") :
          commits[c].parent = Final /\ commits[c].tree = Tree(manifest.base)
    /\ back.pc \in {"push", "confirm"} => back.commit \in By("rollback")
    /\ back.result # "none" => back.pc = "done"
    /\ back.result = "succeeded" =>
          back.commit \in By("rollback") /\ OnBranch(back.commit)

IInv ==
    /\ PushType /\ CommitsOK /\ BranchOK /\ LedgerOK /\ EvidenceFirst
    /\ HumanWorkSurvives
    /\ \A e \in Execs : RunOK(e)
    /\ ManifestOK /\ BackOK /\ ReportedOnce

-----------------------------------------------------------------------------
(* Facts about single states.                                              *)

LEMMA Numbers ==
    /\ MaxCommits \in Nat
    /\ MaxPushes \in Nat
    /\ Ids = 0..MaxCommits
    /\ Execs \subseteq Nat
    /\ None \notin Ids
    /\ NoAttempt \notin Attempts
    /\ Comment \notin Attempts
    /\ Comment # NoAttempt
BY SMT, Z3, PushConstants DEF PushConstants, MaxCommits, Ids, Execs, None, Attempts,
   NoAttempt, Comment

\* The branch head is a commit, or the initial one, and no commit of the
\* branch is newer.
LEMMA TipFacts ==
    ASSUME ServerType, BranchOK
    PROVE  /\ Len(branch) \in Nat \ {0}
           /\ DOMAIN branch = 1..Len(branch)
           /\ \A i \in DOMAIN branch : branch[i] \in Ids
           /\ Tip \in Ids
           /\ Tip # 0 => Tip \in DOMAIN commits
           /\ \A i \in DOMAIN branch : branch[i] <= Tip
           /\ OnBranch(Tip)
<1>1. /\ Len(branch) \in Nat \ {0}
      /\ DOMAIN branch = 1..Len(branch)
      /\ \A i \in DOMAIN branch : branch[i] \in Ids
  BY SMT, Z3 DEF ServerType
<1>2. Len(branch) \in DOMAIN branch
  BY SMT, Z3, <1>1
<1>3. Tip \in Ids /\ OnBranch(Tip)
  BY <1>1, <1>2 DEF Tip, OnBranch
<1>4. Tip # 0 => Tip \in DOMAIN commits
  BY SMT, Z3, <1>1, <1>2 DEF Tip, BranchOK
<1>5. ASSUME NEW i \in DOMAIN branch
      PROVE  branch[i] <= Tip
  <2>1. CASE i = Len(branch)
    BY SMT, Z3, <2>1, <1>3, Numbers DEF Tip
  <2>2. CASE i < Len(branch)
    BY SMT, Z3, <2>2, <1>1, <1>2, <1>3, Numbers DEF Tip, BranchOK
  <2> QED
    BY SMT, Z3, <2>1, <2>2, <1>1
<1> QED
  BY <1>1, <1>3, <1>4, <1>5

-----------------------------------------------------------------------------
(* Steps that leave the server alone.                                      *)

\* What the other executions know stays true when one execution moves, no
\* effect record gets another commit and the manifest loses no entry.
LEMMA Others ==
    ASSUME IInv, NEW e \in Execs, UNCHANGED <<server, token>>,
           \A f \in Execs : f # e => run'[f] = run[f],
           \A a \in Attempts : ledger'[a].commit = ledger[a].commit,
           Entries \subseteq Entries',
           e # token /\ note.count <= note.blind => note'.count <= note'.blind
    PROVE  \A f \in Execs : f # e => RunOK(f)'
<1> SUFFICES ASSUME NEW f \in Execs, f # e
             PROVE  RunOK(f)'
  OBVIOUS
<1> DEFINE x == run[f]
<1>1. run'[f] = x /\ RunOK(f)
  BY DEF IInv
<1>2. By("repair")' = By("repair") /\ Entries \subseteq Entries'
      /\ commits' = commits /\ token' = token
      /\ \A c : OnBranch(c)' <=> OnBranch(c)
  BY DEF By, server, OnBranch
<1>3. x.att \in Attempts => ledger'[x.att].commit = ledger[x.att].commit
  OBVIOUS
<1>4. x.pc = "post" /\ f = token => note'.count <= note'.blind
  BY <1>1 DEF RunOK
<1> QED
  BY <1>1, <1>2, <1>3, <1>4 DEF RunOK, AtBase, AtMine

\* An attempt that was given up stays so, unless its commit did land.
GivenUpStays ==
    \A a \in Attempts : ledger[a].res \in GivenUp =>
        ledger'[a].res \in GivenUp \/ OnBranch(ledger[a].commit)

\* The last entry is a commit of the repair, made for some attempt.
LEMMA FinalFacts ==
    ASSUME IInv, manifest.entries # <<>>
    PROVE  /\ Final \in Entries /\ Final \in DOMAIN commits
           /\ commits[Final].att \in Attempts
<1>1. manifest.entries \in Seq(EntryType) /\ Entries \subseteq By("repair")
  BY DEF IInv, PushType, ManifestType, ManifestRec, ManifestOK
<1>2. Len(manifest.entries) \in DOMAIN manifest.entries
  BY SMT, Z3, <1>1
<1>3. Final \in Entries
  BY <1>2 DEF Entries, Final
<1> QED
  BY <1>1, <1>3 DEF IInv, CommitsOK, By

\* A step that touches only what executions know and how effects ended keeps
\* the invariant.
LEMMA Quiet ==
    ASSUME IInv, UNCHANGED server,
           EffectType', ManifestType', RunType', BackType',
           \A a \in Attempts : ledger'[a].commit = ledger[a].commit,
           GivenUpStays,
           \A a \in Attempts : ledger'[a].res = "success" =>
               ledger[a].res = "success" \/ ledger[a].commit \in Entries,
           manifest' = manifest \/ manifest' = Freeze,
           \/ back' = back
           \/ /\ back.pc = "none" /\ back' = [back EXCEPT !.pc = "queued"]
              /\ manifest'.frozen,
           \A e \in Execs : RunOK(e)',
           ReportedOnce'
    PROVE  IInv'
<1>1. /\ commits' = commits /\ branch' = branch /\ sent' = sent
      /\ Tip' = Tip
      /\ \A who : By(who)' = By(who)
      /\ \A c : Tree(c)' = Tree(c)
      /\ \A c : OnBranch(c)' <=> OnBranch(c)
  BY DEF server, By, Tree, OnBranch, Tip
<1>2. /\ manifest'.entries = manifest.entries
      /\ manifest'.base = manifest.base
      /\ manifest.frozen => manifest'.frozen
      /\ manifest'.frozen => manifest.frozen \/ manifest.entries # <<>>
  BY DEF Freeze, IInv, PushType, ManifestType, ManifestRec
<1>3. Entries' = Entries /\ Final' = Final
  BY SMT, Z3, <1>2 DEF Entries, Final
<1>4. PushType'
  BY <1>1 DEF IInv, PushType, ServerType
<1>5. CommitsOK' /\ BranchOK'
  BY <1>1 DEF IInv, CommitsOK, BranchOK
<1>6. LedgerOK' /\ EvidenceFirst'
  <2>1. LedgerOK'
    BY <1>1 DEF IInv, LedgerOK
  <2>2. ASSUME NEW c \in By("repair")
        PROVE  commits[c].att \in Attempts
    BY <2>2 DEF IInv, CommitsOK, By
  <2> QED
    BY <1>1, <2>1, <2>2 DEF IInv, EvidenceFirst
<1>7. HumanWorkSurvives'
  BY <1>1 DEF IInv, HumanWorkSurvives
<1>8. ManifestOK'
  <2>1. Chained'
    BY SMT, Z3, <1>1, <1>2 DEF IInv, ManifestOK, Chained, ParentAt
  <2>2. LastLanded'
    <3> SUFFICES ASSUME manifest.entries # <<>>, ~OnBranch(Final)
                 PROVE  /\ ledger'[commits[Final].att].commit = Final
                        /\ ledger'[commits[Final].att].res \in GivenUp
      BY <1>1, <1>2, <1>3 DEF LastLanded
    <3>1. commits[Final].att \in Attempts
      BY FinalFacts
    <3>2. /\ ledger[commits[Final].att].commit = Final
          /\ ledger[commits[Final].att].res \in GivenUp
      BY DEF IInv, ManifestOK, LastLanded
    <3> QED
      BY <3>1, <3>2 DEF GivenUpStays
  <2>3. SuccessIsRecorded'
    <3> SUFFICES ASSUME NEW a \in Attempts, ledger'[a].res = "success"
                 PROVE  \E k \in DOMAIN manifest.entries :
                           manifest.entries[k].commit = ledger[a].commit
      BY SMT, Z3, <1>2 DEF SuccessIsRecorded
    <3> QED
      BY DEF IInv, ManifestOK, SuccessIsRecorded, Entries
  <2> QED
    BY <1>1, <1>2, <1>3, <2>1, <2>2, <2>3 DEF IInv, ManifestOK
<1>9. BackOK'
  <2>1. /\ back'.pc # "none" => manifest'.frozen
        /\ back'.pc \in {"push", "confirm"} => back.pc = back'.pc
        /\ back'.result # "none" => back'.pc = "done"
        /\ back'.commit = back.commit /\ back'.result = back.result
    BY <1>2 DEF IInv, BackOK, PushType, BackType, BackRec
  <2> QED
    BY <1>1, <1>2, <1>3, <2>1 DEF IInv, BackOK
<1> QED
  BY <1>4, <1>5, <1>6, <1>7, <1>8, <1>9 DEF IInv

-----------------------------------------------------------------------------
(* The same, for the step of one execution.                                *)

\* Execution e moves; the server, the lease and the others stay.
Moves(e) ==
    /\ UNCHANGED <<server, token>>
    /\ RunType'
    /\ \A f \in Execs : f # e => run'[f] = run[f]

\* Effects are claimed or completed; no record gets another commit, and only
\* a push in the manifest is completed as a success.
EffectsKept(e) ==
    /\ EffectType'
    /\ \A a \in Attempts : ledger'[a].commit = ledger[a].commit
    /\ GivenUpStays
    /\ \A a \in Attempts : ledger'[a].res = "success" =>
          ledger[a].res = "success" \/ ledger[a].commit \in Entries
    /\ e # token /\ note.count <= note.blind => note'.count <= note'.blind
    /\ ReportedOnce'

\* The manifest may be frozen, and a rollback of it admitted.
ManifestKept ==
    /\ manifest' = manifest \/ manifest' = Freeze
    /\ \/ back' = back
       \/ /\ back.pc = "none" /\ back' = [back EXCEPT !.pc = "queued"]
          /\ manifest'.frozen

LEMMA Steady ==
    ASSUME IInv, NEW e \in Execs, Moves(e), EffectsKept(e), ManifestKept, RunOK(e)'
    PROVE  IInv'
<1>1. /\ ManifestType'
      /\ manifest'.entries = manifest.entries
  BY Zenon DEF ManifestKept, IInv, PushType, ManifestType, ManifestRec, Freeze
<1>2. BackType'
  BY DEF ManifestKept, IInv, PushType, BackType, BackRec
<1>3. Entries \subseteq Entries'
  BY <1>1 DEF Entries
<1>4. \A f \in Execs : f # e => RunOK(f)'
  BY <1>3, Others DEF Moves, EffectsKept
<1>5. \A f \in Execs : RunOK(f)'
  BY <1>4
<1>6. manifest' = manifest \/ manifest' = Freeze
  BY DEF ManifestKept
<1>7. \/ back' = back
      \/ /\ back.pc = "none" /\ back' = [back EXCEPT !.pc = "queued"]
         /\ manifest'.frozen
  BY Zenon DEF ManifestKept
<1> QED
  BY <1>1, <1>2, <1>5, <1>6, <1>7, Quiet DEF Moves, EffectsKept

\* At these steps an execution relies on nothing but its own workspace.
IdleSteps == {"off", "prep", "agent", "save", "find", "guess", "posted",
              "settle", "killed", "refreeze"}

LEMMA IdleRun ==
    ASSUME IInv, NEW e \in Execs, Moves(e),
           run'[e].pc \in IdleSteps, run'[e].local = run[e].local,
           run'[e].mine \in {run[e].mine, None}
    PROVE  RunOK(e)'
<1>1. commits' = commits /\ By("repair")' = By("repair")
  BY DEF Moves, server, By
<1>2. RunOK(e)
  BY DEF IInv
<1> QED
  BY <1>1, <1>2 DEF RunOK, IdleSteps

LEMMA Idles ==
    ASSUME IInv, NEW e \in Execs, Moves(e), EffectsKept(e), ManifestKept,
           run'[e].pc \in IdleSteps, run'[e].local = run[e].local,
           run'[e].mine \in {run[e].mine, None}
    PROVE  IInv'
BY IdleRun, Steady

\* Going to another step changes nothing else of an execution.
LEMMA Gone ==
    ASSUME RunType, NEW e \in Execs, NEW pc \in PCs, Go(e, pc)
    PROVE  /\ run' \in [Execs -> RunRec]
           /\ \A f \in Execs : f # e => run'[f] = run[f]
           /\ run'[e].pc = pc
           /\ run'[e].local = run[e].local /\ run'[e].mine = run[e].mine
           /\ run'[e].att = run[e].att /\ run'[e].seq = run[e].seq
BY DEF RunType, RunRec, Go

LEMMA StoreSame ==
    ASSUME IInv, NEW e \in Execs, UNCHANGED <<ledger, note, active>>
    PROVE  EffectsKept(e)
BY DEF IInv, PushType, EffectType, EffectsKept, GivenUpStays, ReportedOnce

LEMMA BackSame ==
    ASSUME UNCHANGED <<manifest, back>>
    PROVE  ManifestKept
BY DEF ManifestKept

LEMMA Completed ==
    ASSUME IInv, NEW e \in Execs, NEW a \in Attempts,
           NEW res \in {"success", "blocked", "canceled"},
           CompleteIt(a, res), UNCHANGED note,
           res = "success" =>
              ledger[a].commit \in Entries /\ OnBranch(ledger[a].commit)
    PROVE  EffectsKept(e)
<1>1. EffectType /\ ReportedOnce
  BY DEF IInv, PushType
<1>2. EffectType'
  BY ZenonT(60), <1>1 DEF EffectType, EffectRec, CompleteIt
<1>3. \A b \in Attempts : ledger'[b].commit = ledger[b].commit
  BY <1>1 DEF EffectType, EffectRec, CompleteIt
<1>4. \A b \in Attempts : ledger'[b].res = "success" =>
          ledger[b].res = "success" \/ ledger[b].commit \in Entries
  BY SMT, Z3, <1>1 DEF EffectType, EffectRec, CompleteIt
<1>5. GivenUpStays
  BY SMT, Z3, <1>1 DEF EffectType, EffectRec, CompleteIt, GivenUpStays, GivenUp
<1> QED
  BY <1>1, <1>2, <1>3, <1>4, <1>5 DEF EffectsKept, ReportedOnce

LEMMA ClaimedIt ==
    ASSUME EffectType, NEW a \in Attempts, ClaimIt(a), UNCHANGED note
    PROVE  /\ EffectType'
           /\ \A b \in Attempts : /\ ledger'[b].commit = ledger[b].commit
                                  /\ ledger'[b].res = ledger[b].res
BY SMT, Z3 DEF EffectType, EffectRec, ClaimIt

\* A tool that raises, and one whose attempt is blocked.
LEMMA Raised ==
    ASSUME IInv, NEW e \in Execs, UNCHANGED server, Raise(e)
    PROVE  IInv'
<1>1. RunType
  BY DEF IInv, PushType
<1>2. Go(e, "agent") /\ UNCHANGED <<store, task, back>>
  BY DEF Raise
<1>3. /\ run' \in [Execs -> RunRec]
      /\ \A f \in Execs : f # e => run'[f] = run[f]
      /\ run'[e].pc = "agent"
      /\ run'[e].local = run[e].local /\ run'[e].mine = run[e].mine
  BY <1>1, <1>2, Gone DEF PCs
<1>4. Moves(e)
  BY <1>1, <1>2, <1>3 DEF Moves, RunType, task
<1>5. EffectsKept(e) /\ ManifestKept
  BY <1>2, StoreSame, BackSame DEF store
<1> QED
  BY <1>3, <1>4, <1>5, Idles DEF IdleSteps

LEMMA HighestType ==
    ASSUME RunType, NEW e \in Execs, run[e].att \in Attempts
    PROVE  Highest(e) \in 0..MaxPushes
<1>1. run[e].att.seq \in 0..MaxPushes
  BY SMT, Z3, Numbers DEF Attempts
<1>2. run[e].seq \in 0..MaxPushes
  BY Zenon DEF RunType, RunRec
<1> QED
  BY Zenon, <1>1, <1>2 DEF Highest

LEMMA Returned ==
    ASSUME RunType, NEW e \in Execs, run[e].att \in Attempts, Returns(e)
    PROVE  /\ run' \in [Execs -> RunRec]
           /\ \A f \in Execs : f # e => run'[f] = run[f]
           /\ run'[e].pc = "save"
           /\ run'[e].local = run[e].local /\ run'[e].mine = run[e].mine
<1>1. Highest(e) \in 0..MaxPushes
  BY Zenon, HighestType
<1> QED
  BY ZenonT(60), <1>1 DEF RunType, RunRec, Returns, PCs

LEMMA BlockedStep ==
    ASSUME IInv, NEW e \in Execs, UNCHANGED server, run[e].att \in Attempts,
           Blocked(e)
    PROVE  IInv'
<1>1. CASE ~Fenced(e)
  BY <1>1, Raised DEF Blocked
<1>2. CASE Fenced(e)
  <2>1. /\ CompleteIt(run[e].att, "blocked") /\ Returns(e)
        /\ UNCHANGED <<note, manifest, task, back>>
    BY <1>2 DEF Blocked
  <2>2. RunType
    BY DEF IInv, PushType
  <2>3. /\ run' \in [Execs -> RunRec]
        /\ \A f \in Execs : f # e => run'[f] = run[f]
        /\ run'[e].pc = "save"
        /\ run'[e].local = run[e].local /\ run'[e].mine = run[e].mine
    BY <2>1, <2>2, Returned
  <2>4. Moves(e)
    BY <2>1, <2>2, <2>3 DEF Moves, RunType, task
  <2>5. EffectsKept(e)
    BY <2>1, Completed
  <2>6. ManifestKept
    BY <2>1, BackSame
  <2> QED
    BY <2>3, <2>4, <2>5, <2>6, Idles DEF IdleSteps
<1> QED
  BY <1>1, <1>2

-----------------------------------------------------------------------------
(* The push tool, up to the commit.                                        *)

LEMMA PrepareKeeps ==
    ASSUME IInv, NEW e \in Execs, Prepare(e)
    PROVE  IInv'
<1>1. ServerType /\ BranchOK /\ RunType
  BY DEF IInv, PushType
<1>2. Tip \in Ids /\ Tip <= Len(commits)
  BY SMT, Z3, <1>1, TipFacts, Numbers DEF ServerType
<1>3. /\ run' \in [Execs -> RunRec]
      /\ \A f \in Execs : f # e => run'[f] = run[f]
      /\ run'[e].pc = "agent" /\ run'[e].local = Tip /\ run'[e].mine = None
  <2> DEFINE y == [run[e] EXCEPT !.pc = "agent", !.local = Tip, !.mine = None,
                                 !.seq = ckpt]
  <2>1. run \in [Execs -> RunRec] /\ ckpt \in 0..MaxPushes
    BY <1>1 DEF RunType
  <2>2. run' = [run EXCEPT ![e] = y]
    BY Zenon, <2>1 DEF Prepare
  <2>3. y \in RunRec /\ y.pc = "agent" /\ y.local = Tip /\ y.mine = None
    BY Zenon, <1>2, <2>1 DEF RunRec, PCs
  <2>4. run' \in [Execs -> RunRec] /\ run'[e] = y
        /\ \A f \in Execs : f # e => run'[f] = run[f]
    BY <2>1, <2>2, <2>3
  <2> QED
    BY <2>3, <2>4
<1>4. Moves(e) /\ commits' = commits
  BY <1>1, <1>3 DEF Prepare, Moves, RunType, task, server
<1>5. EffectsKept(e) /\ ManifestKept
  BY StoreSame, BackSame DEF Prepare, store
<1>6. RunOK(e)'
  BY <1>2, <1>3, <1>4 DEF RunOK
<1> QED
  BY <1>4, <1>5, <1>6, Steady

LEMMA CallNewKeeps ==
    ASSUME IInv, NEW e \in Execs, NEW d \in Diffs, CallNew(e, d)
    PROVE  IInv'
<1>1. ServerType /\ BranchOK /\ RunType /\ RunOK(e)
  BY DEF IInv, PushType
<1>2. Tip \in Ids /\ OnBranch(Tip)
  BY <1>1, TipFacts
<1> DEFINE a == [seq |-> run[e].seq + 1, base |-> Tip, diff |-> d]
<1>3. a \in Attempts
  BY SMT, Z3, <1>1, <1>2, Numbers DEF Attempts, CallNew, RunType, RunRec
<1>4. /\ run' \in [Execs -> RunRec]
      /\ \A f \in Execs : f # e => run'[f] = run[f]
      /\ run'[e].pc = "claim" /\ run'[e].local = run[e].local
      /\ run'[e].mine = run[e].mine /\ run'[e].att = a
  BY ZenonT(60), <1>1, <1>3 DEF CallNew, RunType, RunRec, PCs
<1>5. Moves(e) /\ commits' = commits /\ By("repair")' = By("repair")
      /\ \A c : OnBranch(c)' <=> OnBranch(c)
  BY <1>1, <1>4 DEF CallNew, Moves, RunType, task, server, By, OnBranch
<1>6. EffectsKept(e) /\ ManifestKept
  BY StoreSame, BackSame DEF CallNew, store
<1>7. run[e].local = Tip /\ a.base = Tip
  BY DEF CallNew
<1>8. RunOK(e)'
  BY <1>1, <1>2, <1>3, <1>4, <1>5, <1>7 DEF RunOK, AtBase
<1> QED
  BY <1>5, <1>6, <1>8, Steady

LEMMA CallRefusedKeeps ==
    ASSUME IInv, NEW e \in Execs, CallRefused(e)
    PROVE  IInv'
<1>1. RunType /\ run[e].seq + 1 \in 0..MaxPushes
  BY SMT, Z3, Numbers DEF IInv, PushType, RunType, RunRec, CallRefused
<1>2. /\ run' \in [Execs -> RunRec]
      /\ \A f \in Execs : f # e => run'[f] = run[f]
      /\ run'[e].pc = "save"
      /\ run'[e].local = run[e].local /\ run'[e].mine = run[e].mine
  <2> DEFINE y == [run[e] EXCEPT !.pc = "save", !.seq = run[e].seq + 1]
  <2>1. run \in [Execs -> RunRec]
    BY <1>1 DEF RunType
  <2>2. run' = [run EXCEPT ![e] = y]
    BY Zenon, <2>1 DEF CallRefused
  <2>3. y \in RunRec /\ y.pc = "save" /\ y.local = run[e].local
        /\ y.mine = run[e].mine
    BY Zenon, <1>1, <2>1 DEF RunRec, PCs
  <2> QED
    BY <2>1, <2>2, <2>3
<1>3. Moves(e)
  BY <1>1, <1>2 DEF CallRefused, Moves, RunType, task
<1>4. EffectsKept(e) /\ ManifestKept
  BY StoreSame, BackSame DEF CallRefused, store
<1> QED
  BY <1>2, <1>3, <1>4, Idles DEF IdleSteps

LEMMA CallAgainKeeps ==
    ASSUME IInv, NEW e \in Execs, CallAgain(e)
    PROVE  IInv'
<1>1. ServerType /\ BranchOK /\ RunType /\ RunOK(e) /\ CommitsOK
      /\ EvidenceFirst
  BY DEF IInv, PushType
<1>2. Tip \in Ids /\ OnBranch(Tip) /\ Tip # None
  BY <1>1, TipFacts, Numbers
<1>3. run[e].mine = Tip /\ run[e].local = Tip
  BY DEF CallAgain
<1>4. Tip \in By("repair")
  BY Zenon, <1>1, <1>2, <1>3 DEF RunOK
<1> DEFINE a == commits[Tip].att
<1>5. a \in Attempts /\ ledger[a].commit = Tip
  BY <1>1, <1>2, <1>4 DEF CommitsOK, By, EvidenceFirst
<1>6. /\ run' \in [Execs -> RunRec]
      /\ \A f \in Execs : f # e => run'[f] = run[f]
      /\ run'[e].pc = "claim" /\ run'[e].local = run[e].local
      /\ run'[e].mine = run[e].mine /\ run'[e].att = a
  BY ZenonT(60), <1>1, <1>5 DEF CallAgain, RunType, RunRec, PCs
<1>7. Moves(e) /\ commits' = commits /\ By("repair")' = By("repair")
      /\ ledger' = ledger /\ \A c : OnBranch(c)' <=> OnBranch(c)
  BY <1>1, <1>6 DEF CallAgain, Moves, RunType, task, server, store, By, OnBranch
<1>8. EffectsKept(e) /\ ManifestKept
  BY StoreSame, BackSame DEF CallAgain, store
<1>9. RunOK(e)'
  BY Zenon, <1>1, <1>2, <1>3, <1>5, <1>6, <1>7 DEF RunOK, AtMine
<1> QED
  BY <1>7, <1>8, <1>9, Steady

\* An append whose commit the manifest has already changes nothing.
LEMMA AppendAgain ==
    ASSUME NEW entry, Accepts(entry), entry.commit \in Entries
    PROVE  Appended(entry) = manifest
<1>1. ~Continues(entry)
  BY DEF Continues, Entries
<1> QED
  BY <1>1 DEF Accepts, Appended

LEMMA CheckKeeps ==
    ASSUME IInv, NEW e \in Execs, CheckRemote(e)
    PROVE  IInv'
<1> DEFINE a == run[e].att
<1>1. RunType /\ RunOK(e) /\ EffectType /\ ReportedOnce
  BY DEF IInv, PushType
<1>2. a \in Attempts /\ UNCHANGED server
  BY <1>1 DEF CheckRemote, Step, RunOK
<1>3. CASE Tip # a.base
  BY <1>2, <1>3, BlockedStep DEF CheckRemote
<1>4. CASE Tip = a.base /\ ~Allowed(e)
  BY <1>2, <1>4, Raised DEF CheckRemote
<1>5. CASE Tip = a.base /\ Allowed(e)
  <2>1. /\ ledger' = [ledger EXCEPT ![a].based = TRUE]
        /\ Go(e, "commit") /\ UNCHANGED <<note, active, manifest, task, back>>
    BY <1>5 DEF CheckRemote
  <2>2. /\ run' \in [Execs -> RunRec]
        /\ \A f \in Execs : f # e => run'[f] = run[f]
        /\ run'[e].pc = "commit"
        /\ run'[e].local = run[e].local /\ run'[e].mine = run[e].mine
        /\ run'[e].att = a
    BY <1>1, <2>1, Gone DEF PCs
  <2>3. /\ EffectType'
        /\ \A b \in Attempts : /\ ledger'[b].commit = ledger[b].commit
                               /\ ledger'[b].res = ledger[b].res
    BY ZenonT(60), <1>1, <1>2, <2>1 DEF EffectType, EffectRec
  <2>4. EffectsKept(e) /\ ManifestKept
    BY <1>1, <2>1, <2>3, BackSame DEF EffectsKept, GivenUpStays, ReportedOnce
  <2>5. Moves(e) /\ commits' = commits /\ By("repair")' = By("repair")
        /\ token' = token
    BY <1>1, <1>2, <2>1, <2>2 DEF Moves, RunType, task, server, By
  <2>6. AtBase(run[e]) /\ ledger'[a].commit = ledger[a].commit
        /\ (e = token => ledger[a].commit = None)
    BY <1>1, <1>2, <2>3 DEF CheckRemote, Step, RunOK
  <2>7. RunOK(e)'
    BY Zenon, <1>1, <1>2, <2>2, <2>5, <2>6 DEF RunOK, AtBase
  <2> QED
    BY <2>4, <2>5, <2>7, Steady
<1> QED
  BY <1>3, <1>4, <1>5

\* An execution at confirm, append or complete that goes on to append.
LEMMA ToAppend ==
    ASSUME IInv, NEW e \in Execs, run[e].att \in Attempts, AtMine(run[e]),
           OnBranch(run[e].mine), Go(e, "append"),
           UNCHANGED <<server, store, task, back>>
    PROVE  IInv'
<1>1. RunType /\ RunOK(e)
  BY DEF IInv, PushType
<1>2. /\ run' \in [Execs -> RunRec]
      /\ \A f \in Execs : f # e => run'[f] = run[f]
      /\ run'[e].pc = "append"
      /\ run'[e].local = run[e].local /\ run'[e].mine = run[e].mine
      /\ run'[e].att = run[e].att
  BY Zenon, <1>1, Gone DEF PCs
<1>3. Moves(e) /\ commits' = commits /\ By("repair")' = By("repair")
      /\ ledger' = ledger /\ \A c : OnBranch(c)' <=> OnBranch(c)
  BY <1>1, <1>2 DEF Moves, RunType, task, server, store, By, OnBranch
<1>4. EffectsKept(e) /\ ManifestKept
  BY StoreSame, BackSame DEF store
<1>5. RunOK(e)'
  BY Zenon, <1>1, <1>2, <1>3 DEF RunOK, AtMine
<1> QED
  BY <1>3, <1>4, <1>5, Steady

LEMMA ReturnsKeeps ==
    ASSUME IInv, NEW e \in Execs, run[e].att \in Attempts, Returns(e),
           UNCHANGED <<server, store, task, back>>
    PROVE  IInv'
<1>1. RunType
  BY DEF IInv, PushType
<1>2. /\ run' \in [Execs -> RunRec]
      /\ \A f \in Execs : f # e => run'[f] = run[f]
      /\ run'[e].pc = "save"
      /\ run'[e].local = run[e].local /\ run'[e].mine = run[e].mine
  BY <1>1, Returned
<1>3. Moves(e)
  BY <1>1, <1>2 DEF Moves, RunType, task
<1>4. EffectsKept(e) /\ ManifestKept
  BY StoreSame, BackSame DEF store
<1> QED
  BY <1>2, <1>3, <1>4, Idles DEF IdleSteps

LEMMA ConfirmKeeps ==
    ASSUME IInv, NEW e \in Execs, Confirm(e)
    PROVE  IInv'
<1>1. RunOK(e) /\ Step(e, "confirm") /\ UNCHANGED server
  BY DEF IInv, Confirm, server
<1>2. run[e].att \in Attempts /\ AtMine(run[e])
  BY <1>1 DEF Step, RunOK
<1>3. OnBranch(Tip)
  BY TipFacts DEF IInv, PushType
<1>4. CASE Tip = run[e].mine
  <2>1. Go(e, "append") /\ UNCHANGED <<store, task, back>>
    BY <1>4 DEF Confirm
  <2> QED
    BY <1>1, <1>2, <1>3, <1>4, <2>1, ToAppend
<1>5. CASE Tip # run[e].mine /\ Tip # run[e].att.base
  BY Zenon, <1>1, <1>2, <1>5, BlockedStep DEF Confirm
<1>6. CASE Tip # run[e].mine /\ Tip = run[e].att.base
  <2>1. Returns(e) /\ UNCHANGED <<store, task, back>>
    BY <1>6 DEF Confirm
  <2> QED
    BY <1>1, <1>2, <2>1, ReturnsKeeps
<1> QED
  BY <1>4, <1>5, <1>6

LEMMA GitFailsKeeps ==
    ASSUME IInv, NEW e \in Execs, GitFails(e)
    PROVE  IInv'
<1>1. run[e].att \in Attempts
  BY Zenon DEF IInv, GitFails, RunOK
<1> QED
  BY <1>1, ReturnsKeeps DEF GitFails

LEMMA CompleteKeeps ==
    ASSUME IInv, NEW e \in Execs, Complete(e)
    PROVE  IInv'
<1> DEFINE a == run[e].att
<1>1. RunType /\ RunOK(e) /\ UNCHANGED server
  BY DEF IInv, PushType, Complete
<1>2. a \in Attempts /\ ledger[a].commit \in Entries
      /\ OnBranch(ledger[a].commit)
  BY <1>1 DEF Complete, Step, RunOK, AtMine
<1>3. CASE ~Fenced(e)
  BY <1>1, <1>3, Raised DEF Complete
<1>4. CASE Fenced(e)
  <2>1. /\ CompleteIt(a, "success")
        /\ run' = [run EXCEPT ![e].pc = "save", ![e].mine = None,
                              ![e].seq = Highest(e)]
        /\ UNCHANGED <<note, manifest, task, back>>
    BY <1>4 DEF Complete
  <2>2. Highest(e) \in 0..MaxPushes
    BY Zenon, <1>1, <1>2, HighestType
  <2>3. /\ run' \in [Execs -> RunRec]
        /\ \A f \in Execs : f # e => run'[f] = run[f]
        /\ run'[e].pc = "save" /\ run'[e].local = run[e].local
        /\ run'[e].mine = None
    <3> DEFINE y == [run[e] EXCEPT !.pc = "save", !.mine = None,
                               !.seq = Highest(e)]
    <3>1. run \in [Execs -> RunRec]
      BY <1>1 DEF RunType
    <3>2. run' = [run EXCEPT ![e] = y]
      BY Zenon, <2>1, <3>1
    <3>3. y \in RunRec /\ y.pc = "save" /\ y.local = run[e].local
          /\ y.mine = None
      BY Zenon, <2>2, <3>1 DEF RunRec, PCs
    <3> QED
      BY <3>1, <3>2, <3>3
  <2>4. Moves(e)
    BY <1>1, <2>1, <2>3 DEF Moves, RunType, task
  <2>5. EffectsKept(e) /\ ManifestKept
    BY <1>2, <2>1, Completed, BackSame
  <2> QED
    BY <2>3, <2>4, <2>5, Idles DEF IdleSteps
<1> QED
  BY <1>3, <1>4

-----------------------------------------------------------------------------
(* The report, and the end of an execution.                                *)

\* An execution goes to a step at which it relies on nothing.
LEMMA GoIdle ==
    ASSUME IInv, NEW e \in Execs, NEW pc \in IdleSteps, Go(e, pc),
           UNCHANGED <<server, token, cancel>>, ckpt' \in 0..MaxPushes,
           status' \in {"running", "completed", "failed", "canceled"},
           EffectsKept(e), ManifestKept
    PROVE  IInv'
<1>1. RunType /\ pc \in PCs
  BY DEF IInv, PushType, IdleSteps, PCs
<1>2. /\ run' \in [Execs -> RunRec]
      /\ \A f \in Execs : f # e => run'[f] = run[f]
      /\ run'[e].pc = pc
      /\ run'[e].local = run[e].local /\ run'[e].mine = run[e].mine
  BY <1>1, Gone
<1>3. Moves(e)
  BY <1>1, <1>2 DEF Moves, RunType
<1> QED
  BY <1>2, <1>3, Idles

LEMMA TaskSame ==
    ASSUME IInv, UNCHANGED task
    PROVE  /\ UNCHANGED <<token, cancel>> /\ ckpt' \in 0..MaxPushes
           /\ status' \in {"running", "completed", "failed", "canceled"}
BY DEF IInv, PushType, RunType, task

LEMMA SaveKeeps ==
    ASSUME IInv, NEW e \in Execs, Save(e)
    PROVE  IInv'
<1>1. run[e].seq \in 0..MaxPushes /\ status' \in {"running", "completed", "failed", "canceled"}
  BY DEF IInv, PushType, RunType, RunRec, Save
<1>2. EffectsKept(e) /\ ManifestKept
  BY StoreSame, BackSame DEF Save, store
<1> QED
  BY <1>1, <1>2, GoIdle DEF Save, IdleSteps

\* Any record of the report may be claimed or completed.
LEMMA NoteKeeps ==
    ASSUME IInv, NEW e \in Execs, NEW st \in {"started", "completed"},
           note' = [note EXCEPT !.st = st], UNCHANGED ledger,
           active' \in {active, NoAttempt, Comment}
    PROVE  EffectsKept(e)
<1>1. EffectType'
  BY DEF IInv, PushType, EffectType, NoteRec
<1>2. note'.count = note.count /\ note'.blind = note.blind
  BY DEF IInv, PushType, EffectType, NoteRec
<1> QED
  BY <1>1, <1>2 DEF EffectsKept, GivenUpStays, IInv, ReportedOnce

LEMMA ReportCompleteKeeps ==
    ASSUME IInv, NEW e \in Execs, ReportComplete(e, "agent")
    PROVE  IInv'
<1>1. EffectsKept(e)
  <2>1. CASE Fenced(e)
    BY <2>1, NoteKeeps DEF ReportComplete
  <2>2. CASE ~Fenced(e)
    BY <2>2, StoreSame DEF ReportComplete
  <2> QED
    BY <2>1, <2>2
<1>2. ManifestKept /\ UNCHANGED <<server, task>> /\ Go(e, "agent")
  BY BackSame DEF ReportComplete
<1> QED
  BY <1>1, <1>2, TaskSame, GoIdle DEF IdleSteps

LEMMA NoteBump ==
    ASSUME note \in NoteRec, NEW b \in Nat,
           note' = [note EXCEPT !.count = @ + 1, !.blind = b]
    PROVE  note' \in NoteRec /\ note'.count = note.count + 1 /\ note'.blind = b
<1>1. note.count + 1 \in Nat /\ note.st \in {"none", "started", "completed"}
  BY SMT, Z3 DEF NoteRec
<1> DEFINE k == note.count + 1
<1>2. note' = [note EXCEPT !.count = k, !.blind = b] /\ k \in Nat
  BY <1>1
<1> HIDE DEF k
<1>3. note'.count = k /\ note'.blind = b /\ note' \in NoteRec
  BY Zenon, <1>2 DEF NoteRec
<1> QED
  BY <1>3 DEF k

LEMMA PostKeeps ==
    ASSUME IInv, NEW e \in Execs, Post(e)
    PROVE  IInv'
<1>1. note \in NoteRec /\ EffectType /\ ReportedOnce /\ RunOK(e)
  BY DEF IInv, PushType, EffectType
<1> DEFINE late == Step(e, "guess") \/ ~Fenced(e)
<1>2. /\ note' \in NoteRec
      /\ note'.count = note.count + 1
      /\ late => note'.blind = note.blind + 1
      /\ ~late => note'.blind = note.blind
  <2>1. PICK b \in Nat : /\ note' = [note EXCEPT !.count = @ + 1, !.blind = b]
                         /\ late => b = note.blind + 1
                         /\ ~late => b = note.blind
    <3>1. note.blind \in Nat /\ note.blind + 1 \in Nat
      BY SMT, Z3, <1>1 DEF NoteRec
    <3> QED
      BY Zenon, <3>1 DEF Post
  <2>2. note' \in NoteRec /\ note'.count = note.count + 1 /\ note'.blind = b
    BY Zenon, <1>1, <2>1, NoteBump
  <2> QED
    BY <2>1, <2>2
<1>3. ~late => note.count <= note.blind
  BY <1>1 DEF Post, Step, Fenced, RunOK
<1>4. note.count \in Nat /\ note.blind \in Nat
  BY <1>1 DEF NoteRec
<1>5. ReportedOnce'
  <2>1. note'.count <= 1 + note'.blind
    <3>1. CASE late
      BY SMT, Z3, <1>1, <1>2, <1>4, <3>1 DEF ReportedOnce
    <3>2. CASE ~late
      BY SMT, Z3, <1>2, <1>3, <1>4, <3>2
    <3> QED
      BY <3>1, <3>2
  <2> QED
    BY <2>1 DEF ReportedOnce
<1>6. e # token /\ note.count <= note.blind => note'.count <= note'.blind
  BY SMT, Z3, <1>2, <1>4 DEF Fenced
<1>7. EffectType' /\ UNCHANGED ledger
  BY <1>1, <1>2 DEF Post, EffectType
<1>8. EffectsKept(e) /\ ManifestKept
  BY <1>5, <1>6, <1>7, BackSame DEF Post, EffectsKept, GivenUpStays
<1> QED
  BY <1>8, TaskSame, GoIdle DEF Post, IdleSteps

LEMMA FindKeeps ==
    ASSUME IInv, NEW e \in Execs, Find(e)
    PROVE  IInv'
<1>1. CASE note.count > 0
  BY <1>1, ReportCompleteKeeps DEF Find
<1>2. CASE ~(note.count > 0)
  <2>1. Go(e, "post") /\ UNCHANGED <<server, store, task, back>>
    BY <1>2 DEF Find
  <2>2. RunType /\ RunOK(e) /\ note \in NoteRec
    BY DEF IInv, PushType, EffectType
  <2>3. /\ run' \in [Execs -> RunRec]
        /\ \A f \in Execs : f # e => run'[f] = run[f]
        /\ run'[e].pc = "post"
        /\ run'[e].local = run[e].local /\ run'[e].mine = run[e].mine
    BY <2>1, <2>2, Gone DEF PCs
  <2>4. Moves(e) /\ commits' = commits /\ By("repair")' = By("repair")
    BY <2>1, <2>2, <2>3 DEF Moves, RunType, task, server, By
  <2>5. EffectsKept(e) /\ ManifestKept
    BY <2>1, StoreSame, BackSame DEF store
  <2>6. note'.count <= note'.blind
    BY SMT, Z3, <1>2, <2>1, <2>2 DEF NoteRec, store
  <2>7. RunOK(e)'
    BY Zenon, <2>2, <2>3, <2>4, <2>6 DEF RunOK
  <2> QED
    BY <2>4, <2>5, <2>7, Steady
<1> QED
  BY <1>1, <1>2

LEMMA ReportKeeps ==
    ASSUME IInv, NEW e \in Execs, ReportStep(e)
    PROVE  IInv'
<1>1. CASE ReportClaim(e)
  <2>1. EffectsKept(e) /\ ManifestKept
    BY <1>1, NoteKeeps, BackSame DEF ReportClaim
  <2> QED
    BY <1>1, <2>1, TaskSame, GoIdle DEF ReportClaim, IdleSteps
<1>2. CASE FindFails(e)
  <2>1. EffectsKept(e) /\ ManifestKept
    BY <1>2, StoreSame, BackSame DEF FindFails, store
  <2> QED
    BY <1>2, <2>1, TaskSame, GoIdle DEF FindFails, IdleSteps
<1> QED
  BY <1>1, <1>2, FindKeeps, PostKeeps, ReportCompleteKeeps
     DEF ReportStep, Posted

\* A cancel that is finalised freezes the manifest and admits its rollback.
LEMMA FinalizeKeeps ==
    ASSUME IInv, FinalizeCancel
    PROVE  ManifestKept /\ status' = "canceled"
<1>1. manifest.entries # <<>> => Freeze.frozen
  BY Zenon DEF Freeze, IInv, PushType, ManifestType, ManifestRec
<1> QED
  BY <1>1 DEF FinalizeCancel, ManifestKept

LEMMA FinishKeeps ==
    ASSUME IInv, NEW e \in Execs,
           Finish(e) \/ Settle(e) \/ Kill(e) \/ ReconcileFails(e) \/ Refreeze(e)
    PROVE  IInv'
<1>1. /\ UNCHANGED <<ledger, note, active>> /\ UNCHANGED <<server, token, cancel>>
      /\ ckpt' = ckpt
  BY Zenon DEF Finish, Settle, Kill, ReconcileFails, Refreeze, store, task
<1>2. EffectsKept(e) /\ RunType
  BY <1>1, StoreSame DEF IInv, PushType
<1>3. \E pc \in IdleSteps : Go(e, pc)
  BY Zenon DEF Finish, Settle, Kill, ReconcileFails, MarkFailed, Refreeze, IdleSteps
<1>4. ManifestKept /\ status' \in {"running", "completed", "failed", "canceled"}
  <2>1. CASE FinalizeCancel
    BY <2>1, FinalizeKeeps
  <2>2. CASE manifest' \in {manifest, Freeze} /\ UNCHANGED back
             /\ status' \in {status, "completed", "failed"}
    BY <1>2, <2>2 DEF ManifestKept, RunType
  <2>3. FinalizeCancel \/ (manifest' \in {manifest, Freeze} /\ UNCHANGED back
                           /\ status' \in {status, "completed", "failed"})
    BY Zenon DEF Finish, Settle, Kill, ReconcileFails, MarkFailed, Refreeze, store,
       task
  <2> QED
    BY <2>1, <2>2, <2>3
<1> QED
  BY <1>1, <1>2, <1>3, <1>4, GoIdle DEF RunType

-----------------------------------------------------------------------------
(* Appending to the manifest.                                              *)

\* A commit of the repair that is on the branch comes right after its parent.
LEMMA Follows ==
    ASSUME ServerType, BranchOK, NEW c \in DOMAIN commits, OnBranch(c)
    PROVE  \E i \in DOMAIN branch :
              i + 1 \in DOMAIN branch /\ branch[i] = commits[c].parent
              /\ branch[i + 1] = c
<1>1. PICK j \in DOMAIN branch : branch[j] = c
  BY DEF OnBranch
<1>2. c # 0 /\ j \in 1..Len(branch) /\ DOMAIN branch = 1..Len(branch)
      /\ Len(branch) \in Nat
  BY SMT, Z3, <1>1, TipFacts DEF ServerType
<1>3. j # 1
  BY <1>1, <1>2 DEF BranchOK
<1>4. j - 1 \in DOMAIN branch /\ j - 1 + 1 = j /\ branch[j - 1] = commits[c].parent
  BY SMT, Z3, <1>1, <1>2, <1>3 DEF BranchOK
<1> QED
  BY <1>1, <1>4

\* The places of the branch hold different commits.
LEMMA Distinct ==
    ASSUME ServerType, BranchOK, NEW i \in DOMAIN branch,
           NEW j \in DOMAIN branch, branch[i] = branch[j]
    PROVE  i = j
<1>1. branch[i] \in Nat /\ i \in Nat /\ j \in Nat
  BY SMT, Z3, TipFacts, Numbers
<1>2. ~(i < j) /\ ~(j < i)
  BY SMT, Z3, <1>1 DEF BranchOK
<1> QED
  BY SMT, Z3, <1>1, <1>2

LEMMA Grown ==
    ASSUME manifest \in ManifestRec, NEW b \in Ids \cup {None},
           NEW entry \in EntryType,
           manifest' = [manifest EXCEPT !.base = b, !.entries = Append(@, entry)]
    PROVE  /\ manifest' \in ManifestRec
           /\ manifest'.entries = Append(manifest.entries, entry)
           /\ manifest'.frozen = manifest.frozen
           /\ manifest'.base = b
<1>1. manifest.entries \in Seq(EntryType) /\ manifest.frozen \in BOOLEAN
  BY DEF ManifestRec
<1>2. Append(manifest.entries, entry) \in Seq(EntryType)
  BY SMT, Z3, <1>1
<1>3. /\ manifest'.entries = Append(manifest.entries, entry)
      /\ manifest'.frozen = manifest.frozen
      /\ manifest'.base = b
  BY DEF ManifestRec
<1> QED
  BY Zenon, <1>1, <1>2, <1>3 DEF ManifestRec

\* The last entry's place on the branch, when it is there.
LEMMA Seat ==
    ASSUME IInv, NEW i \in DOMAIN branch, manifest.entries # <<>>,
           \A k \in DOMAIN manifest.entries :
              /\ i + k - 1 \in DOMAIN branch
              /\ branch[i + k - 1] = ParentAt(k)
              /\ commits[manifest.entries[k].commit].parent = ParentAt(k),
           OnBranch(Final)
    PROVE  /\ i + Len(manifest.entries) \in DOMAIN branch
           /\ branch[i + Len(manifest.entries)] = Final
<1> DEFINE n == Len(manifest.entries)
<1>1. ServerType /\ BranchOK /\ Final \in DOMAIN commits
  BY FinalFacts DEF IInv, PushType
<1>2. n \in Nat /\ n \in DOMAIN manifest.entries /\ i \in Nat
  BY SMT, Z3, <1>1, TipFacts DEF IInv, PushType, ManifestType, ManifestRec
<1>3. PICK j \in DOMAIN branch :
         j + 1 \in DOMAIN branch /\ branch[j] = commits[Final].parent
         /\ branch[j + 1] = Final
  BY <1>1, Follows
<1>4. i + n - 1 \in DOMAIN branch /\ branch[i + n - 1] = branch[j]
  BY <1>2, <1>3 DEF Final
<1>5. j = i + n - 1
  BY <1>1, <1>3, <1>4, Distinct
<1>6. j + 1 = i + n
  BY SMT, Z3, <1>2, <1>5
<1> QED
  BY <1>3, <1>6

\* An entry the script appends continues the chain, if its parent is on the
\* branch.
LEMMA AppendOnBranch ==
    ASSUME IInv, NEW entry \in EntryType, entry.commit \in By("repair"),
           OnBranch(commits[entry.commit].parent), Continues(entry),
           ~IsLast(entry), manifest' = Appended(entry),
           UNCHANGED <<commits, branch>>
    PROVE  /\ ManifestType'
           /\ manifest'.entries = Append(manifest.entries, entry)
           /\ manifest'.frozen = manifest.frozen
           /\ Entries' = Entries \cup {entry.commit}
           /\ Final' = entry.commit
           /\ Chained'
<1> DEFINE c == entry.commit
           n == Len(manifest.entries)
<1>1. ServerType /\ BranchOK /\ Chained /\ manifest \in ManifestRec
  BY DEF IInv, PushType, ManifestType, ManifestOK
<1>2. c \in DOMAIN commits /\ commits[c].parent \in Ids
  <2>1. c \in DOMAIN commits
    BY DEF By
  <2>2. commits[c] \in Commits
    BY SMT, Z3, <1>1, <2>1 DEF ServerType
  <2> QED
    BY <2>1, <2>2 DEF Commits
<1>3. n \in Nat /\ manifest.entries \in Seq(EntryType)
      /\ DOMAIN manifest.entries = 1..n
  BY SMT, Z3, <1>1 DEF ManifestRec
<1>4. manifest' = [manifest EXCEPT
                     !.base = IF manifest.entries = <<>> THEN commits[c].parent
                                                         ELSE @,
                     !.entries = Append(@, entry)]
  BY DEF Appended
<1>5. /\ manifest'.entries = Append(manifest.entries, entry)
      /\ manifest'.frozen = manifest.frozen
      /\ manifest.entries = <<>> => manifest'.base = commits[c].parent
      /\ manifest.entries # <<>> => manifest'.base = manifest.base
      /\ manifest' \in ManifestRec
  <2>1. CASE manifest.entries = <<>>
    <3>1. manifest' = [manifest EXCEPT !.base = commits[c].parent,
                                       !.entries = Append(@, entry)]
      BY <1>4, <2>1
    <3> QED
      BY Zenon, <1>1, <1>2, <2>1, <3>1, Grown
  <2>2. CASE manifest.entries # <<>>
    <3>1. manifest' = [manifest EXCEPT !.base = manifest.base,
                                       !.entries = Append(@, entry)]
      BY <1>4, <2>2
    <3>2. manifest.base \in Ids \cup {None}
      BY <1>1 DEF ManifestRec
    <3> QED
      BY Zenon, <1>1, <2>2, <3>1, <3>2, Grown
  <2> QED
    BY <2>1, <2>2
<1>6. /\ DOMAIN manifest'.entries = 1..(n + 1)
      /\ Len(manifest'.entries) = n + 1
      /\ \A k \in 1..n : manifest'.entries[k] = manifest.entries[k]
      /\ manifest'.entries[n + 1] = entry
  BY SMT, Z3, <1>3, <1>5
<1>7. Entries' = Entries \cup {c}
  <2>1. Entries = {manifest.entries[k].commit : k \in 1..n}
    BY <1>3 DEF Entries
  <2>2. Entries' = {manifest'.entries[k].commit : k \in 1..(n + 1)}
    BY <1>6 DEF Entries
  <2>3. 1..(n + 1) = (1..n) \cup {n + 1}
    BY SMT, Z3, <1>3
  <2>4. ASSUME NEW x \in Entries'
        PROVE  x \in Entries \cup {c}
    <3>1. PICK k \in 1..(n + 1) : x = manifest'.entries[k].commit
      BY <2>2
    <3>2. CASE k = n + 1
      BY <1>6, <3>1, <3>2
    <3>3. CASE k \in 1..n
      BY Zenon, <1>6, <2>1, <3>1, <3>3
    <3> QED
      BY <2>3, <3>2, <3>3
  <2>5. ASSUME NEW x \in Entries
        PROVE  x \in Entries'
    <3>1. PICK k \in 1..n : x = manifest.entries[k].commit
      BY <2>1
    <3> QED
      BY Zenon, <1>6, <2>2, <2>3, <3>1
  <2>6. c \in Entries'
    BY <1>6, <2>2, <2>3
  <2> QED
    BY <2>4, <2>5, <2>6
<1>8. \A k \in 1..n : ParentAt(k)' = ParentAt(k)
  <2> SUFFICES ASSUME NEW k \in 1..n
               PROVE  ParentAt(k)' = ParentAt(k)
    OBVIOUS
  <2>1. CASE k = 1
    BY SMT, Z3, <1>3, <1>5, <2>1 DEF ParentAt
  <2>2. CASE k # 1
    <3>1. k - 1 \in 1..n
      BY SMT, Z3, <1>3, <2>2
    <3> QED
      BY <1>6, <2>2, <3>1 DEF ParentAt
  <2> QED
    BY <2>1, <2>2
<1>9. ASSUME NEW m, m = n + 1
      PROVE  ParentAt(m)' = commits[c].parent
  <2>1. CASE manifest.entries = <<>>
    <3>1. m = 1
      BY SMT, Z3, <1>9, <2>1
    <3> QED
      BY SMT, Z3, <1>5, <2>1, <3>1 DEF ParentAt
  <2>2. CASE manifest.entries # <<>>
    <3>1. n # 0
      BY SMT, Z3, <1>3, <2>2
    <3>2. n \in 1..n /\ m # 1 /\ m - 1 = n
      BY SMT, Z3, <1>3, <1>9, <3>1
    <3>3. commits[c].parent = manifest.entries[n].commit
      BY SMT, Z3, <1>3, <2>2, <3>2 DEF Continues, ParentAt
    <3> QED
      BY <1>6, <3>2, <3>3 DEF ParentAt
  <2> QED
    BY <2>1, <2>2
<1>10. \E i \in DOMAIN branch :
         /\ i + n \in DOMAIN branch /\ branch[i + n] = commits[c].parent
         /\ \A k \in 1..n : /\ i + k - 1 \in DOMAIN branch
                           /\ branch[i + k - 1] = ParentAt(k)
                           /\ commits[manifest.entries[k].commit].parent = ParentAt(k)
  <2>1. CASE manifest.entries = <<>>
    <3>1. PICK j \in DOMAIN branch : branch[j] = commits[c].parent
      BY Zenon DEF OnBranch
    <3>2. n = 0 /\ j + n = j /\ 1..n = {}
      BY SMT, Z3, <1>1, <2>1, TipFacts
    <3> QED
      BY Zenon, <3>1, <3>2
  <2>2. CASE manifest.entries # <<>>
    <3>1. PICK i \in DOMAIN branch : \A k \in DOMAIN manifest.entries :
             /\ i + k - 1 \in DOMAIN branch
             /\ branch[i + k - 1] = ParentAt(k)
             /\ commits[manifest.entries[k].commit].parent = ParentAt(k)
      BY Zenon, <1>1, <2>2 DEF Chained
    <3>2. n # 0 /\ n \in 1..n
      BY SMT, Z3, <1>3, <2>2
    <3>3. commits[c].parent = Final
      BY SMT, Z3, <1>3, <2>2, <3>2 DEF Continues, ParentAt, Final
    <3>4. i + n \in DOMAIN branch /\ branch[i + n] = Final
      BY Zenon, <2>2, <3>1, <3>3, Seat
    <3> QED
      BY Zenon, <1>3, <3>1, <3>3, <3>4
  <2> QED
    BY Zenon, <2>1, <2>2
<1>11. Chained'
  <2>1. PICK i \in DOMAIN branch :
         /\ i + n \in DOMAIN branch /\ branch[i + n] = commits[c].parent
         /\ \A k \in 1..n : /\ i + k - 1 \in DOMAIN branch
                           /\ branch[i + k - 1] = ParentAt(k)
                           /\ commits[manifest.entries[k].commit].parent = ParentAt(k)
    BY Zenon, <1>10
  <2>2. i \in Nat /\ i + (n + 1) - 1 = i + n
    BY SMT, Z3, <1>1, <1>3, TipFacts
  <2>3. ASSUME NEW k \in 1..(n + 1)
        PROVE  /\ i + k - 1 \in DOMAIN branch
               /\ branch[i + k - 1] = ParentAt(k)'
               /\ commits[manifest'.entries[k].commit].parent = ParentAt(k)'
    <3>1. CASE k = n + 1
      BY Zenon, <1>6, <1>9, <2>1, <2>2, <3>1
    <3>2. CASE k # n + 1
      <4>1. k \in 1..n
        BY SMT, Z3, <1>3, <3>2
      <4> QED
        BY Zenon, <1>6, <1>8, <2>1, <4>1
    <3> QED
      BY Zenon, <3>1, <3>2
  <2> QED
    BY Zenon, <1>6, <2>1, <2>3 DEF Chained
<1>12. Final' = c
  BY <1>3, <1>6 DEF Final
<1> QED
  BY SMT, Z3, <1>5, <1>7, <1>11, <1>12 DEF ManifestType

\* What an accepted append leaves behind, new or repeated.
LEMMA Appending ==
    ASSUME IInv, NEW entry \in EntryType, entry.commit \in By("repair"),
           OnBranch(commits[entry.commit].parent), Accepts(entry),
           manifest' = Appended(entry), UNCHANGED <<commits, branch>>
    PROVE  /\ ManifestType'
           /\ manifest'.frozen = FALSE /\ manifest.frozen = FALSE
           /\ Entries' = Entries \cup {entry.commit}
           /\ Final' = entry.commit
           /\ Chained'
<1>1. manifest \in ManifestRec /\ Chained
  BY Zenon DEF IInv, PushType, ManifestType, ManifestOK
<1>2. manifest.frozen = FALSE
  BY Zenon, <1>1 DEF Accepts, ManifestRec
<1>3. CASE IsLast(entry)
  <2>1. manifest' = manifest
    BY <1>3 DEF Appended
  <2>2. /\ Len(manifest.entries) \in DOMAIN manifest.entries
        /\ entry = manifest.entries[Len(manifest.entries)]
        /\ manifest.entries # <<>>
    BY SMT, Z3, <1>1, <1>3 DEF IsLast, ManifestRec
  <2>3. entry.commit \in Entries /\ Final = entry.commit
    BY Zenon, <2>2 DEF Entries, Final
  <2>4. Chained' /\ Entries' = Entries /\ Final' = Final
    BY SMT, Z3, <1>1, <2>1 DEF Chained, ParentAt, Entries, Final
  <2> QED
    BY <1>1, <1>2, <2>1, <2>3, <2>4 DEF ManifestType
<1>4. CASE ~IsLast(entry)
  <2>1. Continues(entry)
    BY SMT, Z3, <1>4 DEF Accepts
  <2> QED
    BY Zenon, <1>2, <1>4, <2>1, AppendOnBranch
<1> QED
  BY Zenon, <1>3, <1>4

LEMMA Recorded ==
    ASSUME IInv, NEW e \in Execs, NEW entry \in EntryType,
           entry.commit \in By("repair"),
           OnBranch(commits[entry.commit].parent),
           \/ OnBranch(entry.commit)
           \/ /\ ledger'[commits[entry.commit].att].commit = entry.commit
              /\ ledger'[commits[entry.commit].att].res \in GivenUp,
           Accepts(entry), manifest' = Appended(entry),
           Moves(e), UNCHANGED <<note, back>>, EffectType',
           \A a \in Attempts : ledger'[a].commit = ledger[a].commit,
           \A a \in Attempts : ledger'[a].res = "success" =>
               ledger[a].res = "success" \/ ledger[a].commit = entry.commit,
           RunOK(e)'
    PROVE  IInv'
<1>1. /\ commits' = commits /\ branch' = branch /\ sent' = sent
      /\ Tip' = Tip
      /\ \A who : By(who)' = By(who)
      /\ \A c : Tree(c)' = Tree(c)
      /\ \A c : OnBranch(c)' <=> OnBranch(c)
  BY Zenon DEF Moves, server, By, Tree, OnBranch, Tip
<1>2. /\ ManifestType'
      /\ manifest'.frozen = FALSE /\ manifest.frozen = FALSE
      /\ Entries' = Entries \cup {entry.commit}
      /\ Final' = entry.commit /\ Chained'
  BY Zenon, <1>1, Appending
<1>3. \A f \in Execs : RunOK(f)'
  <2>1. Entries \subseteq Entries'
    BY <1>2
  <2>2. \A f \in Execs : f # e => RunOK(f)'
    BY Zenon, <2>1, Others DEF Moves
  <2> QED
    BY ZenonT(60), <2>2
<1>4. PushType' /\ ReportedOnce'
  BY ZenonT(60), <1>1, <1>2 DEF IInv, PushType, ServerType, Moves, BackType, ReportedOnce
<1>5. CommitsOK' /\ BranchOK'
  BY Zenon, <1>1 DEF IInv, CommitsOK, BranchOK
<1>6. LedgerOK' /\ EvidenceFirst'
  <2>1. LedgerOK'
    BY Zenon, <1>1 DEF IInv, LedgerOK
  <2>2. ASSUME NEW c \in By("repair")
        PROVE  commits[c].att \in Attempts
    BY Zenon, <2>2 DEF IInv, CommitsOK, By
  <2> QED
    BY ZenonT(60), <1>1, <2>1, <2>2 DEF IInv, EvidenceFirst
<1>7. HumanWorkSurvives'
  BY Zenon, <1>1 DEF IInv, HumanWorkSurvives
<1>8. ManifestOK'
  <2>1. ASSUME NEW a \in Attempts, ledger'[a].res = "success"
        PROVE  ledger'[a].commit \in Entries'
    <3>1. ledger[a].res = "success" => ledger[a].commit \in Entries
      BY Zenon DEF IInv, ManifestOK, SuccessIsRecorded, Entries
    <3> QED
      BY Zenon, <1>2, <2>1, <3>1
  <2>2. SuccessIsRecorded'
    BY SMT, Z3, <2>1 DEF SuccessIsRecorded, Entries
  <2>3. LastLanded'
    BY Zenon, <1>1, <1>2 DEF LastLanded
  <2> QED
    BY ZenonT(60), <1>1, <1>2, <2>2, <2>3 DEF IInv, ManifestOK
<1>9. BackOK'
  <2>1. /\ back' = back /\ back.pc = "none"
        /\ By("rollback") = {} /\ back.result = "none"
    BY Zenon, <1>2 DEF IInv, BackOK
  <2> QED
    BY ZenonT(60), <1>1, <2>1 DEF BackOK
<1> QED
  BY Zenon, <1>3, <1>4, <1>5, <1>6, <1>7, <1>8, <1>9 DEF IInv

\* An attempt that is settled already is recorded again, whatever its result.
LEMMA ClaimKeeps ==
    ASSUME IInv, NEW e \in Execs, Claim(e)
    PROVE  IInv'
<1> DEFINE a == run[e].att
           entry == Entry(a, ledger[a].commit, "name")
<1>1. /\ RunType /\ RunOK(e) /\ EffectType /\ SuccessIsRecorded /\ ReportedOnce
      /\ ServerType /\ BranchOK /\ CommitsOK /\ LedgerOK
  BY DEF IInv, PushType, ManifestOK
<1>2. a \in Attempts
  BY <1>1 DEF Claim, Step, RunOK
<1>3. UNCHANGED <<server, note, task, back>>
  BY DEF Claim
<1>4. CASE ~Allowed(e)
  <2>1. Raise(e)
    BY Zenon, <1>3, <1>4 DEF Claim, Raise, Allowed
  <2> QED
    BY <1>3, <2>1, Raised
<1>5. CASE Allowed(e) /\ ledger[a].st = "completed"
  <2>1. /\ IF ledger[a].commit = None \/ Accepts(entry)
             THEN Returns(e) ELSE Go(e, "agent")
        /\ manifest' = IF ledger[a].commit # None /\ Accepts(entry)
                         THEN Appended(entry) ELSE manifest
        /\ UNCHANGED <<ledger, active>>
    BY SMT, Z3, <1>5 DEF Claim
  <2>2. CASE ledger[a].commit # None /\ ~Accepts(entry)
    <3>1. Raise(e)
      BY Zenon, <1>3, <2>1, <2>2 DEF Raise, store
    <3> QED
      BY <1>3, <3>1, Raised
  <2>3. CASE ledger[a].commit = None \/ Accepts(entry)
    <3>1. /\ run' \in [Execs -> RunRec]
          /\ \A f \in Execs : f # e => run'[f] = run[f]
          /\ run'[e].pc = "save"
          /\ run'[e].local = run[e].local /\ run'[e].mine = run[e].mine
      BY Zenon, <1>1, <1>2, <2>1, <2>3, Returned
    <3>2. Moves(e)
      BY Zenon, <1>1, <1>3, <3>1 DEF Moves, RunType, task
    <3>3. entry.commit = ledger[a].commit
      BY Zenon DEF Entry
    <3>4. CASE manifest' = manifest
      <4>1. EffectsKept(e) /\ ManifestKept
        BY <1>3, <2>1, <3>4, StoreSame, BackSame
      <4> QED
        BY <3>1, <3>2, <4>1, Idles DEF IdleSteps
    <3>5. CASE entry.commit \in Entries
      BY Zenon, <2>1, <3>3, <3>4, <3>5, AppendAgain
    <3>6. CASE ledger[a].commit # None /\ entry.commit \notin Entries
      <4>1. manifest' = Appended(entry) /\ Accepts(entry)
        BY Zenon, <2>1, <2>3, <3>6
      <4>2. ledger[a].res \in GivenUp
        <5>1. ledger[a].res # "success"
          BY <1>1, <1>2, <3>3, <3>6 DEF SuccessIsRecorded, Entries
        <5> QED
          BY Zenon, <1>1, <1>2, <1>5, <5>1 DEF EffectType, EffectRec, GivenUp
      <4>3. /\ entry.commit \in By("repair") /\ commits[entry.commit].att = a
            /\ entry \in EntryType
        BY Zenon, <1>1, <1>2, <3>3, <3>6 DEF LedgerOK, EffectType, EffectRec, Entry,
           EntryType, Attempts
      <4>4. OnBranch(commits[entry.commit].parent)
        <5>1. entry.commit \in DOMAIN commits
          BY ZenonT(60), <4>3 DEF By
        <5>2. CASE AtBase(run[e])
          <6> DEFINE c == entry.commit
          <6>1. c \in DOMAIN commits /\ commits[c].by = "repair"
            BY Zenon, <4>3 DEF By
          <6> HIDE DEF c
          <6>2. commits[c].parent = commits[c].att.base
            BY Zenon, <1>1, <6>1 DEF CommitsOK
          <6>3. commits[c].att = a
            BY Zenon, <4>3 DEF c
          <6> QED
            BY <1>1, <5>2, <6>2, <6>3 DEF Claim, Step, RunOK, AtBase, c
        <5>3. CASE AtMine(run[e])
          <6>1. OnBranch(entry.commit)
            BY Zenon, <1>1, <3>3, <5>3 DEF Claim, Step, RunOK, AtMine
          <6> QED
            BY Zenon, <1>1, <5>1, <6>1, Follows DEF OnBranch
        <5> QED
          BY Zenon, <1>1, <5>2, <5>3 DEF Claim, Step, RunOK
      <4>5. RunOK(e)'
        BY Zenon, <3>1, <3>2, IdleRun DEF IdleSteps
      <4>6. EffectType'
        BY <1>1, <1>3, <2>1 DEF EffectType
      <4>7. /\ ledger'[commits[entry.commit].att].commit = entry.commit
            /\ ledger'[commits[entry.commit].att].res \in GivenUp
        BY Zenon, <2>1, <3>3, <4>2, <4>3
      <4> HIDE DEF entry
      <4> QED
        BY ZenonT(60), <1>3, <2>1, <3>2, <4>1, <4>3, <4>4, <4>5, <4>6, <4>7, Recorded
    <3> QED
      BY Zenon, <2>1, <3>3, <3>4, <3>5, <3>6
  <2> QED
    BY SMT, Z3, <2>2, <2>3
<1>6. CASE Allowed(e) /\ ledger[a].st # "completed"
  <2> DEFINE pc == IF ledger[a].commit # None THEN "resume" ELSE "check"
  <2>1. ClaimIt(a) /\ Go(e, pc) /\ UNCHANGED manifest
    BY Zenon, <1>6 DEF Claim
  <2>2. /\ run' \in [Execs -> RunRec]
        /\ \A f \in Execs : f # e => run'[f] = run[f]
        /\ run'[e].pc = pc
        /\ run'[e].local = run[e].local /\ run'[e].mine = run[e].mine
        /\ run'[e].att = a
    BY ZenonT(60), <1>1, <2>1, Gone DEF PCs
  <2>3. /\ EffectType'
        /\ \A b \in Attempts : /\ ledger'[b].commit = ledger[b].commit
                               /\ ledger'[b].res = ledger[b].res
    BY Zenon, <1>1, <1>2, <1>3, <2>1, ClaimedIt
  <2>4. EffectsKept(e) /\ ManifestKept
    BY Zenon, <1>1, <1>3, <2>1, <2>3, BackSame DEF EffectsKept, GivenUpStays,
       ReportedOnce
  <2>5. Moves(e) /\ commits' = commits /\ By("repair")' = By("repair")
        /\ token' = token
    BY Zenon, <1>1, <1>3, <2>2 DEF Moves, RunType, task, server, By
  <2>6. RunOK(e)'
    <3>1. ledger'[a].commit = ledger[a].commit
      BY Zenon, <1>2, <2>3
    <3>2. AtBase(run[e]) \/ AtMine(run[e])
      BY <1>1 DEF Claim, Step, RunOK
    <3>3. CASE ledger[a].commit # None
      BY Zenon, <1>1, <1>2, <2>2, <2>5, <3>1, <3>2, <3>3 DEF RunOK, AtBase, AtMine
    <3>4. CASE ledger[a].commit = None
      BY Zenon, <1>1, <1>2, <2>2, <2>5, <3>1, <3>2, <3>4 DEF RunOK, AtBase, AtMine
    <3> QED
      BY <3>3, <3>4
  <2> QED
    BY <2>4, <2>5, <2>6, Steady
<1> QED
  BY Zenon, <1>4, <1>5, <1>6

LEMMA AppendEntryKeeps ==
    ASSUME IInv, NEW e \in Execs, AppendEntry(e)
    PROVE  IInv'
<1> DEFINE a == run[e].att
           c == run[e].mine
           entry == Entry(a, c, "name")
<1>1. RunType /\ RunOK(e) /\ EffectType /\ ServerType /\ BranchOK
  BY DEF IInv, PushType
<1>2. /\ Step(e, "append") /\ UNCHANGED <<server, ledger, note, active, task, back>>
      /\ IF Fenced(e) /\ Accepts(entry)
           THEN manifest' = Appended(entry) /\ Go(e, "complete")
           ELSE Go(e, "agent") /\ UNCHANGED manifest
  BY DEF AppendEntry
<1>3. /\ a \in Attempts /\ AtMine(run[e]) /\ OnBranch(c) /\ c \in By("repair")
      /\ OnBranch(commits[c].parent)
  <2>1. a \in Attempts /\ AtMine(run[e]) /\ OnBranch(c) /\ c \in By("repair")
    BY Zenon, <1>1, <1>2 DEF Step, RunOK, AtMine
  <2> QED
    BY <1>1, <2>1, Follows DEF By, OnBranch
<1>4. CASE ~(Fenced(e) /\ Accepts(entry))
  <2>1. Raise(e)
    BY <1>2, <1>4 DEF Raise, store
  <2> QED
    BY <1>2, <2>1, Raised
<1>5. CASE Fenced(e) /\ Accepts(entry)
  <2>1. manifest' = Appended(entry) /\ Go(e, "complete")
    BY <1>2, <1>5
  <2>2. entry \in EntryType /\ entry.commit = c
    <3>1. a.seq \in 1..MaxPushes
      BY <1>3 DEF Attempts
    <3>2. c \in Ids
      BY ZenonT(60), <1>1, <1>3 DEF RunType, RunRec, AtMine
    <3> QED
      BY Zenon, <3>1, <3>2 DEF Entry, EntryType
  <2>3. /\ run' \in [Execs -> RunRec]
        /\ \A f \in Execs : f # e => run'[f] = run[f]
        /\ run'[e].pc = "complete"
        /\ run'[e].local = run[e].local /\ run'[e].mine = c
        /\ run'[e].att = a
    BY <1>1, <2>1, Gone DEF PCs
  <2>4. Moves(e) /\ commits' = commits /\ By("repair")' = By("repair")
        /\ branch' = branch /\ (OnBranch(c)' <=> OnBranch(c))
    BY Zenon, <1>1, <1>2, <2>3 DEF Moves, RunType, task, server, By, OnBranch
  <2>5. c \in Entries'
    BY Zenon, <1>3, <1>5, <2>1, <2>2, <2>4, Appending
  <2>6. RunOK(e)'
    BY Zenon, <1>1, <1>2, <1>3, <2>3, <2>4, <2>5 DEF RunOK, AtMine
  <2>7. EffectType'
    BY <1>1, <1>2 DEF EffectType
  <2> HIDE DEF entry
  <2> QED
    BY Zenon, <1>2, <1>3, <1>5, <2>1, <2>2, <2>4, <2>6, <2>7, Recorded
<1> QED
  BY <1>4, <1>5

LEMMA ReconcileKeeps ==
    ASSUME IInv, NEW e \in Execs, Reconcile(e)
    PROVE  IInv'
<1> DEFINE record == ledger[active]
           entry == Entry(active, record.commit, "key")
<1>1. RunType /\ EffectType /\ ServerType /\ BranchOK /\ LedgerOK
  BY DEF IInv, PushType
<1>2. Step(e, "killed") /\ UNCHANGED <<server, token, cancel, ckpt, back>>
  BY DEF Reconcile
<1>3. active \in Attempts \cup {NoAttempt, Comment}
  BY <1>1 DEF EffectType
<1>4. ckpt' \in 0..MaxPushes /\ status \in {"running", "completed", "failed", "canceled"}
  BY SMT, Z3, <1>1, <1>2 DEF RunType
<1>5. CASE (\E pc \in {"off", "refreeze"} : Go(e, pc)) /\ UNCHANGED store
           /\ status' \in {status, "canceled", "failed"}
  <2>1. EffectsKept(e) /\ ManifestKept
    BY SMT, Z3, <1>2, <1>5, StoreSame, BackSame DEF store
  <2> QED
    BY SMT, Z3, <1>2, <1>4, <1>5, <2>1, GoIdle DEF IdleSteps
<1>6. CASE /\ note' = [note EXCEPT !.st = "completed"] /\ active' = NoAttempt
           /\ Go(e, "refreeze") /\ UNCHANGED <<ledger, manifest, status>>
  <2>1. EffectsKept(e) /\ ManifestKept
    BY SMT, Z3, <1>2, <1>6, NoteKeeps, BackSame
  <2> QED
    BY SMT, Z3, <1>2, <1>4, <1>6, <2>1, GoIdle DEF IdleSteps
<1>7. CASE /\ active \in Attempts /\ CompleteIt(active, "canceled")
           /\ Go(e, "refreeze") /\ UNCHANGED <<note, manifest, status>>
  <2>1. EffectsKept(e) /\ ManifestKept
    BY SMT, Z3, <1>2, <1>7, Completed, BackSame
  <2> QED
    BY SMT, Z3, <1>2, <1>4, <1>7, <2>1, GoIdle DEF IdleSteps
<1>8. CASE /\ active \in Attempts /\ Tip = record.commit /\ Accepts(entry)
           /\ manifest' = Appended(entry) /\ CompleteIt(active, "success")
           /\ Go(e, "refreeze") /\ UNCHANGED <<note, status>>
  <2>1. Tip \in Ids /\ OnBranch(Tip) /\ Tip # None
    BY Zenon, <1>1, TipFacts, Numbers
  <2>2. record.commit \in By("repair") /\ OnBranch(record.commit)
    BY SMT, Z3, <1>1, <1>8, <2>1 DEF LedgerOK
  <2>8. OnBranch(commits[record.commit].parent)
    BY Zenon, <1>1, <2>2, Follows DEF By, OnBranch
  <2>3. entry \in EntryType /\ entry.commit = record.commit
    <3>1. active.seq \in 1..MaxPushes
      BY SMT, Z3, <1>8 DEF Attempts
    <3> QED
      BY Zenon, <1>8, <2>1, <3>1 DEF Entry, EntryType
  <2>4. /\ run' \in [Execs -> RunRec]
        /\ \A f \in Execs : f # e => run'[f] = run[f]
        /\ run'[e].pc = "refreeze"
        /\ run'[e].local = run[e].local /\ run'[e].mine = run[e].mine
    BY Zenon, <1>1, <1>8, Gone DEF PCs
  <2>5. Moves(e)
    BY Zenon, <1>1, <1>2, <1>8, <2>4 DEF Moves, RunType
  <2>6. RunOK(e)'
    BY SMT, Z3, <2>4, <2>5, IdleRun DEF IdleSteps
  <2>7. /\ EffectType'
        /\ \A a \in Attempts : ledger'[a].commit = ledger[a].commit
        /\ \A a \in Attempts : ledger'[a].res = "success" =>
              ledger[a].res = "success" \/ ledger[a].commit = record.commit
    BY ZenonT(60), <1>1, <1>8 DEF EffectType, EffectRec, CompleteIt
  <2> HIDE DEF entry
  <2> QED
    BY Zenon, <1>2, <1>8, <2>2, <2>3, <2>5, <2>6, <2>7, <2>8, Recorded
<1>9. CASE ~Fenced(e)
  BY Zenon, <1>5, <1>9 DEF Reconcile
<1>10. CASE Fenced(e) /\ active = NoAttempt
  BY Zenon, <1>5, <1>10, Numbers DEF Reconcile
<1>11. CASE Fenced(e) /\ active = Comment
  BY Zenon, <1>6, <1>11, Numbers DEF Reconcile
<1>12. CASE Fenced(e) /\ active \in Attempts
  <2>1. active # NoAttempt /\ active # Comment
    BY SMT, Z3, <1>12, Numbers
  <2>2. CASE record.based /\ Tip = active.base
    BY SMT, Z3, <1>7, <1>12, <2>1, <2>2 DEF Reconcile
  <2>3. CASE record.based /\ Tip # active.base /\ Tip = record.commit
    BY SMT, Z3, <1>5, <1>8, <1>12, <2>1, <2>3 DEF Reconcile, MarkFailed
  <2>4. CASE record.based => Tip \notin {active.base, record.commit}
    BY ZenonT(60), <1>5, <1>12, <2>1, <2>4 DEF Reconcile
  <2> QED
    BY SMT, Z3, <2>2, <2>3, <2>4
<1> QED
  BY <1>3, <1>9, <1>10, <1>11, <1>12

-----------------------------------------------------------------------------
(* Pushes that leave.                                                      *)

\* A push leaves whose commit, if it is the repair's, its effect record
\* names; the record may get that name in the same step.
LEMMA Sends ==
    ASSUME IInv, NEW c \in DOMAIN commits,
           UNCHANGED <<commits, branch, note, manifest>>,
           sent' = sent \cup {c},
           EffectType', RunType', BackType',
           \A a \in Attempts : ledger'[a].res = ledger[a].res,
           \A a \in Attempts :
              \/ ledger'[a].commit = ledger[a].commit
              \/ /\ ledger[a].commit = None /\ ledger'[a].commit = c
                 /\ c \in By("repair") /\ commits[c].att = a,
           c \in By("repair") => ledger'[commits[c].att].commit = c,
           \A e \in Execs : RunOK(e)', BackOK'
    PROVE  IInv'
<1>1. /\ Tip' = Tip
      /\ \A who : By(who)' = By(who)
      /\ \A d : Tree(d)' = Tree(d)
      /\ \A d : OnBranch(d)' <=> OnBranch(d)
      /\ Entries' = Entries
  BY Zenon DEF By, Tree, OnBranch, Tip, Entries
<1>2. By("repair") \subseteq DOMAIN commits /\ DOMAIN commits \subseteq Nat
      /\ None \notin DOMAIN commits
  BY SMT, Z3 DEF By, IInv, PushType, ServerType, None
<1>3. PushType' /\ ReportedOnce'
  BY Zenon DEF IInv, PushType, ServerType, ManifestType, ReportedOnce
<1>4. CommitsOK' /\ BranchOK'
  BY Zenon, <1>1 DEF IInv, CommitsOK, BranchOK
<1>5. LedgerOK'
  <2> SUFFICES ASSUME NEW a \in Attempts, ledger'[a].commit # None
               PROVE  /\ ledger'[a].commit \in By("repair")
                      /\ commits[ledger'[a].commit].att = a
    BY Zenon, <1>1 DEF LedgerOK
  <2> QED
    BY Zenon DEF IInv, LedgerOK
<1>6. EvidenceFirst'
  <2> SUFFICES ASSUME NEW d \in By("repair"), d \in sent \cup {c} \/ OnBranch(d)
               PROVE  ledger'[commits[d].att].commit = d
    BY Zenon, <1>1 DEF EvidenceFirst
  <2>1. commits[d].att \in Attempts /\ d # None
    BY Zenon, <1>2 DEF IInv, CommitsOK, By
  <2>2. CASE d # c
    BY Zenon, <2>1, <2>2 DEF IInv, EvidenceFirst
  <2> QED
    BY Zenon, <2>2
<1>7. HumanWorkSurvives'
  BY Zenon, <1>1 DEF IInv, HumanWorkSurvives
<1>8. ManifestOK'
  <2>1. ASSUME NEW a \in Attempts, ledger'[a].res = "success"
        PROVE  ledger'[a].commit \in Entries
    <3>1. ledger[a].commit \in Entries /\ Entries \subseteq By("repair")
      BY Zenon, <2>1 DEF IInv, ManifestOK, SuccessIsRecorded, Entries
    <3>2. ledger[a].commit # None
      BY Zenon, <1>2, <3>1
    <3> QED
      BY Zenon, <3>1, <3>2
  <2>2. SuccessIsRecorded'
    BY Zenon, <2>1 DEF SuccessIsRecorded, Entries
  <2>3. Chained'
    BY Zenon DEF IInv, ManifestOK, Chained, ParentAt
  <2>4. LastLanded'
    <3> SUFFICES ASSUME manifest.entries # <<>>, ~OnBranch(Final)
                 PROVE  /\ ledger'[commits[Final].att].commit = Final
                        /\ ledger'[commits[Final].att].res \in GivenUp
      BY Zenon, <1>1 DEF LastLanded, Final
    <3>1. commits[Final].att \in Attempts /\ Final # None
      BY Zenon, <1>2, FinalFacts
    <3>2. /\ ledger[commits[Final].att].commit = Final
          /\ ledger[commits[Final].att].res \in GivenUp
      BY Zenon DEF IInv, ManifestOK, LastLanded
    <3> QED
      BY SMT, Z3, <3>1, <3>2
  <2> QED
    BY Zenon, <1>1, <2>2, <2>3, <2>4 DEF IInv, ManifestOK
<1> QED
  BY ZenonT(60), <1>3, <1>4, <1>5, <1>6, <1>7, <1>8 DEF IInv

\* The rollback's records do not depend on which pushes are under way.
LEMMA BackStays ==
    ASSUME IInv, UNCHANGED <<commits, branch, manifest, back>>
    PROVE  BackOK' /\ BackType'
BY SMT, Z3 DEF IInv, PushType, BackType, BackOK, By, Final, Tree, OnBranch

LEMMA PublishKeeps ==
    ASSUME IInv, NEW e \in Execs, Publish(e)
    PROVE  IInv'
<1> DEFINE a == run[e].att
           c == run[e].mine
<1>1. RunType /\ RunOK(e) /\ EffectType /\ UNCHANGED <<commits, branch>>
  BY SMT, Z3 DEF IInv, PushType, Publish
<1>2. CASE ~Allowed(e)
  BY SMT, Z3, <1>1, <1>2, Raised DEF Publish, server
<1>3. CASE Allowed(e)
  <2>1. /\ ledger' = [ledger EXCEPT ![a].commit = c]
        /\ sent' = sent \cup {c} /\ Go(e, "confirm")
        /\ UNCHANGED <<note, active, manifest, task, back>>
    BY SMT, Z3, <1>3 DEF Publish
  <2>2. /\ a \in Attempts /\ ledger[a].commit = None /\ c # None
        /\ c \in By("repair") /\ commits[c].att = a /\ e = token
        /\ run[e].local = c
    BY Zenon, <1>1, <1>3 DEF Publish, Step, RunOK, Allowed, Fenced
  <2>3. c \in Ids /\ c \in DOMAIN commits
    BY SMT, Z3, <1>1, <2>2 DEF RunType, RunRec, By
  <2>4. /\ EffectType'
        /\ \A b \in Attempts : ledger'[b].res = ledger[b].res
        /\ ledger'[a].commit = c
        /\ \A b \in Attempts : b # a => ledger'[b].commit = ledger[b].commit
    BY SMT, Z3, <1>1, <2>1, <2>2, <2>3 DEF EffectType, EffectRec
  <2>5. /\ run' \in [Execs -> RunRec]
        /\ \A f \in Execs : f # e => run'[f] = run[f]
        /\ run'[e].pc = "confirm"
        /\ run'[e].local = run[e].local /\ run'[e].mine = c
        /\ run'[e].att = a
    BY SMT, Z3, <1>1, <2>1, Gone DEF PCs
  <2>6. RunType' /\ token' = token
    BY SMT, Z3, <1>1, <2>1, <2>5 DEF RunType, task
  <2>7. /\ By("repair")' = By("repair") /\ Entries' = Entries
        /\ \A d : OnBranch(d)' <=> OnBranch(d)
    BY SMT, Z3, <1>1, <2>1 DEF By, Entries, OnBranch
  <2>8. RunOK(e)'
    BY Zenon, <1>1, <2>2, <2>4, <2>5, <2>7 DEF RunOK, AtMine
  <2>9. ASSUME NEW f \in Execs, f # e
        PROVE  RunOK(f)'
    <3>1. RunOK(f) /\ run'[f] = run[f] /\ f # token
      BY Zenon, <2>2, <2>5, <2>9 DEF IInv
    <3>2. run[f].att \in Attempts /\ ledger[run[f].att].commit # None =>
             ledger'[run[f].att].commit = ledger[run[f].att].commit
      BY Zenon, <2>2, <2>4
    <3> QED
      BY Zenon, <1>1, <2>6, <2>7, <3>1, <3>2 DEF RunOK, AtBase, AtMine
  <2>10. \A f \in Execs : RunOK(f)'
    BY SMT, Z3, <2>8, <2>9
  <2>11. BackOK' /\ BackType'
    BY SMT, Z3, <1>1, <2>1, BackStays
  <2> HIDE DEF a, c
  <2> QED
    BY Zenon, <1>1, <2>1, <2>2, <2>3, <2>4, <2>6, <2>10, <2>11, Sends
<1> QED
  BY SMT, Z3, <1>2, <1>3

LEMMA ResumeKeeps ==
    ASSUME IInv, NEW e \in Execs, Resume(e)
    PROVE  IInv'
<1> DEFINE a == run[e].att
           c == ledger[a].commit
<1>1. RunType /\ RunOK(e) /\ EffectType /\ LedgerOK /\ CommitsOK
      /\ ServerType /\ BranchOK /\ UNCHANGED <<commits, branch>>
      /\ Step(e, "resume")
  BY SMT, Z3 DEF IInv, PushType, Resume
<1>2. a \in Attempts /\ c # None /\ (AtBase(run[e]) \/ AtMine(run[e]))
  BY Zenon, <1>1 DEF Step, RunOK
<1>3. c \in By("repair") /\ c \in DOMAIN commits /\ commits[c].att = a
      /\ commits[c].parent = a.base /\ a.base < c /\ a.base # c
  <2>1. c \in By("repair") /\ commits[c].att = a
    BY Zenon, <1>1, <1>2 DEF LedgerOK
  <2>2. c \in DOMAIN commits /\ commits[c].parent = a.base /\ commits[c].parent < c
    BY SMT, Z3, <1>1, <2>1 DEF By, CommitsOK
  <2>3. c \in Nat /\ a.base \in Nat
    BY SMT, Z3, <1>1, <1>2, <2>2, Numbers DEF ServerType, Attempts
  <2> QED
    BY SMT, Z3, <2>1, <2>2, <2>3
<1>4. run[e].local = c => AtMine(run[e]) /\ run[e].mine = c
  BY SMT, Z3, <1>2, <1>3 DEF AtBase, AtMine
<1>5. CASE Blocked(e) /\ UNCHANGED sent
  BY ZenonT(60), <1>1, <1>2, <1>5, BlockedStep DEF server
<1>6. CASE /\ run[e].local = c /\ Tip = c /\ Go(e, "append")
           /\ UNCHANGED <<sent, store, task, back>>
  <2>1. OnBranch(Tip) /\ UNCHANGED server
    BY SMT, Z3, <1>1, <1>6, TipFacts DEF server
  <2> QED
    BY Zenon, <1>2, <1>4, <1>6, <2>1, ToAppend
<1>7. CASE Raise(e) /\ UNCHANGED sent
  BY SMT, Z3, <1>1, <1>7, Raised DEF server
<1>8. CASE /\ run[e].local = c /\ sent' = sent \cup {c} /\ Go(e, "confirm")
           /\ UNCHANGED <<store, task, back>>
  <2>1. /\ run' \in [Execs -> RunRec]
        /\ \A f \in Execs : f # e => run'[f] = run[f]
        /\ run'[e].pc = "confirm"
        /\ run'[e].local = run[e].local /\ run'[e].mine = run[e].mine
        /\ run'[e].att = a
    BY ZenonT(60), <1>1, <1>8, Gone DEF PCs
  <2>2. RunType' /\ EffectType' /\ token' = token
    BY Zenon, <1>1, <1>8, <2>1 DEF RunType, EffectType, task, store
  <2>3. /\ By("repair")' = By("repair") /\ Entries' = Entries
        /\ \A d : OnBranch(d)' <=> OnBranch(d)
        /\ ledger' = ledger /\ note' = note
    BY Zenon, <1>1, <1>8 DEF By, Entries, OnBranch, store
  <2>4. \A f \in Execs : RunOK(f)'
    <3>1. RunOK(e)'
      BY Zenon, <1>1, <1>2, <1>4, <1>8, <2>1, <2>3 DEF RunOK, AtMine
    <3>2. ASSUME NEW f \in Execs, f # e
          PROVE  RunOK(f)'
      <4>1. RunOK(f) /\ run'[f] = run[f]
        BY SMT, Z3, <2>1, <3>2 DEF IInv
      <4> QED
        BY Zenon, <1>1, <2>2, <2>3, <4>1 DEF RunOK, AtBase, AtMine
    <3> QED
      BY SMT, Z3, <3>1, <3>2
  <2>5. BackOK' /\ BackType' /\ UNCHANGED manifest
    BY Zenon, <1>1, <1>8, BackStays DEF store
  <2>6. \A b \in Attempts : ledger'[b].res = ledger[b].res
                            /\ ledger'[b].commit = ledger[b].commit
    BY SMT, Z3, <2>3
  <2>7. ledger'[commits[c].att].commit = c
    BY Zenon, <1>3, <2>3
  <2> HIDE DEF a, c
  <2> QED
    BY ZenonT(60), <1>1, <1>3, <1>8, <2>2, <2>3, <2>4, <2>5, <2>6, <2>7, Sends
<1> QED
  BY Zenon, <1>5, <1>6, <1>7, <1>8 DEF Resume
=============================================================================
