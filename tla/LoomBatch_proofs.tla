-------------------------- MODULE LoomBatch_proofs --------------------------
(***************************************************************************)
(* Proofs about LoomBatch for any numbers of specs, beads and commits.     *)
(***************************************************************************)
EXTENDS LoomBatch, SequenceTheorems, TLAPS

(* The memory of a process that is at a given point of run_parallel_batch. *)
Phases ==
  \A s \in Specs :
    /\ pc[s] # "create" => todo[s] = {}
    /\ pc[s] \notin {"create", "spawn"} => active[s] = {}
    /\ pc[s] \in {"idle", "create"} => queue[s] = <<>>

(* A bead is in one place of its own spec's batch and has no result yet.   *)
Apart(s) ==
  /\ \A b \in todo[s] \cup active[s] : SpecOf[b] = s /\ result[b] = "none"
  /\ todo[s] \cap active[s] = {}
  /\ active[s] \subseteq branches
  /\ \A i \in DOMAIN queue[s] :
       /\ SpecOf[queue[s][i].bead] = s
       /\ result[queue[s][i].bead] = "none"
       /\ queue[s][i].bead \in branches \ active[s]
       /\ \A j \in DOMAIN queue[s] : i # j => queue[s][i].bead # queue[s][j].bead

SlotsApart == \A s \in Specs : Apart(s)

(* Only a branch that exists has an agent, and one at most.                *)
AgentsCounted ==
  /\ \A b \in Beads : agents[b] <= 1 /\ (b \notin branches => agents[b] = 0)
  /\ \A s \in Specs :
       /\ \A b \in active[s] : agents[b] = IF pc[s] = "spawn" THEN 1 ELSE 0
       /\ \A i \in DOMAIN queue[s] : agents[queue[s][i].bead] = 0

(* git merges, or has left in the index, a bead of a batch only while the  *)
(* batch is about to look at it.                                           *)
Agrees(s) ==
  /\ pc[s] = "wait" => merging = Slot(s).bead
  /\ \A b \in active[s] : b # merging /\ b # dirty
  /\ \A i \in DOMAIN queue[s] :
       /\ queue[s][i].bead = merging => i = 1 /\ pc[s] = "wait"
       /\ queue[s][i].bead = dirty => i = 1 /\ pc[s] = "unmerged"

GitAgrees == \A s \in Specs : Agrees(s)

(* A bead of a batch keeps its worktree until merge-back removes it.       *)
KeepsTrees(s) ==
  /\ active[s] \subseteq trees
  /\ \A i \in DOMAIN queue[s] :
       queue[s][i].bead \in trees <=> ~(i = 1 /\ pc[s] = "delete")

TreesKept == \A s \in Specs : KeepsTrees(s)

(* Branches share only what is on the driver branch; a branch that has not *)
(* succeeded, or is about to be deleted, holds no promise of its own.      *)
Settled(b) == promised \cap tip[b] \subseteq driver

BranchesApart == \A b, c \in Beads : b # c => tip[b] \cap tip[c] \subseteq driver

NothingOwed(s) ==
  /\ \A b \in active[s] : Settled(b)
  /\ \A i \in DOMAIN queue[s] :
       ~queue[s][i].ok \/ (i = 1 /\ pc[s] \in {"remove", "delete"})
         => Settled(queue[s][i].bead)

WorkKept == NoWorkLost /\ BranchesApart /\ \A s \in Specs : NothingOwed(s)

(* The inductive invariant.                                                *)
BatchInv ==
  /\ TypeOK
  /\ Phases
  /\ SlotsApart
  /\ AgentsCounted
  /\ GitAgrees
  /\ TreesKept
  /\ WorkKept
  /\ ResultsAreTrue

-------------------------------------------------------------------------------
(* What remains of a queue when its first slot has been reported.          *)
LEMMA QueueTail ==
  ASSUME queue \in [Specs -> Seq(Sessions)], NEW s \in Specs, queue[s] # <<>>,
         queue' = [queue EXCEPT ![s] = Tail(@)]
  PROVE  /\ queue' \in [Specs -> Seq(Sessions)]
         /\ \A t \in Specs \ {s} : queue'[t] = queue[t]
         /\ \A i \in DOMAIN queue'[s] :
              i \in Nat /\ i + 1 \in DOMAIN queue[s] /\ i + 1 # 1 /\ queue'[s][i] = queue[s][i + 1]
         /\ 1 \in DOMAIN queue[s] /\ queue[s][1] = Head(queue[s])
<1>1. queue'[s] = Tail(queue[s]) /\ queue[s] \in Seq(Sessions)
  OBVIOUS
<1>2. Tail(queue[s]) \in Seq(Sessions) /\ Len(Tail(queue[s])) = Len(queue[s]) - 1
  BY <1>1, HeadTailProperties
<1>3. \A i \in 1..Len(Tail(queue[s])) : Tail(queue[s])[i] = queue[s][i + 1]
  BY <1>1, HeadTailProperties
<1>4. Len(queue[s]) \in Nat \ {0} /\ DOMAIN queue[s] = 1..Len(queue[s])
  BY <1>1, EmptySeq, LenProperties
<1>5. DOMAIN queue'[s] = 1..(Len(queue[s]) - 1)
  BY <1>1, <1>2, LenProperties
<1>. QED
  BY <1>1, <1>2, <1>3, <1>4, <1>5

(* A queue to which a finished session has been added.                     *)
LEMMA QueueAppend ==
  ASSUME queue \in [Specs -> Seq(Sessions)], NEW s \in Specs, NEW slot \in Sessions,
         queue' = [queue EXCEPT ![s] = Append(@, slot)]
  PROVE  /\ queue' \in [Specs -> Seq(Sessions)]
         /\ queue'[s] # <<>>
         /\ \A t \in Specs \ {s} : queue'[t] = queue[t]
         /\ \A i \in DOMAIN queue'[s] :
              IF i = Len(queue[s]) + 1 THEN queue'[s][i] = slot
              ELSE i \in DOMAIN queue[s] /\ queue'[s][i] = queue[s][i]
<1>1. queue'[s] = Append(queue[s], slot) /\ queue[s] \in Seq(Sessions)
  OBVIOUS
<1>2. /\ Append(queue[s], slot) \in Seq(Sessions) /\ Append(queue[s], slot) # <<>>
      /\ Len(Append(queue[s], slot)) = Len(queue[s]) + 1
      /\ \A i \in 1..Len(queue[s]) : Append(queue[s], slot)[i] = queue[s][i]
      /\ Append(queue[s], slot)[Len(queue[s]) + 1] = slot
  BY <1>1, AppendProperties
<1>3. Len(queue[s]) \in Nat /\ DOMAIN queue[s] = 1..Len(queue[s])
  BY <1>1, LenProperties
<1>4. DOMAIN queue'[s] = 1..(Len(queue[s]) + 1)
  BY <1>1, <1>2, LenProperties
<1>. QED
  BY <1>1, <1>2, <1>3, <1>4

(* What the slots of a queue are.                                          *)
LEMMA QueueSlots ==
  ASSUME TypeOK, NEW s \in Specs, NEW i \in DOMAIN queue[s]
  PROVE  queue[s][i] \in Sessions /\ queue[s][i].bead \in Beads
<1>1. queue[s] \in Seq(Sessions)
  BY DEF TypeOK, ProcessTypeOK
<1>2. queue[s][i] \in Sessions
  BY <1>1, ElementOfSeq, LenProperties
<1>. QED
  BY <1>2 DEF Sessions

(* A process that has ended has forgotten its batch.                       *)
EndedAt(s) ==
  /\ pc' = [pc EXCEPT ![s] = "idle"]
  /\ todo' \in [Specs -> SUBSET Beads] /\ active' \in [Specs -> SUBSET Beads]
  /\ queue' \in [Specs -> Seq(Sessions)]
  /\ pc'[s] = "idle" /\ todo'[s] = {} /\ active'[s] = {}
  /\ queue'[s] = <<>> /\ DOMAIN queue'[s] = {}
  /\ \A t \in Specs \ {s} : /\ pc'[t] = pc[t] /\ todo'[t] = todo[t]
                            /\ active'[t] = active[t] /\ queue'[t] = queue[t]

LEMMA Ended == ASSUME TypeOK, NEW s \in Specs, EndProcess(s) PROVE EndedAt(s)
<1>1. <<>> \in Seq(Sessions) /\ DOMAIN <<>> = {}
  BY EmptySeq
<1>. QED
  BY <1>1 DEF EndedAt, EndProcess, Goto, TypeOK, ProcessTypeOK

(* A slot is reported: its bead leaves the batch, the others keep theirs.   *)
ReportedAt(s, outcome) ==
  /\ queue' \in [Specs -> Seq(Sessions)]
  /\ 1 \in DOMAIN queue[s] /\ Slot(s) = queue[s][1] /\ Slot(s) \in Sessions
  /\ \A t \in Specs \ {s} : queue'[t] = queue[t] /\ pc'[t] = pc[t]
  /\ \A i \in DOMAIN queue'[s] :
       i \in Nat /\ i + 1 \in DOMAIN queue[s] /\ i + 1 # 1 /\ queue'[s][i] = queue[s][i + 1]
  /\ pc' = [pc EXCEPT ![s] = "merge"] /\ pc'[s] = "merge"
  /\ \A t \in Specs :
       /\ \A b \in todo[t] \cup active[t] : b # Slot(s).bead
       /\ \A i \in DOMAIN queue'[t] : queue'[t][i].bead \in Beads \ {Slot(s).bead}
  /\ result' = [result EXCEPT ![Slot(s).bead] = outcome]
  /\ todo' = todo /\ active' = active

LEMMA Reported ==
  ASSUME BatchInv, NEW s \in Specs, queue[s] # <<>>, NEW outcome, Report(s, outcome)
  PROVE  ReportedAt(s, outcome)
<1>1. queue' = [queue EXCEPT ![s] = Tail(@)] /\ queue \in [Specs -> Seq(Sessions)]
  BY DEF Report, BatchInv, TypeOK, ProcessTypeOK
<1>2. /\ queue' \in [Specs -> Seq(Sessions)]
      /\ \A t \in Specs \ {s} : queue'[t] = queue[t]
      /\ \A i \in DOMAIN queue'[s] :
           i \in Nat /\ i + 1 \in DOMAIN queue[s] /\ i + 1 # 1 /\ queue'[s][i] = queue[s][i + 1]
      /\ 1 \in DOMAIN queue[s] /\ queue[s][1] = Head(queue[s])
  BY <1>1, QueueTail
<1>3. Slot(s) = queue[s][1] /\ Slot(s) \in Sessions
  BY <1>1, <1>2 DEF Slot
<1>4. /\ pc' = [pc EXCEPT ![s] = "merge"] /\ pc'[s] = "merge"
      /\ \A t \in Specs \ {s} : pc'[t] = pc[t]
      /\ result' = [result EXCEPT ![Slot(s).bead] = outcome]
      /\ todo' = todo /\ active' = active
  BY DEF Report, Goto, BatchInv, TypeOK, ProcessTypeOK
<1>5. /\ SpecOf[Slot(s).bead] = s /\ Slot(s).bead \notin active[s]
      /\ \A t \in Specs : \A b \in todo[t] \cup active[t] : SpecOf[b] = t
      /\ \A t \in Specs : \A i \in DOMAIN queue[t] : SpecOf[queue[t][i].bead] = t
      /\ \A i \in DOMAIN queue[s] : i # 1 => queue[s][i].bead # Slot(s).bead
  BY <1>2, <1>3 DEF BatchInv, SlotsApart, Apart
<1>6. todo[s] = {}
  BY DEF BatchInv, Phases
<1>7. \A t \in Specs : \A i \in DOMAIN queue'[t] : queue'[t][i] \in Sessions
  BY <1>2, ElementOfSeq, LenProperties
<1>8. ASSUME NEW t \in Specs, NEW i \in DOMAIN queue'[t] PROVE queue'[t][i].bead # Slot(s).bead
  <2>1. CASE t = s
    BY <2>1, <1>2, <1>3, <1>5
  <2>2. CASE t # s
    BY <2>2, <1>2, <1>5
  <2>. QED
    BY <2>1, <2>2
<1>9. \A t \in Specs : \A b \in todo[t] \cup active[t] : b # Slot(s).bead
  BY <1>5, <1>6
<1>. QED
  BY <1>2, <1>3, <1>4, <1>7, <1>8, <1>9 DEF ReportedAt, Sessions

(* A session has ended: its bead moves from the active ones to the queue.  *)
QueuedAt(s, b, ok) ==
  /\ queue' \in [Specs -> Seq(Sessions)] /\ queue'[s] # <<>>
  /\ \A t \in Specs \ {s} : queue'[t] = queue[t] /\ active'[t] = active[t]
  /\ \A i \in DOMAIN queue'[s] :
       IF i = Len(queue[s]) + 1 THEN queue'[s][i] = [bead |-> b, ok |-> ok]
       ELSE i \in DOMAIN queue[s] /\ queue'[s][i] = queue[s][i]
  /\ active'[s] = active[s] \ {b} /\ active' \in [Specs -> SUBSET Beads]
  /\ agents'[b] = 0 /\ \A c \in Beads \ {b} : agents'[c] = agents[c]
  /\ agents' \in [Beads -> Nat]

LEMMA Queued ==
  ASSUME BatchInv, NEW s \in Specs, NEW b \in Beads, NEW ok \in BOOLEAN, SessionEnds(s, b, ok)
  PROVE  QueuedAt(s, b, ok)
<1>1. /\ queue \in [Specs -> Seq(Sessions)] /\ active \in [Specs -> SUBSET Beads]
      /\ agents \in [Beads -> Nat]
  BY DEF BatchInv, TypeOK, ProcessTypeOK
<1>2. [bead |-> b, ok |-> ok] \in Sessions
  BY DEF Sessions
<1>3. queue' = [queue EXCEPT ![s] = Append(@, [bead |-> b, ok |-> ok])]
  BY DEF SessionEnds
<1>4. /\ queue' \in [Specs -> Seq(Sessions)] /\ queue'[s] # <<>>
      /\ \A t \in Specs \ {s} : queue'[t] = queue[t]
      /\ \A i \in DOMAIN queue'[s] :
           IF i = Len(queue[s]) + 1 THEN queue'[s][i] = [bead |-> b, ok |-> ok]
           ELSE i \in DOMAIN queue[s] /\ queue'[s][i] = queue[s][i]
  BY <1>1, <1>2, <1>3, QueueAppend
<1>5. agents[b] = 1
  BY DEF SessionEnds, BatchInv, AgentsCounted
<1>6. /\ active' = [active EXCEPT ![s] = @ \ {b}]
      /\ agents' = [agents EXCEPT ![b] = @ - 1]
  BY DEF SessionEnds
<1>. QED
  BY <1>1, <1>4, <1>5, <1>6 DEF QueuedAt

(* Every step keeps RepoTypeOK.                                           *)
LEMMA RepoTypeOKStep == BatchInv /\ [Next]_vars => RepoTypeOK'
<1> SUFFICES ASSUME BatchInv, [Next]_vars PROVE RepoTypeOK'
  OBVIOUS
<1> USE BatchAssumption
<1>1. ASSUME NEW s \in Specs, EndProcess(s), UNCHANGED <<repo, agents, result, promised>>
      PROVE  RepoTypeOK'
  <2>1. EndedAt(s)
    BY <1>1, Ended DEF BatchInv
  <2>. QED
    BY <1>1, <2>1 DEF EndedAt, BatchInv, TypeOK, RepoTypeOK, ProcessTypeOK, Sessions,
       Goto, repo, slots, Slot,
      SlotsApart, Apart, GitAgrees, Agrees, TreesKept, KeepsTrees
<1>2. ASSUME NEW s \in Specs, MergeConflict(s)
      PROVE  RepoTypeOK'
  <2>1. queue[s] # <<>>
    BY <1>2 DEF MergeConflict, BatchInv, TypeOK, ProcessTypeOK
  <2>2. ReportedAt(s, "conflict")
    BY <1>2, <2>1, Reported DEF MergeConflict
  <2>. QED
    BY <1>2, <2>2 DEF MergeConflict, ReportedAt, BatchInv, TypeOK, RepoTypeOK,
       ProcessTypeOK, Sessions, Goto, repo, slots, Slot,
      SlotsApart, Apart, GitAgrees, Agrees, TreesKept, KeepsTrees
<1>3. ASSUME NEW s \in Specs, DeleteBranch(s)
      PROVE  RepoTypeOK'
  <2>1. queue[s] # <<>>
    BY <1>3 DEF DeleteBranch, BatchInv, TypeOK, ProcessTypeOK
  <2>2. ReportedAt(s, IF Slot(s).ok THEN "merged" ELSE "failed")
    BY <1>3, <2>1, Reported DEF DeleteBranch
  <2>. QED
    BY <1>3, <2>2 DEF DeleteBranch, ReportedAt, BatchInv, TypeOK, RepoTypeOK,
       ProcessTypeOK, Sessions, Goto, repo, slots, Slot,
      SlotsApart, Apart, GitAgrees, Agrees, TreesKept, KeepsTrees
<1>4. ASSUME NEW s \in Specs, NEW b \in Beads, NEW ok \in BOOLEAN, SessionEnds(s, b, ok)
      PROVE  RepoTypeOK'
  <2>1. QueuedAt(s, b, ok)
    BY <1>4, Queued
  <2>. QED
    BY <1>4, <2>1 DEF SessionEnds, QueuedAt, BatchInv, TypeOK, RepoTypeOK,
       ProcessTypeOK, Sessions, Goto, repo, slots, Slot,
      SlotsApart, Apart, GitAgrees, Agrees, TreesKept, KeepsTrees
<1> USE DEF BatchInv, TypeOK, RepoTypeOK, ProcessTypeOK, Sessions, Goto, repo, slots, Slot,
      SlotsApart, Apart, GitAgrees, Agrees, TreesKept, KeepsTrees
<1>5. ASSUME NEW s \in Specs, NEW beads \in SUBSET Beads, StartBatch(s, beads)
      PROVE  RepoTypeOK'
  BY <1>5 DEF StartBatch
<1>6. ASSUME NEW s \in Specs, NEW b \in Beads, CreateWorktree(s, b)
      PROVE  RepoTypeOK'
  BY <1>6 DEF CreateWorktree
<1>7. ASSUME NEW s \in Specs, NEW b \in Beads, WorkerLost(s, b)
      PROVE  RepoTypeOK'
  BY <1>7 DEF WorkerLost
<1>8. ASSUME NEW s \in Specs, SpawnAgents(s)
      PROVE  RepoTypeOK'
  BY <1>8 DEF SpawnAgents
<1>9. ASSUME NEW s \in Specs, AllJoined(s)
      PROVE  RepoTypeOK'
  BY <1>9 DEF AllJoined
<1>10. ASSUME NEW s \in Specs, DiscardFailed(s)
      PROVE  RepoTypeOK'
  BY <1>10 DEF DiscardFailed
<1>11. ASSUME NEW s \in Specs, MergeStarts(s)
      PROVE  RepoTypeOK'
  BY <1>11 DEF MergeStarts, IndexIsFree
<1>12. ASSUME NEW s \in Specs, RemoveWorktree(s)
      PROVE  RepoTypeOK'
  BY <1>12 DEF RemoveWorktree
<1>13. ASSUME NEW b \in Beads, AgentCommits(b)
      PROVE  RepoTypeOK'
  BY <1>13 DEF AgentCommits
<1>14. ASSUME NEW b \in Beads, OrphanEnds(b)
      PROVE  RepoTypeOK'
  BY <1>14 DEF OrphanEnds
<1>15. ASSUME NEW b \in Beads, HumanMerges(b)
      PROVE  RepoTypeOK'
  BY <1>15 DEF HumanMerges, InUse, IndexIsFree
<1>16. ASSUME NEW clean \in BOOLEAN, GitMergeEnds(clean)
      PROVE  RepoTypeOK'
  <2>1. merging \in branches /\ merging \in Beads /\ tip[merging] \subseteq 1..made
    BY <1>16 DEF GitMergeEnds
  <2>2. driver \subseteq 1..made /\ dirty \in branches \cup {None}
    OBVIOUS
  <2>3. CASE clean
    <3>1. driver' = driver \cup tip[merging] /\ dirty' = dirty
      BY <1>16, <2>3 DEF GitMergeEnds
    <3>2. driver' \subseteq 1..made
      BY <2>1, <2>2, <3>1
    <3>3. merging' = None /\ UNCHANGED <<made, branches, tip, trees, promised>>
      BY <1>16 DEF GitMergeEnds
    <3>. QED
      BY <2>2, <3>1, <3>2, <3>3
  <2>4. CASE ~clean
    <3>1. driver' = driver /\ dirty' = merging /\ merging' = None
      BY <1>16, <2>4 DEF GitMergeEnds
    <3>2. UNCHANGED <<made, branches, tip, trees, promised>>
      BY <1>16 DEF GitMergeEnds
    <3>. QED
      BY <2>1, <2>2, <3>1, <3>2
  <2>. QED
    BY <2>3, <2>4
<1>17. ASSUME NEW clean \in BOOLEAN, HumanResolves(clean)
      PROVE  RepoTypeOK'
  BY <1>17 DEF HumanResolves
<1>18. CASE UNCHANGED vars
  BY <1>18 DEF vars
<1> HIDE DEF BatchInv, TypeOK, RepoTypeOK, ProcessTypeOK, Sessions, Goto, repo, slots, Slot,
      SlotsApart, Apart, GitAgrees, Agrees, TreesKept, KeepsTrees
<1>. QED
  BY <1>1, <1>2, <1>3, <1>4, <1>5, <1>6, <1>7, <1>8, <1>9, <1>10, <1>11,
     <1>12, <1>13, <1>14, <1>15, <1>16, <1>17, <1>18
     DEF Next, MergeBack, CreateFails, BatchDone, MergeFails, Exit

(* Every step keeps ProcessTypeOK.                                        *)
LEMMA ProcessTypeOKStep == BatchInv /\ [Next]_vars => ProcessTypeOK'
<1> SUFFICES ASSUME BatchInv, [Next]_vars PROVE ProcessTypeOK'
  OBVIOUS
<1> USE BatchAssumption
<1>1. ASSUME NEW s \in Specs, EndProcess(s), UNCHANGED <<repo, agents, result, promised>>
      PROVE  ProcessTypeOK'
  <2>1. EndedAt(s)
    BY <1>1, Ended DEF BatchInv
  <2>2. agents' = agents /\ result' = result
    BY <1>1
  <2>3. /\ agents' \in [Beads -> Nat]
        /\ result' \in [Beads -> {"none", "merged", "conflict", "failed"}]
    BY <2>2 DEF BatchInv, TypeOK, ProcessTypeOK
  <2>4. pc' \in [Specs -> {"idle", "create", "spawn", "merge", "wait", "unmerged",
                           "remove", "delete"}]
    BY <2>1 DEF EndedAt, BatchInv, TypeOK, ProcessTypeOK
  <2>5. ASSUME NEW t \in Specs, pc'[t] \in {"wait", "unmerged", "remove", "delete"}
        PROVE  queue'[t] # <<>>
    BY <2>1, <2>5 DEF EndedAt, BatchInv, TypeOK, ProcessTypeOK
  <2>. QED
    BY <2>1, <2>3, <2>4, <2>5 DEF EndedAt, ProcessTypeOK
<1>2. ASSUME NEW s \in Specs, MergeConflict(s)
      PROVE  ProcessTypeOK'
  <2>1. queue[s] # <<>>
    BY <1>2 DEF MergeConflict, BatchInv, TypeOK, ProcessTypeOK
  <2>2. ReportedAt(s, "conflict")
    BY <1>2, <2>1, Reported DEF MergeConflict
  <2>. QED
    BY <1>2, <2>2 DEF MergeConflict, ReportedAt, BatchInv, TypeOK, RepoTypeOK,
       ProcessTypeOK, Sessions, Goto, repo, slots, Slot,
      AgentsCounted, Phases
<1>3. ASSUME NEW s \in Specs, DeleteBranch(s)
      PROVE  ProcessTypeOK'
  <2>1. queue[s] # <<>>
    BY <1>3 DEF DeleteBranch, BatchInv, TypeOK, ProcessTypeOK
  <2>2. ReportedAt(s, IF Slot(s).ok THEN "merged" ELSE "failed")
    BY <1>3, <2>1, Reported DEF DeleteBranch
  <2>. QED
    BY <1>3, <2>2 DEF DeleteBranch, ReportedAt, BatchInv, TypeOK, RepoTypeOK,
       ProcessTypeOK, Sessions, Goto, repo, slots, Slot,
      AgentsCounted, Phases
<1>4. ASSUME NEW s \in Specs, NEW b \in Beads, NEW ok \in BOOLEAN, SessionEnds(s, b, ok)
      PROVE  ProcessTypeOK'
  <2>1. QueuedAt(s, b, ok)
    BY <1>4, Queued
  <2>. QED
    BY <1>4, <2>1 DEF SessionEnds, QueuedAt, BatchInv, TypeOK, RepoTypeOK,
       ProcessTypeOK, Sessions, Goto, repo, slots, Slot,
      AgentsCounted, Phases
<1> USE DEF BatchInv, TypeOK, RepoTypeOK, ProcessTypeOK, Sessions, Goto, repo, slots, Slot,
      AgentsCounted, Phases
<1>5. ASSUME NEW s \in Specs, NEW beads \in SUBSET Beads, StartBatch(s, beads)
      PROVE  ProcessTypeOK'
  BY <1>5 DEF StartBatch
<1>6. ASSUME NEW s \in Specs, NEW b \in Beads, CreateWorktree(s, b)
      PROVE  ProcessTypeOK'
  BY <1>6 DEF CreateWorktree
<1>7. ASSUME NEW s \in Specs, NEW b \in Beads, WorkerLost(s, b)
      PROVE  ProcessTypeOK'
  BY <1>7 DEF WorkerLost
<1>8. ASSUME NEW s \in Specs, SpawnAgents(s)
      PROVE  ProcessTypeOK'
  <2>1. agents' \in [Beads -> Nat]
    BY <1>8 DEF SpawnAgents
  <2>2. /\ pc' \in [Specs -> {"idle", "create", "spawn", "merge", "wait", "unmerged",
                              "remove", "delete"}]
        /\ pc'[s] = "spawn" /\ \A t \in Specs \ {s} : pc'[t] = pc[t]
        /\ UNCHANGED <<todo, active, queue, result>>
    BY <1>8 DEF SpawnAgents
  <2>. QED
    BY <2>1, <2>2
<1>9. ASSUME NEW s \in Specs, AllJoined(s)
      PROVE  ProcessTypeOK'
  BY <1>9 DEF AllJoined
<1>10. ASSUME NEW s \in Specs, DiscardFailed(s)
      PROVE  ProcessTypeOK'
  BY <1>10 DEF DiscardFailed
<1>11. ASSUME NEW s \in Specs, MergeStarts(s)
      PROVE  ProcessTypeOK'
  BY <1>11 DEF MergeStarts, IndexIsFree
<1>12. ASSUME NEW s \in Specs, RemoveWorktree(s)
      PROVE  ProcessTypeOK'
  BY <1>12 DEF RemoveWorktree
<1>13. ASSUME NEW b \in Beads, AgentCommits(b)
      PROVE  ProcessTypeOK'
  BY <1>13 DEF AgentCommits
<1>14. ASSUME NEW b \in Beads, OrphanEnds(b)
      PROVE  ProcessTypeOK'
  BY <1>14 DEF OrphanEnds
<1>15. ASSUME NEW b \in Beads, HumanMerges(b)
      PROVE  ProcessTypeOK'
  BY <1>15 DEF HumanMerges, InUse, IndexIsFree
<1>16. ASSUME NEW clean \in BOOLEAN, GitMergeEnds(clean)
      PROVE  ProcessTypeOK'
  BY <1>16 DEF GitMergeEnds
<1>17. ASSUME NEW clean \in BOOLEAN, HumanResolves(clean)
      PROVE  ProcessTypeOK'
  BY <1>17 DEF HumanResolves
<1>18. CASE UNCHANGED vars
  BY <1>18 DEF vars
<1> HIDE DEF BatchInv, TypeOK, RepoTypeOK, ProcessTypeOK, Sessions, Goto, repo, slots, Slot,
      AgentsCounted, Phases
<1>. QED
  BY <1>1, <1>2, <1>3, <1>4, <1>5, <1>6, <1>7, <1>8, <1>9, <1>10, <1>11,
     <1>12, <1>13, <1>14, <1>15, <1>16, <1>17, <1>18
     DEF Next, MergeBack, CreateFails, BatchDone, MergeFails, Exit

(* Every step keeps Phases.                                               *)
LEMMA PhasesStep == BatchInv /\ [Next]_vars => Phases'
<1> SUFFICES ASSUME BatchInv, [Next]_vars PROVE Phases'
  OBVIOUS
<1> USE BatchAssumption
<1>1. ASSUME NEW s \in Specs, EndProcess(s), UNCHANGED <<repo, agents, result, promised>>
      PROVE  Phases'
  <2>1. EndedAt(s)
    BY <1>1, Ended DEF BatchInv
  <2>. QED
    BY <1>1, <2>1 DEF EndedAt, BatchInv, TypeOK, RepoTypeOK, ProcessTypeOK, Sessions,
       Goto, repo, slots, Slot,
      Phases
<1>2. ASSUME NEW s \in Specs, MergeConflict(s)
      PROVE  Phases'
  <2>1. queue[s] # <<>>
    BY <1>2 DEF MergeConflict, BatchInv, TypeOK, ProcessTypeOK
  <2>2. ReportedAt(s, "conflict")
    BY <1>2, <2>1, Reported DEF MergeConflict
  <2>. QED
    BY <1>2, <2>2 DEF MergeConflict, ReportedAt, BatchInv, TypeOK, RepoTypeOK,
       ProcessTypeOK, Sessions, Goto, repo, slots, Slot,
      Phases
<1>3. ASSUME NEW s \in Specs, DeleteBranch(s)
      PROVE  Phases'
  <2>1. queue[s] # <<>>
    BY <1>3 DEF DeleteBranch, BatchInv, TypeOK, ProcessTypeOK
  <2>2. ReportedAt(s, IF Slot(s).ok THEN "merged" ELSE "failed")
    BY <1>3, <2>1, Reported DEF DeleteBranch
  <2>. QED
    BY <1>3, <2>2 DEF DeleteBranch, ReportedAt, BatchInv, TypeOK, RepoTypeOK,
       ProcessTypeOK, Sessions, Goto, repo, slots, Slot,
      Phases
<1>4. ASSUME NEW s \in Specs, NEW b \in Beads, NEW ok \in BOOLEAN, SessionEnds(s, b, ok)
      PROVE  Phases'
  <2>1. QueuedAt(s, b, ok)
    BY <1>4, Queued
  <2>. QED
    BY <1>4, <2>1 DEF SessionEnds, QueuedAt, BatchInv, TypeOK, RepoTypeOK,
       ProcessTypeOK, Sessions, Goto, repo, slots, Slot,
      Phases
<1> USE DEF BatchInv, TypeOK, RepoTypeOK, ProcessTypeOK, Sessions, Goto, repo, slots, Slot,
      Phases
<1>5. ASSUME NEW s \in Specs, NEW beads \in SUBSET Beads, StartBatch(s, beads)
      PROVE  Phases'
  BY <1>5 DEF StartBatch
<1>6. ASSUME NEW s \in Specs, NEW b \in Beads, CreateWorktree(s, b)
      PROVE  Phases'
  BY <1>6 DEF CreateWorktree
<1>7. ASSUME NEW s \in Specs, NEW b \in Beads, WorkerLost(s, b)
      PROVE  Phases'
  BY <1>7 DEF WorkerLost
<1>8. ASSUME NEW s \in Specs, SpawnAgents(s)
      PROVE  Phases'
  BY <1>8 DEF SpawnAgents
<1>9. ASSUME NEW s \in Specs, AllJoined(s)
      PROVE  Phases'
  BY <1>9 DEF AllJoined
<1>10. ASSUME NEW s \in Specs, DiscardFailed(s)
      PROVE  Phases'
  BY <1>10 DEF DiscardFailed
<1>11. ASSUME NEW s \in Specs, MergeStarts(s)
      PROVE  Phases'
  BY <1>11 DEF MergeStarts, IndexIsFree
<1>12. ASSUME NEW s \in Specs, RemoveWorktree(s)
      PROVE  Phases'
  BY <1>12 DEF RemoveWorktree
<1>13. ASSUME NEW b \in Beads, AgentCommits(b)
      PROVE  Phases'
  BY <1>13 DEF AgentCommits
<1>14. ASSUME NEW b \in Beads, OrphanEnds(b)
      PROVE  Phases'
  BY <1>14 DEF OrphanEnds
<1>15. ASSUME NEW b \in Beads, HumanMerges(b)
      PROVE  Phases'
  BY <1>15 DEF HumanMerges, InUse, IndexIsFree
<1>16. ASSUME NEW clean \in BOOLEAN, GitMergeEnds(clean)
      PROVE  Phases'
  BY <1>16 DEF GitMergeEnds
<1>17. ASSUME NEW clean \in BOOLEAN, HumanResolves(clean)
      PROVE  Phases'
  BY <1>17 DEF HumanResolves
<1>18. CASE UNCHANGED vars
  BY <1>18 DEF vars
<1> HIDE DEF BatchInv, TypeOK, RepoTypeOK, ProcessTypeOK, Sessions, Goto, repo, slots, Slot,
      Phases
<1>. QED
  BY <1>1, <1>2, <1>3, <1>4, <1>5, <1>6, <1>7, <1>8, <1>9, <1>10, <1>11,
     <1>12, <1>13, <1>14, <1>15, <1>16, <1>17, <1>18
     DEF Next, MergeBack, CreateFails, BatchDone, MergeFails, Exit

(* Reporting a slot, and deleting at most its branch, keeps SlotsApart.     *)
LEMMA ReportedApart ==
  ASSUME BatchInv, NEW s \in Specs, NEW outcome, ReportedAt(s, outcome),
         branches \ {Slot(s).bead} \subseteq branches'
  PROVE  SlotsApart'
<1>1. ASSUME NEW t \in Specs
      PROVE  \A b \in todo'[t] \cup active'[t] : SpecOf[b] = t /\ result'[b] = "none"
  BY DEF ReportedAt, BatchInv, SlotsApart, Apart, TypeOK, ProcessTypeOK
<1>2. ASSUME NEW t \in Specs
      PROVE  todo'[t] \cap active'[t] = {} /\ active'[t] \subseteq branches'
  BY DEF ReportedAt, BatchInv, SlotsApart, Apart
<1>3. ASSUME NEW t \in Specs, NEW i \in DOMAIN queue'[t]
      PROVE  \E j \in DOMAIN queue[t] : queue'[t][i] = queue[t][j]
  BY DEF ReportedAt
<1>4. ASSUME NEW t \in Specs, NEW i \in DOMAIN queue'[t]
      PROVE  /\ SpecOf[queue'[t][i].bead] = t
             /\ result'[queue'[t][i].bead] = "none"
             /\ queue'[t][i].bead \in branches' \ active'[t]
  BY <1>3, <1>4 DEF ReportedAt, BatchInv, SlotsApart, Apart, TypeOK, ProcessTypeOK
<1>5. ASSUME NEW t \in Specs, NEW i \in DOMAIN queue'[t], NEW j \in DOMAIN queue'[t], i # j
      PROVE  queue'[t][i].bead # queue'[t][j].bead
  <2>1. CASE t = s
    BY <1>5, <2>1 DEF ReportedAt, BatchInv, SlotsApart, Apart
  <2>2. CASE t # s
    BY <1>5, <2>2 DEF ReportedAt, BatchInv, SlotsApart, Apart
  <2>. QED
    BY <2>1, <2>2
<1>. QED
  BY <1>1, <1>2, <1>4, <1>5 DEF SlotsApart, Apart

(* Every step keeps SlotsApart.                                           *)
LEMMA SlotsApartStep == BatchInv /\ [Next]_vars => SlotsApart'
<1> SUFFICES ASSUME BatchInv, [Next]_vars PROVE SlotsApart'
  OBVIOUS
<1> USE BatchAssumption
<1>1. ASSUME NEW s \in Specs, EndProcess(s), UNCHANGED <<repo, agents, result, promised>>
      PROVE  SlotsApart'
  <2>1. EndedAt(s)
    BY <1>1, Ended DEF BatchInv
  <2>2. ASSUME NEW t \in Specs, t # s PROVE Apart(t)'
    <3>1. Apart(t) /\ UNCHANGED <<branches, result>>
      BY <1>1 DEF BatchInv, SlotsApart, repo
    <3>2. todo'[t] = todo[t] /\ active'[t] = active[t] /\ queue'[t] = queue[t]
      BY <2>1, <2>2 DEF EndedAt
    <3>. QED
      BY <3>1, <3>2 DEF Apart
  <2>3. Apart(s)'
    BY <2>1 DEF EndedAt, Apart
  <2>. QED
    BY <2>2, <2>3 DEF SlotsApart
<1>2. ASSUME NEW s \in Specs, MergeConflict(s)
      PROVE  SlotsApart'
  <2>1. queue[s] # <<>> /\ branches' = branches
    BY <1>2 DEF MergeConflict, BatchInv, TypeOK, ProcessTypeOK, repo
  <2>2. ReportedAt(s, "conflict")
    BY <1>2, <2>1, Reported DEF MergeConflict
  <2>. QED
    BY <2>1, <2>2, ReportedApart
<1>3. ASSUME NEW s \in Specs, DeleteBranch(s)
      PROVE  SlotsApart'
  <2>1. queue[s] # <<>> /\ branches' = branches \ {Slot(s).bead}
    BY <1>3 DEF DeleteBranch, BatchInv, TypeOK, ProcessTypeOK
  <2>2. ReportedAt(s, IF Slot(s).ok THEN "merged" ELSE "failed")
    BY <1>3, <2>1, Reported DEF DeleteBranch
  <2>. QED
    BY <2>1, <2>2, ReportedApart
<1>4. ASSUME NEW s \in Specs, NEW b \in Beads, NEW ok \in BOOLEAN, SessionEnds(s, b, ok)
      PROVE  SlotsApart'
  <2>1. QueuedAt(s, b, ok)
    BY <1>4, Queued
  <2>2. ASSUME NEW t \in Specs, t # s PROVE Apart(t)'
    BY <1>4, <2>1, <2>2 DEF SessionEnds, QueuedAt, BatchInv, SlotsApart, Apart, repo,
       TypeOK, ProcessTypeOK, Sessions
  <2>3. Apart(s)'
    BY <1>4, <2>1 DEF SessionEnds, QueuedAt, BatchInv, SlotsApart, Apart, repo, TypeOK,
       ProcessTypeOK, Sessions
  <2>. QED
    BY <2>2, <2>3 DEF SlotsApart
<1> USE DEF BatchInv, TypeOK, RepoTypeOK, ProcessTypeOK, Sessions, Goto, repo, slots, Slot,
      Phases, SlotsApart, Apart
<1>5. ASSUME NEW s \in Specs, NEW beads \in SUBSET Beads, StartBatch(s, beads)
      PROVE  SlotsApart'
  <2>1. pc[s] = "idle" /\ todo[s] = {} /\ active[s] = {} /\ queue[s] = <<>>
    BY <1>5 DEF StartBatch
  <2>2. /\ todo'[s] = beads /\ \A b \in beads : SpecOf[b] = s /\ result'[b] = "none"
        /\ \A b \in Beads : result[b] = "none" => result'[b] = "none"
        /\ active' = active /\ queue' = queue /\ branches' = branches
        /\ \A t \in Specs \ {s} : todo'[t] = todo[t]
    BY <1>5 DEF StartBatch
  <2>3. ASSUME NEW t \in Specs, t # s PROVE Apart(t)'
    BY <2>2, <2>3
  <2>4. Apart(s)'
    <3>1. DOMAIN queue[s] = {}
      BY <2>1
    <3>. QED
      BY <2>1, <2>2, <3>1
  <2> HIDE DEF Apart
  <2>. QED
    BY <2>3, <2>4
<1>6. ASSUME NEW s \in Specs, NEW b \in Beads, CreateWorktree(s, b)
      PROVE  SlotsApart'
  BY <1>6 DEF CreateWorktree
<1>7. ASSUME NEW s \in Specs, NEW b \in Beads, WorkerLost(s, b)
      PROVE  SlotsApart'
  BY <1>7 DEF WorkerLost
<1>8. ASSUME NEW s \in Specs, SpawnAgents(s)
      PROVE  SlotsApart'
  BY <1>8 DEF SpawnAgents
<1>9. ASSUME NEW s \in Specs, AllJoined(s)
      PROVE  SlotsApart'
  BY <1>9 DEF AllJoined
<1>10. ASSUME NEW s \in Specs, DiscardFailed(s)
      PROVE  SlotsApart'
  BY <1>10 DEF DiscardFailed
<1>11. ASSUME NEW s \in Specs, MergeStarts(s)
      PROVE  SlotsApart'
  BY <1>11 DEF MergeStarts, IndexIsFree
<1>12. ASSUME NEW s \in Specs, RemoveWorktree(s)
      PROVE  SlotsApart'
  BY <1>12 DEF RemoveWorktree
<1>13. ASSUME NEW b \in Beads, AgentCommits(b)
      PROVE  SlotsApart'
  BY <1>13 DEF AgentCommits
<1>14. ASSUME NEW b \in Beads, OrphanEnds(b)
      PROVE  SlotsApart'
  BY <1>14 DEF OrphanEnds
<1>15. ASSUME NEW b \in Beads, HumanMerges(b)
      PROVE  SlotsApart'
  BY <1>15 DEF HumanMerges, InUse, IndexIsFree
<1>16. ASSUME NEW clean \in BOOLEAN, GitMergeEnds(clean)
      PROVE  SlotsApart'
  BY <1>16 DEF GitMergeEnds
<1>17. ASSUME NEW clean \in BOOLEAN, HumanResolves(clean)
      PROVE  SlotsApart'
  BY <1>17 DEF HumanResolves
<1>18. CASE UNCHANGED vars
  BY <1>18 DEF vars
<1> HIDE DEF BatchInv, TypeOK, RepoTypeOK, ProcessTypeOK, Sessions, Goto, repo, slots, Slot,
      Phases, SlotsApart, Apart
<1>. QED
  BY <1>1, <1>2, <1>3, <1>4, <1>5, <1>6, <1>7, <1>8, <1>9, <1>10, <1>11,
     <1>12, <1>13, <1>14, <1>15, <1>16, <1>17, <1>18
     DEF Next, MergeBack, CreateFails, BatchDone, MergeFails, Exit

(* Every step keeps AgentsCounted.                                        *)
LEMMA AgentsCountedStep == BatchInv /\ [Next]_vars => AgentsCounted'
<1> SUFFICES ASSUME BatchInv, [Next]_vars PROVE AgentsCounted'
  OBVIOUS
<1> USE BatchAssumption
<1>1. ASSUME NEW s \in Specs, EndProcess(s), UNCHANGED <<repo, agents, result, promised>>
      PROVE  AgentsCounted'
  <2>1. EndedAt(s)
    BY <1>1, Ended DEF BatchInv
  <2>2. UNCHANGED <<agents, branches>>
    BY <1>1 DEF repo
  <2>3. \A t \in Specs : /\ active'[t] = {} \/ (active'[t] = active[t] /\ pc'[t] = pc[t])
                         /\ DOMAIN queue'[t] = {} \/ queue'[t] = queue[t]
    BY <2>1 DEF EndedAt
  <2>. QED
    BY <2>2, <2>3 DEF BatchInv, AgentsCounted
<1>2. ASSUME NEW s \in Specs, MergeConflict(s)
      PROVE  AgentsCounted'
  <2>1. queue[s] # <<>> /\ active[s] = {}
    BY <1>2 DEF MergeConflict, BatchInv, TypeOK, ProcessTypeOK, Phases
  <2>2. ReportedAt(s, "conflict")
    BY <1>2, <2>1, Reported DEF MergeConflict
  <2>3. UNCHANGED <<agents, branches>>
    BY <1>2 DEF MergeConflict, repo
  <2>4. ASSUME NEW t \in Specs
        PROVE  /\ active'[t] = {} \/ (active'[t] = active[t] /\ pc'[t] = pc[t])
               /\ \A i \in DOMAIN queue'[t] : \E j \in DOMAIN queue[t] : queue'[t][i] = queue[t][j]
    BY <2>1, <2>2 DEF ReportedAt
  <2>. QED
    BY <2>3, <2>4 DEF BatchInv, AgentsCounted
<1>3. ASSUME NEW s \in Specs, DeleteBranch(s)
      PROVE  AgentsCounted'
  <2>1. queue[s] # <<>>
    BY <1>3 DEF DeleteBranch, BatchInv, TypeOK, ProcessTypeOK
  <2>2. ReportedAt(s, IF Slot(s).ok THEN "merged" ELSE "failed")
    BY <1>3, <2>1, Reported DEF DeleteBranch
  <2>3. agents' = agents /\ branches' = branches \ {Slot(s).bead}
    BY <1>3 DEF DeleteBranch
  <2>4. agents[Slot(s).bead] = 0
    BY <2>2 DEF ReportedAt, BatchInv, AgentsCounted
  <2>5. \A b \in Beads : agents'[b] <= 1 /\ (b \notin branches' => agents'[b] = 0)
    BY <2>3, <2>4 DEF BatchInv, AgentsCounted
  <2>6. ASSUME NEW t \in Specs, NEW b \in active'[t]
        PROVE  agents'[b] = IF pc'[t] = "spawn" THEN 1 ELSE 0
    <3>1. pc[s] = "delete" /\ active[s] = {}
      BY <1>3 DEF DeleteBranch, BatchInv, Phases
    <3>. QED
      BY <2>2, <2>3, <2>6, <3>1 DEF ReportedAt, BatchInv, AgentsCounted
  <2>7. ASSUME NEW t \in Specs, NEW i \in DOMAIN queue'[t] PROVE agents'[queue'[t][i].bead] = 0
    <3>1. PICK j \in DOMAIN queue[t] : queue'[t][i] = queue[t][j]
      BY <2>2 DEF ReportedAt
    <3>. QED
      BY <2>3, <3>1 DEF BatchInv, AgentsCounted
  <2>. QED
    BY <2>5, <2>6, <2>7 DEF AgentsCounted
<1>4. ASSUME NEW s \in Specs, NEW b \in Beads, NEW ok \in BOOLEAN, SessionEnds(s, b, ok)
      PROVE  AgentsCounted'
  <2>1. QueuedAt(s, b, ok)
    BY <1>4, Queued
  <2>. QED
    BY <1>4, <2>1 DEF SessionEnds, QueuedAt, BatchInv, TypeOK, RepoTypeOK,
       ProcessTypeOK, Sessions, Goto, repo, slots, Slot,
      Phases, SlotsApart, Apart, AgentsCounted
<1> USE DEF BatchInv, TypeOK, RepoTypeOK, ProcessTypeOK, Sessions, Goto, repo, slots, Slot,
      Phases, SlotsApart, Apart, AgentsCounted
<1>5. ASSUME NEW s \in Specs, NEW beads \in SUBSET Beads, StartBatch(s, beads)
      PROVE  AgentsCounted'
  BY <1>5 DEF StartBatch
<1>6. ASSUME NEW s \in Specs, NEW b \in Beads, CreateWorktree(s, b)
      PROVE  AgentsCounted'
  BY <1>6 DEF CreateWorktree
<1>7. ASSUME NEW s \in Specs, NEW b \in Beads, WorkerLost(s, b)
      PROVE  AgentsCounted'
  BY <1>7 DEF WorkerLost
<1>8. ASSUME NEW s \in Specs, SpawnAgents(s)
      PROVE  AgentsCounted'
  BY <1>8 DEF SpawnAgents
<1>9. ASSUME NEW s \in Specs, AllJoined(s)
      PROVE  AgentsCounted'
  BY <1>9 DEF AllJoined
<1>10. ASSUME NEW s \in Specs, DiscardFailed(s)
      PROVE  AgentsCounted'
  BY <1>10 DEF DiscardFailed
<1>11. ASSUME NEW s \in Specs, MergeStarts(s)
      PROVE  AgentsCounted'
  BY <1>11 DEF MergeStarts, IndexIsFree
<1>12. ASSUME NEW s \in Specs, RemoveWorktree(s)
      PROVE  AgentsCounted'
  BY <1>12 DEF RemoveWorktree
<1>13. ASSUME NEW b \in Beads, AgentCommits(b)
      PROVE  AgentsCounted'
  BY <1>13 DEF AgentCommits
<1>14. ASSUME NEW b \in Beads, OrphanEnds(b)
      PROVE  AgentsCounted'
  BY <1>14 DEF OrphanEnds
<1>15. ASSUME NEW b \in Beads, HumanMerges(b)
      PROVE  AgentsCounted'
  BY <1>15 DEF HumanMerges, InUse, IndexIsFree
<1>16. ASSUME NEW clean \in BOOLEAN, GitMergeEnds(clean)
      PROVE  AgentsCounted'
  BY <1>16 DEF GitMergeEnds
<1>17. ASSUME NEW clean \in BOOLEAN, HumanResolves(clean)
      PROVE  AgentsCounted'
  BY <1>17 DEF HumanResolves
<1>18. CASE UNCHANGED vars
  BY <1>18 DEF vars
<1> HIDE DEF BatchInv, TypeOK, RepoTypeOK, ProcessTypeOK, Sessions, Goto, repo, slots, Slot,
      Phases, SlotsApart, Apart, AgentsCounted
<1>. QED
  BY <1>1, <1>2, <1>3, <1>4, <1>5, <1>6, <1>7, <1>8, <1>9, <1>10, <1>11,
     <1>12, <1>13, <1>14, <1>15, <1>16, <1>17, <1>18
     DEF Next, MergeBack, CreateFails, BatchDone, MergeFails, Exit

(* A step that leaves git and the queues alone, and moves no process to or *)
(* from the points where it looks at git, keeps GitAgrees.                 *)
LEMMA GitUntouched ==
  ASSUME BatchInv, UNCHANGED <<merging, dirty, queue>>,
         \A t \in Specs : \A b \in active'[t] : b \in active[t] \/ (b # merging /\ b # dirty),
         \A t \in Specs : pc'[t] = pc[t] \/ {pc[t], pc'[t]} \cap {"wait", "unmerged"} = {}
  PROVE  GitAgrees'
<1> SUFFICES ASSUME NEW t \in Specs PROVE Agrees(t)'
  BY DEF GitAgrees
<1>1. Agrees(t)
  BY DEF BatchInv, GitAgrees
<1>2. pc'[t] \in {"wait", "unmerged"} \/ pc[t] \in {"wait", "unmerged"} => pc'[t] = pc[t]
  OBVIOUS
<1>. QED
  BY <1>1, <1>2 DEF Agrees, Slot

(* Every step keeps GitAgrees.                                            *)
LEMMA GitAgreesStep == BatchInv /\ [Next]_vars => GitAgrees'
<1> SUFFICES ASSUME BatchInv, [Next]_vars PROVE GitAgrees'
  OBVIOUS
<1> USE BatchAssumption
<1>1. ASSUME NEW s \in Specs, EndProcess(s), UNCHANGED <<repo, agents, result, promised>>
      PROVE  GitAgrees'
  <2>1. EndedAt(s)
    BY <1>1, Ended DEF BatchInv
  <2>2. ASSUME NEW t \in Specs, t # s PROVE Agrees(t)'
    <3>1. Agrees(t) /\ UNCHANGED <<merging, dirty>>
      BY <1>1 DEF BatchInv, GitAgrees, repo
    <3>2. pc'[t] = pc[t] /\ active'[t] = active[t] /\ queue'[t] = queue[t]
      BY <2>1, <2>2 DEF EndedAt
    <3>. QED
      BY <3>1, <3>2 DEF Agrees, Slot
  <2>3. Agrees(s)'
    BY <2>1 DEF EndedAt, Agrees
  <2>. QED
    BY <2>2, <2>3 DEF GitAgrees
<1>2. ASSUME NEW s \in Specs, MergeConflict(s)
      PROVE  GitAgrees'
  <2>1. queue[s] # <<>>
    BY <1>2 DEF MergeConflict, BatchInv, TypeOK, ProcessTypeOK
  <2>2. ReportedAt(s, "conflict")
    BY <1>2, <2>1, Reported DEF MergeConflict
  <2>3. ASSUME NEW t \in Specs, t # s PROVE Agrees(t)'
    BY <1>2, <2>2, <2>3 DEF MergeConflict, ReportedAt, BatchInv, GitAgrees, Agrees,
       repo, TypeOK, ProcessTypeOK, Sessions, SlotsApart, Apart, Slot
  <2>4. Agrees(s)'
    BY <1>2, <2>2 DEF MergeConflict, ReportedAt, BatchInv, GitAgrees, Agrees, repo,
       TypeOK, ProcessTypeOK, Sessions, SlotsApart, Apart, Slot
  <2>. QED
    BY <2>3, <2>4 DEF GitAgrees
<1>3. ASSUME NEW s \in Specs, DeleteBranch(s)
      PROVE  GitAgrees'
  <2>1. queue[s] # <<>>
    BY <1>3 DEF DeleteBranch, BatchInv, TypeOK, ProcessTypeOK
  <2>2. ReportedAt(s, IF Slot(s).ok THEN "merged" ELSE "failed")
    BY <1>3, <2>1, Reported DEF DeleteBranch
  <2>3. ASSUME NEW t \in Specs, t # s PROVE Agrees(t)'
    BY <1>3, <2>2, <2>3 DEF DeleteBranch, ReportedAt, BatchInv, GitAgrees, Agrees, repo,
       TypeOK, ProcessTypeOK, Sessions, SlotsApart, Apart, Slot
  <2>4. Agrees(s)'
    BY <1>3, <2>2 DEF DeleteBranch, ReportedAt, BatchInv, GitAgrees, Agrees, repo,
       TypeOK, ProcessTypeOK, Sessions, SlotsApart, Apart, Slot
  <2>. QED
    BY <2>3, <2>4 DEF GitAgrees
<1>4. ASSUME NEW s \in Specs, NEW b \in Beads, NEW ok \in BOOLEAN, SessionEnds(s, b, ok)
      PROVE  GitAgrees'
  <2>1. QueuedAt(s, b, ok)
    BY <1>4, Queued
  <2>2. ASSUME NEW t \in Specs, t # s PROVE Agrees(t)'
    BY <1>4, <2>1, <2>2 DEF SessionEnds, QueuedAt, BatchInv, GitAgrees, Agrees, repo,
       TypeOK, ProcessTypeOK, Sessions, SlotsApart, Apart, Slot
  <2>3. Agrees(s)'
    BY <1>4, <2>1 DEF SessionEnds, QueuedAt, BatchInv, GitAgrees, Agrees, repo, TypeOK,
       ProcessTypeOK, Sessions, SlotsApart, Apart, Slot
  <2>. QED
    BY <2>2, <2>3 DEF GitAgrees
<1> USE DEF BatchInv, TypeOK, RepoTypeOK, ProcessTypeOK, Sessions, Goto, repo, slots, Slot,
      Phases, SlotsApart, Apart, GitAgrees, Agrees
<1>5. ASSUME NEW s \in Specs, NEW beads \in SUBSET Beads, StartBatch(s, beads)
      PROVE  GitAgrees'
  <2> HIDE DEF BatchInv, TypeOK, RepoTypeOK, ProcessTypeOK, Phases, SlotsApart, Apart, GitAgrees,
        Agrees
  <2>1. UNCHANGED <<merging, dirty, queue, active>>
    BY <1>5 DEF StartBatch
  <2>2. \A t \in Specs : pc'[t] = pc[t] \/ {pc[t], pc'[t]} \cap {"wait", "unmerged"} = {}
    BY <1>5 DEF StartBatch, BatchInv, TypeOK, ProcessTypeOK
  <2>. QED
    BY <2>1, <2>2, GitUntouched
<1>6. ASSUME NEW s \in Specs, NEW b \in Beads, CreateWorktree(s, b)
      PROVE  GitAgrees'
  <2> HIDE DEF BatchInv, TypeOK, RepoTypeOK, ProcessTypeOK, Phases, SlotsApart, Apart, GitAgrees,
        Agrees
  <2>1. UNCHANGED <<merging, dirty, queue, pc>>
    BY <1>6 DEF CreateWorktree
  <2>2. b # merging /\ b # dirty
    BY <1>6 DEF CreateWorktree, BatchInv, TypeOK, RepoTypeOK
  <2>3. \A t \in Specs : active'[t] \subseteq active[t] \cup {b}
    BY <1>6 DEF CreateWorktree, BatchInv, TypeOK, ProcessTypeOK
  <2>. QED
    BY <2>1, <2>2, <2>3, GitUntouched
<1>7. ASSUME NEW s \in Specs, NEW b \in Beads, WorkerLost(s, b)
      PROVE  GitAgrees'
  BY <1>7 DEF WorkerLost
<1>8. ASSUME NEW s \in Specs, SpawnAgents(s)
      PROVE  GitAgrees'
  <2> HIDE DEF BatchInv, TypeOK, RepoTypeOK, ProcessTypeOK, Phases, SlotsApart, Apart, GitAgrees,
        Agrees
  <2>1. UNCHANGED <<merging, dirty, queue, active>>
    BY <1>8 DEF SpawnAgents
  <2>2. \A t \in Specs : pc'[t] = pc[t] \/ {pc[t], pc'[t]} \cap {"wait", "unmerged"} = {}
    BY <1>8 DEF SpawnAgents, BatchInv, TypeOK, ProcessTypeOK
  <2>. QED
    BY <2>1, <2>2, GitUntouched
<1>9. ASSUME NEW s \in Specs, AllJoined(s)
      PROVE  GitAgrees'
  BY <1>9 DEF AllJoined
<1>10. ASSUME NEW s \in Specs, DiscardFailed(s)
      PROVE  GitAgrees'
  BY <1>10 DEF DiscardFailed
<1>11. ASSUME NEW s \in Specs, MergeStarts(s)
      PROVE  GitAgrees'
  <2>1. CASE IndexIsFree
    <3>1. /\ merging' = Slot(s).bead /\ dirty' = None /\ merging = None
          /\ pc' = [pc EXCEPT ![s] = "wait"] /\ UNCHANGED <<active, queue>>
      BY <1>11, <2>1 DEF MergeStarts, IndexIsFree
    <3>2. pc'[s] = "wait" /\ \A t \in Specs \ {s} : pc'[t] = pc[t]
      BY <3>1
    <3>3. pc[s] = "merge" /\ queue[s] \in Seq(Sessions) /\ queue[s] # <<>> /\ active[s] = {}
      BY <1>11 DEF MergeStarts
    <3>4. 1 \in DOMAIN queue[s] /\ Slot(s) = queue[s][1]
      BY <3>3, LenProperties, EmptySeq
    <3>5. \A t \in Specs : \A i \in DOMAIN queue[t] : queue[t][i].bead \in Beads
      BY ElementOfSeq, LenProperties
    <3>6. Slot(s).bead \in Beads /\ SpecOf[Slot(s).bead] = s
      BY <3>4, <3>5
    <3>7. ASSUME NEW t \in Specs, t # s PROVE Agrees(t)'
      <4>1. \A b \in active[t] : b # Slot(s).bead
        BY <3>6, <3>7
      <4>2. \A i \in DOMAIN queue[t] : queue[t][i].bead # Slot(s).bead
        BY <3>6, <3>7
      <4>3. Agrees(t) /\ pc'[t] = pc[t] /\ \A i \in DOMAIN queue[t] : queue[t][i].bead # None
        BY <3>2, <3>5, <3>7
      <4>4. pc[t] # "wait" /\ \A b \in active[t] : b # None
        BY <3>1, <4>3
      <4>. QED
        BY <3>1, <4>1, <4>2, <4>3, <4>4
    <3>8. Agrees(s)'
      BY <3>1, <3>2, <3>3, <3>4, <3>5
    <3> HIDE DEF Agrees
    <3>. QED
      BY <3>7, <3>8
  <2>2. CASE ~IndexIsFree
    BY <1>11, <2>2 DEF MergeStarts
  <2>. QED
    BY <2>1, <2>2
<1>12. ASSUME NEW s \in Specs, RemoveWorktree(s)
      PROVE  GitAgrees'
  BY <1>12 DEF RemoveWorktree
<1>13. ASSUME NEW b \in Beads, AgentCommits(b)
      PROVE  GitAgrees'
  BY <1>13 DEF AgentCommits
<1>14. ASSUME NEW b \in Beads, OrphanEnds(b)
      PROVE  GitAgrees'
  BY <1>14 DEF OrphanEnds
<1>15. ASSUME NEW b \in Beads, HumanMerges(b)
      PROVE  GitAgrees'
  BY <1>15 DEF HumanMerges, InUse, IndexIsFree
<1>16. ASSUME NEW clean \in BOOLEAN, GitMergeEnds(clean)
      PROVE  GitAgrees'
  <2> HIDE DEF BatchInv, TypeOK, RepoTypeOK, ProcessTypeOK, Phases, SlotsApart, Apart, GitAgrees,
        Agrees
  <2>1. /\ merging # None /\ merging' = None /\ UNCHANGED <<active, queue>>
        /\ dirty' = IF clean THEN dirty ELSE merging
    BY <1>16 DEF GitMergeEnds
  <2>2. ASSUME NEW t \in Specs PROVE Agrees(t)'
    <3>1. /\ Agrees(t) /\ active[t] \subseteq Beads
          /\ \A i \in DOMAIN queue[t] : queue[t][i].bead \in Beads /\ SpecOf[queue[t][i].bead] = t
      BY QueueSlots DEF BatchInv, GitAgrees, TypeOK, ProcessTypeOK, SlotsApart, Apart
    <3>2. CASE pc[t] = "wait"
      <4>1. 1 \in DOMAIN queue[t] /\ Slot(t) = queue[t][1]
        BY <3>2, LenProperties, EmptySeq DEF BatchInv, TypeOK, ProcessTypeOK
      <4>2. SpecOf[merging] = t
        BY <3>1, <3>2, <4>1 DEF Agrees
      <4>3. pc'[t] = IF clean THEN "remove" ELSE "unmerged"
        BY <1>16, <3>2, <4>2 DEF GitMergeEnds, BatchInv, TypeOK, ProcessTypeOK
      <4>. QED
        BY <2>1, <3>1, <3>2, <4>3 DEF Agrees
    <3>3. CASE pc[t] # "wait"
      <4>1. pc'[t] = pc[t]
        BY <1>16, <3>3 DEF GitMergeEnds, BatchInv, TypeOK, ProcessTypeOK
      <4>2. \A i \in DOMAIN queue[t] : queue[t][i].bead # merging
        BY <3>1, <3>3 DEF Agrees
      <4>. QED
        BY <2>1, <3>1, <3>3, <4>1, <4>2 DEF Agrees
    <3>. QED
      BY <3>2, <3>3
  <2>. QED
    BY <2>2 DEF GitAgrees
<1>17. ASSUME NEW clean \in BOOLEAN, HumanResolves(clean)
      PROVE  GitAgrees'
  BY <1>17 DEF HumanResolves
<1>18. CASE UNCHANGED vars
  BY <1>18 DEF vars
<1> HIDE DEF BatchInv, TypeOK, RepoTypeOK, ProcessTypeOK, Sessions, Goto, repo, slots, Slot,
      Phases, SlotsApart, Apart, GitAgrees, Agrees
<1>. QED
  BY <1>1, <1>2, <1>3, <1>4, <1>5, <1>6, <1>7, <1>8, <1>9, <1>10, <1>11,
     <1>12, <1>13, <1>14, <1>15, <1>16, <1>17, <1>18
     DEF Next, MergeBack, CreateFails, BatchDone, MergeFails, Exit

(* Every step keeps TreesKept.                                            *)
LEMMA TreesKeptStep == BatchInv /\ [Next]_vars => TreesKept'
<1> SUFFICES ASSUME BatchInv, [Next]_vars PROVE TreesKept'
  OBVIOUS
<1> USE BatchAssumption
<1>1. ASSUME NEW s \in Specs, EndProcess(s), UNCHANGED <<repo, agents, result, promised>>
      PROVE  TreesKept'
  <2>1. EndedAt(s)
    BY <1>1, Ended DEF BatchInv
  <2>2. ASSUME NEW t \in Specs, t # s PROVE KeepsTrees(t)'
    BY <1>1, <2>1, <2>2 DEF EndedAt, BatchInv, TreesKept, KeepsTrees, repo
  <2>3. KeepsTrees(s)'
    BY <1>1, <2>1 DEF EndedAt, BatchInv, TreesKept, KeepsTrees, repo
  <2>. QED
    BY <2>2, <2>3 DEF TreesKept
<1>2. ASSUME NEW s \in Specs, MergeConflict(s)
      PROVE  TreesKept'
  <2>1. queue[s] # <<>>
    BY <1>2 DEF MergeConflict, BatchInv, TypeOK, ProcessTypeOK
  <2>2. ReportedAt(s, "conflict")
    BY <1>2, <2>1, Reported DEF MergeConflict
  <2>3. ASSUME NEW t \in Specs, t # s PROVE KeepsTrees(t)'
    BY <1>2, <2>2, <2>3 DEF MergeConflict, ReportedAt, BatchInv, TreesKept, KeepsTrees,
       repo, TypeOK, ProcessTypeOK, Sessions, SlotsApart, Apart
  <2>4. KeepsTrees(s)'
    BY <1>2, <2>2 DEF MergeConflict, ReportedAt, BatchInv, TreesKept, KeepsTrees, repo,
       TypeOK, ProcessTypeOK, Sessions, SlotsApart, Apart
  <2>. QED
    BY <2>3, <2>4 DEF TreesKept
<1>3. ASSUME NEW s \in Specs, DeleteBranch(s)
      PROVE  TreesKept'
  <2>1. queue[s] # <<>>
    BY <1>3 DEF DeleteBranch, BatchInv, TypeOK, ProcessTypeOK
  <2>2. ReportedAt(s, IF Slot(s).ok THEN "merged" ELSE "failed")
    BY <1>3, <2>1, Reported DEF DeleteBranch
  <2>3. ASSUME NEW t \in Specs, t # s PROVE KeepsTrees(t)'
    BY <1>3, <2>2, <2>3 DEF DeleteBranch, ReportedAt, BatchInv, TreesKept, KeepsTrees,
       repo, TypeOK, ProcessTypeOK, Sessions, SlotsApart, Apart
  <2>4. KeepsTrees(s)'
    BY <1>3, <2>2 DEF DeleteBranch, ReportedAt, BatchInv, TreesKept, KeepsTrees, repo,
       TypeOK, ProcessTypeOK, Sessions, SlotsApart, Apart
  <2>. QED
    BY <2>3, <2>4 DEF TreesKept
<1>4. ASSUME NEW s \in Specs, NEW b \in Beads, NEW ok \in BOOLEAN, SessionEnds(s, b, ok)
      PROVE  TreesKept'
  <2>1. QueuedAt(s, b, ok)
    BY <1>4, Queued
  <2>2. ASSUME NEW t \in Specs, t # s PROVE KeepsTrees(t)'
    BY <1>4, <2>1, <2>2 DEF SessionEnds, QueuedAt, BatchInv, TreesKept, KeepsTrees,
       repo, TypeOK, ProcessTypeOK, Sessions, SlotsApart, Apart
  <2>3. KeepsTrees(s)'
    BY <1>4, <2>1 DEF SessionEnds, QueuedAt, BatchInv, TreesKept, KeepsTrees, repo,
       TypeOK, ProcessTypeOK, Sessions, SlotsApart, Apart
  <2>. QED
    BY <2>2, <2>3 DEF TreesKept
<1> USE DEF BatchInv, TypeOK, RepoTypeOK, ProcessTypeOK, Sessions, Goto, repo, slots, Slot,
      Phases, SlotsApart, Apart, GitAgrees, Agrees, TreesKept, KeepsTrees
<1>5. ASSUME NEW s \in Specs, NEW beads \in SUBSET Beads, StartBatch(s, beads)
      PROVE  TreesKept'
  BY <1>5 DEF StartBatch
<1>6. ASSUME NEW s \in Specs, NEW b \in Beads, CreateWorktree(s, b)
      PROVE  TreesKept'
  BY <1>6 DEF CreateWorktree
<1>7. ASSUME NEW s \in Specs, NEW b \in Beads, WorkerLost(s, b)
      PROVE  TreesKept'
  BY <1>7 DEF WorkerLost
<1>8. ASSUME NEW s \in Specs, SpawnAgents(s)
      PROVE  TreesKept'
  BY <1>8 DEF SpawnAgents
<1>9. ASSUME NEW s \in Specs, AllJoined(s)
      PROVE  TreesKept'
  BY <1>9 DEF AllJoined
<1>10. ASSUME NEW s \in Specs, DiscardFailed(s)
      PROVE  TreesKept'
  BY <1>10 DEF DiscardFailed
<1>11. ASSUME NEW s \in Specs, MergeStarts(s)
      PROVE  TreesKept'
  BY <1>11 DEF MergeStarts, IndexIsFree
<1>12. ASSUME NEW s \in Specs, RemoveWorktree(s)
      PROVE  TreesKept'
  BY <1>12 DEF RemoveWorktree
<1>13. ASSUME NEW b \in Beads, AgentCommits(b)
      PROVE  TreesKept'
  BY <1>13 DEF AgentCommits
<1>14. ASSUME NEW b \in Beads, OrphanEnds(b)
      PROVE  TreesKept'
  BY <1>14 DEF OrphanEnds
<1>15. ASSUME NEW b \in Beads, HumanMerges(b)
      PROVE  TreesKept'
  BY <1>15 DEF HumanMerges, InUse, IndexIsFree
<1>16. ASSUME NEW clean \in BOOLEAN, GitMergeEnds(clean)
      PROVE  TreesKept'
  BY <1>16 DEF GitMergeEnds
<1>17. ASSUME NEW clean \in BOOLEAN, HumanResolves(clean)
      PROVE  TreesKept'
  BY <1>17 DEF HumanResolves
<1>18. CASE UNCHANGED vars
  BY <1>18 DEF vars
<1> HIDE DEF BatchInv, TypeOK, RepoTypeOK, ProcessTypeOK, Sessions, Goto, repo, slots, Slot,
      Phases, SlotsApart, Apart, GitAgrees, Agrees, TreesKept, KeepsTrees
<1>. QED
  BY <1>1, <1>2, <1>3, <1>4, <1>5, <1>6, <1>7, <1>8, <1>9, <1>10, <1>11,
     <1>12, <1>13, <1>14, <1>15, <1>16, <1>17, <1>18
     DEF Next, MergeBack, CreateFails, BatchDone, MergeFails, Exit

(* A step that touches no branch, starts no session and removes only what  *)
(* failed keeps WorkKept.                                                  *)
LEMMA WorkUntouched ==
  ASSUME BatchInv, UNCHANGED <<driver, branches, tip, promised, queue>>,
         \A t \in Specs : active'[t] \subseteq active[t],
         \A t \in Specs : pc'[t] \in {"remove", "delete"}
                            => pc[t] \in {"remove", "delete"} \/ ~Slot(t).ok
  PROVE  WorkKept'
<1>1. NoWorkLost' /\ BranchesApart'
  BY DEF BatchInv, WorkKept, NoWorkLost, BranchesApart
<1>2. ASSUME NEW t \in Specs PROVE NothingOwed(t)'
  <2>1. NothingOwed(t)
    BY DEF BatchInv, WorkKept
  <2>2. \A b \in active'[t] : Settled(b)
    BY <2>1 DEF NothingOwed
  <2>3. ASSUME NEW i \in DOMAIN queue[t],
               ~queue[t][i].ok \/ (i = 1 /\ pc'[t] \in {"remove", "delete"})
        PROVE  Settled(queue[t][i].bead)
    BY <2>1, <2>3 DEF NothingOwed, Slot
  <2>. QED
    BY <2>2, <2>3 DEF NothingOwed, Settled
<1>. QED
  BY <1>1, <1>2 DEF WorkKept

(* Every step keeps WorkKept.                                             *)
LEMMA WorkKeptStep == BatchInv /\ [Next]_vars => WorkKept'
<1> SUFFICES ASSUME BatchInv, [Next]_vars PROVE WorkKept'
  OBVIOUS
<1> USE BatchAssumption
<1>1. ASSUME NEW s \in Specs, EndProcess(s), UNCHANGED <<repo, agents, result, promised>>
      PROVE  WorkKept'
  <2>1. EndedAt(s)
    BY <1>1, Ended DEF BatchInv
  <2>2. UNCHANGED <<driver, branches, tip, promised>>
    BY <1>1 DEF repo
  <2>3. NoWorkLost' /\ BranchesApart'
    BY <2>2 DEF BatchInv, WorkKept, NoWorkLost, BranchesApart
  <2>4. \A b \in Beads : Settled(b) => Settled(b)'
    BY <2>2 DEF Settled
  <2>5. ASSUME NEW t \in Specs, t # s PROVE NothingOwed(t)'
    <3>1. NothingOwed(t)
      BY DEF BatchInv, WorkKept
    <3>2. pc'[t] = pc[t] /\ active'[t] = active[t] /\ queue'[t] = queue[t]
      BY <2>1, <2>5 DEF EndedAt
    <3>. QED
      BY <2>2, <3>1, <3>2 DEF NothingOwed, Settled
  <2>6. NothingOwed(s)'
    BY <2>1 DEF EndedAt, NothingOwed
  <2>. QED
    BY <2>3, <2>5, <2>6 DEF WorkKept
<1>2. ASSUME NEW s \in Specs, MergeConflict(s)
      PROVE  WorkKept'
  <2>1. queue[s] # <<>>
    BY <1>2 DEF MergeConflict, BatchInv, TypeOK, ProcessTypeOK
  <2>2. ReportedAt(s, "conflict")
    BY <1>2, <2>1, Reported DEF MergeConflict
  <2>3. UNCHANGED <<driver, branches, tip, promised>>
    BY <1>2 DEF MergeConflict, repo
  <2>4. NoWorkLost' /\ BranchesApart'
    BY <2>3 DEF BatchInv, WorkKept, NoWorkLost, BranchesApart
  <2>5. ASSUME NEW t \in Specs, t # s PROVE NothingOwed(t)'
    <3>1. NothingOwed(t)
      BY DEF BatchInv, WorkKept
    <3>2. pc'[t] = pc[t] /\ active'[t] = active[t] /\ queue'[t] = queue[t]
      BY <2>2, <2>5 DEF ReportedAt
    <3>. QED
      BY <2>3, <3>1, <3>2 DEF NothingOwed, Settled
  <2>6. NothingOwed(s)'
    <3>1. NothingOwed(s) /\ active'[s] = active[s] /\ pc'[s] = "merge"
      BY <2>2 DEF BatchInv, WorkKept, ReportedAt
    <3>2. ASSUME NEW i \in DOMAIN queue'[s], ~queue'[s][i].ok
          PROVE  promised \cap tip[queue'[s][i].bead] \subseteq driver
      BY <2>2, <3>1, <3>2 DEF ReportedAt, NothingOwed, Settled
    <3>. QED
      BY <2>3, <3>1, <3>2 DEF NothingOwed, Settled
  <2>. QED
    BY <2>4, <2>5, <2>6 DEF WorkKept
<1>3. ASSUME NEW s \in Specs, DeleteBranch(s)
      PROVE  WorkKept'
  <2>1. queue[s] # <<>> /\ pc[s] = "delete"
    BY <1>3 DEF DeleteBranch, BatchInv, TypeOK, ProcessTypeOK
  <2>2. ReportedAt(s, IF Slot(s).ok THEN "merged" ELSE "failed")
    BY <1>3, <2>1, Reported DEF DeleteBranch
  <2> DEFINE h == Slot(s).bead
  <2>3. h \in Beads
    BY <2>2 DEF ReportedAt, Sessions
  <2>4. /\ UNCHANGED <<driver, promised>> /\ branches' = branches \ {h}
        /\ tip'[h] = {} /\ \A b \in Beads \ {h} : tip'[b] = tip[b]
    BY <1>3, <2>3 DEF DeleteBranch, BatchInv, TypeOK, RepoTypeOK
  <2>5. Settled(h)
    BY <2>1, <2>2 DEF ReportedAt, BatchInv, WorkKept, NothingOwed
  <2>6. NoWorkLost'
    <3>1. ASSUME NEW c \in promised, c \notin driver
          PROVE  \E b \in branches \ {h} : c \in tip[b]
      BY <2>5, <3>1 DEF BatchInv, WorkKept, NoWorkLost, Settled
    <3>2. \A b \in branches \ {h} : tip'[b] = tip[b]
      BY <2>4 DEF BatchInv, TypeOK, RepoTypeOK
    <3>. QED
      BY <2>4, <3>1, <3>2 DEF NoWorkLost
  <2>7. BranchesApart'
    <3>1. \A b \in Beads : tip'[b] \subseteq tip[b]
      BY <2>3, <2>4
    <3>. QED
      BY <2>4, <3>1 DEF BatchInv, WorkKept, BranchesApart
  <2>8. \A b \in Beads : Settled(b) => promised' \cap tip'[b] \subseteq driver'
    BY <2>4 DEF Settled
  <2>9. ASSUME NEW t \in Specs PROVE NothingOwed(t)'
    <3>1. NothingOwed(t) /\ active'[t] = active[t] /\ active[t] \subseteq Beads
      BY <2>2 DEF BatchInv, WorkKept, ReportedAt, TypeOK, ProcessTypeOK
    <3>2. \A b \in active'[t] : promised' \cap tip'[b] \subseteq driver'
      BY <2>8, <3>1 DEF NothingOwed
    <3>3. ASSUME NEW i \in DOMAIN queue'[t],
                 ~queue'[t][i].ok \/ (i = 1 /\ pc'[t] \in {"remove", "delete"})
          PROVE  promised' \cap tip'[queue'[t][i].bead] \subseteq driver'
      <4>1. queue'[t][i].bead \in Beads
        BY <2>2 DEF ReportedAt
      <4>2. Settled(queue'[t][i].bead)
        <5>1. CASE t = s
          BY <2>2, <3>1, <3>3, <5>1 DEF ReportedAt, NothingOwed
        <5>2. CASE t # s
          BY <2>2, <3>1, <3>3, <5>2 DEF ReportedAt, NothingOwed
        <5>. QED
          BY <5>1, <5>2
      <4>. QED
        BY <2>8, <4>1, <4>2
    <3>. QED
      BY <3>2, <3>3 DEF NothingOwed, Settled
  <2>. QED
    BY <2>6, <2>7, <2>9 DEF WorkKept
<1>4. ASSUME NEW s \in Specs, NEW b \in Beads, NEW ok \in BOOLEAN, SessionEnds(s, b, ok)
      PROVE  WorkKept'
  <2>1. QueuedAt(s, b, ok)
    BY <1>4, Queued
  <2>2. /\ UNCHANGED <<driver, branches, tip>> /\ pc' = pc /\ pc[s] = "spawn"
        /\ promised' = (IF ok THEN promised \cup tip[b] ELSE promised)
        /\ b \in active[s] /\ b \in branches
    BY <1>4 DEF SessionEnds, repo, BatchInv, SlotsApart, Apart
  <2>3. NoWorkLost' /\ BranchesApart'
    BY <2>2 DEF BatchInv, WorkKept, NoWorkLost, BranchesApart
  <2>4. ASSUME NEW c \in Beads, Settled(c), c # b \/ ~ok
        PROVE  promised' \cap tip'[c] \subseteq driver'
    BY <2>2, <2>4 DEF BatchInv, WorkKept, BranchesApart, Settled
  <2>5. ASSUME NEW t \in Specs PROVE NothingOwed(t)'
    <3>1. NothingOwed(t) /\ Apart(t) /\ Apart(s) /\ active[t] \subseteq Beads
      BY DEF BatchInv, WorkKept, SlotsApart, TypeOK, ProcessTypeOK
    <3>2. active'[t] \subseteq active[t] \ {b}
      BY <2>1, <2>2, <3>1 DEF QueuedAt, Apart
    <3>3. \A c \in active'[t] : promised' \cap tip'[c] \subseteq driver'
      BY <2>4, <3>1, <3>2 DEF NothingOwed
    <3>4. ASSUME NEW i \in DOMAIN queue[t],
                 ~queue[t][i].ok \/ (i = 1 /\ pc[t] \in {"remove", "delete"})
          PROVE  promised' \cap tip'[queue[t][i].bead] \subseteq driver'
      <4>1. queue[t][i].bead \in Beads
        BY QueueSlots DEF BatchInv
      <4>2. Settled(queue[t][i].bead)
        BY <3>1, <3>4 DEF NothingOwed
      <4>3. queue[t][i].bead # b
        BY <2>2, <3>1 DEF Apart
      <4>. QED
        BY <2>4, <4>1, <4>2, <4>3
    <3>5. ASSUME NEW i \in DOMAIN queue'[t],
                 ~queue'[t][i].ok \/ (i = 1 /\ pc'[t] \in {"remove", "delete"})
          PROVE  promised' \cap tip'[queue'[t][i].bead] \subseteq driver'
      <4>1. CASE t # s
        BY <2>1, <2>2, <3>4, <3>5, <4>1 DEF QueuedAt
      <4>2. CASE t = s /\ i # Len(queue[s]) + 1
        BY <2>1, <2>2, <3>4, <3>5, <4>2 DEF QueuedAt
      <4>3. CASE t = s /\ i = Len(queue[s]) + 1
        <5>1. queue'[t][i] = [bead |-> b, ok |-> ok] /\ ~ok
          BY <2>1, <2>2, <3>5, <4>3 DEF QueuedAt
        <5>2. Settled(b)
          BY <2>2, <3>1, <4>3 DEF NothingOwed
        <5>. QED
          BY <2>4, <5>1, <5>2
      <4>. QED
        BY <4>1, <4>2, <4>3
    <3>. QED
      BY <3>3, <3>5 DEF NothingOwed, Settled
  <2>. QED
    BY <2>3, <2>5 DEF WorkKept
<1>5. ASSUME NEW s \in Specs, NEW beads \in SUBSET Beads, StartBatch(s, beads)
      PROVE  WorkKept'
  <2>1. UNCHANGED <<driver, branches, tip, promised, queue>>
    BY <1>5 DEF StartBatch, repo, slots
  <2>2. \A t \in Specs : active'[t] \subseteq active[t]
    BY <1>5 DEF StartBatch, slots, BatchInv, TypeOK, ProcessTypeOK
  <2>3. \A t \in Specs : pc'[t] \in {"remove", "delete"}
                       => pc[t] \in {"remove", "delete"} \/ ~Slot(t).ok
    BY <1>5 DEF StartBatch, Goto, BatchInv, TypeOK, ProcessTypeOK
  <2>. QED
    BY <2>1, <2>2, <2>3, WorkUntouched
<1>6. ASSUME NEW s \in Specs, NEW b \in Beads, CreateWorktree(s, b)
      PROVE  WorkKept'
  BY <1>6 DEF CreateWorktree, BatchInv, TypeOK, RepoTypeOK, ProcessTypeOK, Sessions,
     Goto, repo, slots, Slot, Phases, SlotsApart, Apart, AgentsCounted, GitAgrees,
     Agrees, WorkKept, NoWorkLost, BranchesApart, NothingOwed, Settled
<1>7. ASSUME NEW s \in Specs, NEW b \in Beads, WorkerLost(s, b)
      PROVE  WorkKept'
  <2>1. UNCHANGED <<driver, branches, tip, promised, queue>>
    BY <1>7 DEF WorkerLost, repo, slots
  <2>2. \A t \in Specs : active'[t] \subseteq active[t]
    BY <1>7 DEF WorkerLost, slots, BatchInv, TypeOK, ProcessTypeOK
  <2>3. \A t \in Specs : pc'[t] \in {"remove", "delete"}
                       => pc[t] \in {"remove", "delete"} \/ ~Slot(t).ok
    BY <1>7 DEF WorkerLost, Goto, BatchInv, TypeOK, ProcessTypeOK
  <2>. QED
    BY <2>1, <2>2, <2>3, WorkUntouched
<1>8. ASSUME NEW s \in Specs, SpawnAgents(s)
      PROVE  WorkKept'
  <2>1. UNCHANGED <<driver, branches, tip, promised, queue>>
    BY <1>8 DEF SpawnAgents, repo, slots
  <2>2. \A t \in Specs : active'[t] \subseteq active[t]
    BY <1>8 DEF SpawnAgents, slots, BatchInv, TypeOK, ProcessTypeOK
  <2>3. \A t \in Specs : pc'[t] \in {"remove", "delete"}
                       => pc[t] \in {"remove", "delete"} \/ ~Slot(t).ok
    BY <1>8 DEF SpawnAgents, Goto, BatchInv, TypeOK, ProcessTypeOK
  <2>. QED
    BY <2>1, <2>2, <2>3, WorkUntouched
<1>9. ASSUME NEW s \in Specs, AllJoined(s)
      PROVE  WorkKept'
  <2>1. UNCHANGED <<driver, branches, tip, promised, queue>>
    BY <1>9 DEF AllJoined, repo, slots
  <2>2. \A t \in Specs : active'[t] \subseteq active[t]
    BY <1>9 DEF AllJoined, slots, BatchInv, TypeOK, ProcessTypeOK
  <2>3. \A t \in Specs : pc'[t] \in {"remove", "delete"}
                       => pc[t] \in {"remove", "delete"} \/ ~Slot(t).ok
    BY <1>9 DEF AllJoined, Goto, BatchInv, TypeOK, ProcessTypeOK
  <2>. QED
    BY <2>1, <2>2, <2>3, WorkUntouched
<1>10. ASSUME NEW s \in Specs, DiscardFailed(s)
      PROVE  WorkKept'
  <2>1. UNCHANGED <<driver, branches, tip, promised, queue>>
    BY <1>10 DEF DiscardFailed, repo, slots
  <2>2. \A t \in Specs : active'[t] \subseteq active[t]
    BY <1>10 DEF DiscardFailed, slots, BatchInv, TypeOK, ProcessTypeOK
  <2>3. \A t \in Specs : pc'[t] \in {"remove", "delete"}
                       => pc[t] \in {"remove", "delete"} \/ ~Slot(t).ok
    BY <1>10 DEF DiscardFailed, Goto, BatchInv, TypeOK, ProcessTypeOK
  <2>. QED
    BY <2>1, <2>2, <2>3, WorkUntouched
<1>11. ASSUME NEW s \in Specs, MergeStarts(s)
      PROVE  WorkKept'
  <2>1. UNCHANGED <<driver, branches, tip, promised, queue>>
    BY <1>11 DEF MergeStarts, repo, slots
  <2>2. \A t \in Specs : active'[t] \subseteq active[t]
    BY <1>11 DEF MergeStarts, slots, BatchInv, TypeOK, ProcessTypeOK
  <2>3. \A t \in Specs : pc'[t] \in {"remove", "delete"}
                       => pc[t] \in {"remove", "delete"} \/ ~Slot(t).ok
    BY <1>11 DEF MergeStarts, Goto, BatchInv, TypeOK, ProcessTypeOK
  <2>. QED
    BY <2>1, <2>2, <2>3, WorkUntouched
<1>12. ASSUME NEW s \in Specs, RemoveWorktree(s)
      PROVE  WorkKept'
  <2>1. UNCHANGED <<driver, branches, tip, promised, queue>>
    BY <1>12 DEF RemoveWorktree, repo, slots
  <2>2. \A t \in Specs : active'[t] \subseteq active[t]
    BY <1>12 DEF RemoveWorktree, slots, BatchInv, TypeOK, ProcessTypeOK
  <2>3. \A t \in Specs : pc'[t] \in {"remove", "delete"}
                       => pc[t] \in {"remove", "delete"} \/ ~Slot(t).ok
    BY <1>12 DEF RemoveWorktree, Goto, BatchInv, TypeOK, ProcessTypeOK
  <2>. QED
    BY <2>1, <2>2, <2>3, WorkUntouched
<1>13. ASSUME NEW b \in Beads, AgentCommits(b)
      PROVE  WorkKept'
  <2>1. /\ UNCHANGED <<driver, branches, promised, active, queue, pc>>
        /\ tip'[b] = tip[b] \cup {made + 1} /\ \A c \in Beads \ {b} : tip'[c] = tip[c]
        /\ \A c \in Beads : tip[c] \subseteq 1..made /\ made + 1 \notin tip[c]
        /\ made + 1 \notin promised
    BY <1>13 DEF AgentCommits, slots, BatchInv, TypeOK, RepoTypeOK
  <2>2. NoWorkLost'
    <3>1. branches \subseteq Beads /\ \A c \in Beads : tip[c] \subseteq tip'[c]
      BY <2>1 DEF BatchInv, TypeOK, RepoTypeOK
    <3>. QED
      BY <2>1, <3>1 DEF BatchInv, WorkKept, NoWorkLost
  <2>3. BranchesApart'
    BY <2>1 DEF BatchInv, WorkKept, BranchesApart
  <2>4. \A c \in Beads : promised' \cap tip'[c] = promised \cap tip[c]
    BY <2>1
  <2>5. ASSUME NEW t \in Specs PROVE NothingOwed(t)'
    <3>1. NothingOwed(t) /\ active[t] \subseteq Beads
      BY DEF BatchInv, WorkKept, TypeOK, ProcessTypeOK
    <3>2. \A i \in DOMAIN queue[t] : queue[t][i].bead \in Beads
      BY QueueSlots DEF BatchInv
    <3>. QED
      BY <2>1, <2>4, <3>1, <3>2 DEF NothingOwed, Settled
  <2>. QED
    BY <2>2, <2>3, <2>5 DEF WorkKept
<1>14. ASSUME NEW b \in Beads, OrphanEnds(b)
      PROVE  WorkKept'
  <2>1. UNCHANGED <<driver, branches, tip, promised, queue>>
    BY <1>14 DEF OrphanEnds, repo, slots
  <2>2. \A t \in Specs : active'[t] \subseteq active[t]
    BY <1>14 DEF OrphanEnds, slots, BatchInv, TypeOK, ProcessTypeOK
  <2>3. \A t \in Specs : pc'[t] \in {"remove", "delete"}
                       => pc[t] \in {"remove", "delete"} \/ ~Slot(t).ok
    BY <1>14 DEF OrphanEnds, Goto, BatchInv, TypeOK, ProcessTypeOK
  <2>. QED
    BY <2>1, <2>2, <2>3, WorkUntouched
<1>15. ASSUME NEW b \in Beads, HumanMerges(b)
      PROVE  WorkKept'
  BY <1>15 DEF HumanMerges, InUse, IndexIsFree, BatchInv, TypeOK, RepoTypeOK,
     ProcessTypeOK, Sessions, Goto, repo, slots, Slot, Phases, SlotsApart, Apart,
     AgentsCounted, GitAgrees, Agrees, WorkKept, NoWorkLost, BranchesApart, NothingOwed,
     Settled
<1>16. ASSUME NEW clean \in BOOLEAN, GitMergeEnds(clean)
      PROVE  WorkKept'
  <2>1. /\ driver' = IF clean THEN driver \cup tip[merging] ELSE driver
        /\ merging # None /\ UNCHANGED <<branches, tip, active, queue, promised>>
    BY <1>16 DEF GitMergeEnds, slots
  <2>2. NoWorkLost' /\ BranchesApart'
    BY <2>1 DEF BatchInv, WorkKept, NoWorkLost, BranchesApart
  <2>3. \A b \in Beads : Settled(b) => promised' \cap tip'[b] \subseteq driver'
    BY <2>1 DEF Settled
  <2>4. ASSUME NEW t \in Specs, pc'[t] \in {"remove", "delete"}, pc'[t] # pc[t]
        PROVE  clean /\ pc[t] = "wait"
    BY <1>16, <2>4 DEF GitMergeEnds, Goto, BatchInv, TypeOK, ProcessTypeOK
  <2>5. ASSUME NEW t \in Specs PROVE NothingOwed(t)'
    <3>1. NothingOwed(t) /\ Agrees(t) /\ active[t] \subseteq Beads
      BY DEF BatchInv, WorkKept, GitAgrees, TypeOK, ProcessTypeOK
    <3>2. \A b \in active'[t] : promised' \cap tip'[b] \subseteq driver'
      BY <2>1, <2>3, <3>1 DEF NothingOwed
    <3>3. ASSUME NEW i \in DOMAIN queue[t],
                 ~queue[t][i].ok \/ (i = 1 /\ pc'[t] \in {"remove", "delete"})
          PROVE  promised' \cap tip'[queue[t][i].bead] \subseteq driver'
      <4>1. queue[t][i].bead \in Beads
        BY QueueSlots DEF BatchInv
      <4>2. CASE ~queue[t][i].ok \/ pc'[t] = pc[t]
        BY <2>3, <3>1, <3>3, <4>1, <4>2 DEF NothingOwed
      <4>3. CASE queue[t][i].ok /\ pc'[t] # pc[t]
        <5>1. clean /\ pc[t] = "wait" /\ i = 1
          BY <2>4, <3>3, <4>3
        <5>2. queue[t][i].bead = merging
          BY <3>1, <5>1 DEF Agrees, Slot
        <5>. QED
          BY <2>1, <5>1, <5>2
      <4>. QED
        BY <4>2, <4>3
    <3>. QED
      BY <2>1, <3>2, <3>3 DEF NothingOwed, Settled
  <2>. QED
    BY <2>2, <2>5 DEF WorkKept
<1>17. ASSUME NEW clean \in BOOLEAN, HumanResolves(clean)
      PROVE  WorkKept'
  BY <1>17 DEF HumanResolves, BatchInv, TypeOK, RepoTypeOK, ProcessTypeOK, Sessions,
     Goto, repo, slots, Slot, Phases, SlotsApart, Apart, AgentsCounted, GitAgrees,
     Agrees, WorkKept, NoWorkLost, BranchesApart, NothingOwed, Settled
<1>18. CASE UNCHANGED vars
  BY <1>18, WorkUntouched DEF vars, repo, slots
<1>. QED
  BY <1>1, <1>2, <1>3, <1>4, <1>5, <1>6, <1>7, <1>8, <1>9, <1>10, <1>11,
     <1>12, <1>13, <1>14, <1>15, <1>16, <1>17, <1>18
     DEF Next, MergeBack, CreateFails, BatchDone, MergeFails, Exit

(* Every step keeps ResultsAreTrue.                                       *)
LEMMA ResultsAreTrueStep == BatchInv /\ [Next]_vars => ResultsAreTrue'
<1> SUFFICES ASSUME BatchInv, [Next]_vars PROVE ResultsAreTrue'
  OBVIOUS
<1> USE BatchAssumption
<1>1. ASSUME NEW s \in Specs, EndProcess(s), UNCHANGED <<repo, agents, result, promised>>
      PROVE  ResultsAreTrue'
  <2>1. EndedAt(s)
    BY <1>1, Ended DEF BatchInv
  <2>. QED
    BY <1>1, <2>1 DEF EndedAt, BatchInv, TypeOK, RepoTypeOK, ProcessTypeOK, Sessions,
       Goto, repo, slots, Slot,
      Phases, SlotsApart, Apart, GitAgrees, Agrees, TreesKept, KeepsTrees, ResultsAreTrue
<1>2. ASSUME NEW s \in Specs, MergeConflict(s)
      PROVE  ResultsAreTrue'
  <2>1. queue[s] # <<>>
    BY <1>2 DEF MergeConflict, BatchInv, TypeOK, ProcessTypeOK
  <2>2. ReportedAt(s, "conflict")
    BY <1>2, <2>1, Reported DEF MergeConflict
  <2>. QED
    BY <1>2, <2>2 DEF MergeConflict, ReportedAt, BatchInv, TypeOK, RepoTypeOK,
       ProcessTypeOK, Sessions, Goto, repo, slots, Slot,
      Phases, SlotsApart, Apart, GitAgrees, Agrees, TreesKept, KeepsTrees, ResultsAreTrue
<1>3. ASSUME NEW s \in Specs, DeleteBranch(s)
      PROVE  ResultsAreTrue'
  <2>1. queue[s] # <<>>
    BY <1>3 DEF DeleteBranch, BatchInv, TypeOK, ProcessTypeOK
  <2>2. ReportedAt(s, IF Slot(s).ok THEN "merged" ELSE "failed")
    BY <1>3, <2>1, Reported DEF DeleteBranch
  <2>. QED
    BY <1>3, <2>2 DEF DeleteBranch, ReportedAt, BatchInv, TypeOK, RepoTypeOK,
       ProcessTypeOK, Sessions, Goto, repo, slots, Slot,
      Phases, SlotsApart, Apart, GitAgrees, Agrees, TreesKept, KeepsTrees, ResultsAreTrue
<1>4. ASSUME NEW s \in Specs, NEW b \in Beads, NEW ok \in BOOLEAN, SessionEnds(s, b, ok)
      PROVE  ResultsAreTrue'
  <2>1. QueuedAt(s, b, ok)
    BY <1>4, Queued
  <2>. QED
    BY <1>4, <2>1 DEF SessionEnds, QueuedAt, BatchInv, TypeOK, RepoTypeOK,
       ProcessTypeOK, Sessions, Goto, repo, slots, Slot,
      Phases, SlotsApart, Apart, GitAgrees, Agrees, TreesKept, KeepsTrees, ResultsAreTrue
<1> USE DEF BatchInv, TypeOK, RepoTypeOK, ProcessTypeOK, Sessions, Goto, repo, slots, Slot,
      Phases, SlotsApart, Apart, GitAgrees, Agrees, TreesKept, KeepsTrees, ResultsAreTrue
<1>5. ASSUME NEW s \in Specs, NEW beads \in SUBSET Beads, StartBatch(s, beads)
      PROVE  ResultsAreTrue'
  BY <1>5 DEF StartBatch
<1>6. ASSUME NEW s \in Specs, NEW b \in Beads, CreateWorktree(s, b)
      PROVE  ResultsAreTrue'
  BY <1>6 DEF CreateWorktree
<1>7. ASSUME NEW s \in Specs, NEW b \in Beads, WorkerLost(s, b)
      PROVE  ResultsAreTrue'
  BY <1>7 DEF WorkerLost
<1>8. ASSUME NEW s \in Specs, SpawnAgents(s)
      PROVE  ResultsAreTrue'
  BY <1>8 DEF SpawnAgents
<1>9. ASSUME NEW s \in Specs, AllJoined(s)
      PROVE  ResultsAreTrue'
  BY <1>9 DEF AllJoined
<1>10. ASSUME NEW s \in Specs, DiscardFailed(s)
      PROVE  ResultsAreTrue'
  BY <1>10 DEF DiscardFailed
<1>11. ASSUME NEW s \in Specs, MergeStarts(s)
      PROVE  ResultsAreTrue'
  BY <1>11 DEF MergeStarts, IndexIsFree
<1>12. ASSUME NEW s \in Specs, RemoveWorktree(s)
      PROVE  ResultsAreTrue'
  BY <1>12 DEF RemoveWorktree
<1>13. ASSUME NEW b \in Beads, AgentCommits(b)
      PROVE  ResultsAreTrue'
  BY <1>13 DEF AgentCommits
<1>14. ASSUME NEW b \in Beads, OrphanEnds(b)
      PROVE  ResultsAreTrue'
  BY <1>14 DEF OrphanEnds
<1>15. ASSUME NEW b \in Beads, HumanMerges(b)
      PROVE  ResultsAreTrue'
  BY <1>15 DEF HumanMerges, InUse, IndexIsFree
<1>16. ASSUME NEW clean \in BOOLEAN, GitMergeEnds(clean)
      PROVE  ResultsAreTrue'
  BY <1>16 DEF GitMergeEnds
<1>17. ASSUME NEW clean \in BOOLEAN, HumanResolves(clean)
      PROVE  ResultsAreTrue'
  BY <1>17 DEF HumanResolves
<1>18. CASE UNCHANGED vars
  BY <1>18 DEF vars
<1> HIDE DEF BatchInv, TypeOK, RepoTypeOK, ProcessTypeOK, Sessions, Goto, repo, slots, Slot,
      Phases, SlotsApart, Apart, GitAgrees, Agrees, TreesKept, KeepsTrees, ResultsAreTrue
<1>. QED
  BY <1>1, <1>2, <1>3, <1>4, <1>5, <1>6, <1>7, <1>8, <1>9, <1>10, <1>11,
     <1>12, <1>13, <1>14, <1>15, <1>16, <1>17, <1>18
     DEF Next, MergeBack, CreateFails, BatchDone, MergeFails, Exit

-------------------------------------------------------------------------------
(* The inductive invariant holds initially: no batch, no branch, no promise. *)
LEMMA BatchInit == Init => BatchInv
<1> SUFFICES ASSUME Init PROVE BatchInv
  OBVIOUS
<1> USE BatchAssumption DEF Init
<1>1. <<>> \in Seq(Sessions) /\ DOMAIN <<>> = {}
  BY EmptySeq
<1>2. RepoTypeOK
  BY DEF RepoTypeOK
<1>3. ProcessTypeOK
  BY <1>1 DEF ProcessTypeOK
<1>4. Phases
  BY DEF Phases
<1>5. SlotsApart
  BY <1>1 DEF SlotsApart, Apart
<1>6. AgentsCounted
  BY <1>1 DEF AgentsCounted
<1>7. GitAgrees
  BY <1>1 DEF GitAgrees, Agrees
<1>8. TreesKept
  BY <1>1 DEF TreesKept, KeepsTrees
<1>9. WorkKept
  BY <1>1 DEF WorkKept, NoWorkLost, BranchesApart, NothingOwed, Settled
<1>10. ResultsAreTrue
  BY DEF ResultsAreTrue
<1>. QED
  BY <1>2, <1>3, <1>4, <1>5, <1>6, <1>7, <1>8, <1>9, <1>10 DEF BatchInv, TypeOK

(* Every reachable state of any number of parallel batches, dying at any   *)
(* step and sharing one repository, satisfies the inductive invariant.     *)
THEOREM BatchInvariance == Spec => []BatchInv
<1>1. Init => BatchInv
  BY BatchInit
<1>2. BatchInv /\ [Next]_vars => BatchInv'
  BY RepoTypeOKStep, ProcessTypeOKStep, PhasesStep, SlotsApartStep, AgentsCountedStep,
     GitAgreesStep, TreesKeptStep, WorkKeptStep, ResultsAreTrueStep DEF BatchInv, TypeOK
<1>. QED
  BY <1>1, <1>2, PTL DEF Spec

(* The variables keep their types; in particular every worktree belongs to *)
(* a branch that exists.                                                   *)
THEOREM BatchTypeCorrect == Spec => []TypeOK
<1>1. BatchInv => TypeOK
  BY DEF BatchInv
<1>. QED
  BY <1>1, BatchInvariance, PTL

(* merge_back deletes no branch before what a successful session committed *)
(* on it is on the driver branch, for any number of specs, beads, deaths.  *)
THEOREM WorkIsNeverLost == Spec => []NoWorkLost
<1>1. BatchInv => NoWorkLost
  BY DEF BatchInv, WorkKept
<1>. QED
  BY <1>1, BatchInvariance, PTL

(* Because create_worktree insists on a new branch, a bead that is run     *)
(* again never gets a second agent beside one that outlived its loom.      *)
THEOREM WorktreesAreNotShared == Spec => []OneAgentPerWorktree
<1>1. BatchInv => OneAgentPerWorktree
  BY DEF BatchInv, AgentsCounted, OneAgentPerWorktree
<1>. QED
  BY <1>1, BatchInvariance, PTL

(* What merge_back last reported of a bead is what the repository shows.   *)
THEOREM ReportsAreTrue == Spec => []ResultsAreTrue
<1>1. BatchInv => ResultsAreTrue
  BY DEF BatchInv
<1>. QED
  BY <1>1, BatchInvariance, PTL
===============================================================================
