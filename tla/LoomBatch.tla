------------------------------ MODULE LoomBatch ------------------------------
(***************************************************************************)
(* `loom run --parallel N`: run_parallel_batch of loom-workflow/src/run/   *)
(* parallel.rs, called once by run_parallel_run of main.rs, over the       *)
(* GitClient of loom-core/src/git/client.rs.                               *)
(*                                                                         *)
(* Every spec has at most one such process, which holds the spec's lock    *)
(* (LoomLocks); all of them share one git repository, its driver branch    *)
(* and its index.  A process can die, or return a GitError, at any step;   *)
(* its git child and its agents may outlive it.  git, the agents and the   *)
(* human who tidies up are external.                                       *)
(*                                                                         *)
(* A branch is the set of commits on it.  Merging is conflict-free when    *)
(* one side contains the other; otherwise git decides.                     *)
(***************************************************************************)
EXTENDS Naturals, Sequences, FiniteSets

CONSTANTS
  Specs,      (* Labels.                                                   *)
  Beads,      (* Ready beads; the batch never closes one.                  *)
  SpecOf,     (* The spec of each bead.                                    *)
  None,       (* No bead.                                                  *)
  Parallel,   (* The N of --parallel N.                                    *)
  MaxCommits  (* Bound: commits the agents make.                           *)

ASSUME BatchAssumption ==
  /\ SpecOf \in [Beads -> Specs]
  /\ None \notin Beads
  /\ Parallel \in Nat \ {0} /\ MaxCommits \in Nat

Commits == 1..MaxCommits

VARIABLES
  made,      (* Commits made so far.                                       *)
  driver,    (* The driver branch.                                         *)
  branches,  (* Beads whose branch loom/<label>/<bead> exists.             *)
  tip,       (* What is on the branch of each bead.                        *)
  trees,     (* Beads whose worktree exists.                               *)
  merging,   (* The bead whose `git merge` runs and holds index.lock.      *)
  dirty,     (* The bead whose merge left unmerged entries in the index.   *)
  agents,    (* Agents alive in each worktree.                             *)
  pc,        (* The process of each spec.                                  *)
  todo,      (* Beads of the batch without a worktree yet.                 *)
  active,    (* Beads whose session the process waits for.                 *)
  queue,     (* batch_slots: [bead, ok] in the order sessions finished.    *)
  result,    (* BatchResult last reported for each bead.                   *)
  promised   (* History: commits of sessions that ended in success.        *)

repo  == <<made, driver, branches, tip, trees, merging, dirty>>
slots == <<todo, active, queue>>
vars  == <<repo, agents, pc, slots, result, promised>>

Sessions == [bead : Beads, ok : BOOLEAN]

RepoTypeOK ==
  /\ made \in 0..MaxCommits
  /\ driver \in SUBSET (1..made) /\ promised \in SUBSET (1..made)
  /\ tip \in [Beads -> SUBSET (1..made)]
  /\ branches \in SUBSET Beads /\ trees \in SUBSET branches
  /\ merging \in branches \cup {None} /\ dirty \in branches \cup {None}

ProcessTypeOK ==
  /\ agents \in [Beads -> Nat]
  /\ pc \in [Specs -> {"idle", "create", "spawn", "merge", "wait", "unmerged",
                       "remove", "delete"}]
  /\ todo \in [Specs -> SUBSET Beads] /\ active \in [Specs -> SUBSET Beads]
  /\ queue \in [Specs -> Seq(Sessions)]
  /\ result \in [Beads -> {"none", "merged", "conflict", "failed"}]
  /\ \A s \in Specs : pc[s] \in {"wait", "unmerged", "remove", "delete"} => queue[s] # <<>>

TypeOK == RepoTypeOK /\ ProcessTypeOK

Init ==
  /\ made = 0 /\ driver = {} /\ promised = {}
  /\ branches = {} /\ trees = {} /\ tip = [b \in Beads |-> {}]
  /\ merging = None /\ dirty = None
  /\ agents = [b \in Beads |-> 0]
  /\ pc = [s \in Specs |-> "idle"]
  /\ todo = [s \in Specs |-> {}]
  /\ active = [s \in Specs |-> {}]
  /\ queue = [s \in Specs |-> <<>>]
  /\ result = [b \in Beads |-> "none"]

Goto(s, there) == pc' = [pc EXCEPT ![s] = there]

(* The process of s is gone and with it everything it had in memory.       *)
EndProcess(s) ==
  /\ Goto(s, "idle")
  /\ todo' = [todo EXCEPT ![s] = {}]
  /\ active' = [active EXCEPT ![s] = {}]
  /\ queue' = [queue EXCEPT ![s] = <<>>]

-------------------------------------------------------------------------------
(* create_worktrees.                                                       *)

(***************************************************************************)
(* bd ready --limit N: up to N beads; which ones, and whether others were  *)
(* closed meanwhile, is up to bd and its users.                            *)
(***************************************************************************)
StartBatch(s, beads) ==
  /\ pc[s] = "idle"
  /\ beads # {} /\ Cardinality(beads) <= Parallel
  /\ \A b \in beads : SpecOf[b] = s
  /\ Goto(s, "create")
  /\ todo' = [todo EXCEPT ![s] = beads]
  /\ result' = [b \in Beads |-> IF b \in beads THEN "none" ELSE result[b]]
  /\ UNCHANGED <<repo, agents, active, queue, promised>>

(* Mutant: worktree add -B, which takes over a branch that exists.         *)
CreateWorktreeAgain(s, b) ==
  /\ pc[s] = "create"
  /\ b \in todo[s]
  /\ branches' = branches \cup {b} /\ trees' = trees \cup {b}
  /\ tip' = [tip EXCEPT ![b] = IF b \in branches THEN @ ELSE driver]
  /\ todo' = [todo EXCEPT ![s] = @ \ {b}]
  /\ active' = [active EXCEPT ![s] = @ \cup {b}]
  /\ UNCHANGED <<made, driver, merging, dirty, agents, pc, queue, result, promised>>

(* git worktree add -b: the branch must be new.                            *)
CreateWorktree(s, b) ==
  /\ pc[s] = "create"
  /\ b \in todo[s] \ branches
  /\ branches' = branches \cup {b} /\ trees' = trees \cup {b}
  /\ tip' = [tip EXCEPT ![b] = driver]
  /\ todo' = [todo EXCEPT ![s] = @ \ {b}]
  /\ active' = [active EXCEPT ![s] = @ \cup {b}]
  /\ UNCHANGED <<made, driver, merging, dirty, agents, pc, queue, result, promised>>

(* A leftover branch fails the whole batch; worktrees already made stay.   *)
CreateFails(s, b) ==
  /\ pc[s] = "create"
  /\ b \in todo[s] \cap branches
  /\ EndProcess(s)
  /\ UNCHANGED <<repo, agents, result, promised>>

-------------------------------------------------------------------------------
(* run_concurrent_spawns.                                                  *)

SpawnAgents(s) ==
  /\ pc[s] = "create"
  /\ todo[s] = {}
  /\ Goto(s, "spawn")
  /\ agents' = [b \in Beads |-> IF b \in active[s] THEN agents[b] + 1 ELSE agents[b]]
  /\ UNCHANGED <<repo, slots, result, promised>>

AgentCommits(b) ==
  /\ agents[b] > 0
  /\ made < MaxCommits
  /\ made' = made + 1
  /\ tip' = [tip EXCEPT ![b] = @ \cup {made + 1}]
  /\ UNCHANGED <<driver, branches, trees, merging, dirty, agents, pc, slots, result,
                 promised>>

SessionEnds(s, b, ok) ==
  /\ pc[s] = "spawn"
  /\ b \in active[s]
  /\ active' = [active EXCEPT ![s] = @ \ {b}]
  /\ queue' = [queue EXCEPT ![s] = Append(@, [bead |-> b, ok |-> ok])]
  /\ agents' = [agents EXCEPT ![b] = @ - 1]
  /\ promised' = IF ok THEN promised \cup tip[b] ELSE promised
  /\ UNCHANGED <<repo, pc, todo, result>>

(* The task panics: the slot is logged and forgotten.                      *)
WorkerLost(s, b) ==
  /\ pc[s] = "spawn"
  /\ b \in active[s]
  /\ active' = [active EXCEPT ![s] = @ \ {b}]
  /\ agents' = [agents EXCEPT ![b] = @ - 1]
  /\ UNCHANGED <<repo, pc, todo, queue, result, promised>>

AllJoined(s) ==
  /\ pc[s] = "spawn"
  /\ active[s] = {}
  /\ Goto(s, "merge")
  /\ UNCHANGED <<repo, agents, slots, result, promised>>

(* An agent whose loom process died notices it, or finishes.               *)
OrphanEnds(b) ==
  /\ agents[b] > 0
  /\ b \notin active[SpecOf[b]] \/ pc[SpecOf[b]] # "spawn"
  /\ agents' = [agents EXCEPT ![b] = @ - 1]
  /\ UNCHANGED <<repo, pc, slots, result, promised>>

-------------------------------------------------------------------------------
(* merge_back: the slots one by one, in the order they finished.           *)

Slot(s) == Head(queue[s])

BatchDone(s) ==
  /\ pc[s] = "merge"
  /\ queue[s] = <<>>
  /\ EndProcess(s)
  /\ UNCHANGED <<repo, agents, result, promised>>

(* A failed session: its worktree and its branch are dropped.              *)
DiscardFailed(s) ==
  /\ pc[s] = "merge"
  /\ queue[s] # <<>> /\ ~Slot(s).ok
  /\ Goto(s, "remove")
  /\ UNCHANGED <<repo, agents, slots, result, promised>>

IndexIsFree == merging = None /\ dirty = None

MergeStarts(s) ==
  /\ pc[s] = "merge"
  /\ queue[s] # <<>> /\ Slot(s).ok
  /\ IF IndexIsFree
     THEN merging' = Slot(s).bead /\ Goto(s, "wait")
     ELSE Goto(s, "unmerged") /\ UNCHANGED merging
  /\ UNCHANGED <<made, driver, branches, tip, trees, dirty, agents, slots, result, promised>>

(***************************************************************************)
(* `git merge` ends, whether or not the process that started it waits.     *)
(***************************************************************************)
Diverged(b) == ~(tip[b] \subseteq driver) /\ ~(driver \subseteq tip[b])

GitMergeEnds(clean) ==
  /\ merging # None
  /\ ~clean => Diverged(merging)
  /\ merging' = None
  /\ IF clean THEN driver' = driver \cup tip[merging] /\ UNCHANGED dirty
              ELSE dirty' = merging /\ UNCHANGED driver
  /\ LET s == SpecOf[merging] IN
     IF pc[s] = "wait" THEN Goto(s, IF clean THEN "remove" ELSE "unmerged")
                       ELSE UNCHANGED pc
  /\ UNCHANGED <<made, branches, tip, trees, agents, slots, result, promised>>

Report(s, outcome) ==
  /\ result' = [result EXCEPT ![Slot(s).bead] = outcome]
  /\ queue' = [queue EXCEPT ![s] = Tail(@)]
  /\ Goto(s, "merge")
  /\ UNCHANGED <<todo, active>>

(* Mutant: a conflict is cleaned up as a failure is.                       *)
ConflictDiscarded(s) ==
  /\ pc[s] = "unmerged"
  /\ dirty # None
  /\ Goto(s, "remove")
  /\ UNCHANGED <<repo, agents, slots, result, promised>>

(* git ls-files --unmerged lists something: MergeResult::Conflict.         *)
MergeConflict(s) ==
  /\ pc[s] = "unmerged"
  /\ dirty # None
  /\ Report(s, "conflict")
  /\ UNCHANGED <<repo, agents, promised>>

(* Mutant: a merge that lost the race for index.lock is tried again.       *)
MergeRetries(s) ==
  /\ pc[s] = "unmerged"
  /\ dirty = None
  /\ Goto(s, "merge")
  /\ UNCHANGED <<repo, agents, slots, result, promised>>

(* It lists nothing: a GitError, and the batch is given up.                *)
MergeFails(s) ==
  /\ pc[s] = "unmerged"
  /\ dirty = None
  /\ EndProcess(s)
  /\ UNCHANGED <<repo, agents, result, promised>>

(* Mutant: only the worktree's registration is pruned, its files stay.     *)
RemoveWorktreeSkipped(s) ==
  /\ pc[s] = "remove"
  /\ Goto(s, "delete")
  /\ UNCHANGED <<repo, agents, slots, result, promised>>

RemoveWorktree(s) ==
  /\ pc[s] = "remove"
  /\ trees' = trees \ {Slot(s).bead}
  /\ Goto(s, "delete")
  /\ UNCHANGED <<made, driver, branches, tip, merging, dirty, agents, slots, result,
                 promised>>

(* Mutant: the slot is reported before its branch is deleted.              *)
DeleteBranchSkipped(s) ==
  /\ pc[s] = "delete"
  /\ Report(s, IF Slot(s).ok THEN "merged" ELSE "failed")
  /\ UNCHANGED <<repo, agents, promised>>

DeleteBranch(s) ==
  /\ pc[s] = "delete"
  /\ branches' = branches \ {Slot(s).bead}
  /\ tip' = [tip EXCEPT ![Slot(s).bead] = {}]
  /\ Report(s, IF Slot(s).ok THEN "merged" ELSE "failed")
  /\ UNCHANGED <<made, driver, trees, merging, dirty, agents, promised>>

MergeBack(s) ==
  \/ BatchDone(s) \/ DiscardFailed(s) \/ MergeStarts(s) \/ MergeConflict(s)
  \/ MergeFails(s) \/ RemoveWorktree(s) \/ DeleteBranch(s)

(***************************************************************************)
(* The process dies, or a git call fails and `?` returns its error.  A git *)
(* that ran into the 60 s limit is not killed: GitMergeEnds goes on.       *)
(***************************************************************************)
Exit(s) ==
  /\ pc[s] # "idle"
  /\ EndProcess(s)
  /\ UNCHANGED <<repo, agents, result, promised>>

GitTimeout(s) == pc[s] = "wait" /\ Exit(s)

-------------------------------------------------------------------------------
(* The human.                                                              *)

InUse(b) == \/ b \in active[SpecOf[b]] \/ agents[b] > 0 \/ merging = b \/ dirty = b
            \/ \E i \in DOMAIN queue[SpecOf[b]] : queue[SpecOf[b]][i].bead = b

(* The conflict in the index is resolved and committed, or aborted.        *)
HumanResolves(commit) ==
  /\ dirty # None /\ merging = None
  /\ driver' = IF commit THEN driver \cup tip[dirty] ELSE driver
  /\ dirty' = None
  /\ UNCHANGED <<made, branches, tip, trees, merging, agents, pc, slots, result, promised>>

(* A branch left behind is merged by hand and deleted with its worktree.   *)
HumanMerges(b) ==
  /\ b \in branches /\ ~InUse(b)
  /\ IndexIsFree
  /\ driver' = driver \cup tip[b]
  /\ branches' = branches \ {b} /\ trees' = trees \ {b}
  /\ tip' = [tip EXCEPT ![b] = {}]
  /\ result' = [result EXCEPT ![b] = "none"]
  /\ UNCHANGED <<made, merging, dirty, agents, pc, slots, promised>>
-------------------------------------------------------------------------------
Next ==
  \/ \E s \in Specs :
       \/ \E beads \in SUBSET Beads : StartBatch(s, beads)
       \/ \E b \in Beads : \/ CreateWorktree(s, b) \/ CreateFails(s, b)
                           \/ \E ok \in BOOLEAN : SessionEnds(s, b, ok)
                           \/ WorkerLost(s, b)
       \/ SpawnAgents(s) \/ AllJoined(s)
       \/ MergeBack(s)
       \/ Exit(s)
  \/ \E b \in Beads : AgentCommits(b) \/ OrphanEnds(b) \/ HumanMerges(b)
  \/ \E clean \in BOOLEAN : GitMergeEnds(clean) \/ HumanResolves(clean)

Spec == Init /\ [][Next]_vars

(* The process keeps running, and gives up on a git that hangs.            *)
Fairness == \A s \in Specs : WF_vars(MergeBack(s)) /\ WF_vars(GitTimeout(s))

FairSpec == Spec /\ Fairness
-------------------------------------------------------------------------------
(* Properties.                                                             *)

(***************************************************************************)
(* What a successful session committed is on the driver branch or still on *)
(* some branch: however processes die and whatever merges conflict, no     *)
(* branch is deleted before its work has been merged.                      *)
(***************************************************************************)
NoWorkLost == promised \subseteq driver \cup UNION {tip[b] : b \in branches}

(***************************************************************************)
(* Two agents never work in one worktree, even when the first one outlives *)
(* the process that started it and the bead, still ready, is run again.    *)
(***************************************************************************)
OneAgentPerWorktree == \A b \in Beads : agents[b] <= 1

(***************************************************************************)
(* A reported result is what the repository shows until the bead is taken  *)
(* up again: a merged or failed bead left nothing that would make the next *)
(* batch fail, a conflicted one kept its branch and its worktree.          *)
(***************************************************************************)
ResultsAreTrue ==
  \A b \in Beads :
    /\ result[b] \in {"merged", "failed"} => b \notin branches \cup trees
    /\ result[b] = "conflict" => b \in branches \cap trees

(* Whatever other specs and the human do to the index, a merge-back ends.  *)
MergeBackEnds == \A s \in Specs : pc[s] = "merge" ~> pc[s] = "idle"

(***************************************************************************)
(* client.rs:175-177: Conflict is returned "when git reports merge         *)
(* conflicts; other failures surface as GitError".  While the conflict of  *)
(* one bead is in the index, every other merge is reported as a conflict.  *)
(***************************************************************************)
ConflictIsTheBeadsOwn ==
  [][\A s \in Specs : MergeConflict(s) => dirty = Slot(s).bead]_vars
===============================================================================
