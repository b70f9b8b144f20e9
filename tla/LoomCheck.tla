------------------------------ MODULE LoomCheck ------------------------------
(***************************************************************************)
(* `loom check`: check_loop, decide_verdict and apply_verdict of           *)
(* loom-workflow/src/check/runner.rs, with the pushes and the hand-off of  *)
(* production.rs.  Review and counter are what trait CheckController says  *)
(* of them; the shipped run_review never completes, and the shipped        *)
(* counter neither reads nor writes.  The reviewer is external: while it   *)
(* works, and its check may be gone by then, it files fix-up beads and     *)
(* raises clarifies.                                                       *)
(***************************************************************************)
EXTENDS LoomMolecule

PreSnapshot(p) ==
  /\ pc[p] = "pre"
  /\ known' = [known EXCEPT ![p] = created]
  /\ seen' = [seen EXCEPT ![p] = head]
  /\ Goto(p, "review")
  /\ UNCHANGED <<tracker, branch, iteration, orphans, holder, job, parent, cur, tries, failure,
                 next, closedAt, reviewed, reruns>>

Reviewing == orphans \/ \E p \in Procs : pc[p] = "review"

ReviewFilesBead ==
  /\ Reviewing
  /\ created < MaxBeads
  /\ created' = created + 1
  /\ UNCHANGED <<closed, clarify, branch, iteration, orphans, holder, pc, locals, history>>

ReviewRaisesClarify(b) ==
  /\ Reviewing
  /\ b \in 1..created
  /\ clarify' = clarify \cup {b}
  /\ UNCHANGED <<created, closed, branch, iteration, orphans, holder, pc, locals, history>>

(* LOOM_COMPLETE; a review that ends otherwise is an Exit.                 *)
ReviewCompletes(p) ==
  /\ pc[p] = "review"
  /\ reviewed' = seen[p]
  /\ seen' = [seen EXCEPT ![p] = 0]
  /\ Goto(p, "post")
  /\ UNCHANGED <<tracker, branch, iteration, orphans, holder, job, parent, cur, tries, failure,
                 known, next, closedAt, reruns>>

(***************************************************************************)
(* The second snapshot and the verdict it leads to, with the counter it    *)
(* reads.  `loom msg` may answer a clarify between review and snapshot.    *)
(***************************************************************************)
NewBeads(p) == {b \in 1..created : b > known[p]}

(* Mutant: the counter is compared with > instead of >=.                   *)
ExhaustedLate == iteration > MaxIterations

Exhausted == iteration >= MaxIterations

VerdictClarify(p) ==
  /\ pc[p] = "post"
  /\ clarify # {}
  /\ EndProcess(p)
  /\ UNCHANGED <<tracker, branch, iteration, orphans, history>>

VerdictClean(p) ==
  /\ pc[p] = "post"
  /\ clarify = {} /\ NewBeads(p) = {}
  /\ Goto(p, "reset")
  /\ UNCHANGED <<tracker, branch, iteration, orphans, holder, locals, history>>

VerdictAutoIterate(p) ==
  /\ pc[p] = "post"
  /\ clarify = {} /\ NewBeads(p) # {}
  /\ ~Exhausted
  /\ next' = [next EXCEPT ![p] = iteration + 1]
  /\ Goto(p, "count")
  /\ UNCHANGED <<tracker, branch, iteration, orphans, holder, job, parent, cur, tries, failure,
                 known, seen, history>>

VerdictCap(p) ==
  /\ pc[p] = "post"
  /\ clarify = {} /\ NewBeads(p) # {}
  /\ Exhausted
  /\ Goto(p, "escalate")
  /\ cur' = [cur EXCEPT ![p] = created]
  /\ UNCHANGED <<tracker, branch, iteration, orphans, holder, job, parent, tries, failure, known,
                 next, seen, history>>

-------------------------------------------------------------------------------
(* Clean: the counter is reset before anything is pushed.                  *)
ResetCount(p) ==
  /\ pc[p] = "reset"
  /\ iteration' = 0
  /\ autos' = 0 /\ uncounted' = FALSE
  /\ Goto(p, "push")
  /\ UNCHANGED <<tracker, branch, orphans, holder, locals, closedAt, reviewed>>

(* Mutant: the tracker is synced first, the code after it.                 *)
GitPushLast(p) ==
  /\ pc[p] = "push"
  /\ pushedBeads' = closed
  /\ Goto(p, "beads")
  /\ UNCHANGED <<tracker, head, unlocked, remote, iteration, orphans, holder, locals, history>>

GitPush(p) ==
  /\ pc[p] = "push"
  /\ remote' = head
  /\ Goto(p, "beads")
  /\ UNCHANGED <<tracker, head, unlocked, pushedBeads, iteration, orphans, holder, locals, history>>

BeadsPush(p) ==
  /\ pc[p] = "beads"
  /\ pushedBeads' = closed
  /\ EndProcess(p)
  /\ UNCHANGED <<tracker, head, unlocked, remote, iteration, orphans, history>>

(* Mutant: set_iteration_count as it is shipped, which writes nothing.     *)
SetCountStub(p) ==
  /\ pc[p] = "count"
  /\ Goto(p, "rerun")
  /\ UNCHANGED <<tracker, branch, iteration, orphans, holder, locals, history>>

(* Auto-iterate: the counter is persisted before the rerun is spawned.     *)
SetCount(p) ==
  /\ pc[p] = "count"
  /\ iteration' = next[p]
  /\ Goto(p, "rerun")
  /\ UNCHANGED <<tracker, branch, orphans, holder, locals, history>>

(* exec_run.                                                               *)
HandoffToRun(p, q) ==
  /\ pc[p] = "rerun"
  /\ Spawn(p, q, "continuous")
  /\ autos' = autos + 1
  /\ UNCHANGED <<tracker, branch, iteration, orphans, closedAt, reviewed, uncounted>>

(* Cap: the newest fix-up bead waits for a human.                          *)
Escalate(p) ==
  /\ pc[p] = "escalate"
  /\ clarify' = clarify \cup {cur[p]}
  /\ EndProcess(p)
  /\ UNCHANGED <<created, closed, branch, iteration, orphans, history>>

CheckStep(p) ==
  \/ PreSnapshot(p)
  \/ ReviewCompletes(p)
  \/ VerdictClarify(p) \/ VerdictClean(p) \/ VerdictAutoIterate(p) \/ VerdictCap(p)
  \/ ResetCount(p) \/ GitPush(p) \/ BeadsPush(p)
  \/ SetCount(p) \/ (\E q \in Procs : HandoffToRun(p, q)) \/ Escalate(p)
===============================================================================
