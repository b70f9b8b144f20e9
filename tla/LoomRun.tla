------------------------------- MODULE LoomRun -------------------------------
(***************************************************************************)
(* `loom run`, sequential: run_loop and process_one_bead of                *)
(* loom-workflow/src/run/runner.rs with the bd calls of production.rs.     *)
(* The agent is external: a session may commit work at any time, even when *)
(* its run is gone, and ends in success or failure.                        *)
(***************************************************************************)
EXTENDS LoomMolecule

(***************************************************************************)
(* bd ready --label=spec:<L>: the open beads (any of them, whatever their  *)
(* priority).  The loom:clarify label does not hide a bead.                *)
(***************************************************************************)
Ready == (1..created) \ closed

PullBead(p, b) ==
  /\ pc[p] = "pull"
  /\ b \in Ready
  /\ Goto(p, "session")
  /\ cur' = [cur EXCEPT ![p] = b]
  /\ UNCHANGED <<tracker, branch, iteration, orphans, holder, job, parent, tries, failure,
                 known, next, seen, history>>

(* No ready bead: the molecule is complete; only a continuous run goes on  *)
(* to the check.                                                           *)
MoleculeComplete(p) ==
  /\ pc[p] = "pull"
  /\ Ready = {}
  /\ IF job[p] = "continuous"
     THEN Goto(p, "handoff") /\ UNCHANGED <<holder, locals>>
     ELSE EndProcess(p)
  /\ UNCHANGED <<tracker, branch, iteration, orphans, history>>

(* exec_check.                                                             *)
HandoffToCheck(p, q) ==
  /\ pc[p] = "handoff"
  /\ Spawn(p, q, "check")
  /\ UNCHANGED <<tracker, branch, iteration, orphans, history>>

-------------------------------------------------------------------------------
(* One bead: sessions until one succeeds or the retries are used up.       *)

SessionCommits(p) ==
  /\ pc[p] = "session"
  /\ head < MaxCommits
  /\ head' = head + 1
  /\ UNCHANGED <<tracker, unlocked, remote, pushedBeads, iteration, orphans, holder, pc, locals, history>>

(* The session of a run that is gone, which has no lock any more.          *)
OrphanCommits ==
  /\ orphans
  /\ head < MaxCommits
  /\ head' = head + 1
  /\ unlocked' = unlocked \cup {head + 1}
  /\ UNCHANGED <<tracker, remote, pushedBeads, iteration, orphans, holder, pc, locals, history>>

SessionSucceeds(p) ==
  /\ pc[p] = "session"
  /\ Goto(p, "close")
  /\ UNCHANGED <<tracker, branch, iteration, orphans, holder, locals, history>>

(* RetryPolicy::decide, Retry: the error goes into the next prompt.        *)
SessionRetry(p) ==
  /\ pc[p] = "session"
  /\ tries[p] < MaxRetries
  /\ tries' = [tries EXCEPT ![p] = @ + 1]
  /\ failure' = [failure EXCEPT ![p] = [bead |-> cur[p], attempt |-> tries[p]]]
  /\ UNCHANGED <<tracker, branch, iteration, orphans, holder, pc, job, parent, cur, known, next, seen, history>>

(* RetryPolicy::decide, GiveUp.                                            *)
SessionGivesUp(p) ==
  /\ pc[p] = "session"
  /\ tries[p] >= MaxRetries
  /\ Goto(p, "clarify")
  /\ UNCHANGED <<tracker, branch, iteration, orphans, holder, locals, history>>

(* Mutant: previous_failure outlives the bead it came from.                *)
BeadProcessedCarries(p) ==
  IF job[p] = "once"
  THEN EndProcess(p)
  ELSE /\ Goto(p, "pull")
       /\ cur' = [cur EXCEPT ![p] = 0]
       /\ tries' = [tries EXCEPT ![p] = 0]
       /\ UNCHANGED <<holder, job, parent, failure, known, next, seen>>

(* The locals of process_one_bead go out of scope; a --once run ends.      *)
BeadProcessed(p) ==
  IF job[p] = "once"
  THEN EndProcess(p)
  ELSE /\ Goto(p, "pull")
       /\ cur' = [cur EXCEPT ![p] = 0]
       /\ tries' = [tries EXCEPT ![p] = 0]
       /\ failure' = [failure EXCEPT ![p] = NoFailure]
       /\ UNCHANGED <<holder, job, parent, known, next, seen>>

(* bd close; the bead keeps its labels.                                    *)
CloseBead(p) ==
  /\ pc[p] = "close"
  /\ closed' = closed \cup {cur[p]}
  /\ closedAt' = [closedAt EXCEPT ![cur[p]] = head]
  /\ BeadProcessed(p)
  /\ UNCHANGED <<created, clarify, branch, iteration, orphans, reviewed, reruns>>

ApplyClarify(p) ==
  /\ pc[p] = "clarify"
  /\ clarify' = clarify \cup {cur[p]}
  /\ BeadProcessed(p)
  /\ UNCHANGED <<created, closed, branch, iteration, orphans, history>>

RunStep(p) ==
  \/ \E b \in Beads : PullBead(p, b)
  \/ MoleculeComplete(p)
  \/ \E q \in Procs : HandoffToCheck(p, q)
  \/ SessionCommits(p) \/ SessionSucceeds(p) \/ SessionRetry(p) \/ SessionGivesUp(p)
  \/ CloseBead(p) \/ ApplyClarify(p)
===============================================================================
