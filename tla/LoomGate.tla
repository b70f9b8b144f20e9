------------------------------- MODULE LoomGate -------------------------------
(***************************************************************************)
(* The run <-> check cycle of one spec: any number of `loom run`, `loom    *)
(* check` and `loom msg` invocations by the user, the children the two     *)
(* commands spawn for each other, processes that die at any step, agents   *)
(* that survive them, and `loom init --rebuild`.                           *)
(***************************************************************************)
EXTENDS LoomRun, LoomCheck

Next ==
  \/ \E p \in Procs :
       \/ \E command \in {"once", "continuous", "check"} : StartCommand(p, command)
       \/ AcquireSpec(p) \/ SpecBusy(p)
       \/ RunStep(p)
       \/ CheckStep(p)
       \/ ReapChild(p)
       \/ Exit(p)
  \/ ReviewFilesBead
  \/ \E b \in Beads : ReviewRaisesClarify(b) \/ AnswerClarify(b)
  \/ OrphanCommits \/ OrphansEnd
  \/ OtherSpecCommits
  \/ RebuildResetsCount

Spec == Init /\ [][Next]_vars

(***************************************************************************)
(* The polling loop of an acquisition and the wait for a child keep        *)
(* running.  Nothing is assumed of agents, users, bd or git.               *)
(***************************************************************************)
Fairness == \A p \in Procs : WF_vars(AcquireSpec(p) \/ SpecBusy(p))
                             /\ WF_vars(ReapChild(p))

FairSpec == Spec /\ Fairness

-------------------------------------------------------------------------------
(* Properties.                                                             *)

(***************************************************************************)
(* A push carries no commit of this spec that was not on the branch when   *)
(* the review that allowed it began, but for two kinds that are made       *)
(* without the spec lock: those of agents whose run is gone, and those of  *)
(* other specs.  check holds the lock from its first snapshot to the push, *)
(* so no session of a living run of the spec commits in between.           *)
(***************************************************************************)
PushedWorkWasReviewed == \A c \in (1..remote) \ unlocked : c <= reviewed

(***************************************************************************)
(* On the remote, no bead is closed whose work is not there: git is pushed *)
(* before beads, and no run closes a bead between the two pushes.          *)
(***************************************************************************)
NoClosedBeadAheadOfCode == \A b \in pushedBeads : closedAt[b] <= remote

(***************************************************************************)
(* A session gets the error of the attempt before it, for the same bead,   *)
(* and the first one gets none; a bead has at most MaxRetries + 1 of them. *)
(***************************************************************************)
RetryContext ==
  \A p \in Procs : pc[p] = "session" =>
    /\ tries[p] <= MaxRetries
    /\ failure[p] = IF tries[p] = 0 THEN NoFailure
                    ELSE [bead |-> cur[p], attempt |-> tries[p] - 1]

(***************************************************************************)
(* With a counter that keeps the contract of CheckController, check starts *)
(* at most MaxIterations automatic reruns from one reset of the counter to *)
(* the next, by a clean review or by a rebuild, however processes die: it  *)
(* writes the counter before it starts the rerun, and two checks do not    *)
(* start from the same value.  One more is possible when a rebuild resets  *)
(* it between that write and that start.                                   *)
(***************************************************************************)
AutoRerunsBounded == autos <= MaxIterations + (IF uncounted THEN 1 ELSE 0)

(* A parent never waits for ever on a child that waits for its lock.       *)
HandoffEnds ==
  \A p \in Procs : \A q \in Procs \ {p} :
    (pc[p] = "await" /\ parent[q] = p /\ pc[q] = "lock")
      ~> ~(pc[p] = "await" /\ parent[q] = p /\ pc[q] = "lock")

(***************************************************************************)
(* specs/loom-harness.md:867: "`loom run` execs `loom check` on molecule   *)
(* completion".  The child is started while its parent still holds the     *)
(* spec lock the child needs, so it can only be refused.                   *)
(***************************************************************************)
HandoffFreesLock ==
  \A p, q \in Procs : parent[q] = p /\ pc[q] = "lock" => holder # p

(***************************************************************************)
(* run/retry.rs:21, of a bead out of retries: "apply `loom:clarify` and    *)
(* stop processing this bead".  The bead stays ready, and the same run     *)
(* pulls it again.                                                         *)
(***************************************************************************)
ClarifiedBeadIsLeftAlone ==
  [][\A p \in Procs, b \in Beads : PullBead(p, b) => b \notin clarify]_vars
===============================================================================
