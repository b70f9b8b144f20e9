--------------------------- MODULE LoomGate_proofs ---------------------------
(***************************************************************************)
(* Proofs about LoomGate for any numbers of processes, beads, commits,     *)
(* retries and iterations.                                                 *)
(***************************************************************************)
EXTENDS LoomGate, TLAPS

(* A process that is past its acquisition has the spec lock, up to its end *)
(* and while it waits for a child.                                         *)
LockHeld == \A p \in Procs : pc[p] \notin {"idle", "lock"} => holder = p

(* A bead begins without the retries and the error of another one.         *)
FreshStart ==
  \A p \in Procs : pc[p] \in {"idle", "lock", "pull"} => tries[p] = 0 /\ failure[p] = NoFailure

(* The bead a run works on is open, the one check escalates exists.        *)
BeadInHand ==
  \A p \in Procs :
    /\ pc[p] \in {"session", "close", "clarify"} => cur[p] \in Ready
    /\ pc[p] = "escalate" => cur[p] \in 1..created

(* From its first snapshot to the push no commit made under the spec lock  *)
(* goes by the reviewer.                                                   *)
ReviewCovers ==
  \A p \in Procs :
    /\ pc[p] = "review" => \A c \in (1..head) \ unlocked : c <= seen[p]
    /\ pc[p] \in {"post", "reset", "push"} => \A c \in (1..head) \ unlocked : c <= reviewed

(* Between the two pushes the remote has the work of every closed bead.    *)
PushOrder ==
  /\ pushedBeads \subseteq closed
  /\ \A p \in Procs : pc[p] = "beads" => \A b \in closed : closedAt[b] <= remote

(* A rerun that was started is in the counter, one about to be is too, but *)
(* for the one whose count a rebuild reset.                                *)
Uncounted == IF uncounted THEN 1 ELSE 0

RerunsCounted ==
  /\ autos <= iteration + Uncounted
  /\ \A p \in Procs :
       /\ pc[p] = "count" => next[p] # 0 /\ autos < next[p] + Uncounted
       /\ pc[p] = "rerun" => autos < iteration + Uncounted

(* The inductive invariant.                                                *)
GateInv ==
  /\ TypeOK
  /\ LockHeld
  /\ FreshStart
  /\ BeadInHand
  /\ ReviewCovers
  /\ PushOrder
  /\ RerunsCounted
  /\ PushedWorkWasReviewed
  /\ NoClosedBeadAheadOfCode
  /\ RetryContext

-------------------------------------------------------------------------------
(* Which steps write the tracker, the branch, the counter and the history. *)
WrittenBy ==
  /\ created' = created \/ ReviewFilesBead
  /\ (closed' = closed /\ closedAt' = closedAt) \/ \E p \in Procs : CloseBead(p)
  /\ \/ clarify' \subseteq clarify
     \/ \E p \in Procs : ApplyClarify(p) \/ Escalate(p)
     \/ \E b \in Beads : ReviewRaisesClarify(b)
  /\ head' = head \/ OtherSpecCommits \/ OrphanCommits \/ \E p \in Procs : SessionCommits(p)
  /\ unlocked' = unlocked \/ OtherSpecCommits \/ OrphanCommits
  /\ remote' = remote \/ \E p \in Procs : GitPush(p)
  /\ pushedBeads' = pushedBeads \/ \E p \in Procs : BeadsPush(p)
  /\ seen' = seen \/ \E p \in Procs : PreSnapshot(p) \/ seen' = [seen EXCEPT ![p] = 0]
  /\ reviewed' = reviewed \/ \E p \in Procs : ReviewCompletes(p)
  /\ iteration' = iteration \/ RebuildResetsCount \/ \E p \in Procs : ResetCount(p) \/ SetCount(p)
  /\ \/ autos' = autos \/ RebuildResetsCount
     \/ \E p \in Procs : ResetCount(p) \/ \E q \in Procs : HandoffToRun(p, q)
  /\ uncounted' = uncounted \/ RebuildResetsCount \/ \E p \in Procs : ResetCount(p)

(* The step by which a process comes to a place.                           *)
ArrivesBy(p) ==
  /\ pc'[p] = "pull" => pc[p] = "pull" \/ AcquireSpec(p) \/ CloseBead(p) \/ ApplyClarify(p)
  /\ pc'[p] = "session" => pc[p] = "session" \/ \E b \in Beads : PullBead(p, b)
  /\ pc'[p] = "close" => pc[p] = "close" \/ SessionSucceeds(p)
  /\ pc'[p] = "clarify" => pc[p] = "clarify" \/ SessionGivesUp(p)
  /\ pc'[p] = "review" => pc[p] = "review" \/ PreSnapshot(p)
  /\ pc'[p] = "post" => pc[p] = "post" \/ ReviewCompletes(p)
  /\ pc'[p] = "reset" => pc[p] = "reset" \/ VerdictClean(p)
  /\ pc'[p] = "push" => pc[p] = "push" \/ ResetCount(p)
  /\ pc'[p] = "beads" => pc[p] = "beads" \/ GitPush(p)
  /\ pc'[p] = "count" => pc[p] = "count" \/ VerdictAutoIterate(p)
  /\ pc'[p] = "rerun" => pc[p] = "rerun" \/ SetCount(p)
  /\ pc'[p] = "escalate" => pc[p] = "escalate" \/ VerdictCap(p)

(* What a step leaves of the bead, the retries and the error of a process, *)
(* and of what check found.                                                *)
Keeps(p) ==
  /\ \/ tries'[p] = tries[p] /\ failure'[p] = failure[p]
     \/ SessionRetry(p)
     \/ tries'[p] = 0 /\ failure'[p] = NoFailure
  /\ \/ cur'[p] = cur[p]
     \/ (\E b \in Beads : PullBead(p, b)) \/ VerdictCap(p)
     \/ pc'[p] \in {"idle", "pull"}
  /\ pc'[p] = "idle" /\ pc[p] # "idle" => tries'[p] = 0 /\ failure'[p] = NoFailure
  /\ pc'[p] = "lock" => pc[p] \in {"idle", "lock"} /\ tries'[p] = tries[p] /\ failure'[p] = failure[p]
  /\ pc[p] = "review" /\ pc'[p] = "review" => seen'[p] = seen[p]
  /\ pc[p] = "count" /\ pc'[p] = "count" => next'[p] = next[p]

(* Every variable is written by the steps named above and no other.        *)
LEMMA Writers == [Next]_vars => WrittenBy
<1> SUFFICES ASSUME [Next]_vars PROVE WrittenBy
  OBVIOUS
<1> USE DEF WrittenBy, tracker, branch, locals, reruns, history, vars, EndProcess, Spawn, Launch
<1>1. ASSUME NEW q \in Procs, RunStep(q) PROVE WrittenBy
  BY <1>1 DEF RunStep, PullBead, MoleculeComplete, HandoffToCheck, SessionCommits, SessionSucceeds,
         SessionRetry, SessionGivesUp, CloseBead, ApplyClarify, BeadProcessed
<1>2. ASSUME NEW q \in Procs, CheckStep(q) PROVE WrittenBy
  BY <1>2 DEF CheckStep, PreSnapshot, ReviewCompletes, VerdictClarify,
         VerdictClean, VerdictAutoIterate, VerdictCap, ResetCount, GitPush, BeadsPush,
         SetCount, HandoffToRun, Escalate
<1>3. ASSUME NEW q \in Procs,
             \/ \E command \in {"once", "continuous", "check"} : StartCommand(q, command)
             \/ AcquireSpec(q) \/ SpecBusy(q) \/ ReapChild(q) \/ Exit(q)
      PROVE  WrittenBy
  BY <1>3 DEF StartCommand, AcquireSpec, SpecBusy, ReapChild, Exit
<1>4. ASSUME NEW b \in Beads, ReviewRaisesClarify(b) \/ AnswerClarify(b) PROVE WrittenBy
  BY <1>4 DEF ReviewRaisesClarify, AnswerClarify
<1>5. CASE \/ ReviewFilesBead \/ OrphanCommits \/ OrphansEnd
           \/ OtherSpecCommits \/ RebuildResetsCount
  BY <1>5 DEF ReviewFilesBead, OrphanCommits, OrphansEnd, OtherSpecCommits, RebuildResetsCount
<1>6. CASE UNCHANGED vars
  BY <1>6
<1> QED
  BY <1>1, <1>2, <1>3, <1>4, <1>5, <1>6 DEF Next

(* Every place is entered by the steps named above and no other.           *)
LEMMA Arrivals ==
  ASSUME TypeOK, [Next]_vars, NEW p \in Procs
  PROVE  ArrivesBy(p)
<1> USE DEF ArrivesBy, TypeOK, locals, vars, Goto, EndProcess, Spawn, Launch
<1>1. ASSUME NEW q \in Procs, RunStep(q) PROVE ArrivesBy(p)
  BY <1>1 DEF RunStep, PullBead, MoleculeComplete, HandoffToCheck, SessionCommits, SessionSucceeds,
         SessionRetry, SessionGivesUp, CloseBead, ApplyClarify, BeadProcessed
<1>2. ASSUME NEW q \in Procs, CheckStep(q) PROVE ArrivesBy(p)
  BY <1>2 DEF CheckStep, PreSnapshot, ReviewCompletes, VerdictClarify,
         VerdictClean, VerdictAutoIterate, VerdictCap, ResetCount, GitPush, BeadsPush,
         SetCount, HandoffToRun, Escalate
<1>3. ASSUME NEW q \in Procs,
             \/ \E command \in {"once", "continuous", "check"} : StartCommand(q, command)
             \/ AcquireSpec(q) \/ SpecBusy(q) \/ ReapChild(q) \/ Exit(q)
      PROVE  ArrivesBy(p)
  BY <1>3 DEF StartCommand, AcquireSpec, SpecBusy, ReapChild, Exit
<1>4. ASSUME NEW b \in Beads, ReviewRaisesClarify(b) \/ AnswerClarify(b) PROVE ArrivesBy(p)
  BY <1>4 DEF ReviewRaisesClarify, AnswerClarify
<1>5. CASE \/ ReviewFilesBead \/ OrphanCommits \/ OrphansEnd
           \/ OtherSpecCommits \/ RebuildResetsCount
  BY <1>5 DEF ReviewFilesBead, OrphanCommits, OrphansEnd, OtherSpecCommits, RebuildResetsCount
<1>6. CASE UNCHANGED vars
  BY <1>6
<1> QED
  BY <1>1, <1>2, <1>3, <1>4, <1>5, <1>6 DEF Next

(* Only the steps named above change what a process remembers.             *)
LEMMA Memory ==
  ASSUME TypeOK, [Next]_vars, NEW p \in Procs
  PROVE  Keeps(p)
<1> USE DEF Keeps, TypeOK, locals, vars, Goto, EndProcess, Spawn, Launch
<1>1. ASSUME NEW q \in Procs, RunStep(q) PROVE Keeps(p)
  BY <1>1 DEF RunStep, PullBead, MoleculeComplete, HandoffToCheck, SessionCommits, SessionSucceeds,
         SessionRetry, SessionGivesUp, CloseBead, ApplyClarify, BeadProcessed
<1>2. ASSUME NEW q \in Procs, CheckStep(q) PROVE Keeps(p)
  BY <1>2 DEF CheckStep, PreSnapshot, ReviewCompletes, VerdictClarify,
         VerdictClean, VerdictAutoIterate, VerdictCap, ResetCount, GitPush, BeadsPush,
         SetCount, HandoffToRun, Escalate
<1>3. ASSUME NEW q \in Procs,
             \/ \E command \in {"once", "continuous", "check"} : StartCommand(q, command)
             \/ AcquireSpec(q) \/ SpecBusy(q) \/ ReapChild(q) \/ Exit(q)
      PROVE  Keeps(p)
  BY <1>3 DEF StartCommand, AcquireSpec, SpecBusy, ReapChild, Exit
<1>4. ASSUME NEW b \in Beads, ReviewRaisesClarify(b) \/ AnswerClarify(b) PROVE Keeps(p)
  BY <1>4 DEF ReviewRaisesClarify, AnswerClarify
<1>5. CASE \/ ReviewFilesBead \/ OrphanCommits \/ OrphansEnd
           \/ OtherSpecCommits \/ RebuildResetsCount
  BY <1>5 DEF ReviewFilesBead, OrphanCommits, OrphansEnd, OtherSpecCommits, RebuildResetsCount
<1>6. CASE UNCHANGED vars
  BY <1>6
<1> QED
  BY <1>1, <1>2, <1>3, <1>4, <1>5, <1>6 DEF Next

(* Only one process is past an acquisition.                                *)
LEMMA Exclusive ==
  ASSUME LockHeld, NEW p \in Procs, NEW q \in Procs,
         pc[p] \notin {"idle", "lock"}, pc[q] \notin {"idle", "lock"}
  PROVE  p = q
  BY DEF LockHeld

-------------------------------------------------------------------------------
(* Every step keeps the lock with the process that is past its acquisition *)
LEMMA LockHeldStep == TypeOK /\ LockHeld /\ [Next]_vars => LockHeld'
<1> SUFFICES ASSUME TypeOK, LockHeld, [Next]_vars PROVE LockHeld'
  OBVIOUS
<1> USE MoleculeAssumption DEF LockHeld, TypeOK, locals, vars, Goto, EndProcess, Spawn, Launch
<1>1. ASSUME NEW q \in Procs, RunStep(q) PROVE LockHeld'
  BY <1>1 DEF RunStep, PullBead, MoleculeComplete, HandoffToCheck, SessionCommits, SessionSucceeds,
         SessionRetry, SessionGivesUp, CloseBead, ApplyClarify, BeadProcessed
<1>2. ASSUME NEW q \in Procs, CheckStep(q) PROVE LockHeld'
  BY <1>2 DEF CheckStep, PreSnapshot, ReviewCompletes, VerdictClarify,
         VerdictClean, VerdictAutoIterate, VerdictCap, ResetCount, GitPush, BeadsPush,
         SetCount, HandoffToRun, Escalate
<1>3. ASSUME NEW q \in Procs,
             \/ \E command \in {"once", "continuous", "check"} : StartCommand(q, command)
             \/ AcquireSpec(q) \/ SpecBusy(q) \/ ReapChild(q) \/ Exit(q)
      PROVE  LockHeld'
  <2>1. ASSUME NEW command \in {"once", "continuous", "check"}, StartCommand(q, command)
        PROVE  LockHeld'
    BY <2>1 DEF StartCommand
  <2>2. CASE AcquireSpec(q)
    BY <2>2 DEF AcquireSpec
  <2>3. CASE SpecBusy(q) \/ ReapChild(q) \/ Exit(q)
    <3>1. EndProcess(q)
      BY <2>3 DEF SpecBusy, ReapChild, Exit
    <3> QED
      BY <3>1
  <2> QED
    BY <1>3, <2>1, <2>2, <2>3
<1>4. ASSUME NEW b \in Beads, ReviewRaisesClarify(b) \/ AnswerClarify(b) PROVE LockHeld'
  BY <1>4 DEF ReviewRaisesClarify, AnswerClarify
<1>5. CASE \/ ReviewFilesBead \/ OrphanCommits \/ OrphansEnd
           \/ OtherSpecCommits \/ RebuildResetsCount
  BY <1>5 DEF ReviewFilesBead, OrphanCommits, OrphansEnd, OtherSpecCommits, RebuildResetsCount
<1>6. CASE UNCHANGED vars
  BY <1>6
<1> QED
  BY <1>1, <1>2, <1>3, <1>4, <1>5, <1>6 DEF Next

(* A process begins a bead without retries behind it.                      *)
LEMMA FreshStartStep == TypeOK /\ FreshStart /\ [Next]_vars => FreshStart'
<1> SUFFICES ASSUME TypeOK, FreshStart, [Next]_vars PROVE FreshStart'
  OBVIOUS
<1> USE DEF FreshStart, TypeOK, locals, vars, Goto, EndProcess, Spawn, Launch
<1>1. ASSUME NEW q \in Procs, RunStep(q) PROVE FreshStart'
  BY <1>1 DEF RunStep, PullBead, MoleculeComplete, HandoffToCheck, SessionCommits, SessionSucceeds,
         SessionRetry, SessionGivesUp, CloseBead, ApplyClarify, BeadProcessed
<1>2. ASSUME NEW q \in Procs, CheckStep(q) PROVE FreshStart'
  BY <1>2 DEF CheckStep, PreSnapshot, ReviewCompletes, VerdictClarify,
         VerdictClean, VerdictAutoIterate, VerdictCap, ResetCount, GitPush, BeadsPush,
         SetCount, HandoffToRun, Escalate
<1>3. ASSUME NEW q \in Procs,
             \/ \E command \in {"once", "continuous", "check"} : StartCommand(q, command)
             \/ AcquireSpec(q) \/ SpecBusy(q) \/ ReapChild(q) \/ Exit(q)
      PROVE  FreshStart'
  BY <1>3 DEF StartCommand, AcquireSpec, SpecBusy, ReapChild, Exit
<1>4. ASSUME NEW b \in Beads, ReviewRaisesClarify(b) \/ AnswerClarify(b) PROVE FreshStart'
  BY <1>4 DEF ReviewRaisesClarify, AnswerClarify
<1>5. CASE \/ ReviewFilesBead \/ OrphanCommits \/ OrphansEnd
           \/ OtherSpecCommits \/ RebuildResetsCount
  BY <1>5 DEF ReviewFilesBead, OrphanCommits, OrphansEnd, OtherSpecCommits, RebuildResetsCount
<1>6. CASE UNCHANGED vars
  BY <1>6
<1> QED
  BY <1>1, <1>2, <1>3, <1>4, <1>5, <1>6 DEF Next

(* No other process closes the bead a run works on.                        *)
LEMMA BeadInHandStep == GateInv /\ [Next]_vars => BeadInHand'
<1> SUFFICES ASSUME GateInv, [Next]_vars, NEW p \in Procs
             PROVE  /\ pc'[p] \in {"session", "close", "clarify"} => cur'[p] \in Ready'
                    /\ pc'[p] = "escalate" => cur'[p] \in 1..created'
  BY DEF BeadInHand
<1>0. WrittenBy /\ ArrivesBy(p) /\ Keeps(p) /\ TypeOK /\ LockHeld /\ BeadInHand
  BY Writers, Arrivals, Memory DEF GateInv
<1>1. created' >= created /\ created \in Nat /\ created' \in Nat
  BY <1>0, MoleculeAssumption DEF WrittenBy, ReviewFilesBead, TypeOK
<1>2. ASSUME pc[p] \in {"session", "close", "clarify"}, pc'[p] \in {"session", "close", "clarify"}
      PROVE  cur'[p] \in Ready'
  <2>1. cur'[p] = cur[p] /\ cur[p] \in Ready
    BY <1>0, <1>2 DEF Keeps, PullBead, VerdictCap, BeadInHand
  <2>2. closed' = closed
    <3> SUFFICES ASSUME NEW q \in Procs, CloseBead(q) PROVE FALSE
      BY <1>0 DEF WrittenBy
    <3>1. q = p
      BY <1>0, <1>2, Exclusive DEF CloseBead
    <3> QED
      BY <1>0, <1>2, <3>1 DEF CloseBead, BeadProcessed, EndProcess, Goto, TypeOK
  <2> QED
    BY <1>0, <1>1, <2>1, <2>2 DEF Ready, TypeOK
<1>3. ASSUME NEW b \in Beads, PullBead(p, b) PROVE cur'[p] \in Ready'
  BY <1>0, <1>3 DEF PullBead, Ready, tracker, TypeOK
<1>4. ASSUME pc[p] = "escalate", pc'[p] = "escalate" PROVE cur'[p] \in 1..created'
  BY <1>0, <1>1, <1>4 DEF Keeps, PullBead, VerdictCap, BeadInHand, TypeOK
<1>5. ASSUME VerdictCap(p) PROVE cur'[p] \in 1..created'
  BY <1>0, <1>1, <1>5 DEF VerdictCap, NewBeads, tracker, TypeOK
<1> QED
  BY <1>0, <1>2, <1>3, <1>4, <1>5 DEF ArrivesBy, SessionSucceeds, SessionGivesUp

(* Every step but a session's keeps what the reviewer saw complete.        *)
LEMMA ReviewCoversStep == GateInv /\ [Next]_vars => ReviewCovers'
<1> SUFFICES ASSUME GateInv, [Next]_vars, NEW p \in Procs
             PROVE  /\ pc'[p] = "review" => \A c \in (1..head') \ unlocked' : c <= seen'[p]
                    /\ pc'[p] \in {"post", "reset", "push"} =>
                         \A c \in (1..head') \ unlocked' : c <= reviewed'
  BY DEF ReviewCovers
<1>0. WrittenBy /\ ArrivesBy(p) /\ Keeps(p) /\ TypeOK /\ LockHeld /\ ReviewCovers
  BY Writers, Arrivals, Memory DEF GateInv
<1>1. ASSUME pc[p] \in {"pre", "review", "post", "reset", "push"}
      PROVE  (1..head') \ unlocked' \subseteq (1..head) \ unlocked
  <2>1. ASSUME NEW q \in Procs, SessionCommits(q) PROVE FALSE
    BY <1>0, <1>1, <2>1, Exclusive DEF SessionCommits
  <2>2. CASE head' = head /\ unlocked' = unlocked
    BY <2>2
  <2>3. CASE OtherSpecCommits \/ OrphanCommits
    <3>1. head' = head + 1 /\ unlocked' = unlocked \cup {head + 1} /\ head \in Nat
      BY <1>0, <2>3, MoleculeAssumption DEF OtherSpecCommits, OrphanCommits, TypeOK
    <3> QED
      BY <3>1
  <2> QED
    BY <1>0, <2>1, <2>2, <2>3 DEF WrittenBy
<1>2. ASSUME pc[p] = "review", pc'[p] = "review" PROVE seen'[p] = seen[p]
  BY <1>0, <1>2 DEF Keeps
<1>3. ASSUME pc[p] \in {"post", "reset", "push"} PROVE reviewed' = reviewed
  <2>1. ASSUME NEW q \in Procs, ReviewCompletes(q) PROVE FALSE
    BY <1>0, <1>3, <2>1, Exclusive DEF ReviewCompletes
  <2> QED
    BY <1>0, <2>1 DEF WrittenBy
<1>4. ASSUME PreSnapshot(p) PROVE \A c \in (1..head') \ unlocked' : c <= seen'[p]
  BY <1>0, <1>4, MoleculeAssumption DEF PreSnapshot, branch, TypeOK
<1>5. ASSUME ReviewCompletes(p) PROVE \A c \in (1..head') \ unlocked' : c <= reviewed'
  BY <1>0, <1>1, <1>5 DEF ReviewCompletes, ReviewCovers
<1> QED
  BY <1>0, <1>1, <1>2, <1>3, <1>4, <1>5 DEF ArrivesBy, ReviewCovers, VerdictClean, ResetCount

(* No bead is closed between the two pushes.                               *)
LEMMA PushOrderStep == GateInv /\ [Next]_vars => PushOrder'
<1> SUFFICES ASSUME GateInv, [Next]_vars PROVE PushOrder'
  OBVIOUS
<1>0. WrittenBy /\ TypeOK /\ LockHeld /\ PushOrder
  BY Writers DEF GateInv
<1>1. closed \subseteq closed' /\ remote <= remote'
  BY <1>0, MoleculeAssumption DEF WrittenBy, CloseBead, GitPush, TypeOK
<1>2. pushedBeads' \subseteq closed'
  BY <1>0, <1>1 DEF WrittenBy, BeadsPush, tracker, PushOrder
<1>3. ASSUME NEW p \in Procs, pc'[p] = "beads" PROVE \A b \in closed' : closedAt'[b] <= remote'
  <2>1. ArrivesBy(p)
    BY <1>0, Arrivals
  <2>2. CASE pc[p] = "beads"
    <3>1. closed' = closed /\ closedAt' = closedAt
      BY <1>0, <2>2, Exclusive DEF WrittenBy, CloseBead
    <3>2. remote' = remote
      BY <1>0, <2>2, Exclusive DEF WrittenBy, GitPush
    <3> QED
      BY <1>0, <2>2, <3>1, <3>2 DEF PushOrder
  <2>3. CASE GitPush(p)
    BY <1>0, <2>3, MoleculeAssumption DEF GitPush, TypeOK, tracker, history, Beads
  <2> QED
    BY <1>3, <2>1, <2>2, <2>3 DEF ArrivesBy
<1> QED
  BY <1>2, <1>3 DEF PushOrder

(* The counter is never behind the reruns.                                 *)
LEMMA RerunsCountedStep == GateInv /\ [Next]_vars => RerunsCounted'
<1> SUFFICES ASSUME GateInv, [Next]_vars PROVE RerunsCounted'
  OBVIOUS
<1>0. WrittenBy /\ TypeOK /\ LockHeld /\ RerunsCounted
  BY Writers DEF GateInv
<1>1. autos' <= iteration' + Uncounted'
  <2>1. CASE RebuildResetsCount
    BY <2>1 DEF RebuildResetsCount, Uncounted
  <2>2. CASE \E p \in Procs : ResetCount(p)
    BY <2>2 DEF ResetCount, Uncounted
  <2>3. ASSUME NEW p \in Procs, SetCount(p) PROVE autos' <= iteration' + Uncounted'
    BY <1>0, <2>3, MoleculeAssumption DEF SetCount, TypeOK, RerunsCounted, Uncounted, history, reruns
  <2>4. ASSUME NEW p \in Procs, NEW q \in Procs, HandoffToRun(p, q)
        PROVE  autos' <= iteration' + Uncounted'
    BY <1>0, <2>4, MoleculeAssumption DEF HandoffToRun, TypeOK, RerunsCounted, Uncounted
  <2>5. CASE UNCHANGED <<autos, iteration, uncounted>>
    BY <1>0, <2>5 DEF RerunsCounted, Uncounted
  <2> QED
    BY <1>0, <2>1, <2>2, <2>3, <2>4, <2>5 DEF WrittenBy
<1>2. ASSUME NEW p \in Procs, pc[p] \in {"count", "rerun"}, pc'[p] = pc[p], ~RebuildResetsCount
      PROVE  autos' = autos /\ iteration' = iteration /\ uncounted' = uncounted
  <2>1. ASSUME NEW q \in Procs,
               ResetCount(q) \/ SetCount(q) \/ \E r \in Procs : HandoffToRun(q, r)
        PROVE  FALSE
    <3>1. q = p
      BY <1>0, <1>2, <2>1, Exclusive DEF ResetCount, SetCount, HandoffToRun
    <3> QED
      BY <1>0, <1>2, <2>1, <3>1 DEF ResetCount, SetCount, HandoffToRun, Spawn, Launch, Goto, TypeOK
  <2> QED
    BY <1>0, <1>2, <2>1 DEF WrittenBy
<1>3. ASSUME NEW p \in Procs, VerdictAutoIterate(p)
      PROVE  next'[p] # 0 /\ autos' < next'[p] + Uncounted'
  BY <1>0, <1>3, MoleculeAssumption
     DEF VerdictAutoIterate, TypeOK, RerunsCounted, Uncounted, history, reruns
<1>4. ASSUME NEW p \in Procs, SetCount(p) PROVE autos' < iteration' + Uncounted'
  BY <1>0, <1>4 DEF SetCount, history, reruns, RerunsCounted, Uncounted
<1>5. ASSUME NEW p \in Procs PROVE ArrivesBy(p) /\ Keeps(p)
  BY <1>0, Arrivals, Memory
<1>6. ASSUME NEW p \in Procs, RebuildResetsCount
      PROVE  /\ pc'[p] = "count" => next'[p] # 0 /\ autos' < next'[p] + Uncounted'
             /\ pc'[p] = "rerun" => autos' < iteration' + Uncounted'
  BY <1>0, <1>6, MoleculeAssumption DEF RebuildResetsCount, locals, RerunsCounted, Uncounted, TypeOK
<1>7. ASSUME NEW p \in Procs, pc'[p] = "count", ~RebuildResetsCount
      PROVE  next'[p] # 0 /\ autos' < next'[p] + Uncounted'
  BY <1>0, <1>2, <1>3, <1>5, <1>7 DEF ArrivesBy, Keeps, RerunsCounted, Uncounted
<1>8. ASSUME NEW p \in Procs, pc'[p] = "rerun", ~RebuildResetsCount
      PROVE  autos' < iteration' + Uncounted'
  BY <1>0, <1>2, <1>4, <1>5, <1>8 DEF ArrivesBy, RerunsCounted, Uncounted
<1> QED
  BY <1>1, <1>6, <1>7, <1>8 DEF RerunsCounted

-------------------------------------------------------------------------------
(* What the processes share keeps its type.                                *)
SharedTypes ==
  /\ created \in 0..MaxBeads
  /\ closed \in SUBSET (1..created) /\ clarify \in SUBSET (1..created)
  /\ head \in 0..MaxCommits /\ unlocked \in SUBSET (1..head)
  /\ remote \in 0..head
  /\ pushedBeads \in SUBSET Beads
  /\ closedAt \in [Beads -> 0..head]
  /\ seen \in [Procs -> 0..head] /\ reviewed \in 0..head
  /\ iteration \in 0..MaxIterations
  /\ orphans \in BOOLEAN
  /\ autos \in Nat /\ uncounted \in BOOLEAN

(* Whether agents are left behind stays a yes or no.                       *)
LEMMA OrphansStep == TypeOK /\ [Next]_vars => orphans' \in BOOLEAN
<1> SUFFICES ASSUME TypeOK, [Next]_vars PROVE orphans' \in BOOLEAN
  OBVIOUS
<1>1. orphans' = orphans \/ OrphansEnd \/ \E p \in Procs : Exit(p)
  <2> USE DEF vars
  <2>1. ASSUME NEW q \in Procs, RunStep(q) PROVE orphans' = orphans
    BY <2>1 DEF RunStep, PullBead, MoleculeComplete, HandoffToCheck, SessionCommits, SessionSucceeds,
           SessionRetry, SessionGivesUp, CloseBead, ApplyClarify
  <2>2. ASSUME NEW q \in Procs, CheckStep(q) PROVE orphans' = orphans
    BY <2>2 DEF CheckStep, PreSnapshot, ReviewCompletes, VerdictClarify,
           VerdictClean, VerdictAutoIterate, VerdictCap, ResetCount, GitPush, BeadsPush,
           SetCount, HandoffToRun, Escalate
  <2> QED
    BY <2>1, <2>2 DEF Next, StartCommand, AcquireSpec, SpecBusy, ReapChild, ReviewRaisesClarify,
       AnswerClarify, ReviewFilesBead, OrphanCommits, OtherSpecCommits, RebuildResetsCount
<1> QED
  BY <1>1 DEF TypeOK, OrphansEnd, Exit

(* They keep their types.                                                  *)
LEMMA SharedTypesStep == GateInv /\ [Next]_vars => SharedTypes'
<1> SUFFICES ASSUME GateInv, [Next]_vars PROVE SharedTypes'
  OBVIOUS
<1> USE MoleculeAssumption
<1>0. WrittenBy /\ TypeOK /\ SharedTypes /\ BeadInHand /\ RerunsCounted
  BY Writers DEF GateInv, SharedTypes, TypeOK
<1> USE DEF SharedTypes
<1>1. created' \in 0..MaxBeads /\ created <= created'
  BY <1>0 DEF WrittenBy, ReviewFilesBead
<1>2. closed' \in SUBSET (1..created')
  <2>1. ASSUME NEW p \in Procs, CloseBead(p) PROVE closed' \subseteq 1..created
    BY <1>0, <2>1 DEF CloseBead, BeadInHand, Ready
  <2>2. closed' \subseteq 1..created
    BY <1>0, <2>1 DEF WrittenBy
  <2> QED
    BY <1>0, <1>1, <2>2
<1>3. clarify' \in SUBSET (1..created')
  <2>1. ASSUME NEW p \in Procs, ApplyClarify(p) \/ Escalate(p) PROVE clarify' \subseteq 1..created
    <3>1. cur[p] \in 1..created
      BY <1>0, <2>1 DEF ApplyClarify, Escalate, BeadInHand, Ready
    <3> QED
      BY <1>0, <2>1, <3>1 DEF ApplyClarify, Escalate
  <2>2. ASSUME NEW b \in Beads, ReviewRaisesClarify(b)
        PROVE  clarify' \subseteq 1..created
    BY <1>0, <2>2 DEF ReviewRaisesClarify
  <2>3. clarify' \subseteq 1..created
    BY <1>0, <2>1, <2>2 DEF WrittenBy
  <2> QED
    BY <1>0, <1>1, <2>3
<1>4. head' \in 0..MaxCommits /\ head <= head'
  BY <1>0 DEF WrittenBy, OtherSpecCommits, OrphanCommits, SessionCommits
<1>5. unlocked' \in SUBSET (1..head')
  <2>1. unlocked \subseteq 1..head'
    BY <1>0, <1>4
  <2>2. CASE OtherSpecCommits \/ OrphanCommits
    <3>1. head' = head + 1 /\ unlocked' = unlocked \cup {head + 1}
      BY <2>2 DEF OtherSpecCommits, OrphanCommits
    <3> QED
      BY <1>0, <2>1, <3>1
  <2> QED
    BY <1>0, <2>1, <2>2 DEF WrittenBy
<1>6. remote' \in 0..head'
  BY <1>0, <1>4 DEF WrittenBy, GitPush
<1>7. pushedBeads' \in SUBSET Beads
  <2>1. closed \subseteq Beads
    BY <1>0 DEF Beads
  <2> QED
    BY <1>0, <2>1 DEF WrittenBy, BeadsPush
<1>8. closedAt' \in [Beads -> 0..head']
  BY <1>0, <1>4 DEF WrittenBy, CloseBead
<1>9. seen' \in [Procs -> 0..head'] /\ reviewed' \in 0..head'
  <2>1. seen \in [Procs -> 0..head'] /\ reviewed \in 0..head'
    BY <1>0, <1>4
  <2>2. ASSUME NEW p \in Procs, PreSnapshot(p) PROVE seen' \in [Procs -> 0..head']
    BY <1>0, <1>4, <2>1, <2>2 DEF PreSnapshot, branch
  <2>3. seen' \in [Procs -> 0..head']
    BY <1>0, <1>4, <2>1, <2>2 DEF WrittenBy
  <2>4. ASSUME NEW p \in Procs, ReviewCompletes(p) PROVE reviewed' \in 0..head'
    BY <1>0, <1>4, <2>4 DEF ReviewCompletes
  <2> QED
    BY <1>0, <2>1, <2>3, <2>4 DEF WrittenBy
<1>10. iteration' \in 0..MaxIterations
  <2>1. ASSUME NEW p \in Procs, SetCount(p) PROVE iteration' \in 0..MaxIterations
    BY <1>0, <2>1 DEF SetCount, TypeOK
  <2>2. iteration' = iteration \/ iteration' = 0 \/ \E p \in Procs : SetCount(p)
    <3> HIDE DEF SharedTypes
    <3> QED
      BY <1>0 DEF WrittenBy, ResetCount, RebuildResetsCount
  <2> QED
    BY <1>0, <2>1, <2>2
<1>11. autos' \in Nat /\ uncounted' \in BOOLEAN
  <2>1. ASSUME NEW p \in Procs, NEW q \in Procs, HandoffToRun(p, q) PROVE autos' \in Nat
    BY <1>0, <2>1 DEF HandoffToRun
  <2>2. autos' = autos \/ autos' = 0 \/ \E p \in Procs, q \in Procs : HandoffToRun(p, q)
    <3> HIDE DEF SharedTypes
    <3> QED
      BY <1>0 DEF WrittenBy, ResetCount, RebuildResetsCount
  <2>3. uncounted' \in BOOLEAN
    BY <1>0 DEF WrittenBy, ResetCount, RebuildResetsCount
  <2> QED
    BY <1>0, <2>1, <2>2, <2>3
<1>12. orphans' \in BOOLEAN
  BY <1>0, OrphansStep
<1> QED
  BY <1>1, <1>2, <1>3, <1>4, <1>5, <1>6, <1>7, <1>8, <1>9, <1>10, <1>11, <1>12

(* So does what each process has of its own, and the lock.                 *)
OwnTypes ==
  /\ holder \in Procs \cup {None}
  /\ pc \in [Procs -> {"idle", "lock", "await"} \cup RunPcs \cup CheckPcs]
  /\ job \in [Procs -> {"once", "continuous", "check"}]
  /\ parent \in [Procs -> Procs \cup {None}]
  /\ cur \in [Procs -> 0..MaxBeads]
  /\ tries \in [Procs -> 0..MaxRetries]
  /\ failure \in [Procs -> [bead : 0..MaxBeads, attempt : 0..MaxRetries]]
  /\ known \in [Procs -> 0..MaxBeads]
  /\ next \in [Procs -> 0..MaxIterations]

LEMMA OwnTypesStep == TypeOK /\ [Next]_vars => OwnTypes'
<1> SUFFICES ASSUME TypeOK, [Next]_vars PROVE OwnTypes'
  OBVIOUS
<1>0. /\ OwnTypes /\ created \in 0..MaxBeads /\ iteration \in 0..MaxIterations
      /\ NoFailure \in [bead : 0..MaxBeads, attempt : 0..MaxRetries]
  BY MoleculeAssumption DEF TypeOK, OwnTypes, NoFailure
<1> USE MoleculeAssumption, <1>0
<1> USE DEF OwnTypes, RunPcs, CheckPcs, locals, vars, Goto
<1>1. ASSUME NEW p \in Procs, EndProcess(p) PROVE OwnTypes'
  BY <1>1 DEF EndProcess
<1>2. ASSUME NEW p \in Procs, NEW q \in Procs, NEW command \in {"once", "continuous", "check"},
             Spawn(p, q, command)
      PROVE  OwnTypes'
  BY <1>2 DEF Spawn, Launch
<1>3. ASSUME UNCHANGED <<holder, job, parent, cur, tries, failure, known, next>>,
             NEW p \in Procs, NEW l \in {"pre", "pull"} \cup RunPcs \cup CheckPcs, Goto(p, l)
      PROVE  OwnTypes'
  BY <1>3
<1>4. ASSUME NEW p \in Procs, RunStep(p) PROVE OwnTypes'
  <2>1. CASE \E b \in Beads : PullBead(p, b)
    BY <2>1 DEF PullBead, Beads
  <2>2. CASE MoleculeComplete(p)
    BY <1>1, <1>3, <2>2 DEF MoleculeComplete
  <2>3. CASE \E q \in Procs : HandoffToCheck(p, q)
    BY <1>2, <2>3 DEF HandoffToCheck
  <2>4. CASE SessionCommits(p) \/ SessionSucceeds(p) \/ SessionGivesUp(p)
    BY <1>3, <2>4 DEF SessionCommits, SessionSucceeds, SessionGivesUp
  <2>5. CASE SessionRetry(p)
    BY <2>5 DEF SessionRetry
  <2>6. CASE CloseBead(p) \/ ApplyClarify(p)
    <3>1. BeadProcessed(p)
      BY <2>6 DEF CloseBead, ApplyClarify
    <3>2. CASE job[p] = "once"
      BY <1>1, <3>1, <3>2 DEF BeadProcessed
    <3>3. CASE job[p] # "once"
      <4>1. Goto(p, "pull") /\ UNCHANGED <<holder, job, parent, known, next>>
        BY <3>1, <3>3 DEF BeadProcessed
      <4>2. /\ cur' = [cur EXCEPT ![p] = 0]
            /\ tries' = [tries EXCEPT ![p] = 0]
            /\ failure' = [failure EXCEPT ![p] = NoFailure]
        BY <3>1, <3>3 DEF BeadProcessed
      <4>3. cur' \in [Procs -> 0..MaxBeads] /\ tries' \in [Procs -> 0..MaxRetries]
        BY <4>2
      <4>4. failure' \in [Procs -> [bead : 0..MaxBeads, attempt : 0..MaxRetries]]
        BY <4>2
      <4> QED
        BY <4>1, <4>3, <4>4
    <3> QED
      BY <3>2, <3>3
  <2> QED
    BY <1>4, <2>1, <2>2, <2>3, <2>4, <2>5, <2>6 DEF RunStep
<1>5. ASSUME NEW p \in Procs, CheckStep(p) PROVE OwnTypes'
  <2>1. CASE PreSnapshot(p)
    BY <2>1 DEF PreSnapshot
  <2>2. CASE VerdictAutoIterate(p)
    BY <2>2 DEF VerdictAutoIterate, Exhausted
  <2>3. CASE \/ ReviewCompletes(p) \/ VerdictClean(p)
             \/ ResetCount(p) \/ GitPush(p) \/ SetCount(p)
    BY <1>3, <2>3 DEF ReviewCompletes, VerdictClean, ResetCount, GitPush, SetCount
  <2>4. CASE VerdictClarify(p) \/ BeadsPush(p) \/ Escalate(p)
    BY <1>1, <2>4 DEF VerdictClarify, BeadsPush, Escalate
  <2>5. CASE VerdictCap(p)
    BY <2>5 DEF VerdictCap
  <2>6. CASE \E q \in Procs : HandoffToRun(p, q)
    BY <1>2, <2>6 DEF HandoffToRun
  <2> QED
    BY <1>5, <2>1, <2>2, <2>3, <2>4, <2>5, <2>6 DEF CheckStep
<1>6. ASSUME NEW p \in Procs, NEW command \in {"once", "continuous", "check"},
             StartCommand(p, command)
      PROVE  OwnTypes'
  BY <1>6 DEF StartCommand, Launch
<1>7. ASSUME NEW p \in Procs, AcquireSpec(p) PROVE OwnTypes'
  BY <1>7 DEF AcquireSpec
<1>8. ASSUME NEW p \in Procs, SpecBusy(p) \/ ReapChild(p) \/ Exit(p) PROVE OwnTypes'
  BY <1>1, <1>8 DEF SpecBusy, ReapChild, Exit
<1>9. ASSUME NEW b \in Beads, ReviewRaisesClarify(b) \/ AnswerClarify(b) PROVE OwnTypes'
  BY <1>9 DEF ReviewRaisesClarify, AnswerClarify
<1>10. CASE \/ ReviewFilesBead \/ OrphanCommits \/ OrphansEnd
            \/ OtherSpecCommits \/ RebuildResetsCount
  BY <1>10 DEF ReviewFilesBead, OrphanCommits, OrphansEnd, OtherSpecCommits, RebuildResetsCount
<1>11. CASE UNCHANGED vars
  BY <1>11
<1> QED
  BY <1>4, <1>5, <1>6, <1>7, <1>8, <1>9, <1>10, <1>11 DEF Next

-------------------------------------------------------------------------------
(* What was pushed stays reviewed: a push follows the review that began    *)
(* after the last commit of the spec.                                      *)
LEMMA PushedWorkStep == GateInv /\ [Next]_vars => PushedWorkWasReviewed'
<1> SUFFICES ASSUME GateInv, [Next]_vars, NEW c \in (1..remote') \ unlocked' PROVE c <= reviewed'
  BY DEF PushedWorkWasReviewed
<1>0. WrittenBy /\ TypeOK /\ ReviewCovers /\ PushedWorkWasReviewed
  BY Writers DEF GateInv
<1>1. c \notin unlocked
  BY <1>0 DEF WrittenBy, OtherSpecCommits, OrphanCommits
<1>2. c <= reviewed \/ \E p \in Procs : GitPush(p)
  BY <1>0, <1>1 DEF WrittenBy, PushedWorkWasReviewed
<1>3. ASSUME NEW p \in Procs, GitPush(p) PROVE c <= reviewed'
  BY <1>0, <1>1, <1>3 DEF GitPush, history, ReviewCovers
<1>4. ASSUME NEW p \in Procs, ReviewCompletes(p), c <= reviewed PROVE c <= reviewed'
  BY <1>0, <1>1, <1>4, MoleculeAssumption DEF ReviewCompletes, branch, ReviewCovers, TypeOK
<1> QED
  BY <1>0, <1>2, <1>3, <1>4 DEF WrittenBy

(* The closed beads on the remote stay behind its code.                    *)
LEMMA ClosedBeadsStep == GateInv /\ [Next]_vars => NoClosedBeadAheadOfCode'
<1> SUFFICES ASSUME GateInv, [Next]_vars, NEW b \in pushedBeads' PROVE closedAt'[b] <= remote'
  BY DEF NoClosedBeadAheadOfCode
<1>0. WrittenBy /\ TypeOK /\ PushOrder /\ BeadInHand /\ NoClosedBeadAheadOfCode
  BY Writers DEF GateInv
<1>1. remote <= remote'
  BY <1>0, MoleculeAssumption DEF WrittenBy, GitPush, TypeOK
<1>2. b \in closed /\ closedAt[b] <= remote
  BY <1>0 DEF WrittenBy, BeadsPush, PushOrder, NoClosedBeadAheadOfCode
<1>3. closedAt'[b] = closedAt[b]
  <2>1. ASSUME NEW p \in Procs, CloseBead(p) PROVE closedAt'[b] = closedAt[b]
    <3>1. cur[p] # b
      BY <1>0, <1>2, <2>1 DEF CloseBead, BeadInHand, Ready
    <3> QED
      BY <1>0, <1>2, <2>1, <3>1 DEF CloseBead, TypeOK
  <2> QED
    BY <1>0, <2>1 DEF WrittenBy
<1>4. closedAt[b] \in Nat /\ remote \in Nat /\ remote' \in Nat
  BY <1>0, <1>2, SharedTypesStep, MoleculeAssumption DEF TypeOK, SharedTypes, Beads
<1> QED
  BY <1>1, <1>2, <1>3, <1>4

(* A session has the error of the attempt before it.                       *)
LEMMA RetryContextStep == GateInv /\ [Next]_vars => RetryContext'
<1> SUFFICES ASSUME GateInv, [Next]_vars, NEW p \in Procs, pc'[p] = "session"
             PROVE  /\ tries'[p] <= MaxRetries
                    /\ failure'[p] = IF tries'[p] = 0 THEN NoFailure
                                     ELSE [bead |-> cur'[p], attempt |-> tries'[p] - 1]
  BY DEF RetryContext
<1>0. ArrivesBy(p) /\ Keeps(p) /\ TypeOK /\ FreshStart /\ RetryContext
  BY Arrivals, Memory DEF GateInv
<1> USE MoleculeAssumption DEF TypeOK
<1>1. ASSUME NEW b \in Beads, PullBead(p, b)
      PROVE  tries'[p] = 0 /\ failure'[p] = NoFailure
  BY <1>0, <1>1 DEF PullBead, FreshStart
<1>2. CASE SessionRetry(p)
  BY <1>0, <1>2 DEF SessionRetry
<1>3. CASE pc[p] = "session" /\ ~SessionRetry(p)
  BY <1>0, <1>3 DEF Keeps, PullBead, VerdictCap, RetryContext
<1> QED
  BY <1>0, <1>1, <1>2, <1>3 DEF ArrivesBy

-------------------------------------------------------------------------------
(* Nothing is under way at first.                                          *)
LEMMA GateInit == Init => GateInv
<1> SUFFICES ASSUME Init PROVE GateInv
  OBVIOUS
<1> USE MoleculeAssumption DEF Init
<1>1. TypeOK
  <2>1. orphans \in BOOLEAN /\ uncounted \in BOOLEAN
    OBVIOUS
  <2> QED
    BY <2>1 DEF TypeOK, NoFailure
<1>2. PushedWorkWasReviewed /\ NoClosedBeadAheadOfCode /\ RetryContext
  BY DEF PushedWorkWasReviewed, NoClosedBeadAheadOfCode, RetryContext
<1>3. LockHeld /\ FreshStart /\ BeadInHand /\ ReviewCovers /\ PushOrder /\ RerunsCounted
  BY DEF LockHeld, FreshStart, BeadInHand, ReviewCovers, PushOrder, RerunsCounted, Uncounted
<1> QED
  BY <1>1, <1>2, <1>3 DEF GateInv

(* The inductive invariant of the cycle (run/runner.rs, check/runner.rs)   *)
(* holds in every reachable state, whoever dies, answers or rebuilds       *)
(* meanwhile, and whatever agents do whose loom is gone.                   *)
THEOREM GateInvariance == Spec => []GateInv
<1>1. GateInv /\ [Next]_vars => GateInv'
  <2> SUFFICES ASSUME GateInv, [Next]_vars PROVE GateInv'
    OBVIOUS
  <2>1. TypeOK'
    BY SharedTypesStep, OwnTypesStep DEF GateInv, TypeOK, SharedTypes, OwnTypes
  <2> QED
    BY <2>1, LockHeldStep, FreshStartStep, BeadInHandStep, ReviewCoversStep, PushOrderStep,
       RerunsCountedStep, PushedWorkStep, ClosedBeadsStep, RetryContextStep DEF GateInv
<1> QED
  BY GateInit, <1>1, PTL DEF Spec

(* Every variable of the molecule keeps its type; the work in hand is a    *)
(* bead that exists, and the counter stays below its cap.                  *)
THEOREM GateTypeCorrect == Spec => []TypeOK
<1>1. GateInv => TypeOK
  BY DEF GateInv
<1> QED
  BY GateInvariance, <1>1, PTL

(* No commit made under the spec lock reaches the remote that the review   *)
(* which allowed the push did not see (check/runner.rs, a clean verdict).  *)
(* What other specs, and agents left behind, commit without it may.        *)
THEOREM PushesAreReviewed == Spec => []PushedWorkWasReviewed
<1>1. GateInv => PushedWorkWasReviewed
  BY DEF GateInv
<1> QED
  BY GateInvariance, <1>1, PTL

(* The remote tracker never says closed of a bead whose code is not there: *)
(* git push comes before beads-push, under one lock.                       *)
THEOREM TrackerStaysBehindCode == Spec => []NoClosedBeadAheadOfCode
<1>1. GateInv => NoClosedBeadAheadOfCode
  BY DEF GateInv
<1> QED
  BY GateInvariance, <1>1, PTL

(* The error in a prompt is that of the attempt before, for the same bead  *)
(* (process_one_bead, RetryPolicy::decide).                                *)
THEOREM RetriesKnowTheirFailure == Spec => []RetryContext
<1>1. GateInv => RetryContext
  BY DEF GateInv
<1> QED
  BY GateInvariance, <1>1, PTL

(* However often processes die between the write of the counter and the    *)
(* rerun, and whenever a rebuild resets it, the cap holds, but for the one *)
(* rerun whose count a rebuild reset (apply_verdict, IterationCap).        *)
THEOREM RerunsStayCapped == Spec => []AutoRerunsBounded
<1>1. GateInv => AutoRerunsBounded
  BY MoleculeAssumption DEF GateInv, RerunsCounted, Uncounted, AutoRerunsBounded, TypeOK
<1> QED
  BY GateInvariance, <1>1, PTL
===============================================================================
