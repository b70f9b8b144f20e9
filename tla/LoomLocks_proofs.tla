-------------------------- MODULE LoomLocks_proofs --------------------------
(***************************************************************************)
(* Proofs about LoomLocks for any numbers of specs, commands and inits.    *)
(***************************************************************************)
EXTENDS LoomLocks, TLAPS

(* Whoever believes to own a lock has it in the kernel.                    *)
RegionsAreLocked == \A p \in Procs : \A l \in Regions(p) : flock[l] = p

(* A waiting or working command's lock file exists, so a listing shows it. *)
FileOfTarget == \A c \in Commands : pc[c] # "idle" => target[c] \in files

(* While init probes, it still has to probe every early command's lock.    *)
EarlyIsUnprobed ==
  \A i \in Inits : pc[i] = "probing" =>
    \A c \in early[i] : pc[c] = "holding" /\ target[c] \in unprobed[i]

(* The inductive invariant.                                                *)
LockInv ==
  /\ TypeOK
  /\ RegionsAreLocked
  /\ NoOrphanLock
  /\ FileOfTarget
  /\ EarlyIsUnprobed
  /\ InitOutlivesEarlyCommands

-------------------------------------------------------------------------------
(* What the invariant says of one process or another.                      *)

(* Mutual exclusion follows from the invariant: flock is a function, so a  *)
(* lock has one owner, and a command's target is never the workspace.      *)
LEMMA LockInvMutex == LockInv => MutualExclusion
<1> SUFFICES ASSUME LockInv PROVE MutualExclusion
  OBVIOUS
<1> USE LocksAssumption DEF LockInv, Procs, Locks
<1>1. ASSUME NEW p \in Procs, NEW q \in Procs, p # q
      PROVE  Regions(p) \cap Regions(q) = {}
  BY <1>1 DEF RegionsAreLocked
<1>2. flock[Workspace] \in Inits \cup {None}
  <2>1. SUFFICES ASSUME NEW c \in Commands, flock[Workspace] = c PROVE FALSE
    BY DEF TypeOK
  <2>2. Workspace \in Regions(c)
    BY <2>1 DEF NoOrphanLock, TypeOK
  <2>3. pc[c] # "init" /\ target[c] \in Specs
    BY DEF TypeOK
  <2>. QED
    BY <2>2, <2>3 DEF Regions
<1>. QED
  BY <1>1, <1>2 DEF MutualExclusion

-------------------------------------------------------------------------------
(* Before any process runs no lock is held and the invariant is true.      *)
LEMMA LockInvInit == Init => LockInv
BY LocksAssumption DEF Init, LockInv, TypeOK, RegionsAreLocked, NoOrphanLock,
   FileOfTarget, EarlyIsUnprobed, InitOutlivesEarlyCommands, Regions, Procs, Locks

(* No step takes a variable out of its type; a poll never drops below 0.   *)
LEMMA TypeOKStep == TypeOK /\ [Next]_vars => TypeOK'
<1> SUFFICES ASSUME TypeOK, [Next]_vars PROVE TypeOK'
  OBVIOUS
<1> USE LocksAssumption DEF TypeOK, Procs, Locks
<1>1. ASSUME NEW c \in Commands, NEW label \in Locks, OpenSpecLock(c, label)
      PROVE  TypeOK'
  <2>1. label \in Specs
    BY <1>1 DEF OpenSpecLock
  <2>2. polls' \in [Commands -> 0..MaxPolls] /\ unprobed' \in [Inits -> SUBSET Specs]
    BY <1>1, <2>1 DEF OpenSpecLock
  <2>. QED
    BY <1>1, <2>1, <2>2 DEF OpenSpecLock, Goto
<1>2. ASSUME NEW c \in Commands, GrantSpec(c) PROVE TypeOK'
  BY <1>2 DEF GrantSpec, Goto
<1>3. ASSUME NEW c \in Commands, Retry(c) PROVE TypeOK'
  BY <1>3 DEF Retry
<1>4. ASSUME NEW c \in Commands, SpecBusy(c) PROVE TypeOK'
  BY <1>4 DEF SpecBusy, Goto
<1>5. ASSUME NEW c \in Commands, ReleaseSpec(c) PROVE TypeOK'
  BY <1>5 DEF ReleaseSpec, Goto, CloseFds, ForgetEarly
<1>6. ASSUME NEW i \in Inits, BeginProbe(i) PROVE TypeOK'
  BY <1>6 DEF BeginProbe, Goto
<1>7. ASSUME NEW i \in Inits, NEW s \in Specs, ProbeTake(i, s) PROVE TypeOK'
  BY <1>7 DEF ProbeTake
<1>8. ASSUME NEW i \in Inits, NEW s \in Specs, ProbeDrop(i, s) PROVE TypeOK'
  BY <1>8 DEF ProbeDrop, CloseFds
<1>9. ASSUME NEW i \in Inits, NEW s \in Specs, ProbeBusy(i, s) PROVE TypeOK'
  BY <1>9 DEF ProbeBusy, Goto
<1>10. ASSUME NEW i \in Inits, TakeWorkspace(i) PROVE TypeOK'
  BY <1>10 DEF TakeWorkspace, Goto
<1>11. ASSUME NEW i \in Inits, WorkspaceBusy(i) PROVE TypeOK'
  BY <1>11 DEF WorkspaceBusy, Goto
<1>12. ASSUME NEW i \in Inits, ReleaseWorkspace(i) PROVE TypeOK'
  BY <1>12 DEF ReleaseWorkspace, Goto, CloseFds
<1>13. ASSUME NEW p \in Procs, Crash(p) PROVE TypeOK'
  BY <1>13 DEF Crash, Goto, CloseFds, ForgetEarly
<1>14. CASE UNCHANGED vars
  BY <1>14 DEF vars
<1>. QED
  BY <1>1, <1>2, <1>3, <1>4, <1>5, <1>6, <1>7, <1>8, <1>9, <1>10, <1>11, <1>12,
     <1>13, <1>14 DEF Next, Poll, AcquireWorkspace

(***************************************************************************)
(* The kernel's view and the processes' view stay in step.                 *)
(***************************************************************************)
LEMMA LocksAgreeStep ==
  TypeOK /\ RegionsAreLocked /\ NoOrphanLock /\ [Next]_vars
    => (RegionsAreLocked /\ NoOrphanLock)'
<1> SUFFICES ASSUME TypeOK, RegionsAreLocked, NoOrphanLock, [Next]_vars
             PROVE  (RegionsAreLocked /\ NoOrphanLock)'
  OBVIOUS
<1> USE LocksAssumption DEF TypeOK, RegionsAreLocked, NoOrphanLock, Regions, Procs, Locks
<1>1. ASSUME NEW c \in Commands, NEW label \in Locks, OpenSpecLock(c, label)
      PROVE  (RegionsAreLocked /\ NoOrphanLock)'
  BY <1>1 DEF OpenSpecLock, Goto
<1>2. ASSUME NEW c \in Commands, GrantSpec(c)
      PROVE  (RegionsAreLocked /\ NoOrphanLock)'
  BY <1>2 DEF GrantSpec, Goto
<1>3. ASSUME NEW c \in Commands, Retry(c)
      PROVE  (RegionsAreLocked /\ NoOrphanLock)'
  BY <1>3 DEF Retry
<1>4. ASSUME NEW c \in Commands, SpecBusy(c)
      PROVE  (RegionsAreLocked /\ NoOrphanLock)'
  BY <1>4 DEF SpecBusy, Goto
<1>5. ASSUME NEW c \in Commands, ReleaseSpec(c)
      PROVE  (RegionsAreLocked /\ NoOrphanLock)'
  BY <1>5 DEF ReleaseSpec, Goto, CloseFds, ForgetEarly
<1>6. ASSUME NEW i \in Inits, BeginProbe(i)
      PROVE  (RegionsAreLocked /\ NoOrphanLock)'
  BY <1>6 DEF BeginProbe, Goto
<1>7. ASSUME NEW i \in Inits, NEW s \in Specs, ProbeTake(i, s)
      PROVE  (RegionsAreLocked /\ NoOrphanLock)'
  BY <1>7 DEF ProbeTake, Holds
<1>8. ASSUME NEW i \in Inits, NEW s \in Specs, ProbeDrop(i, s)
      PROVE  (RegionsAreLocked /\ NoOrphanLock)'
  BY <1>8 DEF ProbeDrop, CloseFds
<1>9. ASSUME NEW i \in Inits, NEW s \in Specs, ProbeBusy(i, s)
      PROVE  (RegionsAreLocked /\ NoOrphanLock)'
  BY <1>9 DEF ProbeBusy, Goto, Holds
<1>10. ASSUME NEW i \in Inits, TakeWorkspace(i)
      PROVE  (RegionsAreLocked /\ NoOrphanLock)'
  BY <1>10 DEF TakeWorkspace, Goto, Holds
<1>11. ASSUME NEW i \in Inits, WorkspaceBusy(i)
      PROVE  (RegionsAreLocked /\ NoOrphanLock)'
  BY <1>11 DEF WorkspaceBusy, Goto, Holds
<1>12. ASSUME NEW i \in Inits, ReleaseWorkspace(i)
      PROVE  (RegionsAreLocked /\ NoOrphanLock)'
  BY <1>12 DEF ReleaseWorkspace, Goto, CloseFds
<1>13. ASSUME NEW p \in Procs, Crash(p)
      PROVE  (RegionsAreLocked /\ NoOrphanLock)'
  BY <1>13 DEF Crash, Goto, CloseFds, ForgetEarly
<1>14. CASE UNCHANGED vars
  BY <1>14 DEF vars
<1>. QED
  BY <1>1, <1>2, <1>3, <1>4, <1>5, <1>6, <1>7, <1>8, <1>9, <1>10, <1>11, <1>12, <1>13, <1>14
     DEF Next, Poll, AcquireWorkspace

(***************************************************************************)
(* An early command's lock stays on the list of locks still to be probed,  *)
(* so init cannot reach the workspace lock before the command is done.     *)
(***************************************************************************)
LEMMA EarlyStep ==
  LockInv /\ [Next]_vars
    => (FileOfTarget /\ EarlyIsUnprobed /\ InitOutlivesEarlyCommands)'
<1> DEFINE Goal == FileOfTarget /\ EarlyIsUnprobed /\ InitOutlivesEarlyCommands
<1> SUFFICES ASSUME LockInv, [Next]_vars PROVE Goal'
  OBVIOUS
<1> USE LocksAssumption
    DEF LockInv, TypeOK, FileOfTarget, EarlyIsUnprobed, InitOutlivesEarlyCommands, Procs, Locks
<1>1. ASSUME NEW c \in Commands, NEW label \in Locks, OpenSpecLock(c, label)
      PROVE  Goal'
  BY <1>1 DEF OpenSpecLock, Goto
<1>2. ASSUME NEW c \in Commands, GrantSpec(c)
      PROVE  Goal'
  BY <1>2 DEF GrantSpec, Goto
<1>3. ASSUME NEW c \in Commands, Retry(c)
      PROVE  Goal'
  BY <1>3 DEF Retry
<1>4. ASSUME NEW c \in Commands, SpecBusy(c)
      PROVE  Goal'
  BY <1>4 DEF SpecBusy, Goto
<1>5. ASSUME NEW c \in Commands, ReleaseSpec(c)
      PROVE  Goal'
  BY <1>5 DEF ReleaseSpec, Goto, CloseFds, ForgetEarly
<1>6. ASSUME NEW i \in Inits, BeginProbe(i)
      PROVE  Goal'
  BY <1>6 DEF BeginProbe, Goto
<1>7. ASSUME NEW i \in Inits, NEW s \in Specs, ProbeTake(i, s)
      PROVE  Goal'
  BY <1>7 DEF ProbeTake, Holds
<1>8. ASSUME NEW i \in Inits, NEW s \in Specs, ProbeDrop(i, s)
      PROVE  Goal'
  BY <1>8 DEF ProbeDrop, CloseFds, Regions, RegionsAreLocked
<1>9. ASSUME NEW i \in Inits, NEW s \in Specs, ProbeBusy(i, s)
      PROVE  Goal'
  BY <1>9 DEF ProbeBusy, Goto, Holds
<1>10. ASSUME NEW i \in Inits, TakeWorkspace(i)
      PROVE  Goal'
  BY <1>10 DEF TakeWorkspace, Goto, Holds
<1>11. ASSUME NEW i \in Inits, WorkspaceBusy(i)
      PROVE  Goal'
  BY <1>11 DEF WorkspaceBusy, Goto, Holds
<1>12. ASSUME NEW i \in Inits, ReleaseWorkspace(i)
      PROVE  Goal'
  BY <1>12 DEF ReleaseWorkspace, Goto, CloseFds
<1>13. ASSUME NEW p \in Procs, Crash(p)
      PROVE  Goal'
  BY <1>13 DEF Crash, Goto, CloseFds, ForgetEarly
<1>14. CASE UNCHANGED vars
  BY <1>14 DEF vars
<1>. QED
  BY <1>1, <1>2, <1>3, <1>4, <1>5, <1>6, <1>7, <1>8, <1>9, <1>10, <1>11, <1>12, <1>13, <1>14
     DEF Next, Poll, AcquireWorkspace

(* Every step keeps the conjuncts of the invariant together.               *)
LEMMA LockInvStep == LockInv /\ [Next]_vars => LockInv'
BY TypeOKStep, LocksAgreeStep, EarlyStep DEF LockInv

(* The strengthened invariant holds of every reachable state.              *)
THEOREM LockInvariance == Spec => []LockInv
<1>1. Init => LockInv
  BY LockInvInit
<1>2. LockInv /\ [Next]_vars => LockInv'
  BY LockInvStep
<1>. QED
  BY <1>1, <1>2, PTL DEF Spec

(* Every variable keeps its type, for any number of specs and processes.   *)
THEOREM TypeCorrect == Spec => []TypeOK
<1>1. LockInv => TypeOK
  BY DEF LockInv
<1>. QED
  BY <1>1, LockInvariance, PTL

(* acquire_spec and acquire_workspace give mutual exclusion.               *)
THEOREM LocksExclude == Spec => []MutualExclusion
BY LockInvMutex, LockInvariance, PTL

(* No lock outlives the process that took it (LockGuard's drop, a crash).  *)
THEOREM NoLockIsOrphaned == Spec => []NoOrphanLock
<1>1. LockInv => NoOrphanLock
  BY DEF LockInv
<1>. QED
  BY <1>1, LockInvariance, PTL

(* acquire_workspace waits out every command that was there before it.     *)
THEOREM InitWaitsForEarlyCommands == Spec => []InitOutlivesEarlyCommands
<1>1. LockInv => InitOutlivesEarlyCommands
  BY DEF LockInv
<1>. QED
  BY <1>1, LockInvariance, PTL

-------------------------------------------------------------------------------
(* Refinement: LoomLocks implements ExclusiveLocks.                        *)

(* Under the invariant the mapped owner of a lock is whoever is inside it. *)
OwnerInside ==
  /\ Owner \in [Locks -> Procs \cup {None}]
  /\ \A l \in Locks, p \in Procs : Owner[l] = p <=> l \in Regions(p)

(* The abstract owner of a lock is the process inside the lock's region.   *)
LEMMA OwnerIsInside == LockInv => OwnerInside
<1> SUFFICES ASSUME LockInv PROVE OwnerInside
  OBVIOUS
<1>1. flock \in [Locks -> Procs \cup {None}]
  BY DEF LockInv, TypeOK
<1>2. Owner \in [Locks -> Procs \cup {None}]
  BY <1>1 DEF Owner
<1>3. ASSUME NEW l \in Locks, NEW p \in Procs
      PROVE  Owner[l] = p <=> l \in Regions(p)
  <2>1. p # None
    BY LocksAssumption DEF Procs
  <2>2. l \in Regions(p) => flock[l] = p
    BY DEF LockInv, RegionsAreLocked
  <2>3. Owner[l] = IF flock[l] # None /\ l \in Regions(flock[l]) THEN flock[l] ELSE None
    BY DEF Owner
  <2>. QED
    BY <2>1, <2>2, <2>3
<1>. QED
  BY <1>2, <1>3 DEF OwnerInside

(* The same of the state after a step.                                     *)
LEMMA OwnerIsInsideNext == LockInv' => OwnerInside'
BY OwnerIsInside, PTL

(* Steps that move nobody in or out of a region are abstract stutters.     *)
LEMMA OwnerUnchanged ==
  ASSUME LockInv, LockInv', \A p \in Procs : Regions(p)' = Regions(p)
  PROVE  Owner' = Owner
<1> USE OwnerIsInside, OwnerIsInsideNext DEF OwnerInside
<1>1. \A l \in Locks : Owner'[l] = Owner[l]
  <2>1. \A l \in Locks, p \in Procs : Owner'[l] = p <=> Owner[l] = p
    OBVIOUS
  <2>. QED
    BY <2>1, LocksAssumption DEF Procs
<1>. QED
  BY <1>1

(* A step by which one process gets one free region is an abstract Enter.  *)
LEMMA OwnerEnters ==
  ASSUME LockInv, LockInv', NEW p \in Procs, NEW l \in Locks,
         flock[l] = None, Regions(p) = {}, Regions(p)' = {l},
         \A q \in Procs \ {p} : Regions(q)' = Regions(q)
  PROVE  Abs!Enter(p, l)
<1> USE OwnerIsInside, OwnerIsInsideNext DEF OwnerInside
<1>1. \A q \in Procs : l \notin Regions(q)
  BY LocksAssumption DEF LockInv, RegionsAreLocked, Procs
<1>2. Owner[l] = None /\ \A m \in Locks : Owner[m] # p
  BY <1>1
<1>3. \A m \in Locks : Owner'[m] = IF m = l THEN p ELSE Owner[m]
  <2>1. Owner'[l] = p
    OBVIOUS
  <2>2. ASSUME NEW m \in Locks, m # l PROVE Owner'[m] = Owner[m]
    <3>1. \A q \in Procs : Owner'[m] = q <=> Owner[m] = q
      BY <2>2
    <3>. QED
      BY <3>1, LocksAssumption DEF Procs
  <2>. QED
    BY <2>1, <2>2
<1>. QED
  BY <1>2, <1>3 DEF Abs!Enter

(* A step by which one process gives up what it has is an abstract Leave.  *)
LEMMA OwnerLeaves ==
  ASSUME LockInv, LockInv', NEW p \in Procs, NEW l \in Locks,
         Regions(p) = {l}, Regions(p)' = {},
         \A q \in Procs \ {p} : Regions(q)' = Regions(q)
  PROVE  Abs!Leave(p, l)
<1> USE OwnerIsInside, OwnerIsInsideNext DEF OwnerInside
<1>1. \A q \in Procs \ {p} : l \notin Regions(q)
  BY LocksAssumption DEF LockInv, RegionsAreLocked, Procs
<1>2. Owner[l] = p
  OBVIOUS
<1>3. \A m \in Locks : Owner'[m] = IF m = l THEN None ELSE Owner[m]
  <2>1. Owner'[l] = None
    <3>1. \A q \in Procs : l \notin Regions(q)'
      BY <1>1
    <3>. QED
      BY <3>1
  <2>2. ASSUME NEW m \in Locks, m # l PROVE Owner'[m] = Owner[m]
    <3>1. \A q \in Procs : Owner'[m] = q <=> Owner[m] = q
      BY <2>2
    <3>. QED
      BY <3>1, LocksAssumption DEF Procs
  <2>. QED
    BY <2>1, <2>2
<1>. QED
  BY <1>2, <1>3 DEF Abs!Leave

(***************************************************************************)
(* Every step of loom's protocol is an Enter, a Leave or a stutter of the  *)
(* abstract locks.                                                         *)
(***************************************************************************)
LEMMA StepRefines ==
  LockInv /\ LockInv' /\ [Next]_vars => [Abs!AbsNext]_Owner
<1> SUFFICES ASSUME LockInv, LockInv', [Next]_vars PROVE [Abs!AbsNext]_Owner
  OBVIOUS
<1> DEFINE Still == \A p \in Procs : Regions(p)' = Regions(p)
<1>0. Still => Owner' = Owner
  BY OwnerUnchanged
<1> HIDE DEF Still
<1>a. ASSUME NEW p \in Procs, NEW l \in Locks, Abs!Enter(p, l) \/ Abs!Leave(p, l)
      PROVE  Abs!AbsNext
  BY <1>a DEF Abs!AbsNext
<1> USE LocksAssumption DEF Procs, Locks
<1>1. ASSUME NEW c \in Commands, NEW label \in Locks, OpenSpecLock(c, label) PROVE Owner' = Owner
  BY <1>0, <1>1 DEF Still, OpenSpecLock, Goto, Regions, LockInv, TypeOK
<1>2. ASSUME NEW c \in Commands, GrantSpec(c) PROVE Abs!Enter(c, target[c])
  <2>1. Regions(c) = {} /\ Regions(c)' = {target[c]}
    BY <1>2 DEF GrantSpec, Goto, Regions, LockInv, TypeOK
  <2>2. \A q \in Procs \ {c} : Regions(q)' = Regions(q)
    BY <1>2 DEF GrantSpec, Goto, Regions, LockInv, TypeOK
  <2>. QED
    BY <1>2, <2>1, <2>2, OwnerEnters DEF GrantSpec, LockInv, TypeOK
<1>3. ASSUME NEW c \in Commands, Retry(c) PROVE Owner' = Owner
  BY <1>0, <1>3 DEF Still, Retry, Regions, LockInv, TypeOK
<1>4. ASSUME NEW c \in Commands, SpecBusy(c) PROVE Owner' = Owner
  BY <1>0, <1>4 DEF Still, SpecBusy, Goto, Regions, LockInv, TypeOK
<1>5. ASSUME NEW c \in Commands, ReleaseSpec(c) PROVE Abs!Leave(c, target[c])
  <2>1. Regions(c) = {target[c]} /\ Regions(c)' = {}
    BY <1>5 DEF ReleaseSpec, Goto, Regions, LockInv, TypeOK
  <2>2. \A q \in Procs \ {c} : Regions(q)' = Regions(q)
    BY <1>5 DEF ReleaseSpec, Goto, Regions, LockInv, TypeOK
  <2>. QED
    BY <2>1, <2>2, OwnerLeaves DEF LockInv, TypeOK
<1>6. ASSUME NEW i \in Inits, BeginProbe(i) PROVE Owner' = Owner
  BY <1>0, <1>6 DEF Still, BeginProbe, Goto, Regions, LockInv, TypeOK
<1>7. ASSUME NEW i \in Inits, NEW s \in Specs, ProbeTake(i, s) PROVE Owner' = Owner
  BY <1>0, <1>7 DEF Still, ProbeTake, Regions, LockInv, TypeOK
<1>8. ASSUME NEW i \in Inits, NEW s \in Specs, ProbeDrop(i, s) PROVE Owner' = Owner
  BY <1>0, <1>8 DEF Still, ProbeDrop, Regions, LockInv, TypeOK
<1>9. ASSUME NEW i \in Inits, NEW s \in Specs, ProbeBusy(i, s) PROVE Owner' = Owner
  BY <1>0, <1>9 DEF Still, ProbeBusy, Goto, Regions, LockInv, TypeOK
<1>10. ASSUME NEW i \in Inits, TakeWorkspace(i) PROVE Abs!Enter(i, Workspace)
  <2>1. Regions(i) = {} /\ Regions(i)' = {Workspace}
    BY <1>10 DEF TakeWorkspace, Goto, Regions, LockInv, TypeOK
  <2>2. \A q \in Procs \ {i} : Regions(q)' = Regions(q)
    BY <1>10 DEF TakeWorkspace, Goto, Regions, LockInv, TypeOK
  <2>. QED
    BY <1>10, <2>1, <2>2, OwnerEnters DEF TakeWorkspace
<1>11. ASSUME NEW i \in Inits, WorkspaceBusy(i) PROVE Owner' = Owner
  BY <1>0, <1>11 DEF Still, WorkspaceBusy, Goto, Regions, LockInv, TypeOK
<1>12. ASSUME NEW i \in Inits, ReleaseWorkspace(i) PROVE Abs!Leave(i, Workspace)
  <2>1. Regions(i) = {Workspace} /\ Regions(i)' = {}
    BY <1>12 DEF ReleaseWorkspace, Goto, Regions, LockInv, TypeOK
  <2>2. \A q \in Procs \ {i} : Regions(q)' = Regions(q)
    BY <1>12 DEF ReleaseWorkspace, Goto, Regions, LockInv, TypeOK
  <2>. QED
    BY <2>1, <2>2, OwnerLeaves
<1>13. ASSUME NEW p \in Procs, Crash(p)
       PROVE  Owner' = Owner \/ \E l \in Locks : Abs!Leave(p, l)
  <2>1. Regions(p)' = {} /\ \A q \in Procs \ {p} : Regions(q)' = Regions(q)
    BY <1>13 DEF Crash, Goto, Regions, LockInv, TypeOK
  <2>2. CASE Regions(p) = {}
    BY <1>0, <2>1, <2>2 DEF Still
  <2>3. CASE Regions(p) # {}
    <3>1. PICK l \in Locks : Regions(p) = {l}
      BY <2>3 DEF Regions, LockInv, TypeOK
    <3>. QED
      BY <2>1, <3>1, OwnerLeaves
  <2>. QED
    BY <2>2, <2>3
<1>14. CASE UNCHANGED vars
  BY <1>0, <1>14 DEF Still, vars, Regions
<1>. QED
  <2>1. \A c \in Commands : target[c] \in Locks
    BY DEF LockInv, TypeOK
  <2>. QED
    BY <1>a, <1>1, <1>2, <1>3, <1>4, <1>5, <1>6, <1>7, <1>8, <1>9, <1>10, <1>11, <1>12,
       <1>13, <1>14, <2>1 DEF Next, Poll, AcquireWorkspace

(* The lock manager implements exclusive locks.                            *)
THEOREM LocksRefine == Spec => ImplementsExclusiveLocks
<1>1. Init => Abs!AbsInit
  BY LocksAssumption DEF Init, Abs!AbsInit, Owner, Locks, Procs
<1>2. LockInv /\ LockInv' /\ [Next]_vars => [Abs!AbsNext]_Owner
  BY StepRefines
<1>. QED
  BY <1>1, <1>2, LockInvariance, PTL DEF Spec, ImplementsExclusiveLocks, Abs!AbsSpec
===============================================================================
