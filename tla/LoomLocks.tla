------------------------------ MODULE LoomLocks ------------------------------
(***************************************************************************)
(* The advisory locks of loom (loom-core/src/lock/manager.rs) and the      *)
(* processes that contend for them.                                        *)
(*                                                                         *)
(* A spec-scoped command (run, check, todo, plan, use, msg -s) opens       *)
(* <label>.lock and polls flock(2) on it until a deadline.  `loom init`    *)
(* lists the lock files, probes each one by taking and dropping it, and    *)
(* then tries workspace.lock once.  The kernel drops a process's locks     *)
(* when the process ends, however it ends.                                 *)
(*                                                                         *)
(* Time is abstracted to the number of polls that fit before the           *)
(* deadline, chosen when the command starts waiting.                       *)
(***************************************************************************)
EXTENDS Naturals

CONSTANTS
  Specs,      (* Labels a spec-scoped command may lock.                    *)
  Commands,   (* Processes running a spec-scoped command.                  *)
  Inits,      (* Processes running `loom init`.                            *)
  Workspace,  (* The reserved label "workspace".                           *)
  None,       (* No process.                                               *)
  MaxPolls    (* Bound on the polls that fit before the deadline.          *)

ASSUME LocksAssumption ==
  /\ Workspace \notin Specs
  /\ Commands \cap Inits = {}
  /\ None \notin Commands \cup Inits
  /\ MaxPolls \in Nat

Procs == Commands \cup Inits
Locks == Specs \cup {Workspace}

VARIABLES
  pc,        (* Where each process is.                                     *)
  target,    (* The label a command was started with.                      *)
  polls,     (* Polls a waiting command still has before its deadline.     *)
  files,     (* Specs whose lock file exists; files are never deleted.     *)
  flock,     (* The process whose descriptor holds each kernel lock.       *)
  unprobed,  (* Lock files an init has listed but not probed yet.          *)
  early      (* History: commands that already held their lock when an     *)
             (* init began to probe, and have held it ever since.          *)

vars == <<pc, target, polls, files, flock, unprobed, early>>

(***************************************************************************)
(* Command pcs: "idle", "waiting" (inside acquire_with_timeout) and        *)
(* "holding".  Init pcs: "idle", "probing" (inside find_held_spec_lock)    *)
(* and "init" (workspace.lock held, mutating config and state DB).         *)
(***************************************************************************)
TypeOK ==
  /\ pc \in [Procs -> {"idle", "waiting", "holding", "probing", "init"}]
  /\ \A c \in Commands : pc[c] \in {"idle", "waiting", "holding"}
  /\ \A i \in Inits : pc[i] \in {"idle", "probing", "init"}
  /\ target \in [Commands -> Specs]
  /\ polls \in [Commands -> 0..MaxPolls]
  /\ files \in SUBSET Specs
  /\ flock \in [Locks -> Procs \cup {None}]
  /\ unprobed \in [Inits -> SUBSET Specs]
  /\ early \in [Inits -> SUBSET Commands]

Init ==
  /\ pc = [p \in Procs |-> "idle"]
  /\ target \in [Commands -> Specs]
  /\ polls = [c \in Commands |-> 0]
  /\ files = {}
  /\ flock = [l \in Locks |-> None]
  /\ unprobed = [i \in Inits |-> {}]
  /\ early = [i \in Inits |-> {}]

Goto(p, there) == pc' = [pc EXCEPT ![p] = there]

(* Mutant: a child process inherited the descriptor, the lock survives.    *)
CloseFdsInherited(p) == UNCHANGED flock

(* Closing its descriptors is what frees the locks of p.                   *)
CloseFds(p) ==
  flock' = [l \in Locks |-> IF flock[l] = p THEN None ELSE flock[l]]

ForgetEarly(p) == early' = [i \in Inits |-> early[i] \ {p}]

-------------------------------------------------------------------------------
(* Spec-scoped commands.                                                   *)

(***************************************************************************)
(* acquire_spec: the reserved label is refused, then the lock file is      *)
(* created if it is missing.  A directory stream that is open meanwhile    *)
(* may or may not deliver a file created after it was opened.              *)
(***************************************************************************)
OpenSpecLock(c, label) ==
  /\ pc[c] = "idle"
  /\ label # Workspace
  /\ Goto(c, "waiting")
  /\ target' = [target EXCEPT ![c] = label]
  /\ \E budget \in 0..MaxPolls : polls' = [polls EXCEPT ![c] = budget]
  /\ files' = files \cup {label}
  /\ \E late \in SUBSET {i \in Inits : pc[i] = "probing" /\ label \notin files} :
       unprobed' = [i \in Inits |-> IF i \in late THEN unprobed[i] \cup {label}
                                                  ELSE unprobed[i]]
  /\ UNCHANGED <<flock, early>>

(* Mutant: the write guard is dropped, not forgotten, so flock is undone.  *)
GrantSpecDropsGuard(c) ==
  /\ pc[c] = "waiting"
  /\ flock[target[c]] = None
  /\ Goto(c, "holding")
  /\ UNCHANGED <<target, polls, files, flock, unprobed, early>>

(* try_lock_and_forget succeeds.                                           *)
GrantSpec(c) ==
  /\ pc[c] = "waiting"
  /\ flock[target[c]] = None
  /\ flock' = [flock EXCEPT ![target[c]] = c]
  /\ Goto(c, "holding")
  /\ UNCHANGED <<target, polls, files, unprobed, early>>

(* Mutant: the deadline is recomputed on every turn of the loop.           *)
RetryNewDeadline(c) ==
  /\ pc[c] = "waiting"
  /\ flock[target[c]] # None
  /\ polls[c] > 0
  /\ UNCHANGED vars

(* Mutant: the loop sleeps without looking at the deadline.                *)
RetryPastDeadline(c) ==
  /\ pc[c] = "waiting"
  /\ flock[target[c]] # None
  /\ polls' = [polls EXCEPT ![c] = @ - 1]
  /\ UNCHANGED <<pc, target, files, flock, unprobed, early>>

(* The lock is taken and the deadline not reached: sleep and try again.    *)
Retry(c) ==
  /\ pc[c] = "waiting"
  /\ flock[target[c]] # None
  /\ polls[c] > 0
  /\ polls' = [polls EXCEPT ![c] = @ - 1]
  /\ UNCHANGED <<pc, target, files, flock, unprobed, early>>

SpecBusy(c) ==
  /\ pc[c] = "waiting"
  /\ flock[target[c]] # None
  /\ polls[c] = 0
  /\ Goto(c, "idle")
  /\ UNCHANGED <<target, polls, files, flock, unprobed, early>>

Poll(c) == GrantSpec(c) \/ Retry(c) \/ SpecBusy(c)

(* The guard goes out of scope when the command returns.                   *)
ReleaseSpec(c) ==
  /\ pc[c] = "holding"
  /\ CloseFds(c)
  /\ Goto(c, "idle")
  /\ ForgetEarly(c)
  /\ UNCHANGED <<target, polls, files, unprobed>>

-------------------------------------------------------------------------------
(* loom init.                                                              *)

BeginProbe(i) ==
  /\ pc[i] = "idle"
  /\ Goto(i, "probing")
  /\ unprobed' = [unprobed EXCEPT ![i] = files]
  /\ early' = [early EXCEPT ![i] = {c \in Commands : pc[c] = "holding"}]
  /\ UNCHANGED <<target, polls, files, flock>>

Holds(p) == {l \in Locks : flock[l] = p}

(* try_write succeeds: for a moment the probe itself holds the spec lock.  *)
ProbeTake(i, s) ==
  /\ pc[i] = "probing"
  /\ Holds(i) = {}
  /\ s \in unprobed[i]
  /\ flock[s] = None
  /\ flock' = [flock EXCEPT ![s] = i]
  /\ UNCHANGED <<pc, target, polls, files, unprobed, early>>

ProbeDrop(i, s) ==
  /\ pc[i] = "probing"
  /\ flock[s] = i
  /\ CloseFds(i)
  /\ unprobed' = [unprobed EXCEPT ![i] = @ \ {s}]
  /\ UNCHANGED <<pc, target, polls, files, early>>

(* Mutant: a lock that cannot be taken is skipped like any other entry.    *)
ProbeSkipsBusy(i, s) ==
  /\ pc[i] = "probing"
  /\ Holds(i) = {}
  /\ s \in unprobed[i]
  /\ flock[s] # None
  /\ unprobed' = [unprobed EXCEPT ![i] = @ \ {s}]
  /\ UNCHANGED <<pc, target, polls, files, flock, early>>

(* try_write fails: WorkspaceBusy names the spec and init gives up.        *)
ProbeBusy(i, s) ==
  /\ pc[i] = "probing"
  /\ Holds(i) = {}
  /\ s \in unprobed[i]
  /\ flock[s] # None
  /\ Goto(i, "idle")
  /\ UNCHANGED <<target, polls, files, flock, unprobed, early>>

(* Mutant: a stale workspace.lock is broken instead of respected.          *)
TakeWorkspaceByForce(i) ==
  /\ pc[i] = "probing"
  /\ Holds(i) = {}
  /\ unprobed[i] = {}
  /\ flock' = [flock EXCEPT ![Workspace] = i]
  /\ Goto(i, "init")
  /\ UNCHANGED <<target, polls, files, unprobed, early>>

(* One try, no waiting.                                                    *)
TakeWorkspace(i) ==
  /\ pc[i] = "probing"
  /\ Holds(i) = {}
  /\ unprobed[i] = {}
  /\ flock[Workspace] = None
  /\ flock' = [flock EXCEPT ![Workspace] = i]
  /\ Goto(i, "init")
  /\ UNCHANGED <<target, polls, files, unprobed, early>>

WorkspaceBusy(i) ==
  /\ pc[i] = "probing"
  /\ Holds(i) = {}
  /\ unprobed[i] = {}
  /\ flock[Workspace] # None
  /\ Goto(i, "idle")
  /\ UNCHANGED <<target, polls, files, flock, unprobed, early>>

AcquireWorkspace(i) ==
  \/ \E s \in Specs : ProbeTake(i, s) \/ ProbeDrop(i, s) \/ ProbeBusy(i, s)
  \/ TakeWorkspace(i)
  \/ WorkspaceBusy(i)

ReleaseWorkspace(i) ==
  /\ pc[i] = "init"
  /\ CloseFds(i)
  /\ Goto(i, "idle")
  /\ UNCHANGED <<target, polls, files, unprobed, early>>

(* A process dies anywhere; the kernel closes its descriptors.             *)
Crash(p) ==
  /\ pc[p] # "idle"
  /\ CloseFds(p)
  /\ Goto(p, "idle")
  /\ ForgetEarly(p)
  /\ UNCHANGED <<target, polls, files, unprobed>>

-------------------------------------------------------------------------------
Next ==
  \/ \E c \in Commands : \/ \E label \in Locks : OpenSpecLock(c, label)
                         \/ Poll(c)
                         \/ ReleaseSpec(c)
  \/ \E i \in Inits : BeginProbe(i) \/ AcquireWorkspace(i) \/ ReleaseWorkspace(i)
  \/ \E p \in Procs : Crash(p)

Spec == Init /\ [][Next]_vars

(* A process inside an acquisition keeps running (the polling loop sleeps  *)
(* 50 ms and tries again); nothing is assumed of how long a command works. *)
Fairness ==
  /\ \A c \in Commands : WF_vars(Poll(c))
  /\ \A i \in Inits : WF_vars(AcquireWorkspace(i))

FairSpec == Spec /\ Fairness
-------------------------------------------------------------------------------
(* Properties.                                                             *)

(* The region a process is in: the locks it believes it owns.              *)
Regions(p) == {l \in Locks : \/ pc[p] = "holding" /\ l = target[p]
                             \/ pc[p] = "init" /\ l = Workspace}

(***************************************************************************)
(* Two processes are never both past an acquisition of the same lock: no   *)
(* two commands work on one spec, no two inits rebuild, and no command     *)
(* reaches workspace.lock through a spec named "workspace".                *)
(***************************************************************************)
MutualExclusion ==
  /\ \A p, q \in Procs : p # q => Regions(p) \cap Regions(q) = {}
  /\ flock[Workspace] \in Inits \cup {None}

(***************************************************************************)
(* A kernel lock is held only by a process inside its region or by a probe *)
(* that is under way: a command that failed, gave up or died leaves no     *)
(* lock behind that would make every later command fail with SpecBusy.     *)
(***************************************************************************)
NoOrphanLock ==
  \A l \in Locks, p \in Procs :
    flock[l] = p => \/ l \in Regions(p)
                    \/ pc[p] = "probing" /\ l \in unprobed[p]

(***************************************************************************)
(* What the probing loop really buys: a command that held its lock when    *)
(* init began has let go of it before init touches the state.  (Commands   *)
(* that arrive later are not kept out, see RebuildExcludesCommands.)       *)
(***************************************************************************)
InitOutlivesEarlyCommands ==
  \A i \in Inits : pc[i] = "init" => early[i] = {}

(***************************************************************************)
(* An acquisition always returns, granted or with an error, even if the    *)
(* process that holds the lock never lets go of it.                        *)
(***************************************************************************)
AcquisitionEnds ==
  /\ \A c \in Commands : pc[c] = "waiting" ~> pc[c] # "waiting"
  /\ \A i \in Inits : pc[i] = "probing" ~> pc[i] # "probing"

(***************************************************************************)
(* The claim of manager.rs:82-85: the workspace lock "cannot run while     *)
(* another spec command is mutating state".  The code does not keep it: a  *)
(* command whose spec was already probed starts before init has finished.  *)
(***************************************************************************)
RebuildExcludesCommands ==
  \A i \in Inits, c \in Commands : ~(pc[i] = "init" /\ pc[c] = "holding")

(***************************************************************************)
(* The manager implements exclusive locks: probes are invisible, a lock is *)
(* owned by the process in its region.                                     *)
(***************************************************************************)
Owner == [l \in Locks |-> IF flock[l] # None /\ l \in Regions(flock[l])
                          THEN flock[l] ELSE None]

Abs == INSTANCE ExclusiveLocks WITH owner <- Owner

ImplementsExclusiveLocks == Abs!AbsSpec
===============================================================================
