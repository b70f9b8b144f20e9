---------------------------- MODULE ExclusiveLocks ----------------------------
(***************************************************************************)
(* What loom's lock manager promises its callers, with no files, polling   *)
(* or probing: every lock has at most one owner, an owner is never         *)
(* replaced by another process, and a process owns one lock at a time.     *)
(* LoomLocks is shown to implement this module.                            *)
(***************************************************************************)
CONSTANTS Procs, Locks, None

VARIABLE owner    \* owner[l]: the process inside the region l protects

AbsInit == owner = [l \in Locks |-> None]

Enter(p, l) ==
  /\ owner[l] = None
  /\ \A m \in Locks : owner[m] # p
  /\ owner' = [owner EXCEPT ![l] = p]

Leave(p, l) ==
  /\ owner[l] = p
  /\ owner' = [owner EXCEPT ![l] = None]

AbsNext == \E p \in Procs, l \in Locks : Enter(p, l) \/ Leave(p, l)

AbsSpec == AbsInit /\ [][AbsNext]_owner
===============================================================================
