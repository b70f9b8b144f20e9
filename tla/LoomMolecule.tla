---------------------------- MODULE LoomMolecule ----------------------------
(***************************************************************************)
(* State shared by the commands that work on one spec's molecule: the      *)
(* beads of the spec in the bd tracker, the spec lock, the driver branch   *)
(* and its remote, the iteration counter of the state DB, and the `loom    *)
(* run` and `loom check` processes.  LoomRun and LoomCheck add the         *)
(* commands' steps, LoomGate composes them.                                *)
(*                                                                         *)
(* The spec lock is taken as LoomLocks implements it: exclusive, freed     *)
(* when its holder exits, and refused (SpecBusy) after a wait.             *)
(*                                                                         *)
(* Beads are numbered in the order they are created; dependencies between  *)
(* them are left to bd.  The driver branch is a line of commits, numbered; *)
(* it is the working tree of every spec, whose commands do not share this  *)
(* spec's lock and commit to it at any time.                               *)
(*                                                                         *)
(* An agent may outlive the loom process that started it, and then works   *)
(* on without the spec lock.  A bd or git call is one step, done or not    *)
(* done when its caller dies; LoomMsg has calls that come later.           *)
(***************************************************************************)
EXTENDS Naturals, FiniteSets

CONSTANTS
  Procs,          (* Slots for loom processes.                             *)
  None,           (* No process.                                           *)
  MaxBeads,       (* Bound: beads ever created for the spec.               *)
  MaxCommits,     (* Bound: commits ever made on the driver branch.        *)
  InitialBeads,   (* Beads that exist when the molecule is started.        *)
  MaxRetries,     (* RetryPolicy.max_retries.                              *)
  MaxIterations   (* IterationCap.max.                                     *)

ASSUME MoleculeAssumption ==
  /\ None \notin Procs
  /\ MaxBeads \in Nat /\ InitialBeads \in 0..MaxBeads
  /\ MaxCommits \in Nat /\ MaxRetries \in Nat /\ MaxIterations \in Nat

Beads == 1..MaxBeads

VARIABLES
  created,    (* bd: how many beads of the spec exist.                     *)
  closed,     (* bd: the closed ones; the others are open.                 *)
  clarify,    (* bd: beads labelled loom:clarify.                          *)
  head,       (* The driver branch: its newest commit.                     *)
  unlocked,   (* The commits made without the spec lock.                   *)
  remote,     (* `head` as of the last git push.                           *)
  pushedBeads,(* `closed` as of the last beads-push.                       *)
  iteration,  (* molecules.iteration_count.                                *)
  orphans,    (* Whether agents are at work whose loom process is gone.    *)
  holder,     (* The process that has the spec lock.                       *)
  pc,         (* Where each process is.                                    *)
  job,        (* "once" or "continuous" (loom run), or "check".            *)
  parent,     (* The process that spawned it, None for the user's shell.   *)
  cur,        (* The bead a process works on, 0 if none.                   *)
  tries,      (* retries_used of process_one_bead.                         *)
  failure,    (* previous_failure: the bead and attempt it came from.      *)
  known,      (* check: `created` as of the pre-review snapshot.           *)
  next,       (* check: next_iteration of the verdict.                     *)
  seen,       (* History: `head` when the process's review began.          *)
  closedAt,   (* History: `head` when a bead was closed.                   *)
  reviewed,   (* History: that of the last review that was completed.      *)
  autos,      (* History: automatic reruns since the counter was reset.    *)
  uncounted   (* History: that reset hit a counted rerun before its start. *)

tracker == <<created, closed, clarify>>
branch  == <<head, unlocked, remote, pushedBeads>>
locals  == <<job, parent, cur, tries, failure, known, next, seen>>
reruns  == <<autos, uncounted>>
history == <<closedAt, reviewed, reruns>>
vars == <<tracker, branch, iteration, orphans, holder, pc, locals, history>>

RunPcs   == {"pull", "session", "close", "clarify", "handoff"}
CheckPcs == {"pre", "review", "post", "reset", "push", "beads", "count", "rerun",
             "escalate"}
NoFailure == [bead |-> 0, attempt |-> 0]

TypeOK ==
  /\ created \in 0..MaxBeads
  /\ closed \in SUBSET (1..created) /\ clarify \in SUBSET (1..created)
  /\ head \in 0..MaxCommits /\ unlocked \in SUBSET (1..head)
  /\ remote \in 0..head
  /\ pushedBeads \in SUBSET Beads
  /\ closedAt \in [Beads -> 0..head]
  /\ reviewed \in 0..head
  /\ iteration \in 0..MaxIterations
  /\ orphans \in BOOLEAN
  /\ autos \in Nat /\ uncounted \in BOOLEAN
  /\ holder \in Procs \cup {None}
  /\ pc \in [Procs -> {"idle", "lock", "await"} \cup RunPcs \cup CheckPcs]
  /\ job \in [Procs -> {"once", "continuous", "check"}]
  /\ parent \in [Procs -> Procs \cup {None}]
  /\ cur \in [Procs -> 0..MaxBeads]
  /\ tries \in [Procs -> 0..MaxRetries]
  /\ failure \in [Procs -> [bead : 0..MaxBeads, attempt : 0..MaxRetries]]
  /\ known \in [Procs -> 0..MaxBeads]
  /\ next \in [Procs -> 0..MaxIterations]
  /\ seen \in [Procs -> 0..head]

Init ==
  /\ created = InitialBeads
  /\ closed = {} /\ clarify = {}
  /\ head = 0 /\ unlocked = {} /\ remote = 0 /\ pushedBeads = {}
  /\ iteration = 0 /\ orphans = FALSE /\ holder = None
  /\ pc = [p \in Procs |-> "idle"]
  /\ job = [p \in Procs |-> "check"]
  /\ parent = [p \in Procs |-> None]
  /\ cur = [p \in Procs |-> 0]
  /\ tries = [p \in Procs |-> 0]
  /\ failure = [p \in Procs |-> NoFailure]
  /\ known = [p \in Procs |-> 0]
  /\ next = [p \in Procs |-> 0]
  /\ seen = [p \in Procs |-> 0]
  /\ closedAt = [b \in Beads |-> 0] /\ reviewed = 0
  /\ autos = 0 /\ uncounted = FALSE

-------------------------------------------------------------------------------
(* Processes.                                                              *)

Goto(p, there) == pc' = [pc EXCEPT ![p] = there]

(***************************************************************************)
(* A process ends: its locals are gone, its lock is free, and its children *)
(* run on without a parent.                                                *)
(***************************************************************************)
EndProcess(p) ==
  /\ Goto(p, "idle")
  /\ holder' = IF holder = p THEN None ELSE holder
  /\ job' = [job EXCEPT ![p] = "check"]
  /\ parent' = [q \in Procs |-> IF q = p \/ parent[q] = p THEN None ELSE parent[q]]
  /\ cur' = [cur EXCEPT ![p] = 0]
  /\ tries' = [tries EXCEPT ![p] = 0]
  /\ failure' = [failure EXCEPT ![p] = NoFailure]
  /\ known' = [known EXCEPT ![p] = 0]
  /\ next' = [next EXCEPT ![p] = 0]
  /\ seen' = [seen EXCEPT ![p] = 0]

Launch(p, command, by) ==
  /\ pc[p] = "idle"
  /\ job' = [job EXCEPT ![p] = command]
  /\ parent' = [parent EXCEPT ![p] = by]
  /\ UNCHANGED <<cur, tries, failure, known, next, seen>>

(* The user starts a command in a shell.                                   *)
StartCommand(p, command) ==
  /\ Launch(p, command, None)
  /\ Goto(p, "lock")
  /\ UNCHANGED <<tracker, branch, iteration, orphans, holder, history>>

(***************************************************************************)
(* Command::status: a child process is started and waited for.  The parent *)
(* stays alive, and with it the guard it holds on the spec lock.           *)
(***************************************************************************)
Spawn(p, q, command) ==
  /\ Launch(q, command, p)
  /\ pc' = [pc EXCEPT ![p] = "await", ![q] = "lock"]
  /\ UNCHANGED holder

ReapChild(p) ==
  /\ pc[p] = "await"
  /\ \A q \in Procs : parent[q] # p
  /\ EndProcess(p)
  /\ UNCHANGED <<tracker, branch, iteration, orphans, history>>

(* Mutant: check runs without the guard, as the read-only commands do.     *)
AcquireSpecUnlocked(p) ==
  /\ pc[p] = "lock"
  /\ Goto(p, IF job[p] = "check" THEN "pre" ELSE "pull")
  /\ UNCHANGED <<tracker, branch, iteration, orphans, holder, locals, history>>

AcquireSpec(p) ==
  /\ pc[p] = "lock"
  /\ holder = None
  /\ holder' = p
  /\ Goto(p, IF job[p] = "check" THEN "pre" ELSE "pull")
  /\ UNCHANGED <<tracker, branch, iteration, orphans, locals, history>>

(* Mutant: acquire_with_timeout without a deadline.                        *)
SpecBusyNever(p) == FALSE /\ UNCHANGED vars

SpecBusy(p) ==
  /\ pc[p] = "lock"
  /\ holder # None
  /\ EndProcess(p)
  /\ UNCHANGED <<tracker, branch, iteration, orphans, history>>

(***************************************************************************)
(* A process stops before it is done: it is killed, or a bd, git or agent  *)
(* call fails and `?` returns the error, which drops the guard.  Its agent *)
(* works on, for a while (OrphansEnd) or for good.                         *)
(***************************************************************************)
Exit(p) ==
  /\ pc[p] # "idle"
  /\ EndProcess(p)
  /\ orphans' = (orphans \/ pc[p] \in {"session", "review"})
  /\ UNCHANGED <<tracker, branch, iteration, history>>

OrphansEnd ==
  /\ orphans
  /\ orphans' = FALSE
  /\ UNCHANGED <<tracker, branch, iteration, holder, pc, locals, history>>

-------------------------------------------------------------------------------
(* The user answers or dismisses a clarify with `loom msg`, which only     *)
(* locks the spec when it is given -s.                                     *)
AnswerClarify(b) ==
  /\ b \in clarify
  /\ clarify' = clarify \ {b}
  /\ UNCHANGED <<created, closed, branch, iteration, orphans, holder, pc, locals, history>>

(* A session of another spec commits on the driver branch.                 *)
OtherSpecCommits ==
  /\ head < MaxCommits
  /\ head' = head + 1
  /\ unlocked' = unlocked \cup {head + 1}
  /\ UNCHANGED <<tracker, remote, pushedBeads, iteration, orphans, holder, pc, locals, history>>

(***************************************************************************)
(* `loom init --rebuild` writes the molecule's row anew, with 0 for its    *)
(* counter.  Its probes only keep out the commands that run already, so    *)
(* one that starts behind them can be anywhere (see LoomLocks).            *)
(***************************************************************************)
RebuildResetsCount ==
  /\ iteration' = 0
  /\ autos' = 0
  /\ uncounted' = \E p \in Procs : pc[p] = "rerun"
  /\ UNCHANGED <<tracker, branch, orphans, holder, pc, locals, closedAt, reviewed>>
===============================================================================
