------------------------------ MODULE LoomState ------------------------------
(***************************************************************************)
(* The loom commands that read and write the state database: init, init    *)
(* --rebuild, plan, use, and the lock-free readers (status, spec, and the  *)
(* label resolution of run, check and todo).  Several of them may run in   *)
(* one workspace, and each may die between any two statements.             *)
(*                                                                         *)
(* state.db is a path: --rebuild unlinks the file and creates another one, *)
(* while a command that opened the old file keeps its connection to it.    *)
(* The spec locks and the workspace lock are those of LoomLocks.           *)
(***************************************************************************)
EXTENDS LoomDb

CONSTANTS
    Procs,     \* processes
    Unknown,   \* no promise about a spec's rows
    MaxStarts  \* bound on the commands started

(* A lock nobody holds.                                                    *)
Free == "free"

ASSUME StateAssumption ==
    /\ MaxStarts \in Nat /\ IsFiniteSet(Procs) /\ Free \notin Procs
    /\ Unknown # NoFile /\ \A declared \in SUBSET Companions : Unknown # declared

VARIABLES
    file,     \* what specs/<label>.md declares
    disk,     \* the content of every state.db there ever was
    path,     \* the one .wrapix/loom/state.db names, 0 for none
    config,   \* config.toml is there
    lock,     \* who holds <label>.lock
    wsLock,   \* who holds workspace.lock
    proc,     \* the processes
    starts,   \* commands started
    promise   \* history: what the last command that wrote a spec's rows, and
              \* was not disturbed, left in the database

vars == <<file, disk, path, config, lock, wsLock, proc, starts, promise>>
locks == <<lock, wsLock>>

Commands == {"init", "rebuild", "plan_new", "plan_update", "use", "look"}
Plans == {"plan_new", "plan_update"}
(* One file per open connection and one for the path are enough: a file    *)
(* that has neither is gone.                                               *)
Files == 1 .. Cardinality(Procs) + 1

Idle == [pc |-> "idle", cmd |-> "look", spec |-> None, h |-> 0, unprobed |-> {},
         seen |-> [s \in Specs |-> NoFile], todo |-> {}, left |-> {}, fetched |-> {},
         mols |-> {}, late |-> FALSE, lost |-> FALSE]

(* h is the connection; seen, todo, left and mols are what the command has *)
(* read and not written yet.  late and lost are history: another command   *)
(* began after the probes that should have kept it out; a rebuild dropped  *)
(* the tables under the connection.                                        *)
ProcTypes ==
    [pc : {"idle", "fetch", "list", "probe", "recreate", "open", "collect", "drop",
          "create", "row", "companions", "molecules", "rebuilt", "load",
          "interview", "reconcile", "upsert", "delete", "insert", "write",
          "current", "molecule", "done", "failed"},
     cmd : Commands, spec : Specs \cup {None}, h : Files \cup {0}, unprobed : SUBSET Specs,
     seen : [Specs -> Contents], todo : SUBSET Specs, left : SUBSET Companions,
     fetched : SUBSET Mols, mols : SUBSET Mols, late : BOOLEAN, lost : BOOLEAN]

TypeOK ==
    /\ file \in [Specs -> Contents]
    /\ disk \in [Files -> Dbs] /\ path \in Files \cup {0} /\ config \in BOOLEAN
    /\ lock \in [Specs -> Procs \cup {Free}] /\ wsLock \in Procs \cup {Free}
    /\ proc \in [Procs -> ProcTypes]
    /\ starts \in 0 .. MaxStarts
    /\ promise \in [Specs -> Contents \cup {Unknown}]
    /\ \A s \in Specs : lock[s] # Free => proc[lock[s]].spec = s

Init ==
    /\ file \in [Specs -> Contents]
    /\ disk = [f \in Files |-> Blank] /\ path = 0 /\ config = FALSE
    /\ lock = [s \in Specs |-> Free] /\ wsLock = Free
    /\ proc = [p \in Procs |-> Idle]
    /\ starts = 0
    /\ promise = [s \in Specs |-> Unknown]

At(p, there) == proc[p].pc = there
Goto(p, there) == proc' = [proc EXCEPT ![p].pc = there]
Db(p) == disk[proc[p].h]

(* One statement on p's connection: it succeeds, and p goes on as next, or *)
(* the command fails.                                                      *)
Statement(p, ok, db, next) ==
    /\ IF ok THEN /\ disk' = [disk EXCEPT ![proc[p].h] = db]
                  /\ proc' = [proc EXCEPT ![p] = next]
             ELSE Goto(p, "failed") /\ UNCHANGED disk
    /\ UNCHANGED <<file, path, config, locks, starts>>

(* A rebuild has begun to probe and is not over: it may not see who comes  *)
(* now.                                                                    *)
Rebuilding == {r \in Procs : proc[r].cmd = "rebuild" /\
                             proc[r].pc \notin {"idle", "fetch", "list", "done", "failed"}}

(***************************************************************************)
(* Start and end of a command                                              *)
(***************************************************************************)
StartInit(p, cmd) ==
    /\ At(p, "idle") /\ starts < MaxStarts
    /\ proc' = [proc EXCEPT ![p] = [Idle EXCEPT !.cmd = cmd,
                   !.pc = IF cmd = "rebuild" THEN "fetch" ELSE "list"]]
    /\ starts' = starts + 1
    /\ UNCHANGED <<file, disk, path, config, locks, promise>>

(* plan and use take the lock of their spec and open the database; a lock  *)
(* that stays taken, or plan -u of a spec without file, ends the command   *)
(* before it has done anything.  A rebuild that is already probing may     *)
(* miss it: both are marked.                                               *)
StartSpecScoped(p, cmd, s) ==
    /\ At(p, "idle") /\ starts < MaxStarts
    /\ lock[s] = Free /\ lock' = [lock EXCEPT ![s] = p]
    /\ cmd = "plan_update" => file[s] # NoFile
    /\ proc' = [q \in Procs |->
         IF q = p THEN [Idle EXCEPT !.cmd = cmd, !.spec = s, !.pc = "open",
                                    !.late = Rebuilding # {}]
         ELSE [proc[q] EXCEPT !.late = @ \/ (q \in Rebuilding /\ cmd \in Plans)]]
    /\ starts' = starts + 1
    /\ UNCHANGED <<file, disk, path, config, wsLock, promise>>

StartLook(p) ==
    /\ At(p, "idle") /\ starts < MaxStarts
    /\ proc' = [proc EXCEPT ![p] = [Idle EXCEPT !.pc = "open"]]
    /\ starts' = starts + 1
    /\ UNCHANGED <<file, disk, path, config, locks, promise>>

(* Mutant: the descriptor of the lock is inherited by a child that stays.  *)
EndKeepsLock(p) ==
    /\ proc' = [proc EXCEPT ![p] = Idle]
    /\ UNCHANGED <<file, disk, path, config, locks, starts, promise>>
(* The process ends: the kernel drops its locks, and an unlinked file that *)
(* nobody has open any more.                                               *)
End(p) ==
    /\ proc' = [proc EXCEPT ![p] = Idle]
    /\ lock' = [s \in Specs |-> IF lock[s] = p THEN Free ELSE lock[s]]
    /\ wsLock' = IF wsLock = p THEN Free ELSE wsLock
    /\ disk' = [f \in Files |-> IF f = path \/ \E q \in Procs \ {p} : proc[q].h = f
                                THEN disk[f] ELSE Blank]
    /\ UNCHANGED <<file, path, config, starts, promise>>
Exit(p) == (At(p, "done") \/ At(p, "rebuilt") \/ At(p, "failed")) /\ End(p)
Die(p) == ~At(p, "idle") /\ End(p)

(***************************************************************************)
(* loom init, loom init --rebuild                                          *)
(***************************************************************************)
(* fetch_active_molecules, before any lock is taken: what the tracker has  *)
(* at that moment.                                                         *)
Fetch(p) ==
    /\ At(p, "fetch")
    /\ \E active \in SUBSET Mols :
         proc' = [proc EXCEPT ![p].fetched = active,
                              ![p].pc = IF \E m \in active : SpecOf[m] = None
                                        THEN "failed" ELSE "list"]
    /\ UNCHANGED <<file, disk, path, config, locks, starts, promise>>

(* find_held_spec_lock lists the lock files, and then tries them in turn.  *)
ListLocks(p) ==
    /\ At(p, "list")
    /\ proc' = [proc EXCEPT ![p].unprobed = Specs, ![p].pc = "probe"]
    /\ UNCHANGED <<file, disk, path, config, locks, starts, promise>>

(* Mutant: a lock that is held does not stop init.                         *)
ProbeIgnoresHolder(p, s) ==
    /\ At(p, "probe") /\ s \in proc[p].unprobed
    /\ proc' = [proc EXCEPT ![p].unprobed = @ \ {s}]
    /\ UNCHANGED <<file, disk, path, config, locks, starts, promise>>
Probe(p, s) ==
    /\ At(p, "probe") /\ s \in proc[p].unprobed
    /\ IF lock[s] = Free THEN proc' = [proc EXCEPT ![p].unprobed = @ \ {s}]
                         ELSE Goto(p, "failed")
    /\ UNCHANGED <<file, disk, path, config, locks, starts, promise>>

(* The workspace lock is tried once; config.toml is written if missing.    *)
TakeWorkspace(p) ==
    /\ At(p, "probe") /\ proc[p].unprobed = {}
    /\ IF wsLock = Free
       THEN /\ wsLock' = p /\ config' = TRUE
            /\ Goto(p, IF proc[p].cmd = "rebuild" THEN "recreate" ELSE "open")
       ELSE Goto(p, "failed") /\ UNCHANGED <<wsLock, config>>
    /\ UNCHANGED <<file, disk, path, lock, starts, promise>>

(* StateDb::recreate unlinks the file; whoever has it open keeps it.       *)
Recreate(p) ==
    /\ At(p, "recreate") /\ Goto(p, "open")
    /\ path' = 0
    /\ promise' = [s \in Specs |-> Unknown]
    /\ UNCHANGED <<file, disk, config, locks, starts>>

AfterOpen(cmd) ==
    CASE cmd = "init" -> "done"
      [] cmd = "rebuild" -> "collect"
      [] cmd \in Plans -> "load"
      [] cmd = "use" -> "write"
      [] cmd = "look" -> "current"

(* StateDb::open, of every command, status and spec too: a missing file is *)
(* created.                                                                *)
NewFile == CHOOSE f \in Files : \A q \in Procs : proc[q].h # f
Open(p) ==
    /\ At(p, "open")
    /\ LET f == IF path = 0 THEN NewFile ELSE path IN
       /\ path' = f
       /\ disk' = [disk EXCEPT ![f] = IF path = 0 THEN Blank ELSE Migrate(@)]
       /\ proc' = [proc EXCEPT ![p].h = f, ![p].pc = AfterOpen(proc[p].cmd)]
    /\ UNCHANGED <<file, config, locks, starts, promise>>

(* rebuild reads all spec files before it drops the tables.                *)
CollectSpecFiles(p) ==
    /\ At(p, "collect")
    /\ proc' = [proc EXCEPT ![p].seen = file, ![p].pc = "drop",
                            ![p].todo = {s \in Specs : file[s] # NoFile}]
    /\ UNCHANGED <<file, disk, path, config, locks, starts, promise>>

DropTables(p) ==
    /\ At(p, "drop")
    /\ disk' = [disk EXCEPT ![proc[p].h] = Dropped]
    /\ proc' = [q \in Procs |->
         IF q = p THEN [proc[q] EXCEPT !.pc = "create"]
         ELSE [proc[q] EXCEPT !.lost = @ \/ proc[q].h = proc[p].h]]
    /\ UNCHANGED <<file, path, config, locks, starts, promise>>

CreateTables(p) ==
    /\ At(p, "create")
    /\ disk' = [disk EXCEPT ![proc[p].h] = Migrate(@)]
    /\ Goto(p, "row")
    /\ UNCHANGED <<file, path, config, locks, starts, promise>>

(* The specs in the order of their labels, each with its companions.       *)
InsertSpec(p) ==
    /\ At(p, "row")
    /\ \E s \in proc[p].todo :
         /\ \A t \in proc[p].todo : s <= t
         /\ Statement(p, CanInsertSpec(Db(p), s), WithSpec(Db(p), s),
              [proc[p] EXCEPT !.spec = s, !.todo = @ \ {s}, !.left = proc[p].seen[s],
                              !.pc = "companions"])
    /\ UNCHANGED promise

InsertCompanion(p) ==
    /\ At(p, "companions")
    /\ \/ \E c \in proc[p].left :
            Statement(p, CanInsertCompanion(Db(p), proc[p].spec),
                      WithCompanion(Db(p), proc[p].spec, c),
                      [proc[p] EXCEPT !.left = @ \ {c}])
       \/ /\ proc[p].left = {} /\ Goto(p, "row")
          /\ UNCHANGED <<file, disk, path, config, locks, starts>>
    /\ UNCHANGED promise

BeginMolecules(p) ==
    /\ At(p, "row") /\ proc[p].todo = {}
    /\ proc' = [proc EXCEPT ![p].mols = Kept(proc[p].fetched, proc[p].seen),
                            ![p].pc = "molecules"]
    /\ UNCHANGED <<file, disk, path, config, locks, starts, promise>>

InsertMolecule(p) ==
    /\ At(p, "molecules")
    /\ \E m \in proc[p].mols :
         Statement(p, CanInsertMol(Db(p), m), WithMol(Db(p), m),
                   [proc[p] EXCEPT !.mols = @ \ {m}])
    /\ UNCHANGED promise

(* The report: an undisturbed rebuild has made its promise.                *)
RebuildReport(p) ==
    /\ At(p, "molecules") /\ proc[p].mols = {} /\ Goto(p, "rebuilt")
    /\ promise' = IF proc[p].late THEN promise ELSE proc[p].seen
    /\ UNCHANGED <<file, disk, path, config, locks, starts>>

(***************************************************************************)
(* loom plan                                                               *)
(***************************************************************************)
(* An update puts the companions of the database into the prompt.          *)
LoadCompanions(p) ==
    /\ At(p, "load")
    /\ Goto(p, IF proc[p].cmd = "plan_update" /\ ~CanQuery(Db(p)) THEN "failed"
                                                                  ELSE "interview")
    /\ UNCHANGED <<file, disk, path, config, locks, starts, promise>>

(* The agent edits the spec file while the human talks to it.              *)
AgentEdits(p) ==
    /\ At(p, "interview")
    /\ \E content \in Contents : file' = [file EXCEPT ![proc[p].spec] = content]
    /\ UNCHANGED <<disk, path, config, locks, proc, starts, promise>>

(* The interview ends well or not; afterwards a new spec must be there.    *)
InterviewEnds(p) ==
    /\ At(p, "interview")
    /\ \E well \in BOOLEAN :
         Goto(p, IF well /\ (proc[p].cmd = "plan_new" => file[proc[p].spec] # NoFile)
                 THEN "reconcile" ELSE "failed")
    /\ UNCHANGED <<file, disk, path, config, locks, starts, promise>>

(* reconcile_companions reads the file once more.                          *)
ReadSpec(p) ==
    /\ At(p, "reconcile")
    /\ LET s == proc[p].spec IN
       proc' = [proc EXCEPT ![p].seen[s] = file[s],
                            ![p].left = IF file[s] = NoFile THEN {} ELSE file[s],
                            ![p].pc = IF file[s] = NoFile THEN "failed" ELSE "upsert"]
    /\ UNCHANGED <<file, disk, path, config, locks, starts, promise>>

(* replace_companions, statement by statement.                             *)
UpsertSpec(p) ==
    /\ At(p, "upsert")
    /\ Statement(p, CanQuery(Db(p)), WithSpec(Db(p), proc[p].spec),
                 [proc[p] EXCEPT !.pc = "delete"])
    /\ promise' = [promise EXCEPT ![proc[p].spec] = Unknown]

DeleteCompanions(p) ==
    /\ At(p, "delete")
    /\ Statement(p, CanQuery(Db(p)), WithoutCompanions(Db(p), proc[p].spec),
                 [proc[p] EXCEPT !.pc = "insert"])
    /\ UNCHANGED promise

InsertDeclared(p) ==
    /\ At(p, "insert")
    /\ \E c \in proc[p].left :
         Statement(p, CanInsertCompanion(Db(p), proc[p].spec),
                   WithCompanion(Db(p), proc[p].spec, c), [proc[p] EXCEPT !.left = @ \ {c}])
    /\ UNCHANGED promise

PlanReport(p) ==
    /\ At(p, "insert") /\ proc[p].left = {} /\ Goto(p, "done")
    /\ LET s == proc[p].spec IN
       promise' = IF proc[p].late THEN promise ELSE [promise EXCEPT ![s] = proc[p].seen[s]]
    /\ UNCHANGED <<file, disk, path, config, locks, starts>>

(***************************************************************************)
(* loom use, and the readers                                               *)
(***************************************************************************)
(* Any label will do: that the spec exists is not checked.                 *)
SetCurrentSpec(p) ==
    /\ At(p, "write")
    /\ Statement(p, CanQuery(Db(p)), WithCurrent(Db(p), proc[p].spec),
                 [proc[p] EXCEPT !.pc = "done"])
    /\ UNCHANGED promise

(* status reads the current spec and then its molecule; spec and           *)
(* resolve_spec_label stop after the first.                                *)
ReadCurrentSpec(p) ==
    /\ At(p, "current")
    /\ \E goes_on \in BOOLEAN :
         Statement(p, CanQuery(Db(p)), Db(p),
                   [proc[p] EXCEPT !.spec = Db(p).current,
                      !.pc = IF goes_on /\ Db(p).current # None THEN "molecule" ELSE "done"])
    /\ UNCHANGED promise

ReadActiveMolecule(p) ==
    /\ At(p, "molecule")
    /\ Statement(p, CanQuery(Db(p)), Db(p), [proc[p] EXCEPT !.pc = "done"])
    /\ UNCHANGED promise

-------------------------------------------------------------------------------
InitStep(p) ==
    \/ \E cmd \in {"init", "rebuild"} : StartInit(p, cmd)
    \/ Fetch(p) \/ ListLocks(p) \/ (\E s \in Specs : Probe(p, s)) \/ TakeWorkspace(p)
    \/ Recreate(p) \/ CollectSpecFiles(p) \/ DropTables(p) \/ CreateTables(p)
    \/ InsertSpec(p) \/ InsertCompanion(p)
    \/ BeginMolecules(p) \/ InsertMolecule(p) \/ RebuildReport(p)
PlanStep(p) ==
    \/ \E cmd \in Plans, s \in Specs : StartSpecScoped(p, cmd, s)
    \/ LoadCompanions(p) \/ AgentEdits(p) \/ InterviewEnds(p) \/ ReadSpec(p)
    \/ UpsertSpec(p) \/ DeleteCompanions(p) \/ InsertDeclared(p) \/ PlanReport(p)
OtherStep(p) ==
    \/ \E s \in Specs : StartSpecScoped(p, "use", s)
    \/ SetCurrentSpec(p)
    \/ StartLook(p) \/ ReadCurrentSpec(p) \/ ReadActiveMolecule(p)

Next ==
    \E p \in Procs : InitStep(p) \/ PlanStep(p) \/ OtherStep(p)
                     \/ Open(p) \/ Exit(p) \/ Die(p)

Spec == Init /\ [][Next]_vars

-------------------------------------------------------------------------------
Rows(db, s) == IF s \in db.rows THEN db.comps[s] ELSE NoFile

(* What the last undisturbed rebuild or interview reported of a spec is    *)
(* what the database under the path says of it, whatever other commands    *)
(* ran or died since (rebuild.rs, replace_companions in db.rs, and the     *)
(* locks that keep an interview that began before a rebuild apart from     *)
(* it): the rows are the ones the file declared, none missing and none     *)
(* left over.                                                              *)
RowsAsReported ==
    \A s \in Specs : promise[s] # Unknown =>
        /\ path # 0 /\ disk[path].made
        /\ Rows(disk[path], s) = promise[s]
        /\ promise[s] = NoFile => disk[path].comps[s] = {}

(* loom init --rebuild repairs: whatever a death, an older rebuild or a    *)
(* race left behind, a rebuild no interview broke into runs into no SQL    *)
(* error, and when it reports, the molecules are the ones the tracker had  *)
(* and whose spec has a file (rebuild.rs:40-90, init/mod.rs:70-97).        *)
RebuildRepairs ==
    \A p \in Procs : proc[p].cmd = "rebuild" /\ ~proc[p].late =>
        /\ At(p, "failed") => proc[p].h = 0
        /\ At(p, "rebuilt") =>
             /\ proc[p].h = path
             /\ Db(p).mols = Kept(proc[p].fetched, proc[p].seen)
             /\ Db(p).rows = {s \in Specs : proc[p].seen[s] # NoFile}

(* A rebuild that died between dropping and creating the tables wedges     *)
(* nobody: a command other than a rebuild fails in the database only if    *)
(* the tables were dropped after it had opened the file (open in db.rs     *)
(* creates what is missing, each time).                                    *)
DeadRebuildWedgesNobody ==
    \A p \in Procs : At(p, "failed") /\ proc[p].h # 0 /\ proc[p].cmd # "rebuild" =>
        proc[p].lost \/ (proc[p].cmd \in Plans /\ Db(p).made)
===============================================================================
