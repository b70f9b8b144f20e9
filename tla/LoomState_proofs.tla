-------------------------- MODULE LoomState_proofs --------------------------
(***************************************************************************)
(* Proofs about LoomState for any numbers of processes, specs, companions  *)
(* and molecules.                                                          *)
(***************************************************************************)
EXTENDS LoomState, FiniteSetTheorems, TLAPS

(* A process that runs a command; a plan that runs.                        *)
Active(p) == proc[p].pc # "idle"
Planning(p) == Active(p) /\ proc[p].cmd \in Plans

(* The places of a rebuild that has the workspace lock, from the first     *)
(* read of its file on, and before its report.                             *)
Filling == {"collect", "drop", "create", "row", "companions", "molecules"}
Inside(r) == proc[r].cmd = "rebuild" /\ proc[r].pc \in Filling \cup {"recreate", "open", "rebuilt"}
Connected(r) == proc[r].cmd = "rebuild" /\ proc[r].pc \in Filling \cup {"rebuilt"}

(* The places of a command, and which command each place belongs to.       *)
Places == {"idle", "fetch", "list", "probe", "recreate", "open", "collect", "drop",
           "create", "row", "companions", "molecules", "rebuilt", "load",
           "interview", "reconcile", "upsert", "delete", "insert", "write",
           "current", "molecule", "done", "failed"}
PlaceFits(p) ==
  /\ proc[p].pc \in {"fetch", "recreate", "rebuilt"} \cup Filling => proc[p].cmd = "rebuild"
  /\ proc[p].pc \in {"list", "probe"} => proc[p].cmd \in {"init", "rebuild"}
  /\ proc[p].pc \in {"load", "interview", "reconcile", "upsert", "delete", "insert"} =>
       proc[p].cmd \in Plans
  /\ proc[p].pc = "write" => proc[p].cmd = "use"
  /\ proc[p].pc \in {"current", "molecule"} => proc[p].cmd = "look"
PlacesFit == \A p \in Procs : PlaceFits(p)

(* plan and use hold the lock of their spec and nobody else holds one; a   *)
(* rebuild past its probes holds the workspace lock.                       *)
LocksHeld ==
  /\ \A p \in Procs : Active(p) /\ proc[p].cmd \in Plans \cup {"use"} =>
       proc[p].spec \in Specs /\ lock[proc[p].spec] = p
  /\ \A s \in Specs : lock[s] # Free =>
       Active(lock[s]) /\ proc[lock[s]].cmd \in Plans \cup {"use"} /\ proc[lock[s]].spec = s
  /\ \A p \in Procs : Inside(p) => wsLock = p

(* A plan whose spec a rebuild has probed began after the probe, and both  *)
(* know.                                                                   *)
KeptApart ==
  \A r \in Rebuilding :
    /\ Inside(r) => proc[r].unprobed = {}
    /\ \A q \in Procs : Planning(q) =>
         proc[q].spec \in proc[r].unprobed \/ (proc[q].late /\ proc[r].late)

(* Who has the database open, and which one: a rebuild and a plan that     *)
(* none broke into have the one under the path.                            *)
Connections ==
  \A p \in Procs :
    /\ proc[p].pc \in {"idle", "fetch", "list", "probe", "recreate", "open"} => proc[p].h = 0
    /\ proc[p].pc \in {"load", "interview", "reconcile", "upsert", "delete", "insert",
                       "write", "current", "molecule", "rebuilt"} \cup Filling =>
         proc[p].h # 0
    /\ Connected(p) => proc[p].h = path
    /\ Planning(p) /\ ~proc[p].late /\ proc[p].h # 0 => proc[p].h = path

(* A connection finds the tables it was opened with unless a rebuild has   *)
(* dropped them since.                                                     *)
TablesThere ==
  \A p \in Procs : proc[p].h # 0 =>
    /\ proc[p].cmd # "rebuild" => proc[p].lost \/ Db(p).made
    /\ Planning(p) /\ ~proc[p].late => Db(p).made

(* Nothing is promised of what is being written.                           *)
NoPromiseInWork ==
  /\ \A r \in Procs : proc[r].cmd = "rebuild" /\ proc[r].pc \in Filling \cup {"open"} =>
       \A s \in Specs : promise[s] = Unknown
  /\ \A p \in Procs : proc[p].pc \in {"delete", "insert"} => promise[proc[p].spec] = Unknown

Declared(seen) == {s \in Specs : seen[s] # NoFile}

(* What a rebuild that no plan broke into has written so far, from its own *)
(* record q and the database db it is connected to.                        *)
RebuildProgress(q, db) ==
  /\ q.pc \in {"drop", "create"} => q.todo = Declared(q.seen)
  /\ q.pc = "create" => db.rows = {} /\ db.mols = {} /\ \A s \in Specs : db.comps[s] = {}
  /\ q.pc \in {"row", "companions"} =>
       /\ db.made /\ db.mols = {}
       /\ q.todo \subseteq Declared(q.seen) /\ db.rows = Declared(q.seen) \ q.todo
       /\ \A s \in Specs \ db.rows : db.comps[s] = {}
       /\ \A s \in db.rows : (q.pc = "row" \/ s # q.spec) => db.comps[s] = q.seen[s]
  /\ q.pc = "companions" =>
       /\ q.spec \in db.rows
       /\ q.left \subseteq q.seen[q.spec]
       /\ db.comps[q.spec] = q.seen[q.spec] \ q.left
  /\ q.pc \in {"molecules", "rebuilt"} =>
       /\ db.made /\ db.rows = Declared(q.seen)
       /\ \A s \in Specs : db.comps[s] = IF s \in Declared(q.seen) THEN q.seen[s] ELSE {}
       /\ q.mols \subseteq Kept(q.fetched, q.seen)
       /\ db.mols = Kept(q.fetched, q.seen) \ q.mols
  /\ q.pc = "rebuilt" => q.mols = {}
  /\ q.pc = "failed" => q.h = 0

(* Every molecule a rebuild has fetched has a spec.                        *)
Labelled(q) == q.pc \notin {"idle", "fetch", "failed"} => \A m \in q.fetched : SpecOf[m] \in Specs

(* The rebuilds, each by its own record.                                   *)
RebuildsProgress ==
  \A r \in Procs : proc[r].cmd = "rebuild" =>
    Labelled(proc[r]) /\ (~proc[r].late => RebuildProgress(proc[r], Db(r)))

(* What a rebuild has to write is declared.                                *)
TodoDeclared ==
  \A r \in Procs : proc[r].pc \in {"drop", "create", "row", "companions"} =>
    proc[r].todo \subseteq Declared(proc[r].seen)

(* What a plan has written so far.                                         *)
PlanProgress(q, db) ==
  /\ q.pc \in {"upsert", "delete", "insert"} => q.seen[q.spec] # NoFile
  /\ q.pc \in {"upsert", "delete"} => q.left = q.seen[q.spec]
  /\ q.pc = "insert" => q.left \subseteq q.seen[q.spec]
  /\ ~q.late =>
       /\ q.pc \in {"delete", "insert"} => q.spec \in db.rows
       /\ q.pc = "insert" => db.comps[q.spec] = q.seen[q.spec] \ q.left
(* The plans, each by its own record.                                      *)
PlansProgress == \A p \in Procs : PlanProgress(proc[p], Db(p))

(* The inductive invariant.                                                *)
StateInv ==
  /\ TypeOK
  /\ PlacesFit
  /\ LocksHeld
  /\ KeptApart
  /\ Connections
  /\ TablesThere
  /\ NoPromiseInWork
  /\ RebuildsProgress
  /\ TodoDeclared
  /\ PlansProgress
  /\ RowsAsReported
  /\ DeadRebuildWedgesNobody

(***************************************************************************)
(* What one step does: each lemma here goes through the actions once       *)
(***************************************************************************)
(* A step of process p.                                                    *)
Step(p) == InitStep(p) \/ PlanStep(p) \/ OtherStep(p) \/ Open(p) \/ Exit(p) \/ Die(p)

(* All that a process itself decides of its record is as it was; late and  *)
(* lost are only ever set.                                                 *)
Keeps(q) ==
  /\ proc'[q].pc = proc[q].pc /\ proc'[q].cmd = proc[q].cmd /\ proc'[q].spec = proc[q].spec
  /\ proc'[q].h = proc[q].h /\ proc'[q].unprobed = proc[q].unprobed /\ proc'[q].seen = proc[q].seen
  /\ proc'[q].todo = proc[q].todo /\ proc'[q].left = proc[q].left
  /\ proc'[q].fetched = proc[q].fetched /\ proc'[q].mols = proc[q].mols
  /\ proc[q].late => proc'[q].late
  /\ proc[q].lost => proc'[q].lost

(* A step of one process leaves the record of another alone, but for the   *)
(* marks late and lost: loom processes share the files, not memory.        *)
LEMMA OthersKeep ==
  ASSUME NEW p \in Procs, NEW q \in Procs, q # p, proc \in [Procs -> ProcTypes], Step(p)
  PROVE  Keeps(q)
<1> USE DEF Keeps, ProcTypes, Goto
<1>1. ASSUME NEW cmd \in {"init", "rebuild"}, StartInit(p, cmd) PROVE Keeps(q)
  BY <1>1 DEF StartInit, Idle
<1>2. ASSUME NEW cmd \in Plans \cup {"use"}, NEW s \in Specs, StartSpecScoped(p, cmd, s)
      PROVE Keeps(q)
  <2>1. proc'[q] = [proc[q] EXCEPT !.late = @ \/ (q \in Rebuilding /\ cmd \in Plans)]
    BY <1>2 DEF StartSpecScoped
  <2> QED BY <2>1
<1>3. ASSUME StartLook(p) PROVE Keeps(q)
  BY <1>3 DEF StartLook, Idle
<1>4. ASSUME Fetch(p) PROVE Keeps(q)
  BY <1>4 DEF Fetch
<1>5. ASSUME ListLocks(p) PROVE Keeps(q)
  BY <1>5 DEF ListLocks
<1>6. ASSUME NEW s \in Specs, Probe(p, s) PROVE Keeps(q)
  BY <1>6 DEF Probe
<1>7. ASSUME TakeWorkspace(p) \/ Recreate(p) PROVE Keeps(q)
  BY <1>7 DEF TakeWorkspace, Recreate
<1>8. ASSUME Open(p) PROVE Keeps(q)
  BY <1>8 DEF Open
<1>9. ASSUME CollectSpecFiles(p) PROVE Keeps(q)
  BY <1>9 DEF CollectSpecFiles
<1>10. ASSUME DropTables(p) PROVE Keeps(q)
  BY <1>10 DEF DropTables
<1>11. ASSUME CreateTables(p) PROVE Keeps(q)
  BY <1>11 DEF CreateTables
<1>12. ASSUME InsertSpec(p) PROVE Keeps(q)
  BY <1>12 DEF InsertSpec, Statement, CanInsertSpec, WithSpec, Db
<1>13. ASSUME InsertCompanion(p) PROVE Keeps(q)
  BY <1>13 DEF InsertCompanion, Statement
<1>14. ASSUME BeginMolecules(p) PROVE Keeps(q)
  BY <1>14 DEF BeginMolecules
<1>15. ASSUME InsertMolecule(p) PROVE Keeps(q)
  BY <1>15 DEF InsertMolecule, Statement
<1>16. ASSUME RebuildReport(p) PROVE Keeps(q)
  BY <1>16 DEF RebuildReport
<1>17. ASSUME LoadCompanions(p) \/ AgentEdits(p) \/ InterviewEnds(p) PROVE Keeps(q)
  BY <1>17 DEF LoadCompanions, AgentEdits, InterviewEnds
<1>18. ASSUME ReadSpec(p) PROVE Keeps(q)
  BY <1>18 DEF ReadSpec
<1>19. ASSUME UpsertSpec(p) PROVE Keeps(q)
  BY <1>19 DEF UpsertSpec, Statement
<1>20. ASSUME DeleteCompanions(p) PROVE Keeps(q)
  BY <1>20 DEF DeleteCompanions, Statement
<1>21. ASSUME InsertDeclared(p) PROVE Keeps(q)
  BY <1>21 DEF InsertDeclared, Statement
<1>22. ASSUME PlanReport(p) PROVE Keeps(q)
  BY <1>22 DEF PlanReport
<1>23. ASSUME SetCurrentSpec(p) PROVE Keeps(q)
  BY <1>23 DEF SetCurrentSpec, Statement
<1>24. ASSUME ReadCurrentSpec(p) PROVE Keeps(q)
  BY <1>24 DEF ReadCurrentSpec, Statement, CanQuery, Db
<1>25. ASSUME ReadActiveMolecule(p) PROVE Keeps(q)
  BY <1>25 DEF ReadActiveMolecule, Statement
<1>26. ASSUME Exit(p) \/ Die(p) PROVE Keeps(q)
  BY <1>26 DEF Exit, Die, End, Idle
<1> QED
  BY <1>1, <1>2, <1>3, <1>4, <1>5, <1>6, <1>7, <1>8, <1>9, <1>10, <1>11, <1>12, <1>13,
     <1>14, <1>15, <1>16, <1>17, <1>18, <1>19, <1>20, <1>21, <1>22, <1>23, <1>24,
     <1>25, <1>26
  DEF Step, InitStep, PlanStep, OtherStep

(* fetch_active_molecules ends with a set of molecules that all have a     *)
(* spec, or the command fails.                                             *)
LEMMA FetchDoes ==
  ASSUME NEW p \in Procs, proc \in [Procs -> ProcTypes], Fetch(p)
  PROVE  \E active \in SUBSET Mols, x \in {"failed", "list"} :
           /\ proc' = [proc EXCEPT ![p].fetched = active, ![p].pc = x]
           /\ x = "list" => \A m \in active : SpecOf[m] # None
<1>1. PICK active \in SUBSET Mols :
        proc' = [proc EXCEPT ![p].fetched = active,
                             ![p].pc = IF \E m \in active : SpecOf[m] = None THEN "failed" ELSE "list"]
  BY DEF Fetch
<1> DEFINE x == IF \E m \in active : SpecOf[m] = None THEN "failed" ELSE "list"
<1>2. x \in {"failed", "list"} /\ (x = "list" => \A m \in active : SpecOf[m] # None)
  OBVIOUS
<1>3. proc' = [proc EXCEPT ![p].fetched = active, ![p].pc = x]
  BY <1>1
<1> HIDE DEF x
<1> QED BY <1>2, <1>3 

(* A spec row of rebuild: the statement fails, or one spec moves from todo *)
(* to the table and its companions are next.                               *)
LEMMA InsertSpecDoes ==
  ASSUME NEW p \in Procs, proc \in [Procs -> ProcTypes], InsertSpec(p)
  PROVE  \/ proc' = [proc EXCEPT ![p].pc = "failed"] /\ disk' = disk
            /\ \E s \in proc[p].todo : ~CanInsertSpec(Db(p), s)
         \/ \E s \in proc[p].todo :
              /\ CanInsertSpec(Db(p), s)
              /\ disk' = [disk EXCEPT ![proc[p].h] = WithSpec(Db(p), s)]
              /\ proc' = [proc EXCEPT ![p] = [proc[p] EXCEPT !.spec = s, !.todo = proc[p].todo \ {s}, !.left = proc[p].seen[s], !.pc = "companions"]]
  BY Zenon DEF InsertSpec, Statement, Goto

(* A companion row of rebuild: the statement fails, all were written, or   *)
(* one is.                                                                 *)
LEMMA InsertCompanionDoes ==
  ASSUME NEW p \in Procs, InsertCompanion(p)
  PROVE  \/ proc' = [proc EXCEPT ![p].pc = "failed"] /\ disk' = disk /\ ~CanInsertCompanion(Db(p), proc[p].spec)
         \/ proc' = [proc EXCEPT ![p].pc = "row"] /\ disk' = disk /\ proc[p].left = {}
         \/ \E c \in proc[p].left :
              /\ CanInsertCompanion(Db(p), proc[p].spec)
              /\ disk' = [disk EXCEPT ![proc[p].h] = WithCompanion(Db(p), proc[p].spec, c)]
              /\ proc' = [proc EXCEPT ![p] = [proc[p] EXCEPT !.left = proc[p].left \ {c}]]
  BY Zenon DEF InsertCompanion, Statement, Goto

(* The readers' first query fails without tables, and otherwise reads the  *)
(* current spec.                                                           *)
LEMMA ReadCurrentDoes ==
  ASSUME NEW p \in Procs, ReadCurrentSpec(p)
  PROVE  \/ proc' = [proc EXCEPT ![p].pc = "failed"] /\ disk' = disk /\ ~Db(p).made
         \/ /\ Db(p).made /\ disk' = [disk EXCEPT ![proc[p].h] = Db(p)]
            /\ \E x \in {"done", "molecule"} :
                proc' = [proc EXCEPT ![p] = [proc[p] EXCEPT !.spec = Db(p).current, !.pc = x]]
<1>1. PICK goes_on \in BOOLEAN :
         Statement(p, CanQuery(Db(p)), Db(p),
                   [proc[p] EXCEPT !.spec = Db(p).current,
                      !.pc = IF goes_on /\ Db(p).current # None THEN "molecule" ELSE "done"])
  BY DEF ReadCurrentSpec
<1> DEFINE x == IF goes_on /\ Db(p).current # None THEN "molecule" ELSE "done"
<1>2. x \in {"done", "molecule"}
  OBVIOUS
<1>3. Statement(p, CanQuery(Db(p)), Db(p), [proc[p] EXCEPT !.spec = Db(p).current, !.pc = x])
  BY <1>1
<1> HIDE DEF x
<1> QED
  BY <1>2, <1>3 DEF Statement, Goto, CanQuery

(* The steps that lead to each place.                                      *)
Arrives(p) ==
  /\ proc'[p].pc \in Places
  /\ proc'[p].pc = "idle" => End(p)
  /\ proc'[p].pc = "fetch" => proc[p].pc = "fetch" \/ StartInit(p, "rebuild")
  /\ proc'[p].pc = "list" => proc[p].pc = "list" \/ Fetch(p) \/ StartInit(p, "init")
  /\ proc'[p].pc = "probe" => proc[p].pc = "probe" \/ ListLocks(p)
  /\ proc'[p].pc = "recreate" => proc[p].pc = "recreate" \/ TakeWorkspace(p)
  /\ proc'[p].pc = "open" => proc[p].pc = "open" \/ TakeWorkspace(p) \/ Recreate(p) \/ proc[p].pc = "idle"
  /\ proc'[p].pc \in {"collect", "load", "write", "current"} => proc'[p].pc = proc[p].pc \/ Open(p)
  /\ proc'[p].pc = "drop" => proc[p].pc = "drop" \/ CollectSpecFiles(p)
  /\ proc'[p].pc = "create" => proc[p].pc = "create" \/ DropTables(p)
  /\ proc'[p].pc = "row" => proc[p].pc = "row" \/ CreateTables(p) \/ InsertCompanion(p)
  /\ proc'[p].pc = "companions" => InsertSpec(p) \/ InsertCompanion(p)
  /\ proc'[p].pc = "molecules" => BeginMolecules(p) \/ InsertMolecule(p)
  /\ proc'[p].pc = "rebuilt" => proc[p].pc = "rebuilt" \/ RebuildReport(p)
  /\ proc'[p].pc = "interview" => proc[p].pc = "interview" \/ LoadCompanions(p)
  /\ proc'[p].pc = "reconcile" => proc[p].pc = "reconcile" \/ InterviewEnds(p)
  /\ proc'[p].pc = "upsert" => proc[p].pc = "upsert" \/ ReadSpec(p)
  /\ proc'[p].pc = "delete" => proc[p].pc = "delete" \/ UpsertSpec(p)
  /\ proc'[p].pc = "insert" => DeleteCompanions(p) \/ InsertDeclared(p)
  /\ proc'[p].pc = "molecule" => proc[p].pc = "molecule" \/ ReadCurrentSpec(p)
(* A step from idle, which has no connection yet.                          *)
Begins(p) == proc[p].pc = "idle" /\ proc'[p].h = 0
(* The steps that change each part of a process' record.                   *)
Memory(p) ==
  /\ proc'[p].cmd = proc[p].cmd \/ Begins(p) \/ End(p)
  /\ proc'[p].spec = proc[p].spec \/ Begins(p) \/ End(p) \/ InsertSpec(p) \/ ReadCurrentSpec(p)
  /\ proc'[p].h = proc[p].h \/ Begins(p) \/ End(p) \/ Open(p)
  /\ proc'[p].unprobed = proc[p].unprobed \/ Begins(p) \/ End(p) \/ ListLocks(p) \/ \E s \in Specs : Probe(p, s)
  /\ proc'[p].seen = proc[p].seen \/ Begins(p) \/ End(p) \/ CollectSpecFiles(p) \/ ReadSpec(p)
  /\ proc'[p].todo = proc[p].todo \/ Begins(p) \/ End(p) \/ CollectSpecFiles(p) \/ InsertSpec(p)
  /\ proc'[p].left = proc[p].left \/ Begins(p) \/ End(p) \/ InsertSpec(p) \/ InsertCompanion(p)
                       \/ ReadSpec(p) \/ InsertDeclared(p)
  /\ proc'[p].fetched = proc[p].fetched \/ Begins(p) \/ End(p) \/ Fetch(p)
  /\ proc'[p].mols = proc[p].mols \/ Begins(p) \/ End(p) \/ BeginMolecules(p) \/ InsertMolecule(p)
  /\ proc'[p].late = proc[p].late \/ Begins(p) \/ End(p)
  /\ proc'[p].lost = proc[p].lost \/ Begins(p) \/ End(p)

(* Where the commands go on once StateDb::open has returned.               *)
LEMMA OpensAt ==
  ASSUME NEW cmd \in Commands
  PROVE  /\ AfterOpen(cmd) \in {"done", "collect", "load", "write", "current"}
         /\ AfterOpen(cmd) = "collect" <=> cmd = "rebuild"
         /\ AfterOpen(cmd) = "load" <=> cmd \in Plans
         /\ AfterOpen(cmd) = "write" <=> cmd = "use"
         /\ AfterOpen(cmd) = "current" <=> cmd = "look"
  BY DEF AfterOpen, Commands, Plans

(* StateDb::open in one equation for each variable.                        *)
LEMMA OpenDoes ==
  ASSUME NEW p \in Procs, proc \in [Procs -> ProcTypes], Open(p)
  PROVE  /\ path' = IF path = 0 THEN NewFile ELSE path
         /\ disk' = [disk EXCEPT ![path'] = IF path = 0 THEN Blank ELSE Migrate(disk[path])]
         /\ proc' = [proc EXCEPT ![p].h = path', ![p].pc = AfterOpen(proc[p].cmd)]
         /\ UNCHANGED <<file, config, locks, starts, promise>>
  BY Zenon DEF Open

(* Every step arrives where Arrives says.                                  *)
LEMMA Arrivals ==
  ASSUME NEW p \in Procs, proc \in [Procs -> ProcTypes], Step(p)
  PROVE  Arrives(p)
<1> USE DEF ProcTypes, Goto, At, Arrives, AfterOpen, Places
<1>1. ASSUME NEW cmd \in {"init", "rebuild"}, StartInit(p, cmd) PROVE Arrives(p)
  BY <1>1 DEF StartInit, Idle
<1>2. ASSUME NEW cmd \in Plans \cup {"use"}, NEW s \in Specs, StartSpecScoped(p, cmd, s)
      PROVE Arrives(p)
  BY <1>2 DEF StartSpecScoped, Idle
<1>3. ASSUME StartLook(p) PROVE Arrives(p)
  BY <1>3 DEF StartLook, Idle
<1>4. ASSUME Fetch(p) PROVE Arrives(p)
  <2>1. PICK active \in SUBSET Mols, x \in {"failed", "list"} :
          proc' = [proc EXCEPT ![p].fetched = active, ![p].pc = x]
    BY <1>4, FetchDoes
  <2>2. proc[p].pc = "fetch"
    BY <1>4 DEF Fetch
  <2> QED
    BY <1>4, <2>1, <2>2 DEF Arrives, Places
<1>5. ASSUME ListLocks(p) PROVE Arrives(p)
  BY <1>5 DEF ListLocks
<1>6. ASSUME NEW s \in Specs, Probe(p, s) PROVE Arrives(p)
  BY <1>6 DEF Probe
<1>7. ASSUME TakeWorkspace(p) \/ Recreate(p) PROVE Arrives(p)
  BY <1>7 DEF TakeWorkspace, Recreate
<1>8. ASSUME Open(p) PROVE Arrives(p)
  <2>1. proc[p].cmd \in Commands
    OBVIOUS
  <2>2. proc'[p].pc = AfterOpen(proc[p].cmd)
    BY <1>8 DEF Open
  <2>3. proc'[p].pc \in {"done", "collect", "load", "write", "current"}
    BY <2>1, <2>2, OpensAt
  <2> QED
    BY ONLY <1>8, <2>3 DEF Arrives, Places
<1>9. ASSUME CollectSpecFiles(p) PROVE Arrives(p)
  BY <1>9 DEF CollectSpecFiles
<1>10. ASSUME DropTables(p) PROVE Arrives(p)
  BY <1>10 DEF DropTables
<1>11. ASSUME CreateTables(p) PROVE Arrives(p)
  BY <1>11 DEF CreateTables
<1>12. ASSUME InsertSpec(p) PROVE Arrives(p)
  <2>0. proc[p].pc = "row"
    BY <1>12 DEF InsertSpec
  <2>1. CASE proc' = [proc EXCEPT ![p].pc = "failed"]
    BY <1>12, <2>0, <2>1 DEF Arrives, Places
  <2>2. ASSUME NEW s \in proc[p].todo,
               proc' = [proc EXCEPT ![p] = [proc[p] EXCEPT !.spec = s, !.todo = proc[p].todo \ {s},
                                              !.left = proc[p].seen[s], !.pc = "companions"]]
        PROVE  Arrives(p)
    BY <1>12, <2>0, <2>2 DEF Arrives, Places
  <2> QED
    BY <1>12, <2>1, <2>2, InsertSpecDoes
<1>13. ASSUME InsertCompanion(p) PROVE Arrives(p)
  <2>0. proc[p].pc = "companions"
    BY <1>13 DEF InsertCompanion
  <2>1. CASE proc' = [proc EXCEPT ![p].pc = "failed"]
    BY <1>13, <2>0, <2>1 DEF Arrives, Places
  <2>2. CASE proc' = [proc EXCEPT ![p].pc = "row"]
    BY <1>13, <2>0, <2>2 DEF Arrives, Places
  <2>3. ASSUME NEW c \in proc[p].left,
               proc' = [proc EXCEPT ![p] = [proc[p] EXCEPT !.left = proc[p].left \ {c}]]
        PROVE  Arrives(p)
    BY <1>13, <2>0, <2>3 DEF Arrives, Places
  <2> QED
    BY <1>13, <2>1, <2>2, <2>3, InsertCompanionDoes
<1>14. ASSUME BeginMolecules(p) PROVE Arrives(p)
  BY <1>14 DEF BeginMolecules
<1>15. ASSUME InsertMolecule(p) PROVE Arrives(p)
  BY <1>15 DEF InsertMolecule, Statement
<1>16. ASSUME RebuildReport(p) PROVE Arrives(p)
  BY <1>16 DEF RebuildReport
<1>17. ASSUME LoadCompanions(p) \/ AgentEdits(p) \/ InterviewEnds(p) PROVE Arrives(p)
  BY <1>17 DEF LoadCompanions, AgentEdits, InterviewEnds
<1>18. ASSUME ReadSpec(p) PROVE Arrives(p)
  BY <1>18 DEF ReadSpec
<1>19. ASSUME UpsertSpec(p) PROVE Arrives(p)
  BY <1>19 DEF UpsertSpec, Statement
<1>20. ASSUME DeleteCompanions(p) PROVE Arrives(p)
  BY <1>20 DEF DeleteCompanions, Statement
<1>21. ASSUME InsertDeclared(p) PROVE Arrives(p)
  <2>1. proc'[p].pc \in {"insert", "failed"}
    BY <1>21 DEF InsertDeclared, Statement
  <2> QED BY <1>21, <2>1
<1>22. ASSUME PlanReport(p) PROVE Arrives(p)
  BY <1>22 DEF PlanReport
<1>23. ASSUME SetCurrentSpec(p) PROVE Arrives(p)
  BY <1>23 DEF SetCurrentSpec, Statement
<1>24. ASSUME ReadCurrentSpec(p) PROVE Arrives(p)
  <2>0. proc[p].pc = "current"
    BY <1>24 DEF ReadCurrentSpec
  <2>1. CASE proc' = [proc EXCEPT ![p].pc = "failed"] /\ ~Db(p).made
    BY <1>24, <2>0, <2>1 DEF Arrives, Places
  <2>2. ASSUME NEW x \in {"done", "molecule"},
               proc' = [proc EXCEPT ![p] = [proc[p] EXCEPT !.spec = Db(p).current, !.pc = x]]
        PROVE  Arrives(p)
    BY <1>24, <2>0, <2>2 DEF Arrives, Places
  <2> QED
    BY <1>24, <2>1, <2>2, ReadCurrentDoes
<1>25. ASSUME ReadActiveMolecule(p) PROVE Arrives(p)
  BY <1>25 DEF ReadActiveMolecule, Statement
<1>26. ASSUME Exit(p) \/ Die(p) PROVE Arrives(p)
  BY <1>26 DEF Exit, Die, End, Idle
<1> QED
  BY <1>1, <1>2, <1>3, <1>4, <1>5, <1>6, <1>7, <1>8, <1>9, <1>10, <1>11, <1>12, <1>13,
     <1>14, <1>15, <1>16, <1>17, <1>18, <1>19, <1>20, <1>21, <1>22, <1>23, <1>24,
     <1>25, <1>26
  DEF Step, InitStep, PlanStep, OtherStep

(* Where a command fails; use and the readers fail only without tables.    *)
FailsFrom(p) ==
  \/ proc[p].pc \in {"fetch", "probe", "row", "companions", "molecules", "load", "interview",
                      "reconcile", "upsert", "delete", "insert"}
  \/ proc[p].pc \in {"write", "current", "molecule"} /\ ~Db(p).made
Fails(p) == proc'[p].pc = "failed" => FailsFrom(p)

(* A command fails only where FailsFrom says: use, status and spec end in  *)
(* an error only when the tables are missing under their connection.       *)
LEMMA Failures ==
  ASSUME NEW p \in Procs, proc \in [Procs -> ProcTypes], Step(p)
  PROVE  Fails(p)
<1> USE DEF ProcTypes, Goto, At, FailsFrom, CanQuery, Fails
<1>1. ASSUME NEW cmd \in {"init", "rebuild"}, StartInit(p, cmd) PROVE Fails(p)
  BY <1>1 DEF StartInit, Idle
<1>2. ASSUME NEW cmd \in Plans \cup {"use"}, NEW s \in Specs, StartSpecScoped(p, cmd, s)
      PROVE Fails(p)
  BY <1>2 DEF StartSpecScoped, Idle
<1>3. ASSUME StartLook(p) PROVE Fails(p)
  BY <1>3 DEF StartLook, Idle
<1>4. ASSUME Fetch(p) PROVE Fails(p)
  <2>1. PICK active \in SUBSET Mols, x \in {"failed", "list"} :
          proc' = [proc EXCEPT ![p].fetched = active, ![p].pc = x]
    BY <1>4, FetchDoes
  <2>2. proc[p].pc = "fetch"
    BY <1>4 DEF Fetch
  <2> QED
    BY <1>4, <2>1, <2>2 DEF Fails, FailsFrom
<1>5. ASSUME ListLocks(p) PROVE Fails(p)
  BY <1>5 DEF ListLocks
<1>6. ASSUME NEW s \in Specs, Probe(p, s) PROVE Fails(p)
  BY <1>6 DEF Probe
<1>7. ASSUME TakeWorkspace(p) \/ Recreate(p) PROVE Fails(p)
  BY <1>7 DEF TakeWorkspace, Recreate
<1>8. ASSUME Open(p) PROVE Fails(p)
  <2>1. proc[p].cmd \in Commands
    OBVIOUS
  <2>2. proc'[p].pc = AfterOpen(proc[p].cmd)
    BY <1>8 DEF Open
  <2>3. proc'[p].pc \in {"done", "collect", "load", "write", "current"}
    BY <2>1, <2>2, OpensAt
  <2> QED
    BY ONLY <1>8, <2>3 DEF Fails, FailsFrom
<1>9. ASSUME CollectSpecFiles(p) PROVE Fails(p)
  BY <1>9 DEF CollectSpecFiles
<1>10. ASSUME DropTables(p) PROVE Fails(p)
  BY <1>10 DEF DropTables
<1>11. ASSUME CreateTables(p) PROVE Fails(p)
  BY <1>11 DEF CreateTables
<1>12. ASSUME InsertSpec(p) PROVE Fails(p)
  <2>0. proc[p].pc = "row"
    BY <1>12 DEF InsertSpec
  <2>1. CASE proc' = [proc EXCEPT ![p].pc = "failed"]
    BY <1>12, <2>0, <2>1 DEF Fails, FailsFrom
  <2>2. ASSUME NEW s \in proc[p].todo,
               proc' = [proc EXCEPT ![p] = [proc[p] EXCEPT !.spec = s, !.todo = proc[p].todo \ {s},
                                              !.left = proc[p].seen[s], !.pc = "companions"]]
        PROVE  Fails(p)
    BY <1>12, <2>0, <2>2 DEF Fails, FailsFrom
  <2> QED
    BY <1>12, <2>1, <2>2, InsertSpecDoes
<1>13. ASSUME InsertCompanion(p) PROVE Fails(p)
  <2>0. proc[p].pc = "companions"
    BY <1>13 DEF InsertCompanion
  <2>1. CASE proc' = [proc EXCEPT ![p].pc = "failed"]
    BY <1>13, <2>0, <2>1 DEF Fails, FailsFrom
  <2>2. CASE proc' = [proc EXCEPT ![p].pc = "row"]
    BY <1>13, <2>0, <2>2 DEF Fails, FailsFrom
  <2>3. ASSUME NEW c \in proc[p].left,
               proc' = [proc EXCEPT ![p] = [proc[p] EXCEPT !.left = proc[p].left \ {c}]]
        PROVE  Fails(p)
    BY <1>13, <2>0, <2>3 DEF Fails, FailsFrom
  <2> QED
    BY <1>13, <2>1, <2>2, <2>3, InsertCompanionDoes
<1>14. ASSUME BeginMolecules(p) PROVE Fails(p)
  BY <1>14 DEF BeginMolecules
<1>15. ASSUME InsertMolecule(p) PROVE Fails(p)
  BY <1>15 DEF InsertMolecule, Statement
<1>16. ASSUME RebuildReport(p) PROVE Fails(p)
  BY <1>16 DEF RebuildReport
<1>17. ASSUME LoadCompanions(p) \/ AgentEdits(p) \/ InterviewEnds(p) PROVE Fails(p)
  BY <1>17 DEF LoadCompanions, AgentEdits, InterviewEnds
<1>18. ASSUME ReadSpec(p) PROVE Fails(p)
  BY <1>18 DEF ReadSpec
<1>19. ASSUME UpsertSpec(p) PROVE Fails(p)
  BY <1>19 DEF UpsertSpec, Statement
<1>20. ASSUME DeleteCompanions(p) PROVE Fails(p)
  BY <1>20 DEF DeleteCompanions, Statement
<1>21. ASSUME InsertDeclared(p) PROVE Fails(p)
  BY <1>21 DEF InsertDeclared, Statement
<1>22. ASSUME PlanReport(p) PROVE Fails(p)
  BY <1>22 DEF PlanReport
<1>23. ASSUME SetCurrentSpec(p) PROVE Fails(p)
  BY <1>23 DEF SetCurrentSpec, Statement
<1>24. ASSUME ReadCurrentSpec(p) PROVE Fails(p)
  <2>0. proc[p].pc = "current"
    BY <1>24 DEF ReadCurrentSpec
  <2>1. CASE proc' = [proc EXCEPT ![p].pc = "failed"] /\ ~Db(p).made
    BY <1>24, <2>0, <2>1 DEF Fails, FailsFrom
  <2>2. ASSUME NEW x \in {"done", "molecule"},
               proc' = [proc EXCEPT ![p] = [proc[p] EXCEPT !.spec = Db(p).current, !.pc = x]]
        PROVE  Fails(p)
    BY <1>24, <2>0, <2>2 DEF Fails, FailsFrom
  <2> QED
    BY <1>24, <2>1, <2>2, ReadCurrentDoes
<1>25. ASSUME ReadActiveMolecule(p) PROVE Fails(p)
  BY <1>25 DEF ReadActiveMolecule, Statement
<1>26. ASSUME Exit(p) \/ Die(p) PROVE Fails(p)
  BY <1>26 DEF Exit, Die, End, Idle
<1> QED
  BY <1>1, <1>2, <1>3, <1>4, <1>5, <1>6, <1>7, <1>8, <1>9, <1>10, <1>11, <1>12, <1>13,
     <1>14, <1>15, <1>16, <1>17, <1>18, <1>19, <1>20, <1>21, <1>22, <1>23, <1>24,
     <1>25, <1>26
  DEF Step, InitStep, PlanStep, OtherStep

(* Every step changes of its own record what Memory says and no more.      *)
LEMMA Memories ==
  ASSUME NEW p \in Procs, proc \in [Procs -> ProcTypes], Step(p)
  PROVE  Memory(p)
<1> USE DEF ProcTypes, Goto, At, Memory, Begins
<1>1. ASSUME NEW cmd \in {"init", "rebuild"}, StartInit(p, cmd) PROVE Memory(p)
  BY <1>1 DEF StartInit, Idle
<1>2. ASSUME NEW cmd \in Plans \cup {"use"}, NEW s \in Specs, StartSpecScoped(p, cmd, s)
      PROVE Memory(p)
  BY <1>2 DEF StartSpecScoped, Idle
<1>3. ASSUME StartLook(p) PROVE Memory(p)
  BY <1>3 DEF StartLook, Idle
<1>4. ASSUME Fetch(p) PROVE Memory(p)
  <2>1. PICK active \in SUBSET Mols, x \in {"failed", "list"} :
          proc' = [proc EXCEPT ![p].fetched = active, ![p].pc = x]
    BY <1>4, FetchDoes
  <2>2. proc[p].pc = "fetch"
    BY <1>4 DEF Fetch
  <2> QED
    BY <1>4, <2>1, <2>2 DEF Memory
<1>5. ASSUME ListLocks(p) PROVE Memory(p)
  BY <1>5 DEF ListLocks
<1>6. ASSUME NEW s \in Specs, Probe(p, s) PROVE Memory(p)
  BY <1>6 DEF Probe
<1>7. ASSUME TakeWorkspace(p) \/ Recreate(p) PROVE Memory(p)
  BY <1>7 DEF TakeWorkspace, Recreate
<1>8. ASSUME Open(p) PROVE Memory(p)
  BY <1>8 DEF Open
<1>9. ASSUME CollectSpecFiles(p) PROVE Memory(p)
  BY <1>9 DEF CollectSpecFiles
<1>10. ASSUME DropTables(p) PROVE Memory(p)
  BY <1>10 DEF DropTables
<1>11. ASSUME CreateTables(p) PROVE Memory(p)
  BY <1>11 DEF CreateTables
<1>12. ASSUME InsertSpec(p) PROVE Memory(p)
  <2>0. proc[p].pc = "row"
    BY <1>12 DEF InsertSpec
  <2>1. CASE proc' = [proc EXCEPT ![p].pc = "failed"]
    BY <1>12, <2>0, <2>1 DEF Memory
  <2>2. ASSUME NEW s \in proc[p].todo,
               proc' = [proc EXCEPT ![p] = [proc[p] EXCEPT !.spec = s, !.todo = proc[p].todo \ {s},
                                              !.left = proc[p].seen[s], !.pc = "companions"]]
        PROVE  Memory(p)
    BY <1>12, <2>0, <2>2 DEF Memory
  <2> QED
    BY <1>12, <2>1, <2>2, InsertSpecDoes
<1>13. ASSUME InsertCompanion(p) PROVE Memory(p)
  <2>0. proc[p].pc = "companions"
    BY <1>13 DEF InsertCompanion
  <2>1. CASE proc' = [proc EXCEPT ![p].pc = "failed"]
    BY <1>13, <2>0, <2>1 DEF Memory
  <2>2. CASE proc' = [proc EXCEPT ![p].pc = "row"]
    BY <1>13, <2>0, <2>2 DEF Memory
  <2>3. ASSUME NEW c \in proc[p].left,
               proc' = [proc EXCEPT ![p] = [proc[p] EXCEPT !.left = proc[p].left \ {c}]]
        PROVE  Memory(p)
    BY <1>13, <2>0, <2>3 DEF Memory
  <2> QED
    BY <1>13, <2>1, <2>2, <2>3, InsertCompanionDoes
<1>14. ASSUME BeginMolecules(p) PROVE Memory(p)
  BY <1>14 DEF BeginMolecules
<1>15. ASSUME InsertMolecule(p) PROVE Memory(p)
  BY <1>15 DEF InsertMolecule, Statement
<1>16. ASSUME RebuildReport(p) PROVE Memory(p)
  BY <1>16 DEF RebuildReport
<1>17. ASSUME LoadCompanions(p) \/ AgentEdits(p) \/ InterviewEnds(p) PROVE Memory(p)
  BY <1>17 DEF LoadCompanions, AgentEdits, InterviewEnds
<1>18. ASSUME ReadSpec(p) PROVE Memory(p)
  BY <1>18 DEF ReadSpec
<1>19. ASSUME UpsertSpec(p) PROVE Memory(p)
  BY <1>19 DEF UpsertSpec, Statement
<1>20. ASSUME DeleteCompanions(p) PROVE Memory(p)
  BY <1>20 DEF DeleteCompanions, Statement
<1>21. ASSUME InsertDeclared(p) PROVE Memory(p)
  <2>1. \/ proc'[p] = [proc[p] EXCEPT !.pc = "failed"]
        \/ \E left : proc'[p] = [proc[p] EXCEPT !.left = left]
    BY <1>21 DEF InsertDeclared, Statement
  <2> QED BY <1>21, <2>1
<1>22. ASSUME PlanReport(p) PROVE Memory(p)
  BY <1>22 DEF PlanReport
<1>23. ASSUME SetCurrentSpec(p) PROVE Memory(p)
  BY <1>23 DEF SetCurrentSpec, Statement
<1>24. ASSUME ReadCurrentSpec(p) PROVE Memory(p)
  <2>0. proc[p].pc = "current"
    BY <1>24 DEF ReadCurrentSpec
  <2>1. CASE proc' = [proc EXCEPT ![p].pc = "failed"] /\ ~Db(p).made
    BY <1>24, <2>0, <2>1 DEF Memory
  <2>2. ASSUME NEW x \in {"done", "molecule"},
               proc' = [proc EXCEPT ![p] = [proc[p] EXCEPT !.spec = Db(p).current, !.pc = x]]
        PROVE  Memory(p)
    BY <1>24, <2>0, <2>2 DEF Memory
  <2> QED
    BY <1>24, <2>1, <2>2, ReadCurrentDoes
<1>25. ASSUME ReadActiveMolecule(p) PROVE Memory(p)
  BY <1>25 DEF ReadActiveMolecule, Statement
<1>26. ASSUME Exit(p) \/ Die(p) PROVE Memory(p)
  BY <1>26 DEF Exit, Die, End, Idle
<1> QED
  BY <1>1, <1>2, <1>3, <1>4, <1>5, <1>6, <1>7, <1>8, <1>9, <1>10, <1>11, <1>12, <1>13,
     <1>14, <1>15, <1>16, <1>17, <1>18, <1>19, <1>20, <1>21, <1>22, <1>23, <1>24,
     <1>25, <1>26
  DEF Step, InitStep, PlanStep, OtherStep

(* The steps that change each shared variable.                             *)
Shares(p) ==
  /\ file' = file \/ AgentEdits(p)
  /\ path' = path \/ Recreate(p) \/ Open(p)
  /\ (config' = config) \/ TakeWorkspace(p)
  /\ lock' = lock \/ End(p) \/ \E cmd \in Plans \cup {"use"}, s \in Specs : StartSpecScoped(p, cmd, s)
  /\ wsLock' = wsLock \/ End(p) \/ TakeWorkspace(p)
  /\ promise' = promise \/ Recreate(p) \/ RebuildReport(p) \/ UpsertSpec(p) \/ PlanReport(p)
(* A file that the step of p does not free.                                *)
InUse(p, f) ==
  f = path \/ (f = proc[p].h /\ ~End(p)) \/ \E q \in Procs \ {p} : proc[q].h = f
(* The steps of p that change each table of the file f.                    *)
Tables(p, f) ==
  /\ disk[f].made => disk'[f].made \/ (f = proc[p].h /\ DropTables(p))
  /\ disk'[f].rows = disk[f].rows \/ (f = proc[p].h /\ (DropTables(p) \/ InsertSpec(p) \/ UpsertSpec(p)))
  /\ disk'[f].comps = disk[f].comps
       \/ (f = proc[p].h /\ (DropTables(p) \/ InsertCompanion(p) \/ DeleteCompanions(p) \/ InsertDeclared(p)))
  /\ disk'[f].mols = disk[f].mols \/ (f = proc[p].h /\ (DropTables(p) \/ InsertMolecule(p)))

(* Every step changes of the shared variables what Shares says and no      *)
(* more.                                                                   *)
LEMMA Sharing ==
  ASSUME NEW p \in Procs, Step(p)
  PROVE  Shares(p)
<1> USE DEF Goto, At, locks, Shares
<1>1. ASSUME NEW cmd \in {"init", "rebuild"}, StartInit(p, cmd) PROVE Shares(p)
  BY <1>1 DEF StartInit, Idle
<1>2. ASSUME NEW cmd \in Plans \cup {"use"}, NEW s \in Specs, StartSpecScoped(p, cmd, s)
      PROVE Shares(p)
  BY <1>2 DEF StartSpecScoped, Idle
<1>3. ASSUME StartLook(p) PROVE Shares(p)
  BY <1>3 DEF StartLook, Idle
<1>4. ASSUME Fetch(p) PROVE Shares(p)
  BY <1>4 DEF Fetch
<1>5. ASSUME ListLocks(p) PROVE Shares(p)
  BY <1>5 DEF ListLocks
<1>6. ASSUME NEW s \in Specs, Probe(p, s) PROVE Shares(p)
  BY <1>6 DEF Probe
<1>7. ASSUME TakeWorkspace(p) \/ Recreate(p) PROVE Shares(p)
  BY <1>7 DEF TakeWorkspace, Recreate
<1>8. ASSUME Open(p) PROVE Shares(p)
  BY <1>8 DEF Open
<1>9. ASSUME CollectSpecFiles(p) PROVE Shares(p)
  BY <1>9 DEF CollectSpecFiles
<1>10. ASSUME DropTables(p) PROVE Shares(p)
  BY <1>10 DEF DropTables
<1>11. ASSUME CreateTables(p) PROVE Shares(p)
  BY <1>11 DEF CreateTables
<1>12. ASSUME InsertSpec(p) PROVE Shares(p)
  BY <1>12 DEF InsertSpec, Statement, CanInsertSpec, WithSpec, Db
<1>13. ASSUME InsertCompanion(p) PROVE Shares(p)
  BY <1>13 DEF InsertCompanion, Statement
<1>14. ASSUME BeginMolecules(p) PROVE Shares(p)
  BY <1>14 DEF BeginMolecules
<1>15. ASSUME InsertMolecule(p) PROVE Shares(p)
  BY <1>15 DEF InsertMolecule, Statement
<1>16. ASSUME RebuildReport(p) PROVE Shares(p)
  BY <1>16 DEF RebuildReport
<1>17. ASSUME LoadCompanions(p) \/ AgentEdits(p) \/ InterviewEnds(p) PROVE Shares(p)
  BY <1>17 DEF LoadCompanions, AgentEdits, InterviewEnds
<1>18. ASSUME ReadSpec(p) PROVE Shares(p)
  BY <1>18 DEF ReadSpec
<1>19. ASSUME UpsertSpec(p) PROVE Shares(p)
  BY <1>19 DEF UpsertSpec, Statement
<1>20. ASSUME DeleteCompanions(p) PROVE Shares(p)
  BY <1>20 DEF DeleteCompanions, Statement
<1>21. ASSUME InsertDeclared(p) PROVE Shares(p)
  BY <1>21 DEF InsertDeclared, Statement
<1>22. ASSUME PlanReport(p) PROVE Shares(p)
  BY <1>22 DEF PlanReport
<1>23. ASSUME SetCurrentSpec(p) PROVE Shares(p)
  BY <1>23 DEF SetCurrentSpec, Statement
<1>24. ASSUME ReadCurrentSpec(p) PROVE Shares(p)
  BY <1>24 DEF ReadCurrentSpec, Statement, CanQuery, Db
<1>25. ASSUME ReadActiveMolecule(p) PROVE Shares(p)
  BY <1>25 DEF ReadActiveMolecule, Statement
<1>26. ASSUME Exit(p) \/ Die(p) PROVE Shares(p)
  BY <1>26 DEF Exit, Die, End, Idle
<1> QED
  BY <1>1, <1>2, <1>3, <1>4, <1>5, <1>6, <1>7, <1>8, <1>9, <1>10, <1>11, <1>12, <1>13,
     <1>14, <1>15, <1>16, <1>17, <1>18, <1>19, <1>20, <1>21, <1>22, <1>23, <1>24,
     <1>25, <1>26
  DEF Step, InitStep, PlanStep, OtherStep

(* A molecule row of rebuild: the statement fails, or one is written.      *)
LEMMA InsertMoleculeDoes ==
  ASSUME NEW p \in Procs, InsertMolecule(p)
  PROVE  \E m \in proc[p].mols :
           \/ proc' = [proc EXCEPT ![p].pc = "failed"] /\ disk' = disk /\ ~CanInsertMol(Db(p), m)
           \/ /\ CanInsertMol(Db(p), m)
              /\ disk' = [disk EXCEPT ![proc[p].h] = WithMol(Db(p), m)]
              /\ proc' = [proc EXCEPT ![p] = [proc[p] EXCEPT !.mols = proc[p].mols \ {m}]]
  BY Zenon DEF InsertMolecule, Statement, Goto

(* A companion row of replace_companions: the statement fails, or one is   *)
(* written.                                                                *)
LEMMA InsertDeclaredDoes ==
  ASSUME NEW p \in Procs, InsertDeclared(p)
  PROVE  \/ proc' = [proc EXCEPT ![p].pc = "failed"] /\ disk' = disk /\ ~CanInsertCompanion(Db(p), proc[p].spec)
         \/ \E c \in proc[p].left :
              /\ CanInsertCompanion(Db(p), proc[p].spec)
              /\ disk' = [disk EXCEPT ![proc[p].h] = WithCompanion(Db(p), proc[p].spec, c)]
              /\ proc' = [proc EXCEPT ![p] = [proc[p] EXCEPT !.left = proc[p].left \ {c}]]
  BY Zenon DEF InsertDeclared, Statement, Goto

(* 0 stands for no connection and is no file.                              *)
LEMMA FilesAreNumbers == 0 \notin Files /\ Files \subseteq Nat
  BY StateAssumption, FS_CardinalityType DEF Files

(* There is always a file nobody has open: one more file than processes    *)
(* (pigeonhole), so StateDb::open never resurrects another's database.     *)
LEMMA NewFileIsNew ==
  ASSUME proc \in [Procs -> ProcTypes]
  PROVE  NewFile \in Files /\ \A q \in Procs : proc[q].h # NewFile
<1>1. \E f \in Files : \A q \in Procs : proc[q].h # f
  <2> SUFFICES ASSUME \A f \in Files : \E q \in Procs : proc[q].h = f PROVE FALSE
    OBVIOUS
  <2>1. PICK holder \in [Files -> Procs] : \A f \in Files : proc[holder[f]].h = f
    <3>1. [f \in Files |-> CHOOSE q \in Procs : proc[q].h = f] \in [Files -> Procs]
      OBVIOUS
    <3> QED
      BY <3>1
  <2>2. IsFiniteSet(Procs) /\ Cardinality(Procs) \in Nat
    BY StateAssumption, FS_CardinalityType
  <2>3. IsFiniteSet(Files) /\ Cardinality(Procs) < Cardinality(Files)
    BY <2>2, FS_Interval DEF Files
  <2>4. \E f, g \in Files : f # g /\ holder[f] = holder[g]
    BY ONLY <2>2, <2>3, holder \in [Files -> Procs], FS_PigeonHole
  <2> QED
    BY <2>1, <2>4
<1> QED
  BY <1>1 DEF NewFile

(* Every step changes in a file that stays in use what Tables says and no  *)
(* more: only the statements of the command itself, on its own connection. *)
LEMMA TableWrites ==
  ASSUME NEW p \in Procs, NEW f \in Files, proc \in [Procs -> ProcTypes],
         disk \in [Files -> Dbs], InUse(p, f), Step(p)
  PROVE  Tables(p, f)
<1> USE DEF Goto, At, locks, Dbs, Tables, InUse, CanInsertSpec, WithSpec, CanInsertMol,
            WithMol, CanInsertCompanion, WithCompanion, CanQuery, WithoutCompanions,
            WithCurrent, Db, Blank, Dropped, Migrate
<1>1. ASSUME NEW cmd \in {"init", "rebuild"}, StartInit(p, cmd) PROVE Tables(p, f)
  BY <1>1 DEF StartInit, Idle
<1>2. ASSUME NEW cmd \in Plans \cup {"use"}, NEW s \in Specs, StartSpecScoped(p, cmd, s)
      PROVE Tables(p, f)
  BY <1>2 DEF StartSpecScoped, Idle
<1>3. ASSUME StartLook(p) PROVE Tables(p, f)
  BY <1>3 DEF StartLook, Idle
<1>4. ASSUME Fetch(p) PROVE Tables(p, f)
  BY <1>4 DEF Fetch
<1>5. ASSUME ListLocks(p) PROVE Tables(p, f)
  BY <1>5 DEF ListLocks
<1>6. ASSUME NEW s \in Specs, Probe(p, s) PROVE Tables(p, f)
  BY <1>6 DEF Probe
<1>7. ASSUME TakeWorkspace(p) \/ Recreate(p) PROVE Tables(p, f)
  BY <1>7 DEF TakeWorkspace, Recreate
<1>8. ASSUME Open(p) PROVE Tables(p, f)
  <2>1. path = 0 => NewFile # f
    BY NewFileIsNew, FilesAreNumbers DEF InUse
  <2> QED
    BY <1>8, <2>1 DEF Open
<1>9. ASSUME CollectSpecFiles(p) PROVE Tables(p, f)
  BY <1>9 DEF CollectSpecFiles
<1>10. ASSUME DropTables(p) PROVE Tables(p, f)
  BY <1>10 DEF DropTables
<1>11. ASSUME CreateTables(p) PROVE Tables(p, f)
  BY <1>11 DEF CreateTables
<1>12. ASSUME InsertSpec(p) PROVE Tables(p, f)
  <2>1. CASE disk' = disk
    BY <2>1 DEF Tables
  <2>2. ASSUME NEW s \in proc[p].todo,
               disk' = [disk EXCEPT ![proc[p].h] = WithSpec(Db(p), s)]
        PROVE  Tables(p, f)
    BY <1>12, <2>2
  <2> QED
    BY <1>12, <2>1, <2>2, InsertSpecDoes
<1>13. ASSUME InsertCompanion(p) PROVE Tables(p, f)
  <2>1. CASE disk' = disk
    BY <2>1 DEF Tables
  <2>2. ASSUME NEW c \in proc[p].left,
               disk' = [disk EXCEPT ![proc[p].h] = WithCompanion(Db(p),
               proc[p].spec, c)]
        PROVE  Tables(p, f)
    BY <1>13, <2>2
  <2> QED
    BY <1>13, <2>1, <2>2, InsertCompanionDoes
<1>14. ASSUME BeginMolecules(p) PROVE Tables(p, f)
  BY <1>14 DEF BeginMolecules
<1>15. ASSUME InsertMolecule(p) PROVE Tables(p, f)
  <2>1. CASE disk' = disk
    BY <2>1 DEF Tables
  <2>2. ASSUME NEW m \in proc[p].mols,
               disk' = [disk EXCEPT ![proc[p].h] = WithMol(Db(p), m)]
        PROVE  Tables(p, f)
    BY <1>15, <2>2
  <2> QED
    BY <1>15, <2>1, <2>2, InsertMoleculeDoes
<1>16. ASSUME RebuildReport(p) PROVE Tables(p, f)
  BY <1>16 DEF RebuildReport
<1>17. ASSUME LoadCompanions(p) \/ AgentEdits(p) \/ InterviewEnds(p) PROVE Tables(p, f)
  BY <1>17 DEF LoadCompanions, AgentEdits, InterviewEnds
<1>18. ASSUME ReadSpec(p) PROVE Tables(p, f)
  BY <1>18 DEF ReadSpec
<1>19. ASSUME UpsertSpec(p) PROVE Tables(p, f)
  BY <1>19 DEF UpsertSpec, Statement
<1>20. ASSUME DeleteCompanions(p) PROVE Tables(p, f)
  BY <1>20 DEF DeleteCompanions, Statement
<1>21. ASSUME InsertDeclared(p) PROVE Tables(p, f)
  <2>1. CASE disk' = disk
    BY <2>1 DEF Tables
  <2>2. ASSUME NEW c \in proc[p].left,
               disk' = [disk EXCEPT ![proc[p].h] = WithCompanion(Db(p),
               proc[p].spec, c)]
        PROVE  Tables(p, f)
    BY <1>21, <2>2
  <2> QED
    BY <1>21, <2>1, <2>2, InsertDeclaredDoes
<1>22. ASSUME PlanReport(p) PROVE Tables(p, f)
  BY <1>22 DEF PlanReport
<1>23. ASSUME SetCurrentSpec(p) PROVE Tables(p, f)
  BY <1>23 DEF SetCurrentSpec, Statement
<1>24. ASSUME ReadCurrentSpec(p) PROVE Tables(p, f)
  BY <1>24 DEF ReadCurrentSpec, Statement, CanQuery, Db
<1>25. ASSUME ReadActiveMolecule(p) PROVE Tables(p, f)
  BY <1>25 DEF ReadActiveMolecule, Statement
<1>26. ASSUME Exit(p) \/ Die(p) PROVE Tables(p, f)
  BY <1>26 DEF Exit, Die, End, Idle
<1> QED
  BY <1>1, <1>2, <1>3, <1>4, <1>5, <1>6, <1>7, <1>8, <1>9, <1>10, <1>11, <1>12, <1>13,
     <1>14, <1>15, <1>16, <1>17, <1>18, <1>19, <1>20, <1>21, <1>22, <1>23, <1>24,
     <1>25, <1>26
  DEF Step, InitStep, PlanStep, OtherStep

(* A process is only ever at the places of its command.                    *)
LEMMA PlaceFitsOwn ==
  ASSUME NEW p \in Procs, proc \in [Procs -> ProcTypes], PlaceFits(p), Step(p)
  PROVE  PlaceFits(p)'
<1> USE DEF ProcTypes, Goto, At, PlaceFits, Filling, Plans, Commands
<1>1. ASSUME NEW cmd \in {"init", "rebuild"}, StartInit(p, cmd) PROVE PlaceFits(p)'
  BY <1>1 DEF StartInit, Idle
<1>2. ASSUME NEW cmd \in Plans \cup {"use"}, NEW s \in Specs, StartSpecScoped(p, cmd, s)
      PROVE PlaceFits(p)'
  BY <1>2 DEF StartSpecScoped, Idle
<1>3. ASSUME StartLook(p) PROVE PlaceFits(p)'
  BY <1>3 DEF StartLook, Idle
<1>4. ASSUME Fetch(p) PROVE PlaceFits(p)'
  <2>1. PICK active \in SUBSET Mols, x \in {"failed", "list"} :
          proc' = [proc EXCEPT ![p].fetched = active, ![p].pc = x]
    BY <1>4, FetchDoes
  <2>2. proc[p].pc = "fetch"
    BY <1>4 DEF Fetch
  <2> QED
    BY <1>4, <2>1, <2>2 DEF PlaceFits, Filling, Plans, Commands
<1>5. ASSUME ListLocks(p) PROVE PlaceFits(p)'
  BY <1>5 DEF ListLocks
<1>6. ASSUME NEW s \in Specs, Probe(p, s) PROVE PlaceFits(p)'
  BY <1>6 DEF Probe
<1>7. ASSUME TakeWorkspace(p) \/ Recreate(p) PROVE PlaceFits(p)'
  BY <1>7 DEF TakeWorkspace, Recreate
<1>8. ASSUME Open(p) PROVE PlaceFits(p)'
  <2>1. proc'[p].pc = AfterOpen(proc[p].cmd) /\ proc'[p].cmd = proc[p].cmd /\ proc[p].cmd \in Commands
    BY <1>8 DEF Open
  <2> QED
    BY ONLY <2>1, OpensAt DEF PlaceFits, Filling, Commands, Plans
<1>9. ASSUME CollectSpecFiles(p) PROVE PlaceFits(p)'
  BY <1>9 DEF CollectSpecFiles
<1>10. ASSUME DropTables(p) PROVE PlaceFits(p)'
  BY <1>10 DEF DropTables
<1>11. ASSUME CreateTables(p) PROVE PlaceFits(p)'
  BY <1>11 DEF CreateTables
<1>12. ASSUME InsertSpec(p) PROVE PlaceFits(p)'
  <2>0. proc[p].pc = "row"
    BY <1>12 DEF InsertSpec
  <2>1. CASE proc' = [proc EXCEPT ![p].pc = "failed"]
    BY <1>12, <2>0, <2>1 DEF PlaceFits, Filling, Plans, Commands
  <2>2. ASSUME NEW s \in proc[p].todo,
               proc' = [proc EXCEPT ![p] = [proc[p] EXCEPT !.spec = s, !.todo = proc[p].todo \ {s},
                                              !.left = proc[p].seen[s], !.pc = "companions"]]
        PROVE  PlaceFits(p)'
    BY <1>12, <2>0, <2>2 DEF PlaceFits, Filling, Plans, Commands
  <2> QED
    BY <1>12, <2>1, <2>2, InsertSpecDoes
<1>13. ASSUME InsertCompanion(p) PROVE PlaceFits(p)'
  <2>0. proc[p].pc = "companions"
    BY <1>13 DEF InsertCompanion
  <2>1. CASE proc' = [proc EXCEPT ![p].pc = "failed"]
    BY <1>13, <2>0, <2>1 DEF PlaceFits, Filling, Plans, Commands
  <2>2. CASE proc' = [proc EXCEPT ![p].pc = "row"]
    BY <1>13, <2>0, <2>2 DEF PlaceFits, Filling, Plans, Commands
  <2>3. ASSUME NEW c \in proc[p].left,
               proc' = [proc EXCEPT ![p] = [proc[p] EXCEPT !.left = proc[p].left \ {c}]]
        PROVE  PlaceFits(p)'
    BY <1>13, <2>0, <2>3 DEF PlaceFits, Filling, Plans, Commands
  <2> QED
    BY <1>13, <2>1, <2>2, <2>3, InsertCompanionDoes
<1>14. ASSUME BeginMolecules(p) PROVE PlaceFits(p)'
  BY <1>14 DEF BeginMolecules
<1>15. ASSUME InsertMolecule(p) PROVE PlaceFits(p)'
  BY <1>15 DEF InsertMolecule, Statement
<1>16. ASSUME RebuildReport(p) PROVE PlaceFits(p)'
  BY <1>16 DEF RebuildReport
<1>17. ASSUME LoadCompanions(p) \/ AgentEdits(p) \/ InterviewEnds(p) PROVE PlaceFits(p)'
  BY <1>17 DEF LoadCompanions, AgentEdits, InterviewEnds
<1>18. ASSUME ReadSpec(p) PROVE PlaceFits(p)'
  BY <1>18 DEF ReadSpec
<1>19. ASSUME UpsertSpec(p) PROVE PlaceFits(p)'
  BY <1>19 DEF UpsertSpec, Statement
<1>20. ASSUME DeleteCompanions(p) PROVE PlaceFits(p)'
  BY <1>20 DEF DeleteCompanions, Statement
<1>21. ASSUME InsertDeclared(p) PROVE PlaceFits(p)'
  BY <1>21 DEF InsertDeclared, Statement
<1>22. ASSUME PlanReport(p) PROVE PlaceFits(p)'
  BY <1>22 DEF PlanReport
<1>23. ASSUME SetCurrentSpec(p) PROVE PlaceFits(p)'
  BY <1>23 DEF SetCurrentSpec, Statement
<1>24. ASSUME ReadCurrentSpec(p) PROVE PlaceFits(p)'
  <2>0. proc[p].pc = "current"
    BY <1>24 DEF ReadCurrentSpec
  <2>1. CASE proc' = [proc EXCEPT ![p].pc = "failed"] /\ ~Db(p).made
    BY <1>24, <2>0, <2>1 DEF PlaceFits, Filling, Plans, Commands
  <2>2. ASSUME NEW x \in {"done", "molecule"},
               proc' = [proc EXCEPT ![p] = [proc[p] EXCEPT !.spec = Db(p).current, !.pc = x]]
        PROVE  PlaceFits(p)'
    BY <1>24, <2>0, <2>2 DEF PlaceFits, Filling, Plans, Commands
  <2> QED
    BY <1>24, <2>1, <2>2, ReadCurrentDoes
<1>25. ASSUME ReadActiveMolecule(p) PROVE PlaceFits(p)'
  BY <1>25 DEF ReadActiveMolecule, Statement
<1>26. ASSUME Exit(p) \/ Die(p) PROVE PlaceFits(p)'
  BY <1>26 DEF Exit, Die, End, Idle
<1> QED
  BY <1>1, <1>2, <1>3, <1>4, <1>5, <1>6, <1>7, <1>8, <1>9, <1>10, <1>11, <1>12, <1>13,
     <1>14, <1>15, <1>16, <1>17, <1>18, <1>19, <1>20, <1>21, <1>22, <1>23, <1>24,
     <1>25, <1>26
  DEF Step, InitStep, PlanStep, OtherStep

(* The sum of the lemmas above.                                            *)
Effects(p) ==
  /\ \A q \in Procs \ {p} : Keeps(q)
  /\ Arrives(p) /\ Memory(p) /\ Shares(p)
  /\ \A f \in Files : InUse(p, f) => Tables(p, f)

(* Every step of a well-typed state has these effects.                     *)
LEMMA AllEffects ==
  ASSUME NEW p \in Procs, TypeOK, Step(p)
  PROVE  proc \in [Procs -> ProcTypes] /\ disk \in [Files -> Dbs] /\ Effects(p)
<1>1. proc \in [Procs -> ProcTypes] /\ disk \in [Files -> Dbs]
  BY DEF TypeOK, ProcTypes
<1> QED
  BY <1>1, OthersKeep, Arrivals, Memories, Sharing, TableWrites DEF Effects

(* A step keeps every process at the places of its command.                *)
LEMMA PlacesFitStep ==
  ASSUME NEW p \in Procs, TypeOK, PlacesFit, Step(p)
  PROVE  PlacesFit'
<1>1. Effects(p) /\ proc \in [Procs -> ProcTypes]
  BY AllEffects
<1>2. PlaceFits(p)'
  BY <1>1, PlaceFitsOwn DEF PlacesFit
<1>3. ASSUME NEW q \in Procs \ {p} PROVE PlaceFits(q)'
  BY <1>1, <1>3 DEF Effects, Keeps, PlacesFit, PlaceFits
<1> QED
  BY <1>2, <1>3 DEF PlacesFit

(* The place from which each action departs.                               *)
Departs(p) ==
  /\ Fetch(p) => proc[p].pc = "fetch"
  /\ ListLocks(p) => proc[p].pc = "list"
  /\ TakeWorkspace(p) => proc[p].pc = "probe"
  /\ Recreate(p) => proc[p].pc = "recreate"
  /\ Open(p) => proc[p].pc = "open"
  /\ CollectSpecFiles(p) => proc[p].pc = "collect"
  /\ DropTables(p) => proc[p].pc = "drop"
  /\ CreateTables(p) => proc[p].pc = "create"
  /\ InsertSpec(p) => proc[p].pc = "row"
  /\ InsertCompanion(p) => proc[p].pc = "companions"
  /\ BeginMolecules(p) => proc[p].pc = "row"
  /\ InsertMolecule(p) => proc[p].pc = "molecules"
  /\ RebuildReport(p) => proc[p].pc = "molecules"
  /\ LoadCompanions(p) => proc[p].pc = "load"
  /\ AgentEdits(p) => proc[p].pc = "interview"
  /\ InterviewEnds(p) => proc[p].pc = "interview"
  /\ ReadSpec(p) => proc[p].pc = "reconcile"
  /\ UpsertSpec(p) => proc[p].pc = "upsert"
  /\ DeleteCompanions(p) => proc[p].pc = "delete"
  /\ InsertDeclared(p) => proc[p].pc = "insert"
  /\ PlanReport(p) => proc[p].pc = "insert"
  /\ SetCurrentSpec(p) => proc[p].pc = "write"
  /\ ReadCurrentSpec(p) => proc[p].pc = "current"
  /\ ReadActiveMolecule(p) => proc[p].pc = "molecule"
  /\ \A s \in Specs : Probe(p, s) => proc[p].pc = "probe"

(* Each action departs from its one place: its guard says so.              *)
LEMMA Departures == ASSUME NEW p PROVE Departs(p)
<1> USE DEF At
<1>1. Fetch(p) => proc[p].pc = "fetch"
  BY Zenon DEF Fetch
<1>2. ListLocks(p) => proc[p].pc = "list"
  BY Zenon DEF ListLocks
<1>3. TakeWorkspace(p) => proc[p].pc = "probe"
  BY Zenon DEF TakeWorkspace
<1>4. Recreate(p) => proc[p].pc = "recreate"
  BY Zenon DEF Recreate
<1>5. Open(p) => proc[p].pc = "open"
  BY Zenon DEF Open
<1>6. CollectSpecFiles(p) => proc[p].pc = "collect"
  BY Zenon DEF CollectSpecFiles
<1>7. DropTables(p) => proc[p].pc = "drop"
  BY Zenon DEF DropTables
<1>8. CreateTables(p) => proc[p].pc = "create"
  BY Zenon DEF CreateTables
<1>9. InsertSpec(p) => proc[p].pc = "row"
  BY Zenon DEF InsertSpec
<1>10. InsertCompanion(p) => proc[p].pc = "companions"
  BY Zenon DEF InsertCompanion
<1>11. BeginMolecules(p) => proc[p].pc = "row"
  BY Zenon DEF BeginMolecules
<1>12. InsertMolecule(p) => proc[p].pc = "molecules"
  BY Zenon DEF InsertMolecule
<1>13. RebuildReport(p) => proc[p].pc = "molecules"
  BY Zenon DEF RebuildReport
<1>14. LoadCompanions(p) => proc[p].pc = "load"
  BY Zenon DEF LoadCompanions
<1>15. AgentEdits(p) => proc[p].pc = "interview"
  BY Zenon DEF AgentEdits
<1>16. InterviewEnds(p) => proc[p].pc = "interview"
  BY Zenon DEF InterviewEnds
<1>17. ReadSpec(p) => proc[p].pc = "reconcile"
  BY Zenon DEF ReadSpec
<1>18. UpsertSpec(p) => proc[p].pc = "upsert"
  BY Zenon DEF UpsertSpec
<1>19. DeleteCompanions(p) => proc[p].pc = "delete"
  BY Zenon DEF DeleteCompanions
<1>20. InsertDeclared(p) => proc[p].pc = "insert"
  BY Zenon DEF InsertDeclared
<1>21. PlanReport(p) => proc[p].pc = "insert"
  BY Zenon DEF PlanReport
<1>22. SetCurrentSpec(p) => proc[p].pc = "write"
  BY Zenon DEF SetCurrentSpec
<1>23. ReadCurrentSpec(p) => proc[p].pc = "current"
  BY Zenon DEF ReadCurrentSpec
<1>24. ReadActiveMolecule(p) => proc[p].pc = "molecule"
  BY Zenon DEF ReadActiveMolecule
<1>25. \A s \in Specs : Probe(p, s) => proc[p].pc = "probe"
  BY Zenon DEF Probe
<1> QED
  BY <1>1, <1>2, <1>3, <1>4, <1>5, <1>6, <1>7, <1>8, <1>9, <1>10, <1>11, <1>12, <1>13,
     <1>14, <1>15, <1>16, <1>17, <1>18, <1>19, <1>20, <1>21, <1>22, <1>23, <1>24, <1>25
  DEF Departs

(* An idle process can only start a command.                               *)
LEMMA Starting ==
  ASSUME NEW p \in Procs, proc \in [Procs -> ProcTypes], Step(p), proc[p].pc = "idle"
  PROVE  \/ \E cmd \in {"init", "rebuild"} : StartInit(p, cmd)
         \/ StartLook(p)
         \/ \E cmd \in Plans \cup {"use"}, s \in Specs : StartSpecScoped(p, cmd, s)
<1>1. Departs(p) /\ ~Exit(p) /\ ~Die(p)
  BY Departures DEF Exit, Die, At
<1>2. InitStep(p) => \E cmd \in {"init", "rebuild"} : StartInit(p, cmd)
  BY <1>1 DEF InitStep, Departs
<1>3. PlanStep(p) => \E cmd \in Plans, s \in Specs : StartSpecScoped(p, cmd, s)
  BY <1>1 DEF PlanStep, Departs
<1>4. OtherStep(p) => StartLook(p) \/ \E s \in Specs : StartSpecScoped(p, "use", s)
  BY <1>1 DEF OtherStep, Departs
<1> QED
  BY <1>1, <1>2, <1>3, <1>4 DEF Step, Departs

(* init, init --rebuild and the readers start without a lock.              *)
LEMMA PlainStart ==
  ASSUME NEW p \in Procs, proc \in [Procs -> ProcTypes],
         StartLook(p) \/ \E cmd \in {"init", "rebuild"} : StartInit(p, cmd)
  PROVE  /\ proc'[p].cmd \in {"look", "init", "rebuild"} /\ lock' = lock /\ wsLock' = wsLock
         /\ proc'[p].pc = IF proc'[p].cmd = "rebuild" THEN "fetch" ELSE IF proc'[p].cmd = "init" THEN "list" ELSE "open"
<1>1. CASE StartLook(p)
  BY <1>1 DEF StartLook, Idle, ProcTypes, locks
<1>2. ASSUME NEW cmd \in {"init", "rebuild"}, StartInit(p, cmd)
      PROVE  /\ proc'[p].cmd = cmd /\ lock' = lock /\ wsLock' = wsLock
             /\ proc'[p].pc = IF cmd = "rebuild" THEN "fetch" ELSE "list"
  BY <1>2 DEF StartInit, Idle, ProcTypes, locks
<1> QED
  BY <1>1, <1>2

(* plan and use start with the lock of their spec, which was free.         *)
LEMMA ScopedStart ==
  ASSUME NEW p \in Procs, proc \in [Procs -> ProcTypes],
         NEW cmd \in Plans \cup {"use"}, NEW s \in Specs, StartSpecScoped(p, cmd, s)
  PROVE  /\ proc'[p].cmd = cmd /\ proc'[p].spec = s /\ proc'[p].pc = "open" /\ wsLock' = wsLock
         /\ proc[p].pc = "idle" /\ lock[s] = Free /\ lock' = [lock EXCEPT ![s] = p]
  BY DEF StartSpecScoped, Idle, ProcTypes, At

(* Between start and end a process stays the command it is, keeps its      *)
(* marks and its spec, and takes no spec lock.                             *)
LEMMA Staying ==
  ASSUME NEW p \in Procs, TypeOK, Step(p), PlaceFits(p), proc[p].pc # "idle", ~End(p)
  PROVE  /\ proc'[p].pc # "idle" /\ proc'[p].cmd = proc[p].cmd
         /\ proc'[p].late = proc[p].late /\ proc'[p].lost = proc[p].lost
         /\ proc[p].cmd \in Plans \cup {"use"} => proc'[p].spec = proc[p].spec
         /\ lock' = lock
<1>1. Effects(p) /\ proc \in [Procs -> ProcTypes]
  BY AllEffects
<1>2. /\ proc'[p].pc # "idle" /\ proc'[p].cmd = proc[p].cmd
      /\ proc'[p].late = proc[p].late /\ proc'[p].lost = proc[p].lost
  BY <1>1 DEF Effects, Memory, Arrives, Begins
<1>3. lock' = lock
  BY <1>1, ScopedStart DEF Effects, Shares
<1>4. ASSUME proc[p].cmd \in Plans \cup {"use"} PROVE proc'[p].spec = proc[p].spec
  BY <1>1, <1>4 DEF Effects, Memory, Begins, InsertSpec, ReadCurrentSpec, PlaceFits,
         Filling, Plans, At
<1> QED
  BY <1>2, <1>3, <1>4

(* A process that ends is as before its start, and its locks are free.     *)
LEMMA Ending ==
  ASSUME NEW p \in Procs, proc \in [Procs -> ProcTypes], End(p)
  PROVE  /\ proc'[p].pc = "idle" /\ proc'[p].cmd = "look" /\ proc'[p].h = 0
         /\ lock' = [s \in Specs |-> IF lock[s] = p THEN Free ELSE lock[s]]
         /\ wsLock' = IF wsLock = p THEN Free ELSE wsLock
  BY DEF End, Idle, ProcTypes

(***************************************************************************)
(* Locks: flock of <label>.lock and workspace.lock                         *)
(***************************************************************************)
(* Plans and use hold the lock of their spec.                              *)
HoldsSpec(q) == Active(q) /\ proc[q].cmd \in Plans \cup {"use"} => proc[q].spec \in Specs /\ lock[proc[q].spec] = q

(* A step leaves every plan and use with the lock of its spec: the         *)
(* descriptor lives as long as the process.                                *)
LEMMA HoldsSpecStep ==
  ASSUME NEW p \in Procs, TypeOK, PlacesFit, LocksHeld, Step(p), NEW q \in Procs
  PROVE  HoldsSpec(q)'
<1>1. Effects(p) /\ proc \in [Procs -> ProcTypes]
  BY AllEffects
<1>2. HoldsSpec(q) /\ PlaceFits(q) /\ lock \in [Specs -> Procs \cup {Free}]
  BY DEF LocksHeld, HoldsSpec, PlacesFit, TypeOK
<1>3. CASE q # p
  <2>1. CASE lock' = lock
    BY <1>1, <1>2, <1>3, <2>1 DEF Effects, Keeps, HoldsSpec, Active
  <2>2. CASE End(p)
    BY <1>1, <1>2, <1>3, <2>2 DEF Effects, Keeps, HoldsSpec, Active, End
  <2>3. ASSUME NEW cmd \in Plans \cup {"use"}, NEW s \in Specs, StartSpecScoped(p, cmd, s)
        PROVE  HoldsSpec(q)'
    BY <1>1, <1>2, <1>3, <2>3, ScopedStart, StateAssumption
    DEF Effects, Keeps, HoldsSpec, Active
  <2> QED
    BY <1>1, <2>1, <2>2, <2>3 DEF Effects, Shares
<1>4. CASE q = p /\ End(p)
  BY <1>1, <1>4, Ending DEF HoldsSpec, Active
<1>5. CASE q = p /\ proc[p].pc = "idle"
  <2>1. CASE StartLook(p) \/ \E cmd \in {"init", "rebuild"} : StartInit(p, cmd)
    BY <1>1, <1>5, <2>1, PlainStart DEF HoldsSpec, Plans
  <2>2. ASSUME NEW cmd \in Plans \cup {"use"}, NEW s \in Specs, StartSpecScoped(p, cmd, s)
        PROVE  HoldsSpec(p)'
    <3>1. proc'[p].spec = s /\ lock' = [lock EXCEPT ![s] = p]
      BY <1>1, <2>2, ScopedStart
    <3>2. lock'[s] = p
      BY <1>2, <3>1
    <3> QED BY <1>5, <3>1, <3>2 DEF HoldsSpec
  <2> QED
    BY <1>1, <1>5, <2>1, <2>2, Starting
<1>6. CASE q = p /\ proc[p].pc # "idle" /\ ~End(p)
  BY <1>2, <1>6, Staying DEF HoldsSpec, Active
<1> QED
  BY <1>3, <1>4, <1>5, <1>6

(* The holder of a spec lock is a plan or use of that spec.                *)
HeldBy(s) == lock[s] # Free =>
       Active(lock[s]) /\ proc[lock[s]].cmd \in Plans \cup {"use"} /\ proc[lock[s]].spec = s

(* A step leaves every spec lock that is held with a live holder: the      *)
(* kernel drops the locks of the dead.                                     *)
LEMMA HeldByStep ==
  ASSUME NEW p \in Procs, TypeOK, PlacesFit, LocksHeld, Step(p), NEW s \in Specs
  PROVE  HeldBy(s)'
<1>1. Effects(p) /\ proc \in [Procs -> ProcTypes]
  BY AllEffects
<1>2. HeldBy(s) /\ PlaceFits(p) /\ lock \in [Specs -> Procs \cup {Free}]
  BY DEF LocksHeld, HeldBy, PlacesFit, TypeOK
<1>3. CASE End(p)
  BY <1>1, <1>2, <1>3, Ending DEF HeldBy, Effects, Keeps, Active
<1>4. ASSUME NEW cmd \in Plans \cup {"use"}, NEW t \in Specs, StartSpecScoped(p, cmd, t)
      PROVE  HeldBy(s)'
  BY <1>1, <1>2, <1>4, ScopedStart, StateAssumption DEF HeldBy, Effects, Keeps, Active
<1>5. CASE ~End(p) /\ lock' = lock /\ lock[s] # p
  BY <1>1, <1>2, <1>5 DEF HeldBy, Effects, Keeps, Active
<1>6. CASE ~End(p) /\ lock[s] = p
  BY <1>2, <1>6, Staying, StateAssumption DEF HeldBy, Active
<1> QED
  BY <1>1, <1>3, <1>4, <1>5, <1>6 DEF Effects, Shares

(* Only TakeWorkspace leads a rebuild past its probes.                     *)
LEMMA StaysInside ==
  ASSUME NEW p \in Procs, TypeOK, PlaceFits(p), Step(p), proc[p].pc # "idle", ~End(p),
         ~TakeWorkspace(p)
  PROVE  Inside(p)' => Inside(p)
<1>1. Arrives(p) /\ Departs(p) /\ proc \in [Procs -> ProcTypes]
  BY AllEffects, Departures DEF Effects
<1>2. SUFFICES ASSUME Inside(p)' PROVE Inside(p)
  OBVIOUS
<1>3. proc[p].cmd = "rebuild"
  BY <1>2, Staying DEF Inside
<1>4. ~StartInit(p, "init") /\ ~StartInit(p, "rebuild")
  BY DEF StartInit, At
<1>5. proc[p].pc \in Filling \cup {"recreate", "open", "rebuilt"}
  BY <1>1, <1>2, <1>4 DEF Arrives, Departs, Inside, Filling
<1> QED
  BY <1>3, <1>5 DEF Inside

(* A rebuild past its probes holds the workspace lock.                     *)
HoldsWorkspace(q) == Inside(q) => wsLock = q

(* A step leaves at most one rebuild past its probes, the one with the     *)
(* workspace lock.                                                         *)
LEMMA HoldsWorkspaceStep ==
  ASSUME NEW p \in Procs, TypeOK, PlacesFit, LocksHeld, Step(p), NEW q \in Procs
  PROVE  HoldsWorkspace(q)'
<1>1. Effects(p) /\ proc \in [Procs -> ProcTypes]
  BY AllEffects
<1>2. HoldsWorkspace(q) /\ PlaceFits(p)
  BY DEF LocksHeld, HoldsWorkspace, PlacesFit
<1>3. CASE End(p)
  BY <1>1, <1>2, <1>3, Ending DEF HoldsWorkspace, Effects, Keeps, Inside, Filling
<1>4. CASE TakeWorkspace(p)
  BY <1>1, <1>2, <1>4, StateAssumption DEF HoldsWorkspace, Effects, Keeps, Inside,
         Filling, TakeWorkspace, Goto, ProcTypes
<1>5. CASE ~End(p) /\ wsLock' = wsLock /\ q # p
  BY <1>1, <1>2, <1>5 DEF HoldsWorkspace, Effects, Keeps, Inside
<1>6. CASE ~End(p) /\ wsLock' = wsLock /\ q = p /\ proc[p].pc # "idle" /\ ~TakeWorkspace(p)
  BY <1>2, <1>6, StaysInside DEF HoldsWorkspace
<1>7. CASE q = p /\ proc[p].pc = "idle"
  BY <1>1, <1>7, Starting, PlainStart, ScopedStart
  DEF HoldsWorkspace, Inside, Filling, Plans
<1> QED
  BY <1>1, <1>3, <1>4, <1>5, <1>6, <1>7 DEF Effects, Shares

(* A step preserves LocksHeld.                                             *)
LEMMA LocksHeldStep ==
  ASSUME NEW p \in Procs, TypeOK, PlacesFit, LocksHeld, Step(p)
  PROVE  LocksHeld'
  BY HoldsSpecStep, HeldByStep, HoldsWorkspaceStep
  DEF LocksHeld, HoldsSpec, HeldBy, HoldsWorkspace, Active

(***************************************************************************)
(* A plan and a rebuild that meet know of it                               *)
(***************************************************************************)
(* A plan that starts while a rebuild is at work marks both as late.       *)
LEMMA PlanStartMarks ==
  ASSUME NEW p \in Procs, NEW r \in Procs, r # p, proc \in [Procs -> ProcTypes],
         NEW cmd \in Plans, NEW s \in Specs, StartSpecScoped(p, cmd, s), r \in Rebuilding
  PROVE  proc'[p].late /\ proc'[r].late
<1>1. Rebuilding # {}
  OBVIOUS
<1>2. proc' = [q \in Procs |->
         IF q = p THEN [Idle EXCEPT !.cmd = cmd, !.spec = s, !.pc = "open",
                                    !.late = Rebuilding # {}]
         ELSE [proc[q] EXCEPT !.late = proc[q].late \/ (q \in Rebuilding /\ cmd \in Plans)]]
  BY DEF StartSpecScoped
<1> HIDE DEF Rebuilding
<1>3. proc'[p].late
  BY <1>1, <1>2 DEF Idle
<1>4. proc'[r].late
  BY <1>2 DEF ProcTypes
<1> QED
  BY <1>3, <1>4

(* Rebuild r will still probe the lock of plan q, or both are marked.      *)
Apart(r, q) ==
  proc[q].spec \in proc[r].unprobed \/ (proc[q].late /\ proc[r].late)

(* A rebuild that has begun to probe was at it before the step, or has     *)
(* just listed the locks.                                                  *)
LEMMA StillProbing ==
  ASSUME NEW p \in Procs, TypeOK, PlacesFit, Step(p), (p \in Rebuilding)'
  PROVE  /\ proc[p].pc # "idle" /\ ~End(p) /\ proc[p].cmd = "rebuild"
         /\ p \in Rebuilding \/ ListLocks(p)
<1>1. Effects(p) /\ proc \in [Procs -> ProcTypes] /\ PlacesFit'
  BY AllEffects, PlacesFitStep
<1>2. PlaceFits(p) /\ PlaceFits(p)' /\ Departs(p)
  BY <1>1, Departures DEF PlacesFit
<1>3. proc[p].pc # "idle"
  BY <1>1, <1>2, Starting, PlainStart, ScopedStart DEF Rebuilding, Plans
<1>4. ~End(p)
  BY <1>1, Ending DEF Rebuilding
<1>5. proc[p].cmd = "rebuild"
  BY <1>2, <1>3, <1>4, Staying DEF Rebuilding
<1>6. CASE proc'[p].pc = "probe"
  <2>1. proc[p].pc = "probe" \/ ListLocks(p)
    BY <1>1, <1>6 DEF Effects, Arrives
  <2> QED
    BY <1>3, <1>4, <1>5, <2>1 DEF Rebuilding
<1>7. CASE proc'[p].pc # "probe"
  <2>0. Arrives(p) /\ ~StartInit(p, "rebuild") /\ ~StartInit(p, "init")
    BY <1>1, <1>3 DEF Effects, StartInit, At
  <2>1. proc[p].pc \notin {"fetch", "list", "done", "failed"}
    BY <2>0, <1>2, <1>3, <1>4, <1>5, <1>7, Staying
    DEF Rebuilding, Arrives, Departs, PlaceFits, Places, Plans
  <2> QED
    BY <1>3, <1>4, <1>5, <2>1 DEF Rebuilding
<1> QED
  BY <1>3, <1>4, <1>5, <1>6, <1>7

(* A step preserves KeptApart: a probe passes only the locks nobody holds, *)
(* and who takes a lock after its probe is marked.                         *)
LEMMA KeptApartStep ==
  ASSUME NEW p \in Procs, TypeOK, PlacesFit, LocksHeld, KeptApart, Step(p)
  PROVE  KeptApart'
<1>1. Effects(p) /\ proc \in [Procs -> ProcTypes] /\ PlacesFit' /\ Departs(p)
  BY AllEffects, PlacesFitStep, Departures
<1>2. ASSUME NEW r \in Procs, (r \in Rebuilding)' PROVE Inside(r)' => proc'[r].unprobed = {}
  <2>1. CASE r # p
    <3>1. Keeps(r) /\ r \in Rebuilding
      BY <1>1, <1>2, <2>1 DEF Effects, Keeps, Rebuilding
    <3> QED
      BY <3>1 DEF Keeps, KeptApart, Inside
  <2>2. CASE r = p
    <3>1. /\ proc[p].pc # "idle" /\ ~End(p) /\ PlaceFits(p) /\ Arrives(p) /\ Memory(p)
          /\ p \in Rebuilding \/ ListLocks(p)
      BY <1>1, <1>2, <2>2, StillProbing DEF Effects, PlacesFit
    <3>2. CASE ListLocks(p)
      BY <1>1, <2>2, <3>2 DEF ListLocks, Inside, Filling, ProcTypes
    <3>3. CASE TakeWorkspace(p)
      BY <1>1, <2>2, <3>3 DEF TakeWorkspace, Goto, ProcTypes
    <3>4. CASE \E s \in Specs : Probe(p, s)
      BY <1>1, <2>2, <3>4 DEF Probe, At, Goto, Inside, Filling, ProcTypes
    <3>5. CASE ~ListLocks(p) /\ ~TakeWorkspace(p) /\ ~\E s \in Specs : Probe(p, s)
      <4>1. Inside(p)' => Inside(p) /\ proc[p].unprobed = {}
        BY <3>1, <3>5, StaysInside DEF KeptApart
      <4>2. proc'[p].unprobed = proc[p].unprobed
        BY <3>1, <3>5 DEF Memory, Begins
      <4> QED
        BY <2>2, <4>1, <4>2
    <3> QED
      BY <3>2, <3>3, <3>4, <3>5
  <2> QED
    BY <2>1, <2>2
<1>3. ASSUME NEW r \in Procs, (r \in Rebuilding)', NEW q \in Procs, Planning(q)'
      PROVE  Apart(r, q)'
  <2>0. r # q
    BY <1>3 DEF Planning, Rebuilding, Plans
  <2>1. CASE r # p /\ q # p
    <3>1. Keeps(r) /\ Keeps(q) /\ r \in Rebuilding /\ Planning(q)
      BY <1>1, <1>3, <2>1 DEF Effects, Keeps, Rebuilding, Planning, Active
    <3> QED
      BY <3>1 DEF Keeps, KeptApart, Apart
  <2>2. CASE r = p
    <3>1. Keeps(q) /\ Planning(q)
      BY <1>1, <1>3, <2>0, <2>2 DEF Effects, Keeps, Planning, Active
    <3>2. proc[q].spec \in Specs /\ lock[proc[q].spec] = q
      BY <3>1 DEF LocksHeld, Planning
    <3>3. /\ proc[p].pc # "idle" /\ ~End(p) /\ PlaceFits(p) /\ Memory(p) /\ Arrives(p)
          /\ p \in Rebuilding \/ ListLocks(p)
      BY <1>1, <1>3, <2>2, StillProbing DEF Effects, PlacesFit
    <3>4. CASE ListLocks(p)
      BY <1>1, <2>2, <3>1, <3>2, <3>4 DEF ListLocks, Apart, Keeps, ProcTypes
    <3>5. ASSUME NEW s \in Specs, Probe(p, s), ~ListLocks(p) PROVE Apart(p, q)'
      <4>1. proc'[p].pc = "probe"
        <5>1. proc'[p].pc # "failed"
          BY <1>3, <2>2 DEF Rebuilding
        <5> QED
          BY <1>1, <5>1, <3>5 DEF Probe, Goto, ProcTypes, At
      <4>2. lock[s] = Free /\ proc' = [proc EXCEPT ![p].unprobed = proc[p].unprobed \ {s}]
        BY <1>1, <3>5, <1>3, <2>2 DEF Probe, Goto, ProcTypes, Rebuilding
      <4>3. proc[q].spec # s
        BY <3>2, <4>2, StateAssumption
      <4>4. Apart(p, q)
        BY <3>1, <3>3, <3>5 DEF KeptApart, Apart
      <4> QED
        BY <1>1, <3>1, <4>2, <4>3, <4>4 DEF Apart, Keeps, ProcTypes
    <3>6. CASE ~ListLocks(p) /\ ~\E s \in Specs : Probe(p, s)
      <4>1. proc'[p].unprobed = proc[p].unprobed /\ proc'[p].late = proc[p].late
        BY <3>3, <3>6, Staying DEF Memory, Begins
      <4>2. Apart(p, q)
        BY <3>1, <3>3, <3>6 DEF KeptApart, Apart
      <4> QED
        BY <2>2, <3>1, <4>1, <4>2 DEF Apart, Keeps
    <3> QED
      BY <2>2, <3>4, <3>5, <3>6
  <2>3. CASE q = p
    <3>1. Keeps(r) /\ r \in Rebuilding
      BY <1>1, <1>3, <2>0, <2>3 DEF Effects, Keeps, Rebuilding
    <3>2. CASE proc[p].pc = "idle"
      <4>1. PICK cmd \in Plans, s \in Specs : StartSpecScoped(p, cmd, s)
        BY <1>1, <1>3, <2>3, <3>2, Starting, PlainStart, ScopedStart DEF Planning, Plans
      <4> QED
        BY <1>1, <2>0, <2>3, <3>1, <4>1, PlanStartMarks DEF Apart
    <3>3. CASE proc[p].pc # "idle"
      <4>1. ~End(p) /\ PlaceFits(p)
        BY <1>1, <1>3, <2>3, Ending DEF Planning, PlacesFit, Active
      <4>2. /\ proc'[p].cmd = proc[p].cmd /\ proc'[p].late = proc[p].late
            /\ Planning(p) /\ proc'[p].spec = proc[p].spec
        BY <1>3, <2>3, <3>3, <4>1, Staying DEF Planning, Active
      <4> QED
        BY <2>3, <3>1, <4>2 DEF KeptApart, Apart, Keeps
    <3> QED
      BY <3>2, <3>3
  <2> QED
    BY <2>1, <2>2, <2>3
<1>4. Rebuilding' \subseteq Procs
  BY DEF Rebuilding
<1> QED
  BY <1>2, <1>3, <1>4 DEF KeptApart, Apart

(***************************************************************************)
(* Connections and tables                                                  *)
(***************************************************************************)
(* StateDb::open leaves a connection to the file under the path, and makes *)
(* one only if there was none.                                             *)
LEMMA Opening ==
  ASSUME NEW p \in Procs, proc \in [Procs -> ProcTypes], path \in Files \cup {0}, Open(p)
  PROVE  /\ proc'[p].h = path' /\ path' \in Files /\ path' # 0
         /\ path # 0 => path' = path
         /\ path = 0 => path' = NewFile
         /\ proc'[p].pc = AfterOpen(proc[p].cmd) /\ proc[p].cmd \in Commands
         /\ proc'[p].cmd = proc[p].cmd
<1>1. path' = IF path = 0 THEN NewFile ELSE path
  BY OpenDoes
<1>2. path' \in Files /\ path' # 0
  BY <1>1, NewFileIsNew, FilesAreNumbers
<1>3. proc'[p].h = path' /\ proc'[p].cmd = proc[p].cmd /\ proc'[p].pc = AfterOpen(proc[p].cmd)
  <2>1. proc' = [proc EXCEPT ![p].h = path', ![p].pc = AfterOpen(proc[p].cmd)]
    BY OpenDoes
  <2> DEFINE f == path'
             x == AfterOpen(proc[p].cmd)
  <2>2. proc' = [proc EXCEPT ![p].h = f, ![p].pc = x]
    BY <2>1
  <2> HIDE DEF f, x
  <2>3. proc'[p].h = f /\ proc'[p].cmd = proc[p].cmd /\ proc'[p].pc = x
    BY <2>2 DEF ProcTypes
  <2> QED
    BY <2>3 DEF f, x
<1> QED
  BY <1>1, <1>2, <1>3 DEF ProcTypes

(* A step preserves Connections: a path is unlinked only by a rebuild,     *)
(* which no plan meets unmarked and no other rebuild meets at all.         *)
LEMMA ConnectionsStep ==
  ASSUME NEW p \in Procs, TypeOK, PlacesFit, LocksHeld, KeptApart, Connections, Step(p)
  PROVE  Connections'
<1>1. Effects(p) /\ proc \in [Procs -> ProcTypes] /\ PlacesFit' /\ Departs(p) /\ path \in Files \cup {0}
  BY AllEffects, PlacesFitStep, Departures DEF TypeOK
<1>2. Open(p) => proc'[p].h = path' /\ path' # 0 /\ (path # 0 => path' = path)
  BY <1>1, Opening
<1>3. Recreate(p) => Inside(p) /\ p \in Rebuilding
  BY DEF Recreate, At, Inside, Rebuilding, PlacesFit, PlaceFits
<1> DEFINE Closed(q) == proc[q].pc \in {"idle", "fetch", "list", "probe", "recreate", "open"} => proc[q].h = 0
           Opened(q) == proc[q].pc \in {"load", "interview", "reconcile", "upsert", "delete", "insert",
                       "write", "current", "molecule", "rebuilt"} \cup Filling =>
                           proc[q].h # 0
           Fresh(q) == /\ Connected(q) => proc[q].h = path
                       /\ Planning(q) /\ ~proc[q].late /\ proc[q].h # 0 => proc[q].h = path
<1>4. ASSUME NEW q \in Procs \ {p} PROVE Closed(q)' /\ Opened(q)' /\ Fresh(q)'
  <2>1. Keeps(q) /\ Closed(q) /\ Opened(q) /\ Fresh(q)
    BY <1>1, <1>4 DEF Effects, Connections
  <2>2. Closed(q)' /\ Opened(q)'
    BY <2>1 DEF Keeps
  <2>3. CASE path' = path
    BY <2>1, <2>2, <2>3 DEF Keeps, Connected, Planning, Active
  <2>4. CASE Open(p)
    BY <1>2, <2>1, <2>2, <2>4 DEF Keeps, Connected, Planning, Active
  <2>5. CASE Recreate(p)
    <3>1. ~Connected(q)
      BY <1>3, <1>4, <2>5 DEF LocksHeld, Inside, Connected
    <3>2. Planning(q) => proc[q].late
      BY <1>3, <2>5 DEF KeptApart
    <3> QED
      BY <2>1, <2>2, <3>1, <3>2 DEF Keeps, Connected, Planning, Active
  <2> QED
    BY <1>1, <2>3, <2>4, <2>5 DEF Effects, Shares
<1>5. Closed(p)' /\ Opened(p)' /\ Fresh(p)'
  <2>1. Closed(p) /\ Opened(p) /\ Fresh(p) /\ Arrives(p) /\ Memory(p) /\ PlaceFits(p) /\ PlaceFits(p)'
    BY <1>1 DEF Effects, Connections, PlacesFit
  <2>2. CASE End(p)
    BY <1>1, <2>2, Ending DEF Connected, Filling, Planning, Plans
  <2>3. CASE proc[p].pc = "idle" /\ ~End(p)
    <3>1. proc'[p].pc \in {"fetch", "list", "open"}
      BY <1>1, <2>3, Starting, PlainStart, ScopedStart
    <3>2. proc'[p].h = 0
      BY <1>1, <2>1, <2>3 DEF Memory, Begins, Departs
    <3> QED
      BY <3>1, <3>2 DEF Connected, Filling
  <2>4. CASE Open(p)
    <3>1. proc'[p].pc = AfterOpen(proc[p].cmd) /\ proc[p].cmd \in Commands
      BY <1>1, <2>4, Opening
    <3> QED
      BY <1>2, <2>4, <3>1, OpensAt
  <2>5. CASE proc[p].pc # "idle" /\ ~End(p) /\ ~Open(p)
    <3>1. proc'[p].h = proc[p].h /\ proc'[p].cmd = proc[p].cmd /\ proc'[p].late = proc[p].late
      BY <2>1, <2>5, Staying DEF Memory, Begins
    <3>2. ~StartInit(p, "init") /\ ~StartInit(p, "rebuild")
      BY <2>5 DEF StartInit, At
    <3>3. Closed(p)' /\ Opened(p)'
      BY <1>1, <2>1, <2>5, <3>1, <3>2 DEF Arrives, Departs, Filling
    <3>4. CASE Recreate(p)
      BY <1>1, <2>1, <3>1, <3>3, <3>4 DEF Departs, Connected, Planning, Plans,
             PlaceFits, Recreate, Goto, ProcTypes, Filling
    <3>5. CASE ~Recreate(p)
      <4>1. path' = path
        BY <1>1, <2>5, <3>5 DEF Effects, Shares
      <4>2. Connected(p)' => Connected(p)
        BY <1>1, <2>1, <2>5, <3>1, <3>2 DEF Arrives, Departs, Filling, Connected
      <4> QED
        BY <2>1, <2>5, <3>1, <3>3, <4>1, <4>2 DEF Planning, Active
    <3> QED
      BY <3>4, <3>5
  <2> QED
    BY <2>2, <2>3, <2>4, <2>5
<1> QED
  BY <1>4, <1>5 DEF Connections

(* A step preserves TablesThere: only DROP of a rebuild takes the tables   *)
(* away, and it marks whoever is connected.                                *)
LEMMA TablesThereStep ==
  ASSUME NEW p \in Procs, TypeOK, PlacesFit, LocksHeld, KeptApart, Connections,
         TablesThere, Step(p)
  PROVE  TablesThere'
<1>1. /\ Effects(p) /\ proc \in [Procs -> ProcTypes] /\ Departs(p)
      /\ disk \in [Files -> Dbs] /\ path \in Files \cup {0}
  BY AllEffects, Departures DEF TypeOK
<1> DEFINE There(q) == proc[q].h # 0 =>
                         /\ proc[q].cmd # "rebuild" => proc[q].lost \/ disk[proc[q].h].made
                         /\ Planning(q) /\ ~proc[q].late => disk[proc[q].h].made
<1>2. \A q \in Procs : There(q)
  BY DEF TablesThere, Db
<1>3. DropTables(p) => Inside(p) /\ p \in Rebuilding
  BY DEF DropTables, At, Inside, Rebuilding, PlacesFit, PlaceFits, Filling
<1>4. ASSUME NEW q \in Procs \ {p}, proc'[q].h # 0 PROVE There(q)'
  <2>1. Keeps(q) /\ There(q)
    BY <1>1, <1>2 DEF Effects
  <2> DEFINE f == proc[q].h
  <2>2. f \in Files /\ proc'[q].h = f
    BY <1>1, <1>4, <2>1 DEF Keeps, ProcTypes
  <2>3. disk[f].made => disk'[f].made \/ (f = proc[p].h /\ DropTables(p))
    BY <1>1, <2>2 DEF Effects, InUse, Tables
  <2>4. f = proc[p].h /\ DropTables(p) => proc'[q].lost
    BY <1>1 DEF DropTables, ProcTypes
  <2>5. DropTables(p) /\ Planning(q) => proc[q].late
    BY <1>3 DEF KeptApart
  <2> QED
    BY <1>4, <2>1, <2>2, <2>3, <2>4, <2>5 DEF Keeps, Planning, Active
<1>5. ASSUME proc'[p].h # 0 PROVE There(p)'
  <2>1. ~End(p) /\ proc[p].pc # "idle" /\ PlaceFits(p) /\ Memory(p) /\ There(p)
    <3>1. ~End(p)
      BY <1>1, <1>5, Ending
    <3>2. Memory(p) /\ (proc[p].pc = "idle" => proc[p].h = 0)
      BY <1>1 DEF Effects, Connections
    <3> QED
      BY <1>1, <1>2, <1>5, <3>1, <3>2 DEF Memory, Begins, Departs, PlacesFit
  <2>2. CASE Open(p)
    <3>1. disk' = [disk EXCEPT ![path'] = IF path = 0 THEN Blank ELSE Migrate(disk[path])]
      BY <1>1, <2>2, OpenDoes
    <3>2. proc'[p].h = path' /\ path' \in Files
      BY <1>1, <2>2, Opening
    <3>3. disk'[path'].made
      BY <1>1, <3>1, <3>2 DEF Dbs, Blank, Migrate
    <3> QED
      BY <3>2, <3>3
  <2>3. CASE ~Open(p)
    <3>1. proc'[p].h = proc[p].h /\ proc'[p].cmd = proc[p].cmd /\ proc'[p].late = proc[p].late
          /\ proc'[p].lost = proc[p].lost
      BY <2>1, <2>3, Staying DEF Memory, Begins
    <3>2. proc[p].h \in Files
      BY <1>1, <1>5, <3>1 DEF ProcTypes
    <3>3. disk[proc[p].h].made => disk'[proc[p].h].made \/ DropTables(p)
      BY <1>1, <2>1, <3>2 DEF Effects, InUse, Tables
    <3>4. DropTables(p) => proc[p].cmd = "rebuild"
      BY <1>3 DEF Inside
    <3> QED
      BY <2>1, <3>1, <3>3, <3>4 DEF Planning, Active, Plans
  <2> QED
    BY <2>2, <2>3
<1> QED
  BY <1>4, <1>5 DEF TablesThere, Db

(* A step preserves DeadRebuildWedgesNobody: StateDb::open migrates each   *)
(* time, so an error in the database means that the tables were dropped    *)
(* later.                                                                  *)
LEMMA DeadRebuildStep ==
  ASSUME NEW p \in Procs, TypeOK, PlacesFit, LocksHeld, KeptApart, Connections, TablesThere,
         DeadRebuildWedgesNobody, Step(p)
  PROVE  DeadRebuildWedgesNobody'
<1>1. /\ Effects(p) /\ proc \in [Procs -> ProcTypes] /\ TablesThere' /\ PlaceFits(p) /\ Fails(p)
  BY AllEffects, TablesThereStep, Failures DEF PlacesFit
<1>2. ASSUME NEW q \in Procs, proc'[q].pc = "failed", proc'[q].h # 0,
             proc'[q].cmd # "rebuild"
      PROVE  proc'[q].lost \/ (proc'[q].cmd \in Plans /\ Db(q)'.made)
  <2>1. proc'[q].lost \/ Db(q)'.made
    BY <1>1, <1>2 DEF TablesThere
  <2>2. ASSUME proc'[q].cmd \notin Plans PROVE proc'[q].lost
    <3>1. CASE q # p
      BY <1>1, <1>2, <2>2, <3>1 DEF Effects, Keeps, DeadRebuildWedgesNobody, At
    <3>2. CASE q = p
      <4>1. ~End(p) /\ FailsFrom(p) /\ proc[p].pc # "idle"
        BY <1>1, <1>2, <3>2, Ending DEF FailsFrom, Fails
      <4>2. proc'[p].cmd = proc[p].cmd /\ proc'[p].lost = proc[p].lost
        BY <1>1, <4>1, Staying
      <4>3. proc[p].pc \in {"probe", "write", "current", "molecule"}
        BY <1>1, <1>2, <2>2, <3>2, <4>1, <4>2 DEF FailsFrom, PlaceFits, Filling
      <4>4. proc'[p].h = proc[p].h
        BY <1>1, <4>1, <4>3, Departures DEF Effects, Memory, Begins, Departs
      <4>5. ~Db(p).made /\ proc[p].h # 0
        BY <1>1, <1>2, <3>2, <4>1, <4>3, <4>4 DEF Connections, FailsFrom
      <4> QED
        BY <1>2, <3>2, <4>2, <4>5 DEF TablesThere
    <3> QED
      BY <3>1, <3>2
  <2> QED
    BY <2>1, <2>2
<1> QED
  BY <1>2 DEF DeadRebuildWedgesNobody, At

(***************************************************************************)
(* What was promised is not being written                                  *)
(***************************************************************************)
(* A step preserves NoPromiseInWork: what a rebuild or a plan reports is   *)
(* not what another one is writing.                                        *)
LEMMA NoPromiseInWorkStep ==
  ASSUME NEW p \in Procs, TypeOK, PlacesFit, LocksHeld, KeptApart, NoPromiseInWork, Step(p)
  PROVE  NoPromiseInWork'
<1>1. /\ Effects(p) /\ proc \in [Procs -> ProcTypes] /\ Departs(p) /\ PlaceFits(p)
      /\ promise \in [Specs -> Contents \cup {Unknown}]
  BY AllEffects, Departures DEF TypeOK, PlacesFit
<1> DEFINE Works(r) == proc[r].cmd = "rebuild" /\ proc[r].pc \in Filling \cup {"open"}
           Writes(q) == proc[q].pc \in {"delete", "insert"}
<1>2. ASSUME NEW r \in Procs, Works(r)' PROVE Works(r) \/ Recreate(p)
  <2>1. CASE r # p
    BY <1>1, <1>2, <2>1 DEF Effects, Keeps
  <2>2. CASE r = p
    <3>1. (p \in Rebuilding)'
      BY <1>2, <2>2 DEF Rebuilding, Filling
    <3>2. proc[p].pc # "idle" /\ ~End(p) /\ proc[p].cmd = "rebuild"
      BY <3>1, StillProbing
    <3>3. ~StartInit(p, "rebuild") /\ ~StartInit(p, "init")
      BY <3>2 DEF StartInit, At
    <3>4. TakeWorkspace(p) => proc'[p].pc \in {"recreate", "failed"}
      BY <1>1, <3>2 DEF TakeWorkspace, Goto, ProcTypes
    <3> QED
      BY <1>1, <1>2, <2>2, <3>2, <3>3, <3>4 DEF Effects, Arrives, Departs, Filling
  <2> QED
    BY <2>1, <2>2
<1>3. ASSUME NEW q \in Procs, Writes(q)'
      PROVE  proc'[q].spec = proc[q].spec /\ (Writes(q) \/ (q = p /\ UpsertSpec(p)))
  <2>1. CASE q # p
    BY <1>1, <1>3, <2>1 DEF Effects, Keeps
  <2>2. CASE q = p
    <3>1. ~End(p)
      BY <1>1, <1>3, <2>2, Ending
    <3>2. Writes(p) \/ UpsertSpec(p)
      BY <1>1, <1>3, <2>2 DEF Effects, Arrives, Departs
    <3>3. proc[p].pc # "idle" /\ proc[p].cmd \in Plans
      BY <1>1, <3>2 DEF Departs, PlaceFits
    <3> QED
      BY <1>1, <2>2, <3>1, <3>2, <3>3, Staying
  <2> QED
    BY <2>1, <2>2
<1>4. ASSUME NEW q \in Procs, Writes(q)
      PROVE Planning(q) /\ proc[q].spec \in Specs /\ lock[proc[q].spec] = q
  <2>1. Planning(q)
    BY <1>4 DEF Planning, Active, PlacesFit, PlaceFits
  <2> QED
    BY <2>1 DEF LocksHeld, Planning
<1>5. CASE promise' = promise
  <2>1. ~Recreate(p) \/ \A s \in Specs : promise'[s] = Unknown
    BY DEF Recreate
  <2>2. UpsertSpec(p) => promise'[proc[p].spec] = Unknown
    <3>1. ASSUME UpsertSpec(p) PROVE proc[p].spec \in Specs
      BY <1>1, <3>1 DEF LocksHeld, Active, Departs, PlaceFits
    <3> QED
      BY <1>1, <3>1 DEF UpsertSpec
  <2> QED
    BY <1>2, <1>3, <1>5, <2>1, <2>2 DEF NoPromiseInWork
<1>6. CASE Recreate(p)
  <2>1. \A s \in Specs : promise'[s] = Unknown
    BY <1>6 DEF Recreate
  <2> QED
    BY <1>1, <1>3, <1>4, <1>6, <2>1 DEF NoPromiseInWork, Departs
<1>7. CASE RebuildReport(p) /\ promise' # promise
  <2>1. Inside(p) /\ p \in Rebuilding /\ ~proc[p].late
    BY <1>1, <1>7 DEF RebuildReport, Departs, PlaceFits, Filling, Inside, Rebuilding
  <2>2. \A q \in Procs : ~Writes(q)
    BY <1>4, <2>1 DEF KeptApart
  <2>3. \A r \in Procs \ {p} : ~Works(r)
    BY <2>1 DEF LocksHeld, Inside
  <2>4. ~Works(p)'
    BY <1>1, <1>7 DEF RebuildReport, Goto, ProcTypes, Filling
  <2>5. ~Recreate(p) /\ ~UpsertSpec(p)
    BY <1>1, <1>7 DEF Departs
  <2> QED
    BY <1>2, <1>3, <2>2, <2>3, <2>4, <2>5 DEF NoPromiseInWork
<1>8. CASE UpsertSpec(p)
  <2>1. proc[p].spec \in Specs
    BY <1>1, <1>8 DEF LocksHeld, Active, Departs, PlaceFits
  <2>2. promise' = [promise EXCEPT ![proc[p].spec] = Unknown] /\ ~Recreate(p)
    BY <1>1, <1>8 DEF UpsertSpec, Departs
  <2> QED
    BY <1>1, <1>2, <1>3, <1>4, <2>1, <2>2 DEF NoPromiseInWork
<1>9. CASE PlanReport(p) /\ promise' # promise
  <2>1. Planning(p) /\ ~proc[p].late
    BY <1>1, <1>9 DEF PlanReport, Departs, PlaceFits, Planning, Active
  <2>2. proc[p].spec \in Specs /\ lock[proc[p].spec] = p
    BY <2>1 DEF LocksHeld, Planning
  <2>3. \A r \in Procs : ~Works(r)
    BY <2>1 DEF KeptApart, Inside, Rebuilding, Filling
  <2>4. promise' = [promise EXCEPT ![proc[p].spec] = proc[p].seen[proc[p].spec]]
        /\ proc' = [proc EXCEPT ![p].pc = "done"]
    BY <1>9 DEF PlanReport, Goto
  <2>5. ~Writes(p)' /\ ~Recreate(p) /\ ~UpsertSpec(p)
    BY <1>1, <1>9, <2>4 DEF Departs, ProcTypes
  <2>6. \A q \in Procs \ {p} : Writes(q) => proc[q].spec # proc[p].spec
    BY <1>4, <2>2
  <2> QED
    BY <1>1, <1>2, <1>3, <1>4, <2>2, <2>3, <2>4, <2>5, <2>6 DEF NoPromiseInWork
<1> QED
  BY <1>1, <1>5, <1>6, <1>7, <1>8, <1>9 DEF Effects, Shares

(***************************************************************************)
(* rebuild.rs: the rows a rebuild has written                              *)
(***************************************************************************)
(* A rebuild nobody broke into can insert its next spec, and has then      *)
(* written what it should have.                                            *)
LEMMA RowProgress ==
  ASSUME NEW q \in ProcTypes, NEW db \in Dbs, RebuildProgress(q, db), q.pc = "row",
         NEW s \in q.todo
  PROVE  /\ CanInsertSpec(db, s)
         /\ RebuildProgress([q EXCEPT !.spec = s, !.todo = q.todo \ {s}, !.left = q.seen[s],
                                      !.pc = "companions"], WithSpec(db, s))
<1> DEFINE q2 == [q EXCEPT !.spec = s, !.todo = q.todo \ {s}, !.left = q.seen[s], !.pc = "companions"]
           db2 == WithSpec(db, s)
<1>1. /\ q2.pc = "companions" /\ q2.spec = s /\ q2.todo = q.todo \ {s} /\ q2.left = q.seen[s]
      /\ q2.seen = q.seen
  BY DEF ProcTypes
<1>2. /\ db2.made = db.made /\ db2.rows = db.rows \cup {s} /\ db2.comps = db.comps /\ db2.mols = db.mols
  BY DEF WithSpec, Dbs
<1>3. /\ db.made /\ db.mols = {}
      /\ q.todo \subseteq Declared(q.seen) /\ db.rows = Declared(q.seen) \ q.todo
      /\ \A t \in Specs \ db.rows : db.comps[t] = {}
      /\ \A t \in db.rows : db.comps[t] = q.seen[t]
  BY DEF RebuildProgress
<1>4. s \in Specs /\ s \in Declared(q.seen) /\ s \notin db.rows /\ db.comps[s] = {}
  BY <1>3 DEF Declared
<1> HIDE DEF q2, db2
<1>5. RebuildProgress(q2, db2)
  BY <1>1, <1>2, <1>3, <1>4 DEF RebuildProgress
<1> QED
  BY <1>3, <1>4, <1>5 DEF CanInsertSpec, q2, db2

(* The same for the companions of a spec, also after the last one.         *)
LEMMA CompanionProgress ==
  ASSUME NEW q \in ProcTypes, NEW db \in Dbs, RebuildProgress(q, db), q.pc = "companions"
  PROVE  /\ CanInsertCompanion(db, q.spec)
         /\ q.left = {} => RebuildProgress([q EXCEPT !.pc = "row"], db)
         /\ \A c \in q.left : RebuildProgress([q EXCEPT !.left = q.left \ {c}],
                                              WithCompanion(db, q.spec, c))
<1>1. /\ db.made /\ db.mols = {}
      /\ q.todo \subseteq Declared(q.seen) /\ db.rows = Declared(q.seen) \ q.todo
      /\ \A t \in Specs \ db.rows : db.comps[t] = {}
      /\ \A t \in db.rows : t # q.spec => db.comps[t] = q.seen[t]
      /\ q.spec \in db.rows /\ q.left \subseteq q.seen[q.spec]
      /\ db.comps[q.spec] = q.seen[q.spec] \ q.left
  BY DEF RebuildProgress
<1>2. q.spec \in Specs
  BY <1>1 DEF Dbs
<1>3. ASSUME q.left = {} PROVE RebuildProgress([q EXCEPT !.pc = "row"], db)
  <2> DEFINE q2 == [q EXCEPT !.pc = "row"]
  <2>1. q2.pc = "row" /\ q2.spec = q.spec /\ q2.todo = q.todo /\ q2.seen = q.seen
    BY DEF ProcTypes
  <2> HIDE DEF q2
  <2>2. RebuildProgress(q2, db)
    BY <1>1, <1>3, <2>1 DEF RebuildProgress
  <2> QED
    BY <2>2 DEF q2
<1>4. ASSUME NEW c \in q.left
      PROVE  RebuildProgress([q EXCEPT !.left = q.left \ {c}], WithCompanion(db, q.spec, c))
  <2> DEFINE q2 == [q EXCEPT !.left = q.left \ {c}]
             db2 == WithCompanion(db, q.spec, c)
  <2>1. /\ q2.pc = "companions" /\ q2.spec = q.spec /\ q2.todo = q.todo /\ q2.seen = q.seen
        /\ q2.left = q.left \ {c}
    BY DEF ProcTypes
  <2>2. /\ db2.made = db.made /\ db2.rows = db.rows /\ db2.mols = db.mols
        /\ db2.comps = [db.comps EXCEPT ![q.spec] = db.comps[q.spec] \cup {c}]
    BY DEF WithCompanion, Dbs
  <2>3. /\ \A t \in Specs : t # q.spec => db2.comps[t] = db.comps[t]
        /\ db2.comps[q.spec] = q.seen[q.spec] \ (q.left \ {c})
    BY <1>1, <1>2, <2>2 DEF Dbs
  <2> HIDE DEF q2, db2
  <2>4. RebuildProgress(q2, db2)
    BY <1>1, <1>2, <2>1, <2>2, <2>3 DEF RebuildProgress, Dbs
  <2> QED
    BY <2>4 DEF q2, db2
<1> QED
  BY <1>1, <1>3, <1>4 DEF CanInsertCompanion

(* The rows are complete when the molecules' turn comes.                   *)
LEMMA MoleculesProgress ==
  ASSUME NEW q \in ProcTypes, NEW db \in Dbs, RebuildProgress(q,
         db), q.pc = "row", q.todo = {}
  PROVE  RebuildProgress([q EXCEPT !.mols = Kept(q.fetched, q.seen), !.pc = "molecules"], db)
<1> DEFINE q2 == [q EXCEPT !.mols = Kept(q.fetched, q.seen), !.pc = "molecules"]
<1>1. q2.pc = "molecules" /\ q2.mols = Kept(q.fetched, q.seen) /\ q2.fetched = q.fetched /\ q2.seen = q.seen
  BY DEF ProcTypes
<1>2. /\ db.made /\ db.mols = {} /\ db.rows = Declared(q.seen)
      /\ \A t \in Specs \ db.rows : db.comps[t] = {}
      /\ \A t \in db.rows : db.comps[t] = q.seen[t]
  BY DEF RebuildProgress
<1> HIDE DEF q2
<1>3. RebuildProgress(q2, db)
  BY <1>1, <1>2 DEF RebuildProgress
<1> QED
  BY <1>3 DEF q2

(* A rebuild nobody broke into can insert its next molecule: no duplicate, *)
(* and the spec row its foreign key names is there.                        *)
LEMMA MoleculeProgress ==
  ASSUME NEW q \in ProcTypes, NEW db \in Dbs, RebuildProgress(q, db), Labelled(q),
         q.pc = "molecules", NEW m \in q.mols
  PROVE  /\ CanInsertMol(db, m)
         /\ RebuildProgress([q EXCEPT !.mols = q.mols \ {m}], WithMol(db, m))
<1> DEFINE q2 == [q EXCEPT !.mols = q.mols \ {m}]
           db2 == WithMol(db, m)
<1>1. q2.pc = "molecules" /\ q2.mols = q.mols \ {m} /\ q2.fetched = q.fetched /\ q2.seen = q.seen
  BY DEF ProcTypes
<1>2. db2.made = db.made /\ db2.rows = db.rows /\ db2.comps = db.comps /\ db2.mols = db.mols \cup {m}
  BY DEF WithMol, Dbs
<1>3. /\ db.made /\ db.rows = Declared(q.seen)
      /\ \A s \in Specs : db.comps[s] = IF s \in Declared(q.seen) THEN q.seen[s] ELSE {}
      /\ q.mols \subseteq Kept(q.fetched, q.seen)
      /\ db.mols = Kept(q.fetched, q.seen) \ q.mols
  BY DEF RebuildProgress
<1>4. m \in Kept(q.fetched, q.seen) /\ m \notin db.mols
  BY <1>3
<1>5. SpecOf[m] \in db.rows
  BY <1>3, <1>4 DEF Kept, Labelled, Declared
<1>6. db.mols \cup {m} = Kept(q.fetched, q.seen) \ (q.mols \ {m})
  BY <1>3, <1>4
<1> HIDE DEF q2, db2
<1>7. RebuildProgress(q2, db2)
  BY <1>1, <1>2, <1>3, <1>6 DEF RebuildProgress
<1> QED
  BY <1>3, <1>4, <1>5, <1>7 DEF CanInsertMol, q2, db2

(* How far a rebuild has come is a matter of its own record and of the     *)
(* tables it has written.                                                  *)
LEMMA SameProgress ==
  ASSUME NEW q, NEW q2, NEW db, NEW db2, RebuildProgress(q, db),
         q2.pc = q.pc, q2.spec = q.spec, q2.h = q.h, q2.seen = q.seen, q2.todo = q.todo,
         q2.left = q.left, q2.fetched = q.fetched, q2.mols = q.mols, db.made => db2.made,
         db2.rows = db.rows, db2.comps = db.comps, db2.mols = db.mols
  PROVE  RebuildProgress(q2, db2)
BY DEF RebuildProgress

(* A step of another process leaves alone what a rebuild has written,      *)
(* unless the rebuild is marked.                                           *)
LEMMA OthersProgress ==
  ASSUME NEW p \in Procs, TypeOK, PlacesFit, LocksHeld, KeptApart, Connections,
         RebuildsProgress,
         Step(p), NEW r \in Procs \ {p}, proc'[r].cmd = "rebuild"
  PROVE  Labelled(proc[r])' /\ (~proc'[r].late => RebuildProgress(proc[r], Db(r))')
<1>1. /\ Effects(p) /\ proc \in [Procs -> ProcTypes] /\ Departs(p) /\ Keeps(r)
      /\ disk \in [Files -> Dbs] /\ path \in Files \cup {0} /\ PlaceFits(p)
  BY AllEffects, Departures DEF TypeOK, Effects, PlacesFit
<1>2. Labelled(proc[r])'
  BY <1>1 DEF Keeps, RebuildsProgress, Labelled
<1>3. ASSUME ~proc'[r].late PROVE RebuildProgress(proc[r], Db(r))'
  <2>1. RebuildProgress(proc[r], Db(r)) /\ ~proc[r].late
    BY <1>1, <1>3 DEF Keeps, RebuildsProgress
  <2>2. CASE ~Connected(r)
    BY <1>1, <2>1, <2>2 DEF Keeps, RebuildProgress, Connected, Filling
  <2>3. CASE Connected(r)
    <3>1. proc[r].h \in Files /\ proc'[r].h = proc[r].h
      BY <1>1, <2>3, FilesAreNumbers DEF Connections, Connected, Keeps, ProcTypes
    <3> DEFINE f == proc[r].h
    <3>2. Tables(p, f)
      BY <1>1, <3>1 DEF Effects, InUse
    <3>3. ~Inside(p)
      BY <2>3 DEF LocksHeld, Inside, Connected
    <3>4. ~Planning(p)
      <4>1. r \in Rebuilding /\ Inside(r)
        <5>1. proc[r].pc # "rebuilt" \/ proc[r].pc = "rebuilt"
          OBVIOUS
        <5> QED
          BY <2>3 DEF Connected, Rebuilding, Inside, Filling
      <4> QED
        BY <2>1, <4>1 DEF KeptApart
    <3>5. /\ ~DropTables(p) /\ ~InsertSpec(p) /\ ~InsertCompanion(p) /\ ~InsertMolecule(p)
      BY <1>1, <3>3 DEF Departs, PlaceFits, Inside, Filling
    <3>6. /\ ~UpsertSpec(p) /\ ~DeleteCompanions(p) /\ ~InsertDeclared(p)
      BY <1>1, <3>4 DEF Departs, PlaceFits, Planning, Active
    <3>7. /\ disk[f].made => disk'[f].made
          /\ disk'[f].rows = disk[f].rows /\ disk'[f].comps = disk[f].comps /\ disk'[f].mols = disk[f].mols
      BY <3>2, <3>5, <3>6 DEF Tables
    <3>8. Keeps(r)
      BY <1>1
    <3> QED
      BY <2>1, <3>1, <3>7, <3>8, SameProgress DEF Keeps, Db
  <2> QED
    BY <2>2, <2>3
<1> QED
  BY <1>2, <1>3

(* The steps of a rebuild that runs.                                       *)
LEMMA RebuildSteps ==
  ASSUME NEW p \in Procs, Step(p), PlaceFits(p), proc[p].cmd = "rebuild",
         proc[p].pc # "idle", ~End(p)
  PROVE  \/ Fetch(p) \/ ListLocks(p) \/ (\E s \in Specs : Probe(p, s)) \/ TakeWorkspace(p)
         \/ Recreate(p) \/ Open(p) \/ CollectSpecFiles(p) \/ DropTables(p) \/ CreateTables(p)
         \/ InsertSpec(p) \/ InsertCompanion(p)
         \/ BeginMolecules(p) \/ InsertMolecule(p) \/ RebuildReport(p)
<1>1. Departs(p)
  BY Departures
<1>2. ~PlanStep(p)
  <2>1. \A cmd \in Plans, s \in Specs : ~StartSpecScoped(p, cmd, s)
    BY DEF StartSpecScoped, At
  <2> QED
    BY <1>1, <2>1 DEF PlanStep, Departs, PlaceFits, Plans
<1>3. ~OtherStep(p)
  <2>1. ~StartLook(p) /\ \A s \in Specs : ~StartSpecScoped(p, "use", s)
    BY DEF StartSpecScoped, StartLook, At
  <2> QED
    BY <1>1, <2>1 DEF OtherStep, Departs, PlaceFits
<1>4. ~Exit(p) /\ ~Die(p)
  BY DEF Exit, Die
<1>5. \A cmd \in {"init", "rebuild"} : ~StartInit(p, cmd)
  BY DEF StartInit, At
<1> QED
  BY <1>2, <1>3, <1>4, <1>5 DEF Step, InitStep

(* A rebuild's own step keeps the account of what it has written, and      *)
(* never fails on an SQL error.                                            *)
LEMMA OwnProgress ==
  ASSUME NEW p \in Procs, TypeOK, PlacesFit, LocksHeld, KeptApart, Connections,
         RebuildsProgress,
         Step(p), proc'[p].cmd = "rebuild"
  PROVE  Labelled(proc[p])' /\ (~proc'[p].late => RebuildProgress(proc[p], Db(p))')
<1>1. /\ Effects(p) /\ proc \in [Procs -> ProcTypes] /\ Departs(p) /\ PlaceFits(p)
      /\ disk \in [Files -> Dbs] /\ path \in Files \cup {0} /\ ~End(p)
  BY AllEffects, Departures, Ending DEF TypeOK, Effects, PlacesFit
<1>2. CASE proc[p].pc = "idle"
  <2>1. proc'[p].pc = "fetch"
    BY <1>1, <1>2, Starting, PlainStart, ScopedStart DEF Plans
  <2> QED
    BY <2>1 DEF Labelled, RebuildProgress
<1>3. CASE proc[p].pc # "idle"
  <2>1. /\ proc[p].cmd = "rebuild" /\ proc'[p].late = proc[p].late
    BY <1>1, <1>3, Staying
  <2>2. Labelled(proc[p]) /\ (~proc[p].late => RebuildProgress(proc[p], Db(p)))
    BY <2>1 DEF RebuildsProgress
  <2> DEFINE q == proc[p]
             db == Db(p)
             Goal == Labelled(proc[p])' /\ (~proc'[p].late => RebuildProgress(proc[p], Db(p))')
  <2>3. q \in ProcTypes /\ (q.h # 0 => q.h \in Files /\ db \in Dbs)
    BY <1>1 DEF ProcTypes, Db
  <2>4. q.pc \in Filling => q.h # 0 /\ q.h \in Files /\ db \in Dbs
    BY <2>3 DEF Connections, Filling
  <2>5. q.pc \in {"fetch", "list", "probe", "recreate", "open"} => q.h = 0
    BY DEF Connections
  <2>6. CASE Fetch(p)
    <3>1. PICK active \in SUBSET Mols, x \in {"failed", "list"} :
           /\ proc' = [proc EXCEPT ![p].fetched = active, ![p].pc = x]
           /\ x = "list" => \A m \in active : SpecOf[m] # None
      BY <1>1, <2>6, FetchDoes
    <3>2. proc'[p].pc = x /\ proc'[p].fetched = active /\ proc'[p].h = 0
      BY <1>1, <2>5, <2>6, <3>1 DEF ProcTypes, Departs
    <3>3. \A m \in active : SpecOf[m] \in Specs \cup {None}
      BY DbAssumption
    <3> QED
      BY <3>1, <3>2, <3>3 DEF Labelled, RebuildProgress
  <2>7. CASE ListLocks(p) \/ (\E s \in Specs : Probe(p, s)) \/ TakeWorkspace(p) \/ Recreate(p)
    <3>1. q.pc \in {"list", "probe", "recreate"}
      BY <1>1, <2>7 DEF Departs
    <3>2. proc'[p].h = 0 /\ proc'[p].fetched = q.fetched
      BY <1>1, <1>3, <2>5, <3>1 DEF Departs, Effects, Memory, Begins
    <3>3. proc'[p].pc \in {"failed", "probe", "recreate", "open"}
      BY <1>1, <2>7 DEF ListLocks, Probe, TakeWorkspace, Recreate, Goto, At, ProcTypes
    <3> QED
      BY <2>2, <3>1, <3>2, <3>3 DEF Labelled, RebuildProgress
  <2>8. CASE Open(p)
    <3>1. proc'[p].pc = "collect" /\ q.pc = "open"
      BY <1>1, <2>1, <2>8, Opening, OpensAt DEF Departs
    <3>2. proc'[p].fetched = q.fetched
      BY <1>1, <1>3, <3>1 DEF Departs, Effects, Memory, Begins
    <3> QED
      BY <2>2, <3>1, <3>2 DEF Labelled, RebuildProgress
  <2>9. CASE CollectSpecFiles(p)
    <3>1. /\ proc'[p].pc = "drop" /\ proc'[p].fetched = q.fetched /\ q.pc = "collect"
          /\ proc'[p].seen = file /\ proc'[p].todo = {s \in Specs : file[s] # NoFile}
      BY <1>1, <2>9 DEF CollectSpecFiles, At, ProcTypes
    <3> QED
      BY <2>2, <3>1 DEF Labelled, RebuildProgress, Declared
  <2>10. CASE DropTables(p)
    <3>1. /\ proc'[p] = [q EXCEPT !.pc = "create"] /\ q.pc = "drop"
          /\ disk' = [disk EXCEPT ![q.h] = Dropped]
      BY <1>1, <2>10 DEF DropTables, At
    <3>2. /\ proc'[p].pc = "create" /\ proc'[p].todo = q.todo /\ proc'[p].seen = q.seen
          /\ proc'[p].fetched = q.fetched /\ proc'[p].h = q.h
      BY <2>3, <3>1 DEF ProcTypes
    <3>3. Db(p)' = Dropped
      BY <1>1, <2>4, <3>1, <3>2 DEF Db, Filling
    <3> QED
      BY <2>1, <2>2, <3>1, <3>2, <3>3 DEF Labelled, RebuildProgress, Dropped, Blank
  <2>11. CASE CreateTables(p)
    <3>1. /\ proc' = [proc EXCEPT ![p].pc = "row"] /\ q.pc = "create"
          /\ disk' = [disk EXCEPT ![q.h] = Migrate(disk[q.h])]
      BY <1>1, <2>11 DEF CreateTables, Goto, At
    <3>2. /\ proc'[p].pc = "row" /\ proc'[p].todo = q.todo /\ proc'[p].seen = q.seen
          /\ proc'[p].fetched = q.fetched /\ proc'[p].h = q.h
      BY <1>1, <3>1 DEF ProcTypes
    <3>3. Db(p)' = Migrate(db)
      BY <1>1, <2>4, <3>1, <3>2 DEF Db, Filling
    <3>4. /\ Migrate(db).made /\ Migrate(db).rows = db.rows /\ Migrate(db).comps = db.comps
          /\ Migrate(db).mols = db.mols
      BY <2>4, <3>1 DEF Filling, Dbs, Migrate
    <3> QED
      BY <2>1, <2>2, <3>1, <3>2, <3>3, <3>4 DEF Labelled, RebuildProgress
  <2>12. CASE InsertSpec(p)
    <3>1. q.pc = "row" /\ q.h # 0 /\ q.h \in Files /\ db \in Dbs
      BY <1>1, <2>4, <2>12 DEF Departs, Filling
    <3>2. CASE proc' = [proc EXCEPT ![p].pc = "failed"] /\ \E s \in q.todo : ~CanInsertSpec(db, s)
      <4>1. q.late
        BY <2>2, <2>3, <3>1, <3>2, RowProgress
      <4> QED
        BY <1>1, <2>1, <3>2, <4>1 DEF Labelled, ProcTypes
    <3>3. ASSUME NEW s \in q.todo, disk' = [disk EXCEPT ![q.h] = WithSpec(db, s)],
                 proc' = [proc EXCEPT ![p] = [q EXCEPT !.spec = s, !.todo = q.todo \ {s}, !.left = q.seen[s], !.pc = "companions"]]
          PROVE  Goal
      <4> DEFINE q2 == [q EXCEPT !.spec = s, !.todo = q.todo \ {s}, !.left = q.seen[s], !.pc = "companions"]
      <4>1. proc'[p] = q2 /\ Db(p)' = WithSpec(db, s)
        BY <1>1, <3>1, <3>3 DEF Db, ProcTypes
      <4>2. ~q.late => RebuildProgress(q2, WithSpec(db, s))
        BY <2>2, <2>3, <3>1, <3>3, RowProgress
      <4>3. q2.fetched = q.fetched
        BY <2>3 DEF ProcTypes
      <4> HIDE DEF q2
      <4> QED
        BY <2>1, <2>2, <3>1, <4>1, <4>2, <4>3 DEF Labelled
    <3> QED
      BY <1>1, <2>12, <3>2, <3>3, InsertSpecDoes
  <2>13. CASE InsertCompanion(p)
    <3>1. q.pc = "companions" /\ q.h # 0 /\ q.h \in Files /\ db \in Dbs
      BY <1>1, <2>4, <2>13 DEF Departs, Filling
    <3>2. CASE proc' = [proc EXCEPT ![p].pc = "failed"] /\ ~CanInsertCompanion(db, q.spec)
      <4>1. q.late
        BY <2>2, <2>3, <3>1, <3>2, CompanionProgress
      <4> QED
        BY <1>1, <2>1, <3>2, <4>1 DEF Labelled, ProcTypes
    <3>3. CASE proc' = [proc EXCEPT ![p].pc = "row"] /\ disk' = disk /\ q.left = {}
      <4> DEFINE q2 == [q EXCEPT !.pc = "row"]
      <4>1. proc'[p] = q2 /\ Db(p)' = db
        BY <1>1, <3>1, <3>3 DEF Db, ProcTypes
      <4>2. ~q.late => RebuildProgress(q2, db)
        BY <2>2, <2>3, <3>1, <3>3, CompanionProgress
      <4>3. q2.fetched = q.fetched
        BY <2>3 DEF ProcTypes
      <4> HIDE DEF q2
      <4> QED
        BY <2>1, <2>2, <3>1, <4>1, <4>2, <4>3 DEF Labelled
    <3>4. ASSUME NEW c \in q.left,
                 disk' = [disk EXCEPT ![q.h] = WithCompanion(db, q.spec, c)],
                 proc' = [proc EXCEPT ![p] = [q EXCEPT !.left = q.left \ {c}]]
          PROVE  Goal
      <4> DEFINE q2 == [q EXCEPT !.left = q.left \ {c}]
      <4>1. proc'[p] = q2 /\ Db(p)' = WithCompanion(db, q.spec, c)
        BY <1>1, <3>1, <3>4 DEF Db, ProcTypes
      <4>2. ~q.late => RebuildProgress(q2, WithCompanion(db, q.spec, c))
        BY <2>2, <2>3, <3>1, <3>4, CompanionProgress
      <4>3. q2.fetched = q.fetched
        BY <2>3 DEF ProcTypes
      <4> HIDE DEF q2
      <4> QED
        BY <2>1, <2>2, <3>1, <4>1, <4>2, <4>3 DEF Labelled
    <3> QED
      BY <1>1, <2>13, <3>2, <3>3, <3>4, InsertCompanionDoes
  <2>14. CASE BeginMolecules(p)
    <3>1. /\ q.pc = "row" /\ q.h # 0 /\ q.h \in Files /\ db \in Dbs /\ q.todo = {}
      BY <1>1, <2>4, <2>14 DEF Departs, Filling, BeginMolecules
    <3> DEFINE q2 == [q EXCEPT !.mols = Kept(q.fetched, q.seen), !.pc = "molecules"]
    <3>2. proc' = [proc EXCEPT ![p] = q2] /\ disk' = disk
      BY <1>1, <2>14 DEF BeginMolecules, ProcTypes
    <3>3. q2.h = q.h /\ q2.fetched = q.fetched
      BY <2>3 DEF ProcTypes
    <3>4. ~q.late => RebuildProgress(q2, db)
      BY <2>2, <2>3, <3>1, MoleculesProgress
    <3> HIDE DEF q2
    <3>5. proc'[p] = q2 /\ Db(p)' = db
      BY <1>1, <3>2, <3>3 DEF Db
    <3> QED
      BY <2>1, <2>2, <3>1, <3>3, <3>4, <3>5 DEF Labelled
  <2>15. CASE InsertMolecule(p)
    <3>1. q.pc = "molecules" /\ q.h # 0 /\ q.h \in Files /\ db \in Dbs
      BY <1>1, <2>4, <2>15 DEF Departs, Filling
    <3>2. PICK m \in q.mols :
           \/ proc' = [proc EXCEPT ![p].pc = "failed"] /\ disk' = disk /\ ~CanInsertMol(db, m)
           \/ /\ CanInsertMol(db, m)
              /\ disk' = [disk EXCEPT ![q.h] = WithMol(db, m)]
              /\ proc' = [proc EXCEPT ![p] = [q EXCEPT !.mols = q.mols \ {m}]]
      BY <2>15, InsertMoleculeDoes
    <3>3. CASE proc' = [proc EXCEPT ![p].pc = "failed"] /\ ~CanInsertMol(db, m)
      <4>1. q.late
        BY <2>2, <2>3, <3>1, <3>3, MoleculeProgress
      <4> QED
        BY <1>1, <2>1, <3>3, <4>1 DEF Labelled, ProcTypes
    <3>4. CASE /\ disk' = [disk EXCEPT ![q.h] = WithMol(db, m)]
               /\ proc' = [proc EXCEPT ![p] = [q EXCEPT !.mols = q.mols \ {m}]]
      <4> DEFINE q2 == [q EXCEPT !.mols = q.mols \ {m}]
      <4>1. proc'[p] = q2 /\ Db(p)' = WithMol(db, m)
        BY <1>1, <3>1, <3>4 DEF Db, ProcTypes
      <4>2. ~q.late => RebuildProgress(q2, WithMol(db, m))
        BY <2>2, <2>3, <3>1, <3>4, MoleculeProgress
      <4>3. q2.fetched = q.fetched
        BY <2>3 DEF ProcTypes
      <4> HIDE DEF q2
      <4> QED
        BY <2>1, <2>2, <3>1, <4>1, <4>2, <4>3 DEF Labelled
    <3> QED
      BY <3>2, <3>3, <3>4
  <2>16. CASE RebuildReport(p)
    <3>1. /\ proc' = [proc EXCEPT ![p].pc = "rebuilt"] /\ q.pc = "molecules" /\ q.mols = {} /\ disk' = disk
      BY <2>16 DEF RebuildReport, Goto, At
    <3>2. /\ proc'[p].pc = "rebuilt" /\ proc'[p].mols = q.mols /\ proc'[p].seen = q.seen
          /\ proc'[p].fetched = q.fetched /\ proc'[p].h = q.h
      BY <1>1, <3>1 DEF ProcTypes
    <3>3. Db(p)' = db
      BY <3>1, <3>2 DEF Db
    <3> QED
      BY <2>1, <2>2, <3>1, <3>2, <3>3 DEF Labelled, RebuildProgress
  <2> QED
    BY <1>1, <1>3, <2>1, <2>6, <2>7, <2>8, <2>9, <2>10, <2>11, <2>12, <2>13, <2>14,
       <2>15, <2>16, RebuildSteps
<1> QED
  BY <1>2, <1>3

(* A step preserves RebuildsProgress.                                      *)
LEMMA RebuildsProgressStep ==
  ASSUME NEW p \in Procs, TypeOK, PlacesFit, LocksHeld, KeptApart, Connections,
         RebuildsProgress, Step(p)
  PROVE  RebuildsProgress'
  BY OwnProgress, OthersProgress DEF RebuildsProgress

(***************************************************************************)
(* replace_companions: the rows a plan has written                         *)
(***************************************************************************)
(* The statements of replace_companions add the row of their spec, and     *)
(* change the companions of no other spec.                                 *)
LEMMA PlanWrites ==
  ASSUME NEW p \in Procs, TypeOK, PlacesFit, LocksHeld, Connections, NEW f \in Files
  PROVE  /\ UpsertSpec(p) => /\ disk'[f].rows = disk[f].rows \/ disk'[f].rows = disk[f].rows \cup {proc[p].spec}
                             /\ disk'[f].comps = disk[f].comps
         /\ UpsertSpec(p) /\ proc'[p].pc = "delete" /\ f = proc[p].h => proc[p].spec \in disk'[f].rows
         /\ DeleteCompanions(p) \/ InsertDeclared(p) =>
              /\ disk'[f].rows = disk[f].rows
              /\ \A s \in Specs \ {proc[p].spec} : disk'[f].comps[s] = disk[f].comps[s]
<1>1. proc \in [Procs -> ProcTypes] /\ disk \in [Files -> Dbs] /\ Departs(p) /\ PlaceFits(p)
  BY Departures DEF TypeOK, ProcTypes, PlacesFit
<1>2. proc[p].pc \in {"upsert", "delete", "insert"} => proc[p].h \in Files /\ Db(p) \in Dbs
  BY <1>1 DEF Connections, ProcTypes, Db
<1>3. ASSUME UpsertSpec(p)
      PROVE  /\ disk'[f].rows = disk[f].rows \/ disk'[f].rows = disk[f].rows \cup {proc[p].spec}
             /\ disk'[f].comps = disk[f].comps
             /\ proc'[p].pc = "delete" /\ f = proc[p].h => proc[p].spec \in disk'[f].rows
  <2>1. proc[p].h \in Files
    BY <1>1, <1>2, <1>3 DEF Departs
  <2> QED
    BY <1>1, <1>3, <2>1 DEF UpsertSpec, Statement, Goto, WithSpec, Db, Dbs, ProcTypes
<1>4. ASSUME DeleteCompanions(p)
      PROVE  /\ disk'[f].rows = disk[f].rows
             /\ \A s \in Specs \ {proc[p].spec} : disk'[f].comps[s] = disk[f].comps[s]
  <2>1. proc[p].h \in Files
    BY <1>1, <1>2, <1>4 DEF Departs
  <2> QED
    BY <1>1, <1>4, <2>1 DEF DeleteCompanions, Statement, Goto, WithoutCompanions, Db,
           Dbs
<1>5. ASSUME InsertDeclared(p)
      PROVE  /\ disk'[f].rows = disk[f].rows
             /\ \A s \in Specs \ {proc[p].spec} : disk'[f].comps[s] = disk[f].comps[s]
  <2>1. proc[p].h \in Files
    BY <1>1, <1>2, <1>5 DEF Departs
  <2>2. CASE disk' = disk
    BY <2>2
  <2>3. ASSUME NEW c \in proc[p].left,
               disk' = [disk EXCEPT ![proc[p].h] = WithCompanion(Db(p),
               proc[p].spec, c)]
        PROVE  /\ disk'[f].rows = disk[f].rows
               /\ \A s \in Specs \ {proc[p].spec} : disk'[f].comps[s] = disk[f].comps[s]
    BY <1>1, <2>1, <2>3 DEF WithCompanion, Db, Dbs
  <2> QED
    BY <1>5, <2>2, <2>3, InsertDeclaredDoes
<1> QED
  BY <1>3, <1>4, <1>5

(* Where a plan is unmarked, nobody is a rebuild that writes.              *)
LEMMA WritersAreApart ==
  ASSUME NEW p \in Procs, PlacesFit, LocksHeld, KeptApart, NEW q \in Procs, Planning(q),
         ~proc[q].late
  PROVE  /\ ~Inside(p) /\ ~DropTables(p) /\ ~InsertSpec(p) /\ ~InsertCompanion(p) /\ ~InsertMolecule(p)
<1>1. ~Inside(p)
  <2>1. Inside(p) => p \in Rebuilding
    BY DEF Inside, Rebuilding, Filling
  <2> QED
    BY <2>1 DEF KeptApart
<1> QED
  BY <1>1, Departures DEF Departs, PlacesFit, PlaceFits, Inside, Filling

(* A step of another process leaves alone what a plan has written, unless  *)
(* the plan is marked.                                                     *)
LEMMA OthersPlan ==
  ASSUME NEW p \in Procs, TypeOK, PlacesFit, LocksHeld, KeptApart, Connections,
         PlansProgress,
         Step(p), NEW q \in Procs \ {p}
  PROVE  PlanProgress(proc[q], Db(q))'
<1>1. /\ Effects(p) /\ proc \in [Procs -> ProcTypes] /\ Departs(p) /\ Keeps(q)
      /\ disk \in [Files -> Dbs] /\ PlaceFits(p) /\ PlaceFits(q)
  BY AllEffects, Departures DEF TypeOK, Effects, PlacesFit
<1>2. PlanProgress(proc[q], Db(q))
  BY DEF PlansProgress
<1>3. CASE proc[q].late \/ proc[q].pc \notin {"delete", "insert"}
  BY <1>1, <1>2, <1>3 DEF Keeps, PlanProgress
<1>4. CASE ~proc[q].late /\ proc[q].pc \in {"delete", "insert"}
  <2>1. Planning(q) /\ proc[q].h \in Files /\ proc[q].spec \in Specs /\ lock[proc[q].spec] = q
    BY <1>1, <1>4 DEF Planning, Active, PlaceFits, Connections, ProcTypes, LocksHeld
  <2> DEFINE f == proc[q].h
             s == proc[q].spec
  <2>2. Tables(p, f)
    BY <1>1, <2>1 DEF Effects, InUse
  <2>3. DeleteCompanions(p) \/ InsertDeclared(p) => proc[p].spec # s
    BY <1>1, <2>1 DEF Departs, PlaceFits, LocksHeld, Active
  <2>4. ~DropTables(p) /\ ~InsertSpec(p) /\ ~InsertCompanion(p)
    BY <1>4, <2>1, WritersAreApart
  <2>5. s \in disk[f].rows => s \in disk'[f].rows
    BY <2>1, <2>2, <2>4, PlanWrites DEF Tables
  <2>6. disk'[f].comps[s] = disk[f].comps[s]
    BY <2>1, <2>2, <2>3, <2>4, PlanWrites DEF Tables
  <2> QED
    BY <1>1, <1>2, <2>5, <2>6 DEF Keeps, PlanProgress, Db
<1> QED
  BY <1>3, <1>4

(* A plan's own step keeps the account of what it has written: the         *)
(* companions of the file read in ReadSpec, less those still to insert.    *)
LEMMA OwnPlan ==
  ASSUME NEW p \in Procs, TypeOK, PlacesFit, LocksHeld, KeptApart, Connections,
         PlansProgress, Step(p)
  PROVE  PlanProgress(proc[p], Db(p))'
<1>1. /\ Effects(p) /\ proc \in [Procs -> ProcTypes] /\ Departs(p) /\ Arrives(p) /\ Memory(p)
      /\ disk \in [Files -> Dbs] /\ PlaceFits(p) /\ PlanProgress(proc[p], Db(p)) /\ file \in [Specs -> Contents]
  BY AllEffects, Departures DEF TypeOK, Effects, PlacesFit, PlansProgress
<1> DEFINE Goal == PlanProgress(proc[p], Db(p))'
<1>2. CASE proc'[p].pc \notin {"upsert", "delete", "insert"}
  BY <1>2 DEF PlanProgress
<1>3. CASE ReadSpec(p)
  <2>1. proc[p].spec \in Specs
    BY <1>1, <1>3 DEF Departs, PlaceFits, LocksHeld, Active
  <2> DEFINE s == proc[p].spec
             left == IF file[s] = NoFile THEN {} ELSE file[s]
             x == IF file[s] = NoFile THEN "failed" ELSE "upsert"
  <2>2. proc' = [proc EXCEPT ![p].seen[s] = file[s], ![p].left = left, ![p].pc = x]
    BY <1>3 DEF ReadSpec
  <2>3. x = "upsert" => left = file[s] /\ file[s] # NoFile
    OBVIOUS
  <2>4. x \in {"upsert", "failed"}
    OBVIOUS
  <2> HIDE DEF x, left, s
  <2>5. s \in Specs
    BY <2>1 DEF s
  <2>6. proc'[p].seen[s] = file[s] /\ proc'[p].left = left /\ proc'[p].pc = x /\ proc'[p].spec = proc[p].spec
    BY <1>1, <2>2, <2>5 DEF ProcTypes
  <2> QED
    BY <2>3, <2>4, <2>6 DEF PlanProgress, s
<1>4. CASE proc'[p].pc \in {"upsert", "delete", "insert"} /\ ~ReadSpec(p)
  <2>1. proc[p].pc \in {"upsert", "delete", "insert"} /\ ~End(p)
    BY <1>1, <1>4, Ending DEF Arrives, Departs
  <2>2. /\ proc[p].cmd \in Plans /\ proc[p].spec \in Specs /\ proc[p].h \in Files
    BY <1>1, <2>1 DEF PlaceFits, LocksHeld, Active, Connections, ProcTypes
  <2>3. /\ proc'[p].spec = proc[p].spec /\ proc'[p].late = proc[p].late
        /\ proc'[p].seen = proc[p].seen /\ proc'[p].h = proc[p].h
    BY <1>1, <1>4, <2>1, <2>2, Staying DEF Memory, Begins, Departs
  <2>4. CASE UpsertSpec(p)
    <3>0. proc[p].pc = "upsert"
      BY <1>1, <2>4 DEF Departs
    <3>1. proc'[p].pc = "delete" /\ proc'[p].left = proc[p].left /\ proc[p].pc = "upsert"
      BY <1>1, <1>4, <2>4, <3>0 DEF Departs, Memory, Begins, UpsertSpec, Statement,
             Goto, ProcTypes
    <3>2. proc[p].spec \in Db(p)'.rows
      BY <2>2, <2>3, <2>4, <3>1, PlanWrites DEF Db
    <3> QED
      BY <1>1, <2>3, <3>1, <3>2 DEF PlanProgress
  <2>5. CASE DeleteCompanions(p)
    <3>0. proc[p].pc = "delete"
      BY <1>1, <2>5 DEF Departs
    <3>1. /\ proc'[p].pc = "insert" /\ proc'[p].left = proc[p].left
      BY <1>1, <1>4, <2>5, <3>0 DEF Departs, Memory, Begins, DeleteCompanions,
             Statement, Goto, ProcTypes
    <3>2. disk' = [disk EXCEPT ![proc[p].h] = WithoutCompanions(Db(p), proc[p].spec)]
      BY <1>1, <1>4, <2>5, <3>0 DEF DeleteCompanions, Statement, Goto, ProcTypes
    <3>3. Db(p)'.rows = Db(p).rows /\ Db(p)'.comps[proc[p].spec] = {}
      BY <1>1, <2>2, <2>3, <3>2 DEF Db, WithoutCompanions, Dbs
    <3> QED
      BY <1>1, <2>3, <3>0, <3>1, <3>3 DEF PlanProgress
  <2>6. CASE InsertDeclared(p)
    <3>0. proc[p].pc = "insert"
      BY <1>1, <2>6 DEF Departs
    <3>1. proc'[p].pc # "failed"
      BY <1>4
    <3>2. PICK c \in proc[p].left :
              /\ disk' = [disk EXCEPT ![proc[p].h] = WithCompanion(Db(p), proc[p].spec, c)]
              /\ proc' = [proc EXCEPT ![p] = [proc[p] EXCEPT !.left = proc[p].left \ {c}]]
      <4>1. proc' # [proc EXCEPT ![p].pc = "failed"]
        BY <1>1, <3>1 DEF ProcTypes
      <4> QED
        BY <2>6, <4>1, InsertDeclaredDoes
    <3>3. proc'[p].left = proc[p].left \ {c} /\ proc'[p].pc = "insert"
      BY <1>1, <3>0, <3>2 DEF ProcTypes
    <3>4. /\ Db(p)'.rows = Db(p).rows
          /\ Db(p)'.comps[proc[p].spec] = Db(p).comps[proc[p].spec] \cup {c}
      BY <1>1, <2>2, <2>3, <3>2 DEF Db, WithCompanion, Dbs
    <3> QED
      BY <1>1, <2>3, <3>0, <3>2, <3>3, <3>4 DEF PlanProgress
  <2>7. CASE ~UpsertSpec(p) /\ ~DeleteCompanions(p) /\ ~InsertDeclared(p)
    <3>1. proc'[p].pc = proc[p].pc /\ proc'[p].left = proc[p].left
      BY <1>1, <1>4, <2>1, <2>7 DEF Departs, Arrives, Memory, Begins
    <3>2. Tables(p, proc[p].h)
      BY <1>1, <2>1, <2>2 DEF Effects, InUse
    <3>3. ~DropTables(p) /\ ~InsertSpec(p) /\ ~InsertCompanion(p)
      BY <1>1, <2>1 DEF Departs
    <3>4. Db(p)'.rows = Db(p).rows /\ Db(p)'.comps = Db(p).comps
      BY <2>3, <2>7, <3>2, <3>3 DEF Tables, Db
    <3> QED
      BY <1>1, <2>3, <3>1, <3>4 DEF PlanProgress
  <2> QED
    BY <2>4, <2>5, <2>6, <2>7
<1> QED
  BY <1>2, <1>3, <1>4

(* A step preserves PlansProgress.                                         *)
LEMMA PlansProgressStep ==
  ASSUME NEW p \in Procs, TypeOK, PlacesFit, LocksHeld, KeptApart, Connections,
         PlansProgress, Step(p)
  PROVE  PlansProgress'
  BY OwnPlan, OthersPlan DEF PlansProgress

(***************************************************************************)
(* What was reported stays in the database                                 *)
(***************************************************************************)
(* RowsAsReported, for one spec.                                           *)
Reported(s) == promise[s] # Unknown =>
    /\ path # 0 /\ disk[path].made
    /\ Rows(disk[path], s) = promise[s]
    /\ promise[s] = NoFile => disk[path].comps[s] = {}

(* A step preserves RowsAsReported: what is promised is written by nobody, *)
(* and a rebuild or plan that reports has the rows it promises in the file *)
(* under the path.                                                         *)
LEMMA RowsAsReportedStep ==
  ASSUME NEW p \in Procs, TypeOK, PlacesFit, LocksHeld, KeptApart, Connections, TablesThere,
         NoPromiseInWork, RebuildsProgress, PlansProgress, RowsAsReported, Step(p)
  PROVE  RowsAsReported'
<1>1. /\ Effects(p) /\ proc \in [Procs -> ProcTypes] /\ Departs(p) /\ disk \in [Files -> Dbs]
      /\ path \in Files \cup {0} /\ PlaceFits(p) /\ Shares(p)
      /\ promise \in [Specs -> Contents \cup {Unknown}]
  BY AllEffects, Departures DEF TypeOK, Effects, PlacesFit
<1>2. ASSUME NEW s \in Specs, promise'[s] = promise[s], ~Recreate(p) PROVE Reported(s)'
  <2>1. Reported(s)
    BY DEF RowsAsReported, Reported
  <2>2. SUFFICES ASSUME promise[s] # Unknown PROVE Reported(s)'
    BY <1>2 DEF Reported
  <2>3. path # 0 /\ path \in Files /\ path' = path
    BY <1>1, <1>2, <2>1, <2>2, Opening DEF Shares, Reported
  <2>4. ~(proc[p].cmd = "rebuild" /\ proc[p].pc \in Filling)
    BY <2>2 DEF NoPromiseInWork
  <2>5. ~DropTables(p) /\ ~InsertSpec(p) /\ ~InsertCompanion(p)
    BY <1>1, <2>4 DEF Departs, PlaceFits, Filling
  <2>6. Tables(p, path)
    BY <1>1, <2>3 DEF Effects, InUse
  <2>7. DeleteCompanions(p) \/ InsertDeclared(p) => proc[p].spec # s
    <3>1. CASE proc[p].pc = "insert"
      BY <2>2, <3>1 DEF NoPromiseInWork
    <3>2. CASE proc[p].pc = "delete"
      BY <2>2, <3>2 DEF NoPromiseInWork
    <3> QED
      BY <1>1, <3>1, <3>2 DEF Departs
  <2>8. UpsertSpec(p) => proc[p].spec # s
    <3>1. ASSUME UpsertSpec(p) PROVE promise' = [promise EXCEPT ![proc[p].spec] = Unknown]
      BY <3>1 DEF UpsertSpec
    <3> QED
      BY <1>1, <1>2, <2>2, <3>1
  <2>9. /\ disk'[path].made \/ ~disk[path].made
        /\ s \in disk'[path].rows <=> s \in disk[path].rows
        /\ disk'[path].comps[s] = disk[path].comps[s]
    BY <2>3, <2>5, <2>6, <2>7, <2>8, PlanWrites DEF Tables
  <2> QED
    BY <1>2, <2>1, <2>2, <2>3, <2>9 DEF Reported, Rows
<1>3. CASE Recreate(p)
  BY <1>3 DEF Recreate, RowsAsReported
<1>4. CASE promise' = promise /\ ~Recreate(p)
  BY <1>2, <1>4 DEF RowsAsReported, Reported
<1>5. CASE UpsertSpec(p) /\ ~Recreate(p)
  <2>1. promise' = [promise EXCEPT ![proc[p].spec] = Unknown]
    BY <1>5 DEF UpsertSpec
  <2>2. ASSUME NEW s \in Specs PROVE Reported(s)'
    <3>1. CASE s = proc[p].spec
      BY <1>1, <2>1, <3>1 DEF Reported
    <3>2. CASE s # proc[p].spec
      BY <1>1, <1>2, <1>5, <2>1, <3>2
    <3> QED
      BY <3>1, <3>2
  <2> QED
    BY <2>2 DEF RowsAsReported, Reported
<1>6. CASE RebuildReport(p) /\ promise' # promise
  <2>1. /\ ~proc[p].late /\ promise' = proc[p].seen /\ disk' = disk /\ path' = path
        /\ proc[p].mols = {} /\ proc[p].pc = "molecules" /\ proc[p].cmd = "rebuild"
    BY <1>1, <1>6 DEF RebuildReport, Departs, PlaceFits, Filling
  <2>2. proc[p].h = path /\ path # 0
    BY <2>1 DEF Connections, Connected, Filling
  <2>3. RebuildProgress(proc[p], disk[path])
    BY <2>1, <2>2 DEF RebuildsProgress, Db
  <2>4. /\ disk[path].made /\ disk[path].rows = Declared(proc[p].seen)
        /\ \A s \in Specs : disk[path].comps[s] = IF s \in Declared(proc[p].seen) THEN proc[p].seen[s] ELSE {}
    BY <2>1, <2>3 DEF RebuildProgress
  <2> QED
    BY <2>1, <2>2, <2>4 DEF RowsAsReported, Rows, Declared
<1>7. CASE PlanReport(p) /\ promise' # promise
  <2>1. /\ ~proc[p].late /\ promise' = [promise EXCEPT ![proc[p].spec] = proc[p].seen[proc[p].spec]]
        /\ disk' = disk /\ path' = path
        /\ proc[p].left = {} /\ proc[p].pc = "insert" /\ Planning(p) /\ ~Recreate(p)
    BY <1>1, <1>7 DEF PlanReport, Departs, PlaceFits, Planning, Active
  <2>2. proc[p].h = path /\ path # 0 /\ disk[path].made /\ proc[p].spec \in Specs
    BY <2>1 DEF Connections, TablesThere, Db, LocksHeld, Planning
  <2>3. PlanProgress(proc[p], disk[path])
    BY <2>2 DEF PlansProgress, Db
  <2>4. /\ proc[p].spec \in disk[path].rows
        /\ disk[path].comps[proc[p].spec] = proc[p].seen[proc[p].spec]
        /\ proc[p].seen[proc[p].spec] # NoFile
    <3>1. proc[p].seen[proc[p].spec] \ {} = proc[p].seen[proc[p].spec]
      <4>1. proc[p].seen[proc[p].spec] # NoFile /\ proc[p].seen[proc[p].spec] \in Contents
        BY <1>1, <2>1, <2>2, <2>3 DEF PlanProgress, ProcTypes
      <4> QED
        BY <4>1 DEF Contents
    <3> QED
      BY <2>1, <2>3, <3>1 DEF PlanProgress
  <2>5. ASSUME NEW s \in Specs PROVE Reported(s)'
    <3>1. CASE s = proc[p].spec
      <4>1. promise'[s] = proc[p].seen[s]
        BY <1>1, <2>1, <3>1
      <4> QED
        BY <2>1, <2>2, <2>4, <3>1, <4>1 DEF Reported, Rows
    <3>2. CASE s # proc[p].spec
      BY <1>1, <1>2, <2>1, <3>2
    <3> QED
      BY <3>1, <3>2
  <2> QED
    BY <2>5 DEF RowsAsReported, Reported
<1> QED
  BY <1>1, <1>3, <1>4, <1>5, <1>6, <1>7 DEF Shares

(***************************************************************************)
(* Types                                                                   *)
(***************************************************************************)
(* A step preserves TodoDeclared.                                          *)
LEMMA TodoDeclaredStep ==
  ASSUME NEW p \in Procs, TypeOK, PlacesFit, LocksHeld, TodoDeclared, Step(p)
  PROVE  TodoDeclared'
<1> DEFINE Held(q) == proc[q].pc \in {"drop", "create", "row", "companions"} =>
                        proc[q].todo \subseteq Declared(proc[q].seen)
<1>1. Effects(p) /\ proc \in [Procs -> ProcTypes] /\ Departs(p) /\ PlaceFits(p)
  BY AllEffects, Departures DEF PlacesFit
<1>2. ASSUME NEW q \in Procs \ {p} PROVE Held(q)'
  BY <1>1, <1>2 DEF TodoDeclared, Effects, Keeps
<1>3. Held(p)'
  <2>1. SUFFICES ASSUME proc'[p].pc \in {"drop", "create", "row", "companions"} PROVE Held(p)'
    OBVIOUS
  <2>2. ~End(p)
    BY <1>1, <2>1, Ending
  <2>3. CASE CollectSpecFiles(p)
    BY <1>1, <2>3 DEF CollectSpecFiles, Declared, ProcTypes
  <2>4. CASE ~CollectSpecFiles(p)
    <3>1. proc[p].pc \in {"drop", "create", "row", "companions"}
      BY <1>1, <2>1, <2>4 DEF Effects, Arrives, Departs
    <3>2. proc'[p].seen = proc[p].seen
      BY <1>1, <2>2, <2>4, <3>1 DEF Effects, Memory, Begins, Departs
    <3>3. proc'[p].todo = proc[p].todo \/ InsertSpec(p)
      BY <1>1, <2>2, <2>4, <3>1 DEF Effects, Memory, Begins, Departs
    <3>4. ASSUME InsertSpec(p) PROVE proc'[p].todo \subseteq proc[p].todo
      <4>1. CASE proc' = [proc EXCEPT ![p].pc = "failed"]
        BY <1>1, <4>1 DEF ProcTypes
      <4>2. ASSUME NEW s \in proc[p].todo,
                   proc' = [proc EXCEPT ![p] = [proc[p] EXCEPT !.spec = s, !.todo = proc[p].todo \ {s},
                                              !.left = proc[p].seen[s], !.pc = "companions"]]
            PROVE  proc'[p].todo \subseteq proc[p].todo
        BY <1>1, <4>2 DEF ProcTypes
      <4> QED
        BY <1>1, <3>4, <4>1, <4>2, InsertSpecDoes
    <3> QED
      BY <3>1, <3>2, <3>3, <3>4 DEF TodoDeclared
  <2> QED
    BY <2>3, <2>4
<1> QED
  BY <1>2, <1>3 DEF TodoDeclared

(* A spec file is missing, or declares a set of companions.                *)
LEMMA ContentsAre ==
  /\ NoFile \in Contents
  /\ \A c \in Contents : c = NoFile \/ c \in SUBSET Companions
  BY DEF Contents

(* An idle process has the type of a process.                              *)
LEMMA IdleTyped == Idle \in ProcTypes
<1>1. [s \in Specs |-> NoFile] \in [Specs -> Contents]
  BY ContentsAre
<1>2. "look" \in Commands
  BY DEF Commands
<1> QED
  BY <1>1, <1>2 DEF Idle, ProcTypes

(* A step leaves processes that have their type.                           *)
LEMMA ProcTyped ==
  ASSUME NEW p \in Procs, proc \in [Procs -> ProcTypes],
         path \in Files \cup {0}, file \in [Specs -> Contents],
         disk \in [Files -> Dbs],
         proc[p].pc \in {"drop", "create", "row", "companions"} => proc[p].todo \subseteq Declared(proc[p].seen),
         proc[p].pc = "reconcile" => proc[p].spec \in Specs,
         proc[p].pc = "current" => proc[p].h # 0,
         Step(p)
  PROVE  proc' \in [Procs -> ProcTypes]
<1>0. proc[p] \in ProcTypes
  OBVIOUS
<1>00. \A x \in Places : [proc[p] EXCEPT !.pc = x] \in ProcTypes
  BY <1>0 DEF ProcTypes, Places
<1>1. ASSUME NEW cmd \in {"init", "rebuild"}, StartInit(p, cmd)
      PROVE proc' \in [Procs -> ProcTypes]
  <2> DEFINE x == IF cmd = "rebuild" THEN "fetch" ELSE "list"
  <2>1. proc' = [proc EXCEPT ![p] = [Idle EXCEPT !.cmd = cmd, !.pc = x]]
    BY <1>1 DEF StartInit
  <2>2. x \in Places /\ cmd \in Commands
    BY DEF Places, Commands
  <2> HIDE DEF x
  <2>3. [Idle EXCEPT !.cmd = cmd, !.pc = x] \in ProcTypes
    BY <2>2, IdleTyped DEF ProcTypes, Places
  <2> QED
    BY <2>1, <2>3
<1>2. ASSUME NEW cmd \in Plans \cup {"use"}, NEW s \in Specs, StartSpecScoped(p, cmd, s)
      PROVE proc' \in [Procs -> ProcTypes]
  <2> DEFINE x == Rebuilding # {}
             q2 == [Idle EXCEPT !.cmd = cmd, !.spec = s, !.pc = "open", !.late = x]
  <2>1. proc' = [q \in Procs |-> IF q = p THEN q2
                   ELSE [proc[q] EXCEPT !.late = proc[q].late \/ (q \in Rebuilding /\ cmd \in Plans)]]
    BY <1>2 DEF StartSpecScoped
  <2>2. x \in BOOLEAN /\ cmd \in Commands
    BY DEF Commands, Plans
  <2> HIDE DEF x
  <2>3. q2 \in ProcTypes
    BY <2>2, IdleTyped DEF ProcTypes
  <2> HIDE DEF q2
  <2>4. ASSUME NEW q \in Procs
        PROVE  [proc[q] EXCEPT !.late = proc[q].late \/ (q \in Rebuilding /\ cmd \in Plans)] \in ProcTypes
    <3> DEFINE y == proc[q].late \/ (q \in Rebuilding /\ cmd \in Plans)
    <3>1. y \in BOOLEAN
      <4>1. proc[q] \in ProcTypes
        OBVIOUS
      <4>2. proc[q].late \in BOOLEAN
        BY <4>1 DEF ProcTypes
      <4> QED
        BY <4>2, Zenon
    <3> HIDE DEF y
    <3>2. proc[q] \in ProcTypes
      OBVIOUS
    <3>3. [proc[q] EXCEPT !.late = y] \in ProcTypes
      BY ONLY <3>1, <3>2 DEF ProcTypes
    <3> QED
      BY <3>3 DEF y
  <2> QED
    BY <2>1, <2>3, <2>4
<1>3. ASSUME StartLook(p) PROVE proc' \in [Procs -> ProcTypes]
  <2>1. [Idle EXCEPT !.pc = "open"] \in ProcTypes
    BY IdleTyped DEF ProcTypes
  <2> QED
    BY <1>3, <2>1 DEF StartLook
<1>4. ASSUME Fetch(p) PROVE proc' \in [Procs -> ProcTypes]
  <2>1. PICK active \in SUBSET Mols, x \in {"failed", "list"} :
          proc' = [proc EXCEPT ![p].fetched = active, ![p].pc = x]
    BY <1>4, FetchDoes
  <2>2. [proc[p] EXCEPT !.fetched = active, !.pc = x] \in ProcTypes
    BY <1>0 DEF ProcTypes
  <2> QED
    BY <2>1, <2>2
<1>5. ASSUME ListLocks(p) PROVE proc' \in [Procs -> ProcTypes]
  <2>1. [proc[p] EXCEPT !.unprobed = Specs, !.pc = "probe"] \in ProcTypes
    BY <1>0 DEF ProcTypes
  <2> QED
    BY <1>5, <2>1 DEF ListLocks
<1>6. ASSUME NEW s \in Specs, Probe(p, s) PROVE proc' \in [Procs -> ProcTypes]
  <2>1. [proc[p] EXCEPT !.unprobed = proc[p].unprobed \ {s}] \in ProcTypes
    BY <1>0 DEF ProcTypes
  <2>2. CASE proc' = [proc EXCEPT ![p].pc = "failed"]
    BY <1>00, <2>2 DEF Places
  <2>3. proc' = [proc EXCEPT ![p].pc = "failed"] \/ proc' = [proc EXCEPT ![p].unprobed = proc[p].unprobed \ {s}]
    BY <1>6, Zenon DEF Probe, Goto
  <2> QED
    BY <1>6, <2>1, <2>2, <2>3
<1>7. ASSUME TakeWorkspace(p) \/ Recreate(p) PROVE proc' \in [Procs -> ProcTypes]
  <2>1. PICK x \in {"recreate", "open", "failed"} : proc' = [proc EXCEPT ![p].pc = x]
    BY <1>7 DEF TakeWorkspace, Recreate, Goto
  <2> QED
    BY <1>00, <2>1 DEF Places
<1>8. ASSUME Open(p) PROVE proc' \in [Procs -> ProcTypes]
  <2> DEFINE f == path'
             x == AfterOpen(proc[p].cmd)
  <2>1. f \in Files /\ x \in {"done", "collect", "load", "write", "current"}
    BY <1>8, Opening, OpensAt
  <2>2. proc' = [proc EXCEPT ![p].h = f, ![p].pc = x]
    BY <1>8, OpenDoes
  <2> HIDE DEF f, x
  <2>3. [proc[p] EXCEPT !.h = f, !.pc = x] \in ProcTypes
    BY <1>0, <2>1 DEF ProcTypes
  <2> QED
    BY <2>2, <2>3
<1>9. ASSUME CollectSpecFiles(p) PROVE proc' \in [Procs -> ProcTypes]
  <2>1. [proc[p] EXCEPT !.seen = file, !.pc = "drop", !.todo = {s \in Specs : file[s] # NoFile}] \in ProcTypes
    BY <1>0 DEF ProcTypes
  <2> QED
    BY <1>9, <2>1 DEF CollectSpecFiles
<1>10. ASSUME DropTables(p) PROVE proc' \in [Procs -> ProcTypes]
  <2>1. proc' = [q \in Procs |-> IF q = p THEN [proc[q] EXCEPT !.pc = "create"]
                   ELSE [proc[q] EXCEPT !.lost = proc[q].lost \/ proc[q].h = proc[p].h]]
    BY <1>10 DEF DropTables
  <2>2. [proc[p] EXCEPT !.pc = "create"] \in ProcTypes
    BY <1>00 DEF Places
  <2>3. ASSUME NEW q \in Procs
        PROVE  [proc[q] EXCEPT !.lost = proc[q].lost \/ proc[q].h = proc[p].h] \in ProcTypes
    <3> DEFINE y == proc[q].lost \/ proc[q].h = proc[p].h
    <3>1. proc[q] \in ProcTypes
      OBVIOUS
    <3>2. proc[q].lost \in BOOLEAN
      BY <3>1 DEF ProcTypes
    <3>3. y \in BOOLEAN
      BY <3>2, Zenon
    <3> HIDE DEF y
    <3>4. [proc[q] EXCEPT !.lost = y] \in ProcTypes
      BY ONLY <3>1, <3>3 DEF ProcTypes
    <3> QED
      BY <3>4 DEF y
  <2> QED
    BY <2>1, <2>2, <2>3
<1>11. ASSUME CreateTables(p) PROVE proc' \in [Procs -> ProcTypes]
  <2>1. PICK x \in {"row"} : proc' = [proc EXCEPT ![p].pc = x]
    BY <1>11 DEF CreateTables, Goto
  <2> QED
    BY <1>00, <2>1 DEF Places
<1>12. ASSUME InsertSpec(p) PROVE proc' \in [Procs -> ProcTypes]
  <2>1. \A s \in proc[p].todo : s \in Specs /\ proc[p].seen[s] \in SUBSET Companions
    <3>1. proc[p].todo \subseteq Declared(proc[p].seen)
      BY <1>12, Departures DEF Departs
    <3>2. \A s \in Specs : proc[p].seen[s] \in Contents
      BY <1>0 DEF ProcTypes
    <3> QED
      BY <3>1, <3>2, ContentsAre DEF Declared
  <2>2. CASE proc' = [proc EXCEPT ![p].pc = "failed"]
    BY <1>00, <2>2 DEF Places
  <2>3. ASSUME NEW s \in proc[p].todo,
               proc' = [proc EXCEPT ![p] = [proc[p] EXCEPT !.spec = s, !.todo = proc[p].todo \ {s},
                                              !.left = proc[p].seen[s], !.pc = "companions"]]
        PROVE  proc' \in [Procs -> ProcTypes]
    <3> DEFINE l == proc[p].seen[s]
    <3>1. s \in Specs /\ l \in SUBSET Companions
      BY <2>1
    <3> HIDE DEF l
    <3>2. [proc[p] EXCEPT !.spec = s, !.todo = proc[p].todo \ {s}, !.left = l, !.pc = "companions"] \in ProcTypes
      BY <1>0, <3>1 DEF ProcTypes
    <3> QED
      BY <2>3, <3>2 DEF l
  <2> QED
    BY <1>12, <2>2, <2>3, InsertSpecDoes
<1>13. ASSUME InsertCompanion(p) PROVE proc' \in [Procs -> ProcTypes]
  <2>1. CASE proc' = [proc EXCEPT ![p].pc = "failed"] \/ proc' = [proc EXCEPT ![p].pc = "row"]
    BY <1>00, <2>1 DEF Places
  <2>2. ASSUME NEW c \in proc[p].left,
               proc' = [proc EXCEPT ![p] = [proc[p] EXCEPT !.left = proc[p].left \ {c}]]
        PROVE  proc' \in [Procs -> ProcTypes]
    <3>1. [proc[p] EXCEPT !.left = proc[p].left \ {c}] \in ProcTypes
      BY <1>0 DEF ProcTypes
    <3> QED
      BY <2>2, <3>1
  <2> QED
    BY <1>13, <2>1, <2>2, InsertCompanionDoes
<1>14. ASSUME BeginMolecules(p) PROVE proc' \in [Procs -> ProcTypes]
  <2> DEFINE k == Kept(proc[p].fetched, proc[p].seen)
  <2>1. k \in SUBSET Mols
    BY <1>0 DEF Kept, ProcTypes
  <2>2. proc' = [proc EXCEPT ![p].mols = k, ![p].pc = "molecules"]
    BY <1>14 DEF BeginMolecules
  <2> HIDE DEF k
  <2>3. [proc[p] EXCEPT !.mols = k, !.pc = "molecules"] \in ProcTypes
    BY <1>0, <2>1 DEF ProcTypes
  <2> QED
    BY <2>2, <2>3
<1>15. ASSUME InsertMolecule(p) PROVE proc' \in [Procs -> ProcTypes]
  <2>1. CASE proc' = [proc EXCEPT ![p].pc = "failed"]
    BY <1>00, <2>1 DEF Places
  <2>2. ASSUME NEW m \in proc[p].mols,
               proc' = [proc EXCEPT ![p] = [proc[p] EXCEPT !.mols = proc[p].mols \ {m}]]
        PROVE  proc' \in [Procs -> ProcTypes]
    <3>1. [proc[p] EXCEPT !.mols = proc[p].mols \ {m}] \in ProcTypes
      BY <1>0 DEF ProcTypes
    <3> QED
      BY <2>2, <3>1
  <2> QED
    BY <1>15, <2>1, <2>2, InsertMoleculeDoes
<1>16. ASSUME RebuildReport(p) PROVE proc' \in [Procs -> ProcTypes]
  <2>1. PICK x \in {"rebuilt"} : proc' = [proc EXCEPT ![p].pc = x]
    BY <1>16 DEF RebuildReport, Goto
  <2> QED
    BY <1>00, <2>1 DEF Places
<1>17. ASSUME LoadCompanions(p) \/ AgentEdits(p) \/ InterviewEnds(p)
       PROVE proc' \in [Procs -> ProcTypes]
  <2>1. CASE AgentEdits(p)
    BY <2>1 DEF AgentEdits
  <2>2. CASE LoadCompanions(p)
    <3>1. PICK x \in {"failed", "interview"} : proc' = [proc EXCEPT ![p].pc = x]
      BY <2>2 DEF LoadCompanions, Goto
    <3> QED
      BY <1>00, <3>1 DEF Places
  <2>3. CASE InterviewEnds(p)
    <3>1. PICK x \in {"failed", "reconcile"} : proc' = [proc EXCEPT ![p].pc = x]
      BY <2>3 DEF InterviewEnds, Goto
    <3> QED
      BY <1>00, <3>1 DEF Places
  <2> QED
    BY <1>17, <2>1, <2>2, <2>3
<1>18. ASSUME ReadSpec(p) PROVE proc' \in [Procs -> ProcTypes]
  <2> DEFINE s == proc[p].spec
             c == file[s]
             left == IF c = NoFile THEN {} ELSE c
             x == IF c = NoFile THEN "failed" ELSE "upsert"
  <2>1. s \in Specs
    BY <1>18, Departures DEF Departs
  <2>2. proc' = [proc EXCEPT ![p].seen[s] = c, ![p].left = left, ![p].pc = x]
    BY <1>18 DEF ReadSpec
  <2>3. left \in SUBSET Companions /\ x \in {"upsert", "failed"} /\ c \in Contents
    <3>1. c \in Contents
      BY <2>1
    <3>2. c = NoFile \/ c \in SUBSET Companions
      BY <3>1, ContentsAre
    <3> QED
      BY <3>1, <3>2
  <2> HIDE DEF x, left, c, s
  <2>4. [proc[p] EXCEPT !.seen[s] = c, !.left = left, !.pc = x] \in ProcTypes
    BY <1>0, <2>1, <2>3 DEF ProcTypes
  <2> QED
    BY <2>2, <2>4
<1>19. ASSUME UpsertSpec(p) PROVE proc' \in [Procs -> ProcTypes]
  <2>1. PICK x \in {"failed", "delete"} : proc' = [proc EXCEPT ![p].pc = x]
    BY <1>19 DEF UpsertSpec, Statement, Goto
  <2> QED
    BY <1>00, <2>1 DEF Places
<1>20. ASSUME DeleteCompanions(p) PROVE proc' \in [Procs -> ProcTypes]
  <2>1. PICK x \in {"failed", "insert"} : proc' = [proc EXCEPT ![p].pc = x]
    BY <1>20 DEF DeleteCompanions, Statement, Goto
  <2> QED
    BY <1>00, <2>1 DEF Places
<1>21. ASSUME InsertDeclared(p) PROVE proc' \in [Procs -> ProcTypes]
  <2>1. CASE proc' = [proc EXCEPT ![p].pc = "failed"]
    BY <1>00, <2>1 DEF Places
  <2>2. ASSUME NEW c \in proc[p].left,
               proc' = [proc EXCEPT ![p] = [proc[p] EXCEPT !.left = proc[p].left \ {c}]]
        PROVE  proc' \in [Procs -> ProcTypes]
    <3>1. [proc[p] EXCEPT !.left = proc[p].left \ {c}] \in ProcTypes
      BY <1>0 DEF ProcTypes
    <3> QED
      BY <2>2, <3>1
  <2> QED
    BY <1>21, <2>1, <2>2, InsertDeclaredDoes
<1>22. ASSUME PlanReport(p) PROVE proc' \in [Procs -> ProcTypes]
  <2>1. PICK x \in {"done"} : proc' = [proc EXCEPT ![p].pc = x]
    BY <1>22 DEF PlanReport, Goto
  <2> QED
    BY <1>00, <2>1 DEF Places
<1>23. ASSUME SetCurrentSpec(p) PROVE proc' \in [Procs -> ProcTypes]
  <2>1. PICK x \in {"failed", "done"} : proc' = [proc EXCEPT ![p].pc = x]
    BY <1>23 DEF SetCurrentSpec, Statement, Goto
  <2> QED
    BY <1>00, <2>1 DEF Places
<1>24. ASSUME ReadCurrentSpec(p) PROVE proc' \in [Procs -> ProcTypes]
  <2>1. Db(p).current \in Specs \cup {None}
    <3>1. proc[p].h \in Files
      BY <1>0, <1>24, Departures DEF Departs, ProcTypes
    <3> QED
      BY <3>1 DEF Db, Dbs
  <2>2. CASE proc' = [proc EXCEPT ![p].pc = "failed"]
    BY <1>00, <2>2 DEF Places
  <2>3. ASSUME NEW x \in {"done", "molecule"},
               proc' = [proc EXCEPT ![p] = [proc[p] EXCEPT !.spec = Db(p).current, !.pc = x]]
        PROVE  proc' \in [Procs -> ProcTypes]
    <3> DEFINE c == Db(p).current
    <3>1. c \in Specs \cup {None}
      BY <2>1
    <3> HIDE DEF c
    <3>2. [proc[p] EXCEPT !.spec = c, !.pc = x] \in ProcTypes
      BY <1>0, <3>1 DEF ProcTypes
    <3> QED
      BY <2>3, <3>2 DEF c
  <2> QED
    BY <1>24, <2>2, <2>3, ReadCurrentDoes
<1>25. ASSUME ReadActiveMolecule(p) PROVE proc' \in [Procs -> ProcTypes]
  <2>1. PICK x \in {"failed", "done"} : proc' = [proc EXCEPT ![p].pc = x]
    BY <1>25 DEF ReadActiveMolecule, Statement, Goto
  <2> QED
    BY <1>00, <2>1 DEF Places
<1>26. ASSUME Exit(p) \/ Die(p) PROVE proc' \in [Procs -> ProcTypes]
  BY <1>26, IdleTyped DEF Exit, Die, End
<1> QED
  BY <1>1, <1>2, <1>3, <1>4, <1>5, <1>6, <1>7, <1>8, <1>9, <1>10, <1>11, <1>12, <1>13,
     <1>14, <1>15, <1>16, <1>17, <1>18, <1>19, <1>20, <1>21, <1>22, <1>23, <1>24,
     <1>25, <1>26
  DEF Step, InitStep, PlanStep, OtherStep

(* Every statement of LoomDb takes a database to a database.               *)
LEMMA DbOperations ==
  /\ Blank \in Dbs /\ Dropped \in Dbs
  /\ \A db \in Dbs : Migrate(db) \in Dbs
  /\ \A db \in Dbs, s \in Specs : WithSpec(db, s) \in Dbs /\ WithCurrent(db, s) \in Dbs
  /\ \A db \in Dbs, m \in Mols : WithMol(db, m) \in Dbs
  /\ \A db \in Dbs, c \in Companions : \A s : WithCompanion(db, s, c) \in Dbs
  /\ \A db \in Dbs : \A s : WithoutCompanions(db, s) \in Dbs
<1>1. Blank \in Dbs /\ Dropped \in Dbs
  BY DEF Blank, Dropped, Dbs
<1>2. ASSUME NEW db \in Dbs PROVE Migrate(db) \in Dbs
  BY DEF Migrate, Dbs
<1>3. ASSUME NEW db \in Dbs, NEW s \in Specs PROVE WithSpec(db, s) \in Dbs
  BY DEF WithSpec, Dbs
<1>4. ASSUME NEW db \in Dbs, NEW s \in Specs PROVE WithCurrent(db, s) \in Dbs
  BY DEF WithCurrent, Dbs
<1>5. ASSUME NEW db \in Dbs, NEW m \in Mols PROVE WithMol(db, m) \in Dbs
  BY DEF WithMol, Dbs
<1>6. ASSUME NEW db \in Dbs, NEW s, NEW c \in Companions
      PROVE WithCompanion(db, s, c) \in Dbs
  <2>1. [db.comps EXCEPT ![s] = db.comps[s] \cup {c}] \in [Specs -> SUBSET Companions]
    BY DEF Dbs
  <2> QED
    BY <2>1 DEF WithCompanion, Dbs
<1>7. ASSUME NEW db \in Dbs, NEW s PROVE WithoutCompanions(db, s) \in Dbs
  <2>1. [db.comps EXCEPT ![s] = {}] \in [Specs -> SUBSET Companions]
    BY DEF Dbs
  <2> QED
    BY <2>1 DEF WithoutCompanions, Dbs
<1> QED
  BY <1>1, <1>2, <1>3, <1>4, <1>5, <1>6, <1>7

(* A step leaves databases under every file.                               *)
LEMMA DiskTyped ==
  ASSUME NEW p \in Procs, proc \in [Procs -> ProcTypes], path \in Files \cup {0},
         disk \in [Files -> Dbs],
         proc[p].pc \in {"upsert", "write"} => proc[p].spec \in Specs,
         Step(p)
  PROVE  disk' \in [Files -> Dbs]
<1> USE DEF Goto, At, locks
<1>0. proc[p] \in ProcTypes
  OBVIOUS
<1>1. ASSUME NEW cmd \in {"init", "rebuild"}, StartInit(p, cmd)
      PROVE disk' \in [Files -> Dbs]
  BY <1>1 DEF StartInit, Idle
<1>2. ASSUME NEW cmd \in Plans \cup {"use"}, NEW s \in Specs, StartSpecScoped(p, cmd, s)
      PROVE disk' \in [Files -> Dbs]
  BY <1>2 DEF StartSpecScoped, Idle
<1>3. ASSUME StartLook(p) PROVE disk' \in [Files -> Dbs]
  BY <1>3 DEF StartLook, Idle
<1>4. ASSUME Fetch(p) PROVE disk' \in [Files -> Dbs]
  BY <1>4 DEF Fetch
<1>5. ASSUME ListLocks(p) PROVE disk' \in [Files -> Dbs]
  BY <1>5 DEF ListLocks
<1>6. ASSUME NEW s \in Specs, Probe(p, s) PROVE disk' \in [Files -> Dbs]
  BY <1>6 DEF Probe
<1>7. ASSUME TakeWorkspace(p) \/ Recreate(p) PROVE disk' \in [Files -> Dbs]
  BY <1>7 DEF TakeWorkspace, Recreate
<1>8. ASSUME Open(p) PROVE disk' \in [Files -> Dbs]
  <2>1. path' \in Files
    BY <1>8, Opening
  <2> DEFINE d == IF path = 0 THEN Blank ELSE Migrate(disk[path])
  <2>2. d \in Dbs
    BY DbOperations
  <2>3. disk' = [disk EXCEPT ![path'] = d]
    BY <1>8, OpenDoes
  <2> HIDE DEF d
  <2> QED
    BY <2>1, <2>2, <2>3
<1>9. ASSUME CollectSpecFiles(p) PROVE disk' \in [Files -> Dbs]
  BY <1>9 DEF CollectSpecFiles
<1>10. ASSUME DropTables(p) PROVE disk' \in [Files -> Dbs]
  BY <1>10, DbOperations DEF DropTables
<1>11. ASSUME CreateTables(p) PROVE disk' \in [Files -> Dbs]
  <2>1. disk' = [disk EXCEPT ![proc[p].h] = Migrate(disk[proc[p].h])]
    BY <1>11 DEF CreateTables
  <2> QED
    BY <2>1, DbOperations
<1>12. ASSUME InsertSpec(p) PROVE disk' \in [Files -> Dbs]
  <2>1. CASE disk' = disk
    BY <2>1
  <2>2. ASSUME NEW s \in proc[p].todo,
               disk' = [disk EXCEPT ![proc[p].h] = WithSpec(Db(p), s)]
        PROVE  disk' \in [Files -> Dbs]
    <3>1. s \in Specs
      BY <1>0 DEF ProcTypes
    <3> QED
      BY <2>2, <3>1, DbOperations DEF Db
  <2> QED
    BY <1>12, <2>1, <2>2, InsertSpecDoes
<1>13. ASSUME InsertCompanion(p) PROVE disk' \in [Files -> Dbs]
  <2>1. CASE disk' = disk
    BY <2>1
  <2>2. ASSUME NEW c \in proc[p].left,
               disk' = [disk EXCEPT ![proc[p].h] = WithCompanion(Db(p),
               proc[p].spec, c)]
        PROVE  disk' \in [Files -> Dbs]
    <3>1. c \in Companions
      BY <1>0 DEF ProcTypes
    <3> DEFINE d == WithCompanion(Db(p), proc[p].spec, c)
    <3>2. proc[p].h \in Files => d \in Dbs
      <4>1. proc[p].h \in Files => Db(p) \in Dbs
        BY DEF Db
      <4> QED
        BY <3>1, <4>1, DbOperations
    <3>3. disk' = [disk EXCEPT ![proc[p].h] = d]
      BY <2>2
    <3> HIDE DEF d
    <3> QED
      BY <3>2, <3>3
  <2> QED
    BY <1>13, <2>1, <2>2, InsertCompanionDoes
<1>14. ASSUME BeginMolecules(p) PROVE disk' \in [Files -> Dbs]
  BY <1>14 DEF BeginMolecules
<1>15. ASSUME InsertMolecule(p) PROVE disk' \in [Files -> Dbs]
  <2>1. CASE disk' = disk
    BY <2>1
  <2>2. ASSUME NEW m \in proc[p].mols,
               disk' = [disk EXCEPT ![proc[p].h] = WithMol(Db(p), m)]
        PROVE  disk' \in [Files -> Dbs]
    <3>1. m \in Mols
      BY <1>0 DEF ProcTypes
    <3> QED
      BY <2>2, <3>1, DbOperations DEF Db
  <2> QED
    BY <1>15, <2>1, <2>2, InsertMoleculeDoes
<1>16. ASSUME RebuildReport(p) PROVE disk' \in [Files -> Dbs]
  BY <1>16 DEF RebuildReport
<1>17. ASSUME LoadCompanions(p) \/ AgentEdits(p) \/ InterviewEnds(p)
       PROVE disk' \in [Files -> Dbs]
  BY <1>17 DEF LoadCompanions, AgentEdits, InterviewEnds
<1>18. ASSUME ReadSpec(p) PROVE disk' \in [Files -> Dbs]
  BY <1>18 DEF ReadSpec
<1>19. ASSUME UpsertSpec(p) PROVE disk' \in [Files -> Dbs]
  <2>1. proc[p].spec \in Specs
    BY <1>19, Departures DEF Departs
  <2>2. disk' = disk \/ disk' = [disk EXCEPT ![proc[p].h] = WithSpec(Db(p), proc[p].spec)]
    BY <1>19, Zenon DEF UpsertSpec, Statement
  <2> QED
    BY <2>1, <2>2, DbOperations DEF Db
<1>20. ASSUME DeleteCompanions(p) PROVE disk' \in [Files -> Dbs]
  <2>1. disk' = disk \/ disk' = [disk EXCEPT ![proc[p].h] = WithoutCompanions(Db(p), proc[p].spec)]
    BY <1>20, Zenon DEF DeleteCompanions, Statement
  <2> QED
    BY <2>1, DbOperations DEF Db
<1>21. ASSUME InsertDeclared(p) PROVE disk' \in [Files -> Dbs]
  <2>1. CASE disk' = disk
    BY <2>1
  <2>2. ASSUME NEW c \in proc[p].left,
               disk' = [disk EXCEPT ![proc[p].h] = WithCompanion(Db(p),
               proc[p].spec, c)]
        PROVE  disk' \in [Files -> Dbs]
    <3>1. c \in Companions
      BY <1>0 DEF ProcTypes
    <3> DEFINE d == WithCompanion(Db(p), proc[p].spec, c)
    <3>2. proc[p].h \in Files => d \in Dbs
      <4>1. proc[p].h \in Files => Db(p) \in Dbs
        BY DEF Db
      <4> QED
        BY <3>1, <4>1, DbOperations
    <3>3. disk' = [disk EXCEPT ![proc[p].h] = d]
      BY <2>2
    <3> HIDE DEF d
    <3> QED
      BY <3>2, <3>3
  <2> QED
    BY <1>21, <2>1, <2>2, InsertDeclaredDoes
<1>22. ASSUME PlanReport(p) PROVE disk' \in [Files -> Dbs]
  BY <1>22 DEF PlanReport
<1>23. ASSUME SetCurrentSpec(p) PROVE disk' \in [Files -> Dbs]
  <2>1. proc[p].spec \in Specs
    BY <1>23, Departures DEF Departs
  <2>2. disk' = disk \/ disk' = [disk EXCEPT ![proc[p].h] = WithCurrent(Db(p), proc[p].spec)]
    BY <1>23, Zenon DEF SetCurrentSpec, Statement
  <2> QED
    BY <2>1, <2>2, DbOperations DEF Db
<1>24. ASSUME ReadCurrentSpec(p) PROVE disk' \in [Files -> Dbs]
  <2>1. disk' = disk \/ disk' = [disk EXCEPT ![proc[p].h] = Db(p)]
    BY <1>24, ReadCurrentDoes
  <2> QED
    BY <2>1 DEF Db
<1>25. ASSUME ReadActiveMolecule(p) PROVE disk' \in [Files -> Dbs]
  <2>1. disk' = disk \/ disk' = [disk EXCEPT ![proc[p].h] = Db(p)]
    BY <1>25, Zenon DEF ReadActiveMolecule, Statement
  <2> QED
    BY <2>1 DEF Db
<1>26. ASSUME Exit(p) \/ Die(p) PROVE disk' \in [Files -> Dbs]
  BY <1>26, DbOperations DEF Exit, Die, End
<1> QED
  BY <1>1, <1>2, <1>3, <1>4, <1>5, <1>6, <1>7, <1>8, <1>9, <1>10, <1>11, <1>12, <1>13,
     <1>14, <1>15, <1>16, <1>17, <1>18, <1>19, <1>20, <1>21, <1>22, <1>23, <1>24,
     <1>25, <1>26
  DEF Step, InitStep, PlanStep, OtherStep

(* A step leaves the shared variables with their types.                    *)
LEMMA SharedTyped ==
  ASSUME NEW p \in Procs, TypeOK, PlacesFit, LocksHeld, Connections, Step(p)
  PROVE  /\ file' \in [Specs -> Contents] /\ path' \in Files \cup {0} /\ config' \in BOOLEAN
         /\ lock' \in [Specs -> Procs \cup {Free}] /\ wsLock' \in Procs \cup {Free}
         /\ promise' \in [Specs -> Contents \cup {Unknown}]
<1>1. Shares(p) /\ proc \in [Procs -> ProcTypes] /\ Departs(p)
  BY AllEffects, Departures DEF Effects
<1>2. file' \in [Specs -> Contents]
  BY <1>1 DEF Shares, TypeOK, AgentEdits
<1>3. path' \in Files \cup {0}
  BY <1>1, Opening DEF Shares, TypeOK, Recreate
<1>4. config' \in BOOLEAN
  <2>1. config' = config \/ TakeWorkspace(p)
    BY <1>1 DEF Shares
  <2>2. TakeWorkspace(p) => config' = TRUE \/ config' = config
    BY Zenon DEF TakeWorkspace
  <2>3. config \in BOOLEAN
    BY DEF TypeOK
  <2> QED
    BY <2>1, <2>2, <2>3, Zenon
<1>5. lock' \in [Specs -> Procs \cup {Free}]
  <2>1. CASE lock' = lock
    BY <2>1 DEF TypeOK
  <2>2. CASE End(p)
    BY <2>2 DEF TypeOK, End
  <2>3. ASSUME NEW cmd \in Plans \cup {"use"}, NEW s \in Specs, StartSpecScoped(p, cmd, s)
        PROVE  lock' \in [Specs -> Procs \cup {Free}]
    <3>1. lock' = [lock EXCEPT ![s] = p] /\ lock \in [Specs -> Procs \cup {Free}]
      BY <1>1, <2>3, ScopedStart DEF TypeOK
    <3> QED
      BY <3>1
  <2> QED
    BY <1>1, <2>1, <2>2, <2>3 DEF Shares
<1>6. wsLock' \in Procs \cup {Free}
  BY <1>1 DEF Shares, TypeOK, TakeWorkspace, End
<1>7. promise' \in [Specs -> Contents \cup {Unknown}]
  <2>1. promise \in [Specs -> Contents \cup {Unknown}] /\ proc[p].seen \in [Specs -> Contents]
    BY <1>1 DEF TypeOK, ProcTypes
  <2>2. CASE promise' = promise
    BY <2>1, <2>2
  <2>3. CASE Recreate(p)
    BY <2>3 DEF Recreate
  <2>4. CASE RebuildReport(p)
    <3>1. promise' = promise \/ promise' = proc[p].seen
      BY <2>4, Zenon DEF RebuildReport
    <3> QED
      BY <2>1, <3>1
  <2>5. CASE UpsertSpec(p)
    BY <2>1, <2>5 DEF UpsertSpec
  <2>6. CASE PlanReport(p)
    <3>1. promise' = promise \/ promise' = [promise EXCEPT ![proc[p].spec] = proc[p].seen[proc[p].spec]]
      BY <2>6, Zenon DEF PlanReport
    <3> QED
      BY <2>1, <3>1
  <2> QED
    BY <1>1, <2>2, <2>3, <2>4, <2>5, <2>6 DEF Shares
<1> QED
  BY <1>2, <1>3, <1>4, <1>5, <1>6, <1>7

(* The count of starts stays within its bound.                             *)
LEMMA StartsTyped ==
  ASSUME NEW p \in Procs, starts \in 0 .. MaxStarts, Step(p)
  PROVE  starts' \in 0 .. MaxStarts
<1> USE StateAssumption DEF Goto, At, locks
<1>1. ASSUME NEW cmd \in {"init", "rebuild"}, StartInit(p, cmd)
      PROVE starts' \in 0 .. MaxStarts
  <2>1. starts < MaxStarts /\ starts' = starts + 1
    BY <1>1, Zenon DEF StartInit
  <2> QED
    BY <2>1
<1>2. ASSUME NEW cmd \in Plans \cup {"use"}, NEW s \in Specs, StartSpecScoped(p, cmd, s)
      PROVE starts' \in 0 .. MaxStarts
  <2>1. starts < MaxStarts /\ starts' = starts + 1
    BY <1>2, Zenon DEF StartSpecScoped
  <2> QED
    BY <2>1
<1>3. ASSUME StartLook(p) PROVE starts' \in 0 .. MaxStarts
  BY <1>3 DEF StartLook, Idle
<1>4. ASSUME Fetch(p) PROVE starts' \in 0 .. MaxStarts
  BY <1>4 DEF Fetch
<1>5. ASSUME ListLocks(p) PROVE starts' \in 0 .. MaxStarts
  BY <1>5 DEF ListLocks
<1>6. ASSUME NEW s \in Specs, Probe(p, s) PROVE starts' \in 0 .. MaxStarts
  BY <1>6 DEF Probe
<1>7. ASSUME TakeWorkspace(p) \/ Recreate(p) PROVE starts' \in 0 .. MaxStarts
  BY <1>7 DEF TakeWorkspace, Recreate
<1>8. ASSUME Open(p) PROVE starts' \in 0 .. MaxStarts
  BY <1>8 DEF Open
<1>9. ASSUME CollectSpecFiles(p) PROVE starts' \in 0 .. MaxStarts
  BY <1>9 DEF CollectSpecFiles
<1>10. ASSUME DropTables(p) PROVE starts' \in 0 .. MaxStarts
  BY <1>10 DEF DropTables
<1>11. ASSUME CreateTables(p) PROVE starts' \in 0 .. MaxStarts
  BY <1>11 DEF CreateTables
<1>12. ASSUME InsertSpec(p) PROVE starts' \in 0 .. MaxStarts
  BY <1>12 DEF InsertSpec, Statement, CanInsertSpec, WithSpec, Db
<1>13. ASSUME InsertCompanion(p) PROVE starts' \in 0 .. MaxStarts
  BY <1>13 DEF InsertCompanion, Statement
<1>14. ASSUME BeginMolecules(p) PROVE starts' \in 0 .. MaxStarts
  BY <1>14 DEF BeginMolecules
<1>15. ASSUME InsertMolecule(p) PROVE starts' \in 0 .. MaxStarts
  BY <1>15 DEF InsertMolecule, Statement
<1>16. ASSUME RebuildReport(p) PROVE starts' \in 0 .. MaxStarts
  BY <1>16 DEF RebuildReport
<1>17. ASSUME LoadCompanions(p) \/ AgentEdits(p) \/ InterviewEnds(p)
       PROVE starts' \in 0 .. MaxStarts
  BY <1>17 DEF LoadCompanions, AgentEdits, InterviewEnds
<1>18. ASSUME ReadSpec(p) PROVE starts' \in 0 .. MaxStarts
  BY <1>18 DEF ReadSpec
<1>19. ASSUME UpsertSpec(p) PROVE starts' \in 0 .. MaxStarts
  BY <1>19 DEF UpsertSpec, Statement
<1>20. ASSUME DeleteCompanions(p) PROVE starts' \in 0 .. MaxStarts
  BY <1>20 DEF DeleteCompanions, Statement
<1>21. ASSUME InsertDeclared(p) PROVE starts' \in 0 .. MaxStarts
  BY <1>21 DEF InsertDeclared, Statement
<1>22. ASSUME PlanReport(p) PROVE starts' \in 0 .. MaxStarts
  BY <1>22 DEF PlanReport
<1>23. ASSUME SetCurrentSpec(p) PROVE starts' \in 0 .. MaxStarts
  BY <1>23 DEF SetCurrentSpec, Statement
<1>24. ASSUME ReadCurrentSpec(p) PROVE starts' \in 0 .. MaxStarts
  BY <1>24 DEF ReadCurrentSpec, Statement, CanQuery, Db
<1>25. ASSUME ReadActiveMolecule(p) PROVE starts' \in 0 .. MaxStarts
  BY <1>25 DEF ReadActiveMolecule, Statement
<1>26. ASSUME Exit(p) \/ Die(p) PROVE starts' \in 0 .. MaxStarts
  BY <1>26 DEF Exit, Die, End, Idle
<1> QED
  BY <1>1, <1>2, <1>3, <1>4, <1>5, <1>6, <1>7, <1>8, <1>9, <1>10, <1>11, <1>12, <1>13,
     <1>14, <1>15, <1>16, <1>17, <1>18, <1>19, <1>20, <1>21, <1>22, <1>23, <1>24,
     <1>25, <1>26
  DEF Step, InitStep, PlanStep, OtherStep

(* A step preserves TypeOK.                                                *)
LEMMA TypeStep ==
  ASSUME NEW p \in Procs, TypeOK, PlacesFit, LocksHeld, Connections, TodoDeclared, Step(p)
  PROVE  TypeOK'
<1>1. /\ proc \in [Procs -> ProcTypes] /\ disk \in [Files -> Dbs] /\ path \in Files \cup {0}
      /\ file \in [Specs -> Contents] /\ starts \in 0 .. MaxStarts
  BY DEF TypeOK, ProcTypes
<1>2. proc[p].pc \in {"reconcile", "upsert", "write"} => proc[p].spec \in Specs
  BY DEF PlacesFit, PlaceFits, LocksHeld, Active
<1>3. proc[p].pc = "current" => proc[p].h # 0
  BY DEF Connections
<1>4. proc[p].pc \in {"drop", "create", "row", "companions"} => proc[p].todo \subseteq Declared(proc[p].seen)
  BY DEF TodoDeclared
<1>5. proc' \in [Procs -> ProcTypes]
  BY <1>1, <1>2, <1>3, <1>4, ProcTyped
<1>6. disk' \in [Files -> Dbs]
  BY <1>1, <1>2, DiskTyped
<1>7. starts' \in 0 .. MaxStarts
  BY <1>1, StartsTyped
<1>8. \A s \in Specs : lock'[s] # Free => proc'[lock'[s]].spec = s
  BY LocksHeldStep DEF LocksHeld
<1> QED
  BY <1>5, <1>6, <1>7, <1>8, SharedTyped DEF TypeOK, ProcTypes

(***************************************************************************)
(* The theorems                                                            *)
(***************************************************************************)
(* The invariant holds before any command has run.                         *)
LEMMA InitialState == Init => StateInv
<1> SUFFICES ASSUME Init PROVE StateInv
  OBVIOUS
<1>1. \A p \in Procs : proc[p] = Idle
  BY DEF Init
<1>2. /\ Idle.pc = "idle" /\ Idle.cmd = "look" /\ Idle.h = 0
  BY DEF Idle
<1>3. \A s \in Specs : lock[s] = Free /\ promise[s] = Unknown
  BY DEF Init
<1>4. TypeOK
  <2>1. proc \in [Procs -> ProcTypes]
    BY IdleTyped DEF Init
  <2>2. disk \in [Files -> Dbs]
    BY DbOperations DEF Init
  <2>3. starts \in 0 .. MaxStarts
    BY StateAssumption DEF Init
  <2> QED
    BY <1>3, <2>1, <2>2, <2>3 DEF TypeOK, Init, ProcTypes
<1>5. PlacesFit
  BY <1>1, <1>2 DEF PlacesFit, PlaceFits, Filling
<1>6. LocksHeld
  BY <1>1, <1>2, <1>3 DEF LocksHeld, Active, Inside
<1>7. KeptApart
  BY <1>1, <1>2 DEF KeptApart, Rebuilding
<1>8. Connections
  BY <1>1, <1>2 DEF Connections, Connected, Planning, Active, Filling
<1>9. TablesThere
  BY <1>1, <1>2 DEF TablesThere
<1>10. NoPromiseInWork
  BY <1>1, <1>2 DEF NoPromiseInWork
<1>11. RebuildsProgress
  BY <1>1, <1>2 DEF RebuildsProgress
<1>12. TodoDeclared
  BY <1>1, <1>2 DEF TodoDeclared
<1>13. PlansProgress
  BY <1>1, <1>2 DEF PlansProgress, PlanProgress
<1>14. RowsAsReported
  BY <1>3 DEF RowsAsReported
<1>15. DeadRebuildWedgesNobody
  BY <1>1, <1>2 DEF DeadRebuildWedgesNobody, At
<1> QED
  BY <1>4, <1>5, <1>6, <1>7, <1>8, <1>9, <1>10, <1>11, <1>12, <1>13, <1>14, <1>15
  DEF StateInv

(* Every step, of any process, preserves the invariant.                    *)
LEMMA NextStep == StateInv /\ [Next]_vars => StateInv'
<1> SUFFICES ASSUME StateInv, [Next]_vars PROVE StateInv'
  OBVIOUS
<1>1. CASE UNCHANGED vars
  <2> USE <1>1 DEF vars, locks
  <2>1. TypeOK' /\ PlacesFit' /\ LocksHeld'
    BY DEF StateInv, TypeOK, PlacesFit, PlaceFits, LocksHeld, Active, Inside
  <2>2. KeptApart' /\ Connections' /\ TablesThere'
    BY DEF StateInv, KeptApart, Connections, TablesThere, Inside, Connected, Rebuilding,
           Planning, Active, Db
  <2>3. NoPromiseInWork' /\ TodoDeclared'
    BY DEF StateInv, NoPromiseInWork, TodoDeclared
  <2>4. RebuildsProgress'
    BY DEF StateInv, RebuildsProgress, RebuildProgress, Labelled, Db
  <2>5. PlansProgress'
    BY DEF StateInv, PlansProgress, PlanProgress, Db
  <2>6. RowsAsReported' /\ DeadRebuildWedgesNobody'
    BY DEF StateInv, RowsAsReported, DeadRebuildWedgesNobody, Rows, At, Db
  <2> QED
    BY <2>1, <2>2, <2>3, <2>4, <2>5, <2>6 DEF StateInv
<1>2. ASSUME NEW p \in Procs, Step(p) PROVE StateInv'
  BY <1>2, TypeStep, PlacesFitStep, LocksHeldStep, KeptApartStep, ConnectionsStep,
     TablesThereStep,
     NoPromiseInWorkStep, RebuildsProgressStep, TodoDeclaredStep, PlansProgressStep, RowsAsReportedStep,
     DeadRebuildStep DEF StateInv
<1> QED
  BY <1>1, <1>2 DEF Next, Step

(* StateInv holds in every reachable state, for any processes, specs,      *)
(* companions and molecules: the locks, connections, tables and rows of    *)
(* the state database as loom-core/src/state, init and plan leave them.    *)
THEOREM StateInvariance == Spec => []StateInv
  BY InitialState, NextStep, PTL DEF Spec

(* Every variable of LoomState keeps its type, and the holder of a spec    *)
(* lock is at work on that spec (types of state/db.rs and the lock files). *)
THEOREM StateTypeCorrect == Spec => []TypeOK
<1>1. StateInv => TypeOK
  BY DEF StateInv
<1> QED
  BY <1>1, StateInvariance, PTL

(* What the last undisturbed rebuild or interview reported of a spec is    *)
(* what the database under the path says of it, whatever other commands    *)
(* ran or died since (rebuild.rs, replace_companions).                     *)
THEOREM RowsStayAsReported == Spec => []RowsAsReported
<1>1. StateInv => RowsAsReported
  BY DEF StateInv
<1> QED
  BY <1>1, StateInvariance, PTL

(* In every state of the invariant a rebuild no plan broke into has not    *)
(* failed in the database, and its report is what it wrote.                *)
LEMMA RebuiltIsReported == StateInv => RebuildRepairs
<1> SUFFICES ASSUME StateInv, NEW p \in Procs, proc[p].cmd = "rebuild", ~proc[p].late
             PROVE  /\ At(p, "failed") => proc[p].h = 0
                    /\ At(p, "rebuilt") =>
                         /\ proc[p].h = path
                         /\ Db(p).mols = Kept(proc[p].fetched, proc[p].seen)
                         /\ Db(p).rows = {s \in Specs : proc[p].seen[s] # NoFile}
  BY DEF RebuildRepairs
<1>1. RebuildProgress(proc[p], Db(p))
  BY DEF StateInv, RebuildsProgress
<1>2. At(p, "failed") => proc[p].h = 0
  BY <1>1 DEF RebuildProgress, At
<1>3. ASSUME At(p, "rebuilt")
      PROVE  /\ proc[p].h = path
             /\ Db(p).mols = Kept(proc[p].fetched, proc[p].seen)
             /\ Db(p).rows = {s \in Specs : proc[p].seen[s] # NoFile}
  <2>1. proc[p].h = path
    BY <1>3 DEF StateInv, Connections, Connected, At
  <2>2. /\ Db(p).rows = Declared(proc[p].seen) /\ proc[p].mols = {}
        /\ Db(p).mols = Kept(proc[p].fetched, proc[p].seen) \ proc[p].mols
    BY <1>1, <1>3 DEF RebuildProgress, At
  <2>3. Kept(proc[p].fetched, proc[p].seen) \ {} = Kept(proc[p].fetched, proc[p].seen)
    BY DEF Kept
  <2> QED
    BY <2>1, <2>2, <2>3 DEF Declared
<1> QED
  BY <1>2, <1>3

(* loom init --rebuild repairs whatever was left behind (rebuild.rs,       *)
(* init/mod.rs): unless a plan broke in it meets no SQL error, and reports *)
(* exactly the files' specs and the tracker's molecules.                   *)
THEOREM RebuildsRepair == Spec => []RebuildRepairs
  BY RebuiltIsReported, StateInvariance, PTL

(* A rebuild that died between DROP and CREATE wedges nobody: unless a     *)
(* rebuild dropped the tables after another command had opened the file,   *)
(* that command does not fail for want of tables (StateDb::open creates    *)
(* what is missing, each time).                                            *)
THEOREM DeadRebuildsWedgeNobody == Spec => []DeadRebuildWedgesNobody
<1>1. StateInv => DeadRebuildWedgesNobody
  BY DEF StateInv
<1> QED
  BY <1>1, StateInvariance, PTL

===============================================================================
