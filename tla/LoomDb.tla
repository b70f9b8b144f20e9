-------------------------------- MODULE LoomDb --------------------------------
(***************************************************************************)
(* The state database of loom (loom-core/src/state): the content of one    *)
(* state.db file as a record, and each SQL statement of StateDb as a guard *)
(* (SQLite refuses it: no such table, a duplicate key, a missing parent    *)
(* row) and an effect.  StateDb uses no transaction, so each of them is a  *)
(* step of its own in LoomState.                                           *)
(*                                                                         *)
(* Columns nothing reads are left out: spec_path, implementation_notes,    *)
(* base_commit and the iteration counter.                                  *)
(***************************************************************************)
EXTENDS Naturals, FiniteSets

CONSTANTS
    Specs,       \* spec labels; numbers, because they are sorted
    Companions,  \* paths a spec may declare as companions
    Mols,        \* molecules of the tracker
    SpecOf,      \* the spec a molecule is labelled with, or None
    NoFile,      \* there is no specs/<label>.md
    None         \* no spec

ASSUME DbAssumption ==
    /\ Specs \subseteq Nat /\ IsFiniteSet(Specs)
    /\ None \notin Specs /\ \A declared \in SUBSET Companions : NoFile # declared
    /\ SpecOf \in [Mols -> Specs \cup {None}]

(* What a spec file declares, see ParseCompanions in LoomMarkdown.         *)
Contents == (SUBSET Companions) \cup {NoFile}

(* The tables.  A table and its rows come and go together.                 *)
Dbs == [made : BOOLEAN, rows : SUBSET Specs, comps : [Specs -> SUBSET Companions],
        mols : SUBSET Mols, current : Specs \cup {None}]

(* MIGRATION_V1 on an empty file, and after DROP_AND_RECREATE.             *)
Blank == [made |-> TRUE, rows |-> {}, comps |-> [s \in Specs |-> {}],
          mols |-> {}, current |-> None]
Dropped == [Blank EXCEPT !.made = FALSE]

(* Mutant: only a new file is migrated.                                    *)
MigrateNothing(db) == db
(* CREATE TABLE IF NOT EXISTS on a file that is there.                     *)
Migrate(db) == [db EXCEPT !.made = TRUE]

(* The statements of rebuild: plain INSERTs, which fail on a duplicate.    *)
CanInsertSpec(db, s) == db.made /\ s \notin db.rows
WithSpec(db, s) == [db EXCEPT !.rows = @ \cup {s}]

CanInsertMol(db, m) == db.made /\ m \notin db.mols /\ SpecOf[m] \in db.rows
WithMol(db, m) == [db EXCEPT !.mols = @ \cup {m}]

(* INSERT OR IGNORE INTO companions; the bundled SQLite enforces the       *)
(* foreign key.                                                            *)
CanInsertCompanion(db, s) == db.made /\ s \in db.rows
WithCompanion(db, s, c) == [db EXCEPT !.comps[s] = @ \cup {c}]

(* The other statements of replace_companions.                             *)
CanQuery(db) == db.made
WithoutCompanions(db, s) == [db EXCEPT !.comps[s] = {}]

(* set_current_spec, an upsert.                                            *)
WithCurrent(db, s) == [db EXCEPT !.current = s]

(* Mutant: no molecule is skipped.                                         *)
KeptAll(mols, files) == mols
(* rebuild skips a molecule whose spec has no file.                        *)
Kept(mols, files) == {m \in mols : files[SpecOf[m]] # NoFile}
===============================================================================
