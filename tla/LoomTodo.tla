------------------------------- MODULE LoomTodo -------------------------------
(***************************************************************************)
(* What a todo session is to start from (loom-workflow/src/todo/tier.rs):  *)
(* the changes of every spec since the commit it was last decomposed at,   *)
(* or, without a usable commit, the whole spec with or without the tasks   *)
(* that exist.  compute_spec_diff and its helpers, library functions that  *)
(* the shipped `loom todo` does not call yet (todo/production.rs:39-59);   *)
(* git is external.                                                        *)
(*                                                                         *)
(* History is a line c1, c2, HEAD, and a commit "gone astray" by a rewrite *)
(* that still exists but is no ancestor of HEAD.  "pruned" is a revision   *)
(* that no longer exists.                                                  *)
(***************************************************************************)
EXTENDS LoomConfig, FiniteSets

Specs == {"anchor", "sibling"}
Revs == {"c1", "c2", "astray", "pruned"}
Commits == Revs \ {"pruned"}
Versions == 0 .. 1

(* What the functions read: the state DB's rows, the flag and the commits. *)
TierInputs ==
    [molecule : BOOLEAN, base : Revs \cup {None}, since : Revs \cup {None},
     sibling : Revs \cup {None}, at : [Commits -> [Specs -> Versions]]]
Current == [s \in Specs |-> 0]
Files(in, rev) == in.at[rev]

RevExists(rev) == rev \in Commits
IsAncestorOfHead(rev) == rev \in {"c1", "c2"}
ChangedSpecFiles(in, base) == {s \in Specs : Files(in, base)[s] # Current[s]}

(* Mutant: a commit that merely exists serves as base.                     *)
AnyCommitServes(in, base, cand) ==
    LET own == IF cand = "anchor" THEN (IF in.since # None THEN in.since
                                        ELSE IF in.molecule THEN in.base ELSE None)
               ELSE in.sibling
    IN IF own = None \/ ~RevExists(own) THEN base ELSE own
(* effective_base_for: --since moves the anchor only; every other spec     *)
(* starts from its own commit, or the anchor's where that is unusable.     *)
EffectiveBase(in, base, cand) ==
    LET own == IF cand = "anchor" THEN (IF in.since # None THEN in.since
                                        ELSE IF in.molecule THEN in.base ELSE None)
               ELSE in.sibling
    IN IF own = None \/ ~RevExists(own) \/ ~IsAncestorOfHead(own) THEN base ELSE own

(* build_fanout: an empty diff is left out.                                *)
BuildFanout(in, base) ==
    {[spec |-> s, from |-> EffectiveBase(in, base, s)] :
       s \in {c \in ChangedSpecFiles(in, base) :
                Files(in, EffectiveBase(in, base, c))[c] # Current[c]}}

Decision(tier, base, candidates) == [tier |-> tier, base |-> base, candidates |-> candidates]
Whole(tier) == Decision(tier, None, {})

ComputeSpecDiff(in) ==
    LET stored == IF in.molecule THEN in.base ELSE None
        base == IF in.since # None THEN in.since ELSE stored
    IN IF in.since # None /\ ~RevExists(in.since) THEN Whole("error")
       ELSE IF base # None /\ RevExists(base) /\ IsAncestorOfHead(base)
       THEN Decision("diff", base, BuildFanout(in, base))
       ELSE IF in.since # None THEN Whole("error")
       ELSE Whole(IF in.molecule THEN "tasks" ELSE "new")

-------------------------------------------------------------------------------
Usable(rev) == rev # None /\ IsAncestorOfHead(rev)
Stored(in) == IF in.molecule THEN in.base ELSE None
Candidate(found, s) == {c.from : c \in {d \in found.candidates : d.spec = s}}

(* What a spec's diff must start from, and whether there must be one.      *)
DecisionMeant(in, found) ==
    /\ found.tier = "error" <=> (in.since # None /\ ~Usable(in.since))
    /\ found.tier = "diff" <=> Usable(IF in.since # None THEN in.since ELSE Stored(in))
    /\ found.tier = "new" => ~in.molecule
    /\ found.tier = "diff" =>
         LET start == IF in.since # None THEN in.since ELSE Stored(in)
             cursor == IF Usable(in.sibling) THEN in.sibling ELSE start
         IN /\ Candidate(found, "anchor") =
                 (IF in.at[start]["anchor"] # Current["anchor"] THEN {start} ELSE {})
            /\ Candidate(found, "sibling") =
                 (IF /\ in.at[start]["sibling"] # Current["sibling"]
                     /\ in.at[cursor]["sibling"] # Current["sibling"] THEN {cursor} ELSE {})
===============================================================================
