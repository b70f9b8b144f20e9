-------------------------------- MODULE LoomDeps --------------------------------
(***************************************************************************)
(* `loom spec --deps` (loom-workflow/src/spec): the packages of the tools  *)
(* that the files linked from a spec's annotations call.  A link is        *)
(* resolved to a path (annotations.rs), the file there is read and         *)
(* searched for each known tool (deps.rs).                                 *)
(*                                                                         *)
(* A path is a sequence of components, a body a sequence of letters.       *)
(***************************************************************************)
EXTENDS Naturals, Sequences, FiniteSets, SequencesExt

(***************************************************************************)
(* Tools in a body                                                         *)
(***************************************************************************)
Letters == {"c", "g", " ", "(", ")"}
Tool == [cc |-> <<"c", "c">>, gcc |-> <<"g", "c", "c">>]

(* " " stands for every separator that may stand on either side.           *)
BoundaryBefore(b) == b \in {" ", "("}
BoundaryAfter(b) == b \in {" ", ")"}
LetterAt(body, i) == IF i \in DOMAIN body THEN body[i] ELSE " "

(* find_subslice, from position i on; 0 when there is none.                *)
FindFrom(body, needle, i) ==
    LET hits == {k \in i .. Len(body) + 1 - Len(needle) :
                   SubSeq(body, k, k + Len(needle) - 1) = needle}
    IN IF hits = {} THEN 0 ELSE Min(hits)

(* has_command_use: the search goes on one letter behind a rejected hit.   *)
HasCommandUse(body, needle) ==
    LET from[i \in 1 .. Len(body) + 1] ==
          LET k == FindFrom(body, needle, i) IN
          /\ k # 0
          /\ \/ /\ BoundaryBefore(LetterAt(body, k - 1))
                /\ BoundaryAfter(LetterAt(body, k + Len(needle)))
             \/ from[k + 1]
    IN from[1]
ScanFileBody(body) == {t \in DOMAIN Tool : HasCommandUse(body, Tool[t])}

(* A tool is called where a whole word is its name, unless the word opens  *)
(* a parenthesis or follows a closed one.                                  *)
WordAt(body, i, j) ==
    /\ \A k \in i .. j : LetterAt(body, k) \in {"c", "g"}
    /\ LetterAt(body, i - 1) \notin {"c", "g"} /\ LetterAt(body, j + 1) \notin {"c", "g"}
Called(body, t) ==
    \E i, j \in DOMAIN body :
        /\ i <= j /\ WordAt(body, i, j) /\ SubSeq(body, i, j) = Tool[t]
        /\ LetterAt(body, i - 1) # ")" /\ LetterAt(body, j + 1) # "("

(***************************************************************************)
(* Links                                                                   *)
(***************************************************************************)
(* The current directory, or an absolute --workspace.  (Under a relative   *)
(* one the path of a "../" target would get the workspace twice.)          *)
Workspace == <<"/", "w">>
SpecDir == Workspace \o <<"specs">>

(* normalize: Path::pop stops at the root.                                 *)
NormalStep(path, c) ==
    CASE c = ".." -> IF path = <<"/">> THEN path ELSE Front(path)
      [] c = "." -> path
      [] OTHER -> Append(path, c)
Normalize(path) == FoldLeft(NormalStep, <<>>, path)

(* resolve_annotation_link, joined to the workspace; what follows # or ::  *)
(* is left out.                                                            *)
ClimbsOut(target) == Len(target) > 1 /\ target[1] = ".."
Resolved(target) ==
    IF ClimbsOut(target) THEN Normalize(SpecDir \o target) ELSE Workspace \o target

(* Where a path leads in a file system without symbolic links: a name      *)
(* stays that no later ".." takes back.                                    *)
Arrival(path) ==
    LET up(i, j) == Cardinality({k \in i .. j : path[k] = ".."})
        down(i, j) == Cardinality({k \in i .. j : path[k] \notin {"..", "."}})
        stays(i) == /\ path[i] \notin {"..", "."}
                    /\ i = 1 \/ \A j \in i + 1 .. Len(path) : up(i + 1, j) <= down(i + 1, j)
    IN [k \in 1 .. Cardinality({i \in DOMAIN path : stays(i)}) |->
          path[CHOOSE i \in DOMAIN path :
                 stays(i) /\ Cardinality({h \in 1 .. i : stays(h)}) = k]]

(***************************************************************************)
(* collect_deps.  files has the bodies of what can be opened, by where it  *)
(* lies.  A row without an annotation links nothing.                       *)
(***************************************************************************)
LinkRows == [kind : {"[verify]", "none"}, target : BoundedSeq({"..", ".", "t"}, 4) \ {<<>>}]
Unreadable == <<"unreadable">>
Refused == [error |-> TRUE, packages |-> {}]
Found(packages) == [error |-> FALSE, packages |-> packages]

CollectDeps(rows, files) ==
    LET paths == {Resolved(r.target) : r \in {q \in ToSet(rows) : q.kind # "none"}}
        read == {Arrival(p) : p \in paths} \cap DOMAIN files
    IN IF \E p \in read : files[p] = Unreadable THEN Refused
       ELSE Found(UNION {ScanFileBody(files[p]) : p \in read})

(* The linked file lies next to the spec for a target that climbs out of   *)
(* its directory, in the workspace otherwise.                              *)
DepsMeant(rows, files, found) ==
    LET linked == {Arrival((IF ClimbsOut(r.target) THEN SpecDir ELSE Workspace) \o r.target) :
                     r \in {q \in ToSet(rows) : q.kind # "none"}}
        read == linked \cap DOMAIN files
    IN found = IF \E p \in read : files[p] = Unreadable THEN Refused
               ELSE Found({t \in DOMAIN Tool : \E p \in read : Called(files[p], t)})
===============================================================================
