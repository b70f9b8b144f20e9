----------------------------- MODULE LoomMarkdown -----------------------------
(***************************************************************************)
(* The line readers of loom: the `## Companions` section and the           *)
(* `## Success Criteria` annotations of a spec, the `## Options` block of  *)
(* a clarification bead, and the exit signal at the end of an agent's      *)
(* output.  A text is a sequence of lines, and of a line only its kind     *)
(* matters.  Each reader is the loop of the code, as a fold over the       *)
(* lines; next to it stands what its documentation says it returns, as a   *)
(* definition over positions.                                              *)
(***************************************************************************)
EXTENDS Naturals, Sequences, FiniteSets, SequencesExt

Positions(lines) == DOMAIN lines
NoneBetween(lines, i, j, kinds) ==
    \A k \in Positions(lines) : i < k /\ k < j => lines[k] \notin kinds

(***************************************************************************)
(* Companions (state/companions.rs)                                        *)
(***************************************************************************)
(* An item is a bullet with one path between backticks.  A malformed one   *)
(* has no path, several or an empty one; text is anything else.            *)
CompanionLines == {"## Companions", "# other", "item lib/", "item /lib/", "item doc",
                   "malformed", "text"}
Headings == {"## Companions", "# other"}
Items == {"item lib/", "item /lib/", "item doc"}

(* extract_backtick_path and normalize: the leading slash goes.            *)
PathIn(line) == IF line = "item doc" THEN "doc" ELSE "lib/"

CompanionStep(st, line) ==
    CASE st.at = "before" -> IF line = "## Companions" THEN [st EXCEPT !.at = "inside"] ELSE st
      [] st.at = "inside" /\ line \in Headings -> [st EXCEPT !.at = "after"]
      [] st.at = "inside" /\ line \in Items -> [st EXCEPT !.paths = Append(@, PathIn(line))]
      [] OTHER -> st
ParseCompanions(lines) == FoldLeft(CompanionStep, [at |-> "before", paths |-> <<>>], lines).paths

(* The paths of the bullets between the first `## Companions` and the next *)
(* heading, in order.                                                      *)
DeclaredAt(lines, j) ==
    \E i \in 1 .. j - 1 :
        /\ lines[i] = "## Companions" /\ NoneBetween(lines, 0, i, {"## Companions"})
        /\ NoneBetween(lines, i, j, Headings) /\ lines[j] \in Items
CompanionsDeclared(lines) ==
    [k \in 1 .. Cardinality({j \in Positions(lines) : DeclaredAt(lines, j)}) |->
       LET j == CHOOSE j \in Positions(lines) :
                  /\ DeclaredAt(lines, j)
                  /\ Cardinality({i \in 1 .. j : DeclaredAt(lines, i)}) = k
       IN PathIn(lines[j])]

(***************************************************************************)
(* Annotations (spec/annotations.rs)                                       *)
(***************************************************************************)
AnnotationLines == {"fence", "## Success Criteria", "## other", "- [ ]", "- [x]",
                    "[verify]", "[judge]", "blank", "text"}
Boxes == {"- [ ]", "- [x]"}
Links == {"[verify]", "[judge]"}

(* A row: the line of its criterion, checked or not, and its annotation.   *)
Row(box, link) == [at |-> box.at, checked |-> box.checked, link |-> link]
NoBox == [at |-> 0, checked |-> FALSE]
Flushed(st) == IF st.pending = NoBox THEN st.rows ELSE Append(st.rows, Row(st.pending, "none"))

(* Mutant: a heading that only comes up inside a code block counts.        *)
FenceIgnored(st, line) ==
    LET next == [st EXCEPT !.n = @ + 1] IN
    IF st.over THEN next ELSE
    CASE line = "## Success Criteria" -> [next EXCEPT !.inside = TRUE]
      [] st.inside /\ line = "## other" ->
           [next EXCEPT !.rows = Flushed(st), !.pending = NoBox, !.over = TRUE]
      [] st.inside /\ line \in Boxes ->
           [next EXCEPT !.rows = Flushed(st),
                        !.pending = [at |-> next.n, checked |-> line = "- [x]"]]
      [] st.inside /\ line \in Links /\ st.pending # NoBox ->
           [next EXCEPT !.rows = Append(@, Row(st.pending, line)), !.pending = NoBox]
      [] OTHER -> next
(* One turn of the loop of parse_body.                                     *)
AnnotationStep(st, line) ==
    LET next == [st EXCEPT !.n = @ + 1] IN
    IF st.over \/ (st.fence /\ line # "fence") THEN next ELSE
    CASE line = "fence" -> [next EXCEPT !.fence = ~@]
      [] line = "## Success Criteria" -> [next EXCEPT !.inside = TRUE]
      [] st.inside /\ line = "## other" ->
           [next EXCEPT !.rows = Flushed(st), !.pending = NoBox, !.over = TRUE]
      [] st.inside /\ line \in Boxes ->
           [next EXCEPT !.rows = Flushed(st),
                        !.pending = [at |-> next.n, checked |-> line = "- [x]"]]
      [] st.inside /\ line \in Links /\ st.pending # NoBox ->
           [next EXCEPT !.rows = Append(@, Row(st.pending, line)), !.pending = NoBox]
      [] OTHER -> next

(* parse_spec_annotations: without a criterion the file is refused, which  *)
(* is the empty result here.                                               *)
ParseAnnotations(lines) ==
    Flushed(FoldLeft(AnnotationStep, [n |-> 0, fence |-> FALSE, inside |-> FALSE, over |-> FALSE,
                                      pending |-> NoBox, rows |-> <<>>], lines))

(* The lines outside of code blocks, and the section among them.           *)
Fences(lines, i) == Cardinality({k \in 1 .. i : lines[k] = "fence"})
Plain(lines) == [i \in Positions(lines) |-> IF Fences(lines, i) % 2 = 0 THEN lines[i] ELSE "text"]
InCriteria(plain, j) ==
    \E i \in 1 .. j - 1 :
        /\ plain[i] = "## Success Criteria"
        /\ NoneBetween(plain, 0, i, {"## Success Criteria"})
        /\ NoneBetween(plain, i, j, {"## other"})
OnNextLine(plain, j, k) == NoneBetween(plain, j, k, AnnotationLines \ {"blank"})

(* Every checkbox of the section is a row, in order; its annotation is the *)
(* link on the next line that is not blank (annotations.rs:3-7).           *)
CriteriaWritten(lines) ==
    LET plain == Plain(lines)
        boxes == {j \in Positions(lines) : plain[j] \in Boxes /\ InCriteria(plain, j)}
        links(j) == {k \in Positions(lines) :
                       j < k /\ plain[k] \in Links /\ OnNextLine(plain, j, k)}
    IN [r \in 1 .. Cardinality(boxes) |->
          LET j == CHOOSE j \in boxes : Cardinality({i \in boxes : i <= j}) = r IN
          [at |-> j, checked |-> plain[j] = "- [x]",
           link |-> IF links(j) = {} THEN "none" ELSE plain[CHOOSE k \in links(j) : TRUE]]]

(* parse_body also takes a link further down, before the next checkbox or  *)
(* heading.  In these texts there is none.                                 *)
LinksFollow(lines) ==
    LET plain == Plain(lines) IN
    \A j, k \in Positions(lines) :
        /\ j < k /\ plain[j] \in Boxes /\ plain[k] \in Links
        /\ NoneBetween(plain, j, k, Boxes \cup Links \cup {"## other"})
        => OnNextLine(plain, j, k)

(***************************************************************************)
(* Options of a clarification (msg/options.rs, msg/reply.rs)               *)
(***************************************************************************)
OptionLines == {"## Options", "## other", "### Option 1", "### Option 2", "blank", "text"}
OptionHeadings == {"### Option 1", "### Option 2"}
SectionHeadings == {"## Options", "## other"}
NumberOf(heading) == IF heading = "### Option 1" THEN 1 ELSE 2

(* join_body: blank lines at either end go.                                *)
Written(body) == {i \in DOMAIN body : body[i] # "blank"}
JoinBody(body) ==
    IF Written(body) = {} THEN <<>>
    ELSE SubSeq(body, Min(Written(body)), Max(Written(body)))

NoEntry == [n |-> 0, body |-> <<>>]
Closed(st) ==
    IF st.current = NoEntry THEN st.options
    ELSE Append(st.options, [st.current EXCEPT !.body = JoinBody(@)])

(* One turn of the loop of parse_options.  Any second-level heading ends   *)
(* the block, another Options heading included.                            *)
OptionStep(st, line) ==
    CASE ~st.inside -> [st EXCEPT !.inside = line = "## Options"]
      [] st.inside /\ line \in OptionHeadings ->
           [st EXCEPT !.options = Closed(st),
                      !.current = [n |-> NumberOf(line), body |-> <<>>]]
      [] st.inside /\ line \in SectionHeadings ->
           [st EXCEPT !.options = Closed(st), !.current = NoEntry, !.inside = FALSE]
      [] st.inside /\ line \notin OptionHeadings \cup SectionHeadings /\ st.current # NoEntry ->
           [st EXCEPT !.current.body = Append(@, line)]
      [] OTHER -> st
ParseOptions(lines) ==
    Closed(FoldLeft(OptionStep, [inside |-> FALSE, current |-> NoEntry, options |-> <<>>], lines))

(* build_fast_reply: a number picks the first option with that number;     *)
(* anything else (0 here) is the note as it stands.                        *)
Missing == [n |-> 3, body |-> <<>>]
Verbatim == NoEntry
ResolveOption(options, n) ==
    LET hits == {i \in DOMAIN options : options[i].n = n} IN
    IF hits = {} THEN Missing ELSE options[Min(hits)]
BuildFastReply(lines, choice) ==
    IF choice = 0 THEN Verbatim ELSE ResolveOption(ParseOptions(lines), choice)

(* The contract (options.rs:1-17): one Options block, which the next       *)
(* second-level heading ends; an option extends to the next heading.       *)
KeepsContract(lines) == Cardinality({i \in Positions(lines) : lines[i] = "## Options"}) <= 1
OptionAt(lines, n, j) ==
    /\ lines[j] \in OptionHeadings /\ NumberOf(lines[j]) = n
    /\ \E i \in 1 .. j - 1 : lines[i] = "## Options" /\ NoneBetween(lines, i, j, {"## other"})
OptionWritten(lines, n) ==
    IF \A j \in Positions(lines) : ~OptionAt(lines, n, j) THEN Missing
    ELSE LET j == Min({i \in Positions(lines) : OptionAt(lines, n, i)})
             own == {k \in Positions(lines) :
                       /\ j < k /\ lines[k] = "text"
                       /\ NoneBetween(lines, j, k, OptionHeadings \cup SectionHeadings)}
         IN IF own = {} THEN [n |-> n, body |-> <<>>]
            ELSE [n |-> n, body |-> SubSeq(lines, Min(own), Max(own))]

(***************************************************************************)
(* Exit signal (todo/exit.rs).  A line is a sequence of words.             *)
(***************************************************************************)
Words == {"why", "LOOM_COMPLETE", "LOOM_BLOCKED", "LOOM_CLARIFY"}
Has(line, marker) == \E i \in DOMAIN line : line[i] = marker

(* reason_for: the text before the marker, or the last line before it that *)
(* is not empty.                                                           *)
Before(line, marker) ==
    SubSeq(line, 1, (CHOOSE i \in DOMAIN line :
                       line[i] = marker /\ \A j \in 1 .. i - 1 : line[j] # marker) - 1)
ReasonFor(marker, line, prior) ==
    LET full == {i \in DOMAIN prior : prior[i] # <<>>} IN
    IF Before(line, marker) # <<>> THEN Before(line, marker)
    ELSE IF full = {} THEN <<>> ELSE prior[Max(full)]

NoSignal == [signal |-> "none", reason |-> <<>>]
ExitStep(output, last, i) ==
    CASE Has(output[i], "LOOM_BLOCKED") ->
           [signal |-> "LOOM_BLOCKED",
            reason |-> ReasonFor("LOOM_BLOCKED", output[i], SubSeq(output, 1, i - 1))]
      [] Has(output[i], "LOOM_CLARIFY") /\ ~Has(output[i], "LOOM_BLOCKED") ->
           [signal |-> "LOOM_CLARIFY",
            reason |-> ReasonFor("LOOM_CLARIFY", output[i], SubSeq(output, 1, i - 1))]
      [] Has(output[i], "LOOM_COMPLETE") /\ ~Has(output[i], "LOOM_BLOCKED")
           /\ ~Has(output[i], "LOOM_CLARIFY") -> [signal |-> "LOOM_COMPLETE", reason |-> <<>>]
      [] OTHER -> last
ParseExitSignal(output) ==
    FoldLeft(LAMBDA last, i : ExitStep(output, last, i), NoSignal,
             [i \in DOMAIN output |-> i])

(* The last match is the verdict (exit.rs:26-28), lines being the unit: of *)
(* several markers on one line the least favourable counts.                *)
Marked(output) == {i \in DOMAIN output : \E w \in Words \ {"why"} : Has(output[i], w)}
VerdictMeant(output, found) ==
    IF Marked(output) = {} THEN found = NoSignal
    ELSE LET end == output[Max(Marked(output))] IN
         /\ Has(end, found.signal)
         /\ Has(end, "LOOM_BLOCKED") => found.signal = "LOOM_BLOCKED"
         /\ found.signal = "LOOM_COMPLETE" =>
              found.reason = <<>> /\ ~Has(end, "LOOM_CLARIFY")
         /\ found.signal # "LOOM_COMPLETE" /\ found.reason = <<>> =>
              end[1] = found.signal /\ \A i \in 1 .. Max(Marked(output)) - 1 : output[i] = <<>>
===============================================================================
