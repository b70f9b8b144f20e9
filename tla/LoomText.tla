------------------------------- MODULE LoomText -------------------------------
(***************************************************************************)
(* The pure parts of loom, run on every small input: a job names one       *)
(* function and its arguments, the step computes the result, and the       *)
(* properties compare it with what the documentation of the function says. *)
(***************************************************************************)
EXTENDS LoomMarkdown, LoomDeps, LoomTodo, LoomLogs, LoomSink

CONSTANTS
    MaxLines,   \* bound on the lines of a text
    MaxEntries, \* bound on the files of the log directory and on a sink's calls
    MaxDays     \* bound on the days since the epoch that are tried

ASSUME TextAssumption ==
    /\ MaxLines \in Nat /\ MaxEntries \in Nat /\ MaxDays \in Nat
    /\ None \notin Revs \cup BackendNames \cup {"strict", "lax"}

VARIABLES
    job,   \* the function called and its arguments
    done,
    out    \* its result

vars == <<job, done, out>>

(* The last second of a day, and one in the middle of it (12:34:56).       *)
DayEnd == 86399
Midday == 45296

(* Days for the audit log: some decades, and the end of February 2100.     *)
AuditDays == 0 .. MaxDays \div 10 \cup 47540 - 60 .. 47540 + 400

Texts(lines) == BoundedSeq(lines, MaxLines)

(* Files in and around a workspace, one of them unreadable.                *)
LinkedFiles(body) ==
    LET nextToWorkspace == <<"/", "t">>
        nextToSpec == <<"/", "w", "specs", "t">>
    IN [p \in {Workspace \o <<"t">>, nextToWorkspace, nextToSpec} |->
          IF p = nextToWorkspace THEN <<"c", "c">>
          ELSE IF p = nextToSpec THEN Unreadable ELSE body]

(* Calls that fail in one place at most: tool calls of all sizes, and      *)
(* other events that only the terminal may refuse.                         *)
TriedCalls ==
    {c \in Calls :
       /\ c.room = Plenty \/ (c.room <= Capacity /\ c.term)
       /\ c.kind # "tool" => c.size = 1
       /\ c.kind \in EventKinds \ {"tool"} => c.room = Plenty}

Init ==
    /\ done = FALSE /\ out = <<>>
    /\ \/ \E lines \in Texts(CompanionLines) : job = [fn |-> "companions", lines |-> lines]
       \/ \E lines \in Texts(AnnotationLines) : job = [fn |-> "annotations", lines |-> lines]
       \/ \E lines \in Texts(OptionLines), choice \in 0 .. 2 :
            job = [fn |-> "reply", lines |-> lines, choice |-> choice]
       \/ \E lines \in BoundedSeq(BoundedSeq(Words, 2), 3) : job = [fn |-> "exit", lines |-> lines]
       \/ \E body \in BoundedSeq(Letters, MaxLines + 1) :
            job = [fn |-> "deps", rows |-> <<[kind |-> "[verify]", target |-> <<"t">>]>>, body |-> body]
       \/ \E rows \in BoundedSeq(LinkRows, 2) :
            job = [fn |-> "deps", rows |-> rows, body |-> <<"g", "c", "c">>]
       \/ \E in \in AgentInputs, phase \in Phases : job = [fn |-> "agent", in |-> in, phase |-> phase]
       \/ \E in \in TierInputs : job = [fn |-> "todo", in |-> in]
       \/ \E entries \in BoundedSeq(Entries, MaxEntries), bead \in {"any", "wx-1"} :
            job = [fn |-> "logs", entries |-> entries, bead |-> bead]
       \/ \E files \in BoundedSeq(Times, MaxEntries), retention \in 0 .. 3 :
            \E stuck \in SUBSET DOMAIN files :
              job = [fn |-> "sweep", files |-> files, retention |-> retention, stuck |-> stuck]
       \/ \E calls \in BoundedSeq(TriedCalls, MaxEntries), verbose \in BOOLEAN :
            job = [fn |-> "sink", calls |-> calls, verbose |-> verbose]
       \/ \E days \in 0 .. MaxDays : job = [fn |-> "stamp", days |-> days, tod |-> DayEnd]
       \/ \E tod \in 0 .. DayEnd : job = [fn |-> "stamp", days |-> 0, tod |-> tod]
       \/ \E days \in AuditDays : job = [fn |-> "audit", days |-> days, tod |-> Midday]

Call(fn) == ~done /\ job.fn = fn /\ done' = TRUE /\ UNCHANGED job

ReadCompanions == Call("companions") /\ out' = ParseCompanions(job.lines)
ReadAnnotations == Call("annotations") /\ out' = ParseAnnotations(job.lines)
Reply == Call("reply") /\ out' = BuildFastReply(job.lines, job.choice)
ReadVerdict == Call("exit") /\ out' = ParseExitSignal(job.lines)
ScanDeps == Call("deps") /\ out' = CollectDeps(job.rows, LinkedFiles(job.body))
SelectAgent == Call("agent") /\ out' = ResolvedAgentFor(job.in, job.phase)
DecideTier == Call("todo") /\ out' = ComputeSpecDiff(job.in)
ShowLog == Call("logs") /\ out' = SelectLog(job.entries, job.bead)
SweepLogs == Call("sweep") /\ out' = Sweep(job.files, 2, job.retention, job.stuck)
RunSession == Call("sink") /\ out' = RunSinks(job.calls, job.verbose)
FormatStamp == Call("stamp") /\ out' = UtcParts(job.days, job.tod)
AuditStamp == Call("audit") /\ out' = AuditParts(job.days, job.tod)

Next ==
    \/ ReadCompanions \/ ReadAnnotations \/ ScanDeps \/ Reply \/ ReadVerdict
    \/ SelectAgent \/ DecideTier
    \/ ShowLog \/ SweepLogs \/ RunSession \/ FormatStamp \/ AuditStamp

Spec == Init /\ [][Next]_vars

-------------------------------------------------------------------------------
Done(fn) == done /\ job.fn = fn

(* What a reader returns is what a person would read in the text: the      *)
(* paths of the first Companions section; a row for every checkbox of the  *)
(* Success Criteria outside of code blocks with the annotation on its next *)
(* non-blank line, of texts that keep theirs there (parse_body would also  *)
(* take a later one, against annotations.rs:3-7); the tools that the       *)
(* linked files call; the option chosen with exactly its own text; the     *)
(* last verdict, with a reason wherever the output has one.                *)
TextReadAsWritten ==
    /\ Done("companions") => out = CompanionsDeclared(job.lines)
    /\ Done("annotations") /\ LinksFollow(job.lines) => out = CriteriaWritten(job.lines)
    /\ Done("deps") => DepsMeant(job.rows, LinkedFiles(job.body), out)
    /\ Done("reply") /\ KeepsContract(job.lines) =>
         out = IF job.choice = 0 THEN Verbatim ELSE OptionWritten(job.lines, job.choice)
    /\ Done("exit") => VerdictMeant(job.lines, out)

(* compute_spec_diff never starts a spec's diff at a commit that is not    *)
(* part of HEAD's history, never misses a change of the anchor since its   *)
(* commit, shows a sibling from its own commit, refuses an unusable        *)
(* --since and falls back to the whole spec only without a usable commit   *)
(* (tier.rs:88).  No command calls it yet.  resolved_agent_for selects the *)
(* agent that flag, phase and default name in this order, with that        *)
(* agent's settings (config/mod.rs:69-78, main.rs:457), except that it     *)
(* refuses an unknown configured name that --agent would cover up.         *)
TodoStartsAsConfigured ==
    /\ Done("todo") => DecisionMeant(job.in, out)
    /\ Done("agent") => AgentMeant(job.in, job.phase, out)

(* loom logs shows the newest log of the bead asked for (logs_cmd.rs); the *)
(* sweep removes no recent file and reports each old one it leaves         *)
(* (retention.rs:15-25).                                                     *)
LogsAreChosenAndSwept ==
    /\ Done("logs") => NewestShown(job.entries, job.bead, out)
    /\ Done("sweep") => SweepMeant(job.files, 2, job.retention, job.stuck, out)

(* Stamps follow the calendar second by second from the epoch, so one      *)
(* bead's logs sort by time (time.rs:5-9), and the audit log's stamps are  *)
(* the same instants (tmux-mcp audit.rs).                                  *)
StampsFollowTheCalendar ==
    /\ Done("stamp") =>
         /\ NextSecond(out) = IF job.tod < DayEnd THEN UtcParts(job.days, job.tod + 1)
                              ELSE UtcParts(job.days + 1, 0)
         /\ job.days = 0 /\ job.tod = 0 => out = Epoch
    /\ Done("audit") => out = UtcParts(job.days, job.tod)

(* Logs tell what happened and when.  The terminal shows only what is      *)
(* whole in the log, and what is written without a failure is whole there, *)
(* once and in order, and shown (sink.rs:18-22).  The exceptions are the   *)
(* events whose own write fails: they are never shown, though the log may  *)
(* have them later, in part or whole, or not at all; so the terminal falls *)
(* behind the log where sink.rs says that the two cannot diverge.  The     *)
(* right log is shown, the right ones are swept, and their stamps are the  *)
(* calendar's.                                                             *)
LogsTellWhatHappened ==
    /\ Done("sink") => SinksMeant(job.calls, job.verbose, out)
    /\ LogsAreChosenAndSwept
    /\ StampsFollowTheCalendar
===============================================================================
