---------------------------- MODULE LoomText_proofs ----------------------------
(***************************************************************************)
(* Proofs about LoomText: what loom todo starts from, which agent runs,    *)
(* which logs are shown and swept, what they are called and what they      *)
(* hold, and what is read in a text.                                       *)
(***************************************************************************)
EXTENDS LoomText, WellFoundedInduction, FiniteSetTheorems, TLAPS

(***************************************************************************)
(* Jobs                                                                    *)
(***************************************************************************)
LinkingRows == [kind : {"[verify]", "none"}, target : Seq({"..", ".", "t"})]

(* The arguments of the functions ...                                      *)
JobTyped ==
  /\ job.fn = "companions" => job.lines \in Seq(CompanionLines)
  /\ job.fn = "annotations" => job.lines \in Seq(AnnotationLines)
  /\ job.fn = "reply" => job.lines \in Seq(OptionLines) /\ job.choice \in 0 .. 2
  /\ job.fn = "exit" => job.lines \in Seq(Seq(Words))
  /\ job.fn = "deps" => job.rows \in Seq(LinkingRows) /\ job.body \in Seq(Letters)
  /\ job.fn = "todo" => job.in \in TierInputs
  /\ job.fn = "agent" => job.in \in AgentInputs /\ job.phase \in Phases
  /\ job.fn = "logs" => job.entries \in Seq(Entries) /\ job.bead \in {"any", "wx-1"}
  /\ job.fn = "sweep" => job.files \in Seq(Times) /\ job.retention \in 0 .. 3
  /\ job.fn = "sink" => job.calls \in Seq(Calls) /\ job.verbose \in BOOLEAN
  /\ job.fn \in {"stamp", "audit"} => job.days \in Nat /\ job.tod \in Nat /\ job.tod <= DayEnd

(* ... and their results.                                                  *)
Computed ==
  /\ Done("companions") => out = ParseCompanions(job.lines)
  /\ Done("annotations") => out = ParseAnnotations(job.lines)
  /\ Done("reply") => out = BuildFastReply(job.lines, job.choice)
  /\ Done("exit") => out = ParseExitSignal(job.lines)
  /\ Done("deps") => out = CollectDeps(job.rows, LinkedFiles(job.body))
  /\ Done("todo") => out = ComputeSpecDiff(job.in)
  /\ Done("agent") => out = ResolvedAgentFor(job.in, job.phase)
  /\ Done("logs") => out = SelectLog(job.entries, job.bead)
  /\ Done("sweep") => out = Sweep(job.files, 2, job.retention, job.stuck)
  /\ Done("sink") => out = RunSinks(job.calls, job.verbose)
  /\ Done("stamp") => out = UtcParts(job.days, job.tod)
  /\ Done("audit") => out = AuditParts(job.days, job.tod)

TextInv == JobTyped /\ Computed

-------------------------------------------------------------------------------
(* A bounded sequence is a sequence.                                       *)
LEMMA BoundedIsSeq ==
  ASSUME NEW S, NEW n \in Nat, NEW s \in BoundedSeq(S, n)
  PROVE  s \in Seq(S)
BY DEF BoundedSeq, SeqOf

(* A call is started with arguments its function can take.                 *)
LEMMA JobsAreTyped == Init => JobTyped
<1> SUFFICES ASSUME Init PROVE JobTyped
  OBVIOUS
<1> USE DEF JobTyped
<1>0. MaxEntries \in Nat /\ MaxDays \in Nat /\ DayEnd \in Nat /\ MaxLines \in Nat /\ MaxLines + 1 \in Nat
  BY TextAssumption, SMT DEF DayEnd
<1>1. /\ \A lines \in Texts(CompanionLines) : job = [fn |-> "companions", lines |-> lines] => JobTyped
      /\ \A lines \in Texts(AnnotationLines) : job = [fn |-> "annotations", lines |-> lines] => JobTyped
      /\ \A lines \in Texts(OptionLines), choice \in 0 .. 2 :
           job = [fn |-> "reply", lines |-> lines, choice |-> choice] => JobTyped
  <2>1. ASSUME NEW S, NEW lines \in Texts(S) PROVE lines \in Seq(S)
    BY <1>0, BoundedIsSeq DEF Texts
  <2>2. ASSUME NEW lines \in Texts(CompanionLines), job = [fn |-> "companions", lines |-> lines] PROVE JobTyped
    BY <2>1, <2>2
  <2>3. ASSUME NEW lines \in Texts(AnnotationLines), job = [fn |-> "annotations", lines |-> lines] PROVE JobTyped
    BY <2>1, <2>3
  <2>4. ASSUME NEW lines \in Texts(OptionLines), NEW choice \in 0 .. 2,
               job = [fn |-> "reply", lines |-> lines, choice |-> choice]
        PROVE  JobTyped
    BY <2>1, <2>4
  <2> HIDE DEF JobTyped
  <2> QED BY <2>2, <2>3, <2>4
<1>12. ASSUME NEW lines \in BoundedSeq(BoundedSeq(Words, 2), 3), job = [fn |-> "exit", lines |-> lines] PROVE JobTyped
  <2>1. lines \in Seq(BoundedSeq(Words, 2)) BY BoundedIsSeq
  <2>2. BoundedSeq(Words, 2) \subseteq Seq(Words) BY BoundedIsSeq
  <2>3. lines \in Seq(Seq(Words)) BY <2>1, <2>2
  <2> QED BY <1>12, <2>3
<1>13. ASSUME NEW rows, NEW body, job = [fn |-> "deps", rows |-> rows, body |-> body],
              rows \in Seq(LinkingRows), body \in Seq(Letters)
       PROVE  JobTyped
  BY <1>13
<1>14. \A body \in BoundedSeq(Letters, MaxLines + 1) :
         /\ <<[kind |-> "[verify]", target |-> <<"t">>]>> \in Seq(LinkingRows)
         /\ body \in Seq(Letters)
  <2>1. \A body \in BoundedSeq(Letters, MaxLines + 1) : body \in Seq(Letters)
    BY <1>0, BoundedIsSeq
  <2>2. [kind |-> "[verify]", target |-> <<"t">>] \in LinkingRows BY DEF LinkingRows
  <2>3. \A x \in LinkingRows : <<x>> \in Seq(LinkingRows) OBVIOUS
  <2> QED BY <2>1, <2>2, <2>3
<1>15. \A rows \in BoundedSeq(LinkRows, 2) : rows \in Seq(LinkingRows) /\ <<"g", "c", "c">> \in Seq(Letters)
  <2>1. LinkRows \subseteq LinkingRows BY BoundedIsSeq DEF LinkRows, LinkingRows
  <2>2. \A rows \in BoundedSeq(LinkRows, 2) : rows \in Seq(LinkRows) BY BoundedIsSeq
  <2>3. \A rows \in Seq(LinkRows) : rows \in Seq(LinkingRows) BY <2>1
  <2>4. "g" \in Letters /\ "c" \in Letters BY DEF Letters
  <2> QED BY <2>2, <2>3, <2>4
<1>2. ASSUME NEW in \in AgentInputs, NEW phase \in Phases, job = [fn |-> "agent", in |-> in, phase |-> phase]
      PROVE  JobTyped
  BY <1>2
<1>3. ASSUME NEW in \in TierInputs, job = [fn |-> "todo", in |-> in] PROVE JobTyped
  BY <1>3
<1>4. ASSUME NEW entries \in BoundedSeq(Entries, MaxEntries), NEW bead \in {"any", "wx-1"},
             job = [fn |-> "logs", entries |-> entries, bead |-> bead]
      PROVE  JobTyped
  <2>1. entries \in Seq(Entries) BY <1>0, BoundedIsSeq
  <2> QED BY <1>4, <2>1
<1>5. ASSUME NEW files \in BoundedSeq(Times, MaxEntries), NEW retention \in 0 .. 3, NEW stuck,
             job = [fn |-> "sweep", files |-> files, retention |-> retention, stuck |-> stuck]
      PROVE  JobTyped
  <2>1. files \in Seq(Times) BY <1>0, BoundedIsSeq
  <2> QED BY <1>5, <2>1
<1>6. ASSUME NEW calls \in BoundedSeq(TriedCalls, MaxEntries), NEW verbose \in BOOLEAN,
             job = [fn |-> "sink", calls |-> calls, verbose |-> verbose]
      PROVE  JobTyped
  <2>1. calls \in Seq(TriedCalls) /\ TriedCalls \subseteq Calls BY <1>0, BoundedIsSeq DEF TriedCalls
  <2>2. calls \in Seq(Calls) BY <2>1
  <2> QED BY <1>6, <2>2
<1>7. ASSUME NEW days \in Nat, NEW tod \in Nat, tod <= DayEnd, NEW fn \in {"stamp", "audit"},
             job = [fn |-> fn, days |-> days, tod |-> tod]
      PROVE  JobTyped
  BY <1>7
<1>8. ASSUME NEW days \in 0 .. MaxDays, job = [fn |-> "stamp", days |-> days, tod |-> DayEnd]
      PROVE  JobTyped
  BY <1>0, <1>8, SMT
<1>9. ASSUME NEW tod \in 0 .. DayEnd, job = [fn |-> "stamp", days |-> 0, tod |-> tod]
      PROVE  JobTyped
  BY <1>0, <1>9, SMT
<1>10. ASSUME NEW days \in AuditDays, job = [fn |-> "audit", days |-> days, tod |-> Midday]
       PROVE  JobTyped
  <2>1. days \in Nat BY <1>0, SMT DEF AuditDays
  <2>2. Midday \in Nat /\ Midday <= DayEnd BY SMT DEF DayEnd, Midday
  <2> QED BY <1>10, <2>1, <2>2, SMT
<1> HIDE DEF JobTyped
<1>11. \/ \E lines \in Texts(CompanionLines) : job = [fn |-> "companions", lines |-> lines]
       \/ \E lines \in Texts(AnnotationLines) : job = [fn |-> "annotations", lines |-> lines]
       \/ \E lines \in Texts(OptionLines), choice \in 0 .. 2 :
            job = [fn |-> "reply", lines |-> lines, choice |-> choice]
       \/ \E lines \in BoundedSeq(BoundedSeq(Words, 2), 3) : job = [fn |-> "exit", lines |-> lines]
       \/ \E body \in BoundedSeq(Letters, MaxLines + 1) :
            job = [fn |-> "deps", rows |-> <<[kind |-> "[verify]", target |-> <<"t">>]>>, body |-> body]
       \/ \E rows \in BoundedSeq(LinkRows, 2) :
            job = [fn |-> "deps", rows |-> rows, body |-> <<"g", "c", "c">>]
       \/ \E in \in AgentInputs, phase \in Phases : job = [fn |-> "agent", in |-> in, phase |-> phase]
       \/ \E in \in TierInputs : job = [fn |-> "todo", in |-> in]
       \/ \E entries \in BoundedSeq(Entries, MaxEntries), bead \in {"any", "wx-1"} :
            job = [fn |-> "logs", entries |-> entries, bead |-> bead]
       \/ \E files \in BoundedSeq(Times, MaxEntries), retention \in 0 .. 3 : \E stuck :
            job = [fn |-> "sweep", files |-> files, retention |-> retention, stuck |-> stuck]
       \/ \E calls \in BoundedSeq(TriedCalls, MaxEntries), verbose \in BOOLEAN :
            job = [fn |-> "sink", calls |-> calls, verbose |-> verbose]
       \/ \E days \in 0 .. MaxDays : job = [fn |-> "stamp", days |-> days, tod |-> DayEnd]
       \/ \E tod \in 0 .. DayEnd : job = [fn |-> "stamp", days |-> 0, tod |-> tod]
       \/ \E days \in AuditDays : job = [fn |-> "audit", days |-> days, tod |-> Midday]
  BY Zenon DEF Init
<1> QED
  BY <1>1, <1>2, <1>3, <1>4, <1>5, <1>6, <1>8, <1>9, <1>10, <1>11, <1>12, <1>13, <1>14, <1>15, Zenon

(* A call has the arguments it was started with and returns what its       *)
(* function computes: the functions of loom keep no state.                 *)
LEMMA TextInvariance == Spec => []TextInv
<1>1. Init => TextInv
  BY JobsAreTyped DEF Init, TextInv, Computed, Done
<1>2. TextInv /\ [Next]_vars => TextInv'
  <2> SUFFICES ASSUME TextInv, [Next]_vars PROVE TextInv'
    OBVIOUS
  <2>1. CASE UNCHANGED vars
    BY <2>1 DEF vars, TextInv, JobTyped, Computed, Done
  <2>2. CASE Next
    <3>1. job' = job
      BY <2>2, Zenon DEF Next, Call, ReadCompanions, ReadAnnotations, Reply, ReadVerdict, ScanDeps,
         SelectAgent, DecideTier, ShowLog, SweepLogs, RunSession, FormatStamp, AuditStamp
    <3>2. JobTyped'
      BY <3>1 DEF TextInv, JobTyped
    <3>3. Computed'
      <4> USE DEF Computed, Done, Call
      <4>1. CASE ReadCompanions BY <4>1 DEF ReadCompanions
      <4>2. CASE ReadAnnotations BY <4>2 DEF ReadAnnotations
      <4>3. CASE Reply BY <4>3 DEF Reply
      <4>4. CASE ReadVerdict BY <4>4 DEF ReadVerdict
      <4>5. CASE ScanDeps BY <4>5 DEF ScanDeps
      <4>6. CASE SelectAgent BY <4>6 DEF SelectAgent
      <4>7. CASE DecideTier BY <4>7 DEF DecideTier
      <4>8. CASE ShowLog BY <4>8 DEF ShowLog
      <4>9. CASE SweepLogs BY <4>9 DEF SweepLogs
      <4>10. CASE RunSession BY <4>10 DEF RunSession
      <4>11. CASE FormatStamp BY <4>11 DEF FormatStamp
      <4>12. CASE AuditStamp BY <4>12 DEF AuditStamp
      <4> QED
        BY <2>2, <4>1, <4>2, <4>3, <4>4, <4>5, <4>6, <4>7, <4>8, <4>9, <4>10, <4>11, <4>12
        DEF Next
    <3> QED BY <3>2, <3>3 DEF TextInv
  <2> QED BY <2>1, <2>2
<1> QED
  BY <1>1, <1>2, PTL DEF Spec

(***************************************************************************)
(* What loom todo starts from, and with which agent                        *)
(***************************************************************************)
(* The base of a spec is its own commit where that is usable.              *)
LEMMA BaseIs ==
  ASSUME NEW in \in TierInputs, NEW base, Usable(IF in.since # None THEN in.since ELSE Stored(in)),
         base = IF in.since # None THEN in.since ELSE Stored(in)
  PROVE  /\ EffectiveBase(in, base, "anchor") = base
         /\ EffectiveBase(in, base, "sibling") = IF Usable(in.sibling) THEN in.sibling ELSE base
BY TextAssumption DEF EffectiveBase, Usable, Stored, TierInputs, Revs, RevExists, Commits, IsAncestorOfHead

(* Of every history, with every stored commit and every --since, the       *)
(* functions of tier.rs choose what DecisionMeant says.                    *)
LEMMA DecisionIsMeant == ASSUME NEW in \in TierInputs PROVE DecisionMeant(in, ComputeSpecDiff(in))
<1> DEFINE found == ComputeSpecDiff(in)
           start == IF in.since # None THEN in.since ELSE Stored(in)
           cursor == IF Usable(in.sibling) THEN in.sibling ELSE start
<1>1. Usable(start) <=> start # None /\ RevExists(start) /\ IsAncestorOfHead(start)
  BY DEF Usable, RevExists, Commits, Revs, IsAncestorOfHead
<1>2. in.since \in Revs \cup {None} /\ None \notin Revs
  BY TextAssumption DEF TierInputs
<1>3. CASE Usable(start)
  <2>1. found = Decision("diff", start, BuildFanout(in, start))
    BY <1>1, <1>2, <1>3 DEF ComputeSpecDiff, Stored, Usable
  <2>2. EffectiveBase(in, start, "anchor") = start /\ EffectiveBase(in, start, "sibling") = cursor
    BY <1>3, BaseIs
  <2>3. BuildFanout(in, start) =
          {[spec |-> s, from |-> IF s = "anchor" THEN start ELSE cursor] :
             s \in {c \in Specs : /\ in.at[start][c] # Current[c]
                                  /\ in.at[IF c = "anchor" THEN start ELSE cursor][c] # Current[c]}}
    <3>1. \A s \in Specs : EffectiveBase(in, start, s) = IF s = "anchor" THEN start ELSE cursor
      BY <2>2 DEF Specs
    <3> HIDE DEF start, cursor
    <3> QED BY <3>1 DEF BuildFanout, ChangedSpecFiles, Files
  <2> HIDE DEF start, cursor
  <2>9. \A c : c \in found.candidates <=>
          \/ in.at[start]["anchor"] # Current["anchor"] /\ c = [spec |-> "anchor", from |-> start]
          \/ /\ in.at[start]["sibling"] # Current["sibling"]
             /\ in.at[cursor]["sibling"] # Current["sibling"]
             /\ c = [spec |-> "sibling", from |-> cursor]
    BY <2>1, <2>3 DEF Decision, Specs
  <2>10. found.tier = "diff"
    BY <2>1 DEF Decision
  <2> HIDE DEF found
  <2>4. Candidate(found, "anchor") = IF in.at[start]["anchor"] # Current["anchor"] THEN {start} ELSE {}
    <3> DEFINE chosen == in.at[start]["anchor"] # Current["anchor"]
               c == [spec |-> "anchor", from |-> start]
    <3>1. \A d \in found.candidates : d.spec = "anchor" => chosen /\ d.from = start
      BY <2>9
    <3>2. chosen => c \in found.candidates
      BY <2>9
    <3>3. c.spec = "anchor" /\ c.from = start
      OBVIOUS
    <3> HIDE DEF c, chosen
    <3> QED BY <3>1, <3>2, <3>3 DEF Candidate, chosen
  <2>5. Candidate(found, "sibling") =
          IF in.at[start]["sibling"] # Current["sibling"] /\ in.at[cursor]["sibling"] # Current["sibling"]
          THEN {cursor} ELSE {}
    <3> DEFINE chosen == /\ in.at[start]["sibling"] # Current["sibling"]
                         /\ in.at[cursor]["sibling"] # Current["sibling"]
               c == [spec |-> "sibling", from |-> cursor]
    <3>1. \A d \in found.candidates : d.spec = "sibling" => chosen /\ d.from = cursor
      BY <2>9
    <3>2. chosen => c \in found.candidates
      BY <2>9
    <3>3. c.spec = "sibling" /\ c.from = cursor
      OBVIOUS
    <3> HIDE DEF c, chosen
    <3> QED BY <3>1, <3>2, <3>3 DEF Candidate, chosen
  <2>7. found.tier # "error" /\ found.tier # "new"
    BY <2>10
  <2>8. in.since # None => Usable(in.since)
    BY <1>3 DEF start
  <2> QED
    BY <1>3, <2>4, <2>5, <2>7, <2>8, <2>10 DEF DecisionMeant, start, cursor, found
<1>4. CASE ~Usable(start)
  <2>1. found = Whole(IF in.since # None THEN "error" ELSE IF in.molecule THEN "tasks" ELSE "new")
    BY <1>1, <1>2, <1>4 DEF ComputeSpecDiff, Stored, Usable
  <2>2. found.tier = IF in.since # None THEN "error" ELSE IF in.molecule THEN "tasks" ELSE "new"
    BY <2>1 DEF Whole, Decision
  <2>3. in.since # None => ~Usable(in.since)
    BY <1>4
  <2> HIDE DEF found
  <2> QED
    BY <1>4, <2>2, <2>3 DEF DecisionMeant, found
<1> QED
  BY <1>3, <1>4

(* Of every config.toml and --agent, the functions of config/mod.rs and    *)
(* main.rs choose the agent AgentMeant says.                               *)
LEMMA AgentIsMeant ==
  ASSUME NEW in \in AgentInputs, NEW phase \in Phases
  PROVE  AgentMeant(in, phase, ResolvedAgentFor(in, phase))
<1> DEFINE own == IF in.absent THEN NoOverride ELSE in.overrides[phase]
           named == IF own.backend # None THEN own.backend
                    ELSE IF in.absent THEN "claude" ELSE in.default
           config == Load(in)
           selection == AgentFor(config, phase)
           found == ResolvedAgentFor(in, phase)
<1>1. None \notin BackendNames \cup {"strict", "lax"}
  BY TextAssumption
<1>2. own \in Overrides /\ own = config.overrides[phase] /\ named \in BackendNames
  BY DEF AgentInputs, Overrides, NoOverride, Load, Defaults, BackendNames, AgentKinds
<1>3. named = IF own.backend # None THEN own.backend ELSE config.default
  BY DEF Load, Defaults
<1>4. config.settings \in {"strict", "lax"} /\ (~in.absent => config.settings = in.settings)
  BY DEF AgentInputs, Load, Defaults
<1>5. in.agent \in AgentKinds \cup {None}
  BY DEF AgentInputs
<1> HIDE DEF own, named, config
<1>6. selection = IF named \notin AgentKinds THEN UnknownBackend
                  ELSE Selection(named, own.model, ClaudeSettings(config, named))
  BY <1>2, <1>3 DEF AgentFor
<1>7. CASE named = "other"
  <2>1. selection = UnknownBackend
    BY <1>6, <1>7 DEF AgentKinds
  <2>2. found = UnknownBackend
    BY <2>1 DEF ResolvedAgentFor, config
  <2> QED
    BY <1>7, <2>2 DEF AgentMeant, own, named
<1>8. CASE named # "other"
  <2>1. named \in AgentKinds
    BY <1>2, <1>8 DEF BackendNames
  <2>2. selection = Selection(named, own.model, ClaudeSettings(config, named)) /\ selection # UnknownBackend
    BY <1>1, <1>6, <2>1 DEF Selection, UnknownBackend, BackendNames
  <2> DEFINE kind == IF in.agent # None THEN in.agent ELSE named
  <2>3. found = Selection(kind, own.model, ClaudeSettings(config, kind))
    <3> HIDE DEF selection
    <3>1. found = IF in.agent = None THEN selection
                  ELSE [selection EXCEPT !.kind = in.agent, !.settings = ClaudeSettings(config, in.agent)]
      BY <2>2 DEF ResolvedAgentFor, selection, config
    <3> QED
      BY <2>2, <3>1 DEF Selection
  <2>4. kind \in AgentKinds
    BY <1>5, <2>1
  <2> HIDE DEF kind, found, selection
  <2>5. found.kind = kind /\ found.model = own.model /\ found.settings = ClaudeSettings(config, kind)
    BY <2>3 DEF Selection
  <2>6. found # UnknownBackend
    BY <1>1, <2>4, <2>5 DEF UnknownBackend, Selection, BackendNames
  <2>7. found.settings # None <=> found.kind = "claude"
    BY <1>1, <1>4, <2>5 DEF ClaudeSettings
  <2>8. found.settings # None /\ ~in.absent => found.settings = in.settings
    BY <1>4, <2>5 DEF ClaudeSettings
  <2> QED
    BY <1>8, <2>5, <2>6, <2>7, <2>8 DEF AgentMeant, own, named, kind, found
<1> QED
  BY <1>2, <1>7, <1>8

(* For every history, cursor and flag compute_spec_diff starts each spec's *)
(* diff at a commit of HEAD's own history and misses no change since; for  *)
(* every config and flag resolved_agent_for selects the agent they name,   *)
(* or refuses an unknown configured name (todo/tier.rs, config/mod.rs,     *)
(* main.rs).                                                               *)
THEOREM TodoStartsRight == Spec => []TodoStartsAsConfigured
<1>1. TextInv => TodoStartsAsConfigured
  BY DecisionIsMeant, AgentIsMeant DEF TextInv, JobTyped, Computed, TodoStartsAsConfigured, Done
<1> QED
  BY <1>1, TextInvariance, PTL

(***************************************************************************)
(* The calendar                                                            *)
(***************************************************************************)
(* The place of a day in its era of 400 years from March on: the century,  *)
(* the four years in it, the year in these and the day in that year.       *)
PlaceInEra(c, q, t, u) ==
  /\ c \in Nat /\ q \in Nat /\ t \in Nat /\ u \in Nat
  /\ c <= 3 /\ q <= 24 /\ t <= 3 /\ u <= 365
  /\ u = 365 => t = 3 /\ (q = 24 => c = 3)
DayOfEra(c, q, t, u) == 36524 * c + 1461 * q + 365 * t + u

(* The fourth century has a day more than the others.                      *)
LEMMA Centuries ==
  ASSUME NEW doe \in Nat, doe <= 146096
  PROVE  \E c, r \in Nat : c <= 3 /\ r <= 36524 /\ doe = 36524 * c + r /\ (r = 36524 => c = 3)
<1>1. CASE doe = 146096
  <2>1. doe = 36524 * 3 + 36524
    BY <1>1, SMT
  <2> QED BY <2>1, SMT
<1>2. CASE doe # 146096
  <2> DEFINE c == doe \div 36524
             r == doe % 36524
  <2>1. c \in Nat /\ c <= 3 /\ r \in Nat /\ r < 36524 /\ doe = 36524 * c + r
    BY <1>2, SMT
  <2> HIDE DEF c, r
  <2> QED BY <2>1, SMT
<1> QED BY <1>1, <1>2, SMT

(* The last four years of a century may have a day less.                   *)
LEMMA FourYears ==
  ASSUME NEW r \in Nat, r <= 36524
  PROVE  \E q, s \in Nat : q <= 24 /\ s <= 1460 /\ r = 1461 * q + s
<1> DEFINE q == r \div 1461
           s == r % 1461
<1>1. q \in Nat /\ q <= 24 /\ s \in Nat /\ s <= 1460 /\ r = 1461 * q + s
  BY SMT
<1> HIDE DEF q, s
<1> QED BY <1>1, SMT

(* The fourth year has a day more than the others.                         *)
LEMMA SingleYears ==
  ASSUME NEW s \in Nat, s <= 1460
  PROVE  \E t, u \in Nat : t <= 3 /\ u <= 365 /\ s = 365 * t + u /\ (u = 365 => t = 3)
<1>1. CASE s = 1460
  <2>1. s = 365 * 3 + 365
    BY <1>1, SMT
  <2> QED BY <2>1, SMT
<1>2. CASE s # 1460
  <2> DEFINE t == s \div 365
             u == s % 365
  <2>1. t \in Nat /\ t <= 3 /\ u \in Nat /\ u < 365 /\ s = 365 * t + u
    BY <1>2, SMT
  <2> HIDE DEF t, u
  <2> QED BY <2>1, SMT
<1> QED BY <1>1, <1>2, SMT

(* Every day of an era has its place.                                      *)
LEMMA EveryDayHasItsPlace ==
  ASSUME NEW doe \in Nat, doe <= 146096
  PROVE  \E c, q, t, u : PlaceInEra(c, q, t, u) /\ doe = DayOfEra(c, q, t, u)
<1>1. PICK c, r \in Nat : c <= 3 /\ r <= 36524 /\ doe = 36524 * c + r /\ (r = 36524 => c = 3)
  BY Centuries, SMT
<1>2. PICK q, s \in Nat : q <= 24 /\ s <= 1460 /\ r = 1461 * q + s
  BY <1>1, FourYears, SMT
<1>3. PICK t, u \in Nat : t <= 3 /\ u <= 365 /\ s = 365 * t + u /\ (u = 365 => t = 3)
  BY <1>2, SingleYears, SMT
<1>4. ASSUME u = 365, q = 24 PROVE c = 3
  <2>1. r = 36524
    BY <1>2, <1>3, <1>4, SMT
  <2> QED BY <1>1, <2>1, SMT
<1>5. PlaceInEra(c, q, t, u)
  BY <1>1, <1>2, <1>3, <1>4, SMT DEF PlaceInEra
<1>6. doe = DayOfEra(c, q, t, u)
  BY <1>1, <1>2, <1>3, SMT DEF DayOfEra
<1> QED BY <1>5, <1>6, SMT

(* The year of an era and the day of the year, as civil_from_days computes *)
(* them (time.rs:57-59).                                                   *)
YearOfEra(doe) == (doe - doe \div 1460 + doe \div 36524 - doe \div 146096) \div 365
DayOfYear(doe) == doe - (365 * YearOfEra(doe) + YearOfEra(doe) \div 4 - YearOfEra(doe) \div 100)

(* The formula of civil_from_days finds the year: the quotients correct    *)
(* the days for the leap days, but for one day that the division drops.    *)
LEMMA YearIs ==
  ASSUME NEW c, NEW q, NEW t, NEW u, PlaceInEra(c, q, t, u)
  PROVE  YearOfEra(DayOfEra(c, q, t, u)) = 100 * c + 4 * q + t
<1> DEFINE doe == DayOfEra(c, q, t, u)
           r == 1461 * q + 365 * t + u
           k == IF 24 * c + q + 365 * t + u >= 1460 THEN 1 ELSE 0
<1> USE DEF PlaceInEra
<1>1. doe = 36524 * c + r /\ r \in Nat /\ r <= 36524 /\ doe \in Nat /\ (r = 36524 => c = 3)
  BY SMT DEF DayOfEra
<1>2. doe \div 1460 = 25 * c + q + k
  <2>1. doe = 1460 * (25 * c + q) + (24 * c + q + 365 * t + u)
    BY SMT DEF DayOfEra
  <2>2. 24 * c + q + 365 * t + u < 2920 /\ 24 * c + q + 365 * t + u >= 0
    BY SMT
  <2> HIDE DEF doe
  <2> QED BY <2>1, <2>2, SMT
<1>3. doe \div 36524 - doe \div 146096 = c
  <2> HIDE DEF doe, r
  <2>1. CASE r = 36524
    <3>1. doe = 146096
      BY <1>1, <2>1, SMT
    <3> QED BY <1>1, <2>1, <3>1, SMT
  <2>2. CASE r # 36524
    <3>1. doe \div 36524 = c
      BY <1>1, <2>2, SMT
    <3>2. doe \div 146096 = 0
      BY <1>1, <2>2, SMT
    <3> QED BY <3>1, <3>2, SMT
  <2> QED BY <2>1, <2>2, SMT
<1>4. doe - doe \div 1460 + doe \div 36524 - doe \div 146096 = 365 * (100 * c + 4 * q + t) + (u - k)
  <2>1. doe - (25 * c + q + k) + c = 365 * (100 * c + 4 * q + t) + (u - k)
    BY SMT DEF DayOfEra
  <2> HIDE DEF doe, k
  <2>2. doe \div 36524 \in Int /\ doe \div 146096 \in Int /\ doe \in Int
    BY <1>1, SMT
  <2>3. k \in Int
    BY SMT DEF k
  <2> QED BY <1>2, <1>3, <2>1, <2>2, <2>3, SMT
<1>5. u - k \in Int /\ u - k >= 0 /\ u - k < 365
  BY SMT
<1> HIDE DEF doe, k
<1>6. YearOfEra(doe) = (365 * (100 * c + 4 * q + t) + (u - k)) \div 365
  BY <1>4, SMT DEF YearOfEra
<1> QED BY <1>5, <1>6, SMT DEF doe

(* It finds the day of that year.                                          *)
LEMMA DayIs ==
  ASSUME NEW c, NEW q, NEW t, NEW u, PlaceInEra(c, q, t, u)
  PROVE  DayOfYear(DayOfEra(c, q, t, u)) = u
<1> DEFINE y == 100 * c + 4 * q + t
<1>1. y \div 4 = 25 * c + q /\ y \div 100 = c
  BY SMT DEF PlaceInEra
<1>2. DayOfEra(c, q, t, u) - (365 * y + (25 * c + q) - c) = u
  BY SMT DEF DayOfEra, PlaceInEra
<1> HIDE DEF y
<1> QED BY <1>1, <1>2, YearIs, SMT DEF DayOfYear, y

(* The year that begins with the next January is a leap year where the     *)
(* March year has 366 days.                                                *)
LEMMA LeapIs ==
  ASSUME NEW c, NEW q, NEW t, NEW u, PlaceInEra(c, q, t, u), NEW era \in Nat
  PROVE  Leap(400 * era + 100 * c + 4 * q + t + 1) <=> (t = 3 /\ (q # 24 \/ c = 3))
<1> DEFINE y == 400 * era + 100 * c + 4 * q + t + 1
<1>1. y % 4 = 0 <=> t = 3
  BY SMT DEF PlaceInEra
<1>2. ASSUME t = 3 PROVE y % 100 = 0 <=> q = 24
  BY <1>2, SMT DEF PlaceInEra
<1>3. ASSUME t = 3, q = 24 PROVE y % 400 = 0 <=> c = 3
  BY <1>3, SMT DEF PlaceInEra
<1> HIDE DEF y
<1> QED BY <1>1, <1>2, <1>3, SMT DEF Leap, y

(* The leap days up to the end of a year, the days from 1970 to the first  *)
(* of January of a year, and the days of a year before a month.            *)
LeapDays(y) == y \div 4 - y \div 100 + y \div 400
NewYear(y) == 365 * y + LeapDays(y - 1) - 719527
BeforeMonth(y, m) ==
  LET l == IF Leap(y) THEN 1 ELSE 0 IN
  CASE m = 1 -> 0 [] m = 2 -> 31 [] m = 3 -> 59 + l [] m = 4 -> 90 + l [] m = 5 -> 120 + l
    [] m = 6 -> 151 + l [] m = 7 -> 181 + l [] m = 8 -> 212 + l [] m = 9 -> 243 + l
    [] m = 10 -> 273 + l [] m = 11 -> 304 + l [] m = 12 -> 334 + l

(* A date of the calendar, and the number of its day from 1970 on.         *)
IsDate(d) ==
  /\ d = Date(d.year, d.month, d.day) /\ d.year \in Nat \ {0}
  /\ d.month \in 1 .. 12 /\ d.day \in Nat \ {0} /\ d.day <= Days(d.year, d.month)
DayNumber(d) == NewYear(d.year) + BeforeMonth(d.year, d.month) + d.day - 1

(* A leap year adds a leap day.                                            *)
LEMMA LeapDaysOf ==
  ASSUME NEW y \in Nat \ {0}
  PROVE  LeapDays(y) = LeapDays(y - 1) + (IF Leap(y) THEN 1 ELSE 0)
<1>1. y \div 4 = (y - 1) \div 4 + (IF y % 4 = 0 THEN 1 ELSE 0)
  BY SMT
<1>2. y \div 100 = (y - 1) \div 100 + (IF y % 100 = 0 THEN 1 ELSE 0)
  BY SMT
<1>3. y \div 400 = (y - 1) \div 400 + (IF y % 400 = 0 THEN 1 ELSE 0)
  BY SMT
<1>4. (y % 100 = 0 => y % 4 = 0) /\ (y % 400 = 0 => y % 100 = 0)
  BY SMT
<1> QED BY <1>1, <1>2, <1>3, <1>4, SMT DEF LeapDays, Leap

(* A year later the year begins 365 or 366 days later.                     *)
LEMMA NextNewYear ==
  ASSUME NEW y \in Nat \ {0}
  PROVE  /\ NewYear(y) \in Int
         /\ NewYear(y + 1) = NewYear(y) + 365 + (IF Leap(y) THEN 1 ELSE 0)
<1>1. LeapDays(y - 1) \in Int
  BY SMT DEF LeapDays
<1>2. NewYear(y + 1) = 365 * (y + 1) + LeapDays(y) - 719527
  BY SMT DEF NewYear
<1> QED BY <1>1, <1>2, LeapDaysOf, SMT DEF NewYear

(* The months of a year follow each other and fill it.                     *)
LEMMA MonthsFollow ==
  ASSUME NEW y \in Nat \ {0}, NEW m \in 1 .. 12
  PROVE  /\ BeforeMonth(y, m) \in Nat /\ Days(y, m) \in Nat /\ Days(y, m) >= 28
         /\ m < 12 => BeforeMonth(y, m + 1) = BeforeMonth(y, m) + Days(y, m)
         /\ m = 12 => BeforeMonth(y, m) + Days(y, m) = 365 + (IF Leap(y) THEN 1 ELSE 0)
<1>1. m \in {1, 2, 3, 4, 5, 6, 7, 8, 9, 10, 11, 12}
  BY SMT
<1> QED BY <1>1, SMT DEF BeforeMonth, Days

(* The same in names, for places where the terms are large.                *)
MonthFits(y, m) ==
  /\ BeforeMonth(y, m) \in Nat /\ Days(y, m) \in Nat
  /\ m < 12 => BeforeMonth(y, m + 1) = BeforeMonth(y, m) + Days(y, m)
  /\ m = 12 => BeforeMonth(y, m) + Days(y, m) = 365 + (IF Leap(y) THEN 1 ELSE 0)

(* Every month of a year fits (civil_from_days, time.rs:51-70).            *)
LEMMA MonthsFit ==
  \A y \in Nat \ {0}, m \in 1 .. 12 : MonthFits(y, m) /\ NewYear(y) \in Int /\ BeforeMonth(y, m) \in Nat
<1> TAKE y \in Nat \ {0}, m \in 1 .. 12
<1>1. m \in {1, 2, 3, 4, 5, 6, 7, 8, 9, 10, 11, 12}
  BY SMT
<1>2. MonthFits(y, m)
  BY <1>1, SMT DEF MonthFits, BeforeMonth, Days
<1>3. NewYear(y) \in Int
  BY NextNewYear
<1> QED BY <1>2, <1>3, Zenon DEF MonthFits

(* The months from March on: their lengths are those of the formula, which *)
(* spreads 153 days over five months (time.rs:60-62).                      *)
LEMMA MarchMonths ==
  ASSUME NEW y \in Nat \ {0}, NEW mp \in 0 .. 9, NEW l \in Int, l = IF Leap(y) THEN 1 ELSE 0
  PROVE  /\ BeforeMonth(y, mp + 3) = 59 + l + (153 * mp + 2) \div 5
         /\ \A u \in Nat : (5 * u + 2) \div 153 = mp => u - (153 * mp + 2) \div 5 + 1 <= Days(y, mp + 3)
<1>1. mp \in {0, 1, 2, 3, 4, 5, 6, 7, 8, 9}
  BY SMT
<1>2. BeforeMonth(y, mp + 3) = 59 + l + (153 * mp + 2) \div 5
  BY <1>1, SMT DEF BeforeMonth
<1>3. ASSUME NEW u \in Nat, (5 * u + 2) \div 153 = mp
      PROVE  u - (153 * mp + 2) \div 5 + 1 <= Days(y, mp + 3)
  <2>1. 5 * u + 2 < 153 * mp + 153
    BY <1>3, SMT
  <2>2. Days(y, mp + 3) = IF mp + 3 \in {4, 6, 9, 11} THEN 30 ELSE 31
    BY <1>1, SMT DEF Days
  <2> QED BY <1>1, <2>1, <2>2, SMT
<1> QED BY <1>2, <1>3

(* The same in names.                                                      *)
MarchFits(y, mp, l) ==
  /\ BeforeMonth(y, mp + 3) = 59 + l + (153 * mp + 2) \div 5
  /\ \A u \in Nat : (5 * u + 2) \div 153 = mp => u - (153 * mp + 2) \div 5 + 1 <= Days(y, mp + 3)

(* Every month of the ten from March on fits (time.rs:60-62).              *)
LEMMA MarchFit ==
  \A y \in Nat \ {0}, mp \in 0 .. 9, l \in Int :
    l = (IF Leap(y) THEN 1 ELSE 0) => MarchFits(y, mp, l)
BY MarchMonths DEF MarchFits

(* civil_from_days names a date of the calendar, that of the day's number  *)
(* (time.rs:51-70).                                                        *)
LEMMA CivilIsDate ==
  ASSUME NEW days \in Nat
  PROVE  IsDate(CivilFromDays(days)) /\ DayNumber(CivilFromDays(days)) = days
<1> DEFINE z == days + 719468
           era == z \div 146097
           doe == z % 146097
           y == YearOfEra(doe) + era * 400
           doy == DayOfYear(doe)
           mp == (5 * doy + 2) \div 153
           m == IF mp < 10 THEN mp + 3 ELSE mp - 9
           d == doy - (153 * mp + 2) \div 5 + 1
           year == y + (IF m <= 2 THEN 1 ELSE 0)
<1>1. CivilFromDays(days) = Date(year, m, d)
  BY SMT DEF CivilFromDays, YearOfEra, DayOfYear
<1>2. era \in Nat /\ doe \in Nat /\ doe <= 146096 /\ days = 146097 * era + doe - 719468
  BY SMT
<1> HIDE DEF era, doe
<1>3. PICK c, q, t, u : PlaceInEra(c, q, t, u) /\ doe = DayOfEra(c, q, t, u)
  BY <1>2, EveryDayHasItsPlace, SMT
<1>4. y = 400 * era + 100 * c + 4 * q + t /\ y \in Nat /\ doy = u
  BY <1>2, <1>3, YearIs, DayIs, SMT DEF PlaceInEra
<1>5. u \in Nat /\ u <= 365 /\ (u = 365 => Leap(y + 1))
  <2>1. y + 1 = 400 * era + 100 * c + 4 * q + t + 1
    BY <1>2, <1>3, <1>4, SMT DEF PlaceInEra
  <2>2. Leap(y + 1) <=> (t = 3 /\ (q # 24 \/ c = 3))
    <3> HIDE DEF y
    <3> QED BY <1>2, <1>3, <2>1, LeapIs
  <2> HIDE DEF y
  <2> QED BY <1>3, <2>2, SMT DEF PlaceInEra
<1>6. 365 * y + LeapDays(y) - 719468 + u = days
  <2>1. y \div 4 = 100 * era + 25 * c + q /\ y \div 100 = 4 * era + c /\ y \div 400 = era
    BY <1>2, <1>3, <1>4, SMT DEF PlaceInEra
  <2> HIDE DEF y
  <2>2. LeapDays(y) = 97 * era + 24 * c + q
    BY <1>2, <1>3, <2>1, SMT DEF LeapDays, PlaceInEra
  <2> QED BY <1>2, <1>3, <1>4, <2>2, SMT DEF DayOfEra, PlaceInEra
<1> HIDE DEF y, doy
<1>7. mp \in Nat /\ mp <= 11 /\ m \in Nat /\ d \in Nat \ {0} /\ d <= 31
  BY <1>4, <1>5, SMT
<1>8. LeapDays(y) \in Int
  BY <1>4, SMT DEF LeapDays
<1>9. CASE u < 306
  <2>1. mp < 10 /\ m = mp + 3 /\ year = y
    BY <1>4, <1>5, <1>9, SMT
  <2>2. y # 0
    <3>1. LeapDays(0) = 0
      BY SMT DEF LeapDays
    <3> QED BY <1>5, <1>6, <1>9, <3>1, SMT
  <2>3. NewYear(y) + 59 + (IF Leap(y) THEN 1 ELSE 0) = 365 * y + LeapDays(y) - 719468
    <3>1. LeapDays(y) = LeapDays(y - 1) + (IF Leap(y) THEN 1 ELSE 0)
      BY <1>4, <2>2, LeapDaysOf
    <3>2. LeapDays(y - 1) \in Int
      BY <1>4, SMT DEF LeapDays
    <3> QED BY <1>4, <3>1, <3>2, SMT DEF NewYear
  <2>4. BeforeMonth(y, m) + d - 1 = 59 + (IF Leap(y) THEN 1 ELSE 0) + u /\ d <= Days(y, m)
    <3> DEFINE l == IF Leap(y) THEN 1 ELSE 0
    <3>1. y \in Nat \ {0} /\ l \in Int /\ mp \in 0 .. 9 /\ u = doy
      BY <1>4, <1>7, <2>1, <2>2, SMT
    <3>2. doy \in Nat /\ mp = (5 * doy + 2) \div 153 /\ d = doy - (153 * mp + 2) \div 5 + 1
      BY <1>5, <3>1
    <3> HIDE DEF mp, d, m
    <3>3. l = IF Leap(y) THEN 1 ELSE 0
      OBVIOUS
    <3> HIDE DEF l, doy, year
    <3>4. /\ BeforeMonth(y, mp + 3) = 59 + l + (153 * mp + 2) \div 5
          /\ doy - (153 * mp + 2) \div 5 + 1 <= Days(y, mp + 3)
      <4>1. y \in Nat \ {0} /\ mp \in 0 .. 9 /\ l \in Int
        BY <3>1
      <4>2. MarchFits(y, mp, l)
        BY <3>3, <4>1, MarchFit, Zenon
      <4> QED BY <3>2, <4>2 DEF MarchFits
    <3>5. (153 * mp + 2) \div 5 \in Int /\ u \in Int
      BY <3>1, <1>5, SMT
    <3>6. BeforeMonth(y, m) + d - 1 = 59 + l + u
      BY <2>1, <3>1, <3>2, <3>4, <3>5, SMT
    <3> QED BY <2>1, <3>2, <3>3, <3>4, <3>6, Zenon
  <2>5. Date(year, m, d) = [year |-> y, month |-> m, day |-> d]
    BY <2>1, SMT DEF Date
  <2> HIDE DEF m, d, year
  <2>6. m \in 1 .. 12
    BY <1>7, <2>1, SMT
  <2>7. IsDate(Date(year, m, d))
    BY <1>4, <1>7, <2>2, <2>4, <2>5, <2>6, SMT DEF IsDate, Date
  <2>8. DayNumber(Date(year, m, d)) = NewYear(y) + BeforeMonth(y, m) + d - 1
    <3>1. Date(year, m, d).year = y /\ Date(year, m, d).month = m /\ Date(year, m, d).day = d
      BY <2>5
    <3> QED BY <3>1 DEF DayNumber
  <2>9. NewYear(y) \in Int /\ BeforeMonth(y, m) \in Nat
    <3>1. y \in Nat \ {0}
      BY <1>4, <2>2
    <3> QED BY <2>6, <3>1, MonthsFit, Zenon
  <2> QED BY <1>1, <1>4, <1>5, <1>6, <1>7, <1>8, <2>3, <2>4, <2>7, <2>8, <2>9, SMT
<1>10. CASE u >= 306
  <2>1. mp >= 10 /\ m = mp - 9 /\ year = y + 1
    BY <1>4, <1>5, <1>10, SMT
  <2>2. NewYear(y + 1) = 365 * y + LeapDays(y) - 719468 + 306
    BY <1>4, <1>8, SMT DEF NewYear
  <2>3. m \in {1, 2}
    BY <1>4, <1>5, <1>10, <2>1, SMT
  <2>4. BeforeMonth(y + 1, m) + d - 1 = u - 306 /\ d <= Days(y + 1, m)
    BY <1>4, <1>5, <1>7, <1>10, <2>1, <2>3, SMT DEF BeforeMonth, Days
  <2>5. Date(year, m, d) = [year |-> y + 1, month |-> m, day |-> d]
    BY <2>1, SMT DEF Date
  <2> HIDE DEF m, d, year
  <2>6. m \in 1 .. 12
    BY <2>3, SMT
  <2>7. IsDate(Date(year, m, d))
    BY <1>4, <1>7, <2>4, <2>5, <2>6, SMT DEF IsDate, Date
  <2>8. DayNumber(Date(year, m, d)) = NewYear(y + 1) + BeforeMonth(y + 1, m) + d - 1
    <3>1. Date(year, m, d).year = y + 1 /\ Date(year, m, d).month = m /\ Date(year, m, d).day = d
      BY <2>5
    <3> QED BY <3>1 DEF DayNumber
  <2>9. NewYear(y + 1) \in Int /\ BeforeMonth(y + 1, m) \in Nat
    <3>1. y + 1 \in Nat \ {0}
      BY <1>4, SMT
    <3> QED BY <2>6, <3>1, MonthsFit, Zenon
  <2> QED BY <1>1, <1>4, <1>5, <1>6, <1>7, <1>8, <2>2, <2>4, <2>7, <2>8, <2>9, SMT
<1> QED
  BY <1>5, <1>9, <1>10, SMT

(* Leap days only accumulate.                                              *)
LEMMA LeapDaysGrow ==
  ASSUME NEW x \in Nat, NEW y \in Nat, x <= y
  PROVE  LeapDays(x) <= LeapDays(y)
<1> DEFINE a == x \div 4
           b == y \div 4
<1>1. a \in Nat /\ b \in Nat /\ a <= b
  BY SMT
<1>2. x \div 100 = a \div 25 /\ x \div 400 = a \div 100 /\ y \div 100 = b \div 25 /\ y \div 400 = b \div 100
  BY SMT
<1> HIDE DEF a, b
<1>3. b \div 25 - a \div 25 <= b - a
  BY <1>1, SMT
<1>4. a \div 100 <= b \div 100
  BY <1>1, SMT
<1>5. a \div 25 \in Int /\ b \div 25 \in Int /\ a \div 100 \in Int /\ b \div 100 \in Int
  BY <1>1, SMT
<1> QED
  BY <1>1, <1>2, <1>3, <1>4, <1>5, SMT DEF LeapDays, a, b

(* A later year begins no sooner than the next one.                        *)
LEMMA YearsGrow ==
  ASSUME NEW y \in Nat \ {0}, NEW z \in Nat, y < z
  PROVE  NewYear(y + 1) <= NewYear(z)
<1>1. LeapDays(y) <= LeapDays(z - 1)
  BY LeapDaysGrow, SMT
<1>2. LeapDays(y) \in Int /\ LeapDays(z - 1) \in Int
  BY SMT DEF LeapDays
<1>3. NewYear(y + 1) = 365 * (y + 1) + LeapDays(y) - 719527
  BY SMT DEF NewYear
<1> QED
  BY <1>1, <1>2, <1>3, SMT DEF NewYear

(* A later month begins after the days of an earlier one.                  *)
LEMMA MonthsGrow ==
  ASSUME NEW y \in Nat \ {0}, NEW m \in 1 .. 12, NEW n \in 1 .. 12, m < n
  PROVE  BeforeMonth(y, m) + Days(y, m) <= BeforeMonth(y, n)
<1> DEFINE k == m + 1
           l == IF Leap(y) THEN 1 ELSE 0
           Months == {1, 2, 3, 4, 5, 6, 7, 8, 9, 10, 11, 12}
<1>1. k \in Months /\ n \in Months /\ k <= n
  <2>1. k \in 1 .. 12 /\ k <= n
    BY SMT
  <2>2. \A i \in 1 .. 12 : i \in Months
    BY SMT
  <2> HIDE DEF k, Months
  <2> QED BY <2>1, <2>2
<1>2. BeforeMonth(y, m) + Days(y, m) = BeforeMonth(y, k)
  <2>1. m < 12
    BY SMT
  <2> QED BY <2>1, MonthsFollow
<1>3. \A i \in Months : BeforeMonth(y, i) = 31 * (i - 1) +
        (IF i <= 2 THEN 0 ELSE l - IF i <= 4 THEN 3 ELSE IF i <= 6 THEN 4 ELSE IF i <= 9 THEN 5
                               ELSE IF i <= 11 THEN 6 ELSE 7)
  BY SMT DEF BeforeMonth
<1>4. l \in {0, 1}
  OBVIOUS
<1> HIDE DEF k, l
<1> QED
  BY <1>1, <1>2, <1>3, <1>4, SMT

(* A date's day is a day of its year.                                      *)
LEMMA DayInYear ==
  ASSUME NEW a, IsDate(a)
  PROVE  /\ DayNumber(a) \in Int
         /\ NewYear(a.year) <= DayNumber(a) /\ DayNumber(a) < NewYear(a.year + 1)
<1> DEFINE y == a.year
           m == a.month
           l == IF Leap(y) THEN 1 ELSE 0
<1>1. y \in Nat \ {0} /\ m \in 1 .. 12 /\ a.day \in Nat \ {0} /\ a.day <= Days(y, m)
  BY DEF IsDate
<1>2. l \in {0, 1} /\ DayNumber(a) = NewYear(y) + BeforeMonth(y, m) + a.day - 1
  BY DEF DayNumber
<1> HIDE DEF y, m, l
<1>3. NewYear(y) \in Int /\ NewYear(y + 1) = NewYear(y) + 365 + l
  BY <1>1, NextNewYear DEF l
<1>4. BeforeMonth(y, m) \in Nat /\ Days(y, m) \in Nat /\ BeforeMonth(y, m) + Days(y, m) <= 365 + l
  <2>1. BeforeMonth(y, m) \in Nat /\ Days(y, m) \in Nat
    BY <1>1, MonthsFit, Zenon DEF MonthFits
  <2>2. 12 \in 1 .. 12
    BY SMT
  <2>3. BeforeMonth(y, 12) \in Nat /\ Days(y, 12) \in Nat /\ BeforeMonth(y, 12) + Days(y, 12) = 365 + l
    BY <1>1, <2>2, MonthsFollow DEF l
  <2>4. CASE m = 12
    BY <2>1, <2>3, <2>4, <1>2, SMT
  <2>5. CASE m # 12
    <3>1. m < 12
      BY <1>1, <2>5, SMT
    <3>2. BeforeMonth(y, m) + Days(y, m) <= BeforeMonth(y, 12)
      BY <1>1, <2>2, <3>1, MonthsGrow
    <3> QED BY <1>2, <2>1, <2>3, <3>2, SMT
  <2> QED BY <2>4, <2>5
<1>5. NewYear(y) <= DayNumber(a) /\ DayNumber(a) < NewYear(y + 1) /\ DayNumber(a) \in Int
  BY <1>1, <1>2, <1>3, <1>4, SMT
<1> QED BY <1>5 DEF y

(* A day has one date.                                                     *)
LEMMA OneDate ==
  ASSUME NEW a, NEW b, IsDate(a), IsDate(b), DayNumber(a) = DayNumber(b)
  PROVE  a = b
<1>1. a = Date(a.year, a.month, a.day) /\ b = Date(b.year, b.month, b.day)
  BY DEF IsDate
<1>2. a.year \in Nat \ {0} /\ b.year \in Nat \ {0} /\ a.month \in 1 .. 12 /\ b.month \in 1 .. 12
  BY DEF IsDate
<1>3. a.year = b.year
  <2>1. ASSUME NEW c, NEW d, IsDate(c), IsDate(d), c.year \in Nat \ {0}, d.year \in Nat \ {0},
               c.year < d.year
        PROVE  DayNumber(c) < DayNumber(d)
    <3>1. NewYear(c.year + 1) <= NewYear(d.year)
      BY <2>1, YearsGrow
    <3>2. c.year + 1 \in Nat \ {0}
      BY <2>1, SMT
    <3>3. NewYear(c.year + 1) \in Int /\ NewYear(d.year) \in Int
      BY <2>1, <3>2, NextNewYear
    <3> QED BY <2>1, <3>1, <3>3, DayInYear, SMT
  <2>2. DayNumber(a) \in Int
    BY DayInYear
  <2>3. ~(a.year < b.year) /\ ~(b.year < a.year)
    BY <1>2, <2>1, <2>2, SMT
  <2> QED BY <1>2, <2>3, SMT
<1> DEFINE y == a.year
<1>4. NewYear(y) \in Int
  BY <1>2, NextNewYear
<1>5. DayNumber(a) = NewYear(y) + BeforeMonth(y, a.month) + a.day - 1
  BY DEF DayNumber
<1>6. DayNumber(b) = NewYear(y) + BeforeMonth(y, b.month) + b.day - 1
  BY <1>3 DEF DayNumber
<1>7. a.day \in Nat \ {0} /\ b.day \in Nat \ {0} /\ a.day <= Days(y, a.month) /\ b.day <= Days(y, b.month)
  BY <1>3 DEF IsDate
<1>8. y \in Nat \ {0}
  BY <1>2
<1> HIDE DEF y
<1>9. /\ BeforeMonth(y, a.month) \in Nat /\ BeforeMonth(y, b.month) \in Nat
      /\ Days(y, a.month) \in Nat /\ Days(y, b.month) \in Nat
  <2>1. ASSUME NEW i \in 1 .. 12 PROVE BeforeMonth(y, i) \in Nat /\ Days(y, i) \in Nat
    BY <1>8, MonthsFit, Zenon DEF MonthFits
  <2>2. BeforeMonth(y, a.month) \in Nat /\ Days(y, a.month) \in Nat
    BY <1>2, <2>1
  <2>3. BeforeMonth(y, b.month) \in Nat /\ Days(y, b.month) \in Nat
    BY <1>2, <2>1
  <2> QED BY <2>2, <2>3
<1>10. BeforeMonth(y, a.month) + a.day = BeforeMonth(y, b.month) + b.day
  <2> DEFINE da == a.day
             db == b.day
             ma == BeforeMonth(y, a.month)
             mb == BeforeMonth(y, b.month)
  <2>1. da \in Nat /\ db \in Nat /\ ma \in Nat /\ mb \in Nat
    BY <1>7, <1>9
  <2>2. NewYear(y) + ma + da - 1 = NewYear(y) + mb + db - 1
    BY <1>5, <1>6
  <2> HIDE DEF da, db, ma, mb
  <2>3. ma + da = mb + db
    BY <1>4, <2>1, <2>2, SMT
  <2> QED BY <2>3 DEF da, db, ma, mb
<1>11. a.month = b.month
  <2>1. ~(a.month < b.month)
    BY <1>2, <1>7, <1>8, <1>9, <1>10, MonthsGrow, SMT
  <2>2. ~(b.month < a.month)
    BY <1>2, <1>7, <1>8, <1>9, <1>10, MonthsGrow, SMT
  <2> QED BY <1>2, <2>1, <2>2, SMT
<1>12. a.day = b.day
  BY <1>7, <1>9, <1>10, <1>11, SMT
<1> QED BY <1>1, <1>3, <1>11, <1>12

(* The day after a date is the next day.                                   *)
LEMMA NextDayIs ==
  ASSUME NEW a, IsDate(a)
  PROVE  IsDate(NextDay(a)) /\ DayNumber(NextDay(a)) = DayNumber(a) + 1
<1> DEFINE y == a.year
           m == a.month
           d == a.day
<1>1. a = [year |-> y, month |-> m, day |-> d]
  BY DEF IsDate, Date
<1>2. y \in Nat \ {0} /\ m \in 1 .. 12 /\ d \in Nat \ {0} /\ d <= Days(y, m)
  BY DEF IsDate
<1>3. DayNumber(a) = NewYear(y) + BeforeMonth(y, m) + d - 1
  BY DEF DayNumber
<1>4. NextDay(a) = IF d < Days(y, m) THEN [a EXCEPT !.day = @ + 1]
                   ELSE IF m < 12 THEN Date(y, m + 1, 1) ELSE Date(y + 1, 1, 1)
  BY Zenon DEF NextDay
<1> HIDE DEF y, m, d
<1>5. NewYear(y) \in Int /\ NewYear(y + 1) = NewYear(y) + 365 + (IF Leap(y) THEN 1 ELSE 0)
  BY <1>2, NextNewYear
<1>6. /\ BeforeMonth(y, m) \in Nat /\ Days(y, m) \in Nat
      /\ m < 12 => BeforeMonth(y, m + 1) = BeforeMonth(y, m) + Days(y, m)
      /\ m = 12 => BeforeMonth(y, m) + Days(y, m) = 365 + (IF Leap(y) THEN 1 ELSE 0)
  <2>1. MonthFits(y, m)
    BY <1>2, MonthsFit, Zenon
  <2> QED BY <2>1, Zenon DEF MonthFits
<1>7. ASSUME NEW yy \in Nat \ {0}, NEW mm \in 1 .. 12, NEW dd \in Nat \ {0}, dd <= Days(yy, mm)
      PROVE  /\ IsDate(Date(yy, mm, dd))
             /\ DayNumber(Date(yy, mm, dd)) = NewYear(yy) + BeforeMonth(yy, mm) + dd - 1
  <2> DEFINE x == Date(yy, mm, dd)
  <2>1. x.year = yy /\ x.month = mm /\ x.day = dd
    BY DEF Date
  <2>2. IsDate(x)
    <3>1. x = Date(x.year, x.month, x.day)
      BY <2>1
    <3> HIDE DEF x
    <3> QED BY <1>7, <2>1, <3>1 DEF IsDate
  <2>3. DayNumber(x) = NewYear(yy) + BeforeMonth(yy, mm) + dd - 1
    <3> HIDE DEF x
    <3> QED BY <2>1 DEF DayNumber
  <2> QED BY <2>2, <2>3
<1>8. CASE d < Days(y, m)
  <2>1. NextDay(a) = Date(y, m, d + 1)
    BY <1>1, <1>4, <1>8 DEF Date
  <2>2. d + 1 \in Nat \ {0} /\ d + 1 <= Days(y, m)
    BY <1>2, <1>6, <1>8, SMT
  <2>3. IsDate(NextDay(a)) /\ DayNumber(NextDay(a)) = NewYear(y) + BeforeMonth(y, m) + (d + 1) - 1
    BY <1>2, <1>7, <2>1, <2>2
  <2> QED BY <1>2, <1>3, <1>5, <1>6, <2>3, SMT
<1>9. CASE d = Days(y, m) /\ m < 12
  <2>1. NextDay(a) = Date(y, m + 1, 1)
    BY <1>4, <1>6, <1>9, SMT
  <2>2. m + 1 \in 1 .. 12
    BY <1>2, <1>9, SMT
  <2>3. Days(y, m + 1) >= 28
    BY <1>2, <2>2, MonthsFollow
  <2>4. IsDate(NextDay(a)) /\ DayNumber(NextDay(a)) = NewYear(y) + BeforeMonth(y, m + 1) + 1 - 1
    <3>1. Days(y, m + 1) \in Nat
      BY <1>2, <2>2, MonthsFollow
    <3>2. 1 \in Nat \ {0} /\ 1 <= Days(y, m + 1)
      BY <2>3, <3>1, SMT
    <3> QED BY <1>2, <1>7, <2>1, <2>2, <3>2
  <2> QED BY <1>2, <1>3, <1>5, <1>6, <1>9, <2>4, SMT
<1>10. CASE d = Days(y, m) /\ m = 12
  <2>1. NextDay(a) = Date(y + 1, 1, 1)
    BY <1>4, <1>6, <1>10, SMT
  <2>2. y + 1 \in Nat \ {0} /\ 1 \in 1 .. 12
    BY <1>2, SMT
  <2>3. BeforeMonth(y + 1, 1) = 0 /\ Days(y + 1, 1) = 31
    BY SMT DEF BeforeMonth, Days
  <2>4. IsDate(NextDay(a)) /\ DayNumber(NextDay(a)) = NewYear(y + 1) + BeforeMonth(y + 1, 1) + 1 - 1
    <3>1. 1 \in Nat \ {0} /\ 1 <= Days(y + 1, 1)
      BY <2>3, SMT
    <3> QED BY <1>7, <2>1, <2>2, <3>1
  <2>5. NewYear(y + 1) \in Int
    BY <2>2, NextNewYear
  <2> QED BY <1>2, <1>3, <1>5, <1>6, <1>10, <2>3, <2>4, <2>5, SMT
<1> QED
  BY <1>2, <1>6, <1>8, <1>9, <1>10, SMT

(* A day later civil_from_days gives the date of the next day.             *)
LEMMA CivilFollows ==
  ASSUME NEW days \in Nat
  PROVE  CivilFromDays(days + 1) = NextDay(CivilFromDays(days))
<1>1. IsDate(CivilFromDays(days)) /\ DayNumber(CivilFromDays(days)) = days
  BY CivilIsDate
<1>2. IsDate(CivilFromDays(days + 1)) /\ DayNumber(CivilFromDays(days + 1)) = days + 1
  BY CivilIsDate, SMT
<1>3. IsDate(NextDay(CivilFromDays(days))) /\ DayNumber(NextDay(CivilFromDays(days))) = days + 1
  BY <1>1, NextDayIs
<1> QED BY <1>2, <1>3, OneDate

(* The hours, minutes and seconds of a time of the day.                    *)
LEMMA ClockIs ==
  ASSUME NEW days, NEW h \in Nat, NEW m \in Nat, NEW s \in Nat, m < 60, s < 60
  PROVE  UtcParts(days, 3600 * h + 60 * m + s) =
           [date |-> CivilFromDays(days), hour |-> h, minute |-> m, second |-> s]
<1> DEFINE tod == 3600 * h + 60 * m + s
<1>1. tod \div 3600 = h /\ tod % 3600 = 60 * m + s /\ tod % 60 = s
  BY SMT
<1>2. (60 * m + s) \div 60 = m
  BY SMT
<1> HIDE DEF tod
<1> QED BY <1>1, <1>2, SMT DEF UtcParts, tod

(* The second after a time of the day.                                     *)
LEMMA NextSecondIs ==
  ASSUME NEW date, NEW h \in Nat, NEW m \in Nat, NEW s \in Nat
  PROVE  NextSecond([date |-> date, hour |-> h, minute |-> m, second |-> s]) =
           IF s < 59 THEN [date |-> date, hour |-> h, minute |-> m, second |-> s + 1]
           ELSE IF m < 59 THEN [date |-> date, hour |-> h, minute |-> m + 1, second |-> 0]
           ELSE IF h < 23 THEN [date |-> date, hour |-> h + 1, minute |-> 0, second |-> 0]
           ELSE [date |-> NextDay(date), hour |-> 0, minute |-> 0, second |-> 0]
<1> DEFINE r == [date |-> date, hour |-> h, minute |-> m, second |-> s]
<1>1. r.date = date /\ r.hour = h /\ r.minute = m /\ r.second = s
  OBVIOUS
<1>2. CASE s < 59
  <2>1. NextSecond(r) = [r EXCEPT !.second = r.second + 1]
    BY <1>1, <1>2 DEF NextSecond
  <2> QED BY <1>2, <2>1
<1>3. CASE ~(s < 59) /\ m < 59
  <2>1. NextSecond(r) = [r EXCEPT !.second = 0, !.minute = r.minute + 1]
    BY <1>1, <1>3 DEF NextSecond
  <2> QED BY <1>3, <2>1
<1>4. CASE ~(s < 59) /\ ~(m < 59) /\ h < 23
  <2>1. NextSecond(r) = [r EXCEPT !.second = 0, !.minute = 0, !.hour = r.hour + 1]
    BY <1>1, <1>4 DEF NextSecond
  <2> QED BY <1>4, <2>1
<1>5. CASE ~(s < 59) /\ ~(m < 59) /\ ~(h < 23)
  <2>1. NextSecond(r) = [date |-> NextDay(r.date), hour |-> 0, minute |-> 0, second |-> 0]
    BY <1>1, <1>5 DEF NextSecond
  <2> QED BY <1>5, <2>1
<1> QED
  BY <1>2, <1>3, <1>4, <1>5

(* The stamp a second later is the next second of the calendar, and the    *)
(* first one is the epoch (utc_parts, time.rs:34-49).                      *)
LEMMA StampFollows ==
  ASSUME NEW days \in Nat, NEW tod \in Nat, tod <= DayEnd
  PROVE  /\ NextSecond(UtcParts(days, tod)) = IF tod < DayEnd THEN UtcParts(days, tod + 1)
                                              ELSE UtcParts(days + 1, 0)
         /\ days = 0 /\ tod = 0 => UtcParts(days, tod) = Epoch
<1> DEFINE h == tod \div 3600
           m == (tod % 3600) \div 60
           s == tod % 60
           t == UtcParts(days, tod)
           later == IF tod < DayEnd THEN UtcParts(days, tod + 1) ELSE UtcParts(days + 1, 0)
           At(date, hour, minute, second) ==
             [date |-> date, hour |-> hour, minute |-> minute, second |-> second]
           today == CivilFromDays(days)
<1>1. h \in Nat /\ h <= 23 /\ m \in Nat /\ m < 60 /\ s \in Nat /\ s < 60 /\ tod = 3600 * h + 60 * m + s
  BY SMT DEF DayEnd
<1>2. tod = DayEnd <=> h = 23 /\ m = 59 /\ s = 59
  <2> HIDE DEF h, m, s
  <2> QED BY <1>1, SMT DEF DayEnd
<1> HIDE DEF h, m, s
<1>3. t = At(today, h, m, s)
  BY <1>1, ClockIs
<1>4. 0 \in Nat /\ 0 < 60 /\ DayEnd \in Nat
  BY SMT DEF DayEnd
<1>10. NextSecond(At(today, h, m, s)) =
         IF s < 59 THEN At(today, h, m, s + 1)
         ELSE IF m < 59 THEN At(today, h, m + 1, 0)
         ELSE IF h < 23 THEN At(today, h + 1, 0, 0)
         ELSE At(NextDay(today), 0, 0, 0)
  <2> HIDE DEF today
  <2> QED BY <1>1, NextSecondIs
<1> HIDE DEF t, today
<1>5. ASSUME s < 59 PROVE later = At(today, h, m, s + 1)
  <2>1. s + 1 \in Nat /\ s + 1 < 60 /\ tod + 1 = 3600 * h + 60 * m + (s + 1) /\ tod < DayEnd
    BY <1>1, <1>2, <1>4, <1>5, SMT
  <2>2. UtcParts(days, tod + 1) = At(today, h, m, s + 1)
    BY <1>1, <2>1, ClockIs DEF today
  <2> QED BY <2>1, <2>2
<1>6. ASSUME s = 59, m < 59 PROVE later = At(today, h, m + 1, 0)
  <2>1. m + 1 \in Nat /\ m + 1 < 60 /\ tod + 1 = 3600 * h + 60 * (m + 1) + 0 /\ tod < DayEnd
    BY <1>1, <1>2, <1>4, <1>6, SMT
  <2>2. UtcParts(days, tod + 1) = At(today, h, m + 1, 0)
    BY <1>1, <1>4, <2>1, ClockIs DEF today
  <2> QED BY <2>1, <2>2
<1>7. ASSUME s = 59, m = 59, h < 23 PROVE later = At(today, h + 1, 0, 0)
  <2>1. h + 1 \in Nat /\ tod + 1 = 3600 * (h + 1) + 60 * 0 + 0 /\ tod < DayEnd
    BY <1>1, <1>2, <1>4, <1>7, SMT
  <2>2. UtcParts(days, tod + 1) = At(today, h + 1, 0, 0)
    BY <1>1, <1>4, <2>1, ClockIs DEF today
  <2> QED BY <2>1, <2>2
<1>8. ASSUME s = 59, m = 59, h = 23 PROVE later = At(NextDay(today), 0, 0, 0)
  <2>1. ~(tod < DayEnd) /\ 0 = 3600 * 0 + 60 * 0 + 0
    BY <1>1, <1>2, <1>4, <1>8, SMT
  <2>2. UtcParts(days + 1, 0) = At(CivilFromDays(days + 1), 0, 0, 0)
    BY <1>4, <2>1, ClockIs
  <2> QED BY <2>1, <2>2, CivilFollows DEF today
<1>11. NextSecond(t) = later
  <2> HIDE DEF later, At
  <2>1. CASE s < 59
    BY <1>3, <1>5, <1>10, <2>1
  <2>2. CASE s = 59 /\ m < 59
    <3>1. ~(s < 59)
      BY <2>2, SMT
    <3> QED BY <1>3, <1>6, <1>10, <2>2, <3>1
  <2>3. CASE s = 59 /\ m = 59 /\ h < 23
    <3>1. ~(s < 59) /\ ~(m < 59)
      BY <2>3, SMT
    <3> QED BY <1>3, <1>7, <1>10, <2>3, <3>1
  <2>4. CASE s = 59 /\ m = 59 /\ h = 23
    <3>1. ~(s < 59) /\ ~(m < 59) /\ ~(h < 23)
      BY <2>4, SMT
    <3> QED BY <1>3, <1>8, <1>10, <2>4, <3>1
  <2> QED
    BY <1>1, <2>1, <2>2, <2>3, <2>4, SMT
<1>9. ASSUME days = 0, tod = 0 PROVE t = Epoch
  <2>1. h = 0 /\ m = 0 /\ s = 0
    BY <1>9, SMT DEF h, m, s
  <2>2. IsDate(Date(1970, 1, 1)) /\ DayNumber(Date(1970, 1, 1)) = 0
    <3> DEFINE x == Date(1970, 1, 1)
    <3>1. x.year = 1970 /\ x.month = 1 /\ x.day = 1
      BY DEF Date
    <3>2. Days(1970, 1) = 31 /\ BeforeMonth(1970, 1) = 0
      BY SMT DEF Days, BeforeMonth
    <3>3. NewYear(1970) = 0
      BY SMT DEF NewYear, LeapDays
    <3>4. IsDate(x)
      <4>1. x = Date(x.year, x.month, x.day)
        BY <3>1
      <4> HIDE DEF x
      <4> QED BY <3>1, <3>2, <4>1, SMT DEF IsDate
    <3>5. DayNumber(x) = 0
      <4> HIDE DEF x
      <4> QED BY <3>1, <3>2, <3>3, SMT DEF DayNumber
    <3> QED BY <3>4, <3>5
  <2>3. CivilFromDays(0) = Date(1970, 1, 1)
    <3>1. IsDate(CivilFromDays(0)) /\ DayNumber(CivilFromDays(0)) = 0
      BY <1>4, CivilIsDate
    <3> QED BY <2>2, <3>1, OneDate
  <2>4. t = At(Date(1970, 1, 1), 0, 0, 0)
    BY <1>3, <1>9, <2>1, <2>3 DEF today
  <2> QED BY <2>4 DEF Epoch
<1> QED
  BY <1>9, <1>11 DEF t

(***************************************************************************)
(* The other clock                                                         *)
(***************************************************************************)
(* A set of natural numbers that is not empty has a least element: what    *)
(* the inductions over years, months and calls are done with.              *)
LEMMA LeastNatural ==
  ASSUME NEW T, T \subseteq Nat, T # {}
  PROVE  \E x \in T : \A y \in T : ~(y < x)
<1> DEFINE R == OpToRel(<, Nat)
<1>1. \E x \in T : \A y \in T : <<y, x>> \notin R
  <2>1. IsWellFoundedOn(R, Nat) BY NatLessThanWellFounded
  <2> HIDE DEF R
  <2> QED BY <2>1, WFMin
<1>2. ASSUME NEW x \in Nat, NEW y \in Nat, y < x PROVE <<y, x>> \in R
  BY <1>2 DEF OpToRel
<1> HIDE DEF R
<1> QED BY <1>1, <1>2

(* Between two years lie no more leap days than years.                     *)
LEMMA LeapDaysAreFew ==
  ASSUME NEW x \in Nat, NEW y \in Nat, x <= y
  PROVE  LeapDays(y) - LeapDays(x) <= y - x
<1> DEFINE a == x \div 4
           b == y \div 4
           p == x \div 100
           r == y \div 100
<1>1. /\ a \in Nat /\ b \in Nat /\ p \in Nat /\ r \in Nat
      /\ p <= r /\ b - a <= y - x
  BY SMT
<1>2. x \div 400 = p \div 4 /\ y \div 400 = r \div 4
  BY SMT
<1> HIDE DEF a, b, p, r
<1>3. r \div 4 - p \div 4 <= r - p /\ r \div 4 \in Int /\ p \div 4 \in Int
  BY <1>1, SMT
<1> QED
  BY <1>1, <1>2, <1>3, SMT DEF LeapDays, a, b, p, r

(* The calendar's count begins with 1970.                                  *)
LEMMA NewYear1970 == NewYear(1970) = 0
BY SMT DEF NewYear, LeapDays

(* timestamp_parts counts the years off from 1970 (tmux-mcp/src/audit.rs): *)
(* it comes to the first of January of each.                               *)
LEMMA FirstDayIs ==
  \A y \in Nat : y >= 1970 => FirstDayOf[y] = NewYear(y)
<1> DEFINE year(f, y) == IF y <= 1970 THEN 0 ELSE f[y - 1] + (IF Leap(y - 1) THEN 366 ELSE 365)
           g == [y \in Nat |-> IF y <= 1970 THEN 0 ELSE NewYear(y)]
           T == {y \in Nat : y >= 1970 /\ FirstDayOf[y] # NewYear(y)}
<1>1. ASSUME NEW y \in Nat, y >= 1970
      PROVE  NewYear(y + 1) = NewYear(y) + (IF Leap(y) THEN 366 ELSE 365) /\ NewYear(y) \in Int
  <2>1. y \in Nat \ {0}
    BY <1>1, SMT
  <2> QED BY <2>1, NextNewYear, SMT
<1>2. g = [y \in Nat |-> year(g, y)]
  <2>1. ASSUME NEW y \in Nat PROVE g[y] = year(g, y)
    <3>1. CASE y <= 1970
      BY <3>1
    <3>2. CASE ~(y <= 1970)
      <4>1. y - 1 \in Nat /\ y - 1 >= 1970 /\ (y - 1) + 1 = y /\ (y - 1 <= 1970 => y - 1 = 1970)
        BY <3>2, SMT
      <4>2. g[y - 1] = NewYear(y - 1)
        BY <4>1, NewYear1970
      <4>3. NewYear(y) = NewYear(y - 1) + (IF Leap(y - 1) THEN 366 ELSE 365)
        BY <1>1, <4>1
      <4> QED BY <3>2, <4>2, <4>3
    <3> QED BY <3>1, <3>2
  <2> QED BY <2>1
<1>3. FirstDayOf = [y \in Nat |-> year(FirstDayOf, y)]
  <2> HIDE DEF g
  <2> QED BY <1>2 DEF FirstDayOf
<1>4. ASSUME NEW y \in Nat PROVE FirstDayOf[y] = year(FirstDayOf, y)
  <2> HIDE DEF year
  <2> QED BY <1>3, Zenon
<1>5. SUFFICES ASSUME T # {} PROVE FALSE
  OBVIOUS
<1>6. PICK y \in T : \A z \in T : ~(z < y)
  <2>1. T \subseteq Nat OBVIOUS
  <2> HIDE DEF T
  <2> QED BY <1>5, <2>1, LeastNatural
<1>7. y \in Nat /\ y >= 1970 /\ FirstDayOf[y] # NewYear(y)
  OBVIOUS
<1>8. y # 1970
  BY <1>4, <1>7, NewYear1970, SMT
<1>9. y - 1 \in Nat /\ y - 1 >= 1970 /\ (y - 1) + 1 = y /\ y - 1 < y /\ ~(y <= 1970)
  BY <1>7, <1>8, SMT
<1>10. FirstDayOf[y - 1] = NewYear(y - 1)
  BY <1>6, <1>9
<1>11. FirstDayOf[y] = NewYear(y - 1) + (IF Leap(y - 1) THEN 366 ELSE 365)
  BY <1>4, <1>7, <1>9, <1>10
<1>12. NewYear((y - 1) + 1) = NewYear(y - 1) + (IF Leap(y - 1) THEN 366 ELSE 365)
  BY <1>1, <1>9
<1> QED BY <1>7, <1>9, <1>11, <1>12

(* ... and the months of the year it has found.                            *)
LEMMA DaysBeforeIs ==
  ASSUME NEW y \in Nat \ {0}, NEW m \in 1 .. 12
  PROVE  DaysBefore(y, m) = BeforeMonth(y, m)
<1> DEFINE sum(f, k) == IF k = 1 THEN 0 ELSE f[k - 1] + Days(y, k - 1)
           before == CHOOSE f : f = [k \in 1 .. 12 |-> sum(f, k)]
           g == [k \in 1 .. 12 |-> BeforeMonth(y, k)]
           T == {k \in 1 .. 12 : before[k] # BeforeMonth(y, k)}
<1>1. ASSUME NEW k \in 1 .. 12, k # 1
      PROVE  k - 1 \in 1 .. 12 /\ BeforeMonth(y, k) = BeforeMonth(y, k - 1) + Days(y, k - 1)
  <2> DEFINE j == k - 1
  <2>1. j \in 1 .. 12 /\ j < 12 /\ j + 1 = k
    BY <1>1, SMT
  <2> HIDE DEF j
  <2>2. BeforeMonth(y, j + 1) = BeforeMonth(y, j) + Days(y, j)
    BY <2>1, MonthsFollow
  <2> QED BY <2>1, <2>2 DEF j
<1>2. BeforeMonth(y, 1) = 0
  BY SMT DEF BeforeMonth
<1>3. g = [k \in 1 .. 12 |-> sum(g, k)]
  <2>1. ASSUME NEW k \in 1 .. 12 PROVE g[k] = sum(g, k)
    BY <1>1, <1>2
  <2> QED BY <2>1
<1>4. before = [k \in 1 .. 12 |-> sum(before, k)]
  <2> HIDE DEF g
  <2> QED BY <1>3, Zenon
<1>5. DaysBefore(y, m) = before[m]
  BY DEF DaysBefore
<1> HIDE DEF before
<1>6. ASSUME NEW k \in 1 .. 12 PROVE before[k] = sum(before, k)
  BY <1>4, Zenon
<1>7. T = {}
  <2>1. SUFFICES ASSUME T # {} PROVE FALSE
    OBVIOUS
  <2>2. PICK k \in T : \A j \in T : ~(j < k)
    <3>1. T \subseteq Nat BY SMT
    <3> HIDE DEF T
    <3> QED BY <2>1, <3>1, LeastNatural
  <2>3. k \in 1 .. 12 /\ before[k] # BeforeMonth(y, k)
    OBVIOUS
  <2>4. k # 1
    BY <1>2, <1>6, <2>3
  <2>5. k - 1 \in 1 .. 12 /\ BeforeMonth(y, k) = BeforeMonth(y, k - 1) + Days(y, k - 1)
    BY <1>1, <2>3, <2>4
  <2>6. k - 1 < k
    BY <2>3, SMT
  <2>7. before[k - 1] = BeforeMonth(y, k - 1)
    BY <2>2, <2>5, <2>6
  <2>8. before[k] = before[k - 1] + Days(y, k - 1)
    BY <1>6, <2>3, <2>4
  <2> QED BY <2>3, <2>5, <2>7, <2>8
<1> QED BY <1>5, <1>7

(* The audit log's stamp is that of civil_from_days.                       *)
LEMMA AuditIsUtc ==
  ASSUME NEW days \in Nat, NEW tod
  PROVE  AuditParts(days, tod) = UtcParts(days, tod)
<1> DEFINE a == CivilFromDays(days)
           y == a.year
           m == a.month
           InYear(x) == FirstDayOf[x] <= days /\ days < FirstDayOf[x + 1]
           years == 1970 + days \div 366 .. 1970 + days \div 365
<1>1. IsDate(a) /\ DayNumber(a) = days
  BY CivilIsDate
<1>2. /\ a = Date(y, m, a.day) /\ y \in Nat \ {0} /\ m \in 1 .. 12
      /\ a.day \in Nat \ {0} /\ a.day <= Days(y, m)
  BY <1>1 DEF IsDate
<1>3. NewYear(y) <= days /\ days < NewYear(y + 1)
  BY <1>1, DayInYear
<1>4. days = NewYear(y) + BeforeMonth(y, m) + a.day - 1
  BY <1>1 DEF DayNumber
<1>15. AuditParts(days, tod) =
        LET rest == days - FirstDayOf[AuditYear(days)]
            k == CHOOSE k \in 1 .. 12 : /\ DaysBefore(AuditYear(days), k) <= rest
                                        /\ rest < DaysBefore(AuditYear(days), k) + Days(AuditYear(days), k)
        IN [date |-> Date(AuditYear(days), k, rest - DaysBefore(AuditYear(days), k) + 1),
            hour |-> tod \div 3600, minute |-> (tod % 3600) \div 60, second |-> tod % 60]
  BY SMT DEF AuditParts
<1>16. UtcParts(days, tod) =
         [date |-> a, hour |-> tod \div 3600, minute |-> (tod % 3600) \div 60, second |-> tod % 60]
  BY SMT DEF UtcParts
<1> HIDE DEF a, y, m
<1>5. NewYear(y) \in Int /\ NewYear(y + 1) \in Int
  <2>1. y + 1 \in Nat \ {0}
    BY <1>2, SMT
  <2> QED BY <1>2, <2>1, NextNewYear
<1>6. y >= 1970
  <2>1. CASE y < 1970
    <3>1. 1970 \in Nat
      BY SMT
    <3>2. NewYear(y + 1) <= 0
      BY <1>2, <2>1, <3>1, YearsGrow, NewYear1970
    <3> QED BY <1>3, <1>5, <3>2, SMT
  <2> QED BY <1>2, <2>1, SMT
<1>7. y \in years
  <2> DEFINE leaps(z) == LeapDays(z) - LeapDays(1969)
  <2>1. y - 1 \in Nat /\ y \in Nat /\ 1969 \in Nat /\ 1969 <= y - 1 /\ 1969 <= y
    BY <1>2, <1>6, SMT
  <2>2. LeapDays(1969) <= LeapDays(y - 1)
    BY <2>1, LeapDaysGrow
  <2>3. LeapDays(y) - LeapDays(1969) <= y - 1969
    BY <2>1, LeapDaysAreFew
  <2>4. LeapDays(1969) = 477 /\ LeapDays(y) \in Int /\ LeapDays(y - 1) \in Int
    BY <2>1, SMT DEF LeapDays
  <2>5. 365 * (y - 1970) <= days
    BY <1>3, <2>1, <2>2, <2>4, SMT DEF NewYear
  <2>6. NewYear(y + 1) = 365 * (y + 1) + LeapDays(y) - 719527
    BY <2>1, SMT DEF NewYear
  <2>7. days < 366 * (y + 1 - 1970)
    BY <1>3, <2>1, <2>3, <2>4, <2>6, SMT
  <2>8. days \div 366 <= y - 1970
    BY <2>1, <2>7, SMT
  <2>9. y - 1970 <= days \div 365
    BY <1>6, <2>1, <2>5, SMT
  <2> QED BY <2>1, <2>8, <2>9, SMT
<1>8. ASSUME NEW x \in years PROVE x \in Nat /\ x >= 1970
  BY <1>8, SMT
<1>9. ASSUME NEW x \in years PROVE InYear(x) <=> x = y
  <2>1. x \in Nat /\ x >= 1970 /\ x + 1 \in Nat /\ x + 1 >= 1970 /\ x \in Nat \ {0}
    <3> HIDE DEF years
    <3>1. x \in Nat /\ x >= 1970
      BY <1>8, <1>9
    <3> QED BY <3>1, SMT
  <2>2. FirstDayOf[x] = NewYear(x) /\ FirstDayOf[x + 1] = NewYear(x + 1)
    BY <2>1, FirstDayIs
  <2>3. x = y => InYear(x)
    BY <1>3, <2>2
  <2>4. ASSUME InYear(x), x < y PROVE FALSE
    <3>1. NewYear(x + 1) <= NewYear(y)
      BY <1>2, <2>1, <2>4, YearsGrow
    <3>2. NewYear(x + 1) \in Int
      BY <2>1, NextNewYear
    <3> QED BY <1>3, <1>5, <2>2, <2>4, <3>1, <3>2, SMT
  <2>5. ASSUME InYear(x), y < x PROVE FALSE
    <3>1. NewYear(y + 1) <= NewYear(x)
      BY <1>2, <2>1, <2>5, YearsGrow
    <3>2. NewYear(x) \in Int
      BY <2>1, NextNewYear
    <3> QED BY <1>3, <1>5, <2>2, <2>5, <3>1, <3>2, SMT
  <2> HIDE DEF InYear
  <2> QED BY <1>2, <2>1, <2>3, <2>4, <2>5, SMT
<1>10. AuditYear(days) = y
  <2>1. AuditYear(days) = CHOOSE x \in years : InYear(x)
    BY Zenon DEF AuditYear
  <2> HIDE DEF years, InYear
  <2> QED BY <1>7, <1>9, <2>1
<1> DEFINE rest == days - NewYear(y)
           d == a.day
           InMonth(k) == BeforeMonth(y, k) <= rest /\ rest < BeforeMonth(y, k) + Days(y, k)
<1>11. \A k \in 1 .. 12 : BeforeMonth(y, k) \in Nat /\ Days(y, k) \in Nat
  BY <1>2, MonthsFollow
<1>12. rest = BeforeMonth(y, m) + d - 1 /\ d \in Nat \ {0} /\ d <= Days(y, m) /\ rest \in Int
  <2> DEFINE b == BeforeMonth(y, m)
  <2>1. b \in Nat
    BY <1>2, <1>11
  <2>2. days = NewYear(y) + b + d - 1
    BY <1>4
  <2>3. d \in Nat \ {0} /\ d <= Days(y, m)
    BY <1>2
  <2> HIDE DEF b, d
  <2>4. rest = b + d - 1 /\ rest \in Int
    BY <1>5, <2>1, <2>2, <2>3, SMT
  <2> QED BY <2>3, <2>4 DEF b
<1> HIDE DEF rest, d
<1>13. ASSUME NEW k \in 1 .. 12 PROVE InMonth(k) <=> k = m
  <2> DEFINE bk == BeforeMonth(y, k)
             dk == Days(y, k)
             bm == BeforeMonth(y, m)
             dm == Days(y, m)
  <2>1. bk \in Nat /\ dk \in Nat /\ bm \in Nat /\ dm \in Nat
    BY <1>2, <1>11
  <2>2. k < m => bk + dk <= bm
    BY <1>2, MonthsGrow
  <2>3. m < k => bm + dm <= bk
    BY <1>2, MonthsGrow
  <2>4. rest = bm + d - 1 /\ d \in Nat \ {0} /\ d <= dm /\ rest \in Int
    BY <1>12
  <2>5. k = m => bk = bm /\ dk = dm
    OBVIOUS
  <2> HIDE DEF bk, dk, bm, dm
  <2>6. bk <= rest /\ rest < bk + dk <=> k = m
    BY <1>2, <2>1, <2>2, <2>3, <2>4, <2>5, SMT
  <2> QED BY <2>6 DEF bk, dk
<1>14. (CHOOSE k \in 1 .. 12 : DaysBefore(y, k) <= rest /\ rest < DaysBefore(y, k) + Days(y, k)) = m
  <2>1. \A k \in 1 .. 12 : DaysBefore(y, k) <= rest /\ rest < DaysBefore(y, k) + Days(y, k) <=> k = m
    BY <1>2, <1>13, DaysBeforeIs
  <2> QED BY <1>2, <2>1, Zenon
<1>17. FirstDayOf[y] = NewYear(y)
  BY <1>2, <1>6, FirstDayIs
<1>18. rest - DaysBefore(y, m) + 1 = d
  <2> DEFINE b == BeforeMonth(y, m)
  <2>1. DaysBefore(y, m) = b /\ b \in Nat
    BY <1>2, <1>11, DaysBeforeIs
  <2>2. rest = b + d - 1
    BY <1>12
  <2> HIDE DEF b
  <2> QED BY <1>12, <2>1, <2>2, SMT
<1>19. AuditParts(days, tod) =
         [date |-> Date(y, m, d),
          hour |-> tod \div 3600, minute |-> (tod % 3600) \div 60, second |-> tod % 60]
  BY <1>10, <1>14, <1>15, <1>17, <1>18, Zenon DEF rest
<1> QED BY <1>2, <1>16, <1>19 DEF d

(* A log's stamp follows the calendar second by second from the epoch on,  *)
(* for every second, and the audit log of tmux-mcp gives the same instant  *)
(* (logging/time.rs, tmux-mcp/src/audit.rs).                               *)
THEOREM StampsAreTheCalendar == Spec => []StampsFollowTheCalendar
<1>1. TextInv => StampsFollowTheCalendar
  <2> SUFFICES ASSUME TextInv PROVE StampsFollowTheCalendar
    OBVIOUS
  <2>1. ASSUME Done("stamp") PROVE /\ out = UtcParts(job.days, job.tod)
                                   /\ job.days \in Nat /\ job.tod \in Nat /\ job.tod <= DayEnd
    BY <2>1 DEF TextInv, JobTyped, Computed, Done
  <2>2. ASSUME Done("audit") PROVE out = AuditParts(job.days, job.tod) /\ job.days \in Nat
    BY <2>2 DEF TextInv, JobTyped, Computed, Done
  <2> QED BY <2>1, <2>2, StampFollows, AuditIsUtc DEF StampsFollowTheCalendar
<1> QED
  BY <1>1, TextInvariance, PTL

(***************************************************************************)
(* Logs shown and swept                                                    *)
(***************************************************************************)
(* Of the logs that qualify one comes first in the sort by falling mtime,  *)
(* and it is one of the newest (logs_cmd.rs).                              *)
LEMMA FirstIsNewest ==
  ASSUME NEW entries \in Seq(Entries), NEW candidates, candidates \subseteq DOMAIN entries, candidates # {}
  PROVE  \E i \in candidates : \A j \in candidates : Precedes(entries, i, j)
<1> DEFINE age(i) == 2 - entries[i].mtime
           ages == {n \in 0 .. 2 : \E i \in candidates : age(i) = n}
<1>1. \A i \in candidates : i \in Nat /\ entries[i].mtime \in 0 .. 2
  <2>1. \A i \in DOMAIN entries : i \in Nat /\ entries[i] \in Entries
    OBVIOUS
  <2> QED BY <2>1 DEF Entries, Times
<1>2. \A i \in candidates : age(i) \in 0 .. 2
  BY <1>1, SMT
<1>3. PICK n \in ages : \A k \in ages : ~(k < n)
  <2>1. ages \subseteq Nat
    BY SMT
  <2>2. ages # {}
    <3> HIDE DEF age
    <3> QED BY <1>2
  <2> HIDE DEF ages
  <2> QED BY <2>1, <2>2, LeastNatural
<1> DEFINE newest == {i \in candidates : age(i) = n}
<1>4. PICK i \in newest : \A j \in newest : ~(j < i)
  <2>1. newest \subseteq Nat /\ newest # {}
    BY <1>1, <1>3
  <2> HIDE DEF newest
  <2> QED BY <2>1, LeastNatural
<1>5. \A j \in candidates : age(j) \in ages
  BY <1>2
<1>6. ASSUME NEW j \in candidates PROVE Precedes(entries, i, j)
  <2>1. ~(age(j) < age(i)) /\ i \in candidates
    BY <1>3, <1>4, <1>5
  <2>2. age(j) = age(i) => ~(j < i)
    BY <1>4
  <2> QED
    BY <1>1, <2>1, <2>2, SMT DEF Precedes
<1> QED BY <1>4, <1>6

(* Of every directory loom logs shows the newest log of the bead asked     *)
(* for, and says that there is none only where there is none; of every set *)
(* of logs the sweep removes no recent one and reports every old one       *)
(* (logs_cmd.rs, logging/retention.rs).                                    *)
THEOREM LogsAreRight == Spec => []LogsAreChosenAndSwept
<1>1. ASSUME NEW entries \in Seq(Entries), NEW bead \in {"any", "wx-1"}
      PROVE  NewestShown(entries, bead, SelectLog(entries, bead))
  <2> DEFINE candidates == {i \in DOMAIN entries : Belongs(entries[i], bead)}
             logs == {i \in DOMAIN entries : entries[i].kind \in (IF bead = "any" THEN {"wx-1", "wx-10"} ELSE {bead})}
             first == CHOOSE i \in candidates : \A j \in candidates : Precedes(entries, i, j)
             found == SelectLog(entries, bead)
  <2>1. candidates = logs
    BY DEF Belongs
  <2>2. found = IF candidates = {} THEN <<>> ELSE <<first>>
    BY Zenon DEF SelectLog
  <2>3. NewestShown(entries, bead, found) <=>
          /\ found = <<>> <=> logs = {}
          /\ \A k \in DOMAIN found :
               found[k] \in logs /\ \A i \in logs : entries[i].mtime <= entries[found[k]].mtime
    BY Zenon DEF NewestShown
  <2>4. \A i \in candidates : entries[i].mtime \in Int
    <3>1. \A i \in DOMAIN entries : entries[i] \in Entries
      OBVIOUS
    <3> QED BY <3>1 DEF Entries, Times
  <2>5. ASSUME candidates # {}
        PROVE  first \in candidates /\ \A j \in candidates : Precedes(entries, first, j)
    <3>1. candidates \subseteq DOMAIN entries
      OBVIOUS
    <3> HIDE DEF candidates
    <3> QED BY <2>5, <3>1, FirstIsNewest
  <2> HIDE DEF candidates, logs, first, found
  <2>6. ASSUME candidates = {} PROVE NewestShown(entries, bead, found)
    BY <2>1, <2>2, <2>3, <2>6
  <2>7. ASSUME candidates # {} PROVE NewestShown(entries, bead, found)
    <3>1. found = <<first>> /\ found # <<>> /\ DOMAIN found = {1} /\ found[1] = first
      BY <2>2, <2>7
    <3>2. \A i \in candidates : entries[i].mtime <= entries[first].mtime
      BY <2>4, <2>5, <2>7, SMT DEF Precedes
    <3> QED BY <2>1, <2>3, <2>5, <2>7, <3>1, <3>2
  <2> QED BY <2>6, <2>7 DEF found
<1>2. ASSUME NEW files \in Seq(Times), NEW retention \in 0 .. 3, NEW stuck
      PROVE  SweepMeant(files, 2, retention, stuck, Sweep(files, 2, retention, stuck))
  <2>1. \A i \in DOMAIN files : files[i] \in 0 .. 2
    BY DEF Times
  <2> DEFINE old == {i \in DOMAIN files : retention # 0 /\ files[i] < 2 - retention}
             report == Sweep(files, 2, retention, stuck)
  <2>2. report.deleted = old \ stuck /\ report.failed = old \cap stuck
    BY DEF Sweep
  <2>3. \A i \in DOMAIN files : i \in old <=> retention > 0 /\ 2 - files[i] > retention
    BY <2>1, SMT
  <2>4. retention = 0 => old = {}
    OBVIOUS
  <2>5. old \subseteq DOMAIN files
    OBVIOUS
  <2> HIDE DEF report, old
  <2>6. \A i \in DOMAIN files : 2 - files[i] <= retention => i \notin old
    BY <2>1, <2>3, SMT
  <2> QED BY <2>2, <2>3, <2>4, <2>6, Zenon DEF SweepMeant, report
<1>3. TextInv => LogsAreChosenAndSwept
  BY <1>1, <1>2, Zenon DEF TextInv, JobTyped, Computed, LogsAreChosenAndSwept, Done
<1> QED
  BY <1>3, TextInvariance, PTL

(***************************************************************************)
(* The log and the terminal of a session                                   *)
(***************************************************************************)
Units == [event : Nat, part : Nat]
Writers == [log : Seq(Units), kept : Seq(Units), room : Nat, ok : BOOLEAN]

(* What waits in the buffer, followed by the units of event n after the    *)
(* a-th.                                                                   *)
Queued(w, n, a, j) == IF j <= Len(w.kept) THEN w.kept[j] ELSE Unit(n, a + j - Len(w.kept))

(* Between w and t the units a + 1 .. b of event n were put behind what    *)
(* waited in the buffer, and the front of that queue went into the file.   *)
Moved(t, w, n, a, b) ==
  LET d == Len(t.log) - Len(w.log) IN
  /\ t \in Writers /\ d >= 0
  /\ d + Len(t.kept) = Len(w.kept) + b - a
  /\ \A i \in 1 .. Len(w.log) : t.log[i] = w.log[i]
  /\ \A i \in 1 .. d : t.log[Len(w.log) + i] = Queued(w, n, a, i)
  /\ \A i \in 1 .. Len(t.kept) : t.kept[i] = Queued(w, n, a, d + i)

(* Nothing was written.                                                    *)
LEMMA NotMoved ==
  ASSUME NEW w \in Writers, NEW n \in Nat, NEW a \in Nat
  PROVE  Moved(w, w, n, a, a)
BY DEF Moved, Queued, Writers

(* One move after the other.                                               *)
LEMMA MovedOn ==
  ASSUME NEW w \in Writers, NEW u, NEW t, NEW n \in Nat, NEW a \in Nat, NEW b \in Nat, NEW e \in Nat,
         a <= b, b <= e, Moved(u, w, n, a, b), Moved(t, u, n, b, e)
  PROVE  Moved(t, w, n, a, e)
<1> DEFINE lw == Len(w.log)
           lu == Len(u.log)
           lt == Len(t.log)
           kw == Len(w.kept)
           ku == Len(u.kept)
           kt == Len(t.kept)
           d1 == lu - lw
           d2 == lt - lu
           d == lt - lw
<1>1. u \in Writers /\ t \in Writers
  BY DEF Moved
<1>2. lw \in Nat /\ lu \in Nat /\ lt \in Nat /\ kw \in Nat /\ ku \in Nat /\ kt \in Nat
  BY <1>1 DEF Writers
<1>3. /\ d1 >= 0 /\ d1 + ku = kw + b - a
      /\ \A i \in 1 .. lw : u.log[i] = w.log[i]
      /\ \A i \in 1 .. d1 : u.log[lw + i] = Queued(w, n, a, i)
      /\ \A i \in 1 .. ku : u.kept[i] = Queued(w, n, a, d1 + i)
  BY DEF Moved
<1>4. /\ d2 >= 0 /\ d2 + kt = ku + e - b
      /\ \A i \in 1 .. lu : t.log[i] = u.log[i]
      /\ \A i \in 1 .. d2 : t.log[lu + i] = Queued(u, n, b, i)
      /\ \A i \in 1 .. kt : t.kept[i] = Queued(u, n, b, d2 + i)
  BY DEF Moved
<1>5. \A j : /\ Queued(w, n, a, j) = IF j <= kw THEN w.kept[j] ELSE Unit(n, a + j - kw)
             /\ Queued(u, n, b, j) = IF j <= ku THEN u.kept[j] ELSE Unit(n, b + j - ku)
  BY DEF Queued
<1> HIDE DEF lw, lu, lt, kw, ku, kt
<1>6. d = d1 + d2 /\ d >= 0 /\ d + kt = kw + e - a /\ lw + d1 = lu
  BY <1>2, <1>3, <1>4
<1>7. ASSUME NEW j \in 1 .. ku + e - b PROVE Queued(u, n, b, j) = Queued(w, n, a, d1 + j)
  <2>1. CASE j <= ku
    BY <1>2, <1>3, <1>5, <1>7, <2>1
  <2>2. CASE ~(j <= ku)
    <3>1. b + j - ku = a + (d1 + j) - kw /\ ~(d1 + j <= kw)
      BY <1>2, <1>3, <2>2
    <3> QED BY <1>5, <2>2, <3>1
  <2> QED BY <2>1, <2>2
<1>8. \A i \in 1 .. lw : t.log[i] = w.log[i]
  BY <1>2, <1>3, <1>4
<1>9. ASSUME NEW i \in 1 .. d PROVE t.log[lw + i] = Queued(w, n, a, i)
  <2>1. CASE i <= d1
    <3>1. lw + i \in 1 .. lu /\ i \in 1 .. d1
      BY <1>2, <1>3, <1>9, <2>1
    <3> QED BY <1>3, <1>4, <3>1
  <2>2. CASE ~(i <= d1)
    <3> DEFINE j == i - d1
    <3>1. j \in 1 .. d2 /\ j \in 1 .. ku + e - b /\ d1 + j = i /\ lu + j = lw + i
      BY <1>2, <1>3, <1>4, <1>9, <2>2
    <3> HIDE DEF j, d1, d2, d
    <3>2. t.log[lu + j] = Queued(u, n, b, j) /\ Queued(u, n, b, j) = Queued(w, n, a, d1 + j)
      BY <1>4, <1>7, <3>1
    <3> QED BY <3>1, <3>2
  <2> QED BY <2>1, <2>2
<1>10. ASSUME NEW i \in 1 .. kt PROVE t.kept[i] = Queued(w, n, a, d + i)
  <2> DEFINE j == d2 + i
  <2>1. j \in 1 .. ku + e - b /\ d1 + j = d + i
    BY <1>2, <1>3, <1>4, <1>10
  <2>2. t.kept[i] = Queued(u, n, b, j)
    BY <1>4, <1>10
  <2> HIDE DEF j, d1, d2, d
  <2>3. Queued(u, n, b, j) = Queued(w, n, a, d1 + j)
    BY <1>7, <2>1
  <2> QED BY <2>1, <2>2, <2>3
<1> QED BY <1>1, <1>6, <1>8, <1>9, <1>10 DEF Moved, lw, lu, lt, kw, ku, kt

(* What the disk takes of a sequence.                                      *)
LEMMA WriteOutIs ==
  ASSUME NEW w \in Writers, NEW seq \in Seq(Units)
  PROVE  LET t == WriteOut(w, seq)
             m == Taken(w, seq)
         IN /\ m \in 0 .. Len(seq) /\ (m = Len(seq) <=> Len(seq) <= w.room)
            /\ t \in Writers /\ Len(t.log) = Len(w.log) + m
            /\ \A i \in 1 .. Len(w.log) : t.log[i] = w.log[i]
            /\ \A i \in 1 .. m : t.log[Len(w.log) + i] = seq[i]
            /\ t.kept = w.kept /\ t.room = w.room - m /\ (t.ok <=> m = Len(seq))
<1> DEFINE t == WriteOut(w, seq)
           m == Taken(w, seq)
           log == w.log \o SubSeq(seq, 1, m)
<1>1. w.log \in Seq(Units) /\ w.kept \in Seq(Units) /\ w.room \in Nat /\ w.ok \in BOOLEAN
  BY DEF Writers
<1>2. m \in 0 .. Len(seq) /\ (m = Len(seq) <=> Len(seq) <= w.room) /\ w.room - m \in Nat
  BY <1>1 DEF Taken
<1> HIDE DEF m
<1>3. /\ log \in Seq(Units) /\ Len(log) = Len(w.log) + m
      /\ \A i \in 1 .. Len(w.log) : log[i] = w.log[i]
      /\ \A i \in 1 .. m : log[Len(w.log) + i] = seq[i]
  <2> DEFINE new == SubSeq(seq, 1, m)
  <2>1. new \in Seq(Units) /\ Len(new) = m /\ \A i \in 1 .. m : new[i] = seq[i]
    BY <1>2
  <2> HIDE DEF new
  <2> DEFINE old == w.log
  <2>0. old \in Seq(Units)
    BY <1>1
  <2> HIDE DEF old
  <2>2. old \o new \in Seq(Units) /\ Len(old \o new) = Len(old) + m
    BY <1>2, <2>0, <2>1
  <2>3. \A i \in 1 .. Len(old) : (old \o new)[i] = old[i]
    BY <2>0, <2>1
  <2>4. \A i \in 1 .. m : (old \o new)[Len(old) + i] = new[i]
    BY <1>2, <2>0, <2>1
  <2> QED BY <2>1, <2>2, <2>3, <2>4 DEF new, old
<1> DEFINE all == (m = Len(seq))
<1>8. all \in BOOLEAN
  OBVIOUS
<1> HIDE DEF log
<1>4. t = [w EXCEPT !.log = log, !.room = w.room - m, !.ok = all]
  BY DEF WriteOut, m, log
<1> HIDE DEF all
<1>5. t = [log |-> log, kept |-> w.kept, room |-> w.room - m, ok |-> all]
  BY <1>4 DEF Writers
<1>6. t \in Writers /\ t.log = log /\ t.kept = w.kept /\ t.room = w.room - m
  BY <1>1, <1>2, <1>3, <1>5, <1>8 DEF Writers
<1>7. t.ok <=> m = Len(seq)
  <2> HIDE DEF t
  <2>1. t.ok = all
    BY <1>5
  <2> QED BY <2>1 DEF all
<1> QED BY <1>2, <1>3, <1>6, <1>7 DEF t, m

(* A flush moves the front of the buffer into the file, all of it if there *)
(* is room.                                                                *)
LEMMA FlushIs ==
  ASSUME NEW w \in Writers, NEW n \in Nat, NEW a \in Nat
  PROVE  LET t == Flush(w) IN
         /\ Moved(t, w, n, a, a) /\ Len(t.kept) <= Len(w.kept)
         /\ t.ok <=> Len(t.kept) = 0
         /\ t.ok <=> w.room >= Len(w.kept)
         /\ t.ok => t.room = w.room - Len(w.kept)
<1> DEFINE t == Flush(w)
           u == WriteOut(w, w.kept)
           m == Taken(w, w.kept)
           kept == SubSeq(w.kept, m + 1, Len(w.kept))
<1>1. w.kept \in Seq(Units) /\ w.room \in Nat
  BY DEF Writers
<1>2. /\ m \in 0 .. Len(w.kept) /\ (m = Len(w.kept) <=> Len(w.kept) <= w.room)
      /\ u \in Writers /\ Len(u.log) = Len(w.log) + m
      /\ \A i \in 1 .. Len(w.log) : u.log[i] = w.log[i]
      /\ \A i \in 1 .. m : u.log[Len(w.log) + i] = w.kept[i]
      /\ u.kept = w.kept /\ u.room = w.room - m /\ (u.ok <=> m = Len(w.kept))
  BY <1>1, WriteOutIs
<1>3. t = [u EXCEPT !.kept = SubSeq(u.kept, m + 1, Len(u.kept))]
  BY DEF Flush
<1> HIDE DEF m, u
<1>4. /\ kept \in Seq(Units) /\ Len(kept) = Len(w.kept) - m
      /\ \A i \in 1 .. Len(kept) : kept[i] = w.kept[m + i]
  BY <1>1, <1>2
<1>5. t = [u EXCEPT !.kept = kept]
  BY <1>2, <1>3
<1> HIDE DEF kept, t
<1>6. t \in Writers /\ t.log = u.log /\ t.kept = kept /\ t.room = u.room
  BY <1>2, <1>4, <1>5 DEF Writers
<1>7. t.ok <=> u.ok
  <2>1. t.ok = u.ok
    BY <1>2, <1>5 DEF Writers
  <2> QED BY <2>1
<1>8. Len(w.log) \in Nat /\ Len(t.log) = Len(w.log) + m
  BY <1>2, <1>6 DEF Writers
<1>9. Moved(t, w, n, a, a)
  <2> DEFINE lw == Len(w.log)
             kw == Len(w.kept)
             d == Len(t.log) - lw
  <2>1. lw \in Nat /\ kw \in Nat /\ d = m /\ Len(t.kept) = kw - m
    <3>1. lw \in Nat /\ kw \in Nat /\ m \in 0 .. kw
      BY <1>1, <1>2, <1>8
    <3>2. Len(t.log) = lw + m /\ Len(t.kept) = kw - m
      BY <1>4, <1>6, <1>8
    <3> QED BY <3>1, <3>2
  <2>2. /\ \A i \in 1 .. lw : t.log[i] = w.log[i]
        /\ \A i \in 1 .. m : t.log[lw + i] = w.kept[i]
        /\ \A i \in 1 .. Len(t.kept) : t.kept[i] = w.kept[m + i]
    BY <1>2, <1>4, <1>6
  <2>3. \A j : j <= kw => Queued(w, n, a, j) = w.kept[j]
    BY DEF Queued
  <2>4. m \in Nat /\ m <= kw
    BY <1>1, <1>2
  <2> HIDE DEF lw, kw, d
  <2>5. \A i \in 1 .. m : i <= kw
    BY <2>1, <2>4
  <2>6. \A i \in 1 .. Len(t.kept) : m + i <= kw
    BY <2>1, <2>4
  <2>7. d >= 0 /\ d + Len(t.kept) = kw + a - a
    BY <2>1, <2>4
  <2>8. /\ \A i \in 1 .. d : t.log[lw + i] = Queued(w, n, a, i)
        /\ \A i \in 1 .. Len(t.kept) : t.kept[i] = Queued(w, n, a, d + i)
    BY <2>1, <2>2, <2>3, <2>5, <2>6
  <2> QED BY <1>6, <2>2, <2>7, <2>8 DEF Moved, lw, kw, d
<1>10. t.ok <=> Len(t.kept) = 0
  BY <1>1, <1>2, <1>4, <1>6, <1>7
<1>11. t.ok <=> w.room >= Len(w.kept)
  BY <1>1, <1>2, <1>7
<1> QED BY <1>1, <1>2, <1>4, <1>6, <1>7, <1>9, <1>10, <1>11 DEF t

(* A line that goes past an empty buffer.                                  *)
LEMMA PastBuffer ==
  ASSUME NEW w \in Writers, NEW seq \in Seq(Units), NEW n \in Nat, NEW a \in Nat, Len(w.kept) = 0,
         \A i \in 1 .. Len(seq) : seq[i] = Unit(n, a + i)
  PROVE  LET t == WriteOut(w, seq)
             m == Taken(w, seq)
         IN Moved(t, w, n, a, a + m) /\ Len(t.kept) = 0
<1> DEFINE t == WriteOut(w, seq)
           m == Taken(w, seq)
           lw == Len(w.log)
           d == Len(t.log) - lw
<1>1. /\ m \in 0 .. Len(seq) /\ t \in Writers /\ Len(t.log) = Len(w.log) + m
      /\ \A i \in 1 .. lw : t.log[i] = w.log[i]
      /\ \A i \in 1 .. m : t.log[lw + i] = seq[i]
      /\ t.kept = w.kept
  BY WriteOutIs
<1>2. lw \in Nat /\ m \in Nat /\ m <= Len(seq) /\ Len(seq) \in Nat
  BY <1>1 DEF Writers
<1> HIDE DEF t, m
<1>3. \A j : Queued(w, n, a, j) = IF j <= 0 THEN w.kept[j] ELSE Unit(n, a + j - 0)
  BY DEF Queued
<1>4. d = m /\ d >= 0 /\ d + Len(t.kept) = Len(w.kept) + (a + m) - a
  BY <1>1, <1>2
<1>5. ASSUME NEW i \in 1 .. m PROVE t.log[lw + i] = Queued(w, n, a, i)
  <2>1. i \in 1 .. Len(seq) /\ ~(i <= 0) /\ a + i - 0 = a + i
    BY <1>2
  <2> QED BY <1>1, <1>3, <2>1
<1>6. \A i \in 1 .. Len(t.kept) : FALSE
  BY <1>1
<1> HIDE DEF lw, d
<1>7. /\ \A i \in 1 .. lw : t.log[i] = w.log[i]
      /\ \A i \in 1 .. d : t.log[lw + i] = Queued(w, n, a, i)
      /\ \A i \in 1 .. Len(t.kept) : t.kept[i] = Queued(w, n, a, d + i)
  BY <1>1, <1>4, <1>5, <1>6
<1> QED BY <1>1, <1>4, <1>7 DEF Moved, t, m, lw, d

(* A line that goes into the buffer.                                       *)
LEMMA IntoBuffer ==
  ASSUME NEW w \in Writers, NEW seq \in Seq(Units), NEW n \in Nat, NEW a \in Nat,
         \A i \in 1 .. Len(seq) : seq[i] = Unit(n, a + i)
  PROVE  LET t == [w EXCEPT !.kept = @ \o seq] IN
         /\ Moved(t, w, n, a, a + Len(seq))
         /\ Len(t.kept) = Len(w.kept) + Len(seq) /\ t.ok = w.ok /\ t.room = w.room
<1> DEFINE kept == w.kept \o seq
           t == [w EXCEPT !.kept = kept]
           kw == Len(w.kept)
<1>1. w.kept \in Seq(Units) /\ w.log \in Seq(Units)
  BY DEF Writers
<1>2. /\ kept \in Seq(Units) /\ Len(kept) = kw + Len(seq)
      /\ \A i \in 1 .. kw + Len(seq) : kept[i] = IF i <= kw THEN w.kept[i] ELSE seq[i - kw]
  BY <1>1
<1> HIDE DEF kept
<1>3. t \in Writers /\ t.log = w.log /\ t.kept = kept /\ t.ok = w.ok /\ t.room = w.room
  BY <1>2 DEF Writers
<1>4. [w EXCEPT !.kept = @ \o seq] = t
  BY DEF kept, Writers
<1>5. kw \in Nat /\ Len(seq) \in Nat /\ Len(w.log) \in Nat
  BY <1>1
<1> HIDE DEF t
<1>6. ASSUME NEW i \in 1 .. kw + Len(seq) PROVE kept[i] = Queued(w, n, a, i)
  <2>1. CASE i <= kw
    BY <1>2, <2>1 DEF Queued
  <2>2. CASE ~(i <= kw)
    <3>1. i - kw \in 1 .. Len(seq) /\ a + (i - kw) = a + i - kw
      BY <1>5, <2>2
    <3>2. kept[i] = seq[i - kw]
      BY <1>2, <2>2
    <3> QED BY <2>2, <3>1, <3>2 DEF Queued
  <2> QED BY <2>1, <2>2
<1>7. Len(t.log) - Len(w.log) = 0
  BY <1>3, <1>5
<1>8. 0 + Len(t.kept) = kw + (a + Len(seq)) - a
  BY <1>2, <1>3, <1>5
<1>9. /\ \A i \in 1 .. 0 : t.log[Len(w.log) + i] = Queued(w, n, a, i)
      /\ \A i \in 1 .. Len(t.kept) : t.kept[i] = Queued(w, n, a, 0 + i)
  BY <1>2, <1>3, <1>5, <1>6
<1>10. Moved(t, w, n, a, a + Len(seq))
  BY <1>3, <1>7, <1>8, <1>9 DEF Moved
<1> QED BY <1>2, <1>3, <1>4, <1>10

(* What write_all makes of the units that follow the a-th of an event.     *)
WriteMeant(t, w, n, a, size) ==
  /\ \E b \in a .. a + size : Moved(t, w, n, a, b) /\ (t.ok => b = a + size)
  /\ Len(t.kept) <= Capacity
  /\ t.ok => t.room + Len(w.kept) + size = w.room + Len(t.kept)
  /\ w.room >= Len(w.kept) + size => t.ok
  /\ Len(w.kept) + size <= Capacity /\ size < Capacity => t.ok /\ Len(t.kept) = Len(w.kept) + size

(* It does so (std::io::BufWriter).                                        *)
LEMMA WriteAllIs ==
  ASSUME NEW w \in Writers, w.ok, Len(w.kept) <= Capacity, NEW n \in Nat, NEW a \in Nat,
         NEW seq \in Seq(Units), Len(seq) \in 1 .. Capacity,
         \A i \in 1 .. Len(seq) : seq[i] = Unit(n, a + i)
  PROVE  WriteMeant(WriteAll(w, seq), w, n, a, Len(seq))
<1> DEFINE size == Len(seq)
           kw == Len(w.kept)
           made == IF kw + size > Capacity THEN Flush(w) ELSE w
           t == WriteAll(w, seq)
<1> SUFFICES WriteMeant(t, w, n, a, size)
  OBVIOUS
<1>1. /\ size \in Nat /\ kw \in Nat /\ Capacity \in Nat /\ w.room \in Nat
      /\ size >= 1 /\ size <= Capacity /\ kw <= Capacity
  BY SinkAssumption DEF Writers
<1>2. t = IF ~made.ok THEN made
          ELSE IF size >= Capacity THEN WriteOut(made, seq)
          ELSE [made EXCEPT !.kept = @ \o seq]
  BY DEF WriteAll
<1>3. /\ Moved(made, w, n, a, a)
      /\ ~made.ok => Len(made.kept) <= kw /\ ~(w.room >= kw) /\ kw + size > Capacity
      /\ made.ok => /\ made.room + kw = w.room + Len(made.kept)
                    /\ Len(made.kept) + size <= Capacity
                    /\ Len(made.kept) = IF kw + size > Capacity THEN 0 ELSE kw
  <2>1. CASE kw + size > Capacity
    <3>1. made = Flush(w)
      BY <2>1
    <3>2. /\ Moved(Flush(w), w, n, a, a) /\ Len(Flush(w).kept) <= Len(w.kept)
          /\ Flush(w).ok <=> Len(Flush(w).kept) = 0
          /\ Flush(w).ok <=> w.room >= Len(w.kept)
          /\ Flush(w).ok => Flush(w).room = w.room - Len(w.kept)
      BY FlushIs
    <3> HIDE DEF made
    <3> QED BY <1>1, <2>1, <3>1, <3>2
  <2>2. CASE ~(kw + size > Capacity)
    <3>1. made = w
      BY <2>2
    <3> HIDE DEF made
    <3>2. Moved(w, w, n, a, a)
      BY NotMoved
    <3> QED BY <1>1, <2>2, <3>1, <3>2
  <2> QED BY <2>1, <2>2
<1> HIDE DEF made, t
<1>4. made \in Writers /\ Len(made.kept) \in Nat /\ made.room \in Nat /\ made.ok \in BOOLEAN
  <2>1. made \in Writers
    BY <1>3 DEF Moved
  <2> QED BY <2>1 DEF Writers
<1>5. CASE ~made.ok
  <2>1. t = made
    BY <1>2, <1>5
  <2> HIDE DEF kw, size
  <2>2. a \in a .. a + size
    BY <1>1
  <2>3. Len(t.kept) <= Capacity /\ ~(w.room >= kw + size) /\ ~(kw + size <= Capacity)
    BY <1>1, <1>3, <1>4, <1>5, <2>1
  <2>4. ~t.ok /\ Moved(t, w, n, a, a)
    BY <1>3, <1>5, <2>1
  <2> QED BY <2>2, <2>3, <2>4 DEF WriteMeant, kw
<1>6. CASE made.ok /\ size >= Capacity
  <2> DEFINE m == Taken(made, seq)
  <2>1. t = WriteOut(made, seq)
    BY <1>2, <1>6
  <2>2. Len(made.kept) = 0 /\ made.room + kw = w.room /\ size = Capacity
    BY <1>1, <1>3, <1>4, <1>6
  <2>3. Moved(t, made, n, a, a + m) /\ Len(t.kept) = 0
    BY <1>4, <2>1, <2>2, PastBuffer
  <2>4. m \in 0 .. size /\ (m = size <=> size <= made.room) /\ t.room = made.room - m /\ (t.ok <=> m = size)
    BY <1>4, <2>1, WriteOutIs
  <2>5. Moved(t, w, n, a, a + m)
    <3> HIDE DEF m
    <3>1. a + m \in Nat /\ a <= a + m /\ a <= a
      BY <1>1, <2>4
    <3> QED BY <1>3, <2>3, <3>1, MovedOn
  <2> HIDE DEF m, size, kw
  <2>6. a + m \in a .. a + size /\ (t.ok => a + m = a + size)
    BY <1>1, <2>4
  <2>7. /\ t.ok => t.room + kw + size = w.room + Len(t.kept)
        /\ w.room >= kw + size => t.ok
        /\ ~(kw + size <= Capacity /\ size < Capacity)
    BY <1>1, <1>4, <2>2, <2>3, <2>4
  <2>8. Len(t.kept) <= Capacity
    BY <1>1, <2>3
  <2> QED BY <2>5, <2>6, <2>7, <2>8 DEF WriteMeant, kw
<1>7. CASE made.ok /\ ~(size >= Capacity)
  <2>1. t = [made EXCEPT !.kept = @ \o seq]
    BY <1>2, <1>7
  <2>2. /\ Moved(t, made, n, a, a + size) /\ Len(t.kept) = Len(made.kept) + size
        /\ t.ok = made.ok /\ t.room = made.room
    <3> DEFINE u == [made EXCEPT !.kept = @ \o seq]
    <3>1. /\ Moved(u, made, n, a, a + Len(seq))
          /\ Len(u.kept) = Len(made.kept) + Len(seq) /\ u.ok = made.ok /\ u.room = made.room
      BY <1>4, IntoBuffer
    <3>2. t = u
      BY <2>1
    <3> HIDE DEF u
    <3> QED BY <3>1, <3>2
  <2> HIDE DEF size, kw
  <2>3. Moved(t, w, n, a, a + size) /\ a + size \in a .. a + size
    <3>1. a + size \in Nat /\ a <= a + size /\ a <= a
      BY <1>1
    <3> QED BY <1>3, <2>2, <3>1, MovedOn
  <2> DEFINE km == Len(made.kept)
             kt == Len(t.kept)
  <2>6. /\ made.room + kw = w.room + km /\ km + size <= Capacity
        /\ km = IF kw + size > Capacity THEN 0 ELSE kw
    BY <1>3, <1>7
  <2>7. kt = km + size /\ t.room = made.room /\ km \in Nat /\ made.room \in Nat
    BY <1>4, <2>2
  <2> HIDE DEF km, kt
  <2>4. kt <= Capacity /\ t.room + kw + size = w.room + kt
    BY <1>1, <2>6, <2>7
  <2>5. kw + size <= Capacity => kt = kw + size
    BY <1>1, <2>6, <2>7
  <2> QED BY <1>7, <2>2, <2>3, <2>4, <2>5 DEF WriteMeant, kw, kt
<1> QED BY <1>4, <1>5, <1>6, <1>7

(* An event's units are its line and its newline.                          *)
LEMMA LineIs ==
  ASSUME NEW n \in Nat, NEW size \in Nat
  PROVE  /\ Line(n, size) \in Seq(Units) /\ Len(Line(n, size)) = size
         /\ \A i \in 1 .. size : Line(n, size)[i] = Unit(n, 0 + i)
         /\ Newline(n, size) \in Seq(Units) /\ Len(Newline(n, size)) = 1
         /\ \A i \in 1 .. 1 : Newline(n, size)[i] = Unit(n, size + i)
<1>1. \A i \in Nat : Unit(n, i) \in Units
  BY DEF Unit, Units
<1>2. Line(n, size) \in Seq(Units) /\ Len(Line(n, size)) = size
  BY <1>1 DEF Line
<1>3. \A i \in 1 .. size : Line(n, size)[i] = Unit(n, 0 + i)
  BY DEF Line
<1>4. Newline(n, size) \in Seq(Units) /\ Len(Newline(n, size)) = 1 /\ Newline(n, size)[1] = Unit(n, size + 1)
  BY <1>1 DEF Newline
<1> QED BY <1>2, <1>3, <1>4

(* What emit leaves in the file and in the buffer: units of the event up   *)
(* to some, all of them if nothing failed or if the line found an empty    *)
(* buffer that holds it.                                                   *)
LEMMA WriteEventIs ==
  ASSUME NEW w \in Writers, w.ok, Len(w.kept) <= Capacity, NEW n \in Nat, NEW size \in 1 .. Capacity
  PROVE  LET t == WriteEvent(w, n, size) IN
         /\ \E b \in 0 .. size + 1 : /\ Moved(t, w, n, 0, b)
                                     /\ t.ok \/ (Len(w.kept) = 0 /\ size < Capacity) => b = size + 1
         /\ Len(t.kept) <= Capacity
         /\ t.ok => Len(t.kept) = 0
         /\ w.room >= Plenty => t.ok
<1> DEFINE line == WriteAll(w, Line(n, size))
           ended == IF line.ok THEN WriteAll(line, Newline(n, size)) ELSE line
           t == WriteEvent(w, n, size)
           kw == Len(w.kept)
           fits == kw = 0 /\ size < Capacity
<1>1. size \in Nat /\ 1 <= size /\ size <= Capacity /\ Capacity \in Nat /\ kw \in Nat /\ w.room \in Nat
  BY SinkAssumption DEF Writers
<1>2. t = IF ended.ok THEN Flush(ended) ELSE ended
  BY DEF WriteEvent
<1>3. WriteMeant(line, w, n, 0, size)
  <2> DEFINE seq == Line(n, size)
  <2>1. seq \in Seq(Units) /\ Len(seq) = size /\ \A i \in 1 .. Len(seq) : seq[i] = Unit(n, 0 + i)
    <3>1. seq \in Seq(Units) /\ Len(seq) = size /\ \A i \in 1 .. size : seq[i] = Unit(n, 0 + i)
      BY <1>1, LineIs
    <3> HIDE DEF seq
    <3> QED BY <3>1
  <2>2. line = WriteAll(w, seq) /\ 0 \in Nat
    OBVIOUS
  <2> HIDE DEF seq, line
  <2>3. WriteMeant(WriteAll(w, seq), w, n, 0, Len(seq))
    BY <2>1, WriteAllIs
  <2> QED BY <2>1, <2>2, <2>3
<1> HIDE DEF line
<1>4. PICK b \in 0 .. 0 + size : Moved(line, w, n, 0, b) /\ (line.ok => b = 0 + size)
  BY <1>3 DEF WriteMeant
<1>5. /\ Len(line.kept) <= Capacity
      /\ line.ok => line.room + kw + size = w.room + Len(line.kept)
      /\ w.room >= kw + size => line.ok
      /\ fits => line.ok /\ Len(line.kept) = size
  BY <1>1, <1>3 DEF WriteMeant
<1>6. line \in Writers /\ Len(line.kept) \in Nat /\ line.room \in Nat /\ b \in Nat /\ b <= size
  BY <1>1, <1>4 DEF Moved, Writers
<1>7. CASE ~line.ok
  <2>1. t = line
    BY <1>2, <1>7
  <2>2. b \in 0 .. size + 1 /\ ~fits /\ ~(w.room >= Plenty)
    BY <1>1, <1>5, <1>6, <1>7 DEF Plenty
  <2> QED BY <1>4, <1>5, <1>7, <2>1, <2>2
<1>8. CASE line.ok
  <2>1. ended = WriteAll(line, Newline(n, size)) /\ b = size
    BY <1>1, <1>4, <1>8
  <2> HIDE DEF ended
  <2>2. WriteMeant(ended, line, n, size, 1)
    <3>1. 1 \in 1 .. Capacity
      BY <1>1
    <3>2. /\ Newline(n, size) \in Seq(Units) /\ Len(Newline(n, size)) = 1
          /\ \A i \in 1 .. 1 : Newline(n, size)[i] = Unit(n, size + i)
      BY <1>1, LineIs
    <3>3. WriteMeant(WriteAll(line, Newline(n, size)), line, n, size, Len(Newline(n, size)))
      BY <1>1, <1>5, <1>6, <1>8, <3>1, <3>2, WriteAllIs
    <3> QED BY <2>1, <3>2, <3>3
  <2>3. PICK e \in size .. size + 1 : Moved(ended, line, n, size, e) /\ (ended.ok => e = size + 1)
    BY <2>2 DEF WriteMeant
  <2>4. /\ Len(ended.kept) <= Capacity
        /\ ended.ok => ended.room + Len(line.kept) + 1 = line.room + Len(ended.kept)
        /\ line.room >= Len(line.kept) + 1 => ended.ok
        /\ Len(line.kept) + 1 <= Capacity /\ 1 < Capacity => ended.ok
    BY <2>2 DEF WriteMeant
  <2>5. /\ ended \in Writers /\ Len(ended.kept) \in Nat /\ ended.room \in Nat
        /\ e \in Nat /\ size <= e /\ e <= size + 1
    BY <1>1, <2>3 DEF Moved, Writers
  <2>6. Moved(ended, w, n, 0, e)
    BY <1>1, <1>4, <2>1, <2>3, <2>5, MovedOn
  <2>7. fits => ended.ok
    BY <1>1, <1>5, <1>6, <2>4
  <2>8. w.room >= Plenty => ended.ok /\ ended.room >= Len(ended.kept)
    <3> SUFFICES ASSUME w.room >= 2 * Capacity + 1 PROVE ended.ok /\ ended.room >= Len(ended.kept)
      BY DEF Plenty
    <3> HIDE DEF kw
    <3>1. kw <= Capacity
      BY DEF kw
    <3>2. line.room >= Len(line.kept) + 1 /\ line.room + kw + size = w.room + Len(line.kept)
      BY <1>1, <1>5, <1>6, <1>8, <3>1
    <3>3. ended.ok /\ ended.room + Len(line.kept) + 1 = line.room + Len(ended.kept)
      BY <2>4, <3>2
    <3> QED BY <1>6, <2>5, <3>2, <3>3
  <2>9. CASE ~ended.ok
    <3>1. t = ended
      BY <1>2, <2>9
    <3>2. e \in 0 .. size + 1
      BY <1>1, <2>5
    <3> QED BY <2>4, <2>6, <2>7, <2>8, <2>9, <3>1, <3>2
  <2>10. CASE ended.ok
    <3>1. t = Flush(ended) /\ e = size + 1
      BY <1>2, <2>3, <2>10
    <3>2. /\ Moved(t, ended, n, e, e) /\ Len(t.kept) <= Len(ended.kept)
          /\ t.ok <=> Len(t.kept) = 0
          /\ t.ok <=> ended.room >= Len(ended.kept)
      BY <2>5, <3>1, FlushIs
    <3>3. Moved(t, w, n, 0, e)
      BY <2>5, <2>6, <3>2, MovedOn
    <3>4. Len(t.kept) \in Nat
      BY <3>2 DEF Moved, Writers
    <3>5. e \in 0 .. size + 1 /\ Len(t.kept) <= Capacity
      BY <1>1, <2>4, <2>5, <3>1, <3>2, <3>4
    <3> QED BY <2>8, <3>1, <3>2, <3>3, <3>5
  <2> QED BY <2>9, <2>10
<1>9. line.ok \in BOOLEAN
  BY <1>6 DEF Writers
<1> QED BY <1>7, <1>8

SinkStates ==
  [n : Nat, log : Seq(Units), verbose : BOOLEAN, kept : [Sinks -> Seq(Units)], shown : [Sinks -> Seq(Nat)],
   tools : [Sinks -> Nat], closing : [Sinks -> Seq(Nat)], renderer : [Sinks -> BOOLEAN],
   finished : [Sinks -> BOOLEAN], gone : [Sinks -> BOOLEAN]]

(* What a call is to its sink: an event, the end, a flush, and what it     *)
(* makes of the file and the buffer; something the renderer sees.          *)
IsEvent(st, c) == ~st.gone[c.sink] /\ c.kind \in EventKinds
IsFinish(st, c) == ~st.gone[c.sink] /\ c.kind = "finish" /\ ~st.finished[c.sink]
IsDrop(st, c) == ~st.gone[c.sink] /\ c.kind = "drop"
IsFlush(st, c) == ~st.gone[c.sink] /\ (c.kind = "finish" => ~st.finished[c.sink])
Result(st, c) ==
  IF IsEvent(st, c) THEN WriteEvent(Writer(st, c), st.n + 1, c.size)
  ELSE IF IsFlush(st, c) THEN Flush(Writer(st, c)) ELSE Writer(st, c)
IsRendered(st, c) == IsEvent(st, c) /\ Result(st, c).ok /\ st.renderer[c.sink]

(* A call moves the buffer and b units of its event towards the file, all  *)
(* if nothing fails, and all of them if it is the first to fail.           *)
ResultMeant(r, st, c, b) ==
  /\ Moved(r, Writer(st, c), st.n + 1, 0, b)
  /\ Len(r.kept) <= Capacity
  /\ b > 0 => IsEvent(st, c)
  /\ IsEvent(st, c) /\ (r.ok \/ (Len(st.kept[c.sink]) = 0 /\ c.size < Capacity)) => b = c.size + 1
  /\ IsFlush(st, c) /\ r.ok => Len(r.kept) = 0
  /\ IsFlush(st, c) /\ c.room = Plenty => r.ok
  /\ ~IsFlush(st, c) => r.kept = st.kept[c.sink] /\ r.log = st.log

LEMMA ResultIs ==
  ASSUME NEW st \in SinkStates, NEW c \in Calls, Len(st.kept[c.sink]) <= Capacity
  PROVE  \E b \in Nat : ResultMeant(Result(st, c), st, c, b)
<1> DEFINE r == Result(st, c)
           w == Writer(st, c)
           n == st.n + 1
           kept == st.kept[c.sink]
<1>1. c.sink \in Sinks /\ c.size \in 1 .. Capacity /\ c.room \in Nat /\ Capacity \in Nat
  BY SinkAssumption DEF Calls, Plenty
<1>2. kept \in Seq(Units) /\ st.log \in Seq(Units) /\ n \in Nat
  BY <1>1 DEF SinkStates
<1>3. w \in Writers /\ w.ok /\ w.kept = kept /\ w.log = st.log /\ w.room = c.room
  <2>1. w = [log |-> st.log, kept |-> kept, room |-> c.room, ok |-> TRUE]
    BY DEF Writer
  <2> HIDE DEF kept
  <2> QED BY <1>1, <1>2, <2>1 DEF Writers
<1>4. Len(w.kept) <= Capacity /\ 0 \in Nat
  BY <1>3
<1>5. IsEvent(st, c) => IsFlush(st, c)
  BY DEF IsEvent, IsFlush, EventKinds
<1> HIDE DEF w
<1>6. CASE IsEvent(st, c)
  <2>1. r = WriteEvent(w, n, c.size)
    BY <1>6 DEF Result, w
  <2>2. /\ \E b \in 0 .. c.size + 1 : /\ Moved(r, w, n, 0, b)
                                      /\ r.ok \/ (Len(w.kept) = 0 /\ c.size < Capacity) => b = c.size + 1
        /\ Len(r.kept) <= Capacity
        /\ r.ok => Len(r.kept) = 0
        /\ w.room >= Plenty => r.ok
    BY <1>1, <1>2, <1>3, <1>4, <2>1, WriteEventIs
  <2>3. PICK b \in 0 .. c.size + 1 : /\ Moved(r, w, n, 0, b)
                                     /\ r.ok \/ (Len(w.kept) = 0 /\ c.size < Capacity) => b = c.size + 1
    BY <2>2
  <2>4. b \in Nat /\ (c.room = Plenty => w.room >= Plenty)
    BY <1>1, <1>3 DEF Plenty
  <2> HIDE DEF r
  <2>5. ResultMeant(r, st, c, b)
    BY <1>3, <1>5, <1>6, <2>2, <2>3, <2>4 DEF ResultMeant, w
  <2> QED BY <2>4, <2>5 DEF r
<1>7. CASE ~IsEvent(st, c) /\ IsFlush(st, c)
  <2>1. r = Flush(w)
    BY <1>7 DEF Result, w
  <2>2. /\ Moved(r, w, n, 0, 0) /\ Len(r.kept) <= Len(w.kept)
        /\ r.ok <=> Len(r.kept) = 0
        /\ r.ok <=> w.room >= Len(w.kept)
    BY <1>2, <1>3, <1>4, <2>1, FlushIs
  <2> HIDE DEF r
  <2>3. Len(r.kept) \in Nat /\ Len(w.kept) \in Nat
    BY <1>3, <2>2 DEF Moved, Writers
  <2>4. Len(r.kept) <= Capacity /\ (c.room = Plenty => r.ok)
    BY <1>1, <1>3, <1>4, <2>2, <2>3 DEF Plenty
  <2>5. ResultMeant(r, st, c, 0)
    BY <1>7, <2>2, <2>4 DEF ResultMeant, w
  <2> QED BY <2>5 DEF r
<1>8. CASE ~IsEvent(st, c) /\ ~IsFlush(st, c)
  <2>1. r = w
    BY <1>8 DEF Result, w
  <2>2. Moved(w, w, n, 0, 0)
    BY <1>2, <1>3, NotMoved
  <2> HIDE DEF r
  <2>3. ResultMeant(r, st, c, 0)
    BY <1>3, <1>4, <1>8, <2>1, <2>2 DEF ResultMeant, w
  <2> QED BY <2>3 DEF r
<1> QED BY <1>6, <1>7, <1>8

(* What the writer leaves in the state.                                    *)
LeftMeant(t, st, s, w) ==
  /\ t \in SinkStates /\ t.n = st.n /\ t.verbose = st.verbose
  /\ t.log = w.log /\ t.kept = [st.kept EXCEPT ![s] = w.kept]
  /\ t.shown = st.shown /\ t.tools = st.tools /\ t.closing = st.closing
  /\ t.renderer = st.renderer /\ t.finished = st.finished /\ t.gone = st.gone

LEMMA LeftIs ==
  ASSUME NEW st \in SinkStates, NEW s \in Sinks, NEW w \in Writers
  PROVE  LeftMeant(Left(st, s, w), st, s, w)
<1> DEFINE kept == [st.kept EXCEPT ![s] = w.kept]
           log == w.log
<1>1. log \in Seq(Units) /\ kept \in [Sinks -> Seq(Units)]
  BY DEF SinkStates, Writers
<1>2. Left(st, s, w) = [st EXCEPT !.log = log, !.kept = kept]
  BY DEF Left, SinkStates
<1> HIDE DEF log, kept
<1>3. [st EXCEPT !.log = log, !.kept = kept] \in SinkStates
  BY <1>1 DEF SinkStates
<1> QED BY <1>2, <1>3 DEF LeftMeant, SinkStates, log, kept

(* What the renderer does with an event: it counts and shows.              *)
Shows(st, c) == Visible(c.kind, st.verbose) /\ c.term
RenderMeant(t, st, c) ==
  LET s == c.sink IN
  /\ t \in SinkStates /\ t.n = st.n /\ t.verbose = st.verbose
  /\ t.log = st.log /\ t.kept = st.kept
  /\ t.shown = IF Shows(st, c) THEN [st.shown EXCEPT ![s] = Append(st.shown[s], st.n)] ELSE st.shown
  /\ t.tools = IF c.kind = "tool" THEN [st.tools EXCEPT ![s] = st.tools[s] + 1] ELSE st.tools
  /\ t.closing = st.closing
  /\ t.renderer = st.renderer /\ t.finished = st.finished /\ t.gone = st.gone

(* render_event does so (renderer.rs).                                     *)
LEMMA RenderIs ==
  ASSUME NEW st \in SinkStates, NEW c \in Calls
  PROVE  RenderMeant(RenderEvent(st, c), st, c)
<1> DEFINE s == c.sink
           shown == IF Shows(st, c) THEN [st.shown EXCEPT ![s] = Append(st.shown[s], st.n)] ELSE st.shown
           tools == IF c.kind = "tool" THEN [st.tools EXCEPT ![s] = st.tools[s] + 1] ELSE st.tools
<1>1. s \in Sinks
  BY DEF Calls
<1>2. shown \in [Sinks -> Seq(Nat)] /\ tools \in [Sinks -> Nat]
  BY <1>1 DEF SinkStates
<1>3. RenderEvent(st, c) = [st EXCEPT !.tools = tools, !.shown = shown]
  BY <1>1 DEF RenderEvent, SinkStates, Shows
<1> HIDE DEF shown, tools
<1>4. [st EXCEPT !.tools = tools, !.shown = shown] \in SinkStates
  BY <1>2 DEF SinkStates
<1> QED BY <1>3, <1>4 DEF RenderMeant, SinkStates, shown, tools

StepMeant(t, st, c) ==
  LET s == c.sink
      r == Result(st, c)
  IN
  /\ t \in SinkStates /\ t.n = st.n + 1 /\ t.verbose = st.verbose
  /\ t.log = r.log
  /\ t.kept = [st.kept EXCEPT ![s] = r.kept]
  /\ t.tools = IF IsRendered(st, c) /\ c.kind = "tool" THEN [st.tools EXCEPT ![s] = st.tools[s] + 1]
               ELSE st.tools
  /\ t.shown = IF IsRendered(st, c) /\ Shows(st, c)
               THEN [st.shown EXCEPT ![s] = Append(st.shown[s], st.n + 1)] ELSE st.shown
  /\ t.finished = IF IsFinish(st, c) THEN [st.finished EXCEPT ![s] = TRUE] ELSE st.finished
  /\ t.renderer = IF IsFinish(st, c) /\ r.ok THEN [st.renderer EXCEPT ![s] = FALSE] ELSE st.renderer
  /\ t.closing = IF IsFinish(st, c) /\ r.ok /\ c.term
                 THEN [st.closing EXCEPT ![s] = Append(st.closing[s], st.tools[s])] ELSE st.closing
  /\ t.gone = IF IsDrop(st, c) THEN [st.gone EXCEPT ![s] = TRUE] ELSE st.gone

(* A call does this.                                                       *)
LEMMA StepIs ==
  ASSUME NEW st \in SinkStates, NEW c \in Calls, Len(st.kept[c.sink]) <= Capacity
  PROVE  StepMeant(SinkStep(st, c), st, c)
<1> DEFINE s == c.sink
           next == [st EXCEPT !.n = @ + 1]
           t == SinkStep(st, c)
           r == Result(st, c)
<1>1. s \in Sinks /\ c.kind \in EventKinds \cup {"finish", "drop"} /\ c.term \in BOOLEAN
  BY DEF Calls
<1>2. /\ next \in SinkStates /\ next.n = st.n + 1 /\ next.verbose = st.verbose /\ next.log = st.log
      /\ next.kept = st.kept /\ next.tools = st.tools /\ next.shown = st.shown /\ next.gone = st.gone
      /\ next.finished = st.finished /\ next.renderer = st.renderer /\ next.closing = st.closing
  <2> DEFINE m == st.n + 1
  <2>1. m \in Nat
    BY DEF SinkStates
  <2>2. next = [st EXCEPT !.n = m]
    OBVIOUS
  <2> HIDE DEF m, next
  <2> QED BY <2>1, <2>2 DEF SinkStates, m
<1>3. /\ st.kept \in [Sinks -> Seq(Units)] /\ st.closing \in [Sinks -> Seq(Nat)] /\ st.tools \in [Sinks -> Nat]
      /\ st.renderer \in [Sinks -> BOOLEAN] /\ st.finished \in [Sinks -> BOOLEAN]
      /\ st.gone \in [Sinks -> BOOLEAN] /\ st.n \in Nat
  BY DEF SinkStates
<1>4. "finish" \notin EventKinds /\ "drop" \notin EventKinds
  BY DEF EventKinds
<1>9. r \in Writers
  <2>1. PICK b \in Nat : ResultMeant(r, st, c, b)
    BY ResultIs
  <2> QED BY <2>1 DEF ResultMeant, Moved
<1>10. Writer(next, c) = Writer(st, c)
  BY <1>2 DEF Writer
<1> HIDE DEF next, r
<1>5. CASE st.gone[s]
  <2>1. t = next
    BY <1>5 DEF SinkStep, next
  <2>2. r = Writer(st, c)
    BY <1>5 DEF r, Result, IsEvent, IsFlush
  <2>3. r.log = st.log /\ r.kept = st.kept[s]
    BY <2>2 DEF Writer
  <2>4. [st.kept EXCEPT ![s] = r.kept] = st.kept
    BY <1>1, <1>3, <2>3
  <2> HIDE DEF t
  <2>5. ~IsEvent(st, c) /\ ~IsFinish(st, c) /\ ~IsDrop(st, c) /\ ~IsRendered(st, c)
    BY <1>5 DEF IsEvent, IsFinish, IsDrop, IsRendered
  <2> QED BY <1>2, <2>1, <2>3, <2>4, <2>5, Zenon DEF StepMeant, t, r
<1>6. CASE ~st.gone[s] /\ c.kind \in EventKinds
  <2> DEFINE left == Left(next, s, r)
  <2>0. IsEvent(st, c) /\ ~IsFinish(st, c) /\ ~IsDrop(st, c) /\ (IsRendered(st, c) <=> r.ok /\ st.renderer[s])
    BY <1>4, <1>6, Zenon DEF IsEvent, IsFinish, IsDrop, IsRendered, r
  <2>1. r = WriteEvent(Writer(next, c), next.n, c.size)
    BY <1>2, <1>10, <2>0 DEF r, Result
  <2>2. t = IF r.ok /\ next.renderer[s] THEN RenderEvent(left, c) ELSE left
    <3>1. t = Emit(next, c)
      BY <1>4, <1>6, Zenon DEF SinkStep, next
    <3> QED BY <2>1, <3>1, Zenon DEF Emit
  <2>3. LeftMeant(left, next, s, r)
    BY <1>1, <1>2, <1>9, LeftIs
  <2> HIDE DEF left, t
  <2>4. /\ left \in SinkStates /\ left.n = st.n + 1 /\ left.verbose = st.verbose
        /\ left.log = r.log /\ left.kept = [st.kept EXCEPT ![s] = r.kept]
        /\ left.tools = st.tools /\ left.shown = st.shown /\ left.gone = st.gone
        /\ left.finished = st.finished /\ left.renderer = st.renderer /\ left.closing = st.closing
    BY <1>2, <2>3 DEF LeftMeant
  <2>5. CASE ~(r.ok /\ st.renderer[s])
    <3>1. t = left
      BY <1>2, <2>2, <2>5
    <3> QED BY <2>0, <2>4, <2>5, <3>1, Zenon DEF StepMeant, t, r
  <2>6. CASE r.ok /\ st.renderer[s]
    <3>1. t = RenderEvent(left, c)
      BY <1>2, <2>2, <2>6
    <3>2. RenderMeant(t, left, c)
      BY <2>4, <3>1, RenderIs
    <3>3. Shows(left, c) <=> Shows(st, c)
      BY <2>4 DEF Shows
    <3> QED BY <2>0, <2>4, <2>6, <3>2, <3>3, Zenon DEF StepMeant, RenderMeant, t, r
  <2> QED BY <2>5, <2>6
<1>7. CASE ~st.gone[s] /\ c.kind = "finish"
  <2> DEFINE flags == [st.finished EXCEPT ![s] = TRUE]
             ended == [next EXCEPT !.finished = flags]
             left == Left(ended, s, r)
  <2>0. /\ ~IsEvent(st, c) /\ ~IsDrop(st, c) /\ ~IsRendered(st, c)
        /\ IsFinish(st, c) <=> ~st.finished[s]
    BY <1>4, <1>7, Zenon DEF IsEvent, IsFinish, IsDrop, IsRendered
  <2>1. CASE st.finished[s]
    <3>1. t = next
      <4>1. t = Finish(next, c)
        BY <1>4, <1>7, Zenon DEF SinkStep, next
      <4> QED BY <1>2, <2>1, <4>1 DEF Finish
    <3>2. r = Writer(st, c)
      BY <1>7, <2>0, <2>1 DEF r, Result, IsFlush
    <3>3. r.log = st.log /\ r.kept = st.kept[s]
      BY <3>2 DEF Writer
    <3>4. [st.kept EXCEPT ![s] = r.kept] = st.kept
      BY <1>1, <1>3, <3>3
    <3> HIDE DEF t
    <3> QED BY <1>2, <2>0, <2>1, <3>1, <3>3, <3>4, Zenon DEF StepMeant, t, r
  <2>2. CASE ~st.finished[s]
    <3>1. r = Flush(Writer(next, c))
      BY <1>7, <1>10, <2>0, <2>2 DEF r, Result, IsFlush
    <3>2. t = IF r.ok THEN WriteFinish(left, c) ELSE left
      <4>1. [next EXCEPT !.finished[s] = TRUE] = ended
        BY <1>1, <1>2, <1>3 DEF SinkStates
      <4>2. t = Finish(next, c)
        BY <1>4, <1>7, Zenon DEF SinkStep, next
      <4> HIDE DEF ended
      <4> QED BY <1>2, <2>2, <3>1, <4>1, <4>2, Zenon DEF Finish
    <3>3. /\ ended \in SinkStates /\ ended.n = st.n + 1 /\ ended.verbose = st.verbose
          /\ ended.log = st.log /\ ended.kept = st.kept /\ ended.finished = flags
          /\ ended.tools = st.tools /\ ended.shown = st.shown /\ ended.gone = st.gone
          /\ ended.renderer = st.renderer /\ ended.closing = st.closing
      <4>1. flags \in [Sinks -> BOOLEAN]
        BY <1>1, <1>3
      <4> HIDE DEF flags
      <4>2. ended \in SinkStates /\ ended.finished = flags
        BY <1>2, <4>1 DEF SinkStates
      <4>3. /\ ended.n = next.n /\ ended.verbose = next.verbose /\ ended.log = next.log
            /\ ended.tools = next.tools /\ ended.shown = next.shown /\ ended.gone = next.gone
            /\ ended.kept = next.kept /\ ended.renderer = next.renderer
            /\ ended.closing = next.closing
        BY <1>2 DEF SinkStates
      <4> QED BY <1>2, <4>2, <4>3
    <3> HIDE DEF ended
    <3>4. LeftMeant(left, ended, s, r)
      BY <1>1, <1>9, <3>3, LeftIs
    <3> HIDE DEF left, t
    <3>5. /\ left \in SinkStates /\ left.n = st.n + 1 /\ left.verbose = st.verbose
          /\ left.log = r.log /\ left.kept = [st.kept EXCEPT ![s] = r.kept]
          /\ left.tools = st.tools /\ left.shown = st.shown /\ left.gone = st.gone
          /\ left.finished = flags /\ left.renderer = st.renderer /\ left.closing = st.closing
      BY <3>3, <3>4 DEF LeftMeant
    <3>6. CASE ~r.ok
      <4>1. t = left
        BY <3>2, <3>6
      <4> QED BY <2>0, <2>2, <3>5, <3>6, <4>1, Zenon DEF StepMeant, t, r, flags
    <3>7. CASE r.ok
      <4> DEFINE renderer == [st.renderer EXCEPT ![s] = FALSE]
                 closing == IF c.term THEN [st.closing EXCEPT ![s] = Append(st.closing[s], st.tools[s])]
                            ELSE st.closing
      <4>1. renderer \in [Sinks -> BOOLEAN] /\ closing \in [Sinks -> Seq(Nat)]
        BY <1>1, <1>3
      <4>2. t = WriteFinish(left, c)
        BY <3>2, <3>7
      <4>3. t = [left EXCEPT !.renderer = renderer, !.closing = closing]
        BY <1>1, <1>3, <3>5, <4>2 DEF WriteFinish, SinkStates
      <4> HIDE DEF renderer, closing
      <4>4. t \in SinkStates /\ t.renderer = renderer /\ t.closing = closing
        BY <3>5, <4>1, <4>3 DEF SinkStates
      <4>5. /\ t.n = left.n /\ t.verbose = left.verbose /\ t.log = left.log /\ t.kept = left.kept
            /\ t.tools = left.tools /\ t.shown = left.shown /\ t.finished = left.finished /\ t.gone = left.gone
        BY <3>5, <4>3 DEF SinkStates
      <4>6. t.closing = IF IsFinish(st, c) /\ r.ok /\ c.term
                        THEN [st.closing EXCEPT ![s] = Append(st.closing[s], st.tools[s])] ELSE st.closing
        BY <2>0, <2>2, <3>7, <4>4 DEF closing
      <4>7. t.renderer = [st.renderer EXCEPT ![s] = FALSE]
        BY <4>4 DEF renderer
      <4> QED BY <2>0, <2>2, <3>5, <3>7, <4>4, <4>5, <4>6, <4>7, Zenon DEF StepMeant, t, r, flags
    <3> QED BY <3>6, <3>7
  <2> QED BY <2>1, <2>2
<1>8. CASE ~st.gone[s] /\ c.kind = "drop"
  <2> DEFINE flags == [st.gone EXCEPT ![s] = TRUE]
             ended == [next EXCEPT !.gone = flags]
             left == Left(ended, s, r)
  <2>0. ~IsEvent(st, c) /\ ~IsFinish(st, c) /\ IsDrop(st, c) /\ ~IsRendered(st, c)
    BY <1>4, <1>8, Zenon DEF IsEvent, IsFinish, IsDrop, IsRendered
  <2>1. r = Flush(Writer(next, c))
    BY <1>8, <1>10, <2>0 DEF r, Result, IsFlush
  <2>2. t = left
    <3>1. [next EXCEPT !.gone[s] = TRUE] = ended
      BY <1>1, <1>2, <1>3 DEF SinkStates
    <3>2. t = Drop(next, c)
      BY <1>4, <1>8, Zenon DEF SinkStep, next
    <3> HIDE DEF ended
    <3> QED BY <2>1, <3>1, <3>2, Zenon DEF Drop
  <2>3. /\ ended \in SinkStates /\ ended.n = st.n + 1 /\ ended.verbose = st.verbose
        /\ ended.log = st.log /\ ended.kept = st.kept /\ ended.gone = flags
        /\ ended.tools = st.tools /\ ended.shown = st.shown /\ ended.finished = st.finished
        /\ ended.renderer = st.renderer /\ ended.closing = st.closing
    <3>1. flags \in [Sinks -> BOOLEAN]
      BY <1>1, <1>3
    <3> HIDE DEF flags
    <3>2. ended \in SinkStates /\ ended.gone = flags
      BY <1>2, <3>1 DEF SinkStates
    <3>3. /\ ended.n = next.n /\ ended.verbose = next.verbose /\ ended.log = next.log
          /\ ended.tools = next.tools /\ ended.shown = next.shown /\ ended.finished = next.finished
          /\ ended.kept = next.kept /\ ended.renderer = next.renderer
          /\ ended.closing = next.closing
      BY <1>2 DEF SinkStates
    <3> QED BY <1>2, <3>2, <3>3
  <2> HIDE DEF ended
  <2>4. LeftMeant(left, ended, s, r)
    BY <1>1, <1>9, <2>3, LeftIs
  <2> HIDE DEF left, t
  <2>5. /\ left \in SinkStates /\ left.n = st.n + 1 /\ left.verbose = st.verbose
        /\ left.log = r.log /\ left.kept = [st.kept EXCEPT ![s] = r.kept]
        /\ left.tools = st.tools /\ left.shown = st.shown /\ left.gone = flags
        /\ left.finished = st.finished /\ left.renderer = st.renderer /\ left.closing = st.closing
    BY <2>3, <2>4 DEF LeftMeant
  <2> QED BY <2>0, <2>2, <2>5, Zenon DEF StepMeant, t, r, flags
<1> QED BY <1>1, <1>5, <1>6, <1>7, <1>8

ElemsOf(seq) == {seq[i] : i \in DOMAIN seq}

(* An appended element is one more.                                        *)
LEMMA AppendElems ==
  ASSUME NEW seq \in Seq(Nat), NEW n \in Nat
  PROVE  /\ ElemsOf(Append(seq, n)) = ElemsOf(seq) \cup {n}
         /\ Increasing(seq) /\ (\A x \in ElemsOf(seq) : x < n) => Increasing(Append(seq, n))
<1> DEFINE new == Append(seq, n)
<1>1. /\ DOMAIN seq = 1 .. Len(seq) /\ DOMAIN new = 1 .. Len(seq) + 1 /\ Len(seq) \in Nat
      /\ \A i \in 1 .. Len(seq) : new[i] = seq[i] /\ seq[i] \in Nat
      /\ new[Len(seq) + 1] = n
  OBVIOUS
<1> HIDE DEF new
<1>2. ElemsOf(new) = ElemsOf(seq) \cup {n}
  <2>1. ASSUME NEW x \in ElemsOf(new) PROVE x \in ElemsOf(seq) \cup {n}
    <3>1. PICK i \in DOMAIN new : x = new[i]
      BY DEF ElemsOf
    <3> QED BY <1>1, <3>1 DEF ElemsOf
  <2>2. ASSUME NEW x \in ElemsOf(seq) PROVE x \in ElemsOf(new)
    <3>1. PICK i \in DOMAIN seq : x = seq[i]
      BY DEF ElemsOf
    <3>2. i \in DOMAIN new /\ new[i] = x
      BY <1>1, <3>1
    <3> QED BY <3>2 DEF ElemsOf
  <2>3. n \in ElemsOf(new)
    <3>1. Len(seq) + 1 \in DOMAIN new
      BY <1>1
    <3> QED BY <1>1, <3>1 DEF ElemsOf
  <2> QED BY <2>1, <2>2, <2>3
<1>3. ASSUME Increasing(seq), \A x \in ElemsOf(seq) : x < n PROVE Increasing(new)
  <2> SUFFICES ASSUME NEW i \in DOMAIN new, NEW j \in DOMAIN new, i < j PROVE new[i] < new[j]
    BY DEF Increasing
  <2>1. i \in 1 .. Len(seq) /\ seq[i] \in ElemsOf(seq)
    BY <1>1 DEF ElemsOf
  <2>2. CASE j = Len(seq) + 1
    BY <1>1, <1>3, <2>1, <2>2
  <2>3. CASE j # Len(seq) + 1
    <3>1. j \in 1 .. Len(seq)
      BY <1>1, <2>3
    <3> QED BY <1>1, <1>3, <2>1, <3>1 DEF Increasing
  <2> QED BY <2>2, <2>3
<1> QED BY <1>2, <1>3 DEF new

(***************************************************************************)
(* What the first k calls leave behind.                                    *)
(***************************************************************************)
Stands(seq, u) == \E p \in DOMAIN seq : seq[p] = u

(* The tool calls of a sink before its end, those of them that are whole   *)
(* in the log, and those that nothing kept from it.                        *)
Tools(calls, s, k) == {i \in BeforeEnd(calls, s) : i <= k /\ calls[i].kind = "tool"}
WholeTools(calls, s, k, log) == {i \in Tools(calls, s, k) : InOnePiece(log, i, calls[i].size)}
SureTools(calls, s, k) == {i \in Tools(calls, s, k) : calls[i].room = Plenty}

LogRight(calls, k, log) ==
  /\ \A p \in DOMAIN log : log[p].event <= k /\ \E s \in Sinks : log[p].event \in EventsOf(calls, s)
  /\ \A p, q \in DOMAIN log :
       p < q /\ calls[log[p].event].sink = calls[log[q].event].sink => ComesBefore(log[p], log[q])

FlagsRight(calls, k, s, gone, finished) ==
  /\ gone <=> \E j \in 1 .. k : calls[j].sink = s /\ calls[j].kind = "drop"
  /\ finished <=> \E j \in Of(calls, s) : j <= k /\ calls[j].kind = "finish"
  /\ finished => \E f \in FinishOf(calls, s) : f <= k

QueueRight(calls, k, s, log, kept) ==
  /\ Len(kept) <= Capacity
  /\ \A p \in DOMAIN kept : kept[p].event <= k /\ kept[p].event \in EventsOf(calls, s)
  /\ \A p, q \in DOMAIN kept : p < q => ComesBefore(kept[p], kept[q])
  /\ \A p \in DOMAIN log, q \in DOMAIN kept :
       calls[log[p].event].sink = s => ComesBefore(log[p], kept[q])

EventsRight(calls, k, s, log, kept) ==
  /\ \A i \in EventsOf(calls, s) : i <= k =>
       /\ calls[i].room = Plenty => InOnePiece(log, i, calls[i].size)
       /\ FirstToFail(calls, s, i) =>
            \A j \in 1 .. calls[i].size + 1 : Stands(log, Unit(i, j)) \/ Stands(kept, Unit(i, j))
       /\ FirstToFail(calls, s, i)
            /\ (\E f \in Flushes(calls, s) : i <= f /\ f <= k /\ calls[f].room = Plenty) =>
          \A j \in 1 .. calls[i].size + 1 : Stands(log, Unit(i, j))
  /\ (\A j \in Of(calls, s) : j <= k => calls[j].room = Plenty) => kept = <<>>

ShownRight(calls, k, s, verbose, log, shown) ==
  /\ Increasing(shown)
  /\ \A i \in ElemsOf(shown) : /\ i \in EventsOf(calls, s) /\ i <= k
                               /\ InOnePiece(log, i, calls[i].size) /\ Visible(calls[i].kind, verbose)
  /\ \A i \in BeforeEnd(calls, s) :
       i <= k /\ calls[i].room = Plenty /\ calls[i].term /\ Visible(calls[i].kind, verbose) =>
         i \in ElemsOf(shown)

EndRight(calls, k, s, log, finished, renderer, tools, closing) ==
  /\ ~renderer => finished
  /\ ~finished \/ ~renderer => \E counted \in SUBSET WholeTools(calls, s, k, log) :
                                 SureTools(calls, s, k) \subseteq counted /\ tools = Cardinality(counted)
  /\ closing # <<>> => ~renderer /\ closing = <<tools>>
  /\ (\E f \in FinishOf(calls, s) : f <= k /\ calls[f].room = Plenty /\ calls[f].term) => closing # <<>>

SinkInv(calls, verbose, k, st) ==
  /\ st \in SinkStates /\ st.n = k /\ st.verbose = verbose
  /\ LogRight(calls, k, st.log)
  /\ \A s \in Sinks :
       /\ FlagsRight(calls, k, s, st.gone[s], st.finished[s])
       /\ QueueRight(calls, k, s, st.log, st.kept[s])
       /\ EventsRight(calls, k, s, st.log, st.kept[s])
       /\ ShownRight(calls, k, s, verbose, st.log, st.shown[s])
       /\ EndRight(calls, k, s, st.log, st.finished[s], st.renderer[s], st.tools[s], st.closing[s])

(* Positions of calls are numbers.                                         *)
LEMMA PositionsAre ==
  ASSUME NEW calls \in Seq(Calls), NEW s \in Sinks
  PROVE  /\ Of(calls, s) \subseteq DOMAIN calls /\ DOMAIN calls = 1 .. Len(calls) /\ Len(calls) \in Nat
         /\ DOMAIN calls \subseteq Nat \ {0}
         /\ EventsOf(calls, s) \subseteq Of(calls, s) /\ FinishOf(calls, s) \subseteq Of(calls, s)
         /\ Flushes(calls, s) \subseteq Of(calls, s) /\ BeforeEnd(calls, s) \subseteq EventsOf(calls, s)
         /\ \A i \in Of(calls, s) : calls[i].sink = s
         /\ \A i \in DOMAIN calls : calls[i].size \in Nat /\ calls[i].size >= 1
<1>1. /\ Of(calls, s) \subseteq DOMAIN calls /\ DOMAIN calls = 1 .. Len(calls) /\ Len(calls) \in Nat
      /\ DOMAIN calls \subseteq Nat \ {0}
      /\ EventsOf(calls, s) \subseteq Of(calls, s) /\ FinishOf(calls, s) \subseteq Of(calls, s)
      /\ Flushes(calls, s) \subseteq Of(calls, s) /\ BeforeEnd(calls, s) \subseteq EventsOf(calls, s)
      /\ \A i \in Of(calls, s) : calls[i].sink = s
  BY DEF Of, EventsOf, FinishOf, Flushes, BeforeEnd
<1>2. ASSUME NEW c \in Calls PROVE c.size \in Nat /\ c.size >= 1
  BY SinkAssumption DEF Calls
<1>3. \A i \in DOMAIN calls : calls[i] \in Calls
  OBVIOUS
<1> QED BY <1>1, <1>2, <1>3

(* What a call does to the fields of each sink.                            *)
LEMMA FieldsStep ==
  ASSUME NEW st \in SinkStates, NEW c \in Calls, NEW t, StepMeant(t, st, c), NEW s \in Sinks
  PROVE  LET mine == c.sink = s IN
         /\ t.gone[s] <=> st.gone[s] \/ (mine /\ IsDrop(st, c))
         /\ t.finished[s] <=> st.finished[s] \/ (mine /\ IsFinish(st, c))
         /\ t.renderer[s] <=> st.renderer[s] /\ ~(mine /\ IsFinish(st, c) /\ Result(st, c).ok)
         /\ t.kept[s] = IF mine THEN Result(st, c).kept ELSE st.kept[s]
         /\ t.shown[s] = IF mine /\ IsRendered(st, c) /\ Shows(st, c) THEN Append(st.shown[s], st.n + 1)
                         ELSE st.shown[s]
         /\ t.tools[s] = IF mine /\ IsRendered(st, c) /\ c.kind = "tool" THEN st.tools[s] + 1 ELSE st.tools[s]
         /\ t.closing[s] = IF mine /\ IsFinish(st, c) /\ Result(st, c).ok /\ c.term
                           THEN Append(st.closing[s], st.tools[s]) ELSE st.closing[s]
<1>1. c.sink \in Sinks
  BY DEF Calls
<1>2. /\ st.kept \in [Sinks -> Seq(Units)] /\ st.shown \in [Sinks -> Seq(Nat)] /\ st.tools \in [Sinks -> Nat]
      /\ st.closing \in [Sinks -> Seq(Nat)] /\ st.renderer \in [Sinks -> BOOLEAN]
      /\ st.finished \in [Sinks -> BOOLEAN] /\ st.gone \in [Sinks -> BOOLEAN]
  BY DEF SinkStates
<1>3. ASSUME NEW f, NEW S, f \in [Sinks -> S], NEW v
      PROVE  [f EXCEPT ![c.sink] = v][s] = IF c.sink = s THEN v ELSE f[s]
  BY <1>1, <1>3
<1>4. t.gone[s] = IF c.sink = s /\ IsDrop(st, c) THEN TRUE ELSE st.gone[s]
  BY <1>2, <1>3 DEF StepMeant
<1>5. t.finished[s] = IF c.sink = s /\ IsFinish(st, c) THEN TRUE ELSE st.finished[s]
  BY <1>2, <1>3 DEF StepMeant
<1>6. t.renderer[s] = IF c.sink = s /\ IsFinish(st, c) /\ Result(st, c).ok THEN FALSE ELSE st.renderer[s]
  <2> DEFINE ends == IsFinish(st, c) /\ Result(st, c).ok
             now == [st.renderer EXCEPT ![c.sink] = FALSE]
  <2>1. t.renderer = IF ends THEN now ELSE st.renderer
    BY Zenon DEF StepMeant
  <2>2. now[s] = IF c.sink = s THEN FALSE ELSE st.renderer[s]
    BY <1>2, <1>3
  <2> HIDE DEF ends, now
  <2>3. t.renderer[s] = IF c.sink = s /\ ends THEN FALSE ELSE st.renderer[s]
    BY <2>1, <2>2
  <2> QED BY <2>3 DEF ends
<1>7. t.kept[s] = IF c.sink = s THEN Result(st, c).kept ELSE st.kept[s]
  BY <1>2, <1>3 DEF StepMeant
<1>8. t.shown[s] = IF c.sink = s /\ IsRendered(st, c) /\ Shows(st, c) THEN Append(st.shown[s], st.n + 1)
                   ELSE st.shown[s]
  <2> DEFINE added == Append(st.shown[c.sink], st.n + 1)
             shows == IsRendered(st, c) /\ Shows(st, c)
             now == [st.shown EXCEPT ![c.sink] = added]
  <2>1. t.shown = IF shows THEN now ELSE st.shown
    BY Zenon DEF StepMeant
  <2>2. now[s] = IF c.sink = s THEN added ELSE st.shown[s]
    BY <1>2, <1>3
  <2>3. c.sink = s => added = Append(st.shown[s], st.n + 1)
    OBVIOUS
  <2> HIDE DEF added, now, shows
  <2>4. t.shown[s] = IF c.sink = s /\ shows THEN Append(st.shown[s], st.n + 1) ELSE st.shown[s]
    BY <2>1, <2>2, <2>3
  <2> QED BY <2>4 DEF shows
<1>9. t.tools[s] = IF c.sink = s /\ IsRendered(st, c) /\ c.kind = "tool" THEN st.tools[s] + 1 ELSE st.tools[s]
  <2> DEFINE more == st.tools[c.sink] + 1
             counts == IsRendered(st, c) /\ c.kind = "tool"
             now == [st.tools EXCEPT ![c.sink] = more]
  <2>1. t.tools = IF counts THEN now ELSE st.tools
    BY Zenon DEF StepMeant
  <2>2. now[s] = IF c.sink = s THEN more ELSE st.tools[s]
    BY <1>2, <1>3
  <2>3. c.sink = s => more = st.tools[s] + 1
    OBVIOUS
  <2> HIDE DEF more, now, counts
  <2>4. t.tools[s] = IF c.sink = s /\ counts THEN st.tools[s] + 1 ELSE st.tools[s]
    BY <2>1, <2>2, <2>3
  <2> QED BY <2>4 DEF counts
<1>10. t.closing[s] = IF c.sink = s /\ IsFinish(st, c) /\ Result(st, c).ok /\ c.term
                      THEN Append(st.closing[s], st.tools[s]) ELSE st.closing[s]
  <2> DEFINE added == Append(st.closing[c.sink], st.tools[c.sink])
             closes == IsFinish(st, c) /\ Result(st, c).ok /\ c.term
             now == [st.closing EXCEPT ![c.sink] = added]
  <2>1. t.closing = IF closes THEN now ELSE st.closing
    BY Zenon DEF StepMeant
  <2>2. now[s] = IF c.sink = s THEN added ELSE st.closing[s]
    BY <1>2, <1>3
  <2>3. c.sink = s => added = Append(st.closing[s], st.tools[s])
    OBVIOUS
  <2> HIDE DEF added, now, closes
  <2>4. t.closing[s] = IF c.sink = s /\ closes THEN Append(st.closing[s], st.tools[s]) ELSE st.closing[s]
    BY <2>1, <2>2, <2>3
  <2> QED BY <2>4 DEF closes
<1> QED BY <1>4, <1>5, <1>6, <1>7, <1>8, <1>9, <1>10, Zenon

(* Where the next call stands among those of a sink.                       *)
LEMMA NextCallIs ==
  ASSUME NEW calls \in Seq(Calls), NEW k \in Nat, k < Len(calls), NEW st \in SinkStates, NEW s \in Sinks,
         FlagsRight(calls, k, s, st.gone[s], st.finished[s])
  PROVE  LET c == calls[k + 1]
             mine == c.sink = s
         IN /\ k + 1 \in Of(calls, s) <=> mine /\ ~st.gone[s]
            /\ k + 1 \in EventsOf(calls, s) <=> mine /\ IsEvent(st, c)
            /\ k + 1 \in FinishOf(calls, s) <=> mine /\ IsFinish(st, c)
            /\ k + 1 \in Flushes(calls, s) <=> mine /\ IsFlush(st, c)
            /\ k + 1 \in BeforeEnd(calls, s) <=> mine /\ IsEvent(st, c) /\ ~st.finished[s]
<1> DEFINE c == calls[k + 1]
           n == k + 1
           mine == c.sink = s
<1>1. n \in DOMAIN calls /\ c \in Calls /\ n \in Nat /\ n - 1 = k
  OBVIOUS
<1>2. "finish" \notin EventKinds
  BY DEF EventKinds
<1>3. n \in Of(calls, s) <=> mine /\ ~st.gone[s]
  BY <1>1 DEF Of, FlagsRight
<1>4. n \in EventsOf(calls, s) <=> mine /\ IsEvent(st, c)
  BY <1>3 DEF EventsOf, IsEvent
<1>5. n \in FinishOf(calls, s) <=> mine /\ IsFinish(st, c)
  <2>1. n \in FinishOf(calls, s) <=>
          n \in Of(calls, s) /\ c.kind = "finish" /\ \A j \in Of(calls, s) : calls[j].kind = "finish" => n <= j
    BY DEF FinishOf
  <2>2. \A j \in Of(calls, s) : n <= j <=> ~(j <= k)
    BY PositionsAre
  <2> QED BY <1>3, <2>1, <2>2 DEF IsFinish, FlagsRight
<1>6. n \in Flushes(calls, s) <=> mine /\ IsFlush(st, c)
  BY <1>3, <1>5 DEF Flushes, IsFlush, IsFinish
<1>7. n \in BeforeEnd(calls, s) <=> mine /\ IsEvent(st, c) /\ ~st.finished[s]
  <2>1. n \in BeforeEnd(calls, s) <=> mine /\ IsEvent(st, c) /\ \A f \in FinishOf(calls, s) : n < f
    BY <1>4 DEF BeforeEnd
  <2>2. ASSUME st.finished[s] PROVE ~ \A f \in FinishOf(calls, s) : n < f
    <3>1. PICK f \in FinishOf(calls, s) : f <= k
      BY <2>2 DEF FlagsRight
    <3>2. f \in Nat
      BY PositionsAre
    <3> QED BY <3>1, <3>2
  <2>3. ASSUME ~st.finished[s], IsEvent(st, c), NEW f \in FinishOf(calls, s) PROVE n < f
    <3>1. f \in Of(calls, s) /\ calls[f].kind = "finish" /\ f \in Nat
      BY PositionsAre DEF FinishOf
    <3>2. ~(f <= k)
      BY <2>3, <3>1 DEF FlagsRight
    <3>3. f # n
      BY <1>2, <2>3, <3>1 DEF IsEvent
    <3> QED BY <3>1, <3>2, <3>3
  <2> QED BY <2>1, <2>2, <2>3
<1> QED BY <1>3, <1>4, <1>5, <1>6, <1>7

(* The flags say whether the sink is finished and gone.                    *)
LEMMA FlagsStep ==
  ASSUME NEW calls \in Seq(Calls), NEW k \in Nat, k < Len(calls), NEW st \in SinkStates, NEW s \in Sinks,
         FlagsRight(calls, k, s, st.gone[s], st.finished[s]), NEW t, StepMeant(t, st, calls[k + 1])
  PROVE  FlagsRight(calls, k + 1, s, t.gone[s], t.finished[s])
<1> DEFINE c == calls[k + 1]
           n == k + 1
           mine == c.sink = s
<1>1. n \in DOMAIN calls /\ c \in Calls /\ n \in Nat
  OBVIOUS
<1>2. t.gone[s] <=> st.gone[s] \/ (mine /\ IsDrop(st, c))
  BY <1>1, FieldsStep
<1>3. t.finished[s] <=> st.finished[s] \/ (mine /\ IsFinish(st, c))
  BY <1>1, FieldsStep
<1>4. \A j \in 1 .. n : j \in 1 .. k \/ j = n
  OBVIOUS
<1>5. n \in 1 .. n /\ \A j \in 1 .. k : j \in 1 .. n
  OBVIOUS
<1>6. t.gone[s] <=> \E j \in 1 .. n : calls[j].sink = s /\ calls[j].kind = "drop"
  <2> DEFINE drops(j) == calls[j].sink = s /\ calls[j].kind = "drop"
  <2>1. st.gone[s] <=> \E j \in 1 .. k : drops(j)
    BY DEF FlagsRight
  <2>2. mine /\ IsDrop(st, c) <=> drops(n) /\ ~st.gone[s]
    BY DEF IsDrop
  <2> HIDE DEF drops, c, n, mine
  <2>3. (\E j \in 1 .. n : drops(j)) <=> drops(n) \/ \E j \in 1 .. k : drops(j)
    BY <1>4, <1>5, Zenon
  <2> QED BY <1>2, <2>1, <2>2, <2>3 DEF drops
<1>7. \A j \in Of(calls, s) : j <= n <=> j <= k \/ j = n
  BY PositionsAre
<1>8. n \in Of(calls, s) <=> mine /\ ~st.gone[s]
  BY NextCallIs
<1>9. n \in FinishOf(calls, s) <=> mine /\ IsFinish(st, c)
  BY NextCallIs
<1>10. t.finished[s] <=> \E j \in Of(calls, s) : j <= n /\ calls[j].kind = "finish"
  <2> DEFINE ends(j) == calls[j].kind = "finish"
  <2>1. st.finished[s] <=> \E j \in Of(calls, s) : j <= k /\ ends(j)
    BY DEF FlagsRight
  <2>2. mine /\ IsFinish(st, c) <=> n \in Of(calls, s) /\ ends(n) /\ ~st.finished[s]
    BY <1>8 DEF IsFinish
  <2> HIDE DEF ends, c, n, mine
  <2>3. (\E j \in Of(calls, s) : j <= n /\ ends(j)) <=>
          (n \in Of(calls, s) /\ ends(n)) \/ \E j \in Of(calls, s) : j <= k /\ ends(j)
    BY <1>7, Zenon
  <2> QED BY <1>3, <2>1, <2>2, <2>3 DEF ends
<1>11. t.finished[s] => \E f \in FinishOf(calls, s) : f <= n
  <2>1. CASE st.finished[s]
    <3>1. PICK f \in FinishOf(calls, s) : f <= k
      BY <2>1 DEF FlagsRight
    <3>2. f <= n
      BY <3>1, PositionsAre
    <3> QED BY <3>2
  <2>2. CASE mine /\ IsFinish(st, c)
    BY <1>1, <1>9, <2>2
  <2> QED BY <1>3, <2>1, <2>2
<1> QED BY <1>6, <1>10, <1>11, Zenon DEF FlagsRight

(* What a move adds to the log and leaves in the buffer is the queue, and  *)
(* all of it is in one of them.                                            *)
Grown(t, w, n, b) ==
  LET queue == 1 .. Len(w.kept) + b
      d == Len(t.log) - Len(w.log)
  IN /\ d \in Nat /\ t.log \in Seq(Units) /\ t.kept \in Seq(Units)
     /\ \A p \in DOMAIN w.log : p \in DOMAIN t.log /\ t.log[p] = w.log[p]
     /\ \A p \in DOMAIN t.log : p \in DOMAIN w.log \/ \E i \in queue :
          p = Len(w.log) + i /\ i <= d /\ t.log[p] = Queued(w, n, 0, i)
     /\ \A p \in DOMAIN t.kept : d + p \in queue /\ t.kept[p] = Queued(w, n, 0, d + p)
     /\ \A i \in queue : Stands(t.log, Queued(w, n, 0, i)) \/ Stands(t.kept, Queued(w, n, 0, i))

LEMMA GrowIs ==
  ASSUME NEW w \in Writers, NEW t, NEW n \in Nat, NEW b \in Nat, Moved(t, w, n, 0, b)
  PROVE  Grown(t, w, n, b)
<1> DEFINE lw == Len(w.log)
           lt == Len(t.log)
           kw == Len(w.kept)
           kt == Len(t.kept)
           d == lt - lw
<1>1. t \in Writers
  BY DEF Moved
<1>2. /\ lw \in Nat /\ lt \in Nat /\ kw \in Nat /\ kt \in Nat
      /\ DOMAIN w.log = 1 .. lw /\ DOMAIN t.log = 1 .. lt /\ DOMAIN t.kept = 1 .. kt
      /\ t.log \in Seq(Units) /\ t.kept \in Seq(Units)
  BY <1>1 DEF Writers
<1>3. /\ d >= 0 /\ d + kt = kw + b
      /\ \A i \in 1 .. lw : t.log[i] = w.log[i]
      /\ \A i \in 1 .. d : t.log[lw + i] = Queued(w, n, 0, i)
      /\ \A i \in 1 .. kt : t.kept[i] = Queued(w, n, 0, d + i)
  <2>1. /\ d >= 0 /\ d + kt = kw + b - 0
        /\ \A i \in 1 .. lw : t.log[i] = w.log[i]
        /\ \A i \in 1 .. d : t.log[lw + i] = Queued(w, n, 0, i)
        /\ \A i \in 1 .. kt : t.kept[i] = Queued(w, n, 0, d + i)
    BY DEF Moved
  <2> HIDE DEF lw, lt, kw, kt
  <2> QED BY <1>2, <2>1
<1> HIDE DEF lw, lt, kw, kt
<1>4. d \in Nat /\ lt = lw + d
  BY <1>2, <1>3
<1> HIDE DEF d
<1>5. \A p \in DOMAIN w.log : p \in DOMAIN t.log /\ t.log[p] = w.log[p]
  BY <1>2, <1>3, <1>4
<1>6. ASSUME NEW p \in DOMAIN t.log, p \notin DOMAIN w.log
      PROVE  \E i \in 1 .. kw + b : p = lw + i /\ i <= d /\ t.log[p] = Queued(w, n, 0, i)
  <2> DEFINE i == p - lw
  <2>1. i \in 1 .. d /\ i \in 1 .. kw + b /\ p = lw + i /\ i <= d
    BY <1>2, <1>3, <1>4, <1>6
  <2> HIDE DEF i
  <2> QED BY <1>3, <2>1
<1>7. \A p \in DOMAIN t.kept : d + p \in 1 .. kw + b /\ t.kept[p] = Queued(w, n, 0, d + p)
  BY <1>2, <1>3, <1>4
<1>8. ASSUME NEW i \in 1 .. kw + b PROVE Stands(t.log, Queued(w, n, 0, i)) \/ Stands(t.kept, Queued(w, n, 0, i))
  <2>1. CASE i <= d
    <3>1. lw + i \in DOMAIN t.log /\ i \in 1 .. d
      BY <1>2, <1>4, <2>1
    <3> QED BY <1>3, <3>1 DEF Stands
  <2>2. CASE ~(i <= d)
    <3> DEFINE p == i - d
    <3>1. p \in 1 .. kt /\ d + p = i
      BY <1>2, <1>3, <1>4, <2>2
    <3> HIDE DEF p
    <3>2. p \in DOMAIN t.kept /\ t.kept[p] = Queued(w, n, 0, i)
      BY <1>2, <1>3, <3>1
    <3> QED BY <3>2 DEF Stands
  <2> QED BY <2>1, <2>2
<1> QED BY <1>2, <1>4, <1>5, <1>6, <1>7, <1>8 DEF Grown, lw, lt, kw, kt, d

(* The queue: what waited, in its order, and then the event.               *)
QueueMeant(w, n, b) ==
  LET kept == w.kept
      q(i) == Queued(w, n, 0, i)
  IN /\ \A i \in 1 .. Len(kept) + b : \/ i \in DOMAIN kept /\ q(i) = kept[i]
                                      \/ i - Len(kept) \in 1 .. b /\ q(i) = Unit(n, i - Len(kept))
     /\ \A i \in DOMAIN kept : i \in 1 .. Len(kept) + b /\ q(i) = kept[i]
     /\ \A j \in 1 .. b : Len(kept) + j \in 1 .. Len(kept) + b /\ q(Len(kept) + j) = Unit(n, j)
     /\ (\A p \in DOMAIN kept : kept[p].event < n)
          /\ (\A p1, p2 \in DOMAIN kept : p1 < p2 => ComesBefore(kept[p1], kept[p2])) =>
        \A i, j \in 1 .. Len(kept) + b : i < j => ComesBefore(q(i), q(j))

LEMMA QueueIs ==
  ASSUME NEW w \in Writers, NEW n \in Nat, NEW b \in Nat
  PROVE  QueueMeant(w, n, b)
<1> DEFINE kept == w.kept
           q(i) == Queued(w, n, 0, i)
           kw == Len(kept)
<1>1. kw \in Nat /\ DOMAIN kept = 1 .. kw
  BY DEF Writers
<1>2. ASSUME NEW i \in 1 .. kw + b
      PROVE  \/ i \in DOMAIN kept /\ i <= kw /\ q(i) = kept[i]
             \/ i - kw \in 1 .. b /\ ~(i <= kw) /\ q(i) = Unit(n, i - kw)
  <2>1. CASE i <= kw
    BY <1>1, <2>1 DEF Queued
  <2>2. CASE ~(i <= kw)
    <3>1. i - kw \in 1 .. b /\ 0 + i - kw = i - kw
      BY <1>1, <2>2
    <3>2. q(i) = Unit(n, 0 + i - kw)
      BY <2>2 DEF Queued
    <3> QED BY <2>2, <3>1, <3>2
  <2> QED BY <2>1, <2>2
<1>3. \A i \in DOMAIN kept : i \in 1 .. kw + b /\ q(i) = kept[i]
  BY <1>1 DEF Queued
<1>4. ASSUME NEW j \in 1 .. b PROVE kw + j \in 1 .. kw + b /\ q(kw + j) = Unit(n, j)
  <2>1. kw + j \in 1 .. kw + b /\ ~(kw + j <= kw) /\ 0 + (kw + j) - kw = j
    BY <1>1
  <2>2. q(kw + j) = Unit(n, 0 + (kw + j) - kw)
    BY <2>1 DEF Queued
  <2> QED BY <2>1, <2>2
<1>5. ASSUME \A p \in DOMAIN kept : kept[p].event < n,
             \A p1, p2 \in DOMAIN kept : p1 < p2 => ComesBefore(kept[p1], kept[p2]),
             NEW i \in 1 .. kw + b, NEW j \in 1 .. kw + b, i < j
      PROVE  ComesBefore(q(i), q(j))
  <2> HIDE DEF q, kw
  <2>1. CASE j <= kw
    <3>1. i \in DOMAIN kept /\ j \in DOMAIN kept /\ ~(i - kw \in 1 .. b) /\ ~(j - kw \in 1 .. b)
      BY <1>1, <1>5, <2>1
    <3>2. q(i) = kept[i] /\ q(j) = kept[j]
      BY <1>2, <3>1
    <3> QED BY <1>5, <3>1, <3>2
  <2>2. CASE i <= kw /\ ~(j <= kw)
    <3>1. ~(i - kw \in 1 .. b)
      BY <1>1, <2>2
    <3>2. i \in DOMAIN kept /\ q(i) = kept[i] /\ q(j) = Unit(n, j - kw)
      BY <1>2, <2>2, <3>1
    <3>3. q(i).event < n /\ q(j).event = n
      BY <1>5, <3>2 DEF Unit
    <3> QED BY <3>3 DEF ComesBefore
  <2>3. CASE ~(i <= kw) /\ ~(j <= kw)
    <3>1. q(i) = Unit(n, i - kw) /\ q(j) = Unit(n, j - kw)
      BY <1>2, <2>3
    <3>2. i - kw < j - kw
      BY <1>1, <1>5
    <3>3. q(i).event = n /\ q(j).event = n /\ q(i).part < q(j).part
      BY <3>1, <3>2 DEF Unit
    <3> QED BY <3>3 DEF ComesBefore
  <2>4. ~(i <= kw) => ~(j <= kw)
    BY <1>1, <1>5
  <2> QED BY <2>1, <2>2, <2>3, <2>4
<1> QED BY <1>1, <1>2, <1>3, <1>4, <1>5 DEF QueueMeant

(* What is in the log stays there, in one piece if it was.                 *)
LEMMA LogsGrow ==
  ASSUME NEW log \in Seq(Units), NEW new \in Seq(Units),
         \A p \in DOMAIN log : p \in DOMAIN new /\ new[p] = log[p]
  PROVE  /\ \A u : Stands(log, u) => Stands(new, u)
         /\ \A i, size \in Nat : InOnePiece(log, i, size) => InOnePiece(new, i, size)
<1>1. \A u : Stands(log, u) => Stands(new, u)
  BY DEF Stands
<1>2. ASSUME NEW i \in Nat, NEW size \in Nat, InOnePiece(log, i, size) PROVE InOnePiece(new, i, size)
  <2>1. PICK p \in 0 .. Len(log) - (size + 1) : \A k \in 1 .. size + 1 : log[p + k] = Unit(i, k)
    BY <1>2 DEF InOnePiece
  <2>2. Len(log) \in Nat /\ Len(new) \in Nat /\ DOMAIN log = 1 .. Len(log) /\ DOMAIN new = 1 .. Len(new)
    OBVIOUS
  <2>3. Len(log) <= Len(new)
    <3>1. CASE Len(log) = 0
      BY <2>2, <3>1
    <3>2. CASE Len(log) # 0
      <4>1. Len(log) \in DOMAIN log
        BY <2>2, <3>2
      <4> QED BY <2>2, <4>1
    <3> QED BY <3>1, <3>2
  <2>4. p \in 0 .. Len(new) - (size + 1)
    BY <2>1, <2>2, <2>3
  <2>5. \A k \in 1 .. size + 1 : p + k \in DOMAIN log
    BY <2>1, <2>2
  <2>6. \A k \in 1 .. size + 1 : new[p + k] = Unit(i, k)
    BY <2>1, <2>5
  <2> QED BY <2>4, <2>6 DEF InOnePiece
<1> QED BY <1>1, <1>2

(* An event of which nothing is left in the buffer is whole in the log.    *)
LEMMA WrittenWhole ==
  ASSUME NEW w \in Writers, NEW t, NEW n \in Nat, NEW size \in Nat, Moved(t, w, n, 0, size + 1), Len(t.kept) = 0
  PROVE  InOnePiece(t.log, n, size)
<1> DEFINE lw == Len(w.log)
           lt == Len(t.log)
           kw == Len(w.kept)
           d == lt - lw
           p == lw + kw
<1>1. t \in Writers
  BY DEF Moved
<1>2. lw \in Nat /\ lt \in Nat /\ kw \in Nat
  BY <1>1 DEF Writers
<1>3. d >= 0 /\ d + 0 = kw + (size + 1) - 0 /\ \A i \in 1 .. d : t.log[lw + i] = Queued(w, n, 0, i)
  BY DEF Moved
<1>4. \A k \in 1 .. size + 1 : kw + k \in 1 .. kw + (size + 1) /\ Queued(w, n, 0, kw + k) = Unit(n, k)
  <2> DEFINE b == size + 1
  <2>1. b \in Nat
    OBVIOUS
  <2> HIDE DEF b
  <2>2. QueueMeant(w, n, b)
    BY <2>1, QueueIs
  <2>3. \A k \in 1 .. b : kw + k \in 1 .. kw + b /\ Queued(w, n, 0, kw + k) = Unit(n, k)
    BY <2>2 DEF QueueMeant
  <2> QED BY <2>3 DEF b
<1> HIDE DEF lw, lt, kw
<1>5. d = kw + (size + 1) /\ p \in 0 .. lt - (size + 1)
  BY <1>2, <1>3
<1>6. ASSUME NEW k \in 1 .. size + 1 PROVE t.log[p + k] = Unit(n, k)
  <2>1. lw + (kw + k) = p + k /\ kw + k \in 1 .. d
    BY <1>2, <1>4, <1>5
  <2> QED BY <1>3, <1>4, <2>1
<1> QED BY <1>5, <1>6 DEF InOnePiece, lt

(* What a call leaves in the log and in its sink's buffer: nothing gets    *)
(* lost but what is not taken of the event, and all stands in order.       *)
Comes(u, st, c) == Stands(st.kept[c.sink], u) \/ (IsEvent(st, c) /\ u.event = st.n + 1)
CallMeant(r, st, c, b) ==
  LET old == DOMAIN st.log IN
  /\ ResultMeant(r, st, c, b)
  /\ r.log \in Seq(Units) /\ r.kept \in Seq(Units)
  /\ \A p \in old : p \in DOMAIN r.log /\ r.log[p] = st.log[p]
  /\ \A p \in DOMAIN r.log \ old : Comes(r.log[p], st, c)
  /\ \A p \in DOMAIN r.kept : Comes(r.kept[p], st, c)
  /\ \A p, q \in DOMAIN r.log \ old : p < q => ComesBefore(r.log[p], r.log[q])
  /\ \A p, q \in DOMAIN r.kept : p < q => ComesBefore(r.kept[p], r.kept[q])
  /\ \A p \in DOMAIN r.log \ old, q \in DOMAIN r.kept : ComesBefore(r.log[p], r.kept[q])
  /\ \A u : Stands(st.kept[c.sink], u) => Stands(r.log, u) \/ Stands(r.kept, u)
  /\ \A j \in 1 .. b : Stands(r.log, Unit(st.n + 1, j)) \/ Stands(r.kept, Unit(st.n + 1, j))
  /\ \A u : Stands(st.log, u) => Stands(r.log, u)
  /\ \A i, size \in Nat : InOnePiece(st.log, i, size) => InOnePiece(r.log, i, size)
  /\ IsEvent(st, c) /\ r.ok => InOnePiece(r.log, st.n + 1, c.size)

LEMMA CallIs ==
  ASSUME NEW calls \in Seq(Calls), NEW verbose, NEW k \in Nat, k < Len(calls), NEW st,
         SinkInv(calls, verbose, k, st)
  PROVE  \E b \in Nat : CallMeant(Result(st, calls[k + 1]), st, calls[k + 1], b)
<1> DEFINE c == calls[k + 1]
           s == c.sink
           r == Result(st, c)
           w == Writer(st, c)
           n == st.n + 1
           kept == st.kept[s]
           old == DOMAIN st.log
           d == Len(r.log) - Len(w.log)
           Q(i) == Queued(w, n, 0, i)
           queue(m) == 1 .. Len(w.kept) + m
<1>1. c \in Calls /\ c.sink \in Sinks /\ c.size \in Nat
  <2>1. c \in Calls
    OBVIOUS
  <2> HIDE DEF c
  <2>2. c.sink \in Sinks /\ c.size \in Nat
    BY <2>1, SinkAssumption DEF Calls
  <2> QED BY <2>1, <2>2
<1> HIDE DEF c
<1>2. st \in SinkStates /\ st.n = k /\ QueueRight(calls, k, s, st.log, kept) /\ n \in Nat /\ n = k + 1
  BY <1>1 DEF SinkInv
<1>3. st.log \in Seq(Units) /\ kept \in Seq(Units) /\ Len(kept) <= Capacity
  BY <1>1, <1>2 DEF SinkStates, QueueRight
<1>4. PICK b \in Nat : ResultMeant(r, st, c, b)
  BY <1>1, <1>2, <1>3, ResultIs
<1>5. w \in Writers /\ w.log = st.log /\ w.kept = kept
  <2>1. w = [log |-> st.log, kept |-> kept, room |-> c.room, ok |-> TRUE]
    BY DEF Writer
  <2>2. c.room \in Nat
    BY <1>1, SinkAssumption DEF Calls, Plenty
  <2> HIDE DEF kept
  <2> QED BY <1>3, <2>1, <2>2 DEF Writers
<1>6. Moved(r, w, n, 0, b)
  BY <1>4 DEF ResultMeant
<1> HIDE DEF r, w, n, kept
<1>7. /\ d \in Nat /\ r.log \in Seq(Units) /\ r.kept \in Seq(Units)
      /\ \A p \in DOMAIN w.log : p \in DOMAIN r.log /\ r.log[p] = w.log[p]
      /\ \A p \in DOMAIN r.log : p \in DOMAIN w.log \/ \E i \in queue(b) :
           p = Len(w.log) + i /\ i <= d /\ r.log[p] = Q(i)
      /\ \A p \in DOMAIN r.kept : d + p \in queue(b) /\ r.kept[p] = Q(d + p)
      /\ \A i \in queue(b) : Stands(r.log, Q(i)) \/ Stands(r.kept, Q(i))
  <2>1. Grown(r, w, n, b)
    BY <1>2, <1>5, <1>6, GrowIs
  <2> QED BY <2>1 DEF Grown
<1>8. /\ \A i \in queue(b) : \/ i \in DOMAIN kept /\ Q(i) = kept[i]
                             \/ i - Len(kept) \in 1 .. b /\ Q(i) = Unit(n, i - Len(kept))
      /\ \A i \in DOMAIN kept : i \in queue(b) /\ Q(i) = kept[i]
      /\ \A j \in 1 .. b : Len(kept) + j \in queue(b) /\ Q(Len(kept) + j) = Unit(n, j)
      /\ (\A p \in DOMAIN kept : kept[p].event < n)
           /\ (\A p1, p2 \in DOMAIN kept : p1 < p2 => ComesBefore(kept[p1], kept[p2])) =>
         \A i, j \in queue(b) : i < j => ComesBefore(Q(i), Q(j))
  <2>1. QueueMeant(w, n, b)
    BY <1>2, <1>5, QueueIs
  <2> QED BY <1>5, <2>1 DEF QueueMeant
<1>9. /\ \A p \in DOMAIN kept : kept[p].event < n
      /\ \A p1, p2 \in DOMAIN kept : p1 < p2 => ComesBefore(kept[p1], kept[p2])
  <2>1. \A p \in DOMAIN kept : kept[p].event <= k
    BY <1>2 DEF QueueRight
  <2>2. \A p \in DOMAIN kept : kept[p].event \in Nat
    <3>1. \A p \in DOMAIN kept : kept[p] \in Units
      BY <1>3
    <3> QED BY <3>1 DEF Units
  <2>3. \A p \in DOMAIN kept : kept[p].event < n
    BY <1>2, <2>1, <2>2
  <2> QED BY <1>2, <2>3 DEF QueueRight
<1> HIDE DEF Q
<1>10. ASSUME NEW i \in queue(b) PROVE Comes(Q(i), st, c)
  <2>1. CASE i \in DOMAIN kept /\ Q(i) = kept[i]
    BY <2>1 DEF Comes, Stands, kept
  <2>2. CASE i - Len(kept) \in 1 .. b /\ Q(i) = Unit(n, i - Len(kept))
    <3>1. b > 0 /\ Q(i).event = n
      BY <2>2 DEF Unit
    <3> QED BY <1>4, <3>1 DEF ResultMeant, Comes, n
  <2> QED BY <1>8, <2>1, <2>2
<1>11. \A i, j \in queue(b) : i < j => ComesBefore(Q(i), Q(j))
  BY <1>8, <1>9
<1>12. Len(w.log) \in Nat /\ \A i \in queue(b) : i \in Nat
  BY <1>5 DEF Writers
<1> HIDE DEF queue, d
<1>13. \A p \in DOMAIN r.log \ old : Comes(r.log[p], st, c)
  BY <1>5, <1>7, <1>10
<1>14. \A p \in DOMAIN r.kept : Comes(r.kept[p], st, c)
  BY <1>7, <1>10
<1>15. ASSUME NEW p \in DOMAIN r.log \ old, NEW q \in DOMAIN r.log \ old, p < q
       PROVE  ComesBefore(r.log[p], r.log[q])
  <2>1. PICK i \in queue(b) : p = Len(w.log) + i /\ r.log[p] = Q(i)
    BY <1>5, <1>7
  <2>2. PICK j \in queue(b) : q = Len(w.log) + j /\ r.log[q] = Q(j)
    BY <1>5, <1>7
  <2>3. i < j
    BY <1>12, <1>15, <2>1, <2>2
  <2> QED BY <1>11, <2>1, <2>2, <2>3
<1>16. ASSUME NEW p \in DOMAIN r.kept, NEW q \in DOMAIN r.kept, p < q PROVE ComesBefore(r.kept[p], r.kept[q])
  <2>1. d + p < d + q
    BY <1>7, <1>16
  <2> QED BY <1>7, <1>11, <2>1
<1>17. ASSUME NEW p \in DOMAIN r.log \ old, NEW q \in DOMAIN r.kept PROVE ComesBefore(r.log[p], r.kept[q])
  <2>1. PICK i \in queue(b) : i <= d /\ r.log[p] = Q(i)
    BY <1>5, <1>7
  <2>2. q \in Nat /\ q >= 1
    BY <1>7
  <2>3. i < d + q
    BY <1>7, <1>12, <2>1, <2>2
  <2> QED BY <1>7, <1>11, <2>1, <2>3
<1>18. ASSUME NEW u, Stands(kept, u) PROVE Stands(r.log, u) \/ Stands(r.kept, u)
  <2>1. PICK i \in DOMAIN kept : kept[i] = u
    BY <1>18 DEF Stands
  <2> QED BY <1>7, <1>8, <2>1
<1>19. ASSUME NEW j \in 1 .. b PROVE Stands(r.log, Unit(n, j)) \/ Stands(r.kept, Unit(n, j))
  <2>1. Len(kept) + j \in queue(b) /\ Q(Len(kept) + j) = Unit(n, j)
    BY <1>8
  <2> QED BY <1>7, <2>1
<1>20. /\ \A p \in old : p \in DOMAIN r.log /\ r.log[p] = st.log[p]
       /\ \A u : Stands(st.log, u) => Stands(r.log, u)
       /\ \A i, size \in Nat : InOnePiece(st.log, i, size) => InOnePiece(r.log, i, size)
  <2>1. \A p \in DOMAIN st.log : p \in DOMAIN r.log /\ r.log[p] = st.log[p]
    BY <1>5, <1>7
  <2> QED BY <1>3, <1>7, <2>1, LogsGrow
<1>21. ASSUME IsEvent(st, c), r.ok PROVE InOnePiece(r.log, n, c.size)
  <2>1. b = c.size + 1 /\ Len(r.kept) = 0
    BY <1>4, <1>21 DEF ResultMeant, IsEvent, IsFlush, EventKinds
  <2> QED BY <1>1, <1>2, <1>5, <1>6, <2>1, WrittenWhole
<1>22. CallMeant(r, st, c, b)
  BY <1>4, <1>7, <1>13, <1>14, <1>15, <1>16, <1>17, <1>18, <1>19, <1>20, <1>21 DEF CallMeant, n, kept
<1> QED BY <1>22 DEF r, c

(* Logs and buffers stay in order.                                         *)
LEMMA LogStep ==
  ASSUME NEW calls \in Seq(Calls), NEW verbose, NEW k \in Nat, k < Len(calls), NEW st,
         SinkInv(calls, verbose, k, st), NEW t, StepMeant(t, st, calls[k + 1])
  PROVE  /\ LogRight(calls, k + 1, t.log)
         /\ \A s \in Sinks : QueueRight(calls, k + 1, s, t.log, t.kept[s])
<1> DEFINE c == calls[k + 1]
           n == k + 1
           s == c.sink
           r == Result(st, c)
           log == st.log
           kept == st.kept[s]
           Ev(u) == u.event
<1>1. c \in Calls /\ n \in Nat /\ s \in Sinks /\ st \in SinkStates /\ st.n = k /\ st.n + 1 = n
  <2>1. c \in Calls
    OBVIOUS
  <2> HIDE DEF c
  <2>2. c.sink \in Sinks
    BY <2>1 DEF Calls
  <2> QED BY <2>1, <2>2 DEF SinkInv
<1>2. log \in Seq(Units) /\ \A x \in Sinks : st.kept[x] \in Seq(Units)
  BY <1>1 DEF SinkStates
<1>3. PICK b \in Nat : CallMeant(r, st, c, b)
  BY CallIs
<1>4. t.log = r.log /\ t.kept[s] = r.kept /\ \A x \in Sinks : x # s => t.kept[x] = st.kept[x]
  <2>1. t.log = r.log
    BY DEF StepMeant
  <2>2. \A x \in Sinks : t.kept[x] = IF s = x THEN r.kept ELSE st.kept[x]
    BY <1>1, FieldsStep
  <2> QED BY <1>1, <2>1, <2>2
<1>5. n \in EventsOf(calls, s) <=> IsEvent(st, c)
  BY <1>1, NextCallIs DEF SinkInv
<1>6. \A x \in Sinks : \A i \in EventsOf(calls, x) : i \in Nat /\ calls[i].sink = x
  BY PositionsAre
<1>7. LogRight(calls, k, log) /\ \A x \in Sinks : QueueRight(calls, k, x, log, st.kept[x])
  BY DEF SinkInv
<1>8. \A u \in Units : u.event \in Nat
  BY DEF Units
<1>9. DOMAIN log = 1 .. Len(log) /\ Len(log) \in Nat
  BY <1>2
<1> HIDE DEF c, s, r, log
(* What comes is an event of s, after all of s in the log.                 *)
<1>10. ASSUME NEW u, Comes(u, st, c)
       PROVE  /\ u.event <= n /\ u.event \in EventsOf(calls, s)
              /\ \A p \in DOMAIN log : calls[log[p].event].sink = s => ComesBefore(log[p], u)
  <2>1. CASE Stands(kept, u)
    <3>1. PICK q \in DOMAIN kept : kept[q] = u
      BY <2>1 DEF Stands
    <3>2. u.event <= k /\ u.event \in EventsOf(calls, s)
      BY <1>1, <1>7, <3>1 DEF QueueRight
    <3>3. u.event <= n
      BY <1>1, <1>6, <3>2
    <3> QED BY <1>1, <1>7, <3>1, <3>2, <3>3 DEF QueueRight
  <2>2. CASE IsEvent(st, c) /\ u.event = n
    <3>1. \A p \in DOMAIN log : log[p].event <= k /\ log[p].event \in Nat
      BY <1>2, <1>7, <1>8 DEF LogRight
    <3>2. \A p \in DOMAIN log : log[p].event < u.event
      BY <1>1, <2>2, <3>1
    <3> QED BY <1>1, <1>5, <2>2, <3>2 DEF ComesBefore
  <2> QED BY <1>1, <1>10, <2>1, <2>2 DEF Comes, s
<1>11. /\ r.log \in Seq(Units) /\ r.kept \in Seq(Units) /\ Len(r.kept) <= Capacity
       /\ \A p \in DOMAIN log : p \in DOMAIN r.log /\ r.log[p] = log[p]
       /\ \A p \in DOMAIN r.log \ DOMAIN log : Comes(r.log[p], st, c)
       /\ \A p \in DOMAIN r.kept : Comes(r.kept[p], st, c)
       /\ \A p, q \in DOMAIN r.log \ DOMAIN log : p < q => ComesBefore(r.log[p], r.log[q])
       /\ \A p, q \in DOMAIN r.kept : p < q => ComesBefore(r.kept[p], r.kept[q])
       /\ \A p \in DOMAIN r.log \ DOMAIN log, q \in DOMAIN r.kept : ComesBefore(r.log[p], r.kept[q])
  BY <1>3, Zenon DEF CallMeant, ResultMeant, log
<1>12. \A p \in DOMAIN log : log[p].event <= k /\ log[p].event \in Nat /\ \E x \in Sinks : log[p].event \in EventsOf(calls, x)
  BY <1>2, <1>7, <1>8 DEF LogRight
<1>13. LogRight(calls, n, r.log)
  <2>1. ASSUME NEW p \in DOMAIN r.log
        PROVE  r.log[p].event <= n /\ \E x \in Sinks : r.log[p].event \in EventsOf(calls, x)
    <3>1. CASE p \in DOMAIN log
      <4>1. r.log[p] = log[p]
        BY <1>11, <3>1
      <4>2. log[p].event <= n
        BY <1>12, <3>1
      <4> QED BY <1>12, <3>1, <4>1, <4>2
    <3>2. CASE p \notin DOMAIN log
      BY <1>1, <1>10, <1>11, <3>2
    <3> QED BY <3>1, <3>2
  <2>2. ASSUME NEW p \in DOMAIN r.log, NEW q \in DOMAIN r.log, p < q,
               calls[r.log[p].event].sink = calls[r.log[q].event].sink
        PROVE  ComesBefore(r.log[p], r.log[q])
    <3>1. p \in Nat /\ q \in Nat /\ p >= 1
      BY <1>11
    <3>2. CASE q \in DOMAIN log
      <4>1. p \in DOMAIN log
        BY <1>9, <2>2, <3>1, <3>2
      <4> QED BY <1>7, <1>11, <2>2, <3>2, <4>1 DEF LogRight
    <3>3. CASE q \notin DOMAIN log /\ p \in DOMAIN log
      <4>1. Comes(r.log[q], st, c) /\ r.log[p] = log[p]
        BY <1>11, <3>3
      <4>2. calls[r.log[q].event].sink = s
        BY <1>1, <1>6, <1>10, <4>1
      <4> QED BY <1>10, <2>2, <3>3, <4>1, <4>2
    <3>4. CASE q \notin DOMAIN log /\ p \notin DOMAIN log
      BY <1>11, <2>2, <3>4
    <3> QED BY <3>2, <3>3, <3>4
  <2> QED BY <2>1, <2>2 DEF LogRight
<1>14. QueueRight(calls, n, s, r.log, r.kept)
  <2>1. ASSUME NEW p \in DOMAIN r.log, NEW q \in DOMAIN r.kept, calls[r.log[p].event].sink = s
        PROVE  ComesBefore(r.log[p], r.kept[q])
    <3>1. CASE p \in DOMAIN log
      BY <1>10, <1>11, <2>1, <3>1
    <3>2. CASE p \notin DOMAIN log
      BY <1>11, <3>2
    <3> QED BY <3>1, <3>2
  <2>2. \A p \in DOMAIN r.kept : r.kept[p].event <= n /\ r.kept[p].event \in EventsOf(calls, s)
    BY <1>10, <1>11
  <2> QED BY <1>11, <2>1, <2>2 DEF QueueRight
<1>15. ASSUME NEW x \in Sinks, x # s PROVE QueueRight(calls, n, x, r.log, st.kept[x])
  <2> DEFINE own == st.kept[x]
  <2>1. /\ Len(own) <= Capacity
        /\ \A p \in DOMAIN own : own[p].event <= k /\ own[p].event \in EventsOf(calls, x)
        /\ \A p, q \in DOMAIN own : p < q => ComesBefore(own[p], own[q])
        /\ \A p \in DOMAIN log, q \in DOMAIN own : calls[log[p].event].sink = x => ComesBefore(log[p], own[q])
    BY <1>7 DEF QueueRight
  <2> HIDE DEF own
  <2>2. \A p \in DOMAIN own : own[p].event <= n
    BY <1>6, <2>1
  <2>3. ASSUME NEW p \in DOMAIN r.log, NEW q \in DOMAIN own, calls[r.log[p].event].sink = x
        PROVE  ComesBefore(r.log[p], own[q])
    <3>1. CASE p \in DOMAIN log
      BY <1>11, <2>1, <2>3, <3>1
    <3>2. CASE p \notin DOMAIN log
      <4>1. calls[r.log[p].event].sink = s
        BY <1>1, <1>6, <1>10, <1>11, <3>2
      <4> QED BY <1>15, <2>3, <4>1
    <3> QED BY <3>1, <3>2
  <2> QED BY <2>1, <2>2, <2>3 DEF QueueRight, own
<1> QED BY <1>4, <1>13, <1>14, <1>15

(* What the log has of each event.                                         *)
LEMMA EventsStep ==
  ASSUME NEW calls \in Seq(Calls), NEW verbose, NEW k \in Nat, k < Len(calls), NEW st,
         SinkInv(calls, verbose, k, st), NEW t, StepMeant(t, st, calls[k + 1]), NEW s \in Sinks
  PROVE  EventsRight(calls, k + 1, s, t.log, t.kept[s])
<1> DEFINE c == calls[k + 1]
           n == k + 1
           mine == c.sink = s
           r == Result(st, c)
           log == st.log
           kept == st.kept[s]
           U(i, j) == Unit(i, j)
           first(i) == FirstToFail(calls, s, i)
           size(i) == calls[i].size
           plenty(i) == calls[i].room = Plenty
<1>1. c \in Calls /\ n \in Nat /\ st \in SinkStates /\ st.n = k /\ st.n + 1 = n
  BY DEF SinkInv
<1>2. PICK b \in Nat : CallMeant(r, st, c, b)
  BY CallIs
<1>3. t.log = r.log
  BY DEF StepMeant
<1>4. t.kept[s] = IF mine THEN r.kept ELSE kept
  BY <1>1, FieldsStep
<1>5. /\ n \in Of(calls, s) <=> mine /\ ~st.gone[s]
      /\ n \in EventsOf(calls, s) <=> mine /\ IsEvent(st, c)
      /\ n \in Flushes(calls, s) <=> mine /\ IsFlush(st, c)
  BY <1>1, NextCallIs DEF SinkInv
<1>6. /\ \A i \in Of(calls, s) : i \in Nat /\ i \in DOMAIN calls
      /\ EventsOf(calls, s) \subseteq Of(calls, s) /\ Flushes(calls, s) \subseteq Of(calls, s)
      /\ \A i \in DOMAIN calls : size(i) \in Nat
  BY PositionsAre
<1>7. EventsRight(calls, k, s, log, kept) /\ (mine => kept = st.kept[c.sink])
  BY DEF SinkInv
<1>8. (IsEvent(st, c) => IsFlush(st, c)) /\ (IsFlush(st, c) => ~st.gone[c.sink])
  BY DEF IsEvent, IsFlush, EventKinds
<1>9. kept \in Seq(Units)
  BY <1>1 DEF SinkStates
<1>10. /\ \A u : Stands(log, u) => Stands(r.log, u)
       /\ \A i, m \in Nat : InOnePiece(log, i, m) => InOnePiece(r.log, i, m)
       /\ IsEvent(st, c) /\ r.ok => InOnePiece(r.log, n, c.size)
  BY <1>1, <1>2 DEF CallMeant
<1>11. r.kept \in Seq(Units) /\ \A u : mine /\ Stands(kept, u) => Stands(r.log, u) \/ Stands(r.kept, u)
  BY <1>2, <1>7 DEF CallMeant
<1>12. \A j \in 1 .. b : Stands(r.log, U(n, j)) \/ Stands(r.kept, U(n, j))
  BY <1>1, <1>2 DEF CallMeant
<1>13. /\ mine /\ IsEvent(st, c) /\ Len(kept) = 0 /\ c.size < Capacity => b = c.size + 1
       /\ mine /\ IsFlush(st, c) /\ plenty(n) => r.ok /\ Len(r.kept) = 0
       /\ mine /\ ~IsFlush(st, c) => r.kept = kept
  BY <1>2, <1>7 DEF CallMeant, ResultMeant
<1>14. ASSUME NEW i \in Of(calls, s) PROVE i <= n <=> i <= k \/ i = n
  BY <1>6
<1> HIDE DEF r, log, kept, n, U
<1>15. ASSUME NEW i \in EventsOf(calls, s), i <= n, plenty(i) PROVE InOnePiece(r.log, i, size(i))
  <2>1. CASE i <= k
    BY <1>6, <1>7, <1>10, <1>15, <2>1 DEF EventsRight
  <2>2. CASE i = n
    BY <1>5, <1>8, <1>10, <1>13, <1>15, <2>2 DEF n
  <2> QED BY <1>6, <1>14, <1>15, <2>1, <2>2
<1>16. \A u : Stands(kept, u) => Stands(r.log, u) \/ Stands(t.kept[s], u)
  BY <1>4, <1>11
<1>17. ASSUME NEW i \in EventsOf(calls, s), i <= n, first(i), NEW j \in 1 .. size(i) + 1
       PROVE  Stands(r.log, U(i, j)) \/ Stands(t.kept[s], U(i, j))
  <2>1. CASE i <= k
    <3>1. Stands(log, U(i, j)) \/ Stands(kept, U(i, j))
      BY <1>7, <1>17, <2>1 DEF EventsRight, U
    <3> QED BY <1>10, <1>16, <3>1
  <2>2. CASE i = n
    <3>1. mine /\ IsEvent(st, c) /\ c.size < Capacity
      BY <1>5, <1>17, <2>2 DEF FirstToFail, n
    <3>2. \A m \in Of(calls, s) : m <= k => plenty(m)
      <4>1. \A m \in Of(calls, s) : m <= k => m < n
        BY <1>6 DEF n
      <4> QED BY <1>17, <2>2, <4>1 DEF FirstToFail
    <3>3. Len(kept) = 0
      BY <1>7, <3>2 DEF EventsRight
    <3>4. b = size(i) + 1
      BY <1>13, <2>2, <3>1, <3>3 DEF n
    <3> QED BY <1>4, <1>12, <1>17, <2>2, <3>1, <3>4
  <2> QED BY <1>6, <1>14, <1>17, <2>1, <2>2
<1>18. ASSUME mine, IsFlush(st, c), plenty(n) PROVE ~ \E u : Stands(t.kept[s], u)
  <2>1. Len(t.kept[s]) = 0 /\ t.kept[s] \in Seq(Units)
    BY <1>4, <1>11, <1>13, <1>18
  <2> QED BY <2>1 DEF Stands
<1>19. ASSUME NEW i \in EventsOf(calls, s), i <= n, first(i), NEW f \in Flushes(calls, s), i <= f, f <= n, plenty(f),
              NEW j \in 1 .. size(i) + 1
       PROVE  Stands(r.log, U(i, j))
  <2>1. CASE f <= k
    <3>1. i <= k
      BY <1>6, <1>19, <2>1
    <3>2. Stands(log, U(i, j))
      BY <1>7, <1>19, <2>1, <3>1 DEF EventsRight, U
    <3> QED BY <1>10, <3>2
  <2>2. CASE f = n
    <3>1. mine /\ IsFlush(st, c)
      BY <1>5, <1>19, <2>2
    <3> QED BY <1>17, <1>18, <1>19, <2>2, <3>1
  <2> QED BY <1>6, <1>14, <1>19, <2>1, <2>2
<1>20. ASSUME \A j \in Of(calls, s) : j <= n => plenty(j) PROVE t.kept[s] = <<>>
  <2>1. kept = <<>>
    <3>1. \A j \in Of(calls, s) : j <= k => plenty(j)
      BY <1>14, <1>20
    <3> QED BY <1>7, <3>1 DEF EventsRight
  <2>2. CASE mine /\ IsFlush(st, c)
    <3>1. n \in Of(calls, s) /\ n <= n
      BY <1>1, <1>5, <1>8, <2>2
    <3>2. Len(r.kept) = 0
      BY <1>13, <1>20, <2>2, <3>1
    <3> QED BY <1>4, <1>11, <2>2, <3>2
  <2>3. CASE ~(mine /\ IsFlush(st, c))
    BY <1>4, <1>13, <2>1, <2>3
  <2> QED BY <2>2, <2>3
<1> HIDE DEF mine, c
<1>21. EventsRight(calls, n, s, r.log, t.kept[s])
  BY <1>15, <1>17, <1>19, <1>20 DEF EventsRight, U
<1> QED BY <1>3, <1>21 DEF n

(* The terminal shows nothing that is not in the file, and until the sink  *)
(* is finished everything that is meant for it and does not fail.          *)
LEMMA ShownStep ==
  ASSUME NEW calls \in Seq(Calls), NEW verbose \in BOOLEAN, NEW k \in Nat, k < Len(calls), NEW st,
         SinkInv(calls, verbose, k, st), NEW t, StepMeant(t, st, calls[k + 1]), NEW s \in Sinks
  PROVE  ShownRight(calls, k + 1, s, verbose, t.log, t.shown[s])
<1> DEFINE c == calls[k + 1]
           n == k + 1
           mine == c.sink = s
           r == Result(st, c)
           shown == st.shown[s]
           seen == mine /\ IsRendered(st, c) /\ Shows(st, c)
           plain(i) == calls[i].room = Plenty /\ calls[i].term /\ Visible(calls[i].kind, verbose)
           right(i, m, log) == /\ i \in EventsOf(calls, s) /\ i <= m
                               /\ InOnePiece(log, i, calls[i].size) /\ Visible(calls[i].kind, verbose)
<1>1. c \in Calls /\ n \in Nat /\ st \in SinkStates /\ st.n = k /\ st.n + 1 = n /\ st.verbose = verbose
  BY DEF SinkInv
<1>2. shown \in Seq(Nat) /\ FlagsRight(calls, k, s, st.gone[s], st.finished[s])
  BY <1>1 DEF SinkInv, SinkStates
<1>3. t.shown[s] = IF seen THEN Append(shown, n) ELSE shown
  BY <1>1, FieldsStep
<1>4. /\ n \in EventsOf(calls, s) <=> mine /\ IsEvent(st, c)
      /\ n \in BeforeEnd(calls, s) <=> mine /\ IsEvent(st, c) /\ ~st.finished[s]
  BY <1>1, <1>2, NextCallIs
<1>5. /\ Increasing(shown)
      /\ \A i \in ElemsOf(shown) : right(i, k, st.log)
      /\ \A i \in BeforeEnd(calls, s) : i <= k /\ plain(i) => i \in ElemsOf(shown)
  BY DEF SinkInv, ShownRight
<1>6. PICK b \in Nat : CallMeant(r, st, c, b)
  BY CallIs
<1>7. t.log = r.log
  BY DEF StepMeant
<1>8. \A i \in EventsOf(calls, s) : i \in Nat /\ calls[i].size \in Nat
  BY PositionsAre
<1>9. \A i \in BeforeEnd(calls, s) : i <= n => i <= k \/ i = n
  BY PositionsAre
<1>10. \A i : right(i, k, st.log) => right(i, n, t.log) /\ i < n
  <2>1. \A i, m \in Nat : InOnePiece(st.log, i, m) => InOnePiece(r.log, i, m)
    BY <1>6 DEF CallMeant
  <2> HIDE DEF r
  <2> QED BY <1>7, <1>8, <2>1
<1>11. CASE seen
  <2>1. right(n, n, t.log)
    <3>1. IsEvent(st, c) /\ r.ok /\ Visible(c.kind, verbose)
      BY <1>1, <1>11 DEF IsRendered, Shows
    <3>2. InOnePiece(r.log, n, c.size)
      BY <1>1, <1>6, <3>1 DEF CallMeant
    <3> QED BY <1>4, <1>7, <1>11, <3>1, <3>2
  <2>2. \A x \in ElemsOf(shown) : x < n
    BY <1>5, <1>10
  <2>3. ElemsOf(Append(shown, n)) = ElemsOf(shown) \cup {n} /\ Increasing(Append(shown, n))
    BY <1>1, <1>2, <1>5, <2>2, AppendElems
  <2> HIDE DEF c, n, mine, shown, seen, plain, right
  <2>4. \A i \in ElemsOf(t.shown[s]) : right(i, n, t.log)
    BY <1>3, <1>5, <1>10, <1>11, <2>1, <2>3
  <2>5. \A i \in BeforeEnd(calls, s) : i <= n /\ plain(i) => i \in ElemsOf(t.shown[s])
    BY <1>3, <1>5, <1>9, <1>11, <2>3
  <2> QED BY <1>3, <1>11, <2>3, <2>4, <2>5 DEF ShownRight, plain, right, n
<1>12. CASE ~seen
  <2>1. n \in BeforeEnd(calls, s) => ~plain(n)
    <3>1. SUFFICES ASSUME mine, IsEvent(st, c), ~st.finished[s], c.room = Plenty, c.term, Visible(c.kind, verbose)
                   PROVE  seen
      BY <1>4, <1>12
    <3>2. st.renderer[s] \in BOOLEAN /\ (~st.renderer[s] => st.finished[s])
      BY <1>1 DEF SinkInv, EndRight, SinkStates
    <3>3. r.ok
      BY <1>6, <3>1 DEF CallMeant, ResultMeant, IsEvent, IsFlush, EventKinds
    <3> QED BY <1>1, <3>1, <3>2, <3>3 DEF IsRendered, Shows
  <2>2. t.shown[s] = shown
    BY <1>3, <1>12
  <2> HIDE DEF n, mine, shown, seen, plain, right
  <2>3. \A i \in BeforeEnd(calls, s) : i <= n /\ plain(i) => i \in ElemsOf(shown)
    BY <1>5, <1>9, <2>1
  <2>4. \A i \in ElemsOf(shown) : right(i, n, t.log)
    BY <1>5, <1>10
  <2> QED BY <1>5, <2>2, <2>3, <2>4 DEF ShownRight, plain, right, n
<1> QED BY <1>11, <1>12

(* The closing line counts tool calls before it that are in the log.       *)
LEMMA EndStep ==
  ASSUME NEW calls \in Seq(Calls), NEW verbose, NEW k \in Nat, k < Len(calls), NEW st,
         SinkInv(calls, verbose, k, st), NEW t, StepMeant(t, st, calls[k + 1]), NEW s \in Sinks
  PROVE  EndRight(calls, k + 1, s, t.log, t.finished[s], t.renderer[s], t.tools[s], t.closing[s])
<1> DEFINE c == calls[k + 1]
           n == k + 1
           mine == c.sink = s
           r == Result(st, c)
           ends == mine /\ IsFinish(st, c)
           counts == mine /\ IsRendered(st, c) /\ c.kind = "tool"
           tools == st.tools[s]
           closing == st.closing[s]
           renderer == st.renderer[s]
           finished == st.finished[s]
           told(f) == calls[f].room = Plenty /\ calls[f].term
<1>1. c \in Calls /\ n \in Nat /\ st \in SinkStates /\ st.n = k /\ st.n + 1 = n
  BY DEF SinkInv
<1>2. /\ FlagsRight(calls, k, s, st.gone[s], finished)
      /\ finished \in BOOLEAN /\ renderer \in BOOLEAN /\ tools \in Nat /\ closing \in Seq(Nat)
  BY <1>1 DEF SinkInv, SinkStates
<1>3. /\ t.finished[s] <=> finished \/ ends
      /\ t.renderer[s] <=> renderer /\ ~(ends /\ r.ok)
      /\ t.tools[s] = IF counts THEN tools + 1 ELSE tools
      /\ t.closing[s] = IF ends /\ r.ok /\ c.term THEN Append(closing, tools) ELSE closing
  BY <1>1, FieldsStep
<1>4. /\ n \in FinishOf(calls, s) <=> ends
      /\ n \in BeforeEnd(calls, s) <=> mine /\ IsEvent(st, c) /\ ~finished
  BY <1>1, <1>2, NextCallIs
<1>5. EndRight(calls, k, s, st.log, finished, renderer, tools, closing)
  BY DEF SinkInv
<1>6. PICK b \in Nat : CallMeant(r, st, c, b)
  BY CallIs
<1>7. t.log = r.log
  BY DEF StepMeant
<1>8. IsFlush(st, c) /\ c.room = Plenty => r.ok
  BY <1>6 DEF CallMeant, ResultMeant
<1>9. IsEvent(st, c) /\ r.ok => InOnePiece(t.log, n, c.size)
  BY <1>1, <1>6, <1>7 DEF CallMeant
<1>10. (IsEvent(st, c) => IsFlush(st, c)) /\ (IsFinish(st, c) => IsFlush(st, c) /\ ~IsEvent(st, c))
  BY DEF IsEvent, IsFlush, IsFinish, EventKinds
<1>11. counts => mine /\ IsEvent(st, c) /\ r.ok /\ c.kind = "tool" /\ renderer
  BY DEF IsRendered
<1>12. mine /\ IsEvent(st, c) /\ r.ok /\ c.kind = "tool" /\ renderer => counts
  BY DEF IsRendered
<1> DEFINE whole == WholeTools(calls, s, k, st.log)
           sure == SureTools(calls, s, k)
           whole2 == WholeTools(calls, s, n, t.log)
           sure2 == SureTools(calls, s, n)
<1>13. whole \subseteq whole2 /\ IsFiniteSet(whole) /\ n \notin whole
  <2>1. \A i, m \in Nat : InOnePiece(st.log, i, m) => InOnePiece(t.log, i, m)
    BY <1>6, <1>7 DEF CallMeant
  <2>2. \A i \in Tools(calls, s, k) : i \in 1 .. k /\ i \in Nat /\ calls[i].size \in Nat /\ i \in Tools(calls, s, n)
    BY PositionsAre DEF Tools
  <2>3. IsFiniteSet(1 .. k) /\ n \notin 1 .. k
    BY FS_Interval
  <2>4. whole \subseteq 1 .. k
    BY <2>2 DEF WholeTools
  <2> HIDE DEF n
  <2>5. IsFiniteSet(whole)
    BY <2>3, <2>4, FS_Subset
  <2>6. whole \subseteq whole2
    BY <2>1, <2>2 DEF WholeTools
  <2> QED BY <2>3, <2>4, <2>5, <2>6
<1>14. ASSUME NEW i \in sure2 PROVE i \in sure \/ (i = n /\ n \in BeforeEnd(calls, s) /\ c.kind = "tool" /\ c.room = Plenty)
  BY PositionsAre DEF SureTools, Tools
<1>15. n \in BeforeEnd(calls, s) /\ c.kind = "tool" /\ InOnePiece(t.log, n, c.size) => n \in whole2
  BY <1>1 DEF WholeTools, Tools
<1>16. (\E f \in FinishOf(calls, s) : f <= n /\ told(f)) =>
         (ends /\ c.room = Plenty /\ c.term) \/ \E f \in FinishOf(calls, s) : f <= k /\ told(f)
  <2>1. \A f \in FinishOf(calls, s) : f <= n <=> f <= k \/ f = n
    BY PositionsAre
  <2> QED BY <1>4, <2>1
<1>17. /\ ~renderer => finished
       /\ ~finished \/ ~renderer => \E counted \in SUBSET whole : sure \subseteq counted /\ tools = Cardinality(counted)
       /\ closing # <<>> => ~renderer /\ closing = <<tools>>
       /\ (\E f \in FinishOf(calls, s) : f <= k /\ told(f)) => closing # <<>>
  BY <1>5 DEF EndRight
<1>18. closing = <<>> => Append(closing, tools) = <<tools>>
  BY <1>2
<1>19. <<tools>> # <<>>
  OBVIOUS
<1>20. t.finished[s] \in BOOLEAN /\ t.renderer[s] \in BOOLEAN /\ r.ok \in BOOLEAN
  <2>1. t.finished[s] \in BOOLEAN /\ t.renderer[s] \in BOOLEAN
    BY DEF StepMeant, SinkStates
  <2>2. r \in Writers
    BY <1>6 DEF CallMeant, ResultMeant, Moved
  <2> QED BY <2>1, <2>2 DEF Writers
<1> HIDE DEF counts, ends, mine, tools, closing, renderer, finished, whole, sure, whole2, sure2, n, c, r, told
<1>21. ASSUME ~finished \/ ~renderer
       PROVE  \E counted \in SUBSET whole2 : sure2 \subseteq counted /\ t.tools[s] = Cardinality(counted)
  <2>1. PICK C \in SUBSET whole : sure \subseteq C /\ tools = Cardinality(C)
    BY <1>17, <1>21
  <2>2. IsFiniteSet(C) /\ n \notin C
    BY <1>13, FS_Subset
  <2>3. CASE counts
    <3>1. n \in whole2
      BY <1>4, <1>9, <1>11, <1>15, <1>21, <2>3
    <3>2. C \cup {n} \in SUBSET whole2 /\ sure2 \subseteq C \cup {n}
      BY <1>13, <1>14, <2>1, <3>1
    <3>3. Cardinality(C \cup {n}) = Cardinality(C) + 1
      BY <2>2, FS_AddElement
    <3>4. t.tools[s] = Cardinality(C \cup {n})
      BY <1>3, <2>1, <2>3, <3>3
    <3> QED BY <3>2, <3>4
  <2>4. CASE ~counts
    <3>1. n \in BeforeEnd(calls, s) /\ c.kind = "tool" => ~(c.room = Plenty)
      <4>1. SUFFICES ASSUME n \in BeforeEnd(calls, s), c.kind = "tool", c.room = Plenty PROVE counts
        BY <2>4
      <4>2. mine /\ IsEvent(st, c) /\ ~finished /\ renderer
        BY <1>2, <1>4, <1>17, <4>1
      <4> QED BY <1>8, <1>10, <1>12, <4>1, <4>2
    <3>2. sure2 \subseteq C
      BY <1>14, <2>1, <3>1
    <3>3. t.tools[s] = Cardinality(C) /\ C \in SUBSET whole2
      BY <1>3, <1>13, <2>1, <2>4
    <3> QED BY <3>2, <3>3
  <2> QED BY <2>3, <2>4
<1>22. ends => ~finished
  BY DEF ends, IsFinish, finished, mine, c
<1>23. ends => ~counts
  BY <1>10, <1>11 DEF ends
<1>24. ~t.renderer[s] => t.finished[s]
  BY <1>2, <1>3, <1>17, <1>20
<1>25. ~t.finished[s] \/ ~t.renderer[s] => ~finished \/ ~renderer
  BY <1>2, <1>3, <1>20, <1>22
<1>26. t.closing[s] # <<>> => ~t.renderer[s] /\ t.closing[s] = <<t.tools[s]>>
  <2>1. CASE ends /\ r.ok /\ c.term
    <3>1. closing = <<>> /\ ~t.renderer[s] /\ t.tools[s] = tools
      BY <1>2, <1>3, <1>17, <1>20, <1>22, <1>23, <2>1
    <3> QED BY <1>3, <1>18, <2>1, <3>1
  <2>2. CASE ~(ends /\ r.ok /\ c.term)
    <3>1. t.closing[s] = closing
      BY <1>3, <2>2
    <3>2. ~renderer => ~t.renderer[s] /\ ~counts
      BY <1>2, <1>3, <1>11, <1>20
    <3> QED BY <1>3, <1>17, <3>1, <3>2
  <2> QED BY <2>1, <2>2
<1>27. (\E f \in FinishOf(calls, s) : f <= n /\ told(f)) => t.closing[s] # <<>>
  <2>1. CASE ends /\ r.ok /\ c.term
    <3>1. closing = <<>>
      BY <1>2, <1>17, <1>22, <2>1
    <3> QED BY <1>3, <1>18, <1>19, <2>1, <3>1
  <2>2. CASE ~(ends /\ r.ok /\ c.term)
    <3>1. ~(ends /\ c.room = Plenty /\ c.term)
      BY <1>8, <1>10, <2>2 DEF ends
    <3> QED BY <1>3, <1>16, <1>17, <2>2, <3>1
  <2> QED BY <2>1, <2>2
<1> QED BY <1>21, <1>24, <1>25, <1>26, <1>27 DEF EndRight, n, whole2, sure2, told

(* A call keeps the state of the sinks in step with the calls so far.      *)
LEMMA SinkInvStep ==
  ASSUME NEW calls \in Seq(Calls), NEW verbose \in BOOLEAN, NEW k \in Nat, k < Len(calls), NEW st,
         SinkInv(calls, verbose, k, st)
  PROVE  SinkInv(calls, verbose, k + 1, SinkStep(st, calls[k + 1]))
<1> DEFINE c == calls[k + 1]
           t == SinkStep(st, c)
<1>1. c \in Calls /\ st \in SinkStates /\ st.n = k /\ st.verbose = verbose
  BY DEF SinkInv
<1>2. StepMeant(t, st, c)
  <2> HIDE DEF c
  <2>1. c.sink \in Sinks
    BY <1>1 DEF Calls
  <2>2. Len(st.kept[c.sink]) <= Capacity
    BY <2>1 DEF SinkInv, QueueRight
  <2> QED BY <1>1, <2>2, StepIs
<1> HIDE DEF t
<1>3. t \in SinkStates /\ t.n = k + 1 /\ t.verbose = verbose
  BY <1>1, <1>2 DEF StepMeant
<1>4. LogRight(calls, k + 1, t.log) /\ \A s \in Sinks : QueueRight(calls, k + 1, s, t.log, t.kept[s])
  BY <1>2, LogStep
<1>5. ASSUME NEW s \in Sinks
      PROVE  /\ FlagsRight(calls, k + 1, s, t.gone[s], t.finished[s])
             /\ EventsRight(calls, k + 1, s, t.log, t.kept[s])
             /\ ShownRight(calls, k + 1, s, verbose, t.log, t.shown[s])
             /\ EndRight(calls, k + 1, s, t.log, t.finished[s], t.renderer[s], t.tools[s], t.closing[s])
  <2>1. FlagsRight(calls, k, s, st.gone[s], st.finished[s])
    BY DEF SinkInv
  <2>2. FlagsRight(calls, k + 1, s, t.gone[s], t.finished[s])
    BY <1>1, <1>2, <2>1, FlagsStep
  <2>3. EventsRight(calls, k + 1, s, t.log, t.kept[s])
    BY <1>2, EventsStep
  <2>4. ShownRight(calls, k + 1, s, verbose, t.log, t.shown[s])
    BY <1>2, ShownStep
  <2>5. EndRight(calls, k + 1, s, t.log, t.finished[s], t.renderer[s], t.tools[s], t.closing[s])
    BY <1>2, EndStep
  <2> QED BY <2>2, <2>3, <2>4, <2>5
<1> QED BY <1>3, <1>4, <1>5 DEF SinkInv, t

(* Sinks just opened have nothing to tell.                                 *)
LEMMA SinkInvOpen ==
  ASSUME NEW calls \in Seq(Calls), NEW verbose \in BOOLEAN
  PROVE  SinkInv(calls, verbose, 0, OpenSinks(verbose))
<1> DEFINE st == OpenSinks(verbose)
<1>1. st \in SinkStates /\ st.n = 0 /\ st.verbose = verbose /\ st.log = <<>>
  BY DEF OpenSinks, SinkStates
<1>2. \A s \in Sinks : /\ st.kept[s] = <<>> /\ st.shown[s] = <<>> /\ st.tools[s] = 0 /\ st.closing[s] = <<>>
                       /\ st.renderer[s] = TRUE /\ st.finished[s] = FALSE /\ st.gone[s] = FALSE
  BY DEF OpenSinks
<1> HIDE DEF st
<1>3. ElemsOf(<<>>) = {} /\ Increasing(<<>>) /\ DOMAIN <<>> = {} /\ Len(<<>>) <= Capacity
  BY SinkAssumption DEF ElemsOf, Increasing
<1>4. \A s \in Sinks : \A i \in Of(calls, s) : ~(i <= 0)
  BY PositionsAre
<1>5. \A s \in Sinks : /\ EventsOf(calls, s) \subseteq Of(calls, s)
                       /\ FinishOf(calls, s) \subseteq Of(calls, s)
                       /\ BeforeEnd(calls, s) \subseteq Of(calls, s)
  BY PositionsAre
<1>6. LogRight(calls, 0, st.log)
  BY <1>1, <1>3 DEF LogRight
<1>7. ASSUME NEW s \in Sinks
      PROVE  /\ FlagsRight(calls, 0, s, st.gone[s], st.finished[s])
             /\ QueueRight(calls, 0, s, st.log, st.kept[s])
             /\ EventsRight(calls, 0, s, st.log, st.kept[s])
             /\ ShownRight(calls, 0, s, verbose, st.log, st.shown[s])
             /\ EndRight(calls, 0, s, st.log, st.finished[s], st.renderer[s], st.tools[s], st.closing[s])
  <2>1. FlagsRight(calls, 0, s, st.gone[s], st.finished[s])
    <3>1. 1 .. 0 = {}
      OBVIOUS
    <3> QED BY <1>2, <1>4, <3>1 DEF FlagsRight
  <2>2. QueueRight(calls, 0, s, st.log, st.kept[s])
    BY <1>1, <1>2, <1>3 DEF QueueRight
  <2>3. EventsRight(calls, 0, s, st.log, st.kept[s])
    BY <1>2, <1>4, <1>5 DEF EventsRight
  <2>4. ShownRight(calls, 0, s, verbose, st.log, st.shown[s])
    BY <1>2, <1>3, <1>4, <1>5 DEF ShownRight
  <2>5. EndRight(calls, 0, s, st.log, st.finished[s], st.renderer[s], st.tools[s], st.closing[s])
    <3>1. Tools(calls, s, 0) = {}
      BY <1>4, <1>5 DEF Tools
    <3>2. SureTools(calls, s, 0) = {}
      BY <3>1 DEF SureTools
    <3>3. Cardinality({}) = 0
      BY FS_EmptySet
    <3>4. \E counted \in SUBSET WholeTools(calls, s, 0, st.log) :
            SureTools(calls, s, 0) \subseteq counted /\ st.tools[s] = Cardinality(counted)
      BY <1>2, <3>2, <3>3
    <3> QED BY <1>2, <1>4, <1>5, <3>4 DEF EndRight
  <2> QED BY <2>1, <2>2, <2>3, <2>4, <2>5
<1> QED BY <1>1, <1>6, <1>7 DEF SinkInv, st

(* RunSinks is defined with a function of the number of calls.             *)
RunsTo(f, calls, verbose, n) ==
  f = [k \in 0 .. n |-> IF k = 0 THEN OpenSinks(verbose) ELSE SinkStep(f[k - 1], calls[k])]

(* There is such a function.                                               *)
LEMMA RunsExist ==
  ASSUME NEW calls, NEW verbose, NEW n \in Nat
  PROVE  \E f : RunsTo(f, calls, verbose, n)
<1> DEFINE T == {k \in Nat : ~ \E f : RunsTo(f, calls, verbose, k)}
<1>1. SUFFICES ASSUME T # {} PROVE FALSE
  OBVIOUS
<1>2. PICK m \in T : \A j \in T : ~(j < m)
  <2>1. T \subseteq Nat
    OBVIOUS
  <2> HIDE DEF T
  <2> QED BY <1>1, <2>1, LeastNatural
<1>3. ~ (\E f : RunsTo(f, calls, verbose, m)) /\ m \in Nat
  BY <1>2
<1>4. CASE m = 0
  <2> DEFINE g == [k \in 0 .. 0 |-> OpenSinks(verbose)]
  <2>1. g = [k \in 0 .. 0 |-> IF k = 0 THEN OpenSinks(verbose) ELSE SinkStep(g[k - 1], calls[k])]
    OBVIOUS
  <2> HIDE DEF g
  <2>2. RunsTo(g, calls, verbose, 0)
    BY <2>1, Zenon DEF RunsTo
  <2> QED BY <1>3, <1>4, <2>2
<1>5. CASE m # 0
  <2>1. m - 1 \in Nat /\ m - 1 < m /\ m - 1 \notin T
    BY <1>2, <1>3, <1>5
  <2>2. PICK f : RunsTo(f, calls, verbose, m - 1)
    BY <2>1
  <2> DEFINE next(h, k) == IF k = 0 THEN OpenSinks(verbose) ELSE SinkStep(h[k - 1], calls[k])
             g == [k \in 0 .. m |-> IF k < m THEN f[k] ELSE next(f, k)]
  <2>3. \A k \in 0 .. m : g[k] = next(g, k)
    <3>1. TAKE k \in 0 .. m
    <3>2. k # 0 => k - 1 \in 0 .. m /\ k - 1 < m
      BY <2>1
    <3>3. next(f, k) = next(g, k)
      <4>1. k # 0 => g[k - 1] = f[k - 1]
        BY <3>2
      <4> HIDE DEF g
      <4> QED BY <4>1
    <3>4. k < m => f[k] = next(f, k)
      <4>1. k < m => k \in 0 .. m - 1
        BY <2>1
      <4>2. f = [i \in 0 .. m - 1 |-> next(f, i)]
        BY <2>2, Zenon DEF RunsTo
      <4> HIDE DEF next
      <4> QED BY <4>1, <4>2
    <3> HIDE DEF next
    <3> QED BY <3>3, <3>4
  <2>4. g = [k \in 0 .. m |-> next(g, k)]
    <3>1. g = [k \in 0 .. m |-> g[k]]
      OBVIOUS
    <3> HIDE DEF g, next
    <3> QED BY <2>3, <3>1, Zenon
  <2>5. RunsTo(g, calls, verbose, m)
    <3> HIDE DEF g
    <3> QED BY <2>4, Zenon DEF RunsTo
  <2> QED BY <1>3, <2>5
<1> QED BY <1>4, <1>5

(* After all calls the sinks are in step with them.                        *)
LEMMA RunIs ==
  ASSUME NEW calls \in Seq(Calls), NEW verbose \in BOOLEAN
  PROVE  SinkInv(calls, verbose, Len(calls), RunSinks(calls, verbose))
<1>1. Len(calls) \in Nat
  OBVIOUS
<1>2. PICK f : RunsTo(f, calls, verbose, Len(calls)) /\ RunSinks(calls, verbose) = f[Len(calls)]
  <2> DEFINE f == CHOOSE g : RunsTo(g, calls, verbose, Len(calls))
  <2>1. RunsTo(f, calls, verbose, Len(calls))
    BY <1>1, RunsExist
  <2>2. RunSinks(calls, verbose) = f[Len(calls)]
    BY Zenon DEF RunSinks, RunsTo
  <2> QED BY <2>1, <2>2
<1> DEFINE T == {k \in Nat : k <= Len(calls) /\ ~SinkInv(calls, verbose, k, f[k])}
<1>3. ASSUME NEW k \in 0 .. Len(calls)
      PROVE  f[k] = IF k = 0 THEN OpenSinks(verbose) ELSE SinkStep(f[k - 1], calls[k])
  <2> DEFINE next(h, j) == IF j = 0 THEN OpenSinks(verbose) ELSE SinkStep(h[j - 1], calls[j])
  <2>1. f = [j \in 0 .. Len(calls) |-> next(f, j)]
    BY <1>2, Zenon DEF RunsTo
  <2>2. f[k] = next(f, k)
    <3> HIDE DEF next
    <3> QED BY <2>1
  <2> QED BY <2>2
<1>4. ASSUME T # {} PROVE FALSE
  <2>1. PICK m \in T : \A j \in T : ~(j < m)
    <3>1. T \subseteq Nat
      OBVIOUS
    <3> HIDE DEF T
    <3> QED BY <1>4, <3>1, LeastNatural
  <2>2. m \in Nat /\ m <= Len(calls) /\ ~SinkInv(calls, verbose, m, f[m])
    BY <2>1
  <2>3. CASE m = 0
    BY <1>1, <1>3, <2>2, <2>3, SinkInvOpen
  <2>4. CASE m # 0
    <3> DEFINE j == m - 1
    <3>1. j \in Nat /\ j < m /\ j < Len(calls) /\ j + 1 = m
      BY <1>1, <2>2, <2>4
    <3>2. SinkInv(calls, verbose, j, f[j])
      BY <1>1, <2>1, <3>1
    <3>3. f[m] = SinkStep(f[j], calls[m])
      BY <1>1, <1>3, <2>2, <2>4
    <3> HIDE DEF j
    <3>4. SinkInv(calls, verbose, j + 1, SinkStep(f[j], calls[j + 1]))
      BY <3>1, <3>2, SinkInvStep
    <3> QED BY <2>2, <3>1, <3>3, <3>4
  <2> QED BY <2>3, <2>4
<1>5. SinkInv(calls, verbose, Len(calls), f[Len(calls)])
  BY <1>1, <1>4
<1> QED BY <1>2, <1>5

(* The log and the terminal of every session are as meant.                 *)
LEMMA SinksAreMeant ==
  ASSUME NEW calls \in Seq(Calls), NEW verbose \in BOOLEAN
  PROVE  SinksMeant(calls, verbose, RunSinks(calls, verbose))
<1> DEFINE told == RunSinks(calls, verbose)
           K == Len(calls)
           log == told.log
<1>1. SinkInv(calls, verbose, K, told) /\ K \in Nat
  BY RunIs
<1> HIDE DEF told
<1>2. \A s \in Sinks : /\ \A i \in Of(calls, s) : i \in Nat /\ i <= K
                       /\ EventsOf(calls, s) \subseteq Of(calls, s) /\ FinishOf(calls, s) \subseteq Of(calls, s)
                       /\ Flushes(calls, s) \subseteq Of(calls, s) /\ BeforeEnd(calls, s) \subseteq EventsOf(calls, s)
  BY PositionsAre
<1>3. LogMeant(calls, log)
  BY <1>1 DEF SinkInv, LogRight, LogMeant
<1>4. ASSUME NEW s \in Sinks PROVE EventsMeant(calls, s, log)
  <2>1. EventsRight(calls, K, s, log, told.kept[s])
    BY <1>1 DEF SinkInv
  <2> HIDE DEF log, K
  <2>2. ASSUME NEW i \in EventsOf(calls, s)
        PROVE  /\ calls[i].room = Plenty => InOnePiece(log, i, calls[i].size)
               /\ FirstToFail(calls, s, i)
                    /\ (\E f \in Flushes(calls, s) : i <= f /\ calls[f].room = Plenty) =>
                  \A j \in 1 .. calls[i].size + 1 : Stands(log, Unit(i, j))
    BY <1>2, <2>1 DEF EventsRight
  <2> QED BY <2>2 DEF EventsMeant, Stands
<1>5. ASSUME NEW s \in Sinks PROVE TerminalMeant(calls, verbose, s, log, told.shown[s], told.closing[s])
  <2> DEFINE shown == told.shown[s]
             closing == told.closing[s]
             whole == {i \in EventsOf(calls, s) : InOnePiece(log, i, calls[i].size)}
             tools == {i \in BeforeEnd(calls, s) : calls[i].kind = "tool"}
  <2>1. ShownRight(calls, K, s, verbose, log, shown)
    BY <1>1 DEF SinkInv
  <2>2. EndRight(calls, K, s, log, told.finished[s], told.renderer[s], told.tools[s], closing)
    BY <1>1 DEF SinkInv
  <2> HIDE DEF log, K, shown, closing
  <2>3. Increasing(shown)
    BY <2>1 DEF ShownRight
  <2>4. \A p \in DOMAIN shown : shown[p] \in whole /\ Visible(calls[shown[p]].kind, verbose)
    BY <2>1 DEF ShownRight, ElemsOf
  <2>5. \A i \in BeforeEnd(calls, s) :
          calls[i].room = Plenty /\ calls[i].term /\ Visible(calls[i].kind, verbose) =>
            \E p \in DOMAIN shown : shown[p] = i
    BY <1>2, <2>1 DEF ShownRight, ElemsOf
  <2>6. Tools(calls, s, K) = tools
    BY <1>2 DEF Tools
  <2>7. WholeTools(calls, s, K, log) \subseteq tools \cap whole
    BY <1>2, <2>6 DEF WholeTools
  <2>8. SureTools(calls, s, K) = {i \in tools : calls[i].room = Plenty}
    BY <2>6 DEF SureTools
  <2>9. ASSUME closing # <<>>
        PROVE  \E counted \in SUBSET (tools \cap whole) :
                 /\ {i \in tools : calls[i].room = Plenty} \subseteq counted
                 /\ closing = <<Cardinality(counted)>>
    <3>1. PICK counted \in SUBSET WholeTools(calls, s, K, log) :
            SureTools(calls, s, K) \subseteq counted /\ told.tools[s] = Cardinality(counted)
      BY <2>2, <2>9 DEF EndRight
    <3>2. closing = <<told.tools[s]>>
      BY <2>2, <2>9 DEF EndRight
    <3> HIDE DEF tools, whole
    <3> QED BY <2>7, <2>8, <3>1, <3>2
  <2>10. (\E f \in FinishOf(calls, s) : calls[f].room = Plenty /\ calls[f].term) => closing # <<>>
    BY <1>2, <2>2 DEF EndRight
  <2> QED BY <2>3, <2>4, <2>5, <2>9, <2>10 DEF TerminalMeant, shown, closing
<1> QED BY <1>3, <1>4, <1>5, Zenon DEF SinksMeant, told, log

(* Logs tell what happened and when: the file and the terminal of a        *)
(* session (sink.rs, renderer.rs), for all events that are written without *)
(* a failure, the log loom logs shows and the ones the sweep removes       *)
(* (logs_cmd.rs, retention.rs), and the stamps (time.rs, audit.rs).        *)
THEOREM LogsTellTheTruth == Spec => []LogsTellWhatHappened
<1>1. TextInv => (Done("sink") => SinksMeant(job.calls, job.verbose, out))
  BY SinksAreMeant DEF TextInv, JobTyped, Computed, Done
<1> QED
  BY <1>1, TextInvariance, LogsAreRight, StampsAreTheCalendar, PTL DEF LogsTellWhatHappened

(***************************************************************************)
(* Texts.  Each reader is a loop over lines, words, letters or components: *)
(* what it has read after k of them, and so in the end.                    *)
(***************************************************************************)
(* What holds at 0 and of every next number holds up to n.                 *)
LEMMA UpTo ==
  ASSUME NEW n \in Nat, NEW T, 0 \in T, \A k \in 0 .. n - 1 : k \in T => k + 1 \in T
  PROVE  \A k \in 0 .. n : k \in T
<1> DEFINE U == {k \in Nat : k <= n /\ k \notin T}
<1>1. SUFFICES ASSUME U # {} PROVE FALSE
  OBVIOUS
<1>2. PICK m \in U : \A j \in U : ~(j < m)
  <2>1. U \subseteq Nat
    OBVIOUS
  <2> HIDE DEF U
  <2> QED BY <1>1, <2>1, LeastNatural
<1>3. m \in Nat /\ m <= n /\ m \notin T /\ m # 0
  BY <1>2
<1>4. m - 1 \in 0 .. n - 1 /\ m - 1 < m /\ (m - 1) + 1 = m
  BY <1>3
<1>5. m - 1 \in T
  BY <1>2, <1>3, <1>4
<1> QED BY <1>3, <1>4, <1>5

(* Numbers up to n have a greatest one among them.                         *)
LEMMA MaxIs ==
  ASSUME NEW D, NEW n \in Nat, D \subseteq 0 .. n, D # {}
  PROVE  /\ Max(D) \in D /\ \A x \in D : x <= Max(D)
         /\ \A x \in D : (\A y \in D : y <= x) => x = Max(D)
<1>1. \E x \in D : \A y \in D : x >= y
  <2> DEFINE U == {k \in Nat : \A y \in D : y <= k}
  <2>1. PICK m \in U : \A j \in U : ~(j < m)
    <3>1. n \in U /\ U \subseteq Nat
      OBVIOUS
    <3> HIDE DEF U
    <3> QED BY <3>1, LeastNatural
  <2>2. m \in Nat /\ \A y \in D : y \in Nat /\ y <= m
    BY <2>1
  <2>3. CASE m \in D
    BY <2>2, <2>3
  <2>4. CASE m \notin D
    <3> PICK d \in D : TRUE
      OBVIOUS
    <3>1. m - 1 \in Nat /\ m - 1 < m
      BY <2>2, <2>4
    <3>2. \A y \in D : y <= m - 1
      BY <2>2, <2>4
    <3> QED BY <2>1, <3>1, <3>2
  <2> QED BY <2>3, <2>4
<1>2. Max(D) \in D /\ \A y \in D : Max(D) >= y
  BY <1>1, Zenon DEF Max
<1> DEFINE m == Max(D)
<1>3. m \in D /\ \A x \in D : x \in Nat /\ m >= x
  BY <1>2
<1> HIDE DEF m
<1>4. \A x \in D : x <= m /\ ((\A y \in D : y <= x) => x = m)
  BY <1>3
<1> QED BY <1>3, <1>4 DEF m

(* The least one.                                                          *)
LEMMA MinIs ==
  ASSUME NEW D, D \subseteq Nat, D # {}
  PROVE  /\ Min(D) \in D /\ \A x \in D : Min(D) <= x
         /\ \A x \in D : (\A y \in D : x <= y) => x = Min(D)
<1>1. \E x \in D : \A y \in D : x =< y
  <2>1. PICK m \in D : \A j \in D : ~(j < m)
    BY LeastNatural
  <2> QED BY <2>1
<1>2. Min(D) \in D /\ \A y \in D : Min(D) =< y
  BY <1>1, Zenon DEF Min
<1> DEFINE m == Min(D)
<1>3. m \in D /\ \A x \in D : x \in Nat /\ m =< x
  BY <1>2
<1> HIDE DEF m
<1>4. \A x \in D : m <= x /\ ((\A y \in D : x <= y) => x = m)
  BY <1>3
<1> QED BY <1>3, <1>4 DEF m

(* The folds of the readers go through a set of positions from its end.    *)
Folds(f, step, base, n) ==
  f = [D \in SUBSET (1 .. n) |-> IF D = {} THEN base ELSE step[Max(D)][f[D \ {Max(D)}]]]

(* There is a function that does, with values in the set of states.        *)
LEMMA FoldsExist ==
  ASSUME NEW S, NEW base \in S, NEW n \in Nat, NEW step \in [1 .. n -> [S -> S]]
  PROVE  \E f \in [SUBSET (1 .. n) -> S] : Folds(f, step, base, n)
<1> DEFINE T == {k \in 0 .. n : \E f \in [SUBSET (1 .. k) -> S] : Folds(f, step, base, k)}
<1>1. 0 \in T
  <2> DEFINE f == [D \in SUBSET (1 .. 0) |-> base]
  <2>1. \A D \in SUBSET (1 .. 0) : D = {}
    OBVIOUS
  <2>2. f = [D \in SUBSET (1 .. 0) |-> IF D = {} THEN base ELSE step[Max(D)][f[D \ {Max(D)}]]]
    BY <2>1
  <2>3. f \in [SUBSET (1 .. 0) -> S]
    OBVIOUS
  <2> HIDE DEF f
  <2>4. Folds(f, step, base, 0)
    BY <2>2, Zenon DEF Folds
  <2>5. 0 \in 0 .. n
    OBVIOUS
  <2> QED BY <2>3, <2>4, <2>5
<1>2. ASSUME NEW k \in 0 .. n - 1, k \in T PROVE k + 1 \in T
  <2> DEFINE m == k + 1
  <2>1. PICK f \in [SUBSET (1 .. k) -> S] : Folds(f, step, base, k)
    BY <1>2
  <2>2. m \in 1 .. n /\ k \in Nat /\ \A i \in 1 .. m : i = m \/ i \in 1 .. k
    OBVIOUS
  <2> DEFINE g == [D \in SUBSET (1 .. m) |-> IF m \in D THEN step[m][f[D \ {m}]] ELSE f[D]]
             next(h, D) == IF D = {} THEN base ELSE step[Max(D)][h[D \ {Max(D)}]]
  <2> HIDE DEF m
  <2>3. ASSUME NEW D \in SUBSET (1 .. m) PROVE D \ {m} \in SUBSET (1 .. k) /\ (m \notin D => D \in SUBSET (1 .. k))
    BY <2>2
  <2>4. g \in [SUBSET (1 .. m) -> S]
    BY <2>1, <2>2, <2>3
  <2>5. ASSUME NEW D \in SUBSET (1 .. m) PROVE g[D] = next(g, D)
    <3>1. CASE m \in D
      <4>1. m = Max(D)
        <5>1. m \in Nat /\ D \subseteq 0 .. m /\ D # {} /\ \A y \in D : y <= m
          BY <2>2, <3>1
        <5> QED BY <3>1, <5>1, MaxIs
      <4>2. g[D \ {m}] = f[D \ {m}]
        BY <2>3
      <4> HIDE DEF next
      <4>3. g[D] = step[m][f[D \ {m}]]
        BY <3>1
      <4> HIDE DEF g
      <4> QED BY <3>1, <4>1, <4>2, <4>3 DEF next
    <3>2. CASE m \notin D
      <4>1. g[D] = f[D] /\ D \in SUBSET (1 .. k)
        BY <2>3, <3>2
      <4>2. \A i : g[D \ {i}] = f[D \ {i}]
        <5>1. \A i : D \ {i} \in SUBSET (1 .. m) /\ m \notin D \ {i}
          BY <3>2
        <5> QED BY <5>1
      <4>3. f = [E \in SUBSET (1 .. k) |-> next(f, E)]
        BY <2>1, Zenon DEF Folds
      <4>4. f[D] = next(f, D)
        <5> HIDE DEF next
        <5> QED BY <4>1, <4>3
      <4> HIDE DEF g
      <4> QED BY <4>1, <4>2, <4>4
    <3> QED BY <3>1, <3>2
  <2>6. g = [D \in SUBSET (1 .. m) |-> next(g, D)]
    <3>1. g = [D \in SUBSET (1 .. m) |-> g[D]]
      OBVIOUS
    <3> HIDE DEF g, next
    <3> QED BY <2>5, <3>1, Zenon
  <2> HIDE DEF g
  <2>7. Folds(g, step, base, m)
    BY <2>6, Zenon DEF Folds
  <2> QED BY <2>2, <2>4, <2>7 DEF m
<1>3. n \in 0 .. n
  OBVIOUS
<1> HIDE DEF T
<1>4. n \in T
  BY <1>1, <1>2, <1>3, UpTo
<1> QED BY <1>4 DEF T

(* Of such a function only the values at the first k positions count.      *)
LEMMA FirstPositions ==
  ASSUME NEW n \in Nat
  PROVE  /\ 1 .. 0 = {}
         /\ \A k \in 0 .. n - 1 : /\ 1 .. k + 1 \in SUBSET (1 .. n) /\ 1 .. k + 1 # {}
                                  /\ Max(1 .. k + 1) = k + 1 /\ (1 .. k + 1) \ {k + 1} = 1 .. k
<1>1. 1 .. 0 = {}
  OBVIOUS
<1>2. ASSUME NEW k \in 0 .. n - 1
      PROVE  /\ 1 .. k + 1 \in SUBSET (1 .. n) /\ 1 .. k + 1 # {}
             /\ Max(1 .. k + 1) = k + 1 /\ (1 .. k + 1) \ {k + 1} = 1 .. k
  <2> DEFINE m == k + 1
             D == 1 .. m
  <2>1. m \in Nat /\ m \in D /\ D \subseteq 0 .. m /\ D # {} /\ \A y \in D : y <= m
    OBVIOUS
  <2>2. 1 .. k + 1 \in SUBSET (1 .. n) /\ 1 .. k + 1 # {} /\ (1 .. k + 1) \ {k + 1} = 1 .. k
    <3>1. \A i \in 1 .. k + 1 : i \in 1 .. n /\ (i # k + 1 => i \in 1 .. k)
      OBVIOUS
    <3>2. \A i \in 1 .. k : i \in 1 .. k + 1 /\ i # k + 1
      OBVIOUS
    <3> QED BY <2>1, <3>1, <3>2
  <2> HIDE DEF m, D
  <2>3. m = Max(D)
    BY <2>1, MaxIs
  <2> QED BY <2>2, <2>3 DEF m, D
<1> QED BY <1>1, <1>2

(* The verdict in a line with a marker does not depend on the lines after. *)
HasMarker(output, i) == \E w \in Words \ {"why"} : Has(output[i], w)

(* ExitStep keeps the verdict it has at a line without a marker and drops  *)
(* it at one with a marker (exit.rs).                                      *)
LEMMA VerdictOfLine ==
  ASSUME NEW output, NEW i
  PROVE  /\ \A last : ExitStep(output, last, i) =
                        IF HasMarker(output, i) THEN ExitStep(output, NoSignal, i) ELSE last
         /\ HasMarker(output, i) <=> \/ Has(output[i], "LOOM_BLOCKED") \/ Has(output[i], "LOOM_CLARIFY")
                                     \/ Has(output[i], "LOOM_COMPLETE")
<1>1. HasMarker(output, i) <=> \/ Has(output[i], "LOOM_BLOCKED") \/ Has(output[i], "LOOM_CLARIFY")
                               \/ Has(output[i], "LOOM_COMPLETE")
  BY DEF HasMarker, Words
<1>2. ASSUME NEW last
      PROVE  ExitStep(output, last, i) = IF HasMarker(output, i) THEN ExitStep(output, NoSignal, i) ELSE last
  <2>1. CASE Has(output[i], "LOOM_BLOCKED")
    BY <1>1, <2>1 DEF ExitStep
  <2>2. CASE ~Has(output[i], "LOOM_BLOCKED") /\ Has(output[i], "LOOM_CLARIFY")
    BY <1>1, <2>2 DEF ExitStep
  <2>3. CASE ~Has(output[i], "LOOM_BLOCKED") /\ ~Has(output[i], "LOOM_CLARIFY") /\ Has(output[i], "LOOM_COMPLETE")
    BY <1>1, <2>3 DEF ExitStep
  <2>4. CASE ~Has(output[i], "LOOM_BLOCKED") /\ ~Has(output[i], "LOOM_CLARIFY") /\ ~Has(output[i], "LOOM_COMPLETE")
    BY <1>1, <2>4 DEF ExitStep
  <2> QED BY <2>1, <2>2, <2>3, <2>4
<1> QED BY <1>1, <1>2

(* parse_exit_signal is the loop over the lines (exit.rs).                 *)
LEMMA ExitFold ==
  ASSUME NEW output, NEW n \in Nat, DOMAIN output = 1 .. n
  PROVE  \E g : /\ g[0] = NoSignal /\ ParseExitSignal(output) = g[n]
                /\ \A k \in 0 .. n - 1 : g[k + 1] = ExitStep(output, g[k], k + 1)
<1> DEFINE S == {NoSignal} \cup {ExitStep(output, NoSignal, i) : i \in 1 .. n}
           step == [i \in 1 .. n |-> [x \in S |-> ExitStep(output, x, i)]]
           seq == [i \in DOMAIN output |-> i]
           iter == CHOOSE f : f = [D \in SUBSET (DOMAIN seq) |->
                                     IF D = {} THEN NoSignal
                                     ELSE ExitStep(output, f[D \ {Max(D)}], seq[Max(D)])]
<1>1. step \in [1 .. n -> [S -> S]]
  <2>1. ASSUME NEW i \in 1 .. n, NEW x \in S PROVE ExitStep(output, x, i) \in S
    <3>1. ExitStep(output, x, i) = x \/ ExitStep(output, x, i) = ExitStep(output, NoSignal, i)
      BY VerdictOfLine
    <3> QED BY <3>1
  <2> HIDE DEF S
  <2> QED BY <2>1
<1>2. NoSignal \in S
  OBVIOUS
<1> HIDE DEF S
<1>3. DOMAIN seq = 1 .. n
  OBVIOUS
<1>4. PICK f \in [SUBSET (1 .. n) -> S] : Folds(f, step, NoSignal, n)
  <2> HIDE DEF step
  <2> QED BY <1>1, <1>2, FoldsExist
<1>5. ASSUME NEW D \in SUBSET (1 .. n), D # {} PROVE Max(D) \in 1 .. n /\ f[D \ {Max(D)}] \in S
  <2>1. Max(D) \in D
    <3>1. D \subseteq 0 .. n
      OBVIOUS
    <3> QED BY <1>5, <3>1, MaxIs
  <2> QED BY <2>1
<1>6. f = [D \in SUBSET (DOMAIN seq) |-> IF D = {} THEN NoSignal
                                         ELSE ExitStep(output, f[D \ {Max(D)}], seq[Max(D)])]
  <2>1. ASSUME NEW D \in SUBSET (1 .. n), D # {}
        PROVE  step[Max(D)][f[D \ {Max(D)}]] = ExitStep(output, f[D \ {Max(D)}], seq[Max(D)])
    BY <1>5, <2>1
  <2>2. f = [D \in SUBSET (1 .. n) |-> IF D = {} THEN NoSignal ELSE step[Max(D)][f[D \ {Max(D)}]]]
    BY <1>4, Zenon DEF Folds
  <2> HIDE DEF step, seq
  <2> QED BY <1>3, <2>1, <2>2
<1>7. iter = [D \in SUBSET (DOMAIN seq) |-> IF D = {} THEN NoSignal
                                            ELSE ExitStep(output, iter[D \ {Max(D)}], seq[Max(D)])]
  BY <1>6, Zenon
<1>8. ParseExitSignal(output) = iter[DOMAIN seq]
  BY Zenon DEF ParseExitSignal, FoldLeft, MapThenFoldSet
<1> DEFINE g == [k \in 0 .. n |-> iter[1 .. k]]
<1> HIDE DEF iter
<1>9. g[0] = NoSignal /\ g[n] = iter[1 .. n] /\ \A k \in 0 .. n - 1 : g[k] = iter[1 .. k] /\ g[k + 1] = iter[1 .. k + 1]
  <2>1. iter[{}] = NoSignal
    BY <1>3, <1>7
  <2> QED BY <2>1, FirstPositions
<1>10. ASSUME NEW k \in 0 .. n - 1 PROVE g[k + 1] = ExitStep(output, g[k], k + 1)
  <2>1. iter[1 .. k + 1] = ExitStep(output, iter[(1 .. k + 1) \ {Max(1 .. k + 1)}], seq[Max(1 .. k + 1)])
    <3>1. 1 .. k + 1 \in SUBSET (DOMAIN seq) /\ 1 .. k + 1 # {}
      BY <1>3, FirstPositions
    <3> HIDE DEF seq
    <3> QED BY <1>7, <3>1
  <2>2. k + 1 \in 1 .. n
    OBVIOUS
  <2>3. seq[k + 1] = k + 1
    BY <1>3, <2>2
  <2>4. Max(1 .. k + 1) = k + 1 /\ (1 .. k + 1) \ {k + 1} = 1 .. k
    BY FirstPositions
  <2>5. g[k] = iter[1 .. k] /\ g[k + 1] = iter[1 .. k + 1]
    BY <1>9
  <2> HIDE DEF g, seq
  <2> QED BY <2>1, <2>3, <2>4, <2>5, Zenon
<1> HIDE DEF g
<1> QED BY <1>3, <1>8, <1>9, <1>10

(* The last line with a marker decides (exit.rs:26-28), lines being the    *)
(* unit, and the reason is only empty where the output has none.           *)
LEMMA VerdictIsMeant ==
  ASSUME NEW output \in Seq(Seq(Words))
  PROVE  VerdictMeant(output, ParseExitSignal(output))
<1> DEFINE n == Len(output)
           M(k) == {i \in 1 .. k : HasMarker(output, i)}
           found == ParseExitSignal(output)
<1>1. n \in Nat /\ DOMAIN output = 1 .. n
  OBVIOUS
<1> HIDE DEF n
<1>2. PICK g : /\ g[0] = NoSignal /\ found = g[n]
               /\ \A k \in 0 .. n - 1 : g[k + 1] = ExitStep(output, g[k], k + 1)
  BY <1>1, ExitFold
<1> HIDE DEF found
<1> DEFINE Decided(k) == g[k] = IF M(k) = {} THEN NoSignal ELSE ExitStep(output, NoSignal, Max(M(k)))
           T == {k \in Nat : Decided(k)}
<1>3. 0 \in T
  <2>1. M(0) = {}
    OBVIOUS
  <2> HIDE DEF M
  <2> QED BY <1>2, <2>1
<1>4. ASSUME NEW k \in 0 .. n - 1, k \in T PROVE k + 1 \in T
  <2> DEFINE m == k + 1
  <2>1. g[m] = IF HasMarker(output, m) THEN ExitStep(output, NoSignal, m) ELSE g[k]
    BY <1>2, VerdictOfLine
  <2>2. m \in Nat /\ \A i \in 1 .. m : i = m \/ i \in 1 .. k
    OBVIOUS
  <2>3. 1 .. k \subseteq 1 .. m /\ m \in 1 .. m
    OBVIOUS
  <2> HIDE DEF m
  <2>4. CASE HasMarker(output, m)
    <3>1. m \in M(m) /\ M(m) \subseteq 0 .. m /\ \A i \in M(m) : i <= m
      BY <2>2, <2>3, <2>4
    <3> HIDE DEF M
    <3>2. m = Max(M(m)) /\ M(m) # {}
      BY <2>2, <3>1, MaxIs
    <3> QED BY <2>1, <2>2, <2>4, <3>2 DEF m
  <2>5. CASE ~HasMarker(output, m)
    <3>1. M(m) = M(k)
      BY <2>2, <2>3, <2>5
    <3> HIDE DEF M
    <3> QED BY <1>4, <2>1, <2>2, <2>5, <3>1 DEF m
  <2> QED BY <2>4, <2>5
<1> HIDE DEF T
<1>5. n \in T
  <2>1. n \in 0 .. n
    BY <1>1
  <2> QED BY <1>1, <1>3, <1>4, <2>1, UpTo
<1>6. Decided(n)
  BY <1>5 DEF T
<1>7. M(n) = Marked(output)
  BY <1>1 DEF Marked, HasMarker
<1>8. found = IF Marked(output) = {} THEN NoSignal ELSE ExitStep(output, NoSignal, Max(Marked(output)))
  BY <1>2, <1>6, <1>7
<1>9. CASE Marked(output) = {}
  BY <1>8, <1>9 DEF VerdictMeant, found
<1>10. CASE Marked(output) # {}
  <2> DEFINE m == Max(Marked(output))
             end == output[m]
  <2>1. m \in 1 .. n /\ HasMarker(output, m)
    <3>1. Marked(output) \subseteq 0 .. n /\ \A i \in Marked(output) : i \in 1 .. n /\ HasMarker(output, i)
      BY <1>7
    <3> QED BY <1>1, <1>10, <3>1, MaxIs
  <2>2. found = ExitStep(output, NoSignal, m)
    BY <1>8, <1>10
  <2> HIDE DEF m
  <2>3. end \in Seq(Words)
    BY <1>1, <2>1
  <2>4. ASSUME NEW w \in Words \ {"why"}, Has(end, w), ReasonFor(w, end, SubSeq(output, 1, m - 1)) = <<>>
        PROVE  end[1] = w /\ \A i \in 1 .. m - 1 : output[i] = <<>>
    <3> DEFINE prior == SubSeq(output, 1, m - 1)
               full == {i \in DOMAIN prior : prior[i] # <<>>}
               first == CHOOSE i \in DOMAIN end : end[i] = w /\ \A j \in 1 .. i - 1 : end[j] # w
    <3>1. DOMAIN prior = 1 .. m - 1 /\ \A i \in 1 .. m - 1 : prior[i] = output[i]
      BY <1>1, <2>1
    <3>2. full = {} \/ prior[Max(full)] # <<>>
      <4>1. full \subseteq 0 .. m - 1 /\ m - 1 \in Nat
        BY <2>1, <3>1
      <4>2. \A i \in full : prior[i] # <<>>
        OBVIOUS
      <4> HIDE DEF prior, full
      <4> QED BY <4>1, <4>2, MaxIs
    <3>3. Before(end, w) = SubSeq(end, 1, first - 1)
      BY Zenon DEF Before
    <3>4. first \in DOMAIN end /\ end[first] = w
      <4>1. PICK i \in DOMAIN end : end[i] = w
        BY <2>4 DEF Has
      <4> DEFINE hits == {j \in DOMAIN end : end[j] = w}
      <4>2. PICK x \in hits : \A y \in hits : ~(y < x)
        <5>1. hits \subseteq Nat /\ hits # {}
          BY <2>3, <4>1
        <5> HIDE DEF hits
        <5> QED BY <5>1, LeastNatural
      <4>3. x \in DOMAIN end /\ end[x] = w /\ \A j \in 1 .. x - 1 : end[j] # w
        BY <2>3, <4>2
      <4> HIDE DEF end
      <4> QED BY <4>3, Zenon
    <3> HIDE DEF first, prior, full
    <3>5. Before(end, w) = <<>> /\ full = {}
      <4>1. ReasonFor(w, end, prior) = IF Before(end, w) # <<>> THEN Before(end, w)
                                       ELSE IF full = {} THEN <<>> ELSE prior[Max(full)]
        BY Zenon DEF ReasonFor, full
      <4> QED BY <2>4, <3>2, <4>1 DEF prior
    <3>6. first = 1
      <4>1. first \in 1 .. Len(end)
        BY <2>3, <3>4
      <4>2. Len(SubSeq(end, 1, first - 1)) = first - 1
        BY <2>3, <4>1
      <4>3. Len(<<>>) = 0
        OBVIOUS
      <4> QED BY <3>3, <3>5, <4>1, <4>2, <4>3
    <3>7. \A i \in 1 .. m - 1 : output[i] = <<>>
      BY <3>1, <3>5 DEF full
    <3> QED BY <3>4, <3>6, <3>7
  <2> HIDE DEF end
  <2>5. /\ Has(end, found.signal)
        /\ Has(end, "LOOM_BLOCKED") => found.signal = "LOOM_BLOCKED"
        /\ found.signal = "LOOM_COMPLETE" => found.reason = <<>> /\ ~Has(end, "LOOM_CLARIFY")
        /\ found.signal # "LOOM_COMPLETE" =>
             /\ found.signal \in Words \ {"why"}
             /\ found.reason = ReasonFor(found.signal, end, SubSeq(output, 1, m - 1))
    <3>1. Has(end, "LOOM_BLOCKED") \/ Has(end, "LOOM_CLARIFY") \/ Has(end, "LOOM_COMPLETE")
      BY <2>1, VerdictOfLine DEF end
    <3>2. CASE Has(end, "LOOM_BLOCKED")
      BY <2>2, <3>2 DEF ExitStep, end, Words
    <3>3. CASE ~Has(end, "LOOM_BLOCKED") /\ Has(end, "LOOM_CLARIFY")
      BY <2>2, <3>3 DEF ExitStep, end, Words
    <3>4. CASE ~Has(end, "LOOM_BLOCKED") /\ ~Has(end, "LOOM_CLARIFY") /\ Has(end, "LOOM_COMPLETE")
      BY <2>2, <3>4 DEF ExitStep, end, Words
    <3> QED BY <3>1, <3>2, <3>3, <3>4
  <2>6. found.signal # "LOOM_COMPLETE" /\ found.reason = <<>> =>
          end[1] = found.signal /\ \A i \in 1 .. m - 1 : output[i] = <<>>
    BY <2>4, <2>5
  <2> QED BY <1>10, <2>5, <2>6, Zenon DEF VerdictMeant, found, m, end
<1> QED BY <1>9, <1>10

(* The place of a position among those of a set.                           *)
Rank(D, j) == Cardinality({i \in D : i <= j})

(* Ranks of positions rise by one from each to the next.                   *)
LEMMA RankSteps ==
  ASSUME NEW n \in Nat, NEW D, D \subseteq 1 .. n
  PROVE  /\ Rank(D, 0) = 0
         /\ \A k \in 0 .. n : Rank(D, k) \in Nat
         /\ \A k \in 0 .. n - 1 : Rank(D, k + 1) = IF k + 1 \in D THEN Rank(D, k) + 1 ELSE Rank(D, k)
         /\ Rank(D, n) = Cardinality(D)
<1> DEFINE E(k) == {i \in D : i <= k}
<1>1. \A i \in D : i \in Nat /\ i >= 1 /\ i <= n
  OBVIOUS
<1>2. ASSUME NEW k \in 0 .. n PROVE IsFiniteSet(E(k)) /\ Cardinality(E(k)) \in Nat
  <2>1. E(k) \subseteq 1 .. n
    OBVIOUS
  <2>2. IsFiniteSet(1 .. n)
    BY FS_Interval
  <2> HIDE DEF E
  <2> QED BY <2>1, <2>2, FS_Subset, FS_CardinalityType
<1>3. E(0) = {} /\ E(n) = D
  <2>1. \A i \in D : ~(i <= 0) /\ i <= n
    BY <1>1
  <2> QED BY <2>1, Zenon
<1>4. ASSUME NEW k \in 0 .. n - 1
      PROVE  Cardinality(E(k + 1)) = IF k + 1 \in D THEN Cardinality(E(k)) + 1 ELSE Cardinality(E(k))
  <2>1. k \in 0 .. n /\ k \in Nat
    OBVIOUS
  <2>2. \A i \in D : i <= k + 1 <=> i <= k \/ i = k + 1
    BY <1>1
  <2>3. k + 1 \notin E(k)
    OBVIOUS
  <2>4. k + 1 \in D => E(k + 1) = E(k) \cup {k + 1}
    BY <2>2
  <2>5. k + 1 \notin D => E(k + 1) = E(k)
    BY <2>2
  <2> HIDE DEF E
  <2> QED BY <1>2, <2>1, <2>3, <2>4, <2>5, FS_AddElement
<1>5. Cardinality({}) = 0
  BY FS_EmptySet
<1> HIDE DEF E
<1>6. \A k : Rank(D, k) = Cardinality(E(k))
  BY DEF Rank, E
<1> QED BY <1>2, <1>3, <1>4, <1>5, <1>6

(* The same at one position.                                               *)
LEMMA RankNext ==
  ASSUME NEW n \in Nat, NEW D, D \subseteq 1 .. n, NEW k \in 0 .. n - 1
  PROVE  Rank(D, k) \in Nat /\ Rank(D, k + 1) = IF k + 1 \in D THEN Rank(D, k) + 1 ELSE Rank(D, k)
<1>1. /\ Rank(D, 0) = 0
      /\ \A i \in 0 .. n : Rank(D, i) \in Nat
      /\ \A i \in 0 .. n - 1 : Rank(D, i + 1) = IF i + 1 \in D THEN Rank(D, i) + 1 ELSE Rank(D, i)
      /\ Rank(D, n) = Cardinality(D)
  BY RankSteps
<1>2. k \in 0 .. n
  OBVIOUS
<1> QED BY <1>1, <1>2

(* Every number up to their number is the rank of just one position.       *)
LEMMA RankIs ==
  ASSUME NEW n \in Nat, NEW D, D \subseteq 1 .. n
  PROVE  /\ \A j \in 0 .. n : \A i \in 0 .. n : i <= j => Rank(D, i) <= Rank(D, j)
         /\ \A i \in 0 .. n : \A j \in D : i < j => Rank(D, i) < Rank(D, j)
         /\ \A j \in D : Rank(D, j) \in 1 .. Cardinality(D)
         /\ \A r \in 1 .. Cardinality(D) :
              LET j == CHOOSE x \in D : Rank(D, x) = r IN
              j \in D /\ Rank(D, j) = r /\ \A x \in D : Rank(D, x) = r => x = j
<1>0. /\ Rank(D, 0) = 0
      /\ \A k \in 0 .. n : Rank(D, k) \in Nat
      /\ \A k \in 0 .. n - 1 : Rank(D, k + 1) = IF k + 1 \in D THEN Rank(D, k) + 1 ELSE Rank(D, k)
      /\ Rank(D, n) = Cardinality(D)
  BY RankSteps
<1> DEFINE R(k) == Rank(D, k)
<1>1. /\ R(0) = 0 /\ R(n) = Cardinality(D)
      /\ \A k \in 0 .. n : R(k) \in Nat
      /\ \A k \in 0 .. n - 1 : R(k + 1) = IF k + 1 \in D THEN R(k) + 1 ELSE R(k)
  BY <1>0
<1> HIDE DEF R
<1>2. ASSUME NEW i \in 0 .. n, NEW j \in 0 .. n, i <= j PROVE R(i) <= R(j)
  <2> DEFINE T == {k \in Nat : i <= k => R(i) <= R(k)}
  <2>1. 0 \in T
    BY <1>1
  <2>2. ASSUME NEW k \in 0 .. n - 1, k \in T PROVE k + 1 \in T
    <3>1. R(k) <= R(k + 1) /\ R(k) \in Nat /\ R(i) \in Nat /\ R(k + 1) \in Nat /\ k + 1 \in Nat
      BY <1>1
    <3>2. i <= k + 1 => i <= k \/ i = k + 1
      OBVIOUS
    <3> QED BY <2>2, <3>1, <3>2
  <2> HIDE DEF T
  <2>3. j \in T
    BY <2>1, <2>2, UpTo
  <2> QED BY <1>2, <2>3 DEF T
<1>3. ASSUME NEW i \in 0 .. n, NEW j \in D, i < j PROVE R(i) < R(j)
  <2>1. j - 1 \in 0 .. n - 1 /\ i <= j - 1 /\ (j - 1) + 1 = j /\ j - 1 \in 0 .. n
    BY <1>3
  <2>2. R(i) <= R(j - 1) /\ R(j) = R(j - 1) + 1 /\ R(i) \in Nat /\ R(j - 1) \in Nat
    BY <1>1, <1>2, <2>1
  <2> QED BY <2>2
<1>4. ASSUME NEW j \in D PROVE R(j) \in 1 .. Cardinality(D)
  <2>1. 0 \in 0 .. n /\ n \in 0 .. n /\ 0 < j /\ j <= n /\ j \in 0 .. n
    OBVIOUS
  <2>2. R(0) < R(j) /\ R(j) <= R(n) /\ R(j) \in Nat
    BY <1>1, <1>2, <1>3, <2>1
  <2> QED BY <1>1, <2>1, <2>2
<1>5. ASSUME NEW x \in D, NEW y \in D, R(x) = R(y) PROVE x = y
  <2>1. x \in 0 .. n /\ y \in 0 .. n
    OBVIOUS
  <2>2. ~(x < y) /\ ~(y < x)
    BY <1>1, <1>3, <1>5, <2>1
  <2> QED BY <2>1, <2>2
<1>6. ASSUME NEW r \in 1 .. Cardinality(D) PROVE \E j \in D : R(j) = r
  <2> DEFINE T == {k \in Nat : r <= R(k) => \E j \in D : R(j) = r}
  <2>1. 0 \in T
    BY <1>1
  <2>2. ASSUME NEW k \in 0 .. n - 1, k \in T PROVE k + 1 \in T
    <3>1. R(k) \in Nat /\ k + 1 \in Nat /\ R(k + 1) = IF k + 1 \in D THEN R(k) + 1 ELSE R(k)
      BY <1>1
    <3>2. ASSUME r <= R(k + 1), ~(r <= R(k)) PROVE k + 1 \in D /\ R(k + 1) = r
      BY <3>1, <3>2
    <3> QED BY <2>2, <3>1, <3>2
  <2> HIDE DEF T
  <2>3. n \in T
    <3>1. n \in 0 .. n
      OBVIOUS
    <3> QED BY <2>1, <2>2, <3>1, UpTo
  <2> QED BY <1>1, <2>3 DEF T
<1>7. ASSUME NEW r \in 1 .. Cardinality(D)
      PROVE  LET j == CHOOSE x \in D : R(x) = r IN
             j \in D /\ R(j) = r /\ \A x \in D : R(x) = r => x = j
  <2> DEFINE j == CHOOSE x \in D : R(x) = r
  <2>1. j \in D /\ R(j) = r
    BY <1>6
  <2> HIDE DEF j
  <2>2. \A x \in D : R(x) = r => x = j
    BY <1>5, <2>1
  <2> QED BY <2>1, <2>2 DEF j
<1> QED BY <1>2, <1>3, <1>4, <1>7 DEF R

(* What a loop appends at the positions of a set stands in their order.    *)
Appends(n, D, val, g) ==
  /\ g[0] = <<>>
  /\ \A k \in 0 .. n - 1 : g[k + 1] = IF k + 1 \in D THEN Append(g[k], val[k + 1]) ELSE g[k]
InOrder(D, val) == [r \in 1 .. Cardinality(D) |-> val[CHOOSE j \in D : Rank(D, j) = r]]

(* At its end the loop has appended one value for each position, in order. *)
LEMMA AppendedInOrder ==
  ASSUME NEW n \in Nat, NEW D, D \subseteq 1 .. n, NEW val, NEW g, Appends(n, D, val, g)
  PROVE  g[n] = InOrder(D, val)
<1> DEFINE nth(r) == CHOOSE j \in D : Rank(D, j) = r
           S == {val[j] : j \in D}
           T == {k \in 0 .. n : /\ g[k] \in Seq(S) /\ Len(g[k]) = Rank(D, k)
                                /\ \A j \in D : j <= k => g[k][Rank(D, j)] = val[j]}
<1>1. /\ Rank(D, 0) = 0
      /\ \A k \in 0 .. n : Rank(D, k) \in Nat
      /\ \A k \in 0 .. n - 1 : Rank(D, k + 1) = IF k + 1 \in D THEN Rank(D, k) + 1 ELSE Rank(D, k)
      /\ Rank(D, n) = Cardinality(D)
  BY RankSteps
<1>0. /\ g[0] = <<>>
      /\ \A k \in 0 .. n - 1 : g[k + 1] = IF k + 1 \in D THEN Append(g[k], val[k + 1]) ELSE g[k]
  BY DEF Appends
<1>2. 0 \in T
  <2>1. \A j \in D : ~(j <= 0)
    OBVIOUS
  <2>2. 0 \in 0 .. n /\ <<>> \in Seq(S) /\ Len(<<>>) = 0
    OBVIOUS
  <2> QED BY <1>0, <1>1, <2>1, <2>2, Zenon
<1>3. ASSUME NEW k \in 0 .. n - 1, k \in T PROVE k + 1 \in T
  <2> DEFINE m == k + 1
  <2>1. m \in 0 .. n /\ k \in 0 .. n /\ \A j \in D : j <= m => j <= k \/ j = m
    OBVIOUS
  <2>2. g[k] \in Seq(S) /\ Len(g[k]) = Rank(D, k) /\ \A j \in D : j <= k => g[k][Rank(D, j)] = val[j]
    BY <1>3
  <2>3. g[m] = IF m \in D THEN Append(g[k], val[m]) ELSE g[k]
    BY <1>0
  <2>4. Rank(D, m) = IF m \in D THEN Rank(D, k) + 1 ELSE Rank(D, k)
    BY <1>1
  <2> HIDE DEF m
  <2>5. CASE m \in D
    <3>1. g[m] \in Seq(S) /\ Len(g[m]) = Rank(D, m) /\ g[m][Rank(D, m)] = val[m]
      <4>1. val[m] \in S
        BY <2>5
      <4> HIDE DEF S
      <4> QED BY <2>2, <2>3, <2>4, <2>5, <4>1
    <3>2. ASSUME NEW j \in D, j <= k PROVE g[m][Rank(D, j)] = val[j]
      <4>1. Rank(D, j) \in 1 .. Cardinality(D) /\ Rank(D, j) <= Rank(D, k)
        <5>1. j \in 0 .. n
          OBVIOUS
        <5> QED BY <2>1, <3>2, <5>1, RankIs
      <4>2. Rank(D, j) \in 1 .. Len(g[k])
        BY <2>2, <4>1
      <4> QED BY <2>2, <2>3, <2>5, <3>2, <4>2
    <3> QED BY <2>1, <3>1, <3>2 DEF m
  <2>6. CASE m \notin D
    BY <2>1, <2>2, <2>3, <2>4, <2>6 DEF m
  <2> QED BY <2>5, <2>6
<1> HIDE DEF T
<1>4. n \in T
  <2>1. n \in 0 .. n
    OBVIOUS
  <2> QED BY <1>2, <1>3, <2>1, UpTo
<1>5. g[n] \in Seq(S) /\ Len(g[n]) = Cardinality(D) /\ \A j \in D : j <= n => g[n][Rank(D, j)] = val[j]
  BY <1>1, <1>4 DEF T
<1>6. ASSUME NEW r \in 1 .. Cardinality(D) PROVE g[n][r] = val[nth(r)]
  <2>1. nth(r) \in D /\ Rank(D, nth(r)) = r
    BY <1>6, RankIs
  <2>2. \A j \in D : j <= n
    OBVIOUS
  <2> QED BY <1>5, <2>1, <2>2
<1> HIDE DEF nth, S
<1>7. g[n] = [r \in 1 .. Len(g[n]) |-> g[n][r]]
  BY <1>5
<1> QED BY <1>5, <1>6, <1>7 DEF nth, InOrder

(* parse_companions is the loop over the lines (companions.rs).            *)
CompanionStates == [at : {"before", "inside", "after"}, paths : Seq({"doc", "lib/"})]

(* The states that parse_companions goes through, one for every line read. *)
LEMMA CompanionFold ==
  ASSUME NEW lines \in Seq(CompanionLines), NEW n \in Nat, DOMAIN lines = 1 .. n
  PROVE  \E g : /\ g[0] = [at |-> "before", paths |-> <<>>] /\ ParseCompanions(lines) = g[n].paths
                /\ \A k \in 0 .. n - 1 : g[k + 1] = CompanionStep(g[k], lines[k + 1])
<1> DEFINE S == CompanionStates
           base == [at |-> "before", paths |-> <<>>]
           step == [i \in 1 .. n |-> [x \in S |-> CompanionStep(x, lines[i])]]
           iter == CHOOSE f : f = [D \in SUBSET (DOMAIN lines) |->
                                     IF D = {} THEN base
                                     ELSE CompanionStep(f[D \ {Max(D)}], lines[Max(D)])]
<1>1. step \in [1 .. n -> [S -> S]]
  <2>1. ASSUME NEW i \in 1 .. n, NEW x \in S PROVE CompanionStep(x, lines[i]) \in S
    <3>1. PathIn(lines[i]) \in {"doc", "lib/"}
      BY DEF PathIn
    <3>2. Append(x.paths, PathIn(lines[i])) \in Seq({"doc", "lib/"}) /\ x.at \in {"before", "inside", "after"}
      BY <3>1 DEF CompanionStates
    <3>3. CASE x.at = "before"
      BY <3>3 DEF CompanionStates, CompanionStep
    <3>4. CASE x.at = "inside" /\ lines[i] \in Headings
      BY <3>4 DEF CompanionStates, CompanionStep, Headings, Items
    <3>5. CASE x.at = "inside" /\ lines[i] \notin Headings /\ lines[i] \in Items
      BY <3>2, <3>5 DEF CompanionStates, CompanionStep, Headings, Items
    <3>6. CASE x.at # "before" /\ ~(x.at = "inside" /\ lines[i] \in Headings \cup Items)
      BY <3>6 DEF CompanionStates, CompanionStep, Headings, Items
    <3> QED BY <3>2, <3>3, <3>4, <3>5, <3>6
  <2> HIDE DEF S
  <2> QED BY <2>1
<1>2. base \in S
  BY DEF CompanionStates
<1> HIDE DEF S, base
<1>4. PICK f \in [SUBSET (1 .. n) -> S] : Folds(f, step, base, n)
  <2> HIDE DEF step
  <2> QED BY <1>1, <1>2, FoldsExist
<1>5. ASSUME NEW D \in SUBSET (1 .. n), D # {} PROVE Max(D) \in 1 .. n /\ f[D \ {Max(D)}] \in S
  <2>1. Max(D) \in D
    <3>1. D \subseteq 0 .. n
      OBVIOUS
    <3> QED BY <1>5, <3>1, MaxIs
  <2> QED BY <2>1
<1>6. f = [D \in SUBSET (DOMAIN lines) |-> IF D = {} THEN base
                                           ELSE CompanionStep(f[D \ {Max(D)}], lines[Max(D)])]
  <2>1. ASSUME NEW D \in SUBSET (1 .. n), D # {}
        PROVE  step[Max(D)][f[D \ {Max(D)}]] = CompanionStep(f[D \ {Max(D)}], lines[Max(D)])
    BY <1>5, <2>1
  <2>2. f = [D \in SUBSET (1 .. n) |-> IF D = {} THEN base ELSE step[Max(D)][f[D \ {Max(D)}]]]
    BY <1>4, Zenon DEF Folds
  <2> HIDE DEF step
  <2> QED BY <2>1, <2>2
<1>7. iter = [D \in SUBSET (DOMAIN lines) |-> IF D = {} THEN base
                                              ELSE CompanionStep(iter[D \ {Max(D)}], lines[Max(D)])]
  BY <1>6, Zenon
<1>8. ParseCompanions(lines) = iter[DOMAIN lines].paths
  BY Zenon DEF ParseCompanions, FoldLeft, MapThenFoldSet, base
<1> DEFINE g == [k \in 0 .. n |-> iter[1 .. k]]
<1> HIDE DEF iter
<1>9. g[0] = base /\ g[n] = iter[1 .. n] /\ \A k \in 0 .. n - 1 : g[k] = iter[1 .. k] /\ g[k + 1] = iter[1 .. k + 1]
  <2>1. iter[{}] = base
    BY <1>7
  <2> QED BY <2>1, FirstPositions
<1>10. ASSUME NEW k \in 0 .. n - 1 PROVE g[k + 1] = CompanionStep(g[k], lines[k + 1])
  <2>1. iter[1 .. k + 1] = CompanionStep(iter[(1 .. k + 1) \ {Max(1 .. k + 1)}], lines[Max(1 .. k + 1)])
    BY <1>7, FirstPositions
  <2>2. Max(1 .. k + 1) = k + 1 /\ (1 .. k + 1) \ {k + 1} = 1 .. k
    BY FirstPositions
  <2>3. g[k] = iter[1 .. k] /\ g[k + 1] = iter[1 .. k + 1]
    BY <1>9
  <2> HIDE DEF g
  <2> QED BY <2>1, <2>2, <2>3, Zenon
<1> HIDE DEF g
<1> QED BY <1>8, <1>9, <1>10 DEF base

(* What lies between a line and the end of the lines read.                 *)
LEMMA BetweenSteps ==
  ASSUME NEW n \in Nat, NEW lines, Positions(lines) = 1 .. n, NEW k \in 0 .. n - 1, NEW kinds
  PROVE  /\ \A i \in 0 .. k : NoneBetween(lines, i, k + 1 + 1, kinds) <=>
                              NoneBetween(lines, i, k + 1, kinds) /\ lines[k + 1] \notin kinds
         /\ NoneBetween(lines, k + 1, k + 1 + 1, kinds)
         /\ NoneBetween(lines, 0, k + 1, kinds) <=> \A i \in 1 .. k : lines[i] \notin kinds
<1>1. k + 1 \in 1 .. n
  OBVIOUS
<1>2. ASSUME NEW i \in 0 .. k
      PROVE  NoneBetween(lines, i, k + 1 + 1, kinds) <=>
               NoneBetween(lines, i, k + 1, kinds) /\ lines[k + 1] \notin kinds
  <2>1. \A q \in 1 .. n : i < q /\ q < k + 1 + 1 <=> (i < q /\ q < k + 1) \/ q = k + 1
    OBVIOUS
  <2> QED BY <1>1, <2>1, Zenon DEF NoneBetween
<1>3. NoneBetween(lines, k + 1, k + 1 + 1, kinds)
  <2>1. \A q \in 1 .. n : ~(k + 1 < q /\ q < k + 1 + 1)
    OBVIOUS
  <2> QED BY <2>1, Zenon DEF NoneBetween
<1>4. NoneBetween(lines, 0, k + 1, kinds) <=> \A i \in 1 .. k : lines[i] \notin kinds
  <2>1. \A q \in 1 .. n : 0 < q /\ q < k + 1 <=> q \in 1 .. k
    OBVIOUS
  <2>2. \A q \in 1 .. k : q \in 1 .. n
    OBVIOUS
  <2> QED BY <2>1, <2>2, Zenon DEF NoneBetween
<1> QED BY <1>2, <1>3, <1>4

(* The companions of a spec are the paths of the bullets between its first *)
(* Companions heading and the next heading, in order (companions.rs).      *)
LEMMA CompanionsAreDeclared ==
  ASSUME NEW lines \in Seq(CompanionLines)
  PROVE  ParseCompanions(lines) = CompanionsDeclared(lines)
<1> DEFINE n == Len(lines)
           H == "## Companions"
           Seen(k) == \E i \in 1 .. k : lines[i] = H
           In(k) == \E i \in 1 .. k : /\ lines[i] = H /\ NoneBetween(lines, 0, i, {H})
                                      /\ NoneBetween(lines, i, k + 1, Headings)
           D == {j \in Positions(lines) : DeclaredAt(lines, j)}
           val == [j \in D |-> PathIn(lines[j])]
<1>1. n \in Nat /\ DOMAIN lines = 1 .. n /\ Positions(lines) = 1 .. n
  BY DEF Positions
<1> HIDE DEF n
<1>2. PICK g : /\ g[0] = [at |-> "before", paths |-> <<>>] /\ ParseCompanions(lines) = g[n].paths
               /\ \A k \in 0 .. n - 1 : g[k + 1] = CompanionStep(g[k], lines[k + 1])
  BY <1>1, CompanionFold
<1>3. ASSUME NEW k \in 0 .. n - 1
      PROVE  /\ Seen(k + 1) <=> Seen(k) \/ lines[k + 1] = H
             /\ In(k) => Seen(k)
             /\ In(k + 1) <=> \/ ~Seen(k) /\ lines[k + 1] = H
                              \/ In(k) /\ lines[k + 1] \notin Headings
             /\ k + 1 \in D <=> In(k) /\ lines[k + 1] \in Items
  <2>1. k \in Nat /\ k + 1 \in 1 .. n /\ \A i \in 1 .. k + 1 : i = k + 1 \/ i \in 1 .. k
    BY <1>1
  <2>0. \A kinds : /\ \A i \in 0 .. k : NoneBetween(lines, i, k + 1 + 1, kinds) <=>
                                        NoneBetween(lines, i, k + 1, kinds) /\ lines[k + 1] \notin kinds
                   /\ NoneBetween(lines, k + 1, k + 1 + 1, kinds)
                   /\ NoneBetween(lines, 0, k + 1, kinds) <=> \A i \in 1 .. k : lines[i] \notin kinds
    BY <1>1, BetweenSteps
  <2>2. k + 1 \in 1 .. k + 1 /\ \A i \in 1 .. k : i \in 1 .. k + 1
    OBVIOUS
  <2>3. Seen(k + 1) <=> Seen(k) \/ lines[k + 1] = H
    BY <2>1, <2>2
  <2>4. k + 1 \in D <=> In(k) /\ lines[k + 1] \in Items
    <3>1. (k + 1) - 1 = k
      OBVIOUS
    <3> QED BY <1>1, <2>1, <3>1 DEF DeclaredAt
  <2>5. ASSUME ~Seen(k), lines[k + 1] = H PROVE In(k + 1)
    <3>1. NoneBetween(lines, 0, k + 1, {H})
      BY <2>0, <2>5
    <3>2. NoneBetween(lines, k + 1, k + 1 + 1, Headings)
      BY <2>0
    <3> QED BY <2>2, <2>5, <3>1, <3>2
  <2>6. ASSUME In(k), lines[k + 1] \notin Headings PROVE In(k + 1)
    <3>1. PICK i \in 1 .. k : /\ lines[i] = H /\ NoneBetween(lines, 0, i, {H})
                              /\ NoneBetween(lines, i, k + 1, Headings)
      BY <2>6
    <3>2. NoneBetween(lines, i, k + 1 + 1, Headings)
      <4>1. i \in 0 .. k
        OBVIOUS
      <4> QED BY <2>0, <2>6, <3>1, <4>1
    <3> QED BY <2>2, <3>1, <3>2
  <2>7. ASSUME In(k + 1) PROVE \/ ~Seen(k) /\ lines[k + 1] = H
                               \/ In(k) /\ lines[k + 1] \notin Headings
    <3>1. PICK i \in 1 .. k + 1 : /\ lines[i] = H /\ NoneBetween(lines, 0, i, {H})
                                  /\ NoneBetween(lines, i, k + 1 + 1, Headings)
      BY <2>7
    <3>2. CASE i = k + 1
      BY <2>0, <3>1, <3>2
    <3>3. CASE i \in 1 .. k
      <4>1. NoneBetween(lines, i, k + 1, Headings) /\ lines[k + 1] \notin Headings
        <5>1. i \in 0 .. k
          BY <3>3
        <5> QED BY <2>0, <3>1, <5>1
      <4> QED BY <3>1, <3>3, <4>1
    <3> QED BY <2>1, <3>2, <3>3
  <2> QED BY <2>3, <2>4, <2>5, <2>6, <2>7
<1>4. ~Seen(0) /\ ~In(0)
  OBVIOUS
<1> HIDE DEF In, D
<1> DEFINE Where(k) == /\ g[k] = [at |-> g[k].at, paths |-> g[k].paths]
                       /\ g[k].at = IF In(k) THEN "inside" ELSE IF Seen(k) THEN "after" ELSE "before"
<1> HIDE DEF Seen
<1>5. \A k \in 0 .. n : Where(k)
  <2> DEFINE T == {k \in 0 .. n : Where(k)}
  <2>1. 0 \in T
    BY <1>1, <1>2, <1>4
  <2>2. ASSUME NEW k \in 0 .. n - 1, k \in T PROVE k + 1 \in T
    <3>1. g[k + 1] = CompanionStep(g[k], lines[k + 1]) /\ Where(k) /\ k + 1 \in 0 .. n
      BY <1>1, <1>2, <2>2
    <3>2. CASE In(k)
      BY <1>3, <3>1, <3>2 DEF CompanionStep, Headings, Items
    <3>3. CASE ~In(k) /\ Seen(k)
      BY <1>3, <3>1, <3>3 DEF CompanionStep
    <3>4. CASE ~In(k) /\ ~Seen(k)
      BY <1>3, <3>1, <3>4 DEF CompanionStep
    <3> QED BY <3>2, <3>3, <3>4
  <2> HIDE DEF T
  <2>3. \A k \in 0 .. n : k \in T
    BY <1>1, <2>1, <2>2, UpTo
  <2> QED BY <2>3 DEF T
<1> DEFINE p == [k \in 0 .. n |-> g[k].paths]
<1>6. p[0] = <<>> /\ p[n] = ParseCompanions(lines)
  BY <1>1, <1>2
<1>7. ASSUME NEW k \in 0 .. n - 1
      PROVE  p[k + 1] = IF k + 1 \in D THEN Append(p[k], val[k + 1]) ELSE p[k]
  <2>1. g[k + 1] = CompanionStep(g[k], lines[k + 1]) /\ Where(k) /\ Where(k + 1) /\ k \in 0 .. n /\ k + 1 \in 0 .. n
    BY <1>1, <1>2, <1>5
  <2>2. p[k] = g[k].paths /\ p[k + 1] = g[k + 1].paths
    BY <2>1
  <2>3. k + 1 \in D => val[k + 1] = PathIn(lines[k + 1])
    OBVIOUS
  <2>4. k + 1 \in D => g[k].at = "inside" /\ lines[k + 1] \in Items /\ lines[k + 1] \notin Headings
    BY <1>3, <2>1 DEF Items, Headings
  <2>5. k + 1 \notin D => ~(g[k].at = "inside" /\ lines[k + 1] \in Items)
    BY <1>3, <2>1
  <2> HIDE DEF p, Where, val
  <2>6. CASE k + 1 \in D
    BY <2>1, <2>2, <2>3, <2>4, <2>6 DEF CompanionStep, Where
  <2>7. CASE k + 1 \notin D
    BY <2>1, <2>2, <2>5, <2>7 DEF CompanionStep, Where
  <2> QED BY <2>6, <2>7
<1>8. D \subseteq 1 .. n
  BY <1>1 DEF D
<1> HIDE DEF p, val
<1>9. p[n] = InOrder(D, val)
  <2>1. Appends(n, D, val, p)
    BY <1>6, <1>7, Zenon DEF Appends
  <2> QED BY <1>1, <1>8, <2>1, AppendedInOrder
<1>10. ASSUME NEW r \in 1 .. Cardinality(D)
       PROVE  val[CHOOSE j \in D : Rank(D, j) = r] =
                LET j == CHOOSE j \in Positions(lines) :
                           /\ DeclaredAt(lines, j)
                           /\ Cardinality({i \in 1 .. j : DeclaredAt(lines, i)}) = r
                IN PathIn(lines[j])
  <2> DEFINE x == CHOOSE j \in D : Rank(D, j) = r
             y == CHOOSE j \in Positions(lines) : /\ DeclaredAt(lines, j)
                                                  /\ Cardinality({i \in 1 .. j : DeclaredAt(lines, i)}) = r
  <2>1. x \in D /\ Rank(D, x) = r /\ \A j \in D : Rank(D, j) = r => j = x
    BY <1>1, <1>8, RankIs
  <2>2. ASSUME NEW j \in D PROVE Cardinality({i \in 1 .. j : DeclaredAt(lines, i)}) = Rank(D, j)
    <3>1. {i \in 1 .. j : DeclaredAt(lines, i)} = {i \in D : i <= j}
      BY <1>1, <1>8 DEF D
    <3> QED BY <3>1 DEF Rank
  <2> HIDE DEF x
  <2>3. x \in Positions(lines) /\ DeclaredAt(lines, x)
    BY <2>1 DEF D
  <2>4. y \in Positions(lines) /\ DeclaredAt(lines, y) /\ Cardinality({i \in 1 .. y : DeclaredAt(lines, i)}) = r
    <3>1. Cardinality({i \in 1 .. x : DeclaredAt(lines, i)}) = r
      BY <2>1, <2>2
    <3> QED BY <2>3, <3>1, Zenon
  <2> HIDE DEF y
  <2>5. y = x
    BY <2>1, <2>2, <2>4 DEF D
  <2>6. val[x] = PathIn(lines[x])
    BY <2>1 DEF val
  <2> QED BY <2>5, <2>6, Zenon DEF x, y
<1> HIDE DEF D
<1>11. CompanionsDeclared(lines) =
         [r \in 1 .. Cardinality(D) |-> LET j == CHOOSE j \in Positions(lines) :
                           /\ DeclaredAt(lines, j)
                           /\ Cardinality({i \in 1 .. j : DeclaredAt(lines, i)}) = r
                IN PathIn(lines[j])]
  BY Zenon DEF CompanionsDeclared, D
<1> DEFINE read(r) == val[CHOOSE j \in D : Rank(D, j) = r]
           declared(r) == LET j == CHOOSE j \in Positions(lines) :
                                     /\ DeclaredAt(lines, j)
                                     /\ Cardinality({i \in 1 .. j : DeclaredAt(lines, i)}) = r
                          IN PathIn(lines[j])
<1>12. /\ p[n] = [r \in 1 .. Cardinality(D) |-> read(r)]
       /\ CompanionsDeclared(lines) = [r \in 1 .. Cardinality(D) |-> declared(r)]
       /\ \A r \in 1 .. Cardinality(D) : read(r) = declared(r)
  BY <1>9, <1>10, <1>11, Zenon DEF InOrder
<1> HIDE DEF read, declared
<1> QED BY <1>6, <1>12

(* parse_options is the loop over the lines (options.rs).                  *)
Entry == [n : 0 .. 2, body : Seq(OptionLines)]
OptionStates == [inside : BOOLEAN, current : Entry, options : Seq(Entry)]
OptionsAtFirst == [inside |-> FALSE, current |-> NoEntry, options |-> <<>>]

(* The text kept of an option is made of its lines (options.rs).           *)
LEMMA JoinBodyType ==
  ASSUME NEW body \in Seq(OptionLines)
  PROVE  JoinBody(body) \in Seq(OptionLines)
<1>1. CASE Written(body) = {}
  BY <1>1 DEF JoinBody
<1>2. CASE Written(body) # {}
  <2> DEFINE n == Len(body)
             W == Written(body)
  <2>1. n \in Nat /\ W \subseteq 1 .. n /\ DOMAIN body = 1 .. n
    BY DEF Written
  <2>2. W \subseteq Nat /\ W \subseteq 0 .. n
    BY <2>1
  <2> HIDE DEF W
  <2>3. Min(W) \in W /\ Max(W) \in W
    BY <1>2, <2>1, <2>2, MinIs, MaxIs DEF W
  <2>4. Min(W) \in 1 .. n /\ Max(W) \in 1 .. n
    BY <2>1, <2>3
  <2>5. SubSeq(body, Min(W), Max(W)) \in Seq(OptionLines)
    BY <2>4
  <2> QED BY <1>2, <2>5 DEF JoinBody, W
<1> QED BY <1>1, <1>2

(* The option under way joins those found.                                 *)
LEMMA ClosedIs ==
  ASSUME NEW x \in OptionStates
  PROVE  /\ Closed(x) \in Seq(Entry)
         /\ x.current # NoEntry =>
              Closed(x) = Append(x.options, [n |-> x.current.n, body |-> JoinBody(x.current.body)])
<1>1. x.current = [n |-> x.current.n, body |-> x.current.body] /\ x.current.n \in 0 .. 2
      /\ x.current.body \in Seq(OptionLines) /\ x.options \in Seq(Entry)
  BY DEF OptionStates, Entry
<1>2. [x.current EXCEPT !.body = JoinBody(@)] = [n |-> x.current.n, body |-> JoinBody(x.current.body)]
  BY <1>1
<1>3. [n |-> x.current.n, body |-> JoinBody(x.current.body)] \in Entry
  BY <1>1, JoinBodyType DEF Entry
<1> QED BY <1>1, <1>2, <1>3 DEF Closed

(* What one line does to the options read so far (parse_options).          *)
LEMMA OptionStepType ==
  ASSUME NEW x \in OptionStates, NEW line \in OptionLines
  PROVE  /\ OptionStep(x, line) \in OptionStates
         /\ ~x.inside => OptionStep(x, line) = [inside |-> line = "## Options", current |-> x.current,
                                                options |-> x.options]
         /\ x.inside /\ line \in OptionHeadings =>
              OptionStep(x, line) = [inside |-> TRUE, current |-> [n |-> NumberOf(line), body |-> <<>>],
                                     options |-> Closed(x)]
         /\ x.inside /\ line \in SectionHeadings =>
              OptionStep(x, line) = [inside |-> FALSE, current |-> NoEntry, options |-> Closed(x)]
         /\ x.inside /\ line \notin OptionHeadings \cup SectionHeadings =>
              OptionStep(x, line) =
                [inside |-> TRUE, options |-> x.options,
                 current |-> IF x.current = NoEntry THEN NoEntry
                             ELSE [n |-> x.current.n, body |-> Append(x.current.body, line)]]
<1>1. /\ x = [inside |-> x.inside, current |-> x.current, options |-> x.options]
      /\ x.inside \in BOOLEAN /\ x.current \in Entry /\ x.options \in Seq(Entry)
  BY DEF OptionStates
<1>2. x.current = [n |-> x.current.n, body |-> x.current.body] /\ x.current.n \in 0 .. 2
      /\ x.current.body \in Seq(OptionLines)
  BY <1>1 DEF Entry
<1>3. CASE ~x.inside
  <2>1. OptionStep(x, line) = [x EXCEPT !.inside = line = "## Options"]
    BY <1>3 DEF OptionStep
  <2>2. OptionStep(x, line) = [inside |-> line = "## Options", current |-> x.current, options |-> x.options]
    BY <1>1, <2>1
  <2> DEFINE b == line = "## Options"
  <2>3. b \in BOOLEAN /\ OptionStep(x, line) = [inside |-> b, current |-> x.current, options |-> x.options]
    BY <2>2
  <2>4. OptionStep(x, line) \in OptionStates
    <3> HIDE DEF b
    <3> QED BY <1>1, <2>3 DEF OptionStates
  <2> QED BY <1>3, <2>2, <2>4
<1>4. CASE x.inside /\ line \in OptionHeadings
  <2>1. OptionStep(x, line) = [x EXCEPT !.options = Closed(x), !.current = [n |-> NumberOf(line), body |-> <<>>]]
    BY <1>4 DEF OptionStep, OptionHeadings, SectionHeadings
  <2>2. OptionStep(x, line) = [inside |-> TRUE, current |-> [n |-> NumberOf(line), body |-> <<>>],
                               options |-> Closed(x)]
    BY <1>1, <1>4, <2>1
  <2>3. [n |-> NumberOf(line), body |-> <<>>] \in Entry
    BY DEF Entry, NumberOf
  <2>4. line \notin SectionHeadings
    BY <1>4 DEF OptionHeadings, SectionHeadings
  <2>5. OptionStep(x, line) \in OptionStates
    <3>1. Closed(x) \in Seq(Entry)
      BY ClosedIs
    <3> QED BY <2>2, <2>3, <3>1 DEF OptionStates
  <2> QED BY <1>4, <2>2, <2>4, <2>5
<1>5. CASE x.inside /\ line \in SectionHeadings
  <2>1. OptionStep(x, line) = [x EXCEPT !.options = Closed(x), !.current = NoEntry, !.inside = FALSE]
    BY <1>5 DEF OptionStep, OptionHeadings, SectionHeadings
  <2>2. OptionStep(x, line) = [inside |-> FALSE, current |-> NoEntry, options |-> Closed(x)]
    BY <1>1, <1>5, <2>1
  <2>3. NoEntry \in Entry
    BY DEF Entry, NoEntry
  <2>4. line \notin OptionHeadings
    BY <1>5 DEF OptionHeadings, SectionHeadings
  <2>5. OptionStep(x, line) \in OptionStates
    <3>1. Closed(x) \in Seq(Entry)
      BY ClosedIs
    <3> QED BY <2>2, <2>3, <3>1 DEF OptionStates
  <2> QED BY <1>5, <2>2, <2>4, <2>5
<1>6. CASE x.inside /\ line \notin OptionHeadings \cup SectionHeadings
  <2> DEFINE cur == IF x.current = NoEntry THEN NoEntry
                    ELSE [n |-> x.current.n, body |-> Append(x.current.body, line)]
  <2>1. OptionStep(x, line) = IF x.current = NoEntry THEN x
                              ELSE [x EXCEPT !.current.body = Append(@, line)]
    BY <1>6 DEF OptionStep
  <2>2. CASE x.current = NoEntry
    <3>1. OptionStep(x, line) = [inside |-> TRUE, options |-> x.options, current |-> cur]
      BY <1>1, <1>6, <2>1, <2>2
    <3>2. OptionStep(x, line) \in OptionStates
      BY <2>1, <2>2
    <3> QED BY <1>6, <3>1, <3>2
  <2>3. CASE x.current # NoEntry
    <3>1. OptionStep(x, line) = [inside |-> TRUE, options |-> x.options, current |-> cur]
      BY <1>1, <1>2, <1>6, <2>1, <2>3
    <3>2. cur \in Entry
      BY <1>2, <2>3 DEF Entry
    <3> HIDE DEF cur
    <3>3. OptionStep(x, line) \in OptionStates
      BY <1>1, <3>1, <3>2 DEF OptionStates
    <3> QED BY <1>6, <3>1, <3>3 DEF cur
  <2> QED BY <2>2, <2>3
<1> QED BY <1>1, <1>3, <1>4, <1>5, <1>6

(* The states that parse_options goes through, one for every line read.    *)
LEMMA OptionFold ==
  ASSUME NEW lines \in Seq(OptionLines), NEW n \in Nat, DOMAIN lines = 1 .. n
  PROVE  \E g : /\ g[0] = OptionsAtFirst /\ ParseOptions(lines) = Closed(g[n])
                /\ \A k \in 0 .. n : g[k] \in OptionStates
                /\ \A k \in 0 .. n - 1 : g[k + 1] = OptionStep(g[k], lines[k + 1])
<1> DEFINE S == OptionStates
           base == OptionsAtFirst
           step == [i \in 1 .. n |-> [x \in S |-> OptionStep(x, lines[i])]]
           iter == CHOOSE f : f = [D \in SUBSET (DOMAIN lines) |->
                                     IF D = {} THEN base
                                     ELSE OptionStep(f[D \ {Max(D)}], lines[Max(D)])]
<1>0. ASSUME NEW i \in 1 .. n, NEW x \in S PROVE OptionStep(x, lines[i]) \in S
  <2>1. lines[i] \in OptionLines
    OBVIOUS
  <2> QED BY <2>1, OptionStepType
<1>1. step \in [1 .. n -> [S -> S]]
  <2> HIDE DEF S
  <2> QED BY <1>0
<1>2. base \in S
  BY DEF OptionStates, OptionsAtFirst, Entry, NoEntry
<1> HIDE DEF S, base
<1>4. PICK f \in [SUBSET (1 .. n) -> S] : Folds(f, step, base, n)
  <2> HIDE DEF step
  <2> QED BY <1>1, <1>2, FoldsExist
<1>5. ASSUME NEW D \in SUBSET (1 .. n), D # {} PROVE Max(D) \in 1 .. n /\ f[D \ {Max(D)}] \in S
  <2>1. Max(D) \in D
    <3>1. D \subseteq 0 .. n
      OBVIOUS
    <3> QED BY <1>5, <3>1, MaxIs
  <2> QED BY <2>1
<1>6. f = [D \in SUBSET (DOMAIN lines) |-> IF D = {} THEN base
                                           ELSE OptionStep(f[D \ {Max(D)}], lines[Max(D)])]
  <2>1. ASSUME NEW D \in SUBSET (1 .. n), D # {}
        PROVE  step[Max(D)][f[D \ {Max(D)}]] = OptionStep(f[D \ {Max(D)}], lines[Max(D)])
    BY <1>5, <2>1
  <2>2. f = [D \in SUBSET (1 .. n) |-> IF D = {} THEN base ELSE step[Max(D)][f[D \ {Max(D)}]]]
    BY <1>4, Zenon DEF Folds
  <2> HIDE DEF step
  <2> QED BY <2>1, <2>2
<1>7. iter = [D \in SUBSET (DOMAIN lines) |-> IF D = {} THEN base
                                              ELSE OptionStep(iter[D \ {Max(D)}], lines[Max(D)])]
  BY <1>6, Zenon
<1>8. ParseOptions(lines) = Closed(iter[DOMAIN lines])
  BY Zenon DEF ParseOptions, FoldLeft, MapThenFoldSet, base, OptionsAtFirst
<1> DEFINE g == [k \in 0 .. n |-> iter[1 .. k]]
<1> HIDE DEF iter
<1>9. g[0] = base /\ g[n] = iter[1 .. n] /\ \A k \in 0 .. n - 1 : g[k] = iter[1 .. k] /\ g[k + 1] = iter[1 .. k + 1]
  <2>1. iter[{}] = base
    BY <1>7
  <2> QED BY <2>1, FirstPositions
<1>10. ASSUME NEW k \in 0 .. n - 1 PROVE g[k + 1] = OptionStep(g[k], lines[k + 1])
  <2>1. iter[1 .. k + 1] = OptionStep(iter[(1 .. k + 1) \ {Max(1 .. k + 1)}], lines[Max(1 .. k + 1)])
    BY <1>7, FirstPositions
  <2>2. Max(1 .. k + 1) = k + 1 /\ (1 .. k + 1) \ {k + 1} = 1 .. k
    BY FirstPositions
  <2>3. g[k] = iter[1 .. k] /\ g[k + 1] = iter[1 .. k + 1]
    BY <1>9
  <2> HIDE DEF g
  <2> QED BY <2>1, <2>2, <2>3, Zenon
<1> HIDE DEF g
<1>11. \A k \in 0 .. n : g[k] \in S
  <2> DEFINE T == {k \in 0 .. n : g[k] \in S}
  <2>1. 0 \in T
    BY <1>2, <1>9
  <2>2. ASSUME NEW k \in 0 .. n - 1, k \in T PROVE k + 1 \in T
    <3>1. k + 1 \in 1 .. n /\ k + 1 \in 0 .. n
      OBVIOUS
    <3> QED BY <1>0, <1>10, <2>2, <3>1
  <2> HIDE DEF T
  <2>3. \A k \in 0 .. n : k \in T
    BY <2>1, <2>2, UpTo
  <2> QED BY <2>3 DEF T
<1> QED BY <1>8, <1>9, <1>10, <1>11 DEF base, S

(* A later option does not hide an earlier one with its number.            *)
LEMMA ResolveAppend ==
  ASSUME NEW opts \in Seq(Entry), NEW o \in Entry, NEW c \in {1, 2}
  PROVE  /\ ResolveOption(<<>>, c) = Missing
         /\ ResolveOption(opts, c) = Missing \/ ResolveOption(opts, c).n = c
         /\ ResolveOption(Append(opts, o), c) =
              IF ResolveOption(opts, c) # Missing THEN ResolveOption(opts, c)
              ELSE IF o.n = c THEN o ELSE Missing
<1> DEFINE n == Len(opts)
           hits(s) == {i \in DOMAIN s : s[i].n = c}
           more == Append(opts, o)
<1>1. /\ n \in Nat /\ DOMAIN opts = 1 .. n /\ DOMAIN more = 1 .. n + 1
      /\ more[n + 1] = o /\ \A i \in 1 .. n : more[i] = opts[i]
  OBVIOUS
<1>2. \A s : ResolveOption(s, c) = IF hits(s) = {} THEN Missing ELSE s[Min(hits(s))]
  BY Zenon DEF ResolveOption
<1>3. ResolveOption(<<>>, c) = Missing
  <2>1. hits(<<>>) = {}
    OBVIOUS
  <2> QED BY <1>2, <2>1
<1>4. hits(opts) \subseteq 1 .. n /\ hits(opts) \subseteq Nat /\ \A i \in hits(opts) : opts[i].n = c
  BY <1>1
<1>5. \A i \in hits(more) : (i = n + 1 /\ o.n = c) \/ i \in hits(opts)
  <2>1. \A i \in 1 .. n + 1 : i = n + 1 \/ i \in 1 .. n
    BY <1>1
  <2> QED BY <1>1, <2>1
<1>6. hits(opts) \subseteq hits(more) /\ (o.n = c => n + 1 \in hits(more))
  <2>1. \A i \in 1 .. n : i \in 1 .. n + 1
    BY <1>1
  <2>2. n + 1 \in 1 .. n + 1
    BY <1>1
  <2> QED BY <1>1, <2>1, <2>2
<1>7. hits(more) \subseteq Nat
  BY <1>1
<1>8. Missing.n # c
  BY DEF Missing
<1> HIDE DEF hits, n, more
<1>9. CASE hits(opts) # {}
  <2>1. Min(hits(opts)) \in hits(opts) /\ \A i \in hits(opts) : Min(hits(opts)) <= i
    BY <1>4, <1>9, MinIs
  <2> DEFINE a == Min(hits(opts))
  <2>2. a \in hits(more) /\ \A i \in hits(more) : a <= i
    <3>1. a \in 1 .. n
      BY <1>4, <2>1
    <3> HIDE DEF a
    <3>2. a <= n + 1
      BY <1>1, <3>1
    <3> QED BY <1>5, <1>6, <2>1, <3>2 DEF a
  <2>3. a = Min(hits(more))
    <3>1. hits(more) # {}
      BY <2>2
    <3> HIDE DEF a
    <3> QED BY <1>7, <2>2, <3>1, MinIs
  <2>4. opts[a].n = c /\ more[a] = opts[a]
    BY <1>1, <1>4, <2>1
  <2>5. ResolveOption(opts, c) = opts[a] /\ ResolveOption(more, c) = more[a]
    <3>1. hits(more) # {}
      BY <2>2
    <3> QED BY <1>2, <1>9, <2>3, <3>1
  <2> QED BY <1>3, <1>8, <2>4, <2>5 DEF more
<1>10. CASE hits(opts) = {}
  <2>1. ResolveOption(opts, c) = Missing
    BY <1>2, <1>10
  <2>2. CASE o.n = c
    <3>1. hits(more) = {n + 1}
      BY <1>5, <1>6, <1>10, <2>2
    <3>2. Min(hits(more)) \in hits(more)
      BY <1>7, <3>1, MinIs
    <3>3. ResolveOption(more, c) = o
      BY <1>1, <1>2, <3>1, <3>2
    <3> QED BY <1>3, <2>1, <2>2, <3>3 DEF more
  <2>3. CASE o.n # c
    <3>1. hits(more) = {}
      BY <1>5, <1>10, <2>3
    <3> QED BY <1>2, <1>3, <2>1, <2>3, <3>1 DEF more
  <2> QED BY <2>2, <2>3
<1> QED BY <1>9, <1>10

(* What is kept of an option's lines.                                      *)
OwnLines(lines, j, k) == {q \in j + 1 .. k : lines[q] = "text"}

(* An option keeps its text from the first written line to the last.       *)
LEMMA JoinedLines ==
  ASSUME NEW lines \in Seq(OptionLines), NEW j \in 1 .. Len(lines), NEW k \in j .. Len(lines),
         \A q \in j + 1 .. k : lines[q] \in {"blank", "text"}
  PROVE  JoinBody(SubSeq(lines, j + 1, k)) =
           IF OwnLines(lines, j, k) = {} THEN <<>>
           ELSE SubSeq(lines, Min(OwnLines(lines, j, k)), Max(OwnLines(lines, j, k)))
<1> DEFINE n == Len(lines)
           body == SubSeq(lines, j + 1, k)
           W == Written(body)
           own == OwnLines(lines, j, k)
<1>1. n \in Nat /\ DOMAIN lines = 1 .. n
  OBVIOUS
<1>2. body \in Seq(OptionLines) /\ Len(body) = k - j /\ DOMAIN body = 1 .. k - j
      /\ \A i \in 1 .. k - j : body[i] = lines[j + i]
  OBVIOUS
<1> HIDE DEF body
<1>3. \A i \in W : i \in 1 .. k - j /\ j + i \in own
  <2>1. \A i \in 1 .. k - j : j + i \in j + 1 .. k
    OBVIOUS
  <2> QED BY <1>2, <2>1 DEF Written, OwnLines
<1>4. \A q \in own : q \in j + 1 .. k /\ q - j \in W /\ j + (q - j) = q
  <2>1. \A q \in j + 1 .. k : q - j \in 1 .. k - j /\ j + (q - j) = q
    OBVIOUS
  <2>2. "text" # "blank"
    OBVIOUS
  <2> QED BY <1>2, <2>1, <2>2 DEF Written, OwnLines
<1> HIDE DEF W, own
<1>5. CASE own = {}
  <2>1. W = {}
    BY <1>3, <1>5
  <2> QED BY <1>5, <2>1 DEF JoinBody, W, own, body
<1>6. CASE own # {}
  <2>1. W # {} /\ W \subseteq Nat /\ W \subseteq 0 .. k - j /\ k - j \in Nat
        /\ own \subseteq Nat /\ own \subseteq 0 .. k /\ k \in Nat
    BY <1>3, <1>4, <1>6
  <2> DEFINE a == Min(W)
             b == Max(W)
  <2>2. a \in W /\ b \in W /\ \A i \in W : a <= i /\ i <= b
    BY <2>1, MinIs, MaxIs
  <2> HIDE DEF a, b
  <2>3. a \in 1 .. k - j /\ b \in 1 .. k - j /\ j + a \in own /\ j + b \in own
    BY <1>3, <2>2
  <2>4. \A q \in own : j + a <= q /\ q <= j + b
    <3>1. ASSUME NEW q \in own PROVE j + a <= q /\ q <= j + b
      <4>1. a <= q - j /\ q - j <= b /\ q \in Nat
        BY <1>4, <2>1, <2>2
      <4> QED BY <2>3, <4>1
    <3> QED BY <3>1
  <2>5. j + a = Min(own) /\ j + b = Max(own)
    BY <1>6, <2>1, <2>3, <2>4, MinIs, MaxIs
  <2>6. SubSeq(body, a, b) = SubSeq(lines, j + a, j + b)
    <3> DEFINE s == SubSeq(body, a, b)
               t == SubSeq(lines, j + a, j + b)
    <3>1. CASE a <= b
      <4>1. s \in Seq(OptionLines) /\ Len(s) = b - a + 1 /\ \A i \in 1 .. b - a + 1 : s[i] = body[a + i - 1]
        BY <1>2, <2>3, <3>1
      <4>2. t \in Seq(OptionLines) /\ Len(t) = b - a + 1 /\ \A i \in 1 .. b - a + 1 : t[i] = lines[j + a + i - 1]
        BY <1>1, <2>3, <3>1
      <4>3. \A i \in 1 .. b - a + 1 : a + i - 1 \in 1 .. k - j /\ j + (a + i - 1) = j + a + i - 1
        BY <2>3, <3>1
      <4> HIDE DEF s, t
      <4>4. \A i \in 1 .. b - a + 1 : s[i] = t[i]
        <5>1. ASSUME NEW i \in 1 .. b - a + 1 PROVE s[i] = t[i]
          <6>1. s[i] = body[a + i - 1] /\ t[i] = lines[j + a + i - 1]
            BY <4>1, <4>2
          <6>2. a + i - 1 \in 1 .. k - j /\ j + (a + i - 1) = j + a + i - 1
            BY <4>3
          <6>3. body[a + i - 1] = lines[j + (a + i - 1)]
            BY <1>2, <6>2
          <6> QED BY <6>1, <6>2, <6>3
        <5> QED BY <5>1
      <4> DEFINE m == b - a + 1
      <4>5. m \in Nat /\ Len(s) = m /\ Len(t) = m
        BY <2>3, <3>1, <4>1, <4>2
      <4>6. s = [i \in 1 .. Len(s) |-> s[i]] /\ t = [i \in 1 .. Len(t) |-> t[i]]
        BY <4>1, <4>2
      <4>7. \A i \in 1 .. m : s[i] = t[i]
        BY <4>4
      <4> HIDE DEF m
      <4>8. s = t
        BY <4>5, <4>6, <4>7
      <4> QED BY <4>8 DEF s, t
    <3>2. CASE ~(a <= b)
      BY <2>2, <3>2
    <3> QED BY <3>1, <3>2
  <2>7. JoinBody(body) = SubSeq(body, a, b)
    BY <2>1 DEF JoinBody, W, a, b
  <2> QED BY <1>6, <2>5, <2>6, <2>7 DEF own, body
<1> QED BY <1>5, <1>6

(* What is read of the options after k lines, of the option a human chose. *)
Bounds == OptionHeadings \cup SectionHeadings
InOptions(lines, k) ==
  \E i \in 1 .. k : lines[i] = "## Options" /\ NoneBetween(lines, i, k + 1, {"## other"})
Heads(lines, c) == {i \in Positions(lines) : OptionAt(lines, c, i)}
OptionsRead(lines, c, k, st) ==
  /\ st.inside <=> InOptions(lines, k)
  /\ ~st.inside => st.current = NoEntry
  /\ (\A i \in Heads(lines, c) : ~(i <= k)) => ResolveOption(st.options, c) = Missing /\ st.current.n # c
  /\ Heads(lines, c) # {} /\ Min(Heads(lines, c)) <= k =>
       IF NoneBetween(lines, Min(Heads(lines, c)), k + 1, Bounds)
       THEN /\ st.inside /\ ResolveOption(st.options, c) = Missing
            /\ st.current = [n |-> c, body |-> SubSeq(lines, Min(Heads(lines, c)) + 1, k)]
       ELSE ResolveOption(st.options, c) = OptionWritten(lines, c)

(* The block as it grows: its headings are those of the first option with  *)
(* a number, and a second Options heading breaks the contract.             *)
LEMMA OptionsBlock ==
  ASSUME NEW lines \in Seq(OptionLines), NEW n \in Nat, DOMAIN lines = 1 .. n,
         NEW c \in {1, 2}, KeepsContract(lines), NEW k \in 0 .. n - 1
  PROVE  /\ InOptions(lines, k + 1) <=>
              lines[k + 1] = "## Options" \/ (InOptions(lines, k) /\ lines[k + 1] # "## other")
         /\ InOptions(lines, k) => lines[k + 1] # "## Options"
         /\ k + 1 \in Heads(lines, c) <=>
              lines[k + 1] \in OptionHeadings /\ NumberOf(lines[k + 1]) = c /\ InOptions(lines, k)
<1>1. k \in Nat /\ k + 1 \in 1 .. n /\ \A i \in 1 .. k + 1 : i = k + 1 \/ i \in 1 .. k
  OBVIOUS
<1>2. k + 1 \in 1 .. k + 1 /\ \A i \in 1 .. k : i \in 1 .. k + 1 /\ i \in 0 .. k /\ i \in 1 .. n /\ i # k + 1
  OBVIOUS
<1>3. Positions(lines) = 1 .. n
  BY DEF Positions
<1>4. \A kinds : /\ \A i \in 0 .. k : NoneBetween(lines, i, k + 1 + 1, kinds) <=>
                                        NoneBetween(lines, i, k + 1, kinds) /\ lines[k + 1] \notin kinds
                 /\ NoneBetween(lines, k + 1, k + 1 + 1, kinds)
  BY <1>3, BetweenSteps
<1>5. InOptions(lines, k + 1) <=>
        lines[k + 1] = "## Options" \/ (InOptions(lines, k) /\ lines[k + 1] # "## other")
  <2>1. ASSUME lines[k + 1] = "## Options" PROVE InOptions(lines, k + 1)
    BY <1>2, <1>4, <2>1 DEF InOptions
  <2>2. ASSUME InOptions(lines, k), lines[k + 1] # "## other" PROVE InOptions(lines, k + 1)
    <3>1. PICK i \in 1 .. k : lines[i] = "## Options" /\ NoneBetween(lines, i, k + 1, {"## other"})
      BY <2>2 DEF InOptions
    <3>2. NoneBetween(lines, i, k + 1 + 1, {"## other"})
      BY <1>2, <1>4, <2>2, <3>1
    <3> QED BY <1>2, <3>1, <3>2 DEF InOptions
  <2>3. ASSUME InOptions(lines, k + 1), lines[k + 1] # "## Options"
        PROVE  InOptions(lines, k) /\ lines[k + 1] # "## other"
    <3>1. PICK i \in 1 .. k + 1 : lines[i] = "## Options" /\ NoneBetween(lines, i, k + 1 + 1, {"## other"})
      BY <2>3 DEF InOptions
    <3>2. i \in 1 .. k
      BY <1>1, <2>3, <3>1
    <3>3. NoneBetween(lines, i, k + 1, {"## other"}) /\ lines[k + 1] # "## other"
      BY <1>2, <1>4, <3>1, <3>2
    <3> QED BY <3>1, <3>2, <3>3 DEF InOptions
  <2> QED BY <2>1, <2>2, <2>3
<1>6. ASSUME InOptions(lines, k) PROVE lines[k + 1] # "## Options"
  <2> DEFINE D == {i \in Positions(lines) : lines[i] = "## Options"}
  <2>1. SUFFICES ASSUME lines[k + 1] = "## Options" PROVE FALSE
    OBVIOUS
  <2>2. PICK i \in 1 .. k : lines[i] = "## Options"
    BY <1>6 DEF InOptions
  <2>3. i \in D /\ k + 1 \in D /\ D \subseteq 1 .. n /\ i # k + 1
    BY <1>1, <1>2, <1>3, <2>1, <2>2
  <2>4. IsFiniteSet(1 .. n)
    BY FS_Interval
  <2>5. Cardinality(D) <= 1
    BY DEF KeepsContract
  <2> HIDE DEF D
  <2>6. IsFiniteSet(D) /\ Cardinality(D) \in Nat
    BY <2>3, <2>4, FS_Subset, FS_CardinalityType
  <2>7. IsFiniteSet({i}) /\ Cardinality({i}) = 1
    BY FS_Singleton
  <2>8. Cardinality({i} \cup {k + 1}) = 1 + 1
    BY <2>3, <2>7, FS_AddElement
  <2>9. Cardinality({i} \cup {k + 1}) <= Cardinality(D)
    <3>1. {i} \cup {k + 1} \subseteq D
      BY <2>3
    <3> QED BY <2>6, <3>1, FS_Subset
  <2>10. 1 + 1 <= Cardinality(D)
    BY <2>8, <2>9, Zenon
  <2> QED BY <2>5, <2>6, <2>10
<1>7. k + 1 \in Heads(lines, c) <=>
        lines[k + 1] \in OptionHeadings /\ NumberOf(lines[k + 1]) = c /\ InOptions(lines, k)
  <2>1. (k + 1) - 1 = k
    OBVIOUS
  <2> QED BY <1>1, <1>3, <2>1 DEF Heads, OptionAt, InOptions
<1> QED BY <1>5, <1>6, <1>7

(* At its end an option is read as it is written.                          *)
LEMMA OptionIsWritten ==
  ASSUME NEW lines \in Seq(OptionLines), NEW n \in Nat, DOMAIN lines = 1 .. n, NEW c \in {1, 2},
         Heads(lines, c) # {}, NEW k \in Min(Heads(lines, c)) .. n,
         NoneBetween(lines, Min(Heads(lines, c)), k + 1, Bounds), k # n => lines[k + 1] \in Bounds
  PROVE  /\ Min(Heads(lines, c)) \in Heads(lines, c) /\ Min(Heads(lines, c)) \in 1 .. n
         /\ [n |-> c, body |-> JoinBody(SubSeq(lines, Min(Heads(lines, c)) + 1, k))] = OptionWritten(lines, c)
<1> DEFINE j == Min(Heads(lines, c))
           own == {q \in Positions(lines) : /\ j < q /\ lines[q] = "text"
                                            /\ NoneBetween(lines, j, q, Bounds)}
<1>1. Positions(lines) = 1 .. n /\ Len(lines) = n /\ Heads(lines, c) \subseteq 1 .. n
  BY DEF Positions, Heads
<1>2. j \in Heads(lines, c)
  BY <1>1, MinIs
<1> HIDE DEF j
<1>3. j \in 1 .. n /\ j \in 1 .. Len(lines) /\ k \in j .. Len(lines) /\ k \in Nat
  BY <1>1, <1>2 DEF j
<1>4. NoneBetween(lines, j, k + 1, Bounds)
  BY DEF j
<1>5. \A q \in j + 1 .. k : lines[q] \in {"blank", "text"}
  <2>1. ASSUME NEW q \in j + 1 .. k PROVE lines[q] \in {"blank", "text"}
    <3>1. q \in 1 .. n /\ j < q /\ q < k + 1
      BY <1>1, <1>3
    <3>2. lines[q] \in OptionLines /\ lines[q] \notin Bounds
      BY <1>1, <1>4, <3>1 DEF NoneBetween
    <3> QED BY <3>2 DEF OptionLines, Bounds, OptionHeadings, SectionHeadings
  <2> QED BY <2>1
<1>6. own = OwnLines(lines, j, k)
  <2>1. ASSUME NEW q \in own PROVE q \in OwnLines(lines, j, k)
    <3>1. ~(k < q)
      <4>1. SUFFICES ASSUME k < q PROVE FALSE
        OBVIOUS
      <4>2. k + 1 \in 1 .. n /\ (k + 1 = q \/ k + 1 < q) /\ j < k + 1 /\ k # n
        BY <1>1, <1>3, <4>1
      <4>3. lines[k + 1] \in Bounds /\ "text" \notin Bounds
        BY <4>2 DEF Bounds, OptionHeadings, SectionHeadings
      <4> QED BY <1>1, <4>2, <4>3 DEF NoneBetween
    <3>2. q \in j + 1 .. k
      BY <1>1, <1>3, <3>1
    <3> QED BY <3>2 DEF OwnLines
  <2>2. ASSUME NEW q \in OwnLines(lines, j, k) PROVE q \in own
    <3>1. q \in j + 1 .. k /\ lines[q] = "text"
      BY DEF OwnLines
    <3>2. q \in 1 .. n /\ j < q /\ \A i \in 1 .. n : i < q => i < k + 1
      BY <1>1, <1>3, <3>1
    <3>3. NoneBetween(lines, j, q, Bounds)
      BY <1>1, <1>4, <3>2 DEF NoneBetween
    <3> QED BY <1>1, <3>1, <3>2, <3>3
  <2> QED BY <2>1, <2>2
<1>7. JoinBody(SubSeq(lines, j + 1, k)) = IF own = {} THEN <<>> ELSE SubSeq(lines, Min(own), Max(own))
  BY <1>3, <1>5, <1>6, JoinedLines
<1>8. OptionWritten(lines, c) = IF own = {} THEN [n |-> c, body |-> <<>>]
                                ELSE [n |-> c, body |-> SubSeq(lines, Min(own), Max(own))]
  <2>1. ~ \A i \in Positions(lines) : ~OptionAt(lines, c, i)
    BY <1>2 DEF Heads
  <2>2. {i \in Positions(lines) : OptionAt(lines, c, i)} = Heads(lines, c)
    BY DEF Heads
  <2>3. OptionWritten(lines, c) =
          LET m == Min(Heads(lines, c))
              o == {q \in Positions(lines) : /\ m < q /\ lines[q] = "text"
                                             /\ NoneBetween(lines, m, q, Bounds)}
          IN IF o = {} THEN [n |-> c, body |-> <<>>]
             ELSE [n |-> c, body |-> SubSeq(lines, Min(o), Max(o))]
    BY <2>1, <2>2, Zenon DEF OptionWritten, Bounds
  <2> QED BY <2>3, Zenon DEF j
<1> HIDE DEF own
<1> QED BY <1>2, <1>3, <1>7, <1>8 DEF j

(* One more line of the text is read.                                      *)
LEMMA OptionsReadOn ==
  ASSUME NEW lines \in Seq(OptionLines), NEW n \in Nat, DOMAIN lines = 1 .. n,
         NEW c \in {1, 2}, KeepsContract(lines), NEW k \in 0 .. n - 1,
         NEW st \in OptionStates, OptionsRead(lines, c, k, st)
  PROVE  OptionsRead(lines, c, k + 1, OptionStep(st, lines[k + 1]))
<1> DEFINE H == Heads(lines, c)
           line == lines[k + 1]
           next == OptionStep(st, line)
           R(opts) == ResolveOption(opts, c)
<1>1. /\ k \in Nat /\ k + 1 \in 1 .. n /\ line \in OptionLines /\ Positions(lines) = 1 .. n
      /\ H \subseteq 1 .. n /\ H \subseteq Nat
  BY DEF Positions, Heads
<1>2. /\ InOptions(lines, k + 1) <=> line = "## Options" \/ (InOptions(lines, k) /\ line # "## other")
      /\ InOptions(lines, k) => line # "## Options"
      /\ k + 1 \in H <=> line \in OptionHeadings /\ NumberOf(line) = c /\ InOptions(lines, k)
  BY OptionsBlock
<1>3. /\ ~st.inside => /\ next.inside <=> line = "## Options"
                       /\ next.current = st.current /\ next.options = st.options
      /\ st.inside /\ line \in OptionHeadings =>
           /\ next.inside /\ next.options = Closed(st)
           /\ next.current = [n |-> NumberOf(line), body |-> <<>>]
      /\ st.inside /\ line \in SectionHeadings =>
           ~next.inside /\ next.current = NoEntry /\ next.options = Closed(st)
      /\ st.inside /\ line \notin OptionHeadings \cup SectionHeadings =>
           /\ next.inside /\ next.options = st.options
           /\ st.current = NoEntry => next.current = NoEntry
           /\ st.current # NoEntry => next.current = [n |-> st.current.n, body |-> Append(st.current.body, line)]
  <2> HIDE DEF next, line
  <2>0. line \in OptionLines /\ next = OptionStep(st, line)
    BY <1>1 DEF next
  <2>1. CASE ~st.inside
    <3>1. next = [inside |-> line = "## Options", current |-> st.current, options |-> st.options]
      BY <2>0, <2>1, OptionStepType
    <3> QED BY <2>1, <3>1
  <2>2. CASE st.inside /\ line \in OptionHeadings
    <3>1. next = [inside |-> TRUE, current |-> [n |-> NumberOf(line), body |-> <<>>], options |-> Closed(st)]
      BY <2>0, <2>2, OptionStepType
    <3>2. line \notin SectionHeadings
      BY <2>2 DEF OptionHeadings, SectionHeadings
    <3> QED BY <2>2, <3>1, <3>2
  <2>3. CASE st.inside /\ line \in SectionHeadings
    <3>1. next = [inside |-> FALSE, current |-> NoEntry, options |-> Closed(st)]
      BY <2>0, <2>3, OptionStepType
    <3>2. line \notin OptionHeadings
      BY <2>3 DEF OptionHeadings, SectionHeadings
    <3> QED BY <2>3, <3>1, <3>2
  <2>4. CASE st.inside /\ line \notin OptionHeadings \cup SectionHeadings
    <3>1. next = [inside |-> TRUE, options |-> st.options,
                  current |-> IF st.current = NoEntry THEN NoEntry
                              ELSE [n |-> st.current.n, body |-> Append(st.current.body, line)]]
      BY <2>0, <2>4, OptionStepType
    <3> QED BY <2>4, <3>1
  <2> QED BY <2>1, <2>2, <2>3, <2>4
<1>4. /\ st.inside <=> InOptions(lines, k)
      /\ ~st.inside => st.current = NoEntry
      /\ (\A i \in H : ~(i <= k)) => R(st.options) = Missing /\ st.current.n # c
      /\ H # {} /\ Min(H) <= k =>
           IF NoneBetween(lines, Min(H), k + 1, Bounds)
           THEN /\ st.inside /\ R(st.options) = Missing
                /\ st.current = [n |-> c, body |-> SubSeq(lines, Min(H) + 1, k)]
           ELSE R(st.options) = OptionWritten(lines, c)
  BY DEF OptionsRead
<1>5. /\ st.current = [n |-> st.current.n, body |-> st.current.body] /\ st.current.n \in 0 .. 2
      /\ st.current.body \in Seq(OptionLines) /\ st.options \in Seq(Entry)
  BY DEF OptionStates, Entry
<1>6. /\ NoEntry.n # c /\ Missing.n # c
      /\ OptionHeadings \cap SectionHeadings = {} /\ Bounds = OptionHeadings \cup SectionHeadings
      /\ "## other" \in SectionHeadings /\ "## Options" \in SectionHeadings
      /\ \A l \in SectionHeadings : l = "## other" \/ l = "## Options"
  BY DEF NoEntry, Missing, OptionHeadings, SectionHeadings, Bounds
<1> DEFINE closed == [n |-> st.current.n, body |-> JoinBody(st.current.body)]
<1>7. /\ R(st.options) = Missing \/ R(st.options).n = c
      /\ st.current = NoEntry => Closed(st) = st.options
      /\ st.current # NoEntry => R(Closed(st)) = IF R(st.options) # Missing THEN R(st.options)
                                                 ELSE IF st.current.n = c THEN closed ELSE Missing
  <2>1. closed \in Entry
    BY <1>5, JoinBodyType DEF Entry
  <2>2. closed.n = st.current.n
    OBVIOUS
  <2> HIDE DEF closed
  <2>3. /\ R(st.options) = Missing \/ R(st.options).n = c
        /\ R(Append(st.options, closed)) = IF R(st.options) # Missing THEN R(st.options)
                                           ELSE IF closed.n = c THEN closed ELSE Missing
    BY <1>5, <2>1, ResolveAppend
  <2>4. st.current = NoEntry => Closed(st) = st.options
    BY DEF Closed
  <2>5. st.current # NoEntry => Closed(st) = Append(st.options, closed)
    BY ClosedIs DEF closed
  <2> QED BY <2>2, <2>3, <2>4, <2>5
<1>8. H # {} => Min(H) \in H /\ Min(H) \in 1 .. n /\ \A i \in H : Min(H) <= i
  BY <1>1, MinIs
<1>9. \A i \in 0 .. k : NoneBetween(lines, i, k + 1 + 1, Bounds) <=>
                          NoneBetween(lines, i, k + 1, Bounds) /\ line \notin Bounds
  BY <1>1, BetweenSteps
<1>10. NoneBetween(lines, k + 1, k + 1 + 1, Bounds)
  BY <1>1, BetweenSteps
<1>16. (st.inside <=> InOptions(lines, k)) /\ NoEntry.n # c
  BY <1>4, <1>6
<1>15. \A body : [n |-> c, body |-> body] # NoEntry
  BY DEF NoEntry
<1> HIDE DEF R, closed, next, line, H
<1>11. next.options = st.options \/ next.options = Closed(st)
  BY <1>3
<1>12. /\ next.inside <=> InOptions(lines, k + 1)
       /\ ~next.inside => next.current = NoEntry
  <2>1. CASE ~st.inside
    BY <1>2, <1>3, <1>4, <2>1
  <2>2. CASE st.inside /\ line \in OptionHeadings
    BY <1>2, <1>3, <1>4, <1>6, <2>2
  <2>3. CASE st.inside /\ line \in SectionHeadings
    BY <1>2, <1>3, <1>4, <1>6, <2>3
  <2>4. CASE st.inside /\ line \notin OptionHeadings \cup SectionHeadings
    BY <1>2, <1>3, <1>4, <1>6, <2>4
  <2> QED BY <2>1, <2>2, <2>3, <2>4
<1>13. ASSUME \A i \in H : ~(i <= k + 1)
       PROVE  R(next.options) = Missing /\ next.current.n # c
  <2>1. R(st.options) = Missing /\ st.current.n # c /\ k + 1 \notin H
    <3>1. \A i \in H : ~(i <= k)
      BY <1>1, <1>13
    <3>2. k + 1 \notin H
      BY <1>1, <1>13
    <3> QED BY <1>4, <3>1, <3>2
  <2>2. R(Closed(st)) = Missing
    BY <1>7, <2>1
  <2>3. R(next.options) = Missing
    BY <1>11, <2>1, <2>2
  <2>4. next.current.n # c
    <3>1. CASE ~st.inside
      BY <1>3, <2>1, <3>1
    <3>2. CASE st.inside /\ line \in OptionHeadings
      <4>1. next.current = [n |-> NumberOf(line), body |-> <<>>] /\ NumberOf(line) # c
        BY <1>2, <1>3, <1>16, <2>1, <3>2
      <4> QED BY <4>1
    <3>3. CASE st.inside /\ line \in SectionHeadings
      BY <1>3, <1>6, <3>3
    <3>4. CASE st.inside /\ line \notin OptionHeadings \cup SectionHeadings
      <4>1. CASE st.current = NoEntry
        BY <1>3, <1>16, <3>4, <4>1
      <4>2. CASE st.current # NoEntry
        <5>1. next.current = [n |-> st.current.n, body |-> Append(st.current.body, line)]
          BY <1>3, <3>4, <4>2
        <5> QED BY <2>1, <5>1
      <4> QED BY <4>1, <4>2
    <3> QED BY <3>1, <3>2, <3>3, <3>4
  <2> QED BY <2>3, <2>4
<1>14. ASSUME H # {}, Min(H) <= k + 1
       PROVE  IF NoneBetween(lines, Min(H), k + 1 + 1, Bounds)
              THEN /\ next.inside /\ R(next.options) = Missing
                   /\ next.current = [n |-> c, body |-> SubSeq(lines, Min(H) + 1, k + 1)]
              ELSE R(next.options) = OptionWritten(lines, c)
  <2> DEFINE m == Min(H)
  <2>0. m \in H /\ m \in 1 .. n /\ (\A i \in H : m <= i) /\ m <= k + 1
    BY <1>8, <1>14
  <2> HIDE DEF m
  <2>1. CASE m = k + 1
    <3>1. \A i \in H : ~(i <= k)
      BY <1>1, <2>0, <2>1
    <3>2. R(st.options) = Missing /\ st.current.n # c
      BY <1>4, <3>1
    <3>3. line \in OptionHeadings /\ NumberOf(line) = c /\ st.inside
      BY <1>2, <1>4, <2>0, <2>1
    <3>4. next.inside /\ next.current = [n |-> c, body |-> <<>>] /\ next.options = Closed(st)
      BY <1>3, <3>3
    <3>5. R(Closed(st)) = Missing
      BY <1>7, <3>2
    <3>6. SubSeq(lines, (k + 1) + 1, k + 1) = <<>>
      BY <1>1
    <3> QED BY <1>10, <2>1, <3>4, <3>5, <3>6 DEF m
  <2>2. CASE m <= k
    <3>0. m \in 0 .. k
      BY <1>1, <2>0, <2>2
    <3>1. CASE NoneBetween(lines, m, k + 1, Bounds) /\ line \notin Bounds
      <4>1. /\ st.inside /\ R(st.options) = Missing
            /\ st.current = [n |-> c, body |-> SubSeq(lines, m + 1, k)]
        BY <1>4, <1>14, <2>2, <3>1 DEF m
      <4>2. st.current # NoEntry
        BY <1>15, <4>1
      <4>3. /\ next.inside /\ next.options = st.options
            /\ next.current = [n |-> c, body |-> Append(SubSeq(lines, m + 1, k), line)]
        <5>1. line \notin OptionHeadings \cup SectionHeadings
          BY <1>6, <3>1
        <5>2. /\ next.inside /\ next.options = st.options
              /\ next.current = [n |-> st.current.n, body |-> Append(st.current.body, line)]
          BY <1>3, <4>1, <4>2, <5>1
        <5>3. st.current.n = c /\ st.current.body = SubSeq(lines, m + 1, k)
          <6>1. \A e, b : e = [n |-> c, body |-> b] => e.n = c /\ e.body = b
            OBVIOUS
          <6> QED BY <4>1, <6>1
        <5> QED BY <5>2, <5>3, Zenon
      <4>4. Append(SubSeq(lines, m + 1, k), line) = SubSeq(lines, m + 1, k + 1)
        BY <1>1, <2>0, <2>2 DEF line
      <4>5. NoneBetween(lines, m, k + 1 + 1, Bounds)
        BY <1>9, <3>0, <3>1
      <4> QED BY <4>1, <4>3, <4>4, <4>5 DEF m
    <3>2. CASE NoneBetween(lines, m, k + 1, Bounds) /\ line \in Bounds
      <4>1. /\ st.inside /\ R(st.options) = Missing
            /\ st.current = [n |-> c, body |-> SubSeq(lines, m + 1, k)]
        BY <1>4, <1>14, <2>2, <3>2 DEF m
      <4>2. st.current # NoEntry
        BY <1>15, <4>1
      <4>3. next.options = Closed(st)
        BY <1>3, <1>6, <3>2, <4>1
      <4>4. closed = OptionWritten(lines, c)
        <5>1. k \in m .. n /\ k # n
          BY <1>1, <2>0, <2>2
        <5>2. [n |-> c, body |-> JoinBody(SubSeq(lines, m + 1, k))] = OptionWritten(lines, c)
          BY <1>14, <3>2, <5>1, OptionIsWritten DEF m, H, line
        <5> QED BY <4>1, <5>2 DEF closed
      <4>5. ~NoneBetween(lines, m, k + 1 + 1, Bounds)
        BY <1>9, <3>0, <3>2
      <4> QED BY <1>7, <4>1, <4>2, <4>3, <4>4, <4>5 DEF m
    <3>3. CASE ~NoneBetween(lines, m, k + 1, Bounds)
      <4>1. R(st.options) = OptionWritten(lines, c)
        BY <1>4, <1>14, <2>2, <3>3 DEF m
      <4>2. R(st.options) # Missing
        <5>1. OptionWritten(lines, c).n = c
          <6>1. \E i \in Positions(lines) : OptionAt(lines, c, i)
            BY <2>0 DEF H, Heads
          <6> QED BY <6>1 DEF OptionWritten
        <5> QED BY <1>6, <4>1, <5>1
      <4>3. R(next.options) = R(st.options)
        BY <1>7, <1>11, <4>2
      <4>4. ~NoneBetween(lines, m, k + 1 + 1, Bounds)
        BY <1>9, <3>0, <3>3
      <4> QED BY <4>1, <4>3, <4>4 DEF m
    <3> QED BY <3>1, <3>2, <3>3
  <2>3. m = k + 1 \/ m <= k
    BY <1>1, <2>0
  <2> QED BY <2>1, <2>2, <2>3
<1> QED BY <1>12, <1>13, <1>14, Zenon DEF OptionsRead, R, next, line, H

(* The option chosen is the first with its number, in exactly its own text *)
(* (options.rs:1-17, reply.rs).                                            *)
LEMMA RepliesAreWritten ==
  ASSUME NEW lines \in Seq(OptionLines), NEW c \in {1, 2}, KeepsContract(lines)
  PROVE  ResolveOption(ParseOptions(lines), c) = OptionWritten(lines, c)
<1> DEFINE n == Len(lines)
           H == Heads(lines, c)
<1>1. n \in Nat /\ DOMAIN lines = 1 .. n /\ Positions(lines) = 1 .. n /\ H \subseteq 1 .. n /\ H \subseteq Nat
  BY DEF Positions, Heads
<1> HIDE DEF n
<1>2. PICK g : /\ g[0] = OptionsAtFirst /\ ParseOptions(lines) = Closed(g[n])
               /\ \A k \in 0 .. n : g[k] \in OptionStates
               /\ \A k \in 0 .. n - 1 : g[k + 1] = OptionStep(g[k], lines[k + 1])
  BY <1>1, OptionFold
<1> DEFINE T == {k \in 0 .. n : OptionsRead(lines, c, k, g[k])}
<1>3. 0 \in T
  <2>1. ~InOptions(lines, 0)
    BY DEF InOptions
  <2>2. H # {} => ~(Min(H) <= 0)
    <3>1. H # {} => Min(H) \in H
      BY <1>1, MinIs
    <3> QED BY <1>1, <3>1
  <2>3. ResolveOption(<<>>, c) = Missing
    <3>1. <<>> \in Seq(Entry) /\ [n |-> 1, body |-> <<>>] \in Entry
      BY DEF Entry
    <3> QED BY <3>1, ResolveAppend
  <2>4. g[0].inside = FALSE /\ g[0].current = NoEntry /\ g[0].options = <<>> /\ NoEntry.n # c
    BY <1>2 DEF OptionsAtFirst, NoEntry
  <2> HIDE DEF H
  <2>5. OptionsRead(lines, c, 0, g[0])
    BY <2>1, <2>2, <2>3, <2>4 DEF OptionsRead, H
  <2>6. 0 \in 0 .. n
    BY <1>1
  <2> QED BY <2>5, <2>6
<1>4. ASSUME NEW k \in 0 .. n - 1, k \in T PROVE k + 1 \in T
  <2>1. g[k] \in OptionStates /\ g[k + 1] = OptionStep(g[k], lines[k + 1]) /\ k + 1 \in 0 .. n
    BY <1>1, <1>2
  <2> QED BY <1>1, <1>4, <2>1, OptionsReadOn
<1> HIDE DEF T
<1>5. n \in T
  <2>1. n \in 0 .. n
    BY <1>1
  <2> QED BY <1>1, <1>3, <1>4, <2>1, UpTo
<1> DEFINE st == g[n]
<1>6. st \in OptionStates /\ OptionsRead(lines, c, n, st)
  BY <1>1, <1>2, <1>5 DEF T
<1> HIDE DEF st
<1>7. /\ st.current = [n |-> st.current.n, body |-> st.current.body] /\ st.current.n \in 0 .. 2
      /\ st.current.body \in Seq(OptionLines) /\ st.options \in Seq(Entry)
  BY <1>6 DEF OptionStates, Entry
<1> DEFINE closed == [n |-> st.current.n, body |-> JoinBody(st.current.body)]
           R(opts) == ResolveOption(opts, c)
<1>8. /\ st.current = NoEntry => Closed(st) = st.options
      /\ st.current # NoEntry => R(Closed(st)) = IF R(st.options) # Missing THEN R(st.options)
                                                 ELSE IF st.current.n = c THEN closed ELSE Missing
  <2>1. closed \in Entry
    BY <1>7, JoinBodyType DEF Entry
  <2>2. closed.n = st.current.n
    OBVIOUS
  <2> HIDE DEF closed
  <2>3. R(Append(st.options, closed)) = IF R(st.options) # Missing THEN R(st.options)
                                        ELSE IF closed.n = c THEN closed ELSE Missing
    BY <1>7, <2>1, ResolveAppend
  <2>4. st.current = NoEntry => Closed(st) = st.options
    BY DEF Closed
  <2>5. st.current # NoEntry => Closed(st) = Append(st.options, closed)
    BY <1>6, ClosedIs DEF closed
  <2> QED BY <2>2, <2>3, <2>4, <2>5
<1>9. NoEntry.n # c /\ Missing.n # c
  BY DEF NoEntry, Missing
<1> HIDE DEF closed, R
<1>10. R(Closed(st)) = OptionWritten(lines, c)
  <2>1. CASE H = {}
    <3>1. R(st.options) = Missing /\ st.current.n # c
      BY <1>6, <2>1 DEF OptionsRead, R
    <3>2. OptionWritten(lines, c) = Missing
      BY <2>1 DEF OptionWritten, Heads
    <3> QED BY <1>8, <3>1, <3>2
  <2>2. CASE H # {} /\ NoneBetween(lines, Min(H), n + 1, Bounds)
    <3>0. Min(H) \in H /\ Min(H) \in Nat /\ Min(H) <= n
      <4>1. Min(H) \in H
        BY <1>1, <2>2, MinIs
      <4> HIDE DEF H
      <4>2. Min(H) \in 1 .. n
        BY <1>1, <4>1
      <4> QED BY <1>1, <4>1, <4>2
    <3>1. R(st.options) = Missing /\ st.current = [n |-> c, body |-> SubSeq(lines, Min(H) + 1, n)]
      BY <1>6, <2>2, <3>0 DEF OptionsRead, R
    <3>2. st.current # NoEntry
      BY <1>9, <3>1
    <3>3. closed = OptionWritten(lines, c)
      <4>1. n \in Min(H) .. n
        BY <1>1, <3>0
      <4>2. [n |-> c, body |-> JoinBody(SubSeq(lines, Min(H) + 1, n))] = OptionWritten(lines, c)
        BY <1>1, <2>2, <4>1, OptionIsWritten
      <4> QED BY <3>1, <4>2 DEF closed
    <3> QED BY <1>8, <3>1, <3>2, <3>3
  <2>3. CASE H # {} /\ ~NoneBetween(lines, Min(H), n + 1, Bounds)
    <3>0. Min(H) <= n /\ \E i \in Positions(lines) : OptionAt(lines, c, i)
      <4>1. Min(H) \in H
        BY <1>1, <2>3, MinIs
      <4>2. \E i \in Positions(lines) : OptionAt(lines, c, i)
        BY <4>1 DEF Heads
      <4> HIDE DEF H
      <4>3. Min(H) \in 1 .. n
        BY <1>1, <4>1
      <4> QED BY <1>1, <4>2, <4>3
    <3>1. R(st.options) = OptionWritten(lines, c)
      BY <1>6, <2>3, <3>0 DEF OptionsRead, R
    <3>2. OptionWritten(lines, c).n = c
      BY <3>0 DEF OptionWritten
    <3> QED BY <1>8, <1>9, <3>1, <3>2
  <2> QED BY <2>1, <2>2, <2>3
<1> QED BY <1>2, <1>10 DEF R, st

(* parse_body is the loop over the lines (annotations.rs).                 *)
Boxed == [at : Nat, checked : BOOLEAN]
Rows == [at : Nat, checked : BOOLEAN, link : {"none"} \cup Links]
AnnotationStates == [n : Nat, fence : BOOLEAN, inside : BOOLEAN, over : BOOLEAN,
                     pending : Boxed, rows : Seq(Rows)]
Stops == Boxes \cup Links \cup {"## other"}
AnnotationsAtFirst == [n |-> 0, fence |-> FALSE, inside |-> FALSE, over |-> FALSE,
                       pending |-> NoBox, rows |-> <<>>]

(* The criterion under way joins the rows.                                 *)
LEMMA FlushedIs ==
  ASSUME NEW x \in AnnotationStates
  PROVE  /\ \A link \in {"none"} \cup Links : Row(x.pending, link) \in Rows
         /\ Flushed(x) = IF x.pending = NoBox THEN x.rows ELSE Append(x.rows, Row(x.pending, "none"))
         /\ Flushed(x) \in Seq(Rows)
<1>1. x.pending.at \in Nat /\ x.pending.checked \in BOOLEAN /\ x.rows \in Seq(Rows)
  BY DEF AnnotationStates, Boxed
<1>2. \A link \in {"none"} \cup Links : Row(x.pending, link) \in Rows
  BY <1>1 DEF Row, Rows
<1>3. Flushed(x) = IF x.pending = NoBox THEN x.rows ELSE Append(x.rows, Row(x.pending, "none"))
  BY DEF Flushed
<1>4. Row(x.pending, "none") \in Rows
  BY <1>2
<1> QED BY <1>1, <1>2, <1>3, <1>4

(* What one line does: inside of a code block it counts as text.           *)
Told(x, line) == IF x.fence THEN (IF line = "fence" THEN "fence" ELSE "text") ELSE line
Effect(x, line, y) ==
  /\ y.n = x.n + 1
  /\ x.over => /\ y.over /\ y.inside = x.inside /\ y.fence = x.fence
               /\ y.pending = x.pending /\ y.rows = x.rows
  /\ ~x.over =>
       /\ y.fence = IF line = "fence" THEN ~x.fence ELSE x.fence
       /\ y.inside <=> x.inside \/ Told(x, line) = "## Success Criteria"
       /\ y.over <=> x.inside /\ Told(x, line) = "## other"
       /\ x.inside /\ Told(x, line) = "## other" => y.rows = Flushed(x) /\ y.pending = NoBox
       /\ x.inside /\ Told(x, line) \in Boxes =>
            /\ y.rows = Flushed(x)
            /\ y.pending = [at |-> x.n + 1, checked |-> Told(x, line) = "- [x]"]
       /\ x.inside /\ Told(x, line) \in Links /\ x.pending # NoBox =>
            y.rows = Append(x.rows, Row(x.pending, Told(x, line))) /\ y.pending = NoBox
       /\ (~x.inside \/ Told(x, line) \notin Stops \/ (Told(x, line) \in Links /\ x.pending = NoBox)) =>
            y.rows = x.rows /\ y.pending = x.pending

(* What one line does to the criteria read so far (parse_annotations).     *)
LEMMA AnnotationStepType ==
  ASSUME NEW x \in AnnotationStates, NEW line \in AnnotationLines
  PROVE  AnnotationStep(x, line) \in AnnotationStates /\ Effect(x, line, AnnotationStep(x, line))
<1> DEFINE y == AnnotationStep(x, line)
           told == Told(x, line)
           next == [x EXCEPT !.n = @ + 1]
<1>1. /\ x = [n |-> x.n, fence |-> x.fence, inside |-> x.inside, over |-> x.over,
              pending |-> x.pending, rows |-> x.rows]
      /\ x.n \in Nat /\ x.fence \in BOOLEAN /\ x.inside \in BOOLEAN /\ x.over \in BOOLEAN
      /\ x.pending \in Boxed /\ x.rows \in Seq(Rows)
  BY DEF AnnotationStates
<1>2. next = [n |-> x.n + 1, fence |-> x.fence, inside |-> x.inside, over |-> x.over,
              pending |-> x.pending, rows |-> x.rows]
  BY <1>1
<1>3. Flushed(x) \in Seq(Rows) /\ NoBox \in Boxed /\ x.n + 1 \in Nat
  BY <1>1, FlushedIs DEF NoBox, Boxed
<1>4. /\ Stops = {"- [ ]", "- [x]", "[verify]", "[judge]", "## other"}
      /\ Boxes = {"- [ ]", "- [x]"} /\ Links = {"[verify]", "[judge]"}
  BY DEF Stops, Boxes, Links
<1>5. y = IF x.over \/ (x.fence /\ line # "fence") THEN next ELSE
          CASE line = "fence" -> [next EXCEPT !.fence = ~@]
            [] line = "## Success Criteria" -> [next EXCEPT !.inside = TRUE]
            [] x.inside /\ line = "## other" ->
                 [next EXCEPT !.rows = Flushed(x), !.pending = NoBox, !.over = TRUE]
            [] x.inside /\ line \in Boxes ->
                 [next EXCEPT !.rows = Flushed(x),
                              !.pending = [at |-> next.n, checked |-> line = "- [x]"]]
            [] x.inside /\ line \in Links /\ x.pending # NoBox ->
                 [next EXCEPT !.rows = Append(@, Row(x.pending, line)), !.pending = NoBox]
            [] OTHER -> next
  BY Zenon DEF AnnotationStep
<1> HIDE DEF next, y, told
<1>6. /\ next.n = x.n + 1 /\ next.fence = x.fence /\ next.inside = x.inside /\ next.over = x.over
      /\ next.pending = x.pending /\ next.rows = x.rows
  BY <1>2
<1>7. told = IF x.fence THEN (IF line = "fence" THEN "fence" ELSE "text") ELSE line
  BY DEF told, Told
<1>8. SUFFICES y \in AnnotationStates /\ Effect(x, line, y)
  BY DEF y
<1>9. CASE x.over \/ (x.fence /\ line # "fence")
  <2>1. y = next
    BY <1>5, <1>9
  <2>2. y \in AnnotationStates
    BY <1>1, <1>2, <1>3, <2>1 DEF AnnotationStates
  <2>3. ~x.over => told = "text" /\ line # "fence"
    BY <1>7, <1>9
  <2> QED BY <1>4, <1>6, <2>1, <2>2, <2>3 DEF Effect, told
<1>10. CASE ~x.over /\ line = "fence"
  <2>1. y = [next EXCEPT !.fence = ~@]
    BY <1>4, <1>5, <1>10
  <2>2. y = [n |-> x.n + 1, fence |-> ~x.fence, inside |-> x.inside, over |-> x.over,
             pending |-> x.pending, rows |-> x.rows]
    BY <1>2, <2>1
  <2>3. y \in AnnotationStates
    BY <1>1, <1>3, <2>2 DEF AnnotationStates
  <2>4. told = "fence"
    BY <1>7, <1>10
  <2>5. /\ y.n = x.n + 1 /\ y.fence = ~x.fence /\ y.inside = x.inside /\ y.over = x.over
        /\ y.pending = x.pending /\ y.rows = x.rows
    BY <2>2
  <2> QED BY <1>4, <1>10, <2>3, <2>4, <2>5 DEF Effect, told
<1>11. CASE ~x.over /\ ~x.fence /\ line = "## Success Criteria"
  <2>1. y = [next EXCEPT !.inside = TRUE]
    BY <1>4, <1>5, <1>11
  <2>2. y = [n |-> x.n + 1, fence |-> x.fence, inside |-> TRUE, over |-> x.over,
             pending |-> x.pending, rows |-> x.rows]
    BY <1>2, <2>1
  <2>3. y \in AnnotationStates
    BY <1>1, <1>3, <2>2 DEF AnnotationStates
  <2>4. told = line
    BY <1>7, <1>11
  <2>5. /\ y.n = x.n + 1 /\ y.fence = x.fence /\ y.inside /\ y.over = x.over
        /\ y.pending = x.pending /\ y.rows = x.rows
    BY <2>2
  <2> QED BY <1>4, <1>11, <2>3, <2>4, <2>5 DEF Effect, told
<1>12. CASE ~x.over /\ ~x.fence /\ x.inside /\ line = "## other"
  <2>1. y = [next EXCEPT !.rows = Flushed(x), !.pending = NoBox, !.over = TRUE]
    BY <1>4, <1>5, <1>12
  <2>2. y = [n |-> x.n + 1, fence |-> x.fence, inside |-> x.inside, over |-> TRUE,
             pending |-> NoBox, rows |-> Flushed(x)]
    BY <1>2, <2>1
  <2>3. y \in AnnotationStates
    BY <1>1, <1>3, <2>2 DEF AnnotationStates
  <2>4. told = line
    BY <1>7, <1>12
  <2>5. /\ y.n = x.n + 1 /\ y.fence = x.fence /\ y.inside = x.inside /\ y.over
        /\ y.pending = NoBox /\ y.rows = Flushed(x)
    BY <2>2
  <2> QED BY <1>4, <1>12, <2>3, <2>4, <2>5 DEF Effect, told
<1>13. CASE ~x.over /\ ~x.fence /\ x.inside /\ line \in Boxes
  <2> DEFINE box == [at |-> x.n + 1, checked |-> line = "- [x]"]
  <2>0. box \in Boxed
    BY <1>3 DEF Boxed
  <2>1. y = [next EXCEPT !.rows = Flushed(x), !.pending = [at |-> next.n, checked |-> line = "- [x]"]]
    BY <1>4, <1>5, <1>13
  <2>2. y = [next EXCEPT !.rows = Flushed(x), !.pending = box]
    BY <1>6, <2>1
  <2> HIDE DEF box
  <2>3. y = [n |-> x.n + 1, fence |-> x.fence, inside |-> x.inside, over |-> x.over,
             pending |-> box, rows |-> Flushed(x)]
    BY <1>2, <2>2
  <2>4. y \in AnnotationStates
    BY <1>1, <1>3, <2>0, <2>3 DEF AnnotationStates
  <2>5. told = line
    BY <1>7, <1>13
  <2>6. /\ y.n = x.n + 1 /\ y.fence = x.fence /\ y.inside = x.inside /\ y.over = x.over
        /\ y.pending = box /\ y.rows = Flushed(x)
    BY <2>3
  <2>7. told # "## other" /\ told # "## Success Criteria" /\ told \notin Links /\ told \in Stops /\ line # "fence"
    BY <1>4, <1>13, <2>5
  <2> QED BY <1>13, <2>4, <2>5, <2>6, <2>7 DEF Effect, told, box
<1>14. CASE ~x.over /\ ~x.fence /\ x.inside /\ line \in Links /\ x.pending # NoBox
  <2>0. Append(x.rows, Row(x.pending, line)) \in Seq(Rows)
    <3>1. Row(x.pending, line) \in Rows
      BY <1>14, FlushedIs
    <3> QED BY <1>1, <3>1
  <2>1. y = [next EXCEPT !.rows = Append(@, Row(x.pending, line)), !.pending = NoBox]
    BY <1>4, <1>5, <1>14
  <2>2. y = [n |-> x.n + 1, fence |-> x.fence, inside |-> x.inside, over |-> x.over,
             pending |-> NoBox, rows |-> Append(x.rows, Row(x.pending, line))]
    BY <1>2, <2>1
  <2>3. y \in AnnotationStates
    BY <1>1, <1>3, <2>0, <2>2 DEF AnnotationStates
  <2>4. told = line
    BY <1>7, <1>14
  <2>5. /\ y.n = x.n + 1 /\ y.fence = x.fence /\ y.inside = x.inside /\ y.over = x.over
        /\ y.pending = NoBox /\ y.rows = Append(x.rows, Row(x.pending, line))
    BY <2>2
  <2>6. told # "## other" /\ told # "## Success Criteria" /\ told \notin Boxes /\ told \in Stops /\ line # "fence"
    BY <1>4, <1>14, <2>4
  <2> QED BY <1>14, <2>3, <2>4, <2>5, <2>6 DEF Effect, told
<1>15. CASE /\ ~x.over /\ ~x.fence /\ line # "fence" /\ line # "## Success Criteria"
            /\ ~x.inside \/ line \notin Stops \/ (line \in Links /\ x.pending = NoBox)
  <2>1. y = next
    BY <1>4, <1>5, <1>15
  <2>2. y \in AnnotationStates
    BY <1>1, <1>2, <1>3, <2>1 DEF AnnotationStates
  <2>3. told = line
    BY <1>7, <1>15
  <2> QED BY <1>4, <1>6, <1>15, <2>1, <2>2, <2>3 DEF Effect, told
<1> QED BY <1>4, <1>9, <1>10, <1>11, <1>12, <1>13, <1>14, <1>15

(* The states of the loop, line by line.                                   *)
LEMMA AnnotationFold ==
  ASSUME NEW lines \in Seq(AnnotationLines), NEW n \in Nat, DOMAIN lines = 1 .. n
  PROVE  \E g : /\ g[0] = AnnotationsAtFirst /\ ParseAnnotations(lines) = Flushed(g[n])
                /\ \A k \in 0 .. n : g[k] \in AnnotationStates
                /\ \A k \in 0 .. n - 1 : g[k + 1] = AnnotationStep(g[k], lines[k + 1])
<1> DEFINE S == AnnotationStates
           base == AnnotationsAtFirst
           step == [i \in 1 .. n |-> [x \in S |-> AnnotationStep(x, lines[i])]]
           iter == CHOOSE f : f = [D \in SUBSET (DOMAIN lines) |->
                                     IF D = {} THEN base
                                     ELSE AnnotationStep(f[D \ {Max(D)}], lines[Max(D)])]
<1>0. ASSUME NEW i \in 1 .. n, NEW x \in S PROVE AnnotationStep(x, lines[i]) \in S
  <2>1. lines[i] \in AnnotationLines
    OBVIOUS
  <2> QED BY <2>1, AnnotationStepType
<1>1. step \in [1 .. n -> [S -> S]]
  <2> HIDE DEF S
  <2> QED BY <1>0
<1>2. base \in S
  BY DEF AnnotationStates, AnnotationsAtFirst, Boxed, NoBox
<1> HIDE DEF S, base
<1>4. PICK f \in [SUBSET (1 .. n) -> S] : Folds(f, step, base, n)
  <2> HIDE DEF step
  <2> QED BY <1>1, <1>2, FoldsExist
<1>5. ASSUME NEW D \in SUBSET (1 .. n), D # {} PROVE Max(D) \in 1 .. n /\ f[D \ {Max(D)}] \in S
  <2>1. Max(D) \in D
    <3>1. D \subseteq 0 .. n
      OBVIOUS
    <3> QED BY <1>5, <3>1, MaxIs
  <2> QED BY <2>1
<1>6. f = [D \in SUBSET (DOMAIN lines) |-> IF D = {} THEN base
                                           ELSE AnnotationStep(f[D \ {Max(D)}], lines[Max(D)])]
  <2>1. ASSUME NEW D \in SUBSET (1 .. n), D # {}
        PROVE  step[Max(D)][f[D \ {Max(D)}]] = AnnotationStep(f[D \ {Max(D)}], lines[Max(D)])
    BY <1>5, <2>1
  <2>2. f = [D \in SUBSET (1 .. n) |-> IF D = {} THEN base ELSE step[Max(D)][f[D \ {Max(D)}]]]
    BY <1>4, Zenon DEF Folds
  <2> HIDE DEF step
  <2> QED BY <2>1, <2>2
<1>7. iter = [D \in SUBSET (DOMAIN lines) |-> IF D = {} THEN base
                                              ELSE AnnotationStep(iter[D \ {Max(D)}], lines[Max(D)])]
  BY <1>6, Zenon
<1>8. ParseAnnotations(lines) = Flushed(iter[DOMAIN lines])
  BY Zenon DEF ParseAnnotations, FoldLeft, MapThenFoldSet, base, AnnotationsAtFirst
<1> DEFINE g == [k \in 0 .. n |-> iter[1 .. k]]
<1> HIDE DEF iter
<1>9. g[0] = base /\ g[n] = iter[1 .. n] /\ \A k \in 0 .. n - 1 : g[k] = iter[1 .. k] /\ g[k + 1] = iter[1 .. k + 1]
  <2>1. iter[{}] = base
    BY <1>7
  <2> QED BY <2>1, FirstPositions
<1>10. ASSUME NEW k \in 0 .. n - 1 PROVE g[k + 1] = AnnotationStep(g[k], lines[k + 1])
  <2>1. iter[1 .. k + 1] = AnnotationStep(iter[(1 .. k + 1) \ {Max(1 .. k + 1)}], lines[Max(1 .. k + 1)])
    BY <1>7, FirstPositions
  <2>2. Max(1 .. k + 1) = k + 1 /\ (1 .. k + 1) \ {k + 1} = 1 .. k
    BY FirstPositions
  <2>3. g[k] = iter[1 .. k] /\ g[k + 1] = iter[1 .. k + 1]
    BY <1>9
  <2> HIDE DEF g
  <2> QED BY <2>1, <2>2, <2>3, Zenon
<1> HIDE DEF g
<1>11. \A k \in 0 .. n : g[k] \in S
  <2> DEFINE T == {k \in 0 .. n : g[k] \in S}
  <2>1. 0 \in T
    BY <1>2, <1>9
  <2>2. ASSUME NEW k \in 0 .. n - 1, k \in T PROVE k + 1 \in T
    <3>1. k + 1 \in 1 .. n /\ k + 1 \in 0 .. n
      OBVIOUS
    <3> QED BY <1>0, <1>10, <2>2, <3>1
  <2> HIDE DEF T
  <2>3. \A k \in 0 .. n : k \in T
    BY <2>1, <2>2, UpTo
  <2> QED BY <2>3 DEF T
<1> QED BY <1>8, <1>9, <1>10, <1>11 DEF base, S

(* What is read of the criteria after k lines.                             *)
Outside(lines, k) == Fences(lines, k) % 2 = 0
BoxesOf(lines) == {j \in Positions(lines) : Plain(lines)[j] \in Boxes /\ InCriteria(Plain(lines), j)}
LinksOf(lines, j) == {k \in Positions(lines) : /\ j < k /\ Plain(lines)[k] \in Links
                                               /\ NoneBetween(Plain(lines), j, k, Stops)}
Criterion(lines, j) ==
  [at |-> j, checked |-> Plain(lines)[j] = "- [x]",
   link |-> IF LinksOf(lines, j) = {} THEN "none" ELSE Plain(lines)[CHOOSE k \in LinksOf(lines, j) : TRUE]]
SeenCriteria(lines, k) == \E i \in 1 .. k : Plain(lines)[i] = "## Success Criteria"
InCriteriaAfter(lines, k) ==
  \E i \in 1 .. k : /\ Plain(lines)[i] = "## Success Criteria"
                    /\ NoneBetween(Plain(lines), 0, i, {"## Success Criteria"})
                    /\ NoneBetween(Plain(lines), i, k + 1, {"## other"})
RowsRead(lines, rows) ==
  \A j \in BoxesOf(lines) : Rank(BoxesOf(lines), j) <= Len(rows) =>
     rows[Rank(BoxesOf(lines), j)] = Criterion(lines, j)
BoxOpen(lines, k, st) ==
  /\ st.inside /\ ~st.over
  /\ st.pending.at \in BoxesOf(lines) /\ st.pending.at <= k
  /\ st.pending.checked = (Plain(lines)[st.pending.at] = "- [x]")
  /\ Rank(BoxesOf(lines), st.pending.at) = Len(st.rows) + 1
  /\ Rank(BoxesOf(lines), k) = Len(st.rows) + 1
  /\ NoneBetween(Plain(lines), st.pending.at, k + 1, Stops)
AnnotationsRead(lines, k, st) ==
  /\ st.n = k
  /\ ~st.over => (st.fence <=> ~Outside(lines, k))
  /\ st.inside <=> SeenCriteria(lines, k)
  /\ st.over => st.inside
  /\ st.inside /\ ~st.over <=> InCriteriaAfter(lines, k)
  /\ RowsRead(lines, st.rows)
  /\ IF st.pending = NoBox THEN Len(st.rows) = Rank(BoxesOf(lines), k) ELSE BoxOpen(lines, k, st)

(* Lines in code blocks are text, and the section grows line by line.      *)
LEMMA CriteriaSection ==
  ASSUME NEW lines \in Seq(AnnotationLines), NEW n \in Nat, DOMAIN lines = 1 .. n, NEW k \in 0 .. n - 1
  PROVE  LET plain == Plain(lines)
             line == lines[k + 1]
         IN /\ Outside(lines, 0)
            /\ Outside(lines, k + 1) <=> IF line = "fence" THEN ~Outside(lines, k) ELSE Outside(lines, k)
            /\ line # "fence" => plain[k + 1] = IF Outside(lines, k) THEN line ELSE "text"
            /\ line = "fence" => plain[k + 1] \in {"fence", "text"}
            /\ DOMAIN plain = 1 .. n /\ Positions(plain) = 1 .. n /\ Positions(lines) = 1 .. n
            /\ SeenCriteria(lines, k + 1) <=>
                 SeenCriteria(lines, k) \/ plain[k + 1] = "## Success Criteria"
            /\ InCriteriaAfter(lines, k) => SeenCriteria(lines, k)
            /\ InCriteriaAfter(lines, k + 1) <=>
                 \/ ~SeenCriteria(lines, k) /\ plain[k + 1] = "## Success Criteria"
                 \/ InCriteriaAfter(lines, k) /\ plain[k + 1] # "## other"
            /\ k + 1 \in BoxesOf(lines) <=> plain[k + 1] \in Boxes /\ InCriteriaAfter(lines, k)
<1> DEFINE plain == Plain(lines)
           line == lines[k + 1]
           D == {i \in 1 .. n : lines[i] = "fence"}
           SC == "## Success Criteria"
<1>1. /\ k \in Nat /\ k + 1 \in 1 .. n /\ k \in 0 .. n /\ k + 1 \in 0 .. n
      /\ \A i \in 1 .. k + 1 : i = k + 1 \/ i \in 1 .. k
  OBVIOUS
<1>2. k + 1 \in 1 .. k + 1 /\ \A i \in 1 .. k : i \in 1 .. k + 1 /\ i \in 0 .. k /\ i \in 1 .. n /\ i # k + 1
  OBVIOUS
<1>3. Positions(lines) = 1 .. n /\ DOMAIN plain = 1 .. n /\ Positions(plain) = 1 .. n
  BY DEF Positions, Plain
<1>4. \A i \in 0 .. n : Fences(lines, i) = Rank(D, i)
  <2>1. ASSUME NEW i \in 0 .. n PROVE Fences(lines, i) = Rank(D, i)
    <3>1. {q \in 1 .. i : lines[q] = "fence"} = {q \in D : q <= i}
      OBVIOUS
    <3> QED BY <3>1 DEF Fences, Rank
  <2> QED BY <2>1
<1>5. D \subseteq 1 .. n /\ (k + 1 \in D <=> line = "fence")
  BY <1>1
<1> HIDE DEF D
<1>6. /\ Rank(D, 0) = 0 /\ Rank(D, k) \in Nat
      /\ Rank(D, k + 1) = IF k + 1 \in D THEN Rank(D, k) + 1 ELSE Rank(D, k)
  BY <1>1, <1>5, RankSteps
<1>7. Outside(lines, 0) /\ (Outside(lines, k + 1) <=> IF line = "fence" THEN ~Outside(lines, k) ELSE Outside(lines, k))
  <2>1. Fences(lines, 0) = 0 /\ 0 % 2 = 0
    <3>1. 0 \in 0 .. n
      OBVIOUS
    <3> QED BY <1>4, <1>6, <3>1
  <2>2. \A r \in Nat : (r + 1) % 2 = 0 <=> r % 2 # 0
    OBVIOUS
  <2>3. /\ Fences(lines, k) \in Nat
        /\ Fences(lines, k + 1) = IF line = "fence" THEN Fences(lines, k) + 1 ELSE Fences(lines, k)
    BY <1>1, <1>4, <1>5, <1>6
  <2> HIDE DEF line
  <2> QED BY <2>1, <2>2, <2>3 DEF Outside
<1>8. plain[k + 1] = IF Outside(lines, k + 1) THEN line ELSE "text"
  <2>1. k + 1 \in Positions(lines)
    BY <1>1, <1>3
  <2> QED BY <2>1 DEF Plain, Outside
<1>9. \A kinds : /\ \A i \in 0 .. k : NoneBetween(plain, i, k + 1 + 1, kinds) <=>
                                        NoneBetween(plain, i, k + 1, kinds) /\ plain[k + 1] \notin kinds
                 /\ NoneBetween(plain, k + 1, k + 1 + 1, kinds)
                 /\ NoneBetween(plain, 0, k + 1, kinds) <=> \A i \in 1 .. k : plain[i] \notin kinds
  <2> HIDE DEF plain
  <2> QED BY <1>3, BetweenSteps
<1>10. /\ SeenCriteria(lines, k + 1) <=> SeenCriteria(lines, k) \/ plain[k + 1] = SC
       /\ InCriteriaAfter(lines, k) => SeenCriteria(lines, k)
  BY <1>1, <1>2 DEF SeenCriteria, InCriteriaAfter
<1>11. ASSUME ~SeenCriteria(lines, k), plain[k + 1] = SC PROVE InCriteriaAfter(lines, k + 1)
  <2>1. NoneBetween(plain, 0, k + 1, {SC})
    BY <1>9, <1>11 DEF SeenCriteria
  <2> QED BY <1>2, <1>9, <1>11, <2>1 DEF InCriteriaAfter
<1>12. ASSUME InCriteriaAfter(lines, k), plain[k + 1] # "## other" PROVE InCriteriaAfter(lines, k + 1)
  <2>1. PICK i \in 1 .. k : /\ plain[i] = SC /\ NoneBetween(plain, 0, i, {SC})
                            /\ NoneBetween(plain, i, k + 1, {"## other"})
    BY <1>12 DEF InCriteriaAfter
  <2>2. NoneBetween(plain, i, k + 1 + 1, {"## other"})
    <3> HIDE DEF plain
    <3> QED BY <1>2, <1>9, <1>12, <2>1
  <2> QED BY <1>2, <2>1, <2>2 DEF InCriteriaAfter
<1>13. ASSUME InCriteriaAfter(lines, k + 1)
       PROVE  \/ ~SeenCriteria(lines, k) /\ plain[k + 1] = SC
              \/ InCriteriaAfter(lines, k) /\ plain[k + 1] # "## other"
  <2>1. PICK i \in 1 .. k + 1 : /\ plain[i] = SC /\ NoneBetween(plain, 0, i, {SC})
                                /\ NoneBetween(plain, i, k + 1 + 1, {"## other"})
    BY <1>13 DEF InCriteriaAfter
  <2>2. CASE i = k + 1
    BY <1>9, <2>1, <2>2 DEF SeenCriteria
  <2>3. CASE i \in 1 .. k
    <3>1. NoneBetween(plain, i, k + 1, {"## other"}) /\ plain[k + 1] # "## other"
      <4> HIDE DEF plain
      <4> QED BY <1>2, <1>9, <2>1, <2>3
    <3> QED BY <2>1, <2>3, <3>1 DEF InCriteriaAfter
  <2> QED BY <1>1, <2>2, <2>3
<1>14. k + 1 \in BoxesOf(lines) <=> plain[k + 1] \in Boxes /\ InCriteriaAfter(lines, k)
  <2>1. (k + 1) - 1 = k
    OBVIOUS
  <2> QED BY <1>1, <1>3, <2>1 DEF BoxesOf, InCriteria, InCriteriaAfter
<1> HIDE DEF plain, line
<1>15. /\ line # "fence" => plain[k + 1] = IF Outside(lines, k) THEN line ELSE "text"
       /\ line = "fence" => plain[k + 1] \in {"fence", "text"}
  BY <1>7, <1>8
<1>16. InCriteriaAfter(lines, k + 1) <=> \/ ~SeenCriteria(lines, k) /\ plain[k + 1] = SC
                                         \/ InCriteriaAfter(lines, k) /\ plain[k + 1] # "## other"
  BY <1>11, <1>12, <1>13
<1> QED BY <1>3, <1>7, <1>10, <1>14, <1>15, <1>16 DEF plain, line

(* At its end a criterion has the link it is written with.                 *)
LEMMA CriterionIsWritten ==
  ASSUME NEW lines \in Seq(AnnotationLines), NEW n \in Nat, DOMAIN lines = 1 .. n,
         NEW j \in 1 .. n, NEW k \in j .. n, NoneBetween(Plain(lines), j, k + 1, Stops),
         k # n => Plain(lines)[k + 1] \in Stops
  PROVE  Criterion(lines, j) =
           [at |-> j, checked |-> Plain(lines)[j] = "- [x]",
            link |-> IF k # n /\ Plain(lines)[k + 1] \in Links THEN Plain(lines)[k + 1] ELSE "none"]
<1> DEFINE plain == Plain(lines)
           L == LinksOf(lines, j)
<1>1. Positions(lines) = 1 .. n /\ Positions(plain) = 1 .. n
  BY DEF Positions, Plain
<1>2. Links \subseteq Stops /\ k \in Nat
  <2>1. k \in Nat
    OBVIOUS
  <2> QED BY <2>1, Zenon DEF Stops
<1> HIDE DEF plain
<1>3. \A q \in L : q \in 1 .. n /\ j < q /\ plain[q] \in Links /\ NoneBetween(plain, j, q, Stops)
  BY <1>1 DEF LinksOf, plain
<1>4. \A q \in L : k # n /\ q = k + 1
  <2>1. ASSUME NEW q \in L PROVE k # n /\ q = k + 1
    <3>1. ~(q < k + 1)
      BY <1>1, <1>2, <1>3 DEF NoneBetween, plain
    <3>2. ~(k + 1 < q)
      <4>1. SUFFICES ASSUME k + 1 < q PROVE FALSE
        OBVIOUS
      <4>2. k + 1 \in 1 .. n /\ j < k + 1 /\ k # n
        BY <1>2, <1>3, <4>1
      <4> QED BY <1>1, <1>3, <4>1, <4>2 DEF NoneBetween, plain
    <3>3. q \in 1 .. n
      BY <1>3
    <3> QED BY <1>2, <3>1, <3>2, <3>3
  <2> QED BY <2>1
<1>5. k # n /\ plain[k + 1] \in Links => k + 1 \in L
  <2>1. SUFFICES ASSUME k # n, plain[k + 1] \in Links PROVE k + 1 \in L
    OBVIOUS
  <2>2. k + 1 \in 1 .. n /\ j < k + 1
    BY <1>2, <2>1
  <2> QED BY <1>1, <2>1, <2>2 DEF LinksOf, plain
<1>6. Criterion(lines, j) = [at |-> j, checked |-> plain[j] = "- [x]",
                             link |-> IF L = {} THEN "none" ELSE plain[CHOOSE q \in L : TRUE]]
  BY Zenon DEF Criterion, plain
<1>7. CASE k # n /\ plain[k + 1] \in Links
  <2>1. (CHOOSE q \in L : TRUE) \in L /\ L # {}
    BY <1>5, <1>7
  <2> HIDE DEF L
  <2>2. (CHOOSE q \in L : TRUE) = k + 1
    BY <1>4, <2>1
  <2> QED BY <1>6, <1>7, <2>1, <2>2 DEF plain
<1>8. CASE ~(k # n /\ plain[k + 1] \in Links)
  <2>1. L = {}
    BY <1>3, <1>4, <1>8
  <2> HIDE DEF L
  <2> QED BY <1>6, <1>8, <2>1 DEF plain
<1> QED BY <1>7, <1>8

(* The row appended is that of the next box.                               *)
LEMMA RowAppended ==
  ASSUME NEW lines \in Seq(AnnotationLines), NEW n \in Nat, DOMAIN lines = 1 .. n,
         NEW rows \in Seq(Rows), RowsRead(lines, rows), NEW j \in BoxesOf(lines),
         Rank(BoxesOf(lines), j) = Len(rows) + 1, Criterion(lines, j) \in Rows
  PROVE  RowsRead(lines, Append(rows, Criterion(lines, j)))
<1> DEFINE B == BoxesOf(lines)
           row == Criterion(lines, j)
           more == Append(rows, row)
<1>1. B \subseteq 1 .. n
  BY DEF BoxesOf, Positions
<1> HIDE DEF B, row
<1>2. Len(more) = Len(rows) + 1 /\ more[Len(rows) + 1] = row /\ \A i \in 1 .. Len(rows) : more[i] = rows[i]
  BY DEF row
<1>3. ASSUME NEW i \in B, Rank(B, i) <= Len(more) PROVE more[Rank(B, i)] = Criterion(lines, i)
  <2>1. Rank(B, i) \in Nat /\ Rank(B, i) >= 1 /\ (Rank(B, i) = Rank(B, j) => i = j)
    <3>1. j \in B
      BY DEF B
    <3>2. i \in 0 .. n /\ j \in 0 .. n /\ (i < j \/ j < i \/ i = j)
      BY <1>1, <3>1
    <3>3. Rank(B, i) \in 1 .. Cardinality(B) /\ Rank(B, j) \in 1 .. Cardinality(B)
      BY <1>1, <3>1, RankIs
    <3>4. (i < j => Rank(B, i) < Rank(B, j)) /\ (j < i => Rank(B, j) < Rank(B, i))
      BY <1>1, <3>1, <3>2, RankIs
    <3> QED BY <3>2, <3>3, <3>4
  <2>2. CASE Rank(B, i) <= Len(rows)
    <3>1. Rank(B, i) \in 1 .. Len(rows)
      BY <2>1, <2>2
    <3>2. rows[Rank(B, i)] = Criterion(lines, i)
      BY <2>2 DEF RowsRead, B
    <3> QED BY <1>2, <3>1, <3>2
  <2>3. CASE ~(Rank(B, i) <= Len(rows))
    <3>1. Rank(B, i) = Len(rows) + 1
      BY <1>2, <1>3, <2>1, <2>3
    <3>2. i = j
      BY <2>1, <3>1 DEF B
    <3> QED BY <1>2, <3>1, <3>2 DEF row
  <2> QED BY <2>2, <2>3
<1> QED BY <1>3 DEF RowsRead, B, row

(* What Flushed adds for a box that ends without a link.                   *)
LEMMA BoxFlushed ==
  ASSUME NEW lines \in Seq(AnnotationLines), NEW n \in Nat, DOMAIN lines = 1 .. n,
         NEW k \in 0 .. n, NEW st \in AnnotationStates, AnnotationsRead(lines, k, st),
         k # n => Plain(lines)[k + 1] \in Stops \ Links
  PROVE  /\ RowsRead(lines, Flushed(st)) /\ Flushed(st) \in Seq(Rows)
         /\ Len(Flushed(st)) = Rank(BoxesOf(lines), k)
<1>1. /\ RowsRead(lines, st.rows) /\ st.rows \in Seq(Rows)
      /\ st.pending = [at |-> st.pending.at, checked |-> st.pending.checked]
      /\ IF st.pending = NoBox THEN Len(st.rows) = Rank(BoxesOf(lines), k) ELSE BoxOpen(lines, k, st)
  BY DEF AnnotationsRead, AnnotationStates, Boxed
<1>2. /\ Flushed(st) = IF st.pending = NoBox THEN st.rows ELSE Append(st.rows, Row(st.pending, "none"))
      /\ Flushed(st) \in Seq(Rows) /\ Row(st.pending, "none") \in Rows
  BY FlushedIs
<1>3. CASE st.pending = NoBox
  BY <1>1, <1>2, <1>3
<1>4. CASE st.pending # NoBox
  <2> DEFINE j == st.pending.at
             row == Row(st.pending, "none")
  <2>1. /\ j \in BoxesOf(lines) /\ j <= k /\ st.pending.checked = (Plain(lines)[j] = "- [x]")
        /\ Rank(BoxesOf(lines), j) = Len(st.rows) + 1 /\ Rank(BoxesOf(lines), k) = Len(st.rows) + 1
        /\ NoneBetween(Plain(lines), j, k + 1, Stops)
    BY <1>1, <1>4 DEF BoxOpen
  <2>2. j \in 1 .. n /\ k \in j .. n
    <3>1. j \in 1 .. n
      BY <2>1 DEF BoxesOf, Positions
    <3>2. j <= k
      BY <2>1
    <3> HIDE DEF j
    <3> QED BY <3>1, <3>2
  <2>3. Criterion(lines, j) = [at |-> j, checked |-> Plain(lines)[j] = "- [x]", link |-> "none"]
    <3> HIDE DEF j
    <3>1. (k # n => Plain(lines)[k + 1] \in Stops) /\ ~(k # n /\ Plain(lines)[k + 1] \in Links)
      OBVIOUS
    <3>2. Criterion(lines, j) =
           [at |-> j, checked |-> Plain(lines)[j] = "- [x]",
            link |-> IF k # n /\ Plain(lines)[k + 1] \in Links THEN Plain(lines)[k + 1] ELSE "none"]
      BY <2>1, <2>2, <3>1, CriterionIsWritten
    <3> QED BY <3>1, <3>2
  <2>4. row = Criterion(lines, j)
    BY <2>1, <2>3 DEF Row
  <2> HIDE DEF j, row
  <2>5. RowsRead(lines, Append(st.rows, row)) /\ Len(Append(st.rows, row)) = Len(st.rows) + 1
    <3>1. row \in Rows
      BY <1>2 DEF row
    <3>2. RowsRead(lines, Append(st.rows, Criterion(lines, j)))
      BY <1>1, <2>1, <2>4, <3>1, RowAppended
    <3> QED BY <1>1, <2>4, <3>1, <3>2
  <2> QED BY <1>2, <1>4, <2>1, <2>5 DEF row
<1> QED BY <1>3, <1>4

(* One more line of the spec is read.                                      *)
LEMMA AnnotationsReadOn ==
  ASSUME NEW lines \in Seq(AnnotationLines), NEW n \in Nat, DOMAIN lines = 1 .. n, NEW k \in 0 .. n - 1,
         NEW st \in AnnotationStates, AnnotationsRead(lines, k, st)
  PROVE  AnnotationsRead(lines, k + 1, AnnotationStep(st, lines[k + 1]))
<1> DEFINE plain == Plain(lines)
           line == lines[k + 1]
           p == plain[k + 1]
           B == BoxesOf(lines)
           told == Told(st, line)
           next == AnnotationStep(st, line)
<1>1. k \in Nat /\ k \in 0 .. n /\ k + 1 \in 1 .. n /\ k # n /\ line \in AnnotationLines
  OBVIOUS
<1>2. /\ Outside(lines, k + 1) <=> IF line = "fence" THEN ~Outside(lines, k) ELSE Outside(lines, k)
      /\ line # "fence" => p = IF Outside(lines, k) THEN line ELSE "text"
      /\ line = "fence" => p \in {"fence", "text"}
      /\ Positions(plain) = 1 .. n /\ Positions(lines) = 1 .. n
      /\ SeenCriteria(lines, k + 1) <=> SeenCriteria(lines, k) \/ p = "## Success Criteria"
      /\ InCriteriaAfter(lines, k) => SeenCriteria(lines, k)
      /\ InCriteriaAfter(lines, k + 1) <=> \/ ~SeenCriteria(lines, k) /\ p = "## Success Criteria"
                                           \/ InCriteriaAfter(lines, k) /\ p # "## other"
      /\ k + 1 \in B <=> p \in Boxes /\ InCriteriaAfter(lines, k)
  BY CriteriaSection
<1>3. next \in AnnotationStates /\ Effect(st, line, next)
  BY <1>1, AnnotationStepType
<1>4. /\ st.n = k
      /\ ~st.over => (st.fence <=> ~Outside(lines, k))
      /\ st.inside <=> SeenCriteria(lines, k)
      /\ st.over => st.inside
      /\ st.inside /\ ~st.over <=> InCriteriaAfter(lines, k)
      /\ RowsRead(lines, st.rows)
      /\ IF st.pending = NoBox THEN Len(st.rows) = Rank(B, k) ELSE BoxOpen(lines, k, st)
  BY DEF AnnotationsRead
<1>5. /\ st.fence \in BOOLEAN /\ st.inside \in BOOLEAN /\ st.over \in BOOLEAN /\ st.rows \in Seq(Rows)
      /\ st.pending = [at |-> st.pending.at, checked |-> st.pending.checked]
      /\ next.fence \in BOOLEAN /\ next.inside \in BOOLEAN /\ next.over \in BOOLEAN /\ next.rows \in Seq(Rows)
  BY <1>3 DEF AnnotationStates, Boxed
<1> HIDE DEF next, told, plain, line, p
<1>6. ~st.over => told = p \/ (told = "fence" /\ p \in {"fence", "text"})
  BY <1>2, <1>4, <1>5 DEF told, Told
<1>7. /\ next.n = st.n + 1
      /\ st.over => /\ next.over /\ next.inside = st.inside /\ next.fence = st.fence
                    /\ next.pending = st.pending /\ next.rows = st.rows
      /\ ~st.over =>
           /\ next.fence = IF line = "fence" THEN ~st.fence ELSE st.fence
           /\ next.inside <=> st.inside \/ told = "## Success Criteria"
           /\ next.over <=> st.inside /\ told = "## other"
           /\ st.inside /\ told = "## other" => next.rows = Flushed(st) /\ next.pending = NoBox
           /\ st.inside /\ told \in Boxes =>
                /\ next.rows = Flushed(st)
                /\ next.pending = [at |-> st.n + 1, checked |-> told = "- [x]"]
           /\ st.inside /\ told \in Links /\ st.pending # NoBox =>
                next.rows = Append(st.rows, Row(st.pending, told)) /\ next.pending = NoBox
           /\ (~st.inside \/ told \notin Stops \/ (told \in Links /\ st.pending = NoBox)) =>
                next.rows = st.rows /\ next.pending = st.pending
  BY <1>3, Zenon DEF Effect, told
<1>8. /\ Stops = {"- [ ]", "- [x]", "[verify]", "[judge]", "## other"}
      /\ Boxes = {"- [ ]", "- [x]"} /\ Links = {"[verify]", "[judge]"}
  BY DEF Stops, Boxes, Links
<1>9. /\ next.n = k + 1 /\ (next.over => next.inside)
      /\ ~next.over => (next.fence <=> ~Outside(lines, k + 1))
      /\ next.inside <=> SeenCriteria(lines, k + 1)
      /\ next.inside /\ ~next.over <=> InCriteriaAfter(lines, k + 1)
  <2>1. CASE st.over
    BY <1>2, <1>4, <1>7, <2>1
  <2>2. CASE ~st.over
    <3>1. /\ told = "## Success Criteria" <=> p = "## Success Criteria"
          /\ told = "## other" <=> p = "## other"
      BY <1>6, <2>2
    <3>2. /\ next.inside <=> st.inside \/ p = "## Success Criteria"
          /\ next.over <=> st.inside /\ p = "## other"
      BY <1>7, <2>2, <3>1
    <3>3. next.fence <=> ~Outside(lines, k + 1)
      <4>1. next.fence = IF line = "fence" THEN ~st.fence ELSE st.fence
        BY <1>7, <2>2
      <4>2. st.fence <=> ~Outside(lines, k)
        BY <1>4, <2>2
      <4> QED BY <1>2, <1>5, <4>1, <4>2
    <3>4. next.n = k + 1
      BY <1>4, <1>7
    <3> QED BY <1>2, <1>4, <2>2, <3>2, <3>3, <3>4
  <2> QED BY <2>1, <2>2
<1>10. Rank(B, k + 1) = IF k + 1 \in B THEN Rank(B, k) + 1 ELSE Rank(B, k)
  <2>1. B \subseteq 1 .. n
    BY <1>2 DEF BoxesOf
  <2> QED BY <2>1, RankNext
<1>11. /\ NoneBetween(plain, k + 1, k + 1 + 1, Stops)
       /\ \A i \in 0 .. k : NoneBetween(plain, i, k + 1 + 1, Stops) <=>
                              NoneBetween(plain, i, k + 1, Stops) /\ p \notin Stops
  BY <1>2, BetweenSteps DEF p
<1>12. st.pending # NoBox =>
         /\ st.inside /\ ~st.over
         /\ st.pending.at \in B /\ st.pending.at \in 1 .. n /\ st.pending.at <= k
         /\ st.pending.checked = (plain[st.pending.at] = "- [x]")
         /\ Rank(B, st.pending.at) = Len(st.rows) + 1
         /\ Rank(B, k) = Len(st.rows) + 1
         /\ NoneBetween(plain, st.pending.at, k + 1, Stops)
  <2>1. B \subseteq 1 .. n
    BY <1>2 DEF BoxesOf
  <2> QED BY <1>4, <2>1 DEF BoxOpen, plain
<1> HIDE DEF B
<1> DEFINE Good == /\ RowsRead(lines, next.rows)
                   /\ IF next.pending = NoBox THEN Len(next.rows) = Rank(B, k + 1) ELSE BoxOpen(lines, k + 1, next)
<1>13. ASSUME st.over PROVE Good
  <2>1. next.rows = st.rows /\ next.pending = NoBox /\ st.pending = NoBox
    BY <1>7, <1>12, <1>13
  <2>2. k + 1 \notin B
    BY <1>2, <1>4, <1>13
  <2>3. RowsRead(lines, st.rows) /\ Len(st.rows) = Rank(B, k)
    BY <1>4, <2>1
  <2> QED BY <1>10, <2>1, <2>2, <2>3
<1>14. ASSUME ~st.over /\ st.inside /\ p \in Stops \ Links PROVE Good
  <2>1. told = p
    BY <1>6, <1>8, <1>14
  <2>2. /\ RowsRead(lines, Flushed(st)) /\ Flushed(st) \in Seq(Rows)
        /\ Len(Flushed(st)) = Rank(B, k)
    BY <1>1, <1>14, BoxFlushed DEF B, p, plain
  <2>3. CASE p = "## other"
    <3>1. next.rows = Flushed(st) /\ next.pending = NoBox
      BY <1>7, <1>14, <2>1, <2>3
    <3>2. k + 1 \notin B
      BY <1>2, <1>8, <2>3
    <3> QED BY <1>10, <2>2, <3>1, <3>2
  <2>4. CASE p \in Boxes
    <3>1. next.rows = Flushed(st) /\ next.pending = [at |-> k + 1, checked |-> p = "- [x]"]
      BY <1>4, <1>7, <1>14, <2>1, <2>4
    <3>2. k + 1 \in B
      BY <1>2, <1>4, <1>14, <2>4
    <3>3. next.pending # NoBox /\ next.pending.at = k + 1 /\ next.pending.checked = (p = "- [x]")
      <4>1. \A b, at, checked : b = [at |-> at, checked |-> checked] => b.at = at /\ b.checked = checked
        OBVIOUS
      <4>2. next.pending.at = k + 1 /\ next.pending.checked = (p = "- [x]")
        <5>1. PICK c : c = (p = "- [x]")
          OBVIOUS
        <5>2. next.pending = [at |-> k + 1, checked |-> c]
          BY <3>1, <5>1, Zenon
        <5>3. next.pending.at = k + 1 /\ next.pending.checked = c
          BY <5>2
        <5> QED BY <5>1, <5>3, Zenon
      <4>3. NoBox.at = 0 /\ k + 1 # 0
        BY <1>1 DEF NoBox
      <4> QED BY <4>2, <4>3
    <3>4. next.inside /\ ~next.over
      BY <1>7, <1>8, <1>14, <2>1, <2>4
    <3>5. Rank(B, k + 1) = Len(next.rows) + 1
      BY <1>10, <2>2, <3>1, <3>2
    <3>6. BoxOpen(lines, k + 1, next)
      <4>2. next.pending.checked = (plain[next.pending.at] = "- [x]")
        BY <3>3, Zenon DEF p
      <4>1. /\ next.pending.at \in B /\ next.pending.at <= k + 1
            /\ Rank(B, next.pending.at) = Len(next.rows) + 1
            /\ NoneBetween(plain, next.pending.at, k + 1 + 1, Stops)
        <5>1. next.pending.at = k + 1
          BY <3>3
        <5>2. NoneBetween(plain, k + 1, k + 1 + 1, Stops) /\ k + 1 \in B /\ k + 1 <= k + 1
          BY <1>1, <1>11, <3>2
        <5> QED BY <3>5, <5>1, <5>2, Zenon
      <4> QED BY <3>4, <3>5, <4>1, <4>2 DEF BoxOpen, B, plain
    <3> QED BY <2>2, <3>1, <3>3, <3>6
  <2> QED BY <1>8, <1>14, <2>3, <2>4
<1>15. ASSUME ~st.over /\ st.inside /\ p \in Links /\ st.pending # NoBox PROVE Good
  <2> DEFINE j == st.pending.at
             row == Row(st.pending, p)
  <2>1. told = p /\ p \in Stops /\ p \notin Boxes /\ p # "none"
    BY <1>6, <1>8, <1>15
  <2>2. next.rows = Append(st.rows, row) /\ next.pending = NoBox
    BY <1>7, <1>15, <2>1
  <2>3. k + 1 \notin B
    BY <1>2, <2>1
  <2>4. row \in Rows
    BY <1>15, FlushedIs
  <2>5. j \in 1 .. n /\ j \in B /\ k \in j .. n
    <3>1. j \in 1 .. n /\ j \in B /\ j <= k
      BY <1>12, <1>15
    <3> HIDE DEF j
    <3> QED BY <1>1, <3>1
  <2>6. Criterion(lines, j) = [at |-> j, checked |-> plain[j] = "- [x]", link |-> p]
    <3>1. NoneBetween(Plain(lines), j, k + 1, Stops)
      BY <1>12, <1>15 DEF plain
    <3> HIDE DEF j
    <3>2. Criterion(lines, j) =
           [at |-> j, checked |-> Plain(lines)[j] = "- [x]",
            link |-> IF k # n /\ Plain(lines)[k + 1] \in Links THEN Plain(lines)[k + 1] ELSE "none"]
      BY <2>1, <2>5, <3>1, CriterionIsWritten DEF p, plain
    <3> QED BY <1>1, <1>15, <3>2 DEF p, plain
  <2>7. row = Criterion(lines, j)
    BY <1>12, <1>15, <2>6 DEF Row
  <2>8. Rank(B, j) = Len(st.rows) + 1 /\ Rank(B, k) = Len(st.rows) + 1
    BY <1>12, <1>15
  <2> HIDE DEF j, row
  <2>9. RowsRead(lines, Append(st.rows, row)) /\ Len(Append(st.rows, row)) = Len(st.rows) + 1
    <3>1. RowsRead(lines, Append(st.rows, Criterion(lines, j)))
      BY <1>4, <1>5, <2>4, <2>5, <2>7, <2>8, RowAppended DEF B
    <3> QED BY <1>5, <2>4, <2>7, <3>1
  <2> QED BY <1>10, <2>2, <2>3, <2>8, <2>9
<1>16. ASSUME ~st.over /\ (~st.inside \/ p \notin Stops \/ (p \in Links /\ st.pending = NoBox)) PROVE Good
  <2>1. next.rows = st.rows /\ next.pending = st.pending
    <3>1. ~st.inside \/ told \notin Stops \/ (told \in Links /\ st.pending = NoBox)
      BY <1>6, <1>8, <1>16
    <3> QED BY <1>7, <1>16, <3>1
  <2>2. k + 1 \notin B
    BY <1>2, <1>4, <1>8, <1>16
  <2>3. CASE st.pending = NoBox
    BY <1>4, <1>10, <2>1, <2>2, <2>3
  <2>4. CASE st.pending # NoBox
    <3>1. p \notin Stops /\ st.inside
      BY <1>12, <1>16, <2>4
    <3>2. next.inside /\ ~next.over
      BY <1>6, <1>7, <1>8, <1>16, <3>1
    <3>3. st.pending.at \in 0 .. k /\ st.pending.at <= k + 1
      <4>1. st.pending.at \in 1 .. n /\ st.pending.at <= k
        BY <1>12, <2>4
      <4> QED BY <1>1, <4>1
    <3>4. NoneBetween(plain, st.pending.at, k + 1 + 1, Stops)
      BY <1>11, <1>12, <2>4, <3>1, <3>3
    <3>5. BoxOpen(lines, k + 1, next)
      BY <1>10, <1>12, <2>1, <2>2, <2>4, <3>2, <3>3, <3>4 DEF BoxOpen, B, plain
    <3> QED BY <1>4, <2>1, <2>4, <3>5
  <2> QED BY <2>3, <2>4
<1>17. Good
  BY <1>8, <1>13, <1>14, <1>15, <1>16
<1> QED BY <1>9, <1>17 DEF AnnotationsRead, B, next, line

(* Every checkbox of the Success Criteria is a row, in order, with the     *)
(* link on the next line that is not blank, unless one stands further down *)
(* (annotations.rs).                                                       *)
LEMMA CriteriaAreWritten ==
  ASSUME NEW lines \in Seq(AnnotationLines), LinksFollow(lines)
  PROVE  ParseAnnotations(lines) = CriteriaWritten(lines)
<1> DEFINE n == Len(lines)
           B == BoxesOf(lines)
           rows == ParseAnnotations(lines)
<1>1. n \in Nat /\ DOMAIN lines = 1 .. n /\ Positions(lines) = 1 .. n
  BY DEF Positions
<1> HIDE DEF n
<1>2. PICK g : /\ g[0] = AnnotationsAtFirst /\ ParseAnnotations(lines) = Flushed(g[n])
               /\ \A k \in 0 .. n : g[k] \in AnnotationStates
               /\ \A k \in 0 .. n - 1 : g[k + 1] = AnnotationStep(g[k], lines[k + 1])
  BY <1>1, AnnotationFold
<1> DEFINE T == {k \in 0 .. n : AnnotationsRead(lines, k, g[k])}
<1>3. B \subseteq 1 .. n
  BY <1>1 DEF BoxesOf
<1>4. Rank(B, 0) = 0 /\ Rank(B, n) = Cardinality(B)
  BY <1>1, <1>3, RankSteps
<1>5. 0 \in T
  <2>1. ~SeenCriteria(lines, 0) /\ ~InCriteriaAfter(lines, 0)
    BY DEF SeenCriteria, InCriteriaAfter
  <2>2. Outside(lines, 0)
    <3>1. {k \in 1 .. 0 : lines[k] = "fence"} = {}
      OBVIOUS
    <3>2. Fences(lines, 0) = 0
      BY <3>1, FS_EmptySet DEF Fences
    <3> QED BY <3>2 DEF Outside
  <2>3. /\ g[0].n = 0 /\ g[0].fence = FALSE /\ g[0].inside = FALSE /\ g[0].over = FALSE
        /\ g[0].pending = NoBox /\ g[0].rows = <<>>
    BY <1>2 DEF AnnotationsAtFirst
  <2>4. RowsRead(lines, <<>>)
    <3>1. Len(<<>>) = 0
      OBVIOUS
    <3>2. \A j \in B : Rank(B, j) \in 1 .. Cardinality(B)
      BY <1>1, <1>3, RankIs
    <3>3. \A j \in B : ~(Rank(B, j) <= 0)
      BY <3>2
    <3> QED BY <3>1, <3>3 DEF RowsRead
  <2>5. AnnotationsRead(lines, 0, g[0])
    <3>1. Len(<<>>) = 0
      OBVIOUS
    <3> QED BY <1>4, <2>1, <2>2, <2>3, <2>4, <3>1 DEF AnnotationsRead
  <2>6. 0 \in 0 .. n
    BY <1>1
  <2> QED BY <2>5, <2>6
<1>6. ASSUME NEW k \in 0 .. n - 1, k \in T PROVE k + 1 \in T
  <2>1. g[k] \in AnnotationStates /\ g[k + 1] = AnnotationStep(g[k], lines[k + 1]) /\ k + 1 \in 0 .. n
    BY <1>1, <1>2
  <2> QED BY <1>1, <1>6, <2>1, AnnotationsReadOn
<1> HIDE DEF T
<1>7. n \in T
  <2>1. n \in 0 .. n
    BY <1>1
  <2> QED BY <1>1, <1>5, <1>6, <2>1, UpTo
<1>8. RowsRead(lines, rows) /\ rows \in Seq(Rows) /\ Len(rows) = Cardinality(B)
  <2>1. g[n] \in AnnotationStates /\ AnnotationsRead(lines, n, g[n]) /\ n \in 0 .. n
    BY <1>1, <1>2, <1>7 DEF T
  <2>2. RowsRead(lines, Flushed(g[n])) /\ Flushed(g[n]) \in Seq(Rows) /\ Len(Flushed(g[n])) = Rank(B, n)
    BY <1>1, <2>1, BoxFlushed
  <2> QED BY <1>2, <1>4, <2>2
<1> HIDE DEF rows
<1> DEFINE nth(r) == CHOOSE j \in B : Cardinality({i \in B : i <= j}) = r
<1>9. ASSUME NEW r \in 1 .. Cardinality(B) PROVE rows[r] = Criterion(lines, nth(r))
  <2>1. nth(r) = CHOOSE j \in B : Rank(B, j) = r
    BY Zenon DEF Rank
  <2>2. LET j == CHOOSE x \in B : Rank(B, x) = r IN
        j \in B /\ Rank(B, j) = r /\ \A x \in B : Rank(B, x) = r => x = j
    BY <1>1, <1>3, RankIs
  <2> HIDE DEF nth
  <2>3. nth(r) \in B /\ Rank(B, nth(r)) = r
    BY <2>1, <2>2
  <2>4. r <= Len(rows)
    BY <1>8
  <2> QED BY <1>8, <2>3, <2>4 DEF RowsRead
<1> DEFINE links(j) == {k \in Positions(lines) : /\ j < k /\ Plain(lines)[k] \in Links
                                                 /\ OnNextLine(Plain(lines), j, k)}
           row(j) == [at |-> j, checked |-> Plain(lines)[j] = "- [x]",
                      link |-> IF links(j) = {} THEN "none"
                               ELSE Plain(lines)[CHOOSE k \in links(j) : TRUE]]
<1>12. ASSUME NEW j \in B PROVE row(j) = Criterion(lines, j)
  <2>1. j \in Positions(lines) /\ Plain(lines)[j] \in Boxes
    BY DEF BoxesOf
  <2>2. ASSUME NEW k \in Positions(lines), j < k, Plain(lines)[k] \in Links
        PROVE  OnNextLine(Plain(lines), j, k) <=> NoneBetween(Plain(lines), j, k, Stops)
    <3>1. OnNextLine(Plain(lines), j, k) => NoneBetween(Plain(lines), j, k, Stops)
      BY DEF OnNextLine, NoneBetween, Stops, AnnotationLines, Boxes, Links
    <3>2. NoneBetween(Plain(lines), j, k, Stops) => OnNextLine(Plain(lines), j, k)
      BY <2>1, <2>2, Zenon DEF LinksFollow, Stops
    <3> QED BY <3>1, <3>2
  <2>3. links(j) = LinksOf(lines, j)
    BY <2>2 DEF LinksOf
  <2> HIDE DEF links
  <2> QED BY <2>3, Zenon DEF Criterion
<1>13. \A r \in 1 .. Cardinality(B) : nth(r) \in B
  <2>1. ASSUME NEW r \in 1 .. Cardinality(B) PROVE nth(r) \in B
    <3>1. nth(r) = CHOOSE j \in B : Rank(B, j) = r
      BY Zenon DEF Rank
    <3>2. LET j == CHOOSE x \in B : Rank(B, x) = r IN
          j \in B /\ Rank(B, j) = r /\ \A x \in B : Rank(B, x) = r => x = j
      BY <1>1, <1>3, RankIs
    <3> HIDE DEF nth
    <3> QED BY <3>1, <3>2
  <2> QED BY <2>1
<1>14. CriteriaWritten(lines) = [r \in 1 .. Cardinality(B) |-> row(nth(r))]
  BY Zenon DEF CriteriaWritten, BoxesOf
<1> HIDE DEF nth, B, row
<1>10. CriteriaWritten(lines) = [r \in 1 .. Cardinality(B) |-> Criterion(lines, nth(r))]
  <2>1. \A r \in 1 .. Cardinality(B) : row(nth(r)) = Criterion(lines, nth(r))
    BY <1>12, <1>13
  <2> QED BY <1>14, <2>1, Zenon
<1>11. rows = [r \in 1 .. Len(rows) |-> rows[r]]
  BY <1>8
<1> QED BY <1>8, <1>9, <1>10, <1>11 DEF rows

(* A tool found between two boundaries.                                    *)
UsedAt(body, needle, k) ==
  /\ SubSeq(body, k, k + Len(needle) - 1) = needle
  /\ BoundaryBefore(LetterAt(body, k - 1)) /\ BoundaryAfter(LetterAt(body, k + Len(needle)))

(* The search goes on behind a rejected hit until there is none: it finds  *)
(* a use wherever there is one (deps.rs).                                  *)
LEMMA CommandUseIs ==
  ASSUME NEW body \in Seq(Letters), NEW needle \in Seq(Letters), Len(needle) > 0
  PROVE  HasCommandUse(body, needle) <=> \E k \in 1 .. Len(body) + 1 - Len(needle) : UsedAt(body, needle, k)
<1> DEFINE n == Len(body)
           m == Len(needle)
           last == n + 1 - m
           hit(k) == SubSeq(body, k, k + m - 1) = needle
           good(k) == BoundaryBefore(LetterAt(body, k - 1)) /\ BoundaryAfter(LetterAt(body, k + m))
           find(i) == FindFrom(body, needle, i)
           next(f, i) == find(i) # 0 /\ (good(find(i)) \/ f[find(i) + 1])
           left(i) == \E k \in i .. last : hit(k) /\ good(k)
           from == CHOOSE f : f = [i \in 1 .. n + 1 |-> next(f, i)]
<1>1. n \in Nat /\ m \in Nat /\ m >= 1 /\ last \in Int /\ last <= n
  OBVIOUS
<1>2. HasCommandUse(body, needle) = from[1]
  BY Zenon DEF HasCommandUse
<1> HIDE DEF n, m, hit, good, last
<1>3. ASSUME NEW i \in 1 .. n + 1
      PROVE  /\ find(i) = 0 \/ (find(i) \in i .. last /\ hit(find(i)))
             /\ \A k \in i .. last : hit(k) => find(i) # 0 /\ find(i) <= k
  <2> DEFINE hits == {k \in i .. last : hit(k)}
  <2>1. find(i) = IF hits = {} THEN 0 ELSE Min(hits)
    BY Zenon DEF FindFrom, hit, n, m, last
  <2>2. hits \subseteq Nat /\ hits \subseteq i .. last /\ (\A k \in hits : hit(k)) /\ \A k \in hits : k # 0
    BY <1>1
  <2>3. \A k \in i .. last : hit(k) => k \in hits
    OBVIOUS
  <2> HIDE DEF hits, find
  <2>4. hits # {} => Min(hits) \in hits /\ \A k \in hits : Min(hits) <= k
    BY <2>2, MinIs
  <2> QED BY <2>1, <2>2, <2>3, <2>4
<1> HIDE DEF find
<1>4. ASSUME NEW i \in 1 .. n + 1
      PROVE  left(i) <=> find(i) # 0 /\ (good(find(i)) \/ left(find(i) + 1))
  <2>1. ASSUME left(i) PROVE find(i) # 0 /\ (good(find(i)) \/ left(find(i) + 1))
    <3>1. PICK k \in i .. last : hit(k) /\ good(k)
      BY <2>1
    <3>2. find(i) # 0 /\ find(i) <= k /\ find(i) \in i .. last
      BY <1>3, <3>1
    <3>3. CASE find(i) = k
      BY <3>1, <3>2, <3>3
    <3>4. CASE find(i) # k
      <4>1. k \in find(i) + 1 .. last
        BY <1>1, <3>2, <3>4
      <4> QED BY <3>1, <3>2, <4>1
    <3> QED BY <3>3, <3>4
  <2>2. ASSUME find(i) # 0, good(find(i)) \/ left(find(i) + 1) PROVE left(i)
    <3>1. find(i) \in i .. last /\ hit(find(i))
      BY <1>3, <2>2
    <3>2. CASE good(find(i))
      BY <3>1, <3>2
    <3>3. CASE left(find(i) + 1)
      <4>1. PICK k \in find(i) + 1 .. last : hit(k) /\ good(k)
        BY <3>3
      <4>2. k \in i .. last
        BY <1>1, <3>1, <4>1
      <4> QED BY <4>1, <4>2
    <3> QED BY <2>2, <3>2, <3>3
  <2> QED BY <2>1, <2>2
<1>5. ASSUME NEW i \in 1 .. n + 1, find(i) # 0
      PROVE  find(i) \in Nat /\ find(i) + 1 \in 1 .. n + 1 /\ find(i) >= i
  BY <1>1, <1>3, <1>5
<1> DEFINE known == [i \in 1 .. n + 1 |-> left(i)]
<1> HIDE DEF left
<1>6. known = [i \in 1 .. n + 1 |-> next(known, i)]
  <2>1. ASSUME NEW i \in 1 .. n + 1 PROVE left(i) = next(known, i)
    <3>1. CASE find(i) = 0
      BY <1>4, <3>1 DEF left
    <3>2. CASE find(i) # 0
      <4>1. known[find(i) + 1] = left(find(i) + 1)
        BY <1>5, <3>2
      <4>2. left(i) <=> next(known, i)
        <5> HIDE DEF known
        <5> QED BY <1>4, <3>2, <4>1
      <4>3. left(i) \in BOOLEAN
        BY Zenon DEF left
      <4>4. next(known, i) \in BOOLEAN
        <5> HIDE DEF known
        <5> QED OBVIOUS
      <4> HIDE DEF next
      <4> QED BY <4>2, <4>3, <4>4
    <3> QED BY <3>1, <3>2
  <2> HIDE DEF next
  <2> QED BY <2>1, Zenon
<1>7. from = [i \in 1 .. n + 1 |-> next(from, i)]
  <2> HIDE DEF next, known
  <2> QED BY <1>6, Zenon
<1> HIDE DEF from, known
<1>8. \A i \in 1 .. n + 1 : from[i] = next(from, i)
  <2> HIDE DEF next
  <2> QED BY <1>7, Zenon
<1>9. ASSUME NEW i \in 1 .. n + 1, find(i) # 0 => (from[find(i) + 1] <=> left(find(i) + 1))
      PROVE  from[i] <=> left(i)
  BY <1>4, <1>8, <1>9
<1> DEFINE bad == {d \in Nat : d <= n /\ ~(from[n + 1 - d] <=> left(n + 1 - d))}
<1>10. bad = {}
  <2>1. SUFFICES ASSUME bad # {} PROVE FALSE
    OBVIOUS
  <2>2. PICK d \in bad : \A e \in bad : ~(e < d)
    <3>1. bad \subseteq Nat
      OBVIOUS
    <3> HIDE DEF bad
    <3> QED BY <2>1, <3>1, LeastNatural
  <2> DEFINE i == n + 1 - d
  <2>3. d \in Nat /\ d <= n /\ ~(from[i] <=> left(i))
    BY <2>2
  <2>4. i \in 1 .. n + 1
    BY <1>1, <2>3
  <2>5. ASSUME find(i) # 0 PROVE from[find(i) + 1] <=> left(find(i) + 1)
    <3> DEFINE e == n - find(i)
    <3>1. find(i) \in Nat /\ find(i) + 1 \in 1 .. n + 1 /\ find(i) >= n + 1 - d
      BY <1>5, <2>4, <2>5
    <3>2. find(i) \in Nat /\ e \in Nat /\ e <= n /\ e < d /\ n + 1 - e = find(i) + 1
      BY <1>1, <2>3, <3>1
    <3> HIDE DEF e
    <3>3. e \notin bad
      BY <2>2, <3>2
    <3> QED BY <3>2, <3>3
  <2> HIDE DEF i
  <2> QED BY <1>9, <2>3, <2>4, <2>5
<1>11. from[1] <=> left(1)
  <2>1. n \in Nat /\ n <= n /\ n + 1 - n = 1
    BY <1>1
  <2>2. n \notin bad
    <3> HIDE DEF bad
    <3> QED BY <1>10
  <2> QED BY <2>1, <2>2
<1>12. left(1) <=> \E k \in 1 .. Len(body) + 1 - Len(needle) : UsedAt(body, needle, k)
  BY Zenon DEF left, last, hit, good, n, m, UsedAt
<1> QED BY <1>2, <1>11, <1>12

(* The tools found in a body are those it calls (deps.rs).                 *)
LEMMA ScanIsMeant ==
  ASSUME NEW body \in Seq(Letters)
  PROVE  ScanFileBody(body) = {t \in DOMAIN Tool : Called(body, t)}
<1> DEFINE n == Len(body)
<1>1. n \in Nat /\ DOMAIN body = 1 .. n
  OBVIOUS
<1>2. \A i : LetterAt(body, i) \in Letters
  <2>1. \A i \in DOMAIN body : body[i] \in Letters
    OBVIOUS
  <2>2. " " \in Letters
    BY DEF Letters
  <2> QED BY <2>1, <2>2, Zenon DEF LetterAt
<1>3. ASSUME NEW t \in DOMAIN Tool
      PROVE  HasCommandUse(body, Tool[t]) <=> Called(body, t)
  <2> DEFINE needle == Tool[t]
             m == Len(needle)
  <2>1. needle \in Seq(Letters) /\ m \in {2, 3} /\ DOMAIN needle = 1 .. m
        /\ \A q \in 1 .. m : needle[q] \in {"c", "g"}
    <3>1. t = "cc" \/ t = "gcc"
      BY DEF Tool
    <3>2. CASE t = "cc"
      <4>1. needle = <<"c", "c">>
        BY <3>2 DEF Tool
      <4> HIDE DEF needle
      <4>2. m = 2
        BY <4>1
      <4>3. /\ DOMAIN needle = 1 .. m /\ \A q \in 1 .. m : needle[q] \in {"c", "g"}
        <5>1. \A q \in 1 .. m : q = 1 \/ q = 2
          BY <4>2
        <5> QED BY <4>1, <4>2, <5>1
      <4>4. needle \in Seq(Letters)
        <5>1. "c" \in Letters /\ "g" \in Letters
          BY DEF Letters
        <5> QED BY <4>1, <5>1
      <4> QED BY <4>2, <4>3, <4>4
    <3>3. CASE t = "gcc"
      <4>1. needle = <<"g", "c", "c">>
        BY <3>3 DEF Tool
      <4> HIDE DEF needle
      <4>2. m = 3
        BY <4>1
      <4>3. /\ DOMAIN needle = 1 .. m /\ \A q \in 1 .. m : needle[q] \in {"c", "g"}
        <5>1. \A q \in 1 .. m : q = 1 \/ q = 2 \/ q = 3
          BY <4>2
        <5> QED BY <4>1, <4>2, <5>1
      <4>4. needle \in Seq(Letters)
        <5>1. "c" \in Letters /\ "g" \in Letters
          BY DEF Letters
        <5> QED BY <4>1, <5>1
      <4> QED BY <4>2, <4>3, <4>4
    <3> QED BY <3>1, <3>2, <3>3
  <2> HIDE DEF needle
  <2>2. HasCommandUse(body, needle) <=> \E k \in 1 .. n + 1 - m : UsedAt(body, needle, k)
    <3>1. Len(needle) > 0
      BY <2>1
    <3>2. HasCommandUse(body, needle) <=>
            \E k \in 1 .. Len(body) + 1 - Len(needle) : UsedAt(body, needle, k)
      BY <2>1, <3>1, CommandUseIs
    <3> QED BY <3>2 DEF needle
  <2> HIDE DEF m, n
  <2>3. ASSUME NEW k \in 1 .. n + 1 - m, UsedAt(body, needle, k) PROVE Called(body, t)
    <3> DEFINE j == k + m - 1
    <3>1. k \in 1 .. n /\ j \in 1 .. n /\ k <= j /\ j + 1 = k + m /\ m \in Nat
      BY <1>1, <2>1
    <3>2. SubSeq(body, k, j) = needle /\ LetterAt(body, k - 1) \in {" ", "("} /\ LetterAt(body, j + 1) \in {" ", ")"}
      <4>1. /\ SubSeq(body, k, k + m - 1) = needle
            /\ BoundaryBefore(LetterAt(body, k - 1)) /\ BoundaryAfter(LetterAt(body, k + m))
        BY <2>3 DEF UsedAt, m
      <4> QED BY <3>1, <4>1 DEF BoundaryBefore, BoundaryAfter
    <3> HIDE DEF j
    <3>3. \A q \in k .. j : LetterAt(body, q) \in {"c", "g"}
      <4>1. ASSUME NEW q \in k .. j PROVE LetterAt(body, q) \in {"c", "g"}
        <5>1. q \in 1 .. n /\ q - k + 1 \in 1 .. j - k + 1 /\ k + (q - k + 1) - 1 = q
          BY <1>1, <3>1
        <5>2. Len(SubSeq(body, k, j)) = j - k + 1 /\ SubSeq(body, k, j)[q - k + 1] = body[k + (q - k + 1) - 1]
          BY <1>1, <3>1, <5>1
        <5>3. q - k + 1 \in 1 .. m /\ needle[q - k + 1] = body[q]
          BY <3>2, <5>1, <5>2 DEF m
        <5> QED BY <1>1, <2>1, <5>1, <5>3 DEF LetterAt
      <4> QED BY <4>1
    <3>4. WordAt(body, k, j)
      BY <3>2, <3>3 DEF WordAt
    <3>5. k \in DOMAIN body /\ j \in DOMAIN body
      BY <1>1, <3>1
    <3>6. LetterAt(body, k - 1) # ")" /\ LetterAt(body, j + 1) # "("
      BY <3>2
    <3> QED BY <3>1, <3>2, <3>4, <3>5, <3>6 DEF Called, needle
  <2>4. ASSUME Called(body, t) PROVE \E k \in 1 .. n + 1 - m : UsedAt(body, needle, k)
    <3>1. PICK i \in DOMAIN body, j \in DOMAIN body :
            /\ i <= j /\ WordAt(body, i, j) /\ SubSeq(body, i, j) = needle
            /\ LetterAt(body, i - 1) # ")" /\ LetterAt(body, j + 1) # "("
      BY <2>4 DEF Called, needle
    <3>2. i \in 1 .. n /\ j \in 1 .. n /\ i <= j
      BY <1>1, <3>1
    <3>3. Len(SubSeq(body, i, j)) = j - i + 1
      BY <1>1, <3>2 DEF n
    <3>4. m = j - i + 1
      BY <3>1, <3>3 DEF m
    <3>5. i \in 1 .. n + 1 - m /\ i + m - 1 = j /\ i + m = j + 1
      BY <1>1, <3>2, <3>4
    <3>6. BoundaryBefore(LetterAt(body, i - 1)) /\ BoundaryAfter(LetterAt(body, j + 1))
      BY <1>2, <3>1 DEF WordAt, Letters, BoundaryBefore, BoundaryAfter
    <3> QED BY <3>1, <3>5, <3>6 DEF UsedAt, m
  <2> QED BY <2>2, <2>3, <2>4 DEF needle
<1> QED BY <1>3 DEF ScanFileBody

(* normalize is the loop over the components (annotations.rs).             *)
Components == {"/", "w", "specs", "..", ".", "t"}

(* A ".." pops what Path::pop pops, a "." nothing, and a name is pushed.   *)
LEMMA NormalStepType ==
  ASSUME NEW x \in Seq(Components), NEW c \in Components
  PROVE  /\ NormalStep(x, c) \in Seq(Components)
         /\ c = ".." => NormalStep(x, c) = IF x = <<"/">> THEN x ELSE SubSeq(x, 1, Len(x) - 1)
         /\ c = "." => NormalStep(x, c) = x
         /\ c \notin {"..", "."} => NormalStep(x, c) = Append(x, c)
<1>1. CASE c = ".."
  <2>1. NormalStep(x, c) = IF x = <<"/">> THEN x ELSE Front(x)
    BY <1>1 DEF NormalStep
  <2>2. SubSeq(x, 1, Len(x) - 1) \in Seq(Components)
    OBVIOUS
  <2> QED BY <1>1, <2>1, <2>2 DEF Front
<1>2. CASE c = "."
  BY <1>2 DEF NormalStep
<1>3. CASE c \notin {"..", "."}
  BY <1>3 DEF NormalStep
<1> QED BY <1>1, <1>2, <1>3

(* The path as it is built, component by component.                        *)
LEMMA NormalFold ==
  ASSUME NEW path \in Seq(Components), NEW n \in Nat, DOMAIN path = 1 .. n
  PROVE  \E g : /\ g[0] = <<>> /\ Normalize(path) = g[n]
                /\ \A k \in 0 .. n : g[k] \in Seq(Components)
                /\ \A k \in 0 .. n - 1 : g[k + 1] = NormalStep(g[k], path[k + 1])
<1> DEFINE S == Seq(Components)
           base == <<>>
           step == [i \in 1 .. n |-> [x \in S |-> NormalStep(x, path[i])]]
           iter == CHOOSE f : f = [D \in SUBSET (DOMAIN path) |->
                                     IF D = {} THEN base
                                     ELSE NormalStep(f[D \ {Max(D)}], path[Max(D)])]
<1>0. ASSUME NEW i \in 1 .. n, NEW x \in S PROVE NormalStep(x, path[i]) \in S
  <2>1. path[i] \in Components
    OBVIOUS
  <2> QED BY <2>1, NormalStepType
<1>1. step \in [1 .. n -> [S -> S]]
  <2> HIDE DEF S
  <2> QED BY <1>0
<1>2. base \in S
  OBVIOUS
<1> HIDE DEF S, base
<1>4. PICK f \in [SUBSET (1 .. n) -> S] : Folds(f, step, base, n)
  <2> HIDE DEF step
  <2> QED BY <1>1, <1>2, FoldsExist
<1>5. ASSUME NEW D \in SUBSET (1 .. n), D # {} PROVE Max(D) \in 1 .. n /\ f[D \ {Max(D)}] \in S
  <2>1. Max(D) \in D
    <3>1. D \subseteq 0 .. n
      OBVIOUS
    <3> QED BY <1>5, <3>1, MaxIs
  <2> QED BY <2>1
<1>6. f = [D \in SUBSET (DOMAIN path) |-> IF D = {} THEN base
                                           ELSE NormalStep(f[D \ {Max(D)}], path[Max(D)])]
  <2>1. ASSUME NEW D \in SUBSET (1 .. n), D # {}
        PROVE  step[Max(D)][f[D \ {Max(D)}]] = NormalStep(f[D \ {Max(D)}], path[Max(D)])
    BY <1>5, <2>1
  <2>2. f = [D \in SUBSET (1 .. n) |-> IF D = {} THEN base ELSE step[Max(D)][f[D \ {Max(D)}]]]
    BY <1>4, Zenon DEF Folds
  <2> HIDE DEF step
  <2> QED BY <2>1, <2>2
<1>7. iter = [D \in SUBSET (DOMAIN path) |-> IF D = {} THEN base
                                              ELSE NormalStep(iter[D \ {Max(D)}], path[Max(D)])]
  BY <1>6, Zenon
<1>8. Normalize(path) = iter[DOMAIN path]
  BY Zenon DEF Normalize, FoldLeft, MapThenFoldSet, base
<1> DEFINE g == [k \in 0 .. n |-> iter[1 .. k]]
<1> HIDE DEF iter
<1>9. g[0] = base /\ g[n] = iter[1 .. n] /\ \A k \in 0 .. n - 1 : g[k] = iter[1 .. k] /\ g[k + 1] = iter[1 .. k + 1]
  <2>1. iter[{}] = base
    BY <1>7
  <2> QED BY <2>1, FirstPositions
<1>10. ASSUME NEW k \in 0 .. n - 1 PROVE g[k + 1] = NormalStep(g[k], path[k + 1])
  <2>1. iter[1 .. k + 1] = NormalStep(iter[(1 .. k + 1) \ {Max(1 .. k + 1)}], path[Max(1 .. k + 1)])
    BY <1>7, FirstPositions
  <2>2. Max(1 .. k + 1) = k + 1 /\ (1 .. k + 1) \ {k + 1} = 1 .. k
    BY FirstPositions
  <2>3. g[k] = iter[1 .. k] /\ g[k + 1] = iter[1 .. k + 1]
    BY <1>9
  <2> HIDE DEF g
  <2> QED BY <2>1, <2>2, <2>3, Zenon
<1> HIDE DEF g
<1>11. \A k \in 0 .. n : g[k] \in S
  <2> DEFINE T == {k \in 0 .. n : g[k] \in S}
  <2>1. 0 \in T
    BY <1>2, <1>9
  <2>2. ASSUME NEW k \in 0 .. n - 1, k \in T PROVE k + 1 \in T
    <3>1. k + 1 \in 1 .. n /\ k + 1 \in 0 .. n
      OBVIOUS
    <3> QED BY <1>0, <1>10, <2>2, <3>1
  <2> HIDE DEF T
  <2>3. \A k \in 0 .. n : k \in T
    BY <2>1, <2>2, UpTo
  <2> QED BY <2>3 DEF T
<1> QED BY <1>8, <1>9, <1>10, <1>11 DEF base, S

(* Climbs and descents between two components of a path.                   *)
Count(P, i, j) == Cardinality({q \in i .. j : q \in P})
Ups(path) == {q \in DOMAIN path : path[q] = ".."}
Downs(path) == {q \in DOMAIN path : path[q] \notin {"..", "."}}
StaysTo(path, k, i) ==
  /\ path[i] \notin {"..", "."}
  /\ i = 1 \/ \A j \in i + 1 .. k : Count(Ups(path), i + 1, j) <= Count(Downs(path), i + 1, j)
Staying(path, k) == {i \in 1 .. k : StaysTo(path, k, i)}

(* One more component counts once, if it is of the kind counted.           *)
LEMMA CountNext ==
  ASSUME NEW P, NEW k \in Nat, NEW i \in 1 .. k + 1
  PROVE  /\ Count(P, i, k) \in Nat
         /\ Count(P, i, k + 1) = IF k + 1 \in P THEN Count(P, i, k) + 1 ELSE Count(P, i, k)
         /\ Count(P, k + 1, k) = 0
<1> DEFINE E(j) == {q \in i .. j : q \in P}
<1>1. IsFiniteSet(E(k)) /\ Cardinality(E(k)) \in Nat
  <2>1. E(k) \subseteq i .. k /\ IsFiniteSet(i .. k)
    BY FS_Interval
  <2> HIDE DEF E
  <2> QED BY <2>1, FS_Subset, FS_CardinalityType
<1>2. k + 1 \notin E(k) /\ k + 1 \in i .. k + 1 /\ \A q \in i .. k + 1 : q = k + 1 \/ q \in i .. k
  OBVIOUS
<1>3. k + 1 \in P => E(k + 1) = E(k) \cup {k + 1}
  <2>1. \A q \in i .. k : q \in i .. k + 1
    OBVIOUS
  <2> QED BY <1>2, <2>1
<1>4. k + 1 \notin P => E(k + 1) = E(k)
  <2>1. \A q \in i .. k : q \in i .. k + 1
    OBVIOUS
  <2> QED BY <1>2, <2>1
<1>5. {q \in k + 1 .. k : q \in P} = {} /\ Cardinality({}) = 0
  BY FS_EmptySet
<1> HIDE DEF E
<1>6. Cardinality(E(k + 1)) = IF k + 1 \in P THEN Cardinality(E(k)) + 1 ELSE Cardinality(E(k))
  BY <1>1, <1>2, <1>3, <1>4, FS_AddElement
<1> QED BY <1>1, <1>5, <1>6 DEF Count, E

(* Ranks when a last position comes.                                       *)
LEMMA RankLast ==
  ASSUME NEW n \in Nat, NEW D, D \subseteq 1 .. n, NEW k \in 0 .. n - 1, D \subseteq 1 .. k
  PROVE  /\ Cardinality(D) \in Nat /\ Cardinality(D \cup {k + 1}) = Cardinality(D) + 1
         /\ Rank(D \cup {k + 1}, k + 1) = Cardinality(D) + 1
         /\ \A j \in 1 .. k : Rank(D \cup {k + 1}, j) = Rank(D, j)
<1> DEFINE m == k + 1
           E == D \cup {m}
<1>1. m \notin D /\ m \in Nat /\ (\A j \in E : j <= m) /\ \A j \in 1 .. k : ~(m <= j)
  OBVIOUS
<1>2. IsFiniteSet(D) /\ Cardinality(D) \in Nat
  <2>1. IsFiniteSet(1 .. k)
    BY FS_Interval
  <2> QED BY <2>1, FS_Subset, FS_CardinalityType
<1>3. Cardinality(E) = Cardinality(D) + 1
  <2> HIDE DEF m
  <2> QED BY <1>1, <1>2, FS_AddElement
<1>4. {i \in E : i <= m} = E
  BY <1>1
<1>5. \A j \in 1 .. k : {i \in E : i <= j} = {i \in D : i <= j}
  BY <1>1
<1> HIDE DEF m
<1> QED BY <1>2, <1>3, <1>4, <1>5 DEF Rank, m

(* Ranks when the last position goes.                                      *)
LEMMA RankFirst ==
  ASSUME NEW n \in Nat, NEW D, D \subseteq 1 .. n, NEW x \in D, \A i \in D : i <= x
  PROVE  /\ Rank(D, x) = Cardinality(D) /\ Cardinality(D) \in Nat
         /\ Cardinality(D \ {x}) = Cardinality(D) - 1
         /\ \A j \in D \ {x} : Rank(D \ {x}, j) = Rank(D, j) /\ Rank(D, j) < Cardinality(D)
<1>1. IsFiniteSet(D) /\ Cardinality(D) \in Nat
  <2>1. IsFiniteSet(1 .. n)
    BY FS_Interval
  <2> QED BY <2>1, FS_Subset, FS_CardinalityType
<1>2. Cardinality(D \ {x}) = Cardinality(D) - 1
  BY <1>1, FS_RemoveElement
<1>3. {i \in D : i <= x} = D
  OBVIOUS
<1>4. ASSUME NEW j \in D \ {x} PROVE Rank(D \ {x}, j) = Rank(D, j) /\ Rank(D, j) < Cardinality(D)
  <2>1. j \in 0 .. n /\ x \in 0 .. n /\ j < x
    OBVIOUS
  <2>2. {i \in D \ {x} : i <= j} = {i \in D : i <= j}
    <3>1. ~(x <= j)
      BY <2>1
    <3> QED BY <3>1
  <2>3. Rank(D, j) < Rank(D, x)
    BY <2>1, RankIs
  <2>4. Rank(D, x) = Cardinality(D)
    BY <1>3, Zenon DEF Rank
  <2> QED BY <2>2, <2>3, <2>4 DEF Rank
<1> QED BY <1>1, <1>2, <1>3, <1>4, Zenon DEF Rank

(* What is built of a path after k components: those that stay, and of     *)
(* each but the root as many stay behind it as it is descents ahead.       *)
WalkedTo(path, k, s) ==
  /\ 1 \in Staying(path, k) /\ s \in Seq(Components) /\ Len(s) = Cardinality(Staying(path, k))
  /\ \A i \in Staying(path, k) : s[Rank(Staying(path, k), i)] = path[i]
  /\ \A i \in Staying(path, k) \ {1} :
       Count(Downs(path), i + 1, k) =
         Count(Ups(path), i + 1, k) + (Cardinality(Staying(path, k)) - Rank(Staying(path, k), i))

(* One more component is walked.                                           *)
LEMMA WalkedOn ==
  ASSUME NEW path \in Seq(Components), NEW n \in Nat, DOMAIN path = 1 .. n, path[1] = "/",
         NEW k \in 1 .. n - 1, NEW s, WalkedTo(path, k, s)
  PROVE  WalkedTo(path, k + 1, NormalStep(s, path[k + 1]))
<1> DEFINE m == k + 1
           c == path[m]
           A == Staying(path, k)
           B == Staying(path, m)
           up(i, j) == Count(Ups(path), i, j)
           down(i, j) == Count(Downs(path), i, j)
           next == NormalStep(s, c)
           card == Cardinality(A)
<1>1. /\ k \in Nat /\ k \in 0 .. n - 1 /\ m \in 1 .. n /\ m \in Nat /\ k < m /\ k \in 1 .. n
      /\ \A i \in 1 .. m : i = m \/ i \in 1 .. k
  OBVIOUS
<1>2. c \in Components
  BY <1>1
<1>3. /\ 1 \in A /\ s \in Seq(Components) /\ Len(s) = card
      /\ \A i \in A : s[Rank(A, i)] = path[i]
      /\ \A i \in A \ {1} : down(i + 1, k) = up(i + 1, k) + (card - Rank(A, i))
  BY DEF WalkedTo
<1>4. A \subseteq 1 .. k /\ B \subseteq 1 .. m /\ A \subseteq 1 .. n /\ B \subseteq 1 .. n
  BY <1>1 DEF Staying
<1>5. card \in Nat /\ \A i \in A : Rank(A, i) \in 1 .. card
  <2>1. \A i \in A : Rank(A, i) \in 1 .. card
    BY <1>4, RankIs
  <2>2. IsFiniteSet(1 .. n)
    BY FS_Interval
  <2>3. card \in Nat
    BY <1>4, <2>2, FS_Subset, FS_CardinalityType
  <2> QED BY <2>1, <2>3
<1>6. ASSUME NEW i \in 1 .. k
      PROVE  /\ up(i + 1, k) \in Nat /\ down(i + 1, k) \in Nat
             /\ up(i + 1, m) = IF c = ".." THEN up(i + 1, k) + 1 ELSE up(i + 1, k)
             /\ down(i + 1, m) = IF c \notin {"..", "."} THEN down(i + 1, k) + 1 ELSE down(i + 1, k)
  <2>1. i + 1 \in 1 .. k + 1
    OBVIOUS
  <2>2. (m \in Ups(path) <=> c = "..") /\ (m \in Downs(path) <=> c \notin {"..", "."})
    BY <1>1 DEF Ups, Downs
  <2> QED BY <1>1, <2>1, <2>2, CountNext
<1>7. up(m + 1, m) = 0 /\ down(m + 1, m) = 0
  <2>1. m + 1 \in 1 .. m + 1
    BY <1>1
  <2> QED BY <1>1, <2>1, CountNext
<1>8. ASSUME NEW i \in 1 .. k
      PROVE  i \in B <=> i \in A /\ (i = 1 \/ up(i + 1, m) <= down(i + 1, m))
  <2>1. \A j \in i + 1 .. m : j = m \/ j \in i + 1 .. k
    OBVIOUS
  <2>2. m \in i + 1 .. m /\ (\A j \in i + 1 .. k : j \in i + 1 .. m) /\ i \in 1 .. m
    OBVIOUS
  <2>3. StaysTo(path, m, i) <=> StaysTo(path, k, i) /\ (i = 1 \/ up(i + 1, m) <= down(i + 1, m))
    <3> HIDE DEF m
    <3> QED BY <2>1, <2>2 DEF StaysTo
  <2> QED BY <2>2, <2>3 DEF Staying
<1>9. m \in B <=> c \notin {"..", "."}
  <2>1. \A j \in m + 1 .. m : FALSE
    BY <1>1
  <2>2. m \in 1 .. m
    BY <1>1
  <2> QED BY <2>1, <2>2 DEF Staying, StaysTo
<1>10. /\ next \in Seq(Components)
       /\ c = ".." => next = IF s = <<"/">> THEN s ELSE SubSeq(s, 1, Len(s) - 1)
       /\ c = "." => next = s
       /\ c \notin {"..", "."} => next = Append(s, c)
  BY <1>2, <1>3, NormalStepType
<1> DEFINE Good == /\ 1 \in B /\ next \in Seq(Components) /\ Len(next) = Cardinality(B)
                   /\ \A i \in B : next[Rank(B, i)] = path[i]
                   /\ \A i \in B \ {1} : down(i + 1, m) = up(i + 1, m) + (Cardinality(B) - Rank(B, i))
<1>11. ASSUME c \notin {"..", "."} PROVE Good
  <2>1. B = A \cup {m}
    <3>1. ASSUME NEW i \in A PROVE i \in B
      <4>1. i \in 1 .. k /\ Rank(A, i) \in 1 .. card
        BY <1>4, <1>5
      <4>2. CASE i = 1
        BY <1>8, <4>1, <4>2
      <4>3. CASE i # 1
        <5>1. down(i + 1, k) = up(i + 1, k) + (card - Rank(A, i))
          BY <1>3, <4>3
        <5>2. up(i + 1, m) = up(i + 1, k) /\ down(i + 1, m) = down(i + 1, k) + 1 /\ up(i + 1, k) \in Nat
          BY <1>6, <1>11, <4>1
        <5>3. up(i + 1, m) <= down(i + 1, m)
          <6> HIDE DEF up, down, A, card
          <6> QED BY <1>5, <4>1, <5>1, <5>2
        <5> QED BY <1>8, <4>1, <5>3
      <4> QED BY <4>2, <4>3
    <3>2. ASSUME NEW i \in B PROVE i \in A \cup {m}
      BY <1>1, <1>4, <1>8
    <3>3. m \in B
      BY <1>9, <1>11
    <3> QED BY <3>1, <3>2, <3>3
  <2>2. /\ Cardinality(B) = card + 1 /\ Rank(B, m) = card + 1
        /\ \A j \in 1 .. k : Rank(B, j) = Rank(A, j)
    <3>1. /\ Cardinality(A) \in Nat /\ Cardinality(A \cup {k + 1}) = Cardinality(A) + 1
          /\ Rank(A \cup {k + 1}, k + 1) = Cardinality(A) + 1
          /\ \A j \in 1 .. k : Rank(A \cup {k + 1}, j) = Rank(A, j)
      BY <1>1, <1>4, RankLast
    <3> QED BY <2>1, <3>1
  <2>3. next = Append(s, c)
    BY <1>10, <1>11
  <2>4. 1 \in B
    BY <1>3, <2>1
  <2>5. ASSUME NEW i \in A PROVE i \in 1 .. k /\ Rank(B, i) = Rank(A, i) /\ Rank(A, i) \in 1 .. card
    BY <1>4, <1>5, <2>2
  <2> HIDE DEF A, B, next, card, up, down
  <2>6. Len(next) = card + 1 /\ next[card + 1] = c /\ \A r \in 1 .. card : next[r] = s[r]
    BY <1>2, <1>3, <2>3
  <2>7. \A i \in B : next[Rank(B, i)] = path[i]
    <3>1. ASSUME NEW i \in A PROVE next[Rank(B, i)] = path[i]
      BY <1>3, <2>5, <2>6
    <3>2. next[Rank(B, m)] = path[m]
      BY <2>2, <2>6
    <3> QED BY <2>1, <3>1, <3>2
  <2>8. \A i \in B \ {1} : down(i + 1, m) = up(i + 1, m) + (Cardinality(B) - Rank(B, i))
    <3>1. ASSUME NEW i \in A, i # 1 PROVE down(i + 1, m) = up(i + 1, m) + (Cardinality(B) - Rank(B, i))
      <4>1. down(i + 1, k) = up(i + 1, k) + (card - Rank(A, i))
        BY <1>3, <3>1
      <4>2. up(i + 1, m) = up(i + 1, k) /\ down(i + 1, m) = down(i + 1, k) + 1 /\ up(i + 1, k) \in Nat
        BY <1>6, <1>11, <2>5
      <4> QED BY <1>5, <2>2, <2>5, <4>1, <4>2
    <3>2. down(m + 1, m) = up(m + 1, m) + (Cardinality(B) - Rank(B, m))
      BY <1>5, <1>7, <2>2
    <3> QED BY <2>1, <3>1, <3>2
  <2> QED BY <1>10, <2>2, <2>4, <2>6, <2>7, <2>8
<1>12. ASSUME c = "." PROVE Good
  <2>1. \A i \in 1 .. k : up(i + 1, m) = up(i + 1, k) /\ down(i + 1, m) = down(i + 1, k)
    BY <1>6, <1>12
  <2>2. B = A
    <3>1. ASSUME NEW i \in A PROVE i \in B
      <4>1. i \in 1 .. k /\ Rank(A, i) \in 1 .. card
        BY <1>4, <1>5
      <4>2. CASE i = 1
        BY <1>8, <4>1, <4>2
      <4>3. CASE i # 1
        <5>1. down(i + 1, k) = up(i + 1, k) + (card - Rank(A, i)) /\ up(i + 1, k) \in Nat
          BY <1>3, <1>6, <4>1, <4>3
        <5>2. up(i + 1, m) <= down(i + 1, m)
          <6>1. up(i + 1, m) = up(i + 1, k) /\ down(i + 1, m) = down(i + 1, k)
            BY <2>1, <4>1
          <6> HIDE DEF up, down, A, card
          <6> QED BY <1>5, <4>1, <5>1, <6>1
        <5> QED BY <1>8, <4>1, <5>2
      <4> QED BY <4>2, <4>3
    <3>2. ASSUME NEW i \in B PROVE i \in A
      BY <1>1, <1>4, <1>8, <1>9, <1>12
    <3> QED BY <3>1, <3>2
  <2>3. next = s
    BY <1>10, <1>12
  <2>4. \A i \in A : i \in 1 .. k
    BY <1>4
  <2> HIDE DEF A, B, next, up, down
  <2> QED BY <1>3, <2>1, <2>2, <2>3, <2>4 DEF card
<1>13. ASSUME c = ".." PROVE Good
  <2>0. /\ c # "." /\ m \notin B
        /\ \A i \in 1 .. k : up(i + 1, m) = up(i + 1, k) + 1 /\ down(i + 1, m) = down(i + 1, k)
    BY <1>6, <1>9, <1>13
  <2> DEFINE x == Max(A)
  <2>1. x \in A /\ \A i \in A : i <= x
    <3>1. A \subseteq 0 .. n /\ A # {}
      BY <1>3, <1>4
    <3> HIDE DEF A
    <3> QED BY <3>1, MaxIs
  <2>2. /\ Rank(A, x) = card /\ Cardinality(A \ {x}) = card - 1
        /\ \A j \in A \ {x} : Rank(A \ {x}, j) = Rank(A, j) /\ Rank(A, j) < card
    BY <1>4, <2>1, RankFirst
  <2>3. ASSUME NEW i \in A, i # 1 PROVE i \in B <=> i # x
    <3>1. i \in 1 .. k /\ Rank(A, i) \in 1 .. card
      BY <1>4, <1>5
    <3>2. down(i + 1, k) = up(i + 1, k) + (card - Rank(A, i)) /\ up(i + 1, k) \in Nat
      BY <1>3, <1>6, <2>3, <3>1
    <3>3. up(i + 1, m) = up(i + 1, k) + 1 /\ down(i + 1, m) = down(i + 1, k)
      BY <2>0, <3>1
    <3>4. i \in B <=> up(i + 1, m) <= down(i + 1, m)
      BY <1>8, <2>3, <3>1
    <3>5. Rank(A, i) < card <=> i # x
      BY <1>5, <2>2
    <3> HIDE DEF up, down, A, B, card, x
    <3> QED BY <1>5, <3>1, <3>2, <3>3, <3>4, <3>5
  <2>4. 1 \in B /\ \A i \in B : i \in A
    BY <1>1, <1>3, <1>4, <1>8, <2>0
  <2>5. CASE x = 1
    <3>1. A = {1} /\ B = {1}
      <4>1. \A i \in A : i = 1
        BY <1>4, <2>1, <2>5
      <4> QED BY <1>3, <2>4, <4>1
    <3>2. card = 1 /\ Rank(A, 1) = 1
      BY <2>2, <2>5, <3>1, FS_Singleton
    <3>3. s = <<"/">>
      <4>1. Len(s) = 1 /\ s[1] = "/"
        BY <1>3, <3>2
      <4> QED BY <1>3, <4>1
    <3>4. next = s
      BY <1>10, <1>13, <3>3
    <3>5. 1 \in B /\ B \ {1} = {} /\ A = B
      BY <3>1
    <3> HIDE DEF A, B, next
    <3> QED BY <1>3, <3>4, <3>5 DEF card
  <2>6. CASE x # 1
    <3>1. B = A \ {x}
      BY <2>3, <2>4, <2>6
    <3>2. card - 1 \in Nat /\ 1 <= card - 1
      <4>1. 1 \in A \ {x} /\ Rank(A, 1) \in 1 .. card
        BY <1>3, <1>5, <2>6
      <4>2. Rank(A, 1) < card
        BY <2>2, <4>1
      <4> HIDE DEF A, card
      <4> QED BY <1>5, <4>1, <4>2
    <3>3. next = SubSeq(s, 1, Len(s) - 1)
      <4>1. Len(<<"/">>) = 1 /\ Len(s) # 1
        BY <1>3, <1>5, <3>2
      <4> HIDE DEF next
      <4> QED BY <1>10, <1>13, <4>1
    <3>4. ASSUME NEW i \in B
          PROVE  i \in A /\ i \in 1 .. k /\ Rank(B, i) = Rank(A, i) /\ Rank(A, i) \in 1 .. card - 1
      <4>1. i \in A \ {x} /\ i \in 1 .. k /\ Rank(A, i) \in 1 .. card
        BY <1>4, <1>5, <3>1
      <4>2. Rank(A \ {x}, i) = Rank(A, i) /\ Rank(A, i) < card
        BY <2>2, <4>1
      <4> HIDE DEF A, B, card, x
      <4> QED BY <1>5, <3>1, <4>1, <4>2
    <3>5. Cardinality(B) = card - 1
      BY <2>2, <3>1
    <3> HIDE DEF A, B, next, card, up, down, x
    <3>6. Len(next) = card - 1 /\ \A r \in 1 .. card - 1 : next[r] = s[r]
      BY <1>3, <1>5, <3>2, <3>3
    <3>7. \A i \in B : next[Rank(B, i)] = path[i]
      BY <1>3, <3>4, <3>6
    <3>8. ASSUME NEW i \in B \ {1} PROVE down(i + 1, m) = up(i + 1, m) + (Cardinality(B) - Rank(B, i))
      <4>1. down(i + 1, k) = up(i + 1, k) + (card - Rank(A, i)) /\ i \in 1 .. k
        BY <1>3, <3>4
      <4>2. up(i + 1, k) \in Nat
        BY <1>6, <4>1
      <4>3. up(i + 1, m) = up(i + 1, k) + 1 /\ down(i + 1, m) = down(i + 1, k)
        BY <2>0, <4>1
      <4>4. Rank(B, i) = Rank(A, i) /\ Rank(A, i) \in 1 .. card - 1
        BY <3>4
      <4> QED BY <1>5, <3>5, <4>1, <4>2, <4>3, <4>4
    <3> QED BY <1>10, <2>4, <3>5, <3>6, <3>7, <3>8
  <2> QED BY <2>5, <2>6
<1>14. Good
  BY <1>11, <1>12, <1>13
<1> QED BY <1>14, Zenon DEF WalkedTo

(* A name of a path stays that no later ".." takes back.                   *)
Stays(path, i) ==
  /\ path[i] \notin {"..", "."}
  /\ i = 1 \/ \A j \in i + 1 .. Len(path) :
                Cardinality({k \in i + 1 .. j : path[k] = ".."}) <=
                  Cardinality({k \in i + 1 .. j : path[k] \notin {"..", "."}})

(* Where a path leads are the components that stay, in order (Arrival).    *)
LEMMA ArrivalIs ==
  ASSUME NEW path \in Seq(Components), NEW n \in Nat, DOMAIN path = 1 .. n, Len(path) = n
  PROVE  /\ Arrival(path) = InOrder(Staying(path, n), path)
         /\ Staying(path, n) \subseteq 1 .. n
<1> DEFINE D == Staying(path, n)
<1>1. ASSUME NEW i \in 1 .. n PROVE Stays(path, i) <=> StaysTo(path, n, i)
  <2>1. ASSUME NEW j \in i + 1 .. n
        PROVE  /\ Cardinality({k \in i + 1 .. j : path[k] = ".."}) = Count(Ups(path), i + 1, j)
               /\ Cardinality({k \in i + 1 .. j : path[k] \notin {"..", "."}}) = Count(Downs(path), i + 1, j)
    <3>1. \A k \in i + 1 .. j : k \in DOMAIN path
      OBVIOUS
    <3>2. {k \in i + 1 .. j : path[k] = ".."} = {k \in i + 1 .. j : k \in Ups(path)}
      BY <3>1 DEF Ups
    <3>3. {k \in i + 1 .. j : path[k] \notin {"..", "."}} = {k \in i + 1 .. j : k \in Downs(path)}
      BY <3>1 DEF Downs
    <3> QED BY <3>2, <3>3, Zenon DEF Count
  <2> QED BY <2>1, Zenon DEF Stays, StaysTo
<1>2. D = {i \in 1 .. n : Stays(path, i)} /\ D \subseteq 1 .. n
  BY <1>1 DEF Staying
<1>3. Arrival(path) = [k \in 1 .. Cardinality({i \in 1 .. n : Stays(path, i)}) |->
                         path[CHOOSE i \in 1 .. n :
                                Stays(path, i) /\ Cardinality({h \in 1 .. i : Stays(path, h)}) = k]]
  <2>1. Arrival(path) = [k \in 1 .. Cardinality({i \in DOMAIN path : Stays(path, i)}) |->
                           path[CHOOSE i \in DOMAIN path :
                                  Stays(path, i) /\ Cardinality({h \in 1 .. i : Stays(path, h)}) = k]]
    BY Zenon DEF Arrival, Stays
  <2> QED BY <2>1, Zenon
<1> DEFINE there(r) == path[CHOOSE i \in 1 .. n :
                              Stays(path, i) /\ Cardinality({h \in 1 .. i : Stays(path, h)}) = r]
           here(r) == path[CHOOSE j \in D : Rank(D, j) = r]
<1> HIDE DEF D
<1>4. ASSUME NEW r \in 1 .. Cardinality(D) PROVE there(r) = here(r)
  <2> DEFINE x == CHOOSE j \in D : Rank(D, j) = r
             y == CHOOSE i \in 1 .. n : Stays(path, i) /\ Cardinality({h \in 1 .. i : Stays(path, h)}) = r
  <2>1. x \in D /\ Rank(D, x) = r /\ \A j \in D : Rank(D, j) = r => j = x
    <3>1. D \subseteq 1 .. n
      BY <1>2
    <3> QED BY <3>1, RankIs
  <2>2. ASSUME NEW j \in D PROVE Cardinality({h \in 1 .. j : Stays(path, h)}) = Rank(D, j)
    <3>1. {h \in 1 .. j : Stays(path, h)} = {i \in D : i <= j}
      BY <1>2
    <3> QED BY <3>1 DEF Rank
  <2> HIDE DEF x
  <2>3. y \in D /\ Cardinality({h \in 1 .. y : Stays(path, h)}) = r
    <3>1. x \in 1 .. n /\ Stays(path, x) /\ Cardinality({h \in 1 .. x : Stays(path, h)}) = r
      BY <1>2, <2>1, <2>2
    <3>2. y \in 1 .. n /\ Stays(path, y) /\ Cardinality({h \in 1 .. y : Stays(path, h)}) = r
      BY <3>1, Zenon
    <3> HIDE DEF y
    <3> QED BY <1>2, <3>2
  <2> HIDE DEF y
  <2>4. y = x
    BY <2>1, <2>2, <2>3
  <2> QED BY <2>4, Zenon DEF x, y
<1>5. Arrival(path) = [r \in 1 .. Cardinality(D) |-> there(r)]
  BY <1>2, <1>3
<1>6. InOrder(D, path) = [r \in 1 .. Cardinality(D) |-> here(r)]
  BY Zenon DEF InOrder
<1> HIDE DEF there, here
<1>7. Arrival(path) = InOrder(D, path)
  BY <1>4, <1>5, <1>6
<1> QED BY <1>2, <1>7 DEF D

(* normalize takes a path to where it leads (annotations.rs), and nothing  *)
(* is left to take back in what it returns.                                *)
LEMMA PathsAreNormal ==
  ASSUME NEW path \in Seq(Components), Len(path) > 0, path[1] = "/"
  PROVE  /\ Normalize(path) = Arrival(path) /\ Normalize(path) \in Seq(Components)
         /\ \A i \in DOMAIN Normalize(path) : Normalize(path)[i] \notin {"..", "."}
<1> DEFINE n == Len(path)
<1>1. n \in Nat /\ DOMAIN path = 1 .. n /\ n >= 1 /\ Len(path) = n
  OBVIOUS
<1> HIDE DEF n
<1>2. PICK g : /\ g[0] = <<>> /\ Normalize(path) = g[n]
               /\ \A k \in 0 .. n : g[k] \in Seq(Components)
               /\ \A k \in 0 .. n - 1 : g[k + 1] = NormalStep(g[k], path[k + 1])
  BY <1>1, NormalFold
<1>3. WalkedTo(path, 1, g[1])
  <2>1. 0 \in 0 .. n - 1 /\ 0 + 1 = 1
    BY <1>1
  <2>2. g[1] = NormalStep(<<>>, "/")
    <3>1. g[0 + 1] = NormalStep(g[0], path[0 + 1])
      BY <1>2, <2>1
    <3> QED BY <1>2, <2>1, <3>1
  <2>3. g[1] = <<"/">> /\ g[1] \in Seq(Components)
    <3>1. "/" \in Components /\ <<>> \in Seq(Components)
      BY DEF Components
    <3>2. NormalStep(<<>>, "/") = Append(<<>>, "/")
      BY <3>1, NormalStepType
    <3>3. Append(<<>>, "/") = <<"/">> /\ Append(<<>>, "/") \in Seq(Components)
      BY <3>1
    <3> QED BY <2>2, <3>2, <3>3
  <2>4. Staying(path, 1) = {1}
    <3>1. StaysTo(path, 1, 1)
      BY DEF StaysTo
    <3>2. \A i : i \in 1 .. 1 <=> i = 1
      OBVIOUS
    <3> QED BY <3>1, <3>2 DEF Staying
  <2>5. Rank({1}, 1) = 1 /\ Cardinality({1}) = 1
    <3>1. {i \in {1} : i <= 1} = {1}
      OBVIOUS
    <3> QED BY <3>1, FS_Singleton DEF Rank
  <2>6. Len(<<"/">>) = 1 /\ <<"/">>[1] = "/"
    OBVIOUS
  <2> QED BY <2>3, <2>4, <2>5, <2>6 DEF WalkedTo
<1>4. \A k \in 0 .. n - 1 : WalkedTo(path, k + 1, g[k + 1])
  <2> DEFINE T == {k \in 0 .. n - 1 : WalkedTo(path, k + 1, g[k + 1])}
  <2>1. 0 \in T
    <3>1. 0 \in 0 .. n - 1 /\ 0 + 1 = 1
      BY <1>1
    <3> QED BY <1>3, <3>1
  <2>2. ASSUME NEW k \in 0 .. (n - 1) - 1, k \in T PROVE k + 1 \in T
    <3> DEFINE m == k + 1
    <3>1. m \in 1 .. n - 1 /\ m \in 0 .. n - 1
      BY <1>1
    <3>2. WalkedTo(path, m, g[m])
      BY <2>2
    <3> HIDE DEF m
    <3>3. WalkedTo(path, m + 1, NormalStep(g[m], path[m + 1]))
      BY <1>1, <3>1, <3>2, WalkedOn
    <3>4. g[m + 1] = NormalStep(g[m], path[m + 1])
      BY <1>2, <3>1
    <3>5. m \in T
      BY <3>1, <3>3, <3>4
    <3> QED BY <3>5 DEF m
  <2> HIDE DEF T
  <2>3. \A k \in 0 .. n - 1 : k \in T
    <3>1. n - 1 \in Nat
      BY <1>1
    <3> QED BY <2>1, <2>2, <3>1, UpTo
  <2> QED BY <2>3 DEF T
<1> DEFINE s == Normalize(path)
           D == Staying(path, n)
<1>5. WalkedTo(path, n, s)
  <2>1. n - 1 \in 0 .. n - 1 /\ (n - 1) + 1 = n
    BY <1>1
  <2>2. WalkedTo(path, (n - 1) + 1, g[(n - 1) + 1])
    BY <1>4, <2>1
  <2> QED BY <1>2, <2>1, <2>2
<1>6. Arrival(path) = InOrder(D, path) /\ D \subseteq 1 .. n
  BY <1>1, ArrivalIs
<1>7. s \in Seq(Components) /\ Len(s) = Cardinality(D) /\ \A i \in D : s[Rank(D, i)] = path[i]
  BY <1>5 DEF WalkedTo
<1>8. \A i \in D : path[i] \notin {"..", "."}
  BY DEF Staying, StaysTo
<1> DEFINE nth(r) == CHOOSE j \in D : Rank(D, j) = r
<1>9. \A r \in 1 .. Cardinality(D) : nth(r) \in D /\ Rank(D, nth(r)) = r
  <2> HIDE DEF D
  <2> QED BY <1>1, <1>6, RankIs
<1>10. InOrder(D, path) = [r \in 1 .. Cardinality(D) |-> path[nth(r)]]
  BY Zenon DEF InOrder
<1> HIDE DEF s, D, nth
<1>11. \A r \in 1 .. Cardinality(D) : s[r] = path[nth(r)] /\ s[r] \notin {"..", "."}
  BY <1>7, <1>8, <1>9
<1>12. DOMAIN s = 1 .. Cardinality(D) /\ s = [r \in 1 .. Len(s) |-> s[r]]
  BY <1>7
<1>13. s = InOrder(D, path)
  BY <1>7, <1>10, <1>11, <1>12
<1> QED BY <1>6, <1>7, <1>11, <1>12, <1>13 DEF s

(* A path without ".." and "." leads where it says.                        *)
LEMMA PlainPathsLead ==
  ASSUME NEW path \in Seq(Components), \A i \in DOMAIN path : path[i] \notin {"..", "."}
  PROVE  Arrival(path) = path
<1> DEFINE n == Len(path)
           D == Staying(path, n)
<1>1. n \in Nat /\ DOMAIN path = 1 .. n /\ Len(path) = n
  OBVIOUS
<1> HIDE DEF n
<1>2. Arrival(path) = InOrder(D, path) /\ D \subseteq 1 .. n
  BY <1>1, ArrivalIs
<1>3. D = 1 .. n
  <2>1. Ups(path) = {}
    BY DEF Ups
  <2>2. ASSUME NEW i \in 1 .. n PROVE StaysTo(path, n, i)
    <3>1. ASSUME NEW j \in i + 1 .. n PROVE Count(Ups(path), i + 1, j) <= Count(Downs(path), i + 1, j)
      <4>1. Count(Ups(path), i + 1, j) = 0
        <5>1. {q \in i + 1 .. j : q \in Ups(path)} = {}
          BY <2>1
        <5> QED BY <5>1, FS_EmptySet DEF Count
      <4>2. Count(Downs(path), i + 1, j) \in Nat
        <5>1. j \in Nat /\ i + 1 \in 1 .. j + 1
          OBVIOUS
        <5> QED BY <5>1, CountNext
      <4> QED BY <4>1, <4>2
    <3> QED BY <1>1, <3>1 DEF StaysTo
  <2> QED BY <2>2 DEF Staying
<1>4. Cardinality(1 .. n) = n /\ \A j \in 1 .. n : Rank(1 .. n, j) = j
  <2>1. ASSUME NEW j \in 0 .. n PROVE Cardinality(1 .. j) = j
    <3>1. 1 \in Int /\ j \in Int /\ j \in Nat
      BY <1>1
    <3>2. Cardinality(1 .. j) = IF 1 > j THEN 0 ELSE j - 1 + 1
      BY <3>1, FS_Interval
    <3> QED BY <3>1, <3>2
  <2>2. ASSUME NEW j \in 1 .. n PROVE Rank(1 .. n, j) = j
    <3>1. {i \in 1 .. n : i <= j} = 1 .. j /\ j \in 0 .. n
      BY <1>1
    <3>2. Cardinality(1 .. j) = j
      BY <2>1, <3>1
    <3> QED BY <3>1, <3>2, Zenon DEF Rank
  <2>3. n \in 0 .. n
    BY <1>1
  <2> QED BY <2>1, <2>2, <2>3
<1> DEFINE nth(r) == CHOOSE j \in D : Rank(D, j) = r
<1>5. \A r \in 1 .. n : nth(r) = r
  <2>1. ASSUME NEW r \in 1 .. n PROVE nth(r) = r
    <3>1. r \in D /\ Rank(D, r) = r
      BY <1>3, <1>4
    <3> HIDE DEF D
    <3>2. nth(r) \in D /\ Rank(D, nth(r)) = r
      BY <3>1, Zenon
    <3> HIDE DEF nth
    <3> QED BY <1>3, <1>4, <3>2
  <2> QED BY <2>1
<1>6. InOrder(D, path) = [r \in 1 .. Cardinality(D) |-> path[nth(r)]]
  BY Zenon DEF InOrder
<1> HIDE DEF D, nth
<1>7. path = [r \in 1 .. n |-> path[r]]
  BY <1>1
<1> QED BY <1>2, <1>3, <1>4, <1>5, <1>6, <1>7

(* A resolved link leads where the link read from its directory would      *)
(* (resolve_annotation_link, annotations.rs).                              *)
LEMMA LinksLead ==
  ASSUME NEW target \in Seq({"..", ".", "t"})
  PROVE  Arrival(Resolved(target)) =
           Arrival((IF ClimbsOut(target) THEN SpecDir ELSE Workspace) \o target)
<1>1. CASE ClimbsOut(target)
  <2> DEFINE p == SpecDir \o target
  <2>1. p \in Seq(Components) /\ Len(p) > 0 /\ p[1] = "/"
    <3>1. target \in Seq(Components)
      <4>1. {"..", ".", "t"} \subseteq Components
        BY DEF Components
      <4> QED BY <4>1
    <3>2. ASSUME NEW x \in Seq(Components), NEW y \in Seq(Components), Len(x) > 0, x[1] = "/"
          PROVE  x \o y \in Seq(Components) /\ Len(x \o y) > 0 /\ (x \o y)[1] = "/"
      BY <3>2
    <3>3. Workspace \in Seq(Components) /\ Len(Workspace) > 0 /\ Workspace[1] = "/"
      <4>1. "/" \in Components /\ "w" \in Components
        BY DEF Components
      <4> QED BY <4>1 DEF Workspace
    <3>4. <<"specs">> \in Seq(Components)
      <4>1. "specs" \in Components
        BY DEF Components
      <4> QED BY <4>1
    <3>5. SpecDir \in Seq(Components) /\ Len(SpecDir) > 0 /\ SpecDir[1] = "/"
      BY <3>2, <3>3, <3>4 DEF SpecDir
    <3> QED BY <3>1, <3>2, <3>5
  <2> HIDE DEF p
  <2>2. Resolved(target) = Normalize(p)
    BY <1>1 DEF Resolved, p
  <2>3. /\ Normalize(p) = Arrival(p) /\ Normalize(p) \in Seq(Components)
        /\ \A i \in DOMAIN Normalize(p) : Normalize(p)[i] \notin {"..", "."}
    BY <2>1, PathsAreNormal
  <2>4. Arrival(Normalize(p)) = Normalize(p)
    BY <2>3, PlainPathsLead
  <2> QED BY <1>1, <2>2, <2>3, <2>4 DEF p
<1>2. CASE ~ClimbsOut(target)
  BY <1>2 DEF Resolved
<1> QED BY <1>1, <1>2

(* The packages collected are those of the tools that the linked files     *)
(* call (collect_deps, deps.rs).                                           *)
LEMMA DepsAreMeant ==
  ASSUME NEW rows \in Seq(LinkingRows), NEW files,
         \A p \in DOMAIN files : files[p] = Unreadable \/ files[p] \in Seq(Letters)
  PROVE  DepsMeant(rows, files, CollectDeps(rows, files))
<1> DEFINE linking == {q \in ToSet(rows) : q.kind # "none"}
           linked == {Arrival((IF ClimbsOut(r.target) THEN SpecDir ELSE Workspace) \o r.target) : r \in linking}
           paths == {Resolved(r.target) : r \in linking}
           arrived == {Arrival(p) : p \in paths}
           read == arrived \cap DOMAIN files
           tools == {t \in DOMAIN Tool : \E p \in read : Called(files[p], t)}
           packages == UNION {ScanFileBody(files[p]) : p \in read}
<1>1. \A r \in linking : r.target \in Seq({"..", ".", "t"})
  <2>1. \A r \in ToSet(rows) : r \in LinkingRows
    BY DEF ToSet
  <2> QED BY <2>1 DEF LinkingRows
<1> HIDE DEF linking
<1>2. \A r \in linking : Arrival(Resolved(r.target)) =
                           Arrival((IF ClimbsOut(r.target) THEN SpecDir ELSE Workspace) \o r.target)
  BY <1>1, LinksLead
<1>3. arrived = linked
  <2> DEFINE to(r) == Arrival(Resolved(r.target))
             from(r) == Arrival((IF ClimbsOut(r.target) THEN SpecDir ELSE Workspace) \o r.target)
  <2>1. \A x : x \in arrived <=> \E r \in linking : x = to(r)
    OBVIOUS
  <2>2. \A x : x \in linked <=> \E r \in linking : x = from(r)
    OBVIOUS
  <2>3. \A r \in linking : to(r) = from(r)
    BY <1>2
  <2> HIDE DEF to, from, arrived, linked
  <2> QED BY <2>1, <2>2, <2>3
<1>4. (\A p \in read : files[p] # Unreadable) => packages = tools
  <2> SUFFICES ASSUME \A p \in read : files[p] # Unreadable PROVE packages = tools
    OBVIOUS
  <2>1. ASSUME NEW p \in read PROVE ScanFileBody(files[p]) = {t \in DOMAIN Tool : Called(files[p], t)}
    <3>1. files[p] \in Seq(Letters)
      OBVIOUS
    <3> QED BY <3>1, ScanIsMeant
  <2> HIDE DEF read
  <2>2. \A t : t \in packages <=> \E p \in read : t \in ScanFileBody(files[p])
    OBVIOUS
  <2>3. \A t : t \in tools <=> \E p \in read : t \in ScanFileBody(files[p])
    BY <2>1
  <2> QED BY <2>2, <2>3
<1>5. CollectDeps(rows, files) = IF \E p \in read : files[p] = Unreadable THEN Refused ELSE Found(packages)
  BY Zenon DEF CollectDeps, linking
<1>6. \A found : DepsMeant(rows, files, found) <=>
        found = IF \E p \in linked \cap DOMAIN files : files[p] = Unreadable THEN Refused
                ELSE Found({t \in DOMAIN Tool : \E p \in linked \cap DOMAIN files : Called(files[p], t)})
  BY Zenon DEF DepsMeant, linking
<1>7. \A found : DepsMeant(rows, files, found) <=>
        found = IF \E p \in read : files[p] = Unreadable THEN Refused ELSE Found(tools)
  <2> HIDE DEF arrived, linked
  <2> QED BY <1>3, <1>6
<1> HIDE DEF read, packages, tools
<1> QED BY <1>4, <1>5, <1>7

(* What can be opened around a workspace can be read or searched.          *)
LEMMA LinkedFilesType ==
  ASSUME NEW body \in Seq(Letters), NEW p \in DOMAIN LinkedFiles(body)
  PROVE  LinkedFiles(body)[p] = Unreadable \/ LinkedFiles(body)[p] \in Seq(Letters)
<1>1. <<"c", "c">> \in Seq(Letters)
  <2>1. "c" \in Letters
    BY DEF Letters
  <2> QED BY <2>1
<1> QED BY <1>1, Zenon DEF LinkedFiles

(* What loom reads in a text is what is written there: the companions of a *)
(* spec (companions.rs), its criteria with their annotations, where every  *)
(* annotation is on the next line that is not blank (annotations.rs), the  *)
(* packages of the tools its linked files call (deps.rs), the option a     *)
(* reply chooses (options.rs), and the verdict of a session's output       *)
(* (exit.rs).                                                              *)
THEOREM TextsAreRead == Spec => []TextReadAsWritten
<1>1. TextInv => TextReadAsWritten
  <2> SUFFICES ASSUME TextInv PROVE TextReadAsWritten
    OBVIOUS
  <2> USE DEF TextInv, JobTyped, Computed, Done
  <2>1. Done("companions") => out = CompanionsDeclared(job.lines)
    BY CompanionsAreDeclared
  <2>2. Done("annotations") /\ LinksFollow(job.lines) => out = CriteriaWritten(job.lines)
    BY CriteriaAreWritten
  <2>3. Done("deps") => DepsMeant(job.rows, LinkedFiles(job.body), out)
    BY DepsAreMeant, LinkedFilesType
  <2>4. Done("reply") /\ KeepsContract(job.lines) =>
          out = IF job.choice = 0 THEN Verbatim ELSE OptionWritten(job.lines, job.choice)
    <3> SUFFICES ASSUME Done("reply"), KeepsContract(job.lines)
                 PROVE  out = IF job.choice = 0 THEN Verbatim ELSE OptionWritten(job.lines, job.choice)
      OBVIOUS
    <3>1. job.lines \in Seq(OptionLines) /\ out = BuildFastReply(job.lines, job.choice)
          /\ (job.choice # 0 => job.choice \in {1, 2})
      OBVIOUS
    <3> QED BY <3>1, RepliesAreWritten DEF BuildFastReply
  <2>5. Done("exit") => VerdictMeant(job.lines, out)
    BY VerdictIsMeant
  <2> QED BY <2>1, <2>2, <2>3, <2>4, <2>5, Zenon DEF TextReadAsWritten
<1> QED
  BY <1>1, TextInvariance, PTL
===============================================================================
