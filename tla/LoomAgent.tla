------------------------------ MODULE LoomAgent ------------------------------
(***************************************************************************)
(* One agent session of loom: AgentBackend::spawn of the pi or the claude  *)
(* backend, the typestate AgentSession (loom-core/src/agent/session.rs)    *)
(* and its two callers: run_agent of loom-workflow/src/agent.rs, which the *)
(* commands use, and any other user of the crates' public surface, who may *)
(* steer, abort, prompt again or run the shutdown watchdog.                *)
(*                                                                         *)
(* The agent is a process at the other end of two pipes.  It is external:  *)
(* it answers commands, writes lines, may stop to ask, may die at any      *)
(* moment and need not react to the end of its stdin.                      *)
(***************************************************************************)
EXTENDS LoomWire, Naturals, FiniteSets, SequencesExt

CONSTANTS
    MaxLines,   \* lines the agent writes of its own accord, beyond the last
    MaxPipe,    \* lines that fit into the pipe from the agent
    MaxPrompts  \* prompts a caller other than run_agent sends

ASSUME AgentAssumption ==
    MaxLines \in Nat /\ MaxPipe \in Nat \ {0} /\ MaxPrompts \in Nat \ {0}

VARIABLES
    backend,    \* the backend of the phase
    model,      \* SpawnConfig.model is set
    caller,     \* who drives the session
    pc,         \* where loom is
    pending,    \* AgentSession.pending
    outcome,    \* what the caller got
    prompts,    \* prompts sent
    toAgent,    \* lines in the agent's stdin
    fromAgent,  \* lines in the agent's stdout
    stdin,      \* loom still has the write end
    agent,      \* what the agent is doing; "asking" in the middle of a prompt,
                \* "stalled" when an extension asks outside of one
    asked,      \* "early" or "late": the agent waits for an answer it asked
                \* for during the handshake or later
    said,       \* the last terminal line it wrote
    written,    \* lines it wrote of its own accord
    due         \* events of the lines written that the caller has not got

loomVars == <<backend, model, caller, pc, pending, outcome, prompts>>
agentVars == <<agent, asked, said, written>>
vars == <<loomVars, toAgent, fromAgent, stdin, agentVars, due>>

Lines == IF backend = "pi" THEN PiLines ELSE ClaudeLines
Terminal == {"agent_end", "success", "error", "result_of_new_kind"}
Alive == agent \notin {"absent", "dead"}
Over == {"returned", "died"}
Handshake == {"probe", "await_probe", "set_model", "await_model"}

TypeOK ==
    /\ backend \in Backends /\ model \in BOOLEAN /\ caller \in {"run_agent", "other"}
    /\ pc \in {"spawn", "probe", "await_probe", "set_model", "await_model", "idle",
               "active", "grace", "term_grace", "reap"} \cup Over
    /\ pending \in Seq(Events)
    /\ outcome \in {"none", "exit0", "exit1", "error", "stopped"}
    /\ prompts \in 0 .. MaxPrompts
    /\ toAgent \in Seq({"get_commands", "set_model", "prompt", "steer", "abort",
                        "approve", "cancel"})
    /\ fromAgent \in Seq(PiLines \cup ClaudeLines) /\ Len(fromAgent) <= MaxPipe + 1
    /\ stdin \in {"open", "closed"}
    /\ agent \in {"absent", "listening", "working", "asking", "stalled", "silent", "dead"}
    /\ asked \in {"no", "early", "late"}
    /\ said \in Terminal \cup {"none"}
    /\ written \in 0 .. MaxLines
    /\ due \in Seq(Events)

Init ==
    /\ backend \in Backends
    /\ model \in BOOLEAN /\ (backend = "claude" => ~model)
    /\ caller \in {"run_agent", "other"}
    /\ pc = "spawn" /\ pending = <<>> /\ outcome = "none" /\ prompts = 0
    /\ toAgent = <<>> /\ fromAgent = <<>> /\ stdin = "closed"
    /\ agent = "absent" /\ asked = "no" /\ said = "none" /\ written = 0
    /\ due = <<>>

KeepAgent == UNCHANGED <<agentVars, due>>
KeepConfig == UNCHANGED <<backend, model, caller>>

(***************************************************************************)
(* Loom: helpers                                                           *)
(***************************************************************************)
(* Mutant: the child is left alone, as without kill_on_drop.               *)
DropKeepsChild(result) ==
    /\ pc' = "returned" /\ outcome' = result
    /\ stdin' = "closed" /\ pending' = <<>>
    /\ UNCHANGED <<prompts, toAgent, fromAgent, agent, asked, said, written, due>>
(* The session, or the child before there is one, is dropped: kill_on_drop *)
(* sends SIGKILL, and the pipes close.                                     *)
DropSession(result) ==
    /\ pc' = "returned" /\ outcome' = result
    /\ stdin' = "closed" /\ pending' = <<>>
    /\ agent' = IF agent = "absent" THEN "absent" ELSE "dead"
    /\ UNCHANGED <<prompts, toAgent, fromAgent, asked, said, written, due>>

(* write_all and flush: EPIPE when nobody reads.                           *)
Send(cmd) == Alive /\ toAgent' = Append(toAgent, cmd)
CannotSend == ~Alive

Sends(from, cmd, to) ==
    /\ pc = from
    /\ \/ /\ Send(cmd) /\ pc' = to
          /\ UNCHANGED <<pending, outcome, prompts, fromAgent, stdin>> /\ KeepAgent
       \/ CannotSend /\ DropSession("error")
    /\ KeepConfig

(***************************************************************************)
(* AgentBackend::spawn                                                     *)
(***************************************************************************)
(* The spawn config is written and the launcher started, or the one or the *)
(* other fails.                                                            *)
Spawn ==
    /\ pc = "spawn"
    /\ \/ /\ pc' = IF backend = "pi" THEN "probe" ELSE "idle"
          /\ agent' = "listening" /\ stdin' = "open"
          /\ UNCHANGED <<pending, outcome, prompts, toAgent, fromAgent, asked, said,
                         written, due>>
       \/ DropSession("error")
    /\ KeepConfig

(* run_probe and run_set_model of the pi backend.                          *)
Probe == Sends("probe", "get_commands", "await_probe")
SetModel == Sends("set_model", "set_model", "await_model")

(* Takes the next line out of the pipe; the events it stood for are gone   *)
(* with it, as nobody waits for them yet.                                  *)
TakeLine == fromAgent' = Tail(fromAgent)
NoEventsYet == due' = <<>>

(* await_response: everything but the expected response is dropped, a      *)
(* question of an extension too.                                           *)
AwaitResponse(from, good, bad, next) ==
    /\ pc = from
    /\ fromAgent # <<>>
    /\ LET line == Head(fromAgent)
           fatal == bad \cup {"garbage", "too_long", "response_without_id"}
       IN \/ /\ line = good
             /\ TakeLine /\ pc' = next /\ NoEventsYet
             /\ UNCHANGED <<pending, outcome, prompts, toAgent, stdin, agentVars>>
          \/ /\ line \in fatal
             /\ DropSession("error")
          \/ /\ line \notin fatal \cup {good}
             /\ TakeLine /\ NoEventsYet
             /\ UNCHANGED <<pc, pending, outcome, prompts, toAgent, stdin, agentVars>>
    /\ KeepConfig

AwaitProbe == AwaitResponse("await_probe", "probe_ok", {"probe_missing", "probe_failed"},
                            IF model THEN "set_model" ELSE "idle")
AwaitModel == AwaitResponse("await_model", "model_ok", {"model_failed"}, "idle")

HandshakeEof ==
    /\ pc \in {"await_probe", "await_model"}
    /\ fromAgent = <<>> /\ agent = "dead"
    /\ DropSession("error")
    /\ KeepConfig

(***************************************************************************)
(* AgentSession                                                            *)
(***************************************************************************)
Prompt ==
    /\ pc = "idle"
    /\ prompts < IF caller = "run_agent" THEN 1 ELSE MaxPrompts
    /\ \/ /\ Send("prompt") /\ pc' = "active" /\ prompts' = prompts + 1
          /\ UNCHANGED <<pending, outcome, fromAgent, stdin>> /\ KeepAgent
       \/ CannotSend /\ DropSession("error")
    /\ KeepConfig

(* Mutant: a session that completed succeeded.                             *)
CompleteIsSuccess(e) == "exit0"
Outcome(e) == IF e = "Complete0" THEN "exit0" ELSE "exit1"

(* run_agent returns at SessionComplete and drops the session; another     *)
(* caller takes the event and goes on.                                     *)
Hand(e) ==
    /\ due' = IF due = <<>> THEN <<>> ELSE Tail(due)
    /\ IF caller = "run_agent" /\ IsTerminal(e)
       THEN /\ pc' = "returned"
            /\ outcome' = Outcome(e)
            /\ agent' = "dead" /\ stdin' = "closed"
       ELSE UNCHANGED <<pc, outcome, agent, stdin>>

(* next_event: events kept from an earlier line come first.                *)
NextPending ==
    /\ pc = "active"
    /\ pending # <<>>
    /\ Hand(Head(pending))
    /\ pending' = Tail(pending)
    /\ UNCHANGED <<prompts, toAgent, fromAgent, asked, said, written>>
    /\ KeepConfig

(* Mutant: an answer is written whether there is one or not.               *)
AlwaysWriteBack(answer) == Send(answer)
WriteBack(answer) == IF answer = NoAnswer THEN UNCHANGED toAgent ELSE Send(answer)

(* Mutant: only the first event of a line is used.                         *)
KeepNone(events) == <<>>
KeepRest(events) == Tail(events)

(* next_event: one line is parsed, its answer written back, its first      *)
(* event handed on and the others kept.                                    *)
NextLine ==
    /\ pc = "active"
    /\ pending = <<>> /\ fromAgent # <<>>
    /\ LET line == Head(fromAgent)
           parsed == ParseLine(backend, line)
           fails == \/ ReaderError(line) \/ ~parsed.ok
                    \/ parsed.answer # NoAnswer /\ CannotSend
       IN \/ /\ ReaderSkips(line)
             /\ TakeLine
             /\ UNCHANGED <<pc, pending, outcome, prompts, toAgent, stdin>> /\ KeepAgent
          \/ /\ ~ReaderSkips(line) /\ fails
             /\ DropSession("error")
          \/ /\ ~ReaderSkips(line) /\ ~fails
             /\ TakeLine
             /\ WriteBack(parsed.answer)
             /\ \/ /\ parsed.events = <<>>
                   /\ UNCHANGED <<pc, pending, outcome, stdin, agent, due>>
                \/ /\ parsed.events # <<>>
                   /\ Hand(Head(parsed.events))
                   /\ pending' = KeepRest(parsed.events)
             /\ UNCHANGED <<prompts, asked, said, written>>
    /\ KeepConfig

(* Mutant: the end of the output is taken for a blank line.                *)
EofIsBlank ==
    /\ pc = "active"
    /\ pending = <<>> /\ fromAgent = <<>> /\ agent = "dead"
    /\ UNCHANGED vars
(* Ok(None) at the end of the output: UnexpectedEof in run_agent.          *)
NextEof ==
    /\ pc = "active"
    /\ pending = <<>> /\ fromAgent = <<>> /\ agent = "dead"
    /\ DropSession("error")
    /\ KeepConfig

Steer ==
    /\ caller = "other"
    /\ toAgent = <<>>               \* bound
    /\ Sends("active", "steer", "active")

(* encode_abort: claude has no abort command.                              *)
EncodeAbort == IF backend = "pi" THEN {"abort"} ELSE {}

(* The kept events are dropped.                                            *)
Abort ==
    /\ caller = "other" /\ pc = "active"
    /\ \/ /\ \A cmd \in EncodeAbort : Send(cmd)
          /\ EncodeAbort = {} => UNCHANGED toAgent
          /\ pc' = "idle" /\ pending' = <<>>
          /\ due' = SubSeq(due, Len(pending) + 1, Len(due))
          /\ UNCHANGED <<outcome, prompts, fromAgent, stdin, agentVars>>
       \/ EncodeAbort # {} /\ CannotSend /\ DropSession("error")
    /\ KeepConfig

(* The caller lets go of the session.                                      *)
CallerDrops ==
    /\ caller = "other" /\ pc \in {"idle", "active"}
    /\ DropSession("stopped")
    /\ KeepConfig

(***************************************************************************)
(* ClaudeBackend::shutdown_after_result: close stdin, wait, SIGTERM, wait, *)
(* SIGKILL, wait.  A wait may time out at any time.                        *)
(***************************************************************************)
BeginShutdown ==
    /\ caller = "other" /\ backend = "claude" /\ pc \in {"idle", "active"}
    /\ pc' = "grace" /\ stdin' = "closed" /\ pending' = <<>>
    /\ UNCHANGED <<outcome, prompts, toAgent, fromAgent>> /\ KeepAgent /\ KeepConfig

WaitEnds ==
    /\ pc \in {"grace", "term_grace", "reap"}
    /\ agent = "dead"
    /\ pc' = "returned" /\ outcome' = "stopped"
    /\ UNCHANGED <<pending, prompts, toAgent, fromAgent, stdin>> /\ KeepAgent /\ KeepConfig

WaitTimesOut ==
    /\ \/ pc = "grace" /\ pc' = "term_grace" /\ agent' \in {agent, "dead"}   \* SIGTERM
       \/ pc = "term_grace" /\ pc' = "reap" /\ agent' = "dead"              \* SIGKILL
    /\ Alive
    /\ UNCHANGED <<pending, outcome, prompts, toAgent, fromAgent, stdin, asked, said, written, due>>
    /\ KeepConfig

(* The loom process dies without running a destructor.                     *)
LoomDies ==
    /\ pc \notin Over
    /\ pc' = "died" /\ stdin' = "closed"
    /\ UNCHANGED <<pending, outcome, prompts, toAgent, fromAgent>> /\ KeepAgent /\ KeepConfig

LoomStep ==
    \/ Spawn \/ Probe \/ AwaitProbe \/ SetModel \/ AwaitModel \/ HandshakeEof
    \/ NextPending \/ NextLine \/ NextEof \/ WaitEnds \/ WaitTimesOut

CallerStep == Steer \/ Abort \/ CallerDrops \/ BeginShutdown

(***************************************************************************)
(* The agent                                                               *)
(***************************************************************************)
KeepLoom == UNCHANGED <<loomVars, stdin>>

Write(line) ==
    /\ fromAgent' = Append(fromAgent, line)
    /\ due' = due \o Meaning(line)

WriteNothing == UNCHANGED <<fromAgent, due>>

Waiting == agent \in {"asking", "stalled"}
Answers == {"approve", "cancel"}

(* The answer to its question reaches it behind whatever it has not begun. *)
AgentGetsAnswer ==
    /\ Waiting
    /\ \E i \in 1 .. Len(toAgent) :
         toAgent[i] \in Answers /\ toAgent' = RemoveAt(toAgent, i)
    /\ agent' = IF agent = "asking" THEN "working" ELSE "listening"
    /\ asked' = "no"
    /\ UNCHANGED <<fromAgent, due, said, written>> /\ KeepLoom

(* It begins with a command when it is not stuck with a question.          *)
AgentReads ==
    /\ toAgent # <<>>
    /\ Len(fromAgent) < MaxPipe
    /\ toAgent' = Tail(toAgent)
    /\ LET cmd == Head(toAgent) IN
       /\ agent \in {"listening", "working"} /\ cmd \notin Answers
       /\ \/ /\ cmd = "get_commands"
             /\ \E r \in {"probe_ok", "probe_missing", "probe_failed"} : Write(r)
             /\ UNCHANGED <<agent, said>>
          \/ /\ cmd = "set_model"
             /\ \E r \in {"model_ok", "model_failed"} : Write(r)
             /\ UNCHANGED <<agent, said>>
          \/ /\ cmd = "prompt" /\ backend = "claude"
             /\ agent' = "working" /\ WriteNothing /\ said' = "none"
          \/ /\ cmd = "prompt" /\ backend = "pi"
             /\ \/ agent' = "working" /\ (Write("prompt_ok") \/ Write("response_without_id"))
                \/ agent' = "silent" /\ Write("prompt_failed")
             /\ said' = "none"
          \/ /\ cmd = "steer" /\ WriteNothing /\ UNCHANGED <<agent, said>>
          \/ /\ cmd = "abort"
             /\ IF agent = "working" THEN Write("agent_end") /\ said' = "agent_end"
                ELSE WriteNothing /\ UNCHANGED said
             /\ agent' = "listening"
       /\ UNCHANGED asked
    /\ UNCHANGED written /\ KeepLoom

(* A line of its own accord: telemetry and questions at any time, events   *)
(* of the turn while it works on a prompt.                                 *)
AgentWrites ==
    /\ agent \in {"listening", "working"}
    /\ Len(fromAgent) < MaxPipe
    /\ written < MaxLines
    /\ written' = written + 1
    /\ \E line \in IF agent = "working" THEN Lines \ (PiResponses \cup Terminal)
                   ELSE IF backend = "pi" THEN {"telemetry", "ui_select"} ELSE {"system"} :
         /\ Write(line)
         /\ IF Asks(line)
            THEN /\ agent' = IF agent = "working" THEN "asking" ELSE "stalled"
                 /\ asked' = IF pc \in Handshake THEN "early" ELSE "late"
            ELSE UNCHANGED <<agent, asked>>
    /\ UNCHANGED said
    /\ UNCHANGED toAgent /\ KeepLoom

(* claude has been told to take one prompt: after its result it waits for  *)
(* the end of its stdin.                                                   *)
AgentFinishes ==
    /\ agent = "working"
    /\ Len(fromAgent) < MaxPipe
    /\ \E line \in Terminal \cap Lines :
         /\ Write(line)
         /\ said' = line
    /\ agent' = IF backend = "pi" THEN "listening" ELSE "silent"
    /\ UNCHANGED <<asked, written, toAgent>> /\ KeepLoom

AgentDies ==
    /\ Alive
    /\ agent' = "dead"
    /\ UNCHANGED <<toAgent, fromAgent, asked, said, written, due>> /\ KeepLoom

AgentStep == AgentGetsAnswer \/ AgentReads \/ AgentWrites \/ AgentFinishes

Next == LoomStep \/ Prompt \/ CallerStep \/ LoomDies \/ AgentStep \/ AgentDies

Spec == Init /\ [][Next]_vars

(* Loom's own steps happen.  Loom sets no limit on a session, so that it   *)
(* ends is up to the agent: one that can read or write does so in the end. *)
FairSpec ==
    /\ Spec
    /\ WF_vars(LoomStep) /\ WF_vars(Prompt /\ caller = "run_agent")
    /\ WF_vars(AgentGetsAnswer) /\ WF_vars(AgentReads) /\ WF_vars(AgentFinishes)

(***************************************************************************)
(* Properties                                                              *)
(***************************************************************************)
(* The caller gets the events of the agent's lines, all of them, in their  *)
(* order and only once, however a line's several events, answers to the    *)
(* agent, blank lines and aborts fall between: what it has not got yet is  *)
(* what the session keeps and then what is still in the pipe.              *)
EventsInOrder ==
    pc \in {"idle", "active"} =>
        due = pending \o FlattenSeq([i \in 1 .. Len(fromAgent) |-> Meaning(fromAgent[i])])

(* run_agent reports an exit code only for a session whose agent wrote its *)
(* final line, and the code that line stands for; an agent that died or    *)
(* broke the protocol before is an error.                                  *)
OutcomeIsTheAgents ==
    /\ outcome = "exit0" => said \in {"success", "agent_end"}
    /\ outcome = "exit1" => said = "error"
    /\ outcome # "none" /\ said = "none" /\ caller = "run_agent" => outcome = "error"

(* An agent that stopped to ask is answered: while loom waits for its next *)
(* line, the question or its answer is still on its way.  The exception is *)
(* a question of the handshake, which await_response may drop.             *)
QuestionOrAnswerOnItsWay ==
    \/ \E i \in 1 .. Len(fromAgent) : Asks(fromAgent[i])
    \/ \E i \in 1 .. Len(toAgent) : toAgent[i] \in Answers

QuestionsAreAnswered ==
    (pc = "active" /\ Waiting /\ asked = "late") => QuestionOrAnswerOnItsWay

(* The three ways in which both sides wait for each other for good: the    *)
(* handshake dropped a question of pi's extension, pi refused the prompt,  *)
(* claude's result is of a kind the parser does not know.                  *)
MutualWait ==
    \/ Waiting /\ asked = "early" /\ ~QuestionOrAnswerOnItsWay
    \/ agent = "silent" /\ said = "none" /\ backend = "pi"
    \/ agent = "silent" /\ said = "result_of_new_kind"

(* Every session that run_agent starts ends, with an outcome, but for      *)
(* those three.                                                            *)
SessionEnds ==
    (pc = "spawn" /\ caller = "run_agent") ~> (pc \in Over \/ MutualWait)

(* When loom is done with a session the process it launched is not left    *)
(* running, whoever drove the session, however it ended and even if the    *)
(* agent ignores its stdin: only the death of loom itself leaves one.      *)
AgentEndsWithSession == pc = "returned" => ~Alive
=============================================================================
