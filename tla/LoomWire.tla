------------------------------ MODULE LoomWire ------------------------------
(***************************************************************************)
(* The lines an agent process writes on its stdout and what loom's parsers *)
(* make of them: NdjsonReader (loom-core/src/agent/ndjson.rs), PiParser    *)
(* and ClaudeParser (loom-agent/src/pi, loom-agent/src/claude).            *)
(*                                                                         *)
(* A line is named for its wire type and for the field the parser branches *)
(* on; texts, ids and tool parameters are left out.                        *)
(***************************************************************************)
EXTENDS Sequences

Backends == {"pi", "claude"}

(* AgentEvent                                                              *)
Events == {"MessageDelta", "ToolCall", "ToolResult", "TurnEnd", "Complete0",
           "Complete1", "CompactionStart", "CompactionEnd", "Error"}

IsTerminal(e) == e \in {"Complete0", "Complete1"}

(***************************************************************************)
(* Lines                                                                   *)
(***************************************************************************)
(* A line of either backend can be blank, no JSON, or longer than          *)
(* MAX_LINE_BYTES.                                                         *)
OddLines == {"blank", "garbage", "too_long"}

(* PiResponse: `id` is not optional there.                                 *)
PiResponses == {"probe_ok", "probe_missing", "probe_failed", "model_ok", "model_failed",
                "prompt_ok", "prompt_failed", "response_without_id"}

PiUiRequests == {"ui_select", "ui_notify"}

PiEvents == {"text_delta", "delta_error", "tool_start", "tool_end", "turn_end",
             "agent_end", "compaction_start", "compaction_end", "telemetry"}

PiLines == PiResponses \cup PiUiRequests \cup PiEvents \cup {"unknown_with_id"} \cup OddLines

(* "assistant" carries a text, a tool use and a block of a newer type.     *)
ClaudeLines == {"system", "assistant", "user", "success", "error", "result_of_new_kind",
                "control_request", "type_of_newer_version"} \cup OddLines

(***************************************************************************)
(* Parsers.  ParsedLine is the events, and the answer the session has to   *)
(* write back, if any; a ProtocolError is an event list of its own.        *)
(***************************************************************************)
NoAnswer == "none"
Parsed(events, answer) == [ok |-> TRUE, events |-> events, answer |-> answer]
Empty == Parsed(<<>>, NoAnswer)
ProtocolError == [ok |-> FALSE, events |-> <<>>, answer |-> NoAnswer]

ParsePiEvent(line) ==
    CASE line = "text_delta" -> Parsed(<<"MessageDelta">>, NoAnswer)
      [] line = "delta_error" -> Parsed(<<"Error">>, NoAnswer)
      [] line = "tool_start" -> Parsed(<<"ToolCall">>, NoAnswer)
      [] line = "tool_end" -> Parsed(<<"ToolResult">>, NoAnswer)
      [] line = "turn_end" -> Parsed(<<"TurnEnd">>, NoAnswer)
      [] line = "agent_end" -> Parsed(<<"Complete0">>, NoAnswer)
      [] line = "compaction_start" -> Parsed(<<"CompactionStart">>, NoAnswer)
      [] line = "compaction_end" -> Parsed(<<"CompactionEnd">>, NoAnswer)
      [] OTHER -> Empty

(* Mutant: `select` is taken for a notification.                           *)
UiNeverAnswered(line) == Empty
(* Auto-cancel for the methods that block the extension.                   *)
ParseUiRequest(line) == IF line = "ui_select" THEN Parsed(<<>>, "cancel") ELSE Empty

(* Every response is only logged, one that reports a failure too.          *)
ParsePi(line) ==
    CASE line = "response_without_id" -> ProtocolError
      [] line \in PiResponses \ {"response_without_id"} -> Empty
      [] line \in PiUiRequests -> ParseUiRequest(line)
      [] line \in PiEvents -> ParsePiEvent(line)
      [] OTHER -> ProtocolError       \* not JSON, or an unknown type with an id

(* The deny-list of the parser is empty: ClaudeBackend::spawn passes none. *)
ParseClaude(line) ==
    CASE line = "assistant" -> Parsed(<<"MessageDelta", "ToolCall">>, NoAnswer)
      [] line = "user" -> Parsed(<<"ToolResult">>, NoAnswer)
      [] line = "success" -> Parsed(<<"TurnEnd", "Complete0">>, NoAnswer)
      [] line = "error" -> Parsed(<<"Error", "Complete1">>, NoAnswer)
      [] line = "control_request" -> Parsed(<<>>, "approve")
      [] line \in {"system", "result_of_new_kind", "type_of_newer_version"} -> Empty
      [] OTHER -> ProtocolError

ParseLine(backend, line) == IF backend = "pi" THEN ParsePi(line) ELSE ParseClaude(line)

(* What next_line makes of a line before any parser sees it.               *)
ReaderError(line) == line = "too_long"
ReaderSkips(line) == line = "blank"

(***************************************************************************)
(* What the agent means by a line, for the properties: the tables of       *)
(* src/specs/loom-agent.md.                                                *)
(***************************************************************************)
Meaning(line) ==
    CASE line \in {"text_delta"} -> <<"MessageDelta">>
      [] line = "assistant" -> <<"MessageDelta", "ToolCall">>
      [] line = "tool_start" -> <<"ToolCall">>
      [] line \in {"tool_end", "user"} -> <<"ToolResult">>
      [] line = "turn_end" -> <<"TurnEnd">>
      [] line = "agent_end" -> <<"Complete0">>
      [] line = "success" -> <<"TurnEnd", "Complete0">>
      [] line = "error" -> <<"Error", "Complete1">>
      [] line = "delta_error" -> <<"Error">>
      [] line = "compaction_start" -> <<"CompactionStart">>
      [] line = "compaction_end" -> <<"CompactionEnd">>
      [] OTHER -> <<>>

Asks(line) == line \in {"ui_select", "control_request"}
=============================================================================
