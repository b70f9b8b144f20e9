------------------------------- MODULE LoomConfig -------------------------------
(***************************************************************************)
(* Which agent a command selects, from .wrapix/loom/config.toml and the    *)
(* --agent flag: LoomConfig::agent_for (loom-core/src/config) and          *)
(* resolved_agent_for (loom/src/main.rs).  Its callers use only the kind   *)
(* of the selection so far (main.rs:443, 625).                             *)
(***************************************************************************)
EXTENDS Naturals

CONSTANTS None

AgentKinds == {"claude", "pi"}
BackendNames == AgentKinds \cup {"other"}
Phases == {"run", "todo"}
NoOverride == [backend |-> None, model |-> None]
Overrides == [backend : BackendNames \cup {None}, model : {"m", None}]

(* What is read: the file, which may be absent, and --agent.  settings are *)
(* what [claude] and [security] say.                                       *)
AgentInputs ==
    [absent : BOOLEAN, default : BackendNames, overrides : [Phases -> Overrides],
     settings : {"strict", "lax"}, agent : AgentKinds \cup {None}]

Defaults ==
    [default |-> "claude", overrides |-> [p \in Phases |-> NoOverride], settings |-> "lax"]

(* LoomConfig::load; a file that cannot be read ends the command.          *)
Load(in) ==
    IF in.absent THEN Defaults
    ELSE [default |-> in.default, overrides |-> in.overrides, settings |-> in.settings]

Selection(kind, model, settings) == [kind |-> kind, model |-> model, settings |-> settings]
UnknownBackend == Selection(None, None, None)
ClaudeSettings(config, kind) == IF kind = "claude" THEN config.settings ELSE None

(* agent_for                                                               *)
AgentFor(config, phase) ==
    LET entry == config.overrides[phase]
        name == IF entry.backend # None THEN entry.backend ELSE config.default
    IN IF name \notin AgentKinds THEN UnknownBackend
       ELSE Selection(name, entry.model, ClaudeSettings(config, name))

(* Mutant: --agent changes the kind and leaves the kind's settings.        *)
KindOnly(in, phase) ==
    LET selection == AgentFor(Load(in), phase) IN
    IF selection = UnknownBackend \/ in.agent = None THEN selection
    ELSE [selection EXCEPT !.kind = in.agent]
(* resolved_agent_for: an unknown backend fails before --agent counts.     *)
ResolvedAgentFor(in, phase) ==
    LET selection == AgentFor(Load(in), phase) IN
    IF selection = UnknownBackend \/ in.agent = None THEN selection
    ELSE [selection EXCEPT !.kind = in.agent, !.settings = ClaudeSettings(Load(in), in.agent)]

(* --agent, then the phase's backend, then the default decides; claude is  *)
(* never selected without its settings nor pi with them; the phase's model *)
(* holds whatever decided; and an unknown name that neither the phase nor  *)
(* --agent covers up is refused.  Under --agent it is refused as well,     *)
(* though the override is said to win (main.rs:457): of that case nothing  *)
(* is asked but that nothing else is selected.                             *)
AgentMeant(in, phase, found) ==
    LET own == IF in.absent THEN NoOverride ELSE in.overrides[phase]
        named == IF own.backend # None THEN own.backend
                 ELSE IF in.absent THEN "claude" ELSE in.default
    IN /\ found = UnknownBackend => named = "other"
       /\ named = "other" /\ in.agent = None => found = UnknownBackend
       /\ found # UnknownBackend =>
            /\ found.kind = IF in.agent # None THEN in.agent ELSE named
            /\ found.model = own.model
            /\ found.settings # None <=> found.kind = "claude"
            /\ found.settings # None /\ ~in.absent => found.settings = in.settings

===============================================================================
