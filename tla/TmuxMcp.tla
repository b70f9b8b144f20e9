------------------------------- MODULE TmuxMcp -------------------------------
(***************************************************************************)
(* tmux-mcp (src/lib/mcp/tmux/tmux-mcp): a single-threaded server that     *)
(* reads one JSON-RPC line at a time from its client, runs tmux commands   *)
(* one by one and answers.  Between two commands of one request processes  *)
(* exit, somebody else closes a window, a command fails, a signal arrives  *)
(* or the client goes away.                                                *)
(*                                                                         *)
(* Of a request the model keeps what the code decides on: the method, the  *)
(* tool, which arguments are there, and the pane they name.                *)
(***************************************************************************)
EXTENDS TmuxServer

VARIABLES
    pc,             \* where the server is
    req,            \* the tool call being handled
    reply,          \* the response to the last line, or "none"
    initialized,    \* McpHandler.initialized
    tracked,        \* PaneManager.panes: id to status
    nextId,         \* PaneManager.next_id
    sessionCreated, \* TmuxSession.session_created
    listed,         \* what list-windows printed for this request
    auditOn,        \* AUDIT_LOG_ENV is set
    entry,          \* the audit entry written for this request
    stdin,          \* the client's side of the pipes
    terminated      \* SHUTDOWN_REQUESTED

panesVars == <<tracked, nextId>>
envVars == <<auditOn, stdin, terminated>>
vars == <<tmuxVars, pc, req, reply, initialized, panesVars, sessionCreated,
          listed, entry, envVars>>

Tools == {"create_pane", "send_keys", "capture_pane", "kill_pane", "list_panes"}

(* get_tool_definitions: the arguments each tool requires, of those it     *)
(* accepts; `name` and `lines` are optional and change no control flow.    *)
Required == [t \in Tools |->
    CASE t = "create_pane" -> {"command"}
      [] t = "send_keys" -> {"pane_id", "keys"}
      [] t \in {"capture_pane", "kill_pane"} -> {"pane_id"}
      [] t = "list_panes" -> {}]

(* A pane id the client may name: one the server gives out, or 0 for any   *)
(* other string.                                                           *)
Calls == [tool : Tools \cup {"other"}, args : SUBSET {"command", "pane_id", "keys"},
          pane : Windows]

(* Methods of the other lines; "garbage" does not parse, "bad_call" is a   *)
(* tools/call whose params do not, "not_utf8" is no text at all.           *)
Methods == {"initialize", "notifications/initialized", "tools/list", "other",
            "bad_call", "garbage", "empty", "not_utf8"}

Replies == {"result", "tool_error", "PARSE_ERROR", "INVALID_PARAMS",
            "INTERNAL_ERROR", "METHOD_NOT_FOUND"}

Statuses == {"running", "exited"}
NoPanes == [p \in {} |-> "running"]
NoCall == [tool |-> "none", pane |-> 0]
NoEntry == <<"none", 0>>
LostEntry == <<"lost", 0>>

TypeOK ==
    /\ TmuxTypeOK
    /\ pc \in {"reading", "new-session", "set-hook", "new-window", "set-option",
               "send-keys", "capture-pane", "window-info", "kill-window",
               "list-windows", "audit", "answer", "cleanup", "stopped", "killed"}
    /\ req \in [tool : Tools \cup {"none"}, pane : Windows]
    /\ reply \in Replies \cup {"none"}
    /\ {initialized, sessionCreated, auditOn, terminated} \subseteq BOOLEAN
    /\ DOMAIN tracked \subseteq Panes /\ \A p \in DOMAIN tracked : tracked[p] \in Statuses
    /\ nextId \in 1 .. MaxPanes + 1
    /\ DOMAIN listed \subseteq Windows
    /\ entry \in (Tools \X Windows) \cup {NoEntry, LostEntry}
    /\ stdin \in {"open", "closed"}

(***************************************************************************)
(* PaneManager                                                             *)
(***************************************************************************)
NewManager ==
    /\ tracked = NoPanes
    /\ nextId = 1

(* The id comes from the counter, never from the pane's name.              *)
CreatePane ==
    /\ nextId \in Panes
    /\ tracked' = [p \in (DOMAIN tracked) \cup {nextId} |->
                      IF p = nextId THEN "running" ELSE tracked[p]]
    /\ nextId' = nextId + 1

RemovePane(p) ==
    /\ tracked' = [q \in (DOMAIN tracked) \ {p} |-> tracked[q]]
    /\ UNCHANGED nextId

(* Mutant: a window the manager does not know is added.                    *)
UpsertStatus(f) ==
    /\ tracked' = [p \in (DOMAIN tracked) \cup (DOMAIN f) |->
                      IF p \in DOMAIN f THEN f[p] ELSE tracked[p]]
    /\ UNCHANGED nextId
UpdateStatus(f) ==
    /\ tracked' = [p \in DOMAIN tracked |-> IF p \in DOMAIN f THEN f[p] ELSE tracked[p]]
    /\ UNCHANGED nextId

(* Mutant: the flag is read from the wrong field.                          *)
AlwaysRunning(w) == "running"
WindowStatus(w) == IF w = "dead" THEN "exited" ELSE "running"

(* TmuxSession::new runs no command: the session comes with the first pane *)
NewTmuxSession == sessionCreated = FALSE

(* list_windows: what list-windows prints, parsed line by line.            *)
Listed == [w \in {v \in Windows : Open(v)} |-> win[w]]

(* AuditEntry: what of an entry the properties tell apart.                 *)
AuditEntry(tool, pane) == <<tool, pane>>

(***************************************************************************)
(* Initial state and helpers                                               *)
(***************************************************************************)
Init ==
    /\ TmuxInit
    /\ NewManager
    /\ pc = "reading" /\ req = NoCall /\ reply = "none"
    /\ initialized = FALSE /\ NewTmuxSession
    /\ listed = NoPanes
    /\ auditOn \in BOOLEAN /\ entry = NoEntry
    /\ stdin = "open" /\ terminated = FALSE

(* One tmux command of the request in hand: at l it is done, or it fails.  *)
At(l) == pc = l /\ UNCHANGED <<req, initialized, envVars>>
Fails(refused) == Fault \/ (refused /\ Refused)
Goto(l) == pc' = l /\ UNCHANGED <<reply, listed, entry>>
Return(r) == pc' = "answer" /\ reply' = r /\ UNCHANGED <<listed, entry>>
KeepPanes == UNCHANGED <<panesVars, sessionCreated>>

(***************************************************************************)
(* Reading a line (run_server, parse_request, from_request,                *)
(* validate_request, process_request, handle_tool_call)                    *)
(***************************************************************************)
(* The line is handled only when no signal was seen when it came in.       *)
NextLine ==
    /\ pc = "reading" /\ stdin = "open" /\ ~terminated
    /\ entry' = NoEntry /\ effect' = NoEffect /\ listed' = NoPanes
    /\ UNCHANGED <<win, remain, hooked, meddled, faults, sessionCreated, envVars>>

Answered(r) == pc' = "answer" /\ reply' = r /\ req' = NoCall

(* A line that is no text ends the server: `line?`, then the drops.        *)
ReadMethod(m) ==
    /\ NextLine
    /\ CASE m = "initialize" -> Answered("result")
         [] m = "other" -> Answered("METHOD_NOT_FOUND")
         [] m = "bad_call" -> Answered("INVALID_PARAMS")
         [] m = "garbage" -> Answered("PARSE_ERROR")
         [] m = "not_utf8" -> pc' = "cleanup" /\ reply' = "none" /\ req' = NoCall
         [] m = "tools/list" -> Answered(IF initialized THEN "result" ELSE "INTERNAL_ERROR")
         [] OTHER -> pc' = "reading" /\ reply' = "none" /\ req' = NoCall
    /\ initialized' = (initialized \/ m \in {"initialize", "notifications/initialized"})
    /\ UNCHANGED panesVars

(* The checks a handler makes before it does anything.                     *)
Accepts(c) ==
    /\ c.tool \in Tools
    /\ Required[c.tool] \subseteq c.args
    /\ "pane_id" \in Required[c.tool] => c.pane \in DOMAIN tracked

ReadRejectedCall(c) ==
    /\ NextLine
    /\ ~(initialized /\ Accepts(c))
    /\ Answered(IF initialized THEN "tool_error" ELSE "INTERNAL_ERROR")
    /\ UNCHANGED <<initialized, panesVars>>

Start(l, p, c) == pc' = l /\ req' = [tool |-> c.tool, pane |-> p]

(* Without a session list_windows answers "no windows" on its own.         *)
ReadCall(c) ==
    /\ NextLine
    /\ initialized /\ Accepts(c)
    /\ \/ /\ c.tool = "create_pane"
          /\ Start(IF sessionCreated THEN "new-window" ELSE "new-session", nextId, c)
          /\ CreatePane
       \/ c.tool = "send_keys" /\ Start("send-keys", c.pane, c) /\ UNCHANGED panesVars
       \/ c.tool = "capture_pane" /\ Start("capture-pane", c.pane, c) /\ UNCHANGED panesVars
       \/ c.tool = "kill_pane" /\ Start("kill-window", c.pane, c) /\ UNCHANGED panesVars
       \/ /\ c.tool = "list_panes"
          /\ Start(IF sessionCreated THEN "list-windows" ELSE "audit", 0, c)
          /\ UNCHANGED panesVars
    /\ reply' = "none"
    /\ UNCHANGED initialized

(***************************************************************************)
(* handle_create_pane over TmuxSession::create_pane and ensure_session     *)
(***************************************************************************)
CreateFails(refused) ==
    /\ Fails(refused)
    /\ RemovePane(req.pane)
    /\ Return("tool_error")
    /\ UNCHANGED sessionCreated

NewSession ==
    /\ At("new-session")
    /\ \/ NewSessionDone /\ Goto("set-hook") /\ KeepPanes
       \/ CreateFails(SessionExists)

(* Mutant: without the hook, only the later set-option keeps a dead pane.  *)
SkipHook ==
    /\ At("set-hook")
    /\ Refused /\ Goto("new-window")
    /\ sessionCreated' = TRUE /\ UNCHANGED panesVars
SetHook ==
    /\ At("set-hook")
    /\ \/ SetHookDone /\ Goto("new-window") /\ sessionCreated' = TRUE /\ UNCHANGED panesVars
       \/ CreateFails(~SessionExists)

NewWindow ==
    /\ At("new-window")
    /\ \/ NewWindowDone(req.pane) /\ Goto("set-option") /\ KeepPanes
       \/ CreateFails(~SessionExists)

(* Best effort: its failure is ignored.                                    *)
SetOption ==
    /\ At("set-option")
    /\ SetOptionDone(req.pane) \/ Fails(~Open(req.pane))
    /\ Goto("audit")
    /\ KeepPanes

(***************************************************************************)
(* handle_send_keys, handle_capture_pane, handle_kill_pane                 *)
(***************************************************************************)
SendKeys ==
    /\ At("send-keys")
    /\ \/ ReadOnlyDone("send", req.pane) /\ Goto("audit")
       \/ Fails(~Open(req.pane)) /\ Return("tool_error")
    /\ KeepPanes

Capture ==
    /\ At("capture-pane")
    /\ \/ ReadOnlyDone("capture", req.pane) /\ Goto("audit")
       \/ Fails(~Open(req.pane)) /\ Return("tool_error")
    /\ KeepPanes

(* get_window_info asks list-windows, which prints all of the session, and *)
(* takes the first line.                                                   *)
WindowInfo ==
    /\ At("window-info")
    /\ \/ /\ Open(req.pane)
          /\ Refused
          /\ UpdateStatus([p \in {req.pane} |-> WindowStatus(win[FirstWindow])])
       \/ Fails(~Open(req.pane)) /\ UNCHANGED panesVars
    /\ Return("result")
    /\ UNCHANGED sessionCreated

(* Mutant: the entry is written whether the pane was killed or not.        *)
KillAlwaysLogged ==
    /\ At("kill-window")
    /\ \/ KillWindowDone(req.pane) /\ RemovePane(req.pane) /\ Goto("audit")
       \/ Fails(~Open(req.pane)) /\ UNCHANGED panesVars /\ Goto("audit")
    /\ UNCHANGED sessionCreated
Kill ==
    /\ At("kill-window")
    /\ \/ KillWindowDone(req.pane) /\ RemovePane(req.pane) /\ Goto("audit")
       \/ Fails(~Open(req.pane)) /\ UNCHANGED panesVars /\ Return("tool_error")
    /\ UNCHANGED sessionCreated

(***************************************************************************)
(* handle_list_panes over list_windows                                     *)
(***************************************************************************)
ListPanes ==
    /\ At("list-windows")
    /\ \/ /\ ReadOnlyDone("list", 0)
          /\ listed' = Listed
          /\ UpdateStatus([p \in DOMAIN Listed |-> WindowStatus(Listed[p])])
          /\ UNCHANGED <<reply, entry>>
       \/ Fails(~SessionExists) /\ UNCHANGED <<panesVars, reply, listed, entry>>
    /\ pc' = "audit"
    /\ UNCHANGED sessionCreated

(***************************************************************************)
(* MaybeAuditLogger: create the directory, open the file, append the line; *)
(* an error of any of them is dropped.                                     *)
(***************************************************************************)
AfterAudit ==
    IF req.tool = "capture_pane"
    THEN pc' = "window-info" /\ UNCHANGED reply
    ELSE pc' = "answer" /\ reply' = "result"

Audit ==
    /\ At("audit")
    /\ IF auditOn
       THEN \/ entry' = AuditEntry(req.tool, req.pane) /\ Refused
            \/ entry' = LostEntry /\ Fault
       ELSE Refused /\ UNCHANGED entry
    /\ AfterAudit
    /\ KeepPanes /\ UNCHANGED listed

(***************************************************************************)
(* Writing the response, and the end of the server                         *)
(***************************************************************************)
(* writeln! or flush fails when the client is gone.                        *)
Answer ==
    /\ At("answer")
    /\ Goto(IF stdin = "open" THEN "reading" ELSE "cleanup")
    /\ Refused /\ KeepPanes

(* The read ends, or returns a line after a signal, which is dropped.      *)
(* SA_RESTART: the signal alone does not end the read.                     *)
LeaveLoop ==
    /\ At("reading")
    /\ stdin = "closed" \/ terminated
    /\ Goto("cleanup")
    /\ Refused /\ KeepPanes

(* Mutant: exit() runs no destructor.                                      *)
ExitWithoutDrop ==
    /\ At("cleanup")
    /\ Refused /\ Goto("stopped") /\ KeepPanes
(* kill_session, from the Drop of TmuxSession.                             *)
Cleanup ==
    /\ At("cleanup")
    /\ IF sessionCreated THEN KillSessionDone \/ Fails(FALSE) ELSE Refused
    /\ sessionCreated' = FALSE
    /\ Goto("stopped")
    /\ UNCHANGED panesVars

ServerStep ==
    \/ NewSession \/ SetHook \/ NewWindow \/ SetOption
    \/ SendKeys \/ Capture \/ WindowInfo \/ Kill \/ ListPanes
    \/ Audit \/ Answer \/ Cleanup

(***************************************************************************)
(* The rest of the world                                                   *)
(***************************************************************************)
Client ==
    \/ \E m \in Methods : ReadMethod(m)
    \/ \E c \in Calls : ReadRejectedCall(c) \/ ReadCall(c)

(* The client ends: its ends of both pipes close.                          *)
ClientLeaves ==
    /\ stdin = "open"
    /\ stdin' = "closed"
    /\ UNCHANGED <<tmuxVars, pc, req, reply, initialized, panesVars, sessionCreated,
                   listed, entry, auditOn, terminated>>

Signal ==
    /\ pc \notin {"stopped", "killed"} /\ ~terminated
    /\ terminated' = TRUE
    /\ UNCHANGED <<tmuxVars, pc, req, reply, initialized, panesVars, sessionCreated,
                   listed, entry, auditOn, stdin>>

SigKill ==
    /\ pc \notin {"stopped", "killed"}
    /\ pc' = "killed"
    /\ UNCHANGED <<tmuxVars, req, reply, initialized, panesVars, sessionCreated,
                   listed, entry, envVars>>

SessionChanges ==
    /\ pc \notin {"stopped", "killed"}
    /\ \/ \E w \in Windows : ProcessExits(w) \/ SomebodyCloses({w})
       \/ SessionExists /\ SomebodyCloses({w \in Windows : Open(w)})
    /\ UNCHANGED <<pc, req, reply, initialized, panesVars, sessionCreated,
                   listed, entry, envVars>>

Next == Client \/ ServerStep \/ LeaveLoop \/ ClientLeaves \/ Signal \/ SigKill
        \/ SessionChanges

Spec == Init /\ [][Next]_vars

(* The server runs; the client owes it nothing, and a line may never come. *)
FairSpec == Spec /\ WF_vars(ServerStep)
                 /\ WF_vars(LeaveLoop /\ stdin = "closed")

(***************************************************************************)
(* Properties                                                              *)
(***************************************************************************)
Serving == pc \notin {"stopped", "killed"}

(* Whenever the server waits for a request, the panes it tracks are the    *)
(* windows of the session: a pane whose process ended, however fast, is    *)
(* still there to be captured, a call that failed half-way left nothing    *)
(* behind, and no window runs that the client cannot name.  Only windows   *)
(* that somebody else closed are missing.                                  *)
PanesAreWindows ==
    pc \in {"reading", "answer"} =>
        /\ \A p \in Panes : Open(p) => p \in DOMAIN tracked
        /\ \A p \in DOMAIN tracked : Open(p) \/ p \in meddled

(* The listing the client gets shows the panes as tmux listed them for     *)
(* this very request, whatever earlier captures had stored about them.     *)
ListingIsTrue ==
    (pc = "answer" /\ effect = <<"list", 0>>) =>
        \A p \in (DOMAIN tracked) \cap (DOMAIN listed) :
            (tracked[p] = "exited") <=> (listed[p] = "dead")

(* The audit log tells what happened: an answered call that changed or     *)
(* read the session is in the log with its tool and pane unless the write  *)
(* failed, and a call tmux did not carry out is not.                       *)
AuditIsTrue ==
    (auditOn /\ pc = "answer" /\ req.tool # "none") =>
        LET tool == CASE effect[1] = "new" -> "create_pane"
                      [] effect[1] = "send" -> "send_keys"
                      [] effect[1] = "capture" -> "capture_pane"
                      [] effect[1] = "kill" -> "kill_pane"
                      [] OTHER -> "list_panes"
        IN \/ entry = LostEntry
           \/ entry = <<tool, effect[2]>>
           \/ effect = NoEffect /\ entry = NoEntry /\ reply = "tool_error"

(* When the client goes away the server ends, in the middle of a request   *)
(* or between two, and its session is gone with it: only a failed tmux     *)
(* command or a SIGKILL leaves one behind.                                 *)
ClientGoneCleansUp ==
    stdin = "closed" ~> \/ pc = "killed"
                        \/ pc = "stopped" /\ (SessionExists => faults > 0)
=============================================================================
