--------------------------- MODULE TmuxMcp_proofs ---------------------------
(***************************************************************************)
(* Proofs about TmuxMcp for any number of panes and of failures.           *)
(***************************************************************************)
EXTENDS TmuxMcp, TLAPS

(* The call in hand is the one the place belongs to; a created pane has an *)
(* id, a listing names no window.                                          *)
ToolInHand ==
  /\ pc \in {"new-session", "set-hook", "new-window", "set-option"} =>
         req.tool = "create_pane" /\ req.pane \in Panes
  /\ pc = "send-keys" => req.tool = "send_keys"
  /\ pc \in {"capture-pane", "window-info"} => req.tool = "capture_pane"
  /\ pc = "kill-window" => req.tool = "kill_pane"
  /\ pc = "list-windows" => req.tool = "list_panes" /\ req.pane = 0
  /\ pc = "audit" => req.tool \in Tools

(* The place between a new id and its window.                              *)
Creating == pc \in {"new-session", "set-hook", "new-window"}

(* Ids are never given out twice.                                          *)
IdsAreUsedOnce == \A p \in DOMAIN tracked : p < nextId

(* new-window only runs in a session that has the hook.                    *)
HookInPlace ==
  /\ sessionCreated => hooked
  /\ pc = "new-session" => ~sessionCreated
  /\ pc = "new-window" => hooked

(* A pane whose process ends stays as a dead pane.                         *)
DeadPanesStay == \A p \in Panes : Open(p) => p \in remain

(* At every place of a request, not only between two as PanesAreWindows    *)
(* says, no window is without its pane ...                                 *)
NoStrayWindow ==
  /\ \A p \in Panes : Open(p) => p \in DOMAIN tracked
  /\ Creating => req.pane \in DOMAIN tracked /\ ~Open(req.pane)

(* ... and no pane without its window, but for the one being created.      *)
NoLostWindow ==
  Serving => \A p \in DOMAIN tracked :
                 Open(p) \/ p \in meddled \/ (Creating /\ p = req.pane)

(* What the commands of the request in hand have done so far.              *)
Done ==
  /\ req.tool = "create_pane" => effect = <<"new", req.pane>>
  /\ req.tool = "send_keys" => effect = <<"send", req.pane>>
  /\ req.tool = "capture_pane" => effect = <<"capture", req.pane>>
  /\ req.tool = "kill_pane" => effect = <<"kill", req.pane>>
  /\ req.tool = "list_panes" => req.pane = 0 /\ effect \in {NoEffect, <<"list", 0>>}

CommandsSoFar ==
  /\ pc \in {"new-session", "set-hook", "new-window", "send-keys", "capture-pane",
             "kill-window", "list-windows"} => effect = NoEffect
  /\ pc \in {"set-option", "audit", "window-info"} => Done
  /\ pc \in {"new-session", "set-hook", "new-window", "set-option", "send-keys",
             "capture-pane", "kill-window", "list-windows", "audit"} => entry = NoEntry
  /\ pc = "window-info" /\ auditOn => entry \in {LostEntry, <<"capture_pane", req.pane>>}

(* ListingIsTrue from the listing on.                                      *)
ListingStaysTrue ==
  (pc \in {"audit", "answer"} /\ effect = <<"list", 0>>) =>
      \A p \in (DOMAIN tracked) \cap (DOMAIN listed) :
          (tracked[p] = "exited") <=> (listed[p] = "dead")

(* The inductive invariant.                                                *)
McpInv ==
  /\ TypeOK
  /\ ToolInHand
  /\ IdsAreUsedOnce
  /\ HookInPlace
  /\ DeadPanesStay
  /\ NoStrayWindow
  /\ NoLostWindow
  /\ CommandsSoFar
  /\ ListingStaysTrue
  /\ AuditIsTrue

-------------------------------------------------------------------------------
(* Plumbing that every step goes through.                                  *)
USE DEF At, Fails, Goto, Return, KeepPanes, Fault, Refused, vars, tmuxVars, panesVars,
        envVars

(* The place and the call go together.                                     *)
LEMMA ToolInHandStep == McpInv /\ [Next]_vars => ToolInHand'
<1> SUFFICES ASSUME McpInv, [Next]_vars PROVE ToolInHand'
  OBVIOUS
<1> USE TmuxAssumption DEF ToolInHand, McpInv, TypeOK, Calls, Tools, Required, Panes,
            Windows, NoCall
<1>1. ASSUME NEW m \in Methods, ReadMethod(m) PROVE ToolInHand'
  BY <1>1 DEF ReadMethod, NextLine, Answered
<1>2. ASSUME NEW c \in Calls, ReadRejectedCall(c) PROVE ToolInHand'
  BY <1>2 DEF ReadRejectedCall, NextLine, Answered
<1>3. ASSUME NEW c \in Calls, ReadCall(c) PROVE ToolInHand'
  BY <1>3 DEF ReadCall, NextLine, Start, Accepts, CreatePane
<1>4. ASSUME NewSession \/ SetHook \/ NewWindow \/ SetOption PROVE ToolInHand'
  BY <1>4 DEF NewSession, SetHook, NewWindow, SetOption, CreateFails, RemovePane,
         NewSessionDone, SetHookDone, NewWindowDone, SetOptionDone
<1>5. ASSUME SendKeys \/ Capture \/ WindowInfo \/ Kill \/ ListPanes PROVE ToolInHand'
  BY <1>5 DEF SendKeys, Capture, WindowInfo, Kill, ListPanes, UpdateStatus, RemovePane,
         ReadOnlyDone, KillWindowDone
<1>6. ASSUME Audit \/ Answer \/ Cleanup \/ LeaveLoop PROVE ToolInHand'
  BY <1>6 DEF Audit, AfterAudit, Answer, Cleanup, LeaveLoop, KillSessionDone
<1>7. ASSUME ClientLeaves \/ Signal \/ SigKill PROVE ToolInHand'
  BY <1>7 DEF ClientLeaves, Signal, SigKill
<1>8. ASSUME SessionChanges PROVE ToolInHand'
  BY <1>8 DEF SessionChanges, ProcessExits, SomebodyCloses
<1>9. CASE UNCHANGED vars
  BY <1>9
<1> QED
  BY <1>1, <1>2, <1>3, <1>4, <1>5, <1>6, <1>7, <1>8, <1>9 DEF Next, Client, ServerStep

(* Ids are given out in order.                                             *)
LEMMA IdsStep == McpInv /\ [Next]_vars => IdsAreUsedOnce'
<1> SUFFICES ASSUME McpInv, [Next]_vars PROVE IdsAreUsedOnce'
  OBVIOUS
<1> USE TmuxAssumption DEF IdsAreUsedOnce, McpInv, TypeOK, Panes
<1>1. ASSUME NEW m \in Methods, ReadMethod(m) PROVE IdsAreUsedOnce'
  BY <1>1 DEF ReadMethod, NextLine, Answered
<1>2. ASSUME NEW c \in Calls, ReadRejectedCall(c) PROVE IdsAreUsedOnce'
  BY <1>2 DEF ReadRejectedCall, NextLine, Answered
<1>3. ASSUME NEW c \in Calls, ReadCall(c) PROVE IdsAreUsedOnce'
  BY <1>3 DEF ReadCall, NextLine, Start, Accepts, CreatePane
<1>4. ASSUME NewSession \/ SetHook \/ NewWindow \/ SetOption PROVE IdsAreUsedOnce'
  BY <1>4 DEF NewSession, SetHook, NewWindow, SetOption, CreateFails, RemovePane,
         NewSessionDone, SetHookDone, NewWindowDone, SetOptionDone
<1>5. ASSUME SendKeys \/ Capture \/ WindowInfo \/ Kill \/ ListPanes PROVE IdsAreUsedOnce'
  BY <1>5 DEF SendKeys, Capture, WindowInfo, Kill, ListPanes, UpdateStatus, RemovePane,
         ReadOnlyDone, KillWindowDone
<1>6. ASSUME Audit \/ Answer \/ Cleanup \/ LeaveLoop PROVE IdsAreUsedOnce'
  BY <1>6 DEF Audit, AfterAudit, Answer, Cleanup, LeaveLoop, KillSessionDone
<1>7. ASSUME ClientLeaves \/ Signal \/ SigKill PROVE IdsAreUsedOnce'
  BY <1>7 DEF ClientLeaves, Signal, SigKill
<1>8. ASSUME SessionChanges PROVE IdsAreUsedOnce'
  BY <1>8 DEF SessionChanges, ProcessExits, SomebodyCloses
<1>9. CASE UNCHANGED vars
  BY <1>9
<1> QED
  BY <1>1, <1>2, <1>3, <1>4, <1>5, <1>6, <1>7, <1>8, <1>9 DEF Next, Client, ServerStep

(* The hook comes before the first pane.                                   *)
LEMMA HookStep == McpInv /\ [Next]_vars => HookInPlace'
<1> SUFFICES ASSUME McpInv, [Next]_vars PROVE HookInPlace'
  OBVIOUS
<1> USE TmuxAssumption DEF HookInPlace, McpInv, TypeOK, TmuxTypeOK
<1>1. ASSUME NEW m \in Methods, ReadMethod(m) PROVE HookInPlace'
  BY <1>1 DEF ReadMethod, NextLine, Answered
<1>2. ASSUME NEW c \in Calls, ReadRejectedCall(c) PROVE HookInPlace'
  BY <1>2 DEF ReadRejectedCall, NextLine, Answered
<1>3. ASSUME NEW c \in Calls, ReadCall(c) PROVE HookInPlace'
  BY <1>3 DEF ReadCall, NextLine, Start, Accepts, CreatePane
<1>4. ASSUME NewSession \/ SetHook \/ NewWindow \/ SetOption PROVE HookInPlace'
  BY <1>4 DEF NewSession, SetHook, NewWindow, SetOption, CreateFails, RemovePane,
         NewSessionDone, SetHookDone, NewWindowDone, SetOptionDone
<1>5. ASSUME SendKeys \/ Capture \/ WindowInfo \/ Kill \/ ListPanes PROVE HookInPlace'
  BY <1>5 DEF SendKeys, Capture, WindowInfo, Kill, ListPanes, UpdateStatus, RemovePane,
         ReadOnlyDone, KillWindowDone
<1>6. ASSUME Audit \/ Answer \/ Cleanup \/ LeaveLoop PROVE HookInPlace'
  BY <1>6 DEF Audit, AfterAudit, Answer, Cleanup, LeaveLoop, KillSessionDone
<1>7. ASSUME ClientLeaves \/ Signal \/ SigKill PROVE HookInPlace'
  BY <1>7 DEF ClientLeaves, Signal, SigKill
<1>8. ASSUME SessionChanges PROVE HookInPlace'
  BY <1>8 DEF SessionChanges, ProcessExits, SomebodyCloses
<1>9. CASE UNCHANGED vars
  BY <1>9
<1> QED
  BY <1>1, <1>2, <1>3, <1>4, <1>5, <1>6, <1>7, <1>8, <1>9 DEF Next, Client, ServerStep

(* A window that opens has remain-on-exit, through the hook.               *)
LEMMA DeadPanesStep == McpInv /\ [Next]_vars => DeadPanesStay'
<1> SUFFICES ASSUME McpInv, [Next]_vars PROVE DeadPanesStay'
  OBVIOUS
<1> USE TmuxAssumption DEF DeadPanesStay, HookInPlace, McpInv, TypeOK, TmuxTypeOK,
            Open, Panes, Windows
<1>1. ASSUME NEW m \in Methods, ReadMethod(m) PROVE DeadPanesStay'
  BY <1>1 DEF ReadMethod, NextLine, Answered
<1>2. ASSUME NEW c \in Calls, ReadRejectedCall(c) PROVE DeadPanesStay'
  BY <1>2 DEF ReadRejectedCall, NextLine, Answered
<1>3. ASSUME NEW c \in Calls, ReadCall(c) PROVE DeadPanesStay'
  BY <1>3 DEF ReadCall, NextLine, Start, Accepts, CreatePane
<1>4. ASSUME NewSession \/ SetHook \/ NewWindow \/ SetOption PROVE DeadPanesStay'
  BY <1>4 DEF NewSession, SetHook, NewWindow, SetOption, CreateFails, RemovePane,
         NewSessionDone, SetHookDone, NewWindowDone, SetOptionDone
<1>5. ASSUME SendKeys \/ Capture \/ WindowInfo \/ Kill \/ ListPanes PROVE DeadPanesStay'
  BY <1>5 DEF SendKeys, Capture, WindowInfo, Kill, ListPanes, UpdateStatus, RemovePane,
         ReadOnlyDone, KillWindowDone
<1>6. ASSUME Audit \/ Answer \/ Cleanup \/ LeaveLoop PROVE DeadPanesStay'
  BY <1>6 DEF Audit, AfterAudit, Answer, Cleanup, LeaveLoop, KillSessionDone
<1>7. ASSUME ClientLeaves \/ Signal \/ SigKill PROVE DeadPanesStay'
  BY <1>7 DEF ClientLeaves, Signal, SigKill
<1>8. ASSUME SessionChanges PROVE DeadPanesStay'
  BY <1>8 DEF SessionChanges, ProcessExits, SomebodyCloses
<1>9. CASE UNCHANGED vars
  BY <1>9
<1> QED
  BY <1>1, <1>2, <1>3, <1>4, <1>5, <1>6, <1>7, <1>8, <1>9 DEF Next, Client, ServerStep

(* A window opens with the id of its pane, and a pane goes with its window. *)
LEMMA NoStrayStep == McpInv /\ [Next]_vars => NoStrayWindow'
<1> SUFFICES ASSUME McpInv, [Next]_vars PROVE NoStrayWindow'
  OBVIOUS
<1> USE TmuxAssumption DEF NoStrayWindow, Creating, IdsAreUsedOnce, ToolInHand,
            DeadPanesStay, McpInv, TypeOK, TmuxTypeOK, Open, Panes, Windows
<1>1. ASSUME NEW m \in Methods, ReadMethod(m) PROVE NoStrayWindow'
  BY <1>1 DEF ReadMethod, NextLine, Answered
<1>2. ASSUME NEW c \in Calls, ReadRejectedCall(c) PROVE NoStrayWindow'
  BY <1>2 DEF ReadRejectedCall, NextLine, Answered
<1>3. ASSUME NEW c \in Calls, ReadCall(c) PROVE NoStrayWindow'
  BY <1>3 DEF ReadCall, NextLine, Start, Accepts, CreatePane
<1>4. ASSUME NewSession \/ SetHook \/ NewWindow \/ SetOption PROVE NoStrayWindow'
  <2>1. CASE NewSession
    BY <2>1 DEF NewSession, CreateFails, RemovePane, NewSessionDone
  <2>2. CASE SetHook
    BY <2>2 DEF SetHook, CreateFails, RemovePane, SetHookDone
  <2>3. CASE NewWindow
    BY <2>3 DEF NewWindow, CreateFails, RemovePane, NewWindowDone
  <2>4. CASE SetOption
    BY <2>4 DEF SetOption, SetOptionDone
  <2> QED
    BY <1>4, <2>1, <2>2, <2>3, <2>4
<1>5. ASSUME SendKeys \/ Capture \/ WindowInfo \/ Kill \/ ListPanes PROVE NoStrayWindow'
  BY <1>5 DEF SendKeys, Capture, WindowInfo, Kill, ListPanes, UpdateStatus, RemovePane,
         ReadOnlyDone, KillWindowDone
<1>6. ASSUME Audit \/ Answer \/ Cleanup \/ LeaveLoop PROVE NoStrayWindow'
  BY <1>6 DEF Audit, AfterAudit, Answer, Cleanup, LeaveLoop, KillSessionDone
<1>7. ASSUME ClientLeaves \/ Signal \/ SigKill PROVE NoStrayWindow'
  BY <1>7 DEF ClientLeaves, Signal, SigKill
<1>8. ASSUME SessionChanges PROVE NoStrayWindow'
  <2>1. ASSUME NEW w \in Windows, ProcessExits(w), SessionChanges PROVE NoStrayWindow'
    BY <2>1 DEF SessionChanges, ProcessExits
  <2>2. ASSUME NEW ws \in SUBSET Windows, SomebodyCloses(ws), SessionChanges PROVE NoStrayWindow'
    BY <2>2 DEF SessionChanges, SomebodyCloses
  <2> QED
    BY <1>8, <2>1, <2>2 DEF SessionChanges
<1>9. CASE UNCHANGED vars
  BY <1>9
<1> QED
  BY <1>1, <1>2, <1>3, <1>4, <1>5, <1>6, <1>7, <1>8, <1>9 DEF Next, Client, ServerStep

(* Only its own creation or somebody else leaves a pane without a window.  *)
LEMMA NoLostStep == McpInv /\ [Next]_vars => NoLostWindow'
<1> SUFFICES ASSUME McpInv, [Next]_vars PROVE NoLostWindow'
  OBVIOUS
<1> USE TmuxAssumption DEF NoLostWindow, Creating, Serving, IdsAreUsedOnce, ToolInHand,
            DeadPanesStay, McpInv, TypeOK, TmuxTypeOK, Open, Panes, Windows
<1>1. ASSUME NEW m \in Methods, ReadMethod(m) PROVE NoLostWindow'
  BY <1>1 DEF ReadMethod, NextLine, Answered
<1>2. ASSUME NEW c \in Calls, ReadRejectedCall(c) PROVE NoLostWindow'
  BY <1>2 DEF ReadRejectedCall, NextLine, Answered
<1>3. ASSUME NEW c \in Calls, ReadCall(c) PROVE NoLostWindow'
  BY <1>3 DEF ReadCall, NextLine, Start, Accepts, CreatePane
<1>4. ASSUME NewSession \/ SetHook \/ NewWindow \/ SetOption PROVE NoLostWindow'
  BY <1>4 DEF NewSession, SetHook, NewWindow, SetOption, CreateFails, RemovePane,
         NewSessionDone, SetHookDone, NewWindowDone, SetOptionDone
<1>5. ASSUME SendKeys \/ Capture \/ WindowInfo \/ Kill \/ ListPanes PROVE NoLostWindow'
  BY <1>5 DEF SendKeys, Capture, WindowInfo, Kill, ListPanes, UpdateStatus, RemovePane,
         ReadOnlyDone, KillWindowDone
<1>6. ASSUME Audit \/ Answer \/ Cleanup \/ LeaveLoop PROVE NoLostWindow'
  BY <1>6 DEF Audit, AfterAudit, Answer, Cleanup, LeaveLoop, KillSessionDone
<1>7. ASSUME ClientLeaves \/ Signal \/ SigKill PROVE NoLostWindow'
  BY <1>7 DEF ClientLeaves, Signal, SigKill
<1>8. ASSUME SessionChanges PROVE NoLostWindow'
  BY <1>8 DEF SessionChanges, ProcessExits, SomebodyCloses
<1>9. CASE UNCHANGED vars
  BY <1>9
<1> QED
  BY <1>1, <1>2, <1>3, <1>4, <1>5, <1>6, <1>7, <1>8, <1>9 DEF Next, Client, ServerStep

(* A call has done nothing before its command, and then what it asked.     *)
LEMMA CommandsStep == McpInv /\ [Next]_vars => CommandsSoFar'
<1> SUFFICES ASSUME McpInv, [Next]_vars PROVE CommandsSoFar'
  OBVIOUS
<1> USE TmuxAssumption DEF CommandsSoFar, Done, ToolInHand, McpInv, TypeOK, TmuxTypeOK,
            NoEffect, NoEntry, LostEntry
<1>1. ASSUME NEW m \in Methods, ReadMethod(m) PROVE CommandsSoFar'
  BY <1>1 DEF ReadMethod, NextLine, Answered
<1>2. ASSUME NEW c \in Calls, ReadRejectedCall(c) PROVE CommandsSoFar'
  BY <1>2 DEF ReadRejectedCall, NextLine, Answered
<1>3. ASSUME NEW c \in Calls, ReadCall(c) PROVE CommandsSoFar'
  BY <1>3 DEF ReadCall, NextLine, Start, Accepts, CreatePane
<1>4. ASSUME NewSession \/ SetHook \/ NewWindow \/ SetOption PROVE CommandsSoFar'
  BY <1>4 DEF NewSession, SetHook, NewWindow, SetOption, CreateFails, RemovePane,
         NewSessionDone, SetHookDone, NewWindowDone, SetOptionDone
<1>5. ASSUME SendKeys \/ Capture \/ WindowInfo \/ Kill \/ ListPanes PROVE CommandsSoFar'
  BY <1>5 DEF SendKeys, Capture, WindowInfo, Kill, ListPanes, UpdateStatus, RemovePane,
         ReadOnlyDone, KillWindowDone
<1>6. ASSUME Audit \/ Answer \/ Cleanup \/ LeaveLoop PROVE CommandsSoFar'
  <2>1. CASE Audit
    BY <2>1 DEF Audit, AfterAudit, AuditEntry
  <2>2. CASE Answer
    BY <2>2 DEF Answer
  <2>3. CASE Cleanup
    BY <2>3 DEF Cleanup, KillSessionDone
  <2>4. CASE LeaveLoop
    BY <2>4 DEF LeaveLoop
  <2> QED
    BY <1>6, <2>1, <2>2, <2>3, <2>4
<1>7. ASSUME ClientLeaves \/ Signal \/ SigKill PROVE CommandsSoFar'
  BY <1>7 DEF ClientLeaves, Signal, SigKill
<1>8. ASSUME SessionChanges PROVE CommandsSoFar'
  BY <1>8 DEF SessionChanges, ProcessExits, SomebodyCloses
<1>9. CASE UNCHANGED vars
  BY <1>9
<1> QED
  BY <1>1, <1>2, <1>3, <1>4, <1>5, <1>6, <1>7, <1>8, <1>9 DEF Next, Client, ServerStep

(* Between the listing and the answer nobody touches the manager.          *)
LEMMA ListingStep == McpInv /\ [Next]_vars => ListingStaysTrue'
<1> SUFFICES ASSUME McpInv, [Next]_vars PROVE ListingStaysTrue'
  OBVIOUS
<1> USE TmuxAssumption DEF ListingStaysTrue, CommandsSoFar, Done, ToolInHand, McpInv,
            TypeOK, TmuxTypeOK, NoEffect, WindowStatus, Listed
<1>1. ASSUME NEW m \in Methods, ReadMethod(m) PROVE ListingStaysTrue'
  BY <1>1 DEF ReadMethod, NextLine, Answered
<1>2. ASSUME NEW c \in Calls, ReadRejectedCall(c) PROVE ListingStaysTrue'
  BY <1>2 DEF ReadRejectedCall, NextLine, Answered
<1>3. ASSUME NEW c \in Calls, ReadCall(c) PROVE ListingStaysTrue'
  BY <1>3 DEF ReadCall, NextLine, Start, Accepts, CreatePane
<1>4. ASSUME NewSession \/ SetHook \/ NewWindow \/ SetOption PROVE ListingStaysTrue'
  BY <1>4 DEF NewSession, SetHook, NewWindow, SetOption, CreateFails, RemovePane,
         NewSessionDone, SetHookDone, NewWindowDone, SetOptionDone
<1>5. ASSUME SendKeys \/ Capture \/ WindowInfo \/ Kill \/ ListPanes PROVE ListingStaysTrue'
  BY <1>5 DEF SendKeys, Capture, WindowInfo, Kill, ListPanes, UpdateStatus, RemovePane,
         ReadOnlyDone, KillWindowDone
<1>6. ASSUME Audit \/ Answer \/ Cleanup \/ LeaveLoop PROVE ListingStaysTrue'
  BY <1>6 DEF Audit, AfterAudit, Answer, Cleanup, LeaveLoop, KillSessionDone
<1>7. ASSUME ClientLeaves \/ Signal \/ SigKill PROVE ListingStaysTrue'
  BY <1>7 DEF ClientLeaves, Signal, SigKill
<1>8. ASSUME SessionChanges PROVE ListingStaysTrue'
  BY <1>8 DEF SessionChanges, ProcessExits, SomebodyCloses
<1>9. CASE UNCHANGED vars
  BY <1>9
<1> QED
  BY <1>1, <1>2, <1>3, <1>4, <1>5, <1>6, <1>7, <1>8, <1>9 DEF Next, Client, ServerStep

(* The entry names the command that was carried out.                       *)
LEMMA AuditStep == McpInv /\ [Next]_vars => AuditIsTrue'
<1> SUFFICES ASSUME McpInv, [Next]_vars PROVE AuditIsTrue'
  OBVIOUS
<1> USE TmuxAssumption DEF AuditIsTrue, CommandsSoFar, Done, ToolInHand, McpInv,
            TypeOK, TmuxTypeOK, NoEffect, NoEntry, LostEntry, NoCall
<1>1. ASSUME NEW m \in Methods, ReadMethod(m) PROVE AuditIsTrue'
  BY <1>1 DEF ReadMethod, NextLine, Answered
<1>2. ASSUME NEW c \in Calls, ReadRejectedCall(c) PROVE AuditIsTrue'
  BY <1>2 DEF ReadRejectedCall, NextLine, Answered
<1>3. ASSUME NEW c \in Calls, ReadCall(c) PROVE AuditIsTrue'
  BY <1>3 DEF ReadCall, NextLine, Start, Accepts, CreatePane
<1>4. ASSUME NewSession \/ SetHook \/ NewWindow \/ SetOption PROVE AuditIsTrue'
  BY <1>4 DEF NewSession, SetHook, NewWindow, SetOption, CreateFails, RemovePane,
         NewSessionDone, SetHookDone, NewWindowDone, SetOptionDone
<1>5. ASSUME SendKeys \/ Capture \/ WindowInfo \/ Kill \/ ListPanes PROVE AuditIsTrue'
  <2>1. CASE SendKeys
    BY <2>1 DEF SendKeys, ReadOnlyDone
  <2>2. CASE Capture
    BY <2>2 DEF Capture, ReadOnlyDone
  <2>3. CASE WindowInfo
    BY <2>3 DEF WindowInfo, UpdateStatus
  <2>4. CASE Kill
    BY <2>4 DEF Kill, KillWindowDone, RemovePane
  <2>5. CASE ListPanes
    BY <2>5 DEF ListPanes, UpdateStatus, ReadOnlyDone
  <2> QED
    BY <1>5, <2>1, <2>2, <2>3, <2>4, <2>5
<1>6. ASSUME Audit \/ Answer \/ Cleanup \/ LeaveLoop PROVE AuditIsTrue'
  <2>1. CASE Audit
    <3>1. pc = "audit" /\ req.tool \in Tools /\ Done /\ entry = NoEntry
      BY <2>1 DEF Audit
    <3>2. effect' = effect /\ req' = req /\ auditOn' = auditOn
      BY <2>1 DEF Audit
    <3>3. auditOn => entry' = LostEntry \/ entry' = <<req.tool, req.pane>>
      BY <2>1 DEF Audit, AuditEntry
    <3>4. CASE req.tool = "list_panes"
      BY <3>1, <3>2, <3>3, <3>4
    <3>5. CASE req.tool # "list_panes"
      BY <3>1, <3>2, <3>3, <3>5 DEF Tools
    <3> QED
      BY <3>4, <3>5
  <2>2. CASE Answer
    BY <2>2 DEF Answer
  <2>3. CASE Cleanup
    BY <2>3 DEF Cleanup, KillSessionDone
  <2>4. CASE LeaveLoop
    BY <2>4 DEF LeaveLoop
  <2> QED
    BY <1>6, <2>1, <2>2, <2>3, <2>4
<1>7. ASSUME ClientLeaves \/ Signal \/ SigKill PROVE AuditIsTrue'
  BY <1>7 DEF ClientLeaves, Signal, SigKill
<1>8. ASSUME SessionChanges PROVE AuditIsTrue'
  BY <1>8 DEF SessionChanges, ProcessExits, SomebodyCloses
<1>9. CASE UNCHANGED vars
  BY <1>9
<1> QED
  BY <1>1, <1>2, <1>3, <1>4, <1>5, <1>6, <1>7, <1>8, <1>9 DEF Next, Client, ServerStep

-------------------------------------------------------------------------------
(* The type invariant in parts.                                            *)
WindowTypes ==
  /\ win \in [Windows -> {"absent", "running", "dead"}]
  /\ remain \subseteq Windows /\ meddled \subseteq Windows
EffectType == effect \in {"none", "new", "send", "capture", "kill", "list"} \X Windows
FaultsType == faults \in 0 .. MaxFaults
FlagTypes == {hooked, initialized, sessionCreated, auditOn, terminated} \subseteq BOOLEAN
PlaceTypes ==
  /\ pc \in {"reading", "new-session", "set-hook", "new-window", "set-option",
             "send-keys", "capture-pane", "window-info", "kill-window",
             "list-windows", "audit", "answer", "cleanup", "stopped", "killed"}
  /\ stdin \in {"open", "closed"}
CallType == req \in [tool : Tools \cup {"none"}, pane : Windows]
ReplyType == reply \in Replies \cup {"none"}
PaneTypes ==
  /\ DOMAIN tracked \subseteq Panes /\ \A p \in DOMAIN tracked : tracked[p] \in Statuses
  /\ nextId \in 1 .. MaxPanes + 1
ListedType == DOMAIN listed \subseteq Windows
EntryType == entry \in (Tools \X Windows) \cup {NoEntry, LostEntry}

(* The windows keep their type.                                            *)
LEMMA WindowTypesStep == McpInv /\ [Next]_vars => WindowTypes'
<1> SUFFICES ASSUME McpInv, [Next]_vars PROVE WindowTypes'
  OBVIOUS
<1> USE TmuxAssumption DEF McpInv, TypeOK, TmuxTypeOK, WindowTypes, ToolInHand, Panes,
            Windows
<1>1. ASSUME NEW m \in Methods, ReadMethod(m) PROVE WindowTypes'
  BY <1>1 DEF ReadMethod, NextLine, Answered
<1>2. ASSUME NEW c \in Calls, ReadRejectedCall(c) PROVE WindowTypes'
  BY <1>2 DEF ReadRejectedCall, NextLine, Answered
<1>3. ASSUME NEW c \in Calls, ReadCall(c) PROVE WindowTypes'
  BY <1>3 DEF ReadCall, NextLine, Start, Accepts, CreatePane
<1>4. ASSUME NewSession \/ SetHook \/ NewWindow \/ SetOption PROVE WindowTypes'
  BY <1>4 DEF NewSession, SetHook, NewWindow, SetOption, CreateFails, RemovePane,
         NewSessionDone, SetHookDone, NewWindowDone, SetOptionDone
<1>5. ASSUME SendKeys \/ Capture \/ WindowInfo \/ Kill \/ ListPanes PROVE WindowTypes'
  BY <1>5 DEF SendKeys, Capture, WindowInfo, Kill, ListPanes, UpdateStatus, RemovePane,
         ReadOnlyDone, KillWindowDone
<1>6. ASSUME Audit \/ Answer \/ Cleanup \/ LeaveLoop PROVE WindowTypes'
  BY <1>6 DEF Audit, AfterAudit, Answer, Cleanup, LeaveLoop, KillSessionDone
<1>7. ASSUME ClientLeaves \/ Signal \/ SigKill PROVE WindowTypes'
  BY <1>7 DEF ClientLeaves, Signal, SigKill
<1>8. ASSUME SessionChanges PROVE WindowTypes'
  BY <1>8 DEF SessionChanges, ProcessExits, SomebodyCloses
<1>9. CASE UNCHANGED vars
  BY <1>9
<1> QED
  BY <1>1, <1>2, <1>3, <1>4, <1>5, <1>6, <1>7, <1>8, <1>9 DEF Next, Client, ServerStep

(* So does the last command, whose window is the one in hand.              *)
LEMMA EffectTypeStep == McpInv /\ [Next]_vars => EffectType'
<1> SUFFICES ASSUME McpInv, [Next]_vars PROVE EffectType'
  OBVIOUS
<1> USE TmuxAssumption DEF McpInv, TypeOK, TmuxTypeOK, EffectType, NoEffect,
            ToolInHand, Panes, Windows
<1>1. ASSUME NEW m \in Methods, ReadMethod(m) PROVE EffectType'
  BY <1>1 DEF ReadMethod, NextLine, Answered
<1>2. ASSUME NEW c \in Calls, ReadRejectedCall(c) PROVE EffectType'
  BY <1>2 DEF ReadRejectedCall, NextLine, Answered
<1>3. ASSUME NEW c \in Calls, ReadCall(c) PROVE EffectType'
  BY <1>3 DEF ReadCall, NextLine, Start, Accepts, CreatePane
<1>4. ASSUME NewSession \/ SetHook \/ NewWindow \/ SetOption PROVE EffectType'
  BY <1>4 DEF NewSession, SetHook, NewWindow, SetOption, CreateFails, RemovePane,
         NewSessionDone, SetHookDone, NewWindowDone, SetOptionDone
<1>5. ASSUME SendKeys \/ Capture \/ WindowInfo \/ Kill \/ ListPanes PROVE EffectType'
  BY <1>5 DEF SendKeys, Capture, WindowInfo, Kill, ListPanes, UpdateStatus, RemovePane,
         ReadOnlyDone, KillWindowDone
<1>6. ASSUME Audit \/ Answer \/ Cleanup \/ LeaveLoop PROVE EffectType'
  BY <1>6 DEF Audit, AfterAudit, Answer, Cleanup, LeaveLoop, KillSessionDone
<1>7. ASSUME ClientLeaves \/ Signal \/ SigKill PROVE EffectType'
  BY <1>7 DEF ClientLeaves, Signal, SigKill
<1>8. ASSUME SessionChanges PROVE EffectType'
  BY <1>8 DEF SessionChanges, ProcessExits, SomebodyCloses
<1>9. CASE UNCHANGED vars
  BY <1>9
<1> QED
  BY <1>1, <1>2, <1>3, <1>4, <1>5, <1>6, <1>7, <1>8, <1>9 DEF Next, Client, ServerStep

(* So do the failures.                                                     *)
LEMMA FaultsTypeStep == McpInv /\ [Next]_vars => FaultsType'
<1> SUFFICES ASSUME McpInv, [Next]_vars PROVE FaultsType'
  OBVIOUS
<1> USE TmuxAssumption DEF McpInv, TypeOK, TmuxTypeOK, FaultsType
<1>1. ASSUME NEW m \in Methods, ReadMethod(m) PROVE FaultsType'
  BY <1>1 DEF ReadMethod, NextLine, Answered
<1>2. ASSUME NEW c \in Calls, ReadRejectedCall(c) PROVE FaultsType'
  BY <1>2 DEF ReadRejectedCall, NextLine, Answered
<1>3. ASSUME NEW c \in Calls, ReadCall(c) PROVE FaultsType'
  BY <1>3 DEF ReadCall, NextLine, Start, Accepts, CreatePane
<1>4. ASSUME NewSession \/ SetHook \/ NewWindow \/ SetOption PROVE FaultsType'
  BY <1>4 DEF NewSession, SetHook, NewWindow, SetOption, CreateFails, RemovePane,
         NewSessionDone, SetHookDone, NewWindowDone, SetOptionDone
<1>5. ASSUME SendKeys \/ Capture \/ WindowInfo \/ Kill \/ ListPanes PROVE FaultsType'
  BY <1>5 DEF SendKeys, Capture, WindowInfo, Kill, ListPanes, UpdateStatus, RemovePane,
         ReadOnlyDone, KillWindowDone
<1>6. ASSUME Audit \/ Answer \/ Cleanup \/ LeaveLoop PROVE FaultsType'
  BY <1>6 DEF Audit, AfterAudit, Answer, Cleanup, LeaveLoop, KillSessionDone
<1>7. ASSUME ClientLeaves \/ Signal \/ SigKill PROVE FaultsType'
  BY <1>7 DEF ClientLeaves, Signal, SigKill
<1>8. ASSUME SessionChanges PROVE FaultsType'
  BY <1>8 DEF SessionChanges, ProcessExits, SomebodyCloses
<1>9. CASE UNCHANGED vars
  BY <1>9
<1> QED
  BY <1>1, <1>2, <1>3, <1>4, <1>5, <1>6, <1>7, <1>8, <1>9 DEF Next, Client, ServerStep

(* So do the flags.                                                        *)
LEMMA FlagTypesStep == McpInv /\ [Next]_vars => FlagTypes'
<1> SUFFICES ASSUME McpInv, [Next]_vars PROVE FlagTypes'
  OBVIOUS
<1> USE TmuxAssumption DEF McpInv, TypeOK, TmuxTypeOK, FlagTypes
<1>1. ASSUME NEW m \in Methods, ReadMethod(m) PROVE FlagTypes'
  BY <1>1 DEF ReadMethod, NextLine, Answered
<1>2. ASSUME NEW c \in Calls, ReadRejectedCall(c) PROVE FlagTypes'
  BY <1>2 DEF ReadRejectedCall, NextLine, Answered
<1>3. ASSUME NEW c \in Calls, ReadCall(c) PROVE FlagTypes'
  BY <1>3 DEF ReadCall, NextLine, Start, Accepts, CreatePane
<1>4. ASSUME NewSession \/ SetHook \/ NewWindow \/ SetOption PROVE FlagTypes'
  BY <1>4 DEF NewSession, SetHook, NewWindow, SetOption, CreateFails, RemovePane,
         NewSessionDone, SetHookDone, NewWindowDone, SetOptionDone
<1>5. ASSUME SendKeys \/ Capture \/ WindowInfo \/ Kill \/ ListPanes PROVE FlagTypes'
  BY <1>5 DEF SendKeys, Capture, WindowInfo, Kill, ListPanes, UpdateStatus, RemovePane,
         ReadOnlyDone, KillWindowDone
<1>6. ASSUME Audit \/ Answer \/ Cleanup \/ LeaveLoop PROVE FlagTypes'
  BY <1>6 DEF Audit, AfterAudit, Answer, Cleanup, LeaveLoop, KillSessionDone
<1>7. ASSUME ClientLeaves \/ Signal \/ SigKill PROVE FlagTypes'
  BY <1>7 DEF ClientLeaves, Signal, SigKill
<1>8. ASSUME SessionChanges PROVE FlagTypes'
  BY <1>8 DEF SessionChanges, ProcessExits, SomebodyCloses
<1>9. CASE UNCHANGED vars
  BY <1>9
<1> QED
  BY <1>1, <1>2, <1>3, <1>4, <1>5, <1>6, <1>7, <1>8, <1>9 DEF Next, Client, ServerStep

(* So do the place and the pipes.                                          *)
LEMMA PlaceTypesStep == McpInv /\ [Next]_vars => PlaceTypes'
<1> SUFFICES ASSUME McpInv, [Next]_vars PROVE PlaceTypes'
  OBVIOUS
<1> USE TmuxAssumption DEF McpInv, TypeOK, TmuxTypeOK, PlaceTypes
<1>1. ASSUME NEW m \in Methods, ReadMethod(m) PROVE PlaceTypes'
  BY <1>1 DEF ReadMethod, NextLine, Answered
<1>2. ASSUME NEW c \in Calls, ReadRejectedCall(c) PROVE PlaceTypes'
  BY <1>2 DEF ReadRejectedCall, NextLine, Answered
<1>3. ASSUME NEW c \in Calls, ReadCall(c) PROVE PlaceTypes'
  BY <1>3 DEF ReadCall, NextLine, Start, Accepts, CreatePane
<1>4. ASSUME NewSession \/ SetHook \/ NewWindow \/ SetOption PROVE PlaceTypes'
  BY <1>4 DEF NewSession, SetHook, NewWindow, SetOption, CreateFails, RemovePane,
         NewSessionDone, SetHookDone, NewWindowDone, SetOptionDone
<1>5. ASSUME SendKeys \/ Capture \/ WindowInfo \/ Kill \/ ListPanes PROVE PlaceTypes'
  BY <1>5 DEF SendKeys, Capture, WindowInfo, Kill, ListPanes, UpdateStatus, RemovePane,
         ReadOnlyDone, KillWindowDone
<1>6. ASSUME Audit \/ Answer \/ Cleanup \/ LeaveLoop PROVE PlaceTypes'
  BY <1>6 DEF Audit, AfterAudit, Answer, Cleanup, LeaveLoop, KillSessionDone
<1>7. ASSUME ClientLeaves \/ Signal \/ SigKill PROVE PlaceTypes'
  BY <1>7 DEF ClientLeaves, Signal, SigKill
<1>8. ASSUME SessionChanges PROVE PlaceTypes'
  BY <1>8 DEF SessionChanges, ProcessExits, SomebodyCloses
<1>9. CASE UNCHANGED vars
  BY <1>9
<1> QED
  BY <1>1, <1>2, <1>3, <1>4, <1>5, <1>6, <1>7, <1>8, <1>9 DEF Next, Client, ServerStep

(* So does the call.                                                       *)
LEMMA CallTypeStep == McpInv /\ [Next]_vars => CallType'
<1> SUFFICES ASSUME McpInv, [Next]_vars PROVE CallType'
  OBVIOUS
<1> USE TmuxAssumption DEF McpInv, TypeOK, TmuxTypeOK, CallType, NoCall, Calls,
            Windows, Panes
<1>1. ASSUME NEW m \in Methods, ReadMethod(m) PROVE CallType'
  BY <1>1 DEF ReadMethod, NextLine, Answered
<1>2. ASSUME NEW c \in Calls, ReadRejectedCall(c) PROVE CallType'
  BY <1>2 DEF ReadRejectedCall, NextLine, Answered
<1>3. ASSUME NEW c \in Calls, ReadCall(c) PROVE CallType'
  BY <1>3 DEF ReadCall, NextLine, Start, Accepts, CreatePane
<1>4. ASSUME NewSession \/ SetHook \/ NewWindow \/ SetOption PROVE CallType'
  BY <1>4 DEF NewSession, SetHook, NewWindow, SetOption, CreateFails, RemovePane,
         NewSessionDone, SetHookDone, NewWindowDone, SetOptionDone
<1>5. ASSUME SendKeys \/ Capture \/ WindowInfo \/ Kill \/ ListPanes PROVE CallType'
  BY <1>5 DEF SendKeys, Capture, WindowInfo, Kill, ListPanes, UpdateStatus, RemovePane,
         ReadOnlyDone, KillWindowDone
<1>6. ASSUME Audit \/ Answer \/ Cleanup \/ LeaveLoop PROVE CallType'
  BY <1>6 DEF Audit, AfterAudit, Answer, Cleanup, LeaveLoop, KillSessionDone
<1>7. ASSUME ClientLeaves \/ Signal \/ SigKill PROVE CallType'
  BY <1>7 DEF ClientLeaves, Signal, SigKill
<1>8. ASSUME SessionChanges PROVE CallType'
  BY <1>8 DEF SessionChanges, ProcessExits, SomebodyCloses
<1>9. CASE UNCHANGED vars
  BY <1>9
<1> QED
  BY <1>1, <1>2, <1>3, <1>4, <1>5, <1>6, <1>7, <1>8, <1>9 DEF Next, Client, ServerStep

(* So does the reply.                                                      *)
LEMMA ReplyTypeStep == McpInv /\ [Next]_vars => ReplyType'
<1> SUFFICES ASSUME McpInv, [Next]_vars PROVE ReplyType'
  OBVIOUS
<1> USE TmuxAssumption DEF McpInv, TypeOK, TmuxTypeOK, ReplyType, Replies
<1>1. ASSUME NEW m \in Methods, ReadMethod(m) PROVE ReplyType'
  BY <1>1 DEF ReadMethod, NextLine, Answered
<1>2. ASSUME NEW c \in Calls, ReadRejectedCall(c) PROVE ReplyType'
  BY <1>2 DEF ReadRejectedCall, NextLine, Answered
<1>3. ASSUME NEW c \in Calls, ReadCall(c) PROVE ReplyType'
  BY <1>3 DEF ReadCall, NextLine, Start, Accepts, CreatePane
<1>4. ASSUME NewSession \/ SetHook \/ NewWindow \/ SetOption PROVE ReplyType'
  BY <1>4 DEF NewSession, SetHook, NewWindow, SetOption, CreateFails, RemovePane,
         NewSessionDone, SetHookDone, NewWindowDone, SetOptionDone
<1>5. ASSUME SendKeys \/ Capture \/ WindowInfo \/ Kill \/ ListPanes PROVE ReplyType'
  BY <1>5 DEF SendKeys, Capture, WindowInfo, Kill, ListPanes, UpdateStatus, RemovePane,
         ReadOnlyDone, KillWindowDone
<1>6. ASSUME Audit \/ Answer \/ Cleanup \/ LeaveLoop PROVE ReplyType'
  BY <1>6 DEF Audit, AfterAudit, Answer, Cleanup, LeaveLoop, KillSessionDone
<1>7. ASSUME ClientLeaves \/ Signal \/ SigKill PROVE ReplyType'
  BY <1>7 DEF ClientLeaves, Signal, SigKill
<1>8. ASSUME SessionChanges PROVE ReplyType'
  BY <1>8 DEF SessionChanges, ProcessExits, SomebodyCloses
<1>9. CASE UNCHANGED vars
  BY <1>9
<1> QED
  BY <1>1, <1>2, <1>3, <1>4, <1>5, <1>6, <1>7, <1>8, <1>9 DEF Next, Client, ServerStep

(* So do the manager's panes and its counter.                              *)
LEMMA PaneTypesStep == McpInv /\ [Next]_vars => PaneTypes'
<1> SUFFICES ASSUME McpInv, [Next]_vars PROVE PaneTypes'
  OBVIOUS
<1> USE TmuxAssumption DEF McpInv, TypeOK, TmuxTypeOK, PaneTypes, Statuses,
            WindowStatus, Panes
<1>1. ASSUME NEW m \in Methods, ReadMethod(m) PROVE PaneTypes'
  BY <1>1 DEF ReadMethod, NextLine, Answered
<1>2. ASSUME NEW c \in Calls, ReadRejectedCall(c) PROVE PaneTypes'
  BY <1>2 DEF ReadRejectedCall, NextLine, Answered
<1>3. ASSUME NEW c \in Calls, ReadCall(c) PROVE PaneTypes'
  BY <1>3 DEF ReadCall, NextLine, Start, Accepts, CreatePane
<1>4. ASSUME NewSession \/ SetHook \/ NewWindow \/ SetOption PROVE PaneTypes'
  BY <1>4 DEF NewSession, SetHook, NewWindow, SetOption, CreateFails, RemovePane,
         NewSessionDone, SetHookDone, NewWindowDone, SetOptionDone
<1>5. ASSUME SendKeys \/ Capture \/ WindowInfo \/ Kill \/ ListPanes PROVE PaneTypes'
  BY <1>5 DEF SendKeys, Capture, WindowInfo, Kill, ListPanes, UpdateStatus, RemovePane,
         ReadOnlyDone, KillWindowDone
<1>6. ASSUME Audit \/ Answer \/ Cleanup \/ LeaveLoop PROVE PaneTypes'
  BY <1>6 DEF Audit, AfterAudit, Answer, Cleanup, LeaveLoop, KillSessionDone
<1>7. ASSUME ClientLeaves \/ Signal \/ SigKill PROVE PaneTypes'
  BY <1>7 DEF ClientLeaves, Signal, SigKill
<1>8. ASSUME SessionChanges PROVE PaneTypes'
  BY <1>8 DEF SessionChanges, ProcessExits, SomebodyCloses
<1>9. CASE UNCHANGED vars
  BY <1>9
<1> QED
  BY <1>1, <1>2, <1>3, <1>4, <1>5, <1>6, <1>7, <1>8, <1>9 DEF Next, Client, ServerStep

(* So does the listing.                                                    *)
LEMMA ListedTypeStep == McpInv /\ [Next]_vars => ListedType'
<1> SUFFICES ASSUME McpInv, [Next]_vars PROVE ListedType'
  OBVIOUS
<1> USE TmuxAssumption DEF McpInv, TypeOK, TmuxTypeOK, ListedType, Listed, NoPanes
<1>1. ASSUME NEW m \in Methods, ReadMethod(m) PROVE ListedType'
  BY <1>1 DEF ReadMethod, NextLine, Answered
<1>2. ASSUME NEW c \in Calls, ReadRejectedCall(c) PROVE ListedType'
  BY <1>2 DEF ReadRejectedCall, NextLine, Answered
<1>3. ASSUME NEW c \in Calls, ReadCall(c) PROVE ListedType'
  BY <1>3 DEF ReadCall, NextLine, Start, Accepts, CreatePane
<1>4. ASSUME NewSession \/ SetHook \/ NewWindow \/ SetOption PROVE ListedType'
  BY <1>4 DEF NewSession, SetHook, NewWindow, SetOption, CreateFails, RemovePane,
         NewSessionDone, SetHookDone, NewWindowDone, SetOptionDone
<1>5. ASSUME SendKeys \/ Capture \/ WindowInfo \/ Kill \/ ListPanes PROVE ListedType'
  BY <1>5 DEF SendKeys, Capture, WindowInfo, Kill, ListPanes, UpdateStatus, RemovePane,
         ReadOnlyDone, KillWindowDone
<1>6. ASSUME Audit \/ Answer \/ Cleanup \/ LeaveLoop PROVE ListedType'
  BY <1>6 DEF Audit, AfterAudit, Answer, Cleanup, LeaveLoop, KillSessionDone
<1>7. ASSUME ClientLeaves \/ Signal \/ SigKill PROVE ListedType'
  BY <1>7 DEF ClientLeaves, Signal, SigKill
<1>8. ASSUME SessionChanges PROVE ListedType'
  BY <1>8 DEF SessionChanges, ProcessExits, SomebodyCloses
<1>9. CASE UNCHANGED vars
  BY <1>9
<1> QED
  BY <1>1, <1>2, <1>3, <1>4, <1>5, <1>6, <1>7, <1>8, <1>9 DEF Next, Client, ServerStep

(* So does the entry, whose tool is the one in hand.                       *)
LEMMA EntryTypeStep == McpInv /\ [Next]_vars => EntryType'
<1> SUFFICES ASSUME McpInv, [Next]_vars PROVE EntryType'
  OBVIOUS
<1> USE TmuxAssumption DEF McpInv, TypeOK, TmuxTypeOK, EntryType, NoEntry, LostEntry,
            ToolInHand
<1>1. ASSUME NEW m \in Methods, ReadMethod(m) PROVE EntryType'
  BY <1>1 DEF ReadMethod, NextLine, Answered
<1>2. ASSUME NEW c \in Calls, ReadRejectedCall(c) PROVE EntryType'
  BY <1>2 DEF ReadRejectedCall, NextLine, Answered
<1>3. ASSUME NEW c \in Calls, ReadCall(c) PROVE EntryType'
  BY <1>3 DEF ReadCall, NextLine, Start, Accepts, CreatePane
<1>4. ASSUME NewSession \/ SetHook \/ NewWindow \/ SetOption PROVE EntryType'
  BY <1>4 DEF NewSession, SetHook, NewWindow, SetOption, CreateFails, RemovePane,
         NewSessionDone, SetHookDone, NewWindowDone, SetOptionDone
<1>5. ASSUME SendKeys \/ Capture \/ WindowInfo \/ Kill \/ ListPanes PROVE EntryType'
  BY <1>5 DEF SendKeys, Capture, WindowInfo, Kill, ListPanes, UpdateStatus, RemovePane,
         ReadOnlyDone, KillWindowDone
<1>6. ASSUME Audit \/ Answer \/ Cleanup \/ LeaveLoop PROVE EntryType'
  <2>1. CASE Audit
    BY <2>1 DEF Audit, AfterAudit, AuditEntry
  <2>2. CASE Answer
    BY <2>2 DEF Answer
  <2>3. CASE Cleanup
    BY <2>3 DEF Cleanup, KillSessionDone
  <2>4. CASE LeaveLoop
    BY <2>4 DEF LeaveLoop
  <2> QED
    BY <1>6, <2>1, <2>2, <2>3, <2>4
<1>7. ASSUME ClientLeaves \/ Signal \/ SigKill PROVE EntryType'
  BY <1>7 DEF ClientLeaves, Signal, SigKill
<1>8. ASSUME SessionChanges PROVE EntryType'
  BY <1>8 DEF SessionChanges, ProcessExits, SomebodyCloses
<1>9. CASE UNCHANGED vars
  BY <1>9
<1> QED
  BY <1>1, <1>2, <1>3, <1>4, <1>5, <1>6, <1>7, <1>8, <1>9 DEF Next, Client, ServerStep

(* A step keeps every part of the type invariant.                          *)
LEMMA TypeStep == McpInv /\ [Next]_vars => TypeOK'
  BY WindowTypesStep, EffectTypeStep, FaultsTypeStep, FlagTypesStep, PlaceTypesStep,
     CallTypeStep, ReplyTypeStep, PaneTypesStep, ListedTypeStep, EntryTypeStep
  DEF TypeOK, TmuxTypeOK, WindowTypes, EffectType, FaultsType, FlagTypes, PlaceTypes,
      CallType, ReplyType, PaneTypes, ListedType, EntryType

-------------------------------------------------------------------------------
(* The inductive invariant holds: at every command of every request, place, *)
(* call, windows, panes and what was done so far go together.               *)
THEOREM McpInvariance == Spec => []McpInv
<1>1. Init => McpInv
  <2> SUFFICES ASSUME Init PROVE McpInv
    OBVIOUS
  <2> USE TmuxAssumption DEF Init, TmuxInit, NewManager, NewTmuxSession, NoPanes,
              NoCall, NoEffect, NoEntry, Open
  <2>1. TypeOK
    <3>1. WindowTypes /\ EffectType /\ FaultsType
      BY DEF WindowTypes, EffectType, FaultsType, Windows
    <3>2. FlagTypes /\ PlaceTypes /\ ReplyType
      BY DEF FlagTypes, PlaceTypes, ReplyType
    <3>4. CallType
      BY DEF CallType, Windows
    <3>3. PaneTypes /\ ListedType /\ EntryType
      BY DEF PaneTypes, ListedType, EntryType
    <3> QED
      BY <3>1, <3>2, <3>3, <3>4 DEF TypeOK, TmuxTypeOK, WindowTypes, EffectType, FaultsType,
             FlagTypes, PlaceTypes, CallType, ReplyType, PaneTypes, ListedType,
             EntryType
  <2>2. ToolInHand /\ IdsAreUsedOnce /\ HookInPlace /\ DeadPanesStay /\ NoStrayWindow /\ NoLostWindow
    BY DEF ToolInHand, IdsAreUsedOnce, HookInPlace, DeadPanesStay, NoStrayWindow,
           NoLostWindow, Creating, Panes, Windows
  <2>3. CommandsSoFar /\ ListingStaysTrue /\ AuditIsTrue
    BY DEF CommandsSoFar, ListingStaysTrue, AuditIsTrue
  <2> QED
    BY <2>1, <2>2, <2>3 DEF McpInv
<1>2. McpInv /\ [Next]_vars => McpInv'
  BY TypeStep, ToolInHandStep, IdsStep, HookStep, DeadPanesStep, NoStrayStep,
     NoLostStep, CommandsStep, ListingStep, AuditStep
  DEF McpInv
<1> QED
  BY <1>1, <1>2, PTL DEF Spec

(* The server's state, and tmux's, keep their types.                        *)
THEOREM McpTypeCorrect == Spec => []TypeOK
  BY McpInvariance, PTL DEF McpInv

(* handle_create_pane and handle_kill_pane: whenever a request is over, the *)
(* panes the server tracks are the session's windows, but for those that    *)
(* somebody else closed; panes whose process ended are still there.         *)
THEOREM PanesStayWindows == Spec => []PanesAreWindows
<1>1. McpInv => PanesAreWindows
  BY DEF McpInv, PanesAreWindows, NoStrayWindow, NoLostWindow, Creating, Serving
<1> QED
  BY <1>1, McpInvariance, PTL
(* handle_list_panes: the listing that is answered shows each pane as tmux  *)
(* listed it for this request.                                              *)
THEOREM ListingsAreTrue == Spec => []ListingIsTrue
<1>1. McpInv => ListingIsTrue
  BY DEF McpInv, ListingIsTrue, ListingStaysTrue
<1> QED
  BY <1>1, McpInvariance, PTL
(* MaybeAuditLogger: an entry names the command that tmux carried out, and  *)
(* a call that did nothing has none.                                        *)
THEOREM AuditNeverLies == Spec => []AuditIsTrue
  BY McpInvariance, PTL DEF McpInv
=============================================================================
