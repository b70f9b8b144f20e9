----------------------------- MODULE TmuxServer -----------------------------
(***************************************************************************)
(* The tmux server as tmux-mcp uses it: one session (the name carries the  *)
(* pid of the MCP server, so no other server shares it), its windows, and  *)
(* the commands the code runs through CommandExecutor.  tmux itself is not *)
(* part of the repository; what is written here is what the comments and   *)
(* the calls of tmux.rs rely on.                                           *)
(*                                                                         *)
(* Window 0 is the one `new-session` opens with the user's shell; window p *)
(* is the one `new-window -n debug-p` opens.  A session without windows is *)
(* gone.  A window whose process ends closes, unless remain-on-exit was    *)
(* set on it: then it stays as a dead pane.                                *)
(***************************************************************************)
EXTENDS Integers, FiniteSets

CONSTANTS
    MaxPanes,   \* how many panes the server may create
    MaxFaults   \* how many commands or file writes may fail for outer reasons

ASSUME TmuxAssumption == MaxPanes \in Nat \ {0} /\ MaxFaults \in Nat

VARIABLES
    win,        \* state of each window
    remain,     \* windows with remain-on-exit
    hooked,     \* the session has the after-new-window hook
    effect,     \* the last command that tmux carried out, and its window
    meddled,    \* windows closed by somebody other than the MCP server
    faults      \* failures so far

tmuxVars == <<win, remain, hooked, effect, meddled, faults>>

Panes == 1 .. MaxPanes
Windows == 0 .. MaxPanes

NoEffect == <<"none", 0>>

TmuxTypeOK ==
    /\ win \in [Windows -> {"absent", "running", "dead"}]
    /\ remain \subseteq Windows
    /\ hooked \in BOOLEAN
    /\ effect \in {"none", "new", "send", "capture", "kill", "list"} \X Windows
    /\ meddled \subseteq Windows
    /\ faults \in 0 .. MaxFaults

TmuxInit ==
    /\ win = [w \in Windows |-> "absent"]
    /\ remain = {}
    /\ hooked = FALSE
    /\ effect = NoEffect
    /\ meddled = {}
    /\ faults = 0

Open(w) == win[w] # "absent"
SessionExists == \E w \in Windows : Open(w)

(* list-windows prints the windows by index; window 0 comes first.         *)
FirstWindow == CHOOSE w \in Windows :
                   Open(w) /\ \A v \in Windows : Open(v) => w <= v

(***************************************************************************)
(* Commands.  XDone is the effect of a command tmux accepts; a command     *)
(* tmux refuses, or that could not be run at all, changes nothing.         *)
(***************************************************************************)
(* The command fails for a reason that is not in the model.                *)
Fault ==
    /\ faults < MaxFaults
    /\ faults' = faults + 1
    /\ UNCHANGED <<win, remain, hooked, effect, meddled>>

Refused == UNCHANGED tmuxVars

NewSessionDone ==
    /\ ~SessionExists               \* otherwise "duplicate session"
    /\ win' = [win EXCEPT ![0] = "running"]
    /\ hooked' = FALSE
    /\ UNCHANGED <<remain, effect, meddled, faults>>

SetHookDone ==
    /\ SessionExists
    /\ hooked' = TRUE
    /\ UNCHANGED <<win, remain, effect, meddled, faults>>

(* The hook runs before tmux looks at any process again.                   *)
NewWindowDone(p) ==
    /\ SessionExists
    /\ win' = [win EXCEPT ![p] = "running"]
    /\ remain' = IF hooked THEN remain \cup {p} ELSE remain
    /\ effect' = <<"new", p>>
    /\ UNCHANGED <<hooked, meddled, faults>>

SetOptionDone(p) ==
    /\ Open(p)
    /\ remain' = remain \cup {p}
    /\ UNCHANGED <<win, hooked, effect, meddled, faults>>

(* send-keys, capture-pane and list-windows change no window.              *)
ReadOnlyDone(what, w) ==
    /\ IF w = 0 THEN SessionExists ELSE Open(w)
    /\ effect' = <<what, w>>
    /\ UNCHANGED <<win, remain, hooked, meddled, faults>>

KillWindowDone(p) ==
    /\ Open(p)
    /\ win' = [win EXCEPT ![p] = "absent"]
    /\ remain' = remain \ {p}
    /\ effect' = <<"kill", p>>
    /\ UNCHANGED <<hooked, meddled, faults>>

KillSessionDone ==
    /\ win' = [w \in Windows |-> "absent"]
    /\ remain' = {}
    /\ hooked' = FALSE
    /\ UNCHANGED <<effect, meddled, faults>>

(***************************************************************************)
(* What happens in the session on its own.                                 *)
(***************************************************************************)
ProcessExits(w) ==
    /\ win[w] = "running"
    /\ win' = [win EXCEPT ![w] = IF w \in remain THEN "dead" ELSE "absent"]
    /\ UNCHANGED <<remain, hooked, effect, meddled, faults>>

(* Somebody attached to the session closes a window, or the tmux server is *)
(* gone with all of them.                                                  *)
SomebodyCloses(ws) ==
    /\ \A w \in ws : Open(w)
    /\ win' = [w \in Windows |-> IF w \in ws THEN "absent" ELSE win[w]]
    /\ remain' = remain \ ws
    /\ meddled' = meddled \cup ws
    /\ UNCHANGED <<hooked, effect, faults>>
=============================================================================
