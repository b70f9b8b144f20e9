-------------------------------- MODULE LoomMsg -------------------------------
(***************************************************************************)
(* `loom msg`: a human lists the beads that wait for a clarification and   *)
(* answers or dismisses one, by its row (-n) or its id (-i).  Each         *)
(* invocation lists the beads again, resolves its target in that list and  *)
(* removes the label loom:clarify through the bd command line.             *)
(*                                                                         *)
(* Meanwhile `loom run` sessions raise questions, several msg commands may *)
(* be at work, and bd may fail or take longer than the client waits.  Only *)
(* msg -s takes the lock of its spec, the lock a run of that spec holds.   *)
(* A bd call goes on when its caller gives it up or dies, and so does an   *)
(* agent whose run dies: a run's question may come when the lock is free.  *)
(*                                                                         *)
(* The answer itself goes nowhere: run_msg_inner composes the note, prints *)
(* it and writes only the label.                                           *)
(***************************************************************************)
EXTENDS Naturals, FiniteSets

CONSTANTS
    Beads,         \* numbers, in the order bd lists the beads
    Specs,
    SpecOf,        \* the spec label of a bead, or None
    Msgs,          \* processes running loom msg
    None,
    MaxQuestions,  \* bound on the questions raised about one bead
    MaxMsgs        \* bound on the invocations of loom msg

ASSUME MsgAssumption ==
    /\ Beads \subseteq Nat /\ IsFiniteSet(Beads)
    /\ None \notin Specs /\ SpecOf \in [Beads -> Specs \cup {None}]
    /\ MaxQuestions \in Nat /\ MaxMsgs \in Nat

Run == "run"
Free == "free"

(* A process is none of the other holders of a lock, and not nobody.       *)
ASSUME HolderAssumption == Msgs \cap {Run, Free, None} = {}

VARIABLES
    labelled,  \* beads that carry loom:clarify
    question,  \* the question a bead's description asks; 0 before the first
    lock,      \* who holds <label>.lock
    left,      \* specs with an agent or a bd call that outlived its run
    msg,       \* the msg processes
    calls,     \* bd updates under way
    used,      \* invocations so far
    asked,     \* history: the last question raised under the spec's lock
    cleared    \* history: what the last update that went through was about

vars == <<labelled, question, lock, left, msg, calls, used, asked, cleared>>

Idle == [pc |-> "idle", filter |-> None, kept |-> {}, read |-> [b \in Beads |-> 0],
         bead |-> None]
Over(p) == [Idle EXCEPT !.pc = "over", !.filter = msg[p].filter]

(* -n and -i as typed; 0 is an id that no bead has.                        *)
Nums == 0 .. Cardinality(Beads) + 1 \cup {None}
Ids == Beads \cup {0, None}

Init ==
    /\ labelled = {} /\ question = [b \in Beads |-> 0]
    /\ lock = [s \in Specs |-> Free] /\ left = {}
    /\ msg = [p \in Msgs |-> Idle]
    /\ calls = {}
    /\ used = 0
    /\ asked = [b \in Beads |-> 0]
    /\ cleared = [locked |-> FALSE, late |-> FALSE, read |-> 0, asked |-> 0]

At(p, there) == msg[p].pc = there
Goto(p, there) == msg' = [msg EXCEPT ![p].pc = there]
tracker == <<labelled, question, left, asked>>

(***************************************************************************)
(* One invocation                                                          *)
(***************************************************************************)
(* Mutant: the guard of the spec lock is dropped before the work begins.   *)
StartUnlocked(p, filter) ==
    /\ At(p, "idle") /\ used < MaxMsgs
    /\ msg' = [msg EXCEPT ![p] = [Idle EXCEPT !.pc = "list", !.filter = filter]]
    /\ used' = used + 1
    /\ UNCHANGED <<tracker, lock, calls, cleared>>
(* run_msg: with -s the lock of the spec is taken first; while somebody    *)
(* holds it the command waits, or gives up and has done nothing.  -a and   *)
(* -d together are refused next.                                           *)
Start(p, filter) ==
    /\ At(p, "idle") /\ used < MaxMsgs
    /\ IF filter = None THEN UNCHANGED lock
       ELSE lock[filter] = Free /\ lock' = [lock EXCEPT ![filter] = p]
    /\ msg' = [msg EXCEPT ![p] = [Idle EXCEPT !.pc = "list", !.filter = filter]]
    /\ used' = used + 1
    /\ UNCHANGED <<tracker, calls, cleared>>

(* filter_clarifies keeps the tracker's order: a bead's row is its place   *)
(* among the beads kept.                                                   *)
Kept(filter) == {b \in labelled : filter \in {None, SpecOf[b]}}
Row(kept, b) == Cardinality({other \in kept : other <= b})

(* bd list, or its failure.                                                *)
ListBeads(p) ==
    /\ At(p, "list")
    /\ \/ msg' = [msg EXCEPT ![p].kept = Kept(msg[p].filter), ![p].read = question,
                             ![p].pc = "listed"]
       \/ msg' = [msg EXCEPT ![p] = Over(p)]
    /\ UNCHANGED <<tracker, lock, calls, used, cleared>>

(* Neither -a nor -d: build_rows, printed.                                 *)
PrintRows(p) ==
    /\ At(p, "listed") /\ msg' = [msg EXCEPT ![p] = Over(p)]
    /\ UNCHANGED <<tracker, lock, calls, used, cleared>>

(* resolve_target: the bead meant, or nothing: both given, neither given,  *)
(* no such row, no such bead.                                              *)
Resolve(kept, num, id) ==
    IF num # None /\ id # None THEN {}
    ELSE IF num # None THEN {b \in kept : Row(kept, b) = num}
    ELSE {id} \cap kept

(* -a or -d, with any -n and -i.                                           *)
ResolveTarget(p) ==
    /\ At(p, "listed")
    /\ \E num \in Nums, id \in Ids :
         LET meant == Resolve(msg[p].kept, num, id) IN
         \/ meant = {} /\ msg' = [msg EXCEPT ![p] = Over(p)]
         \/ \E b \in meant :
              msg' = [msg EXCEPT ![p].bead = b, ![p].pc = "reply",
                     ![p].read = [other \in Beads |-> IF other = b THEN @[b] ELSE 0]]
    /\ UNCHANGED <<tracker, lock, calls, used, cleared>>

(* build_fast_reply: a number that is no option ends the command; nothing  *)
(* else becomes of the note.  Then bd update is started.                   *)
CallUpdate(p) ==
    /\ At(p, "reply")
    /\ \/ /\ msg' = [msg EXCEPT ![p] = [Over(p) EXCEPT !.pc = "waiting"]]
          /\ calls' = calls \cup {[by |-> p, bead |-> msg[p].bead,
                                   locked |-> msg[p].filter # None,
                                   read |-> msg[p].read[msg[p].bead]]}
       \/ msg' = [msg EXCEPT ![p] = Over(p)] /\ UNCHANGED calls
    /\ UNCHANGED <<tracker, lock, used, cleared>>

(* The bd process of a loom that died or timed out goes on by itself.      *)
Orphaned(p) == {IF c.by = p THEN [c EXCEPT !.by = None] ELSE c : c \in calls}

(* The runner drops the future after 60 s; bd is not killed.               *)
UpdateTimesOut(p) ==
    /\ At(p, "waiting") /\ Goto(p, "over")
    /\ calls' = Orphaned(p)
    /\ UNCHANGED <<tracker, lock, used, cleared>>

End(p) ==
    /\ msg' = [msg EXCEPT ![p] = Idle]
    /\ lock' = [s \in Specs |-> IF lock[s] = p THEN Free ELSE lock[s]]
    /\ calls' = Orphaned(p)
    /\ UNCHANGED <<tracker, used, cleared>>
Exit(p) == At(p, "over") /\ End(p)
Die(p) == ~At(p, "idle") /\ End(p)

(***************************************************************************)
(* bd                                                                      *)
(***************************************************************************)
Returns(c) == IF c.by = None THEN UNCHANGED msg ELSE Goto(c.by, "over")

UpdateApplies(c) ==
    /\ c \in calls /\ calls' = calls \ {c}
    /\ labelled' = labelled \ {c.bead}
    /\ cleared' = IF c.bead \notin labelled THEN cleared
                  ELSE [locked |-> c.locked, late |-> c.by = None,
                        read |-> c.read, asked |-> asked[c.bead]]
    /\ Returns(c)
    /\ UNCHANGED <<question, lock, left, used, asked>>

UpdateFails(c) ==
    /\ c \in calls /\ calls' = calls \ {c}
    /\ Returns(c)
    /\ UNCHANGED <<tracker, lock, used, cleared>>

(***************************************************************************)
(* Who raises questions: a run, under the lock of its spec; what a broken  *)
(* run left behind, without it; about a bead without spec label, anybody.  *)
(***************************************************************************)
RunStarts(s) ==
    /\ lock[s] = Free /\ lock' = [lock EXCEPT ![s] = Run]
    /\ UNCHANGED <<tracker, msg, calls, used, cleared>>
RunEnds(s) ==
    /\ lock[s] = Run /\ lock' = [lock EXCEPT ![s] = Free]
    /\ UNCHANGED <<tracker, msg, calls, used, cleared>>

(* A run is killed, or its bd update runs into the limit: the agent, or    *)
(* bd, goes on without the lock, for as long as it likes.                  *)
RunBreaksOff(s) ==
    /\ lock[s] = Run /\ lock' = [lock EXCEPT ![s] = Free]
    /\ left' = left \cup {s}
    /\ UNCHANGED <<labelled, question, msg, calls, used, asked, cleared>>

Raise(b) ==
    /\ question[b] < MaxQuestions
    /\ question' = [question EXCEPT ![b] = @ + 1]
    /\ labelled' = labelled \cup {b}
    /\ UNCHANGED <<lock, left, msg, calls, used, cleared>>
RunRaises(b) ==
    /\ SpecOf[b] # None /\ lock[SpecOf[b]] = Run
    /\ Raise(b) /\ asked' = [asked EXCEPT ![b] = question'[b]]
LeftoverRaises(b) == SpecOf[b] \in left /\ Raise(b) /\ UNCHANGED asked
SomebodyRaises(b) == SpecOf[b] = None /\ Raise(b) /\ UNCHANGED asked

-------------------------------------------------------------------------------
Next ==
    \/ \E p \in Msgs :
         \/ \E filter \in Specs \cup {None} : Start(p, filter)
         \/ ListBeads(p) \/ PrintRows(p) \/ ResolveTarget(p) \/ CallUpdate(p)
         \/ UpdateTimesOut(p) \/ Exit(p) \/ Die(p)
    \/ \E c \in calls : UpdateApplies(c) \/ UpdateFails(c)
    \/ \E s \in Specs : RunStarts(s) \/ RunEnds(s) \/ RunBreaksOff(s)
    \/ \E b \in Beads : RunRaises(b) \/ LeftoverRaises(b) \/ SomebodyRaises(b)

Spec == Init /\ [][Next]_vars

-------------------------------------------------------------------------------
(***************************************************************************)
(* An answer given with -s clears no question that a run of the spec       *)
(* raised, under the lock (main.rs:504), after the command had read the    *)
(* bead.  Two kinds of lateness escape the lock (bd/runner.rs:46): an      *)
(* answer whose update outlives the command that called it, and a question *)
(* of an agent, or of a bd call, that outlives its run.  Without -s there  *)
(* is no lock.                                                             *)
(***************************************************************************)
LockedAnswerFitsQuestion ==
    cleared.locked /\ ~cleared.late => cleared.asked <= cleared.read
===============================================================================
