-------------------------- MODULE LoomMsg_proofs -----------------------------
(***************************************************************************)
(* Proofs about LoomMsg for any numbers of beads, specs, processes,        *)
(* questions and invocations.                                              *)
(***************************************************************************)
EXTENDS LoomMsg, TLAPS

Places == {"idle", "list", "listed", "reply", "waiting", "over"}

Memory == [pc : Places, filter : Specs \cup {None}, kept : SUBSET Beads,
           read : [Beads -> Nat], bead : Beads \cup {None}]

Call == [by : Msgs \cup {None}, bead : Beads, locked : BOOLEAN, read : Nat]

MsgTypes ==
  /\ labelled \subseteq Beads
  /\ question \in [Beads -> Nat]
  /\ asked \in [Beads -> Nat]
  /\ lock \in [Specs -> Msgs \cup {Run, Free}]
  /\ msg \in [Msgs -> Memory]
  /\ calls \subseteq Call

(* A command that was given -s holds the lock of that spec.                *)
FiltersAreLocked ==
  \A p \in Msgs : msg[p].filter # None => lock[msg[p].filter] = p

(* Every question raised under the lock is numbered among all of them.     *)
AskedIsPast == \A b \in Beads : asked[b] <= question[b]

(* Under the lock of a spec, no run of it has asked since its beads were   *)
(* read.                                                                   *)
ListIsFresh ==
  \A p \in Msgs : \A b \in msg[p].kept :
    msg[p].filter # None /\ At(p, "listed") =>
      SpecOf[b] = msg[p].filter /\ asked[b] <= msg[p].read[b]

TargetIsFresh ==
  \A p \in Msgs :
    msg[p].filter # None /\ At(p, "reply") =>
      /\ SpecOf[msg[p].bead] = msg[p].filter
      /\ asked[msg[p].bead] <= msg[p].read[msg[p].bead]

TargetIsBead == \A p \in Msgs : At(p, "reply") => msg[p].bead \in Beads

(* An update whose command still lives is about a bead that is locked.     *)
CallsAreFresh ==
  \A c \in calls : c.by # None =>
    /\ ~At(c.by, "idle")
    /\ c.locked => /\ msg[c.by].filter # None
                   /\ SpecOf[c.bead] = msg[c.by].filter
                   /\ asked[c.bead] <= c.read

(* The inductive invariant.                                                *)
MsgInv ==
  /\ MsgTypes
  /\ AskedIsPast
  /\ FiltersAreLocked
  /\ ListIsFresh
  /\ TargetIsBead
  /\ TargetIsFresh
  /\ CallsAreFresh
  /\ LockedAnswerFitsQuestion

-------------------------------------------------------------------------------
(* The memory of a process that runs no command has its type.              *)
LEMMA IdleIsMemory == Idle \in Memory
  BY DEF Idle, Memory, Places

(* A command that is over keeps the filter it was given.                   *)
LEMMA OverIsMemory ==
  ASSUME MsgTypes, NEW p \in Msgs
  PROVE  Over(p) \in Memory /\ Over(p).filter = msg[p].filter /\ Over(p).pc = "over"
  BY IdleIsMemory DEF Over, Idle, Memory, Places, MsgTypes

(* An orphaned call has no command; the others' calls are left alone.      *)
LEMMA OrphanedCalls ==
  ASSUME MsgTypes, NEW p \in Msgs
  PROVE  /\ Orphaned(p) \subseteq Call
         /\ \A c \in Orphaned(p) : c.by # None => c \in calls /\ c.by # p
<1> SUFFICES ASSUME NEW d \in calls
             PROVE  LET c == IF d.by = p THEN [d EXCEPT !.by = None] ELSE d
                    IN  c \in Call /\ (c.by # None => c = d /\ c.by # p)
  BY DEF Orphaned
<1>1. d \in Call
  BY DEF MsgTypes
<1> QED
  BY <1>1 DEF Call

(* Every step keeps the types: what a command remembers, what bd is asked. *)
LEMMA MsgTypesStep == MsgInv /\ [Next]_vars => MsgTypes'
<1> SUFFICES ASSUME MsgInv, [Next]_vars PROVE MsgTypes'
  OBVIOUS
<1> USE DEF MsgTypes
<1> MsgTypes
  BY DEF MsgInv
<1>1. ASSUME NEW p \in Msgs, NEW filter \in Specs \cup {None}, Start(p, filter) PROVE MsgTypes'
  <2>1. [Idle EXCEPT !.pc = "list", !.filter = filter] \in Memory
    BY DEF Idle, Memory, Places
  <2> QED
    BY <1>1, <2>1 DEF Start, tracker
<1>2. ASSUME NEW p \in Msgs, ListBeads(p) PROVE MsgTypes'
  <2>1. Kept(msg[p].filter) \in SUBSET Beads
    BY DEF Kept
  <2>2. [msg[p] EXCEPT !.kept = Kept(msg[p].filter), !.read = question, !.pc = "listed"] \in Memory
    BY <2>1 DEF Memory, Places
  <2>3. \/ msg' = [msg EXCEPT ![p] =
               [msg[p] EXCEPT !.kept = Kept(msg[p].filter), !.read = question, !.pc = "listed"]]
        \/ msg' = [msg EXCEPT ![p] = Over(p)]
    BY <1>2 DEF ListBeads
  <2> QED
    BY <1>2, <2>2, <2>3, OverIsMemory DEF ListBeads, tracker
<1>3. ASSUME NEW p \in Msgs, PrintRows(p) PROVE MsgTypes'
  BY <1>3, OverIsMemory DEF PrintRows, tracker
<1>4. ASSUME NEW p \in Msgs, ResolveTarget(p) PROVE MsgTypes'
  <2>1. CASE msg' = [msg EXCEPT ![p] = Over(p)]
    BY <1>4, <2>1, OverIsMemory DEF ResolveTarget, tracker
  <2>2. ASSUME NEW b \in msg[p].kept,
               msg' = [msg EXCEPT ![p] =
                 [msg[p] EXCEPT !.bead = b, !.pc = "reply",
                    !.read = [other \in Beads |-> IF other = b THEN msg[p].read[b] ELSE 0]]]
        PROVE  MsgTypes'
    <3>1. msg[p] \in Memory /\ b \in Beads
      BY DEF Memory
    <3>2. [other \in Beads |-> IF other = b THEN msg[p].read[b] ELSE 0] \in [Beads -> Nat]
      BY <3>1 DEF Memory
    <3>3. [msg[p] EXCEPT !.bead = b, !.pc = "reply",
             !.read = [other \in Beads |-> IF other = b THEN msg[p].read[b] ELSE 0]] \in Memory
      BY <3>1, <3>2 DEF Memory, Places
    <3> QED
      BY <1>4, <2>2, <3>3 DEF ResolveTarget, tracker
  <2> QED
    BY <1>4, <2>1, <2>2 DEF ResolveTarget, Resolve
<1>5. ASSUME NEW p \in Msgs, CallUpdate(p) PROVE MsgTypes'
  <2>1. [Over(p) EXCEPT !.pc = "waiting"] \in Memory
    BY OverIsMemory DEF Memory, Places
  <2>2. msg[p].bead \in Beads
    BY <1>5 DEF CallUpdate, MsgInv, TargetIsBead
  <2>3. [by |-> p, bead |-> msg[p].bead, locked |-> msg[p].filter # None,
         read |-> msg[p].read[msg[p].bead]] \in Call
    BY <2>2 DEF Memory, Call
  <2> QED
    BY <1>5, <2>1, <2>3, OverIsMemory DEF CallUpdate, tracker
<1>6. ASSUME NEW p \in Msgs, UpdateTimesOut(p) PROVE MsgTypes'
  <2>1. [msg[p] EXCEPT !.pc = "over"] \in Memory
    BY DEF Memory, Places
  <2> QED
    BY <1>6, <2>1, OrphanedCalls DEF UpdateTimesOut, Goto, tracker
<1>7. ASSUME NEW p \in Msgs, End(p) PROVE MsgTypes'
  BY <1>7, IdleIsMemory, OrphanedCalls DEF End, tracker
<1>8. ASSUME NEW c \in calls, Returns(c) PROVE msg' \in [Msgs -> Memory]
  <2>1. c.by \in Msgs \cup {None}
    BY DEF Call
  <2>2. ASSUME c.by \in Msgs PROVE [msg[c.by] EXCEPT !.pc = "over"] \in Memory
    BY <2>2 DEF Memory, Places
  <2> QED
    BY <1>8, <2>1, <2>2 DEF Returns, Goto
<1>9. ASSUME NEW c \in calls, UpdateApplies(c) PROVE MsgTypes'
  BY <1>8, <1>9 DEF UpdateApplies
<1>10. ASSUME NEW c \in calls, UpdateFails(c) PROVE MsgTypes'
  BY <1>8, <1>10 DEF UpdateFails, tracker
<1>11. ASSUME NEW s \in Specs, RunStarts(s) PROVE MsgTypes'
  BY <1>11 DEF RunStarts, tracker
<1>12. ASSUME NEW s \in Specs, RunEnds(s) PROVE MsgTypes'
  BY <1>12 DEF RunEnds, tracker
<1>13. ASSUME NEW b \in Beads, RunRaises(b) \/ LeftoverRaises(b) \/ SomebodyRaises(b)
       PROVE  MsgTypes'
  BY <1>13 DEF RunRaises, LeftoverRaises, SomebodyRaises, Raise
<1>15. ASSUME NEW s \in Specs, RunBreaksOff(s) PROVE MsgTypes'
  BY <1>15 DEF RunBreaksOff
<1>14. CASE UNCHANGED vars
  BY <1>14 DEF vars
<1> QED
  BY <1>1, <1>2, <1>3, <1>4, <1>5, <1>6, <1>7, <1>9, <1>10, <1>11, <1>12, <1>13, <1>14,
     <1>15 DEF Next, Exit, Die

(* A question raised under the lock is the last of its bead.               *)
LEMMA AskedIsPastStep == MsgInv /\ [Next]_vars => AskedIsPast'
<1> SUFFICES ASSUME MsgInv, [Next]_vars PROVE AskedIsPast'
  OBVIOUS
<1> USE DEF MsgInv, MsgTypes, AskedIsPast
<1>1. ASSUME NEW b \in Beads, RunRaises(b) \/ LeftoverRaises(b) \/ SomebodyRaises(b)
      PROVE  AskedIsPast'
  BY <1>1 DEF RunRaises, LeftoverRaises, SomebodyRaises, Raise
<1>2. \/ question' = question /\ asked' = asked
      \/ \E b \in Beads : RunRaises(b) \/ LeftoverRaises(b) \/ SomebodyRaises(b)
  BY DEF Next, vars, tracker, Start, ListBeads, PrintRows, ResolveTarget, CallUpdate,
         UpdateTimesOut, Exit, Die, End, UpdateApplies, UpdateFails, RunStarts, RunEnds,
         RunBreaksOff
<1> QED
  BY <1>1, <1>2

(* Every step keeps the lock of a filter with the command that took it.    *)
LEMMA FiltersAreLockedStep == MsgInv /\ [Next]_vars => FiltersAreLocked'
<1> SUFFICES ASSUME MsgInv, [Next]_vars PROVE FiltersAreLocked'
  OBVIOUS
<1> USE DEF FiltersAreLocked
<1> MsgTypes /\ FiltersAreLocked
  BY DEF MsgInv
<1>1. ASSUME NEW p \in Msgs, NEW filter \in Specs \cup {None}, Start(p, filter)
      PROVE  FiltersAreLocked'
  <2> SUFFICES ASSUME NEW q \in Msgs, msg'[q].filter # None
               PROVE  lock'[msg'[q].filter] = q
    OBVIOUS
  <2>1. CASE q = p
    <3>1. msg'[p].filter = filter
      BY <1>1 DEF Start, Idle, MsgTypes
    <3> QED
      BY <1>1, <2>1, <3>1 DEF Start, MsgTypes
  <2>2. CASE q # p
    <3>1. msg'[q] = msg[q]
      BY <1>1, <2>2 DEF Start, MsgTypes
    <3>2. lock[msg[q].filter] = q /\ q # Free
      BY <3>1, HolderAssumption
    <3> QED
      BY <1>1, <3>1, <3>2 DEF Start, MsgTypes, Memory
  <2> QED
    BY <2>1, <2>2
<1>2. ASSUME NEW p \in Msgs, End(p) PROVE FiltersAreLocked'
  <2> SUFFICES ASSUME NEW q \in Msgs, msg'[q].filter # None
               PROVE  lock'[msg'[q].filter] = q
    OBVIOUS
  <2>1. q # p
    BY <1>2 DEF End, Idle, MsgTypes
  <2>2. msg'[q] = msg[q] /\ msg[q].filter \in Specs
    BY <1>2, <2>1 DEF End, MsgTypes, Memory
  <2> QED
    BY <1>2, <2>1, <2>2 DEF End
<1>3. ASSUME lock' = lock, \A q \in Msgs : msg'[q].filter = msg[q].filter
      PROVE  FiltersAreLocked'
  BY <1>3
<1>4. ASSUME NEW p \in Msgs, NEW m, m.filter = msg[p].filter, lock' = lock,
             msg' = [msg EXCEPT ![p] = m]
      PROVE  FiltersAreLocked'
  BY <1>3, <1>4 DEF MsgTypes
<1>5. ASSUME NEW p \in Msgs, ListBeads(p) PROVE FiltersAreLocked'
  <2> DEFINE m == [msg[p] EXCEPT !.kept = Kept(msg[p].filter), !.read = question, !.pc = "listed"]
  <2>1. m.filter = msg[p].filter
    BY DEF MsgTypes, Memory
  <2>2. msg' = [msg EXCEPT ![p] = m] \/ msg' = [msg EXCEPT ![p] = Over(p)]
    BY <1>5 DEF ListBeads
  <2> HIDE DEF m
  <2> QED
    BY <1>4, <1>5, <2>1, <2>2, OverIsMemory DEF ListBeads
<1>6. ASSUME NEW p \in Msgs, PrintRows(p) PROVE FiltersAreLocked'
  BY <1>4, <1>6, OverIsMemory DEF PrintRows
<1>7. ASSUME NEW p \in Msgs, ResolveTarget(p) PROVE FiltersAreLocked'
  <2>1. CASE msg' = [msg EXCEPT ![p] = Over(p)]
    BY <1>4, <1>7, <2>1, OverIsMemory DEF ResolveTarget
  <2>2. ASSUME NEW b,
               msg' = [msg EXCEPT ![p].bead = b, ![p].pc = "reply",
                 ![p].read = [other \in Beads |-> IF other = b THEN @[b] ELSE 0]]
        PROVE  FiltersAreLocked'
    <3>1. \A q \in Msgs : msg'[q].filter = msg[q].filter
      BY <2>2 DEF MsgTypes, Memory
    <3> QED
      BY <1>3, <1>7, <3>1 DEF ResolveTarget
  <2> QED
    BY <1>7, <2>1, <2>2 DEF ResolveTarget
<1>8. ASSUME NEW p \in Msgs, CallUpdate(p) PROVE FiltersAreLocked'
  <2>1. [Over(p) EXCEPT !.pc = "waiting"].filter = msg[p].filter
    BY OverIsMemory DEF Memory
  <2> QED
    BY <1>4, <1>8, <2>1, OverIsMemory DEF CallUpdate
<1>9. ASSUME NEW p \in Msgs, UpdateTimesOut(p) PROVE FiltersAreLocked'
  BY <1>3, <1>9 DEF UpdateTimesOut, Goto, MsgTypes, Memory
<1>10. ASSUME NEW c \in calls, UpdateApplies(c) \/ UpdateFails(c) PROVE FiltersAreLocked'
  <2>1. \A q \in Msgs : msg'[q].filter = msg[q].filter
    <3>1. ASSUME NEW q \in Msgs, Goto(c.by, "over") PROVE msg'[q].filter = msg[q].filter
      BY <3>1 DEF Goto, MsgTypes, Memory
    <3> QED
      BY <1>10, <3>1 DEF UpdateApplies, UpdateFails, Returns
  <2> QED
    BY <1>3, <1>10, <2>1 DEF UpdateApplies, UpdateFails
<1>11. ASSUME NEW s \in Specs, RunStarts(s) \/ RunEnds(s) \/ RunBreaksOff(s)
       PROVE  FiltersAreLocked'
  <2>1. msg' = msg /\ lock[s] \notin Msgs /\ \A t \in Specs : t # s => lock'[t] = lock[t]
    BY <1>11, HolderAssumption DEF RunStarts, RunEnds, RunBreaksOff, MsgTypes
  <2> QED
    BY <2>1 DEF MsgTypes, Memory
<1>12. ASSUME NEW b \in Beads, Raise(b) PROVE FiltersAreLocked'
  BY <1>3, <1>12 DEF Raise
<1>13. CASE UNCHANGED vars
  BY <1>3, <1>13 DEF vars
<1> QED
  BY <1>1, <1>2, <1>5, <1>6, <1>7, <1>8, <1>9, <1>10, <1>11, <1>12, <1>13
     DEF Next, Exit, Die, RunRaises, LeftoverRaises, SomebodyRaises

(* While a command holds the lock of a spec, no run of that spec asks: the *)
(* questions of its beads are those of a broken run, if any.               *)
LEMMA NobodyAsksUnderLock ==
  ASSUME MsgInv, [Next]_vars, NEW p \in Msgs, msg[p].filter # None,
         NEW b \in Beads, SpecOf[b] = msg[p].filter
  PROVE  asked'[b] = asked[b]
<1>1. lock[SpecOf[b]] # Run
  BY HolderAssumption DEF MsgInv, FiltersAreLocked
<1>2. ASSUME NEW other \in Beads, RunRaises(other) PROVE asked'[b] = asked[b]
  BY <1>1, <1>2 DEF RunRaises, MsgInv, MsgTypes
<1>3. asked' = asked \/ \E other \in Beads : RunRaises(other)
  BY DEF Next, vars, tracker, Start, ListBeads, PrintRows, ResolveTarget, CallUpdate,
         UpdateTimesOut, Exit, Die, End, UpdateApplies, UpdateFails, RunStarts, RunEnds,
         RunBreaksOff, LeftoverRaises, SomebodyRaises
<1> QED
  BY <1>2, <1>3

(* How a step may leave a command with a list or a target in its memory.   *)
LEMMA MemoryOfStep ==
  ASSUME MsgTypes, [Next]_vars, NEW p \in Msgs
  PROVE  \/ msg'[p] = msg[p]
         \/ msg'[p].pc \notin {"listed", "reply"}
         \/ /\ msg'[p].pc = "listed"
            /\ msg'[p].filter = msg[p].filter
            /\ msg'[p].kept = Kept(msg[p].filter)
            /\ msg'[p].read = question
         \/ /\ msg[p].pc = "listed"
            /\ msg'[p].pc = "reply"
            /\ msg'[p].filter = msg[p].filter
            /\ msg'[p].bead \in msg[p].kept
            /\ msg'[p].read[msg'[p].bead] = msg[p].read[msg'[p].bead]
<1> DEFINE Goal == msg'[p] = msg[p] \/ msg'[p].pc \notin {"listed", "reply"}
<1> USE DEF MsgTypes
<1>1. ASSUME NEW q \in Msgs, NEW m, m.pc \notin {"listed", "reply"}, msg' = [msg EXCEPT ![q] = m]
      PROVE  Goal
  BY <1>1
<1>2. ASSUME NEW q \in Msgs, NEW filter \in Specs \cup {None}, Start(q, filter) PROVE Goal
  <2>1. [Idle EXCEPT !.pc = "list", !.filter = filter].pc = "list"
    BY DEF Idle
  <2> QED
    BY <1>1, <1>2, <2>1 DEF Start
<1>3. CASE ListBeads(p)
  <2>1. CASE msg' = [msg EXCEPT ![p] = Over(p)]
    BY <1>1, <2>1, OverIsMemory
  <2>2. CASE msg' = [msg EXCEPT ![p].kept = Kept(msg[p].filter), ![p].read = question,
                                ![p].pc = "listed"]
    BY <2>2 DEF Memory
  <2> QED
    BY <1>3, <2>1, <2>2 DEF ListBeads
<1>4. CASE ResolveTarget(p)
  <2>1. CASE msg' = [msg EXCEPT ![p] = Over(p)]
    BY <1>1, <2>1, OverIsMemory
  <2>2. ASSUME NEW b \in msg[p].kept,
               msg' = [msg EXCEPT ![p].bead = b, ![p].pc = "reply",
                 ![p].read = [other \in Beads |-> IF other = b THEN @[b] ELSE 0]]
        PROVE  /\ msg'[p].pc = "reply"
               /\ msg'[p].filter = msg[p].filter
               /\ msg'[p].bead = b
               /\ msg'[p].read[b] = msg[p].read[b]
    <3>1. b \in Beads /\ msg[p] \in Memory
      BY DEF Memory
    <3> QED
      BY <2>2, <3>1 DEF Memory
  <2> QED
    BY <1>4, <2>1, <2>2 DEF ResolveTarget, Resolve, At
<1>5. ASSUME NEW q \in Msgs, PrintRows(q) PROVE Goal
  BY <1>1, <1>5, OverIsMemory DEF PrintRows
<1>6. ASSUME NEW q \in Msgs, q # p, ListBeads(q) \/ ResolveTarget(q) PROVE msg'[p] = msg[p]
  BY <1>6 DEF ListBeads, ResolveTarget
<1>7. ASSUME NEW q \in Msgs, CallUpdate(q) PROVE Goal
  <2>1. [Over(q) EXCEPT !.pc = "waiting"].pc = "waiting"
    BY OverIsMemory DEF Memory
  <2> QED
    BY <1>1, <1>7, <2>1, OverIsMemory DEF CallUpdate
<1>8. ASSUME NEW q, Goto(q, "over") PROVE Goal
  BY <1>8 DEF Goto, Memory
<1>9. ASSUME NEW q \in Msgs, UpdateTimesOut(q) PROVE Goal
  BY <1>8, <1>9 DEF UpdateTimesOut
<1>10. ASSUME NEW q \in Msgs, End(q) PROVE Goal
  <2>1. Idle.pc = "idle"
    BY DEF Idle
  <2> QED
    BY <1>1, <1>10, <2>1 DEF End
<1>11. ASSUME NEW c \in calls, UpdateApplies(c) \/ UpdateFails(c) PROVE Goal
  BY <1>8, <1>11 DEF UpdateApplies, UpdateFails, Returns
<1>12. ASSUME NEW s \in Specs, RunStarts(s) \/ RunEnds(s) \/ RunBreaksOff(s) PROVE Goal
  BY <1>12 DEF RunStarts, RunEnds, RunBreaksOff
<1>13. ASSUME NEW b \in Beads, Raise(b) PROVE Goal
  BY <1>13 DEF Raise
<1>14. CASE UNCHANGED vars
  BY <1>14 DEF vars
<1> QED
  BY <1>2, <1>3, <1>4, <1>5, <1>6, <1>7, <1>9, <1>10, <1>11, <1>12, <1>13, <1>14
     DEF Next, Exit, Die, RunRaises, LeftoverRaises, SomebodyRaises

(* The beads listed under a lock are those of the spec, and no run of it   *)
(* has asked since.                                                        *)
LEMMA ListIsFreshStep == MsgInv /\ [Next]_vars => ListIsFresh'
<1> SUFFICES ASSUME MsgInv, [Next]_vars, NEW p \in Msgs, NEW b \in msg'[p].kept,
                    msg'[p].filter # None, msg'[p].pc = "listed"
             PROVE  SpecOf[b] = msg'[p].filter /\ asked'[b] <= msg'[p].read[b]
  BY DEF ListIsFresh, At
<1>1. CASE msg'[p] = msg[p]
  <2>1. b \in Beads /\ SpecOf[b] = msg[p].filter /\ asked[b] <= msg[p].read[b]
    BY <1>1 DEF MsgInv, MsgTypes, Memory, ListIsFresh, At
  <2> QED
    BY <1>1, <2>1, NobodyAsksUnderLock
<1>2. CASE /\ msg'[p].filter = msg[p].filter
           /\ msg'[p].kept = Kept(msg[p].filter)
           /\ msg'[p].read = question
  <2>1. b \in Beads /\ SpecOf[b] = msg[p].filter /\ asked[b] <= question[b]
    BY <1>2 DEF Kept, MsgInv, MsgTypes, AskedIsPast
  <2> QED
    BY <1>2, <2>1, NobodyAsksUnderLock
<1> QED
  BY <1>1, <1>2, MemoryOfStep DEF MsgInv

(* The target of a reply is a bead, picked from the list.                  *)
LEMMA TargetIsBeadStep == MsgInv /\ [Next]_vars => TargetIsBead'
<1> SUFFICES ASSUME MsgInv, [Next]_vars, NEW p \in Msgs, msg'[p].pc = "reply"
             PROVE  msg'[p].bead \in Beads
  BY DEF TargetIsBead, At
<1> QED
  BY MemoryOfStep DEF MsgInv, MsgTypes, Memory, TargetIsBead, At

(* No run has asked about the target of a reply under a lock since.        *)
LEMMA TargetIsFreshStep == MsgInv /\ [Next]_vars => TargetIsFresh'
<1> SUFFICES ASSUME MsgInv, [Next]_vars, NEW p \in Msgs,
                    msg'[p].filter # None, msg'[p].pc = "reply"
             PROVE  /\ SpecOf[msg'[p].bead] = msg'[p].filter
                    /\ asked'[msg'[p].bead] <= msg'[p].read[msg'[p].bead]
  BY DEF TargetIsFresh, At
<1>1. CASE msg'[p] = msg[p]
  <2>1. /\ msg[p].bead \in Beads
        /\ SpecOf[msg[p].bead] = msg[p].filter
        /\ asked[msg[p].bead] <= msg[p].read[msg[p].bead]
    BY <1>1 DEF MsgInv, TargetIsBead, TargetIsFresh, At
  <2> QED
    BY <1>1, <2>1, NobodyAsksUnderLock
<1>2. CASE /\ msg[p].pc = "listed"
           /\ msg'[p].filter = msg[p].filter
           /\ msg'[p].bead \in msg[p].kept
           /\ msg'[p].read[msg'[p].bead] = msg[p].read[msg'[p].bead]
  <2> DEFINE b == msg'[p].bead
  <2>1. b \in Beads /\ SpecOf[b] = msg[p].filter /\ asked[b] <= msg[p].read[b]
    BY <1>2 DEF MsgInv, MsgTypes, Memory, ListIsFresh, At
  <2> QED
    BY <1>2, <2>1, NobodyAsksUnderLock
<1> QED
  BY <1>1, <1>2, MemoryOfStep DEF MsgInv

(* After a step, a call that a command waits for was there before, or the  *)
(* command just made it from its target; the command keeps its filter.     *)
LEMMA CallsOfStep ==
  ASSUME MsgInv, [Next]_vars, NEW c \in calls', c.by # None
  PROVE  /\ msg'[c.by].filter = msg[c.by].filter
         /\ msg'[c.by].pc # "idle"
         /\ \/ c \in calls
            \/ /\ msg[c.by].pc = "reply"
               /\ c.bead = msg[c.by].bead
               /\ c.locked = (msg[c.by].filter # None)
               /\ c.read = msg[c.by].read[c.bead]
<1> DEFINE Steady(d) == msg'[d.by].filter = msg[d.by].filter /\ msg'[d.by].pc # "idle"
<1> USE DEF MsgTypes
<1>0. MsgTypes /\ \A d \in calls : d.by # None => d.by \in Msgs /\ msg[d.by].pc # "idle"
  BY DEF MsgInv, CallsAreFresh, Call, At
<1>1. ASSUME NEW p \in Msgs, NEW m, m.filter = msg[p].filter, m.pc # "idle",
             msg' = [msg EXCEPT ![p] = m], c \in calls
      PROVE  Steady(c)
  BY <1>0, <1>1
<1>2. ASSUME msg' = msg, c \in calls PROVE Steady(c)
  BY <1>0, <1>2
<1>3. ASSUME NEW p, Goto(p, "over"), c \in calls PROVE Steady(c)
  BY <1>0, <1>3 DEF Goto, Memory
<1>4. ASSUME NEW p \in Msgs, NEW filter, Start(p, filter) PROVE c \in calls /\ Steady(c)
  BY <1>0, <1>4 DEF Start, At
<1>5. ASSUME NEW p \in Msgs, ListBeads(p) PROVE c \in calls /\ Steady(c)
  <2>1. CASE msg' = [msg EXCEPT ![p] = Over(p)]
    BY <1>0, <1>1, <1>5, <2>1, OverIsMemory DEF ListBeads
  <2>2. CASE msg' = [msg EXCEPT ![p].kept = Kept(msg[p].filter), ![p].read = question,
                                ![p].pc = "listed"]
    BY <1>0, <1>5, <2>2 DEF ListBeads, Memory
  <2> QED
    BY <1>5, <2>1, <2>2 DEF ListBeads
<1>6. ASSUME NEW p \in Msgs, PrintRows(p) PROVE c \in calls /\ Steady(c)
  BY <1>0, <1>1, <1>6, OverIsMemory DEF PrintRows
<1>7. ASSUME NEW p \in Msgs, ResolveTarget(p) PROVE c \in calls /\ Steady(c)
  <2>1. CASE msg' = [msg EXCEPT ![p] = Over(p)]
    BY <1>0, <1>1, <1>7, <2>1, OverIsMemory DEF ResolveTarget
  <2>2. ASSUME NEW b \in msg[p].kept,
               msg' = [msg EXCEPT ![p].bead = b, ![p].pc = "reply",
                 ![p].read = [other \in Beads |-> IF other = b THEN @[b] ELSE 0]]
        PROVE  c \in calls /\ Steady(c)
    <3>1. c \in calls
      BY <1>7 DEF ResolveTarget
    <3>2. b \in Beads /\ msg[p] \in Memory
      BY <1>0 DEF Memory
    <3>3. \A q \in Msgs : /\ msg'[q].filter = msg[q].filter
                          /\ msg[q].pc # "idle" => msg'[q].pc # "idle"
      BY <1>0, <2>2, <3>2 DEF Memory
    <3> QED
      BY <1>0, <3>1, <3>3
  <2> QED
    BY <1>7, <2>1, <2>2 DEF ResolveTarget, Resolve
<1>8. CASE \E p \in Msgs : CallUpdate(p)
  <2>1. PICK p \in Msgs : CallUpdate(p)
    BY <1>8
  <2>2. [Over(p) EXCEPT !.pc = "waiting"].filter = msg[p].filter
        /\ [Over(p) EXCEPT !.pc = "waiting"].pc = "waiting"
    BY <1>0, OverIsMemory DEF Memory
  <2>3. CASE c \in calls
    BY <1>0, <1>1, <2>1, <2>2, <2>3, OverIsMemory DEF CallUpdate
  <2>4. CASE c \notin calls
    <3>1. c = [by |-> p, bead |-> msg[p].bead, locked |-> msg[p].filter # None,
               read |-> msg[p].read[msg[p].bead]]
      BY <2>1, <2>4 DEF CallUpdate
    <3>2. msg' = [msg EXCEPT ![p] = [Over(p) EXCEPT !.pc = "waiting"]]
      BY <2>1, <2>4 DEF CallUpdate
    <3>3. msg'[p].filter = msg[p].filter /\ msg'[p].pc # "idle"
      BY <1>0, <2>2, <3>2
    <3> QED
      BY <2>1, <3>1, <3>3 DEF CallUpdate, At
  <2> QED
    BY <2>3, <2>4
<1>9. ASSUME NEW p \in Msgs, UpdateTimesOut(p) PROVE c \in calls /\ Steady(c)
  BY <1>0, <1>3, <1>9, OrphanedCalls DEF UpdateTimesOut
<1>10. ASSUME NEW p \in Msgs, End(p) PROVE c \in calls /\ Steady(c)
  BY <1>0, <1>10, OrphanedCalls DEF End
<1>11. ASSUME NEW d \in calls, UpdateApplies(d) \/ UpdateFails(d) PROVE c \in calls /\ Steady(c)
  BY <1>2, <1>3, <1>11 DEF UpdateApplies, UpdateFails, Returns
<1>12. ASSUME NEW s \in Specs, RunStarts(s) \/ RunEnds(s) \/ RunBreaksOff(s)
       PROVE  c \in calls /\ Steady(c)
  BY <1>2, <1>12 DEF RunStarts, RunEnds, RunBreaksOff
<1>13. ASSUME NEW b \in Beads, Raise(b) PROVE c \in calls /\ Steady(c)
  BY <1>2, <1>13 DEF Raise
<1>14. CASE UNCHANGED vars
  BY <1>2, <1>14 DEF vars
<1> QED
  BY <1>4, <1>5, <1>6, <1>7, <1>8, <1>9, <1>10, <1>11, <1>12, <1>13, <1>14
     DEF Next, Exit, Die, RunRaises, LeftoverRaises, SomebodyRaises

(* So does the bead of an update that its command still waits for.         *)
LEMMA CallsAreFreshStep == MsgInv /\ [Next]_vars => CallsAreFresh'
<1> SUFFICES ASSUME MsgInv, [Next]_vars, NEW c \in calls', c.by # None
             PROVE  /\ msg'[c.by].pc # "idle"
                    /\ c.locked => /\ msg'[c.by].filter # None
                                   /\ SpecOf[c.bead] = msg'[c.by].filter
                                   /\ asked'[c.bead] <= c.read
  BY DEF CallsAreFresh, At
<1>1. c \in Call /\ c.by \in Msgs /\ c.bead \in Beads
  BY MsgTypesStep DEF MsgTypes, Call
<1>2. c.locked => /\ msg[c.by].filter # None
                  /\ SpecOf[c.bead] = msg[c.by].filter
                  /\ asked[c.bead] <= c.read
  <2>1. CASE c \in calls
    BY <2>1 DEF MsgInv, CallsAreFresh
  <2>2. CASE c \notin calls
    BY <1>1, <2>2, CallsOfStep DEF MsgInv, TargetIsFresh, At
  <2> QED
    BY <2>1, <2>2
<1> QED
  BY <1>1, <1>2, CallsOfStep, NobodyAsksUnderLock

(* An update that goes through was of such a bead, or outlived its command. *)
LEMMA AnswerStep == MsgInv /\ [Next]_vars => LockedAnswerFitsQuestion'
<1> SUFFICES ASSUME MsgInv, [Next]_vars PROVE LockedAnswerFitsQuestion'
  OBVIOUS
<1> USE DEF MsgInv, LockedAnswerFitsQuestion
<1>1. ASSUME NEW c \in calls, UpdateApplies(c) PROVE LockedAnswerFitsQuestion'
  BY <1>1 DEF UpdateApplies, CallsAreFresh
<1>2. cleared' = cleared \/ \E c \in calls : UpdateApplies(c)
  BY DEF Next, vars, tracker, Start, ListBeads, PrintRows, ResolveTarget, CallUpdate,
         UpdateTimesOut, Exit, Die, End, UpdateFails, RunStarts, RunEnds,
         RunBreaksOff, RunRaises, LeftoverRaises, SomebodyRaises, Raise
<1> QED
  BY <1>1, <1>2

(* No command is under way at first.                                       *)
LEMMA MsgInit == Init => MsgInv
<1> SUFFICES ASSUME Init PROVE MsgInv
  OBVIOUS
<1>1. MsgTypes /\ AskedIsPast
  BY IdleIsMemory DEF Init, MsgTypes, AskedIsPast
<1>2. FiltersAreLocked /\ ListIsFresh /\ TargetIsBead /\ TargetIsFresh
  BY DEF Init, FiltersAreLocked, ListIsFresh, TargetIsBead, TargetIsFresh, Idle, At
<1>3. CallsAreFresh /\ LockedAnswerFitsQuestion
  BY DEF Init, CallsAreFresh, LockedAnswerFitsQuestion
<1> QED
  BY <1>1, <1>2, <1>3 DEF MsgInv

(* The inductive invariant of loom msg, of the runs that raise questions   *)
(* meanwhile (main.rs:496) and of what broken runs leave behind, which     *)
(* raises questions without the lock, holds in every reachable state.      *)
THEOREM MsgInvariance == Spec => []MsgInv
<1>1. MsgInv /\ [Next]_vars => MsgInv'
  BY MsgTypesStep, AskedIsPastStep, FiltersAreLockedStep, ListIsFreshStep, TargetIsBeadStep,
     TargetIsFreshStep, CallsAreFreshStep, AnswerStep DEF MsgInv
<1> QED
  BY MsgInit, <1>1, PTL DEF Spec

(* An answer given with -s that lands in time clears no question that a    *)
(* run raised under the lock after the bead was read (main.rs:504),        *)
(* whatever the other commands, the runs, their leftovers and bd do.       *)
THEOREM LockedAnswersFit == Spec => []LockedAnswerFitsQuestion
<1>1. MsgInv => LockedAnswerFitsQuestion
  BY DEF MsgInv
<1> QED
  BY MsgInvariance, <1>1, PTL
===============================================================================
