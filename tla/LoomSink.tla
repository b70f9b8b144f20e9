-------------------------------- MODULE LoomSink --------------------------------
(***************************************************************************)
(* LogSink (logging/sink.rs) with its TerminalRenderer (renderer.rs): each *)
(* event of a session goes to the bead's log file and to the terminal.     *)
(* The file is behind a BufWriter.  Two sessions of a bead that start in   *)
(* the same second append to one file, so two sinks stand here; their      *)
(* calls do not overlap.  No command opens a sink yet.                     *)
(*                                                                         *)
(* A call names its sink, the size of its event and what the disk and the  *)
(* terminal let through; a call's position in the sequence of calls names  *)
(* its event.  A line is `size` units long and the newline one more, in a  *)
(* buffer of Capacity units (8 KiB).                                       *)
(***************************************************************************)
EXTENDS Naturals, Sequences, FiniteSets

CONSTANT Capacity

ASSUME SinkAssumption == Capacity \in Nat \ {0}

Sinks == {1, 2}
EventKinds == {"tool", "text", "error", "turn"}

(* room: the units that the disk takes in this call, before it refuses the *)
(* rest; Plenty is more than any call writes.  A line of Capacity units    *)
(* stands for all longer ones.                                             *)
Plenty == 2 * Capacity + 1
Calls == [sink : Sinks, kind : EventKinds \cup {"finish", "drop"}, size : 1 .. Capacity,
          room : 0 .. Plenty, term : BOOLEAN]

Unit(n, k) == [event |-> n, part |-> k]
Line(n, size) == [k \in 1 .. size |-> Unit(n, k)]
Newline(n, size) == <<Unit(n, size + 1)>>

(* open_in_at: appends to what is there; n counts the calls.               *)
OpenSinks(verbose) ==
    LET each(x) == [s \in Sinks |-> x] IN
    [n |-> 0, log |-> <<>>, verbose |-> verbose, kept |-> each(<<>>), shown |-> each(<<>>),
     tools |-> each(0), closing |-> each(<<>>), renderer |-> each(TRUE),
     finished |-> each(FALSE), gone |-> each(FALSE)]

(***************************************************************************)
(* BufWriter, as one call sees it: the file, the buffer, the room left and *)
(* whether all went well so far.                                           *)
(***************************************************************************)
Writer(st, c) == [log |-> st.log, kept |-> st.kept[c.sink], room |-> c.room, ok |-> TRUE]
Left(st, s, w) == [st EXCEPT !.log = w.log, !.kept[s] = w.kept]

(* The units of seq that the disk takes.                                   *)
Taken(w, seq) == IF Len(seq) <= w.room THEN Len(seq) ELSE w.room
WriteOut(w, seq) ==
    [w EXCEPT !.log = @ \o SubSeq(seq, 1, Taken(w, seq)), !.room = @ - Taken(w, seq),
              !.ok = Taken(w, seq) = Len(seq)]

(* flush_buf: what the disk refuses stays in the buffer.                   *)
Flush(w) ==
    [WriteOut(w, w.kept) EXCEPT !.kept = SubSeq(@, Taken(w, w.kept) + 1, Len(@))]

(* write_all: a full buffer is flushed first, and without it nothing of    *)
(* seq is kept; a line that is no shorter than the buffer goes past it.    *)
WriteAll(w, seq) ==
    LET made == IF Len(w.kept) + Len(seq) > Capacity THEN Flush(w) ELSE w
    IN IF ~made.ok THEN made
       ELSE IF Len(seq) >= Capacity THEN WriteOut(made, seq)
       ELSE [made EXCEPT !.kept = @ \o seq]

(* The line, the newline and a flush, as far as nothing fails.             *)
WriteEvent(w, n, size) ==
    LET line == WriteAll(w, Line(n, size))
        ended == IF line.ok THEN WriteAll(line, Newline(n, size)) ELSE line
    IN IF ended.ok THEN Flush(ended) ELSE ended

(***************************************************************************)
(* The sink                                                                *)
(***************************************************************************)
(* render_event: a text is for --verbose only, a turn's end never shown;   *)
(* tools are counted first.                                                *)
Visible(kind, verbose) == kind \in {"tool", "error"} \/ (verbose /\ kind = "text")
RenderEvent(st, c) ==
    [st EXCEPT !.tools[c.sink] = IF c.kind = "tool" THEN @ + 1 ELSE @,
               !.shown[c.sink] = IF Visible(c.kind, st.verbose) /\ c.term
                                 THEN Append(@, st.n) ELSE @]

(* Mutant: the terminal comes first.                                       *)
EmitShowsFirst(st, c) ==
    LET rendered == IF st.renderer[c.sink] THEN RenderEvent(st, c) ELSE st
    IN Left(rendered, c.sink, WriteEvent(Writer(st, c), st.n, c.size))
(* emit: an event that could not be written is not rendered.               *)
Emit(st, c) ==
    LET w == WriteEvent(Writer(st, c), st.n, c.size)
        left == Left(st, c.sink, w)
    IN IF w.ok /\ st.renderer[c.sink] THEN RenderEvent(left, c) ELSE left

(* write_finish, which consumes the renderer.                              *)
WriteFinish(st, c) ==
    [st EXCEPT !.renderer[c.sink] = FALSE,
               !.closing[c.sink] = IF c.term THEN Append(@, st.tools[c.sink]) ELSE @]

(* finish: the flag is set before anything is tried.                       *)
Finish(st, c) ==
    IF st.finished[c.sink] THEN st
    ELSE LET w == Flush(Writer(st, c))
             left == Left([st EXCEPT !.finished[c.sink] = TRUE], c.sink, w)
         IN IF w.ok THEN WriteFinish(left, c) ELSE left

(* Drop, of the sink and then of its buffer: both flush.                   *)
Drop(st, c) ==
    Left([st EXCEPT !.gone[c.sink] = TRUE], c.sink, Flush(Writer(st, c)))

SinkStep(st, c) ==
    LET next == [st EXCEPT !.n = @ + 1] IN
    IF st.gone[c.sink] THEN next
    ELSE CASE c.kind \in EventKinds -> Emit(next, c)
           [] c.kind = "finish" -> Finish(next, c)
           [] c.kind = "drop" -> Drop(next, c)
RunSinks(calls, verbose) ==
    LET after[k \in 0 .. Len(calls)] ==
          IF k = 0 THEN OpenSinks(verbose) ELSE SinkStep(after[k - 1], calls[k])
    IN after[Len(calls)]

-------------------------------------------------------------------------------
(* Positions of the calls on s that took place, of its events, of the call *)
(* that finished it and of the calls that flush.                           *)
Of(calls, s) ==
    {i \in DOMAIN calls : /\ calls[i].sink = s
                          /\ \A j \in 1 .. i - 1 : calls[j].sink = s => calls[j].kind # "drop"}
EventsOf(calls, s) == {i \in Of(calls, s) : calls[i].kind \in EventKinds}
FinishOf(calls, s) == {i \in Of(calls, s) : calls[i].kind = "finish" /\
                         \A j \in Of(calls, s) : calls[j].kind = "finish" => i <= j}
Flushes(calls, s) == {i \in Of(calls, s) : calls[i].kind = "finish" => i \in FinishOf(calls, s)}
BeforeEnd(calls, s) == {i \in EventsOf(calls, s) : \A f \in FinishOf(calls, s) : i < f}

Increasing(seq) == \A i, j \in DOMAIN seq : i < j => seq[i] < seq[j]
ComesBefore(u, v) == u.event < v.event \/ (u.event = v.event /\ u.part < v.part)

(* The event stands in the log in one piece, newline included.             *)
InOnePiece(log, i, size) ==
    \E p \in 0 .. Len(log) - (size + 1) : \A k \in 1 .. size + 1 : log[p + k] = Unit(i, k)

(* The event is the first of its sink whose write may have failed, and     *)
(* fits into the buffer.                                                   *)
FirstToFail(calls, s, i) ==
    calls[i].size < Capacity /\ \A j \in Of(calls, s) : j < i => calls[j].room = Plenty

(* A log has only its events, each unit at most once and those of one sink *)
(* in their order.                                                         *)
LogMeant(calls, log) ==
    /\ \A p \in DOMAIN log : \E s \in Sinks : log[p].event \in EventsOf(calls, s)
    /\ \A p, q \in DOMAIN log :
         p < q /\ calls[log[p].event].sink = calls[log[q].event].sink => ComesBefore(log[p], log[q])

(* An event for which there is room on the disk is whole in the log,       *)
(* whatever failed before it.  One for which there was none may be missing *)
(* or broken, and so the line it stands on; the first, if it fits into the *)
(* buffer, is in the log once a later call on its sink has room.           *)
EventsMeant(calls, s, log) ==
    \A i \in EventsOf(calls, s) :
      /\ calls[i].room = Plenty => InOnePiece(log, i, calls[i].size)
      /\ FirstToFail(calls, s, i)
           /\ (\E f \in Flushes(calls, s) : i <= f /\ calls[f].room = Plenty) =>
         \A k \in 1 .. calls[i].size + 1 : \E p \in DOMAIN log : log[p] = Unit(i, k)

(* The terminal shows nothing that is not whole in the log, and until the  *)
(* end all that is meant for it when nothing fails.  What fails to reach   *)
(* the log in its own call is not shown, even if it is in the log later:   *)
(* there the two diverge.  The closing line comes at most once and counts  *)
(* tool calls that are whole in the log, all of those that did not fail.   *)
TerminalMeant(calls, verbose, s, log, shown, closing) ==
    LET whole == {i \in EventsOf(calls, s) : InOnePiece(log, i, calls[i].size)}
        tools == {i \in BeforeEnd(calls, s) : calls[i].kind = "tool"}
    IN /\ Increasing(shown)
       /\ \A p \in DOMAIN shown : shown[p] \in whole /\ Visible(calls[shown[p]].kind, verbose)
       /\ \A i \in BeforeEnd(calls, s) :
            calls[i].room = Plenty /\ calls[i].term /\ Visible(calls[i].kind, verbose) =>
              \E p \in DOMAIN shown : shown[p] = i
       /\ closing # <<>> =>
            \E counted \in SUBSET (tools \cap whole) :
              /\ {i \in tools : calls[i].room = Plenty} \subseteq counted
              /\ closing = <<Cardinality(counted)>>
       /\ (\E f \in FinishOf(calls, s) : calls[f].room = Plenty /\ calls[f].term) => closing # <<>>

SinksMeant(calls, verbose, out) ==
    /\ LogMeant(calls, out.log)
    /\ \A s \in Sinks : /\ EventsMeant(calls, s, out.log)
                        /\ TerminalMeant(calls, verbose, s, out.log, out.shown[s], out.closing[s])
===============================================================================
