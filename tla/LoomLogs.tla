------------------------------- MODULE LoomLogs -------------------------------
(***************************************************************************)
(* Per-bead logs: the UTC stamp in a log's name (logging/time.rs), which   *)
(* file `loom logs` shows (logs_cmd.rs) and which files the retention      *)
(* sweep removes (logging/retention.rs).  The program writes no log yet    *)
(* and calls no sweep; `loom logs` is wired.  Beside the stamp stands the  *)
(* other clock of the repository, that of tmux-mcp's audit log.            *)
(***************************************************************************)
EXTENDS Integers, Sequences, FiniteSets

(***************************************************************************)
(* Stamps                                                                  *)
(***************************************************************************)
Date(y, m, d) == [year |-> y, month |-> m, day |-> d]

(* Mutant: January and February stay in the year that began in March.      *)
MarchYears(days) ==
    LET z == days + 719468
        doe == z % 146097
        yoe == (doe - doe \div 1460 + doe \div 36524 - doe \div 146096) \div 365
        doy == doe - (365 * yoe + yoe \div 4 - yoe \div 100)
        mp == (5 * doy + 2) \div 153
    IN Date(yoe + (z \div 146097) * 400, IF mp < 10 THEN mp + 3 ELSE mp - 9,
            doy - (153 * mp + 2) \div 5 + 1)
CivilFromDays(days) ==
    LET z == days + 719468
        era == z \div 146097
        doe == z % 146097
        yoe == (doe - doe \div 1460 + doe \div 36524 - doe \div 146096) \div 365
        doy == doe - (365 * yoe + yoe \div 4 - yoe \div 100)
        mp == (5 * doy + 2) \div 153
        m == IF mp < 10 THEN mp + 3 ELSE mp - 9
    IN Date(yoe + era * 400 + (IF m <= 2 THEN 1 ELSE 0), m,
            doy - (153 * mp + 2) \div 5 + 1)

(* The seconds since the epoch come as days and the rest: TLC's integers   *)
(* are narrower than u64.                                                  *)
UtcParts(days, tod) ==
    [date |-> CivilFromDays(days), hour |-> tod \div 3600,
     minute |-> (tod % 3600) \div 60, second |-> tod % 60]

(* The calendar and the clock, one second on.                              *)
Leap(y) == y % 4 = 0 /\ (y % 100 # 0 \/ y % 400 = 0)
Days(y, m) ==
    IF m = 2 THEN (IF Leap(y) THEN 29 ELSE 28) ELSE IF m \in {4, 6, 9, 11} THEN 30 ELSE 31
NextDay(date) ==
    IF date.day < Days(date.year, date.month) THEN [date EXCEPT !.day = @ + 1]
    ELSE IF date.month < 12 THEN Date(date.year, date.month + 1, 1)
    ELSE Date(date.year + 1, 1, 1)
NextSecond(t) ==
    IF t.second < 59 THEN [t EXCEPT !.second = @ + 1]
    ELSE IF t.minute < 59 THEN [t EXCEPT !.second = 0, !.minute = @ + 1]
    ELSE IF t.hour < 23 THEN [t EXCEPT !.second = 0, !.minute = 0, !.hour = @ + 1]
    ELSE [date |-> NextDay(t.date), hour |-> 0, minute |-> 0, second |-> 0]
Epoch == [date |-> Date(1970, 1, 1), hour |-> 0, minute |-> 0, second |-> 0]

(* The audit log of tmux-mcp has an algorithm of its own                   *)
(* (AuditEntry::timestamp_parts, tmux-mcp/src/audit.rs): years are counted *)
(* off from 1970, then months.                                             *)
FirstDayOf[y \in Nat] ==
    IF y <= 1970 THEN 0 ELSE FirstDayOf[y - 1] + (IF Leap(y - 1) THEN 366 ELSE 365)
AuditYear(days) ==
    CHOOSE y \in 1970 + days \div 366 .. 1970 + days \div 365 :
        FirstDayOf[y] <= days /\ days < FirstDayOf[y + 1]
DaysBefore(y, m) ==
    LET before[k \in 1 .. 12] == IF k = 1 THEN 0 ELSE before[k - 1] + Days(y, k - 1)
    IN before[m]
AuditParts(days, tod) ==
    LET y == AuditYear(days)
        rest == days - FirstDayOf[y]
        m == CHOOSE k \in 1 .. 12 : DaysBefore(y, k) <= rest /\ rest < DaysBefore(y, k) + Days(y, k)
    IN [date |-> Date(y, m, rest - DaysBefore(y, m) + 1), hour |-> tod \div 3600,
        minute |-> (tod % 3600) \div 60, second |-> tod % 60]

(***************************************************************************)
(* Which log is shown.  A directory entry has a kind and an mtime; "wx-1"  *)
(* and "wx-10" are logs of the beads of those names, "other" a file that   *)
(* is no log.                                                              *)
(***************************************************************************)
EntryKinds == {"wx-1", "wx-10", "other", "directory"}
Times == 0 .. 2
Entries == [kind : EntryKinds, mtime : Times]

Belongs(entry, bead) ==
    entry.kind \in {"wx-1", "wx-10"} /\ (bead = "any" \/ entry.kind = bead)

(* Of the candidates the first in a stable sort by falling mtime.  <<>> is *)
(* the error that there is no log.                                         *)
Precedes(entries, i, j) ==
    \/ entries[i].mtime > entries[j].mtime
    \/ entries[i].mtime = entries[j].mtime /\ i <= j
SelectLog(entries, bead) ==
    LET candidates == {i \in DOMAIN entries : Belongs(entries[i], bead)}
    IN IF candidates = {} THEN <<>>
       ELSE <<CHOOSE i \in candidates : \A j \in candidates : Precedes(entries, i, j)>>

NewestShown(entries, bead, found) ==
    LET logs == {i \in DOMAIN entries :
                   entries[i].kind \in (IF bead = "any" THEN {"wx-1", "wx-10"} ELSE {bead})}
    IN /\ found = <<>> <=> logs = {}
       /\ \A k \in DOMAIN found :
            found[k] \in logs /\ \A i \in logs : entries[i].mtime <= entries[found[k]].mtime

(***************************************************************************)
(* The sweep, in days: files by mtime, the day it runs, the retention and  *)
(* the files that cannot be removed.                                       *)
(***************************************************************************)
Sweep(files, now, retention, stuck) ==
    LET old == IF retention = 0 THEN {}
               ELSE {i \in DOMAIN files : files[i] < now - retention}
    IN [deleted |-> old \ stuck, failed |-> old \cap stuck]

SweepMeant(files, now, retention, stuck, report) ==
    /\ retention = 0 => report.deleted = {} /\ report.failed = {}
    /\ \A i \in DOMAIN files :
         /\ now - files[i] <= retention => i \notin report.deleted
         /\ retention > 0 /\ now - files[i] > retention =>
              i \in report.deleted \cup report.failed
    /\ report.deleted \cap stuck = {}
===============================================================================
