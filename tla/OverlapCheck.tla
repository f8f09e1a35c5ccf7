----------------------------- MODULE OverlapCheck -----------------------------
(***************************************************************************)
(* The command that tells to which interval the Time entry of a browse     *)
(* with a given time would extend: it looks for the first browse of the    *)
(* layer that the time overlaps and goes on from there to both sides, as   *)
(* long as two neighbours overlap.  Only times matter here.                *)
(*                                                                         *)
(* Source: .../management/commands/ngeo_check_overlapping_time.py          *)
(***************************************************************************)
EXTENDS TimeSpans, Sequences

\* The ORDER BY of the query, which leaves out what is there twice.
Before(a, c) == a.start < c.start \/ (a.start = c.start /\ a.end < c.end)
Sorted(s) == \A i, j \in DOMAIN s : i < j => Before(s[i], s[j])

CONSTANT Layers       \* the times of the browses a layer may have, ordered

ASSUME LayersAssumption ==
  \A s \in Layers : s \in Seq(Span) /\ s # <<>> /\ Sorted(s)

VARIABLES
  rows,               \* the browses of the layer
  query,              \* the time that is asked for
  pc,                 \* the loop that is running
  index,              \* where the first loop is
  current_index,      \* where the other loops are
  merged_start, merged_end

scanvars == <<rows, query, pc, index, current_index, merged_start, merged_end>>

\* The rule of create_browse.
WasMerged(a, c) == Overlaps(c, a)

-----------------------------------------------------------------------------
ScanInit ==
  /\ rows \in Layers /\ query \in Span
  /\ pc = "find" /\ index = 1 /\ current_index = 1
  /\ merged_start = query.start /\ merged_end = query.end

SkipRow ==
  /\ pc = "find" /\ index =< Len(rows)
  /\ ~WasMerged(query, rows[index])
  /\ index' = index + 1
  /\ UNCHANGED <<rows, query, pc, current_index, merged_start, merged_end>>

NotFound ==
  /\ pc = "find" /\ index > Len(rows)
  /\ pc' = "done"
  /\ UNCHANGED <<rows, query, index, current_index, merged_start, merged_end>>

\* The first browse that the time overlaps.
Found ==
  /\ pc = "find" /\ index =< Len(rows)
  /\ WasMerged(query, rows[index])
  /\ current_index' = index
  /\ pc' = "backward"
  /\ UNCHANGED <<rows, query, index, merged_start, merged_end>>

\* "still found intersection, move one left in list"
MoveLeft ==
  /\ pc = "backward"
  /\ current_index > 1 /\ WasMerged(rows[current_index], rows[current_index - 1])
  /\ current_index' = current_index - 1
  /\ UNCHANGED <<rows, query, pc, index, merged_start, merged_end>>

\* Fault: the start of the first browse found is taken.
SaveFirstStart ==
  /\ pc = "backward"
  /\ current_index > 1 => ~WasMerged(rows[current_index], rows[current_index - 1])
  /\ merged_start' = rows[index].start
  /\ current_index' = index
  /\ pc' = "forward"
  /\ UNCHANGED <<rows, query, index, merged_end>>

\* "no intersection, save start_time", or "reached start of list"
SaveStart ==
  /\ pc = "backward"
  /\ current_index > 1 => ~WasMerged(rows[current_index], rows[current_index - 1])
  /\ merged_start' = rows[current_index].start
  /\ current_index' = index
  /\ pc' = "forward"
  /\ UNCHANGED <<rows, query, index, merged_end>>

MoveRight ==
  /\ pc = "forward"
  /\ current_index < Len(rows) /\ WasMerged(rows[current_index], rows[current_index + 1])
  /\ current_index' = current_index + 1
  /\ UNCHANGED <<rows, query, pc, index, merged_start, merged_end>>

SaveEnd ==
  /\ pc = "forward"
  /\ current_index < Len(rows) => ~WasMerged(rows[current_index], rows[current_index + 1])
  /\ merged_end' = rows[current_index].end
  /\ pc' = "done"
  /\ UNCHANGED <<rows, query, index, current_index, merged_start>>

\* The result is returned.
ScanDone == pc = "done" /\ UNCHANGED scanvars

ScanNext ==
  \/ SkipRow \/ NotFound \/ Found
  \/ MoveLeft \/ SaveStart \/ MoveRight \/ SaveEnd
  \/ ScanDone

ScanSpec == ScanInit /\ [][ScanNext]_scanvars

-----------------------------------------------------------------------------
(* Properties *)

\* A browse was found that the time overlaps.
Hit == pc = "done" /\ index =< Len(rows)

Merged == [start |-> merged_start, end |-> merged_end]

\* The browses end in the order in which they start.  In other layers the search may stop
\* too early: a short browse inside of a long one hides what the long one overlaps, and
\* its end.
EndInOrder == \A i, j \in DOMAIN rows : i < j => rows[i].end =< rows[j].end

\* Nothing is returned that browses do not fill: the interval begins and ends with one,
\* and every second inside of it is inside of one, if only at its border as an instant.
Filled ==
  /\ \E i \in DOMAIN rows : rows[i].start = merged_start
  /\ \E i \in DOMAIN rows : rows[i].end = merged_end
  /\ \A t \in merged_start + 1 .. merged_end - 1 :
       \E i \in DOMAIN rows : \/ rows[i].start < t /\ t < rows[i].end
                              \/ IsInstant(rows[i]) /\ rows[i].start = t

\* A browse that overlaps the interval is inside of it.
Whole ==
  \A i \in DOMAIN rows :
    Overlaps(rows[i], Merged) => merged_start =< rows[i].start /\ rows[i].end =< merged_end

\* "Returns the full time interval" (ngeo_check_overlapping_time.py:58): a cascade of
\* browses and nothing else, and the whole of it unless a browse ends after a later one;
\* the time as it is exactly if no browse overlaps it.
FullInterval ==
  /\ Hit => Filled /\ (EndInOrder => Whole)
  /\ pc = "done" /\ ~Hit => /\ merged_start = query.start /\ merged_end = query.end
                           /\ \A i \in DOMAIN rows : ~Overlaps(rows[i], query)
===============================================================================
