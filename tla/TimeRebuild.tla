----------------------------- MODULE TimeRebuild ------------------------------
(***************************************************************************)
(* The command that writes a new MapCache database from the browses of the *)
(* main one.  It goes once through the times of a layer in their order and *)
(* compares each with the last interval only, whereas create_browse and    *)
(* remove_browse maintain the Time table one browse at a time.             *)
(*                                                                         *)
(* Columns lie east of Greenwich here, so that the extents need no shift   *)
(* by 360 degrees, and every record has an extent.                         *)
(*                                                                         *)
(* Source: .../management/commands/ngeo_sync_mapcache_db.py                *)
(***************************************************************************)
EXTENDS TimeIndex, SequencesExt

\* The ORDER BY of the query.
Before(a, c) == a.start < c.start \/ (a.start = c.start /\ a.end < c.end)
LastOf(S) == CHOOSE a \in S : \A c \in S : c = a \/ Before(c, a)

\* Browses of the same time are one row.
SameTime(S, a) == { c \in S : c.start = a.start /\ c.end = a.end }
UniqueTimes(S) == { Hull(SameTime(S, a)) : a \in S }

\* Fault: the end of the last interval is replaced.
AddReplacing(intervals, a) ==
  IF intervals # <<>> /\ Overlaps(Last(intervals), a)
    THEN Append(Front(intervals), [Hull({Last(intervals), a}) EXCEPT !.end = a.end])
    ELSE Append(intervals, a)

\* One iteration: if it overlaps the last interval it is merged with it.
Add(intervals, a) ==
  IF intervals # <<>> /\ Overlaps(Last(intervals), a)
    THEN Append(Front(intervals), Hull({Last(intervals), a}))
    ELSE Append(intervals, a)

\* The Time entries written for a layer: the last unique time is added to the intervals
\* made of those before it.
Intervals(S) ==
  MapThenFoldSet(LAMBDA a, intervals : Add(intervals, a), <<>>, LAMBDA a : a, LastOf, S)
Rebuilt(B) == ToSet(Intervals(UniqueTimes(Areas(B))))

-----------------------------------------------------------------------------
(* Properties *)

\* "Synchronizes the MapCache SQLite DB": after any history of ingestions and deletions
\* what is written are the entries there are; only what remove_browse has put into one
\* entry although it is continuous (ContinuousNotMerged) gets several.
RebuildAgrees ==
  /\ \A t \in Rebuilt(browses) : \E u \in times : Within(t, u)
  /\ ContinuousNotMerged => Rebuilt(browses) = times

===============================================================================
