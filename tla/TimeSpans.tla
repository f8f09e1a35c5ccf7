------------------------------ MODULE TimeSpans ------------------------------
(***************************************************************************)
(* The geometry of the MapCache time index, shared by every module that    *)
(* works on it.                                                            *)
(*                                                                         *)
(* A span is what both databases store about a browse or a Time entry: a   *)
(* closed time interval and a bounding box.  Times are counted in seconds  *)
(* (MapCache keeps no fraction) and the box is kept in one dimension: the  *)
(* code treats the y axis exactly as the x axis.                           *)
(*                                                                         *)
(* Source: ngeo_browse_server/control/queries.py                           *)
(***************************************************************************)
EXTENDS Integers

CONSTANTS MaxTime,    \* the last second of the modelled period
          MaxX        \* the last map column

ASSUME BoundsAssumption == MaxTime \in Nat /\ MaxX \in Nat

Seconds == 0 .. MaxTime
Columns == 0 .. MaxX

\* The rows of mapcache_models.Time and the time/extent part of a browse.
Span == { a \in [start : Seconds, end : Seconds, minx : Columns, maxx : Columns] :
            a.start =< a.end /\ a.minx =< a.maxx }

-----------------------------------------------------------------------------
(* Selection of rows by time *)

IsInstant(a) == a.start = a.end

\* The closed intervals share a moment.
Meets(a, c) == a.start =< c.end /\ a.end >= c.start

\* The open intervals share a moment.
StrictlyOverlaps(a, c) == a.start < c.end /\ a.end > c.start

\* The query create_browse and remove_browse run against the Time table and,
\* with the roles exchanged, against the Browse table: intervals that only
\* touch are different entries, an instant belongs to whatever it touches.
Overlaps(a, c) ==
  \/ StrictlyOverlaps(a, c)
  \/ (IsInstant(a) \/ IsInstant(c)) /\ Meets(a, c)

Overlapping(S, a) == { t \in S : Overlaps(t, a) }

-----------------------------------------------------------------------------
(* Merging of rows *)

\* h is the smallest time interval and bounding box around all of S.
IsHull(h, S) ==
  /\ \A a \in S : /\ h.start =< a.start /\ a.end =< h.end
                  /\ h.minx =< a.minx   /\ a.maxx =< h.maxx
  /\ \E a \in S : h.start = a.start
  /\ \E a \in S : h.end = a.end
  /\ \E a \in S : h.minx = a.minx
  /\ \E a \in S : h.maxx = a.maxx

Hull(S) == CHOOSE h \in Span : IsHull(h, S)

Within(a, h) == /\ h.start =< a.start /\ a.end =< h.end
                /\ h.minx =< a.minx   /\ a.maxx =< h.maxx

-----------------------------------------------------------------------------
(* Grouping: remove_browse splits what is left of a Time entry into groups *)
(* of browses connected by closed intersection.  On a line two areas are   *)
(* connected iff no second between them is a gap, i.e. iff every t after   *)
(* the end of the one and before the start of the other is crossed by some *)
(* area of the set.  (TimeGrouping checks that the loop of the code        *)
(* computes exactly these groups.)                                         *)

Bridged(a, c, A) ==
  \A t \in Seconds : a.end =< t /\ t < c.start => \E d \in A : d.start =< t /\ t < d.end

Connected(a, c, A) == Bridged(a, c, A) /\ Bridged(c, a, A)

GroupOf(a, A) == { c \in A : Connected(a, c, A) }

Groups(A) == { GroupOf(a, A) : a \in A }

=============================================================================
