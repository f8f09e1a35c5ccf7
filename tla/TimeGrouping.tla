----------------------------- MODULE TimeGrouping -----------------------------
(***************************************************************************)
(* The loop with which remove_browse divides the browses left in the time  *)
(* span of a deleted Time entry into groups, each of which gets an entry   *)
(* of its own.  It takes the browses in the order in which the database    *)
(* returns them, which is not defined, joins each with the groups it       *)
(* meets, and merges these groups.                                         *)
(*                                                                         *)
(* TimeIndex uses the groups as they are defined in TimeSpans.             *)
(*                                                                         *)
(* Source: ngeo_browse_server/control/queries.py (remove_browse)           *)
(***************************************************************************)
EXTENDS TimeSpans

CONSTANT Item       \* browses in the time span of the deleted entry

VARIABLES areas,    \* their extents and time slices
          visited,  \* those the loop has been through
          groups    \* the groups so far

vars == <<areas, visited, groups>>

AreasOf(g) == { areas[i] : i \in g }

\* Fault: areas that only touch a group are not joined with it.
OverlapsGroup(i, g) == \E k \in g : StrictlyOverlaps(areas[i], areas[k])

IntersectsWithGroup(i, g) == \E k \in g : Meets(areas[i], areas[k])

ToBeMerged(i) == { g \in groups : IntersectsWithGroup(i, g) }

\* One iteration.
Visit(i) ==
  /\ i \notin visited
  /\ visited' = visited \cup {i}
  /\ groups' = (groups \ ToBeMerged(i)) \cup { (UNION ToBeMerged(i)) \cup {i} }
  /\ UNCHANGED areas

\* The loop is over: each group becomes a Time entry.
End == visited = Item /\ UNCHANGED vars

Init ==
  /\ areas \in [Item -> Span]
  /\ visited = {} /\ groups = {}

Next == (\E i \in Item : Visit(i)) \/ End

Spec == Init /\ [][Next]_vars

-----------------------------------------------------------------------------
(* Properties *)

TypeOK ==
  /\ areas \in [Item -> Span]
  /\ visited \subseteq Item
  /\ groups \subseteq SUBSET Item

\* Each area visited is in one group, whatever was merged before.
Partition ==
  /\ UNION groups = visited
  /\ \A g, h \in groups : g \cap h # {} => g = h

\* Whatever the order of the rows, the groups are those of the definition used by
\* TimeIndex: two areas share one exactly if there is no gap between them.
GroupsAreConnected == { AreasOf(g) : g \in groups } = Groups(AreasOf(visited))

\* The Time entries made of the groups have no moment in common.
EntriesApart ==
  \A g, h \in groups : g # h => ~Meets(Hull(AreasOf(g)), Hull(AreasOf(h)))

===============================================================================
