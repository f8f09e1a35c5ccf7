----------------------------- MODULE MCTimeIndex -----------------------------
(***************************************************************************)
(* Catalogs of browses on which TLC checks TimeIndex and TimeRebuild.  A   *)
(* catalog holds the time relations the code distinguishes (apart,         *)
(* touching, overlapping, containing, equal; interval and instant) and     *)
(* second versions of a browse under the same name, so that replacing      *)
(* moves it in time.                                                       *)
(***************************************************************************)
EXTENDS TimeRebuild

B(n, s, e, x0, x1) ==
  [name |-> n, area |-> [start |-> s, end |-> e, minx |-> x0, maxx |-> x1]]

\* Neighbours that touch, intervals that bridge them, instants inside
\* intervals, twice the same moment, and apart from everything.
InnerCatalog ==
  { B("a", 0, 2, 0, 0), B("a", 7, 7, 0, 1), B("b", 2, 4, 1, 1), B("c", 0, 4, 0, 1),
    B("c", 4, 6, 1, 1), B("d", 1, 1, 0, 0), B("d", 3, 3, 1, 1), B("e", 3, 3, 0, 1),
    B("e", 2, 6, 0, 0), B("f", 7, 7, 0, 0) }

ASSUME InnerHasNoBorderInstants == Catalog = InnerCatalog => NoBorderInstants

\* Instants on the border of intervals.
BorderCatalog ==
  { B("a", 0, 2, 0, 0), B("b", 2, 2, 1, 1), B("c", 2, 4, 0, 1), B("d", 1, 3, 0, 0),
    B("e", 4, 4, 0, 0), B("f", 4, 6, 1, 1),
    B("g", 1, 1, 0, 0) }

MCNames == {"a", "b", "c", "d", "e", "f", "g"}
=============================================================================
