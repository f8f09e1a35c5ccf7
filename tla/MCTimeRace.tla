------------------------------ MODULE MCTimeRace ------------------------------
(***************************************************************************)
(* TimeRace with intervals of which one bridges the gap between the others *)
(* (no instants).                                                          *)
(***************************************************************************)
EXTENDS TimeRace

B(n, s, e) == [name |-> n, area |-> [start |-> s, end |-> e, minx |-> 0, maxx |-> 0]]

MCNames == {"a", "b", "c"}
MCCatalog == { B("a", 0, 2), B("b", 1, 4), B("c", 3, 5) }
===============================================================================
