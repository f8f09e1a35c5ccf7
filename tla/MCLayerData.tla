----------------------------- MODULE MCLayerData ------------------------------
(***************************************************************************)
(* LayerData for three browses of which one bridges the gap between the    *)
(* others; one may be replaced by another image and one by one of another  *)
(* time.  Three requests, commands or faults; the first two commands may   *)
(* overlap.                                                                *)
(***************************************************************************)
EXTENDS LayerData, TLC

CONSTANTS p, q

B(n, s, e, x) ==
  [name |-> n, area |-> [start |-> s, end |-> e, minx |-> 0, maxx |-> x]]

a1 == B("a", 0, 2, 0)
a2 == B("a", 0, 2, 1)
b1 == B("b", 1, 4, 0)
c1 == B("c", 3, 5, 0)
c2 == B("c", 0, 1, 0)

MCNames == {"a", "b", "c"}
MCCatalog == {a1, a2, b1, c1, c2}
MCUpload == {"u1", "u2", "u3", "u4", "u5", "u6"}
MCStarts == { {c1}, {a1, c1}, {b1, c1} }
MCWindows == { [start |-> 1, end |-> 5] }

Symmetry == Permutations({p, q})
===============================================================================
