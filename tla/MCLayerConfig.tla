---------------------------- MODULE MCLayerConfig -----------------------------
(***************************************************************************)
(* LayerConfig with two processes, which change the same two layers in     *)
(* opposite orders, by three requests altogether.                          *)
(***************************************************************************)
EXTENDS LayerConfig, TLC

CONSTANTS p, q, x, y

Short(L) == { <<>> } \cup { <<l>> : l \in L } \cup { <<k, l>> : k, l \in L }

\* Requests that list a layer once.
Requests(L) ==
  { r \in [add : Short(L), remove : Short(L), version : Version] :
      LET all == r.add \o r.remove IN
        all # <<>> /\ \A i, j \in DOMAIN all : all[i] = all[j] => i = j }

\* Both processes change the same layers, in opposite orders.
OppositeOrders ==
  [proc \in Proc |->
     { r \in Requests(Layer) :
         /\ r.version = IF proc = p THEN 1 ELSE 2
         /\ r.add \in { <<>>, <<x>>, IF proc = p THEN <<x, y>> ELSE <<y, x>> }
         /\ r.remove \in { <<>>, IF proc = p THEN <<x>> ELSE <<y>> } }]
===============================================================================
