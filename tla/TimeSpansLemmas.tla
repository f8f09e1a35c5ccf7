--------------------------- MODULE TimeSpansLemmas ---------------------------
(***************************************************************************)
(* Facts about spans, hulls and groups for every MaxTime and MaxX, on      *)
(* which the proofs about the time index rest, and two general ones: about *)
(* least and greatest numbers, and about folds over finite sets.           *)
(***************************************************************************)
EXTENDS TimeSpans, FiniteSets, FiniteSetTheorems, WellFoundedInduction, TLAPS

(***************************************************************************)
(* Least and greatest elements.  The least one exists because < is well    *)
(* founded on Nat; the greatest of S is n minus the least distance to n.   *)
(***************************************************************************)
LEMMA MinExists ==
  ASSUME NEW S \in SUBSET Nat, S # {}
  PROVE  \E x \in S : \A y \in S : x =< y
<1> DEFINE R == { p \in Nat \X Nat : p[1] < p[2] }
<1>1. IsWellFoundedOn(R, Nat)
  <2>1. R = OpToRel(<, Nat)
    BY Zenon DEF OpToRel
  <2> QED
    BY <2>1, NatLessThanWellFounded
<1>2. PICK x \in S : \A y \in S : ~(<<y, x>> \in R)
  <2> HIDE DEF R
  <2> QED
    BY <1>1, WFMin
<1>3. \A y \in S : y < x => <<y, x>> \in R
  OBVIOUS
<1>4. \A y \in S : ~(y < x)
  <2> HIDE DEF R
  <2> QED
    BY <1>2, <1>3
<1> QED
  BY <1>4

LEMMA MaxExists ==
  ASSUME NEW n \in Nat, NEW S \in SUBSET (0 .. n), S # {}
  PROVE  \E x \in S : \A y \in S : y =< x
<1> DEFINE D == { n - x : x \in S }
<1>1. D \in SUBSET Nat /\ D # {}
  <2>1. \A x \in S : n - x \in Nat
    OBVIOUS
  <2> QED
    BY <2>1
<1>2. PICK d \in D : \A e \in D : d =< e
  BY <1>1, MinExists
<1>3. PICK x \in S : d = n - x
  BY <1>2
<1>4. ASSUME NEW y \in S PROVE y =< x
  <2>1. d =< n - y
    BY <1>2
  <2>2. x \in Int /\ y \in Int
    OBVIOUS
  <2> QED
    BY <2>1, <2>2, <1>3
<1> QED
  BY <1>4

-----------------------------------------------------------------------------
(***************************************************************************)
(* A fold over a finite set is the value of a recursive function on its    *)
(* subsets, and TLA+ says no more of that than that it is some function    *)
(* that satisfies the recursion, if there is one.  There is: by induction  *)
(* on the number n of elements, one on all subsets of at most n.           *)
(***************************************************************************)
FoldOn(it, K, base, g, c) ==
  \A s \in K : it[s] = IF s = {} THEN base ELSE g[<<it[s \ {c[s]}], c[s]>>]

LEMMA FoldExists ==
  ASSUME NEW D, IsFiniteSet(D), NEW X, NEW base \in X, NEW g \in [X \X D -> X],
         NEW c, \A s \in SUBSET D : s # {} => c[s] \in s
  PROVE  \E it \in [SUBSET D -> X] : FoldOn(it, SUBSET D, base, g, c)
<1> DEFINE K(n) == { s \in SUBSET D : Cardinality(s) =< n }
           P(n) == \E it \in [K(n) -> X] : FoldOn(it, K(n), base, g, c)
           Bad == { n \in Nat : ~P(n) }
<1>0. \A s \in SUBSET D : IsFiniteSet(s) /\ Cardinality(s) \in Nat
  BY FS_Subset, FS_CardinalityType
<1>1. P(0)
  <2> DEFINE it == [s \in K(0) |-> base]
  <2>1. \A s \in K(0) : s = {}
    BY <1>0, FS_EmptySet
  <2>2. it \in [K(0) -> X] /\ \A s \in K(0) : it[s] = base
    OBVIOUS
  <2> HIDE DEF it
  <2> QED
    BY <2>1, <2>2 DEF FoldOn
<1>2. ASSUME NEW n \in Nat, P(n) PROVE P(n + 1)
  <2>1. PICK it \in [K(n) -> X] : FoldOn(it, K(n), base, g, c)
    BY <1>2
  <2> DEFINE to == [s \in K(n + 1) |-> IF Cardinality(s) =< n THEN it[s] ELSE g[<<it[s \ {c[s]}], c[s]>>]]
  <2>2. ASSUME NEW s \in K(n + 1), s # {}
        PROVE  s \ {c[s]} \in K(n) /\ s \ {c[s]} \in K(n + 1) /\ c[s] \in D
    <3>1. s \in SUBSET D /\ c[s] \in s /\ Cardinality(s) \in Nat /\ Cardinality(s) =< n + 1
      BY <1>0, <2>2
    <3>2. Cardinality(s \ {c[s]}) = Cardinality(s) - 1 /\ s \ {c[s]} \in SUBSET D
      BY <1>0, <3>1, FS_RemoveElement
    <3> QED
      BY <3>1, <3>2
  <2>3. \A s \in K(n + 1) : to[s] = IF Cardinality(s) =< n THEN it[s] ELSE g[<<it[s \ {c[s]}], c[s]>>]
    OBVIOUS
  <2>4. \A s \in K(n + 1) : Cardinality(s) =< n => s \in K(n)
    OBVIOUS
  <2>5. Cardinality({}) = 0
    BY FS_EmptySet
  <2> HIDE DEF K
  <2>6. ASSUME NEW s \in K(n + 1) PROVE to[s] \in X
    <3>1. CASE Cardinality(s) =< n
      BY <2>3, <2>4, <3>1
    <3>2. CASE ~(Cardinality(s) =< n)
      <4>1. s # {}
        <5> SUFFICES ASSUME s = {} PROVE FALSE
          OBVIOUS
        <5>1. Cardinality(s) = 0
          BY <2>5
        <5> QED
          BY <3>2, <5>1
      <4>2. it[s \ {c[s]}] \in X /\ c[s] \in D
        BY <2>2, <4>1
      <4>3. g[<<it[s \ {c[s]}], c[s]>>] \in X
        BY <4>2
      <4> QED
        BY <2>3, <3>2, <4>3
    <3> QED
      BY <3>1, <3>2
  <2>7. to \in [K(n + 1) -> X]
    BY <2>6
  <2>8. ASSUME NEW s \in K(n + 1)
        PROVE  to[s] = IF s = {} THEN base ELSE g[<<to[s \ {c[s]}], c[s]>>]
    <3>1. CASE s = {}
      BY <2>1, <2>3, <2>4, <2>5, <3>1 DEF FoldOn
    <3>2. CASE s # {}
      <4>1. s \ {c[s]} \in K(n) /\ s \ {c[s]} \in K(n + 1)
        BY <2>2, <3>2
      <4>2. Cardinality(s \ {c[s]}) =< n
        BY <4>1 DEF K
      <4>3. to[s \ {c[s]}] = it[s \ {c[s]}]
        BY <2>3, <4>1, <4>2
      <4>4. Cardinality(s) =< n => it[s] = g[<<it[s \ {c[s]}], c[s]>>]
        BY <2>1, <2>4, <3>2 DEF FoldOn
      <4> HIDE DEF to
      <4> QED
        BY <2>3, <3>2, <4>3, <4>4
    <3> QED
      BY <3>1, <3>2
  <2> HIDE DEF to
  <2> QED
    BY <2>7, <2>8 DEF FoldOn
<1> HIDE DEF P
<1>3. Bad = {}
  <2> SUFFICES ASSUME Bad # {} PROVE FALSE
    OBVIOUS
  <2>1. PICK n \in Bad : \A m \in Bad : n =< m
    BY MinExists
  <2>2. n \in Nat /\ ~P(n) /\ n # 0
    BY <1>1, <2>1
  <2>3. n - 1 \in Nat /\ ~(n =< n - 1) /\ (n - 1) + 1 = n
    BY <2>2
  <2>4. P(n - 1)
    BY <2>1, <2>3
  <2>5. P((n - 1) + 1)
    BY <1>2, <2>3, <2>4
  <2> QED
    BY <2>2, <2>3, <2>5
<1>4. P(Cardinality(D))
  <2>1. Cardinality(D) \in Nat
    BY FS_CardinalityType
  <2>2. \A n \in Nat : P(n)
    BY <1>3
  <2> QED
    BY <2>1, <2>2
<1>5. K(Cardinality(D)) = SUBSET D
  BY <1>0, FS_Subset
<1> HIDE DEF K
<1> QED
  BY <1>4, <1>5 DEF P

-----------------------------------------------------------------------------
LEMMA SpanTyping ==
  ASSUME NEW a \in Span
  PROVE  /\ a.start \in Int /\ a.end \in Int /\ a.minx \in Int /\ a.maxx \in Int
         /\ 0 =< a.start /\ a.start =< a.end /\ a.end =< MaxTime
         /\ 0 =< a.minx /\ a.minx =< a.maxx /\ a.maxx =< MaxX
BY BoundsAssumption DEF Span, Seconds, Columns

(***************************************************************************)
(* Every non-empty set of spans has a hull, so Hull is one.                *)
(***************************************************************************)
LEMMA HullExists ==
  ASSUME NEW S \in SUBSET Span, S # {}
  PROVE  \E h \in Span : IsHull(h, S)
<1>1. PICK s \in { a.start : a \in S } : \A y \in { a.start : a \in S } : s =< y
  <2>1. { a.start : a \in S } \in SUBSET Nat /\ { a.start : a \in S } # {}
    BY SpanTyping
  <2> QED
    BY <2>1, MinExists, Zenon
<1>2. PICK e \in { a.end : a \in S } : \A y \in { a.end : a \in S } : y =< e
  <2>1. { a.end : a \in S } \in SUBSET (0 .. MaxTime)
    BY SpanTyping
  <2>2. { a.end : a \in S } # {}
    OBVIOUS
  <2> QED
    BY <2>1, <2>2, MaxExists, BoundsAssumption, Zenon
<1>3. PICK x0 \in { a.minx : a \in S } : \A y \in { a.minx : a \in S } : x0 =< y
  <2>1. { a.minx : a \in S } \in SUBSET Nat /\ { a.minx : a \in S } # {}
    BY SpanTyping
  <2> QED
    BY <2>1, MinExists, Zenon
<1>4. PICK x1 \in { a.maxx : a \in S } : \A y \in { a.maxx : a \in S } : y =< x1
  <2>1. { a.maxx : a \in S } \in SUBSET (0 .. MaxX)
    BY SpanTyping
  <2>2. { a.maxx : a \in S } # {}
    OBVIOUS
  <2> QED
    BY <2>1, <2>2, MaxExists, BoundsAssumption, Zenon
<1> DEFINE h == [start |-> s, end |-> e, minx |-> x0, maxx |-> x1]
<1>5. PICK c \in S : TRUE
  OBVIOUS
<1>6. /\ s \in Seconds /\ e \in Seconds /\ x0 \in Columns /\ x1 \in Columns
  BY <1>1, <1>2, <1>3, <1>4 DEF Span
<1>7. s =< e /\ x0 =< x1
  <2>1. s =< c.start /\ c.end =< e /\ x0 =< c.minx /\ c.maxx =< x1
    BY <1>1, <1>2, <1>3, <1>4
  <2> QED
    BY <2>1, <1>6, SpanTyping, BoundsAssumption DEF Seconds, Columns
<1>8. h \in Span
  BY <1>6, <1>7 DEF Span
<1>9. IsHull(h, S)
  BY <1>1, <1>2, <1>3, <1>4 DEF IsHull
<1> QED
  BY <1>8, <1>9

LEMMA HullIsHull ==
  ASSUME NEW S \in SUBSET Span, S # {}
  PROVE  Hull(S) \in Span /\ IsHull(Hull(S), S)
BY HullExists DEF Hull

LEMMA HullContains ==
  ASSUME NEW S \in SUBSET Span, NEW a \in S
  PROVE  Within(a, Hull(S))
BY HullIsHull DEF IsHull, Within

-----------------------------------------------------------------------------
(***************************************************************************)
(* Being connected within a set of areas is an equivalence.                *)
(***************************************************************************)
LEMMA ConnectedReflexive ==
  ASSUME NEW A \in SUBSET Span, NEW a \in A
  PROVE  Connected(a, a, A)
BY SpanTyping, BoundsAssumption DEF Connected, Bridged, Seconds

LEMMA ConnectedSymmetric ==
  ASSUME NEW A, NEW a, NEW c, Connected(a, c, A)
  PROVE  Connected(c, a, A)
BY DEF Connected

LEMMA BridgedTransitive ==
  ASSUME NEW A \in SUBSET Span, NEW a \in A, NEW b \in A, NEW c \in A,
         Bridged(a, b, A), Bridged(b, c, A)
  PROVE  Bridged(a, c, A)
<1> SUFFICES ASSUME NEW t \in Seconds, a.end =< t, t < c.start
             PROVE  \E d \in A : d.start =< t /\ t < d.end
  BY DEF Bridged
<1>1. t \in Int /\ b.start \in Int /\ b.end \in Int
  BY SpanTyping, BoundsAssumption DEF Seconds
<1>2. CASE t < b.start
  BY <1>2 DEF Bridged
<1>3. CASE b.end =< t
  BY <1>3 DEF Bridged
<1>4. CASE b.start =< t /\ t < b.end
  BY <1>4
<1> QED
  BY <1>1, <1>2, <1>3, <1>4

LEMMA ConnectedTransitive ==
  ASSUME NEW A \in SUBSET Span, NEW a \in A, NEW b \in A, NEW c \in A,
         Connected(a, b, A), Connected(b, c, A)
  PROVE  Connected(a, c, A)
BY BridgedTransitive DEF Connected

LEMMA GroupsPartition ==
  ASSUME NEW A \in SUBSET Span, NEW a \in A, NEW c \in GroupOf(a, A)
  PROVE  GroupOf(c, A) = GroupOf(a, A)
<1>1. c \in A /\ Connected(a, c, A) /\ Connected(c, a, A)
  BY ConnectedSymmetric DEF GroupOf
<1>2. ASSUME NEW d \in A PROVE Connected(a, d, A) <=> Connected(c, d, A)
  BY <1>1, ConnectedTransitive
<1> QED
  BY <1>2 DEF GroupOf

(***************************************************************************)
(* A group is connected without the help of the other groups.              *)
(***************************************************************************)
LEMMA CrossingIsConnected ==
  ASSUME NEW A \in SUBSET Span, NEW a \in A, NEW c \in A, NEW d \in A,
         Bridged(a, c, A), NEW t \in Seconds,
         a.end =< t, t < c.start, d.start =< t, t < d.end
  PROVE  Connected(a, d, A)
<1>1. ASSUME NEW s \in Seconds, a.end =< s, s < d.start
      PROVE  \E e \in A : e.start =< s /\ s < e.end
  <2>1. s < c.start
    BY <1>1, SpanTyping, BoundsAssumption DEF Seconds
  <2> QED
    BY <2>1, <1>1 DEF Bridged
<1>2. ASSUME NEW s \in Seconds, d.end =< s, s < a.start
      PROVE  FALSE
  BY <1>2, SpanTyping, BoundsAssumption DEF Seconds
<1> QED
  BY <1>1, <1>2 DEF Connected, Bridged

LEMMA GroupBridged ==
  ASSUME NEW A \in SUBSET Span, NEW x \in A,
         NEW a \in GroupOf(x, A), NEW c \in GroupOf(x, A)
  PROVE  Bridged(a, c, GroupOf(x, A))
<1>1. a \in A /\ c \in A /\ Connected(x, a, A) /\ Connected(a, c, A)
  <2>1. a \in A /\ c \in A /\ Connected(x, a, A) /\ Connected(x, c, A)
    BY DEF GroupOf
  <2> QED
    BY <2>1, ConnectedSymmetric, ConnectedTransitive
<1> SUFFICES ASSUME NEW t \in Seconds, a.end =< t, t < c.start
             PROVE  \E d \in GroupOf(x, A) : d.start =< t /\ t < d.end
  BY DEF Bridged
<1>2. PICK d \in A : d.start =< t /\ t < d.end
  BY <1>1 DEF Connected, Bridged
<1>3. Connected(a, d, A)
  BY <1>1, <1>2, CrossingIsConnected DEF Connected
<1>4. d \in GroupOf(x, A)
  BY <1>1, <1>3, ConnectedTransitive DEF GroupOf
<1> QED
  BY <1>2, <1>4

LEMMA GroupConnected ==
  ASSUME NEW A \in SUBSET Span, NEW x \in A,
         NEW a \in GroupOf(x, A), NEW c \in GroupOf(x, A)
  PROVE  Connected(a, c, GroupOf(x, A))
BY GroupBridged DEF Connected

(***************************************************************************)
(* Different groups lie on different sides of a gap, hulls included.       *)
(***************************************************************************)
LEMMA GapSeparates ==
  ASSUME NEW A \in SUBSET Span, NEW a \in A, NEW c \in A, ~Bridged(a, c, A)
  PROVE  \E t \in Seconds : /\ \A x \in GroupOf(a, A) : x.end =< t
                            /\ \A y \in GroupOf(c, A) : t < y.start
<1>1. PICK t \in Seconds : /\ a.end =< t /\ t < c.start
                           /\ \A d \in A : ~(d.start =< t /\ t < d.end)
  BY DEF Bridged
<1>2. ASSUME NEW x \in GroupOf(a, A) PROVE x.end =< t
  <2>1. x \in A /\ Bridged(a, x, A)
    BY DEF GroupOf, Connected
  <2>2. ~(t < x.start)
    BY <1>1, <2>1 DEF Bridged
  <2> QED
    BY <1>1, <2>1, <2>2, SpanTyping, BoundsAssumption DEF Seconds
<1>3. ASSUME NEW y \in GroupOf(c, A) PROVE t < y.start
  <2>1. y \in A /\ Bridged(y, c, A)
    BY DEF GroupOf, Connected
  <2>2. ~(y.end =< t)
    BY <1>1, <2>1 DEF Bridged
  <2> QED
    BY <1>1, <2>1, <2>2, SpanTyping, BoundsAssumption DEF Seconds
<1> QED
  BY <1>2, <1>3

LEMMA GroupHull ==
  ASSUME NEW A \in SUBSET Span, NEW a \in A
  PROVE  /\ a \in GroupOf(a, A) /\ GroupOf(a, A) \subseteq A
         /\ Hull(GroupOf(a, A)) \in Span
         /\ IsHull(Hull(GroupOf(a, A)), GroupOf(a, A))
<1>1. a \in GroupOf(a, A) /\ GroupOf(a, A) \subseteq A
  BY ConnectedReflexive DEF GroupOf
<1> QED
  BY <1>1, HullIsHull

LEMMA GroupHullsApart ==
  ASSUME NEW A \in SUBSET Span, NEW a \in A, NEW c \in A,
         GroupOf(a, A) # GroupOf(c, A)
  PROVE  ~Meets(Hull(GroupOf(a, A)), Hull(GroupOf(c, A)))
<1> DEFINE ga == GroupOf(a, A)
           gc == GroupOf(c, A)
<1>1. /\ Hull(ga) \in Span /\ IsHull(Hull(ga), ga)
      /\ Hull(gc) \in Span /\ IsHull(Hull(gc), gc)
  BY GroupHull
<1>2. ~Bridged(a, c, A) \/ ~Bridged(c, a, A)
  BY GroupsPartition DEF GroupOf, Connected
<1>3. \E t \in Seconds : \/ Hull(ga).end =< t /\ t < Hull(gc).start
                         \/ Hull(gc).end =< t /\ t < Hull(ga).start
  <2> HIDE DEF ga, gc
  <2>1. CASE ~Bridged(a, c, A)
    BY <2>1, <1>1, GapSeparates DEF IsHull, ga, gc
  <2>2. CASE ~Bridged(c, a, A)
    BY <2>2, <1>1, GapSeparates DEF IsHull, ga, gc
  <2> QED
    BY <1>2, <2>1, <2>2
<1> HIDE DEF ga, gc
<1>4. ~Meets(Hull(ga), Hull(gc))
  BY <1>1, <1>3, SpanTyping, BoundsAssumption DEF Meets, Seconds
<1> QED
  BY <1>4 DEF ga, gc

=============================================================================
