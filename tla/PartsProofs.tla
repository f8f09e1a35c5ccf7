------------------------------ MODULE PartsProofs ------------------------------
(***************************************************************************)
(* Proofs about the parts of the server that share no state with others    *)
(* (MCParts checks the same properties of small instances), in this order: *)
(*                                                                         *)
(* TimeGrouping: the loop of remove_browse computes the groups of the      *)
(*   definition for any number of browses, any times and any order.  The   *)
(*   heart of it is what one more area changes: it is connected with what  *)
(*   is connected with an area it meets, and connects any two of these.    *)
(* OverlapCheck: the command finds a chain of browses that goes on to no   *)
(*   side, and what such a chain has inside and around it.                 *)
(* SwiftStorage: what the tries that failed have in common as long as no   *)
(*   answer was lost.                                                      *)
(* QueueMonitor: the samples kept of a queue fall while time goes on.      *)
(* NgeoConfig: what the file, the copies in memory and the requests under  *)
(*   way agree upon.                                                       *)
(* UsageReports: what the rows of a report add up to, and which lines may  *)
(*   still come into a file that was counted.                              *)
(* BrowseArea: where the longitudes of a browse go that crosses the date   *)
(*   line, against a course that goes the short way at each step, and what *)
(*   rounding does to a time that is shortened.                            *)
(***************************************************************************)
EXTENDS TimeGrouping, OverlapCheck, SwiftStorage, QueueMonitor, NgeoConfig,
        UsageReports, BrowseArea, TimeSpansLemmas, SequenceTheorems, FunctionTheorems,
        FiniteSetTheorems, TLAPS

-----------------------------------------------------------------------------
(* Grouping: one more area                                                 *)

LEMMA BridgedMonotone ==
  ASSUME NEW A, NEW B, A \subseteq B, NEW a, NEW c, Bridged(a, c, A)
  PROVE  Bridged(a, c, B)
BY DEF Bridged

LEMMA MeetingIsConnected ==
  ASSUME NEW a \in Span, NEW c \in Span, Meets(a, c), NEW A
  PROVE  Connected(a, c, A)
BY SpanTyping, BoundsAssumption DEF Meets, Connected, Bridged, Seconds

\* An area before the new one and connected with it ...
LEMMA NeighbourBefore ==
  ASSUME NEW A \in SUBSET Span, NEW a \in Span, NEW c \in A,
         Bridged(c, a, A \cup {a}), c.end < a.start
  PROVE  \E e \in A : Meets(a, e) /\ Connected(c, e, A)
<1>1. a.start - 1 \in Seconds /\ c.end =< a.start - 1 /\ a.start - 1 < a.start
  BY SpanTyping, BoundsAssumption DEF Seconds
<1>2. PICK e \in A \cup {a} : e.start =< a.start - 1 /\ a.start - 1 < e.end
  BY <1>1, Zenon DEF Bridged
<1>3. e \in A
  BY <1>2, SpanTyping
<1>4. Meets(a, e)
  BY <1>2, <1>3, SpanTyping DEF Meets
<1>5. Bridged(c, e, A)
  <2> SUFFICES ASSUME NEW t \in Seconds, c.end =< t, t < e.start
               PROVE  \E d \in A : d.start =< t /\ t < d.end
    BY DEF Bridged
  <2>1. t < a.start /\ ~(a.start =< t)
    BY <1>2, <1>3, SpanTyping, BoundsAssumption DEF Seconds
  <2>2. PICK d \in A \cup {a} : d.start =< t /\ t < d.end
    BY <2>1 DEF Bridged
  <2> QED
    BY <2>1, <2>2
<1>6. Bridged(e, c, A)
  BY <1>2, <1>3, SpanTyping, BoundsAssumption DEF Bridged, Seconds
<1> QED
  BY <1>3, <1>4, <1>5, <1>6 DEF Connected

\* ... or after it is so through an area that the new one meets.
LEMMA NeighbourAfter ==
  ASSUME NEW A \in SUBSET Span, NEW a \in Span, NEW c \in A,
         Bridged(a, c, A \cup {a}), a.end < c.start
  PROVE  \E e \in A : Meets(a, e) /\ Connected(c, e, A)
<1>1. a.end \in Seconds /\ a.end =< a.end
  BY SpanTyping, BoundsAssumption DEF Seconds
<1>2. PICK e \in A \cup {a} : e.start =< a.end /\ a.end < e.end
  BY <1>1, Zenon DEF Bridged
<1>3. e \in A
  BY <1>2, SpanTyping
<1>4. Meets(a, e)
  BY <1>2, <1>3, SpanTyping DEF Meets
<1>5. Bridged(e, c, A)
  <2> SUFFICES ASSUME NEW t \in Seconds, e.end =< t, t < c.start
               PROVE  \E d \in A : d.start =< t /\ t < d.end
    BY DEF Bridged
  <2>1. a.end =< t /\ ~(t < a.end)
    BY <1>2, <1>3, SpanTyping, BoundsAssumption DEF Seconds
  <2>2. PICK d \in A \cup {a} : d.start =< t /\ t < d.end
    BY <2>1 DEF Bridged
  <2> QED
    BY <2>1, <2>2
<1>6. Bridged(c, e, A)
  BY <1>2, <1>3, SpanTyping, BoundsAssumption DEF Bridged, Seconds
<1> QED
  BY <1>3, <1>4, <1>5, <1>6 DEF Connected

LEMMA ConnectedWithNew ==
  ASSUME NEW A \in SUBSET Span, NEW a \in Span, NEW c \in A
  PROVE  Connected(c, a, A \cup {a}) <=> \E e \in A : Meets(a, e) /\ Connected(c, e, A)
<1>1. ASSUME Connected(c, a, A \cup {a})
      PROVE  \E e \in A : Meets(a, e) /\ Connected(c, e, A)
  <2>1. CASE Meets(a, c)
    BY <2>1, ConnectedReflexive
  <2>2. CASE c.end < a.start
    BY <1>1, <2>2, NeighbourBefore DEF Connected
  <2>3. CASE a.end < c.start
    BY <1>1, <2>3, NeighbourAfter DEF Connected
  <2> QED
    BY <2>1, <2>2, <2>3, SpanTyping DEF Meets
<1>2. ASSUME NEW e \in A, Meets(a, e), Connected(c, e, A)
      PROVE  Connected(c, a, A \cup {a})
  <2>1. Connected(a, e, A \cup {a})
    BY <1>2, MeetingIsConnected
  <2>2. Connected(c, e, A \cup {a})
    BY <1>2, BridgedMonotone DEF Connected
  <2> QED
    BY <2>1, <2>2, ConnectedSymmetric, ConnectedTransitive
<1> QED
  BY <1>1, <1>2

\* Two areas that a gap separates without the new one.
LEMMA ConnectedThroughNew ==
  ASSUME NEW A \in SUBSET Span, NEW a \in Span, NEW c \in A, NEW d \in A,
         Bridged(c, d, A \cup {a}), ~Bridged(c, d, A)
  PROVE  Connected(c, a, A \cup {a})
<1>1. PICK t \in Seconds : /\ c.end =< t /\ t < d.start
                           /\ \A e \in A : ~(e.start =< t /\ t < e.end)
  BY DEF Bridged
<1>2. a.start =< t /\ t < a.end
  BY <1>1 DEF Bridged
<1> QED
  BY <1>1, <1>2, CrossingIsConnected

LEMMA ConnectedWithOneMore ==
  ASSUME NEW A \in SUBSET Span, NEW a \in Span, NEW c \in A, NEW d \in A
  PROVE  Connected(c, d, A \cup {a})
           <=> \/ Connected(c, d, A)
               \/ Connected(c, a, A \cup {a}) /\ Connected(d, a, A \cup {a})
<1> DEFINE B == A \cup {a}
<1>0. B \in SUBSET Span /\ a \in B /\ c \in B /\ d \in B
  OBVIOUS
<1>1. ASSUME Connected(c, d, B), ~Connected(c, d, A)
      PROVE  Connected(c, a, B) /\ Connected(d, a, B)
  <2>1. Connected(c, a, B) \/ Connected(d, a, B)
    BY <1>1, ConnectedThroughNew DEF Connected
  <2>2. Connected(d, c, B)
    BY <1>1, ConnectedSymmetric
  <2> HIDE DEF B
  <2> QED
    BY <1>0, <1>1, <2>1, <2>2, ConnectedTransitive
<1>2. ASSUME Connected(c, a, B), Connected(d, a, B)
      PROVE  Connected(c, d, B)
  <2> HIDE DEF B
  <2> QED
    BY <1>0, <1>2, ConnectedSymmetric, ConnectedTransitive
<1>3. ASSUME Connected(c, d, A) PROVE Connected(c, d, B)
  BY <1>3, BridgedMonotone DEF Connected
<1> QED
  BY <1>1, <1>2, <1>3

-----------------------------------------------------------------------------
(* Grouping: the loop                                                      *)

\* A group has the areas visited that are connected with any of its own.
GroupsDefined ==
  \A g \in groups :
    /\ g # {}
    /\ \A i \in g, j \in visited :
         j \in g <=> Connected(areas[i], areas[j], AreasOf(visited))

IInv == TypeOK /\ Partition /\ GroupsDefined

\* What is merged are the areas that are connected with the new one.
LEMMA MergedAreConnected ==
  ASSUME IInv, NEW i \in Item, i \notin visited, NEW j \in visited
  PROVE  j \in UNION ToBeMerged(i)
           <=> Connected(areas[j], areas[i], AreasOf(visited) \cup {areas[i]})
<1> DEFINE A == AreasOf(visited)
           a == areas[i]
<1>0. /\ A \in SUBSET Span /\ a \in Span /\ areas[j] \in A
      /\ \A k \in visited : areas[k] \in A
  BY DEF IInv, TypeOK, AreasOf
<1>1. PICK g \in groups : j \in g
  BY DEF IInv, Partition
<1>2. ASSUME NEW h \in ToBeMerged(i), j \in h
      PROVE  Connected(areas[j], a, A \cup {a})
  <2>1. PICK k \in h : Meets(a, areas[k])
    BY DEF ToBeMerged, IntersectsWithGroup
  <2>2. h \in groups /\ k \in visited
    BY DEF ToBeMerged, IInv, Partition
  <2>3. Connected(areas[j], areas[k], A)
    BY <1>2, <2>2 DEF IInv, GroupsDefined
  <2> HIDE DEF A, a
  <2> QED
    BY <1>0, <2>1, <2>2, <2>3, ConnectedWithNew
<1>3. ASSUME Connected(areas[j], a, A \cup {a})
      PROVE  g \in ToBeMerged(i)
  <2>1. PICK e \in A : Meets(a, e) /\ Connected(areas[j], e, A)
    <3> HIDE DEF A, a
    <3> QED
      BY <1>0, <1>3, ConnectedWithNew
  <2>2. PICK k \in visited : e = areas[k]
    BY DEF AreasOf
  <2>3. k \in g
    BY <1>1, <2>1, <2>2 DEF IInv, GroupsDefined
  <2> QED
    BY <2>1, <2>2, <2>3 DEF ToBeMerged, IntersectsWithGroup
<1> QED
  BY <1>1, <1>2, <1>3

LEMMA VisitInv ==
  ASSUME IInv, NEW i \in Item, Visit(i)
  PROVE  IInv'
<1> DEFINE A == AreasOf(visited)
           a == areas[i]
           M == UNION ToBeMerged(i)
<1>0. /\ i \notin visited /\ visited' = visited \cup {i} /\ areas' = areas
      /\ groups' = (groups \ ToBeMerged(i)) \cup {M \cup {i}}
  BY DEF Visit
<1>1. TypeOK'
  BY <1>0 DEF IInv, TypeOK, ToBeMerged
<1>2. /\ UNION groups = visited /\ ToBeMerged(i) \subseteq groups
      /\ \A g, h \in groups : g \cap h # {} => g = h
  BY DEF IInv, Partition, ToBeMerged
<1>3. Partition'
  <2>1. UNION groups' = visited'
    <3>1. UNION groups' = (UNION (groups \ ToBeMerged(i))) \cup (M \cup {i})
      BY <1>0
    <3>2. (UNION (groups \ ToBeMerged(i))) \cup M = UNION groups
      BY <1>2
    <3> QED
      BY <1>0, <1>2, <3>1, <3>2
  <2>2. \A g \in groups' : g = M \cup {i} \/ (g \in groups /\ g \cap (M \cup {i}) = {})
    BY <1>0, <1>2
  <2> QED
    BY <1>2, <2>1, <2>2 DEF Partition
<1>4. AreasOf(visited)' = A \cup {a}
  BY <1>0 DEF AreasOf
<1>5. /\ A \in SUBSET Span /\ a \in Span
      /\ \A k \in visited : areas[k] \in A
  BY DEF IInv, TypeOK, AreasOf
<1>6. \A j \in visited : j \in M <=> Connected(areas[j], a, A \cup {a})
  BY <1>0, MergedAreConnected
<1>7. \A j, k \in visited :
        Connected(areas[j], areas[k], A \cup {a})
          <=> Connected(areas[j], areas[k], A) \/ (j \in M /\ k \in M)
  <2> HIDE DEF A, a, M
  <2> QED
    BY <1>5, <1>6, ConnectedWithOneMore
<1>8. ASSUME NEW g \in groups', NEW j \in g, NEW k \in visited'
      PROVE  k \in g <=> Connected(areas[j], areas[k], A \cup {a})
  <2>1. CASE g \in groups \ ToBeMerged(i)
    <3>1. j \in visited /\ g \subseteq visited
      BY <2>1, <1>2
    <3>2. j \notin M
      BY <2>1, <1>2
    <3>3. CASE k = i
      BY <3>1, <3>2, <3>3, <1>0, <1>6
    <3>4. CASE k \in visited
      <4>1. k \in g <=> Connected(areas[j], areas[k], A)
        BY <2>1, <3>4 DEF IInv, GroupsDefined
      <4> QED
        BY <3>1, <3>2, <3>4, <4>1, <1>7
    <3> QED
      BY <1>0, <3>3, <3>4
  <2>2. CASE g = M \cup {i}
    <3>1. M \subseteq visited
      BY <1>2
    <3>2. CASE j = i /\ k = i
      <4>1. Connected(a, a, A \cup {a})
        <5> HIDE DEF A, a
        <5> QED
          BY <1>5, ConnectedReflexive
      <4> QED
        BY <2>2, <3>2, <4>1
    <3>3. CASE j = i /\ k \in visited
      BY <2>2, <3>3, <1>0, <1>6, ConnectedSymmetric
    <3>4. CASE j \in M /\ k = i
      BY <2>2, <3>1, <3>4, <1>6
    <3>5. CASE j \in M /\ k \in visited
      <4>1. PICK h \in ToBeMerged(i) : j \in h
        BY <3>5
      <4>2. Connected(areas[j], areas[k], A) => k \in M
        BY <1>2, <3>5, <4>1 DEF IInv, GroupsDefined
      <4> QED
        BY <2>2, <1>0, <1>7, <3>1, <3>5, <4>2
    <3> QED
      BY <2>2, <1>0, <3>2, <3>3, <3>4, <3>5
  <2> QED
    BY <1>0, <2>1, <2>2
<1>9. \A g \in groups' : g # {}
  BY <1>0 DEF IInv, GroupsDefined
<1>10. GroupsDefined'
  <2>1. ASSUME NEW g \in groups', NEW j \in g, NEW k \in visited'
        PROVE  k \in g <=> Connected(areas'[j], areas'[k], AreasOf(visited)')
    <3>1. k \in g <=> Connected(areas[j], areas[k], A \cup {a})
      BY <1>8
    <3>2. areas' = areas
      BY <1>0
    <3> QED
      BY <1>4, <3>1, <3>2, Zenon
  <2> QED
    BY <1>9, <2>1 DEF GroupsDefined
<1> QED
  BY <1>1, <1>3, <1>10 DEF IInv

LEMMA Invariance == Spec => []IInv
<1>1. Init => IInv
  BY DEF Init, IInv, TypeOK, Partition, GroupsDefined
<1>2. IInv /\ [Next]_vars => IInv'
  <2> SUFFICES ASSUME IInv, [Next]_vars PROVE IInv'
    OBVIOUS
  <2>1. CASE \E i \in Item : Visit(i)
    BY <2>1, VisitInv
  <2>2. CASE UNCHANGED vars
    <3>1. AreasOf(visited)' = AreasOf(visited)
      BY <2>2 DEF AreasOf, vars
    <3> QED
      BY <2>2, <3>1 DEF IInv, TypeOK, Partition, GroupsDefined, vars
  <2> QED
    BY <2>1, <2>2 DEF Next, End
<1> QED
  BY <1>1, <1>2, PTL DEF Spec

\* Type correctness of the loop.
THEOREM TypeCorrect == Spec => []TypeOK
<1>1. IInv => TypeOK
  BY DEF IInv
<1> QED
  BY <1>1, Invariance, PTL

\* Each area visited is in one group: none is lost when groups are merged.
THEOREM GroupsPartitionVisited == Spec => []Partition
<1>1. IInv => Partition
  BY DEF IInv
<1> QED
  BY <1>1, Invariance, PTL

\* A group is that of any of its areas.
LEMMA GroupOfItem ==
  ASSUME IInv, NEW g \in groups, NEW i \in g
  PROVE  AreasOf(g) = GroupOf(areas[i], AreasOf(visited))
<1>1. g \subseteq visited
  BY DEF IInv, Partition
<1>2. \A j \in visited : j \in g <=> Connected(areas[i], areas[j], AreasOf(visited))
  BY DEF IInv, GroupsDefined
<1> QED
  BY <1>1, <1>2 DEF AreasOf, GroupOf

\* The loop computes the groups of the definition, in whatever order the rows come.
THEOREM LoopComputesGroups == Spec => []GroupsAreConnected
<1>1. IInv => GroupsAreConnected
  <2> SUFFICES ASSUME IInv PROVE GroupsAreConnected
    OBVIOUS
  <2>1. ASSUME NEW g \in groups PROVE AreasOf(g) \in Groups(AreasOf(visited))
    <3>1. PICK i \in g : TRUE
      BY DEF IInv, GroupsDefined
    <3>2. areas[i] \in AreasOf(visited)
      BY DEF IInv, Partition, AreasOf
    <3> QED
      BY <3>2, GroupOfItem DEF Groups
  <2>2. ASSUME NEW c \in AreasOf(visited)
        PROVE  \E g \in groups : AreasOf(g) = GroupOf(c, AreasOf(visited))
    <3>1. PICK i \in visited : c = areas[i]
      BY DEF AreasOf
    <3>2. PICK g \in groups : i \in g
      BY DEF IInv, Partition
    <3> QED
      BY <3>1, <3>2, GroupOfItem
  <2> QED
    BY <2>1, <2>2 DEF GroupsAreConnected, Groups
<1> QED
  BY <1>1, Invariance, PTL

\* The Time entries made of the groups have no moment in common.
THEOREM EntriesOfLoopApart == Spec => []EntriesApart
<1>1. IInv => EntriesApart
  <2> SUFFICES ASSUME IInv, NEW g \in groups, NEW h \in groups, g # h
               PROVE  ~Meets(Hull(AreasOf(g)), Hull(AreasOf(h)))
    BY DEF EntriesApart
  <2> DEFINE A == AreasOf(visited)
  <2>1. PICK i \in g, j \in h : TRUE
    BY DEF IInv, GroupsDefined
  <2>2. i \in visited /\ j \in visited /\ j \notin g
    BY DEF IInv, Partition
  <2>3. A \in SUBSET Span /\ areas[i] \in A /\ areas[j] \in A
    BY <2>2 DEF IInv, TypeOK, AreasOf
  <2>4. ~Connected(areas[i], areas[j], A)
    BY <2>2 DEF IInv, GroupsDefined
  <2>5. GroupOf(areas[i], A) # GroupOf(areas[j], A)
    <3> HIDE DEF A
    <3> QED
      BY <2>3, <2>4, ConnectedReflexive DEF GroupOf
  <2>6. ~Meets(Hull(GroupOf(areas[i], A)), Hull(GroupOf(areas[j], A)))
    <3> HIDE DEF A
    <3> QED
      BY <2>3, <2>5, GroupHullsApart
  <2> QED
    BY <2>6, GroupOfItem
<1> QED
  BY <1>1, Invariance, PTL

-----------------------------------------------------------------------------
(* Overlap check: a chain of browses                                       *)

\* The browses of r from the one to the other overlap, each the next one.
Chain(r, from, to) == \A i \in from .. to - 1 : Overlaps(r[i], r[i + 1])

\* The chain goes no further to the left, or to the right.
LeftEnd(r, i) == i > 1 => ~Overlaps(r[i - 1], r[i])
RightEnd(r, i) == i < Len(r) => ~Overlaps(r[i], r[i + 1])

LEMMA RowTyping ==
  ASSUME NEW r \in Layers
  PROVE  /\ r \in Seq(Span) /\ Len(r) \in Nat \ {0} /\ DOMAIN r = 1 .. Len(r)
         /\ \A i \in 1 .. Len(r) :
              /\ r[i] \in Span
              /\ r[i].start \in Nat /\ r[i].end \in Nat /\ r[i].start =< r[i].end
<1>1. r \in Seq(Span) /\ r # << >>
  BY LayersAssumption
<1>2. \A i \in 1 .. Len(r) : r[i] \in Span
  BY <1>1, ElementOfSeq
<1> QED
  BY <1>1, <1>2, SpanTyping, LenProperties, EmptySeq

LEMMA RowsAscend ==
  ASSUME NEW r \in Layers, NEW i \in 1 .. Len(r), NEW j \in 1 .. Len(r), i =< j
  PROVE  r[i].start =< r[j].start
<1>1. i < j => Before(r[i], r[j])
  BY LayersAssumption, RowTyping DEF Sorted
<1> QED
  BY <1>1, RowTyping DEF Before

LEMMA OverlapsSymmetric ==
  ASSUME NEW a \in Span, NEW c \in Span, Overlaps(a, c)
  PROVE  Overlaps(c, a)
BY SpanTyping DEF Overlaps, StrictlyOverlaps, Meets, IsInstant

\* Between the start of the first and the end of the last no second is left out: the last
\* browse that begins before it does not end before it, or the next one is an instant there.
LEMMA ChainFills ==
  ASSUME NEW r \in Layers, NEW lo \in 1 .. Len(r), NEW hi \in 1 .. Len(r),
         lo =< hi, Chain(r, lo, hi)
  PROVE  \A t \in Int :
           r[lo].start < t /\ t < r[hi].end =>
             \E i \in 1 .. Len(r) : \/ r[i].start < t /\ t < r[i].end
                                    \/ IsInstant(r[i]) /\ r[i].start = t
<1> SUFFICES ASSUME NEW t \in Int, r[lo].start < t, t < r[hi].end
             PROVE  \E i \in 1 .. Len(r) : \/ r[i].start < t /\ t < r[i].end
                                           \/ IsInstant(r[i]) /\ r[i].start = t
  OBVIOUS
<1>1. Len(r) \in Nat
  BY RowTyping
<1>2. PICK K : K = { i \in lo .. hi : r[i].start < t }
  OBVIOUS
<1>3. K \in SUBSET (0 .. Len(r)) /\ lo \in K
  BY <1>1, <1>2
<1>4. PICK m \in K : \A i \in K : i =< m
  BY <1>1, <1>3, MaxExists
<1>5. m \in 1 .. Len(r) /\ lo =< m /\ m =< hi /\ r[m].start < t
  BY <1>1, <1>2, <1>4
<1>6. r[m].start \in Nat /\ r[m].end \in Nat /\ r[m].start =< r[m].end
  BY <1>5, RowTyping
<1>7. CASE t < r[m].end
  BY <1>5, <1>7
<1>8. CASE ~(t < r[m].end)
  <2>1. m # hi
    BY <1>8
  <2>2. PICK n \in 1 .. Len(r) : n = m + 1 /\ n =< hi
    BY <1>1, <1>5, <2>1
  <2>3. r[n].start \in Nat /\ r[n].end \in Nat /\ r[n].start =< r[n].end
    BY RowTyping
  <2>4. ~(r[n].start < t)
    <3>1. n \in lo .. hi /\ ~(n =< m)
      BY <1>1, <1>5, <2>2
    <3> QED
      BY <1>2, <1>4, <3>1
  <2>5. Overlaps(r[m], r[n])
    BY <1>1, <1>5, <2>2 DEF Chain
  <2>6. IsInstant(r[n]) /\ r[n].start = t
    BY <1>5, <1>6, <1>8, <2>3, <2>4, <2>5 DEF Overlaps, StrictlyOverlaps, Meets, IsInstant
  <2> QED
    BY <2>6
<1> QED
  BY <1>7, <1>8

\* Browses that end in the order in which they begin, and do not overlap, follow each other.
LEMMA Follows ==
  ASSUME NEW a \in Span, NEW c \in Span, a.start =< c.start, a.end =< c.end,
         ~Overlaps(a, c)
  PROVE  a.end < c.start \/ (a.end = c.start /\ ~IsInstant(a) /\ ~IsInstant(c))
BY SpanTyping DEF Overlaps, StrictlyOverlaps, Meets, IsInstant

\* What overlaps the whole chain belongs to it.
LEMMA ChainIsWhole ==
  ASSUME NEW r \in Layers, NEW lo \in 1 .. Len(r), NEW hi \in 1 .. Len(r), lo =< hi,
         \A i, j \in 1 .. Len(r) : i < j => r[i].end =< r[j].end,
         LeftEnd(r, lo), RightEnd(r, hi),
         NEW m, m = [start |-> r[lo].start, end |-> r[hi].end],
         NEW i \in 1 .. Len(r), Overlaps(r[i], m)
  PROVE  r[lo].start =< r[i].start /\ r[i].end =< r[hi].end
<1>1. /\ Len(r) \in Nat
      /\ \A k \in 1 .. Len(r) : /\ r[k] \in Span /\ r[k].start \in Nat /\ r[k].end \in Nat
                                /\ r[k].start =< r[k].end
  BY RowTyping
<1>2. \A k, l \in 1 .. Len(r) : k =< l => r[k].start =< r[l].start /\ r[k].end =< r[l].end
  <2> SUFFICES ASSUME NEW k \in 1 .. Len(r), NEW l \in 1 .. Len(r), k =< l
               PROVE  r[k].start =< r[l].start /\ r[k].end =< r[l].end
    OBVIOUS
  <2>1. r[k].start =< r[l].start
    BY RowsAscend
  <2>2. r[k].end =< r[l].end
    <3>1. k = l \/ k < l
      BY <1>1
    <3> QED
      BY <1>1, <3>1
  <2> QED
    BY <2>1, <2>2
<1>3. m.start = r[lo].start /\ m.end = r[hi].end
  OBVIOUS
<1>4. CASE lo =< i /\ i =< hi
  BY <1>2, <1>4
<1>5. CASE i < lo
  <2>1. PICK p \in 1 .. Len(r) : p = lo - 1 /\ i =< p
    BY <1>1, <1>5
  <2>2. r[p].end < r[lo].start \/ (r[p].end = r[lo].start /\ ~IsInstant(r[p]) /\ ~IsInstant(r[lo]))
    <3>1. ~Overlaps(r[p], r[lo])
      BY <1>1, <1>5, <2>1 DEF LeftEnd
    <3>2. p =< lo
      BY <1>1, <2>1
    <3> QED
      BY <1>1, <1>2, <3>1, <3>2, Follows
  <2>3. r[i].start =< r[p].start /\ r[i].end =< r[p].end
    BY <1>2, <2>1
  <2>4. r[lo].end =< r[hi].end
    BY <1>2
  <2> QED
    BY <1>1, <1>3, <2>2, <2>3, <2>4, SMTT(30) DEF Overlaps, StrictlyOverlaps, Meets, IsInstant
<1>6. CASE hi < i
  <2>1. PICK n \in 1 .. Len(r) : n = hi + 1 /\ n =< i
    BY <1>1, <1>6
  <2>2. r[hi].end < r[n].start \/ (r[hi].end = r[n].start /\ ~IsInstant(r[hi]) /\ ~IsInstant(r[n]))
    <3>1. ~Overlaps(r[hi], r[n])
      BY <1>1, <1>6, <2>1 DEF RightEnd
    <3>2. hi =< n
      BY <1>1, <2>1
    <3> QED
      BY <1>1, <1>2, <3>1, <3>2, Follows
  <2>3. r[n].start =< r[i].start /\ r[n].end =< r[i].end
    BY <1>2, <2>1
  <2>4. r[lo].start =< r[hi].start
    BY <1>2
  <2> QED
    BY <1>1, <1>3, <2>2, <2>3, <2>4, SMTT(30) DEF Overlaps, StrictlyOverlaps, Meets, IsInstant
<1> QED
  BY <1>1, <1>4, <1>5, <1>6

-----------------------------------------------------------------------------
(* Overlap check: the loops                                                *)

ScanTypeOK ==
  /\ rows \in Layers /\ query \in Span
  /\ pc \in {"find", "backward", "forward", "done"}
  /\ index \in 1 .. Len(rows) + 1 /\ current_index \in 1 .. Len(rows)
  /\ pc \in {"backward", "forward"} => index =< Len(rows)

\* No browse before the one looked at overlaps the time, and the time is unchanged.
NoneBefore ==
  pc = "find" \/ (pc = "done" /\ index > Len(rows)) =>
    /\ merged_start = query.start /\ merged_end = query.end
    /\ \A i \in 1 .. index - 1 : ~Overlaps(rows[i], query)

ChainLeft == pc = "backward" => current_index =< index /\ Chain(rows, current_index, index)

\* The start is that of the chain which ends at the browse that was found.
StartOfChain ==
  pc = "forward" \/ Hit =>
    \E lo \in 1 .. index : /\ Chain(rows, lo, index) /\ LeftEnd(rows, lo)
                           /\ merged_start = rows[lo].start

ChainRight == pc = "forward" => index =< current_index /\ Chain(rows, index, current_index)

EndOfChain ==
  Hit => \E hi \in index .. Len(rows) : /\ Chain(rows, index, hi) /\ RightEnd(rows, hi)
                                        /\ merged_end = rows[hi].end

ScanInv ==
  ScanTypeOK /\ NoneBefore /\ ChainLeft /\ StartOfChain /\ ChainRight /\ EndOfChain

LEMMA ScanInit_Inv ==
  ASSUME ScanInit PROVE ScanInv
<1>1. Len(rows) \in Nat \ {0} /\ \A i \in 1 .. index - 1 : FALSE
  BY RowTyping DEF ScanInit
<1> QED
  BY <1>1 DEF ScanInit, ScanInv, ScanTypeOK, NoneBefore, ChainLeft, StartOfChain,
              ChainRight, EndOfChain, Hit

LEMMA ChainOfOne ==
  ASSUME NEW r, NEW i \in Nat PROVE Chain(r, i, i)
BY DEF Chain

LEMMA ScanNext_Inv ==
  ASSUME ScanInv, [ScanNext]_scanvars
  PROVE  ScanInv'
<1> USE DEF ScanInv
<1>1. /\ rows \in Layers /\ Len(rows) \in Nat \ {0} /\ query \in Span
      /\ \A i \in 1 .. Len(rows) : rows[i] \in Span
      /\ index \in 1 .. Len(rows) + 1 /\ current_index \in 1 .. Len(rows)
      /\ index \in Nat /\ current_index \in Nat
  BY RowTyping DEF ScanTypeOK
<1>2. CASE SkipRow
  <2>1. ScanTypeOK'
    BY <1>1, <1>2 DEF SkipRow, ScanTypeOK
  <2>2. \A i \in 1 .. index' - 1 : i \in 1 .. index - 1 \/ i = index
    BY <1>1, <1>2 DEF SkipRow
  <2>3. NoneBefore'
    BY <1>2, <2>2 DEF SkipRow, NoneBefore, WasMerged
  <2> QED
    BY <1>2, <2>1, <2>3 DEF SkipRow, ChainLeft, StartOfChain, ChainRight, EndOfChain, Hit
<1>3. CASE NotFound
  <2>1. ScanTypeOK'
    BY <1>1, <1>3 DEF NotFound, ScanTypeOK
  <2>2. NoneBefore'
    BY <1>3 DEF NotFound, NoneBefore
  <2>3. ~Hit' /\ pc' = "done"
    BY <1>1, <1>3 DEF NotFound, Hit
  <2> QED
    BY <2>1, <2>2, <2>3 DEF ChainLeft, StartOfChain, ChainRight, EndOfChain
<1>4. CASE Found
  <2>1. ScanTypeOK'
    BY <1>1, <1>4 DEF Found, ScanTypeOK
  <2>2. ChainLeft'
    BY <1>1, <1>4 DEF Found, ChainLeft, Chain
  <2> QED
    BY <1>4, <2>1, <2>2 DEF Found, NoneBefore, StartOfChain, ChainRight, EndOfChain, Hit
<1>5. CASE MoveLeft
  <2>1. ScanTypeOK'
    BY <1>1, <1>5 DEF MoveLeft, ScanTypeOK
  <2>2. Overlaps(rows[current_index - 1], rows[current_index])
    BY <1>5 DEF MoveLeft, WasMerged
  <2>3. \A i \in current_index' .. index - 1 : i \in current_index .. index - 1 \/ i = current_index - 1
    BY <1>1, <1>5 DEF MoveLeft
  <2>4. ChainLeft'
    <3>1. current_index =< index /\ Chain(rows, current_index, index)
      BY <1>5 DEF ChainLeft, MoveLeft
    <3>2. current_index' =< index
      BY <1>1, <1>5, <3>1 DEF MoveLeft
    <3>3. Chain(rows, current_index', index)
      <4> SUFFICES ASSUME NEW i \in current_index' .. index - 1
                   PROVE  Overlaps(rows[i], rows[i + 1])
        BY DEF Chain
      <4>1. CASE i \in current_index .. index - 1
        BY <3>1, <4>1 DEF Chain
      <4>2. CASE i = current_index - 1
        <5>1. i + 1 = current_index
          BY <1>1, <4>2
        <5> QED
          BY <2>2, <4>2, <5>1
      <4> QED
        BY <2>3, <4>1, <4>2
    <3> QED
      BY <1>5, <3>2, <3>3 DEF ChainLeft, MoveLeft
  <2> QED
    BY <1>5, <2>1, <2>4 DEF MoveLeft, NoneBefore, StartOfChain, ChainRight, EndOfChain, Hit
<1>6. CASE SaveStart
  <2>1. ScanTypeOK'
    BY <1>1, <1>6 DEF SaveStart, ScanTypeOK
  <2>2. current_index =< index /\ Chain(rows, current_index, index)
    BY <1>6 DEF ChainLeft, SaveStart
  <2>3. LeftEnd(rows, current_index)
    BY <1>6 DEF SaveStart, WasMerged, LeftEnd
  <2>4. StartOfChain'
    <3>1. current_index \in 1 .. index
      BY <1>1, <2>2
    <3>2. \E lo \in 1 .. index : /\ Chain(rows, lo, index) /\ LeftEnd(rows, lo)
                                 /\ merged_start' = rows[lo].start
      BY <1>6, <2>2, <2>3, <3>1 DEF SaveStart
    <3> QED
      BY <1>6, <3>2 DEF SaveStart, StartOfChain
  <2>5. ChainRight'
    BY <1>1, <1>6, ChainOfOne DEF SaveStart, ChainRight
  <2> QED
    BY <1>6, <2>1, <2>4, <2>5 DEF SaveStart, NoneBefore, ChainLeft, EndOfChain, Hit
<1>7. CASE MoveRight
  <2>1. ScanTypeOK'
    BY <1>1, <1>7 DEF MoveRight, ScanTypeOK
  <2>2. Overlaps(rows[current_index], rows[current_index + 1])
    <3>1. rows[current_index] \in Span /\ rows[current_index + 1] \in Span
      BY <1>1, <1>7 DEF MoveRight
    <3> QED
      BY <1>7, <3>1, OverlapsSymmetric DEF MoveRight, WasMerged
  <2>3. index =< current_index /\ Chain(rows, index, current_index)
    BY <1>7 DEF ChainRight, MoveRight
  <2>4. \A i \in index .. current_index' - 1 : i \in index .. current_index - 1 \/ i = current_index
    BY <1>1, <1>7 DEF MoveRight
  <2>5. index =< current_index' /\ Chain(rows, index, current_index')
    BY <1>1, <1>7, <2>2, <2>3, <2>4 DEF MoveRight, Chain
  <2>6. ChainRight'
    BY <1>7, <2>5 DEF ChainRight, MoveRight
  <2>7. StartOfChain'
    BY <1>7 DEF StartOfChain, MoveRight, Hit
  <2> QED
    BY <1>7, <2>1, <2>6, <2>7 DEF MoveRight, NoneBefore, ChainLeft, EndOfChain, Hit
<1>8. CASE SaveEnd
  <2>1. ScanTypeOK'
    BY <1>1, <1>8 DEF SaveEnd, ScanTypeOK
  <2>2. index =< Len(rows)
    BY <1>8 DEF SaveEnd, ScanTypeOK
  <2>3. index =< current_index /\ Chain(rows, index, current_index)
    BY <1>8 DEF ChainRight, SaveEnd
  <2>4. RightEnd(rows, current_index)
    <3> SUFFICES ASSUME current_index < Len(rows)
                 PROVE  ~Overlaps(rows[current_index], rows[current_index + 1])
      BY DEF RightEnd
    <3>1. rows[current_index] \in Span /\ rows[current_index + 1] \in Span
      BY <1>1
    <3> QED
      BY <1>8, <3>1, OverlapsSymmetric DEF SaveEnd, WasMerged
  <2>5. EndOfChain'
    <3>1. current_index \in index .. Len(rows)
      BY <1>1, <2>3
    <3>2. \E hi \in index .. Len(rows) : /\ Chain(rows, index, hi) /\ RightEnd(rows, hi)
                                         /\ merged_end' = rows[hi].end
      BY <1>8, <2>3, <2>4, <3>1 DEF SaveEnd
    <3> QED
      BY <1>8, <3>2 DEF SaveEnd, EndOfChain
  <2>6. StartOfChain'
    BY <1>8 DEF StartOfChain, SaveEnd, Hit
  <2>7. NoneBefore'
    BY <1>1, <1>8, <2>2 DEF NoneBefore, SaveEnd
  <2> QED
    BY <1>8, <2>1, <2>5, <2>6, <2>7 DEF SaveEnd, ChainLeft, ChainRight
<1>9. CASE UNCHANGED scanvars
  BY <1>9 DEF scanvars, ScanTypeOK, NoneBefore, ChainLeft, StartOfChain, ChainRight,
              EndOfChain, Hit
<1> QED
  BY <1>2, <1>3, <1>4, <1>5, <1>6, <1>7, <1>8, <1>9 DEF ScanNext, ScanDone

LEMMA ChainsJoin ==
  ASSUME NEW r, NEW lo \in Nat, NEW m \in Nat, NEW hi \in Nat,
         Chain(r, lo, m), Chain(r, m, hi)
  PROVE  Chain(r, lo, hi)
<1>1. \A i \in lo .. hi - 1 : i \in lo .. m - 1 \/ i \in m .. hi - 1
  OBVIOUS
<1> QED
  BY <1>1 DEF Chain

LEMMA ScanInv_Interval ==
  ASSUME ScanInv PROVE FullInterval
<1> USE DEF ScanInv
<1>1. /\ rows \in Layers /\ Len(rows) \in Nat \ {0} /\ DOMAIN rows = 1 .. Len(rows)
      /\ index \in 1 .. Len(rows) + 1
      /\ \A i \in 1 .. Len(rows) : rows[i].start \in Nat /\ rows[i].end \in Nat
  BY RowTyping DEF ScanTypeOK
<1>2. ASSUME Hit PROVE Filled /\ (EndInOrder => Whole)
  <2>1. PICK lo \in 1 .. index : /\ Chain(rows, lo, index) /\ LeftEnd(rows, lo)
                                 /\ merged_start = rows[lo].start
    BY <1>2 DEF StartOfChain
  <2>2. PICK hi \in index .. Len(rows) : /\ Chain(rows, index, hi) /\ RightEnd(rows, hi)
                                         /\ merged_end = rows[hi].end
    BY <1>2 DEF EndOfChain
  <2>3. lo \in 1 .. Len(rows) /\ hi \in 1 .. Len(rows) /\ lo =< hi
    BY <1>1
  <2>4. Chain(rows, lo, hi)
    BY <1>1, <2>1, <2>2, ChainsJoin
  <2>7. \A t \in Int :
          rows[lo].start < t /\ t < rows[hi].end =>
            \E i \in 1 .. Len(rows) : \/ rows[i].start < t /\ t < rows[i].end
                                      \/ IsInstant(rows[i]) /\ rows[i].start = t
    BY <1>1, <2>3, <2>4, ChainFills
  <2>5. Filled
    <3>1. ASSUME NEW t \in merged_start + 1 .. merged_end - 1
          PROVE  \E i \in DOMAIN rows : \/ rows[i].start < t /\ t < rows[i].end
                                        \/ IsInstant(rows[i]) /\ rows[i].start = t
      <4>1. t \in Int /\ rows[lo].start < t /\ t < rows[hi].end
        BY <1>1, <2>1, <2>2, <2>3
      <4> QED
        BY <1>1, <2>7, <4>1
    <3> QED
      BY <1>1, <2>1, <2>2, <2>3, <3>1 DEF Filled
  <2>6. ASSUME EndInOrder PROVE Whole
    <3>1. PICK m : m = [start |-> rows[lo].start, end |-> rows[hi].end]
      OBVIOUS
    <3>2. Merged = m
      BY <2>1, <2>2, <3>1 DEF Merged
    <3>3. \A i, j \in 1 .. Len(rows) : i < j => rows[i].end =< rows[j].end
      BY <1>1, <2>6 DEF EndInOrder
    <3>4. ASSUME NEW i \in DOMAIN rows, Overlaps(rows[i], Merged)
          PROVE  merged_start =< rows[i].start /\ rows[i].end =< merged_end
      <4>1. i \in 1 .. Len(rows) /\ Overlaps(rows[i], m)
        BY <1>1, <3>2, <3>4
      <4>2. rows[lo].start =< rows[i].start /\ rows[i].end =< rows[hi].end
        BY <1>1, <2>1, <2>2, <2>3, <3>1, <3>3, <4>1, ChainIsWhole
      <4> QED
        BY <2>1, <2>2, <4>2
    <3> QED
      BY <3>4 DEF Whole
  <2> QED
    BY <2>5, <2>6
<1>3. ASSUME pc = "done", ~Hit
      PROVE  /\ merged_start = query.start /\ merged_end = query.end
             /\ \A i \in DOMAIN rows : ~Overlaps(rows[i], query)
  <2>1. index > Len(rows)
    BY <1>1, <1>3 DEF Hit
  <2>2. \A i \in DOMAIN rows : i \in 1 .. index - 1
    BY <1>1, <2>1
  <2> QED
    BY <1>3, <2>1, <2>2 DEF NoneBefore
<1> QED
  BY <1>2, <1>3 DEF FullInterval

\* Whatever browses a layer has: what the command returns is filled by browses, it is the
\* whole of the cascade if browses end in the order in which they begin, and the time as
\* it was given if no browse overlaps it (handle_query).
THEOREM IntervalIsFull == ScanSpec => []FullInterval
<1>1. ScanInit => ScanInv
  BY ScanInit_Inv
<1>2. ScanInv /\ [ScanNext]_scanvars => ScanInv'
  BY ScanNext_Inv
<1>3. ScanInv => FullInterval
  BY ScanInv_Interval
<1> QED
  BY <1>1, <1>2, <1>3, PTL DEF ScanSpec

-----------------------------------------------------------------------------
(* Swift: what an operation leaves and what its tries failed of            *)

SwiftOp == {"upload", "delete", "download", "serve"}

SwiftCalls ==
  {Ready} \cup
  { c \in [op : SwiftOp, file : File, left : Nat, at : {"token", "head", "request"}, time : Nat] :
      /\ c.left \in 1 .. Tries(c.op) /\ c.time < Lifetime
      /\ c.at = "head" => c.op = "upload" }

SwiftTypeOK ==
  /\ objects \in SUBSET File
  /\ clock \in Nat /\ skew \in Nat /\ expires \in Nat \cup {NoToken}
  /\ call \in SwiftCalls
  /\ last \in [op : SwiftOp \cup {"none"}, file : File \cup {NoToken},
               outcome : {"ok", "failed"}, before : SUBSET File]
  /\ faults \in [lost : Nat, answers : Nat, refused : Nat]

\* The operation can be done as things are.
Doable(op, f) == IF op = "upload" THEN f \notin last.before ELSE f \in last.before

\* As long as no answer was lost nothing has changed, and every try that is gone failed
\* by itself.
OperationInv ==
  call # Ready /\ faults.answers = 0 =>
    /\ objects = last.before
    /\ Doable(call.op, call.file) =>
         faults.lost + faults.refused + call.left >= Tries(call.op)

\* The token was got during this operation and will do for what is left of it.
Renewed == expires # NoToken /\ expires + call.time >= clock + Lifetime

\* With equal clocks one token is refused at most, as the next one is new.
TokenInv ==
  skew = 0 =>
    \/ faults.refused = 0
    \/ /\ faults.refused = 1
       /\ call # Ready => Renewed \/ (call.at = "token" /\ ~Accepted)

SwiftInv == SwiftTypeOK /\ OperationInv /\ TokenInv /\ SwiftAnswersTruly

LEMMA SwiftCallTyping ==
  ASSUME NEW c \in SwiftCalls
  PROVE  \/ c = Ready
         \/ /\ c # Ready
            /\ c \in [op : SwiftOp, file : File, left : Nat, at : {"token", "head", "request"}, time : Nat]
            /\ c.left \in 1 .. Tries(c.op) /\ c.time < Lifetime
            /\ c.at = "head" => c.op = "upload"
<1>1. \A r \in [op : SwiftOp, file : File, left : Nat, at : {"token", "head", "request"}, time : Nat] :
        r # Ready
  BY DEF Ready
<1> QED
  BY <1>1 DEF SwiftCalls

\* An operation that ends, or goes on with its next try, whatever the try did.
LEMMA SwiftFailed ==
  ASSUME SwiftTypeOK, call # Ready, TryAgain,
         objects' \in SUBSET File, faults' \in [lost : Nat, answers : Nat, refused : Nat],
         skew' = skew, expires' \in Nat \cup {NoToken}, clock' = clock,
         faults'.answers = 0 =>
           /\ objects' = last.before
           /\ Doable(call.op, call.file) =>
                faults'.lost + faults'.refused + call.left > Tries(call.op),
         skew = 0 =>
           \/ faults'.refused = 0
           \/ faults'.refused = 1 /\ (Renewed \/ ~Accepted) /\ expires' = expires
  PROVE  SwiftInv'
<1> USE SwiftAssumption
<1>0. /\ call \in [op : SwiftOp, file : File, left : Nat, at : {"token", "head", "request"}, time : Nat]
      /\ call.left \in 1 .. Tries(call.op) /\ call.time < Lifetime
  BY SwiftCallTyping DEF SwiftTypeOK
<1>1. CASE call.left > 1
  <2>1. call' = [call EXCEPT !.left = @ - 1, !.at = "token"] /\ last' = last
    BY <1>1 DEF TryAgain
  <2>2. /\ call' \in [op : SwiftOp, file : File, left : Nat, at : {"token", "head", "request"}, time : Nat]
        /\ call'.op = call.op /\ call'.file = call.file /\ call'.left = call.left - 1
        /\ call'.at = "token" /\ call'.time = call.time /\ call'.left \in 1 .. Tries(call.op)
    <3>1. Tries(call.op) \in Nat /\ call.left - 1 \in 1 .. Tries(call.op)
      BY <1>0, <1>1 DEF Tries
    <3>2. call' = [op |-> call.op, file |-> call.file, left |-> call.left - 1, at |-> "token", time |-> call.time]
      BY <1>0, <2>1
    <3> QED
      BY <1>0, <3>1, <3>2
  <2>3. call' \in SwiftCalls /\ call' # Ready
    BY <1>0, <2>2 DEF SwiftCalls, Ready, SwiftOp, Tries
  <2>4. SwiftTypeOK'
    BY <2>1, <2>3 DEF SwiftTypeOK
  <2>5. OperationInv'
    <3>1. Tries(call'.op) = Tries(call.op) /\ Tries(call.op) \in Nat
      BY <1>0, <2>2 DEF Tries
    <3> QED
      BY <1>0, <2>1, <2>2, <3>1 DEF OperationInv, Doable, Tries
  <2>6. TokenInv'
    BY <1>0, <2>1, <2>2 DEF TokenInv, Renewed, Accepted, SwiftTypeOK
  <2>7. SwiftAnswersTruly'
    BY <2>3 DEF SwiftAnswersTruly, Ready
  <2> QED
    BY <2>4, <2>5, <2>6, <2>7 DEF SwiftInv
<1>2. CASE ~(call.left > 1)
  <2>1. /\ call' = Ready
        /\ last' = [op |-> call.op, file |-> call.file, outcome |-> "failed", before |-> last.before]
    BY <1>2 DEF TryAgain, EndOperation
  <2>2. SwiftTypeOK'
    BY <1>0, <2>1 DEF SwiftTypeOK, SwiftCalls
  <2>3. OperationInv' /\ TokenInv'
    BY <2>1 DEF OperationInv, TokenInv, Ready
  <2>4. SwiftAnswersTruly'
    <3>1. call.left = 1 /\ Tries(call.op) \in Nat
      BY <1>0, <1>2 DEF Tries
    <3>2. faults'.refused > 1 => skew' > 0
      BY DEF SwiftTypeOK
    <3>3. faults'.answers = 0 => objects' = last.before
      OBVIOUS
    <3>4. Doable(call.op, call.file) => faults'.answers > 0 \/ faults'.lost + faults'.refused >= Tries(call.op)
      BY <3>1
    <3>5. /\ last'.outcome = "failed" /\ last'.op = call.op /\ last'.file = call.file
          /\ last'.before = last.before /\ Tries(last'.op) = Tries(call.op)
      BY <2>1
    <3> QED
      BY <3>2, <3>3, <3>4, <3>5 DEF SwiftAnswersTruly, Doable, Tries
  <2> QED
    BY <2>2, <2>3, <2>4 DEF SwiftInv
<1> QED
  BY <1>1, <1>2

LEMMA SwiftNextInv ==
  ASSUME SwiftInv, [SwiftNext]_swiftvars
  PROVE  SwiftInv'
<1> USE SwiftAssumption
<1> DEFINE Call == [op : SwiftOp, file : File, left : Nat, at : {"token", "head", "request"}, time : Nat]
<1>0. call = Ready \/ (call # Ready /\ call \in Call /\ call.left \in 1 .. Tries(call.op) /\ call.time < Lifetime
                                /\ (call.at = "head" => call.op = "upload"))
  BY SwiftCallTyping DEF SwiftInv, SwiftTypeOK
<1>1. ASSUME NEW op \in SwiftOp, NEW f \in File, Begin(op, f) PROVE SwiftInv'
  <2>1. /\ call' = [op |-> op, file |-> f, left |-> Tries(op), at |-> "token", time |-> 0]
        /\ last' = [last EXCEPT !.before = objects] /\ faults' = NoTrouble
        /\ objects' = objects /\ clock' = clock /\ skew' = skew /\ expires' = expires
    BY <1>1 DEF Begin, env
  <2>2. call' \in Call /\ call'.left \in 1 .. Tries(op) /\ call'.op = op /\ call'.time < Lifetime
    BY <2>1 DEF Tries
  <2>3. call' \in SwiftCalls /\ call' # Ready
    BY <2>2, <2>1 DEF SwiftCalls, Ready, SwiftOp
  <2>4. SwiftTypeOK'
    BY <2>1, <2>3 DEF SwiftInv, SwiftTypeOK, NoTrouble
  <2>5. OperationInv'
    BY <2>1, <2>2 DEF OperationInv, NoTrouble, Tries, Doable, SwiftInv, SwiftTypeOK
  <2>6. TokenInv' /\ SwiftAnswersTruly'
    BY <2>1, <2>3 DEF TokenInv, SwiftAnswersTruly, NoTrouble
  <2> QED
    BY <2>4, <2>5, <2>6 DEF SwiftInv
<1>2. ASSUME GetToken PROVE SwiftInv'
  <2>1. call.at = "token" /\ call # Ready /\ objects' = objects /\ clock' = clock /\ skew' = skew
    BY <1>2 DEF GetToken, Ready, env
  <2>2. ASSUME call' = [call EXCEPT !.at = IF call.op = "upload" THEN "head" ELSE "request"],
               UNCHANGED <<last, faults>>, expires' \in Nat \cup {NoToken},
               skew = 0 /\ faults.refused = 1 => expires' # NoToken /\ expires' + call.time >= clock + Lifetime
        PROVE  SwiftInv'
    <3>1. /\ call' \in Call /\ call'.op = call.op /\ call'.file = call.file /\ call'.left = call.left
          /\ call'.time = call.time /\ (call'.at = "head" => call'.op = "upload")
      BY <1>0, <2>1, <2>2
    <3>2. call' \in SwiftCalls /\ call' # Ready
      BY <1>0, <2>1, <3>1 DEF SwiftCalls, Ready, SwiftOp, Tries
    <3>3. SwiftTypeOK'
      BY <2>1, <2>2, <3>2 DEF SwiftInv, SwiftTypeOK
    <3>4. OperationInv'
      BY <2>1, <2>2, <3>1 DEF SwiftInv, OperationInv, Doable, Tries
    <3>5. TokenInv'
      BY <2>1, <2>2, <3>1 DEF SwiftInv, TokenInv, Renewed
    <3>6. SwiftAnswersTruly'
      BY <3>2 DEF SwiftAnswersTruly
    <3> QED
      BY <3>3, <3>4, <3>5, <3>6 DEF SwiftInv
  <2>3. CASE TokenValid /\ call' = [call EXCEPT !.at = IF call.op = "upload" THEN "head" ELSE "request"]
             /\ UNCHANGED <<expires, last, faults>>
    <3>1. skew = 0 => Accepted
      BY <2>3 DEF TokenValid, Accepted, SwiftInv, SwiftTypeOK
    <3> QED
      BY <2>1, <2>2, <2>3, <3>1 DEF SwiftInv, SwiftTypeOK, TokenInv, Renewed
  <2>4. CASE expires' = clock + Lifetime /\ call' = [call EXCEPT !.at = IF call.op = "upload" THEN "head" ELSE "request"]
             /\ UNCHANGED <<last, faults>>
    <3>1. expires' # NoToken /\ expires' \in Nat /\ expires' + call.time >= clock + Lifetime
      BY <1>0, <2>1, <2>4 DEF SwiftInv, SwiftTypeOK
    <3> QED
      BY <2>2, <2>4, <3>1
  <2>5. CASE ~TokenValid /\ Injected("lost") /\ TryAgain /\ UNCHANGED expires
    <3>1. /\ faults' \in [lost : Nat, answers : Nat, refused : Nat]
          /\ faults'.lost = faults.lost + 1 /\ faults'.answers = faults.answers
          /\ faults'.refused = faults.refused
      BY <2>5 DEF Injected, SwiftInv, SwiftTypeOK
    <3>2. faults'.answers = 0 =>
            /\ objects' = last.before
            /\ Doable(call.op, call.file) =>
                 faults'.lost + faults'.refused + call.left > Tries(call.op)
      BY <1>0, <2>1, <3>1 DEF SwiftInv, SwiftTypeOK, OperationInv, Tries
    <3> QED
      BY <2>1, <2>5, <3>1, <3>2, SwiftFailed DEF SwiftInv, SwiftTypeOK, TokenInv
  <2> QED
    BY <1>2, <2>3, <2>4, <2>5 DEF GetToken
<1>3. ASSUME HeadRequest PROVE SwiftInv'
  <2>1. call.at = "head" /\ call # Ready /\ objects' = objects /\ clock' = clock /\ skew' = skew /\ expires' = expires
    BY <1>3 DEF HeadRequest, Ready, env
  <2>2. CASE call' = [call EXCEPT !.at = "request"] /\ UNCHANGED <<last, faults>>
    <3>1. /\ call' \in Call /\ call'.op = call.op /\ call'.file = call.file /\ call'.left = call.left
          /\ call'.time = call.time /\ (call'.at = "head" => call'.op = "upload")
      BY <1>0, <2>1, <2>2
    <3>2. call' \in SwiftCalls /\ call' # Ready
      BY <1>0, <2>1, <3>1 DEF SwiftCalls, Ready, SwiftOp, Tries
    <3>3. SwiftTypeOK'
      BY <2>1, <2>2, <3>2 DEF SwiftInv, SwiftTypeOK
    <3>4. OperationInv'
      BY <2>1, <2>2, <3>1 DEF SwiftInv, OperationInv, Doable, Tries
    <3>5. TokenInv'
      BY <2>1, <2>2, <3>1 DEF SwiftInv, TokenInv, Renewed
    <3>6. SwiftAnswersTruly'
      BY <3>2 DEF SwiftAnswersTruly
    <3> QED
      BY <3>3, <3>4, <3>5, <3>6 DEF SwiftInv
  <2>3. CASE call.file \in objects /\ TryAgain /\ UNCHANGED faults
    <3>1. skew = 0 => faults'.refused = 0 \/ (faults'.refused = 1 /\ Renewed)
      BY <2>1, <2>3 DEF SwiftInv, TokenInv
    <3>2. faults'.answers = 0 =>
            objects' = last.before /\ ~Doable(call.op, call.file)
      <4>1. call.op = "upload"
        BY <1>0, <2>1
      <4> QED
        BY <2>1, <2>3, <4>1 DEF SwiftInv, OperationInv, Doable
    <3> QED
      BY <2>1, <2>3, <3>1, <3>2, SwiftFailed DEF SwiftInv, SwiftTypeOK
  <2>4. CASE Injected("lost") /\ TryAgain
    <3>1. /\ faults' \in [lost : Nat, answers : Nat, refused : Nat]
          /\ faults'.lost = faults.lost + 1 /\ faults'.answers = faults.answers
          /\ faults'.refused = faults.refused
      BY <2>4 DEF Injected, SwiftInv, SwiftTypeOK
    <3>2. faults'.answers = 0 =>
            /\ objects' = last.before
            /\ Doable(call.op, call.file) =>
                 faults'.lost + faults'.refused + call.left > Tries(call.op)
      BY <1>0, <2>1, <3>1 DEF SwiftInv, SwiftTypeOK, OperationInv, Tries
    <3> QED
      BY <2>1, <2>4, <3>1, <3>2, SwiftFailed DEF SwiftInv, SwiftTypeOK, TokenInv
  <2> QED
    BY <1>3, <2>2, <2>3, <2>4 DEF HeadRequest
<1>4. ASSUME Request PROVE SwiftInv'
  <2>1. call.at = "request" /\ call # Ready /\ clock' = clock /\ skew' = skew /\ expires' = expires
    BY <1>4 DEF Request, Ready, env
  <2>2. Effect \in SUBSET File
    BY <1>0, <2>1 DEF Effect, SwiftOp, SwiftInv, SwiftTypeOK
  <2>3. CASE Possible /\ objects' = Effect /\ EndOperation("ok") /\ UNCHANGED faults
    <3>1. /\ call' = Ready
          /\ last' = [op |-> call.op, file |-> call.file, outcome |-> "ok", before |-> last.before]
      BY <2>3 DEF EndOperation
    <3>2. SwiftTypeOK'
      BY <1>0, <2>1, <2>2, <2>3, <3>1 DEF SwiftInv, SwiftTypeOK, SwiftCalls
    <3>3. OperationInv' /\ TokenInv'
      BY <2>1, <2>3, <3>1 DEF SwiftInv, OperationInv, TokenInv
    <3>4. SwiftAnswersTruly'
      <4>1. faults.refused > 1 => skew > 0
        BY DEF SwiftInv, TokenInv, SwiftTypeOK
      <4>2. last'.op = "upload" => last'.file \in objects'
        BY <2>3, <3>1 DEF Effect
      <4>3. last'.op = "delete" => last'.file \notin objects'
        BY <2>3, <3>1 DEF Effect
      <4> QED
        BY <2>1, <2>3, <3>1, <4>1, <4>2, <4>3 DEF SwiftAnswersTruly
    <3> QED
      BY <3>2, <3>3, <3>4 DEF SwiftInv
  <2>4. CASE ~Possible /\ TryAgain /\ UNCHANGED <<objects, faults>>
    <3>1. skew = 0 => faults'.refused = 0 \/ (faults'.refused = 1 /\ Renewed)
      BY <2>1, <2>4 DEF SwiftInv, TokenInv
    <3>2. faults'.answers = 0 =>
            objects' = last.before /\ ~Doable(call.op, call.file)
      BY <1>0, <2>1, <2>4 DEF SwiftInv, OperationInv, Doable, Possible, SwiftOp
    <3> QED
      BY <2>1, <2>4, <3>1, <3>2, SwiftFailed DEF SwiftInv, SwiftTypeOK
  <2>5. CASE ~Accepted /\ faults' = [faults EXCEPT !.refused = @ + 1] /\ TryAgain /\ UNCHANGED objects
    <3>1. /\ faults' \in [lost : Nat, answers : Nat, refused : Nat]
          /\ faults'.lost = faults.lost /\ faults'.answers = faults.answers
          /\ faults'.refused = faults.refused + 1
      BY <2>5 DEF SwiftInv, SwiftTypeOK
    <3>2. skew = 0 => faults'.refused = 1
      <4>1. Renewed => Accepted
        BY <1>0, <2>1 DEF Renewed, Accepted, SwiftInv, SwiftTypeOK
      <4> QED
        BY <2>1, <2>5, <3>1, <4>1 DEF SwiftInv, TokenInv
    <3>3. faults'.answers = 0 =>
            /\ objects' = last.before
            /\ Doable(call.op, call.file) =>
                 faults'.lost + faults'.refused + call.left > Tries(call.op)
      BY <1>0, <2>1, <2>5, <3>1 DEF SwiftInv, SwiftTypeOK, OperationInv, Tries
    <3> QED
      BY <2>1, <2>5, <3>1, <3>2, <3>3, SwiftFailed DEF SwiftInv, SwiftTypeOK
  <2>6. CASE Injected("lost") /\ TryAgain /\ UNCHANGED objects
    <3>1. /\ faults' \in [lost : Nat, answers : Nat, refused : Nat]
          /\ faults'.lost = faults.lost + 1 /\ faults'.answers = faults.answers
          /\ faults'.refused = faults.refused
      BY <2>6 DEF Injected, SwiftInv, SwiftTypeOK
    <3>2. faults'.answers = 0 =>
            /\ objects' = last.before
            /\ Doable(call.op, call.file) =>
                 faults'.lost + faults'.refused + call.left > Tries(call.op)
      BY <1>0, <2>1, <2>6, <3>1 DEF SwiftInv, SwiftTypeOK, OperationInv, Tries
    <3> QED
      BY <2>1, <2>6, <3>1, <3>2, SwiftFailed DEF SwiftInv, SwiftTypeOK, TokenInv
  <2>7. CASE Possible /\ Injected("answers") /\ objects' = Effect /\ TryAgain
    <3>1. /\ faults' \in [lost : Nat, answers : Nat, refused : Nat]
          /\ faults'.answers # 0 /\ faults'.refused = faults.refused
      BY <2>7 DEF Injected, SwiftInv, SwiftTypeOK
    <3> QED
      BY <2>1, <2>2, <2>7, <3>1, SwiftFailed DEF SwiftInv, SwiftTypeOK, TokenInv
  <2> QED
    BY <1>4, <2>3, <2>4, <2>5, <2>6, <2>7 DEF Request
<1>5. ASSUME Tick PROVE SwiftInv'
  <2>1. /\ clock' = clock + 1 /\ UNCHANGED <<objects, skew, expires, last, faults>>
        /\ call.time < Lifetime - 1
        /\ call' = IF call = Ready THEN Ready ELSE [call EXCEPT !.time = @ + 1]
    BY <1>5 DEF Tick
  <2>2. CASE call = Ready
    BY <2>1, <2>2 DEF SwiftInv, SwiftTypeOK, SwiftCalls, OperationInv, TokenInv, SwiftAnswersTruly, Tries
  <2>3. CASE call # Ready
    <3>1. /\ call' \in Call /\ call'.op = call.op /\ call'.file = call.file /\ call'.left = call.left
          /\ call'.time = call.time + 1 /\ call'.at = call.at /\ call'.time < Lifetime
      BY <1>0, <2>1, <2>3
    <3>2. call' \in SwiftCalls /\ call' # Ready
      BY <1>0, <2>3, <3>1 DEF SwiftCalls, Ready, SwiftOp, Tries
    <3>3. SwiftTypeOK'
      BY <2>1, <3>2 DEF SwiftInv, SwiftTypeOK
    <3>4. OperationInv'
      BY <2>1, <2>3, <3>1 DEF SwiftInv, OperationInv, Doable, Tries
    <3>5. TokenInv'
      BY <1>0, <2>1, <2>3, <3>1 DEF SwiftInv, SwiftTypeOK, TokenInv, Renewed, Accepted
    <3>6. SwiftAnswersTruly'
      BY <3>2 DEF SwiftAnswersTruly
    <3> QED
      BY <3>3, <3>4, <3>5, <3>6 DEF SwiftInv
  <2> QED
    BY <2>2, <2>3
<1>6. CASE UNCHANGED swiftvars
  <2>1. UNCHANGED <<objects, clock, skew, expires, call, last, faults>>
    BY <1>6 DEF swiftvars, env
  <2> QED
    BY <2>1 DEF SwiftInv, SwiftTypeOK, OperationInv, TokenInv, Renewed, Accepted, SwiftAnswersTruly, Doable
<1> QED
  BY <1>1, <1>2, <1>3, <1>4, <1>5, <1>6 DEF SwiftNext, SwiftDone, SwiftOp

(***************************************************************************)
(* Operations of the file manager tell the truth, for any number of tries, *)
(* of lost requests and answers and any lifetime of tokens: one that       *)
(* reports success had its effect, one that fails changed nothing unless   *)
(* an answer was lost, and a local clock that is right costs one try at    *)
(* most.                                                                   *)
(***************************************************************************)
THEOREM StorageTellsTruth == SwiftSpec => []SwiftAnswersTruly
<1>1. SwiftInit => SwiftInv
  BY SwiftAssumption
     DEF SwiftInit, SwiftInv, SwiftTypeOK, SwiftCalls, OperationInv, TokenInv, SwiftAnswersTruly,
         NoTrouble, Ready
<1>2. SwiftInv /\ [SwiftNext]_swiftvars => SwiftInv'
  BY SwiftNextInv
<1>3. SwiftInv => SwiftAnswersTruly
  BY DEF SwiftInv
<1> QED
  BY <1>1, <1>2, <1>3, PTL DEF SwiftSpec

-----------------------------------------------------------------------------
(* Queue monitor: the samples that are kept of a queue                     *)

Sample == [at : Nat, count : Nat]

\* The samples fall while time goes on.
Falling(h) ==
  \A i, j \in 1 .. Len(h) : i < j => h[i].at < h[j].at /\ h[i].count > h[j].count

\* The samples of a queue, the last of which is what is shown, taken up to a moment.
SoundHistory(h, counter, moment) ==
  /\ h \in Seq(Sample) /\ h # << >>
  /\ h[Len(h)].count = counter
  /\ \A i \in 1 .. Len(h) : h[i].at =< moment
  /\ Falling(h)

QueueState == [counter : Nat, history : Seq(Sample), reset_next : BOOLEAN]

SoundState(state, moment) ==
  /\ state \in QueueState
  /\ SoundHistory(state.history, state.counter, moment)
  /\ Len(state.history) =< MaxHistory
  /\ state.reset_next => Len(state.history) = 1

\* No sample is from a round in which all daemons were stopped or from before it, unless
\* it is dropped next.
SinceRunning(state, since) == state.reset_next \/ state.history[1].at > since

MonitorTypeOK ==
  /\ queued \in [Queue -> 0 .. MaxCount]
  /\ key_set \in SUBSET Queue
  /\ reads \in Nat /\ stopped_at \in Nat /\ stopped_at =< reads
  /\ DOMAIN queue_state \in SUBSET Queue

SamplesSound ==
  /\ \A q \in DOMAIN queue_state :
       SoundState(queue_state[q], reads) /\ SinceRunning(queue_state[q], stopped_at)
  /\ \A state \in total_state : SoundState(state, reads)

MonitorInv == MonitorTypeOK /\ SamplesSound

LEMMA SampleSound ==
  ASSUME NEW counter \in Nat, NEW moment \in Nat,
         NEW h, h = <<[at |-> moment, count |-> counter]>>
  PROVE  SoundHistory(h, counter, moment) /\ Len(h) = 1 /\ h[1].at = moment
<1>1. PICK e \in Sample : e = [at |-> moment, count |-> counter]
  BY DEF Sample
<1>2. e.at = moment /\ e.count = counter
  BY <1>1
<1>3. h = <<e>>
  BY <1>1
<1>4. h \in Seq(Sample) /\ Len(h) = 1 /\ h[1] = e /\ h # << >>
  BY <1>3
<1>5. \A i \in 1 .. Len(h) : i = 1
  BY <1>4
<1>6. Falling(h)
  BY <1>4 DEF Falling
<1> QED
  BY <1>2, <1>4, <1>5, <1>6 DEF SoundHistory

LEMMA SampleTyping ==
  ASSUME NEW h \in Seq(Sample), NEW i \in 1 .. Len(h)
  PROVE  h[i] \in Sample /\ h[i].at \in Nat /\ h[i].count \in Nat
<1>1. h[i] \in Sample
  BY ElementOfSeq
<1> QED
  BY <1>1 DEF Sample

\* A sample with fewer reports goes behind the others.
LEMMA AppendSound ==
  ASSUME NEW h \in Seq(Sample), NEW counter \in Nat, NEW then \in Nat,
         SoundHistory(h, counter, then),
         NEW e \in Sample, then < e.at, e.count < counter
  PROVE  SoundHistory(Append(h, e), e.count, e.at) /\ Append(h, e)[1].at = h[1].at
<1>1. PICK g : g = Append(h, e)
  OBVIOUS
<1>2. e.at \in Nat /\ e.count \in Nat
  BY DEF Sample
<1>3. h # << >> /\ Len(h) \in Nat \ {0}
  BY EmptySeq DEF SoundHistory
<1>4. /\ g \in Seq(Sample) /\ g # << >> /\ Len(g) = Len(h) + 1
      /\ \A i \in 1 .. Len(h) : g[i] = h[i]
      /\ g[Len(h) + 1] = e
  BY <1>1, AppendProperties
<1>5. \A i \in 1 .. Len(g) : i \in 1 .. Len(h) \/ i = Len(g)
  BY <1>3, <1>4
<1>6. \A i \in 1 .. Len(h) : h[i].at \in Nat /\ h[i].count \in Nat
  BY SampleTyping
<1>7. \A i \in 1 .. Len(h) : h[i].at =< then /\ h[i].count >= counter
  <2> SUFFICES ASSUME NEW i \in 1 .. Len(h)
               PROVE  h[i].at =< then /\ h[i].count >= counter
    OBVIOUS
  <2>1. h[Len(h)].count = counter /\ h[i].at =< then
    BY DEF SoundHistory
  <2>2. i < Len(h) => h[i].count > h[Len(h)].count
    BY <1>3 DEF SoundHistory, Falling
  <2> QED
    BY <1>3, <1>6, <2>1, <2>2
<1>8. \A i \in 1 .. Len(g) : g[i].at =< e.at
  BY <1>2, <1>3, <1>4, <1>5, <1>6, <1>7
<1>9. Falling(g)
  <2> SUFFICES ASSUME NEW i \in 1 .. Len(g), NEW j \in 1 .. Len(g), i < j
               PROVE  g[i].at < g[j].at /\ g[i].count > g[j].count
    BY DEF Falling
  <2>1. i \in 1 .. Len(h) /\ g[i] = h[i]
    BY <1>3, <1>4
  <2>2. CASE j = Len(g)
    BY <1>2, <1>3, <1>4, <1>6, <1>7, <2>1, <2>2
  <2>3. CASE j \in 1 .. Len(h)
    BY <1>4, <2>1, <2>3 DEF SoundHistory, Falling
  <2> QED
    BY <1>5, <2>2, <2>3
<1>10. g[Len(g)].count = e.count /\ g[1].at = h[1].at
  BY <1>2, <1>3, <1>4
<1>11. SoundHistory(g, e.count, e.at)
  BY <1>4, <1>8, <1>9, <1>10 DEF SoundHistory
<1> QED
  BY <1>1, <1>10, <1>11

\* The newest of them are still such samples.
LEMMA NewestSound ==
  ASSUME NEW h, NEW counter \in Nat, NEW moment \in Nat, SoundHistory(h, counter, moment),
         NEW g, g = Newest(h)
  PROVE  /\ SoundHistory(g, counter, moment) /\ Len(g) =< MaxHistory
         /\ g[1].at >= h[1].at /\ (Len(h) = 1 => Len(g) = 1)
<1>1. h \in Seq(Sample) /\ Len(h) \in Nat \ {0}
  BY EmptySeq DEF SoundHistory
<1>2. \A i \in 1 .. Len(h) : h[i] \in Sample
  BY <1>1, ElementOfSeq
<1>3. MaxHistory \in Nat \ {0, 1}
  BY MonitorAssumption
<1>4. PICK m \in 1 .. Len(h) : /\ m = IF Len(h) > MaxHistory THEN Len(h) - MaxHistory + 1 ELSE 1
                               /\ Len(h) - m + 1 =< MaxHistory
  <2>1. CASE Len(h) > MaxHistory
    <3>1. Len(h) - MaxHistory + 1 \in 1 .. Len(h)
      BY <1>1, <1>3, <2>1
    <3>2. Len(h) - (Len(h) - MaxHistory + 1) + 1 =< MaxHistory
      BY <1>1, <1>3
    <3> QED
      BY <2>1, <3>1, <3>2
  <2>2. CASE ~(Len(h) > MaxHistory)
    <3>1. 1 \in 1 .. Len(h) /\ Len(h) - 1 + 1 =< MaxHistory
      BY <1>1, <1>3, <2>2
    <3> QED
      BY <2>2, <3>1
  <2> QED
    BY <2>1, <2>2
<1>5. g = SubSeq(h, m, Len(h))
  BY <1>4 DEF Newest
<1>6. \A i \in m .. Len(h) : h[i] \in Sample
  BY <1>1, <1>2
<1>7. /\ g \in Seq(Sample) /\ Len(g) = Len(h) - m + 1
      /\ \A i \in 1 .. Len(h) - m + 1 : g[i] = h[m + i - 1]
  <2>1. m \in Int /\ Len(h) \in Int /\ m =< Len(h)
    BY <1>1
  <2> QED
    BY <1>5, <1>6, <2>1, SubSeqProperties
<1>8. \A i \in 1 .. Len(g) : m + i - 1 \in 1 .. Len(h) /\ g[i] = h[m + i - 1]
  BY <1>1, <1>7
<1>9. Len(g) \in Nat \ {0} /\ Len(g) =< MaxHistory /\ g # << >>
  BY <1>1, <1>3, <1>4, <1>7
<1>10. g[Len(g)].count = counter
  <2>1. g[Len(g)] = h[Len(h)]
    BY <1>1, <1>7, <1>8, <1>9
  <2> QED
    BY <2>1 DEF SoundHistory
<1>11. \A i \in 1 .. Len(g) : g[i].at =< moment
  BY <1>8 DEF SoundHistory
<1>12. Falling(g)
  <2> SUFFICES ASSUME NEW i \in 1 .. Len(g), NEW j \in 1 .. Len(g), i < j
               PROVE  g[i].at < g[j].at /\ g[i].count > g[j].count
    BY DEF Falling
  <2>1. m + i - 1 < m + j - 1
    BY <1>1, <1>9
  <2> QED
    BY <1>8, <2>1 DEF SoundHistory, Falling
<1>13. g[1].at >= h[1].at
  <2>1. g[1] = h[m] /\ 1 \in 1 .. Len(h)
    BY <1>1, <1>8, <1>9
  <2>2. h[1].at \in Nat /\ h[m].at \in Nat
    BY <1>2, <2>1 DEF Sample
  <2>3. 1 < m => h[1].at < h[m].at
    BY <2>1 DEF SoundHistory, Falling
  <2> QED
    BY <2>1, <2>2, <2>3
<1>14. Len(h) = 1 => Len(g) = 1
  BY <1>7, <1>4
<1> QED
  BY <1>7, <1>9, <1>10, <1>11, <1>12, <1>13, <1>14 DEF SoundHistory

LEMMA NewStateSound ==
  ASSUME NEW counter \in Nat, NEW moment \in Nat, NEW s, s = NewState(counter, moment)
  PROVE  SoundState(s, moment) /\ s.reset_next
<1>1. PICK h : h = <<[at |-> moment, count |-> counter]>>
  OBVIOUS
<1>2. SoundHistory(h, counter, moment) /\ Len(h) = 1
  BY <1>1, SampleSound
<1>3. s = [counter |-> counter, history |-> h, reset_next |-> TRUE]
  BY <1>1 DEF NewState
<1>4. h \in Seq(Sample)
  BY <1>2 DEF SoundHistory
<1>5. 1 =< MaxHistory
  BY MonitorAssumption
<1>6. s.counter = counter /\ s.history = h /\ s.reset_next = TRUE /\ s \in QueueState
  BY <1>3, <1>4 DEF QueueState
<1> QED
  BY <1>2, <1>5, <1>6 DEF SoundState

\* A sample begins anew, goes behind the others or is left out.
LEMMA UpdatedSound ==
  ASSUME NEW s, NEW then \in Nat, SoundState(s, then), NEW moment \in Nat, then < moment,
         NEW counter \in Nat, NEW u, u = Updated(s, counter, moment)
  PROVE  /\ SoundState(u, moment) /\ ~u.reset_next
         /\ u.history[1].at = moment \/ (~s.reset_next /\ u.history[1].at >= s.history[1].at)
<1>1. s.counter \in Nat /\ s.reset_next \in BOOLEAN /\ SoundHistory(s.history, s.counter, then)
  BY DEF SoundState, QueueState
<1>2. PICK h : h = IF counter > s.counter \/ s.reset_next THEN <<[at |-> moment, count |-> counter]>>
                   ELSE IF counter < s.counter THEN Append(s.history, [at |-> moment, count |-> counter])
                   ELSE s.history
  OBVIOUS
<1>3. u = [counter |-> counter, history |-> Newest(h), reset_next |-> FALSE]
  BY <1>2 DEF Updated
<1>4. /\ SoundHistory(h, counter, moment)
      /\ \/ h[1].at = moment
         \/ ~s.reset_next /\ h[1].at = s.history[1].at
  <2>1. CASE counter > s.counter \/ s.reset_next
    <3>1. h = <<[at |-> moment, count |-> counter]>>
      BY <1>2, <2>1
    <3> QED
      BY <3>1, SampleSound
  <2>2. CASE ~(counter > s.counter \/ s.reset_next) /\ counter < s.counter
    <3>1. PICK k \in Seq(Sample) : k = s.history
      BY <1>1 DEF SoundHistory
    <3>2. PICK c \in Nat : c = s.counter
      BY <1>1
    <3>3. PICK e \in Sample : e = [at |-> moment, count |-> counter]
      BY DEF Sample
    <3>4. e.at = moment /\ e.count = counter /\ h = Append(k, e)
      BY <1>2, <2>2, <3>1, <3>3
    <3>5. SoundHistory(k, c, then) /\ e.count < c /\ then < e.at
      BY <1>1, <2>2, <3>1, <3>2, <3>4
    <3>6. SoundHistory(Append(k, e), e.count, e.at) /\ Append(k, e)[1].at = k[1].at
      BY <3>5, AppendSound
    <3> QED
      BY <2>2, <3>1, <3>4, <3>6
  <2>3. CASE ~(counter > s.counter \/ s.reset_next) /\ ~(counter < s.counter)
    <3>1. h = s.history /\ counter = s.counter
      BY <1>1, <1>2, <2>3
    <3>4. h \in Seq(Sample) /\ (\A i \in 1 .. Len(h) : h[i].at =< then)
      BY <1>1, <3>1 DEF SoundHistory
    <3>2. \A i \in 1 .. Len(h) : h[i].at \in Nat /\ h[i].at =< then
      BY <3>4, SampleTyping
    <3>3. \A i \in 1 .. Len(h) : h[i].at =< moment
      BY <3>2
    <3> QED
      BY <1>1, <2>3, <3>1, <3>3 DEF SoundHistory
  <2> QED
    BY <2>1, <2>2, <2>3
<1>5. PICK g : g = Newest(h)
  OBVIOUS
<1>6. /\ SoundHistory(g, counter, moment) /\ Len(g) =< MaxHistory
      /\ g[1].at >= h[1].at
  BY <1>4, <1>5, NewestSound
<1>7. u.counter = counter /\ u.history = g /\ u.reset_next = FALSE /\ g \in Seq(Sample)
  BY <1>3, <1>5, <1>6 DEF SoundHistory
<1>8. u \in QueueState
  BY <1>3, <1>5, <1>7 DEF QueueState
<1>9. SoundState(u, moment)
  BY <1>6, <1>7, <1>8 DEF SoundState
<1>10. g[1].at \in Nat /\ g[1].at =< moment
  <2>1. g # << >>
    BY <1>6 DEF SoundHistory
  <2>2. 1 \in 1 .. Len(g)
    BY <1>7, <2>1, EmptySeq
  <2>3. g[1].at \in Nat
    BY <1>7, <2>2, SampleTyping
  <2> QED
    BY <1>6, <2>2, <2>3 DEF SoundHistory
<1> QED
  BY <1>4, <1>6, <1>7, <1>9, <1>10

LEMMA LaterSound ==
  ASSUME NEW s, NEW then \in Nat, SoundState(s, then), NEW moment \in Nat, then =< moment
  PROVE  SoundState(s, moment)
<1>1. s.history \in Seq(Sample)
  BY DEF SoundState, SoundHistory
<1>3. \A i \in 1 .. Len(s.history) : s.history[i].at \in Nat
  BY <1>1, SampleTyping
<1>2. \A i \in 1 .. Len(s.history) : s.history[i].at =< moment
  BY <1>3 DEF SoundState, SoundHistory
<1> QED
  BY <1>2 DEF SoundState, SoundHistory

LEMMA FirstSample ==
  ASSUME NEW s, NEW moment, SoundState(s, moment)
  PROVE  s.history[1].at \in Nat
<1>1. s.history \in Seq(Sample) /\ s.history # << >>
  BY DEF SoundState, SoundHistory
<1>2. 1 \in 1 .. Len(s.history)
  BY <1>1, EmptySeq
<1> QED
  BY <1>1, <1>2, SampleTyping

-----------------------------------------------------------------------------
(* Queue monitor: the rounds                                               *)

\* The reports in the queues can be counted.
LEMMA TotalTyping ==
  ASSUME MonitorTypeOK, NEW buffer \in {0, 1}
  PROVE  Total(buffer) \in Nat
<1>1. IsFiniteSet(Queue) /\ MaxCount \in Nat
  BY MonitorAssumption
<1>2. IsFiniteSet(key_set)
  BY <1>1, FS_Subset DEF MonitorTypeOK
<1>3. \A n \in Nat : IsFiniteSet(1 .. n)
  BY FS_Interval
<1>4. IsFiniteSet(key_set \X (1 .. MaxCount))
  BY <1>1, <1>2, <1>3, FS_Product
<1>5. PICK R : R = { r \in key_set \X (1 .. MaxCount) : r[2] =< ReadStat[r[1]] }
  OBVIOUS
<1>6. R \in SUBSET (key_set \X (1 .. MaxCount))
  BY <1>5
<1>7. Cardinality(R) \in Nat
  BY <1>4, <1>6, FS_Subset, FS_CardinalityType
<1>8. Total(buffer) = buffer + Cardinality(R)
  BY <1>5 DEF Total
<1> QED
  BY <1>7, <1>8

LEMMA ReadStatTyping ==
  ASSUME MonitorTypeOK
  PROVE  /\ DOMAIN ReadStat = key_set
         /\ \A q \in key_set : ReadStat[q] \in Nat
<1>1. MaxCount \in Nat
  BY MonitorAssumption
<1>2. \A q \in key_set : queued[q] \in Nat
  BY <1>1 DEF MonitorTypeOK
<1> QED
  BY <1>2 DEF ReadStat

\* The states of the queues after a round.
LEMMA QueuesRead ==
  ASSUME MonitorInv, Read
  PROVE  \A q \in DOMAIN queue_state' :
           SoundState(queue_state'[q], reads') /\ SinceRunning(queue_state'[q], stopped_at')
<1>1. /\ reads \in Nat /\ reads + 1 \in Nat /\ reads < reads + 1 /\ reads' = reads + 1
      /\ stopped_at \in Nat /\ stopped_at =< reads
      /\ stopped_at' = IF running = "stopped" THEN reads + 1 ELSE stopped_at
  BY DEF Read, MonitorInv, MonitorTypeOK
<1>2. PICK seen : seen = IF running = "stopped" THEN {} ELSE DOMAIN queue_state
  OBVIOUS
<1>3. queue_state' =
        [ q \in seen \cup DOMAIN ReadStat |->
            IF q \notin DOMAIN ReadStat THEN queue_state[q]
            ELSE IF q \in seen THEN Updated(queue_state[q], ReadStat[q], reads + 1)
            ELSE NewState(ReadStat[q], reads + 1) ]
  BY <1>2, Zenon DEF Read
<1>4. \A q \in DOMAIN ReadStat : ReadStat[q] \in Nat
  BY ReadStatTyping DEF MonitorInv
<1>5. \A q \in seen : /\ running # "stopped" /\ q \in DOMAIN queue_state
                      /\ SoundState(queue_state[q], reads) /\ SinceRunning(queue_state[q], stopped_at)
  BY <1>2 DEF MonitorInv, SamplesSound
<1> SUFFICES ASSUME NEW q \in DOMAIN queue_state'
             PROVE  SoundState(queue_state'[q], reads + 1) /\ SinceRunning(queue_state'[q], stopped_at')
  BY <1>1
<1>6. q \in seen \cup DOMAIN ReadStat
  BY <1>3
<1>7. PICK s : s = queue_state[q]
  OBVIOUS
<1>8. PICK moment \in Nat : moment = reads + 1
  BY <1>1
<1>9. CASE q \notin DOMAIN ReadStat
  <2>1. queue_state'[q] = s /\ q \in seen
    BY <1>3, <1>6, <1>7, <1>9
  <2>2. SoundState(s, reads) /\ SinceRunning(s, stopped_at) /\ stopped_at' = stopped_at
    BY <1>1, <1>5, <1>7, <2>1
  <2>3. SoundState(s, reads + 1)
    BY <1>1, <2>2, LaterSound
  <2> QED
    BY <2>1, <2>2, <2>3
<1>10. CASE q \in DOMAIN ReadStat /\ q \in seen
  <2>1. PICK n \in Nat : n = ReadStat[q]
    BY <1>4, <1>10
  <2>2. PICK u : u = Updated(s, n, moment)
    OBVIOUS
  <2>3. queue_state'[q] = u
    BY <1>3, <1>6, <1>7, <1>8, <1>10, <2>1, <2>2
  <2>4. SoundState(s, reads) /\ SinceRunning(s, stopped_at) /\ stopped_at' = stopped_at
    BY <1>1, <1>5, <1>7, <1>10
  <2>5. /\ SoundState(u, moment) /\ ~u.reset_next
        /\ u.history[1].at = moment \/ (~s.reset_next /\ u.history[1].at >= s.history[1].at)
    BY <1>1, <1>8, <2>2, <2>4, UpdatedSound
  <2>6. s.history[1].at \in Nat /\ u.history[1].at \in Nat
    BY <2>4, <2>5, FirstSample
  <2>7. u.history[1].at > stopped_at
    BY <1>1, <1>8, <2>4, <2>5, <2>6 DEF SinceRunning
  <2> QED
    BY <1>8, <2>3, <2>4, <2>5, <2>7 DEF SinceRunning
<1>11. CASE q \in DOMAIN ReadStat /\ q \notin seen
  <2>1. PICK n \in Nat : n = ReadStat[q]
    BY <1>4, <1>11
  <2>2. PICK u : u = NewState(n, moment)
    OBVIOUS
  <2>3. queue_state'[q] = u
    BY <1>3, <1>6, <1>8, <1>11, <2>1, <2>2
  <2>4. SoundState(u, moment) /\ u.reset_next
    BY <2>2, NewStateSound
  <2> QED
    BY <1>8, <2>3, <2>4 DEF SinceRunning
<1> QED
  BY <1>6, <1>9, <1>10, <1>11

\* The state of the sum after a round.
LEMMA TotalRead ==
  ASSUME MonitorInv, Read
  PROVE  \A state \in total_state' : SoundState(state, reads')
<1>1. PICK moment \in Nat : moment = reads + 1 /\ reads' = moment
  BY DEF Read, MonitorInv, MonitorTypeOK
<1>2. PICK buffer \in {0, 1} :
        total_state' =
         IF running = "stopped"
           THEN { Updated(NewState(0, moment), Total(buffer), moment) }
         ELSE IF total_state = {} THEN { NewState(Total(buffer), moment) }
         ELSE { Updated(s, Total(buffer), moment) : s \in total_state }
  BY <1>1 DEF Read
<1>3. PICK n \in Nat : n = Total(buffer)
  BY TotalTyping DEF MonitorInv
<1>4. reads \in Nat /\ reads < moment
  BY <1>1 DEF MonitorInv, MonitorTypeOK
<1> SUFFICES ASSUME NEW u \in total_state'
             PROVE  SoundState(u, moment)
  BY <1>1
<1>5. CASE running = "stopped"
  <2>1. PICK s : s = [counter |-> 0, history |-> <<[at |-> moment, count |-> 0]>>, reset_next |-> TRUE]
    OBVIOUS
  <2>2. s = NewState(0, moment)
    BY <2>1 DEF NewState
  <2>3. PICK h : h = <<[at |-> moment, count |-> n]>>
    OBVIOUS
  <2>4. s.reset_next
    BY <2>1
  <2>5. u = Updated(s, n, moment)
    BY <1>2, <1>3, <1>5, <2>2
  <2>6. u = [counter |-> n, history |-> Newest(h), reset_next |-> FALSE]
    BY <2>3, <2>4, <2>5 DEF Updated
  <2>7. SoundHistory(h, n, moment)
    BY <2>3, SampleSound
  <2>8. PICK g : g = Newest(h)
    OBVIOUS
  <2>11. SoundHistory(g, n, moment) /\ Len(g) =< MaxHistory
    BY <2>7, <2>8, NewestSound
  <2>9. SoundHistory(g, n, moment) /\ Len(g) =< MaxHistory /\ g \in Seq(Sample)
    BY <2>11 DEF SoundHistory
  <2>10. u \in QueueState /\ u.counter = n /\ u.history = g /\ ~u.reset_next
    BY <2>6, <2>8, <2>9 DEF QueueState
  <2> QED
    BY <2>9, <2>10 DEF SoundState
<1>6. CASE running # "stopped" /\ total_state = {}
  <2>1. u = NewState(n, moment)
    BY <1>2, <1>3, <1>6
  <2> QED
    BY <2>1, NewStateSound
<1>7. CASE running # "stopped" /\ total_state # {}
  <2>1. PICK s \in total_state : u = Updated(s, n, moment)
    BY <1>2, <1>3, <1>7
  <2>2. SoundState(s, reads)
    BY DEF MonitorInv, SamplesSound
  <2> QED
    BY <1>4, <2>1, <2>2, UpdatedSound
<1> QED
  BY <1>5, <1>6, <1>7

\* What is shown of samples that fall.
LEMMA StateSound ==
  ASSUME NEW s, NEW moment, SoundState(s, moment)
  PROVE  Sound(s)
<1> SUFFICES ASSUME Estimated(s)
             PROVE  /\ WindowChange(s) > 0 /\ WindowTime(s) > 0
                    /\ CompletionEstimate(s) > Last(s.history).at * WindowChange(s)
                    /\ Last(s.history).count = s.counter
                    /\ Len(s.history) =< MaxHistory
  BY DEF Sound
<1>1. PICK h \in Seq(Sample) : h = s.history
  BY DEF SoundState, SoundHistory
<1>2. PICK l \in Nat : l = Len(h) /\ 1 < l
  BY <1>1, LenProperties DEF Estimated
<1>3. 1 \in 1 .. Len(h) /\ l \in 1 .. Len(h)
  BY <1>2
<1>4. PICK t1 \in Nat, c1 \in Nat : t1 = h[1].at /\ c1 = h[1].count
  BY <1>3, SampleTyping
<1>5. PICK t2 \in Nat, c2 \in Nat : t2 = h[l].at /\ c2 = h[l].count
  BY <1>3, SampleTyping
<1>6. t1 < t2 /\ c1 > c2 /\ c2 = s.counter /\ c2 > 0 /\ l =< MaxHistory
  BY <1>1, <1>2, <1>3, <1>4, <1>5 DEF SoundState, SoundHistory, Falling, Estimated
<1>7. Last(s.history) = h[l]
  BY <1>1, <1>2 DEF Last
<1>8. WindowChange(s) = c1 - c2 /\ WindowTime(s) = t2 - t1
  BY <1>1, <1>4, <1>5, <1>7 DEF WindowChange, WindowTime
<1>9. PICK d \in Nat \ {0}, w \in Nat \ {0} : d = c1 - c2 /\ w = t2 - t1
  BY <1>6
<1>10. CompletionEstimate(s) = t2 * d + c2 * w
  BY <1>5, <1>6, <1>7, <1>8, <1>9 DEF CompletionEstimate
<1>11. \A a, b \in Nat \ {0} : a * b \in Nat \ {0}
  OBVIOUS
<1>12. t2 * d \in Int
  OBVIOUS
<1>13. c2 * w \in Nat \ {0}
  BY <1>6, <1>11
<1>14. t2 * d + c2 * w > t2 * d
  BY <1>12, <1>13
<1>15. WindowChange(s) > 0 /\ WindowTime(s) > 0
  BY <1>8, <1>9
<1>16. Last(s.history).at = t2 /\ WindowChange(s) = d
  BY <1>5, <1>7, <1>8, <1>9
<1>17. CompletionEstimate(s) > Last(s.history).at * WindowChange(s)
  BY <1>10, <1>14, <1>16
<1> QED
  BY <1>1, <1>2, <1>5, <1>6, <1>7, <1>15, <1>17

\* Only a round changes what is kept.
LEMMA SamplesKept ==
  ASSUME MonitorInv, UNCHANGED <<shown, reads, stopped_at>>
  PROVE  SamplesSound'
BY DEF MonitorInv, SamplesSound, shown

LEMMA MonitorInit_Inv ==
  ASSUME MonitorInit PROVE MonitorInv
<1>1. MaxCount \in Nat /\ DOMAIN queue_state = {}
  BY MonitorAssumption DEF MonitorInit
<1>2. MonitorTypeOK
  BY <1>1 DEF MonitorInit, MonitorTypeOK
<1>3. SamplesSound
  BY <1>1 DEF MonitorInit, SamplesSound
<1> QED
  BY <1>2, <1>3 DEF MonitorInv

LEMMA MonitorNext_Inv ==
  ASSUME MonitorInv, [MonitorNext]_monitorvars
  PROVE  MonitorInv'
<1> USE DEF MonitorInv
<1>0. MaxCount \in Nat
  BY MonitorAssumption
<1>1. CASE Read
  <2>1. reads' \in Nat /\ stopped_at' \in Nat /\ stopped_at' =< reads'
    BY <1>1 DEF Read, MonitorTypeOK
  <2>2. DOMAIN queue_state' \in SUBSET Queue
    <3>1. PICK seen : seen = IF running = "stopped" THEN {} ELSE DOMAIN queue_state
      OBVIOUS
    <3>2. DOMAIN queue_state' = seen \cup DOMAIN ReadStat
      BY <1>1, <3>1 DEF Read
    <3> QED
      BY <3>1, <3>2, ReadStatTyping DEF MonitorTypeOK
  <2>3. MonitorTypeOK'
    BY <1>1, <2>1, <2>2 DEF Read, MonitorTypeOK
  <2>4. SamplesSound'
    BY <1>1, QueuesRead, TotalRead DEF SamplesSound
  <2> QED
    BY <2>3, <2>4
<1>2. CASE Switch
  <2>1. MonitorTypeOK'
    BY <1>2 DEF Switch, MonitorTypeOK, shown
  <2> QED
    BY <1>2, <2>1, SamplesKept DEF Switch
<1>3. ASSUME NEW q \in Queue, Fill(q) PROVE MonitorInv'
  <2>1. MonitorTypeOK'
    BY <1>0, <1>3 DEF Fill, MonitorTypeOK, shown
  <2> QED
    BY <1>3, <2>1, SamplesKept DEF Fill
<1>4. ASSUME NEW q \in Queue, Take(q) PROVE MonitorInv'
  <2>1. MonitorTypeOK'
    BY <1>0, <1>4 DEF Take, MonitorTypeOK, shown
  <2> QED
    BY <1>4, <2>1, SamplesKept DEF Take
<1>5. CASE UNCHANGED monitorvars
  <2>1. MonitorTypeOK'
    BY <1>5 DEF monitorvars, shown, MonitorTypeOK
  <2> QED
    BY <1>5, <2>1, SamplesKept DEF monitorvars
<1> QED
  BY <1>1, <1>2, <1>3, <1>4, <1>5 DEF MonitorNext, MonitorDone

LEMMA MonitorInv_Estimates ==
  ASSUME MonitorInv PROVE EstimateSound
<1>1. \A state \in total_state : Sound(state)
  BY StateSound DEF MonitorInv, SamplesSound
<1>2. ASSUME NEW q \in DOMAIN queue_state
      PROVE  /\ Sound(queue_state[q])
             /\ Estimated(queue_state[q]) => queue_state[q].history[1].at > stopped_at
  <2>1. SoundState(queue_state[q], reads) /\ SinceRunning(queue_state[q], stopped_at)
    BY DEF MonitorInv, SamplesSound
  <2>3. PICK s : s = queue_state[q]
    OBVIOUS
  <2>4. s.history \in Seq(Sample) /\ (s.reset_next => Len(s.history) = 1)
    BY <2>1, <2>3 DEF SoundState, SoundHistory
  <2>5. ~(1 > 1)
    OBVIOUS
  <2>2. Estimated(queue_state[q]) => ~queue_state[q].reset_next
    BY <2>3, <2>4, <2>5 DEF Estimated
  <2> QED
    BY <2>1, <2>2, StateSound DEF SinceRunning
<1> QED
  BY <1>1, <1>2 DEF EstimateSound

\* Whatever comes and goes in whatever queues, and whenever the daemons start and stop:
\* the monitor divides by no change only where it shows nothing, and takes no time before
\* the last round in which all daemons were stopped into the rate of a queue
\* (QueueState.update, browsewatch_monitor.py).
THEOREM EstimatesAreSound == MonitorSpec => []EstimateSound
<1>1. MonitorInit => MonitorInv
  BY MonitorInit_Inv
<1>2. MonitorInv /\ [MonitorNext]_monitorvars => MonitorInv'
  BY MonitorNext_Inv
<1>3. MonitorInv => EstimateSound
  BY MonitorInv_Estimates
<1> QED
  BY <1>1, <1>2, <1>3, PTL DEF MonitorSpec

-----------------------------------------------------------------------------
(* ngeo.conf: what the file, the copies in memory and the requests hold    *)

Conf == UNION { [S -> Nat] : S \in SUBSET Section }

AnyElement == Element \cup {"layers", "revision", "get"}

Jobs == [todo : Seq(AnyElement), done : SUBSET AnyElement, value : Nat, copy : Nat]

ConfigTypeOK ==
  /\ conf \in Conf /\ mtime \in Nat /\ baseurl \in Nat
  /\ instance \in [Proc -> Conf \cup {NotRead}]
  /\ timestamp \in [Proc -> Nat]
  /\ confpc \in [Proc -> {"idle", "next", "load", "stamp", "set", "layers", "write"}]
  /\ job \in [Proc -> Jobs]
  /\ requests \in Nat
  /\ accepted \in [Section \cup {"baseurl"} -> SUBSET Nat]

\* What a process is about to do, and has in memory for it.
RequestInv ==
  \A p \in Proc :
    /\ timestamp[p] =< mtime
    /\ confpc[p] = "idle" => job[p].done = {}
    /\ confpc[p] \in {"load", "stamp", "set", "layers"} => job[p].todo # << >>
    /\ confpc[p] = "next" => job[p].todo # << >> \/ job[p].done # {}
    /\ confpc[p] \in {"stamp", "set", "layers", "write"} \/ job[p].done # {} => instance[p] # NotRead
    /\ confpc[p] = "layers" => Head(job[p].todo) = "layers"
    /\ \/ job[p].todo \in Seq(AnyElement \ {"get"})
       \/ job[p].todo = << "get" >> /\ job[p].done = {}

\* An empty file is one that somebody is writing.
CompleteInv ==
  "torn" \notin marks =>
    /\ \A p \in Proc : instance[p] # NotRead => Key \subseteq DOMAIN instance[p]
    /\ Key \subseteq DOMAIN conf \/ (DOMAIN conf = {} /\ \E p \in Proc : confpc[p] = "write")

AloneInv ==
  "overlap" \notin marks =>
    /\ \A p, q \in Proc : confpc[p] # "idle" /\ confpc[q] # "idle" => p = q
    /\ \A p \in Proc : confpc[p] = "write" => conf = << >>

\* What a process has in memory counts, as it is not read again.
InUse(p) == Fresh(p) \/ confpc[p] \in {"stamp", "set", "layers", "write"}

\* It has the values that were accepted, but for what the request has set.
Current(p) ==
  \A k \in DOMAIN instance[p] :
    IF k \in job[p].done THEN instance[p][k] = job[p].value ELSE instance[p][k] \in accepted[k]

ValuesInv ==
  "torn" \notin marks /\ "overlap" \notin marks =>
    /\ \A k \in DOMAIN conf : conf[k] \in accepted[k]
    /\ \/ baseurl \in accepted["baseurl"]
       \/ \E p \in Proc : "baseurl" \in job[p].done /\ baseurl = job[p].value
    /\ \A p \in Proc :
         /\ confpc[p] = "layers" => job[p].copy = baseurl
         /\ confpc[p] \in {"load", "stamp"} => job[p].done = {}
         /\ confpc[p] \in {"set", "layers"} => Fresh(p)
         /\ job[p].done # {} => Fresh(p) \/ confpc[p] = "write"
         /\ "baseurl" \in job[p].done => baseurl = job[p].value
         /\ InUse(p) => Current(p)

ConfigInv == ConfigTypeOK /\ RequestInv /\ CompleteInv /\ AloneInv /\ ValuesInv

LEMMA ConfFacts ==
  /\ << >> \in Conf /\ DOMAIN << >> = {}
  /\ \A c \in Conf : /\ c # NotRead /\ DOMAIN c \subseteq Section
                     /\ c = [k \in DOMAIN c |-> c[k]] /\ \A k \in DOMAIN c : c[k] \in Nat
<1>1. \A c \in Conf : /\ c # NotRead /\ DOMAIN c \subseteq Section
                     /\ c = [k \in DOMAIN c |-> c[k]] /\ \A k \in DOMAIN c : c[k] \in Nat
  BY ConfigAssumption DEF Conf
<1>2. DOMAIN << >> = {} /\ << >> \in [{} -> Nat]
  OBVIOUS
<1> QED
  BY <1>1, <1>2 DEF Conf

LEMMA ConfOf ==
  ASSUME NEW S \in SUBSET Section, NEW c \in [S -> Nat]
  PROVE  c \in Conf
BY DEF Conf

LEMMA SetInConf ==
  ASSUME NEW c \in Conf, NEW k \in DOMAIN c, NEW v \in Nat
  PROVE  [c EXCEPT ![k] = v] \in Conf
BY DEF Conf

\* What is written over something has all that is written, and just that in an empty file.
LEMMA OverFacts ==
  ASSUME NEW old \in Conf, NEW new \in Conf, NEW c \in Over(old, new)
  PROVE  /\ c \in Conf /\ DOMAIN new \subseteq DOMAIN c
         /\ old = << >> => c = new
<1>1. PICK rest \in SUBSET DOMAIN old :
        c = [ k \in DOMAIN new \cup rest |-> IF k \in rest THEN old[k] ELSE new[k] ]
  BY DEF Over
<1>2. DOMAIN c = DOMAIN new \cup rest
  BY <1>1
<1>3. c \in Conf
  <2>1. DOMAIN new \cup rest \in SUBSET Section
    BY ConfFacts
  <2>2. \A k \in DOMAIN new \cup rest : (IF k \in rest THEN old[k] ELSE new[k]) \in Nat
    BY ConfFacts
  <2>3. c \in [DOMAIN new \cup rest -> Nat]
    BY <1>1, <2>2
  <2> QED
    BY <2>1, <2>3, ConfOf
<1>4. ASSUME old = << >> PROVE c = new
  <2>1. rest = {}
    BY <1>4, ConfFacts
  <2>2. c = [k \in DOMAIN new |-> new[k]]
    BY <1>1, <2>1
  <2> QED
    BY <2>2, ConfFacts
<1> QED
  BY <1>2, <1>3, <1>4

LEMMA NowTyping ==
  ASSUME ConfigTypeOK, NEW p \in Proc, job[p].todo # << >>
  PROVE  Now(p) \in AnyElement /\ Tail(job[p].todo) \in Seq(AnyElement)
<1>1. job[p].todo \in Seq(AnyElement)
  BY DEF ConfigTypeOK, Jobs
<1> QED
  BY <1>1, HeadTailProperties DEF Now

LEMMA RequestsTyping ==
  \A r \in Requests : /\ r \in Seq(AnyElement) /\ r # << >>
                      /\ r \in Seq(AnyElement \ {"get"}) \/ r = << "get" >>
<1>1. Element \subseteq AnyElement \ {"get"} /\ {"layers", "revision"} \subseteq AnyElement \ {"get"}
  BY DEF AnyElement, Element, Key
<1>2. \A r \in Changes : r \in Seq(AnyElement) /\ r # << >> /\ r \in Seq(AnyElement \ {"get"})
  BY <1>1, ConfigAssumption
<1>3. /\ << "layers", "revision" >> \in Seq(AnyElement \ {"get"}) /\ << "layers", "revision" >> # << >>
      /\ << "layers", "revision" >> \in Seq(AnyElement)
  BY <1>1
<1>4. << "get" >> \in Seq(AnyElement) /\ << "get" >> # << >>
  BY DEF AnyElement
<1> QED
  BY <1>2, <1>3, <1>4 DEF Requests

\* What a step of p leaves to the others.
LEMMA OthersKeep ==
  ASSUME ConfigTypeOK, NEW p \in Proc, NEW q \in Proc, q # p,
         \/ BeginRequest(p) \/ NextElement(p) \/ Load(p) \/ Stamp(p)
         \/ SetKey(p) \/ SetRevision(p) \/ SetBaseurl(p) \/ GetConfiguration(p)
         \/ CopyXml(p) \/ SyncLayers(p) \/ OpenConf(p) \/ WriteConf(p) \/ Restart(p)
  PROVE  /\ confpc'[q] = confpc[q] /\ job'[q] = job[q]
         /\ instance'[q] = instance[q] /\ timestamp'[q] = timestamp[q]
BY Zenon DEF BeginRequest, NextElement, Load, Stamp, SetKey, SetRevision, SetBaseurl, GetConfiguration,
       CopyXml, SyncLayers, OpenConf, WriteConf, Restart, EndJob, RefuseRequest, Go, Advance,
       memory, stored, ConfigTypeOK

\* A request that is refused, and what stays of it.
LEMMA RefuseFacts ==
  ASSUME ConfigTypeOK, NEW p \in Proc, RefuseRequest(p)
  PROVE  /\ confpc' = [confpc EXCEPT ![p] = "idle"] /\ job' = [job EXCEPT ![p] = NoJob]
         /\ accepted' \in [Section \cup {"baseurl"} -> SUBSET Nat]
         /\ \A k \in Section \cup {"baseurl"} :
              /\ accepted[k] \subseteq accepted'[k]
              /\ k \in job[p].done => job[p].value \in accepted'[k]
<1>1. DOMAIN accepted = Section \cup {"baseurl"} /\ job[p].value \in Nat
  BY DEF ConfigTypeOK, Jobs
<1>2. accepted' = [k \in Section \cup {"baseurl"} |->
                     accepted[k] \cup IF k \in job[p].done THEN {job[p].value} ELSE {}]
  BY <1>1 DEF RefuseRequest
<1>3. \A k \in Section \cup {"baseurl"} : accepted[k] \in SUBSET Nat
  BY DEF ConfigTypeOK
<1> QED
  BY <1>1, <1>2, <1>3 DEF RefuseRequest, EndJob, Go

LEMMA JobWith ==
  ASSUME NEW j \in Jobs, NEW t, NEW d
  PROVE  [j EXCEPT !.todo = t, !.done = d] = [todo |-> t, done |-> d, value |-> j.value, copy |-> j.copy]
<1>1. PICK u : u = [j EXCEPT !.todo = t]
  OBVIOUS
<1>2. u = [todo |-> t, done |-> j.done, value |-> j.value, copy |-> j.copy]
  BY <1>1 DEF Jobs
<1>3. [u EXCEPT !.done = d] = [todo |-> t, done |-> d, value |-> j.value, copy |-> j.copy]
  BY <1>2
<1>4. [j EXCEPT !.todo = t, !.done = d] = [u EXCEPT !.done = d]
  BY <1>1
<1> QED
  BY <1>3, <1>4

\* An element that is done, and the next one.
LEMMA AdvanceFacts ==
  ASSUME ConfigTypeOK, NEW p \in Proc, Advance(p), job[p].todo # << >>
  PROVE  /\ confpc' = [confpc EXCEPT ![p] = "next"]
         /\ job' \in [Proc -> Jobs]
         /\ job'[p].done = job[p].done \cup {Now(p)} /\ job'[p].value = job[p].value
         /\ job'[p].todo = Tail(job[p].todo)
<1>1. job[p] \in Jobs /\ job \in [Proc -> Jobs]
  BY DEF ConfigTypeOK
<1>2. job' = [job EXCEPT ![p] = [todo |-> Tail(job[p].todo), done |-> job[p].done \cup {Now(p)},
                                 value |-> job[p].value, copy |-> job[p].copy]]
  <2>1. [job[p] EXCEPT !.todo = Tail(job[p].todo), !.done = job[p].done \cup {Now(p)}]
          = [todo |-> Tail(job[p].todo), done |-> job[p].done \cup {Now(p)},
             value |-> job[p].value, copy |-> job[p].copy]
    BY <1>1, JobWith
  <2> QED
    BY <2>1 DEF Advance
<1>3. [todo |-> Tail(job[p].todo), done |-> job[p].done \cup {Now(p)},
       value |-> job[p].value, copy |-> job[p].copy] \in Jobs
  BY <1>1, NowTyping DEF Jobs
<1> QED
  BY <1>1, <1>2, <1>3 DEF Advance, Go

LEMMA ConfigTyping ==
  ASSUME ConfigTypeOK, RequestInv, [ConfigNext]_confvars
  PROVE  ConfigTypeOK'
<1>0. NoJob \in Jobs
  BY DEF NoJob, Jobs
<1>1. ASSUME NEW p \in Proc, BeginRequest(p) PROVE ConfigTypeOK'
  <2>1. PICK r \in Requests :
          job' = [job EXCEPT ![p] = [todo |-> r, done |-> {}, value |-> requests + 1, copy |-> 0]]
    BY <1>1 DEF BeginRequest, NoJob
  <2>2. [todo |-> r, done |-> {}, value |-> requests + 1, copy |-> 0] \in Jobs
    <3>1. r \in Seq(AnyElement)
      BY <2>1, RequestsTyping
    <3>2. requests + 1 \in Nat
      BY DEF ConfigTypeOK
    <3> QED
      BY <3>1, <3>2 DEF Jobs
  <2>3. job' \in [Proc -> Jobs]
    BY <2>1, <2>2 DEF ConfigTypeOK
  <2> QED
    BY <1>1, <2>3 DEF BeginRequest, ConfigTypeOK, Go, stored, memory
<1>2. ASSUME NEW p \in Proc, NextElement(p) PROVE ConfigTypeOK'
  <2>1. CASE RefuseRequest(p)
    <3>1. /\ confpc' = [confpc EXCEPT ![p] = "idle"] /\ job' = [job EXCEPT ![p] = NoJob]
          /\ accepted' \in [Section \cup {"baseurl"} -> SUBSET Nat]
      BY <2>1, RefuseFacts
    <3>2. /\ confpc' \in [Proc -> {"idle", "next", "load", "stamp", "set", "layers", "write"}]
          /\ job' \in [Proc -> Jobs]
      BY <1>0, <3>1 DEF ConfigTypeOK
    <3>3. UNCHANGED <<conf, mtime, baseurl, instance, timestamp, requests>>
      BY <1>2 DEF NextElement, stored, memory
    <3> QED
      BY <3>1, <3>2, <3>3 DEF ConfigTypeOK
  <2>2. CASE Go(p, IF Fresh(p) THEN "set" ELSE "load") /\ UNCHANGED <<job, accepted>>
    BY <1>2, <2>2 DEF NextElement, ConfigTypeOK, stored, memory, Go
  <2> QED
    BY <1>2, <2>1, <2>2 DEF NextElement
<1>3. ASSUME NEW p \in Proc, Load(p) \/ Stamp(p) \/ OpenConf(p) PROVE ConfigTypeOK'
  <2>1. CASE Load(p)
    BY <2>1 DEF Load, ConfigTypeOK, Go, stored
  <2>2. CASE Stamp(p)
    BY <2>2 DEF Stamp, ConfigTypeOK, Go, stored
  <2>3. CASE OpenConf(p)
    BY <2>3, ConfFacts DEF OpenConf, ConfigTypeOK, Go, memory
  <2> QED
    BY <1>3, <2>1, <2>2, <2>3
<1>4. ASSUME NEW p \in Proc, SetKey(p) PROVE ConfigTypeOK'
  <2>1. CASE RefuseRequest(p) /\ UNCHANGED instance
    BY <1>0, <1>4, <2>1, RefuseFacts DEF SetKey, ConfigTypeOK, stored
  <2>2. CASE /\ Now(p) \in DOMAIN instance[p]
             /\ instance' = [instance EXCEPT ![p] = [@ EXCEPT ![Now(p)] = job[p].value]]
             /\ Advance(p) /\ UNCHANGED accepted
    <3>1. job[p].todo # << >> /\ instance[p] \in Conf /\ job[p].value \in Nat
      BY <1>4 DEF SetKey, RequestInv, ConfigTypeOK, Jobs
    <3>2. [instance[p] EXCEPT ![Now(p)] = job[p].value] \in Conf
      BY <2>2, <3>1, SetInConf
    <3> QED
      BY <1>4, <2>2, <3>1, <3>2, AdvanceFacts DEF SetKey, ConfigTypeOK, stored
  <2> QED
    BY <1>4, <2>1, <2>2 DEF SetKey
<1>5. ASSUME NEW p \in Proc, SetRevision(p) PROVE ConfigTypeOK'
  <2>1. job[p].todo # << >> /\ instance[p] \in Conf /\ job[p].value \in Nat
    BY <1>5 DEF SetRevision, RequestInv, ConfigTypeOK, Jobs
  <2> DEFINE i == [ k \in DOMAIN instance[p] \cup {"revision"} |->
                      IF k = "revision" THEN job[p].value ELSE instance[p][k] ]
  <2>2. i \in Conf
    <3>1. DOMAIN instance[p] \cup {"revision"} \in SUBSET Section
      BY <2>1, ConfFacts DEF Section
    <3>2. i \in [DOMAIN instance[p] \cup {"revision"} -> Nat]
      BY <2>1, ConfFacts
    <3> QED
      BY <3>1, <3>2, ConfOf
  <2>3. instance' = [instance EXCEPT ![p] = i]
    BY <1>5 DEF SetRevision
  <2> HIDE DEF i
  <2>4. job' \in [Proc -> Jobs] /\ confpc' = [confpc EXCEPT ![p] = "next"]
    BY <1>5, <2>1, AdvanceFacts DEF SetRevision
  <2>5. UNCHANGED <<stored, timestamp, requests, accepted>>
    BY <1>5 DEF SetRevision
  <2> QED
    BY <2>2, <2>3, <2>4, <2>5 DEF ConfigTypeOK, stored
<1>6. ASSUME NEW p \in Proc, SetBaseurl(p) PROVE ConfigTypeOK'
  <2>1. job[p].todo # << >> /\ job[p].value \in Nat
    BY <1>6 DEF SetBaseurl, RequestInv, ConfigTypeOK, Jobs
  <2>2. CASE baseurl' = job[p].value /\ Advance(p) /\ UNCHANGED accepted
    BY <1>6, <2>1, <2>2, AdvanceFacts DEF SetBaseurl, ConfigTypeOK, memory
  <2>3. CASE RefuseRequest(p) /\ UNCHANGED baseurl
    BY <1>0, <1>6, <2>3, RefuseFacts DEF SetBaseurl, ConfigTypeOK, memory
  <2> QED
    BY <1>6, <2>2, <2>3 DEF SetBaseurl
<1>7. ASSUME NEW p \in Proc, GetConfiguration(p) PROVE ConfigTypeOK'
  BY <1>0, <1>7 DEF GetConfiguration, EndJob, Go, ConfigTypeOK, stored, memory
<1>8. ASSUME NEW p \in Proc, CopyXml(p) PROVE ConfigTypeOK'
  <2>1. CASE job' = [job EXCEPT ![p].copy = baseurl] /\ Go(p, "layers") /\ UNCHANGED accepted
    <3>1. job' \in [Proc -> Jobs]
      BY <2>1 DEF ConfigTypeOK, Jobs
    <3> QED
      BY <1>8, <2>1, <3>1 DEF CopyXml, Go, ConfigTypeOK, stored, memory
  <2>2. CASE RefuseRequest(p)
    BY <1>0, <1>8, <2>2, RefuseFacts DEF CopyXml, ConfigTypeOK, stored, memory
  <2> QED
    BY <1>8, <2>1, <2>2 DEF CopyXml
<1>9. ASSUME NEW p \in Proc, SyncLayers(p) PROVE ConfigTypeOK'
  <2>1. job[p].todo # << >> /\ job[p].copy \in Nat
    BY <1>9 DEF SyncLayers, RequestInv, ConfigTypeOK, Jobs
  <2>2. CASE Advance(p) /\ UNCHANGED <<baseurl, accepted>>
    BY <1>9, <2>1, <2>2, AdvanceFacts DEF SyncLayers, ConfigTypeOK, memory
  <2>3. CASE baseurl' = job[p].copy /\ RefuseRequest(p)
    BY <1>0, <1>9, <2>1, <2>3, RefuseFacts DEF SyncLayers, ConfigTypeOK, memory
  <2> QED
    BY <1>9, <2>2, <2>3 DEF SyncLayers
<1>10. ASSUME NEW p \in Proc, WriteConf(p) PROVE ConfigTypeOK'
  <2>1. instance[p] \in Conf /\ job[p].value \in Nat /\ DOMAIN accepted = Section \cup {"baseurl"}
    BY <1>10 DEF WriteConf, RequestInv, ConfigTypeOK, Jobs
  <2>2. accepted' = [ k \in Section \cup {"baseurl"} |->
                        IF k \in job[p].done THEN {job[p].value} ELSE accepted[k] ]
    BY <1>10, <2>1 DEF WriteConf
  <2>3. accepted' \in [Section \cup {"baseurl"} -> SUBSET Nat]
    BY <2>1, <2>2 DEF ConfigTypeOK
  <2>4. conf' \in Conf
    BY <1>10, <2>1, OverFacts DEF WriteConf, ConfigTypeOK
  <2> QED
    BY <1>0, <1>10, <2>1, <2>3, <2>4 DEF WriteConf, EndJob, Go, ConfigTypeOK, memory
<1>11. ASSUME NEW p \in Proc, Restart(p) PROVE ConfigTypeOK'
  BY <1>0, <1>11, RefuseFacts DEF Restart, ConfigTypeOK, stored
<1>12. CASE UNCHANGED confvars
  BY <1>12 DEF confvars, stored, memory, ConfigTypeOK
<1> QED
  BY <1>1, <1>2, <1>3, <1>4, <1>5, <1>6, <1>7, <1>8, <1>9, <1>10, <1>11, <1>12 DEF ConfigNext, ConfigDone


LEMMA NextIsStep ==
  ASSUME [ConfigNext]_confvars
  PROVE  \/ UNCHANGED confvars
         \/ \E p \in Proc :
              \/ BeginRequest(p) \/ NextElement(p) \/ Load(p) \/ Stamp(p)
              \/ SetKey(p) \/ SetRevision(p) \/ SetBaseurl(p) \/ GetConfiguration(p)
              \/ CopyXml(p) \/ SyncLayers(p) \/ OpenConf(p) \/ WriteConf(p) \/ Restart(p)
BY DEF ConfigNext, ConfigDone

\* The clock of the file does not go back.
LEMMA FileAges ==
  ASSUME ConfigTypeOK, NEW p \in Proc,
         \/ BeginRequest(p) \/ NextElement(p) \/ Load(p) \/ Stamp(p)
         \/ SetKey(p) \/ SetRevision(p) \/ SetBaseurl(p) \/ GetConfiguration(p)
         \/ CopyXml(p) \/ SyncLayers(p) \/ OpenConf(p) \/ WriteConf(p) \/ Restart(p)
  PROVE  IF OpenConf(p) \/ WriteConf(p) THEN mtime' = mtime + 1
         ELSE mtime' = mtime /\ conf' = conf
BY DEF BeginRequest, NextElement, Load, Stamp, SetKey, SetRevision, SetBaseurl, GetConfiguration,
       CopyXml, SyncLayers, OpenConf, WriteConf, Restart, stored

LEMMA RequestNext ==
  ASSUME ConfigInv, [ConfigNext]_confvars
  PROVE  RequestInv'
<1> USE DEF ConfigInv
<1>1. CASE UNCHANGED confvars
  BY <1>1 DEF confvars, stored, memory, RequestInv
<1>2. ASSUME NEW p \in Proc,
         \/ BeginRequest(p) \/ NextElement(p) \/ Load(p) \/ Stamp(p)
         \/ SetKey(p) \/ SetRevision(p) \/ SetBaseurl(p) \/ GetConfiguration(p)
         \/ CopyXml(p) \/ SyncLayers(p) \/ OpenConf(p) \/ WriteConf(p) \/ Restart(p)
      PROVE  RequestInv'
  <2> DEFINE Fits(q) ==
        /\ timestamp'[q] =< mtime'
        /\ confpc'[q] = "idle" => job'[q].done = {}
        /\ confpc'[q] \in {"load", "stamp", "set", "layers"} => job'[q].todo # << >>
        /\ confpc'[q] = "next" => job'[q].todo # << >> \/ job'[q].done # {}
        /\ confpc'[q] \in {"stamp", "set", "layers", "write"} \/ job'[q].done # {} => instance'[q] # NotRead
        /\ confpc'[q] = "layers" => Head(job'[q].todo) = "layers"
        /\ \/ job'[q].todo \in Seq(AnyElement \ {"get"})
           \/ job'[q].todo = << "get" >> /\ job'[q].done = {}
  <2>0. /\ mtime \in Nat /\ mtime' \in Nat /\ mtime' >= mtime /\ timestamp[p] \in Nat /\ timestamp[p] =< mtime
        /\ job[p] \in Jobs /\ job \in [Proc -> Jobs] /\ instance \in [Proc -> Conf \cup {NotRead}]
        /\ timestamp \in [Proc -> Nat] /\ DOMAIN confpc = Proc
    BY <1>2, FileAges DEF ConfigTypeOK, RequestInv
  <2>1. ASSUME NEW q \in Proc, q # p PROVE Fits(q)
    <3>1. /\ confpc'[q] = confpc[q] /\ job'[q] = job[q]
          /\ instance'[q] = instance[q] /\ timestamp'[q] = timestamp[q]
      BY <1>2, <2>1, OthersKeep
    <3>2. timestamp[q] \in Nat /\ timestamp[q] =< mtime
      BY DEF ConfigTypeOK, RequestInv
    <3>3. timestamp'[q] =< mtime'
      BY <2>0, <3>1, <3>2
    <3> QED
      BY <3>1, <3>3 DEF RequestInv
  <2>21. \/ job[p].todo \in Seq(AnyElement \ {"get"})
         \/ job[p].todo = << "get" >> /\ job[p].done = {}
    BY DEF RequestInv
  <2>22. << >> \in Seq(AnyElement \ {"get"})
    OBVIOUS
  <2>2. ASSUME RefuseRequest(p), timestamp'[p] = timestamp[p] \/ timestamp'[p] = 0 PROVE Fits(p)
    <3>1. confpc'[p] = "idle" /\ job'[p] = NoJob
      BY <2>0, <2>2, RefuseFacts
    <3>2. timestamp'[p] =< mtime'
      BY <2>0, <2>2
    <3> QED
      BY <2>22, <3>1, <3>2 DEF NoJob
  <2>3. ASSUME Advance(p), job[p].todo # << >>, Now(p) # "get", timestamp'[p] = timestamp[p], instance'[p] # NotRead PROVE Fits(p)
    <3>1. confpc'[p] = "next" /\ job'[p].done # {} /\ job'[p].todo = Tail(job[p].todo)
      BY <2>0, <2>3, AdvanceFacts
    <3>2. job[p].todo \in Seq(AnyElement \ {"get"})
      BY <2>3, <2>21 DEF Now
    <3>3. job'[p].todo \in Seq(AnyElement \ {"get"})
      BY <2>3, <3>1, <3>2, HeadTailProperties
    <3> QED
      BY <2>0, <2>3, <3>1, <3>3
  <2>4. ASSUME BeginRequest(p) PROVE Fits(p)
    <3>1. PICK r \in Requests : job'[p] = [todo |-> r, done |-> {}, value |-> requests + 1, copy |-> 0]
      BY <2>0, <2>4 DEF BeginRequest, NoJob
    <3>2. confpc'[p] = "next" /\ timestamp' = timestamp /\ r # << >>
      BY <2>0, <2>4, RequestsTyping DEF BeginRequest, Go, memory
    <3> QED
      BY <2>0, <3>1, <3>2, RequestsTyping
  <2>5. ASSUME NextElement(p) PROVE Fits(p)
    <3>1. CASE RefuseRequest(p)
      BY <2>2, <2>5, <3>1 DEF NextElement, memory
    <3>2. CASE Go(p, IF Fresh(p) THEN "set" ELSE "load") /\ UNCHANGED <<job, accepted>>
      <4>1. confpc'[p] = IF Fresh(p) THEN "set" ELSE "load"
        BY <2>0, <3>2 DEF Go
      <4> QED
        BY <2>0, <2>5, <3>2, <4>1 DEF NextElement, memory, Fresh, RequestInv
    <3> QED
      BY <2>5, <3>1, <3>2 DEF NextElement
  <2>6. ASSUME Load(p) PROVE Fits(p)
    <3>1. confpc'[p] = "stamp" /\ instance'[p] = conf /\ job' = job /\ timestamp' = timestamp /\ conf # NotRead
      BY <2>0, <2>6, ConfFacts DEF Load, Go, ConfigTypeOK
    <3> QED
      BY <2>0, <2>6, <3>1 DEF Load, RequestInv
  <2>7. ASSUME Stamp(p) PROVE Fits(p)
    <3>1. confpc'[p] = "set" /\ timestamp'[p] = mtime /\ job' = job /\ instance' = instance
      BY <2>0, <2>7 DEF Stamp, Go
    <3> QED
      BY <2>0, <2>7, <3>1 DEF Stamp, RequestInv
  <2>8. ASSUME SetKey(p) PROVE Fits(p)
    <3>1. confpc[p] = "set" /\ job[p].todo # << >> /\ instance[p] # NotRead /\ instance[p] \in Conf
      BY <2>0, <2>8 DEF SetKey, RequestInv
    <3>2. CASE /\ Now(p) \in DOMAIN instance[p]
               /\ instance' = [instance EXCEPT ![p] = [@ EXCEPT ![Now(p)] = job[p].value]]
               /\ Advance(p)
      <4>1. [instance[p] EXCEPT ![Now(p)] = job[p].value] \in Conf
        BY <2>0, <3>1, <3>2, SetInConf DEF Jobs
      <4>2. instance'[p] # NotRead
        BY <2>0, <3>2, <4>1, ConfFacts
      <4> QED
        BY <2>3, <2>8, <3>1, <3>2, <4>2 DEF SetKey, Key
    <3>3. CASE RefuseRequest(p)
      BY <2>2, <2>8, <3>3 DEF SetKey
    <3> QED
      BY <2>8, <3>2, <3>3 DEF SetKey
  <2>9. ASSUME SetRevision(p) PROVE Fits(p)
    <3>1. instance'[p] # NotRead
      <4>1. instance' \in [Proc -> Conf \cup {NotRead}]
        BY ConfigTyping DEF ConfigTypeOK
      <4>2. "revision" \in DOMAIN instance'[p]
        BY <2>0, <2>9 DEF SetRevision
      <4>3. instance'[p] = [ k \in DOMAIN instance[p] \cup {"revision"} |->
                               IF k = "revision" THEN job[p].value ELSE instance[p][k] ]
        BY <2>0, <2>9 DEF SetRevision
      <4>4. instance[p] \in Conf /\ job[p].value \in Nat
        BY <2>0, <2>9 DEF SetRevision, RequestInv, Jobs
      <4>5. DOMAIN instance[p] \cup {"revision"} \in SUBSET Section
        BY <4>4, ConfFacts DEF Section
      <4>6. instance'[p] \in [DOMAIN instance[p] \cup {"revision"} -> Nat]
        BY <4>3, <4>4, ConfFacts
      <4> QED
        BY <4>5, <4>6, ConfOf, ConfFacts
    <3> QED
      BY <2>0, <2>3, <2>9, <3>1 DEF SetRevision, RequestInv
  <2>10. ASSUME SetBaseurl(p) PROVE Fits(p)
    <3>1. job[p].todo # << >> /\ instance[p] # NotRead /\ instance' = instance /\ timestamp' = timestamp
      BY <2>10 DEF SetBaseurl, RequestInv, memory
    <3> QED
      BY <2>2, <2>3, <2>10, <3>1 DEF SetBaseurl
  <2>11. ASSUME GetConfiguration(p) PROVE Fits(p)
    <3>1. confpc'[p] = "idle" /\ job'[p] = NoJob /\ timestamp' = timestamp
      BY <2>0, <2>11 DEF GetConfiguration, EndJob, Go, memory
    <3> QED
      BY <2>0, <2>22, <3>1 DEF NoJob
  <2>12. ASSUME CopyXml(p) PROVE Fits(p)
    <3>1. job[p].todo # << >> /\ instance[p] # NotRead /\ instance' = instance /\ timestamp' = timestamp
      BY <2>12 DEF CopyXml, RequestInv, memory
    <3>2. CASE job' = [job EXCEPT ![p].copy = baseurl] /\ Go(p, "layers")
      <4>1. /\ confpc'[p] = "layers" /\ job'[p].todo = job[p].todo /\ job'[p].done = job[p].done
            /\ Head(job[p].todo) = "layers"
        BY <2>0, <2>12, <3>2 DEF CopyXml, Now, Go, Jobs
      <4> QED
        BY <2>0, <2>21, <3>1, <4>1
    <3> QED
      BY <2>2, <2>12, <3>1, <3>2 DEF CopyXml
  <2>13. ASSUME SyncLayers(p) PROVE Fits(p)
    <3>1. job[p].todo # << >> /\ instance[p] # NotRead /\ instance' = instance /\ timestamp' = timestamp
      BY <2>13 DEF SyncLayers, RequestInv, memory
    <3>2. Now(p) # "get"
      BY <2>13 DEF SyncLayers, RequestInv, Now
    <3> QED
      BY <2>2, <2>3, <2>13, <3>1, <3>2 DEF SyncLayers
  <2>14. ASSUME OpenConf(p) PROVE Fits(p)
    <3>1. confpc'[p] = "write" /\ job' = job /\ instance' = instance /\ timestamp' = timestamp
      BY <2>0, <2>14 DEF OpenConf, Go, memory
    <3>2. instance[p] # NotRead
      BY <2>14 DEF OpenConf, RequestInv
    <3> QED
      BY <2>0, <2>21, <3>1, <3>2
  <2>15. ASSUME WriteConf(p) PROVE Fits(p)
    <3>1. confpc'[p] = "idle" /\ job'[p] = NoJob /\ timestamp' = timestamp
      BY <2>0, <2>15 DEF WriteConf, EndJob, Go, memory
    <3> QED
      BY <2>0, <2>22, <3>1 DEF NoJob
  <2>16. ASSUME Restart(p) PROVE Fits(p)
    BY <2>0, <2>2, <2>16 DEF Restart
  <2>17. Fits(p)
    BY <1>2, <2>4, <2>5, <2>6, <2>7, <2>8, <2>9, <2>10, <2>11, <2>12, <2>13, <2>14, <2>15, <2>16
  <2>18. \A q \in Proc : Fits(q)
    BY <2>1, <2>17
  <2> QED
    BY <2>18 DEF RequestInv
<1> QED
  BY <1>1, <1>2, NextIsStep


\* Marks stay.
LEMMA MarksStay ==
  ASSUME ConfigTypeOK, NEW p \in Proc,
         \/ BeginRequest(p) \/ NextElement(p) \/ Load(p) \/ Stamp(p)
         \/ SetKey(p) \/ SetRevision(p) \/ SetBaseurl(p) \/ GetConfiguration(p)
         \/ CopyXml(p) \/ SyncLayers(p) \/ OpenConf(p) \/ WriteConf(p) \/ Restart(p)
  PROVE  marks \subseteq marks'
BY DEF BeginRequest, NextElement, Load, Stamp, SetKey, SetRevision, SetBaseurl, GetConfiguration,
       CopyXml, SyncLayers, OpenConf, WriteConf, Restart

\* The steps that change what a process has in memory.
LEMMA MemoryKept ==
  ASSUME ConfigTypeOK, NEW p \in Proc,
         \/ BeginRequest(p) \/ NextElement(p) \/ Stamp(p) \/ SetBaseurl(p) \/ GetConfiguration(p)
         \/ CopyXml(p) \/ SyncLayers(p) \/ OpenConf(p) \/ WriteConf(p)
  PROVE  instance' = instance
BY DEF BeginRequest, NextElement, Stamp, SetBaseurl, GetConfiguration,
       CopyXml, SyncLayers, OpenConf, WriteConf, memory

\* A process that ends to write has written, or died.
LEMMA WriterGone ==
  ASSUME ConfigTypeOK, NEW p \in Proc, confpc[p] = "write",
         \/ BeginRequest(p) \/ NextElement(p) \/ Load(p) \/ Stamp(p)
         \/ SetKey(p) \/ SetRevision(p) \/ SetBaseurl(p) \/ GetConfiguration(p)
         \/ CopyXml(p) \/ SyncLayers(p) \/ OpenConf(p) \/ WriteConf(p) \/ Restart(p)
  PROVE  WriteConf(p) \/ (Restart(p) /\ "torn" \in marks')
BY DEF BeginRequest, NextElement, Load, Stamp, SetKey, SetRevision, SetBaseurl, GetConfiguration,
       CopyXml, SyncLayers, OpenConf, WriteConf, Restart

LEMMA CompleteNext ==
  ASSUME ConfigInv, [ConfigNext]_confvars
  PROVE  CompleteInv'
<1> USE DEF ConfigInv
<1>1. CASE UNCHANGED confvars
  BY <1>1 DEF confvars, stored, memory, CompleteInv
<1>2. ASSUME NEW p \in Proc,
         \/ BeginRequest(p) \/ NextElement(p) \/ Load(p) \/ Stamp(p)
         \/ SetKey(p) \/ SetRevision(p) \/ SetBaseurl(p) \/ GetConfiguration(p)
         \/ CopyXml(p) \/ SyncLayers(p) \/ OpenConf(p) \/ WriteConf(p) \/ Restart(p)
      PROVE  CompleteInv'
  <2> SUFFICES ASSUME "torn" \notin marks'
               PROVE  /\ \A q \in Proc : instance'[q] # NotRead => Key \subseteq DOMAIN instance'[q]
                      /\ Key \subseteq DOMAIN conf' \/ (DOMAIN conf' = {} /\ \E q \in Proc : confpc'[q] = "write")
    BY DEF CompleteInv
  <2>0. "torn" \notin marks
    BY <1>2, MarksStay
  <2>1. /\ \A q \in Proc : instance[q] # NotRead => Key \subseteq DOMAIN instance[q]
        /\ Key \subseteq DOMAIN conf \/ (DOMAIN conf = {} /\ \E q \in Proc : confpc[q] = "write")
    BY <2>0 DEF CompleteInv
  <2>2. \A q \in Proc : instance'[q] # NotRead => Key \subseteq DOMAIN instance'[q]
    <3> SUFFICES ASSUME NEW q \in Proc, instance'[q] # NotRead PROVE Key \subseteq DOMAIN instance'[q]
      OBVIOUS
    <3>0. instance \in [Proc -> Conf \cup {NotRead}]
      BY DEF ConfigTypeOK
    <3>1. CASE instance'[q] = instance[q]
      BY <2>1, <3>1
    <3>2. CASE q # p
      <4>1. instance'[q] = instance[q]
        BY <1>2, <3>2, OthersKeep
      <4> QED
        BY <3>1, <4>1
    <3>3. CASE q = p /\ Load(p)
      <4>1. instance'[q] = conf /\ DOMAIN conf # {}
        BY <3>0, <3>3 DEF Load
      <4> QED
        BY <2>1, <4>1
    <3>4. CASE q = p /\ SetKey(p)
      <4>1. CASE Now(p) \in DOMAIN instance[p] /\ instance' = [instance EXCEPT ![p] = [@ EXCEPT ![Now(p)] = job[p].value]]
        <5>1. instance[p] \in Conf /\ instance[p] # NotRead
          BY <3>4 DEF SetKey, RequestInv, ConfigTypeOK
        <5>2. DOMAIN instance'[p] = DOMAIN instance[p]
          BY <3>0, <4>1
        <5> QED
          BY <2>1, <3>4, <5>1, <5>2
      <4>2. CASE instance' = instance
        BY <3>1, <4>2
      <4> QED
        BY <3>4, <4>1, <4>2 DEF SetKey
    <3>5. CASE q = p /\ SetRevision(p)
      <4>1. instance[p] # NotRead
        BY <3>5 DEF SetRevision, RequestInv
      <4>2. DOMAIN instance'[p] = DOMAIN instance[p] \cup {"revision"}
        BY <3>0, <3>5 DEF SetRevision
      <4> QED
        BY <2>1, <3>5, <4>1, <4>2
    <3>6. CASE q = p /\ Restart(p)
      BY <3>0, <3>6 DEF Restart
    <3> QED
      BY <1>2, <3>1, <3>2, <3>3, <3>4, <3>5, <3>6, MemoryKept
  <2>3. CASE OpenConf(p)
    <3>1. conf' = << >> /\ confpc'[p] = "write"
      BY <2>3 DEF OpenConf, Go, ConfigTypeOK
    <3> QED
      BY <2>2, <3>1, ConfFacts
  <2>4. CASE WriteConf(p)
    <3>1. instance[p] \in Conf /\ instance[p] # NotRead
      BY <2>4 DEF WriteConf, RequestInv, ConfigTypeOK
    <3>2. DOMAIN instance[p] \subseteq DOMAIN conf'
      BY <2>4, <3>1, OverFacts DEF WriteConf, ConfigTypeOK
    <3> QED
      BY <2>1, <2>2, <3>1, <3>2
  <2>5. CASE ~OpenConf(p) /\ ~WriteConf(p)
    <3>1. conf' = conf
      BY <1>2, <2>5, FileAges
    <3>2. ASSUME NEW w \in Proc, confpc[w] = "write" PROVE confpc'[w] = "write"
      <4>1. w # p
        BY <1>2, <2>5, <3>2, WriterGone
      <4> QED
        BY <1>2, <3>2, <4>1, OthersKeep
    <3> QED
      BY <2>1, <2>2, <3>1, <3>2
  <2> QED
    BY <2>3, <2>4, <2>5
<1> QED
  BY <1>1, <1>2, NextIsStep

LEMMA AloneNext ==
  ASSUME ConfigInv, [ConfigNext]_confvars
  PROVE  AloneInv'
<1> USE DEF ConfigInv
<1>1. CASE UNCHANGED confvars
  BY <1>1 DEF confvars, stored, memory, AloneInv
<1>2. ASSUME NEW p \in Proc,
         \/ BeginRequest(p) \/ NextElement(p) \/ Load(p) \/ Stamp(p)
         \/ SetKey(p) \/ SetRevision(p) \/ SetBaseurl(p) \/ GetConfiguration(p)
         \/ CopyXml(p) \/ SyncLayers(p) \/ OpenConf(p) \/ WriteConf(p) \/ Restart(p)
      PROVE  AloneInv'
  <2> SUFFICES ASSUME "overlap" \notin marks' PROVE AloneInv'
    BY DEF AloneInv
  <2>0. "overlap" \notin marks
    BY <1>2, MarksStay
  <2>1. \A s \in Proc : s # p => confpc'[s] = confpc[s]
    BY <1>2, OthersKeep
  <2>2. \A s \in Proc : s # p => confpc[s] = "idle" \/ confpc[p] = "idle"
    BY <2>0 DEF AloneInv
  <2>6. ASSUME NEW q \in Proc, NEW r \in Proc, confpc'[q] # "idle", confpc'[r] # "idle"
        PROVE  q = r
    <3>3. CASE confpc[p] # "idle"
      BY <2>1, <2>2, <2>6, <3>3
    <3>4. CASE BeginRequest(p)
      <4>1. \A s \in Proc : confpc[s] = "idle"
        BY <3>4 DEF BeginRequest
      <4> QED
        BY <2>1, <2>6, <4>1
    <3>5. CASE confpc[p] = "idle" /\ ~BeginRequest(p)
      <4>1. confpc'[p] = "idle"
        <5>1. Restart(p)
          BY <1>2, <3>5 DEF NextElement, Load, Stamp, SetKey, SetRevision, SetBaseurl, GetConfiguration,
               CopyXml, SyncLayers, OpenConf, WriteConf
        <5> QED
          BY <5>1 DEF Restart, RefuseRequest, EndJob, Go, ConfigTypeOK
      <4> QED
        BY <2>0, <2>1, <2>6, <4>1 DEF AloneInv
    <3> QED
      BY <3>3, <3>4, <3>5
  <2>7. ASSUME NEW q \in Proc, confpc'[q] = "write" PROVE conf' = << >>
    <3>1. CASE OpenConf(p)
      BY <3>1 DEF OpenConf
    <3>2. CASE WriteConf(p)
      <4>1. confpc[p] # "idle" /\ confpc'[p] = "idle"
        BY <3>2 DEF WriteConf, EndJob, Go, ConfigTypeOK
      <4> QED
        BY <2>1, <2>2, <2>7, <4>1
    <3>3. CASE ~OpenConf(p) /\ ~WriteConf(p)
      <4>1. conf' = conf
        BY <1>2, <3>3, FileAges
      <4>2. CASE q # p
        BY <2>0, <2>1, <2>7, <4>1, <4>2 DEF AloneInv
      <4>3. CASE q = p
        BY <1>2, <2>7, <3>3, <4>3
           DEF BeginRequest, NextElement, Load, Stamp, SetKey, SetRevision, SetBaseurl, GetConfiguration,
               CopyXml, SyncLayers, Restart, RefuseRequest, Advance, EndJob, Go, ConfigTypeOK
      <4> QED
        BY <4>2, <4>3
    <3> QED
      BY <3>1, <3>2, <3>3
  <2> QED
    BY <2>6, <2>7 DEF AloneInv
<1> QED
  BY <1>1, <1>2, NextIsStep


\* What was accepted stays so until it is set again.
LEMMA AcceptedGrows ==
  ASSUME ConfigTypeOK, NEW p \in Proc, NEW k \in Section \cup {"baseurl"},
         \/ BeginRequest(p) \/ NextElement(p) \/ Load(p) \/ Stamp(p)
         \/ SetKey(p) \/ SetRevision(p) \/ SetBaseurl(p) \/ GetConfiguration(p)
         \/ CopyXml(p) \/ SyncLayers(p) \/ OpenConf(p) \/ Restart(p)
  PROVE  accepted[k] \subseteq accepted'[k]
<1>1. CASE RefuseRequest(p)
  BY <1>1, RefuseFacts
<1>2. CASE accepted' = accepted
  BY <1>2
<1> QED
  BY <1>1, <1>2 DEF BeginRequest, NextElement, Load, Stamp, SetKey, SetRevision, SetBaseurl, GetConfiguration,
       CopyXml, SyncLayers, OpenConf, Restart

LEMMA WriteAccepts ==
  ASSUME ConfigTypeOK, NEW p \in Proc, WriteConf(p), NEW k \in Section \cup {"baseurl"}
  PROVE  accepted'[k] = IF k \in job[p].done THEN {job[p].value} ELSE accepted[k]
BY DEF WriteConf, ConfigTypeOK

\* What a process has to be true of what it has in memory.
Served(q) ==
  /\ confpc[q] = "layers" => job[q].copy = baseurl
  /\ confpc[q] \in {"load", "stamp"} => job[q].done = {}
  /\ confpc[q] \in {"set", "layers"} => Fresh(q)
  /\ job[q].done # {} => Fresh(q) \/ confpc[q] = "write"
  /\ "baseurl" \in job[q].done => baseurl = job[q].value
  /\ InUse(q) => Current(q)

\* The others.
LEMMA OthersServed ==
  ASSUME ConfigInv, NEW p \in Proc, NEW q \in Proc, q # p, Served(q), "overlap" \notin marks,
         \/ BeginRequest(p) \/ NextElement(p) \/ Load(p) \/ Stamp(p)
         \/ SetKey(p) \/ SetRevision(p) \/ SetBaseurl(p) \/ GetConfiguration(p)
         \/ CopyXml(p) \/ SyncLayers(p) \/ OpenConf(p) \/ WriteConf(p) \/ Restart(p)
  PROVE  Served(q)'
<1> USE DEF ConfigInv
<1>1. /\ confpc'[q] = confpc[q] /\ job'[q] = job[q]
      /\ instance'[q] = instance[q] /\ timestamp'[q] = timestamp[q]
  BY OthersKeep
<1>2. mtime \in Nat /\ timestamp[q] \in Nat /\ timestamp[q] =< mtime
  BY DEF ConfigTypeOK, RequestInv
<1>3. CASE OpenConf(p) \/ WriteConf(p)
  <2>1. confpc[p] # "idle"
    BY <1>3 DEF OpenConf, WriteConf
  <2>2. confpc[q] = "idle" /\ job[q].done = {}
    BY <2>1 DEF AloneInv, RequestInv
  <2>3. mtime' = mtime + 1
    BY <1>3, FileAges
  <2>4. ~Fresh(q)'
    BY <1>1, <1>2, <2>3 DEF Fresh
  <2>5. ~InUse(q)'
    BY <1>1, <2>2, <2>4 DEF InUse
  <2> QED
    BY <1>1, <2>2, <2>5 DEF Served
<1>4. CASE ~OpenConf(p) /\ ~WriteConf(p)
  <2>1. mtime' = mtime
    BY <1>4, FileAges
  <2>2. Fresh(q)' <=> Fresh(q)
    BY <1>1, <2>1 DEF Fresh
  <2>3. InUse(q)' <=> InUse(q)
    BY <1>1, <2>2 DEF InUse
  <2>4. confpc[q] # "idle" => baseurl' = baseurl
    <3>1. CASE SetBaseurl(p) \/ SyncLayers(p)
      BY <3>1 DEF SetBaseurl, SyncLayers, AloneInv
    <3>2. CASE ~SetBaseurl(p) /\ ~SyncLayers(p)
      BY <1>4, <3>2 DEF BeginRequest, NextElement, Load, Stamp, SetKey, SetRevision, GetConfiguration,
           CopyXml, Restart, stored
    <3> QED
      BY <3>1, <3>2
  <2>5. InUse(q) => Current(q)'
    <3> SUFFICES ASSUME InUse(q), NEW k \in DOMAIN instance[q]
                 PROVE  IF k \in job[q].done THEN instance[q][k] = job[q].value
                        ELSE instance[q][k] \in accepted'[k]
      BY <1>1 DEF Current
    <3>1. IF k \in job[q].done THEN instance[q][k] = job[q].value ELSE instance[q][k] \in accepted[k]
      BY DEF Served, Current
    <3>2. instance[q] \in Conf
      BY DEF InUse, Fresh, RequestInv, ConfigTypeOK
    <3>3. k \in Section
      BY <3>2, ConfFacts
    <3>4. accepted[k] \subseteq accepted'[k]
      BY <1>4, <3>3, AcceptedGrows
    <3> QED
      BY <3>1, <3>4
  <2>6. confpc[q] = "idle" => job[q].done = {}
    BY DEF RequestInv
  <2> QED
    BY <1>1, <2>2, <2>3, <2>4, <2>5, <2>6 DEF Served
<1> QED
  BY <1>3, <1>4

\* The process itself, when its request is refused
LEMMA RefusedServed ==
  ASSUME ConfigInv, NEW p \in Proc, Served(p), RefuseRequest(p),
         instance' = instance, timestamp' = timestamp, mtime' = mtime
  PROVE  Served(p)'
<1> USE DEF ConfigInv
<1>1. confpc'[p] = "idle" /\ job'[p].done = {}
  BY RefuseFacts DEF NoJob, ConfigTypeOK
<1>2. InUse(p)' => Fresh(p)
  BY <1>1 DEF InUse, Fresh
<1>3. Fresh(p) => Current(p)'
  <2> SUFFICES ASSUME Fresh(p), NEW k \in DOMAIN instance[p] PROVE instance[p][k] \in accepted'[k]
    BY <1>1 DEF Current
  <2>1. IF k \in job[p].done THEN instance[p][k] = job[p].value ELSE instance[p][k] \in accepted[k]
    BY DEF Served, InUse, Current
  <2>2. instance[p] \in Conf
    BY DEF Fresh, ConfigTypeOK
  <2>3. k \in Section
    BY <2>2, ConfFacts
  <2> QED
    BY <2>1, <2>3, RefuseFacts
<1> QED
  BY <1>1, <1>2, <1>3 DEF Served

\* and when it has done an element.
LEMMA AdvancedServed ==
  ASSUME ConfigInv, NEW p \in Proc, Served(p), Advance(p), job[p].todo # << >>,
         confpc[p] \in {"set", "layers"}, instance'[p] # NotRead,
         timestamp' = timestamp, mtime' = mtime, accepted' = accepted,
         \A k \in DOMAIN instance'[p] :
           IF k = Now(p) THEN k \notin Section \/ instance'[p][k] = job[p].value
           ELSE k \in DOMAIN instance[p] /\ instance'[p][k] = instance[p][k],
         DOMAIN instance'[p] \subseteq Section,
         baseurl' = IF Now(p) = "baseurl" THEN job[p].value ELSE baseurl
  PROVE  Served(p)'
<1> USE DEF ConfigInv
<1>1. confpc'[p] = "next" /\ job'[p].done = job[p].done \cup {Now(p)} /\ job'[p].value = job[p].value
  BY AdvanceFacts DEF ConfigTypeOK
<1>2. Fresh(p) /\ Current(p)
  BY DEF Served, InUse
<1>3. Fresh(p)'
  BY <1>2 DEF Fresh
<1>4. Current(p)'
  BY <1>1, <1>2 DEF Current
<1>5. "baseurl" \in job'[p].done => baseurl' = job'[p].value
  BY <1>1 DEF Served
<1> QED
  BY <1>1, <1>3, <1>4, <1>5 DEF Served


LEMMA SelfServed ==
  ASSUME ConfigInv, NEW p \in Proc, Served(p), "torn" \notin marks, "overlap" \notin marks',
         \A k \in DOMAIN conf : conf[k] \in accepted[k],
         \/ BeginRequest(p) \/ NextElement(p) \/ Load(p) \/ Stamp(p)
         \/ SetKey(p) \/ SetRevision(p) \/ SetBaseurl(p) \/ GetConfiguration(p)
         \/ CopyXml(p) \/ SyncLayers(p) \/ OpenConf(p) \/ WriteConf(p) \/ Restart(p)
  PROVE  Served(p)'
<1> USE DEF ConfigInv
<1>0. /\ job[p] \in Jobs /\ job \in [Proc -> Jobs] /\ instance \in [Proc -> Conf \cup {NotRead}]
      /\ timestamp \in [Proc -> Nat] /\ DOMAIN confpc = Proc /\ mtime \in Nat
      /\ timestamp[p] \in Nat /\ timestamp[p] =< mtime
  BY DEF ConfigTypeOK, RequestInv
<1>1. ASSUME BeginRequest(p) PROVE Served(p)'
  <2>1. /\ confpc[p] = "idle" /\ job[p].done = {} /\ confpc'[p] = "next" /\ job'[p].done = {}
        /\ UNCHANGED <<instance, timestamp, mtime, accepted>>
    <3>1. confpc[p] = "idle" /\ job[p].done = {}
      BY <1>1 DEF BeginRequest, RequestInv
    <3>2. confpc'[p] = "next"
      BY <1>0, <1>1 DEF BeginRequest, Go
    <3>3. PICK r \in Requests : job' = [job EXCEPT ![p] = [NoJob EXCEPT !.todo = r, !.value = requests + 1]]
      BY <1>1 DEF BeginRequest
    <3>4. job'[p] = [NoJob EXCEPT !.todo = r, !.value = requests + 1]
      BY <1>0, <3>3, Zenon
    <3>5. job'[p].done = {}
      BY <3>4 DEF NoJob
    <3> QED
      BY <1>1, <3>1, <3>2, <3>5 DEF BeginRequest, memory, stored
  <2>2. InUse(p)' => InUse(p)
    BY <2>1 DEF InUse, Fresh
  <2>3. Current(p) => Current(p)'
    BY <2>1 DEF Current
  <2> QED
    BY <2>1, <2>2, <2>3 DEF Served
<1>2. ASSUME NextElement(p) PROVE Served(p)'
  <2>1. confpc[p] = "next" /\ UNCHANGED <<instance, timestamp, mtime, baseurl>>
    BY <1>2 DEF NextElement, memory, stored
  <2>2. CASE RefuseRequest(p)
    BY <2>1, <2>2, RefusedServed
  <2>3. CASE Go(p, IF Fresh(p) THEN "set" ELSE "load") /\ UNCHANGED <<job, accepted>>
    <3>1. confpc'[p] = (IF Fresh(p) THEN "set" ELSE "load") /\ job' = job /\ accepted' = accepted
      BY <1>0, <2>3 DEF Go
    <3>2. Fresh(p)' <=> Fresh(p)
      BY <2>1 DEF Fresh
    <3>3. Fresh(p) => Current(p)'
      BY <2>1, <3>1 DEF Served, InUse, Current
    <3>4. InUse(p)' => Fresh(p)
      BY <3>1, <3>2 DEF InUse
    <3> QED
      BY <2>1, <3>1, <3>2, <3>3, <3>4 DEF Served
  <2> QED
    BY <1>2, <2>2, <2>3 DEF NextElement
<1>3. ASSUME Load(p) PROVE Served(p)'
  <2>1. /\ confpc[p] = "load" /\ confpc'[p] = "stamp" /\ instance'[p] = conf
        /\ job' = job /\ accepted' = accepted
    BY <1>0, <1>3 DEF Load, Go
  <2>2. job[p].done = {}
    BY <2>1 DEF Served
  <2>3. Current(p)'
    BY <2>1, <2>2 DEF Current
  <2> QED
    BY <2>1, <2>2, <2>3 DEF Served
<1>4. ASSUME Stamp(p) PROVE Served(p)'
  <2>1. /\ confpc[p] = "stamp" /\ confpc'[p] = "set" /\ timestamp'[p] = mtime /\ mtime' = mtime
        /\ instance' = instance /\ job' = job /\ accepted' = accepted /\ baseurl' = baseurl
    BY <1>0, <1>4 DEF Stamp, Go, stored
  <2>2. Fresh(p)'
    BY <1>0, <2>1 DEF Fresh, RequestInv
  <2>3. Current(p)'
    BY <2>1 DEF Served, InUse, Current
  <2> QED
    BY <2>1, <2>2, <2>3 DEF Served
<1>5. ASSUME SetKey(p) PROVE Served(p)'
  <2>1. /\ confpc[p] = "set" /\ UNCHANGED <<timestamp, mtime, baseurl>> /\ job[p].todo # << >>
        /\ instance[p] \in Conf /\ Now(p) # "baseurl"
    BY <1>0, <1>5 DEF SetKey, stored, RequestInv, Key
  <2>2. CASE RefuseRequest(p) /\ UNCHANGED instance
    BY <2>1, <2>2, RefusedServed
  <2>3. CASE /\ Now(p) \in DOMAIN instance[p]
             /\ instance' = [instance EXCEPT ![p] = [@ EXCEPT ![Now(p)] = job[p].value]]
             /\ Advance(p) /\ UNCHANGED accepted
    <3>1. instance'[p] = [instance[p] EXCEPT ![Now(p)] = job[p].value]
      BY <1>0, <2>3
    <3>2. instance'[p] \in Conf
      BY <1>0, <2>1, <2>3, <3>1, SetInConf DEF Jobs
    <3>3. instance'[p] # NotRead /\ DOMAIN instance'[p] \subseteq Section
      BY <3>2, ConfFacts
    <3>4. DOMAIN instance'[p] = DOMAIN instance[p]
      BY <3>1
    <3>5. \A k \in DOMAIN instance'[p] :
            IF k = Now(p) THEN k \notin Section \/ instance'[p][k] = job[p].value
            ELSE k \in DOMAIN instance[p] /\ instance'[p][k] = instance[p][k]
      BY <3>1, <3>4
    <3> QED
      BY <2>1, <2>3, <3>3, <3>5, AdvancedServed
  <2> QED
    BY <1>5, <2>2, <2>3 DEF SetKey
<1>6. ASSUME SetRevision(p) PROVE Served(p)'
  <2>1. /\ confpc[p] = "set" /\ UNCHANGED <<timestamp, mtime, accepted, baseurl>> /\ job[p].todo # << >>
        /\ instance[p] \in Conf /\ Now(p) = "revision" /\ Advance(p) /\ job[p].value \in Nat
    BY <1>0, <1>6 DEF SetRevision, stored, RequestInv, Jobs
  <2>2. instance'[p] = [ k \in DOMAIN instance[p] \cup {"revision"} |->
                           IF k = "revision" THEN job[p].value ELSE instance[p][k] ]
    BY <1>0, <1>6 DEF SetRevision
  <2>3. DOMAIN instance[p] \cup {"revision"} \in SUBSET Section
    BY <2>1, ConfFacts DEF Section
  <2>4. instance'[p] \in [DOMAIN instance[p] \cup {"revision"} -> Nat]
    BY <2>1, <2>2, ConfFacts
  <2>5. instance'[p] # NotRead
    BY <2>3, <2>4, ConfOf, ConfFacts
  <2>6. \A k \in DOMAIN instance'[p] :
            IF k = Now(p) THEN k \notin Section \/ instance'[p][k] = job[p].value
            ELSE k \in DOMAIN instance[p] /\ instance'[p][k] = instance[p][k]
    BY <2>1, <2>2
  <2> QED
    BY <2>1, <2>2, <2>3, <2>5, <2>6, AdvancedServed
<1>7. ASSUME SetBaseurl(p) PROVE Served(p)'
  <2>1. /\ confpc[p] = "set" /\ UNCHANGED <<instance, timestamp, mtime>> /\ job[p].todo # << >>
        /\ instance[p] # NotRead /\ instance[p] \in Conf /\ Now(p) = "baseurl"
    BY <1>0, <1>7 DEF SetBaseurl, memory, RequestInv
  <2>2. CASE RefuseRequest(p)
    BY <2>1, <2>2, RefusedServed
  <2>3. CASE baseurl' = job[p].value /\ Advance(p) /\ UNCHANGED accepted
    <3>1. DOMAIN instance'[p] \subseteq Section /\ "baseurl" \notin Section
      BY <2>1, ConfFacts DEF Section, Key
    <3> QED
      BY <2>1, <2>3, <3>1, AdvancedServed
  <2> QED
    BY <1>7, <2>2, <2>3 DEF SetBaseurl
<1>8. ASSUME GetConfiguration(p) PROVE Served(p)'
  <2>1. /\ confpc'[p] = "idle" /\ job'[p].done = {} /\ UNCHANGED <<instance, timestamp, mtime, accepted>>
    BY <1>0, <1>8 DEF GetConfiguration, EndJob, Go, NoJob, memory, stored
  <2>2. job[p].done = {}
    <3>1. job[p].todo # << >> /\ Head(job[p].todo) = "get"
      BY <1>8 DEF GetConfiguration, RequestInv, Now
    <3>2. job[p].todo \notin Seq(AnyElement \ {"get"})
      BY <3>1
    <3> QED
      BY <3>2 DEF RequestInv
  <2>3. InUse(p)' => InUse(p)
    BY <2>1 DEF InUse, Fresh
  <2>4. Current(p) => Current(p)'
    BY <2>1, <2>2 DEF Current
  <2> QED
    BY <2>1, <2>3, <2>4 DEF Served
<1>9. ASSUME CopyXml(p) PROVE Served(p)'
  <2>1. confpc[p] = "set" /\ UNCHANGED <<instance, timestamp, mtime, baseurl>>
    BY <1>9 DEF CopyXml, memory, stored
  <2>2. CASE RefuseRequest(p)
    BY <2>1, <2>2, RefusedServed
  <2>3. CASE job' = [job EXCEPT ![p].copy = baseurl] /\ Go(p, "layers") /\ UNCHANGED accepted
    <3>1. /\ confpc'[p] = "layers" /\ job'[p].done = job[p].done /\ job'[p].value = job[p].value
          /\ job'[p].copy = baseurl /\ accepted' = accepted
      BY <1>0, <2>3 DEF Go, Jobs
    <3>2. Fresh(p)' /\ Current(p)'
      BY <2>1, <3>1 DEF Served, InUse, Fresh, Current
    <3>3. "baseurl" \in job[p].done => baseurl = job[p].value
      BY DEF Served
    <3> QED
      BY <2>1, <3>1, <3>2, <3>3 DEF Served
  <2> QED
    BY <1>9, <2>2, <2>3 DEF CopyXml
<1>10. ASSUME SyncLayers(p) PROVE Served(p)'
  <2>1. /\ confpc[p] = "layers" /\ UNCHANGED <<instance, timestamp, mtime>> /\ job[p].todo # << >>
        /\ instance[p] # NotRead /\ instance[p] \in Conf /\ Now(p) = "layers"
    BY <1>0, <1>10 DEF SyncLayers, memory, RequestInv, Now
  <2>2. CASE RefuseRequest(p)
    BY <2>1, <2>2, RefusedServed
  <2>3. CASE Advance(p) /\ UNCHANGED <<baseurl, accepted>>
    <3>1. DOMAIN instance'[p] \subseteq Section /\ "layers" \notin Section
      BY <2>1, ConfFacts DEF Section, Key
    <3> QED
      BY <2>1, <2>3, <3>1, AdvancedServed
  <2> QED
    BY <1>10, <2>2, <2>3 DEF SyncLayers
<1>11. ASSUME OpenConf(p) PROVE Served(p)'
  <2>1. /\ confpc[p] = "next" /\ job[p].todo = << >> /\ confpc'[p] = "write"
        /\ UNCHANGED <<instance, timestamp, accepted, job, baseurl>>
    BY <1>0, <1>11 DEF OpenConf, Go, memory
  <2>2. job[p].done # {}
    BY <2>1 DEF RequestInv
  <2>3. Current(p)
    BY <2>1, <2>2 DEF Served, InUse
  <2>4. Current(p)'
    BY <2>1, <2>3 DEF Current
  <2> QED
    BY <2>1, <2>4 DEF Served
<1>12. ASSUME WriteConf(p) PROVE Served(p)'
  <2>1. /\ confpc'[p] = "idle" /\ job'[p].done = {} /\ timestamp' = timestamp /\ mtime' = mtime + 1
    BY <1>0, <1>12 DEF WriteConf, EndJob, Go, NoJob, memory
  <2>2. ~InUse(p)'
    BY <1>0, <2>1 DEF InUse, Fresh
  <2> QED
    BY <2>1, <2>2 DEF Served
<1>13. ASSUME Restart(p) PROVE Served(p)'
  <2>1. confpc'[p] = "idle" /\ job'[p].done = {} /\ instance'[p] = NotRead
    BY <1>0, <1>13, RefuseFacts DEF Restart, NoJob
  <2>2. ~InUse(p)'
    BY <2>1 DEF InUse, Fresh
  <2> QED
    BY <2>1, <2>2 DEF Served
<1> QED
  BY <1>1, <1>2, <1>3, <1>4, <1>5, <1>6, <1>7, <1>8, <1>9, <1>10, <1>11, <1>12, <1>13

LEMMA ValuesNext ==
  ASSUME ConfigInv, [ConfigNext]_confvars
  PROVE  ValuesInv'
<1> USE DEF ConfigInv
<1>1. CASE UNCHANGED confvars
  BY <1>1 DEF confvars, stored, memory, ValuesInv, InUse, Fresh, Current
<1>2. ASSUME NEW p \in Proc,
         \/ BeginRequest(p) \/ NextElement(p) \/ Load(p) \/ Stamp(p)
         \/ SetKey(p) \/ SetRevision(p) \/ SetBaseurl(p) \/ GetConfiguration(p)
         \/ CopyXml(p) \/ SyncLayers(p) \/ OpenConf(p) \/ WriteConf(p) \/ Restart(p)
      PROVE  ValuesInv'
  <2> SUFFICES ASSUME "torn" \notin marks', "overlap" \notin marks'
               PROVE  /\ \A k \in DOMAIN conf' : conf'[k] \in accepted'[k]
                      /\ \/ baseurl' \in accepted'["baseurl"]
                         \/ \E q \in Proc : "baseurl" \in job'[q].done /\ baseurl' = job'[q].value
                      /\ \A q \in Proc : Served(q)'
    BY DEF ValuesInv, Served
  <2>0. "torn" \notin marks /\ "overlap" \notin marks
    BY <1>2, MarksStay
  <2>1. /\ \A k \in DOMAIN conf : conf[k] \in accepted[k]
        /\ \/ baseurl \in accepted["baseurl"]
           \/ \E q \in Proc : "baseurl" \in job[q].done /\ baseurl = job[q].value
        /\ \A q \in Proc : Served(q)
    BY <2>0 DEF ValuesInv, Served
  <2>2. /\ job \in [Proc -> Jobs] /\ job[p] \in Jobs /\ instance \in [Proc -> Conf \cup {NotRead}]
        /\ conf \in Conf /\ "baseurl" \notin Section
    BY DEF ConfigTypeOK, Section, Key
  <2>3. \A q \in Proc : Served(q)'
    <3>1. \A q \in Proc : q # p => Served(q)'
      BY <1>2, <2>0, <2>1, OthersServed
    <3>2. Served(p)'
      BY <1>2, <2>0, <2>1, SelfServed
    <3> QED
      BY <3>1, <3>2
  <2>4. \A k \in DOMAIN conf' : conf'[k] \in accepted'[k]
    <3>1. CASE OpenConf(p)
      BY <3>1, ConfFacts DEF OpenConf
    <3>2. CASE WriteConf(p)
      <4>0. instance[p] \in Conf /\ Current(p) /\ conf = << >>
        BY <2>0, <2>1, <2>2, <3>2 DEF WriteConf, RequestInv, Served, InUse, AloneInv
      <4>1. conf' = instance[p] /\ instance[p] \in Conf /\ Current(p)
        BY <2>2, <3>2, <4>0, OverFacts DEF WriteConf
      <4>2. \A k \in DOMAIN instance[p] : k \in Section
        BY <4>1, ConfFacts
      <4> QED
        BY <3>2, <4>1, <4>2, WriteAccepts DEF Current
    <3>3. CASE ~OpenConf(p) /\ ~WriteConf(p)
      <4>1. conf' = conf
        BY <1>2, <3>3, FileAges
      <4>2. \A k \in DOMAIN conf : k \in Section
        BY <2>2, ConfFacts
      <4>3. \A k \in DOMAIN conf : accepted[k] \subseteq accepted'[k]
        BY <1>2, <3>3, <4>2, AcceptedGrows
      <4> QED
        BY <2>1, <4>1, <4>3
    <3> QED
      BY <3>1, <3>2, <3>3
  <2> DEFINE Address == \/ baseurl' \in accepted'["baseurl"]
                        \/ \E q \in Proc : "baseurl" \in job'[q].done /\ baseurl' = job'[q].value
  <2>5. Address
    <3>1. ~WriteConf(p) => accepted["baseurl"] \subseteq accepted'["baseurl"]
      BY <1>2, AcceptedGrows
    <3>2. WriteConf(p) => accepted'["baseurl"] = IF "baseurl" \in job[p].done THEN {job[p].value} ELSE accepted["baseurl"]
      BY WriteAccepts
    <3>3. \A q \in Proc : q # p => job'[q] = job[q]
      BY <1>2, OthersKeep
    <3>4. ASSUME baseurl' = baseurl,
                 "baseurl" \in job[p].done =>
                   \/ job[p].value \in accepted'["baseurl"]
                   \/ "baseurl" \in job'[p].done /\ job'[p].value = job[p].value,
                 ~WriteConf(p)
          PROVE  Address
      BY <2>1, <3>1, <3>3, <3>4
    <3>5. ASSUME RefuseRequest(p), baseurl' = baseurl, ~WriteConf(p) PROVE Address
      BY <3>4, <3>5, RefuseFacts
    <3>6. ASSUME Advance(p), job[p].todo # << >>, baseurl' = baseurl, ~WriteConf(p) PROVE Address
      BY <3>4, <3>6, AdvanceFacts
    <3>7. CASE WriteConf(p)
      <4>1. baseurl' = baseurl /\ confpc[p] = "write"
        BY <3>7 DEF WriteConf
      <4>2. \A q \in Proc : q # p => job[q].done = {}
        BY <2>0, <4>1 DEF AloneInv, RequestInv
      <4>3. "baseurl" \in job[p].done => baseurl = job[p].value
        BY <2>1 DEF Served
      <4> QED
        BY <2>1, <3>2, <3>7, <4>1, <4>2, <4>3
    <3>8. CASE ~WriteConf(p) /\ (NextElement(p) \/ Restart(p))
      <4>1. baseurl' = baseurl
        BY <3>8 DEF NextElement, Restart, stored
      <4>2. CASE RefuseRequest(p)
        BY <3>5, <3>8, <4>1, <4>2
      <4>3. CASE job' = job
        BY <3>4, <3>8, <4>1, <4>3
      <4> QED
        BY <3>8, <4>2, <4>3 DEF NextElement, Restart
    <3>9. CASE ~WriteConf(p) /\ (Load(p) \/ Stamp(p) \/ OpenConf(p))
      <4>1. baseurl' = baseurl /\ job' = job
        BY <3>9 DEF Load, Stamp, OpenConf, stored
      <4> QED
        BY <3>4, <3>9, <4>1
    <3>10. CASE ~WriteConf(p) /\ (BeginRequest(p) \/ GetConfiguration(p))
      <4>1. baseurl' = baseurl
        BY <3>10 DEF BeginRequest, GetConfiguration, stored
      <4>2. job[p].done = {}
        <5>1. CASE BeginRequest(p)
          BY <5>1 DEF BeginRequest, RequestInv
        <5>2. CASE GetConfiguration(p)
          <6>1. job[p].todo # << >> /\ Head(job[p].todo) = "get"
            BY <5>2 DEF GetConfiguration, RequestInv, Now
          <6>2. job[p].todo \notin Seq(AnyElement \ {"get"})
            BY <6>1
          <6> QED
            BY <6>2 DEF RequestInv
        <5> QED
          BY <3>10, <5>1, <5>2
      <4> QED
        BY <3>4, <3>10, <4>1, <4>2
    <3>11. CASE ~WriteConf(p) /\ (SetKey(p) \/ SetRevision(p))
      <4>1. baseurl' = baseurl /\ job[p].todo # << >>
        BY <3>11 DEF SetKey, SetRevision, stored, RequestInv
      <4>2. RefuseRequest(p) \/ Advance(p)
        BY <3>11 DEF SetKey, SetRevision
      <4> QED
        BY <3>5, <3>6, <3>11, <4>1, <4>2
    <3>12. CASE ~WriteConf(p) /\ SetBaseurl(p)
      <4>1. CASE RefuseRequest(p) /\ UNCHANGED baseurl
        BY <3>5, <3>12, <4>1
      <4>2. CASE baseurl' = job[p].value /\ Advance(p)
        <5>1. job[p].todo # << >> /\ Now(p) = "baseurl"
          BY <3>12 DEF SetBaseurl, RequestInv
        <5>2. "baseurl" \in job'[p].done /\ baseurl' = job'[p].value
          BY <4>2, <5>1, AdvanceFacts
        <5> QED
          BY <5>2
      <4> QED
        BY <3>12, <4>1, <4>2 DEF SetBaseurl
    <3>13. CASE ~WriteConf(p) /\ CopyXml(p)
      <4>1. baseurl' = baseurl
        BY <3>13 DEF CopyXml, stored
      <4>2. CASE RefuseRequest(p)
        BY <3>5, <3>13, <4>1, <4>2
      <4>3. CASE job' = [job EXCEPT ![p].copy = baseurl]
        <5>1. job'[p].done = job[p].done /\ job'[p].value = job[p].value
          BY <2>2, <4>3 DEF Jobs
        <5> QED
          BY <3>4, <3>13, <4>1, <5>1
      <4> QED
        BY <3>13, <4>2, <4>3 DEF CopyXml
    <3>14. CASE ~WriteConf(p) /\ SyncLayers(p)
      <4>1. job[p].todo # << >> /\ job[p].copy = baseurl
        BY <2>1, <3>14 DEF SyncLayers, RequestInv, Served
      <4>2. baseurl' = baseurl /\ (RefuseRequest(p) \/ Advance(p))
        BY <3>14, <4>1 DEF SyncLayers
      <4> QED
        BY <3>5, <3>6, <3>14, <4>1, <4>2
    <3> QED
      BY <1>2, <3>7, <3>8, <3>9, <3>10, <3>11, <3>12, <3>13, <3>14
  <2> QED
    BY <2>3, <2>4, <2>5
<1> QED
  BY <1>1, <1>2, NextIsStep

(***************************************************************************)
(* For any number of processes and requests, between requests no setting   *)
(* of ngeo.conf is missing unless an empty file was read or left, and      *)
(* without overlapping requests every setting and the address have a value *)
(* that was accepted for them.                                             *)
(***************************************************************************)
THEOREM ConfigurationKept == ConfigSpec => []SettingsKept
<1>1. ConfigInit => ConfigInv
  <2> SUFFICES ASSUME ConfigInit PROVE ConfigInv
    OBVIOUS
  <2>1. [k \in Key |-> 0] \in [Key -> Nat] /\ Key \in SUBSET Section
    BY DEF Section
  <2>2. conf \in Conf /\ DOMAIN conf = Key /\ \A k \in Key : conf[k] = 0
    BY <2>1, ConfOf DEF ConfigInit
  <2>3. NoJob \in Jobs /\ NoJob.done = {} /\ NoJob.todo \in Seq(AnyElement \ {"get"})
    <3>1. << >> \in Seq(AnyElement) /\ << >> \in Seq(AnyElement \ {"get"})
      OBVIOUS
    <3> QED
      BY <3>1 DEF NoJob, Jobs
  <2>4. ConfigTypeOK
    BY <2>2, <2>3 DEF ConfigInit, ConfigTypeOK
  <2>5. RequestInv
    <3>1. ASSUME NEW p \in Proc
          PROVE  timestamp[p] = 0 /\ confpc[p] = "idle" /\ job[p] = NoJob
      BY DEF ConfigInit
    <3>2. mtime = 1
      BY DEF ConfigInit
    <3>3. ASSUME NEW p \in Proc
          PROVE  /\ timestamp[p] =< mtime /\ job[p].done = {} /\ confpc[p] = "idle"
                 /\ job[p].todo \in Seq(AnyElement \ {"get"})
      <4>1. job[p] = NoJob /\ timestamp[p] = 0 /\ confpc[p] = "idle"
        BY <3>1
      <4>2. timestamp[p] =< mtime
        BY <3>2, <4>1
      <4> QED
        BY <2>3, <4>1, <4>2
    <3> QED
      BY <3>3 DEF RequestInv
  <2>6. CompleteInv /\ AloneInv
    BY <2>2 DEF ConfigInit, CompleteInv, AloneInv
  <2>7. ValuesInv
    BY <2>2, <2>3 DEF ConfigInit, ValuesInv, InUse, Fresh, Section
  <2> QED
    BY <2>4, <2>5, <2>6, <2>7 DEF ConfigInv
<1>2. ConfigInv /\ [ConfigNext]_confvars => ConfigInv'
  BY ConfigTyping, RequestNext, CompleteNext, AloneNext, ValuesNext DEF ConfigInv
<1>3. ConfigInv => SettingsKept
  <2> SUFFICES ASSUME ConfigInv, \A p \in Proc : confpc[p] = "idle", "torn" \notin marks
               PROVE  /\ Key \subseteq DOMAIN conf
                      /\ "overlap" \notin marks =>
                           /\ baseurl \in accepted["baseurl"]
                           /\ \A k \in DOMAIN conf : conf[k] \in accepted[k]
    BY DEF SettingsKept
  <2>1. Key \subseteq DOMAIN conf
    BY DEF ConfigInv, CompleteInv
  <2>2. \A p \in Proc : job[p].done = {}
    BY DEF ConfigInv, RequestInv
  <2> QED
    BY <2>1, <2>2 DEF ConfigInv, ValuesInv
<1> QED
  BY <1>1, <1>2, <1>3, PTL DEF ConfigSpec

-----------------------------------------------------------------------------
(* Usage: what the rows of a report add up to *)

AnyOf(s) == CHOOSE x \in s : TRUE

SumOn(it, S) ==
  \A s \in SUBSET S : it[s] = IF s = {} THEN 0 ELSE it[s \ {AnyOf(s)}] + AnyOf(s).count

\* The sum over a set is the sum over the set without some element, and that element.
LEMMA CountsStep ==
  ASSUME NEW S, IsFiniteSet(S), \A r \in S : r.count \in Nat
  PROVE  \E it : it[S] = Counts(S) /\ SumOn(it, S)
<1> DEFINE Pick(s) == CHOOSE x \in s : TRUE
           Op(it, s) == IF s = {} THEN 0 ELSE it[s \ {Pick(s)}] + Pick(s).count
           g == [p \in Nat \X S |-> p[1] + p[2].count]
           c == [s \in SUBSET S |-> Pick(s)]
           It == CHOOSE it : it = [s \in SUBSET S |-> Op(it, s)]
<1>1. \A s \in SUBSET S : s # {} => Pick(s) \in s /\ c[s] = Pick(s)
  OBVIOUS
<1>2. \A n \in Nat, r \in S : g[<<n, r>>] = n + r.count
  OBVIOUS
<1>3. \E it \in [SUBSET S -> Nat] : FoldOn(it, SUBSET S, 0, g, c)
  <2>1. g \in [Nat \X S -> Nat]
    OBVIOUS
  <2>2. \A s \in SUBSET S : s # {} => c[s] \in s
    BY <1>1
  <2> HIDE DEF g, c
  <2> QED
    BY <2>1, <2>2, FoldExists
<1>4. PICK it \in [SUBSET S -> Nat] : FoldOn(it, SUBSET S, 0, g, c)
  BY <1>3
<1>5. ASSUME NEW s \in SUBSET S PROVE it[s] = Op(it, s)
  <2>1. it[s] = IF s = {} THEN 0 ELSE g[<<it[s \ {c[s]}], c[s]>>]
    BY <1>4 DEF FoldOn
  <2>2. ASSUME s # {} PROVE g[<<it[s \ {c[s]}], c[s]>>] = it[s \ {Pick(s)}] + Pick(s).count
    <3>1. c[s] = Pick(s) /\ c[s] \in S /\ it[s \ {c[s]}] \in Nat
      BY <1>1, <2>2
    <3> HIDE DEF g, c, Pick
    <3>2. g[<<it[s \ {c[s]}], c[s]>>] = it[s \ {c[s]}] + c[s].count
      BY <3>1, <1>2
    <3> QED
      BY <3>1, <3>2
  <2> QED
    BY <2>1, <2>2
<1>6. it = [s \in SUBSET S |-> Op(it, s)]
  BY <1>5
<1>7. It = [s \in SUBSET S |-> Op(It, s)]
  <2> HIDE DEF Op
  <2> QED
    BY <1>6
<1>8. Counts(S) = It[S]
  BY DEF Counts, FoldSet, MapThenFoldSet
<1> HIDE DEF It
<1>9. \A s \in SUBSET S : It[s] = Op(It, s)
  <2> HIDE DEF Op
  <2> QED
    BY <1>7
<1> QED
  BY <1>8, <1>9 DEF SumOn, AnyOf

\* Rows that stand for disjoint sets of lines, each with as many as it counts, add up to the
\* number of lines in all of them.
LEMMA CountsOf ==
  ASSUME NEW S, IsFiniteSet(S), NEW C, IsFiniteSet(C), NEW bin \in [S -> SUBSET C],
         \A r \in S : r.count = Cardinality(bin[r]),
         \A r, q \in S : r # q => bin[r] \cap bin[q] = {}
  PROVE  Counts(S) = Cardinality(UNION { bin[r] : r \in S })
<1>1. ASSUME NEW r \in S PROVE IsFiniteSet(bin[r]) /\ r.count \in Nat
  BY FS_Subset, FS_CardinalityType
<1>2. PICK it : it[S] = Counts(S) /\ SumOn(it, S)
  <2>1. \A r \in S : r.count \in Nat
    BY <1>1
  <2> QED
    BY <2>1, CountsStep, Zenon
<1> DEFINE Of(s) == UNION { bin[r] : r \in s }
           Wrong == { s \in SUBSET S : it[s] # Cardinality(Of(s)) }
           N == { Cardinality(s) : s \in Wrong }
<1>3. ASSUME NEW s \in SUBSET S
      PROVE  /\ IsFiniteSet(s) /\ Cardinality(s) \in Nat
             /\ IsFiniteSet(Of(s)) /\ Cardinality(Of(s)) \in Nat
  <2>1. Of(s) \in SUBSET C
    OBVIOUS
  <2> HIDE DEF Of
  <2> QED
    BY <2>1, FS_Subset, FS_CardinalityType
<1>4. \A s \in SUBSET S :
        /\ s = {} => it[s] = 0
        /\ s # {} => AnyOf(s) \in s /\ it[s] = it[s \ {AnyOf(s)}] + AnyOf(s).count
  BY <1>2 DEF SumOn, AnyOf
<1>5. SUFFICES ASSUME Wrong # {} PROVE FALSE
  BY <1>2
<1>6. PICK n \in N : \A m \in N : n =< m
  <2>1. \A s \in Wrong : Cardinality(s) \in Nat
    BY <1>3
  <2>2. N \in SUBSET Nat /\ N # {}
    <3> HIDE DEF Wrong
    <3> QED
      BY <2>1, <1>5
  <2> HIDE DEF N
  <2> QED
    BY <2>2, MinExists
<1>7. PICK s \in Wrong : n = Cardinality(s)
  BY <1>6
<1> DEFINE x == AnyOf(s)
           A == s \ {x}
<1>8. s # {}
  <2> SUFFICES ASSUME s = {} PROVE FALSE
    OBVIOUS
  <2>1. it[s] = 0
    BY <1>4
  <2>2. Of(s) = {}
    OBVIOUS
  <2> QED
    BY <2>1, <2>2, <1>7, FS_EmptySet
<1>9. s \in SUBSET S /\ x \in s /\ A \in SUBSET S /\ it[s] = it[A] + x.count
  BY <1>4, <1>7, <1>8
<1>10. Of(s) = Of(A) \cup bin[x] /\ Of(A) \cap bin[x] = {}
  <2>1. \A r \in A : r \in S /\ x \in S /\ r # x
    BY <1>9
  <2>2. s = A \cup {x}
    BY <1>9
  <2> HIDE DEF x, A
  <2> QED
    BY <2>1, <2>2
<1>11. Cardinality(A) = n - 1 /\ n \in Nat
  BY <1>3, <1>7, <1>9, FS_RemoveElement
<1> HIDE DEF x, A
<1>12. it[A] = Cardinality(Of(A))
  <2> SUFFICES ASSUME A \in Wrong PROVE FALSE
    BY <1>9
  <2>1. Cardinality(A) \in N
    OBVIOUS
  <2>2. n =< Cardinality(A)
    BY <1>6, <2>1
  <2> QED
    BY <2>2, <1>11
<1>13. Cardinality(Of(s)) = Cardinality(Of(A)) + x.count
  <2>1. /\ IsFiniteSet(Of(A)) /\ IsFiniteSet(bin[x]) /\ Cardinality(Of(A)) \in Nat
        /\ x.count = Cardinality(bin[x]) /\ x.count \in Nat
    BY <1>1, <1>3, <1>9
  <2> HIDE DEF Of
  <2>2. Cardinality(Of(A) \cup bin[x]) = Cardinality(Of(A)) + Cardinality(bin[x]) - Cardinality(Of(A) \cap bin[x])
    BY <2>1, FS_Union
  <2>3. Cardinality(Of(A) \cap bin[x]) = 0
    BY <1>10, FS_EmptySet
  <2> QED
    BY <1>10, <2>1, <2>2, <2>3
<1> QED
  BY <1>7, <1>9, <1>12, <1>13

LEMMA CountsOfFibres ==
  ASSUME NEW C, IsFiniteSet(C), NEW S, NEW f \in [C -> S], \A r \in S : \E i \in C : f[i] = r,
         \A r \in S : r.count = Cardinality({ i \in C : f[i] = r })
  PROVE  IsFiniteSet(S) /\ Counts(S) = Cardinality(C)
<1> DEFINE bin == [r \in S |-> { i \in C : f[i] = r }]
<1>1. IsFiniteSet(S)
  <2>1. f \in Surjection(C, S)
    BY Fun_IsSurj
  <2> QED
    BY <2>1, FS_Surjection
<1>2. /\ bin \in [S -> SUBSET C]
      /\ \A r \in S : r.count = Cardinality(bin[r])
      /\ \A r, q \in S : r # q => bin[r] \cap bin[q] = {}
  OBVIOUS
<1>3. UNION { bin[r] : r \in S } = C
  OBVIOUS
<1> HIDE DEF bin
<1>4. Counts(S) = Cardinality(UNION { bin[r] : r \in S })
  BY <1>1, <1>2, CountsOf
<1> QED
  BY <1>1, <1>3, <1>4

LEMMA MaxOf ==
  ASSUME NEW n \in Nat, NEW S \in SUBSET (0 .. n), NEW x \in S
  PROVE  Max(S) \in S /\ x =< Max(S)
<1>1. PICK m \in S : \A y \in S : y =< m
  BY MaxExists
<1>2. \A y \in S : m >= y
  BY <1>1
<1>3. Max(S) \in S /\ \A y \in S : Max(S) >= y
  BY <1>2, Zenon DEF Max
<1> QED
  BY <1>3

-----------------------------------------------------------------------------
(* Usage: a report of any lines *)

LogLine == [time : Nat, what : Counted, ok : BOOLEAN]

RowsOf(kind, F) == IF kind = "access" THEN AccessRecords(F) ELSE IngestRecords(F)

\* In the log of ingestions every line counts, and has a time of its own.
Countable(kind, F) ==
  kind # "access" => /\ \A i \in DOMAIN F : F[i].ok
                     /\ \A i, j \in DOMAIN F : i # j => F[i].time # F[j].time

LEMMA RowsCount ==
  ASSUME NEW kind, NEW F \in Seq(LogLine), Countable(kind, F),
         NEW n \in Nat, \A i \in DOMAIN F : F[i].time =< n
  PROVE  LET counted == { i \in DOMAIN F : F[i].ok }
         IN  /\ Counts(RowsOf(kind, F)) = Cardinality(counted)
             /\ \A i \in counted : \E r \in RowsOf(kind, F) : F[i].time =< r.time
             /\ \A r \in RowsOf(kind, F) : r.time \in 0 .. n
<1> DEFINE C == { i \in DOMAIN F : F[i].ok }
<1>1. /\ DOMAIN F = 1 .. Len(F) /\ Len(F) \in Nat
      /\ \A i \in DOMAIN F : F[i] \in LogLine /\ F[i].time \in 0 .. n
  <2>1. DOMAIN F = 1 .. Len(F) /\ Len(F) \in Nat
    BY LenProperties
  <2>2. \A i \in DOMAIN F : F[i] \in LogLine
    BY <2>1, ElementOfSeq
  <2> QED
    BY <2>1, <2>2 DEF LogLine
<1>2. IsFiniteSet(C)
  <2>1. IsFiniteSet(DOMAIN F)
    BY <1>1, FS_Interval
  <2> QED
    BY <2>1, FS_Subset
<1>3. CASE kind = "access"
  <2> DEFINE bin(what) == { i \in C : F[i].what = what }
             row(what) == [what |-> what, count |-> Cardinality(bin(what)),
                           time |-> Max({ F[i].time : i \in bin(what) })]
             S == { row(what) : what \in { F[i].what : i \in C } }
             f == [i \in C |-> row(F[i].what)]
  <2>1. RowsOf(kind, F) = S
    BY <1>3, Zenon DEF RowsOf, AccessRecords
  <2>2. ASSUME NEW i \in C
        PROVE  F[i].time =< row(F[i].what).time /\ row(F[i].what).time \in 0 .. n
    <3> DEFINE T == { F[j].time : j \in bin(F[i].what) }
    <3>1. T \in SUBSET (0 .. n) /\ F[i].time \in T
      BY <1>1
    <3>2. row(F[i].what).time = Max(T)
      OBVIOUS
    <3> HIDE DEF T
    <3>3. Max(T) \in T /\ F[i].time =< Max(T)
      BY <3>1, MaxOf
    <3> QED
      BY <3>1, <3>2, <3>3
  <2>3. ASSUME NEW i \in C PROVE row(F[i].what).what = F[i].what /\ row(F[i].what).count = Cardinality(bin(F[i].what))
    OBVIOUS
  <2>4. /\ \A i \in C : f[i] = row(F[i].what)
        /\ f \in [C -> S]
        /\ \A r \in S : \E i \in C : r = row(F[i].what)
    OBVIOUS
  <2> HIDE DEF C, row, f, S
  <2>5. ASSUME NEW r \in S PROVE r.count = Cardinality({ i \in C : f[i] = r })
    <3>1. PICK i \in C : r = row(F[i].what)
      BY <2>4
    <3>2. \A j \in C : f[j] = r <=> F[j].what = F[i].what
      BY <2>3, <2>4, <3>1
    <3>3. { j \in C : f[j] = r } = bin(F[i].what)
      BY <3>2
    <3> QED
      BY <2>3, <3>1, <3>3
  <2>6. \A r \in S : \E i \in C : f[i] = r
    BY <2>4
  <2>7. Counts(S) = Cardinality(C)
    BY <1>2, <2>4, <2>5, <2>6, CountsOfFibres
  <2>8. \A i \in C : \E r \in S : F[i].time =< r.time
    BY <2>2, <2>4
  <2>9. \A r \in S : r.time \in 0 .. n
    BY <2>2, <2>4
  <2> QED
    BY <2>1, <2>7, <2>8, <2>9 DEF C
<1>4. CASE kind # "access"
  <2> DEFINE row(i) == [what |-> F[i].what, count |-> 1, time |-> F[i].time]
             S == { row(i) : i \in DOMAIN F }
             f == [i \in C |-> row(i)]
  <2>1. RowsOf(kind, F) = S
    BY <1>4, Zenon DEF RowsOf, IngestRecords
  <2>2. C = DOMAIN F
    BY <1>4 DEF Countable
  <2>3. /\ \A i \in C : f[i] = row(i)
        /\ \A i \in C : row(i).count = 1 /\ row(i).time = F[i].time
        /\ f \in [C -> S]
        /\ \A r \in S : \E i \in C : r = row(i)
    BY <2>2
  <2> HIDE DEF row, f, S
  <2>4. ASSUME NEW r \in S PROVE r.count = Cardinality({ i \in C : f[i] = r })
    <3>1. PICK i \in C : r = row(i)
      BY <2>3
    <3>2. { j \in C : f[j] = r } = {i}
      BY <1>4, <2>2, <2>3, <3>1 DEF Countable
    <3> QED
      BY <2>3, <3>1, <3>2, FS_Singleton
  <2>5. \A r \in S : \E i \in C : f[i] = r
    BY <2>3
  <2> HIDE DEF C
  <2>6. Counts(S) = Cardinality(C)
    BY <1>2, <2>3, <2>4, <2>5, CountsOfFibres
  <2>7. \A i \in C : \E r \in S : F[i].time =< r.time
    <3>1. \A i \in C : F[i].time \in 0 .. n /\ row(i) \in S
      BY <1>1, <2>2, <2>3
    <3> QED
      BY <2>3, <3>1
  <2>8. \A r \in S : r.time \in 0 .. n
    BY <1>1, <2>2, <2>3
  <2> QED
    BY <2>1, <2>6, <2>7, <2>8 DEF C
<1> QED
  BY <1>3, <1>4

WindowOf(table) ==
  LET times == { r.time : r \in table }
  IN  IF table = {} THEN <<>> ELSE << Min(times), Max(times) >>

LEMMA WindowCovers ==
  ASSUME NEW n \in Nat, NEW table, \A r \in table : r.time \in 0 .. n, NEW q \in table
  PROVE  WindowOf(table)[2] \in Nat /\ q.time =< WindowOf(table)[2]
<1> DEFINE T == { r.time : r \in table }
<1>1. T \in SUBSET (0 .. n) /\ q.time \in T
  OBVIOUS
<1>2. WindowOf(table) = << Min(T), Max(T) >>
  BY DEF WindowOf
<1> HIDE DEF T
<1>3. Max(T) \in 0 .. n /\ q.time =< Max(T)
  BY <1>1, MaxOf
<1>4. WindowOf(table)[2] = Max(T)
  BY <1>2
<1> QED
  BY <1>3, <1>4

-----------------------------------------------------------------------------
(* Usage: the invariant *)

UsageTypes ==
  /\ log \in {"access", "ingest"} /\ now \in Nat /\ today \in Days
  /\ files \in [Days -> Seq(LogLine)]
  /\ handle \in [Logger -> Days]
  /\ line \in [Logger -> LogLine \cup {NoLine}]
  /\ checked \in [Logger -> BOOLEAN]
  /\ rotation \in {"done", "reload", "report"}
  /\ DOMAIN reports = Days

\* Only between the renaming and the reload does the web server write to the old file; a
\* process that ingests has looked for the current one only while it holds a line.
HandlesRight ==
  /\ rotation # "done" => today >= 1
  /\ rotation = "reload" => log = "access"
  /\ log = "access" => \A w \in Logger : handle[w] = IF rotation = "reload" THEN today - 1 ELSE today
  /\ \A w \in Logger : checked[w] => line[w] # NoLine /\ log = "ingest"

\* No line is from the future, and no two have the same time.
LinesApart ==
  /\ \A d \in Days : Countable(log, files[d]) /\ \A i \in DOMAIN files[d] : files[d][i].time =< now
  /\ \A w \in Logger : line[w] # NoLine =>
       /\ line[w].time =< now /\ (log = "ingest" => line[w].ok)
       /\ \A v \in Logger : v # w /\ line[v] # NoLine => line[v].time # line[w].time
       /\ \A d \in Days : \A i \in DOMAIN files[d] : files[d][i].time # line[w].time

Holding(d) == { w \in Logger : checked[w] /\ handle[w] = d }

\* A report is about the beginning of a file that is only added to, by those who had looked
\* before it was renamed.
ReportRight(d) ==
  /\ d < today /\ (rotation # "done" => d < today - 1)
  /\ reports[d].read \in 0 .. Len(files[d])
  /\ reports[d].rows = RowsOf(log, SubSeq(files[d], 1, reports[d].read))
  /\ reports[d].window = WindowOf(reports[d].rows)
  /\ \A i \in DOMAIN files[d] : i > reports[d].read => files[d][i].time =< reports[d].extraction
  /\ \A w \in Holding(d) : line[w].time =< reports[d].extraction
  /\ (Len(files[d]) - reports[d].read) + Cardinality(Holding(d)) =<
       IF log = "access" THEN 0 ELSE Cardinality(Logger)

UsageInv ==
  /\ UsageTypes
  /\ HandlesRight
  /\ LinesApart
  /\ \A d \in Days : reports[d] # NoReport => ReportRight(d)

LEMMA HoldingFinite ==
  ASSUME NEW H \in SUBSET Logger
  PROVE  /\ IsFiniteSet(H) /\ Cardinality(H) \in Nat /\ Cardinality(H) =< Cardinality(Logger)
         /\ Cardinality(Logger) \in Nat
BY UsageAssumption, FS_Subset, FS_CardinalityType

LEMMA UsageInitInv == UsageInit => UsageInv
<1> SUFFICES ASSUME UsageInit PROVE UsageInv
  OBVIOUS
<1>1. 0 \in Days /\ <<>> \in Seq(LogLine) /\ DOMAIN <<>> = {}
  BY UsageAssumption, EmptySeq, LenProperties DEF Days
<1> QED
  BY <1>1 DEF UsageInit, UsageInv, UsageTypes, HandlesRight, LinesApart, Countable

(***************************************************************************)
(* What a report says stays true as long as its file is not written to and *)
(* nobody comes to hold it.                                                *)
(***************************************************************************)
LEMMA ReportKept ==
  ASSUME UsageTypes, HandlesRight, UsageTypes', log' = log, NEW d \in Days, ReportRight(d),
         reports'[d] = reports[d], files'[d] = files[d],
         d < today' /\ (rotation' # "done" => d < today' - 1),
         Holding(d)' \subseteq Holding(d), \A w \in Holding(d)' : line'[w] = line[w]
  PROVE  ReportRight(d)'
<1> DEFINE H == Holding(d)
           K == Holding(d)'
           n == Len(files[d]) - reports[d].read
<1>1. n \in Nat
  BY LenProperties DEF UsageTypes, ReportRight
<1>2. /\ Cardinality(H) \in Nat /\ Cardinality(K) \in Nat /\ Cardinality(K) =< Cardinality(H)
      /\ Cardinality(Logger) \in Nat
  <2>1. H \in SUBSET Logger /\ K \in SUBSET H
    BY DEF Holding
  <2> HIDE DEF H, K
  <2> QED
    BY <2>1, HoldingFinite, FS_Subset
<1>3. n + Cardinality(H) =< IF log = "access" THEN 0 ELSE Cardinality(Logger)
  BY DEF ReportRight
<1> HIDE DEF H, K, n
<1>4. n + Cardinality(K) =< IF log = "access" THEN 0 ELSE Cardinality(Logger)
  BY <1>1, <1>2, <1>3
<1>5. \A w \in K : line'[w].time =< reports[d].extraction
  BY DEF ReportRight, H, K
<1>6. (Len(files[d]) - reports[d].read) + Cardinality(K) =< IF log = "access" THEN 0 ELSE Cardinality(Logger)
  BY <1>4 DEF n
<1> QED
  BY <1>5, <1>6 DEF ReportRight, K

LEMMA TimesPast ==
  ASSUME UsageInv
  PROVE  /\ \A d \in Days : \A i \in DOMAIN files[d] : files[d][i].time \in Nat /\ files[d][i].time =< now
         /\ \A v \in Logger : line[v] # NoLine => line[v].time \in Nat /\ line[v].time =< now
<1>1. ASSUME NEW d \in Days, NEW i \in DOMAIN files[d] PROVE files[d][i].time \in Nat
  <2>1. files[d] \in Seq(LogLine)
    BY DEF UsageInv, UsageTypes
  <2>2. files[d][i] \in LogLine
    BY <2>1, LenProperties, ElementOfSeq
  <2> QED
    BY <2>2 DEF LogLine
<1>2. ASSUME NEW v \in Logger, line[v] # NoLine PROVE line[v].time \in Nat
  BY <1>2 DEF UsageInv, UsageTypes, LogLine
<1> QED
  BY <1>1, <1>2 DEF UsageInv, LinesApart

LEMMA OccurInv ==
  ASSUME UsageInv, NEW w \in Logger, Occur(w)
  PROVE  UsageInv'
<1>1. PICK what \in Counted, ok \in IF log = "access" THEN BOOLEAN ELSE {TRUE} :
        line' = [line EXCEPT ![w] = [time |-> now + 1, what |-> what, ok |-> ok]]
  BY DEF Occur
<1>2. /\ line[w] = NoLine /\ now' = now + 1
      /\ UNCHANGED <<log, today, files, handle, checked, rotation, reports>>
  BY DEF Occur
<1> DEFINE l == [time |-> now + 1, what |-> what, ok |-> ok]
<1>3. l \in LogLine /\ l.time = now + 1 /\ (log = "ingest" => l.ok) /\ now \in Nat
  <2>1. now \in Nat /\ now + 1 \in Nat
    BY DEF UsageInv, UsageTypes
  <2>2. ok \in BOOLEAN
    OBVIOUS
  <2>3. log = "ingest" => ok = TRUE
    OBVIOUS
  <2>4. l \in LogLine
    BY <2>1, <2>2 DEF LogLine
  <2>5. l.time = now + 1 /\ l.ok = ok
    OBVIOUS
  <2> HIDE DEF l
  <2> QED
    BY <2>1, <2>3, <2>4, <2>5
<1>4. line'[w] = l /\ \A v \in Logger : v # w => line'[v] = line[v]
  BY <1>1 DEF UsageInv, UsageTypes
<1>5. UsageTypes'
  BY <1>1, <1>2, <1>3 DEF UsageInv, UsageTypes
<1> HIDE DEF l
<1>9. ~checked[w]
  BY <1>2 DEF UsageInv, HandlesRight
<1>6. HandlesRight'
  <2>1. \A v \in Logger : checked[v] => line'[v] # NoLine /\ log = "ingest"
    BY <1>4, <1>9 DEF UsageInv, HandlesRight
  <2> QED
    BY <1>2, <2>1 DEF UsageInv, HandlesRight
<1>7. LinesApart'
  <2>1. /\ \A d \in Days : \A i \in DOMAIN files[d] : files[d][i].time \in Nat /\ files[d][i].time =< now
        /\ \A v \in Logger : line[v] # NoLine => line[v].time \in Nat /\ line[v].time =< now
    BY TimesPast
  <2>2. \A d \in Days : Countable(log, files[d])
    BY DEF UsageInv, LinesApart
  <2>3. ASSUME NEW u \in Logger, line'[u] # NoLine
        PROVE  /\ line'[u].time =< now + 1 /\ (log = "ingest" => line'[u].ok)
               /\ \A v \in Logger : v # u /\ line'[v] # NoLine => line'[v].time # line'[u].time
               /\ \A d \in Days : \A i \in DOMAIN files[d] : files[d][i].time # line'[u].time
    <3>1. CASE u = w
      BY <3>1, <1>3, <1>4, <2>1
    <3>2. CASE u # w
      BY <3>2, <1>3, <1>4, <2>1, <2>3 DEF UsageInv, LinesApart
    <3> QED
      BY <3>1, <3>2
  <2> QED
    BY <1>2, <1>3, <2>1, <2>2, <2>3 DEF LinesApart
<1>8. ASSUME NEW d \in Days, reports'[d] # NoReport PROVE ReportRight(d)'
  <2>1. ReportRight(d) /\ Holding(d)' = Holding(d) /\ w \notin Holding(d) /\ Holding(d) \subseteq Logger
    BY <1>2, <1>8, <1>9 DEF UsageInv, Holding
  <2> QED
    BY <1>2, <1>4, <1>5, <2>1, ReportKept DEF UsageInv, ReportRight
<1> QED
  BY <1>5, <1>6, <1>7, <1>8 DEF UsageInv

LEMMA WatchFileInv ==
  ASSUME UsageInv, NEW w \in Logger, WatchFile(w)
  PROVE  UsageInv'
<1>1. /\ log = "ingest" /\ line[w] # NoLine
      /\ handle' = [handle EXCEPT ![w] = today] /\ checked' = [checked EXCEPT ![w] = TRUE]
      /\ UNCHANGED <<log, now, today, files, line, rotation, reports>>
  BY DEF WatchFile
<1>2. UsageTypes'
  BY <1>1 DEF UsageInv, UsageTypes
<1>3. /\ handle'[w] = today /\ \A v \in Logger : v # w => handle'[v] = handle[v] /\ checked'[v] = checked[v]
  BY <1>1 DEF UsageInv, UsageTypes
<1>4. HandlesRight'
  BY <1>1, <1>3 DEF UsageInv, HandlesRight
<1>5. LinesApart'
  BY <1>1 DEF UsageInv, LinesApart
<1>6. ASSUME NEW d \in Days, reports'[d] # NoReport PROVE ReportRight(d)'
  <2>1. ReportRight(d) /\ d < today /\ (rotation # "done" => d < today - 1)
    BY <1>1, <1>6 DEF UsageInv, ReportRight
  <2>2. d # today
    BY <2>1 DEF UsageInv, UsageTypes, Days
  <2>3. Holding(d)' \subseteq Holding(d) /\ Holding(d) \subseteq Logger
    BY <1>3, <2>2 DEF Holding
  <2> QED
    BY <1>1, <1>2, <2>1, <2>3, ReportKept DEF UsageInv
<1> QED
  BY <1>2, <1>4, <1>5, <1>6 DEF UsageInv

LEMMA RotateInv ==
  ASSUME UsageInv, Rotate
  PROVE  UsageInv'
<1>1. /\ rotation = "done" /\ today < MaxDays /\ today' = today + 1 /\ now' = now + 1
      /\ rotation' = IF log = "access" THEN "reload" ELSE "report"
      /\ UNCHANGED <<log, files, handle, line, checked, reports>>
  BY DEF Rotate
<1>2. today \in Nat /\ now \in Nat /\ today + 1 \in Days /\ \A d \in Days : d \in Nat
  BY <1>1, UsageAssumption DEF UsageInv, UsageTypes, Days
<1>3. UsageTypes'
  BY <1>1, <1>2 DEF UsageInv, UsageTypes
<1>4. HandlesRight'
  BY <1>1, <1>2 DEF UsageInv, HandlesRight
<1>5. LinesApart'
  <2>1. /\ \A d \in Days : \A i \in DOMAIN files[d] : files[d][i].time \in Nat /\ files[d][i].time =< now
        /\ \A v \in Logger : line[v] # NoLine => line[v].time \in Nat /\ line[v].time =< now
    BY TimesPast
  <2>2. /\ \A d \in Days : \A i \in DOMAIN files[d] : files[d][i].time =< now + 1
        /\ \A v \in Logger : line[v] # NoLine => line[v].time =< now + 1
    BY <1>2, <2>1
  <2> QED
    BY <1>1, <2>2 DEF UsageInv, LinesApart
<1>6. ASSUME NEW d \in Days, reports'[d] # NoReport PROVE ReportRight(d)'
  <2>1. ReportRight(d) /\ d < today
    BY <1>1, <1>6 DEF UsageInv, ReportRight
  <2>2. d < today' /\ d < today' - 1
    BY <1>1, <1>2, <2>1
  <2>3. Holding(d)' = Holding(d) /\ Holding(d) \subseteq Logger
    BY <1>1 DEF Holding
  <2> QED
    BY <1>1, <1>3, <2>1, <2>2, <2>3, ReportKept DEF UsageInv
<1> QED
  BY <1>3, <1>4, <1>5, <1>6 DEF UsageInv

LEMMA ReloadInv ==
  ASSUME UsageInv, Reload
  PROVE  UsageInv'
<1>1. /\ rotation = "reload" /\ handle' = [w \in Logger |-> today] /\ line' = [w \in Logger |-> NoLine]
      /\ rotation' = "report" /\ UNCHANGED <<log, now, today, files, checked, reports>>
  BY DEF Reload
<1>2. UsageTypes'
  BY <1>1 DEF UsageInv, UsageTypes
<1>3. log = "access" /\ \A w \in Logger : ~checked[w]
  BY <1>1 DEF UsageInv, HandlesRight, UsageTypes
<1>4. HandlesRight'
  BY <1>1, <1>3 DEF UsageInv, HandlesRight
<1>5. LinesApart'
  BY <1>1 DEF UsageInv, LinesApart
<1>6. ASSUME NEW d \in Days, reports'[d] # NoReport PROVE ReportRight(d)'
  <2>1. ReportRight(d) /\ d < today /\ (rotation # "done" => d < today - 1)
    BY <1>1, <1>6 DEF UsageInv, ReportRight
  <2>2. Holding(d)' = {}
    BY <1>1, <1>3 DEF Holding
  <2> QED
    BY <1>1, <1>2, <2>1, <2>2, ReportKept DEF UsageInv
<1> QED
  BY <1>2, <1>4, <1>5, <1>6 DEF UsageInv

LEMMA MakeReportInv ==
  ASSUME UsageInv, MakeReport
  PROVE  UsageInv'
<1> DEFINE y == today - 1
<1>0. y \in Days /\ today \in Nat /\ \A d \in Days : d \in Nat
  <2>1. today >= 1 /\ today \in Days
    BY DEF MakeReport, UsageInv, HandlesRight, UsageTypes
  <2> QED
    BY <2>1, UsageAssumption DEF Days
<1>8. PICK e \in Days : e = today - 1
  BY <1>0
<1> HIDE DEF y
<1> DEFINE F == files[e]
<1>1. /\ rotation = "report" /\ reports' = [reports EXCEPT ![e] = ReportXml(F)]
      /\ rotation' = "done" /\ UNCHANGED <<log, now, today, files, handle, line, checked>>
  BY <1>8 DEF MakeReport
<1>2. e < today /\ F \in Seq(LogLine)
  BY <1>0, <1>8 DEF UsageInv, UsageTypes
<1>3. UsageTypes'
  BY <1>1 DEF UsageInv, UsageTypes
<1>4. HandlesRight'
  BY <1>1 DEF UsageInv, HandlesRight
<1>5. LinesApart'
  BY <1>1 DEF UsageInv, LinesApart
<1>6. ASSUME NEW d \in Days, d # e, reports'[d] # NoReport PROVE ReportRight(d)'
  <2>1. reports'[d] = reports[d]
    BY <1>1, <1>6 DEF UsageInv, UsageTypes
  <2>2. ReportRight(d) /\ d < today
    BY <1>6, <2>1 DEF UsageInv, ReportRight
  <2>3. Holding(d)' = Holding(d) /\ Holding(d) \subseteq Logger
    BY <1>1 DEF Holding
  <2> QED
    BY <1>1, <1>3, <2>1, <2>2, <2>3, ReportKept DEF UsageInv
<1>7. ReportRight(e)'
  <2> DEFINE r == reports'[e]
             H == Holding(e)
  <2>1. r = ReportXml(F)
    BY <1>1, <1>2 DEF UsageInv, UsageTypes
  <2>2. r.rows = RowsOf(log, F) /\ r.extraction = now /\ r.read = Len(F) /\ r.window = WindowOf(r.rows)
    BY <2>1 DEF ReportXml, RowsOf, WindowOf
  <2>3. SubSeq(F, 1, Len(F)) = F /\ DOMAIN F = 1 .. Len(F) /\ Len(F) \in Nat
    BY <1>2, SubSeqFull, LenProperties
  <2>4. H \in SUBSET Logger /\ H = Holding(e)' /\ (log = "access" => H = {})
    BY <1>1 DEF Holding, UsageInv, HandlesRight
  <2>5. \A w \in H : line[w].time =< now
    BY DEF Holding, UsageInv, HandlesRight, LinesApart
  <2> HIDE DEF H
  <2>6. Cardinality(H) \in Nat /\ (log = "access" => Cardinality(H) = 0)
        /\ Cardinality(H) =< Cardinality(Logger)
    BY <2>4, HoldingFinite, FS_EmptySet
  <2>7. (Len(F) - r.read) + Cardinality(H) =< IF log = "access" THEN 0 ELSE Cardinality(Logger)
    BY <2>2, <2>3, <2>6
  <2>8. \A i \in DOMAIN F : ~(i > r.read)
    BY <2>2, <2>3
  <2> HIDE DEF r, F
  <2>9. files'[e] = F /\ reports'[e] = r
    BY <1>1 DEF F, r
  <2>10. r.read \in 0 .. Len(F)
    BY <2>2, <2>3
  <2> QED
    BY <1>1, <1>2, <2>2, <2>3, <2>4, <2>5, <2>7, <2>8, <2>9, <2>10 DEF ReportRight
<1> QED
  BY <1>3, <1>4, <1>5, <1>6, <1>7 DEF UsageInv

LEMMA WriteLineInv ==
  ASSUME UsageInv, NEW w \in Logger, WriteLine(w)
  PROVE  UsageInv'
<1>1. PICK h \in Days : h = handle[w]
  BY DEF UsageInv, UsageTypes
<1> DEFINE l == line[w]
           F == files[h]
           G == Append(F, l)
<1>2. /\ l # NoLine /\ (log = "ingest" => checked[w])
      /\ files' = [files EXCEPT ![h] = G] /\ line' = [line EXCEPT ![w] = NoLine]
      /\ checked' = [checked EXCEPT ![w] = FALSE]
      /\ UNCHANGED <<log, now, today, handle, rotation, reports>>
  BY <1>1 DEF WriteLine
<1>3. F \in Seq(LogLine) /\ l \in LogLine
  BY <1>2 DEF UsageInv, UsageTypes
<1>4. /\ G \in Seq(LogLine) /\ Len(F) \in Nat /\ Len(G) = Len(F) + 1
      /\ DOMAIN F = 1 .. Len(F) /\ DOMAIN G = 1 .. Len(F) + 1
      /\ \A i \in 1 .. Len(F) : G[i] = F[i]
      /\ G[Len(F) + 1] = l
  BY <1>3, AppendProperties, LenProperties
<1>5. \A i \in DOMAIN G : (i \in DOMAIN F /\ G[i] = F[i]) \/ (i = Len(F) + 1 /\ G[i] = l)
  BY <1>4
<1>6. \A r \in 0 .. Len(F) : SubSeq(G, 1, r) = SubSeq(F, 1, r)
  <2> SUFFICES ASSUME NEW r \in 0 .. Len(F) PROVE SubSeq(G, 1, r) = SubSeq(F, 1, r)
    OBVIOUS
  <2>1. CASE r = 0
    BY <2>1, SubSeqEmpty
  <2>2. CASE r # 0
    <3>1. G = F \o <<l>> /\ <<l>> \in Seq(LogLine)
      BY <1>3, AppendIsConcat
    <3>2. r \in 1 .. Len(F) /\ 1 \in 1 .. Len(F)
      BY <1>4, <2>2
    <3> HIDE DEF F, G, l
    <3> QED
      BY <1>3, <3>1, <3>2, SubSeqOfConcat1
  <2> QED
    BY <2>1, <2>2
<1> HIDE DEF G, F, l
<1>7. /\ files'[h] = G /\ \A d \in Days : d # h => files'[d] = files[d]
      /\ line'[w] = NoLine /\ ~checked'[w]
      /\ \A v \in Logger : v # w => line'[v] = line[v] /\ checked'[v] = checked[v]
  BY <1>2 DEF UsageInv, UsageTypes
<1>8. UsageTypes'
  BY <1>2, <1>4 DEF UsageInv, UsageTypes
<1>9. HandlesRight'
  BY <1>2, <1>7 DEF UsageInv, HandlesRight
<1>10. LinesApart'
  <2>1. l.time =< now /\ (log = "ingest" => l.ok) /\ \A i \in DOMAIN F : F[i].time # l.time
    BY <1>2 DEF UsageInv, LinesApart, l, F
  <2>2. Countable(log, G) /\ \A i \in DOMAIN G : G[i].time =< now
    <3>1. Countable(log, F) /\ \A i \in DOMAIN F : F[i].time =< now
      BY DEF UsageInv, LinesApart, F
    <3>2. log \in {"access", "ingest"}
      BY DEF UsageInv, UsageTypes
    <3> QED
      BY <1>5, <2>1, <3>1, <3>2 DEF Countable
  <2>3. ASSUME NEW u \in Logger, line'[u] # NoLine
        PROVE  /\ line'[u].time =< now /\ (log = "ingest" => line'[u].ok)
               /\ \A v \in Logger : v # u /\ line'[v] # NoLine => line'[v].time # line'[u].time
               /\ \A d \in Days : \A i \in DOMAIN files'[d] : files'[d][i].time # line'[u].time
    <3>1. u # w /\ line'[u] = line[u]
      BY <1>7, <2>3
    <3>2. /\ line[u].time =< now /\ (log = "ingest" => line[u].ok)
          /\ \A v \in Logger : v # u /\ line[v] # NoLine => line[v].time # line[u].time
          /\ \A d \in Days : \A i \in DOMAIN files[d] : files[d][i].time # line[u].time
      BY <2>3, <3>1 DEF UsageInv, LinesApart
    <3>3. \A i \in DOMAIN G : G[i].time # line[u].time
      BY <1>2, <1>5, <3>1, <3>2 DEF l, F
    <3> QED
      BY <1>7, <3>1, <3>2, <3>3
  <2>4. ASSUME NEW d \in Days
        PROVE  Countable(log, files'[d]) /\ \A i \in DOMAIN files'[d] : files'[d][i].time =< now
    BY <1>7, <2>2 DEF UsageInv, LinesApart
  <2> QED
    BY <1>2, <2>3, <2>4 DEF LinesApart
<1>11. ASSUME NEW d \in Days, reports'[d] # NoReport PROVE ReportRight(d)'
  <2>1. ReportRight(d) /\ d < today /\ (rotation # "done" => d < today - 1)
    BY <1>2, <1>11 DEF UsageInv, ReportRight
  <2>2. Holding(d)' = Holding(d) \ {w} /\ Holding(d) \subseteq Logger
    BY <1>2, <1>7 DEF Holding
  <2>3. CASE d # h
    <3>1. \A v \in Holding(d)' : line'[v] = line[v]
      BY <1>7, <2>2
    <3> QED
      BY <1>2, <1>7, <1>8, <2>1, <2>2, <2>3, <3>1, ReportKept DEF UsageInv
  <2>4. CASE d = h
    <3>1. log = "ingest" /\ w \in Holding(d)
      <4>1. log # "access"
        <5> SUFFICES ASSUME log = "access" PROVE FALSE
          OBVIOUS
        <5>1. h = IF rotation = "reload" THEN today - 1 ELSE today
          BY <1>1 DEF UsageInv, HandlesRight
        <5>2. d \in Nat /\ today \in Nat
          BY DEF UsageInv, UsageTypes, Days
        <5> QED
          BY <2>1, <2>4, <5>1, <5>2
      <4> QED
        BY <1>1, <1>2, <2>4, <4>1 DEF UsageInv, UsageTypes, Holding
    <3> DEFINE r == reports[d]
               H == Holding(d)
    <3>2. /\ r.read \in 0 .. Len(F) /\ r.rows = RowsOf(log, SubSeq(F, 1, r.read))
          /\ r.window = WindowOf(r.rows)
          /\ \A i \in DOMAIN F : i > r.read => F[i].time =< r.extraction
          /\ \A v \in H : line[v].time =< r.extraction
          /\ (Len(F) - r.read) + Cardinality(H) =< Cardinality(Logger)
      BY <2>1, <2>4, <3>1 DEF ReportRight, F
    <3> HIDE DEF r
    <3>3. Cardinality(H \ {w}) = Cardinality(H) - 1 /\ Cardinality(H) \in Nat
      <4> HIDE DEF H
      <4>1. H \in SUBSET Logger /\ w \in H
        BY <2>2, <3>1 DEF H
      <4>2. IsFiniteSet(H) /\ Cardinality(H) \in Nat
        BY <4>1, HoldingFinite
      <4> QED
        BY <4>1, <4>2, FS_RemoveElement
    <3>4. H \ {w} = Holding(d)' /\ \A v \in Holding(d)' : v \in H /\ line'[v] = line[v]
      BY <1>7, <2>2
    <3> HIDE DEF H
    <3>5. r.read \in 0 .. Len(G) /\ (Len(G) - r.read) + Cardinality(H \ {w}) =< Cardinality(Logger)
      BY <1>4, <3>2, <3>3
    <3>6. \A i \in DOMAIN G : i > r.read => G[i].time =< r.extraction
      <4>1. l.time =< r.extraction
        BY <3>1, <3>2 DEF H, l
      <4> QED
        BY <1>5, <3>2, <4>1
    <3>7. \A v \in Holding(d)' : line'[v].time =< r.extraction
      BY <3>2, <3>4
    <3>8. r.rows = RowsOf(log, SubSeq(G, 1, r.read))
      BY <1>6, <3>2
    <3>9. files'[d] = G /\ reports'[d] = r /\ UNCHANGED <<log, today, rotation>>
      BY <1>2, <1>7, <2>4 DEF r
    <3>10. Cardinality(H \ {w}) = Cardinality(Holding(d)')
      BY <3>4
    <3> QED
      BY <2>1, <3>1, <3>2, <3>5, <3>6, <3>7, <3>8, <3>9, <3>10 DEF ReportRight
  <2> QED
    BY <2>3, <2>4
<1> QED
  BY <1>8, <1>9, <1>10, <1>11 DEF UsageInv

LEMMA UsageNextInv == UsageInv /\ [UsageNext]_usagevars => UsageInv'
<1> SUFFICES ASSUME UsageInv, [UsageNext]_usagevars PROVE UsageInv'
  OBVIOUS
<1>1. CASE UNCHANGED usagevars
  BY <1>1 DEF usagevars, UsageInv, UsageTypes, HandlesRight, LinesApart, ReportRight, Holding
<1>2. ASSUME NEW w \in Logger, Occur(w) \/ WatchFile(w) \/ WriteLine(w) PROVE UsageInv'
  BY <1>2, OccurInv, WatchFileInv, WriteLineInv
<1>3. CASE UsageWait
  BY <1>1, <1>3 DEF UsageWait
<1> QED
  BY <1>1, <1>2, <1>3, RotateInv, ReloadInv, MakeReportInv DEF UsageNext

LEMMA ReportedAll ==
  ASSUME UsageInv, NEW d \in Days, reports[d] # NoReport
  PROVE  LET report == reports[d]
             late == { i \in DOMAIN files[d] : i > report.read }
             counted == { i \in DOMAIN files[d] \ late : files[d][i].ok }
         IN  /\ Counts(report.rows) = Cardinality(counted)
             /\ \A i \in counted : files[d][i].time =< report.window[2]
             /\ \A i \in late : files[d][i].time =< report.extraction
             /\ Cardinality(late) =< IF log = "access" THEN 0 ELSE Cardinality(Logger)
<1> DEFINE r == reports[d]
           E == files[d]
           F == SubSeq(E, 1, r.read)
           late == { i \in DOMAIN E : i > r.read }
           counted == { i \in DOMAIN E \ late : E[i].ok }
<1>1. /\ r.read \in 0 .. Len(E)
      /\ r.rows = RowsOf(log, F)
      /\ r.window = WindowOf(r.rows)
      /\ \A i \in DOMAIN E : i > r.read => E[i].time =< r.extraction
      /\ (Len(E) - r.read) + Cardinality(Holding(d)) =< IF log = "access" THEN 0 ELSE Cardinality(Logger)
  BY DEF UsageInv, ReportRight
<1>2. /\ E \in Seq(LogLine) /\ Len(E) \in Nat /\ DOMAIN E = 1 .. Len(E)
      /\ Countable(log, E) /\ now \in Nat /\ \A i \in DOMAIN E : E[i].time =< now
  BY LenProperties DEF UsageInv, UsageTypes, LinesApart
<1> HIDE DEF r, E
<1>3. /\ F \in Seq(LogLine) /\ DOMAIN F = 1 .. r.read
      /\ \A i \in 1 .. r.read : i \in DOMAIN E /\ F[i] = E[i]
  <2> DEFINE n == r.read
  <2>1. n \in Nat /\ n =< Len(E) /\ \A i \in 1 .. n : i \in DOMAIN E
    BY <1>1, <1>2
  <2>2. \A i \in 1 .. n : E[i] \in LogLine
    BY <1>2, <2>1, ElementOfSeq
  <2> HIDE DEF n
  <2>3. /\ SubSeq(E, 1, n) \in Seq(LogLine)
        /\ Len(SubSeq(E, 1, n)) = IF 1 <= n THEN n - 1 + 1 ELSE 0
        /\ \A i \in 1 .. n - 1 + 1 : SubSeq(E, 1, n)[i] = E[1 + i - 1]
    BY <2>1, <2>2, SubSeqProperties
  <2>4. Len(SubSeq(E, 1, n)) = n /\ \A i \in 1 .. n : SubSeq(E, 1, n)[i] = E[i]
    BY <2>1, <2>3
  <2>5. DOMAIN SubSeq(E, 1, n) = 1 .. n
    BY <2>3, <2>4, LenProperties
  <2> QED
    BY <2>1, <2>3, <2>4, <2>5 DEF n
<1> HIDE DEF F
<1>4. DOMAIN E \ late = 1 .. r.read
  BY <1>1, <1>2
<1>5. counted = { i \in DOMAIN F : F[i].ok }
  BY <1>3, <1>4
<1>6. Countable(log, F) /\ \A i \in DOMAIN F : F[i].time =< now
  BY <1>2, <1>3 DEF Countable
<1>7. /\ Counts(r.rows) = Cardinality(counted)
      /\ \A i \in counted : \E q \in r.rows : F[i].time =< q.time
      /\ \A q \in r.rows : q.time \in 0 .. now
  <2> DEFINE C == { i \in DOMAIN F : F[i].ok }
  <2> HIDE DEF late, counted
  <2>1. /\ Counts(RowsOf(log, F)) = Cardinality(C)
        /\ \A i \in C : \E q \in RowsOf(log, F) : F[i].time =< q.time
        /\ \A q \in RowsOf(log, F) : q.time \in 0 .. now
    <3>1. /\ F \in Seq(LogLine) /\ Countable(log, F)
          /\ now \in Nat /\ \A i \in DOMAIN F : F[i].time =< now
      BY <1>2, <1>3, <1>6
    <3> QED
      BY <3>1, RowsCount
  <2>2. counted = C /\ r.rows = RowsOf(log, F)
    BY <1>1, <1>5
  <2> HIDE DEF C
  <2> QED
    BY <2>1, <2>2
<1>8. ASSUME NEW i \in counted PROVE E[i].time =< r.window[2]
  <2>1. PICK q \in r.rows : F[i].time =< q.time
    BY <1>7
  <2>2. r.window[2] \in Nat /\ q.time =< r.window[2]
    BY <1>1, <1>2, <1>7, WindowCovers
  <2>3. F[i] = E[i] /\ F[i].time \in Nat /\ q.time \in Nat
    <3>1. i \in 1 .. r.read
      BY <1>4
    <3>2. F[i] \in LogLine
      BY <1>3, <3>1, LenProperties, ElementOfSeq
    <3> QED
      BY <1>2, <1>3, <1>7, <3>1, <3>2 DEF LogLine
  <2> QED
    BY <2>1, <2>2, <2>3
<1>9. Cardinality(late) =< IF log = "access" THEN 0 ELSE Cardinality(Logger)
  <2>1. late = r.read + 1 .. Len(E)
    BY <1>1, <1>2
  <2>2. Cardinality(late) = Len(E) - r.read
    <3>1. /\ r.read + 1 \in Int /\ Len(E) \in Int /\ r.read \in Int
          /\ r.read + 1 > Len(E) => Len(E) = r.read
      BY <1>1, <1>2
    <3> DEFINE a == r.read + 1
               b == Len(E)
    <3>2. a \in Int /\ b \in Int
      BY <3>1
    <3> HIDE DEF a, b
    <3>3. Cardinality(a .. b) = IF a > b THEN 0 ELSE b - a + 1
      BY <3>2, FS_Interval
    <3> USE DEF a, b
    <3>4. late = a .. b
      BY <2>1
    <3> HIDE DEF late
    <3> QED
      BY <3>1, <3>3, <3>4
  <2>3. Cardinality(Holding(d)) \in Nat /\ Cardinality(Logger) \in Nat
    BY HoldingFinite DEF Holding
  <2> QED
    BY <1>1, <1>2, <2>2, <2>3
<1> QED
  BY <1>1, <1>7, <1>8, <1>9 DEF r, E

(***************************************************************************)
(* However many processes log and however often the files are renamed: the *)
(* report of a file counts each line that was in it, and a line that comes *)
(* later was logged before and is one of at most as many as there are      *)
(* processes.                                                              *)
(***************************************************************************)
THEOREM EveryLineReported == UsageSpec => []LinesReported
<1>1. UsageInv => LinesReported
  BY ReportedAll DEF LinesReported
<1> QED
  BY <1>1, UsageInitInv, UsageNextInv, PTL DEF UsageSpec

-----------------------------------------------------------------------------
(* Place: remainders                                                       *)

LEMMA Quotient ==
  ASSUME NEW a \in Int, NEW f \in Nat \ {0}
  PROVE  a \div f \in Int /\ a % f \in 0 .. f - 1 /\ a = f * (a \div f) + (a % f)
OBVIOUS

LEMMA RemainderUnique ==
  ASSUME NEW a \in Int, NEW f \in Nat \ {0}, NEW q \in Int, NEW r \in 0 .. f - 1, a = f * q + r
  PROVE  a % f = r
OBVIOUS

\* A number has the remainders of those that are multiples away.
LEMMA SameRemainder ==
  ASSUME NEW a \in Int, NEW b \in Int, NEW f \in Nat \ {0}
  PROVE  a % f = b % f <=> \E q \in Int : a = b + f * q
<1> DEFINE m == a \div f
           n == b \div f
<1>1. /\ m \in Int /\ a % f \in 0 .. f - 1 /\ a = f * m + (a % f)
      /\ n \in Int /\ b % f \in 0 .. f - 1 /\ b = f * n + (b % f)
  BY Quotient
<1> HIDE DEF m, n
<1>2. ASSUME a % f = b % f PROVE \E q \in Int : a = b + f * q
  <2>1. m - n \in Int /\ a = b + f * (m - n)
    BY <1>1, <1>2
  <2> QED
    BY <2>1
<1>3. ASSUME NEW q \in Int, a = b + f * q PROVE a % f = b % f
  <2>1. n + q \in Int /\ a = f * (n + q) + (b % f)
    BY <1>1, <1>3
  <2> QED
    BY <1>1, <2>1, RemainderUnique
<1> QED
  BY <1>2, <1>3

LEMMA TurnedRemainder ==
  ASSUME NEW a \in Int, NEW f \in Nat \ {0}
  PROVE  (a + f) % f = a % f /\ (a - f) % f = a % f
<1> DEFINE q == a \div f
           r == a % f
<1>1. q \in Int /\ r \in 0 .. f - 1 /\ a = f * q + r
  BY Quotient
<1> HIDE DEF q, r
<1>2. (a + f) % f = r
  <2>1. q + 1 \in Int /\ a + f \in Int /\ a + f = f * (q + 1) + r
    BY <1>1
  <2> QED
    BY <1>1, <2>1, RemainderUnique
<1>3. (a - f) % f = r
  <2>1. q - 1 \in Int /\ a - f \in Int /\ a - f = f * (q - 1) + r
    BY <1>1
  <2> QED
    BY <1>1, <2>1, RemainderUnique
<1> QED
  BY <1>2, <1>3 DEF r

LEMMA FewMultiples ==
  ASSUME NEW a \in Int, NEW f \in Nat \ {0}, a % f = 0, -(2 * f) < a, a < 2 * f
  PROVE  a \in {-f, 0, f}
<1> DEFINE q == a \div f
<1>1. q \in Int /\ a = f * q
  BY Quotient
<1> HIDE DEF q
<1>2. -2 < q /\ q < 2
  BY <1>1
<1> QED
  BY <1>1, <1>2

-----------------------------------------------------------------------------
(* Place: the times                                                        *)

LEMMA Rounded ==
  ASSUME NEW t \in Nat
  PROVE  /\ RoundToSecond(t) \in Nat /\ RoundToSecond(t) % Second = 0
         /\ 2 * RoundToSecond(t) =< 2 * t + Second
         /\ 2 * RoundToSecond(t) >= 2 * t - Second + 1
<1> DEFINE h == Second \div 2
           q == (t + h) \div Second
<1>1. h \in Nat /\ (Second = 2 * h \/ Second = 2 * h + 1)
  BY BrowseAreaAssumption
<1>2. Second \in Nat \ {0}
  BY BrowseAreaAssumption
<1> HIDE DEF h
<1>3. /\ q \in Int /\ t + h = Second * q + ((t + h) % Second)
      /\ (t + h) % Second \in 0 .. Second - 1
  <2>1. t + h \in Int
    BY <1>1
  <2> QED
    BY <1>2, <2>1, Quotient
<1>4. RoundToSecond(t) = q * Second
  BY DEF RoundToSecond, h
<1> HIDE DEF q
<1>5. q >= 0
  <2> SUFFICES ASSUME q < 0 PROVE FALSE
    BY <1>3
  <2>1. Second * q =< Second * (-1)
    BY <1>2, <1>3
  <2> QED
    BY <1>1, <1>2, <1>3, <2>1
<1> DEFINE R == q * Second
           r == (t + h) % Second
<1>6. R \in Nat /\ r \in 0 .. Second - 1 /\ t + h = R + r
  BY <1>2, <1>3, <1>5
<1>7. R % Second = 0
  <2>1. R = Second * q + 0 /\ 0 \in 0 .. Second - 1 /\ R \in Int
    BY <1>2, <1>3, <1>6
  <2> HIDE DEF R
  <2> QED
    BY <1>2, <1>3, <2>1, RemainderUnique
<1> HIDE DEF R, r
<1>8. 2 * R =< 2 * t + Second /\ 2 * R >= 2 * t - Second + 1
  BY <1>1, <1>2, <1>6
<1> QED
  BY <1>4, <1>6, <1>7, <1>8 DEF R

LEMMA RoundedMonotone ==
  ASSUME NEW t \in Nat, NEW u \in Nat, t =< u
  PROVE  RoundToSecond(t) =< RoundToSecond(u)
<1> DEFINE h == Second \div 2
           p == (t + h) \div Second
           q == (u + h) \div Second
<1>1. h \in Nat /\ Second \in Nat \ {0}
  BY BrowseAreaAssumption
<1> HIDE DEF h
<1>2. /\ p \in Int /\ t + h = Second * p + ((t + h) % Second) /\ (t + h) % Second \in 0 .. Second - 1
      /\ q \in Int /\ u + h = Second * q + ((u + h) % Second) /\ (u + h) % Second \in 0 .. Second - 1
  <2>1. t + h \in Int /\ u + h \in Int
    BY <1>1
  <2> QED
    BY <1>1, <2>1, Quotient
<1>3. RoundToSecond(t) = p * Second /\ RoundToSecond(u) = q * Second
  BY DEF RoundToSecond, h
<1> HIDE DEF p, q
<1>4. p =< q
  <2> SUFFICES ASSUME q + 1 =< p PROVE FALSE
    BY <1>2
  <2>1. Second * (q + 1) =< Second * p
    BY <1>1, <1>2
  <2>2. Second * (q + 1) = Second * q + Second
    BY <1>1, <1>2
  <2> QED
    BY <1>1, <1>2, <2>1, <2>2
<1> QED
  BY <1>1, <1>2, <1>3, <1>4

-----------------------------------------------------------------------------
(* Place: lines made coordinate by coordinate                              *)

Growing(V) == Seq(V) \ {<< >>}

LEMMA Grown ==
  ASSUME NEW V, NEW s \in Growing(V), NEW v \in V
  PROVE  /\ Last(s) \in V /\ Append(s, v) \in Growing(V)
         /\ Len(s) \in Nat \ {0}
BY LenProperties, EmptySeq, ElementOfSeq, AppendProperties DEF Growing, Last

\* What a fold makes that appends, for each k, a value that depends on the last one and k.
Grows(it, n, first, step) ==
  \A s \in SUBSET (1 .. n) :
    it[s] = IF s = {} THEN << first >>
            ELSE Append(it[s \ {Max(s)}], step[<< Last(it[s \ {Max(s)}]), Max(s) >>])

LEMMA MaxOfInterval ==
  ASSUME NEW n \in Nat, NEW s \in SUBSET (1 .. n), s # {}
  PROVE  Max(s) \in s /\ \A y \in s : y =< Max(s)
<1>1. PICK m \in s : \A y \in s : y =< m
  <2>1. s \in SUBSET (0 .. n)
    OBVIOUS
  <2> QED
    BY <2>1, MaxExists
<1>2. \A y \in s : m >= y
  BY <1>1
<1>3. Max(s) \in s /\ \A y \in s : Max(s) >= y
  BY <1>2, Zenon DEF Max
<1> QED
  BY <1>3

LEMMA MaxOfPrefix ==
  ASSUME NEW k \in Nat \ {0}
  PROVE  Max(1 .. k) = k /\ (1 .. k) \ {k} = 1 .. k - 1
<1>1. Max(1 .. k) \in 1 .. k /\ \A y \in 1 .. k : y =< Max(1 .. k)
  <2>1. 1 .. k # {} /\ k \in Nat
    OBVIOUS
  <2> QED
    BY <2>1, MaxOfInterval
<1> QED
  BY <1>1

LEMMA GrowthExists ==
  ASSUME NEW n \in Nat, NEW V, NEW first \in V, NEW step \in [V \X (1 .. n) -> V]
  PROVE  \E it \in [SUBSET (1 .. n) -> Growing(V)] : Grows(it, n, first, step)
<1> DEFINE D == 1 .. n
           g == [p \in Growing(V) \X D |-> Append(p[1], step[<< Last(p[1]), p[2] >>])]
           c == [s \in SUBSET D |-> Max(s)]
<1>1. \A s \in SUBSET D : s # {} => c[s] = Max(s) /\ c[s] \in s
  BY MaxOfInterval
<1>2. ASSUME NEW q \in Growing(V), NEW k \in D
      PROVE  /\ g[<< q, k >>] = Append(q, step[<< Last(q), k >>])
             /\ Append(q, step[<< Last(q), k >>]) \in Growing(V)
  <2>1. step[<< Last(q), k >>] \in V
    BY Grown
  <2> QED
    BY <2>1, Grown
<1>3. g \in [Growing(V) \X D -> Growing(V)]
  BY <1>2
<1>4. << first >> \in Growing(V)
  BY DEF Growing
<1>5. IsFiniteSet(D)
  BY FS_Interval
<1> HIDE DEF D, g, c
<1>6. PICK it \in [SUBSET D -> Growing(V)] : FoldOn(it, SUBSET D, << first >>, g, c)
  <2>1. \A s \in SUBSET D : s # {} => c[s] \in s
    BY <1>1
  <2> QED
    BY <1>3, <1>4, <1>5, <2>1, FoldExists
<1>7. ASSUME NEW s \in SUBSET D
      PROVE  it[s] = IF s = {} THEN << first >>
                     ELSE Append(it[s \ {Max(s)}], step[<< Last(it[s \ {Max(s)}]), Max(s) >>])
  <2>1. it[s] = IF s = {} THEN << first >> ELSE g[<< it[s \ {c[s]}], c[s] >>]
    BY <1>6 DEF FoldOn
  <2>2. ASSUME s # {}
        PROVE  c[s] = Max(s) /\ Max(s) \in D /\ it[s \ {Max(s)}] \in Growing(V)
    BY <1>1, <1>6, <2>2
  <2> QED
    BY <1>2, <2>1, <2>2
<1> QED
  BY <1>6, <1>7 DEF Grows, D

\* Such a line is as long as there are values, and each follows from the one before.
Grew(r, n, V, first, step) ==
  /\ r \in [1 .. n + 1 -> V]
  /\ r[1] = first
  /\ \A i \in 1 .. n : r[i + 1] = step[<< r[i], i >>]

LEMMA GrowthRuns ==
  ASSUME NEW n \in Nat, NEW V, NEW first \in V, NEW step \in [V \X (1 .. n) -> V],
         NEW it, it[{}] = << first >>,
         \A s \in SUBSET (1 .. n) : s # {} /\ it[s \ {Max(s)}] \in Growing(V) =>
           it[s] = Append(it[s \ {Max(s)}], step[<< Last(it[s \ {Max(s)}]), Max(s) >>])
  PROVE  Grew(it[1 .. n], n, V, first, step)
<1> DEFINE P(k) == /\ it[1 .. k] \in Growing(V) /\ Len(it[1 .. k]) = k + 1
                   /\ it[1 .. k][1] = first
                   /\ \A i \in 1 .. k : it[1 .. k][i + 1] = step[<< it[1 .. k][i], i >>]
           Bad == { k \in 0 .. n : ~P(k) }
<1>1. P(0)
  <2>1. 1 .. 0 = {}
    OBVIOUS
  <2>2. << first >> \in Growing(V) /\ Len(<< first >>) = 1 /\ << first >>[1] = first
    BY DEF Growing
  <2> QED
    BY <2>1, <2>2
<1>2. ASSUME NEW k \in 1 .. n, P(k - 1) PROVE P(k)
  <2>1. PICK q : q = it[1 .. k - 1]
    OBVIOUS
  <2>2. /\ q \in Growing(V) /\ Len(q) = k /\ q[1] = first
        /\ \A i \in 1 .. k - 1 : q[i + 1] = step[<< q[i], i >>]
    BY <1>2, <2>1
  <2>3. it[1 .. k] = Append(q, step[<< Last(q), k >>])
    <3>1. /\ 1 .. k \in SUBSET (1 .. n) /\ 1 .. k # {}
          /\ Max(1 .. k) = k /\ (1 .. k) \ {k} = 1 .. k - 1
      BY MaxOfPrefix
    <3> QED
      BY <2>1, <2>2, <3>1
  <2>4. Last(q) = q[k] /\ Last(q) \in V
    BY <2>2, Grown DEF Last
  <2>5. PICK v \in V : v = step[<< Last(q), k >>]
    BY <2>4
  <2>6. PICK r : r = Append(q, v)
    OBVIOUS
  <2>7. /\ r \in Growing(V) /\ Len(r) = k + 1
        /\ \A i \in 1 .. k : r[i] = q[i]
        /\ r[k + 1] = v
    <3>1. q \in Seq(V)
      BY <2>2 DEF Growing
    <3> QED
      BY <2>2, <2>6, <3>1, AppendProperties DEF Growing
  <2>8. ASSUME NEW i \in 1 .. k PROVE r[i + 1] = step[<< r[i], i >>]
    <3>1. CASE i = k
      BY <2>4, <2>5, <2>7, <3>1
    <3>2. CASE i # k
      <4>1. i \in 1 .. k - 1 /\ i + 1 \in 1 .. k
        BY <3>2
      <4> QED
        BY <2>2, <2>7, <4>1
    <3> QED
      BY <3>1, <3>2
  <2>9. it[1 .. k] = r
    BY <2>3, <2>5, <2>6
  <2>10. r \in Growing(V) /\ Len(r) = k + 1 /\ r[1] = first
    BY <2>2, <2>7
  <2> QED
    BY <2>8, <2>9, <2>10
<1> HIDE DEF P
<1>3. Bad = {}
  <2> SUFFICES ASSUME Bad # {} PROVE FALSE
    OBVIOUS
  <2>1. PICK k \in Bad : \A m \in Bad : k =< m
    <3>1. Bad \in SUBSET Nat
      OBVIOUS
    <3> QED
      BY <3>1, MinExists
  <2>2. k \in 0 .. n /\ ~P(k) /\ k # 0
    BY <1>1, <2>1
  <2>3. k \in 1 .. n /\ k - 1 \in 0 .. n /\ ~(k =< k - 1)
    BY <2>2
  <2>4. P(k - 1)
    BY <2>1, <2>3
  <2> QED
    BY <1>2, <2>2, <2>3, <2>4
<1>4. P(n)
  BY <1>3
<1>5. PICK r : r = it[1 .. n]
  OBVIOUS
<1>6. /\ r \in Seq(V) /\ Len(r) = n + 1 /\ r[1] = first
      /\ \A i \in 1 .. n : r[i + 1] = step[<< r[i], i >>]
  BY <1>4, <1>5 DEF P, Growing
<1>7. r \in [1 .. n + 1 -> V]
  BY <1>6, LenProperties
<1> QED
  BY <1>5, <1>6, <1>7 DEF Grew

LEMMA AreaConstants ==
  /\ East \in Nat \ {0} /\ Full = 2 * East /\ West = -East
  /\ Full \in Nat \ {0} /\ West \in Int
BY BrowseAreaAssumption DEF Full, West

\* Where _unwrap_coord_list puts the next longitude.
Onward(x_last, x) ==
  IF AbsOf(x_last - x) > East THEN x - Full * Sign(x - x_last) ELSE x

LEMMA OnwardType ==
  ASSUME NEW v \in Int, NEW x \in Int
  PROVE  Onward(v, x) \in Int
BY AreaConstants DEF Onward, Sign

LEMMA TailOf ==
  ASSUME NEW V, NEW n \in Nat \ {0}, NEW s \in [1 .. n -> V]
  PROVE  DOMAIN Tail(s) = 1 .. n - 1 /\ \A i \in 1 .. n - 1 : Tail(s)[i] = s[i + 1]
<1>1. s \in Seq(V) /\ Len(s) = n /\ s # << >>
  BY SeqDef
<1>2. /\ Tail(s) \in Seq(V) /\ Len(Tail(s)) = n - 1
      /\ \A i \in 1 .. Len(Tail(s)) : Tail(s)[i] = s[i + 1]
  BY <1>1, HeadTailProperties
<1> QED
  BY <1>2, LenProperties

LEMMA UnwrappedRuns ==
  ASSUME NEW n \in Nat \ {0}, NEW path \in [1 .. n -> Int],
         NEW step, step = [p \in Int \X (1 .. n - 1) |-> Onward(p[1], path[p[2] + 1])]
  PROVE  Grew(Unwrapped(path), n - 1, Int, path[1], step)
<1> DEFINE t == Tail(path)
           D == DOMAIN t
           Op(it, s) == IF s = {} THEN << path[1] >>
                        ELSE Continue(it[s \ {Max(s)}], t[Max(s)])
           It == CHOOSE it : it = [s \in SUBSET D |-> Op(it, s)]
<1>1. /\ D = 1 .. n - 1 /\ \A i \in 1 .. n - 1 : t[i] = path[i + 1]
      /\ n - 1 \in Nat /\ path[1] \in Int
  BY TailOf
<1>2. ASSUME NEW v \in Int, NEW k \in 1 .. n - 1
      PROVE  step[<< v, k >>] = Onward(v, path[k + 1]) /\ step[<< v, k >>] \in Int
  <2>1. path[k + 1] \in Int
    OBVIOUS
  <2> QED
    BY <2>1, OnwardType
<1>3. step \in [Int \X (1 .. n - 1) -> Int]
  BY <1>2
<1> HIDE DEF D
<1>4. ASSUME NEW it, NEW s \in SUBSET (1 .. n - 1), s # {}, it[s \ {Max(s)}] \in Growing(Int)
      PROVE  Op(it, s) = Append(it[s \ {Max(s)}], step[<< Last(it[s \ {Max(s)}]), Max(s) >>])
  <2>1. Max(s) \in 1 .. n - 1
    BY <1>1, <1>4, MaxOfInterval
  <2>2. PICK q \in Growing(Int) : q = it[s \ {Max(s)}]
    BY <1>4
  <2>3. Last(q) \in Int
    BY Grown
  <2>4. step[<< Last(q), Max(s) >>] = Onward(Last(q), t[Max(s)])
    BY <1>1, <1>2, <2>1, <2>3
  <2>5. Continue(q, t[Max(s)]) = Append(q, Onward(Last(q), t[Max(s)]))
    BY DEF Continue, Onward
  <2> QED
    BY <1>4, <2>2, <2>4, <2>5
<1>5. PICK it \in [SUBSET (1 .. n - 1) -> Growing(Int)] : Grows(it, n - 1, path[1], step)
  BY <1>1, <1>3, GrowthExists
<1>6. ASSUME NEW s \in SUBSET D PROVE it[s] = Op(it, s)
  <2>1. it[s] = IF s = {} THEN << path[1] >>
                ELSE Append(it[s \ {Max(s)}], step[<< Last(it[s \ {Max(s)}]), Max(s) >>])
    BY <1>1, <1>5 DEF Grows
  <2>2. s \ {Max(s)} \in SUBSET (1 .. n - 1) /\ s \in SUBSET (1 .. n - 1)
    BY <1>1
  <2>3. it[s \ {Max(s)}] \in Growing(Int)
    BY <1>5, <2>2
  <2>4. CASE s = {}
    BY <2>1, <2>4
  <2>5. CASE s # {}
    BY <1>4, <2>1, <2>2, <2>3, <2>5
  <2> QED
    BY <2>4, <2>5
<1>7. It = [s \in SUBSET D |-> Op(It, s)]
  <2> HIDE DEF Op
  <2>1. it = [s \in SUBSET D |-> Op(it, s)]
    BY <1>1, <1>6
  <2> QED
    BY <2>1
<1>8. Unwrapped(path) = It[D]
  BY DEF Unwrapped, FoldLeft, MapThenFoldSet, D
<1> HIDE DEF It
<1>9. \A s \in SUBSET D : It[s] = Op(It, s)
  <2> HIDE DEF Op
  <2> QED
    BY <1>7
<1>10. It[{}] = << path[1] >>
  BY <1>9
<1>11. ASSUME NEW s \in SUBSET (1 .. n - 1), s # {}, It[s \ {Max(s)}] \in Growing(Int)
       PROVE  It[s] = Append(It[s \ {Max(s)}], step[<< Last(It[s \ {Max(s)}]), Max(s) >>])
  <2> HIDE DEF Op
  <2> QED
    BY <1>1, <1>4, <1>9, <1>11
<1>12. Grew(It[1 .. n - 1], n - 1, Int, path[1], step)
  <2>1. n - 1 \in Nat /\ path[1] \in Int
    BY <1>1
  <2> HIDE DEF t, Op
  <2> QED
    BY <1>3, <1>10, <1>11, <2>1, GrowthRuns
<1> QED
  BY <1>1, <1>8, <1>12

LEMMA ShortWayIs ==
  ASSUME NEW from \in Int, NEW to \in Int
  PROVE  /\ ShortWay(from, to) \in -East .. East
         /\ (from + ShortWay(from, to) - to) % Full = 0
<1>1. PICK a \in Int : a = to - from
  OBVIOUS
<1>2. PICK q \in Int, r \in 0 .. Full - 1 : a = Full * q + r
  <2>1. a \div Full \in Int /\ a % Full \in 0 .. Full - 1 /\ a = Full * (a \div Full) + (a % Full)
    BY AreaConstants, Quotient
  <2> QED
    BY <2>1
<1>3. ASSUME NEW d \in -East .. East, NEW p \in Int, d - a = Full * p
      PROVE  \E e \in -East .. East : (from + e - to) % Full = 0
  <2>1. from + d - to = Full * p + 0 /\ 0 \in 0 .. Full - 1 /\ from + d - to \in Int
    BY <1>1, <1>3, AreaConstants
  <2>2. (from + d - to) % Full = 0
    BY <2>1, AreaConstants, RemainderUnique
  <2> QED
    BY <2>2
<1>4. CASE r =< East
  <2>1. r \in -East .. East /\ r - a = Full * (-q) /\ -q \in Int
    BY <1>2, <1>4, AreaConstants
  <2>2. \E e \in -East .. East : (from + e - to) % Full = 0
    BY <1>3, <2>1
  <2> QED
    BY <2>2, Zenon DEF ShortWay
<1>5. CASE ~(r =< East)
  <2>1. r - Full \in -East .. East /\ (r - Full) - a = Full * (-q - 1) /\ -q - 1 \in Int
    BY <1>2, <1>5, AreaConstants
  <2>2. \E e \in -East .. East : (from + e - to) % Full = 0
    BY <1>3, <2>1
  <2> QED
    BY <2>2, Zenon DEF ShortWay
<1> QED
  BY <1>4, <1>5

LEMMA ShortWayType ==
  ASSUME NEW from \in Int, NEW to \in Int
  PROVE  ShortWay(from, to) \in Int
<1>1. PICK d \in -East .. East : d = ShortWay(from, to)
  BY ShortWayIs
<1> QED
  BY <1>1, AreaConstants

LEMMA CourseRuns ==
  ASSUME NEW n \in Nat \ {0}, NEW path \in [1 .. n -> Int],
         NEW step, step = [p \in Int \X (1 .. n - 1) |-> p[1] + ShortWay(path[p[2]], path[p[2] + 1])]
  PROVE  Grew(Course(path), n - 1, Int, path[1], step)
<1> DEFINE t == [ k \in 1 .. Len(path) - 1 |-> k + 1 ]
           D == DOMAIN t
           Next1(c, i) == Append(c, Last(c) + ShortWay(path[i - 1], path[i]))
           Op(it, s) == IF s = {} THEN << path[1] >>
                        ELSE Next1(it[s \ {Max(s)}], t[Max(s)])
           It == CHOOSE it : it = [s \in SUBSET D |-> Op(it, s)]
<1>1. /\ D = 1 .. n - 1 /\ \A i \in 1 .. n - 1 : t[i] = i + 1
      /\ n - 1 \in Nat /\ path[1] \in Int
  OBVIOUS
<1>2. ASSUME NEW v \in Int, NEW k \in 1 .. n - 1
      PROVE  step[<< v, k >>] = v + ShortWay(path[k], path[k + 1]) /\ step[<< v, k >>] \in Int
  <2>1. path[k] \in Int /\ path[k + 1] \in Int
    OBVIOUS
  <2>2. ShortWay(path[k], path[k + 1]) \in Int
    BY <2>1, ShortWayType
  <2>3. PICK p \in Int \X (1 .. n - 1) : p = << v, k >>
    BY Zenon
  <2>4. p[1] = v /\ p[2] = k
    BY <2>3
  <2>5. step[p] = p[1] + ShortWay(path[p[2]], path[p[2] + 1])
    BY Zenon
  <2> QED
    BY <2>2, <2>3, <2>4, <2>5
<1>3. step \in [Int \X (1 .. n - 1) -> Int]
  <2>1. ASSUME NEW p \in Int \X (1 .. n - 1)
        PROVE  p[1] + ShortWay(path[p[2]], path[p[2] + 1]) \in Int
    <3>1. p[1] \in Int /\ path[p[2]] \in Int /\ path[p[2] + 1] \in Int
      BY <1>1
    <3>2. ShortWay(path[p[2]], path[p[2] + 1]) \in Int
      BY <3>1, ShortWayType
    <3> QED
      BY <3>1, <3>2
  <2> QED
    BY <2>1
<1> HIDE DEF D, t
<1>4. ASSUME NEW it, NEW s \in SUBSET (1 .. n - 1), s # {}, it[s \ {Max(s)}] \in Growing(Int)
      PROVE  Op(it, s) = Append(it[s \ {Max(s)}], step[<< Last(it[s \ {Max(s)}]), Max(s) >>])
  <2>1. Max(s) \in 1 .. n - 1
    BY <1>1, <1>4, MaxOfInterval
  <2>2. PICK q \in Growing(Int) : q = it[s \ {Max(s)}]
    BY <1>4
  <2>3. Last(q) \in Int
    BY Grown
  <2>4. t[Max(s)] - 1 = Max(s) /\ t[Max(s)] = Max(s) + 1
    <3>1. PICK k \in 1 .. n - 1 : k = Max(s)
      BY <2>1
    <3>2. t[k] = k + 1
      BY <1>1
    <3> QED
      BY <3>1, <3>2
  <2>5. step[<< Last(q), Max(s) >>] = Last(q) + ShortWay(path[t[Max(s)] - 1], path[t[Max(s)]])
    BY <1>2, <2>1, <2>3, <2>4
  <2>6. Next1(q, t[Max(s)]) = Append(q, step[<< Last(q), Max(s) >>])
    <3> HIDE DEF Op, It
    <3> QED
      BY <2>5
  <2> HIDE DEF Next1
  <2> QED
    BY <1>4, <2>2, <2>6
<1>5. PICK it \in [SUBSET (1 .. n - 1) -> Growing(Int)] : Grows(it, n - 1, path[1], step)
  BY <1>1, <1>3, GrowthExists
<1>6. ASSUME NEW s \in SUBSET D PROVE it[s] = Op(it, s)
  <2>1. it[s] = IF s = {} THEN << path[1] >>
                ELSE Append(it[s \ {Max(s)}], step[<< Last(it[s \ {Max(s)}]), Max(s) >>])
    BY <1>1, <1>5 DEF Grows
  <2>2. s \ {Max(s)} \in SUBSET (1 .. n - 1) /\ s \in SUBSET (1 .. n - 1)
    BY <1>1
  <2>3. it[s \ {Max(s)}] \in Growing(Int)
    BY <1>5, <2>2
  <2>4. CASE s = {}
    BY <2>1, <2>4
  <2>5. CASE s # {}
    <3> HIDE DEF Op
    <3> QED
      BY <1>4, <2>1, <2>2, <2>3, <2>5
  <2> QED
    BY <2>4, <2>5
<1>7. It = [s \in SUBSET D |-> Op(It, s)]
  <2> HIDE DEF Op
  <2>1. it = [s \in SUBSET D |-> Op(it, s)]
    BY <1>1, <1>6
  <2> QED
    BY <2>1
<1>8. Course(path) = It[D]
  BY DEF Course, FoldLeft, MapThenFoldSet, D, t
<1> HIDE DEF It
<1>9. \A s \in SUBSET D : It[s] = Op(It, s)
  <2> HIDE DEF Op
  <2> QED
    BY <1>7
<1>10. It[{}] = << path[1] >>
  BY <1>9
<1>11. ASSUME NEW s \in SUBSET (1 .. n - 1), s # {}, It[s \ {Max(s)}] \in Growing(Int)
       PROVE  It[s] = Append(It[s \ {Max(s)}], step[<< Last(It[s \ {Max(s)}]), Max(s) >>])
  <2> HIDE DEF Op
  <2> QED
    BY <1>1, <1>4, <1>9, <1>11
<1>12. Grew(It[1 .. n - 1], n - 1, Int, path[1], step)
  <2>1. n - 1 \in Nat /\ path[1] \in Int
    BY <1>1
  <2> HIDE DEF Op
  <2> QED
    BY <1>3, <1>10, <1>11, <2>1, GrowthRuns
<1> QED
  BY <1>1, <1>8, <1>12

\* Where Join puts the next line.
Beside(done, path) ==
  IF AbsOf(done[1] - path[1]) > East
    THEN [ i \in DOMAIN path |-> path[i] - Full * Sign(path[i]) ]
    ELSE path

LEMMA BesideType ==
  ASSUME NEW c \in Nat \ {0}, NEW v \in [1 .. c -> Int], NEW x \in [1 .. c -> Int]
  PROVE  Beside(v, x) \in [1 .. c -> Int]
BY AreaConstants DEF Beside, Sign

Joined(lines) == FoldLeft(JoinLine, << lines[1] >>, Tail(lines))

LEMMA JoinedRuns ==
  ASSUME NEW c \in Nat \ {0}, NEW n \in Nat \ {0}, NEW lines \in [1 .. n -> [1 .. c -> Int]],
         NEW step, step = [p \in [1 .. c -> Int] \X (1 .. n - 1) |-> Beside(p[1], lines[p[2] + 1])]
  PROVE  Grew(Joined(lines), n - 1, [1 .. c -> Int], lines[1], step)
<1> DEFINE V == [1 .. c -> Int]
           t == Tail(lines)
           D == DOMAIN t
           Op(it, s) == IF s = {} THEN << lines[1] >>
                        ELSE JoinLine(it[s \ {Max(s)}], t[Max(s)])
           It == CHOOSE it : it = [s \in SUBSET D |-> Op(it, s)]
<1>1. /\ D = 1 .. n - 1 /\ \A i \in 1 .. n - 1 : t[i] = lines[i + 1]
      /\ n - 1 \in Nat /\ lines[1] \in V
  BY TailOf
<1>2. ASSUME NEW v \in V, NEW k \in 1 .. n - 1
      PROVE  step[<< v, k >>] = Beside(v, lines[k + 1]) /\ step[<< v, k >>] \in V
  <2>1. lines[k + 1] \in V
    OBVIOUS
  <2>2. Beside(v, lines[k + 1]) \in V
    BY <2>1, BesideType
  <2>3. step[<< v, k >>] = Beside(v, lines[k + 1])
    OBVIOUS
  <2> QED
    BY <2>2, <2>3
<1>3. step \in [V \X (1 .. n - 1) -> V]
  BY <1>2
<1> HIDE DEF D, t, V
<1>4. ASSUME NEW it, NEW s \in SUBSET (1 .. n - 1), s # {}, it[s \ {Max(s)}] \in Growing(V)
      PROVE  Op(it, s) = Append(it[s \ {Max(s)}], step[<< Last(it[s \ {Max(s)}]), Max(s) >>])
  <2>1. Max(s) \in 1 .. n - 1
    BY <1>1, <1>4, MaxOfInterval
  <2>2. PICK q \in Growing(V) : q = it[s \ {Max(s)}]
    BY <1>4
  <2>3. Last(q) \in V
    BY <1>1, Grown
  <2>4. step[<< Last(q), Max(s) >>] = Beside(Last(q), t[Max(s)])
    BY <1>1, <1>2, <2>1, <2>3
  <2>5. JoinLine(q, t[Max(s)]) = Append(q, Beside(Last(q), t[Max(s)]))
    BY DEF JoinLine, Beside
  <2> QED
    BY <1>4, <2>2, <2>4, <2>5
<1>5. PICK it \in [SUBSET (1 .. n - 1) -> Growing(V)] : Grows(it, n - 1, lines[1], step)
  BY <1>1, <1>3, GrowthExists
<1>6. ASSUME NEW s \in SUBSET D PROVE it[s] = Op(it, s)
  <2>1. it[s] = IF s = {} THEN << lines[1] >>
                ELSE Append(it[s \ {Max(s)}], step[<< Last(it[s \ {Max(s)}]), Max(s) >>])
    BY <1>1, <1>5 DEF Grows
  <2>2. s \ {Max(s)} \in SUBSET (1 .. n - 1) /\ s \in SUBSET (1 .. n - 1)
    BY <1>1
  <2>3. it[s \ {Max(s)}] \in Growing(V)
    BY <1>5, <2>2
  <2>4. CASE s = {}
    BY <2>1, <2>4
  <2>5. CASE s # {}
    <3> HIDE DEF Op
    <3> QED
      BY <1>4, <2>1, <2>2, <2>3, <2>5
  <2> QED
    BY <2>4, <2>5
<1>7. It = [s \in SUBSET D |-> Op(It, s)]
  <2> HIDE DEF Op
  <2>1. it = [s \in SUBSET D |-> Op(it, s)]
    BY <1>1, <1>6
  <2> QED
    BY <2>1
<1>8. Joined(lines) = It[D]
  BY DEF Joined, FoldLeft, MapThenFoldSet, D, t
<1> HIDE DEF It
<1>9. \A s \in SUBSET D : It[s] = Op(It, s)
  <2> HIDE DEF Op
  <2> QED
    BY <1>7
<1>10. It[{}] = << lines[1] >>
  BY <1>9
<1>11. ASSUME NEW s \in SUBSET (1 .. n - 1), s # {}, It[s \ {Max(s)}] \in Growing(V)
       PROVE  It[s] = Append(It[s \ {Max(s)}], step[<< Last(It[s \ {Max(s)}]), Max(s) >>])
  <2> HIDE DEF Op
  <2> QED
    BY <1>1, <1>4, <1>9, <1>11
<1>12. Grew(It[1 .. n - 1], n - 1, V, lines[1], step)
  <2>1. n - 1 \in Nat /\ lines[1] \in V
    BY <1>1
  <2> HIDE DEF Op
  <2> QED
    BY <1>3, <1>10, <1>11, <2>1, GrowthRuns
<1> QED
  BY <1>1, <1>8, <1>12 DEF V

LEMMA UnwrappedIs ==
  ASSUME NEW n \in Nat \ {0}, NEW path \in [1 .. n -> Int]
  PROVE  /\ Unwrapped(path) \in [1 .. n -> Int] /\ Unwrapped(path)[1] = path[1]
         /\ \A i \in 1 .. n - 1 : Unwrapped(path)[i + 1] = Onward(Unwrapped(path)[i], path[i + 1])
<1>1. PICK step : step = [p \in Int \X (1 .. n - 1) |-> Onward(p[1], path[p[2] + 1])]
  OBVIOUS
<1>2. Grew(Unwrapped(path), n - 1, Int, path[1], step)
  BY <1>1, UnwrappedRuns
<1>3. PICK u : u = Unwrapped(path)
  OBVIOUS
<1>4. u \in [1 .. n -> Int] /\ u[1] = path[1] /\ \A i \in 1 .. n - 1 : u[i + 1] = step[<< u[i], i >>]
  <2>1. n - 1 + 1 = n
    OBVIOUS
  <2> QED
    BY <1>2, <1>3, <2>1 DEF Grew
<1>5. ASSUME NEW i \in 1 .. n - 1 PROVE step[<< u[i], i >>] = Onward(u[i], path[i + 1])
  <2>1. u[i] \in Int
    BY <1>4
  <2>2. PICK p \in Int \X (1 .. n - 1) : p = << u[i], i >>
    BY <2>1
  <2>3. p[1] = u[i] /\ p[2] = i
    BY <2>2
  <2>4. step[p] = Onward(p[1], path[p[2] + 1])
    BY <1>1, Zenon
  <2> QED
    BY <2>2, <2>3, <2>4
<1> QED
  BY <1>3, <1>4, <1>5

LEMMA CourseIs ==
  ASSUME NEW n \in Nat \ {0}, NEW path \in [1 .. n -> Int]
  PROVE  /\ Course(path) \in [1 .. n -> Int] /\ Course(path)[1] = path[1]
         /\ \A i \in 1 .. n - 1 : Course(path)[i + 1] = Course(path)[i] + ShortWay(path[i], path[i + 1])
<1>1. PICK step : step = [p \in Int \X (1 .. n - 1) |-> p[1] + ShortWay(path[p[2]], path[p[2] + 1])]
  OBVIOUS
<1>2. Grew(Course(path), n - 1, Int, path[1], step)
  BY <1>1, CourseRuns
<1>3. PICK u : u = Course(path)
  OBVIOUS
<1>4. u \in [1 .. n -> Int] /\ u[1] = path[1] /\ \A i \in 1 .. n - 1 : u[i + 1] = step[<< u[i], i >>]
  <2>1. n - 1 + 1 = n
    OBVIOUS
  <2> QED
    BY <1>2, <1>3, <2>1 DEF Grew
<1>5. ASSUME NEW i \in 1 .. n - 1 PROVE step[<< u[i], i >>] = u[i] + ShortWay(path[i], path[i + 1])
  <2>1. u[i] \in Int
    BY <1>4
  <2>2. PICK p \in Int \X (1 .. n - 1) : p = << u[i], i >>
    BY <2>1
  <2>3. p[1] = u[i] /\ p[2] = i
    BY <2>2
  <2>4. step[p] = p[1] + ShortWay(path[p[2]], path[p[2] + 1])
    BY <1>1, Zenon
  <2> QED
    BY <2>2, <2>3, <2>4
<1> QED
  BY <1>3, <1>4, <1>5

LEMMA JoinedIs ==
  ASSUME NEW c \in Nat \ {0}, NEW n \in Nat \ {0}, NEW lines \in [1 .. n -> [1 .. c -> Int]]
  PROVE  /\ Joined(lines) \in [1 .. n -> [1 .. c -> Int]] /\ Joined(lines)[1] = lines[1]
         /\ \A i \in 1 .. n - 1 : Joined(lines)[i + 1] = Beside(Joined(lines)[i], lines[i + 1])
<1> DEFINE V == [1 .. c -> Int]
<1>1. PICK step : step = [p \in V \X (1 .. n - 1) |-> Beside(p[1], lines[p[2] + 1])]
  OBVIOUS
<1>2. Grew(Joined(lines), n - 1, V, lines[1], step)
  BY <1>1, JoinedRuns
<1>3. PICK u : u = Joined(lines)
  OBVIOUS
<1> HIDE DEF V
<1>4. u \in [1 .. n -> V] /\ u[1] = lines[1] /\ \A i \in 1 .. n - 1 : u[i + 1] = step[<< u[i], i >>]
  <2>1. n - 1 + 1 = n
    OBVIOUS
  <2> QED
    BY <1>2, <1>3, <2>1 DEF Grew
<1>5. ASSUME NEW i \in 1 .. n - 1 PROVE step[<< u[i], i >>] = Beside(u[i], lines[i + 1])
  <2>1. u[i] \in V
    BY <1>4
  <2>2. PICK p \in V \X (1 .. n - 1) : p = << u[i], i >>
    BY <2>1
  <2>3. p[1] = u[i] /\ p[2] = i
    BY <2>2
  <2>4. step[p] = Beside(p[1], lines[p[2] + 1])
    BY <1>1, Zenon
  <2> QED
    BY <2>2, <2>3, <2>4
<1> QED
  BY <1>3, <1>4, <1>5 DEF V

-----------------------------------------------------------------------------
(* Place: the course of a line                                             *)

\* Turns around the globe apart.
SameLongitude(a, b) == \E q \in Int : a = b + Full * q

LEMMA SameLongitudes ==
  ASSUME NEW a \in Int, NEW b \in Int, NEW c \in Int
  PROVE  /\ SameLongitude(a, a)
         /\ SameLongitude(a, b) => SameLongitude(b, a)
         /\ SameLongitude(a, b) /\ SameLongitude(b, c) => SameLongitude(a, c)
         /\ SameLongitude(a, b) <=> a % Full = b % Full
<1>1. Full \in Nat \ {0}
  BY AreaConstants
<1>2. SameLongitude(a, b) <=> a % Full = b % Full
  BY <1>1, SameRemainder DEF SameLongitude
<1>3. SameLongitude(b, c) <=> b % Full = c % Full
  BY <1>1, SameRemainder DEF SameLongitude
<1>4. SameLongitude(a, c) <=> a % Full = c % Full
  BY <1>1, SameRemainder DEF SameLongitude
<1>5. SameLongitude(b, a) <=> b % Full = a % Full
  BY <1>1, SameRemainder DEF SameLongitude
<1>6. SameLongitude(a, a)
  BY <1>1, SameRemainder DEF SameLongitude
<1> QED
  BY <1>2, <1>3, <1>4, <1>5, <1>6

\* Close by they are the same but for few turns.
LEMMA TurnsApart ==
  ASSUME NEW a \in Int, NEW b \in Int, SameLongitude(a, b),
         -(3 * Full) < a - b, a - b < 3 * Full
  PROVE  \E m \in -2 .. 2 : a = b + m * Full
<1>1. PICK q \in Int : a = b + Full * q
  BY DEF SameLongitude
<1>2. Full \in Nat \ {0}
  BY AreaConstants
<1>3. -3 < q /\ q < 3
  BY <1>1, <1>2
<1>4. q \in -2 .. 2 /\ a = b + q * Full
  BY <1>1, <1>2, <1>3
<1> QED
  BY <1>4

LEMMA ShortWayClear ==
  ASSUME NEW from \in West .. East, NEW to \in West .. East, AbsOf(to - from) % Full # East
  PROVE  LET d == ShortWay(from, to)
         IN  /\ d \in Int /\ -East < d /\ d < East
             /\ SameLongitude(from + d, to)
             /\ ~(AbsOf(from - to) > East) => d = to - from
<1>1. from \in Int /\ to \in Int /\ from >= -East /\ from =< East /\ to >= -East /\ to =< East
  BY AreaConstants
<1>2. PICK d \in Int : d = ShortWay(from, to) /\ -East =< d /\ d =< East /\ (from + d - to) % Full = 0
  BY <1>1, ShortWayIs, ShortWayType
<1>3. SameLongitude(from + d, to)
  <2>1. PICK a \in Int : a = from + d - to
    BY <1>1, <1>2
  <2>2. a \div Full \in Int /\ a = Full * (a \div Full) + (a % Full)
    BY AreaConstants, Quotient
  <2>3. a = Full * (a \div Full)
    BY <1>2, <2>1, <2>2, AreaConstants
  <2>4. from + d = to + Full * (a \div Full)
    BY <1>1, <1>2, <2>1, <2>2, <2>3, AreaConstants
  <2> QED
    BY <2>2, <2>4 DEF SameLongitude
<1>4. AbsOf(to - from) # East
  <2>1. East = Full * 0 + East /\ East \in 0 .. Full - 1 /\ East \in Int
    BY AreaConstants
  <2>2. East % Full = East
    BY <2>1, AreaConstants, RemainderUnique
  <2> QED
    BY <2>2
<1>5. PICK m \in -2 .. 2 : from + d = to + m * Full
  BY <1>1, <1>2, <1>3, AreaConstants, TurnsApart
<1>6. to - from # East /\ to - from # -East
  BY <1>1, <1>4, AreaConstants DEF AbsOf
<1>7. -East < d /\ d < East
  BY <1>1, <1>2, <1>5, <1>6, AreaConstants
<1>8. ASSUME ~(AbsOf(from - to) > East) PROVE d = to - from
  <2>1. from - to =< East /\ to - from =< East
    BY <1>1, <1>8, AreaConstants DEF AbsOf
  <2> QED
    BY <1>1, <1>2, <1>5, <1>7, <2>1, AreaConstants
<1> QED
  BY <1>2, <1>3, <1>7, <1>8

\* The longitudes that a report gives.
Longitudes(n) == [1 .. n -> West .. East]

LEMMA Coordinates ==
  ASSUME NEW n \in Nat \ {0}, NEW path \in Longitudes(n)
  PROVE  /\ path \in [1 .. n -> Int] /\ Len(path) = n /\ DOMAIN path = 1 .. n
         /\ \A i \in 1 .. n : path[i] \in Int /\ -East =< path[i] /\ path[i] =< East
BY AreaConstants DEF Longitudes

LEMMA ClearStep ==
  ASSUME NEW n \in Nat \ {0}, NEW path \in Longitudes(n), Clear(path), NEW i \in 1 .. n - 1
  PROVE  LET d == ShortWay(path[i], path[i + 1])
         IN  /\ d \in Int /\ -East < d /\ d < East
             /\ SameLongitude(path[i] + d, path[i + 1])
             /\ ~(AbsOf(path[i] - path[i + 1]) > East) => d = path[i + 1] - path[i]
<1>1. i \in 1 .. n /\ i + 1 \in 2 .. n /\ (i + 1) - 1 = i
  OBVIOUS
<1>2. AbsOf(path[i + 1] - path[i]) % Full # East
  BY <1>1, Coordinates DEF Clear
<1>3. path[i] \in West .. East /\ path[i + 1] \in West .. East
  BY <1>1 DEF Longitudes
<1> QED
  BY <1>2, <1>3, ShortWayClear

\* A course goes less than half around the globe at a time and passes where the line does.
LEMMA CourseSteps ==
  ASSUME NEW n \in Nat \ {0}, NEW path \in Longitudes(n), Clear(path)
  PROVE  /\ Course(path) \in [1 .. n -> Int] /\ Course(path)[1] = path[1]
         /\ \A i \in 1 .. n - 1 : /\ -East < Course(path)[i + 1] - Course(path)[i]
                                  /\ Course(path)[i + 1] - Course(path)[i] < East
         /\ \A i \in 1 .. n : SameLongitude(Course(path)[i], path[i])
<1>1. PICK C : C = Course(path)
  OBVIOUS
<1>2. /\ C \in [1 .. n -> Int] /\ C[1] = path[1]
      /\ \A i \in 1 .. n - 1 : C[i + 1] = C[i] + ShortWay(path[i], path[i + 1])
  BY <1>1, CourseIs, Coordinates
<1>3. ASSUME NEW i \in 1 .. n - 1
      PROVE  /\ -East < C[i + 1] - C[i] /\ C[i + 1] - C[i] < East
             /\ SameLongitude(C[i], path[i]) => SameLongitude(C[i + 1], path[i + 1])
  <2>1. PICK d \in Int : /\ d = ShortWay(path[i], path[i + 1]) /\ -East < d /\ d < East
                         /\ SameLongitude(path[i] + d, path[i + 1])
    BY ClearStep
  <2>2. C[i] \in Int /\ path[i] \in Int /\ path[i + 1] \in Int /\ C[i + 1] = C[i] + d
    BY <1>2, <2>1, Coordinates
  <2>3. ASSUME SameLongitude(C[i], path[i]) PROVE SameLongitude(C[i + 1], path[i + 1])
    <3>1. PICK q \in Int : C[i] = path[i] + Full * q
      BY <2>3 DEF SameLongitude
    <3>2. PICK p \in Int : path[i] + d = path[i + 1] + Full * p
      BY <2>1 DEF SameLongitude
    <3>3. C[i + 1] = path[i + 1] + Full * (p + q) /\ p + q \in Int
      BY <2>2, <3>1, <3>2, AreaConstants
    <3> QED
      BY <3>3 DEF SameLongitude
  <2> QED
    BY <2>1, <2>2, <2>3, AreaConstants
<1> DEFINE Bad == { i \in 1 .. n : ~SameLongitude(C[i], path[i]) }
<1>4. Bad = {}
  <2> SUFFICES ASSUME Bad # {} PROVE FALSE
    OBVIOUS
  <2>1. PICK k \in Bad : \A m \in Bad : k =< m
    <3>1. Bad \in SUBSET Nat
      OBVIOUS
    <3> QED
      BY <3>1, MinExists
  <2>2. SameLongitude(C[1], path[1])
    BY <1>2, SameLongitudes, Coordinates
  <2>3. k - 1 \in 1 .. n - 1 /\ k - 1 \notin Bad /\ (k - 1) + 1 = k
    BY <2>1, <2>2
  <2>4. SameLongitude(C[k - 1], path[k - 1])
    BY <2>3
  <2>5. SameLongitude(C[k], path[k])
    BY <1>3, <2>3, <2>4
  <2> QED
    BY <2>1, <2>5
<1> QED
  BY <1>1, <1>2, <1>3, <1>4

\* A line that does not cross the date line goes the short way.
LEMMA CourseStraight ==
  ASSUME NEW n \in Nat \ {0}, NEW path \in Longitudes(n), Clear(path), ~CrossesDateline(path)
  PROVE  Course(path) = path
<1>1. PICK C : C = Course(path)
  OBVIOUS
<1>2. /\ C \in [1 .. n -> Int] /\ C[1] = path[1]
      /\ \A i \in 1 .. n - 1 : C[i + 1] = C[i] + ShortWay(path[i], path[i + 1])
  BY <1>1, CourseIs, Coordinates
<1>3. ASSUME NEW i \in 1 .. n - 1, C[i] = path[i] PROVE C[i + 1] = path[i + 1]
  <2>1. i + 1 \in 2 .. Len(path) /\ (i + 1) - 1 = i
    BY Coordinates
  <2>2. ~(AbsOf(path[i] - path[i + 1]) > East)
    BY <2>1 DEF CrossesDateline
  <2>3. ShortWay(path[i], path[i + 1]) = path[i + 1] - path[i]
    BY <2>2, ClearStep
  <2> QED
    BY <1>2, <1>3, <2>3, Coordinates
<1> DEFINE Bad == { i \in 1 .. n : C[i] # path[i] }
<1>4. Bad = {}
  <2> SUFFICES ASSUME Bad # {} PROVE FALSE
    OBVIOUS
  <2>1. PICK k \in Bad : \A m \in Bad : k =< m
    <3>1. Bad \in SUBSET Nat
      OBVIOUS
    <3> QED
      BY <3>1, MinExists
  <2>2. k - 1 \in 1 .. n - 1 /\ k - 1 \notin Bad /\ (k - 1) + 1 = k
    BY <1>2, <2>1
  <2>3. C[k - 1] = path[k - 1]
    BY <2>2
  <2> QED
    BY <1>3, <2>1, <2>2, <2>3
<1>5. path \in [1 .. n -> Int] /\ \A i \in 1 .. n : C[i] = path[i]
  BY <1>4, Coordinates
<1>6. C = path
  BY <1>2, <1>5
<1> QED
  BY <1>1, <1>6

\* What lies less than once around the globe.
Narrow(n, path) == \A i, j \in 1 .. n : path[i] - path[j] < Full

\* The loop keeps to the course as long as that goes not all around the globe.
LEMMA UnwrappedIsCourse ==
  ASSUME NEW n \in Nat \ {0}, NEW path \in Longitudes(n), Clear(path), Narrow(n, Course(path))
  PROVE  Unwrapped(path) = Course(path)
<1>1. PICK C : C = Course(path)
  OBVIOUS
<1>2. PICK U : U = Unwrapped(path)
  OBVIOUS
<1>3. /\ C \in [1 .. n -> Int] /\ C[1] = path[1]
      /\ \A i \in 1 .. n - 1 : -East < C[i + 1] - C[i] /\ C[i + 1] - C[i] < East
      /\ \A i \in 1 .. n : SameLongitude(C[i], path[i])
      /\ \A i, j \in 1 .. n : C[i] - C[j] < Full
  BY <1>1, CourseSteps DEF Narrow
<1>4. /\ U \in [1 .. n -> Int] /\ U[1] = path[1]
      /\ \A i \in 1 .. n - 1 : U[i + 1] = Onward(U[i], path[i + 1])
  BY <1>2, UnwrappedIs, Coordinates
<1>5. ASSUME NEW i \in 1 .. n - 1, U[i] = C[i] PROVE U[i + 1] = C[i + 1]
  <2>1. /\ i \in 1 .. n /\ i + 1 \in 1 .. n /\ 1 \in 1 .. n
    OBVIOUS
  <2>2. PICK v \in Int, x \in Int, y \in Int, z \in Int :
           v = C[i] /\ x = path[i + 1] /\ y = C[i + 1] /\ z = path[1]
    BY <1>3, <2>1, Coordinates
  <2>3. /\ -East < y - v /\ y - v < East
        /\ SameLongitude(y, x)
        /\ y - z < Full /\ z - y < Full
        /\ -East =< x /\ x =< East /\ -East =< z /\ z =< East
    BY <1>3, <2>1, <2>2, Coordinates
  <2>4. PICK m \in -2 .. 2 : y = x + m * Full
    BY <2>2, <2>3, AreaConstants, TurnsApart
  <2>5. m \in {-1, 0, 1}
    BY <2>2, <2>3, <2>4, AreaConstants
  <2>6. Onward(v, x) = y
    <3> DEFINE E == East
    <3>1. E \in Nat \ {0} /\ Full = 2 * E /\ East = E
      BY AreaConstants
    <3> HIDE DEF E
    <3>2. CASE m = 0
      <4>1. y = x /\ ~(AbsOf(v - x) > East)
        BY <2>2, <2>3, <2>4, <3>1, <3>2 DEF AbsOf
      <4> QED
        BY <4>1 DEF Onward
    <3>3. CASE m = 1
      <4>1. y = x + 2 * E /\ AbsOf(v - x) > East /\ Sign(x - v) = -1
        BY <2>2, <2>3, <2>4, <3>1, <3>3 DEF AbsOf, Sign
      <4>2. x - Full * Sign(x - v) = y
        BY <2>2, <3>1, <4>1
      <4> QED
        BY <4>1, <4>2 DEF Onward
    <3>4. CASE m = -1
      <4>1. y = x - 2 * E /\ AbsOf(v - x) > East /\ Sign(x - v) = 1
        BY <2>2, <2>3, <2>4, <3>1, <3>4 DEF AbsOf, Sign
      <4>2. x - Full * Sign(x - v) = y
        BY <2>2, <3>1, <4>1
      <4> QED
        BY <4>1, <4>2 DEF Onward
    <3> QED
      BY <2>5, <3>2, <3>3, <3>4
  <2> QED
    BY <1>4, <1>5, <2>2, <2>6
<1> DEFINE Bad == { i \in 1 .. n : U[i] # C[i] }
<1>6. Bad = {}
  <2> SUFFICES ASSUME Bad # {} PROVE FALSE
    OBVIOUS
  <2>1. PICK k \in Bad : \A m \in Bad : k =< m
    <3>1. Bad \in SUBSET Nat
      OBVIOUS
    <3> QED
      BY <3>1, MinExists
  <2>2. k - 1 \in 1 .. n - 1 /\ k - 1 \notin Bad /\ (k - 1) + 1 = k
    <3>1. U[1] = C[1]
      BY <1>3, <1>4
    <3> QED
      BY <2>1, <3>1
  <2>3. U[k - 1] = C[k - 1]
    BY <2>2
  <2> QED
    BY <1>5, <2>1, <2>2, <2>3
<1>7. \A i \in 1 .. n : U[i] = C[i]
  BY <1>6
<1>8. U = C
  BY <1>3, <1>4, <1>7
<1> QED
  BY <1>1, <1>2, <1>8

-----------------------------------------------------------------------------
(* Place: the extent of some lines                                         *)

LEMMA Extremum ==
  ASSUME NEW n \in Nat \ {0}, NEW f \in [1 .. n -> Int]
  PROVE  \E i \in 1 .. n : \A j \in 1 .. n : f[j] =< f[i]
<1> DEFINE P(k) == \E i \in 1 .. k : \A j \in 1 .. k : f[j] =< f[i]
           Bad == { k \in 1 .. n : ~P(k) }
<1>1. P(1)
  OBVIOUS
<1>2. ASSUME NEW k \in 1 .. n - 1, P(k) PROVE P(k + 1)
  <2>1. PICK i \in 1 .. k : \A j \in 1 .. k : f[j] =< f[i]
    BY <1>2
  <2>2. \A j \in 1 .. k + 1 : j = k + 1 \/ j \in 1 .. k
    OBVIOUS
  <2>3. \A j \in 1 .. k + 1 : f[j] \in Int
    OBVIOUS
  <2>4. CASE f[k + 1] =< f[i]
    <3>1. i \in 1 .. k + 1 /\ \A j \in 1 .. k + 1 : f[j] =< f[i]
      BY <2>1, <2>2, <2>4
    <3> QED
      BY <3>1
  <2>5. CASE ~(f[k + 1] =< f[i])
    <3>1. k + 1 \in 1 .. k + 1 /\ \A j \in 1 .. k + 1 : f[j] =< f[k + 1]
      BY <2>1, <2>2, <2>3, <2>5
    <3> QED
      BY <3>1
  <2> QED
    BY <2>4, <2>5
<1> HIDE DEF P
<1>3. Bad = {}
  <2> SUFFICES ASSUME Bad # {} PROVE FALSE
    OBVIOUS
  <2>1. PICK k \in Bad : \A m \in Bad : k =< m
    <3>1. Bad \in SUBSET Nat
      OBVIOUS
    <3> QED
      BY <3>1, MinExists
  <2>2. k - 1 \in 1 .. n - 1 /\ k - 1 \notin Bad /\ (k - 1) + 1 = k
    BY <1>1, <2>1
  <2>3. P(k - 1)
    BY <2>2
  <2> QED
    BY <1>2, <2>1, <2>2, <2>3
<1>4. P(n)
  BY <1>3
<1> QED
  BY <1>4 DEF P

LEMMA CoordinatesOf ==
  ASSUME NEW r \in Nat \ {0}, NEW c \in Nat \ {0}, NEW lines \in [1 .. r -> [1 .. c -> Int]], NEW y
  PROVE  y \in UNION { ToSet(l) : l \in ToSet(lines) } <=>
           \E a \in 1 .. r, b \in 1 .. c : y = lines[a][b]
<1> DEFINE S == UNION { ToSet(l) : l \in ToSet(lines) }
<1>1. DOMAIN lines = 1 .. r /\ \A a \in 1 .. r : DOMAIN lines[a] = 1 .. c
  OBVIOUS
<1>2. \A l : l \in ToSet(lines) <=> \E a \in 1 .. r : l = lines[a]
  BY <1>1 DEF ToSet
<1>3. \A a \in 1 .. r : y \in ToSet(lines[a]) <=> \E b \in 1 .. c : y = lines[a][b]
  BY <1>1 DEF ToSet
<1>4. y \in S <=> \E l \in ToSet(lines) : y \in ToSet(l)
  BY Zenon
<1>5. (\E l \in ToSet(lines) : y \in ToSet(l)) <=> \E a \in 1 .. r : y \in ToSet(lines[a])
  BY <1>2, Zenon
<1> HIDE DEF S
<1> QED
  BY <1>3, <1>4, <1>5, Zenon DEF S

IsEastEnd(m, r, c, lines) ==
  /\ m \in Int
  /\ \E i \in 1 .. r, j \in 1 .. c : m = lines[i][j]
  /\ \A i \in 1 .. r, j \in 1 .. c : lines[i][j] =< m

IsWestEnd(m, r, c, lines) ==
  /\ m \in Int
  /\ \E i \in 1 .. r, j \in 1 .. c : m = lines[i][j]
  /\ \A i \in 1 .. r, j \in 1 .. c : m =< lines[i][j]

LEMMA RightmostOf ==
  ASSUME NEW r \in Nat \ {0}, NEW c \in Nat \ {0}, NEW lines \in [1 .. r -> [1 .. c -> Int]]
  PROVE  IsEastEnd(Rightmost(lines), r, c, lines)
<1> DEFINE S == UNION { ToSet(l) : l \in ToSet(lines) }
           top(l) == CHOOSE j \in 1 .. c : \A k \in 1 .. c : l[k] =< l[j]
           f == [i \in 1 .. r |-> lines[i][top(lines[i])]]
<1>1. ASSUME NEW i \in 1 .. r
      PROVE  top(lines[i]) \in 1 .. c /\ \A k \in 1 .. c : lines[i][k] =< lines[i][top(lines[i])]
  <2>1. PICK l \in [1 .. c -> Int] : l = lines[i]
    OBVIOUS
  <2>2. \E j \in 1 .. c : \A k \in 1 .. c : l[k] =< l[j]
    BY Extremum
  <2>3. top(l) \in 1 .. c /\ \A k \in 1 .. c : l[k] =< l[top(l)]
    BY <2>2, Zenon
  <2> QED
    BY <2>1, <2>3
<1> HIDE DEF top
<1>2. f \in [1 .. r -> Int] /\ \A i \in 1 .. r : f[i] = lines[i][top(lines[i])]
  BY <1>1
<1>3. PICK i \in 1 .. r : \A j \in 1 .. r : f[j] =< f[i]
  <2> HIDE DEF f
  <2> QED
    BY <1>2, Extremum
<1>4. \A y : y \in S <=> \E a \in 1 .. r, b \in 1 .. c : y = lines[a][b]
  BY CoordinatesOf
<1> HIDE DEF S
<1>5. PICK m \in S : \A y \in S : m >= y
  <2>1. PICK a \in Int : a = f[i]
    BY <1>2
  <2>2. a \in S
    BY <1>1, <1>2, <1>4, <2>1
  <2>3. ASSUME NEW y \in S PROVE a >= y
    <3>1. PICK k \in 1 .. r, b \in 1 .. c : y = lines[k][b]
      BY <1>4
    <3> HIDE DEF f
    <3>2. /\ lines[k][b] =< lines[k][top(lines[k])] /\ f[k] = lines[k][top(lines[k])]
          /\ f[k] =< f[i]
      BY <1>1, <1>2, <1>3
    <3>3. f[k] \in Int /\ lines[k][b] \in Int
      BY <1>2
    <3>4. y =< f[k] /\ f[k] =< a /\ y \in Int
      BY <2>1, <3>1, <3>2, <3>3
    <3> QED
      BY <2>1, <3>3, <3>4
  <2> QED
    BY <2>2, <2>3
<1>6. Rightmost(lines) = Max(S)
  BY DEF Rightmost, S
<1>7. Max(S) \in S /\ \A y \in S : Max(S) >= y
  BY <1>5, Zenon DEF Max
<1>8. PICK M : M = Max(S)
  OBVIOUS
<1>9. PICK a \in 1 .. r, b \in 1 .. c : M = lines[a][b]
  BY <1>4, <1>7, <1>8
<1>10. M \in Int
  BY <1>9
<1>11. ASSUME NEW p \in 1 .. r, NEW q \in 1 .. c PROVE lines[p][q] =< M
  <2>1. lines[p][q] \in S /\ lines[p][q] \in Int
    BY <1>4
  <2> QED
    BY <1>7, <1>8, <1>10, <2>1
<1> QED
  BY <1>6, <1>8, <1>9, <1>10, <1>11 DEF IsEastEnd

LEMMA LeftmostOf ==
  ASSUME NEW r \in Nat \ {0}, NEW c \in Nat \ {0}, NEW lines \in [1 .. r -> [1 .. c -> Int]]
  PROVE  IsWestEnd(Leftmost(lines), r, c, lines)
<1> DEFINE S == UNION { ToSet(l) : l \in ToSet(lines) }
<1>1. PICK turned \in [1 .. r -> [1 .. c -> Int]] :
         \A i \in 1 .. r, j \in 1 .. c : turned[i][j] = -lines[i][j]
  <2> DEFINE t == [i \in 1 .. r |-> [j \in 1 .. c |-> -lines[i][j]]]
  <2>1. /\ t \in [1 .. r -> [1 .. c -> Int]]
        /\ \A i \in 1 .. r, j \in 1 .. c : t[i][j] = -lines[i][j]
    OBVIOUS
  <2> QED
    BY <2>1
<1>2. PICK a \in 1 .. r, b \in 1 .. c :
         \A i \in 1 .. r, j \in 1 .. c : turned[i][j] =< turned[a][b]
  <2>1. PICK M : IsEastEnd(M, r, c, turned)
    BY RightmostOf, Zenon
  <2>2. PICK a \in 1 .. r, b \in 1 .. c : M = turned[a][b]
    BY <2>1, Zenon DEF IsEastEnd
  <2>3. \A i \in 1 .. r, j \in 1 .. c : turned[i][j] =< turned[a][b]
    BY <2>1, <2>2, Zenon DEF IsEastEnd
  <2> QED
    BY <2>3, Zenon
<1>3. PICK m \in Int : m = lines[a][b]
  OBVIOUS
<1>4. ASSUME NEW i \in 1 .. r, NEW j \in 1 .. c PROVE m =< lines[i][j]
  <2>1. turned[i][j] = -lines[i][j] /\ turned[a][b] = -m /\ turned[i][j] =< turned[a][b]
    <3>1. turned[i][j] = -lines[i][j] /\ turned[a][b] = -lines[a][b]
      BY <1>1, Zenon
    <3>2. turned[i][j] =< turned[a][b]
      BY <1>2, Zenon
    <3> QED
      BY <1>3, <3>1, <3>2, Zenon
  <2>2. PICK x \in Int : x = lines[i][j]
    OBVIOUS
  <2>3. -x =< -m
    BY <2>1, <2>2, Zenon
  <2>4. m =< x
    BY <2>3
  <2> QED
    BY <2>2, <2>4, Zenon
<1>5. \A y : y \in S <=> \E p \in 1 .. r, q \in 1 .. c : y = lines[p][q]
  BY CoordinatesOf
<1> HIDE DEF S
<1>6. m \in S /\ \A y \in S : m =< y
  <2>1. m \in S
    BY <1>3, <1>5
  <2>2. ASSUME NEW y \in S PROVE m =< y
    <3>1. PICK i \in 1 .. r, j \in 1 .. c : y = lines[i][j]
      BY <1>5
    <3> QED
      BY <1>4, <3>1
  <2> QED
    BY <2>1, <2>2
<1>7. Min(S) \in S /\ \A y \in S : Min(S) =< y
  BY <1>6, Zenon DEF Min
<1>8. Leftmost(lines) = Min(S)
  BY DEF Leftmost, S
<1>9. PICK M : M = Min(S)
  OBVIOUS
<1>10. PICK p \in 1 .. r, q \in 1 .. c : M = lines[p][q]
  BY <1>5, <1>7, <1>9
<1>11. M \in Int
  BY <1>10
<1>12. ASSUME NEW i \in 1 .. r, NEW j \in 1 .. c PROVE M =< lines[i][j]
  <2>1. lines[i][j] \in S
    BY <1>5
  <2> QED
    BY <1>7, <1>9, <2>1
<1> QED
  BY <1>8, <1>9, <1>10, <1>11, <1>12 DEF IsWestEnd

IsShifted(l, n, path, by) ==
  l \in [1 .. n -> Int] /\ \A i \in 1 .. n : l[i] = path[i] + by

LEMMA ShiftedIs ==
  ASSUME NEW n \in Nat \ {0}, NEW path \in [1 .. n -> Int], NEW by \in Int
  PROVE  /\ IsShifted(Shifted(path, by), n, path, by)
         /\ by = 0 => Shifted(path, by) = path
<1>1. DOMAIN path = 1 .. n
  OBVIOUS
<1>2. PICK s : s = Shifted(path, by)
  OBVIOUS
<1>3. s \in [1 .. n -> Int] /\ \A i \in 1 .. n : s[i] = path[i] + by
  BY <1>1, <1>2 DEF Shifted
<1>4. ASSUME by = 0 PROVE s = path
  <2>1. \A i \in 1 .. n : s[i] = path[i]
    BY <1>3, <1>4
  <2> QED
    BY <1>3, <2>1
<1> QED
  BY <1>2, <1>3, <1>4 DEF IsShifted

\* Within the bounds that the seeder takes.
InBounds(n, path) == \A i \in 1 .. n : -East =< path[i] /\ path[i] =< East + Full

\* A line that goes not all around the globe is never too huge.
LEMMA UnwrapClear ==
  ASSUME NEW n \in Nat \ {0}, NEW path \in Longitudes(n), Clear(path), Narrow(n, Course(path))
  PROVE  \E k \in {0, 1} :
           /\ UnwrapCoordList(path) = { Shifted(Course(path), k * Full) }
           /\ InBounds(n, Shifted(Course(path), k * Full))
           /\ \E i \in 1 .. n : Shifted(Course(path), k * Full)[i] =< East
<1>1. PICK C : C = Course(path)
  OBVIOUS
<1>2. /\ C \in [1 .. n -> Int] /\ -East =< C[1] /\ C[1] =< East /\ Unwrapped(path) = C
      /\ \A i, j \in 1 .. n : C[i] - C[j] < Full
  <2>1. Unwrapped(path) = C /\ \A i, j \in 1 .. n : C[i] - C[j] < Full
    BY <1>1, UnwrappedIsCourse DEF Narrow
  <2>2. C \in [1 .. n -> Int] /\ C[1] = path[1]
    BY <1>1, CourseSteps
  <2>3. -East =< path[1] /\ path[1] =< East
    BY Coordinates
  <2> QED
    BY <2>1, <2>2, <2>3
<1>3. PICK minx \in Int, maxx \in Int :
        /\ minx = Leftmost(<< C >>) /\ maxx = Rightmost(<< C >>)
        /\ \A i \in 1 .. n : minx =< C[i] /\ C[i] =< maxx
        /\ \E i \in 1 .. n : minx = C[i]
        /\ \E i \in 1 .. n : maxx = C[i]
  <2>1. PICK one : one = << C >>
    OBVIOUS
  <2>2. one \in [1 .. 1 -> [1 .. n -> Int]] /\ one[1] = C
    BY <1>2, <2>1
  <2>3. PICK a, b : /\ a = Leftmost(one) /\ b = Rightmost(one)
                    /\ IsWestEnd(a, 1, n, one) /\ IsEastEnd(b, 1, n, one)
    <3>1. 1 \in Nat \ {0}
      OBVIOUS
    <3>2. IsWestEnd(Leftmost(one), 1, n, one)
      BY <2>2, <3>1, LeftmostOf
    <3>3. IsEastEnd(Rightmost(one), 1, n, one)
      BY <2>2, <3>1, RightmostOf
    <3> QED
      BY <3>2, <3>3
  <2>4. \A i \in 1 .. 1 : one[i] = C
    BY <2>2
  <2>5. 1 \in 1 .. 1
    OBVIOUS
  <2>6. \A j \in 1 .. n : a =< C[j] /\ C[j] =< b
    BY <2>2, <2>3, <2>5, Zenon DEF IsWestEnd, IsEastEnd
  <2>7. (\E j \in 1 .. n : a = C[j]) /\ \E j \in 1 .. n : b = C[j]
    BY <2>3, <2>4, Zenon DEF IsWestEnd, IsEastEnd
  <2>8. a \in Int /\ b \in Int
    BY <2>3 DEF IsWestEnd, IsEastEnd
  <2> QED
    BY <2>1, <2>3, <2>6, <2>7, <2>8
<1>4. minx =< C[1] /\ C[1] =< maxx /\ maxx - minx < Full /\ C[1] \in Int /\ 1 \in 1 .. n
  <2>1. PICK i \in 1 .. n : minx = C[i]
    BY <1>3
  <2>2. PICK j \in 1 .. n : maxx = C[j]
    BY <1>3
  <2>3. maxx - minx < Full
    BY <1>2, <2>1, <2>2
  <2>4. 1 \in 1 .. n
    OBVIOUS
  <2> QED
    BY <1>2, <1>3, <2>3, <2>4
<1>5. UnwrapCoordList(path) =
        IF maxx > East + Full /\ minx >= East THEN { Shifted(C, -Full) }
        ELSE IF minx < West /\ maxx =< East THEN { Shifted(C, Full) }
        ELSE IF maxx > East + Full \/ minx < West THEN {}
        ELSE { C }
  BY <1>2, <1>3 DEF UnwrapCoordList
<1>6. ~(maxx > East + Full)
  BY <1>2, <1>4, AreaConstants
<1>7. CASE minx < West
  <2>1. maxx =< East
    BY <1>2, <1>4, <1>7, AreaConstants
  <2>2. UnwrapCoordList(path) = { Shifted(C, 1 * Full) }
    BY <1>5, <1>6, <1>7, <2>1, AreaConstants
  <2>3. PICK l : l = Shifted(C, 1 * Full)
    OBVIOUS
  <2>4. \A i \in 1 .. n : l[i] = C[i] + Full
    <3>1. 1 * Full \in Int /\ 1 * Full = Full
      BY AreaConstants
    <3>2. IsShifted(l, n, C, 1 * Full)
      BY <1>2, <2>3, <3>1, ShiftedIs
    <3> QED
      BY <3>1, <3>2 DEF IsShifted
  <2>5. ASSUME NEW i \in 1 .. n PROVE -East =< l[i] /\ l[i] =< East + Full
    <3>1. C[i] \in Int /\ C[i] =< maxx /\ C[1] - C[i] < Full /\ l[i] = C[i] + Full
      BY <1>2, <1>3, <1>4, <2>4
    <3> QED
      BY <1>2, <1>4, <2>1, <3>1, AreaConstants
  <2>6. PICK i \in 1 .. n : minx = C[i]
    BY <1>3
  <2>7. l[i] =< East
    BY <1>7, <2>4, <2>6, AreaConstants
  <2> QED
    BY <1>1, <2>2, <2>3, <2>5, <2>7 DEF InBounds
<1>8. CASE ~(minx < West)
  <2>1. Shifted(C, 0 * Full) = C
    <3>1. 0 * Full = 0 /\ 0 \in Int
      BY AreaConstants
    <3> QED
      BY <1>2, <3>1, ShiftedIs
  <2>2. UnwrapCoordList(path) = { C }
    BY <1>5, <1>6, <1>8
  <2>3. ASSUME NEW i \in 1 .. n PROVE -East =< C[i] /\ C[i] =< East + Full
    <3>1. C[i] \in Int /\ C[i] =< maxx /\ minx =< C[i]
      BY <1>2, <1>3
    <3> QED
      BY <1>6, <1>8, <3>1, AreaConstants
  <2> QED
    BY <1>1, <1>2, <1>4, <2>1, <2>2, <2>3 DEF InBounds
<1> QED
  BY <1>7, <1>8

-----------------------------------------------------------------------------
(* Place: the lines of a grid                                              *)

LEMMA FewTurns ==
  ASSUME NEW o \in Int, NEW p \in Int, NEW by \in Int, NEW low \in Int, NEW x \in Int,
         SameLongitude(o + by, o),
         -East =< p, p =< East + Full, -East =< o, o =< East + Full,
         -East < o + by - p, o + by - p < East,
         low =< East, o + by - low < Full, x =< East, p - (x + by) < Full
  PROVE  /\ by \in {-Full, 0, Full}
         /\ by = 0 <=> ~(AbsOf(p - o) > East)
         /\ by = -Full => o > 0
<1>1. PICK E \in Nat \ {0} : E = East /\ Full = 2 * E
  BY AreaConstants
<1>2. PICK m \in -2 .. 2 : o + by = o + m * Full
  <2>1. o + by \in Int /\ -(3 * Full) < o + by - o /\ o + by - o < 3 * Full
    BY <1>1
  <2> QED
    BY <2>1, TurnsApart
<1>3. by = -(4 * E) \/ by = -(2 * E) \/ by = 0 \/ by = 2 * E \/ by = 4 * E
  <2>1. m = -2 \/ m = -1 \/ m = 0 \/ m = 1 \/ m = 2
    BY <1>2
  <2> QED
    BY <1>1, <1>2, <2>1
<1>4. by # 4 * E
  BY <1>1
<1>5. by # -(4 * E)
  BY <1>1
<1>6. by = -(2 * E) \/ by = 0 \/ by = 2 * E
  BY <1>3, <1>4, <1>5
<1> QED
  BY <1>1, <1>6 DEF AbsOf

Gentle(c, path) == \A j \in 1 .. c - 1 : path[j] - path[j + 1] < East

\* A line that is moved goes neither around the globe from one west of the bound nor from
\* where the line before it begins.
Close(c, path, by, p, low) ==
  \A j \in 1 .. c : path[j] + by - low < Full /\ p - (path[j] + by) < Full

\* A line that is moved by the sign of each longitude, and then is within the bounds, was
\* moved as a whole, to where the course wants it.
LEMMA MovedAsWhole ==
  ASSUME NEW c \in Nat \ {0}, NEW v \in [1 .. c -> Int], NEW own \in [1 .. c -> Int],
         InBounds(c, v), InBounds(c, own), InBounds(c, Beside(v, own)), Gentle(c, own),
         NEW e \in 1 .. c, own[e] =< East,
         NEW by \in Int, SameLongitude(own[1] + by, own[1]),
         -East < own[1] + by - v[1], own[1] + by - v[1] < East,
         NEW low \in Int, low =< East, Close(c, own, by, v[1], low)
  PROVE  IsShifted(Beside(v, own), c, own, by)
<1>1. 1 \in 1 .. c
  OBVIOUS
<1>2. PICK p \in Int, o \in Int, x \in Int : p = v[1] /\ o = own[1] /\ x = own[e]
  BY <1>1
<1>3. PICK B \in [1 .. c -> Int] : B = Beside(v, own)
  BY BesideType
<1>4. \A j \in 1 .. c : own[j] \in Int /\ -East =< own[j] /\ -East =< B[j]
  BY <1>3 DEF InBounds
<1>5. \A j \in 1 .. c : own[j] + by - low < Full /\ p - (own[j] + by) < Full
  BY <1>2 DEF Close
<1>6. /\ by \in {-Full, 0, Full} /\ (by = 0 <=> ~(AbsOf(p - o) > East))
      /\ by = -Full => o > 0
  <2>1. -East =< p /\ p =< East + Full /\ -East =< o /\ o =< East + Full
    BY <1>1, <1>2 DEF InBounds
  <2>2. SameLongitude(o + by, o) /\ -East < o + by - p /\ o + by - p < East /\ x =< East
    BY <1>2
  <2>3. o + by - low < Full /\ p - (x + by) < Full
    BY <1>1, <1>2, <1>5
  <2> QED
    BY <2>1, <2>2, <2>3, FewTurns
<1>7. /\ AbsOf(p - o) > East => \A j \in 1 .. c : B[j] = own[j] - Full * Sign(own[j])
      /\ ~(AbsOf(p - o) > East) => B = own
  BY <1>2, <1>3 DEF Beside
<1>8. CASE by = 0
  <2>1. \A j \in 1 .. c : B[j] = own[j] + by
    BY <1>4, <1>6, <1>7, <1>8
  <2> QED
    BY <1>3, <2>1 DEF IsShifted
<1>9. CASE by = Full
  <2>1. AbsOf(p - o) > East
    BY <1>6, <1>9, AreaConstants
  <2>2. ASSUME NEW j \in 1 .. c PROVE B[j] = own[j] + by
    <3>1. PICK y \in Int, b \in Int : y = own[j] /\ b = B[j]
      OBVIOUS
    <3>2. y + Full - low < Full /\ b = y - Full * Sign(y) /\ -East =< b
      BY <1>4, <1>5, <1>7, <1>9, <2>1, <3>1
    <3>3. y < East
      BY <3>2, AreaConstants
    <3>4. y < 0
      BY <3>2, <3>3, AreaConstants DEF Sign
    <3>5. b = y + Full
      BY <3>2, <3>4, AreaConstants DEF Sign
    <3> QED
      BY <1>9, <3>1, <3>5
  <2> QED
    BY <1>3, <2>2 DEF IsShifted
<1>10. CASE by = -Full
  <2>1. AbsOf(p - o) > East /\ o > 0
    BY <1>6, <1>10, AreaConstants
  <2>2. ASSUME NEW j \in 1 .. c, NEW y \in Int, y = own[j], y >= 0
        PROVE  y >= East /\ B[j] = y + by
    <3>1. PICK b \in Int : b = B[j]
      OBVIOUS
    <3>2. b = y - Full * Sign(y) /\ -East =< b
      BY <1>4, <1>7, <2>1, <2>2, <3>1
    <3>3. Sign(y) = 1
      BY <2>2 DEF Sign
    <3>4. b = y - Full
      BY <3>2, <3>3, AreaConstants
    <3>5. y >= East
      BY <3>2, <3>4, AreaConstants
    <3>6. b = y + by
      BY <1>10, <3>4, AreaConstants
    <3> QED
      BY <3>1, <3>5, <3>6
  <2> DEFINE Bad == { j \in 1 .. c : ~(own[j] >= 0) }
  <2>3. Bad = {}
    <3> SUFFICES ASSUME Bad # {} PROVE FALSE
      OBVIOUS
    <3>1. PICK k \in Bad : \A i \in Bad : k =< i
      <4>1. Bad \in SUBSET Nat
        OBVIOUS
      <4> QED
        BY <4>1, MinExists
    <3>2. 1 \notin Bad
      <4>1. own[1] >= 0
        BY <1>2, <2>1
      <4> QED
        BY <4>1
    <3>3. k - 1 \in 1 .. c - 1 /\ k - 1 \in 1 .. c /\ k - 1 \notin Bad /\ (k - 1) + 1 = k
      <4>1. k \in 1 .. c /\ k # 1
        BY <3>1, <3>2
      <4>2. k - 1 \in 1 .. c - 1 /\ k - 1 \in 1 .. c /\ ~(k =< k - 1) /\ (k - 1) + 1 = k
        BY <4>1
      <4> HIDE DEF Bad
      <4> QED
        BY <3>1, <4>2
    <3>4. PICK y \in Int, z \in Int : y = own[k - 1] /\ z = own[k]
      BY <1>4, <3>1, <3>3
    <3>5. y >= 0
      BY <3>3, <3>4
    <3>6. y >= East
      BY <2>2, <3>3, <3>4, <3>5
    <3>7. y - z < East
      BY <3>3, <3>4 DEF Gentle
    <3>8. z >= 0
      BY <3>6, <3>7, AreaConstants
    <3> QED
      BY <3>1, <3>4, <3>8
  <2>4. ASSUME NEW j \in 1 .. c PROVE B[j] = own[j] + by
    <3>1. PICK y \in Int : y = own[j]
      BY <1>4
    <3>2. y >= 0
      BY <2>3, <3>1
    <3>3. B[j] = y + by
      BY <2>2, <3>1, <3>2
    <3> QED
      BY <3>1, <3>3
  <2> QED
    BY <1>3, <2>4 DEF IsShifted
<1> QED
  BY <1>6, <1>8, <1>9, <1>10

\* Lines whose neighbours are not half the globe apart.
ClearGrid(r, c, lines) ==
  /\ lines \in [1 .. r -> Longitudes(c)]
  /\ \A i \in 1 .. r : Clear(lines[i])
  /\ Clear(FirstColumn(lines))

\* The first column of a grid follows its course, and each line its own from there.
AlongColumn(K, r, c, lines) ==
  /\ K \in [1 .. r -> [1 .. c -> Int]] /\ K[1][1] = lines[1][1]
  /\ \A i \in 1 .. r : /\ IsShifted(K[i], c, Course(lines[i]), K[i][1] - lines[i][1])
                       /\ SameLongitude(K[i][1], lines[i][1])
  /\ \A i \in 1 .. r - 1 : -East < K[i + 1][1] - K[i][1] /\ K[i + 1][1] - K[i][1] < East

LEMMA ColumnOf ==
  ASSUME NEW r \in Nat \ {0}, NEW c \in Nat \ {0}, NEW lines \in [1 .. r -> Longitudes(c)]
  PROVE  /\ FirstColumn(lines) \in Longitudes(r)
         /\ \A i \in 1 .. r : FirstColumn(lines)[i] = lines[i][1]
<1>1. DOMAIN lines = 1 .. r /\ 1 \in 1 .. c
  OBVIOUS
<1>2. \A i \in 1 .. r : lines[i][1] \in West .. East
  BY <1>1 DEF Longitudes
<1> QED
  BY <1>1, <1>2 DEF FirstColumn, Longitudes

LEMMA CoursesIs ==
  ASSUME NEW r \in Nat \ {0}, NEW c \in Nat \ {0}, NEW lines, ClearGrid(r, c, lines)
  PROVE  AlongColumn(Courses(lines), r, c, lines)
<1>1. /\ lines \in [1 .. r -> Longitudes(c)] /\ DOMAIN lines = 1 .. r
      /\ 1 \in 1 .. r /\ 1 \in 1 .. c
  BY DEF ClearGrid
<1>2. PICK col : col = FirstColumn(lines)
  OBVIOUS
<1>3. col \in Longitudes(r) /\ Clear(col) /\ \A i \in 1 .. r : col[i] = lines[i][1]
  BY <1>1, <1>2, ColumnOf DEF ClearGrid
<1>4. PICK F : F = Course(col)
  OBVIOUS
<1>5. /\ F \in [1 .. r -> Int] /\ F[1] = col[1]
      /\ \A i \in 1 .. r - 1 : -East < F[i + 1] - F[i] /\ F[i + 1] - F[i] < East
      /\ \A i \in 1 .. r : SameLongitude(F[i], col[i])
  BY <1>3, <1>4, CourseSteps
<1>6. PICK K : K = Courses(lines)
  OBVIOUS
<1>7. /\ DOMAIN K = 1 .. r
      /\ \A i \in 1 .. r : K[i] = Shifted(Course(lines[i]), F[i] - lines[i][1])
      /\ K = [i \in 1 .. r |-> K[i]]
  BY <1>1, <1>2, <1>4, <1>6 DEF Courses
<1>8. ASSUME NEW i \in 1 .. r
      PROVE  /\ K[i] \in [1 .. c -> Int] /\ K[i][1] = F[i]
             /\ IsShifted(K[i], c, Course(lines[i]), K[i][1] - lines[i][1])
  <2>1. PICK path \in Longitudes(c) : path = lines[i] /\ Clear(path)
    BY <1>1 DEF ClearGrid
  <2>2. Course(path) \in [1 .. c -> Int] /\ Course(path)[1] = path[1]
    BY <2>1, CourseSteps
  <2>3. PICK by \in Int : by = F[i] - path[1]
    <3>1. F[i] \in Int /\ path[1] \in Int
      BY <1>1, <1>5, <2>2
    <3> QED
      BY <3>1
  <2>4. IsShifted(Shifted(Course(path), by), c, Course(path), by)
    BY <2>2, ShiftedIs
  <2>5. K[i] = Shifted(Course(path), by)
    BY <1>7, <2>1, <2>3
  <2>6. K[i] \in [1 .. c -> Int] /\ K[i][1] = path[1] + by
    BY <1>1, <2>2, <2>4, <2>5 DEF IsShifted
  <2>7. path[1] \in Int /\ F[i] \in Int
    BY <1>1, <1>5, <2>1, Coordinates
  <2>8. K[i][1] = F[i] /\ K[i][1] - path[1] = by
    BY <2>3, <2>6, <2>7
  <2> QED
    BY <2>1, <2>4, <2>5, <2>6, <2>8
<1>9. K \in [1 .. r -> [1 .. c -> Int]]
  BY <1>7, <1>8
<1>10. \A i \in 1 .. r - 1 : i \in 1 .. r /\ i + 1 \in 1 .. r
  OBVIOUS
<1>11. \A i \in 1 .. r - 1 : -East < K[i + 1][1] - K[i][1] /\ K[i + 1][1] - K[i][1] < East
  BY <1>5, <1>8, <1>10
<1>12. \A i \in 1 .. r : SameLongitude(K[i][1], lines[i][1])
  BY <1>3, <1>5, <1>8
<1>13. K[1][1] = lines[1][1]
  BY <1>1, <1>3, <1>5, <1>8
<1> QED
  BY <1>6, <1>8, <1>9, <1>11, <1>12, <1>13 DEF AlongColumn

\* The lines of a grid, that goes not all around the globe.
NarrowGrid(r, c, K) == \A i, k \in 1 .. r : \A j, l \in 1 .. c : K[i][j] - K[k][l] < Full

\* A line unwrapped by itself.
OwnLine(c, path, own) ==
  /\ own \in [1 .. c -> Int] /\ InBounds(c, own)
  /\ \E e \in 1 .. c : own[e] =< East
  /\ \E k \in {0, 1} : IsShifted(own, c, Course(path), k * Full)

LEMMA OwnLineIs ==
  ASSUME NEW r \in Nat \ {0}, NEW c \in Nat \ {0}, NEW lines, ClearGrid(r, c, lines),
         NEW K, AlongColumn(K, r, c, lines), NarrowGrid(r, c, K), NEW i \in 1 .. r
  PROVE  \E own : UnwrapCoordList(lines[i]) = {own} /\ OwnLine(c, lines[i], own)
<1>1. PICK path \in Longitudes(c) : path = lines[i] /\ Clear(path)
  BY DEF ClearGrid
<1>2. PICK C \in [1 .. c -> Int] : C = Course(path)
  BY <1>1, CourseSteps
<1>3. PICK by \in Int : \A j \in 1 .. c : K[i][j] = C[j] + by
  <2>1. 1 \in 1 .. c
    OBVIOUS
  <2>2. path[1] \in Int
    BY <2>1, Coordinates
  <2>3. K[i] \in [1 .. c -> Int]
    BY DEF AlongColumn
  <2>4. PICK by \in Int : by = K[i][1] - path[1]
    BY <2>1, <2>2, <2>3
  <2>5. IsShifted(K[i], c, C, by)
    BY <1>1, <1>2, <2>4 DEF AlongColumn
  <2> QED
    BY <2>5 DEF IsShifted
<1>4. Narrow(c, C)
  <2> SUFFICES ASSUME NEW a \in 1 .. c, NEW b \in 1 .. c PROVE C[a] - C[b] < Full
    BY DEF Narrow
  <2>1. K[i][a] - K[i][b] < Full
    BY DEF NarrowGrid
  <2>2. C[a] \in Int /\ C[b] \in Int /\ K[i][a] = C[a] + by /\ K[i][b] = C[b] + by
    BY <1>3
  <2> QED
    BY <2>1, <2>2
<1>5. PICK k \in {0, 1} : /\ UnwrapCoordList(path) = { Shifted(C, k * Full) }
                          /\ InBounds(c, Shifted(C, k * Full))
                          /\ \E j \in 1 .. c : Shifted(C, k * Full)[j] =< East
  BY <1>1, <1>2, <1>4, UnwrapClear
<1>6. k * Full \in Int
  BY AreaConstants
<1>7. IsShifted(Shifted(C, k * Full), c, C, k * Full)
  BY <1>6, ShiftedIs
<1> QED
  BY <1>1, <1>2, <1>5, <1>7 DEF OwnLine, IsShifted

\* What moves together stays as far apart.
LEMMA SameDifference ==
  ASSUME NEW x \in Int, NEW y \in Int, NEW b \in Int
  PROVE  x + b - (y + b) = x - y
OBVIOUS

LEMMA OtherDifference ==
  ASSUME NEW x \in Int, NEW y \in Int, NEW e \in Int, -e < y - x
  PROVE  x - y < e
OBVIOUS

\* No turn around the globe, or one.
OneTurn(by) == \E k \in {0, 1} : by = k * Full

\* One line of a grid goes next to the one before just where the course wants it.
LEMMA MovedStep ==
  ASSUME NEW c \in Nat \ {0}, NEW path \in Longitudes(c), Clear(path),
         NEW own, OwnLine(c, path, own), NEW v \in [1 .. c -> Int],
         InBounds(c, v), InBounds(c, Beside(v, own)),
         NEW L \in [1 .. c -> Int], IsShifted(L, c, Course(path), L[1] - path[1]),
         SameLongitude(L[1], path[1]), NEW a \in Int, OneTurn(a),
         -East < L[1] + a - v[1], L[1] + a - v[1] < East,
         NEW low \in Int, low =< East, Close(c, L, a, v[1], low)
  PROVE  IsShifted(Beside(v, own), c, L, a)
<1>1. PICK C \in [1 .. c -> Int] :
        /\ C = Course(path) /\ C[1] = path[1]
        /\ \A j \in 1 .. c - 1 : -East < C[j + 1] - C[j]
  BY CourseSteps
<1>2. PICK n \in {0, 1} : IsShifted(own, c, C, n * Full)
  BY <1>1 DEF OwnLine
<1>3. PICK b \in Int, d \in Int : b = n * Full /\ d = L[1] - path[1]
  <2>1. 1 \in 1 .. c /\ L[1] \in Int /\ C[1] \in Int
    BY <1>1
  <2> QED
    BY <1>1, <2>1, AreaConstants
<1>4. /\ own \in [1 .. c -> Int] /\ InBounds(c, own)
      /\ \A j \in 1 .. c : own[j] = C[j] + b
  BY <1>2, <1>3 DEF OwnLine, IsShifted
<1>5. \A j \in 1 .. c : L[j] = C[j] + d
  BY <1>1, <1>3 DEF IsShifted
<1>6. PICK by \in Int : by = d + a - b
  BY <1>3
<1>7. ASSUME NEW j \in 1 .. c
      PROVE  /\ own[j] \in Int /\ L[j] \in Int /\ C[j] \in Int
             /\ own[j] + by = L[j] + a
  <2>1. PICK x \in Int : x = C[j]
    BY <1>1
  <2>2. own[j] = x + b /\ L[j] = x + d
    BY <1>4, <1>5, <2>1
  <2>3. x + b + by = x + d + a
    BY <1>6
  <2>4. own[j] \in Int /\ L[j] \in Int /\ C[j] \in Int
    BY <1>4
  <2>5. own[j] + by = x + b + by /\ L[j] + a = x + d + a
    BY <2>2
  <2> QED
    BY <2>3, <2>4, <2>5
<1>8. 1 \in 1 .. c
  OBVIOUS
<1>9. Gentle(c, own)
  <2> SUFFICES ASSUME NEW j \in 1 .. c - 1 PROVE own[j] - own[j + 1] < East
    BY DEF Gentle
  <2>1. j \in 1 .. c /\ j + 1 \in 1 .. c
    OBVIOUS
  <2>2. PICK x \in Int, y \in Int : x = C[j] /\ y = C[j + 1]
    BY <2>1
  <2>3. own[j] = x + b /\ own[j + 1] = y + b /\ -East < y - x
    BY <1>1, <1>4, <2>1, <2>2
  <2>4. x - y < East
    <3>1. East \in Int /\ -East < y - x
      BY <2>2, <2>3, AreaConstants
    <3> QED
      BY <3>1, OtherDifference
  <2>5. x + b - (y + b) = x - y
    BY SameDifference
  <2> QED
    BY <2>3, <2>4, <2>5
<1>10. SameLongitude(own[1] + by, own[1])
  <2>1. PICK q \in Int : L[1] = path[1] + Full * q
    BY DEF SameLongitude
  <2>2. PICK x \in Int, y \in Int : x = own[1] /\ y = path[1]
    BY <1>1, <1>7, <1>8
  <2>3. PICK f \in Nat \ {0} : f = Full
    BY AreaConstants
  <2>4. d = f * q
    BY <1>3, <2>1, <2>2, <2>3
  <2> PICK k \in {0, 1} : a = k * Full
    BY DEF OneTurn
  <2>5. PICK m \in Int : m = q + k - n
    BY <1>2
  <2>6. by = f * m
    <3>1. a = f * k /\ b = f * n /\ k \in Int /\ n \in Int
      BY <1>3, <2>3
    <3> QED
      BY <1>6, <2>3, <2>4, <2>5, <3>1
  <2>7. x + by = x + f * m
    BY <2>6
  <2> QED
    BY <2>2, <2>3, <2>5, <2>7 DEF SameLongitude
<1>11. -East < own[1] + by - v[1] /\ own[1] + by - v[1] < East
  <2>1. own[1] + by = L[1] + a
    BY <1>7, <1>8
  <2>2. PICK u \in Int, w \in Int, o \in Int : u = L[1] /\ w = v[1] /\ o = own[1]
    BY <1>7, <1>8
  <2>3. -East < u + a - w /\ u + a - w < East
    BY <2>2
  <2>4. o + by = u + a
    BY <2>1, <2>2
  <2>5. -East < o + by - w /\ o + by - w < East
    BY <2>3, <2>4, AreaConstants
  <2> QED
    BY <2>2, <2>5
<1>12. Close(c, own, by, v[1], low)
  <2>1. \A j \in 1 .. c : own[j] + by = L[j] + a
    BY <1>7
  <2> SUFFICES ASSUME NEW j \in 1 .. c
               PROVE  own[j] + by - low < Full /\ v[1] - (own[j] + by) < Full
    BY DEF Close
  <2>2. L[j] + a - low < Full /\ v[1] - (L[j] + a) < Full
    BY Zenon DEF Close
  <2>3. PICK u \in Int, w \in Int, o \in Int : u = L[j] /\ w = v[1] /\ o = own[j]
    BY <1>7, <1>8
  <2>4. u + a - low < Full /\ w - (u + a) < Full
    BY <2>2, <2>3
  <2>5. o + by = u + a
    BY <2>1, <2>3
  <2>6. o + by - low < Full /\ w - (o + by) < Full
    BY <2>4, <2>5, AreaConstants
  <2> QED
    BY <2>3, <2>6
<1>13. PICK e \in 1 .. c : own[e] =< East
  BY DEF OwnLine
<1>14. IsShifted(Beside(v, own), c, own, by)
  BY <1>4, <1>9, <1>10, <1>11, <1>12, <1>13, MovedAsWhole
<1>15. PICK B : B = Beside(v, own)
  OBVIOUS
<1>16. B \in [1 .. c -> Int] /\ \A j \in 1 .. c : B[j] = own[j] + by
  BY <1>14, <1>15 DEF IsShifted
<1>17. \A j \in 1 .. c : B[j] = L[j] + a
  BY <1>7, <1>16
<1> QED
  BY <1>15, <1>16, <1>17 DEF IsShifted

\* Joined within the bounds, the lines follow the course, by one turn at most.
LEMMA JoinedAlong ==
  ASSUME NEW r \in Nat \ {0}, NEW c \in Nat \ {0}, NEW lines, ClearGrid(r, c, lines),
         NEW K, AlongColumn(K, r, c, lines), NarrowGrid(r, c, K),
         NEW O \in [1 .. r -> [1 .. c -> Int]], \A i \in 1 .. r : OwnLine(c, lines[i], O[i]),
         \A i \in 1 .. r : InBounds(c, Joined(O)[i])
  PROVE  \E k \in {0, 1} : \A i \in 1 .. r : IsShifted(Joined(O)[i], c, K[i], k * Full)
<1>1. PICK J : J = Joined(O)
  OBVIOUS
<1>2. /\ J \in [1 .. r -> [1 .. c -> Int]] /\ J[1] = O[1]
      /\ \A i \in 1 .. r - 1 : J[i + 1] = Beside(J[i], O[i + 1])
  BY <1>1, JoinedIs
<1>3. 1 \in 1 .. r /\ 1 \in 1 .. c
  OBVIOUS
<1>4. PICK k \in {0, 1} : IsShifted(J[1], c, K[1], k * Full)
  <2>1. PICK k \in {0, 1} : IsShifted(O[1], c, Course(lines[1]), k * Full)
    BY <1>3 DEF OwnLine
  <2>2. PICK C : C = Course(lines[1])
    OBVIOUS
  <2>3. /\ K[1] \in [1 .. c -> Int]
        /\ \A j \in 1 .. c : K[1][j] = C[j] + (K[1][1] - lines[1][1])
        /\ K[1][1] = lines[1][1]
    BY <1>3, <2>2 DEF AlongColumn, IsShifted
  <2>4. lines[1] \in Longitudes(c) /\ Clear(lines[1])
    BY <1>3 DEF ClearGrid
  <2>5. C \in [1 .. c -> Int] /\ lines[1][1] \in Int
    <3>1. C \in [1 .. c -> Int]
      BY <2>2, <2>4, CourseSteps
    <3>2. \A j \in 1 .. c : lines[1][j] \in Int
      BY <2>4, Coordinates
    <3> QED
      BY <1>3, <3>1, <3>2
  <2>6. ASSUME NEW j \in 1 .. c PROVE K[1][j] = C[j]
    <3>1. PICK x \in Int, y \in Int : x = C[j] /\ y = lines[1][1]
      BY <2>5
    <3>2. K[1][j] = x + (y - y)
      BY <2>3, <3>1
    <3>3. x + (y - y) = x
      BY <3>1
    <3> QED
      BY <3>1, <3>2, <3>3
  <2>7. K[1] = C
    BY <2>3, <2>5, <2>6
  <2> QED
    BY <1>2, <2>1, <2>2, <2>7
<1>5. PICK a \in Int : a = k * Full
  BY AreaConstants
<1>6. PICK e \in 1 .. c, low \in Int : low = J[1][e] /\ low =< East
  BY <1>2, <1>3 DEF OwnLine
<1>7. ASSUME NEW i \in 1 .. r - 1, IsShifted(J[i], c, K[i], a)
      PROVE  IsShifted(J[i + 1], c, K[i + 1], a)
  <2>1. i \in 1 .. r /\ i + 1 \in 1 .. r
    OBVIOUS
  <2>2. PICK L \in [1 .. c -> Int] : L = K[i + 1]
    BY <2>1 DEF AlongColumn
  <2>3. PICK path \in Longitudes(c) : path = lines[i + 1] /\ Clear(path)
    BY <2>1 DEF ClearGrid
  <2>4. PICK v \in [1 .. c -> Int] : v = J[i]
    BY <1>2, <2>1
  <2>5. PICK own : own = O[i + 1]
    OBVIOUS
  <2>6. OwnLine(c, path, own) /\ InBounds(c, v) /\ InBounds(c, Beside(v, own))
    BY <1>1, <1>2, <2>1, <2>3, <2>4, <2>5
  <2>7. IsShifted(L, c, Course(path), L[1] - path[1]) /\ SameLongitude(L[1], path[1])
    BY <2>1, <2>2, <2>3 DEF AlongColumn
  <2>8. ASSUME NEW h \in 1 .. r, NEW j \in 1 .. c PROVE K[h][j] \in Int
    <3>1. K[h] \in [1 .. c -> Int]
      BY DEF AlongColumn
    <3> QED
      BY <3>1
  <2>9. v[1] = K[i][1] + a /\ low = K[1][e] + a
    BY <1>3, <1>4, <1>5, <1>6, <1>7, <2>4 DEF IsShifted
  <2>10. -East < L[1] - K[i][1] /\ L[1] - K[i][1] < East
    BY <2>2 DEF AlongColumn
  <2>11. -East < L[1] + a - v[1] /\ L[1] + a - v[1] < East
    <3>1. PICK x \in Int, y \in Int : x = L[1] /\ y = K[i][1]
      BY <1>3, <2>1, <2>2, <2>8
    <3>2. v[1] = y + a /\ -East < x - y /\ x - y < East
      BY <2>9, <2>10, <3>1
    <3>3. x + a - (y + a) = x - y
      BY SameDifference
    <3>4. -East < x + a - (y + a) /\ x + a - (y + a) < East
      BY <3>2, <3>3
    <3> QED
      BY <3>1, <3>2, <3>4
  <2>12. ASSUME NEW j \in 1 .. c
         PROVE  L[j] + a - low < Full /\ v[1] - (L[j] + a) < Full
    <3>1. K[i + 1][j] - K[1][e] < Full /\ K[i][1] - K[i + 1][j] < Full
      BY <1>3, <2>1 DEF NarrowGrid
    <3>2. PICK x \in Int, y \in Int, z \in Int : x = K[i + 1][j] /\ y = K[1][e] /\ z = K[i][1]
      BY <1>3, <2>1, <2>8
    <3>3. x - y < Full /\ z - x < Full
      BY <3>1, <3>2
    <3>4. x + a - (y + a) < Full /\ z + a - (x + a) < Full
      <4>1. x + a - (y + a) = x - y /\ z + a - (x + a) = z - x
        <5>1. x + a - (y + a) = x - y
          BY SameDifference
        <5>2. z + a - (x + a) = z - x
          BY SameDifference
        <5> QED
          BY <5>1, <5>2
      <4> QED
        BY <3>3, <4>1
    <3>5. L[j] = x /\ low = y + a /\ v[1] = z + a
      BY <2>2, <2>9, <3>2
    <3> QED
      BY <3>4, <3>5
  <2>13. Close(c, L, a, v[1], low)
    BY <2>12 DEF Close
  <2>14. IsShifted(Beside(v, own), c, L, a)
    <3>1. OneTurn(a)
      BY <1>5 DEF OneTurn
    <3> QED
      BY <1>5, <1>6, <2>3, <2>6, <2>7, <2>11, <2>13, <3>1, MovedStep
  <2> QED
    BY <1>2, <2>2, <2>4, <2>5, <2>14
<1> DEFINE Bad == { i \in 1 .. r : ~IsShifted(J[i], c, K[i], a) }
<1>8. Bad = {}
  <2> SUFFICES ASSUME Bad # {} PROVE FALSE
    OBVIOUS
  <2>1. PICK h \in Bad : \A i \in Bad : h =< i
    <3>1. Bad \in SUBSET Nat
      OBVIOUS
    <3> QED
      BY <3>1, MinExists
  <2>2. 1 \notin Bad
    BY <1>4, <1>5
  <2>3. h \in 1 .. r /\ h # 1
    BY <2>1, <2>2
  <2>4. h - 1 \in 1 .. r - 1 /\ h - 1 \in 1 .. r /\ ~(h =< h - 1) /\ (h - 1) + 1 = h
    BY <2>3
  <2>5. h - 1 \notin Bad
    <3> HIDE DEF Bad
    <3> QED
      BY <2>1, <2>4
  <2>6. IsShifted(J[h - 1], c, K[h - 1], a)
    BY <2>4, <2>5
  <2>7. IsShifted(J[(h - 1) + 1], c, K[(h - 1) + 1], a)
    BY <1>7, <2>4, <2>6
  <2> QED
    BY <2>1, <2>4, <2>7
<1> QED
  BY <1>1, <1>5, <1>8

\* Lines that are the reference up to turns, within the bounds, and reach the map itself.
InPlace(l, r, c, reference) ==
  /\ l \in [1 .. r -> [1 .. c -> Int]]
  /\ SamePlace(l, reference)
  /\ \A i \in 1 .. r : InBounds(c, l[i])
  /\ \E i \in 1 .. r, j \in 1 .. c : l[i][j] =< East

LEMMA SameByTurns ==
  ASSUME NEW r \in Nat \ {0}, NEW c \in Nat \ {0},
         NEW l \in [1 .. r -> [1 .. c -> Int]], NEW K \in [1 .. r -> [1 .. c -> Int]],
         NEW k \in {0, 1}, \A i \in 1 .. r : IsShifted(l[i], c, K[i], k * Full)
  PROVE  SamePlace(l, K)
<1>1. ASSUME NEW i \in 1 .. r PROVE l[i] = Shifted(K[i], k * Full)
  <2>1. PICK by : by = k * Full
    OBVIOUS
  <2>2. l[i] \in [1 .. c -> Int] /\ \A j \in 1 .. c : l[i][j] = K[i][j] + by
    BY <2>1 DEF IsShifted
  <2>3. K[i] \in [1 .. c -> Int] /\ DOMAIN K[i] = 1 .. c
    OBVIOUS
  <2>4. Shifted(K[i], by) = [ j \in 1 .. c |-> K[i][j] + by ]
    BY <2>3 DEF Shifted
  <2>5. l[i] = [ j \in 1 .. c |-> K[i][j] + by ]
    BY <2>2
  <2> QED
    BY <2>1, <2>4, <2>5
<1>2. DOMAIN K = 1 .. r /\ DOMAIN l = 1 .. r
  OBVIOUS
<1>3. l = [ i \in 1 .. r |-> l[i] ]
  OBVIOUS
<1>4. l = [ i \in DOMAIN K |-> Shifted(K[i], k * Full) ]
  BY <1>1, <1>2, <1>3, Zenon
<1>5. k \in -2 .. 2
  OBVIOUS
<1> QED
  BY <1>4, <1>5 DEF SamePlace

\* If nothing crosses the date line, the lines are their own courses.
LEMMA CoursesStraight ==
  ASSUME NEW r \in Nat \ {0}, NEW c \in Nat \ {0}, NEW lines, ClearGrid(r, c, lines),
         \A i \in 1 .. r : ~CrossesDateline(lines[i]), ~CrossesDateline(FirstColumn(lines))
  PROVE  Courses(lines) = lines
<1>1. lines \in [1 .. r -> Longitudes(c)] /\ DOMAIN lines = 1 .. r
  BY DEF ClearGrid
<1>2. /\ FirstColumn(lines) \in Longitudes(r)
      /\ \A i \in 1 .. r : FirstColumn(lines)[i] = lines[i][1]
  BY <1>1, ColumnOf
<1>3. Course(FirstColumn(lines)) = FirstColumn(lines)
  BY <1>2, CourseStraight DEF ClearGrid
<1>4. ASSUME NEW i \in 1 .. r
      PROVE  Shifted(Course(lines[i]), Course(FirstColumn(lines))[i] - lines[i][1]) = lines[i]
  <2>1. lines[i] \in Longitudes(c) /\ Clear(lines[i])
    BY <1>1 DEF ClearGrid
  <2>2. Course(lines[i]) = lines[i]
    BY <2>1, CourseStraight
  <2>3. PICK path \in Longitudes(c) : path = lines[i]
    BY <2>1
  <2>4. path \in [1 .. c -> Int] /\ path[1] \in Int
    <3>1. 1 \in 1 .. c
      OBVIOUS
    <3> QED
      BY <3>1, Coordinates
  <2>5. path[1] - path[1] = 0
    BY <2>4
  <2>6. Shifted(path, 0) = path
    BY <2>4, ShiftedIs
  <2> QED
    BY <1>2, <1>3, <2>2, <2>3, <2>5, <2>6
<1>5. lines = [ i \in 1 .. r |-> lines[i] ]
  BY <1>1
<1>6. Courses(lines) = [ i \in 1 .. r |->
         Shifted(Course(lines[i]), Course(FirstColumn(lines))[i] - lines[i][1]) ]
  BY <1>1 DEF Courses
<1> QED
  BY <1>4, <1>5, <1>6

LEMMA LinesInt ==
  ASSUME NEW r \in Nat \ {0}, NEW c \in Nat \ {0}, NEW lines \in [1 .. r -> Longitudes(c)]
  PROVE  /\ lines \in [1 .. r -> [1 .. c -> Int]] /\ DOMAIN lines = 1 .. r
         /\ \A i \in 1 .. r : \A j \in 1 .. c :
              lines[i][j] \in Int /\ -East =< lines[i][j] /\ lines[i][j] =< East
<1>1. ASSUME NEW i \in 1 .. r
      PROVE  /\ lines[i] \in [1 .. c -> Int]
             /\ \A j \in 1 .. c : lines[i][j] \in Int /\ -East =< lines[i][j] /\ lines[i][j] =< East
  <2>1. lines[i] \in Longitudes(c)
    OBVIOUS
  <2> QED
    BY <2>1, Coordinates
<1> QED
  BY <1>1

LEMMA StraightInPlace ==
  ASSUME NEW r \in Nat \ {0}, NEW c \in Nat \ {0}, NEW lines \in [1 .. r -> Longitudes(c)]
  PROVE  InPlace(lines, r, c, lines)
<1>1. /\ lines \in [1 .. r -> [1 .. c -> Int]]
      /\ \A i \in 1 .. r : \A j \in 1 .. c :
           lines[i][j] \in Int /\ -East =< lines[i][j] /\ lines[i][j] =< East
  BY LinesInt
<1>2. ASSUME NEW i \in 1 .. r PROVE IsShifted(lines[i], c, lines[i], 0 * Full)
  <2>1. 0 * Full = 0
    BY AreaConstants
  <2>2. lines[i] \in [1 .. c -> Int]
    BY <1>1
  <2>3. \A j \in 1 .. c : lines[i][j] = lines[i][j] + 0
    BY <1>1
  <2> QED
    BY <2>1, <2>2, <2>3 DEF IsShifted
<1>3. SamePlace(lines, lines)
  <2>1. 0 \in {0, 1}
    OBVIOUS
  <2> QED
    BY <1>1, <1>2, <2>1, SameByTurns
<1>4. ASSUME NEW i \in 1 .. r PROVE InBounds(c, lines[i])
  <2> SUFFICES ASSUME NEW j \in 1 .. c PROVE -East =< lines[i][j] /\ lines[i][j] =< East + Full
    BY DEF InBounds
  <2>1. PICK x \in Int : x = lines[i][j] /\ -East =< x /\ x =< East
    BY <1>1
  <2>2. x =< East + Full
    BY <2>1, AreaConstants
  <2> QED
    BY <2>1, <2>2
<1>5. 1 \in 1 .. r /\ 1 \in 1 .. c
  OBVIOUS
<1> QED
  BY <1>1, <1>3, <1>4, <1>5 DEF InPlace

\* A grid that is unwrapped, and not split, lies where its courses do.
LEMMA GridUnwraps ==
  ASSUME NEW r \in Nat \ {0}, NEW c \in Nat \ {0}, NEW lines, ClearGrid(r, c, lines),
         NarrowGrid(r, c, Courses(lines)),
         ~((\A i \in 1 .. r : ~CrossesDateline(lines[i])) /\ CrossesDateline(FirstColumn(lines))),
         NEW l \in UnwrapGrid(lines)
  PROVE  InPlace(l, r, c, Courses(lines))
<1>1. lines \in [1 .. r -> Longitudes(c)] /\ DOMAIN lines = 1 .. r
  BY DEF ClearGrid
<1>2. CASE \A i \in 1 .. r : ~CrossesDateline(lines[i])
  <2>1. UnwrapGrid(lines) = {lines}
    BY <1>1, <1>2 DEF UnwrapGrid
  <2>2. l = lines
    BY <2>1
  <2>3. Courses(lines) = lines
    BY <1>2, CoursesStraight
  <2> QED
    BY <1>1, <2>2, <2>3, StraightInPlace
<1>3. CASE ~(\A i \in 1 .. r : ~CrossesDateline(lines[i]))
  <2>1. PICK K : K = Courses(lines)
    OBVIOUS
  <2>2. AlongColumn(K, r, c, lines) /\ NarrowGrid(r, c, K)
    BY <2>1, CoursesIs
  <2>3. PICK own : own = [ i \in DOMAIN lines |-> UnwrapCoordList(lines[i]) ]
    OBVIOUS
  <2>4. PICK O : O = [ i \in DOMAIN lines |-> CHOOSE x \in own[i] : TRUE ]
    OBVIOUS
  <2>5. l \in Join(O)
    <3>1. UnwrapGrid(lines) = IF \E i \in DOMAIN lines : own[i] = {} THEN {} ELSE Join(O)
      BY <1>1, <1>3, <2>3, <2>4 DEF UnwrapGrid
    <3> QED
      BY <3>1
  <2>6. ASSUME NEW i \in 1 .. r PROVE OwnLine(c, lines[i], O[i])
    <3>1. PICK o : UnwrapCoordList(lines[i]) = {o} /\ OwnLine(c, lines[i], o)
      BY <2>2, OwnLineIs
    <3>2. own[i] = {o}
      BY <1>1, <2>3, <3>1
    <3>3. O[i] = CHOOSE x \in own[i] : TRUE
      BY <1>1, <2>4
    <3>4. O[i] = o
      BY <3>2, <3>3
    <3> QED
      BY <3>1, <3>4
  <2>7. O \in [1 .. r -> [1 .. c -> Int]]
    <3>1. \A i \in 1 .. r : O[i] \in [1 .. c -> Int]
      BY <2>6 DEF OwnLine
    <3>2. O = [ i \in 1 .. r |-> CHOOSE x \in own[i] : TRUE ]
      BY <1>1, <2>4
    <3> QED
      BY <3>1, <3>2
  <2>8. l = Joined(O) /\ Rightmost(l) =< East + Full /\ Leftmost(l) >= West
    BY <2>5 DEF Join, Joined
  <2>9. l \in [1 .. r -> [1 .. c -> Int]] /\ l[1] = O[1]
    BY <2>7, <2>8, JoinedIs
  <2>10. ASSUME NEW i \in 1 .. r PROVE InBounds(c, l[i])
    <3> SUFFICES ASSUME NEW j \in 1 .. c PROVE -East =< l[i][j] /\ l[i][j] =< East + Full
      BY DEF InBounds
    <3>1. PICK lo \in Int, hi \in Int : lo = Leftmost(l) /\ hi = Rightmost(l)
      BY <2>9, LeftmostOf, RightmostOf DEF IsEastEnd, IsWestEnd
    <3>2. lo =< l[i][j] /\ l[i][j] =< hi
      BY <2>9, <3>1, LeftmostOf, RightmostOf DEF IsEastEnd, IsWestEnd
    <3>3. PICK x \in Int : x = l[i][j]
      BY <2>9
    <3>4. hi =< East + Full /\ -East =< lo
      BY <2>8, <3>1, AreaConstants
    <3>5. -East =< x /\ x =< East + Full
      BY <3>2, <3>3, <3>4, AreaConstants
    <3> QED
      BY <3>3, <3>5
  <2>11. PICK k \in {0, 1} : \A i \in 1 .. r : IsShifted(l[i], c, K[i], k * Full)
    BY <2>2, <2>6, <2>7, <2>8, <2>10, JoinedAlong
  <2>12. SamePlace(l, K)
    <3>1. K \in [1 .. r -> [1 .. c -> Int]]
      BY <2>2 DEF AlongColumn
    <3> QED
      BY <2>9, <2>11, <3>1, SameByTurns
  <2>13. 1 \in 1 .. r
    OBVIOUS
  <2>14. PICK e \in 1 .. c : O[1][e] =< East
    BY <2>6, <2>13 DEF OwnLine
  <2> QED
    BY <2>1, <2>9, <2>10, <2>12, <2>13, <2>14 DEF InPlace
<1> QED
  BY <1>2, <1>3

LEMMA OneMore ==
  ASSUME NEW k \in Int, NEW c \in Int
  PROVE  (k + 1) * c = k * c + c /\ 0 * c = 0 /\ k * c \in Int
OBVIOUS

\* The nodes of lines of the same length.
LEMMA NodesOf ==
  ASSUME NEW r \in Nat \ {0}, NEW c \in Nat \ {0}, NEW lines \in [1 .. r -> Longitudes(c)]
  PROVE  Nodes(lines) = r * c
<1> DEFINE D == DOMAIN lines
           Op(it, s) == IF s = {} THEN 0 ELSE it[s \ {Max(s)}] + Len(lines[Max(s)])
           It == CHOOSE it : it = [s \in SUBSET D |-> Op(it, s)]
           Known == [s \in SUBSET D |-> Cardinality(s) * c]
<1>1. D = 1 .. r /\ IsFiniteSet(D)
  <2>1. D = 1 .. r
    BY LinesInt
  <2> QED
    BY <2>1, FS_Interval
<1>2. \A i \in 1 .. r : Len(lines[i]) = c
  BY Coordinates
<1> HIDE DEF D
<1>3. ASSUME NEW s \in SUBSET D, s # {}
      PROVE  /\ Max(s) \in s /\ s \ {Max(s)} \in SUBSET D
             /\ Cardinality(s \ {Max(s)}) \in Nat /\ Cardinality(s) = Cardinality(s \ {Max(s)}) + 1
             /\ Len(lines[Max(s)]) = c
  <2>1. Max(s) \in s
    BY <1>1, <1>3, MaxOfInterval
  <2>2. IsFiniteSet(s) /\ Cardinality(s) \in Nat
    BY <1>1, FS_Subset, FS_CardinalityType
  <2>3. IsFiniteSet(s \ {Max(s)}) /\ Cardinality(s \ {Max(s)}) = Cardinality(s) - 1
    BY <2>1, <2>2, FS_RemoveElement
  <2>4. Cardinality(s \ {Max(s)}) \in Nat
    BY <2>3, FS_CardinalityType
  <2>5. PICK m \in 1 .. r : m = Max(s)
    BY <1>1, <2>1
  <2>6. Len(lines[Max(s)]) = c
    BY <1>2, <2>5
  <2>7. PICK n \in Nat, k \in Nat : n = Cardinality(s) /\ k = Cardinality(s \ {Max(s)})
    BY <2>2, <2>4
  <2>8. n = k + 1
    BY <2>3, <2>7
  <2> QED
    BY <2>1, <2>4, <2>6, <2>7, <2>8
<1>4. ASSUME NEW s \in SUBSET D PROVE Known[s] = Op(Known, s)
  <2>1. CASE s = {}
    <3>1. Known[s] = 0 * c
      BY <2>1, FS_EmptySet
    <3> QED
      BY <2>1, <3>1, OneMore
  <2>2. CASE s # {}
    <3>1. PICK n \in Nat : n = Cardinality(s \ {Max(s)})
      BY <1>3, <2>2
    <3>2. Known[s] = (n + 1) * c /\ Known[s \ {Max(s)}] = n * c
      BY <1>3, <2>2, <3>1
    <3>3. (n + 1) * c = n * c + c
      BY OneMore
    <3>4. Op(Known, s) = Known[s \ {Max(s)}] + c
      <4> HIDE DEF Known
      <4> QED
        BY <1>3, <2>2
    <3> QED
      BY <3>2, <3>3, <3>4
  <2> QED
    BY <2>1, <2>2
<1>5. It = [s \in SUBSET D |-> Op(It, s)]
  <2> HIDE DEF Op
  <2>1. Known = [s \in SUBSET D |-> Op(Known, s)]
    BY <1>4
  <2> HIDE DEF Known
  <2> QED
    BY <2>1
<1>6. Nodes(lines) = It[D]
  BY DEF Nodes, FoldLeft, MapThenFoldSet, D
<1> HIDE DEF It
<1>7. \A s \in SUBSET D : It[s] = Op(It, s)
  <2> HIDE DEF Op
  <2> QED
    BY <1>5
<1> DEFINE Bad == { k \in 0 .. r : It[1 .. k] # k * c }
<1>8. Bad = {}
  <2> SUFFICES ASSUME Bad # {} PROVE FALSE
    OBVIOUS
  <2>1. PICK k \in Bad : \A i \in Bad : k =< i
    <3>1. Bad \in SUBSET Nat
      OBVIOUS
    <3> HIDE DEF Bad
    <3> QED
      BY <3>1, MinExists
  <2>2. k \in 0 .. r /\ It[1 .. k] # k * c
    BY <2>1
  <2>3. CASE k = 0
    <3>1. 1 .. k = {} /\ {} \in SUBSET D
      BY <2>3
    <3>2. It[1 .. k] = 0
      BY <1>7, <3>1
    <3>3. k * c = 0
      BY <2>3, OneMore
    <3> QED
      BY <2>2, <3>2, <3>3
  <2>4. CASE k # 0
    <3>1. PICK j \in Nat : k = j + 1
      <4>1. k \in 0 .. r /\ k # 0
        BY <2>2, <2>4
      <4>2. k - 1 \in Nat /\ k = (k - 1) + 1
        <5> HIDE DEF Bad
        <5> QED
          BY <4>1
      <4> QED
        BY <4>2
    <3>2. j \in 0 .. r /\ ~(k =< j) /\ j + 1 \in 1 .. r
      BY <2>2, <3>1
    <3>3. j \notin Bad
      BY <2>1, <3>2
    <3>4. It[1 .. j] = j * c
      BY <3>2, <3>3
    <3> HIDE DEF Bad
    <3>5. Max(1 .. j + 1) = j + 1 /\ (1 .. j + 1) \ {j + 1} = 1 .. j
      <4>1. j + 1 \in Nat \ {0}
        OBVIOUS
      <4>2. Max(1 .. j + 1) = j + 1 /\ (1 .. j + 1) \ {j + 1} = 1 .. (j + 1) - 1
        BY <4>1, MaxOfPrefix
      <4>3. (j + 1) - 1 = j
        OBVIOUS
      <4> QED
        BY <4>2, <4>3
    <3>6. 1 .. j + 1 \in SUBSET D /\ 1 .. j + 1 # {}
      BY <1>1, <3>2
    <3>7. It[1 .. j + 1] = It[1 .. j] + Len(lines[j + 1])
      BY <1>7, <3>5, <3>6
    <3>8. It[1 .. j + 1] = j * c + c
      BY <1>2, <3>2, <3>4, <3>7
    <3>9. (j + 1) * c = j * c + c
      BY OneMore
    <3> QED
      BY <2>2, <3>1, <3>8, <3>9
  <2> QED
    BY <2>3, <2>4
<1>9. r \in 0 .. r
  OBVIOUS
<1>10. It[1 .. r] = r * c
  BY <1>8, <1>9
<1> QED
  BY <1>1, <1>6, <1>10

LEMMA AverageOf ==
  ASSUME NEW r \in Nat \ {0}, NEW c \in Nat \ {0}
  PROVE  (r * c) \div r = c
<1>1. PICK n \in Int : n = r * c
  OBVIOUS
<1>2. n \div r \in Int /\ n % r \in 0 .. r - 1 /\ n = r * (n \div r) + (n % r)
  BY Quotient
<1>3. n % r = 0
  <2>1. n = r * c + 0 /\ 0 \in 0 .. r - 1 /\ c \in Int
    BY <1>1
  <2> QED
    BY <2>1, RemainderUnique
<1>4. PICK q \in Int : q = n \div r
  BY <1>2
<1>5. r * q = r * c
  BY <1>1, <1>2, <1>3, <1>4
<1>6. r * (q - c) = 0
  BY <1>5
<1>7. q - c = 0
  BY <1>6
<1> QED
  BY <1>1, <1>4, <1>7

\* A browse as the report may say it.
IsExtent(b) ==
  b.geo_type = "rectifiedBrowse" /\ b.lines \in [1 .. 1 -> [1 .. 2 -> West .. East + Full]]
HasLines(b, r, c) == r \in Nat \ {0} /\ c \in Nat \ {0} /\ b.lines \in [1 .. r -> Longitudes(c)]
IsFootprint(b) == b.geo_type = "footprintBrowse" /\ \E n \in Nat : HasLines(b, 1, n)
IsGrid(b) == b.geo_type = "regularGridBrowse" /\ \E r, c \in Nat : HasLines(b, r, c)
IsBrowse(b) == IsExtent(b) \/ IsFootprint(b) \/ IsGrid(b)

PlacedOf(b) ==
  CASE b.geo_type = "rectifiedBrowse" -> { b.lines }
    [] b.geo_type = "footprintBrowse" -> { << l >> : l \in Footprint(b.lines[1]) }
    [] b.geo_type = "regularGridBrowse" -> Grid(b)

LEMMA SensibleLines ==
  ASSUME NEW b, NEW r, NEW c, HasLines(b, r, c), b.geo_type # "rectifiedBrowse", Sensible(b)
  PROVE  ClearGrid(r, c, b.lines) /\ NarrowGrid(r, c, Courses(b.lines))
<1>1. r \in Nat \ {0} /\ c \in Nat \ {0} /\ b.lines \in [1 .. r -> Longitudes(c)]
  BY DEF HasLines
<1>2. DOMAIN b.lines = 1 .. r
  BY <1>1
<1>3. ClearGrid(r, c, b.lines)
  BY <1>1, <1>2 DEF Sensible, ClearGrid
<1>4. PICK K : K = Courses(b.lines)
  OBVIOUS
<1>5. K \in [1 .. r -> [1 .. c -> Int]]
  BY <1>1, <1>3, <1>4, CoursesIs DEF AlongColumn
<1>6. PICK hi \in Int, lo \in Int : hi = Rightmost(K) /\ lo = Leftmost(K)
  BY <1>1, <1>5, RightmostOf, LeftmostOf DEF IsEastEnd, IsWestEnd
<1>7. \A i \in 1 .. r, j \in 1 .. c : lo =< K[i][j] /\ K[i][j] =< hi
  BY <1>1, <1>5, <1>6, RightmostOf, LeftmostOf DEF IsEastEnd, IsWestEnd
<1>8. hi - lo < Full
  BY <1>4, <1>6 DEF Sensible
<1>9. NarrowGrid(r, c, K)
  <2> SUFFICES ASSUME NEW i \in 1 .. r, NEW k \in 1 .. r, NEW j \in 1 .. c, NEW l \in 1 .. c
               PROVE  K[i][j] - K[k][l] < Full
    BY DEF NarrowGrid
  <2>1. PICK x \in Int, y \in Int : x = K[i][j] /\ y = K[k][l]
    BY <1>5
  <2>2. x =< hi /\ lo =< y
    BY <1>7, <2>1
  <2>3. x - y < Full
    BY <1>8, <2>2, AreaConstants
  <2> QED
    BY <2>1, <2>3
<1> QED
  BY <1>3, <1>4, <1>9

\* One line is its own course.
LEMMA FirstCourse ==
  ASSUME NEW n \in Nat \ {0}, NEW lines, ClearGrid(1, n, lines)
  PROVE  Courses(lines)[1] = Course(lines[1]) /\ Courses(lines) = << Course(lines[1]) >>
<1>1. PICK K : K = Courses(lines)
  OBVIOUS
<1>2. 1 \in Nat \ {0} /\ 1 \in 1 .. 1 /\ 1 \in 1 .. n
  OBVIOUS
<1>3. AlongColumn(K, 1, n, lines)
  BY <1>1, <1>2, CoursesIs
<1>4. lines[1] \in Longitudes(n) /\ Clear(lines[1])
  BY <1>2 DEF ClearGrid
<1>5. PICK C \in [1 .. n -> Int] : C = Course(lines[1])
  BY <1>4, CourseSteps
<1>6. PICK y \in Int : y = lines[1][1]
  BY <1>2, <1>4, Coordinates
<1>7. K[1] \in [1 .. n -> Int] /\ \A j \in 1 .. n : K[1][j] = C[j] + (y - y)
  BY <1>2, <1>3, <1>5, <1>6 DEF AlongColumn, IsShifted
<1>8. ASSUME NEW j \in 1 .. n PROVE K[1][j] = C[j]
  <2>1. PICK x \in Int : x = C[j]
    BY <1>5
  <2>2. x + (y - y) = x
    OBVIOUS
  <2> QED
    BY <1>7, <2>1, <2>2
<1>9. K[1] = C
  BY <1>7, <1>8
<1>10. K \in [1 .. 1 -> [1 .. n -> Int]]
  BY <1>3 DEF AlongColumn
<1>11. K = << K[1] >>
  BY <1>10
<1> QED
  BY <1>1, <1>5, <1>9, <1>11

\* A footprint that crosses the date line is brought within the bounds as its course.
LEMMA FootprintUnwraps ==
  ASSUME NEW n \in Nat \ {0}, NEW lines, ClearGrid(1, n, lines), NarrowGrid(1, n, Courses(lines))
  PROVE  \E own : UnwrapCoordList(lines[1]) = {own} /\ OwnLine(n, lines[1], own)
<1>1. PICK K : K = Courses(lines)
  OBVIOUS
<1>2. 1 \in Nat \ {0} /\ 1 \in 1 .. 1
  OBVIOUS
<1>3. AlongColumn(K, 1, n, lines) /\ NarrowGrid(1, n, K)
  BY <1>1, <1>2, CoursesIs
<1> QED
  BY <1>2, <1>3, OwnLineIs

LEMMA FootprintInPlace ==
  ASSUME NEW n \in Nat \ {0}, NEW lines, ClearGrid(1, n, lines), NarrowGrid(1, n, Courses(lines)),
         NEW l \in Footprint(lines[1])
  PROVE  InPlace(<< l >>, 1, n, Courses(lines))
<1>1. lines \in [1 .. 1 -> Longitudes(n)] /\ lines = << lines[1] >>
  BY DEF ClearGrid
<1>2. 1 \in Nat \ {0} /\ 1 \in 1 .. 1
  OBVIOUS
<1>3. CASE ~CrossesDateline(lines[1])
  <2>1. l = lines[1]
    BY <1>3 DEF Footprint
  <2>2. ~CrossesDateline(FirstColumn(lines))
    <3>1. FirstColumn(lines) \in Longitudes(1)
      BY <1>1, <1>2, ColumnOf
    <3>2. Len(FirstColumn(lines)) = 1
      BY <1>2, <3>1, Coordinates
    <3> QED
      BY <3>2 DEF CrossesDateline
  <2>3. \A i \in 1 .. 1 : ~CrossesDateline(lines[i])
    BY <1>3
  <2>4. Courses(lines) = lines
    BY <1>2, <2>2, <2>3, CoursesStraight
  <2>5. InPlace(lines, 1, n, lines)
    BY <1>1, <1>2, StraightInPlace
  <2> QED
    BY <1>1, <2>1, <2>4, <2>5
<1>4. CASE CrossesDateline(lines[1])
  <2>1. PICK own : UnwrapCoordList(lines[1]) = {own} /\ OwnLine(n, lines[1], own)
    BY FootprintUnwraps
  <2>2. l = own
    BY <1>4, <2>1 DEF Footprint
  <2>3. l \in [1 .. n -> Int] /\ InBounds(n, l) /\ \E e \in 1 .. n : l[e] =< East
    BY <2>1, <2>2 DEF OwnLine
  <2>4. PICK k \in {0, 1} : IsShifted(l, n, Course(lines[1]), k * Full)
    BY <2>1, <2>2 DEF OwnLine
  <2>5. PICK K : K = Courses(lines)
    OBVIOUS
  <2>6. K \in [1 .. 1 -> [1 .. n -> Int]] /\ K[1] = Course(lines[1])
    BY <1>2, <2>5, CoursesIs, FirstCourse DEF AlongColumn
  <2>7. PICK m : m = << l >>
    OBVIOUS
  <2>8. m \in [1 .. 1 -> [1 .. n -> Int]] /\ m[1] = l
    BY <2>3, <2>7
  <2>9. \A i \in 1 .. 1 : IsShifted(m[i], n, K[i], k * Full)
    BY <2>4, <2>6, <2>8
  <2>10. SamePlace(m, K)
    BY <1>2, <2>6, <2>8, <2>9, SameByTurns
  <2> QED
    BY <1>2, <2>3, <2>5, <2>7, <2>8, <2>10 DEF InPlace
<1> QED
  BY <1>3, <1>4

\* A footprint that ends where it begins is not refused.
LEMMA FootprintKept ==
  ASSUME NEW n \in Nat \ {0}, NEW lines, ClearGrid(1, n, lines), NarrowGrid(1, n, Courses(lines)),
         lines[1][1] % Full = Last(lines[1]) % Full
  PROVE  Footprint(lines[1]) # {}
<1>1. lines[1] \in Longitudes(n) /\ Clear(lines[1])
  BY DEF ClearGrid
<1>2. CASE ~CrossesDateline(lines[1])
  BY <1>2 DEF Footprint
<1>3. CASE CrossesDateline(lines[1])
  <2>1. PICK own : UnwrapCoordList(lines[1]) = {own} /\ OwnLine(n, lines[1], own)
    BY FootprintUnwraps
  <2>2. PICK C \in [1 .. n -> Int] : C = Course(lines[1]) /\ \A i \in 1 .. n : SameLongitude(C[i], lines[1][i])
    BY <1>1, CourseSteps
  <2>3. own \in [1 .. n -> Int]
    BY <2>1 DEF OwnLine
  <2>4. PICK k \in {0, 1} : IsShifted(own, n, C, k * Full)
    BY <2>1, <2>2 DEF OwnLine
  <2>5. ASSUME NEW i \in 1 .. n PROVE own[i] % Full = lines[1][i] % Full
    <3>1. PICK x \in Int, y \in Int, z \in Int : x = own[i] /\ y = C[i] /\ z = lines[1][i]
      BY <1>1, <2>3, Coordinates
    <3>2. x = y + k * Full
      BY <2>4, <3>1 DEF IsShifted
    <3>3. x = y + Full * k /\ k \in Int
      BY <3>2, AreaConstants
    <3>4. SameLongitude(x, y)
      BY <3>3 DEF SameLongitude
    <3>5. SameLongitude(y, z)
      BY <2>2, <3>1
    <3>6. x % Full = z % Full
      BY <3>1, <3>4, <3>5, SameLongitudes
    <3> QED
      BY <3>1, <3>6
  <2>6. Len(own) = n /\ Len(lines[1]) = n /\ 1 \in 1 .. n /\ n \in 1 .. n
    BY <1>1, <2>3, Coordinates
  <2>7. Last(own) = own[n] /\ Last(lines[1]) = lines[1][n]
    BY <2>6 DEF Last
  <2>8. own[1] % Full = Last(own) % Full
    BY <2>5, <2>6, <2>7
  <2>9. own \in Footprint(lines[1])
    BY <1>3, <2>1, <2>8 DEF Footprint
  <2> QED
    BY <2>9
<1> QED
  BY <1>2, <1>3

\* Sensible browses that are taken lie where the report says.
LEMMA PlacedInPlace ==
  ASSUME NEW b, IsBrowse(b), Sensible(b), ~Split(b), NEW l \in PlacedOf(b)
  PROVE  \E r, c \in Nat \ {0} : InPlace(l, r, c, Reference(b))
<1>1. CASE IsExtent(b)
  <2>1. b.geo_type = "rectifiedBrowse" /\ b.lines \in [1 .. 1 -> [1 .. 2 -> West .. East + Full]]
    BY <1>1 DEF IsExtent
  <2>2. l = b.lines /\ Reference(b) = b.lines
    BY <2>1 DEF PlacedOf, Reference
  <2>3. ASSUME NEW i \in 1 .. 1
        PROVE  /\ l[i] \in [1 .. 2 -> Int]
               /\ \A j \in 1 .. 2 : -East =< l[i][j] /\ l[i][j] =< East + Full
    <3>1. l[i] \in [1 .. 2 -> West .. East + Full]
      BY <2>1, <2>2
    <3>2. \A x \in West .. East + Full : x \in Int /\ -East =< x /\ x =< East + Full
      BY AreaConstants
    <3>3. \A j \in 1 .. 2 : l[i][j] \in West .. East + Full
      BY <3>1
    <3>4. \A j \in 1 .. 2 : l[i][j] \in Int /\ -East =< l[i][j] /\ l[i][j] =< East + Full
      BY <3>2, <3>3
    <3> QED
      BY <3>1, <3>4
  <2>4. l \in [1 .. 1 -> [1 .. 2 -> Int]]
    BY <2>1, <2>2, <2>3
  <2>5. \A i \in 1 .. 1 : IsShifted(l[i], 2, l[i], 0 * Full)
    <3>1. 0 * Full = 0
      BY AreaConstants
    <3> SUFFICES ASSUME NEW i \in 1 .. 1 PROVE IsShifted(l[i], 2, l[i], 0)
      BY <3>1
    <3>2. l[i] \in [1 .. 2 -> Int]
      BY <2>3
    <3>3. \A j \in 1 .. 2 : l[i][j] = l[i][j] + 0
      BY <3>2
    <3> QED
      BY <3>2, <3>3 DEF IsShifted
  <2>6. 1 \in Nat \ {0} /\ 2 \in Nat \ {0} /\ 0 \in {0, 1}
    OBVIOUS
  <2>7. SamePlace(l, l)
    BY <2>4, <2>5, <2>6, SameByTurns
  <2>8. Leftmost(l) =< East
    BY <2>1, <2>2 DEF Sensible
  <2>9. \E i \in 1 .. 1, j \in 1 .. 2 : l[i][j] =< East
    <3>1. IsWestEnd(Leftmost(l), 1, 2, l)
      BY <2>4, <2>6, LeftmostOf
    <3>2. PICK i \in 1 .. 1, j \in 1 .. 2 : Leftmost(l) = l[i][j]
      BY <3>1 DEF IsWestEnd
    <3> QED
      BY <2>8, <3>2
  <2>10. InPlace(l, 1, 2, Reference(b))
    BY <2>2, <2>3, <2>4, <2>7, <2>9 DEF InPlace, InBounds
  <2> QED
    BY <2>6, <2>10
<1>2. CASE IsFootprint(b)
  <2>1. b.geo_type = "footprintBrowse"
    BY <1>2 DEF IsFootprint
  <2>2. PICK n \in Nat \ {0} : HasLines(b, 1, n)
    BY <1>2 DEF IsFootprint, HasLines
  <2>3. ClearGrid(1, n, b.lines) /\ NarrowGrid(1, n, Courses(b.lines))
    BY <2>1, <2>2, SensibleLines
  <2>4. PICK x \in Footprint(b.lines[1]) : l = << x >>
    BY <2>1 DEF PlacedOf
  <2>5. InPlace(l, 1, n, Courses(b.lines))
    BY <2>3, <2>4, FootprintInPlace
  <2>6. Reference(b) = Courses(b.lines)
    BY <2>1 DEF Reference
  <2>7. 1 \in Nat \ {0}
    OBVIOUS
  <2> QED
    BY <2>5, <2>6, <2>7
<1>3. CASE IsGrid(b)
  <2>1. b.geo_type = "regularGridBrowse"
    BY <1>3 DEF IsGrid
  <2>2. PICK r \in Nat \ {0}, c \in Nat \ {0} : HasLines(b, r, c)
    BY <1>3 DEF IsGrid, HasLines
  <2>3. ClearGrid(r, c, b.lines) /\ NarrowGrid(r, c, Courses(b.lines))
    BY <2>1, <2>2, SensibleLines
  <2>4. l \in UnwrapGrid(b.lines)
    BY <2>1 DEF PlacedOf, Grid
  <2>5. DOMAIN b.lines = 1 .. r
    BY <2>2 DEF HasLines
  <2>6. ~((\A i \in 1 .. r : ~CrossesDateline(b.lines[i])) /\ CrossesDateline(FirstColumn(b.lines)))
    BY <2>5 DEF Split
  <2>7. InPlace(l, r, c, Courses(b.lines))
    BY <2>3, <2>4, <2>6, GridUnwraps
  <2>8. Reference(b) = Courses(b.lines)
    BY <2>1 DEF Reference
  <2> QED
    BY <2>7, <2>8
<1> QED
  BY <1>1, <1>2, <1>3 DEF IsBrowse

Refusable(b) ==
  IF b.geo_type = "footprintBrowse"
    THEN b.lines[1][1] % Full # Last(b.lines[1]) % Full
    ELSE Misplaced(b) \/ b.rows # Len(b.lines) \/ b.cols # Len(b.lines[1])

\* Sensible browses are refused for a reason.
LEMMA RefusedRightly ==
  ASSUME NEW b, IsBrowse(b), Sensible(b), PlacedOf(b) = {}
  PROVE  Refusable(b)
<1>1. CASE IsExtent(b)
  BY <1>1 DEF IsExtent, PlacedOf
<1>2. CASE IsFootprint(b)
  <2>1. b.geo_type = "footprintBrowse"
    BY <1>2 DEF IsFootprint
  <2>2. PICK n \in Nat \ {0} : HasLines(b, 1, n)
    BY <1>2 DEF IsFootprint, HasLines
  <2>3. ClearGrid(1, n, b.lines) /\ NarrowGrid(1, n, Courses(b.lines))
    BY <2>1, <2>2, SensibleLines
  <2>4. Footprint(b.lines[1]) = {}
    BY <2>1 DEF PlacedOf
  <2> QED
    BY <2>1, <2>3, <2>4, FootprintKept DEF Refusable
<1>3. CASE IsGrid(b)
  <2>1. b.geo_type = "regularGridBrowse"
    BY <1>3 DEF IsGrid
  <2>2. PICK r \in Nat \ {0}, c \in Nat \ {0} : HasLines(b, r, c)
    BY <1>3 DEF IsGrid, HasLines
  <2>3. b.lines \in [1 .. r -> Longitudes(c)] /\ DOMAIN b.lines = 1 .. r
    BY <2>2 DEF HasLines
  <2>4. SUFFICES ASSUME ~Misplaced(b), b.rows = Len(b.lines), b.cols = Len(b.lines[1])
                 PROVE  FALSE
    BY <2>1 DEF Refusable
  <2>5. UnwrapGrid(b.lines) = { b.lines }
    BY <2>4 DEF Misplaced, UnwrapGrid
  <2>6. Len(b.lines) = r /\ Len(b.lines[1]) = c
    <3>1. Len(b.lines) = r
      BY <2>3, LenProperties
    <3>2. 1 \in 1 .. r
      OBVIOUS
    <3>3. b.lines[1] \in Longitudes(c)
      BY <2>3, <3>2
    <3> QED
      BY <3>1, <3>3, Coordinates
  <2>7. Nodes(b.lines) \div Len(b.lines) = c
    BY <2>3, <2>6, NodesOf, AverageOf
  <2>8. b.lines \in Grid(b)
    BY <2>4, <2>5, <2>6, <2>7 DEF Grid
  <2> QED
    BY <2>1, <2>8 DEF PlacedOf
<1> QED
  BY <1>1, <1>2, <1>3 DEF IsBrowse

\* The parts that are seeded lie on the map and are together the extent.
LEMMA PartsCover ==
  ASSUME NEW minx \in Int, NEW maxx \in Int,
         West =< minx, minx =< East, minx =< maxx, maxx =< East + Full
  PROVE  /\ Parts(minx, maxx) # {}
         /\ \A s \in Parts(minx, maxx) : West =< s[1] /\ s[1] =< s[2] /\ s[2] =< East
         /\ UNION { Around(s[1], s[2]) : s \in Parts(minx, maxx) } = Around(minx, maxx)
<1>1. CASE ~(maxx > East)
  <2>1. Parts(minx, maxx) = { << minx, maxx >> }
    BY <1>1 DEF Parts
  <2>2. maxx =< East
    BY <1>1, AreaConstants
  <2> QED
    BY <2>1, <2>2
<1>2. CASE maxx > East
  <2>1. Parts(minx, maxx) = { << minx, East >>, << West, maxx - Full >> }
    BY <1>2 DEF Parts
  <2>2. East \in Int /\ West \in Int /\ maxx - Full \in Int /\ West =< maxx - Full /\ maxx - Full =< East
    BY <1>2, AreaConstants
  <2>3. UNION { Around(s[1], s[2]) : s \in Parts(minx, maxx) } = Around(minx, East) \cup Around(West, maxx - Full)
    BY <2>1
  <2>4. ASSUME NEW y \in Around(minx, maxx)
        PROVE  y \in Around(minx, East) \cup Around(West, maxx - Full)
    <3>1. PICK x \in minx .. maxx : y = x % Full
      BY DEF Around
    <3>2. CASE x =< East
      <4>1. x \in minx .. East
        BY <3>2, AreaConstants
      <4> QED
        BY <3>1, <4>1 DEF Around
    <3>3. CASE ~(x =< East)
      <4>1. x - Full \in West .. maxx - Full
        BY <3>3, AreaConstants
      <4>2. (x - Full) % Full = x % Full
        <5>1. Full \in Nat \ {0}
          BY AreaConstants
        <5>2. x \in Int
          OBVIOUS
        <5> QED
          BY <5>1, <5>2, TurnedRemainder
      <4> QED
        BY <3>1, <4>1, <4>2 DEF Around
    <3> QED
      BY <3>2, <3>3
  <2>5. ASSUME NEW y \in Around(minx, East) PROVE y \in Around(minx, maxx)
    <3>1. PICK x \in minx .. East : y = x % Full
      BY DEF Around
    <3>2. x \in minx .. maxx
      BY <1>2, AreaConstants
    <3> QED
      BY <3>1, <3>2 DEF Around
  <2>6. ASSUME NEW y \in Around(West, maxx - Full) PROVE y \in Around(minx, maxx)
    <3>1. PICK x \in West .. maxx - Full : y = x % Full
      BY DEF Around
    <3>2. x \in Int
      BY <2>2
    <3>3. x + Full \in minx .. maxx
      BY <3>2, AreaConstants
    <3>4. (x + Full) % Full = x % Full
      <4>1. Full \in Nat \ {0}
        BY AreaConstants
      <4> QED
        BY <3>2, <4>1, TurnedRemainder
    <3> QED
      BY <3>1, <3>3, <3>4 DEF Around
  <2>7. Around(minx, East) \cup Around(West, maxx - Full) = Around(minx, maxx)
    BY <2>4, <2>5, <2>6
  <2> QED
    BY <2>1, <2>2, <2>3, <2>7
<1> QED
  BY <1>1, <1>2

SeedsOf(l) ==
  LET minx == Leftmost(l)
      maxx == Rightmost(l)
  IN IF minx < West \/ minx > East \/ maxx < West \/ maxx > East + Full
       THEN {} ELSE Parts(minx, maxx)

\* What lies in its place is seeded just there.
LEMMA SeededThere ==
  ASSUME NEW r \in Nat \ {0}, NEW c \in Nat \ {0}, NEW l, NEW reference, InPlace(l, r, c, reference)
  PROVE  /\ SeedsOf(l) # {}
         /\ \A s \in SeedsOf(l) : West =< s[1] /\ s[1] =< s[2] /\ s[2] =< East
         /\ UNION { Around(s[1], s[2]) : s \in SeedsOf(l) } = Around(Leftmost(l), Rightmost(l))
<1>1. l \in [1 .. r -> [1 .. c -> Int]]
  BY DEF InPlace
<1>2. PICK lo \in Int, hi \in Int : lo = Leftmost(l) /\ hi = Rightmost(l)
  BY <1>1, RightmostOf, LeftmostOf DEF IsEastEnd, IsWestEnd
<1>3. IsEastEnd(hi, r, c, l) /\ IsWestEnd(lo, r, c, l)
  BY <1>1, <1>2, RightmostOf, LeftmostOf
<1>4. \A i \in 1 .. r, j \in 1 .. c : l[i][j] \in Int /\ -East =< l[i][j] /\ l[i][j] =< East + Full
  BY <1>1 DEF InPlace, InBounds
<1>5. -East =< lo /\ hi =< East + Full
  BY <1>3, <1>4 DEF IsEastEnd, IsWestEnd
<1>6. lo =< hi
  <2>1. PICK i \in 1 .. r, j \in 1 .. c : lo = l[i][j]
    BY <1>3 DEF IsWestEnd
  <2> QED
    BY <1>3, <2>1 DEF IsEastEnd
<1>7. lo =< East
  <2>1. PICK i \in 1 .. r, j \in 1 .. c : l[i][j] =< East
    BY DEF InPlace
  <2>2. PICK x \in Int : x = l[i][j] /\ lo =< x /\ x =< East
    BY <1>3, <1>4, <2>1 DEF IsWestEnd
  <2> QED
    BY <2>2, AreaConstants
<1>8. West =< lo
  BY <1>5, AreaConstants
<1>9. ~(lo < West \/ lo > East \/ hi < West \/ hi > East + Full)
  BY <1>5, <1>6, <1>7, <1>8, AreaConstants
<1>10. SeedsOf(l) = Parts(lo, hi)
  BY <1>2, <1>9 DEF SeedsOf
<1> QED
  BY <1>2, <1>5, <1>6, <1>7, <1>8, <1>10, PartsCover

\* At most one place is found.
LEMMA OnePlaced ==
  ASSUME NEW b, IsBrowse(b), NEW l \in PlacedOf(b), NEW m \in PlacedOf(b)
  PROVE  l = m
<1>1. \A path : \A x, y \in UnwrapCoordList(path) : x = y
  BY DEF UnwrapCoordList
<1>2. \A lines : \A x, y \in Join(lines) : x = y
  BY DEF Join
<1>3. CASE b.geo_type = "rectifiedBrowse"
  BY <1>3 DEF PlacedOf
<1>4. CASE b.geo_type = "footprintBrowse"
  <2>1. PICK x \in Footprint(b.lines[1]), y \in Footprint(b.lines[1]) : l = << x >> /\ m = << y >>
    BY <1>4 DEF PlacedOf
  <2>2. x = y
    BY <1>1 DEF Footprint
  <2> QED
    BY <2>1, <2>2
<1>5. CASE b.geo_type = "regularGridBrowse"
  <2>1. l \in UnwrapGrid(b.lines) /\ m \in UnwrapGrid(b.lines)
    BY <1>5 DEF PlacedOf, Grid
  <2> QED
    BY <1>2, <2>1 DEF UnwrapGrid
<1> QED
  BY <1>3, <1>4, <1>5 DEF IsBrowse, IsExtent, IsFootprint, IsGrid

\* What ShortenedInside says of a time that was shortened.
Inside(s, t0, t1) ==
  /\ t0 =< t1 /\ t0 % Second = 0 /\ t1 % Second = 0
  /\ 2 * t0 >= 2 * s.start - Second /\ 2 * t1 =< 2 * s.end + Second
  /\ AbsOf((t0 + t1) - (s.start + s.end)) =< Second

LEMMA DeltaOf ==
  ASSUME NEW d \in Nat, NEW p \in {25, 50, 100}
  PROVE  /\ (d * p) \div 200 \in Nat /\ 2 * ((d * p) \div 200) =< d
         /\ p = 100 => 2 * ((d * p) \div 200) >= d - 1
<1>1. CASE p = 25
  BY <1>1
<1>2. CASE p = 50
  BY <1>2
<1>3. CASE p = 100
  BY <1>3
<1> QED
  BY <1>1, <1>2, <1>3

Near(x, t, second) == 2 * x >= 2 * t - second + 1 /\ 2 * x =< 2 * t + second

LEMMA InsideOf ==
  ASSUME NEW a \in Nat, NEW b \in Nat, NEW second \in Nat \ {0}, NEW x \in Int, NEW y \in Int,
         NEW e \in Nat, 2 * e =< b - a,
         x =< y, Near(x, a + e, second),
         Near(y, b - e, second) \/ (y = x /\ 2 * e >= b - a - 1)
  PROVE  /\ 2 * x >= 2 * a - second /\ 2 * y =< 2 * b + second
         /\ AbsOf((x + y) - (a + b)) =< second
BY DEF AbsOf, Near

LEMMA ShortenedIs ==
  ASSUME NEW s, s \in [start : Nat, end : Nat, percent : {0, 25, 50, 100}], s.start =< s.end,
         s.percent # 0, NEW delta, delta = ((s.end - s.start) * s.percent) \div 200,
         NEW t0, t0 = RoundToSecond(s.start + delta),
         NEW t1, t1 = IF s.percent = 100 THEN t0 ELSE RoundToSecond(s.end - delta)
  PROVE  Inside(s, t0, t1)
<1>1. PICK a \in Nat, b \in Nat, p \in {25, 50, 100} : a = s.start /\ b = s.end /\ p = s.percent
  <2>1. s.start \in Nat /\ s.end \in Nat /\ s.percent \in {25, 50, 100}
    OBVIOUS
  <2> QED
    BY <2>1
<1>2. PICK e \in Nat : e = delta /\ 2 * e =< b - a /\ (p = 100 => 2 * e >= b - a - 1)
  <2>1. PICK d \in Nat : d = b - a
    BY <1>1
  <2>2. delta = (d * p) \div 200
    BY <1>1, <2>1
  <2>3. /\ (d * p) \div 200 \in Nat /\ 2 * ((d * p) \div 200) =< d
        /\ p = 100 => 2 * ((d * p) \div 200) >= d - 1
    BY DeltaOf
  <2>4. PICK e \in Nat : e = (d * p) \div 200
    BY <2>3
  <2>5. 2 * e =< d /\ (p = 100 => 2 * e >= d - 1)
    BY <2>3, <2>4
  <2> QED
    BY <2>1, <2>2, <2>4, <2>5
<1>3. PICK second \in Nat \ {0} : second = Second
  BY BrowseAreaAssumption
<1>4. a + e \in Nat /\ b - e \in Nat /\ a + e =< b - e
  BY <1>2
<1>5. PICK x \in Nat : x = RoundToSecond(a + e)
  BY <1>4, Rounded
<1>6. x % Second = 0 /\ 2 * x =< 2 * (a + e) + second /\ 2 * x >= 2 * (a + e) - second + 1
  BY <1>3, <1>4, <1>5, Rounded
<1>10. x \in Int /\ Near(x, a + e, second)
  BY <1>3, <1>4, <1>6 DEF Near
<1>7. t0 = x
  BY <1>1, <1>2, <1>5
<1>8. CASE p = 100
  <2>1. t1 = x
    BY <1>1, <1>7, <1>8
  <2>2. 2 * e >= b - a - 1
    BY <1>2, <1>8
  <2>3. 2 * e =< b - a
    BY <1>2
  <2>4. x =< x
    OBVIOUS
  <2>5. 2 * x >= 2 * a - second /\ 2 * x =< 2 * b + second /\ AbsOf((x + x) - (a + b)) =< second
    BY <1>10, <2>2, <2>3, <2>4, InsideOf
  <2> QED
    BY <1>1, <1>3, <1>6, <1>7, <2>1, <2>4, <2>5 DEF Inside
<1>9. CASE p # 100
  <2>1. PICK y \in Nat : y = RoundToSecond(b - e)
    BY <1>4, Rounded
  <2>2. y % Second = 0 /\ 2 * y =< 2 * (b - e) + second /\ 2 * y >= 2 * (b - e) - second + 1
    BY <1>3, <1>4, <2>1, Rounded
  <2>3. x =< y
    BY <1>4, <1>5, <2>1, RoundedMonotone
  <2>4. t1 = y
    BY <1>1, <1>2, <1>9, <2>1
  <2>5. 2 * e =< b - a
    BY <1>2
  <2>6. 2 * x >= 2 * a - second /\ 2 * y =< 2 * b + second /\ AbsOf((x + y) - (a + b)) =< second
    <3>1. y \in Int /\ Near(y, b - e, second)
      BY <2>2 DEF Near
    <3> QED
      BY <1>10, <2>3, <2>5, <3>1, InsideOf
  <2> QED
    BY <1>1, <1>3, <1>6, <1>7, <2>2, <2>3, <2>4, <2>6 DEF Inside
<1> QED
  BY <1>8, <1>9

-----------------------------------------------------------------------------
(* Place: the invariant                                                    *)

\* Until a browse is seeded, what was decided of it follows from what the report says.
AreaInv ==
  /\ IsBrowse(browse)
  /\ slice \in [start : Nat, end : Nat, percent : {0, 25, 50, 100}] /\ slice.start =< slice.end
  /\ areastep \in {"given", "placed", "timed", "seeded"}
  /\ areastep # "given" => placed = PlacedOf(browse)
  /\ areastep = "timed" => placed # {} /\ (slice.percent # 0 => Inside(slice, start_time, end_time))
  /\ areastep = "seeded" => seeds = SeedsOf(CHOOSE l \in placed : TRUE)

LEMMA AreaInitInv == AreaInit => AreaInv
<1> SUFFICES ASSUME AreaInit PROVE AreaInv
  OBVIOUS
<1>1. \A s \in GivenSlice : /\ s \in [start : Nat, end : Nat, percent : {0, 25, 50, 100}]
                            /\ s.start =< s.end
  BY BrowseAreaAssumption DEF GivenSlice
<1>2. At(0) \in [start : Nat, end : Nat, percent : {0, 25, 50, 100}] /\ At(0).start =< At(0).end
  BY DEF At
<1>3. /\ slice \in [start : Nat, end : Nat, percent : {0, 25, 50, 100}]
      /\ slice.start =< slice.end
  BY <1>1, <1>2 DEF AreaInit
<1>4. areastep = "given"
  BY DEF AreaInit
<1>5. IsBrowse(browse)
  <2>1. CASE browse \in GivenExtent
    BY <2>1 DEF GivenExtent, IsExtent, IsBrowse
  <2>2. CASE \E n \in 3 .. MaxNodes : browse \in GivenFootprint(n)
    <3>1. PICK n \in 3 .. MaxNodes : browse \in GivenFootprint(n)
      BY <2>2
    <3>2. n \in Nat \ {0} /\ 1 \in Nat \ {0} /\ n \in Nat
      BY BrowseAreaAssumption
    <3>3. /\ browse.geo_type = "footprintBrowse"
          /\ browse.lines \in [1 .. 1 -> [1 .. n -> West .. East]]
      BY <3>1 DEF GivenFootprint
    <3>4. HasLines(browse, 1, n)
      BY <3>2, <3>3 DEF HasLines, Longitudes
    <3> QED
      BY <3>2, <3>3, <3>4 DEF IsFootprint, IsBrowse
  <2>3. CASE \E r, c \in 2 .. 3 : browse \in GivenGrid(r, c)
    <3>1. PICK r \in 2 .. 3, c \in 2 .. 3 : browse \in GivenGrid(r, c)
      BY <2>3
    <3>2. r \in Nat \ {0} /\ c \in Nat \ {0} /\ r \in Nat /\ c \in Nat
      OBVIOUS
    <3>3. /\ browse.geo_type = "regularGridBrowse"
          /\ browse.lines \in [1 .. r -> [1 .. c -> West .. East]]
      BY <3>1 DEF GivenGrid
    <3>4. HasLines(browse, r, c)
      BY <3>2, <3>3 DEF HasLines, Longitudes
    <3> QED
      BY <3>2, <3>3, <3>4 DEF IsGrid, IsBrowse
  <2> QED
    BY <2>1, <2>2, <2>3 DEF AreaInit
<1> QED
  BY <1>3, <1>4, <1>5 DEF AreaInv

LEMMA AreaNextInv == AreaInv /\ [AreaNext]_areavars => AreaInv'
<1> SUFFICES ASSUME AreaInv, [AreaNext]_areavars PROVE AreaInv'
  OBVIOUS
<1> USE DEF AreaInv
<1>1. CASE Place
  <2>1. placed' = PlacedOf(browse)
    BY <1>1 DEF Place, PlacedOf
  <2>2. UNCHANGED <<browse, slice>> /\ areastep' = "placed"
    BY <1>1 DEF Place
  <2> QED
    BY <2>1, <2>2 DEF IsBrowse, IsExtent, IsFootprint, IsGrid, HasLines, PlacedOf
<1>2. CASE Shorten
  <2>1. /\ areastep = "placed" /\ placed # {} /\ areastep' = "timed"
        /\ UNCHANGED <<browse, placed, seeds, slice>>
    BY <1>2 DEF Shorten
  <2>2. slice.percent # 0 => Inside(slice, start_time', end_time')
    <3>1. PICK delta : delta = ((slice.end - slice.start) * slice.percent) \div 200
      OBVIOUS
    <3> SUFFICES ASSUME slice.percent # 0 PROVE Inside(slice, start_time', end_time')
      OBVIOUS
    <3>2. /\ start_time' = RoundToSecond(slice.start + delta)
          /\ end_time' = IF slice.percent = 100 THEN start_time' ELSE RoundToSecond(slice.end - delta)
      BY <1>2, <3>1 DEF Shorten
    <3> QED
      BY <3>1, <3>2, ShortenedIs
  <2> QED
    BY <2>1, <2>2
<1>3. CASE SeedParts
  <2>1. /\ areastep = "timed" /\ areastep' = "seeded"
        /\ UNCHANGED <<browse, placed, slice, start_time, end_time>>
    BY <1>3 DEF SeedParts
  <2>2. seeds' = SeedsOf(CHOOSE l \in placed : TRUE)
    BY <1>3 DEF SeedParts, SeedsOf
  <2> QED
    BY <2>1, <2>2
<1>4. CASE AreaDone
  BY <1>4 DEF AreaDone, areavars
<1>5. CASE UNCHANGED areavars
  BY <1>5 DEF areavars
<1> QED
  BY <1>1, <1>2, <1>3, <1>4, <1>5 DEF AreaNext

LEMMA AreaInvPlaced == AreaInv => BrowsePlaced
<1> SUFFICES ASSUME AreaInv PROVE BrowsePlaced
  OBVIOUS
<1>1. ShortenedInside
  BY DEF AreaInv, ShortenedInside, Inside
<1>2. ASSUME areastep = "placed", placed = {}, Sensible(browse) PROVE Refusable(browse)
  <2>1. IsBrowse(browse) /\ PlacedOf(browse) = {}
    BY <1>2 DEF AreaInv
  <2> QED
    BY <1>2, <2>1, RefusedRightly
<1>3. ASSUME areastep = "seeded", Sensible(browse), ~Split(browse), NEW l \in placed
      PROVE  /\ SamePlace(l, Reference(browse))
             /\ seeds # {}
             /\ \A s \in seeds : West =< s[1] /\ s[1] =< s[2] /\ s[2] =< East
             /\ UNION { Around(s[1], s[2]) : s \in seeds } = Around(Leftmost(l), Rightmost(l))
  <2>1. IsBrowse(browse) /\ placed = PlacedOf(browse) /\ seeds = SeedsOf(CHOOSE x \in placed : TRUE)
    BY <1>3 DEF AreaInv
  <2>2. (CHOOSE x \in placed : TRUE) = l
    BY <1>3, <2>1, OnePlaced
  <2>3. PICK r \in Nat \ {0}, c \in Nat \ {0} : InPlace(l, r, c, Reference(browse))
    BY <1>3, <2>1, PlacedInPlace
  <2>4. seeds = SeedsOf(l)
    BY <2>1, <2>2
  <2> QED
    BY <2>3, <2>4, SeededThere DEF InPlace
<1>4. AreaSeeded
  BY <1>2, <1>3 DEF AreaSeeded, Refusable
<1> QED
  BY <1>1, <1>4 DEF BrowsePlaced

(***************************************************************************)
(* For any half of the globe and any number of coordinates: a browse that  *)
(* is sensible, and no grid that only splits between two lines, keeps its  *)
(* shape, is within the bounds of the seeder and is seeded just where it   *)
(* is; it is refused for a reason only; and a time that was shortened is   *)
(* one of whole seconds around the middle of the time given.               *)
(***************************************************************************)
THEOREM PlacedWhereTold == AreaSpec => []BrowsePlaced
<1>1. AreaInit => AreaInv
  BY AreaInitInv
<1>2. AreaInv /\ [AreaNext]_areavars => AreaInv'
  BY AreaNextInv
<1>3. AreaInv => BrowsePlaced
  BY AreaInvPlaced
<1> QED
  BY <1>1, <1>2, <1>3, PTL DEF AreaSpec
================================================================================
