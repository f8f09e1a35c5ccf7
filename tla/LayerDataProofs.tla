---------------------------- MODULE LayerDataProofs ----------------------------
(***************************************************************************)
(* For every period, map width, catalog, set of processes and command:     *)
(*                                                                         *)
(* The time index (TimeIndex, which LayerData extends): its type invariant *)
(*   and, for layers without instants on the border of intervals, that the *)
(*   two databases stay consistent through ingestions, replacements and    *)
(*   deletions; and that writing it anew (TimeRebuild) changes nothing.    *)
(* The layer (LayerData): its images belong to its rows, its tiles show    *)
(*   what is registered and are there for every entry of the time index,   *)
(*   and its packages are what their reports say.                          *)
(*                                                                         *)
(* The argument about the layer is made for what the databases are going   *)
(* to hold, Target, instead of what is committed: one transaction at a     *)
(* time writes, and files and tiles are changed on its behalf.  Invariant  *)
(* is a conjunction of eight parts:                                        *)
(*   Basic         types, which steps a command has, who writes            *)
(*   Rows          an identifier and a file name belong to one row; what a *)
(*                 deletion has listed is what it finds, unless that is    *)
(*                 among the exceptions                                    *)
(*   NothingWrong  no row refers to another's image, in no package either  *)
(*   ImagesInv     no image is missing, and what is left over is going to  *)
(*                 be deleted by exactly one process                       *)
(*   IndexInv      the time index of Target is sound                       *)
(*   FreshInv      tiles show what Target has in their time span           *)
(*   WindowInv,    what a deletion leaves is not in its window, and an     *)
(*   TilesInv      entry without tiles is on some process's list           *)
(* Only the ones about tiles need the hypothesis about border instants,    *)
(* and only through IndexInv.                                              *)
(***************************************************************************)
EXTENDS LayerData, TimeRebuild, TimeSpansLemmas, SequenceTheorems, FunctionTheorems

\* What create_browse and remove_browse find and leave behind.
Sound(T, B) ==
  /\ T \subseteq Span
  /\ B \subseteq Catalog
  /\ Disjoint(T)
  /\ Covers(T, B)
  /\ Exact(T, B)

IInv == TypeOK /\ Sound(times, browses)

LEMMA CatalogTyping ==
  ASSUME NEW b \in Catalog
  PROVE  b.area \in Span /\ b \in Browse
BY CatalogAssumption DEF Browse

LEMMA AreasTyping ==
  ASSUME NEW B \in SUBSET Catalog
  PROVE  /\ Areas(B) \in SUBSET Span
         /\ \A t : Inside(B, t) \in SUBSET Span /\ Inside(B, t) \subseteq Areas(B)
BY CatalogTyping DEF Areas, Inside

-----------------------------------------------------------------------------
(* The borders of a Time entry *)

(***************************************************************************)
(* An entry with a duration starts and ends where an interval browse does. *)
(***************************************************************************)
LEMMA IntervalEdges ==
  ASSUME NEW T, NEW B, Sound(T, B), NEW t \in T, ~IsInstant(t)
  PROVE  /\ \E a \in Areas(B) : ~IsInstant(a) /\ a.start = t.start
         /\ \E a \in Areas(B) : ~IsInstant(a) /\ a.end = t.end
<1> DEFINE I == Inside(B, t)
<1>1. /\ t \in Span /\ I \in SUBSET Span /\ I \subseteq Areas(B) /\ IsHull(t, I)
      /\ \A a, c \in I : Connected(a, c, I)
  BY AreasTyping DEF Sound, Exact
<1>2. PICK a \in I : a.start = t.start
  BY <1>1 DEF IsHull
<1>3. PICK e \in I : e.end = t.end
  BY <1>1 DEF IsHull
<1>4. t.start < t.end /\ t.start \in Seconds /\ t.end - 1 \in Seconds
  BY <1>1, SpanTyping, BoundsAssumption DEF IsInstant, Seconds
<1> HIDE DEF I
<1>5. \E d \in I : ~IsInstant(d) /\ d.start = t.start
  <2>1. CASE ~IsInstant(a)
    BY <2>1, <1>2
  <2>2. CASE IsInstant(a) /\ e.start = t.start
    BY <2>2, <1>3, <1>4 DEF IsInstant
  <2>3. CASE IsInstant(a) /\ e.start # t.start
    <3>1. a.end =< t.start /\ t.start < e.start
      BY <2>3, <1>1, <1>2, SpanTyping DEF IsInstant, IsHull
    <3>2. PICK d \in I : d.start =< t.start /\ t.start < d.end
      BY <3>1, <1>1, <1>4 DEF Connected, Bridged
    <3>3. d.start = t.start
      BY <3>2, <1>1, SpanTyping DEF IsHull
    <3> QED
      BY <3>2, <3>3, <1>1, SpanTyping DEF IsInstant
  <2> QED
    BY <2>1, <2>2, <2>3
<1>6. \E d \in I : ~IsInstant(d) /\ d.end = t.end
  <2>1. CASE ~IsInstant(e)
    BY <2>1, <1>3
  <2>2. CASE IsInstant(e) /\ a.end = t.end
    BY <2>2, <1>2, <1>4 DEF IsInstant
  <2>3. CASE IsInstant(e) /\ a.end # t.end
    <3>1. a.end =< t.end - 1 /\ t.end - 1 < e.start
      BY <2>3, <1>1, <1>3, SpanTyping DEF IsInstant, IsHull
    <3>2. PICK d \in I : d.start =< t.end - 1 /\ t.end - 1 < d.end
      BY <3>1, <1>1, <1>4 DEF Connected, Bridged
    <3>3. d.end = t.end
      BY <3>2, <1>1, SpanTyping DEF IsHull
    <3> QED
      BY <3>2, <3>3, <1>1, SpanTyping DEF IsInstant
  <2> QED
    BY <2>1, <2>2, <2>3
<1> QED
  BY <1>1, <1>5, <1>6

\* An entry without a duration is the moment of an instant browse.
LEMMA InstantEdge ==
  ASSUME NEW T, NEW B, Sound(T, B), NEW t \in T, IsInstant(t)
  PROVE  \E a \in Areas(B) : IsInstant(a) /\ a.start = t.start
<1>1. /\ t \in Span /\ Inside(B, t) \in SUBSET Span
      /\ Inside(B, t) \subseteq Areas(B) /\ IsHull(t, Inside(B, t))
  BY AreasTyping DEF Sound, Exact
<1>2. PICK a \in Inside(B, t) : a.start = t.start
  BY <1>1 DEF IsHull
<1>3. a.end =< t.end
  BY <1>1, <1>2 DEF IsHull
<1> QED
  BY <1>1, <1>2, <1>3, SpanTyping DEF IsInstant

(***************************************************************************)
(* With no instants on borders in the catalog there are none on the        *)
(* borders of the entries either.                                          *)
(***************************************************************************)
LEMMA NoInstantOnEdge ==
  ASSUME NoBorderInstants, NEW T, NEW B, Sound(T, B),
         NEW t \in T, NEW a \in Areas(Catalog)
  PROVE  /\ IsInstant(a) /\ ~IsInstant(t) => a.start # t.start /\ a.start # t.end
         /\ ~IsInstant(a) /\ IsInstant(t) => t.start # a.start /\ t.start # a.end
<1>1. Areas(B) \subseteq Areas(Catalog)
  BY DEF Sound, Areas
<1>2. \A x, y \in Areas(Catalog) : IsInstant(x) /\ ~IsInstant(y)
                                     => x.start # y.start /\ x.start # y.end
  BY DEF NoBorderInstants, Areas
<1>3. CASE IsInstant(a) /\ ~IsInstant(t)
  <2>1. PICK c \in Areas(B) : ~IsInstant(c) /\ c.start = t.start
    BY <1>3, IntervalEdges
  <2>2. PICK d \in Areas(B) : ~IsInstant(d) /\ d.end = t.end
    BY <1>3, IntervalEdges
  <2>3. c \in Areas(Catalog) /\ d \in Areas(Catalog)
    BY <1>1
  <2> QED
    BY <1>2, <1>3, <2>1, <2>2, <2>3
<1>4. CASE ~IsInstant(a) /\ IsInstant(t)
  <2>1. PICK c \in Areas(B) : IsInstant(c) /\ c.start = t.start
    BY <1>4, InstantEdge
  <2>2. c \in Areas(Catalog)
    BY <1>1
  <2> QED
    BY <1>2, <1>4, <2>1, <2>2
<1> QED
  BY <1>3, <1>4

(***************************************************************************)
(* The entry a browse is inside of is the only one that overlaps it.       *)
(***************************************************************************)
LEMMA OneEntry ==
  ASSUME NoBorderInstants, NEW T, NEW B, Sound(T, B),
         NEW t \in T, NEW a \in Areas(Catalog), Within(a, t)
  PROVE  Overlapping(T, a) = {t}
<1>1. t \in Span /\ a \in Span
  BY AreasTyping DEF Sound
<1>2. Overlaps(t, a)
  BY <1>1, SpanTyping DEF Within, Overlaps, StrictlyOverlaps, Meets, IsInstant
<1>3. ASSUME NEW u \in T, u # t, Overlaps(u, a) PROVE FALSE
  <2>1. u \in Span /\ ~Overlaps(u, t)
    BY <1>3 DEF Sound, Disjoint
  <2>2. ~StrictlyOverlaps(u, a)
    BY <1>1, <2>1, SpanTyping DEF Within, Overlaps, StrictlyOverlaps
  <2>3. Meets(u, a) /\ Meets(u, t)
    BY <1>1, <1>3, <2>1, <2>2, SpanTyping DEF Within, Overlaps, Meets
  <2>4. ~IsInstant(u) /\ ~IsInstant(t) /\ IsInstant(a)
    BY <1>3, <2>1, <2>2, <2>3 DEF Overlaps
  <2>5. a.start # u.start /\ a.start # u.end
    BY <2>4, NoInstantOnEdge
  <2> QED
    BY <1>1, <2>1, <2>2, <2>3, <2>4, <2>5, SpanTyping DEF StrictlyOverlaps, Meets, IsInstant
<1> QED
  BY <1>2, <1>3 DEF Overlapping

-----------------------------------------------------------------------------
(* create_browse *)

(***************************************************************************)
(* Merging everything that overlaps a once is enough: the merged entry     *)
(* overlaps none of the rest.  This needs nothing about borders.           *)
(***************************************************************************)
LEMMA HullOverlapsNoOther ==
  ASSUME NEW T \in SUBSET Span, Disjoint(T), NEW a \in Span,
         NEW u \in T, ~Overlaps(u, a)
  PROVE  ~Overlaps(u, Hull(Overlapping(T, a) \cup {a}))
<1> DEFINE M == Overlapping(T, a)
           P == M \cup {a}
           h == Hull(P)
<1>1. /\ M \in SUBSET Span /\ P \in SUBSET Span /\ h \in Span /\ IsHull(h, P) /\ u \in Span
      /\ \A m \in M : m \in T /\ Overlaps(m, a)
  BY HullIsHull DEF Overlapping
<1>2. \A p \in P : p \in Span /\ ~Overlaps(u, p)
  BY <1>1 DEF Disjoint
<1>3. \A p \in P : Meets(p, a)
  BY <1>1, SpanTyping DEF Overlaps, StrictlyOverlaps, Meets
<1> HIDE DEF M, P, h
<1>4. PICK s \in P : s.start = h.start /\ s.end =< h.end
  BY <1>1 DEF IsHull
<1>5. PICK e \in P : e.end = h.end /\ h.start =< e.start
  BY <1>1 DEF IsHull
<1>6. SUFFICES ASSUME Overlaps(u, h) PROVE FALSE
  BY DEF P, h, M
<1>7. Meets(u, h)
  BY <1>1, <1>6, SpanTyping DEF Overlaps, StrictlyOverlaps, Meets
<1>8. CASE u.end < a.start
  <2>1. s.start =< a.start /\ Meets(s, a) /\ ~Overlaps(u, s)
    BY <1>1, <1>2, <1>3, <1>4 DEF IsHull, P
  <2> QED
    BY <1>1, <1>2, <1>4, <1>6, <1>7, <1>8, <2>1, SpanTyping
       DEF Overlaps, StrictlyOverlaps, Meets, IsInstant
<1>9. CASE u.start > a.end
  <2>1. e.end >= a.end /\ Meets(e, a) /\ ~Overlaps(u, e)
    BY <1>1, <1>2, <1>3, <1>5 DEF IsHull, P
  <2> QED
    BY <1>1, <1>2, <1>5, <1>6, <1>7, <1>9, <2>1, SpanTyping
       DEF Overlaps, StrictlyOverlaps, Meets, IsInstant
<1>10. CASE ~(u.end < a.start) /\ ~(u.start > a.end)
  <2>1. ~IsInstant(u) /\ ~IsInstant(a) /\ (u.end = a.start \/ u.start = a.end)
    BY <1>1, <1>10, SpanTyping DEF Overlaps, StrictlyOverlaps, Meets, IsInstant
  <2>2. CASE u.end = a.start
    <3>1. Meets(s, a) /\ ~Overlaps(u, s)
      BY <1>2, <1>3
    <3> QED
      BY <1>1, <1>2, <1>4, <1>5, <1>6, <1>7, <2>1, <2>2, <3>1, SpanTyping
         DEF Overlaps, StrictlyOverlaps, Meets, IsInstant, IsHull, P
  <2>3. CASE u.start = a.end
    <3>1. Meets(e, a) /\ ~Overlaps(u, e)
      BY <1>2, <1>3
    <3> QED
      BY <1>1, <1>2, <1>4, <1>5, <1>6, <1>7, <2>1, <2>3, <3>1, SpanTyping
         DEF Overlaps, StrictlyOverlaps, Meets, IsInstant, IsHull, P
  <2> QED
    BY <2>1, <2>2, <2>3
<1> QED
  BY <1>1, <1>8, <1>9, <1>10, SpanTyping

LEMMA CreateTyping ==
  ASSUME NEW T \in SUBSET Span, NEW b \in Catalog
  PROVE  TimesAfterCreate(T, b) \in SUBSET Span
<1>1. Overlapping(T, b.area) \cup {b.area} \in SUBSET Span
  BY CatalogTyping DEF Overlapping
<1> QED
  BY <1>1, HullIsHull DEF TimesAfterCreate

LEMMA CreateDisjoint ==
  ASSUME NEW T \in SUBSET Span, Disjoint(T), NEW b \in Catalog
  PROVE  Disjoint(TimesAfterCreate(T, b))
<1> DEFINE M == Overlapping(T, b.area)
           h == Hull(M \cup {b.area})
<1>1. b.area \in Span
  BY CatalogTyping
<1>2. ASSUME NEW u \in T \ M PROVE ~Overlaps(u, h) /\ ~Overlaps(h, u)
  <2>1. ~Overlaps(u, b.area)
    BY <1>2 DEF Overlapping
  <2>2. ~Overlaps(u, h)
    BY <1>1, <2>1, HullOverlapsNoOther
  <2>3. h \in Span /\ u \in Span
    <3>1. M \cup {b.area} \in SUBSET Span
      BY <1>1 DEF Overlapping
    <3> QED
      BY <3>1, HullIsHull
  <2> HIDE DEF h
  <2> QED
    BY <2>2, <2>3, SpanTyping DEF Overlaps, StrictlyOverlaps, Meets
<1>3. TimesAfterCreate(T, b) = (T \ M) \cup {h}
  BY DEF TimesAfterCreate
<1> HIDE DEF h, M
<1> QED
  BY <1>2, <1>3 DEF Disjoint

LEMMA WithinTransitive ==
  ASSUME NEW a \in Span, NEW t \in Span, NEW h \in Span, Within(a, t), Within(t, h)
  PROVE  Within(a, h)
BY SpanTyping DEF Within

LEMMA CreateCovers ==
  ASSUME NEW T \in SUBSET Span, NEW B \in SUBSET Catalog, Covers(T, B), NEW b \in Catalog
  PROVE  Covers(TimesAfterCreate(T, b), B \cup {b})
<1> DEFINE M == Overlapping(T, b.area)
           P == M \cup {b.area}
           h == Hull(P)
<1>1. P \in SUBSET Span /\ h \in Span /\ \A p \in P : Within(p, h)
  <2>1. P \in SUBSET Span
    BY CatalogTyping DEF Overlapping
  <2> QED
    BY <2>1, HullIsHull, HullContains
<1>2. TimesAfterCreate(T, b) = (T \ M) \cup {h}
  BY DEF TimesAfterCreate
<1>3. ASSUME NEW c \in B PROVE \E t \in (T \ M) \cup {h} : Within(c.area, t)
  <2>1. PICK t \in T : Within(c.area, t)
    BY DEF Covers
  <2>2. CASE t \in M
    <3>1. Within(t, h) /\ t \in Span /\ c.area \in Span
      BY <1>1, <2>2, CatalogTyping
    <3> HIDE DEF h
    <3> QED
      BY <1>1, <2>1, <3>1, WithinTransitive
  <2> QED
    BY <2>1, <2>2
<1>4. Within(b.area, h)
  BY <1>1
<1> QED
  BY <1>2, <1>3, <1>4 DEF Covers

(***************************************************************************)
(* Every second inside an exact entry is crossed by one of its browses.    *)
(***************************************************************************)
LEMMA ExactIsCrossed ==
  ASSUME NEW t \in Span, NEW I \in SUBSET Span, IsHull(t, I),
         \A a, c \in I : Connected(a, c, I),
         NEW s \in Seconds, t.start =< s, s < t.end
  PROVE  \E d \in I : d.start =< s /\ s < d.end
<1>1. PICK a \in I : a.start = t.start
  BY DEF IsHull
<1>2. PICK e \in I : e.end = t.end
  BY DEF IsHull
<1>3. s \in Int
  BY BoundsAssumption DEF Seconds
<1>4. CASE a.end =< s /\ s < e.start
  BY <1>4 DEF Connected, Bridged
<1>5. CASE s < a.end \/ e.start =< s
  BY <1>1, <1>2, <1>3, <1>5
<1> QED
  BY <1>3, <1>4, <1>5, SpanTyping

LEMMA WithinOverlaps ==
  ASSUME NEW a \in Span, NEW t \in Span, Within(a, t)
  PROVE  Overlaps(t, a) /\ Overlaps(a, t)
BY SpanTyping DEF Within, Overlaps, StrictlyOverlaps, Meets, IsInstant

(***************************************************************************)
(* The browses inside the merged entry are the new one and those inside    *)
(* the entries merged.                                                     *)
(***************************************************************************)
LEMMA InsideMerged ==
  ASSUME NoBorderInstants, NEW T, NEW B, Sound(T, B), NEW b \in Catalog
  PROVE  LET M == Overlapping(T, b.area)
             h == Hull(M \cup {b.area})
         IN  /\ b.area \in Inside(B \cup {b}, h)
             /\ \A m \in M : Inside(B, m) \subseteq Inside(B \cup {b}, h)
             /\ \A c \in Inside(B \cup {b}, h) :
                  c = b.area \/ \E m \in M : c \in Inside(B, m)
<1> DEFINE M == Overlapping(T, b.area)
           P == M \cup {b.area}
           h == Hull(P)
<1>1. /\ T \in SUBSET Span /\ B \in SUBSET Catalog /\ Disjoint(T) /\ b.area \in Span
      /\ M \subseteq T
  BY CatalogTyping DEF Sound, Overlapping
<1>2. P \in SUBSET Span /\ h \in Span /\ \A p \in P : Within(p, h)
  <2>1. P \in SUBSET Span
    BY <1>1
  <2> QED
    BY <2>1, HullIsHull, HullContains
<1>3. \A u \in T : u \notin M => ~Overlaps(u, h)
  BY <1>1, HullOverlapsNoOther DEF Overlapping
<1> HIDE DEF h
<1>4. b.area \in Inside(B \cup {b}, h)
  BY <1>2 DEF Inside, Areas
<1>5. ASSUME NEW m \in M, NEW c \in Inside(B, m) PROVE c \in Inside(B \cup {b}, h)
  <2>1. c \in Areas(B) /\ Within(c, m) /\ c \in Span /\ m \in Span /\ Within(m, h)
    BY <1>1, <1>2, AreasTyping DEF Inside
  <2>2. Within(c, h)
    BY <1>2, <2>1, WithinTransitive
  <2> QED
    BY <2>1, <2>2 DEF Inside, Areas
<1>6. ASSUME NEW c \in Inside(B \cup {b}, h), c # b.area
      PROVE  \E m \in M : c \in Inside(B, m)
  <2>1. c \in Areas(B) /\ Within(c, h)
    BY <1>6 DEF Inside, Areas
  <2>2. PICK t \in T : Within(c, t)
    BY <2>1 DEF Sound, Covers, Areas
  <2>3. c \in Areas(Catalog) /\ c \in Span /\ t \in Span
    BY <1>1, <2>1, AreasTyping DEF Areas
  <2>4. ASSUME t \notin M PROVE FALSE
    <3>1. ~Overlaps(t, h)
      BY <1>3, <2>4
    <3>2. ~IsInstant(t) /\ IsInstant(c) /\ (c.start = t.start \/ c.start = t.end)
      BY <1>2, <2>1, <2>2, <2>3, <3>1, SpanTyping
         DEF Within, Overlaps, StrictlyOverlaps, Meets, IsInstant
    <3> QED
      BY <2>3, <3>2, NoInstantOnEdge
  <2> QED
    BY <2>1, <2>2, <2>4 DEF Inside
<1> QED
  BY <1>4, <1>5, <1>6 DEF h

LEMMA CreateExact ==
  ASSUME NoBorderInstants, NEW T, NEW B, Sound(T, B), NEW b \in Catalog
  PROVE  Exact(TimesAfterCreate(T, b), B \cup {b})
<1> DEFINE M == Overlapping(T, b.area)
           P == M \cup {b.area}
           h == Hull(P)
           J == Inside(B \cup {b}, h)
<1>1. /\ T \in SUBSET Span /\ B \in SUBSET Catalog /\ b.area \in Span
      /\ M \subseteq T /\ \A m \in M : Overlaps(m, b.area)
  BY CatalogTyping DEF Sound, Overlapping
<1>2. P \in SUBSET Span /\ h \in Span /\ IsHull(h, P)
  <2>1. P \in SUBSET Span
    BY <1>1
  <2> QED
    BY <2>1, HullIsHull
<1>3. /\ b.area \in J
      /\ \A m \in M : Inside(B, m) \subseteq J
      /\ \A c \in J : c = b.area \/ \E m \in M : c \in Inside(B, m)
  BY InsideMerged
<1>4. /\ J \in SUBSET Span
      /\ \A c \in J : Within(c, h)
  <2>1. B \cup {b} \in SUBSET Catalog
    BY <1>1
  <2> QED
    BY <2>1, AreasTyping DEF Inside
<1>5. \A m \in M : /\ Inside(B, m) \in SUBSET Span /\ IsHull(m, Inside(B, m))
                   /\ \A a, c \in Inside(B, m) : Connected(a, c, Inside(B, m))
                   /\ \A c \in Inside(B, m) : Within(c, m)
  BY <1>1, AreasTyping DEF Sound, Exact, Inside
<1>6. TimesAfterCreate(T, b) = (T \ M) \cup {h}
  BY DEF TimesAfterCreate
<1> HIDE DEF h, J
<1>7. IsHull(h, J)
  <2>1. \A a \in J : /\ h.start =< a.start /\ a.end =< h.end
                     /\ h.minx =< a.minx   /\ a.maxx =< h.maxx
    BY <1>4 DEF Within
  <2>2. \A p \in P : /\ \E a \in J : a.start = p.start
                     /\ \E a \in J : a.end = p.end
                     /\ \E a \in J : a.minx = p.minx
                     /\ \E a \in J : a.maxx = p.maxx
    <3>1. \A m \in M : /\ \E a \in J : a.start = m.start
                       /\ \E a \in J : a.end = m.end
                       /\ \E a \in J : a.minx = m.minx
                       /\ \E a \in J : a.maxx = m.maxx
      BY <1>3, <1>5 DEF IsHull
    <3> QED
      BY <3>1, <1>3
  <2> QED
    BY <1>2, <2>1, <2>2 DEF IsHull
<1>8. ASSUME NEW p \in P, NEW s \in Seconds, p.start =< s, s < p.end
      PROVE  \E d \in J : d.start =< s /\ s < d.end
  <2>1. CASE p = b.area
    BY <1>3, <1>8, <2>1
  <2>2. CASE p \in M
    <3>1. \E d \in Inside(B, p) : d.start =< s /\ s < d.end
      BY <1>2, <1>5, <1>8, <2>2, ExactIsCrossed
    <3> QED
      BY <1>3, <2>2, <3>1
  <2> QED
    BY <2>1, <2>2
<1>9. \A c \in J : \E p \in P : p.start =< c.start /\ c.end =< p.end
  <2>1. b.area.start =< b.area.start /\ b.area.end =< b.area.end
    BY <1>1, SpanTyping
  <2> QED
    BY <1>3, <1>5, <2>1 DEF Within
<1>10. \A p \in P : Meets(p, b.area)
  BY <1>1, <1>2, SpanTyping DEF Overlaps, StrictlyOverlaps, Meets
<1>11. ASSUME NEW c \in J, NEW d \in J PROVE Bridged(c, d, J)
  <2> SUFFICES ASSUME NEW s \in Seconds, c.end =< s, s < d.start
               PROVE  \E x \in J : x.start =< s /\ s < x.end
    BY DEF Bridged
  <2>1. PICK p \in P : p.start =< c.start /\ c.end =< p.end
    BY <1>9
  <2>2. PICK q \in P : q.start =< d.start /\ d.end =< q.end
    BY <1>9
  <2>3. \/ p.start =< s /\ s < p.end
        \/ q.start =< s /\ s < q.end
        \/ b.area.start =< s /\ s < b.area.end
    <3>1. Meets(p, b.area) /\ Meets(q, b.area) /\ s \in Int
      BY <1>10, BoundsAssumption DEF Seconds
    <3>2. p \in Span /\ q \in Span /\ c \in Span /\ d \in Span
      BY <1>2, <1>4
    <3> QED
      BY <1>1, <2>1, <2>2, <3>1, <3>2, SpanTyping DEF Meets
  <2> QED
    BY <1>8, <2>3
<1>12. ASSUME NEW t \in T \ M PROVE Inside(B \cup {b}, t) = Inside(B, t)
  <2>1. ~Within(b.area, t)
    BY <1>1, <1>12, WithinOverlaps DEF Overlapping
  <2> QED
    BY <2>1 DEF Inside, Areas
<1> QED
  <2>1. \A t \in T \ M : /\ IsHull(t, Inside(B, t))
                         /\ \A a, c \in Inside(B, t) : Connected(a, c, Inside(B, t))
    BY DEF Sound, Exact
  <2>2. \A a, c \in J : Connected(a, c, J)
    BY <1>11 DEF Connected
  <2> QED
    BY <1>6, <1>7, <1>12, <2>1, <2>2 DEF Exact, J

LEMMA CreateSound ==
  ASSUME NoBorderInstants, NEW T, NEW B, Sound(T, B), NEW b \in Catalog
  PROVE  Sound(TimesAfterCreate(T, b), B \cup {b})
<1>1. T \in SUBSET Span /\ B \in SUBSET Catalog /\ Disjoint(T) /\ Covers(T, B)
  BY DEF Sound
<1>2. B \cup {b} \subseteq Catalog
  BY <1>1
<1> QED
  BY <1>1, <1>2, CreateTyping, CreateDisjoint, CreateCovers, CreateExact DEF Sound

-----------------------------------------------------------------------------
(* remove_browse *)

LEMMA RemoveTyping ==
  ASSUME NEW T \in SUBSET Span, NEW B \in SUBSET Catalog, NEW o \in Catalog,
         NEW R \in TimesAfterRemove(T, o, B)
  PROVE  R \in SUBSET Span
<1>1. CASE Overlapping(T, o.area) = {}
  BY <1>1 DEF TimesAfterRemove
<1>2. CASE Overlapping(T, o.area) # {}
  <2>1. PICK p \in Pruned(T, o) : R = Split(p, B)
    BY <1>2 DEF TimesAfterRemove
  <2>2. p.rest \in SUBSET Span
    BY DEF Pruned
  <2>3. Overlapping(Areas(B), p.kept) \in SUBSET Span
    BY AreasTyping DEF Overlapping
  <2>4. \A g \in Groups(Overlapping(Areas(B), p.kept)) : Hull(g) \in Span
    BY <2>3, GroupHull DEF Groups
  <2> QED
    BY <2>1, <2>2, <2>4 DEF Split
<1> QED
  BY <1>1, <1>2

\* Entry t makes way for the hulls of the groups of the browses inside it.
SplitEntry(T, t, B) ==
  (T \ {t}) \cup { Hull(GroupOf(a, Inside(B, t))) : a \in Inside(B, t) }

(***************************************************************************)
(* The removed browse selects its own entry, and that entry selects the    *)
(* browses inside it: what remove_browse computes is the split of that one *)
(* entry into the hulls of the groups inside it.                           *)
(***************************************************************************)
LEMMA RemoveSplitsOne ==
  ASSUME NoBorderInstants, NEW T, NEW B, Sound(T, B), NEW o \in B,
         NEW C, C = B \ {o}, NEW R, R \in TimesAfterRemove(T, o, C),
         NEW t \in T, Within(o.area, t)
  PROVE  R = SplitEntry(T, t, C)
<1>2. o.area \in Areas(Catalog)
  BY DEF Sound, Areas
<1>3. Overlapping(T, o.area) = {t}
  BY <1>2, OneEntry
<1>4. Kept({t}) = {t}
  BY DEF Kept
<1>5. R = Split([rest |-> T \ {t}, kept |-> t], B \ {o})
  BY <1>3, <1>4 DEF TimesAfterRemove, Pruned
<1>6. Overlapping(Areas(B \ {o}), t) = Inside(B \ {o}, t)
  <2>1. ASSUME NEW c \in Areas(B \ {o}), Within(c, t) PROVE Overlaps(c, t)
    <3>1. c \in Span /\ t \in Span
      BY AreasTyping DEF Sound, Areas
    <3> QED
      BY <2>1, <3>1, WithinOverlaps
  <2>2. ASSUME NEW c \in Areas(B \ {o}), Overlaps(c, t) PROVE Within(c, t)
    <3>1. PICK u \in T : Within(c, u)
      BY DEF Sound, Covers, Areas
    <3>2. c \in Areas(Catalog) /\ c \in Span /\ t \in Span
      BY AreasTyping DEF Sound, Areas
    <3>3. Overlapping(T, c) = {u}
      BY <3>1, <3>2, OneEntry
    <3>4. Overlaps(t, c)
      BY <2>2, <3>2, SpanTyping DEF Overlaps, StrictlyOverlaps, Meets
    <3>5. t = u
      BY <3>3, <3>4 DEF Overlapping
    <3> QED
      BY <3>1, <3>5
  <2> QED
    BY <2>1, <2>2 DEF Overlapping, Inside
<1> QED
  BY <1>3, <1>5, <1>6 DEF Split, Groups, SplitEntry

LEMMA HullWithin ==
  ASSUME NEW t \in Span, NEW S \in SUBSET Span, NEW h \in Span, IsHull(h, S),
         \A a \in S : Within(a, t)
  PROVE  Within(h, t)
BY DEF IsHull, Within

LEMMA ApartIsDisjoint ==
  ASSUME NEW a \in Span, NEW c \in Span, ~Meets(a, c)
  PROVE  ~Overlaps(a, c)
BY SpanTyping DEF Overlaps, StrictlyOverlaps, Meets

LEMMA OverlapsSymmetric ==
  ASSUME NEW a \in Span, NEW c \in Span, Overlaps(a, c)
  PROVE  Overlaps(c, a)
BY SpanTyping DEF Overlaps, StrictlyOverlaps, Meets

LEMMA RemoveSound ==
  ASSUME NoBorderInstants, NEW T, NEW B, Sound(T, B), NEW o \in B,
         NEW R \in TimesAfterRemove(T, o, B \ {o})
  PROVE  Sound(R, B \ {o})
<1> DEFINE C == B \ {o}
<1>0. PICK t \in T : Within(o.area, t)
  BY DEF Sound, Covers
<1>2. R = SplitEntry(T, t, C)
  <2>1. C = B \ {o} /\ R \in TimesAfterRemove(T, o, C)
    OBVIOUS
  <2> HIDE DEF C
  <2> QED
    BY <1>0, <2>1, RemoveSplitsOne
<1>1. /\ T \in SUBSET Span /\ B \in SUBSET Catalog /\ C \in SUBSET Catalog /\ o \in Catalog
      /\ Disjoint(T) /\ Covers(T, B) /\ Exact(T, B)
  BY DEF Sound
<1> DEFINE A == Inside(C, t)
           H(a) == Hull(GroupOf(a, A))
<1>3. /\ A \in SUBSET Span /\ A \subseteq Areas(C) /\ t \in Span
      /\ \A a \in A : Within(a, t)
  BY <1>1, AreasTyping DEF Inside
<1>4. R \subseteq Span
  BY <1>1, RemoveTyping
<1> HIDE DEF A
<1>5. ASSUME NEW a \in A
      PROVE  /\ H(a) \in Span /\ IsHull(H(a), GroupOf(a, A)) /\ Within(H(a), t)
             /\ a \in GroupOf(a, A) /\ GroupOf(a, A) \subseteq A
  <2>1. /\ H(a) \in Span /\ IsHull(H(a), GroupOf(a, A))
        /\ a \in GroupOf(a, A) /\ GroupOf(a, A) \subseteq A
    BY <1>3, GroupHull
  <2>2. GroupOf(a, A) \in SUBSET Span /\ \A x \in GroupOf(a, A) : Within(x, t)
    BY <1>3, <2>1
  <2> QED
    BY <1>3, <2>1, <2>2, HullWithin
<1>6. ASSUME NEW a \in A, NEW c \in A, H(a) # H(c) PROVE ~Meets(H(a), H(c))
  BY <1>3, <1>6, GroupHullsApart
<1>7. ASSUME NEW u \in T \ {t}, NEW a \in A PROVE ~Overlaps(u, H(a))
  <2> DEFINE h == H(a)
  <2>1. u \in Span /\ ~Overlaps(u, t)
    BY <1>1 DEF Disjoint
  <2>2. h \in Span /\ IsHull(h, GroupOf(a, A)) /\ Within(h, t) /\ a \in GroupOf(a, A)
    BY <1>5
  <2> HIDE DEF h
  <2>3. SUFFICES ASSUME Overlaps(u, h) PROVE FALSE
    BY DEF h
  <2>4. ~IsInstant(u) /\ ~IsInstant(t) /\ IsInstant(h) /\ (h.start = u.start \/ h.start = u.end)
    BY <1>3, <2>1, <2>2, <2>3, SpanTyping
       DEF Within, Overlaps, StrictlyOverlaps, Meets, IsInstant
  <2>5. IsInstant(a) /\ a.start = h.start
    <3>1. h.start =< a.start /\ a.end =< h.end /\ a \in Span
      BY <1>3, <2>2 DEF IsHull
    <3> QED
      BY <2>2, <2>4, <3>1, SpanTyping DEF IsInstant
  <2>6. a \in Areas(Catalog)
    BY <1>1, <1>3 DEF Areas
  <2> QED
    BY <2>4, <2>5, <2>6, NoInstantOnEdge
<1>8. Disjoint(R)
  <2> SUFFICES ASSUME NEW x \in R, NEW y \in R, x # y PROVE ~Overlaps(x, y)
    BY DEF Disjoint
  <2>1. x \in Span /\ y \in Span
    BY <1>4
  <2>2. x \in T \ {t} \/ \E a \in A : x = H(a)
    BY <1>2 DEF A, SplitEntry
  <2>3. y \in T \ {t} \/ \E a \in A : y = H(a)
    BY <1>2 DEF A, SplitEntry
  <2> HIDE DEF H
  <2>4. CASE x \in T \ {t} /\ y \in T \ {t}
    BY <1>1, <2>4 DEF Disjoint
  <2>5. CASE x \in T \ {t} /\ y \notin T \ {t}
    BY <2>3, <2>5, <1>7
  <2>6. CASE x \notin T \ {t} /\ y \in T \ {t}
    BY <2>1, <2>2, <2>6, <1>7, OverlapsSymmetric
  <2>7. CASE x \notin T \ {t} /\ y \notin T \ {t}
    BY <2>1, <2>2, <2>3, <2>7, <1>6, ApartIsDisjoint
  <2> QED
    BY <2>4, <2>5, <2>6, <2>7
<1>9. Covers(R, C)
  <2> SUFFICES ASSUME NEW c \in C PROVE \E r \in R : Within(c.area, r)
    BY DEF Covers
  <2>1. PICK u \in T : Within(c.area, u)
    BY <1>1 DEF Covers
  <2>2. CASE u # t
    BY <1>2, <2>1, <2>2 DEF SplitEntry
  <2>3. CASE u = t
    <3>1. c.area \in A
      BY <2>1, <2>3 DEF A, Inside, Areas
    <3>2. H(c.area) \in R
      BY <1>2, <3>1 DEF A, SplitEntry
    <3>3. Within(c.area, H(c.area))
      BY <1>5, <3>1 DEF IsHull, Within
    <3> QED
      BY <3>2, <3>3
  <2> QED
    BY <2>2, <2>3
<1>10. ASSUME NEW u \in T \ {t} PROVE Inside(C, u) = Inside(B, u)
  <2>5. o.area \in Areas(Catalog)
    BY <1>1 DEF Areas
  <2>6. Overlapping(T, o.area) = {t}
    BY <1>0, <2>5, OneEntry
  <2>1. u \in Span /\ o.area \in Span /\ ~Overlaps(u, o.area)
    BY <1>1, <2>6, CatalogTyping DEF Overlapping
  <2>2. ~Within(o.area, u)
    BY <2>1, WithinOverlaps
  <2> QED
    BY <2>2 DEF Inside, Areas
<1>11. ASSUME NEW a \in A PROVE Inside(C, H(a)) = GroupOf(a, A)
  <2>1. ASSUME NEW x \in GroupOf(a, A) PROVE x \in Inside(C, H(a))
    BY <1>3, <1>5 DEF IsHull, Within, Inside
  <2>2. ASSUME NEW x \in Inside(C, H(a)) PROVE x \in GroupOf(a, A)
    <3>1. x \in Areas(C) /\ Within(x, H(a)) /\ x \in Span
      BY <1>1, AreasTyping DEF Inside
    <3>2. x \in A
      BY <1>3, <1>5, <3>1, WithinTransitive DEF A, Inside
    <3>3. Within(x, H(x)) /\ H(x) \in Span /\ x \in GroupOf(x, A) /\ H(a) \in Span
      BY <1>5, <3>2 DEF IsHull, Within
    <3>4. Meets(H(a), H(x))
      <4> HIDE DEF H
      <4> QED
        BY <3>1, <3>3, SpanTyping DEF Within, Meets
    <3>5. GroupOf(a, A) = GroupOf(x, A)
      BY <1>3, <3>2, <3>4, GroupHullsApart
    <3> QED
      BY <3>3, <3>5
  <2> QED
    BY <2>1, <2>2
<1>12. Exact(R, C)
  <2> SUFFICES ASSUME NEW r \in R
               PROVE  /\ IsHull(r, Inside(C, r))
                      /\ \A a, c \in Inside(C, r) : Connected(a, c, Inside(C, r))
    BY DEF Exact
  <2>1. CASE r \in T \ {t}
    BY <1>1, <1>10, <2>1 DEF Exact
  <2>2. CASE \E a \in A : r = H(a)
    <3>1. PICK a \in A : r = H(a)
      BY <2>2
    <3>2. IsHull(r, GroupOf(a, A)) /\ Inside(C, r) = GroupOf(a, A)
      BY <1>5, <1>11, <3>1
    <3>3. \A x, y \in GroupOf(a, A) : Connected(x, y, GroupOf(a, A))
      BY <1>3, GroupConnected
    <3> QED
      BY <3>2, <3>3
  <2> QED
    BY <1>2, <2>1, <2>2 DEF A, SplitEntry
<1> QED
  BY <1>1, <1>4, <1>8, <1>9, <1>12 DEF Sound

-----------------------------------------------------------------------------
(* The theorems *)

(***************************************************************************)
(* Both tables always hold well-formed rows and no identifier is           *)
(* registered twice, whatever the catalog (create_browse, remove_browse).  *)
(***************************************************************************)
THEOREM TypeCorrect == Spec => []TypeOK
<1>1. Init => TypeOK
  BY DEF Init, TypeOK
<1>2. TypeOK /\ [Next]_vars => TypeOK'
  <2> SUFFICES ASSUME TypeOK, [Next]_vars PROVE TypeOK'
    OBVIOUS
  <2>1. ASSUME NEW b \in Catalog, Ingest(b) PROVE TypeOK'
    <3>1. times' \subseteq Span
      BY <2>1, CreateTyping DEF Ingest, TypeOK
    <3> QED
      BY <2>1, <3>1 DEF Ingest, TypeOK
  <2>2. ASSUME NEW b \in Catalog, Replace(b) PROVE TypeOK'
    <3>1. PICK o \in browses : /\ o.name = b.name
                               /\ browses' = (browses \ {o}) \cup {b}
                               /\ \E T \in TimesAfterRemove(times, o, browses \ {o}) :
                                    times' = TimesAfterCreate(T, b)
      BY <2>2 DEF Replace
    <3>2. times' \subseteq Span
      <4>1. browses \ {o} \in SUBSET Catalog /\ o \in Catalog
        BY DEF TypeOK
      <4> QED
        BY <3>1, <4>1, RemoveTyping, CreateTyping DEF TypeOK
    <3> QED
      BY <3>1, <3>2 DEF TypeOK
  <2>3. ASSUME NEW b \in Catalog, FailReplace(b) PROVE TypeOK'
    <3>1. times' \subseteq times
      BY <2>3 DEF FailReplace, Pruned, Kept, Overlapping
    <3> QED
      BY <2>3, <3>1 DEF FailReplace, TypeOK
  <2>4. ASSUME NEW b \in Catalog, Delete(b) PROVE TypeOK'
    <3>1. browses' \in SUBSET Catalog
      BY <2>4 DEF Delete, TypeOK
    <3>2. times' \subseteq Span
      BY <2>4, <3>1, RemoveTyping DEF Delete, TypeOK
    <3> QED
      BY <2>4, <3>1, <3>2 DEF Delete, TypeOK
  <2>5. CASE UNCHANGED vars
    BY <2>5 DEF vars, TypeOK
  <2> QED
    BY <2>1, <2>2, <2>3, <2>4, <2>5 DEF Next
<1> QED
  BY <1>1, <1>2, PTL DEF Spec

LEMMA InitSound == Init => Sound(times, browses)
BY DEF Init, Sound, Disjoint, Covers, Exact

LEMMA SoundOneTime ==
  ASSUME NoBorderInstants, NEW T, NEW B, Sound(T, B)
  PROVE  \A b \in B : \E t \in T : Overlapping(T, b.area) = {t}
<1> SUFFICES ASSUME NEW b \in B PROVE \E t \in T : Overlapping(T, b.area) = {t}
  OBVIOUS
<1>1. PICK t \in T : Within(b.area, t)
  BY DEF Sound, Covers
<1>2. b.area \in Areas(Catalog)
  BY DEF Sound, Areas
<1> QED
  BY <1>1, <1>2, OneEntry

LEMMA NextSound ==
  ASSUME NoBorderInstants, Sound(times, browses), [Next]_vars
  PROVE  Sound(times', browses')
<1>1. ASSUME NEW b \in Catalog, Ingest(b) PROVE Sound(times', browses')
  BY <1>1, CreateSound DEF Ingest
<1>2. ASSUME NEW b \in Catalog, Replace(b) PROVE Sound(times', browses')
  <2>1. PICK o \in browses : /\ browses' = (browses \ {o}) \cup {b}
                             /\ \E T \in TimesAfterRemove(times, o, browses \ {o}) :
                                  times' = TimesAfterCreate(T, b)
    BY <1>2 DEF Replace
  <2>2. PICK T \in TimesAfterRemove(times, o, browses \ {o}) : times' = TimesAfterCreate(T, b)
    BY <2>1
  <2>3. Sound(T, browses \ {o})
    BY RemoveSound
  <2> QED
    BY <2>1, <2>2, <2>3, CreateSound
<1>3. ASSUME NEW b \in Catalog, FailReplace(b) PROVE Sound(times', browses')
  <2>1. PICK o \in browses : \E p \in Pruned(times, o) : times' = p.rest \cup {p.kept}
    BY <1>3 DEF FailReplace
  <2>2. PICK t \in times : Overlapping(times, o.area) = {t}
    BY SoundOneTime
  <2>3. times' = times
    BY <2>1, <2>2 DEF Pruned, Kept
  <2> QED
    BY <1>3, <2>3 DEF FailReplace
<1>4. ASSUME NEW b \in Catalog, Delete(b) PROVE Sound(times', browses')
  BY <1>4, RemoveSound DEF Delete
<1>5. CASE UNCHANGED vars
  BY <1>5 DEF vars
<1> QED
  BY <1>1, <1>2, <1>3, <1>4, <1>5 DEF Next

(***************************************************************************)
(* For a layer without instants on the borders of intervals, no sequence   *)
(* of ingests, replacements, failures and deletions makes two Time entries *)
(* overlap, leaves a browse without an entry or an entry that is not the   *)
(* hull of connected browses, and remove_browse always finds one entry.    *)
(***************************************************************************)
THEOREM IndexConsistent ==
  ASSUME NoBorderInstants
  PROVE  Spec => [](TimesDisjoint /\ BrowsesCovered /\ TimesExact /\ OneTimePerBrowse)
<1> DEFINE SInv == Sound(times, browses)
<1>1. Init => SInv
  BY InitSound
<1>2. SInv /\ [Next]_vars => SInv'
  <2> SUFFICES ASSUME Sound(times, browses), [Next]_vars PROVE SInv'
    OBVIOUS
  <2>1. Sound(times', browses')
    BY NextSound
  <2> QED
    BY <2>1 DEF Sound, Disjoint, Covers, Exact
<1>3. SInv => TimesDisjoint /\ BrowsesCovered /\ TimesExact /\ OneTimePerBrowse
  BY SoundOneTime DEF Sound, TimesDisjoint, BrowsesCovered, TimesExact, OneTimePerBrowse
<1> HIDE DEF SInv
<1> QED
  BY <1>1, <1>2, <1>3, PTL DEF Spec

(***************************************************************************)
(* Its parts, each by itself.  Every registered browse is inside of an     *)
(* entry: what remove_browse deletes, it builds again for the browses that *)
(* are left, and a browse is never lost to the map cache.                  *)
(***************************************************************************)
THEOREM NoBrowseLost == ASSUME NoBorderInstants PROVE Spec => []BrowsesCovered
<1>1. Spec => [](TimesDisjoint /\ BrowsesCovered /\ TimesExact /\ OneTimePerBrowse)
  BY IndexConsistent
<1> QED
  BY <1>1, PTL

(***************************************************************************)
(* Every entry is the hull of browses that hang together: create_browse    *)
(* and remove_browse never announce more than there is to show.            *)
(***************************************************************************)
THEOREM NothingAnnouncedInVain == ASSUME NoBorderInstants PROVE Spec => []TimesExact
<1>1. Spec => [](TimesDisjoint /\ BrowsesCovered /\ TimesExact /\ OneTimePerBrowse)
  BY IndexConsistent
<1> QED
  BY <1>1, PTL

(***************************************************************************)
(* Where browses are only added, instants on borders do no harm: entries   *)
(* stay disjoint and cover every browse, whatever the catalog.             *)
(***************************************************************************)
THEOREM IngestConsistent == IngestSpec => [](TimesDisjoint /\ BrowsesCovered)
<1> DEFINE Inv == /\ times \in SUBSET Span /\ browses \in SUBSET Catalog
                  /\ Disjoint(times) /\ Covers(times, browses)
<1>1. Init => Inv
  BY DEF Init, Disjoint, Covers
<1>2. Inv /\ [\E b \in Catalog : Ingest(b)]_vars => Inv'
  <2> SUFFICES ASSUME Inv, [\E b \in Catalog : Ingest(b)]_vars PROVE Inv'
    OBVIOUS
  <2>1. ASSUME NEW b \in Catalog, Ingest(b) PROVE Inv'
    <3>1. /\ times' \in SUBSET Span /\ browses' \in SUBSET Catalog
          /\ Disjoint(times') /\ Covers(times', browses')
      BY <2>1, CreateTyping, CreateDisjoint, CreateCovers DEF Ingest
    <3> QED
      BY <3>1 DEF Disjoint, Covers
  <2>2. CASE UNCHANGED vars
    BY <2>2 DEF vars, Disjoint, Covers
  <2> QED
    BY <2>1, <2>2
<1>3. Inv => TimesDisjoint /\ BrowsesCovered
  BY DEF TimesDisjoint, BrowsesCovered
<1> HIDE DEF Inv
<1> QED
  BY <1>1, <1>2, <1>3, PTL DEF IngestSpec

(***************************************************************************)
(* For a layer without instants on the borders of intervals, deleting a    *)
(* browse leaves only entries inside the entries there were: ngeo_delete   *)
(* never tells the map cache of imagery it did not know.                   *)
(***************************************************************************)
THEOREM DeletionShrinks ==
  ASSUME NoBorderInstants
  PROVE  Spec => DeleteShrinks
<1> DEFINE SInv == Sound(times, browses)
           Shrink == \A b \in Catalog : Delete(b) => \A t \in times' : \E u \in times : Within(t, u)
<1>1. Init => SInv
  BY InitSound
<1>2. SInv /\ [Next]_vars => SInv'
  <2> SUFFICES ASSUME Sound(times, browses), [Next]_vars PROVE SInv'
    OBVIOUS
  <2>1. Sound(times', browses')
    BY NextSound
  <2> QED
    BY <2>1 DEF Sound, Disjoint, Covers, Exact
<1>3. SInv /\ [Next]_vars => [Shrink]_vars
  <2> SUFFICES ASSUME Sound(times, browses), NEW b \in Catalog, Delete(b), NEW r \in times'
               PROVE  \E u \in times : Within(r, u)
    OBVIOUS
  <2>1. b \in browses /\ times' \in TimesAfterRemove(times, b, browses \ {b})
    BY DEF Delete
  <2>2. PICK t \in times : times' = SplitEntry(times, t, browses \ {b})
    <3> DEFINE C == browses \ {b}
    <3>1. PICK t \in times : Within(b.area, t)
      BY <2>1 DEF Sound, Covers
    <3>2. C = browses \ {b} /\ times' \in TimesAfterRemove(times, b, C)
      BY <2>1
    <3> HIDE DEF C
    <3>3. times' = SplitEntry(times, t, C)
      BY <2>1, <3>1, <3>2, RemoveSplitsOne
    <3> QED
      BY <3>2, <3>3
  <2>3. times \in SUBSET Span /\ browses \ {b} \in SUBSET Catalog
    BY DEF Sound
  <2>4. CASE r \in times
    BY <2>3, <2>4, SpanTyping DEF Within
  <2>5. CASE \E a \in Inside(browses \ {b}, t) : r = Hull(GroupOf(a, Inside(browses \ {b}, t)))
    <3> DEFINE A == Inside(browses \ {b}, t)
    <3>1. A \in SUBSET Span /\ \A a \in A : Within(a, t)
      BY <2>3, AreasTyping DEF Inside
    <3> HIDE DEF A
    <3>2. PICK a \in A : r = Hull(GroupOf(a, A))
      BY <2>5 DEF A
    <3>3. r \in Span /\ IsHull(r, GroupOf(a, A)) /\ GroupOf(a, A) \subseteq A
      BY <3>1, <3>2, GroupHull
    <3>4. Within(r, t)
      BY <2>3, <3>1, <3>3, HullWithin
    <3> QED
      BY <3>4
  <2> QED
    BY <2>2, <2>4, <2>5 DEF SplitEntry
<1> HIDE DEF SInv
<1>4. Spec => [][Shrink]_vars
  <2> HIDE DEF Shrink
  <2> QED
    BY <1>1, <1>2, <1>3, PTL DEF Spec
<1> QED
  BY <1>4 DEF DeleteShrinks

-----------------------------------------------------------------------------
(* The rebuild of the time index *)

LEMMA Extensional ==
  ASSUME NEW a \in Span, NEW c \in Span, Within(a, c), Within(c, a)
  PROVE  a = c
BY SpanTyping DEF Within, Span

-----------------------------------------------------------------------------
(***************************************************************************)
(* The rows of the query: no two of them have the same time.               *)
(***************************************************************************)
DistinctTimes(S) == \A a, c \in S : a.start = c.start /\ a.end = c.end => a = c

LEMMA UniqueTimesTyping ==
  ASSUME NEW S \in SUBSET Span
  PROVE  /\ UniqueTimes(S) \in SUBSET Span
         /\ DistinctTimes(UniqueTimes(S))
         /\ \A a \in S : \E u \in UniqueTimes(S) :
              Within(a, u) /\ u.start = a.start /\ u.end = a.end
         /\ \A u \in UniqueTimes(S) : IsHull(u, SameTime(S, u))
<1>1. ASSUME NEW a \in S
      PROVE  /\ Hull(SameTime(S, a)) \in Span
             /\ IsHull(Hull(SameTime(S, a)), SameTime(S, a))
             /\ Hull(SameTime(S, a)).start = a.start /\ Hull(SameTime(S, a)).end = a.end
             /\ Within(a, Hull(SameTime(S, a)))
  <2>1. a \in SameTime(S, a) /\ SameTime(S, a) \in SUBSET Span
    BY DEF SameTime
  <2>2. Hull(SameTime(S, a)) \in Span /\ IsHull(Hull(SameTime(S, a)), SameTime(S, a))
    BY <2>1, HullIsHull
  <2>3. Within(a, Hull(SameTime(S, a)))
    BY <2>1, HullContains
  <2>4. \A c \in SameTime(S, a) : c.start = a.start /\ c.end = a.end
    BY DEF SameTime
  <2> QED
    BY <2>2, <2>3, <2>4 DEF IsHull
<1>2. ASSUME NEW a \in S, NEW c \in S, a.start = c.start, a.end = c.end
      PROVE  SameTime(S, a) = SameTime(S, c)
  BY <1>2 DEF SameTime
<1>3. DistinctTimes(UniqueTimes(S))
  <2> SUFFICES ASSUME NEW a \in S, NEW c \in S,
                      Hull(SameTime(S, a)).start = Hull(SameTime(S, c)).start,
                      Hull(SameTime(S, a)).end = Hull(SameTime(S, c)).end
               PROVE  Hull(SameTime(S, a)) = Hull(SameTime(S, c))
    BY DEF UniqueTimes, DistinctTimes
  <2>1. a.start = c.start /\ a.end = c.end
    BY <1>1
  <2> QED
    BY <1>2, <2>1
<1>4. ASSUME NEW u \in UniqueTimes(S) PROVE IsHull(u, SameTime(S, u))
  <2>1. PICK a \in S : u = Hull(SameTime(S, a))
    BY DEF UniqueTimes
  <2>2. SameTime(S, u) = SameTime(S, a)
    BY <1>1, <2>1 DEF SameTime
  <2> QED
    BY <1>1, <2>1, <2>2
<1> QED
  BY <1>1, <1>3, <1>4, Zenon DEF UniqueTimes

LEMMA LastExists ==
  ASSUME NEW S \in SUBSET Span, S # {}, DistinctTimes(S)
  PROVE  /\ LastOf(S) \in S
         /\ \A c \in S : c = LastOf(S) \/ Before(c, LastOf(S))
<1>1. PICK s \in { a.start : a \in S } : \A y \in { a.start : a \in S } : y =< s
  <2>1. { a.start : a \in S } \in SUBSET (0 .. MaxTime)
    BY BoundsAssumption DEF Span, Seconds
  <2>2. { a.start : a \in S } # {}
    OBVIOUS
  <2> QED
    BY <2>1, <2>2, MaxExists, BoundsAssumption, Zenon
<1> DEFINE L == { a \in S : a.start = s }
<1>2. PICK e \in { a.end : a \in L } : \A y \in { a.end : a \in L } : y =< e
  <2>1. { a.end : a \in L } \in SUBSET (0 .. MaxTime)
    BY BoundsAssumption DEF Span, Seconds
  <2>2. { a.end : a \in L } # {}
    BY <1>1
  <2> QED
    BY <2>1, <2>2, MaxExists, BoundsAssumption, Zenon
<1>3. PICK a \in S : a.start = s /\ a.end = e
  BY <1>2
<1>4. ASSUME NEW c \in S PROVE c = a \/ Before(c, a)
  <2>1. c.start =< s /\ (c.start = s => c.end =< e)
    BY <1>1, <1>2
  <2> QED
    BY <1>3, <2>1, SpanTyping DEF Before, DistinctTimes
<1>5. \E b \in S : \A c \in S : c = b \/ Before(c, b)
  BY <1>4
<1> QED
  BY <1>5, Zenon DEF LastOf

LEMMA TimesFinite ==
  ASSUME NEW S \in SUBSET Span, DistinctTimes(S)
  PROVE  IsFiniteSet(S)
<1> DEFINE f == [a \in S |-> <<a.start, a.end>>]
<1>1. \A a \in S : f[a] = <<a.start, a.end>> /\ f[a] \in Seconds \X Seconds
  BY DEF Span
<1>2. f \in [S -> Seconds \X Seconds]
  BY <1>1
<1>3. \A a, c \in S : f[a] = f[c] => a = c
  BY <1>1 DEF DistinctTimes
<1>4. f \in Injection(S, Seconds \X Seconds)
  <2> HIDE DEF f
  <2> QED
    BY <1>2, <1>3, Fun_IsInj
<1>5. IsFiniteSet(Seconds \X Seconds)
  <2>1. IsFiniteSet(Seconds)
    BY FS_Interval, BoundsAssumption DEF Seconds
  <2> QED
    BY <2>1, FS_Product
<1> QED
  BY <1>4, <1>5, FS_Injection

(***************************************************************************)
(* The intervals made of a set are those made of the set without its last  *)
(* row, to which the last row is added.                                    *)
(***************************************************************************)
LEMMA AddTyping ==
  ASSUME NEW R \in Seq(Span), NEW a \in Span
  PROVE  /\ Add(R, a) \in Seq(Span)
         /\ R # <<>> => /\ Len(R) \in Nat \ {0} /\ Last(R) \in Span
                        /\ Hull({Last(R), a}) \in Span /\ IsHull(Hull({Last(R), a}), {Last(R), a})
                        /\ Front(R) \in Seq(Span) /\ Len(Front(R)) = Len(R) - 1
                        /\ \A i \in 1 .. Len(R) - 1 : Front(R)[i] = R[i]
<1>1. ASSUME R # <<>>
      PROVE  /\ Len(R) \in Nat \ {0} /\ Last(R) \in Span
             /\ Hull({Last(R), a}) \in Span /\ IsHull(Hull({Last(R), a}), {Last(R), a})
             /\ Front(R) \in Seq(Span) /\ Len(Front(R)) = Len(R) - 1
             /\ \A i \in 1 .. Len(R) - 1 : Front(R)[i] = R[i]
  <2>1. Len(R) \in Nat \ {0}
    BY <1>1, EmptySeq
  <2>2. Last(R) \in Span
    BY <2>1, ElementOfSeq DEF Last
  <2>3. {Last(R), a} \in SUBSET Span /\ {Last(R), a} # {}
    BY <2>2
  <2>4. Hull({Last(R), a}) \in Span /\ IsHull(Hull({Last(R), a}), {Last(R), a})
    BY <2>3, HullIsHull
  <2>5. \A i \in 1 .. Len(R) - 1 : R[i] \in Span
    BY <2>1, ElementOfSeq
  <2>6. /\ SubSeq(R, 1, Len(R) - 1) \in Seq(Span)
        /\ Len(SubSeq(R, 1, Len(R) - 1)) = Len(R) - 1
        /\ \A i \in 1 .. Len(R) - 1 : SubSeq(R, 1, Len(R) - 1)[i] = R[i]
    <3> DEFINE n == Len(R) - 1
    <3>1. n \in Int /\ n \in Nat /\ n - 1 + 1 = n /\ \A i \in 1 .. n : 1 + i - 1 = i
      BY <2>1
    <3>2. n = IF 1 <= n THEN n - 1 + 1 ELSE 0
      BY <3>1
    <3>3. \A i \in 1 .. n : R[i] \in Span
      BY <2>5
    <3> HIDE DEF n
    <3>4. /\ SubSeq(R, 1, n) \in Seq(Span)
          /\ Len(SubSeq(R, 1, n)) = n
          /\ \A i \in 1 .. n - 1 + 1 : SubSeq(R, 1, n)[i] = R[1 + i - 1]
      BY <3>1, <3>2, <3>3, SubSeqProperties
    <3>5. \A i \in 1 .. n : SubSeq(R, 1, n)[i] = R[i]
      BY <3>1, <3>4
    <3> QED
      BY <3>4, <3>5 DEF n
  <2> QED
    BY <2>1, <2>2, <2>4, <2>6 DEF Front
<1>2. Add(R, a) \in Seq(Span)
  <2>1. CASE R # <<>> /\ Overlaps(Last(R), a)
    BY <1>1, <2>1, AppendProperties DEF Add
  <2>2. CASE ~(R # <<>> /\ Overlaps(Last(R), a))
    BY <2>2, AppendProperties DEF Add
  <2> QED
    BY <2>1, <2>2
<1> QED
  BY <1>1, <1>2

LEMMA IntervalsStep ==
  ASSUME NEW U \in SUBSET Span, DistinctTimes(U)
  PROVE  \E it :
           /\ it[U] = Intervals(U)
           /\ \A s \in SUBSET U :
                it[s] = IF s = {} THEN <<>> ELSE Add(it[s \ {LastOf(s)}], LastOf(s))
<1> DEFINE Op(it, s) == IF s = {} THEN <<>> ELSE Add(it[s \ {LastOf(s)}], LastOf(s))
           g == [p \in Seq(Span) \X U |-> Add(p[1], p[2])]
           c == [s \in SUBSET U |-> LastOf(s)]
           It == CHOOSE it : it = [s \in SUBSET U |-> Op(it, s)]
<1>1. g \in [Seq(Span) \X U -> Seq(Span)]
  BY AddTyping
<1>2. \A s \in SUBSET U : s # {} => c[s] \in s
  BY LastExists DEF DistinctTimes
<1>3. \E it \in [SUBSET U -> Seq(Span)] : FoldOn(it, SUBSET U, <<>>, g, c)
  <2>1. IsFiniteSet(U) /\ <<>> \in Seq(Span)
    BY TimesFinite, EmptySeq
  <2> HIDE DEF g, c
  <2> QED
    BY <1>1, <1>2, <2>1, FoldExists
<1>4. PICK it \in [SUBSET U -> Seq(Span)] : FoldOn(it, SUBSET U, <<>>, g, c)
  BY <1>3
<1>5. ASSUME NEW s \in SUBSET U PROVE it[s] = Op(it, s)
  <2>1. it[s] = IF s = {} THEN <<>> ELSE g[<<it[s \ {c[s]}], c[s]>>]
    BY <1>4 DEF FoldOn
  <2>2. ASSUME s # {} PROVE g[<<it[s \ {c[s]}], c[s]>>] = Add(it[s \ {LastOf(s)}], LastOf(s))
    <3>1. c[s] = LastOf(s) /\ c[s] \in U
      BY <1>2, <2>2
    <3>2. it[s \ {c[s]}] \in Seq(Span)
      OBVIOUS
    <3>3. g[<<it[s \ {c[s]}], c[s]>>] = Add(it[s \ {c[s]}], c[s])
      BY <3>1, <3>2
    <3> QED
      BY <3>1, <3>3
  <2> QED
    BY <2>1, <2>2
<1>6. it = [s \in SUBSET U |-> Op(it, s)]
  BY <1>5
<1>7. It = [s \in SUBSET U |-> Op(It, s)]
  <2> HIDE DEF Op
  <2> QED
    BY <1>6
<1>8. Intervals(U) = It[U]
  BY DEF Intervals, MapThenFoldSet
<1> HIDE DEF It
<1>9. \A s \in SUBSET U : It[s] = Op(It, s)
  <2> HIDE DEF Op
  <2> QED
    BY <1>7
<1> QED
  BY <1>8, <1>9

-----------------------------------------------------------------------------
(***************************************************************************)
(* The invariant of the loop: what has been added so far lies within the   *)
(* intervals, which are apart and in order; an interval is the hull of     *)
(* what lies within it, has no gap, and starts and ends where an interval  *)
(* does.                                                                   *)
(***************************************************************************)
Filled(t, A) ==
  LET I == { a \in A : Within(a, t) }
  IN  /\ IsHull(t, I)
      /\ \A x \in Seconds : t.start < x /\ x < t.end => \E a \in I : a.start < x /\ x < a.end
      /\ ~IsInstant(t) => \E a \in I : ~IsInstant(a) /\ a.start = t.start
      /\ ~IsInstant(t) => \E a \in I : ~IsInstant(a) /\ a.end = t.end

InOrder(R) ==
  \A i, j \in 1 .. Len(R) : i < j => R[i].end =< R[j].start /\ ~Overlaps(R[i], R[j])

IntervalsOf(A, R) ==
  /\ R \in Seq(Span)
  /\ \A a \in A : \E i \in 1 .. Len(R) : Within(a, R[i])
  /\ \A i \in 1 .. Len(R) : Filled(R[i], A)
  /\ InOrder(R)

LEMMA FilledKept ==
  ASSUME NEW A \in SUBSET Span, NEW a \in Span, NEW t \in Span, Filled(t, A)
  PROVE  Filled(t, A \cup {a})
<1> DEFINE I == { c \in A : Within(c, t) }
           J == { c \in A \cup {a} : Within(c, t) }
<1>1. I \subseteq J /\ \A c \in J : Within(c, t)
  OBVIOUS
<1>2. /\ IsHull(t, I)
      /\ \A x \in Seconds : t.start < x /\ x < t.end => \E c \in I : c.start < x /\ x < c.end
      /\ ~IsInstant(t) => \E c \in I : ~IsInstant(c) /\ c.start = t.start
      /\ ~IsInstant(t) => \E c \in I : ~IsInstant(c) /\ c.end = t.end
  BY Zenon DEF Filled
<1> HIDE DEF I, J
<1>3. IsHull(t, J)
  BY <1>1, <1>2 DEF IsHull, Within
<1>4. /\ \A x \in Seconds : t.start < x /\ x < t.end => \E c \in J : c.start < x /\ x < c.end
      /\ ~IsInstant(t) => \E c \in J : ~IsInstant(c) /\ c.start = t.start
      /\ ~IsInstant(t) => \E c \in J : ~IsInstant(c) /\ c.end = t.end
  BY <1>1, <1>2
<1> QED
  BY <1>3, <1>4, Zenon DEF Filled, J

LEMMA FilledAlone ==
  ASSUME NEW A \in SUBSET Span, NEW a \in A
  PROVE  Filled(a, A)
<1> DEFINE I == { c \in A : Within(c, a) }
<1>1. a \in I /\ \A c \in I : Within(c, a)
  BY SpanTyping DEF Within
<1>2. IsHull(a, I)
  <2> HIDE DEF I
  <2> QED
    BY <1>1 DEF IsHull, Within
<1> QED
  BY <1>1, <1>2 DEF Filled

LEMMA FilledMerged ==
  ASSUME NEW A \in SUBSET Span, NEW a \in Span, NEW t \in Span,
         Filled(t, A), Overlaps(t, a), t.start =< a.start,
         NEW h \in Span, IsHull(h, {t, a})
  PROVE  Filled(h, A \cup {a})
<1> DEFINE I == { c \in A : Within(c, t) }
           J == { c \in A \cup {a} : Within(c, h) }
<1>1. h.start = t.start /\ (h.end = t.end \/ h.end = a.end) /\ t.end =< h.end /\ a.end =< h.end
  BY SpanTyping DEF IsHull
<1>2. Within(t, h) /\ Within(a, h)
  BY DEF IsHull, Within
<1>3. a \in J /\ I \subseteq J /\ \A c \in J : Within(c, h)
  BY <1>2, SpanTyping DEF Within
<1>4. /\ IsHull(t, I)
      /\ \A x \in Seconds : t.start < x /\ x < t.end => \E c \in I : c.start < x /\ x < c.end
      /\ ~IsInstant(t) => \E c \in I : ~IsInstant(c) /\ c.start = t.start
      /\ ~IsInstant(t) => \E c \in I : ~IsInstant(c) /\ c.end = t.end
  BY Zenon DEF Filled
<1> HIDE DEF I, J
<1>5. IsHull(h, J)
  <2>1. \A c \in J : /\ h.start =< c.start /\ c.end =< h.end
                     /\ h.minx =< c.minx   /\ c.maxx =< h.maxx
    BY <1>3 DEF Within
  <2>2. \E c \in J : h.start = c.start
    BY <1>1, <1>3, <1>4 DEF IsHull
  <2>3. \E c \in J : h.end = c.end
    BY <1>1, <1>3, <1>4 DEF IsHull
  <2>4. \E c \in J : h.minx = c.minx
    <3>1. h.minx = t.minx \/ h.minx = a.minx
      BY DEF IsHull
    <3>2. \E c \in I : t.minx = c.minx
      BY <1>4 DEF IsHull
    <3> QED
      BY <3>1, <3>2, <1>3
  <2>5. \E c \in J : h.maxx = c.maxx
    <3>1. h.maxx = t.maxx \/ h.maxx = a.maxx
      BY DEF IsHull
    <3>2. \E c \in I : t.maxx = c.maxx
      BY <1>4 DEF IsHull
    <3> QED
      BY <3>1, <3>2, <1>3
  <2> QED
    BY <2>1, <2>2, <2>3, <2>4, <2>5 DEF IsHull
<1>6. ASSUME NEW x \in Seconds, h.start < x, x < h.end
      PROVE  \E c \in J : c.start < x /\ x < c.end
  <2>1. x \in Int
    BY BoundsAssumption DEF Seconds
  <2>2. CASE x < t.end
    BY <2>2, <1>1, <1>3, <1>4, <1>6
  <2>3. CASE ~(x < t.end)
    <3>1. h.end = a.end /\ t.end =< x /\ t.end < a.end
      BY <2>1, <2>3, <1>1, <1>6, SpanTyping
    <3>2. a.start < x
      BY <2>1, <2>3, <3>1, <1>1, <1>6, SpanTyping DEF Overlaps, StrictlyOverlaps, Meets, IsInstant
    <3> QED
      BY <3>1, <3>2, <1>3, <1>6
  <2> QED
    BY <2>2, <2>3
<1>7. ASSUME ~IsInstant(h) PROVE \E c \in J : ~IsInstant(c) /\ c.start = h.start
  <2>1. CASE IsInstant(t)
    <3>1. a.start = t.start /\ ~IsInstant(a)
      BY <2>1, <1>1, <1>7, SpanTyping DEF Overlaps, StrictlyOverlaps, Meets, IsInstant
    <3> QED
      BY <3>1, <1>1, <1>3
  <2>2. CASE ~IsInstant(t)
    BY <2>2, <1>1, <1>3, <1>4
  <2> QED
    BY <2>1, <2>2
<1>8. ASSUME ~IsInstant(h) PROVE \E c \in J : ~IsInstant(c) /\ c.end = h.end
  <2>1. CASE IsInstant(a)
    <3>1. h.end = t.end /\ ~IsInstant(t)
      BY <2>1, <1>1, <1>8, SpanTyping DEF Overlaps, StrictlyOverlaps, Meets, IsInstant
    <3> QED
      BY <3>1, <1>3, <1>4
  <2>2. CASE ~IsInstant(a) /\ h.end = a.end
    BY <2>2, <1>3
  <2>3. CASE ~IsInstant(a) /\ h.end # a.end
    <3>1. h.end = t.end /\ ~IsInstant(t)
      BY <2>3, <1>1, SpanTyping DEF Overlaps, StrictlyOverlaps, Meets, IsInstant
    <3> QED
      BY <3>1, <1>3, <1>4
  <2> QED
    BY <2>1, <2>2, <2>3
<1> QED
  BY <1>5, <1>6, <1>7, <1>8 DEF Filled, J

LEMMA AddStep ==
  ASSUME NEW A \in SUBSET Span, NEW a \in Span, \A c \in A : Before(c, a),
         NEW R, IntervalsOf(A, R)
  PROVE  IntervalsOf(A \cup {a}, Add(R, a))
<1>1. R \in Seq(Span) /\ Len(R) \in Nat /\ \A i \in 1 .. Len(R) : R[i] \in Span
  BY LenProperties, ElementOfSeq DEF IntervalsOf
<1>2. \A i \in 1 .. Len(R) : Filled(R[i], A)
  BY DEF IntervalsOf
<1>3. \A i \in 1 .. Len(R) : \E c \in A : c.start = R[i].start
  BY <1>2 DEF Filled, IsHull
<1>4. \A i \in 1 .. Len(R) : R[i].start =< a.start
  BY <1>1, <1>3, SpanTyping DEF Before
<1>5. Add(R, a) \in Seq(Span)
  BY <1>1, AddTyping
<1>6. CASE R # <<>> /\ Overlaps(Last(R), a)
  <2> DEFINE n == Len(R)
             h == Hull({Last(R), a})
  <2>1. /\ n \in Nat \ {0} /\ Last(R) = R[n] /\ h \in Span /\ IsHull(h, {R[n], a})
        /\ Front(R) \in Seq(Span) /\ Len(Front(R)) = n - 1
        /\ \A i \in 1 .. n - 1 : Front(R)[i] = R[i]
    BY <1>1, <1>6, AddTyping DEF Last
  <2> HIDE DEF h
  <2>2. /\ Add(R, a) = Append(Front(R), h)
        /\ Len(Add(R, a)) = n /\ Add(R, a)[n] = h
        /\ \A i \in 1 .. n - 1 : Add(R, a)[i] = R[i]
    <3>1. Add(R, a) = Append(Front(R), h)
      BY <1>6 DEF Add, h
    <3>2. /\ Len(Append(Front(R), h)) = (n - 1) + 1
          /\ Append(Front(R), h)[(n - 1) + 1] = h
          /\ \A i \in 1 .. n - 1 : Append(Front(R), h)[i] = Front(R)[i]
      BY <2>1, AppendProperties
    <3>3. (n - 1) + 1 = n
      BY <2>1
    <3> QED
      BY <2>1, <3>1, <3>2, <3>3
  <2> HIDE DEF n
  <2>3. Overlaps(R[n], a) /\ n \in 1 .. n /\ 1 .. n = 1 .. Len(R)
    BY <1>6, <2>1 DEF n
  <2>4. h.start = R[n].start /\ Within(R[n], h) /\ Within(a, h) /\ (h.end = R[n].end \/ h.end = a.end)
    BY <1>1, <1>4, <2>1, <2>3, SpanTyping DEF IsHull, Within
  <2>5. \A c \in A \cup {a} : \E i \in 1 .. n : Within(c, Add(R, a)[i])
    <3>1. ASSUME NEW c \in A PROVE \E i \in 1 .. n : Within(c, Add(R, a)[i])
      <4>1. PICK i \in 1 .. n : Within(c, R[i])
        BY <2>3 DEF IntervalsOf
      <4>2. CASE i = n
        <5>1. Within(c, R[n]) /\ Within(R[n], h) /\ c \in Span /\ R[n] \in Span /\ h \in Span
          BY <1>1, <2>1, <2>3, <2>4, <4>1, <4>2
        <5>2. Within(c, h)
          BY <5>1, WithinTransitive
        <5> QED
          BY <5>2, <2>2, <2>3
      <4>3. CASE i # n
        <5>1. i \in 1 .. n - 1
          BY <2>1, <4>3
        <5> QED
          BY <5>1, <4>1, <2>2
      <4> QED
        BY <4>2, <4>3
    <3> QED
      BY <3>1, <2>2, <2>3, <2>4
  <2>6. \A i \in 1 .. n : Filled(Add(R, a)[i], A \cup {a})
    <3>1. Filled(h, A \cup {a})
      BY <1>1, <1>2, <1>4, <2>1, <2>3, FilledMerged
    <3>2. ASSUME NEW i \in 1 .. n, i # n PROVE Filled(Add(R, a)[i], A \cup {a})
      <4>1. i \in 1 .. n - 1
        BY <2>1, <3>2
      <4>2. Filled(R[i], A \cup {a})
        BY <1>1, <1>2, <2>3, FilledKept
      <4> QED
        BY <4>1, <4>2, <2>2
    <3> QED
      BY <3>1, <3>2, <2>2
  <2>7. ASSUME NEW i \in 1 .. n, NEW j \in 1 .. n, i < j
        PROVE  /\ Add(R, a)[i].end =< Add(R, a)[j].start
               /\ ~Overlaps(Add(R, a)[i], Add(R, a)[j])
    <3>1. i \in 1 .. n - 1 /\ Add(R, a)[i] = R[i]
      <4>1. i \in 1 .. n - 1
        BY <2>1, <2>7
      <4> QED
        BY <4>1, <2>2
    <3>2. R[i].end =< R[j].start /\ ~Overlaps(R[i], R[j]) /\ R[i] \in Span /\ R[j] \in Span
      BY <1>1, <2>3, <2>7 DEF IntervalsOf, InOrder
    <3>3. CASE j = n
      <4>1. Add(R, a)[j] = h
        BY <3>3, <2>2
      <4>2. R[i].end =< h.start
        BY <3>2, <3>3, <2>4
      <4>3. h \in Span /\ h.start =< h.end /\ R[j].end =< h.end
        BY <2>1, <2>4, <3>3, SpanTyping DEF Within
      <4>4. ~Overlaps(R[i], h)
        <5> SUFFICES ASSUME Overlaps(R[i], h) PROVE FALSE
          OBVIOUS
        <5>1. R[i].end = h.start /\ (IsInstant(R[i]) \/ IsInstant(h))
          BY <4>2, <4>3, <3>2, SpanTyping DEF Overlaps, StrictlyOverlaps, Meets
        <5>2. IsInstant(R[i]) \/ IsInstant(R[j])
          BY <5>1, <4>3, <3>2, <3>3, <2>4, SpanTyping DEF IsInstant
        <5>3. Meets(R[i], R[j])
          BY <5>1, <2>4, <3>2, <3>3, SpanTyping DEF Meets
        <5> QED
          BY <5>2, <5>3, <3>2 DEF Overlaps
      <4> QED
        BY <3>1, <4>1, <4>2, <4>4
    <3>4. CASE j # n
      <4>1. j \in 1 .. n - 1
        BY <2>1, <3>4
      <4> QED
        BY <4>1, <2>2, <3>1, <3>2
    <3> QED
      BY <3>3, <3>4
  <2> QED
    BY <1>5, <2>2, <2>5, <2>6, <2>7 DEF IntervalsOf, InOrder
<1>7. CASE ~(R # <<>> /\ Overlaps(Last(R), a))
  <2> DEFINE n == Len(R) + 1
  <2>1. /\ Len(Add(R, a)) = n /\ Add(R, a)[n] = a
        /\ \A i \in 1 .. Len(R) : Add(R, a)[i] = R[i]
    BY <1>1, <1>7, AppendProperties DEF Add
  <2>2. n \in Nat \ {0} /\ n \in 1 .. n /\ \A i \in 1 .. n : i # n => i \in 1 .. Len(R)
    BY <1>1
  <2>3. \A i \in 1 .. Len(R) : i \in 1 .. n
    BY <1>1
  <2> HIDE DEF n
  <2>4. \A c \in A \cup {a} : \E i \in 1 .. n : Within(c, Add(R, a)[i])
    <3>1. Within(a, a)
      BY SpanTyping DEF Within
    <3>2. ASSUME NEW c \in A PROVE \E i \in 1 .. n : Within(c, Add(R, a)[i])
      <4>1. PICK i \in 1 .. Len(R) : Within(c, R[i])
        BY DEF IntervalsOf
      <4> QED
        BY <4>1, <2>1, <2>3
    <3> QED
      BY <3>1, <3>2, <2>1, <2>2
  <2>5. \A i \in 1 .. n : Filled(Add(R, a)[i], A \cup {a})
    <3>1. Filled(a, A \cup {a})
      BY FilledAlone
    <3>2. \A i \in 1 .. Len(R) : Filled(R[i], A \cup {a})
      BY <1>1, <1>2, FilledKept
    <3> QED
      BY <3>1, <3>2, <2>1, <2>2
  <2>6. ASSUME NEW i \in 1 .. Len(R) PROVE R[i].end =< a.start /\ ~Overlaps(R[i], a)
    <3>1. R # <<>>
      <4> SUFFICES ASSUME R = <<>> PROVE FALSE
        OBVIOUS
      <4>1. Len(R) = 0
        BY EmptySeq
      <4> QED
        BY <4>1
    <3> DEFINE l == R[Len(R)]
    <3>2. Len(R) \in 1 .. Len(R)
      BY <1>1
    <3>3. l \in Span /\ R[i] \in Span /\ l.start =< a.start
      BY <1>1, <1>4, <3>2
    <3>4. ~Overlaps(l, a)
      BY <3>1, <1>7 DEF Last
    <3>5. PICK c \in A : c.start = l.start
      BY <1>3, <3>2
    <3>6. Before(c, a) /\ c \in Span
      OBVIOUS
    <3>7. i # Len(R) => R[i].end =< l.start /\ ~Overlaps(R[i], l)
      <4> SUFFICES ASSUME i # Len(R) PROVE R[i].end =< l.start /\ ~Overlaps(R[i], l)
        OBVIOUS
      <4>1. i < Len(R)
        BY <1>1
      <4> QED
        BY <4>1, <3>2 DEF IntervalsOf, InOrder
    <3> HIDE DEF l
    <3>8. l.end =< a.start
      BY <3>3, <3>4, SpanTyping DEF Overlaps, StrictlyOverlaps, Meets, IsInstant
    <3>9. CASE i = Len(R)
      BY <3>9, <3>4, <3>8 DEF l
    <3>10. CASE i # Len(R)
      <4>1. R[i].end =< l.start /\ ~Overlaps(R[i], l)
        BY <3>7, <3>10
      <4>2. R[i].end =< a.start
        BY <4>1, <3>3, SpanTyping
      <4>3. ~Overlaps(R[i], a)
        <5> SUFFICES ASSUME Overlaps(R[i], a) PROVE FALSE
          OBVIOUS
        <5>1. R[i].end = a.start /\ l.start = a.start /\ l.end = a.start
          BY <4>1, <4>2, <3>3, <3>8, SpanTyping DEF Overlaps, StrictlyOverlaps, Meets
        <5> QED
          BY <5>1, <3>3, <3>4, SpanTyping DEF Overlaps, Meets, IsInstant
      <4> QED
        BY <4>2, <4>3
    <3> QED
      BY <3>9, <3>10
  <2>7. ASSUME NEW i \in 1 .. n, NEW j \in 1 .. n, i < j
        PROVE  /\ Add(R, a)[i].end =< Add(R, a)[j].start
               /\ ~Overlaps(Add(R, a)[i], Add(R, a)[j])
    <3>1. i \in 1 .. Len(R)
      BY <2>2, <2>7
    <3>2. CASE j = n
      BY <3>1, <3>2, <2>1, <2>6
    <3>3. CASE j # n
      <4>1. j \in 1 .. Len(R)
        BY <2>2, <3>3
      <4> QED
        BY <3>1, <4>1, <2>1, <2>7 DEF IntervalsOf, InOrder
    <3> QED
      BY <3>2, <3>3
  <2> QED
    BY <1>5, <2>1, <2>4, <2>5, <2>7 DEF IntervalsOf, InOrder
<1> QED
  BY <1>6, <1>7

LEMMA LoopHolds ==
  ASSUME NEW U \in SUBSET Span, DistinctTimes(U)
  PROVE  IntervalsOf(U, Intervals(U))
<1>1. PICK it : /\ it[U] = Intervals(U)
                /\ \A s \in SUBSET U :
                     it[s] = IF s = {} THEN <<>> ELSE Add(it[s \ {LastOf(s)}], LastOf(s))
  BY IntervalsStep
<1> DEFINE Wrong == { s \in SUBSET U : ~IntervalsOf(s, it[s]) }
           N == { Cardinality(s) : s \in Wrong }
<1>2. ASSUME NEW s \in SUBSET U PROVE IsFiniteSet(s) /\ Cardinality(s) \in Nat
  <2>1. IsFiniteSet(U)
    BY TimesFinite
  <2> QED
    BY <2>1, FS_Subset, FS_CardinalityType
<1>3. IntervalsOf({}, it[{}])
  <2>1. it[{}] = <<>>
    BY <1>1
  <2>2. Len(<<>>) = 0 /\ <<>> \in Seq(Span) /\ 1 .. 0 = {}
    BY EmptySeq
  <2> QED
    BY <2>1, <2>2 DEF IntervalsOf, InOrder
<1>4. SUFFICES ASSUME Wrong # {} PROVE FALSE
  BY <1>1
<1>5. N \in SUBSET Nat /\ N # {}
  BY <1>2, <1>4
<1>6. PICK n \in N : \A m \in N : n =< m
  <2> HIDE DEF N
  <2> QED
    BY <1>5, MinExists
<1>7. PICK s \in Wrong : n = Cardinality(s)
  BY <1>6
<1> DEFINE a == LastOf(s)
           A == s \ {a}
<1>8. s \in SUBSET U /\ s # {} /\ DistinctTimes(s)
  BY <1>3, <1>7 DEF DistinctTimes
<1>9. a \in s /\ \A c \in s : c = a \/ Before(c, a)
  BY <1>8, LastExists
<1>10. it[s] = Add(it[A], a)
  BY <1>1, <1>8
<1> HIDE DEF a
<1>11. A \in SUBSET U /\ A \cup {a} = s /\ \A c \in A : Before(c, a)
  BY <1>8, <1>9
<1>12. Cardinality(A) = n - 1 /\ n \in Nat
  BY <1>2, <1>7, <1>8, <1>9, FS_RemoveElement
<1> HIDE DEF A
<1>13. IntervalsOf(A, it[A])
  <2> SUFFICES ASSUME A \in Wrong PROVE FALSE
    BY <1>11
  <2>1. Cardinality(A) \in N
    OBVIOUS
  <2>2. n =< Cardinality(A)
    BY <1>6, <2>1
  <2> QED
    BY <2>2, <1>12
<1>14. IntervalsOf(s, it[s])
  <2>1. a \in Span /\ A \in SUBSET Span
    BY <1>8, <1>9, <1>11
  <2> QED
    BY <2>1, <1>10, <1>11, <1>13, AddStep
<1> QED
  BY <1>7, <1>14

(***************************************************************************)
(* What is written, whatever the browses of the layer: disjoint entries    *)
(* that cover the browses and are filled by them.                          *)
(***************************************************************************)
LEMMA FilledByAreas ==
  ASSUME NEW S \in SUBSET Span, NEW t \in Span, Filled(t, UniqueTimes(S))
  PROVE  Filled(t, S)
<1> DEFINE I == { u \in UniqueTimes(S) : Within(u, t) }
           J == { a \in S : Within(a, t) }
<1>1. /\ IsHull(t, I)
      /\ \A x \in Seconds : t.start < x /\ x < t.end => \E u \in I : u.start < x /\ x < u.end
      /\ ~IsInstant(t) => \E u \in I : ~IsInstant(u) /\ u.start = t.start
      /\ ~IsInstant(t) => \E u \in I : ~IsInstant(u) /\ u.end = t.end
  BY Zenon DEF Filled
<1>2. ASSUME NEW u \in I
      PROVE  /\ \E a \in J : a.start = u.start /\ a.end = u.end
             /\ \E a \in J : a.minx = u.minx
             /\ \E a \in J : a.maxx = u.maxx
  <2>1. u \in Span /\ Within(u, t) /\ IsHull(u, SameTime(S, u))
    BY UniqueTimesTyping
  <2>2. ASSUME NEW a \in SameTime(S, u) PROVE a \in J /\ a.start = u.start /\ a.end = u.end
    <3>1. a \in Span /\ a \in S /\ a.start = u.start /\ a.end = u.end
      BY DEF SameTime
    <3>2. Within(a, u)
      BY <2>1 DEF IsHull, Within
    <3>3. Within(a, t)
      BY <2>1, <3>1, <3>2, WithinTransitive
    <3> QED
      BY <3>1, <3>3
  <2>3. /\ \E a \in SameTime(S, u) : a.minx = u.minx
        /\ \E a \in SameTime(S, u) : a.maxx = u.maxx
        /\ \E a \in SameTime(S, u) : TRUE
    BY <2>1 DEF IsHull
  <2> HIDE DEF J
  <2> QED
    BY <2>2, <2>3
<1>3. \A a \in J : Within(a, t)
  OBVIOUS
<1> HIDE DEF I, J
<1>4. IsHull(t, J)
  <2>1. \A a \in J : /\ t.start =< a.start /\ a.end =< t.end
                     /\ t.minx =< a.minx   /\ a.maxx =< t.maxx
    BY <1>3 DEF Within
  <2>2. /\ \E u \in I : t.start = u.start
        /\ \E u \in I : t.end = u.end
        /\ \E u \in I : t.minx = u.minx
        /\ \E u \in I : t.maxx = u.maxx
    BY <1>1 DEF IsHull
  <2>3. /\ \E a \in J : t.start = a.start
        /\ \E a \in J : t.end = a.end
    BY <1>2, <2>2
  <2>4. /\ \E a \in J : t.minx = a.minx
        /\ \E a \in J : t.maxx = a.maxx
    BY <1>2, <2>2
  <2> QED
    BY <2>1, <2>3, <2>4 DEF IsHull
<1>5. \A x \in Seconds : t.start < x /\ x < t.end => \E a \in J : a.start < x /\ x < a.end
  BY <1>1, <1>2
<1>6. ~IsInstant(t) => /\ \E a \in J : ~IsInstant(a) /\ a.start = t.start
                      /\ \E a \in J : ~IsInstant(a) /\ a.end = t.end
  BY <1>1, <1>2 DEF IsInstant
<1> QED
  BY <1>4, <1>5, <1>6, Zenon DEF Filled, J

RebuiltWell(R, S) ==
  /\ R \subseteq Span
  /\ Disjoint(R)
  /\ \A a \in S : \E r \in R : Within(a, r)
  /\ \A r \in R : Filled(r, S)

\* Whatever browses a layer has: what ngeo_sync_mapcache_db makes of their times are
\* intervals that are apart, cover every browse and begin, go on and end with browses.
THEOREM RebuiltApartAndFilled ==
  ASSUME NEW B \in SUBSET Catalog
  PROVE  RebuiltWell(Rebuilt(B), Areas(B))
<1> DEFINE S == Areas(B)
           U == UniqueTimes(S)
           R == Intervals(U)
<1>1. S \in SUBSET Span
  BY AreasTyping
<1> HIDE DEF S
<1>2. /\ U \in SUBSET Span /\ DistinctTimes(U)
      /\ \A a \in S : \E u \in U : Within(a, u)
  BY <1>1, UniqueTimesTyping
<1> HIDE DEF U
<1>3. IntervalsOf(U, R)
  BY <1>2, LoopHolds
<1>4. Rebuilt(B) = ToSet(R)
  BY DEF Rebuilt, S, U
<1> HIDE DEF R
<1>5. R \in Seq(Span) /\ Len(R) \in Nat /\ DOMAIN R = 1 .. Len(R)
      /\ \A i \in 1 .. Len(R) : R[i] \in Span
  BY <1>3, LenProperties, ElementOfSeq DEF IntervalsOf
<1>6. /\ \A r \in ToSet(R) : \E i \in 1 .. Len(R) : r = R[i]
      /\ \A i \in 1 .. Len(R) : R[i] \in ToSet(R)
  BY <1>5 DEF ToSet
<1>7. ToSet(R) \subseteq Span
  BY <1>5, <1>6
<1>8. Disjoint(ToSet(R))
  <2> SUFFICES ASSUME NEW i \in 1 .. Len(R), NEW j \in 1 .. Len(R), R[i] # R[j]
               PROVE  ~Overlaps(R[i], R[j])
    BY <1>6 DEF Disjoint
  <2>1. i < j \/ j < i
    BY <1>5
  <2>2. ~Overlaps(R[i], R[j]) \/ ~Overlaps(R[j], R[i])
    BY <1>3, <2>1 DEF IntervalsOf, InOrder
  <2> QED
    BY <2>2, <1>5, SpanTyping DEF Overlaps, StrictlyOverlaps, Meets
<1>9. ASSUME NEW a \in S PROVE \E r \in ToSet(R) : Within(a, r)
  <2>1. PICK u \in U : Within(a, u)
    BY <1>2
  <2>2. PICK i \in 1 .. Len(R) : Within(u, R[i])
    BY <1>3 DEF IntervalsOf
  <2>3. Within(a, R[i])
    BY <1>1, <1>2, <1>5, <2>1, <2>2, WithinTransitive
  <2> QED
    BY <2>3, <1>6
<1>10. \A r \in ToSet(R) : Filled(r, S)
  <2>1. \A r \in ToSet(R) : Filled(r, U) /\ r \in Span
    BY <1>3, <1>6, <1>7 DEF IntervalsOf
  <2> QED
    BY <1>1, <2>1, FilledByAreas DEF U
<1> QED
  BY <1>4, <1>7, <1>8, <1>9, <1>10 DEF RebuiltWell, S

-----------------------------------------------------------------------------
(***************************************************************************)
(* How that compares with the entries there are.                           *)
(***************************************************************************)
LEMMA SpanTimeInEntry ==
  ASSUME NEW t \in Span, NEW y \in Span, t.start =< y.start, y.end =< t.end
  PROVE  Overlaps(t, y)
BY SpanTyping DEF Overlaps, StrictlyOverlaps, Meets, IsInstant

LEMMA HullInExtent ==
  ASSUME NEW t \in Span, NEW r \in Span, NEW I \in SUBSET Span, IsHull(r, I),
         t.start =< r.start, r.end =< t.end,
         \A y \in I : t.minx =< y.minx /\ y.maxx =< t.maxx
  PROVE  Within(r, t)
BY DEF IsHull, Within

LEMMA RebuiltWithin ==
  ASSUME NoBorderInstants, NEW T, NEW B, Sound(T, B), NEW R, RebuiltWell(R, Areas(B)),
         NEW r \in R
  PROVE  \E t \in T : Within(r, t)
<1> DEFINE I == { a \in Areas(B) : Within(a, r) }
<1>1. /\ T \subseteq Span /\ Areas(B) \in SUBSET Span /\ r \in Span /\ I \in SUBSET Span
      /\ Disjoint(T) /\ \A a \in Areas(B) : a \in Areas(Catalog) /\ \E t \in T : Within(a, t)
  <2>1. B \in SUBSET Catalog /\ T \subseteq Span /\ Disjoint(T) /\ Covers(T, B)
    BY DEF Sound
  <2>2. Areas(B) \in SUBSET Span
    BY <2>1, AreasTyping
  <2> QED
    BY <2>1, <2>2 DEF Covers, Areas, RebuiltWell
<1>2. /\ IsHull(r, I)
      /\ \A x \in Seconds : r.start < x /\ x < r.end => \E a \in I : a.start < x /\ x < a.end
      /\ ~IsInstant(r) => \E a \in I : ~IsInstant(a) /\ a.start = r.start
  BY Zenon DEF RebuiltWell, Filled
<1>3. \A a \in I : a \in Areas(B) /\ Within(a, r)
  OBVIOUS
<1> HIDE DEF I
<1>4. PICK x \in I : x.start = r.start /\ (~IsInstant(r) => ~IsInstant(x))
  BY <1>2 DEF IsHull
<1>5. PICK t \in T : Within(x, t)
  BY <1>1, <1>3
<1>6. t \in Span /\ x \in Span /\ t.start =< r.start
  BY <1>1, <1>4, <1>5 DEF Within
<1>7. r.end =< t.end
  <2> SUFFICES ASSUME t.end < r.end PROVE FALSE
    BY <1>1, <1>6, SpanTyping
  <2>1. ~IsInstant(r) /\ ~IsInstant(x)
    BY <1>1, <1>4, <1>5, <1>6, SpanTyping DEF Within, IsInstant
  <2>2. t.end \in Seconds /\ r.start < t.end
    BY <1>1, <1>4, <1>5, <1>6, <2>1, SpanTyping DEF Within, IsInstant, Span
  <2>3. PICK a \in I : a.start < t.end /\ t.end < a.end
    BY <1>2, <2>2
  <2>4. PICK u \in T : Within(a, u)
    BY <1>1, <1>3
  <2>5. u \in Span /\ a \in Span /\ u.start < t.end /\ t.end < u.end
    BY <1>1, <1>6, <2>3, <2>4, SpanTyping DEF Within
  <2>6. Overlaps(t, u) /\ t # u
    BY <1>6, <2>5, SpanTyping DEF Overlaps, StrictlyOverlaps
  <2> QED
    BY <1>1, <2>6 DEF Disjoint
<1>8. ASSUME NEW y \in I PROVE t.minx =< y.minx /\ y.maxx =< t.maxx
  <2>1. PICK u \in T : Within(y, u)
    BY <1>1, <1>3
  <2>2. y \in Span /\ t.start =< y.start /\ y.end =< t.end
    BY <1>1, <1>3, <1>6, <1>7, SpanTyping DEF Within
  <2>3. t \in Overlapping(T, y)
    BY <1>6, <2>2, SpanTimeInEntry DEF Overlapping
  <2>4. Overlapping(T, y) = {u}
    BY <1>1, <1>3, <2>1, OneEntry
  <2> QED
    BY <2>1, <2>3, <2>4 DEF Within
<1> QED
  BY <1>1, <1>2, <1>6, <1>7, <1>8, HullInExtent

LEMMA EntryRebuilt ==
  ASSUME NoBorderInstants, NEW T, NEW B, Sound(T, B), NEW R, RebuiltWell(R, Areas(B)),
         NEW t \in T,
         \A s \in t.start + 1 .. t.end - 1 :
           \E a \in Inside(B, t) : (a.start < s /\ s < a.end) \/ (a.start = s /\ a.end = s)
  PROVE  t \in R
<1> DEFINE I == Inside(B, t)
<1>1. /\ T \subseteq Span /\ Areas(B) \in SUBSET Span /\ I \in SUBSET Span /\ R \subseteq Span
      /\ Disjoint(T) /\ Disjoint(R) /\ t \in Span
      /\ \A a \in Areas(B) : a \in Areas(Catalog) /\ \E r \in R : Within(a, r)
      /\ \A a \in I : a \in Areas(B) /\ Within(a, t)
      /\ IsHull(t, I)
  <2>1. B \in SUBSET Catalog /\ T \subseteq Span /\ Disjoint(T) /\ Exact(T, B)
    BY DEF Sound
  <2>2. Areas(B) \in SUBSET Span
    BY <2>1, AreasTyping
  <2> QED
    BY <2>1, <2>2 DEF Inside, Areas, RebuiltWell, Exact
<1>2. PICK x \in I : x.start = t.start /\ (~IsInstant(t) => ~IsInstant(x))
  <2>1. CASE IsInstant(t)
    BY <2>1, <1>1 DEF IsHull
  <2>2. CASE ~IsInstant(t)
    <3>1. PICK x \in Areas(B) : ~IsInstant(x) /\ x.start = t.start
      BY <2>2, IntervalEdges
    <3>2. PICK u \in T : Within(x, u)
      BY DEF Sound, Covers, Areas
    <3>3. Overlapping(T, x) = {u}
      BY <1>1, <3>2, OneEntry
    <3>4. Overlaps(t, x)
      BY <1>1, <2>2, <3>1, SpanTyping DEF Overlaps, StrictlyOverlaps, IsInstant
    <3>5. u = t
      BY <3>3, <3>4 DEF Overlapping
    <3> QED
      BY <3>1, <3>2, <3>5 DEF Inside
  <2> QED
    BY <2>1, <2>2
<1> HIDE DEF I
<1>3. PICK r \in R : Within(x, r)
  BY <1>1
<1>4. r \in Span /\ x \in Span /\ r.start =< t.start /\ Filled(r, Areas(B))
  BY <1>1, <1>2, <1>3 DEF Within, RebuiltWell
<1>5. Within(r, t)
  <2>1. PICK u \in T : Within(r, u)
    BY RebuiltWithin
  <2>2. Within(x, u) /\ Within(x, t) /\ x \in Areas(Catalog)
    BY <1>1, <1>3, <1>4, <2>1, WithinTransitive
  <2>3. Overlapping(T, x) = {u} /\ Overlapping(T, x) = {t}
    BY <2>2, OneEntry
  <2> QED
    BY <2>1, <2>3
<1>6. t.end =< r.end
  <2> SUFFICES ASSUME r.end < t.end PROVE FALSE
    BY <1>1, <1>4, SpanTyping
  <2>1. ~IsInstant(t) /\ ~IsInstant(x) /\ ~IsInstant(r)
    BY <1>1, <1>2, <1>3, <1>4, SpanTyping DEF Within, IsInstant
  <2>2. r.end \in t.start + 1 .. t.end - 1
    BY <1>1, <1>2, <1>3, <1>4, <2>1, SpanTyping DEF Within, IsInstant
  <2>3. PICK a \in I : (a.start < r.end /\ r.end < a.end) \/ (a.start = r.end /\ a.end = r.end)
    BY <2>2 DEF I
  <2>4. CASE a.start < r.end /\ r.end < a.end
    <3>1. PICK q \in R : Within(a, q)
      BY <1>1
    <3>2. q \in Span /\ a \in Span /\ q.start < r.end /\ r.end < q.end
      BY <1>1, <1>4, <2>4, <3>1, SpanTyping DEF Within
    <3>3. Overlaps(r, q) /\ r # q
      BY <1>4, <3>2, SpanTyping DEF Overlaps, StrictlyOverlaps
    <3> QED
      BY <1>1, <3>3 DEF Disjoint
  <2>5. CASE a.start = r.end /\ a.end = r.end
    <3>1. PICK c \in Areas(B) : ~IsInstant(c) /\ c.end = r.end
      BY <1>4, <2>1 DEF Filled
    <3>2. a \in Areas(Catalog) /\ c \in Areas(Catalog) /\ IsInstant(a)
      BY <1>1, <2>5 DEF IsInstant
    <3> QED
      BY <2>5, <3>1, <3>2 DEF NoBorderInstants, Areas
  <2> QED
    BY <2>3, <2>4, <2>5
<1>7. r.start = t.start /\ r.end = t.end
  BY <1>1, <1>4, <1>5, <1>6, SpanTyping DEF Within
<1>8. ASSUME NEW y \in I PROVE r.minx =< y.minx /\ y.maxx =< r.maxx
  <2>1. PICK q \in R : Within(y, q)
    BY <1>1
  <2>2. y \in Span /\ q \in Span /\ r.start =< y.start /\ y.end =< r.end
    BY <1>1, <1>7, <2>1 DEF Within
  <2>3. q = r
    <3> SUFFICES Overlaps(q, r)
      BY <1>1 DEF Disjoint
    <3>1. CASE ~IsInstant(y)
      BY <3>1, <1>4, <2>1, <2>2, SpanTyping DEF Within, Overlaps, StrictlyOverlaps, IsInstant
    <3>2. CASE IsInstant(y) /\ (IsInstant(q) \/ IsInstant(r))
      BY <3>2, <1>4, <2>1, <2>2, SpanTyping DEF Within, Overlaps, Meets, IsInstant
    <3>3. CASE IsInstant(y) /\ ~IsInstant(q) /\ ~IsInstant(r)
      <4>1. Filled(q, Areas(B))
        BY DEF RebuiltWell
      <4>2. PICK c \in Areas(B) : ~IsInstant(c) /\ c.start = r.start
        BY <1>4, <3>3 DEF Filled
      <4>3. PICK d \in Areas(B) : ~IsInstant(d) /\ d.end = r.end
        BY <1>4, <3>3 DEF Filled
      <4>4. PICK e \in Areas(B) : ~IsInstant(e) /\ e.start = q.start
        BY <4>1, <3>3 DEF Filled
      <4>5. PICK f \in Areas(B) : ~IsInstant(f) /\ f.end = q.end
        BY <4>1, <3>3 DEF Filled
      <4>6. y.start # c.start /\ y.start # d.end /\ y.start # e.start /\ y.start # f.end
        <5>1. /\ y \in Areas(Catalog) /\ c \in Areas(Catalog) /\ d \in Areas(Catalog)
              /\ e \in Areas(Catalog) /\ f \in Areas(Catalog)
          BY <1>1
        <5>2. \A a, b \in Areas(Catalog) :
                IsInstant(a) /\ ~IsInstant(b) => a.start # b.start /\ a.start # b.end
          BY DEF NoBorderInstants, Areas
        <5> QED
          BY <5>1, <5>2, <3>3, <4>2, <4>3, <4>4, <4>5
      <4>7. y.start = y.end /\ r.start < y.start /\ y.end < r.end /\ q.start < y.start /\ y.end < q.end
        BY <3>3, <4>2, <4>3, <4>4, <4>5, <4>6, <1>4, <2>1, <2>2, SpanTyping DEF Within, IsInstant
      <4> QED
        BY <4>7, <1>4, <2>2, SpanTyping DEF Overlaps, StrictlyOverlaps
    <3> QED
      BY <3>1, <3>2, <3>3
  <2> QED
    BY <2>1, <2>3 DEF Within
<1>9. Within(t, r)
  <2>1. r.start =< t.start /\ t.end =< r.end
    BY <1>4, <1>6
  <2> QED
    BY <1>1, <1>4, <1>8, <2>1, HullInExtent
<1> QED
  BY <1>1, <1>4, <1>5, <1>9, Extensional

(***************************************************************************)
(* RebuildAgrees follows from Sound alone, so it holds in every state.     *)
(***************************************************************************)
LEMMA SoundRebuild ==
  ASSUME NoBorderInstants, Sound(times, browses)
  PROVE  RebuildAgrees
<1> DEFINE R == Rebuilt(browses)
<1>1. RebuiltWell(R, Areas(browses))
  BY RebuiltApartAndFilled DEF Sound
<1> HIDE DEF R
<1>2. \A t \in R : \E u \in times : Within(t, u)
  BY <1>1, RebuiltWithin
<1>3. ASSUME ContinuousNotMerged PROVE R = times
  <2>1. times \subseteq R
    BY <1>1, <1>3, EntryRebuilt DEF ContinuousNotMerged
  <2>2. ASSUME NEW r \in R PROVE r \in times
    <3>1. PICK t \in times : Within(r, t)
      BY <1>2
    <3>2. t \in R /\ r \in Span /\ t \in Span /\ Disjoint(R)
      BY <1>1, <2>1 DEF RebuiltWell
    <3>3. Overlaps(r, t)
      BY <3>1, <3>2, WithinOverlaps
    <3> QED
      BY <3>1, <3>2, <3>3 DEF Disjoint
  <2> QED
    BY <2>1, <2>2
<1> QED
  BY <1>2, <1>3 DEF RebuildAgrees, R

(***************************************************************************)
(* After any history of ingestions, replacements and deletions of a layer  *)
(* without instants on the borders of intervals, the database written by   *)
(* ngeo_sync_mapcache_db announces nothing the Time table did not, and is  *)
(* equal to it unless remove_browse has put what only touches in one entry.*)
(***************************************************************************)
THEOREM RebuildIsTable ==
  ASSUME NoBorderInstants
  PROVE  Spec => []RebuildAgrees
<1> DEFINE SInv == Sound(times, browses)
<1>1. Init => SInv
  BY InitSound
<1>2. SInv /\ [Next]_vars => SInv'
  <2> SUFFICES ASSUME Sound(times, browses), [Next]_vars PROVE SInv'
    OBVIOUS
  <2>1. Sound(times', browses')
    BY NextSound
  <2> QED
    BY <2>1 DEF Sound, Disjoint, Covers, Exact
<1>3. SInv => RebuildAgrees
  BY SoundRebuild
<1> HIDE DEF SInv
<1> QED
  BY <1>1, <1>2, <1>3, PTL DEF Spec

-----------------------------------------------------------------------------
(* The layer: the state as the proofs see it *)

\* What the databases hold once the transaction that is open is committed.
Target == IF writer = None THEN Committed ELSE cmd[writer].rows

DimType == [start : Seconds, end : Seconds]
TileType == [dim : DimType, level : Levels, shows : SUBSET Catalog]
WindowType == [start : Seconds \cup {None}, end : Seconds \cup {None}]
RowsType == [browses : SUBSET Catalog, times : SUBSET Span, located : [Name -> Path \cup {None}]]
PackageType == [closed : BOOLEAN, rows : SUBSET Catalog, cache : BOOLEAN,
                images : [Name -> Catalog \cup {None}], tiles : SUBSET TileType]

CmdType ==
  [op : {"idle", "ingest", "delete", "purge", "reseed", "export", "import"},
   at : {"idle", "write", "list", "remove", "commit", "second", "files", "drop", "seed", "add",
         "image", "time", "cache", "next", "tiles"},
   todo : SUBSET Catalog, now : Catalog \cup {None}, old : Catalog \cup {None},
   window : WindowType, ids : BOOLEAN, found : [Name -> Path \cup {None}] \cup {None},
   view : (SUBSET Span) \cup {None}, rows : RowsType \cup {None},
   remove : SUBSET (Path \cup {None}), areas : SUBSET DimType, force : BOOLEAN]

PackageThere == package # None \/ \E p \in Proc : cmd[p].op \in {"export", "import"}

Types ==
  /\ browses \in SUBSET Catalog /\ times \in SUBSET Span
  /\ located \in [Name -> Path \cup {None}]
  /\ disk \in [Path -> Catalog \cup {None}]
  /\ tiles \in SUBSET TileType
  /\ layer \in {"served", "gone"} /\ seeding \in BOOLEAN
  /\ PackageThere => package \in PackageType
  /\ writer \in Proc \cup {None}
  /\ cmd \in [Proc -> CmdType]

\* Which steps a command has, and which of them write to the databases.
StepsOf(c) ==
  /\ c.at = "idle" => c.op = "idle"
  /\ c.at \in {"write", "commit"} => c.op \in {"ingest", "import"}
  /\ c.at \in {"list", "remove", "files"} => c.op \in {"delete", "purge"}
  /\ c.at = "second" => c.op \in {"ingest", "import", "delete", "purge"}
  /\ c.at = "drop" => c.op = "purge"
  /\ c.at = "seed" => c.op \in {"ingest", "import", "delete", "reseed"}
  /\ (c.at \in {"add", "image", "time", "cache"}) = (c.op = "export")
  /\ c.at \in {"next", "tiles"} => c.op = "import"
  /\ c.op \notin {"delete", "purge"} \/ c.at \in {"seed", "drop", "list"} => c.remove = {}
  /\ c.at \in {"idle", "list", "write", "add", "image", "time", "cache", "next"} => c.areas = {}
  /\ c.at \in {"write", "commit"} => c.now \in Catalog
  /\ c.at = "write" /\ c.old # None => c.old.name = c.now.name
  /\ c.at \in {"remove", "commit", "second"} => c.rows \in RowsType
  /\ c.at \in {"image", "time", "cache"} => c.now \in c.todo
  /\ c.at \in {"list", "write", "image"} => c.found \in [Name -> Path \cup {None}]
  /\ c.at = "image" => c.found[c.now.name] # None
  /\ c.at = "second" /\ c.op \in {"delete", "purge"} => c.todo = {}

Control ==
  /\ \A p \in Proc : StepsOf(cmd[p])
  /\ \A p \in Proc : writer = p <=> cmd[p].at \in {"remove", "commit", "second"}
  /\ \A p, q \in Proc : cmd[p].op \in {"export", "import"} /\ cmd[q].op \in {"export", "import"} => p = q
  /\ \A p \in Proc : cmd[p].op = "export" =>
       /\ ~package.closed /\ cmd[p].todo \subseteq package.rows
       /\ cmd[p].at \in {"time", "cache"} => package.cache
  /\ \A p \in Proc : cmd[p].op = "import" =>
       /\ package.closed /\ cmd[p].todo \subseteq package.rows
       /\ cmd[p].at # "next" => cmd[p].now \in package.rows
       /\ ~cmd[p].force => package.tiles # {}
  /\ PackageThere /\ ~package.cache => package.tiles = {}
  /\ layer = "gone" => browses = {} /\ times = {} /\ writer = None

-----------------------------------------------------------------------------
(* Rows *)

Unique(B) == \A b, c \in B : b.name = c.name => b = c

\* Where the images of B are registered.
Located(B, L) ==
  /\ \A n \in Name : Named(B, n) = {} <=> L[n] = None
  /\ \A m, n \in Name : L[m] = L[n] /\ L[m] # None => m = n
  /\ \A n \in Name : L[n] \in Name => L[n] = n

\* A browse that was imported is the one of that name in the package, if any.
FromPackage(B, L) ==
  PackageThere => \A b \in B, r \in package.rows : L[b.name] \in Name /\ r.name = b.name => r = b

RowsInv ==
  /\ Unique(browses) /\ Located(browses, located)
  /\ Unique(Target.browses) /\ Located(Target.browses, Target.located)
  /\ PackageThere => Unique(package.rows)
  /\ FromPackage(browses, located) /\ FromPackage(Target.browses, Target.located)
  /\ writer # None /\ cmd[writer].op # "import" =>
       \A b \in Target.browses : Target.located[b.name] \in Name => b \in browses

\* What a deletion lists is what it deletes, and nothing was read early, unless
\* that is among the exceptions.
ListInv ==
  "stale" \notin seen => \A p \in Proc : cmd[p].at = "remove" =>
    /\ cmd[p].todo \subseteq cmd[p].rows.browses
    /\ cmd[p].found # None =>
         \A o \in cmd[p].todo : cmd[p].found[o.name] = cmd[p].rows.located[o.name]

EarlyInv == \A p \in Proc : cmd[p].view # None => "early" \in seen

-----------------------------------------------------------------------------
(* Images *)

\* The image of every browse is its own, or missing.
NotWrong(B, L) == \A b \in B : L[b.name] # None => disk[L[b.name]] \in {b, None}
Right(B, L) == \A b \in B : L[b.name] # None /\ disk[L[b.name]] = b

\* A browse of the package that is not packed yet, if it ever will be.
Unpacked(b) == ~package.closed /\ \A p \in Proc : cmd[p].op = "export" => b \in cmd[p].todo

PackedRight ==
  PackageThere => \A b \in package.rows : package.images[b.name] = b \/ Unpacked(b)

\* What an export has found of the browse it is about.
ExportRight ==
  \A p \in Proc :
    /\ cmd[p].at = "image" => disk[cmd[p].found[cmd[p].now.name]] \in {cmd[p].now, None}
    /\ cmd[p].at \in {"time", "cache"} => package.images[cmd[p].now.name] = cmd[p].now

NothingWrong ==
  "overtaken" \notin seen =>
    /\ NotWrong(browses, located) /\ NotWrong(Target.browses, Target.located)
    /\ PackedRight /\ ExportRight

\* Images to be deleted exist, belong to no browse and are deleted by one process.
ToDelete ==
  /\ \A p \in Proc : \A f \in cmd[p].remove :
       /\ f \in Path /\ (layer = "served" => disk[f] # None)
       /\ \A n \in Name : Target.located[n] # f /\ (writer # p => located[n] # f)
  /\ \A p, q \in Proc : p # q => cmd[p].remove \cap cmd[q].remove = {}

NothingLeft ==
  \A f \in Path : disk[f] # None => \/ \E n \in Name : Target.located[n] = f
                                    \/ \E p \in Proc : f \in cmd[p].remove

ImagesInv ==
  "crash" \notin faults /\ seen \cap {"overtaken", "stale"} = {} =>
    /\ Right(Target.browses, Target.located)
    /\ writer # None /\ cmd[writer].op \in {"delete", "purge"} => Right(browses, located)
    /\ ToDelete
    /\ "cut" \notin faults => NothingLeft

-----------------------------------------------------------------------------
(* The time index and the tiles *)

IndexInv ==
  faults \cap {"crash", "cut"} = {} /\ seen \cap {"stale", "early"} = {}
    => Sound(Target.times, Target.browses)

Trusted ==
  /\ faults \subseteq {"step", "seed"}
  /\ seen \cap {"raced", "ghost", "overtaken", "crowded", "stale", "early"} = {}

\* Nobody is purging the layer.
Purging(c) == c.op = "purge" /\ c.at # "list"
NoPurge == \A p \in Proc : ~Purging(cmd[p])

ShownIn(B, d) == { b \in B : Overlaps(b.area, d) }

FreshTiles(S, T, B) == \A x \in S : x.dim \in Dims(T) /\ x.shows = ShownIn(B, x.dim)

\* A tile shows what will be registered in its span, and as long as it is there
\* that is what is registered.
FreshInv ==
  Trusted =>
    /\ layer = "served" /\ NoPurge =>
         /\ FreshTiles(tiles, Target.times, Target.browses)
         /\ \A t \in tiles : t.shows = ShownIn(browses, t.dim)
    /\ PackageThere => \A t \in package.tiles : t.shows = ShownIn(package.rows, t.dim)

SeededIn(T, d) == \E t \in T : t.dim = d /\ t.level = "seeded"

\* A time span that a process is going to seed.
Pending(p, d) ==
  /\ d \in cmd[p].areas
  /\ cmd[p].op = "delete" /\ cmd[p].at # "remove" /\ cmd[p].at # "seed"
       => ~Skipped(cmd[p], d)

\* What is in the window of a deletion is going to be deleted.
WindowInv ==
  \A p \in Proc : cmd[p].op = "delete" =>
    /\ cmd[p].ids /\ cmd[p].window # Always => "mixed" \in seen
    /\ ~cmd[p].ids /\ cmd[p].at = "remove" /\ "stale" \notin seen =>
         \A b \in cmd[p].rows.browses : Selected(b.area, cmd[p].window) => b \in cmd[p].todo

\* No exception to TilesComplete.
Undisturbed ==
  /\ faults \subseteq {"unseed", "step"}
  /\ seen \cap {"undone", "merged", "mixed", "untiled", "stale", "early"} = {}
  /\ seeding

AllSeeded(S) == \A t \in S : t.level = "seeded"

PackageSeeded ==
  /\ PackageThere => AllSeeded(package.tiles)
  /\ PackageThere /\ package.cache =>
       \A b \in package.rows : SeededIn(package.tiles, Dim(b.area)) \/ Unpacked(b)

\* Every entry of the time index has its tiles, or some process is going to seed them.
TilesThere ==
  layer = "served" /\ NoPurge =>
    \A d \in Dims(Target.times) : SeededIn(tiles, d) \/ \E p \in Proc : Pending(p, d)

TilesInv == Undisturbed => AllSeeded(tiles) /\ PackageSeeded /\ TilesThere

Basic == Types /\ Control

Rows == RowsInv /\ ListInv /\ EarlyInv

Invariant ==
  Basic /\ Rows /\ NothingWrong /\ ImagesInv /\ IndexInv /\ FreshInv /\ WindowInv /\ TilesInv

-----------------------------------------------------------------------------
(* One step of one process *)

LEMMA SetAt ==
  ASSUME cmd \in [Proc -> CmdType], NEW p \in Proc, NEW c \in CmdType, Set(p, c)
  PROVE  /\ cmd' \in [Proc -> CmdType] /\ cmd'[p] = c
         /\ \A q \in Proc : q # p => cmd'[q] = cmd[q]
BY DEF Set

LEMMA SetValue ==
  ASSUME Basic, NEW p \in Proc, NEW c, Set(p, c)
  PROVE  cmd'[p] = c /\ \A q \in Proc : q # p => cmd'[q] = cmd[q]
BY DEF Set, Basic, Types

Writes(c) == c.at \in {"remove", "commit", "second"}

ImportOf(c) ==
  /\ package.closed /\ c.todo \subseteq package.rows
  /\ c.at # "next" => c.now \in package.rows
  /\ ~c.force => package.tiles # {}

\* The package is not changed.
LEMMA StepBasic ==
  ASSUME Basic, NEW p \in Proc, NEW c \in CmdType, Set(p, c), StepsOf(c), UNCHANGED package,
         UNCHANGED seeding,
         browses' \in SUBSET Catalog, times' \in SUBSET Span,
         located' \in [Name -> Path \cup {None}], disk' \in [Path -> Catalog \cup {None}],
         tiles' \in SUBSET TileType, layer' \in {"served", "gone"},
         writer' \in Proc \cup {None}, writer' = p <=> Writes(c),
         \A q \in Proc : q # p => (writer' = q <=> writer = q),
         c.op # "export",
         c.op = "import" =>
           (cmd[p].op = "import" \/ (package # None /\ Alone(p))) /\ ImportOf(c),
         layer' = "gone" => browses' = {} /\ times' = {} /\ writer' = None
  PROVE  Basic' /\ (PackageThere' => PackageThere)
<1>1. /\ cmd' \in [Proc -> CmdType] /\ cmd'[p] = c
      /\ \A q \in Proc : q # p => cmd'[q] = cmd[q]
  BY SetAt DEF Basic, Types
<1>2. PackageThere' => PackageThere
  BY <1>1 DEF PackageThere
<1>3. Types'
  BY <1>1, <1>2 DEF Basic, Types
<1>4. \A q \in Proc : StepsOf(cmd'[q])
  BY <1>1 DEF Basic, Control
<1>5. \A q \in Proc : writer' = q <=> cmd'[q].at \in {"remove", "commit", "second"}
  BY <1>1 DEF Basic, Control, Writes
<1>6. ASSUME NEW q \in Proc, NEW r \in Proc, cmd'[q].op \in {"export", "import"},
             cmd'[r].op \in {"export", "import"}
      PROVE  q = r
  BY <1>1, <1>6 DEF Basic, Control, Alone
<1>7. ASSUME NEW q \in Proc, cmd'[q].op = "export"
      PROVE  /\ ~package'.closed /\ cmd'[q].todo \subseteq package'.rows
             /\ cmd'[q].at \in {"time", "cache"} => package'.cache
  BY <1>1, <1>7 DEF Basic, Control
<1>8. ASSUME NEW q \in Proc, cmd'[q].op = "import" PROVE ImportOf(cmd'[q])
  BY <1>1, <1>8 DEF Basic, Control, ImportOf
<1>9. Control'
  BY <1>2, <1>4, <1>5, <1>6, <1>7, <1>8 DEF Basic, Control, StepsOf, ImportOf
<1> QED
  BY <1>2, <1>3, <1>9 DEF Basic

-----------------------------------------------------------------------------
(* Types *)

LEMMA NameTyping ==
  ASSUME NEW b \in Catalog
  PROVE  b.name \in Name /\ b.area \in Span
BY CatalogAssumption DEF Browse

LEMMA DimsTyping ==
  ASSUME NEW T \in SUBSET Span
  PROVE  Dims(T) \in SUBSET DimType
<1>1. \A t \in T : Dim(t) \in DimType
  BY DEF Span, Dim, DimType
<1> QED
  BY <1>1 DEF Dims

LEMMA RemovalsTyping ==
  ASSUME NEW V \in SUBSET Span, NEW T \in SUBSET Span, NEW o \in Catalog, NEW B \in SUBSET Catalog,
         NEW m \in Removals(V, T, o, B)
  PROVE  /\ V = T => m.times \in TimesAfterRemove(T, o, B)
         /\ m.times \in SUBSET Span
         /\ m.unseed \in SUBSET DimType /\ m.areas \in SUBSET DimType
<1>0. {} \in SUBSET DimType
  OBVIOUS
<1>1. CASE Overlapping(V, o.area) = {}
  BY <1>0, <1>1 DEF Removals, TimesAfterRemove
<1>2. CASE Overlapping(V, o.area) # {}
  <2>1. PICK k \in Pruned(V, o) :
          m = [times |-> Split([rest |-> T \ Overlapping(V, o.area), kept |-> k.kept], B),
               unseed |-> {Dim(k.kept)},
               areas |-> Dims({ Hull(g) : g \in Groups(Overlapping(Areas(B), k.kept)) })]
    BY <1>2 DEF Removals
  <2> DEFINE c == [rest |-> T \ Overlapping(V, o.area), kept |-> k.kept]
  <2>2. k.kept \in Span
    BY DEF Pruned, Kept, Overlapping
  <2>3. V = T => c \in Pruned(T, o)
    <3>1. ASSUME V = T PROVE k.rest = T \ Overlapping(V, o.area)
      BY <1>2, <3>1 DEF Pruned
    <3> QED
      BY <3>1 DEF Pruned
  <2>4. V = T => m.times \in TimesAfterRemove(T, o, B)
    BY <1>2, <2>1, <2>3 DEF TimesAfterRemove
  <2>5. { Hull(g) : g \in Groups(Overlapping(Areas(B), k.kept)) } \in SUBSET Span
    <3>1. Overlapping(Areas(B), k.kept) \in SUBSET Span
      BY AreasTyping DEF Overlapping
    <3>2. \A g \in Groups(Overlapping(Areas(B), k.kept)) : Hull(g) \in Span
      BY <3>1, GroupHull DEF Groups
    <3> QED
      BY <3>2
  <2>6. m.times \in SUBSET Span
    BY <2>1, <2>5 DEF Split
  <2>7. m.unseed \in SUBSET DimType
    BY <2>1, <2>2 DEF Span, Dim, DimType
  <2>8. m.areas \in SUBSET DimType
    BY <2>1, <2>5, DimsTyping
  <2> QED
    BY <2>4, <2>6, <2>7, <2>8
<1> QED
  BY <1>1, <1>2

LEMMA CreationTyping ==
  ASSUME NEW V \in SUBSET Span, NEW T \in SUBSET Span, NEW b \in Catalog
  PROVE  /\ V = T => Creation(V, T, b).times = TimesAfterCreate(T, b)
         /\ Creation(V, T, b).times \in SUBSET Span
         /\ Creation(V, T, b).unseed = Dims(Overlapping(V, b.area))
         /\ Creation(V, T, b).unseed \in SUBSET DimType
         /\ Creation(V, T, b).hull = Hull(Overlapping(V, b.area) \cup {b.area})
         /\ Dim(Creation(V, T, b).hull) \in DimType
<1> DEFINE merged == Overlapping(V, b.area)
           hull == Hull(merged \cup {b.area})
<1>1. merged \in SUBSET Span
  BY DEF Overlapping
<1>2. hull \in Span
  <2>1. hull \in TimesAfterCreate(V, b)
    BY DEF TimesAfterCreate
  <2>2. TimesAfterCreate(V, b) \in SUBSET Span
    BY CreateTyping
  <2> QED
    BY <2>1, <2>2
<1>3. Dims(merged) \in SUBSET DimType
  BY <1>1, DimsTyping
<1>4. Creation(V, T, b) = [times |-> (IF merged = {} THEN T ELSE T \ Overlapping(T, b.area)) \cup {hull},
                           unseed |-> Dims(merged), hull |-> hull]
  BY DEF Creation
<1>5. V = T => Creation(V, T, b).times = TimesAfterCreate(T, b)
  <2>1. ASSUME V = T
        PROVE (IF merged = {} THEN T ELSE T \ Overlapping(T, b.area)) = T \ Overlapping(T, b.area)
    BY <2>1
  <2> QED
    BY <1>4, <2>1 DEF TimesAfterCreate
<1> HIDE DEF merged, hull
<1>6. Dim(hull) \in DimType
  BY <1>2 DEF Span, Dim, DimType
<1>7. (IF merged = {} THEN T ELSE T \ Overlapping(T, b.area)) \cup {hull} \in SUBSET Span
  BY <1>2
<1> QED
  BY <1>3, <1>4, <1>5, <1>6, <1>7 DEF merged, hull

LEMMA SeededTyping ==
  ASSUME Types, NEW T \in SUBSET TileType, NEW d \in DimType, NEW force
  PROVE  Seeded(T, d, force) \in SUBSET TileType
<1>1. Tile(d, "seeded", Rendered(d)) \in TileType
  BY DEF Tile, TileType, Levels, Rendered, Types
<1> QED
  BY <1>1 DEF Seeded

LEMMA BegunTyping ==
  ASSUME NEW op \in {"idle", "ingest", "delete", "purge", "reseed", "export", "import"},
         NEW at \in {"idle", "write", "list", "files", "seed", "add", "next"}
  PROVE  /\ Idle \in CmdType /\ Begun(op, at) \in CmdType
         /\ StepsOf(Idle) /\ ~Writes(Idle) /\ Idle.op = "idle" /\ Idle.at = "idle"
         /\ Idle.view = None
         /\ Begun(op, at).op = op /\ Begun(op, at).at = at /\ Begun(op, at).view = None
         /\ Begun(op, at).remove = {} /\ Begun(op, at).areas = {}
<1>1. Always \in WindowType /\ {} \in SUBSET DimType /\ {} \in SUBSET (Path \cup {None})
      /\ {} \in SUBSET Catalog
  BY DEF Always, WindowType
<1>2. Idle \in CmdType
  BY <1>1 DEF Idle, CmdType
<1>3. /\ Idle.op = "idle" /\ Idle.at = "idle" /\ Idle.view = None /\ Idle.remove = {}
      /\ Idle.areas = {}
  BY DEF Idle
<1>4. StepsOf(Idle) /\ ~Writes(Idle)
  BY <1>3 DEF StepsOf, Writes
<1>5. /\ Begun(op, at) \in CmdType
      /\ Begun(op, at).op = op /\ Begun(op, at).at = at /\ Begun(op, at).view = None
      /\ Begun(op, at).remove = {} /\ Begun(op, at).areas = {}
  <2> DEFINE i == Idle
             c == [i EXCEPT !.op = op, !.at = at]
  <2> HIDE DEF i
  <2>1. /\ i \in CmdType /\ i.view = None /\ i.remove = {} /\ i.areas = {}
    BY <1>2, <1>3 DEF i
  <2>4. [i EXCEPT !.op = op] \in CmdType
    BY <2>1 DEF CmdType
  <2>5. c = [[i EXCEPT !.op = op] EXCEPT !.at = at]
    BY <2>1 DEF CmdType
  <2>6. \A x \in CmdType : [x EXCEPT !.at = at] \in CmdType
    BY DEF CmdType
  <2>2. c \in CmdType
    BY <2>4, <2>5, <2>6
  <2>3. /\ c.op = op /\ c.at = at /\ c.view = None /\ c.remove = {} /\ c.areas = {}
    BY <2>1 DEF CmdType
  <2> QED
    BY <2>2, <2>3 DEF Begun, i
<1> QED
  BY <1>2, <1>3, <1>4, <1>5

LEMMA LookedUpTyping ==
  ASSUME Types, NEW b \in Catalog
  PROVE  /\ LookedUp(b) \in Catalog \cup {None}
         /\ LookedUp(b) # None => LookedUp(b).name = b.name /\ LookedUp(b) \in browses
BY LayerDataAssumption DEF LookedUp, Types

-----------------------------------------------------------------------------
(* Steps without a transaction *)

LEMMA QuietBasic ==
  ASSUME Basic, NEW p \in Proc, NEW c \in CmdType, Set(p, c), StepsOf(c),
         UNCHANGED <<rows, disk, layer, seeding, package, writer>>, tiles' \in SUBSET TileType,
         ~Writes(cmd[p]), ~Writes(c), c.op # "export",
         c.op = "import" =>
           (cmd[p].op = "import" \/ (package # None /\ Alone(p))) /\ ImportOf(c)
  PROVE  Basic' /\ (PackageThere' => PackageThere)
<1>1. writer # p
  BY DEF Basic, Control, Writes
<1>2. writer \in Proc \cup {None} /\ (layer = "gone" => browses = {} /\ times = {} /\ writer = None)
  BY DEF Basic, Control, Types
<1>3. /\ UNCHANGED package /\ UNCHANGED seeding
      /\ browses' \in SUBSET Catalog /\ times' \in SUBSET Span
      /\ located' \in [Name -> Path \cup {None}] /\ disk' \in [Path -> Catalog \cup {None}]
      /\ layer' \in {"served", "gone"} /\ writer' \in Proc \cup {None}
      /\ (writer' = p <=> Writes(c)) /\ \A q \in Proc : q # p => (writer' = q <=> writer = q)
      /\ layer' = "gone" => browses' = {} /\ times' = {} /\ writer' = None
  BY <1>1, <1>2 DEF Basic, Types, rows
<1> QED
  BY <1>3, StepBasic

LEMMA StartIngestBasic ==
  ASSUME Basic, NEW p \in Proc, StartIngest(p)
  PROVE  Basic' /\ (PackageThere' => PackageThere) /\ cmd'[p].op = "ingest" /\ cmd'[p].view = None
<1>1. PICK b \in Catalog :
        Set(p, [Begun("ingest", "write") EXCEPT !.now = b,
                  !.old = LookedUp(b), !.found = located])
  BY DEF StartIngest
<1> DEFINE old == LookedUp(b)
           c == [Begun("ingest", "write") EXCEPT !.now = b, !.old = old, !.found = located]
<1>2. old \in Catalog \cup {None} /\ (old # None => old.name = b.name)
      /\ located \in [Name -> Path \cup {None}]
  BY LookedUpTyping DEF Basic, Types
<1> HIDE DEF old
<1>3. /\ c \in CmdType /\ StepsOf(c) /\ ~Writes(c) /\ c.op = "ingest" /\ c.view = None
  <2>0. /\ Begun("ingest", "write") \in CmdType
        /\ Begun("ingest", "write").op = "ingest" /\ Begun("ingest", "write").at = "write"
        /\ Begun("ingest", "write").remove = {} /\ Begun("ingest", "write").areas = {}
        /\ Begun("ingest", "write").view = None
    BY BegunTyping
  <2> DEFINE i == Begun("ingest", "write")
             d == [i EXCEPT !.now = b, !.old = old]
  <2> HIDE DEF i
  <2>5. /\ i \in CmdType /\ i.op = "ingest" /\ i.at = "write" /\ i.remove = {} /\ i.areas = {}
        /\ i.view = None
    BY <2>0 DEF i
  <2>6. old \in Catalog \cup {None}
    BY <1>2
  <2>8. \A x \in CmdType : [x EXCEPT !.now = b] \in CmdType
    BY DEF CmdType
  <2>9. \A x \in CmdType : [x EXCEPT !.old = old] \in CmdType
    BY <2>6 DEF CmdType
  <2>10. d = [[i EXCEPT !.now = b] EXCEPT !.old = old]
    BY <2>5 DEF CmdType
  <2>7. d \in CmdType
    BY <2>5, <2>8, <2>9, <2>10
  <2>3. /\ d \in CmdType /\ d.op = "ingest" /\ d.at = "write" /\ d.now = b /\ d.old = old
        /\ d.remove = {} /\ d.areas = {} /\ d.view = None
    BY <2>5, <2>7 DEF CmdType
  <2>4. c = [d EXCEPT !.found = located]
    BY <2>5 DEF CmdType, i
  <2> HIDE DEF d, c
  <2>1. /\ c \in CmdType /\ c.op = "ingest" /\ c.at = "write" /\ c.now = b /\ c.old = old
        /\ c.remove = {} /\ c.areas = {} /\ c.found = located /\ c.view = None
    BY <1>2, <2>3, <2>4 DEF CmdType
  <2> HIDE DEF c
  <2> QED
    BY <1>2, <2>1 DEF StepsOf, Writes
<1>4. Set(p, c) /\ ~Writes(cmd[p])
  BY <1>1, BegunTyping DEF old, StartIngest, MayStart
<1>5. UNCHANGED <<rows, disk, layer, seeding, package, writer>> /\ tiles' \in SUBSET TileType
  BY DEF StartIngest, fixed, Basic, Types
<1>6. cmd'[p] = c
  BY <1>4, SetValue
<1> HIDE DEF c
<1> QED
  BY <1>3, <1>4, <1>5, <1>6, QuietBasic

\* The list of a deletion.
LEMMA StartListBasic ==
  ASSUME Basic, NEW p \in Proc, StartDelete(p) \/ StartPurge(p)
  PROVE  /\ Basic' /\ (PackageThere' => PackageThere) /\ cmd[p] = Idle
         /\ cmd'[p].op \in {"delete", "purge"} /\ cmd'[p].at \in {"list", "files"}
         /\ cmd'[p].view = None /\ cmd'[p].areas = {} /\ cmd'[p].remove = {}
         /\ cmd'[p].op = "delete" => cmd'[p].at = "list"
         /\ UNCHANGED <<rows, disk, tiles, layer, seeding, package, writer, faults>>
<1>1. /\ Begun("delete", "list") \in CmdType /\ Begun("purge", "list") \in CmdType
      /\ Begun("delete", "list").op = "delete" /\ Begun("purge", "list").op = "purge"
      /\ Begun("delete", "list").at = "list" /\ Begun("purge", "list").at = "list"
      /\ Begun("delete", "list").remove = {} /\ Begun("purge", "list").remove = {}
      /\ Begun("delete", "list").areas = {} /\ Begun("purge", "list").areas = {}
      /\ Begun("purge", "files") \in CmdType
      /\ Begun("purge", "files").op = "purge" /\ Begun("purge", "files").at = "files"
      /\ Begun("purge", "files").remove = {} /\ Begun("purge", "files").areas = {}
      /\ Begun("delete", "list").view = None /\ Begun("purge", "list").view = None
      /\ Begun("purge", "files").view = None
  BY BegunTyping
<1>2. located \in [Name -> Path \cup {None}] /\ browses \in SUBSET Catalog
  BY DEF Basic, Types
<1>3. Always \in WindowType /\ \A w \in Windows : w \in WindowType
  BY LayerDataAssumption DEF Always, WindowType
<1>4. /\ UNCHANGED <<rows, disk, tiles, layer, seeding, package, writer, faults>>
      /\ cmd[p] = Idle
  BY DEF StartDelete, StartPurge, MayStart, fixed, history
<1>5. PICK c : /\ Set(p, c) /\ c \in CmdType /\ c.op \in {"delete", "purge"}
               /\ c.at \in {"list", "files"} /\ c.remove = {} /\ c.areas = {}
               /\ (c.at = "list" => c.found = located) /\ (c.op = "delete" => c.at = "list")
               /\ c.view = None
  <2>1. CASE StartPurge(p)
    <3>1. CASE browses = {}
      <4>1. Set(p, Begun("purge", "files"))
        BY <2>1, <3>1 DEF StartPurge
      <4> QED
        BY <1>1, <4>1
    <3>2. CASE browses # {}
      <4> DEFINE c == [Begun("purge", "list") EXCEPT !.todo = browses, !.found = located]
      <4>1. Set(p, c)
        BY <2>1, <3>2 DEF StartPurge
      <4>2. /\ c \in CmdType /\ c.op = "purge" /\ c.at = "list"
            /\ c.remove = {} /\ c.areas = {} /\ c.found = located /\ c.view = None
        BY <1>1, <1>2 DEF CmdType
      <4> QED
        BY <4>1, <4>2
    <3> QED
      BY <3>1, <3>2
  <2>2. CASE StartDelete(p)
    <3>1. PICK ids \in BOOLEAN, w \in Windows \cup {Always} :
            \E D \in IF ids THEN SUBSET browses ELSE {InWindow(w)} :
              Set(p, [Begun("delete", "list") EXCEPT !.todo = D, !.found = located,
                        !.ids = ids, !.window = w])
      BY <2>2 DEF StartDelete
    <3>2. PICK D \in SUBSET browses :
              Set(p, [Begun("delete", "list") EXCEPT !.todo = D, !.found = located,
                        !.ids = ids, !.window = w])
      BY <3>1 DEF InWindow
    <3> DEFINE c == [Begun("delete", "list") EXCEPT !.todo = D, !.found = located,
                       !.ids = ids, !.window = w]
    <3>3. /\ c \in CmdType /\ c.op = "delete" /\ c.at = "list"
          /\ c.remove = {} /\ c.areas = {} /\ c.found = located /\ c.view = None
      BY <1>1, <1>2, <1>3 DEF CmdType
    <3> QED
      BY <3>2, <3>3
  <2> QED
    BY <2>1, <2>2
<1>6. StepsOf(c) /\ ~Writes(c)
  BY <1>2, <1>5 DEF StepsOf, Writes
<1>7. ~Writes(cmd[p])
  BY <1>4, BegunTyping
<1>8. cmd'[p] = c
  BY <1>5, SetValue
<1>9. tiles' \in SUBSET TileType
  BY <1>4 DEF Basic, Types
<1>10. Basic' /\ (PackageThere' => PackageThere)
  BY <1>4, <1>5, <1>6, <1>7, <1>9, QuietBasic
<1> QED
  BY <1>4, <1>5, <1>8, <1>10

LEMMA ReadEarlyBasic ==
  ASSUME Basic, NEW p \in Proc, ReadTimesEarly(p)
  PROVE  /\ Basic' /\ (PackageThere' => PackageThere)
         /\ cmd'[p] = [cmd[p] EXCEPT !.view = times] /\ cmd[p].op \in {"ingest", "import", "delete", "purge"}
         /\ cmd[p].at \in {"write", "list"} /\ cmd[p] \in CmdType /\ StepsOf(cmd[p])
<1> DEFINE c == [cmd[p] EXCEPT !.view = times]
<1>1. /\ cmd[p] \in CmdType /\ StepsOf(cmd[p]) /\ ~Writes(cmd[p])
      /\ cmd[p].at \in {"write", "list"} /\ times \in SUBSET Span
      /\ cmd[p].op \in {"ingest", "import", "delete", "purge"}
  BY DEF Basic, Types, Control, ReadTimesEarly, At, Writes, StepsOf
<1>2. Set(p, c)
  BY DEF ReadTimesEarly
<1>3. /\ c \in CmdType /\ c.op = cmd[p].op /\ c.at = cmd[p].at /\ c.todo = cmd[p].todo
      /\ c.now = cmd[p].now /\ c.force = cmd[p].force /\ c.old = cmd[p].old
      /\ c.found = cmd[p].found /\ c.rows = cmd[p].rows /\ c.remove = cmd[p].remove
      /\ c.areas = cmd[p].areas
  BY <1>1 DEF CmdType
<1>4. UNCHANGED <<rows, disk, layer, seeding, package, writer>> /\ tiles' \in SUBSET TileType
  BY DEF ReadTimesEarly, fixed, Basic, Types
<1>5. cmd'[p] = c
  BY <1>2, SetValue
<1> HIDE DEF c
<1>6. StepsOf(c) /\ ~Writes(c) /\ c.op # "export"
  BY <1>1, <1>3 DEF StepsOf, Writes
<1>7. c.op = "import" => cmd[p].op = "import" /\ ImportOf(c)
  BY <1>1, <1>3 DEF Basic, Control, ImportOf
<1>8. Basic' /\ (PackageThere' => PackageThere)
  BY <1>1, <1>2, <1>3, <1>4, <1>6, <1>7, QuietBasic
<1> QED
  BY <1>1, <1>5, <1>8 DEF c

LEMMA StartReseedBasic ==
  ASSUME Basic, NEW p \in Proc, StartReseed(p)
  PROVE  Basic' /\ (PackageThere' => PackageThere)
<1>1. PICK force \in BOOLEAN, w \in Windows \cup {Always} :
        Set(p, [Begun("reseed", "seed") EXCEPT !.force = force,
                  !.areas = { d \in Dims(times) : Selected(d, w) }])
  BY DEF StartReseed
<1> DEFINE D == { d \in Dims(times) : Selected(d, w) }
           c == [Begun("reseed", "seed") EXCEPT !.force = force, !.areas = D]
<1>2. D \in SUBSET DimType
  BY DimsTyping DEF Basic, Types
<1> HIDE DEF D
<1>3. /\ c \in CmdType /\ StepsOf(c) /\ ~Writes(c) /\ c.op = "reseed"
  <2>0. /\ Begun("reseed", "seed") \in CmdType
        /\ Begun("reseed", "seed").op = "reseed" /\ Begun("reseed", "seed").at = "seed"
        /\ Begun("reseed", "seed").remove = {} /\ Begun("reseed", "seed").areas = {}
    BY BegunTyping
  <2>1. /\ c \in CmdType /\ c.op = "reseed" /\ c.at = "seed" /\ c.remove = {}
    BY <1>2, <2>0 DEF CmdType
  <2> HIDE DEF c
  <2> QED
    BY <2>1 DEF StepsOf, Writes
<1>4. Set(p, c) /\ ~Writes(cmd[p])
  BY <1>1, BegunTyping DEF D, StartReseed, MayStart
<1>5. UNCHANGED <<rows, disk, layer, seeding, package, writer>> /\ tiles' \in SUBSET TileType
  BY DEF StartReseed, fixed, Basic, Types
<1> QED
  BY <1>3, <1>4, <1>5, QuietBasic

\* The transaction of an ingestion or an import is rolled back.
LEMMA UndoBasic ==
  ASSUME Basic, NEW p \in Proc, At(p, {"ingest", "import"}, "write"), NEW why, Undo(p, why)
  PROVE  Basic' /\ (PackageThere' => PackageThere) /\ cmd'[p].view = None
<1> DEFINE c == IF cmd[p].op = "import"
                  THEN [cmd[p] EXCEPT !.at = "next", !.areas = {}, !.found = None, !.view = None]
                  ELSE Idle
<1>1. cmd[p] \in CmdType /\ StepsOf(cmd[p]) /\ ~Writes(cmd[p]) /\ cmd[p].at = "write"
  BY DEF Basic, Types, Control, At, Writes
<1>4. Set(p, c)
  BY DEF Undo
<1>5. UNCHANGED <<rows, disk, layer, seeding, package, writer>> /\ tiles' \in SUBSET TileType
  BY DEF Undo, Without, fixed, Basic, Types
<1>6. cmd'[p] = c
  BY <1>4, SetValue
<1>2. CASE cmd[p].op = "import"
  <2>1. c = [cmd[p] EXCEPT !.at = "next", !.areas = {}, !.found = None, !.view = None]
    BY <1>2
  <2> HIDE DEF c
  <2>4. /\ c \in CmdType /\ c.op = "import" /\ c.at = "next" /\ c.view = None /\ c.areas = {}
        /\ c.todo = cmd[p].todo /\ c.now = cmd[p].now /\ c.force = cmd[p].force
        /\ c.remove = cmd[p].remove
    BY <1>1, <1>2, <2>1 DEF CmdType
  <2>2. /\ c \in CmdType /\ StepsOf(c) /\ ~Writes(c) /\ c.op = "import" /\ c.view = None
        /\ c.todo = cmd[p].todo /\ c.now = cmd[p].now /\ c.force = cmd[p].force
    BY <1>1, <2>4 DEF StepsOf, Writes
  <2>3. ImportOf(c)
    BY <1>1, <1>2, <2>2 DEF Basic, Control, ImportOf
  <2> QED
    BY <1>1, <1>2, <1>4, <1>5, <1>6, <2>2, <2>3, QuietBasic
<1>3. CASE cmd[p].op # "import"
  <2>1. c = Idle
    BY <1>3
  <2> QED
    BY <1>1, <1>4, <1>5, <1>6, <2>1, BegunTyping, QuietBasic
<1> QED
  BY <1>2, <1>3

LEMMA FilesDoneBasic ==
  ASSUME Basic, NEW p \in Proc, FilesDone(p)
  PROVE  Basic' /\ (PackageThere' => PackageThere)
<1> DEFINE c == IF cmd[p].op = "purge"
                  THEN [cmd[p] EXCEPT !.at = "drop"]
                  ELSE [cmd[p] EXCEPT !.at = "seed",
                          !.areas = { d \in @ : ~Skipped(cmd[p], d) }]
<1>1. cmd[p] \in CmdType /\ StepsOf(cmd[p]) /\ ~Writes(cmd[p]) /\ cmd[p].at = "files"
      /\ cmd[p].remove = {}
  BY DEF Basic, Types, Control, FilesDone, Writes
<1>2. /\ c \in CmdType /\ StepsOf(c) /\ ~Writes(c) /\ c.op \notin {"export", "import"}
  <2>1. CASE cmd[p].op = "purge"
    <3>1. c = [cmd[p] EXCEPT !.at = "drop"]
      BY <2>1
    <3> HIDE DEF c
    <3>2. c \in CmdType /\ c.op = "purge" /\ c.at = "drop" /\ c.remove = {}
      BY <1>1, <2>1, <3>1 DEF CmdType
    <3> QED
      BY <3>2 DEF StepsOf, Writes
  <2>2. CASE cmd[p].op # "purge"
    <3> DEFINE D == { d \in cmd[p].areas : ~Skipped(cmd[p], d) }
    <3>1. c = [cmd[p] EXCEPT !.at = "seed", !.areas = D]
      BY <2>2
    <3>2. D \in SUBSET DimType
      BY <1>1 DEF CmdType
    <3> HIDE DEF c, D
    <3>3. cmd[p].op = "delete"
      BY <1>1, <2>2 DEF StepsOf
    <3>4. c \in CmdType /\ c.op = "delete" /\ c.at = "seed" /\ c.remove = {}
      BY <1>1, <3>1, <3>2, <3>3 DEF CmdType
    <3> QED
      BY <3>4 DEF StepsOf, Writes
  <2> QED
    BY <2>1, <2>2
<1>4. Set(p, c)
  BY DEF FilesDone, Go
<1>5. UNCHANGED <<rows, disk, layer, seeding, package, writer>> /\ tiles' \in SUBSET TileType
  BY DEF FilesDone, fixed, Basic, Types
<1> HIDE DEF c
<1> QED
  BY <1>1, <1>2, <1>4, <1>5, QuietBasic

LEMMA SeedBasic ==
  ASSUME Basic, NEW p \in Proc, Seed(p)
  PROVE  Basic' /\ (PackageThere' => PackageThere)
<1>1. cmd[p] \in CmdType /\ StepsOf(cmd[p]) /\ ~Writes(cmd[p]) /\ cmd[p].at = "seed"
  BY DEF Basic, Types, Control, Seed, Writes
<1>2. PICK d \in cmd[p].areas :
        LET next == [cmd[p] EXCEPT !.areas = @ \ {d}]
            failed == IF cmd[p].op = "import" THEN Idle ELSE next
        IN \/ /\ layer = "served"
              /\ tiles' = Seeded(tiles, d, cmd[p].force)
              /\ See(Coincidences(p, d)) /\ Set(p, next) /\ UNCHANGED faults
           \/ /\ layer # "served"
              /\ Set(p, failed) /\ UNCHANGED <<tiles, history>>
           \/ Fault("seed") /\ Set(p, failed) /\ UNCHANGED <<tiles, seen>>
  BY DEF Seed
<1>3. PICK c \in {[cmd[p] EXCEPT !.areas = @ \ {d}], Idle} :
        /\ Set(p, c) /\ (tiles' = Seeded(tiles, d, cmd[p].force) \/ tiles' = tiles)
  BY <1>2
<1>4. /\ c \in CmdType /\ StepsOf(c) /\ ~Writes(c) /\ c.op # "export"
      /\ c.op = "import" => cmd[p].op = "import" /\ ImportOf(c)
  <2>1. CASE c = Idle
    BY <2>1, BegunTyping
  <2>2. CASE c = [cmd[p] EXCEPT !.areas = @ \ {d}]
    <3>1. /\ c \in CmdType /\ StepsOf(c) /\ ~Writes(c) /\ c.op = cmd[p].op /\ c.at = "seed"
          /\ c.todo = cmd[p].todo /\ c.now = cmd[p].now /\ c.force = cmd[p].force
      BY <1>1, <2>2 DEF CmdType, StepsOf, Writes
    <3>2. c.op # "export"
      BY <1>1, <3>1 DEF StepsOf
    <3> QED
      BY <1>1, <3>1, <3>2 DEF Basic, Control, ImportOf
  <2> QED
    BY <1>3, <2>1, <2>2
<1>6. d \in DimType /\ tiles \in SUBSET TileType
  BY <1>1 DEF CmdType, Basic, Types
<1>7. tiles' \in SUBSET TileType
  BY <1>3, <1>6, SeededTyping DEF Basic
<1>8. UNCHANGED <<rows, disk, layer, seeding, package, writer>>
  BY DEF Seed, fixed
<1> QED
  BY <1>1, <1>3, <1>4, <1>7, <1>8, QuietBasic

LEMMA SeedDoneBasic ==
  ASSUME Basic, NEW p \in Proc, SeedDone(p)
  PROVE  Basic' /\ (PackageThere' => PackageThere)
<1> DEFINE c == IF cmd[p].op = "import" THEN [cmd[p] EXCEPT !.at = "next"] ELSE Idle
<1>1. /\ cmd[p] \in CmdType /\ StepsOf(cmd[p]) /\ ~Writes(cmd[p]) /\ cmd[p].at = "seed"
      /\ cmd[p].areas = {}
  BY DEF Basic, Types, Control, SeedDone, Writes
<1>4. Set(p, c)
  BY DEF SeedDone, Go
<1>5. UNCHANGED <<rows, disk, layer, seeding, package, writer>> /\ tiles' \in SUBSET TileType
  BY DEF SeedDone, fixed, Basic, Types
<1>2. CASE cmd[p].op = "import"
  <2>1. c = [cmd[p] EXCEPT !.at = "next"]
    BY <1>2
  <2> HIDE DEF c
  <2>2. /\ c \in CmdType /\ StepsOf(c) /\ ~Writes(c) /\ c.op = "import"
        /\ c.todo = cmd[p].todo /\ c.now = cmd[p].now /\ c.force = cmd[p].force
    BY <1>1, <1>2, <2>1 DEF CmdType, StepsOf, Writes
  <2>3. ImportOf(c)
    BY <1>1, <1>2, <2>2 DEF Basic, Control, ImportOf
  <2> QED
    BY <1>1, <1>2, <1>4, <1>5, <2>2, <2>3, QuietBasic
<1>3. CASE cmd[p].op # "import"
  <2>1. c = Idle
    BY <1>3
  <2> QED
    BY <1>1, <1>4, <1>5, <2>1, BegunTyping, QuietBasic
<1> QED
  BY <1>2, <1>3

LEMMA StartImportBasic ==
  ASSUME Basic, NEW p \in Proc, StartImport(p)
  PROVE  Basic' /\ (PackageThere' => PackageThere)
<1>1. PICK ignore \in BOOLEAN :
        Set(p, [Begun("import", "next") EXCEPT !.todo = package.rows,
                  !.force = ignore \/ package.tiles = {}])
  BY DEF StartImport
<1> DEFINE force == ignore \/ package.tiles = {}
           c == [Begun("import", "next") EXCEPT !.todo = package.rows, !.force = force]
<1>2. package \in PackageType /\ package # None /\ package.closed
  BY DEF StartImport, Basic, Types, PackageThere
<1>3. /\ c \in CmdType /\ StepsOf(c) /\ ~Writes(c) /\ c.op = "import"
      /\ c.todo = package.rows /\ c.at = "next" /\ c.force = force
  <2>1. force \in BOOLEAN /\ package.rows \in SUBSET Catalog
    BY <1>2 DEF PackageType
  <2> HIDE DEF force
  <2>0. /\ Begun("import", "next") \in CmdType
        /\ Begun("import", "next").op = "import" /\ Begun("import", "next").at = "next"
        /\ Begun("import", "next").remove = {} /\ Begun("import", "next").areas = {}
    BY BegunTyping
  <2>2. /\ c \in CmdType /\ c.op = "import" /\ c.todo = package.rows /\ c.at = "next"
        /\ c.force = force /\ c.remove = {} /\ c.areas = {}
    BY <2>0, <2>1 DEF CmdType
  <2> HIDE DEF c
  <2> QED
    BY <2>2 DEF StepsOf, Writes
<1>4. ImportOf(c)
  BY <1>2, <1>3 DEF ImportOf
<1>5. Set(p, c) /\ ~Writes(cmd[p]) /\ Alone(p)
  BY <1>1, BegunTyping DEF StartImport, MayStart
<1>6. UNCHANGED <<rows, disk, layer, seeding, package, writer>> /\ tiles' \in SUBSET TileType
  BY DEF StartImport, fixed, Basic, Types
<1> HIDE DEF c
<1> QED
  BY <1>2, <1>3, <1>4, <1>5, <1>6, QuietBasic

LEMMA NextBrowseBasic ==
  ASSUME Basic, NEW p \in Proc, NextBrowse(p)
  PROVE  Basic' /\ (PackageThere' => PackageThere)
<1>1. /\ cmd[p] \in CmdType /\ StepsOf(cmd[p]) /\ ~Writes(cmd[p]) /\ cmd[p].op = "import"
      /\ cmd[p].at = "next" /\ ImportOf(cmd[p])
  BY DEF Basic, Types, Control, NextBrowse, At, Writes, ImportOf
<1>2. PICK c : /\ Set(p, c) /\ c \in CmdType /\ StepsOf(c) /\ ~Writes(c) /\ c.op # "export"
               /\ c.op = "import" => ImportOf(c)
  <2>1. CASE cmd[p].todo = {} /\ Set(p, Idle)
    BY <2>1, BegunTyping
  <2>2. ASSUME NEW b \in cmd[p].todo,
               Set(p, [cmd[p] EXCEPT !.at = "write", !.now = b, !.todo = @ \ {b},
                         !.old = LookedUp(b), !.found = located])
        PROVE  \E c : /\ Set(p, c) /\ c \in CmdType /\ StepsOf(c) /\ ~Writes(c) /\ c.op # "export"
                      /\ c.op = "import" => ImportOf(c)
    <3> DEFINE old == LookedUp(b)
               c == [cmd[p] EXCEPT !.at = "write", !.now = b, !.todo = @ \ {b}, !.old = old,
                                   !.found = located]
    <3>3. b \in Catalog /\ b \in package.rows
      BY <1>1 DEF CmdType, ImportOf
    <3>1. old \in Catalog \cup {None} /\ (old # None => old.name = b.name)
          /\ located \in [Name -> Path \cup {None}]
      BY <3>3, LookedUpTyping DEF Basic, Types
    <3>2. Set(p, c)
      BY <2>2
    <3> HIDE DEF old
    <3>4. c \in CmdType /\ c.now = b /\ c.at = "write" /\ c.old = old /\ c.op = "import"
          /\ c.todo = cmd[p].todo \ {b} /\ c.remove = cmd[p].remove /\ c.areas = cmd[p].areas
          /\ c.force = cmd[p].force /\ c.found = located
      BY <1>1, <3>1, <3>3 DEF CmdType
    <3> HIDE DEF c
    <3>5. StepsOf(c) /\ ~Writes(c)
      BY <1>1, <3>1, <3>3, <3>4 DEF StepsOf, Writes
    <3>6. ImportOf(c)
      BY <1>1, <3>3, <3>4 DEF ImportOf
    <3> QED
      BY <3>2, <3>4, <3>5, <3>6
  <2> QED
    BY <2>1, <2>2 DEF NextBrowse
<1>3. UNCHANGED <<rows, disk, layer, seeding, package, writer>> /\ tiles' \in SUBSET TileType
  BY DEF NextBrowse, fixed, Basic, Types
<1> QED
  BY <1>1, <1>2, <1>3, QuietBasic

LEMMA ImportTilesBasic ==
  ASSUME Basic, NEW p \in Proc, ImportTiles(p)
  PROVE  Basic' /\ (PackageThere' => PackageThere)
<1>1. /\ cmd[p] \in CmdType /\ StepsOf(cmd[p]) /\ ~Writes(cmd[p]) /\ cmd[p].op = "import"
      /\ cmd[p].at = "tiles" /\ ImportOf(cmd[p]) /\ package \in PackageType
  BY DEF Basic, Types, Control, ImportTiles, At, Writes, ImportOf, PackageThere
<1> DEFINE d == Dim(cmd[p].now.area)
<1>2. d \in DimType
  <2>1. cmd[p].now \in Catalog
    BY <1>1 DEF ImportOf, PackageType
  <2> QED
    BY <2>1, CatalogTyping DEF Dim, DimType, Span
<1> HIDE DEF d
<1>3. PICK c \in {[cmd[p] EXCEPT !.at = "seed", !.areas = {d}], Idle,
                  [cmd[p] EXCEPT !.at = "next", !.areas = {}]} :
        Set(p, c) /\ tiles' \in {tiles, tiles \cup LowTiles(package.tiles, d)}
  BY DEF ImportTiles, d
<1>4. /\ c \in CmdType /\ StepsOf(c) /\ ~Writes(c) /\ c.op # "export"
      /\ c.op = "import" => ImportOf(c)
  <2>1. CASE c = Idle
    BY <2>1, BegunTyping
  <2>2. CASE c = [cmd[p] EXCEPT !.at = "seed", !.areas = {d}]
    <3>1. /\ c \in CmdType /\ c.op = "import" /\ c.at = "seed" /\ c.areas = {d}
          /\ c.todo = cmd[p].todo /\ c.now = cmd[p].now /\ c.force = cmd[p].force
          /\ c.remove = cmd[p].remove
      BY <1>1, <1>2, <2>2 DEF CmdType
    <3> QED
      BY <1>1, <3>1 DEF StepsOf, Writes, ImportOf
  <2>3. CASE c = [cmd[p] EXCEPT !.at = "next", !.areas = {}]
    <3>1. /\ c \in CmdType /\ c.op = "import" /\ c.at = "next" /\ c.areas = {}
          /\ c.todo = cmd[p].todo /\ c.now = cmd[p].now /\ c.force = cmd[p].force
          /\ c.remove = cmd[p].remove
      BY <1>1, <1>2, <2>3 DEF CmdType
    <3> QED
      BY <1>1, <3>1 DEF StepsOf, Writes, ImportOf
  <2> QED
    BY <1>3, <2>1, <2>2, <2>3
<1>5. tiles' \in SUBSET TileType
  BY <1>1, <1>3 DEF LowTiles, TilesOf, PackageType, Basic, Types
<1>6. UNCHANGED <<rows, disk, layer, seeding, package, writer>>
  BY DEF ImportTiles, fixed
<1> QED
  BY <1>1, <1>3, <1>4, <1>5, <1>6, QuietBasic

-----------------------------------------------------------------------------
(* Steps of transactions *)

\* A deletion takes the lock of the databases.
LEMMA LockRowsBasic ==
  ASSUME Basic, NEW p \in Proc, LockRows(p)
  PROVE  /\ Basic' /\ (PackageThere' => PackageThere) /\ writer = None /\ Target' = Target
         /\ writer' = p /\ layer # "gone"
         /\ cmd[p] \in CmdType /\ StepsOf(cmd[p]) /\ cmd[p].at = "list"
         /\ cmd[p].op \in {"delete", "purge"}
         /\ cmd'[p] = [cmd[p] EXCEPT !.at = "remove", !.rows = Committed]
         /\ cmd'[p].op = cmd[p].op /\ cmd'[p].rows = Committed /\ cmd'[p].remove = {}
         /\ cmd'[p].areas = {} /\ cmd'[p].at = "remove" /\ cmd'[p].todo = cmd[p].todo
         /\ cmd'[p].found = cmd[p].found /\ cmd'[p].view = cmd[p].view
         /\ cmd'[p].ids = cmd[p].ids /\ cmd'[p].window = cmd[p].window
         /\ \A q \in Proc : q # p => cmd'[q] = cmd[q]
         /\ UNCHANGED <<rows, disk, tiles, layer, seeding, package, faults>>
<1> DEFINE c == [cmd[p] EXCEPT !.at = "remove", !.rows = Committed]
<1>1. /\ cmd[p] \in CmdType /\ StepsOf(cmd[p]) /\ ~Writes(cmd[p]) /\ cmd[p].at = "list"
      /\ cmd[p].op \in {"delete", "purge"} /\ cmd[p].remove = {} /\ cmd[p].areas = {}
  BY DEF Basic, Types, Control, LockRows, Writes, StepsOf
<1>2. Committed \in RowsType
  BY DEF Committed, RowsType, Basic, Types
<1>3. /\ UNCHANGED <<rows, disk, tiles, layer, seeding, package, faults>> /\ writer' = p
      /\ ~Busy(p) /\ layer # "gone" /\ Set(p, c)
  BY DEF LockRows, Locked, fixed
<1>4. writer = None
  BY <1>1, <1>3 DEF Busy, Basic, Control, Writes
<1>5. /\ c \in CmdType /\ c.op = cmd[p].op /\ c.at = "remove" /\ c.rows = Committed
      /\ c.remove = {} /\ c.areas = {} /\ c.todo = cmd[p].todo /\ c.found = cmd[p].found
      /\ c.view = cmd[p].view /\ c.ids = cmd[p].ids /\ c.window = cmd[p].window
  BY <1>1, <1>2 DEF CmdType
<1>6. cmd'[p] = c /\ \A q \in Proc : q # p => cmd'[q] = cmd[q]
  BY <1>3, SetValue
<1> HIDE DEF c
<1>7. StepsOf(c) /\ Writes(c) /\ c.op # "export" /\ c.op # "import"
  BY <1>1, <1>2, <1>5 DEF StepsOf, Writes
<1>8. Target' = Target
  <2>1. p # None
    BY LayerDataAssumption
  <2>2. Target' = cmd'[p].rows /\ Target = Committed
    BY <1>3, <1>4, <2>1 DEF Target
  <2> QED
    BY <1>5, <1>6, <2>2
<1>9. Basic' /\ (PackageThere' => PackageThere)
  <2>1. /\ UNCHANGED package /\ UNCHANGED seeding
        /\ browses' \in SUBSET Catalog /\ times' \in SUBSET Span
        /\ located' \in [Name -> Path \cup {None}] /\ disk' \in [Path -> Catalog \cup {None}]
        /\ tiles' \in SUBSET TileType
        /\ layer' \in {"served", "gone"} /\ writer' \in Proc \cup {None}
        /\ (writer' = p <=> Writes(c)) /\ \A q \in Proc : q # p => (writer' = q <=> writer = q)
        /\ layer' # "gone"
    BY <1>3, <1>4, <1>7, LayerDataAssumption DEF Basic, Types, rows
  <2> QED
    BY <1>3, <1>5, <1>7, <2>1, StepBasic
<1> QED
  BY <1>1, <1>3, <1>4, <1>5, <1>6, <1>8, <1>9 DEF c

\* A deletion is rolled back, as a browse of its list is not there any more.
LEMMA ListedGoneBasic ==
  ASSUME Basic, NEW p \in Proc, ListedGone(p)
  PROVE  /\ Basic' /\ (PackageThere' => PackageThere)
         /\ UNCHANGED <<rows, disk, tiles, layer, seeding, package, faults, seen>>
         /\ writer' = (IF writer = p THEN None ELSE writer) /\ cmd'[p] = Idle
         /\ \A q \in Proc : q # p => cmd'[q] = cmd[q]
         /\ cmd[p] \in CmdType /\ StepsOf(cmd[p]) /\ cmd[p].op \in {"delete", "purge"}
         /\ \/ cmd[p].at = "list" /\ writer # p
            \/ /\ cmd[p].at = "remove" /\ writer = p
               /\ \E o \in cmd[p].todo : cmd[p].rows.located[o.name] = None
<1>1. StepsOf(Idle) /\ ~Writes(Idle) /\ Idle \in CmdType /\ Idle.op = "idle"
  BY BegunTyping
<1>2. /\ UNCHANGED <<rows, disk, tiles, layer, seeding, package, faults, seen>>
      /\ writer' = (IF writer = p THEN None ELSE writer) /\ Set(p, Idle)
  BY DEF ListedGone, fixed, history
<1>3. /\ UNCHANGED package /\ UNCHANGED seeding
      /\ browses' \in SUBSET Catalog /\ times' \in SUBSET Span
      /\ located' \in [Name -> Path \cup {None}] /\ disk' \in [Path -> Catalog \cup {None}]
      /\ tiles' \in SUBSET TileType
      /\ layer' \in {"served", "gone"} /\ writer' \in Proc \cup {None}
  BY <1>2 DEF Basic, Types, rows
<1>4. /\ (writer' = p <=> Writes(Idle)) /\ \A q \in Proc : q # p => (writer' = q <=> writer = q)
      /\ (layer' = "gone" => browses' = {} /\ times' = {} /\ writer' = None)
  BY <1>1, <1>2, LayerDataAssumption DEF Basic, Control, rows
<1>6. Basic' /\ (PackageThere' => PackageThere)
  BY <1>1, <1>2, <1>3, <1>4, StepBasic
<1>7. cmd'[p] = Idle /\ \A q \in Proc : q # p => cmd'[q] = cmd[q]
  BY <1>2, SetValue
<1>8. /\ cmd[p] \in CmdType /\ StepsOf(cmd[p]) /\ cmd[p].op \in {"delete", "purge"}
      /\ \/ cmd[p].at = "list" /\ writer # p
         \/ /\ cmd[p].at = "remove" /\ writer = p
            /\ \E o \in cmd[p].todo : cmd[p].rows.located[o.name] = None
  BY DEF ListedGone, At, Basic, Types, Control, StepsOf
<1> QED
  BY <1>2, <1>6, <1>7, <1>8

LEMMA ReadTyping ==
  ASSUME NEW p \in Proc, cmd[p] \in CmdType, NEW T \in SUBSET Span
  PROVE  /\ Read(p, T) \in SUBSET Span /\ ReadAgain(p, T) \in SUBSET Span
         /\ cmd[p].view = None => Read(p, T) = T /\ ReadAgain(p, T) = T
BY DEF Read, ReadAgain, CmdType

\* What one round of the loop of a deletion does.
LEMMA RemoveBasic ==
  ASSUME Basic, NEW p \in Proc, RemoveBrowse(p)
  PROVE  /\ Basic' /\ (PackageThere' => PackageThere) /\ writer = p /\ cmd[p].at = "remove"
         /\ cmd[p].op \in {"delete", "purge"} /\ cmd[p].rows \in RowsType
         /\ cmd[p] \in CmdType /\ layer # "gone"
         /\ \A q \in Proc : q # p => cmd'[q] = cmd[q]
         /\ UNCHANGED <<rows, disk, layer, seeding, package, writer, seen>>
         /\ \E o \in cmd[p].todo :
            LET r == cmd[p].rows
                left == r.browses \ Named(r.browses, o.name)
            IN \E f \in {r.located[o.name]} \cup
                          (IF cmd[p].found = None THEN {} ELSE {cmd[p].found[o.name]}) :
               \E m \in Removals(Read(p, r.times), r.times, o, left) :
                 /\ o \in Catalog /\ o.name \in Name /\ r.located[o.name] # None
                 /\ m.times \in SUBSET Span /\ m.unseed \in SUBSET DimType
                 /\ m.areas \in SUBSET DimType
                 /\ IF cmd[p].op = "delete" THEN Unseeds(m.unseed) ELSE UNCHANGED <<tiles, faults>>
                 /\ cmd'[p] = [cmd[p] EXCEPT
                      !.todo = @ \ {o},
                      !.found = None, !.view = None,
                      !.rows = [browses |-> left, times |-> m.times,
                                located |-> [r.located EXCEPT ![o.name] = None]],
                      !.remove = @ \cup {f},
                      !.areas = @ \cup m.areas]
<1>1. /\ cmd[p] \in CmdType /\ StepsOf(cmd[p]) /\ cmd[p].at = "remove" /\ writer = p
      /\ cmd[p].op \in {"delete", "purge"} /\ cmd[p].rows \in RowsType
  BY DEF Basic, Types, Control, RemoveBrowse, At, StepsOf
<1>2. layer # "gone"
  BY <1>1, LayerDataAssumption DEF Basic, Control
<1>3. UNCHANGED <<rows, disk, layer, seeding, package, writer, seen>>
  BY DEF RemoveBrowse, fixed
<1>4. PICK o \in cmd[p].todo :
     LET r == cmd[p].rows
         left == r.browses \ Named(r.browses, o.name)
         paths == {r.located[o.name]} \cup (IF cmd[p].found = None THEN {} ELSE {cmd[p].found[o.name]})
     IN \E m \in Removals(Read(p, r.times), r.times, o, left), f \in paths :
          /\ r.located[o.name] # None
          /\ IF cmd[p].op = "delete" THEN Unseeds(m.unseed) ELSE UNCHANGED <<tiles, faults>>
          /\ Set(p, [cmd[p] EXCEPT
                       !.todo = @ \ {o},
                       !.found = None, !.view = None,
                       !.rows = [browses |-> left, times |-> m.times,
                                 located |-> [r.located EXCEPT ![o.name] = None]],
                       !.remove = @ \cup {f},
                       !.areas = @ \cup m.areas])
  BY DEF RemoveBrowse
<1> DEFINE r == cmd[p].rows
           left == r.browses \ Named(r.browses, o.name)
           paths == {r.located[o.name]} \cup (IF cmd[p].found = None THEN {} ELSE {cmd[p].found[o.name]})
<1>5. PICK m \in Removals(Read(p, r.times), r.times, o, left), f \in paths :
          /\ r.located[o.name] # None
          /\ IF cmd[p].op = "delete" THEN Unseeds(m.unseed) ELSE UNCHANGED <<tiles, faults>>
          /\ Set(p, [cmd[p] EXCEPT
                       !.todo = @ \ {o},
                       !.found = None, !.view = None,
                       !.rows = [browses |-> left, times |-> m.times,
                                 located |-> [r.located EXCEPT ![o.name] = None]],
                       !.remove = @ \cup {f},
                       !.areas = @ \cup m.areas])
  BY <1>4
<1> DEFINE after == [browses |-> left, times |-> m.times,
                     located |-> [r.located EXCEPT ![o.name] = None]]
           c == [cmd[p] EXCEPT !.todo = @ \ {o}, !.found = None, !.view = None, !.rows = after,
                   !.remove = @ \cup {f}, !.areas = @ \cup m.areas]
<1>6. /\ o \in Catalog /\ o.name \in Name /\ left \in SUBSET Catalog /\ r.times \in SUBSET Span
      /\ r.located \in [Name -> Path \cup {None}]
  <2>1. cmd[p].todo \in SUBSET Catalog
    BY <1>1 DEF CmdType
  <2>2. /\ o \in Catalog /\ left \in SUBSET Catalog /\ r.times \in SUBSET Span
        /\ r.located \in [Name -> Path \cup {None}]
    BY <1>1, <2>1 DEF RowsType
  <2>3. o.name \in Name
    BY <2>2, NameTyping
  <2> QED
    BY <2>2, <2>3
<1>7. m.times \in SUBSET Span /\ m.unseed \in SUBSET DimType /\ m.areas \in SUBSET DimType
  BY <1>1, <1>6, RemovalsTyping, ReadTyping
<1>8. after \in RowsType
  BY <1>6, <1>7 DEF RowsType
<1>10. tiles' \in SUBSET TileType
  BY <1>5 DEF Unseeds, Without, Basic, Types
<1>11. f \in Path \cup {None}
  <2>1. r.located[o.name] \in Path \cup {None}
    BY <1>6
  <2>2. cmd[p].found # None => cmd[p].found[o.name] \in Path \cup {None}
    BY <1>1, <1>6 DEF CmdType
  <2> QED
    BY <2>1, <2>2
<1> HIDE DEF after, left, r, paths
<1>12. /\ c \in CmdType /\ c.op = cmd[p].op /\ c.at = "remove" /\ c.rows = after
  BY <1>1, <1>7, <1>8, <1>11 DEF CmdType
<1>13. Set(p, c)
  BY <1>5 DEF after
<1> HIDE DEF c
<1>14. StepsOf(c) /\ Writes(c) /\ c.op # "import" /\ c.op # "export"
  BY <1>1, <1>8, <1>12 DEF StepsOf, Writes
<1>15. Basic' /\ (PackageThere' => PackageThere)
  <2>1. /\ UNCHANGED package /\ UNCHANGED seeding
        /\ browses' \in SUBSET Catalog /\ times' \in SUBSET Span
        /\ located' \in [Name -> Path \cup {None}] /\ disk' \in [Path -> Catalog \cup {None}]
        /\ layer' \in {"served", "gone"} /\ writer' \in Proc \cup {None}
        /\ (writer' = p <=> Writes(c)) /\ \A q \in Proc : q # p => (writer' = q <=> writer = q)
        /\ layer' # "gone"
    BY <1>1, <1>2, <1>3, <1>14 DEF Basic, Types, rows
  <2> QED
    BY <1>10, <1>12, <1>13, <1>14, <2>1, StepBasic
<1>16. cmd'[p] = c /\ \A q \in Proc : q # p => cmd'[q] = cmd[q]
  BY <1>13, SetValue
<1>17. \E g \in {r.located[o.name]} \cup
                          (IF cmd[p].found = None THEN {} ELSE {cmd[p].found[o.name]}) :
       \E k \in Removals(Read(p, r.times), r.times, o, left) :
                 /\ o \in Catalog /\ o.name \in Name /\ r.located[o.name] # None
                 /\ k.times \in SUBSET Span /\ k.unseed \in SUBSET DimType
                 /\ k.areas \in SUBSET DimType
                 /\ IF cmd[p].op = "delete" THEN Unseeds(k.unseed) ELSE UNCHANGED <<tiles, faults>>
                 /\ cmd'[p] = [cmd[p] EXCEPT
                      !.todo = @ \ {o},
                      !.found = None, !.view = None,
                      !.rows = [browses |-> left, times |-> k.times,
                                located |-> [r.located EXCEPT ![o.name] = None]],
                      !.remove = @ \cup {g},
                      !.areas = @ \cup k.areas]
  <2>1. f \in {r.located[o.name]} \cup
                          (IF cmd[p].found = None THEN {} ELSE {cmd[p].found[o.name]})
    BY DEF paths
  <2>2. cmd'[p] = [cmd[p] EXCEPT
                      !.todo = @ \ {o},
                      !.found = None, !.view = None,
                      !.rows = [browses |-> left, times |-> m.times,
                                located |-> [r.located EXCEPT ![o.name] = None]],
                      !.remove = @ \cup {f},
                      !.areas = @ \cup m.areas]
    BY <1>16 DEF c, after
  <2> QED
    BY <1>5, <1>6, <1>7, <2>1, <2>2
<1> QED
  BY <1>1, <1>2, <1>3, <1>15, <1>16, <1>17 DEF r, left

\* The browses in the way of those that are written, and the time index then.
BeforeWrite(p) ==
  IF cmd[p].old = None THEN {[times |-> times, unseed |-> {}, areas |-> {}]}
                       ELSE Removals(times, times, cmd[p].old, browses \ {cmd[p].old})

\* What the transaction of an ingestion or an import does.
LEMMA WriteBasic ==
  ASSUME Basic, NEW p \in Proc, Write(p)
  PROVE  /\ Basic' /\ (PackageThere' => PackageThere)
         /\ cmd[p] \in CmdType /\ StepsOf(cmd[p])
         /\ cmd[p].at = "write" /\ cmd[p].op \in {"ingest", "import"} /\ cmd[p].now \in Catalog
         /\ cmd[p].now.name \in Name
         /\ writer = None /\ writer' = p /\ layer # "gone"
         /\ LookupHolds(p)
         /\ Output(p) \in Path /\ NewImage(p) \in Catalog \cup {None}
         /\ cmd[p].old # None => cmd[p].old \in Catalog /\ cmd[p].old.name = cmd[p].now.name
         /\ cmd[p].op # "import" => Output(p) \in NewNames
         /\ \A q \in Proc : q # p => cmd'[q] = cmd[q]
         /\ See(IF LookupFresh(p) THEN {} ELSE {"stale"})
         /\ UNCHANGED <<rows, layer, seeding, package>>
         /\ \E m \in Replacement(p), f \in Replaced(p) :
              LET new == Creation(ReadAgain(p, m.times), m.times, cmd[p].now)
              IN  /\ OutputFree(p, f)
                  /\ \/ tiles' = Without(tiles, m.unseed \cup new.unseed) /\ UNCHANGED faults
                     \/ Fault("unseed") /\ tiles' = Without(tiles, new.unseed)
                  /\ m.times \in SUBSET Span /\ m.unseed \in SUBSET DimType
                  /\ m.areas \in SUBSET DimType
                  /\ disk' = [g \in Path |-> IF g = Output(p) THEN NewImage(p)
                                             ELSE IF g = f THEN None ELSE disk[g]]
                  /\ cmd'[p] = [cmd[p] EXCEPT
                       !.at = "commit", !.found = None, !.view = None,
                       !.rows = [browses |-> (browses \ Named(browses, cmd[p].now.name))
                                               \cup {cmd[p].now},
                                 times |-> new.times,
                                 located |-> [located EXCEPT ![cmd[p].now.name] = Output(p)]],
                       !.areas = m.areas \cup {Dim(new.hull)}]
<1> DEFINE b == cmd[p].now
           o == cmd[p].old
           left == browses \ Named(browses, b.name)
<1>1. /\ cmd[p] \in CmdType /\ StepsOf(cmd[p]) /\ ~Writes(cmd[p]) /\ cmd[p].at = "write"
      /\ cmd[p].op \in {"ingest", "import"}
  BY DEF Basic, Types, Control, Write, At, Writes
<1>2. b \in Catalog /\ b.name \in Name /\ b.area \in Span /\ left \in SUBSET Catalog
  <2>1. b \in Catalog
    BY <1>1 DEF StepsOf
  <2>2. b.name \in Name /\ b.area \in Span
    BY <2>1, NameTyping
  <2> QED
    BY <2>1, <2>2 DEF Basic, Types
<1>3. /\ writer = None /\ writer' = p /\ layer # "gone" /\ LookupHolds(p)
      /\ NewNames # {}
  BY <1>1 DEF Write, Locked, Busy, Basic, Control, Writes
<1>4. UNCHANGED <<rows, layer, seeding, package>>
  BY DEF Write, fixed
<1>5. cmd[p].op # "import" => Output(p) \in NewNames
  BY <1>3 DEF Output
<1>6. Output(p) \in Path
  BY <1>2, <1>5 DEF Output, NewNames, Path
<1>7. NewImage(p) \in Catalog \cup {None}
  <2>1. cmd[p].op = "import" => package \in PackageType
    BY DEF Basic, Types, PackageThere
  <2> QED
    BY <1>2, <2>1 DEF NewImage, PackageType
<1>8. o # None => o \in Catalog /\ o.name = b.name
  BY <1>1 DEF CmdType, StepsOf
<1>10. PICK m \in Replacement(p), f \in Replaced(p) :
         LET new == Creation(ReadAgain(p, m.times), m.times, b)
         IN  /\ OutputFree(p, f)
             /\ \/ tiles' = Without(tiles, m.unseed \cup new.unseed) /\ UNCHANGED faults
                \/ /\ m.unseed # {} /\ Fault("unseed")
                   /\ tiles' = Without(tiles, new.unseed)
             /\ disk' = [g \in Path |-> IF g = Output(p) THEN NewImage(p)
                                        ELSE IF g = f THEN None ELSE disk[g]]
             /\ Set(p, [cmd[p] EXCEPT
                        !.at = "commit", !.found = None, !.view = None,
                        !.rows = [browses |-> left \cup {b}, times |-> new.times,
                                  located |-> [located EXCEPT ![b.name] = Output(p)]],
                        !.areas = m.areas \cup {Dim(new.hull)}])
  BY DEF Write
<1> DEFINE new == Creation(ReadAgain(p, m.times), m.times, b)
           after == [browses |-> left \cup {b}, times |-> new.times,
                     located |-> [located EXCEPT ![b.name] = Output(p)]]
           c == [cmd[p] EXCEPT !.at = "commit", !.found = None, !.view = None, !.rows = after,
                                !.areas = m.areas \cup {Dim(new.hull)}]
<1>11. m.times \in SUBSET Span /\ m.unseed \in SUBSET DimType /\ m.areas \in SUBSET DimType
  <2>1. CASE o = None
    BY <2>1 DEF Replacement, Basic, Types
  <2>2. CASE o # None
    <3>1. /\ o \in Catalog /\ times \in SUBSET Span /\ Read(p, times) \in SUBSET Span
          /\ m \in Removals(Read(p, times), times, o, left)
      BY <1>1, <1>8, <2>2, ReadTyping DEF Replacement, Basic, Types
    <3> QED
      BY <1>2, <3>1, RemovalsTyping
  <2> QED
    BY <2>1, <2>2
<1>12. new.times \in SUBSET Span /\ Dim(new.hull) \in DimType
  <2>1. ReadAgain(p, m.times) \in SUBSET Span
    BY <1>1, <1>11, ReadTyping
  <2> QED
    BY <1>2, <1>11, <2>1, CreationTyping
<1> HIDE DEF new
<1>14. after \in RowsType
  BY <1>2, <1>6, <1>12 DEF RowsType, Basic, Types
<1>15. tiles' \in SUBSET TileType
  BY <1>10 DEF Without, Basic, Types
<1> HIDE DEF after, left
<1>16. /\ c \in CmdType /\ c.op = cmd[p].op /\ c.at = "commit" /\ c.rows = after /\ c.now = b
       /\ c.todo = cmd[p].todo /\ c.remove = cmd[p].remove /\ c.force = cmd[p].force
  BY <1>1, <1>11, <1>12, <1>14 DEF CmdType
<1>17. Set(p, c)
  BY <1>10 DEF after, new
<1> HIDE DEF c
<1>18. StepsOf(c) /\ Writes(c) /\ c.op # "export"
  BY <1>1, <1>2, <1>14, <1>16 DEF StepsOf, Writes
<1>19. c.op = "import" => cmd[p].op = "import" /\ ImportOf(c)
  BY <1>1, <1>16 DEF Basic, Control, ImportOf
<1>20. Basic' /\ (PackageThere' => PackageThere)
  <2>1. /\ UNCHANGED package /\ UNCHANGED seeding
        /\ browses' \in SUBSET Catalog /\ times' \in SUBSET Span
        /\ located' \in [Name -> Path \cup {None}]
        /\ layer' \in {"served", "gone"} /\ writer' \in Proc \cup {None}
        /\ (writer' = p <=> Writes(c)) /\ \A q \in Proc : q # p => (writer' = q <=> writer = q)
        /\ layer' # "gone"
    BY <1>3, <1>4, <1>18, LayerDataAssumption DEF Basic, Types, rows
  <2>2. disk' \in [Path -> Catalog \cup {None}]
    <3>1. \A g \in Path : disk[g] \in Catalog \cup {None}
      BY DEF Basic, Types
    <3> QED
      BY <1>7, <1>10, <3>1
  <2> QED
    BY <1>15, <1>16, <1>17, <1>18, <1>19, <2>1, <2>2, StepBasic
<1>21. cmd'[p] = c /\ \A q \in Proc : q # p => cmd'[q] = cmd[q]
  BY <1>17, SetValue
<1>22. LET nw == Creation(ReadAgain(p, m.times), m.times, cmd[p].now)
       IN  /\ OutputFree(p, f)
           /\ \/ tiles' = Without(tiles, m.unseed \cup nw.unseed) /\ UNCHANGED faults
              \/ Fault("unseed") /\ tiles' = Without(tiles, nw.unseed)
           /\ m.times \in SUBSET Span /\ m.unseed \in SUBSET DimType /\ m.areas \in SUBSET DimType
           /\ disk' = [g \in Path |-> IF g = Output(p) THEN NewImage(p)
                                      ELSE IF g = f THEN None ELSE disk[g]]
           /\ cmd'[p] = [cmd[p] EXCEPT
                !.at = "commit", !.found = None, !.view = None,
                !.rows = [browses |-> (browses \ Named(browses, cmd[p].now.name)) \cup {cmd[p].now},
                          times |-> nw.times,
                          located |-> [located EXCEPT ![cmd[p].now.name] = Output(p)]],
                !.areas = m.areas \cup {Dim(nw.hull)}]
  BY <1>10, <1>11, <1>21 DEF c, after, left, new
<1>23. See(IF LookupFresh(p) THEN {} ELSE {"stale"})
  BY DEF Write
<1> QED
  BY <1>1, <1>2, <1>3, <1>4, <1>5, <1>6, <1>7, <1>8, <1>20, <1>21, <1>22, <1>23

LEMMA CommitFirstBasic ==
  ASSUME Basic, NEW p \in Proc, CommitFirst(p)
  PROVE  /\ Basic' /\ (PackageThere' => PackageThere) /\ writer = p /\ Target' = Target
         /\ cmd[p].at \in {"commit", "remove"} /\ cmd[p].rows \in RowsType
         /\ cmd[p].at = "remove" => cmd[p].todo = {} /\ cmd[p].op \in {"delete", "purge"}
         /\ IF cmd[p].op \in {"ingest", "import"}
              THEN browses' = Target.browses /\ located' = Target.located /\ times' = times
              ELSE browses' = browses /\ located' = located /\ times' = Target.times
         /\ cmd'[p] = [cmd[p] EXCEPT !.at = "second"]
         /\ UNCHANGED <<disk, tiles, layer, seeding, package, writer, faults, seen>>
<1> DEFINE c == [cmd[p] EXCEPT !.at = "second"]
<1>1. /\ cmd[p] \in CmdType /\ StepsOf(cmd[p]) /\ cmd[p].at \in {"commit", "remove"}
      /\ writer = p /\ cmd[p].rows \in RowsType /\ layer # "gone"
      /\ cmd[p].at = "remove" => cmd[p].todo = {} /\ cmd[p].op \in {"delete", "purge"}
      /\ cmd[p].op \in {"ingest", "import", "delete", "purge"}
  BY LayerDataAssumption DEF Basic, Types, Control, CommitFirst, At, StepsOf
<1>2. /\ c \in CmdType /\ c.op = cmd[p].op /\ c.at = "second" /\ c.rows = cmd[p].rows
      /\ c.todo = cmd[p].todo /\ c.remove = cmd[p].remove /\ c.now = cmd[p].now
      /\ c.force = cmd[p].force
  BY <1>1 DEF CmdType
<1>3. Set(p, c)
  BY DEF CommitFirst, Go
<1>4. UNCHANGED <<disk, tiles, layer, seeding, package, writer, faults, seen>>
  BY DEF CommitFirst, fixed, history
<1>5. Target = cmd[p].rows
  BY <1>1, LayerDataAssumption DEF Target
<1>6. IF cmd[p].op \in {"ingest", "import"}
        THEN browses' = Target.browses /\ located' = Target.located /\ times' = times
        ELSE browses' = browses /\ located' = located /\ times' = Target.times
  BY <1>5 DEF CommitFirst
<1> HIDE DEF c
<1>7. cmd'[p] = c
  BY <1>2, <1>3, SetAt DEF Basic, Types
<1>8. Target' = Target
  <2>1. writer' = p /\ p # None
    BY <1>1, <1>4, LayerDataAssumption
  <2> QED
    BY <1>2, <1>5, <1>7, <2>1 DEF Target
<1>9. StepsOf(c) /\ Writes(c) /\ c.op # "export"
  BY <1>1, <1>2 DEF StepsOf, Writes
<1>10. c.op = "import" => cmd[p].op = "import" /\ ImportOf(c)
  BY <1>1, <1>2 DEF Basic, Control, ImportOf
<1>11. /\ browses' \in SUBSET Catalog /\ times' \in SUBSET Span
       /\ located' \in [Name -> Path \cup {None}]
  BY <1>1, <1>5, <1>6 DEF RowsType, Basic, Types
<1>12. /\ UNCHANGED package /\ UNCHANGED seeding /\ disk' \in [Path -> Catalog \cup {None}]
       /\ tiles' \in SUBSET TileType
       /\ layer' \in {"served", "gone"} /\ writer' \in Proc \cup {None}
       /\ (writer' = p <=> Writes(c)) /\ \A q \in Proc : q # p => (writer' = q <=> writer = q)
       /\ layer' # "gone"
  BY <1>1, <1>4, <1>9 DEF Basic, Types
<1>13. Basic' /\ (PackageThere' => PackageThere)
  BY <1>2, <1>3, <1>9, <1>10, <1>11, <1>12, StepBasic
<1> QED
  BY <1>1, <1>4, <1>6, <1>7, <1>8, <1>13 DEF c

LEMMA CommitSecondBasic ==
  ASSUME Basic, NEW p \in Proc, CommitSecond(p)
  PROVE  /\ Basic' /\ (PackageThere' => PackageThere) /\ writer = p /\ writer' = None
         /\ Target' = Target /\ cmd[p].at = "second"
         /\ browses' = Target.browses /\ located' = Target.located /\ times' = Target.times
         /\ UNCHANGED <<disk, tiles, layer, seeding, package, faults, seen>>
         /\ cmd'[p] = [cmd[p] EXCEPT !.rows = None,
               !.at = CASE cmd[p].op = "ingest" -> "seed"
                        [] cmd[p].op = "import" -> "tiles"
                        [] OTHER -> "files",
               !.areas = IF cmd[p].op = "ingest" /\ ~seeding THEN {} ELSE @]
<1> DEFINE at == CASE cmd[p].op = "ingest" -> "seed"
                   [] cmd[p].op = "import" -> "tiles"
                   [] OTHER -> "files"
           areas == IF cmd[p].op = "ingest" /\ ~seeding THEN {} ELSE cmd[p].areas
           c == [cmd[p] EXCEPT !.rows = None, !.at = at, !.areas = areas]
<1>1. /\ cmd[p] \in CmdType /\ StepsOf(cmd[p]) /\ cmd[p].at = "second"
      /\ writer = p /\ cmd[p].rows \in RowsType /\ layer # "gone"
      /\ cmd[p].op \in {"ingest", "import", "delete", "purge"}
  BY LayerDataAssumption DEF Basic, Types, Control, CommitSecond, StepsOf
<1>2. /\ areas \in SUBSET DimType /\ at \in {"seed", "tiles", "files"}
      /\ at = "seed" => cmd[p].op = "ingest"
      /\ at = "tiles" => cmd[p].op = "import"
      /\ at = "files" => cmd[p].op \in {"delete", "purge"}
  BY <1>1 DEF CmdType
<1>3. Set(p, c)
  BY DEF CommitSecond
<1> HIDE DEF at, areas
<1>4. /\ c \in CmdType /\ c.op = cmd[p].op /\ c.at = at
      /\ c.todo = cmd[p].todo /\ c.remove = cmd[p].remove /\ c.now = cmd[p].now
      /\ c.force = cmd[p].force
  BY <1>1, <1>2 DEF CmdType
<1>5. UNCHANGED <<disk, tiles, layer, seeding, package, faults, seen>> /\ writer' = None
  BY DEF CommitSecond, fixed, history
<1>6. Target = cmd[p].rows
  BY <1>1, LayerDataAssumption DEF Target
<1>7. browses' = Target.browses /\ located' = Target.located /\ times' = Target.times
  BY <1>6 DEF CommitSecond
<1> HIDE DEF c
<1>8. Target' = Target
  <2>1. Target' = Committed'
    BY <1>5 DEF Target
  <2>2. Target \in RowsType
    BY <1>1, <1>6
  <2> QED
    BY <1>7, <2>1, <2>2 DEF Committed, RowsType
<1>9. StepsOf(c) /\ ~Writes(c) /\ c.op # "export"
  BY <1>1, <1>2, <1>4 DEF StepsOf, Writes
<1>10. c.op = "import" => cmd[p].op = "import" /\ ImportOf(c)
  BY <1>1, <1>4 DEF Basic, Control, ImportOf
<1>11. /\ browses' \in SUBSET Catalog /\ times' \in SUBSET Span
       /\ located' \in [Name -> Path \cup {None}]
  BY <1>1, <1>6, <1>7 DEF RowsType
<1>12. /\ UNCHANGED package /\ UNCHANGED seeding /\ disk' \in [Path -> Catalog \cup {None}]
       /\ tiles' \in SUBSET TileType
       /\ layer' \in {"served", "gone"} /\ writer' \in Proc \cup {None}
       /\ (writer' = p <=> Writes(c)) /\ \A q \in Proc : q # p => (writer' = q <=> writer = q)
       /\ layer' # "gone"
  BY <1>1, <1>5, <1>9, LayerDataAssumption DEF Basic, Types
<1>13. Basic' /\ (PackageThere' => PackageThere)
  BY <1>3, <1>4, <1>9, <1>10, <1>11, <1>12, StepBasic
<1>14. cmd'[p] = c
  BY <1>3, <1>4, SetAt DEF Basic, Types
<1> QED
  BY <1>1, <1>5, <1>7, <1>8, <1>13, <1>14 DEF c, at, areas

LEMMA DeleteFileBasic ==
  ASSUME Basic, NEW p \in Proc, DeleteFile(p)
  PROVE  /\ Basic' /\ (PackageThere' => PackageThere)
         /\ UNCHANGED <<rows, tiles, layer, seeding, package, writer, faults, seen>>
         /\ cmd[p].at = "files" /\ cmd[p].op \in {"delete", "purge"}
         /\ \E f \in cmd[p].remove :
              /\ disk' = [disk EXCEPT ![f] = None]
              /\ cmd'[p] = [cmd[p] EXCEPT !.remove = @ \ {f}]
<1>1. /\ cmd[p] \in CmdType /\ StepsOf(cmd[p]) /\ ~Writes(cmd[p]) /\ cmd[p].at = "files"
      /\ cmd[p].op \in {"delete", "purge"}
  BY DEF Basic, Types, Control, DeleteFile, Writes, StepsOf
<1>2. PICK f \in cmd[p].remove :
        disk' = [disk EXCEPT ![f] = None] /\ Set(p, [cmd[p] EXCEPT !.remove = @ \ {f}])
  BY DEF DeleteFile
<1> DEFINE c == [cmd[p] EXCEPT !.remove = @ \ {f}]
<1>3. c \in CmdType /\ c.op = cmd[p].op /\ c.at = "files"
  BY <1>1 DEF CmdType
<1>4. Set(p, c)
  BY <1>2
<1>5. UNCHANGED <<rows, tiles, layer, seeding, package, writer, faults, seen>>
  BY DEF DeleteFile, fixed, history
<1> HIDE DEF c
<1>6. StepsOf(c) /\ ~Writes(c)
  BY <1>1, <1>3 DEF StepsOf, Writes
<1>7. disk' \in [Path -> Catalog \cup {None}]
  BY <1>2 DEF Basic, Types
<1>8. /\ UNCHANGED package /\ UNCHANGED seeding
      /\ browses' \in SUBSET Catalog /\ times' \in SUBSET Span
      /\ located' \in [Name -> Path \cup {None}] /\ tiles' \in SUBSET TileType
      /\ layer' \in {"served", "gone"} /\ writer' \in Proc \cup {None}
      /\ (writer' = p <=> Writes(c)) /\ \A q \in Proc : q # p => (writer' = q <=> writer = q)
      /\ (layer' = "gone" => browses' = {} /\ times' = {} /\ writer' = None)
      /\ c.op # "export" /\ c.op # "import"
  BY <1>1, <1>3, <1>5, <1>6 DEF Basic, Types, Control, Writes, rows
<1>9. Basic' /\ (PackageThere' => PackageThere)
  BY <1>3, <1>4, <1>6, <1>7, <1>8, StepBasic
<1>10. cmd'[p] = c
  BY <1>3, <1>4, SetAt DEF Basic, Types
<1> QED
  BY <1>1, <1>2, <1>5, <1>9, <1>10 DEF c

LEMMA DropLayerBasic ==
  ASSUME Basic, NEW p \in Proc, DropLayer(p)
  PROVE  /\ Basic' /\ (PackageThere' => PackageThere)
         /\ UNCHANGED <<seeding, package, writer, faults, seen>> /\ writer = None
         /\ browses' = {} /\ times' = {} /\ tiles' = {} /\ layer' = "gone"
         /\ located' = [n \in Name |-> None] /\ disk' = [f \in Path |-> None]
         /\ cmd'[p] = Idle /\ \A q \in Proc : q # p => cmd'[q] = cmd[q]
<1>1. StepsOf(Idle) /\ ~Writes(Idle) /\ Idle \in CmdType /\ Idle.op = "idle"
  BY BegunTyping
<1>2. cmd[p] \in CmdType /\ StepsOf(cmd[p]) /\ ~Writes(cmd[p]) /\ cmd[p].at = "drop"
  BY DEF Basic, Types, Control, DropLayer, Writes
<1>3. writer = None
  BY <1>2 DEF Basic, Control, DropLayer, Locked, Busy, Writes
<1>4. /\ UNCHANGED <<seeding, package, writer, faults, seen>>
      /\ browses' = {} /\ times' = {} /\ tiles' = {} /\ layer' = "gone"
      /\ located' = [n \in Name |-> None] /\ disk' = [f \in Path |-> None]
      /\ Set(p, Idle)
  BY DEF DropLayer, fixed, history
<1>5. /\ UNCHANGED package /\ UNCHANGED seeding
      /\ browses' \in SUBSET Catalog /\ times' \in SUBSET Span
      /\ located' \in [Name -> Path \cup {None}] /\ disk' \in [Path -> Catalog \cup {None}]
      /\ tiles' \in SUBSET TileType
      /\ layer' \in {"served", "gone"} /\ writer' \in Proc \cup {None}
      /\ (writer' = p <=> Writes(Idle)) /\ \A q \in Proc : q # p => (writer' = q <=> writer = q)
      /\ (layer' = "gone" => browses' = {} /\ times' = {} /\ writer' = None)
  BY <1>1, <1>3, <1>4, LayerDataAssumption
<1>6. Basic' /\ (PackageThere' => PackageThere)
  BY <1>1, <1>4, <1>5, StepBasic
<1>7. cmd'[p] = Idle /\ \A q \in Proc : q # p => cmd'[q] = cmd[q]
  BY <1>4, SetValue
<1> QED
  BY <1>3, <1>4, <1>6, <1>7

LEMMA KillBasic ==
  ASSUME Basic, NEW p \in Proc, Kill(p)
  PROVE  /\ Basic' /\ (PackageThere' => PackageThere)
         /\ UNCHANGED <<rows, disk, tiles, layer, seeding, package, seen>>
         /\ faults' = {IF cmd[p].op \in {"ingest", "import"} THEN "crash" ELSE "cut"}
         /\ faults = {}
         /\ writer' = (IF writer = p THEN None ELSE writer) /\ cmd'[p] = Idle
<1>1. StepsOf(Idle) /\ ~Writes(Idle) /\ Idle \in CmdType /\ Idle.op = "idle"
  BY BegunTyping
<1>2. /\ UNCHANGED <<rows, disk, tiles, layer, seeding, package, seen>>
      /\ faults' = {IF cmd[p].op \in {"ingest", "import"} THEN "crash" ELSE "cut"} /\ faults = {}
      /\ writer' = (IF writer = p THEN None ELSE writer) /\ Set(p, Idle)
  BY DEF Kill, fixed, Fault
<1>3. /\ UNCHANGED package /\ UNCHANGED seeding
      /\ browses' \in SUBSET Catalog /\ times' \in SUBSET Span
      /\ located' \in [Name -> Path \cup {None}] /\ disk' \in [Path -> Catalog \cup {None}]
      /\ tiles' \in SUBSET TileType
      /\ layer' \in {"served", "gone"} /\ writer' \in Proc \cup {None}
  BY <1>2 DEF Basic, Types, rows
<1>4. /\ (writer' = p <=> Writes(Idle)) /\ \A q \in Proc : q # p => (writer' = q <=> writer = q)
      /\ (layer' = "gone" => browses' = {} /\ times' = {} /\ writer' = None)
  BY <1>1, <1>2, LayerDataAssumption DEF Basic, Control, rows
<1>6. Basic' /\ (PackageThere' => PackageThere)
  BY <1>1, <1>2, <1>3, <1>4, StepBasic
<1>7. cmd'[p] = Idle
  BY <1>1, <1>2, SetAt DEF Basic, Types
<1> QED
  BY <1>2, <1>6, <1>7

LEMMA ViewBasic ==
  ASSUME Basic, View \/ UNCHANGED allvars
  PROVE  /\ Basic' /\ (PackageThere' => PackageThere)
         /\ UNCHANGED <<rows, disk, layer, seeding, package, writer, cmd, faults>>
<1>1. UNCHANGED <<rows, disk, layer, seeding, package, writer, cmd, faults>>
  BY DEF View, allvars, fixed, history
<1>2. tiles' \in SUBSET TileType
  <2>1. CASE UNCHANGED allvars
    BY <2>1 DEF allvars, Basic, Types
  <2>2. CASE View
    <3>1. PICK d \in Dims(times), l \in Levels : tiles' = tiles \cup {Tile(d, l, Rendered(d))}
      BY <2>2 DEF View
    <3>2. d \in DimType
      BY DimsTyping DEF Basic, Types
    <3> QED
      BY <3>1, <3>2 DEF Tile, TileType, Rendered, Basic, Types
  <2> QED
    BY <2>1, <2>2
<1>3. PackageThere' = PackageThere
  BY <1>1 DEF PackageThere
<1>4. Types'
  BY <1>1, <1>2, <1>3 DEF Basic, Types, rows
<1>5. Control'
  BY <1>1, <1>3 DEF Basic, Control, rows
<1> QED
  BY <1>1, <1>3, <1>4, <1>5 DEF Basic

-----------------------------------------------------------------------------
(* Steps of an export *)

\* The package is changed, by the only process that exports or imports.
LEMMA ExportStepBasic ==
  ASSUME Basic, NEW p \in Proc, NEW c \in CmdType, Set(p, c), StepsOf(c), Alone(p),
         UNCHANGED <<rows, disk, tiles, layer, seeding, writer>>,
         ~Writes(cmd[p]), ~Writes(c), c.op # "import",
         PackageThere' => package' \in PackageType /\ (~package'.cache => package'.tiles = {}),
         c.op = "export" => /\ ~package'.closed /\ c.todo \subseteq package'.rows
                            /\ c.at \in {"time", "cache"} => package'.cache
  PROVE  Basic'
<1>1. /\ cmd' \in [Proc -> CmdType] /\ cmd'[p] = c
      /\ \A q \in Proc : q # p => cmd'[q] = cmd[q]
  BY SetAt DEF Basic, Types
<1>2. Types'
  BY <1>1 DEF Basic, Types, rows
<1>3. \A q \in Proc : StepsOf(cmd'[q])
  BY <1>1 DEF Basic, Control
<1>4. \A q \in Proc : writer' = q <=> cmd'[q].at \in {"remove", "commit", "second"}
  BY <1>1 DEF Basic, Control, Writes
<1>5. \A q \in Proc : cmd'[q].op \in {"export", "import"} => q = p
  BY <1>1 DEF Alone
<1>6. layer' = "gone" => browses' = {} /\ times' = {} /\ writer' = None
  BY DEF Basic, Control, rows
<1>7. Control'
  BY <1>1, <1>3, <1>4, <1>5, <1>6 DEF Control, StepsOf
<1> QED
  BY <1>2, <1>7 DEF Basic

\* An export that gives up leaves no package.
LEMMA GiveUpBasic ==
  ASSUME Basic, NEW p \in Proc, cmd[p].op = "export", GiveUp(p),
         UNCHANGED <<rows, disk, tiles, layer, seeding, writer>>
  PROVE  Basic' /\ ~PackageThere' /\ cmd'[p] = Idle
<1>1. /\ cmd[p] \in CmdType /\ StepsOf(cmd[p]) /\ ~Writes(cmd[p]) /\ Alone(p)
  BY DEF Basic, Types, Control, Writes, Alone, StepsOf
<1>2. package' = None /\ Set(p, Idle)
  BY DEF GiveUp
<1>3. Idle \in CmdType /\ StepsOf(Idle) /\ ~Writes(Idle) /\ Idle.op = "idle"
  BY BegunTyping
<1>4. cmd'[p] = Idle /\ \A q \in Proc : q # p => cmd'[q] = cmd[q]
  BY <1>2, SetValue
<1>5. ~PackageThere'
  BY <1>1, <1>2, <1>3, <1>4 DEF PackageThere, Alone
<1>6. Basic'
  BY <1>1, <1>2, <1>3, <1>5, ExportStepBasic
<1> QED
  BY <1>4, <1>5, <1>6

\* A process that exports.
LEMMA Exporting ==
  ASSUME Basic, NEW p \in Proc, cmd[p].op = "export"
  PROVE  /\ cmd[p] \in CmdType /\ StepsOf(cmd[p]) /\ ~Writes(cmd[p]) /\ Alone(p)
         /\ PackageThere /\ package \in PackageType /\ package.rows \in SUBSET Catalog
         /\ ~package.closed /\ cmd[p].todo \subseteq package.rows
         /\ (~package.cache => package.tiles = {})
         /\ cmd[p].at \in {"time", "cache"} => package.cache
         /\ cmd[p].at \in {"add", "image", "time", "cache"}
         /\ cmd[p].at # "add" => cmd[p].now \in cmd[p].todo /\ cmd[p].now \in Catalog
                                 /\ cmd[p].now.name \in Name
<1>1. /\ cmd[p] \in CmdType /\ StepsOf(cmd[p]) /\ ~Writes(cmd[p]) /\ Alone(p)
      /\ PackageThere /\ package \in PackageType
      /\ ~package.closed /\ cmd[p].todo \subseteq package.rows
      /\ (~package.cache => package.tiles = {})
      /\ cmd[p].at \in {"time", "cache"} => package.cache
      /\ cmd[p].at \in {"add", "image", "time", "cache"}
  BY DEF Basic, Types, Control, Writes, Alone, StepsOf, PackageThere
<1>2. package.rows \in SUBSET Catalog
  BY <1>1 DEF PackageType
<1>3. cmd[p].at # "add" => cmd[p].now \in cmd[p].todo
  BY <1>1 DEF StepsOf
<1>4. cmd[p].at # "add" => cmd[p].now \in Catalog /\ cmd[p].now.name \in Name
  BY <1>1, <1>2, <1>3, NameTyping
<1> QED
  BY <1>1, <1>2, <1>3, <1>4

LEMMA NextExportTyping ==
  ASSUME Basic, NEW p \in Proc, cmd[p].op = "export"
  PROVE  /\ NextExport(p) \in CmdType /\ StepsOf(NextExport(p)) /\ ~Writes(NextExport(p))
         /\ NextExport(p).op = "export" /\ NextExport(p).at = "add"
         /\ NextExport(p).todo = cmd[p].todo \ {cmd[p].now}
         /\ NextExport(p).view = cmd[p].view
<1> DEFINE c == NextExport(p)
<1>1. cmd[p] \in CmdType /\ StepsOf(cmd[p]) /\ cmd[p].areas = {}
  BY Exporting DEF StepsOf
<1>2. /\ c \in CmdType /\ c.op = "export" /\ c.at = "add" /\ c.todo = cmd[p].todo \ {cmd[p].now}
      /\ c.remove = cmd[p].remove /\ c.areas = cmd[p].areas /\ c.view = cmd[p].view
  BY <1>1 DEF CmdType, NextExport
<1> HIDE DEF c
<1>3. StepsOf(c) /\ ~Writes(c)
  BY <1>1, <1>2 DEF StepsOf, Writes
<1> QED
  BY <1>2, <1>3 DEF c

LEMMA LocateImageBasic ==
  ASSUME Basic, NEW p \in Proc, LocateImage(p)
  PROVE  /\ Basic' /\ (PackageThere' => PackageThere)
         /\ UNCHANGED <<rows, disk, tiles, layer, seeding, writer, faults>>
         /\ cmd[p].op = "export" /\ cmd[p].at = "add" /\ \A q \in Proc : q # p => cmd'[q] = cmd[q]
         /\ \/ ~PackageThere' /\ cmd'[p] = Idle /\ UNCHANGED seen
            \/ \E b \in cmd[p].todo :
                 /\ b \in package.rows /\ b \in Catalog /\ b.name \in Name /\ located[b.name] # None
                 /\ UNCHANGED package
                 /\ cmd'[p] = [cmd[p] EXCEPT !.at = "image", !.now = b, !.found = located]
                 /\ cmd'[p].op = "export" /\ cmd'[p].todo = cmd[p].todo /\ cmd'[p].at = "image"
                 /\ cmd'[p].now = b /\ cmd'[p].found = located /\ cmd'[p].view = cmd[p].view
                 /\ See(IF b \in browses THEN {} ELSE {"overtaken"})
<1>1. cmd[p].op = "export" /\ cmd[p].at = "add"
  BY DEF LocateImage, At
<1>2. UNCHANGED <<rows, disk, tiles, layer, seeding, writer, faults>>
  BY DEF LocateImage, fixed
<1>3. PICK b \in cmd[p].todo :
       \/ located[b.name] = None /\ GiveUp(p) /\ UNCHANGED seen
       \/ /\ located[b.name] # None
          /\ Set(p, [cmd[p] EXCEPT !.at = "image", !.now = b, !.found = located])
          /\ See(IF b \in browses THEN {} ELSE {"overtaken"})
          /\ UNCHANGED package
  BY DEF LocateImage
<1>4. CASE GiveUp(p) /\ UNCHANGED seen
  <2>1. \A q \in Proc : q # p => cmd'[q] = cmd[q]
    BY <1>4, SetValue DEF GiveUp
  <2> QED
    BY <1>1, <1>2, <1>4, <2>1, GiveUpBasic
<1>5. CASE /\ located[b.name] # None
           /\ Set(p, [cmd[p] EXCEPT !.at = "image", !.now = b, !.found = located])
           /\ See(IF b \in browses THEN {} ELSE {"overtaken"})
           /\ UNCHANGED package
  <2> DEFINE c == [cmd[p] EXCEPT !.at = "image", !.now = b, !.found = located]
  <2>1. b \in package.rows /\ b \in Catalog /\ b.name \in Name
    BY <1>1, Exporting, NameTyping
  <2>2. located \in [Name -> Path \cup {None}]
    BY DEF Basic, Types
  <2>3. cmd[p] \in CmdType /\ StepsOf(cmd[p])
    BY <1>1, Exporting
  <2>4. /\ c \in CmdType /\ c.op = "export" /\ c.at = "image" /\ c.todo = cmd[p].todo
        /\ c.now = b /\ c.found = located /\ c.remove = cmd[p].remove /\ c.areas = cmd[p].areas
        /\ c.view = cmd[p].view
    BY <1>1, <2>1, <2>2, <2>3 DEF CmdType
  <2>5. Set(p, c)
    BY <1>5
  <2>6. cmd'[p] = c /\ \A q \in Proc : q # p => cmd'[q] = cmd[q]
    BY <2>5, SetValue
  <2> HIDE DEF c
  <2>7. StepsOf(c) /\ ~Writes(c)
    BY <1>1, <1>5, <2>2, <2>3, <2>4 DEF StepsOf, Writes
  <2>8. Basic'
    BY <1>1, <1>2, <1>5, <2>4, <2>5, <2>7, Exporting, ExportStepBasic
  <2>9. PackageThere' => PackageThere
    BY <1>1, Exporting
  <2> QED
    BY <1>1, <1>2, <1>5, <2>1, <2>4, <2>6, <2>8, <2>9 DEF c
<1> QED
  BY <1>3, <1>4, <1>5

LEMMA FindTimeBasic ==
  ASSUME Basic, NEW p \in Proc, FindTime(p)
  PROVE  /\ Basic' /\ (PackageThere' => PackageThere)
         /\ UNCHANGED <<rows, disk, tiles, layer, seeding, writer, faults, seen>>
         /\ cmd[p].op = "export" /\ cmd[p].at = "time" /\ \A q \in Proc : q # p => cmd'[q] = cmd[q]
         /\ \/ ~PackageThere' /\ cmd'[p] = Idle
            \/ /\ OwnTime(cmd[p].now) /\ UNCHANGED package
               /\ cmd'[p].op = "export" /\ cmd'[p].todo = cmd[p].todo /\ cmd'[p].at = "cache"
               /\ cmd'[p].now = cmd[p].now /\ cmd'[p].view = cmd[p].view
<1>1. cmd[p].op = "export" /\ cmd[p].at = "time"
  BY DEF FindTime, At
<1>2. UNCHANGED <<rows, disk, tiles, layer, seeding, writer, faults, seen>>
  BY DEF FindTime, fixed, history
<1>4. CASE GiveUp(p)
  <2>1. \A q \in Proc : q # p => cmd'[q] = cmd[q]
    BY <1>4, SetValue DEF GiveUp
  <2> QED
    BY <1>1, <1>2, <1>4, <2>1, GiveUpBasic
<1>5. CASE OwnTime(cmd[p].now) /\ Go(p, "cache") /\ UNCHANGED package
  <2> DEFINE c == [cmd[p] EXCEPT !.at = "cache"]
  <2>3. cmd[p] \in CmdType /\ StepsOf(cmd[p])
    BY <1>1, Exporting
  <2>4. /\ c \in CmdType /\ c.op = "export" /\ c.at = "cache" /\ c.todo = cmd[p].todo
        /\ c.now = cmd[p].now /\ c.remove = cmd[p].remove /\ c.areas = cmd[p].areas
        /\ c.view = cmd[p].view
    BY <1>1, <2>3 DEF CmdType
  <2>5. Set(p, c)
    BY <1>5 DEF Go
  <2>6. cmd'[p] = c /\ \A q \in Proc : q # p => cmd'[q] = cmd[q]
    BY <2>5, SetValue
  <2> HIDE DEF c
  <2>7. StepsOf(c) /\ ~Writes(c)
    BY <1>1, <2>3, <2>4 DEF StepsOf, Writes
  <2>8. Basic'
    BY <1>1, <1>2, <1>5, <2>4, <2>5, <2>7, Exporting, ExportStepBasic
  <2>9. PackageThere' => PackageThere
    BY <1>1, Exporting
  <2> QED
    BY <1>1, <1>2, <1>5, <2>4, <2>6, <2>8, <2>9
<1> QED
  BY <1>4, <1>5 DEF FindTime

\* The image of the browse goes into the package.
LEMMA CopyImageBasic ==
  ASSUME Basic, NEW p \in Proc, CopyImage(p)
  PROVE  /\ Basic' /\ (PackageThere' => PackageThere)
         /\ UNCHANGED <<rows, disk, tiles, layer, seeding, writer, faults, seen>>
         /\ cmd[p].op = "export" /\ cmd[p].at = "image" /\ \A q \in Proc : q # p => cmd'[q] = cmd[q]
         /\ \/ ~PackageThere' /\ cmd'[p] = Idle
            \/ LET image == disk[cmd[p].found[cmd[p].now.name]]
               IN /\ image # None /\ cmd[p].now \in package.rows /\ cmd[p].now.name \in Name
                  /\ package' \in PackageType
                  /\ package'.rows = package.rows /\ package'.cache = package.cache
                  /\ package'.closed = package.closed /\ package'.tiles = package.tiles
                  /\ package'.images = [package.images EXCEPT ![cmd[p].now.name] = image]
                  /\ cmd'[p].op = "export" /\ cmd'[p].view = cmd[p].view
                  /\ IF package.cache
                       THEN /\ cmd'[p].at = "time" /\ cmd'[p].now = cmd[p].now
                            /\ cmd'[p].todo = cmd[p].todo
                       ELSE cmd'[p].at = "add" /\ cmd'[p].todo = cmd[p].todo \ {cmd[p].now}
<1> DEFINE b == cmd[p].now
           image == disk[cmd[p].found[b.name]]
<1>1. cmd[p].op = "export" /\ cmd[p].at = "image"
  BY DEF CopyImage, At
<1>2. UNCHANGED <<rows, disk, tiles, layer, seeding, writer, faults, seen>>
  BY DEF CopyImage, fixed, history
<1>4. CASE GiveUp(p)
  <2>1. \A q \in Proc : q # p => cmd'[q] = cmd[q]
    BY <1>4, SetValue DEF GiveUp
  <2> QED
    BY <1>1, <1>2, <1>4, <2>1, GiveUpBasic
<1>5. CASE /\ image # None
           /\ package' = [package EXCEPT !.images[b.name] = image]
           /\ Set(p, IF package.cache THEN [cmd[p] EXCEPT !.at = "time", !.found = None]
                                      ELSE NextExport(p))
  <2> DEFINE c == IF package.cache THEN [cmd[p] EXCEPT !.at = "time", !.found = None]
                                   ELSE NextExport(p)
  <2>1. b \in package.rows /\ b \in Catalog /\ b.name \in Name /\ package \in PackageType
    BY <1>1, Exporting
  <2>3. cmd[p] \in CmdType /\ StepsOf(cmd[p])
    BY <1>1, Exporting
  <2>4. image \in Catalog \cup {None}
    <3>1. cmd[p].found \in [Name -> Path \cup {None}] /\ cmd[p].found[b.name] # None
      BY <1>1, <2>3 DEF StepsOf
    <3>2. cmd[p].found[b.name] \in Path
      BY <2>1, <3>1
    <3> QED
      BY <3>2 DEF Basic, Types
  <2> HIDE DEF image
  <2>5. /\ package' \in PackageType /\ package'.rows = package.rows
        /\ package'.cache = package.cache /\ package'.closed = package.closed
        /\ package'.tiles = package.tiles
        /\ package'.images = [package.images EXCEPT ![b.name] = image]
    BY <1>5, <2>1, <2>4 DEF PackageType
  <2>6. /\ c \in CmdType /\ StepsOf(c) /\ ~Writes(c) /\ c.op = "export" /\ c.view = cmd[p].view
        /\ c.todo \subseteq cmd[p].todo
        /\ IF package.cache
             THEN c.at = "time" /\ c.now = b /\ c.todo = cmd[p].todo
             ELSE c.at = "add" /\ c.todo = cmd[p].todo \ {b}
    <3>1. CASE package.cache
      <4> DEFINE d == [cmd[p] EXCEPT !.at = "time", !.found = None]
      <4>1. c = d
        BY <3>1
      <4>2. /\ d \in CmdType /\ d.op = "export" /\ d.at = "time" /\ d.todo = cmd[p].todo
            /\ d.now = b /\ d.remove = cmd[p].remove /\ d.areas = cmd[p].areas
            /\ d.view = cmd[p].view
        BY <1>1, <2>3 DEF CmdType
      <4> HIDE DEF d
      <4>3. StepsOf(d) /\ ~Writes(d)
        BY <1>1, <2>3, <4>2 DEF StepsOf, Writes
      <4> QED
        BY <3>1, <4>1, <4>2, <4>3
    <3>2. CASE ~package.cache
      <4>1. c = NextExport(p)
        BY <3>2
      <4> QED
        BY <1>1, <3>2, <4>1, NextExportTyping
    <3> QED
      BY <3>1, <3>2
  <2>7. Set(p, c)
    BY <1>5
  <2>8. cmd'[p] = c /\ \A q \in Proc : q # p => cmd'[q] = cmd[q]
    BY <2>7, SetValue
  <2> HIDE DEF c
  <2>9. Basic'
    <3>1. Alone(p) /\ ~Writes(cmd[p]) /\ (~package.cache => package.tiles = {}) /\ ~package.closed
          /\ cmd[p].todo \subseteq package.rows
      BY <1>1, Exporting
    <3>2. package' \in PackageType /\ (~package'.cache => package'.tiles = {})
      BY <2>5, <3>1
    <3>3. /\ ~package'.closed /\ c.todo \subseteq package'.rows
          /\ c.at \in {"time", "cache"} => package'.cache
      BY <2>5, <2>6, <3>1
    <3> QED
      BY <1>2, <2>6, <2>7, <3>1, <3>2, <3>3, ExportStepBasic
  <2>10. PackageThere' => PackageThere
    BY <1>1, Exporting
  <2> QED
    BY <1>1, <1>2, <1>5, <2>1, <2>5, <2>6, <2>8, <2>9, <2>10 DEF image
<1> QED
  BY <1>4, <1>5 DEF CopyImage

LEMMA CopyTilesBasic ==
  ASSUME Basic, NEW p \in Proc, CopyTiles(p)
  PROVE  LET d == Dim(cmd[p].now.area)
         IN /\ Basic' /\ (PackageThere' => PackageThere)
            /\ UNCHANGED <<rows, disk, tiles, layer, seeding, writer, faults>>
            /\ cmd[p].op = "export" /\ cmd[p].at = "cache" /\ \A q \in Proc : q # p => cmd'[q] = cmd[q]
            /\ cmd[p].now \in package.rows /\ cmd[p].now.name \in Name
            /\ package' \in PackageType /\ package'.rows = package.rows
            /\ package'.cache = package.cache /\ package'.closed = package.closed
            /\ package'.images = package.images
            /\ package'.tiles = package.tiles \cup TilesOf(tiles, d)
            /\ cmd'[p].op = "export" /\ cmd'[p].at = "add"
            /\ cmd'[p].todo = cmd[p].todo \ {cmd[p].now} /\ cmd'[p].view = cmd[p].view
            /\ See((IF Unchanged(d) THEN {} ELSE {"crowded"})
                   \cup (IF TilesOf(tiles, d) = {} THEN {"untiled"} ELSE {}))
<1> DEFINE d == Dim(cmd[p].now.area)
           more == TilesOf(tiles, d)
           c == NextExport(p)
<1>1. cmd[p].op = "export" /\ cmd[p].at = "cache"
  BY DEF CopyTiles, At
<1>2. /\ UNCHANGED <<rows, disk, tiles, layer, seeding, writer, faults>>
      /\ package' = [package EXCEPT !.tiles = @ \cup more] /\ Set(p, c)
      /\ See((IF Unchanged(d) THEN {} ELSE {"crowded"})
             \cup (IF TilesOf(tiles, d) = {} THEN {"untiled"} ELSE {}))
  BY DEF CopyTiles, fixed
<1>3. /\ Alone(p) /\ ~Writes(cmd[p]) /\ package.cache /\ ~package.closed
      /\ cmd[p].todo \subseteq package.rows /\ package \in PackageType /\ PackageThere
      /\ cmd[p].now \in package.rows /\ cmd[p].now.name \in Name
  BY <1>1, Exporting
<1>4. more \in SUBSET TileType
  BY DEF TilesOf, Basic, Types
<1> HIDE DEF more
<1>5. /\ package' \in PackageType /\ package'.rows = package.rows
      /\ package'.cache = package.cache /\ package'.closed = package.closed
      /\ package'.images = package.images /\ package'.tiles = package.tiles \cup more
  BY <1>2, <1>3, <1>4 DEF PackageType
<1>6. /\ c \in CmdType /\ StepsOf(c) /\ ~Writes(c) /\ c.op = "export" /\ c.at = "add"
      /\ c.todo = cmd[p].todo \ {cmd[p].now} /\ c.view = cmd[p].view
  BY <1>1, NextExportTyping
<1>7. cmd'[p] = c /\ \A q \in Proc : q # p => cmd'[q] = cmd[q]
  BY <1>2, SetValue
<1> HIDE DEF c, d
<1>8. Basic'
  BY <1>2, <1>3, <1>5, <1>6, ExportStepBasic
<1> QED
  BY <1>1, <1>2, <1>3, <1>5, <1>6, <1>7, <1>8 DEF more, d

LEMMA StartExportBasic ==
  ASSUME Basic, NEW p \in Proc, StartExport(p)
  PROVE  /\ Basic' /\ UNCHANGED <<rows, disk, tiles, layer, seeding, writer, faults, seen>>
         /\ Alone(p) /\ cmd[p] = Idle /\ package' \in PackageType
         /\ ~package'.closed /\ package'.rows \subseteq browses /\ package'.tiles = {}
         /\ cmd'[p].op = "export" /\ cmd'[p].at = "add" /\ cmd'[p].todo = package'.rows
         /\ cmd'[p].remove = {} /\ cmd'[p].areas = {} /\ cmd'[p].view = None
         /\ \A q \in Proc : q # p => cmd'[q] = cmd[q]
<1>1. /\ Begun("export", "add") \in CmdType
      /\ Begun("export", "add").op = "export" /\ Begun("export", "add").at = "add"
      /\ Begun("export", "add").remove = {} /\ Begun("export", "add").areas = {}
      /\ Begun("export", "add").view = None
  BY BegunTyping
<1>2. PICK cache \in BOOLEAN, w \in Windows \cup {Always} :
        /\ package' = [closed |-> FALSE, rows |-> InWindow(w), cache |-> cache,
                       images |-> [n \in Name |-> None], tiles |-> {}]
        /\ Set(p, [Begun("export", "add") EXCEPT !.todo = InWindow(w)])
  BY DEF StartExport
<1>3. InWindow(w) \subseteq browses /\ browses \in SUBSET Catalog
  BY DEF InWindow, Basic, Types
<1> DEFINE D == InWindow(w)
           c == [Begun("export", "add") EXCEPT !.todo = D]
<1>4. /\ package' \in PackageType /\ ~package'.closed /\ package'.tiles = {} /\ package'.rows = D
  BY <1>2, <1>3 DEF PackageType
<1> HIDE DEF D
<1>5. /\ c \in CmdType /\ c.op = "export" /\ c.at = "add" /\ c.todo = D
      /\ c.remove = {} /\ c.areas = {} /\ c.view = None
  BY <1>1, <1>3 DEF D, CmdType
<1>6. Set(p, c)
  BY <1>2 DEF D
<1> HIDE DEF c
<1>7. StepsOf(c) /\ ~Writes(c)
  BY <1>5 DEF StepsOf, Writes
<1>8. /\ UNCHANGED <<rows, disk, tiles, layer, seeding, writer, faults, seen>>
      /\ Alone(p) /\ cmd[p] = Idle
  BY DEF StartExport, MayStart, fixed, history
<1>9. ~Writes(cmd[p])
  BY <1>8, BegunTyping
<1>10. Basic'
  BY <1>4, <1>5, <1>6, <1>7, <1>8, <1>9, ExportStepBasic
<1>11. cmd'[p] = c /\ \A q \in Proc : q # p => cmd'[q] = cmd[q]
  BY <1>6, SetValue
<1> QED
  BY <1>3, <1>4, <1>5, <1>8, <1>10, <1>11 DEF D

LEMMA EndExportBasic ==
  ASSUME Basic, NEW p \in Proc, EndExport(p)
  PROVE  /\ Basic' /\ PackageThere
         /\ UNCHANGED <<rows, disk, tiles, layer, seeding, writer, faults, seen>>
         /\ cmd[p].op = "export" /\ cmd[p].todo = {} /\ cmd'[p] = Idle /\ package \in PackageType
         /\ package' = [package EXCEPT !.closed = TRUE]
<1>1. /\ cmd[p] \in CmdType /\ StepsOf(cmd[p]) /\ ~Writes(cmd[p]) /\ cmd[p].at = "add"
      /\ cmd[p].op = "export" /\ PackageThere /\ package \in PackageType /\ Alone(p)
      /\ cmd[p].todo = {} /\ (~package.cache => package.tiles = {})
  BY DEF Basic, Types, Control, EndExport, At, Writes, PackageThere, Alone
<1>2. /\ UNCHANGED <<rows, disk, tiles, layer, seeding, writer, faults, seen>>
      /\ Set(p, Idle) /\ package' = [package EXCEPT !.closed = TRUE]
  BY DEF EndExport, fixed, history
<1>3. Idle \in CmdType /\ StepsOf(Idle) /\ ~Writes(Idle) /\ Idle.op = "idle"
  BY BegunTyping
<1>4. /\ package' \in PackageType /\ package'.cache = package.cache
      /\ package'.tiles = package.tiles
  BY <1>1, <1>2 DEF PackageType
<1>5. Basic'
  BY <1>1, <1>2, <1>3, <1>4, ExportStepBasic
<1>6. cmd'[p] = Idle
  BY <1>2, <1>3, SetAt DEF Basic, Types
<1> QED
  BY <1>1, <1>2, <1>5, <1>6

-----------------------------------------------------------------------------
(* All steps *)

\* A step that changes neither the databases nor the images nor the package.
Quiet(p) ==
  \/ StartIngest(p) \/ StartDelete(p) \/ StartPurge(p) \/ StartReseed(p)
  \/ ReadTimesEarly(p) \/ Conflict(p) \/ Fail(p) \/ FilesDone(p)
  \/ Seed(p) \/ SeedDone(p) \/ StartImport(p) \/ NextBrowse(p) \/ ImportTiles(p)

LEMMA QuietCommand ==
  ASSUME Basic, NEW p \in Proc, Quiet(p)
  PROVE  /\ \/ cmd'[p].op \in {"ingest", "import", "reseed"}
            \/ cmd'[p] = Idle
            \/ cmd'[p].at \in {"seed", "drop"} /\ cmd'[p].op = cmd[p].op
            \/ cmd'[p].op \in {"delete", "purge"} /\ cmd'[p].at = "list"
            \/ cmd'[p].op = "purge" /\ cmd'[p].at = "files" /\ StartPurge(p)
         /\ cmd'[p].op # "export" /\ cmd[p].op # "export"
         /\ Purging(cmd[p]) => Purging(cmd'[p])
         /\ cmd[p].remove = {}
         /\ cmd'[p].view = None \/ cmd'[p].view = cmd[p].view \/ ReadTimesEarly(p)
<1>1. cmd[p] \in CmdType /\ StepsOf(cmd[p])
  BY DEF Basic, Types, Control
<1>2. /\ Begun("ingest", "write").op = "ingest" /\ Begun("reseed", "seed").op = "reseed"
      /\ Begun("import", "next").op = "import"
      /\ Begun("ingest", "write") \in CmdType /\ Begun("reseed", "seed") \in CmdType
      /\ Begun("import", "next") \in CmdType
      /\ Begun("import", "next").view = None /\ Begun("reseed", "seed").view = None
      /\ Idle.op = "idle" /\ StepsOf(Idle) /\ Idle \in CmdType /\ Idle.view = None
  BY BegunTyping
<1>3. CASE StartIngest(p)
  <2>1. cmd'[p].op = "ingest" /\ cmd'[p].view = None
    BY <1>3, StartIngestBasic
  <2>2. cmd[p] = Idle
    BY <1>3 DEF StartIngest, MayStart
  <2> QED
    BY <1>2, <2>1, <2>2 DEF StepsOf, Purging
<1>4. CASE StartReseed(p)
  <2>1. PICK force, D : Set(p, [Begun("reseed", "seed") EXCEPT !.force = force, !.areas = D])
    BY <1>4 DEF StartReseed
  <2>2. cmd'[p].op = "reseed" /\ cmd'[p].view = None
    <3>1. cmd'[p] = [Begun("reseed", "seed") EXCEPT !.force = force, !.areas = D]
      BY <2>1, SetValue
    <3> QED
      BY <1>2, <3>1 DEF CmdType
  <2>3. cmd[p] = Idle
    BY <1>4 DEF StartReseed, MayStart
  <2> QED
    BY <1>2, <2>2, <2>3 DEF StepsOf, Purging
<1>5. CASE StartImport(p)
  <2>1. PICK todo, force :
          Set(p, [Begun("import", "next") EXCEPT !.todo = todo, !.force = force])
    BY <1>5 DEF StartImport
  <2>2. cmd'[p].op = "import" /\ cmd'[p].view = None
    <3>1. cmd'[p] = [Begun("import", "next") EXCEPT !.todo = todo, !.force = force]
      BY <2>1, SetValue
    <3> QED
      BY <1>2, <3>1 DEF CmdType
  <2>3. cmd[p] = Idle
    BY <1>5 DEF StartImport, MayStart
  <2> QED
    BY <1>2, <2>2, <2>3 DEF StepsOf, Purging
<1>6. CASE Conflict(p) \/ Fail(p)
  <2>1. /\ Set(p, IF cmd[p].op = "import"
                    THEN [cmd[p] EXCEPT !.at = "next", !.areas = {}, !.found = None, !.view = None]
                    ELSE Idle)
        /\ cmd[p].op \in {"ingest", "import"}
    BY <1>6 DEF Conflict, Fail, Undo, At
  <2>2. cmd'[p] = IF cmd[p].op = "import"
                    THEN [cmd[p] EXCEPT !.at = "next", !.areas = {}, !.found = None, !.view = None]
                    ELSE Idle
    BY <2>1, SetValue
  <2>3. (cmd'[p].op = "import" /\ cmd[p].op = "import" /\ cmd'[p].view = None) \/ cmd'[p] = Idle
    BY <1>1, <2>2 DEF CmdType
  <2> QED
    BY <1>1, <1>2, <2>1, <2>3 DEF StepsOf, Purging
<1>7. CASE FilesDone(p)
  <2>2. cmd'[p].at \in {"seed", "drop"} /\ cmd'[p].op = cmd[p].op /\ cmd'[p].view = cmd[p].view
    <3>1. CASE cmd[p].op = "purge"
      <4>1. cmd'[p] = [cmd[p] EXCEPT !.at = "drop"]
        BY <1>7, <3>1, SetValue DEF FilesDone, Go
      <4> QED
        BY <1>1, <4>1 DEF CmdType
    <3>2. CASE cmd[p].op # "purge"
      <4>1. PICK D : Set(p, [cmd[p] EXCEPT !.at = "seed", !.areas = D])
        BY <1>7, <3>2 DEF FilesDone
      <4>2. cmd'[p] = [cmd[p] EXCEPT !.at = "seed", !.areas = D]
        BY <4>1, SetValue
      <4> QED
        BY <1>1, <4>2 DEF CmdType
    <3> QED
      BY <3>1, <3>2
  <2>3. cmd[p].at = "files" /\ cmd[p].remove = {}
    BY <1>7 DEF FilesDone
  <2> QED
    BY <1>1, <2>2, <2>3 DEF StepsOf, Purging
<1>8. CASE Seed(p)
  <2>1. cmd[p].at = "seed"
    BY <1>8 DEF Seed
  <2>2. PICK D : Set(p, [cmd[p] EXCEPT !.areas = D]) \/ Set(p, Idle)
    BY <1>8 DEF Seed
  <2>3. cmd'[p] = [cmd[p] EXCEPT !.areas = D] \/ cmd'[p] = Idle
    BY <2>2, SetValue
  <2>4. (cmd'[p].at = "seed" /\ cmd'[p].op = cmd[p].op /\ cmd'[p].view = cmd[p].view) \/ cmd'[p] = Idle
    BY <1>1, <2>1, <2>3 DEF CmdType
  <2> QED
    BY <1>1, <1>2, <2>1, <2>4 DEF StepsOf, Purging
<1>9. CASE SeedDone(p)
  <2>1. cmd[p].at = "seed"
    BY <1>9 DEF SeedDone
  <2>2. cmd'[p] = IF cmd[p].op = "import" THEN [cmd[p] EXCEPT !.at = "next"] ELSE Idle
    BY <1>9, SetValue DEF SeedDone, Go
  <2>3. (cmd'[p].op = "import" /\ cmd[p].op = "import" /\ cmd'[p].view = cmd[p].view) \/ cmd'[p] = Idle
    BY <1>1, <2>2 DEF CmdType
  <2> QED
    BY <1>1, <1>2, <2>1, <2>3 DEF StepsOf, Purging
<1>10. CASE NextBrowse(p)
  <2>1. cmd[p].op = "import"
    BY <1>10 DEF NextBrowse, At
  <2>2. PICK b, todo, old, found :
          \/ Set(p, [cmd[p] EXCEPT !.at = "write", !.now = b, !.todo = todo, !.old = old,
                                   !.found = found])
          \/ Set(p, Idle)
    <3>1. CASE Set(p, Idle)
      BY <3>1
    <3>2. CASE \E b \in cmd[p].todo :
          Set(p, [cmd[p] EXCEPT !.at = "write", !.now = b, !.todo = @ \ {b},
                    !.old = LookedUp(b), !.found = located])
      BY <3>2
    <3> QED
      BY <1>10, <3>1, <3>2 DEF NextBrowse
  <2>3. \/ cmd'[p] = [cmd[p] EXCEPT !.at = "write", !.now = b, !.todo = todo, !.old = old,
                                    !.found = found]
        \/ cmd'[p] = Idle
    BY <2>2, SetValue
  <2>4. (cmd'[p].op = "import" /\ cmd'[p].view = cmd[p].view) \/ cmd'[p] = Idle
    BY <1>1, <2>1, <2>3 DEF CmdType
  <2> QED
    BY <1>1, <1>2, <2>1, <2>4 DEF StepsOf, Purging
<1>11. CASE ImportTiles(p)
  <2>1. cmd[p].op = "import"
    BY <1>11 DEF ImportTiles, At
  <2>2. PICK at, D : Set(p, [cmd[p] EXCEPT !.at = at, !.areas = D]) \/ Set(p, Idle)
    BY <1>11 DEF ImportTiles
  <2>3. cmd'[p] = [cmd[p] EXCEPT !.at = at, !.areas = D] \/ cmd'[p] = Idle
    BY <2>2, SetValue
  <2>4. (cmd'[p].op = "import" /\ cmd'[p].view = cmd[p].view) \/ cmd'[p] = Idle
    BY <1>1, <2>1, <2>3 DEF CmdType
  <2> QED
    BY <1>1, <1>2, <2>1, <2>4 DEF StepsOf, Purging
<1>12. CASE StartDelete(p) \/ StartPurge(p)
  <2>1. /\ cmd[p] = Idle /\ cmd'[p].op \in {"delete", "purge"} /\ cmd'[p].at \in {"list", "files"}
        /\ cmd'[p].view = None /\ (cmd'[p].op = "delete" => cmd'[p].at = "list")
    BY <1>12, StartListBasic
  <2>2. cmd'[p].at = "files" => StartPurge(p)
    <3>1. CASE StartPurge(p)
      BY <3>1
    <3>2. CASE StartDelete(p)
      <4>1. PICK D, f, i, w :
              Set(p, [Begun("delete", "list") EXCEPT !.todo = D, !.found = f, !.ids = i, !.window = w])
        BY <3>2 DEF StartDelete
      <4>2. cmd'[p] = [Begun("delete", "list") EXCEPT !.todo = D, !.found = f, !.ids = i, !.window = w]
        BY <4>1, SetValue
      <4>3. Begun("delete", "list") \in CmdType /\ Begun("delete", "list").at = "list"
        BY BegunTyping
      <4> QED
        BY <4>2, <4>3 DEF CmdType
    <3> QED
      BY <1>12, <3>1, <3>2
  <2> QED
    BY <1>1, <1>2, <2>1, <2>2 DEF StepsOf, Purging
<1>13. CASE ReadTimesEarly(p)
  <2>1. /\ cmd'[p] = [cmd[p] EXCEPT !.view = times]
        /\ cmd[p].op \in {"ingest", "import", "delete", "purge"} /\ cmd[p].at \in {"write", "list"}
    BY <1>13, ReadEarlyBasic
  <2>2. cmd'[p].op = cmd[p].op /\ cmd'[p].at = cmd[p].at
    BY <1>1, <2>1 DEF CmdType
  <2> QED
    BY <1>1, <1>13, <2>1, <2>2 DEF StepsOf, Purging
<1> QED
  BY <1>3, <1>4, <1>5, <1>6, <1>7, <1>8, <1>9, <1>10, <1>11, <1>12, <1>13 DEF Quiet

LEMMA QuietStep ==
  ASSUME Basic, NEW p \in Proc, Quiet(p)
  PROVE  /\ Basic' /\ (PackageThere' => PackageThere) /\ Target' = Target
         /\ UNCHANGED <<rows, disk, layer, seeding, package, writer>>
         /\ cmd[p].op # "export" /\ cmd'[p].op # "export"
         /\ Purging(cmd[p]) => Purging(cmd'[p])
         /\ cmd[p].remove = {} /\ cmd'[p].remove = {}
         /\ ~Writes(cmd[p]) /\ ~Writes(cmd'[p])
         /\ \A q \in Proc : q # p => cmd'[q] = cmd[q]
         /\ "crash" \in faults' <=> "crash" \in faults
         /\ "cut" \in faults' <=> "cut" \in faults
<1>1. Basic' /\ (PackageThere' => PackageThere)
  BY StartIngestBasic, StartListBasic, StartReseedBasic, ReadEarlyBasic, UndoBasic, FilesDoneBasic,
     SeedBasic, SeedDoneBasic, StartImportBasic, NextBrowseBasic, ImportTilesBasic
     DEF Quiet, Conflict, Fail
<1>2. UNCHANGED <<rows, disk, layer, seeding, package, writer>>
  BY DEF Quiet, StartIngest, StartDelete, StartPurge, StartReseed, ReadTimesEarly, Conflict, Fail,
         Undo, FilesDone, Seed, SeedDone, StartImport, NextBrowse, ImportTiles, fixed
<1>3. faults' = faults \/ Fault("seed") \/ Fault("step")
  BY DEF Quiet, StartIngest, StartDelete, StartPurge, StartReseed, ReadTimesEarly, Conflict, Fail,
         Undo, FilesDone, Seed, SeedDone, StartImport, NextBrowse, ImportTiles, history
<1>4. "crash" \in faults' <=> "crash" \in faults
  BY <1>3 DEF Fault
<1>5. "cut" \in faults' <=> "cut" \in faults
  BY <1>3 DEF Fault
<1>6. \A q \in Proc : q # p => cmd'[q] = cmd[q]
  <2>1. \E c : Set(p, c)
    BY DEF Quiet, StartIngest, StartDelete, StartPurge, StartReseed, ReadTimesEarly, Conflict, Fail,
         Undo, FilesDone, Go, Seed, SeedDone, StartImport, NextBrowse, ImportTiles
  <2> QED
    BY <2>1, SetValue
<1>8. ~Writes(cmd[p]) /\ writer # p
  <2>1. cmd[p] = Idle \/ cmd[p].at \in {"write", "list", "files", "seed", "next", "tiles"}
    BY DEF Quiet, StartIngest, StartDelete, StartPurge, StartReseed, ReadTimesEarly,
         Conflict, Fail, FilesDone, Seed, SeedDone, StartImport, NextBrowse, ImportTiles,
         MayStart, At
  <2>2. ~Writes(cmd[p])
    BY <2>1, BegunTyping DEF Writes
  <2> QED
    BY <2>2 DEF Basic, Control, Writes
<1>9. ~Writes(cmd'[p])
  BY <1>1, <1>2, <1>8 DEF Basic, Control, Writes
<1>7. cmd'[p].remove = {}
  <2>1. StepsOf(cmd'[p])
    BY <1>1 DEF Basic, Control, StepsOf
  <2>2. CASE StartPurge(p)
    BY <2>2, StartListBasic
  <2>3. CASE ~StartPurge(p)
    BY <2>1, <2>3, QuietCommand, BegunTyping DEF StepsOf
  <2> QED
    BY <2>2, <2>3
<1>10. Target' = Target
  <2>1. CASE writer = None
    BY <1>2, <2>1 DEF Target, Committed, rows
  <2>2. CASE writer # None
    <3>1. writer \in Proc /\ writer # p
      BY <1>8, <2>2 DEF Basic, Types
    <3>2. writer' = writer /\ cmd'[writer] = cmd[writer]
      BY <1>2, <1>6, <3>1
    <3> QED
      BY <2>2, <3>2 DEF Target
  <2> QED
    BY <2>1, <2>2
<1> QED
  BY <1>1, <1>2, <1>4, <1>5, <1>6, <1>7, <1>8, <1>9, <1>10, QuietCommand

LEMMA StepCases ==
  ASSUME [LayerNext]_allvars
  PROVE  \/ View \/ UNCHANGED allvars
         \/ \E p \in Proc : \/ Quiet(p) \/ LockRows(p) \/ RemoveBrowse(p) \/ ListedGone(p) \/ Write(p)
                            \/ CommitFirst(p) \/ CommitSecond(p) \/ DeleteFile(p)
                            \/ DropLayer(p) \/ Kill(p)
                            \/ StartExport(p) \/ LocateImage(p) \/ CopyImage(p) \/ FindTime(p)
                            \/ CopyTiles(p) \/ EndExport(p)
BY DEF LayerNext, Wait, Step, Quiet

LEMMA HistoryGrows ==
  ASSUME [LayerNext]_allvars
  PROVE  faults \subseteq faults' /\ seen \subseteq seen'
<1>1. CASE View \/ UNCHANGED allvars
  BY <1>1 DEF View, See, allvars, history
<1>2. ASSUME NEW p \in Proc, Quiet(p) PROVE faults \subseteq faults' /\ seen \subseteq seen'
  BY <1>2 DEF Quiet, StartIngest, StartDelete, StartPurge, StartReseed, ReadTimesEarly, Conflict,
         Fail, Undo, FilesDone, Seed, SeedDone, StartImport, NextBrowse, ImportTiles, history, See,
         Fault
<1>3. ASSUME NEW p \in Proc,
             \/ LockRows(p) \/ RemoveBrowse(p) \/ ListedGone(p) \/ Write(p) \/ CommitFirst(p)
             \/ CommitSecond(p) \/ DeleteFile(p) \/ DropLayer(p) \/ Kill(p)
      PROVE faults \subseteq faults' /\ seen \subseteq seen'
  BY <1>3 DEF LockRows, RemoveBrowse, ListedGone, Unseeds, Write, CommitFirst, CommitSecond,
       DeleteFile, DropLayer, Kill, history, See, Fault
<1>4. ASSUME NEW p \in Proc,
             \/ StartExport(p) \/ LocateImage(p) \/ CopyImage(p) \/ FindTime(p) \/ CopyTiles(p)
             \/ EndExport(p)
      PROVE faults \subseteq faults' /\ seen \subseteq seen'
  BY <1>4 DEF StartExport, LocateImage, CopyImage, FindTime, CopyTiles, EndExport, history, See
<1> QED
  BY <1>1, <1>2, <1>3, <1>4, StepCases

LEMMA BasicNext ==
  ASSUME Basic, [LayerNext]_allvars
  PROVE  Basic'
BY StepCases, ViewBasic, QuietStep, LockRowsBasic, RemoveBasic, ListedGoneBasic, WriteBasic,
   CommitFirstBasic, CommitSecondBasic, DeleteFileBasic, DropLayerBasic, KillBasic,
   StartExportBasic, LocateImageBasic, CopyImageBasic, FindTimeBasic, CopyTilesBasic, EndExportBasic

LEMMA TimesOfTyping ==
  ASSUME NEW B \in SUBSET Catalog
  PROVE  TimesOf(B) \in SUBSET Span
<1>1. Areas(B) \in SUBSET Span
  BY AreasTyping
<1>2. \A g \in Groups(Areas(B)) : Hull(g) \in Span
  BY <1>1, GroupHull DEF Groups
<1> QED
  BY <1>2 DEF TimesOf

LEMMA InitBasic == LayerInit => Basic
<1> SUFFICES ASSUME LayerInit PROVE Basic
  OBVIOUS
<1>1. browses \in SUBSET Catalog /\ writer = None /\ cmd = [p \in Proc |-> Idle]
      /\ package = None /\ layer = "served" /\ seeding \in BOOLEAN
  BY LayerDataAssumption DEF LayerInit
<1>2. times \in SUBSET Span
  BY <1>1, TimesOfTyping DEF LayerInit
<1>3. located \in [Name -> Path \cup {None}]
  BY DEF LayerInit, Path
<1>4. disk \in [Path -> Catalog \cup {None}]
  BY <1>1 DEF LayerInit
<1>5. tiles \in SUBSET TileType
  <2>1. CASE seeding
    <3>1. tiles = { Tile(d, "seeded", Rendered(d)) : d \in Dims(times) }
      BY <2>1 DEF LayerInit
    <3>2. Dims(times) \in SUBSET DimType
      BY <1>2, DimsTyping
    <3> QED
      BY <1>1, <3>1, <3>2 DEF Tile, TileType, Rendered, Levels
  <2>2. CASE ~seeding
    BY <2>2 DEF LayerInit
  <2> QED
    BY <2>1, <2>2
<1>6. Idle \in CmdType /\ StepsOf(Idle) /\ ~Writes(Idle) /\ Idle.op = "idle"
  BY BegunTyping
<1>7. ~PackageThere
  BY <1>1, <1>6 DEF PackageThere
<1>8. Types
  BY <1>1, <1>2, <1>3, <1>4, <1>5, <1>6, <1>7 DEF Types
<1>9. Control
  BY <1>1, <1>6, <1>7, LayerDataAssumption DEF Control, Writes
<1> QED
  BY <1>8, <1>9 DEF Basic

LEMMA BasicHolds == LayerSpec => []Basic
<1>1. Basic /\ [LayerNext]_allvars => Basic'
  BY BasicNext
<1> QED
  BY <1>1, InitBasic, PTL DEF LayerSpec

-----------------------------------------------------------------------------
(* Rows *)

LEMMA TargetTyping ==
  ASSUME Basic
  PROVE  Target \in RowsType
<1>1. CASE writer = None
  BY <1>1 DEF Target, Committed, RowsType, Basic, Types
<1>2. CASE writer # None
  <2>1. writer \in Proc /\ cmd[writer].at \in {"remove", "commit", "second"}
        /\ StepsOf(cmd[writer])
    BY <1>2 DEF Basic, Types, Control
  <2> QED
    BY <1>2, <2>1 DEF Target, StepsOf
<1> QED
  BY <1>1, <1>2

LEMMA NoWriterTarget ==
  ASSUME writer = None
  PROVE  Target.browses = browses /\ Target.times = times /\ Target.located = located
BY DEF Target, Committed

\* Nothing is written, and the rows of the package stay.
LEMMA RowsKept ==
  ASSUME RowsInv, UNCHANGED <<browses, located>>, Target' = Target,
         PackageThere' => PackageThere /\ package'.rows = package.rows,
         writer # None /\ writer' # None /\ cmd'[writer'].op # "import" => cmd[writer].op # "import"
  PROVE  RowsInv'
<1>1. Unique(browses)' /\ Located(browses, located)'
  BY DEF RowsInv, Unique, Located, Named
<1>2. Unique(Target'.browses) /\ Located(Target'.browses, Target'.located)
  BY DEF RowsInv
<1>3. FromPackage(browses, located)' /\ FromPackage(Target.browses, Target.located)'
  BY DEF RowsInv, FromPackage
<1>4. PackageThere' => Unique(package'.rows)
  BY DEF RowsInv
<1>5. writer' # None /\ cmd'[writer'].op # "import" =>
       \A b \in Target'.browses : Target'.located[b.name] \in Name => b \in browses'
  BY NoWriterTarget DEF RowsInv
<1> QED
  BY <1>1, <1>2, <1>3, <1>4, <1>5 DEF RowsInv, Unique, Located, Named

\* The main database is committed.
LEMMA RowsCommitted ==
  ASSUME RowsInv, browses' = Target.browses, located' = Target.located, Target' = Target,
         PackageThere' => PackageThere /\ package'.rows = package.rows
  PROVE  RowsInv'
<1>1. Unique(browses') /\ Located(browses', located')
  BY DEF RowsInv
<1>2. Unique(Target'.browses) /\ Located(Target'.browses, Target'.located)
  BY DEF RowsInv
<1>3. FromPackage(browses, located)' /\ FromPackage(Target.browses, Target.located)'
  BY DEF RowsInv, FromPackage
<1>4. PackageThere' => Unique(package'.rows)
  BY DEF RowsInv
<1>5. writer' # None /\ cmd'[writer'].op # "import" =>
       \A b \in Target'.browses : Target'.located[b.name] \in Name => b \in browses'
  OBVIOUS
<1> QED
  BY <1>1, <1>2, <1>3, <1>4, <1>5 DEF RowsInv, Unique, Located, Named

\* Processes that write nothing leave the target alone.
LEMMA OtherTarget ==
  ASSUME Basic, NEW p \in Proc, writer # p, UNCHANGED <<rows, writer>>,
         \A q \in Proc : q # p => cmd'[q] = cmd[q]
  PROVE  Target' = Target
<1>1. CASE writer = None
  BY <1>1 DEF Target, Committed, rows
<1>2. CASE writer # None
  <2>1. writer \in Proc
    BY <1>2 DEF Basic, Types
  <2> QED
    BY <1>2, <2>1 DEF Target
<1> QED
  BY <1>1, <1>2

\* A step of a process leaves what the others do.
LEMMA OtherCommands ==
  ASSUME Basic, NEW p \in Proc, Step(p)
  PROVE  \A q \in Proc : q # p => cmd'[q] = cmd[q]
<1>1. CASE StartIngest(p) \/ StartDelete(p) \/ StartPurge(p) \/ StartReseed(p)
           \/ StartExport(p) \/ StartImport(p)
  BY <1>1, SetValue DEF StartIngest, StartDelete, StartPurge, StartReseed, StartExport, StartImport
<1>2. CASE ReadTimesEarly(p) \/ Write(p) \/ Conflict(p) \/ Fail(p) \/ LockRows(p) \/ RemoveBrowse(p)
           \/ ListedGone(p)
  BY <1>2, SetValue
     DEF ReadTimesEarly, Write, Conflict, Fail, Undo, LockRows, RemoveBrowse, ListedGone
<1>3. CASE CommitFirst(p) \/ CommitSecond(p) \/ DeleteFile(p) \/ FilesDone(p) \/ DropLayer(p)
  BY <1>3, SetValue DEF CommitFirst, CommitSecond, DeleteFile, FilesDone, DropLayer, Go
<1>4. CASE Seed(p) \/ SeedDone(p) \/ Kill(p)
  BY <1>4, SetValue DEF Seed, SeedDone, Kill, Go
<1>5. CASE EndExport(p) \/ NextBrowse(p) \/ ImportTiles(p)
  BY <1>5, SetValue DEF EndExport, NextBrowse, ImportTiles
<1>6. CASE LocateImage(p) \/ CopyImage(p) \/ FindTime(p) \/ CopyTiles(p)
  BY <1>6, LocateImageBasic, CopyImageBasic, FindTimeBasic, CopyTilesBasic
<1> QED
  BY <1>1, <1>2, <1>3, <1>4, <1>5, <1>6 DEF Step

\* What a deletion leaves of the rows.
LEMMA RemoveTarget ==
  ASSUME Basic, NEW p \in Proc, RemoveBrowse(p)
  PROVE  /\ cmd'[p].op = cmd[p].op /\ cmd'[p].at = "remove" /\ cmd'[p].found = None
         /\ cmd'[p].view = None /\ cmd'[p].ids = cmd[p].ids /\ cmd'[p].window = cmd[p].window
         /\ cmd[p].rows = Target /\ cmd'[p].rows = Target'
         /\ \E o \in cmd[p].todo :
            \E f \in {Target.located[o.name]} \cup
                       (IF cmd[p].found = None THEN {} ELSE {cmd[p].found[o.name]}) :
              /\ o \in Catalog /\ o.name \in Name /\ Target.located[o.name] # None
              /\ Target'.browses = Target.browses \ Named(Target.browses, o.name)
              /\ Target'.located = [Target.located EXCEPT ![o.name] = None]
              /\ cmd'[p].todo = cmd[p].todo \ {o}
              /\ cmd'[p].remove = cmd[p].remove \cup {f}
<1>1. writer = p /\ UNCHANGED <<rows, writer>> /\ cmd[p].at = "remove"
  BY RemoveBasic
<1>2. PICK o \in cmd[p].todo :
            LET r == cmd[p].rows
                left == r.browses \ Named(r.browses, o.name)
            IN \E f \in {r.located[o.name]} \cup
                          (IF cmd[p].found = None THEN {} ELSE {cmd[p].found[o.name]}) :
               \E m \in Removals(Read(p, r.times), r.times, o, left) :
                 /\ o \in Catalog /\ o.name \in Name /\ r.located[o.name] # None
                 /\ m.times \in SUBSET Span /\ m.unseed \in SUBSET DimType
                 /\ m.areas \in SUBSET DimType
                 /\ IF cmd[p].op = "delete" THEN Unseeds(m.unseed) ELSE UNCHANGED <<tiles, faults>>
                 /\ cmd'[p] = [cmd[p] EXCEPT
                      !.todo = @ \ {o},
                      !.found = None, !.view = None,
                      !.rows = [browses |-> left, times |-> m.times,
                                located |-> [r.located EXCEPT ![o.name] = None]],
                      !.remove = @ \cup {f},
                      !.areas = @ \cup m.areas]
  BY RemoveBasic
<1> DEFINE r == cmd[p].rows
           left == r.browses \ Named(r.browses, o.name)
           paths == {r.located[o.name]} \cup
                          (IF cmd[p].found = None THEN {} ELSE {cmd[p].found[o.name]})
<1>3. PICK f \in paths :
               \E m \in Removals(Read(p, r.times), r.times, o, left) :
                 /\ o \in Catalog /\ o.name \in Name /\ r.located[o.name] # None
                 /\ m.times \in SUBSET Span /\ m.unseed \in SUBSET DimType
                 /\ m.areas \in SUBSET DimType
                 /\ IF cmd[p].op = "delete" THEN Unseeds(m.unseed) ELSE UNCHANGED <<tiles, faults>>
                 /\ cmd'[p] = [cmd[p] EXCEPT
                      !.todo = @ \ {o},
                      !.found = None, !.view = None,
                      !.rows = [browses |-> left, times |-> m.times,
                                located |-> [r.located EXCEPT ![o.name] = None]],
                      !.remove = @ \cup {f},
                      !.areas = @ \cup m.areas]
  BY <1>2
<1>4. PICK T, A :
                 /\ o \in Catalog /\ o.name \in Name /\ r.located[o.name] # None
                 /\ cmd'[p] = [cmd[p] EXCEPT
                      !.todo = @ \ {o},
                      !.found = None, !.view = None,
                      !.rows = [browses |-> left, times |-> T,
                                located |-> [r.located EXCEPT ![o.name] = None]],
                      !.remove = @ \cup {f},
                      !.areas = @ \cup A]
  BY <1>3
<1>5. cmd[p] \in CmdType /\ p # None
  BY LayerDataAssumption DEF Basic, Types
<1>6. Target = r /\ Target' = cmd'[p].rows
  BY <1>1, <1>5 DEF Target
<1> DEFINE after == [browses |-> left, times |-> T, located |-> [r.located EXCEPT ![o.name] = None]]
<1>7. after.browses = left /\ after.located = [r.located EXCEPT ![o.name] = None]
  OBVIOUS
<1> HIDE DEF after, left, r
<1>8. /\ cmd'[p].op = cmd[p].op /\ cmd'[p].at = "remove" /\ cmd'[p].found = None
      /\ cmd'[p].view = None /\ cmd'[p].ids = cmd[p].ids /\ cmd'[p].window = cmd[p].window
      /\ cmd'[p].rows = after /\ cmd'[p].todo = cmd[p].todo \ {o}
      /\ cmd'[p].remove = cmd[p].remove \cup {f}
  BY <1>1, <1>4, <1>5 DEF CmdType, after
<1>9. /\ Target'.browses = Target.browses \ Named(Target.browses, o.name)
      /\ Target'.located = [Target.located EXCEPT ![o.name] = None]
      /\ Target.located[o.name] # None /\ o \in Catalog /\ o.name \in Name
      /\ f \in {Target.located[o.name]} \cup
                       (IF cmd[p].found = None THEN {} ELSE {cmd[p].found[o.name]})
  BY <1>4, <1>6, <1>7, <1>8 DEF left
<1> QED
  BY <1>6, <1>8, <1>9 DEF r

LEMMA RemoveRows ==
  ASSUME Basic, RowsInv, NEW p \in Proc, RemoveBrowse(p)
  PROVE  RowsInv'
<1>1. /\ Basic' /\ (PackageThere' => PackageThere) /\ writer = p
      /\ cmd[p].op \in {"delete", "purge"} /\ cmd[p].rows \in RowsType
      /\ UNCHANGED <<rows, package, writer>>
  BY RemoveBasic
<1>2. PICK o \in cmd[p].todo :
        /\ o \in Catalog /\ o.name \in Name
        /\ Target'.browses = Target.browses \ Named(Target.browses, o.name)
        /\ Target'.located = [Target.located EXCEPT ![o.name] = None]
  BY RemoveTarget
<1>3. p # None
  BY LayerDataAssumption
<1>4. Target = cmd[p].rows
  BY <1>1, <1>3 DEF Target
<1>5. /\ Target'.browses = Target.browses \ Named(Target.browses, o.name)
      /\ Target'.located = [Target.located EXCEPT ![o.name] = None]
      /\ cmd'[p].op = cmd[p].op
  BY <1>2, RemoveTarget
<1>6. /\ Target.browses \in SUBSET Catalog
      /\ Target.located \in [Name -> Path \cup {None}] /\ o.name \in Name
  BY <1>1, <1>2, <1>4 DEF RowsType
<1>7. Unique(Target'.browses)
  BY <1>5 DEF Unique, RowsInv
<1>8. Located(Target'.browses, Target'.located)
  <2>1. ASSUME NEW n \in Name PROVE Named(Target'.browses, n) = {} <=> Target'.located[n] = None
    <3>1. CASE n = o.name
      BY <1>5, <1>6, <3>1 DEF Named
    <3>2. CASE n # o.name
      <4>1. Named(Target'.browses, n) = Named(Target.browses, n)
        BY <1>5, <3>2 DEF Named
      <4> QED
        BY <1>5, <1>6, <3>2, <4>1 DEF RowsInv, Located
    <3> QED
      BY <3>1, <3>2
  <2>2. ASSUME NEW m \in Name, NEW n \in Name, Target'.located[m] = Target'.located[n],
               Target'.located[m] # None
        PROVE m = n
    BY <1>5, <1>6, <2>2 DEF RowsInv, Located
  <2>3. ASSUME NEW n \in Name, Target'.located[n] \in Name PROVE Target'.located[n] = n
    BY <1>5, <1>6, <2>3, LayerDataAssumption DEF RowsInv, Located
  <2> QED
    BY <2>1, <2>2, <2>3 DEF Located
<1>9. \A b \in Target'.browses : Target'.located[b.name] \in Name =>
        b \in Target.browses /\ Target.located[b.name] \in Name
  <2>1. \A b \in Target'.browses : b \in Target.browses /\ b.name \in Name
    BY <1>5, <1>6, NameTyping
  <2> QED
    BY <1>5, <1>6, <2>1, LayerDataAssumption
<1>10. FromPackage(browses, located)' /\ FromPackage(Target.browses, Target.located)'
  BY <1>1, <1>9 DEF RowsInv, FromPackage, rows
<1>11. PackageThere' => Unique(package'.rows)
  BY <1>1 DEF RowsInv
<1>12. Unique(browses)' /\ Located(browses, located)'
  BY <1>1 DEF RowsInv, Unique, Located, Named, rows
<1>13. \A b \in Target'.browses : Target'.located[b.name] \in Name => b \in browses'
  BY <1>1, <1>3, <1>9 DEF RowsInv, rows
<1> QED
  BY <1>7, <1>8, <1>10, <1>11, <1>12, <1>13 DEF RowsInv, Unique, Located, Named

\* What an ingestion or an import adds to the rows.
LEMMA WriteTarget ==
  ASSUME Basic, NEW p \in Proc, Write(p)
  PROVE  /\ Target'.browses = (browses \ Named(browses, cmd[p].now.name)) \cup {cmd[p].now}
         /\ Target'.located = [located EXCEPT ![cmd[p].now.name] = Output(p)]
         /\ cmd'[p].op = cmd[p].op /\ cmd'[p].at = "commit" /\ cmd'[p].view = None
         /\ cmd'[p].now = cmd[p].now /\ cmd'[p].todo = cmd[p].todo
         /\ cmd'[p].remove = cmd[p].remove
<1>1. writer' = p
  BY WriteBasic
<1>0. \E m \in Replacement(p), f \in Replaced(p) :
         LET new == Creation(ReadAgain(p, m.times), m.times, cmd[p].now)
         IN  /\ OutputFree(p, f)
             /\ \/ tiles' = Without(tiles, m.unseed \cup new.unseed) /\ UNCHANGED faults
                \/ Fault("unseed") /\ tiles' = Without(tiles, new.unseed)
             /\ m.times \in SUBSET Span /\ m.unseed \in SUBSET DimType
             /\ m.areas \in SUBSET DimType
             /\ disk' = [g \in Path |-> IF g = Output(p) THEN NewImage(p)
                                        ELSE IF g = f THEN None ELSE disk[g]]
             /\ cmd'[p] = [cmd[p] EXCEPT
                  !.at = "commit", !.found = None, !.view = None,
                  !.rows = [browses |-> (browses \ Named(browses, cmd[p].now.name))
                                          \cup {cmd[p].now},
                            times |-> new.times,
                            located |-> [located EXCEPT ![cmd[p].now.name] = Output(p)]],
                  !.areas = m.areas \cup {Dim(new.hull)}]
  BY WriteBasic
<1>2. PICK T, A :
         cmd'[p] = [cmd[p] EXCEPT
              !.at = "commit", !.found = None, !.view = None,
              !.rows = [browses |-> (browses \ Named(browses, cmd[p].now.name)) \cup {cmd[p].now},
                        times |-> T,
                        located |-> [located EXCEPT ![cmd[p].now.name] = Output(p)]],
              !.areas = A]
  BY <1>0
<1>3. cmd[p] \in CmdType /\ p # None
  BY LayerDataAssumption DEF Basic, Types
<1>4. Target' = cmd'[p].rows
  BY <1>1, <1>3 DEF Target
<1> DEFINE written == [browses |-> (browses \ Named(browses, cmd[p].now.name)) \cup {cmd[p].now},
                       times |-> T,
                       located |-> [located EXCEPT ![cmd[p].now.name] = Output(p)]]
<1>5. /\ written.browses = (browses \ Named(browses, cmd[p].now.name)) \cup {cmd[p].now}
      /\ written.located = [located EXCEPT ![cmd[p].now.name] = Output(p)]
  OBVIOUS
<1>6. cmd'[p] = [cmd[p] EXCEPT !.at = "commit", !.found = None, !.view = None, !.rows = written,
                               !.areas = A]
  BY <1>2
<1> HIDE DEF written
<1>7. /\ cmd'[p].rows = written /\ cmd'[p].op = cmd[p].op /\ cmd'[p].at = "commit"
      /\ cmd'[p].view = None /\ cmd'[p].now = cmd[p].now /\ cmd'[p].todo = cmd[p].todo
      /\ cmd'[p].remove = cmd[p].remove
  BY <1>3, <1>6 DEF CmdType
<1> QED
  BY <1>4, <1>5, <1>7

LEMMA WriteRows ==
  ASSUME Basic, RowsInv, NEW p \in Proc, Write(p)
  PROVE  RowsInv'
<1>1. /\ Basic' /\ (PackageThere' => PackageThere)
      /\ cmd[p].op \in {"ingest", "import"} /\ cmd[p].now \in Catalog
      /\ writer = None /\ writer' = p /\ Output(p) \in Path
      /\ cmd[p].op # "import" => Output(p) \in NewNames
      /\ UNCHANGED <<rows, package>>
  BY WriteBasic
<1>5. /\ Target'.browses = (browses \ Named(browses, cmd[p].now.name)) \cup {cmd[p].now}
      /\ Target'.located = [located EXCEPT ![cmd[p].now.name] = Output(p)]
      /\ cmd'[p].op = cmd[p].op
  BY WriteTarget
<1> DEFINE now == cmd[p].now
           TB == Target'.browses
           TL == Target'.located
<1>6. /\ now \in Catalog /\ now.name \in Name /\ browses \in SUBSET Catalog
      /\ located \in [Name -> Path \cup {None}]
  BY <1>1, NameTyping DEF Basic, Types
<1>8. /\ Unique(browses) /\ Located(browses, located) /\ FromPackage(browses, located)
      /\ PackageThere => Unique(package.rows)
  BY DEF RowsInv
<1>9. cmd[p].op = "import" => Output(p) = now.name /\ PackageThere /\ now \in package.rows
  <2>1. cmd[p].at = "write"
    BY DEF Write, At
  <2> QED
    BY <2>1 DEF Output, PackageThere, Basic, Control
<1>10. cmd[p].op = "ingest" => Output(p) \notin Name /\ \A n \in Name : located[n] # Output(p)
  BY <1>1, LayerDataAssumption DEF NewNames
<1>11. /\ TB = (browses \ Named(browses, now.name)) \cup {now} /\ TL[now.name] = Output(p)
       /\ \A n \in Name : n # now.name => TL[n] = located[n]
  BY <1>5, <1>6
<1>12. \A b \in TB : b = now \/ (b \in browses /\ b.name # now.name)
  BY <1>11 DEF Named
<1>13. \A b \in TB : b.name \in Name
  BY <1>6, <1>11, NameTyping
<1> HIDE DEF now, TB, TL
<1>15. Unique(TB)
  BY <1>8, <1>12 DEF Unique
<1>16. Located(TB, TL)
  <2>1. ASSUME NEW n \in Name PROVE Named(TB, n) = {} <=> TL[n] = None
    <3>1. CASE n = now.name
      <4>1. now \in Named(TB, n)
        BY <1>11, <3>1 DEF Named
      <4>2. TL[n] # None
        BY <1>1, <1>11, <3>1, LayerDataAssumption DEF Path
      <4> QED
        BY <4>1, <4>2
    <3>2. CASE n # now.name
      <4>1. Named(TB, n) = Named(browses, n)
        BY <1>11, <3>2 DEF Named
      <4> QED
        BY <1>8, <1>11, <3>2, <4>1 DEF Located
    <3> QED
      BY <3>1, <3>2
  <2>2. ASSUME NEW n \in Name, n # now.name, TL[n] = TL[now.name] PROVE FALSE
    <3>1. located[n] = Output(p)
      BY <1>11, <2>2
    <3>2. cmd[p].op = "import"
      BY <1>1, <1>10, <3>1
    <3>3. located[n] = now.name
      BY <1>9, <3>1, <3>2
    <3>4. located[n] = n
      BY <1>6, <1>8, <3>3 DEF Located
    <3> QED
      BY <2>2, <3>3, <3>4
  <2>3. ASSUME NEW m \in Name, NEW n \in Name, TL[m] = TL[n], TL[m] # None PROVE m = n
    <3>1. CASE m = now.name \/ n = now.name
      BY <2>2, <2>3, <3>1
    <3>2. CASE m # now.name /\ n # now.name
      BY <1>8, <1>11, <2>3, <3>2 DEF Located
    <3> QED
      BY <3>1, <3>2
  <2>4. ASSUME NEW n \in Name, TL[n] \in Name PROVE TL[n] = n
    <3>1. CASE n = now.name
      BY <1>1, <1>9, <1>10, <1>11, <2>4, <3>1
    <3>2. CASE n # now.name
      BY <1>8, <1>11, <2>4, <3>2 DEF Located
    <3> QED
      BY <3>1, <3>2
  <2> QED
    BY <2>1, <2>3, <2>4 DEF Located
<1>17. PackageThere => \A b \in TB, r \in package.rows : TL[b.name] \in Name /\ r.name = b.name => r = b
  <2>1. SUFFICES ASSUME PackageThere, NEW b \in TB, NEW r \in package.rows, TL[b.name] \in Name,
                        r.name = b.name
                 PROVE  r = b
    OBVIOUS
  <2>2. CASE b = now
    <3>1. cmd[p].op = "import"
      BY <1>1, <1>10, <1>11, <2>1, <2>2
    <3> QED
      BY <1>8, <1>9, <2>1, <2>2, <3>1 DEF Unique
  <2>3. CASE b # now
    <3>1. b \in browses /\ located[b.name] \in Name
      BY <1>11, <1>12, <1>13, <2>1, <2>3
    <3> QED
      BY <1>8, <2>1, <3>1 DEF FromPackage
  <2> QED
    BY <2>2, <2>3
<1>18. cmd[p].op # "import" => \A b \in TB : TL[b.name] \in Name => b \in browses
  <2>1. SUFFICES ASSUME cmd[p].op # "import", NEW b \in TB, TL[b.name] \in Name PROVE b \in browses
    OBVIOUS
  <2>2. b # now
    BY <1>1, <1>10, <1>11, <2>1
  <2> QED
    BY <1>12, <2>2
<1>19. UNCHANGED <<browses, located, package>>
  BY <1>1 DEF rows
<1>20. Unique(browses)' /\ Located(browses, located)' /\ FromPackage(browses, located)'
       /\ (PackageThere' => Unique(package'.rows))
  BY <1>1, <1>8, <1>19 DEF Unique, Located, Named, FromPackage
<1>21. FromPackage(Target.browses, Target.located)'
  BY <1>1, <1>17, <1>19 DEF FromPackage, TB, TL
<1>22. writer' # None /\ cmd'[writer'].op # "import" =>
         \A b \in TB : TL[b.name] \in Name => b \in browses'
  BY <1>1, <1>5, <1>18, <1>19
<1> QED
  BY <1>15, <1>16, <1>20, <1>21, <1>22 DEF RowsInv, TB, TL, Unique, Located, Named

\* The package stays, and what a process does that has no transaction.
LEMMA RowsIdle ==
  ASSUME Basic, RowsInv, NEW p \in Proc, Step(p), ~Writes(cmd[p]), UNCHANGED <<rows, writer>>,
         PackageThere' => PackageThere /\ package'.rows = package.rows
  PROVE  RowsInv'
<1>1. writer # p
  BY DEF Basic, Control, Writes
<1>2. \A q \in Proc : q # p => cmd'[q] = cmd[q]
  BY OtherCommands
<1>3. Target' = Target
  BY <1>1, <1>2, OtherTarget
<1>4. UNCHANGED <<browses, located>>
  BY DEF rows
<1>5. writer # None => cmd'[writer] = cmd[writer] /\ writer' = writer
  BY <1>1, <1>2 DEF Basic, Types
<1> QED
  BY <1>3, <1>4, <1>5, RowsKept

\* A transaction is rolled back.
LEMMA RolledBackRows ==
  ASSUME Basic, RowsInv, NEW p \in Proc, PackageThere' => PackageThere,
         UNCHANGED <<rows, package>>, writer' = (IF writer = p THEN None ELSE writer), Step(p)
  PROVE  RowsInv'
<1>3. CASE ~Writes(cmd[p])
  <2>1. writer # p
    BY <1>3 DEF Basic, Control, Writes
  <2>2. UNCHANGED <<rows, writer>>
    BY <2>1
  <2> QED
    BY <1>3, <2>2, RowsIdle
<1>4. CASE Writes(cmd[p])
  <2>1. writer' = None
    BY <1>4 DEF Basic, Control, Writes
  <2>2. Target'.browses = browses /\ Target'.located = located
    BY <2>1 DEF Target, Committed, rows
  <2>3. UNCHANGED <<browses, located, package>>
    BY DEF rows
  <2> QED
    BY <2>1, <2>2, <2>3 DEF RowsInv, Unique, Located, Named, FromPackage
<1> QED
  BY <1>3, <1>4

LEMMA DropLayerRows ==
  ASSUME Basic, RowsInv, NEW p \in Proc, DropLayer(p)
  PROVE  RowsInv'
<1>1. /\ Basic' /\ (PackageThere' => PackageThere) /\ package' = package /\ writer' = None
      /\ browses' = {} /\ located' = [n \in Name |-> None]
  BY DropLayerBasic
<1>2. Target'.browses = {} /\ Target'.located = [n \in Name |-> None]
  BY <1>1 DEF Target, Committed
<1>3. Unique({}) /\ Located({}, [n \in Name |-> None])
  BY LayerDataAssumption DEF Unique, Located, Named
<1>4. (PackageThere' => Unique(package'.rows))
  BY <1>1 DEF RowsInv
<1>5. FromPackage(browses, located)' /\ FromPackage(Target.browses, Target.located)'
  BY <1>1, <1>2 DEF FromPackage
<1> QED
  BY <1>1, <1>2, <1>3, <1>4, <1>5 DEF RowsInv, Unique, Located, Named

LEMMA StartExportRows ==
  ASSUME Basic, RowsInv, NEW p \in Proc, StartExport(p)
  PROVE  RowsInv'
<1>1. /\ Basic' /\ UNCHANGED <<rows, writer>> /\ Alone(p) /\ cmd[p] = Idle
      /\ package'.rows \subseteq browses
  BY StartExportBasic
<1>2. Step(p)
  BY DEF Step
<1>3. writer # p
  BY <1>1, BegunTyping DEF Basic, Control, Writes
<1>4. \A q \in Proc : q # p => cmd'[q] = cmd[q]
  BY <1>2, OtherCommands
<1>5. Target' = Target
  BY <1>1, <1>3, <1>4, OtherTarget
<1>6. UNCHANGED <<browses, located>>
  BY <1>1 DEF rows
<1>7. Unique(package'.rows)
  BY <1>1 DEF RowsInv, Unique
<1>8. \A b \in Target.browses : Target.located[b.name] \in Name => b \in browses
  <2>1. CASE writer = None
    BY <2>1, NoWriterTarget
  <2>2. CASE writer # None
    BY <1>1, <1>3, <2>2 DEF RowsInv, Alone, Basic, Types
  <2> QED
    BY <2>1, <2>2
<1>9. FromPackage(browses, located)' /\ FromPackage(Target.browses, Target.located)'
  BY <1>1, <1>5, <1>6, <1>8 DEF RowsInv, FromPackage, Unique
<1>10. Unique(browses)' /\ Located(browses, located)' /\ Unique(Target.browses)'
       /\ Located(Target.browses, Target.located)'
  BY <1>5, <1>6 DEF RowsInv, Unique, Located, Named
<1>11. writer' # None => \A b \in Target'.browses : Target'.located[b.name] \in Name => b \in browses'
  BY <1>5, <1>6, <1>8
<1> QED
  BY <1>7, <1>9, <1>10, <1>11 DEF RowsInv, Unique

LEMMA RowsNext ==
  ASSUME Basic, RowsInv, [LayerNext]_allvars
  PROVE  RowsInv'
<1>1. CASE View \/ UNCHANGED allvars
  <2>1. (PackageThere' => PackageThere) /\ UNCHANGED <<rows, package, writer, cmd>>
    BY <1>1, ViewBasic
  <2>2. UNCHANGED <<browses, located>> /\ Target' = Target
    BY <2>1 DEF Target, Committed, rows
  <2> QED
    BY <2>1, <2>2, RowsKept
<1>2. ASSUME NEW p \in Proc, Quiet(p) PROVE RowsInv'
  <2>1. Step(p)
    BY <1>2 DEF Quiet, Step
  <2> QED
    BY <1>2, <2>1, QuietStep, RowsIdle
<1>3. ASSUME NEW p \in Proc, LockRows(p) PROVE RowsInv'
  <2>1. (PackageThere' => PackageThere) /\ writer = None /\ Target' = Target
        /\ UNCHANGED <<rows, package>>
    BY <1>3, LockRowsBasic
  <2>2. UNCHANGED <<browses, located>>
    BY <2>1 DEF rows
  <2> QED
    BY <2>1, <2>2, RowsKept
<1>4. ASSUME NEW p \in Proc, CommitFirst(p) PROVE RowsInv'
  <2>1. /\ Basic' /\ (PackageThere' => PackageThere) /\ writer = p /\ Target' = Target
        /\ cmd'[p] = [cmd[p] EXCEPT !.at = "second"]
        /\ UNCHANGED <<package, writer>>
    BY <1>4, CommitFirstBasic
  <2>2. CASE cmd[p].op \in {"ingest", "import"}
    <3>1. browses' = Target.browses /\ located' = Target.located
      BY <1>4, <2>2, CommitFirstBasic
    <3>2. Basic /\ cmd[p] \in CmdType
      BY DEF Basic, Types
    <3> QED
      BY <2>1, <3>1, RowsCommitted
  <2>3. CASE cmd[p].op \notin {"ingest", "import"}
    <3>1. browses' = browses /\ located' = located
      BY <1>4, <2>3, CommitFirstBasic
    <3>2. cmd[p] \in CmdType
      BY DEF Basic, Types
    <3>3. cmd'[p].op = cmd[p].op
      BY <2>1, <3>2 DEF CmdType
    <3> QED
      BY <2>1, <3>1, <3>3, RowsKept
  <2> QED
    BY <2>2, <2>3
<1>5. ASSUME NEW p \in Proc, CommitSecond(p) PROVE RowsInv'
  BY <1>5, CommitSecondBasic, RowsCommitted
<1>6. ASSUME NEW p \in Proc, DeleteFile(p) \/ EndExport(p) PROVE RowsInv'
  <2>1. Step(p)
    BY <1>6 DEF Step
  <2>2. UNCHANGED <<rows, writer>>
    BY <1>6, DeleteFileBasic, EndExportBasic
  <2>3. ~Writes(cmd[p])
    BY <1>6 DEF DeleteFile, EndExport, At, Writes
  <2>4. PackageThere' => PackageThere /\ package'.rows = package.rows
    <3>1. CASE DeleteFile(p)
      BY <3>1, DeleteFileBasic
    <3>2. CASE EndExport(p)
      <4>1. PackageThere /\ package \in PackageType /\ package' = [package EXCEPT !.closed = TRUE]
        BY <3>2, EndExportBasic
      <4> QED
        BY <4>1 DEF PackageType
    <3> QED
      BY <1>6, <3>1, <3>2
  <2> QED
    BY <2>1, <2>2, <2>3, <2>4, RowsIdle
<1>7. ASSUME NEW p \in Proc, LocateImage(p) \/ CopyImage(p) \/ FindTime(p) \/ CopyTiles(p) PROVE RowsInv'
  <2>1. Step(p)
    BY <1>7 DEF Step
  <2>2. UNCHANGED <<rows, writer>> /\ cmd[p].op = "export" /\ (PackageThere' => PackageThere)
    BY <1>7, LocateImageBasic, CopyImageBasic, FindTimeBasic, CopyTilesBasic
  <2>3. ~Writes(cmd[p])
    BY <2>2, Exporting
  <2>4. PackageThere' => package'.rows = package.rows
    BY <1>7, LocateImageBasic, CopyImageBasic, FindTimeBasic, CopyTilesBasic
  <2> QED
    BY <2>1, <2>2, <2>3, <2>4, RowsIdle
<1>8. ASSUME NEW p \in Proc, Kill(p) \/ ListedGone(p) PROVE RowsInv'
  <2>1. Step(p)
    BY <1>8 DEF Step
  <2>2. /\ PackageThere' => PackageThere
        /\ UNCHANGED <<rows, package>> /\ writer' = (IF writer = p THEN None ELSE writer)
    BY <1>8, KillBasic, ListedGoneBasic
  <2> QED
    BY <2>1, <2>2, RolledBackRows
<1> QED
  BY <1>1, <1>2, <1>3, <1>4, <1>5, <1>6, <1>7, <1>8, StepCases, RemoveRows, WriteRows, DropLayerRows,
     StartExportRows

\* Only LockRows begins to delete, and only ReadTimesEarly reads early.
LEMMA ListNext ==
  ASSUME Basic, Rows, [LayerNext]_allvars
  PROVE  ListInv' /\ EarlyInv'
<1>1. seen \subseteq seen'
  BY HistoryGrows
<1>2. CASE View \/ UNCHANGED allvars
  <2>1. cmd' = cmd
    BY <1>2, ViewBasic
  <2> QED
    BY <1>1, <2>1 DEF Rows, ListInv, EarlyInv
<1>3. ASSUME NEW p \in Proc, Step(p), cmd'[p].at # "remove",
             cmd'[p].view = None \/ cmd'[p].view = cmd[p].view \/ "early" \in seen'
      PROVE  ListInv' /\ EarlyInv'
  <2>1. \A q \in Proc : q # p => cmd'[q] = cmd[q]
    BY <1>3, OtherCommands
  <2>2. ListInv'
    BY <1>1, <1>3, <2>1 DEF Rows, ListInv
  <2>3. EarlyInv'
    BY <1>1, <1>3, <2>1 DEF Rows, EarlyInv
  <2> QED
    BY <2>2, <2>3
<1>4. ASSUME NEW p \in Proc, Quiet(p) PROVE ListInv' /\ EarlyInv'
  <2>1. Step(p) /\ cmd'[p].at # "remove"
    BY <1>4, QuietStep DEF Quiet, Step, Writes
  <2>2. cmd'[p].view = None \/ cmd'[p].view = cmd[p].view \/ "early" \in seen'
    BY <1>4, QuietCommand DEF ReadTimesEarly, See
  <2> QED
    BY <1>3, <2>1, <2>2
<1>5. ASSUME NEW p \in Proc, LockRows(p) PROVE ListInv' /\ EarlyInv'
  <2>1. /\ cmd'[p].rows = Committed /\ cmd'[p].todo = cmd[p].todo
        /\ cmd'[p].found = cmd[p].found /\ cmd'[p].view = cmd[p].view
        /\ \A q \in Proc : q # p => cmd'[q] = cmd[q]
    BY <1>5, LockRowsBasic
  <2>2. "stale" \notin seen' => ListHolds(p)
    BY <1>5 DEF LockRows, See
  <2>3. "stale" \notin seen' =>
          /\ cmd'[p].todo \subseteq cmd'[p].rows.browses
          /\ \A o \in cmd'[p].todo : cmd'[p].found[o.name] = cmd'[p].rows.located[o.name]
    BY <2>1, <2>2 DEF ListHolds, Committed
  <2>4. ListInv'
    BY <1>1, <2>1, <2>3 DEF Rows, ListInv
  <2>5. EarlyInv'
    BY <1>1, <2>1 DEF Rows, EarlyInv
  <2> QED
    BY <2>4, <2>5
<1>6. ASSUME NEW p \in Proc, RemoveBrowse(p) PROVE ListInv' /\ EarlyInv'
  <2>1. Step(p)
    BY <1>6 DEF Step
  <2>2. \A q \in Proc : q # p => cmd'[q] = cmd[q]
    BY <2>1, OtherCommands
  <2>3. /\ cmd'[p].found = None /\ cmd'[p].view = None /\ cmd[p].rows = Target
        /\ cmd'[p].rows = Target'
        /\ \E o \in cmd[p].todo : /\ Target'.browses = Target.browses \ Named(Target.browses, o.name)
                                 /\ cmd'[p].todo = cmd[p].todo \ {o}
    BY <1>6, RemoveTarget
  <2>4. cmd[p].at = "remove"
    BY <1>6, RemoveBasic
  <2>5. "stale" \notin seen' => cmd'[p].todo \subseteq cmd'[p].rows.browses
    <3>1. SUFFICES ASSUME "stale" \notin seen' PROVE cmd'[p].todo \subseteq Target'.browses
      BY <2>3
    <3>2. cmd[p].todo \subseteq Target.browses
      BY <1>1, <2>3, <2>4, <3>1 DEF Rows, ListInv
    <3>3. Unique(Target.browses)
      BY DEF Rows, RowsInv
    <3>4. PICK o \in cmd[p].todo : /\ Target'.browses = Target.browses \ Named(Target.browses, o.name)
                                 /\ cmd'[p].todo = cmd[p].todo \ {o}
      BY <2>3
    <3>5. Named(Target.browses, o.name) = {o}
      BY <3>2, <3>3 DEF Unique, Named
    <3> QED
      BY <3>2, <3>4, <3>5
  <2>6. ListInv'
    BY <1>1, <2>2, <2>3, <2>5 DEF Rows, ListInv
  <2>7. EarlyInv'
    BY <1>1, <2>2, <2>3 DEF Rows, EarlyInv
  <2> QED
    BY <2>6, <2>7
<1>7. ASSUME NEW p \in Proc, Write(p) PROVE ListInv' /\ EarlyInv'
  <2>1. Step(p)
    BY <1>7 DEF Step
  <2>2. cmd'[p].at # "remove" /\ cmd'[p].view = None
    BY <1>7, WriteTarget
  <2> QED
    BY <1>3, <2>1, <2>2
<1>8. ASSUME NEW p \in Proc, CommitFirst(p) PROVE ListInv' /\ EarlyInv'
  <2>1. Step(p)
    BY <1>8 DEF Step
  <2>2. cmd[p] \in CmdType
    BY DEF Basic, Types
  <2>3. cmd'[p].at = "second" /\ cmd'[p].view = cmd[p].view
    BY <1>8, <2>2, CommitFirstBasic DEF CmdType
  <2> QED
    BY <1>3, <2>1, <2>3
<1>9. ASSUME NEW p \in Proc, CommitSecond(p) PROVE ListInv' /\ EarlyInv'
  <2>1. Step(p)
    BY <1>9 DEF Step
  <2>2. cmd[p] \in CmdType
    BY DEF Basic, Types
  <2>3. cmd'[p].at # "remove" /\ cmd'[p].view = cmd[p].view
    BY <1>9, <2>2, CommitSecondBasic DEF CmdType
  <2> QED
    BY <1>3, <2>1, <2>3
<1>10. ASSUME NEW p \in Proc, DeleteFile(p) PROVE ListInv' /\ EarlyInv'
  <2>1. Step(p)
    BY <1>10 DEF Step
  <2>2. cmd[p] \in CmdType
    BY DEF Basic, Types
  <2>3. cmd'[p].at # "remove" /\ cmd'[p].view = cmd[p].view
    BY <1>10, <2>2, DeleteFileBasic DEF CmdType
  <2> QED
    BY <1>3, <2>1, <2>3
<1>11. ASSUME NEW p \in Proc, cmd'[p] = Idle, Step(p) PROVE ListInv' /\ EarlyInv'
  BY <1>3, <1>11, BegunTyping
<1>12. ASSUME NEW p \in Proc, DropLayer(p) \/ Kill(p) \/ ListedGone(p) \/ EndExport(p)
       PROVE ListInv' /\ EarlyInv'
  <2>1. Step(p)
    BY <1>12 DEF Step
  <2> QED
    BY <1>11, <1>12, <2>1, DropLayerBasic, KillBasic, ListedGoneBasic, EndExportBasic
<1>13. ASSUME NEW p \in Proc, StartExport(p) PROVE ListInv' /\ EarlyInv'
  <2>1. Step(p)
    BY <1>13 DEF Step
  <2> QED
    BY <1>3, <1>13, <2>1, StartExportBasic
<1>14. ASSUME NEW p \in Proc, LocateImage(p) \/ CopyImage(p) \/ FindTime(p) \/ CopyTiles(p)
       PROVE ListInv' /\ EarlyInv'
  <2>1. Step(p)
    BY <1>14 DEF Step
  <2>2. cmd'[p] = Idle \/ (cmd'[p].at # "remove" /\ cmd'[p].view = cmd[p].view)
    BY <1>14, LocateImageBasic, CopyImageBasic, FindTimeBasic, CopyTilesBasic
  <2> QED
    BY <1>3, <1>11, <2>1, <2>2
<1> QED
  BY <1>2, <1>4, <1>5, <1>6, <1>7, <1>8, <1>9, <1>10, <1>12, <1>13, <1>14, StepCases

LEMMA InitRows == LayerInit => Rows
<1> SUFFICES ASSUME LayerInit PROVE Rows
  OBVIOUS
<1>1. Basic /\ ~PackageThere /\ writer = None
  <2>1. \A p \in Proc : cmd[p].op = "idle"
    BY BegunTyping DEF LayerInit
  <2> QED
    BY <2>1, InitBasic DEF LayerInit, PackageThere
<1>2. PICK u \in [Name -> Upload] :
        /\ \A m, n \in Name : u[m] = u[n] => m = n
        /\ located = [n \in Name |-> IF Named(browses, n) = {} THEN None ELSE u[n]]
  BY DEF LayerInit
<1>3. Unique(browses)
  BY LayerDataAssumption DEF LayerInit, Unique
<1>4. Located(browses, located)
  BY <1>2, LayerDataAssumption DEF Located
<1>5. Target.browses = browses /\ Target.located = located
  BY <1>1, NoWriterTarget
<1>6. \A p \in Proc : cmd[p].at = "idle" /\ cmd[p].view = None
  BY BegunTyping DEF LayerInit
<1>7. ListInv /\ EarlyInv
  BY <1>6 DEF ListInv, EarlyInv
<1> QED
  BY <1>1, <1>3, <1>4, <1>5, <1>7 DEF Rows, RowsInv, FromPackage

LEMMA RowsHold == LayerSpec => [](Basic /\ Rows)
<1>1. Basic /\ Rows /\ [LayerNext]_allvars => (Basic /\ Rows)'
  BY BasicNext, RowsNext, ListNext DEF Rows
<1> QED
  BY <1>1, InitBasic, InitRows, PTL DEF LayerSpec

\* What a deletion leaves of the rows whose list holds.
LEMMA RemoveListed ==
  ASSUME Basic, Rows, NEW p \in Proc, RemoveBrowse(p), "stale" \notin seen
  PROVE  /\ cmd[p].todo \subseteq Target.browses
         /\ \E o \in cmd[p].todo :
              /\ o \in Target.browses /\ o.name \in Name
              /\ Target'.browses = Target.browses \ {o}
              /\ Target'.located = [Target.located EXCEPT ![o.name] = None]
              /\ cmd'[p].todo = cmd[p].todo \ {o}
              /\ cmd'[p].remove = cmd[p].remove \cup {Target.located[o.name]}
<1>1. cmd[p].rows = Target /\ cmd[p].at = "remove"
  BY RemoveTarget, RemoveBasic
<1>2. /\ cmd[p].todo \subseteq Target.browses
      /\ cmd[p].found # None => \A o \in cmd[p].todo : cmd[p].found[o.name] = Target.located[o.name]
  BY <1>1 DEF Rows, ListInv
<1>3. PICK o \in cmd[p].todo :
            \E f \in {Target.located[o.name]} \cup
                       (IF cmd[p].found = None THEN {} ELSE {cmd[p].found[o.name]}) :
              /\ o.name \in Name
              /\ Target'.browses = Target.browses \ Named(Target.browses, o.name)
              /\ Target'.located = [Target.located EXCEPT ![o.name] = None]
              /\ cmd'[p].todo = cmd[p].todo \ {o}
              /\ cmd'[p].remove = cmd[p].remove \cup {f}
  BY RemoveTarget
<1>4. Named(Target.browses, o.name) = {o}
  BY <1>2 DEF Rows, RowsInv, Unique, Named
<1>5. {Target.located[o.name]} \cup (IF cmd[p].found = None THEN {} ELSE {cmd[p].found[o.name]})
        = {Target.located[o.name]}
  BY <1>2
<1> QED
  BY <1>2, <1>3, <1>4, <1>5

\* What an ingestion or an import replaces that has looked up what there is.
LEMMA WriteListed ==
  ASSUME Basic, Rows, NEW p \in Proc, Write(p), "stale" \notin seen'
  PROVE  /\ cmd[p].old # None => cmd[p].old \in browses /\ cmd[p].old.name = cmd[p].now.name
         /\ browses \ Named(browses, cmd[p].now.name) = browses \ {cmd[p].old}
         /\ OutputFree(p, IF cmd[p].old = None THEN None ELSE located[cmd[p].old.name])
         /\ disk' = [g \in Path |->
              IF g = Output(p) THEN NewImage(p)
              ELSE IF cmd[p].old # None /\ g = located[cmd[p].old.name] THEN None ELSE disk[g]]
<1> DEFINE now == cmd[p].now
           old == cmd[p].old
           path == IF old = None THEN None ELSE located[old.name]
<1>1. /\ LookupHolds(p) /\ See(IF LookupFresh(p) THEN {} ELSE {"stale"})
      /\ old # None => old.name = now.name
  BY WriteBasic
<1>2. LookupFresh(p)
  BY <1>1 DEF See
<1>3. old # None => old \in browses
  BY <1>2 DEF LookupFresh
<1>4. Named(browses, now.name) = IF old = None THEN {} ELSE {old}
  BY <1>1, <1>3 DEF LookupHolds, Named, Rows, RowsInv, Unique
<1>5. None \notin browses /\ None \notin Path
  BY LayerDataAssumption DEF Basic, Types, Path
<1>6. browses \ Named(browses, now.name) = browses \ {old}
  BY <1>4, <1>5
<1>7. Replaced(p) = {path}
  BY <1>1, <1>2 DEF Replaced, LookupFresh
<1>8. \E f \in Replaced(p) :
        /\ OutputFree(p, f)
        /\ disk' = [g \in Path |-> IF g = Output(p) THEN NewImage(p)
                                   ELSE IF g = f THEN None ELSE disk[g]]
  <2>1. PICK m \in Replacement(p), f \in Replaced(p) :
        LET new == Creation(ReadAgain(p, m.times), m.times, cmd[p].now)
        IN  /\ OutputFree(p, f)
            /\ \/ tiles' = Without(tiles, m.unseed \cup new.unseed) /\ UNCHANGED faults
               \/ Fault("unseed") /\ tiles' = Without(tiles, new.unseed)
            /\ m.times \in SUBSET Span /\ m.unseed \in SUBSET DimType
            /\ m.areas \in SUBSET DimType
            /\ disk' = [g \in Path |-> IF g = Output(p) THEN NewImage(p)
                                       ELSE IF g = f THEN None ELSE disk[g]]
            /\ cmd'[p] = [cmd[p] EXCEPT
                 !.at = "commit", !.found = None, !.view = None,
                 !.rows = [browses |-> (browses \ Named(browses, cmd[p].now.name))
                                         \cup {cmd[p].now},
                           times |-> new.times,
                           located |-> [located EXCEPT ![cmd[p].now.name] = Output(p)]],
                 !.areas = m.areas \cup {Dim(new.hull)}]
    BY WriteBasic
  <2> QED
    BY <2>1
<1>9. /\ OutputFree(p, path)
      /\ disk' = [g \in Path |-> IF g = Output(p) THEN NewImage(p)
                                 ELSE IF g = path THEN None ELSE disk[g]]
  BY <1>7, <1>8
<1>10. disk' = [g \in Path |->
              IF g = Output(p) THEN NewImage(p)
              ELSE IF old # None /\ g = located[old.name] THEN None ELSE disk[g]]
  BY <1>5, <1>9
<1> QED
  BY <1>1, <1>3, <1>6, <1>9, <1>10

-----------------------------------------------------------------------------
(* Images *)

\* The steps of an export of one browse.
Exports(p) == LocateImage(p) \/ CopyImage(p) \/ FindTime(p) \/ CopyTiles(p)

LEMMA ExportsBasic ==
  ASSUME Basic, NEW p \in Proc, Exports(p)
  PROVE  /\ Basic' /\ (PackageThere' => PackageThere) /\ Step(p) /\ ~Writes(cmd[p]) /\ writer # p
         /\ UNCHANGED <<rows, disk, tiles, layer, seeding, writer, faults>> /\ Target' = Target
         /\ cmd[p].op = "export" /\ \A q \in Proc : q # p => cmd'[q] = cmd[q]
         /\ cmd'[p].op \notin {"delete", "purge"}
         /\ cmd[p].remove = {} /\ cmd'[p].remove = {}
         /\ PackageThere' => package'.rows = package.rows
<1>1. /\ Basic' /\ (PackageThere' => PackageThere)
      /\ UNCHANGED <<rows, disk, tiles, layer, seeding, writer, faults>>
      /\ cmd[p].op = "export" /\ \A q \in Proc : q # p => cmd'[q] = cmd[q]
  BY LocateImageBasic, CopyImageBasic, FindTimeBasic, CopyTilesBasic DEF Exports
<1>2. cmd'[p] = Idle \/ cmd'[p].op = "export"
  BY LocateImageBasic, CopyImageBasic, FindTimeBasic, CopyTilesBasic DEF Exports
<1>3. cmd'[p].op \notin {"delete", "purge"}
  BY <1>2, BegunTyping
<1>4. Step(p)
  BY DEF Exports, Step
<1>5. ~Writes(cmd[p]) /\ writer # p
  BY <1>1, Exporting DEF Basic, Control, Writes
<1>6. Target' = Target
  BY <1>1, <1>5, OtherTarget
<1>7. PackageThere' => package'.rows = package.rows
  BY LocateImageBasic, CopyImageBasic, FindTimeBasic, CopyTilesBasic DEF Exports
<1>8. cmd[p].remove = {} /\ cmd'[p].remove = {}
  BY <1>1, <1>3 DEF Basic, Control, StepsOf
<1> QED
  BY <1>1, <1>3, <1>4, <1>5, <1>6, <1>7, <1>8

\* The command stays the same one.
LEMMA SameOp ==
  ASSUME Basic, NEW p \in Proc,
         RemoveBrowse(p) \/ Write(p) \/ CommitFirst(p) \/ CommitSecond(p) \/ DeleteFile(p)
  PROVE  cmd'[p].op = cmd[p].op /\ cmd[p].op # "export" /\ cmd'[p].at # "list"
<1>1. cmd[p] \in CmdType /\ StepsOf(cmd[p])
  BY DEF Basic, Types, Control
<1>2. CASE RemoveBrowse(p)
  BY <1>2, RemoveTarget, RemoveBasic
<1>3. CASE Write(p)
  BY <1>3, WriteTarget, WriteBasic
<1>4. CASE CommitFirst(p)
  BY <1>1, <1>4, CommitFirstBasic DEF CmdType, CommitFirst, At
<1>5. CASE CommitSecond(p)
  <2> DEFINE at == CASE cmd[p].op = "ingest" -> "seed"
                        [] cmd[p].op = "import" -> "tiles"
                        [] OTHER -> "files"
             areas == IF cmd[p].op = "ingest" /\ ~seeding THEN {} ELSE cmd[p].areas
  <2>1. cmd'[p] = [cmd[p] EXCEPT !.rows = None, !.at = at, !.areas = areas]
    BY <1>5, CommitSecondBasic
  <2>2. at # "list"
    OBVIOUS
  <2> HIDE DEF at, areas
  <2> QED
    BY <1>1, <1>5, <2>1, <2>2 DEF CmdType, StepsOf, CommitSecond
<1>6. CASE DeleteFile(p)
  BY <1>1, <1>6, DeleteFileBasic DEF CmdType
<1> QED
  BY <1>2, <1>3, <1>4, <1>5, <1>6

\* Nothing happens to the export, if there is one, but that it may be killed.
LEMMA ExportStays ==
  ASSUME Basic, NEW p \in Proc, Step(p), ~StartExport(p), ~Exports(p), ~EndExport(p)
  PROVE  /\ \A q \in Proc : cmd'[q].op = "export" => cmd'[q] = cmd[q]
         /\ UNCHANGED package /\ (PackageThere' => PackageThere)
<1>1. \A q \in Proc : q # p => cmd'[q] = cmd[q]
  BY OtherCommands
<1>2. \/ Quiet(p) \/ LockRows(p) \/ ListedGone(p) \/ RemoveBrowse(p) \/ Write(p)
      \/ CommitFirst(p) \/ CommitSecond(p) \/ DeleteFile(p) \/ DropLayer(p) \/ Kill(p)
  BY DEF Step, Quiet, Exports
<1>3. cmd'[p].op # "export"
  <2>1. CASE Quiet(p)
    BY <2>1, QuietStep
  <2>2. CASE LockRows(p)
    BY <2>2, LockRowsBasic
  <2>3. CASE RemoveBrowse(p) \/ Write(p) \/ CommitFirst(p) \/ CommitSecond(p) \/ DeleteFile(p)
    BY <2>3, SameOp
  <2>4. CASE DropLayer(p) \/ Kill(p) \/ ListedGone(p)
    BY <2>4, DropLayerBasic, KillBasic, ListedGoneBasic, BegunTyping
  <2> QED
    BY <1>2, <2>1, <2>2, <2>3, <2>4
<1>4. UNCHANGED package /\ (PackageThere' => PackageThere)
  BY <1>2, QuietStep, LockRowsBasic, RemoveBasic, WriteBasic, CommitFirstBasic, CommitSecondBasic,
     DeleteFileBasic, DropLayerBasic, KillBasic, ListedGoneBasic
<1> QED
  BY <1>1, <1>3, <1>4

LEMMA PackedKept ==
  ASSUME PackedRight, UNCHANGED package, PackageThere' => PackageThere,
         \A q \in Proc : cmd'[q].op = "export" => cmd'[q] = cmd[q]
  PROVE  PackedRight'
BY DEF PackedRight, Unpacked

\* What is rolled back leaves what is committed, and what is neither leaves the rows.
LEMMA UnwrittenTarget ==
  ASSUME Basic, NEW p \in Proc, Step(p), UNCHANGED rows, ~Writes(cmd'[p]), Basic',
         writer' = (IF writer = p THEN None ELSE writer)
  PROVE  \/ Target' = Target
         \/ writer = p /\ writer' = None /\ Target'.browses = browses /\ Target'.located = located
<1>1. CASE writer = p
  <2>1. p # None
    BY LayerDataAssumption
  <2> QED
    BY <1>1 DEF Target, Committed, rows
<1>2. CASE writer # p
  BY <1>2, OtherTarget, OtherCommands
<1> QED
  BY <1>1, <1>2

LEMMA TargetTypingNext ==
  ASSUME Basic'
  PROVE  Target' \in RowsType
<1>1. CASE writer' = None
  BY <1>1 DEF Target, Committed, RowsType, Basic, Types
<1>2. CASE writer' # None
  <2>1. writer' \in Proc
    BY <1>2 DEF Basic, Types
  <2>2. cmd'[writer'].at \in {"remove", "commit", "second"} /\ StepsOf(cmd'[writer'])
    BY <2>1 DEF Basic, Control, StepsOf
  <2> QED
    BY <1>2, <2>2 DEF Target, StepsOf
<1> QED
  BY <1>1, <1>2

\* A row that is registered where it was, committed or not, or nowhere.
Stays(b, path) ==
  \/ path = None
  \/ b \in browses /\ path = located[b.name]
  \/ b \in Target.browses /\ path = Target.located[b.name]

\* Only a write registers an image.
LEMMA RowsStay ==
  ASSUME Basic, RowsInv, [LayerNext]_allvars, \A p \in Proc : ~Write(p)
  PROVE  /\ \A b \in browses' : Stays(b, located'[b.name])
         /\ \A b \in Target'.browses : Stays(b, Target'.located[b.name])
<1>1. CASE View \/ UNCHANGED allvars
  <2>1. UNCHANGED <<rows, writer, cmd>>
    BY <1>1, ViewBasic
  <2>2. UNCHANGED <<browses, located>> /\ Target' = Target
    BY <2>1 DEF Target, Committed, rows
  <2> QED
    BY <2>2 DEF Stays
<1>2. ASSUME NEW p \in Proc, Quiet(p) \/ LockRows(p) \/ Exports(p)
                             \/ DeleteFile(p) \/ StartExport(p) \/ EndExport(p)
      PROVE  /\ \A b \in browses' : Stays(b, located'[b.name])
             /\ \A b \in Target'.browses : Stays(b, Target'.located[b.name])
  <2>1. UNCHANGED rows
    BY <1>2, QuietStep, LockRowsBasic, DeleteFileBasic, StartExportBasic, ExportsBasic, EndExportBasic
  <2>2. Target' = Target
    <3>1. CASE Quiet(p) \/ LockRows(p) \/ Exports(p)
      BY <3>1, QuietStep, LockRowsBasic, ExportsBasic
    <3>2. CASE DeleteFile(p) \/ StartExport(p) \/ EndExport(p)
      <4>1. UNCHANGED <<rows, writer>>
        BY <3>2, DeleteFileBasic, StartExportBasic, EndExportBasic
      <4>2. ~Writes(cmd[p])
        BY <3>2, StartExportBasic, BegunTyping DEF DeleteFile, EndExport, At, Writes
      <4>3. writer # p /\ Step(p)
        BY <3>2, <4>2 DEF Basic, Control, Writes, Step
      <4> QED
        BY <4>1, <4>3, OtherTarget, OtherCommands
    <3> QED
      BY <1>2, <3>1, <3>2
  <2>3. UNCHANGED <<browses, located>>
    BY <2>1 DEF rows
  <2> QED
    BY <2>2, <2>3 DEF Stays
<1>3. ASSUME NEW p \in Proc, CommitFirst(p) \/ CommitSecond(p)
      PROVE  /\ \A b \in browses' : Stays(b, located'[b.name])
             /\ \A b \in Target'.browses : Stays(b, Target'.located[b.name])
  <2>1. Target' = Target
    BY <1>3, CommitFirstBasic, CommitSecondBasic
  <2>2. \/ browses' = browses /\ located' = located
        \/ browses' = Target.browses /\ located' = Target.located
    BY <1>3, CommitFirstBasic, CommitSecondBasic
  <2> QED
    BY <2>1, <2>2 DEF Stays
<1>4. ASSUME NEW p \in Proc, Kill(p) \/ ListedGone(p)
      PROVE  /\ \A b \in browses' : Stays(b, located'[b.name])
             /\ \A b \in Target'.browses : Stays(b, Target'.located[b.name])
  <2>1. /\ UNCHANGED rows /\ writer' = (IF writer = p THEN None ELSE writer)
        /\ Basic' /\ cmd'[p] = Idle
    BY <1>4, KillBasic, ListedGoneBasic
  <2>2. UNCHANGED <<browses, located>>
    BY <2>1 DEF rows
  <2>3. Step(p) /\ ~Writes(cmd'[p])
    BY <1>4, <2>1, BegunTyping DEF Step
  <2> QED
    BY <2>1, <2>2, <2>3, UnwrittenTarget DEF Stays
<1>5. ASSUME NEW p \in Proc, DropLayer(p)
      PROVE  browses' = {} /\ Target'.browses = {}
  BY <1>5, DropLayerBasic DEF Target, Committed
<1>6. ASSUME NEW p \in Proc, RemoveBrowse(p)
      PROVE  /\ \A b \in browses' : Stays(b, located'[b.name])
             /\ \A b \in Target'.browses : Stays(b, Target'.located[b.name])
  <2>1. UNCHANGED <<rows, writer>>
    BY <1>6, RemoveBasic
  <2>2. PICK o \in cmd[p].todo :
          /\ o.name \in Name
          /\ Target'.browses = Target.browses \ Named(Target.browses, o.name)
          /\ Target'.located = [Target.located EXCEPT ![o.name] = None]
    BY <1>6, RemoveTarget
  <2>3. Target \in RowsType
    BY TargetTyping
  <2>4. \A b \in Target'.browses : b \in Target.browses /\ b.name # o.name /\ b.name \in Name
    BY <2>2, <2>3, NameTyping DEF Named, RowsType
  <2>5. \A b \in Target'.browses : Target'.located[b.name] = Target.located[b.name]
    BY <2>2, <2>3, <2>4 DEF RowsType
  <2> QED
    BY <2>1, <2>4, <2>5 DEF Stays, rows
<1> QED
  BY <1>1, <1>2, <1>3, <1>4, <1>5, <1>6, StepCases DEF Exports

LEMMA NotWrongKept ==
  ASSUME Basic, NotWrong(browses, located), NotWrong(Target.browses, Target.located),
         NEW b \in Catalog, NEW path, path # None, Stays(b, path),
         \A f \in Path : disk'[f] \in {disk[f], None}
  PROVE  disk'[path] \in {b, None}
<1>1. b.name \in Name /\ Target \in RowsType
  BY NameTyping, TargetTyping
<1>2. path \in Path /\ disk[path] \in {b, None}
  BY <1>1 DEF Stays, NotWrong, Basic, Types, RowsType
<1> QED
  BY <1>2

\* The output of an ingestion or an import is no image of another browse.
LEMMA OutputNotTaken ==
  ASSUME Basic, RowsInv, NEW p \in Proc, Write(p)
  PROVE  /\ \A n \in Name : located[n] = Output(p) => n = cmd[p].now.name /\ cmd[p].op = "import"
         /\ \A b \in browses : located[b.name] = Output(p) => b = cmd[p].now
<1>1. /\ cmd[p].op \in {"ingest", "import"} /\ cmd[p].now \in Catalog
      /\ Output(p) \in Path
      /\ cmd[p].op # "import" => Output(p) \in NewNames
      /\ cmd[p].at = "write"
  BY WriteBasic
<1>2. cmd[p].op = "import" => Output(p) = cmd[p].now.name /\ PackageThere
                              /\ cmd[p].now \in package.rows
  BY <1>1 DEF Output, PackageThere, Basic, Control
<1>3. ASSUME NEW n \in Name, located[n] = Output(p)
      PROVE  n = cmd[p].now.name /\ cmd[p].op = "import" /\ located[n] \in Name
  <2>1. cmd[p].op = "import"
    BY <1>1, <1>3 DEF NewNames
  <2>2. located[n] \in Name
    BY <1>1, <1>2, <1>3, <2>1, NameTyping
  <2> QED
    BY <1>2, <1>3, <2>1, <2>2 DEF RowsInv, Located
<1>4. ASSUME NEW b \in browses, located[b.name] = Output(p) PROVE b = cmd[p].now
  <2>1. b.name \in Name
    BY NameTyping DEF Basic, Types
  <2>2. b.name = cmd[p].now.name /\ cmd[p].op = "import" /\ located[b.name] \in Name
    BY <1>3, <1>4, <2>1
  <2> QED
    BY <1>2, <2>2 DEF RowsInv, FromPackage
<1> QED
  BY <1>3, <1>4

LEMMA DiskStays ==
  ASSUME Basic, [LayerNext]_allvars, \A p \in Proc : ~Write(p)
  PROVE  \A f \in Path : disk'[f] \in {disk[f], None}
<1>1. CASE \E p \in Proc : DeleteFile(p)
  <2>1. \E f : disk' = [disk EXCEPT ![f] = None]
    BY <1>1, DeleteFileBasic
  <2> QED
    BY <2>1 DEF Basic, Types
<1>2. CASE \E p \in Proc : DropLayer(p)
  BY <1>2, DropLayerBasic
<1>3. CASE \A p \in Proc : ~DeleteFile(p) /\ ~DropLayer(p)
  <2>1. UNCHANGED disk
    BY <1>3, StepCases, ViewBasic, QuietStep, LockRowsBasic, RemoveBasic, ListedGoneBasic,
       CommitFirstBasic, CommitSecondBasic, KillBasic, StartExportBasic, LocateImageBasic,
       CopyImageBasic, FindTimeBasic, CopyTilesBasic, EndExportBasic
  <2> QED
    BY <2>1
<1> QED
  BY <1>1, <1>2, <1>3

LEMMA WriteDisk ==
  ASSUME Basic, NEW p \in Proc, Write(p)
  PROVE  /\ disk'[Output(p)] = NewImage(p)
         /\ \A f \in Path : f # Output(p) => disk'[f] \in {disk[f], None}
<1>1. \E f : disk' = [g \in Path |-> IF g = Output(p) THEN NewImage(p)
                                    ELSE IF g = f THEN None ELSE disk[g]]
  <2>1. PICK m \in Replacement(p), f \in Replaced(p) :
        LET new == Creation(ReadAgain(p, m.times), m.times, cmd[p].now)
        IN  /\ OutputFree(p, f)
            /\ \/ tiles' = Without(tiles, m.unseed \cup new.unseed) /\ UNCHANGED faults
               \/ Fault("unseed") /\ tiles' = Without(tiles, new.unseed)
            /\ m.times \in SUBSET Span /\ m.unseed \in SUBSET DimType
            /\ m.areas \in SUBSET DimType
            /\ disk' = [g \in Path |-> IF g = Output(p) THEN NewImage(p)
                                       ELSE IF g = f THEN None ELSE disk[g]]
            /\ cmd'[p] = [cmd[p] EXCEPT
                 !.at = "commit", !.found = None, !.view = None,
                 !.rows = [browses |-> (browses \ Named(browses, cmd[p].now.name))
                                         \cup {cmd[p].now},
                           times |-> new.times,
                           located |-> [located EXCEPT ![cmd[p].now.name] = Output(p)]],
                 !.areas = m.areas \cup {Dim(new.hull)}]
    BY WriteBasic
  <2> QED
    BY <2>1
<1>2. Output(p) \in Path
  BY WriteBasic
<1> QED
  BY <1>1, <1>2

\* An import stores what the package has for the browse.
LEMMA NewImageIsRight ==
  ASSUME Basic, PackedRight, NEW p \in Proc, Write(p)
  PROVE  NewImage(p) = cmd[p].now
<1>1. cmd[p].op \in {"ingest", "import"} /\ cmd[p].at = "write"
  BY WriteBasic
<1>2. CASE cmd[p].op # "import"
  BY <1>2 DEF NewImage
<1>3. CASE cmd[p].op = "import"
  <2>1. package.closed /\ cmd[p].now \in package.rows /\ PackageThere
    BY <1>1, <1>3 DEF Basic, Control, PackageThere
  <2> QED
    BY <1>3, <2>1 DEF NewImage, PackedRight, Unpacked
<1> QED
  BY <1>2, <1>3

LEMMA NotWrongNext ==
  ASSUME Basic, RowsInv, NotWrong(browses, located), NotWrong(Target.browses, Target.located),
         PackedRight, [LayerNext]_allvars
  PROVE  NotWrong(browses, located)' /\ NotWrong(Target.browses, Target.located)'
<1>1. CASE \A p \in Proc : ~Write(p)
  <2>1. \A f \in Path : disk'[f] \in {disk[f], None}
    BY <1>1, DiskStays
  <2>2. Basic'
    BY BasicNext
  <2>3. browses' \in SUBSET Catalog /\ Target'.browses \in SUBSET Catalog
    <3>1. browses' \in SUBSET Catalog
      BY <2>2 DEF Basic, Types
    <3>2. Target' \in RowsType
      BY <2>2, TargetTypingNext
    <3> QED
      BY <3>1, <3>2 DEF RowsType
  <2>4. /\ \A b \in browses' : Stays(b, located'[b.name])
        /\ \A b \in Target'.browses : Stays(b, Target'.located[b.name])
    BY <1>1, RowsStay
  <2>5. \A b \in browses' : located'[b.name] # None => disk'[located'[b.name]] \in {b, None}
    BY <2>1, <2>3, <2>4, NotWrongKept
  <2>6. \A b \in Target'.browses :
          Target'.located[b.name] # None => disk'[Target'.located[b.name]] \in {b, None}
    BY <2>1, <2>3, <2>4, NotWrongKept
  <2> QED
    BY <2>5, <2>6 DEF NotWrong
<1>2. ASSUME NEW p \in Proc, Write(p)
      PROVE  NotWrong(browses, located)' /\ NotWrong(Target.browses, Target.located)'
  <2>1. UNCHANGED rows /\ Output(p) \in Path /\ cmd[p].now \in Catalog
    BY <1>2, WriteBasic
  <2>2. /\ Target'.browses = (browses \ Named(browses, cmd[p].now.name)) \cup {cmd[p].now}
        /\ Target'.located = [located EXCEPT ![cmd[p].now.name] = Output(p)]
    BY <1>2, WriteTarget
  <2>3. NewImage(p) = cmd[p].now
    BY <1>2, NewImageIsRight
  <2>4. disk'[Output(p)] = cmd[p].now /\ \A f \in Path : f # Output(p) => disk'[f] \in {disk[f], None}
    BY <1>2, <2>3, WriteDisk
  <2>5. \A b \in browses : b.name \in Name /\ located[b.name] \in Path \cup {None}
    BY NameTyping DEF Basic, Types
  <2>6. \A b \in browses : located[b.name] # None => disk'[located[b.name]] \in {b, None}
    BY <1>2, <2>4, <2>5, OutputNotTaken DEF NotWrong
  <2>7. cmd[p].now.name \in Name /\ Target'.located[cmd[p].now.name] = Output(p)
    BY <2>1, <2>2, NameTyping DEF Basic, Types
  <2>8. \A b \in Target'.browses : b # cmd[p].now => b \in browses /\ b.name # cmd[p].now.name
    BY <2>2 DEF Named
  <2>9. \A b \in Target'.browses : b # cmd[p].now => Target'.located[b.name] = located[b.name]
    BY <2>1, <2>2, <2>5, <2>8 DEF Basic, Types
  <2>10. \A b \in Target'.browses :
           Target'.located[b.name] # None => disk'[Target'.located[b.name]] \in {b, None}
    BY <2>4, <2>6, <2>7, <2>8, <2>9
  <2>11. UNCHANGED <<browses, located>>
    BY <2>1 DEF rows
  <2> QED
    BY <2>6, <2>10, <2>11 DEF NotWrong
<1> QED
  BY <1>1, <1>2

\* A file that an export has found keeps its image, or is deleted.
LEMMA FoundKept ==
  ASSUME Basic, ExportRight, [LayerNext]_allvars, NEW q \in Proc, cmd'[q] = cmd[q], cmd[q].at = "image"
  PROVE  disk'[cmd[q].found[cmd[q].now.name]] \in {cmd[q].now, None}
<1>1. cmd[q].op = "export" /\ StepsOf(cmd[q])
  BY DEF Basic, Control, StepsOf
<1>2. /\ cmd[q].now.name \in Name /\ cmd[q].found # None
      /\ cmd[q].found[cmd[q].now.name] \in Path
  <2>1. /\ cmd[q].now.name \in Name /\ cmd[q].found \in [Name -> Path \cup {None}]
        /\ cmd[q].found[cmd[q].now.name] # None
    BY <1>1, Exporting DEF StepsOf
  <2> QED
    BY <2>1, LayerDataAssumption DEF Path
<1>3. disk[cmd[q].found[cmd[q].now.name]] \in {cmd[q].now, None}
  BY DEF ExportRight
<1>4. CASE \A p \in Proc : ~Write(p)
  BY <1>2, <1>3, <1>4, DiskStays
<1>5. ASSUME NEW p \in Proc, Write(p) PROVE cmd[q].found[cmd[q].now.name] # Output(p)
  <2>1. cmd[p].op \in {"ingest", "import"} /\ (cmd[p].op # "import" => Output(p) \in NewNames)
    BY <1>5, WriteBasic
  <2>2. cmd[p].op # "import"
    BY <1>1, <2>1 DEF Basic, Control
  <2> QED
    BY <1>2, <2>1, <2>2 DEF NewNames
<1> QED
  BY <1>2, <1>3, <1>4, <1>5, WriteDisk

\* What an export does keeps what it has packed and what it has found.
LEMMA ExportsRight ==
  ASSUME Basic, RowsInv, NotWrong(browses, located), PackedRight, ExportRight, "overtaken" \notin seen',
         NEW p \in Proc, Exports(p), [LayerNext]_allvars
  PROVE  PackedRight' /\ ExportRight'
<1>1. /\ Basic' /\ (PackageThere' => PackageThere) /\ UNCHANGED disk /\ cmd[p].op = "export"
      /\ \A q \in Proc : q # p => cmd'[q] = cmd[q]
  BY ExportsBasic
<1>2. /\ Alone(p) /\ PackageThere /\ package \in PackageType /\ ~package.closed
      /\ package.rows \in SUBSET Catalog /\ cmd[p].todo \subseteq package.rows
  BY <1>1, Exporting
<1>3. ASSUME NEW q \in Proc, q # p PROVE cmd'[q].at \notin {"image", "time", "cache"}
  BY <1>1, <1>2, <1>3 DEF Alone, Basic, Control, StepsOf
<1>4. CASE cmd'[p] = Idle
  <2>1. ExportRight'
    BY <1>3, <1>4, BegunTyping DEF ExportRight
  <2>2. cmd'[p].op # "export" /\ cmd'[p].at \notin {"add", "image", "time", "cache"}
    BY <1>4 DEF Idle
  <2>3. ASSUME LocateImage(p) PROVE ~PackageThere'
    BY <2>2, <2>3, LocateImageBasic
  <2>4. ASSUME CopyImage(p) PROVE ~PackageThere'
    BY <2>2, <2>4, CopyImageBasic
  <2>5. ASSUME FindTime(p) \/ CopyTiles(p) PROVE ~PackageThere'
    BY <2>2, <2>5, FindTimeBasic, CopyTilesBasic
  <2>6. ~PackageThere'
    BY <2>3, <2>4, <2>5 DEF Exports
  <2> QED
    BY <2>1, <2>6 DEF PackedRight
<1>5. ASSUME UNCHANGED package, cmd'[p].op = "export", cmd'[p].todo = cmd[p].todo PROVE PackedRight'
  BY <1>1, <1>2, <1>5 DEF PackedRight, Unpacked, Alone
<1>6. ASSUME NEW b \in package.rows, package'.rows = package.rows, package'.closed = package.closed,
             package'.images[b.name] = b,
             \A r \in package.rows : r # b => package'.images[r.name] = package.images[r.name],
             cmd'[p].op = "export",
             cmd'[p].todo = cmd[p].todo \/ cmd'[p].todo = cmd[p].todo \ {b}
      PROVE  PackedRight'
  <2>1. ASSUME NEW r \in package.rows PROVE package'.images[r.name] = r \/ Unpacked(r)'
    <3>1. CASE r = b
      BY <1>6, <3>1
    <3>2. CASE r # b
      <4>1. Unpacked(r) => Unpacked(r)'
        BY <1>1, <1>2, <1>6, <3>2 DEF Unpacked, Alone
      <4> QED
        BY <1>2, <1>6, <3>2, <4>1 DEF PackedRight
    <3> QED
      BY <3>1, <3>2
  <2> QED
    BY <1>6, <2>1 DEF PackedRight
<1>7. \A r \in package.rows : r.name \in Name
  BY <1>2, NameTyping
<1>8. ASSUME LocateImage(p), cmd'[p] # Idle PROVE PackedRight' /\ ExportRight'
  <2>1. PICK b \in cmd[p].todo :
           /\ b.name \in Name /\ located[b.name] # None /\ UNCHANGED package
           /\ cmd'[p].op = "export" /\ cmd'[p].todo = cmd[p].todo /\ cmd'[p].at = "image"
           /\ cmd'[p].now = b /\ cmd'[p].found = located
           /\ See(IF b \in browses THEN {} ELSE {"overtaken"})
    BY <1>8, LocateImageBasic
  <2>2. b \in browses
    BY <2>1 DEF See
  <2>3. disk'[cmd'[p].found[cmd'[p].now.name]] \in {cmd'[p].now, None}
    BY <1>1, <2>1, <2>2 DEF NotWrong
  <2>4. ExportRight'
    BY <1>3, <2>1, <2>3 DEF ExportRight
  <2> QED
    BY <1>5, <2>1, <2>4
<1>9. ASSUME CopyImage(p), cmd'[p] # Idle PROVE PackedRight' /\ ExportRight'
  <2> DEFINE b == cmd[p].now
             image == disk[cmd[p].found[b.name]]
  <2>1. /\ cmd[p].at = "image" /\ image # None /\ b \in package.rows /\ b.name \in Name
        /\ package'.rows = package.rows /\ package'.closed = package.closed
        /\ package'.images = [package.images EXCEPT ![b.name] = image]
        /\ cmd'[p].op = "export"
        /\ IF package.cache
             THEN cmd'[p].at = "time" /\ cmd'[p].now = b /\ cmd'[p].todo = cmd[p].todo
             ELSE cmd'[p].at = "add" /\ cmd'[p].todo = cmd[p].todo \ {b}
    BY <1>9, CopyImageBasic
  <2>2. image = b
    BY <2>1 DEF ExportRight
  <2> HIDE DEF b, image
  <2>3. package.images \in [Name -> Catalog \cup {None}]
    BY <1>2 DEF PackageType
  <2>4. package'.images[b.name] = b
    BY <2>1, <2>2, <2>3
  <2>5. \A r \in package.rows : r # b => package'.images[r.name] = package.images[r.name]
    BY <1>2, <1>7, <2>1, <2>3 DEF RowsInv, Unique
  <2>6. cmd'[p].todo = cmd[p].todo \/ cmd'[p].todo = cmd[p].todo \ {b}
    BY <2>1
  <2>7. PackedRight'
    BY <1>6, <2>1, <2>4, <2>5, <2>6
  <2>8. ExportRight'
    BY <1>3, <2>1, <2>4 DEF ExportRight
  <2> QED
    BY <2>7, <2>8
<1>10. ASSUME FindTime(p), cmd'[p] # Idle PROVE PackedRight' /\ ExportRight'
  <2>1. /\ cmd[p].at = "time" /\ UNCHANGED package
        /\ cmd'[p].op = "export" /\ cmd'[p].todo = cmd[p].todo /\ cmd'[p].at = "cache"
        /\ cmd'[p].now = cmd[p].now
    BY <1>10, FindTimeBasic
  <2>2. ExportRight'
    BY <1>3, <2>1 DEF ExportRight
  <2> QED
    BY <1>5, <2>1, <2>2
<1>11. ASSUME CopyTiles(p) PROVE PackedRight' /\ ExportRight'
  <2>1. /\ cmd[p].at = "cache" /\ cmd[p].now \in package.rows /\ package'.rows = package.rows
        /\ package'.closed = package.closed /\ package'.images = package.images
        /\ cmd'[p].op = "export" /\ cmd'[p].at = "add"
        /\ cmd'[p].todo = cmd[p].todo \ {cmd[p].now}
    BY <1>11, CopyTilesBasic
  <2>2. ExportRight'
    BY <1>3, <2>1 DEF ExportRight
  <2>3. package'.images[cmd[p].now.name] = cmd[p].now
    BY <2>1 DEF ExportRight
  <2>4. PackedRight'
    BY <1>6, <2>1, <2>3
  <2> QED
    BY <2>2, <2>4
<1> QED
  BY <1>4, <1>8, <1>9, <1>10, <1>11 DEF Exports

LEMMA PackedNext ==
  ASSUME Basic, RowsInv, NotWrong(browses, located), PackedRight, ExportRight, [LayerNext]_allvars,
         "overtaken" \notin seen'
  PROVE  PackedRight' /\ ExportRight'
<1>1. CASE View \/ UNCHANGED allvars
  <2>1. (PackageThere' => PackageThere) /\ UNCHANGED <<package, cmd, disk>>
    BY <1>1, ViewBasic
  <2> QED
    BY <2>1, PackedKept DEF ExportRight
<1>2. ASSUME NEW p \in Proc, Step(p), ~StartExport(p), ~Exports(p), ~EndExport(p)
      PROVE  PackedRight' /\ ExportRight'
  <2>1. /\ \A q \in Proc : cmd'[q].op = "export" => cmd'[q] = cmd[q]
        /\ UNCHANGED package /\ (PackageThere' => PackageThere)
    BY <1>2, ExportStays
  <2>2. Basic'
    BY BasicNext
  <2>3. \A q \in Proc : cmd'[q].at \in {"image", "time", "cache"} => cmd'[q].op = "export"
    BY <2>2 DEF Basic, Control, StepsOf
  <2>4. ExportRight'
    BY <2>1, <2>3, FoundKept DEF ExportRight
  <2> QED
    BY <2>1, <2>4, PackedKept
<1>3. ASSUME NEW p \in Proc, StartExport(p) PROVE PackedRight' /\ ExportRight'
  <2>1. /\ Alone(p) /\ ~package'.closed /\ cmd'[p].todo = package'.rows /\ cmd'[p].at = "add"
        /\ \A q \in Proc : q # p => cmd'[q] = cmd[q]
    BY <1>3, StartExportBasic
  <2>2. \A b \in package'.rows : \A q \in Proc : cmd'[q].op = "export" => b \in cmd'[q].todo
    BY <2>1 DEF Alone
  <2>3. \A q \in Proc : cmd'[q].at \notin {"image", "time", "cache"}
    BY <2>1 DEF Alone, Basic, Control, StepsOf
  <2> QED
    BY <2>1, <2>2, <2>3 DEF PackedRight, Unpacked, ExportRight
<1>4. ASSUME NEW p \in Proc, EndExport(p) PROVE PackedRight' /\ ExportRight'
  <2>1. /\ PackageThere /\ cmd[p].op = "export" /\ cmd[p].todo = {} /\ package \in PackageType
        /\ package' = [package EXCEPT !.closed = TRUE] /\ cmd'[p] = Idle
    BY <1>4, EndExportBasic
  <2>2. package'.rows = package.rows /\ package'.images = package.images
    BY <2>1 DEF PackageType
  <2>3. \A b : ~Unpacked(b)
    BY <2>1 DEF Unpacked
  <2>4. Alone(p)
    BY <2>1, Exporting
  <2>5. \A q \in Proc : q # p => cmd'[q] = cmd[q]
    BY <1>4, OtherCommands DEF Step
  <2>6. ASSUME NEW q \in Proc PROVE cmd'[q].at \notin {"image", "time", "cache"}
    <3>1. CASE q = p
      BY <2>1, <3>1, BegunTyping
    <3>2. CASE q # p
      <4>1. cmd'[q] = cmd[q] /\ cmd[q].op # "export"
        BY <2>4, <2>5, <3>2 DEF Alone
      <4>2. StepsOf(cmd[q])
        BY DEF Basic, Control
      <4> QED
        BY <4>1, <4>2 DEF StepsOf
    <3> QED
      BY <3>1, <3>2
  <2> QED
    BY <2>1, <2>2, <2>3, <2>6 DEF PackedRight, ExportRight
<1> QED
  BY <1>1, <1>2, <1>3, <1>4, ExportsRight DEF LayerNext, Wait

LEMMA NothingWrongNext ==
  ASSUME Basic, RowsInv, NothingWrong, [LayerNext]_allvars
  PROVE  NothingWrong'
<1>1. seen \subseteq seen'
  BY HistoryGrows
<1> SUFFICES ASSUME "overtaken" \notin seen'
             PROVE  /\ NotWrong(browses, located)' /\ NotWrong(Target.browses, Target.located)'
                    /\ PackedRight' /\ ExportRight'
  BY DEF NothingWrong
<1> QED
  BY <1>1, NotWrongNext, PackedNext DEF NothingWrong

ImagesGood ==
  /\ Right(Target.browses, Target.located)
  /\ writer # None /\ cmd[writer].op \in {"delete", "purge"} => Right(browses, located)
  /\ ToDelete

\* Neither the rows nor the images change, nor what is to be deleted.
LEMMA ImagesKept ==
  ASSUME ImagesGood, UNCHANGED <<browses, located, disk, layer, writer>>, Target' = Target,
         \A q \in Proc : cmd'[q].remove = cmd[q].remove,
         writer # None => cmd'[writer].op = cmd[writer].op
  PROVE  ImagesGood' /\ (NothingLeft => NothingLeft')
<1>1. Right(Target.browses, Target.located)'
  BY DEF ImagesGood, Right
<1>2. writer' # None /\ cmd'[writer'].op \in {"delete", "purge"} => Right(browses, located)'
  BY DEF ImagesGood, Right
<1>3. ToDelete'
  BY DEF ImagesGood, ToDelete
<1>4. NothingLeft => NothingLeft'
  BY DEF NothingLeft
<1> QED
  BY <1>1, <1>2, <1>3, <1>4 DEF ImagesGood, Right

\* What is written for an ingestion or import.
LEMMA RemovesNothing ==
  ASSUME Basic, NEW p \in Proc, cmd[p].op \notin {"delete", "purge"}
  PROVE  cmd[p].remove = {}
BY DEF Basic, Control, StepsOf

LEMMA RemoveImages ==
  ASSUME Basic, Rows, "stale" \notin seen, ImagesGood, NEW p \in Proc, RemoveBrowse(p)
  PROVE  ImagesGood' /\ (NothingLeft => NothingLeft')
<1>1. /\ writer = p /\ cmd[p].op \in {"delete", "purge"}
      /\ UNCHANGED <<rows, disk, layer, writer>>
  BY RemoveBasic
<1>2. PICK o \in cmd[p].todo :
         /\ o \in Target.browses /\ o.name \in Name
         /\ Target'.browses = Target.browses \ {o}
         /\ Target'.located = [Target.located EXCEPT ![o.name] = None]
         /\ cmd'[p].remove = cmd[p].remove \cup {Target.located[o.name]}
  BY RemoveListed
<1>3. \A q \in Proc : q # p => cmd'[q] = cmd[q]
  BY OtherCommands DEF Step
<1>4. Target \in RowsType /\ o \in Target.browses
  BY <1>2, TargetTyping
<1> DEFINE TB == Target.browses
           TL == Target.located
           f0 == TL[o.name]
<1>5. /\ TB \in SUBSET Catalog /\ TL \in [Name -> Path \cup {None}]
      /\ o.name \in Name /\ \A b \in TB : b.name \in Name
  BY <1>4, NameTyping DEF RowsType
<1>6. Right(TB, TL) /\ Right(browses, located) /\ ToDelete
  BY <1>1, LayerDataAssumption DEF ImagesGood
<1>7. f0 \in Path /\ f0 # None /\ disk[f0] # None
  BY <1>4, <1>5, <1>6, LayerDataAssumption DEF Right
<1>8. /\ \A n \in Name : Target'.located[n] = IF n = o.name THEN None ELSE TL[n]
      /\ \A b \in Target'.browses : b \in TB /\ b.name # o.name
  BY <1>2, <1>4, <1>5 DEF Rows, RowsInv, Unique
<1>9. \A m, n \in Name : TL[m] = TL[n] /\ TL[m] # None => m = n
  BY DEF Rows, RowsInv, Located
<1>10. UNCHANGED <<browses, located>>
  BY <1>1 DEF rows
<1>11. Right(Target.browses, Target.located)'
  BY <1>1, <1>5, <1>6, <1>8 DEF Right
<1>12. Right(browses, located)'
  BY <1>1, <1>6, <1>10 DEF Right
<1>13. cmd'[p].remove = cmd[p].remove \cup {f0} /\ \A q \in Proc : q # p => cmd'[q].remove = cmd[q].remove
  BY <1>2, <1>3
<1> HIDE DEF TB, TL, f0
<1>14. ToDelete'
  <2>1. \A q \in Proc : f0 \notin cmd[q].remove
    BY <1>5, <1>6 DEF ToDelete, f0, TL
  <2>2. ASSUME NEW q \in Proc, NEW f \in cmd[q].remove
        PROVE  /\ f \in Path /\ (layer' = "served" => disk'[f] # None)
               /\ \A n \in Name : Target'.located[n] # f /\ (writer' # q => located'[n] # f)
    <3>1. f \in Path /\ f # None /\ (layer = "served" => disk[f] # None)
          /\ \A n \in Name : TL[n] # f /\ (writer # q => located[n] # f)
      BY <1>6, <2>2, LayerDataAssumption DEF ToDelete, Path, TL
    <3> QED
      BY <1>1, <1>8, <1>10, <3>1
  <2>3. /\ f0 \in Path /\ (layer' = "served" => disk'[f0] # None)
        /\ \A n \in Name : Target'.located[n] # f0 /\ (writer' # p => located'[n] # f0)
    BY <1>1, <1>5, <1>7, <1>8, <1>9 DEF f0
  <2>4. \A q \in Proc : \A f \in cmd'[q].remove :
           /\ f \in Path /\ (layer' = "served" => disk'[f] # None)
           /\ \A n \in Name : Target'.located[n] # f /\ (writer' # q => located'[n] # f)
    BY <1>13, <2>2, <2>3
  <2>5. \A q, r \in Proc : q # r => cmd[q].remove \cap cmd[r].remove = {}
    BY <1>6 DEF ToDelete
  <2>6. \A q, r \in Proc : q # r => cmd'[q].remove \cap cmd'[r].remove = {}
    <3>1. ASSUME NEW q \in Proc, NEW r \in Proc, q # r, NEW f \in cmd'[q].remove,
                 f \in cmd'[r].remove
          PROVE  FALSE
      BY <1>13, <2>1, <2>5, <3>1
    <3> QED
      BY <3>1
  <2> QED
    BY <2>4, <2>6 DEF ToDelete
<1>15. ASSUME NothingLeft PROVE NothingLeft'
  <2>1. SUFFICES ASSUME NEW f \in Path, disk'[f] # None
                 PROVE  \/ \E n \in Name : Target'.located[n] = f
                        \/ \E q \in Proc : f \in cmd'[q].remove
    BY DEF NothingLeft
  <2>2. CASE \E n \in Name : TL[n] = f
    <3>1. PICK n \in Name : TL[n] = f
      BY <2>2
    <3>2. CASE n = o.name
      BY <1>13, <3>1, <3>2 DEF f0
    <3>3. CASE n # o.name
      BY <1>8, <3>1, <3>3
    <3> QED
      BY <3>2, <3>3
  <2>3. CASE \E q \in Proc : f \in cmd[q].remove
    BY <1>13, <2>3
  <2> QED
    BY <1>1, <1>15, <2>1, <2>2, <2>3 DEF NothingLeft, TL
<1> QED
  BY <1>11, <1>12, <1>14, <1>15 DEF ImagesGood, Right

LEMMA WriteImages ==
  ASSUME Basic, Rows, "stale" \notin seen', ImagesGood, PackedRight, NEW p \in Proc, Write(p)
  PROVE  ImagesGood' /\ (NothingLeft => NothingLeft')
<1> DEFINE now == cmd[p].now
           old == cmd[p].old
           out == Output(p)
<1>1. /\ cmd[p].op \in {"ingest", "import"} /\ now \in Catalog
      /\ writer = None /\ writer' = p /\ layer # "gone"
      /\ LookupHolds(p) /\ out \in Path
      /\ cmd[p].op # "import" => out \in NewNames
      /\ UNCHANGED <<rows, layer>>
  BY WriteBasic
<1>2. /\ Target'.browses = (browses \ Named(browses, now.name)) \cup {now}
      /\ Target'.located = [located EXCEPT ![now.name] = out]
      /\ cmd'[p].op = cmd[p].op /\ cmd'[p].remove = cmd[p].remove
  BY WriteTarget
<1>21. /\ old # None => old \in browses /\ old.name = now.name
       /\ browses \ Named(browses, now.name) = browses \ {old}
       /\ OutputFree(p, IF old = None THEN None ELSE located[old.name])
       /\ disk' = [g \in Path |-> IF g = out THEN NewImage(p)
                                  ELSE IF old # None /\ g = located[old.name] THEN None ELSE disk[g]]
  BY WriteListed
<1>3. \A q \in Proc : q # p => cmd'[q] = cmd[q]
  BY OtherCommands DEF Step
<1> DEFINE TB == Target'.browses
           TL == Target'.located
<1>4. /\ now.name \in Name /\ browses \in SUBSET Catalog
      /\ located \in [Name -> Path \cup {None}] /\ \A b \in browses : b.name \in Name
  BY <1>1, NameTyping DEF Basic, Types
<1>5. /\ \A n \in Name : TL[n] = IF n = now.name THEN out ELSE located[n]
      /\ TB = (browses \ {old}) \cup {now}
  BY <1>2, <1>21, <1>4
<1>6. \A b \in browses : b.name = now.name => b = old
  BY <1>21 DEF Named
<1>7. Right(browses, located) /\ ToDelete
  BY <1>1, NoWriterTarget DEF ImagesGood
<1>8. /\ Located(browses, located) /\ Target.located = located
  BY <1>1, NoWriterTarget DEF Rows, RowsInv
<1>9. NewImage(p) = now
  BY NewImageIsRight
<1>10. \A n \in Name : located[n] = out => n = now.name
  BY OutputNotTaken DEF Rows
<1>11. \A q \in Proc : cmd'[q].remove = cmd[q].remove
  BY <1>2, <1>3
<1>12. /\ disk'[out] = now /\ now # None /\ now \in Catalog
       /\ \A f \in Path : f # out => disk'[f] = IF old # None /\ f = located[old.name]
                                                THEN None ELSE disk[f]
  BY <1>1, <1>21, <1>9, LayerDataAssumption
<1>13. old # None => old \in browses /\ old.name = now.name
  BY <1>21
<1>14. UNCHANGED <<browses, located>>
  BY <1>1 DEF rows
<1> HIDE DEF now, old, out, TB, TL
<1>15. ASSUME NEW b \in TB PROVE TL[b.name] # None /\ disk'[TL[b.name]] = b
  <2>1. CASE b = now
    BY <1>1, <1>4, <1>5, <1>12, <2>1, LayerDataAssumption DEF Path, out
  <2>2. CASE b # now
    <3>1. b \in browses /\ b.name # now.name
      BY <1>5, <1>6, <2>2
    <3>2. TL[b.name] = located[b.name] /\ located[b.name] # None /\ disk[located[b.name]] = b
      BY <1>4, <1>5, <1>7, <3>1 DEF Right
    <3>3. located[b.name] # out /\ located[b.name] \in Path
      BY <1>4, <1>10, <3>1, <3>2
    <3>4. old # None => located[b.name] # located[old.name]
      BY <1>4, <1>8, <1>13, <3>1, <3>2 DEF Located
    <3> QED
      BY <1>12, <3>2, <3>3, <3>4
  <2> QED
    BY <2>1, <2>2
<1>16. ASSUME NEW q \in Proc, NEW f \in cmd[q].remove
       PROVE  /\ f \in Path /\ disk'[f] # None
              /\ \A n \in Name : TL[n] # f /\ located[n] # f
  <2>1. f \in Path /\ disk[f] # None /\ \A n \in Name : located[n] # f
    BY <1>1, <1>7, <1>16, LayerDataAssumption DEF ToDelete, Basic, Types
  <2>2. disk'[f] # None
    BY <1>4, <1>12, <1>13, <2>1, LayerDataAssumption
  <2>3. out # f
    <3>1. CASE cmd[p].op # "import"
      BY <1>1, <1>16, <3>1 DEF NewNames, out
    <3>2. CASE cmd[p].op = "import"
      BY <1>1, <1>21, <1>4, <1>13, <2>1, <3>2, LayerDataAssumption DEF OutputFree, out, Path
    <3> QED
      BY <3>1, <3>2
  <2> QED
    BY <1>5, <2>1, <2>2, <2>3
<1>17. ToDelete'
  BY <1>7, <1>11, <1>14, <1>16 DEF ToDelete, TL
<1>18. ASSUME NothingLeft PROVE NothingLeft'
  <2>1. SUFFICES ASSUME NEW f \in Path, disk'[f] # None
                 PROVE  \/ \E n \in Name : TL[n] = f
                        \/ \E q \in Proc : f \in cmd[q].remove
    BY <1>11 DEF NothingLeft, TL
  <2>2. CASE f = out
    BY <1>4, <1>5, <2>2
  <2>3. CASE f # out
    <3>1. disk[f] # None /\ (old # None => f # located[old.name])
      BY <1>12, <2>1, <2>3
    <3>2. CASE \E n \in Name : located[n] = f
      <4>1. PICK n \in Name : located[n] = f
        BY <3>2
      <4>2. n # now.name
        <5>1. SUFFICES ASSUME n = now.name PROVE FALSE
          OBVIOUS
        <5>2. old = None
          BY <1>13, <3>1, <4>1, <5>1
        <5>3. Named(browses, n) = {}
          BY <1>1, <5>1, <5>2 DEF LookupHolds, now, old
        <5> QED
          BY <1>8, <4>1, <5>3, LayerDataAssumption DEF Located, Path
      <4> QED
        BY <1>5, <4>1, <4>2
    <3>3. CASE \E q \in Proc : f \in cmd[q].remove
      BY <3>3
    <3> QED
      BY <1>8, <1>18, <3>1, <3>2, <3>3 DEF NothingLeft
  <2> QED
    BY <2>2, <2>3
<1>19. Right(Target.browses, Target.located)'
  BY <1>15 DEF Right, TB, TL
<1>20. cmd'[writer'].op \notin {"delete", "purge"}
  BY <1>1, <1>2
<1> QED
  BY <1>17, <1>18, <1>19, <1>20 DEF ImagesGood, Right

LEMMA DeleteFileImages ==
  ASSUME Basic, ImagesGood, NEW p \in Proc, DeleteFile(p)
  PROVE  ImagesGood' /\ (NothingLeft => NothingLeft')
<1>1. /\ UNCHANGED <<rows, layer, writer>> /\ cmd[p].at = "files"
      /\ cmd[p].op \in {"delete", "purge"}
  BY DeleteFileBasic
<1>2. PICK f \in cmd[p].remove : /\ disk' = [disk EXCEPT ![f] = None]
                                 /\ cmd'[p] = [cmd[p] EXCEPT !.remove = @ \ {f}]
  BY DeleteFileBasic
<1>3. cmd'[p].remove = cmd[p].remove \ {f} /\ \A q \in Proc : q # p => cmd'[q].remove = cmd[q].remove
  <2>1. cmd[p] \in CmdType
    BY DEF Basic, Types
  <2> QED
    BY <1>2, <2>1, OtherCommands DEF CmdType, Step
<1>4. writer # p
  BY <1>1 DEF Basic, Control
<1>5. Target' = Target
  BY <1>1, <1>4, OtherTarget, OtherCommands DEF Step
<1>6. ToDelete /\ Right(Target.browses, Target.located)
      /\ (writer # None /\ cmd[writer].op \in {"delete", "purge"} => Right(browses, located))
  BY DEF ImagesGood
<1>7. \A n \in Name : Target.located[n] # f /\ located[n] # f
  BY <1>4, <1>6 DEF ToDelete
<1>8. \A g \in Path : disk'[g] = IF g = f THEN None ELSE disk[g]
  BY <1>2 DEF Basic, Types
<1>9. Target \in RowsType /\ \A b \in Catalog : b.name \in Name
  BY TargetTyping, NameTyping
<1>10. Right(Target.browses, Target.located)'
  BY <1>5, <1>6, <1>7, <1>8, <1>9 DEF Right, RowsType
<1>11. UNCHANGED <<browses, located>>
  BY <1>1 DEF rows
<1>12. writer' # None /\ cmd'[writer'].op \in {"delete", "purge"} => Right(browses, located)'
  <2>1. SUFFICES ASSUME writer # None, cmd'[writer].op \in {"delete", "purge"}
                 PROVE  Right(browses, located)'
    BY <1>1
  <2>2. cmd[writer].op \in {"delete", "purge"}
    BY <1>4, <2>1, OtherCommands DEF Step, Basic, Types
  <2> QED
    BY <1>6, <1>7, <1>8, <1>9, <1>11, <2>1, <2>2 DEF Right, Basic, Types
<1>13. ToDelete'
  <2>1. ASSUME NEW q \in Proc, NEW g \in cmd'[q].remove
        PROVE  /\ g \in Path /\ (layer' = "served" => disk'[g] # None)
               /\ \A n \in Name : Target'.located[n] # g /\ (writer' # q => located'[n] # g)
    <3>1. g \in cmd[q].remove /\ g # f
      BY <1>2, <1>3, <1>6, <2>1 DEF ToDelete
    <3>2. g \in Path /\ (layer = "served" => disk[g] # None)
          /\ \A n \in Name : Target.located[n] # g /\ (writer # q => located[n] # g)
      BY <1>6, <3>1 DEF ToDelete
    <3> QED
      BY <1>1, <1>5, <1>8, <1>11, <3>1, <3>2
  <2>2. \A q \in Proc : cmd'[q].remove \subseteq cmd[q].remove
    BY <1>3
  <2>3. \A q, r \in Proc : q # r => cmd[q].remove \cap cmd[r].remove = {}
    BY <1>6 DEF ToDelete
  <2>4. \A q, r \in Proc : q # r => cmd'[q].remove \cap cmd'[r].remove = {}
    BY <2>2, <2>3
  <2> QED
    BY <2>1, <2>4 DEF ToDelete
<1>14. ASSUME NothingLeft PROVE NothingLeft'
  BY <1>3, <1>5, <1>8, <1>14 DEF NothingLeft
<1> QED
  BY <1>10, <1>12, <1>13, <1>14 DEF ImagesGood, Right

LEMMA CommitImages ==
  ASSUME Basic, ImagesGood, NEW p \in Proc, CommitFirst(p) \/ CommitSecond(p)
  PROVE  ImagesGood' /\ (NothingLeft => NothingLeft')
<1>1. /\ writer = p /\ writer' \in {p, None} /\ Target' = Target /\ UNCHANGED <<disk, layer>>
  BY CommitFirstBasic, CommitSecondBasic
<1>2. cmd[p] \in CmdType /\ p # None
  BY LayerDataAssumption DEF Basic, Types
<1>3. cmd'[p].remove = cmd[p].remove
  <2>1. CASE CommitFirst(p)
    BY <1>2, <2>1, CommitFirstBasic DEF CmdType
  <2>2. CASE CommitSecond(p)
    <3> DEFINE at == CASE cmd[p].op = "ingest" -> "seed"
                          [] cmd[p].op = "import" -> "tiles"
                          [] OTHER -> "files"
               areas == IF cmd[p].op = "ingest" /\ ~seeding THEN {} ELSE cmd[p].areas
    <3>1. cmd'[p] = [cmd[p] EXCEPT !.rows = None, !.at = at, !.areas = areas]
      BY <2>2, CommitSecondBasic
    <3> HIDE DEF at, areas
    <3> QED
      BY <1>2, <3>1 DEF CmdType
  <2> QED
    BY <2>1, <2>2
<1>4. \A q \in Proc : cmd'[q].remove = cmd[q].remove
  BY <1>3, OtherCommands DEF Step
<1>5. cmd'[p].op = cmd[p].op
  BY SameOp
<1>6. \/ browses' = Target.browses /\ located' = Target.located
      \/ /\ browses' = browses /\ located' = located /\ writer' = p
         /\ cmd[p].op \notin {"ingest", "import"}
  BY CommitFirstBasic, CommitSecondBasic
<1>7. Right(Target.browses, Target.located)'
  BY <1>1 DEF ImagesGood, Right
<1>8. writer' # None /\ cmd'[writer'].op \in {"delete", "purge"} => Right(browses, located)'
  BY <1>1, <1>2, <1>5, <1>6 DEF ImagesGood, Right
<1>9. ToDelete'
  BY <1>1, <1>4, <1>6 DEF ImagesGood, ToDelete
<1>10. NothingLeft => NothingLeft'
  BY <1>1, <1>4 DEF NothingLeft
<1> QED
  BY <1>7, <1>8, <1>9, <1>10 DEF ImagesGood, Right

LEMMA DropLayerImages ==
  ASSUME Basic, ImagesGood, NEW p \in Proc, DropLayer(p)
  PROVE  ImagesGood' /\ NothingLeft'
<1>1. /\ writer' = None /\ browses' = {} /\ layer' = "gone"
      /\ located' = [n \in Name |-> None] /\ disk' = [f \in Path |-> None] /\ cmd'[p] = Idle
  BY DropLayerBasic
<1>2. Target'.browses = {} /\ Target'.located = [n \in Name |-> None]
  BY <1>1 DEF Target, Committed
<1>3. cmd'[p].remove = {} /\ \A q \in Proc : q # p => cmd'[q].remove = cmd[q].remove
  BY <1>1, OtherCommands DEF Idle, Step
<1>4. ToDelete'
  <2>1. \A q \in Proc : cmd'[q].remove \subseteq cmd[q].remove
    BY <1>3
  <2>2. \A q \in Proc : \A f \in cmd[q].remove : f \in Path /\ f # None
    BY LayerDataAssumption DEF ImagesGood, ToDelete, Path
  <2>3. \A q, r \in Proc : q # r => cmd[q].remove \cap cmd[r].remove = {}
    BY DEF ImagesGood, ToDelete
  <2>4. \A q, r \in Proc : q # r => cmd'[q].remove \cap cmd'[r].remove = {}
    BY <2>1, <2>3
  <2> QED
    BY <1>1, <1>2, <2>1, <2>2, <2>4 DEF ToDelete
<1> QED
  BY <1>1, <1>2, <1>4 DEF ImagesGood, Right, NothingLeft

\* A command that deletes is killed, or gives up; what it was deleting may be left.
LEMMA RolledBackImages ==
  ASSUME Basic, ImagesGood, NEW p \in Proc, Kill(p) \/ ListedGone(p),
         cmd[p].op \notin {"ingest", "import"}
  PROVE  ImagesGood'
<1>1. /\ UNCHANGED <<rows, disk, layer>> /\ cmd'[p] = Idle
      /\ writer' = (IF writer = p THEN None ELSE writer)
  BY KillBasic, ListedGoneBasic
<1>2. cmd[p].op \notin {"ingest", "import"}
  OBVIOUS
<1>3. UNCHANGED <<browses, located>>
  BY <1>1 DEF rows
<1>4. \A q \in Proc : q # p => cmd'[q] = cmd[q]
  BY OtherCommands DEF Step
<1>5. cmd'[p].remove = {}
  BY <1>1 DEF Idle
<1>6. /\ Right(Target'.browses, Target'.located)
      /\ \A q \in Proc : \A f \in cmd'[q].remove : \A n \in Name :
           Target'.located[n] # f /\ (writer' # q => located'[n] # f)
      /\ writer' # None /\ cmd'[writer'].op \in {"delete", "purge"} => Right(browses, located)
  <2>1. CASE writer = p
    <3>1. p # None /\ cmd[p].op \in {"delete", "purge"}
      BY <1>2, <2>1, LayerDataAssumption DEF Basic, Control, StepsOf
    <3>2. Target'.browses = browses /\ Target'.located = located /\ writer' = None
      BY <1>1, <1>3, <2>1 DEF Target, Committed
    <3> QED
      BY <1>3, <1>4, <1>5, <2>1, <3>1, <3>2 DEF ImagesGood, ToDelete
  <2>2. CASE writer # p
    <3>1. Target' = Target /\ writer' = writer
      BY <1>1, <1>4, <2>2, OtherTarget
    <3>2. writer # None => cmd'[writer] = cmd[writer]
      BY <1>4, <2>2 DEF Basic, Types
    <3> QED
      BY <1>3, <1>4, <1>5, <3>1, <3>2 DEF ImagesGood, ToDelete
  <2> QED
    BY <2>1, <2>2
<1>7. ToDelete'
  <2>1. \A q \in Proc : cmd'[q].remove \subseteq cmd[q].remove
    BY <1>4, <1>5
  <2>2. \A q \in Proc : \A f \in cmd[q].remove : f \in Path /\ (layer = "served" => disk[f] # None)
    BY DEF ImagesGood, ToDelete
  <2>3. \A q, r \in Proc : q # r => cmd[q].remove \cap cmd[r].remove = {}
    BY DEF ImagesGood, ToDelete
  <2>4. \A q, r \in Proc : q # r => cmd'[q].remove \cap cmd'[r].remove = {}
    BY <2>1, <2>3
  <2> QED
    BY <1>1, <1>6, <2>1, <2>2, <2>4 DEF ToDelete
<1> QED
  BY <1>1, <1>3, <1>6, <1>7 DEF ImagesGood, Right

LEMMA KillImages ==
  ASSUME Basic, ImagesGood, NEW p \in Proc, Kill(p), "crash" \notin faults'
  PROVE  ImagesGood' /\ "cut" \in faults'
<1>1. faults' = {IF cmd[p].op \in {"ingest", "import"} THEN "crash" ELSE "cut"}
  BY KillBasic
<1>2. cmd[p].op \notin {"ingest", "import"} /\ "cut" \in faults'
  BY <1>1
<1> QED
  BY <1>2, RolledBackImages

\* A listed browse is gone only before anything was deleted, or the list was stale.
LEMMA ListedGoneEarly ==
  ASSUME Basic, Rows, NEW p \in Proc, ListedGone(p), "stale" \notin seen
  PROVE  cmd[p].at = "list" /\ writer # p /\ Target' = Target
<1>1. ASSUME cmd[p].at = "remove", writer = p, NEW o \in cmd[p].todo, cmd[p].rows.located[o.name] = None
      PROVE  FALSE
  <2>1. Target = cmd[p].rows /\ Target \in RowsType
    BY <1>1, TargetTyping, LayerDataAssumption DEF Target
  <2>2. o \in Target.browses
    BY <1>1, <2>1 DEF Rows, ListInv
  <2>3. o.name \in Name /\ o \in Named(Target.browses, o.name)
    BY <2>1, <2>2, NameTyping DEF RowsType, Named
  <2> QED
    BY <1>1, <2>1, <2>3 DEF Rows, RowsInv, Located
<1>2. cmd[p].at = "list" /\ writer # p /\ UNCHANGED <<rows, writer>>
  BY <1>1, ListedGoneBasic
<1> QED
  BY <1>2, OtherTarget, OtherCommands DEF Step

LEMMA ListedGoneImages ==
  ASSUME Basic, Rows, NEW p \in Proc, ListedGone(p), "stale" \notin seen, ImagesGood
  PROVE  ImagesGood' /\ (NothingLeft => NothingLeft')
<1>1. cmd[p].at = "list" /\ writer # p /\ Target' = Target
  BY ListedGoneEarly
<1>2. /\ UNCHANGED <<rows, disk, layer>> /\ cmd'[p] = Idle /\ StepsOf(cmd[p])
      /\ writer' = writer /\ \A q \in Proc : q # p => cmd'[q] = cmd[q]
  BY <1>1, ListedGoneBasic
<1>3. cmd[p].remove = {} /\ cmd'[p].remove = {}
  BY <1>1, <1>2 DEF StepsOf, Idle
<1>4. \A q \in Proc : cmd'[q].remove = cmd[q].remove
  BY <1>2, <1>3
<1>5. writer # None => cmd'[writer].op = cmd[writer].op
  BY <1>1, <1>2 DEF Basic, Types
<1>6. UNCHANGED <<browses, located>>
  BY <1>2 DEF rows
<1> QED
  BY <1>1, <1>2, <1>4, <1>5, <1>6, ImagesKept

LEMMA LockRowsImages ==
  ASSUME Basic, ImagesGood, NEW p \in Proc, LockRows(p)
  PROVE  ImagesGood' /\ (NothingLeft => NothingLeft')
<1>1. /\ writer = None /\ Target' = Target /\ cmd'[p].remove = {} /\ StepsOf(cmd[p])
      /\ cmd[p].at = "list" /\ writer' = p /\ p # None
      /\ UNCHANGED <<rows, disk, layer>> /\ \A q \in Proc : q # p => cmd'[q] = cmd[q]
  BY LockRowsBasic, LayerDataAssumption
<1>2. \A q \in Proc : cmd'[q].remove = cmd[q].remove
  BY <1>1 DEF StepsOf
<1>3. UNCHANGED <<browses, located>>
  BY <1>1 DEF rows
<1>4. Target.browses = browses /\ Target.located = located
  BY <1>1, NoWriterTarget
<1>5. Right(browses, located)' /\ Right(Target.browses, Target.located)'
  BY <1>1, <1>3, <1>4 DEF ImagesGood, Right
<1>6. ToDelete'
  BY <1>1, <1>2, <1>3, <1>4 DEF ImagesGood, ToDelete
<1>7. NothingLeft => NothingLeft'
  BY <1>1, <1>2 DEF NothingLeft
<1> QED
  BY <1>5, <1>6, <1>7 DEF ImagesGood, Right

LEMMA ImagesNext ==
  ASSUME Basic, Rows, NothingWrong, ImagesInv, [LayerNext]_allvars
  PROVE  ImagesInv'
<1>1. faults \subseteq faults' /\ seen \subseteq seen'
  BY HistoryGrows
<1>2. SUFFICES ASSUME "crash" \notin faults', "overtaken" \notin seen', "stale" \notin seen'
               PROVE  ImagesGood' /\ ("cut" \notin faults' => NothingLeft')
  BY DEF ImagesInv, ImagesGood
<1>3. ImagesGood /\ ("cut" \notin faults => NothingLeft) /\ PackedRight /\ "stale" \notin seen
  BY <1>1, <1>2 DEF ImagesInv, ImagesGood, NothingWrong
<1>4. SUFFICES ImagesGood' /\ ("cut" \notin faults' /\ NothingLeft => NothingLeft')
  BY <1>1, <1>3
<1>5. CASE View \/ UNCHANGED allvars
  <2>1. UNCHANGED <<rows, disk, layer, writer, cmd>>
    BY <1>5, ViewBasic
  <2>2. UNCHANGED <<browses, located>> /\ Target' = Target
    BY <2>1 DEF Target, Committed, rows
  <2> QED
    BY <1>3, <2>1, <2>2, ImagesKept
<1>6. ASSUME NEW p \in Proc, Quiet(p) \/ StartExport(p) \/ Exports(p) \/ EndExport(p)
      PROVE  ImagesGood' /\ (NothingLeft => NothingLeft')
  <2>1. UNCHANGED <<rows, disk, layer, writer>>
    BY <1>6, QuietStep, StartExportBasic, ExportsBasic, EndExportBasic
  <2>2. ~Writes(cmd[p])
    BY <1>6, QuietStep, StartExportBasic, BegunTyping, ExportsBasic DEF EndExport, At, Writes
  <2>3. writer # p /\ Step(p)
    <3>1. Step(p)
      BY <1>6, ExportsBasic DEF Step, Quiet
    <3> QED
      BY <2>2, <3>1 DEF Basic, Control, Writes
  <2>4. Target' = Target
    BY <2>1, <2>3, OtherTarget, OtherCommands
  <2>5. cmd[p].remove = {}
    <3>1. CASE Quiet(p) \/ Exports(p)
      BY <3>1, QuietStep, ExportsBasic
    <3>2. CASE StartExport(p) \/ EndExport(p)
      BY <3>2, StartExportBasic, EndExportBasic, BegunTyping, RemovesNothing
    <3> QED
      BY <1>6, <3>1, <3>2
  <2>6. cmd'[p].remove = {}
    <3>1. CASE Quiet(p) \/ Exports(p)
      BY <3>1, QuietStep, ExportsBasic
    <3>2. CASE StartExport(p)
      BY <3>2, StartExportBasic
    <3>3. CASE EndExport(p)
      BY <3>3, EndExportBasic DEF Idle
    <3> QED
      BY <1>6, <3>1, <3>2, <3>3
  <2>7. \A q \in Proc : cmd'[q].remove = cmd[q].remove
    BY <2>3, <2>5, <2>6, OtherCommands
  <2>8. writer # None => cmd'[writer].op = cmd[writer].op
    BY <2>3, OtherCommands DEF Basic, Types
  <2>9. UNCHANGED <<browses, located, disk, layer, writer>>
    BY <2>1 DEF rows
  <2> QED
    BY <1>3, <2>4, <2>7, <2>8, <2>9, ImagesKept
<1>7. ASSUME NEW p \in Proc, LockRows(p) \/ ListedGone(p)
      PROVE  ImagesGood' /\ (NothingLeft => NothingLeft')
  BY <1>3, <1>7, LockRowsImages, ListedGoneImages
<1>8. ASSUME NEW p \in Proc, Kill(p) PROVE ImagesGood' /\ "cut" \in faults'
  BY <1>2, <1>3, <1>8, KillImages
<1>9. ASSUME NEW p \in Proc, RemoveBrowse(p) \/ Write(p) \/ CommitFirst(p) \/ CommitSecond(p)
                             \/ DeleteFile(p) \/ DropLayer(p)
      PROVE  ImagesGood' /\ (NothingLeft => NothingLeft')
  BY <1>2, <1>3, <1>9, RemoveImages, WriteImages, CommitImages, DeleteFileImages, DropLayerImages
<1> QED
  BY <1>3, <1>5, <1>6, <1>7, <1>8, <1>9, StepCases DEF Exports

LEMMA InitImages == LayerInit => NothingWrong /\ ImagesInv
<1> SUFFICES ASSUME LayerInit PROVE NothingWrong /\ ImagesInv
  OBVIOUS
<1>1. Basic /\ Rows /\ writer = None /\ package = None /\ \A p \in Proc : cmd[p] = Idle
  BY InitBasic, InitRows DEF LayerInit
<1>2. \A p \in Proc : cmd[p].remove = {} /\ cmd[p].op = "idle" /\ cmd[p].at = "idle"
  BY <1>1 DEF Idle
<1>3. Target.browses = browses /\ Target.located = located
  BY <1>1, NoWriterTarget
<1>4. PICK u \in [Name -> Upload] :
        located = [n \in Name |-> IF Named(browses, n) = {} THEN None ELSE u[n]]
  BY DEF LayerInit
<1>5. /\ browses \in SUBSET Catalog /\ located \in [Name -> Path \cup {None}]
      /\ \A b \in browses : b.name \in Name
  BY <1>1, NameTyping DEF Basic, Types
<1>6. \A b \in browses : located[b.name] # None
  BY <1>4, <1>5, LayerDataAssumption DEF Named
<1>7. disk = [f \in Path |->
        IF \E b \in browses : located[b.name] = f
          THEN CHOOSE b \in browses : located[b.name] = f ELSE None]
  BY DEF LayerInit
<1>8. ASSUME NEW b \in browses PROVE disk[located[b.name]] = b
  <2>1. located[b.name] \in Path
    BY <1>5, <1>6
  <2>2. \A c \in browses : located[c.name] = located[b.name] => c = b
    BY <1>1, <1>5, <1>6 DEF Rows, RowsInv, Located, Unique
  <2> QED
    BY <1>7, <2>1, <2>2
<1>9. Right(browses, located)
  BY <1>6, <1>8 DEF Right
<1>10. \A f \in Path : disk[f] # None => \E n \in Name : located[n] = f
  BY <1>5, <1>7
<1>11. ~PackageThere
  BY <1>1, <1>2 DEF PackageThere
<1>12. NothingWrong
  BY <1>1, <1>2, <1>3, <1>9, <1>11 DEF NothingWrong, NotWrong, PackedRight, Right, ExportRight
<1>13. ImagesInv
  BY <1>1, <1>2, <1>3, <1>9, <1>10 DEF ImagesInv, ToDelete, NothingLeft
<1> QED
  BY <1>12, <1>13

LEMMA ImagesHold == LayerSpec => [](Basic /\ Rows /\ NothingWrong /\ ImagesInv)
<1>1. Basic /\ Rows /\ NothingWrong /\ ImagesInv /\ [LayerNext]_allvars
        => (Basic /\ Rows /\ NothingWrong /\ ImagesInv)'
  BY BasicNext, RowsNext, ListNext, NothingWrongNext, ImagesNext DEF Rows
<1> QED
  BY <1>1, InitBasic, InitRows, InitImages, PTL DEF LayerSpec

\* However many commands change the layer at the same time, and whichever of their
\* steps fail: when they are done every browse has its own image, and every image
\* belongs to a browse (ingest_browse, remove_browse, import_browse, ngeo_delete).
THEOREM ImagesBelongToRows == LayerSpec => []ImagesMatchRows
<1>1. Basic /\ Rows /\ ImagesInv => ImagesMatchRows
  <2> SUFFICES ASSUME Basic, Rows, ImagesInv, Still, "crash" \notin faults,
                      seen \cap {"overtaken", "stale"} = {}
               PROVE  /\ \A b \in browses : located[b.name] # None /\ disk[located[b.name]] = b
                      /\ "cut" \notin faults =>
                           \A f \in Path : disk[f] # None => \E b \in browses : located[b.name] = f
    BY DEF ImagesMatchRows
  <2>1. writer = None /\ \A p \in Proc : cmd[p].remove = {}
    <3>1. Idle.at = "idle" /\ Idle.remove = {}
      BY DEF Idle
    <3> QED
      BY <3>1 DEF Still, Basic, Types, Control
  <2>2. Target.browses = browses /\ Target.located = located
    BY <2>1, NoWriterTarget
  <2>3. Right(browses, located) /\ ("cut" \notin faults => NothingLeft)
    BY <2>2 DEF ImagesInv
  <2>4. ASSUME "cut" \notin faults, NEW f \in Path, disk[f] # None
        PROVE  \E b \in browses : located[b.name] = f
    <3>1. PICK n \in Name : located[n] = f
      BY <2>1, <2>2, <2>3, <2>4 DEF NothingLeft
    <3>2. Named(browses, n) # {}
      BY <2>4, <3>1, LayerDataAssumption DEF Rows, RowsInv, Located, Path
    <3> QED
      BY <3>1, <3>2 DEF Named
  <2> QED
    BY <2>3, <2>4 DEF Right
<1> QED
  BY <1>1, ImagesHold, PTL

-----------------------------------------------------------------------------
(* The time index *)

\* The times of a layer into which browses were ingested.
LEMMA TimesOfSound ==
  ASSUME NEW B \in SUBSET Catalog
  PROVE  Sound(TimesOf(B), B)
<1> DEFINE A == Areas(B)
           H(a) == Hull(GroupOf(a, A))
           T == TimesOf(B)
<1>1. A \in SUBSET Span /\ T \in SUBSET Span
  BY AreasTyping, TimesOfTyping
<1>2. \A t \in T : \E a \in A : t = H(a)
  BY DEF TimesOf, Groups
<1>3. \A a \in A : H(a) \in T
  BY DEF TimesOf, Groups
<1> HIDE DEF A, T
<1>4. ASSUME NEW a \in A
      PROVE  /\ H(a) \in Span /\ IsHull(H(a), GroupOf(a, A))
             /\ a \in GroupOf(a, A) /\ GroupOf(a, A) \subseteq A
  BY <1>1, GroupHull
<1>5. ASSUME NEW a \in A, NEW c \in A, H(a) # H(c) PROVE ~Meets(H(a), H(c))
  BY <1>1, <1>5, GroupHullsApart
<1>6. Disjoint(T)
  <2> SUFFICES ASSUME NEW x \in T, NEW y \in T, x # y PROVE ~Overlaps(x, y)
    BY DEF Disjoint
  <2> HIDE DEF H
  <2> QED
    BY <1>1, <1>2, <1>5, ApartIsDisjoint
<1>7. Covers(T, B)
  <2> SUFFICES ASSUME NEW c \in B PROVE \E r \in T : Within(c.area, r)
    BY DEF Covers
  <2>1. c.area \in A
    BY DEF A, Areas
  <2> QED
    BY <1>3, <1>4, <2>1 DEF IsHull, Within
<1>8. ASSUME NEW a \in A PROVE Inside(B, H(a)) = GroupOf(a, A)
  <2>1. ASSUME NEW x \in GroupOf(a, A) PROVE x \in Inside(B, H(a))
    BY <1>4 DEF IsHull, Within, Inside, A
  <2>2. ASSUME NEW x \in Inside(B, H(a)) PROVE x \in GroupOf(a, A)
    <3>1. x \in A /\ Within(x, H(a)) /\ x \in Span
      BY <1>1 DEF Inside, A
    <3>2. Within(x, H(x)) /\ H(x) \in Span /\ x \in GroupOf(x, A) /\ H(a) \in Span
      BY <1>4, <3>1 DEF IsHull, Within
    <3>3. Meets(H(a), H(x))
      <4> HIDE DEF H
      <4> QED
        BY <3>1, <3>2, SpanTyping DEF Within, Meets
    <3>4. GroupOf(a, A) = GroupOf(x, A)
      BY <1>1, <3>1, <3>3, GroupHullsApart
    <3> QED
      BY <3>2, <3>4
  <2> QED
    BY <2>1, <2>2
<1>9. Exact(T, B)
  <2> SUFFICES ASSUME NEW r \in T
               PROVE  /\ IsHull(r, Inside(B, r))
                      /\ \A a, c \in Inside(B, r) : Connected(a, c, Inside(B, r))
    BY DEF Exact
  <2>1. PICK a \in A : r = H(a)
    BY <1>2
  <2>2. IsHull(r, GroupOf(a, A)) /\ Inside(B, r) = GroupOf(a, A)
    BY <1>4, <1>8, <2>1
  <2>3. \A x, y \in GroupOf(a, A) : Connected(x, y, GroupOf(a, A))
    BY <1>1, GroupConnected
  <2> QED
    BY <2>2, <2>3
<1> QED
  BY <1>1, <1>6, <1>7, <1>9 DEF Sound, T

\* What one round of a deletion does, in terms of what the databases will hold.
LEMMA RemoveEffect ==
  ASSUME Basic, Rows, NEW p \in Proc, RemoveBrowse(p), seen \cap {"stale", "early"} = {}
  PROVE  \E o \in cmd[p].todo : \E m \in Removals(Target.times, Target.times, o, Target.browses \ {o}) :
           /\ IF cmd[p].op = "delete" THEN Unseeds(m.unseed) ELSE UNCHANGED <<tiles, faults>>
           /\ o \in Target.browses
           /\ Target'.browses = Target.browses \ {o} /\ Target'.times = m.times
           /\ cmd'[p].todo = cmd[p].todo \ {o} /\ cmd'[p].areas = cmd[p].areas \cup m.areas
           /\ cmd'[p].op = cmd[p].op /\ cmd'[p].at = cmd[p].at
           /\ cmd'[p].ids = cmd[p].ids /\ cmd'[p].window = cmd[p].window
<1>1. /\ writer = p /\ UNCHANGED writer /\ cmd[p].rows \in RowsType /\ cmd[p].at = "remove"
      /\ cmd[p] \in CmdType /\ p # None
  BY RemoveBasic, LayerDataAssumption
<1>2. Target = cmd[p].rows /\ Target' = cmd'[p].rows
  BY <1>1 DEF Target
<1> DEFINE r == cmd[p].rows
           R(o) == Removals(Read(p, r.times), r.times, o, r.browses \ Named(r.browses, o.name))
<1>3. PICK o \in cmd[p].todo :
            LET r1 == cmd[p].rows
                left == r1.browses \ Named(r1.browses, o.name)
            IN \E f \in {r1.located[o.name]} \cup
                          (IF cmd[p].found = None THEN {} ELSE {cmd[p].found[o.name]}) :
               \E m \in Removals(Read(p, r1.times), r1.times, o, left) :
                 /\ o \in Catalog /\ o.name \in Name /\ r1.located[o.name] # None
                 /\ m.times \in SUBSET Span /\ m.unseed \in SUBSET DimType
                 /\ m.areas \in SUBSET DimType
                 /\ IF cmd[p].op = "delete" THEN Unseeds(m.unseed) ELSE UNCHANGED <<tiles, faults>>
                 /\ cmd'[p] = [cmd[p] EXCEPT
                      !.todo = @ \ {o},
                      !.found = None, !.view = None,
                      !.rows = [browses |-> left, times |-> m.times,
                                located |-> [r1.located EXCEPT ![o.name] = None]],
                      !.remove = @ \cup {f},
                      !.areas = @ \cup m.areas]
  BY RemoveBasic
<1>6. PICK f \in {r.located[o.name]} \cup
                          (IF cmd[p].found = None THEN {} ELSE {cmd[p].found[o.name]}),
           m \in R(o) :
                 /\ IF cmd[p].op = "delete" THEN Unseeds(m.unseed) ELSE UNCHANGED <<tiles, faults>>
                 /\ cmd'[p] = [cmd[p] EXCEPT
                      !.todo = @ \ {o},
                      !.found = None, !.view = None,
                      !.rows = [browses |-> r.browses \ Named(r.browses, o.name), times |-> m.times,
                                located |-> [r.located EXCEPT ![o.name] = None]],
                      !.remove = @ \cup {f},
                      !.areas = @ \cup m.areas]
  BY <1>3
<1>7. Read(p, r.times) = r.times
  <2>1. cmd[p].view = None
    BY DEF Rows, EarlyInv
  <2> QED
    BY <2>1 DEF Read
<1>8. o \in Target.browses
  BY <1>1, <1>2 DEF Rows, ListInv
<1>9. Named(Target.browses, o.name) = {o}
  BY <1>8 DEF Rows, RowsInv, Unique, Named
<1>10. m \in Removals(Target.times, Target.times, o, Target.browses \ {o})
  BY <1>2, <1>6, <1>7, <1>9
<1> DEFINE new == [browses |-> r.browses \ Named(r.browses, o.name), times |-> m.times,
                   located |-> [r.located EXCEPT ![o.name] = None]]
<1>11. cmd'[p] = [cmd[p] EXCEPT !.todo = @ \ {o}, !.found = None, !.view = None, !.rows = new,
                    !.remove = @ \cup {f}, !.areas = @ \cup m.areas]
  BY <1>6
<1>12. new.browses = Target.browses \ {o} /\ new.times = m.times
  BY <1>2, <1>9
<1>13. IF cmd[p].op = "delete" THEN Unseeds(m.unseed) ELSE UNCHANGED <<tiles, faults>>
  BY <1>6
<1> HIDE DEF r, R, new
<1>14. /\ cmd'[p].rows = new
       /\ cmd'[p].todo = cmd[p].todo \ {o} /\ cmd'[p].areas = cmd[p].areas \cup m.areas
       /\ cmd'[p].op = cmd[p].op /\ cmd'[p].at = cmd[p].at
       /\ cmd'[p].ids = cmd[p].ids /\ cmd'[p].window = cmd[p].window
  BY <1>1, <1>11 DEF CmdType
<1> QED
  BY <1>2, <1>8, <1>10, <1>12, <1>13, <1>14

LEMMA WriteEffect ==
  ASSUME Basic, Rows, NEW p \in Proc, Write(p), seen' \cap {"stale", "early"} = {}
  PROVE  \E m \in BeforeWrite(p) :
           LET merged == Overlapping(m.times, cmd[p].now.area)
           IN  /\ \/ tiles' = Without(tiles, m.unseed \cup Dims(merged)) /\ UNCHANGED faults
                  \/ Fault("unseed") /\ tiles' = Without(tiles, Dims(merged))
               /\ m.times \in SUBSET Span /\ m.unseed \in SUBSET DimType
               /\ Target'.browses = (browses \ {cmd[p].old}) \cup {cmd[p].now}
               /\ Target'.times = TimesAfterCreate(m.times, cmd[p].now)
               /\ cmd'[p].at = "commit" /\ cmd'[p].op = cmd[p].op /\ cmd'[p].now = cmd[p].now
               /\ cmd'[p].areas = m.areas \cup {Dim(Hull(merged \cup {cmd[p].now.area}))}
<1>1. /\ writer' = p /\ cmd[p] \in CmdType /\ cmd[p].now \in Catalog /\ p # None
      /\ See(IF LookupFresh(p) THEN {} ELSE {"stale"})
  BY WriteBasic, LayerDataAssumption
<1>2. PICK m \in Replacement(p), f \in Replaced(p) :
              LET new == Creation(ReadAgain(p, m.times), m.times, cmd[p].now)
              IN  /\ OutputFree(p, f)
                  /\ \/ tiles' = Without(tiles, m.unseed \cup new.unseed) /\ UNCHANGED faults
                     \/ Fault("unseed") /\ tiles' = Without(tiles, new.unseed)
                  /\ m.times \in SUBSET Span /\ m.unseed \in SUBSET DimType
                  /\ m.areas \in SUBSET DimType
                  /\ disk' = [g \in Path |-> IF g = Output(p) THEN NewImage(p)
                                             ELSE IF g = f THEN None ELSE disk[g]]
                  /\ cmd'[p] = [cmd[p] EXCEPT
                       !.at = "commit", !.found = None, !.view = None,
                       !.rows = [browses |-> (browses \ Named(browses, cmd[p].now.name))
                                               \cup {cmd[p].now},
                                 times |-> new.times,
                                 located |-> [located EXCEPT ![cmd[p].now.name] = Output(p)]],
                       !.areas = m.areas \cup {Dim(new.hull)}]
  BY WriteBasic
<1>3. cmd[p].view = None
  BY <1>1 DEF Rows, EarlyInv, See
<1>4. times \in SUBSET Span
  BY DEF Basic, Types
<1>5. Read(p, times) = times /\ ReadAgain(p, m.times) = m.times
  BY <1>1, <1>2, <1>3, <1>4, ReadTyping
<1>6. browses \ Named(browses, cmd[p].now.name) = browses \ {cmd[p].old}
  BY WriteListed
<1>7. m \in BeforeWrite(p)
  BY <1>2, <1>5, <1>6 DEF Replacement, BeforeWrite
<1> DEFINE merged == Overlapping(m.times, cmd[p].now.area)
           new == Creation(m.times, m.times, cmd[p].now)
           areas == m.areas \cup {Dim(Hull(merged \cup {cmd[p].now.area}))}
           written == [browses |-> (browses \ {cmd[p].old}) \cup {cmd[p].now},
                       times |-> new.times,
                       located |-> [located EXCEPT ![cmd[p].now.name] = Output(p)]]
<1>8. /\ new.times = TimesAfterCreate(m.times, cmd[p].now) /\ new.unseed = Dims(merged)
      /\ new.hull = Hull(merged \cup {cmd[p].now.area})
  <2> DEFINE T == m.times
             b == cmd[p].now
  <2>1. T \in SUBSET Span /\ b \in Catalog
    BY <1>1, <1>2
  <2> HIDE DEF T, b, merged, new
  <2>2. /\ Creation(T, T, b).times = TimesAfterCreate(T, b)
        /\ Creation(T, T, b).unseed = Dims(Overlapping(T, b.area))
        /\ Creation(T, T, b).hull = Hull(Overlapping(T, b.area) \cup {b.area})
    BY <2>1, CreationTyping
  <2> QED
    BY <2>2 DEF T, b, merged, new
<1>9. /\ \/ tiles' = Without(tiles, m.unseed \cup new.unseed) /\ UNCHANGED faults
         \/ Fault("unseed") /\ tiles' = Without(tiles, new.unseed)
      /\ cmd'[p] = [cmd[p] EXCEPT !.at = "commit", !.found = None, !.view = None,
                       !.rows = written, !.areas = m.areas \cup {Dim(new.hull)}]
  BY <1>2, <1>5, <1>6
<1>10. /\ written.browses = (browses \ {cmd[p].old}) \cup {cmd[p].now}
       /\ written.times = new.times
  OBVIOUS
<1> HIDE DEF merged, new, written
<1>11. /\ cmd'[p].rows = written /\ cmd'[p].op = cmd[p].op /\ cmd'[p].at = "commit"
       /\ cmd'[p].now = cmd[p].now /\ cmd'[p].areas = areas
  BY <1>1, <1>8, <1>9 DEF CmdType
<1>12. Target' = cmd'[p].rows
  BY <1>1 DEF Target
<1> QED
  BY <1>2, <1>7, <1>8, <1>9, <1>10, <1>11, <1>12 DEF merged

\* Whatever is neither written, rolled back nor killed leaves what the databases
\* will hold.
LEMMA TargetStays ==
  ASSUME Basic, [LayerNext]_allvars,
         \A p \in Proc : ~RemoveBrowse(p) /\ ~Write(p) /\ ~DropLayer(p) /\ ~Kill(p) /\ ~ListedGone(p)
  PROVE  Target' = Target
<1>1. CASE View \/ UNCHANGED allvars
  BY <1>1, ViewBasic DEF Target, Committed, rows
<1>2. ASSUME NEW p \in Proc, DeleteFile(p) \/ StartExport(p) \/ EndExport(p)
      PROVE  Target' = Target
  <2>1. UNCHANGED <<rows, writer>>
    BY <1>2, DeleteFileBasic, StartExportBasic, EndExportBasic
  <2>2. ~Writes(cmd[p])
    BY <1>2, StartExportBasic, BegunTyping DEF DeleteFile, EndExport, At, Writes
  <2>3. writer # p /\ Step(p)
    BY <1>2, <2>2 DEF Basic, Control, Writes, Step
  <2> QED
    BY <2>1, <2>3, OtherTarget, OtherCommands
<1> QED
  BY <1>1, <1>2, StepCases, QuietStep, LockRowsBasic, CommitFirstBasic, CommitSecondBasic, ExportsBasic
     DEF Exports

LEMMA IndexNext ==
  ASSUME NoBorderInstants, Basic, Rows, IndexInv, [LayerNext]_allvars
  PROVE  IndexInv'
<1>1. faults \subseteq faults' /\ seen \subseteq seen'
  BY HistoryGrows
<1>2. SUFFICES ASSUME faults' \cap {"crash", "cut"} = {}, seen' \cap {"stale", "early"} = {}
               PROVE  Sound(Target'.times, Target'.browses)
  BY DEF IndexInv
<1>3. Sound(Target.times, Target.browses)
  BY <1>1, <1>2 DEF IndexInv
<1>31. seen \cap {"stale", "early"} = {}
  BY <1>1, <1>2
<1>4. ASSUME NEW p \in Proc, RemoveBrowse(p) PROVE Sound(Target'.times, Target'.browses)
  <2>1. PICK o \in cmd[p].todo : \E m \in Removals(Target.times, Target.times, o, Target.browses \ {o}) :
           /\ IF cmd[p].op = "delete" THEN Unseeds(m.unseed) ELSE UNCHANGED <<tiles, faults>>
           /\ o \in Target.browses
           /\ Target'.browses = Target.browses \ {o} /\ Target'.times = m.times
           /\ cmd'[p].todo = cmd[p].todo \ {o} /\ cmd'[p].areas = cmd[p].areas \cup m.areas
           /\ cmd'[p].op = cmd[p].op /\ cmd'[p].at = cmd[p].at
           /\ cmd'[p].ids = cmd[p].ids /\ cmd'[p].window = cmd[p].window
    BY <1>31, <1>4, RemoveEffect
  <2>2. Target'.times \in TimesAfterRemove(Target.times, o, Target.browses \ {o})
    BY <1>3, <2>1, RemovalsTyping DEF Sound
  <2> QED
    BY <1>3, <2>1, <2>2, RemoveSound
<1>5. ASSUME NEW p \in Proc, Write(p) PROVE Sound(Target'.times, Target'.browses)
  <2>1. /\ cmd[p].now \in Catalog /\ writer = None
        /\ cmd[p].old # None => cmd[p].old \in browses
    BY <1>2, <1>5, WriteBasic, WriteListed
  <2>2. PICK m \in BeforeWrite(p) :
          /\ Target'.browses = (browses \ {cmd[p].old}) \cup {cmd[p].now}
          /\ Target'.times = TimesAfterCreate(m.times, cmd[p].now)
    BY <1>2, <1>5, WriteEffect
  <2>3. Sound(times, browses)
    BY <1>3, <2>1, NoWriterTarget
  <2>4. Sound(m.times, browses \ {cmd[p].old})
    <3>1. CASE cmd[p].old = None
      <4>1. browses \ {cmd[p].old} = browses
        BY <3>1, LayerDataAssumption DEF Basic, Types
      <4>2. m.times = times
        BY <2>2, <3>1 DEF BeforeWrite
      <4> QED
        BY <2>3, <4>1, <4>2
    <3>2. CASE cmd[p].old # None
      <4>1. cmd[p].old \in browses /\ m \in Removals(times, times, cmd[p].old, browses \ {cmd[p].old})
        BY <2>1, <2>2, <3>2 DEF BeforeWrite
      <4>2. m.times \in TimesAfterRemove(times, cmd[p].old, browses \ {cmd[p].old})
        BY <2>3, <4>1, RemovalsTyping DEF Sound
      <4> QED
        BY <2>3, <4>1, <4>2, RemoveSound
    <3> QED
      BY <3>1, <3>2
  <2> QED
    BY <2>1, <2>2, <2>4, CreateSound
<1>6. ASSUME NEW p \in Proc, DropLayer(p) PROVE Sound(Target'.times, Target'.browses)
  <2>1. Target'.times = {} /\ Target'.browses = {}
    BY <1>6, DropLayerBasic DEF Target, Committed
  <2> QED
    BY <2>1 DEF Sound, Disjoint, Covers, Exact
<1>7. ASSUME NEW p \in Proc, Kill(p) PROVE FALSE
  BY <1>2, <1>7, KillBasic
<1>8. ASSUME NEW p \in Proc, ListedGone(p) PROVE Sound(Target'.times, Target'.browses)
  BY <1>3, <1>31, <1>8, ListedGoneEarly
<1> QED
  BY <1>3, <1>4, <1>5, <1>6, <1>7, <1>8, TargetStays

LEMMA InitIndex == LayerInit => IndexInv
<1> SUFFICES ASSUME LayerInit PROVE IndexInv
  OBVIOUS
<1>1. browses \in SUBSET Catalog /\ times = TimesOf(browses) /\ writer = None
  BY InitBasic DEF LayerInit, Basic, Types
<1> QED
  BY <1>1, NoWriterTarget, TimesOfSound DEF IndexInv

-----------------------------------------------------------------------------
(* Fresh tiles *)

\* What MapCache knows of a time span decides about what is in it.
LEMMA DimOverlaps ==
  ASSUME NEW a, NEW t
  PROVE  Overlaps(a, Dim(t)) <=> Overlaps(a, t)
BY DEF Overlaps, StrictlyOverlaps, IsInstant, Meets, Dim

\* remove_browse un-seeds the one entry that it splits.
LEMMA RemoveFresh ==
  ASSUME NoBorderInstants, NEW T, NEW B, Sound(T, B), NEW o \in B,
         NEW m \in Removals(T, T, o, B \ {o}), NEW S, FreshTiles(S, T, B)
  PROVE  FreshTiles(Without(S, m.unseed), m.times, B \ {o})
<1>1. PICK t \in T : Overlapping(T, o.area) = {t}
  BY SoundOneTime
<1>2. T \in SUBSET Span /\ o.area \in Span
  BY CatalogTyping DEF Sound
<1>3. m \in { [times |-> Split([rest |-> T \ {t}, kept |-> q.kept], B \ {o}), unseed |-> {Dim(q.kept)},
               areas |-> Dims({ Hull(g) : g \in Groups(Overlapping(Areas(B \ {o}), q.kept)) })] :
                 q \in Pruned(T, o) }
  BY <1>1 DEF Removals
<1>4. PICK q \in Pruned(T, o) :
        m = [times |-> Split([rest |-> T \ {t}, kept |-> q.kept], B \ {o}), unseed |-> {Dim(q.kept)},
             areas |-> Dims({ Hull(g) : g \in Groups(Overlapping(Areas(B \ {o}), q.kept)) })]
  BY <1>3
<1>5. q.kept = t
  BY <1>1 DEF Pruned, Kept
<1>6. T \ {t} \subseteq m.times /\ m.unseed = {Dim(t)}
  BY <1>4, <1>5 DEF Split
<1>7. ASSUME NEW x \in S, x.dim # Dim(t)
      PROVE  x.dim \in Dims(m.times) /\ x.shows = ShownIn(B \ {o}, x.dim)
  <2>1. PICK u \in T : x.dim = Dim(u)
    BY <1>7 DEF FreshTiles, Dims
  <2>2. u # t
    BY <1>7, <2>1
  <2>3. ~Overlaps(u, o.area)
    BY <1>1, <2>2 DEF Overlapping
  <2>4. ~Overlaps(o.area, x.dim)
    BY <1>2, <2>1, <2>3, DimOverlaps, OverlapsSymmetric
  <2>5. x.shows = ShownIn(B \ {o}, x.dim)
    BY <1>7, <2>4 DEF FreshTiles, ShownIn
  <2>6. x.dim \in Dims(m.times)
    BY <1>6, <2>1, <2>2 DEF Dims
  <2> QED
    BY <2>5, <2>6
<1> QED
  BY <1>6, <1>7 DEF FreshTiles, Without

\* create_browse un-seeds the entries that it merges.
LEMMA CreateFresh ==
  ASSUME NEW T \in SUBSET Span, NEW B, NEW b \in Catalog, NEW S, FreshTiles(S, T, B)
  PROVE  FreshTiles(Without(S, Dims(Overlapping(T, b.area))), TimesAfterCreate(T, b), B \cup {b})
<1>1. b.area \in Span
  BY CatalogTyping
<1>2. ASSUME NEW x \in S, x.dim \notin Dims(Overlapping(T, b.area))
      PROVE  x.dim \in Dims(TimesAfterCreate(T, b)) /\ x.shows = ShownIn(B \cup {b}, x.dim)
  <2>1. PICK u \in T : x.dim = Dim(u)
    BY <1>2 DEF FreshTiles, Dims
  <2>2. u \notin Overlapping(T, b.area)
    BY <1>2, <2>1 DEF Dims
  <2>3. u \in TimesAfterCreate(T, b)
    BY <2>2 DEF TimesAfterCreate
  <2>4. ~Overlaps(b.area, x.dim)
    BY <1>1, <2>1, <2>2, DimOverlaps, OverlapsSymmetric DEF Overlapping
  <2>5. x.shows = ShownIn(B \cup {b}, x.dim)
    BY <1>2, <2>4 DEF FreshTiles, ShownIn
  <2> QED
    BY <2>1, <2>3, <2>5 DEF Dims
<1> QED
  BY <1>2 DEF FreshTiles, Without

LEMMA WithoutMore ==
  ASSUME NEW S, NEW D, NEW E
  PROVE  Without(S, D \cup E) = Without(Without(S, D), E)
BY DEF Without

\* What a step that leaves the databases alone makes of the map cache, unless
\* TilesFresh does not count any more: tiles go, or new ones show what is registered.
LEMMA QuietTiles ==
  ASSUME Basic, NEW p \in Proc, Quiet(p), Trusted',
         PackageThere => \A x \in package.tiles : x.shows = ShownIn(package.rows, x.dim)
  PROVE  \/ tiles' \subseteq tiles
         \/ /\ writer = None
            /\ \A x \in tiles' : \/ x \in tiles
                                 \/ x.dim \in Dims(times) /\ x.shows = ShownIn(browses, x.dim)
<1> DEFINE Goal == \/ tiles' \subseteq tiles
                   \/ /\ writer = None
                      /\ \A x \in tiles' : \/ x \in tiles
                                           \/ x.dim \in Dims(times) /\ x.shows = ShownIn(browses, x.dim)
<1>2. ASSUME \E D : tiles' = Without(tiles, D) PROVE Goal
  BY <1>2 DEF Without
<1>3. ASSUME NEW d \in cmd[p].areas, tiles' = Seeded(tiles, d, cmd[p].force),
             See(Coincidences(p, d)), cmd[p].at = "seed"
      PROVE  Goal
  <2>1. d \in Dims(times) /\ ~Busy(p)
    BY <1>3 DEF See, Coincidences, Trusted
  <2>2. writer = None
    BY <1>3, <2>1 DEF Busy, Basic, Control
  <2>3. ASSUME NEW x \in tiles' PROVE x \in tiles \/ x = Tile(d, "seeded", Rendered(d))
    BY <1>3, <2>3 DEF Seeded
  <2> QED
    BY <2>1, <2>2, <2>3 DEF Tile, ShownIn, Rendered
<1>4. ASSUME ImportTiles(p), tiles' # tiles PROVE Goal
  <2> DEFINE d == Dim(cmd[p].now.area)
             new == LowTiles(package.tiles, d)
  <2>1. /\ tiles' = tiles \cup new /\ cmd[p].op = "import" /\ cmd[p].at = "tiles"
        /\ "crowded" \notin seen' => Unchanged(d)
        /\ Coincidences(p, d) \subseteq seen'
    BY <1>4 DEF ImportTiles, See, At
  <2>2. Unchanged(d) /\ d \in Dims(times) /\ ~Busy(p)
    BY <2>1 DEF Coincidences, Trusted
  <2>3. writer = None
    BY <2>1, <2>2 DEF Busy, Basic, Control
  <2>4. PackageThere
    BY <2>1 DEF PackageThere
  <2>5. \A x \in new : x \in package.tiles /\ x.dim = d
    BY DEF LowTiles, TilesOf
  <2>6. \A x \in new : x.shows = Rendered(d)
    BY <2>2, <2>4, <2>5 DEF Unchanged, ShownIn
  <2> HIDE DEF new, d
  <2> QED
    BY <2>1, <2>2, <2>3, <2>5, <2>6 DEF ShownIn, Rendered
<1>5. CASE StartIngest(p) \/ StartDelete(p) \/ StartPurge(p) \/ StartReseed(p) \/ ReadTimesEarly(p)
  BY <1>5 DEF StartIngest, StartDelete, StartPurge, StartReseed, ReadTimesEarly
<1>6. CASE FilesDone(p) \/ SeedDone(p) \/ StartImport(p) \/ NextBrowse(p)
  BY <1>6 DEF FilesDone, SeedDone, StartImport, NextBrowse
<1>7. CASE Conflict(p) \/ Fail(p)
  BY <1>2, <1>7 DEF Conflict, Fail, Undo
<1>8. CASE Seed(p)
  BY <1>3, <1>8 DEF Seed
<1> QED
  BY <1>4, <1>5, <1>6, <1>7, <1>8 DEF Quiet

LEMMA QuietFresh ==
  ASSUME Basic, NEW p \in Proc, Quiet(p), Trusted',
         FreshTiles(tiles, Target.times, Target.browses),
         PackageThere => \A x \in package.tiles : x.shows = ShownIn(package.rows, x.dim)
  PROVE  FreshTiles(tiles', Target.times, Target.browses) /\ (tiles' \subseteq tiles \/ writer = None)
<1>1. CASE tiles' \subseteq tiles
  BY <1>1 DEF FreshTiles
<1>2. CASE /\ writer = None
           /\ \A x \in tiles' : \/ x \in tiles
                                \/ x.dim \in Dims(times) /\ x.shows = ShownIn(browses, x.dim)
  <2>1. Target.times = times /\ Target.browses = browses
    BY <1>2, NoWriterTarget
  <2> QED
    BY <1>2, <2>1 DEF FreshTiles
<1> QED
  BY <1>1, <1>2, QuietTiles

\* A purge goes on until the layer is gone.
LEMMA PurgeGoesOn ==
  ASSUME Basic, Rows, [LayerNext]_allvars, layer' = "served", NoPurge',
         faults' \cap {"crash", "cut"} = {}, "stale" \notin seen'
  PROVE  layer = "served" /\ NoPurge
<1>1. CASE View \/ UNCHANGED allvars
  BY <1>1, ViewBasic DEF NoPurge
<1>2. ASSUME NEW p \in Proc, Step(p)
      PROVE  layer = "served" /\ NoPurge
  <2>1. \A q \in Proc : q # p => ~Purging(cmd[q])
    BY <1>2, OtherCommands DEF NoPurge
  <2>2. ~DropLayer(p) /\ ~Kill(p)
    BY DropLayerBasic, KillBasic
  <2>3. \/ Quiet(p) \/ LockRows(p) \/ ListedGone(p) \/ StartExport(p) \/ Exports(p) \/ EndExport(p)
        \/ RemoveBrowse(p) \/ Write(p) \/ CommitFirst(p) \/ CommitSecond(p) \/ DeleteFile(p)
    BY <1>2, <2>2 DEF Step, Quiet, Exports
  <2>4. UNCHANGED layer
    BY <2>3, QuietStep, LockRowsBasic, ListedGoneBasic, RemoveBasic, WriteBasic, CommitFirstBasic,
       CommitSecondBasic, DeleteFileBasic, StartExportBasic, ExportsBasic, EndExportBasic
  <2>5. ~Purging(cmd[p])
    <3>1. CASE Quiet(p)
      BY <3>1, QuietCommand DEF NoPurge
    <3>2. CASE LockRows(p)
      BY <3>2, LockRowsBasic DEF Purging
    <3>3. CASE ListedGone(p)
      <4>1. "stale" \notin seen
        BY HistoryGrows
      <4> QED
        BY <3>3, <4>1, ListedGoneEarly DEF Purging
    <3>4. CASE StartExport(p)
      BY <3>4, StartExportBasic DEF Idle, Purging
    <3>5. CASE Exports(p) \/ EndExport(p)
      BY <3>5, ExportsBasic, EndExportBasic DEF Purging
    <3>6. CASE RemoveBrowse(p) \/ Write(p) \/ CommitFirst(p) \/ CommitSecond(p) \/ DeleteFile(p)
      BY <3>6, SameOp DEF NoPurge, Purging
    <3> QED
      BY <2>3, <3>1, <3>2, <3>3, <3>4, <3>5, <3>6
  <2> QED
    BY <2>1, <2>4, <2>5 DEF NoPurge
<1> QED
  BY <1>1, <1>2 DEF LayerNext, Wait

\* What is fresh in the map cache stays fresh, and nothing is added to it while a
\* transaction is open.
LEMMA TilesNext ==
  ASSUME NoBorderInstants, Basic, Rows, IndexInv, [LayerNext]_allvars, Trusted',
         layer = "served", layer' = "served", NoPurge,
         FreshTiles(tiles, Target.times, Target.browses),
         PackageThere => \A x \in package.tiles : x.shows = ShownIn(package.rows, x.dim)
  PROVE  /\ FreshTiles(tiles', Target'.times, Target'.browses)
         /\ tiles' \subseteq tiles \/ writer' = None
<1>1. faults \subseteq faults' /\ seen \subseteq seen'
  BY HistoryGrows
<1>2. /\ "unseed" \notin faults' /\ "crash" \notin faults' /\ "cut" \notin faults'
      /\ seen' \cap {"stale", "early"} = {} /\ seen \cap {"stale", "early"} = {}
  BY <1>1 DEF Trusted
<1>21. Sound(Target.times, Target.browses)
  BY <1>1, <1>2 DEF IndexInv
<1>3. CASE View \/ UNCHANGED allvars
  <2>1. Target' = Target /\ UNCHANGED writer
    BY <1>3, ViewBasic DEF Target, Committed, rows
  <2>2. CASE UNCHANGED tiles
    BY <2>1, <2>2
  <2>3. CASE ~UNCHANGED tiles
    <3>1. View
      BY <1>3, <2>3 DEF allvars
    <3>2. PICK d \in Dims(times), l \in Levels : tiles' = tiles \cup {Tile(d, l, Rendered(d))}
      BY <3>1 DEF View
    <3>3. writer = None
      BY <3>1 DEF View, See, Trusted
    <3>4. Target.times = times /\ Target.browses = browses
      BY <3>3, NoWriterTarget
    <3> QED
      BY <2>1, <3>2, <3>3, <3>4 DEF FreshTiles, Tile, ShownIn, Rendered
  <2> QED
    BY <2>2, <2>3
<1>4. ASSUME NEW p \in Proc, Quiet(p)
      PROVE  /\ FreshTiles(tiles', Target'.times, Target'.browses)
             /\ tiles' \subseteq tiles \/ writer' = None
  BY <1>4, QuietFresh, QuietStep
<1>5. ASSUME NEW p \in Proc, RemoveBrowse(p)
      PROVE  FreshTiles(tiles', Target'.times, Target'.browses) /\ tiles' \subseteq tiles
  <2>1. PICK o \in cmd[p].todo : \E m \in Removals(Target.times, Target.times, o, Target.browses \ {o}) :
           /\ IF cmd[p].op = "delete" THEN Unseeds(m.unseed) ELSE UNCHANGED <<tiles, faults>>
           /\ o \in Target.browses
           /\ Target'.browses = Target.browses \ {o} /\ Target'.times = m.times
           /\ cmd'[p].todo = cmd[p].todo \ {o} /\ cmd'[p].areas = cmd[p].areas \cup m.areas
           /\ cmd'[p].op = cmd[p].op /\ cmd'[p].at = cmd[p].at
           /\ cmd'[p].ids = cmd[p].ids /\ cmd'[p].window = cmd[p].window
    BY <1>2, <1>5, RemoveEffect
  <2>2. PICK m \in Removals(Target.times, Target.times, o, Target.browses \ {o}) :
           /\ IF cmd[p].op = "delete" THEN Unseeds(m.unseed) ELSE UNCHANGED <<tiles, faults>>
           /\ Target'.browses = Target.browses \ {o} /\ Target'.times = m.times
    BY <2>1
  <2>3. cmd[p].op = "delete"
    BY <1>5, RemoveBasic DEF NoPurge, Purging
  <2>4. tiles' = Without(tiles, m.unseed)
    BY <1>2, <2>2, <2>3 DEF Unseeds, Fault
  <2>5. FreshTiles(Without(tiles, m.unseed), m.times, Target.browses \ {o})
    <3>1. o \in Target.browses /\ m \in Removals(Target.times, Target.times, o, Target.browses \ {o})
      BY <2>1, <2>2
    <3> QED
      BY <1>21, <3>1, RemoveFresh
  <2> QED
    BY <2>2, <2>4, <2>5 DEF Without
<1>6. ASSUME NEW p \in Proc, Write(p)
      PROVE  FreshTiles(tiles', Target'.times, Target'.browses) /\ tiles' \subseteq tiles
  <2>1. /\ cmd[p].now \in Catalog /\ writer = None
        /\ cmd[p].old # None => cmd[p].old \in browses
    BY <1>2, <1>6, WriteBasic, WriteListed
  <2>2. PICK m \in BeforeWrite(p) :
          LET merged == Overlapping(m.times, cmd[p].now.area)
          IN  /\ \/ tiles' = Without(tiles, m.unseed \cup Dims(merged)) /\ UNCHANGED faults
                 \/ Fault("unseed") /\ tiles' = Without(tiles, Dims(merged))
              /\ m.times \in SUBSET Span /\ m.unseed \in SUBSET DimType
              /\ Target'.browses = (browses \ {cmd[p].old}) \cup {cmd[p].now}
              /\ Target'.times = TimesAfterCreate(m.times, cmd[p].now)
              /\ cmd'[p].at = "commit" /\ cmd'[p].op = cmd[p].op /\ cmd'[p].now = cmd[p].now
              /\ cmd'[p].areas = m.areas \cup {Dim(Hull(merged \cup {cmd[p].now.area}))}
    BY <1>2, <1>6, WriteEffect
  <2>3. Sound(times, browses) /\ FreshTiles(tiles, times, browses)
    BY <1>21, <2>1, NoWriterTarget
  <2>4. tiles' = Without(Without(tiles, m.unseed), Dims(Overlapping(m.times, cmd[p].now.area)))
    BY <1>2, <2>2, WithoutMore DEF Fault
  <2>5. FreshTiles(Without(tiles, m.unseed), m.times, browses \ {cmd[p].old})
    <3>1. CASE cmd[p].old = None
      <4>1. browses \ {cmd[p].old} = browses
        BY <3>1, LayerDataAssumption DEF Basic, Types
      <4>2. m.times = times
        BY <2>2, <3>1 DEF BeforeWrite
      <4> QED
        BY <2>3, <4>1, <4>2 DEF FreshTiles, Without
    <3>2. CASE cmd[p].old # None
      <4>1. cmd[p].old \in browses /\ m \in Removals(times, times, cmd[p].old, browses \ {cmd[p].old})
        BY <2>1, <2>2, <3>2 DEF BeforeWrite
      <4> QED
        BY <2>3, <4>1, RemoveFresh
    <3> QED
      BY <3>1, <3>2
  <2>6. tiles' \subseteq tiles
    BY <2>4 DEF Without
  <2>7. m.times \in SUBSET Span
    BY <2>2
  <2>8. FreshTiles(tiles', TimesAfterCreate(m.times, cmd[p].now), (browses \ {cmd[p].old}) \cup {cmd[p].now})
    BY <2>1, <2>4, <2>5, <2>7, CreateFresh
  <2> QED
    BY <2>2, <2>6, <2>8
<1>7. ASSUME NEW p \in Proc,
             \/ LockRows(p) \/ ListedGone(p) \/ CommitFirst(p) \/ CommitSecond(p)
             \/ DeleteFile(p) \/ StartExport(p) \/ Exports(p) \/ EndExport(p)
      PROVE  UNCHANGED tiles
  BY <1>7, LockRowsBasic, ListedGoneBasic, CommitFirstBasic, CommitSecondBasic, DeleteFileBasic,
     StartExportBasic, ExportsBasic, EndExportBasic
<1>8. ASSUME NEW p \in Proc, DropLayer(p) \/ Kill(p) PROVE FALSE
  BY <1>2, <1>8, DropLayerBasic, KillBasic
<1>9. (\A p \in Proc : ~RemoveBrowse(p) /\ ~Write(p)) => Target' = Target
  <2>1. ASSUME NEW p \in Proc, ListedGone(p) PROVE Target' = Target
    BY <1>2, <2>1, ListedGoneEarly
  <2> QED
    BY <1>8, <2>1, TargetStays
<1>10. CASE \E p \in Proc : \/ LockRows(p) \/ ListedGone(p) \/ CommitFirst(p) \/ CommitSecond(p)
                            \/ DeleteFile(p) \/ StartExport(p) \/ Exports(p) \/ EndExport(p)
  BY <1>5, <1>6, <1>7, <1>9, <1>10
<1> QED
  BY <1>3, <1>4, <1>5, <1>6, <1>8, <1>10, StepCases DEF Exports

\* So as long as a transaction is open its tiles show what is registered.
LEMMA ShownNext ==
  ASSUME Basic, [LayerNext]_allvars, layer' = "served",
         FreshTiles(tiles, Target.times, Target.browses),
         \A x \in tiles : x.shows = ShownIn(browses, x.dim),
         FreshTiles(tiles', Target'.times, Target'.browses),
         tiles' \subseteq tiles \/ writer' = None
  PROVE  \A x \in tiles' : x.shows = ShownIn(browses', x.dim)
<1>1. CASE writer' = None
  BY <1>1 DEF Target, Committed, FreshTiles
<1>2. CASE tiles' \subseteq tiles
  <2>1. browses' = browses \/ browses' = Target.browses
    <3>1. CASE View \/ UNCHANGED allvars
      BY <3>1, ViewBasic DEF rows
    <3>2. ASSUME NEW p \in Proc, CommitFirst(p) \/ CommitSecond(p)
          PROVE  browses' = browses \/ browses' = Target.browses
      BY <3>2, CommitFirstBasic, CommitSecondBasic
    <3>3. ASSUME NEW p \in Proc, Step(p), ~CommitFirst(p), ~CommitSecond(p)
          PROVE  browses' = browses
      <4>1. ~DropLayer(p)
        BY DropLayerBasic
      <4>2. UNCHANGED rows
        BY <3>3, <4>1, QuietStep, LockRowsBasic, ListedGoneBasic, RemoveBasic, WriteBasic,
           DeleteFileBasic, StartExportBasic, ExportsBasic, EndExportBasic, KillBasic
           DEF Step, Quiet, Exports
      <4> QED
        BY <4>2 DEF rows
    <3> QED
      BY <3>1, <3>2, <3>3 DEF LayerNext, Wait
  <2> QED
    BY <1>2, <2>1 DEF FreshTiles
<1> QED
  BY <1>1, <1>2

LEMMA OverlapsItself ==
  ASSUME NEW b \in Catalog
  PROVE  Overlaps(b.area, Dim(b.area))
<1>1. b.area \in Span
  BY CatalogTyping
<1> QED
  BY <1>1, DimOverlaps, SpanTyping DEF Overlaps, StrictlyOverlaps, IsInstant, Meets

\* So does what an archive has of it.
LEMMA PackageNext ==
  ASSUME Basic, [LayerNext]_allvars, Trusted',
         layer = "served" /\ NoPurge => \A x \in tiles : x.shows = ShownIn(browses, x.dim),
         PackageThere => \A x \in package.tiles : x.shows = ShownIn(package.rows, x.dim),
         PackageThere'
  PROVE  \A x \in package'.tiles : x.shows = ShownIn(package'.rows, x.dim)
<1>1. CASE View \/ UNCHANGED allvars
  BY <1>1, ViewBasic
<1>2. ASSUME NEW p \in Proc, Step(p), ~StartExport(p), ~Exports(p), ~EndExport(p)
      PROVE  PackageThere /\ package' = package
  BY <1>2, ExportStays
<1>3. ASSUME NEW p \in Proc, StartExport(p) PROVE package'.tiles = {}
  BY <1>3, StartExportBasic
<1>4. ASSUME NEW p \in Proc, EndExport(p)
      PROVE  PackageThere /\ package'.rows = package.rows /\ package'.tiles = package.tiles
  <2>1. PackageThere /\ package \in PackageType /\ package' = [package EXCEPT !.closed = TRUE]
    BY <1>4, EndExportBasic
  <2> QED
    BY <2>1 DEF PackageType
<1>5. ASSUME NEW p \in Proc, LocateImage(p) \/ FindTime(p)
      PROVE  PackageThere /\ package' = package
  BY <1>5, LocateImageBasic, FindTimeBasic
<1>6. ASSUME NEW p \in Proc, CopyImage(p)
      PROVE  PackageThere /\ package'.rows = package.rows /\ package'.tiles = package.tiles
  BY <1>6, CopyImageBasic
<1>7. ASSUME NEW p \in Proc, CopyTiles(p)
      PROVE  \A x \in package'.tiles : x.shows = ShownIn(package'.rows, x.dim)
  <2> DEFINE d == Dim(cmd[p].now.area)
  <2>1. /\ PackageThere /\ cmd[p].op = "export" /\ cmd[p].at = "cache" /\ cmd[p].now \in package.rows
        /\ package'.rows = package.rows
        /\ package'.tiles = package.tiles \cup TilesOf(tiles, d)
        /\ See((IF Unchanged(d) THEN {} ELSE {"crowded"})
               \cup (IF TilesOf(tiles, d) = {} THEN {"untiled"} ELSE {}))
    BY <1>7, CopyTilesBasic
  <2>2. Unchanged(d)
    BY <2>1 DEF See, Trusted
  <2>3. cmd[p].now \in Catalog
    BY <2>1, Exporting
  <2>4. layer = "served"
    <3>1. cmd[p].now \in Rendered(d)
      BY <2>1, <2>2, <2>3, OverlapsItself DEF Unchanged
    <3> QED
      BY <3>1 DEF Rendered, Basic, Types, Control
  <2>5. NoPurge
    BY <2>2 DEF Unchanged, NoPurge, Purging
  <2>6. ASSUME NEW x \in TilesOf(tiles, d) PROVE x.shows = ShownIn(package.rows, x.dim)
    <3>1. x \in tiles /\ x.dim = d
      BY <2>6 DEF TilesOf
    <3> QED
      BY <2>2, <2>4, <2>5, <3>1 DEF Unchanged, ShownIn, Rendered
  <2> QED
    BY <2>1, <2>6
<1> QED
  BY <1>1, <1>2, <1>3, <1>4, <1>5, <1>6, <1>7, ViewBasic DEF LayerNext, Wait, Exports

LEMMA FreshNext ==
  ASSUME NoBorderInstants, Basic, Rows, IndexInv, FreshInv, [LayerNext]_allvars
  PROVE  FreshInv'
<1>1. faults \subseteq faults' /\ seen \subseteq seen'
  BY HistoryGrows
<1>2. SUFFICES ASSUME Trusted'
               PROVE  /\ layer' = "served" /\ NoPurge' =>
                           /\ FreshTiles(tiles', Target'.times, Target'.browses)
                           /\ \A x \in tiles' : x.shows = ShownIn(browses', x.dim)
                      /\ PackageThere' =>
                           \A x \in package'.tiles : x.shows = ShownIn(package'.rows, x.dim)
  BY DEF FreshInv, FreshTiles
<1>3. /\ layer = "served" /\ NoPurge =>
           /\ FreshTiles(tiles, Target.times, Target.browses)
           /\ \A x \in tiles : x.shows = ShownIn(browses, x.dim)
      /\ PackageThere => \A x \in package.tiles : x.shows = ShownIn(package.rows, x.dim)
  <2>1. Trusted
    BY <1>1, <1>2 DEF Trusted
  <2> QED
    BY <2>1 DEF FreshInv, FreshTiles
<1>4. ASSUME layer' = "served", NoPurge'
      PROVE  /\ FreshTiles(tiles', Target'.times, Target'.browses)
             /\ \A x \in tiles' : x.shows = ShownIn(browses', x.dim)
  <2>1. faults' \cap {"crash", "cut"} = {} /\ "stale" \notin seen'
    BY <1>2 DEF Trusted
  <2>2. layer = "served" /\ NoPurge
    BY <1>4, <2>1, PurgeGoesOn
  <2>3. /\ FreshTiles(tiles', Target'.times, Target'.browses)
        /\ tiles' \subseteq tiles \/ writer' = None
    BY <1>2, <1>3, <1>4, <2>2, TilesNext
  <2> QED
    BY <1>3, <1>4, <2>2, <2>3, ShownNext
<1> QED
  BY <1>2, <1>3, <1>4, PackageNext

LEMMA InitFresh == LayerInit => FreshInv
<1> SUFFICES ASSUME LayerInit PROVE FreshInv
  OBVIOUS
<1>1. writer = None /\ package = None /\ \A p \in Proc : cmd[p].op = "idle"
  BY BegunTyping DEF LayerInit
<1>2. ~PackageThere
  BY <1>1 DEF PackageThere
<1>3. FreshTiles(tiles, times, browses)
  BY DEF LayerInit, FreshTiles, Tile, Rendered, ShownIn
<1> QED
  BY <1>1, <1>2, <1>3, NoWriterTarget DEF FreshInv, FreshTiles

-----------------------------------------------------------------------------
(* Complete tiles *)

\* A deletion keeps its options.
LEMMA QuietDeletion ==
  ASSUME Basic, NEW p \in Proc, Quiet(p), cmd'[p].op = "delete"
  PROVE  /\ cmd'[p].at # "remove"
         /\ \/ StartDelete(p)
            \/ /\ cmd'[p].op = cmd[p].op
               /\ cmd'[p].ids = cmd[p].ids /\ cmd'[p].window = cmd[p].window
<1>1. cmd[p] \in CmdType /\ StepsOf(cmd[p])
  BY DEF Basic, Types, Control
<1>2. /\ Begun("ingest", "write").op = "ingest" /\ Begun("reseed", "seed").op = "reseed"
      /\ Begun("import", "next").op = "import" /\ Begun("purge", "files").op = "purge"
      /\ Begun("purge", "list").op = "purge"
      /\ Begun("ingest", "write") \in CmdType /\ Begun("reseed", "seed") \in CmdType
      /\ Begun("import", "next") \in CmdType /\ Begun("purge", "list") \in CmdType
      /\ Idle.op = "idle" /\ Idle \in CmdType
  BY BegunTyping
<1>3. cmd'[p].at # "remove"
  BY QuietStep DEF Writes
<1>4. ~StartIngest(p)
  <2> SUFFICES ASSUME StartIngest(p) PROVE FALSE
    OBVIOUS
  <2> QED
    BY StartIngestBasic
<1>5. ~StartReseed(p)
  <2> SUFFICES ASSUME StartReseed(p) PROVE FALSE
    OBVIOUS
  <2>1. PICK force, D : Set(p, [Begun("reseed", "seed") EXCEPT !.force = force, !.areas = D])
    BY DEF StartReseed
  <2>2. cmd'[p] = [Begun("reseed", "seed") EXCEPT !.force = force, !.areas = D]
    BY <2>1, SetValue
  <2> QED
    BY <1>2, <2>2 DEF CmdType
<1>6. ~StartImport(p)
  <2> SUFFICES ASSUME StartImport(p) PROVE FALSE
    OBVIOUS
  <2>1. PICK todo, force : Set(p, [Begun("import", "next") EXCEPT !.todo = todo, !.force = force])
    BY DEF StartImport
  <2>2. cmd'[p] = [Begun("import", "next") EXCEPT !.todo = todo, !.force = force]
    BY <2>1, SetValue
  <2> QED
    BY <1>2, <2>2 DEF CmdType
<1>7. ~StartPurge(p)
  <2> SUFFICES ASSUME StartPurge(p) PROVE FALSE
    OBVIOUS
  <2>1. PICK todo, found : \/ Set(p, Begun("purge", "files"))
                           \/ Set(p, [Begun("purge", "list") EXCEPT !.todo = todo, !.found = found])
    BY DEF StartPurge
  <2>2. \/ cmd'[p] = Begun("purge", "files")
        \/ cmd'[p] = [Begun("purge", "list") EXCEPT !.todo = todo, !.found = found]
    BY <2>1, SetValue
  <2> QED
    BY <1>2, <2>2 DEF CmdType
<1>8. ~(Conflict(p) \/ Fail(p) \/ NextBrowse(p) \/ ImportTiles(p))
  <2> SUFFICES ASSUME Conflict(p) \/ Fail(p) \/ NextBrowse(p) \/ ImportTiles(p) PROVE FALSE
    OBVIOUS
  <2>1. cmd[p].op \in {"ingest", "import"} /\ cmd[p].at \notin {"files", "list"}
    BY <1>1 DEF Conflict, Fail, NextBrowse, ImportTiles, At, StepsOf
  <2>4. CASE Conflict(p) \/ Fail(p)
    <3>1. Set(p, IF cmd[p].op = "import"
                  THEN [cmd[p] EXCEPT !.at = "next", !.areas = {}, !.found = None, !.view = None]
                  ELSE Idle)
      BY <2>4 DEF Conflict, Fail, Undo
    <3>2. cmd'[p] = (IF cmd[p].op = "import"
                  THEN [cmd[p] EXCEPT !.at = "next", !.areas = {}, !.found = None, !.view = None]
                  ELSE Idle)
      BY <3>1, SetValue
    <3> QED
      BY <1>1, <1>2, <2>1, <3>2 DEF CmdType
  <2>5. CASE NextBrowse(p)
    <3>1. PICK b, todo, old, found :
            \/ Set(p, Idle)
            \/ Set(p, [cmd[p] EXCEPT !.at = "write", !.now = b, !.todo = todo, !.old = old,
                                     !.found = found])
      <4>1. CASE Set(p, Idle)
        BY <4>1
      <4>2. CASE \E c \in cmd[p].todo :
              Set(p, [cmd[p] EXCEPT !.at = "write", !.now = c, !.todo = @ \ {c},
                        !.old = LookedUp(c), !.found = located])
        BY <4>2
      <4> QED
        BY <2>5, <4>1, <4>2 DEF NextBrowse
    <3>2. \/ cmd'[p] = Idle
          \/ cmd'[p] = [cmd[p] EXCEPT !.at = "write", !.now = b, !.todo = todo, !.old = old,
                                      !.found = found]
      BY <3>1, SetValue
    <3> QED
      BY <1>1, <1>2, <2>1, <3>2 DEF CmdType
  <2>6. CASE ImportTiles(p)
    <3>1. PICK at, D : Set(p, [cmd[p] EXCEPT !.at = at, !.areas = D]) \/ Set(p, Idle)
      BY <2>6 DEF ImportTiles
    <3>2. cmd'[p] = [cmd[p] EXCEPT !.at = at, !.areas = D] \/ cmd'[p] = Idle
      BY <3>1, SetValue
    <3> QED
      BY <1>1, <1>2, <2>1, <3>2 DEF CmdType
  <2> QED
    BY <2>4, <2>5, <2>6
<1>9. CASE ReadTimesEarly(p)
  <2>1. cmd'[p] = [cmd[p] EXCEPT !.view = times]
    BY <1>9, ReadEarlyBasic
  <2> QED
    BY <1>1, <1>3, <2>1 DEF CmdType
<1>10. CASE FilesDone(p)
  <2>1. PICK at, D : Set(p, [cmd[p] EXCEPT !.at = at]) \/ Set(p, [cmd[p] EXCEPT !.at = "seed", !.areas = D])
    BY <1>10 DEF FilesDone, Go
  <2>2. cmd'[p] = [cmd[p] EXCEPT !.at = at] \/ cmd'[p] = [cmd[p] EXCEPT !.at = "seed", !.areas = D]
    BY <2>1, SetValue
  <2> QED
    BY <1>1, <1>3, <2>2 DEF CmdType
<1>11. CASE Seed(p)
  <2>1. PICK D : Set(p, [cmd[p] EXCEPT !.areas = D]) \/ Set(p, Idle)
    BY <1>11 DEF Seed
  <2>2. cmd'[p] = [cmd[p] EXCEPT !.areas = D]
    BY <1>2, <2>1, SetValue
  <2> QED
    BY <1>1, <1>3, <2>2 DEF CmdType
<1>12. CASE SeedDone(p)
  <2>1. cmd'[p] = (IF cmd[p].op = "import" THEN [cmd[p] EXCEPT !.at = "next"] ELSE Idle)
    BY <1>12, SetValue DEF SeedDone, Go
  <2> QED
    BY <1>1, <1>2, <2>1 DEF CmdType
<1> QED
  BY <1>3, <1>4, <1>5, <1>6, <1>7, <1>8, <1>9, <1>10, <1>11, <1>12 DEF Quiet

\* Deletions keep their window.
LEMMA WindowNext ==
  ASSUME Basic, Rows, WindowInv, [LayerNext]_allvars
  PROVE  WindowInv'
<1>1. seen \subseteq seen'
  BY HistoryGrows
<1>2. CASE View \/ UNCHANGED allvars
  BY <1>1, <1>2, ViewBasic DEF WindowInv
<1>3. ASSUME NEW p \in Proc, Step(p) PROVE WindowInv'
  <2> DEFINE W(c) == /\ c.ids /\ c.window # Always => "mixed" \in seen'
                     /\ ~c.ids /\ c.at = "remove" /\ "stale" \notin seen' =>
                          \A b \in c.rows.browses : Selected(b.area, c.window) => b \in c.todo
  <2>1. \A q \in Proc : q # p => cmd'[q] = cmd[q]
    BY <1>3, OtherCommands
  <2>2. cmd[p].op = "delete" => W(cmd[p])
    BY <1>1 DEF WindowInv
  <2>3. cmd[p] \in CmdType /\ StepsOf(cmd[p])
    BY DEF Basic, Types, Control
  <2>4. SUFFICES ASSUME cmd'[p].op = "delete" PROVE W(cmd'[p])
    BY <1>1, <2>1 DEF WindowInv
  <2>5. CASE StartDelete(p)
    <3>1. PICK ids \in BOOLEAN, w \in Windows \cup {Always}, D \in SUBSET browses :
            /\ Set(p, [Begun("delete", "list") EXCEPT !.todo = D, !.found = located,
                         !.ids = ids, !.window = w])
            /\ See(IF ids /\ w # Always THEN {"mixed"} ELSE {})
      BY <2>5 DEF StartDelete, InWindow
    <3>2. cmd'[p] = [Begun("delete", "list") EXCEPT !.todo = D, !.found = located,
                       !.ids = ids, !.window = w]
      BY <3>1, SetValue
    <3>3. cmd'[p].at = "list" /\ cmd'[p].ids = ids /\ cmd'[p].window = w
      BY <3>2 DEF Begun, Idle
    <3> QED
      BY <3>1, <3>3 DEF See
  <2>6. CASE LockRows(p)
    <3>1. /\ cmd'[p].op = cmd[p].op /\ cmd'[p].rows = Committed /\ cmd'[p].todo = cmd[p].todo
          /\ cmd'[p].ids = cmd[p].ids /\ cmd'[p].window = cmd[p].window
      BY <2>6, LockRowsBasic
    <3>2. ListHolds(p) \/ "stale" \in seen'
      BY <2>6 DEF LockRows, See
    <3>3. ASSUME ListHolds(p), ~cmd[p].ids, NEW b \in browses, Selected(b.area, cmd[p].window)
          PROVE  b \in cmd[p].todo
      BY <2>4, <3>1, <3>3 DEF ListHolds, InWindow
    <3> QED
      BY <2>2, <2>4, <3>1, <3>2, <3>3 DEF Committed
  <2>7. CASE RemoveBrowse(p)
    <3>1. /\ cmd'[p].op = cmd[p].op /\ cmd'[p].at = "remove"
          /\ cmd'[p].ids = cmd[p].ids /\ cmd'[p].window = cmd[p].window
          /\ cmd[p].rows = Target /\ cmd'[p].rows = Target' /\ cmd[p].at = "remove"
          /\ UNCHANGED seen
      BY <2>7, RemoveTarget, RemoveBasic
    <3>2. CASE "stale" \in seen
      BY <2>2, <2>4, <3>1, <3>2
    <3>3. CASE "stale" \notin seen
      <4>1. PICK o \in cmd[p].todo :
               Target'.browses = Target.browses \ {o} /\ cmd'[p].todo = cmd[p].todo \ {o}
        BY <2>7, <3>3, RemoveListed
      <4> QED
        BY <2>2, <2>4, <3>1, <3>3, <4>1
    <3> QED
      BY <3>2, <3>3
  <2>8. CASE Write(p) \/ CommitFirst(p) \/ CommitSecond(p) \/ DeleteFile(p)
    <3>1. cmd[p].op = "delete"
      BY <2>4, <2>8, SameOp
    <3>2. cmd'[p].ids = cmd[p].ids /\ cmd'[p].window = cmd[p].window /\ cmd'[p].at # "remove"
      <4>1. CASE Write(p)
        BY <3>1, <4>1, WriteBasic
      <4>2. CASE CommitFirst(p)
        BY <2>3, <4>2, CommitFirstBasic DEF CmdType
      <4>3. CASE CommitSecond(p)
        <5> DEFINE at == CASE cmd[p].op = "ingest" -> "seed"
                              [] cmd[p].op = "import" -> "tiles"
                              [] OTHER -> "files"
                   areas == IF cmd[p].op = "ingest" /\ ~seeding THEN {} ELSE cmd[p].areas
        <5>1. cmd'[p] = [cmd[p] EXCEPT !.rows = None, !.at = at, !.areas = areas]
          BY <4>3, CommitSecondBasic
        <5>2. at # "remove"
          OBVIOUS
        <5> HIDE DEF at, areas
        <5> QED
          BY <2>3, <5>1, <5>2 DEF CmdType
      <4>4. CASE DeleteFile(p)
        <5>1. cmd[p].at = "files" /\ \E f : cmd'[p] = [cmd[p] EXCEPT !.remove = @ \ {f}]
          BY <4>4, DeleteFileBasic
        <5>2. PICK f : cmd'[p] = [cmd[p] EXCEPT !.remove = @ \ {f}]
          BY <5>1
        <5> QED
          BY <2>3, <5>1, <5>2 DEF CmdType
      <4> QED
        BY <2>8, <4>1, <4>2, <4>3, <4>4
    <3> QED
      BY <2>2, <3>1, <3>2
  <2>9. CASE DropLayer(p) \/ Kill(p) \/ ListedGone(p) \/ StartExport(p) \/ Exports(p) \/ EndExport(p)
    <3>1. cmd'[p].op # "delete"
      <4>1. CASE DropLayer(p) \/ Kill(p) \/ ListedGone(p) \/ EndExport(p)
        BY <4>1, DropLayerBasic, KillBasic, ListedGoneBasic, EndExportBasic DEF Idle
      <4>2. CASE StartExport(p)
        BY <4>2, StartExportBasic
      <4>3. CASE Exports(p)
        BY <4>3, ExportsBasic
      <4> QED
        BY <2>9, <4>1, <4>2, <4>3
    <3> QED
      BY <2>4, <3>1
  <2>10. CASE Quiet(p) /\ ~StartDelete(p)
    <3>1. /\ cmd'[p].op = cmd[p].op /\ cmd'[p].at # "remove"
          /\ cmd'[p].ids = cmd[p].ids /\ cmd'[p].window = cmd[p].window
      BY <2>4, <2>10, QuietDeletion
    <3> QED
      BY <2>2, <2>4, <3>1
  <2> QED
    BY <1>3, <2>5, <2>6, <2>7, <2>8, <2>9, <2>10 DEF Step, Quiet, Exports
<1> QED
  BY <1>2, <1>3 DEF LayerNext, Wait

\* A process at one of these steps is going to seed nothing.
LEMMA NothingPending ==
  ASSUME Basic, NEW p \in Proc, cmd[p].at \in {"idle", "list", "write", "add", "image", "time", "cache", "next"},
         NEW d
  PROVE  ~Pending(p, d)
BY DEF Pending, Basic, Control, StepsOf

LEMMA IdleNotPending ==
  ASSUME NEW p \in Proc, cmd[p] = Idle, NEW d
  PROVE  ~Pending(p, d)
BY DEF Pending, Idle

\* What a process that has no transaction does about the time spans it should seed.
LEMMA QuietPending ==
  ASSUME Basic, NEW p \in Proc, Quiet(p), Undisturbed', layer = "served",
         AllSeeded(tiles), PackageSeeded
  PROVE  /\ AllSeeded(tiles')
         /\ \A d : SeededIn(tiles, d) => SeededIn(tiles', d)
         /\ \A d : Pending(p, d) => SeededIn(tiles', d) \/ Pending(p, d)'
<1>1. cmd[p] \in CmdType /\ StepsOf(cmd[p])
  BY DEF Basic, Types, Control
<1>2. CASE StartIngest(p) \/ StartDelete(p) \/ StartPurge(p) \/ StartReseed(p) \/ StartImport(p)
  <2>1. UNCHANGED tiles /\ cmd[p] = Idle
    BY <1>2 DEF StartIngest, StartDelete, StartPurge, StartReseed, StartImport, MayStart
  <2> QED
    BY <2>1, IdleNotPending DEF SeededIn
<1>3. CASE Conflict(p) \/ Fail(p) \/ NextBrowse(p)
  <2>1. UNCHANGED tiles
    BY <1>3 DEF Conflict, Fail, Undo, See, NextBrowse, Undisturbed
  <2>2. cmd[p].at \in {"write", "next"}
    BY <1>3 DEF Conflict, Fail, NextBrowse, At
  <2> QED
    BY <2>1, <2>2, NothingPending DEF SeededIn
<1>4. CASE SeedDone(p)
  <2>1. UNCHANGED tiles /\ cmd[p].areas = {}
    BY <1>4 DEF SeedDone
  <2> QED
    BY <2>1 DEF SeededIn, Pending
<1>5. CASE FilesDone(p)
  <2>1. UNCHANGED tiles /\ cmd[p].at = "files" /\ cmd[p].op \in {"delete", "purge"}
    BY <1>1, <1>5 DEF FilesDone, StepsOf
  <2>2. CASE cmd[p].op = "purge"
    <3>1. cmd'[p] = [cmd[p] EXCEPT !.at = "drop"]
      BY <1>5, <2>2, SetValue DEF FilesDone, Go
    <3>2. cmd'[p].areas = cmd[p].areas /\ cmd'[p].op = "purge"
      BY <1>1, <2>2, <3>1 DEF CmdType
    <3>3. ASSUME NEW d, Pending(p, d) PROVE Pending(p, d)'
      BY <3>2, <3>3 DEF Pending
    <3> QED
      BY <2>1, <3>3
  <2>3. CASE cmd[p].op = "delete"
    <3> DEFINE areas == { d \in cmd[p].areas : ~Skipped(cmd[p], d) }
    <3>1. cmd'[p] = [cmd[p] EXCEPT !.at = "seed", !.areas = areas]
      BY <1>5, <2>3, SetValue DEF FilesDone
    <3> HIDE DEF areas
    <3>2. cmd'[p].areas = areas /\ cmd'[p].at = "seed"
      BY <1>1, <3>1 DEF CmdType
    <3>3. ASSUME NEW d, Pending(p, d) PROVE Pending(p, d)'
      BY <2>1, <2>3, <3>2, <3>3 DEF Pending, areas
    <3> QED
      BY <2>1, <3>3
  <2> QED
    BY <2>1, <2>2, <2>3
<1>6. CASE Seed(p)
  <2>1. PICK d \in cmd[p].areas :
          /\ tiles' = Seeded(tiles, d, cmd[p].force)
          /\ Set(p, [cmd[p] EXCEPT !.areas = @ \ {d}])
    BY <1>6 DEF Seed, Fault, Undisturbed
  <2>2. cmd'[p] = [cmd[p] EXCEPT !.areas = @ \ {d}]
    BY <2>1, SetValue
  <2>3. cmd'[p].areas = cmd[p].areas \ {d} /\ cmd'[p].at = "seed"
    BY <1>1, <1>6, <2>2 DEF CmdType, Seed
  <2>4. AllSeeded(tiles') /\ SeededIn(tiles', d)
    <3> DEFINE x == Tile(d, "seeded", Rendered(d))
    <3>1. x.dim = d /\ x.level = "seeded"
      BY DEF Tile
    <3>2. CASE tiles' = tiles /\ SeededIn(tiles, d)
      BY <3>2 DEF AllSeeded, SeededIn
    <3>3. CASE tiles' = { t \in tiles : t.dim # d \/ t.level # "seeded" } \cup {x}
      BY <3>1, <3>3 DEF AllSeeded, SeededIn
    <3> QED
      BY <2>1, <3>2, <3>3 DEF Seeded, SeededIn
  <2>5. ASSUME NEW e, SeededIn(tiles, e) PROVE SeededIn(tiles', e)
    <3>1. CASE e = d
      BY <2>4, <3>1
    <3>2. CASE e # d
      BY <2>1, <2>5, <3>2 DEF Seeded, SeededIn
    <3> QED
      BY <3>1, <3>2
  <2>6. ASSUME NEW e, Pending(p, e), e # d PROVE Pending(p, e)'
    BY <2>3, <2>6 DEF Pending
  <2> QED
    BY <2>4, <2>5, <2>6
<1>7. CASE ImportTiles(p)
  <2> DEFINE d == Dim(cmd[p].now.area)
             new == LowTiles(package.tiles, d)
  <2>1. /\ cmd[p].op = "import" /\ cmd[p].at = "tiles"
        /\ \/ /\ cmd[p].force
              /\ Set(p, [cmd[p] EXCEPT !.at = "seed", !.areas = {d}]) /\ UNCHANGED tiles
           \/ /\ ~cmd[p].force /\ new # {} /\ LowTiles(tiles, d) # {}
              /\ Set(p, Idle) /\ UNCHANGED tiles
           \/ ~cmd[p].force /\ tiles' = tiles \cup new
    BY <1>7 DEF ImportTiles, At
  <2>2. cmd[p].areas = {d}
    BY <1>7 DEF ImportTiles, See, Undisturbed
  <2>3. \A e : Pending(p, e) => e = d
    BY <2>2 DEF Pending
  <2>4. \A x \in new : x.level = "seeded" /\ x.dim = d
    BY DEF LowTiles, TilesOf
  <2>5. ~cmd[p].force => new # {}
    <3>1. SUFFICES ASSUME ~cmd[p].force PROVE new # {}
      OBVIOUS
    <3>2. /\ PackageThere /\ package.closed /\ cmd[p].now \in package.rows
          /\ package.tiles # {} /\ package.cache
      BY <2>1, <3>1 DEF PackageThere, Basic, Control
    <3>3. SeededIn(package.tiles, d)
      BY <3>2 DEF PackageSeeded, Unpacked
    <3> QED
      BY <3>3 DEF SeededIn, LowTiles, TilesOf
  <2> HIDE DEF d, new
  <2>6. CASE cmd[p].force
    <3>1. Set(p, [cmd[p] EXCEPT !.at = "seed", !.areas = {d}]) /\ UNCHANGED tiles
      BY <2>1, <2>6
    <3>2. cmd'[p] = [cmd[p] EXCEPT !.at = "seed", !.areas = {d}]
      BY <3>1, SetValue
    <3>3. cmd'[p].areas = {d} /\ cmd'[p].op = "import"
      BY <1>1, <2>1, <3>2 DEF CmdType
    <3> QED
      BY <2>3, <3>1, <3>3 DEF Pending, SeededIn
  <2>7. CASE ~cmd[p].force /\ tiles' = tiles \cup new
    BY <2>3, <2>4, <2>5, <2>7 DEF AllSeeded, SeededIn
  <2>8. CASE ~cmd[p].force /\ new # {} /\ LowTiles(tiles, d) # {} /\ UNCHANGED tiles
    BY <2>3, <2>8 DEF AllSeeded, SeededIn, LowTiles, TilesOf
  <2> QED
    BY <2>1, <2>6, <2>7, <2>8
<1>8. ~ReadTimesEarly(p)
  BY DEF ReadTimesEarly, See, Undisturbed
<1> QED
  BY <1>2, <1>3, <1>4, <1>5, <1>6, <1>7, <1>8 DEF Quiet

\* A package for which tiles are exported has those of every browse.
LEMMA PackageSeededNext ==
  ASSUME Basic, [LayerNext]_allvars, Undisturbed', PackageSeeded, AllSeeded(tiles)
  PROVE  PackageSeeded'
<1>1. CASE View \/ UNCHANGED allvars
  BY <1>1, ViewBasic DEF PackageSeeded, SeededIn, AllSeeded, Unpacked
<1>2. ASSUME NEW p \in Proc, Step(p), ~StartExport(p), ~Exports(p), ~EndExport(p)
      PROVE  PackageSeeded'
  BY <1>2, ExportStays DEF PackageSeeded, SeededIn, AllSeeded, Unpacked
<1>3. ASSUME NEW p \in Proc, StartExport(p) PROVE PackageSeeded'
  <2>1. Alone(p) /\ ~package'.closed /\ cmd'[p].todo = package'.rows /\ package'.tiles = {}
    BY <1>3, StartExportBasic
  <2>2. \A q \in Proc : q # p => cmd'[q] = cmd[q]
    BY <1>3, OtherCommands DEF Step
  <2>3. \A b \in package'.rows : \A q \in Proc : cmd'[q].op = "export" => b \in cmd'[q].todo
    BY <2>1, <2>2 DEF Alone
  <2> QED
    BY <2>1, <2>3 DEF PackageSeeded, Unpacked, AllSeeded
<1>4. ASSUME NEW p \in Proc, Exports(p), PackageThere' PROVE PackageSeeded'
  <2>1. /\ cmd[p].op = "export" /\ PackageThere /\ ~package.closed
        /\ \A q \in Proc : q # p => cmd'[q] = cmd[q]
        /\ \A q \in Proc : q # p => cmd[q].op # "export"
    BY <1>4, ExportsBasic, Exporting DEF Alone
  <2>2. CASE LocateImage(p) \/ FindTime(p)
    <3>1. /\ UNCHANGED package
          /\ cmd'[p].op = "export" /\ cmd'[p].todo = cmd[p].todo
      BY <1>4, <2>2, LocateImageBasic, FindTimeBasic
    <3>2. \A b : Unpacked(b) => Unpacked(b)'
      BY <2>1, <3>1 DEF Unpacked
    <3> QED
      BY <2>1, <3>1, <3>2 DEF PackageSeeded, SeededIn, AllSeeded
  <2>3. CASE CopyImage(p)
    <3>1. /\ package'.rows = package.rows /\ package'.cache = package.cache
          /\ package'.closed = package.closed /\ package'.tiles = package.tiles
          /\ cmd'[p].op = "export" /\ (package.cache => cmd'[p].todo = cmd[p].todo)
      BY <1>4, <2>3, CopyImageBasic
    <3>2. package.cache => \A b : Unpacked(b) => Unpacked(b)'
      BY <2>1, <3>1 DEF Unpacked
    <3> QED
      BY <2>1, <3>1, <3>2 DEF PackageSeeded, SeededIn, AllSeeded
  <2>4. CASE CopyTiles(p)
    <3> DEFINE d == Dim(cmd[p].now.area)
    <3>1. /\ package'.rows = package.rows /\ package'.cache = package.cache
          /\ package'.closed = package.closed
          /\ package'.tiles = package.tiles \cup TilesOf(tiles, d)
          /\ cmd'[p].op = "export" /\ cmd'[p].todo = cmd[p].todo \ {cmd[p].now}
          /\ See((IF Unchanged(d) THEN {} ELSE {"crowded"})
                 \cup (IF TilesOf(tiles, d) = {} THEN {"untiled"} ELSE {}))
      BY <2>4, CopyTilesBasic
    <3>2. TilesOf(tiles, d) # {}
      BY <3>1 DEF See, Undisturbed
    <3>3. AllSeeded(TilesOf(tiles, d)) /\ SeededIn(TilesOf(tiles, d), d)
      BY <3>2 DEF AllSeeded, TilesOf, SeededIn
    <3>4. AllSeeded(package'.tiles)
      BY <2>1, <3>1, <3>3 DEF PackageSeeded, AllSeeded
    <3>5. ASSUME package.cache, NEW b \in package.rows
          PROVE  SeededIn(package'.tiles, Dim(b.area)) \/ Unpacked(b)'
      <4>1. CASE b = cmd[p].now
        BY <3>1, <3>3, <4>1 DEF SeededIn
      <4>2. CASE b # cmd[p].now
        <5>1. Unpacked(b) => Unpacked(b)'
          BY <2>1, <3>1, <4>2 DEF Unpacked
        <5>2. SeededIn(package.tiles, Dim(b.area)) => SeededIn(package'.tiles, Dim(b.area))
          BY <3>1 DEF SeededIn
        <5> QED
          BY <2>1, <3>5, <5>1, <5>2 DEF PackageSeeded
      <4> QED
        BY <4>1, <4>2
    <3> QED
      BY <3>1, <3>4, <3>5 DEF PackageSeeded
  <2> QED
    BY <1>4, <2>2, <2>3, <2>4 DEF Exports
<1>5. ASSUME NEW p \in Proc, EndExport(p) PROVE PackageSeeded'
  <2>1. /\ PackageThere /\ cmd[p].op = "export" /\ cmd[p].todo = {} /\ package \in PackageType
        /\ package' = [package EXCEPT !.closed = TRUE]
    BY <1>5, EndExportBasic
  <2>2. package'.rows = package.rows /\ package'.tiles = package.tiles /\ package'.cache = package.cache
    BY <2>1 DEF PackageType
  <2>3. \A b : ~Unpacked(b)
    BY <2>1 DEF Unpacked
  <2> QED
    BY <2>1, <2>2, <2>3 DEF PackageSeeded
<1>6. CASE ~PackageThere'
  BY <1>6 DEF PackageSeeded
<1> QED
  BY <1>1, <1>2, <1>3, <1>4, <1>5, <1>6 DEF LayerNext, Wait

\* Different entries of a time index have different times.
LEMMA DimsDiffer ==
  ASSUME NEW T \in SUBSET Span, Disjoint(T), NEW t \in T, NEW u \in T, Dim(t) = Dim(u)
  PROVE  t = u
<1>1. t.start = u.start /\ t.end = u.end
  BY DEF Dim
<1>2. Overlaps(t, u)
  BY <1>1, SpanTyping DEF Overlaps, StrictlyOverlaps, Meets, IsInstant
<1> QED
  BY <1>2 DEF Disjoint

\* What remove_browse leaves of the time index has its tiles, or is to be seeded.
LEMMA RemoveComplete ==
  ASSUME NoBorderInstants, NEW T, NEW B, Sound(T, B), NEW o \in B,
         NEW m \in Removals(T, T, o, B \ {o}), NEW d \in Dims(m.times), d \notin m.areas
  PROVE  d \in Dims(T) /\ d \notin m.unseed
<1>1. PICK t \in T : Overlapping(T, o.area) = {t}
  BY SoundOneTime
<1>2. T \in SUBSET Span /\ Disjoint(T)
  BY DEF Sound
<1>3. m \in { [times |-> Split([rest |-> T \ {t}, kept |-> q.kept], B \ {o}), unseed |-> {Dim(q.kept)},
               areas |-> Dims({ Hull(g) : g \in Groups(Overlapping(Areas(B \ {o}), q.kept)) })] :
                 q \in Pruned(T, o) }
  BY <1>1 DEF Removals
<1>4. PICK q \in Pruned(T, o) :
        m = [times |-> Split([rest |-> T \ {t}, kept |-> q.kept], B \ {o}), unseed |-> {Dim(q.kept)},
             areas |-> Dims({ Hull(g) : g \in Groups(Overlapping(Areas(B \ {o}), q.kept)) })]
  BY <1>3
<1>5. q.kept = t
  BY <1>1 DEF Pruned, Kept
<1> DEFINE new == { Hull(g) : g \in Groups(Overlapping(Areas(B \ {o}), t)) }
<1>6. m.times = (T \ {t}) \cup new /\ m.unseed = {Dim(t)} /\ m.areas = Dims(new)
  BY <1>4, <1>5 DEF Split
<1> HIDE DEF new
<1>7. PICK u \in T \ {t} : d = Dim(u)
  BY <1>6 DEF Dims
<1>8. d \in Dims(T) /\ d # Dim(t)
  BY <1>2, <1>7, DimsDiffer DEF Dims
<1> QED
  BY <1>6, <1>8

\* The same of create_browse.
LEMMA CreateComplete ==
  ASSUME NEW T \in SUBSET Span, Disjoint(T), NEW b \in Catalog,
         NEW d \in Dims(TimesAfterCreate(T, b)),
         d # Dim(Hull(Overlapping(T, b.area) \cup {b.area}))
  PROVE  d \in Dims(T) /\ d \notin Dims(Overlapping(T, b.area))
<1>1. PICK u \in T \ Overlapping(T, b.area) : d = Dim(u)
  BY DEF TimesAfterCreate, Dims
<1>2. \A x \in Overlapping(T, b.area) : x \in T /\ x # u
  BY <1>1 DEF Overlapping
<1> QED
  BY <1>1, <1>2, DimsDiffer DEF Dims

\* When a deletion is committed, none of the time spans that it has left is inside
\* of its window: there would be browses in it that it has not deleted.
LEMMA NothingSkipped ==
  ASSUME Basic, WindowInv, NEW p \in Proc, writer = p, cmd[p].op = "delete",
         cmd[p].at = "remove", cmd[p].todo = {}, seen \cap {"mixed", "stale"} = {},
         Sound(Target.times, Target.browses), NEW d \in Dims(Target.times)
  PROVE  ~Skipped(cmd[p], d)
<1> SUFFICES ASSUME Skipped(cmd[p], d) PROVE FALSE
  OBVIOUS
<1>1. ~cmd[p].ids /\ Selected(d, cmd[p].window)
  BY DEF Skipped, WindowInv
<1>2. Target = cmd[p].rows /\ cmd[p] \in CmdType
  BY LayerDataAssumption DEF Target, Basic, Types
<1>3. \A b \in Target.browses : ~Selected(b.area, cmd[p].window)
  BY <1>1, <1>2 DEF WindowInv
<1>4. PICK t \in Target.times : d = Dim(t)
  BY DEF Dims
<1>5. \E a \in Inside(Target.browses, t) : TRUE
  BY DEF Sound, Exact, IsHull
<1>6. PICK b \in Target.browses : Within(b.area, t)
  BY <1>5 DEF Inside, Areas
<1>7. b.area \in Span /\ t \in Span
  BY <1>6, CatalogTyping DEF Sound
<1>8. cmd[p].window.start \in Seconds \cup {None} /\ cmd[p].window.end \in Seconds \cup {None}
  BY <1>2 DEF CmdType, WindowType
<1>9. Selected(b.area, cmd[p].window)
  <2>1. b.area.start >= d.start /\ b.area.end =< d.end
    BY <1>4, <1>6, <1>7, SpanTyping DEF Within, Dim
  <2>2. d.start \in Int /\ d.end \in Int /\ b.area.start \in Int /\ b.area.end \in Int
    BY <1>4, <1>7, SpanTyping DEF Dim
  <2>3. cmd[p].window.start # None => b.area.start >= cmd[p].window.start
    <3>1. SUFFICES ASSUME cmd[p].window.start # None PROVE b.area.start >= cmd[p].window.start
      OBVIOUS
    <3>2. cmd[p].window.start \in Int /\ d.start >= cmd[p].window.start
      BY <1>1, <1>8, <3>1, BoundsAssumption DEF Selected, Seconds
    <3> QED
      BY <2>1, <2>2, <3>2
  <2>4. cmd[p].window.end # None => b.area.end =< cmd[p].window.end
    <3>1. SUFFICES ASSUME cmd[p].window.end # None PROVE b.area.end =< cmd[p].window.end
      OBVIOUS
    <3>2. cmd[p].window.end \in Int /\ d.end =< cmd[p].window.end
      BY <1>1, <1>8, <3>1, BoundsAssumption DEF Selected, Seconds
    <3> QED
      BY <2>1, <2>2, <3>2
  <2> QED
    BY <2>3, <2>4 DEF Selected
<1> QED
  BY <1>3, <1>9

\* Clients cannot add tiles of the deep levels, and commands make none.
LEMMA AllSeededNext ==
  ASSUME Basic, Rows, [LayerNext]_allvars, Undisturbed', AllSeeded(tiles)
  PROVE  AllSeeded(tiles')
<1>0. seen' \cap {"stale", "early"} = {} /\ seen \cap {"stale", "early"} = {}
  BY HistoryGrows DEF Undisturbed
<1>1. CASE View
  BY <1>1, ViewBasic DEF View, Undisturbed
<1>2. CASE UNCHANGED allvars
  BY <1>2, ViewBasic DEF allvars
<1>3. ASSUME NEW p \in Proc, Quiet(p) PROVE AllSeeded(tiles')
  <2>1. CASE Conflict(p) \/ Fail(p)
    BY <2>1 DEF Conflict, Fail, Undo, Without, AllSeeded
  <2>2. CASE Seed(p)
    <3>1. \/ UNCHANGED tiles
          \/ \E d \in cmd[p].areas : tiles' = Seeded(tiles, d, cmd[p].force)
      BY <2>2 DEF Seed
    <3>2. ASSUME NEW d, tiles' = Seeded(tiles, d, cmd[p].force) PROVE AllSeeded(tiles')
      <4>1. Tile(d, "seeded", Rendered(d)).level = "seeded"
        BY DEF Tile
      <4> QED
        BY <3>2, <4>1 DEF Seeded, AllSeeded
    <3> QED
      BY <3>1, <3>2
  <2>3. CASE ImportTiles(p)
    BY <2>3 DEF ImportTiles, LowTiles, AllSeeded
  <2>4. CASE StartIngest(p) \/ StartDelete(p) \/ StartPurge(p) \/ StartReseed(p) \/ StartImport(p)
    BY <2>4 DEF StartIngest, StartDelete, StartPurge, StartReseed, StartImport
  <2>5. CASE FilesDone(p) \/ SeedDone(p) \/ NextBrowse(p) \/ ReadTimesEarly(p)
    BY <2>5 DEF FilesDone, SeedDone, NextBrowse, ReadTimesEarly
  <2> QED
    BY <1>3, <2>1, <2>2, <2>3, <2>4, <2>5 DEF Quiet
<1>4. ASSUME NEW p \in Proc, RemoveBrowse(p) PROVE AllSeeded(tiles')
  BY <1>0, <1>4, RemoveEffect DEF Unseeds, Without, AllSeeded
<1>5. ASSUME NEW p \in Proc, Write(p) PROVE AllSeeded(tiles')
  BY <1>0, <1>5, WriteEffect DEF Without, AllSeeded
<1>6. ASSUME NEW p \in Proc, DropLayer(p) PROVE AllSeeded(tiles')
  BY <1>6, DropLayerBasic DEF AllSeeded
<1> QED
  BY <1>1, <1>2, <1>3, <1>4, <1>5, <1>6, StepCases, LockRowsBasic, ListedGoneBasic, CommitFirstBasic,
     CommitSecondBasic, DeleteFileBasic, KillBasic, StartExportBasic, ExportsBasic, EndExportBasic
  DEF Exports

\* One process changes what is to be done.
LEMMA StepThere ==
  ASSUME TilesThere, layer = "served", NoPurge, NEW p \in Proc, \A q \in Proc : q # p => cmd'[q] = cmd[q],
         \A d \in Dims(Target'.times) :
           \/ Pending(p, d)'
           \/ /\ d \in Dims(Target.times)
              /\ SeededIn(tiles, d) => SeededIn(tiles', d)
              /\ Pending(p, d) => SeededIn(tiles', d)
  PROVE  TilesThere'
<1>1. ASSUME NEW q \in Proc, q # p, NEW d, Pending(q, d) PROVE Pending(q, d)'
  BY <1>1 DEF Pending, Skipped
<1>2. ASSUME NEW d \in Dims(Target'.times)
      PROVE  SeededIn(tiles', d) \/ \E q \in Proc : Pending(q, d)'
  BY <1>1, <1>2 DEF TilesThere
<1> QED
  BY <1>2 DEF TilesThere, SeededIn, Dims

LEMMA RemoveThere ==
  ASSUME NoBorderInstants, Basic, Rows, NEW p \in Proc, RemoveBrowse(p), Undisturbed,
         Sound(Target.times, Target.browses), TilesThere, layer = "served", NoPurge
  PROVE  TilesThere'
<1>1. /\ cmd[p].at = "remove" /\ seen \cap {"stale", "early"} = {}
  BY RemoveBasic DEF Undisturbed
<1>2. PICK o \in cmd[p].todo : \E m \in Removals(Target.times, Target.times, o, Target.browses \ {o}) :
           /\ IF cmd[p].op = "delete" THEN Unseeds(m.unseed) ELSE UNCHANGED <<tiles, faults>>
           /\ o \in Target.browses
           /\ Target'.browses = Target.browses \ {o} /\ Target'.times = m.times
           /\ cmd'[p].todo = cmd[p].todo \ {o} /\ cmd'[p].areas = cmd[p].areas \cup m.areas
           /\ cmd'[p].op = cmd[p].op /\ cmd'[p].at = cmd[p].at
           /\ cmd'[p].ids = cmd[p].ids /\ cmd'[p].window = cmd[p].window
  BY <1>1, RemoveEffect
<1>3. PICK m \in Removals(Target.times, Target.times, o, Target.browses \ {o}) :
           /\ IF cmd[p].op = "delete" THEN Unseeds(m.unseed) ELSE UNCHANGED <<tiles, faults>>
           /\ o \in Target.browses
           /\ Target'.browses = Target.browses \ {o} /\ Target'.times = m.times
           /\ cmd'[p].todo = cmd[p].todo \ {o} /\ cmd'[p].areas = cmd[p].areas \cup m.areas
           /\ cmd'[p].op = cmd[p].op /\ cmd'[p].at = cmd[p].at
           /\ cmd'[p].ids = cmd[p].ids /\ cmd'[p].window = cmd[p].window
  BY <1>2
<1>4. \A q \in Proc : q # p => cmd'[q] = cmd[q]
  BY OtherCommands DEF Step
<1>5. ASSUME NEW d \in Dims(Target'.times), ~Pending(p, d)'
      PROVE  /\ d \in Dims(Target.times) /\ ~Pending(p, d)
             /\ SeededIn(tiles, d) => SeededIn(tiles', d)
  <2>1. d \notin cmd[p].areas /\ d \notin m.areas
    BY <1>1, <1>3, <1>5 DEF Pending
  <2>2. d \in Dims(m.times)
    BY <1>3, <1>5
  <2>3. d \in Dims(Target.times) /\ d \notin m.unseed
    BY <1>3, <2>1, <2>2, RemoveComplete
  <2>4. SeededIn(tiles, d) => SeededIn(tiles', d)
    BY <1>3, <2>3 DEF Unseeds, Without, SeededIn
  <2> QED
    BY <2>1, <2>3, <2>4 DEF Pending
<1> QED
  BY <1>1, <1>4, <1>5, StepThere

LEMMA WriteThere ==
  ASSUME NoBorderInstants, Basic, Rows, NEW p \in Proc, Write(p), Undisturbed',
         Sound(Target.times, Target.browses), TilesThere, layer = "served", NoPurge
  PROVE  TilesThere'
<1>0. seen' \cap {"stale", "early"} = {}
  BY DEF Undisturbed
<1>1. /\ cmd[p].at = "write" /\ writer = None /\ cmd[p].now \in Catalog
      /\ cmd[p].op \in {"ingest", "import"}
      /\ cmd[p].old # None => cmd[p].old \in browses
  BY <1>0, WriteBasic, WriteListed
<1>2. PICK m \in BeforeWrite(p) :
           LET merged == Overlapping(m.times, cmd[p].now.area)
           IN  /\ \/ tiles' = Without(tiles, m.unseed \cup Dims(merged)) /\ UNCHANGED faults
                  \/ Fault("unseed") /\ tiles' = Without(tiles, Dims(merged))
               /\ m.times \in SUBSET Span /\ m.unseed \in SUBSET DimType
               /\ Target'.browses = (browses \ {cmd[p].old}) \cup {cmd[p].now}
               /\ Target'.times = TimesAfterCreate(m.times, cmd[p].now)
               /\ cmd'[p].at = "commit" /\ cmd'[p].op = cmd[p].op /\ cmd'[p].now = cmd[p].now
               /\ cmd'[p].areas = m.areas \cup {Dim(Hull(merged \cup {cmd[p].now.area}))}
  BY <1>0, WriteEffect
<1> DEFINE merged == Overlapping(m.times, cmd[p].now.area)
           hull == Dim(Hull(merged \cup {cmd[p].now.area}))
<1>3. Sound(times, browses) /\ Target.times = times
  BY <1>1, NoWriterTarget
<1>4. \A q \in Proc : q # p => cmd'[q] = cmd[q]
  BY OtherCommands DEF Step
<1>5. Disjoint(m.times) /\ \A d \in Dims(m.times) : d \in m.areas \/ (d \in Dims(times) /\ d \notin m.unseed)
  <2>1. CASE cmd[p].old = None
    <3>1. m.times = times /\ m.unseed = {}
      BY <1>2, <2>1 DEF BeforeWrite
    <3> QED
      BY <1>3, <3>1 DEF Sound
  <2>2. CASE cmd[p].old # None
    <3>1. cmd[p].old \in browses /\ m \in Removals(times, times, cmd[p].old, browses \ {cmd[p].old})
      BY <1>1, <1>2, <2>2 DEF BeforeWrite
    <3>2. m.times \in TimesAfterRemove(times, cmd[p].old, browses \ {cmd[p].old})
      BY <1>3, <3>1, RemovalsTyping DEF Sound
    <3>3. Sound(m.times, browses \ {cmd[p].old})
      BY <1>3, <3>1, <3>2, RemoveSound
    <3>4. \A d \in Dims(m.times) : d \in m.areas \/ (d \in Dims(times) /\ d \notin m.unseed)
      BY <1>3, <3>1, RemoveComplete
    <3> QED
      BY <3>3, <3>4 DEF Sound
  <2> QED
    BY <2>1, <2>2
<1>6. ASSUME NEW d \in Dims(Target'.times), ~Pending(p, d)'
      PROVE  /\ d \in Dims(Target.times)
             /\ SeededIn(tiles, d) => SeededIn(tiles', d)
  <2>1. d \notin m.areas /\ d # hull
    BY <1>1, <1>2, <1>6 DEF Pending
  <2>2. d \in Dims(TimesAfterCreate(m.times, cmd[p].now))
    BY <1>2, <1>6
  <2>3. d \in Dims(m.times) /\ d \notin Dims(merged)
    BY <1>1, <1>2, <1>5, <2>1, <2>2, CreateComplete
  <2>4. d \in Dims(times) /\ d \notin m.unseed
    BY <1>5, <2>1, <2>3
  <2>5. SeededIn(tiles, d) => SeededIn(tiles', d)
    BY <1>2, <2>3, <2>4 DEF Without, SeededIn
  <2> QED
    BY <1>3, <2>4, <2>5
<1>7. \A d : ~Pending(p, d)
  BY <1>1, NothingPending
<1> QED
  BY <1>1, <1>4, <1>6, <1>7, StepThere

\* Steps that leave the tiles and the time index.
LEMMA SameThere ==
  ASSUME NEW p \in Proc, \A q \in Proc : q # p => cmd'[q] = cmd[q], TilesThere,
         layer = "served", NoPurge, Target' = Target, UNCHANGED tiles,
         \A d \in Dims(Target.times) : Pending(p, d) => Pending(p, d)'
  PROVE  TilesThere'
BY StepThere

LEMMA CommitThere ==
  ASSUME Basic, WindowInv, NEW p \in Proc, CommitFirst(p) \/ CommitSecond(p) \/ DeleteFile(p),
         Undisturbed, Sound(Target.times, Target.browses), TilesThere, layer = "served", NoPurge
  PROVE  TilesThere'
<1>1. \A q \in Proc : q # p => cmd'[q] = cmd[q]
  BY OtherCommands DEF Step
<1>2. cmd[p] \in CmdType /\ StepsOf(cmd[p])
  BY DEF Basic, Types, Control
<1>3. CASE CommitFirst(p)
  <2>1. /\ writer = p /\ Target' = Target /\ UNCHANGED <<tiles, layer>>
        /\ cmd[p].at \in {"commit", "remove"}
        /\ cmd[p].at = "remove" => cmd[p].todo = {} /\ cmd[p].op \in {"delete", "purge"}
        /\ cmd'[p] = [cmd[p] EXCEPT !.at = "second"]
    BY <1>3, CommitFirstBasic
  <2>2. /\ cmd'[p].op = cmd[p].op /\ cmd'[p].at = "second" /\ cmd'[p].areas = cmd[p].areas
        /\ cmd'[p].window = cmd[p].window /\ cmd'[p].ids = cmd[p].ids
    BY <1>2, <2>1 DEF CmdType
  <2>3. ASSUME NEW d \in Dims(Target.times), Pending(p, d) PROVE Pending(p, d)'
    <3>1. CASE cmd[p].op = "delete"
      <4>1. cmd[p].at = "remove"
        BY <1>2, <2>1, <3>1 DEF StepsOf
      <4>2. ~Skipped(cmd[p], d)
        BY <2>1, <3>1, <4>1, NothingSkipped DEF Undisturbed
      <4> QED
        BY <2>2, <2>3, <4>2 DEF Pending, Skipped
    <3>2. CASE cmd[p].op # "delete"
      BY <2>2, <2>3, <3>2 DEF Pending
    <3> QED
      BY <3>1, <3>2
  <2> QED
    BY <1>1, <2>1, <2>3, SameThere
<1>4. CASE CommitSecond(p)
  <2>1. /\ Target' = Target /\ UNCHANGED <<tiles, layer>> /\ cmd[p].at = "second"
        /\ cmd'[p] = [cmd[p] EXCEPT !.rows = None,
               !.at = CASE cmd[p].op = "ingest" -> "seed"
                        [] cmd[p].op = "import" -> "tiles"
                        [] OTHER -> "files",
               !.areas = IF cmd[p].op = "ingest" /\ ~seeding THEN {} ELSE @]
    BY <1>4, CommitSecondBasic
  <2> DEFINE at == CASE cmd[p].op = "ingest" -> "seed"
                     [] cmd[p].op = "import" -> "tiles"
                     [] OTHER -> "files"
             areas == IF cmd[p].op = "ingest" /\ ~seeding THEN {} ELSE cmd[p].areas
  <2>2. cmd'[p] = [cmd[p] EXCEPT !.rows = None, !.at = at, !.areas = areas]
    BY <2>1
  <2>3. areas = cmd[p].areas
    BY DEF Undisturbed
  <2> HIDE DEF at, areas
  <2>4. /\ cmd'[p].op = cmd[p].op /\ cmd'[p].areas = cmd[p].areas
        /\ cmd'[p].window = cmd[p].window /\ cmd'[p].ids = cmd[p].ids
    BY <1>2, <2>2, <2>3 DEF CmdType
  <2>5. ASSUME NEW d, Pending(p, d) PROVE Pending(p, d)'
    BY <2>1, <2>4, <2>5 DEF Pending, Skipped
  <2> QED
    BY <1>1, <2>1, <2>5, SameThere
<1>5. CASE DeleteFile(p)
  <2>1. UNCHANGED <<rows, writer, tiles, layer>> /\ cmd[p].at = "files"
    BY <1>5, DeleteFileBasic
  <2>2. writer # p
    BY <2>1 DEF Basic, Control
  <2>3. Target' = Target
    BY <1>1, <2>1, <2>2, OtherTarget
  <2>4. PICK f \in cmd[p].remove : cmd'[p] = [cmd[p] EXCEPT !.remove = @ \ {f}]
    BY <1>5, DeleteFileBasic
  <2>5. /\ cmd'[p].op = cmd[p].op /\ cmd'[p].areas = cmd[p].areas /\ cmd'[p].at = cmd[p].at
        /\ cmd'[p].window = cmd[p].window /\ cmd'[p].ids = cmd[p].ids
    BY <1>2, <2>4 DEF CmdType
  <2>6. ASSUME NEW d, Pending(p, d) PROVE Pending(p, d)'
    BY <2>5, <2>6 DEF Pending, Skipped
  <2> QED
    BY <1>1, <2>1, <2>3, <2>6, SameThere
<1> QED
  BY <1>3, <1>4, <1>5

LEMMA TilesInvNext ==
  ASSUME NoBorderInstants, Basic, Rows, IndexInv, WindowInv, TilesInv, [LayerNext]_allvars
  PROVE  TilesInv'
<1> SUFFICES ASSUME Undisturbed' PROVE (AllSeeded(tiles) /\ PackageSeeded /\ TilesThere)'
  BY DEF TilesInv
<1>1. UNCHANGED seeding
  BY StepCases, ViewBasic, QuietStep, LockRowsBasic, RemoveBasic, ListedGoneBasic, WriteBasic,
     CommitFirstBasic, CommitSecondBasic, DeleteFileBasic, DropLayerBasic, KillBasic,
     StartExportBasic, ExportsBasic, EndExportBasic DEF allvars, fixed, Exports
<1>2. Undisturbed
  BY <1>1, HistoryGrows DEF Undisturbed
<1>3. AllSeeded(tiles) /\ PackageSeeded /\ TilesThere
  BY <1>2 DEF TilesInv
<1>4. Sound(Target.times, Target.browses)
  BY <1>2 DEF IndexInv, Undisturbed
<1>5. AllSeeded(tiles') /\ PackageSeeded'
  BY <1>3, AllSeededNext, PackageSeededNext
<1>6. SUFFICES ASSUME layer' = "served", NoPurge' PROVE TilesThere'
  BY <1>5 DEF TilesThere
<1>7. layer = "served" /\ NoPurge
  BY <1>6, PurgeGoesOn DEF Undisturbed
<1>8. CASE View
  BY <1>2, <1>8 DEF View, Undisturbed
<1>9. CASE UNCHANGED allvars
  <2>1. UNCHANGED <<rows, layer, writer, cmd, tiles>>
    BY <1>9, ViewBasic DEF allvars
  <2>2. Target' = Target
    BY <2>1 DEF Target, Committed, rows
  <2>3. ASSUME NEW q \in Proc, NEW d, Pending(q, d) PROVE Pending(q, d)'
    BY <2>1, <2>3 DEF Pending, Skipped
  <2> QED
    BY <1>3, <1>7, <2>1, <2>2, <2>3 DEF TilesThere, SeededIn
<1>10. ASSUME NEW p \in Proc, Quiet(p) PROVE TilesThere'
  <2>1. /\ \A d : SeededIn(tiles, d) => SeededIn(tiles', d)
        /\ \A d : Pending(p, d) => SeededIn(tiles', d) \/ Pending(p, d)'
    BY <1>3, <1>7, <1>10, QuietPending
  <2>2. Target' = Target /\ \A q \in Proc : q # p => cmd'[q] = cmd[q]
    BY <1>10, QuietStep
  <2> QED
    BY <1>3, <1>7, <2>1, <2>2, StepThere
<1>11. ASSUME NEW p \in Proc,
              LockRows(p) \/ ListedGone(p) \/ StartExport(p) \/ Exports(p) \/ EndExport(p)
       PROVE  TilesThere'
  <2>1. \A q \in Proc : q # p => cmd'[q] = cmd[q]
    BY <1>11, OtherCommands DEF Step, Exports
  <2>2. /\ cmd[p].at \in {"idle", "list", "add", "image", "time", "cache"}
        /\ UNCHANGED tiles /\ Target' = Target
    <3>1. CASE LockRows(p)
      BY <3>1, LockRowsBasic
    <3>2. CASE ListedGone(p)
      BY <1>2, <3>2, ListedGoneEarly, ListedGoneBasic DEF Undisturbed
    <3>3. CASE StartExport(p)
      <4>1. cmd[p].at = "idle" /\ UNCHANGED <<rows, tiles, writer>>
        BY <3>3, StartExportBasic DEF Idle
      <4>2. writer # p
        BY <4>1 DEF Basic, Control
      <4> QED
        BY <2>1, <4>1, <4>2, OtherTarget
    <3>4. CASE Exports(p)
      BY <3>4, ExportsBasic, Exporting
    <3>5. CASE EndExport(p)
      <4>1. cmd[p].op = "export" /\ UNCHANGED <<rows, tiles, writer>>
        BY <3>5, EndExportBasic
      <4>2. cmd[p].at \in {"add", "image", "time", "cache"} /\ writer # p
        BY <4>1, Exporting DEF Basic, Control
      <4> QED
        BY <2>1, <4>1, <4>2, OtherTarget
    <3> QED
      BY <1>11, <3>1, <3>2, <3>3, <3>4, <3>5
  <2> QED
    BY <1>3, <1>7, <2>1, <2>2, NothingPending, SameThere
<1>12. ASSUME NEW p \in Proc, DropLayer(p) \/ Kill(p) PROVE FALSE
  BY <1>6, <1>12, DropLayerBasic, KillBasic DEF Undisturbed
<1>13. ASSUME NEW p \in Proc, RemoveBrowse(p) PROVE TilesThere'
  BY <1>2, <1>3, <1>4, <1>7, <1>13, RemoveThere
<1>14. ASSUME NEW p \in Proc, Write(p) PROVE TilesThere'
  BY <1>3, <1>4, <1>7, <1>14, WriteThere
<1>15. ASSUME NEW p \in Proc, CommitFirst(p) \/ CommitSecond(p) \/ DeleteFile(p) PROVE TilesThere'
  BY <1>2, <1>3, <1>4, <1>7, <1>15, CommitThere
<1> QED
  BY <1>8, <1>9, <1>10, <1>11, <1>12, <1>13, <1>14, <1>15, StepCases DEF Exports

LEMMA InitTiles == LayerInit => WindowInv /\ TilesInv
<1> SUFFICES ASSUME LayerInit PROVE WindowInv /\ TilesInv
  OBVIOUS
<1>1. writer = None /\ package = None /\ \A p \in Proc : cmd[p].op = "idle"
  BY BegunTyping DEF LayerInit
<1>2. ~PackageThere
  BY <1>1 DEF PackageThere
<1>3. Undisturbed => tiles = { Tile(d, "seeded", Rendered(d)) : d \in Dims(times) }
  BY DEF LayerInit, Undisturbed
<1>4. \A d : Tile(d, "seeded", Rendered(d)).dim = d /\ Tile(d, "seeded", Rendered(d)).level = "seeded"
  BY DEF Tile
<1>5. Undisturbed => AllSeeded(tiles) /\ \A d \in Dims(times) : SeededIn(tiles, d)
  BY <1>3, <1>4 DEF AllSeeded, SeededIn
<1>6. Target.times = times
  BY <1>1, NoWriterTarget
<1> QED
  BY <1>1, <1>2, <1>5, <1>6 DEF WindowInv, TilesInv, PackageSeeded, TilesThere

-----------------------------------------------------------------------------
(* The theorems about the layer *)

LEMMA InvariantHolds == ASSUME NoBorderInstants PROVE LayerSpec => []Invariant
<1>1. LayerInit => Invariant
  BY InitBasic, InitRows, InitImages, InitIndex, InitFresh, InitTiles DEF Invariant
<1>2. Invariant /\ [LayerNext]_allvars => Invariant'
  BY BasicNext, RowsNext, ListNext, NothingWrongNext, ImagesNext, IndexNext, FreshNext, WindowNext,
     TilesInvNext DEF Invariant, Rows
<1> QED
  BY <1>1, <1>2, PTL DEF LayerSpec

\* When no command is running any more, what the map cache has for a time span is
\* what is registered in it, in every layer that has no instants on the border of
\* intervals and whatever commands there were, with the exceptions of TilesFresh
\* (seed_mapcache in remove_browse and create_browse, queries.py).
THEOREM CacheIsFresh == ASSUME NoBorderInstants PROVE LayerSpec => []TilesFresh
<1>1. Invariant => TilesFresh
  <2> SUFFICES ASSUME Invariant, Still, Trusted, NEW x \in tiles, x.dim \in Dims(times)
               PROVE  x.shows = Rendered(x.dim)
    BY DEF TilesFresh, Trusted
  <2>1. Idle.at = "idle" /\ Idle.op = "idle"
    BY DEF Idle
  <2>2. writer = None /\ NoPurge
    <3>1. \A p \in Proc : cmd[p].op = "idle" /\ cmd[p].at = "idle"
      BY <2>1 DEF Still
    <3>2. NoPurge
      BY <3>1 DEF NoPurge, Purging
    <3>3. writer = None
      BY <3>1 DEF Invariant, Basic, Types, Control
    <3> QED
      BY <3>2, <3>3
  <2>3. layer = "served"
    <3>1. times # {}
      BY DEF Dims
    <3>2. layer \in {"served", "gone"} /\ (layer = "gone" => times = {})
      BY DEF Invariant, Basic, Types, Control
    <3> QED
      BY <3>1, <3>2
  <2>4. x.shows = ShownIn(Target.browses, x.dim)
    BY <2>2, <2>3 DEF Invariant, FreshInv, FreshTiles
  <2> QED
    BY <2>2, <2>4, NoWriterTarget DEF ShownIn, Rendered
<1> QED
  BY <1>1, InvariantHolds, PTL

\* An archive that an export has finished holds the image of every browse in its
\* reports, and tiles that show nothing else (package.py, ngeo_export.py).
THEOREM ArchiveIsSound == ASSUME NoBorderInstants PROVE LayerSpec => []PackageSound
<1>1. Invariant => PackageSound
  <2> SUFFICES ASSUME Invariant, package # None, package.closed, "overtaken" \notin seen
               PROVE  /\ \A b \in package.rows : package.images[b.name] = b
                      /\ faults \subseteq {"step", "seed"}
                           /\ seen \cap {"raced", "ghost", "crowded", "stale", "early"} = {} =>
                         \A x \in package.tiles : x.shows = { b \in package.rows : Overlaps(b.area, x.dim) }
    BY DEF PackageSound
  <2>1. PackageThere
    BY DEF PackageThere
  <2>2. \A b \in package.rows : package.images[b.name] = b
    BY <2>1 DEF Invariant, NothingWrong, PackedRight, Unpacked
  <2>3. faults \subseteq {"step", "seed"} /\ seen \cap {"raced", "ghost", "crowded", "stale", "early"} = {}
          => Trusted
    BY DEF Trusted
  <2> QED
    BY <2>1, <2>2, <2>3 DEF Invariant, FreshInv, ShownIn
<1> QED
  BY <1>1, InvariantHolds, PTL

\* When no command is running any more, a layer that is seeded has tiles of every
\* entry of its time index, whichever entries the commands split, merged or left
\* out (the areas to seed of ngeo_delete.py:247 and of ingestion).
THEOREM CacheIsComplete == ASSUME NoBorderInstants PROVE LayerSpec => []TilesComplete
<1>1. Invariant => TilesComplete
  <2> SUFFICES ASSUME Invariant, Still, Undisturbed, layer = "served",
                      NEW d \in Dims(times)
               PROVE  \E t \in tiles : t.dim = d /\ t.level = "seeded"
    BY DEF TilesComplete, Undisturbed
  <2>1. Idle.at = "idle" /\ \A p \in Proc : cmd[p] = Idle
    BY DEF Idle, Still
  <2>2. writer = None
    BY <2>1 DEF Invariant, Basic, Types, Control
  <2>3. d \in Dims(Target.times)
    BY <2>2, NoWriterTarget
  <2>4. (\A p \in Proc : ~Pending(p, d)) /\ NoPurge
    <3>1. \A p \in Proc : ~Pending(p, d)
      BY <2>1, IdleNotPending
    <3>2. \A p \in Proc : cmd[p].op = "idle"
      BY <2>1 DEF Idle
    <3> QED
      BY <3>1, <3>2 DEF NoPurge, Purging
  <2> QED
    BY <2>3, <2>4 DEF Invariant, TilesInv, TilesThere, SeededIn
<1> QED
  BY <1>1, InvariantHolds, PTL

-----------------------------------------------------------------------------
(* The layer: its transactions are the operations of the time index *)

\* The time index of Target: what is committed, and what the open transaction makes of it.
Index == INSTANCE TimeIndex WITH browses <- Target.browses, times <- Target.times

\* No process is killed by this step.
Uninterrupted == "crash" \in faults' \/ "cut" \in faults' => faults' = faults

\* FailReplace is not needed: what it commits early are surplus entries, of which a
\* sound table has none, and Undo leaves the rows as they are.
WholeOperation == \E b \in Catalog : Index!Ingest(b) \/ Index!Replace(b) \/ Index!Delete(b)

\* Nothing that was read before a transaction began has been changed meanwhile.
ReadsHold == seen' \cap {"stale", "early"} = {}

IndexStep == Uninterrupted /\ ReadsHold /\ layer' = layer => WholeOperation

\* The index of Target is made from the same definitions.
LEMMA IndexOperators ==
  /\ \A T, o, B : Index!TimesAfterRemove(T, o, B) = TimesAfterRemove(T, o, B)
  /\ \A T, b : Index!TimesAfterCreate(T, b) = TimesAfterCreate(T, b)
<1>1. \A S, a : Index!Overlapping(S, a) = Overlapping(S, a)
  BY DEF Index!Overlapping, Overlapping, Index!Overlaps, Overlaps, Index!StrictlyOverlaps,
       StrictlyOverlaps, Index!IsInstant, IsInstant, Index!Meets, Meets
<1>2. \A S : Index!Hull(S) = Hull(S)
  BY Zenon DEF Index!Hull, Hull, Index!IsHull, IsHull, Index!Span, Span, Index!Seconds, Seconds,
       Index!Columns, Columns
<1>3. \A A : Index!Groups(A) = Groups(A)
  BY Zenon DEF Index!Groups, Groups, Index!GroupOf, GroupOf, Index!Connected, Connected,
       Index!Bridged, Bridged, Index!Seconds, Seconds
<1>4. \A T, o : Index!Pruned(T, o) = Pruned(T, o)
  BY <1>1 DEF Index!Pruned, Pruned, Index!Kept, Kept, Index!SpansTimeOf, SpansTimeOf
<1>5. \A q, B : Index!Split(q, B) = Split(q, B)
  BY <1>1, <1>2, <1>3 DEF Index!Split, Split, Index!Areas, Areas
<1>6. \A T, o, B : Index!TimesAfterRemove(T, o, B) = TimesAfterRemove(T, o, B)
  BY <1>1, <1>4, <1>5 DEF Index!TimesAfterRemove, TimesAfterRemove
<1>7. \A T, b : Index!TimesAfterCreate(T, b) = TimesAfterCreate(T, b)
  BY <1>1, <1>2 DEF Index!TimesAfterCreate, TimesAfterCreate
<1> QED
  BY <1>6, <1>7

LEMMA RemoveIsDelete ==
  ASSUME Basic, Rows, NEW p \in Proc, RemoveBrowse(p), ReadsHold
  PROVE  WholeOperation
<1>0. seen \cap {"stale", "early"} = {}
  BY RemoveBasic DEF ReadsHold
<1>1. PICK o \in cmd[p].todo : \E m \in Removals(Target.times, Target.times, o, Target.browses \ {o}) :
        /\ o \in Target.browses
        /\ Target'.browses = Target.browses \ {o} /\ Target'.times = m.times
  BY <1>0, RemoveEffect
<1>2. PICK m \in Removals(Target.times, Target.times, o, Target.browses \ {o}) :
        /\ o \in Target.browses
        /\ Target'.browses = Target.browses \ {o} /\ Target'.times = m.times
  BY <1>1
<1>3. Target.times \in SUBSET Span /\ Target.browses \in SUBSET Catalog /\ o \in Catalog
  BY <1>2, TargetTyping DEF RowsType
<1>4. m.times \in TimesAfterRemove(Target.times, o, Target.browses \ {o})
  BY <1>2, <1>3, RemovalsTyping
<1>5. Index!Delete(o)
  <2>1. Index!TimesAfterRemove(Target.times, o, Target'.browses)
          = TimesAfterRemove(Target.times, o, Target.browses \ {o})
    BY <1>2, IndexOperators
  <2> QED
    BY <1>2, <1>4, <2>1 DEF Index!Delete
<1> QED
  BY <1>3, <1>5 DEF WholeOperation

LEMMA WriteIsIngest ==
  ASSUME Basic, Rows, NEW p \in Proc, Write(p), ReadsHold
  PROVE  WholeOperation
<1>1. PICK m \in BeforeWrite(p) :
        /\ Target'.browses = (browses \ {cmd[p].old}) \cup {cmd[p].now}
        /\ Target'.times = TimesAfterCreate(m.times, cmd[p].now)
  BY WriteEffect DEF ReadsHold
<1>2. /\ cmd[p].at = "write" /\ writer = None /\ LookupHolds(p)
      /\ cmd[p].old # None => cmd[p].old \in browses /\ cmd[p].old.name = cmd[p].now.name
  BY WriteBasic, WriteListed DEF ReadsHold
<1>3. writer = None
  BY <1>2
<1>4. Target.browses = browses /\ Target.times = times
  BY <1>3, NoWriterTarget
<1>5. PICK b \in Catalog : b = cmd[p].now
  BY <1>2 DEF Basic, Control, StepsOf
<1>6. \A T : Index!TimesAfterCreate(T, b) = TimesAfterCreate(T, b)
  BY IndexOperators
<1>7. CASE cmd[p].old = None
  <2>1. Named(browses, b.name) = {}
    BY <1>2, <1>5, <1>7 DEF LookupHolds
  <2>2. None \notin browses
    BY LayerDataAssumption DEF Basic, Types
  <2>3. m.times = times
    BY <1>1, <1>7 DEF BeforeWrite
  <2>4. Index!Ingest(b)
    BY <1>1, <1>4, <1>5, <1>6, <1>7, <2>1, <2>2, <2>3 DEF Index!Ingest, Named
  <2> QED
    BY <2>4 DEF WholeOperation
<1>8. CASE cmd[p].old # None
  <2>1. PICK o : o = cmd[p].old
    OBVIOUS
  <2>2. o \in browses /\ o.name = b.name
    BY <1>2, <1>5, <1>8, <2>1
  <2>3. m.times \in TimesAfterRemove(times, o, browses \ {o})
    <3>1. m \in Removals(times, times, o, browses \ {o})
      BY <1>1, <1>8, <2>1 DEF BeforeWrite
    <3>2. times \in SUBSET Span /\ browses \in SUBSET Catalog /\ o \in Catalog
      BY <2>2 DEF Basic, Types
    <3> QED
      BY <3>1, <3>2, RemovalsTyping
  <2>4. Index!TimesAfterRemove(times, o, browses \ {o}) = TimesAfterRemove(times, o, browses \ {o})
    BY IndexOperators
  <2>5. Index!Replace(b)
    BY <1>1, <1>4, <1>5, <1>6, <2>1, <2>2, <2>3, <2>4 DEF Index!Replace
  <2> QED
    BY <2>5 DEF WholeOperation
<1> QED
  BY <1>7, <1>8

LEMMA IndexStepNext ==
  ASSUME Basic, Rows, [LayerNext]_allvars
  PROVE  [IndexStep]_Index!vars
<1> SUFFICES ASSUME Uninterrupted, ReadsHold, layer' = layer, ~(UNCHANGED Index!vars) PROVE WholeOperation
  BY DEF IndexStep
<1>1. Target' # Target
  BY DEF Index!vars
<1>2. PICK p \in Proc : RemoveBrowse(p) \/ Write(p) \/ DropLayer(p) \/ Kill(p) \/ ListedGone(p)
  BY <1>1, TargetStays
<1>3. ~Kill(p)
  <2> SUFFICES ASSUME Kill(p) PROVE FALSE
    OBVIOUS
  <2> QED
    BY KillBasic DEF Uninterrupted
<1>4. ~DropLayer(p)
  <2> SUFFICES ASSUME DropLayer(p) PROVE FALSE
    OBVIOUS
  <2>1. /\ UNCHANGED writer /\ writer = None /\ browses' = {} /\ times' = {} /\ layer' = "gone"
    BY DropLayerBasic
  <2>2. browses = {} /\ times = {}
    BY <2>1 DEF Basic, Control
  <2>3. Target.browses = browses /\ Target.times = times
    BY <2>1, NoWriterTarget
  <2>4. Target'.browses = browses' /\ Target'.times = times'
    BY <2>1 DEF Target, Committed
  <2> QED
    BY <2>1, <2>2, <2>3, <2>4 DEF Index!vars
<1>5. ~ListedGone(p)
  <2> SUFFICES ASSUME ListedGone(p) PROVE FALSE
    OBVIOUS
  <2>1. "stale" \notin seen
    BY HistoryGrows DEF ReadsHold
  <2> QED
    BY <1>1, <2>1, ListedGoneEarly
<1> QED
  BY <1>2, <1>3, <1>4, <1>5, RemoveIsDelete, WriteIsIngest

\* Whatever processes do at the same time, step by step, each step is for the rows
\* (what is committed, with what the open transaction has written) an operation of
\* TimeIndex, an ingestion, a replacement or a deletion as a whole, or nothing: the
\* write lock of the database makes remove_browse and create_browse work on the
\* table they leave behind.  Excepted are histories in which what a command had read
\* before it got that lock was changed (the list of ngeo_delete, the browse that an
\* ingestion replaces, the Time table between two commits), a process that is
\* killed, which takes what it has written back, and the layer that is dropped.
THEOREM TransactionsAreOperations == LayerSpec => [][IndexStep]_Index!vars
<1>1. Basic /\ Rows /\ [LayerNext]_allvars => [IndexStep]_Index!vars
  BY IndexStepNext
<1> QED
  BY <1>1, RowsHold, PTL DEF LayerSpec

=============================================================================
