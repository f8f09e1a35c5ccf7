------------------------------ MODULE TimeIndex ------------------------------
(***************************************************************************)
(* One browse layer as two databases see it: the browses of the Django     *)
(* database and the Time entries of the MapCache SQLite database, which    *)
(* tell the web map cache for which time spans and extents there is        *)
(* imagery.  A browse may be ingested, replaced or merged under the same   *)
(* identifier, and deleted; every one of these operations recomputes the   *)
(* Time entries it affects.  An operation is one step here: it runs in one *)
(* transaction of each database (see the README for what is left to the    *)
(* modules that split it).                                                 *)
(*                                                                         *)
(* Source: ngeo_browse_server/control/queries.py,                          *)
(*         ngeo_browse_server/control/ingest/__init__.py,                  *)
(*         ngeo_browse_server/control/management/commands/ngeo_delete.py   *)
(***************************************************************************)
EXTENDS TimeSpans

CONSTANTS Name,       \* browse identifiers (or generated coverage ids)
          Catalog     \* the browses that reports may carry

\* A browse is a span and the identifier it is registered under.
Browse == [name : Name, area : Span]

ASSUME CatalogAssumption == Catalog \subseteq Browse

VARIABLES browses,    \* rows of config.models.Browse of the layer
          times       \* rows of mapcache.models.Time of the layer's Source

vars == <<browses, times>>

Areas(B) == { b.area : b \in B }

-----------------------------------------------------------------------------
(* create_browse: the new browse and the Time entries overlapping it become *)
(* one entry.                                                               *)

\* Fault: the entries merged into the new one are not deleted.
TimesAfterCreateKeepingMerged(T, b) ==
  T \cup { Hull(Overlapping(T, b.area) \cup {b.area}) }

TimesAfterCreate(T, b) ==
  LET merged == Overlapping(T, b.area)
  IN  (T \ merged) \cup { Hull(merged \cup {b.area}) }

(***************************************************************************)
(* remove_browse.  One entry should overlap the removed browse; if there   *)
(* are more, the code goes through them in the order of the query and      *)
(* keeps one: the first, unless a later one spans all of the one kept so   *)
(* far.  The others are deleted and that deletion is committed.  The order *)
(* of the rows is not defined, so Kept has every entry that may survive.   *)
(***************************************************************************)
SpansTimeOf(t, u) == t.start =< u.start /\ t.end >= u.end

Kept(matched) == { t \in matched : \A u \in matched : SpansTimeOf(u, t) => SpansTimeOf(t, u) }

Pruned(T, o) ==
  LET matched == Overlapping(T, o.area)
  IN  { [rest |-> T \ matched, kept |-> t] : t \in Kept(matched) }

\* Faults: browses at an instant are not looked for; browses that only touch
\* the entry are; the browses left are not divided into groups.
SplitWithoutInstants(p, B) ==
  p.rest \cup { Hull(g) : g \in Groups({ a \in Areas(B) : StrictlyOverlaps(a, p.kept) }) }

SplitWithTouching(p, B) ==
  p.rest \cup { Hull(g) : g \in Groups({ a \in Areas(B) : Meets(a, p.kept) }) }

SplitUngrouped(p, B) ==
  LET left == Overlapping(Areas(B), p.kept)
  IN  p.rest \cup { Hull(g) : g \in {left} \ {{}} }

\* The entry that is kept makes way for one entry per group of the browses
\* left in its time span.
Split(p, B) ==
  p.rest \cup { Hull(g) : g \in Groups(Overlapping(Areas(B), p.kept)) }

\* The possible contents of the Time table once o is gone and B is left.
TimesAfterRemove(T, o, B) ==
  IF Overlapping(T, o.area) = {} THEN {T} ELSE { Split(p, B) : p \in Pruned(T, o) }

-----------------------------------------------------------------------------
Init == browses = {} /\ times = {}

\* Fault: a browse is created without a look for its identifier.
IngestUnchecked(b) ==
  /\ browses' = browses \cup {b}
  /\ times' = TimesAfterCreate(times, b)

\* ingest_browse of a browse that is not registered yet.
Ingest(b) ==
  /\ \A o \in browses : o.name # b.name
  /\ browses' = browses \cup {b}
  /\ times' = TimesAfterCreate(times, b)

\* ingest_browse of a registered browse, strategies "replace" and "merge":
\* remove_browse and create_browse in one transaction.
Replace(b) ==
  \E o \in browses :
    /\ o.name = b.name
    /\ browses' = (browses \ {o}) \cup {b}
    /\ \E T \in TimesAfterRemove(times, o, browses \ {o}) : times' = TimesAfterCreate(T, b)

\* The same, failing after remove_browse: both databases are rolled back, but
\* the deletion of surplus entries has been committed by then.
FailReplace(b) ==
  \E o \in browses :
    /\ o.name = b.name
    /\ \E p \in Pruned(times, o) : times' = p.rest \cup {p.kept}
    /\ UNCHANGED browses

\* The command ngeo_delete, for one browse.
Delete(o) ==
  /\ o \in browses
  /\ browses' = browses \ {o}
  /\ times' \in TimesAfterRemove(times, o, browses')

Next ==
  \E b \in Catalog : Ingest(b) \/ Replace(b) \/ FailReplace(b) \/ Delete(b)

Spec == Init /\ [][Next]_vars

\* A layer that browses are only added to.
IngestSpec == Init /\ [][\E b \in Catalog : Ingest(b)]_vars

-----------------------------------------------------------------------------
(* Properties *)

\* Both tables hold well-formed rows and no identifier is registered twice.
TypeOK ==
  /\ browses \subseteq Catalog
  /\ times \subseteq Span
  /\ \A b, c \in browses : b.name = c.name => b = c

Disjoint(T) == \A t, u \in T : t # u => ~Overlaps(t, u)

Covers(T, B) == \A b \in B : \E t \in T : Within(b.area, t)

Inside(B, t) == { a \in Areas(B) : Within(a, t) }

Exact(T, B) ==
  \A t \in T : /\ IsHull(t, Inside(B, t))
               /\ \A a, c \in Inside(B, t) : Connected(a, c, Inside(B, t))

\* No two Time entries overlap: whatever the order of ingests, replacements
\* and deletions, a moment with imagery leads MapCache to one entry
\* (create_browse merges, remove_browse splits).
TimesDisjoint == Disjoint(times)

\* Every registered browse is inside a Time entry, in time and in extent:
\* nothing that was ingested is invisible to the map cache.
BrowsesCovered == Covers(times, browses)

\* Every Time entry is exactly the hull of one connected group of browses: no
\* entry outlives its browses, is too large, or bridges a gap.
TimesExact == Exact(times, browses)

\* remove_browse finds one Time entry for any browse it may be asked to
\* remove: the cases it warns about do not happen.
OneTimePerBrowse ==
  \A b \in browses : \E t \in times : Overlapping(times, b.area) = {t}

\* Deleting a browse never makes an entry appear, or grow, beyond the entries
\* there were.
DeleteShrinks ==
  [][\A b \in Catalog : Delete(b) => \A t \in times' : \E u \in times : Within(t, u)]_vars

\* Intervals that only touch are different entries (the rule that
\* ngeo_check_overlapping_time documents for the whole server): every second
\* strictly inside an entry is strictly inside one of its browses, or is the
\* time of an instant.
ContinuousNotMerged ==
  \A t \in times : \A s \in t.start + 1 .. t.end - 1 :
    \E a \in Inside(browses, t) : (a.start < s /\ s < a.end) \/ (a.start = s /\ a.end = s)

-----------------------------------------------------------------------------
\* No browse of the catalog is an instant on the border of an interval of the
\* catalog.  A layer of intervals only has this, so has a layer of instants
\* only (shorten_ingested_interval = 100).
NoBorderInstants ==
  \A b, c \in Catalog :
    IsInstant(b.area) /\ ~IsInstant(c.area)
      => b.area.start # c.area.start /\ b.area.start # c.area.end

=============================================================================
