------------------------------ MODULE BrowseArea ------------------------------
(***************************************************************************)
(* Where a browse lies in longitude and time.  A footprint or a grid that  *)
(* crosses the date line is unwrapped, so that it may reach beyond the     *)
(* eastern bound, and is seeded in two parts; the time of the browse may   *)
(* be shortened to its middle.                                             *)
(*                                                                         *)
(* Longitudes are integers around 0, times are in units of which there are *)
(* Second in a second.                                                     *)
(*                                                                         *)
(* Source: ngeo_browse_server/control/ingest/__init__.py,                  *)
(*         ngeo_browse_server/mapcache/tasks.py                            *)
(***************************************************************************)
EXTENDS Integers, Sequences, SequencesExt

CONSTANTS East,       \* the eastern bound; half of the globe
          Second,
          MaxNodes,   \* coordinates of a browse (bound of the model)
          Times       \* start and end times

West == -East
Full == 2 * East

ASSUME BrowseAreaAssumption ==
  /\ East \in Nat \ {0} /\ Second \in Nat \ {0}
  /\ MaxNodes \in Nat /\ Times \subseteq Nat

VARIABLES browse,     \* what the report says
          placed,     \* the lines of coordinates that are used, {} if it is refused
          seeds,      \* extents that are seeded, {} if they are refused
          slice,      \* the time of the report
          start_time, end_time, \* that of the browse
          areastep

areavars == <<browse, placed, seeds, slice, start_time, end_time, areastep>>

AbsOf(x) == IF x < 0 THEN -x ELSE x
Sign(x) == IF x < 0 THEN -1 ELSE 1
Leftmost(lines) == Min(UNION { ToSet(l) : l \in ToSet(lines) })
Rightmost(lines) == Max(UNION { ToSet(l) : l \in ToSet(lines) })

Shifted(line, by) == [ i \in DOMAIN line |-> line[i] + by ]

CrossesDateline(line) ==
  \E i \in 2 .. Len(line) : AbsOf(line[i - 1] - line[i]) > East

\* The loop of _unwrap_coord_list.
Continue(done, x) ==
  LET x_last == Last(done)
  IN Append(done, IF AbsOf(x_last - x) > East THEN x - Full * Sign(x - x_last) ELSE x)
Unwrapped(line) == FoldLeft(Continue, << line[1] >>, Tail(line))

\* _unwrap_coord_list; {} is "Footprint too huge to unwrap."
UnwrapCoordList(line) ==
  LET u == Unwrapped(line)
      minx == Leftmost(<<u>>)
      maxx == Rightmost(<<u>>)
  IN IF maxx > East + Full /\ minx >= East THEN { Shifted(u, -Full) }
     ELSE IF minx < West /\ maxx =< East THEN { Shifted(u, Full) }
     ELSE IF maxx > East + Full \/ minx < West THEN {}
     ELSE { u }

\* A footprint must end where it begins, up to turns around the globe.
Footprint(line) ==
  { l \in IF CrossesDateline(line) THEN UnwrapCoordList(line) ELSE { line } :
      l[1] % Full = Last(l) % Full }

\* The next line of a grid is moved next to the one before, by the sign of each longitude.
JoinLine(done, line) ==
  Append(done, IF AbsOf(Last(done)[1] - line[1]) > East
                 THEN [ i \in DOMAIN line |-> line[i] - Full * Sign(line[i]) ]
                 ELSE line)

Join(lines) ==
  { l \in { FoldLeft(JoinLine, << lines[1] >>, Tail(lines)) } :
      Rightmost(l) =< East + Full /\ Leftmost(l) >= West }

\* All lines are unwrapped if one of them crosses the date line.
UnwrapGrid(lines) ==
  LET own == [ i \in DOMAIN lines |-> UnwrapCoordList(lines[i]) ]
  IN IF \A i \in DOMAIN lines : ~CrossesDateline(lines[i]) THEN { lines }
     ELSE IF \E i \in DOMAIN lines : own[i] = {} THEN {}
     ELSE Join([ i \in DOMAIN lines |-> CHOOSE l \in own[i] : TRUE ])

\* The nodes are counted, and the columns on an average of the lines.
Nodes(lines) == FoldLeft(LAMBDA n, l : n + Len(l), 0, lines)
Grid(b) ==
  { l \in UnwrapGrid(b.lines) :
      Len(b.lines) = b.rows /\ Nodes(b.lines) \div Len(b.lines) = b.cols }

\* _georef_from_parsed
Place ==
  /\ areastep = "given"
  /\ placed' = CASE browse.geo_type = "rectifiedBrowse" -> { browse.lines }
                 [] browse.geo_type = "footprintBrowse" ->
                      { << l >> : l \in Footprint(browse.lines[1]) }
                 [] browse.geo_type = "regularGridBrowse" -> Grid(browse)
  /\ areastep' = "placed"
  /\ UNCHANGED <<browse, seeds, slice, start_time, end_time>>

RoundToSecond(t) == ((t + Second \div 2) \div Second) * Second

\* Times of MapCache are whole seconds.  The end is not computed if the middle is wanted.
Shorten ==
  /\ areastep = "placed" /\ placed # {}
  /\ LET delta == ((slice.end - slice.start) * slice.percent) \div 200
     IN IF slice.percent = 0
          THEN UNCHANGED <<start_time, end_time>>
          ELSE /\ start_time' = RoundToSecond(slice.start + delta)
               /\ end_time' = IF slice.percent = 100 THEN start_time'
                              ELSE RoundToSecond(slice.end - delta)
  /\ areastep' = "timed"
  /\ UNCHANGED <<browse, placed, seeds, slice>>

\* Fault: what is beyond the bound is not brought back.
PartsBeyond(minx, maxx) ==
  IF maxx > East THEN { <<minx, East>>, <<East, maxx>> } ELSE { <<minx, maxx>> }

\* The calls of the seeder.
Parts(minx, maxx) ==
  IF maxx > East THEN { <<minx, East>>, <<West, maxx - Full>> } ELSE { <<minx, maxx>> }

\* seed_mapcache; an extent out of bounds is an "Invalid extent".
SeedParts ==
  /\ areastep = "timed"
  /\ LET minx == Leftmost(CHOOSE l \in placed : TRUE)
         maxx == Rightmost(CHOOSE l \in placed : TRUE)
     IN seeds' = IF minx < West \/ minx > East \/ maxx < West \/ maxx > East + Full
                   THEN {} ELSE Parts(minx, maxx)
  /\ areastep' = "seeded"
  /\ UNCHANGED <<browse, placed, slice, start_time, end_time>>

AreaDone ==
  /\ areastep = "seeded" \/ (areastep = "placed" /\ placed = {})
  /\ UNCHANGED areavars

\* What reports say: the bounds of an image, a footprint, or a grid that may have fewer
\* lines than it tells.
GivenExtent == [geo_type : {"rectifiedBrowse"}, lines : [1 .. 1 -> [1 .. 2 -> West .. East + Full]],
                rows : {1}, cols : {2}]
GivenFootprint(n) == [geo_type : {"footprintBrowse"}, lines : [1 .. 1 -> [1 .. n -> West .. East]],
                      rows : {1}, cols : {n}]
GivenGrid(r, c) == [geo_type : {"regularGridBrowse"}, lines : [1 .. r -> [1 .. c -> West .. East]],
                    rows : IF c = 2 THEN {r, 3} ELSE {r}, cols : {c}]
GivenSlice == { s \in [start : Times, end : Times, percent : {0, 25, 50, 100}] : s.start =< s.end }
At(t) == [start |-> t, end |-> t, percent |-> 0]

AreaInit ==
  /\ \/ /\ browse \in GivenExtent /\ browse.lines[1][1] =< browse.lines[1][2]
        /\ slice \in IF browse.lines[1] = <<0, 0>> THEN GivenSlice ELSE { At(0) }
     \/ /\ \E n \in 3 .. MaxNodes : browse \in GivenFootprint(n)
        /\ slice = At(0)
     \/ /\ \E r, c \in 2 .. 3 : r * c =< MaxNodes /\ browse \in GivenGrid(r, c)
        /\ slice = At(0)
  /\ start_time = slice.start /\ end_time = slice.end
  /\ placed = {} /\ seeds = {} /\ areastep = "given"

AreaNext == Place \/ Shorten \/ SeedParts \/ AreaDone

AreaSpec == AreaInit /\ [][AreaNext]_areavars

-----------------------------------------------------------------------------
(* Properties *)

\* The reference: every step is the short way around the globe.
ShortWay(from, to) ==
  CHOOSE d \in -East .. East : (from + d - to) % Full = 0
Course(line) ==
  FoldLeft(LAMBDA c, i : Append(c, Last(c) + ShortWay(line[i - 1], line[i])),
           << line[1] >>, [ k \in 1 .. Len(line) - 1 |-> k + 1 ])
FirstColumn(lines) == [ i \in DOMAIN lines |-> lines[i][1] ]
Courses(lines) ==
  [ i \in DOMAIN lines |->
      Shifted(Course(lines[i]), Course(FirstColumn(lines))[i] - lines[i][1]) ]

\* No two neighbours are just half the globe apart, where both ways are as short, and
\* the browse does not go around the globe.
Clear(line) == \A i \in 2 .. Len(line) : AbsOf(line[i] - line[i - 1]) % Full # East
Sensible(b) ==
  IF b.geo_type = "rectifiedBrowse"
    THEN Leftmost(b.lines) =< East
    ELSE /\ \A i \in DOMAIN b.lines : Clear(b.lines[i])
         /\ Clear(FirstColumn(b.lines))
         /\ Rightmost(Courses(b.lines)) - Leftmost(Courses(b.lines)) < Full

Reference(b) == IF b.geo_type = "rectifiedBrowse" THEN b.lines ELSE Courses(b.lines)

\* The same lines, up to turns around the globe.
SamePlace(lines, reference) ==
  \E k \in -2 .. 2 : lines = [ i \in DOMAIN reference |-> Shifted(reference[i], k * Full) ]

Around(lo, hi) == { x % Full : x \in lo .. hi }

\* Two ways in which a grid goes wrong: if only the step from a line to the next crosses
\* the date line, nothing is unwrapped; and if a line does, another may be moved beyond
\* the bounds.
Split(b) ==
  /\ \A i \in DOMAIN b.lines : ~CrossesDateline(b.lines[i])
  /\ CrossesDateline(FirstColumn(b.lines))
Misplaced(b) == \E i \in DOMAIN b.lines : CrossesDateline(b.lines[i])

\* A browse keeps its shape across the date line and is seeded just where it is
\* (ingest/__init__.py:885, tasks.py:82); and it is not refused, if it ends where it began
\* or has the nodes that it says.
AreaSeeded ==
  /\ areastep = "seeded" /\ Sensible(browse) /\ ~Split(browse) =>
       \A l \in placed :
         /\ SamePlace(l, Reference(browse))
         /\ seeds # {}
         /\ \A s \in seeds : West =< s[1] /\ s[1] =< s[2] /\ s[2] =< East
         /\ UNION { Around(s[1], s[2]) : s \in seeds } = Around(Leftmost(l), Rightmost(l))
  /\ areastep = "placed" /\ placed = {} /\ Sensible(browse) =>
       IF browse.geo_type = "footprintBrowse"
         THEN browse.lines[1][1] % Full # Last(browse.lines[1]) % Full
         ELSE Misplaced(browse) \/ browse.rows # Len(browse.lines) \/ browse.cols # Len(browse.lines[1])

\* A shortened time is an interval of whole seconds in the middle of the time given, up to
\* half a second, or an instant (ingest/__init__.py:363).
ShortenedInside ==
  areastep = "timed" /\ slice.percent # 0 =>
    /\ start_time =< end_time
    /\ start_time % Second = 0 /\ end_time % Second = 0
    /\ 2 * start_time >= 2 * slice.start - Second /\ 2 * end_time =< 2 * slice.end + Second
    /\ AbsOf((start_time + end_time) - (slice.start + slice.end)) =< Second

\* A browse is registered and seeded where and when the report says.
BrowsePlaced == AreaSeeded /\ ShortenedInside
===============================================================================
