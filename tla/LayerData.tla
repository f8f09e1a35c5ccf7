------------------------------ MODULE LayerData ------------------------------
(***************************************************************************)
(* What a browse layer consists of besides its rows: the image files, the  *)
(* tiles of the map cache and the packages it is exported to.  Commands    *)
(* change the two databases in a transaction, then the files, then the     *)
(* tiles; several of them run at the same time, and MapCache answers       *)
(* clients while they do.                                                  *)
(*                                                                         *)
(* The main database is the SpatiaLite one of the project template, which  *)
(* has one writer at a time: remove_browse and create_browse write to it   *)
(* before they look at the Time table (TimeRace has PostGIS, which lets    *)
(* transactions overlap).  A tile stands for all tiles of a time span and  *)
(* a range of zoom levels; what it shows is the set of browses that were   *)
(* registered in the span when it was made.                                *)
(*                                                                         *)
(* Source: ngeo_browse_server/control/queries.py,                          *)
(*         ngeo_browse_server/mapcache/tasks.py, .../mapcache/tileset.py,  *)
(*         .../management/commands/ngeo_delete.py, ngeo_purge.py,          *)
(*         ngeo_reseed_browselayer.py, ngeo_export.py, ngeo_import.py,     *)
(*         ngeo_browse_server/control/migration/imp.py, package.py         *)
(***************************************************************************)
EXTENDS TimeIndex, FiniteSets

CONSTANTS Proc,         \* processes that run commands
          Upload,       \* names ingestion makes up for images (bound of the model)
          Windows,      \* values of --start and --end, None where it is not given
          Operations,   \* the commands that are run
          MaxCommands,  \* how many requests, commands and faults there are (bound)
          MaxTogether,  \* how many of the first ones may be under way at once (bound)
          Starts,       \* the browses the layer may have at first
          Faults,       \* kinds of fault that may happen, one at most
          None

ASSUME LayerDataAssumption ==
  /\ IsFiniteSet(Upload) /\ Upload \cap Name = {}
  /\ MaxCommands \in Nat /\ MaxTogether \in Nat
  /\ Starts \subseteq SUBSET Catalog
  /\ \A B \in Starts : \A b, c \in B : b.name = c.name => b = c
  /\ None \notin Catalog /\ None \notin Name \cup Upload /\ None \notin Proc
  /\ None \notin Seconds /\ None \notin [Name -> Name \cup Upload \cup {None}]
  /\ Windows \subseteq [start : Seconds \cup {None}, end : Seconds \cup {None}]
  /\ Operations \subseteq {"ingest", "delete", "purge", "reseed", "export", "import"}
  /\ Faults \subseteq {"crash", "cut", "step", "unseed", "seed"}

\* An import stores an image under the name it has in the package, that of its
\* coverage, whereas an ingestion makes up a name (uuid).
Path == Name \cup Upload

VARIABLES
  located,    \* the path that the coverage of each registered browse refers to
  disk,       \* the image each file of the layer's directory holds
  tiles,      \* the tileset of the layer
  layer,      \* "served" or "gone"
  seeding,    \* are tiles made by seeding only (disable_seeding_ingestion unset)?
  package,    \* the archive an export has written
  writer,     \* the process whose transaction has written
  cmd,        \* what each process does
  commands,   \* how many requests and commands there were
  faults,     \* history: the fault that was injected
  seen        \* history: hazardous coincidences (see Properties)

rows == <<browses, times, located>>
history == <<faults, seen>>
fixed == <<seeding>>
allvars == <<rows, disk, tiles, layer, fixed, package, writer, cmd, commands, history>>

-----------------------------------------------------------------------------
(* Tiles *)

\* The TIME dimension under which MapCache keeps the tiles of a Time entry.
Dim(a) == [start |-> a.start, end |-> a.end]
Dims(T) == { Dim(t) : t \in T }

\* Levels up to highest_map_level, which are seeded, and those from there to
\* max_cached_zoom, which only a client can cause to be cached.
Levels == {"seeded", "deep"}

\* What the map server draws for a time span: what is committed in it.
Rendered(d) == { b \in browses : Overlaps(b.area, d) }

Tile(d, l, shown) == [dim |-> d, level |-> l, shows |-> shown]

\* Fault: what was cached on demand beyond the levels that are seeded stays.
WithoutLowOnly(T, D) == { t \in T : t.dim \notin D \/ t.level = "deep" }

\* seed_mapcache with delete: what a time span has up to max_cached_zoom goes.
Without(T, D) == { t \in T : t.dim \notin D }

\* The tiles of a time span, at all levels (get_tiles), in the tileset or an archive.
TilesOf(T, d) == { t \in T : t.dim = d }

\* seed_mapcache; force replaces the tiles there are.
Seeded(T, d, force) ==
  IF ~force /\ \E t \in T : t.dim = d /\ t.level = "seeded"
    THEN T
    ELSE { t \in T : t.dim # d \/ t.level # "seeded" } \cup {Tile(d, "seeded", Rendered(d))}

-----------------------------------------------------------------------------
(* Commands *)

Always == [start |-> None, end |-> None]   \* no --start and no --end

Idle == [op |-> "idle", at |-> "idle", todo |-> {}, now |-> None, old |-> None,
         window |-> Always, ids |-> FALSE, found |-> None, view |-> None, rows |-> None,
         remove |-> {}, areas |-> {}, force |-> TRUE]

Begun(op, at) == [Idle EXCEPT !.op = op, !.at = at]

Committed == [browses |-> browses, times |-> times, located |-> located]

Set(p, c) == cmd' = [cmd EXCEPT ![p] = c]
Go(p, at) == Set(p, [cmd[p] EXCEPT !.at = at])
At(p, op, at) == cmd[p].op \in op /\ cmd[p].at = at

Fault(kind) ==
  /\ kind \in Faults /\ faults = {} /\ commands < MaxCommands
  /\ faults' = {kind}
See(kinds) == seen' = seen \cup kinds

\* A transaction of another process has changed something that is not committed.
Busy(p) == writer \notin {None, p}

\* So that the first change of a process has to wait: the other one has changed
\* something, or it is about to change the Time table it has read (ReadTimesEarly).
Locked(p) == Busy(p) \/ \E q \in Proc \ {p} : cmd[q].view # None

MayStart(p, op) ==
  /\ op \in Operations /\ cmd[p] = Idle /\ layer # "gone"
  /\ commands + Cardinality(faults) < MaxCommands
  /\ (\A q \in Proc : cmd[q] = Idle) \/ commands < MaxTogether
  /\ commands' = commands + 1

\* get_existing_browse
LookedUp(b) == IF \E o \in browses : o.name = b.name
                 THEN CHOOSE o \in browses : o.name = b.name ELSE None

\* ingest_browse_report with one browse; it looks for the browse it replaces
\* before it writes anything.
StartIngest(p) ==
  /\ MayStart(p, "ingest")
  /\ \E b \in Catalog :
       Set(p, [Begun("ingest", "write") EXCEPT !.now = b,
                 !.old = LookedUp(b), !.found = located])
  /\ UNCHANGED <<rows, disk, tiles, layer, fixed, package, writer, history>>

\* Completely inside a time window, which may be open at one end.
Selected(d, w) == /\ w.start # None => d.start >= w.start
                  /\ w.end # None => d.end =< w.end
InWindow(w) == { b \in browses : Selected(b.area, w) }

\* ngeo_delete takes a list of identifiers, beside which a time window does not
\* count, or what is inside of one.  The query does not wait for a transaction of
\* another process and keeps none from committing.
StartDelete(p) ==
  /\ MayStart(p, "delete")
  /\ \E ids \in BOOLEAN, w \in Windows \cup {Always} :
     \E D \in IF ids THEN SUBSET browses ELSE {InWindow(w)} :
       /\ D # {}
       /\ Set(p, [Begun("delete", "list") EXCEPT !.todo = D, !.found = located,
                    !.ids = ids, !.window = w])
       /\ See(IF ids /\ w # Always THEN {"mixed"} ELSE {})
  /\ UNCHANGED <<rows, disk, tiles, layer, fixed, package, writer, faults>>

StartPurge(p) ==
  /\ MayStart(p, "purge")
  /\ Set(p, IF browses = {} THEN Begun("purge", "files")
              ELSE [Begun("purge", "list") EXCEPT !.todo = browses, !.found = located])
  /\ UNCHANGED <<rows, disk, tiles, layer, fixed, package, writer, history>>

\* ngeo_reseed_browselayer, with or without --force, --start and --end.
StartReseed(p) ==
  /\ MayStart(p, "reseed")
  /\ \E force \in BOOLEAN, w \in Windows \cup {Always} :
       Set(p, [Begun("reseed", "seed") EXCEPT !.force = force,
                 !.areas = { d \in Dims(times) : Selected(d, w) }])
  /\ UNCHANGED <<rows, disk, tiles, layer, fixed, package, writer, history>>

-----------------------------------------------------------------------------
(* Transactions.  cmd[p].rows is what the databases hold for the process   *)
(* that writes; the others and the map server see what is committed.  A    *)
(* process looks up and lists browses (cmd[p].old, todo, found) before its *)
(* first change makes it the writer: they may be stale by then.            *)

Named(B, n) == { b \in B : b.name = n }

\* What remove_browse makes of the Time table, the time spans it has un-seeded
\* and those it wants to be seeded.  V is the table as it has read it (T, unless
\* that was early): the entries to delete are deleted by their keys.
Removals(V, T, o, B) ==
  IF Overlapping(V, o.area) = {}
    THEN { [times |-> T, unseed |-> {}, areas |-> {}] }
    ELSE { [times |-> Split([rest |-> T \ Overlapping(V, o.area), kept |-> k.kept], B),
            unseed |-> {Dim(k.kept)},
            areas |-> Dims({ Hull(g) : g \in Groups(Overlapping(Areas(B), k.kept)) })] :
             k \in Pruned(V, o) }

\* create_browse likewise; times_qs.delete() evaluates the query again.
Creation(V, T, b) ==
  LET merged == Overlapping(V, b.area)
      hull == Hull(merged \cup {b.area})
  IN [times |-> (IF merged = {} THEN T ELSE T \ Overlapping(T, b.area)) \cup {hull},
      unseed |-> Dims(merged), hull |-> hull]

\* The Time table a process reads next.
Read(p, T) == IF cmd[p].view = None THEN T ELSE cmd[p].view

\* An ingestion or an import has committed the main database, so that the next
\* process may write there and read the Time table before that is committed; its
\* own changes of the Time table have to wait.
ReadTimesEarly(p) ==
  /\ At(p, {"ingest", "import"}, "write") \/ cmd[p].at = "list"
  /\ Busy(p) /\ At(writer, {"ingest", "import"}, "second")
  /\ \A q \in Proc : cmd[q].view = None
  /\ Set(p, [cmd[p] EXCEPT !.view = times])
  /\ See({"early"})
  /\ UNCHANGED <<rows, disk, tiles, layer, fixed, package, writer, commands, faults>>

\* Un-seeding does its work or, where that is only logged, fails.
Unseeds(D) ==
  \/ tiles' = Without(tiles, D) /\ UNCHANGED faults
  \/ D # {} /\ Fault("unseed") /\ UNCHANGED tiles

\* The list of ngeo_delete and ngeo_purge is what it would be now.
ListHolds(p) ==
  /\ \A o \in cmd[p].todo : o \in browses /\ located[o.name] = cmd[p].found[o.name]
  /\ cmd[p].op = "delete" /\ ~cmd[p].ids => InWindow(cmd[p].window) = cmd[p].todo

\* The first deletion waits for the lock of the main database.
LockRows(p) ==
  /\ cmd[p].at = "list" /\ ~Locked(p) /\ layer # "gone"
  /\ writer' = p
  /\ Set(p, [cmd[p] EXCEPT !.at = "remove", !.rows = Committed])
  /\ See(IF ListHolds(p) THEN {} ELSE {"stale"})
  /\ UNCHANGED <<rows, disk, tiles, layer, fixed, package, commands, faults>>

\* One round of the loop of ngeo_delete or ngeo_purge, in any order of the rows.
\* The path of the first image was read before the lock was taken.  A browse that
\* was replaced since it was listed goes with its coverage, as the coverage id is
\* the key of both, but the Times are searched by the time span it had.
RemoveBrowse(p) ==
  /\ At(p, {"delete", "purge"}, "remove")
  /\ \E o \in cmd[p].todo :
     LET r == cmd[p].rows
         left == r.browses \ Named(r.browses, o.name)
         paths == {r.located[o.name]}
                    \cup (IF cmd[p].found = None THEN {} ELSE {cmd[p].found[o.name]})
     IN \E m \in Removals(Read(p, r.times), r.times, o, left), f \in paths :
          /\ r.located[o.name] # None
          /\ IF cmd[p].op = "delete" THEN Unseeds(m.unseed) ELSE UNCHANGED <<tiles, faults>>
          /\ Set(p, [cmd[p] EXCEPT
                       !.todo = @ \ {o},
                       !.found = None, !.view = None,
                       !.rows = [browses |-> left, times |-> m.times,
                                 located |-> [r.located EXCEPT ![o.name] = None]],
                       !.remove = @ \cup {f},
                       !.areas = @ \cup m.areas])
  /\ UNCHANGED <<rows, disk, layer, fixed, package, writer, commands, seen>>

\* A listed browse has been deleted meanwhile: its coverage is not found, and the
\* exception rolls both databases back.
ListedGone(p) ==
  /\ \E o \in cmd[p].todo :
       \/ cmd[p].at = "list" /\ located[o.name] = None
       \/ At(p, {"delete", "purge"}, "remove") /\ cmd[p].rows.located[o.name] = None
  /\ Set(p, Idle)
  /\ writer' = IF writer = p THEN None ELSE writer
  /\ UNCHANGED <<rows, disk, tiles, layer, fixed, package, commands, history>>

\* Names that were not made up before.
NewNames == { u \in Upload :
  /\ disk[u] = None /\ \A n \in Name : located[n] # u
  /\ \A k \in Proc :
       u \notin cmd[k].remove /\ (cmd[k].found # None => \A n \in Name : cmd[k].found[n] # u) }

\* The output file of an ingestion or an import.
Output(p) == IF cmd[p].op = "import" THEN cmd[p].now.name ELSE CHOOSE u \in NewNames : TRUE

\* What is put there: the preprocessed image, or the one of the package.
NewImage(p) == IF cmd[p].op = "import" THEN package.images[cmd[p].now.name] ELSE cmd[p].now

\* Fault: that an identifier is registered meanwhile is not noticed.
LookupHalfChecked(p) ==
  cmd[p].old # None => Named(browses, cmd[p].now.name) # {}

\* There still is a browse to replace if one was found, and none if not: else a
\* coverage is missing, or the identifier is taken.
LookupHolds(p) ==
  (cmd[p].old # None) <=> (Named(browses, cmd[p].now.name) # {})

\* The path of the image to replace, which is read after the look-up and before
\* the lock is taken; what a path in between the two does is what the first does.
Replaced(p) ==
  IF cmd[p].old = None THEN {None}
    ELSE {cmd[p].found[cmd[p].now.name], located[cmd[p].now.name]}

\* "Output file '%s' already exists and is not to be replaced."
OutputFree(p, f) ==
  cmd[p].op = "import" => disk[Output(p)] = None \/ f = Output(p)

\* The browse that was looked up is the one that is replaced.
LookupFresh(p) ==
  cmd[p].old # None => /\ cmd[p].old \in browses
                       /\ located[cmd[p].now.name] = cmd[p].found[cmd[p].now.name]

\* What remove_browse does in an ingestion or an import.
Replacement(p) ==
  IF cmd[p].old = None THEN {[times |-> times, unseed |-> {}, areas |-> {}]}
    ELSE Removals(Read(p, times), times, cmd[p].old, browses \ Named(browses, cmd[p].now.name))

\* The Time table that create_browse reads: an early one if nothing was found in it
\* that had to be written first.
ReadAgain(p, T) ==
  IF cmd[p].old # None /\ Overlapping(Read(p, times), cmd[p].old.area) # {} THEN T ELSE Read(p, T)

\* ingest_browse or import_browse: remove_browse if there is one to replace, the
\* image in place of the old one (the FileTransaction ends well), create_browse.
Write(p) ==
  /\ At(p, {"ingest", "import"}, "write") /\ ~Locked(p) /\ layer # "gone"
  /\ LookupHolds(p) /\ NewNames # {}
  /\ LET b == cmd[p].now
     IN \E m \in Replacement(p), f \in Replaced(p) :
        LET new == Creation(ReadAgain(p, m.times), m.times, b)
        IN /\ OutputFree(p, f)
           /\ \/ tiles' = Without(tiles, m.unseed \cup new.unseed) /\ UNCHANGED faults
              \/ /\ m.unseed # {} /\ Fault("unseed")
                 /\ tiles' = Without(tiles, new.unseed)
           /\ disk' = [g \in Path |-> IF g = Output(p) THEN NewImage(p)
                                      ELSE IF g = f THEN None ELSE disk[g]]
           /\ Set(p, [cmd[p] EXCEPT
                        !.at = "commit", !.found = None, !.view = None,
                        !.rows = [browses |-> (browses \ Named(browses, b.name)) \cup {b},
                                  times |-> new.times,
                                  located |-> [located EXCEPT ![b.name] = Output(p)]],
                        !.areas = m.areas \cup {Dim(new.hull)}])
  /\ See(IF LookupFresh(p) THEN {} ELSE {"stale"})
  /\ writer' = p
  /\ UNCHANGED <<rows, layer, fixed, package, commands>>

\* What may be un-seeded when an ingestion or an import fails.
Unseeded(p) ==
  IF layer = "gone" \/ ~LookupHolds(p) THEN {{}}
    ELSE {{}} \cup UNION
           { { m.unseed \cup D : D \in SUBSET Dims(Overlapping(m.times, cmd[p].now.area)) } :
               m \in Replacement(p) }

\* The transaction is rolled back and the files are restored, but what was
\* un-seeded stays so.  An ingestion is over then, an import goes on.
Undo(p, why) ==
  /\ IF why THEN Fault("step") ELSE UNCHANGED faults
  /\ \E D \in Unseeded(p) : tiles' = Without(tiles, D)
  /\ Set(p, IF cmd[p].op = "import"
              THEN [cmd[p] EXCEPT !.at = "next", !.areas = {}, !.found = None, !.view = None]
              ELSE Idle)
  /\ IF tiles' # tiles THEN See({"undone"}) ELSE UNCHANGED seen
  /\ UNCHANGED <<rows, disk, layer, fixed, package, writer, commands>>

\* Somebody else has registered or deleted the browse since it was looked up, or
\* the output exists.
Conflict(p) ==
  /\ At(p, {"ingest", "import"}, "write") /\ ~Locked(p)
  /\ layer = "gone" \/ ~LookupHolds(p) \/ \E f \in Replaced(p) : ~OutputFree(p, f)
  /\ Undo(p, FALSE)

\* Anything else goes wrong.
Fail(p) ==
  /\ At(p, {"ingest", "import"}, "write") /\ ~Locked(p)
  /\ Undo(p, TRUE)

\* The databases are committed one after the other: an ingestion or an import
\* commits the main one first, the nested blocks of the others end with it.
CommitFirst(p) ==
  /\ \/ At(p, {"ingest", "import"}, "commit")
     \/ At(p, {"delete", "purge"}, "remove") /\ cmd[p].todo = {}
  /\ IF cmd[p].op \in {"ingest", "import"}
       THEN /\ browses' = cmd[p].rows.browses /\ located' = cmd[p].rows.located
            /\ UNCHANGED times
       ELSE times' = cmd[p].rows.times /\ UNCHANGED <<browses, located>>
  /\ Go(p, "second")
  /\ UNCHANGED <<disk, tiles, layer, fixed, package, writer, commands, history>>

CommitSecond(p) ==
  /\ cmd[p].at = "second"
  /\ browses' = cmd[p].rows.browses /\ located' = cmd[p].rows.located
  /\ times' = cmd[p].rows.times
  /\ writer' = None
  /\ Set(p, [cmd[p] EXCEPT !.rows = None,
               !.at = CASE cmd[p].op = "ingest" -> "seed"
                        [] cmd[p].op = "import" -> "tiles"
                        [] OTHER -> "files",
               !.areas = IF cmd[p].op = "ingest" /\ ~seeding THEN {} ELSE @])
  /\ UNCHANGED <<disk, tiles, layer, fixed, package, commands, history>>

\* The images of deleted browses; one that is missing is only warned about.
DeleteFile(p) ==
  /\ cmd[p].at = "files"
  /\ \E f \in cmd[p].remove :
       /\ disk' = [disk EXCEPT ![f] = None]
       /\ Set(p, [cmd[p] EXCEPT !.remove = @ \ {f}])
  /\ UNCHANGED <<rows, tiles, layer, fixed, package, writer, commands, history>>

\* Fault: areas that overlap the beginning of the window are left out as well.
SkippedBeginning(c, d) ==
  /\ c.ids => c.window # Always
  /\ Selected([start |-> d.end, end |-> d.end], c.window)

\* What ngeo_delete leaves out of the areas to seed: those inside of the window,
\* of which nothing should be left, and without any option everything.
Skipped(c, d) == (c.ids => c.window # Always) /\ Selected(d, c.window)

FilesDone(p) ==
  /\ cmd[p].at = "files" /\ cmd[p].remove = {}
  /\ IF cmd[p].op = "purge"
       THEN Go(p, "drop")
       ELSE Set(p, [cmd[p] EXCEPT !.at = "seed",
                      !.areas = { d \in @ : ~Skipped(cmd[p], d) }])
  /\ UNCHANGED <<rows, disk, tiles, layer, fixed, package, writer, commands, history>>

\* delete_browse_layer with purge, one step here: mapcache.xml, the layer with
\* what refers to it (Django's cascade takes browses that were ingested since the
\* others were removed), its Source with the Times, the tileset, the directory.
DropLayer(p) ==
  /\ cmd[p].at = "drop" /\ ~Locked(p)
  /\ Set(p, Idle)
  /\ layer' = "gone"
  /\ browses' = {} /\ times' = {} /\ tiles' = {}
  /\ located' = [n \in Name |-> None] /\ disk' = [f \in Path |-> None]
  /\ UNCHANGED <<fixed, package, writer, commands, history>>

-----------------------------------------------------------------------------
(* Seeding, in the order of the areas collected or of the Times             *)

\* A tile is made for a span that is no Time (any more), or while a transaction
\* that has un-seeded is not committed yet.
Coincidences(p, d) ==
  (IF d \notin Dims(times) THEN {"ghost"} ELSE {})
  \cup (IF Busy(p) THEN {"raced"} ELSE {})

\* The call fails when the tileset is not configured; that, like any failure, is
\* only logged (an import gives up).
Seed(p) ==
  /\ cmd[p].at = "seed"
  /\ \E d \in cmd[p].areas :
       LET next == [cmd[p] EXCEPT !.areas = @ \ {d}]
           failed == IF cmd[p].op = "import" THEN Idle ELSE next
       IN \/ /\ layer = "served"
             /\ tiles' = Seeded(tiles, d, cmd[p].force)
             /\ See(Coincidences(p, d)) /\ Set(p, next) /\ UNCHANGED faults
          \/ /\ layer # "served"
             /\ Set(p, failed) /\ UNCHANGED <<tiles, history>>
          \/ Fault("seed") /\ Set(p, failed) /\ UNCHANGED <<tiles, seen>>
  /\ UNCHANGED <<rows, disk, layer, fixed, package, writer, commands>>

SeedDone(p) ==
  /\ cmd[p].at = "seed" /\ cmd[p].areas = {}
  /\ IF cmd[p].op = "import" THEN Go(p, "next") ELSE Set(p, Idle)
  /\ UNCHANGED <<rows, disk, tiles, layer, fixed, package, writer, commands, history>>

\* MapCache answers a client.  If the layer is not seeded the tileset is not
\* read-only, and the tile is kept.
View ==
  /\ ~seeding /\ layer = "served" /\ commands < MaxCommands
  /\ commands' = commands + 1
  /\ \E d \in Dims(times), l \in Levels :
       /\ \A t \in tiles : ~(t.dim = d /\ t.level = l)
       /\ tiles' = tiles \cup {Tile(d, l, Rendered(d))}
  /\ See(IF writer = None THEN {} ELSE {"raced"})
  /\ UNCHANGED <<rows, disk, layer, fixed, package, writer, cmd, faults>>

-----------------------------------------------------------------------------
(* Export *)

Alone(p) == \A q \in Proc \ {p} : cmd[q].op \notin {"export", "import"}

\* package.create removes what is there; the rows are read before the images.
StartExport(p) ==
  /\ MayStart(p, "export") /\ Alone(p)
  /\ \E cache \in BOOLEAN, w \in Windows \cup {Always} :
       /\ package' = [closed |-> FALSE, rows |-> InWindow(w), cache |-> cache,
                      images |-> [n \in Name |-> None], tiles |-> {}]
       /\ Set(p, [Begun("export", "add") EXCEPT !.todo = InWindow(w)])
  /\ UNCHANGED <<rows, disk, tiles, layer, fixed, writer, history>>

\* The error removes the archive.
GiveUp(p) == package' = None /\ Set(p, Idle)

\* What is registered in a time span, and is not being purged, is what the reports
\* of the package have.
Unchanged(d) ==
  /\ Rendered(d) = { b \in package.rows : Overlaps(b.area, d) }
  /\ \A q \in Proc : cmd[q].op # "purge"

\* The next browse of the export: where the image of its coverage is now.
LocateImage(p) ==
  /\ At(p, {"export"}, "add")
  /\ \E b \in cmd[p].todo :
       \/ located[b.name] = None /\ GiveUp(p) /\ UNCHANGED seen
       \/ /\ located[b.name] # None
          /\ Set(p, [cmd[p] EXCEPT !.at = "image", !.now = b, !.found = located])
          /\ See(IF b \in browses THEN {} ELSE {"overtaken"})
          /\ UNCHANGED package
  /\ UNCHANGED <<rows, disk, tiles, layer, fixed, writer, commands, faults>>

\* Done with the browse.
NextExport(p) ==
  [cmd[p] EXCEPT !.at = "add", !.todo = @ \ {cmd[p].now}, !.now = None, !.found = None]

\* Fault: an image that is missing is left out.
CopyAvailable(p) ==
  /\ At(p, {"export"}, "image")
  /\ LET b == cmd[p].now
     IN package' = [package EXCEPT !.images[b.name] = disk[cmd[p].found[b.name]]]
  /\ Set(p, IF package.cache THEN [cmd[p] EXCEPT !.at = "time", !.found = None] ELSE NextExport(p))
  /\ UNCHANGED <<rows, disk, tiles, layer, fixed, writer, commands, history>>

\* The image as it is goes into the archive, with the footprint; one that is missing
\* ends the export.
CopyImage(p) ==
  /\ At(p, {"export"}, "image")
  /\ LET b == cmd[p].now
         image == disk[cmd[p].found[b.name]]
     IN \/ image = None /\ GiveUp(p)
        \/ /\ image # None
           /\ package' = [package EXCEPT !.images[b.name] = image]
           /\ Set(p, IF package.cache THEN [cmd[p] EXCEPT !.at = "time", !.found = None]
                                      ELSE NextExport(p))
  /\ UNCHANGED <<rows, disk, tiles, layer, fixed, writer, commands, history>>

\* One Time entry has all of the browse, and it is its own: merged ones end the export.
OwnTime(b) ==
  \E t \in times : /\ Dim(t) = Dim(b.area)
                   /\ \A u \in times : u.start =< b.area.start /\ u.end >= b.area.end => u = t

FindTime(p) ==
  /\ At(p, {"export"}, "time")
  /\ \/ OwnTime(cmd[p].now) /\ Go(p, "cache") /\ UNCHANGED package
     \/ ~OwnTime(cmd[p].now) /\ GiveUp(p)
  /\ UNCHANGED <<rows, disk, tiles, layer, fixed, writer, commands, history>>

\* The tiles that are in the tileset now, at all levels that are cached.
CopyTiles(p) ==
  /\ At(p, {"export"}, "cache")
  /\ LET d == Dim(cmd[p].now.area)
     IN /\ package' = [package EXCEPT !.tiles = @ \cup TilesOf(tiles, d)]
        /\ Set(p, NextExport(p))
        /\ See((IF Unchanged(d) THEN {} ELSE {"crowded"})
               \cup (IF TilesOf(tiles, d) = {} THEN {"untiled"} ELSE {}))
  /\ UNCHANGED <<rows, disk, tiles, layer, fixed, writer, commands, faults>>

EndExport(p) ==
  /\ At(p, {"export"}, "add") /\ cmd[p].todo = {}
  /\ package' = [package EXCEPT !.closed = TRUE]
  /\ Set(p, Idle)
  /\ UNCHANGED <<rows, disk, tiles, layer, fixed, writer, commands, history>>

-----------------------------------------------------------------------------
(* Import, into a server with the same layer and map levels *)

StartImport(p) ==
  /\ MayStart(p, "import") /\ Alone(p)
  /\ package # None /\ package.closed
  /\ \E ignore \in BOOLEAN :
       Set(p, [Begun("import", "next") EXCEPT !.todo = package.rows,
                 !.force = ignore \/ package.tiles = {}])
  /\ UNCHANGED <<rows, disk, tiles, layer, fixed, package, writer, history>>

\* The next browse of the reports; get_existing_browse.
NextBrowse(p) ==
  /\ At(p, {"import"}, "next")
  /\ \/ \E b \in cmd[p].todo :
          Set(p, [cmd[p] EXCEPT !.at = "write", !.now = b, !.todo = @ \ {b},
                    !.old = LookedUp(b), !.found = located])
     \/ cmd[p].todo = {} /\ Set(p, Idle)
  /\ UNCHANGED <<rows, disk, tiles, layer, fixed, package, writer, commands, history>>

\* Those of the levels that both layers seed.
LowTiles(T, d) == { t \in TilesOf(T, d) : t.level = "seeded" }

\* The tiles of the package go under the time span of the browse, whatever Time
\* entry it was merged into and whatever else is registered there; a tile that is
\* there already ends the import.  Other time spans are not seeded, although
\* remove_browse and create_browse have un-seeded them.
ImportTiles(p) ==
  /\ At(p, {"import"}, "tiles")
  /\ LET d == Dim(cmd[p].now.area)
         new == LowTiles(package.tiles, d)
     IN /\ \/ /\ cmd[p].force
              /\ Set(p, [cmd[p] EXCEPT !.at = "seed", !.areas = {d}]) /\ UNCHANGED tiles
           \/ /\ ~cmd[p].force /\ new # {} /\ LowTiles(tiles, d) # {}
              /\ Set(p, Idle) /\ UNCHANGED tiles
           \/ /\ ~cmd[p].force /\ (new = {} \/ LowTiles(tiles, d) = {})
              /\ tiles' = tiles \cup new
              /\ Set(p, [cmd[p] EXCEPT !.at = "next", !.areas = {}])
        /\ See((IF cmd[p].areas = {d} THEN {} ELSE {"merged"})
               \cup (IF tiles' = tiles THEN {} ELSE Coincidences(p, d))
               \cup (IF tiles' = tiles \/ Unchanged(d) THEN {} ELSE {"crowded"}))
  /\ UNCHANGED <<rows, disk, layer, fixed, package, writer, commands, faults>>

-----------------------------------------------------------------------------
\* A process is killed; its transaction is rolled back by the databases.
Kill(p) ==
  /\ cmd[p].op # "idle"
  /\ Fault(IF cmd[p].op \in {"ingest", "import"} THEN "crash" ELSE "cut")
  /\ Set(p, Idle)
  /\ writer' = IF writer = p THEN None ELSE writer
  /\ UNCHANGED <<rows, disk, tiles, layer, fixed, package, commands, seen>>

Wait == (\A p \in Proc : cmd[p] = Idle) /\ UNCHANGED allvars

Step(p) ==
  \/ StartIngest(p) \/ StartDelete(p) \/ StartPurge(p) \/ StartReseed(p)
  \/ StartExport(p) \/ StartImport(p)
  \/ ReadTimesEarly(p) \/ Write(p) \/ Conflict(p) \/ Fail(p)
  \/ LockRows(p) \/ RemoveBrowse(p) \/ ListedGone(p)
  \/ CommitFirst(p) \/ CommitSecond(p)
  \/ DeleteFile(p) \/ FilesDone(p) \/ DropLayer(p)
  \/ Seed(p) \/ SeedDone(p)
  \/ LocateImage(p) \/ CopyImage(p) \/ FindTime(p) \/ CopyTiles(p) \/ EndExport(p)
  \/ NextBrowse(p) \/ ImportTiles(p)
  \/ Kill(p)

\* A layer into which browses were ingested, one after the other.
TimesOf(B) == { Hull(g) : g \in Groups(Areas(B)) }

LayerInit ==
  /\ browses \in Starts
  /\ times = TimesOf(browses)
  /\ \E u \in [Name -> Upload] :
       /\ \A m, n \in Name : u[m] = u[n] => m = n
       /\ u = CHOOSE v \in [Name -> Upload] : \A m, n \in Name : v[m] = v[n] => m = n
       /\ located = [n \in Name |-> IF Named(browses, n) = {} THEN None ELSE u[n]]
  /\ disk = [f \in Path |->
       IF \E b \in browses : located[b.name] = f
         THEN CHOOSE b \in browses : located[b.name] = f ELSE None]
  /\ seeding \in BOOLEAN
  /\ tiles = IF seeding THEN { Tile(d, "seeded", Rendered(d)) : d \in Dims(times) } ELSE {}
  /\ layer = "served" /\ package = None /\ writer = None
  /\ cmd = [p \in Proc |-> Idle] /\ commands = 0 /\ faults = {} /\ seen = {}

LayerNext == View \/ Wait \/ \E p \in Proc : Step(p)

LayerSpec == LayerInit /\ [][LayerNext]_allvars

-----------------------------------------------------------------------------
(* Properties *)

(***************************************************************************)
(* They hold when no command is running, and unless one of the following   *)
(* happened; the README lists them as deviations.                          *)
(*   crash, cut   a process was killed (cut: no ingestion or import)       *)
(*   unseed, seed the call of mapcache_seed failed or waited too long for  *)
(*                its lock, and that was only logged                       *)
(*   undone       a transaction was rolled back after it had un-seeded     *)
(*   raced        a tile was drawn while a transaction that has un-seeded  *)
(*                was not committed                                        *)
(*   ghost        a time span was seeded that was split again before       *)
(*   stale        the browses a deletion or a purge had listed, or the one *)
(*                that an ingestion or an import had looked up, were       *)
(*                changed before its transaction got the write lock        *)
(*   early        the Time table was read between two commits of another   *)
(*                process                                                  *)
(*   merged       create_browse or remove_browse have changed other time   *)
(*                spans than that of the imported browse                   *)
(*   overtaken    the row of a browse was exported, but it was no longer   *)
(*                registered when its image was looked for                 *)
(*   crowded      tiles of a time span went into a package, or came out of *)
(*                it, in which there was not what the reports of the       *)
(*                package have                                             *)
(*   mixed        browses were deleted by --id beside a time window, which *)
(*                only counts for what is left out of seeding              *)
(*   untiled      a browse was exported before its tiles were seeded       *)
(***************************************************************************)

Still == \A p \in Proc : cmd[p] = Idle

\* What the map cache has for a time span is what is registered in it: no old
\* image is served after a browse was replaced, merged or deleted, up to the
\* levels that clients caused to be cached (the calls of seed_mapcache in
\* remove_browse and create_browse, queries.py:239 and 343).
TilesFresh ==
  Still /\ faults \subseteq {"step", "seed"}
        /\ seen \cap {"raced", "ghost", "overtaken", "crowded", "stale", "early"} = {} =>
    \A t \in tiles : t.dim \in Dims(times) => t.shows = Rendered(t.dim)

\* The tileset of a layer that is seeded is read-only (tasks.py:274): every time
\* span has been seeded again after the last operation that changed it, whichever
\* entries that operation split, merged or skipped (ngeo_delete.py:247).
TilesComplete ==
  Still /\ faults \subseteq {"unseed", "step"}
        /\ seen \cap {"undone", "merged", "mixed", "untiled", "stale", "early"} = {}
        /\ seeding /\ layer = "served" =>
    \A d \in Dims(times) : \E t \in tiles : t.dim = d /\ t.level = "seeded"

\* Every registered browse has its own image, and every image belongs to one,
\* although rows and files are changed in different steps by several processes.
\* A command that only deletes does so in an order (ngeo_delete.py:225) that its
\* death leaves files without a row, but no row without its file.
ImagesMatchRows ==
  Still /\ "crash" \notin faults /\ seen \cap {"overtaken", "stale"} = {} =>
    /\ \A b \in browses : located[b.name] # None /\ disk[located[b.name]] = b
    /\ "cut" \notin faults =>
         \A f \in Path : disk[f] # None => \E b \in browses : located[b.name] = f

\* An archive that was finished has the image of every browse in its reports, and
\* with the cache only tiles that show nothing else, whatever ran meanwhile.
PackageSound ==
  package # None /\ package.closed /\ "overtaken" \notin seen =>
    /\ \A b \in package.rows : package.images[b.name] = b
    /\ faults \subseteq {"step", "seed"}
         /\ seen \cap {"raced", "ghost", "crowded", "stale", "early"} = {} =>
         \A t \in package.tiles : t.shows = { b \in package.rows : Overlaps(b.area, t.dim) }
=============================================================================
