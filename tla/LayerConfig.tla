----------------------------- MODULE LayerConfig ------------------------------
(***************************************************************************)
(* The configuration of browse layers: requests add, update and disable    *)
(* layers.  A layer is a row of the main database, a source in the         *)
(* database of MapCache and a section of mapcache.xml.                     *)
(*                                                                         *)
(* A request is handled in a transaction of each database, inside of a     *)
(* FileTransaction, that restores mapcache.xml when anything fails.        *)
(* Processes of the web server and commands handle requests at the same    *)
(* time; a file lock protects each change of mapcache.xml, but not the     *)
(* copy that FileTransaction makes of it and restores.                     *)
(*                                                                         *)
(* Layers are harvested by Sx-Cat, an external service that takes part in  *)
(* no transaction.  They are never purged here; NgeoConfig has the         *)
(* revision number that a request leaves in the configuration.             *)
(*                                                                         *)
(* Source: ngeo_browse_server/control/views.py (config),                   *)
(*         ngeo_browse_server/control/queries.py,                          *)
(*         ngeo_browse_server/mapcache/tasks.py, sxcat/tasks.py            *)
(***************************************************************************)
EXTENDS Naturals, FiniteSets, Sequences, SequencesExt

CONSTANTS Proc,        \* processes that handle requests
          Layer,
          Version,     \* values of the properties of a layer that may change
          RequestsOf,  \* the requests each process may be given
          None,        \* no row, no section
          Unchanged,   \* not changed by a transaction
          Broken,      \* what a file is that is being written
          Faults,      \* kinds of fault that may happen
          MaxFaults,   \* how many of them (bound of the model)
          MaxRequests  \* how many requests there are (bound of the model)

\* Layers are added or updated first, then disabled.
Request == [add : Seq(Layer), remove : Seq(Layer), version : Version]

ASSUME LayerAssumption ==
  /\ RequestsOf \in [Proc -> SUBSET Request]
  /\ None \notin Version \cup Proc /\ Unchanged \notin Version \cup {None}
  /\ Faults \subseteq {"step", "commit", "harvest"}
  /\ MaxFaults \in Nat /\ MaxRequests \in Nat

Sections == [Layer -> Version \cup {None}]

ASSUME BrokenAssumption == Broken \notin Sections

VARIABLES
  layers,     \* rows of the main database, by layer
  sources,    \* sources in the database of MapCache
  xml,        \* mapcache.xml: the sections of it, by layer
  harvested,  \* layers for which Sx-Cat has harvests scheduled
  lock,       \* the process that holds the lock of mapcache.xml
  begun,      \* number of requests
  pc,         \* where each process is
  request,    \* the request each process handles
  done,       \* how many of its changes are made
  change,     \* rows changed in the open transaction of each process
  created,    \* sources created in it
  backup,     \* the copy of mapcache.xml each process has made
  seen,       \* what it has read of mapcache.xml
  accepted,   \* history: what the requests that were accepted asked for
  overlapped, \* history: two requests were handled at the same time,
  restored,   \* and one of them was refused since
  refused,    \* history: layers of which the last request was refused
  faults      \* history: the kinds of the faults that happened

stores == <<layers, sources, xml, harvested>>
open == <<change, created>>
history == <<accepted, overlapped, restored, refused, faults>>
vars == <<stores, lock, begun, pc, request, done, open, backup, seen, history>>

NoRequest == [add |-> <<>>, remove |-> <<>>, version |-> None]
NoChange == [l \in Layer |-> Unchanged]

Changes(p) == request[p].add \o request[p].remove
Current(p) == Changes(p)[done[p] + 1]
Adding(p) == done[p] < Len(request[p].add)

\* A row as the transaction of p sees it.
Row(p, l) == IF change[p][l] = Unchanged THEN layers[l] ELSE change[p][l]

Goto(p, step) == pc' = [pc EXCEPT ![p] = step]

Fault(kind) ==
  /\ kind \in Faults /\ Len(faults) < MaxFaults
  /\ faults' = Append(faults, kind)

-----------------------------------------------------------------------------
Begin(p, r) ==
  /\ pc[p] = "idle"
  /\ begun < MaxRequests /\ begun' = begun + 1
  /\ request' = [request EXCEPT ![p] = r]
  /\ done' = [done EXCEPT ![p] = 0]
  /\ Goto(p, "enter")
  /\ overlapped' = (overlapped \/ \E q \in Proc : pc[q] # "idle")
  /\ UNCHANGED <<stores, lock, open, backup, seen, accepted, restored, refused, faults>>

\* FileTransaction copies mapcache.xml.
EnterFileTransaction(p) ==
  /\ pc[p] = "enter"
  /\ backup' = [backup EXCEPT ![p] = xml]
  /\ Goto(p, "next")
  /\ UNCHANGED <<begun, stores, lock, request, done, open, seen, history>>

\* The next layer: added if it does not exist, otherwise updated, or disabled.
NextChange(p) ==
  /\ pc[p] = "next"
  /\ IF done[p] = Len(Changes(p))
       THEN Goto(p, "commit_mapcache")
       ELSE LET exists == Row(p, Current(p)) # None IN
            Goto(p, CASE Adding(p) /\ ~exists  -> "insert"
                      [] Adding(p) /\ exists   -> "update"
                      [] ~Adding(p) /\ exists  -> "remove_xml"
                      [] OTHER                 -> "fail")
  /\ UNCHANGED <<begun, stores, lock, request, done, open, backup, seen, history>>

\* Another transaction has changed the row, or writes to the database of MapCache,
\* which has one writer at a time.
RowBusy(p) == \E q \in Proc \ {p} : change[q][Current(p)] # Unchanged
SourcesBusy(p) == \E q \in Proc \ {p} : created[q] # {}

\* Fault: the existence found by NextChange is not tested again.
InsertUnchecked(p) ==
  /\ pc[p] = "insert"
  /\ change' = [change EXCEPT ![p][Current(p)] = request[p].version]
  /\ created' = [created EXCEPT ![p] = @ \ sources]
  /\ Goto(p, "add_xml")
  /\ UNCHANGED <<begun, stores, lock, request, done, backup, seen, history>>

\* add_browse_layer: row and source; either may exist by now.
InsertLayer(p) ==
  /\ pc[p] = "insert"
  /\ ~RowBusy(p) /\ ~SourcesBusy(p)
  /\ IF layers[Current(p)] # None \/ Current(p) \in sources
       THEN Goto(p, "fail") /\ UNCHANGED open
       ELSE /\ change' = [change EXCEPT ![p][Current(p)] = request[p].version]
            /\ created' = [created EXCEPT ![p] = @ \cup {Current(p)}]
            /\ Goto(p, "add_xml")
  /\ UNCHANGED <<begun, stores, lock, request, done, backup, seen, history>>

\* update_browse_layer: the row, then the section is removed and added again.
UpdateLayer(p) ==
  /\ pc[p] = "update"
  /\ ~RowBusy(p)
  /\ change' = [change EXCEPT ![p][Current(p)] = request[p].version]
  /\ Goto(p, "remove_xml")
  /\ UNCHANGED <<begun, stores, lock, request, done, created, backup, seen, history>>

\* The lock of mapcache.xml is taken and the file read; without the lock, or a
\* file that can be read, there is an exception.
ReadXml(p) ==
  /\ pc[p] \in {"remove_xml", "add_xml"}
  /\ IF lock # None
       THEN Goto(p, "fail") /\ UNCHANGED <<lock, seen>>
       ELSE /\ seen' = [seen EXCEPT ![p] = xml]
            /\ lock' = p
            /\ Goto(p, IF xml = Broken \/ (pc[p] = "add_xml" /\ xml[Current(p)] # None)
                         THEN "fail" ELSE IF pc[p] = "add_xml" THEN "add_open" ELSE "remove_open")
  /\ UNCHANGED <<begun, stores, request, done, open, backup, history>>

\* It is opened for writing, which empties it,
OpenXml(p) ==
  /\ pc[p] \in {"remove_open", "add_open"}
  /\ xml' = Broken
  /\ Goto(p, IF pc[p] = "add_open" THEN "add_write" ELSE "remove_write")
  /\ UNCHANGED <<begun, layers, sources, harvested, lock, request, done, open, backup, seen, history>>

\* and written with the section of the layer added
WriteAdded(p) ==
  /\ pc[p] = "add_write"
  /\ xml' = [seen[p] EXCEPT ![Current(p)] = request[p].version]
  /\ lock' = None
  /\ seen' = [seen EXCEPT ![p] = None]
  /\ Goto(p, "harvest")
  /\ UNCHANGED <<begun, layers, sources, harvested, request, done, open, backup, history>>

\* or removed, if there is one.
WriteRemoved(p) ==
  /\ pc[p] = "remove_write"
  /\ xml' = [seen[p] EXCEPT ![Current(p)] = None]
  /\ lock' = None
  /\ seen' = [seen EXCEPT ![p] = None]
  /\ Goto(p, IF Adding(p) THEN "add_xml" ELSE "disable")
  /\ UNCHANGED <<begun, layers, sources, harvested, request, done, open, backup, history>>

\* The collection of the layer is configured and its harvests scheduled, or not any more;
\* if Sx-Cat fails to schedule them or to clear the schedule, that is only logged.
Harvest(p, scheduled) ==
  /\ \/ harvested' = scheduled /\ UNCHANGED faults
     \/ Fault("harvest") /\ UNCHANGED harvested
  /\ done' = [done EXCEPT ![p] = @ + 1]
  /\ Goto(p, "next")
  /\ UNCHANGED <<begun, layers, sources, xml, lock, request, open, backup, seen>>
  /\ UNCHANGED <<accepted, overlapped, restored, refused>>

AddCollection(p) == pc[p] = "harvest" /\ Harvest(p, harvested \cup {Current(p)})
DisableCollection(p) == pc[p] = "disable" /\ Harvest(p, harvested \ {Current(p)})

CommitMapCache(p) ==
  /\ pc[p] = "commit_mapcache"
  /\ sources' = sources \cup created[p]
  /\ created' = [created EXCEPT ![p] = {}]
  /\ Goto(p, "commit")
  /\ UNCHANGED <<begun, layers, xml, harvested, lock, request, done, change, backup, seen, history>>

Commit(p) ==
  /\ pc[p] = "commit"
  /\ layers' = [l \in Layer |-> Row(p, l)]
  /\ change' = [change EXCEPT ![p] = NoChange]
  /\ Goto(p, "leave")
  /\ UNCHANGED <<begun, sources, xml, harvested, lock, request, done, created, backup, seen, history>>

\* What is known of a request, and the copy, go with it.
Forget(p) ==
  /\ request' = [request EXCEPT ![p] = NoRequest]
  /\ done' = [done EXCEPT ![p] = 0]
  /\ backup' = [backup EXCEPT ![p] = None]

\* The section each layer is to have after a request.
Wanted(p, l) ==
  IF \E i \in DOMAIN request[p].remove : request[p].remove[i] = l THEN None
  ELSE IF \E i \in DOMAIN request[p].add : request[p].add[i] = l THEN request[p].version
  ELSE accepted[l]

\* The copy is deleted and the request answered.
LeaveFileTransaction(p) ==
  /\ pc[p] = "leave"
  /\ accepted' = [l \in Layer |-> Wanted(p, l)]
  /\ refused' = refused \ ToSet(Changes(p))
  /\ Forget(p)
  /\ Goto(p, "idle")
  /\ UNCHANGED <<begun, stores, lock, open, seen, overlapped, restored, faults>>

-----------------------------------------------------------------------------
(* Exceptions *)

\* Fault: the exception is caught inside of the transaction of the main database.
RollBackMapCache(p) ==
  /\ pc[p] = "fail"
  /\ lock' = IF lock = p THEN None ELSE lock
  /\ layers' = [l \in Layer |-> Row(p, l)]
  /\ change' = [change EXCEPT ![p] = NoChange]
  /\ seen' = [seen EXCEPT ![p] = None]
  /\ created' = [created EXCEPT ![p] = {}]
  /\ Goto(p, "restore")
  /\ UNCHANGED <<begun, sources, xml, harvested, request, done, backup, history>>

\* An exception: the lock is released and both transactions are rolled back,
RollBack(p) ==
  /\ pc[p] = "fail"
  /\ lock' = IF lock = p THEN None ELSE lock
  /\ change' = [change EXCEPT ![p] = NoChange]
  /\ seen' = [seen EXCEPT ![p] = None]
  /\ created' = [created EXCEPT ![p] = {}]
  /\ Goto(p, "restore")
  /\ UNCHANGED <<begun, stores, request, done, backup, history>>

\* Fault: nothing is restored.
RestoreNothing(p) ==
  /\ pc[p] = "restore"
  /\ Forget(p)
  /\ Goto(p, "idle")
  /\ UNCHANGED <<begun, stores, lock, open, seen, history>>

\* then mapcache.xml is replaced by the copy, and the request refused.
RestoreXml(p) ==
  /\ pc[p] = "restore"
  /\ xml' = backup[p]
  /\ restored' = (restored \/ overlapped)
  /\ refused' = refused \cup ToSet(Changes(p))
  /\ Forget(p)
  /\ Goto(p, "idle")
  /\ UNCHANGED <<begun, layers, sources, harvested, lock, open, seen, accepted, overlapped, faults>>

\* The database does not want to wait any longer for another transaction.
GiveUpWaiting(p) ==
  /\ \/ pc[p] \in {"insert", "update"} /\ RowBusy(p)
     \/ pc[p] = "insert" /\ SourcesBusy(p)
  /\ Goto(p, "fail")
  /\ UNCHANGED <<begun, stores, lock, request, done, open, backup, seen, history>>

\* Anything else that may fail: a layer that is not valid or changes what must not be
\* changed, a database, the directory of the layer, the file system.
Fail(p) ==
  /\ \/ pc[p] \in {"next", "insert", "update", "remove_xml", "add_xml",
                   "remove_open", "add_open", "remove_write", "add_write",
                   "harvest", "disable"} /\ Fault("step")
     \/ pc[p] \in {"commit_mapcache", "commit"} /\ Fault("commit")
  /\ Goto(p, "fail")
  /\ UNCHANGED <<begun, stores, lock, request, done, open, backup, seen>>
  /\ UNCHANGED <<accepted, overlapped, restored, refused>>

-----------------------------------------------------------------------------
Init ==
  /\ layers = [l \in Layer |-> None] /\ sources = {} /\ xml = [l \in Layer |-> None]
  /\ harvested = {} /\ lock = None /\ begun = 0
  /\ pc = [p \in Proc |-> "idle"] /\ request = [p \in Proc |-> NoRequest]
  /\ done = [p \in Proc |-> 0]
  /\ change = [p \in Proc |-> NoChange] /\ created = [p \in Proc |-> {}]
  /\ backup = [p \in Proc |-> None] /\ seen = [p \in Proc |-> None]
  /\ accepted = [l \in Layer |-> None] /\ overlapped = FALSE /\ restored = FALSE
  /\ refused = {} /\ faults = <<>>

Step(p) ==
  \/ EnterFileTransaction(p) \/ NextChange(p) \/ InsertLayer(p) \/ UpdateLayer(p)
  \/ ReadXml(p) \/ OpenXml(p) \/ WriteAdded(p) \/ WriteRemoved(p)
  \/ AddCollection(p) \/ DisableCollection(p)
  \/ CommitMapCache(p) \/ Commit(p) \/ LeaveFileTransaction(p)
  \/ RollBack(p) \/ RestoreXml(p)

\* No client sends a request.
Wait == (\A p \in Proc : pc[p] = "idle") /\ UNCHANGED vars

Next ==
  \/ Wait
  \/ \E p \in Proc :
       \/ \E r \in RequestsOf[p] : Begin(p, r)
       \/ Step(p) \/ GiveUpWaiting(p) \/ Fail(p)

Spec == Init /\ [][Next]_vars

-----------------------------------------------------------------------------
(* Properties *)

Idle == \A p \in Proc : pc[p] = "idle"

\* "transaction safety here" (views.py:345): when no request is being handled, mapcache.xml
\* has what the requests that were accepted asked for, and nothing of those refused,
\* wherever they failed.  Not so when requests overlapped: a copy that is restored undoes
\* what another request has written.
XmlAsAccepted == Idle /\ ~overlapped => xml = accepted

\* The layers MapCache serves are those of the main database, with the same properties, and
\* those that are harvested, which nothing undoes when a request is refused (queries.py:565).
ServedAsConfigured ==
  /\ Idle /\ ~restored => \A l \in Layer : xml[l] # None => layers[l] = xml[l]
  /\ Idle /\ ~overlapped /\ "harvest" \notin Range(faults) =>
       \A l \in Layer \ refused : l \in harvested <=> xml[l] # None

\* "the database models, cache configuration" (queries.py:491): a layer exists in both
\* databases or in none, whatever other transactions did at the same time and whichever
\* step of theirs failed, unless it is a commit: that of MapCache's database comes first.
DatabasesAgree ==
  "commit" \notin Range(faults) =>
    \A l \in Layer : (\A p \in Proc : pc[p] = "commit" => change[p][l] = Unchanged)
                       => (layers[l] # None <=> l \in sources)

===============================================================================
