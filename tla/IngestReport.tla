----------------------------- MODULE IngestReport -----------------------------
(***************************************************************************)
(* The ingestion of a browse report into one layer.                        *)
(*                                                                         *)
(* Each browse of the report is ingested in a transaction of the main      *)
(* database (its record) and one of the MapCache database (its time span), *)
(* inside of a FileTransaction, that keeps a copy of the image that is     *)
(* being replaced or merged.  The two databases, the image storage (local  *)
(* or on Swift), the temporary copies and the input images are changed one *)
(* after the other; any step may raise an exception, and the process may   *)
(* be killed at any time.                                                  *)
(*                                                                         *)
(* What becomes of time spans that overlap is the subject of TimeIndex;    *)
(* here each browse has a time span of its own.  One process ingests.      *)
(*                                                                         *)
(* Source: ngeo_browse_server/control/ingest/__init__.py,                  *)
(*         ngeo_browse_server/filetransaction.py                           *)
(***************************************************************************)
EXTENDS Integers, FiniteSets, Sequences, Functions

CONSTANTS Id,          \* browses of the layer, by identifier
          Images,      \* how many images may be made (bound of the model)
          MaxLen,      \* how many browses a report may have (bound of the model)
          Date,        \* dates of reports
          Threshold,   \* merge_threshold
          Strategies,  \* the strategies that may be configured
          Configs,     \* configurations: are images stored on Swift, and what becomes of
                       \* input images after a success
          None,
          Faults,      \* kinds of fault that may happen
          MaxFaults    \* how many of them (bound of the model)

ASSUME IngestAssumption ==
  /\ IsFiniteSet(Id)
  /\ Images \in Nat /\ MaxLen \in Nat \ {0} /\ MaxFaults \in Nat
  /\ Date \subseteq Nat /\ Threshold \in Int
  /\ Strategies \subseteq {"merge", "replace", "skip"}
  /\ Configs \subseteq [remote : BOOLEAN, original : {"leave", "delete", "move"}]
  /\ Faults \subseteq {"step", "input", "commit", "log", "crash"}

\* Output files have names of their own (uuid): images are numbered as they are made.
Image == 1 .. Images
Record == [image : Image, date : Date]

ASSUME NoneAssumption == None \notin Record \cup Image

VARIABLES
  config,         \* the configuration of the server
  db, times,      \* what is committed: record and time span of each browse
  tx, txTimes,    \* the same as the open transactions see it
  images,         \* the image storage
  local,          \* images made, but not uploaded yet
  backup,         \* images of which the FileTransactions hold a copy
  input,          \* where the input image of each browse of the report is
  pc,             \* the step that is next
  report,         \* the report: browses, date and the strategy configured
  result,         \* what was added to the result so far
  pos,            \* the browse that is being ingested
  old, mode,      \* the record found for it, and what is done about it
  made,           \* number of images
  faults          \* history: the kinds of the faults that happened

databases == <<db, times, tx, txTimes>>
files == <<images, local, backup, input>>
progress == <<report, result, pos, old, mode, made>>
vars == <<config, databases, files, pc, progress, faults>>

Remote == config.remote
Original == config.original

NoReport == [items |-> <<>>, date |-> 0, strategy |-> "replace"]

Current == report.items[pos]
New == [image |-> made, date |-> report.date]

Fault(kind) ==
  /\ kind \in Faults /\ Len(faults) < MaxFaults
  /\ faults' = Append(faults, kind)

-----------------------------------------------------------------------------
\* The server waits for a report.
Wait == pc = "idle" /\ UNCHANGED vars

\* The input images of a report are in the storage directory when it comes in.
Submit(items, date, strategy) ==
  /\ pc = "idle"
  /\ made + Len(items) =< Images
  /\ report' = [items |-> items, date |-> date, strategy |-> strategy]
  /\ input' = [k \in 1 .. Len(items) |-> "storage"]
  /\ result' = <<>> /\ pos' = 1
  /\ pc' = "decide"
  /\ UNCHANGED <<config, databases, images, local, backup, old, mode, made, faults>>

\* Fault: a report of the same date is taken for a newer one.
ModeForSameDate(record) ==
  IF record = None THEN "create"
  ELSE IF report.strategy = "merge" /\ report.date - record.date < Threshold THEN "merge"
  ELSE IF report.strategy = "skip" /\ report.date < record.date THEN "skip"
  ELSE "replace"

\* What is done about a record that exists already.
ModeFor(record) ==
  IF record = None THEN "create"
  ELSE IF report.strategy = "merge" /\ report.date - record.date < Threshold THEN "merge"
  ELSE IF report.strategy = "skip" /\ report.date =< record.date THEN "skip"
  ELSE "replace"

\* Fault: a browse that is skipped is not in the result.
DecideSkippingSilently ==
  /\ pc = "decide"
  /\ pos =< Len(report.items)
  /\ old' = tx[Current]
  /\ mode' = ModeFor(tx[Current])
  /\ IF mode' = "skip"
       THEN pc' = "log" /\ UNCHANGED made
       ELSE pc' = "retrieve" /\ made' = made + 1
  /\ UNCHANGED <<config, databases, files, report, result, pos, faults>>

\* get_existing_browse, and the strategy; a browse that is skipped is done.
Decide ==
  /\ pc = "decide"
  /\ pos =< Len(report.items)
  /\ old' = tx[Current]
  /\ mode' = ModeFor(tx[Current])
  /\ IF mode' = "skip"
       THEN pc' = "result" /\ UNCHANGED made
       ELSE pc' = "retrieve" /\ made' = made + 1
  /\ UNCHANGED <<config, databases, files, report, result, pos, faults>>

Retrieve ==
  /\ pc = "retrieve"
  /\ pc' = IF mode = "create" THEN "enter" ELSE "remove"
  /\ UNCHANGED <<config, databases, files, progress, faults>>

\* Fault: it is committed at once.
RemoveCommitting ==
  /\ pc = "remove"
  /\ tx' = [tx EXCEPT ![Current] = None] /\ db' = tx'
  /\ txTimes' = [txTimes EXCEPT ![Current] = None]
  /\ pc' = "enter"
  /\ UNCHANGED <<config, times, files, progress, faults>>

\* remove_browse: the record and the time span go, the image stays.
Remove ==
  /\ pc = "remove"
  /\ tx' = [tx EXCEPT ![Current] = None]
  /\ txTimes' = [txTimes EXCEPT ![Current] = None]
  /\ pc' = "enter"
  /\ UNCHANGED <<config, db, times, files, progress, faults>>

\* The local image that is replaced or merged.
Replaced == IF mode = "replace" /\ ~Remote THEN {old.image} ELSE {}
Merging == IF mode = "merge" /\ ~Remote THEN {old.image} ELSE {}

\* The image to be merged is there.
Mergeable == mode = "merge" => old.image \in images

\* What is replaced is moved away, what is merged is copied, if it is there.  From
\* Swift the image to be merged is downloaded first.
EnterFileTransactions ==
  /\ pc = "enter"
  /\ Remote => Mergeable
  /\ images' = images \ Replaced
  /\ backup' = images \cap (Replaced \cup Merging)
  /\ pc' = "process"
  /\ UNCHANGED <<config, databases, local, input, progress, faults>>

\* The preprocessor makes the image, and deletes the one it has merged.
Process ==
  /\ pc = "process"
  /\ IF Remote
       THEN local' = local \cup {made} /\ pc' = "upload" /\ UNCHANGED images
       ELSE /\ Mergeable
            /\ images' = (images \ Merging) \cup {made} /\ pc' = "create" /\ UNCHANGED local
  /\ UNCHANGED <<config, databases, backup, input, progress, faults>>

\* It is uploaded and the local one deleted.
Upload ==
  /\ pc = "upload"
  /\ images' = images \cup {made}
  /\ local' = local \ {made}
  /\ pc' = "create"
  /\ UNCHANGED <<config, databases, backup, input, progress, faults>>

\* create_browse: record and time span.
Create ==
  /\ pc = "create"
  /\ tx' = [tx EXCEPT ![Current] = New]
  /\ txTimes' = [txTimes EXCEPT ![Current] = made]
  /\ pc' = "leave"
  /\ UNCHANGED <<config, db, times, files, progress, faults>>

\* Without an exception the copies are deleted.
LeaveFileTransactions ==
  /\ pc = "leave"
  /\ backup' = {}
  /\ pc' = "delete"
  /\ UNCHANGED <<config, databases, images, local, input, progress, faults>>

\* On Swift the image that was replaced or merged is deleted; should this fail, it
\* stays there.
DeleteRemote ==
  /\ pc = "delete"
  /\ IF Remote /\ mode \in {"merge", "replace"}
       THEN \/ images' = images \ {old.image} /\ UNCHANGED faults
            \/ Fault("step") /\ UNCHANGED images
       ELSE UNCHANGED <<images, faults>>
  /\ pc' = "input"
  /\ UNCHANGED <<config, databases, local, backup, input, progress>>

\* The input image is deleted, or moved if it can be, or left.
DisposeInput ==
  /\ pc = "input"
  /\ input' \in { [input EXCEPT ![pos] = place] :
                    place \in CASE Original = "leave"  -> {"storage"}
                                [] Original = "delete" -> {"deleted"}
                                [] Original = "move"   -> {"success", "storage"} }
  /\ pc' = "result"
  /\ UNCHANGED <<config, databases, images, local, backup, progress, faults>>

-----------------------------------------------------------------------------
(* The end of the transactions, in ingest_browse_report *)

Outcome(outcome) == [browse |-> pos, outcome |-> outcome]

\* The result is added before anything is committed.
AddResult ==
  /\ pc = "result"
  /\ result' = Append(result, Outcome(IF mode = "skip" THEN "skipped" ELSE "success"))
  /\ pc' = "commit"
  /\ UNCHANGED <<config, databases, files, report, pos, old, mode, made, faults>>

\* Fault: only the main database is committed.
CommitMain ==
  /\ pc = "commit"
  /\ db' = tx
  /\ pc' = "log"
  /\ UNCHANGED <<config, times, tx, txTimes, files, progress, faults>>

Commit ==
  /\ pc = "commit"
  /\ db' = tx
  /\ pc' = "commit_mapcache"
  /\ UNCHANGED <<config, times, tx, txTimes, files, progress, faults>>

CommitMapCache ==
  /\ pc = "commit_mapcache"
  /\ times' = txTimes
  /\ pc' = "log"
  /\ UNCHANGED <<config, db, tx, txTimes, files, progress, faults>>

\* What ingest_browse knows of a browse goes when it returns.
ForgetBrowse == old' = None /\ mode' = "create"

\* Seeding, the exceptions of which are caught, and the log of ingestions.
Log ==
  /\ pc = "log"
  /\ pos' = pos + 1
  /\ pc' = "decide"
  /\ ForgetBrowse
  /\ UNCHANGED <<config, databases, files, report, result, made, faults>>

\* An exception: a failure is added and both transactions are rolled back.
RollBack ==
  /\ pc = "rollback"
  /\ result' = Append(result, Outcome("failure"))
  /\ tx' = db /\ txTimes' = times
  /\ pos' = pos + 1
  /\ pc' = "decide"
  /\ ForgetBrowse
  /\ UNCHANGED <<config, db, times, files, report, made, faults>>

\* The report is done: the result is returned.
Answer ==
  /\ pc = "decide" /\ pos > Len(report.items)
  /\ report' = NoReport /\ result' = <<>> /\ input' = <<>> /\ pos' = 1
  /\ pc' = "idle"
  /\ UNCHANGED <<config, databases, images, local, backup, old, mode, made, faults>>

-----------------------------------------------------------------------------
(* Exceptions *)

\* Fault: it is deleted as after a success.
DeleteInput ==
  input' \in { [input EXCEPT ![pos] = place] :
                 place \in IF Original = "leave" THEN {"storage"} ELSE {"deleted", "storage"} }

\* The input image is moved to the failure directory, if it can be.
MoveInputToFailure ==
  input' \in { [input EXCEPT ![pos] = place] :
                 place \in IF Original = "leave" THEN {"storage"} ELSE {"failure", "storage"} }

\* Before the browse is retrieved the input image is not known.
RetrieveFails ==
  /\ pc = "retrieve"
  /\ Fault("step")
  /\ pc' = "rollback"
  /\ UNCHANGED <<config, databases, files, progress>>

RemoveFails ==
  /\ pc \in {"remove", "enter"}
  /\ \/ Fault("step")
     \/ pc = "enter" /\ Remote /\ ~Mergeable /\ UNCHANGED faults
  /\ MoveInputToFailure
  /\ pc' = "rollback"
  /\ UNCHANGED <<config, databases, images, local, backup, progress>>

\* Fault: the output file is not deleted.
LeaveOutput ==
  /\ images' = images \cup backup
  /\ UNCHANGED local
  /\ backup' = {}

\* The exception leaves the FileTransactions: the output file is deleted and what
\* was backed up is restored.  What was uploaded stays on Swift.
LeaveWithException ==
  /\ images' = (IF Remote THEN images ELSE images \ {made}) \cup backup
  /\ local' = local \ {made}
  /\ backup' = {}

IngestFails ==
  /\ pc \in {"process", "upload", "create"}
  /\ \/ Fault("step")
     \/ pc = "process" /\ ~Remote /\ ~Mergeable /\ UNCHANGED faults
  /\ LeaveWithException
  /\ MoveInputToFailure
  /\ pc' = "rollback"
  /\ UNCHANGED <<config, databases, progress>>

\* The upload is done, but what comes after it fails.
UploadFails ==
  /\ pc = "upload"
  /\ Fault("step")
  /\ images' = images \cup {made}
  /\ local' = local \ {made}
  /\ MoveInputToFailure
  /\ pc' = "rollback"
  /\ UNCHANGED <<config, databases, backup, progress>>

\* The input image cannot be deleted.
DisposeFails ==
  /\ pc = "input" /\ Original = "delete"
  /\ Fault("input")
  /\ pc' = "rollback"
  /\ UNCHANGED <<config, databases, files, progress>>

\* One of the databases does not commit: MapCache's is SQLite, and may be locked.
CommitFails ==
  /\ pc \in {"commit", "commit_mapcache"}
  /\ Fault("commit")
  /\ pc' = "rollback"
  /\ UNCHANGED <<config, databases, files, progress>>

LogFails ==
  /\ pc = "log"
  /\ Fault("log")
  /\ pc' = "rollback"
  /\ UNCHANGED <<config, databases, files, progress>>

\* The process is killed: what is not committed is gone, and nobody knows what the
\* copies in the temporary directory are.
Crash ==
  /\ pc # "idle"
  /\ Fault("crash")
  /\ tx' = db /\ txTimes' = times
  /\ report' = NoReport /\ result' = <<>> /\ input' = <<>> /\ pos' = 1
  /\ backup' = {}
  /\ pc' = "idle"
  /\ ForgetBrowse
  /\ UNCHANGED <<config, db, times, images, local, made>>

-----------------------------------------------------------------------------
Init ==
  /\ db = [id \in Id |-> None] /\ tx = db
  /\ times = [id \in Id |-> None] /\ txTimes = times
  /\ images = {} /\ local = {} /\ backup = {} /\ input = <<>>
  /\ pc = "idle" /\ report = NoReport /\ result = <<>> /\ pos = 1
  /\ old = None /\ mode = "create" /\ made = 0
  /\ faults = <<>> /\ config \in Configs

Reports == UNION { [1 .. n -> Id] : n \in 1 .. MaxLen }

Exception ==
  \/ RetrieveFails \/ RemoveFails \/ IngestFails \/ UploadFails
  \/ DisposeFails \/ CommitFails \/ LogFails

Next ==
  \/ \E items \in Reports, date \in Date, strategy \in Strategies : Submit(items, date, strategy)
  \/ Wait \/ Decide \/ Retrieve \/ Remove \/ EnterFileTransactions \/ Process \/ Upload \/ Create
  \/ LeaveFileTransactions \/ DeleteRemote \/ DisposeInput
  \/ AddResult \/ Commit \/ CommitMapCache \/ Log \/ RollBack \/ Answer
  \/ Exception
  \/ Crash

Spec == Init /\ [][Next]_vars

-----------------------------------------------------------------------------
(* Properties *)

\* No browse is being ingested.
Between == pc \in {"idle", "decide"}

\* Record, time span and image of a browse fit.
Sound(id) == IF db[id] = None THEN times[id] = None
                              ELSE times[id] = db[id].image /\ db[id].image \in images

\* No other faults happened than of these kinds.
Only(kinds) == Range(faults) \subseteq kinds

\* Between two browses, record, time span and image of a browse fit, whatever failed before:
\* the steps of the ingestion, or the log after it, do no harm.  An input image that cannot
\* be deleted, a commit that fails or the death of the process harms one browse at most,
\* the one that was being ingested, and it heals when the browse is ingested again.  "This
\* should in principle never happen, as it means the two databases are out of sync"
\* (queries.py:316).
BoundedDamage ==
  Between => Cardinality({ id \in Id : ~Sound(id) })
               =< Cardinality({ k \in DOMAIN faults : faults[k] \notin {"step", "log"} })

\* "undo latest changes, append the failure and continue" (ingest/__init__.py:264): a browse
\* that is reported as a failure leaves record, time span and image as they were found,
\* whichever step failed and whatever failed for the browses before.
FailedUndone ==
  [][ pc = "rollback" /\ result' # <<>> /\ Only({"step"}) =>
        /\ db'[Current] = old
        /\ times'[Current] = (IF old = None THEN None ELSE old.image)
        /\ old # None => old.image \in images' ]_vars

\* "Path to a directory to store originals of browse images which failed to ingest"
\* (ngeo.conf:66): the input image of a browse that failed is there or where it was, unless
\* it was the commit or the log that failed, the input image having been disposed of.
InputKept ==
  Only({"step", "input"}) =>
    \A k \in DOMAIN result :
      result[k].outcome = "failure" => input[result[k].browse] \in {"failure", "storage"}

\* Without Swift, every image and copy that is not needed any more is deleted between two
\* browses, whichever steps failed.
NoStrayFiles ==
  Between /\ ~Remote /\ Only({"step", "log"}) =>
    /\ \A image \in images : \E id \in Id : db[id] # None /\ db[id].image = image
    /\ local = {} /\ backup = {}

\* "The skip strategy skips the ingestion when the new browse is not newer": a record
\* then gives way only to that of a newer report.
SkipKeepsNewer ==
  [][ \A id \in Id : report.strategy = "skip" /\ db[id] # None =>
        db'[id] = db[id] \/ (db'[id] # None /\ db'[id].date > db[id].date) ]_vars

\* What a client is shown, and told.
Service == INSTANCE IngestService WITH
             catalogue <- [id \in Id |-> IF db[id] = None THEN None ELSE db[id].image],
             items     <- report.items,
             outcomes  <- [k \in 1 .. Len(result) - (IF pc = "commit" THEN 1 ELSE 0)
                             |-> result[k].outcome],
             kept      <- Only({"step", "input", "crash"})

\* The ingestion of a browse is atomic for a client, and its outcome the one reported, up
\* to the first commit or log that fails.
ImplementsService == Service!Spec

===============================================================================
