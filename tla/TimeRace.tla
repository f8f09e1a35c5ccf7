------------------------------- MODULE TimeRace -------------------------------
(***************************************************************************)
(* TimeIndex step by step, with a main database that lets transactions     *)
(* overlap (PostGIS, which the installation script sets up), while the     *)
(* watch daemon runs several processes that ingest.  The MapCache database *)
(* is SQLite: it has one writer at a time, but a process becomes the       *)
(* writer only with its first change, after it has read the Time table.    *)
(*                                                                         *)
(* A process works on one browse: one to create (the look-up did not find  *)
(* it) or one to remove.                                                   *)
(*                                                                         *)
(* Source: ngeo_browse_server/control/queries.py                           *)
(***************************************************************************)
EXTENDS TimeIndex

CONSTANTS Proc, None

VARIABLES job,      \* what each process works on, and the Time entries it has read
          writer,   \* the process that may write to the MapCache database
          table     \* the Time table as its transaction sees it

racevars == <<vars, job, writer, table>>

Idle == [op |-> "idle", browse |-> None, read |-> {}]

RaceInit == Init /\ job = [p \in Proc |-> Idle] /\ writer = None /\ table = {}

\* Browses that somebody works on: two processes that take the same browse are
\* refused by the keys of the main database.
Claimed == { job[p].browse.name : p \in { q \in Proc : job[q] # Idle } }

\* create_browse until it has read the Time entries that overlap the new browse.
BeginCreate(p) ==
  /\ job[p] = Idle
  /\ \E b \in Catalog :
       /\ \A o \in browses : o.name # b.name
       /\ b.name \notin Claimed
       /\ job' = [job EXCEPT ![p] = [op |-> "create", browse |-> b,
                                     read |-> Overlapping(times, b.area)]]
  /\ UNCHANGED <<vars, writer, table>>

\* remove_browse until it has read the Time entries that overlap the old one.
BeginRemove(p) ==
  /\ job[p] = Idle
  /\ \E o \in browses :
       /\ o.name \notin Claimed
       /\ job' = [job EXCEPT ![p] = [op |-> "remove", browse |-> o,
                                     read |-> Overlapping(times, o.area)]]
  /\ UNCHANGED <<vars, writer, table>>

\* The hull is that of the entries that were read; times_qs.delete() evaluates
\* the query again.
WriteCreate(p) ==
  /\ job[p].op = "create" /\ writer = None
  /\ LET b == job[p].browse
         gone == IF job[p].read = {} THEN {} ELSE Overlapping(times, b.area)
     IN table' = (times \ gone) \cup { Hull(job[p].read \cup {b.area}) }
  /\ writer' = p
  /\ UNCHANGED <<vars, job>>

\* The entry that was read is deleted by its key; the browses left in its span
\* are those the process can see by then.
WriteRemove(p) ==
  /\ job[p].op = "remove" /\ writer = None
  /\ LET o == job[p].browse
     IN IF job[p].read = {}
          THEN table' = times
          ELSE \E t \in Kept(job[p].read) :
                 table' = Split([rest |-> times \ job[p].read, kept |-> t], browses \ {o})
  /\ writer' = p
  /\ UNCHANGED <<vars, job>>

Commit(p) ==
  /\ writer = p
  /\ browses' = IF job[p].op = "create" THEN browses \cup {job[p].browse}
                                        ELSE browses \ {job[p].browse}
  /\ times' = table
  /\ job' = [job EXCEPT ![p] = Idle]
  /\ writer' = None /\ table' = {}

\* The MapCache database is locked for too long, or something else fails.
Rollback(p) ==
  /\ job[p] # Idle
  /\ job' = [job EXCEPT ![p] = Idle]
  /\ writer' = IF writer = p THEN None ELSE writer
  /\ table' = IF writer = p THEN {} ELSE table
  /\ UNCHANGED vars

RaceNext ==
  \E p \in Proc : \/ BeginCreate(p) \/ BeginRemove(p)
                  \/ WriteCreate(p) \/ WriteRemove(p)
                  \/ Commit(p) \/ Rollback(p)

RaceSpec == RaceInit /\ [][RaceNext]_racevars

-----------------------------------------------------------------------------
(* Properties *)

\* remove_browse finds at least one Time entry for every registered browse: "this
\* should in principle never happen, as it means the two databases are out of sync"
\* (queries.py:316).
InSync == \A b \in browses : Overlapping(times, b.area) # {}
===============================================================================
