------------------------------- MODULE FileLock -------------------------------
(***************************************************************************)
(* The lock that keeps the processes of the server (web workers, ingestion *)
(* commands, daemons) from writing mapcache.xml, the controller            *)
(* configuration and the status file, or from seeding one tileset, at the  *)
(* same time.  A process owns the lock while the lock file it created is   *)
(* there; the file holds the process id of its owner, so that the file of  *)
(* a process that died can be recognised and deleted.                      *)
(*                                                                         *)
(* A process of the model makes one attempt under one process id; what a   *)
(* restarted process does is the attempt of another member of Proc.  Files *)
(* are told apart by who created them: a file that was deleted and created *)
(* again is another file under the same path.                              *)
(*                                                                         *)
(* Source: ngeo_browse_server/lock.py                                      *)
(***************************************************************************)
EXTENDS Naturals

CONSTANTS Proc,       \* processes, i.e. process ids
          Patient,    \* those that passed a timeout to FileLock
          Mortal,     \* those that may be killed
          MaxTries,   \* attempts that fit into a timeout (bound of the model)
          None        \* no process

ASSUME FileLockAssumption ==
  /\ Patient \subseteq Proc
  /\ Mortal \subseteq Proc
  /\ MaxTries \in Nat \ {0}
  /\ None \notin Proc

VARIABLES pc,         \* where each process is in acquire .. release
          path,       \* who created the file that is under the path now
          stamped,    \* creators that have written their id to their file
          seen,       \* creator of the file that a process opened to read
          tries,      \* attempts made
          clean       \* history: see Read

vars == <<pc, path, stamped, seen, tries, clean>>

Step == { "idle", "create", "write", "held", "open", "read", "unlink", "wait",
          "done", "refused", "oserror", "unreleased", "dead" }

\* The processes between the creation of their lock file and its deletion.
Owners == { p \in Proc : pc[p] \in {"write", "held"} }

\* The processes in the section the lock protects.
Holders == { p \in Proc : pc[p] = "held" }

Alive(p) == pc[p] # "dead"

Goto(p, step) == pc' = [pc EXCEPT ![p] = step]

-----------------------------------------------------------------------------
Init ==
  /\ pc = [p \in Proc |-> "idle"]
  /\ path = None
  /\ stamped = {}
  /\ seen = [p \in Proc |-> None]
  /\ tries = [p \in Proc |-> 0]
  /\ clean = TRUE

\* acquire() is called.
Begin(p) ==
  /\ pc[p] = "idle"
  /\ Goto(p, "create")
  /\ UNCHANGED <<path, stamped, seen, tries, clean>>

\* Fault: the file is opened without O_EXCL.
CreateShared(p) ==
  /\ pc[p] = "create"
  /\ tries' = [tries EXCEPT ![p] = @ + 1]
  /\ path' = p /\ Goto(p, "write")
  /\ UNCHANGED <<stamped, seen, clean>>

\* os.open with O_CREAT|O_EXCL: creates the file, or reports EEXIST.
Create(p) ==
  /\ pc[p] = "create"
  /\ tries' = [tries EXCEPT ![p] = @ + 1]
  /\ IF path = None
       THEN path' = p /\ Goto(p, "write")
       ELSE UNCHANGED path /\ Goto(p, "open")
  /\ UNCHANGED <<stamped, seen, clean>>

\* os.write of the process id, through the descriptor: it reaches the file of
\* this process, whatever is under the path by now.
Write(p) ==
  /\ pc[p] = "write"
  /\ stamped' = stamped \cup {p}
  /\ Goto(p, "held")
  /\ UNCHANGED <<path, seen, tries, clean>>

\* os.open of the file that was in the way.  The file may be gone by now: that
\* OSError is not caught.
Open(p) ==
  /\ pc[p] = "open"
  /\ IF path = None
       THEN UNCHANGED seen /\ Goto(p, "oserror")
       ELSE seen' = [seen EXCEPT ![p] = path] /\ Goto(p, "read")
  /\ UNCHANGED <<path, stamped, tries, clean>>

\* Fault: only the empty file is recognised as left behind.
ReclaimableIfEmpty(q) == q \notin stamped

\* An empty file and the file of a process that does not exist are to be deleted.
Reclaimable(q) == q \notin stamped \/ ~Alive(q)

\* What deciding to delete the file takes for granted: the file that was opened
\* is still the one under the path, its creator does not exist any more, and no
\* other process is about to delete it.
Unambiguous(p) ==
  /\ path = seen[p]
  /\ ~Alive(seen[p])
  /\ \A q \in Proc : pc[q] # "unlink"

\* os.read and os.kill(pid, 0).  As a history, clean says whether every decision
\* to delete so far was unambiguous; no action depends on it.
Read(p) ==
  /\ pc[p] = "read"
  /\ IF Reclaimable(seen[p])
       THEN clean' = (clean /\ Unambiguous(p)) /\ Goto(p, "unlink")
       ELSE UNCHANGED clean /\ Goto(p, "wait")
  /\ UNCHANGED <<path, stamped, seen, tries>>

\* os.unlink deletes whatever is under the path now; when there is nothing, the
\* OSError is not caught.
Unlink(p) ==
  /\ pc[p] = "unlink"
  /\ path' = None
  /\ Goto(p, IF path = None THEN "oserror" ELSE "wait")
  /\ UNCHANGED <<stamped, seen, tries, clean>>

\* Fault: the time that has passed is not compared with the timeout.
RetryForever(p) ==
  /\ pc[p] = "wait"
  /\ p \in Patient
  /\ Goto(p, "create")
  /\ UNCHANGED <<path, stamped, seen, tries, clean>>

\* LockException without a timeout or after it, else another attempt: the file
\* being deleted just now makes no difference.
Retry(p) ==
  /\ pc[p] = "wait"
  /\ p \in Patient /\ tries[p] < MaxTries
  /\ Goto(p, "create")
  /\ UNCHANGED <<path, stamped, seen, tries, clean>>

\* Fault: with a timeout, LockException is never raised.
RefuseImpatient(p) ==
  /\ pc[p] = "wait"
  /\ p \notin Patient
  /\ Goto(p, "refused")
  /\ UNCHANGED <<path, stamped, seen, tries, clean>>

Refuse(p) ==
  /\ pc[p] = "wait"
  /\ Goto(p, "refused")
  /\ UNCHANGED <<path, stamped, seen, tries, clean>>

\* Fault: the descriptor is closed and the file kept.
ReleaseClosing(p) ==
  /\ pc[p] = "held"
  /\ Goto(p, "done")
  /\ UNCHANGED <<path, stamped, seen, tries, clean>>

\* release(): again the file that is under the path now.
Release(p) ==
  /\ pc[p] = "held"
  /\ path' = None
  /\ Goto(p, IF path = None THEN "unreleased" ELSE "done")
  /\ UNCHANGED <<stamped, seen, tries, clean>>

Over == {"done", "refused", "oserror", "unreleased"}

\* The process is killed; its lock file stays behind.
Kill(p) ==
  /\ p \in Mortal
  /\ pc[p] \notin Over \cup {"idle", "dead"}
  /\ Goto(p, "dead")
  /\ UNCHANGED <<path, stamped, seen, tries, clean>>

\* The process ends some time after its attempt.
Exit(p) ==
  /\ pc[p] \in Over
  /\ Goto(p, "dead")
  /\ UNCHANGED <<path, stamped, seen, tries, clean>>

Progress(p) ==
  \/ Create(p) \/ Write(p) \/ Open(p) \/ Read(p) \/ Unlink(p)
  \/ Retry(p) \/ Refuse(p) \/ Release(p)

Next == \E p \in Proc : Begin(p) \/ Progress(p) \/ Kill(p) \/ Exit(p)

Spec == Init /\ [][Next]_vars

\* A process that runs is scheduled; nobody has to begin and nobody to be killed.
FairSpec == Spec /\ \A p \in Proc : WF_vars(Progress(p))

-----------------------------------------------------------------------------
(* Properties *)

TypeOK ==
  /\ pc \in [Proc -> Step]
  /\ path \in Proc \cup {None}
  /\ stamped \subseteq Proc
  /\ seen \in [Proc -> Proc \cup {None}]
  /\ tries \in [Proc -> 0 .. MaxTries]
  /\ clean \in BOOLEAN

\* FileLock is an exclusive lock (docstring of the class).  The empty file
\* between Create and Write, and deleting by path what was judged before, break
\* this.
MutualExclusion == \A p, q \in Holders : p = q

\* The only way to break it is an ambiguous decision to delete: without one,
\* every owner has its file under the path, so that there is one owner at a
\* time and release() deletes its own file.
ExclusiveWhenClean == clean => \A p \in Owners : path = p

\* A lock file is never left behind by a process that is still there: what is
\* under the path belongs to an owner or to a process that has died.
NoAbandonedFile == path # None => path \in Owners \/ ~Alive(path)

\* The file of a dead process does not block the others for ever: once somebody
\* asks for the lock, the file goes.
StaleFileGoes ==
  \A d \in Proc :
    (path = d /\ ~Alive(d) /\ \E p \in Proc \ Mortal : pc[p] = "create") ~> path # d

\* acquire() ends, with the lock or with an exception.
AcquireEnds ==
  \A p \in Proc : pc[p] = "create" ~> pc[p] \in {"held"} \cup Over \cup {"dead"}
=============================================================================
