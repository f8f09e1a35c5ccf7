---------------------------- MODULE ServerControl -----------------------------
(***************************************************************************)
(* The state of the server and the controller it is registered with, each  *)
(* kept in a file under a file lock of its own, and the requests that the  *)
(* processes of the web server handle.                                     *)
(*                                                                         *)
(* FileLock models the locks; here they are exclusive, and whoever does    *)
(* not get one is refused.  That a call waits for a second (state) is that *)
(* it tries later.                                                         *)
(*                                                                         *)
(* Source: ngeo_browse_server/control/control/status.py and register.py,   *)
(*         ngeo_browse_server/control/views.py                             *)
(***************************************************************************)
EXTENDS Naturals

CONSTANTS Handler,     \* processes of the web server
          Controller,  \* controller servers: identifier and address
          None,        \* no controller, no process
          Absent,      \* there is no status file yet
          Empty,       \* what a file is when its writer was killed
          MaxKills     \* how many processes are killed (bound of the model)

Command == {"pause", "resume", "start", "shutdown", "restart"}
State == {"RUNNING", "PAUSED", "STOPPED"}
ControlRequest ==
  [op : Command \cup {"state", "ingest", "configure"}, from : {None}]
    \cup [op : {"register", "unregister"}, from : Controller]

ASSUME ControlAssumption ==
  /\ None \notin Handler \cup Controller /\ Empty \notin State \cup Controller
  /\ Empty # None /\ Absent \notin State \cup {Empty}
  /\ MaxKills \in Nat

VARIABLES
  status,           \* the status file
  controller,       \* the controller file
  status_lock,      \* who holds the lock of each
  controller_lock,
  handling,         \* what each process does,
  request,          \* and for which request
  told,             \* history: controllers that were told they are registered
  kills

control_files == <<status, controller>>
locks == <<status_lock, controller_lock>>
controlvars == <<control_files, locks, handling, request, told, kills>>

NoRequest == [op |-> "none", from |-> None]

Op(p) == request[p].op
Goto(p, step) == handling' = [handling EXCEPT ![p] = step]

\* The request is answered.
Answer(p) == Goto(p, "idle") /\ request' = [request EXCEPT ![p] = NoRequest]

\* The answer to a command that is refused tells the state, which is looked up for it.
Refuse(p) ==
  IF Op(p) \in Command
    THEN Goto(p, "lock") /\ request' = [request EXCEPT ![p] = [op |-> "state", from |-> None]]
    ELSE Answer(p)

\* "To 'pause', the server needs to be 'RUNNING'." and so on.
Needed(command) == CASE command = "resume" -> "PAUSED"
                     [] command = "start"  -> "STOPPED"
                     [] OTHER              -> "RUNNING"
Target(command) == CASE command = "pause"    -> "PAUSED"
                     [] command = "shutdown" -> "STOPPED"
                     [] OTHER                -> "RUNNING"

-----------------------------------------------------------------------------
\* All but the requests for the configuration of the instance look up the state: these
\* compare a method with a string.  A controller waits for the answer to a request
\* before it makes another.
BeginHandling(p, r) ==
  /\ handling[p] = "idle"
  /\ r.from # None => \A q \in Handler : request[q].from # r.from
  /\ request' = [request EXCEPT ![p] = r]
  /\ Goto(p, IF r.op = "configure" THEN "work" ELSE "lock")
  /\ told' = IF r.op = "unregister" THEN told \ {r.from} ELSE told
  /\ UNCHANGED <<control_files, locks, kills>>

\* Fault: the state is looked up without the lock.
LockNothing(p) ==
  /\ handling[p] = "lock"
  /\ Goto(p, "read")
  /\ UNCHANGED <<control_files, locks, request, told, kills>>

LockStatus(p) ==
  /\ handling[p] = "lock"
  /\ IF status_lock # None
       THEN Refuse(p) /\ UNCHANGED status_lock
       ELSE status_lock' = p /\ Goto(p, "read") /\ UNCHANGED request
  /\ UNCHANGED <<control_files, controller_lock, told, kills>>

\* The server is running unless the file says something else.
Current == IF status = Absent THEN "RUNNING" ELSE status

\* The file is read, and written if there is none; one that is empty cannot be read.
ReadStatus(p) ==
  /\ handling[p] = "read"
  /\ status' = Current
  /\ \/ /\ Op(p) \in Command /\ Current = Needed(Op(p))
        /\ Goto(p, "write") /\ UNCHANGED <<request, status_lock>>
     \/ /\ Op(p) \notin Command \cup {"state"} /\ Current = "RUNNING"
        /\ Goto(p, IF Op(p) = "ingest" THEN "work" ELSE "controller")
        /\ status_lock' = None /\ UNCHANGED request
     \/ /\ \/ Op(p) = "state"
           \/ Op(p) \in Command /\ Current # Needed(Op(p))
           \/ Op(p) \notin Command /\ Current # "RUNNING"
        /\ Refuse(p) /\ status_lock' = None
  /\ UNCHANGED <<controller, controller_lock, told, kills>>

WriteStatus(p) ==
  /\ handling[p] = "write"
  /\ status' = Target(Op(p))
  /\ status_lock' = None
  /\ Answer(p)
  /\ UNCHANGED <<controller, controller_lock, told, kills>>

\* A report is ingested, or the configuration read or changed.
Work(p) ==
  /\ handling[p] = "work"
  /\ Answer(p)
  /\ UNCHANGED <<control_files, locks, told, kills>>

\* "There is currently another registration in progress."
LockController(p) ==
  /\ handling[p] = "controller"
  /\ IF controller_lock # None
       THEN Answer(p) /\ UNCHANGED controller_lock
       ELSE controller_lock' = p /\ Goto(p, "check") /\ UNCHANGED request
  /\ UNCHANGED <<control_files, status_lock, told, kills>>

\* Fault: the lock is released when the file was looked for.
CheckReleasing(p) ==
  /\ handling[p] = "check"
  /\ controller_lock' = None
  /\ IF controller = (IF Op(p) = "register" THEN None ELSE request[p].from)
       THEN Goto(p, Op(p)) /\ UNCHANGED request
       ELSE Answer(p)
  /\ UNCHANGED <<control_files, status_lock, told, kills>>

\* A controller can be registered when none is, and unregistered by itself.
CheckController(p) ==
  /\ handling[p] = "check"
  /\ IF controller = (IF Op(p) = "register" THEN None ELSE request[p].from)
       THEN Goto(p, Op(p)) /\ UNCHANGED <<request, controller_lock>>
       ELSE Answer(p) /\ controller_lock' = None
  /\ UNCHANGED <<control_files, status_lock, told, kills>>

\* The file is written, or removed, and the lock released.
ChangeController(p) ==
  /\ handling[p] \in {"register", "unregister"}
  /\ controller' = IF Op(p) = "register" THEN request[p].from ELSE None
  /\ controller_lock' = None
  /\ Goto(p, "success")
  /\ UNCHANGED <<status, status_lock, request, told, kills>>

Confirm(p) ==
  /\ handling[p] = "success"
  /\ told' = IF Op(p) = "register" THEN told \cup {request[p].from} ELSE told
  /\ Answer(p)
  /\ UNCHANGED <<control_files, locks, kills>>

\* A process is killed.  Its locks are taken for stale, but a file it has opened to
\* write is empty.
Kill(p) ==
  /\ handling[p] # "idle" /\ kills < MaxKills
  /\ kills' = kills + 1
  /\ status' \in IF handling[p] = "write" \/ (handling[p] = "read" /\ status = Absent)
                  THEN {status, Empty} ELSE {status}
  /\ controller' \in IF handling[p] = "register" THEN {controller, Empty} ELSE {controller}
  /\ status_lock' = IF status_lock = p THEN None ELSE status_lock
  /\ controller_lock' = IF controller_lock = p THEN None ELSE controller_lock
  /\ Answer(p)
  /\ UNCHANGED told

-----------------------------------------------------------------------------
ControlInit ==
  /\ status = Absent /\ controller = None
  /\ status_lock = None /\ controller_lock = None
  /\ handling = [p \in Handler |-> "idle"] /\ request = [p \in Handler |-> NoRequest]
  /\ told = {} /\ kills = 0

ControlNext ==
  \E p \in Handler :
    \/ \E r \in ControlRequest : BeginHandling(p, r)
    \/ LockStatus(p) \/ ReadStatus(p) \/ WriteStatus(p) \/ Work(p)
    \/ LockController(p) \/ CheckController(p) \/ ChangeController(p)
    \/ Confirm(p) \/ Kill(p)

ControlSpec == ControlInit /\ [][ControlNext]_controlvars

-----------------------------------------------------------------------------
(* Properties *)

ControlTypeOK ==
  /\ status \in State \cup {Absent, Empty} /\ controller \in Controller \cup {None, Empty}
  /\ status_lock \in Handler \cup {None} /\ controller_lock \in Handler \cup {None}
  /\ handling \in [Handler -> { "idle", "lock", "read", "write", "work",
                               "controller", "check", "register", "unregister", "success" }]
  /\ request \in [Handler -> ControlRequest \cup {NoRequest}]
  /\ told \subseteq Controller
  /\ kills \in 0 .. MaxKills

\* The state of the server only changes as the commands allow, however many are given
\* at the same time: a server that is paused is not stopped before it is resumed.
LegalTransitions ==
  [][ status' # status =>
        \/ status = Absent \/ status' = Empty
        \/ \E command \in Command : status = Needed(command) /\ status' = Target(command) ]_controlvars

\* A controller that was told it is registered, and has not asked to be unregistered
\* since, is the one in the file: no other took its place, and no process that was
\* killed lost it.
RegisteredAsTold == told \subseteq {controller}

===============================================================================
