-------------------------- MODULE ServerControlProofs --------------------------
(***************************************************************************)
(* What ServerControl guarantees for any number of processes, controllers  *)
(* and kills.  The inductive invariant says that a process works on a file *)
(* only while it has its lock, and that what it has found there still      *)
(* holds.                                                                  *)
(***************************************************************************)
EXTENDS ServerControl, TLAPS

\* The status file is worked on under its lock.
StatusLocked == \A p \in Handler : handling[p] \in {"read", "write"} => status_lock = p

\* A command that is about to write the new state still finds the one it needs.
CommandHolds ==
  \A p \in Handler : handling[p] = "write" => Op(p) \in Command /\ status = Needed(Op(p))

\* The controller file is worked on under its lock.
ControllerLocked ==
  \A p \in Handler : handling[p] \in {"check", "register", "unregister"} => controller_lock = p

\* Requests do what they are for, and a process about to change the controller file still
\* finds what it needs there.
ControllerChecked ==
  \A p \in Handler :
    /\ handling[p] \in {"lock", "read"} => Op(p) \notin {"configure", "none"}
    /\ handling[p] \in {"controller", "check", "success"} => Op(p) \in {"register", "unregister"}
    /\ handling[p] = "register" => Op(p) = "register" /\ controller = None
    /\ handling[p] = "unregister" => Op(p) = "unregister" /\ controller = request[p].from

\* A registration that is not confirmed yet is in the file, and a controller that has
\* asked to be unregistered does not count as told.
Confirmable ==
  \A p \in Handler :
    /\ handling[p] = "success" /\ Op(p) = "register" => controller = request[p].from
    /\ Op(p) = "unregister" => request[p].from \notin told

\* A controller has one request at a time.
OneRequestEach ==
  \A p, q \in Handler : request[p].from = request[q].from /\ request[p].from # None => p = q

IInv ==
  /\ ControlTypeOK
  /\ StatusLocked /\ CommandHolds
  /\ ControllerLocked /\ ControllerChecked
  /\ Confirmable /\ OneRequestEach /\ RegisteredAsTold

\* Which controller a request is from.
LEMMA RequestTyping ==
  ASSUME NEW r \in ControlRequest \cup {NoRequest}
  PROVE  /\ r.op \in Command \cup {"state", "ingest", "configure", "register", "unregister", "none"}
         /\ r.op \in {"register", "unregister"} => r.from \in Controller
         /\ r.op \notin {"register", "unregister"} => r.from = None
BY DEF ControlRequest, NoRequest, Command

LEMMA CommandTyping ==
  ASSUME NEW c \in Command
  PROVE  Needed(c) \in State /\ Target(c) \in State
BY DEF Command, State, Needed, Target

LEMMA InitInv == ControlInit => IInv
BY ControlAssumption
   DEF ControlInit, IInv, ControlTypeOK, StatusLocked, CommandHolds, ControllerLocked,
       ControllerChecked, Confirmable, OneRequestEach, RegisteredAsTold, Op, NoRequest

-----------------------------------------------------------------------------
(* Each action keeps the types.                                            *)

LEMMA TypePreserved ==
  ASSUME IInv, [ControlNext]_controlvars
  PROVE  ControlTypeOK'
<1> USE DEF IInv, ControlTypeOK
<1>1. \A p \in Handler : request[p] \in ControlRequest \cup {NoRequest}
  OBVIOUS
<1>2. /\ NoRequest \in ControlRequest \cup {NoRequest}
      /\ [op |-> "state", from |-> None] \in ControlRequest
  BY DEF ControlRequest
<1>3. ASSUME NEW p \in Handler, NEW r \in ControlRequest, BeginHandling(p, r)
      PROVE  ControlTypeOK'
  BY <1>3 DEF BeginHandling, Goto, control_files, locks
<1>4. ASSUME NEW p \in Handler, LockStatus(p) PROVE ControlTypeOK'
  BY <1>2, <1>4 DEF LockStatus, Refuse, Answer, Goto, control_files
<1>5. ASSUME NEW p \in Handler, ReadStatus(p) PROVE ControlTypeOK'
  BY <1>2, <1>5 DEF ReadStatus, Current, Refuse, Answer, Goto, State
<1>6. ASSUME NEW p \in Handler, WriteStatus(p) PROVE ControlTypeOK'
  <2>1. Target(Op(p)) \in State
    BY <1>6, CommandTyping DEF WriteStatus, CommandHolds
  <2> QED
    BY <1>2, <1>6, <2>1 DEF WriteStatus, Answer, Goto
<1>7. ASSUME NEW p \in Handler, Work(p) PROVE ControlTypeOK'
  BY <1>2, <1>7 DEF Work, Answer, Goto, control_files, locks
<1>8. ASSUME NEW p \in Handler, LockController(p) PROVE ControlTypeOK'
  BY <1>2, <1>8 DEF LockController, Answer, Goto, control_files
<1>9. ASSUME NEW p \in Handler, CheckController(p) PROVE ControlTypeOK'
  <2>1. Op(p) \in {"register", "unregister"}
    BY <1>9 DEF CheckController, ControllerChecked
  <2> QED
    BY <1>2, <1>9, <2>1 DEF CheckController, Answer, Goto, control_files
<1>10. ASSUME NEW p \in Handler, ChangeController(p) PROVE ControlTypeOK'
  <2>1. Op(p) = "register" => request[p].from \in Controller
    BY <1>1, RequestTyping DEF Op
  <2> QED
    BY <1>10, <2>1 DEF ChangeController, Goto
<1>11. ASSUME NEW p \in Handler, Confirm(p) PROVE ControlTypeOK'
  <2>1. Op(p) = "register" => request[p].from \in Controller
    BY <1>1, RequestTyping DEF Op
  <2> QED
    BY <1>2, <1>11, <2>1 DEF Confirm, Answer, Goto, control_files, locks
<1>12. ASSUME NEW p \in Handler, Kill(p) PROVE ControlTypeOK'
  BY <1>2, <1>12, ControlAssumption DEF Kill, Answer, Goto
<1>13. CASE UNCHANGED controlvars
  BY <1>13 DEF controlvars, control_files, locks
<1> QED
  BY <1>3, <1>4, <1>5, <1>6, <1>7, <1>8, <1>9, <1>10, <1>11, <1>12, <1>13 DEF ControlNext

-----------------------------------------------------------------------------
(* The status file                                                         *)

LEMMA StatusPreserved ==
  ASSUME IInv, [ControlNext]_controlvars
  PROVE  StatusLocked' /\ CommandHolds'
<1> USE DEF IInv, ControlTypeOK, StatusLocked, CommandHolds
<1>1. ASSUME NEW p \in Handler, NEW r \in ControlRequest, BeginHandling(p, r)
      PROVE  StatusLocked' /\ CommandHolds'
  BY <1>1 DEF BeginHandling, Goto, Op, control_files, locks
<1>2. ASSUME NEW p \in Handler, LockStatus(p) PROVE StatusLocked' /\ CommandHolds'
  BY <1>2, ControlAssumption DEF LockStatus, Refuse, Answer, Goto, Op, control_files
<1>3. ASSUME NEW p \in Handler, ReadStatus(p) PROVE StatusLocked' /\ CommandHolds'
  <2>1. \A q \in Handler \ {p} : /\ handling[q] \notin {"read", "write"}
                                 /\ handling'[q] = handling[q]
    BY <1>3 DEF ReadStatus, Refuse, Answer, Goto
  <2>2. CASE /\ Op(p) \in Command /\ Current = Needed(Op(p))
             /\ handling' = [handling EXCEPT ![p] = "write"]
             /\ request' = request /\ status_lock' = status_lock
    BY <1>3, <2>1, <2>2 DEF ReadStatus, Op
  <2>3. CASE handling'[p] \notin {"read", "write"}
    BY <2>1, <2>3
  <2> QED
    BY <1>3, <2>2, <2>3 DEF ReadStatus, Refuse, Answer, Goto
<1>4. ASSUME NEW p \in Handler, WriteStatus(p) PROVE StatusLocked' /\ CommandHolds'
  BY <1>4 DEF WriteStatus, Answer, Goto, Op
<1>5. ASSUME NEW p \in Handler, Work(p) \/ Confirm(p) PROVE StatusLocked' /\ CommandHolds'
  BY <1>5 DEF Work, Confirm, Answer, Goto, Op, control_files, locks
<1>6. ASSUME NEW p \in Handler, LockController(p) PROVE StatusLocked' /\ CommandHolds'
  BY <1>6 DEF LockController, Answer, Goto, Op, control_files
<1>7. ASSUME NEW p \in Handler, CheckController(p) PROVE StatusLocked' /\ CommandHolds'
  <2>1. Op(p) \in {"register", "unregister"}
    BY <1>7 DEF CheckController, ControllerChecked
  <2> QED
    BY <1>7, <2>1 DEF CheckController, Answer, Goto, Op, control_files
<1>8. ASSUME NEW p \in Handler, ChangeController(p) PROVE StatusLocked' /\ CommandHolds'
  BY <1>8 DEF ChangeController, Goto, Op
<1>9. ASSUME NEW p \in Handler, Kill(p) PROVE StatusLocked' /\ CommandHolds'
  <2>1. \A q \in Handler \ {p} : handling'[q] = handling[q] /\ Op(q)' = Op(q)
    BY <1>9 DEF Kill, Answer, Goto, Op
  <2>2. handling'[p] = "idle"
    BY <1>9 DEF Kill, Answer, Goto
  <2>3. \A q \in Handler \ {p} : handling[q] \in {"read", "write"} =>
           status_lock' = status_lock /\ (handling[p] \notin {"read", "write"})
    BY <1>9 DEF Kill
  <2>4. handling[p] \notin {"read", "write"} => status' = status
    BY <1>9 DEF Kill
  <2> QED
    BY <2>1, <2>2, <2>3, <2>4
<1>10. CASE UNCHANGED controlvars
  BY <1>10 DEF controlvars, control_files, locks, Op
<1> QED
  BY <1>1, <1>2, <1>3, <1>4, <1>5, <1>6, <1>7, <1>8, <1>9, <1>10 DEF ControlNext

-----------------------------------------------------------------------------
(* The controller file                                                     *)

LEMMA OneRequestPreserved ==
  ASSUME IInv, [ControlNext]_controlvars
  PROVE  OneRequestEach'
<1> USE DEF IInv, ControlTypeOK, OneRequestEach
<1>1. ASSUME NEW p \in Handler, NEW r \in ControlRequest, BeginHandling(p, r)
      PROVE  OneRequestEach'
  BY <1>1 DEF BeginHandling
<1>2. ASSUME NEW p \in Handler,
             \/ request' = request
             \/ \E op \in {"none", "state"} :
                  request' = [request EXCEPT ![p] = [op |-> op, from |-> None]]
      PROVE  OneRequestEach'
  BY <1>2
<1>3. CASE UNCHANGED controlvars
  BY <1>3 DEF controlvars
<1> QED
  BY <1>1, <1>2, <1>3
     DEF ControlNext, LockStatus, ReadStatus, WriteStatus, Work, LockController, CheckController,
         ChangeController, Confirm, Kill, Refuse, Answer, NoRequest

LEMMA ControllerLockPreserved ==
  ASSUME IInv, [ControlNext]_controlvars
  PROVE  ControllerLocked'
<1> USE DEF IInv, ControlTypeOK, ControllerLocked
<1>1. ASSUME NEW p \in Handler, NEW r \in ControlRequest, BeginHandling(p, r)
      PROVE  ControllerLocked'
  BY <1>1 DEF BeginHandling, Goto, locks
<1>2. ASSUME NEW p \in Handler, LockStatus(p) \/ ReadStatus(p) \/ WriteStatus(p)
      PROVE  ControllerLocked'
  BY <1>2 DEF LockStatus, ReadStatus, WriteStatus, Refuse, Answer, Goto
<1>3. ASSUME NEW p \in Handler, Work(p) \/ Confirm(p) PROVE ControllerLocked'
  BY <1>3 DEF Work, Confirm, Answer, Goto, locks
<1>4. ASSUME NEW p \in Handler, LockController(p) PROVE ControllerLocked'
  BY <1>4, ControlAssumption DEF LockController, Answer, Goto
<1>5. ASSUME NEW p \in Handler, CheckController(p) PROVE ControllerLocked'
  BY <1>5 DEF CheckController, Answer, Goto
<1>6. ASSUME NEW p \in Handler, ChangeController(p) PROVE ControllerLocked'
  BY <1>6 DEF ChangeController, Goto
<1>7. ASSUME NEW p \in Handler, Kill(p) PROVE ControllerLocked'
  BY <1>7 DEF Kill, Answer, Goto
<1>8. CASE UNCHANGED controlvars
  BY <1>8 DEF controlvars, locks
<1> QED
  BY <1>1, <1>2, <1>3, <1>4, <1>5, <1>6, <1>7, <1>8 DEF ControlNext

\* What the requests to be registered and unregistered rely on.
Registration == ControllerChecked /\ Confirmable /\ RegisteredAsTold

LEMMA RegistrationPreserved ==
  ASSUME IInv, [ControlNext]_controlvars
  PROVE  Registration'
<1> USE DEF IInv, ControlTypeOK, Registration
<1>0. \A p \in Handler : /\ request[p] \in ControlRequest \cup {NoRequest}
                      /\ Op(p) \in {"register", "unregister"} => request[p].from \in Controller
  BY RequestTyping DEF Op
<1>1. ASSUME NEW p \in Handler, NEW r \in ControlRequest, BeginHandling(p, r)
      PROVE  Registration'
  <2>1. \A q \in Handler \ {p} : handling'[q] = handling[q] /\ request'[q] = request[q]
    BY <1>1 DEF BeginHandling, Goto
  <2>2. /\ handling'[p] \in {"work", "lock"} /\ request'[p] = r
        /\ handling'[p] = "lock" => r.op \notin {"configure", "none"}
    BY <1>1 DEF BeginHandling, Goto, ControlRequest, Command
  <2>3. controller' = controller /\ told' \subseteq told
        /\ (r.op = "unregister" => r.from \notin told')
    BY <1>1 DEF BeginHandling, control_files
  <2> QED
    BY <2>1, <2>2, <2>3 DEF ControllerChecked, Confirmable, RegisteredAsTold, Op
<1>2. ASSUME NEW p \in Handler, UNCHANGED <<controller, told>>,
             \A q \in Handler \ {p} : handling'[q] = handling[q] /\ request'[q] = request[q],
             \/ handling'[p] = "idle" /\ request'[p].op = "none"
             \/ handling'[p] = "lock" /\ request'[p].op = "state"
             \/ /\ (handling'[p] = "read" /\ handling[p] = "lock") \/ handling'[p] \in {"write", "work"}
                /\ request'[p] = request[p]
      PROVE  Registration'
  BY <1>2 DEF ControllerChecked, Confirmable, RegisteredAsTold, Op
<1>3. ASSUME NEW p \in Handler, LockStatus(p) \/ WriteStatus(p) \/ Work(p) PROVE Registration'
  BY <1>2, <1>3 DEF LockStatus, WriteStatus, Work, Refuse, Answer, NoRequest, Goto, control_files
<1>4. ASSUME NEW p \in Handler, ReadStatus(p) PROVE Registration'
  <2>1. CASE handling' = [handling EXCEPT ![p] = "controller"] /\ request' = request
             /\ Op(p) \notin Command \cup {"state", "ingest"}
    <3>1. Op(p) \in {"register", "unregister"}
      BY <1>0, <1>4, <2>1, RequestTyping DEF ReadStatus, ControllerChecked, Op
    <3> QED
      BY <1>4, <2>1, <3>1
         DEF ReadStatus, ControllerChecked, Confirmable, RegisteredAsTold, Op
  <2>2. CASE ~(handling' = [handling EXCEPT ![p] = "controller"])
    BY <1>2, <1>4, <2>2 DEF ReadStatus, Refuse, Answer, NoRequest, Goto
  <2> QED
    BY <1>4, <2>1, <2>2 DEF ReadStatus, Refuse, Answer, Goto
<1>5. ASSUME NEW p \in Handler, LockController(p) PROVE Registration'
  <2>1. CASE controller_lock # None
    BY <1>2, <1>5, <2>1 DEF LockController, Answer, NoRequest, Goto, control_files
  <2>2. CASE controller_lock = None
    BY <1>5, <2>2
       DEF LockController, Goto, control_files, ControllerChecked, Confirmable, RegisteredAsTold, Op
  <2> QED
    BY <2>1, <2>2
<1>6. ASSUME NEW p \in Handler, CheckController(p) PROVE Registration'
  <2>1. Op(p) \in {"register", "unregister"}
    BY <1>6 DEF CheckController, ControllerChecked
  <2>2. CASE controller = IF Op(p) = "register" THEN None ELSE request[p].from
    BY <1>6, <2>1, <2>2
       DEF CheckController, Goto, control_files, ControllerChecked, Confirmable, RegisteredAsTold, Op
  <2>3. CASE ~(controller = IF Op(p) = "register" THEN None ELSE request[p].from)
    BY <1>2, <1>6, <2>3 DEF CheckController, Answer, NoRequest, Goto, control_files
  <2> QED
    BY <2>2, <2>3
<1>7. ASSUME NEW p \in Handler, ChangeController(p) PROVE Registration'
  \* Nobody that was told is in the file, and nobody else waits to be told.
  <2>1. told = {}
    BY <1>0, <1>7, ControlAssumption
       DEF ChangeController, ControllerChecked, Confirmable, RegisteredAsTold
  <2>2. \A q \in Handler \ {p} :
          /\ handling[q] \notin {"register", "unregister"}
          /\ ~(handling[q] = "success" /\ Op(q) = "register")
    BY <1>0, <1>7, ControlAssumption
       DEF ChangeController, ControllerLocked, ControllerChecked, Confirmable, OneRequestEach
  <2>3. /\ \A q \in Handler \ {p} : handling'[q] = handling[q]
        /\ handling'[p] = "success" /\ request' = request /\ told' = {}
        /\ Op(p) \in {"register", "unregister"}
        /\ Op(p) = "register" => controller' = request[p].from
    BY <1>7, <2>1 DEF ChangeController, Goto, ControllerChecked
  <2> QED
    BY <2>2, <2>3 DEF ControllerChecked, Confirmable, RegisteredAsTold, Op
<1>8. ASSUME NEW p \in Handler, Confirm(p) PROVE Registration'
  <2>1. told' \subseteq {controller}
    BY <1>8 DEF Confirm, Confirmable, RegisteredAsTold
  <2>2. \A q \in Handler \ {p} : Op(q) = "unregister" => request[q].from \notin told'
    BY <1>0, <1>8, ControlAssumption DEF Confirm, Confirmable, OneRequestEach, Op
  <2>3. /\ \A q \in Handler \ {p} : handling'[q] = handling[q] /\ request'[q] = request[q]
        /\ handling'[p] = "idle" /\ request'[p] = NoRequest /\ controller' = controller
    BY <1>8 DEF Confirm, Answer, Goto, control_files
  <2> QED
    BY <2>1, <2>2, <2>3 DEF ControllerChecked, Confirmable, RegisteredAsTold, NoRequest, Op
<1>9. ASSUME NEW p \in Handler, Kill(p) PROVE Registration'
  <2>1. CASE handling[p] # "register"
    BY <1>2, <1>9, <2>1 DEF Kill, Answer, NoRequest, Goto
  <2>2. CASE handling[p] = "register"
    \* The file was not there: nobody relied on it.
    <3>1. controller = None /\ told = {}
      BY <2>2, ControlAssumption DEF ControllerChecked, RegisteredAsTold
    <3>2. \A q \in Handler \ {p} :
            /\ handling[q] \notin {"register", "unregister"}
            /\ ~(handling[q] = "success" /\ Op(q) = "register")
      BY <1>0, <2>2, <3>1, ControlAssumption
         DEF ControllerLocked, ControllerChecked, Confirmable
    <3>3. /\ \A q \in Handler \ {p} : handling'[q] = handling[q] /\ request'[q] = request[q]
          /\ handling'[p] = "idle" /\ request'[p] = NoRequest /\ told' = told
      BY <1>9 DEF Kill, Answer, Goto
    <3> QED
      BY <3>1, <3>2, <3>3 DEF ControllerChecked, Confirmable, RegisteredAsTold, NoRequest, Op
  <2> QED
    BY <2>1, <2>2
<1>10. CASE UNCHANGED controlvars
  BY <1>10 DEF controlvars, control_files, ControllerChecked, Confirmable, RegisteredAsTold, Op
<1> QED
  BY <1>1, <1>3, <1>4, <1>5, <1>6, <1>7, <1>8, <1>9, <1>10 DEF ControlNext

-----------------------------------------------------------------------------
(* Theorems                                                                *)

LEMMA Invariance == ControlSpec => []IInv
<1>1. IInv /\ [ControlNext]_controlvars => IInv'
  BY TypePreserved, StatusPreserved, OneRequestPreserved, ControllerLockPreserved,
     RegistrationPreserved
     DEF IInv, Registration
<1> QED
  BY InitInv, <1>1, PTL DEF ControlSpec

\* The files, locks and processes stay in the states they are meant to be in.
THEOREM TypeCorrect == ControlSpec => []ControlTypeOK
BY Invariance, PTL DEF IInv

\* However many controllers make requests at a time and whichever processes are killed,
\* one that was told it is registered is the one in the file.
THEOREM RegistrationKept == ControlSpec => []RegisteredAsTold
BY Invariance, PTL DEF IInv

\* However many commands are given at a time, the state only changes as they allow.
THEOREM OnlyLegalTransitions == ControlSpec => LegalTransitions
<1> DEFINE Legal == status' # status =>
               \/ status = Absent \/ status' = Empty
               \/ \E command \in Command : status = Needed(command) /\ status' = Target(command)
<1>1. IInv /\ [ControlNext]_controlvars => [Legal]_controlvars
  <2> SUFFICES ASSUME IInv, [ControlNext]_controlvars, status' # status PROVE Legal
    OBVIOUS
  <2>1. ASSUME NEW p \in Handler, ReadStatus(p) PROVE Legal
    BY <2>1 DEF ReadStatus, Current
  <2>2. ASSUME NEW p \in Handler, WriteStatus(p) PROVE Legal
    BY <2>2 DEF WriteStatus, IInv, CommandHolds
  <2>3. ASSUME NEW p \in Handler, Kill(p) PROVE Legal
    BY <2>3 DEF Kill
  <2> QED
    BY <2>1, <2>2, <2>3
       DEF ControlNext, controlvars, control_files, BeginHandling, LockStatus, Work,
           LockController, CheckController, ChangeController, Confirm
<1> QED
  BY Invariance, <1>1, PTL DEF ControlSpec, LegalTransitions
===============================================================================
