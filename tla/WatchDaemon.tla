----------------------------- MODULE WatchDaemon ------------------------------
(***************************************************************************)
(* The daemon that takes browse reports from Redis lists (one per          *)
(* collection) and has them ingested by a pool of worker processes.        *)
(*                                                                         *)
(* A report is moved from its queue to the buffer of the daemon, replaced  *)
(* there by a job record in a Redis hash, given to a worker, and its       *)
(* record is removed when the worker is done.  What Redis holds survives   *)
(* the daemon; everything else is gone when the daemon stops, and the next *)
(* one starts with the records and the buffer it finds.                    *)
(*                                                                         *)
(* Three threads of control share the state: the main loop, the workers    *)
(* and the thread of the pool that runs the callback of finished jobs.     *)
(* A key of Redis keeps other daemons with the same id from running; that  *)
(* is left out: here there is one at a time.                               *)
(*                                                                         *)
(* Source: tools/browsewatchd2.py                                          *)
(***************************************************************************)
EXTENDS Naturals, FiniteSets, SequencesExt

CONSTANTS Queue,      \* Redis lists with reports
          Extra,      \* lists that are watched although no one lists them
          Report,     \* report documents
          QueueOf,    \* the queue each report is put into
          JobOf,      \* its job id: collection and product identifier
          Invalid,    \* the job id of a report that cannot be parsed
          Buffer,     \* key of the daemon's buffer
          Worker,     \* worker processes of the pool
          Cap,        \* --max-jobs-per-queue
          None,       \* no job
          Again,      \* reports that are submitted again once handled
          Faults,     \* kinds of fault that may happen
          MaxFaults   \* how many of them (bound of the model)

ASSUME DaemonAssumption ==
  /\ IsFiniteSet(Queue) /\ Extra \subseteq Queue /\ Buffer \notin Queue
  /\ QueueOf \in [Report -> Queue]
  /\ DOMAIN JobOf = Report
  /\ IsFiniteSet(Worker)
  /\ Cap \in 1 .. Cardinality(Worker)
  /\ Again \subseteq Report
  /\ Faults \subseteq {"crash", "stop", "kill", "lost_move", "lost_save", "rival"}
  /\ MaxFaults \in Nat

Valid == { r \in Report : JobOf[r] # Invalid }
JobId == { JobOf[r] : r \in Valid }
Source == Queue \cup {Buffer}

\* A job (job_id and the rest of the record follow from the report).
Job == [source : Source, report : Report]

ASSUME NoneAssumption == None \notin Job

VARIABLES
  \* Redis
  queue,      \* contents of each list, oldest report first
  listed,     \* the set of queues, "ingestion_queues"
  buffer,     \* the daemon's buffer, oldest report first
  jobs,       \* the hash of unfinished jobs
  \* the main loop
  pc,         \* where it is
  finish,     \* --finish
  todo,       \* unfinished jobs found at the start and not loaded yet
  keys,       \* watched queues, in order
  due,        \* it is time to update them
  readable,   \* queues that may be read in this round, best first
  taken,      \* the report being made a job, and its source
  read,       \* the value read of the counter about to be incremented
  \* shared with the callback
  counter,    \* jobs per source
  free,       \* value of the semaphore
  \* the pool
  work,       \* what each worker is busy with
  done,       \* jobs the workers have returned, oldest first
  callback,   \* the callback that runs
  lost,       \* jobs of killed workers
  overwritten, \* history: how much of each counter the callback overwrote
  orphans,    \* jobs that workers of a killed daemon still work on
  \* histories
  submitted, handled, faults

redis == <<queue, listed, buffer, jobs>>
loop == <<pc, finish, todo, keys, due, readable, taken, read>>
shared == <<counter, free>>
pool == <<work, done, callback, lost, overwritten>>
history == <<submitted, handled, faults>>
vars == <<redis, loop, shared, pool, orphans, history>>

IdleCallback == [step |-> "idle", job |-> None, read |-> 0]

Up == pc \notin {"off", "stopping"}

\* The main loop holds a slot of the semaphore.
HoldsSlot == pc \in {"peek", "move", "save", "count", "dispatch"}

Fault(kind) ==
  /\ kind \in Faults /\ Len(faults) < MaxFaults
  /\ faults' = Append(faults, kind)

Busy == { w \in Worker : work[w] # None }

\* What Redis still knows of a report.
Recorded(r) == \E id \in JobId : jobs[id] # None /\ jobs[id].report = r
Pending(r) == r \in ToSet(queue[QueueOf[r]]) \cup ToSet(buffer) \/ Recorded(r)

\* What the daemon has to do with it.
InHands(r) == \E job \in {taken, callback.job} \cup ToSet(done) \cup { work[w] : w \in Busy } :
                job # None /\ job.report = r

\* A sequence without e, which is in it once.
Without(s, e) == RemoveAt(s, CHOOSE i \in DOMAIN s : s[i] = e)

-----------------------------------------------------------------------------
(* Producers and other daemons *)

\* A report is put into its queue and the queue into the set of queues.  One that
\* is submitted again is so when nothing is left of the first time.
Submit(r) ==
  /\ \/ r \notin submitted
     \/ /\ r \in Again \cap handled /\ ~Pending(r) /\ ~InHands(r)
        /\ \A j \in orphans \cup lost : j.report # r
  /\ queue' = [queue EXCEPT ![QueueOf[r]] = Append(@, r)]
  /\ listed' = listed \cup {QueueOf[r]}
  /\ submitted' = submitted \cup {r}
  /\ handled' = handled \ {r}
  /\ UNCHANGED <<buffer, jobs, loop, shared, pool, orphans, faults>>

\* A daemon with another id takes a report: it is that daemon's business now.
Rival(q) ==
  /\ queue[q] # <<>>
  /\ Fault("rival")
  /\ queue' = [queue EXCEPT ![q] = Tail(@)]
  /\ handled' = handled \cup {Head(queue[q])}
  /\ UNCHANGED <<listed, buffer, jobs, loop, shared, pool, orphans, submitted>>

-----------------------------------------------------------------------------
(* The main loop *)

\* A new process: empty counters, all slots free, and the unfinished jobs.
Start(f) ==
  /\ pc = "off"
  /\ pc' = "slot" /\ finish' = f
  /\ todo' = { id \in JobId : jobs[id] # None }
  /\ due' = TRUE
  /\ UNCHANGED <<redis, keys, readable, taken, read, shared, pool, orphans, history>>

\* Fault: an unfinished job is loaded again and again.
LoadUnfinishedAgain(id) ==
  /\ pc = "slot" /\ free > 0
  /\ id \in todo
  /\ IF jobs[id] # None
       THEN taken' = jobs[id] /\ free' = free - 1 /\ pc' = "count"
       ELSE UNCHANGED <<taken, free, pc>>
  /\ UNCHANGED <<redis, finish, todo, keys, due, readable, read, counter, pool, orphans, history>>

\* get_slots, then get_unfinished_job; the slot is given back if the record is gone.
LoadUnfinished(id) ==
  /\ pc = "slot" /\ free > 0
  /\ id \in todo
  /\ todo' = todo \ {id}
  /\ IF jobs[id] # None
       THEN taken' = jobs[id] /\ free' = free - 1 /\ pc' = "count"
       ELSE UNCHANGED <<taken, free, pc>>
  /\ UNCHANGED <<redis, finish, keys, due, readable, read, counter, pool, orphans, history>>

\* Place of a queue among the keys.
Place(q) == CHOOSE i \in DOMAIN keys : keys[i] = q

\* update_keys: every now and then, queues that are empty are taken off the set,
\* and what is in it is watched; a queue watched already keeps its place.
UpdateKeys ==
  LET filled  == { q \in listed : queue[q] # <<>> }
      watched == filled \cup Extra
  IN  IF due
        THEN /\ listed' = filled
             /\ \E added \in SetToSeqs(watched \ ToSet(keys)),
                   kept \in SetToSeqs(watched \cap ToSet(keys)) :
                  /\ \A i, j \in DOMAIN kept : i < j => Place(kept[i]) < Place(kept[j])
                  /\ keys' = added \o kept
             /\ due' = FALSE
        ELSE UNCHANGED <<listed, keys, due>>

\* get_slots, when all unfinished jobs are loaded.
TakeSlot ==
  /\ pc = "slot" /\ free > 0
  /\ todo = {} /\ ~finish
  /\ free' = free - 1
  /\ UpdateKeys
  /\ pc' = "peek"
  /\ UNCHANGED <<queue, buffer, jobs, finish, todo, readable, taken, read, counter, pool,
                 orphans, history>>

\* counter[q] =< max_count, the order of equal ones being that of keys: there is
\* one such sequence.
RankedUpTo(max_count) ==
  LET allowed     == { q \in ToSet(keys) : queue[q] # <<>> /\ counter[q] =< max_count }
      above(p, q) == counter[p] < counter[q] \/ (counter[p] = counter[q] /\ Place(p) < Place(q))
  IN  { s \in SetToSeqs(allowed) : \A i, j \in DOMAIN s : i < j => above(s[i], s[j]) }

\* Fault: max_jobs_per_queue is passed as it is.
RankedOneMore == RankedUpTo(Cap)

\* sort_keys: queues with a report and less than Cap jobs, those with fewer jobs
\* first, then in the order of keys.
Ranked == RankedUpTo(Cap - 1)

\* Fault: the slot is not given back.
NoReportKeepingSlot == pc' = "slot" /\ UNCHANGED free

\* Nothing to read: the slot is given back.
NoReport == free' = free + 1 /\ pc' = "slot"

\* The first request of get_new_job: is there a report in the buffer, which
\* queues have any?
Peek ==
  /\ pc = "peek"
  /\ IF buffer # <<>>
       THEN /\ taken' = [source |-> Buffer, report |-> Head(buffer)]
            /\ pc' = "save"
            /\ UNCHANGED <<readable, free>>
       ELSE /\ readable' \in Ranked
            /\ IF readable' = <<>> THEN NoReport ELSE pc' = "move" /\ UNCHANGED free
            /\ UNCHANGED taken
  /\ UNCHANGED <<redis, finish, todo, keys, due, read, counter, pool, orphans, history>>

\* Fault: rpop.
PopReport(q) ==
  /\ queue[q] # <<>>
  /\ queue' = [queue EXCEPT ![q] = Tail(@)]
  /\ UNCHANGED <<listed, buffer, jobs>>

\* rpoplpush: the oldest report of the queue goes to the buffer.
MoveToBuffer(q) ==
  /\ queue[q] # <<>>
  /\ queue' = [queue EXCEPT ![q] = Tail(@)]
  /\ buffer' = Append(buffer, Head(queue[q]))
  /\ UNCHANGED <<listed, jobs>>

\* Fault: the queue keeps its place.
MoveKeepingPlace ==
  /\ pc = "move"
  /\ LET q == Head(readable) IN
       \/ /\ MoveToBuffer(q)
          /\ taken' = [source |-> q, report |-> Head(queue[q])]
          /\ readable' = <<>>
          /\ pc' = "save"
          /\ UNCHANGED free
       \/ /\ queue[q] = <<>>
          /\ readable' = Tail(readable)
          /\ IF Len(readable) = 1 THEN NoReport ELSE UNCHANGED <<pc, free>>
          /\ UNCHANGED <<redis, taken>>
  /\ UNCHANGED <<finish, todo, keys, due, read, counter, pool, orphans, history>>

\* It is taken, and its queue is the last one to be read next time; the queue
\* may be empty by now, then the next one is tried.
Move ==
  /\ pc = "move"
  /\ LET q == Head(readable) IN
       \/ /\ MoveToBuffer(q)
          /\ taken' = [source |-> q, report |-> Head(queue[q])]
          /\ keys' = Append(Without(keys, q), q)
          /\ readable' = <<>>
          /\ pc' = "save"
          /\ UNCHANGED free
       \/ /\ queue[q] = <<>>
          /\ readable' = Tail(readable)
          /\ IF Len(readable) = 1 THEN NoReport ELSE UNCHANGED <<pc, free>>
          /\ UNCHANGED <<redis, keys, taken>>
  /\ UNCHANGED <<finish, todo, due, read, counter, pool, orphans, history>>

\* The answer to rpoplpush is lost: get_new_job is called again.
LoseMove ==
  /\ pc = "move"
  /\ Fault("lost_move")
  /\ MoveToBuffer(Head(readable))
  /\ readable' = <<>>
  /\ pc' = "peek"
  /\ UNCHANGED <<finish, todo, keys, due, taken, read, shared, pool, orphans, submitted, handled>>

\* A sequence without all that equals e.
AllBut(s, e) ==
  LET kept == CHOOSE k \in SetToSeqs({ i \in DOMAIN s : s[i] # e }) :
                \A i, j \in DOMAIN k : i < j => k[i] < k[j]
  IN  [i \in DOMAIN kept |-> s[kept[i]]]

\* One transaction of Redis: the record is written, the report deleted from the
\* buffer.  A report that cannot be parsed is only deleted.
SaveJob ==
  /\ buffer' = AllBut(buffer, taken.report)
  /\ jobs' = IF taken.report \in Valid THEN [jobs EXCEPT ![JobOf[taken.report]] = taken] ELSE jobs
  /\ UNCHANGED <<queue, listed>>

Save ==
  /\ pc = "save"
  /\ SaveJob
  /\ IF taken.report \in Valid
       THEN pc' = "count" /\ UNCHANGED <<taken, free, handled>>
       ELSE NoReport /\ taken' = None /\ handled' = handled \cup {taken.report}
  /\ UNCHANGED <<finish, todo, keys, due, readable, read, counter, pool, orphans, submitted, faults>>

\* The answer to that is lost: get_new_job is called again, and the job saved
\* stays where it is.
LoseSave ==
  /\ pc = "save"
  /\ Fault("lost_save")
  /\ SaveJob
  /\ taken' = None
  /\ pc' = "peek"
  /\ handled' = IF taken.report \in Valid THEN handled ELSE handled \cup {taken.report}
  /\ UNCHANGED <<finish, todo, keys, due, readable, read, shared, pool, orphans, submitted>>

\* KeyCounters.increment reads and writes, while the callback does the same.
Count ==
  /\ pc = "count"
  /\ read' = counter[taken.source]
  /\ pc' = "dispatch"
  /\ UNCHANGED <<redis, finish, todo, keys, due, readable, taken, shared, pool, orphans, history>>

\* apply_async: a worker that is free takes the job, and there is one, for the
\* semaphore has as many slots as the pool has workers.
Dispatch(w) ==
  /\ pc = "dispatch"
  /\ counter' = [counter EXCEPT ![taken.source] = read + 1]
  /\ work[w] = None
  /\ work' = [work EXCEPT ![w] = taken]
  /\ taken' = None /\ read' = 0
  /\ pc' = "slot"
  /\ UNCHANGED <<redis, finish, todo, keys, due, readable, free, done, callback, lost, overwritten,
                 orphans, history>>

\* With --finish the loop ends with the unfinished jobs; the pool is joined, for
\* which every job it was given must have come back.
Join ==
  /\ pc = "slot" /\ finish /\ todo = {}
  /\ pc' = "join"
  /\ UNCHANGED <<redis, finish, todo, keys, due, readable, taken, read, shared, pool, orphans, history>>

\* The process is gone, and with it all that is not in Redis.
Gone ==
  /\ pc' = "off" /\ finish' = FALSE /\ due' = FALSE
  /\ todo' = {} /\ keys' = <<>> /\ readable' = <<>> /\ taken' = None /\ read' = 0
  /\ counter' = [s \in Source |-> 0]
  /\ free' = Cardinality(Worker)
  /\ work' = [w \in Worker |-> None]
  /\ done' = <<>> /\ lost' = {} /\ callback' = IdleCallback
  /\ overwritten' = [s \in Source |-> 0]

JoinEnd ==
  /\ pc = "join"
  /\ Busy = {} /\ done = <<>> /\ lost = {} /\ callback = IdleCallback
  /\ Gone
  /\ UNCHANGED <<redis, orphans, history>>

-----------------------------------------------------------------------------
(* The pool *)

\* The ingestion ends, with or without an error, and the job is returned.
Finish(w) ==
  /\ work[w] # None
  /\ handled' = handled \cup {work[w].report}
  /\ done' = Append(done, work[w])
  /\ work' = [work EXCEPT ![w] = None]
  /\ UNCHANGED <<redis, loop, shared, callback, lost, overwritten, orphans, submitted, faults>>

\* The callback: KeyCounters.decrement reads ...
CallbackRead ==
  /\ callback = IdleCallback
  /\ done # <<>>
  /\ done' = Tail(done)
  /\ callback' = [step |-> "write", job |-> Head(done), read |-> counter[Head(done).source]]
  /\ UNCHANGED <<redis, loop, shared, work, lost, overwritten, orphans, history>>

\* ... and writes, the slot is released,  (What the main loop has added since is
\* overwritten.)
CallbackRelease ==
  /\ callback.step = "write"
  /\ overwritten' = [overwritten EXCEPT ![callback.job.source] =
                       @ + (counter[callback.job.source] - callback.read)]
  /\ counter' = [counter EXCEPT ![callback.job.source] =
                   IF callback.read > 0 THEN callback.read - 1 ELSE 0]
  /\ free' = free + 1
  /\ callback' = [callback EXCEPT !.step = "remove"]
  /\ UNCHANGED <<redis, loop, work, done, lost, orphans, history>>

\* and the record under the id of the job removed.
CallbackRemove ==
  /\ callback.step = "remove"
  /\ jobs' = [jobs EXCEPT ![JobOf[callback.job.report]] = None]
  /\ callback' = IdleCallback
  /\ UNCHANGED <<queue, listed, buffer, loop, shared, work, done, lost, overwritten, orphans, history>>

\* A worker of a daemon that was killed ends what it was doing; nobody hears of it.
FinishOrphan(j) ==
  /\ j \in orphans
  /\ orphans' = orphans \ {j}
  /\ handled' = handled \cup {j.report}
  /\ UNCHANGED <<redis, loop, shared, pool, submitted, faults>>

-----------------------------------------------------------------------------
(* Faults *)

\* The daemon is killed; its workers end the jobs they have.
Crash ==
  /\ pc # "off"
  /\ Fault("crash")
  /\ orphans' = orphans \cup { work[w] : w \in Busy }
  /\ Gone
  /\ UNCHANGED <<redis, submitted, handled>>

\* SIGTERM: the handler runs in the main loop and gives the workers two seconds,
\* then they are terminated.
Stop ==
  /\ Up
  /\ Fault("stop")
  /\ pc' = "stopping"
  /\ UNCHANGED <<redis, finish, todo, keys, due, readable, taken, read, shared, pool, orphans,
                 submitted, handled>>

StopEnd ==
  /\ pc = "stopping"
  /\ Gone
  /\ UNCHANGED <<redis, orphans, history>>

\* A worker is killed: the pool starts another one, the job never comes back.
Kill(w) ==
  /\ work[w] # None
  /\ Fault("kill")
  /\ lost' = lost \cup {work[w]}
  /\ work' = [work EXCEPT ![w] = None]
  /\ UNCHANGED <<redis, loop, shared, done, callback, overwritten, orphans, submitted, handled>>

\* REDIS_KEY_SET_REFRESH seconds have passed.
Tick ==
  /\ Up /\ ~due
  /\ due' = TRUE
  /\ UNCHANGED <<redis, pc, finish, todo, keys, readable, taken, read, shared, pool, orphans, history>>

-----------------------------------------------------------------------------
Init ==
  /\ queue = [q \in Queue |-> <<>>] /\ listed = {} /\ buffer = <<>>
  /\ jobs = [id \in JobId |-> None]
  /\ pc = "off" /\ finish = FALSE /\ due = FALSE
  /\ todo = {} /\ keys = <<>> /\ readable = <<>> /\ taken = None /\ read = 0
  /\ counter = [s \in Source |-> 0] /\ free = Cardinality(Worker)
  /\ work = [w \in Worker |-> None]
  /\ done = <<>> /\ lost = {} /\ callback = IdleCallback /\ overwritten = [s \in Source |-> 0]
  /\ orphans = {}
  /\ submitted = {} /\ handled = {} /\ faults = <<>>

MainLoop ==
  \/ \E id \in JobId : LoadUnfinished(id)
  \/ TakeSlot \/ Peek \/ Move \/ Save \/ Count
  \/ \E w \in Worker : Dispatch(w)
  \/ Join \/ JoinEnd \/ StopEnd

Callback == CallbackRead \/ CallbackRelease \/ CallbackRemove

Environment ==
  \/ \E r \in Report : Submit(r)
  \/ \E q \in Queue : Rival(q)
  \/ LoseMove \/ LoseSave \/ Crash \/ Stop
  \/ \E w \in Worker : Kill(w)

Next ==
  \/ MainLoop \/ Callback
  \/ \E f \in BOOLEAN : Start(f)
  \/ \E w \in Worker : Finish(w)
  \/ \E j \in orphans : FinishOrphan(j)
  \/ Tick
  \/ Environment

Spec == Init /\ [][Next]_vars

(***************************************************************************)
(* The threads of a running daemon are scheduled, ingestions end, and a    *)
(* daemon that is down is started again, sooner or later without --finish  *)
(* (an option for maintenance).  Nothing is assumed of producers and       *)
(* faults.                                                                 *)
(***************************************************************************)
FairSpec ==
  /\ Spec
  /\ WF_vars(MainLoop) /\ WF_vars(Callback) /\ WF_vars(Tick)
  /\ \A w \in Worker : WF_vars(Finish(w))
  /\ SF_vars(Start(FALSE))

-----------------------------------------------------------------------------
(* Properties *)

\* A report that was submitted and not handled yet is in Redis: in its queue, in
\* the buffer or in the record of an unfinished job.  Hence it survives any stop
\* of the daemon at any point ("save new job", then "remove report from the
\* buffer").  A second report of one product replaces the record of the first, or loses
\* its own to it (browsewatchd2.py:500): it is handled all the same, unless the daemon
\* stops, a worker is killed or an answer gets lost.
SameProduct(r) == { s \in Report \ {r} : JobOf[s] = JobOf[r] } \cap submitted
NothingLost ==
  \A r \in submitted \ handled :
    \/ Pending(r)
    \/ /\ SameProduct(r) # {}
       /\ InHands(r) \/ ToSet(faults) \cap {"crash", "stop", "kill", "lost_save"} # {}

\* Every slot of the semaphore is free, held by the main loop, or accounted for
\* by one job until its callback releases it: none is released twice, none
\* disappears except with a killed worker.
SlotsConserved ==
  Up => free + (IF HoldsSlot THEN 1 ELSE 0) + Cardinality(Busy) + Len(done)
          + (IF callback.step = "write" THEN 1 ELSE 0) + Cardinality(lost)
        = Cardinality(Worker)

\* One daemon never works on a report twice at a time.
NoDoubleDispatch ==
  /\ \A v, w \in Busy : work[v].report = work[w].report => v = w
  /\ \A w \in Busy : ~(pc \in {"count", "dispatch"} /\ taken.report = work[w].report)
  /\ \A w \in Busy : JobOf[work[w].report] \notin todo

\* "Maximum number of simultaneous ingestions jobs per one ingestion queue", whatever it
\* is, and as long as the daemon did not have to begin with reports in the buffer or
\* unfinished jobs, for which it is not tested.  It is exceeded by no more than what the
\* callback took off the counter by writing a value it had read before the main loop wrote
\* (browsewatchd2.py:177-185, no lock is held).
InProgress(q) == { w \in Busy : QueueOf[work[w].report] = q }
CapRespected ==
  ToSet(faults) \subseteq {"rival", "kill"} =>
    \A q \in Queue : Cardinality(InProgress(q)) =< Cap + overwritten[q]

\* What the option says, without that exception.
MaximumPerQueue == \A q \in Queue : Cardinality(InProgress(q)) =< Cap

\* Every report that is submitted is handled, whatever else is submitted.
EventuallyHandled == \A r \in Report : r \in submitted \ handled ~> r \in handled

\* --finish: "Finish the jobs in progress and stop".
FinishStops == (pc = "slot" /\ finish) ~> pc = "off"

=============================================================================
