-------------------------- MODULE WatchDaemonProofs --------------------------
(***************************************************************************)
(* What holds of the daemon (WatchDaemon) for any queues, reports, workers *)
(* and number of faults: nothing is lost, the semaphore adds up, no report *)
(* is worked on twice at a time, and the maximum of jobs per queue is      *)
(* exceeded by no more than what was overwritten in the counter.           *)
(*                                                                         *)
(* The inductive invariant says where each report is: in its queue, in the *)
(* buffer, or in the hands of one part of the daemon.                      *)
(***************************************************************************)
EXTENDS WatchDaemon, Integers, SequenceTheorems, FiniteSetTheorems, TLAPS

-----------------------------------------------------------------------------
(* The inductive invariant *)

NoRepeats(s) == \A i, j \in 1 .. Len(s) : s[i] = s[j] => i = j

RedisTypeOK ==
  /\ queue \in [Queue -> Seq(Report)]
  /\ listed \subseteq Queue
  /\ buffer \in Seq(Report) /\ Len(buffer) =< 1
  /\ jobs \in [JobId -> Job \cup {None}]

LoopTypeOK ==
  /\ pc \in {"off", "slot", "peek", "move", "save", "count", "dispatch", "join", "stopping"}
  /\ finish \in BOOLEAN /\ due \in BOOLEAN
  /\ todo \subseteq JobId
  /\ keys \in Seq(Queue) /\ readable \in Seq(Queue)
  /\ taken \in Job \cup {None} /\ read \in Nat

PoolTypeOK ==
  /\ counter \in [Source -> Nat] /\ free \in Nat
  /\ work \in [Worker -> Job \cup {None}]
  /\ done \in Seq(Job)
  /\ callback \in {IdleCallback} \cup [step : {"write", "remove"}, job : Job, read : Nat]
  /\ lost \in SUBSET Job /\ IsFiniteSet(lost)
  /\ overwritten \in [Source -> Int]
  /\ orphans \in SUBSET Job

HistoryTypeOK ==
  /\ submitted \in SUBSET Report /\ handled \in SUBSET Report
  /\ faults \in Seq(Faults)

\* Everything is a value of its kind; the buffer holds one report at most, since the
\* daemon takes another one only when it found it empty.
TypeOK == RedisTypeOK /\ LoopTypeOK /\ PoolTypeOK /\ HistoryTypeOK

\* Where the main loop is says what it has: no job but between "save" and "dispatch",
\* one queue at least to read in "move", and nothing at all of a process that is gone.
LoopInv ==
  /\ pc \in {"off", "slot", "peek", "move", "join"} => taken = None
  /\ pc \in {"save", "count", "dispatch"} => taken \in Job
  /\ pc = "move" => buffer = <<>> /\ readable # <<>>
  /\ pc = "move" => ToSet(readable) \subseteq ToSet(keys)
  /\ pc = "save" => buffer = <<taken.report>>
  /\ todo # {} => pc \in {"slot", "count", "dispatch", "stopping"}
  /\ pc = "stopping" => "stop" \in ToSet(faults)
  /\ pc = "off" => /\ free = Cardinality(Worker) /\ Busy = {} /\ done = <<>> /\ lost = {}
                   /\ callback = IdleCallback
                   /\ counter = [s \in Source |-> 0] /\ overwritten = [s \in Source |-> 0]

\* The jobs of the parts of the daemon.
Taken == IF pc \in {"count", "dispatch"} THEN {taken} ELSE {}
Working == { work[w] : w \in Busy }
Called == IF callback.step # "idle" THEN {callback.job} ELSE {}
Hand == Taken \cup Working \cup ToSet(done) \cup Called \cup lost

\* A report waits in its own queue, or in the buffer, and then nowhere else.
WaitingInv ==
  /\ \A q \in Queue : NoRepeats(queue[q])
  /\ \A q \in Queue : \A r \in ToSet(queue[q]) : q = QueueOf[r] /\ r \in submitted
  /\ \A r \in ToSet(buffer) : r \in submitted /\ r \notin ToSet(queue[QueueOf[r]])
  /\ \A r \in Report :
       r \in ToSet(queue[QueueOf[r]]) \cup ToSet(buffer) =>
         ~Recorded(r) /\ \A j \in Hand : j.report # r

\* Jobs are about submitted reports that could be parsed, under their own id.
JobsInv ==
  /\ \A id \in JobId : jobs[id] # None => /\ jobs[id].report \in Valid \cap submitted
                                         /\ JobOf[jobs[id].report] = id
  /\ \A j \in Hand : j.report \in Valid \cap submitted
  /\ \A j \in ToSet(done) \cup Called : j.report \in handled
  /\ \A j \in Hand : JobOf[j.report] \notin todo

\* A report is in the hands of one part of the daemon only.
DistinctInv ==
  /\ \A j, k \in Hand : j.report = k.report => j = k
  /\ \A v, w \in Busy : work[v] = work[w] => v = w
  /\ NoRepeats(done)
  /\ Taken \cap Working = {} /\ Taken \cap ToSet(done) = {} /\ Taken \cap Called = {}
  /\ Taken \cap lost = {}
  /\ Working \cap ToSet(done) = {} /\ Working \cap Called = {} /\ Working \cap lost = {}
  /\ ToSet(done) \cap Called = {} /\ ToSet(done) \cap lost = {} /\ Called \cap lost = {}

Broken == ToSet(faults) \cap {"crash", "stop", "kill", "lost_save"} # {}

\* What is recorded and not handled yet is being worked on, or is to be, unless
\* the daemon was interrupted.
RecordedInv ==
  \A r \in Report : Recorded(r) /\ r \notin handled /\ ~Broken => InHands(r) \/ JobOf[r] \in todo

-----------------------------------------------------------------------------
(* The maximum of jobs per queue *)

\* Neither the daemon nor its connection was interrupted.
Smooth == ToSet(faults) \subseteq {"rival", "kill"}

\* The jobs the counters are about.
Counted == Working \cup ToSet(done) \cup lost
             \cup (IF callback.step = "write" THEN {callback.job} ELSE {})

\* How many of them a queue has, less what was overwritten.
Of(q) == { j \in Counted : j.source = q }
Load(q) == Cardinality(Of(q)) - overwritten[q]

\* Then what is recorded is at hand, so that a daemon with --finish leaves nothing to
\* begin with,
FreshStart ==
  /\ buffer # <<>> => pc = "save"
  /\ todo = {}
  /\ \A id \in JobId : jobs[id] # None => jobs[id] \in Hand

\* a job counts for the queue of its report,
OwnQueue ==
  /\ pc = "save" => taken.source = QueueOf[taken.report]
  /\ \A j \in Hand : j.source = QueueOf[j.report]

\* a counter is not too low, what the main loop is about to write not lower, and what the
\* callback is about to write not higher,
CountersEnough ==
  /\ \A q \in Source : Load(q) =< counter[q]
  /\ pc = "dispatch" => counter[taken.source] =< read
  /\ callback.step = "write" => callback.read =< counter[callback.job.source]

\* and what the main loop is about to start is for a queue with less than the maximum.
Admitted ==
  /\ \A q \in Source : Load(q) =< Cap
  /\ pc = "move" => \A q \in ToSet(readable) : Load(q) =< Cap - 1
  /\ pc \in {"save", "count", "dispatch"} => Load(taken.source) =< Cap - 1

CapInv == FreshStart /\ OwnQueue /\ CountersEnough /\ Admitted

-----------------------------------------------------------------------------
(* Sequences *)

\* The elements of a sequence, by its positions.
LEMMA ToSetLen == ASSUME NEW S, NEW s \in Seq(S)
  PROVE /\ ToSet(s) = { s[i] : i \in 1 .. Len(s) } /\ ToSet(s) \subseteq S
  BY DEF ToSet

\* The empty sequence is the one of length 0.
LEMMA LenLemma ==
  ASSUME NEW S, NEW s \in Seq(S)
  PROVE  /\ Len(s) \in Nat /\ (Len(s) = 0 <=> s = <<>>)
         /\ Len(s) =< 1 /\ s # <<>> => s = <<Head(s)>> /\ Head(s) \in S
<1>1. Len(s) \in Nat /\ (Len(s) = 0 <=> s = <<>>)
  OBVIOUS
<1>2. ASSUME Len(s) = 1 PROVE s = <<Head(s)>> /\ Head(s) \in S
  <2>1. s[1] \in S /\ Head(s) = s[1]
    BY <1>2, ElementOfSeq
  <2>2. <<s[1]>> \in Seq(S) /\ Len(<<s[1]>>) = 1 /\ <<s[1]>>[1] = s[1]
    BY <2>1
  <2>3. s = <<s[1]>>
    BY <1>2, <2>1, <2>2, SeqEqual
  <2>4. QED
    BY <2>1, <2>3
<1>3. ASSUME Len(s) =< 1, s # <<>> PROVE Len(s) = 1
  <2>1. \A n \in Nat : n =< 1 /\ n # 0 => n = 1
    OBVIOUS
  <2>2. QED
    BY <1>1, <1>3, <2>1
<1>4. QED
  BY <1>1, <1>2, <1>3

\* A sequence with one more element at the end.
LEMMA AppendLemma ==
  ASSUME NEW S, NEW s \in Seq(S), NEW e \in S
  PROVE  /\ Append(s, e) \in Seq(S) /\ Len(Append(s,e)) = Len(s)+1
         /\ ToSet(Append(s, e)) = ToSet(s) \cup {e}
         /\ NoRepeats(s) /\ e \notin ToSet(s) => NoRepeats(Append(s, e))
<1>1. Append(s, e) \in Seq(S) /\ Len(Append(s, e)) = Len(s) + 1
  OBVIOUS
<1>2. \A i \in 1 .. Len(s) : Append(s, e)[i] = s[i]
  OBVIOUS
<1>3. Append(s, e)[Len(s) + 1] = e
  OBVIOUS
<1>a. /\ ToSet(Append(s, e)) = { Append(s, e)[i] : i \in 1 .. Len(s) + 1 }
      /\ ToSet(s) = { s[i] : i \in 1 .. Len(s) }
  BY <1>1, ToSetLen
<1>b. 1 .. Len(s) + 1 = (1 .. Len(s)) \cup {Len(s) + 1}
  OBVIOUS
<1>4. ToSet(Append(s, e)) = ToSet(s) \cup {e}
  BY <1>2, <1>3, <1>a, <1>b
<1>5. NoRepeats(s) /\ e \notin ToSet(s) => NoRepeats(Append(s, e))
  BY <1>1, <1>2, <1>3, ToSetLen DEF NoRepeats
<1>6. QED BY <1>1, <1>4, <1>5

\* The first element of a sequence, and the rest.
LEMMA TailLemma ==
  ASSUME NEW S, NEW s \in Seq(S), s # <<>>
  PROVE  /\ Head(s) \in ToSet(s) /\ Tail(s) \in Seq(S)
         /\ ToSet(Tail(s)) \subseteq ToSet(s)
         /\ ToSet(s) = ToSet(Tail(s)) \cup {Head(s)}
         /\ Len(Tail(s)) = Len(s) - 1
         /\ NoRepeats(s) => NoRepeats(Tail(s)) /\ Head(s) \notin ToSet(Tail(s))
<1>1. Tail(s) \in Seq(S) /\ Len(Tail(s)) = Len(s) - 1 /\ Head(s) = s[1] /\ Len(s) \in Nat \ {0}
  OBVIOUS
<1>2. \A i \in 1 .. Len(Tail(s)) : Tail(s)[i] = s[i + 1]
  OBVIOUS
<1>a. /\ ToSet(Tail(s)) = { Tail(s)[i] : i \in 1 .. Len(Tail(s)) }
      /\ ToSet(s) = { s[i] : i \in 1 .. Len(s) }
  BY <1>1, ToSetLen
<1>3. ToSet(s) = ToSet(Tail(s)) \cup {Head(s)}
  <2>1. ASSUME NEW i \in 1 .. Len(s) PROVE s[i] \in ToSet(Tail(s)) \cup {Head(s)}
    <3>1. CASE i = 1
      BY <1>1, <3>1
    <3>2. CASE i # 1
      <4>1. i - 1 \in 1 .. Len(Tail(s)) /\ s[i] = Tail(s)[i - 1]
        BY <1>1, <1>2, <3>2
      <4>2. QED BY <1>a, <4>1
    <3>3. QED BY <3>1, <3>2
  <2>2. ASSUME NEW i \in 1 .. Len(Tail(s)) PROVE Tail(s)[i] \in ToSet(s)
    BY <1>1, <1>2, <1>a
  <2>3. QED
    <3>1. ToSet(s) \subseteq ToSet(Tail(s)) \cup {Head(s)}
      BY <2>1, <1>a
    <3>2. ToSet(Tail(s)) \cup {Head(s)} \subseteq ToSet(s)
      BY <1>1, <1>a, <2>2
    <3>3. QED BY <3>1, <3>2
<1>4. NoRepeats(s) => NoRepeats(Tail(s)) /\ Head(s) \notin ToSet(Tail(s))
  BY <1>1, <1>2, <1>a DEF NoRepeats
<1>5. QED BY <1>1, <1>3, <1>4, <1>a

\* Without all that equals the only one.
LEMMA AllButOnly ==
  ASSUME NEW S, NEW e \in S PROVE AllBut(<<e>>, e) = <<>>
<1> DEFINE none == { i \in DOMAIN <<e>> : <<e>>[i] # e }
<1> DEFINE rising(k) == \A i, j \in DOMAIN k : i < j => k[i] < k[j]
<1>1. none = {}
  OBVIOUS
<1>2. \A k : k \in SetToSeqs(none) <=> k \in [1 .. 0 -> {}]
  <2>1. Cardinality({}) = 0 /\ 1 .. 0 = {}
    BY FS_EmptySet
  <2>2. SetToSeqs({}) = { f \in [1 .. 0 -> {}] : \A i, j \in 1 .. 0 : i # j => f[i] # f[j] }
    BY <2>1 DEF SetToSeqs, IsInjective
  <2>3. QED
    BY <1>1, <2>1, <2>2
<1> DEFINE kept == CHOOSE k \in SetToSeqs(none) : rising(k)
<1>3. <<>> \in [1 .. 0 -> {}] /\ rising(<<>>)
  OBVIOUS
<1>4. kept \in [1 .. 0 -> {}]
  <2> HIDE DEF rising, none
  <2>1. QED BY <1>2, <1>3
<1>5. AllBut(<<e>>, e) = [i \in DOMAIN kept |-> <<e>>[kept[i]]]
  BY DEF AllBut
<1> HIDE DEF kept
<1>6. DOMAIN kept = {}
  BY <1>4
<1>7. QED
  BY <1>5, <1>6

\* Without one, the others are what they were.
LEMMA WithoutType ==
  ASSUME NEW S, NEW s \in Seq(S), NEW e \in ToSet(s) PROVE Without(s, e) \in Seq(S)
<1> DEFINE i == CHOOSE i \in DOMAIN s : s[i] = e
<1>1. i \in 1 .. Len(s)
  BY DEF ToSet
<1>2. \A k \in 1 .. i - 1 : s[k] \in S
  BY <1>1
<1>3. \A k \in i + 1 .. Len(s) : s[k] \in S
  BY <1>1
<1>4. SubSeq(s, 1, i - 1) \in Seq(S) /\ SubSeq(s, i + 1, Len(s)) \in Seq(S)
  BY <1>1, <1>2, <1>3, SubSeqProperties
<1>5. QED
  BY <1>4, ConcatProperties DEF Without, RemoveAt

\* A sequence made of a finite set.
LEMMA SeqsOfSet ==
  ASSUME NEW S, NEW T, IsFiniteSet(T), T \subseteq S, NEW s \in SetToSeqs(T)
  PROVE  s \in Seq(S) /\ ToSet(s) \subseteq T
<1>1. Cardinality(T) \in Nat
  BY FS_CardinalityType
<1>2. s \in [1 .. Cardinality(T) -> T]
  BY DEF SetToSeqs
<1>3. QED
  BY <1>1, <1>2 DEF ToSet

-----------------------------------------------------------------------------
(* Types, and what the main loop has where *)

TypeInv == TypeOK /\ LoopInv

\* A process starts with everything as it is when none runs.
LEMMA InitType ==
  Init => TypeInv
<1>1. SUFFICES ASSUME Init PROVE TypeInv
  OBVIOUS
<1>2. Cardinality(Worker) \in Nat /\ IsFiniteSet({})
  BY DaemonAssumption, FS_CardinalityType, FS_EmptySet
<1>3. Busy = {}
  BY <1>1 DEF Init, Busy
<1>4. RedisTypeOK
  BY <1>1 DEF Init, RedisTypeOK
<1>a. keys \in Seq(Queue) /\ readable \in Seq(Queue)
  BY <1>1 DEF Init
<1>b. finish \in BOOLEAN /\ due \in BOOLEAN
  BY <1>1 DEF Init
<1>5. LoopTypeOK
  BY <1>1, <1>a, <1>b DEF Init, LoopTypeOK
<1>6. PoolTypeOK
  BY <1>1, <1>2 DEF Init, PoolTypeOK
<1>7. HistoryTypeOK
  BY <1>1 DEF Init, HistoryTypeOK
<1>8. LoopInv
  BY <1>1, <1>3 DEF Init, LoopInv
<1>9. QED
  BY <1>4, <1>5, <1>6, <1>7, <1>8 DEF TypeInv, TypeOK

\* A fault is recorded as one.
LEMMA FaultType ==
  ASSUME TypeInv, NEW kind, Fault(kind)
  PROVE  faults' \in Seq(Faults) /\ ToSet(faults') = ToSet(faults) \cup {kind}
BY AppendLemma DEF TypeInv, TypeOK, HistoryTypeOK, Fault

LEMMA SubmitType ==
  ASSUME TypeInv, NEW r \in Report, Submit(r)
  PROVE  TypeInv'
<1> USE DEF Submit, loop, shared, pool
<1>1. QueueOf[r] \in Queue
  BY DaemonAssumption
<1>2. queue' \in [Queue -> Seq(Report)]
  BY <1>1, AppendLemma DEF TypeInv, TypeOK, RedisTypeOK
<1>3. RedisTypeOK'
  BY <1>1, <1>2 DEF TypeInv, TypeOK, RedisTypeOK
<1>4. LoopTypeOK' /\ PoolTypeOK' /\ HistoryTypeOK'
  BY DEF TypeInv, TypeOK, LoopTypeOK, PoolTypeOK, HistoryTypeOK
<1>5. LoopInv'
  BY DEF TypeInv, LoopInv, Busy
<1>6. QED
  BY <1>3, <1>4, <1>5 DEF TypeInv, TypeOK

LEMMA RivalType ==
  ASSUME TypeInv, NEW q \in Queue, Rival(q)
  PROVE  TypeInv'
<1> USE DEF Rival, loop, shared, pool
<1>1. queue[q] \in Seq(Report) /\ queue[q] # <<>>
  BY DEF TypeInv, TypeOK, RedisTypeOK
<1>2. Tail(queue[q]) \in Seq(Report) /\ Head(queue[q]) \in Report
  BY <1>1, TailLemma
<1>3. RedisTypeOK'
  BY <1>2 DEF TypeInv, TypeOK, RedisTypeOK
<1>4. faults' \in Seq(Faults) /\ ToSet(faults') = ToSet(faults) \cup {"rival"}
  BY FaultType
<1>5. LoopTypeOK' /\ PoolTypeOK' /\ HistoryTypeOK'
  BY <1>2, <1>4 DEF TypeInv, TypeOK, LoopTypeOK, PoolTypeOK, HistoryTypeOK
<1>6. LoopInv'
  BY <1>4 DEF TypeInv, LoopInv, Busy
<1>7. QED
  BY <1>3, <1>5, <1>6 DEF TypeInv, TypeOK

LEMMA StartType ==
  ASSUME TypeInv, NEW f \in BOOLEAN, Start(f)
  PROVE  TypeInv'
<1> USE DEF Start, redis, shared, pool, history
<1>1. RedisTypeOK' /\ LoopTypeOK' /\ PoolTypeOK' /\ HistoryTypeOK'
  BY DEF TypeInv, TypeOK, RedisTypeOK, LoopTypeOK, PoolTypeOK, HistoryTypeOK
<1>2. LoopInv'
  BY DEF TypeInv, LoopInv, Busy
<1>3. QED
  BY <1>1, <1>2 DEF TypeInv, TypeOK

LEMMA LoadUnfinishedType ==
  ASSUME TypeInv, NEW id \in JobId, LoadUnfinished(id)
  PROVE  TypeInv'
<1> USE DEF LoadUnfinished, redis, pool, history
<1>1. RedisTypeOK' /\ LoopTypeOK' /\ PoolTypeOK' /\ HistoryTypeOK'
  BY DEF TypeInv, TypeOK, RedisTypeOK, LoopTypeOK, PoolTypeOK, HistoryTypeOK
<1>2. LoopInv'
  BY DEF TypeInv, TypeOK, RedisTypeOK, LoopInv, Busy
<1>3. QED
  BY <1>1, <1>2 DEF TypeInv, TypeOK

LEMMA TakeSlotType ==
  ASSUME TypeInv, TakeSlot
  PROVE  TypeInv'
<1> USE DEF TakeSlot, UpdateKeys, pool, history
<1>1. keys' \in Seq(Queue) /\ listed' \subseteq Queue /\ due' \in BOOLEAN
  <2>1. CASE due
    <3> DEFINE filled == { q \in listed : queue[q] # <<>> }
    <3> DEFINE watched == filled \cup Extra
    <3>1. filled \subseteq Queue /\ watched \subseteq Queue
      BY DaemonAssumption DEF TypeInv, TypeOK, RedisTypeOK
    <3>2. IsFiniteSet(watched \ ToSet(keys)) /\ IsFiniteSet(watched \cap ToSet(keys))
      BY <3>1, DaemonAssumption, FS_Subset
    <3>3. PICK added \in SetToSeqs(watched \ ToSet(keys)), kept \in SetToSeqs(watched \cap ToSet(keys)) :
            keys' = added \o kept
      BY <2>1
    <3>4. added \in Seq(Queue) /\ kept \in Seq(Queue)
      BY <3>1, <3>2, SeqsOfSet
    <3>5. keys' \in Seq(Queue)
      BY <3>3, <3>4, ConcatProperties
    <3>6. QED
      BY <2>1, <3>1, <3>5
  <2>2. CASE ~due
    BY <2>2 DEF TypeInv, TypeOK, RedisTypeOK, LoopTypeOK
  <2>3. QED
    BY <2>1, <2>2
<1>2. RedisTypeOK' /\ LoopTypeOK' /\ PoolTypeOK' /\ HistoryTypeOK'
  BY <1>1 DEF TypeInv, TypeOK, RedisTypeOK, LoopTypeOK, PoolTypeOK, HistoryTypeOK
<1>3. LoopInv'
  BY DEF TypeInv, LoopInv, Busy
<1>4. QED
  BY <1>2, <1>3 DEF TypeInv, TypeOK

LEMMA PeekType ==
  ASSUME TypeInv, Peek
  PROVE  TypeInv'
<1> USE DEF Peek, NoReport, redis, pool, history
<1>1. CASE buffer # <<>>
  <2>1. Head(buffer) \in Report /\ buffer = <<Head(buffer)>>
    <3>1. buffer \in Seq(Report) /\ Len(buffer) =< 1
      BY DEF TypeInv, TypeOK, RedisTypeOK
    <3>2. QED
      BY <1>1, <3>1, LenLemma
  <2>2. taken' \in Job /\ taken'.report = Head(buffer)
    BY <1>1, <2>1 DEF Job, Source
  <2>3. RedisTypeOK' /\ LoopTypeOK' /\ PoolTypeOK' /\ HistoryTypeOK'
    BY <1>1, <2>2 DEF TypeInv, TypeOK, RedisTypeOK, LoopTypeOK, PoolTypeOK, HistoryTypeOK
  <2>4. LoopInv'
    BY <1>1, <2>1, <2>2 DEF TypeInv, LoopInv, Busy
  <2>5. QED
    BY <2>3, <2>4 DEF TypeInv, TypeOK
<1>2. CASE buffer = <<>>
  <2> DEFINE allowed == { q \in ToSet(keys) : queue[q] # <<>> /\ counter[q] =< Cap - 1 }
  <2>1. ToSet(keys) \subseteq Queue
    BY ToSetLen DEF TypeInv, TypeOK, LoopTypeOK
  <2>2. IsFiniteSet(allowed) /\ allowed \subseteq Queue
    BY <2>1, DaemonAssumption, FS_Subset
  <2>3. readable' \in SetToSeqs(allowed)
    BY <1>2 DEF Ranked, RankedUpTo
  <2>4. readable' \in Seq(Queue) /\ ToSet(readable') \subseteq ToSet(keys)
    BY <2>2, <2>3, SeqsOfSet
  <2>5. RedisTypeOK' /\ LoopTypeOK' /\ PoolTypeOK' /\ HistoryTypeOK'
    BY <1>2, <2>4, SMTT(30) DEF TypeInv, TypeOK, RedisTypeOK, LoopTypeOK, PoolTypeOK, HistoryTypeOK
  <2>6. LoopInv'
    BY <1>2, <2>4 DEF TypeInv, LoopInv, Busy
  <2>7. QED
    BY <2>5, <2>6 DEF TypeInv, TypeOK
<1>3. QED
  BY <1>1, <1>2

\* What happens to a queue and to the buffer, when it is empty, as a report is moved.
LEMMA MoveToBufferType ==
  ASSUME TypeInv, pc = "move", MoveToBuffer(Head(readable))
  PROVE  LET q == Head(readable) IN
         /\ q \in Queue /\ q \in ToSet(keys)
         /\ queue[q] \in Seq(Report) /\ queue[q] # <<>> /\ Head(queue[q]) \in Report
         /\ buffer = <<>> /\ buffer' = <<Head(queue[q])>>
         /\ queue' = [queue EXCEPT ![q] = Tail(@)]
         /\ RedisTypeOK'
<1> USE DEF MoveToBuffer
<1> DEFINE q == Head(readable)
<1>1. readable \in Seq(Queue) /\ readable # <<>> /\ buffer = <<>>
  BY DEF TypeInv, TypeOK, LoopTypeOK, LoopInv
<1>2. q \in Queue /\ q \in ToSet(readable) /\ q \in ToSet(keys)
  BY <1>1, TailLemma DEF TypeInv, LoopInv
<1>3. queue[q] \in Seq(Report) /\ queue[q] # <<>>
  BY <1>2 DEF TypeInv, TypeOK, RedisTypeOK
<1>4. Head(queue[q]) \in Report /\ Tail(queue[q]) \in Seq(Report)
  BY <1>3, TailLemma
<1>5. buffer' = <<Head(queue[q])>>
  BY <1>1, <1>4
<1>6. RedisTypeOK'
  BY <1>2, <1>4, <1>5 DEF TypeInv, TypeOK, RedisTypeOK
<1>7. QED
  BY <1>1, <1>2, <1>3, <1>4, <1>5, <1>6

LEMMA MoveType ==
  ASSUME TypeInv, Move
  PROVE  TypeInv'
<1> USE DEF Move, pool, history
<1> DEFINE q == Head(readable)
<1>1. CASE MoveToBuffer(q) /\ taken' = [source |-> q, report |-> Head(queue[q])]
           /\ keys' = Append(Without(keys, q), q) /\ readable' = <<>> /\ pc' = "save"
           /\ UNCHANGED free
  <2>1. /\ q \in Queue /\ q \in ToSet(keys) /\ Head(queue[q]) \in Report
        /\ buffer' = <<Head(queue[q])>> /\ RedisTypeOK'
    BY <1>1, MoveToBufferType
  <2>2. keys' \in Seq(Queue)
    <3>1. Without(keys, q) \in Seq(Queue)
      BY <2>1, WithoutType DEF TypeInv, TypeOK, LoopTypeOK
    <3>2. QED
      BY <1>1, <2>1, <3>1
  <2>3. taken' \in Job /\ taken'.report = Head(queue[q])
    BY <1>1, <2>1 DEF Job, Source
  <2>4. LoopTypeOK' /\ PoolTypeOK' /\ HistoryTypeOK'
    BY <1>1, <2>2, <2>3 DEF TypeInv, TypeOK, LoopTypeOK, PoolTypeOK, HistoryTypeOK
  <2>5. LoopInv'
    BY <1>1, <2>1, <2>3 DEF TypeInv, LoopInv, Busy
  <2>6. QED
    BY <2>1, <2>4, <2>5 DEF TypeInv, TypeOK
<1>2. CASE /\ readable' = Tail(readable)
           /\ IF Len(readable) = 1 THEN NoReport ELSE UNCHANGED <<pc, free>>
           /\ UNCHANGED <<redis, keys, taken>>
  <2>1. readable \in Seq(Queue) /\ readable # <<>>
    BY DEF TypeInv, TypeOK, LoopTypeOK, LoopInv
  <2>2. /\ readable' \in Seq(Queue) /\ ToSet(readable') \subseteq ToSet(readable)
        /\ Len(readable) # 1 => readable' # <<>>
    <3>1. /\ Tail(readable) \in Seq(Queue) /\ ToSet(Tail(readable)) \subseteq ToSet(readable)
          /\ Len(Tail(readable)) = Len(readable) - 1
      BY <2>1, TailLemma
    <3>2. Len(readable) # 1 => Tail(readable) # <<>>
      <4>1. Len(readable) # 0 /\ Len(readable) \in Nat
        BY <2>1, LenLemma
      <4>2. Len(readable) # 1 => Len(Tail(readable)) # 0
        BY <3>1, <4>1
      <4>3. QED
        BY <3>1, <4>2, LenLemma
    <3>3. QED
      BY <1>2, <3>1, <3>2
  <2>3. pc' \in {"move", "slot"} /\ (pc' = "move" => Len(readable) # 1) /\ free' \in Nat
    BY <1>2 DEF NoReport, TypeInv, TypeOK, PoolTypeOK
  <2>4. RedisTypeOK' /\ LoopTypeOK' /\ PoolTypeOK' /\ HistoryTypeOK'
    BY <1>2, <2>2, <2>3
       DEF redis, TypeInv, TypeOK, RedisTypeOK, LoopTypeOK, PoolTypeOK, HistoryTypeOK
  <2>5. LoopInv'
    BY <1>2, <2>2, <2>3 DEF redis, TypeInv, LoopInv, Busy
  <2>6. QED
    BY <2>4, <2>5 DEF TypeInv, TypeOK
<1>3. QED
  BY <1>1, <1>2

LEMMA LoseMoveType ==
  ASSUME TypeInv, LoseMove
  PROVE  TypeInv'
<1> USE DEF LoseMove, shared, pool
<1>1. RedisTypeOK'
  BY MoveToBufferType
<1>2. faults' \in Seq(Faults) /\ ToSet(faults') = ToSet(faults) \cup {"lost_move"}
  BY FaultType
<1>3. LoopTypeOK' /\ PoolTypeOK' /\ HistoryTypeOK'
  BY <1>2 DEF TypeInv, TypeOK, LoopTypeOK, PoolTypeOK, HistoryTypeOK
<1>4. LoopInv'
  BY <1>2 DEF TypeInv, LoopInv, Busy
<1>5. QED
  BY <1>1, <1>3, <1>4 DEF TypeInv, TypeOK

\* The job that is saved is the report of the buffer, which is empty then.
LEMMA SaveJobType ==
  ASSUME TypeInv, pc = "save", SaveJob
  PROVE  /\ taken \in Job /\ taken.report \in Report /\ buffer = <<taken.report>> /\ buffer' = <<>>
         /\ UNCHANGED <<queue, listed>>
         /\ jobs' = IF taken.report \in Valid THEN [jobs EXCEPT ![JobOf[taken.report]] = taken]
                    ELSE jobs
         /\ taken.report \in Valid => JobOf[taken.report] \in JobId
         /\ RedisTypeOK'
<1> USE DEF SaveJob
<1>1. taken \in Job /\ taken.report \in Report /\ buffer = <<taken.report>>
  BY DEF TypeInv, LoopInv, Job
<1>2. buffer' = <<>>
  BY <1>1, AllButOnly
<1>3. taken.report \in Valid => JobOf[taken.report] \in JobId
  BY DEF JobId
<1>4. jobs' \in [JobId -> Job \cup {None}]
  BY <1>1, <1>3 DEF TypeInv, TypeOK, RedisTypeOK
<1>5. buffer' \in Seq(Report) /\ Len(buffer') =< 1
  BY <1>2, EmptySeq
<1>6. RedisTypeOK'
  BY <1>4, <1>5 DEF TypeInv, TypeOK, RedisTypeOK
<1>7. QED
  BY <1>1, <1>2, <1>3, <1>6

LEMMA SaveType ==
  ASSUME TypeInv, Save
  PROVE  TypeInv'
<1> USE DEF Save, NoReport, pool
<1>1. RedisTypeOK' /\ taken \in Job /\ taken.report \in Report
  BY SaveJobType
<1>2. LoopTypeOK' /\ PoolTypeOK' /\ HistoryTypeOK'
  BY <1>1 DEF TypeInv, TypeOK, LoopTypeOK, PoolTypeOK, HistoryTypeOK
<1>3. LoopInv'
  BY <1>1 DEF TypeInv, LoopInv, Busy
<1>4. QED
  BY <1>1, <1>2, <1>3 DEF TypeInv, TypeOK

LEMMA LoseSaveType ==
  ASSUME TypeInv, LoseSave
  PROVE  TypeInv'
<1> USE DEF LoseSave, shared, pool
<1>1. RedisTypeOK' /\ taken \in Job /\ taken.report \in Report
  BY SaveJobType
<1>2. faults' \in Seq(Faults) /\ ToSet(faults') = ToSet(faults) \cup {"lost_save"}
  BY FaultType
<1>3. LoopTypeOK' /\ PoolTypeOK' /\ HistoryTypeOK'
  BY <1>1, <1>2 DEF TypeInv, TypeOK, LoopTypeOK, PoolTypeOK, HistoryTypeOK
<1>4. LoopInv'
  BY <1>1, <1>2 DEF TypeInv, LoopInv, Busy
<1>5. QED
  BY <1>1, <1>3, <1>4 DEF TypeInv, TypeOK

LEMMA CountType ==
  ASSUME TypeInv, Count
  PROVE  TypeInv'
<1> USE DEF Count, redis, shared, pool, history
<1>1. counter[taken.source] \in Nat
  BY DEF TypeInv, TypeOK, LoopInv, PoolTypeOK, Job
<1>2. RedisTypeOK' /\ LoopTypeOK' /\ PoolTypeOK' /\ HistoryTypeOK'
  BY <1>1 DEF TypeInv, TypeOK, RedisTypeOK, LoopTypeOK, PoolTypeOK, HistoryTypeOK
<1>3. LoopInv'
  BY DEF TypeInv, LoopInv, Busy
<1>4. QED
  BY <1>2, <1>3 DEF TypeInv, TypeOK

LEMMA DispatchType ==
  ASSUME TypeInv, NEW w \in Worker, Dispatch(w)
  PROVE  TypeInv'
<1> USE DEF Dispatch, redis, history
<1>1. taken \in Job
  BY DEF TypeInv, LoopInv
<1>2. RedisTypeOK' /\ LoopTypeOK' /\ HistoryTypeOK'
  BY DEF TypeInv, TypeOK, RedisTypeOK, LoopTypeOK, HistoryTypeOK
<1>3. PoolTypeOK'
  <2>1. taken.source \in Source /\ read + 1 \in Nat
    BY <1>1 DEF TypeInv, TypeOK, LoopTypeOK, Job
  <2>2. counter' \in [Source -> Nat]
    BY <2>1 DEF TypeInv, TypeOK, PoolTypeOK
  <2>3. QED
    BY <1>1, <2>2 DEF TypeInv, TypeOK, PoolTypeOK
<1>4. LoopInv'
  BY DEF TypeInv, LoopInv
<1>5. QED
  BY <1>2, <1>3, <1>4 DEF TypeInv, TypeOK

LEMMA JoinType ==
  ASSUME TypeInv, Join
  PROVE  TypeInv'
<1> USE DEF Join, redis, shared, pool, history
<1>1. RedisTypeOK' /\ LoopTypeOK' /\ PoolTypeOK' /\ HistoryTypeOK'
  BY DEF TypeInv, TypeOK, RedisTypeOK, LoopTypeOK, PoolTypeOK, HistoryTypeOK
<1>2. LoopInv'
  BY DEF TypeInv, LoopInv, Busy
<1>3. QED
  BY <1>1, <1>2 DEF TypeInv, TypeOK

\* A process that is gone leaves things as they are when none runs.
LEMMA GoneType ==
  ASSUME TypeInv, Gone
  PROVE  LoopTypeOK' /\ Busy' = {} /\ (PoolTypeOK' <=> orphans' \in SUBSET Job)
         /\ (RedisTypeOK' => LoopInv')
<1> USE DEF Gone
<1>1. Cardinality(Worker) \in Nat /\ IsFiniteSet({})
  BY DaemonAssumption, FS_CardinalityType, FS_EmptySet
<1>2. keys' \in Seq(Queue) /\ readable' \in Seq(Queue)
  OBVIOUS
<1>3. finish' \in BOOLEAN /\ due' \in BOOLEAN
  OBVIOUS
<1>4. LoopTypeOK'
  BY <1>2, <1>3 DEF LoopTypeOK
<1>5. Busy' = {}
  BY DEF Busy
<1>6. PoolTypeOK' <=> orphans' \in SUBSET Job
  BY <1>1 DEF PoolTypeOK
<1>7. LoopInv'
  BY <1>5 DEF LoopInv
<1>8. QED
  BY <1>4, <1>5, <1>6, <1>7

LEMMA JoinEndType ==
  ASSUME TypeInv, JoinEnd
  PROVE  TypeInv'
<1> USE DEF JoinEnd, redis, history
<1>1. RedisTypeOK' /\ HistoryTypeOK' /\ orphans' \in SUBSET Job
  BY DEF TypeInv, TypeOK, RedisTypeOK, PoolTypeOK, HistoryTypeOK
<1>2. QED
  BY <1>1, GoneType DEF TypeInv, TypeOK

LEMMA StopEndType ==
  ASSUME TypeInv, StopEnd
  PROVE  TypeInv'
<1> USE DEF StopEnd, redis, history
<1>1. RedisTypeOK' /\ HistoryTypeOK' /\ orphans' \in SUBSET Job
  BY DEF TypeInv, TypeOK, RedisTypeOK, PoolTypeOK, HistoryTypeOK
<1>2. QED
  BY <1>1, GoneType DEF TypeInv, TypeOK

LEMMA CrashType ==
  ASSUME TypeInv, Crash
  PROVE  TypeInv'
<1> USE DEF Crash, redis
<1>1. faults' \in Seq(Faults)
  BY FaultType
<1>2. RedisTypeOK' /\ HistoryTypeOK'
  BY <1>1 DEF TypeInv, TypeOK, RedisTypeOK, HistoryTypeOK
<1>3. orphans' \in SUBSET Job
  BY DEF TypeInv, TypeOK, PoolTypeOK, Busy
<1>4. QED
  BY <1>2, <1>3, GoneType DEF TypeInv, TypeOK

LEMMA FinishType ==
  ASSUME TypeInv, NEW w \in Worker, Finish(w)
  PROVE  TypeInv'
<1> USE DEF Finish, redis, loop, shared
<1>1. work[w] \in Job /\ pc # "off"
  BY DEF TypeInv, TypeOK, PoolTypeOK, LoopInv, Busy
<1>2. done' \in Seq(Job)
  BY <1>1 DEF TypeInv, TypeOK, PoolTypeOK
<1>3. work[w].report \in Report
  BY <1>1 DEF Job
<1>4. RedisTypeOK' /\ LoopTypeOK' /\ PoolTypeOK' /\ HistoryTypeOK'
  BY <1>2, <1>3 DEF TypeInv, TypeOK, RedisTypeOK, LoopTypeOK, PoolTypeOK, HistoryTypeOK
<1>5. LoopInv'
  BY <1>1 DEF TypeInv, LoopInv
<1>6. QED
  BY <1>4, <1>5 DEF TypeInv, TypeOK

LEMMA CallbackReadType ==
  ASSUME TypeInv, CallbackRead
  PROVE  TypeInv'
<1> USE DEF CallbackRead, redis, loop, shared, history
<1>1. done \in Seq(Job) /\ done # <<>> /\ pc # "off"
  BY DEF TypeInv, TypeOK, PoolTypeOK, LoopInv
<1>2. Head(done) \in Job /\ done' \in Seq(Job)
  BY <1>1
<1>3. counter[Head(done).source] \in Nat
  BY <1>2 DEF TypeInv, TypeOK, PoolTypeOK, Job
<1>4. callback' \in [step : {"write", "remove"}, job : Job, read : Nat]
  BY <1>2, <1>3
<1>5. RedisTypeOK' /\ LoopTypeOK' /\ PoolTypeOK' /\ HistoryTypeOK'
  BY <1>2, <1>4 DEF TypeInv, TypeOK, RedisTypeOK, LoopTypeOK, PoolTypeOK, HistoryTypeOK
<1>6. LoopInv'
  BY <1>1 DEF TypeInv, LoopInv, Busy
<1>7. QED
  BY <1>5, <1>6 DEF TypeInv, TypeOK

\* A callback that runs has a job.
LEMMA CallbackJob ==
  ASSUME TypeInv
  PROVE  /\ callback.step # "idle" => /\ callback \in [step : {"write", "remove"}, job : Job, read : Nat]
                                      /\ callback.job \in Job /\ pc # "off"
         /\ callback.step = "idle" => callback = IdleCallback /\ callback.job = None
         /\ callback.step \in {"idle", "write", "remove"}
BY DEF TypeInv, TypeOK, PoolTypeOK, LoopInv, IdleCallback

LEMMA CallbackReleaseType ==
  ASSUME TypeInv, CallbackRelease
  PROVE  TypeInv'
<1> USE DEF CallbackRelease, redis, loop, history
<1>1. callback \in [step : {"write", "remove"}, job : Job, read : Nat] /\ pc # "off"
  BY CallbackJob
<1>2. callback' \in [step : {"write", "remove"}, job : Job, read : Nat]
  BY <1>1
<1>3. counter' \in [Source -> Nat]
  <2>1. callback.job.source \in Source /\ (IF callback.read > 0 THEN callback.read - 1 ELSE 0) \in Nat
    BY <1>1 DEF Job
  <2>2. QED
    BY <2>1 DEF TypeInv, TypeOK, PoolTypeOK
<1>4. overwritten' \in [Source -> Int]
  <2>1. callback.job.source \in Source /\ callback.read \in Int
    BY <1>1 DEF Job
  <2>2. counter[callback.job.source] \in Int /\ overwritten[callback.job.source] \in Int
    BY <2>1 DEF TypeInv, TypeOK, PoolTypeOK
  <2>3. overwritten[callback.job.source] + (counter[callback.job.source] - callback.read) \in Int
    BY <2>1, <2>2
  <2>4. QED
    BY <2>3 DEF TypeInv, TypeOK, PoolTypeOK
<1>5. RedisTypeOK' /\ LoopTypeOK' /\ PoolTypeOK' /\ HistoryTypeOK'
  BY <1>2, <1>3, <1>4 DEF TypeInv, TypeOK, RedisTypeOK, LoopTypeOK, PoolTypeOK, HistoryTypeOK
<1>a. LoopInv'
  BY <1>1 DEF TypeInv, LoopInv, Busy
<1>6. QED
  BY <1>5, <1>a DEF TypeInv, TypeOK

LEMMA CallbackRemoveType ==
  ASSUME TypeInv, CallbackRemove
  PROVE  TypeInv'
<1> USE DEF CallbackRemove, loop, shared, history
<1>1. jobs' \in [JobId -> Job \cup {None}]
  BY DEF TypeInv, TypeOK, RedisTypeOK
<1>2. RedisTypeOK' /\ LoopTypeOK' /\ PoolTypeOK' /\ HistoryTypeOK'
  BY <1>1 DEF TypeInv, TypeOK, RedisTypeOK, LoopTypeOK, PoolTypeOK, HistoryTypeOK
<1>3. LoopInv'
  BY DEF TypeInv, LoopInv, Busy
<1>4. QED
  BY <1>2, <1>3 DEF TypeInv, TypeOK

LEMMA FinishOrphanType ==
  ASSUME TypeInv, NEW j \in orphans, FinishOrphan(j)
  PROVE  TypeInv'
<1> USE DEF FinishOrphan, redis, loop, shared, pool
<1>1. j.report \in Report
  BY DEF TypeInv, TypeOK, PoolTypeOK, Job
<1>2. RedisTypeOK' /\ LoopTypeOK' /\ PoolTypeOK' /\ HistoryTypeOK'
  BY <1>1 DEF TypeInv, TypeOK, RedisTypeOK, LoopTypeOK, PoolTypeOK, HistoryTypeOK
<1>3. LoopInv'
  BY DEF TypeInv, LoopInv, Busy
<1>4. QED
  BY <1>2, <1>3 DEF TypeInv, TypeOK

LEMMA StopType ==
  ASSUME TypeInv, Stop
  PROVE  TypeInv'
<1> USE DEF Stop, redis, shared, pool
<1>1. faults' \in Seq(Faults) /\ ToSet(faults') = ToSet(faults) \cup {"stop"}
  BY FaultType
<1>2. RedisTypeOK' /\ LoopTypeOK' /\ PoolTypeOK' /\ HistoryTypeOK'
  BY <1>1 DEF TypeInv, TypeOK, RedisTypeOK, LoopTypeOK, PoolTypeOK, HistoryTypeOK
<1>3. LoopInv'
  BY <1>1 DEF TypeInv, LoopInv, Busy, Up
<1>4. QED
  BY <1>2, <1>3 DEF TypeInv, TypeOK

LEMMA KillType ==
  ASSUME TypeInv, NEW w \in Worker, Kill(w)
  PROVE  TypeInv'
<1> USE DEF Kill, redis, loop, shared
<1>1. faults' \in Seq(Faults) /\ ToSet(faults') = ToSet(faults) \cup {"kill"}
  BY FaultType
<1>2. work[w] \in Job /\ pc # "off"
  BY DEF TypeInv, TypeOK, PoolTypeOK, LoopInv, Busy
<1>3. IsFiniteSet(lost')
  BY FS_AddElement DEF TypeInv, TypeOK, PoolTypeOK
<1>4. RedisTypeOK' /\ LoopTypeOK' /\ PoolTypeOK' /\ HistoryTypeOK'
  BY <1>1, <1>2, <1>3 DEF TypeInv, TypeOK, RedisTypeOK, LoopTypeOK, PoolTypeOK, HistoryTypeOK
<1>5. LoopInv'
  BY <1>1, <1>2 DEF TypeInv, LoopInv
<1>6. QED
  BY <1>4, <1>5 DEF TypeInv, TypeOK

LEMMA TickType ==
  ASSUME TypeInv, Tick
  PROVE  TypeInv'
<1> USE DEF Tick, redis, shared, pool, history
<1>1. RedisTypeOK' /\ LoopTypeOK' /\ PoolTypeOK' /\ HistoryTypeOK'
  BY DEF TypeInv, TypeOK, RedisTypeOK, LoopTypeOK, PoolTypeOK, HistoryTypeOK
<1>2. LoopInv'
  BY DEF TypeInv, LoopInv, Busy
<1>3. QED
  BY <1>1, <1>2 DEF TypeInv, TypeOK

LEMMA TypeStep ==
  ASSUME TypeInv, [Next]_vars
  PROVE  TypeInv'
<1>1. CASE UNCHANGED vars
  <2> USE <1>1 DEF vars, redis, loop, shared, pool, history
  <2>1. RedisTypeOK' /\ LoopTypeOK' /\ PoolTypeOK' /\ HistoryTypeOK'
    BY DEF TypeInv, TypeOK, RedisTypeOK, LoopTypeOK, PoolTypeOK, HistoryTypeOK
  <2>2. LoopInv'
    BY DEF TypeInv, LoopInv, Busy
  <2>3. QED
    BY <2>1, <2>2 DEF TypeInv, TypeOK
<1>2. CASE MainLoop
  BY <1>2, LoadUnfinishedType, TakeSlotType, PeekType, MoveType, SaveType, CountType, DispatchType,
     JoinType, JoinEndType, StopEndType DEF MainLoop
<1>3. CASE Callback
  BY <1>3, CallbackReadType, CallbackReleaseType, CallbackRemoveType DEF Callback
<1>4. CASE Environment
  BY <1>4, SubmitType, RivalType, LoseMoveType, LoseSaveType, CrashType, StopType, KillType
     DEF Environment
<1>5. QED
  BY <1>1, <1>2, <1>3, <1>4, StartType, FinishType, FinishOrphanType, TickType DEF Next

\* Everything keeps its type, the buffer holds at most one report, and the main loop has
\* a job exactly where it needs one.
THEOREM Typing == Spec => [](TypeOK /\ LoopInv)
<1>1. Init => TypeInv
  BY InitType
<1>2. TypeInv /\ [Next]_vars => TypeInv'
  BY TypeStep
<1>3. TypeInv => TypeOK /\ LoopInv
  BY DEF TypeInv
<1>4. QED
  BY <1>1, <1>2, <1>3, PTL DEF Spec

-----------------------------------------------------------------------------
(* Where a report is *)

PlaceInv == WaitingInv /\ JobsInv /\ DistinctInv

\* The elements of the shortest sequences.
LEMMA ToSetShort ==
  ToSet(<<>>) = {} /\ \A e : ToSet(<<e>>) = {e}
<1>1. ToSet(<<>>) = {}
  BY DEF ToSet
<1>2. ASSUME NEW e PROVE ToSet(<<e>>) = {e}
  <2>1. DOMAIN <<e>> = {1} /\ <<e>>[1] = e
    OBVIOUS
  <2>2. QED
    BY <2>1 DEF ToSet
<1>3. QED
  BY <1>1, <1>2

LEMMA InitPlace ==
  Init => PlaceInv
<1>1. SUFFICES ASSUME Init PROVE PlaceInv
  OBVIOUS
<1>2. Busy = {} /\ Working = {} /\ Taken = {} /\ Called = {} /\ lost = {} /\ done = <<>>
  BY <1>1 DEF Init, Busy, Working, Taken, Called, IdleCallback
<1>3. ToSet(done) = {} /\ Hand = {}
  BY <1>2, ToSetShort DEF Hand
<1>4. \A q \in Queue : ToSet(queue[q]) = {} /\ NoRepeats(queue[q])
  BY <1>1, ToSetShort DEF Init, NoRepeats
<1>5. WaitingInv
  BY <1>1, <1>3, <1>4, ToSetShort, DaemonAssumption DEF Init, WaitingInv
<1>6. JobsInv
  BY <1>1, <1>2, <1>3 DEF Init, JobsInv
<1>7. DistinctInv
  BY <1>2, <1>3 DEF DistinctInv, NoRepeats
<1>8. QED
  BY <1>5, <1>6, <1>7 DEF PlaceInv

RecordsShrink == \A id \in JobId : jobs'[id] \in {jobs[id], None}

\* Fewer reports that wait, records and jobs at hand: the rest is in its place.
LEMMA WaitingShrink ==
  ASSUME WaitingInv, RecordsShrink, Hand' \subseteq Hand, submitted \subseteq submitted',
         \A q \in Queue : NoRepeats(queue'[q]) /\ ToSet(queue'[q]) \subseteq ToSet(queue[q]),
         ToSet(buffer') \subseteq ToSet(buffer), ToSet(buffer) \subseteq Report
  PROVE  WaitingInv'
<1>1. \A r \in Report : QueueOf[r] \in Queue
  BY DaemonAssumption
<1>2. \A r \in Report : Recorded(r)' => Recorded(r)
  BY DEF Recorded, RecordsShrink
<1>3. QED
  BY <1>1, <1>2 DEF WaitingInv

LEMMA JobsShrink ==
  ASSUME JobsInv, RecordsShrink, Hand' \subseteq Hand, submitted \subseteq submitted',
         \A j \in ToSet(done') \cup Called' : j.report \in handled',
         \A j \in Hand' : JobOf[j.report] \notin todo'
  PROVE  JobsInv'
BY DEF JobsInv, RecordsShrink

LEMMA DistinctShrink ==
  ASSUME DistinctInv, Taken' \subseteq Taken, Called' \subseteq Called, lost' \subseteq lost,
         \A w \in Busy' : w \in Busy /\ work'[w] = work[w],
         ToSet(done') \subseteq ToSet(done), NoRepeats(done')
  PROVE  DistinctInv' /\ Hand' \subseteq Hand
<1>1. Working' \subseteq Working
  BY DEF Working
<1>2. Hand' \subseteq Hand
  BY <1>1 DEF Hand
<1>3. QED
  BY <1>1, <1>2 DEF DistinctInv

\* A step that leaves reports where they are, or lets go of some.
LEMMA PlaceShrink ==
  ASSUME TypeInv, PlaceInv, RecordsShrink, submitted \subseteq submitted',
         \A q \in Queue : NoRepeats(queue'[q]) /\ ToSet(queue'[q]) \subseteq ToSet(queue[q]),
         UNCHANGED buffer,
         Taken' \subseteq Taken, Called' \subseteq Called, lost' \subseteq lost,
         \A w \in Busy' : w \in Busy /\ work'[w] = work[w],
         ToSet(done') \subseteq ToSet(done), NoRepeats(done'),
         handled \subseteq handled',
         todo' \subseteq todo \/ Hand = {}
  PROVE  PlaceInv'
<1>1. DistinctInv' /\ Hand' \subseteq Hand
  BY DistinctShrink DEF PlaceInv
<1>2. ToSet(buffer) \subseteq Report
  BY ToSetLen DEF TypeInv, TypeOK, RedisTypeOK
<1>3. WaitingInv'
  BY <1>1, <1>2, WaitingShrink DEF PlaceInv
<1>4. \A j \in ToSet(done') \cup Called' : j.report \in handled'
  BY DEF PlaceInv, JobsInv
<1>5. \A j \in Hand' : JobOf[j.report] \notin todo'
  BY <1>1 DEF PlaceInv, JobsInv
<1>6. JobsInv'
  BY <1>1, <1>4, <1>5, JobsShrink DEF PlaceInv
<1>7. QED
  BY <1>1, <1>3, <1>6 DEF PlaceInv

\* The steps of that kind that leave Redis and the pool alone,
LEMMA QuietPlace ==
  ASSUME TypeInv, PlaceInv, UNCHANGED <<queue, buffer, jobs, work, done, lost, submitted>>,
         callback.step # "idle" => UNCHANGED <<callback.job>>,
         callback'.step # "idle" => callback.step # "idle",
         Taken' \subseteq Taken, handled \subseteq handled',
         todo' \subseteq todo \/ Hand = {}
  PROVE  PlaceInv'
<1>1. RecordsShrink
  BY DEF RecordsShrink
<1>2. Called' \subseteq Called
  BY DEF Called
<1>3. \A q \in Queue : NoRepeats(queue'[q]) /\ ToSet(queue'[q]) \subseteq ToSet(queue[q])
  BY DEF PlaceInv, WaitingInv
<1>4. \A w \in Busy' : w \in Busy /\ work'[w] = work[w]
  BY DEF Busy
<1>5. NoRepeats(done')
  BY DEF PlaceInv, DistinctInv
<1>6. QED
  BY <1>1, <1>2, <1>3, <1>4, <1>5, PlaceShrink

\* those that end the process,
LEMMA GonePlace ==
  ASSUME TypeInv, PlaceInv, Gone, UNCHANGED <<redis, submitted, handled>>
  PROVE  PlaceInv'
<1> USE DEF Gone, redis
<1>1. RecordsShrink
  BY DEF RecordsShrink
<1>2. Called' = {} /\ Taken' = {} /\ lost' = {} /\ Busy' = {}
  BY DEF Called, Taken, Busy, IdleCallback
<1>3. \A q \in Queue : NoRepeats(queue'[q]) /\ ToSet(queue'[q]) \subseteq ToSet(queue[q])
  BY DEF PlaceInv, WaitingInv
<1>4. ToSet(done') = {} /\ NoRepeats(done')
  BY ToSetShort DEF NoRepeats
<1>5. QED
  BY <1>1, <1>2, <1>3, <1>4, PlaceShrink

\* and the other ones.
LEMMA RivalPlace ==
  ASSUME TypeInv, PlaceInv, NEW q \in Queue, Rival(q)
  PROVE  PlaceInv'
<1> USE DEF Rival, loop, shared, pool
<1>1. queue[q] \in Seq(Report) /\ queue[q] # <<>>
  BY DEF TypeInv, TypeOK, RedisTypeOK
<1>2. \A p \in Queue : NoRepeats(queue'[p]) /\ ToSet(queue'[p]) \subseteq ToSet(queue[p])
  <2>1. NoRepeats(Tail(queue[q])) /\ ToSet(Tail(queue[q])) \subseteq ToSet(queue[q])
    BY <1>1, TailLemma DEF PlaceInv, WaitingInv
  <2>2. \A p \in Queue : queue'[p] = IF p = q THEN Tail(queue[q]) ELSE queue[p]
    BY DEF TypeInv, TypeOK, RedisTypeOK
  <2>3. QED
    BY <2>1, <2>2 DEF PlaceInv, WaitingInv
<1>3. RecordsShrink
  BY DEF RecordsShrink
<1>4. Called' = Called /\ Taken' = Taken /\ lost' = lost /\ Busy' = Busy
  BY DEF Called, Taken, Busy
<1>5. NoRepeats(done')
  BY DEF PlaceInv, DistinctInv
<1>6. QED
  BY <1>2, <1>3, <1>4, <1>5, PlaceShrink

LEMMA CallbackRemovePlace ==
  ASSUME TypeInv, PlaceInv, CallbackRemove
  PROVE  PlaceInv'
<1> USE DEF CallbackRemove, loop, shared, history
<1>1. RecordsShrink
  BY DEF RecordsShrink, TypeInv, TypeOK, RedisTypeOK
<1>2. Called' = {} /\ Taken' = Taken /\ lost' = lost /\ Busy' = Busy
  BY DEF Called, Taken, Busy, IdleCallback
<1>3. \A q \in Queue : NoRepeats(queue'[q]) /\ ToSet(queue'[q]) \subseteq ToSet(queue[q])
  BY DEF PlaceInv, WaitingInv
<1>4. NoRepeats(done')
  BY DEF PlaceInv, DistinctInv
<1>5. QED
  BY <1>1, <1>2, <1>3, <1>4, PlaceShrink

\* A report is submitted when nothing is left of it.
LEMMA SubmitPlace ==
  ASSUME TypeInv, PlaceInv, NEW r \in Report, Submit(r)
  PROVE  PlaceInv'
<1> USE DEF Submit, loop, shared, pool
<1> DEFINE q == QueueOf[r]
<1>1. q \in Queue /\ queue[q] \in Seq(Report)
  BY DaemonAssumption DEF TypeInv, TypeOK, RedisTypeOK
<1>2. Called' = Called /\ Taken' = Taken /\ lost' = lost /\ Busy' = Busy /\ Hand' = Hand
  BY DEF Called, Taken, Busy, Hand, Working
<1>3. \A s \in Report : Recorded(s)' = Recorded(s)
  BY DEF Recorded
<1>4. r \notin ToSet(queue[q]) /\ r \notin ToSet(buffer) /\ ~Recorded(r)
  <2>1. CASE r \notin submitted
    BY <1>1, <2>1 DEF PlaceInv, WaitingInv, JobsInv, Recorded
  <2>2. CASE ~Pending(r)
    BY <2>2 DEF Pending
  <2>3. QED
    BY <2>1, <2>2
<1>5. \A j \in Hand : j.report # r
  <2>1. CASE r \notin submitted
    BY <2>1 DEF PlaceInv, JobsInv
  <2>2. CASE ~InHands(r) /\ \A j \in orphans \cup lost : j.report # r
    <3>1. \A j \in Taken : j \in Job /\ j = taken
      BY DEF Taken, TypeInv, LoopInv
    <3>2. \A j \in Called : j \in Job /\ j = callback.job
      BY CallbackJob DEF Called
    <3>3. \A j \in ToSet(done) : j \in Job
      BY ToSetLen DEF TypeInv, TypeOK, PoolTypeOK
    <3>4. \A j \in Working : j \in Job
      BY DEF TypeInv, TypeOK, PoolTypeOK, Working, Busy
    <3>5. \A j \in {taken, callback.job} \cup ToSet(done) \cup Working : j \in Job => j.report # r
      BY <2>2, NoneAssumption DEF InHands, Working
    <3>6. QED
      BY <2>2, <3>1, <3>2, <3>3, <3>4, <3>5 DEF Hand
  <2>3. QED
    BY <2>1, <2>2
<1>6. /\ \A p \in Queue : p # q => queue'[p] = queue[p]
      /\ queue'[q] = Append(queue[q], r)
      /\ ToSet(queue'[q]) = ToSet(queue[q]) \cup {r} /\ NoRepeats(queue'[q])
  BY <1>1, <1>4, AppendLemma DEF TypeInv, TypeOK, RedisTypeOK, PlaceInv, WaitingInv
<1>7. WaitingInv'
  <2>1. \A p \in Queue : NoRepeats(queue'[p])
    BY <1>6 DEF PlaceInv, WaitingInv
  <2>2. \A p \in Queue : \A s \in ToSet(queue'[p]) : p = QueueOf[s] /\ s \in submitted'
    BY <1>6 DEF PlaceInv, WaitingInv
  <2>3. \A s \in ToSet(buffer') : s \in submitted' /\ s \notin ToSet(queue'[QueueOf[s]])
    <3>1. ToSet(buffer) \subseteq Report
      BY ToSetLen DEF TypeInv, TypeOK, RedisTypeOK
    <3>2. QED
      BY <1>4, <1>6, <3>1, DaemonAssumption DEF PlaceInv, WaitingInv
  <2>4. ASSUME NEW s \in Report, s \in ToSet(queue'[QueueOf[s]]) \cup ToSet(buffer')
        PROVE  ~Recorded(s)' /\ \A j \in Hand' : j.report # s
    <3>1. CASE s = r
      BY <1>2, <1>3, <1>4, <1>5, <3>1
    <3>2. CASE s # r
      BY <1>2, <1>3, <1>6, <2>4, <3>2, DaemonAssumption DEF PlaceInv, WaitingInv
    <3>3. QED
      BY <3>1, <3>2
  <2>5. QED
    BY <2>1, <2>2, <2>3, <2>4 DEF WaitingInv
<1>8. JobsInv'
  <2>1. \A j \in ToSet(done') \cup Called' : j.report \in handled'
    BY <1>2, <1>5 DEF PlaceInv, JobsInv, Hand
  <2>2. QED
    BY <1>2, <2>1, JobsShrink DEF PlaceInv, JobsInv, RecordsShrink
<1>9. DistinctInv'
  BY <1>2, DistinctShrink DEF PlaceInv, DistinctInv
<1>10. QED
  BY <1>7, <1>8, <1>9 DEF PlaceInv

\* A record is made a job again: nobody else has it.
LEMMA LoadUnfinishedPlace ==
  ASSUME TypeInv, PlaceInv, NEW id \in JobId, LoadUnfinished(id)
  PROVE  PlaceInv'
<1> USE DEF LoadUnfinished, redis, pool, history
<1>1. CASE jobs[id] = None
  <2>1. Taken' = {} /\ todo' \subseteq todo
    BY <1>1 DEF Taken
  <2>2. QED
    BY <2>1, QuietPlace
<1>2. CASE jobs[id] # None
  <2> DEFINE j == jobs[id]
  <2>1. /\ j.report \in Valid \cap submitted /\ JobOf[j.report] = id /\ j \in Job
        /\ Recorded(j.report)
    BY <1>2 DEF PlaceInv, JobsInv, TypeInv, TypeOK, RedisTypeOK, Recorded
  <2>2. Taken = {} /\ Taken' = {j} /\ Called' = Called /\ Busy' = Busy /\ Working' = Working
    BY <1>2 DEF Taken, Called, Busy, Working
  <2>3. Hand' = Hand \cup {j}
    BY <2>2 DEF Hand
  <2>4. \A k \in Hand : k.report # j.report
    BY <2>1 DEF PlaceInv, JobsInv
  <2>5. \A r \in Report : Recorded(r)' = Recorded(r)
    BY DEF Recorded
  <2>6. WaitingInv'
    <3>1. \A r \in Report : r \in ToSet(queue'[QueueOf[r]]) \cup ToSet(buffer') =>
            ~Recorded(r)' /\ \A k \in Hand' : k.report # r
      BY <2>1, <2>3, <2>5 DEF PlaceInv, WaitingInv
    <3>2. QED
      BY <3>1 DEF PlaceInv, WaitingInv
  <2>7. JobsInv'
    BY <2>1, <2>2, <2>3 DEF PlaceInv, JobsInv
  <2>8. DistinctInv'
    BY <2>2, <2>3, <2>4 DEF PlaceInv, DistinctInv, Hand
  <2>9. QED
    BY <2>6, <2>7, <2>8 DEF PlaceInv
<1>3. QED
  BY <1>1, <1>2

\* A report that is moved leaves its queue.
LEMMA MoveToBufferPlace ==
  ASSUME TypeInv, PlaceInv, pc = "move", MoveToBuffer(Head(readable)),
         UNCHANGED <<todo, pool, submitted, handled>>, pc' \in {"peek", "save"}
  PROVE  PlaceInv'
<1> USE DEF pool
<1> DEFINE q == Head(readable)
<1> DEFINE r == Head(queue[q])
<1>1. /\ q \in Queue /\ queue[q] \in Seq(Report) /\ queue[q] # <<>> /\ r \in Report
      /\ buffer = <<>> /\ buffer' = <<r>> /\ queue' = [queue EXCEPT ![q] = Tail(@)]
      /\ UNCHANGED <<jobs>>
  BY MoveToBufferType DEF MoveToBuffer
<1>2. /\ r \in ToSet(queue[q])
      /\ ToSet(Tail(queue[q])) \subseteq ToSet(queue[q]) /\ NoRepeats(Tail(queue[q]))
      /\ r \notin ToSet(Tail(queue[q]))
  BY <1>1, TailLemma DEF PlaceInv, WaitingInv
<1>3. q = QueueOf[r] /\ r \in submitted
  BY <1>1, <1>2 DEF PlaceInv, WaitingInv
<1>4. \A p \in Queue : queue'[p] = IF p = q THEN Tail(queue[q]) ELSE queue[p]
  BY <1>1 DEF TypeInv, TypeOK, RedisTypeOK
<1>5. ToSet(buffer') = {r}
  BY <1>1, ToSetShort
<1>6. Taken = {} /\ Taken' = {} /\ Called' = Called /\ Busy' = Busy /\ Working' = Working /\ Hand' = Hand
  BY DEF Taken, Called, Busy, Working, Hand
<1>7. \A s \in Report : Recorded(s)' = Recorded(s)
  BY <1>1 DEF Recorded
<1>8. WaitingInv'
  <2>1. \A p \in Queue : NoRepeats(queue'[p]) /\ \A s \in ToSet(queue'[p]) : p = QueueOf[s] /\ s \in submitted'
    BY <1>2, <1>4 DEF PlaceInv, WaitingInv
  <2>2. \A s \in ToSet(buffer') : s \in submitted' /\ s \notin ToSet(queue'[QueueOf[s]])
    BY <1>1, <1>2, <1>3, <1>4, <1>5
  <2>3. \A s \in Report : s \in ToSet(queue'[QueueOf[s]]) \cup ToSet(buffer') =>
          s \in ToSet(queue[QueueOf[s]])
    BY <1>1, <1>2, <1>3, <1>4, <1>5, DaemonAssumption
  <2>4. \A s \in Report : s \in ToSet(queue'[QueueOf[s]]) \cup ToSet(buffer') =>
          ~Recorded(s)' /\ \A j \in Hand' : j.report # s
    BY <1>6, <1>7, <2>3 DEF PlaceInv, WaitingInv
  <2>5. QED
    BY <2>1, <2>2, <2>4 DEF WaitingInv
<1>9. JobsInv'
  BY <1>1, <1>6, JobsShrink DEF PlaceInv, JobsInv, RecordsShrink
<1>10. DistinctInv'
  BY <1>6, DistinctShrink DEF PlaceInv, DistinctInv
<1>11. QED
  BY <1>8, <1>9, <1>10 DEF PlaceInv

\* The report of the buffer is recorded, or dropped if it cannot be parsed.
LEMMA SaveJobPlace ==
  ASSUME TypeInv, PlaceInv, pc = "save", SaveJob,
         UNCHANGED <<todo, pool, submitted>>, handled \subseteq handled'
  PROVE  /\ Taken' = {} => PlaceInv'
         /\ Taken' = {taken} /\ taken.report \in Valid => PlaceInv'
<1> USE DEF pool
<1> DEFINE r == taken.report
<1>1. /\ taken \in Job /\ r \in Report /\ buffer = <<r>> /\ buffer' = <<>>
      /\ UNCHANGED <<queue, listed>>
      /\ jobs' = IF r \in Valid THEN [jobs EXCEPT ![JobOf[r]] = taken] ELSE jobs
      /\ r \in Valid => JobOf[r] \in JobId
  BY SaveJobType
<1>2. ToSet(buffer) = {r} /\ ToSet(buffer') = {}
  BY <1>1, ToSetShort
<1>3. r \in submitted /\ r \notin ToSet(queue[QueueOf[r]]) /\ ~Recorded(r) /\ \A j \in Hand : j.report # r
  BY <1>1, <1>2 DEF PlaceInv, WaitingInv
<1>4. \A s \in Report : Recorded(s)' => Recorded(s) \/ s = r
  BY <1>1 DEF Recorded, TypeInv, TypeOK, RedisTypeOK
<1>5. Taken = {} /\ Called' = Called /\ Busy' = Busy /\ Working' = Working /\ todo = {}
  BY DEF Taken, Called, Busy, Working, TypeInv, LoopInv
<1>6. \A id \in JobId : jobs'[id] # None => jobs'[id].report \in Valid \cap submitted /\ JobOf[jobs'[id].report] = id
  BY <1>1, <1>3 DEF PlaceInv, JobsInv, TypeInv, TypeOK, RedisTypeOK
<1>7. ASSUME \A j \in Hand' : j \in Hand \/ j = taken
      PROVE  WaitingInv'
  <2>1. \A s \in Report : s \in ToSet(queue'[QueueOf[s]]) \cup ToSet(buffer') =>
          s # r /\ s \in ToSet(queue[QueueOf[s]])
    BY <1>1, <1>2, <1>3
  <2>2. \A s \in Report : s \in ToSet(queue'[QueueOf[s]]) \cup ToSet(buffer') =>
          ~Recorded(s)' /\ \A j \in Hand' : j.report # s
    BY <1>4, <1>7, <2>1 DEF PlaceInv, WaitingInv
  <2>3. QED
    BY <1>1, <1>2, <2>2 DEF PlaceInv, WaitingInv
<1>8. \A j \in ToSet(done') \cup Called' : j.report \in handled'
  BY <1>5 DEF PlaceInv, JobsInv
<1>9. ASSUME Taken' = {}
      PROVE  PlaceInv'
  <2>1. Hand' = Hand
    BY <1>5, <1>9 DEF Hand
  <2>2. JobsInv'
    BY <1>5, <1>6, <1>8, <2>1 DEF PlaceInv, JobsInv
  <2>3. DistinctInv'
    BY <1>5, <1>9, DistinctShrink DEF PlaceInv, DistinctInv
  <2>4. QED
    BY <1>7, <2>1, <2>2, <2>3 DEF PlaceInv
<1>10. ASSUME Taken' = {taken}, r \in Valid
       PROVE  PlaceInv'
  <2>1. Hand' = Hand \cup {taken}
    BY <1>5, <1>10 DEF Hand
  <2>2. JobsInv'
    BY <1>3, <1>5, <1>6, <1>8, <1>10, <2>1 DEF PlaceInv, JobsInv
  <2>3. DistinctInv'
    BY <1>3, <1>5, <1>10, <2>1 DEF PlaceInv, DistinctInv, Hand
  <2>4. QED
    BY <1>7, <2>1, <2>2, <2>3 DEF PlaceInv
<1>11. QED
  BY <1>9, <1>10

LEMMA SavePlace ==
  ASSUME TypeInv, PlaceInv, Save
  PROVE  PlaceInv'
<1> USE DEF Save, pool
<1>1. CASE taken.report \in Valid
  <2>1. Taken' = {taken}
    BY <1>1 DEF Taken
  <2>2. QED
    BY <1>1, <2>1, SaveJobPlace
<1>2. CASE taken.report \notin Valid
  <2>1. Taken' = {}
    BY <1>2 DEF Taken, NoReport
  <2>2. QED
    BY <1>2, <2>1, SaveJobPlace
<1>3. QED
  BY <1>1, <1>2

LEMMA LoseSavePlace ==
  ASSUME TypeInv, PlaceInv, LoseSave
  PROVE  PlaceInv'
<1> USE DEF LoseSave, pool
<1>1. Taken' = {}
  BY DEF Taken
<1>2. QED
  BY <1>1, SaveJobPlace

\* What a part of the daemon hands to another one is nowhere else.
LEMMA HandOver ==
  ASSUME WaitingInv, JobsInv, Hand' = Hand, UNCHANGED <<queue, buffer, jobs, todo, submitted>>,
         \A j \in ToSet(done') \cup Called' : j.report \in handled'
  PROVE  WaitingInv' /\ JobsInv'
<1>1. \A r \in Report : Recorded(r)' = Recorded(r)
  BY DEF Recorded
<1>2. QED
  BY <1>1 DEF WaitingInv, JobsInv

LEMMA DispatchPlace ==
  ASSUME TypeInv, PlaceInv, NEW w \in Worker, Dispatch(w)
  PROVE  PlaceInv'
<1> USE DEF Dispatch, redis, history
<1>1. taken \in Job /\ taken # None
  BY NoneAssumption DEF TypeInv, LoopInv
<1>2. \A v \in Worker : work'[v] = IF v = w THEN taken ELSE work[v]
  BY DEF TypeInv, TypeOK, PoolTypeOK
<1>3. Busy' = Busy \cup {w} /\ w \notin Busy
  BY <1>1, <1>2 DEF Busy
<1>4. Taken = {taken} /\ Taken' = {} /\ Called' = Called /\ Working' = Working \cup {taken}
  <2>1. Working' = Working \cup {taken}
    BY <1>2, <1>3 DEF Working
  <2>2. QED
    BY <2>1 DEF Taken, Called
<1>5. Hand' = Hand
  BY <1>4 DEF Hand
<1>6. DistinctInv'
  <2>1. taken \notin Working
    BY <1>4 DEF PlaceInv, DistinctInv
  <2>2. \A u, v \in Busy' : work'[u] = work'[v] => u = v
    BY <1>2, <1>3, <2>1 DEF PlaceInv, DistinctInv, Working
  <2>3. QED
    BY <1>4, <1>5, <2>2 DEF PlaceInv, DistinctInv
<1>7. QED
  BY <1>4, <1>5, <1>6, HandOver DEF PlaceInv, JobsInv

\* A worker gives its job away.
LEMMA WorkerFreed ==
  ASSUME TypeInv, PlaceInv, NEW w \in Worker, work[w] # None, work' = [work EXCEPT ![w] = None]
  PROVE  /\ Busy' = Busy \ {w} /\ w \in Busy /\ work[w] \in Job
         /\ Working = Working' \cup {work[w]} /\ work[w] \notin Working'
         /\ \A u, v \in Busy' : work'[u] = work'[v] => u = v
<1>1. \A v \in Worker : work'[v] = IF v = w THEN None ELSE work[v]
  BY DEF TypeInv, TypeOK, PoolTypeOK
<1>2. Busy' = Busy \ {w} /\ w \in Busy /\ work[w] \in Job
  BY <1>1 DEF Busy, TypeInv, TypeOK, PoolTypeOK
<1>3. \A v \in Busy' : work'[v] = work[v]
  BY <1>1, <1>2 DEF Busy
<1>4. Working = Working' \cup {work[w]} /\ work[w] \notin Working'
  BY <1>2, <1>3 DEF Working, PlaceInv, DistinctInv
<1>5. QED
  BY <1>2, <1>3, <1>4 DEF PlaceInv, DistinctInv

LEMMA FinishPlace ==
  ASSUME TypeInv, PlaceInv, NEW w \in Worker, Finish(w)
  PROVE  PlaceInv'
<1> USE DEF Finish, redis, loop, shared
<1> DEFINE j == work[w]
<1>1. /\ j \in Job /\ Working = Working' \cup {j} /\ j \notin Working'
      /\ \A u, v \in Busy' : work'[u] = work'[v] => u = v
  BY WorkerFreed
<1>2. Taken' = Taken /\ Called' = Called /\ UNCHANGED lost
  BY DEF Taken, Called
<1>3. j \notin ToSet(done) /\ done \in Seq(Job) /\ NoRepeats(done)
  BY <1>1 DEF PlaceInv, DistinctInv, TypeInv, TypeOK, PoolTypeOK
<1>4. ToSet(done') = ToSet(done) \cup {j} /\ NoRepeats(done')
  BY <1>1, <1>3, AppendLemma
<1>5. Hand' = Hand
  BY <1>1, <1>2, <1>4 DEF Hand
<1>6. DistinctInv'
  BY <1>1, <1>2, <1>4, <1>5 DEF PlaceInv, DistinctInv
<1>7. \A k \in ToSet(done') \cup Called' : k.report \in handled'
  BY <1>2, <1>4 DEF PlaceInv, JobsInv
<1>8. QED
  BY <1>5, <1>6, <1>7, HandOver DEF PlaceInv

LEMMA KillPlace ==
  ASSUME TypeInv, PlaceInv, NEW w \in Worker, Kill(w)
  PROVE  PlaceInv' /\ work[w] \notin lost
<1> USE DEF Kill, redis, loop, shared
<1> DEFINE j == work[w]
<1>1. /\ j \in Job /\ Working = Working' \cup {j} /\ j \notin Working'
      /\ \A u, v \in Busy' : work'[u] = work'[v] => u = v
  BY WorkerFreed
<1>2. Taken' = Taken /\ Called' = Called
  BY DEF Taken, Called
<1>3. Hand' = Hand
  BY <1>1, <1>2 DEF Hand
<1>4. DistinctInv' /\ j \notin lost
  BY <1>1, <1>2, <1>3 DEF PlaceInv, DistinctInv
<1>5. \A k \in ToSet(done') \cup Called' : k.report \in handled'
  BY <1>2 DEF PlaceInv, JobsInv
<1>6. QED
  BY <1>3, <1>4, <1>5, HandOver DEF PlaceInv

LEMMA CallbackReadPlace ==
  ASSUME TypeInv, PlaceInv, CallbackRead
  PROVE  PlaceInv'
<1> USE DEF CallbackRead, redis, loop, shared, history
<1> DEFINE j == Head(done)
<1>1. done \in Seq(Job) /\ done # <<>>
  BY DEF TypeInv, TypeOK, PoolTypeOK
<1>2. /\ ToSet(done) = ToSet(done') \cup {j} /\ NoRepeats(done') /\ j \notin ToSet(done')
  BY <1>1, TailLemma DEF PlaceInv, DistinctInv
<1>3. Taken' = Taken /\ Called = {} /\ Called' = {j} /\ UNCHANGED lost /\ Busy' = Busy /\ Working' = Working
  BY DEF Taken, Called, IdleCallback, Busy, Working
<1>4. Hand' = Hand
  BY <1>2, <1>3 DEF Hand
<1>5. DistinctInv'
  BY <1>2, <1>3, <1>4 DEF PlaceInv, DistinctInv
<1>6. \A k \in ToSet(done') \cup Called' : k.report \in handled'
  BY <1>2, <1>3 DEF PlaceInv, JobsInv
<1>7. QED
  BY <1>4, <1>5, <1>6, HandOver DEF PlaceInv

LEMMA PlaceStep ==
  ASSUME TypeInv, PlaceInv, [Next]_vars
  PROVE  PlaceInv'
<1>1. CASE UNCHANGED vars
  <2>1. Taken' = Taken
    BY <1>1 DEF Taken, vars, loop
  <2>2. QED
    BY <1>1, <2>1, QuietPlace DEF vars, redis, loop, pool, history
<1>2. ASSUME NEW f \in BOOLEAN, Start(f) PROVE PlaceInv'
  <2>1. Taken' = {} /\ Hand = {}
    BY <1>2, ToSetShort DEF Start, Taken, Hand, Working, Called, TypeInv, LoopInv, IdleCallback
  <2>2. QED
    BY <1>2, <2>1, QuietPlace DEF Start, redis, pool, history
<1>3. CASE TakeSlot
  <2>1. Taken' = {}
    BY <1>3 DEF TakeSlot, Taken
  <2>2. QED
    BY <1>3, <2>1, QuietPlace DEF TakeSlot, pool, history
<1>4. CASE Peek
  <2>1. Taken' = {}
    BY <1>4 DEF Peek, NoReport, Taken
  <2>2. QED
    BY <1>4, <2>1, QuietPlace DEF Peek, redis, pool, history
<1>5. CASE Move
  <2>1. CASE MoveToBuffer(Head(readable)) /\ pc' = "save"
    BY <1>5, <2>1, MoveToBufferPlace DEF Move, history
  <2>2. CASE UNCHANGED redis /\ pc' \in {"slot", "move"}
    <3>1. Taken' = {}
      BY <2>2 DEF Taken
    <3>2. QED
      BY <1>5, <2>2, <3>1, QuietPlace DEF Move, redis, pool, history
  <2>3. QED
    BY <1>5, <2>1, <2>2 DEF Move, NoReport
<1>6. CASE Count
  <2>1. Taken' = Taken
    BY <1>6 DEF Count, Taken
  <2>2. QED
    BY <1>6, <2>1, QuietPlace DEF Count, redis, pool, history
<1>7. CASE Join
  <2>1. Taken' = {}
    BY <1>7 DEF Join, Taken
  <2>2. QED
    BY <1>7, <2>1, QuietPlace DEF Join, redis, pool, history
<1>8. CASE JoinEnd \/ StopEnd
  BY <1>8, GonePlace DEF JoinEnd, StopEnd, history
<1>9. CASE Crash
  BY <1>9, GonePlace DEF Crash
<1>10. CASE CallbackRelease
  <2>1. Taken' = Taken
    BY <1>10 DEF CallbackRelease, Taken, loop
  <2>2. callback \in [step : {"write", "remove"}, job : Job, read : Nat]
    BY <1>10, CallbackJob DEF CallbackRelease
  <2>3. callback'.job = callback.job /\ callback.step # "idle"
    BY <1>10, <2>2 DEF CallbackRelease
  <2>4. QED
    BY <1>10, <2>1, <2>3, QuietPlace DEF CallbackRelease, redis, loop, history
<1>11. ASSUME NEW j \in orphans, FinishOrphan(j) PROVE PlaceInv'
  <2>1. Taken' = Taken
    BY <1>11 DEF FinishOrphan, Taken, loop
  <2>2. QED
    BY <1>11, <2>1, QuietPlace DEF FinishOrphan, redis, loop, pool
<1>12. CASE Stop
  <2>1. Taken' = {}
    BY <1>12 DEF Stop, Taken
  <2>2. QED
    BY <1>12, <2>1, QuietPlace DEF Stop, redis, pool
<1>13. CASE Tick
  <2>1. Taken' = Taken
    BY <1>13 DEF Tick, Taken
  <2>2. QED
    BY <1>13, <2>1, QuietPlace DEF Tick, redis, pool, history
<1>14. CASE LoseMove
  BY <1>14, MoveToBufferPlace DEF LoseMove
<1>15. CASE MainLoop
  BY <1>3, <1>4, <1>5, <1>6, <1>7, <1>8, <1>15, LoadUnfinishedPlace, SavePlace, DispatchPlace DEF MainLoop
<1>16. CASE Callback
  BY <1>10, <1>16, CallbackReadPlace, CallbackRemovePlace DEF Callback
<1>17. CASE Environment
  BY <1>9, <1>12, <1>14, <1>17, SubmitPlace, RivalPlace, LoseSavePlace, KillPlace DEF Environment
<1>18. QED
  BY <1>1, <1>2, <1>11, <1>13, <1>15, <1>16, <1>17, FinishPlace DEF Next

-----------------------------------------------------------------------------
(* The semaphore *)

Slots == free + (IF HoldsSlot THEN 1 ELSE 0) + Cardinality(Busy) + Len(done)
          + (IF callback.step = "write" THEN 1 ELSE 0) + Cardinality(lost)

\* The numbers the sum is made of.
LEMMA SlotNumbers ==
  ASSUME TypeInv
  PROVE  /\ IsFiniteSet(Busy) /\ Cardinality(Busy) \in Nat
         /\ Cardinality(lost) \in Nat /\ Len(done) \in Nat /\ free \in Nat
         /\ Cardinality(Worker) \in Nat
<1>1. IsFiniteSet(Busy) /\ IsFiniteSet(Worker)
  BY DaemonAssumption, FS_Subset DEF Busy
<1>2. QED
  BY <1>1, FS_CardinalityType DEF TypeInv, TypeOK, PoolTypeOK

\* A daemon that starts has all its slots.
LEMMA SlotsFree ==
  ASSUME TypeInv, pc = "off"
  PROVE  Slots = Cardinality(Worker)
<1>1. free = Cardinality(Worker) /\ Busy = {} /\ done = <<>> /\ lost = {} /\ callback = IdleCallback
  BY DEF TypeInv, LoopInv
<1>2. Cardinality(Worker) \in Nat
  BY SlotNumbers
<1>3. ~HoldsSlot
  BY DEF HoldsSlot
<1>4. Cardinality(Busy) = 0 /\ Cardinality(lost) = 0 /\ Len(done) = 0
  BY <1>1, FS_EmptySet
<1>5. callback.step = "idle"
  BY <1>1 DEF IdleCallback
<1>6. QED
  BY <1>1, <1>2, <1>3, <1>4, <1>5 DEF Slots

\* The main loop takes a slot, gives it back, or keeps it.
LEMMA LoopSlots ==
  ASSUME TypeInv, UNCHANGED pool,
         \/ ~HoldsSlot /\ HoldsSlot' /\ free > 0 /\ free' = free - 1
         \/ HoldsSlot /\ ~HoldsSlot' /\ free' = free + 1
         \/ HoldsSlot' = HoldsSlot /\ free' = free
  PROVE  Slots' = Slots
<1> USE DEF pool
<1>1. Busy' = Busy
  BY DEF Busy
<1>2. Cardinality(Busy) \in Nat /\ Cardinality(lost) \in Nat /\ Len(done) \in Nat /\ free \in Nat
  BY SlotNumbers
<1> DEFINE rest == Cardinality(Busy) + Len(done)
                     + (IF callback.step = "write" THEN 1 ELSE 0) + Cardinality(lost)
<1>3. rest \in Nat /\ rest' = rest
  BY <1>1, <1>2
<1>4. Slots = free + (IF HoldsSlot THEN 1 ELSE 0) + rest
  BY <1>2, SMTT(30) DEF Slots
<1>5. Slots' = free' + (IF HoldsSlot' THEN 1 ELSE 0) + rest
  <2>1. free' \in Int
    BY <1>2
  <2>2. Slots' = free' + (IF HoldsSlot' THEN 1 ELSE 0) + Cardinality(Busy) + Len(done)
                  + (IF callback.step = "write" THEN 1 ELSE 0) + Cardinality(lost)
    BY <1>1 DEF Slots
  <2>3. QED
    BY <1>2, <2>1, <2>2
<1> HIDE DEF rest
<1>6. QED
  BY <1>2, <1>3, <1>4, <1>5

\* What leaves the workers and comes in elsewhere leaves the sum as it is.
LEMMA MovedSlot ==
  ASSUME TypeInv, Cardinality(Busy') = Cardinality(Busy) - 1,
         Len(done') \in Nat, Cardinality(lost') \in Nat,
         Len(done') + Cardinality(lost') = Len(done) + Cardinality(lost) + 1,
         UNCHANGED <<free, pc, callback>>
  PROVE  Slots' = Slots
<1>1. /\ Cardinality(Busy) \in Nat /\ Cardinality(lost) \in Nat /\ Len(done) \in Nat /\ free \in Nat
      /\ (IF HoldsSlot THEN 1 ELSE 0) \in Nat /\ (IF callback.step = "write" THEN 1 ELSE 0) \in Nat
  BY SlotNumbers
<1>2. PICK f \in Nat, h \in Nat, b \in Nat, d \in Nat, c \in Nat, l \in Nat, e \in Nat, k \in Nat :
        /\ f = free /\ b = Cardinality(Busy) /\ d = Len(done) /\ l = Cardinality(lost)
        /\ h = (IF HoldsSlot THEN 1 ELSE 0) /\ c = (IF callback.step = "write" THEN 1 ELSE 0)
        /\ e = Len(done') /\ k = Cardinality(lost')
  BY <1>1
<1>3. Slots = f + h + b + d + c + l
  BY <1>2 DEF Slots
<1>4. Slots' = f + h + (b - 1) + e + c + k
  BY <1>2 DEF Slots, HoldsSlot
<1>5. e + k = d + l + 1
  BY <1>2
<1>6. f + h + (b - 1) + e + c + k = f + h + b + d + c + l
  BY <1>5
<1>7. QED
  BY <1>3, <1>4, <1>6

LEMMA SlotsStep ==
  ASSUME TypeInv, PlaceInv, SlotsConserved, [Next]_vars
  PROVE  SlotsConserved'
<1>1. SUFFICES ASSUME Up' PROVE Slots' = Cardinality(Worker)
  BY DEF SlotsConserved, Slots
<1>2. Up => Slots = Cardinality(Worker)
  BY DEF SlotsConserved, Slots
<1>3. pc = "off" => Slots = Cardinality(Worker)
  BY SlotsFree
<1>4. TypeInv'
  BY TypeStep
<1>5. /\ Cardinality(Busy) \in Nat /\ Cardinality(lost) \in Nat /\ Len(done) \in Nat /\ free \in Nat
      /\ Cardinality(Worker) \in Nat /\ IsFiniteSet(Busy)
  BY SlotNumbers
<1>6. ASSUME Slots' = Slots, Up \/ pc = "off" PROVE Slots' = Cardinality(Worker)
  BY <1>2, <1>3, <1>6
<1>7. CASE UNCHANGED vars
  BY <1>1, <1>6, <1>7, LoopSlots DEF vars, loop, shared, HoldsSlot, Up
<1>8. ASSUME NEW f \in BOOLEAN, Start(f) PROVE Slots' = Cardinality(Worker)
  <2>1. HoldsSlot' = HoldsSlot
    BY <1>8 DEF Start, HoldsSlot
  <2>2. QED
    BY <1>6, <1>8, <2>1, LoopSlots DEF Start, shared
<1>9. ASSUME NEW id \in JobId, LoadUnfinished(id) PROVE Slots' = Cardinality(Worker)
  <2>1. \/ ~HoldsSlot /\ HoldsSlot' /\ free > 0 /\ free' = free - 1
        \/ HoldsSlot' = HoldsSlot /\ free' = free
    BY <1>9 DEF LoadUnfinished, HoldsSlot
  <2>2. QED
    BY <1>6, <1>9, <2>1, LoopSlots DEF LoadUnfinished, Up
<1>10. CASE TakeSlot
  <2>1. ~HoldsSlot /\ HoldsSlot' /\ free > 0 /\ free' = free - 1
    BY <1>10 DEF TakeSlot, HoldsSlot
  <2>2. QED
    BY <1>6, <1>10, <2>1, LoopSlots DEF TakeSlot, Up
<1>11. CASE Peek
  <2>1. \/ HoldsSlot /\ ~HoldsSlot' /\ free' = free + 1
        \/ HoldsSlot' = HoldsSlot /\ free' = free
    BY <1>11 DEF Peek, NoReport, HoldsSlot
  <2>2. QED
    BY <1>6, <1>11, <2>1, LoopSlots DEF Peek, Up
<1>12. CASE Move
  <2>1. \/ HoldsSlot /\ ~HoldsSlot' /\ free' = free + 1
        \/ HoldsSlot' = HoldsSlot /\ free' = free
    BY <1>12 DEF Move, NoReport, HoldsSlot
  <2>2. QED
    BY <1>6, <1>12, <2>1, LoopSlots DEF Move, Up
<1>13. CASE Save
  <2>1. \/ HoldsSlot /\ ~HoldsSlot' /\ free' = free + 1
        \/ HoldsSlot' = HoldsSlot /\ free' = free
    BY <1>13 DEF Save, NoReport, HoldsSlot
  <2>2. QED
    BY <1>6, <1>13, <2>1, LoopSlots DEF Save, Up
<1>14. CASE Count
  <2>1. HoldsSlot' = HoldsSlot /\ free' = free
    BY <1>14 DEF Count, shared, HoldsSlot
  <2>2. QED
    BY <1>6, <1>14, <2>1, LoopSlots DEF Count, Up
<1>15. CASE Join
  <2>1. HoldsSlot' = HoldsSlot /\ free' = free
    BY <1>15 DEF Join, shared, HoldsSlot
  <2>2. QED
    BY <1>6, <1>15, <2>1, LoopSlots DEF Join, Up
<1>16. CASE LoseMove \/ LoseSave
  <2>1. HoldsSlot' = HoldsSlot /\ free' = free
    BY <1>16 DEF LoseMove, LoseSave, shared, HoldsSlot
  <2>2. QED
    BY <1>6, <1>16, <2>1, LoopSlots DEF LoseMove, LoseSave, Up
<1>17. CASE Tick
  <2>1. HoldsSlot' = HoldsSlot /\ free' = free
    BY <1>17 DEF Tick, shared, HoldsSlot
  <2>2. QED
    BY <1>6, <1>17, <2>1, LoopSlots DEF Tick, Up
<1>18. CASE JoinEnd \/ StopEnd \/ Crash
  <2>1. Gone
    BY <1>18 DEF JoinEnd, StopEnd, Crash
  <2>2. QED
    BY <1>1, <2>1 DEF Gone, Up
<1>19. CASE Stop
  BY <1>1, <1>19 DEF Stop, Up
<1>20. ASSUME NEW r \in Report, Submit(r) PROVE Slots' = Cardinality(Worker)
  BY <1>1, <1>6, <1>20, LoopSlots DEF Submit, loop, shared, HoldsSlot, Up
<1>21. ASSUME NEW q \in Queue, Rival(q) PROVE Slots' = Cardinality(Worker)
  BY <1>1, <1>6, <1>21, LoopSlots DEF Rival, loop, shared, HoldsSlot, Up
<1>22. ASSUME NEW j \in orphans, FinishOrphan(j) PROVE Slots' = Cardinality(Worker)
  BY <1>1, <1>6, <1>22, LoopSlots DEF FinishOrphan, loop, shared, HoldsSlot, Up
<1>23. CASE CallbackRemove
  <2>1. HoldsSlot' = HoldsSlot /\ Busy' = Busy /\ callback.step # "write" /\ callback'.step # "write"
    BY <1>23 DEF CallbackRemove, loop, HoldsSlot, Busy, IdleCallback
  <2>2. Slots' = Slots
    BY <1>23, <2>1 DEF CallbackRemove, shared, Slots
  <2>3. QED
    BY <1>1, <1>6, <1>23, <2>2 DEF CallbackRemove, loop, Up
<1>24. ASSUME NEW w \in Worker, Dispatch(w) PROVE Slots' = Cardinality(Worker)
  <2>1. taken # None
    BY <1>24, NoneAssumption DEF Dispatch, TypeInv, LoopInv
  <2>2. Busy' = Busy \cup {w} /\ w \notin Busy
    BY <1>24, <2>1 DEF Dispatch, Busy, TypeInv, TypeOK, PoolTypeOK
  <2>3. Cardinality(Busy') = Cardinality(Busy) + 1
    BY <1>5, <2>2, FS_AddElement
  <2>4. HoldsSlot /\ ~HoldsSlot' /\ UNCHANGED <<free, done, callback, lost>>
    BY <1>24 DEF Dispatch, HoldsSlot
  <2>5. Slots' = Slots
    BY <1>5, <2>3, <2>4 DEF Slots
  <2>6. QED
    BY <1>6, <1>24, <2>5 DEF Dispatch, Up
<1>25. ASSUME NEW w \in Worker, Finish(w) PROVE Slots' = Cardinality(Worker)
  <2>1. work[w] # None /\ work' = [work EXCEPT ![w] = None] /\ done' = Append(done, work[w])
    BY <1>25 DEF Finish
  <2>2. Busy' = Busy \ {w} /\ w \in Busy /\ work[w] \in Job
    BY <2>1, WorkerFreed
  <2>3. Cardinality(Busy') = Cardinality(Busy) - 1
    BY <1>5, <2>2, FS_RemoveElement
  <2>4. Len(done') = Len(done) + 1
    BY <2>1, <2>2, AppendLemma DEF TypeInv, TypeOK, PoolTypeOK
  <2>5. HoldsSlot' = HoldsSlot /\ UNCHANGED <<free, callback, lost, pc>>
    BY <1>25 DEF Finish, loop, shared, HoldsSlot
  <2>6. Slots' = Slots
    BY <1>5, <2>3, <2>4, <2>5, MovedSlot
  <2>7. QED
    BY <1>1, <1>6, <2>5, <2>6 DEF Up
<1>26. ASSUME NEW w \in Worker, Kill(w) PROVE Slots' = Cardinality(Worker)
  <2>1. work[w] # None /\ work' = [work EXCEPT ![w] = None] /\ lost' = lost \cup {work[w]}
    BY <1>26 DEF Kill
  <2>2. Busy' = Busy \ {w} /\ w \in Busy
    BY <2>1, WorkerFreed
  <2>3. Cardinality(Busy') = Cardinality(Busy) - 1
    BY <1>5, <2>2, FS_RemoveElement
  <2>4. Cardinality(lost') = Cardinality(lost) + 1
    BY <1>26, <2>1, KillPlace, FS_AddElement DEF TypeInv, TypeOK, PoolTypeOK
  <2>5. HoldsSlot' = HoldsSlot /\ UNCHANGED <<free, callback, done, pc>>
    BY <1>26 DEF Kill, loop, shared, HoldsSlot
  <2>6. Slots' = Slots
    BY <1>5, <2>3, <2>4, <2>5, MovedSlot
  <2>7. QED
    BY <1>1, <1>6, <2>5, <2>6 DEF Up
<1>27. CASE CallbackRead
  <2>1. done \in Seq(Job) /\ done # <<>> /\ done' = Tail(done)
    BY <1>27 DEF CallbackRead, TypeInv, TypeOK, PoolTypeOK
  <2>2. Len(done') = Len(done) - 1
    BY <2>1, TailLemma
  <2>3. callback.step # "write" /\ callback'.step = "write"
    BY <1>27 DEF CallbackRead, IdleCallback
  <2>4. HoldsSlot' = HoldsSlot /\ Busy' = Busy /\ UNCHANGED <<free, lost, pc>>
    BY <1>27 DEF CallbackRead, loop, shared, HoldsSlot, Busy
  <2>5. Slots' = Slots
    BY <1>5, <2>2, <2>3, <2>4 DEF Slots
  <2>6. QED
    BY <1>1, <1>6, <2>4, <2>5 DEF Up
<1>28. CASE CallbackRelease
  <2>1. callback \in [step : {"write", "remove"}, job : Job, read : Nat] /\ callback.step = "write"
    BY <1>28, CallbackJob DEF CallbackRelease
  <2>2. callback'.step # "write"
    BY <1>28, <2>1 DEF CallbackRelease
  <2>3. HoldsSlot' = HoldsSlot /\ Busy' = Busy /\ UNCHANGED <<done, lost, pc>> /\ free' = free + 1
    BY <1>28 DEF CallbackRelease, loop, HoldsSlot, Busy
  <2>4. Slots' = Slots
    BY <1>5, <2>1, <2>2, <2>3, SMTT(30) DEF Slots
  <2>5. QED
    BY <1>1, <1>6, <2>3, <2>4 DEF Up
<1>29. CASE MainLoop
  BY <1>9, <1>10, <1>11, <1>12, <1>13, <1>14, <1>15, <1>18, <1>24, <1>29 DEF MainLoop
<1>30. CASE Callback
  BY <1>23, <1>27, <1>28, <1>30 DEF Callback
<1>31. CASE Environment
  BY <1>16, <1>18, <1>19, <1>20, <1>21, <1>26, <1>31 DEF Environment
<1>32. QED
  BY <1>7, <1>8, <1>17, <1>22, <1>25, <1>29, <1>30, <1>31 DEF Next

-----------------------------------------------------------------------------
(* Nothing is lost *)

KeepInv == RecordedInv /\ NothingLost

LEMMA InitKeep ==
  Init => KeepInv
BY DEF Init, KeepInv, RecordedInv, NothingLost, Recorded

\* A step that records nothing: what waits goes on waiting or is handled, what is at hand
\* stays so unless the daemon is interrupted, what is to be loaded is loaded.
LEMMA KeepStep ==
  ASSUME KeepInv, UNCHANGED submitted, submitted \subseteq Report, handled \subseteq handled',
         Broken => Broken',
         \A r \in Report :
           /\ Pending(r) => Pending(r)' \/ r \in handled'
           /\ Recorded(r)' => Recorded(r)
           /\ InHands(r) => InHands(r)' \/ Broken'
           /\ Recorded(r) /\ JobOf[r] \in todo => JobOf[r] \in todo' \/ InHands(r)' \/ Broken'
  PROVE  KeepInv'
<1>1. RecordedInv'
  BY DEF KeepInv, RecordedInv
<1>2. \A r \in Report : SameProduct(r)' = SameProduct(r)
  BY DEF SameProduct
<1>3. NothingLost'
  BY <1>2 DEF KeepInv, NothingLost, Broken
<1>4. QED
  BY <1>1, <1>3 DEF KeepInv

\* What is recorded depends on the hash, what waits on Redis alone.
LEMMA SameRedis ==
  ASSUME UNCHANGED <<queue, buffer, jobs>>
  PROVE  \A r \in Report : Recorded(r)' = Recorded(r) /\ Pending(r)' = Pending(r)
<1>1. \A r \in Report : Recorded(r)' = Recorded(r)
  BY DEF Recorded
<1>2. QED
  BY <1>1 DEF Pending

\* Of these, the steps that leave Redis alone.
LEMMA KeepAway ==
  ASSUME TypeInv, KeepInv, UNCHANGED <<queue, buffer, jobs, submitted>>, handled \subseteq handled',
         Broken => Broken',
         Broken' \/ (todo \subseteq todo' /\ \A r \in Report : InHands(r) => InHands(r)')
  PROVE  KeepInv'
BY SameRedis, KeepStep DEF TypeInv, TypeOK, HistoryTypeOK

\* Of these, those that take no job away either.
LEMMA KeepQuiet ==
  ASSUME TypeInv, KeepInv, UNCHANGED <<queue, buffer, jobs, submitted>>, handled \subseteq handled',
         Broken => Broken', todo \subseteq todo',
         UNCHANGED <<work, done, callback>>, taken = None \/ taken' = taken
  PROVE  KeepInv'
<1>1. \A r \in Report : InHands(r) => InHands(r)'
  BY DEF InHands, Busy
<1>2. QED
  BY <1>1, KeepAway

LEMMA MoveToBufferKeep ==
  ASSUME TypeInv, PlaceInv, KeepInv, pc = "move", MoveToBuffer(Head(readable)),
         UNCHANGED <<todo, pool, submitted, handled>>, Broken => Broken'
  PROVE  KeepInv'
<1> USE DEF pool
<1> DEFINE q == Head(readable)
<1> DEFINE r == Head(queue[q])
<1>1. /\ q \in Queue /\ queue[q] \in Seq(Report) /\ queue[q] # <<>> /\ r \in Report
      /\ buffer = <<>> /\ buffer' = <<r>> /\ queue' = [queue EXCEPT ![q] = Tail(@)]
      /\ UNCHANGED <<jobs>>
  BY MoveToBufferType DEF MoveToBuffer
<1>2. ToSet(queue[q]) = ToSet(Tail(queue[q])) \cup {r}
  BY <1>1, TailLemma
<1>3. \A p \in Queue : queue'[p] = IF p = q THEN Tail(queue[q]) ELSE queue[p]
  BY <1>1 DEF TypeInv, TypeOK, RedisTypeOK
<1>4. ToSet(buffer') = {r} /\ ToSet(buffer) = {}
  BY <1>1, ToSetShort
<1>5. \A s \in Report : Recorded(s)' = Recorded(s)
  BY <1>1 DEF Recorded
<1>6. \A s \in Report : Pending(s) => Pending(s)'
  <2>1. \A s \in Report : s \in ToSet(queue[QueueOf[s]]) => s \in ToSet(queue'[QueueOf[s]]) \cup {r}
    BY <1>2, <1>3, DaemonAssumption
  <2>2. QED
    BY <1>4, <1>5, <2>1 DEF Pending
<1>7. \A s \in Report : InHands(s) => InHands(s)'
  <2>1. taken = None
    BY DEF TypeInv, LoopInv
  <2>2. QED
    BY <2>1 DEF InHands, Busy
<1>8. QED
  BY <1>5, <1>6, <1>7, KeepStep DEF TypeInv, TypeOK, HistoryTypeOK

\* A record that is replaced is the one of another report of the same product, which is
\* still at hand.
LEMMA SaveJobKeep ==
  ASSUME TypeInv, PlaceInv, KeepInv, pc = "save", SaveJob,
         UNCHANGED <<todo, pool, submitted>>, handled \subseteq handled', Broken => Broken',
         Broken' \/ (taken.report \in Valid /\ taken' = taken) \/ taken.report \in handled',
         taken.report \notin Valid => taken.report \in handled'
  PROVE  KeepInv'
<1> USE DEF pool
<1>a. taken.report \in Report
  BY SaveJobType
<1>b. PICK r \in Report : r = taken.report
  BY <1>a
<1>1. /\ taken \in Job /\ r \in Report /\ buffer = <<r>> /\ buffer' = <<>>
      /\ UNCHANGED <<queue, listed>>
      /\ jobs' = IF r \in Valid THEN [jobs EXCEPT ![JobOf[r]] = taken] ELSE jobs
      /\ r \in Valid => JobOf[r] \in JobId
      /\ taken # None
  BY <1>b, SaveJobType, NoneAssumption
<1>2. ToSet(buffer) = {r} /\ ToSet(buffer') = {}
  BY <1>1, ToSetShort
<1>3. r \in submitted /\ todo = {}
  BY <1>2 DEF PlaceInv, WaitingInv, TypeInv, LoopInv
<1>4. \A s \in Report : Recorded(s)' => Recorded(s) \/ s = r
  BY <1>1, <1>b DEF Recorded, TypeInv, TypeOK, RedisTypeOK
<1>5. \A s \in Report : Recorded(s) => Recorded(s)' \/ (r \in Valid /\ JobOf[s] = JobOf[r])
  BY <1>1, <1>b DEF Recorded, TypeInv, TypeOK, RedisTypeOK, PlaceInv, JobsInv
<1>6. ASSUME r \in Valid PROVE Recorded(r)'
  <2>1. JobOf[r] \in JobId /\ jobs'[JobOf[r]] = taken
    BY <1>1, <1>6 DEF TypeInv, TypeOK, RedisTypeOK
  <2>2. QED
    BY <1>1, <1>b, <2>1 DEF Recorded
<1>7. \A s \in Report : s # r /\ InHands(s) => InHands(s)'
  BY <1>b DEF InHands, Busy
<1>8. taken' = taken => InHands(r)'
  BY <1>1, <1>b DEF InHands
<1>9. RecordedInv'
  BY <1>3, <1>4, <1>7, <1>8, <1>b DEF KeepInv, RecordedInv
<1>10. ASSUME NEW s \in submitted' \ handled'
       PROVE  \/ Pending(s)'
              \/ SameProduct(s)' # {} /\ (InHands(s)' \/ Broken')
  <2>1. s \in Report /\ s \notin handled /\ s \in submitted
    BY DEF TypeInv, TypeOK, HistoryTypeOK
  <2>2. CASE s = r
    <3>1. r \in Valid
      BY <2>2, <1>b
    <3>2. Recorded(s)'
      BY <1>6, <2>2, <3>1
    <3>3. QED
      BY <3>2 DEF Pending
  <2>3. CASE s # r /\ Pending(s) /\ ~Pending(s)'
    <3>1. Recorded(s) /\ r \in Valid /\ JobOf[s] = JobOf[r]
      BY <1>1, <1>2, <1>5, <2>1, <2>3 DEF Pending
    <3>2. r \in SameProduct(s)'
      BY <1>1, <1>3, <2>3, <3>1 DEF SameProduct
    <3>3. InHands(s) \/ Broken
      BY <1>3, <2>1, <3>1 DEF KeepInv, RecordedInv
    <3>4. QED
      BY <1>7, <2>1, <2>3, <3>2, <3>3
  <2>4. CASE s # r /\ ~Pending(s)
    <3>1. SameProduct(s) # {} /\ (InHands(s) \/ Broken)
      BY <2>1, <2>4 DEF KeepInv, NothingLost, Broken
    <3>2. SameProduct(s)' = SameProduct(s)
      BY DEF SameProduct
    <3>3. QED
      BY <1>7, <2>1, <2>4, <3>1, <3>2
  <2>5. QED
    BY <2>2, <2>3, <2>4
<1>11. NothingLost'
  BY <1>10 DEF NothingLost, Broken
<1>12. QED
  BY <1>9, <1>11 DEF KeepInv

\* The callback removes a record whatever it says: if it is the one of another report of the
\* product, that one is still at hand.
LEMMA CallbackRemoveKeep ==
  ASSUME TypeInv, PlaceInv, KeepInv, CallbackRemove
  PROVE  KeepInv'
<1> USE DEF CallbackRemove, loop, shared, history
<1> DEFINE c == callback.job
<1>1. callback.step # "idle" /\ c \in Job /\ c \in Called /\ c \in Hand
  BY CallbackJob DEF Called, Hand
<1>2. c.report \in Valid \cap submitted /\ c.report \in handled /\ JobOf[c.report] \notin todo
  BY <1>1 DEF PlaceInv, JobsInv
<1>3. c.report \in Report /\ callback'.job = None
  BY <1>2 DEF Valid, IdleCallback
<1>4. Broken' = Broken
  BY DEF Broken
<1>5. \A s \in Report : s # c.report /\ InHands(s) => InHands(s)'
  BY DEF InHands, Busy
<1>6. \A s \in Report : Recorded(s)' => Recorded(s)
  BY DEF Recorded, TypeInv, TypeOK, RedisTypeOK
<1>7. \A s \in Report : Recorded(s) => Recorded(s)' \/ JobOf[s] = JobOf[c.report]
  BY DEF Recorded, TypeInv, TypeOK, RedisTypeOK, PlaceInv, JobsInv
<1>8. RecordedInv'
  BY <1>2, <1>4, <1>5, <1>6 DEF KeepInv, RecordedInv
<1>9. ASSUME NEW s \in submitted' \ handled'
      PROVE  \/ Pending(s)'
             \/ SameProduct(s)' # {} /\ (InHands(s)' \/ Broken')
  <2>1. s \in Report /\ s \notin handled /\ s \in submitted /\ s # c.report
    BY <1>2 DEF TypeInv, TypeOK, HistoryTypeOK
  <2>2. CASE Pending(s) /\ ~Pending(s)'
    <3>1. Recorded(s) /\ JobOf[s] = JobOf[c.report]
      BY <1>7, <2>1, <2>2 DEF Pending
    <3>2. c.report \in SameProduct(s)'
      BY <1>2, <1>3, <2>1, <3>1 DEF SameProduct
    <3>3. InHands(s) \/ Broken
      BY <1>2, <2>1, <3>1 DEF KeepInv, RecordedInv
    <3>4. QED
      BY <1>4, <1>5, <2>1, <3>2, <3>3
  <2>3. CASE ~Pending(s)
    <3>1. SameProduct(s) # {} /\ (InHands(s) \/ Broken)
      BY <2>1, <2>3 DEF KeepInv, NothingLost, Broken
    <3>2. SameProduct(s)' = SameProduct(s)
      BY DEF SameProduct
    <3>3. QED
      BY <1>4, <1>5, <2>1, <3>1, <3>2
  <2>4. QED
    BY <2>2, <2>3
<1>10. NothingLost'
  BY <1>9 DEF NothingLost, Broken
<1>11. QED
  BY <1>8, <1>10 DEF KeepInv

LEMMA SubmitKeep ==
  ASSUME TypeInv, PlaceInv, KeepInv, NEW r \in Report, Submit(r)
  PROVE  KeepInv'
<1> USE DEF Submit, loop, shared, pool
<1>1. Broken' = Broken
  BY DEF Broken
<1>2. \A s \in Report : Recorded(s)' = Recorded(s) /\ InHands(s)' = InHands(s)
  BY DEF Recorded, InHands, Busy
<1>3. ~Recorded(r)
  BY DEF PlaceInv, JobsInv, Recorded, Pending
<1>4. QueueOf[r] \in Queue /\ queue[QueueOf[r]] \in Seq(Report)
  BY DaemonAssumption DEF TypeInv, TypeOK, RedisTypeOK
<1>5. /\ \A q \in Queue : q # QueueOf[r] => queue'[q] = queue[q]
      /\ ToSet(queue'[QueueOf[r]]) = ToSet(queue[QueueOf[r]]) \cup {r}
  BY <1>4, AppendLemma DEF TypeInv, TypeOK, RedisTypeOK
<1>6. \A s \in Report : ToSet(queue[QueueOf[s]]) \subseteq ToSet(queue'[QueueOf[s]])
  BY <1>5, DaemonAssumption
<1>7. Pending(r)' /\ \A s \in Report : Pending(s) => Pending(s)'
  BY <1>2, <1>5, <1>6 DEF Pending
<1>8. RecordedInv'
  BY <1>1, <1>2, <1>3 DEF KeepInv, RecordedInv
<1>9. ASSUME NEW s \in submitted' \ handled', s # r
      PROVE  Pending(s)' \/ (SameProduct(s)' # {} /\ (InHands(s)' \/ Broken'))
  <2>1. s \in Report /\ s \in submitted \ handled
    BY <1>9 DEF TypeInv, TypeOK, HistoryTypeOK
  <2>2. SameProduct(s) \subseteq SameProduct(s)'
    BY DEF SameProduct
  <2>3. QED
    BY <1>1, <1>2, <1>7, <2>1, <2>2 DEF KeepInv, NothingLost, Broken
<1>10. NothingLost'
  BY <1>7, <1>9 DEF NothingLost, Broken
<1>11. QED
  BY <1>8, <1>10 DEF KeepInv

LEMMA RivalKeep ==
  ASSUME TypeInv, KeepInv, NEW q \in Queue, Rival(q)
  PROVE  KeepInv'
<1> USE DEF Rival, loop, shared, pool
<1>1. ToSet(faults') = ToSet(faults) \cup {"rival"}
  BY FaultType
<1>2. \A s \in Report : Recorded(s)' = Recorded(s) /\ InHands(s)' = InHands(s)
  BY DEF Recorded, InHands, Busy
<1>3. queue[q] \in Seq(Report) /\ queue[q] # <<>>
  BY DEF TypeInv, TypeOK, RedisTypeOK
<1>4. ToSet(queue[q]) = ToSet(Tail(queue[q])) \cup {Head(queue[q])}
  BY <1>3, TailLemma
<1>5. \A p \in Queue : queue'[p] = IF p = q THEN Tail(queue[q]) ELSE queue[p]
  BY DEF TypeInv, TypeOK, RedisTypeOK
<1>6. \A s \in Report : s \in ToSet(queue[QueueOf[s]]) => s \in ToSet(queue'[QueueOf[s]]) \/ s \in handled'
  BY <1>4, <1>5, DaemonAssumption
<1>7. \A s \in Report : Pending(s) => Pending(s)' \/ s \in handled'
  BY <1>2, <1>6 DEF Pending
<1>8. QED
  BY <1>1, <1>2, <1>7, KeepStep DEF Broken, TypeInv, TypeOK, HistoryTypeOK

LEMMA LoadUnfinishedKeep ==
  ASSUME TypeInv, PlaceInv, KeepInv, NEW id \in JobId, LoadUnfinished(id)
  PROVE  KeepInv'
<1> USE DEF LoadUnfinished, redis, pool, history
<1>1. \A r \in Report : Recorded(r)' = Recorded(r) /\ Pending(r)' = Pending(r)
  BY SameRedis
<1>2. \A r \in Report : InHands(r) => InHands(r)'
  BY DEF InHands, Busy, TypeInv, LoopInv
<1>3. ASSUME NEW r \in Report, Recorded(r), JobOf[r] = id
      PROVE  InHands(r)'
  <2>1. jobs[id] # None /\ jobs[id].report = r
    BY <1>3 DEF Recorded, PlaceInv, JobsInv
  <2>2. taken' = jobs[id]
    BY <2>1
  <2>3. QED
    BY <2>1, <2>2 DEF InHands
<1>4. QED
  BY <1>1, <1>2, <1>3, KeepStep DEF Broken, TypeInv, TypeOK, HistoryTypeOK

\* What is handed over stays at hand.
LEMMA DispatchKeep ==
  ASSUME TypeInv, KeepInv, NEW w \in Worker, Dispatch(w)
  PROVE  KeepInv'
<1> USE DEF Dispatch, redis, history
<1>1. taken # None
  BY NoneAssumption DEF TypeInv, LoopInv
<1>2. \A v \in Worker : work'[v] = IF v = w THEN taken ELSE work[v]
  BY DEF TypeInv, TypeOK, PoolTypeOK
<1>3. Busy' = Busy \cup {w}
  BY <1>1, <1>2 DEF Busy
<1>4. { work'[v] : v \in Busy' } = { work[v] : v \in Busy } \cup {taken}
  BY <1>1, <1>2, <1>3 DEF Busy
<1>5. \A r \in Report : InHands(r) => InHands(r)'
  BY <1>4 DEF InHands
<1>6. QED
  BY <1>5, KeepAway DEF Broken

LEMMA FinishKeep ==
  ASSUME TypeInv, PlaceInv, KeepInv, NEW w \in Worker, Finish(w)
  PROVE  KeepInv'
<1> USE DEF Finish, redis, loop, shared
<1>1. work[w] \in Job /\ Working = Working' \cup {work[w]}
  BY WorkerFreed
<1>2. ToSet(done') = ToSet(done) \cup {work[w]}
  BY <1>1, AppendLemma DEF TypeInv, TypeOK, PoolTypeOK
<1>3. \A r \in Report : InHands(r) => InHands(r)'
  BY <1>1, <1>2 DEF InHands, Working
<1>4. QED
  BY <1>3, KeepAway DEF Broken

LEMMA CallbackReadKeep ==
  ASSUME TypeInv, KeepInv, CallbackRead
  PROVE  KeepInv'
<1> USE DEF CallbackRead, redis, loop, shared, history
<1>1. done \in Seq(Job) /\ done # <<>>
  BY DEF TypeInv, TypeOK, PoolTypeOK
<1>2. ToSet(done) = ToSet(done') \cup {Head(done)}
  BY <1>1, TailLemma
<1>3. callback.job = None /\ callback'.job = Head(done) /\ UNCHANGED <<taken, work>>
  BY DEF IdleCallback
<1>4. \A r \in Report : InHands(r) => InHands(r)'
  BY <1>2, <1>3 DEF InHands, Busy
<1>5. QED
  BY <1>4, KeepAway DEF Broken

LEMMA KeepInvStep ==
  ASSUME TypeInv, PlaceInv, KeepInv, [Next]_vars
  PROVE  KeepInv'
<1>1. CASE UNCHANGED vars
  BY <1>1, KeepQuiet DEF vars, redis, loop, pool, history, Broken
<1>2. ASSUME NEW f \in BOOLEAN, Start(f) PROVE KeepInv'
  BY <1>2, KeepQuiet DEF Start, redis, pool, history, Broken, TypeInv, LoopInv
<1>3. CASE TakeSlot
  BY <1>3, KeepQuiet DEF TakeSlot, pool, history, Broken
<1>4. CASE Peek
  BY <1>4, KeepQuiet DEF Peek, redis, pool, history, Broken, TypeInv, LoopInv
<1>5. CASE Move
  <2>1. CASE MoveToBuffer(Head(readable))
    BY <1>5, <2>1, MoveToBufferKeep DEF Move, history, Broken
  <2>2. CASE UNCHANGED redis
    BY <1>5, <2>2, KeepQuiet DEF Move, redis, pool, history, Broken, TypeInv, LoopInv
  <2>3. QED
    BY <1>5, <2>1, <2>2 DEF Move
<1>6. CASE Save
  <2>1. Broken' = Broken
    BY <1>6 DEF Save, Broken
  <2>2. CASE taken.report \in Valid
    BY <1>6, <2>1, <2>2, SaveJobKeep DEF Save
  <2>3. CASE taken.report \notin Valid
    BY <1>6, <2>1, <2>3, SaveJobKeep DEF Save
  <2>4. QED
    BY <2>2, <2>3
<1>7. CASE Count
  BY <1>7, KeepQuiet DEF Count, redis, pool, history, Broken
<1>8. CASE Join
  BY <1>8, KeepQuiet DEF Join, redis, pool, history, Broken
<1>9. CASE JoinEnd
  <2>1. taken = None /\ callback.job = None /\ ToSet(done) = {} /\ todo = {}
    BY <1>9, ToSetShort DEF JoinEnd, IdleCallback, TypeInv, LoopInv
  <2>2. \A r \in Report : ~InHands(r)
    BY <1>9, <2>1 DEF JoinEnd, InHands
  <2>3. QED
    BY <1>9, <2>1, <2>2, KeepAway DEF JoinEnd, redis, history, Broken
<1>10. CASE StopEnd
  <2>1. Broken /\ Broken'
    BY <1>10 DEF StopEnd, history, Broken, TypeInv, LoopInv
  <2>2. QED
    BY <1>10, <2>1, KeepAway DEF StopEnd, redis, history
<1>11. CASE Crash
  <2>1. Broken'
    BY <1>11, FaultType DEF Crash, Broken
  <2>2. QED
    BY <1>11, <2>1, KeepAway DEF Crash, redis
<1>12. CASE Stop
  <2>1. Broken'
    BY <1>12, FaultType DEF Stop, Broken
  <2>2. QED
    BY <1>12, <2>1, KeepQuiet DEF Stop, redis, pool
<1>13. CASE Tick
  BY <1>13, KeepQuiet DEF Tick, redis, pool, history, Broken
<1>14. CASE LoseMove
  <2>1. Broken => Broken'
    BY <1>14, FaultType DEF LoseMove, Broken
  <2>2. QED
    BY <1>14, <2>1, MoveToBufferKeep DEF LoseMove
<1>15. CASE LoseSave
  <2>1. Broken'
    BY <1>15, FaultType DEF LoseSave, Broken
  <2>2. QED
    BY <1>15, <2>1, SaveJobKeep DEF LoseSave
<1>16. ASSUME NEW w \in Worker, Kill(w) PROVE KeepInv'
  <2>1. Broken'
    BY <1>16, FaultType DEF Kill, Broken
  <2>2. QED
    BY <1>16, <2>1, KeepAway DEF Kill, redis, loop
<1>17. CASE CallbackRelease
  <2>1. callback \in [step : {"write", "remove"}, job : Job, read : Nat]
    BY <1>17, CallbackJob DEF CallbackRelease
  <2>2. callback'.job = callback.job
    BY <1>17, <2>1 DEF CallbackRelease
  <2>3. \A r \in Report : InHands(r) => InHands(r)'
    BY <1>17, <2>2 DEF CallbackRelease, loop, InHands, Busy
  <2>4. QED
    BY <1>17, <2>3, KeepAway DEF CallbackRelease, redis, loop, history, Broken
<1>18. ASSUME NEW j \in orphans, FinishOrphan(j) PROVE KeepInv'
  BY <1>18, KeepQuiet DEF FinishOrphan, redis, loop, pool, Broken
<1>19. CASE MainLoop
  BY <1>3, <1>4, <1>5, <1>6, <1>7, <1>8, <1>9, <1>10, <1>19, LoadUnfinishedKeep, DispatchKeep DEF MainLoop
<1>20. CASE Callback
  BY <1>17, <1>20, CallbackReadKeep, CallbackRemoveKeep DEF Callback
<1>21. CASE Environment
  BY <1>11, <1>12, <1>14, <1>15, <1>16, <1>21, SubmitKeep, RivalKeep DEF Environment
<1>22. QED
  BY <1>1, <1>2, <1>13, <1>18, <1>19, <1>20, <1>21, FinishKeep DEF Next

-----------------------------------------------------------------------------
(* Each step keeps the maximum of jobs per queue *)

\* An interruption is remembered.
LEMMA NotSmooth ==
  ASSUME TypeInv, LoseMove \/ LoseSave \/ Crash \/ Stop \/ StopEnd
  PROVE  ~Smooth'
<1>1. CASE StopEnd
  BY <1>1 DEF StopEnd, Smooth, history, TypeInv, LoopInv
<1>2. CASE ~StopEnd
  <2>1. \E kind \in {"lost_move", "lost_save", "crash", "stop"} : Fault(kind)
    BY <1>2 DEF LoseMove, LoseSave, Crash, Stop
  <2>2. QED
    BY <2>1, FaultType DEF Smooth
<1>3. QED
  BY <1>1, <1>2

LEMMA SmoothBefore ==
  ASSUME TypeInv, [Next]_vars, Smooth'
  PROVE  Smooth
<1>1. CASE UNCHANGED faults
  BY <1>1 DEF Smooth
<1>2. ASSUME NEW kind, Fault(kind) PROVE Smooth
  BY <1>2, FaultType DEF Smooth
<1>3. UNCHANGED faults \/ \E kind \in {"rival", "lost_move", "lost_save", "crash", "stop", "kill"} : Fault(kind)
  BY DEF Next, MainLoop, Callback, Environment, vars, history, Start, LoadUnfinished, TakeSlot,
         Peek, Move, Save, Count, Dispatch, Join, JoinEnd, StopEnd, CallbackRead, CallbackRelease,
         CallbackRemove, Finish, FinishOrphan, Tick, Submit, Rival, LoseMove, LoseSave, Crash,
         Stop, Kill
<1>4. QED
  BY <1>1, <1>2, <1>3

\* Every part of the daemon has jobs.
LEMMA HandJobs ==
  ASSUME TypeInv
  PROVE  \A j \in Hand : j \in Job
<1>1. \A j \in Taken : j \in Job
  BY DEF Taken, TypeInv, LoopInv
<1>2. \A j \in Called : j \in Job
  BY CallbackJob DEF Called
<1>3. \A j \in ToSet(done) : j \in Job
  BY ToSetLen DEF TypeInv, TypeOK, PoolTypeOK
<1>4. \A j \in Working \cup lost : j \in Job
  BY DEF TypeInv, TypeOK, PoolTypeOK, Working, Busy
<1>5. QED
  BY <1>1, <1>2, <1>3, <1>4 DEF Hand

LEMMA LoadType ==
  ASSUME TypeInv
  PROVE  /\ IsFiniteSet(Counted)
         /\ \A q \in Source : /\ Of(q) \subseteq Counted /\ IsFiniteSet(Of(q))
                              /\ Cardinality(Of(q)) \in Nat /\ Load(q) \in Int
<1>1. IsFiniteSet(Busy)
  BY FS_Subset, DaemonAssumption DEF Busy
<1>2. IsFiniteSet(Working)
  <2>1. [w \in Busy |-> work[w]] \in Surjection(Busy, Working)
    BY DEF Working, Surjection
  <2>2. QED
    BY <1>1, <2>1, FS_Surjection
<1>3. IsFiniteSet(ToSet(done))
  <2>1. done \in Seq(Job)
    BY DEF TypeInv, TypeOK, PoolTypeOK
  <2>2. IsFiniteSet(1 .. Len(done))
    BY <2>1, FS_Interval
  <2>3. done \in Surjection(1 .. Len(done), ToSet(done))
    BY <2>1 DEF ToSet, Surjection
  <2>4. QED
    BY <2>2, <2>3, FS_Surjection
<1>4. IsFiniteSet(IF callback.step = "write" THEN {callback.job} ELSE {})
  BY FS_EmptySet, FS_Singleton
<1>5. IsFiniteSet(Counted)
  BY <1>2, <1>3, <1>4, FS_Union DEF Counted, TypeInv, TypeOK, PoolTypeOK
<1>6. ASSUME NEW q \in Source
      PROVE  /\ Of(q) \subseteq Counted /\ IsFiniteSet(Of(q))
             /\ Cardinality(Of(q)) \in Nat /\ Load(q) \in Int
  <2>1. Of(q) \subseteq Counted
    BY DEF Of
  <2>2. IsFiniteSet(Of(q))
    BY <1>5, <2>1, FS_Subset
  <2>3. Cardinality(Of(q)) \in Nat
    BY <2>2, FS_CardinalityType
  <2>4. overwritten[q] \in Int
    BY DEF TypeInv, TypeOK, PoolTypeOK
  <2>5. QED
    BY <2>1, <2>2, <2>3, <2>4 DEF Load
<1>7. QED
  BY <1>5, <1>6

LEMMA SameLoad ==
  ASSUME Counted' = Counted, UNCHANGED overwritten
  PROVE  \A q : Load(q)' = Load(q)
BY DEF Load, Of

\* The steps that leave the jobs and the counters alone.
LEMMA SameJobs ==
  ASSUME CapInv, UNCHANGED <<buffer, jobs, counter, overwritten>>, Hand' = Hand, Counted' = Counted,
         todo' = {}, buffer # <<>> => pc' = "save",
         pc' = "save" => taken'.source = QueueOf[taken'.report],
         pc' = "dispatch" => counter[taken'.source] =< read',
         callback'.step = "write" => callback'.read =< counter[callback'.job.source],
         pc' = "move" => \A q \in ToSet(readable') : Load(q) =< Cap - 1,
         pc' \in {"save", "count", "dispatch"} => Load(taken'.source) =< Cap - 1
  PROVE  CapInv'
<1>1. \A q : Load(q)' = Load(q)
  BY SameLoad
<1>2. FreshStart' /\ OwnQueue'
  BY DEF CapInv, FreshStart, OwnQueue
<1>3. CountersEnough'
  BY <1>1 DEF CapInv, CountersEnough
<1>4. Admitted'
  BY <1>1 DEF CapInv, Admitted
<1>5. QED
  BY <1>2, <1>3, <1>4 DEF CapInv

LEMMA SamePool ==
  ASSUME UNCHANGED <<work, done, callback, lost>>, Taken' = Taken
  PROVE  Hand' = Hand /\ Counted' = Counted
BY DEF Hand, Counted, Working, Busy, Called

LEMMA QuietJobs ==
  ASSUME CapInv,
         UNCHANGED <<buffer, jobs, pc, todo, readable, taken, read, counter, work, done, callback,
                     lost, overwritten>>
  PROVE  CapInv'
<1>1. Hand' = Hand /\ Counted' = Counted
  BY SamePool DEF Taken
<1>2. QED
  BY <1>1, SameJobs DEF CapInv, FreshStart, OwnQueue, CountersEnough, Admitted

LEMMA StartJobs ==
  ASSUME TypeInv, PlaceInv, CapInv, NEW f \in BOOLEAN, Start(f)
  PROVE  CapInv'
<1> USE DEF Start, redis, shared, pool
<1>1. Hand = {} /\ Taken' = Taken
  BY ToSetShort DEF Taken, Hand, Working, Called, TypeInv, LoopInv, IdleCallback
<1>2. todo' = {}
  BY <1>1 DEF CapInv, FreshStart
<1>3. Hand' = Hand /\ Counted' = Counted
  BY <1>1, SamePool
<1>4. buffer = <<>>
  BY DEF CapInv, FreshStart
<1>5. QED
  BY <1>2, <1>3, <1>4, SameJobs DEF CapInv, CountersEnough

LEMMA NextSlotJobs ==
  ASSUME CapInv, TakeSlot \/ Join
  PROVE  CapInv'
<1> USE DEF TakeSlot, Join, redis, shared, pool
<1>1. Taken' = Taken
  BY DEF Taken
<1>2. Hand' = Hand /\ Counted' = Counted
  BY <1>1, SamePool
<1>3. buffer = <<>>
  BY DEF CapInv, FreshStart
<1>4. UNCHANGED <<buffer, jobs, counter, overwritten, todo, callback>> /\ pc' \in {"peek", "join"}
  OBVIOUS
<1>5. QED
  BY <1>2, <1>3, <1>4, SameJobs DEF CapInv, FreshStart, CountersEnough

\* Only queues with less than the maximum are read.
LEMMA PeekJobs ==
  ASSUME TypeInv, CapInv, Peek
  PROVE  CapInv'
<1> USE DEF Peek, NoReport, redis, pool
<1>1. buffer = <<>>
  BY DEF CapInv, FreshStart
<1> DEFINE allowed == { q \in ToSet(keys) : queue[q] # <<>> /\ counter[q] =< Cap - 1 }
<1>2. ToSet(keys) \subseteq Queue /\ Queue \subseteq Source
  BY ToSetLen DEF TypeInv, TypeOK, LoopTypeOK, Source
<1>3. IsFiniteSet(allowed) /\ allowed \subseteq Queue
  BY <1>2, DaemonAssumption, FS_Subset
<1>4. readable' \in SetToSeqs(allowed)
  BY <1>1 DEF Ranked, RankedUpTo
<1>5. ToSet(readable') \subseteq allowed
  BY <1>3, <1>4, SeqsOfSet
<1>6. \A q \in allowed : Load(q) =< Cap - 1
  <2>1. \A q \in Source : counter[q] \in Nat /\ Load(q) \in Int /\ Load(q) =< counter[q]
    BY LoadType DEF TypeInv, TypeOK, PoolTypeOK, CapInv, CountersEnough
  <2>2. Cap \in Nat
    BY DaemonAssumption
  <2>3. QED
    BY <1>2, <2>1, <2>2
<1>7. Taken' = Taken /\ pc' \in {"move", "slot"}
  BY <1>1 DEF Taken
<1>8. Hand' = Hand /\ Counted' = Counted
  BY <1>7, SamePool
<1>9. \A q \in ToSet(readable') : Load(q) =< Cap - 1
  BY <1>5, <1>6
<1>10. UNCHANGED <<buffer, jobs, counter, overwritten, todo, callback>>
  BY <1>1 DEF shared
<1>11. QED
  BY <1>1, <1>7, <1>8, <1>9, <1>10, SameJobs DEF CapInv, FreshStart, CountersEnough

\* The report moved is one of the queue read.
LEMMA MoveJobs ==
  ASSUME TypeInv, PlaceInv, CapInv, Move
  PROVE  CapInv'
<1> USE DEF Move, pool
<1> DEFINE q == Head(readable)
<1>1. readable \in Seq(Queue) /\ readable # <<>> /\ pc = "move" /\ buffer = <<>>
  BY DEF TypeInv, TypeOK, LoopTypeOK, LoopInv
<1>2. q \in ToSet(readable) /\ ToSet(Tail(readable)) \subseteq ToSet(readable)
  BY <1>1, TailLemma
<1>3. Taken' = Taken
  BY DEF Taken, NoReport
<1>4. Hand' = Hand /\ Counted' = Counted
  BY <1>3, SamePool
<1>5. CASE MoveToBuffer(q) /\ taken' = [source |-> q, report |-> Head(queue[q])] /\ pc' = "save"
  <2>1. q \in Queue /\ queue[q] \in Seq(Report) /\ queue[q] # <<>>
    BY <1>1, <1>5, MoveToBufferType
  <2>2. Head(queue[q]) \in ToSet(queue[q])
    BY <2>1, TailLemma
  <2>3. taken'.source = QueueOf[taken'.report]
    BY <1>5, <2>1, <2>2 DEF PlaceInv, WaitingInv
  <2>4. \A s : Load(s)' = Load(s)
    BY <1>4, SameLoad
  <2>5. Load(taken'.source) =< Cap - 1
    BY <1>1, <1>2, <1>5 DEF CapInv, Admitted
  <2>6. UNCHANGED <<jobs, counter, todo, callback>>
    BY <1>5 DEF MoveToBuffer
  <2>7. CountersEnough' /\ Admitted'
    BY <1>5, <2>4, <2>5, <2>6 DEF CapInv, CountersEnough, Admitted
  <2>8. QED
    BY <1>4, <1>5, <2>3, <2>6, <2>7 DEF CapInv, FreshStart, OwnQueue
<1>6. CASE readable' = Tail(readable) /\ UNCHANGED redis /\ pc' \in {"slot", "move"}
  <2>1. \A s \in ToSet(readable') : Load(s) =< Cap - 1
    BY <1>1, <1>2, <1>6 DEF CapInv, Admitted
  <2>2. UNCHANGED <<buffer, jobs, counter, overwritten, todo, callback>>
    BY <1>6 DEF redis
  <2>3. QED
    BY <1>1, <1>4, <1>6, <2>1, <2>2, SameJobs DEF CapInv, FreshStart, CountersEnough
<1>7. QED
  BY <1>1, <1>5, <1>6 DEF NoReport

LEMMA SaveJobs ==
  ASSUME TypeInv, PlaceInv, CapInv, Save
  PROVE  CapInv'
<1> USE DEF Save, pool
<1>1. /\ taken \in Job /\ buffer' = <<>>
      /\ jobs' = IF taken.report \in Valid THEN [jobs EXCEPT ![JobOf[taken.report]] = taken] ELSE jobs
  BY SaveJobType
<1>a. UNCHANGED counter /\ \A s : Load(s)' = Load(s)
  BY SameLoad DEF Counted, Working, Busy
<1>2. Taken = {} /\ Counted' = Counted /\ Called' = Called /\ Working' = Working
  BY DEF Taken, Counted, Working, Busy, Called
<1>3. CASE taken.report \in Valid
  <2>1. Hand' = Hand \cup {taken}
    BY <1>2, <1>3 DEF Hand, Taken
  <2>2. \A id \in JobId : jobs'[id] # None => jobs'[id] \in Hand'
    BY <1>1, <1>3, <2>1 DEF CapInv, FreshStart, TypeInv, TypeOK, RedisTypeOK
  <2>3. CountersEnough' /\ Admitted'
    BY <1>3, <1>a DEF CapInv, CountersEnough, Admitted
  <2>4. QED
    BY <1>1, <1>2, <1>3, <2>1, <2>2, <2>3 DEF CapInv, FreshStart, OwnQueue
<1>4. CASE taken.report \notin Valid
  <2>1. Hand' = Hand /\ jobs' = jobs /\ pc' = "slot"
    BY <1>1, <1>2, <1>4 DEF Hand, Taken, NoReport
  <2>2. CountersEnough' /\ Admitted'
    BY <2>1, <1>a DEF CapInv, CountersEnough, Admitted
  <2>3. QED
    BY <1>1, <1>2, <1>4, <2>1, <2>2 DEF CapInv, FreshStart, OwnQueue
<1>5. QED
  BY <1>3, <1>4

LEMMA CountJobs ==
  ASSUME TypeInv, CapInv, Count
  PROVE  CapInv'
<1> USE DEF Count, redis, shared, pool
<1>1. Taken' = Taken
  BY DEF Taken
<1>2. Hand' = Hand /\ Counted' = Counted
  BY <1>1, SamePool
<1>3. buffer = <<>> /\ Load(taken.source) =< Cap - 1
  BY DEF CapInv, Admitted, FreshStart
<1>4. counter[taken.source] =< read'
  <2>1. counter[taken.source] \in Nat
    BY DEF TypeInv, TypeOK, PoolTypeOK, LoopInv, Job
  <2>2. QED
    BY <2>1
<1>5. UNCHANGED <<buffer, jobs, counter, overwritten, todo, callback, taken>> /\ pc' = "dispatch"
  OBVIOUS
<1>6. QED
  BY <1>2, <1>3, <1>4, <1>5, SameJobs DEF CapInv, FreshStart, CountersEnough

\* The counter is one more than what was read, and nothing else is raised.
LEMMA DispatchJobs ==
  ASSUME TypeInv, PlaceInv, CapInv, NEW w \in Worker, Dispatch(w)
  PROVE  CapInv'
<1> USE DEF Dispatch, redis
<1>1. taken \in Job /\ taken # None /\ taken.source \in Source
  BY NoneAssumption DEF TypeInv, LoopInv, Job
<1>2. \A v \in Worker : work'[v] = IF v = w THEN taken ELSE work[v]
  BY DEF TypeInv, TypeOK, PoolTypeOK
<1>3. Busy' = Busy \cup {w} /\ w \notin Busy
  BY <1>1, <1>2 DEF Busy
<1>4. Working' = Working \cup {taken}
  BY <1>2, <1>3 DEF Working
<1>5. Taken = {taken} /\ Taken' = {} /\ Called' = Called
  BY DEF Taken, Called
<1>6. Hand' = Hand /\ Counted' = Counted \cup {taken}
  BY <1>4, <1>5 DEF Hand, Counted
<1>7. read \in Nat /\ \A s \in Source : counter[s] \in Nat
  BY DEF TypeInv, TypeOK, PoolTypeOK, LoopTypeOK
<1>8. \A s \in Source : counter'[s] = IF s = taken.source THEN read + 1 ELSE counter[s]
  BY DEF TypeInv, TypeOK, PoolTypeOK
<1>9. \A s \in Source : counter[s] =< counter'[s]
  BY <1>1, <1>7, <1>8 DEF CapInv, CountersEnough
<1>10. ASSUME NEW q \in Source, q # taken.source PROVE Load(q)' = Load(q)
  BY <1>6, <1>10 DEF Load, Of
<1>11. ASSUME NEW q \in Source, q = taken.source
       PROVE  Load(q)' =< Load(q) + 1 /\ Load(q)' \in Int
  <2>1. Of(q)' = Of(q) \cup {taken}
    BY <1>6, <1>11 DEF Of
  <2>2. IsFiniteSet(Of(q)) /\ Cardinality(Of(q)) \in Nat /\ overwritten[q] \in Int
    BY <1>1, LoadType DEF TypeInv, TypeOK, PoolTypeOK
  <2>3. \/ Cardinality(Of(q) \cup {taken}) = Cardinality(Of(q))
        \/ Cardinality(Of(q) \cup {taken}) = Cardinality(Of(q)) + 1
    BY <2>2, FS_AddElement
  <2>4. overwritten' = overwritten
    OBVIOUS
  <2>5. Load(q)' = Cardinality(Of(q) \cup {taken}) - overwritten[q]
    BY <2>1, <2>4 DEF Load
  <2>6. QED
    BY <2>2, <2>3, <2>5 DEF Load
<1>12. \A q \in Source : Load(q) \in Int
  BY LoadType
<1>13. Cap \in Nat
  BY DaemonAssumption
<1>14. CountersEnough'
  <2>1. \A q \in Source : Load(q)' =< counter'[q]
    <3>1. ASSUME NEW q \in Source, q = taken.source PROVE Load(q)' =< read + 1
      <4>1. Load(q) =< read
        BY <1>7, <1>12, <3>1 DEF CapInv, CountersEnough
      <4>2. QED
        BY <1>7, <1>11, <1>12, <3>1, <4>1
    <3>2. QED
      BY <1>8, <1>10, <3>1 DEF CapInv, CountersEnough
  <2>2. callback'.step = "write" => callback'.read =< counter'[callback'.job.source]
    <3>1. SUFFICES ASSUME callback.step = "write" PROVE callback.read =< counter'[callback.job.source]
      OBVIOUS
    <3>2. callback.job.source \in Source /\ callback.read \in Nat
      BY <3>1, CallbackJob DEF Job, IdleCallback
    <3>3. callback.read =< counter[callback.job.source]
      BY <3>1 DEF CapInv, CountersEnough
    <3>4. counter'[callback.job.source] \in Nat
      BY <1>7, <1>8, <3>2
    <3>5. QED
      BY <1>7, <1>9, <3>2, <3>3, <3>4
  <2>3. QED
    BY <2>1, <2>2 DEF CountersEnough
<1>15. FreshStart' /\ OwnQueue'
  BY <1>6 DEF CapInv, FreshStart, OwnQueue
<1>16. Admitted'
  <2>1. ASSUME NEW q \in Source, q = taken.source PROVE Load(q)' =< Cap
    BY <1>11, <1>12, <1>13, <2>1 DEF CapInv, Admitted
  <2>2. \A q \in Source : Load(q)' =< Cap
    BY <1>10, <2>1 DEF CapInv, Admitted
  <2>3. QED
    BY <2>2 DEF Admitted
<1>17. QED
  BY <1>14, <1>15, <1>16 DEF CapInv

\* At the end there is nothing, and nothing recorded.
LEMMA JoinEndJobs ==
  ASSUME TypeInv, CapInv, JoinEnd
  PROVE  CapInv'
<1> USE DEF JoinEnd, Gone, redis
<1>1. Hand = {}
  BY ToSetShort DEF Taken, Hand, Working, Called, IdleCallback
<1>2. Busy' = {} /\ ToSet(done') = {}
  BY ToSetShort DEF Busy
<1>3. Hand' = {} /\ Counted' = {}
  BY <1>2 DEF Hand, Counted, Working, Called, Taken, IdleCallback
<1>4. FreshStart'
  BY <1>1 DEF CapInv, FreshStart
<1>5. OwnQueue'
  BY <1>3 DEF OwnQueue
<1>6. \A q \in Source : Load(q)' = 0 /\ counter'[q] = 0
  <2>1. ASSUME NEW q \in Source PROVE Load(q)' = 0
    <3>1. Of(q)' = {} /\ overwritten'[q] = 0
      BY <1>3 DEF Of
    <3>2. QED
      BY <3>1, FS_EmptySet DEF Load
  <2>2. QED
    BY <2>1
<1>7. CountersEnough' /\ Admitted'
  BY <1>6, DaemonAssumption DEF CountersEnough, Admitted, IdleCallback
<1>8. QED
  BY <1>4, <1>5, <1>7 DEF CapInv

\* A job goes from one part of the pool to another.
LEMMA PassedOn ==
  ASSUME CapInv,
         UNCHANGED <<buffer, jobs, pc, todo, readable, taken, read, counter, overwritten>>,
         Hand' = Hand, Counted' = Counted,
         callback'.step = "write" => callback'.read =< counter[callback'.job.source]
  PROVE  CapInv'
BY SameJobs DEF CapInv, FreshStart, OwnQueue, CountersEnough, Admitted

LEMMA WorkerJobs ==
  ASSUME TypeInv, PlaceInv, CapInv, NEW w \in Worker, Finish(w) \/ Kill(w)
  PROVE  CapInv'
<1> USE DEF Finish, Kill, redis, loop, shared
<1> DEFINE j == work[w]
<1>1. j \in Job /\ Working = Working' \cup {j}
  BY WorkerFreed
<1>2. Taken' = Taken /\ Called' = Called /\ UNCHANGED callback
  BY DEF Taken, Called
<1>3. done \in Seq(Job)
  BY DEF TypeInv, TypeOK, PoolTypeOK
<1>4. ToSet(done') \cup lost' = ToSet(done) \cup lost \cup {j}
  <2>1. ToSet(Append(done, j)) = ToSet(done) \cup {j}
    BY <1>1, <1>3, AppendLemma
  <2>2. QED
    BY <2>1
<1>5. Hand' = Hand /\ Counted' = Counted
  BY <1>1, <1>2, <1>4 DEF Hand, Counted
<1>6. QED
  BY <1>2, <1>5, PassedOn DEF CapInv, CountersEnough

LEMMA CallbackReadJobs ==
  ASSUME TypeInv, PlaceInv, CapInv, CallbackRead
  PROVE  CapInv'
<1> USE DEF CallbackRead, redis, loop, shared
<1> DEFINE j == Head(done)
<1>1. done \in Seq(Job) /\ done # <<>>
  BY DEF TypeInv, TypeOK, PoolTypeOK
<1>2. ToSet(done) = ToSet(done') \cup {j}
  BY <1>1, TailLemma
<1>3. Taken' = Taken /\ Called = {} /\ Called' = {j} /\ Working' = Working /\ callback.step # "write"
  BY DEF Taken, Called, IdleCallback, Busy, Working
<1>4. Hand' = Hand /\ Counted' = Counted
  BY <1>2, <1>3 DEF Hand, Counted
<1>5. callback'.read =< counter[callback'.job.source]
  <2>1. j \in Job
    BY <1>1
  <2>2. counter[j.source] \in Nat
    BY <2>1 DEF TypeInv, TypeOK, PoolTypeOK, Job
  <2>3. QED
    BY <2>2
<1>6. QED
  BY <1>4, <1>5, PassedOn

\* The counter is one less than what was read, and the queue has one job less.
LEMMA CallbackReleaseJobs ==
  ASSUME TypeInv, PlaceInv, CapInv, CallbackRelease
  PROVE  CapInv'
<1> USE DEF CallbackRelease, redis, loop
<1>1. /\ callback \in [step : {"write", "remove"}, job : Job, read : Nat] /\ callback.step = "write"
      /\ callback.job \in Job
  BY CallbackJob
<1> DEFINE j == callback.job
<1>2. callback'.step = "remove" /\ callback'.job = j
  BY <1>1
<1>3. Taken' = Taken /\ Called' = Called /\ Called = {j} /\ Working' = Working
  BY <1>1, <1>2 DEF Taken, Called, Busy, Working
<1>4. Hand' = Hand
  BY <1>3 DEF Hand
<1>5. Counted = Counted' \cup {j} /\ j \notin Counted'
  BY <1>1, <1>2, <1>3 DEF Counted, PlaceInv, DistinctInv
<1>6. j.source \in Source /\ callback.read \in Nat
  BY <1>1 DEF Job
<1> DEFINE written == IF callback.read > 0 THEN callback.read - 1 ELSE 0
<1>7. \A s \in Source : /\ counter'[s] = IF s = j.source THEN written ELSE counter[s]
                       /\ overwritten'[s] = IF s = j.source
                             THEN overwritten[s] + (counter[s] - callback.read) ELSE overwritten[s]
  BY <1>6 DEF TypeInv, TypeOK, PoolTypeOK
<1>8. \A s \in Source : counter[s] \in Nat /\ overwritten[s] \in Int /\ Load(s) \in Int
  BY LoadType DEF TypeInv, TypeOK, PoolTypeOK
<1>9. written \in Nat /\ written >= callback.read - 1 /\ callback.read =< counter[j.source]
      /\ written =< counter[j.source]
  BY <1>1, <1>6, <1>8 DEF CapInv, CountersEnough
<1>10. ASSUME NEW q \in Source, q # j.source PROVE Load(q)' = Load(q)
  <2>1. Of(q)' = Of(q)
    BY <1>5, <1>10 DEF Of
  <2>2. QED
    BY <1>7, <1>10, <2>1 DEF Load
<1>11. Load(j.source)' = Load(j.source) - 1 - (counter[j.source] - callback.read)
  <2> DEFINE q == j.source
  <2>1. Of(q)' = Of(q) \ {j} /\ j \in Of(q)
    BY <1>5 DEF Of
  <2>2. IsFiniteSet(Of(q)) /\ Cardinality(Of(q)) \in Nat
    BY <1>6, LoadType
  <2>3. Cardinality(Of(q) \ {j}) = Cardinality(Of(q)) - 1
    BY <2>1, <2>2, FS_RemoveElement
  <2>4. Load(q)' = Cardinality(Of(q) \ {j}) - overwritten'[q]
    BY <2>1 DEF Load
  <2>5. QED
    BY <1>6, <1>7, <1>8, <2>2, <2>3, <2>4 DEF Load
<1> HIDE DEF written
<1>12. \A q \in Source : Load(q)' \in Int /\ Load(q)' =< Load(q) /\ counter'[q] =< counter[q]
  BY <1>6, <1>7, <1>8, <1>9, <1>10, <1>11
<1>13. Load(j.source)' =< written
  <2>1. Load(j.source) =< counter[j.source]
    BY <1>6 DEF CapInv, CountersEnough
  <2>2. QED
    BY <1>6, <1>8, <1>9, <1>11, <2>1
<1>14. CountersEnough'
  <2>1. \A q \in Source : Load(q)' =< counter'[q]
    BY <1>7, <1>10, <1>13 DEF CapInv, CountersEnough
  <2>2. pc' = "dispatch" => counter'[taken'.source] =< read'
    <3>1. SUFFICES ASSUME pc = "dispatch" PROVE counter'[taken.source] =< read
      OBVIOUS
    <3>2. taken.source \in Source /\ read \in Nat
      BY <3>1 DEF TypeInv, LoopInv, Job, TypeOK, LoopTypeOK
    <3>3. counter[taken.source] =< read /\ counter'[taken.source] \in Nat
      BY <1>7, <1>8, <1>9, <3>1, <3>2 DEF CapInv, CountersEnough
    <3>4. QED
      BY <1>8, <1>12, <3>2, <3>3
  <2>3. QED
    BY <1>2, <2>1, <2>2 DEF CountersEnough
<1>15. FreshStart' /\ OwnQueue'
  BY <1>4 DEF CapInv, FreshStart, OwnQueue
<1>16. Admitted'
  <2>1. Cap \in Nat
    BY DaemonAssumption
  <2>2. ASSUME NEW q \in Source PROVE /\ Load(q)' =< Cap
                                      /\ Load(q) =< Cap - 1 => Load(q)' =< Cap - 1
    BY <1>8, <1>12, <2>1 DEF CapInv, Admitted
  <2>3. pc = "move" => ToSet(readable) \subseteq Source
    BY ToSetLen DEF TypeInv, TypeOK, LoopTypeOK, Source
  <2>4. pc \in {"save", "count", "dispatch"} => taken.source \in Source
    BY DEF TypeInv, LoopInv, Job
  <2>5. QED
    BY <2>2, <2>3, <2>4 DEF CapInv, Admitted
<1>17. QED
  BY <1>14, <1>15, <1>16 DEF CapInv

\* The record removed is the one of the job.
LEMMA CallbackRemoveJobs ==
  ASSUME TypeInv, PlaceInv, CapInv, CallbackRemove
  PROVE  CapInv'
<1> USE DEF CallbackRemove, loop, shared
<1> DEFINE j == callback.job
<1>1. Called = {j} /\ Called' = {} /\ Taken' = Taken /\ Working' = Working
  BY DEF Called, IdleCallback, Taken, Working, Busy
<1>2. Hand \subseteq Hand' \cup {j} /\ Hand' \subseteq Hand
  BY <1>1 DEF Hand
<1>3. Counted' = Counted
  BY <1>1 DEF Counted, IdleCallback
<1>4. \A id \in JobId : jobs'[id] = IF id = JobOf[j.report] THEN None ELSE jobs[id]
  BY DEF TypeInv, TypeOK, RedisTypeOK
<1>5. ASSUME NEW id \in JobId, jobs'[id] # None PROVE jobs'[id] \in Hand'
  <2>1. jobs'[id] = jobs[id] /\ id # JobOf[j.report] /\ jobs[id] \in Hand
    BY <1>4, <1>5 DEF CapInv, FreshStart
  <2>2. jobs[id] # j
    BY <1>5, <2>1 DEF PlaceInv, JobsInv
  <2>3. QED
    BY <1>2, <2>1, <2>2
<1>6. FreshStart'
  BY <1>5 DEF CapInv, FreshStart
<1>7. OwnQueue' /\ \A q : Load(q)' = Load(q)
  BY <1>2, <1>3, SameLoad DEF CapInv, OwnQueue
<1>8. CountersEnough' /\ Admitted'
  BY <1>7 DEF CapInv, CountersEnough, Admitted, IdleCallback
<1>9. QED
  BY <1>6, <1>7, <1>8 DEF CapInv

LEMMA CapStep ==
  ASSUME TypeInv, PlaceInv, Smooth => CapInv, [Next]_vars
  PROVE  (Smooth => CapInv)'
<1>1. SUFFICES ASSUME Smooth' PROVE CapInv'
  OBVIOUS
<1>2. CapInv
  BY <1>1, SmoothBefore
<1>3. ~(LoseMove \/ LoseSave \/ Crash \/ Stop \/ StopEnd)
  BY <1>1, NotSmooth
<1>4. CASE UNCHANGED vars
  BY <1>2, <1>4, QuietJobs DEF vars, redis, loop, shared, pool
<1>5. ASSUME NEW r \in Report, Submit(r) PROVE CapInv'
  BY <1>2, <1>5, QuietJobs DEF Submit, loop, shared, pool
<1>6. ASSUME NEW q \in Queue, Rival(q) PROVE CapInv'
  BY <1>2, <1>6, QuietJobs DEF Rival, loop, shared, pool
<1>7. ASSUME NEW j \in orphans, FinishOrphan(j) PROVE CapInv'
  BY <1>2, <1>7, QuietJobs DEF FinishOrphan, redis, loop, shared, pool
<1>8. CASE Tick
  BY <1>2, <1>8, QuietJobs DEF Tick, redis, shared, pool
<1>9. ASSUME NEW id \in JobId, LoadUnfinished(id) PROVE FALSE
  BY <1>2, <1>9 DEF LoadUnfinished, CapInv, FreshStart
<1>10. CASE MainLoop
  BY <1>2, <1>3, <1>9, <1>10, NextSlotJobs, PeekJobs, MoveJobs, SaveJobs, CountJobs, DispatchJobs,
     JoinEndJobs DEF MainLoop
<1>11. CASE Callback
  BY <1>2, <1>11, CallbackReadJobs, CallbackReleaseJobs, CallbackRemoveJobs DEF Callback
<1>12. CASE Environment
  BY <1>2, <1>3, <1>5, <1>6, <1>12, WorkerJobs DEF Environment
<1>13. QED
  BY <1>2, <1>4, <1>7, <1>8, <1>10, <1>11, <1>12, StartJobs, WorkerJobs DEF Next

LEMMA InitCap == Init => CapInv
<1>1. SUFFICES ASSUME Init PROVE CapInv
  OBVIOUS
<1>2. Busy = {} /\ ToSet(done) = {}
  BY <1>1, ToSetShort DEF Init, Busy
<1>3. Hand = {} /\ Counted = {}
  BY <1>1, <1>2 DEF Init, Hand, Counted, Working, Called, Taken, IdleCallback
<1>4. FreshStart /\ OwnQueue
  BY <1>1, <1>3 DEF Init, FreshStart, OwnQueue
<1>5. ASSUME NEW q \in Source PROVE Load(q) = 0
  <2>1. Of(q) = {} /\ overwritten[q] = 0
    BY <1>1, <1>3 DEF Of, Init
  <2>2. QED
    BY <2>1, FS_EmptySet DEF Load
<1>6. CountersEnough /\ Admitted
  BY <1>1, <1>5, DaemonAssumption DEF Init, CountersEnough, Admitted, IdleCallback
<1>7. QED
  BY <1>4, <1>6 DEF CapInv

\* A worker that is busy with a report of a queue has a job that counts for it, and no two
\* have the same.
LEMMA NoMoreThanCap ==
  ASSUME TypeInv, PlaceInv, Smooth => CapInv
  PROVE  CapRespected
<1>1. SUFFICES ASSUME Smooth, NEW q \in Queue
               PROVE  Cardinality(InProgress(q)) =< Cap + overwritten[q]
  BY DEF CapRespected, Smooth
<1> DEFINE ws == InProgress(q)
<1>2. q \in Source /\ ws \subseteq Busy
  BY DEF Source, InProgress
<1>3. IsFiniteSet(ws)
  BY <1>2, FS_Subset, DaemonAssumption DEF Busy
<1>4. \A w \in ws : work[w] \in Of(q)
  <2>1. \A w \in Busy : work[w] \in Counted /\ work[w] \in Hand
    BY DEF Counted, Hand, Working
  <2>2. QED
    BY <1>1, <2>1 DEF InProgress, Of, CapInv, OwnQueue
<1>5. \A v, w \in ws : work[v] = work[w] => v = w
  BY <1>2 DEF PlaceInv, DistinctInv
<1>7. IsFiniteSet(Of(q)) /\ Cardinality(Of(q)) \in Nat /\ overwritten[q] \in Int
  BY <1>2, LoadType DEF TypeInv, TypeOK, PoolTypeOK
<1>8. Cardinality(ws) =< Cardinality(Of(q)) /\ Cardinality(ws) \in Nat
  <2> DEFINE f == [w \in ws |-> work[w]]
  <2>1. f \in Injection(ws, Of(q))
    BY <1>4, <1>5 DEF Injection, IsInjective
  <2>2. QED
    BY <1>3, <1>7, <2>1, FS_Injection, FS_CardinalityType
<1>9. Cardinality(Of(q)) - overwritten[q] =< Cap
  BY <1>1, <1>2 DEF CapInv, Admitted, Load
<1>10. QED
  BY <1>7, <1>8, <1>9, DaemonAssumption

-----------------------------------------------------------------------------
(* Theorems *)

\* No report is worked on twice at a time, since it is in the hands of one worker only.
LEMMA PlaceMeansOnce ==
  ASSUME TypeInv, PlaceInv
  PROVE  NoDoubleDispatch
<1>1. \A w \in Busy : work[w] \in Working /\ work[w] \in Hand
  BY DEF Working, Hand
<1>2. \A v, w \in Busy : work[v].report = work[w].report => v = w
  BY <1>1 DEF PlaceInv, DistinctInv
<1>3. ASSUME NEW w \in Busy, pc \in {"count", "dispatch"}, taken.report = work[w].report
      PROVE  FALSE
  <2>1. taken \in Taken /\ taken \in Hand
    BY <1>3 DEF Taken, Hand
  <2>2. taken = work[w]
    BY <1>1, <1>3, <2>1 DEF PlaceInv, DistinctInv
  <2>3. QED
    BY <1>1, <2>1, <2>2 DEF PlaceInv, DistinctInv
<1>4. \A w \in Busy : JobOf[work[w].report] \notin todo
  BY <1>1 DEF PlaceInv, JobsInv
<1>5. QED
  BY <1>2, <1>3, <1>4 DEF NoDoubleDispatch

\* The inductive invariant.
LEMMA Inductive ==
  Spec => [](TypeInv /\ PlaceInv /\ SlotsConserved /\ KeepInv)
<1> DEFINE All == TypeInv /\ PlaceInv /\ SlotsConserved /\ KeepInv
<1>1. Init => All
  BY InitType, InitPlace, InitKeep DEF SlotsConserved, Up, Init
<1>2. All /\ [Next]_vars => All'
  BY TypeStep, PlaceStep, SlotsStep, KeepInvStep
<1>3. QED
  BY <1>1, <1>2, PTL DEF Spec

LEMMA InductiveCap ==
  Spec => [](TypeInv /\ PlaceInv /\ (Smooth => CapInv))
<1> DEFINE All == TypeInv /\ PlaceInv /\ (Smooth => CapInv)
<1>1. Init => All
  BY InitType, InitPlace, InitCap
<1>2. All /\ [Next]_vars => All'
  BY TypeStep, PlaceStep, CapStep
<1>3. QED
  BY <1>1, <1>2, PTL DEF Spec

\* Whatever happens to the daemon, its workers and its connection, a report that was
\* submitted and not handled is in Redis; only two reports of one product can cost one.
THEOREM ReportsKept == Spec => []NothingLost
<1>1. KeepInv => NothingLost
  BY DEF KeepInv
<1>2. QED
  BY <1>1, Inductive, PTL

\* The slots of the semaphore always add up to the number of workers.
THEOREM SlotsAddUp == Spec => []SlotsConserved
BY Inductive, PTL

\* A daemon never works on one report twice at a time.
THEOREM DispatchedOnce == Spec => []NoDoubleDispatch
<1>1. TypeInv /\ PlaceInv => NoDoubleDispatch
  BY PlaceMeansOnce
<1>2. QED
  BY <1>1, Inductive, PTL

\* Whatever the maximum of jobs per queue is, it is exceeded by no more than what the
\* callback overwrote in the counter of the queue.
THEOREM MaximumKept == Spec => []CapRespected
<1>1. TypeInv /\ PlaceInv /\ (Smooth => CapInv) => CapRespected
  BY NoMoreThanCap
<1>2. QED
  BY <1>1, InductiveCap, PTL

=============================================================================
