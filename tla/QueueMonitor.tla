----------------------------- MODULE QueueMonitor -----------------------------
(***************************************************************************)
(* The monitor of the queues of reports.  Once a second it reads from      *)
(* Redis how many reports are queued and how the daemons are, and keeps    *)
(* for each queue the samples since it last grew, from which it estimates  *)
(* a rate and a time of completion.  Reports come and go meanwhile.        *)
(*                                                                         *)
(* Source: tools/browsewatch_monitor.py                                    *)
(***************************************************************************)
EXTENDS Integers, FiniteSets, Sequences, SequencesExt

CONSTANTS Queue,      \* names of queues
          MaxHistory, \* MAX_HISTORY
          MaxCount,   \* reports in a queue (bound of the model)
          MaxReads    \* rounds of the monitor (bound)

ASSUME MonitorAssumption ==
  IsFiniteSet(Queue) /\ MaxHistory \in Nat \ {0, 1} /\ MaxCount \in Nat /\ MaxReads \in Nat

VARIABLES queued,     \* reports in each queue
          key_set,    \* the queues in the Redis set
          running,    \* what the keys of daemons in Redis tell: one is running, all
                      \* are "stopped", or there is "none" (no key)
          queue_state,\* states of the queues that the monitor has seen
          total_state,\* state of their sum, {} before the first round
          reads,      \* rounds of the monitor, its clock
          stopped_at  \* history: the last round at which all of them were stopped

shown == <<queue_state, total_state>>
monitorvars == <<queued, key_set, running, shown, reads, stopped_at>>

\* Fault: a new state begins its history with the sample it was made with.
NewStateKept(counter, now) ==
  [counter |-> counter, history |-> <<[at |-> now, count |-> counter]>>, reset_next |-> FALSE]

\* QueueState.__init__
NewState(counter, now) ==
  [counter |-> counter, history |-> <<[at |-> now, count |-> counter]>>, reset_next |-> TRUE]

Newest(s) == SubSeq(s, IF Len(s) > MaxHistory THEN Len(s) - MaxHistory + 1 ELSE 1, Len(s))

\* QueueState.update
Updated(state, counter, now) ==
  LET item == [at |-> now, count |-> counter]
      history == IF counter > state.counter \/ state.reset_next THEN <<item>>
                 ELSE IF counter < state.counter THEN Append(state.history, item)
                 ELSE state.history
  IN [counter |-> counter, history |-> Newest(history), reset_next |-> FALSE]

MonitorInit ==
  /\ queued = [q \in Queue |-> 0] /\ key_set = {}
  /\ running = "none"
  /\ queue_state = << >>            \* a dictionary without keys
  /\ total_state = {}
  /\ reads = 0 /\ stopped_at = 0

\* Seconds and reports between the first and the last sample; their quotient is the rate.
WindowTime(state) == Last(state.history).at - state.history[1].at
WindowChange(state) == state.history[1].count - Last(state.history).count

\* When the rest will be done, times WindowChange.
CompletionEstimate(state) ==
  Last(state.history).at * WindowChange(state) + state.counter * WindowTime(state)

\* The states for which a rate and an estimate are shown.
Estimated(state) == state.counter > 0 /\ Len(state.history) > 1

\* What is read from Redis in a round: the keys are read anew each time, whatever
\* REDIS_KEY_SET_REFRESH says.
ReadStat == [q \in key_set |-> queued[q]]

\* The reports in the queues, each as its queue and its place there, and those in the
\* buffer of the daemon read last.
Total(buffer) ==
  buffer + Cardinality({ r \in key_set \X (1 .. MaxCount) : r[2] =< ReadStat[r[1]] })

\* One round.  The states seen so far are dropped if no daemon is running, but not if
\* there is none in Redis.
Read ==
  /\ reads < MaxReads
  /\ reads' = reads + 1
  /\ stopped_at' = IF running = "stopped" THEN reads + 1 ELSE stopped_at
  /\ LET seen == IF running = "stopped" THEN {} ELSE DOMAIN queue_state
     IN queue_state' =
          [ q \in seen \cup DOMAIN ReadStat |->
              IF q \notin DOMAIN ReadStat THEN queue_state[q]
              ELSE IF q \in seen THEN Updated(queue_state[q], ReadStat[q], reads + 1)
              ELSE NewState(ReadStat[q], reads + 1) ]
  /\ \E buffer \in IF running = "none" THEN {0} ELSE {0, 1} :
       total_state' =
         IF running = "stopped"
           THEN { Updated(NewState(0, reads + 1), Total(buffer), reads + 1) }
         ELSE IF total_state = {} THEN { NewState(Total(buffer), reads + 1) }
         ELSE { Updated(s, Total(buffer), reads + 1) : s \in total_state }
  /\ UNCHANGED <<queued, key_set, running>>

-----------------------------------------------------------------------------
(* What is watched: harvesters queue reports, daemons take them. *)

Fill(q) ==
  /\ queued[q] < MaxCount
  /\ queued' = [queued EXCEPT ![q] = @ + 1]
  /\ key_set' = key_set \cup {q}
  /\ UNCHANGED <<running, shown, reads, stopped_at>>

\* An old browsewatch.sh has no keys.
Take(q) ==
  /\ running # "stopped" /\ queued[q] > 0
  /\ queued' = [queued EXCEPT ![q] = @ - 1]
  /\ UNCHANGED <<key_set, running, shown, reads, stopped_at>>

\* The daemons start and stop.  One that has finished its jobs leaves no key
\* (browsewatchd2.py:293), one that was killed none but its unfinished jobs as soon as
\* its status has expired (454).
Switch ==
  /\ running' \in {"none", "running", "stopped"} \ {running}
  /\ UNCHANGED <<queued, key_set, shown, reads, stopped_at>>

MonitorDone == reads = MaxReads /\ UNCHANGED monitorvars

MonitorNext ==
  \/ Read \/ Switch \/ MonitorDone
  \/ \E q \in Queue : Fill(q) \/ Take(q)

MonitorSpec == MonitorInit /\ [][MonitorNext]_monitorvars

-----------------------------------------------------------------------------
(* Properties *)

\* The rate is one of reports that go, and the estimate lies in the future of the sample
\* from which it is made, by the number of reports that is shown beside it.
Sound(state) ==
  Estimated(state) =>
    /\ WindowChange(state) > 0 /\ WindowTime(state) > 0
    /\ CompletionEstimate(state) > Last(state.history).at * WindowChange(state)
    /\ Last(state.history).count = state.counter
    /\ Len(state.history) =< MaxHistory

\* What rate and completion_estimate divide (browsewatch_monitor.py:133): no estimate is
\* made of no change or backwards in time, however a queue rises, falls and stands still;
\* and no sample of a queue is older than the last round in which all daemons were found
\* stopped (343), so that this time is not part of its rate.  A time in which there was no
\* key of a daemon is: what ran then cannot be known.  (The samples of the total may begin
\* with the round itself.)
EstimateSound ==
  /\ \A state \in total_state : Sound(state)
  /\ \A q \in DOMAIN queue_state :
       /\ Sound(queue_state[q])
       /\ Estimated(queue_state[q]) => queue_state[q].history[1].at > stopped_at
===============================================================================
