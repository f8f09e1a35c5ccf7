----------------------------- MODULE DaemonStatus -----------------------------
(***************************************************************************)
(* The status key in Redis by which a watch daemon keeps other daemons     *)
(* with its identifier from starting.  It is set to RUNNING by whoever     *)
(* starts, without an expiry, and with one by every poll for reports.  A   *)
(* daemon polls only when a worker is free and Redis can be reached.       *)
(* (WatchDaemon has what a daemon does; here are the processes.)           *)
(*                                                                         *)
(* Source: tools/browsewatchd2.py                                          *)
(***************************************************************************)
EXTENDS Naturals, FiniteSets

CONSTANTS Process     \* processes started with the same --daemon-id

VARIABLES status,     \* the key: "none", "RUNNING" or "STOPPED"
          expires,    \* does the key have an expiry?
          process,    \* of each process: "off", "polls", "waits" or "ends"
          finish,     \* was it started with --finish?
          unfinished  \* do the buffer or the jobs of the daemon exist?

vars == <<status, expires, process, finish, unfinished>>

Init ==
  /\ status = "none" /\ expires = FALSE /\ unfinished \in BOOLEAN
  /\ process = [p \in Process |-> "off"]
  /\ finish = [p \in Process |-> FALSE]

\* start_browsewatchd, _init_status: GET and SET are one transaction.  The exception
\* of a process that is refused leads to shutdown as any other end does.
Start(p) ==
  /\ process[p] = "off"
  /\ \E f \in BOOLEAN : finish' = [finish EXCEPT ![p] = f]
  /\ process' = [process EXCEPT ![p] = IF status = "RUNNING" THEN "ends" ELSE "polls"]
  /\ status' = "RUNNING" /\ expires' = FALSE
  /\ UNCHANGED unfinished

\* get_new_job; with --finish only the unfinished jobs are done.
Poll(p) ==
  /\ process[p] = "polls" /\ ~finish[p]
  /\ status' = "RUNNING" /\ expires' = TRUE
  /\ unfinished' \in BOOLEAN
  /\ UNCHANGED <<process, finish>>

\* All workers are busy, or Redis cannot be reached, for longer than the key lasts.
Wait(p) ==
  /\ process[p] \in {"polls", "waits"}
  /\ process' = [process EXCEPT ![p] = IF @ = "polls" THEN "waits" ELSE "polls"]
  /\ UNCHANGED <<status, expires, finish, unfinished>>

Expire ==
  /\ expires /\ \A p \in Process : process[p] = "polls" => finish[p]
  /\ status' = "none" /\ expires' = FALSE
  /\ UNCHANGED <<process, finish, unfinished>>

\* A signal, or the jobs of --finish are done.
Terminate(p) ==
  /\ process[p] \in {"polls", "waits"}
  /\ process' = [process EXCEPT ![p] = "ends"]
  /\ unfinished' \in IF finish[p] THEN {FALSE, unfinished} ELSE {unfinished}
  /\ UNCHANGED <<status, expires, finish>>

\* The end of shutdown.
Shutdown(p) ==
  /\ process[p] = "ends"
  /\ process' = [process EXCEPT ![p] = "off"]
  /\ status' = IF finish[p] /\ ~unfinished THEN "none" ELSE "STOPPED"
  /\ expires' = FALSE
  /\ UNCHANGED <<finish, unfinished>>

Crash(p) ==
  /\ process[p] # "off"
  /\ process' = [process EXCEPT ![p] = "off"]
  /\ UNCHANGED <<status, expires, finish, unfinished>>

Next ==
  \/ Expire
  \/ \E p \in Process :
       Start(p) \/ Poll(p) \/ Wait(p) \/ Terminate(p) \/ Shutdown(p) \/ Crash(p)

Spec == Init /\ [][Next]_vars

-----------------------------------------------------------------------------
\* "Daemon identifier, unique per each running daemon instance"
\* (browsewatchd2.py:805), which _init_status is there to ensure: two daemons with
\* one buffer and one hash of jobs would do and drop each other's reports.
OneDaemon ==
  Cardinality({ p \in Process : process[p] \in {"polls", "waits"} }) =< 1
===============================================================================
