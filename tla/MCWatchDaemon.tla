---------------------------- MODULE MCWatchDaemon ----------------------------
(***************************************************************************)
(* WatchDaemon with two queues, "a" and "b", the second of which is        *)
(* watched without being listed.                                           *)
(***************************************************************************)
EXTENDS WatchDaemon, TLC

\* The report bad cannot be parsed; b1 is a second report of a product if Second says so,
\* and any other has an id of its own.
CONSTANT Second

MCQueueOf == [r \in Report |-> IF r \in {"b1", "bad"} THEN "b" ELSE "a"]
MCJobOf   == [r \in Report |-> IF r = "bad" THEN Invalid ELSE IF r = "b1" THEN Second ELSE r]

WorkersAlike == Permutations(Worker)
==============================================================================
