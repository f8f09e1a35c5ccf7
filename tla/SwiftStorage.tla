----------------------------- MODULE SwiftStorage -----------------------------
(***************************************************************************)
(* The image storage on OpenStack Swift.  Every operation of the file      *)
(* manager is tried several times, whatever went wrong, and each try first *)
(* gets a token, which is kept until it has expired by the local clock.    *)
(* Requests and their answers may be lost, which a try cannot tell apart.  *)
(* The images of IngestReport have names of their own, so one client is    *)
(* enough; a map request reads an image with the token it was given, once. *)
(*                                                                         *)
(* Source: ngeo_browse_server/storage/swift/manager.py, auth.py,           *)
(*         ngeo_browse_server/storage/middleware.py                        *)
(***************************************************************************)
EXTENDS Integers, FiniteSets

CONSTANTS File,       \* names of images, below their prefix
          Retries,    \* how often an operation is tried
          Lifetime,   \* of a token
          Skews,      \* by how much the local clock may be behind that of the servers
          MaxClock,   \* time that passes (bound of the model)
          MaxCalls,   \* operations (bound)
          MaxFaults,  \* requests and answers that get lost (bound)
          NoToken

ASSUME SwiftAssumption ==
  /\ Retries \in Nat \ {0} /\ Lifetime \in Nat \ {0, 1}
  /\ {MaxClock, MaxCalls, MaxFaults} \subseteq Nat
  /\ Skews \subseteq Nat /\ NoToken \notin Nat

VARIABLES objects,  \* what is in the container
          clock,    \* time of the servers
          skew,
          expires,  \* when the token expires that the manager has, NoToken without one
          call,     \* the operation under way: what it is for, tries left, step
          last,     \* the last operation that ended, and how
          calls,
          faults    \* history: what went wrong in each operation so far

env == <<clock, skew>>
swiftvars == <<objects, env, expires, call, last, calls, faults>>

Ready == [op |-> "none", file |-> NoToken, left |-> 0, at |-> "ready", time |-> 0]
NoTrouble == [lost |-> 0, answers |-> 0, refused |-> 0]

SwiftInit ==
  /\ objects \in SUBSET File
  /\ clock = 0 /\ skew \in Skews
  /\ expires = NoToken /\ call = Ready /\ calls = 0
  /\ last = [op |-> "none", file |-> NoToken, outcome |-> "ok", before |-> objects]
  /\ faults = NoTrouble

\* A map request is one try of GDAL; the others are made by retry().
Tries(op) == IF op = "serve" THEN 1 ELSE Retries

\* The tokens of clients and the object behind them.
Accepted == expires # NoToken /\ clock < expires

Trouble == faults.lost + faults.answers
Injected(kind) == Trouble < MaxFaults /\ faults' = [faults EXCEPT ![kind] = @ + 1]

Begin(op, f) ==
  /\ call = Ready /\ calls < MaxCalls
  /\ calls' = calls + 1
  /\ call' = [op |-> op, file |-> f, left |-> Tries(op), at |-> "token", time |-> 0]
  /\ last' = [last EXCEPT !.before = objects]
  /\ faults' = NoTrouble
  /\ UNCHANGED <<objects, env, expires>>

EndOperation(outcome) ==
  /\ call' = Ready
  /\ last' = [op |-> call.op, file |-> call.file, outcome |-> outcome, before |-> last.before]

\* Fault: the first exception ends the operation.
TryOnce == EndOperation("failed")

\* An exception is forgotten as long as there are tries left.
TryAgain ==
  IF call.left > 1
    THEN call' = [call EXCEPT !.left = @ - 1, !.at = "token"] /\ UNCHANGED last
    ELSE EndOperation("failed")

\* _refresh_token: by the local clock the token is valid.
TokenValid == expires # NoToken /\ clock - skew < expires

\* get_args; a new token comes from Keystone.
GetToken ==
  /\ call.at = "token"
  /\ LET next == [call EXCEPT !.at = IF call.op = "upload" THEN "head" ELSE "request"]
     IN \/ TokenValid /\ call' = next /\ UNCHANGED <<expires, last, faults>>
        \/ /\ ~TokenValid
           /\ expires' = clock + Lifetime
           /\ call' = next /\ UNCHANGED <<last, faults>>
        \/ ~TokenValid /\ Injected("lost") /\ TryAgain /\ UNCHANGED expires
  /\ UNCHANGED <<objects, env, calls>>

\* Before an upload: a file that exists is not replaced.  Any other answer, that
\* the token is not accepted too, counts as its absence.
HeadRequest ==
  /\ call.at = "head"
  /\ \/ /\ ~(Accepted /\ call.file \in objects)
        /\ call' = [call EXCEPT !.at = "request"] /\ UNCHANGED <<last, faults>>
     \/ Accepted /\ call.file \in objects /\ TryAgain /\ UNCHANGED faults
     \/ Injected("lost") /\ TryAgain
  /\ UNCHANGED <<objects, env, expires, calls>>

\* What a request changes, and if it can be done.
Possible == CASE call.op = "upload" -> TRUE
              [] call.op \in {"delete", "download", "serve"} -> call.file \in objects
Effect == CASE call.op = "upload" -> objects \cup {call.file}
            [] call.op = "delete" -> objects \ {call.file}
            [] OTHER -> objects

\* PUT, DELETE or GET.
Request ==
  /\ call.at = "request"
  /\ \/ Accepted /\ Possible /\ objects' = Effect /\ EndOperation("ok") /\ UNCHANGED faults
     \/ Accepted /\ ~Possible /\ TryAgain /\ UNCHANGED <<objects, faults>>
     \/ ~Accepted /\ faults' = [faults EXCEPT !.refused = @ + 1] /\ TryAgain /\ UNCHANGED objects
     \/ Injected("lost") /\ TryAgain /\ UNCHANGED objects
     \/ Accepted /\ Possible /\ Injected("answers") /\ objects' = Effect /\ TryAgain
  /\ UNCHANGED <<env, expires, calls>>

\* An operation ends before a token that it got could expire.
Tick ==
  /\ clock < MaxClock /\ clock' = clock + 1
  /\ call.time < Lifetime - 1
  /\ call' = IF call = Ready THEN Ready ELSE [call EXCEPT !.time = @ + 1]
  /\ UNCHANGED <<objects, skew, expires, last, calls, faults>>

SwiftDone == call = Ready /\ UNCHANGED swiftvars

SwiftNext ==
  \/ \E op \in {"upload", "delete", "download", "serve"}, f \in File : Begin(op, f)
  \/ GetToken \/ HeadRequest \/ Request \/ Tick \/ SwiftDone

SwiftSpec == SwiftInit /\ [][SwiftNext]_swiftvars

-----------------------------------------------------------------------------
(* Properties *)

\* An operation that reports success had its effect, and fails only with a reason:
\* every try failed by itself, an answer was lost after the effect (the next try then
\* finds what the first has done, manager.py:30 and 49), the file was there or was not
\* to begin with, or a token expired on the way or because of the clocks (auth.py:102).
\* Without a lost answer a failure has changed nothing, as a rollback relies on.
SwiftAnswersTruly ==
  call = Ready =>
    LET done == IF last.op = "upload" THEN last.file \in objects
                ELSE IF last.op = "delete" THEN last.file \notin objects ELSE TRUE
        sensible == IF last.op = "upload" THEN last.file \notin last.before
                    ELSE last.file \in last.before
    IN /\ last.outcome = "ok" => done
       /\ last.outcome = "failed" /\ faults.answers = 0 => objects = last.before
       /\ last.outcome = "failed" /\ sensible =>
            \/ faults.answers > 0
            \/ faults.lost + faults.refused >= Tries(last.op)
       /\ faults.refused > 1 => skew > 0
===============================================================================
