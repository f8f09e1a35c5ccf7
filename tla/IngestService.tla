---------------------------- MODULE IngestService -----------------------------
(***************************************************************************)
(* What the ingestion of browse reports promises to a client, without the  *)
(* images, databases and transactions it takes: the browses of a report    *)
(* are handled one after the other, each of them either replaces what the  *)
(* catalogue shows for its identifier or leaves the catalogue as it is,    *)
(* and the report is answered with what happened to each, unless the       *)
(* server dies.  The promise ends with the first commit or entry of the    *)
(* ingestion log that fails: the browse is then reported twice.            *)
(* IngestReport implements it.                                             *)
(*                                                                         *)
(* Source: ngeo_browse_server/control/ingest/__init__.py                   *)
(***************************************************************************)
EXTENDS Naturals, Sequences

CONSTANTS Id,      \* browses of a layer, by identifier
          Image,   \* images a browse can be shown with
          None     \* not in the catalogue

VARIABLES catalogue,   \* the image each browse is shown with
          items,       \* the report being ingested, the browses it lists
          outcomes,    \* what happened to those handled so far
          kept         \* the promise is still kept

vars == <<catalogue, items, outcomes, kept>>

Current == items[Len(outcomes) + 1]

Submit ==
  /\ items = <<>>
  /\ items' \in Seq(Id) /\ items' # <<>>
  /\ outcomes' = <<>>
  /\ UNCHANGED catalogue

Show(image) ==
  /\ Len(outcomes) < Len(items)
  /\ catalogue' = [catalogue EXCEPT ![Current] = image]
  /\ outcomes' = Append(outcomes, "success")
  /\ UNCHANGED items

\* The browse was not newer than the one there is, or could not be ingested.
Keep(outcome) ==
  /\ Len(outcomes) < Len(items)
  /\ outcomes' = Append(outcomes, outcome)
  /\ UNCHANGED <<catalogue, items>>

Answer ==
  /\ items # <<>> /\ Len(outcomes) = Len(items)
  /\ items' = <<>> /\ outcomes' = <<>>
  /\ UNCHANGED catalogue

\* The server dies: the report is not answered.
Die ==
  /\ items # <<>>
  /\ items' = <<>> /\ outcomes' = <<>>
  /\ UNCHANGED catalogue

Init == catalogue = [id \in Id |-> None] /\ items = <<>> /\ outcomes = <<>> /\ kept = TRUE

Handle ==
  \/ Submit \/ Answer \/ Die
  \/ \E image \in Image : Show(image)
  \/ \E outcome \in {"skipped", "failure"} : Keep(outcome)

Next == (kept' => kept /\ Handle) /\ kept' \in BOOLEAN

Spec == Init /\ [][Next]_vars
===============================================================================
