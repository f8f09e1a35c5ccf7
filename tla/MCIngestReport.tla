---------------------------- MODULE MCIngestReport ----------------------------
(***************************************************************************)
(* IngestReport with two browses, reports of up to two of them and four    *)
(* images: a browse is created, replaced or merged, and that once more.    *)
(***************************************************************************)
EXTENDS IngestReport, TLC

\* Images in the file system, or on Swift.
LocalOrSwift ==
  { [remote |-> FALSE, original |-> "delete"],
    [remote |-> TRUE, original |-> "move"] }

\* The browses of the layer are alike.
BrowsesAlike == Permutations(Id)
===============================================================================
