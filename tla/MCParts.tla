-------------------------------- MODULE MCParts -------------------------------
(***************************************************************************)
(* The parts of the server that share no state with others, each by        *)
(* itself: a run is about one part, the others stand still.                *)
(***************************************************************************)
EXTENDS TimeGrouping, OverlapCheck, BrowseArea, SwiftStorage, QueueMonitor, NgeoConfig,
        UsageReports, ServerControl, TLC

CONSTANT MaxRows

VARIABLE part

\* OverlapCheck: every layer of up to four times on a short line.
AnyLayer ==
  { SetToSortSeq(S, Before) : S \in UNION { kSubset(k, Span) : k \in 1 .. MaxRows } }

\* NgeoConfig: one setting or two things at once, of which the second may be refused.
SomeChanges == { << "ingest" >>, << "log" >>, << "baseurl", "log" >>,
                 << "ingest", "unknown" >>, << "baseurl", "unknown" >> }

AnInstant == [start |-> 0, end |-> 0, minx |-> 0, maxx |-> 0]

\* The inputs of the parts that stand still.  (Layers are not evaluated for each of them.)
Still ==
  /\ IF part = "grouping" THEN TRUE ELSE areas = [i \in Item |-> AnInstant]
  /\ IF part = "overlap" THEN ScanInit
     ELSE /\ rows = << AnInstant >> /\ query = AnInstant /\ pc = "find"
          /\ index = 1 /\ current_index = 1 /\ merged_start = 0 /\ merged_end = 0
  /\ IF part = "area" THEN TRUE
     ELSE /\ browse = [geo_type |-> "rectifiedBrowse", lines |-> << << 0, 1 >> >>, rows |-> 1, cols |-> 2]
          /\ slice = At(0)
  /\ IF part = "swift" THEN TRUE ELSE objects = {} /\ skew = 0
  /\ IF part = "usage" THEN TRUE ELSE log = "access"

PartsInit ==
  /\ part \in {"grouping", "overlap", "area", "swift", "monitor", "config", "usage", "control"}
  /\ Still
  /\ Init /\ AreaInit /\ SwiftInit /\ MonitorInit /\ ConfigInit /\ UsageInit /\ ControlInit

partsvars ==
  <<part, vars, scanvars, areavars, swiftvars, monitorvars, confvars, usagevars,
    controlvars>>

PartsNext ==
  /\ UNCHANGED part
  /\ \/ /\ part = "grouping" /\ Next
        /\ UNCHANGED <<scanvars, areavars, swiftvars, monitorvars, confvars, usagevars, controlvars>>
     \/ /\ part = "overlap" /\ ScanNext
        /\ UNCHANGED <<vars, areavars, swiftvars, monitorvars, confvars, usagevars, controlvars>>
     \/ /\ part = "area" /\ AreaNext
        /\ UNCHANGED <<vars, scanvars, swiftvars, monitorvars, confvars, usagevars, controlvars>>
     \/ /\ part = "swift" /\ SwiftNext
        /\ UNCHANGED <<vars, scanvars, areavars, monitorvars, confvars, usagevars, controlvars>>
     \/ /\ part = "monitor" /\ MonitorNext
        /\ UNCHANGED <<vars, scanvars, areavars, swiftvars, confvars, usagevars, controlvars>>
     \/ /\ part = "config" /\ ConfigNext
        /\ UNCHANGED <<vars, scanvars, areavars, swiftvars, monitorvars, usagevars, controlvars>>
     \/ /\ part = "usage" /\ UsageNext
        /\ UNCHANGED <<vars, scanvars, areavars, swiftvars, monitorvars, confvars, controlvars>>
     \/ /\ part = "control" /\ ControlNext
        /\ UNCHANGED <<vars, scanvars, areavars, swiftvars, monitorvars, confvars, usagevars>>

PartsSpec == PartsInit /\ [][PartsNext]_partsvars
===============================================================================
