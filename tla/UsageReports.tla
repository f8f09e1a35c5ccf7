----------------------------- MODULE UsageReports -----------------------------
(***************************************************************************)
(* The reports of usage.  Requests for browses and ingestions leave a line *)
(* in a log file; once a day the file is renamed and a command counts what *)
(* is in it, while other processes still log.  The web server is told to   *)
(* open the new file and drops its requests; a process that ingests looks  *)
(* for itself, before each line, whether the file it has open is the       *)
(* current one.  Begin and end of a report made by hand are left out.      *)
(*                                                                         *)
(* Source: ngeo_browse_server/control/control/reporting.py,                *)
(*         .../management/commands/ngeo_report.py,                         *)
(*         the settings of the project template, install/ngeo-install.sh   *)
(***************************************************************************)
EXTENDS Integers, FiniteSets, Sequences, SequencesExt

CONSTANTS Logger,     \* processes that log
          Counted,    \* user and layers of a request, or type and layer of a browse
          MaxDays,    \* how often the file is renamed (bound of the model)
          MaxLines,   \* how many lines there are altogether (bound)
          NoLine

ASSUME UsageAssumption ==
  /\ IsFiniteSet(Logger) /\ MaxDays \in Nat /\ MaxLines \in Nat /\ NoLine \notin Counted

VARIABLES log,        \* "access" or "ingest"
          now,        \* the time
          today,      \* the number of the current file
          files,      \* the lines in each
          handle,     \* the file each process has open
          line,       \* what it is about to log
          checked,    \* has it looked whether its file is the current one?
          rotation,   \* where the daily rotation is
          reports     \* the report of each file, and how many lines it has read

usagevars == <<log, now, today, files, handle, line, checked, rotation, reports>>

Days == 0 .. MaxDays
NoReport == [rows |-> {}, extraction |-> 0, read |-> -1, window |-> <<>>]
Logged == FoldLeft(LAMBDA n, d : n + Len(files[d]), 0, [ d \in 1 .. MaxDays + 1 |-> d - 1 ])

\* A request comes in, or a browse was ingested: either has its time from then on.
Occur(w) ==
  /\ line[w] = NoLine /\ Logged + Cardinality({ v \in Logger : line[v] # NoLine }) < MaxLines
  /\ now' = now + 1
  /\ \E what \in Counted, ok \in IF log = "access" THEN BOOLEAN ELSE {TRUE} :
       line' = [line EXCEPT ![w] = [time |-> now', what |-> what, ok |-> ok]]
  /\ UNCHANGED <<log, today, files, handle, checked, rotation, reports>>

\* Fault: a plain FileHandler.
KeepFile(w) ==
  /\ log = "ingest" /\ line[w] # NoLine /\ ~checked[w]
  /\ checked' = [checked EXCEPT ![w] = TRUE]
  /\ UNCHANGED <<log, now, today, files, handle, line, rotation, reports>>

\* WatchedFileHandler opens the file again if it is another one by now.
WatchFile(w) ==
  /\ log = "ingest" /\ line[w] # NoLine /\ ~checked[w]
  /\ handle' = [handle EXCEPT ![w] = today]
  /\ checked' = [checked EXCEPT ![w] = TRUE]
  /\ UNCHANGED <<log, now, today, files, line, rotation, reports>>

WriteLine(w) ==
  /\ line[w] # NoLine /\ (log = "ingest" => checked[w])
  /\ files' = [files EXCEPT ![handle[w]] = Append(@, line[w])]
  /\ line' = [line EXCEPT ![w] = NoLine]
  /\ checked' = [checked EXCEPT ![w] = FALSE]
  /\ UNCHANGED <<log, now, today, handle, rotation, reports>>

-----------------------------------------------------------------------------
\* logrotate renames the file; now says when.
Rotate ==
  /\ rotation = "done" /\ today < MaxDays
  /\ today' = today + 1
  /\ now' = now + 1
  /\ rotation' = IF log = "access" THEN "reload" ELSE "report"
  /\ UNCHANGED <<log, files, handle, line, checked, reports>>

\* service httpd reload
Reload ==
  /\ rotation = "reload"
  /\ handle' = [w \in Logger |-> today]
  /\ line' = [w \in Logger |-> NoLine]
  /\ rotation' = "report"
  /\ UNCHANGED <<log, now, today, files, checked, reports>>

\* Requests answered with 200 or 304 are put together by user and layers, under the time
\* of the last of them.
AccessRecords(lines) ==
  LET counting == { i \in DOMAIN lines : lines[i].ok }
      bin(what) == { i \in counting : lines[i].what = what }
  IN { [what |-> what, count |-> Cardinality(bin(what)),
        time |-> Max({ lines[i].time : i \in bin(what) })] :
         what \in { lines[i].what : i \in counting } }

\* Every ingestion has a row.
IngestRecords(lines) ==
  { [what |-> lines[i].what, count |-> 1, time |-> lines[i].time] : i \in DOMAIN lines }

\* get_report_xml; the header has the time of the extraction and the first and last time
\* of the rows.
ReportXml(lines) ==
  LET rows == IF log = "access" THEN AccessRecords(lines) ELSE IngestRecords(lines)
      times == { r.time : r \in rows }
  IN [rows |-> rows, extraction |-> now, read |-> Len(lines),
      window |-> IF rows = {} THEN <<>> ELSE << Min(times), Max(times) >>]

\* ngeo_report with the file that was renamed.
MakeReport ==
  /\ rotation = "report"
  /\ reports' = [reports EXCEPT ![today - 1] = ReportXml(files[today - 1])]
  /\ rotation' = "done"
  /\ UNCHANGED <<log, now, today, files, handle, line, checked>>

UsageWait == rotation = "done" /\ (\A w \in Logger : line[w] = NoLine) /\ UNCHANGED usagevars

UsageInit ==
  /\ log \in {"access", "ingest"} /\ now = 0 /\ today = 0
  /\ files = [d \in Days |-> <<>>]
  /\ handle = [w \in Logger |-> 0] /\ line = [w \in Logger |-> NoLine]
  /\ checked = [w \in Logger |-> FALSE] /\ rotation = "done"
  /\ reports = [d \in Days |-> NoReport]

UsageNext ==
  \/ Rotate \/ Reload \/ MakeReport \/ UsageWait
  \/ \E w \in Logger : Occur(w) \/ WatchFile(w) \/ WriteLine(w)

UsageSpec == UsageInit /\ [][UsageNext]_usagevars

-----------------------------------------------------------------------------
(* Properties *)

Counts(rows) == FoldSet(LAMBDA r, n : n + r.count, 0, rows)

\* A report counts every request and every ingestion that was logged until the file was
\* renamed, whoever logs meanwhile: what comes into the file when it has been read
\* (ngeo-install.sh:695, 721) was logged before, at most one line of each process that
\* ingests, because the handler (settings.py:247) never uses an old file again.
LinesReported ==
  \A d \in Days : reports[d] # NoReport =>
    LET report == reports[d]
        late == { i \in DOMAIN files[d] : i > report.read }
        counted == { i \in DOMAIN files[d] \ late : files[d][i].ok }
    IN /\ Counts(report.rows) = Cardinality(counted)
       /\ \A i \in counted : files[d][i].time =< report.window[2]
       /\ \A i \in late : files[d][i].time =< report.extraction
       /\ Cardinality(late) =< IF log = "access" THEN 0 ELSE Cardinality(Logger)
===============================================================================
